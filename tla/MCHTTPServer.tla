---------------------------- MODULE MCHTTPServer ----------------------------
(* The configurations of an HTTP server and the requests sent to it that     *)
(* together take every branch of the middleware chain.                       *)
EXTENDS HTTPServer

MCServerConfigs ==
    [upstream : BOOLEAN, static : BOOLEAN, logging : {TRUE}, tracing : {TRUE},
     cors : {"off", "terminate", "pass"},
     health : {<<>>, <<"passesHealth", "answersHealth">>}, user : {<<"authorize">>},
     response : {<<"errorHandler">>, <<"recovery">>}, parse : {TRUE},
     types : {{"external"}, {"external", "platform"}},
     unify : {FALSE}, notFound : {TRUE}, owned : {TRUE}]
MCHTTPRequests ==
    [method : {"GET", "OPTIONS", "POST"}, path : {"exact", "variant", "nested", "service"},
     data : {"good", "bad"}, token : {"valid", "bad"}, origin : {"denied"},
     fresh : {FALSE}, ends : {"panic"}]
    \cup {[method |-> "OPTIONS", path |-> "exact", data |-> "bad", token |-> "bad",
           origin |-> "allowed", fresh |-> FALSE, ends |-> "ok"]}
=============================================================================
