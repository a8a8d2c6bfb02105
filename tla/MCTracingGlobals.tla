-------------------------- MODULE MCTracingGlobals --------------------------
(* The tracing globals of one goroutine that initialises three tracers, one *)
(* of them with a released constructor, and shuts them down in any order.   *)
EXTENDS TracingGlobals

MCThreads == {1}
MCReleased == [upstream |-> TRUE, provider |-> TRUE]
MCAdvanced == [upstream |-> FALSE, provider |-> TRUE]
MCPrograms == {<<MCAdvanced, MCAdvanced>>, <<MCAdvanced, MCReleased, MCAdvanced>>,
               <<MCReleased, MCAdvanced, MCAdvanced>>, <<MCAdvanced, MCAdvanced, MCReleased>>}
=============================================================================
