--------------------------- MODULE HealthChecker ---------------------------
(* The dependency checker of health/health.go: registered checks, the loops  *)
(* that mirror their result into the liveness file, and the calls that       *)
(* start, replace, stop and reset those loops while user checks block.  A    *)
(* critical section under periodicMu is one step; everything the code waits  *)
(* for outside that mutex (a check, a file write, a join) is a step of its   *)
(* own, so a stop may fall between any two of them.                          *)
EXTENDS Naturals, FiniteSets

CONSTANTS
    Callers,      \* goroutines using the checker's methods
    Deps,         \* dependencies that may be registered
    Skipped,      \* those whose SKIP_HEALTH_CHECK_* variable is true
    MaxLoops,     \* bound: periodic loops ever started
    MaxGen        \* bound: stops and resets

VARIABLES
    checks,       \* the registered checks
    generation,   \* periodicGeneration
    started,      \* loops started so far: loop k is the k-th
    loop,         \* loop k: checking, admitted to write, selecting or done
    stopped,      \* loop k: stop signal and stopped flag
    dones,        \* periodicDones: loops not known to be finished
    startMu,      \* the caller holding periodicStartMu, or none
    call,         \* per caller: where its call is
    file,         \* the liveness file exists
    cleanups,     \* removals running on behalf of callers that left
    requestGen,   \* history: generation seen when loop k was requested
    quiet         \* history: an unbounded Reset returned, nothing started since

healthVars == <<checks, generation, started, loop, stopped, dones, startMu,
                call, file, cleanups, requestGen, quiet>>

Loops == 1..MaxLoops
NoCaller == "nobody"
Idle == [at |-> "idle", bounded |-> FALSE, reset |-> FALSE, gen |-> 0,
         joins |-> {}, mark |-> 0]

Init ==
    /\ checks = {} /\ generation = 0 /\ started = 0
    /\ loop = [k \in Loops |-> "none"]
    /\ stopped = [k \in Loops |-> FALSE]
    /\ dones = {} /\ startMu = NoCaller
    /\ call = [c \in Callers |-> Idle]
    /\ file = FALSE /\ cleanups = 0
    /\ requestGen = [k \in Loops |-> 0]
    /\ quiet = FALSE

(* AddCheck.                                                                *)
Register(d) ==
    /\ d \notin checks
    /\ checks' = checks \cup {d}
    /\ UNCHANGED <<generation, started, loop, stopped, dones, startMu, call,
                   file, cleanups, requestGen, quiet>>

(* The errors one Check may collect: any registered dependency may be down, *)
(* except those the environment tells it to skip.                           *)
Errors == SUBSET (checks \ Skipped)

(* startPeriodicCheckLocked: a new loop, which checks at once.              *)
StartLocked(gen) ==
    /\ started < MaxLoops
    /\ started' = started + 1
    /\ loop' = [loop EXCEPT ![started + 1] = "checking"]
    /\ dones' = dones \cup {started + 1}
    /\ requestGen' = [requestGen EXCEPT ![started + 1] = gen]
    /\ quiet' = FALSE

(* stopPeriodicCheckLocked: signal every loop, forget the finished ones and *)
(* keep the rest for later callers to wait for as well.                     *)
Unfinished == {k \in dones : loop[k] # "done"}

StopLocked ==
    /\ stopped' = [k \in Loops |-> stopped[k] \/ k <= started]
    /\ dones' = Unfinished

(* startPeriodicCheck reads the generation, then queues for periodicStartMu.*)
RequestManaged(c) ==
    /\ call[c].at = "idle"
    /\ call' = [call EXCEPT ![c] = [Idle EXCEPT !.at = "queued", !.gen = generation]]
    /\ UNCHANGED <<checks, generation, started, loop, stopped, dones, startMu,
                   file, cleanups, requestGen, quiet>>

(* A superseded request leaves; any other stops the present loops and waits *)
(* for them, holding periodicStartMu only.                                  *)
Current(c) == call[c].gen = generation

Replace(c) ==
    /\ call[c].at = "queued" /\ startMu = NoCaller
    /\ IF Current(c)
       THEN /\ StopLocked
            /\ startMu' = c
            /\ call' = [call EXCEPT ![c] = [@ EXCEPT !.at = "replacing", !.joins = Unfinished]]
       ELSE /\ call' = [call EXCEPT ![c] = Idle]
            /\ UNCHANGED <<stopped, dones, startMu>>
    /\ UNCHANGED <<checks, generation, started, loop, file, cleanups, requestGen, quiet>>

Joined(c) == \A k \in call[c].joins : loop[k] = "done"

\* Mutant: the generation is not compared again after the wait.
StartAnyway(c) == StartLocked(call[c].gen)

StartIfCurrent(c) ==
    IF Current(c) THEN StartLocked(call[c].gen)
    ELSE UNCHANGED <<started, loop, dones, requestGen, quiet>>

FinishReplace(c) ==
    /\ call[c].at = "replacing" /\ Joined(c)
    /\ StartIfCurrent(c)
    /\ startMu' = NoCaller
    /\ call' = [call EXCEPT ![c] = Idle]
    /\ UNCHANGED <<checks, generation, stopped, file, cleanups>>

(* StartPeriodicCheck adds a loop without touching the others.              *)
StartAdditional(c) ==
    /\ call[c].at = "idle"
    /\ StartLocked(generation)
    /\ UNCHANGED <<checks, generation, stopped, startMu, call, file, cleanups>>

(* StopPeriodicCheckContext and the first half of ResetContext.             *)
BeginStop(c, bounded, reset) ==
    /\ call[c].at = "idle" /\ generation < MaxGen
    /\ generation' = generation + 1
    /\ StopLocked
    /\ call' = [call EXCEPT ![c] = [Idle EXCEPT !.at = "stopping", !.bounded = bounded,
                      !.reset = reset, !.joins = Unfinished, !.mark = started]]
    /\ UNCHANGED <<checks, started, loop, startMu, file, cleanups, requestGen, quiet>>

(* waitForPeriodicChecks ends with the last join, or with a caller's        *)
(* deadline.  A reset then clears the checks whatever the wait returned.    *)
EndStop(c) ==
    /\ call[c].at = "stopping"
    /\ Joined(c) \/ call[c].bounded
    /\ IF call[c].reset
       THEN /\ checks' = {}
            /\ call' = [call EXCEPT ![c].at = "cleaning"]
       ELSE /\ call' = [call EXCEPT ![c] = Idle]
            /\ UNCHANGED checks
    /\ UNCHANGED <<generation, started, loop, stopped, dones, startMu, file,
                   cleanups, requestGen, quiet>>

(* runHealthFileCleanup: synchronous without a deadline, otherwise a        *)
(* goroutine that the caller may leave behind.                              *)
Cleanup(c) ==
    /\ call[c].at = "cleaning"
    /\ \/ /\ file' = FALSE
          /\ quiet' = (quiet \/ (~call[c].bounded /\ call[c].mark = started))
          /\ UNCHANGED cleanups
       \/ /\ call[c].bounded /\ cleanups < Cardinality(Callers)
          /\ cleanups' = cleanups + 1
          /\ UNCHANGED <<file, quiet>>
    /\ call' = [call EXCEPT ![c] = Idle]
    /\ UNCHANGED <<checks, generation, started, loop, stopped, dones, startMu, requestGen>>

LateCleanup ==
    /\ cleanups > 0
    /\ cleanups' = cleanups - 1 /\ file' = FALSE
    /\ UNCHANGED <<checks, generation, started, loop, stopped, dones, startMu,
                   call, requestGen, quiet>>

(* The loop: writeHealthFileIfActive reads the stopped flag after Check and *)
(* writes or removes the file only if it was clear; then it waits for a     *)
(* tick or the stop signal, whichever select takes.                         *)
Admit(k) ==
    /\ loop[k] = "checking"
    /\ loop' = [loop EXCEPT ![k] = IF stopped[k] THEN "done" ELSE "admitted"]
    /\ UNCHANGED <<checks, generation, started, stopped, dones, startMu, call,
                   file, cleanups, requestGen, quiet>>

Write(k) ==
    /\ loop[k] = "admitted"
    /\ \E errs \in Errors : file' = (errs = {})
    /\ loop' = [loop EXCEPT ![k] = "selecting"]
    /\ UNCHANGED <<checks, generation, started, stopped, dones, startMu, call,
                   cleanups, requestGen, quiet>>

Select(k) ==
    /\ loop[k] = "selecting"
    /\ \/ loop' = [loop EXCEPT ![k] = "checking"]
       \/ stopped[k] /\ loop' = [loop EXCEPT ![k] = "done"]
    /\ UNCHANGED <<checks, generation, started, stopped, dones, startMu, call,
                   file, cleanups, requestGen, quiet>>

Next ==
    \/ \E d \in Deps : Register(d)
    \/ \E c \in Callers :
          \/ RequestManaged(c) \/ Replace(c) \/ FinishReplace(c) \/ StartAdditional(c)
          \/ \E bounded, reset \in BOOLEAN : BeginStop(c, bounded, reset)
          \/ EndStop(c) \/ Cleanup(c)
    \/ LateCleanup
    \/ \E k \in Loops : Admit(k) \/ Write(k) \/ Select(k)

Spec == Init /\ [][Next]_healthVars

-----------------------------------------------------------------------------
(* StopPeriodicCheckContext: once a stop has been signalled no loop that was *)
(* requested before it, even by a start still queued behind another one, is  *)
(* left running without a stop signal.                                       *)
StopOvertakesQueuedStart ==
    \A k \in 1..started : ~stopped[k] => requestGen[k] = generation

(* Reset without a deadline: when it has returned and nothing was started    *)
(* since, the liveness file is gone and stays gone, although an earlier      *)
(* bounded stop may have left writers behind.                                *)
ResetLeavesNoFile == quiet => ~file

(* What a new caller must still join: a loop that can still write is never   *)
(* forgotten by the list of done channels.                                   *)
UnfinishedAreKept == \A k \in 1..started : loop[k] # "done" => k \in dones
=============================================================================
