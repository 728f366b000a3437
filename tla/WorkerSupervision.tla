-------------------------- MODULE WorkerSupervision --------------------------
(***************************************************************************)
(* The background workers of one process: BackgroundTaskManager            *)
(* (bot/core/tasks.py) under the main coroutine of the bot                 *)
(* (bot/application.py) or of the userbot (userbot/application.py), and the *)
(* container that starts the process again.                                *)
(*                                                                         *)
(* A worker is two asyncio tasks: its coroutine, and a supervisor that     *)
(* awaits the coroutine and starts the next one.  One action is what a     *)
(* task does between two awaits.  A cancellation is a request: the task it *)
(* was made to acts on it at its next step, and a coroutine may answer it  *)
(* with an exception of its own (a failing cleanup), which the supervisor  *)
(* cannot tell from any other failure.                                     *)
(***************************************************************************)
EXTENDS Naturals

CONSTANTS
  Workers,      \* background workers of the process
  Critical,     \* those of criticality CRITICAL, the others are RECOVERABLE
  Always,       \* those restarted ALWAYS, the others ON_FAILURE
  Watched,      \* those with a heartbeat_timeout
  Stubborn,     \* those that may answer a cancellation late or with an error
  Leaky,        \* those a library may cancel from within
  MaxFailures,  \* max_failures of each worker
  MaxIgnored    \* bound: cancellations a stubborn coroutine answers otherwise

ASSUME WorkersAssumption ==
  /\ Critical \subseteq Workers /\ Always \subseteq Workers
  /\ Watched \subseteq Workers /\ Stubborn \subseteq Workers
  /\ Leaky \subseteq Workers
  /\ MaxFailures \in [Workers -> Nat \ {0}]
  /\ MaxIgnored \in Nat

VARIABLES
  main,      \* the main coroutine of the process
  fatal,     \* _fatal_failure
  stopping,  \* _stopping
  managed,   \* _workers is filled
  awaited,   \* supervisors that stop() still waits for
  state,     \* runtime.state, what the health probe reports
  failures,  \* runtime.failures
  sup,       \* where the supervisor is
  supAsked,  \* a cancellation of the supervisor is under way
  alive,     \* coroutines of the worker that have not ended
  outcome,   \* how the latest coroutine ended, "none" while it runs
  asked,     \* a cancellation of the coroutine is under way
  ignored    \* cancellations the worker has answered otherwise

manager == <<fatal, stopping, managed, awaited>>
runs == <<alive, outcome, asked, ignored>>
vars == <<main, manager, state, failures, sup, supAsked, runs>>

TypeOK ==
  /\ main \in {"watch", "leaving", "stopping", "closing", "ending", "down"}
  /\ fatal \in {"open", "set", "cancelled", "none"}
  /\ stopping \in BOOLEAN /\ managed \in BOOLEAN
  /\ awaited \subseteq Workers
  /\ state \in [Workers -> {"starting", "running", "backing_off",
                            "stopped", "failed"}]
  /\ failures \in [Workers -> Nat]
  /\ \A w \in Workers : failures[w] =< MaxFailures[w]
  /\ sup \in [Workers -> {"new", "waiting", "reaping", "asleep", "ended"}]
  /\ supAsked \in [Workers -> BOOLEAN]
  /\ alive \in [Workers -> Nat]
  /\ outcome \in [Workers -> {"none", "failed", "returned", "cancelled"}]
  /\ asked \in [Workers -> BOOLEAN]
  /\ ignored \in [Workers -> Nat]

Init ==
  /\ main = "watch" /\ fatal = "open" /\ stopping = FALSE
  /\ managed = TRUE /\ awaited = {}
  /\ state = [w \in Workers |-> "starting"]
  /\ failures = [w \in Workers |-> 0]
  /\ sup = [w \in Workers |-> "new"]
  /\ supAsked = [w \in Workers |-> FALSE]
  /\ alive = [w \in Workers |-> 0]
  /\ outcome = [w \in Workers |-> "none"]
  /\ asked = [w \in Workers |-> FALSE]
  /\ ignored = [w \in Workers |-> 0]

(***************************************************************************)
(* The coroutine of a worker.                                              *)
(***************************************************************************)
Running(w) == alive[w] > 0 /\ outcome[w] = "none"

End(w, how) ==
  /\ alive' = [alive EXCEPT ![w] = @ - 1]
  /\ outcome' = [outcome EXCEPT ![w] = how]
  /\ asked' = [asked EXCEPT ![w] = FALSE]

\* It raises or returns, nobody having cancelled it.
CoroutineEnds(w) ==
  /\ Running(w) /\ ~asked[w]
  /\ \E how \in {"failed", "returned"} : End(w, how)
  /\ UNCHANGED <<main, manager, state, failures, sup, supAsked, ignored>>

\* A future it awaits was cancelled by its owner; CancelledError passes all
\* its handlers of Exception.
CoroutineLeaks(w) ==
  /\ Running(w) /\ ~asked[w] /\ w \in Leaky
  /\ End(w, "cancelled")
  /\ UNCHANGED <<main, manager, state, failures, sup, supAsked, ignored>>

\* A cancellation arrives: CancelledError leaves the coroutine, or its
\* cleanup raises something else, or catches it and returns.
CoroutineAnswers(w) ==
  /\ Running(w) /\ asked[w]
  /\ \/ End(w, "cancelled") /\ UNCHANGED ignored
     \/ /\ w \in Stubborn /\ ignored[w] < MaxIgnored
        /\ \E how \in {"failed", "returned"} : End(w, how)
        /\ ignored' = [ignored EXCEPT ![w] = @ + 1]
  /\ UNCHANGED <<main, manager, state, failures, sup, supAsked>>

(***************************************************************************)
(* The supervisor of a worker.                                             *)
(***************************************************************************)
ShouldRestart(w, n, failed) ==
  n < MaxFailures[w] /\ (w \in Always \/ failed)

\* Mutant of PublishFatal: a recoverable worker's failure is told apart by its
\* restart policy.
PublishFatalByPolicy(w) ==
  IF w \in Critical /\ w \in Always /\ fatal = "open" THEN "set" ELSE fatal

\* The future that the main coroutine waits for, after w has given up.
PublishFatal(w) ==
  IF w \in Critical /\ fatal = "open" THEN "set" ELSE fatal

\* After a coroutine that was not cancelled: back off, or give up.
Judge(w, failed) ==
  LET n == IF failed THEN failures[w] + 1 ELSE failures[w]
      again == ShouldRestart(w, n, failed)
  IN  /\ failures' = [failures EXCEPT ![w] = n]
      /\ sup' = [sup EXCEPT ![w] = IF again THEN "asleep" ELSE "ended"]
      /\ state' = [state EXCEPT ![w] = IF again THEN "backing_off" ELSE "failed"]
      /\ fatal' = IF again THEN fatal ELSE PublishFatal(w)

\* The top of the loop, at the start and after the backoff.
StartRun(w) ==
  /\ sup[w] \in {"new", "asleep"} /\ ~supAsked[w] /\ ~stopping
  /\ sup' = [sup EXCEPT ![w] = "waiting"]
  /\ state' = [state EXCEPT ![w] = "running"]
  /\ alive' = [alive EXCEPT ![w] = @ + 1]
  /\ outcome' = [outcome EXCEPT ![w] = "none"]
  /\ asked' = [asked EXCEPT ![w] = FALSE]
  /\ UNCHANGED <<main, manager, failures, supAsked, ignored>>

\* The loop's condition fails: stop() is at work and did not cancel it.
LeaveLoop(w) ==
  /\ sup[w] \in {"new", "asleep"} /\ ~supAsked[w] /\ stopping
  /\ sup' = [sup EXCEPT ![w] = "ended"]
  /\ state' = [state EXCEPT ![w] = "stopped"]
  /\ UNCHANGED <<main, manager, failures, supAsked, runs>>

\* Cancelled in its sleep or before its first step: no handler sees it.
CancelledAsleep(w) ==
  /\ sup[w] \in {"new", "asleep"} /\ supAsked[w]
  /\ sup' = [sup EXCEPT ![w] = "ended"]
  /\ UNCHANGED <<main, manager, state, failures, supAsked, runs>>

\* Mutant of SupervisorCancelled: CancelledError has no handler here either.
CancelledUnseen(w) ==
  /\ sup[w] \in {"waiting", "reaping"} /\ ~Running(w)
  /\ supAsked[w] \/ (sup[w] = "waiting" /\ outcome[w] = "cancelled")
  /\ sup' = [sup EXCEPT ![w] = "ended"]
  /\ UNCHANGED <<main, manager, state, failures, supAsked, runs>>

\* CancelledError out of the wait: the supervisor's own cancellation, or the
\* coroutine's, which looks the same.
SupervisorCancelled(w) ==
  /\ sup[w] \in {"waiting", "reaping"} /\ ~Running(w)
  /\ supAsked[w] \/ (sup[w] = "waiting" /\ outcome[w] = "cancelled")
  /\ sup' = [sup EXCEPT ![w] = "ended"]
  /\ state' = [state EXCEPT ![w] = "stopped"]
  /\ UNCHANGED <<main, manager, failures, supAsked, runs>>

\* The coroutine raised or returned by itself.
RunOver(w) ==
  /\ sup[w] = "waiting" /\ ~supAsked[w]
  /\ outcome[w] \in {"failed", "returned"}
  /\ Judge(w, outcome[w] = "failed")
  /\ UNCHANGED <<main, stopping, managed, awaited, supAsked, runs>>

\* Mutant of HeartbeatTimeout: the failure is raised without waiting for the
\* cancelled coroutine.
TimeoutUnawaited(w) ==
  /\ w \in Watched /\ sup[w] = "waiting" /\ ~supAsked[w] /\ Running(w)
  /\ asked' = [asked EXCEPT ![w] = TRUE]
  /\ Judge(w, TRUE)
  /\ UNCHANGED <<main, stopping, managed, awaited, supAsked, alive, outcome,
                 ignored>>

\* No heartbeat for too long: cancel the coroutine and wait for its end ...
HeartbeatTimeout(w) ==
  /\ w \in Watched /\ sup[w] = "waiting" /\ ~supAsked[w] /\ Running(w)
  /\ asked' = [asked EXCEPT ![w] = TRUE]
  /\ sup' = [sup EXCEPT ![w] = "reaping"]
  /\ UNCHANGED <<main, manager, state, failures, supAsked, alive, outcome,
                 ignored>>

\* Mutant of Reaped: the wait for the coroutine lets its CancelledError pass.
ReapedAsCancelled(w) ==
  /\ sup[w] = "reaping" /\ ~supAsked[w] /\ ~Running(w)
  /\ sup' = [sup EXCEPT ![w] = "ended"]
  /\ state' = [state EXCEPT ![w] = "stopped"]
  /\ UNCHANGED <<main, manager, failures, supAsked, runs>>

\* ... which is a failure, however it ended.
Reaped(w) ==
  /\ sup[w] = "reaping" /\ ~supAsked[w] /\ ~Running(w)
  /\ Judge(w, TRUE)
  /\ UNCHANGED <<main, stopping, managed, awaited, supAsked, runs>>

(***************************************************************************)
(* The main coroutine: polling (or the Telegram client) against the        *)
(* monitor of the workers, stop(), and the end of asyncio.run.             *)
(***************************************************************************)
\* Polling returns or raises first.  The monitor that is cancelled then awaits
\* the future itself and takes it along.
PollingEnds ==
  /\ main = "watch"
  /\ main' = "leaving"
  /\ fatal' = IF fatal = "open" THEN "cancelled" ELSE fatal
  /\ UNCHANGED <<stopping, managed, awaited, state, failures, sup, supAsked, runs>>

FatalSeen ==
  /\ main = "watch" /\ fatal = "set"
  /\ main' = "leaving"
  /\ UNCHANGED <<manager, state, failures, sup, supAsked, runs>>

\* task.cancel() of a task that awaits another one is passed on: only a
\* supervisor that waits for its own timer or future, or whose coroutine has
\* just ended, is cancelled itself.
CancelReaches(w) ==
  \/ sup[w] \in {"new", "asleep", "reaping"}
  \/ sup[w] = "waiting" /\ (w \in Watched \/ ~Running(w))

CancelTasks ==
  /\ asked' = [w \in Workers |-> asked[w] \/ Running(w)]
  /\ supAsked' = [w \in Workers |-> supAsked[w] \/ CancelReaches(w)]

\* Mutant of CancelWorkers: the coroutines are cancelled and not their
\* supervisors.
CancelCoroutines ==
  /\ main = "leaving" /\ \A w \in Workers : sup[w] # "new"
  /\ main' = "stopping" /\ stopping' = TRUE /\ awaited' = Workers
  /\ asked' = [w \in Workers |-> asked[w] \/ Running(w)]
  /\ UNCHANGED <<fatal, managed, state, failures, sup, supAsked, alive,
                 outcome, ignored>>

\* stop(), after its two yields have let every supervisor take its first step.
CancelWorkers ==
  /\ main = "leaving" /\ \A w \in Workers : sup[w] # "new"
  /\ main' = "stopping" /\ stopping' = TRUE /\ awaited' = Workers
  /\ CancelTasks
  /\ UNCHANGED <<fatal, managed, state, failures, sup, alive, outcome, ignored>>

AwaitEnded(w) ==
  /\ main = "stopping" /\ w \in awaited /\ sup[w] = "ended"
  /\ awaited' = awaited \ {w}
  /\ state' = [state EXCEPT ![w] = "stopped"]
  /\ UNCHANGED <<main, fatal, stopping, managed, failures, sup, supAsked, runs>>

\* shutdown_timeout passes.  A coroutine that is not stubborn ends in time; a
\* backoff nobody cancelled can be longer.
Overruns(w) ==
  sup[w] # "ended" /\ (w \in Stubborn \/ (sup[w] = "asleep" /\ ~supAsked[w]))

AwaitTimesOut(w) ==
  /\ main = "stopping" /\ w \in awaited /\ Overruns(w)
  /\ awaited' = awaited \ {w}
  /\ state' = [state EXCEPT ![w] = "stopped"]
  /\ asked' = [asked EXCEPT ![w] = @ \/ Running(w)]
  /\ UNCHANGED <<main, fatal, stopping, managed, failures, sup, supAsked, alive,
                 outcome, ignored>>

StopReturns ==
  /\ main = "stopping" /\ awaited = {}
  /\ main' = "closing" /\ fatal' = "none" /\ stopping' = FALSE
  /\ managed' = FALSE
  /\ UNCHANGED <<awaited, state, failures, sup, supAsked, runs>>

\* The bot session and the database are closed; asyncio.run cancels whatever
\* tasks are left ...
CloseResources ==
  /\ main = "closing" /\ main' = "ending"
  /\ CancelTasks
  /\ UNCHANGED <<manager, state, failures, sup, alive, outcome, ignored>>

\* The process is gone, and its tasks with it.
Down ==
  /\ main' = "down"
  /\ sup' = [w \in Workers |-> "ended"]
  /\ alive' = [w \in Workers |-> 0]
  /\ UNCHANGED <<manager, state, failures, supAsked, outcome, asked, ignored>>

\* ... and waits for them without a timeout.
Exit ==
  /\ main = "ending" /\ \A w \in Workers : sup[w] = "ended"
  /\ Down

Killed == main # "down" /\ Down

\* restart: unless-stopped
Boot ==
  /\ main = "down"
  /\ main' = "watch" /\ fatal' = "open" /\ stopping' = FALSE
  /\ managed' = TRUE /\ awaited' = {}
  /\ state' = [w \in Workers |-> "starting"]
  /\ failures' = [w \in Workers |-> 0]
  /\ sup' = [w \in Workers |-> "new"]
  /\ supAsked' = [w \in Workers |-> FALSE]
  /\ alive' = [w \in Workers |-> 0]
  /\ outcome' = [w \in Workers |-> "none"]
  /\ asked' = [w \in Workers |-> FALSE]
  /\ ignored' = [w \in Workers |-> 0]

Supervisor(w) ==
  StartRun(w) \/ LeaveLoop(w) \/ CancelledAsleep(w) \/ SupervisorCancelled(w)
  \/ RunOver(w) \/ Reaped(w)

Main ==
  FatalSeen \/ CancelWorkers \/ StopReturns \/ CloseResources \/ Exit \/ Boot
  \/ \E w \in Workers : AwaitEnded(w) \/ AwaitTimesOut(w)

Next ==
  \/ \E w \in Workers :
       \/ Supervisor(w) \/ HeartbeatTimeout(w)
       \/ CoroutineEnds(w) \/ CoroutineLeaks(w) \/ CoroutineAnswers(w)
  \/ Main \/ PollingEnds \/ Killed

Spec == Init /\ [][Next]_vars

\* The event loop runs every task that is ready, a cancelled coroutine ends,
\* and the container is started again; the process is not killed before each
\* start of a worker for ever.  Nothing makes a worker fail or the process
\* leave.
FairSpec ==
  /\ Spec /\ WF_vars(Main)
  /\ \A w \in Workers :
       /\ WF_vars(Supervisor(w)) /\ WF_vars(CoroutineAnswers(w))
       /\ SF_vars(StartRun(w))

(***************************************************************************)
(* Properties.                                                             *)
(***************************************************************************)
\* The supervisor never starts a coroutine while an earlier one of the same
\* worker still runs, timed out and cancelled as it may be: a worker's loop
\* never runs beside itself (_wait_worker).
OneRunPerWorker == \A w \in Workers : alive[w] =< 1

\* When stop() has returned, nothing of a worker that honours cancellation is
\* left, wherever its supervisor was and whatever the other workers do: the
\* database and the Telegram session are closed next.
GoneWhenStopped ==
  main \in {"closing", "ending"} =>
    \A w \in Workers \ Stubborn : sup[w] = "ended" /\ alive[w] = 0

\* A worker the health probe counts as ready has a supervisor that will run
\* it: readiness is computed from the state alone (HealthProbeServer.snapshot,
\* readiness_status).
ReadyIsSupervised ==
  main = "watch" =>
    \A w \in Workers : sup[w] = "ended" => state[w] \in {"failed", "stopped"}

\* A critical worker that has given up brings the process to its last step,
\* through stop() with its timeouts and the closing of every resource, whatever
\* the other workers do meanwhile.
CriticalFailureStops ==
  \A w \in Critical :
    (main = "watch" /\ state[w] = "failed") ~> (main \in {"ending", "down"})

\* A critical worker runs again and again, by its supervisor or by the
\* container, unless the process hangs in its last step on a worker that did
\* not honour the last cancellation: the fairness the other modules assume of
\* their loops.
CriticalKeepsRunning ==
  \A w \in Critical \ Leaky : []<>(alive[w] > 0) \/ <>[](main = "ending")
=============================================================================
