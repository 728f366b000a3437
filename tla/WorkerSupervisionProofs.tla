----------------------- MODULE WorkerSupervisionProofs -----------------------
(***************************************************************************)
(* Safety of WorkerSupervision for every set of workers, every policy and  *)
(* every answer to a cancellation.                                         *)
(***************************************************************************)
EXTENDS WorkerSupervision, TLAPS

\* A coroutine runs exactly while its supervisor waits for it.
RunOK(w) ==
  /\ alive[w] = 0 \/ alive[w] = 1
  /\ alive[w] = 1 => sup[w] \in {"waiting", "reaping"} /\ outcome[w] = "none"
  /\ sup[w] \in {"waiting", "reaping"} /\ alive[w] = 0 => outcome[w] # "none"

\* A supervisor that goes on has failures left.
BudgetOK(w) == sup[w] # "ended" => failures[w] < MaxFailures[w]

\* A cancelled supervisor that cannot start another coroutine: it has ended, was
\* cancelled itself, or waits for a coroutine that ends by the cancellation.
Doomed(w) ==
  \/ sup[w] = "ended"
  \/ supAsked[w]
  \/ sup[w] = "waiting" /\ w \notin Watched /\ alive[w] = 1 /\ asked[w]
  \/ sup[w] = "waiting" /\ alive[w] = 0 /\ outcome[w] = "cancelled"

StopOK(w) ==
  /\ main = "stopping" => Doomed(w)
  /\ main = "stopping" /\ w \notin awaited => sup[w] = "ended"
  /\ main \in {"closing", "ending"} => sup[w] = "ended"

\* While the process works nobody has cancelled a supervisor.
WatchOK(w) ==
  main = "watch" =>
    /\ ~supAsked[w]
    /\ sup[w] = "ended" => state[w] \in {"failed", "stopped"}

SupervisionInv ==
  /\ \A w \in Workers : RunOK(w) /\ BudgetOK(w) /\ WatchOK(w)
  /\ \A w \in Workers \ Stubborn : StopOK(w)
  /\ main = "stopping" => stopping

\* After a run that was not cancelled the types hold and the budget is kept.
LEMMA JudgeKeepsTypes ==
  ASSUME WorkersAssumption, TypeOK, NEW w \in Workers, NEW failed \in BOOLEAN,
         BudgetOK(w), sup[w] # "ended", Judge(w, failed),
         UNCHANGED <<main, stopping, managed, awaited, supAsked, runs>>
  PROVE  /\ TypeOK'
         /\ BudgetOK(w)'
         /\ sup'[w] \in {"asleep", "ended"}
         /\ sup'[w] = "ended" => state'[w] = "failed"
         /\ \A v \in Workers \ {w} :
              sup'[v] = sup[v] /\ state'[v] = state[v] /\ failures'[v] = failures[v]
<1> USE DEF WorkersAssumption, TypeOK
<1> DEFINE n == IF failed THEN failures[w] + 1 ELSE failures[w]
           again == ShouldRestart(w, n, failed)
<1>1. /\ failures' = [failures EXCEPT ![w] = n]
      /\ sup' = [sup EXCEPT ![w] = IF again THEN "asleep" ELSE "ended"]
      /\ state' = [state EXCEPT ![w] = IF again THEN "backing_off" ELSE "failed"]
      /\ fatal' = IF again THEN fatal ELSE PublishFatal(w)
  BY DEF Judge
<1>2. failures[w] \in Nat /\ MaxFailures[w] \in Nat /\ failures[w] < MaxFailures[w]
  BY DEF BudgetOK
<1>3. n \in Nat /\ n =< MaxFailures[w]
  BY <1>2
<1>4. again => n < MaxFailures[w]
  BY DEF ShouldRestart
<1>5. again \in BOOLEAN
  BY DEF ShouldRestart
<1> HIDE DEF n, again
<1>6. fatal' \in {"open", "set", "cancelled", "none"}
  BY <1>1, <1>5 DEF PublishFatal
<1>7. /\ failures'[w] = n
      /\ sup'[w] = IF again THEN "asleep" ELSE "ended"
      /\ state'[w] = IF again THEN "backing_off" ELSE "failed"
  BY <1>1
<1>8. \A v \in Workers \ {w} :
        sup'[v] = sup[v] /\ state'[v] = state[v] /\ failures'[v] = failures[v]
  BY <1>1
<1>9. TypeOK'
  BY <1>1, <1>3, <1>5, <1>6, <1>7, <1>8 DEF runs
<1> QED
  BY <1>2, <1>4, <1>5, <1>7, <1>8, <1>9 DEF BudgetOK

LEMMA InitHolds ==
  ASSUME WorkersAssumption, Init
  PROVE  TypeOK /\ SupervisionInv
<1>0. \A w \in Workers : MaxFailures[w] \in Nat /\ 0 < MaxFailures[w]
  BY DEF WorkersAssumption
<1>1. TypeOK
  <2>1. ASSUME NEW w \in Workers
        PROVE  failures[w] =< MaxFailures[w]
    BY <1>0 DEF Init
  <2> QED
    BY <2>1 DEF Init, TypeOK
<1>2. SupervisionInv
  BY <1>0 DEF Init, SupervisionInv, RunOK, BudgetOK, WatchOK, StopOK
<1> QED
  BY <1>1, <1>2

LEMMA BootKeeps ==
  ASSUME WorkersAssumption, Boot
  PROVE  TypeOK' /\ SupervisionInv'
<1>0. \A w \in Workers : MaxFailures[w] \in Nat /\ 0 < MaxFailures[w]
  BY DEF WorkersAssumption
<1>1. TypeOK'
  <2>1. ASSUME NEW w \in Workers
        PROVE  (failures[w] =< MaxFailures[w])'
    BY <1>0 DEF Boot
  <2> QED
    BY <2>1 DEF Boot, TypeOK
<1>2. SupervisionInv'
  BY <1>0 DEF Boot, SupervisionInv, RunOK, BudgetOK, WatchOK, StopOK
<1> QED
  BY <1>1, <1>2

\* The steps of a coroutine.
LEMMA CoroutineKeeps ==
  ASSUME WorkersAssumption, TypeOK, SupervisionInv, NEW w \in Workers,
         CoroutineEnds(w) \/ CoroutineLeaks(w) \/ CoroutineAnswers(w)
  PROVE  TypeOK' /\ SupervisionInv'
<1> USE DEF TypeOK, Running
<1>1. alive[w] = 1 /\ outcome[w] = "none" /\ sup[w] \in {"waiting", "reaping"}
  BY DEF SupervisionInv, RunOK, CoroutineEnds, CoroutineLeaks, CoroutineAnswers
<1>2. PICK how \in {"failed", "returned", "cancelled"} :
        /\ End(w, how)
        /\ asked[w] /\ w \notin Stubborn => how = "cancelled"
  BY DEF CoroutineEnds, CoroutineLeaks, CoroutineAnswers
<1>3. UNCHANGED <<main, manager, state, failures, sup, supAsked>>
  BY DEF CoroutineEnds, CoroutineLeaks, CoroutineAnswers
<1>4. ignored' \in [Workers -> Nat]
  BY DEF CoroutineEnds, CoroutineLeaks, CoroutineAnswers
<1>5. /\ alive'[w] = 0 /\ outcome'[w] = how
      /\ \A v \in Workers \ {w} :
           alive'[v] = alive[v] /\ outcome'[v] = outcome[v] /\ asked'[v] = asked[v]
  BY <1>1, <1>2 DEF End
<1>6. TypeOK'
  <2>1. /\ alive' = [alive EXCEPT ![w] = 0]
        /\ outcome' = [outcome EXCEPT ![w] = how]
        /\ asked' = [asked EXCEPT ![w] = FALSE]
    BY <1>1, <1>2 DEF End
  <2> QED
    BY <2>1, <1>3, <1>4 DEF manager
<1>7. \A v \in Workers : RunOK(v)' /\ BudgetOK(v)' /\ WatchOK(v)'
  BY <1>1, <1>2, <1>3, <1>5 DEF SupervisionInv, RunOK, BudgetOK, WatchOK
<1>8. \A v \in Workers \ Stubborn : StopOK(v)'
  BY <1>1, <1>2, <1>3, <1>5 DEF SupervisionInv, StopOK, Doomed, manager
<1>9. (main = "stopping" => stopping)'
  BY <1>3 DEF SupervisionInv, manager
<1> QED
  BY <1>6, <1>7, <1>8, <1>9 DEF SupervisionInv

\* The steps of a supervisor.
LEMMA SupervisorKeeps ==
  ASSUME WorkersAssumption, TypeOK, SupervisionInv, NEW w \in Workers,
         Supervisor(w) \/ HeartbeatTimeout(w)
  PROVE  TypeOK' /\ SupervisionInv'
<1> USE DEF TypeOK
<1>0. /\ RunOK(w) /\ BudgetOK(w) /\ WatchOK(w)
      /\ w \notin Stubborn => StopOK(w)
  BY DEF SupervisionInv
<1>1. CASE StartRun(w)
  <2>1. TypeOK'
    BY <1>1 DEF StartRun, manager
  <2>2. /\ alive'[w] = alive[w] + 1 /\ outcome'[w] = "none" /\ sup'[w] = "waiting"
        /\ \A v \in Workers \ {w} :
             /\ alive'[v] = alive[v] /\ outcome'[v] = outcome[v]
             /\ asked'[v] = asked[v] /\ sup'[v] = sup[v] /\ state'[v] = state[v]
        /\ UNCHANGED <<main, stopping, awaited, failures, supAsked>>
    BY <1>1 DEF StartRun, manager
  <2>3. alive[w] = 0
    BY <1>0, <1>1 DEF RunOK, StartRun
  <2>4. \A v \in Workers : RunOK(v)' /\ BudgetOK(v)' /\ WatchOK(v)'
    BY <1>1, <2>2, <2>3 DEF SupervisionInv, RunOK, BudgetOK, WatchOK, StartRun
  <2>5. w \notin Stubborn => main \notin {"stopping", "closing", "ending"}
    BY <1>0, <1>1 DEF StartRun, StopOK, SupervisionInv
  <2>6. \A v \in Workers \ Stubborn : StopOK(v)'
    BY <2>2, <2>5 DEF SupervisionInv, StopOK, Doomed
  <2> QED
    BY <2>1, <2>2, <2>4, <2>6 DEF SupervisionInv
<1>2. CASE LeaveLoop(w) \/ CancelledAsleep(w) \/ SupervisorCancelled(w)
  <2>1. /\ sup' = [sup EXCEPT ![w] = "ended"]
        /\ UNCHANGED <<main, manager, failures, supAsked, runs>>
        /\ \/ state' = [state EXCEPT ![w] = "stopped"]
           \/ state' = state /\ supAsked[w]
    BY <1>2 DEF LeaveLoop, CancelledAsleep, SupervisorCancelled
  <2>2. alive[w] = 0
    BY <1>0, <1>2 DEF RunOK, LeaveLoop, CancelledAsleep, SupervisorCancelled, Running
  <2>3. TypeOK'
    BY <2>1 DEF manager, runs
  <2>4. \A v \in Workers : RunOK(v)' /\ BudgetOK(v)' /\ WatchOK(v)'
    BY <2>1, <2>2 DEF SupervisionInv, RunOK, BudgetOK, WatchOK, runs, manager
  <2>5. \A v \in Workers \ Stubborn : StopOK(v)'
    BY <2>1, <2>2 DEF SupervisionInv, StopOK, Doomed, runs, manager
  <2> QED
    BY <2>1, <2>3, <2>4, <2>5 DEF SupervisionInv, manager
<1>3. CASE RunOver(w) \/ Reaped(w)
  <2>1. PICK failed \in BOOLEAN : Judge(w, failed)
    BY <1>3 DEF RunOver, Reaped
  <2>2. /\ sup[w] \in {"waiting", "reaping"} /\ ~supAsked[w] /\ ~Running(w)
        /\ sup[w] = "waiting" => outcome[w] \in {"failed", "returned"}
        /\ UNCHANGED <<main, stopping, managed, awaited, supAsked, runs>>
    BY <1>0, <1>3 DEF RunOver, Reaped, RunOK, Running
  <2>3. alive[w] = 0
    BY <1>0, <2>2 DEF RunOK, Running
  <2>4. sup[w] # "ended" /\ BudgetOK(w)
    BY <1>0, <2>2
  <2>5. /\ TypeOK'
        /\ BudgetOK(w)'
        /\ sup'[w] \in {"asleep", "ended"}
        /\ sup'[w] = "ended" => state'[w] = "failed"
        /\ \A v \in Workers \ {w} :
             sup'[v] = sup[v] /\ state'[v] = state[v] /\ failures'[v] = failures[v]
    BY <2>1, <2>2, <2>4, JudgeKeepsTypes
  <2>6. \A v \in Workers : RunOK(v)' /\ BudgetOK(v)' /\ WatchOK(v)'
    BY <2>2, <2>3, <2>5 DEF SupervisionInv, RunOK, BudgetOK, WatchOK, runs
  <2>7. w \notin Stubborn => main \notin {"stopping", "closing", "ending"}
    BY <1>0, <2>2, <2>3 DEF StopOK, Doomed
  <2>8. \A v \in Workers \ Stubborn : StopOK(v)'
    BY <2>2, <2>5, <2>7 DEF SupervisionInv, StopOK, Doomed, runs
  <2> QED
    BY <2>2, <2>5, <2>6, <2>8 DEF SupervisionInv
<1>4. CASE HeartbeatTimeout(w)
  <2>1. TypeOK'
    BY <1>4 DEF HeartbeatTimeout, manager
  <2>2. /\ sup[w] = "waiting" /\ ~supAsked[w] /\ w \in Watched /\ alive[w] > 0
        /\ sup' = [sup EXCEPT ![w] = "reaping"]
        /\ asked' = [asked EXCEPT ![w] = TRUE]
        /\ UNCHANGED <<main, stopping, awaited, state, failures, supAsked,
                       alive, outcome>>
    BY <1>4 DEF HeartbeatTimeout, manager, Running
  <2>3. \A v \in Workers : RunOK(v)' /\ BudgetOK(v)' /\ WatchOK(v)'
    BY <2>2 DEF SupervisionInv, RunOK, BudgetOK, WatchOK
  <2>4. w \notin Stubborn => main \notin {"stopping", "closing", "ending"}
    BY <1>0, <2>2 DEF StopOK, Doomed
  <2>5. \A v \in Workers \ Stubborn : StopOK(v)'
    BY <2>2, <2>4 DEF SupervisionInv, StopOK, Doomed
  <2> QED
    BY <2>1, <2>2, <2>3, <2>5 DEF SupervisionInv
<1> QED
  BY <1>1, <1>2, <1>3, <1>4 DEF Supervisor

\* The steps of the main coroutine, the end of the process and its start.
LEMMA MainKeeps ==
  ASSUME WorkersAssumption, TypeOK, SupervisionInv, Main \/ PollingEnds \/ Killed
  PROVE  TypeOK' /\ SupervisionInv'
<1> USE DEF TypeOK
<1>1. CASE PollingEnds \/ FatalSeen
  BY <1>1 DEF PollingEnds, FatalSeen, manager, runs, SupervisionInv, RunOK,
              BudgetOK, WatchOK, StopOK
<1>2. CASE CancelWorkers
  <2>1. TypeOK'
    BY <1>2 DEF CancelWorkers, CancelTasks, CancelReaches, Running
  <2>2. /\ main' = "stopping" /\ stopping' = TRUE /\ awaited' = Workers
        /\ UNCHANGED <<state, failures, sup, alive, outcome>>
        /\ \A w \in Workers :
             /\ asked'[w] = (asked[w] \/ Running(w))
             /\ supAsked'[w] = (supAsked[w] \/ CancelReaches(w))
    BY <1>2 DEF CancelWorkers, CancelTasks
  <2>3. \A w \in Workers : RunOK(w)' /\ BudgetOK(w)' /\ WatchOK(w)'
    BY <2>2 DEF SupervisionInv, RunOK, BudgetOK, WatchOK
  <2>4. ASSUME NEW w \in Workers \ Stubborn
        PROVE  StopOK(w)'
    <3>1. CASE sup[w] \in {"new", "asleep", "reaping"}
      BY <2>2, <3>1 DEF StopOK, Doomed, CancelReaches
    <3>2. CASE sup[w] = "ended"
      BY <2>2, <3>2 DEF StopOK, Doomed
    <3>3. CASE sup[w] = "waiting"
      BY <2>2, <3>3 DEF StopOK, Doomed, CancelReaches, Running, SupervisionInv, RunOK
    <3> QED
      BY <3>1, <3>2, <3>3
  <2> QED
    BY <2>1, <2>2, <2>3, <2>4 DEF SupervisionInv
<1>3. ASSUME NEW w \in Workers, AwaitEnded(w)
      PROVE  TypeOK' /\ SupervisionInv'
  BY <1>3 DEF AwaitEnded, runs, SupervisionInv, RunOK, BudgetOK, WatchOK, StopOK,
              Doomed
<1>4. ASSUME NEW w \in Workers, AwaitTimesOut(w)
      PROVE  TypeOK' /\ SupervisionInv'
  <2>1. /\ main = "stopping" /\ w \in awaited /\ Overruns(w)
        /\ awaited' = awaited \ {w}
        /\ state' = [state EXCEPT ![w] = "stopped"]
        /\ asked' = [asked EXCEPT ![w] = @ \/ Running(w)]
        /\ UNCHANGED <<main, fatal, stopping, managed, failures, sup, supAsked,
                       alive, outcome, ignored>>
    BY <1>4 DEF AwaitTimesOut
  <2>2. TypeOK'
    BY <2>1 DEF Running
  <2>3. w \in Stubborn
    BY <2>1 DEF Overruns, SupervisionInv, StopOK, Doomed
  <2>4. \A v \in Workers : RunOK(v)' /\ BudgetOK(v)' /\ WatchOK(v)'
    BY <2>1 DEF SupervisionInv, RunOK, BudgetOK, WatchOK
  <2>5. \A v \in Workers \ Stubborn : StopOK(v)'
    BY <2>1, <2>3 DEF SupervisionInv, StopOK, Doomed
  <2> QED
    BY <2>1, <2>2, <2>4, <2>5 DEF SupervisionInv
<1>5. CASE StopReturns
  BY <1>5 DEF StopReturns, runs, SupervisionInv, RunOK, BudgetOK, WatchOK, StopOK
<1>6. CASE CloseResources
  <2>1. TypeOK'
    BY <1>6 DEF CloseResources, CancelTasks, CancelReaches, Running, manager
  <2>2. /\ main = "closing" /\ main' = "ending"
        /\ UNCHANGED <<state, failures, sup, alive, outcome>>
    BY <1>6 DEF CloseResources
  <2> QED
    BY <2>1, <2>2 DEF SupervisionInv, RunOK, BudgetOK, WatchOK, StopOK
<1>7. CASE Exit \/ Killed
  <2>1. Down
    BY <1>7 DEF Exit, Killed
  <2> QED
    BY <2>1 DEF Down, manager, SupervisionInv, RunOK, BudgetOK, WatchOK, StopOK
<1>8. CASE Boot
  BY <1>8, BootKeeps
<1> QED
  BY <1>1, <1>2, <1>3, <1>4, <1>5, <1>6, <1>7, <1>8 DEF Main

LEMMA StutterKeeps ==
  ASSUME TypeOK, SupervisionInv, UNCHANGED vars
  PROVE  TypeOK' /\ SupervisionInv'
BY DEF TypeOK, SupervisionInv, RunOK, BudgetOK, WatchOK, StopOK, Doomed, vars,
       manager, runs

LEMMA SupervisionHolds == Spec => [](TypeOK /\ SupervisionInv)
<1>1. Init => TypeOK /\ SupervisionInv
  BY WorkersAssumption, InitHolds
<1>2. TypeOK /\ SupervisionInv /\ [Next]_vars => (TypeOK /\ SupervisionInv)'
  <2> SUFFICES ASSUME TypeOK, SupervisionInv, [Next]_vars
               PROVE  (TypeOK /\ SupervisionInv)'
    OBVIOUS
  <2>1. CASE UNCHANGED vars
    BY <2>1, StutterKeeps
  <2>2. CASE Main \/ PollingEnds \/ Killed
    BY <2>2, WorkersAssumption, MainKeeps
  <2>3. ASSUME NEW w \in Workers, Supervisor(w) \/ HeartbeatTimeout(w)
        PROVE  (TypeOK /\ SupervisionInv)'
    BY <2>3, WorkersAssumption, SupervisorKeeps
  <2>4. ASSUME NEW w \in Workers,
               CoroutineEnds(w) \/ CoroutineLeaks(w) \/ CoroutineAnswers(w)
        PROVE  (TypeOK /\ SupervisionInv)'
    BY <2>4, WorkersAssumption, CoroutineKeeps
  <2> QED
    BY <2>1, <2>2, <2>3, <2>4 DEF Next
<1> QED
  BY <1>1, <1>2, PTL DEF Spec

\* Every reachable state is well typed, and no worker fails more often than its
\* max_failures allows.
THEOREM SupervisionTypes == Spec => []TypeOK
BY SupervisionHolds, PTL

\* A worker's coroutine never runs beside an earlier one of the same worker.
THEOREM NoWorkerTwice == Spec => []OneRunPerWorker
<1>1. TypeOK /\ SupervisionInv => OneRunPerWorker
  <2> SUFFICES ASSUME SupervisionInv, NEW w \in Workers
               PROVE  alive[w] =< 1
    BY DEF OneRunPerWorker
  <2> QED
    BY DEF SupervisionInv, RunOK
<1> QED
  BY <1>1, SupervisionHolds, PTL

\* Whatever stubborn workers do, stop() leaves nothing of the others.
THEOREM StoppedWorkersAreGone == Spec => []GoneWhenStopped
<1>1. TypeOK /\ SupervisionInv => GoneWhenStopped
  BY DEF SupervisionInv, RunOK, StopOK, GoneWhenStopped
<1> QED
  BY <1>1, SupervisionHolds, PTL

\* What the probe counts as ready has a supervisor.
THEOREM ReadinessIsTrue == Spec => []ReadyIsSupervised
<1>1. TypeOK /\ SupervisionInv => ReadyIsSupervised
  BY DEF SupervisionInv, WatchOK, ReadyIsSupervised
<1> QED
  BY <1>1, SupervisionHolds, PTL

-------------------------------------------------------------------------------
(* The first half of CriticalFailureStops *)

\* While the process works, the future of the main coroutine waits or has a failure,
\* and it has one if a critical worker was given up.
FailurePublished ==
  main = "watch" =>
    /\ fatal \in {"open", "set"}
    /\ \A w \in Critical : state[w] = "failed" => fatal = "set"

\* Whoever else gives up, is cancelled or is restarted meanwhile, the failure of a
\* critical worker is where the main coroutine looks for it until it has left: the step
\* that CriticalFailureStops begins with is never taken from it.
THEOREM FailureReachesMain == Spec => []FailurePublished
<1> USE DEF FailurePublished
<1>1. Init => FailurePublished
  BY WorkersAssumption DEF Init, WorkersAssumption
<1>2. TypeOK /\ FailurePublished /\ [Next]_vars => FailurePublished'
  <2> SUFFICES ASSUME TypeOK, FailurePublished, [Next]_vars, main' = "watch"
               PROVE  FailurePublished'
    OBVIOUS
  <2> USE WorkersAssumption DEF WorkersAssumption, TypeOK
  <2>1. CASE UNCHANGED vars
    BY <2>1 DEF vars, manager
  <2>2. ASSUME NEW w \in Workers, NEW failed \in BOOLEAN,
               main' = main, Judge(w, failed)
        PROVE  FailurePublished'
    <3>1. /\ \A v \in Workers \ {w} : state'[v] = state[v]
          /\ \/ fatal' = fatal /\ state'[w] = "backing_off"
             \/ fatal' = PublishFatal(w) /\ state'[w] = "failed"
      <4> DEFINE n == IF failed THEN failures[w] + 1 ELSE failures[w]
                 again == ShouldRestart(w, n, failed)
      <4>1. /\ state' = [state EXCEPT ![w] = IF again THEN "backing_off" ELSE "failed"]
            /\ fatal' = IF again THEN fatal ELSE PublishFatal(w)
        BY <2>2 DEF Judge
      <4> HIDE DEF again
      <4> QED
        BY <4>1
    <3>2. /\ w \in Critical => PublishFatal(w) = "set"
          /\ w \notin Critical => PublishFatal(w) = fatal
      BY <2>2 DEF PublishFatal
    <3>3. fatal = "set" => PublishFatal(w) = "set"
      BY DEF PublishFatal
    <3> QED
      BY <2>2, <3>1, <3>2, <3>3
  <2>3. ASSUME NEW w \in Workers, RunOver(w) \/ Reaped(w)
        PROVE  FailurePublished'
    <3>1. PICK failed \in BOOLEAN : Judge(w, failed)
      BY <2>3 DEF RunOver, Reaped
    <3> QED
      BY <2>2, <2>3, <3>1 DEF RunOver, Reaped
  <2>4. ASSUME NEW w \in Workers,
               \/ StartRun(w) \/ LeaveLoop(w) \/ CancelledAsleep(w)
               \/ SupervisorCancelled(w) \/ HeartbeatTimeout(w)
               \/ CoroutineEnds(w) \/ CoroutineLeaks(w) \/ CoroutineAnswers(w)
        PROVE  FailurePublished'
    BY <2>4 DEF StartRun, LeaveLoop, CancelledAsleep, SupervisorCancelled,
                HeartbeatTimeout, CoroutineEnds, CoroutineLeaks, CoroutineAnswers, manager
  <2>5. CASE Boot
    BY <2>5 DEF Boot
  <2>6. ~ \/ FatalSeen \/ CancelWorkers \/ StopReturns \/ CloseResources
          \/ Exit \/ PollingEnds \/ Killed
          \/ \E w \in Workers : AwaitEnded(w) \/ AwaitTimesOut(w)
    BY DEF FatalSeen, CancelWorkers, StopReturns, CloseResources, Exit, PollingEnds, Killed,
           Down, AwaitEnded, AwaitTimesOut
  <2> QED
    BY <2>1, <2>3, <2>4, <2>5, <2>6 DEF Next, Main, Supervisor
<1> QED
  BY <1>1, <1>2, SupervisionTypes, PTL DEF Spec
=============================================================================
