---------------------- MODULE AutomationSupervisorProofs ----------------------
(***************************************************************************)
(* For scenarios of any length, any timeouts and any number of runs in the *)
(* same directory: a headless run that reports success has passed; a       *)
(* worker is killed only when its phase had its time; and a timeout is     *)
(* blamed on the step the markers told of.                                 *)
(***************************************************************************)
EXTENDS AutomationSupervisor, SequenceTheorems, TLAPS

Supervised == {"poll", "look", "check", "sleep"}
\* There is a result, and it is of this run.
Current == result_json # None /\ result_json.run = run

WorkerShape(w) ==
    /\ DOMAIN w = {"at", "step", "passed", "exit_code"}
    /\ w.passed \in BOOLEAN
    /\ w.exit_code \in {0, 1}

Shape ==
    /\ run \in Nat
    /\ result_json # None => result_json.run \in 0 .. run
    /\ WorkerShape(worker)
    /\ supervisor \in Supervised \cup {"idle", "returned", "failed"}
    /\ supervisor # "idle" => report = None

\* Until the supervisor returns there is no outcome; a worker that was killed has failed;
\* otherwise the outcome is that of the worker.
OutcomeIsWorkers ==
    /\ supervisor # "returned" => result = NoResult
    /\ supervisor = "returned" =>
           IF result.timed_out THEN result.exit_code = 1 ELSE result.exit_code = worker.exit_code

\* Nobody waits for a worker that still runs.
NoneLeftBehind == supervisor \notin Supervised => ~Alive

\* The worker writes its result last, and as it then stands.
ResultIsLast ==
    supervisor # "idle" /\ Current =>
        /\ worker.at \in {"written", "exit", "dead"}
        /\ worker.passed => result_json = [run |-> run, passed |-> TRUE]

\* A worker that ended well has passed, or has left no result.
CleanExitIsEarned ==
    /\ supervisor \in Supervised \/ (supervisor = "returned" /\ ~result.timed_out)
    /\ worker.at = "dead" /\ worker.exit_code = 0
    => worker.passed \/ ~Current

EarnedInv ==
    /\ Shape /\ OutcomeIsWorkers /\ NoneLeftBehind /\ ResultIsLast /\ CleanExitIsEarned
    /\ SuccessIsEarned

USE TimesAssumption DEF told, supervision, truth
-----------------------------------------------------------------------------
\* The first state: no run, no result, no report.
LEMMA InitEarned == Init => EarnedInv
<1> SUFFICES ASSUME Init PROVE EarnedInv
  OBVIOUS
<1>1. Shape
  <2>1. run \in Nat
    BY DEF Init
  <2>2. WorkerShape(worker)
    BY DEF Init, WorkerShape
  <2>3. supervisor \in Supervised \cup {"idle", "returned", "failed"}
    BY DEF Init, Supervised
  <2> QED
    BY <2>1, <2>2, <2>3 DEF Init, Shape
<1>2. OutcomeIsWorkers /\ NoneLeftBehind
  BY DEF Init, OutcomeIsWorkers, NoneLeftBehind, Alive
<1>3. ResultIsLast /\ CleanExitIsEarned
  BY DEF Init, ResultIsLast, CleanExitIsEarned, Supervised
<1>4. SuccessIsEarned
  BY DEF Init, SuccessIsEarned
<1> QED
  BY <1>1, <1>2, <1>3, <1>4 DEF EarnedInv

\* A new run makes every result that is there one of an earlier run.
LEMMA StartEarned == EarnedInv /\ Start => EarnedInv'
<1> SUFFICES ASSUME EarnedInv, Start PROVE EarnedInv'
  OBVIOUS
<1>1. Shape'
  <2>1. run' \in Nat /\ (result_json' # None => result_json'.run \in 0 .. run')
    BY DEF EarnedInv, Start, Shape
  <2>2. PICK at \in {"init", "none"} :
           worker' = [at |-> at, step |-> 0, passed |-> FALSE, exit_code |-> 0]
    BY DEF Start
  <2>3. WorkerShape(worker')
    BY <2>2 DEF WorkerShape
  <2>4. supervisor' \in Supervised \cup {"idle", "returned", "failed"} /\ report' = None
    BY DEF Start, Supervised
  <2> QED
    BY <2>1, <2>3, <2>4 DEF Shape
<1>2. ~Current'
  BY DEF EarnedInv, Start, Current, Shape
<1>3. OutcomeIsWorkers' /\ NoneLeftBehind'
  BY DEF EarnedInv, Start, OutcomeIsWorkers, NoneLeftBehind, Supervised, Alive
<1>4. SuccessIsEarned'
  BY DEF Start, SuccessIsEarned
<1> QED
  BY <1>1, <1>2, <1>3, <1>4 DEF EarnedInv, ResultIsLast, CleanExitIsEarned

\* What Worker says of the worker of the next state.
LEMMA WorkerMoves ==
  ASSUME WorkerShape(worker), NEW at, NEW step, NEW passed \in BOOLEAN, Worker(at, step, passed)
  PROVE  /\ WorkerShape(worker')
         /\ worker'.at = at /\ worker'.passed = passed /\ worker'.exit_code = worker.exit_code
  BY DEF Worker, WorkerShape

\* The worker: what it writes last is its result, and it is the outcome it exits with.
LEMMA WorkerEarned == EarnedInv /\ WorkerStep => EarnedInv'
<1> SUFFICES ASSUME EarnedInv, WorkerStep PROVE EarnedInv'
  OBVIOUS
<1>1. Alive /\ supervisor \in Supervised
  BY DEF EarnedInv, WorkerStep, NoneLeftBehind, Alive, Initialize, MarkRuntimeReady, BeginStep,
         EndStep, MarkWorkerScenarioComplete, TearDown, WriteResult,
         MarkWorkerShutdownComplete, Exit
<1>2. UNCHANGED <<run, supervisor, result, report>>
  BY DEF WorkerStep, supervision
<1>3. WorkerShape(worker) /\ worker.passed \in BOOLEAN
  BY DEF EarnedInv, Shape, WorkerShape
<1>4. OutcomeIsWorkers' /\ NoneLeftBehind' /\ SuccessIsEarned'
  BY <1>1, <1>2 DEF EarnedInv, Shape, OutcomeIsWorkers, NoneLeftBehind, SuccessIsEarned,
                    Supervised
<1>5. Current /\ worker.at # "dead" => worker.at \in {"written", "exit"}
  BY <1>1 DEF EarnedInv, ResultIsLast, Supervised
<1>6. CASE Initialize \/ MarkRuntimeReady \/ BeginStep \/ EndStep
             \/ MarkWorkerScenarioComplete \/ TearDown
  <2>1. UNCHANGED result_json /\ ~Current
    BY <1>5, <1>6 DEF Initialize, MarkRuntimeReady, BeginStep, EndStep,
                      MarkWorkerScenarioComplete, TearDown
  <2> DEFINE Moved == WorkerShape(worker') /\ worker'.at # "dead"
  <2>2. Initialize => Moved
    <3>1. SUFFICES ASSUME Initialize PROVE Moved
      OBVIOUS
    <3>2. PICK at \in {"ready", "teardown"} :
             worker' = [at |-> at, step |-> 0, passed |-> FALSE, exit_code |-> worker.exit_code]
      BY <3>1 DEF Initialize, Worker
    <3> QED
      BY <1>3, <3>2 DEF WorkerShape
  <2>3. MarkRuntimeReady => Moved
    <3>1. SUFFICES ASSUME MarkRuntimeReady PROVE Moved
      OBVIOUS
    <3>2. PICK at \in {"scenario", "teardown"} :
             worker' = [at |-> at, step |-> 0, passed |-> FALSE, exit_code |-> worker.exit_code]
      BY <3>1 DEF MarkRuntimeReady, Worker
    <3> QED
      BY <1>3, <3>2 DEF WorkerShape
  <2>4. BeginStep => Moved
    <3>1. SUFFICES ASSUME BeginStep PROVE Moved
      OBVIOUS
    <3>2. PICK at \in {"step", "over"}, passed \in {FALSE, worker.passed} :
             worker' = [at |-> at, step |-> worker.step, passed |-> passed,
                        exit_code |-> worker.exit_code]
      BY <3>1 DEF BeginStep, Worker
    <3> QED
      BY <1>3, <3>2 DEF WorkerShape
  <2>5. EndStep => Moved
    <3>1. SUFFICES ASSUME EndStep PROVE Moved
      OBVIOUS
    <3>2. PICK at \in {"scenario", "over"}, step \in {worker.step, worker.step + 1},
               passed \in {TRUE, FALSE} :
             worker' = [at |-> at, step |-> step, passed |-> passed, exit_code |-> worker.exit_code]
      BY <3>1 DEF EndStep, Worker
    <3> QED
      BY <1>3, <3>2 DEF WorkerShape
  <2>6. MarkWorkerScenarioComplete => Moved
    BY <1>3, WorkerMoves DEF MarkWorkerScenarioComplete
  <2>7. TearDown => Moved
    BY <1>3, WorkerMoves DEF TearDown
  <2> QED
    BY <1>2, <1>4, <1>6, <2>1, <2>2, <2>3, <2>4, <2>5, <2>6, <2>7
    DEF EarnedInv, Shape, ResultIsLast, CleanExitIsEarned, Current
<1>7. CASE WriteResult
  <2>1. PICK passed \in {FALSE, worker.passed} : Worker("written", worker.step, passed)
    BY <1>7 DEF WriteResult
  <2>2. /\ WorkerShape(worker') /\ worker'.at = "written"
        /\ worker'.passed \in {FALSE, worker.passed}
    <3>1. passed \in BOOLEAN
      BY <1>3
    <3>2. WorkerShape(worker') /\ worker'.at = "written" /\ worker'.passed = passed
      BY <1>3, <2>1, <3>1, WorkerMoves
    <3> QED
      BY <3>2
  <2>3. CASE result_json' = [run |-> run, passed |-> worker.passed]
    <3>1. result_json'.run = run
      BY <2>3
    <3>2. worker'.passed => result_json' = [run |-> run, passed |-> TRUE]
      BY <1>3, <2>2, <2>3
    <3> QED
      BY <1>2, <1>4, <2>2, <3>1, <3>2 DEF EarnedInv, Shape, ResultIsLast, CleanExitIsEarned, Current
  <2>4. CASE ~Current /\ result_json' = result_json
    BY <1>2, <1>4, <2>2, <2>4 DEF EarnedInv, Shape, ResultIsLast, CleanExitIsEarned, Current
  <2> QED
    BY <1>5, <1>7, <2>3, <2>4 DEF WriteResult
<1>8. CASE MarkWorkerShutdownComplete
  <2>1. /\ WorkerShape(worker') /\ worker'.at = "exit" /\ worker'.passed = worker.passed
        /\ worker.at = "written" /\ result_json' = result_json
    BY <1>3, <1>8, WorkerMoves DEF MarkWorkerShutdownComplete
  <2> QED
    BY <1>2, <1>4, <2>1 DEF EarnedInv, Shape, ResultIsLast, CleanExitIsEarned, Current
<1>9. CASE Exit
  <2>1. PICK code \in {0, 1} : worker' = [worker EXCEPT !.at = "dead", !.exit_code = code]
    BY <1>9 DEF Exit
  <2>2. /\ WorkerShape(worker') /\ worker'.passed = worker.passed
        /\ worker'.exit_code = code /\ worker'.at = "dead"
    BY <1>3, <2>1 DEF WorkerShape
  <2>3. code = 0 => (worker.at = "exit" /\ worker.passed) \/ worker.at = "step"
    <3>1. worker'.exit_code = code
      BY <2>2
    <3>2. \/ worker'.exit_code = 1
          \/ worker.at = "exit" /\ worker'.exit_code = IF worker.passed THEN 0 ELSE 1
          \/ worker.at = "step"
      BY <1>3, <1>9 DEF Exit, WorkerShape
    <3> QED
      BY <3>1, <3>2
  <2>4. result_json' = result_json
    BY <1>9 DEF Exit
  <2> QED
    BY <1>1, <1>2, <1>4, <1>5, <2>2, <2>3, <2>4
    DEF EarnedInv, Shape, ResultIsLast, CleanExitIsEarned, Current
<1> QED
  BY <1>6, <1>7, <1>8, <1>9 DEF WorkerStep

\* The supervisor's looks and naps leave the worker and its result alone.
LEMMA WatchEarned == EarnedInv /\ (Look \/ Sleep) => EarnedInv'
<1> SUFFICES ASSUME EarnedInv, Look \/ Sleep PROVE EarnedInv'
  OBVIOUS
<1>1. /\ UNCHANGED <<run, worker, result_json, result, report>>
      /\ supervisor \in Supervised /\ supervisor' \in Supervised
  BY DEF Look, Sleep, Supervised
<1> QED
  BY <1>1 DEF EarnedInv, Shape, OutcomeIsWorkers, NoneLeftBehind, ResultIsLast,
      CleanExitIsEarned, SuccessIsEarned, Current, Alive, Supervised

\* It returns what the worker exited with, or, having killed it, a failure.
LEMMA ReturnEarned == EarnedInv /\ (Poll \/ Check) => EarnedInv'
<1> SUFFICES ASSUME EarnedInv, Poll \/ Check PROVE EarnedInv'
  OBVIOUS
<1> USE DEF EarnedInv, Shape, OutcomeIsWorkers, NoneLeftBehind, ResultIsLast,
      CleanExitIsEarned, SuccessIsEarned, Current, Alive, Supervised
<1>1. CASE Poll /\ Alive
  BY <1>1 DEF Poll
<1>2. CASE Poll /\ ~Alive
  BY <1>2 DEF Poll, NoResult
<1>3. CASE Check /\ left > 0
  BY <1>3 DEF Check
<1>4. CASE Check /\ ~(left > 0)
  <2>1. worker' = [worker EXCEPT !.at = "dead"] /\ supervisor' = "returned"
        /\ UNCHANGED <<run, result_json, report>> /\ supervisor \in Supervised
    BY <1>4 DEF Check, truth
  <2>2. WorkerShape(worker') /\ worker'.passed = worker.passed /\ worker'.at = "dead"
    BY <2>1 DEF WorkerShape
  <2>3. result'.timed_out /\ result'.exit_code = 1
    BY <1>4 DEF Check
  <2> QED
    BY <2>1, <2>2, <2>3
<1> QED
  BY <1>1, <1>2, <1>3, <1>4

\* The report is a success only where a clean exit met a result.
LEMMA ReportEarned == EarnedInv /\ Report => EarnedInv'
<1> SUFFICES ASSUME EarnedInv, Report PROVE EarnedInv'
  OBVIOUS
<1>1. supervisor' = "idle" /\ result' = NoResult /\ UNCHANGED <<run, worker>>
  BY DEF Report, Forget
<1>2. Shape' /\ NoneLeftBehind'
  BY <1>1 DEF EarnedInv, Shape, NoneLeftBehind, Report, Supervised, Alive, Failure
<1>3. SuccessIsEarned'
  <2>1. CASE supervisor = "failed" \/ result.timed_out
    BY <2>1 DEF EarnedInv, OutcomeIsWorkers, SuccessIsEarned, Report, NoResult
  <2>2. CASE /\ supervisor = "returned" /\ ~result.timed_out /\ result_json # None
             /\ report' = result.exit_code /\ UNCHANGED result_json
    <3>1. report' = worker.exit_code /\ worker.at \in {"none", "dead"}
      BY <2>2 DEF EarnedInv, OutcomeIsWorkers, NoneLeftBehind, Supervised, Alive
    <3> QED
      BY <1>1, <2>2, <3>1 DEF EarnedInv, SuccessIsEarned, Shape, CleanExitIsEarned, ResultIsLast,
                              Current
  <2>3. CASE report' \in {2, ExitCodeForMissingResult(result.exit_code)}
    BY <2>3 DEF SuccessIsEarned, ExitCodeForMissingResult
  <2> QED
    BY <2>1, <2>2, <2>3 DEF Report
<1> QED
  BY <1>1, <1>2, <1>3 DEF EarnedInv, OutcomeIsWorkers, ResultIsLast, CleanExitIsEarned,
                          Supervised

\* The strengthening holds in every reachable state.
THEOREM Earned == Spec => []EarnedInv
<1>1. ASSUME EarnedInv, [Next]_vars PROVE EarnedInv'
  <2>1. CASE UNCHANGED vars
    BY <1>1, <2>1 DEF vars, supervision, EarnedInv, Shape, OutcomeIsWorkers, NoneLeftBehind,
                      ResultIsLast, CleanExitIsEarned, SuccessIsEarned, Current, Alive
  <2>2. CASE Next
    BY <1>1, <2>1, <2>2, StartEarned, WorkerEarned, WatchEarned, ReturnEarned, ReportEarned
    DEF Next, SupervisorStep, Terminated
  <2> QED
    BY <1>1, <2>1, <2>2
<1> QED
  BY <1>1, InitEarned, PTL DEF Spec

\* A run that reports success has passed and its result is there, or there was one of an
\* earlier run, which is printed in its place.
THEOREM SuccessSound == Spec => []SuccessIsEarned
  BY Earned, PTL DEF EarnedInv
-----------------------------------------------------------------------------
(***************************************************************************)
(* The markers by their place in the order.                                *)
(***************************************************************************)
Places == 2 * StepCount + 3

\* The order of the markers, place by place.
LEMMA LooksAt ==
  /\ Len(Looks) = Places /\ DOMAIN Looks = 1 .. Places
  /\ Looks[1] = Ready
  /\ \A i \in Steps : Looks[2 * i + 2] = Running(i) /\ Looks[2 * i + 3] = Done(i)
  /\ Looks[2 * StepCount + 2] = ScenarioComplete
  /\ Looks[2 * StepCount + 3] = ShutdownComplete
<1> DEFINE Pair == {"ready", "running", "done", "scenario", "shutdown"} \X Int
           n == 2 * StepCount
           StepMarker(k) == IF k % 2 = 1 THEN Running((k - 1) \div 2) ELSE Done((k - 1) \div 2)
           middle == [k \in 1 .. n |-> StepMarker(k)]
           ends == <<ScenarioComplete, ShutdownComplete>>
<1>1. n \in Nat
  OBVIOUS
<1>2. middle \in Seq(Pair) /\ Len(middle) = n
  <2>1. \A k \in 1 .. n : StepMarker(k) \in Pair
    BY DEF Running, Done
  <2>2. middle \in [1 .. n -> Pair]
    BY <2>1
  <2> HIDE DEF middle, n
  <2> QED
    BY <1>1, <2>2
<1>3. \A k \in 1 .. n : middle[k] = StepMarker(k)
  OBVIOUS
<1>4. /\ ends \in Seq(Pair) /\ Len(ends) = 2
      /\ ends[1] = ScenarioComplete /\ ends[2] = ShutdownComplete
  BY DEF ScenarioComplete, ShutdownComplete
<1>5. <<Ready>> \in Seq(Pair) /\ Len(<<Ready>>) = 1 /\ <<Ready>>[1] = Ready
  BY DEF Ready
<1>6. Looks = <<Ready>> \o middle \o ends
  BY DEF Looks
<1> HIDE DEF middle, ends, StepMarker, n, Pair
<1> DEFINE first == <<Ready>> \o middle
<1>7. /\ first \in Seq(Pair) /\ Len(first) = n + 1
      /\ first[1] = Ready
      /\ \A k \in 1 .. n : first[k + 1] = middle[k]
  <2> DEFINE one == <<Ready>>
  <2>1. one \in Seq(Pair) /\ Len(one) = 1 /\ one[1] = Ready
    BY <1>5
  <2> HIDE DEF one
  <2>2. /\ one \o middle \in Seq(Pair)
        /\ Len(one \o middle) = 1 + n
        /\ \A i \in 1 .. 1 + n :
             (one \o middle)[i] = IF i <= 1 THEN one[i] ELSE middle[i - 1]
    <3>1. /\ one \o middle \in Seq(Pair)
          /\ Len(one \o middle) = Len(one) + Len(middle)
          /\ \A i \in 1 .. Len(one) + Len(middle) :
               (one \o middle)[i] = IF i <= Len(one) THEN one[i] ELSE middle[i - Len(one)]
      <4>1. one \in Seq(Pair)
        BY <2>1
      <4>2. middle \in Seq(Pair)
        BY <1>2
      <4> QED
        BY <4>1, <4>2, ConcatProperties
    <3> QED
      BY <1>1, <1>2, <2>1, <3>1
  <2>3. first = one \o middle
    BY DEF one, first
  <2>4. \A k \in 1 .. n : k + 1 \in 1 .. 1 + n /\ ~(k + 1 <= 1) /\ (k + 1) - 1 = k
    BY <1>1
  <2>5. \A k \in 1 .. n : (one \o middle)[k + 1] = middle[k]
    BY <2>2, <2>4
  <2>6. (one \o middle)[1] = Ready
    BY <1>1, <2>1, <2>2
  <2>7. first \in Seq(Pair) /\ Len(first) = 1 + n
    BY <2>2, <2>3
  <2>8. first[1] = Ready /\ \A k \in 1 .. n : first[k + 1] = middle[k]
    BY <2>3, <2>5, <2>6
  <2> HIDE DEF first
  <2> QED
    BY <1>1, <2>7, <2>8
<1> HIDE DEF first
<1>8. /\ Looks \in Seq(Pair) /\ Len(Looks) = n + 3
      /\ \A k \in 1 .. n + 1 : Looks[k] = first[k]
      /\ Looks[n + 2] = ScenarioComplete /\ Looks[n + 3] = ShutdownComplete
  <2>1. Looks = first \o ends
    BY <1>6 DEF first
  <2>2. /\ first \o ends \in Seq(Pair)
        /\ Len(first \o ends) = n + 1 + 2
        /\ \A i \in 1 .. n + 1 + 2 :
             (first \o ends)[i] = IF i <= n + 1 THEN first[i] ELSE ends[i - (n + 1)]
    <3>1. /\ first \o ends \in Seq(Pair)
          /\ Len(first \o ends) = Len(first) + Len(ends)
          /\ \A i \in 1 .. Len(first) + Len(ends) :
               (first \o ends)[i] = IF i <= Len(first) THEN first[i] ELSE ends[i - Len(first)]
      <4>1. first \in Seq(Pair)
        BY <1>7
      <4>2. ends \in Seq(Pair)
        BY <1>4
      <4> QED
        BY <4>1, <4>2, ConcatProperties
    <3>2. Len(first) = n + 1 /\ Len(ends) = 2
      BY <1>4, <1>7
    <3> QED
      BY <1>1, <3>1, <3>2
  <2>3. \A k \in 1 .. n + 1 : (first \o ends)[k] = first[k]
    BY <1>1, <2>2
  <2>4. (first \o ends)[n + 2] = ends[1] /\ (first \o ends)[n + 3] = ends[2]
    BY <1>1, <2>2
  <2>5. Looks \in Seq(Pair) /\ Len(Looks) = n + 1 + 2
    BY <2>1, <2>2
  <2>6. \A k \in 1 .. n + 1 : Looks[k] = first[k]
    BY <2>1, <2>3
  <2>7. Looks[n + 2] = ScenarioComplete /\ Looks[n + 3] = ShutdownComplete
    BY <1>4, <2>1, <2>4
  <2> QED
    BY <1>1, <2>5, <2>6, <2>7
<1>9. DOMAIN Looks = 1 .. Len(Looks)
  BY <1>8, LenProperties
<1>10. ASSUME NEW i \in Steps
       PROVE  Looks[2 * i + 2] = Running(i) /\ Looks[2 * i + 3] = Done(i)
  <2>1. 2 * i + 1 \in 1 .. n /\ 2 * i + 2 \in 1 .. n
    BY DEF Steps, n
  <2>2. /\ (2 * i + 1) % 2 = 1 /\ ((2 * i + 1) - 1) \div 2 = i
        /\ (2 * i + 2) % 2 # 1 /\ ((2 * i + 2) - 1) \div 2 = i
    BY DEF Steps
  <2>3. middle[2 * i + 1] = Running(i) /\ middle[2 * i + 2] = Done(i)
    BY <1>3, <2>1, <2>2 DEF StepMarker
  <2>4. first[(2 * i + 1) + 1] = Running(i) /\ first[(2 * i + 2) + 1] = Done(i)
    BY <1>7, <2>1, <2>3
  <2> QED
    <3>1. /\ (2 * i + 1) + 1 = 2 * i + 2 /\ (2 * i + 2) + 1 = 2 * i + 3
          /\ 2 * i + 2 \in 1 .. n + 1 /\ 2 * i + 3 \in 1 .. n + 1
      BY <1>1, <2>1 DEF Steps
    <3> QED
      BY <1>8, <2>4, <3>1
<1>11. 1 \in 1 .. n + 1 /\ Looks[1] = Ready
  BY <1>1, <1>7, <1>8
<1>12. Len(Looks) = Places
  BY <1>8 DEF n, Places
<1>13. Looks[2 * StepCount + 2] = ScenarioComplete /\ Looks[2 * StepCount + 3] = ShutdownComplete
  BY <1>8 DEF n
<1> QED
  BY <1>9, <1>10, <1>11, <1>12, <1>13

\* Every place is that of one of the markers.
LEMMA PlacesAre ==
  ASSUME NEW k \in 1 .. Places
  PROVE  \/ k = 1 \/ k = 2 * StepCount + 2 \/ k = 2 * StepCount + 3
         \/ \E i \in Steps : k = 2 * i + 2 \/ k = 2 * i + 3
<1> SUFFICES ASSUME k # 1, k # 2 * StepCount + 2, k # 2 * StepCount + 3
             PROVE  \E i \in Steps : k = 2 * i + 2 \/ k = 2 * i + 3
  OBVIOUS
<1> DEFINE i == (k - 2) \div 2
<1>1. k \in 2 .. 2 * StepCount + 1
  BY DEF Places
<1>2. i \in Steps /\ (k = 2 * i + 2 \/ k = 2 * i + 3)
  BY <1>1 DEF Steps
<1> QED
  BY <1>2

\* No marker has two places.
LEMMA LooksDistinct ==
  ASSUME NEW j \in 1 .. Places, NEW k \in 1 .. Places, Looks[j] = Looks[k]
  PROVE  j = k
<1> USE DEF Ready, Running, Done, ScenarioComplete, ShutdownComplete
<1>1. ASSUME NEW p \in 1 .. Places
      PROVE  \/ p = 1 /\ Looks[p] = <<"ready", 0>>
             \/ p = 2 * StepCount + 2 /\ Looks[p] = <<"scenario", 0>>
             \/ p = 2 * StepCount + 3 /\ Looks[p] = <<"shutdown", 0>>
             \/ /\ Looks[p][2] \in Steps
                /\ \/ p = 2 * Looks[p][2] + 2 /\ Looks[p] = <<"running", Looks[p][2]>>
                   \/ p = 2 * Looks[p][2] + 3 /\ Looks[p] = <<"done", Looks[p][2]>>
  <2>1. CASE p = 1 \/ p = 2 * StepCount + 2 \/ p = 2 * StepCount + 3
    BY <2>1, LooksAt
  <2>2. CASE \E i \in Steps : p = 2 * i + 2 \/ p = 2 * i + 3
    <3>1. PICK i \in Steps : p = 2 * i + 2 \/ p = 2 * i + 3
      BY <2>2
    <3>2. \/ p = 2 * i + 2 /\ Looks[p] = <<"running", i>>
          \/ p = 2 * i + 3 /\ Looks[p] = <<"done", i>>
      BY <3>1, LooksAt
    <3>3. Looks[p][2] = i
      BY <3>2
    <3> QED
      BY <3>2, <3>3
  <2> QED
    BY <1>1, <2>1, <2>2, PlacesAre
<1>2. ASSUME NEW p \in 1 .. Places
      PROVE  p = IF Looks[p][1] = "ready" THEN 1
                 ELSE IF Looks[p][1] = "scenario" THEN 2 * StepCount + 2
                 ELSE IF Looks[p][1] = "shutdown" THEN 2 * StepCount + 3
                 ELSE IF Looks[p][1] = "running" THEN 2 * Looks[p][2] + 2
                 ELSE 2 * Looks[p][2] + 3
  BY <1>1
<1> QED
  BY <1>2

\* Every marker has its place, and every place its marker.
LEMMA PositionIs ==
  /\ \A k \in 1 .. Places : Looks[k] \in Marker /\ Position(Looks[k]) = k
  /\ \A m \in Marker : Position(m) \in 1 .. Places /\ Looks[Position(m)] = m
<1>1. \A m : m \in Marker <=> \E k \in 1 .. Places : m = Looks[k]
  BY LooksAt DEF Marker, ToSet
<1>2. ASSUME NEW k \in 1 .. Places
      PROVE  Position(Looks[k]) = k
  <2> DEFINE p == Position(Looks[k])
  <2>1. p = CHOOSE j \in 1 .. Places : Looks[j] = Looks[k]
    BY LooksAt DEF Position
  <2>2. p \in 1 .. Places /\ Looks[p] = Looks[k]
    BY <2>1
  <2> QED
    BY <2>2, LooksDistinct
<1> QED
  BY <1>1, <1>2

\* The places of the markers by name.
LEMMA MarkersAt ==
  /\ Ready \in Marker /\ Position(Ready) = 1
  /\ ScenarioComplete \in Marker /\ Position(ScenarioComplete) = 2 * StepCount + 2
  /\ ShutdownComplete \in Marker /\ Position(ShutdownComplete) = 2 * StepCount + 3
  /\ \A i \in Steps : Running(i) \in Marker /\ Position(Running(i)) = 2 * i + 2
  /\ \A i \in Steps : Done(i) \in Marker /\ Position(Done(i)) = 2 * i + 3
<1>1. 1 \in 1 .. Places /\ 2 * StepCount + 2 \in 1 .. Places /\ 2 * StepCount + 3 \in 1 .. Places
  BY DEF Places
<1>2. ASSUME NEW i \in Steps
      PROVE  2 * i + 2 \in 1 .. Places /\ 2 * i + 3 \in 1 .. Places
  BY DEF Places, Steps
<1> QED
  BY <1>1, <1>2, LooksAt, PositionIs

\* A marker is known by its place.
LEMMA SamePlace ==
  ASSUME NEW m \in Marker, NEW n \in Marker, Position(m) = Position(n)
  PROVE  m = n
  BY PositionIs

\* The markers by name.
LEMMA MarkerIs ==
  ASSUME NEW m \in Marker
  PROVE  \/ m = Ready \/ m = ScenarioComplete \/ m = ShutdownComplete
         \/ \E i \in Steps : m = Running(i) \/ m = Done(i)
<1>1. Position(m) \in 1 .. Places /\ m = Looks[Position(m)]
  BY PositionIs
<1>2. CASE \E i \in Steps : Position(m) = 2 * i + 2 \/ Position(m) = 2 * i + 3
  BY <1>1, <1>2, LooksAt
<1> QED
  BY <1>1, <1>2, PlacesAre, LooksAt

\* The two markers that tell the end of the scenario are next to each other.
LEMMA EndsAt ==
  ASSUME NEW m \in Marker
  PROVE  EndsScenario(m) <=> Position(m) \in {2 * StepCount + 1, 2 * StepCount + 2}
<1>1. ASSUME EndsScenario(m)
      PROVE  Position(m) \in {2 * StepCount + 1, 2 * StepCount + 2}
  BY <1>1, MarkersAt DEF EndsScenario, IsLastStep, Steps
<1>2. CASE Position(m) = 2 * StepCount + 2
  BY <1>2, MarkersAt, SamePlace DEF EndsScenario
<1>3. CASE Position(m) = 2 * StepCount + 1 /\ StepCount = 0
  BY <1>3, MarkersAt, SamePlace DEF EndsScenario
<1>4. CASE Position(m) = 2 * StepCount + 1 /\ StepCount # 0
  <2> DEFINE i == StepCount - 1
  <2>1. i \in Steps /\ 2 * i + 3 = 2 * StepCount + 1 /\ IsLastStep(i)
    BY <1>4 DEF Steps, IsLastStep
  <2>2. Done(i) \in Marker /\ Position(Done(i)) = 2 * i + 3
    BY <2>1, MarkersAt
  <2>3. m = Done(i)
    BY <1>4, <2>1, <2>2, SamePlace
  <2> QED
    BY <1>4, <2>1, <2>3 DEF EndsScenario
<1> QED
  BY <1>1, <1>2, <1>3, <1>4

\* None is no marker and no step.
LEMMA NoneIsNone == None \notin Marker /\ None \notin Steps
<1>1. ASSUME NEW m \in Marker
      PROVE  m # None
  <2>1. CASE m \in {Ready, ScenarioComplete, ShutdownComplete}
    BY <2>1 DEF Ready, ScenarioComplete, ShutdownComplete
  <2>2. CASE \E i \in Steps : m = Running(i) \/ m = Done(i)
    <3>1. PICK i \in Steps : m = <<"running", i>> \/ m = <<"done", i>>
      BY <2>2 DEF Running, Done
    <3>2. i \in Nat
      BY DEF Steps
    <3> QED
      BY <3>1, <3>2
  <2> QED
    BY <2>1, <2>2, MarkerIs
<1>2. None \notin Steps
  BY DEF Steps
<1> QED
  BY <1>1, <1>2

\* The time a phase may take, by the place of the marker that tells it.
LEMMA AllowedAt ==
  /\ Allowed(None) = StartupTime
  /\ \A m \in Marker :
       Allowed(m) = IF Position(m) = 2 * StepCount + 3 THEN ExitTime
                    ELSE IF Position(m) \in {2 * StepCount + 1, 2 * StepCount + 2} THEN TeardownTime
                    ELSE StepTime
<1>1. ASSUME NEW m \in Marker
      PROVE  m = ShutdownComplete <=> Position(m) = 2 * StepCount + 3
  BY MarkersAt, SamePlace
<1> QED
  BY <1>1, EndsAt, NoneIsNone DEF Allowed

\* Every phase may take some time, and none longer than the longest.
LEMMA LongestIs ==
  /\ Longest \in Nat
  /\ \A t \in {StartupTime, StepTime, TeardownTime, ExitTime} : t \in 1 .. Longest
  /\ \A m \in Marker \cup {None} : Allowed(m) \in 1 .. Longest
<1> DEFINE T == {StartupTime, StepTime, TeardownTime, ExitTime}
<1>1. \E t \in T : \A u \in T : t >= u
  OBVIOUS
<1>2. Longest \in T /\ \A u \in T : Longest >= u
  BY <1>1 DEF Longest, Max
<1>3. /\ Longest \in Nat
      /\ \A t \in T : t \in 1 .. Longest
  BY <1>2
<1> QED
  BY <1>3, AllowedAt

IsNewest(m, ms) == m \in ms /\ \A n \in ms : Position(n) <= Position(m)
HasNewest(ms) == ms = {} \/ \E m \in ms : IsNewest(m, ms)

\* The newest marker is the one that is.
LEMMA NewestIs ==
  ASSUME NEW ms \in SUBSET Marker, NEW m \in ms, IsNewest(m, ms)
  PROVE  Newest(ms) = m
<1> DEFINE x == CHOOSE y \in ms : \A n \in ms : Position(n) <= Position(y)
<1>1. x \in ms /\ \A n \in ms : Position(n) <= Position(x)
  BY DEF IsNewest
<1>2. Newest(ms) = x
  BY DEF Newest
<1>3. Position(x) = Position(m)
  BY <1>1, PositionIs DEF IsNewest
<1> QED
  BY <1>1, <1>2, <1>3, SamePlace

\* Where one marker is the newest, its phase has its time; where there is none, the start.
LEMMA NewestAllowed ==
  ASSUME NEW ms \in SUBSET Marker, HasNewest(ms)
  PROVE  Newest(ms) \in ms \cup {None} /\ Allowed(Newest(ms)) \in 1 .. Longest
<1>1. CASE ms = {}
  BY <1>1, LongestIs DEF Newest
<1>2. CASE ms # {}
  <2>1. PICK m \in ms : IsNewest(m, ms)
    BY <1>2 DEF HasNewest
  <2>2. Newest(ms) = m
    BY <2>1, NewestIs
  <2> QED
    BY <2>2, LongestIs
<1> QED
  BY <1>1, <1>2

\* No two names are of one marker.
LEMMA NamesDiffer ==
  /\ Ready # ScenarioComplete /\ Ready # ShutdownComplete
  /\ ScenarioComplete # ShutdownComplete
  /\ \A i, j \in Steps : /\ Running(i) # Done(j)
                         /\ Running(i) = Running(j) => i = j
                         /\ Done(i) = Done(j) => i = j
  /\ \A i \in Steps : /\ Running(i) \notin {Ready, ScenarioComplete, ShutdownComplete}
                      /\ Done(i) \notin {Ready, ScenarioComplete, ShutdownComplete}
<1>1. \A i, j \in Steps : /\ Running(i) # Done(j)
                          /\ Running(i) = Running(j) => i = j
                          /\ Done(i) = Done(j) => i = j
  BY DEF Running, Done
<1>2. \A i \in Steps : /\ Running(i) \notin {Ready, ScenarioComplete, ShutdownComplete}
                       /\ Done(i) \notin {Ready, ScenarioComplete, ShutdownComplete}
  BY DEF Running, Done, Ready, ScenarioComplete, ShutdownComplete
<1>3. /\ Ready # ScenarioComplete /\ Ready # ShutdownComplete
      /\ ScenarioComplete # ShutdownComplete
  BY DEF Ready, ScenarioComplete, ShutdownComplete
<1> QED
  BY <1>1, <1>2, <1>3

\* Which markers tell the end, by name.
LEMMA EndsByName ==
  /\ EndsScenario(ScenarioComplete) /\ ~EndsScenario(ShutdownComplete)
  /\ EndsScenario(Ready) <=> StepCount = 0
  /\ \A i \in Steps : ~EndsScenario(Running(i)) /\ (EndsScenario(Done(i)) <=> IsLastStep(i))
<1>1. /\ EndsScenario(ScenarioComplete) /\ ~EndsScenario(ShutdownComplete)
      /\ EndsScenario(Ready) <=> StepCount = 0
  BY EndsAt, MarkersAt
<1>2. ASSUME NEW i \in Steps
      PROVE  ~EndsScenario(Running(i)) /\ (EndsScenario(Done(i)) <=> IsLastStep(i))
  BY EndsAt, MarkersAt DEF Steps, IsLastStep
<1> QED
  BY <1>1, <1>2
-----------------------------------------------------------------------------
(***************************************************************************)
(* The deadline and the step to blame: the invariant.                      *)
(***************************************************************************)
\* The last place whose marker a worker in this state may have written.
UpTo(w) ==
    IF w.at \in {"none", "init", "ready"} THEN 0
    ELSE IF w.at = "scenario" THEN 2 * w.step + 1
    ELSE IF w.at = "step" THEN 2 * w.step + 2
    ELSE IF w.at = "over" THEN 2 * StepCount + 1
    ELSE IF w.at \in {"teardown", "result", "written"} THEN 2 * StepCount + 2
    ELSE 2 * StepCount + 3

\* Markers the supervisor would still react to.
Unseen(ms) == {m \in ms \ seen : m = ScenarioComplete => ~scenario_complete}

\* The worker writes its markers in their order.
InOrder ==
    /\ \A m \in markers : Position(m) <= UpTo(worker)
    /\ HasNewest(markers)
    /\ worker.at = "step" => worker.step \in Steps

Started == supervisor # "idle" => run >= 1

\* The supervisor knows of the end when it has seen a marker that tells it.
EndIsKnown == scenario_complete <=> \E m \in seen : EndsScenario(m)

NotRunning ==
    supervisor \in {"idle", "failed"} =>
        /\ seen = {} /\ ~scenario_complete /\ active_step = None
        /\ in_phase = 0 /\ overtaken = {}

\* With nothing unseen, the worker will have had its time when the deadline is there.
DeadlineIsDue ==
    supervisor \in Supervised /\ overtaken = {} /\ Unseen(markers) = {} =>
        in_phase + left >= Allowed(Newest(markers))

\* In a round of looks, what was there as it began and is not seen yet lies ahead, and
\* what was written since comes after it.
SweepsOn ==
    supervisor \in {"look", "check"} =>
        /\ heard.markers \subseteq markers /\ HasNewest(heard.markers)
        /\ \A m \in markers \ heard.markers, n \in heard.markers : Position(n) < Position(m)
        /\ \A m \in Unseen(heard.markers) : supervisor = "look" /\ next_look <= Position(m)

\* A deadline that is there was there as the round began, and no later news moved it.
ExpiredBefore ==
    supervisor \in {"look", "check"} /\ left = 0 =>
        /\ overtaken = {} /\ Unseen(heard.markers) = {} =>
               heard.for >= Allowed(Newest(heard.markers))
        /\ scenario_complete => \E m \in heard.markers : EndsScenario(m)
        /\ ~scenario_complete => seen \subseteq heard.markers

\* An active step has not been seen to end, nor the scenario, but before it was seen to begin.
ActiveRuns(i) ==
    /\ Running(i) \in seen
    /\ Done(i) \in seen => SeenAfter(Running(i), Done(i))
    /\ scenario_complete => \E m \in Marker : EndsScenario(m) /\ SeenAfter(Running(i), m)

\* An earlier step was seen to begin after this one.
Displaced(i) == \E j \in Steps : j < i /\ SeenAfter(Running(j), Running(i))

\* The active step is the one whose start is the newest marker seen, unless it is displaced.
ActiveIsLast ==
    supervisor \in Supervised =>
        /\ HasNewest(seen)
        /\ \A i \in Steps : active_step = i => ActiveRuns(i)
        /\ \A i \in Steps : IsNewest(Running(i), seen) => active_step = i \/ Displaced(i)

WatchInv ==
    /\ TypeOK /\ InOrder /\ Started /\ EndIsKnown /\ NotRunning /\ DeadlineIsDue
    /\ SweepsOn /\ ExpiredBefore /\ ActiveIsLast /\ KillIsDue /\ BlameIsRight

\* The first state: nothing was written, seen or returned.
LEMMA InitWatched == Init => WatchInv
<1> SUFFICES ASSUME Init PROVE WatchInv
  OBVIOUS
<1>1. TypeOK
  <2>1. 1 \in 1 .. Len(Looks)
    BY LooksAt DEF Places
  <2>2. result \in [timed_out : BOOLEAN, exit_code : {0, 1, 2}, step_index : Steps \cup {None}]
    BY DEF Init, NoResult
  <2>3. heard \in [markers : SUBSET Marker, for : 0 .. Longest]
    BY LongestIs DEF Init
  <2>4. worker \in [at : {"none", "init", "ready", "scenario", "step", "over", "teardown",
                         "result", "written", "exit", "dead"},
                    step : 0 .. StepCount, passed : BOOLEAN, exit_code : {0, 1}]
    BY DEF Init
  <2>5. /\ run \in 0 .. MaxRuns /\ supervisor = "idle" /\ next_look \in 1 .. Len(Looks)
        /\ left \in 0 .. Longest /\ in_phase \in 0 .. Longest
    BY <2>1, LongestIs DEF Init
  <2>6. /\ seen \subseteq Marker /\ overtaken \subseteq seen \X seen /\ markers \subseteq Marker
        /\ scenario_complete \in BOOLEAN /\ active_step \in Steps \cup {None}
        /\ report \in {None, 0, 1, 2}
        /\ result_json \in [run : 1 .. MaxRuns, passed : BOOLEAN] \cup {None}
    BY DEF Init
  <2> QED
    BY <2>2, <2>3, <2>4, <2>5, <2>6 DEF TypeOK
<1>2. InOrder
  BY DEF Init, InOrder, HasNewest
<1>3. KillIsDue /\ BlameIsRight
  BY DEF Init, NoResult, KillIsDue, BlameIsRight
<1> QED
  BY <1>1, <1>2, <1>3 DEF Init, WatchInv, Started, EndIsKnown, NotRunning, DeadlineIsDue, SweepsOn,
                          ExpiredBefore, ActiveIsLast, Supervised

\* A new run: the deadline is that of the start, and nothing is written or seen.
LEMMA StartWatched == WatchInv /\ EarnedInv /\ Start => WatchInv'
<1> SUFFICES ASSUME WatchInv, EarnedInv, Start PROVE WatchInv'
  OBVIOUS
<1>1. /\ seen = {} /\ ~scenario_complete /\ active_step = None /\ in_phase = 0
      /\ overtaken = {} /\ result = NoResult
  BY DEF WatchInv, EarnedInv, Start, NotRunning, OutcomeIsWorkers
<1>2. UNCHANGED <<next_look, seen, scenario_complete, active_step, result, result_json, in_phase,
                  heard, overtaken>>
  BY DEF Start
<1>3. supervisor' \in {"poll", "failed"} /\ markers' = {} /\ left' = StartupTime /\ run' = run + 1
      /\ report' = None
  BY DEF Start
<1>4. PICK at \in {"init", "none"} :
         worker' = [at |-> at, step |-> 0, passed |-> FALSE, exit_code |-> 0]
  BY DEF Start
<1>5. TypeOK'
  <2>1. worker' \in [at : {"none", "init", "ready", "scenario", "step", "over", "teardown",
                           "result", "written", "exit", "dead"},
                     step : 0 .. StepCount, passed : BOOLEAN, exit_code : {0, 1}]
    BY <1>4
  <2>2. run' \in 0 .. MaxRuns
    BY <1>3 DEF Start, WatchInv, TypeOK
  <2>3. left' \in 0 .. Longest
    BY <1>3, LongestIs
  <2>4. /\ next_look' \in 1 .. Len(Looks)
        /\ seen' \subseteq Marker /\ overtaken' \subseteq seen' \X seen'
        /\ scenario_complete' \in BOOLEAN /\ active_step' \in Steps \cup {None}
        /\ result_json' \in [run : 1 .. MaxRuns, passed : BOOLEAN] \cup {None}
        /\ in_phase' \in 0 .. Longest
        /\ heard' \in [markers : SUBSET Marker, for : 0 .. Longest]
    BY <1>2 DEF WatchInv, TypeOK
  <2>5. result' \in [timed_out : BOOLEAN, exit_code : {0, 1, 2}, step_index : Steps \cup {None}]
    BY <1>2 DEF WatchInv, TypeOK
  <2>6. /\ supervisor' \in {"poll", "failed"} /\ seen' = {} /\ markers' = {}
        /\ report' \in {None, 0, 1, 2}
    BY <1>1, <1>2, <1>3
  <2> QED
    BY <2>1, <2>2, <2>3, <2>4, <2>5, <2>6 DEF TypeOK
<1>6. InOrder'
  <2>1. worker'.at # "step"
    BY <1>4
  <2> QED
    BY <1>3, <2>1 DEF InOrder, HasNewest
<1>7. Started'
  BY <1>3 DEF WatchInv, TypeOK, Started
<1>8. EndIsKnown' /\ NotRunning'
  BY <1>1, <1>2 DEF EndIsKnown, NotRunning
<1>9. DeadlineIsDue'
  <2>1. Newest(markers') = None
    BY <1>3 DEF Newest
  <2>2. in_phase' + left' >= Allowed(Newest(markers'))
    BY <1>1, <1>2, <1>3, <2>1, AllowedAt
  <2> QED
    BY <2>2 DEF DeadlineIsDue
<1>10. SweepsOn' /\ ExpiredBefore'
  BY <1>3 DEF SweepsOn, ExpiredBefore
<1>11. ActiveIsLast'
  BY <1>1, <1>2, NoneIsNone DEF ActiveIsLast, HasNewest, IsNewest
<1>12. KillIsDue' /\ BlameIsRight'
  BY <1>1, <1>2 DEF NoResult, KillIsDue, BlameIsRight
<1> QED
  BY <1>5, <1>6, <1>7, <1>8, <1>9, <1>10, <1>11, <1>12 DEF WatchInv

WorkerType ==
    [at : {"none", "init", "ready", "scenario", "step", "over", "teardown",
           "result", "written", "exit", "dead"},
     step : 0 .. StepCount, passed : BOOLEAN, exit_code : {0, 1}]

\* The worker writes one marker beyond those it has written, or none.
WritesOn ==
    \/ UNCHANGED <<markers, in_phase>>
    \/ \E m \in Marker :
         /\ UpTo(worker) < Position(m) /\ Position(m) <= UpTo(worker')
         /\ markers' = markers \cup {m}
         /\ in_phase' = IF StartsPhase(m) THEN 0 ELSE in_phase

Advances ==
    /\ worker' \in WorkerType
    /\ worker'.at = "step" => worker'.step \in Steps
    /\ UpTo(worker) <= UpTo(worker')
    /\ WritesOn

\* Where Worker takes the worker.
LEMMA WorkerGoes ==
  ASSUME worker \in WorkerType,
         NEW at \in {"ready", "scenario", "step", "over", "teardown", "result", "written", "exit"},
         NEW step \in 0 .. StepCount, NEW passed \in BOOLEAN, Worker(at, step, passed)
  PROVE  worker' \in WorkerType /\ worker'.at = at /\ worker'.step = step
  BY DEF Worker, WorkerType

\* The same before the first step.
LEMMA WorkerSetsOut ==
  ASSUME worker \in WorkerType,
         NEW at \in {"ready", "scenario", "teardown"}, Worker(at, 0, FALSE)
  PROVE  worker' \in WorkerType /\ worker'.at = at /\ worker'.step = 0
  BY DEF Worker, WorkerType

\* A marker at the next place is written or lost; either way the worker goes on in order.
LEMMA MarkAdvances ==
  ASSUME worker' \in WorkerType, worker'.at = "step" => worker'.step \in Steps,
         NEW m \in Marker, UpTo(worker) < Position(m), Position(m) <= UpTo(worker'),
         UpTo(worker) \in Nat, UpTo(worker') \in Nat, Mark(m)
  PROVE  Advances
<1>1. UpTo(worker) <= UpTo(worker')
  BY PositionIs
<1>2. WritesOn
  BY DEF WritesOn, Mark
<1> QED
  BY <1>1, <1>2 DEF Advances

\* Every step of the worker goes on in the order of the markers.
LEMMA WorkerAdvances ==
  ASSUME worker \in WorkerType, worker.at = "step" => worker.step \in Steps, WorkerStep
  PROVE  Advances
<1>1. /\ worker.step \in 0 .. StepCount /\ worker.passed \in BOOLEAN
      /\ worker.at \in {"none", "init", "ready", "scenario", "step", "over", "teardown",
                        "result", "written", "exit", "dead"}
      /\ UpTo(worker) \in 0 .. Places
  BY DEF WorkerType, UpTo, Places, Steps
<1>2. worker' \in WorkerType => UpTo(worker') \in Nat
  BY DEF WorkerType, UpTo, Places
<1>3. ASSUME worker' \in WorkerType, worker'.at = "step" => worker'.step \in Steps,
             UpTo(worker) <= UpTo(worker'), UNCHANGED <<markers, in_phase>>
      PROVE  Advances
  BY <1>3 DEF Advances, WritesOn
<1>4. CASE Initialize
  <2>1. PICK at \in {"ready", "teardown"} : Worker(at, 0, FALSE)
    BY <1>4 DEF Initialize
  <2>2. worker' \in WorkerType /\ worker'.at = at
    BY <2>1, WorkerSetsOut
  <2> QED
    BY <1>1, <1>2, <1>3, <1>4, <2>2 DEF Initialize, UpTo
<1>5. CASE MarkRuntimeReady
  <2>1. CASE Mark(Ready) /\ Worker("scenario", 0, FALSE)
    <3>1. worker' \in WorkerType /\ worker'.at = "scenario" /\ worker'.step = 0
      BY <2>1, WorkerSetsOut
    <3>2. UpTo(worker) = 0 /\ UpTo(worker') = 1
      BY <1>5, <3>1 DEF MarkRuntimeReady, UpTo
    <3> QED
      BY <2>1, <3>1, <3>2, MarkersAt, MarkAdvances
  <2>2. CASE MarkFails /\ Worker("teardown", 0, FALSE)
    <3>1. worker' \in WorkerType /\ worker'.at = "teardown"
      BY <2>2, WorkerSetsOut
    <3> QED
      BY <1>1, <1>2, <1>3, <1>5, <2>2, <3>1 DEF MarkRuntimeReady, MarkFails, UpTo
  <2> QED
    BY <1>5, <2>1, <2>2 DEF MarkRuntimeReady
<1>6. CASE BeginStep
  <2> DEFINE s == worker.step
  <2>1. UpTo(worker) = 2 * s + 1
    BY <1>6 DEF BeginStep, UpTo
  <2>2. CASE s \in Steps /\ Mark(Running(s)) /\ Worker("step", s, worker.passed)
    <3>1. worker' \in WorkerType /\ worker'.at = "step" /\ worker'.step = s
      BY <1>1, <2>2, WorkerGoes
    <3>2. UpTo(worker') = 2 * s + 2
      BY <3>1 DEF UpTo
    <3>3. Running(s) \in Marker /\ Position(Running(s)) = 2 * s + 2
      BY <2>2, MarkersAt
    <3>4. /\ UpTo(worker) < Position(Running(s)) /\ Position(Running(s)) <= UpTo(worker')
          /\ UpTo(worker) \in Nat /\ UpTo(worker') \in Nat
      BY <1>1, <2>1, <3>2, <3>3
    <3> QED
      BY <2>2, <3>1, <3>3, <3>4, MarkAdvances
  <2>3. CASE MarkFails /\ \E passed \in {FALSE, worker.passed} : Worker("over", s, passed)
    <3>1. PICK passed \in {FALSE, worker.passed} : Worker("over", s, passed)
      BY <2>3
    <3>2. worker' \in WorkerType /\ worker'.at = "over"
      BY <1>1, <3>1, WorkerGoes
    <3>3. UpTo(worker') = 2 * StepCount + 1
      BY <3>2 DEF UpTo
    <3> QED
      BY <1>1, <1>3, <2>1, <2>3, <3>2, <3>3 DEF MarkFails
  <2> QED
    BY <1>6, <2>2, <2>3 DEF BeginStep
<1>7. CASE EndStep
  <2> DEFINE s == worker.step
  <2>1. UpTo(worker) = 2 * s + 2 /\ s \in Steps /\ s \in 0 .. StepCount - 1
    BY <1>7 DEF EndStep, UpTo, Steps
  <2>2. CASE \E at \in {"scenario", "over"}, passed \in BOOLEAN :
               /\ Mark(Done(s))
               /\ Worker(at, IF at = "scenario" THEN s + 1 ELSE s, passed)
    <3>1. PICK at \in {"scenario", "over"}, passed \in BOOLEAN :
                 /\ Mark(Done(s))
                 /\ Worker(at, IF at = "scenario" THEN s + 1 ELSE s, passed)
      BY <2>2
    <3> DEFINE step == IF at = "scenario" THEN s + 1 ELSE s
    <3>2. worker' \in WorkerType /\ worker'.at = at /\ worker'.step = step
      <4>1. step \in 0 .. StepCount
        BY <2>1
      <4>2. Worker(at, step, passed)
        BY <3>1
      <4> HIDE DEF step
      <4> QED
        BY <4>1, <4>2, WorkerGoes
    <3>3. UpTo(worker') \in Nat /\ 2 * s + 3 <= UpTo(worker')
      BY <2>1, <3>2 DEF UpTo
    <3>4. Done(s) \in Marker /\ Position(Done(s)) = 2 * s + 3
      BY <2>1, MarkersAt
    <3>5. /\ UpTo(worker) < Position(Done(s)) /\ Position(Done(s)) <= UpTo(worker')
          /\ UpTo(worker) \in Nat
      BY <2>1, <3>3, <3>4
    <3> QED
      BY <3>1, <3>2, <3>3, <3>4, <3>5, MarkAdvances
  <2>3. CASE MarkFails /\ Worker("over", s, FALSE)
    <3>1. worker' \in WorkerType /\ worker'.at = "over"
      BY <1>1, <2>3, WorkerGoes
    <3>2. UpTo(worker') = 2 * StepCount + 1
      BY <3>1 DEF UpTo
    <3> QED
      BY <1>3, <2>1, <2>3, <3>1, <3>2 DEF MarkFails
  <2> QED
    BY <1>7, <2>2, <2>3 DEF EndStep
<1>8. CASE MarkWorkerScenarioComplete
  <2>1. worker' \in WorkerType /\ worker'.at = "teardown"
    BY <1>1, <1>8, WorkerGoes DEF MarkWorkerScenarioComplete
  <2>2. UpTo(worker) = 2 * StepCount + 1 /\ UpTo(worker') = 2 * StepCount + 2
    BY <1>8, <2>1 DEF MarkWorkerScenarioComplete, UpTo
  <2> QED
    BY <1>8, <2>1, <2>2, MarkersAt, MarkAdvances DEF MarkWorkerScenarioComplete
<1>9. CASE TearDown
  <2>1. worker' \in WorkerType /\ worker'.at = "result"
    BY <1>1, <1>9, WorkerGoes DEF TearDown
  <2> QED
    BY <1>2, <1>3, <1>9, <2>1 DEF TearDown, UpTo
<1>10. CASE WriteResult
  <2>1. PICK passed \in {FALSE, worker.passed} : Worker("written", worker.step, passed)
    BY <1>10 DEF WriteResult
  <2>2. worker' \in WorkerType /\ worker'.at = "written"
    BY <1>1, <2>1, WorkerGoes
  <2> QED
    BY <1>2, <1>3, <1>10, <2>2 DEF WriteResult, UpTo
<1>11. CASE MarkWorkerShutdownComplete
  <2>1. worker' \in WorkerType /\ worker'.at = "exit"
    BY <1>1, <1>11, WorkerGoes DEF MarkWorkerShutdownComplete
  <2>2. UpTo(worker) = 2 * StepCount + 2 /\ UpTo(worker') = 2 * StepCount + 3
    BY <1>11, <2>1 DEF MarkWorkerShutdownComplete, UpTo
  <2> QED
    BY <1>11, <2>1, <2>2, MarkersAt, MarkAdvances DEF MarkWorkerShutdownComplete
<1>12. CASE Exit
  <2>1. PICK code \in {0, 1} : worker' = [worker EXCEPT !.at = "dead", !.exit_code = code]
    BY <1>12 DEF Exit
  <2>2. worker' \in WorkerType /\ worker'.at = "dead"
    BY <2>1 DEF WorkerType
  <2>3. UpTo(worker') = Places
    BY <2>2 DEF UpTo, Places
  <2> QED
    BY <1>1, <1>3, <1>12, <2>2, <2>3 DEF Exit, Places
<1> QED
  BY <1>4, <1>5, <1>6, <1>7, <1>8, <1>9, <1>10, <1>11, <1>12 DEF WorkerStep

\* A marker beyond the others is the newest.
LEMMA NewMarkerIsNewest ==
  ASSUME NEW ms \in SUBSET Marker, NEW m \in Marker,
         \A n \in ms : Position(n) <= Position(m)
  PROVE  IsNewest(m, ms \cup {m}) /\ Newest(ms \cup {m}) = m
<1>1. IsNewest(m, ms \cup {m})
  BY PositionIs DEF IsNewest
<1> QED
  BY <1>1, NewestIs

\* What the worker writes next tells a new phase, which has lasted no time, unless it only
\* tells an end that was told.
LEMMA WorkerWatched == WatchInv /\ EarnedInv /\ WorkerStep => WatchInv'
<1> SUFFICES ASSUME WatchInv, EarnedInv, WorkerStep PROVE WatchInv'
  OBVIOUS
<1>1. supervisor \in Supervised
  BY DEF EarnedInv, WorkerStep, NoneLeftBehind, Alive, Initialize, MarkRuntimeReady, BeginStep,
         EndStep, MarkWorkerScenarioComplete, TearDown, WriteResult,
         MarkWorkerShutdownComplete, Exit
<1>2. UNCHANGED <<run, supervisor, next_look, seen, scenario_complete, active_step, left, result,
                  report, heard, overtaken>>
  BY DEF WorkerStep, supervision, told
<1>3. worker \in WorkerType /\ markers \in SUBSET Marker /\ seen \subseteq markers
  BY <1>1 DEF WatchInv, TypeOK, WorkerType, Supervised
<1>4. Advances
  BY <1>3, WorkerAdvances DEF WatchInv, InOrder
<1>5. UpTo(worker) \in Nat /\ UpTo(worker') \in Nat
  BY <1>3, <1>4 DEF WorkerType, UpTo, Advances
<1>6. markers \subseteq markers' /\ markers' \in SUBSET Marker /\ in_phase' \in 0 .. Longest
  <2>1. markers \subseteq markers' /\ markers' \in SUBSET Marker
    BY <1>3, <1>4 DEF Advances, WritesOn
  <2>2. in_phase' \in {0, in_phase}
    BY <1>4 DEF Advances, WritesOn
  <2>3. 0 \in 0 .. Longest /\ in_phase \in 0 .. Longest
    BY LongestIs DEF WatchInv, TypeOK
  <2> QED
    BY <2>1, <2>2, <2>3
<1>7. TypeOK'
  <2>1. result_json' \in [run : 1 .. MaxRuns, passed : BOOLEAN] \cup {None}
    <3>1. result_json' = result_json \/ result_json' = [run |-> run, passed |-> worker.passed]
      BY DEF WorkerStep, Initialize, MarkRuntimeReady, BeginStep, EndStep,
             MarkWorkerScenarioComplete, TearDown, WriteResult, MarkWorkerShutdownComplete, Exit
    <3>2. run \in 1 .. MaxRuns
      BY <1>1 DEF WatchInv, Started, TypeOK, Supervised
    <3>3. result_json \in [run : 1 .. MaxRuns, passed : BOOLEAN] \cup {None}
      BY DEF WatchInv, TypeOK
    <3> QED
      BY <1>3, <3>1, <3>2, <3>3 DEF WorkerType
  <2>2. worker' \in WorkerType
    BY <1>4 DEF Advances
  <2>3. /\ run' \in 0 .. MaxRuns
        /\ supervisor' \in {"idle", "poll", "look", "check", "sleep", "returned", "failed"}
        /\ next_look' \in 1 .. Len(Looks)
        /\ seen' \subseteq Marker /\ overtaken' \subseteq seen' \X seen' /\ seen' \subseteq markers'
        /\ scenario_complete' \in BOOLEAN /\ active_step' \in Steps \cup {None}
        /\ left' \in 0 .. Longest /\ report' \in {None, 0, 1, 2}
    BY <1>2, <1>3, <1>6 DEF WatchInv, TypeOK
  <2>4. /\ result' \in [timed_out : BOOLEAN, exit_code : {0, 1, 2},
                        step_index : Steps \cup {None}]
        /\ heard' \in [markers : SUBSET Marker, for : 0 .. Longest]
    BY <1>2 DEF WatchInv, TypeOK
  <2> QED
    BY <1>6, <2>1, <2>2, <2>3, <2>4 DEF TypeOK, WorkerType
<1> DEFINE Adds(m) == /\ markers' = markers \cup {m}
                      /\ \A n \in markers : Position(n) < Position(m)
                      /\ Position(m) <= UpTo(worker')
                      /\ in_phase' = IF StartsPhase(m) THEN 0 ELSE in_phase
<1>8. (markers' = markers /\ in_phase' = in_phase) \/ \E m \in Marker : Adds(m)
  <2>1. \A n \in markers : Position(n) <= UpTo(worker) /\ Position(n) \in Nat
    BY <1>3, PositionIs DEF WatchInv, InOrder
  <2>2. ASSUME NEW m \in Marker, UpTo(worker) < Position(m)
        PROVE  \A n \in markers : Position(n) < Position(m)
    BY <1>5, <2>1, <2>2, PositionIs
  <2> QED
    BY <1>4, <2>2 DEF Advances, WritesOn
<1>9. InOrder'
  <2>1. worker'.at = "step" => worker'.step \in Steps
    BY <1>4 DEF Advances
  <2>2. CASE markers' = markers
    <3>1. \A n \in markers : Position(n) <= UpTo(worker) /\ Position(n) \in Nat
      BY <1>3, PositionIs DEF WatchInv, InOrder
    <3>2. \A n \in markers : Position(n) <= UpTo(worker')
      BY <1>4, <1>5, <3>1 DEF Advances
    <3> QED
      BY <2>1, <2>2, <3>2 DEF WatchInv, InOrder
  <2>3. CASE markers' # markers
    <3> HIDE DEF Adds
    <3> PICK m \in Marker : Adds(m)
      BY <1>8, <2>3
    <3> USE DEF Adds
    <3>1. \A n \in markers : Position(n) <= Position(m)
      BY <1>3, PositionIs
    <3>2. HasNewest(markers')
      BY <1>3, <3>1, NewMarkerIsNewest DEF HasNewest
    <3>3. \A n \in markers' : Position(n) <= UpTo(worker')
      BY <1>3, <1>5, <3>1, PositionIs
    <3> QED
      BY <2>1, <3>2, <3>3 DEF InOrder
  <2> QED
    BY <2>2, <2>3
<1>10. Started' /\ EndIsKnown' /\ NotRunning' /\ ActiveIsLast' /\ KillIsDue' /\ BlameIsRight'
  <2>1. Started' /\ EndIsKnown'
    BY <1>2 DEF WatchInv, Started, EndIsKnown
  <2>2. NotRunning'
    BY <1>1, <1>2 DEF NotRunning, Supervised
  <2>3. ActiveIsLast'
    BY <1>2 DEF WatchInv, ActiveIsLast, SeenAfter, ActiveRuns, Displaced
  <2>4. KillIsDue' /\ BlameIsRight'
    BY <1>2 DEF WatchInv, KillIsDue, BlameIsRight, SeenAfter
  <2> QED
    BY <2>1, <2>2, <2>3, <2>4
<1>11. SweepsOn' /\ ExpiredBefore'
  <2>1. ASSUME supervisor \in {"look", "check"},
               NEW m \in markers' \ heard.markers, NEW n \in heard.markers
        PROVE  Position(n) < Position(m)
    <3>1. heard.markers \subseteq markers
      BY <2>1 DEF WatchInv, SweepsOn
    <3> HIDE DEF Adds
    <3>2. m \in markers \/ Adds(m)
      <4>1. CASE \E k \in Marker : Adds(k)
        <5>1. PICK k \in Marker : Adds(k)
          BY <4>1
        <5>2. markers' = markers \cup {k}
          BY <5>1 DEF Adds
        <5> QED
          BY <2>1, <5>1, <5>2
      <4> QED
        BY <1>8, <2>1, <4>1
    <3>3. CASE m \in markers
      BY <2>1, <3>3 DEF WatchInv, SweepsOn
    <3>4. CASE Adds(m)
      BY <2>1, <3>1, <3>4 DEF Adds
    <3> QED
      BY <3>2, <3>3, <3>4
  <2> QED
    BY <1>2, <1>6, <2>1 DEF WatchInv, SweepsOn, ExpiredBefore, Unseen
<1>12. DeadlineIsDue'
  <2> SUFFICES ASSUME overtaken = {}, Unseen(markers)' = {}
               PROVE  in_phase' + left >= Allowed(Newest(markers'))
    BY <1>2 DEF DeadlineIsDue
  <2>1. CASE markers' = markers /\ in_phase' = in_phase
    BY <1>1, <1>2, <2>1 DEF WatchInv, DeadlineIsDue, Unseen
  <2>2. CASE ~(markers' = markers /\ in_phase' = in_phase)
    <3> HIDE DEF Adds
    <3>0. PICK m \in Marker : Adds(m)
      BY <1>8, <2>2
    <3> USE DEF Adds
    <3>1. m \notin markers /\ m \notin seen
      BY <1>3, <3>0, PositionIs
    <3>2. m = ScenarioComplete /\ scenario_complete
      BY <1>2, <3>0, <3>1 DEF Unseen
    <3>3. PICK n \in seen : EndsScenario(n)
      BY <3>2 DEF WatchInv, EndIsKnown
    <3>4. n \in markers /\ n \in Marker
      BY <1>3
    <3>5. in_phase' = in_phase
      BY <3>0, <3>2, <3>3, <3>4 DEF StartsPhase
    <3>6. Position(m) = 2 * StepCount + 2 /\ Position(n) = 2 * StepCount + 1
      BY <3>0, <3>2, <3>3, <3>4, EndsAt, MarkersAt
    <3>7. IsNewest(n, markers)
      BY <1>3, <3>0, <3>4, <3>6, PositionIs DEF IsNewest
    <3>8. Newest(markers) = n
      BY <1>3, <3>4, <3>7, NewestIs
    <3>9. Newest(markers') = m
      <4>1. \A k \in markers : Position(k) <= Position(m)
        BY <1>3, <3>0, PositionIs
      <4> QED
        BY <1>3, <3>0, <4>1, NewMarkerIsNewest
    <3>10. Allowed(m) = Allowed(n)
      BY <3>4, <3>6, AllowedAt
    <3>11. Unseen(markers) = {}
      BY <1>2, <3>0 DEF Unseen
    <3>12. in_phase + left >= Allowed(Newest(markers))
      BY <1>1, <3>11 DEF WatchInv, DeadlineIsDue
    <3> QED
      BY <3>5, <3>8, <3>9, <3>10, <3>12
  <2> QED
    BY <2>1, <2>2
<1> QED
  BY <1>7, <1>9, <1>10, <1>11, <1>12 DEF WatchInv

\* A round begins: everything is ahead, and a deadline that is there is due.
LEMMA PollWatched == WatchInv /\ EarnedInv /\ Poll => WatchInv'
<1> SUFFICES ASSUME WatchInv, EarnedInv, Poll PROVE WatchInv'
  OBVIOUS
<1>1. /\ supervisor = "poll" /\ result = NoResult /\ seen \subseteq markers
      /\ UNCHANGED <<run, seen, scenario_complete, active_step, left, report, worker, result_json,
                     in_phase, overtaken>>
  BY DEF Poll, WatchInv, TypeOK, EarnedInv, OutcomeIsWorkers
<1>2. /\ run' \in 0 .. MaxRuns
      /\ seen' \subseteq Marker /\ overtaken' \subseteq seen' \X seen'
      /\ scenario_complete' \in BOOLEAN /\ active_step' \in Steps \cup {None}
      /\ left' \in 0 .. Longest /\ in_phase' \in 0 .. Longest
      /\ report' \in {None, 0, 1, 2}
      /\ result_json' \in [run : 1 .. MaxRuns, passed : BOOLEAN] \cup {None}
  BY <1>1 DEF WatchInv, TypeOK
<1>3. worker' \in WorkerType
  BY <1>1 DEF WatchInv, TypeOK, WorkerType
<1>4. Started' /\ EndIsKnown'
  BY <1>1 DEF WatchInv, Started, EndIsKnown
<1>5. CASE Alive
  <2>1. /\ supervisor' = "look" /\ next_look' = 1 /\ UNCHANGED <<result, markers>>
        /\ heard' = [markers |-> markers, for |-> in_phase]
    BY <1>1, <1>5 DEF Poll, Alive
  <2>2. /\ heard' \in [markers : SUBSET Marker, for : 0 .. Longest]
        /\ heard'.markers = markers /\ heard'.for = in_phase
    BY <2>1 DEF WatchInv, TypeOK
  <2>3. TypeOK'
    <3>1. next_look' \in 1 .. Len(Looks)
      BY <2>1, LooksAt DEF Places
    <3>2. /\ markers' \subseteq Marker /\ seen' \subseteq markers'
          /\ result' \in [timed_out : BOOLEAN, exit_code : {0, 1, 2},
                          step_index : Steps \cup {None}]
      BY <1>1, <2>1 DEF WatchInv, TypeOK
    <3> QED
      BY <1>2, <1>3, <2>1, <2>2, <3>1, <3>2 DEF TypeOK, WorkerType
  <2>4. InOrder' /\ NotRunning' /\ DeadlineIsDue' /\ ActiveIsLast'
    BY <1>1, <2>1 DEF WatchInv, InOrder, NotRunning, DeadlineIsDue, ActiveIsLast, SeenAfter,
                      ActiveRuns, Displaced, Unseen, Supervised
  <2>5. SweepsOn'
    <3>1. \A m \in markers : 1 <= Position(m)
      BY PositionIs DEF WatchInv, TypeOK
    <3> QED
      BY <1>1, <2>1, <2>2, <3>1 DEF WatchInv, SweepsOn, InOrder, Unseen
  <2>6. ExpiredBefore'
    <3>1. ASSUME left = 0, overtaken = {}, Unseen(markers) = {}
          PROVE  in_phase >= Allowed(Newest(markers))
      <4>1. in_phase + left >= Allowed(Newest(markers))
        BY <1>1, <3>1 DEF WatchInv, DeadlineIsDue, Supervised
      <4> QED
        BY <3>1, <4>1 DEF WatchInv, TypeOK
    <3>2. scenario_complete => \E m \in markers : EndsScenario(m)
      BY <1>1 DEF WatchInv, EndIsKnown
    <3> QED
      BY <1>1, <2>1, <2>2, <3>1, <3>2 DEF ExpiredBefore, Unseen
  <2>7. KillIsDue' /\ BlameIsRight'
    BY <1>1, <2>1 DEF NoResult, KillIsDue, BlameIsRight
  <2> QED
    BY <1>4, <2>3, <2>4, <2>5, <2>6, <2>7 DEF WatchInv
<1>6. CASE ~Alive
  <2>1. /\ supervisor' = "returned" /\ markers' = {} /\ UNCHANGED <<next_look, heard>>
        /\ result' = [NoResult EXCEPT !.exit_code = worker.exit_code]
    BY <1>1, <1>6 DEF Poll, Alive
  <2>2. /\ ~result'.timed_out
        /\ result' \in [timed_out : BOOLEAN, exit_code : {0, 1, 2},
                        step_index : Steps \cup {None}]
    <3>1. worker.exit_code \in {0, 1}
      BY DEF WatchInv, TypeOK
    <3> QED
      BY <2>1, <3>1 DEF NoResult
  <2>3. TypeOK'
    <3>1. /\ next_look' \in 1 .. Len(Looks)
          /\ heard' \in [markers : SUBSET Marker, for : 0 .. Longest]
      BY <2>1 DEF WatchInv, TypeOK
    <3> QED
      BY <1>2, <1>3, <2>1, <2>2, <3>1 DEF TypeOK, WorkerType
  <2>4. InOrder' /\ NotRunning' /\ DeadlineIsDue' /\ SweepsOn' /\ ExpiredBefore' /\ ActiveIsLast'
    BY <1>1, <2>1 DEF WatchInv, InOrder, HasNewest, NotRunning, DeadlineIsDue, SweepsOn,
                      ExpiredBefore, ActiveIsLast, Supervised
  <2>5. KillIsDue' /\ BlameIsRight'
    BY <2>2 DEF KillIsDue, BlameIsRight
  <2> QED
    BY <1>4, <2>3, <2>4, <2>5 DEF WatchInv
<1> QED
  BY <1>5, <1>6

\* Time passes for the worker as it does for the deadline.
LEMMA SleepWatched == WatchInv /\ EarnedInv /\ Sleep => WatchInv'
<1> SUFFICES ASSUME WatchInv, EarnedInv, Sleep PROVE WatchInv'
  OBVIOUS
<1>1. /\ supervisor = "sleep" /\ supervisor' = "poll" /\ result = NoResult
      /\ UNCHANGED <<run, next_look, seen, scenario_complete, active_step, result, report,
                     worker, markers, result_json, heard, overtaken>>
  BY DEF Sleep, EarnedInv, OutcomeIsWorkers
<1>2. PICK d \in 1 .. MaxDelay :
         /\ left' = IF left > d THEN left - d ELSE 0
         /\ in_phase' = IF in_phase + d < Longest THEN in_phase + d ELSE Longest
  BY DEF Sleep
<1>3. left \in 0 .. Longest /\ in_phase \in 0 .. Longest /\ Longest \in Nat /\ d \in Nat
  BY LongestIs DEF WatchInv, TypeOK
<1>4. left' \in 0 .. Longest /\ in_phase' \in 0 .. Longest
  BY <1>2, <1>3
<1>5. TypeOK'
  <2>1. /\ run' \in 0 .. MaxRuns /\ next_look' \in 1 .. Len(Looks)
        /\ seen' \subseteq Marker /\ markers' \subseteq Marker
        /\ overtaken' \subseteq seen' \X seen'
        /\ scenario_complete' \in BOOLEAN /\ active_step' \in Steps \cup {None}
        /\ report' \in {None, 0, 1, 2} /\ seen' \subseteq markers'
    BY <1>1 DEF WatchInv, TypeOK
  <2>2. /\ result' \in [timed_out : BOOLEAN, exit_code : {0, 1, 2},
                        step_index : Steps \cup {None}]
        /\ heard' \in [markers : SUBSET Marker, for : 0 .. Longest]
        /\ result_json' \in [run : 1 .. MaxRuns, passed : BOOLEAN] \cup {None}
    BY <1>1 DEF WatchInv, TypeOK
  <2>3. worker' \in WorkerType
    BY <1>1 DEF WatchInv, TypeOK, WorkerType
  <2> QED
    BY <1>1, <1>4, <2>1, <2>2, <2>3 DEF TypeOK, WorkerType
<1>6. InOrder' /\ Started' /\ EndIsKnown' /\ NotRunning' /\ SweepsOn' /\ ExpiredBefore'
      /\ ActiveIsLast'
  BY <1>1 DEF WatchInv, InOrder, Started, EndIsKnown, NotRunning, SweepsOn, ExpiredBefore,
              ActiveIsLast, SeenAfter, ActiveRuns, Displaced, Supervised
<1>7. DeadlineIsDue'
  <2> SUFFICES ASSUME overtaken = {}, Unseen(markers)' = {}
               PROVE  in_phase' + left' >= Allowed(Newest(markers))
    BY <1>1 DEF DeadlineIsDue
  <2>1. in_phase + left >= Allowed(Newest(markers))
    BY <1>1 DEF WatchInv, DeadlineIsDue, Unseen, Supervised
  <2>2. Allowed(Newest(markers)) \in 1 .. Longest
    BY NewestAllowed DEF WatchInv, TypeOK, InOrder
  <2> QED
    BY <1>2, <1>3, <2>1, <2>2
<1>8. KillIsDue' /\ BlameIsRight'
  BY <1>1 DEF NoResult, KillIsDue, BlameIsRight
<1> QED
  BY <1>5, <1>6, <1>7, <1>8 DEF WatchInv

\* At the end of a round everything heard as it began is seen; so a deadline that is there
\* is due, and the active step is the one the markers told of.
LEMMA CheckWatched == WatchInv /\ EarnedInv /\ Check => WatchInv'
<1> SUFFICES ASSUME WatchInv, EarnedInv, Check PROVE WatchInv'
  OBVIOUS
<1>1. /\ supervisor = "check" /\ result = NoResult
      /\ UNCHANGED <<run, next_look, seen, scenario_complete, active_step, left, report,
                     result_json, in_phase, heard, overtaken>>
  BY DEF Check, truth, EarnedInv, OutcomeIsWorkers
<1>2. /\ run' \in 0 .. MaxRuns /\ next_look' \in 1 .. Len(Looks)
      /\ seen' \subseteq Marker /\ overtaken' \subseteq seen' \X seen'
      /\ scenario_complete' \in BOOLEAN /\ active_step' \in Steps \cup {None}
      /\ left' \in 0 .. Longest /\ in_phase' \in 0 .. Longest
      /\ report' \in {None, 0, 1, 2}
      /\ result_json' \in [run : 1 .. MaxRuns, passed : BOOLEAN] \cup {None}
      /\ heard' \in [markers : SUBSET Marker, for : 0 .. Longest]
  BY <1>1 DEF WatchInv, TypeOK
<1>3. EndIsKnown' /\ Started'
  BY <1>1 DEF WatchInv, Started, EndIsKnown
<1>4. CASE left > 0
  <2>1. supervisor' = "sleep" /\ UNCHANGED <<result, worker, markers>>
    BY <1>4 DEF Check
  <2>2. TypeOK'
    <3>1. /\ result' \in [timed_out : BOOLEAN, exit_code : {0, 1, 2},
                          step_index : Steps \cup {None}]
          /\ markers' \subseteq Marker /\ seen' \subseteq markers'
      BY <1>1, <2>1 DEF WatchInv, TypeOK
    <3>2. worker' \in WorkerType
      BY <2>1 DEF WatchInv, TypeOK, WorkerType
    <3> QED
      BY <1>2, <2>1, <3>1, <3>2 DEF TypeOK, WorkerType
  <2>3. InOrder' /\ NotRunning' /\ DeadlineIsDue' /\ SweepsOn' /\ ExpiredBefore' /\ ActiveIsLast'
    BY <1>1, <2>1 DEF WatchInv, InOrder, NotRunning, DeadlineIsDue, SweepsOn, ExpiredBefore,
                      ActiveIsLast, SeenAfter, ActiveRuns, Displaced, Unseen, Supervised
  <2>4. KillIsDue' /\ BlameIsRight'
    BY <1>1, <2>1 DEF NoResult, KillIsDue, BlameIsRight
  <2> QED
    BY <1>3, <2>2, <2>3, <2>4 DEF WatchInv
<1>5. CASE ~(left > 0)
  <2>1. /\ supervisor' = "returned" /\ markers' = {}
        /\ worker' = [worker EXCEPT !.at = "dead"]
        /\ result' = [timed_out |-> TRUE, exit_code |-> 1, step_index |-> active_step]
    BY <1>5 DEF Check
  <2>2. left = 0
    BY <1>5 DEF WatchInv, TypeOK
  <2>3. worker' \in WorkerType /\ worker'.at = "dead"
    BY <2>1 DEF WatchInv, TypeOK, WorkerType
  <2>4. /\ result'.step_index = active_step
        /\ result' \in [timed_out : BOOLEAN, exit_code : {0, 1, 2},
                        step_index : Steps \cup {None}]
    BY <2>1 DEF WatchInv, TypeOK
  <2>5. TypeOK'
    BY <1>2, <2>1, <2>3, <2>4 DEF TypeOK, WorkerType
  <2>6. InOrder' /\ NotRunning' /\ DeadlineIsDue' /\ SweepsOn' /\ ExpiredBefore' /\ ActiveIsLast'
    BY <2>1, <2>3 DEF InOrder, HasNewest, NotRunning, DeadlineIsDue, SweepsOn, ExpiredBefore,
                      ActiveIsLast, Supervised
  <2>7. Unseen(heard.markers) = {} /\ HasNewest(heard.markers) /\ heard.markers \in SUBSET Marker
    BY <1>1 DEF WatchInv, SweepsOn, TypeOK
  <2>8. KillIsDue'
    BY <1>1, <2>2, <2>7 DEF WatchInv, ExpiredBefore, KillIsDue
  <2>9. \A m \in heard.markers : m \in seen \/ (m = ScenarioComplete /\ scenario_complete)
    BY <2>7 DEF Unseen
  <2>10. BlameIsRight'
    <3>1. /\ \A i \in Steps : active_step = i => ActiveRuns(i)
          /\ \A i \in Steps : IsNewest(Running(i), seen) => active_step = i \/ Displaced(i)
      BY <1>1 DEF WatchInv, ActiveIsLast, Supervised
    <3>2. /\ scenario_complete => \E m \in heard.markers : EndsScenario(m)
          /\ ~scenario_complete => seen \subseteq heard.markers
      BY <1>1, <2>2 DEF WatchInv, ExpiredBefore
    <3>3. ASSUME NEW i \in Steps, active_step = i
          PROVE  /\ Running(i) \in heard.markers
                 /\ Done(i) \in heard.markers => SeenAfter(Running(i), Done(i))
                 /\ (\E m \in heard.markers : EndsScenario(m)) =>
                        \E m \in Marker : EndsScenario(m) /\ SeenAfter(Running(i), m)
      <4>1. ActiveRuns(i)
        BY <3>1, <3>3
      <4>2. Done(i) \in heard.markers => Done(i) \in seen
        BY <2>9, NamesDiffer
      <4>3. (\E m \in heard.markers : EndsScenario(m)) => scenario_complete
        BY <2>9 DEF WatchInv, EndIsKnown
      <4>4. Running(i) \in heard.markers
        <5>1. CASE ~scenario_complete
          BY <3>2, <4>1, <5>1 DEF ActiveRuns
        <5>2. CASE scenario_complete
          <6>1. PICK e \in heard.markers : EndsScenario(e)
            BY <3>2, <5>2
          <6>2. e \in Marker /\ Position(e) \in Nat /\ Position(e) >= 2 * StepCount + 1
            BY <2>7, <6>1, EndsAt, PositionIs
          <6>3. Running(i) \in markers /\ Position(Running(i)) = 2 * i + 2
            BY <1>1, <4>1, MarkersAt DEF ActiveRuns, WatchInv, TypeOK
          <6>4. ~(Position(e) < Position(Running(i)))
            BY <6>2, <6>3 DEF Steps
          <6> QED
            BY <1>1, <6>1, <6>3, <6>4 DEF WatchInv, SweepsOn
        <5> QED
          BY <5>1, <5>2
      <4> QED
        BY <4>1, <4>2, <4>3, <4>4 DEF ActiveRuns
    <3>4. ASSUME NEW i \in Steps, Newest(heard.markers) = Running(i)
          PROVE  active_step = i \/ Displaced(i)
      <4>1. Running(i) \in Marker /\ Position(Running(i)) = 2 * i + 2
        BY MarkersAt
      <4>2. heard.markers # {}
        BY <3>4, <4>1, NoneIsNone DEF Newest
      <4>3. PICK m \in heard.markers : IsNewest(m, heard.markers)
        BY <2>7, <4>2 DEF HasNewest
      <4>4. m = Running(i)
        BY <2>7, <3>4, <4>3, NewestIs
      <4>5. ~scenario_complete
        <5>1. ASSUME NEW n \in heard.markers
              PROVE  ~EndsScenario(n)
          <6>1. n \in Marker /\ Position(n) <= 2 * i + 2
            BY <2>7, <4>1, <4>3, <4>4 DEF IsNewest
          <6> QED
            BY <6>1, EndsAt DEF Steps
        <5> QED
          BY <3>2, <5>1
      <4>6. Running(i) \in seen
        BY <2>9, <4>3, <4>4, <4>5
      <4>7. IsNewest(Running(i), seen)
        BY <3>2, <4>3, <4>4, <4>5, <4>6 DEF IsNewest
      <4> QED
        BY <3>1, <4>7
    <3>5. result'.step_index = active_step /\ UNCHANGED <<heard, overtaken>>
      BY <1>1, <2>4
    <3> QED
      BY <3>3, <3>4, <3>5 DEF BlameIsRight, Displaced, SeenAfter
  <2> QED
    BY <1>3, <2>5, <2>6, <2>8, <2>10 DEF WatchInv
<1> QED
  BY <1>4, <1>5

\* What the supervisor knew ends with the run.
LEMMA ReportWatched == WatchInv /\ EarnedInv /\ Report => WatchInv'
<1> SUFFICES ASSUME WatchInv, EarnedInv, Report PROVE WatchInv'
  OBVIOUS
<1>1. /\ supervisor' = "idle" /\ UNCHANGED <<run, worker, markers>>
      /\ seen' = {} /\ scenario_complete' = FALSE /\ active_step' = None
      /\ left' = 0 /\ next_look' = 1 /\ result' = NoResult
      /\ in_phase' = 0 /\ heard' = [markers |-> {}, for |-> 0] /\ overtaken' = {}
  BY DEF Report, Forget
<1>2. TypeOK'
  <2>1. next_look' \in 1 .. Len(Looks)
    BY <1>1, LooksAt DEF Places
  <2>2. result' \in [timed_out : BOOLEAN, exit_code : {0, 1, 2}, step_index : Steps \cup {None}]
    BY <1>1 DEF NoResult
  <2>3. heard' \in [markers : SUBSET Marker, for : 0 .. Longest]
    BY <1>1, LongestIs
  <2>4. worker' \in WorkerType
    BY <1>1 DEF WatchInv, TypeOK, WorkerType
  <2>5. report' \in {0, 1, 2}
    <3>1. result.exit_code \in {0, 1, 2}
      BY DEF WatchInv, TypeOK
    <3> QED
      BY <3>1 DEF Report, ExitCodeForMissingResult
  <2>6. result_json' \in [run : 1 .. MaxRuns, passed : BOOLEAN] \cup {None}
    <3>1. supervisor # "idle"
      BY DEF Report
    <3>2. run \in 1 .. MaxRuns
      BY <3>1 DEF WatchInv, Started, TypeOK
    <3>3. Failure \in [run : 1 .. MaxRuns, passed : BOOLEAN]
      BY <3>2 DEF Failure
    <3>4. result_json' \in {Failure, result_json, None}
      BY DEF Report
    <3> QED
      BY <3>3, <3>4 DEF WatchInv, TypeOK
  <2>7. left' \in 0 .. Longest /\ in_phase' \in 0 .. Longest
    BY <1>1, LongestIs
  <2>8. /\ run' \in 0 .. MaxRuns /\ markers' \subseteq Marker
        /\ scenario_complete' \in BOOLEAN /\ active_step' \in Steps \cup {None}
        /\ seen' \subseteq Marker /\ overtaken' \subseteq seen' \X seen'
    BY <1>1 DEF WatchInv, TypeOK
  <2> QED
    BY <1>1, <2>1, <2>2, <2>3, <2>4, <2>5, <2>6, <2>7, <2>8 DEF TypeOK, WorkerType
<1>3. InOrder'
  BY <1>1 DEF WatchInv, InOrder
<1>4. Started' /\ EndIsKnown' /\ NotRunning' /\ DeadlineIsDue' /\ SweepsOn' /\ ExpiredBefore'
      /\ ActiveIsLast'
  BY <1>1 DEF Started, EndIsKnown, NotRunning, DeadlineIsDue, SweepsOn, ExpiredBefore,
              ActiveIsLast, Supervised
<1>5. KillIsDue' /\ BlameIsRight'
  BY <1>1 DEF NoResult, KillIsDue, BlameIsRight
<1> QED
  BY <1>2, <1>3, <1>4, <1>5 DEF WatchInv

\* How the supervisor reacts to a marker.
Reacts(m) ==
    \/ m = Ready /\ SeesReady
    \/ \E i \in Steps : m = Running(i) /\ SeesRunning(i)
    \/ \E i \in Steps : m = Done(i) /\ SeesDone(i)
    \/ m = ScenarioComplete /\ EnterTeardown(active_step)
    \/ /\ m = ShutdownComplete
       /\ left' = ExitTime /\ UNCHANGED <<scenario_complete, active_step>>

\* The end of the scenario, or of the step that is active.
ClearsStep(m) ==
    \/ EndsScenario(m) /\ ~scenario_complete
    \/ \E i \in Steps : m = Done(i) /\ active_step = i

\* What the supervisor makes of a marker.
Understood(m) ==
    /\ scenario_complete' \in BOOLEAN
    /\ scenario_complete' <=> scenario_complete \/ EndsScenario(m)
    /\ ~scenario_complete \/ m = ShutdownComplete => left' = Allowed(m)
    /\ (left' = left /\ scenario_complete) \/ left' \in {StepTime, TeardownTime, ExitTime}
    /\ \A i \in Steps : m = Running(i) => active_step' = i
    /\ (\A i \in Steps : m # Running(i)) => active_step' = IF ClearsStep(m) THEN None
                                                         ELSE active_step

\* Each reaction is one of these.
LEMMA ReactsUnderstood ==
  ASSUME scenario_complete \in BOOLEAN, NEW m \in Marker,
         m = ScenarioComplete => ~scenario_complete, Reacts(m)
  PROVE  Understood(m)
<1>1. CASE m = Ready /\ SeesReady
  <2>1. \A i \in Steps : m # Running(i) /\ m # Done(i)
    BY <1>1, NamesDiffer
  <2>2. m # ShutdownComplete /\ (EndsScenario(m) <=> StepCount = 0) /\ m # None
    BY <1>1, NamesDiffer, EndsByName, NoneIsNone
  <2>3. CASE StepCount = 0
    BY <1>1, <2>1, <2>2, <2>3 DEF SeesReady, EnterTeardown, Understood, ClearsStep, Allowed
  <2>4. CASE StepCount # 0
    BY <1>1, <2>1, <2>2, <2>4 DEF SeesReady, Understood, ClearsStep, Allowed
  <2> QED
    BY <2>3, <2>4
<1>2. ASSUME NEW i \in Steps, m = Running(i), SeesRunning(i)
      PROVE  Understood(m)
  <2>1. \A j \in Steps : (m = Running(j) => j = i) /\ m # Done(j)
    BY <1>2, NamesDiffer
  <2>2. m # ShutdownComplete /\ ~EndsScenario(m) /\ m # None
    BY <1>2, NamesDiffer, EndsByName, NoneIsNone
  <2> QED
    BY <1>2, <2>1, <2>2 DEF SeesRunning, Understood, Allowed
<1>3. ASSUME NEW i \in Steps, m = Done(i), SeesDone(i)
      PROVE  Understood(m)
  <2>1. \A j \in Steps : (m = Done(j) <=> j = i) /\ m # Running(j)
    BY <1>3, NamesDiffer
  <2>2. m # ShutdownComplete /\ (EndsScenario(m) <=> IsLastStep(i)) /\ m # None
    BY <1>3, NamesDiffer, EndsByName, NoneIsNone
  <2>3. CASE IsLastStep(i)
    BY <1>3, <2>1, <2>2, <2>3 DEF SeesDone, EnterTeardown, Understood, ClearsStep, Allowed
  <2>4. CASE ~IsLastStep(i)
    BY <1>3, <2>1, <2>2, <2>4 DEF SeesDone, Understood, ClearsStep, Allowed
  <2> QED
    BY <2>3, <2>4
<1>4. CASE m = ScenarioComplete /\ EnterTeardown(active_step)
  <2>1. \A i \in Steps : m # Running(i) /\ m # Done(i)
    BY <1>4, NamesDiffer
  <2>2. m # ShutdownComplete /\ EndsScenario(m) /\ m # None /\ ~scenario_complete
    BY <1>4, NamesDiffer, EndsByName, NoneIsNone
  <2> QED
    BY <1>4, <2>1, <2>2 DEF EnterTeardown, Understood, ClearsStep, Allowed
<1>5. CASE /\ m = ShutdownComplete
           /\ left' = ExitTime /\ UNCHANGED <<scenario_complete, active_step>>
  <2>1. \A i \in Steps : m # Running(i) /\ m # Done(i)
    BY <1>5, NamesDiffer
  <2>2. ~EndsScenario(m) /\ m # None
    BY <1>5, EndsByName, NoneIsNone
  <2> QED
    BY <1>5, <2>1, <2>2 DEF Understood, ClearsStep, Allowed
<1> QED
  BY <1>1, <1>2, <1>3, <1>4, <1>5 DEF Reacts

\* What every look does and leaves alone.
Looked ==
    /\ supervisor = "look" /\ supervisor' \in {"look", "check"}
    /\ supervisor' = "look" => next_look < Places /\ next_look' = next_look + 1
    /\ supervisor' = "check" => next_look = Places /\ next_look' = next_look
    /\ UNCHANGED <<run, result, report, worker, markers, result_json, in_phase, heard>>

\* A look at news, and the other ones.
LooksAtNews(m) ==
    /\ Looked /\ m \in Marker /\ Position(m) = next_look /\ IsNews(m)
    /\ seen' = seen \cup {m}
    /\ overtaken' = overtaken \cup {<<m, n>> : n \in Later(m)}
    /\ Understood(m)

LooksInVain(m) ==
    /\ Looked /\ m \in Marker /\ Position(m) = next_look /\ ~IsNews(m)
    /\ UNCHANGED <<seen, overtaken, scenario_complete, active_step, left>>

\* Every look is one or the other.
LEMMA LookIs ==
  ASSUME TypeOK, Look
  PROVE  \E m \in Marker : LooksAtNews(m) \/ LooksInVain(m)
<1> DEFINE m == Looks[next_look]
<1>1. next_look \in 1 .. Places /\ Len(Looks) = Places /\ Places \in Nat
  BY LooksAt DEF TypeOK, Places
<1>2. m \in Marker /\ Position(m) = next_look
  BY <1>1, PositionIs
<1>3. Looked
  BY <1>1 DEF Look, Looked
<1>4. CASE IsNews(m)
  <2>1. /\ seen' = seen \cup {m}
        /\ overtaken' = overtaken \cup {<<m, n>> : n \in Later(m)}
        /\ Reacts(m)
    BY <1>4 DEF Look, Reacts
  <2>2. Understood(m)
    BY <1>2, <1>4, <2>1, ReactsUnderstood DEF TypeOK, IsNews
  <2> HIDE DEF m
  <2>3. LooksAtNews(m)
    BY <1>2, <1>3, <1>4, <2>1, <2>2 DEF LooksAtNews
  <2> QED
    BY <1>2, <2>3
<1>5. CASE ~IsNews(m)
  <2>1. UNCHANGED <<seen, overtaken, scenario_complete, active_step, left>>
    BY <1>5 DEF Look
  <2> HIDE DEF m
  <2>2. LooksInVain(m)
    BY <1>2, <1>3, <1>5, <2>1 DEF LooksInVain
  <2> QED
    BY <1>2, <2>2
<1> QED
  BY <1>4, <1>5

\* What a look leaves alone keeps its type.
LEMMA LookedTypes ==
  ASSUME TypeOK, Looked
  PROVE  /\ run' \in 0 .. MaxRuns /\ supervisor' \in {"look", "check"}
         /\ next_look' \in 1 .. Len(Looks) /\ markers' \subseteq Marker
         /\ result' \in [timed_out : BOOLEAN, exit_code : {0, 1, 2},
                         step_index : Steps \cup {None}]
         /\ report' \in {None, 0, 1, 2}
         /\ worker' \in WorkerType
         /\ result_json' \in [run : 1 .. MaxRuns, passed : BOOLEAN] \cup {None}
         /\ in_phase' \in 0 .. Longest
         /\ heard' \in [markers : SUBSET Marker, for : 0 .. Longest]
<1>1. UNCHANGED <<run, result, report, worker, markers, result_json, in_phase, heard>>
  BY DEF Looked
<1>2. next_look' \in 1 .. Len(Looks) /\ supervisor' \in {"look", "check"}
  <2>1. Len(Looks) = Places /\ Places \in Nat
    BY LooksAt DEF Places
  <2>2. next_look \in 1 .. Len(Looks)
    BY DEF TypeOK
  <2> QED
    BY <2>1, <2>2 DEF Looked
<1>3. result' \in [timed_out : BOOLEAN, exit_code : {0, 1, 2}, step_index : Steps \cup {None}]
  BY <1>1 DEF TypeOK
<1>4. worker' \in WorkerType
  BY <1>1 DEF TypeOK, WorkerType
<1>5. result_json' \in [run : 1 .. MaxRuns, passed : BOOLEAN] \cup {None}
  BY <1>1 DEF TypeOK
<1>6. heard' \in [markers : SUBSET Marker, for : 0 .. Longest]
  BY <1>1 DEF TypeOK
<1>7. /\ run' \in 0 .. MaxRuns /\ markers' \subseteq Marker /\ report' \in {None, 0, 1, 2}
      /\ in_phase' \in 0 .. Longest
  BY <1>1 DEF TypeOK
<1> QED
  BY <1>2, <1>3, <1>4, <1>5, <1>6, <1>7

\* What a look leaves alone of the invariant.
LEMMA LookedKeeps ==
  ASSUME WatchInv, EarnedInv, Looked
  PROVE  InOrder' /\ Started' /\ NotRunning' /\ KillIsDue' /\ BlameIsRight'
<1>1. InOrder' /\ Started' /\ NotRunning'
  BY DEF WatchInv, Looked, InOrder, Started, NotRunning
<1>2. result' = NoResult
  BY DEF EarnedInv, OutcomeIsWorkers, Looked
<1> QED
  BY <1>1, <1>2 DEF NoResult, KillIsDue, BlameIsRight

\* The next round of looks goes on past this place.
LEMMA LookedSweeps ==
  ASSUME WatchInv, Looked, NEW m \in Marker, Position(m) = next_look,
         Unseen(heard.markers)' \subseteq Unseen(heard.markers) \ {m}
  PROVE  SweepsOn'
<1>1. UNCHANGED <<markers, heard>> /\ supervisor = "look"
  BY DEF Looked
<1>2. heard.markers \in SUBSET Marker
  BY DEF WatchInv, TypeOK
<1>3. ASSUME NEW n \in Unseen(heard.markers)'
      PROVE  next_look < Position(n) /\ Position(n) \in 1 .. Places
  <2>1. n \in Unseen(heard.markers) /\ n # m
    BY <1>3
  <2>2. n \in Marker
    BY <1>2, <2>1 DEF Unseen
  <2>3. next_look <= Position(n)
    BY <1>1, <2>1 DEF WatchInv, SweepsOn
  <2>4. Position(n) # Position(m)
    BY <2>1, <2>2, SamePlace
  <2> QED
    BY <2>2, <2>3, <2>4, PositionIs
<1>4. \A n \in Unseen(heard.markers)' : supervisor' = "look" /\ next_look' <= Position(n)
  BY <1>3, PositionIs DEF Looked, Places
<1>5. /\ heard'.markers \subseteq markers' /\ HasNewest(heard'.markers)
      /\ \A p \in markers' \ heard'.markers, n \in heard'.markers : Position(n) < Position(p)
  BY <1>1 DEF WatchInv, SweepsOn
<1> QED
  BY <1>4, <1>5 DEF SweepsOn

\* A look in vain: what lies ahead lies beyond this place.
LEMMA VainWatched ==
  ASSUME WatchInv, EarnedInv, NEW m \in Marker, LooksInVain(m)
  PROVE  WatchInv'
<1>1. /\ Looked /\ Position(m) = next_look /\ ~IsNews(m)
      /\ UNCHANGED <<seen, overtaken, scenario_complete, active_step, left>>
  BY DEF LooksInVain
<1>2. /\ supervisor = "look" /\ supervisor' \in {"look", "check"}
      /\ UNCHANGED <<markers, in_phase, heard>>
  BY <1>1 DEF Looked
<1>3. TypeOK'
  <2>1. /\ seen' \subseteq Marker /\ overtaken' \subseteq seen' \X seen' /\ seen' \subseteq markers'
        /\ scenario_complete' \in BOOLEAN /\ active_step' \in Steps \cup {None}
        /\ left' \in 0 .. Longest
    BY <1>1, <1>2 DEF WatchInv, TypeOK
  <2> QED
    BY <1>1, <2>1, LookedTypes DEF WatchInv, TypeOK, WorkerType
<1>4. InOrder' /\ Started' /\ NotRunning' /\ KillIsDue' /\ BlameIsRight'
  BY <1>1, LookedKeeps
<1>5. EndIsKnown' /\ DeadlineIsDue' /\ ExpiredBefore' /\ ActiveIsLast'
  BY <1>1, <1>2 DEF WatchInv, EndIsKnown, DeadlineIsDue, ExpiredBefore, ActiveIsLast, Unseen,
                    SeenAfter, ActiveRuns, Displaced, Supervised
<1>6. SweepsOn'
  <2>1. heard.markers \subseteq markers
    BY <1>2 DEF WatchInv, SweepsOn
  <2>2. m \notin Unseen(heard.markers)
    BY <1>1, <2>1 DEF IsNews, Unseen
  <2>3. Unseen(heard.markers)' \subseteq Unseen(heard.markers) \ {m}
    BY <1>1, <1>2, <2>2 DEF Unseen
  <2> QED
    BY <1>1, <2>3, LookedSweeps
<1> QED
  BY <1>3, <1>4, <1>5, <1>6 DEF WatchInv

\* A marker that was not seen after a later one is the newest that is seen, and its phase
\* has all of its time.
LEMMA NewsInOrder ==
  ASSUME WatchInv, NEW m \in Marker, LooksAtNews(m), overtaken' = {}
  PROVE  /\ \A n \in seen : Position(n) < Position(m)
         /\ left' = Allowed(m)
<1>1. m \in markers \ seen /\ seen \subseteq Marker /\ (m = ScenarioComplete => ~scenario_complete)
  BY DEF LooksAtNews, IsNews, WatchInv, TypeOK
<1>2. \A n \in seen : ~(Position(n) > Position(m))
  <2>1. {<<m, n>> : n \in Later(m)} = {}
    BY DEF LooksAtNews
  <2> QED
    BY <2>1 DEF Later
<1>3. ASSUME NEW n \in seen
      PROVE  Position(n) < Position(m)
  <2>1. n \in Marker /\ n # m
    BY <1>1
  <2>2. Position(n) # Position(m)
    BY <2>1, SamePlace
  <2> QED
    BY <1>2, <2>1, <2>2, PositionIs
<1>4. ~scenario_complete \/ m = ShutdownComplete
  <2> SUFFICES ASSUME scenario_complete
               PROVE  m = ShutdownComplete
    OBVIOUS
  <2>1. PICK n \in seen : EndsScenario(n)
    BY DEF WatchInv, EndIsKnown
  <2>2. Position(n) >= 2 * StepCount + 1
    BY <1>1, <2>1, EndsAt
  <2>3. Position(m) # 2 * StepCount + 2
    BY <1>1, MarkersAt, SamePlace
  <2>4. Position(m) = 2 * StepCount + 3
    BY <1>1, <1>3, <2>2, <2>3, PositionIs DEF Places
  <2> QED
    BY <2>4, MarkersAt, SamePlace
<1> QED
  BY <1>3, <1>4 DEF LooksAtNews, Understood

\* News: the deadline is that of the phase they tell, where they are in order.
LEMMA NewsDeadline ==
  ASSUME WatchInv, NEW m \in Marker, LooksAtNews(m)
  PROVE  DeadlineIsDue'
<1> SUFFICES ASSUME overtaken' = {}, Unseen(markers)' = {}
             PROVE  in_phase + left' >= Allowed(Newest(markers))
  BY DEF DeadlineIsDue, LooksAtNews, Looked
<1>1. (\A n \in seen : Position(n) < Position(m)) /\ left' = Allowed(m)
  BY NewsInOrder
<1>2. /\ m \in markers /\ markers \in SUBSET Marker /\ seen \subseteq markers
      /\ seen' = seen \cup {m} /\ markers' = markers /\ in_phase \in 0 .. Longest
      /\ scenario_complete' <=> scenario_complete \/ EndsScenario(m)
  BY DEF LooksAtNews, IsNews, Looked, Understood, WatchInv, TypeOK
<1>3. \A n \in markers : n \in seen \/ n = m \/ (n = ScenarioComplete /\ scenario_complete')
  BY <1>2 DEF Unseen
<1>4. \E x \in markers : IsNewest(x, markers) /\ Allowed(x) = Allowed(m)
  <2>1. CASE \A n \in markers : Position(n) <= Position(m)
    BY <1>2, <2>1 DEF IsNewest
  <2>2. CASE \E n \in markers : ~(Position(n) <= Position(m))
    <3>1. PICK n \in markers : ~(Position(n) <= Position(m))
      BY <2>2
    <3>2. n = ScenarioComplete /\ scenario_complete' /\ n \notin seen
      BY <1>1, <1>2, <1>3, <3>1, PositionIs
    <3>3. Position(n) = 2 * StepCount + 2
      BY <3>2, MarkersAt
    <3>4. PICK e \in seen \cup {m} : EndsScenario(e)
      BY <1>2, <3>2 DEF WatchInv, EndIsKnown
    <3>5. Position(e) \in {2 * StepCount + 1, 2 * StepCount + 2}
      BY <1>2, <3>4, EndsAt
    <3>6. Position(m) \in Nat /\ Position(e) <= Position(m) /\ Position(m) < 2 * StepCount + 2
      BY <1>1, <1>2, <3>1, <3>3, <3>4, PositionIs
    <3>7. Position(m) = 2 * StepCount + 1
      BY <3>5, <3>6
    <3>8. Allowed(n) = Allowed(m)
      BY <1>2, <3>3, <3>7, AllowedAt
    <3>9. \A k \in markers : Position(k) <= Position(n)
      BY <1>1, <1>2, <1>3, <3>2, <3>3, <3>7, PositionIs
    <3> QED
      BY <3>8, <3>9 DEF IsNewest
  <2> QED
    BY <2>1, <2>2
<1>5. Allowed(Newest(markers)) = Allowed(m)
  BY <1>2, <1>4, NewestIs
<1>6. Allowed(m) \in Nat
  BY LongestIs
<1> QED
  BY <1>1, <1>2, <1>5, <1>6

\* News never make a deadline that is there.
LEMMA NewsExpire ==
  ASSUME WatchInv, NEW m \in Marker, LooksAtNews(m)
  PROVE  ExpiredBefore'
<1> SUFFICES ASSUME left' = 0
             PROVE  /\ overtaken' # {}
                    /\ scenario_complete' /\ \E n \in heard.markers : EndsScenario(n)
  BY DEF ExpiredBefore, LooksAtNews, Looked
<1>1. left = 0 /\ scenario_complete /\ scenario_complete'
  BY LongestIs DEF LooksAtNews, Understood
<1>2. supervisor = "look"
  BY DEF LooksAtNews, Looked
<1>3. \E n \in heard.markers : EndsScenario(n)
  BY <1>1, <1>2 DEF WatchInv, ExpiredBefore
<1>4. overtaken' # {}
  BY NewsInOrder, LongestIs
<1> QED
  BY <1>1, <1>3, <1>4

\* News: what was seen before, and later than, this marker overtook it.
LEMMA NewsOvertaken ==
  ASSUME WatchInv, NEW m \in Marker, LooksAtNews(m)
  PROVE  /\ m \notin seen /\ seen' = seen \cup {m} /\ seen \in SUBSET Marker
         /\ overtaken \subseteq overtaken' /\ supervisor \in Supervised /\ Understood(m)
         /\ \A n \in seen : Position(m) < Position(n) => SeenAfter(m, n)'
<1>1. /\ m \notin seen /\ seen' = seen \cup {m} /\ seen \in SUBSET Marker
      /\ overtaken' = overtaken \cup {<<m, n>> : n \in Later(m)}
      /\ supervisor \in Supervised /\ Understood(m)
  BY DEF LooksAtNews, IsNews, Looked, WatchInv, TypeOK, Supervised
<1>2. ASSUME NEW n \in seen, Position(m) < Position(n)
      PROVE  SeenAfter(m, n)'
  <2>1. n \in Later(m)
    BY <1>1, <1>2, PositionIs DEF Later
  <2> QED
    BY <1>1, <2>1 DEF SeenAfter
<1> QED
  BY <1>1, <1>2

\* News: an active step runs, as far as was seen since.
LEMMA NewsRuns ==
  ASSUME WatchInv, NEW m \in Marker, LooksAtNews(m), NEW i \in Steps, active_step' = i
  PROVE  ActiveRuns(i)'
<1>1. /\ m \notin seen /\ seen' = seen \cup {m} /\ seen \in SUBSET Marker
      /\ overtaken \subseteq overtaken' /\ supervisor \in Supervised /\ Understood(m)
      /\ \A n \in seen : Position(m) < Position(n) => SeenAfter(m, n)'
  BY NewsOvertaken
<1>2. /\ Position(Running(i)) = 2 * i + 2 /\ Position(Done(i)) = 2 * i + 3
      /\ Running(i) # Done(i)
  BY MarkersAt, NamesDiffer
<1>3. CASE m = Running(i)
  <2>1. Done(i) \in seen => SeenAfter(Running(i), Done(i))'
    BY <1>1, <1>2, <1>3 DEF Steps
  <2>2. ASSUME scenario_complete
        PROVE  \E n \in Marker : EndsScenario(n) /\ SeenAfter(Running(i), n)'
    <3>1. PICK n \in seen : EndsScenario(n)
      BY <2>2 DEF WatchInv, EndIsKnown
    <3>2. n \in Marker /\ Position(n) \in Nat /\ Position(n) >= 2 * StepCount + 1
      BY <1>1, <3>1, EndsAt, PositionIs
    <3>3. Position(m) < Position(n)
      BY <1>2, <1>3, <3>2 DEF Steps
    <3> QED
      BY <1>1, <1>3, <3>1, <3>2, <3>3
  <2>3. scenario_complete' => scenario_complete
    BY <1>1, <1>3, EndsByName DEF Understood
  <2> QED
    BY <1>1, <1>2, <1>3, <2>1, <2>2, <2>3 DEF ActiveRuns
<1>4. CASE m # Running(i)
  <2>1. \A j \in Steps : m # Running(j)
    BY <1>1, <1>4 DEF Understood
  <2>2. active_step = i /\ ~ClearsStep(m)
    BY <1>1, <2>1, NoneIsNone DEF Understood
  <2>3. ActiveRuns(i)
    BY <1>1, <2>2 DEF WatchInv, ActiveIsLast
  <2>4. m # Done(i) /\ (scenario_complete' => scenario_complete)
    BY <1>1, <2>2 DEF ClearsStep, Understood
  <2>5. \A n \in Marker : SeenAfter(Running(i), n) => SeenAfter(Running(i), n)'
    BY <1>1 DEF SeenAfter
  <2> QED
    BY <1>1, <2>3, <2>4, <2>5, MarkersAt DEF ActiveRuns
<1> QED
  BY <1>3, <1>4

\* News: a start that is the newest marker seen is that of the active step, unless displaced.
LEMMA NewsNewest ==
  ASSUME WatchInv, NEW m \in Marker, LooksAtNews(m),
         NEW i \in Steps, IsNewest(Running(i), seen')
  PROVE  active_step' = i \/ Displaced(i)'
<1>1. /\ m \notin seen /\ seen' = seen \cup {m} /\ seen \in SUBSET Marker
      /\ overtaken \subseteq overtaken' /\ supervisor \in Supervised /\ Understood(m)
      /\ \A n \in seen : Position(m) < Position(n) => SeenAfter(m, n)'
  BY NewsOvertaken
<1>2. CASE m = Running(i)
  BY <1>1, <1>2 DEF Understood
<1>3. CASE m # Running(i)
  <2>1. /\ Running(i) \in seen /\ Running(i) \in Marker /\ Position(Running(i)) = 2 * i + 2
        /\ Position(m) <= 2 * i + 2 /\ IsNewest(Running(i), seen)
    BY <1>1, <1>3, MarkersAt DEF IsNewest
  <2>2. ASSUME NEW j \in Steps, m = Running(j)
        PROVE  Displaced(i)'
    <3>1. Position(m) = 2 * j + 2 /\ Position(m) # Position(Running(i))
      BY <1>3, <2>1, <2>2, MarkersAt, SamePlace
    <3>2. j < i /\ Position(m) < Position(Running(i))
      BY <2>1, <3>1 DEF Steps
    <3> QED
      BY <1>1, <2>1, <2>2, <3>2 DEF Displaced
  <2>3. CASE \A j \in Steps : m # Running(j)
    <3>1. active_step = i \/ Displaced(i)
      BY <1>1, <2>1 DEF WatchInv, ActiveIsLast
    <3>2. Displaced(i) => Displaced(i)'
      BY <1>1 DEF Displaced, SeenAfter
    <3>3. ~EndsScenario(m)
      BY <2>1, EndsAt DEF Steps
    <3>4. m # Done(i)
      BY <2>1, MarkersAt DEF Steps
    <3>5. active_step = i => ~ClearsStep(m)
      BY <3>3, <3>4 DEF ClearsStep
    <3> QED
      BY <1>1, <2>3, <3>1, <3>2, <3>5 DEF Understood
  <2> QED
    BY <2>2, <2>3
<1> QED
  BY <1>2, <1>3

\* News: the active step is the one whose start is the newest marker seen, with its exceptions.
LEMMA NewsActive ==
  ASSUME WatchInv, NEW m \in Marker, LooksAtNews(m)
  PROVE  ActiveIsLast'
<1>1. /\ seen' = seen \cup {m} /\ seen \in SUBSET Marker /\ supervisor \in Supervised
  BY NewsOvertaken
<1>2. HasNewest(seen)
  BY <1>1 DEF WatchInv, ActiveIsLast
<1>3. HasNewest(seen')
  <2>1. CASE seen = {}
    BY <1>1, <2>1, PositionIs DEF HasNewest, IsNewest
  <2>2. CASE seen # {}
    <3>1. PICK x \in seen : IsNewest(x, seen)
      BY <1>2, <2>2 DEF HasNewest
    <3>2. CASE Position(x) <= Position(m)
      <4>1. \A n \in seen : Position(n) <= Position(m)
        BY <1>1, <3>1, <3>2, PositionIs DEF IsNewest
      <4> QED
        BY <1>1, <4>1, NewMarkerIsNewest DEF HasNewest
    <3>3. CASE ~(Position(x) <= Position(m))
      <4>1. IsNewest(x, seen')
        BY <1>1, <3>1, <3>3, PositionIs DEF IsNewest
      <4> QED
        BY <1>1, <4>1 DEF HasNewest
    <3> QED
      BY <3>2, <3>3
  <2> QED
    BY <2>1, <2>2
<1> QED
  BY <1>3, NewsRuns, NewsNewest DEF ActiveIsLast

\* A look at news.
LEMMA NewsWatched ==
  ASSUME WatchInv, EarnedInv, NEW m \in Marker, LooksAtNews(m)
  PROVE  WatchInv'
<1>1. /\ Looked /\ Position(m) = next_look /\ m \in markers \ seen
      /\ seen' = seen \cup {m} /\ overtaken' = overtaken \cup {<<m, n>> : n \in Later(m)}
      /\ markers' = markers /\ heard' = heard /\ Understood(m)
  BY DEF LooksAtNews, Looked, IsNews
<1>2. TypeOK'
  <2>1. /\ seen' \subseteq Marker /\ overtaken' \subseteq seen' \X seen' /\ seen' \subseteq markers'
        /\ scenario_complete' \in BOOLEAN
    BY <1>1 DEF WatchInv, TypeOK, Understood, Looked, Later
  <2>2. active_step' \in Steps \cup {None}
    BY <1>1 DEF WatchInv, TypeOK, Understood
  <2>3. left' \in 0 .. Longest
    <3>1. left' = left \/ left' \in {StepTime, TeardownTime, ExitTime}
      BY <1>1 DEF Understood
    <3>2. left \in 0 .. Longest
      BY DEF WatchInv, TypeOK
    <3>3. {StepTime, TeardownTime, ExitTime} \subseteq 0 .. Longest
      BY LongestIs
    <3> QED
      BY <3>1, <3>2, <3>3
  <2> QED
    BY <1>1, <2>1, <2>2, <2>3, LookedTypes DEF WatchInv, TypeOK, WorkerType
<1>3. InOrder' /\ Started' /\ NotRunning' /\ KillIsDue' /\ BlameIsRight'
  BY <1>1, LookedKeeps
<1>4. EndIsKnown'
  BY <1>1 DEF WatchInv, EndIsKnown, Understood
<1>5. SweepsOn'
  <2>1. Unseen(heard.markers)' \subseteq Unseen(heard.markers) \ {m}
    BY <1>1 DEF Unseen, Understood
  <2> QED
    BY <1>1, <2>1, LookedSweeps
<1>6. DeadlineIsDue' /\ ExpiredBefore' /\ ActiveIsLast'
  BY NewsDeadline, NewsExpire, NewsActive
<1> QED
  BY <1>2, <1>3, <1>4, <1>5, <1>6 DEF WatchInv
-----------------------------------------------------------------------------
\* The supervisor's knowledge of the worker, in every reachable state.
THEOREM Watched == Spec => []WatchInv
<1>1. ASSUME WatchInv, EarnedInv, [Next]_vars PROVE WatchInv'
  <2>1. CASE UNCHANGED vars
    <3>1. /\ UNCHANGED <<run, supervisor, next_look, seen, scenario_complete, active_step, left>>
          /\ UNCHANGED <<result, report, worker, markers, result_json, in_phase, heard, overtaken>>
      BY <2>1 DEF vars, supervision, told, truth
    <3>2. TypeOK'
      <4>1. /\ run' \in 0 .. MaxRuns /\ next_look' \in 1 .. Len(Looks)
            /\ supervisor' \in {"idle", "poll", "look", "check", "sleep", "returned", "failed"}
            /\ seen' \subseteq Marker /\ markers' \subseteq Marker
            /\ overtaken' \subseteq seen' \X seen'
            /\ scenario_complete' \in BOOLEAN /\ active_step' \in Steps \cup {None}
            /\ left' \in 0 .. Longest /\ in_phase' \in 0 .. Longest
            /\ report' \in {None, 0, 1, 2}
            /\ supervisor' \in {"poll", "look", "check", "sleep"} => seen' \subseteq markers'
        BY <1>1, <3>1 DEF WatchInv, TypeOK
      <4>2. result' \in [timed_out : BOOLEAN, exit_code : {0, 1, 2},
                         step_index : Steps \cup {None}]
        BY <1>1, <3>1 DEF WatchInv, TypeOK
      <4>3. worker' \in WorkerType
        BY <1>1, <3>1 DEF WatchInv, TypeOK, WorkerType
      <4>4. result_json' \in [run : 1 .. MaxRuns, passed : BOOLEAN] \cup {None}
        BY <1>1, <3>1 DEF WatchInv, TypeOK
      <4>5. heard' \in [markers : SUBSET Marker, for : 0 .. Longest]
        BY <1>1, <3>1 DEF WatchInv, TypeOK
      <4> QED
        BY <4>1, <4>2, <4>3, <4>4, <4>5 DEF TypeOK, WorkerType
    <3>3. InOrder' /\ Started' /\ EndIsKnown' /\ NotRunning' /\ DeadlineIsDue' /\ SweepsOn'
      BY <1>1, <3>1 DEF WatchInv, InOrder, Started, EndIsKnown, NotRunning, DeadlineIsDue,
                        SweepsOn, Unseen
    <3>4. ExpiredBefore' /\ ActiveIsLast' /\ KillIsDue' /\ BlameIsRight'
      BY <1>1, <3>1 DEF WatchInv, ExpiredBefore, ActiveIsLast, SeenAfter, ActiveRuns,
                        Displaced, KillIsDue, BlameIsRight, Unseen
    <3> QED
      BY <3>2, <3>3, <3>4 DEF WatchInv
  <2>2. CASE Look
    <3>1. PICK m \in Marker : LooksAtNews(m) \/ LooksInVain(m)
      BY <1>1, <2>2, LookIs DEF WatchInv
    <3> QED
      BY <1>1, <3>1, NewsWatched, VainWatched
  <2>3. CASE Next /\ ~Look
    BY <1>1, <2>1, <2>3, StartWatched, WorkerWatched, PollWatched, SleepWatched, CheckWatched,
       ReportWatched DEF Next, SupervisorStep, Terminated
  <2> QED
    BY <1>1, <2>1, <2>2, <2>3
<1> QED
  BY <1>1, InitWatched, Earned, PTL DEF Spec

\* Every variable keeps its type; what the supervisor has seen was written, in this run.
THEOREM TypeCorrect == Spec => []TypeOK
  BY Watched, PTL DEF WatchInv

\* A worker is killed only when its phase had its time, as far as its markers told as the
\* round of looks began, unless a marker was seen after a later one.
THEOREM KillsDue == Spec => []KillIsDue
  BY Watched, PTL DEF WatchInv

\* A timeout is blamed on the step whose start is the newest marker told, on none that had
\* ended, and on none when the markers told the end of the scenario; but for a start seen after
\* the step's own end, after the end of the scenario, or after the start of a later step.
THEOREM BlameRight == Spec => []BlameIsRight
  BY Watched, PTL DEF WatchInv
=============================================================================
