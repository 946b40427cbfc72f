------------------------- MODULE AutomationSupervisor -------------------------
(***************************************************************************)
(* A headless automation run: the parent (RunNewHeadlessAutomation) starts *)
(* a worker process (RunNewHeadlessAutomationWorker), and the supervisor   *)
(* polls it, gives it as much time as the phase it is in may take, and     *)
(* kills it when that is over.                                             *)
(*                                                                         *)
(* The worker tells its phase by marker files.  The supervisor looks for   *)
(* one file after the other, each time it wakes, so the worker may write   *)
(* several markers between two looks.  Time passes only as the supervisor  *)
(* sleeps: a look at the files takes none.  What a run writes to           *)
(* result.json stays there for the next run with the same directory.       *)
(***************************************************************************)
EXTENDS Integers, Sequences, SequencesExt

CONSTANTS
    StepCount,                                      \* steps of the scenario
    StartupTime, StepTime, TeardownTime, ExitTime,  \* how long each phase may take
    MaxDelay,       \* bound: ticks the supervisor sleeps at once
    MaxRuns,        \* bound: runs in the same artifacts directory
    None

ASSUME TimesAssumption ==
    /\ {StartupTime, StepTime, TeardownTime, ExitTime, MaxDelay, MaxRuns} \subseteq Nat \ {0}
    /\ StepCount \in Nat
    /\ None \notin Nat \cup ({"ready", "running", "done", "scenario", "shutdown"} \X Nat)

VARIABLES
    run,
    \* The supervisor: what it does next, the markers it has seen, its deadline less now.
    supervisor, next_look, seen, scenario_complete, active_step, left,
    result,             \* what it returns to the parent
    report,             \* the exit code of the parent
    \* The worker, its markers, and the file with the outcome of the scenario.
    worker, markers, result_json,
    \* What really happened: the ticks since the worker entered the phase its markers
    \* tell, the markers and those ticks as the last look began, and each marker that was
    \* seen after a later one, with that one.
    in_phase, heard, overtaken

told == <<supervisor, next_look, seen, scenario_complete, active_step, left, result>>
supervision == <<told, report>>
truth == <<in_phase, heard, overtaken>>
vars == <<run, supervision, worker, markers, result_json, truth>>
-----------------------------------------------------------------------------
Steps == 0 .. StepCount - 1
Ready == <<"ready", 0>>
Running(i) == <<"running", i>>
Done(i) == <<"done", i>>
ScenarioComplete == <<"scenario", 0>>
ShutdownComplete == <<"shutdown", 0>>

\* The order the supervisor looks for markers in, which is the order they are written in.
Looks ==
    <<Ready>>
    \o [k \in 1 .. 2 * StepCount |->
          IF k % 2 = 1 THEN Running((k - 1) \div 2) ELSE Done((k - 1) \div 2)]
    \o <<ScenarioComplete, ShutdownComplete>>
Position(m) == CHOOSE k \in 1 .. Len(Looks) : Looks[k] = m
Newest(ms) == IF ms = {} THEN None
              ELSE CHOOSE m \in ms : \A n \in ms : Position(n) <= Position(m)

IsLastStep(i) == i + 1 = StepCount
\* The last step done is the end of the scenario already, and so is a worker that is ready
\* when there is no step.
EndsScenario(m) ==
    \/ m = ScenarioComplete
    \/ m = Ready /\ StepCount = 0
    \/ \E i \in Steps : m = Done(i) /\ IsLastStep(i)
\* The time a worker may take whose newest marker this is.
Allowed(m) ==
    IF m = None THEN StartupTime
    ELSE IF m = ShutdownComplete THEN ExitTime
    ELSE IF EndsScenario(m) THEN TeardownTime
    ELSE StepTime
Longest == Max({StartupTime, StepTime, TeardownTime, ExitTime})

NoResult == [timed_out |-> FALSE, exit_code |-> 2, step_index |-> None]
Alive == worker.at \notin {"none", "dead"}
-----------------------------------------------------------------------------
(***************************************************************************)
(* The worker                                                              *)
(***************************************************************************)
\* The marker of an end that was told already changes no phase.
StartsPhase(m) == ~(m = ScenarioComplete /\ \E n \in markers : EndsScenario(n))

\* The marker is written, or lost as the file is closed, which nobody is told of.
Mark(m) == \/ /\ markers' = markers \cup {m}
              /\ in_phase' = IF StartsPhase(m) THEN 0 ELSE in_phase
           \/ UNCHANGED <<markers, in_phase>>
\* It cannot be written, and the worker knows.
MarkFails == UNCHANGED <<markers, in_phase>>

Worker(at, step, passed) == worker' = [at |-> at, step |-> step, passed |-> passed,
                                       exit_code |-> worker.exit_code]

\* HeadlessRuntimeEnvironment::Initialize; a runtime that does not start is torn down.
Initialize ==
    /\ worker.at = "init"
    /\ Worker("ready", 0, FALSE) \/ Worker("teardown", 0, FALSE)
    /\ UNCHANGED <<markers, in_phase, result_json>>

\* A runtime that cannot be marked ready runs no scenario, and does not say that it ended.
MarkRuntimeReady ==
    /\ worker.at = "ready"
    /\ \/ Mark(Ready) /\ Worker("scenario", 0, FALSE)
       \/ MarkFails /\ Worker("teardown", 0, FALSE)
    /\ UNCHANGED result_json

\* The loop of automation_scenario_runner::Run; before the first step the scenario may turn
\* out to be invalid.
BeginStep ==
    /\ worker.at = "scenario"
    /\ \/ /\ worker.step \in Steps
          /\ Mark(Running(worker.step)) /\ Worker("step", worker.step, worker.passed)
       \/ /\ worker.step \in Steps
          /\ MarkFails /\ Worker("over", worker.step, FALSE)
       \/ /\ worker.step \notin Steps
          /\ MarkFails /\ Worker("over", worker.step, worker.passed)
    /\ UNCHANGED result_json

\* A step passes, fails, or throws, as it does when it took too long or cannot be marked done.
EndStep ==
    /\ worker.at = "step"
    /\ \/ Mark(Done(worker.step)) /\ Worker("scenario", worker.step + 1, TRUE)
       \/ Mark(Done(worker.step)) /\ Worker("over", worker.step, FALSE)
       \/ MarkFails /\ Worker("over", worker.step, FALSE)
    /\ UNCHANGED result_json

MarkWorkerScenarioComplete ==
    /\ worker.at = "over"
    /\ Mark(ScenarioComplete)
    /\ Worker("teardown", worker.step, worker.passed)
    /\ UNCHANGED result_json

TearDown ==
    /\ worker.at = "teardown"
    /\ Worker("result", worker.step, worker.passed)
    /\ UNCHANGED <<markers, in_phase, result_json>>

\* FinishHeadlessWorker: result.json, which may be lost like a marker, or fail.
WriteResult ==
    /\ worker.at = "result"
    /\ \/ /\ result_json' = [run |-> run, passed |-> worker.passed]
          /\ Worker("written", worker.step, worker.passed)
       \/ UNCHANGED result_json /\ \E passed \in {FALSE, worker.passed} :
                                     Worker("written", worker.step, passed)
    /\ UNCHANGED <<markers, in_phase>>

MarkWorkerShutdownComplete ==
    /\ worker.at = "written"
    /\ Mark(ShutdownComplete)
    /\ Worker("exit", worker.step, worker.passed)
    /\ UNCHANGED result_json

\* The end of the process: as it should, in a crash, or because the script called os.exit.
Exit ==
    /\ \/ worker.at = "exit" /\ worker' = [worker EXCEPT !.at = "dead",
                                             !.exit_code = IF worker.passed THEN 0 ELSE 1]
       \/ Alive /\ worker' = [worker EXCEPT !.at = "dead", !.exit_code = 1]
       \/ worker.at = "step" /\ worker' = [worker EXCEPT !.at = "dead", !.exit_code = 0]
    /\ UNCHANGED <<markers, in_phase, result_json>>

WorkerStep ==
    /\ \/ Initialize \/ MarkRuntimeReady \/ BeginStep \/ EndStep
       \/ MarkWorkerScenarioComplete \/ TearDown \/ WriteResult
       \/ MarkWorkerShutdownComplete \/ Exit
    /\ UNCHANGED <<run, supervision, heard, overtaken>>
-----------------------------------------------------------------------------
(***************************************************************************)
(* The supervisor: RunWithHooks                                            *)
(***************************************************************************)
\* A new run, maybe in the directory of an earlier one.  The worker may fail to start.
Start ==
    /\ supervisor = "idle" /\ run < MaxRuns
    /\ run' = run + 1
    /\ report' = None
    /\ markers' = {}
    /\ left' = StartupTime
    /\ \/ /\ supervisor' = "poll"
          /\ worker' = [at |-> "init", step |-> 0, passed |-> FALSE, exit_code |-> 0]
       \/ /\ supervisor' = "failed"
          /\ worker' = [at |-> "none", step |-> 0, passed |-> FALSE, exit_code |-> 0]
    /\ UNCHANGED <<next_look, seen, scenario_complete, active_step, result, result_json, truth>>

Poll ==
    /\ supervisor = "poll"
    /\ IF Alive
         THEN /\ supervisor' = "look" /\ next_look' = 1
              /\ heard' = [markers |-> markers, for |-> in_phase]
              /\ UNCHANGED <<result, markers>>
         ELSE /\ supervisor' = "returned"
              /\ result' = [result EXCEPT !.exit_code = worker.exit_code]
              /\ markers' = {}
              /\ UNCHANGED <<next_look, heard>>
    /\ UNCHANGED <<run, seen, scenario_complete, active_step, left, report, worker,
                   result_json, in_phase, overtaken>>

\* Mutant: the deadline of the step goes on.
EnterTeardown_KeepsDeadline(step) ==
    /\ scenario_complete' = TRUE
    /\ active_step' = IF scenario_complete THEN step ELSE None
    /\ UNCHANGED left

\* enter_teardown, with the step that is active when it is called; it is entered once.
EnterTeardown(step) ==
    /\ scenario_complete' = TRUE
    /\ IF scenario_complete THEN active_step' = step /\ UNCHANGED left
       ELSE active_step' = None /\ left' = TeardownTime

SeesReady ==
    IF StepCount = 0 THEN EnterTeardown(active_step)
    ELSE left' = StepTime /\ UNCHANGED <<scenario_complete, active_step>>

\* Mutant: steps counted from one.
SeesRunning_FromOne(i) ==
    /\ active_step' = i + 1
    /\ left' = IF scenario_complete THEN left ELSE StepTime
    /\ UNCHANGED scenario_complete

SeesRunning(i) ==
    /\ active_step' = i
    /\ left' = IF scenario_complete THEN left ELSE StepTime
    /\ UNCHANGED scenario_complete

\* Mutant: the end of the last step only enters the teardown.
SeesDone_KeepsLast(i) ==
    IF IsLastStep(i) THEN EnterTeardown(active_step)
    ELSE /\ active_step' = IF active_step = i THEN None ELSE active_step
         /\ left' = IF scenario_complete THEN left ELSE StepTime
         /\ UNCHANGED scenario_complete

\* The step is not active any more; the last one enters the teardown.
SeesDone(i) ==
    LET step == IF active_step = i THEN None ELSE active_step IN
    IF IsLastStep(i) THEN EnterTeardown(step)
    ELSE /\ active_step' = step
         /\ left' = IF scenario_complete THEN left ELSE StepTime
         /\ UNCHANGED scenario_complete

\* Mutant: a marker is news at every look.
IsNews_Again(m) == m \in markers

\* A marker is reacted to once; the end of the scenario not if it is known already.
IsNews(m) ==
    /\ m \in markers \ seen
    /\ m = ScenarioComplete => ~scenario_complete

\* The markers seen already that are written after this one.
Later(m) == {n \in seen : Position(n) > Position(m)}

\* One look for one marker, at its place in the order.
Look ==
    /\ supervisor = "look"
    /\ LET m == Looks[next_look] IN
       IF IsNews(m)
         THEN /\ seen' = seen \cup {m}
              /\ overtaken' = overtaken \cup {<<m, n>> : n \in Later(m)}
              /\ \/ m = Ready /\ SeesReady
                 \/ \E i \in Steps : m = Running(i) /\ SeesRunning(i)
                 \/ \E i \in Steps : m = Done(i) /\ SeesDone(i)
                 \/ m = ScenarioComplete /\ EnterTeardown(active_step)
                 \/ /\ m = ShutdownComplete
                    /\ left' = ExitTime /\ UNCHANGED <<scenario_complete, active_step>>
         ELSE UNCHANGED <<seen, overtaken, scenario_complete, active_step, left>>
    /\ IF next_look < Len(Looks)
         THEN next_look' = next_look + 1 /\ UNCHANGED supervisor
         ELSE supervisor' = "check" /\ UNCHANGED next_look
    /\ UNCHANGED <<run, result, report, worker, markers, result_json, in_phase, heard>>

\* At the deadline the worker is killed; the message names the step it is blamed on.
Check ==
    /\ supervisor = "check"
    /\ IF left > 0
         THEN supervisor' = "sleep" /\ UNCHANGED <<result, worker, markers>>
         ELSE /\ supervisor' = "returned"
              /\ worker' = [worker EXCEPT !.at = "dead"]
              /\ result' = [timed_out |-> TRUE, exit_code |-> 1, step_index |-> active_step]
              /\ markers' = {}
    /\ UNCHANGED <<run, next_look, seen, scenario_complete, active_step, left, report,
                   result_json, truth>>

Sleep ==
    /\ supervisor = "sleep"
    /\ supervisor' = "poll"
    /\ \E d \in 1 .. MaxDelay :
         /\ left' = IF left > d THEN left - d ELSE 0
         /\ in_phase' = IF in_phase + d < Longest THEN in_phase + d ELSE Longest
    /\ UNCHANGED <<run, next_look, seen, scenario_complete, active_step, result, report,
                   worker, markers, result_json, heard, overtaken>>

\* Mutant: the worker is believed.
ExitCodeForMissingResult_Same(code) == code

\* A worker that exits cleanly without a result has failed.
ExitCodeForMissingResult(code) == IF code = 0 THEN 2 ELSE code

\* The rest of RunNewHeadlessAutomation: a result of the worker's is printed; when there is
\* none or it cannot be opened, the parent writes one that says so, which may fail or be lost.
Failure == [run |-> run, passed |-> FALSE]
\* What the supervisor knew ends with it.
Forget == /\ seen' = {} /\ scenario_complete' = FALSE /\ active_step' = None
          /\ left' = 0 /\ next_look' = 1 /\ result' = NoResult
          /\ in_phase' = 0 /\ heard' = [markers |-> {}, for |-> 0] /\ overtaken' = {}
Report ==
    /\ \/ /\ supervisor = "failed" \/ (supervisor = "returned" /\ result.timed_out)
          /\ \/ result_json' \in {Failure, result_json} /\ report' = result.exit_code
             \/ UNCHANGED result_json /\ report' = 2
       \/ /\ supervisor = "returned" /\ ~result.timed_out /\ result_json # None
          /\ report' = result.exit_code /\ UNCHANGED result_json
       \/ /\ supervisor = "returned" /\ ~result.timed_out
          /\ \/ /\ result_json' \in {Failure, result_json}
                /\ report' = ExitCodeForMissingResult(result.exit_code)
             \/ UNCHANGED result_json /\ report' = 2
    /\ supervisor' = "idle" /\ Forget
    /\ UNCHANGED <<run, worker, markers>>

SupervisorStep == Poll \/ Look \/ Check \/ Sleep \/ Report
-----------------------------------------------------------------------------
Init ==
    /\ run = 0 /\ supervisor = "idle" /\ next_look = 1 /\ seen = {}
    /\ scenario_complete = FALSE /\ active_step = None /\ left = 0
    /\ result = NoResult /\ report = None
    /\ worker = [at |-> "none", step |-> 0, passed |-> FALSE, exit_code |-> 0]
    /\ markers = {} /\ result_json = None
    /\ in_phase = 0 /\ heard = [markers |-> {}, for |-> 0] /\ overtaken = {}

\* No run is left that this directory could be used for.
Terminated == supervisor = "idle" /\ run = MaxRuns /\ UNCHANGED vars

Next == Start \/ SupervisorStep \/ WorkerStep \/ Terminated

Spec == Init /\ [][Next]_vars
\* The supervisor's loop goes on.  The worker may stop at any point, for ever.
FairSpec == Spec /\ WF_vars(SupervisorStep)
-----------------------------------------------------------------------------
(***************************************************************************)
(* Properties                                                              *)
(***************************************************************************)
Marker == ToSet(Looks)

\* The types; what has been seen was written, in this run.
TypeOK ==
    /\ run \in 0 .. MaxRuns
    /\ supervisor \in {"idle", "poll", "look", "check", "sleep", "returned", "failed"}
    /\ next_look \in 1 .. Len(Looks)
    /\ seen \subseteq Marker /\ overtaken \subseteq seen \X seen /\ markers \subseteq Marker
    /\ scenario_complete \in BOOLEAN /\ active_step \in Steps \cup {None} /\ left \in 0 .. Longest
    /\ result \in [timed_out : BOOLEAN, exit_code : {0, 1, 2}, step_index : Steps \cup {None}]
    /\ report \in {None, 0, 1, 2}
    /\ worker \in [at : {"none", "init", "ready", "scenario", "step", "over", "teardown",
                         "result", "written", "exit", "dead"},
                   step : 0 .. StepCount, passed : BOOLEAN, exit_code : {0, 1}]
    /\ result_json \in [run : 1 .. MaxRuns, passed : BOOLEAN] \cup {None}
    /\ in_phase \in 0 .. Longest
    /\ heard \in [markers : SUBSET Marker, for : 0 .. Longest]
    /\ supervisor \in {"poll", "look", "check", "sleep"} => seen \subseteq markers

\* The worker is killed only when it had been, as the look began, in the phase its markers
\* told for as long as the phase may take; unless a marker was seen after a later one.
KillIsDue ==
    result.timed_out => heard.for >= Allowed(Newest(heard.markers)) \/ overtaken # {}

\* The markers told first, and were seen in the other order.
SeenAfter(m, n) == <<m, n>> \in overtaken

\* A timeout is blamed on a step that had begun and not ended, or on none, as far as the
\* markers told as the look began: on none when they told that the scenario was over, and
\* on the step they told of last.  But a step whose start is seen only after its own end is
\* active for good; one seen to start after the end of the scenario, until its own end is
\* seen; and an earlier one seen to start after a later one takes its place.
BlameIsRight ==
    result.timed_out =>
        \A i \in Steps :
            /\ result.step_index = i =>
                   /\ Running(i) \in heard.markers
                   /\ Done(i) \in heard.markers => SeenAfter(Running(i), Done(i))
                   /\ (\E m \in heard.markers : EndsScenario(m)) =>
                          \E m \in Marker : EndsScenario(m) /\ SeenAfter(Running(i), m)
            /\ Newest(heard.markers) = Running(i) =>
                   \/ result.step_index = i
                   \/ \E j \in Steps : j < i /\ SeenAfter(Running(j), Running(i))

\* A run succeeds only if its scenario passed and the result is there, unless a result of an
\* earlier run was.
SuccessIsEarned ==
    report = 0 =>
        \/ worker.passed /\ result_json = [run |-> run, passed |-> TRUE]
        \/ result_json # None /\ result_json.run < run

\* Every run comes to an end, wherever the worker hangs.
RunsEnd == supervisor # "idle" ~> supervisor = "idle"
=============================================================================
