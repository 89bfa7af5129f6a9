---------------------------- MODULE JavaTaskProofs ----------------------------
(***************************************************************************)
(* Proofs about the two Java programs that native threads call back:       *)
(* JavaTask first, then JnaTask, for any number of tasks and any           *)
(* parameters.                                                             *)
(*                                                                         *)
(* The inductive invariant of JavaTask says, task by task, what each       *)
(* position of the native thread implies for the peer, the log and the     *)
(* loop (PeerOK, LogOK and LoopOK), what main's position implies (MainInv) *)
(* and that live threads have different ids (IdInv).  A step of one thread *)
(* leaves the facts about the other tasks alone: lemma OthersKeep.  A      *)
(* second invariant, FileInv, says what is in the files the logs are       *)
(* written to, by who opened them last.                                    *)
(***************************************************************************)
EXTENDS JavaTask, JnaTask, TLAPS

Before == {"none", "start", "OnStarted"}
Looping == {"loop", "OnProgress"}
Finishing == {"finish", "OnFinished"}
After == {"unregister", "println", "detach", "done"}

\* Who keeps the peer of a task alive.
PeerOK(t) ==
    /\ worker[t] \notin {"none", "println", "detach", "done"} => t \in taskCollection
    /\ t \in taskCollection => obj[t] = "live"
    /\ worker[t] = "println" => obj[t] = "live"
    /\ worker[t] # "none" => obj[t] # "unborn"

\* What the log holds, by the position of the thread.
LogOK(t) ==
    /\ worker[t] \in Before => collector[t] \in {"null", "broken"} /\ lines[t] = 0
    /\ worker[t] \in Looping \cup Finishing
          => collector[t] = "open" /\ lines[t] = step[t] + 1
    /\ worker[t] \in After => collector[t] = "closed" /\ lines[t] = step[t] + 2

\* How far the loop is; the steps before it were not the last.
LoopOK(t) ==
    /\ JavaType # "Simple" => failedStep[t] = -1
    /\ worker[t] \in Before => step[t] = 0
    /\ worker[t] \in Before \cup Looping => taskResult[t] = "none"
    /\ worker[t] \in Looping =>
          /\ step[t] <= sleepCount[t]
          /\ \A s \in Stops(t) : step[t] <= s
    /\ worker[t] = "OnProgress" => step[t] < sleepCount[t] /\ step[t] # failedStep[t]
    /\ worker[t] \in Finishing \cup After =>
          taskResult[t] = ExpectedResult(t) /\ EndsAt(t, step[t])

TaskOK(t) == PeerOK(t) /\ LogOK(t) /\ LoopOK(t)

TaskInv == \A t \in Tasks : TaskOK(t)

\* Where main is in its loop and what it has made so far.
MainInv ==
    /\ main \in {"register", "run"} => index <= N /\ obj[index] = "live"
    /\ main = "run" => index \in taskCollection
    /\ main = "poll" => index = N + 1
    /\ \A t \in Tasks :
         /\ index <= t => worker[t] = "none"
         /\ obj[t] # "unborn" /\ worker[t] = "none"
              => index = t /\ main \in {"register", "run"}
    /\ vm = "exited" => main = "poll" /\ taskCollection = {}

\* A thread has an id; threads that live at the same time have different ones.
IdInv ==
    /\ \A t \in Tasks : worker[t] # "none" => threadId[t] \in ThreadIds
    /\ \A t, u \in Tasks :
          (/\ t # u
           /\ worker[t] \notin {"none", "done"}
           /\ worker[u] \notin {"none", "done"})
          => threadId[t] # threadId[u]

IInv == TypeOK /\ TaskInv /\ MainInv /\ IdInv /\ EndsOnlyFor

-----------------------------------------------------------------------------
(* Frame lemmas *)

\* A task whose own state a step leaves alone keeps its invariant.
LEMMA TaskFrame ==
    ASSUME NEW t \in Tasks, TaskOK(t), taskType' = taskType,
           t \in taskCollection' <=> t \in taskCollection,
           worker'[t] = worker[t], obj'[t] = obj[t], step'[t] = step[t],
           sleepCount'[t] = sleepCount[t], failedStep'[t] = failedStep[t],
           javaStep'[t] = javaStep[t], taskResult'[t] = taskResult[t],
           collector'[t] = collector[t], lines'[t] = lines[t]
    PROVE  TaskOK(t)'
  <1>1. JavaType' = JavaType  BY DEF JavaType
  <1>2. Stops(t)' = Stops(t)  BY <1>1 DEF Stops
  <1>3. ExpectedResult(t)' = ExpectedResult(t)  BY <1>1, <1>2 DEF ExpectedResult
  <1>4. EndsAt(t, step[t])' <=> EndsAt(t, step[t])  BY <1>2 DEF EndsAt
  <1>5. PeerOK(t)'  BY DEF TaskOK, PeerOK
  <1>6. LogOK(t)'  BY DEF TaskOK, LogOK
  <1>7. LoopOK(t)'  BY <1>1, <1>2, <1>3, <1>4 DEF TaskOK, LoopOK
  <1> QED  BY <1>5, <1>6, <1>7 DEF TaskOK

\* A step of the thread of t that leaves main, the peers, the parameters and
\* the state of the other tasks alone.
OwnStep(t, there) ==
    /\ vm = "running" /\ vm' # "exited"
    /\ worker[t] \notin {"none", "done"}
    /\ there \in WorkerStates \ {"none"}
    /\ GoTo(t, there)
    /\ UNCHANGED <<mainVars, obj, parameters, threadId>>
    /\ taskCollection' \in {taskCollection, taskCollection \ {t}}
    /\ \A u \in Tasks \ {t} :
          /\ step'[u] = step[u] /\ taskResult'[u] = taskResult[u]
          /\ collector'[u] = collector[u] /\ lines'[u] = lines[u]

\* Such a step keeps what the invariant says of main, of the ids and of the
\* other tasks.
LEMMA OthersKeep ==
    ASSUME IInv, NEW t \in Tasks, NEW there, OwnStep(t, there)
    PROVE  MainInv' /\ IdInv' /\ \A u \in Tasks \ {t} : TaskOK(u)'
  <1>1. /\ worker \in [Tasks -> WorkerStates] /\ index \in 1 .. (N + 1)
        /\ worker' = [worker EXCEPT ![t] = there]
        /\ worker'[t] = there /\ \A u \in Tasks \ {t} : worker'[u] = worker[u]
    BY DEF IInv, TypeOK, OwnStep, GoTo
  <1>2. \A u \in Tasks \ {t} : u \in taskCollection' <=> u \in taskCollection
    BY DEF OwnStep
  <1>3. ASSUME NEW u \in Tasks \ {t}  PROVE TaskOK(u)'
    BY <1>1, <1>2, TaskFrame DEF IInv, TaskInv, OwnStep, mainVars, parameters
  <1>4. IdInv'
    <2> SUFFICES ASSUME NEW a \in Tasks, NEW b \in Tasks, a # b,
                        worker'[a] \notin {"none", "done"},
                        worker'[b] \notin {"none", "done"}
                 PROVE  threadId'[a] # threadId'[b]
      BY <1>1 DEF IInv, IdInv, OwnStep
    <2>1. worker[a] \notin {"none", "done"} /\ worker[b] \notin {"none", "done"}
      BY <1>1 DEF OwnStep
    <2> QED  BY <2>1 DEF IInv, IdInv, OwnStep
  <1>5. MainInv'
    <2>1. UNCHANGED <<main, index, obj>>  BY DEF OwnStep, mainVars
    <2>2. vm' # "exited"  BY DEF OwnStep
    <2>3. main = "run" => index \in taskCollection'
      <3> SUFFICES ASSUME main = "run"  PROVE index \in taskCollection'
        OBVIOUS
      <3>1. index \in Tasks /\ index \in taskCollection
        BY <1>1, JavaTaskAssumption DEF IInv, MainInv, Tasks
      <3>2. worker[index] = "none"  BY <3>1, JavaTaskAssumption DEF IInv, MainInv, Tasks
      <3>3. index # t  BY <3>2 DEF OwnStep
      <3> QED  BY <1>2, <3>1, <3>3
    <2>4. ASSUME NEW u \in Tasks
          PROVE  /\ index <= u => worker'[u] = "none"
                 /\ obj[u] # "unborn" /\ worker'[u] = "none"
                       => index = u /\ main \in {"register", "run"}
      <3>1. CASE u = t
        BY <3>1, <1>1 DEF IInv, MainInv, OwnStep
      <3>2. CASE u # t
        BY <3>2, <1>1 DEF IInv, MainInv
      <3> QED  BY <3>1, <3>2
    <2> QED  BY <2>1, <2>2, <2>3, <2>4 DEF IInv, MainInv
  <1> QED  BY <1>3, <1>4, <1>5

-----------------------------------------------------------------------------
(* The steps of a worker thread *)

\* An upcall finds its peer, so it is a step of the thread and nothing else.
LEMMA UpcallStep ==
    ASSUME IInv, NEW t \in Tasks, NEW here, NEW there,
           here \in {"start", "loop", "finish"},
           there \in {"OnStarted", "OnProgress", "OnFinished"},
           Upcall(t, here, there), UNCHANGED taskResult
    PROVE  /\ OwnStep(t, there) /\ worker[t] = here /\ worker'[t] = there
           /\ UNCHANGED <<vm, logVars, step, taskCollection>>
           /\ TypeOK' /\ EndsOnlyFor'
  <1>1. obj[t] = "live"
    BY DEF IInv, TaskInv, TaskOK, PeerOK, Upcall, At
  <1>2. UNCHANGED vm  BY <1>1 DEF Upcall
  <1>3. TypeOK'
    BY <1>2 DEF IInv, TypeOK, Upcall, GoTo, mainVars, parameters, logVars,
                WorkerStates, InUpcall
  <1>4. EndsOnlyFor'  BY <1>2 DEF Upcall, At, EndsOnlyFor
  <1>5. worker'[t] = there  BY DEF IInv, TypeOK, Upcall, GoTo
  <1>6. OwnStep(t, there)
    BY <1>2 DEF Upcall, At, OwnStep, WorkerStates, InUpcall, logVars
  <1> QED  BY <1>2, <1>3, <1>4, <1>5, <1>6 DEF Upcall, At

\* From here on each lemma has the shape: the step is an OwnStep, and the
\* facts about t itself hold after it.
LEMMA OwnStepInv ==
    ASSUME IInv, NEW t \in Tasks, NEW there, OwnStep(t, there),
           TypeOK', EndsOnlyFor', TaskOK(t)'
    PROVE  IInv'
  <1>1. MainInv' /\ IdInv' /\ \A u \in Tasks \ {t} : TaskOK(u)'
    BY OthersKeep
  <1>2. TaskInv'  BY <1>1 DEF TaskInv
  <1> QED  BY <1>1, <1>2 DEF IInv

\* The parameters of t do not change in an OwnStep, so neither do the
\* reference definitions.
LEMMA ReferenceKept ==
    ASSUME NEW t \in Tasks, NEW there, OwnStep(t, there)
    PROVE  /\ JavaType' = JavaType /\ Stops(t)' = Stops(t)
           /\ ExpectedResult(t)' = ExpectedResult(t)
           /\ sleepCount'[t] = sleepCount[t] /\ failedStep'[t] = failedStep[t]
           /\ javaStep'[t] = javaStep[t]
  <1>1. JavaType' = JavaType  BY DEF OwnStep, mainVars, JavaType
  <1>2. Stops(t)' = Stops(t)  BY <1>1 DEF OwnStep, parameters, Stops
  <1> QED  BY <1>1, <1>2 DEF ExpectedResult, OwnStep, parameters

\* The step into OnStarted keeps IInv: the peer is live, so nothing crashes.
LEMMA CallOnStartedInv ==
    ASSUME IInv, NEW t \in Tasks, CallOnStarted(t)
    PROVE  IInv'
  <1>1. /\ OwnStep(t, "OnStarted") /\ worker[t] = "start" /\ worker'[t] = "OnStarted"
        /\ UNCHANGED <<vm, logVars, step, taskCollection, taskResult>>
        /\ TypeOK' /\ EndsOnlyFor'
    BY UpcallStep DEF CallOnStarted
  <1>2. TaskOK(t)  BY DEF IInv, TaskInv
  <1>3. PeerOK(t)'  BY <1>1, <1>2 DEF TaskOK, PeerOK, OwnStep
  <1>4. LogOK(t)'
    BY <1>1, <1>2 DEF TaskOK, LogOK, Before, Looping, Finishing, After, logVars
  <1>5. LoopOK(t)'
    BY <1>1, <1>2, ReferenceKept
       DEF TaskOK, LoopOK, Before, Looping, Finishing, After
  <1> QED  BY <1>1, <1>3, <1>4, <1>5, OwnStepInv DEF TaskOK

\* The step into OnProgress keeps IInv; the step it is for is not a stop of failedStep.
LEMMA CallOnProgressInv ==
    ASSUME IInv, NEW t \in Tasks, CallOnProgress(t)
    PROVE  IInv'
  <1>1. /\ OwnStep(t, "OnProgress") /\ worker[t] = "loop" /\ worker'[t] = "OnProgress"
        /\ UNCHANGED <<vm, logVars, step, taskCollection, taskResult>>
        /\ TypeOK' /\ EndsOnlyFor'
    BY UpcallStep DEF CallOnProgress
  <1>2. TaskOK(t)  BY DEF IInv, TaskInv
  <1>3. PeerOK(t)'  BY <1>1, <1>2 DEF TaskOK, PeerOK, OwnStep
  <1>4. LogOK(t)'
    BY <1>1, <1>2 DEF TaskOK, LogOK, Before, Looping, Finishing, After, logVars
  <1>5. step[t] < sleepCount[t] /\ step[t] # failedStep[t]
    BY DEF CallOnProgress
  <1>6. LoopOK(t)'
    BY <1>1, <1>2, <1>5, ReferenceKept
       DEF TaskOK, LoopOK, Before, Looping, Finishing, After
  <1> QED  BY <1>1, <1>3, <1>4, <1>6, OwnStepInv DEF TaskOK

\* The step into OnFinished keeps IInv.
LEMMA CallOnFinishedInv ==
    ASSUME IInv, NEW t \in Tasks, CallOnFinished(t)
    PROVE  IInv'
  <1>1. /\ OwnStep(t, "OnFinished") /\ worker[t] = "finish" /\ worker'[t] = "OnFinished"
        /\ UNCHANGED <<vm, logVars, step, taskCollection, taskResult>>
        /\ TypeOK' /\ EndsOnlyFor'
    BY UpcallStep DEF CallOnFinished
  <1>2. TaskOK(t)  BY DEF IInv, TaskInv
  <1>3. PeerOK(t)'  BY <1>1, <1>2 DEF TaskOK, PeerOK, OwnStep
  <1>4. LogOK(t)'
    BY <1>1, <1>2 DEF TaskOK, LogOK, Before, Looping, Finishing, After, logVars
  <1>5. LoopOK(t)'
    BY <1>1, <1>2, ReferenceKept
       DEF TaskOK, LoopOK, Before, Looping, Finishing, After, EndsAt
  <1> QED  BY <1>1, <1>3, <1>4, <1>5, OwnStepInv DEF TaskOK

\* OnStarted keeps IInv: the log it opens is the only open one of its thread id.
LEMMA OnStartedInv ==
    ASSUME IInv, NEW t \in Tasks, OnStarted(t)
    PROVE  IInv'
  <1>1. TypeOK /\ TaskOK(t) /\ worker[t] = "OnStarted" /\ vm = "running"
    BY DEF IInv, TaskInv, OnStarted, OnStartedWith, At
  <1>2. CASE vm' = "aborted" /\ collector' = [collector EXCEPT ![t] = "broken"]
             /\ UNCHANGED <<lines, file, opener, worker>>
    <2>1. TypeOK'
      BY <1>1, <1>2 DEF TypeOK, OnStarted, OnStartedWith, mainVars, parameters
    <2>2. EndsOnlyFor'  BY <1>1, <1>2 DEF TypeOK, EndsOnlyFor
    <2>3. TaskOK(t)'
      <3>1. OwnStep(t, "OnStarted")
        BY <1>1, <1>2 DEF OnStarted, OnStartedWith, OwnStep, TypeOK, GoTo, WorkerStates, InUpcall
      <3>2. PeerOK(t)'  BY <1>1, <1>2 DEF TaskOK, PeerOK, OnStarted, OnStartedWith
      <3>3. LogOK(t)'
        BY <1>1, <1>2 DEF TypeOK, TaskOK, LogOK, Before, Looping, Finishing, After
      <3>4. LoopOK(t)'
        BY <1>1, <1>2, <3>1, ReferenceKept
           DEF OnStarted, OnStartedWith, TaskOK, LoopOK, Before, Looping, Finishing, After
      <3> QED  BY <3>2, <3>3, <3>4 DEF TaskOK
    <2>4. OwnStep(t, "OnStarted")
      BY <1>1, <1>2 DEF OnStarted, OnStartedWith, OwnStep, TypeOK, GoTo, WorkerStates, InUpcall
    <2> QED  BY <2>1, <2>2, <2>3, <2>4, OwnStepInv
  <1>3. CASE /\ collector' = [collector EXCEPT ![t] = "open"]
             /\ file' = [file EXCEPT ![TaskId(t)] = << >>]
             /\ opener' = [opener EXCEPT ![TaskId(t)] = t]
             /\ lines' = [lines EXCEPT ![t] = @ + 1]
             /\ GoTo(t, "loop") /\ UNCHANGED vm
    <2>1. TypeOK'
      <3>1. << >> \in Seq(Tasks)  OBVIOUS
      <3>2. file' \in [TaskIds -> Seq(Tasks)]  BY <1>1, <1>3, <3>1 DEF TypeOK
      <3>3. opener' \in [TaskIds -> Tasks \cup {Nobody}]  BY <1>1, <1>3 DEF TypeOK
      <3> QED
        BY <1>1, <1>3, <3>2, <3>3
           DEF TypeOK, OnStarted, OnStartedWith, GoTo, WorkerStates, mainVars, parameters
    <2>2. EndsOnlyFor'  BY <1>1, <1>3 DEF EndsOnlyFor
    <2>3. OwnStep(t, "loop")
      BY <1>1, <1>3 DEF OnStarted, OnStartedWith, OwnStep, TypeOK, WorkerStates
    <2>4. worker'[t] = "loop" /\ step'[t] = step[t] /\ taskResult'[t] = taskResult[t]
      BY <1>1, <1>3 DEF TypeOK, OnStarted, OnStartedWith, GoTo
    <2>5. PeerOK(t)'  BY <1>1, <2>4 DEF TaskOK, PeerOK, OnStarted, OnStartedWith
    <2>6. LogOK(t)'
      BY <1>1, <1>3, <2>4 DEF TypeOK, TaskOK, LogOK, LoopOK, Before, Looping, Finishing, After
    <2>7. step[t] <= sleepCount[t] /\ \A s \in Stops(t) : step[t] <= s
      BY <1>1 DEF TypeOK, TaskOK, LoopOK, Before, Stops
    <2>8. LoopOK(t)'
      BY <1>1, <2>3, <2>4, <2>7, ReferenceKept
         DEF TaskOK, LoopOK, Before, Looping, Finishing, After
    <2> QED  BY <2>1, <2>2, <2>3, <2>5, <2>6, <2>8, OwnStepInv DEF TaskOK
  <1> QED  BY <1>2, <1>3 DEF OnStarted, OnStartedWith

\* The three ways to the end of the loop: the reported result and the step are
\* what the parameters call for.
LEMMA FinishInv ==
    ASSUME IInv, NEW t \in Tasks, NEW result \in {"Canceled", "Succeeded", "Failed"},
           vm = "running", worker[t] \in Looping, Finish(t, result),
           UNCHANGED <<vm, mainVars, taskCollection, obj, parameters, step,
                       threadId, logVars>>,
           result = ExpectedResult(t), EndsAt(t, step[t])
    PROVE  IInv'
  <1>1. TypeOK /\ TaskOK(t)  BY DEF IInv, TaskInv
  <1>2. TypeOK'
    BY <1>1 DEF TypeOK, Finish, GoTo, WorkerStates, mainVars, parameters, logVars
  <1>3. EndsOnlyFor'  BY DEF EndsOnlyFor
  <1>4. OwnStep(t, "finish")
    BY <1>1 DEF OwnStep, Finish, TypeOK, WorkerStates, Looping, logVars
  <1>5. worker'[t] = "finish" /\ taskResult'[t] = result
    BY <1>1 DEF TypeOK, Finish, GoTo
  <1>6. PeerOK(t)'  BY <1>1, <1>5 DEF TaskOK, PeerOK, Looping
  <1>7. LogOK(t)'
    BY <1>1, <1>5 DEF TaskOK, LogOK, Before, Looping, Finishing, After, logVars
  <1>8. LoopOK(t)'
    BY <1>1, <1>4, <1>5, ReferenceKept
       DEF TaskOK, LoopOK, Before, Looping, Finishing, After, EndsAt
  <1> QED  BY <1>2, <1>3, <1>4, <1>6, <1>7, <1>8, OwnStepInv DEF TaskOK

\* The end of the loop keeps IInv: no step before it was a stop.
LEMMA StepsDoneInv ==
    ASSUME IInv, NEW t \in Tasks, StepsDone(t)
    PROVE  IInv'
  <1>1. TypeOK /\ LoopOK(t)  BY DEF IInv, TaskInv, TaskOK
  <1>2. step[t] = sleepCount[t] /\ \A s \in Stops(t) : step[t] <= s
    BY <1>1 DEF TypeOK, LoopOK, Looping, StepsDone, At
  <1>3. Stops(t) = {}  BY <1>1, <1>2 DEF TypeOK, Stops
  <1>4. ExpectedResult(t) = "Succeeded" /\ EndsAt(t, step[t])
    BY <1>2, <1>3 DEF ExpectedResult, EndsAt
  <1> QED  BY <1>4, FinishInv DEF StepsDone, At, Looping

\* The failing step keeps IInv: it is the first stop.
LEMMA FailStepInv ==
    ASSUME IInv, NEW t \in Tasks, FailStep(t)
    PROVE  IInv'
  <1>1. TypeOK /\ LoopOK(t)  BY DEF IInv, TaskInv, TaskOK
  <1>2. step[t] \in Stops(t)  BY <1>1 DEF TypeOK, Stops, FailStep
  <1>3. EndsAt(t, step[t])
    BY <1>1, <1>2 DEF EndsAt, LoopOK, Looping, FailStep, At
  <1>4. JavaType = "Simple"  BY <1>1 DEF TypeOK, LoopOK, FailStep
  <1>5. ExpectedResult(t) = "Failed"  BY <1>2, <1>4 DEF ExpectedResult
  <1> QED  BY <1>3, <1>5, FinishInv DEF FailStep, At, Looping

\* OnProgress keeps IInv, whether it goes on, cancels or throws.
LEMMA OnProgressInv ==
    ASSUME IInv, NEW t \in Tasks, OnProgress(t)
    PROVE  IInv'
  <1>1. /\ TypeOK /\ TaskOK(t) /\ LoopOK(t) /\ worker[t] = "OnProgress"
        /\ vm = "running" /\ UNCHANGED vm
    BY DEF IInv, TaskInv, TaskOK, OnProgress, At
  <1>2. CASE StopsInJava(t)
    <2>1. step[t] \in Stops(t)  BY <1>1, <1>2 DEF TypeOK, Stops, StopsInJava, LoopOK
    <2>2. EndsAt(t, step[t])  BY <1>1, <2>1 DEF EndsAt, LoopOK, Looping
    <2>3. ExpectedResult(t) = IF JavaType = "JavaCancel" THEN "Canceled" ELSE "Failed"
      BY <2>1 DEF ExpectedResult
    <2> QED  BY <1>1, <1>2, <2>2, <2>3, FinishInv DEF OnProgress, Looping
  <1>3. CASE ~StopsInJava(t)
    <2>1. /\ lines' = [lines EXCEPT ![t] = @ + 1]
          /\ step' = [step EXCEPT ![t] = @ + 1]
          /\ GoTo(t, "loop") /\ UNCHANGED <<taskResult, collector, file, opener>>
      BY <1>3 DEF OnProgress
    <2>2. TypeOK'
      BY <1>1, <2>1 DEF TypeOK, OnProgress, GoTo, WorkerStates, mainVars, parameters
    <2>3. EndsOnlyFor'  BY <1>1 DEF EndsOnlyFor
    <2>4. OwnStep(t, "loop")
      BY <1>1, <2>1 DEF OnProgress, OwnStep, TypeOK, WorkerStates
    <2>5. worker'[t] = "loop" /\ step'[t] = step[t] + 1 /\ lines'[t] = lines[t] + 1
      BY <1>1, <2>1 DEF TypeOK, GoTo
    <2>6. PeerOK(t)'  BY <1>1, <2>5 DEF TaskOK, PeerOK, OnProgress
    <2>7. LogOK(t)'
      BY <1>1, <2>1, <2>5 DEF TypeOK, TaskOK, LogOK, Before, Looping, Finishing, After
    <2>8. step[t] + 1 <= sleepCount[t] /\ \A s \in Stops(t) : step[t] + 1 <= s
      <3>1. step[t] \notin Stops(t)  BY <1>1, <1>3 DEF Stops, StopsInJava, LoopOK
      <3>2. \A s \in Stops(t) : s \in Int /\ step[t] <= s
        BY <1>1 DEF Stops, LoopOK, Looping
      <3> QED  BY <1>1, <3>1, <3>2 DEF TypeOK, LoopOK
    <2>9. LoopOK(t)'
      BY <1>1, <2>1, <2>4, <2>5, <2>8, ReferenceKept
         DEF LoopOK, Before, Looping, Finishing, After
    <2> QED  BY <2>2, <2>3, <2>4, <2>6, <2>7, <2>9, OwnStepInv DEF TaskOK
  <1> QED  BY <1>2, <1>3

\* What a file holds after somebody wrote his log over it.
LEMMA OverwrittenText ==
    ASSUME NEW text \in Seq(Tasks), NEW t \in Tasks, NEW k \in Nat
    PROVE  /\ Overwritten(text, t, k) \in Seq(Tasks)
           /\ Len(Overwritten(text, t, k)) = IF k > Len(text) THEN k ELSE Len(text)
           /\ \A i \in 1 .. Len(Overwritten(text, t, k)) :
                 Overwritten(text, t, k)[i] = IF i <= k THEN t ELSE text[i]
  <1>1. PICK m \in Nat : m = IF k > Len(text) THEN k ELSE Len(text)  OBVIOUS
  <1>2. Overwritten(text, t, k) = [i \in 1 .. m |-> IF i <= k THEN t ELSE text[i]]
    BY <1>1 DEF Overwritten
  <1>3. \A i \in 1 .. m : (IF i <= k THEN t ELSE text[i]) \in Tasks  BY <1>1
  <1>4. Overwritten(text, t, k) \in [1 .. m -> Tasks]  BY <1>2, <1>3
  <1>5. Overwritten(text, t, k) \in Seq(Tasks) /\ Len(Overwritten(text, t, k)) = m
    BY <1>2, <1>4
  <1> QED  BY <1>1, <1>2, <1>5

\* Closing the log keeps IInv: it holds its last line.
LEMMA OnFinishedInv ==
    ASSUME IInv, NEW t \in Tasks, OnFinished(t)
    PROVE  IInv'
  <1>1. TypeOK /\ TaskOK(t) /\ worker[t] = "OnFinished" /\ vm = "running" /\ UNCHANGED vm
    BY DEF IInv, TaskInv, OnFinished, At
  <1>2. TypeOK'
    <2>1. file' \in [TaskIds -> Seq(Tasks)]
      <3>1. \A n \in TaskIds : Overwritten(file[n], t, lines[t] + 1) \in Seq(Tasks)
        <4>1. lines[t] + 1 \in Nat /\ \A n \in TaskIds : file[n] \in Seq(Tasks)
          BY <1>1 DEF TypeOK
        <4> QED  BY <4>1, OverwrittenText
      <3> QED  BY <1>1, <3>1 DEF TypeOK, OnFinished
    <2> QED
      BY <1>1, <2>1
         DEF TypeOK, OnFinished, GoTo, WorkerStates, InUpcall, mainVars, parameters
  <1>3. EndsOnlyFor'  BY <1>1 DEF EndsOnlyFor
  <1>4. OwnStep(t, "unregister")
    BY <1>1 DEF OnFinished, OwnStep, TypeOK, WorkerStates, InUpcall
  <1>5. /\ worker'[t] = "unregister" /\ collector'[t] = "closed"
        /\ lines'[t] = lines[t] + 1 /\ UNCHANGED <<step, taskResult, taskCollection, obj>>
    BY <1>1 DEF TypeOK, OnFinished, GoTo
  <1>6. PeerOK(t)'  BY <1>1, <1>5 DEF TaskOK, PeerOK
  <1>7. LogOK(t)'
    BY <1>1, <1>5 DEF TypeOK, TaskOK, LogOK, Before, Looping, Finishing, After
  <1>8. LoopOK(t)'
    BY <1>1, <1>4, <1>5, ReferenceKept
       DEF TaskOK, LoopOK, Before, Looping, Finishing, After, EndsAt
  <1> QED  BY <1>2, <1>3, <1>4, <1>6, <1>7, <1>8, OwnStepInv DEF TaskOK

\* Leaving the collection keeps IInv: the upcall still references the peer.
LEMMA OnFinishedRemoveInv ==
    ASSUME IInv, NEW t \in Tasks, OnFinishedRemove(t)
    PROVE  IInv'
  <1>1. TypeOK /\ TaskOK(t) /\ worker[t] = "unregister" /\ vm = "running" /\ UNCHANGED vm
    BY DEF IInv, TaskInv, OnFinishedRemove, At
  <1>2. TypeOK'
    BY <1>1 DEF TypeOK, OnFinishedRemove, GoTo, WorkerStates, InUpcall, mainVars,
                parameters, logVars
  <1>3. EndsOnlyFor'  BY <1>1 DEF EndsOnlyFor
  <1>4. OwnStep(t, "println")
    BY <1>1 DEF OnFinishedRemove, OwnStep, TypeOK, WorkerStates, InUpcall, logVars
  <1>5. /\ worker'[t] = "println" /\ t \notin taskCollection'
        /\ UNCHANGED <<step, taskResult, obj, collector, lines>>
    BY <1>1 DEF TypeOK, OnFinishedRemove, GoTo, logVars
  <1>6. PeerOK(t)'  BY <1>1, <1>5 DEF TaskOK, PeerOK
  <1>7. LogOK(t)'
    BY <1>1, <1>5 DEF TaskOK, LogOK, Before, Looping, Finishing, After
  <1>8. LoopOK(t)'
    BY <1>1, <1>4, <1>5, ReferenceKept
       DEF TaskOK, LoopOK, Before, Looping, Finishing, After, EndsAt
  <1> QED  BY <1>2, <1>3, <1>4, <1>6, <1>7, <1>8, OwnStepInv DEF TaskOK

\* Returning from the last upcall keeps IInv: the peer may be collected from now on.
LEMMA OnFinishedReturnInv ==
    ASSUME IInv, NEW t \in Tasks, OnFinishedReturn(t)
    PROVE  IInv'
  <1>1. TypeOK /\ TaskOK(t) /\ worker[t] = "println" /\ vm = "running" /\ UNCHANGED vm
    BY DEF IInv, TaskInv, OnFinishedReturn, At
  <1>2. TypeOK'
    BY <1>1 DEF TypeOK, OnFinishedReturn, GoTo, WorkerStates, mainVars, parameters, logVars
  <1>3. EndsOnlyFor'  BY <1>1 DEF EndsOnlyFor
  <1>4. OwnStep(t, "detach")
    BY <1>1 DEF OnFinishedReturn, OwnStep, TypeOK, WorkerStates, logVars
  <1>5. /\ worker'[t] = "detach"
        /\ UNCHANGED <<step, taskResult, taskCollection, obj, collector, lines>>
    BY <1>1 DEF TypeOK, OnFinishedReturn, GoTo, logVars
  <1>6. PeerOK(t)'  BY <1>1, <1>5 DEF TaskOK, PeerOK
  <1>7. LogOK(t)'
    BY <1>1, <1>5 DEF TaskOK, LogOK, Before, Looping, Finishing, After
  <1>8. LoopOK(t)'
    BY <1>1, <1>4, <1>5, ReferenceKept
       DEF TaskOK, LoopOK, Before, Looping, Finishing, After, EndsAt
  <1> QED  BY <1>2, <1>3, <1>4, <1>6, <1>7, <1>8, OwnStepInv DEF TaskOK

\* Detaching keeps IInv: if it crashes, the thread is done and its peer collected.
LEMMA DetachInv ==
    ASSUME IInv, NEW t \in Tasks, Detach(t)
    PROVE  IInv'
  <1>1. TypeOK /\ TaskOK(t) /\ worker[t] = "detach" /\ vm = "running"
    BY DEF IInv, TaskInv, Detach, At
  <1>2. TypeOK'
    BY <1>1 DEF TypeOK, Detach, GoTo, WorkerStates, mainVars, parameters, logVars
  <1>3. /\ worker'[t] = "done"
        /\ UNCHANGED <<step, taskResult, taskCollection, obj, collector, lines>>
    BY <1>1 DEF TypeOK, Detach, GoTo, logVars
  <1>4. vm' = "running" \/ (vm' = "crashed" /\ obj[t] = "collected")
    BY <1>1 DEF Detach
  <1>5. EndsOnlyFor'  BY <1>3, <1>4 DEF EndsOnlyFor
  <1>6. OwnStep(t, "done")
    BY <1>1, <1>4 DEF Detach, OwnStep, TypeOK, WorkerStates, logVars
  <1>7. PeerOK(t)'  BY <1>1, <1>3 DEF TaskOK, PeerOK
  <1>8. LogOK(t)'
    BY <1>1, <1>3 DEF TaskOK, LogOK, Before, Looping, Finishing, After
  <1>9. LoopOK(t)'
    BY <1>1, <1>3, <1>6, ReferenceKept
       DEF TaskOK, LoopOK, Before, Looping, Finishing, After, EndsAt
  <1> QED  BY <1>2, <1>5, <1>6, <1>7, <1>8, <1>9, OwnStepInv DEF TaskOK

-----------------------------------------------------------------------------
(* The garbage collector and the main thread *)

\* The task main is working on has a peer and no thread yet.
LEMMA CurrentTask ==
    ASSUME IInv, main \in {"register", "run"}
    PROVE  index \in Tasks /\ obj[index] = "live" /\ worker[index] = "none"
  <1>1. index \in 1 .. (N + 1) /\ index <= N /\ obj[index] = "live"
    BY DEF IInv, TypeOK, MainInv
  <1>2. index \in Tasks /\ index <= index  BY <1>1, JavaTaskAssumption DEF Tasks
  <1> QED  BY <1>1, <1>2 DEF IInv, MainInv

\* What can be finalized is in no collection, in no variable of main and not
\* under an upcall.
LEMMA FinalizeInv ==
    ASSUME IInv, NEW t \in Tasks, Finalize(t)
    PROVE  IInv'
  <1>1. TypeOK /\ TaskOK(t) /\ obj[t] = "live" /\ vm = "running" /\ UNCHANGED vm
    BY DEF IInv, TaskInv, Finalize
  <1>2. TypeOK'
    BY <1>1 DEF TypeOK, Finalize, mainVars, parameters, logVars
  <1>3. EndsOnlyFor'  BY <1>1 DEF EndsOnlyFor
  <1>4. obj'[t] = "collected" /\ \A u \in Tasks \ {t} : obj'[u] = obj[u]
    BY <1>1 DEF TypeOK, Finalize
  <1>5. /\ UNCHANGED <<main, index, taskCollection, worker, threadId, taskType, sleepCount,
                       failedStep, javaStep, step, taskResult, collector, lines, file, opener>>
        /\ t \notin taskCollection /\ worker[t] \notin InUpcall
        /\ ~(main \in {"register", "run"} /\ index = t)
    BY DEF Finalize, Reachable, mainVars, parameters, logVars
  <1>6. TaskOK(t)'
    <2>1. PeerOK(t)'  BY <1>1, <1>4, <1>5 DEF TaskOK, PeerOK, InUpcall
    <2>2. LogOK(t)'  BY <1>1, <1>5 DEF TaskOK, LogOK
    <2>3. LoopOK(t)'
      BY <1>1, <1>5 DEF TaskOK, LoopOK, JavaType, Stops, ExpectedResult, EndsAt
    <2> QED  BY <2>1, <2>2, <2>3 DEF TaskOK
  <1>7. TaskInv'  BY <1>4, <1>5, <1>6, TaskFrame DEF IInv, TaskInv
  <1>8. IdInv'  BY <1>5 DEF IInv, IdInv
  <1>9. MainInv'
    <2>1. main \in {"register", "run"} => obj'[index] = "live"
      BY <1>4, <1>5, CurrentTask
    <2>2. ASSUME NEW u \in Tasks, obj'[u] # "unborn", worker[u] = "none"
          PROVE  index = u /\ main \in {"register", "run"}
      BY <1>1, <1>4, <2>2 DEF IInv, MainInv
    <2> QED  BY <1>1, <1>5, <2>1, <2>2 DEF IInv, MainInv
  <1> QED  BY <1>2, <1>3, <1>7, <1>8, <1>9 DEF IInv

\* NewTask keeps IInv: main's variable references the new peer.
LEMMA NewTaskInv ==
    ASSUME IInv, NewTask
    PROVE  IInv'
  <1>1. TypeOK /\ index \in Tasks /\ vm = "running" /\ UNCHANGED vm
    <2>1. TypeOK /\ index \in 1 .. (N + 1) /\ index <= N  BY DEF IInv, TypeOK, NewTask
    <2> QED  BY <2>1, JavaTaskAssumption DEF NewTask, Tasks
  <1>2. TypeOK'
    <2>1. sleepCount' \in [Tasks -> Nat]
      BY <1>1, JavaTaskAssumption DEF TypeOK, NewTask
    <2>2. failedStep' \in [Tasks -> -1 .. MaxFail]  BY <1>1 DEF TypeOK, NewTask
    <2>3. javaStep' \in [Tasks -> Int]  BY <1>1 DEF TypeOK, NewTask
    <2>4. obj' \in [Tasks -> {"unborn", "live", "collected"}]
      BY <1>1 DEF TypeOK, NewTask
    <2>5. UNCHANGED <<vm, taskType, index, taskCollection, worker, step, threadId,
                      taskResult, collector, lines, file, opener>> /\ main' = "register"
      BY DEF NewTask, logVars
    <2> QED  BY <1>1, <2>1, <2>2, <2>3, <2>4, <2>5 DEF TypeOK
  <1>3. EndsOnlyFor'  BY <1>1 DEF EndsOnlyFor
  <1>4. worker[index] = "none" /\ TaskOK(index)
    BY <1>1, JavaTaskAssumption DEF IInv, TypeOK, MainInv, TaskInv, Tasks
  <1>5. /\ UNCHANGED <<taskType, index, taskCollection, worker, step, threadId,
                       taskResult, collector, lines, file, opener>>
        /\ main' = "register" /\ obj'[index] = "live"
        /\ \A u \in Tasks \ {index} :
              /\ obj'[u] = obj[u] /\ sleepCount'[u] = sleepCount[u]
              /\ failedStep'[u] = failedStep[u] /\ javaStep'[u] = javaStep[u]
    BY <1>1 DEF TypeOK, NewTask, logVars
  <1>6. TaskOK(index)'
    <2>1. PeerOK(index)'  BY <1>4, <1>5 DEF TaskOK, PeerOK
    <2>2. LogOK(index)'  BY <1>4, <1>5 DEF TaskOK, LogOK
    <2>3. JavaType' = JavaType  BY <1>5 DEF JavaType
    <2>4. JavaType # "Simple" => failedStep'[index] = -1
      BY <1>4 DEF NewTask, TaskOK, LoopOK
    <2>5. LoopOK(index)'
      BY <1>4, <1>5, <2>3, <2>4 DEF TaskOK, LoopOK, Before, Looping, Finishing, After
    <2> QED  BY <2>1, <2>2, <2>5 DEF TaskOK
  <1>7. TaskInv'  BY <1>5, <1>6, TaskFrame DEF IInv, TaskInv
  <1>8. IdInv'  BY <1>5 DEF IInv, IdInv
  <1>9. MainInv'
    <2>1. ASSUME NEW u \in Tasks, obj'[u] # "unborn", worker[u] = "none"
          PROVE  index = u
      BY <1>5, <2>1 DEF IInv, MainInv
    <2> QED  BY <1>1, <1>5, <2>1 DEF IInv, MainInv, Tasks
  <1> QED  BY <1>2, <1>3, <1>7, <1>8, <1>9 DEF IInv

\* The remaining steps of main change no parameter, peer or log.
LEMMA SkipTaskInv ==
    ASSUME IInv, SkipTask
    PROVE  IInv'
  <1>1. TypeOK'
    BY JavaTaskAssumption DEF IInv, TypeOK, SkipTask, parameters, logVars
  <1>2. EndsOnlyFor'  BY DEF SkipTask, EndsOnlyFor
  <1>3. /\ UNCHANGED <<vm, main, taskCollection, worker, threadId, taskType, sleepCount,
                       failedStep, javaStep, step, taskResult, collector, lines, file, opener, obj>>
        /\ index' = index + 1 /\ main = "new" /\ vm = "running"
    BY DEF SkipTask, parameters, logVars
  <1>4. TaskInv'  BY <1>3, TaskFrame DEF IInv, TaskInv
  <1>5. IdInv'  BY <1>3 DEF IInv, IdInv
  <1>6. MainInv'  BY <1>3 DEF IInv, TypeOK, MainInv, Tasks
  <1> QED  BY <1>1, <1>2, <1>4, <1>5, <1>6 DEF IInv

\* Register keeps IInv: the collection references the peer before its thread exists.
LEMMA RegisterInv ==
    ASSUME IInv, Register
    PROVE  IInv'
  <1>1. TypeOK /\ index \in Tasks /\ obj[index] = "live" /\ worker[index] = "none"
    BY CurrentTask DEF IInv, Register
  <1>2. TypeOK'
    BY <1>1 DEF TypeOK, Register, parameters, logVars
  <1>3. EndsOnlyFor'  BY DEF Register, EndsOnlyFor
  <1>4. /\ UNCHANGED <<vm, index, worker, threadId, taskType, sleepCount, failedStep,
                       javaStep, step, taskResult, collector, lines, file, opener, obj>>
        /\ taskCollection' = taskCollection \cup {index}
        /\ main = "register" /\ main' = "run" /\ vm = "running"
    BY DEF Register, parameters, logVars
  <1>5. TaskOK(index)'
    <2>1. TaskOK(index)  BY <1>1 DEF IInv, TaskInv
    <2>2. PeerOK(index)'  BY <1>1, <1>4, <2>1 DEF TaskOK, PeerOK
    <2>3. LogOK(index)'  BY <1>4, <2>1 DEF TaskOK, LogOK
    <2>4. LoopOK(index)'
      BY <1>1, <1>4, <2>1
         DEF TaskOK, LoopOK, JavaType, Before, Looping, Finishing, After
    <2> QED  BY <2>2, <2>3, <2>4 DEF TaskOK
  <1>6. TaskInv'
    <2> SUFFICES ASSUME NEW u \in Tasks, u # index  PROVE TaskOK(u)'
      BY <1>4, <1>5 DEF TaskInv
    <2> QED  BY <1>4, TaskFrame DEF IInv, TaskInv
  <1>7. IdInv'  BY <1>4 DEF IInv, IdInv
  <1>8. MainInv'  BY <1>1, <1>4 DEF IInv, MainInv
  <1> QED  BY <1>2, <1>3, <1>6, <1>7, <1>8 DEF IInv

\* Starting the thread keeps IInv: its id differs from those of all live threads.
LEMMA RunInv ==
    ASSUME IInv, Run
    PROVE  IInv'
  <1>0. PICK i \in Tasks : i = index  BY CurrentTask DEF Run
  <1>1. TypeOK /\ obj[i] = "live" /\ worker[i] = "none" /\ i \in taskCollection
    BY <1>0, CurrentTask DEF IInv, MainInv, Run
  <1>2. PICK id \in ThreadIds :
            /\ \A t \in Tasks : worker[t] \notin {"none", "done"} => threadId[t] # id
            /\ threadId' = [threadId EXCEPT ![i] = id]
    BY <1>0 DEF Run
  <1>3. /\ UNCHANGED <<vm, taskCollection, taskType, sleepCount, failedStep,
                       javaStep, step, taskResult, collector, lines, file, opener, obj>>
        /\ worker' = [worker EXCEPT ![i] = "start"]
        /\ index' = i + 1 /\ main = "run" /\ main' = "new" /\ vm = "running"
    BY <1>0 DEF Run, parameters, logVars
  <1>4. TypeOK'
    <2>1. worker' \in [Tasks -> WorkerStates]  BY <1>1, <1>3 DEF TypeOK, WorkerStates
    <2>2. threadId' \in [Tasks -> ThreadIds \cup {NoId}]  BY <1>1, <1>2 DEF TypeOK
    <2>3. index' \in 1 .. (N + 1)  BY <1>1, <1>3, JavaTaskAssumption DEF Tasks
    <2> QED  BY <1>1, <1>3, <2>1, <2>2, <2>3 DEF TypeOK
  <1>5. EndsOnlyFor'  BY <1>3 DEF EndsOnlyFor
  <1>6. worker'[i] = "start" /\ \A u \in Tasks \ {i} : worker'[u] = worker[u]
    BY <1>1, <1>3 DEF TypeOK
  <1>7. TaskOK(i)'
    <2>1. TaskOK(i)  BY <1>1 DEF IInv, TaskInv
    <2>2. PeerOK(i)'  BY <1>1, <1>3, <1>6, <2>1 DEF TaskOK, PeerOK
    <2>3. LogOK(i)'
      BY <1>1, <1>3, <1>6, <2>1 DEF TaskOK, LogOK, Before, Looping, Finishing, After
    <2>4. LoopOK(i)'
      BY <1>1, <1>3, <1>6, <2>1
         DEF TaskOK, LoopOK, JavaType, Before, Looping, Finishing, After
    <2> QED  BY <2>2, <2>3, <2>4 DEF TaskOK
  <1>8. TaskInv'
    <2> SUFFICES ASSUME NEW u \in Tasks, u # i  PROVE TaskOK(u)'
      BY <1>7 DEF TaskInv
    <2> QED  BY <1>3, <1>6, TaskFrame DEF IInv, TaskInv
  <1>9. IdInv'
    <2>1. threadId'[i] = id /\ \A u \in Tasks \ {i} : threadId'[u] = threadId[u]
      BY <1>1, <1>2 DEF TypeOK
    <2> QED  BY <1>2, <1>6, <2>1 DEF IInv, IdInv
  <1>10. MainInv'
    <2>1. ASSUME NEW u \in Tasks, i + 1 <= u  PROVE worker'[u] = "none"
      BY <1>0, <1>6, <2>1 DEF IInv, TypeOK, MainInv, Tasks
    <2>2. ASSUME NEW u \in Tasks, obj[u] # "unborn"  PROVE worker'[u] # "none"
      BY <1>0, <1>6, <2>2 DEF IInv, MainInv
    <2> QED  BY <1>3, <2>1, <2>2 DEF MainInv
  <1> QED  BY <1>4, <1>5, <1>8, <1>9, <1>10 DEF IInv

\* The start of main's poll keeps IInv.
LEMMA StartPollingInv ==
    ASSUME IInv, StartPolling
    PROVE  IInv'
  <1>1. TypeOK'  BY DEF IInv, TypeOK, StartPolling, parameters, logVars
  <1>2. EndsOnlyFor'  BY DEF StartPolling, EndsOnlyFor
  <1>3. /\ UNCHANGED <<vm, index, taskCollection, worker, threadId, taskType, sleepCount,
                       failedStep, javaStep, step, taskResult, collector, lines, file, opener, obj>>
        /\ main = "new" /\ main' = "poll" /\ index = N + 1 /\ vm = "running"
    BY DEF StartPolling, parameters, logVars
  <1>4. TaskInv'  BY <1>3, TaskFrame DEF IInv, TaskInv
  <1>5. IdInv'  BY <1>3 DEF IInv, IdInv
  <1>6. MainInv'  BY <1>3 DEF IInv, MainInv
  <1> QED  BY <1>1, <1>2, <1>4, <1>5, <1>6 DEF IInv

\* The poll that ends main keeps IInv: an empty collection means closed logs.
LEMMA PollInv ==
    ASSUME IInv, Poll
    PROVE  IInv'
  <1>1. TypeOK'  BY DEF IInv, TypeOK, Poll, mainVars, parameters, logVars
  <1>2. EndsOnlyFor'  BY DEF Poll, EndsOnlyFor
  <1>3. /\ UNCHANGED <<main, index, taskCollection, worker, threadId, taskType, sleepCount,
                       failedStep, javaStep, step, taskResult, collector, lines, file, opener, obj>>
        /\ main = "poll" /\ taskCollection = {}
    BY DEF Poll, mainVars, parameters, logVars
  <1>4. TaskInv'  BY <1>3, TaskFrame DEF IInv, TaskInv
  <1>5. IdInv'  BY <1>3 DEF IInv, IdInv
  <1>6. MainInv'  BY <1>3 DEF IInv, MainInv
  <1> QED  BY <1>1, <1>2, <1>4, <1>5, <1>6 DEF IInv

-----------------------------------------------------------------------------
(* The theorems *)

\* IInv holds initially.
LEMMA InitInv == Init => IInv
  <1> SUFFICES ASSUME Init  PROVE IInv
    OBVIOUS
  <1>1. TypeOK  BY JavaTaskAssumption DEF Init, TypeOK, WorkerStates
  <1>2. TaskInv
    <2> SUFFICES ASSUME NEW t \in Tasks  PROVE TaskOK(t)
      BY DEF TaskInv
    <2> QED
      BY DEF Init, TaskOK, PeerOK, LogOK, LoopOK, Before, Looping, Finishing, After
  <1>3. MainInv  BY DEF Init, MainInv
  <1>4. IdInv  BY DEF Init, IdInv
  <1>5. EndsOnlyFor  BY DEF Init, EndsOnlyFor
  <1> QED  BY <1>1, <1>2, <1>3, <1>4, <1>5 DEF IInv

\* A step that changes nothing keeps IInv.
LEMMA StutterInv ==
    ASSUME IInv, UNCHANGED vars
    PROVE  IInv'
  <1>1. UNCHANGED <<vm, main, index, taskCollection, worker, threadId, taskType, sleepCount,
                    failedStep, javaStep, step, taskResult, collector, lines, file, opener, obj>>
    BY DEF vars, mainVars, parameters, logVars
  <1>2. TypeOK'  BY <1>1 DEF IInv, TypeOK
  <1>3. TaskInv'  BY <1>1, TaskFrame DEF IInv, TaskInv
  <1>4. MainInv' /\ IdInv' /\ EndsOnlyFor'
    BY <1>1 DEF IInv, MainInv, IdInv, EndsOnlyFor
  <1> QED  BY <1>2, <1>3, <1>4 DEF IInv

\* IInv is inductive.
LEMMA NextInv == IInv /\ [Next]_vars => IInv'
  <1> SUFFICES ASSUME IInv, [Next]_vars  PROVE IInv'
    OBVIOUS
  <1>1. CASE MainStep
    BY <1>1, NewTaskInv, SkipTaskInv, RegisterInv, RunInv, StartPollingInv, PollInv
       DEF MainStep
  <1>2. ASSUME NEW t \in Tasks, WorkerStep(t)  PROVE IInv'
    BY <1>2, CallOnStartedInv, OnStartedInv, StepsDoneInv, FailStepInv,
       CallOnProgressInv, OnProgressInv, CallOnFinishedInv, OnFinishedInv,
       OnFinishedRemoveInv, OnFinishedReturnInv, DetachInv
       DEF WorkerStep
  <1>3. ASSUME NEW t \in Tasks, Finalize(t)  PROVE IInv'
    BY <1>3, FinalizeInv
  <1>4. CASE Ended \/ UNCHANGED vars
    BY <1>4, StutterInv DEF Ended
  <1> QED  BY <1>1, <1>2, <1>3, <1>4 DEF Next

\* The invariant holds in every state of every behaviour of the model.
THEOREM Inductive == Spec => []IInv
  BY InitInv, NextInv, PTL DEF Spec

\* A thread that has upcalls ahead of it, or is in one, has its Java peer and
\* its native object: Register before Run and remove inside OnFinished are
\* enough, whatever the collector does (task_java_wrap.cxx:697-790).
THEOREM PeerAlive == Spec => []UpcallsFindPeer
  <1>1. IInv => UpcallsFindPeer
    BY DEF IInv, TaskInv, TaskOK, PeerOK, UpcallsFindPeer, Active
  <1> QED  BY <1>1, Inductive, PTL

\* Task::Run reports the result its parameters call for, after exactly the
\* steps they allow (task.cpp:57-105).
THEOREM ResultCorrect == Spec => []ResultAsConfigured
  <1>1. IInv => ResultAsConfigured
    <2> SUFFICES ASSUME IInv, NEW t \in Tasks, taskResult[t] # "none"
                 PROVE  taskResult[t] = ExpectedResult(t) /\ EndsAt(t, step[t])
      BY DEF ResultAsConfigured
    <2>1. LoopOK(t) /\ worker[t] \in WorkerStates
      BY DEF IInv, TypeOK, TaskInv, TaskOK
    <2> QED
      BY <2>1 DEF LoopOK, WorkerStates, InUpcall, Before, Looping, Finishing, After
  <1> QED  BY <1>1, Inductive, PTL

-----------------------------------------------------------------------------
(* The log files *)

\* The tasks that have to do with log file n: whose collector is open on it,
\* whose lines are in it, or who opened it last.
Writes(t, n) ==
    \/ collector[t] = "open" /\ TaskId(t) = n
    \/ \E i \in 1 .. Len(file[n]) : file[n][i] = t
    \/ opener[n] = t

\* A line in the file is of a closed log that is at least that long; the log of
\* who opened the file last is in it once it is closed; and all who have to do
\* with the file since it was emptied were alive together.
LinesOK(n) ==
    \A i \in 1 .. Len(file[n]) :
        /\ collector[file[n][i]] = "closed" /\ TaskId(file[n][i]) = n
        /\ i <= lines[file[n][i]]

OpenerOK(n) ==
    opener[n] # Nobody =>
        /\ collector[opener[n]] \in {"open", "closed"} /\ TaskId(opener[n]) = n
        /\ collector[opener[n]] = "closed" => lines[opener[n]] <= Len(file[n])

TogetherOK(n) ==
    \A t, u \in Tasks :
        t # u /\ Writes(t, n) /\ Writes(u, n) => threadId[t] # threadId[u]

FileInv ==
    /\ \A n \in TaskIds : LinesOK(n) /\ OpenerOK(n) /\ TogetherOK(n)
    /\ \A t \in Tasks : collector[t] \in {"open", "closed"}
          => opener[TaskId(t)] # Nobody

\* A thread's task id names a file.
LEMMA TaskIdNames ==
    ASSUME NEW t \in Tasks, threadId[t] \in ThreadIds
    PROVE  TaskId(t) \in TaskIds
  <1>1. PICK h \in Nat : h = Hash[threadId[t]]  BY JavaTaskAssumption
  <1>2. h % IntRange \in 0 .. (IntRange - 1)  BY JavaTaskAssumption
  <1> QED  BY <1>1, <1>2 DEF TaskId, TaskIds

\* A line is somebody's.
LEMMA LineOwner ==
    ASSUME TypeOK, NEW n \in TaskIds
    PROVE  /\ Len(file[n]) \in Nat
           /\ \A i \in 1 .. Len(file[n]) : file[n][i] \in Tasks
  <1>1. file[n] \in Seq(Tasks)  BY DEF TypeOK
  <1> QED  BY <1>1

\* The collector of a thread that is not alive is not open.
LEMMA OpenIsLive ==
    ASSUME IInv, NEW t \in Tasks, collector[t] = "open"
    PROVE  worker[t] \notin {"none", "done"}
  BY DEF IInv, TaskInv, TaskOK, LogOK, Before, After

\* Who has to do with a file has opened it.
LEMMA WritersOpened ==
    ASSUME FileInv, NEW n \in TaskIds, NEW t \in Tasks, Writes(t, n)
    PROVE  collector[t] \in {"open", "closed"} /\ TaskId(t) = n
  <1>1. CASE opener[n] = t
    <2>1. opener[n] # Nobody  BY <1>1 DEF Tasks, Nobody
    <2> QED  BY <1>1, <2>1 DEF FileInv, OpenerOK
  <1> QED  BY <1>1 DEF Writes, FileInv, LinesOK

\* A step that opens, closes and writes no log and leaves the ids of those who
\* did and the lines of a closed log alone keeps FileInv.
LEMMA FileFrame ==
    ASSUME TypeOK, FileInv, UNCHANGED <<collector, file, opener>>,
           \A t \in Tasks : collector[t] \in {"open", "closed"} => threadId'[t] = threadId[t],
           \A t \in Tasks : collector[t] = "closed" => lines'[t] = lines[t]
    PROVE  FileInv'
  <1>1. \A t \in Tasks : collector[t] \in {"open", "closed"} => TaskId(t)' = TaskId(t)
    BY DEF TaskId
  <1>2. \A n \in TaskIds : \A i \in 1 .. Len(file[n]) : file[n][i] \in Tasks
    BY DEF TypeOK
  <1>3. \A n \in TaskIds : opener[n] # Nobody => opener[n] \in Tasks
    BY DEF TypeOK
  <1>4. ASSUME NEW n \in TaskIds  PROVE (LinesOK(n) /\ OpenerOK(n) /\ TogetherOK(n))'
    <2>1. LinesOK(n)'  BY <1>1, <1>2 DEF FileInv, LinesOK
    <2>2. OpenerOK(n)'  BY <1>1, <1>3 DEF FileInv, OpenerOK
    <2>3. TogetherOK(n)'
      <3>1. \A t \in Tasks : Writes(t, n)' <=> Writes(t, n)  BY <1>1 DEF Writes
      <3> QED  BY <3>1, WritersOpened DEF FileInv, TogetherOK
    <2> QED  BY <2>1, <2>2, <2>3
  <1>5. ASSUME NEW t \in Tasks, collector'[t] \in {"open", "closed"}
        PROVE  opener'[TaskId(t)'] # Nobody
    BY <1>1, <1>5 DEF FileInv
  <1> QED  BY <1>4, <1>5 DEF FileInv

\* Opening a log keeps FileInv: the file is emptied, and whoever else has it
\* open is alive, so its thread has another id.
LEMMA OnStartedFile ==
    ASSUME IInv, FileInv, NEW t \in Tasks, OnStarted(t), IInv'
    PROVE  FileInv'
  <1>1. /\ TypeOK /\ TypeOK' /\ worker[t] = "OnStarted"
        /\ collector[t] \notin {"open", "closed"} /\ UNCHANGED threadId
    BY DEF IInv, TaskInv, TaskOK, LogOK, Before, OnStarted, OnStartedWith, At
  <1>2. \A n \in TaskIds : ~Writes(t, n)  BY <1>1, WritersOpened
  <1>3. TaskId(t) \in TaskIds /\ \A u \in Tasks : TaskId(u)' = TaskId(u)
    BY <1>1, TaskIdNames DEF IInv, IdInv, TaskId
  <1>4. CASE /\ collector' = [collector EXCEPT ![t] = "broken"]
             /\ UNCHANGED <<lines, file, opener>>
    <2>1. collector'[t] = "broken" /\ \A u \in Tasks \ {t} : collector'[u] = collector[u]
      BY <1>1, <1>4 DEF TypeOK
    <2>2. ASSUME NEW n \in TaskIds  PROVE (LinesOK(n) /\ OpenerOK(n) /\ TogetherOK(n))'
      <3>1. \A i \in 1 .. Len(file[n]) : file[n][i] \in Tasks \ {t}
        BY <1>1, <1>2, LineOwner DEF Writes
      <3>2. opener[n] # Nobody => opener[n] \in Tasks \ {t}
        BY <1>1, <1>2 DEF TypeOK, Writes
      <3>3. LinesOK(n)'  BY <1>3, <1>4, <2>1, <3>1 DEF FileInv, LinesOK
      <3>4. OpenerOK(n)'  BY <1>3, <1>4, <2>1, <3>2 DEF FileInv, OpenerOK
      <3>5. \A u \in Tasks : Writes(u, n)' => Writes(u, n)
        BY <1>3, <1>4, <2>1 DEF Writes
      <3>6. TogetherOK(n)'  BY <1>1, <3>5 DEF FileInv, TogetherOK
      <3> QED  BY <3>3, <3>4, <3>6
    <2>3. ASSUME NEW u \in Tasks, collector'[u] \in {"open", "closed"}
          PROVE  opener'[TaskId(u)'] # Nobody
      BY <1>3, <1>4, <2>1, <2>3 DEF FileInv
    <2> QED  BY <2>2, <2>3 DEF FileInv
  <1>5. CASE /\ collector' = [collector EXCEPT ![t] = "open"]
             /\ file' = [file EXCEPT ![TaskId(t)] = << >>]
             /\ opener' = [opener EXCEPT ![TaskId(t)] = t]
             /\ lines' = [lines EXCEPT ![t] = @ + 1]
    <2>1. /\ collector'[t] = "open"
          /\ \A u \in Tasks \ {t} : collector'[u] = collector[u] /\ lines'[u] = lines[u]
      BY <1>1, <1>5 DEF TypeOK
    <2>2. file'[TaskId(t)] = << >> /\ opener'[TaskId(t)] = t
      BY <1>1, <1>3, <1>5 DEF TypeOK
    <2>3. \A n \in TaskIds \ {TaskId(t)} : file'[n] = file[n] /\ opener'[n] = opener[n]
      BY <1>1, <1>5 DEF TypeOK
    <2>4. LinesOK(TaskId(t))' /\ OpenerOK(TaskId(t))'
      BY <1>3, <2>1, <2>2 DEF LinesOK, OpenerOK
    <2>5. TogetherOK(TaskId(t))'
      <3>1. \A u \in Tasks : Writes(u, TaskId(t))' => collector'[u] = "open"
        BY <1>3, <2>1, <2>2 DEF Writes
      <3>2. \A u \in Tasks : collector'[u] = "open" => worker[u] \notin {"none", "done"}
        BY <1>1, <2>1, OpenIsLive
      <3> QED  BY <1>1, <1>3, <3>1, <3>2 DEF TogetherOK, IInv, IdInv
    <2>6. ASSUME NEW n \in TaskIds \ {TaskId(t)}
          PROVE  (LinesOK(n) /\ OpenerOK(n) /\ TogetherOK(n))'
      <3>1. \A i \in 1 .. Len(file[n]) : file[n][i] \in Tasks \ {t}
        BY <1>1, <1>2, LineOwner DEF Writes
      <3>2. opener[n] # Nobody => opener[n] \in Tasks \ {t}
        BY <1>1, <1>2 DEF TypeOK, Writes
      <3>3. LinesOK(n)'  BY <1>3, <2>1, <2>3, <3>1 DEF FileInv, LinesOK
      <3>4. OpenerOK(n)'  BY <1>3, <2>1, <2>3, <3>2 DEF FileInv, OpenerOK
      <3>5. \A u \in Tasks : Writes(u, n)' => Writes(u, n)
        BY <1>3, <2>1, <2>3 DEF Writes
      <3>6. TogetherOK(n)'  BY <1>1, <3>5 DEF FileInv, TogetherOK
      <3> QED  BY <3>3, <3>4, <3>6
    <2>7. ASSUME NEW u \in Tasks, collector'[u] \in {"open", "closed"}
          PROVE  opener'[TaskId(u)'] # Nobody
      <3>1. CASE TaskId(u) = TaskId(t)  BY <1>3, <2>2, <3>1 DEF Tasks, Nobody
      <3>2. CASE TaskId(u) # TaskId(t)
        <4>1. u # t /\ collector[u] \in {"open", "closed"}  BY <2>1, <2>7, <3>2
        <4>2. TaskId(u) \in TaskIds
          BY <4>1, TaskIdNames DEF IInv, TaskInv, TaskOK, LogOK, Before, IdInv
        <4> QED  BY <1>3, <2>3, <3>2, <4>1, <4>2 DEF FileInv
      <3> QED  BY <3>1, <3>2
    <2>8. \A n \in TaskIds : (LinesOK(n) /\ OpenerOK(n) /\ TogetherOK(n))'
      BY <1>3, <2>4, <2>5, <2>6
    <2> QED  BY <2>7, <2>8 DEF FileInv
  <1> QED  BY <1>4, <1>5 DEF OnStarted, OnStartedWith

\* Closing a log keeps FileInv: its lines come over what the file held.
LEMMA OnFinishedFile ==
    ASSUME IInv, FileInv, NEW t \in Tasks, OnFinished(t)
    PROVE  FileInv'
  <1>1. /\ TypeOK /\ worker[t] = "OnFinished" /\ collector[t] = "open"
        /\ UNCHANGED <<threadId, opener>> /\ lines[t] + 1 \in Nat
    BY DEF IInv, TypeOK, TaskInv, TaskOK, LogOK, Finishing, OnFinished, At
  <1>2. TaskId(t) \in TaskIds /\ \A u \in Tasks : TaskId(u)' = TaskId(u)
    BY <1>1, TaskIdNames DEF IInv, IdInv, TaskId
  <1>3. /\ collector'[t] = "closed" /\ lines'[t] = lines[t] + 1
        /\ \A u \in Tasks \ {t} : collector'[u] = collector[u] /\ lines'[u] = lines[u]
    BY <1>1 DEF TypeOK, OnFinished
  <1>4. \A n \in TaskIds \ {TaskId(t)} : file'[n] = file[n]
    BY <1>1 DEF TypeOK, OnFinished
  <1>5. file[TaskId(t)] \in Seq(Tasks)  BY <1>1, <1>2 DEF TypeOK
  <1>6. PICK m \in Nat : m = Len(file[TaskId(t)])  BY <1>5
  <1>7. /\ m <= Len(file'[TaskId(t)]) /\ lines[t] + 1 <= Len(file'[TaskId(t)])
        /\ Len(file'[TaskId(t)]) \in Nat
        /\ \A i \in 1 .. Len(file'[TaskId(t)]) :
              \/ file'[TaskId(t)][i] = t /\ i <= lines[t] + 1
              \/ i \in 1 .. m /\ file'[TaskId(t)][i] = file[TaskId(t)][i]
    <2>1. file'[TaskId(t)] = Overwritten(file[TaskId(t)], t, lines[t] + 1)
      BY <1>1, <1>2 DEF TypeOK, OnFinished
    <2>2. PICK k \in Nat : k = lines[t] + 1  BY <1>1
    <2>3. PICK f \in Seq(Tasks) : f = file[TaskId(t)]  BY <1>5
    <2> QED  BY <1>6, <2>1, <2>2, <2>3, OverwrittenText
  <1>8. ASSUME NEW n \in TaskIds, NEW i \in 1 .. Len(file[n])
        PROVE  file[n][i] \in Tasks \ {t}
    BY <1>1, LineOwner DEF FileInv, LinesOK
  <1>9. Writes(t, TaskId(t))  BY <1>1 DEF Writes
  <1>10. ASSUME NEW n \in TaskIds  PROVE LinesOK(n)'
    <2>1. CASE n # TaskId(t)
      BY <1>2, <1>3, <1>4, <1>8, <2>1 DEF FileInv, LinesOK
    <2>2. CASE n = TaskId(t)
      <3>1. ASSUME NEW i \in 1 .. Len(file'[n])
            PROVE  /\ collector'[file'[n][i]] = "closed"
                   /\ Hash[threadId'[file'[n][i]]] % IntRange = n
                   /\ i <= lines'[file'[n][i]]
        <4>1. CASE file'[n][i] = t /\ i <= lines[t] + 1
          BY <1>1, <1>3, <2>2, <4>1 DEF TaskId
        <4>2. CASE i \in 1 .. m /\ file'[n][i] = file[n][i]
          <5>1. PICK u \in Tasks \ {t} : u = file[n][i]  BY <1>6, <1>8, <2>2, <4>2
          <5>2. collector[u] = "closed" /\ TaskId(u) = n /\ i <= lines[u]
            BY <1>6, <2>2, <4>2, <5>1 DEF FileInv, LinesOK
          <5> QED  BY <1>1, <1>3, <4>2, <5>1, <5>2 DEF TaskId
        <4> QED  BY <1>7, <2>2, <4>1, <4>2
      <3> QED  BY <3>1 DEF LinesOK, TaskId
    <2> QED  BY <2>1, <2>2
  <1>11. ASSUME NEW n \in TaskIds  PROVE OpenerOK(n)'
    <2> SUFFICES ASSUME opener[n] # Nobody
                 PROVE  /\ collector'[opener[n]] \in {"open", "closed"}
                        /\ Hash[threadId[opener[n]]] % IntRange = n
                        /\ collector'[opener[n]] = "closed"
                             => lines'[opener[n]] <= Len(file'[n])
      BY <1>1 DEF OpenerOK, TaskId
    <2>1. opener[n] \in Tasks  BY <1>1 DEF TypeOK
    <2>2. OpenerOK(n)  BY DEF FileInv
    <2>3. CASE opener[n] = t
      <3>1. n = TaskId(t)  BY <2>2, <2>3 DEF OpenerOK
      <3> QED  BY <1>1, <1>3, <1>7, <2>3, <3>1 DEF TaskId
    <2>4. CASE opener[n] # t
      <3>1. collector'[opener[n]] = collector[opener[n]] /\ lines'[opener[n]] = lines[opener[n]]
        BY <1>3, <2>1, <2>4
      <3>2. Len(file[n]) <= Len(file'[n])
        <4>1. file[n] \in Seq(Tasks)  BY <1>1 DEF TypeOK
        <4> QED  BY <1>4, <1>6, <1>7, <4>1
      <3>3. Len(file[n]) \in Nat /\ Len(file'[n]) \in Nat /\ lines[opener[n]] \in Nat
        <4>1. file[n] \in Seq(Tasks)  BY <1>1 DEF TypeOK
        <4> QED  BY <1>1, <1>4, <1>7, <2>1, <4>1 DEF TypeOK
      <3> QED  BY <2>1, <2>2, <3>1, <3>2, <3>3 DEF OpenerOK, TaskId
    <2> QED  BY <2>3, <2>4
  <1>12. ASSUME NEW n \in TaskIds  PROVE TogetherOK(n)'
    <2>1. ASSUME NEW u \in Tasks, Writes(u, n)'  PROVE Writes(u, n)
      <3>1. CASE n # TaskId(t)  BY <1>1, <1>2, <1>3, <1>4, <2>1, <3>1 DEF Writes
      <3>2. CASE n = TaskId(t)
        BY <1>1, <1>2, <1>3, <1>6, <1>7, <1>9, <2>1, <3>2 DEF Writes
      <3> QED  BY <3>1, <3>2
    <2> QED  BY <1>1, <2>1 DEF FileInv, TogetherOK
  <1>13. ASSUME NEW u \in Tasks, collector'[u] \in {"open", "closed"}
         PROVE  opener'[TaskId(u)'] # Nobody
    <2>1. collector[u] \in {"open", "closed"}  BY <1>1, <1>3, <1>13
    <2> QED  BY <1>1, <1>2, <2>1 DEF FileInv
  <1> QED  BY <1>10, <1>11, <1>12, <1>13 DEF FileInv

\* FileInv is inductive relative to IInv.
LEMMA NextFile == IInv /\ IInv' /\ FileInv /\ [Next]_vars => FileInv'
  <1> SUFFICES ASSUME IInv, IInv', FileInv, [Next]_vars  PROVE FileInv'
    OBVIOUS
  <1>0. TypeOK  BY DEF IInv
  <1>1. CASE Run
    <2>1. UNCHANGED <<collector, lines, file, opener>>  BY <1>1 DEF Run, logVars
    <2>2. worker[index] = "none" /\ index \in Tasks  BY <1>1, CurrentTask DEF Run
    <2>3. collector[index] \notin {"open", "closed"}
      BY <2>2 DEF IInv, TaskInv, TaskOK, LogOK, Before
    <2>4. \A u \in Tasks \ {index} : threadId'[u] = threadId[u]
      BY <1>0, <1>1 DEF Run, TypeOK
    <2> QED  BY <1>0, <2>1, <2>2, <2>3, <2>4, FileFrame
  <1>2. CASE MainStep /\ ~Run
    <2>1. UNCHANGED <<collector, lines, file, opener, threadId>>
      BY <1>2 DEF MainStep, NewTask, SkipTask, Register, StartPolling, Poll, logVars
    <2> QED  BY <1>0, <2>1, FileFrame
  <1>3. ASSUME NEW t \in Tasks, WorkerStep(t)  PROVE FileInv'
    <2>1. CASE OnStarted(t)  BY <2>1, OnStartedFile
    <2>2. CASE OnFinished(t)  BY <2>2, OnFinishedFile
    <2>3. CASE OnProgress(t)
      <3>1. UNCHANGED <<collector, file, opener, threadId>>
        BY <2>3 DEF OnProgress, logVars
      <3>2. collector[t] = "open"
        BY <2>3 DEF OnProgress, At, IInv, TaskInv, TaskOK, LogOK, Looping
      <3>3. \A u \in Tasks \ {t} : lines'[u] = lines[u]
        BY <1>0, <2>3 DEF OnProgress, TypeOK, logVars
      <3> QED  BY <1>0, <3>1, <3>2, <3>3, FileFrame
    <2>4. CASE \/ CallOnStarted(t) \/ StepsDone(t) \/ FailStep(t) \/ CallOnProgress(t)
               \/ CallOnFinished(t) \/ OnFinishedRemove(t) \/ OnFinishedReturn(t) \/ Detach(t)
      <3>1. UNCHANGED <<collector, lines, file, opener, threadId>>
        BY <2>4 DEF CallOnStarted, StepsDone, FailStep, CallOnProgress, CallOnFinished,
                    OnFinishedRemove, OnFinishedReturn, Detach, Upcall, logVars
      <3> QED  BY <1>0, <3>1, FileFrame
    <2> QED  BY <1>3, <2>1, <2>2, <2>3, <2>4 DEF WorkerStep
  <1>4. ASSUME NEW t \in Tasks, Finalize(t)  PROVE FileInv'
    <2>1. UNCHANGED <<collector, lines, file, opener, threadId>>
      BY <1>4 DEF Finalize, logVars
    <2> QED  BY <1>0, <2>1, FileFrame
  <1>5. CASE Ended \/ UNCHANGED vars
    <2>1. UNCHANGED <<collector, lines, file, opener, threadId>>
      BY <1>5 DEF Ended, vars, logVars
    <2> QED  BY <1>0, <2>1, FileFrame
  <1> QED  BY <1>1, <1>2, <1>3, <1>4, <1>5 DEF Next

\* What the log files hold, in every state of every behaviour.
THEOREM FilesKept == Spec => [](IInv /\ FileInv)
  <1>1. Init => FileInv
    <2> SUFFICES ASSUME Init  PROVE FileInv
      OBVIOUS
    <2>1. ASSUME NEW n \in TaskIds  PROVE file[n] = << >> /\ opener[n] = Nobody
      BY DEF Init
    <2>2. \A t \in Tasks : collector[t] = "null"  BY DEF Init
    <2>3. ASSUME NEW n \in TaskIds  PROVE LinesOK(n) /\ OpenerOK(n) /\ TogetherOK(n)
      <3>1. \A t \in Tasks : ~Writes(t, n)  BY <2>1, <2>2 DEF Writes, Tasks, Nobody
      <3> QED  BY <2>1, <3>1 DEF LinesOK, OpenerOK, TogetherOK
    <2> QED  BY <2>2, <2>3 DEF FileInv
  <1> QED  BY <1>1, NextFile, Inductive, PTL DEF Spec

\* At exit a task's log file is its whole log, unless a later task opened it or
\* another thread's id hashes to the same int (TaskSimple.java:44-60 and 80-85,
\* MessageCollector.java:14-35, task.cpp:42).
THEOREM LogsComplete == Spec => []LogsCompleteAtExit
  <1>1. IInv /\ FileInv => LogsCompleteAtExit
    <2> SUFFICES ASSUME IInv, FileInv, vm = "exited", NEW t \in Tasks, obj[t] # "unborn",
                        opener[TaskId(t)] \notin Tasks \ {t}, ~Collides(t)
                 PROVE  WholeLog(t)
      BY DEF LogsCompleteAtExit
    <2>1. worker[t] # "none" /\ taskCollection = {}  BY DEF IInv, MainInv
    <2>2. worker[t] \in After
      BY <2>1 DEF IInv, TaskInv, TaskOK, PeerOK, After
    <2>3. collector[t] = "closed" /\ lines[t] = step[t] + 2 /\ EndsAt(t, step[t])
      BY <2>2 DEF IInv, TaskInv, TaskOK, LogOK, LoopOK
    <2>4. PICK n \in TaskIds : n = TaskId(t)  BY <2>1, TaskIdNames DEF IInv, IdInv
    <2>5. opener[n] = t  BY <2>3, <2>4 DEF FileInv, IInv, TypeOK
    <2>6. Len(file[n]) \in Nat /\ \A i \in 1 .. Len(file[n]) : file[n][i] \in Tasks
      BY LineOwner DEF IInv
    <2>7. ASSUME NEW i \in 1 .. Len(file[n])  PROVE file[n][i] = t
      <3> SUFFICES ASSUME file[n][i] # t  PROVE FALSE
        OBVIOUS
      <3>1. PICK u \in Tasks : u = file[n][i]  BY <2>6
      <3>2. Writes(u, n) /\ Writes(t, n)  BY <2>5, <3>1 DEF Writes
      <3>3. threadId[u] # threadId[t] /\ TaskId(u) = n
        BY <3>1, <3>2, WritersOpened DEF FileInv, TogetherOK
      <3>4. threadId[u] \in ThreadIds
        <4>1. collector[u] = "closed"  BY <3>1 DEF FileInv, LinesOK
        <4> QED  BY <4>1 DEF IInv, TaskInv, TaskOK, LogOK, Before, IdInv
      <3> QED  BY <2>4, <3>3, <3>4 DEF Collides
    <2>8. lines[t] <= Len(file[n])
      BY <2>3, <2>5 DEF FileInv, OpenerOK, Tasks, Nobody
    <2>9. Len(file[n]) <= lines[t]
      <3>1. CASE Len(file[n]) = 0  BY <2>3, <3>1 DEF IInv, TypeOK
      <3>2. CASE Len(file[n]) > 0
        <4>1. Len(file[n]) \in 1 .. Len(file[n])  BY <2>6, <3>2
        <4> QED  BY <2>7, <4>1 DEF FileInv, LinesOK
      <3> QED  BY <2>6, <3>1, <3>2
    <2>10. Len(file[n]) - 2 = step[t]
      <3>1. step[t] \in Nat  BY DEF IInv, TypeOK
      <3> QED  BY <2>3, <2>6, <2>8, <2>9, <3>1
    <2> QED  BY <2>3, <2>4, <2>7, <2>10 DEF WholeLog
  <1> QED  BY <1>1, FilesKept, PTL

\* Lines of two tasks meet in one file only if the ids of their threads, both
\* alive when it was opened, hash to one int (TaskSimple.java:47-50, task.cpp:42).
THEOREM LogsSeparate == Spec => []LogsNotMixed
  <1>1. IInv /\ FileInv => LogsNotMixed
    <2> SUFFICES ASSUME IInv, FileInv, NEW n \in TaskIds, NEW i \in 1 .. Len(file[n]),
                        NEW j \in 1 .. Len(file[n]), file[n][i] # file[n][j]
                 PROVE  threadId[file[n][i]] # threadId[file[n][j]]
      BY DEF LogsNotMixed
    <2>1. file[n][i] \in Tasks /\ file[n][j] \in Tasks  BY LineOwner DEF IInv
    <2>2. Writes(file[n][i], n) /\ Writes(file[n][j], n)  BY DEF Writes
    <2> QED  BY <2>1, <2>2 DEF FileInv, TogetherOK
  <1> QED  BY <1>1, FilesKept, PTL

\* Every variable keeps its type, and the process ends early only for the two
\* reasons the code has.
THEOREM EarlyEnds == Spec => []Consistent
  <1>1. IInv => Consistent  BY DEF IInv, Consistent
  <1> QED  BY <1>1, Inductive, PTL

-----------------------------------------------------------------------------
(***************************************************************************)
(* JnaTask, for any number of tasks and any step counts.  The argument is  *)
(* that the Vector holds a task exactly from its constructor to its last   *)
(* callback, and that the collector leaves alone what the Vector holds.    *)
(***************************************************************************)

Made(t) == t < threadIndex \/ (jnaMain = "call" /\ t = threadIndex)
Removed(t) == thread[t] = "ended" \/ (thread[t] = "back" /\ Last(t))

\* The Vector and the objects.
Held ==
    \A t \in Threads :
        /\ t \in taskRegistrator <=> Made(t) /\ ~Removed(t)
        /\ t \in taskRegistrator => object[t] = "live"

\* The threads and the calls they have made.
Counted ==
    \A t \in Threads :
        /\ thread[t] = "none" <=> t >= threadIndex
        /\ thread[t] # "ended" => calls[t] <= stepsCount[t] + 1
        /\ thread[t] = "ended" => calls[t] = stepsCount[t] + 2

\* Main and the end of the process.
JnaMainInv ==
    /\ jnaMain \in {"poll", "returned"} => threadIndex = ThreadCount + 1
    /\ jnaMain = "returned" => taskRegistrator = {}
    /\ crashed => \E t \in Threads : thread[t] = "ended"

JnaIInv == JnaTypeOK /\ Held /\ Counted /\ JnaMainInv

LEMMA JnaInitOK == JnaInit => JnaIInv
<1> SUFFICES ASSUME JnaInit PROVE JnaIInv
  OBVIOUS
<1> USE JnaTaskAssumption DEF Threads, JnaInit
<1>1. \A t \in Threads : stepsCount[t] \in Nat /\ calls[t] = 0 /\ thread[t] = "none"
  BY stepsCount \in [Threads -> StepsCounts], StepsCounts \subseteq Nat
<1>2. JnaTypeOK
  <2>1. \A t \in Threads : calls[t] <= stepsCount[t] + 2
    BY <1>1
  <2>2. calls \in [Threads -> Nat] /\ stepsCount \in [Threads -> StepsCounts]
    OBVIOUS
  <2>3. /\ object \in [Threads -> {"none", "live", "collected"}]
        /\ thread \in [Threads -> {"none", "native", "java", "back", "ended"}]
    OBVIOUS
  <2>4. threadIndex \in 1 .. (ThreadCount + 1) /\ jnaMain = "loop" /\ taskRegistrator = {} /\ crashed = FALSE
    OBVIOUS
  <2> QED BY <2>1, <2>2, <2>3, <2>4 DEF JnaTypeOK
<1>3. Held /\ JnaMainInv
  BY <1>1 DEF Held, JnaMainInv, Made
<1>4. Counted
  BY <1>1 DEF Counted
<1> QED BY <1>2, <1>3, <1>4 DEF JnaIInv

LEMMA MainOK == ASSUME JnaIInv, Main PROVE JnaIInv'
<1> USE JnaTaskAssumption DEF Threads
<1>1. CASE New
  <2>1. JnaTypeOK'
    BY <1>1 DEF JnaIInv, JnaTypeOK, New
  <2>2. Held'
    BY <1>1 DEF JnaIInv, JnaTypeOK, Held, Counted, Made, Removed, Last, New
  <2>3. Counted'
    BY <1>1 DEF JnaIInv, JnaTypeOK, Counted, New
  <2>4. JnaMainInv'
    BY <1>1 DEF JnaIInv, JnaMainInv, New
  <2> QED BY <2>1, <2>2, <2>3, <2>4 DEF JnaIInv
<1>2. CASE RunSimple
  <2>1. JnaTypeOK'
    BY <1>2 DEF JnaIInv, JnaTypeOK, RunSimple
  <2>2. Held'
    BY <1>2 DEF JnaIInv, JnaTypeOK, Held, Counted, Made, Removed, Last, RunSimple
  <2>3. Counted'
    BY <1>2 DEF JnaIInv, JnaTypeOK, Counted, RunSimple
  <2>4. JnaMainInv'
    BY <1>2 DEF JnaIInv, JnaMainInv, RunSimple
  <2> QED BY <2>1, <2>2, <2>3, <2>4 DEF JnaIInv
<1>3. CASE MadeAll
  BY <1>3 DEF JnaIInv, JnaTypeOK, Held, Counted, JnaMainInv, Made, Removed, Last, MadeAll
<1>4. CASE IsEmpty
  BY <1>4 DEF JnaIInv, JnaTypeOK, Held, Counted, JnaMainInv, Made, Removed, Last, IsEmpty
<1> QED BY <1>1, <1>2, <1>3, <1>4 DEF Main

\* A thread about to call finds its closure, so the call enters Java.
LEMMA CallOK == ASSUME JnaIInv, NEW t \in Threads, Call(t) PROVE JnaIInv'
<1> USE JnaTaskAssumption DEF Threads
<1>1. object[t] = "live"
  BY DEF JnaIInv, JnaTypeOK, Held, Counted, Made, Removed, Call
<1>2. /\ thread' = [thread EXCEPT ![t] = "java"]
      /\ UNCHANGED <<jnaMainVars, taskRegistrator, object, stepsCount, calls, crashed>>
      /\ thread[t] = "native"
  BY <1>1 DEF Call
<1>3. JnaTypeOK'
  BY <1>2 DEF JnaIInv, JnaTypeOK, jnaMainVars
<1>4. Held'
  BY <1>2 DEF JnaIInv, JnaTypeOK, Held, Counted, Made, Removed, Last, jnaMainVars
<1>5. Counted'
  BY <1>2 DEF JnaIInv, JnaTypeOK, Counted, jnaMainVars
<1>6. JnaMainInv'
  BY <1>2, ~crashed DEF JnaIInv, JnaTypeOK, JnaMainInv, jnaMainVars, Call
<1> QED BY <1>3, <1>4, <1>5, <1>6 DEF JnaIInv

LEMMA CallbackOK == ASSUME JnaIInv, NEW t \in Threads, Callback(t) PROVE JnaIInv'
<1> USE JnaTaskAssumption DEF Threads, Callback, CallbackRemovesAt
<1>1. JnaTypeOK'
  BY DEF JnaIInv, JnaTypeOK, jnaMainVars
<1>2. Held'
  BY DEF JnaIInv, JnaTypeOK, Held, Counted, Made, Removed, Last, jnaMainVars
<1>3. Counted'
  BY DEF JnaIInv, JnaTypeOK, Counted, jnaMainVars
<1>4. JnaMainInv'
  BY DEF JnaIInv, JnaTypeOK, JnaMainInv, jnaMainVars
<1> QED BY <1>1, <1>2, <1>3, <1>4 DEF JnaIInv

\* The closure may be gone only behind the last call.
LEMMA ReturnOK == ASSUME JnaIInv, NEW t \in Threads, Return(t) PROVE JnaIInv'
<1> USE JnaTaskAssumption DEF Threads
<1>1. calls[t] <= stepsCount[t] + 1 /\ t < threadIndex
  BY DEF JnaIInv, JnaTypeOK, Counted, Return
<1>2. ~Last(t) => object[t] = "live"
  BY <1>1 DEF JnaIInv, JnaTypeOK, Held, Made, Removed, Return
<1>3. \A s \in Threads : stepsCount[s] \in Nat /\ calls[s] \in Nat
  BY DEF JnaIInv, JnaTypeOK
<1>4. /\ calls' = [calls EXCEPT ![t] = calls[t] + 1]
      /\ \A s \in Threads : s # t => calls'[s] = calls[s] /\ thread'[s] = thread[s]
      /\ calls'[t] = calls[t] + 1
      /\ thread'[t] = IF Last(t) THEN "ended" ELSE "native"
      /\ stepsCount' = stepsCount /\ threadIndex' = threadIndex
  BY DEF JnaIInv, JnaTypeOK, Return, jnaMainVars
<1>5. JnaTypeOK'
  <2>1. calls' \in [Threads -> Nat]
    BY <1>3, <1>4, calls[t] + 1 \in Nat DEF JnaIInv, JnaTypeOK
  <2>2. ASSUME NEW s \in Threads PROVE calls'[s] <= stepsCount'[s] + 2
    <3>1. CASE s = t
      BY <3>1, <1>1, <1>3, <1>4
    <3>2. CASE s # t
      BY <3>2, <1>4 DEF JnaIInv, JnaTypeOK
    <3> QED BY <3>1, <3>2
  <2> QED BY <2>1, <2>2 DEF JnaIInv, JnaTypeOK, jnaMainVars, Return
<1>6. Held'
  BY <1>1 DEF JnaIInv, JnaTypeOK, Held, Counted, Made, Removed, Last, jnaMainVars, Return
<1>7. Counted'
  BY <1>1, <1>3, <1>4 DEF JnaIInv, Counted, Last, Return
<1>8. JnaMainInv'
  BY <1>2 DEF JnaIInv, JnaTypeOK, JnaMainInv, jnaMainVars, Return
<1> QED BY <1>5, <1>6, <1>7, <1>8 DEF JnaIInv

LEMMA CollectOK == ASSUME JnaIInv, NEW t \in Threads, Collect(t) PROVE JnaIInv'
<1>1. JnaTypeOK'
  BY DEF JnaIInv, JnaTypeOK, Collect, jnaMainVars
<1>2. Held'
  BY DEF JnaIInv, JnaTypeOK, Held, Made, Removed, Last, Collect, jnaMainVars
<1>3. Counted' /\ JnaMainInv'
  BY DEF JnaIInv, Counted, JnaMainInv, Collect, jnaMainVars
<1> QED BY <1>1, <1>2, <1>3 DEF JnaIInv

\* The inductive invariant holds in every state of JnaMain.Run.
THEOREM JnaInductive == JnaSpec => []JnaIInv
<1>1. JnaIInv /\ [JnaNext]_jnaVars => JnaIInv'
  <2> SUFFICES ASSUME JnaIInv, [JnaNext]_jnaVars PROVE JnaIInv'
    OBVIOUS
  <2>1. CASE Main
    BY <2>1, MainOK
  <2>2. ASSUME NEW t \in Threads, Native(t) \/ Collect(t) PROVE JnaIInv'
    BY <2>2, CallOK, CallbackOK, ReturnOK, CollectOK DEF Native
  <2>3. CASE UNCHANGED jnaVars
    BY <2>3 DEF jnaVars, jnaMainVars, JnaIInv, JnaTypeOK, Held, Counted, JnaMainInv, Made, Removed, Last
  <2> QED BY <2>1, <2>2, <2>3 DEF JnaNext
<1> QED BY JnaInitOK, <1>1, PTL DEF JnaSpec

\* Every variable of JnaTask keeps its type, and no thread makes more calls than
\* Start, its steps and Finished.
THEOREM JnaTypeCorrect == JnaSpec => []JnaTypeOK
<1>1. JnaIInv => JnaTypeOK
  BY DEF JnaIInv
<1> QED BY <1>1, JnaInductive, PTL

\* No native thread calls into a closure that JNA has freed, for any number of
\* tasks and steps.
THEOREM CallbacksAlive == JnaSpec => []NoDeadCall
<1>1. JnaIInv => NoDeadCall
  <2> SUFFICES ASSUME JnaIInv PROVE NoDeadCall
    OBVIOUS
  <2>1. ASSUME NEW t \in Threads, thread[t] = "native" PROVE object[t] = "live"
    BY <2>1 DEF JnaIInv, JnaTypeOK, Held, Counted, Made, Removed, Threads
  <2>2. crashed => \E t \in Threads : calls[t] = stepsCount[t] + 2
    BY DEF JnaIInv, Counted, JnaMainInv
  <2> QED BY <2>1, <2>2 DEF NoDeadCall
<1> QED BY <1>1, JnaInductive, PTL

\* JnaMain.Run returns only after the last callback of every task.
THEOREM RunWaits == JnaSpec => []RunSeesAll
<1>1. JnaIInv => RunSeesAll
  BY JnaTaskAssumption
  DEF JnaIInv, JnaTypeOK, Held, JnaMainInv, Made, Removed, RunSeesAll, Threads
<1> QED BY <1>1, JnaInductive, PTL
=============================================================================
