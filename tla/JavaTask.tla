------------------------------- MODULE JavaTask -------------------------------
(***************************************************************************)
(* SwigMain.Run starts up to N native tasks (Task::Run, one detached C++   *)
(* thread each).  Every thread reports to its Java peer through the SWIG   *)
(* director: OnStarted, OnProgress for each step, OnFinished.  The Java    *)
(* peer (TaskSimple and its two subclasses) writes a log file and takes    *)
(* itself out of the shared task collection, which main polls.             *)
(*                                                                         *)
(* The director holds the peer by a weak reference and the peer owns the   *)
(* native object, so a collected peer means a deleted native object: the   *)
(* two share one state, obj.  The threads are attached as daemons, so the  *)
(* JVM does not wait for them when main returns.                           *)
(***************************************************************************)
EXTENDS Integers, FiniteSets, Sequences

CONSTANTS
    N,                  \* iterations of the loop of SwigMain.Run (10)
    ThreadIds, NoId,    \* values of std::thread::id; no thread yet
    Hash,               \* std::thread::id::hash
    IntRange,           \* number of values of an int (2^32)
    MinSleep, MaxSleep, \* range of upperBound (10 and 19)
    MaxFail,            \* largest failedStep drawn (19)
    TaskTypes           \* values of SwigTaskType that Run is called with

AllTaskTypes == {"Random", "Simple", "JavaCancel", "JavaThrow"}

ASSUME JavaTaskAssumption ==
    /\ N \in Nat
    /\ MinSleep \in Nat \ {0} /\ MaxSleep \in Nat /\ MinSleep <= MaxSleep
    /\ MaxFail \in Nat
    /\ NoId \notin ThreadIds
    /\ Hash \in [ThreadIds -> Nat] /\ IntRange \in Nat \ {0}
    /\ TaskTypes \subseteq AllTaskTypes

Tasks == 1 .. N
Nobody == 0

\* What static_cast<int> can leave of a hash; it names a log file.
TaskIds == 0 .. (IntRange - 1)

VARIABLES
    vm,             \* the process: running, main returned, std::terminate, wild read
    taskType,       \* argument of SwigMain.Run
    main, index,    \* main's position and its loop variable
    taskCollection, \* the Vector all threads synchronize on
    obj,            \* Java peer and native object of a task
    sleepCount, failedStep, \* Task::m_sleepCount, Task::m_failedStep
    javaStep,       \* taskCancelStep or taskThrowStep of the Java peer
    worker, step,   \* position of the native thread and its loop variable
    threadId,       \* std::this_thread::get_id() of the thread
    taskResult,     \* the TaskResult the thread passes to OnFinished
    collector,      \* TaskSimple.messageCollector
    lines,          \* lines given to the collector
    file,           \* task_log_<id>.txt, by id: whose line each line is
    opener          \* the task whose collector opened that file last

mainVars == <<taskType, main, index>>
parameters == <<sleepCount, failedStep, javaStep>>
logVars == <<collector, lines, file, opener>>
vars == <<vm, mainVars, taskCollection, obj, parameters, worker, step,
          threadId, taskResult, logVars>>

(***************************************************************************)
(* The thread is in Java code, under a local reference to its peer, in     *)
(* the states of InUpcall.                                                 *)
(***************************************************************************)
InUpcall == {"OnStarted", "OnProgress", "OnFinished", "unregister", "println"}
WorkerStates ==
    InUpcall \cup {"none", "start", "loop", "finish", "detach", "done"}

TypeOK ==
    /\ vm \in {"running", "exited", "aborted", "crashed"}
    /\ taskType \in TaskTypes
    /\ main \in {"new", "register", "run", "poll"}
    /\ index \in 1 .. (N + 1)
    /\ taskCollection \subseteq Tasks
    /\ obj \in [Tasks -> {"unborn", "live", "collected"}]
    /\ sleepCount \in [Tasks -> Nat]
    /\ failedStep \in [Tasks -> -1 .. MaxFail]
    /\ javaStep \in [Tasks -> Int]
    /\ worker \in [Tasks -> WorkerStates]
    /\ step \in [Tasks -> Nat]
    /\ threadId \in [Tasks -> ThreadIds \cup {NoId}]
    /\ taskResult \in [Tasks -> {"none", "Canceled", "Succeeded", "Failed"}]
    /\ collector \in [Tasks -> {"null", "open", "closed", "broken"}]
    /\ lines \in [Tasks -> Nat]
    /\ file \in [TaskIds -> Seq(Tasks)]
    /\ opener \in [TaskIds -> Tasks \cup {Nobody}]

Init ==
    /\ vm = "running"
    /\ taskType \in TaskTypes
    /\ main = "new" /\ index = 1
    /\ taskCollection = {}
    /\ obj = [t \in Tasks |-> "unborn"]
    /\ sleepCount = [t \in Tasks |-> 0]
    /\ failedStep = [t \in Tasks |-> -1]
    /\ javaStep = [t \in Tasks |-> -1]
    /\ worker = [t \in Tasks |-> "none"]
    /\ step = [t \in Tasks |-> 0]
    /\ threadId = [t \in Tasks |-> NoId]
    /\ taskResult = [t \in Tasks |-> "none"]
    /\ collector = [t \in Tasks |-> "null"]
    /\ lines = [t \in Tasks |-> 0]
    /\ file = [n \in TaskIds |-> << >>]
    /\ opener = [n \in TaskIds |-> Nobody]

-----------------------------------------------------------------------------
(* The main thread: SwigMain.Run *)

\* The class a task gets; for Random, values()[nextInt(2)] is Random or Simple.
JavaType == IF taskType = "Random" THEN "Simple" ELSE taskType

\* new TaskSimple/TaskCancelFromJava/TaskThrowFromJava: the native object is
\* made and connected to its Java peer by a weak reference.
NewTask ==
    /\ vm = "running" /\ main = "new" /\ index <= N
    /\ \E upperBound \in MinSleep .. MaxSleep :
         /\ sleepCount' = [sleepCount EXCEPT ![index] = upperBound]
         /\ IF JavaType = "Simple"
            THEN /\ \E f \in -1 .. MaxFail :
                      failedStep' = [failedStep EXCEPT ![index] = f]
                 /\ UNCHANGED javaStep
            ELSE /\ \E s \in 0 .. (upperBound - 1) :
                      javaStep' = [javaStep EXCEPT ![index] = s]
                 /\ UNCHANGED failedStep
    /\ obj' = [obj EXCEPT ![index] = "live"]
    /\ main' = "register"
    /\ UNCHANGED <<vm, taskType, index, taskCollection, worker, step, threadId,
                   taskResult, logVars>>

\* The switch has no case for Random: this iteration makes no task.
SkipTask ==
    /\ vm = "running" /\ main = "new" /\ index <= N
    /\ taskType = "Random"
    /\ index' = index + 1
    /\ UNCHANGED <<vm, taskType, main, taskCollection, obj, parameters, worker,
                   step, threadId, taskResult, logVars>>

RegisterNothing ==
    /\ vm = "running" /\ main = "register"
    /\ main' = "run"
    /\ UNCHANGED <<vm, taskType, index, taskCollection, obj, parameters, worker,
                   step, threadId, taskResult, logVars>>

\* TaskSimple.Register, under the collection's monitor.
Register ==
    /\ vm = "running" /\ main = "register"
    /\ taskCollection' = taskCollection \cup {index}
    /\ main' = "run"
    /\ UNCHANGED <<vm, taskType, index, obj, parameters, worker, step, threadId,
                   taskResult, logVars>>

\* Task::Run: the detached thread exists from here on.  No two threads that
\* live at the same time have the same std::thread::id, the id of a finished
\* one may be given again; what OnStarted is told of it is TaskId.
Run ==
    /\ vm = "running" /\ main = "run"
    /\ \E id \in ThreadIds :
         /\ \A t \in Tasks : worker[t] \notin {"none", "done"} => threadId[t] # id
         /\ threadId' = [threadId EXCEPT ![index] = id]
    /\ worker' = [worker EXCEPT ![index] = "start"]
    /\ index' = index + 1
    /\ main' = "new"
    /\ UNCHANGED <<vm, taskType, taskCollection, obj, parameters, step,
                   taskResult, logVars>>

StartPolling ==
    /\ vm = "running" /\ main = "new" /\ index = N + 1
    /\ main' = "poll"
    /\ UNCHANGED <<vm, taskType, index, taskCollection, obj, parameters, worker,
                   step, threadId, taskResult, logVars>>

\* The poll that finds the collection empty: main returns and, every other
\* thread being a daemon, the process ends.
Poll ==
    /\ vm = "running" /\ main = "poll" /\ taskCollection = {}
    /\ vm' = "exited"
    /\ UNCHANGED <<mainVars, taskCollection, obj, parameters, worker, step,
                   threadId, taskResult, logVars>>

-----------------------------------------------------------------------------
(* A worker thread: Task::Run's lambda and the upcalls it makes *)

\* static_cast<int>(threadId.hash()): neither the hash nor the narrowing keeps
\* different threads apart.
TaskId(t) == Hash[threadId[t]] % IntRange

At(t, here) == vm = "running" /\ worker[t] = here
GoTo(t, there) == worker' = [worker EXCEPT ![t] = there]

\* The director method up to the call into Java: attach the thread, turn the
\* weak reference into a local one.  On a deleted object this is a wild read.
Upcall(t, here, there) ==
    /\ At(t, here)
    /\ GoTo(t, there)
    /\ vm' = IF obj[t] = "live" THEN vm ELSE "crashed"
    /\ UNCHANGED <<mainVars, taskCollection, obj, parameters, step, threadId, logVars>>

CallOnStarted(t) == Upcall(t, "start", "OnStarted") /\ UNCHANGED taskResult

\* TaskSimple.OnStarted, given what opening the log leaves in the file: it
\* always answers TaskContinue.  When the log cannot be opened Collect throws,
\* nothing in Task::Run catches it, and the C++ runtime terminates the process.
OnStartedWith(t, text) ==
    /\ At(t, "OnStarted")
    /\ \/ /\ collector' = [collector EXCEPT ![t] = "open"]
          /\ file' = [file EXCEPT ![TaskId(t)] = text]
          /\ opener' = [opener EXCEPT ![TaskId(t)] = t]
          /\ lines' = [lines EXCEPT ![t] = @ + 1]
          /\ GoTo(t, "loop")
          /\ UNCHANGED vm
       \/ /\ collector' = [collector EXCEPT ![t] = "broken"]
          /\ vm' = "aborted"
          /\ UNCHANGED <<lines, file, opener, worker>>
    /\ UNCHANGED <<mainVars, taskCollection, obj, parameters, step, threadId, taskResult>>

OnStartedKeepFile(t) == OnStartedWith(t, file[TaskId(t)])

\* new PrintWriter(path, "UTF-8") empties a file that is there already, be it
\* the finished log of an earlier task or the open one of another.
OnStarted(t) == OnStartedWith(t, << >>)

Finish(t, result) ==
    /\ GoTo(t, "finish")
    /\ taskResult' = [taskResult EXCEPT ![t] = result]

StepsDoneEarly(t) ==
    /\ At(t, "loop") /\ step[t] >= sleepCount[t] - 1
    /\ Finish(t, "Succeeded")
    /\ UNCHANGED <<vm, mainVars, taskCollection, obj, parameters, step, threadId, logVars>>

\* The step after the last is the end of the loop.
StepsDone(t) ==
    /\ At(t, "loop") /\ step[t] >= sleepCount[t]
    /\ Finish(t, "Succeeded")
    /\ UNCHANGED <<vm, mainVars, taskCollection, obj, parameters, step, threadId, logVars>>

\* m_failedStep: HandleFail does nothing, OnFinished(Failed).
FailStep(t) ==
    /\ At(t, "loop") /\ step[t] < sleepCount[t]
    /\ failedStep[t] = step[t]
    /\ Finish(t, "Failed")
    /\ UNCHANGED <<vm, mainVars, taskCollection, obj, parameters, step, threadId, logVars>>

CallOnProgress(t) ==
    /\ step[t] < sleepCount[t]
    /\ failedStep[t] # step[t]
    /\ Upcall(t, "loop", "OnProgress")
    /\ UNCHANGED taskResult

\* OnProgress of the two subclasses: this step cancels or throws.
StopsInJava(t) == JavaType # "Simple" /\ step[t] = javaStep[t]

\* TaskSimple.OnProgress and what Task::Run does with its answer; the two
\* subclasses cancel or throw before they log anything.
OnProgress(t) ==
    /\ At(t, "OnProgress")
    /\ IF StopsInJava(t)
       THEN /\ Finish(t, IF JavaType = "JavaCancel" THEN "Canceled" ELSE "Failed")
            /\ UNCHANGED <<step, logVars>>
       ELSE /\ lines' = [lines EXCEPT ![t] = @ + 1]
            /\ step' = [step EXCEPT ![t] = @ + 1]
            /\ GoTo(t, "loop")
            /\ UNCHANGED <<taskResult, collector, file, opener>>
    /\ UNCHANGED <<vm, mainVars, taskCollection, obj, parameters, threadId>>

CallOnFinished(t) == Upcall(t, "finish", "OnFinished") /\ UNCHANGED taskResult

OnFinishedRemoveFirst(t) ==
    /\ At(t, "OnFinished")
    /\ taskCollection' = taskCollection \ {t}
    /\ GoTo(t, "unregister")
    /\ UNCHANGED <<vm, mainVars, obj, parameters, step, threadId, taskResult, logVars>>

\* Lines 1 to k of t written over what the file holds: a stream starts at the
\* beginning of the file, whoever else has written there.
Overwritten(text, t, k) ==
    [i \in 1 .. (IF k > Len(text) THEN k ELSE Len(text)) |->
        IF i <= k THEN t ELSE text[i]]

\* TaskSimple.OnFinished in three parts: Collect, flush and close the log (a
\* whole log fits into the writer's buffers, so nothing is written before), ...
OnFinished(t) ==
    /\ At(t, "OnFinished")
    /\ lines' = [lines EXCEPT ![t] = @ + 1]
    /\ collector' = [collector EXCEPT ![t] = "closed"]
    /\ file' = [file EXCEPT ![TaskId(t)] = Overwritten(@, t, lines[t] + 1)]
    /\ GoTo(t, "unregister")
    /\ UNCHANGED <<vm, mainVars, taskCollection, obj, parameters, step, threadId, taskResult,
                   opener>>

OnFinishedKeepFailed(t) ==
    /\ At(t, "unregister")
    /\ taskCollection' = IF taskResult[t] = "Failed" THEN taskCollection
                         ELSE taskCollection \ {t}
    /\ GoTo(t, "println")
    /\ UNCHANGED <<vm, mainVars, obj, parameters, step, threadId, taskResult, logVars>>

\* ... leave the collection under its monitor, ...
OnFinishedRemove(t) ==
    /\ At(t, "unregister")
    /\ taskCollection' = taskCollection \ {t}
    /\ GoTo(t, "println")
    /\ UNCHANGED <<vm, mainVars, obj, parameters, step, threadId, taskResult, logVars>>

\* ... print, and return to the director, which deletes its local reference.
OnFinishedReturn(t) ==
    /\ At(t, "println")
    /\ GoTo(t, "detach")
    /\ UNCHANGED <<vm, mainVars, taskCollection, obj, parameters, step, threadId,
                   taskResult, logVars>>

\* ~JNIEnvWrapper reads the director to detach the thread, which nothing keeps
\* alive any more: on a deleted object the read goes well or it does not.
Detach(t) ==
    /\ At(t, "detach")
    /\ \/ UNCHANGED vm
       \/ obj[t] = "collected" /\ vm' = "crashed"
    /\ GoTo(t, "done")
    /\ UNCHANGED <<mainVars, taskCollection, obj, parameters, step, threadId,
                   taskResult, logVars>>

-----------------------------------------------------------------------------
(* The garbage collector *)

\* Strong references to the peer: the collection, main's local variable until
\* Run has returned, and the local reference of an upcall.
Reachable(t) ==
    \/ t \in taskCollection
    \/ main \in {"register", "run"} /\ index = t
    \/ worker[t] \in InUpcall

\* finalize() calls delete(), which deletes the native object.
Finalize(t) ==
    /\ vm = "running" /\ obj[t] = "live" /\ ~Reachable(t)
    /\ obj' = [obj EXCEPT ![t] = "collected"]
    /\ UNCHANGED <<vm, mainVars, taskCollection, parameters, worker, step, threadId,
                   taskResult, logVars>>

-----------------------------------------------------------------------------
MainStep == NewTask \/ SkipTask \/ Register \/ Run \/ StartPolling \/ Poll

WorkerStep(t) ==
    \/ CallOnStarted(t) \/ OnStarted(t)
    \/ StepsDone(t) \/ FailStep(t) \/ CallOnProgress(t) \/ OnProgress(t)
    \/ CallOnFinished(t) \/ OnFinished(t) \/ OnFinishedRemove(t)
    \/ OnFinishedReturn(t) \/ Detach(t)

Ended == vm # "running" /\ UNCHANGED vars

Next ==
    \/ MainStep
    \/ \E t \in Tasks : WorkerStep(t) \/ Finalize(t)
    \/ Ended

Spec == Init /\ [][Next]_vars

\* The operating system runs every thread; the collector may never run.
FairSpec ==
    /\ Spec
    /\ WF_vars(MainStep)
    /\ \A t \in Tasks : WF_vars(WorkerStep(t))

-----------------------------------------------------------------------------
(* Properties *)

\* The thread will still dereference its director in an upcall to come, or is
\* in one.
Active(t) == worker[t] \notin {"none", "detach", "done"}

\* task_java_wrap.cxx:697-790 reaches the peer through a weak reference only:
\* what keeps it (and the native object under the thread's `this`) alive until
\* OnFinished has returned is that Register comes before Run and that the
\* removal from the collection happens inside the last upcall.
UpcallsFindPeer == \A t \in Tasks : Active(t) => obj[t] = "live"

\* The steps at which a task with t's parameters does not go on.
Stops(t) ==
    {s \in 0 .. (sleepCount[t] - 1) :
        s = failedStep[t] \/ (JavaType # "Simple" /\ s = javaStep[t])}

\* Reference definition of the step at which the loop of Task::Run ends.
EndsAt(t, e) ==
    /\ e \in Stops(t) \cup {sleepCount[t]}
    /\ \A s \in Stops(t) : e <= s

\* Reference definition of the result Task::Run reports.
ExpectedResult(t) ==
    IF Stops(t) = {} THEN "Succeeded"
    ELSE IF JavaType = "JavaCancel" THEN "Canceled" ELSE "Failed"

\* Whatever way Task::Run leaves its loop (task.cpp:57-105), the result it
\* reports is the one its parameters call for, after exactly the steps they
\* allow: a failing step past sleepCount does not fail the task, a step that
\* cancels or throws is the last.
ResultAsConfigured ==
    \A t \in Tasks : taskResult[t] # "none" =>
        /\ taskResult[t] = ExpectedResult(t)
        /\ EndsAt(t, step[t])

\* The log file of t is t's log: its start line, one line per step done and its
\* result line.
WholeLog(t) ==
    LET text == file[TaskId(t)] IN
      /\ \A i \in 1 .. Len(text) : text[i] = t
      /\ EndsAt(t, Len(text) - 2)

\* Another thread whose id hashes to the same int.
Collides(t) ==
    \E u \in Tasks : /\ threadId[u] \in ThreadIds /\ TaskId(u) = TaskId(t)
                     /\ threadId[u] # threadId[t]

\* SwigMain.Run returns when the collection is empty, and the process with it,
\* while threads still run.  TaskSimple.OnFinished closes the log before it
\* leaves the collection: at exit task_log_<id>.txt is the whole log of the task
\* it is named for, unless a later thread got the same id and its collector
\* emptied the file (MessageCollector.java:18), or the ids of two threads hash
\* to the same int (task.cpp:42).
LogsCompleteAtExit ==
    vm = "exited" =>
        \A t \in Tasks : obj[t] # "unborn" =>
            \/ WholeLog(t)
            \/ opener[TaskId(t)] \in Tasks \ {t}
            \/ Collides(t)

\* Lines of two tasks are in one log file only if their threads have different
\* ids that hash to one int (task.cpp:42).  A thread that got the id of a
\* finished one shares its file's name (TaskSimple.java:48) but not its lines:
\* the earlier log is closed before the id is free, and emptied by the new one.
LogsNotMixed ==
    \A n \in TaskIds : \A i, j \in 1 .. Len(file[n]) :
        file[n][i] # file[n][j] => threadId[file[n][i]] # threadId[file[n][j]]

\* The only read of a deleted native object is the one of ~JNIEnvWrapper after
\* the last upcall, and only std::terminate after a log that could not be
\* opened ends the process before main does.
EndsOnlyFor ==
    /\ vm = "crashed" => \E t \in Tasks : worker[t] = "done" /\ obj[t] = "collected"
    /\ vm = "aborted" => \E t \in Tasks : collector[t] = "broken"

\* The state is well formed, and the process ends early for no other reason than
\* these two (task_java_wrap.cxx:405, MessageCollector.java:28).
Consistent == TypeOK /\ EndsOnlyFor

\* The poll of SwigMain.Run ends: every registered task leaves the collection
\* whatever its result.
MainReturns == <>(vm # "running")

=============================================================================
