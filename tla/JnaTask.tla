------------------------------- MODULE JnaTask -------------------------------
(***************************************************************************)
(* JnaMain.Run and RunSimple: main makes one TaskJna after the other and   *)
(* hands it to a detached native thread as a function pointer.  JNA keeps  *)
(* the Java object behind the pointer only weakly; what keeps it is the    *)
(* Vector the constructor adds it to and the last callback takes it from.  *)
(* Main polls the Vector until it is empty.                                *)
(***************************************************************************)
EXTENDS Integers

CONSTANTS
    ThreadCount, \* tasks main makes (10)
    StepsCounts  \* what rand.nextInt(4) + 5 may draw

ASSUME JnaTaskAssumption ==
    ThreadCount \in Nat \ {0} /\ StepsCounts \subseteq Nat /\ StepsCounts # {}

Threads == 1 .. ThreadCount

VARIABLES
    jnaMain,    \* loop, call (in RunSimple), poll, returned
    threadIndex,
    taskRegistrator,
    object,     \* the TaskJna of a task, with JNA's closure: none, live, collected
    thread,     \* none, native, java (in callback), back (on its way out of it), ended
    stepsCount,
    calls,      \* callbacks the thread has made
    crashed

jnaMainVars == <<jnaMain, threadIndex>>
jnaVars == <<jnaMainVars, taskRegistrator, object, thread, stepsCount, calls, crashed>>

JnaTypeOK ==
    /\ jnaMain \in {"loop", "call", "poll", "returned"}
    /\ threadIndex \in 1 .. (ThreadCount + 1)
    /\ jnaMain = "call" => threadIndex \in Threads
    /\ taskRegistrator \subseteq Threads
    /\ object \in [Threads -> {"none", "live", "collected"}]
    /\ thread \in [Threads -> {"none", "native", "java", "back", "ended"}]
    /\ stepsCount \in [Threads -> StepsCounts] /\ calls \in [Threads -> Nat]
    /\ \A t \in Threads : calls[t] <= stepsCount[t] + 2
    /\ crashed \in BOOLEAN

JnaInit ==
    /\ jnaMain = "loop" /\ threadIndex = 1 /\ taskRegistrator = {}
    /\ object = [t \in Threads |-> "none"] /\ thread = [t \in Threads |-> "none"]
    /\ stepsCount \in [Threads -> StepsCounts] /\ calls = [t \in Threads |-> 0]
    /\ crashed = FALSE

-----------------------------------------------------------------------------
(* JnaMain.Run *)

NewUnregistered ==
    /\ ~crashed /\ jnaMain = "loop" /\ threadIndex <= ThreadCount
    /\ jnaMain' = "call" /\ object' = [object EXCEPT ![threadIndex] = "live"]
    /\ UNCHANGED <<threadIndex, taskRegistrator, thread, stepsCount, calls, crashed>>

\* The constructor of TaskJna, under the lock of the Vector.
New ==
    /\ ~crashed /\ jnaMain = "loop" /\ threadIndex <= ThreadCount
    /\ jnaMain' = "call"
    /\ object' = [object EXCEPT ![threadIndex] = "live"]
    /\ taskRegistrator' = taskRegistrator \cup {threadIndex}
    /\ UNCHANGED <<threadIndex, thread, stepsCount, calls, crashed>>

\* RunSimple starts the thread, detaches it and returns.
RunSimple ==
    /\ ~crashed /\ jnaMain = "call"
    /\ thread' = [thread EXCEPT ![threadIndex] = "native"]
    /\ jnaMain' = "loop" /\ threadIndex' = threadIndex + 1
    /\ UNCHANGED <<taskRegistrator, object, stepsCount, calls, crashed>>

MadeAll ==
    /\ ~crashed /\ jnaMain = "loop" /\ threadIndex > ThreadCount /\ jnaMain' = "poll"
    /\ UNCHANGED <<threadIndex, taskRegistrator, object, thread, stepsCount, calls, crashed>>

IsEmptyWhileMaking ==
    /\ ~crashed /\ jnaMain \in {"loop", "poll"} /\ threadIndex > 1 /\ taskRegistrator = {}
    /\ jnaMain' = "returned"
    /\ UNCHANGED <<threadIndex, taskRegistrator, object, thread, stepsCount, calls, crashed>>

\* isEmpty, under the lock; otherwise main sleeps on.
IsEmpty ==
    /\ ~crashed /\ jnaMain = "poll" /\ taskRegistrator = {} /\ jnaMain' = "returned"
    /\ UNCHANGED <<threadIndex, taskRegistrator, object, thread, stepsCount, calls, crashed>>

-----------------------------------------------------------------------------
(* The native thread *)

\* Start, one call for each step, Finished.
Last(t) == calls[t] = stepsCount[t] + 1

\* A call through javaCallback enters JNA's closure: if it was freed the process may
\* crash, and if it does not nothing is called.
Call(t) ==
    /\ ~crashed /\ thread[t] = "native"
    /\ IF object[t] = "live"
       THEN thread' = [thread EXCEPT ![t] = "java"] /\ UNCHANGED crashed
       ELSE thread' = [thread EXCEPT ![t] = "back"] /\ crashed' \in BOOLEAN
    /\ UNCHANGED <<jnaMainVars, taskRegistrator, object, stepsCount, calls>>

CallbackRemovesAt(t, condition) ==
    /\ ~crashed /\ thread[t] = "java"
    /\ taskRegistrator' = IF condition THEN taskRegistrator \ {t} ELSE taskRegistrator
    /\ thread' = [thread EXCEPT ![t] = "back"]
    /\ UNCHANGED <<jnaMainVars, object, stepsCount, calls, crashed>>

CallbackNeverRemoves(t) == CallbackRemovesAt(t, FALSE)

\* TaskJna.callback.
Callback(t) == CallbackRemovesAt(t, Last(t))

ReturnOnceMore(t) ==
    /\ ~crashed /\ thread[t] = "back"
    /\ calls' = [calls EXCEPT ![t] = @ + 1]
    /\ thread' = [thread EXCEPT ![t] = IF calls[t] > stepsCount[t] + 1 THEN "ended" ELSE "native"]
    /\ crashed' \in (IF object[t] = "live" THEN {FALSE} ELSE BOOLEAN)
    /\ UNCHANGED <<jnaMainVars, taskRegistrator, object, stepsCount>>

\* The call returns through the same closure; after the last one the thread ends.
Return(t) ==
    /\ ~crashed /\ thread[t] = "back"
    /\ calls' = [calls EXCEPT ![t] = @ + 1]
    /\ thread' = [thread EXCEPT ![t] = IF Last(t) THEN "ended" ELSE "native"]
    /\ crashed' \in (IF object[t] = "live" THEN {FALSE} ELSE BOOLEAN)
    /\ UNCHANGED <<jnaMainVars, taskRegistrator, object, stepsCount>>

\* The collector takes an object that neither the Vector, nor main's call, nor
\* a running callback holds; JNA frees the closure with it.
Collect(t) ==
    /\ object[t] = "live"
    /\ t \notin taskRegistrator /\ thread[t] # "java" /\ ~(jnaMain = "call" /\ threadIndex = t)
    /\ object' = [object EXCEPT ![t] = "collected"]
    /\ UNCHANGED <<jnaMainVars, taskRegistrator, thread, stepsCount, calls, crashed>>

-----------------------------------------------------------------------------
Main == New \/ RunSimple \/ MadeAll \/ IsEmpty
Native(t) == Call(t) \/ Callback(t) \/ Return(t)

JnaNext == Main \/ \E t \in Threads : Native(t) \/ Collect(t)

JnaSpec == JnaInit /\ [][JnaNext]_jnaVars

\* Threads are scheduled; the collector need not run.
JnaFairSpec == JnaSpec /\ WF_jnaVars(Main) /\ \A t \in Threads : WF_jnaVars(Native(t))

-----------------------------------------------------------------------------
(* Properties *)

\* A native thread that has a call to make finds the closure alive
\* (callback_simple.cpp:22-37), although nothing on its side keeps it: what could
\* crash the process is the way back out of the last call, after the callback
\* took itself from the Vector (JnaMain.java:24).
NoDeadCall ==
    /\ \A t \in Threads : thread[t] = "native" => object[t] = "live"
    /\ crashed => \E t \in Threads : calls[t] = stepsCount[t] + 2

\* Main returns only after every task's Finished: an empty Vector does not mean
\* that a later task was not made yet (JnaMain.java:56-72).
RunSeesAll ==
    jnaMain = "returned" =>
        \A t \in Threads : thread[t] = "ended" \/ (thread[t] = "back" /\ Last(t))

\* Run returns, unless that way back crashed the process.
RunReturns == <>(jnaMain = "returned" \/ crashed)
=============================================================================
