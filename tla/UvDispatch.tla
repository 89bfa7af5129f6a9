------------------------------ MODULE UvDispatch ------------------------------
(***************************************************************************)
(* The libuv command server of boost_cloud.  One work item at a time is    *)
(* queued: a thread of libuv's pool walks over m_taskPull and gives the    *)
(* next command to every ServerTask without a current one (SendCommands);  *)
(* back on the loop thread the item is queued again, or the results are    *)
(* dumped.  Accepting, reading and the end of a write are callbacks of the *)
(* loop thread, so they do not interrupt one another; the pool's thread    *)
(* runs beside them.                                                       *)
(*                                                                         *)
(* Of an answer's text the model keeps the command it answers and its      *)
(* length: the receive buffer of a task is reused and never cleared, so a  *)
(* shorter answer is read together with what is left of a longer one.      *)
(***************************************************************************)
EXTENDS Integers, Sequences, FiniteSets, SequencesExt

CONSTANTS
    Tasks,          \* the clients' connections
    M,              \* m_iteration at the start (4000)
    AnswerLength    \* length of the text CountImpl::Run returns for a command

ASSUME UvDispatchAssumption ==
    /\ IsFiniteSet(Tasks)
    /\ M \in Nat \ {0}
    /\ AnswerLength \in [1 .. M -> Nat \ {0}]

Commands == 1 .. M
None == 0           \* the null m_currentCommandResult

VARIABLES
    server,     \* the process: running, exited (SIGINT), crashed (null read)
    iteration,  \* CommandGenerator::m_iteration
    work,       \* the work item: queued, running, after, none
    visit,      \* position of SendCommands in m_taskPull; 0: not in it.
                \* It holds m_pullLocker from 1 on.
    filling,    \* SendCommad has made the Result and not yet filled it in
    pull,       \* m_taskPull
    current,    \* m_currentCommandResult, named by its command
    handle,     \* m_transport: "open" or "closed"
    reading,    \* uv_read_start was called
    writing,    \* HandleWrite is to be called
    extent,     \* length of the text in m_bufferRecv
    toClient, toServer, \* what is in the socket, per direction
    results, lost,      \* m_collection; commands whose Result was dropped
    reported, dumped,   \* Dump has run, and what it wrote
    backlog, client     \* connections to accept; client processes

workVars == <<iteration, work, visit, filling>>
taskVars == <<current, handle, reading, writing, extent>>
sockets == <<toClient, toServer>>
outputVars == <<results, lost, reported, dumped>>
vars == <<server, workVars, pull, taskVars, sockets, outputVars, backlog, client>>

Result == [task : Tasks, request : Commands, answers : Commands, exact : BOOLEAN]

TypeOK ==
    /\ server \in {"running", "exited", "crashed"}
    /\ iteration \in 0 .. M
    /\ work \in {"queued", "running", "after", "none"}
    /\ pull \in Seq(Tasks) /\ visit \in 0 .. (Len(pull) + 1)
    /\ current \in [Tasks -> Commands \cup {None}]
    /\ handle \in [Tasks -> {"open", "closed"}]
    /\ {reading, writing} \subseteq [Tasks -> BOOLEAN]
    /\ extent \in [Tasks -> Nat]
    /\ {toClient, toServer} \subseteq [Tasks -> Seq(Commands)]
    /\ results \subseteq Result /\ dumped \subseteq Result /\ lost \subseteq Commands
    /\ {reported, filling} \subseteq BOOLEAN
    /\ backlog \in Seq(Tasks)
    /\ client \in [Tasks -> {"unborn", "reading", "ended"}]

Init ==
    /\ server = "running"
    /\ iteration = M /\ work = "queued" /\ visit = 0 /\ filling = FALSE
    /\ pull = <<>>
    /\ current = [t \in Tasks |-> None]
    /\ handle = [t \in Tasks |-> "open"]
    /\ reading = [t \in Tasks |-> FALSE] /\ writing = [t \in Tasks |-> FALSE]
    /\ extent = [t \in Tasks |-> 0]
    /\ toClient = [t \in Tasks |-> <<>>] /\ toServer = [t \in Tasks |-> <<>>]
    /\ results = {} /\ lost = {}
    /\ reported = FALSE /\ dumped = {}
    /\ backlog = <<>> /\ client = [t \in Tasks |-> "unborn"]

HasCommands == iteration > 0
NextCommand == M - iteration + 1

-----------------------------------------------------------------------------
(* The thread of the pool: SomeWorkHandleStat and Server::SendCommands *)

\* HasCommands holds whenever the item was queued; SendCommands takes the lock.
SomeWork ==
    /\ server = "running" /\ work = "queued" /\ HasCommands
    /\ work' = "running" /\ visit' = 1
    /\ UNCHANGED <<server, iteration, filling, pull, taskVars, sockets, outputVars,
                   backlog, client>>

\* The task at visit takes the next command, or the walk goes on and leaves the
\* generator as it says.
VisitWhen(takes) ==
    /\ server = "running" /\ ~filling /\ visit \in 1 .. Len(pull)
    /\ IF takes
       THEN /\ iteration' = iteration - 1
            /\ current' = [current EXCEPT ![pull[visit]] = NextCommand]
            /\ filling' = TRUE
            /\ UNCHANGED visit
       ELSE visit' = visit + 1 /\ UNCHANGED <<iteration, current, filling>>
    /\ UNCHANGED <<server, work, pull, handle, reading, writing, extent, sockets,
                   outputVars, backlog, client>>

IsBusy == current[pull[visit]] # None

VisitAnyTask == VisitWhen(HasCommands)

\* An element of the for_each: a task that is not busy takes the next command,
\* if there is one, and SendCommad makes its Result, ...
VisitTask == VisitWhen(~IsBusy /\ HasCommands)

\* ... fills it in and writes the command.  The loop thread may have dropped
\* the Result in between: then this is a read of a null pointer.  uv_write
\* refuses a closed handle, without a callback, and its answer is not looked at.
SendCommad ==
    /\ server = "running" /\ filling
    /\ LET t == pull[visit] IN
       IF current[t] = None
       THEN /\ server' = "crashed"
            /\ UNCHANGED <<visit, filling, writing, toClient>>
       ELSE /\ visit' = visit + 1 /\ filling' = FALSE
            /\ IF handle[t] = "open"
               THEN /\ writing' = [writing EXCEPT ![t] = TRUE]
                    /\ toClient' = [toClient EXCEPT ![t] = Append(@, current[t])]
               ELSE UNCHANGED <<writing, toClient>>
            /\ UNCHANGED server
    /\ UNCHANGED <<iteration, work, pull, current, handle, reading, extent, toServer,
                   outputVars, backlog, client>>

\* The lock is released and the item is done.
EndWork ==
    /\ server = "running" /\ ~filling /\ visit = Len(pull) + 1
    /\ visit' = 0 /\ work' = "after"
    /\ UNCHANGED <<server, iteration, filling, pull, taskVars, sockets, outputVars,
                   backlog, client>>

-----------------------------------------------------------------------------
(* The loop thread *)

\* AfterSomeWorkHandleStat.
AfterSomeWork ==
    /\ server = "running" /\ work = "after"
    /\ IF HasCommands
       THEN /\ work' = "queued" /\ UNCHANGED <<reported, dumped>>
       ELSE /\ work' = "none" /\ reported' = TRUE /\ dumped' = results
    /\ UNCHANGED <<server, iteration, visit, filling, pull, taskVars, sockets, results,
                   lost, backlog, client>>

\* HandleNewConnection waits for the lock.  With a status below 0 it returns and
\* changes nothing; libuv goes on listening.
HandleNewConnection ==
    /\ server = "running" /\ visit = 0 /\ backlog # <<>>
    /\ backlog' = Tail(backlog)
    /\ pull' = Append(pull, Head(backlog))
    /\ UNCHANGED <<server, workVars, taskVars, sockets, outputVars, client>>

\* A callback of task t's connection.
Callback(t) ==
    /\ server = "running"
    /\ UNCHANGED <<workVars, pull, reported, dumped, toClient, backlog, client>>

HandleWriteFrees(t) ==
    /\ Callback(t) /\ writing[t]
    /\ writing' = [writing EXCEPT ![t] = FALSE]
    /\ reading' = [reading EXCEPT ![t] = @ \/ handle[t] = "open"]
    /\ current' = [current EXCEPT ![t] = None]
    /\ UNCHANGED <<server, handle, extent, toServer, results, lost>>

\* Whatever the status: read, and go on reading after the first answer.
HandleWrite(t) ==
    /\ Callback(t) /\ writing[t]
    /\ writing' = [writing EXCEPT ![t] = FALSE]
    /\ reading' = [reading EXCEPT ![t] = @ \/ handle[t] = "open"]
    /\ UNCHANGED <<server, current, handle, extent, toServer, results, lost>>

\* The text HandleRead finds in m_bufferRecv, where HandleAllocate had it put.
Written(t, c) == IF AnswerLength[c] >= extent[t] THEN AnswerLength[c] ELSE extent[t]
Received(t, c) ==
    [task |-> t, request |-> current[t], answers |-> c, exact |-> Written(t, c) = AnswerLength[c]]

HandleReadThen(t, result) ==
    /\ Callback(t)
    /\ reading[t] /\ handle[t] = "open" /\ ~writing[t] /\ toServer[t] # <<>>
    /\ toServer' = [toServer EXCEPT ![t] = Tail(@)]
    /\ extent' = [extent EXCEPT ![t] = Written(t, Head(toServer[t]))]
    /\ IF current[t] = None
       THEN server' = "crashed" /\ UNCHANGED results
       ELSE results' = results \cup {Received(t, Head(toServer[t]))} /\ UNCHANGED server
    /\ current' = [current EXCEPT ![t] = result]
    /\ UNCHANGED <<handle, reading, writing, lost>>

HandleReadKeeps(t) == HandleReadThen(t, current[t])

\* HandleRead with an answer.  The write it answers is over: server.hpp:52 builds
\* with MSVC only, and on Windows libuv runs the requests of a handle in the
\* order they complete in.  Without a Result it reads a null pointer.
HandleRead(t) == HandleReadThen(t, None)

\* HandleRead with an error: the handle is closed and the Result, if there is
\* one, dropped, but the task stays in the pull.
HandleReadError(t) ==
    /\ Callback(t)
    /\ reading[t] /\ handle[t] = "open" /\ client[t] = "ended"
    /\ handle' = [handle EXCEPT ![t] = "closed"]
    /\ lost' = lost \cup ({current[t]} \ {None})
    /\ current' = [current EXCEPT ![t] = None]
    /\ toServer' = [toServer EXCEPT ![t] = <<>>]
    /\ UNCHANGED <<server, reading, writing, extent, results>>

\* SignalInterruptedHandle: exit(0).  uv_run does not return otherwise, since
\* the listening handle is never closed, so Server::Stop is not reached.
Interrupt ==
    /\ server = "running"
    /\ server' = "exited"
    /\ UNCHANGED <<workVars, pull, taskVars, sockets, outputVars, backlog, client>>

-----------------------------------------------------------------------------
(* The client: ClientMainTest and ClientTask, one loop thread *)

ClientStep(t) ==
    UNCHANGED <<server, workVars, pull, taskVars, outputVars>>

Connect(t) ==
    /\ ClientStep(t) /\ client[t] = "unborn" /\ server = "running"
    /\ client' = [client EXCEPT ![t] = "reading"]
    /\ backlog' = Append(backlog, t)
    /\ UNCHANGED sockets

\* HandleRead stops reading and answers the first command in the buffer;
\* HandleWrite reads again.
ClientHandleRead(t) ==
    /\ ClientStep(t) /\ client[t] = "reading" /\ toClient[t] # <<>>
    /\ toServer' = [toServer EXCEPT ![t] = Append(@, Head(toClient[t]))]
    /\ toClient' = [toClient EXCEPT ![t] = <<>>]
    /\ UNCHANGED <<backlog, client>>

\* A read error closes the socket, and the client's loop ends.
ClientReadError(t) ==
    /\ ClientStep(t) /\ client[t] = "reading" /\ server # "running"
    /\ client' = [client EXCEPT ![t] = "ended"]
    /\ UNCHANGED <<sockets, backlog>>

\* The process is killed; the kernel closes its socket.
ClientDies(t) ==
    /\ ClientStep(t) /\ client[t] = "reading" /\ server = "running"
    /\ client' = [client EXCEPT ![t] = "ended"]
    /\ UNCHANGED <<sockets, backlog>>

-----------------------------------------------------------------------------
Pool == SomeWork \/ VisitTask \/ SendCommad \/ EndWork

Callbacks(t) == HandleWrite(t) \/ HandleRead(t) \/ HandleReadError(t)

Ended ==
    /\ server # "running" /\ \A t \in Tasks : client[t] # "reading"
    /\ UNCHANGED vars

Next ==
    \/ Pool \/ AfterSomeWork \/ HandleNewConnection \/ Interrupt
    \/ \E t \in Tasks :
         \/ Callbacks(t)
         \/ Connect(t) \/ ClientHandleRead(t) \/ ClientReadError(t) \/ ClientDies(t)
    \/ Ended

Spec == Init /\ [][Next]_vars

\* Threads are scheduled, the loop serves every callback and a client answers;
\* nobody need connect, die or press Ctrl-C.
FairSpec ==
    /\ Spec
    /\ WF_vars(Pool) /\ WF_vars(AfterSomeWork) /\ SF_vars(HandleNewConnection)
    /\ \A t \in Tasks : WF_vars(Callbacks(t)) /\ WF_vars(ClientHandleRead(t))

-----------------------------------------------------------------------------
(* Properties *)

\* The answer that is next to be read belongs to the Result that waits, although
\* IsBusy and SendCommad run beside HandleRead without a lock; and a living
\* client has one command before it, the current one (server_task.hpp:73-97).
WireIsCurrent ==
    \A t \in Tasks :
        /\ toServer[t] \in {<<>>, <<current[t]>>}
        /\ client[t] # "ended" => toClient[t] \o toServer[t] \in {<<>>, <<current[t]>>}

\* A task has one m_bufferSend and one uv_write_t.  When SendCommad fills them no
\* write of the task is outstanding (server_task.hpp:86-96), but on a handle that
\* a read error closed before HandleWrite was called: there m_bufferSend is
\* written under the old request, and uv_write refuses before it takes it again.
WriteRequestFree ==
    \A t \in Tasks : filling /\ t = pull[visit] /\ writing[t] => handle[t] = "closed"

\* The Result that is recorded holds an answer to its own request.
AnswersBelong == \A r \in results : r.answers = r.request

\* Dump misses at most the command each task is at, and what broken connections
\* swallowed.
DumpMissesFew ==
    reported => M - Cardinality(dumped) <= Len(pull) + Cardinality(lost)

\* The state is well formed, answers are paired with their requests and the report
\* misses few (server_task.hpp:116-145, server_main_test.hpp:56).
Consistent == TypeOK /\ AnswersBelong /\ DumpMissesFew

\* m_currentCommandResult is set on the pool's thread and dropped on the loop's
\* without a lock.  A null one is read only in SendCommad (server_task.hpp:88),
\* of the task it is filling, whose connection a read error closed since line 81;
\* HandleRead never reads one.
CrashNeedsDeath ==
    server = "crashed" =>
        /\ filling
        /\ LET t == pull[visit] IN
           client[t] = "ended" /\ handle[t] = "closed" /\ current[t] = None

\* The server keeps the promise of CommandLedger.
Ledger == INSTANCE CommandLedger WITH
    Capacity <- Cardinality(Tasks),
    left <- iteration,
    flying <- {current[t] : t \in Tasks} \ {None},
    answered <- {r.request : r \in results},
    dumped <- {r.request : r \in dumped}

LedgerKept == Ledger!Spec

\* The report is written as long as the process lives and one of the accepted
\* clients does: a task whose client is gone takes one more command, for good,
\* and the others take the rest.
ReportIsWritten ==
    (pull # <<>>) ~> (\/ reported \/ server # "running"
                      \/ \A t \in Range(pull) : client[t] = "ended")

\* What command_impl.h:41-45 says an answer is, "Result - the chars count of
\* Row[...]", and boost_result.txt has for every row: the text that is recorded
\* is the answer and nothing else.
AnswersExact == \A r \in results : r.exact
=============================================================================
