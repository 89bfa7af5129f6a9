--------------------------- MODULE CommandDispatch ----------------------------
(***************************************************************************)
(* The asio command server of boost_cloud.  Main posts SendCommands to a   *)
(* strand for as long as the CommandGenerator has commands; each posted    *)
(* lambda walks over m_taskPull and gives the next command to every        *)
(* ServerTask that is not busy.  A ServerTask writes the command, reads    *)
(* the client's answer and records the pair in the ResultCollection.  When *)
(* the generator is empty main dumps the collection, stops the server and  *)
(* joins the threads of the io_service.                                    *)
(*                                                                         *)
(* A command stands for itself and for its answer: n is the n-th command   *)
(* the generator makes and also the text CountImpl::Run returns for it.    *)
(***************************************************************************)
EXTENDS Integers, Sequences, FiniteSets, SequencesExt

CONSTANTS
    Tasks, Unblock, \* the clients' connections, numbered in the order they are
                    \* made, and the one Server::Stop makes
    M,              \* m_iteration at the start (4000)
    IoThreads,      \* countServiceThreads (5)
    MaxPosted       \* bound of the model on posted lambdas; the code has none

ASSUME CommandDispatchAssumption ==
    /\ IsFiniteSet(Tasks) /\ Tasks \subseteq Nat /\ Unblock \notin Tasks
    /\ M \in Nat \ {0} /\ IoThreads \in Nat \ {0} /\ MaxPosted \in Nat \ {0}

Commands == 1 .. M

VARIABLES
    main,       \* position of ServerMainTest
    iteration,  \* CommandGenerator::m_iteration
    posted,     \* lambdas posted to the strand that have not begun
    visit,      \* position of the running lambda in m_taskPull; 0: none runs.
                \* It holds m_pullLocker from 1 on.
    pull,       \* m_taskPull
    busy,       \* ServerTask::m_isBusy
    writes, reads,      \* pending async_write_some and async_read_some, oldest
                        \* first, each named by the request of its Result
    toClient, toServer, \* what is in the socket, per direction
    adding,     \* HandleRead handlers between m_isBusy = false and AddResult
    results,    \* m_collection
    lost,       \* requests of the Results that a handler dropped on an error
    reported, dumped,   \* Dump has run, and what it wrote
    accept, backlog,    \* the acceptor and the connections it will be given
    stopLoop, work, ioStopped,  \* m_stopLoop, m_serviceHolder, run() returned
    client      \* a client process

outputVars == <<results, lost, reported, dumped>>
serverVars == <<iteration, posted, visit, pull>>
taskVars == <<busy, writes, reads, adding>>
ioVars == <<accept, backlog, stopLoop, work, ioStopped>>
vars == <<main, serverVars, taskVars, toClient, toServer, outputVars, ioVars, client>>

Result == [task : Tasks, request : Commands, response : Commands]

TypeOK ==
    /\ main \in {"loop", "pause", "join", "returned"}
    /\ iteration \in 0 .. M /\ posted \in 0 .. MaxPosted
    /\ pull \in Seq(Tasks) /\ visit \in 0 .. (Len(pull) + 1)
    /\ busy \in [Tasks -> BOOLEAN]
    /\ {writes, reads, toClient, toServer} \subseteq [Tasks -> Seq(Commands)]
    /\ adding \subseteq Result /\ results \subseteq Result
    /\ lost \subseteq Commands /\ dumped \subseteq Result
    /\ accept \in {"none", "armed", "over"} /\ backlog \in Seq(Tasks \cup {Unblock})
    /\ {reported, stopLoop, work, ioStopped} \subseteq BOOLEAN
    /\ client \in [Tasks -> {"unborn", "reading", "ended"}]

NoMessage == [t \in Tasks |-> <<>>]

Init ==
    /\ main = "loop" /\ iteration = M /\ posted = 0
    /\ visit = 0 /\ pull = <<>>
    /\ busy = [t \in Tasks |-> FALSE]
    /\ writes = NoMessage /\ reads = NoMessage
    /\ toClient = NoMessage /\ toServer = NoMessage
    /\ adding = {} /\ results = {} /\ lost = {}
    /\ reported = FALSE /\ dumped = {}
    /\ accept = "none" /\ backlog = <<>>
    /\ stopLoop = FALSE /\ work = TRUE /\ ioStopped = FALSE
    /\ client = [t \in Tasks |-> "unborn"]

-----------------------------------------------------------------------------
(* CommandGenerator *)

HasCommands == iteration > 0

\* NextCommand, which also takes one off m_iteration.
NextCommand == M - iteration + 1

\* FromStream: the text in the client's buffer is read up to the end of its
\* first command, whatever follows.
FromStream(received) == Head(received)

-----------------------------------------------------------------------------
(* ServerMainTest *)

\* while (HasCommands()) SendCommands.
Post ==
    /\ main = "loop" /\ HasCommands /\ posted < MaxPosted
    /\ posted' = posted + 1
    /\ UNCHANGED <<main, iteration, visit, pull, taskVars, toClient, toServer,
                   outputVars, ioVars, client>>

\* The generator is empty: Dump, then system("pause").
Dump ==
    /\ main = "loop" /\ ~HasCommands
    /\ reported' = TRUE /\ dumped' = results
    /\ main' = "pause"
    /\ UNCHANGED <<serverVars, taskVars, toClient, toServer, results, lost, ioVars, client>>

StopWith(queue) ==
    /\ main = "pause"
    /\ stopLoop' = TRUE /\ work' = FALSE
    /\ backlog' = queue
    /\ main' = "join"
    /\ UNCHANGED <<serverVars, taskVars, toClient, toServer, outputVars, accept,
                   ioStopped, client>>

StopUnheard == StopWith(backlog)

\* A key is pressed: Server::Stop.  Connecting to its own acceptor wakes it.
Stop == StopWith(Append(backlog, Unblock))

\* All threads joined; ~Server closes the acceptor and the sockets.
Join ==
    /\ main = "join" /\ ioStopped
    /\ main' = "returned"
    /\ UNCHANGED <<serverVars, taskVars, toClient, toServer, outputVars, ioVars, client>>

-----------------------------------------------------------------------------
(* Server *)

IoRuns == main # "returned" /\ ~ioStopped

\* Threads of the pool that are inside a handler.
Running == Cardinality(adding) + (IF visit = 0 THEN 0 ELSE 1)
IoThreadFree == IoRuns /\ Running < IoThreads

\* The thread that calls Server::Run arms the acceptor and ends.  Main cannot
\* be in Stop before, since nobody has taken a command.
Run ==
    /\ IoRuns /\ accept = "none"
    /\ accept' = "armed"
    /\ UNCHANGED <<main, serverVars, taskVars, toClient, toServer, outputVars,
                   backlog, stopLoop, work, ioStopped, client>>

\* HandleAccept: after Stop it drops the connection and listens no more; else
\* the task joins the pull, under m_pullLocker, and the acceptor is armed again.
HandleAccept ==
    /\ IoThreadFree /\ accept = "armed" /\ backlog # <<>>
    /\ backlog' = Tail(backlog)
    /\ IF stopLoop
       THEN accept' = "over" /\ UNCHANGED pull
       ELSE visit = 0 /\ pull' = Append(pull, Head(backlog)) /\ UNCHANGED accept
    /\ UNCHANGED <<main, iteration, posted, visit, taskVars, toClient, toServer,
                   outputVars, stopLoop, work, ioStopped, client>>

\* HandleAccept with an error (no descriptor left) returns and does not arm the
\* acceptor again; the connection stays in the backlog.
HandleAcceptError ==
    /\ IoThreadFree /\ accept = "armed" /\ backlog # <<>>
    /\ accept' = "over"
    /\ UNCHANGED <<main, serverVars, taskVars, toClient, toServer, outputVars,
                   backlog, stopLoop, work, ioStopped, client>>

\* The strand begins a lambda of SendCommands, which locks m_pullLocker.
BeginVisit ==
    /\ IoThreadFree /\ visit = 0 /\ posted > 0
    /\ posted' = posted - 1
    /\ visit' = 1
    /\ UNCHANGED <<main, iteration, pull, taskVars, toClient, toServer, outputVars,
                   ioVars, client>>

\* ServerTask::SendCommad: mark the task busy and write the command.
SendCommad(t, command) ==
    /\ busy' = [busy EXCEPT ![t] = TRUE]
    /\ writes' = [writes EXCEPT ![t] = Append(@, command)]

\* The task at visit takes the next command, or the generator is left as it says.
VisitWhen(takes, left) ==
    /\ visit \in 1 .. Len(pull)
    /\ visit' = visit + 1
    /\ IF takes
       THEN iteration' = iteration - 1 /\ SendCommad(pull[visit], NextCommand)
       ELSE iteration' = left /\ UNCHANGED <<busy, writes>>
    /\ UNCHANGED <<main, posted, pull, reads, adding, toClient, toServer,
                   outputVars, ioVars, client>>

VisitTaskTakeFirst ==
    VisitWhen(~busy[pull[visit]] /\ HasCommands, IF HasCommands THEN iteration - 1 ELSE 0)

\* One element of the for_each: an idle task is sent the next command, if any.
VisitTask == VisitWhen(~busy[pull[visit]] /\ HasCommands, iteration)

EndVisit ==
    /\ visit = Len(pull) + 1
    /\ visit' = 0
    /\ UNCHANGED <<main, iteration, posted, pull, taskVars, toClient, toServer,
                   outputVars, ioVars, client>>

\* io_service::run returns in every thread once nothing is left to wait for.
IoStop ==
    /\ IoRuns /\ ~work /\ accept # "armed"
    /\ posted = 0 /\ visit = 0 /\ adding = {}
    /\ \A t \in Tasks : writes[t] = <<>> /\ reads[t] = <<>>
    /\ ioStopped' = TRUE
    /\ UNCHANGED <<main, serverVars, taskVars, toClient, toServer, outputVars,
                   accept, backlog, stopLoop, work, client>>

-----------------------------------------------------------------------------
(* ServerTask; any thread of the pool runs its handlers *)

TaskStep ==
    /\ IoThreadFree
    /\ UNCHANGED <<main, serverVars, results, reported, dumped, ioVars, client>>

Written(t, isBusy) ==
    /\ TaskStep /\ writes[t] # <<>>
    /\ writes' = [writes EXCEPT ![t] = Tail(@)]
    /\ toClient' = [toClient EXCEPT ![t] = Append(@, Head(writes[t]))]
    /\ reads' = [reads EXCEPT ![t] = Append(@, Head(writes[t]))]
    /\ busy' = [busy EXCEPT ![t] = isBusy]
    /\ UNCHANGED <<adding, toServer, lost>>

HandleWriteIdle(t) == Written(t, FALSE)

\* The bytes are in the socket (of a dead client, too): wait for the answer.
HandleWrite(t) == Written(t, busy[t])

NotWritten(t, isBusy) ==
    /\ TaskStep /\ writes[t] # <<>> /\ client[t] = "ended"
    /\ writes' = [writes EXCEPT ![t] = Tail(@)]
    /\ lost' = lost \cup {Head(writes[t])}
    /\ busy' = [busy EXCEPT ![t] = isBusy]
    /\ UNCHANGED <<reads, adding, toClient, toServer>>

HandleWriteErrorStaysBusy(t) == NotWritten(t, busy[t])

\* The task is free for the next command; this one has no Result any more.
HandleWriteError(t) == NotWritten(t, FALSE)

\* The answer is given to the oldest pending read.  From here on the strand
\* may give the task its next command, while this handler still runs.
HandleRead(t) ==
    /\ TaskStep /\ reads[t] # <<>> /\ toServer[t] # <<>>
    /\ reads' = [reads EXCEPT ![t] = Tail(@)]
    /\ toServer' = [toServer EXCEPT ![t] = Tail(@)]
    /\ busy' = [busy EXCEPT ![t] = FALSE]
    /\ adding' = adding \cup {[task |-> t, request |-> Head(reads[t]),
                               response |-> Head(toServer[t])]}
    /\ UNCHANGED <<writes, toClient, lost>>

HandleReadErrorGoesOn(t) ==
    /\ TaskStep /\ reads[t] # <<>> /\ client[t] = "ended"
    /\ reads' = [reads EXCEPT ![t] = Tail(@)]
    /\ busy' = [busy EXCEPT ![t] = FALSE]
    /\ lost' = lost \cup {Head(reads[t])}
    /\ adding' = adding \cup {[task |-> t, request |-> Head(reads[t]),
                               response |-> Head(reads[t])]}
    /\ toServer' = [toServer EXCEPT ![t] = <<>>]
    /\ UNCHANGED <<writes, toClient>>

\* The connection ended; a reset also discards an answer nobody has read.
HandleReadError(t) ==
    /\ TaskStep /\ reads[t] # <<>> /\ client[t] = "ended"
    /\ reads' = [reads EXCEPT ![t] = Tail(@)]
    /\ busy' = [busy EXCEPT ![t] = FALSE]
    /\ lost' = lost \cup {Head(reads[t])}
    /\ toServer' = [toServer EXCEPT ![t] = <<>>]
    /\ UNCHANGED <<writes, adding, toClient>>

\* ResultCollection::AddResult, the end of HandleRead.
AddResult(r) ==
    /\ r \in adding
    /\ adding' = adding \ {r}
    /\ results' = results \cup {r}
    /\ UNCHANGED <<main, serverVars, busy, writes, reads, toClient, toServer, lost,
                   reported, dumped, ioVars, client>>

-----------------------------------------------------------------------------
(* ClientMainTest *)

ClientStep(t) ==
    UNCHANGED <<main, serverVars, taskVars, outputVars, accept, stopLoop, work, ioStopped>>

Connect(t) ==
    /\ ClientStep(t) /\ client[t] = "unborn" /\ main # "returned"
    /\ \A u \in Tasks : u < t => client[u] # "unborn"
    /\ client' = [client EXCEPT ![t] = "reading"]
    /\ backlog' = Append(backlog, t)
    /\ UNCHANGED <<toClient, toServer>>

\* HandleRead: CountImpl::Run answers the command that was read.  HandleWrite
\* then reads again.
ClientHandleRead(t) ==
    /\ ClientStep(t) /\ client[t] = "reading" /\ toClient[t] # <<>>
    /\ toServer' = [toServer EXCEPT ![t] = Append(@, FromStream(toClient[t]))]
    /\ toClient' = [toClient EXCEPT ![t] = <<>>]
    /\ UNCHANGED <<backlog, client>>

\* The server's end is closed: both handlers return, and with nothing left to
\* do the client ends.
ClientEnds(t) ==
    /\ ClientStep(t) /\ client[t] = "reading" /\ toClient[t] = <<>>
    /\ main = "returned" \/ (t \notin Range(pull) /\ t \notin Range(backlog))
    /\ client' = [client EXCEPT ![t] = "ended"]
    /\ UNCHANGED <<toClient, toServer, backlog>>

\* The process is killed; the kernel closes its socket.
ClientDies(t) ==
    /\ ClientStep(t) /\ client[t] = "reading"
    /\ client' = [client EXCEPT ![t] = "ended"]
    /\ UNCHANGED <<toClient, toServer, backlog>>

-----------------------------------------------------------------------------
Strand == BeginVisit \/ VisitTask \/ EndVisit

TaskHandlers(t) ==
    \/ HandleWrite(t) \/ HandleWriteError(t)
    \/ HandleRead(t) \/ HandleReadError(t)

Ended ==
    /\ main = "returned" /\ \A t \in Tasks : client[t] # "reading"
    /\ UNCHANGED vars

\* The loop of main goes round while the queue of the model is full, or while
\* nobody has connected.
Next ==
    \/ Post \/ Dump \/ Stop \/ Join
    \/ Run \/ HandleAccept \/ HandleAcceptError \/ Strand \/ IoStop
    \/ \E t \in Tasks :
         TaskHandlers(t) \/ Connect(t) \/ ClientHandleRead(t) \/ ClientEnds(t) \/ ClientDies(t)
    \/ \E r \in adding : AddResult(r)
    \/ Ended

Spec == Init /\ [][Next]_vars

\* Threads are scheduled, the kernel delivers and a client answers; a client
\* need not connect, need not die, and nobody need press a key.  IoStop is what
\* Join waits for, so main's steps and IoStop are never enabled together.
FairSpec ==
    /\ Spec
    /\ WF_vars(Post \/ Dump \/ IoStop \/ Join)
    /\ WF_vars(HandleAccept) /\ WF_vars(Strand)
    /\ \A t \in Tasks : WF_vars(TaskHandlers(t)) /\ WF_vars(ClientHandleRead(t))
    /\ WF_vars(\E r \in adding : AddResult(r))

-----------------------------------------------------------------------------
(* Properties *)

\* m_isBusy is a plain bool that one thread sets and another clears, yet it
\* says exactly whether the task has an operation pending: so async_write_some
\* is never called twice on one socket, and a client never has two commands in
\* its buffer (server_task.hpp:51-124).
BusyMeansOnePending ==
    \A t \in Tasks :
        Len(writes[t]) + Len(reads[t]) = IF busy[t] THEN 1 ELSE 0

\* The Result recorded for a request holds that request's answer, even when a
\* thread is late to record it and the task has begun its next command.
ResponsesMatch == \A r \in adding \cup results : r.response = r.request

\* Dump does not wait for answers.  What it may miss is one command for every
\* task, one for every other thread that is between m_isBusy = false and
\* AddResult, and what broken connections swallowed.
DumpMissesFew ==
    reported => M - Cardinality(dumped) <= Len(pull) + IoThreads + Cardinality(lost)

\* The state is well formed, the busy flags say what is pending and answers are
\* paired with their requests (server_task.hpp:51-124).
Consistent == TypeOK /\ BusyMeansOnePending /\ ResponsesMatch

\* The server keeps the promise of CommandLedger.
Ledger == INSTANCE CommandLedger WITH
    Capacity <- Cardinality(Tasks) + IoThreads,
    left <- iteration,
    flying <- (UNION {Range(writes[t]) \cup Range(reads[t]) : t \in Tasks})
              \cup {r.request : r \in adding},
    answered <- {r.request : r \in results},
    dumped <- {r.request : r \in dumped}

LedgerKept == Ledger!Spec

\* A server that has accepted somebody gets rid of all commands and writes its
\* report, even if every client dies: an error frees the task as an answer does.
ReportIsWritten == (pull # <<>>) ~> reported

\* After Stop the threads run out of work and ServerMainTest returns.
StopEnds == stopLoop ~> (main = "returned")
=============================================================================
