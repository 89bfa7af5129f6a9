------------------------------ MODULE PipeServer ------------------------------
(***************************************************************************)
(* ServerMainTest with the local-socket Server, its ServerTasks and the    *)
(* client processes (ClientMainTest).  A ServerTask is a dialogue of fixed *)
(* length with one client; nothing owns it but the handlers that are       *)
(* pending or running for it, and when the last of them is gone it is      *)
(* destroyed, which closes its socket and releases its TaskCounter.  Main  *)
(* waits for TaskCounter to reach zero, stops the server and joins the     *)
(* threads that run the io_service.                                        *)
(***************************************************************************)
EXTENDS Integers, Sequences, FiniteSets

CONSTANTS
    Clients,    \* the client processes that main can start (of 5)
    Unblock,    \* the connection Server::Stop makes
    IoThreads,  \* threads in ioService.run (5)
    Buy         \* the last State of the dialogue (5)

ASSUME PipeServerAssumption ==
    /\ IsFiniteSet(Clients) /\ Unblock \notin Clients
    /\ IoThreads \in Nat \ {0} /\ Buy \in Nat \ {0}

Conns == Clients \cup {Unblock}

VARIABLES
    main,       \* position of ServerMainTest
    runThread,  \* the thread that calls Server::Run has done so
    work,       \* m_serviceHolder
    stopLoop,   \* m_stopLoop
    ioStopped,  \* the io_service ran out of work: run() returned
    accept,     \* the acceptor: "none", "armed" or "handling"
    backlog,    \* connections the kernel made that are not accepted yet
    conn,       \* server end of a connection: none, backlog, accepted, dropped
    task,       \* the ServerTask of a connection
    counter,    \* TaskCounter::m_counter
    client,     \* position of a client's main thread
    op,         \* the client's pending operation: none, write, read
    readyToSend, stopProcessing, \* the two flags the client's threads share
    toServer, toClient           \* what is in the socket, per direction

ioVars == <<work, stopLoop, ioStopped>>
serverVars == <<accept, backlog, conn, task, counter>>
clientVars == <<client, op, readyToSend, stopProcessing>>
sockets == <<toServer, toClient>>
vars == <<main, runThread, ioVars, serverVars, clientVars, sockets>>

NewTask ==
    [state |-> 0,          \* m_currentState
     reply |-> 0,          \* m_bufferSend, named by the state that filled it
     read |-> FALSE,       \* async_read_some pending
     handler |-> "idle",   \* HandleRead running, and where
     accept |-> "idle",    \* HandleAccept running StartListen, and where
     sending |-> FALSE,    \* async_write_some has not sent m_bufferSend yet
     wrote |-> 0,          \* HandleWrite handlers to run
     held |-> 0,           \* m_taskCounter is set
     sawAccept |-> 0, sawRead |-> 0, \* what its assignment found there
     finished |-> FALSE]   \* HandleWrite logged "So we finish task."

HandlerStates == {"idle", "count", "store", "respond"}

TaskType ==
    [state : 0 .. (Buy + 1), reply : 0 .. Buy, read : BOOLEAN,
     handler : HandlerStates, accept : {"idle", "count", "store"},
     sending : BOOLEAN, wrote : Nat, held : 0 .. 1, sawAccept : 0 .. 1,
     sawRead : 0 .. 1, finished : BOOLEAN]

TypeOK ==
    /\ main \in {"spawn", "wait", "stop", "join", "returned", "aborted"}
    /\ {runThread, work, stopLoop, ioStopped} \subseteq BOOLEAN
    /\ accept \in {"none", "armed", "handling"}
    /\ backlog \in Seq(Conns)
    /\ conn \in [Conns -> {"none", "backlog", "accepted", "dropped"}]
    /\ task \in [Clients -> TaskType]
    /\ counter \in Nat
    /\ client \in [Clients -> {"unborn", "connect", "test", "send", "join", "done", "dead"}]
    /\ op \in [Clients -> {"none", "write", "read"}]
    /\ readyToSend \in [Clients -> BOOLEAN] /\ stopProcessing \in [Clients -> BOOLEAN]
    /\ toServer \in [Clients -> 0 .. 1] /\ toClient \in [Clients -> 0 .. Buy]

Init ==
    /\ main = "spawn" /\ runThread = FALSE
    /\ work = TRUE /\ stopLoop = FALSE /\ ioStopped = FALSE
    /\ accept = "none" /\ backlog = <<>>
    /\ conn = [c \in Conns |-> "none"]
    /\ task = [c \in Clients |-> NewTask]
    /\ counter = 0
    /\ client = [c \in Clients |-> "unborn"]
    /\ op = [c \in Clients |-> "none"]
    /\ readyToSend = [c \in Clients |-> TRUE]
    /\ stopProcessing = [c \in Clients |-> FALSE]
    /\ toServer = [c \in Clients |-> 0] /\ toClient = [c \in Clients |-> 0]

-----------------------------------------------------------------------------
(* ServerMainTest *)

ServerGone == main \in {"returned", "aborted"}

\* createProcessFunction.
SpawnClient(c) ==
    /\ main = "spawn" /\ client[c] = "unborn"
    /\ client' = [client EXCEPT ![c] = "connect"]
    /\ UNCHANGED <<main, runThread, ioVars, serverVars, op, readyToSend,
                   stopProcessing, sockets>>

\* A process that cannot be started, before, between or behind those that can:
\* return -1 destroys joinable threads, which terminates the server.
SpawnFails ==
    /\ main = "spawn"
    /\ main' = "aborted"
    /\ UNCHANGED <<runThread, ioVars, serverVars, clientVars, sockets>>

SpawnedAll ==
    /\ main = "spawn" /\ \A c \in Clients : client[c] # "unborn"
    /\ main' = "wait"
    /\ UNCHANGED <<runThread, ioVars, serverVars, clientVars, sockets>>

\* One more second of sleep in the loop over GetTaskCount().
Wait == main = "wait" /\ counter > 0 /\ UNCHANGED vars

\* The loop ends; Server::Stop sets the flag and releases
\* the work object ...
StopServer ==
    /\ main = "wait" /\ counter = 0
    /\ main' = "stop"
    /\ stopLoop' = TRUE /\ work' = FALSE
    /\ UNCHANGED <<runThread, ioStopped, serverVars, clientVars, sockets>>

StopNoConnect ==
    /\ main = "stop"
    /\ main' = "join"
    /\ UNCHANGED <<runThread, ioVars, serverVars, clientVars, sockets>>

\* ... and connects once to wake the acceptor.
StopConnect ==
    /\ main = "stop"
    /\ main' = "join"
    /\ backlog' = Append(backlog, Unblock)
    /\ conn' = [conn EXCEPT ![Unblock] = "backlog"]
    /\ UNCHANGED <<runThread, ioVars, accept, task, counter, clientVars, sockets>>

\* All threads joined; ~Server closes the acceptor and what it has not accepted.
Join ==
    /\ main = "join" /\ runThread /\ ioStopped
    /\ main' = "returned"
    /\ backlog' = <<>>
    /\ conn' = [c \in Conns |-> IF conn[c] = "backlog" THEN "dropped" ELSE conn[c]]
    /\ UNCHANGED <<runThread, ioVars, accept, task, counter, clientVars, sockets>>

-----------------------------------------------------------------------------
(* Server *)

\* The thread that calls Server::Run arms the acceptor and ends.
Run ==
    /\ ~ServerGone /\ ~runThread
    /\ runThread' = TRUE
    /\ accept' = "armed"
    /\ UNCHANGED <<main, ioVars, backlog, conn, task, counter, clientVars, sockets>>

Referenced(k) ==
    \/ k.read \/ k.sending \/ k.wrote > 0
    \/ k.handler # "idle" \/ k.accept # "idle"

\* The task of c becomes k and the counter n, unless no handler is left: then
\* ~ServerTask closes the socket and releases the TaskCounter.
Update(c, k, n) ==
    IF Referenced(k)
    THEN /\ task' = [task EXCEPT ![c] = k] /\ counter' = n /\ UNCHANGED conn
    ELSE /\ task' = [task EXCEPT ![c] = [NewTask EXCEPT !.state = k.state,
                                                        !.finished = k.finished]]
         /\ counter' = n - k.held
         /\ conn' = [conn EXCEPT ![c] = "dropped"]

\* Threads of the pool that are inside a handler.
Busy == Cardinality({c \in Clients : task[c].accept # "idle"})
        + Cardinality({c \in Clients : task[c].handler # "idle"})

IoRuns == ~ServerGone /\ ~ioStopped
IoThreadFree == IoRuns /\ Busy < IoThreads

\* HandleAccept: after Stop it returns, dropping the connection; otherwise
\* StartListen begins and async_read_some is armed before the task is counted.
HandleAccept ==
    /\ IoThreadFree /\ accept = "armed" /\ backlog # <<>>
    /\ backlog' = Tail(backlog)
    /\ LET c == Head(backlog) IN
       IF stopLoop
       THEN /\ accept' = "none"
            /\ conn' = [conn EXCEPT ![c] = "dropped"]
            /\ UNCHANGED task
       ELSE /\ accept' = "handling"
            /\ conn' = [conn EXCEPT ![c] = "accepted"]
            /\ task' = [task EXCEPT ![c] = [NewTask EXCEPT !.read = TRUE, !.accept = "count"]]
    /\ UNCHANGED <<main, runThread, ioVars, counter, clientVars, sockets>>

\* HandleAccept with an error (no descriptor left) returns and does not arm the
\* acceptor again; the connection stays in the backlog.
HandleAcceptError ==
    /\ IoThreadFree /\ accept = "armed" /\ backlog # <<>>
    /\ accept' = "none"
    /\ UNCHANGED <<main, runThread, ioVars, backlog, conn, task, counter, clientVars, sockets>>

ServerStep(c) ==
    /\ IoRuns
    /\ UNCHANGED <<main, runThread, ioVars, backlog, clientVars>>

\* StartListen, m_taskCounter = make_shared<TaskCounter>(): the new counter
\* counts itself, the assignment reads the pointer that is there, ...
AcceptCount(c) ==
    /\ ServerStep(c) /\ task[c].accept = "count"
    /\ Update(c, [task[c] EXCEPT !.accept = "store", !.sawAccept = task[c].held], counter + 1)
    /\ UNCHANGED <<accept, sockets>>

\* ... stores the new one, and the one that was found is released.  Nothing
\* orders this with the same assignment in a HandleRead of another thread, and
\* a thread may be preempted between the read and the store.
\* Then HandleAccept arms the acceptor again.
AcceptStore(c) ==
    /\ ServerStep(c) /\ task[c].accept = "store"
    /\ Update(c, [task[c] EXCEPT !.accept = "idle", !.held = 1, !.sawAccept = 0],
              counter - task[c].sawAccept)
    /\ accept' = "armed"
    /\ UNCHANGED sockets

\* io_service::run returns in every thread once nothing is left to wait for.
IoStop ==
    /\ IoRuns /\ ~work /\ accept = "none"
    /\ \A c \in Clients : ~Referenced(task[c])
    /\ ioStopped' = TRUE
    /\ UNCHANGED <<main, runThread, work, stopLoop, serverVars, clientVars, sockets>>

-----------------------------------------------------------------------------
(* ServerTask *)

ClientClosed(c) == client[c] \in {"join", "done", "dead"}

HandleReadWhen(c, again) ==
    /\ ServerStep(c) /\ Busy < IoThreads
    /\ task[c].read /\ toServer[c] = 1
    /\ toServer' = [toServer EXCEPT ![c] = 0]
    /\ Update(c, IF again
                 THEN [task[c] EXCEPT !.handler = "count"]
                 ELSE [task[c] EXCEPT !.handler = "respond", !.read = FALSE], counter)
    /\ UNCHANGED <<accept, toClient>>

HandleReadOffByOne(c) == HandleReadWhen(c, task[c].state + 1 # Buy)

\* HandleRead with a message: listen again unless the dialogue is over.
HandleRead(c) == HandleReadWhen(c, task[c].state # Buy)

HandleReadError(c) ==
    /\ ServerStep(c)
    /\ task[c].read /\ toServer[c] = 0 /\ ClientClosed(c)
    /\ Update(c, [task[c] EXCEPT !.read = FALSE], counter)
    /\ UNCHANGED <<accept, sockets>>

\* StartListen in HandleRead counts the same way.
ReadCount(c) ==
    /\ ServerStep(c) /\ task[c].handler = "count"
    /\ Update(c, [task[c] EXCEPT !.handler = "store", !.sawRead = task[c].held], counter + 1)
    /\ UNCHANGED <<accept, sockets>>

ReadStoreReleasing(c, n) ==
    /\ ServerStep(c) /\ task[c].handler = "store"
    /\ Update(c, [task[c] EXCEPT !.handler = "respond", !.held = 1, !.sawRead = 0], counter - n)
    /\ UNCHANGED <<accept, sockets>>

ReadStoreTwice(c) == ReadStoreReleasing(c, 2 * task[c].sawRead)

ReadStore(c) == ReadStoreReleasing(c, task[c].sawRead)

\* DoResponse: past Buy no case applies and the buffer keeps its text.
DoResponse(k) ==
    [k EXCEPT !.state = @ + 1, !.reply = IF k.state < Buy THEN k.state + 1 ELSE @]

Respond(c) ==
    /\ ServerStep(c) /\ task[c].handler = "respond"
    /\ Update(c, [DoResponse(task[c]) EXCEPT !.handler = "idle", !.sending = TRUE], counter)
    /\ UNCHANGED <<accept, sockets>>

\* The write itself: the client may see it before HandleWrite runs.
Transmit(c) ==
    /\ ServerStep(c) /\ task[c].sending
    /\ Update(c, [task[c] EXCEPT !.sending = FALSE, !.wrote = @ + 1], counter)
    /\ toClient' = IF ClientClosed(c) THEN toClient
                   ELSE [toClient EXCEPT ![c] = task[c].reply]
    /\ UNCHANGED <<accept, toServer>>

\* HandleWrite reads m_currentState as it is when it runs, which a HandleRead of
\* another thread may have advanced.  A write fails only if the client is gone.
HandleWrite(c) ==
    /\ ServerStep(c) /\ task[c].wrote > 0
    /\ \E error \in BOOLEAN :
         /\ error => ClientClosed(c)
         /\ Update(c, [task[c] EXCEPT !.wrote = @ - 1,
                         !.finished = @ \/ (~error /\ task[c].state = Buy)], counter)
    /\ UNCHANGED <<accept, sockets>>

-----------------------------------------------------------------------------
(* ClientMainTest *)

PeerClosed(c) == conn[c] = "dropped" \/ ServerGone

ClientStep(c) == UNCHANGED <<main, runThread, ioVars, accept, task, counter>>

\* transportInit: without a listening server connect throws, and nothing
\* catches it while the worker thread is joinable.
Connect(c) ==
    /\ ClientStep(c) /\ client[c] = "connect"
    /\ IF ServerGone
       THEN client' = [client EXCEPT ![c] = "dead"] /\ UNCHANGED <<backlog, conn>>
       ELSE /\ client' = [client EXCEPT ![c] = "test"]
            /\ backlog' = Append(backlog, c)
            /\ conn' = [conn EXCEPT ![c] = "backlog"]
    /\ UNCHANGED <<op, readyToSend, stopProcessing, sockets>>

\* while (!stopProcessing); afterwards the transport is closed.
ClientTest(c) ==
    /\ ClientStep(c) /\ client[c] = "test"
    /\ client' = [client EXCEPT ![c] = IF stopProcessing[c] THEN "join" ELSE "send"]
    /\ UNCHANGED <<backlog, conn, op, readyToSend, stopProcessing, sockets>>

ClientSendAlways(c) ==
    /\ ClientStep(c) /\ client[c] = "send" /\ op[c] # "write"
    /\ op' = [op EXCEPT ![c] = "write"]
    /\ client' = [client EXCEPT ![c] = "test"]
    /\ UNCHANGED <<backlog, conn, readyToSend, stopProcessing, sockets>>

\* if (readyToSend): async_write_some.
ClientSend(c) ==
    /\ ClientStep(c) /\ client[c] = "send"
    /\ client' = [client EXCEPT ![c] = "test"]
    /\ IF readyToSend[c]
       THEN /\ readyToSend' = [readyToSend EXCEPT ![c] = FALSE]
            /\ op' = [op EXCEPT ![c] = "write"]
       ELSE UNCHANGED <<readyToSend, op>>
    /\ UNCHANGED <<backlog, conn, stopProcessing, sockets>>

\* The write handler: on an error too it goes on to read.
ClientWritten(c) ==
    /\ ClientStep(c) /\ client[c] # "dead" /\ op[c] = "write"
    /\ op' = [op EXCEPT ![c] = "read"]
    /\ IF PeerClosed(c) \/ ClientClosed(c)
       THEN /\ stopProcessing' = [stopProcessing EXCEPT ![c] = TRUE]
            /\ UNCHANGED toServer
       ELSE /\ toServer' = [toServer EXCEPT ![c] = 1]
            /\ UNCHANGED stopProcessing
    /\ UNCHANGED <<backlog, conn, client, readyToSend, toClient>>

ClientReadGivesUp(c) ==
    /\ ClientStep(c) /\ client[c] # "dead" /\ op[c] = "read"
    /\ toClient[c] # 0 \/ PeerClosed(c) \/ ClientClosed(c)
    /\ op' = [op EXCEPT ![c] = "none"]
    /\ readyToSend' = [readyToSend EXCEPT ![c] = toClient[c] # 0]
    /\ toClient' = [toClient EXCEPT ![c] = 0]
    /\ UNCHANGED <<backlog, conn, client, toServer, stopProcessing>>

\* The read handler: a reply, or the end of the connection.
ClientRead(c) ==
    /\ ClientStep(c) /\ client[c] # "dead" /\ op[c] = "read"
    /\ toClient[c] # 0 \/ PeerClosed(c) \/ ClientClosed(c)
    /\ op' = [op EXCEPT ![c] = "none"]
    /\ readyToSend' = [readyToSend EXCEPT ![c] = TRUE]
    /\ stopProcessing' = [stopProcessing EXCEPT ![c] = @ \/ toClient[c] = 0]
    /\ toClient' = [toClient EXCEPT ![c] = 0]
    /\ UNCHANGED <<backlog, conn, client, toServer>>

\* worker.reset(); workerThread.join().
ClientJoin(c) ==
    /\ ClientStep(c) /\ client[c] = "join" /\ op[c] = "none"
    /\ client' = [client EXCEPT ![c] = "done"]
    /\ UNCHANGED <<backlog, conn, op, readyToSend, stopProcessing, sockets>>

\* The process is killed; the kernel closes its socket.
ClientDies(c) ==
    /\ ClientStep(c) /\ client[c] \in {"test", "send"}
    /\ client' = [client EXCEPT ![c] = "dead"]
    /\ UNCHANGED <<backlog, conn, op, readyToSend, stopProcessing, sockets>>

-----------------------------------------------------------------------------
MainStep ==
    \/ \E c \in Clients : SpawnClient(c)
    \/ SpawnFails \/ SpawnedAll \/ StopServer \/ StopConnect \/ Join

TaskStep(c) ==
    \/ AcceptCount(c) \/ AcceptStore(c)
    \/ HandleRead(c) \/ HandleReadError(c) \/ ReadCount(c) \/ ReadStore(c)
    \/ Respond(c) \/ Transmit(c) \/ HandleWrite(c)

ClientActs(c) ==
    \/ Connect(c) \/ ClientTest(c) \/ ClientSend(c) \/ ClientJoin(c)

ClientIo(c) == ClientWritten(c) \/ ClientRead(c)

Ended ==
    /\ ServerGone /\ \A c \in Clients : client[c] \in {"unborn", "done", "dead"}
    /\ UNCHANGED vars

Next ==
    \/ MainStep \/ Wait \/ Run \/ HandleAccept \/ HandleAcceptError \/ IoStop
    \/ \E c \in Clients : TaskStep(c) \/ ClientActs(c) \/ ClientIo(c) \/ ClientDies(c)
    \/ Ended

Spec == Init /\ [][Next]_vars

\* Threads are scheduled and the kernel delivers; processes need not die.
FairSpec ==
    /\ Spec
    /\ WF_vars(MainStep) /\ WF_vars(Run) /\ WF_vars(HandleAccept) /\ WF_vars(IoStop)
    /\ \A c \in Clients :
          WF_vars(TaskStep(c)) /\ WF_vars(ClientActs(c)) /\ WF_vars(ClientIo(c))

-----------------------------------------------------------------------------
(* Properties *)

\* A client sends its next message only after a reply, and the reply is sent
\* after HandleRead is done with the task: so, although any of the io threads
\* may run HandleRead and server_task.hpp:143-170 has no lock, no HandleRead can
\* start in a task while another one is in it, m_bufferSend is not filled while
\* it is being sent, and nobody waits for a reply that is still to be filled in
\* while he has another one.  It says nothing of HandleWrite, which may read
\* m_currentState (line 181) while the next HandleRead advances it (line 100).
BuffersNotShared ==
    \A c \in Clients :
        /\ task[c].read /\ toServer[c] = 1 => task[c].handler = "idle"
        /\ task[c].handler # "idle" => ~task[c].sending /\ toClient[c] = 0

\* Main must not stop waiting while a dialogue holds its TaskCounter: a task
\* counts its next read before it gives up the count of the last one
\* (server_task.hpp:85-94).
CounterCovers == counter >= Cardinality({c \in Clients : task[c].held = 1})

\* The state is well formed and the count covers the tasks (server_task.hpp:85-94).
Consistent == TypeOK /\ CounterCovers

\* A dialogue that began is never cut short from the server's side, not by
\* Stop either: its socket is closed after the answer past Buy, or because the
\* client is gone.
DialogueRunsOut ==
    [][\A c \in Clients :
          conn[c] = "accepted" /\ conn'[c] = "dropped"
             => task[c].state = Buy + 1 \/ ClientClosed(c)]_vars

\* A TaskCounter that no m_taskCounter holds: what is left when StartListen in
\* HandleAccept and in the first HandleRead assign m_taskCounter at once.
CounterLeaked ==
    counter # Cardinality({c \in Clients : task[c].held = 1})
              + Cardinality({c \in Clients : task[c].accept = "store"})
              + Cardinality({c \in Clients : task[c].handler = "store"})

\* ServerMainTest ends, wherever Stop finds the acceptor, the thread that arms
\* it and the clients; only a leaked TaskCounter can keep it waiting.
MainReturns == <>(ServerGone \/ CounterLeaked)

\* Once the server is gone every client notices and ends: those never accepted,
\* those in the middle of a write and those waiting for a reply.
ClientsEnd == ServerGone ~> \A c \in Clients : client[c] \in {"unborn", "done", "dead"}

\* What HandleWrite logs (server_task.hpp:181-184): "current state is Buy. So we
\* finish task.", that is, the task is not waiting for the client any more.
FinishedAtBuy == \A c \in Clients : task[c].finished => ~task[c].read
=============================================================================
