-------------------------------- MODULE UvTask --------------------------------
(***************************************************************************)
(* The task server of nitro_libuv: one process with the server's loop      *)
(* thread, libuv's pool and a thread for each client.  A connection is a   *)
(* ServerTask on the heap that nobody but the requests it has given to     *)
(* libuv points to: its work item goes round between the pool and          *)
(* AfterSomeWork, where the task deletes itself once the dialogue is over  *)
(* and its pipe is closed.  Every callback of the loop is one action.      *)
(*                                                                         *)
(* Requests are libuv's: a write or a shutdown is called back once, also   *)
(* when the pipe is closed, and the callback of uv_close comes last.       *)
(***************************************************************************)
EXTENDS Integers, Sequences, SequencesExt, FiniteSets

CONSTANTS
    Tasks,          \* connections, one for each client thread (5)
    Buy,            \* the last state of the dialogue (5)
    PoolThreads     \* threads of libuv's pool (4)

ASSUME UvTaskAssumption ==
    /\ IsFiniteSet(Tasks)
    /\ Buy \in Nat \ {0} /\ PoolThreads \in Nat \ {0}

VARIABLES
    process,    \* running, exited by SIGINT, or aborted by an assert of libuv
    task,       \* the ServerTask: unborn, live, deleted
    state,      \* m_currentState
    queue,      \* work items waiting for a thread of the pool
    work,       \* the work item: none, queued, running, after
    pipe,       \* m_pipe: open, closing, closed for good, reset
    finishing,  \* uv_close was given HandleFinishClose
    reading,    \* uv_read_start was called
    writes,     \* writes of m_bufferSend not yet called back
    shutdown,   \* HandleShutdown is to be called
    toServer, toClient, \* messages of the client; states the server has told
    client,     \* unborn, sent (the first message), reading, ended
    heard       \* the last state the client was told

workVars == <<queue, work>>
pipeVars == <<pipe, finishing, reading, writes, shutdown>>
clientVars == <<client, heard>>
vars == <<process, task, state, workVars, pipeVars, toServer, toClient, clientVars>>

TypeOK ==
    /\ process \in {"running", "exited", "aborted"}
    /\ task \in [Tasks -> {"unborn", "live", "deleted"}]
    /\ state \in [Tasks -> 0 .. Buy]
    /\ queue \in Seq(Tasks) /\ IsInjective(queue)
    /\ work \in [Tasks -> {"none", "queued", "running", "after"}]
    /\ pipe \in [Tasks -> {"open", "closing", "closed", "reset"}]
    /\ {finishing, reading, shutdown} \subseteq [Tasks -> BOOLEAN]
    /\ writes \in [Tasks -> 0 .. 1]
    /\ toServer \in [Tasks -> 0 .. 1] /\ toClient \in [Tasks -> Seq(1 .. Buy)]
    /\ client \in [Tasks -> {"unborn", "sent", "reading", "ended"}]
    /\ heard \in [Tasks -> 0 .. Buy]

Init ==
    /\ process = "running"
    /\ task = [t \in Tasks |-> "unborn"] /\ state = [t \in Tasks |-> 0]
    /\ queue = <<>> /\ work = [t \in Tasks |-> "none"]
    /\ pipe = [t \in Tasks |-> "open"] /\ finishing = [t \in Tasks |-> FALSE]
    /\ reading = [t \in Tasks |-> FALSE] /\ writes = [t \in Tasks |-> 0]
    /\ shutdown = [t \in Tasks |-> FALSE]
    /\ toServer = [t \in Tasks |-> 0] /\ toClient = [t \in Tasks |-> <<>>]
    /\ client = [t \in Tasks |-> "unborn"] /\ heard = [t \in Tasks |-> 0]

Set(f, t, v) == [f EXCEPT ![t] = v]

-----------------------------------------------------------------------------
(* The work item *)

QueueWork(t) == queue' = Append(queue, t) /\ work' = Set(work, t, "queued")

\* A free thread of the pool takes the oldest item.
SomeWork(t) ==
    /\ process = "running" /\ queue # <<>> /\ Head(queue) = t
    /\ Cardinality({x \in Tasks : work[x] = "running"}) < PoolThreads
    /\ queue' = Tail(queue) /\ work' = Set(work, t, "running")
    /\ UNCHANGED <<process, task, state, pipeVars, toServer, toClient, clientVars>>

WorkDone(t) ==
    /\ process = "running" /\ work[t] = "running"
    /\ work' = Set(work, t, "after")
    /\ UNCHANGED <<process, task, state, queue, pipeVars, toServer, toClient, clientVars>>

AfterSomeWorkWhen(t, over) ==
    /\ process = "running" /\ work[t] = "after"
    /\ IF over
       THEN task' = Set(task, t, "deleted") /\ work' = Set(work, t, "none") /\ UNCHANGED queue
       ELSE QueueWork(t) /\ UNCHANGED task
    /\ UNCHANGED <<process, state, pipeVars, toServer, toClient, clientVars>>

AfterSomeWorkAtBuy(t) == AfterSomeWorkWhen(t, state[t] = Buy)

\* The task is over, or goes round once more.
AfterSomeWork(t) == AfterSomeWorkWhen(t, state[t] = Buy /\ pipe[t] = "reset")

-----------------------------------------------------------------------------
(* The loop thread: callbacks of a task's pipe *)

Callback(t) ==
    /\ process = "running"
    /\ UNCHANGED clientVars

\* connect_cb: the constructor queues the work item, StartListen reads.
ConnectCb(t) ==
    /\ Callback(t) /\ task[t] = "unborn" /\ client[t] # "unborn"
    /\ task' = Set(task, t, "live") /\ QueueWork(t)
    /\ reading' = Set(reading, t, TRUE)
    /\ UNCHANGED <<process, state, pipe, finishing, writes, shutdown, toServer, toClient>>

\* HandleRead: DoResponse advances the state and fills m_bufferSend.  The
\* callbacks of a pipe come in order, so the last write is over.
HandleRead(t) ==
    /\ Callback(t) /\ reading[t] /\ pipe[t] = "open" /\ writes[t] = 0 /\ toServer[t] > 0
    /\ toServer' = Set(toServer, t, 0)
    /\ state' = Set(state, t, state[t] + 1)
    /\ writes' = Set(writes, t, writes[t] + 1)
    /\ toClient' = Set(toClient, t, Append(toClient[t], state[t] + 1))
    /\ UNCHANGED <<process, task, workVars, pipe, finishing, reading, shutdown>>

\* uv_close.  A handle that is closing already is an assert(0) followed by a
\* return: the process aborts, or in a build without asserts nothing happens.
CloseWith(t, finish) ==
    \/ /\ pipe[t] = "open"
       /\ pipe' = Set(pipe, t, "closing") /\ finishing' = Set(finishing, t, finish)
       /\ UNCHANGED process
    \/ /\ pipe[t] # "open"
       /\ process' \in {"running", "aborted"}
       /\ UNCHANGED <<pipe, finishing>>

\* HandleRead with UV_EOF: the client has closed its end; nothing is done.
HandleEof(t) ==
    /\ Callback(t) /\ reading[t] /\ pipe[t] = "open" /\ toServer[t] = 0
    /\ client[t] = "ended"
    /\ reading' = Set(reading, t, FALSE)
    /\ UNCHANGED <<process, task, state, workVars, pipe, finishing, writes, shutdown,
                   toServer, toClient>>

\* HandleRead with another error closes the pipe, without a callback.
HandleReadError(t) ==
    /\ Callback(t) /\ reading[t] /\ pipe[t] = "open"
    /\ reading' = Set(reading, t, FALSE) /\ CloseWith(t, FALSE)
    /\ UNCHANGED <<task, state, workVars, writes, shutdown, toServer, toClient>>

HandleWriteWhen(t, last) ==
    /\ Callback(t) /\ writes[t] > 0
    /\ writes' = Set(writes, t, writes[t] - 1)
    /\ IF last
       THEN shutdown' = Set(shutdown, t, pipe[t] = "open") /\ UNCHANGED reading
       ELSE reading' = Set(reading, t, pipe[t] = "open") /\ UNCHANGED shutdown
    /\ UNCHANGED <<process, task, state, workVars, pipe, finishing, toServer, toClient>>

HandleWriteOneEarly(t) == HandleWriteWhen(t, state[t] >= Buy - 1)
HandleWriteOneLate(t) == HandleWriteWhen(t, state[t] > Buy)

\* Whatever the status.  A closed pipe refuses the shutdown and the read.
HandleWrite(t) == HandleWriteWhen(t, state[t] = Buy)

\* The shutdown is over when the client has read everything or is gone, or is
\* cancelled by a read error that closed the pipe.
HandleShutdown(t) ==
    /\ Callback(t) /\ shutdown[t]
    /\ toClient[t] = <<>> \/ client[t] = "ended" \/ pipe[t] # "open"
    /\ shutdown' = Set(shutdown, t, FALSE) /\ CloseWith(t, TRUE)
    /\ UNCHANGED <<task, state, workVars, reading, writes, toServer, toClient>>

\* The end of uv_close, HandleFinishClose if it was asked for: m_pipe.reset().
HandleFinishClose(t) ==
    /\ Callback(t) /\ pipe[t] = "closing" /\ writes[t] = 0 /\ ~shutdown[t]
    /\ pipe' = Set(pipe, t, IF finishing[t] THEN "reset" ELSE "closed")
    /\ reading' = Set(reading, t, FALSE)
    /\ UNCHANGED <<process, task, state, workVars, finishing, writes, shutdown, toServer,
                   toClient>>

-----------------------------------------------------------------------------
(* A client thread *)

ClientStep == process = "running" /\ UNCHANGED <<process, task, state, workVars, pipeVars>>

\* RunClient and connect_cb: the first message.
ClientConnect(t) ==
    /\ ClientStep /\ client[t] = "unborn"
    /\ client' = Set(client, t, "sent") /\ toServer' = Set(toServer, t, 1)
    /\ UNCHANGED <<toClient, heard>>

\* write_cb: reading goes on from here, whatever else is written.
ClientWrite(t) ==
    /\ ClientStep /\ client[t] = "sent"
    /\ client' = Set(client, t, "reading")
    /\ UNCHANGED <<toServer, toClient, heard>>

\* read_cb: "Send buy" closes the connection, anything else is answered.
ClientRead(t) ==
    LET told == Head(toClient[t]) IN
    /\ ClientStep /\ client[t] = "reading" /\ toClient[t] # <<>>
    /\ toClient' = Set(toClient, t, <<>>) /\ heard' = Set(heard, t, told)
    /\ IF told = Buy
       THEN client' = Set(client, t, "ended") /\ UNCHANGED toServer
       ELSE toServer' = Set(toServer, t, toServer[t] + 1) /\ UNCHANGED client

\* read_cb with an error: the server has closed its end.
ClientReadError(t) ==
    /\ ClientStep /\ client[t] = "reading" /\ toClient[t] = <<>> /\ pipe[t] # "open"
    /\ client' = Set(client, t, "ended")
    /\ UNCHANGED <<toServer, toClient, heard>>

-----------------------------------------------------------------------------
\* sigint_cb: exit(0).  Nothing else ends the process, because the loop of the
\* server has the listening pipe.
Interrupt ==
    /\ process = "running" /\ process' = "exited"
    /\ UNCHANGED <<task, state, workVars, pipeVars, toServer, toClient, clientVars>>

Ended == process # "running" /\ UNCHANGED vars

Work(t) == SomeWork(t) \/ WorkDone(t) \/ AfterSomeWork(t)

Callbacks(t) ==
    \/ ConnectCb(t) \/ HandleRead(t) \/ HandleEof(t)
    \/ HandleWrite(t) \/ HandleShutdown(t) \/ HandleFinishClose(t)

Client(t) == ClientWrite(t) \/ ClientRead(t) \/ ClientReadError(t)

Next ==
    \/ \E t \in Tasks :
         \/ Work(t) \/ Callbacks(t) \/ HandleReadError(t) \/ ClientConnect(t) \/ Client(t)
    \/ Interrupt \/ Ended

Spec == Init /\ [][Next]_vars

\* Threads run and the loop serves its callbacks; reads need not fail, nobody
\* need connect or press Ctrl-C.
FairSpec ==
    /\ Spec
    /\ \A t \in Tasks : WF_vars(Work(t)) /\ WF_vars(Callbacks(t)) /\ WF_vars(Client(t))

-----------------------------------------------------------------------------
(* Properties *)

\* Every request holds the raw pointer `this`: when AfterSomeWork deletes the
\* task (server_task.h:144-148) none may be on its way, neither a callback of
\* the pipe nor the work item on another thread.
NoLateCallback ==
    \A t \in Tasks : task[t] = "deleted" =>
        /\ ~reading[t] /\ writes[t] = 0 /\ ~shutdown[t] /\ pipe[t] = "reset"
        /\ work[t] = "none" /\ t \notin Range(queue)

\* A task that is deleted has had its dialogue: its client was told Buy.
DeletedAfterBuy == \A t \in Tasks : task[t] = "deleted" => heard[t] = Buy

\* A client that stops reading was told Buy, or the server's read failed.
ClientToldAll ==
    \A t \in Tasks : client[t] = "ended" => heard[t] = Buy \/ (pipe[t] # "open" /\ ~finishing[t])

\* The state is well formed, and who ended, task or client, had the whole dialogue
\* (server_task.h:256-288, client.h:18-43).
Consistent == TypeOK /\ DeletedAfterBuy /\ ClientToldAll

\* The one way to close a pipe twice, where libuv asserts: a read failed while
\* the shutdown after the last answer was pending, and HandleShutdown closes the
\* pipe that HandleRead had closed (server_task.h:229 and 296).
AbortedFor ==
    process = "aborted" =>
        \E t \in Tasks : pipe[t] = "closing" /\ ~finishing[t] /\ state[t] = Buy

\* Every accepted connection ends and its task is deleted, and with it the work
\* item that goes round in the pool, unless the process ends (see AbortedFor) or
\* a read of this connection failed with an error other than the end of the
\* stream: then nobody resets m_pipe, and task and work item stay
\* (server_task.h:229, 301-309).
TaskEnds ==
    \A t \in Tasks :
        (client[t] # "unborn") ~> \/ task[t] = "deleted" \/ process # "running"
                                  \/ pipe[t] = "closed"
=============================================================================
