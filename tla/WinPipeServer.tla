---------------------------- MODULE WinPipeServer ----------------------------
(***************************************************************************)
(* The accept loop of the Windows Server with the functions of class       *)
(* helper, the clients that connect to it and ServerMainTest that stops    *)
(* it.  One pipe instance listens at a time.  A client that finds it taken *)
(* waits for the next one and tries again, up to ten times; Stop connects  *)
(* once, like a client, to wake the loop.  The dialogue of an accepted     *)
(* connection is PipeServer's subject: here a task only begins and ends.   *)
(***************************************************************************)
EXTENDS Integers, FiniteSets

CONSTANTS
    Clients,         \* the client processes (5)
    Unblock,         \* the connection Server::Stop makes
    ConnectionTimes  \* connectionTimes (10)

Conns == Clients \cup {Unblock}
Free == "free"          \* the listening instance has no client
Invalid == "invalid"    \* INVALID_HANDLE_VALUE

ASSUME WinPipeServerAssumption ==
    /\ IsFiniteSet(Clients) /\ Unblock \notin Clients
    /\ Free \notin Conns /\ Invalid \notin Conns
    /\ ConnectionTimes \in Nat \ {0}

VARIABLES
    main,       \* spawn, wait, stop (connecting), join, returned, terminated
    why,        \* what terminated the process: none, spawn, create, assign, connect
    run,        \* the thread in Server::Run: test, accept, check, ended
    stopLoop,
    pipeServer, \* who is connected to the listening instance, or Free
    transport,  \* what accept_connection returned
    peer,       \* the client end: none, open, wait, connected, closed, failed
    failure,    \* what connect_to_server threw: none, missing, timeout, busy
    tries,      \* connectionIndex
    task        \* none, running, ended, dropped

runVars == <<run, pipeServer, transport, task>>
peerVars == <<peer, failure, tries>>
vars == <<main, why, stopLoop, runVars, peerVars>>

TypeOK ==
    /\ main \in {"spawn", "wait", "stop", "join", "returned", "terminated"}
    /\ why \in {"none", "spawn", "create", "assign", "connect"}
    /\ run \in {"test", "accept", "pending", "check", "listen", "ended"} /\ stopLoop \in BOOLEAN
    /\ pipeServer \in Conns \cup {Free} /\ transport \in Conns \cup {Invalid}
    /\ peer \in [Conns -> {"none", "open", "wait", "connected", "closed", "failed"}]
    /\ failure \in [Conns -> {"none", "missing", "timeout", "busy"}]
    /\ tries \in [Conns -> 0 .. ConnectionTimes]
    /\ task \in [Conns -> {"none", "running", "ended", "dropped"}]

\* The constructor of Server has created the first instance.
Init ==
    /\ main = "spawn" /\ why = "none" /\ run = "test" /\ stopLoop = FALSE
    /\ pipeServer = Free /\ transport = Invalid
    /\ peer = [c \in Conns |-> "none"] /\ failure = [c \in Conns |-> "none"]
    /\ tries = [c \in Conns |-> 0] /\ task = [c \in Conns |-> "none"]

Gone == main \in {"returned", "terminated"}

\* An exception nobody catches, or a joinable thread destroyed.
Terminate(reason) == main' = "terminated" /\ why' = reason

-----------------------------------------------------------------------------
(* ServerMainTest *)

SpawnClient(c) ==
    /\ main = "spawn" /\ peer[c] = "none" /\ peer' = [peer EXCEPT ![c] = "open"]
    /\ UNCHANGED <<main, why, stopLoop, runVars, failure, tries>>

SpawnFails ==
    /\ main = "spawn" /\ \E c \in Clients : peer[c] = "none"
    /\ Terminate("spawn")
    /\ UNCHANGED <<stopLoop, runVars, peerVars>>

SpawnedAll ==
    /\ main = "spawn" /\ main' = "wait" /\ \A c \in Clients : peer[c] # "none"
    /\ UNCHANGED <<why, stopLoop, runVars, peerVars>>

Running == {c \in Conns : task[c] = "running"}

StopNoConnect ==
    /\ main = "wait" /\ Running = {} /\ main' = "join" /\ stopLoop' = TRUE
    /\ UNCHANGED <<why, runVars, peerVars>>

\* GetTaskCount() is 0: Stop sets the flag and begins to connect.
Stop ==
    /\ main = "wait" /\ Running = {}
    /\ main' = "stop" /\ stopLoop' = TRUE
    /\ peer' = [peer EXCEPT ![Unblock] = "open"]
    /\ UNCHANGED <<why, runVars, failure, tries>>

\* ... and closes the connection at once, or lets the exception out.
Stopped ==
    /\ main = "stop"
    /\ \/ /\ peer[Unblock] = "connected"
          /\ main' = "join" /\ peer' = [peer EXCEPT ![Unblock] = "closed"]
          /\ UNCHANGED why
       \/ peer[Unblock] = "failed" /\ Terminate("connect") /\ UNCHANGED peer
    /\ UNCHANGED <<stopLoop, runVars, failure, tries>>

\* The io threads end with the last task, the accept thread with its loop.
Join ==
    /\ main = "join" /\ run = "ended" /\ Running = {} /\ main' = "returned"
    /\ UNCHANGED <<why, stopLoop, runVars, peerVars>>

-----------------------------------------------------------------------------
(* Server::Run *)

RunStep == ~Gone /\ UNCHANGED <<stopLoop, peerVars>>

Test ==
    /\ RunStep /\ run = "test" /\ run' = IF stopLoop THEN "ended" ELSE "accept"
    /\ UNCHANGED <<main, why, pipeServer, transport, task>>

\* accept_connection: ConnectNamedPipe waits when nobody is there.
ConnectNamedPipe ==
    /\ RunStep /\ run = "accept" /\ pipeServer = Free /\ run' = "pending"
    /\ UNCHANGED <<main, why, pipeServer, transport, task>>

\* It succeeds for who is there, and for who comes while it waits, gone or not.
Accepted ==
    /\ run \in {"accept", "pending"} /\ pipeServer # Free
    /\ run = "accept" => peer[pipeServer] = "connected"

AcceptKeepsInstance ==
    /\ RunStep /\ Accepted
    /\ transport' = pipeServer /\ run' = "check"
    /\ UNCHANGED <<main, why, pipeServer, task>>

\* create_server makes the next instance, or throws after ten failures.
AcceptConnection ==
    /\ RunStep /\ Accepted
    /\ \/ /\ transport' = pipeServer /\ pipeServer' = Free /\ run' = "check"
          /\ UNCHANGED <<main, why>>
       \/ Terminate("create") /\ UNCHANGED <<transport, pipeServer, run>>
    /\ UNCHANGED task

\* The client connected and closed before ConnectNamedPipe: ERROR_NO_DATA, the
\* handle is invalid and assign throws.
AcceptNoData ==
    /\ RunStep /\ run = "accept" /\ pipeServer # Free /\ peer[pipeServer] = "closed"
    /\ Terminate("assign")
    /\ UNCHANGED runVars

CheckWith(next) ==
    /\ RunStep /\ run = "check"
    /\ IF stopLoop
       THEN run' = "ended" /\ task' = [task EXCEPT ![transport] = "dropped"]
       ELSE run' = next /\ UNCHANGED task
    /\ UNCHANGED <<main, why, pipeServer, transport>>

CheckEndsAlways == CheckWith("ended")

\* Once more the flag; the task and its connection are dropped when it is set.
Check == CheckWith("listen")

\* StartListen, whatever Stop has done meanwhile, and continue.
StartListen ==
    /\ RunStep /\ run = "listen" /\ run' = "test"
    /\ task' = [task EXCEPT ![transport] = "running"]
    /\ UNCHANGED <<main, why, pipeServer, transport>>

\* The dialogue is over or the client is gone.
TaskEnds(c) ==
    /\ ~Gone /\ task[c] = "running" /\ task' = [task EXCEPT ![c] = "ended"]
    /\ UNCHANGED <<main, why, stopLoop, run, pipeServer, transport, peerVars>>

-----------------------------------------------------------------------------
(* connect_to_server, by a client or by Stop *)

Throw(c, error) ==
    /\ peer' = [peer EXCEPT ![c] = "failed"]
    /\ failure' = [failure EXCEPT ![c] = error]
    /\ UNCHANGED <<tries, pipeServer>>

\* CreateFile: it fails without ERROR_PIPE_BUSY when nobody serves the name.
CreateFile(c) ==
    /\ peer[c] = "open"
    /\ \/ Gone /\ Throw(c, "missing")
       \/ /\ ~Gone /\ pipeServer = Free
          /\ pipeServer' = c /\ peer' = [peer EXCEPT ![c] = "connected"]
          /\ UNCHANGED <<failure, tries>>
       \/ /\ ~Gone /\ pipeServer # Free
          /\ peer' = [peer EXCEPT ![c] = "wait"]
          /\ UNCHANGED <<failure, tries, pipeServer>>
    /\ UNCHANGED <<main, why, stopLoop, run, transport, task>>

AfterWait(c) ==
    IF tries[c] + 1 < ConnectionTimes
    THEN /\ peer' = [peer EXCEPT ![c] = "open"]
         /\ tries' = [tries EXCEPT ![c] = @ + 1]
         /\ UNCHANGED <<failure, pipeServer>>
    ELSE Throw(c, "busy")

WaitNotAtAll(c) ==
    /\ peer[c] = "wait" /\ AfterWait(c)
    /\ UNCHANGED <<main, why, stopLoop, run, transport, task>>

\* WaitNamedPipe, until an instance listens, and the next round of the loop; it
\* fails at once when the pipe is gone.
WaitNamedPipe(c) ==
    /\ peer[c] = "wait"
    /\ \/ ~Gone /\ pipeServer = Free /\ AfterWait(c)
       \/ Gone /\ Throw(c, "timeout")
    /\ UNCHANGED <<main, why, stopLoop, run, transport, task>>

\* No instance listens for 200 milliseconds.
WaitTimesOut(c) ==
    /\ ~Gone /\ peer[c] = "wait" /\ pipeServer # Free /\ Throw(c, "timeout")
    /\ UNCHANGED <<main, why, stopLoop, run, transport, task>>

\* The client ends when the server's end is closed, or it is killed.
ClientCloses(c) ==
    /\ peer[c] = "connected"
    /\ task[c] \in {"ended", "dropped"} \/ Gone
    /\ peer' = [peer EXCEPT ![c] = "closed"]
    /\ UNCHANGED <<main, why, stopLoop, runVars, failure, tries>>

ClientDies(c) ==
    /\ peer[c] = "connected" /\ peer' = [peer EXCEPT ![c] = "closed"]
    /\ UNCHANGED <<main, why, stopLoop, runVars, failure, tries>>

-----------------------------------------------------------------------------
Main == (\E c \in Clients : SpawnClient(c)) \/ SpawnedAll \/ Stop \/ Stopped \/ Join
RunThread ==
    Test \/ ConnectNamedPipe \/ AcceptConnection \/ AcceptNoData \/ Check \/ StartListen
Connecting(c) == CreateFile(c) \/ WaitNamedPipe(c)

Next ==
    \/ Main \/ SpawnFails \/ RunThread
    \/ \E c \in Conns : Connecting(c) \/ WaitTimesOut(c) \/ TaskEnds(c)
    \/ \E c \in Clients : ClientCloses(c) \/ ClientDies(c)

Spec == Init /\ [][Next]_vars

\* The threads and processes are scheduled and the wait of 200 milliseconds is
\* not longer than that; nobody need die.
FairSpec ==
    /\ Spec /\ WF_vars(Main) /\ WF_vars(RunThread)
    /\ \A c \in Conns : WF_vars(Connecting(c)) /\ WF_vars(WaitTimesOut(c)) /\ WF_vars(TaskEnds(c))
    /\ \A c \in Clients : WF_vars(ClientCloses(c))

-----------------------------------------------------------------------------
(* Properties *)

\* Ten rounds are enough (pipe_api.hpp:116-149): in each round but the first a
\* client was told an instance listens, so another one took it, and there are
\* fewer others than rounds.  The name is there as long as the server is: while
\* create_server has not made the next instance the last one holds it.
TurnedAway ==
    \A c \in Conns :
        /\ Cardinality(Conns) <= ConnectionTimes => failure[c] # "busy"
        /\ failure[c] = "missing" => Gone

\* Until the server is stopped who is connected is served or about to be: the
\* loop has not ended, and it is at this connection or will accept it from the
\* listening instance (helper_win32.hpp:42-58).
ConnectedServed ==
    \A c \in Clients : peer[c] = "connected" /\ task[c] \notin {"running", "ended"} =>
        \/ stopLoop \/ Gone
        \/ run # "ended" /\ (pipeServer = c \/ (run \in {"check", "listen"} /\ transport = c))

\* What terminates the server, besides a process or a pipe that cannot be made,
\* is Stop finding the pipe busy for 200 milliseconds, a client that died before
\* it was accepted, or Stop's own connection, closed before ConnectNamedPipe saw
\* it (helper_win32.hpp:50, 67-68).
TerminatedFor ==
    /\ why = "connect" => failure[Unblock] = "timeout"
    /\ why = "assign" => pipeServer # Free /\ task[pipeServer] = "none"

\* The state is well formed and who is connected is served (helper_win32.hpp:42-58).
Consistent == TypeOK /\ ConnectedServed

\* A server that was stopped gets out of accept_connection and ends, and so does
\* Stop when a late client took the instance it needs.
StopEnds == stopLoop ~> Gone
=============================================================================
