------------------------- MODULE WinPipeServerProofs -------------------------
(***************************************************************************)
(* Proofs about WinPipeServer for any number of clients and any number of  *)
(* rounds.  A connection is at one place at a time: at the listening       *)
(* instance, in the hands of the loop or with its task (Placed).  The ten  *)
(* rounds are a counting argument (Rounds): whoever has waited k times has *)
(* seen k others take the instance, and nobody takes it twice.             *)
(***************************************************************************)
EXTENDS WinPipeServer, FiniteSetTheorems, TLAPS

\* The connections that have been made.
Made == {c \in Conns : peer[c] \in {"connected", "closed"}}

\* Where a connection is on the server's side.
Placed ==
    /\ pipeServer # Free => pipeServer \in Made /\ task[pipeServer] = "none"
    /\ run \in {"check", "listen"} =>
         transport \in Made /\ transport # pipeServer /\ task[transport] = "none"
    /\ \A c \in Conns : task[c] # "none" => c \in Made

\* What the positions of main, of the loop and of connect_to_server imply.
Positions ==
    /\ run = "ended" => stopLoop
    /\ \A c \in Conns : task[c] = "dropped" => stopLoop
    /\ main \in {"spawn", "wait"} => peer[Unblock] = "none"
    /\ why # "none" => main = "terminated"
    /\ why = "connect" => failure[Unblock] \in {"timeout", "busy"}
    /\ why = "assign" => pipeServer # Free
    /\ \A c \in Conns : peer[c] = "failed" <=> failure[c] # "none"
    /\ \A c \in Conns : failure[c] = "missing" => Gone
    /\ \A c \in Conns : peer[c] = "none" => tries[c] = 0

\* Every round but the first costs one connection of another.
Rounds ==
    \A c \in Conns :
        /\ peer[c] = "open" /\ pipeServer = Free => tries[c] <= Cardinality(Made)
        /\ peer[c] = "open" /\ pipeServer # Free => tries[c] + 1 <= Cardinality(Made)
        /\ peer[c] = "wait" => tries[c] + 1 <= Cardinality(Made)
        /\ Cardinality(Conns) <= ConnectionTimes => failure[c] # "busy"

IInv == TypeOK /\ Placed /\ Positions /\ ConnectedServed /\ Rounds

LEMMA MadeFinite ==
    /\ IsFiniteSet(Conns) /\ Cardinality(Conns) \in Nat
    /\ IsFiniteSet(Made) /\ Cardinality(Made) \in Nat /\ Cardinality(Made) <= Cardinality(Conns)
    /\ Made # {} => Cardinality(Made) >= 1
    /\ \A c \in Conns \ Made : Cardinality(Made) < Cardinality(Conns)
<1>1. IsFiniteSet(Conns) /\ Cardinality(Conns) \in Nat
  BY WinPipeServerAssumption, FS_AddElement, FS_CardinalityType DEF Conns
<1>2. Made \subseteq Conns
  BY DEF Made
<1>3. IsFiniteSet(Made) /\ Cardinality(Made) \in Nat /\ Cardinality(Made) <= Cardinality(Conns)
  BY <1>1, <1>2, FS_Subset, FS_CardinalityType
<1>4. \A c \in Conns \ Made : Cardinality(Made) < Cardinality(Conns)
  <2>1. Cardinality(Made) = Cardinality(Conns) => Made = Conns
    BY <1>1, <1>2, FS_Subset
  <2> QED BY <1>1, <1>3, <2>1
<1>5. Made # {} => Cardinality(Made) >= 1
  BY <1>3, FS_EmptySet
<1> QED BY <1>1, <1>3, <1>4, <1>5

\* What takes the instance was not connected before.
LEMMA OneMore ==
    ASSUME TypeOK, NEW c \in Conns, c \notin Made, peer' = [peer EXCEPT ![c] = "connected"]
    PROVE Made' = Made \cup {c} /\ Cardinality(Made') = Cardinality(Made) + 1
<1>1. Made' = Made \cup {c}
  BY DEF Made, TypeOK
<1> QED BY <1>1, MadeFinite, FS_AddElement

LEMMA InitOK == Init => IInv
<1> SUFFICES ASSUME Init PROVE IInv
  OBVIOUS
<1> USE DEF Init
<1>1. TypeOK
  <2>0. 0 \in 0 .. ConnectionTimes
    BY WinPipeServerAssumption
  <2>1. tries \in [Conns -> 0 .. ConnectionTimes]
    BY <2>0
  <2> QED BY <2>1 DEF TypeOK
<1>2. Placed /\ Positions /\ ConnectedServed
  BY DEF Placed, Positions, ConnectedServed, Conns
<1>3. Rounds
  BY MadeFinite DEF Rounds
<1> QED BY <1>1, <1>2, <1>3 DEF IInv

-----------------------------------------------------------------------------
(* ServerMainTest and the tasks: none of them makes a connection *)

LEMMA MainOK ==
    ASSUME IInv, (\E c \in Clients : SpawnClient(c)) \/ SpawnFails \/ SpawnedAll \/ Stop \/ Join
    PROVE IInv'
<1> USE WinPipeServerAssumption DEF IInv, runVars, peerVars, Conns
<1>1. ASSUME NEW c \in Clients, SpawnClient(c) PROVE IInv'
  <2> USE <1>1 DEF SpawnClient
  <2>1. TypeOK' /\ Made' = Made
    BY DEF TypeOK, Made
  <2>2. Placed'
    BY <2>1 DEF TypeOK, Placed
  <2>3. Positions' /\ ConnectedServed'
    BY DEF TypeOK, Positions, ConnectedServed, Gone
  <2>4. Rounds'
    BY <2>1, MadeFinite DEF TypeOK, Placed, Positions, Rounds
  <2> QED BY <2>1, <2>2, <2>3, <2>4
<1>2. CASE SpawnFails
  <2> USE <1>2 DEF SpawnFails, Terminate
  <2>1. TypeOK' /\ Made' = Made
    BY DEF TypeOK, Made
  <2>2. Placed' /\ Rounds'
    BY <2>1 DEF Placed, Rounds
  <2>3. Positions' /\ ConnectedServed'
    BY DEF TypeOK, Positions, ConnectedServed, Gone
  <2> QED BY <2>1, <2>2, <2>3
<1>3. CASE SpawnedAll
  <2> USE <1>3 DEF SpawnedAll
  <2>1. TypeOK' /\ Made' = Made
    BY DEF TypeOK, Made
  <2>2. Placed' /\ Rounds'
    BY <2>1 DEF Placed, Rounds
  <2>3. Positions' /\ ConnectedServed'
    BY DEF TypeOK, Positions, ConnectedServed, Gone
  <2> QED BY <2>1, <2>2, <2>3
<1>4. CASE Stop
  <2> USE <1>4 DEF Stop
  <2>1. TypeOK' /\ Made' = Made
    BY DEF TypeOK, Made, Positions
  <2>2. Placed'
    BY <2>1 DEF TypeOK, Placed
  <2>3. Positions' /\ ConnectedServed'
    BY DEF TypeOK, Positions, ConnectedServed, Gone
  <2>4. Rounds'
    BY <2>1, MadeFinite DEF TypeOK, Placed, Positions, Rounds
  <2> QED BY <2>1, <2>2, <2>3, <2>4
<1>5. CASE Join
  <2> USE <1>5 DEF Join
  <2>1. TypeOK' /\ Made' = Made
    BY DEF TypeOK, Made
  <2>2. Placed' /\ Rounds'
    BY <2>1 DEF Placed, Rounds
  <2>3. Positions' /\ ConnectedServed'
    BY DEF TypeOK, Positions, ConnectedServed, Gone
  <2> QED BY <2>1, <2>2, <2>3
<1> QED BY <1>1, <1>2, <1>3, <1>4, <1>5

\* Stop fails only for what connect_to_server threw while the server was there.
LEMMA StoppedOK == ASSUME IInv, Stopped PROVE IInv'
<1> USE WinPipeServerAssumption DEF IInv, runVars, peerVars, Conns, Stopped, Terminate
<1>1. TypeOK' /\ Made' = Made
  BY DEF TypeOK, Made
<1>2. Placed' /\ Rounds'
  BY <1>1 DEF TypeOK, Placed, Rounds
<1>3. Positions' /\ ConnectedServed'
  BY DEF TypeOK, Positions, ConnectedServed, Gone
<1> QED BY <1>1, <1>2, <1>3

LEMMA TaskEndsOK == ASSUME IInv, NEW c \in Conns, TaskEnds(c) PROVE IInv'
<1> USE WinPipeServerAssumption DEF IInv, peerVars, TaskEnds
<1>1. TypeOK' /\ Made' = Made
  BY DEF TypeOK, Made
<1>2. Placed' /\ Rounds'
  BY <1>1 DEF TypeOK, Placed, Rounds
<1>3. Positions' /\ ConnectedServed'
  BY DEF TypeOK, Positions, ConnectedServed, Gone, Conns
<1> QED BY <1>1, <1>2, <1>3

LEMMA ClientEndsOK ==
    ASSUME IInv, NEW c \in Clients, ClientCloses(c) \/ ClientDies(c) PROVE IInv'
<1> USE WinPipeServerAssumption DEF IInv, runVars, Conns
<1>1. /\ peer[c] = "connected" /\ peer' = [peer EXCEPT ![c] = "closed"]
      /\ UNCHANGED <<main, why, stopLoop, runVars, failure, tries>>
  BY DEF ClientCloses, ClientDies
<1>2. TypeOK' /\ Made' = Made
  BY <1>1 DEF TypeOK, Made
<1>3. Placed' /\ Rounds'
  BY <1>1, <1>2 DEF TypeOK, Placed, Rounds
<1>4. Positions' /\ ConnectedServed'
  BY <1>1 DEF TypeOK, Positions, ConnectedServed, Gone
<1> QED BY <1>2, <1>3, <1>4

-----------------------------------------------------------------------------
(* Server::Run *)

LEMMA TestOK == ASSUME IInv, Test \/ ConnectNamedPipe PROVE IInv'
<1> USE DEF IInv, peerVars, Test, ConnectNamedPipe, RunStep
<1>1. TypeOK' /\ Made' = Made
  BY DEF TypeOK, Made
<1>2. Placed' /\ Rounds'
  BY <1>1 DEF TypeOK, Placed, Rounds
<1>3. Positions' /\ ConnectedServed'
  BY DEF TypeOK, Positions, ConnectedServed, Gone
<1> QED BY <1>1, <1>2, <1>3

\* The connection moves from the instance into the loop's hands.
LEMMA AcceptOK == ASSUME IInv, AcceptConnection \/ AcceptNoData PROVE IInv'
<1> USE WinPipeServerAssumption DEF IInv, peerVars, runVars, RunStep, Terminate
<1>1. CASE AcceptConnection
  <2> USE <1>1 DEF AcceptConnection, Accepted
  <2>1. TypeOK' /\ Made' = Made
    BY DEF TypeOK, Made
  <2>2. Placed'
    BY <2>1 DEF TypeOK, Placed
  <2>3. Rounds'
    BY <2>1, MadeFinite DEF TypeOK, Rounds
  <2>4. Positions' /\ ConnectedServed'
    BY DEF TypeOK, Positions, ConnectedServed, Gone, Conns
  <2> QED BY <2>1, <2>2, <2>3, <2>4
<1>2. CASE AcceptNoData
  <2> USE <1>2 DEF AcceptNoData
  <2>1. TypeOK' /\ Made' = Made
    BY DEF TypeOK, Made
  <2>2. Placed' /\ Rounds'
    BY <2>1 DEF TypeOK, Placed, Rounds
  <2>3. Positions' /\ ConnectedServed'
    BY DEF TypeOK, Positions, ConnectedServed, Gone
  <2> QED BY <2>1, <2>2, <2>3
<1> QED BY <1>1, <1>2

\* ... and from there to its task, or is dropped.
LEMMA CheckOK == ASSUME IInv, Check \/ StartListen PROVE IInv'
<1> USE WinPipeServerAssumption DEF IInv, peerVars, Check, CheckWith, StartListen, RunStep
<1>1. transport \in Conns /\ transport \in Made /\ transport # pipeServer
  BY DEF Placed, Made
<1>2. TypeOK' /\ Made' = Made
  BY <1>1 DEF TypeOK, Made
<1>3. Placed' /\ Rounds'
  BY <1>1, <1>2 DEF TypeOK, Placed, Rounds
<1>4. Positions' /\ ConnectedServed'
  BY <1>1 DEF TypeOK, Positions, ConnectedServed, Gone, Conns
<1> QED BY <1>2, <1>3, <1>4

-----------------------------------------------------------------------------
(* connect_to_server *)

LEMMA CreateFileOK == ASSUME IInv, NEW c \in Conns, CreateFile(c) PROVE IInv'
<1> USE WinPipeServerAssumption DEF IInv
<1>0. peer[c] = "open" /\ c \notin Made
  BY DEF CreateFile, Made
<1>1. CASE Gone /\ Throw(c, "missing")
  <2> USE <1>0, <1>1 DEF Throw, CreateFile
  <2>1. TypeOK' /\ Made' = Made
    BY DEF TypeOK, Made
  <2>2. Placed'
    BY <2>1 DEF TypeOK, Placed
  <2>3. Positions' /\ ConnectedServed'
    BY DEF TypeOK, Positions, ConnectedServed, Gone, Conns
  <2>4. Rounds'
    BY <2>1 DEF TypeOK, Rounds
  <2> QED BY <2>1, <2>2, <2>3, <2>4
<1>2. CASE ~Gone /\ pipeServer = Free
  <2> USE <1>0, <1>2
  <2>1. /\ pipeServer' = c /\ peer' = [peer EXCEPT ![c] = "connected"]
        /\ UNCHANGED <<main, why, stopLoop, run, transport, task, failure, tries>>
    BY DEF CreateFile
  <2>2. Made' = Made \cup {c} /\ Cardinality(Made') = Cardinality(Made) + 1
    BY <2>1, OneMore
  <2>3. TypeOK'
    BY <2>1 DEF TypeOK
  <2>4. Placed'
    BY <2>1, <2>2 DEF TypeOK, Placed
  <2>5. Positions' /\ ConnectedServed'
    BY <2>1 DEF TypeOK, Positions, ConnectedServed, Gone, Conns
  <2>6. Rounds'
    BY <2>1, <2>2, MadeFinite DEF TypeOK, Rounds
  <2> QED BY <2>3, <2>4, <2>5, <2>6
<1>3. CASE ~Gone /\ pipeServer # Free /\ peer' = [peer EXCEPT ![c] = "wait"]
  <2> USE <1>0, <1>3
  <2>0. UNCHANGED <<main, why, stopLoop, run, transport, task, failure, tries, pipeServer>>
    BY DEF CreateFile, Throw
  <2>1. TypeOK' /\ Made' = Made
    BY <2>0 DEF TypeOK, Made
  <2>2. Placed'
    BY <2>0, <2>1 DEF TypeOK, Placed
  <2>3. Positions' /\ ConnectedServed'
    BY <2>0 DEF TypeOK, Positions, ConnectedServed, Gone, Conns
  <2>4. Rounds'
    BY <2>0, <2>1 DEF TypeOK, Rounds
  <2> QED BY <2>1, <2>2, <2>3, <2>4
<1> QED BY <1>1, <1>2, <1>3 DEF CreateFile

\* A round ends while an instance listens: the last of ConnectionTimes rounds
\* would need as many connections, this one not among them.
LEMMA AfterWaitOK ==
    ASSUME IInv, NEW c \in Conns, peer[c] = "wait", ~Gone, pipeServer = Free, AfterWait(c),
           UNCHANGED <<main, why, stopLoop, run, transport, task>>
    PROVE IInv'
<1> USE WinPipeServerAssumption DEF IInv, AfterWait, Throw
<1>1. c \notin Made /\ tries[c] + 1 <= Cardinality(Made) /\ tries[c] \in 0 .. ConnectionTimes
  BY DEF Made, Rounds, TypeOK
<1>2. Cardinality(Made) < Cardinality(Conns) /\ Cardinality(Made) \in Nat /\ Cardinality(Conns) \in Nat
  BY <1>1, MadeFinite
<1>3. TypeOK' /\ Made' = Made
  BY <1>1 DEF TypeOK, Made
<1>4. Placed'
  BY <1>3 DEF TypeOK, Placed
<1>5. Positions' /\ ConnectedServed'
  BY DEF TypeOK, Positions, ConnectedServed, Gone, Conns
<1>6. Rounds'
  BY <1>1, <1>2, <1>3 DEF TypeOK, Rounds
<1> QED BY <1>3, <1>4, <1>5, <1>6

LEMMA WaitFailsOK ==
    ASSUME IInv, NEW c \in Conns, peer[c] = "wait", Throw(c, "timeout"),
           UNCHANGED <<main, why, stopLoop, run, transport, task>>
    PROVE IInv'
<1> USE WinPipeServerAssumption DEF IInv, Throw
<1>1. TypeOK' /\ Made' = Made
  BY DEF TypeOK, Made
<1>2. Placed'
  BY <1>1 DEF TypeOK, Placed
<1>3. Positions' /\ ConnectedServed'
  BY DEF TypeOK, Positions, ConnectedServed, Gone, Conns
<1>4. Rounds'
  BY <1>1 DEF TypeOK, Rounds
<1> QED BY <1>1, <1>2, <1>3, <1>4

-----------------------------------------------------------------------------
\* Every step of the server, of its main program and of the clients keeps the
\* invariant.
THEOREM Inductive == Spec => []IInv
<1>1. IInv /\ [Next]_vars => IInv'
  <2> SUFFICES ASSUME IInv, [Next]_vars PROVE IInv'
    OBVIOUS
  <2>1. CASE Main \/ SpawnFails
    BY <2>1, MainOK, StoppedOK DEF Main
  <2>2. CASE RunThread
    BY <2>2, TestOK, AcceptOK, CheckOK DEF RunThread
  <2>3. ASSUME NEW c \in Conns, Connecting(c) \/ WaitTimesOut(c) \/ TaskEnds(c) PROVE IInv'
    BY <2>3, CreateFileOK, AfterWaitOK, WaitFailsOK, TaskEndsOK
    DEF Connecting, WaitNamedPipe, WaitTimesOut
  <2>4. ASSUME NEW c \in Clients, ClientCloses(c) \/ ClientDies(c) PROVE IInv'
    BY <2>4, ClientEndsOK
  <2>5. CASE UNCHANGED vars
    <3>1. Made' = Made
      BY <2>5 DEF vars, peerVars, Made
    <3> QED BY <2>5, <3>1
        DEF vars, runVars, peerVars, IInv, TypeOK, Placed, Positions, ConnectedServed, Rounds, Gone
  <2> QED BY <2>1, <2>2, <2>3, <2>4, <2>5 DEF Next
<1> QED BY InitOK, <1>1, PTL DEF Spec

\* Every variable keeps its type, and until Server::Stop a connected client is at
\* the listening instance, in the accept loop or with its task, for any number of
\* clients.
THEOREM ConnectedIsServed == Spec => []Consistent
<1>1. IInv => Consistent
  BY DEF IInv, Consistent
<1> QED BY <1>1, Inductive, PTL

\* connect_to_server never gives up after its rounds when there are at least as
\* many rounds as connections (10 and 6 in the code), and finds the name missing
\* only when the server is gone.
THEOREM RoundsSuffice == Spec => []TurnedAway
<1>1. IInv => TurnedAway
  BY DEF IInv, Positions, Rounds, TurnedAway
<1> QED BY <1>1, Inductive, PTL

\* With enough rounds Stop terminates the process only for a pipe that was busy for
\* 200 milliseconds, and accept_connection only for a connection that no task had.
THEOREM TerminationExplained ==
    ASSUME Cardinality(Conns) <= ConnectionTimes
    PROVE Spec => []TerminatedFor
<1>1. IInv => TerminatedFor
  <2> SUFFICES ASSUME IInv PROVE TerminatedFor
    OBVIOUS
  <2>1. why = "connect" => failure[Unblock] = "timeout"
    BY DEF IInv, Positions, Rounds, Conns
  <2>2. why = "assign" => pipeServer # Free /\ task[pipeServer] = "none"
    BY DEF IInv, Placed, Positions
  <2> QED BY <2>1, <2>2 DEF TerminatedFor
<1> QED BY <1>1, Inductive, PTL
=============================================================================
