--------------------------- MODULE PipeServerProofs ---------------------------
(***************************************************************************)
(* Proofs about PipeServer for any number of clients, any number of io     *)
(* threads and any length of the dialogue.  The two sides of a dialogue    *)
(* pass one message back and forth (Exchange), which is what keeps two     *)
(* HandleReads out of one task; a task goes through its states in the      *)
(* order of HandleRead (InOrder); and every TaskCounter that some task     *)
(* holds, or is about to store, is in the count (Counted).                 *)
(***************************************************************************)
EXTENDS PipeServer, FiniteSetTheorems, TLAPS

\* The backlog holds the connections that are waiting, each once.
Waiting ==
    /\ \A i \in 1 .. Len(backlog) : conn[backlog[i]] = "backlog"
    /\ \A i, j \in 1 .. Len(backlog) : backlog[i] = backlog[j] => i = j

\* How far a connection is, by the positions of main and of the client.
Connected ==
    /\ \A c \in Clients : client[c] \in {"unborn", "connect"} => conn[c] = "none"
    /\ main \in {"spawn", "wait", "stop"} => conn[Unblock] = "none"
    /\ main = "stop" \/ conn[Unblock] # "none" => stopLoop
    /\ \A c \in Clients : conn[c] = "accepted" <=> Referenced(task[c])

\* One task: where HandleRead is, and what the count is owed.
TaskOK(k) ==
    /\ k.read => k.state <= Buy
    /\ k.handler \in {"count", "store"} => k.state < Buy
    /\ k.handler = "respond" => k.state < Buy \/ (k.state = Buy /\ ~k.read)
    /\ k.accept = "store" => k.sawAccept <= k.held
    /\ k.handler = "store" => k.sawRead <= k.held

InOrder == \A c \in Clients : TaskOK(task[c])

\* Nobody gives up listening before the end but for a client that is gone.
Listens(k) == k.read \/ k.state = Buy + 1 \/ (k.handler = "respond" /\ k.state = Buy)

Listening == \A c \in Clients : conn[c] = "accepted" => Listens(task[c]) \/ ClientClosed(c)

\* The one message of a dialogue.
AtServer(c) == task[c].handler # "idle" \/ task[c].sending
Exchange ==
    \A c \in Clients :
        /\ toServer[c] = 1 => ~AtServer(c) /\ toClient[c] = 0
        /\ AtServer(c) => toClient[c] = 0
        /\ task[c].handler # "idle" => ~task[c].sending
        /\ op[c] # "none" => ~readyToSend[c]
        /\ (toServer[c] = 1 \/ AtServer(c) \/ toClient[c] # 0)
              /\ ~ClientClosed(c) /\ ~PeerClosed(c) => op[c] = "read"

\* Tasks that hold a TaskCounter, and those that are about to store a new one.
Holding == {c \in Clients : task[c].held = 1}
AcceptStoring == {c \in Clients : task[c].accept = "store"}
ReadStoring == {c \in Clients : task[c].handler = "store"}
Counted ==
    counter >= Cardinality(Holding) + Cardinality(AcceptStoring) + Cardinality(ReadStoring)

IInv ==
    /\ TypeOK /\ Waiting /\ Connected
    /\ InOrder /\ Listening /\ Exchange /\ Counted

-----------------------------------------------------------------------------
(* Counting *)

\* The TaskCounters a task holds or is about to store.
Owed(k) ==
    k.held + (IF k.accept = "store" THEN 1 ELSE 0) + (IF k.handler = "store" THEN 1 ELSE 0)

Owing == Cardinality(Holding) + Cardinality(AcceptStoring) + Cardinality(ReadStoring)

LEMMA OwedType == ASSUME NEW k \in TaskType PROVE Owed(k) \in Nat
BY DEF Owed, TaskType

\* Two sets that differ in one element at most.
LEMMA OneMember ==
    ASSUME NEW S, NEW T, NEW c, IsFiniteSet(S), S \ {c} = T \ {c}
    PROVE /\ Cardinality(S) \in Nat /\ Cardinality(T) \in Nat
          /\ Cardinality(T) + (IF c \in S THEN 1 ELSE 0)
                = Cardinality(S) + (IF c \in T THEN 1 ELSE 0)
<1>1. IsFiniteSet(S \ {c}) /\ IsFiniteSet(T \ {c})
  BY FS_RemoveElement
<1>2. T = T \ {c} \/ T = (T \ {c}) \cup {c}
  OBVIOUS
<1>3. IsFiniteSet(T)
  BY <1>1, <1>2, FS_AddElement
<1>4. /\ Cardinality(S \ {c}) = IF c \in S THEN Cardinality(S) - 1 ELSE Cardinality(S)
      /\ Cardinality(T \ {c}) = IF c \in T THEN Cardinality(T) - 1 ELSE Cardinality(T)
  BY <1>3, FS_RemoveElement
<1>5. Cardinality(S) \in Nat /\ Cardinality(T) \in Nat
  BY <1>3, FS_CardinalityType
<1>6. Cardinality(S \ {c}) = Cardinality(T \ {c})
  OBVIOUS
<1> QED BY <1>4, <1>5, <1>6

\* A step of one task changes what is owed by what that task owes.
LEMMA OwingMoves ==
    ASSUME task \in [Clients -> TaskType], task' \in [Clients -> TaskType], NEW c \in Clients,
           \A d \in Clients : d # c => task'[d] = task[d]
    PROVE /\ Owing \in Nat /\ Owing' \in Nat
          /\ Owing' = Owing + Owed(task'[c]) - Owed(task[c])
<1>0. /\ IsFiniteSet(Holding) /\ IsFiniteSet(AcceptStoring) /\ IsFiniteSet(ReadStoring)
      /\ task[c].held \in 0 .. 1 /\ task'[c].held \in 0 .. 1
  <2>1. Holding \subseteq Clients /\ AcceptStoring \subseteq Clients /\ ReadStoring \subseteq Clients
    BY DEF Holding, AcceptStoring, ReadStoring
  <2> QED BY <2>1, FS_Subset, PipeServerAssumption DEF TaskType
<1>1. /\ Cardinality(Holding) \in Nat /\ Cardinality(Holding') \in Nat
      /\ Cardinality(Holding') + task[c].held = Cardinality(Holding) + task'[c].held
  <2>1. Holding \ {c} = Holding' \ {c}
    BY DEF Holding
  <2>2. /\ task[c].held = IF c \in Holding THEN 1 ELSE 0
        /\ task'[c].held = IF c \in Holding' THEN 1 ELSE 0
    BY <1>0 DEF Holding
  <2> QED BY <1>0, <2>1, <2>2, OneMember
<1>2. /\ Cardinality(AcceptStoring) \in Nat /\ Cardinality(AcceptStoring') \in Nat
      /\ Cardinality(AcceptStoring') + (IF task[c].accept = "store" THEN 1 ELSE 0)
            = Cardinality(AcceptStoring) + (IF task'[c].accept = "store" THEN 1 ELSE 0)
  <2>1. AcceptStoring \ {c} = AcceptStoring' \ {c}
    BY DEF AcceptStoring
  <2>2. /\ c \in AcceptStoring <=> task[c].accept = "store"
        /\ c \in AcceptStoring' <=> task'[c].accept = "store"
    BY DEF AcceptStoring
  <2> QED BY <1>0, <2>1, <2>2, OneMember
<1>3. /\ Cardinality(ReadStoring) \in Nat /\ Cardinality(ReadStoring') \in Nat
      /\ Cardinality(ReadStoring') + (IF task[c].handler = "store" THEN 1 ELSE 0)
            = Cardinality(ReadStoring) + (IF task'[c].handler = "store" THEN 1 ELSE 0)
  <2>1. ReadStoring \ {c} = ReadStoring' \ {c}
    BY DEF ReadStoring
  <2>2. /\ c \in ReadStoring <=> task[c].handler = "store"
        /\ c \in ReadStoring' <=> task'[c].handler = "store"
    BY DEF ReadStoring
  <2> QED BY <1>0, <2>1, <2>2, OneMember
<1> DEFINE h == task[c].held
           hh == task'[c].held
           a == IF task[c].accept = "store" THEN 1 ELSE 0
           aa == IF task'[c].accept = "store" THEN 1 ELSE 0
           r == IF task[c].handler = "store" THEN 1 ELSE 0
           rr == IF task'[c].handler = "store" THEN 1 ELSE 0
<1>4. h \in Int /\ hh \in Int /\ a \in Int /\ aa \in Int /\ r \in Int /\ rr \in Int
  BY <1>0
<1>5. Owed(task[c]) = h + a + r /\ Owed(task'[c]) = hh + aa + rr
  BY DEF Owed
<1>6. /\ Cardinality(Holding') + h = Cardinality(Holding) + hh
      /\ Cardinality(AcceptStoring') + a = Cardinality(AcceptStoring) + aa
      /\ Cardinality(ReadStoring') + r = Cardinality(ReadStoring) + rr
  BY <1>1, <1>2, <1>3
<1> HIDE DEF h, hh, a, aa, r, rr
<1> QED BY <1>1, <1>2, <1>3, <1>4, <1>5, <1>6 DEF Owing

-----------------------------------------------------------------------------
(* Steps of a task *)

LEMMA NewTaskOK ==
    /\ NewTask \in TaskType /\ ~Referenced(NewTask) /\ TaskOK(NewTask) /\ Owed(NewTask) = 0
    /\ NewTask.read = FALSE /\ NewTask.sending = FALSE /\ NewTask.handler = "idle"
BY PipeServerAssumption DEF NewTask, TaskType, HandlerStates, Referenced, TaskOK, Owed

\* What Update leaves behind.
Left(k) == IF Referenced(k) THEN k ELSE [NewTask EXCEPT !.state = k.state, !.finished = k.finished]

LEMMA LeftOK ==
    ASSUME NEW k \in TaskType, TaskOK(k)
    PROVE /\ Left(k) \in TaskType /\ TaskOK(Left(k))
          /\ Referenced(Left(k)) <=> Referenced(k)
          /\ ~Referenced(k) => Left(k).handler = "idle" /\ ~Left(k).sending /\ Owed(Left(k)) = 0
          /\ ~Referenced(k) => Owed(k) = k.held
<1>1. CASE Referenced(k)
  BY <1>1 DEF Left
<1>2. CASE ~Referenced(k)
  <2>1. /\ k.state \in 0 .. (Buy + 1) /\ k.finished \in BOOLEAN /\ k.held \in 0 .. 1
        /\ k.accept = "idle" /\ k.handler = "idle"
    BY <1>2 DEF TaskType, Referenced
  <2>2. Left(k) = [NewTask EXCEPT !.state = k.state, !.finished = k.finished]
    BY <1>2 DEF Left
  <2>3. Left(k) \in TaskType
    BY <2>1, <2>2, NewTaskOK DEF NewTask, TaskType
  <2>4. ~Referenced(Left(k)) /\ TaskOK(Left(k)) /\ Owed(Left(k)) = 0
    BY <2>1, <2>2, PipeServerAssumption DEF NewTask, Referenced, TaskOK, Owed
  <2>5. Left(k).handler = "idle" /\ ~Left(k).sending
    BY <2>2 DEF NewTask
  <2> QED BY <1>2, <2>1, <2>3, <2>4, <2>5 DEF Owed
<1> QED BY <1>1, <1>2

LEMMA UpdateResult ==
    ASSUME TypeOK, NEW c \in Clients, NEW k \in TaskType, TaskOK(k), NEW n \in Int, Update(c, k, n)
    PROVE /\ task' \in [Clients -> TaskType] /\ task'[c] = Left(k)
          /\ conn' \in [Conns -> {"none", "backlog", "accepted", "dropped"}]
          /\ \A d \in Clients : d # c => task'[d] = task[d]
          /\ \A d \in Conns : d # c => conn'[d] = conn[d]
          /\ conn'[c] = IF Referenced(k) THEN conn[c] ELSE "dropped"
          /\ counter' = IF Referenced(k) THEN n ELSE n - k.held
<1>1. /\ task' = [task EXCEPT ![c] = Left(k)]
      /\ conn' = IF Referenced(k) THEN conn ELSE [conn EXCEPT ![c] = "dropped"]
      /\ counter' = IF Referenced(k) THEN n ELSE n - k.held
  BY DEF Update, Left
<1> QED BY <1>1, LeftOK DEF TypeOK, Conns

\* The message of c's dialogue, when its task is k and the sockets hold ts and tc.
ExchangeOf(c, k, ts, tc) ==
    /\ ts = 1 => k.handler = "idle" /\ ~k.sending /\ tc = 0
    /\ k.handler # "idle" \/ k.sending => tc = 0
    /\ k.handler # "idle" => ~k.sending
    /\ (ts = 1 \/ k.handler # "idle" \/ k.sending \/ tc # 0) /\ ~ClientClosed(c) => op[c] = "read"

\* A step that takes the task of c to k is right if k is, for c and for the count.
LEMMA TaskKeeps ==
    ASSUME IInv, NEW c \in Clients, NEW k \in TaskType, NEW n \in Int, Update(c, k, n),
           UNCHANGED <<main, runThread, ioVars, backlog, clientVars>>,
           accept' \in {"none", "armed", "handling"},
           toServer' \in [Clients -> 0 .. 1], toClient' \in [Clients -> 0 .. Buy],
           \A d \in Clients : d # c => toServer'[d] = toServer[d] /\ toClient'[d] = toClient[d],
           Referenced(task[c]), TaskOK(k),
           Referenced(k) => Listens(k) \/ ClientClosed(c),
           ExchangeOf(c, k, toServer'[c], toClient'[c]),
           n - Owed(k) >= counter - Owed(task[c])
    PROVE IInv'
<1> USE DEF IInv
<1>0. conn[c] = "accepted" /\ c \in Conns /\ Unblock \in Conns /\ c # Unblock
  BY PipeServerAssumption DEF Connected, Conns
<1>1. /\ task' \in [Clients -> TaskType] /\ task'[c] = Left(k)
      /\ conn' \in [Conns -> {"none", "backlog", "accepted", "dropped"}]
      /\ \A d \in Clients : d # c => task'[d] = task[d]
      /\ \A d \in Conns : d # c => conn'[d] = conn[d]
      /\ conn'[c] = IF Referenced(k) THEN "accepted" ELSE "dropped"
      /\ counter' = IF Referenced(k) THEN n ELSE n - k.held
  BY <1>0, UpdateResult
<1>2. /\ Left(k) \in TaskType /\ TaskOK(Left(k)) /\ (Referenced(Left(k)) <=> Referenced(k))
      /\ (~Referenced(k) => Left(k).handler = "idle" /\ ~Left(k).sending /\ Owed(Left(k)) = 0)
      /\ (~Referenced(k) => Owed(k) = k.held)
      /\ (Referenced(k) => Left(k) = k)
  BY LeftOK DEF Left
<1>3. /\ client' = client /\ op' = op /\ readyToSend' = readyToSend /\ stopProcessing' = stopProcessing
      /\ main' = main /\ runThread' = runThread /\ backlog' = backlog
      /\ work' = work /\ stopLoop' = stopLoop /\ ioStopped' = ioStopped
  BY DEF ioVars, clientVars
<1>4. Counted' /\ counter' \in Nat
  <2>1. /\ Owing \in Nat /\ Owing' \in Nat
        /\ Owing' = Owing + Owed(Left(k)) - Owed(task[c])
    BY <1>1, OwingMoves DEF TypeOK
  <2>2. counter >= Owing /\ counter \in Nat
    BY DEF Counted, Owing, TypeOK
  <2>3. Owed(k) \in Int /\ Owed(task[c]) \in Int /\ k.held \in Int
    BY OwedType, Nat \subseteq Int DEF TypeOK, TaskType
  <2>4. counter' - Owed(Left(k)) >= counter - Owed(task[c]) /\ counter' \in Int /\ Owed(Left(k)) \in Int
    <3>1. CASE Referenced(k)
      BY <3>1, <1>1, <1>2, <2>2, <2>3
    <3>2. CASE ~Referenced(k)
      BY <3>2, <1>1, <1>2, <2>2, <2>3
    <3> QED BY <3>1, <3>2
  <2>5. counter' >= Owing'
    BY <2>1, <2>2, <2>3, <2>4
  <2> QED BY <2>1, <2>4, <2>5 DEF Counted, Owing
<1>5. TypeOK'
  BY <1>1, <1>3, <1>4 DEF TypeOK
<1>6. Waiting'
  BY <1>0, <1>1, <1>3 DEF TypeOK, Waiting
<1>7. Connected'
  BY <1>0, <1>1, <1>2, <1>3 DEF Connected, Conns
<1>8. InOrder'
  BY <1>1, <1>2 DEF InOrder
<1>9. Listening'
  BY <1>1, <1>2, <1>3 DEF Listening, ClientClosed, Conns
<1>10. Exchange'
  <2> SUFFICES ASSUME NEW d \in Clients
               PROVE /\ toServer'[d] = 1 => ~AtServer(d)' /\ toClient'[d] = 0
                     /\ AtServer(d)' => toClient'[d] = 0
                     /\ task'[d].handler # "idle" => ~task'[d].sending
                     /\ op'[d] # "none" => ~readyToSend'[d]
                     /\ (toServer'[d] = 1 \/ AtServer(d)' \/ toClient'[d] # 0)
                           /\ ~ClientClosed(d)' /\ ~PeerClosed(d)' => op'[d] = "read"
    BY DEF Exchange
  <2>1. CASE d # c
    BY <2>1, <1>1, <1>3 DEF Exchange, AtServer, ClientClosed, PeerClosed, ServerGone, Conns
  <2>2. CASE d = c
    BY <2>2, <1>1, <1>2, <1>3 DEF Exchange, ExchangeOf, AtServer, ClientClosed, PeerClosed
  <2> QED BY <2>1, <2>2
<1> QED BY <1>4, <1>5, <1>6, <1>7, <1>8, <1>9, <1>10

\* What a handler that runs for c may rely on.
LEMMA TaskFacts ==
    ASSUME IInv, NEW c \in Clients, IoRuns, Referenced(task[c])
    PROVE /\ task[c] \in TaskType /\ TaskOK(task[c])
          /\ Listens(task[c]) \/ ClientClosed(c)
          /\ ExchangeOf(c, task[c], toServer[c], toClient[c])
          /\ counter \in Nat /\ task[c].held \in 0 .. 1
          /\ toServer[c] \in 0 .. 1 /\ toClient[c] \in 0 .. Buy
<1>1. conn[c] = "accepted" /\ ~PeerClosed(c)
  BY DEF IInv, Connected, IoRuns, PeerClosed
<1>2. ExchangeOf(c, task[c], toServer[c], toClient[c])
  BY <1>1 DEF IInv, Exchange, ExchangeOf, AtServer
<1> QED BY <1>1, <1>2 DEF IInv, TypeOK, TaskType, InOrder, Listening

LEMMA AcceptCountOK == ASSUME IInv, NEW c \in Clients, AcceptCount(c) PROVE IInv'
<1> DEFINE k == [task[c] EXCEPT !.accept = "store", !.sawAccept = task[c].held]
           n == counter + 1
<1>1. /\ IoRuns /\ Referenced(task[c]) /\ Update(c, k, n)
      /\ UNCHANGED <<main, runThread, ioVars, backlog, clientVars>>
  BY DEF AcceptCount, ServerStep, Referenced
<1>2. /\ task[c] \in TaskType /\ TaskOK(task[c]) /\ (Listens(task[c]) \/ ClientClosed(c))
      /\ ExchangeOf(c, task[c], toServer[c], toClient[c])
      /\ counter \in Nat /\ task[c].held \in 0 .. 1
      /\ toServer[c] \in 0 .. 1 /\ toClient[c] \in 0 .. Buy
  BY <1>1, TaskFacts
<1>3. /\ accept' \in {"none", "armed", "handling"}
      /\ toServer' \in [Clients -> 0 .. 1] /\ toClient' \in [Clients -> 0 .. Buy]
      /\ \A d \in Clients : d # c => toServer'[d] = toServer[d] /\ toClient'[d] = toClient[d]
  BY <1>2 DEF AcceptCount, IInv, TypeOK, TaskType, sockets
<1>4. k \in TaskType
  BY <1>2, PipeServerAssumption DEF AcceptCount, TaskType, HandlerStates, TaskOK
<1>5. TaskOK(k)
  BY <1>2, PipeServerAssumption DEF AcceptCount, TaskType, TaskOK, Referenced
<1>6. Referenced(k) => Listens(k) \/ ClientClosed(c)
  BY <1>2, PipeServerAssumption DEF AcceptCount, TaskType, TaskOK, Listens
<1>7. ExchangeOf(c, k, toServer'[c], toClient'[c])
  BY <1>2 DEF AcceptCount, IInv, TypeOK, TaskType, ExchangeOf, sockets
<1>8. n \in Int /\ n - Owed(k) >= counter - Owed(task[c])
  BY <1>2 DEF AcceptCount, TaskType, TaskOK, Owed
<1> HIDE DEF k, n
<1> QED BY <1>1, <1>3, <1>4, <1>5, <1>6, <1>7, <1>8, TaskKeeps

\* What is released was held before, and what is stored has been counted.
LEMMA AcceptStoreOK == ASSUME IInv, NEW c \in Clients, AcceptStore(c) PROVE IInv'
<1> DEFINE k == [task[c] EXCEPT !.accept = "idle", !.held = 1, !.sawAccept = 0]
           n == counter - task[c].sawAccept
<1>1. /\ IoRuns /\ Referenced(task[c]) /\ Update(c, k, n)
      /\ UNCHANGED <<main, runThread, ioVars, backlog, clientVars>>
  BY DEF AcceptStore, ServerStep, Referenced
<1>2. /\ task[c] \in TaskType /\ TaskOK(task[c]) /\ (Listens(task[c]) \/ ClientClosed(c))
      /\ ExchangeOf(c, task[c], toServer[c], toClient[c])
      /\ counter \in Nat /\ task[c].held \in 0 .. 1
      /\ toServer[c] \in 0 .. 1 /\ toClient[c] \in 0 .. Buy
  BY <1>1, TaskFacts
<1>3. /\ accept' \in {"none", "armed", "handling"}
      /\ toServer' \in [Clients -> 0 .. 1] /\ toClient' \in [Clients -> 0 .. Buy]
      /\ \A d \in Clients : d # c => toServer'[d] = toServer[d] /\ toClient'[d] = toClient[d]
  BY <1>2 DEF AcceptStore, IInv, TypeOK, TaskType, sockets
<1>4. k \in TaskType
  <2>1. 0 \in 0 .. 1 /\ 1 \in 0 .. 1
    BY <1>2, PipeServerAssumption DEF AcceptStore
  <2> QED BY <1>2, <2>1 DEF TaskType, HandlerStates
<1>5. TaskOK(k)
  BY <1>2, PipeServerAssumption DEF AcceptStore, TaskType, TaskOK, Referenced
<1>6. Referenced(k) => Listens(k) \/ ClientClosed(c)
  BY <1>2, PipeServerAssumption DEF AcceptStore, TaskType, TaskOK, Listens
<1>7. ExchangeOf(c, k, toServer'[c], toClient'[c])
  BY <1>2 DEF AcceptStore, IInv, TypeOK, TaskType, ExchangeOf, sockets
<1>8. n \in Int /\ n - Owed(k) >= counter - Owed(task[c])
  BY <1>2 DEF AcceptStore, TaskType, TaskOK, Owed
<1> HIDE DEF k, n
<1> QED BY <1>1, <1>3, <1>4, <1>5, <1>6, <1>7, <1>8, TaskKeeps

\* The message is at the server, so no other HandleRead of this task runs.
LEMMA HandleReadOK == ASSUME IInv, NEW c \in Clients, HandleRead(c) PROVE IInv'
<1> DEFINE k == IF task[c].state # Buy THEN [task[c] EXCEPT !.handler = "count"]
                ELSE [task[c] EXCEPT !.handler = "respond", !.read = FALSE]
           n == counter
<1>1. /\ IoRuns /\ Referenced(task[c]) /\ Update(c, k, n)
      /\ UNCHANGED <<main, runThread, ioVars, backlog, clientVars>>
  BY DEF HandleRead, ServerStep, Referenced, HandleReadWhen
<1>2. /\ task[c] \in TaskType /\ TaskOK(task[c]) /\ (Listens(task[c]) \/ ClientClosed(c))
      /\ ExchangeOf(c, task[c], toServer[c], toClient[c])
      /\ counter \in Nat /\ task[c].held \in 0 .. 1
      /\ toServer[c] \in 0 .. 1 /\ toClient[c] \in 0 .. Buy
  BY <1>1, TaskFacts
<1>3. /\ accept' \in {"none", "armed", "handling"}
      /\ toServer' \in [Clients -> 0 .. 1] /\ toClient' \in [Clients -> 0 .. Buy]
      /\ \A d \in Clients : d # c => toServer'[d] = toServer[d] /\ toClient'[d] = toClient[d]
  BY <1>2 DEF HandleRead, IInv, TypeOK, TaskType, sockets, HandleReadWhen
<1>4. k \in TaskType
  BY <1>2, PipeServerAssumption DEF HandleRead, TaskType, HandlerStates, TaskOK, HandleReadWhen
<1>5. TaskOK(k)
  BY <1>2, PipeServerAssumption DEF HandleRead, TaskType, TaskOK, Referenced, HandleReadWhen
<1>6. Referenced(k) => Listens(k) \/ ClientClosed(c)
  BY <1>2, PipeServerAssumption DEF HandleRead, TaskType, TaskOK, Listens, HandleReadWhen
<1>7. ExchangeOf(c, k, toServer'[c], toClient'[c])
  BY <1>2 DEF HandleRead, IInv, TypeOK, TaskType, ExchangeOf, sockets, HandleReadWhen
<1>8. n \in Int /\ n - Owed(k) >= counter - Owed(task[c])
  BY <1>2 DEF HandleRead, TaskType, TaskOK, Owed, HandleReadWhen
<1> HIDE DEF k, n
<1> QED BY <1>1, <1>3, <1>4, <1>5, <1>6, <1>7, <1>8, TaskKeeps

LEMMA HandleReadErrorOK == ASSUME IInv, NEW c \in Clients, HandleReadError(c) PROVE IInv'
<1> DEFINE k == [task[c] EXCEPT !.read = FALSE]
           n == counter
<1>1. /\ IoRuns /\ Referenced(task[c]) /\ Update(c, k, n)
      /\ UNCHANGED <<main, runThread, ioVars, backlog, clientVars>>
  BY DEF HandleReadError, ServerStep, Referenced
<1>2. /\ task[c] \in TaskType /\ TaskOK(task[c]) /\ (Listens(task[c]) \/ ClientClosed(c))
      /\ ExchangeOf(c, task[c], toServer[c], toClient[c])
      /\ counter \in Nat /\ task[c].held \in 0 .. 1
      /\ toServer[c] \in 0 .. 1 /\ toClient[c] \in 0 .. Buy
  BY <1>1, TaskFacts
<1>3. /\ accept' \in {"none", "armed", "handling"}
      /\ toServer' \in [Clients -> 0 .. 1] /\ toClient' \in [Clients -> 0 .. Buy]
      /\ \A d \in Clients : d # c => toServer'[d] = toServer[d] /\ toClient'[d] = toClient[d]
  BY <1>2 DEF HandleReadError, IInv, TypeOK, TaskType, sockets
<1>4. k \in TaskType
  BY <1>2, PipeServerAssumption DEF HandleReadError, TaskType, HandlerStates, TaskOK
<1>5. TaskOK(k)
  BY <1>2, PipeServerAssumption DEF HandleReadError, TaskType, TaskOK, Referenced
<1>6. Referenced(k) => Listens(k) \/ ClientClosed(c)
  BY <1>2, PipeServerAssumption DEF HandleReadError, TaskType, TaskOK, Listens
<1>7. ExchangeOf(c, k, toServer'[c], toClient'[c])
  BY <1>2 DEF HandleReadError, IInv, TypeOK, TaskType, ExchangeOf, sockets
<1>8. n \in Int /\ n - Owed(k) >= counter - Owed(task[c])
  BY <1>2 DEF HandleReadError, TaskType, TaskOK, Owed
<1> HIDE DEF k, n
<1> QED BY <1>1, <1>3, <1>4, <1>5, <1>6, <1>7, <1>8, TaskKeeps

LEMMA ReadCountOK == ASSUME IInv, NEW c \in Clients, ReadCount(c) PROVE IInv'
<1> DEFINE k == [task[c] EXCEPT !.handler = "store", !.sawRead = task[c].held]
           n == counter + 1
<1>1. /\ IoRuns /\ Referenced(task[c]) /\ Update(c, k, n)
      /\ UNCHANGED <<main, runThread, ioVars, backlog, clientVars>>
  BY DEF ReadCount, ServerStep, Referenced
<1>2. /\ task[c] \in TaskType /\ TaskOK(task[c]) /\ (Listens(task[c]) \/ ClientClosed(c))
      /\ ExchangeOf(c, task[c], toServer[c], toClient[c])
      /\ counter \in Nat /\ task[c].held \in 0 .. 1
      /\ toServer[c] \in 0 .. 1 /\ toClient[c] \in 0 .. Buy
  BY <1>1, TaskFacts
<1>3. /\ accept' \in {"none", "armed", "handling"}
      /\ toServer' \in [Clients -> 0 .. 1] /\ toClient' \in [Clients -> 0 .. Buy]
      /\ \A d \in Clients : d # c => toServer'[d] = toServer[d] /\ toClient'[d] = toClient[d]
  BY <1>2 DEF ReadCount, IInv, TypeOK, TaskType, sockets
<1>4. k \in TaskType
  BY <1>2, PipeServerAssumption DEF ReadCount, TaskType, HandlerStates, TaskOK
<1>5. TaskOK(k)
  BY <1>2, PipeServerAssumption DEF ReadCount, TaskType, TaskOK, Referenced
<1>6. Referenced(k) => Listens(k) \/ ClientClosed(c)
  BY <1>2, PipeServerAssumption DEF ReadCount, TaskType, TaskOK, Listens
<1>7. ExchangeOf(c, k, toServer'[c], toClient'[c])
  BY <1>2 DEF ReadCount, IInv, TypeOK, TaskType, ExchangeOf, sockets
<1>8. n \in Int /\ n - Owed(k) >= counter - Owed(task[c])
  BY <1>2 DEF ReadCount, TaskType, TaskOK, Owed
<1> HIDE DEF k, n
<1> QED BY <1>1, <1>3, <1>4, <1>5, <1>6, <1>7, <1>8, TaskKeeps

LEMMA ReadStoreOK == ASSUME IInv, NEW c \in Clients, ReadStore(c) PROVE IInv'
<1> DEFINE k == [task[c] EXCEPT !.handler = "respond", !.held = 1, !.sawRead = 0]
           n == counter - task[c].sawRead
<1>1. /\ IoRuns /\ Referenced(task[c]) /\ Update(c, k, n)
      /\ UNCHANGED <<main, runThread, ioVars, backlog, clientVars>>
  BY DEF ReadStore, ServerStep, Referenced, ReadStoreReleasing
<1>2. /\ task[c] \in TaskType /\ TaskOK(task[c]) /\ (Listens(task[c]) \/ ClientClosed(c))
      /\ ExchangeOf(c, task[c], toServer[c], toClient[c])
      /\ counter \in Nat /\ task[c].held \in 0 .. 1
      /\ toServer[c] \in 0 .. 1 /\ toClient[c] \in 0 .. Buy
  BY <1>1, TaskFacts
<1>3. /\ accept' \in {"none", "armed", "handling"}
      /\ toServer' \in [Clients -> 0 .. 1] /\ toClient' \in [Clients -> 0 .. Buy]
      /\ \A d \in Clients : d # c => toServer'[d] = toServer[d] /\ toClient'[d] = toClient[d]
  BY <1>2 DEF ReadStore, IInv, TypeOK, TaskType, sockets, ReadStoreReleasing
<1>4. k \in TaskType
  <2>1. 0 \in 0 .. 1 /\ 1 \in 0 .. 1
    BY <1>2, PipeServerAssumption DEF ReadStore
  <2> QED BY <1>2, <2>1 DEF TaskType, HandlerStates
<1>5. TaskOK(k)
  BY <1>2, PipeServerAssumption DEF ReadStore, TaskType, TaskOK, Referenced, ReadStoreReleasing
<1>6. Referenced(k) => Listens(k) \/ ClientClosed(c)
  BY <1>2, PipeServerAssumption DEF ReadStore, TaskType, TaskOK, Listens, ReadStoreReleasing
<1>7. ExchangeOf(c, k, toServer'[c], toClient'[c])
  BY <1>2 DEF ReadStore, IInv, TypeOK, TaskType, ExchangeOf, sockets, ReadStoreReleasing
<1>8. n \in Int /\ n - Owed(k) >= counter - Owed(task[c])
  BY <1>2 DEF ReadStore, TaskType, TaskOK, Owed, ReadStoreReleasing
<1> HIDE DEF k, n
<1> QED BY <1>1, <1>3, <1>4, <1>5, <1>6, <1>7, <1>8, TaskKeeps

LEMMA RespondOK == ASSUME IInv, NEW c \in Clients, Respond(c) PROVE IInv'
<1> DEFINE k == [DoResponse(task[c]) EXCEPT !.handler = "idle", !.sending = TRUE]
           n == counter
<1>1. /\ IoRuns /\ Referenced(task[c]) /\ Update(c, k, n)
      /\ UNCHANGED <<main, runThread, ioVars, backlog, clientVars>>
  BY DEF Respond, ServerStep, Referenced, DoResponse
<1>2. /\ task[c] \in TaskType /\ TaskOK(task[c]) /\ (Listens(task[c]) \/ ClientClosed(c))
      /\ ExchangeOf(c, task[c], toServer[c], toClient[c])
      /\ counter \in Nat /\ task[c].held \in 0 .. 1
      /\ toServer[c] \in 0 .. 1 /\ toClient[c] \in 0 .. Buy
  BY <1>1, TaskFacts
<1>3. /\ accept' \in {"none", "armed", "handling"}
      /\ toServer' \in [Clients -> 0 .. 1] /\ toClient' \in [Clients -> 0 .. Buy]
      /\ \A d \in Clients : d # c => toServer'[d] = toServer[d] /\ toClient'[d] = toClient[d]
  BY <1>2 DEF Respond, IInv, TypeOK, TaskType, sockets, DoResponse
<1>4. k \in TaskType
  <2>1. /\ task[c].state + 1 \in 0 .. (Buy + 1)
        /\ (IF task[c].state < Buy THEN task[c].state + 1 ELSE task[c].reply) \in 0 .. Buy
    BY <1>2, PipeServerAssumption DEF Respond, TaskType, TaskOK
  <2> QED BY <1>2, <2>1 DEF TaskType, HandlerStates, DoResponse
<1>5. TaskOK(k)
  BY <1>2, PipeServerAssumption DEF Respond, TaskType, TaskOK, Referenced, DoResponse
<1>6. Referenced(k) => Listens(k) \/ ClientClosed(c)
  BY <1>2, PipeServerAssumption DEF Respond, TaskType, TaskOK, Listens, DoResponse
<1>7. ExchangeOf(c, k, toServer'[c], toClient'[c])
  BY <1>2 DEF Respond, IInv, TypeOK, TaskType, ExchangeOf, sockets, DoResponse
<1>8. n \in Int /\ n - Owed(k) >= counter - Owed(task[c])
  BY <1>2 DEF Respond, TaskType, TaskOK, Owed, DoResponse
<1> HIDE DEF k, n
<1> QED BY <1>1, <1>3, <1>4, <1>5, <1>6, <1>7, <1>8, TaskKeeps

LEMMA TransmitOK == ASSUME IInv, NEW c \in Clients, Transmit(c) PROVE IInv'
<1> DEFINE k == [task[c] EXCEPT !.sending = FALSE, !.wrote = @ + 1]
           n == counter
<1>1. /\ IoRuns /\ Referenced(task[c]) /\ Update(c, k, n)
      /\ UNCHANGED <<main, runThread, ioVars, backlog, clientVars>>
  BY DEF Transmit, ServerStep, Referenced
<1>2. /\ task[c] \in TaskType /\ TaskOK(task[c]) /\ (Listens(task[c]) \/ ClientClosed(c))
      /\ ExchangeOf(c, task[c], toServer[c], toClient[c])
      /\ counter \in Nat /\ task[c].held \in 0 .. 1
      /\ toServer[c] \in 0 .. 1 /\ toClient[c] \in 0 .. Buy
  BY <1>1, TaskFacts
<1>3. /\ accept' \in {"none", "armed", "handling"}
      /\ toServer' \in [Clients -> 0 .. 1] /\ toClient' \in [Clients -> 0 .. Buy]
      /\ \A d \in Clients : d # c => toServer'[d] = toServer[d] /\ toClient'[d] = toClient[d]
  BY <1>2 DEF Transmit, IInv, TypeOK, TaskType, sockets
<1>4. k \in TaskType
  <2>1. task[c].wrote + 1 \in Nat
    BY <1>2, PipeServerAssumption DEF TaskType
  <2> QED BY <1>2, <2>1 DEF TaskType, HandlerStates
<1>5. TaskOK(k)
  BY <1>2, PipeServerAssumption DEF Transmit, TaskType, TaskOK, Referenced
<1>6. Referenced(k) => Listens(k) \/ ClientClosed(c)
  BY <1>2, PipeServerAssumption DEF Transmit, TaskType, TaskOK, Listens
<1>7. ExchangeOf(c, k, toServer'[c], toClient'[c])
  BY <1>2 DEF Transmit, IInv, TypeOK, TaskType, ExchangeOf, sockets
<1>8. n \in Int /\ n - Owed(k) >= counter - Owed(task[c])
  BY <1>2 DEF Transmit, TaskType, TaskOK, Owed
<1> HIDE DEF k, n
<1> QED BY <1>1, <1>3, <1>4, <1>5, <1>6, <1>7, <1>8, TaskKeeps

LEMMA HandleWriteOK == ASSUME IInv, NEW c \in Clients, HandleWrite(c) PROVE IInv'
<1>0. PICK error \in BOOLEAN :
        Update(c, [task[c] EXCEPT !.wrote = @ - 1,
                     !.finished = @ \/ (~error /\ task[c].state = Buy)], counter)
  BY DEF HandleWrite
<1> DEFINE k == [task[c] EXCEPT !.wrote = @ - 1,
                    !.finished = @ \/ (~error /\ task[c].state = Buy)]
           n == counter
<1>1. /\ IoRuns /\ Referenced(task[c]) /\ Update(c, k, n)
      /\ UNCHANGED <<main, runThread, ioVars, backlog, clientVars>>
  BY <1>0 DEF HandleWrite, ServerStep, Referenced
<1>2. /\ task[c] \in TaskType /\ TaskOK(task[c]) /\ (Listens(task[c]) \/ ClientClosed(c))
      /\ ExchangeOf(c, task[c], toServer[c], toClient[c])
      /\ counter \in Nat /\ task[c].held \in 0 .. 1
      /\ toServer[c] \in 0 .. 1 /\ toClient[c] \in 0 .. Buy
  BY <1>1, TaskFacts
<1>3. /\ accept' \in {"none", "armed", "handling"}
      /\ toServer' \in [Clients -> 0 .. 1] /\ toClient' \in [Clients -> 0 .. Buy]
      /\ \A d \in Clients : d # c => toServer'[d] = toServer[d] /\ toClient'[d] = toClient[d]
  BY <1>2 DEF HandleWrite, IInv, TypeOK, TaskType, sockets
<1>4. k \in TaskType
  <2>1. /\ task[c].wrote - 1 \in Nat
        /\ (task[c].finished \/ (~error /\ task[c].state = Buy)) \in BOOLEAN
    BY <1>2, PipeServerAssumption DEF HandleWrite, TaskType
  <2> QED BY <1>2, <2>1 DEF TaskType, HandlerStates
<1>5. TaskOK(k)
  BY <1>2, PipeServerAssumption DEF HandleWrite, TaskType, TaskOK, Referenced
<1>6. Referenced(k) => Listens(k) \/ ClientClosed(c)
  BY <1>2, PipeServerAssumption DEF HandleWrite, TaskType, TaskOK, Listens
<1>7. ExchangeOf(c, k, toServer'[c], toClient'[c])
  BY <1>2 DEF HandleWrite, IInv, TypeOK, TaskType, ExchangeOf, sockets
<1>8. n \in Int /\ n - Owed(k) >= counter - Owed(task[c])
  BY <1>2 DEF HandleWrite, TaskType, TaskOK, Owed
<1> HIDE DEF k, n
<1> QED BY <1>1, <1>3, <1>4, <1>5, <1>6, <1>7, <1>8, TaskKeeps

-----------------------------------------------------------------------------
(* ServerMainTest and the io_service *)

LEMMA InitOK == Init => IInv
<1> SUFFICES ASSUME Init PROVE IInv
  OBVIOUS
<1> USE DEF Init
<1>1. 0 \in 0 .. 1 /\ 0 \in 0 .. Buy
  BY PipeServerAssumption
<1>2. TypeOK
  <2>1. {runThread, work, stopLoop, ioStopped} \subseteq BOOLEAN
    OBVIOUS
  <2>2. /\ toServer \in [Clients -> 0 .. 1] /\ toClient \in [Clients -> 0 .. Buy]
        /\ task \in [Clients -> TaskType]
    BY <1>1, NewTaskOK
  <2> QED BY <2>1, <2>2 DEF TypeOK
<1>3. Waiting /\ Connected /\ InOrder /\ Listening
  BY NewTaskOK, PipeServerAssumption DEF Waiting, Connected, InOrder, Listening, Conns
<1>4. Exchange
  BY NewTaskOK DEF Exchange, AtServer
<1>5. Counted
  <2>1. Holding = {} /\ AcceptStoring = {} /\ ReadStoring = {}
    BY DEF Holding, AcceptStoring, ReadStoring, NewTask
  <2> QED BY <2>1, FS_EmptySet DEF Counted
<1> QED BY <1>2, <1>3, <1>4, <1>5 DEF IInv

\* Steps that leave the tasks, the count and the sockets alone.
LEMMA CountedFrame ==
    ASSUME IInv, UNCHANGED <<task, counter>> PROVE Counted' /\ InOrder'
BY DEF IInv, Counted, InOrder, Holding, AcceptStoring, ReadStoring

LEMMA MainOK == ASSUME IInv, MainStep \/ Wait \/ Run \/ IoStop \/ HandleAcceptError PROVE IInv'
<1> USE PipeServerAssumption DEF IInv, ioVars, serverVars, clientVars, sockets, Conns
<1>1. UNCHANGED <<task, counter, op, readyToSend, stopProcessing, toServer, toClient>>
  BY DEF MainStep, SpawnClient, SpawnFails, SpawnedAll, StopServer, StopConnect, Join,
         Wait, Run, IoStop, HandleAcceptError, vars
<1>2. Counted' /\ InOrder'
  BY <1>1, CountedFrame
<1>3. ASSUME NEW c \in Clients, SpawnClient(c) PROVE IInv'
  <2>1. TypeOK' /\ Waiting' /\ Connected'
    BY <1>3 DEF SpawnClient, TypeOK, Waiting, Connected
  <2>2. Listening' /\ Exchange'
    BY <1>3 DEF SpawnClient, TypeOK, Listening, Exchange, AtServer, ClientClosed, PeerClosed, ServerGone
  <2> QED BY <1>2, <2>1, <2>2
<1>4. CASE SpawnFails \/ SpawnedAll \/ StopServer
  <2> USE <1>4 DEF SpawnFails, SpawnedAll, StopServer
  <2>0. {runThread, work, stopLoop, ioStopped}' \subseteq BOOLEAN
    BY DEF TypeOK
  <2>1. TypeOK'
    BY <2>0 DEF TypeOK
  <2>2. Waiting' /\ Connected'
    BY DEF Waiting, Connected
  <2>3. Listening' /\ Exchange'
    BY DEF Listening, Exchange, AtServer, ClientClosed, PeerClosed, ServerGone
  <2> QED BY <1>2, <2>1, <2>2, <2>3
<1>5. CASE StopConnect
  <2> USE <1>5 DEF StopConnect
  <2>1. TypeOK'
    BY DEF TypeOK
  <2>2. Waiting'
    BY DEF TypeOK, Waiting, Connected
  <2>3. Connected'
    BY DEF TypeOK, Connected
  <2>4. Listening' /\ Exchange'
    BY DEF TypeOK, Listening, Exchange, AtServer, ClientClosed, PeerClosed, ServerGone
  <2> QED BY <1>2, <2>1, <2>2, <2>3, <2>4
<1>6. CASE Join
  <2> USE <1>6 DEF Join
  <2>1. TypeOK' /\ Waiting' /\ Connected'
    BY DEF TypeOK, Waiting, Connected
  <2>2. Listening' /\ Exchange'
    BY DEF TypeOK, Listening, Exchange, AtServer, ClientClosed, PeerClosed, ServerGone
  <2> QED BY <1>2, <2>1, <2>2
<1>7. CASE Wait \/ Run \/ IoStop \/ HandleAcceptError
  <2> USE <1>7 DEF Wait, Run, IoStop, HandleAcceptError, vars
  <2>0. {runThread, work, stopLoop, ioStopped}' \subseteq BOOLEAN
    BY DEF TypeOK
  <2>1. TypeOK'
    BY <2>0 DEF TypeOK
  <2>2. Waiting' /\ Connected'
    BY DEF Waiting, Connected
  <2>3. Listening' /\ Exchange'
    BY DEF Listening, Exchange, AtServer, ClientClosed, PeerClosed, ServerGone
  <2> QED BY <1>2, <2>1, <2>2, <2>3
<1> QED BY <1>3, <1>4, <1>5, <1>6, <1>7 DEF MainStep

\* The connection that is accepted has no task yet; Stop's own never gets one.
LEMMA HandleAcceptOK == ASSUME IInv, HandleAccept PROVE IInv'
<1> USE PipeServerAssumption DEF IInv, ioVars, clientVars, sockets
<1> DEFINE c == Head(backlog)
           k == [NewTask EXCEPT !.read = TRUE, !.accept = "count"]
<1>1. c \in Conns /\ conn[c] = "backlog" /\ backlog \in Seq(Conns) /\ backlog # <<>> /\ c = backlog[1]
      /\ Len(backlog) >= 1
  BY DEF HandleAccept, TypeOK, Waiting
<1>2. c = Unblock => stopLoop
  BY <1>1 DEF Connected
<1>3. /\ backlog' \in Seq(Conns) /\ Len(backlog) \in Nat
      /\ \A i \in 1 .. Len(backlog') :
            i \in Nat /\ i + 1 \in 2 .. Len(backlog) /\ backlog'[i] = backlog[i + 1]
  BY <1>1 DEF HandleAccept
<1>4. ASSUME \A d \in Conns : d # c => conn'[d] = conn[d] PROVE Waiting'
  <2>1. ASSUME NEW i \in 1 .. Len(backlog') PROVE conn'[backlog'[i]] = "backlog"
    <3>1. i + 1 \in 1 .. Len(backlog) /\ i + 1 # 1 /\ 1 \in 1 .. Len(backlog)
      BY <1>1, <1>3
    <3>2. backlog[i + 1] # c /\ backlog[i + 1] \in Conns /\ conn[backlog[i + 1]] = "backlog"
      BY <1>1, <3>1 DEF Waiting
    <3> QED BY <1>3, <1>4, <3>2
  <2>2. ASSUME NEW i \in 1 .. Len(backlog'), NEW j \in 1 .. Len(backlog'), backlog'[i] = backlog'[j]
        PROVE i = j
    <3>1. i + 1 \in 1 .. Len(backlog) /\ j + 1 \in 1 .. Len(backlog) /\ i \in Nat /\ j \in Nat
      BY <1>3
    <3>2. i + 1 = j + 1
      BY <1>3, <2>2, <3>1 DEF Waiting
    <3> QED BY <3>1, <3>2
  <2> QED BY <2>1, <2>2 DEF Waiting
<1>5. /\ main' = main /\ runThread' = runThread /\ work' = work /\ stopLoop' = stopLoop
      /\ ioStopped' = ioStopped /\ counter' = counter /\ client' = client /\ op' = op
      /\ readyToSend' = readyToSend /\ stopProcessing' = stopProcessing
      /\ toServer' = toServer /\ toClient' = toClient
  BY DEF HandleAccept
<1>6. CASE stopLoop
  <2>1. accept' = "none" /\ conn' = [conn EXCEPT ![c] = "dropped"] /\ task' = task
    BY <1>6 DEF HandleAccept
  <2> HIDE DEF c
  <2>2. Counted' /\ InOrder'
    BY <2>1, <1>5, CountedFrame
  <2>3. TypeOK'
    BY <2>1, <1>1, <1>3, <1>5 DEF TypeOK
  <2>4. Waiting'
    BY <2>1, <1>1, <1>4 DEF TypeOK
  <2>5. Connected'
    BY <2>1, <1>1, <1>5, <1>6 DEF TypeOK, Connected, Conns
  <2>6. Listening' /\ Exchange'
    BY <2>1, <1>1, <1>5
    DEF TypeOK, Listening, Exchange, AtServer, ClientClosed, PeerClosed, ServerGone, Conns
  <2> QED BY <2>2, <2>3, <2>4, <2>5, <2>6
<1>7. CASE ~stopLoop
  <2>1. /\ accept' = "handling" /\ conn' = [conn EXCEPT ![c] = "accepted"]
        /\ task' = [task EXCEPT ![c] = k] /\ c \in Clients
    BY <1>1, <1>2, <1>7 DEF HandleAccept, Conns
  <2>2. /\ k \in TaskType /\ Referenced(k) /\ TaskOK(k) /\ k.read /\ Owed(k) = 0
        /\ k.handler = "idle" /\ ~k.sending
    <3>1. k \in TaskType
      BY NewTaskOK DEF TaskType
    <3>2. /\ k.read /\ k.accept = "count" /\ k.handler = "idle" /\ ~k.sending
          /\ k.state = 0 /\ k.held = 0
      BY DEF NewTask
    <3> QED BY <3>1, <3>2 DEF Referenced, TaskOK, Owed
  <2> HIDE DEF c, k
  <2>3. TypeOK'
    BY <2>1, <2>2, <1>1, <1>3, <1>5 DEF TypeOK
  <2>4. Counted'
    <3>1. Owing \in Nat /\ Owing' \in Nat /\ Owing' = Owing + Owed(k) - Owed(task[c])
      BY <2>1, <2>3, OwingMoves DEF TypeOK
    <3>2. Owed(task[c]) \in Nat
      BY <2>1, OwedType DEF TypeOK
    <3> QED BY <3>1, <3>2, <2>2, <1>5 DEF Counted, Owing, TypeOK
  <2>5. InOrder'
    BY <2>1, <2>2 DEF TypeOK, InOrder
  <2>6. Waiting'
    BY <2>1, <1>1, <1>4 DEF TypeOK
  <2>7. Connected'
    BY <2>1, <2>2, <1>1, <1>5 DEF TypeOK, Connected, Conns
  <2>8. Listening'
    BY <2>1, <2>2, <1>5 DEF TypeOK, Listening, Listens, ClientClosed, Conns
  <2>9. Exchange'
    BY <2>1, <2>2, <1>1, <1>5
    DEF TypeOK, Exchange, AtServer, ClientClosed, PeerClosed, ServerGone, Conns
  <2> QED BY <2>3, <2>4, <2>5, <2>6, <2>7, <2>8, <2>9
<1> QED BY <1>6, <1>7

-----------------------------------------------------------------------------
(* ClientMainTest *)

LEMMA ConnectOK == ASSUME IInv, NEW c \in Clients, Connect(c) PROVE IInv'
<1> USE PipeServerAssumption DEF IInv, ioVars, sockets, ClientStep, Connect
<1>1. Counted' /\ InOrder'
  BY CountedFrame
<1>2. conn[c] = "none" /\ c \in Conns
  BY DEF Connected, Conns
<1>3. TypeOK'
  <2>1. /\ backlog' \in Seq(Conns) /\ conn' \in [Conns -> {"none", "backlog", "accepted", "dropped"}]
        /\ client' \in [Clients -> {"unborn", "connect", "test", "send", "join", "done", "dead"}]
    <3>1. CASE ServerGone
      BY <3>1 DEF TypeOK
    <3>2. CASE ~ServerGone
      <4>1. backlog \in Seq(Conns) /\ backlog' = Append(backlog, c)
        BY <3>2 DEF TypeOK
      <4>2. backlog' \in Seq(Conns)
        BY ONLY <1>2, <4>1
      <4>3. /\ conn' \in [Conns -> {"none", "backlog", "accepted", "dropped"}]
            /\ client' \in [Clients -> {"unborn", "connect", "test", "send", "join", "done", "dead"}]
        BY <3>2, <1>2 DEF TypeOK
      <4> QED BY <4>2, <4>3
    <3> QED BY <3>1, <3>2
  <2>2. {runThread, work, stopLoop, ioStopped}' \subseteq BOOLEAN
    BY DEF TypeOK
  <2> QED BY <2>1, <2>2 DEF TypeOK
<1>4. Waiting'
  <2>1. CASE ServerGone
    BY <2>1 DEF Waiting
  <2>2. CASE ~ServerGone
    <3>1. /\ backlog \in Seq(Conns) /\ backlog' = Append(backlog, c)
          /\ conn' = [conn EXCEPT ![c] = "backlog"] /\ DOMAIN conn = Conns
      BY <2>2 DEF TypeOK
    <3>2. \A i \in 1 .. Len(backlog) : backlog[i] \in Conns /\ backlog[i] # c
      BY <1>2, <3>1 DEF Waiting
    <3> QED BY <1>2, <3>1, <3>2 DEF Waiting
  <2> QED BY <2>1, <2>2
<1>5. Connected'
  BY <1>2 DEF TypeOK, Connected, Conns
<1>6. Listening'
  BY <1>2 DEF TypeOK, Connected, Listening, ClientClosed, Conns
<1>7. Exchange'
  BY <1>2 DEF TypeOK, Exchange, AtServer, ClientClosed, PeerClosed, ServerGone, Conns
<1> QED BY <1>1, <1>3, <1>4, <1>5, <1>6, <1>7

\* The other steps of a client leave its connection to the server alone.
LEMMA ClientFrame ==
    ASSUME IInv, UNCHANGED <<main, runThread, ioVars, accept, task, counter, backlog, conn>>,
           client' \in [Clients -> {"unborn", "connect", "test", "send", "join", "done", "dead"}],
           \A c \in Clients :
              /\ client'[c] \in {"unborn", "connect"} => client'[c] = client[c]
              /\ ClientClosed(c) => ClientClosed(c)'
    PROVE Counted' /\ InOrder' /\ Waiting' /\ Connected' /\ Listening'
<1>1. Counted' /\ InOrder'
  BY CountedFrame
<1>2. Waiting' /\ Connected'
  BY DEF IInv, Waiting, Connected, ioVars
<1>3. Listening'
  BY DEF IInv, Listening
<1> QED BY <1>1, <1>2, <1>3

LEMMA ClientMovesOK ==
    ASSUME IInv, NEW c \in Clients, ClientTest(c) \/ ClientJoin(c) \/ ClientDies(c) PROVE IInv'
<1> USE DEF IInv, ioVars, sockets, ClientStep, ClientTest, ClientJoin, ClientDies
<1>1. TypeOK'
  BY DEF TypeOK
<1>2. Counted' /\ InOrder' /\ Waiting' /\ Connected' /\ Listening'
  BY ClientFrame DEF TypeOK, ClientClosed
<1>3. /\ \A d \in Clients : ClientClosed(d) => ClientClosed(d)'
      /\ UNCHANGED <<main, conn, task, op, readyToSend, toServer, toClient>>
  BY DEF TypeOK, ClientClosed
<1>4. Exchange'
  BY <1>3 DEF Exchange, AtServer, PeerClosed, ServerGone
<1> QED BY <1>1, <1>2, <1>4

\* Who is ready to send has no message on its way.
LEMMA ClientSendOK == ASSUME IInv, NEW c \in Clients, ClientSend(c) PROVE IInv'
<1> USE DEF IInv, ioVars, sockets, ClientStep, ClientSend
<1>1. TypeOK'
  BY DEF TypeOK
<1>2. Counted' /\ InOrder' /\ Waiting' /\ Connected' /\ Listening'
  BY ClientFrame DEF TypeOK, ClientClosed
<1>3. Exchange'
  BY DEF TypeOK, Exchange, AtServer, ClientClosed, PeerClosed, ServerGone
<1> QED BY <1>1, <1>2, <1>3

LEMMA ClientWrittenOK == ASSUME IInv, NEW c \in Clients, ClientWritten(c) PROVE IInv'
<1> USE DEF IInv, ioVars, ClientStep, ClientWritten
<1>1. TypeOK'
  <2>1. stopProcessing \in [Clients -> BOOLEAN] /\ toServer \in [Clients -> 0 .. 1]
    BY DEF TypeOK
  <2>2. \/ stopProcessing' = [stopProcessing EXCEPT ![c] = TRUE] /\ toServer' = toServer
        \/ stopProcessing' = stopProcessing /\ toServer' = [toServer EXCEPT ![c] = 1]
    OBVIOUS
  <2>3. stopProcessing' \in [Clients -> BOOLEAN]
    BY <2>1, <2>2
  <2>4. toServer' \in [Clients -> 0 .. 1]
    BY <2>1, <2>2, 1 \in 0 .. 1
  <2> QED BY <2>3, <2>4 DEF TypeOK
<1>2. Counted' /\ InOrder' /\ Waiting' /\ Connected' /\ Listening'
  BY ClientFrame DEF TypeOK, ClientClosed
<1>3. Exchange'
  BY DEF TypeOK, Exchange, AtServer, ClientClosed, PeerClosed, ServerGone
<1> QED BY <1>1, <1>2, <1>3

LEMMA ClientReadOK == ASSUME IInv, NEW c \in Clients, ClientRead(c) PROVE IInv'
<1> USE DEF IInv, ioVars, ClientStep, ClientRead
<1>1. TypeOK'
  <2>1. /\ stopProcessing' \in [Clients -> BOOLEAN] /\ readyToSend' \in [Clients -> BOOLEAN]
        /\ toClient' \in [Clients -> 0 .. Buy]
    BY PipeServerAssumption DEF TypeOK
  <2> QED BY <2>1 DEF TypeOK
<1>2. Counted' /\ InOrder' /\ Waiting' /\ Connected' /\ Listening'
  BY ClientFrame DEF TypeOK, ClientClosed
<1>3. Exchange'
  BY DEF TypeOK, Exchange, AtServer, ClientClosed, PeerClosed, ServerGone
<1> QED BY <1>1, <1>2, <1>3

-----------------------------------------------------------------------------
\* Every step of ServerMainTest, of the io threads and of the clients keeps the
\* invariant.
LEMMA NextOK == IInv /\ [Next]_vars => IInv'
<1> SUFFICES ASSUME IInv, [Next]_vars PROVE IInv'
  OBVIOUS
<1>1. CASE MainStep \/ Wait \/ Run \/ IoStop \/ HandleAcceptError
  BY <1>1, MainOK
<1>2. CASE HandleAccept
  BY <1>2, HandleAcceptOK
<1>3. ASSUME NEW c \in Clients, TaskStep(c) PROVE IInv'
  BY <1>3, AcceptCountOK, AcceptStoreOK, HandleReadOK, HandleReadErrorOK, ReadCountOK, ReadStoreOK,
     RespondOK, TransmitOK, HandleWriteOK DEF TaskStep
<1>4. ASSUME NEW c \in Clients, ClientActs(c) \/ ClientIo(c) \/ ClientDies(c) PROVE IInv'
  BY <1>4, ConnectOK, ClientMovesOK, ClientSendOK, ClientWrittenOK, ClientReadOK
  DEF ClientActs, ClientIo
<1>5. CASE Ended \/ UNCHANGED vars
  <2>1. UNCHANGED vars
    BY <1>5 DEF Ended
  <2>2. Counted' /\ InOrder' /\ TypeOK'
    BY <2>1, CountedFrame
    DEF vars, IInv, TypeOK, ioVars, serverVars, clientVars, sockets
  <2>3. Waiting' /\ Connected' /\ Listening' /\ Exchange'
    BY <2>1 DEF vars, IInv, ioVars, serverVars, clientVars, sockets, Waiting, Connected, Listening,
                Exchange, AtServer, ClientClosed, PeerClosed, ServerGone
  <2> QED BY <2>2, <2>3 DEF IInv
<1> QED BY <1>1, <1>2, <1>3, <1>4, <1>5 DEF Next

\* The inductive invariant holds in every state of the pipe server.
THEOREM Inductive == Spec => []IInv
BY InitOK, NextOK, PTL DEF Spec

\* For any number of clients and io threads: no HandleRead starts in a task while
\* another is in it, and its send buffer is filled only when nothing is being
\* sent or waiting to be read (server_task.hpp:143-170).
THEOREM OneHandlerPerTask == Spec => []BuffersNotShared
<1>1. IInv => BuffersNotShared
  BY DEF IInv, Exchange, AtServer, BuffersNotShared
<1> QED BY <1>1, Inductive, PTL

\* Every variable keeps its type, and TaskCounter::m_counter is never below the
\* number of tasks that hold a TaskCounter: GetTaskCount() = 0 means that no
\* dialogue is counted.
THEOREM CountCoversTasks == Spec => []Consistent
<1>1. IInv => Consistent
  <2> SUFFICES ASSUME IInv PROVE CounterCovers
    BY DEF IInv, Consistent
  <2>1. Holding \subseteq Clients /\ AcceptStoring \subseteq Clients /\ ReadStoring \subseteq Clients
    BY DEF Holding, AcceptStoring, ReadStoring
  <2>2. /\ Cardinality(Holding) \in Nat /\ Cardinality(AcceptStoring) \in Nat
        /\ Cardinality(ReadStoring) \in Nat
    BY <2>1, FS_Subset, FS_CardinalityType, PipeServerAssumption
  <2>3. counter >= Cardinality(Holding) /\ counter \in Nat
    BY <2>2 DEF IInv, TypeOK, Counted
  <2> QED BY <2>3 DEF CounterCovers, Holding
<1> QED BY <1>1, Inductive, PTL

\* Only a step of the task itself closes the socket of a dialogue.
LEMMA UpdateDrops ==
    ASSUME TypeOK, NEW c \in Clients, NEW d \in Clients, NEW k, NEW n, Update(d, k, n),
           conn[c] = "accepted", conn'[c] = "dropped"
    PROVE d = c /\ ~Referenced(k)
BY DEF TypeOK, Update, Conns

LEMMA TaskDrops ==
    ASSUME IInv, NEW c \in Clients, NEW d \in Clients, TaskStep(d),
           conn[c] = "accepted", conn'[c] = "dropped"
    PROVE task[c].state = Buy + 1 \/ ClientClosed(c)
<1>1. TypeOK /\ task[c] \in TaskType /\ task[d] \in TaskType /\ (Listens(task[c]) \/ ClientClosed(c))
  BY DEF IInv, TypeOK, Listening
<1>2. CASE AcceptCount(d)
  <2> DEFINE k == [task[d] EXCEPT !.accept = "store", !.sawAccept = task[d].held]
  <2>1. d = c /\ ~Referenced(k)
    BY <1>1, <1>2, UpdateDrops DEF AcceptCount
  <2> QED BY <1>1, <2>1, <1>2 DEF Referenced, TaskType, AcceptCount
<1>3. CASE AcceptStore(d)
  <2> DEFINE k == [task[d] EXCEPT !.accept = "idle", !.held = 1, !.sawAccept = 0]
  <2>1. d = c /\ ~Referenced(k)
    BY <1>1, <1>3, UpdateDrops DEF AcceptStore
  <2> QED BY <1>1, <2>1, <1>3 DEF Referenced, TaskType, Listens, AcceptStore
<1>4. CASE HandleRead(d)
  <2> DEFINE k == IF task[d].state # Buy THEN [task[d] EXCEPT !.handler = "count"]
                  ELSE [task[d] EXCEPT !.handler = "respond", !.read = FALSE]
  <2>1. d = c /\ ~Referenced(k)
    BY <1>1, <1>4, UpdateDrops DEF HandleRead, HandleReadWhen
  <2> QED BY <1>1, <2>1, <1>4 DEF Referenced, TaskType, HandleRead, HandleReadWhen
<1>5. CASE HandleReadError(d)
  BY <1>1, <1>5, UpdateDrops DEF HandleReadError
<1>6. CASE ReadCount(d)
  <2> DEFINE k == [task[d] EXCEPT !.handler = "store", !.sawRead = task[d].held]
  <2>1. d = c /\ ~Referenced(k)
    BY <1>1, <1>6, UpdateDrops DEF ReadCount
  <2> QED BY <1>1, <2>1, <1>6 DEF Referenced, TaskType, ReadCount
<1>7. CASE ReadStore(d)
  <2> DEFINE k == [task[d] EXCEPT !.handler = "respond", !.held = 1, !.sawRead = 0]
  <2>1. d = c /\ ~Referenced(k)
    BY <1>1, <1>7, UpdateDrops DEF ReadStore, ReadStoreReleasing
  <2> QED BY <1>1, <2>1, <1>7 DEF Referenced, TaskType, ReadStore, ReadStoreReleasing
<1>8. CASE Respond(d)
  <2> DEFINE k == [DoResponse(task[d]) EXCEPT !.handler = "idle", !.sending = TRUE]
  <2>1. d = c /\ ~Referenced(k)
    BY <1>1, <1>8, UpdateDrops DEF Respond
  <2> QED BY <1>1, <2>1, <1>8 DEF Referenced, TaskType, DoResponse, Respond
<1>9. CASE Transmit(d)
  <2> DEFINE k == [task[d] EXCEPT !.sending = FALSE, !.wrote = @ + 1]
  <2>1. d = c /\ ~Referenced(k)
    BY <1>1, <1>9, UpdateDrops DEF Transmit
  <2> QED BY <1>1, <2>1, <1>9 DEF Referenced, TaskType, Transmit
<1>10. CASE HandleWrite(d)
  <2>0. PICK error \in BOOLEAN :
          Update(d, [task[d] EXCEPT !.wrote = @ - 1,
                       !.finished = @ \/ (~error /\ task[d].state = Buy)], counter)
    BY <1>10 DEF HandleWrite
  <2> DEFINE k == [task[d] EXCEPT !.wrote = @ - 1,
                      !.finished = @ \/ (~error /\ task[d].state = Buy)]
  <2>1. d = c /\ ~Referenced(k)
    BY <1>1, <2>0, UpdateDrops
  <2> QED BY <1>1, <2>1, <1>10 DEF Referenced, TaskType, Listens, HandleWrite
<1> QED BY <1>2, <1>3, <1>4, <1>5, <1>6, <1>7, <1>8, <1>9, <1>10 DEF TaskStep

\* The server closes the socket of a dialogue only behind the answer past Buy or
\* because its client is gone, whatever main, Stop and the other tasks do.
THEOREM NoDialogueCutShort == Spec => DialogueRunsOut
<1> DEFINE RunsOut ==
      \A c \in Clients :
         conn[c] = "accepted" /\ conn'[c] = "dropped" => task[c].state = Buy + 1 \/ ClientClosed(c)
<1>1. IInv /\ [Next]_vars => [RunsOut]_vars
  <2> SUFFICES ASSUME IInv, Next, NEW c \in Clients, conn[c] = "accepted", conn'[c] = "dropped"
               PROVE task[c].state = Buy + 1 \/ ClientClosed(c)
    OBVIOUS
  <2>1. CASE MainStep \/ Wait \/ Run \/ IoStop \/ HandleAcceptError
    BY <2>1, PipeServerAssumption
    DEF MainStep, SpawnClient, SpawnFails, SpawnedAll, StopServer, StopConnect, Join, Wait, Run,
        IoStop, HandleAcceptError, vars, serverVars, IInv, TypeOK, Conns
  <2>2. CASE HandleAccept
    <3>1. Head(backlog) = backlog[1] /\ 1 \in 1 .. Len(backlog)
      BY <2>2 DEF HandleAccept, IInv, TypeOK
    <3>2. conn[Head(backlog)] = "backlog"
      BY <3>1 DEF IInv, Waiting
    <3> QED BY <2>2, <3>2 DEF HandleAccept, IInv, TypeOK, Conns
  <2>3. ASSUME NEW d \in Clients, TaskStep(d) PROVE task[c].state = Buy + 1 \/ ClientClosed(c)
    BY <2>3, TaskDrops
  <2>4. ASSUME NEW d \in Clients, ClientActs(d) \/ ClientIo(d) \/ ClientDies(d) PROVE FALSE
    BY <2>4 DEF ClientActs, ClientIo, ClientDies, Connect, ClientTest, ClientSend, ClientJoin,
                ClientWritten, ClientRead, IInv, TypeOK, Connected, Conns
  <2>5. CASE Ended
    BY <2>5 DEF Ended, vars, serverVars
  <2> QED BY <2>1, <2>2, <2>3, <2>4, <2>5 DEF Next
<1> QED BY <1>1, Inductive, PTL DEF Spec, DialogueRunsOut
=============================================================================
