----------------------------- MODULE UvTaskProofs -----------------------------
(***************************************************************************)
(* Proofs about UvTask for any number of connections, any length of the    *)
(* dialogue and any pool.  A work item is in one place (Queued), client    *)
(* and server pass one message back and forth (Token), and what has been   *)
(* reset has no callback left (Requests).  Actions touch one task, so each *)
(* part is proved for that task and kept for the others.                   *)
(***************************************************************************)
EXTENDS UvTask, TLAPS

\* Where the work item is.
Queued ==
    \A t \in Tasks :
        /\ t \in Range(queue) <=> work[t] = "queued"
        /\ task[t] # "live" => work[t] = "none"

\* The one message of a dialogue: with the server, with the client, or over.
Token ==
    \A t \in Tasks :
        /\ client[t] = "unborn" =>
             /\ task[t] = "unborn" /\ toServer[t] = 0 /\ toClient[t] = <<>>
             /\ state[t] = 0 /\ heard[t] = 0
        /\ toServer[t] = 1 => toClient[t] = <<>> /\ state[t] < Buy /\ heard[t] # Buy
        /\ toClient[t] # <<>> => toClient[t] = <<state[t]>> /\ heard[t] # Buy
        /\ toServer[t] = 0 /\ toClient[t] = <<>> /\ client[t] # "unborn" =>
             state[t] = Buy /\ heard[t] = Buy

\* The requests of a task's pipe, by the state of the pipe.
Requests ==
    \A t \in Tasks :
        /\ task[t] = "unborn" => pipe[t] = "open"
        /\ task[t] = "unborn" \/ pipe[t] \in {"closed", "reset"} =>
             ~reading[t] /\ writes[t] = 0 /\ ~shutdown[t]
        /\ pipe[t] = "open" => ~finishing[t]
        /\ pipe[t] = "reset" => finishing[t]
        /\ task[t] = "deleted" => pipe[t] = "reset"
        /\ shutdown[t] => state[t] = Buy /\ ~finishing[t]
        /\ finishing[t] => state[t] = Buy /\ heard[t] = Buy

IInv == TypeOK /\ Queued /\ Token /\ Requests /\ ClientToldAll

-----------------------------------------------------------------------------
(* The queue of the pool *)

LEMMA AppendNew ==
    ASSUME NEW S, NEW q \in Seq(S), NEW e \in S, IsInjective(q), e \notin Range(q)
    PROVE /\ Append(q, e) \in Seq(S) /\ IsInjective(Append(q, e))
          /\ Range(Append(q, e)) = Range(q) \cup {e}
<1>1. /\ Append(q, e) \in Seq(S) /\ DOMAIN Append(q, e) = 1 .. (Len(q) + 1)
      /\ \A i \in 1 .. Len(q) : Append(q, e)[i] = q[i]
      /\ Append(q, e)[Len(q) + 1] = e /\ DOMAIN q = 1 .. Len(q) /\ Len(q) \in Nat
  OBVIOUS
<1>2. Range(Append(q, e)) = Range(q) \cup {e}
  BY <1>1 DEF Range
<1>3. IsInjective(Append(q, e))
  BY <1>1 DEF IsInjective, Range
<1> QED BY <1>1, <1>2, <1>3

LEMMA TailRest ==
    ASSUME NEW S, NEW q \in Seq(S), q # <<>>, IsInjective(q)
    PROVE /\ Tail(q) \in Seq(S) /\ IsInjective(Tail(q))
          /\ Head(q) \in Range(q) /\ Range(Tail(q)) = Range(q) \ {Head(q)}
<1>1. /\ Tail(q) \in Seq(S) /\ DOMAIN Tail(q) = 1 .. (Len(q) - 1)
      /\ \A i \in 1 .. (Len(q) - 1) : Tail(q)[i] = q[i + 1]
      /\ Len(q) \in Nat \ {0} /\ DOMAIN q = 1 .. Len(q) /\ Head(q) = q[1]
  OBVIOUS
<1>2. IsInjective(Tail(q))
  BY <1>1 DEF IsInjective
<1>3. Range(Tail(q)) = Range(q) \ {Head(q)}
  <2>1. \A i \in 2 .. Len(q) : q[i] # Head(q) /\ i - 1 \in 1 .. (Len(q) - 1) /\ Tail(q)[i - 1] = q[i]
    BY <1>1 DEF IsInjective
  <2>2. Range(Tail(q)) \subseteq Range(q) \ {Head(q)}
    BY <1>1, <2>1 DEF Range
  <2>3. ASSUME NEW x \in Range(q) \ {Head(q)} PROVE x \in Range(Tail(q))
    <3>1. PICK i \in 1 .. Len(q) : x = q[i]
      BY <1>1 DEF Range
    <3>2. i \in 2 .. Len(q)
      BY <3>1, <1>1
    <3> QED BY <3>1, <3>2, <2>1, <1>1 DEF Range
  <2> QED BY <2>2, <2>3
<1>4. Head(q) \in Range(q)
  BY <1>1 DEF Range
<1> QED BY <1>1, <1>2, <1>3, <1>4

-----------------------------------------------------------------------------
LEMMA InitOK == Init => IInv
<1> SUFFICES ASSUME Init PROVE IInv
  OBVIOUS
<1> USE UvTaskAssumption DEF Init
<1>1. Range(queue) = {} /\ IsInjective(queue)
  BY DEF Range, IsInjective
<1>2. 0 \in 0 .. Buy
  OBVIOUS
<1>3. TypeOK
  BY <1>1, <1>2 DEF TypeOK
<1>4. Queued /\ Token /\ Requests /\ ClientToldAll
  BY <1>1 DEF Queued, Token, Requests, ClientToldAll
<1> QED BY <1>3, <1>4 DEF IInv

-----------------------------------------------------------------------------
(* The work item *)

LEMMA SomeWorkOK == ASSUME IInv, NEW t \in Tasks, SomeWork(t) \/ WorkDone(t) PROVE IInv'
<1> USE DEF IInv, Set, pipeVars, clientVars
<1>1. queue \in Seq(Tasks) /\ IsInjective(queue) /\ work \in [Tasks -> {"none", "queued", "running", "after"}]
  BY DEF TypeOK
<1>2. /\ UNCHANGED <<process, task, state, pipeVars, toServer, toClient, clientVars>>
      /\ work' = [work EXCEPT ![t] = "running"] \/ work' = [work EXCEPT ![t] = "after"]
  BY DEF SomeWork, WorkDone
<1>3. queue' \in Seq(Tasks) /\ IsInjective(queue') /\ Queued'
  <2>1. CASE SomeWork(t)
    <3>1. /\ Tail(queue) \in Seq(Tasks) /\ IsInjective(Tail(queue))
          /\ Range(Tail(queue)) = Range(queue) \ {t} /\ t \in Range(queue)
      BY <2>1, <1>1, TailRest DEF SomeWork
    <3>2. work[t] = "queued" /\ task[t] = "live"
      BY <3>1 DEF Queued
    <3> QED BY <1>1, <2>1, <3>1, <3>2 DEF SomeWork, Queued
  <2>2. CASE WorkDone(t)
    BY <1>1, <2>2 DEF WorkDone, Queued
  <2> QED BY <2>1, <2>2
<1>4. TypeOK'
  BY <1>2, <1>3 DEF TypeOK
<1>5. Token' /\ Requests' /\ ClientToldAll'
  BY <1>2 DEF Token, Requests, ClientToldAll
<1> QED BY <1>3, <1>4, <1>5

\* The work item joins the queue behind the others.
LEMMA QueueWorkOK ==
    ASSUME IInv, NEW t \in Tasks, work[t] # "queued", QueueWork(t),
           task' = [task EXCEPT ![t] = "live"]
    PROVE queue' \in Seq(Tasks) /\ IsInjective(queue') /\ Queued'
<1>1. queue \in Seq(Tasks) /\ IsInjective(queue) /\ t \notin Range(queue)
  BY DEF IInv, TypeOK, Queued
<1>2. /\ queue' \in Seq(Tasks) /\ IsInjective(queue')
      /\ Range(queue') = Range(queue) \cup {t}
  BY <1>1, AppendNew DEF QueueWork
<1>3. Queued'
  BY <1>2 DEF IInv, TypeOK, Queued, QueueWork, Set
<1> QED BY <1>2, <1>3

\* The task is deleted where no request is left.
LEMMA AfterSomeWorkOK == ASSUME IInv, NEW t \in Tasks, AfterSomeWork(t) PROVE IInv'
<1> USE DEF IInv, Set, pipeVars, clientVars, AfterSomeWork, AfterSomeWorkWhen
<1>0. work[t] = "after" /\ task[t] = "live"
  BY DEF Queued
<1>1. CASE state[t] = Buy /\ pipe[t] = "reset"
  <2> USE <1>0, <1>1
  <2>1. TypeOK'
    BY DEF TypeOK
  <2>2. Queued'
    BY DEF TypeOK, Queued
  <2>3. Token' /\ Requests' /\ ClientToldAll'
    BY DEF TypeOK, Token, Requests, ClientToldAll
  <2> QED BY <2>1, <2>2, <2>3
<1>2. CASE ~(state[t] = Buy /\ pipe[t] = "reset")
  <2>1. /\ QueueWork(t) /\ task' = task
        /\ UNCHANGED <<process, state, pipeVars, toServer, toClient, clientVars>>
    BY <1>2
  <2>2. queue' \in Seq(Tasks) /\ IsInjective(queue') /\ Queued'
    BY <1>0, <2>1, QueueWorkOK, task = [task EXCEPT ![t] = "live"] DEF TypeOK
  <2>3. TypeOK'
    BY <2>1, <2>2 DEF TypeOK, QueueWork
  <2>4. Token' /\ Requests' /\ ClientToldAll'
    BY <2>1 DEF Token, Requests, ClientToldAll
  <2> QED BY <2>2, <2>3, <2>4
<1> QED BY <1>1, <1>2

-----------------------------------------------------------------------------
(* The callbacks of a pipe *)

LEMMA ConnectCbOK == ASSUME IInv, NEW t \in Tasks, ConnectCb(t) PROVE IInv'
<1> USE DEF IInv, Set, Callback, clientVars
<1>1. queue' \in Seq(Tasks) /\ IsInjective(queue') /\ Queued'
  BY QueueWorkOK DEF ConnectCb, Queued
<1>2. TypeOK'
  BY <1>1 DEF TypeOK, ConnectCb, QueueWork
<1>3. Token'
  BY DEF TypeOK, Token, ConnectCb
<1>4. Requests' /\ ClientToldAll'
  BY DEF TypeOK, Requests, ClientToldAll, ConnectCb
<1> QED BY <1>1, <1>2, <1>3, <1>4

\* The message is there, so the dialogue is not over.
LEMMA HandleReadOK == ASSUME IInv, NEW t \in Tasks, HandleRead(t) PROVE IInv'
<1> USE UvTaskAssumption DEF IInv, Callback, Set, workVars, pipeVars, clientVars, HandleRead
<1>0. /\ toServer[t] = 1 /\ toClient[t] = <<>> /\ state[t] \in 0 .. (Buy - 1) /\ writes[t] = 0
      /\ Append(toClient[t], state[t] + 1) = <<state[t] + 1>>
  <2>1. toServer[t] = 1 /\ writes[t] = 0
    BY DEF TypeOK
  <2>2. toClient[t] = <<>> /\ state[t] \in 0 .. (Buy - 1)
    BY <2>1 DEF TypeOK, Token
  <2>3. Append(<<>>, state[t] + 1) = <<state[t] + 1>>
    OBVIOUS
  <2> QED BY <2>1, <2>2, <2>3
<1>1. TypeOK'
  <2>1. <<state[t] + 1>> \in Seq(1 .. Buy) /\ state[t] + 1 \in 0 .. Buy
    BY <1>0
  <2>2. toClient' \in [Tasks -> Seq(1 .. Buy)] /\ state' \in [Tasks -> 0 .. Buy]
    BY <1>0, <2>1 DEF TypeOK
  <2>3. writes' \in [Tasks -> 0 .. 1] /\ toServer' \in [Tasks -> 0 .. 1]
    BY <1>0 DEF TypeOK
  <2> QED BY <2>2, <2>3 DEF TypeOK
<1>2. Queued'
  BY DEF TypeOK, Queued
<1>3. Token'
  BY <1>0 DEF TypeOK, Token
<1>4. Requests' /\ ClientToldAll'
  BY DEF TypeOK, Token, Requests, ClientToldAll
<1> QED BY <1>1, <1>2, <1>3, <1>4

LEMMA HandleEofOK == ASSUME IInv, NEW t \in Tasks, HandleEof(t) PROVE IInv'
<1> USE UvTaskAssumption DEF IInv, Callback, Set, workVars, pipeVars, clientVars, HandleEof
<1>1. TypeOK'
  BY DEF TypeOK
<1>2. Queued'
  BY DEF TypeOK, Queued
<1>3. Token'
  BY DEF TypeOK, Token
<1>4. Requests' /\ ClientToldAll'
  BY DEF TypeOK, Token, Requests, ClientToldAll
<1> QED BY <1>1, <1>2, <1>3, <1>4

LEMMA HandleReadErrorOK == ASSUME IInv, NEW t \in Tasks, HandleReadError(t) PROVE IInv'
<1> USE UvTaskAssumption DEF IInv, Callback, Set, workVars, pipeVars, clientVars, HandleReadError, CloseWith
<1>1. TypeOK'
  <2>1. /\ finishing \in [Tasks -> BOOLEAN] /\ reading \in [Tasks -> BOOLEAN]
        /\ shutdown \in [Tasks -> BOOLEAN]
    BY DEF TypeOK
  <2>2. /\ finishing' \in [Tasks -> BOOLEAN] /\ reading' \in [Tasks -> BOOLEAN]
        /\ shutdown' \in [Tasks -> BOOLEAN]
    BY <2>1
  <2>3. /\ pipe' \in [Tasks -> {"open", "closing", "closed", "reset"}]
        /\ writes' \in [Tasks -> 0 .. 1]
    BY DEF TypeOK
  <2> QED BY <2>2, <2>3 DEF TypeOK
<1>2. Queued'
  BY DEF TypeOK, Queued
<1>3. Token'
  BY DEF TypeOK, Token
<1>4. Requests'
  <2>1. finishing' = [finishing EXCEPT ![t] = FALSE] /\ finishing \in [Tasks -> BOOLEAN]
    BY DEF TypeOK
  <2>2. \A x \in Tasks : finishing'[x] => finishing[x] /\ x # t
    BY <2>1
  <2> QED BY <2>2 DEF TypeOK, Token, Requests
<1>5. ClientToldAll'
  BY DEF TypeOK, Token, Requests, ClientToldAll
<1> QED BY <1>1, <1>2, <1>3, <1>4, <1>5

LEMMA HandleWriteOK == ASSUME IInv, NEW t \in Tasks, HandleWrite(t) PROVE IInv'
<1> USE UvTaskAssumption DEF IInv, Callback, Set, workVars, pipeVars, clientVars, HandleWrite, HandleWriteWhen
<1>1. TypeOK'
  <2>1. /\ finishing \in [Tasks -> BOOLEAN] /\ reading \in [Tasks -> BOOLEAN]
        /\ shutdown \in [Tasks -> BOOLEAN]
    BY DEF TypeOK
  <2>2. /\ finishing' \in [Tasks -> BOOLEAN] /\ reading' \in [Tasks -> BOOLEAN]
        /\ shutdown' \in [Tasks -> BOOLEAN]
    BY <2>1
  <2>3. /\ pipe' \in [Tasks -> {"open", "closing", "closed", "reset"}]
        /\ writes' \in [Tasks -> 0 .. 1]
    BY DEF TypeOK
  <2> QED BY <2>2, <2>3 DEF TypeOK
<1>2. Queued'
  BY DEF TypeOK, Queued
<1>3. Token'
  BY DEF TypeOK, Token
<1>4. Requests' /\ ClientToldAll'
  BY DEF TypeOK, Token, Requests, ClientToldAll
<1> QED BY <1>1, <1>2, <1>3, <1>4

\* An open pipe is closed for good when the client has heard the last answer.
LEMMA HandleShutdownOK == ASSUME IInv, NEW t \in Tasks, HandleShutdown(t) PROVE IInv'
<1> USE UvTaskAssumption DEF IInv, Callback, Set, workVars, pipeVars, clientVars, HandleShutdown, CloseWith
<1>1. TypeOK'
  <2>1. /\ finishing \in [Tasks -> BOOLEAN] /\ reading \in [Tasks -> BOOLEAN]
        /\ shutdown \in [Tasks -> BOOLEAN]
    BY DEF TypeOK
  <2>2. /\ finishing' \in [Tasks -> BOOLEAN] /\ reading' \in [Tasks -> BOOLEAN]
        /\ shutdown' \in [Tasks -> BOOLEAN]
    BY <2>1
  <2>3. /\ pipe' \in [Tasks -> {"open", "closing", "closed", "reset"}]
        /\ writes' \in [Tasks -> 0 .. 1]
    BY DEF TypeOK
  <2> QED BY <2>2, <2>3 DEF TypeOK
<1>2. Queued'
  BY DEF TypeOK, Queued
<1>3. Token'
  BY DEF TypeOK, Token
<1>4. Requests' /\ ClientToldAll'
  BY DEF TypeOK, Token, Requests, ClientToldAll
<1> QED BY <1>1, <1>2, <1>3, <1>4

LEMMA HandleFinishCloseOK == ASSUME IInv, NEW t \in Tasks, HandleFinishClose(t) PROVE IInv'
<1> USE UvTaskAssumption DEF IInv, Callback, Set, workVars, pipeVars, clientVars, HandleFinishClose
<1>1. TypeOK'
  BY DEF TypeOK
<1>2. Queued'
  BY DEF TypeOK, Queued
<1>3. Token'
  BY DEF TypeOK, Token
<1>4. Requests' /\ ClientToldAll'
  BY DEF TypeOK, Token, Requests, ClientToldAll
<1> QED BY <1>1, <1>2, <1>3, <1>4

-----------------------------------------------------------------------------
(* A client thread *)

LEMMA ClientConnectOK == ASSUME IInv, NEW t \in Tasks, ClientConnect(t) PROVE IInv'
<1> USE UvTaskAssumption DEF IInv, Set, workVars, pipeVars, clientVars, ClientConnect, ClientStep
<1>1. TypeOK'
  BY DEF TypeOK, Token
<1>2. Queued'
  BY DEF TypeOK, Queued
<1>3. Token'
  BY DEF TypeOK, Token
<1>4. Requests' /\ ClientToldAll'
  BY DEF TypeOK, Token, Requests, ClientToldAll
<1> QED BY <1>1, <1>2, <1>3, <1>4

LEMMA ClientWriteOK == ASSUME IInv, NEW t \in Tasks, ClientWrite(t) PROVE IInv'
<1> USE UvTaskAssumption DEF IInv, Set, workVars, pipeVars, clientVars, ClientWrite, ClientStep
<1>1. TypeOK'
  BY DEF TypeOK, Token
<1>2. Queued'
  BY DEF TypeOK, Queued
<1>3. Token'
  BY DEF TypeOK, Token
<1>4. Requests' /\ ClientToldAll'
  BY DEF TypeOK, Token, Requests, ClientToldAll
<1> QED BY <1>1, <1>2, <1>3, <1>4

LEMMA ClientReadOK == ASSUME IInv, NEW t \in Tasks, ClientRead(t) PROVE IInv'
<1> USE UvTaskAssumption DEF IInv, Set, workVars, pipeVars, clientVars, ClientRead, ClientStep
<1>0. toServer[t] = 0 /\ Head(toClient[t]) = state[t] /\ state[t] \in 0 .. Buy
  BY DEF TypeOK, Token
<1>1. TypeOK'
  <2>0. <<>> \in Seq(1 .. Buy)
    OBVIOUS
  <2>1. heard' \in [Tasks -> 0 .. Buy] /\ toClient' \in [Tasks -> Seq(1 .. Buy)]
    BY <1>0, <2>0 DEF TypeOK
  <2>2. toServer' = toServer \/ toServer' = [toServer EXCEPT ![t] = 1]
    BY <1>0, 0 + 1 = 1
  <2>3. toServer \in [Tasks -> 0 .. 1]
    BY DEF TypeOK
  <2>4. toServer' \in [Tasks -> 0 .. 1]
    BY ONLY t \in Tasks, <2>2, <2>3
  <2> QED BY <2>1, <2>4 DEF TypeOK
<1>2. Queued'
  BY DEF TypeOK, Queued
<1>3. Token'
  BY DEF TypeOK, Token
<1>4. Requests' /\ ClientToldAll'
  BY DEF TypeOK, Token, Requests, ClientToldAll
<1> QED BY <1>1, <1>2, <1>3, <1>4

LEMMA ClientReadErrorOK == ASSUME IInv, NEW t \in Tasks, ClientReadError(t) PROVE IInv'
<1> USE UvTaskAssumption DEF IInv, Set, workVars, pipeVars, clientVars, ClientReadError, ClientStep
<1>1. TypeOK'
  BY DEF TypeOK, Token
<1>2. Queued'
  BY DEF TypeOK, Queued
<1>3. Token'
  BY DEF TypeOK, Token
<1>4. Requests' /\ ClientToldAll'
  BY DEF TypeOK, Token, Requests, ClientToldAll
<1> QED BY <1>1, <1>2, <1>3, <1>4

-----------------------------------------------------------------------------
\* Every callback of the loop, every step of the pool and of a client keeps the
\* invariant.
THEOREM Inductive == Spec => []IInv
<1>1. IInv /\ [Next]_vars => IInv'
  <2> SUFFICES ASSUME IInv, [Next]_vars PROVE IInv'
    OBVIOUS
  <2>1. ASSUME NEW t \in Tasks, Work(t) PROVE IInv'
    BY <2>1, SomeWorkOK, AfterSomeWorkOK DEF Work
  <2>2. ASSUME NEW t \in Tasks, Callbacks(t) \/ HandleReadError(t) PROVE IInv'
    BY <2>2, ConnectCbOK, HandleReadOK, HandleEofOK, HandleWriteOK, HandleShutdownOK,
       HandleFinishCloseOK, HandleReadErrorOK DEF Callbacks
  <2>3. ASSUME NEW t \in Tasks, ClientConnect(t) \/ Client(t) PROVE IInv'
    BY <2>3, ClientConnectOK, ClientWriteOK, ClientReadOK, ClientReadErrorOK DEF Client
  <2>4. CASE Interrupt \/ Ended \/ UNCHANGED vars
    <3>1. /\ process' = "exited" \/ process' = process
          /\ UNCHANGED <<task, state, workVars, pipeVars, toServer, toClient, clientVars>>
      BY <2>4 DEF Interrupt, Ended, vars
    <3> QED BY <3>1 DEF workVars, pipeVars, clientVars, IInv, TypeOK, Queued, Token, Requests,
                        ClientToldAll
  <2> QED BY <2>1, <2>2, <2>3, <2>4 DEF Next
<1> QED BY InitOK, <1>1, PTL DEF Spec

\* When AfterSomeWork deletes a task no request holds its `this` any more: nothing
\* of its pipe is to be called back, and its work item is in nobody's hands, for
\* any number of connections.
THEOREM DeletedIsUnreferenced == Spec => []NoLateCallback
<1>1. IInv => NoLateCallback
  BY DEF IInv, Queued, Requests, NoLateCallback
<1> QED BY <1>1, Inductive, PTL

\* Every variable keeps its type, and a task that is deleted or a client that stops
\* has had the whole dialogue, unless a read of the server failed.
THEOREM DialogueComplete == Spec => []Consistent
<1>1. IInv => Consistent
  BY DEF IInv, Requests, Consistent, DeletedAfterBuy
<1> QED BY <1>1, Inductive, PTL

\* The assert of uv_close is met only by HandleShutdown, of a task whose read
\* failed after its last answer (server_task.h:229 and 296).
THEOREM AbortExplained == Spec => []AbortedFor
<1>1. Init => AbortedFor
  BY DEF Init, AbortedFor
<1>2. IInv /\ AbortedFor /\ [Next]_vars => AbortedFor'
  <2> SUFFICES ASSUME IInv, AbortedFor, [Next]_vars PROVE AbortedFor'
    OBVIOUS
  <2>1. ASSUME NEW t \in Tasks, HandleShutdown(t) PROVE AbortedFor'
    <3>1. CASE pipe[t] = "open"
      BY <2>1, <3>1 DEF HandleShutdown, CloseWith, Callback, AbortedFor
    <3>2. CASE pipe[t] # "open"
      <4>1. /\ shutdown[t] /\ UNCHANGED <<pipe, finishing, state>>
            /\ pipe[t] \in {"closing", "closed", "reset"}
        BY <2>1, <3>2 DEF HandleShutdown, CloseWith, IInv, TypeOK
      <4>2. pipe[t] = "closing" /\ state[t] = Buy
        BY <4>1 DEF IInv, Requests
      <4>3. ~finishing[t]
        BY <4>1 DEF IInv, Requests
      <4> QED BY <4>1, <4>2, <4>3 DEF AbortedFor
    <3> QED BY <3>1, <3>2
  <2>2. ASSUME NEW t \in Tasks,
               Work(t) \/ HandleReadError(t) \/ ClientConnect(t) \/ Client(t)
        PROVE AbortedFor'
    BY <2>2 DEF Work, SomeWork, WorkDone, AfterSomeWork, AfterSomeWorkWhen, HandleReadError, CloseWith,
                Callback, ClientConnect, Client, ClientWrite, ClientRead, ClientReadError, ClientStep,
                AbortedFor
  <2>3. ASSUME NEW t \in Tasks, Callbacks(t) PROVE AbortedFor'
    BY <2>1, <2>3 DEF Callbacks, ConnectCb, HandleRead, HandleEof, HandleWrite, HandleWriteWhen,
                      HandleFinishClose, Callback, AbortedFor
  <2>4. CASE Interrupt
    BY <2>4 DEF Interrupt, AbortedFor
  <2>5. CASE Ended \/ UNCHANGED vars
    BY <2>5 DEF Ended, vars, pipeVars, AbortedFor
  <2> QED BY <2>2, <2>3, <2>4, <2>5 DEF Next
<1> QED BY <1>1, <1>2, Inductive, PTL DEF Spec
=============================================================================
