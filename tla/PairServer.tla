------------------------------ MODULE PairServer ------------------------------
(***************************************************************************)
(* The nanomsg command server over pair sockets.  One thread starts the    *)
(* client processes, sends all commands round robin, and only then         *)
(* receives: it walks over its items again and again, takes one answer     *)
(* from each and drops an item when it has none outstanding.  A client     *)
(* receives, runs the command and sends; whoever finds a buffer full tries *)
(* again.  A command stands for its text and for its answer.               *)
(***************************************************************************)
EXTENDS Integers, Sequences, SequencesExt, FiniteSetsExt

CONSTANTS
    ProcessCount,   \* processCount (4)
    M,              \* m_iteration at the start (4000)
    CommandRoom,    \* commands that the buffers towards a client hold
    AnswerRoom      \* answers that the buffers towards the server hold

ASSUME PairServerAssumption ==
    /\ ProcessCount \in Nat \ {0}
    /\ M \in Nat /\ M >= ProcessCount
    /\ CommandRoom \in Nat \ {0} /\ AnswerRoom \in Nat \ {0}

Items == 1 .. ProcessCount
Commands == 1 .. M
None == 0

VARIABLES
    server,     \* start, send, receive, returned, threw
    serverItems, pos,   \* the items left, and the one the walk is at
    commandIndex,
    iteration,  \* CommandGenerator::m_iteration
    inHand,     \* the command SendNextCommand has taken and not sent yet
    commandsAtPull,     \* ServerItem::m_commandsAtPull
    toClient, toServer, \* what the sockets hold, per direction
    client,     \* none, started, connected, dead
    result,     \* the answer a client has not sent yet
    answered,   \* commands whose answer the server received
    lost,       \* commands a failed send gave up
    died        \* commands that were with a client when it died

sockets == <<toClient, toServer>>
serverVars == <<server, serverItems, pos, commandIndex, iteration, inHand, commandsAtPull>>
vars == <<serverVars, sockets, client, result, answered, lost, died>>

TypeOK ==
    /\ server \in {"start", "send", "receive", "returned", "threw"}
    /\ serverItems \in Seq(Items) /\ pos \in 1 .. (ProcessCount + 1)
    /\ commandIndex \in 0 .. M /\ iteration \in 0 .. M
    /\ inHand \in Commands \cup {None}
    /\ commandsAtPull \in [Items -> 0 .. M]
    /\ \A i \in Items :
         /\ toClient[i] \in Seq(Commands) /\ Len(toClient[i]) <= CommandRoom
         /\ toServer[i] \in Seq(Commands) /\ Len(toServer[i]) <= AnswerRoom
    /\ client \in [Items -> {"none", "started", "connected", "dead"}]
    /\ result \in [Items -> Commands \cup {None}]
    /\ answered \subseteq Commands /\ lost \subseteq Commands /\ died \subseteq Commands

Init ==
    /\ server = "start" /\ serverItems = <<>> /\ pos = 1
    /\ commandIndex = 0 /\ iteration = M /\ inHand = None
    /\ commandsAtPull = [i \in Items |-> 0]
    /\ toClient = [i \in Items |-> <<>>] /\ toServer = [i \in Items |-> <<>>]
    /\ client = [i \in Items |-> "none"] /\ result = [i \in Items |-> None]
    /\ answered = {} /\ lost = {} /\ died = {}

-----------------------------------------------------------------------------
(* server() *)

\* The constructor of a ServerItem binds its socket and starts its client.
ServerItem ==
    /\ server = "start"
    /\ LET i == Len(serverItems) + 1 IN
       /\ serverItems' = Append(serverItems, i)
       /\ client' = [client EXCEPT ![i] = "started"]
       /\ server' = IF i = ProcessCount THEN "send" ELSE "start"
    /\ UNCHANGED <<pos, commandIndex, iteration, inHand, commandsAtPull, sockets,
                   result, answered, lost, died>>

\* ... or throws, which nobody catches.
ServerItemThrows ==
    /\ server = "start" /\ server' = "threw"
    /\ UNCHANGED <<serverItems, pos, commandIndex, iteration, inHand, commandsAtPull,
                   sockets, client, result, answered, lost, died>>

\* SendNextCommand takes a command; without one the sending is over.
NextCommand ==
    /\ server = "send" /\ inHand = None
    /\ IF iteration = 0
       THEN server' = "receive" /\ UNCHANGED <<iteration, inHand>>
       ELSE /\ inHand' = M - iteration + 1 /\ iteration' = iteration - 1
            /\ UNCHANGED server
    /\ UNCHANGED <<serverItems, pos, commandIndex, commandsAtPull, sockets, client,
                   result, answered, lost, died>>

SendTo(i, sent) ==
    /\ server = "send" /\ inHand # None
    /\ IF client[i] = "connected" /\ Len(toClient[i]) < CommandRoom
       THEN toClient' = [toClient EXCEPT ![i] = Append(@, inHand)]
       ELSE sent /\ UNCHANGED toClient
    /\ commandsAtPull' = [commandsAtPull EXCEPT ![i] = @ + 1]
    /\ inHand' = None /\ commandIndex' = commandIndex + 1
    /\ UNCHANGED <<server, serverItems, pos, iteration, toServer, client, result, answered, lost, died>>

Turn == serverItems[(commandIndex % ProcessCount) + 1]
SendToFirst == SendTo(serverItems[1], FALSE)
SendOnce == SendTo(Turn, TRUE)

\* nn_send: as long as there is no peer or no room it says EAGAIN and is tried
\* again.
Send == SendTo(Turn, FALSE)

\* Any other error: the command is gone, and the commands after it stay.
SendError ==
    /\ server = "send" /\ inHand # None
    /\ lost' = lost \cup {inHand} /\ inHand' = None /\ server' = "receive"
    /\ UNCHANGED <<serverItems, pos, commandIndex, iteration, commandsAtPull, sockets,
                   client, result, answered, died>>

\* ReceiveCommandResponse under remove_if: it blocks until the item's client
\* has answered; the last answer removes the item.
ReceiveCommandResponse ==
    /\ server = "receive" /\ pos <= Len(serverItems)
    /\ LET i == serverItems[pos] IN
       /\ toServer[i] # <<>>
       /\ toServer' = [toServer EXCEPT ![i] = Tail(@)]
       /\ answered' = answered \cup {Head(toServer[i])}
       /\ commandsAtPull' = [commandsAtPull EXCEPT ![i] = @ - 1]
       /\ IF commandsAtPull'[i] > 0
          THEN pos' = pos + 1 /\ UNCHANGED serverItems
          ELSE serverItems' = RemoveAt(serverItems, pos) /\ UNCHANGED pos
    /\ UNCHANGED <<server, commandIndex, iteration, inHand, toClient, client, result, lost, died>>

\* nn_recv fails: nothing is counted, and remove_if goes by the counter as it is.
ReceiveError ==
    /\ server = "receive" /\ pos <= Len(serverItems)
    /\ IF commandsAtPull[serverItems[pos]] > 0
       THEN pos' = pos + 1 /\ UNCHANGED serverItems
       ELSE serverItems' = RemoveAt(serverItems, pos) /\ UNCHANGED pos
    /\ UNCHANGED <<server, commandIndex, iteration, inHand, commandsAtPull, sockets, client,
                   result, answered, lost, died>>

\* The walk starts again, or is over.
NextWalk ==
    /\ server = "receive" /\ pos > Len(serverItems)
    /\ IF serverItems = <<>> THEN server' = "returned" /\ UNCHANGED pos
                             ELSE pos' = 1 /\ UNCHANGED server
    /\ UNCHANGED <<serverItems, commandIndex, iteration, inHand, commandsAtPull, sockets,
                   client, result, answered, lost, died>>

-----------------------------------------------------------------------------
(* client() *)

ClientStep(i) == UNCHANGED <<serverVars, answered, lost>>

ClientConnect(i) ==
    /\ ClientStep(i) /\ client[i] = "started"
    /\ client' = [client EXCEPT ![i] = "connected"]
    /\ UNCHANGED <<sockets, result, died>>

\* nn_recv, FromStream and Run.
ClientReceive(i) ==
    /\ ClientStep(i) /\ client[i] = "connected" /\ result[i] = None /\ toClient[i] # <<>>
    /\ result' = [result EXCEPT ![i] = Head(toClient[i])]
    /\ toClient' = [toClient EXCEPT ![i] = Tail(@)]
    /\ UNCHANGED <<toServer, client, died>>

ClientSendThen(i, kept) ==
    /\ ClientStep(i) /\ client[i] = "connected" /\ result[i] # None
    /\ Len(toServer[i]) < AnswerRoom
    /\ toServer' = [toServer EXCEPT ![i] = Append(@, result[i])]
    /\ result' = [result EXCEPT ![i] = kept]
    /\ UNCHANGED <<toClient, client, died>>

ClientSendAgain(i) == ClientSendThen(i, result[i])

\* nn_send, tried until there is room, and wasSend ends the trying.
ClientSend(i) == ClientSendThen(i, None)

\* The process is killed, with what its buffers hold; answers that have reached
\* the server stay.  Nobody starts it again.
ClientDies(i) ==
    /\ ClientStep(i) /\ client[i] \in {"started", "connected"}
    /\ client' = [client EXCEPT ![i] = "dead"]
    /\ toClient' = [toClient EXCEPT ![i] = <<>>] /\ result' = [result EXCEPT ![i] = None]
    /\ died' = died \cup Range(toClient[i]) \cup ({result[i]} \ {None})
    /\ UNCHANGED toServer

-----------------------------------------------------------------------------
Server == ServerItem \/ NextCommand \/ Send \/ ReceiveCommandResponse \/ NextWalk

Client(i) == ClientConnect(i) \/ ClientReceive(i) \/ ClientSend(i)

Next ==
    \/ Server \/ ServerItemThrows \/ SendError \/ ReceiveError
    \/ \E i \in Items : Client(i) \/ ClientDies(i)

Spec == Init /\ [][Next]_vars

ReceiveFrom(i) == ReceiveCommandResponse /\ serverItems[pos] = i

\* Both sides are scheduled and poll; nobody need fail, and nn_recv does not
\* fail for ever on an item whose answer is there.
FairSpec ==
    /\ Spec /\ WF_vars(Server)
    /\ \A i \in Items : WF_vars(Client(i)) /\ SF_vars(ReceiveFrom(i))

-----------------------------------------------------------------------------
(* Properties *)

\* What item i waits for, in the order in which it will come.
Outstanding(i) ==
    toServer[i] \o (IF result[i] = None THEN <<>> ELSE <<result[i]>>) \o toClient[i]

\* The item is dropped on its counter alone (pair_socket.h:135): the counter is
\* what is outstanding, never an answer more, and less only if the client died.
CounterIsOutstanding ==
    \A i \in Items :
        /\ commandsAtPull[i] >= Len(Outstanding(i))
        /\ client[i] # "dead" => commandsAtPull[i] = Len(Outstanding(i))

\* A server that returns has the answer to every command it sent.
ReturnsWithAll == server = "returned" => answered = (1 .. (M - iteration)) \ lost

\* The state is well formed, the counters are what is outstanding, and nothing is
\* outstanding at the end (pair_socket.h:78-185).
Consistent == TypeOK /\ CounterIsOutstanding /\ ReturnsWithAll

\* The most commands an item is given, and what its client can hold without
\* the server receiving anything.
Share == (M + ProcessCount - 1) \div ProcessCount
Room == CommandRoom + 1 + AnswerRoom

\* What the buffers and the client of an item hold.
Held(i) == Range(toServer[i]) \cup Range(toClient[i]) \cup ({result[i]} \ {None})

\* A command is under way while the server's hand, a buffer or a client holds it,
\* and given up when its send fails or its client dies; there is no report.
Ledger == INSTANCE CommandLedger WITH
    Capacity <- ProcessCount * Room + 1,
    left <- iteration,
    flying <- ({inHand} \ {None}) \cup UNION {Held(i) : i \in Items},
    lost <- lost \cup died,
    reported <- FALSE, dumped <- {}

\* The server keeps the promise of CommandLedger: a command moves from place to
\* place without being doubled or forgotten, and ends once (pair_socket.h:78-185).
LedgerKept == Ledger!Spec

\* The server receives nothing before it has sent everything, so it returns
\* only if the buffers hold an item's share of the commands; then it does, unless
\* a process cannot be started or dies, or a send fails.
ServerReturns ==
    (Share <= Room) =>
        <>(\/ server \in {"returned", "threw"} \/ lost # {}
           \/ \E i \in Items : client[i] = "dead")
=============================================================================
