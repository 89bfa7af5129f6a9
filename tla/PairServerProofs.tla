--------------------------- MODULE PairServerProofs ---------------------------
(***************************************************************************)
(* Proofs about PairServer for any number of processes and commands and    *)
(* any buffers.  A command that was taken is in one place: in the server's *)
(* hand, in one item's buffers or client, answered or lost; or a client    *)
(* died with it, and then that item's counter is larger than what is       *)
(* outstanding, for good, so the item is never dropped (Swallowed).        *)
(***************************************************************************)
EXTENDS PairServer, FiniteSetTheorems, SequenceTheorems, TLAPS

Taken == 1 .. (M - iteration)

AllHeld == UNION {Held(i) : i \in Items}

\* How many that are.
Count(i) == Len(toServer[i]) + Len(toClient[i]) + (IF result[i] = None THEN 0 ELSE 1)

Swallowed(i) == client[i] = "dead" /\ commandsAtPull[i] > Count(i)

Types == TypeOK /\ toClient \in [Items -> Seq(Commands)] /\ toServer \in [Items -> Seq(Commands)]

\* The list of the items: grows, is complete, and loses who has nothing to wait for.
ItemList ==
    /\ Len(serverItems) <= ProcessCount
    /\ server = "start" =>
         /\ Len(serverItems) < ProcessCount
         /\ \A j \in 1 .. Len(serverItems) : serverItems[j] = j
    /\ server = "send" => Len(serverItems) = ProcessCount /\ Items \subseteq Range(serverItems)
    /\ server = "returned" => serverItems = <<>>
    /\ \A i \in Items : i \notin Range(serverItems) => commandsAtPull[i] = 0

Counters ==
    /\ \A i \in Items : commandsAtPull[i] <= commandIndex
    /\ commandIndex <= M - iteration /\ (server = "start" => commandIndex = 0)
    /\ inHand # None => server = "send" /\ commandIndex < M - iteration
    /\ \A i \in Items :
         /\ commandsAtPull[i] >= Count(i)
         /\ client[i] # "dead" => commandsAtPull[i] = Count(i)

\* No command is in two places: within an item, ...
Inner ==
    \A i \in Items :
        /\ IsInjective(toServer[i]) /\ IsInjective(toClient[i])
        /\ Range(toServer[i]) \cap Range(toClient[i]) = {}
        /\ result[i] \notin Range(toServer[i]) /\ result[i] \notin Range(toClient[i])

\* ... and among items, the server's hand and the ends.
OnePlace ==
    /\ \A i \in Items :
         /\ Held(i) \cap (answered \cup lost \cup {inHand}) = {}
         /\ Held(i) \subseteq Taken
    /\ \A i, j \in Items : i # j => Held(i) \cap Held(j) = {}
    /\ inHand \notin answered \cup lost /\ (inHand # None => inHand \in Taken)
    /\ answered \cap lost = {} /\ answered \subseteq Taken /\ lost \subseteq Taken

\* Nothing is forgotten, unless a client died with it.
Accounted ==
    \/ \E i \in Items : Swallowed(i)
    \/ Taken \subseteq answered \cup lost \cup {inHand} \cup AllHeld

IInv == Types /\ ItemList /\ Counters /\ Inner /\ OnePlace /\ Accounted /\ ReturnsWithAll

-----------------------------------------------------------------------------
(* Sequences without repetition *)

LEMMA Sums ==
    /\ \A a, b \in Nat : a <= b /\ ~(a + 1 <= b) => a = b
    /\ \A a, b \in Nat : a + b + 0 \in Nat /\ a + b + 1 \in Nat
    /\ \A a, b \in Nat : a + b + 0 = 0 => a = 0 /\ b = 0
    /\ \A a, b \in Nat : a + b + 1 # 0
OBVIOUS

\* The client takes a command, and sends an answer.
LEMMA ClientSums ==
    /\ \A a, b \in Nat : b # 0 => a + (b - 1) + 1 = a + b + 0
    /\ \A a, b \in Nat : (a + 1) + b + 0 = a + b + 1
OBVIOUS

\* The server sends a command, and takes an answer.
LEMMA ServerSums ==
    /\ \A a, b \in Nat : a + (b + 1) + 0 = (a + b + 0) + 1 /\ a + (b + 1) + 1 = (a + b + 1) + 1
    /\ \A a, b \in Nat : a # 0 => (a - 1) + b + 0 = (a + b + 0) - 1 /\ (a - 1) + b + 1 = (a + b + 1) - 1
OBVIOUS

\* The client dies: its half of the count is gone.
LEMMA DeathSums ==
    /\ \A a, b \in Nat : a + 0 + 0 < a + b + 1
    /\ \A a, b \in Nat : b # 0 => a + 0 + 0 < a + b + 0
    /\ \A a \in Nat : a + 0 + 0 \in Nat
OBVIOUS

LEMMA SeqAppend ==
    ASSUME NEW S, NEW q \in Seq(S), NEW e \in S
    PROVE /\ Append(q, e) \in Seq(S) /\ Range(Append(q, e)) = Range(q) \cup {e}
          /\ Len(Append(q, e)) = Len(q) + 1 /\ Len(q) \in Nat
          /\ IsInjective(q) /\ e \notin Range(q) => IsInjective(Append(q, e))
<1>1. /\ Append(q, e) \in Seq(S) /\ DOMAIN Append(q, e) = 1 .. (Len(q) + 1)
      /\ \A j \in 1 .. Len(q) : Append(q, e)[j] = q[j]
      /\ Append(q, e)[Len(q) + 1] = e /\ DOMAIN q = 1 .. Len(q) /\ Len(q) \in Nat
      /\ Len(Append(q, e)) = Len(q) + 1
  OBVIOUS
<1>2. Range(Append(q, e)) = Range(q) \cup {e}
  BY <1>1 DEF Range
<1>3. ASSUME IsInjective(q), e \notin Range(q) PROVE IsInjective(Append(q, e))
  <2>1. \A j \in 1 .. Len(q) : q[j] # e
    BY <1>1, <1>3 DEF Range
  <2> QED BY <1>1, <1>3, <2>1 DEF IsInjective
<1> QED BY <1>1, <1>2, <1>3

LEMMA SeqTail ==
    ASSUME NEW S, NEW q \in Seq(S), q # <<>>
    PROVE /\ Tail(q) \in Seq(S) /\ Head(q) \in S /\ Head(q) \in Range(q)
          /\ Len(q) \in Nat \ {0} /\ Len(Tail(q)) = Len(q) - 1
          /\ IsInjective(q) => IsInjective(Tail(q)) /\ Range(Tail(q)) = Range(q) \ {Head(q)}
<1>1. /\ Tail(q) \in Seq(S) /\ DOMAIN Tail(q) = 1 .. (Len(q) - 1)
      /\ \A j \in 1 .. (Len(q) - 1) : Tail(q)[j] = q[j + 1]
      /\ Len(q) \in Nat \ {0} /\ DOMAIN q = 1 .. Len(q) /\ Head(q) = q[1]
      /\ Len(Tail(q)) = Len(q) - 1
  OBVIOUS
<1>2. Head(q) \in S /\ Head(q) \in Range(q)
  BY <1>1 DEF Range
<1>3. ASSUME IsInjective(q) PROVE IsInjective(Tail(q)) /\ Range(Tail(q)) = Range(q) \ {Head(q)}
  <2>1. \A a, b \in 1 .. Len(q) : q[a] = q[b] => a = b
    BY <1>1, <1>3 DEF IsInjective
  <2>2. IsInjective(Tail(q))
    BY <1>1, <2>1 DEF IsInjective
  <2>3. \A j \in 1 .. (Len(q) - 1) : q[j + 1] \in Range(q) /\ q[j + 1] # q[1]
    BY <1>1, <2>1 DEF Range
  <2>4. Range(Tail(q)) \subseteq Range(q) \ {Head(q)}
    BY <1>1, <2>3 DEF Range
  <2>5. ASSUME NEW x \in Range(q), x # Head(q) PROVE x \in Range(Tail(q))
    <3>1. PICK k \in 1 .. Len(q) : q[k] = x
      BY <1>1 DEF Range
    <3>2. k - 1 \in 1 .. (Len(q) - 1) /\ (k - 1) + 1 = k
      BY <1>1, <2>5, <3>1
    <3>3. Tail(q)[k - 1] = x
      BY <1>1, <3>1, <3>2
    <3> QED BY <1>1, <3>2, <3>3 DEF Range
  <2> QED BY <2>2, <2>4, <2>5
<1> QED BY <1>1, <1>2, <1>3

LEMMA EmptyRange == Range(<<>>) = {} /\ IsInjective(<<>>) /\ Len(<<>>) = 0
BY DEF Range, IsInjective

\* remove_if drops one element and keeps the others.
LEMMA SeqRemove ==
    ASSUME NEW S, NEW q \in Seq(S), NEW k \in 1 .. Len(q)
    PROVE /\ RemoveAt(q, k) \in Seq(S) /\ Len(RemoveAt(q, k)) = Len(q) - 1 /\ Len(q) \in Nat
          /\ Range(q) \ {q[k]} \subseteq Range(RemoveAt(q, k))
<1> DEFINE a == SubSeq(q, 1, k - 1)
           b == SubSeq(q, k + 1, Len(q))
<1>1. Len(q) \in Nat /\ DOMAIN q = 1 .. Len(q) /\ \A j \in 1 .. Len(q) : q[j] \in S
  OBVIOUS
<1>2. a \in Seq(S) /\ Len(a) = k - 1 /\ \A j \in 1 .. (k - 1) : a[j] = q[j]
  <2>1. 1 \in Int /\ k - 1 \in Int /\ \A j \in 1 .. (k - 1) : q[j] \in S
    BY <1>1
  <2>2. /\ SubSeq(q, 1, k - 1) \in Seq(S)
        /\ Len(SubSeq(q, 1, k - 1)) = IF 1 <= k - 1 THEN (k - 1) - 1 + 1 ELSE 0
        /\ \A j \in 1 .. ((k - 1) - 1 + 1) : SubSeq(q, 1, k - 1)[j] = q[1 + j - 1]
    BY <2>1, SubSeqProperties
  <2>3. Len(a) = k - 1 /\ (k - 1) - 1 + 1 = k - 1
    BY <1>1, <2>2
  <2>4. ASSUME NEW j \in 1 .. (k - 1) PROVE a[j] = q[j]
    <3>1. 1 + j - 1 = j
      OBVIOUS
    <3> QED BY <2>2, <2>3, <3>1
  <2> QED BY <2>2, <2>3, <2>4
<1>3. b \in Seq(S) /\ Len(b) = Len(q) - k /\ \A j \in 1 .. (Len(q) - k) : b[j] = q[k + j]
  <2>1. k + 1 \in Int /\ Len(q) \in Int /\ \A j \in (k + 1) .. Len(q) : q[j] \in S
    BY <1>1
  <2>2. /\ SubSeq(q, k + 1, Len(q)) \in Seq(S)
        /\ Len(SubSeq(q, k + 1, Len(q))) = IF k + 1 <= Len(q) THEN Len(q) - (k + 1) + 1 ELSE 0
        /\ \A j \in 1 .. (Len(q) - (k + 1) + 1) : SubSeq(q, k + 1, Len(q))[j] = q[(k + 1) + j - 1]
    BY <2>1, SubSeqProperties
  <2>3. Len(b) = Len(q) - k /\ Len(q) - (k + 1) + 1 = Len(q) - k
    <3>1. k \in Nat /\ k <= Len(q)
      BY <1>1
    <3>2. CASE k + 1 <= Len(q)
      BY <1>1, <2>2, <3>1, <3>2
    <3>3. CASE ~(k + 1 <= Len(q))
      <4>1. k = Len(q)
        BY <1>1, <3>1, <3>3, Sums, Zenon
      <4>2. Len(b) = 0
        BY <2>2, <3>3
      <4> QED BY <1>1, <4>1, <4>2
    <3> QED BY <3>2, <3>3
  <2>4. ASSUME NEW j \in 1 .. (Len(q) - k) PROVE b[j] = q[k + j]
    <3>1. (k + 1) + j - 1 = k + j
      OBVIOUS
    <3> QED BY <2>2, <2>3, <3>1
  <2> QED BY <2>2, <2>3, <2>4
<1> HIDE DEF a, b
<1>4. /\ a \o b \in Seq(S) /\ Len(a \o b) = Len(a) + Len(b)
      /\ \A j \in 1 .. (Len(a) + Len(b)) : (a \o b)[j] = IF j <= Len(a) THEN a[j] ELSE b[j - Len(a)]
  BY <1>2, <1>3, ConcatProperties
<1>5. RemoveAt(q, k) = a \o b
  BY DEF RemoveAt, a, b
<1>6. DOMAIN (a \o b) = 1 .. (Len(q) - 1) /\ Len(a \o b) = Len(q) - 1
  <2>1. DOMAIN (a \o b) = 1 .. Len(a \o b)
    BY <1>4, LenProperties
  <2>2. Len(a \o b) = Len(q) - 1
    BY <1>1, <1>2, <1>3, <1>4
  <2> QED BY <2>1, <2>2
<1>7. ASSUME NEW x \in Range(q), x # q[k] PROVE x \in Range(a \o b)
  <2>1. PICK j \in 1 .. Len(q) : q[j] = x /\ j # k
    BY <1>1, <1>7 DEF Range
  <2>2. CASE j < k
    <3>1. j \in 1 .. (Len(q) - 1) /\ j \in 1 .. (Len(a) + Len(b)) /\ j <= Len(a) /\ j \in 1 .. (k - 1)
      BY <1>1, <1>2, <1>3, <2>1, <2>2
    <3>2. (a \o b)[j] = x
      BY <1>2, <1>4, <2>1, <3>1
    <3> QED BY <1>6, <3>1, <3>2 DEF Range
  <2>3. CASE j > k
    <3>1. /\ j - 1 \in 1 .. (Len(q) - 1) /\ j - 1 \in 1 .. (Len(a) + Len(b)) /\ ~(j - 1 <= Len(a))
          /\ (j - 1) - Len(a) = j - k /\ j - k \in 1 .. (Len(q) - k) /\ k + (j - k) = j
      BY <1>1, <1>2, <1>3, <2>1, <2>3
    <3>2. (a \o b)[j - 1] = x
      BY <1>3, <1>4, <2>1, <3>1
    <3> QED BY <1>6, <3>1, <3>2 DEF Range
  <2> QED BY <2>1, <2>2, <2>3
<1> QED BY <1>1, <1>4, <1>5, <1>6, <1>7
-----------------------------------------------------------------------------
(* Steps that leave the commands where they are *)

LEMMA ConstantsOK ==
    /\ ProcessCount \in Nat \ {0} /\ M \in Nat /\ None \notin Commands
    /\ CommandRoom \in Nat /\ AnswerRoom \in Nat
BY PairServerAssumption DEF None, Commands

LEMMA InitOK == Init => IInv
<1> SUFFICES ASSUME Init PROVE IInv
  OBVIOUS
<1> USE DEF Init
<1>1. toClient \in [Items -> Seq(Commands)] /\ toServer \in [Items -> Seq(Commands)]
  OBVIOUS
<1>2. \A i \in Items : toClient[i] = <<>> /\ toServer[i] = <<>> /\ result[i] = None /\ commandsAtPull[i] = 0
  OBVIOUS
<1>3. Types
  <2>1. pos \in 1 .. (ProcessCount + 1) /\ commandIndex \in 0 .. M /\ iteration \in 0 .. M
    BY ConstantsOK
  <2>2. commandsAtPull \in [Items -> 0 .. M]
    BY ConstantsOK
  <2>3. serverItems \in Seq(Items)
    OBVIOUS
  <2>4. \A i \in Items : Len(toClient[i]) <= CommandRoom /\ Len(toServer[i]) <= AnswerRoom
    BY <1>2, EmptyRange, ConstantsOK
  <2> QED BY <1>1, <2>1, <2>2, <2>3, <2>4 DEF Types, TypeOK
<1>4. ItemList
  BY <1>2, EmptyRange, ConstantsOK DEF ItemList
<1>5. Counters
  BY <1>2, EmptyRange, ConstantsOK DEF Counters, Count
<1>6. \A i \in Items : Held(i) = {}
  BY <1>2, EmptyRange DEF Held
<1>7. Inner
  BY <1>2, EmptyRange DEF Inner
<1>8. Taken = {}
  BY ConstantsOK DEF Taken
<1>9. OnePlace /\ Accounted /\ ReturnsWithAll
  BY <1>6, <1>8 DEF OnePlace, Accounted, AllHeld, ReturnsWithAll
<1> QED BY <1>3, <1>4, <1>5, <1>7, <1>9 DEF IInv

LEMMA PlacesKept ==
    ASSUME IInv, UNCHANGED <<iteration, answered, lost, inHand>>,
           \A i \in Items : Held(i)' = Held(i) /\ (Swallowed(i) => Swallowed(i)')
    PROVE OnePlace' /\ Accounted'
<1>1. Taken' = Taken
  BY DEF Taken
<1>2. OnePlace'
  BY <1>1 DEF IInv, OnePlace
<1>3. ASSUME NEW i \in Items, Swallowed(i) PROVE Accounted'
  BY <1>3, Zenon DEF Accounted
<1>4. CASE Taken \subseteq answered \cup lost \cup {inHand} \cup AllHeld
  <2>1. AllHeld' = AllHeld
    BY DEF AllHeld
  <2>2. Taken' \subseteq answered' \cup lost' \cup {inHand'} \cup AllHeld'
    BY <1>1, <1>4, <2>1
  <2>3. Accounted' <=> \/ (\E i \in Items : Swallowed(i))'
                       \/ Taken' \subseteq answered' \cup lost' \cup {inHand'} \cup AllHeld'
    BY DEF Accounted
  <2> QED BY <1>2, <2>2, <2>3
<1> QED BY <1>2, <1>3, <1>4 DEF IInv, Accounted

LEMMA BuffersKept ==
    ASSUME IInv, UNCHANGED <<toClient, toServer, result>>
    PROVE Inner' /\ \A i \in Items : Held(i)' = Held(i) /\ Count(i)' = Count(i)
BY DEF IInv, Inner, Held, Count

LEMMA CountNat ==
    ASSUME Types, NEW i \in Items
    PROVE /\ Count(i) \in Nat /\ Len(toServer[i]) \in Nat /\ Len(toClient[i]) \in Nat
          /\ result[i] = None => Count(i) = Len(toServer[i]) + Len(toClient[i]) + 0
          /\ result[i] # None => Count(i) = Len(toServer[i]) + Len(toClient[i]) + 1
<1>1. Len(toServer[i]) \in Nat /\ Len(toClient[i]) \in Nat
  BY DEF Types
<1>2. result[i] = None => Count(i) = Len(toServer[i]) + Len(toClient[i]) + 0
  BY Zenon DEF Count
<1>3. result[i] # None => Count(i) = Len(toServer[i]) + Len(toClient[i]) + 1
  BY Zenon DEF Count
<1> QED BY <1>1, <1>2, <1>3, Sums, Zenon

LEMMA CountZero ==
    ASSUME Types, NEW i \in Items, Count(i) = 0
    PROVE Held(i) = {}
<1>1. toServer[i] \in Seq(Commands) /\ toClient[i] \in Seq(Commands)
  BY DEF Types
<1>2. Len(toServer[i]) = 0 /\ Len(toClient[i]) = 0 /\ result[i] = None
  BY CountNat, Sums, Zenon
<1>3. toServer[i] = <<>> /\ toClient[i] = <<>>
  BY <1>1, <1>2, EmptySeq
<1> QED BY <1>2, <1>3, EmptyRange DEF Held

LEMMA ServerItemOK == IInv /\ ServerItem => IInv'
<1> SUFFICES ASSUME IInv, ServerItem PROVE IInv'
  OBVIOUS
<1> DEFINE k == Len(serverItems) + 1
<1>0. UNCHANGED <<pos, commandIndex, iteration, inHand, commandsAtPull, toClient, toServer, result,
                  answered, lost, died>> /\ server = "start"
  BY DEF ServerItem, sockets
<1>1. /\ serverItems \in Seq(Items) /\ Len(serverItems) \in Nat /\ Len(serverItems) < ProcessCount
      /\ \A j \in 1 .. Len(serverItems) : serverItems[j] = j
  BY <1>0 DEF IInv, Types, TypeOK, ItemList
<1>2. k \in Items /\ k \in Nat
  BY <1>1, ConstantsOK DEF Items
<1>3. /\ serverItems' = Append(serverItems, k) /\ client' = [client EXCEPT ![k] = "started"]
      /\ server' = IF k = ProcessCount THEN "send" ELSE "start"
  BY DEF ServerItem
<1>4. /\ serverItems' \in Seq(Items) /\ Range(serverItems') = Range(serverItems) \cup {k}
      /\ Len(serverItems') = k /\ DOMAIN serverItems' = 1 .. k
      /\ \A j \in 1 .. k : serverItems'[j] = j
  <2>1. serverItems' \in Seq(Items) /\ Range(serverItems') = Range(serverItems) \cup {k} /\ Len(serverItems') = k
    BY <1>1, <1>2, <1>3, SeqAppend
  <2>2. DOMAIN serverItems' = 1 .. k
    BY <2>1, LenProperties
  <2>3. \A j \in 1 .. k : serverItems'[j] = j
    BY <1>1, <1>2, <1>3
  <2> QED BY <2>1, <2>2, <2>3
<1> HIDE DEF k
<1>5. client' \in [Items -> {"none", "started", "connected", "dead"}]
      /\ \A i \in Items : client'[i] = IF i = k THEN "started" ELSE client[i]
  BY <1>3 DEF IInv, Types, TypeOK
<1>6. Types'
  BY <1>0, <1>3, <1>4, <1>5 DEF IInv, Types, TypeOK
<1>7. ItemList'
  <2>1. k <= ProcessCount /\ (k # ProcessCount => k < ProcessCount)
    BY <1>2, ConstantsOK DEF Items
  <2>2. k = ProcessCount => Items \subseteq Range(serverItems')
    BY <1>4 DEF Items, Range
  <2>3. server' # "returned" /\ (server' = "start" => k # ProcessCount) /\ (server' = "send" => k = ProcessCount)
    BY <1>3
  <2>4. \A i \in Items : i \notin Range(serverItems)' => commandsAtPull'[i] = 0
    BY <1>0, <1>4 DEF IInv, ItemList
  <2> QED BY <1>4, <2>1, <2>2, <2>3, <2>4 DEF ItemList
<1>8. \A i \in Items : commandsAtPull[i] = 0 /\ Count(i) = 0
  <2>1. ASSUME NEW i \in Items PROVE commandsAtPull[i] = 0 /\ Count(i) = 0
    <3>1. commandsAtPull[i] \in Nat /\ commandsAtPull[i] <= 0 /\ commandsAtPull[i] >= Count(i)
      BY <1>0 DEF IInv, Counters, Types, TypeOK
    <3>2. Count(i) \in Nat
      BY CountNat DEF IInv
    <3> QED BY <3>1, <3>2
  <2> QED BY <2>1
<1>9. Inner' /\ \A i \in Items : Held(i)' = Held(i) /\ Count(i)' = Count(i)
  BY <1>0, BuffersKept
<1>10. Counters'
  BY <1>0, <1>8, <1>9 DEF IInv, Counters
<1>11. OnePlace' /\ Accounted'
  <2>1. \A i \in Items : ~Swallowed(i)
    BY <1>8 DEF Swallowed
  <2> QED BY <1>0, <1>9, <2>1, PlacesKept
<1>12. ReturnsWithAll'
  BY <1>3 DEF ReturnsWithAll
<1> QED BY <1>6, <1>7, <1>9, <1>10, <1>11, <1>12 DEF IInv

LEMMA ServerItemThrowsOK == IInv /\ ServerItemThrows => IInv'
<1> SUFFICES ASSUME IInv, ServerItemThrows PROVE IInv'
  OBVIOUS
<1> USE DEF ServerItemThrows, sockets
<1>1. Inner' /\ \A i \in Items : Held(i)' = Held(i) /\ Count(i)' = Count(i)
  BY BuffersKept
<1>2. OnePlace' /\ Accounted'
  <2>1. \A i \in Items : Swallowed(i) => Swallowed(i)'
    BY <1>1 DEF Swallowed
  <2> QED BY <1>1, <2>1, PlacesKept
<1>3. Types' /\ ItemList' /\ ReturnsWithAll'
  BY DEF IInv, Types, TypeOK, ItemList, ReturnsWithAll
<1>4. Counters'
  <2>1. inHand = None
    BY DEF IInv, Counters
  <2> QED BY <1>1, <2>1 DEF IInv, Counters
<1> QED BY <1>1, <1>2, <1>3, <1>4 DEF IInv

\* All items are gone only when every counter is zero: nothing is outstanding,
\* and no client died with a command.
LEMMA NextWalkOK == IInv /\ NextWalk => IInv'
<1> SUFFICES ASSUME IInv, NextWalk PROVE IInv'
  OBVIOUS
<1>0. UNCHANGED <<serverItems, commandIndex, iteration, inHand, commandsAtPull, toClient, toServer,
                  client, result, answered, lost, died>> /\ server = "receive"
  BY DEF NextWalk, sockets
<1>1. Inner' /\ \A i \in Items : Held(i)' = Held(i) /\ Count(i)' = Count(i)
  BY <1>0, BuffersKept
<1>2. OnePlace' /\ Accounted'
  <2>1. \A i \in Items : Swallowed(i) => Swallowed(i)'
    BY <1>0, <1>1 DEF Swallowed
  <2> QED BY <1>0, <1>1, <2>1, PlacesKept
<1>3. inHand = None
  BY <1>0 DEF IInv, Counters
<1>4. CASE serverItems # <<>>
  <2>1. pos' = 1 /\ server' = server /\ pos' \in 1 .. (ProcessCount + 1)
    BY <1>4, ConstantsOK DEF NextWalk
  <2>2. Types' /\ ItemList' /\ Counters' /\ ReturnsWithAll'
    BY <1>0, <1>1, <1>3, <2>1 DEF IInv, Types, TypeOK, ItemList, Counters, ReturnsWithAll
  <2> QED BY <1>1, <1>2, <2>2 DEF IInv
<1>5. CASE serverItems = <<>>
  <2>1. server' = "returned" /\ pos' = pos
    BY <1>5 DEF NextWalk
  <2>2. Types' /\ ItemList' /\ Counters'
    BY <1>0, <1>1, <1>3, <1>5, <2>1 DEF IInv, Types, TypeOK, ItemList, Counters
  <2>3. ASSUME NEW i \in Items PROVE Held(i) = {} /\ ~Swallowed(i)
    <3>1. commandsAtPull[i] = 0 /\ commandsAtPull[i] >= Count(i) /\ Count(i) \in Nat
      BY <1>5, EmptyRange, CountNat DEF IInv, ItemList, Counters
    <3>2. Count(i) = 0
      BY <3>1
    <3> QED BY <3>1, <3>2, CountZero DEF Swallowed, IInv
  <2>4. AllHeld = {}
    BY <2>3 DEF AllHeld
  <2>5. Taken \subseteq answered \cup lost \cup {None}
    BY <1>3, <2>3, <2>4 DEF IInv, Accounted
  <2>6. None \notin Taken
    BY DEF Taken, None
  <2>7. answered = Taken \ lost
    BY <2>5, <2>6 DEF IInv, OnePlace
  <2>8. ReturnsWithAll'
    BY <1>0, <2>7 DEF ReturnsWithAll, Taken
  <2> QED BY <1>1, <1>2, <2>2, <2>8 DEF IInv
<1> QED BY <1>4, <1>5

LEMMA ClientConnectOK == ASSUME IInv, NEW i \in Items, ClientConnect(i) PROVE IInv'
<1> USE DEF ClientConnect, ClientStep, serverVars, sockets
<1>1. Inner' /\ \A j \in Items : Held(j)' = Held(j) /\ Count(j)' = Count(j)
  BY BuffersKept
<1>2. /\ client' \in [Items -> {"none", "started", "connected", "dead"}]
      /\ \A j \in Items : client'[j] = IF j = i THEN "connected" ELSE client[j]
      /\ client[i] = "started"
  BY DEF IInv, Types, TypeOK
<1>3. OnePlace' /\ Accounted'
  <2>1. \A j \in Items : Swallowed(j) => Swallowed(j)'
    BY <1>1, <1>2 DEF Swallowed
  <2> QED BY <1>1, <2>1, PlacesKept
<1>4. Types' /\ ItemList' /\ ReturnsWithAll'
  BY <1>2 DEF IInv, Types, TypeOK, ItemList, ReturnsWithAll
<1>5. Counters'
  BY <1>1, <1>2 DEF IInv, Counters
<1> QED BY <1>1, <1>3, <1>4, <1>5 DEF IInv
-----------------------------------------------------------------------------
(* Steps of one item *)

\* The buffers and the client of i may change, those of the others do not.
OnlyItem(i) ==
    \A j \in Items \ {i} :
        toServer'[j] = toServer[j] /\ toClient'[j] = toClient[j] /\ result'[j] = result[j]

LEMMA OthersKept ==
    ASSUME NEW i \in Items, OnlyItem(i)
    PROVE \A j \in Items \ {i} : Held(j)' = Held(j) /\ Count(j)' = Count(j)
BY DEF OnlyItem, Held, Count

LEMMA InnerMoves ==
    ASSUME Inner, NEW i \in Items, OnlyItem(i),
           IsInjective(toServer'[i]), IsInjective(toClient'[i]),
           Range(toServer'[i]) \cap Range(toClient'[i]) = {},
           result'[i] \notin Range(toServer'[i]), result'[i] \notin Range(toClient'[i])
    PROVE Inner'
<1> SUFFICES ASSUME NEW j \in Items
             PROVE /\ IsInjective(toServer'[j]) /\ IsInjective(toClient'[j])
                   /\ Range(toServer'[j]) \cap Range(toClient'[j]) = {}
                   /\ result'[j] \notin Range(toServer'[j]) /\ result'[j] \notin Range(toClient'[j])
  BY DEF Inner
<1>1. CASE j = i
  BY <1>1
<1>2. CASE j # i
  BY <1>2 DEF Inner, OnlyItem
<1> QED BY <1>1, <1>2

LEMMA ItemTypes ==
    ASSUME IInv, NEW i \in Items
    PROVE /\ toServer[i] \in Seq(Commands) /\ toClient[i] \in Seq(Commands)
          /\ Range(toServer[i]) \subseteq Commands /\ Range(toClient[i]) \subseteq Commands
          /\ result[i] \in Commands \cup {None} /\ None \notin Commands
          /\ IsInjective(toServer[i]) /\ IsInjective(toClient[i])
          /\ Range(toServer[i]) \cap Range(toClient[i]) = {}
          /\ result[i] \notin Range(toServer[i]) /\ result[i] \notin Range(toClient[i])
<1>1. toServer[i] \in Seq(Commands) /\ toClient[i] \in Seq(Commands) /\ result[i] \in Commands \cup {None}
  BY DEF IInv, Types, TypeOK
<1>2. \A q \in Seq(Commands) : Range(q) \subseteq Commands
  BY DEF Range
<1> QED BY <1>1, <1>2, ConstantsOK DEF IInv, Inner

\* The client takes a command out of its buffer.
LEMMA ClientReceiveOK ==
    ASSUME IInv, NEW i \in Items, ClientReceive(i)
    PROVE IInv' /\ \A j \in Items : Held(j)' = Held(j)
<1> DEFINE c == Head(toClient[i])
<1>0. /\ UNCHANGED <<server, serverItems, pos, commandIndex, iteration, inHand, commandsAtPull, toServer,
                     client, answered, lost, died>>
      /\ result[i] = None /\ toClient[i] # <<>>
      /\ result' = [result EXCEPT ![i] = c] /\ toClient' = [toClient EXCEPT ![i] = Tail(@)]
  BY DEF ClientReceive, ClientStep, serverVars
<1>1. /\ toClient \in [Items -> Seq(Commands)] /\ toServer \in [Items -> Seq(Commands)]
      /\ result \in [Items -> Commands \cup {None}]
      /\ \A j \in Items : Len(toClient[j]) <= CommandRoom
  BY DEF IInv, Types, TypeOK
<1>2. /\ Tail(toClient[i]) \in Seq(Commands) /\ c \in Commands /\ c \in Range(toClient[i])
      /\ Len(toClient[i]) \in Nat \ {0} /\ Len(Tail(toClient[i])) = Len(toClient[i]) - 1
      /\ IsInjective(Tail(toClient[i])) /\ Range(Tail(toClient[i])) = Range(toClient[i]) \ {c}
  BY <1>0, ItemTypes, SeqTail
<1> HIDE DEF c
<1>3. OnlyItem(i)
  BY <1>0, <1>1 DEF OnlyItem
<1>4. toClient'[i] = Tail(toClient[i]) /\ result'[i] = c /\ toServer'[i] = toServer[i]
  BY <1>0, <1>1
<1>5. Inner'
  <2>1. /\ IsInjective(toServer'[i]) /\ IsInjective(toClient'[i])
        /\ Range(toServer'[i]) \cap Range(toClient'[i]) = {}
        /\ result'[i] \notin Range(toServer'[i]) /\ result'[i] \notin Range(toClient'[i])
    BY <1>2, <1>4, ItemTypes
  <2> QED BY <1>3, <2>1, InnerMoves DEF IInv
<1>6. c # None
  BY <1>2, ConstantsOK
<1>7. Held(i)' = Held(i)
  BY <1>0, <1>2, <1>4, <1>6 DEF Held
<1>8. Count(i)' = Count(i)
  <2>1. Count(i)' = Len(toServer[i]) + (Len(toClient[i]) - 1) + 1
    BY <1>2, <1>4, <1>6, Zenon DEF Count
  <2>2. Count(i) = Len(toServer[i]) + Len(toClient[i]) + 0 /\ Len(toServer[i]) \in Nat
        /\ Len(toClient[i]) \in Nat /\ Len(toClient[i]) # 0
    BY <1>0, <1>2, CountNat DEF IInv
  <2> QED BY <2>1, <2>2, ClientSums, Zenon
<1>9. \A j \in Items : Held(j)' = Held(j) /\ Count(j)' = Count(j)
  BY <1>3, <1>7, <1>8, OthersKept
<1>10. OnePlace' /\ Accounted'
  <2>1. \A j \in Items : Swallowed(j) => Swallowed(j)'
    BY <1>0, <1>9 DEF Swallowed
  <2> QED BY <1>0, <1>9, <2>1, PlacesKept
<1>11. Types'
  <2>1. toClient' \in [Items -> Seq(Commands)]
    BY <1>0, <1>1, <1>2
  <2>2. result' \in [Items -> Commands \cup {None}]
    BY <1>0, <1>1, <1>2
  <2>3. Len(toClient'[i]) <= CommandRoom
    <3>1. Len(toClient[i]) <= CommandRoom
      BY <1>1
    <3> QED BY <1>2, <1>4, <3>1, ConstantsOK
  <2>4. \A j \in Items : toClient'[j] \in Seq(Commands) /\ Len(toClient'[j]) <= CommandRoom
    BY <1>1, <1>3, <2>1, <2>3 DEF OnlyItem
  <2> QED BY <1>0, <2>1, <2>2, <2>4 DEF IInv, Types, TypeOK
<1>12. ItemList' /\ Counters' /\ ReturnsWithAll'
  BY <1>0, <1>9 DEF IInv, ItemList, Counters, ReturnsWithAll
<1> QED BY <1>5, <1>9, <1>10, <1>11, <1>12 DEF IInv

\* The client sends its answer.
LEMMA ClientSendOK ==
    ASSUME IInv, NEW i \in Items, ClientSend(i)
    PROVE IInv' /\ \A j \in Items : Held(j)' = Held(j)
<1> DEFINE c == result[i]
<1>0. /\ UNCHANGED <<server, serverItems, pos, commandIndex, iteration, inHand, commandsAtPull, toClient,
                     client, answered, lost, died>>
      /\ c # None /\ Len(toServer[i]) < AnswerRoom
      /\ result' = [result EXCEPT ![i] = None] /\ toServer' = [toServer EXCEPT ![i] = Append(@, c)]
  BY DEF ClientSend, ClientSendThen, ClientStep, serverVars
<1>1. /\ toClient \in [Items -> Seq(Commands)] /\ toServer \in [Items -> Seq(Commands)]
      /\ result \in [Items -> Commands \cup {None}]
      /\ \A j \in Items : Len(toServer[j]) <= AnswerRoom
  BY DEF IInv, Types, TypeOK
<1>2. /\ c \in Commands /\ Append(toServer[i], c) \in Seq(Commands)
      /\ Range(Append(toServer[i], c)) = Range(toServer[i]) \cup {c}
      /\ Len(toServer[i]) \in Nat /\ Len(Append(toServer[i], c)) = Len(toServer[i]) + 1
      /\ IsInjective(Append(toServer[i], c))
  BY <1>0, ItemTypes, SeqAppend
<1>3. OnlyItem(i)
  BY <1>0, <1>1 DEF OnlyItem
<1>4. toServer'[i] = Append(toServer[i], c) /\ result'[i] = None /\ toClient'[i] = toClient[i]
  BY <1>0, <1>1
<1>5. Inner'
  <2>1. /\ IsInjective(toServer'[i]) /\ IsInjective(toClient'[i])
        /\ Range(toServer'[i]) \cap Range(toClient'[i]) = {}
        /\ result'[i] \notin Range(toServer'[i]) /\ result'[i] \notin Range(toClient'[i])
    BY <1>2, <1>4, ItemTypes
  <2> QED BY <1>3, <2>1, InnerMoves DEF IInv
<1>7. Held(i)' = Held(i)
  BY <1>0, <1>2, <1>4 DEF Held
<1>8. Count(i)' = Count(i)
  <2>1. Count(i)' = (Len(toServer[i]) + 1) + Len(toClient[i]) + 0
    BY <1>2, <1>4, Zenon DEF Count
  <2>2. Count(i) = Len(toServer[i]) + Len(toClient[i]) + 1 /\ Len(toServer[i]) \in Nat
        /\ Len(toClient[i]) \in Nat
    BY <1>0, CountNat DEF IInv
  <2> QED BY <2>1, <2>2, ClientSums, Zenon
<1>9. \A j \in Items : Held(j)' = Held(j) /\ Count(j)' = Count(j)
  BY <1>3, <1>7, <1>8, OthersKept
<1>10. OnePlace' /\ Accounted'
  <2>1. \A j \in Items : Swallowed(j) => Swallowed(j)'
    BY <1>0, <1>9 DEF Swallowed
  <2> QED BY <1>0, <1>9, <2>1, PlacesKept
<1>11. Types'
  <2>1. toServer' \in [Items -> Seq(Commands)]
    BY <1>0, <1>1, <1>2
  <2>2. result' \in [Items -> Commands \cup {None}]
    BY <1>0, <1>1
  <2>3. Len(toServer'[i]) <= AnswerRoom
    BY <1>0, <1>2, <1>4, ConstantsOK
  <2>4. \A j \in Items : toServer'[j] \in Seq(Commands) /\ Len(toServer'[j]) <= AnswerRoom
    BY <1>1, <1>3, <2>1, <2>3 DEF OnlyItem
  <2> QED BY <1>0, <2>1, <2>2, <2>4 DEF IInv, Types, TypeOK
<1>12. ItemList' /\ Counters' /\ ReturnsWithAll'
  BY <1>0, <1>9 DEF IInv, ItemList, Counters, ReturnsWithAll
<1> QED BY <1>5, <1>9, <1>10, <1>11, <1>12 DEF IInv
\* What the buffers behind a dead client held is gone; the counter still has it.
LEMMA ClientDiesOK ==
    ASSUME IInv, NEW i \in Items, ClientDies(i)
    PROVE /\ IInv' /\ \A j \in Items \ {i} : Held(j)' = Held(j)
          /\ \E cs \in SUBSET Held(i) : died' = died \cup cs /\ Held(i)' = Held(i) \ cs
<1>0. /\ UNCHANGED <<server, serverItems, pos, commandIndex, iteration, inHand, commandsAtPull, toServer,
                     answered, lost>>
      /\ client[i] \in {"started", "connected"} /\ client' = [client EXCEPT ![i] = "dead"]
      /\ toClient' = [toClient EXCEPT ![i] = <<>>] /\ result' = [result EXCEPT ![i] = None]
  BY DEF ClientDies, ClientStep, serverVars
<1>1. /\ toClient \in [Items -> Seq(Commands)] /\ toServer \in [Items -> Seq(Commands)]
      /\ result \in [Items -> Commands \cup {None}]
      /\ client \in [Items -> {"none", "started", "connected", "dead"}]
      /\ \A j \in Items : Len(toClient[j]) <= CommandRoom
  BY DEF IInv, Types, TypeOK
<1>2. OnlyItem(i)
  BY <1>0, <1>1 DEF OnlyItem
<1>3. toClient'[i] = <<>> /\ result'[i] = None /\ toServer'[i] = toServer[i] /\ client'[i] = "dead"
  BY <1>0, <1>1
<1>4. Inner'
  <2>1. /\ IsInjective(toServer'[i]) /\ IsInjective(toClient'[i])
        /\ Range(toServer'[i]) \cap Range(toClient'[i]) = {}
        /\ result'[i] \notin Range(toServer'[i]) /\ result'[i] \notin Range(toClient'[i])
    BY <1>3, ItemTypes, EmptyRange
  <2> QED BY <1>2, <2>1, InnerMoves DEF IInv
<1>5. /\ \A j \in Items \ {i} : Held(j)' = Held(j) /\ Count(j)' = Count(j)
      /\ Held(i)' \subseteq Held(i)
  <2>1. Held(i)' \subseteq Held(i)
    BY <1>3, EmptyRange DEF Held
  <2> QED BY <1>2, <2>1, OthersKept
<1>6. \A j \in Items : Held(j)' \subseteq Held(j)
  BY <1>5
<1>7. OnePlace'
  BY <1>0, <1>6 DEF IInv, OnePlace, Taken
<1>8. Count(i)' \in Nat /\ Count(i) \in Nat
      /\ (Count(i)' < Count(i) \/ (Count(i)' = Count(i) /\ Held(i)' = Held(i)))
  <2>1. Count(i)' = Len(toServer[i]) + 0 + 0
    BY <1>3, EmptyRange, Zenon DEF Count
  <2>2. /\ Len(toServer[i]) \in Nat /\ Len(toClient[i]) \in Nat /\ Count(i) \in Nat
        /\ result[i] = None => Count(i) = Len(toServer[i]) + Len(toClient[i]) + 0
        /\ result[i] # None => Count(i) = Len(toServer[i]) + Len(toClient[i]) + 1
    BY CountNat DEF IInv
  <2>3. CASE result[i] # None
    BY <2>1, <2>2, <2>3, DeathSums, Zenon
  <2>4. CASE result[i] = None /\ Len(toClient[i]) # 0
    BY <2>1, <2>2, <2>4, DeathSums, Zenon
  <2>5. CASE result[i] = None /\ Len(toClient[i]) = 0
    <3>1. toClient[i] = <<>>
      BY <1>1, <2>5, EmptySeq
    <3>2. Held(i)' = Held(i)
      BY <1>3, <2>5, <3>1 DEF Held
    <3> QED BY <2>1, <2>2, <2>5, <3>2, DeathSums, Zenon
  <2> QED BY <2>3, <2>4, <2>5
<1>9. commandsAtPull[i] = Count(i) /\ commandsAtPull[i] \in Nat
  BY <1>0, <1>1, <1>8 DEF IInv, Counters
<1>10. Counters'
  <2>1. commandsAtPull[i] >= Count(i)'
    BY <1>8, <1>9
  <2>2. \A j \in Items \ {i} : client'[j] = client[j]
    BY <1>0, <1>1
  <2> QED BY <1>0, <1>3, <1>5, <2>1, <2>2 DEF IInv, Counters
<1>11. Accounted'
  <2>1. CASE Count(i)' < Count(i)
    <3>1. Swallowed(i)'
      BY <1>0, <1>3, <1>8, <1>9, <2>1 DEF Swallowed
    <3> QED BY <3>1, Zenon DEF Accounted
  <2>2. CASE Count(i)' = Count(i) /\ Held(i)' = Held(i)
    <3>1. \A j \in Items : Held(j)' = Held(j) /\ Count(j)' = Count(j)
      BY <1>5, <2>2
    <3>2. \A j \in Items : client[j] = "dead" => client'[j] = "dead"
      BY <1>0, <1>1
    <3>3. \A j \in Items : Swallowed(j) => Swallowed(j)'
      BY <1>0, <3>1, <3>2 DEF Swallowed
    <3> QED BY <1>0, <3>1, <3>3, PlacesKept
  <2> QED BY <1>8, <2>1, <2>2
<1>12. Types'
  <2>1. toClient' \in [Items -> Seq(Commands)]
    BY <1>0, <1>1
  <2>2. result' \in [Items -> Commands \cup {None}]
    BY <1>0, <1>1
  <2>3. client' \in [Items -> {"none", "started", "connected", "dead"}]
    BY <1>0, <1>1
  <2>4. \A j \in Items : toClient'[j] \in Seq(Commands) /\ Len(toClient'[j]) <= CommandRoom
    <3>1. Len(toClient'[i]) <= CommandRoom
      BY <1>3, EmptyRange, ConstantsOK
    <3> QED BY <1>1, <1>2, <2>1, <3>1 DEF OnlyItem
  <2>5. died' \subseteq Commands
    <3>1. died' = died \cup Range(toClient[i]) \cup ({result[i]} \ {None}) /\ died \subseteq Commands
      BY DEF ClientDies, IInv, Types, TypeOK
    <3> QED BY <3>1, ItemTypes
  <2> QED BY <1>0, <2>1, <2>2, <2>3, <2>4, <2>5 DEF IInv, Types, TypeOK
<1>13. ItemList' /\ ReturnsWithAll'
  BY <1>0 DEF IInv, ItemList, ReturnsWithAll
<1>14. \E cs \in SUBSET Held(i) : died' = died \cup cs /\ Held(i)' = Held(i) \ cs
  <2>1. PICK cs : cs = Range(toClient[i]) \cup ({result[i]} \ {None})
    OBVIOUS
  <2>2. died' = died \cup cs
    BY <2>1 DEF ClientDies
  <2>3. Held(i) = Range(toServer[i]) \cup cs /\ Held(i)' = Range(toServer[i])
    BY <1>3, <2>1, EmptyRange DEF Held
  <2>4. Range(toServer[i]) \cap cs = {}
    BY <2>1, ItemTypes
  <2> QED BY <2>2, <2>3, <2>4
<1> QED BY <1>4, <1>5, <1>7, <1>10, <1>11, <1>12, <1>13, <1>14 DEF IInv

-----------------------------------------------------------------------------
(* Steps of the server *)

\* A command nobody has is taken, or the sending is over.
LEMMA NextCommandOK ==
    ASSUME IInv, NextCommand
    PROVE /\ IInv'
          /\ \/ /\ iteration > 0 /\ iteration' = iteration - 1
                /\ inHand' = M - iteration + 1 /\ inHand' # None
             \/ UNCHANGED <<iteration, inHand>>
<1>0. /\ UNCHANGED <<serverItems, pos, commandIndex, commandsAtPull, toClient, toServer, client, result,
                     answered, lost, died>>
      /\ server = "send" /\ inHand = None
  BY DEF NextCommand, sockets
<1>1. Inner' /\ \A i \in Items : Held(i)' = Held(i) /\ Count(i)' = Count(i)
  BY <1>0, BuffersKept
<1>2. \A i \in Items : Swallowed(i) => Swallowed(i)'
  BY <1>0, <1>1 DEF Swallowed
<1>3. CASE iteration = 0
  <2>1. server' = "receive" /\ UNCHANGED <<iteration, inHand>>
    BY <1>3 DEF NextCommand
  <2>2. OnePlace' /\ Accounted'
    BY <1>0, <1>1, <1>2, <2>1, PlacesKept
  <2>3. Types' /\ ItemList' /\ Counters' /\ ReturnsWithAll'
    BY <1>0, <1>1, <2>1 DEF IInv, Types, TypeOK, ItemList, Counters, ReturnsWithAll
  <2> QED BY <1>1, <2>1, <2>2, <2>3 DEF IInv
<1>4. CASE iteration # 0
  <2>1. /\ iteration \in 1 .. M /\ iteration' = iteration - 1 /\ M \in Nat /\ server' = server
        /\ inHand' = M - iteration + 1
    BY <1>4, ConstantsOK DEF IInv, Types, TypeOK, NextCommand
  <2>2. /\ inHand' \in Commands /\ inHand' \notin Taken /\ Taken' = Taken \cup {inHand'}
        /\ iteration' \in 0 .. M /\ inHand' # None /\ iteration > 0
    BY <2>1 DEF Commands, Taken, None
  <2>3. OnePlace'
    BY <1>0, <1>1, <2>2 DEF IInv, OnePlace
  <2>4. Accounted'
    <3>1. CASE \E i \in Items : Swallowed(i)
      BY <1>2, <3>1, Zenon DEF Accounted
    <3>2. CASE Taken \subseteq answered \cup lost \cup {inHand} \cup AllHeld
      <4>1. AllHeld' = AllHeld
        BY <1>1 DEF AllHeld
      <4>2. None \notin Taken
        BY DEF Taken, None
      <4>3. Taken' \subseteq answered' \cup lost' \cup {inHand'} \cup AllHeld'
        BY <1>0, <2>2, <3>2, <4>1, <4>2
      <4> QED BY <4>3 DEF Accounted
    <3> QED BY <3>1, <3>2 DEF IInv, Accounted
  <2>5. Types' /\ ItemList' /\ ReturnsWithAll'
    BY <1>0, <2>1, <2>2 DEF IInv, Types, TypeOK, ItemList, ReturnsWithAll
  <2>6. Counters'
    <3>1. commandIndex \in Nat /\ commandIndex <= M - iteration
      BY DEF IInv, Types, TypeOK, Counters
    <3>2. commandIndex <= M - iteration' /\ commandIndex < M - iteration'
      BY <2>1, <3>1
    <3> QED BY <1>0, <1>1, <2>1, <3>2 DEF IInv, Counters
  <2> QED BY <1>1, <2>1, <2>2, <2>3, <2>4, <2>5, <2>6 DEF IInv
<1> QED BY <1>3, <1>4

LEMMA SendErrorOK ==
    ASSUME IInv, SendError
    PROVE IInv'
<1>0. /\ UNCHANGED <<serverItems, pos, commandIndex, iteration, commandsAtPull, toClient, toServer, client,
                     result, answered, died>>
      /\ server = "send" /\ inHand # None /\ lost' = lost \cup {inHand} /\ inHand' = None
      /\ server' = "receive"
  BY DEF SendError, sockets
<1>1. Inner' /\ \A i \in Items : Held(i)' = Held(i) /\ Count(i)' = Count(i)
  BY <1>0, BuffersKept
<1>2. \A i \in Items : Swallowed(i) => Swallowed(i)'
  BY <1>0, <1>1 DEF Swallowed
<1>3. Taken' = Taken /\ None \notin Taken
  BY <1>0 DEF Taken, None
<1>4. inHand \in Taken /\ inHand \notin answered \cup lost
  BY <1>0 DEF IInv, OnePlace
<1>5. OnePlace'
  <2>1. \A i \in Items : Held(i) \subseteq Taken /\ Held(i) \cap (answered \cup lost \cup {inHand}) = {}
    BY DEF IInv, OnePlace
  <2>2. \A i \in Items : Held(i) \cap (answered \cup lost' \cup {None}) = {}
    BY <1>0, <1>3, <2>1
  <2>3. /\ answered \subseteq Taken /\ lost' \subseteq Taken /\ answered \cap lost' = {}
    BY <1>0, <1>4 DEF IInv, OnePlace
  <2> QED BY <1>0, <1>1, <1>3, <2>2, <2>3 DEF IInv, OnePlace
<1>6. Accounted'
  <2>1. CASE \E i \in Items : Swallowed(i)
    BY <1>2, <2>1, Zenon DEF Accounted
  <2>2. CASE Taken \subseteq answered \cup lost \cup {inHand} \cup AllHeld
    <3>1. AllHeld' = AllHeld
      BY <1>1 DEF AllHeld
    <3>2. Taken' \subseteq answered' \cup lost' \cup {inHand'} \cup AllHeld'
      BY <1>0, <1>3, <2>2, <3>1
    <3> QED BY <3>2 DEF Accounted
  <2> QED BY <2>1, <2>2 DEF IInv, Accounted
<1>7. Types' /\ ItemList' /\ ReturnsWithAll'
  <2>1. lost' \subseteq Commands
    BY <1>0 DEF IInv, Types, TypeOK
  <2> QED BY <1>0, <2>1 DEF IInv, Types, TypeOK, ItemList, ReturnsWithAll
<1>8. Counters'
  BY <1>0, <1>1 DEF IInv, Counters
<1> QED BY <1>1, <1>4, <1>5, <1>6, <1>7, <1>8 DEF IInv

LEMMA TurnOK == ASSUME IInv, server = "send" PROVE Turn \in Items
<1>1. commandIndex \in Nat /\ ProcessCount \in Nat \ {0} /\ serverItems \in Seq(Items)
      /\ Len(serverItems) = ProcessCount
  BY ConstantsOK DEF IInv, Types, TypeOK, ItemList
<1>2. \A a \in Nat, b \in Nat \ {0} : (a % b) + 1 \in 1 .. b
  OBVIOUS
<1>3. (commandIndex % ProcessCount) + 1 \in 1 .. Len(serverItems)
  BY <1>1, <1>2
<1> QED BY <1>1, <1>3 DEF Turn

\* The command in hand goes into the buffer of the item whose turn it is.
LEMMA SendOK == ASSUME IInv, Send PROVE IInv' /\ AllHeld' = AllHeld \cup ({inHand} \ {None})
<1>0. /\ UNCHANGED <<server, serverItems, pos, iteration, toServer, client, result, answered, lost, died>>
      /\ server = "send" /\ inHand # None /\ inHand' = None /\ commandIndex' = commandIndex + 1
  BY DEF Send, SendTo
<1>1. PICK i \in Items : i = Turn
  BY <1>0, TurnOK
<1>2. /\ client[i] = "connected" /\ Len(toClient[i]) < CommandRoom
      /\ toClient' = [toClient EXCEPT ![i] = Append(@, inHand)]
      /\ commandsAtPull' = [commandsAtPull EXCEPT ![i] = @ + 1]
  BY <1>1 DEF Send, SendTo
<1>3. /\ toClient \in [Items -> Seq(Commands)] /\ toServer \in [Items -> Seq(Commands)]
      /\ commandsAtPull \in [Items -> 0 .. M] /\ inHand \in Commands
      /\ \A j \in Items : Len(toClient[j]) <= CommandRoom
  BY <1>0 DEF IInv, Types, TypeOK
<1>4. /\ inHand \in Taken /\ inHand \notin answered \cup lost /\ Taken' = Taken /\ None \notin Taken
      /\ \A j \in Items : inHand \notin Held(j)
  BY <1>0 DEF IInv, OnePlace, Taken, None
<1>5. /\ Append(toClient[i], inHand) \in Seq(Commands)
      /\ Range(Append(toClient[i], inHand)) = Range(toClient[i]) \cup {inHand}
      /\ Len(toClient[i]) \in Nat /\ Len(Append(toClient[i], inHand)) = Len(toClient[i]) + 1
      /\ IsInjective(Append(toClient[i], inHand))
  <2>1. inHand \notin Range(toClient[i])
    BY <1>4 DEF Held
  <2> QED BY <1>3, <2>1, ItemTypes, SeqAppend
<1>6. OnlyItem(i)
  BY <1>0, <1>2, <1>3 DEF OnlyItem
<1>7. /\ toClient'[i] = Append(toClient[i], inHand) /\ result'[i] = result[i]
      /\ toServer'[i] = toServer[i] /\ commandsAtPull'[i] = commandsAtPull[i] + 1
      /\ \A j \in Items \ {i} : commandsAtPull'[j] = commandsAtPull[j]
  BY <1>0, <1>2, <1>3
<1>8. Inner'
  <2>1. inHand \notin Range(toServer[i]) /\ inHand # result[i]
    BY <1>0, <1>4 DEF Held
  <2>2. /\ IsInjective(toServer'[i]) /\ IsInjective(toClient'[i])
        /\ Range(toServer'[i]) \cap Range(toClient'[i]) = {}
        /\ result'[i] \notin Range(toServer'[i]) /\ result'[i] \notin Range(toClient'[i])
    BY <1>5, <1>7, <2>1, ItemTypes
  <2> QED BY <1>6, <2>2, InnerMoves DEF IInv
<1>9. \A j \in Items \ {i} : Held(j)' = Held(j) /\ Count(j)' = Count(j)
  BY <1>6, OthersKept
<1>10. Held(i)' = Held(i) \cup {inHand}
  BY <1>5, <1>7 DEF Held
<1>11. Count(i)' = Count(i) + 1 /\ Count(i) \in Nat
  <2>1. /\ Len(toServer[i]) \in Nat /\ Len(toClient[i]) \in Nat /\ Count(i) \in Nat
        /\ result[i] = None => Count(i) = Len(toServer[i]) + Len(toClient[i]) + 0
        /\ result[i] # None => Count(i) = Len(toServer[i]) + Len(toClient[i]) + 1
    BY CountNat DEF IInv
  <2>2. CASE result[i] = None
    <3>1. Count(i)' = Len(toServer[i]) + (Len(toClient[i]) + 1) + 0
      BY <1>5, <1>7, <2>2, Zenon DEF Count
    <3> QED BY <2>1, <2>2, <3>1, ServerSums, Zenon
  <2>3. CASE result[i] # None
    <3>1. Count(i)' = Len(toServer[i]) + (Len(toClient[i]) + 1) + 1
      BY <1>5, <1>7, <2>3, Zenon DEF Count
    <3>2. Len(toServer[i]) + (Len(toClient[i]) + 1) + 1 = (Len(toServer[i]) + Len(toClient[i]) + 1) + 1
      BY <2>1, ServerSums, Zenon
    <3> QED BY <2>1, <2>3, <3>1, <3>2, Zenon
  <2> QED BY <2>2, <2>3
<1>12. OnePlace'
  <2>1. \A j \in Items : Held(j)' \subseteq Taken /\ Held(j)' \cap (answered \cup lost) = {}
    BY <1>4, <1>9, <1>10 DEF IInv, OnePlace
  <2>2. \A j \in Items : Held(j)' \cap (answered \cup lost \cup {None}) = {}
    BY <1>4, <2>1
  <2>3. ASSUME NEW j \in Items, NEW k \in Items, j # k PROVE Held(j)' \cap Held(k)' = {}
    <3>1. Held(j) \cap Held(k) = {} /\ inHand \notin Held(j) /\ inHand \notin Held(k)
      BY <1>4, <2>3 DEF IInv, OnePlace
    <3>2. \/ (Held(j)' = Held(j) \cup {inHand} /\ Held(k)' = Held(k))
          \/ (Held(k)' = Held(k) \cup {inHand} /\ Held(j)' = Held(j))
          \/ (Held(k)' = Held(k) /\ Held(j)' = Held(j))
      BY <1>9, <1>10, <2>3
    <3> QED BY <3>1, <3>2
  <2>4. /\ None \notin answered \cup lost /\ answered \cap lost = {} /\ answered \subseteq Taken
        /\ lost \subseteq Taken
    BY <1>4 DEF IInv, OnePlace
  <2> QED BY <1>0, <1>4, <2>1, <2>2, <2>3, <2>4 DEF OnePlace
<1>13. Accounted'
  <2>1. ASSUME NEW j \in Items, Swallowed(j) PROVE Accounted'
    <3>1. j # i
      BY <1>2, <2>1 DEF Swallowed
    <3>2. Swallowed(j)'
      BY <1>0, <1>7, <1>9, <2>1, <3>1 DEF Swallowed
    <3> QED BY <3>2, Zenon DEF Accounted
  <2>2. CASE Taken \subseteq answered \cup lost \cup {inHand} \cup AllHeld
    <3>1. AllHeld \subseteq AllHeld' /\ inHand \in AllHeld'
      <4>1. \A j \in Items : Held(j) \subseteq Held(j)'
        BY <1>9, <1>10
      <4>2. inHand \in Held(i)'
        BY <1>10
      <4> QED BY <4>1, <4>2 DEF AllHeld
    <3>2. Taken' \subseteq answered' \cup lost' \cup {inHand'} \cup AllHeld'
      BY <1>0, <1>4, <2>2, <3>1
    <3> QED BY <3>2 DEF Accounted
  <2> QED BY <2>1, <2>2 DEF IInv, Accounted
<1>14. /\ commandIndex \in Nat /\ commandIndex < M - iteration /\ M \in Nat /\ iteration \in Nat
       /\ commandsAtPull[i] \in Nat /\ commandsAtPull[i] <= commandIndex
  BY <1>0, <1>3, ConstantsOK DEF IInv, Counters, Types, TypeOK
<1>15. Counters'
  <2>1. \A j \in Items : commandsAtPull'[j] <= commandIndex'
    <3>1. commandsAtPull[i] + 1 <= commandIndex + 1
      BY <1>14
    <3>2. \A j \in Items \ {i} : commandsAtPull[j] \in Nat /\ commandsAtPull[j] <= commandIndex
      BY <1>3 DEF IInv, Counters
    <3>3. \A j \in Items \ {i} : commandsAtPull[j] <= commandIndex + 1
      BY <1>14, <3>2
    <3> QED BY <1>0, <1>7, <3>1, <3>3
  <2>2. commandIndex' <= M - iteration
    BY <1>0, <1>14
  <2>3. commandsAtPull'[i] = Count(i)' /\ commandsAtPull'[i] >= Count(i)'
    <3>1. commandsAtPull[i] = Count(i)
      BY <1>2 DEF IInv, Counters
    <3> QED BY <1>7, <1>11, <3>1
  <2>4. \A j \in Items :
          /\ commandsAtPull'[j] >= Count(j)'
          /\ client'[j] # "dead" => commandsAtPull'[j] = Count(j)'
    BY <1>0, <1>7, <1>9, <2>3 DEF IInv, Counters
  <2> QED BY <1>0, <2>1, <2>2, <2>4 DEF Counters
<1>16. ItemList' /\ ReturnsWithAll'
  <2>1. Items \subseteq Range(serverItems)'
    BY <1>0 DEF IInv, ItemList
  <2> QED BY <1>0, <2>1 DEF IInv, ItemList, ReturnsWithAll
<1>17. Types'
  <2>1. toClient' \in [Items -> Seq(Commands)]
    BY <1>2, <1>3, <1>5
  <2>2. commandsAtPull[i] + 1 \in 0 .. M /\ commandIndex + 1 \in 0 .. M
    BY <1>14
  <2>3. commandsAtPull' \in [Items -> 0 .. M]
    BY <1>2, <1>3, <2>2
  <2>4. Len(toClient'[i]) <= CommandRoom
    BY <1>2, <1>5, <1>7, ConstantsOK
  <2>5. \A j \in Items : toClient'[j] \in Seq(Commands) /\ Len(toClient'[j]) <= CommandRoom
    BY <1>3, <1>6, <2>1, <2>4 DEF OnlyItem
  <2> QED BY <1>0, <2>1, <2>2, <2>3, <2>5 DEF IInv, Types, TypeOK
<1>18. AllHeld' = AllHeld \cup {inHand}
  BY <1>9, <1>10 DEF AllHeld
<1> QED BY <1>0, <1>8, <1>12, <1>13, <1>15, <1>16, <1>17, <1>18 DEF IInv

\* The server takes an answer, and drops the item with its last one.
LEMMA ReceiveOK ==
    ASSUME IInv, ReceiveCommandResponse
    PROVE /\ IInv'
          /\ \E c \in AllHeld : answered' = answered \cup {c} /\ AllHeld' = AllHeld \ {c}
<1>0. /\ UNCHANGED <<server, commandIndex, iteration, inHand, toClient, client, result, lost, died>>
      /\ server = "receive" /\ pos <= Len(serverItems)
  BY DEF ReceiveCommandResponse
<1>1. /\ serverItems \in Seq(Items) /\ Len(serverItems) \in Nat /\ pos \in 1 .. Len(serverItems)
      /\ Len(serverItems) <= ProcessCount /\ ProcessCount \in Nat /\ inHand = None
  BY <1>0, ConstantsOK DEF IInv, Types, TypeOK, ItemList, Counters
<1>2. PICK i \in Items : i = serverItems[pos]
  BY <1>1
<1>3. toServer[i] # <<>>
  BY <1>2 DEF ReceiveCommandResponse
<1>4. /\ toClient \in [Items -> Seq(Commands)] /\ toServer \in [Items -> Seq(Commands)]
      /\ commandsAtPull \in [Items -> 0 .. M] /\ answered \subseteq Commands
      /\ \A j \in Items : Len(toServer[j]) <= AnswerRoom
  BY <1>0 DEF IInv, Types, TypeOK
<1>5. PICK c \in Commands : c = Head(toServer[i])
  BY <1>3, <1>4, SeqTail
<1>6. /\ toServer' = [toServer EXCEPT ![i] = Tail(@)] /\ answered' = answered \cup {c}
      /\ commandsAtPull' = [commandsAtPull EXCEPT ![i] = @ - 1]
      /\ IF commandsAtPull'[i] > 0
         THEN pos' = pos + 1 /\ UNCHANGED serverItems
         ELSE serverItems' = RemoveAt(serverItems, pos) /\ UNCHANGED pos
  BY <1>2, <1>5 DEF ReceiveCommandResponse
<1>7. /\ Tail(toServer[i]) \in Seq(Commands) /\ c \in Range(toServer[i])
      /\ Len(toServer[i]) \in Nat \ {0} /\ Len(Tail(toServer[i])) = Len(toServer[i]) - 1
      /\ IsInjective(Tail(toServer[i])) /\ Range(Tail(toServer[i])) = Range(toServer[i]) \ {c}
  BY <1>3, <1>5, ItemTypes, SeqTail
<1>8. OnlyItem(i)
  BY <1>0, <1>4, <1>6 DEF OnlyItem
<1>9. /\ toServer'[i] = Tail(toServer[i]) /\ result'[i] = result[i]
      /\ toClient'[i] = toClient[i] /\ commandsAtPull'[i] = commandsAtPull[i] - 1
      /\ \A j \in Items \ {i} : commandsAtPull'[j] = commandsAtPull[j]
  BY <1>0, <1>4, <1>6
<1>10. Inner'
  <2>1. /\ IsInjective(toServer'[i]) /\ IsInjective(toClient'[i])
        /\ Range(toServer'[i]) \cap Range(toClient'[i]) = {}
        /\ result'[i] \notin Range(toServer'[i]) /\ result'[i] \notin Range(toClient'[i])
    BY <1>7, <1>9, ItemTypes
  <2> QED BY <1>8, <2>1, InnerMoves DEF IInv
<1>11. \A j \in Items \ {i} : Held(j)' = Held(j) /\ Count(j)' = Count(j)
  BY <1>8, OthersKept
<1>12. c \in Held(i) /\ Held(i)' = Held(i) \ {c}
  <2>1. c \notin Range(toClient[i]) /\ c # result[i]
    BY <1>7, ItemTypes
  <2> QED BY <1>7, <1>9, <2>1 DEF Held
<1>13. /\ c \in Taken /\ c \notin answered \cup lost /\ Taken' = Taken /\ None \notin Taken
       /\ \A j \in Items \ {i} : c \notin Held(j)
  BY <1>0, <1>12 DEF IInv, OnePlace, Taken, None
<1>14. Count(i)' = Count(i) - 1 /\ Count(i) \in Nat /\ Count(i)' \in Nat
  <2>1. /\ Len(toServer[i]) \in Nat /\ Len(toClient[i]) \in Nat /\ Len(toServer[i]) # 0
        /\ Count(i) \in Nat /\ Len(Tail(toServer[i])) \in Nat
        /\ result[i] = None => Count(i) = Len(toServer[i]) + Len(toClient[i]) + 0
        /\ result[i] # None => Count(i) = Len(toServer[i]) + Len(toClient[i]) + 1
    <3>1. \A a \in Nat \ {0} : a \in Nat /\ a # 0 /\ a - 1 \in Nat
      OBVIOUS
    <3>2. Len(toServer[i]) # 0 /\ Len(Tail(toServer[i])) \in Nat
      BY <1>7, <3>1, Zenon
    <3> QED BY <3>2, CountNat, Zenon DEF IInv
  <2>2. CASE result[i] = None
    <3>1. Count(i)' = Len(Tail(toServer[i])) + Len(toClient[i]) + 0
      BY <1>9, <2>2, Zenon DEF Count
    <3>2. (Len(toServer[i]) - 1) + Len(toClient[i]) + 0 = (Len(toServer[i]) + Len(toClient[i]) + 0) - 1
      BY <2>1, ServerSums, Zenon
    <3>3. Count(i)' = Count(i) - 1
      BY <1>7, <2>1, <2>2, <3>1, <3>2, Zenon
    <3> QED BY <2>1, <3>1, <3>3, Sums, Zenon
  <2>3. CASE result[i] # None
    <3>1. Count(i)' = Len(Tail(toServer[i])) + Len(toClient[i]) + 1
      BY <1>9, <2>3, Zenon DEF Count
    <3>2. (Len(toServer[i]) - 1) + Len(toClient[i]) + 1 = (Len(toServer[i]) + Len(toClient[i]) + 1) - 1
      BY <2>1, ServerSums, Zenon
    <3>3. Count(i)' = Count(i) - 1
      BY <1>7, <2>1, <2>3, <3>1, <3>2, Zenon
    <3>4. Len(Tail(toServer[i])) + Len(toClient[i]) + 1 \in Nat
      BY <2>1, Sums, Zenon
    <3> QED BY <2>1, <3>1, <3>3, <3>4, Zenon
  <2> QED BY <2>2, <2>3
<1>15. /\ commandsAtPull[i] \in 0 .. M /\ commandsAtPull[i] >= Count(i) /\ commandsAtPull[i] >= 1
       /\ client[i] # "dead" => commandsAtPull[i] = Count(i)
       /\ commandsAtPull[i] <= commandIndex /\ commandIndex \in Nat
  BY <1>4, <1>14 DEF IInv, Counters, Types, TypeOK
<1>16. OnePlace'
  <2>1. \A j \in Items : Held(j) \subseteq Taken /\ Held(j) \cap (answered \cup lost \cup {inHand}) = {}
    BY DEF IInv, OnePlace
  <2>2. \A j \in Items : c \notin Held(j)' /\ Held(j)' \subseteq Held(j)
    BY <1>11, <1>12, <1>13
  <2>3. \A j \in Items : Held(j)' \subseteq Taken /\ Held(j)' \cap (answered' \cup lost \cup {inHand}) = {}
    BY <1>6, <2>1, <2>2
  <2>4. \A j, k \in Items : j # k => Held(j)' \cap Held(k)' = {}
    BY <2>2 DEF IInv, OnePlace
  <2>5. /\ answered' \cap lost = {} /\ answered' \subseteq Taken /\ lost \subseteq Taken
        /\ None \notin answered' \cup lost
    BY <1>6, <1>13 DEF IInv, OnePlace
  <2> QED BY <1>0, <1>1, <1>13, <2>3, <2>4, <2>5 DEF OnePlace
<1>17. Accounted'
  <2>1. ASSUME NEW j \in Items, Swallowed(j) PROVE Accounted'
    <3>1. CASE j = i
      <4>1. commandsAtPull[i] > Count(i) /\ client'[i] = "dead"
        BY <1>0, <2>1, <3>1 DEF Swallowed
      <4>2. commandsAtPull'[i] > Count(i)'
        BY <1>9, <1>14, <1>15, <4>1
      <4>3. Swallowed(j)'
        BY <3>1, <4>1, <4>2 DEF Swallowed
      <4> QED BY <4>3, Zenon DEF Accounted
    <3>2. CASE j # i
      <4>1. Swallowed(j)'
        BY <1>0, <1>9, <1>11, <2>1, <3>2 DEF Swallowed
      <4> QED BY <4>1, Zenon DEF Accounted
    <3> QED BY <3>1, <3>2
  <2>2. CASE Taken \subseteq answered \cup lost \cup {inHand} \cup AllHeld
    <3>1. AllHeld \subseteq AllHeld' \cup {c}
      <4>1. \A j \in Items : Held(j) \subseteq Held(j)' \cup {c}
        BY <1>11, <1>12
      <4> QED BY <4>1 DEF AllHeld
    <3>2. Taken' \subseteq answered' \cup lost' \cup {inHand'} \cup AllHeld'
      BY <1>0, <1>6, <1>13, <2>2, <3>1
    <3> QED BY <3>2 DEF Accounted
  <2> QED BY <2>1, <2>2 DEF IInv, Accounted
<1>18. Counters'
  <2>1. commandsAtPull'[i] <= commandIndex /\ commandsAtPull'[i] >= Count(i)'
        /\ (client[i] # "dead" => commandsAtPull'[i] = Count(i)')
    BY <1>9, <1>14, <1>15
  <2>2. \A j \in Items :
          /\ commandsAtPull'[j] <= commandIndex /\ commandsAtPull'[j] >= Count(j)'
          /\ client[j] # "dead" => commandsAtPull'[j] = Count(j)'
    BY <1>9, <1>11, <2>1 DEF IInv, Counters
  <2> QED BY <1>0, <1>1, <2>2 DEF IInv, Counters
<1>19. ItemList' /\ serverItems' \in Seq(Items) /\ pos' \in 1 .. (ProcessCount + 1)
  <2>1. CASE commandsAtPull'[i] > 0
    <3>1. serverItems' = serverItems /\ pos' = pos + 1 /\ pos' \in 1 .. (ProcessCount + 1)
      BY <1>1, <1>6, <2>1
    <3>2. i \in Range(serverItems)
      BY <1>1, <1>2 DEF Range
    <3>3. \A j \in Items : j \notin Range(serverItems)' => commandsAtPull'[j] = 0
      BY <1>9, <3>1, <3>2 DEF IInv, ItemList
    <3> QED BY <1>0, <1>1, <3>1, <3>3 DEF ItemList
  <2>2. CASE ~(commandsAtPull'[i] > 0)
    <3>1. serverItems' = RemoveAt(serverItems, pos) /\ pos' = pos /\ pos' \in 1 .. (ProcessCount + 1)
      BY <1>1, <1>6, <2>2
    <3>2. commandsAtPull'[i] = 0
      BY <1>9, <1>15, <2>2
    <3>3. /\ serverItems' \in Seq(Items) /\ Len(serverItems') <= ProcessCount
          /\ Range(serverItems) \ {i} \subseteq Range(serverItems')
      BY <1>1, <1>2, <3>1, SeqRemove
    <3>4. \A j \in Items : j \notin Range(serverItems)' => commandsAtPull'[j] = 0
      BY <1>9, <3>2, <3>3 DEF IInv, ItemList
    <3> QED BY <1>0, <3>1, <3>3, <3>4 DEF ItemList
  <2> QED BY <2>1, <2>2
<1>20. Types'
  <2>1. toServer' \in [Items -> Seq(Commands)]
    BY <1>4, <1>6, <1>7
  <2>2. commandsAtPull[i] - 1 \in 0 .. M
    BY <1>15, ConstantsOK
  <2>3. commandsAtPull' \in [Items -> 0 .. M]
    BY <1>4, <1>6, <2>2
  <2>4. Len(toServer'[i]) <= AnswerRoom
    <3>1. Len(toServer[i]) <= AnswerRoom
      BY <1>4
    <3> QED BY <1>7, <1>9, <3>1, ConstantsOK
  <2>5. \A j \in Items : toServer'[j] \in Seq(Commands) /\ Len(toServer'[j]) <= AnswerRoom
    BY <1>4, <1>8, <2>1, <2>4 DEF OnlyItem
  <2>6. answered' \subseteq Commands
    BY <1>4, <1>5, <1>6
  <2> QED BY <1>0, <1>19, <2>1, <2>3, <2>5, <2>6 DEF IInv, Types, TypeOK
<1>21. ReturnsWithAll'
  BY <1>0 DEF ReturnsWithAll
<1>22. c \in AllHeld /\ AllHeld' = AllHeld \ {c}
  <2>1. \A j \in Items : Held(j)' = Held(j) \ {c}
    BY <1>11, <1>12, <1>13
  <2> QED BY <1>12, <2>1 DEF AllHeld
<1> QED BY <1>6, <1>10, <1>16, <1>17, <1>18, <1>19, <1>20, <1>21, <1>22 DEF IInv

\* nn_recv fails: at most an item that waits for nothing goes.
LEMMA ReceiveErrorOK ==
    ASSUME IInv, ReceiveError
    PROVE IInv' /\ AllHeld' = AllHeld
<1>0. /\ UNCHANGED <<server, commandIndex, iteration, inHand, commandsAtPull, toClient, toServer, client,
                     result, answered, lost, died>>
      /\ server = "receive" /\ pos <= Len(serverItems)
  BY DEF ReceiveError, sockets
<1>1. Inner' /\ \A i \in Items : Held(i)' = Held(i) /\ Count(i)' = Count(i)
  BY <1>0, BuffersKept
<1>2. OnePlace' /\ Accounted'
  <2>1. \A i \in Items : Swallowed(i) => Swallowed(i)'
    BY <1>0, <1>1 DEF Swallowed
  <2> QED BY <1>0, <1>1, <2>1, PlacesKept
<1>3. /\ serverItems \in Seq(Items) /\ Len(serverItems) \in Nat /\ pos \in 1 .. Len(serverItems)
      /\ Len(serverItems) <= ProcessCount /\ ProcessCount \in Nat
  BY <1>0, ConstantsOK DEF IInv, Types, TypeOK, ItemList
<1>4. PICK i \in Items : i = serverItems[pos]
  BY <1>3
<1>5. commandsAtPull[i] \in 0 .. M
  BY DEF IInv, Types, TypeOK
<1>6. ItemList' /\ serverItems' \in Seq(Items) /\ pos' \in 1 .. (ProcessCount + 1)
  <2>1. CASE commandsAtPull[i] > 0
    <3>1. serverItems' = serverItems /\ pos' = pos + 1 /\ pos' \in 1 .. (ProcessCount + 1)
      BY <1>3, <1>4, <2>1 DEF ReceiveError
    <3> QED BY <1>0, <1>3, <3>1 DEF IInv, ItemList
  <2>2. CASE ~(commandsAtPull[i] > 0)
    <3>1. serverItems' = RemoveAt(serverItems, pos) /\ pos' = pos /\ pos' \in 1 .. (ProcessCount + 1)
      BY <1>3, <1>4, <2>2 DEF ReceiveError
    <3>2. commandsAtPull[i] = 0
      BY <1>5, <2>2
    <3>3. /\ serverItems' \in Seq(Items) /\ Len(serverItems') <= ProcessCount
          /\ Range(serverItems) \ {i} \subseteq Range(serverItems')
      BY <1>3, <1>4, <3>1, SeqRemove
    <3>4. \A j \in Items : j \notin Range(serverItems)' => commandsAtPull[j] = 0
      BY <3>2, <3>3 DEF IInv, ItemList
    <3> QED BY <1>0, <3>1, <3>3, <3>4 DEF ItemList
  <2> QED BY <2>1, <2>2
<1>7. Types' /\ Counters' /\ ReturnsWithAll'
  BY <1>0, <1>1, <1>6 DEF IInv, Types, TypeOK, Counters, ReturnsWithAll
<1> QED BY <1>1, <1>2, <1>6, <1>7 DEF IInv, AllHeld

-----------------------------------------------------------------------------
(* Theorems *)

LEMMA NextOK == IInv /\ [Next]_vars => IInv'
<1> SUFFICES ASSUME IInv, [Next]_vars PROVE IInv'
  OBVIOUS
<1>1. CASE Server
  BY <1>1, ServerItemOK, NextCommandOK, SendOK, ReceiveOK, NextWalkOK DEF Server
<1>2. CASE ServerItemThrows \/ SendError \/ ReceiveError
  BY <1>2, ServerItemThrowsOK, SendErrorOK, ReceiveErrorOK
<1>3. ASSUME NEW i \in Items, Client(i) \/ ClientDies(i) PROVE IInv'
  BY <1>3, ClientConnectOK, ClientReceiveOK, ClientSendOK, ClientDiesOK DEF Client
<1>4. CASE UNCHANGED vars
  <2>1. UNCHANGED <<server, serverItems, pos, commandIndex, iteration, inHand, commandsAtPull, toClient,
                    toServer, client, result, answered, lost, died>>
    BY <1>4 DEF vars, serverVars, sockets
  <2>2. Inner' /\ \A i \in Items : Held(i)' = Held(i) /\ Count(i)' = Count(i)
    BY <2>1, BuffersKept
  <2>3. OnePlace' /\ Accounted'
    <3>1. \A i \in Items : Swallowed(i) => Swallowed(i)'
      BY <2>1, <2>2 DEF Swallowed
    <3> QED BY <2>1, <2>2, <3>1, PlacesKept
  <2>4. Types' /\ ItemList' /\ Counters' /\ ReturnsWithAll'
    BY <2>1, <2>2 DEF IInv, Types, TypeOK, ItemList, Counters, ReturnsWithAll
  <2> QED BY <2>2, <2>3, <2>4 DEF IInv
<1> QED BY <1>1, <1>2, <1>3, <1>4 DEF Next

\* Whatever the clients do and whichever of them die, every command that was
\* taken is in exactly one place, or swallowed by an item that keeps waiting
\* (pair_socket.h:78-185).
THEOREM Inductive == Spec => []IInv
BY InitOK, NextOK, PTL DEF Spec

\* Count is the length of what is outstanding.
LEMMA CountIsLength ==
    ASSUME Types, NEW i \in Items
    PROVE Len(Outstanding(i)) = Count(i)
<1>1. toServer[i] \in Seq(Commands) /\ toClient[i] \in Seq(Commands) /\ result[i] \in Commands \cup {None}
  BY DEF Types, TypeOK
<1>2. /\ Len(toServer[i]) \in Nat /\ Len(toClient[i]) \in Nat
      /\ result[i] = None => Count(i) = Len(toServer[i]) + Len(toClient[i]) + 0
      /\ result[i] # None => Count(i) = Len(toServer[i]) + Len(toClient[i]) + 1
  BY CountNat
<1>3. /\ \A a, b \in Nat : (a + 0) + b = a + b + 0
      /\ \A a, b \in Nat : (a + 1) + b = a + b + 1
  OBVIOUS
<1>4. \A m \in Seq(Commands) :
        Len((toServer[i] \o m) \o toClient[i]) = (Len(toServer[i]) + Len(m)) + Len(toClient[i])
  BY <1>1, ConcatProperties
<1>5. CASE result[i] = None
  <2>1. Outstanding(i) = (toServer[i] \o <<>>) \o toClient[i]
    BY <1>5, Zenon DEF Outstanding
  <2>2. <<>> \in Seq(Commands) /\ Len(<<>>) = 0
    OBVIOUS
  <2>3. Len(Outstanding(i)) = (Len(toServer[i]) + 0) + Len(toClient[i])
    BY <1>4, <2>1, <2>2, Zenon
  <2> QED BY <1>2, <1>3, <1>5, <2>3, Zenon
<1>6. CASE result[i] # None
  <2>1. Outstanding(i) = (toServer[i] \o <<result[i]>>) \o toClient[i]
    BY <1>6, Zenon DEF Outstanding
  <2>2. <<result[i]>> \in Seq(Commands) /\ Len(<<result[i]>>) = 1
    BY <1>1, <1>6
  <2>3. Len(Outstanding(i)) = (Len(toServer[i]) + 1) + Len(toClient[i])
    BY <1>4, <2>1, <2>2, Zenon
  <2> QED BY <1>2, <1>3, <1>6, <2>3, Zenon
<1> QED BY <1>5, <1>6

\* An item's counter covers what its client still owes, and is exactly that while
\* the client lives, so the item goes with its last answer; and a server that
\* returns has the answer to every command it sent (pair_socket.h:78-185).
THEOREM ReturnsComplete == Spec => []Consistent
<1>1. IInv => Consistent
  <2> SUFFICES ASSUME IInv PROVE Consistent
    OBVIOUS
  <2>1. \A i \in Items : Len(Outstanding(i)) = Count(i)
    BY CountIsLength DEF IInv
  <2>2. CounterIsOutstanding
    BY <2>1 DEF IInv, Counters, CounterIsOutstanding
  <2> QED BY <2>2 DEF IInv, Types, Consistent
<1> QED BY <1>1, Inductive, PTL

\* An item whose client died with a command stays in the list for ever: the
\* server does not return, it blocks in nn_recv on that item for an answer that
\* does not come (pair_socket.h:117, 135, 178-182).
THEOREM DeadItemKept ==
    Spec => [](\A i \in Items : Swallowed(i) => i \in Range(serverItems) /\ server # "returned")
<1>1. IInv => \A i \in Items : Swallowed(i) => i \in Range(serverItems) /\ server # "returned"
  <2> SUFFICES ASSUME IInv, NEW i \in Items, Swallowed(i)
               PROVE i \in Range(serverItems) /\ server # "returned"
    OBVIOUS
  <2>1. Count(i) \in Nat /\ commandsAtPull[i] \in Nat /\ commandsAtPull[i] > Count(i)
    BY CountNat DEF IInv, Types, TypeOK, Swallowed
  <2>2. commandsAtPull[i] # 0
    BY <2>1
  <2>3. i \in Range(serverItems)
    BY <2>2 DEF IInv, ItemList
  <2>4. serverItems # <<>>
    BY <2>3, EmptyRange
  <2> QED BY <2>3, <2>4 DEF IInv, ItemList
<1> QED BY <1>1, Inductive, PTL

-----------------------------------------------------------------------------
(* The ledger *)

Flying == ({inHand} \ {None}) \cup AllHeld

Given == lost \cup died

LEMMA LedgerVars == UNCHANGED <<iteration, Flying, answered, Given>> => UNCHANGED Ledger!vars
BY Zenon DEF Ledger!vars, Flying, AllHeld, Given

\* The ledger counts as this module does.
LEMMA LedgerCardinality == \A S : Ledger!Cardinality(S) = Cardinality(S)
BY Zenon DEF Ledger!Cardinality, Cardinality

LEMMA LedgerInit == Init => Ledger!Init
<1> SUFFICES ASSUME Init PROVE Ledger!Init
  OBVIOUS
<1>1. \A i \in Items : toClient[i] = <<>> /\ toServer[i] = <<>> /\ result[i] = None
  BY DEF Init
<1>2. \A i \in Items : Held(i) = {}
  BY <1>1, EmptyRange DEF Held
<1>3. Flying = {} /\ Given = {}
  BY <1>2 DEF Init, Flying, AllHeld, Given
<1> QED BY <1>3, Zenon DEF Init, Ledger!Init, Flying, AllHeld, Given

\* The places of an item are numbered: the buffer towards the client, the client,
\* the buffer towards the server.
At(i, k, c) ==
    \/ k \in 1 .. Len(toClient[i]) /\ toClient[i][k] = c
    \/ k = CommandRoom + 1 /\ result[i] = c
    \/ k - CommandRoom - 1 \in 1 .. Len(toServer[i]) /\ toServer[i][k - CommandRoom - 1] = c

LEMMA HeldAt ==
    ASSUME IInv, NEW i \in Items
    PROVE /\ \A c \in Held(i) : \E k \in 1 .. Room : At(i, k, c)
          /\ \A k \in 1 .. Room, c \in Commands, d \in Commands : At(i, k, c) /\ At(i, k, d) => c = d
<1>1. /\ CommandRoom \in Nat /\ AnswerRoom \in Nat /\ toServer[i] \in Seq(Commands)
      /\ toClient[i] \in Seq(Commands) /\ Len(toServer[i]) \in Nat /\ Len(toClient[i]) \in Nat
      /\ Len(toClient[i]) <= CommandRoom /\ Len(toServer[i]) <= AnswerRoom
      /\ DOMAIN toServer[i] = 1 .. Len(toServer[i]) /\ DOMAIN toClient[i] = 1 .. Len(toClient[i])
  BY ConstantsOK DEF IInv, Types, TypeOK
<1>2. ASSUME NEW c \in Held(i) PROVE \E k \in 1 .. Room : At(i, k, c)
  <2>1. CASE c \in Range(toClient[i])
    <3>1. PICK k \in 1 .. Len(toClient[i]) : toClient[i][k] = c
      BY <1>1, <2>1 DEF Range
    <3>2. k \in 1 .. Room
      BY <1>1 DEF Room
    <3> QED BY <3>1, <3>2 DEF At
  <2>2. CASE c = result[i]
    <3>1. CommandRoom + 1 \in 1 .. Room
      BY <1>1 DEF Room
    <3> QED BY <2>2, <3>1 DEF At
  <2>3. CASE c \in Range(toServer[i])
    <3>1. PICK k \in 1 .. Len(toServer[i]) : toServer[i][k] = c
      BY <1>1, <2>3 DEF Range
    <3>2. k + CommandRoom + 1 \in 1 .. Room /\ (k + CommandRoom + 1) - CommandRoom - 1 = k
      BY <1>1 DEF Room
    <3>3. At(i, k + CommandRoom + 1, c)
      BY <3>1, <3>2 DEF At
    <3> QED BY <3>2, <3>3
  <2> QED BY <2>1, <2>2, <2>3 DEF Held
<1>3. ASSUME NEW k \in 1 .. Room, NEW c \in Commands, NEW d \in Commands, At(i, k, c), At(i, k, d)
      PROVE c = d
  <2>1. CASE k <= CommandRoom
    <3>1. k # CommandRoom + 1 /\ ~(k - CommandRoom - 1 \in 1 .. Len(toServer[i]))
      BY <1>1, <2>1
    <3> QED BY <1>3, <3>1 DEF At
  <2>2. CASE k = CommandRoom + 1
    <3>1. ~(k \in 1 .. Len(toClient[i])) /\ ~(k - CommandRoom - 1 \in 1 .. Len(toServer[i]))
      BY <1>1, <2>2
    <3> QED BY <1>3, <3>1 DEF At
  <2>3. CASE k > CommandRoom + 1
    <3>1. k # CommandRoom + 1 /\ ~(k \in 1 .. Len(toClient[i]))
      BY <1>1, <2>3
    <3> QED BY <1>3, <3>1 DEF At
  <2> QED BY <1>1, <2>1, <2>2, <2>3
<1> QED BY <1>2, <1>3

\* The buffers and the clients have ProcessCount * Room places.
LEMMA HeldFew == IInv => Cardinality(AllHeld) < ProcessCount * Room + 1
<1> SUFFICES ASSUME IInv PROVE Cardinality(AllHeld) < ProcessCount * Room + 1
  OBVIOUS
<1>1. ProcessCount \in Nat \ {0} /\ Room \in Nat \ {0}
  BY ConstantsOK DEF Room
<1>2. /\ IsFiniteSet(Items) /\ Cardinality(Items) = ProcessCount
      /\ IsFiniteSet(1 .. Room) /\ Cardinality(1 .. Room) = Room
  BY <1>1, FS_Interval DEF Items
<1>3. PICK P : P = Items \X (1 .. Room)
  OBVIOUS
<1>4. IsFiniteSet(P) /\ Cardinality(P) = ProcessCount * Room
  BY <1>2, <1>3, FS_Product
<1> DEFINE place == [c \in AllHeld |-> CHOOSE p \in P : At(p[1], p[2], c)]
<1>5. \A c \in AllHeld : place[c] \in P /\ At(place[c][1], place[c][2], c)
  <2> SUFFICES ASSUME NEW c \in AllHeld PROVE \E p \in P : At(p[1], p[2], c)
    BY Zenon
  <2>1. PICK i \in Items : c \in Held(i)
    BY DEF AllHeld
  <2>2. PICK k \in 1 .. Room : At(i, k, c)
    BY <2>1, HeldAt
  <2>3. <<i, k>> \in P /\ <<i, k>>[1] = i /\ <<i, k>>[2] = k
    BY <1>3
  <2> QED BY <2>2, <2>3, Zenon
<1>6. place \in [AllHeld -> P]
  BY <1>5
<1> HIDE DEF place
<1>7. AllHeld \subseteq Commands
  BY ItemTypes DEF AllHeld, Held
<1>8. ASSUME NEW c \in AllHeld, NEW d \in AllHeld, place[c] = place[d] PROVE c = d
  <2>1. PICK i \in Items, k \in 1 .. Room : place[c][1] = i /\ place[c][2] = k
    BY <1>3, <1>5
  <2>2. At(i, k, c) /\ At(i, k, d)
    BY <1>5, <1>8, <2>1, Zenon
  <2> QED BY <1>7, <2>2, HeldAt
<1>9. place \in Injection(AllHeld, P)
  BY <1>6, <1>8 DEF Injection, IsInjective
<1>10. IsFiniteSet(AllHeld) /\ Cardinality(AllHeld) <= Cardinality(P)
  BY <1>4, <1>9, FS_Injection
<1>11. Cardinality(AllHeld) \in Nat /\ Cardinality(P) \in Nat
  BY <1>4, <1>10, FS_CardinalityType
<1>12. \A a, b \in Nat : a <= b => a < b + 1
  OBVIOUS
<1> QED BY <1>4, <1>10, <1>11, <1>12

\* Every step hands out a command, answers one, loses some or stutters.
LEMMA LedgerNext == IInv /\ [Next]_vars => [Ledger!Next]_(Ledger!vars)
<1> SUFFICES ASSUME IInv, [Next]_vars PROVE Ledger!Next \/ UNCHANGED Ledger!vars
  OBVIOUS
<1>0. ASSUME UNCHANGED <<iteration, inHand, answered, lost, died>>, \A i \in Items : Held(i)' = Held(i)
      PROVE UNCHANGED Ledger!vars
  <2>1. AllHeld' = AllHeld
    BY <1>0 DEF AllHeld
  <2>2. UNCHANGED <<iteration, Flying, answered, Given>>
    BY <1>0, <2>1 DEF Flying, Given
  <2> QED BY <2>2, LedgerVars
<1>1. CASE ServerItem \/ NextWalk \/ ServerItemThrows \/ ReceiveError \/ UNCHANGED vars
  <2>1. UNCHANGED <<iteration, inHand, answered, lost, died, toClient, toServer, result>>
    BY <1>1 DEF ServerItem, NextWalk, ServerItemThrows, ReceiveError, vars, serverVars, sockets
  <2> QED BY <1>0, <2>1, BuffersKept
<1>2. CASE Send
  <2>1. UNCHANGED <<iteration, answered, lost, died>> /\ inHand' = None
    BY <1>2 DEF Send, SendTo
  <2>2. AllHeld' = AllHeld \cup ({inHand} \ {None})
    BY <1>2, SendOK
  <2>3. UNCHANGED <<iteration, Flying, answered, Given>>
    BY <2>1, <2>2 DEF Flying, Given
  <2> QED BY <2>3, LedgerVars
<1>3. CASE NextCommand
  <2>1. UNCHANGED <<answered, lost, died, toClient, toServer, result>> /\ inHand = None
    BY <1>3 DEF NextCommand, sockets
  <2>2. \A i \in Items : Held(i)' = Held(i)
    BY <2>1, BuffersKept
  <2>3. CASE UNCHANGED <<iteration, inHand>>
    BY <1>0, <2>1, <2>2, <2>3
  <2>4. CASE /\ iteration > 0 /\ iteration' = iteration - 1
             /\ inHand' = M - iteration + 1 /\ inHand' # None
    <3>1. Flying = AllHeld /\ Flying' = Flying \cup {M - iteration + 1} /\ Given' = Given
      BY <2>1, <2>2, <2>4 DEF Flying, AllHeld, Given
    <3>2. Cardinality(Flying) < ProcessCount * Room + 1
      BY <3>1, HeldFew
    <3>3. Ledger!HandOut
      BY <2>1, <2>4, <3>1, <3>2, LedgerCardinality, Zenon DEF Ledger!HandOut, Flying, AllHeld, Given
    <3> QED BY <3>3 DEF Ledger!Next
  <2> QED BY <1>3, <2>3, <2>4, NextCommandOK
<1>4. CASE SendError
  <2>1. /\ UNCHANGED <<iteration, answered, died, toClient, toServer, result>>
        /\ lost' = lost \cup {inHand} /\ inHand # None /\ inHand' = None
    BY <1>4 DEF SendError, sockets
  <2>2. AllHeld' = AllHeld
    BY <2>1, BuffersKept DEF AllHeld
  <2>3. inHand \notin AllHeld
    BY DEF IInv, OnePlace, AllHeld
  <2>4. PICK cs \in SUBSET Flying : cs = {inHand}
    BY <2>1 DEF Flying
  <2>5. Flying' = Flying \ cs /\ Given' = Given \cup cs
    BY <2>1, <2>2, <2>3, <2>4 DEF Flying, Given
  <2>6. Ledger!Lose(cs)
    BY <2>1, <2>5, Zenon DEF Ledger!Lose, Flying, AllHeld, Given
  <2> QED BY <2>4, <2>6, Zenon DEF Ledger!Next, Flying, AllHeld
<1>5. CASE ReceiveCommandResponse
  <2>1. UNCHANGED <<iteration, inHand, lost, died>>
    BY <1>5 DEF ReceiveCommandResponse
  <2>2. PICK c \in AllHeld : answered' = answered \cup {c} /\ AllHeld' = AllHeld \ {c}
    BY <1>5, ReceiveOK
  <2>3. c \in Commands /\ c # inHand
    <3>1. AllHeld \subseteq Commands
      BY ItemTypes DEF AllHeld, Held
    <3>2. inHand \notin AllHeld
      BY DEF IInv, OnePlace, AllHeld
    <3> QED BY <2>2, <3>1, <3>2
  <2>4. c \in Flying /\ Flying' = Flying \ {c} /\ Given' = Given
    BY <2>1, <2>2, <2>3 DEF Flying, Given
  <2>5. Ledger!Answer(c)
    BY <2>1, <2>2, <2>4, Zenon DEF Ledger!Answer, Flying, AllHeld, Given
  <2> QED BY <2>3, <2>5 DEF Ledger!Next, Commands
<1>6. ASSUME NEW i \in Items, Client(i) PROVE UNCHANGED Ledger!vars
  <2>1. UNCHANGED <<iteration, inHand, answered, lost, died>>
    BY <1>6 DEF Client, ClientConnect, ClientReceive, ClientSend, ClientSendThen, ClientStep, serverVars
  <2>2. CASE ClientConnect(i)
    <3>1. UNCHANGED <<toClient, toServer, result>>
      BY <2>2 DEF ClientConnect, sockets
    <3> QED BY <1>0, <2>1, <3>1, BuffersKept
  <2>3. CASE ClientReceive(i) \/ ClientSend(i)
    BY <1>0, <2>1, <2>3, ClientReceiveOK, ClientSendOK
  <2> QED BY <1>6, <2>2, <2>3 DEF Client
<1>7. ASSUME NEW i \in Items, ClientDies(i) PROVE Ledger!Next
  <2>1. UNCHANGED <<iteration, inHand, answered, lost>>
    BY <1>7 DEF ClientDies, ClientStep, serverVars
  <2>2. PICK cs \in SUBSET Held(i) : died' = died \cup cs /\ Held(i)' = Held(i) \ cs
    BY <1>7, ClientDiesOK
  <2>3. \A j \in Items \ {i} : Held(j)' = Held(j) /\ Held(j) \cap cs = {}
    <3>1. \A j \in Items \ {i} : Held(j)' = Held(j)
      BY <1>7, ClientDiesOK
    <3>2. \A j \in Items \ {i} : Held(i) \cap Held(j) = {}
      BY DEF IInv, OnePlace
    <3> QED BY <2>2, <3>1, <3>2
  <2>4. \A j \in Items : Held(j)' = Held(j) \ cs
    BY <2>2, <2>3
  <2>5. AllHeld' = AllHeld \ cs /\ cs \subseteq AllHeld /\ inHand \notin cs
    <3>1. inHand \notin Held(i)
      BY DEF IInv, OnePlace
    <3> QED BY <2>2, <2>4, <3>1 DEF AllHeld
  <2>6. cs \in SUBSET Flying /\ Flying' = Flying \ cs /\ Given' = Given \cup cs
    BY <2>1, <2>2, <2>5 DEF Flying, Given
  <2>7. Ledger!Lose(cs)
    BY <2>1, <2>6, Zenon DEF Ledger!Lose, Flying, AllHeld, Given
  <2> QED BY <2>6, <2>7, Zenon DEF Ledger!Next, Flying, AllHeld
<1> QED BY <1>1, <1>2, <1>3, <1>4, <1>5, <1>6, <1>7 DEF Next, Server

\* The pair server keeps the promise of CommandLedger: a command moves from the
\* server's hand through buffers and client without being doubled or forgotten,
\* at most as many as these can hold are under way, and each ends once, with its
\* own answer, with a failed send or with the client it was with
\* (pair_socket.h:78-185).
THEOREM PromiseKept == Spec => LedgerKept
BY LedgerInit, LedgerNext, Inductive, PTL DEF Spec, LedgerKept, Ledger!Spec
=============================================================================
