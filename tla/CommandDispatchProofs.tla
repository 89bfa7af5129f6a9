------------------------ MODULE CommandDispatchProofs ------------------------
(***************************************************************************)
(* Proofs about CommandDispatch for any number of clients, commands and io *)
(* threads.  A task has one operation pending exactly when it is busy, and *)
(* what is on its wire is that operation's command (Wire).  A command that *)
(* was taken and is neither answered nor lost is in one place: pending in  *)
(* one task, or in one handler that is about to record it (OnePlace).      *)
(***************************************************************************)
EXTENDS CommandDispatch, FiniteSetTheorems, SequenceTheorems, TLAPS

\* The commands that were taken.
Taken == 1 .. (M - iteration)

\* Commands of the operations pending in a task.
Pending(t) == Range(writes[t]) \cup Range(reads[t])
InTasks == UNION {Pending(t) : t \in Tasks}
Requests(rs) == {r.request : r \in rs}

\* What the ledger calls flying.
Flying == InTasks \cup Requests(adding)

\* The sockets of a task: an answer belongs to the pending read, and so does a
\* command that a living client has not read yet.
Wire ==
    \A t \in Tasks :
        /\ toServer[t] # <<>> => toServer[t] = reads[t]
        /\ client[t] # "ended" /\ toClient[t] # <<>> => toClient[t] = reads[t] /\ toServer[t] = <<>>

OnePlace ==
    /\ \A t, u \in Tasks : t # u => Pending(t) \cap Pending(u) = {}
    /\ InTasks \cap Requests(adding) = {}
    /\ \A r, q \in adding : r.request = q.request => r = q

\* Nothing is forgotten, and nothing is there that was not taken.
Accounted == InTasks \cup Requests(adding) \cup Requests(results) \cup lost = Taken

\* Who has a command was accepted; the handlers fit into the threads.
Threads ==
    /\ \A t \in Tasks : busy[t] => t \in Range(pull)
    /\ IsFiniteSet(adding) /\ IsFiniteSet(results) /\ IsFiniteSet(dumped)
    /\ Running <= IoThreads

\* What main's position implies for the report and the acceptor.
MainInv ==
    /\ Unblock \in Range(backlog) => stopLoop
    /\ reported => iteration = 0
    /\ reported <=> main # "loop"
    /\ reported => dumped \subseteq results
    /\ ~reported => dumped = {}

IInv ==
    /\ TypeOK /\ BusyMeansOnePending /\ ResponsesMatch
    /\ Wire /\ OnePlace /\ Accounted /\ Threads /\ MainInv /\ DumpMissesFew

-----------------------------------------------------------------------------
(* Sequences with at most one element, and sets of commands *)

LEMMA Ranges ==
    /\ Range(<<>>) = {}
    /\ \A c : Range(<<c>>) = {c}
BY DEF Range

LEMMA RangeAppend ==
    ASSUME NEW S, NEW q \in Seq(S), NEW e \in S
    PROVE Append(q, e) \in Seq(S) /\ Range(Append(q, e)) = Range(q) \cup {e}
<1>1. /\ Append(q, e) \in Seq(S) /\ DOMAIN Append(q, e) = 1 .. (Len(q) + 1)
      /\ \A i \in 1 .. Len(q) : Append(q, e)[i] = q[i]
      /\ Append(q, e)[Len(q) + 1] = e /\ DOMAIN q = 1 .. Len(q) /\ Len(q) \in Nat
  OBVIOUS
<1> QED BY <1>1 DEF Range

LEMMA RangeTail ==
    ASSUME NEW S, NEW q \in Seq(S), q # <<>>
    PROVE /\ Tail(q) \in Seq(S) /\ Range(Tail(q)) \subseteq Range(q)
          /\ Head(q) \in S /\ Head(q) \in Range(q)
<1>1. /\ Tail(q) \in Seq(S) /\ DOMAIN Tail(q) = 1 .. (Len(q) - 1)
      /\ \A i \in 1 .. (Len(q) - 1) : Tail(q)[i] = q[i + 1]
      /\ Len(q) \in Nat \ {0} /\ DOMAIN q = 1 .. Len(q) /\ Head(q) = q[1]
  OBVIOUS
<1>2. Range(Tail(q)) \subseteq Range(q)
  BY <1>1 DEF Range
<1>3. Head(q) \in S /\ Head(q) \in Range(q)
  BY <1>1 DEF Range
<1> QED BY <1>1, <1>2, <1>3

\* A sequence that has one element, by its length.
LEMMA OneElement ==
    ASSUME NEW S, NEW q \in Seq(S)
    PROVE /\ Len(q) = 0 => q = <<>>
          /\ Len(q) = 1 => q = <<Head(q)>> /\ Head(q) \in S /\ Tail(q) = <<>>
<1>1. Len(q) \in Nat /\ DOMAIN q = 1 .. Len(q) /\ q = [i \in 1 .. Len(q) |-> q[i]]
  OBVIOUS
<1>2. Len(q) = 0 => q = <<>>
  OBVIOUS
<1>3. ASSUME Len(q) = 1 PROVE q = <<Head(q)>> /\ Head(q) \in S /\ Tail(q) = <<>>
  <2>1. Head(q) = q[1] /\ q[1] \in S
    BY <1>1, <1>3
  <2>2. q = <<q[1]>>
    BY <1>1, <1>3
  <2>3. Tail(q) \in Seq(S) /\ Len(Tail(q)) = 0
    <3>1. q # <<>>
      BY <1>3
    <3> QED BY <3>1, <1>3, HeadTailProperties
  <2>4. Tail(q) = <<>>
    BY <2>3, EmptySeq
  <2> QED BY <2>1, <2>2, <2>4
<1> QED BY <1>2, <1>3

LEMMA SumOne ==
    /\ \A a, b \in Nat : a + b = 1 => (a = 1 /\ b = 0) \/ (a = 0 /\ b = 1)
    /\ \A a, b \in Nat : a + b = 0 => a = 0 /\ b = 0
    /\ 0 # 1
OBVIOUS

\* The operations of a task: none, a write or a read.
LEMMA Shape ==
    ASSUME TypeOK, BusyMeansOnePending, NEW t \in Tasks
    PROVE /\ ~busy[t] => writes[t] = <<>> /\ reads[t] = <<>> /\ Pending(t) = {}
          /\ writes[t] # <<>> =>
               /\ busy[t] /\ reads[t] = <<>> /\ writes[t] = <<Head(writes[t])>>
               /\ Tail(writes[t]) = <<>> /\ Head(writes[t]) \in Commands
               /\ Pending(t) = {Head(writes[t])}
          /\ reads[t] # <<>> =>
               /\ busy[t] /\ writes[t] = <<>> /\ reads[t] = <<Head(reads[t])>>
               /\ Tail(reads[t]) = <<>> /\ Head(reads[t]) \in Commands
               /\ Pending(t) = {Head(reads[t])}
          /\ writes[t] \in Seq(Commands) /\ reads[t] \in Seq(Commands)
          /\ busy[t] => writes[t] # <<>> \/ reads[t] # <<>>
<1>1. writes[t] \in Seq(Commands) /\ reads[t] \in Seq(Commands)
  BY DEF TypeOK
<1>2. Len(writes[t]) \in Nat /\ Len(reads[t]) \in Nat
  BY <1>1
<1>a. busy[t] => Len(writes[t]) + Len(reads[t]) = 1
  BY DEF BusyMeansOnePending
<1>b. ~busy[t] => Len(writes[t]) + Len(reads[t]) = 0
  BY DEF BusyMeansOnePending
<1>3. /\ Len(writes[t]) = 0 => writes[t] = <<>>
      /\ Len(writes[t]) = 1 => writes[t] = <<Head(writes[t])>> /\ Head(writes[t]) \in Commands
                                  /\ Tail(writes[t]) = <<>>
      /\ Len(reads[t]) = 0 => reads[t] = <<>>
      /\ Len(reads[t]) = 1 => reads[t] = <<Head(reads[t])>> /\ Head(reads[t]) \in Commands
                                 /\ Tail(reads[t]) = <<>>
  BY <1>1, OneElement
<1>c. Len(<<>>) = 0
  OBVIOUS
<1>4. ~busy[t] => Len(writes[t]) = 0 /\ Len(reads[t]) = 0
  BY <1>2, <1>b, SumOne, Zenon
<1>d. busy[t] => (Len(writes[t]) = 1 /\ Len(reads[t]) = 0) \/ (Len(writes[t]) = 0 /\ Len(reads[t]) = 1)
  BY <1>2, <1>a, SumOne, Zenon
<1>5. writes[t] # <<>> => busy[t] /\ Len(writes[t]) = 1 /\ Len(reads[t]) = 0
  BY <1>3, <1>4, <1>d, Zenon
<1>6. reads[t] # <<>> => busy[t] /\ Len(reads[t]) = 1 /\ Len(writes[t]) = 0
  BY <1>3, <1>4, <1>d, Zenon
<1>7. busy[t] => writes[t] # <<>> \/ reads[t] # <<>>
  BY <1>c, <1>d, SumOne, Zenon
<1>8. ~busy[t] => Pending(t) = {}
  BY <1>3, <1>4, Ranges DEF Pending
<1>9. writes[t] # <<>> => Pending(t) = {Head(writes[t])}
  BY <1>3, <1>5, Ranges DEF Pending
<1>10. reads[t] # <<>> => Pending(t) = {Head(reads[t])}
  BY <1>3, <1>6, Ranges DEF Pending
<1> QED BY <1>1, <1>3, <1>4, <1>5, <1>6, <1>7, <1>8, <1>9, <1>10

LEMMA InitOK == Init => IInv
<1> SUFFICES ASSUME Init PROVE IInv
  OBVIOUS
<1> USE DEF Init, NoMessage
<1>1. TypeOK
  <2>1. iteration \in 0 .. M /\ posted \in 0 .. MaxPosted /\ visit \in 0 .. (Len(pull) + 1)
    BY CommandDispatchAssumption
  <2>2. {writes, reads, toClient, toServer} \subseteq [Tasks -> Seq(Commands)]
    OBVIOUS
  <2>3. {reported, stopLoop, work, ioStopped} \subseteq BOOLEAN
    OBVIOUS
  <2> QED BY <2>1, <2>2, <2>3 DEF TypeOK
<1>2. BusyMeansOnePending /\ ResponsesMatch /\ Wire
  BY DEF BusyMeansOnePending, ResponsesMatch, Wire
<1>3. \A t \in Tasks : Pending(t) = {}
  BY Ranges DEF Pending
<1>4. OnePlace
  BY <1>3 DEF OnePlace, InTasks, Requests
<1>5. Accounted
  <2>1. Taken = {}
    BY CommandDispatchAssumption DEF Taken
  <2> QED BY <2>1, <1>3 DEF Accounted, InTasks, Requests
<1>6. Threads /\ MainInv /\ DumpMissesFew
  BY Ranges, FS_EmptySet, CommandDispatchAssumption DEF Threads, MainInv, DumpMissesFew, Running
<1> QED BY <1>1, <1>2, <1>4, <1>5, <1>6 DEF IInv

-----------------------------------------------------------------------------
(* What leaves the commands where they are *)

LEMMA CommandsFinite == IsFiniteSet(Commands) /\ Cardinality(Commands) = M
<1>1. M \in Int /\ 1 \in Int /\ M > 0
  BY CommandDispatchAssumption
<1>2. IsFiniteSet(1 .. M) /\ Cardinality(1 .. M) = IF 1 > M THEN 0 ELSE M - 1 + 1
  BY <1>1, FS_Interval
<1> QED BY <1>1, <1>2 DEF Commands

\* The report and what it is compared with: tasks join, losses add up.
LEMMA DumpKept ==
    ASSUME IInv, UNCHANGED <<reported, dumped>>, pull' \in Seq(Tasks), Len(pull') >= Len(pull),
           lost \subseteq lost', lost' \subseteq Commands
    PROVE DumpMissesFew'
<1> SUFFICES ASSUME reported
             PROVE M - Cardinality(dumped) <= Len(pull') + IoThreads + Cardinality(lost')
  BY DEF DumpMissesFew
<1>1. M - Cardinality(dumped) <= Len(pull) + IoThreads + Cardinality(lost)
  BY DEF IInv, DumpMissesFew
<1>2. IsFiniteSet(lost')
  BY CommandsFinite, FS_Subset
<1>3. Cardinality(lost) <= Cardinality(lost') /\ Cardinality(lost') \in Nat /\ Cardinality(lost) \in Nat
  BY <1>2, FS_Subset, FS_CardinalityType
<1>4. Cardinality(dumped) \in Nat
  BY FS_CardinalityType DEF IInv, Threads
<1>5. Len(pull) \in Nat /\ Len(pull') \in Nat
  BY DEF IInv, TypeOK
<1> QED BY <1>1, <1>3, <1>4, <1>5, CommandDispatchAssumption

\* The state of the commands.
commandVars == <<iteration, busy, writes, reads, adding, results, lost>>

LEMMA CommandsKept ==
    ASSUME IInv, UNCHANGED commandVars
    PROVE BusyMeansOnePending' /\ ResponsesMatch' /\ OnePlace' /\ Accounted'
<1> USE DEF commandVars
<1>1. BusyMeansOnePending' /\ ResponsesMatch'
  BY DEF IInv, BusyMeansOnePending, ResponsesMatch
<1>2. InTasks' = InTasks /\ Taken' = Taken
  BY DEF InTasks, Pending, Taken
<1>3. Requests(adding)' = Requests(adding) /\ Requests(results)' = Requests(results)
  BY DEF Requests
<1>4. \A t \in Tasks : Pending(t)' = Pending(t)
  BY DEF Pending
<1>5. OnePlace'
  BY <1>2, <1>3, <1>4 DEF IInv, OnePlace
<1>6. Accounted'
  BY <1>2, <1>3 DEF IInv, Accounted
<1> QED BY <1>1, <1>5, <1>6

LEMMA PostOK == IInv /\ Post => IInv'
<1> SUFFICES ASSUME IInv, Post PROVE IInv'
  OBVIOUS
<1> USE DEF Post, taskVars, outputVars, ioVars
<1>1. BusyMeansOnePending' /\ ResponsesMatch' /\ OnePlace' /\ Accounted'
  BY CommandsKept DEF commandVars
<1>2. TypeOK'
  <2>1. posted' \in 0 .. MaxPosted
    BY CommandDispatchAssumption DEF IInv, TypeOK
  <2> QED BY <2>1 DEF IInv, TypeOK
<1>3. Wire' /\ Threads' /\ MainInv' /\ DumpMissesFew'
  BY DEF IInv, Wire, Threads, Running, MainInv, DumpMissesFew
<1> QED BY <1>1, <1>2, <1>3 DEF IInv

LEMMA StopOK == IInv /\ Stop => IInv'
<1> SUFFICES ASSUME IInv, Stop PROVE IInv'
  OBVIOUS
<1> USE DEF Stop, StopWith, serverVars, taskVars, outputVars
<1>1. BusyMeansOnePending' /\ ResponsesMatch' /\ OnePlace' /\ Accounted'
  BY CommandsKept DEF commandVars
<1>2. TypeOK'
  <2>1. backlog' \in Seq(Tasks \cup {Unblock})
    BY DEF IInv, TypeOK
  <2>2. {reported, stopLoop, work, ioStopped}' \subseteq BOOLEAN
    BY DEF IInv, TypeOK
  <2> QED BY <2>1, <2>2 DEF IInv, TypeOK
<1>3. Wire' /\ Threads' /\ MainInv' /\ DumpMissesFew'
  BY DEF IInv, Wire, Threads, Running, MainInv, DumpMissesFew
<1> QED BY <1>1, <1>2, <1>3 DEF IInv

LEMMA JoinOK == IInv /\ Join => IInv'
<1> SUFFICES ASSUME IInv, Join PROVE IInv'
  OBVIOUS
<1> USE DEF Join, serverVars, taskVars, outputVars, ioVars
<1>1. BusyMeansOnePending' /\ ResponsesMatch' /\ OnePlace' /\ Accounted'
  BY CommandsKept DEF commandVars
<1>2. TypeOK'
  BY DEF IInv, TypeOK
<1>3. Wire' /\ Threads' /\ MainInv' /\ DumpMissesFew'
  BY DEF IInv, Wire, Threads, Running, MainInv, DumpMissesFew
<1> QED BY <1>1, <1>2, <1>3 DEF IInv

LEMMA RunOK == IInv /\ Run => IInv'
<1> SUFFICES ASSUME IInv, Run PROVE IInv'
  OBVIOUS
<1> USE DEF Run, serverVars, taskVars, outputVars
<1>1. BusyMeansOnePending' /\ ResponsesMatch' /\ OnePlace' /\ Accounted'
  BY CommandsKept DEF commandVars
<1>2. TypeOK'
  BY DEF IInv, TypeOK
<1>3. Wire' /\ Threads' /\ MainInv' /\ DumpMissesFew'
  BY DEF IInv, Wire, Threads, Running, MainInv, DumpMissesFew
<1> QED BY <1>1, <1>2, <1>3 DEF IInv

\* A task that joins the pull is a client's: Unblock comes after Stop only.
LEMMA HandleAcceptOK == IInv /\ HandleAccept => IInv'
<1> SUFFICES ASSUME IInv, HandleAccept PROVE IInv'
  OBVIOUS
<1> USE DEF HandleAccept, taskVars, outputVars
<1>1. BusyMeansOnePending' /\ ResponsesMatch' /\ OnePlace' /\ Accounted'
  BY CommandsKept DEF commandVars
<1>2. /\ backlog \in Seq(Tasks \cup {Unblock}) /\ pull \in Seq(Tasks)
  BY DEF IInv, TypeOK
<1>3. /\ backlog' \in Seq(Tasks \cup {Unblock}) /\ Range(backlog') \subseteq Range(backlog)
      /\ Head(backlog) \in Tasks \cup {Unblock} /\ Head(backlog) \in Range(backlog)
  BY <1>2, RangeTail
<1>4. ~stopLoop => Head(backlog) \in Tasks
  BY <1>3 DEF IInv, MainInv
<1>5. pull' \in Seq(Tasks) /\ Range(pull) \subseteq Range(pull') /\ Len(pull') >= Len(pull)
  <2>1. CASE stopLoop
    BY <2>1, <1>2
  <2>2. CASE ~stopLoop
    <3>1. Head(backlog) \in Tasks /\ pull' = Append(pull, Head(backlog))
      BY <2>2, <1>4
    <3>2. pull' \in Seq(Tasks) /\ Range(pull') = Range(pull) \cup {Head(backlog)}
      BY <3>1, <1>2, RangeAppend
    <3>3. Len(pull') = Len(pull) + 1 /\ Len(pull) \in Nat
      BY <3>1, <1>2
    <3> QED BY <3>2, <3>3
  <2> QED BY <2>1, <2>2
<1>6. visit' \in 0 .. (Len(pull') + 1)
  BY <1>5, <1>2 DEF IInv, TypeOK
<1>7. accept' \in {"none", "armed", "over"}
  BY DEF IInv, TypeOK
<1>8. TypeOK'
  BY <1>3, <1>5, <1>6, <1>7 DEF IInv, TypeOK
<1>9. Threads'
  BY <1>5 DEF IInv, Threads, Running
<1>10. MainInv'
  BY <1>3 DEF IInv, MainInv
<1>11. DumpMissesFew'
  BY <1>5, DumpKept DEF IInv, TypeOK
<1>12. Wire'
  BY DEF IInv, Wire
<1> QED BY <1>1, <1>8, <1>9, <1>10, <1>11, <1>12 DEF IInv

LEMMA HandleAcceptErrorOK == IInv /\ HandleAcceptError => IInv'
<1> SUFFICES ASSUME IInv, HandleAcceptError PROVE IInv'
  OBVIOUS
<1> USE DEF HandleAcceptError, serverVars, taskVars, outputVars
<1>1. BusyMeansOnePending' /\ ResponsesMatch' /\ OnePlace' /\ Accounted'
  BY CommandsKept DEF commandVars
<1>2. TypeOK'
  BY DEF IInv, TypeOK
<1>3. Wire' /\ Threads' /\ MainInv' /\ DumpMissesFew'
  BY DEF IInv, Wire, Threads, Running, MainInv, DumpMissesFew
<1> QED BY <1>1, <1>2, <1>3 DEF IInv

LEMMA BeginVisitOK == IInv /\ BeginVisit => IInv'
<1> SUFFICES ASSUME IInv, BeginVisit PROVE IInv'
  OBVIOUS
<1> USE DEF BeginVisit, taskVars, outputVars, ioVars
<1>1. BusyMeansOnePending' /\ ResponsesMatch' /\ OnePlace' /\ Accounted'
  BY CommandsKept DEF commandVars
<1>2. TypeOK'
  <2>1. posted' \in 0 .. MaxPosted
    BY CommandDispatchAssumption DEF IInv, TypeOK
  <2>2. Len(pull) \in Nat
    BY DEF IInv, TypeOK
  <2>3. visit' \in 0 .. (Len(pull') + 1)
    BY <2>2
  <2> QED BY <2>1, <2>3 DEF IInv, TypeOK
<1>3. Threads'
  <2>1. Running' <= IoThreads
    <3>1. Cardinality(adding) \in Nat
      BY FS_CardinalityType DEF IInv, Threads
    <3> QED BY <3>1, CommandDispatchAssumption DEF IoThreadFree, Running
  <2> QED BY <2>1 DEF IInv, Threads
<1>4. Wire' /\ MainInv' /\ DumpMissesFew'
  BY DEF IInv, Wire, MainInv, DumpMissesFew
<1> QED BY <1>1, <1>2, <1>3, <1>4 DEF IInv

LEMMA EndVisitOK == IInv /\ EndVisit => IInv'
<1> SUFFICES ASSUME IInv, EndVisit PROVE IInv'
  OBVIOUS
<1> USE DEF EndVisit, taskVars, outputVars, ioVars
<1>1. BusyMeansOnePending' /\ ResponsesMatch' /\ OnePlace' /\ Accounted'
  BY CommandsKept DEF commandVars
<1>0. Len(pull) \in Nat
  BY DEF IInv, TypeOK
<1>2. TypeOK'
  <2>1. visit' \in 0 .. (Len(pull') + 1)
    BY <1>0
  <2> QED BY <2>1 DEF IInv, TypeOK
<1>3. Threads'
  <2>1. Running' <= IoThreads
    <3>1. Cardinality(adding) \in Nat
      BY FS_CardinalityType DEF IInv, Threads
    <3> QED BY <3>1, <1>0, CommandDispatchAssumption DEF IInv, Threads, Running
  <2> QED BY <2>1 DEF IInv, Threads
<1>4. Wire' /\ MainInv' /\ DumpMissesFew'
  BY DEF IInv, Wire, MainInv, DumpMissesFew
<1> QED BY <1>1, <1>2, <1>3, <1>4 DEF IInv

LEMMA IoStopOK == IInv /\ IoStop => IInv'
<1> SUFFICES ASSUME IInv, IoStop PROVE IInv'
  OBVIOUS
<1> USE DEF IoStop, serverVars, taskVars, outputVars
<1>1. BusyMeansOnePending' /\ ResponsesMatch' /\ OnePlace' /\ Accounted'
  BY CommandsKept DEF commandVars
<1>2. TypeOK'
  <2>1. {reported, stopLoop, work, ioStopped}' \subseteq BOOLEAN
    BY DEF IInv, TypeOK
  <2> QED BY <2>1 DEF IInv, TypeOK
<1>3. Wire' /\ Threads' /\ MainInv' /\ DumpMissesFew'
  BY DEF IInv, Wire, Threads, Running, MainInv, DumpMissesFew
<1> QED BY <1>1, <1>2, <1>3 DEF IInv

LEMMA ConnectOK == ASSUME IInv, NEW t \in Tasks, Connect(t) PROVE IInv'
<1> USE DEF Connect, ClientStep, serverVars, taskVars, outputVars
<1>1. BusyMeansOnePending' /\ ResponsesMatch' /\ OnePlace' /\ Accounted'
  BY CommandsKept DEF commandVars
<1>2. backlog \in Seq(Tasks \cup {Unblock})
  BY DEF IInv, TypeOK
<1>3. backlog' \in Seq(Tasks \cup {Unblock}) /\ Range(backlog') = Range(backlog) \cup {t}
  BY <1>2, RangeAppend
<1>4. client' \in [Tasks -> {"unborn", "reading", "ended"}]
  BY DEF IInv, TypeOK
<1>5. TypeOK'
  BY <1>3, <1>4 DEF IInv, TypeOK
<1>6. Wire'
  BY DEF IInv, TypeOK, Wire
<1>7. MainInv'
  BY <1>3, CommandDispatchAssumption DEF IInv, MainInv
<1>8. Threads' /\ DumpMissesFew'
  BY DEF IInv, Threads, Running, DumpMissesFew
<1> QED BY <1>1, <1>5, <1>6, <1>7, <1>8 DEF IInv

\* A client that ends or dies takes its socket along, not the commands.
LEMMA ClientGoneOK ==
    ASSUME IInv, NEW t \in Tasks, ClientEnds(t) \/ ClientDies(t) PROVE IInv'
<1> USE DEF ClientEnds, ClientDies, ClientStep, serverVars, taskVars, outputVars
<1>1. BusyMeansOnePending' /\ ResponsesMatch' /\ OnePlace' /\ Accounted'
  BY CommandsKept DEF commandVars
<1>2. client' = [client EXCEPT ![t] = "ended"] /\ client \in [Tasks -> {"unborn", "reading", "ended"}]
  BY DEF IInv, TypeOK
<1>3. TypeOK'
  BY <1>2 DEF IInv, TypeOK
<1>4. Wire'
  BY <1>2 DEF IInv, Wire
<1>5. Threads' /\ MainInv' /\ DumpMissesFew'
  BY DEF IInv, Threads, Running, MainInv, DumpMissesFew
<1> QED BY <1>1, <1>3, <1>4, <1>5 DEF IInv
-----------------------------------------------------------------------------
(* What moves a command *)

\* A step that changes the operations of t only.
OnlyTask(t) ==
    \A u \in Tasks \ {t} :
        busy'[u] = busy[u] /\ writes'[u] = writes[u] /\ reads'[u] = reads[u]

\* The commands pending in the other tasks.
Others(t) == UNION {Pending(u) : u \in Tasks \ {t}}

LEMMA Moves ==
    ASSUME OnePlace, NEW t \in Tasks, OnlyTask(t), Pending(t)' \cap Others(t) = {}
    PROVE /\ InTasks = Others(t) \cup Pending(t) /\ Others(t) \cap Pending(t) = {}
          /\ InTasks' = Others(t) \cup Pending(t)'
          /\ \A u, v \in Tasks : u # v => Pending(u)' \cap Pending(v)' = {}
<1>1. \A u \in Tasks \ {t} : Pending(u)' = Pending(u)
  BY DEF OnlyTask, Pending
<1>2. InTasks = Others(t) \cup Pending(t)
  BY DEF InTasks, Others
<1>3. Others(t) \cap Pending(t) = {}
  BY DEF OnePlace, Others
<1>4. InTasks' = Others(t) \cup Pending(t)'
  BY <1>1 DEF InTasks, Others
<1>5. \A u \in Tasks \ {t} : Pending(t)' \cap Pending(u) = {}
  BY DEF Others
<1>6. ASSUME NEW u \in Tasks, NEW v \in Tasks, u # v PROVE Pending(u)' \cap Pending(v)' = {}
  <2>1. CASE u = t
    BY <1>1, <1>5, <1>6, <2>1
  <2>2. CASE v = t
    BY <1>1, <1>5, <1>6, <2>2
  <2>3. CASE u # t /\ v # t
    BY <1>1, <1>6, <2>3 DEF OnePlace
  <2> QED BY <2>1, <2>2, <2>3
<1> QED BY <1>2, <1>3, <1>4, <1>6

\* The command leaves the task, or stays.
LEMMA MovesOut ==
    ASSUME OnePlace, NEW t \in Tasks, OnlyTask(t), Pending(t)' \subseteq Pending(t)
    PROVE Pending(t)' \cap Others(t) = {}
<1>1. Others(t) \cap Pending(t) = {}
  BY DEF OnePlace, Others
<1> QED BY <1>1

LEMMA BusyMoves ==
    ASSUME BusyMeansOnePending, NEW t \in Tasks, OnlyTask(t),
           \/ busy'[t] /\ Len(writes'[t]) + Len(reads'[t]) = 1
           \/ ~busy'[t] /\ Len(writes'[t]) + Len(reads'[t]) = 0
    PROVE BusyMeansOnePending'
<1> SUFFICES ASSUME NEW u \in Tasks
             PROVE Len(writes'[u]) + Len(reads'[u]) = IF busy'[u] THEN 1 ELSE 0
  BY DEF BusyMeansOnePending
<1>1. CASE u = t
  BY <1>1
<1>2. CASE u # t
  BY <1>2 DEF BusyMeansOnePending, OnlyTask
<1> QED BY <1>1, <1>2

LEMMA RequestsAdd ==
    ASSUME NEW rs, NEW r
    PROVE Requests(rs \cup {r}) = Requests(rs) \cup {r.request}
BY DEF Requests

\* The command goes from the pending write to the pending read of its task.
LEMMA HandleWriteOK ==
    ASSUME IInv, NEW t \in Tasks, HandleWrite(t) PROVE IInv' /\ Flying' = Flying
<1> DEFINE c == Head(writes[t])
<1> USE DEF HandleWrite, Written, TaskStep, serverVars, ioVars
<1>1. /\ busy[t] /\ reads[t] = <<>> /\ Tail(writes[t]) = <<>>
      /\ c \in Commands /\ Pending(t) = {c}
  BY Shape DEF IInv
<1>2. /\ busy \in [Tasks -> BOOLEAN] /\ writes \in [Tasks -> Seq(Commands)]
      /\ reads \in [Tasks -> Seq(Commands)] /\ toClient \in [Tasks -> Seq(Commands)]
      /\ toServer \in [Tasks -> Seq(Commands)]
  BY DEF IInv, TypeOK
<1>3. /\ busy' = busy /\ writes' = [writes EXCEPT ![t] = <<>>]
      /\ reads' = [reads EXCEPT ![t] = <<c>>]
      /\ toClient' = [toClient EXCEPT ![t] = Append(@, c)] /\ toServer' = toServer
  <2>1. busy' = busy
    BY <1>2, Zenon
  <2>2. Append(reads[t], c) = <<c>>
    BY <1>1
  <2> QED BY <2>1, <2>2, <1>1
<1> HIDE DEF c
<1>4. OnlyTask(t)
  BY <1>2, <1>3 DEF OnlyTask
<1>5. TypeOK'
  <2>1. writes' \in [Tasks -> Seq(Commands)] /\ reads' \in [Tasks -> Seq(Commands)]
    BY <1>1, <1>2, <1>3
  <2>2. toClient' \in [Tasks -> Seq(Commands)]
    BY <1>1, <1>2, <1>3
  <2>3. lost' = lost /\ adding' = adding
    OBVIOUS
  <2> QED BY <1>2, <1>3, <2>1, <2>2, <2>3 DEF IInv, TypeOK
<1>6. writes'[t] = <<>> /\ reads'[t] = <<c>> /\ busy'[t]
  BY <1>1, <1>2, <1>3
<1>7. BusyMeansOnePending'
  <2>1. Len(<<>>) + Len(<<c>>) = 1
    OBVIOUS
  <2> QED BY ONLY IInv, t \in Tasks, <1>4, <1>6, <2>1, BusyMoves DEF IInv
<1>8. Pending(t)' = Pending(t)
  BY <1>1, <1>6, Ranges DEF Pending
<1>9. /\ InTasks' = InTasks
      /\ \A u, v \in Tasks : u # v => Pending(u)' \cap Pending(v)' = {}
  BY <1>4, <1>8, Moves, MovesOut DEF IInv
<1>10. OnePlace' /\ Accounted' /\ ResponsesMatch'
  BY <1>9 DEF IInv, OnePlace, Accounted, ResponsesMatch, Requests, Taken
<1>11. Wire'
  <2>1. toServer[t] = <<>>
    BY <1>1 DEF IInv, Wire
  <2>2. client[t] # "ended" => toClient[t] = <<>>
    BY <1>1 DEF IInv, Wire
  <2>3. client[t] # "ended" => toClient'[t] = <<c>>
    <3>1. toClient'[t] = Append(toClient[t], c) /\ Append(<<>>, c) = <<c>>
      BY <1>2, <1>3
    <3> QED BY <3>1, <2>2
  <2>4. \A u \in Tasks \ {t} : toClient'[u] = toClient[u]
    BY <1>2, <1>3
  <2>5. ASSUME NEW u \in Tasks
        PROVE /\ toServer'[u] # <<>> => toServer'[u] = reads'[u]
              /\ client[u] # "ended" /\ toClient'[u] # <<>> =>
                   toClient'[u] = reads'[u] /\ toServer'[u] = <<>>
    <3>1. CASE u = t
      BY ONLY <1>3, <1>6, <2>1, <2>3, <3>1
    <3>2. CASE u # t
      BY ONLY IInv, u \in Tasks, <1>3, <1>4, <2>4, <3>2 DEF IInv, Wire, OnlyTask
    <3> QED BY ONLY <3>1, <3>2
  <2> QED BY <2>5 DEF Wire
<1>12. Threads' /\ MainInv' /\ DumpMissesFew'
  BY <1>3 DEF IInv, Threads, Running, MainInv, DumpMissesFew
<1>13. Flying' = Flying
  BY <1>9 DEF Flying, Requests
<1> QED BY <1>5, <1>7, <1>10, <1>11, <1>12, <1>13 DEF IInv

\* The write or the read failed: the command is lost, the task is free.
LEMMA CommandLostOK ==
    ASSUME IInv, NEW t \in Tasks, HandleWriteError(t) \/ HandleReadError(t)
    PROVE /\ IInv'
          /\ \E c \in Commands : c \in Flying /\ Flying' = Flying \ {c} /\ lost' = lost \cup {c}
<1>1. PICK c \in Commands :
        /\ busy[t] /\ Pending(t) = {c}
        /\ busy' = [busy EXCEPT ![t] = FALSE]
        /\ writes' = [writes EXCEPT ![t] = <<>>] /\ reads' = [reads EXCEPT ![t] = <<>>]
        /\ lost' = lost \cup {c}
        /\ toServer' = toServer \/ toServer' = [toServer EXCEPT ![t] = <<>>]
        /\ client[t] = "ended" /\ (toServer[t] = <<>> \/ toServer'[t] = <<>>)
  <2>0. /\ writes \in [Tasks -> Seq(Commands)] /\ reads \in [Tasks -> Seq(Commands)]
        /\ toServer \in [Tasks -> Seq(Commands)]
    BY DEF IInv, TypeOK
  <2>1. CASE HandleWriteError(t)
    <3>1. /\ busy[t] /\ reads[t] = <<>> /\ Tail(writes[t]) = <<>>
          /\ Head(writes[t]) \in Commands /\ Pending(t) = {Head(writes[t])}
      BY <2>1, Shape DEF IInv, HandleWriteError, NotWritten
    <3>2. reads' = [reads EXCEPT ![t] = <<>>]
      BY <2>0, <2>1, <3>1 DEF HandleWriteError, NotWritten
    <3>3. toServer[t] = <<>>
      BY <3>1 DEF IInv, Wire
    <3> QED BY <2>1, <3>1, <3>2, <3>3 DEF HandleWriteError, NotWritten
  <2>2. CASE HandleReadError(t)
    <3>1. /\ busy[t] /\ writes[t] = <<>> /\ Tail(reads[t]) = <<>>
          /\ Head(reads[t]) \in Commands /\ Pending(t) = {Head(reads[t])}
      BY <2>2, Shape DEF IInv, HandleReadError
    <3>2. writes' = [writes EXCEPT ![t] = <<>>]
      BY <2>0, <2>2, <3>1 DEF HandleReadError
    <3>3. toServer'[t] = <<>>
      BY <2>0, <2>2 DEF HandleReadError
    <3> QED BY <2>2, <3>1, <3>2, <3>3 DEF HandleReadError
  <2> QED BY <2>1, <2>2
<1>2. /\ busy \in [Tasks -> BOOLEAN] /\ writes \in [Tasks -> Seq(Commands)]
      /\ reads \in [Tasks -> Seq(Commands)] /\ toClient \in [Tasks -> Seq(Commands)]
      /\ toServer \in [Tasks -> Seq(Commands)]
  BY DEF IInv, TypeOK
<1>3. /\ TaskStep /\ UNCHANGED <<adding, toClient>> /\ client[t] = "ended"
  BY DEF HandleWriteError, NotWritten, HandleReadError
<1>4. OnlyTask(t)
  BY <1>1, <1>2 DEF OnlyTask
<1>5. TypeOK'
  <2>1. writes' \in [Tasks -> Seq(Commands)] /\ reads' \in [Tasks -> Seq(Commands)]
    BY <1>1, <1>2
  <2>2. toServer' \in [Tasks -> Seq(Commands)]
    <3>1. <<>> \in Seq(Commands)
      OBVIOUS
    <3>2. toServer' = toServer \/ toServer' = [toServer EXCEPT ![t] = <<>>]
      BY <1>1
    <3> QED BY ONLY <3>1, <3>2, <1>2
  <2>3. busy' \in [Tasks -> BOOLEAN]
    BY <1>1, <1>2
  <2> QED BY <1>1, <1>3, <2>1, <2>2, <2>3 DEF IInv, TypeOK, TaskStep, serverVars, ioVars
<1>6. writes'[t] = <<>> /\ reads'[t] = <<>> /\ ~busy'[t]
  BY <1>1, <1>2
<1>7. BusyMeansOnePending'
  <2>1. Len(writes'[t]) + Len(reads'[t]) = 0
    BY ONLY <1>6
  <2> QED BY ONLY IInv, t \in Tasks, <1>4, <1>6, <2>1, BusyMoves DEF IInv
<1>8. Pending(t)' = {}
  BY <1>6, Ranges DEF Pending
<1>9. /\ InTasks = InTasks' \cup {c} /\ c \notin InTasks'
      /\ \A u, v \in Tasks : u # v => Pending(u)' \cap Pending(v)' = {}
  BY <1>1, <1>4, <1>8, Moves DEF IInv
<1>10. OnePlace' /\ Accounted' /\ ResponsesMatch'
  BY <1>1, <1>3, <1>9
     DEF IInv, OnePlace, Accounted, ResponsesMatch, Requests, Taken, TaskStep, serverVars
<1>11. Wire'
  <2>1. toServer'[t] = <<>>
    BY <1>1, <1>2
  <2>2. \A u \in Tasks \ {t} : toServer'[u] = toServer[u]
    BY <1>1, <1>2
  <2> QED BY <1>3, <1>4, <2>1, <2>2 DEF IInv, Wire, OnlyTask, TaskStep
<1>12. Threads' /\ MainInv'
  <2>1. \A u \in Tasks : busy'[u] => busy[u]
    BY <1>4, <1>6 DEF OnlyTask
  <2> QED BY <1>3, <2>1 DEF IInv, Threads, Running, MainInv, TaskStep, serverVars, ioVars
<1>13. DumpMissesFew'
  <2>1. pull \in Seq(Tasks) /\ Len(pull) \in Nat
    BY DEF IInv, TypeOK
  <2>2. pull' \in Seq(Tasks) /\ Len(pull') >= Len(pull)
    BY <1>3, <2>1 DEF TaskStep, serverVars
  <2> QED BY <1>1, <1>3, <2>2, DumpKept DEF IInv, TypeOK, TaskStep
<1>14. c \in Flying /\ Flying' = Flying \ {c}
  <2>1. Requests(adding)' = Requests(adding)
    BY <1>3 DEF Requests
  <2> QED BY <1>9, <2>1 DEF Flying, IInv, OnePlace
<1>15. IInv'
  BY <1>5, <1>7, <1>10, <1>11, <1>12, <1>13 DEF IInv
<1> QED BY <1>1, <1>14, <1>15
\* The answer is the one of the pending read: the Result is right, and the
\* task is free while its handler still runs.
LEMMA HandleReadOK ==
    ASSUME IInv, NEW t \in Tasks, HandleRead(t) PROVE IInv' /\ Flying' = Flying
<1> DEFINE c == Head(reads[t])
           r == [task |-> t, request |-> c, response |-> c]
<1>1. /\ busy[t] /\ writes[t] = <<>> /\ Tail(reads[t]) = <<>> /\ reads[t] = <<c>>
      /\ c \in Commands /\ Pending(t) = {c}
  BY Shape DEF IInv, HandleRead
<1>2. /\ busy \in [Tasks -> BOOLEAN] /\ writes \in [Tasks -> Seq(Commands)]
      /\ reads \in [Tasks -> Seq(Commands)] /\ toServer \in [Tasks -> Seq(Commands)]
  BY DEF IInv, TypeOK
<1>3. toServer[t] = reads[t]
  BY DEF IInv, Wire, HandleRead
<1>4. /\ busy' = [busy EXCEPT ![t] = FALSE] /\ writes' = writes
      /\ reads' = [reads EXCEPT ![t] = <<>>] /\ toServer' = [toServer EXCEPT ![t] = <<>>]
      /\ adding' = adding \cup {r}
  BY <1>1, <1>3 DEF HandleRead
<1>5. TaskStep /\ UNCHANGED <<toClient, lost>>
  BY DEF HandleRead
<1>6. r \in Result /\ r.request = c /\ r.response = c
  BY <1>1 DEF Result
<1> HIDE DEF c, r
<1>7. OnlyTask(t)
  BY <1>2, <1>4 DEF OnlyTask
<1>8. TypeOK'
  <2>1. reads' \in [Tasks -> Seq(Commands)] /\ toServer' \in [Tasks -> Seq(Commands)]
    BY <1>2, <1>4
  <2>2. busy' \in [Tasks -> BOOLEAN]
    BY <1>2, <1>4
  <2> QED BY <1>4, <1>5, <1>6, <2>1, <2>2 DEF IInv, TypeOK, TaskStep, serverVars, ioVars
<1>9. writes'[t] = <<>> /\ reads'[t] = <<>> /\ ~busy'[t] /\ toServer'[t] = <<>>
  BY <1>1, <1>2, <1>4
<1>10. BusyMeansOnePending'
  <2>1. Len(writes'[t]) + Len(reads'[t]) = 0
    BY ONLY <1>9
  <2> QED BY ONLY IInv, t \in Tasks, <1>7, <1>9, <2>1, BusyMoves DEF IInv
<1>11. Pending(t)' = {}
  BY <1>9, Ranges DEF Pending
<1>12. /\ InTasks = InTasks' \cup {c} /\ c \notin InTasks'
       /\ \A u, v \in Tasks : u # v => Pending(u)' \cap Pending(v)' = {}
  BY <1>1, <1>7, <1>11, Moves DEF IInv
<1>13. Requests(adding') = Requests(adding) \cup {c} /\ c \notin Requests(adding)
  <2>1. Requests(adding') = Requests(adding) \cup {c}
    BY <1>4, <1>6, RequestsAdd
  <2> QED BY <2>1, <1>12 DEF IInv, OnePlace
<1>14. OnePlace'
  <2>1. InTasks' \cap Requests(adding') = {}
    BY <1>12, <1>13 DEF IInv, OnePlace
  <2>2. ASSUME NEW p \in adding', NEW q \in adding', p.request = q.request PROVE p = q
    <3>1. \A x \in adding : x.request \in Requests(adding)
      BY DEF Requests
    <3> QED BY <1>4, <1>6, <1>13, <2>2, <3>1 DEF IInv, OnePlace
  <2> QED BY <1>12, <2>1, <2>2 DEF OnePlace, Requests
<1>15. Accounted'
  BY <1>5, <1>12, <1>13 DEF IInv, Accounted, Requests, Taken, TaskStep, serverVars
<1>16. ResponsesMatch'
  BY <1>4, <1>5, <1>6 DEF IInv, ResponsesMatch, TaskStep
<1>17. Wire'
  <2>1. \A u \in Tasks \ {t} : toServer'[u] = toServer[u]
    BY <1>2, <1>4
  <2>2. client[t] # "ended" => toClient[t] = <<>>
    BY <1>1, <1>3 DEF IInv, Wire, HandleRead
  <2> QED BY <1>5, <1>7, <1>9, <2>1, <2>2 DEF IInv, Wire, OnlyTask, TaskStep
<1>18. Threads'
  <2>1. \A u \in Tasks : busy'[u] => busy[u]
    BY <1>7, <1>9 DEF OnlyTask
  <2>2. IsFiniteSet(adding') /\ Cardinality(adding') <= Cardinality(adding) + 1
        /\ Cardinality(adding) \in Nat /\ Cardinality(adding') \in Nat
    <3>1. IsFiniteSet(adding)
      BY DEF IInv, Threads
    <3>2. /\ IsFiniteSet(adding \cup {r})
          /\ Cardinality(adding \cup {r}) = IF r \in adding THEN Cardinality(adding)
                                             ELSE Cardinality(adding) + 1
      BY <3>1, FS_AddElement
    <3>3. Cardinality(adding) \in Nat
      BY <3>1, FS_CardinalityType
    <3> QED BY <1>4, <3>2, <3>3
  <2>3. Running < IoThreads /\ visit' = visit
    BY <1>5 DEF TaskStep, IoThreadFree, serverVars
  <2>4. Running' <= IoThreads
    BY <2>2, <2>3, CommandDispatchAssumption DEF Running
  <2> QED BY <1>5, <2>1, <2>2, <2>4 DEF IInv, Threads, TaskStep, serverVars
<1>19. MainInv' /\ DumpMissesFew'
  BY <1>5 DEF IInv, MainInv, DumpMissesFew, TaskStep, serverVars, ioVars
<1>20. Flying' = Flying
  BY <1>12, <1>13 DEF Flying, Requests
<1> QED BY <1>8, <1>10, <1>14, <1>15, <1>16, <1>17, <1>18, <1>19, <1>20 DEF IInv

LEMMA AddResultOK ==
    ASSUME IInv, NEW r \in adding, AddResult(r)
    PROVE /\ IInv'
          /\ r.request \in Flying /\ Flying' = Flying \ {r.request}
          /\ Requests(results)' = Requests(results) \cup {r.request}
<1> USE DEF AddResult
<1>1. UNCHANGED <<iteration, busy, writes, reads, lost, reported, dumped, main, pull, visit>>
  BY DEF serverVars
<1>2. TypeOK'
  <2>1. adding' \subseteq Result /\ results' \subseteq Result
    BY DEF IInv, TypeOK
  <2> QED BY <2>1 DEF IInv, TypeOK, serverVars, ioVars
<1>3. BusyMeansOnePending' /\ ResponsesMatch' /\ Wire'
  BY DEF IInv, BusyMeansOnePending, ResponsesMatch, Wire
<1>4. InTasks' = InTasks /\ Taken' = Taken /\ \A t \in Tasks : Pending(t)' = Pending(t)
  BY <1>1 DEF InTasks, Pending, Taken
<1>5. /\ Requests(adding) = Requests(adding') \cup {r.request}
      /\ Requests(results') = Requests(results) \cup {r.request}
  BY DEF Requests
<1>6. OnePlace'
  <2>1. InTasks' \cap Requests(adding') = {}
    BY <1>4, <1>5 DEF IInv, OnePlace
  <2>2. \A p, q \in adding' : p.request = q.request => p = q
    BY DEF IInv, OnePlace
  <2>3. \A t, u \in Tasks : t # u => Pending(t)' \cap Pending(u)' = {}
    BY <1>4 DEF IInv, OnePlace
  <2> QED BY <2>1, <2>2, <2>3 DEF OnePlace, Requests
<1>7. Accounted'
  BY <1>1, <1>4, <1>5 DEF IInv, Accounted, Requests
<1>8. Threads'
  <2>1. IsFiniteSet(adding') /\ Cardinality(adding') <= Cardinality(adding)
        /\ Cardinality(adding) \in Nat /\ Cardinality(adding') \in Nat
    BY FS_Subset, FS_CardinalityType DEF IInv, Threads
  <2>2. IsFiniteSet(results')
    BY FS_AddElement DEF IInv, Threads
  <2>3. Running' <= IoThreads
    BY <1>1, <2>1, CommandDispatchAssumption DEF IInv, Threads, Running
  <2> QED BY <1>1, <2>1, <2>2, <2>3 DEF IInv, Threads
<1>9. MainInv' /\ DumpMissesFew'
  BY <1>1 DEF IInv, MainInv, DumpMissesFew, ioVars
<1>10. r.request \notin Requests(adding') /\ r.request \notin InTasks
  BY <1>5 DEF IInv, OnePlace, Requests
<1>11. r.request \in Flying /\ Flying' = Flying \ {r.request}
  BY <1>4, <1>5, <1>10 DEF Flying, Requests
<1>12. Requests(results)' = Requests(results) \cup {r.request}
  BY <1>5 DEF Requests
<1> QED BY <1>2, <1>3, <1>6, <1>7, <1>8, <1>9, <1>11, <1>12 DEF IInv

\* A living client has one command in its buffer and answers that one.
LEMMA ClientHandleReadOK == ASSUME IInv, NEW t \in Tasks, ClientHandleRead(t) PROVE IInv'
<1>0. UNCHANGED <<main, serverVars, taskVars, outputVars, ioVars, client>>
  BY DEF ClientHandleRead, ClientStep, ioVars
<1>1. BusyMeansOnePending' /\ ResponsesMatch' /\ OnePlace' /\ Accounted'
  BY <1>0, CommandsKept DEF commandVars, serverVars, taskVars, outputVars
<1>2. toClient[t] = reads[t] /\ toServer[t] = <<>> /\ reads[t] # <<>>
  BY DEF IInv, Wire, ClientHandleRead
<1>3. reads[t] = <<Head(reads[t])>> /\ Head(reads[t]) \in Commands
  BY <1>2, Shape DEF IInv
<1>4. toClient \in [Tasks -> Seq(Commands)] /\ toServer \in [Tasks -> Seq(Commands)]
  BY DEF IInv, TypeOK
<1>5. toServer' = [toServer EXCEPT ![t] = reads[t]] /\ toClient' = [toClient EXCEPT ![t] = <<>>]
  <2>1. Append(toServer[t], Head(toClient[t])) = reads[t]
    BY <1>2, <1>3
  <2> QED BY <2>1 DEF ClientHandleRead, FromStream
<1>6. toClient' \in [Tasks -> Seq(Commands)] /\ toServer' \in [Tasks -> Seq(Commands)]
  <2>1. reads[t] \in Seq(Commands) /\ <<>> \in Seq(Commands)
    BY DEF IInv, TypeOK
  <2> QED BY <1>4, <1>5, <2>1
<1>7. TypeOK'
  BY <1>0, <1>6 DEF IInv, TypeOK, serverVars, taskVars, outputVars, ioVars
<1>8. Wire'
  BY <1>0, <1>4, <1>5 DEF IInv, Wire, taskVars
<1>9. Threads' /\ MainInv' /\ DumpMissesFew'
  BY <1>0 DEF IInv, Threads, Running, MainInv, DumpMissesFew, serverVars, taskVars, outputVars, ioVars
<1> QED BY <1>1, <1>7, <1>8, <1>9 DEF IInv
\* A task is visited under m_pullLocker; an idle one takes a command nobody has.
LEMMA VisitTaskOK ==
    ASSUME IInv, VisitTask
    PROVE /\ IInv'
          /\ \/ HasCommands /\ iteration' = iteration - 1 /\ Flying' = Flying \cup {NextCommand}
             \/ UNCHANGED <<iteration, writes>> /\ Flying' = Flying
<1> DEFINE c == NextCommand
<1>1. pull \in Seq(Tasks) /\ Len(pull) \in Nat /\ visit \in 1 .. Len(pull)
  BY DEF IInv, TypeOK, VisitTask, VisitWhen
<1>2. PICK t \in Tasks : t = pull[visit] /\ t \in Range(pull)
  BY <1>1 DEF Range
<1>3. UNCHANGED <<main, posted, pull, reads, adding, toClient, toServer, outputVars, ioVars, client>>
  BY DEF VisitTask, VisitWhen
<1>4. visit' = visit + 1 /\ visit' \in 0 .. (Len(pull') + 1)
  BY <1>1, <1>3 DEF VisitTask, VisitWhen
<1>5. Running' = Running
  BY <1>1, <1>3, <1>4 DEF Running
<1>6. Wire' /\ DumpMissesFew'
  BY <1>3 DEF IInv, Wire, DumpMissesFew, outputVars
<1>7. ResponsesMatch'
  BY <1>3 DEF IInv, ResponsesMatch, outputVars
<1>8. CASE ~(~busy[t] /\ HasCommands)
  <2>1. UNCHANGED <<iteration, busy, writes>>
    BY <1>2, <1>8 DEF VisitTask, VisitWhen
  <2>2. BusyMeansOnePending' /\ OnePlace' /\ Accounted'
    BY <1>3, <2>1, CommandsKept DEF commandVars, outputVars
  <2>3. TypeOK'
    BY <1>3, <1>4, <2>1 DEF IInv, TypeOK, outputVars, ioVars
  <2>4. Threads' /\ MainInv'
    BY <1>3, <1>5, <2>1 DEF IInv, Threads, MainInv, outputVars, ioVars
  <2>5. Flying' = Flying
    BY <1>3, <2>1 DEF Flying, InTasks, Pending, Requests
  <2> QED BY <1>6, <1>7, <2>1, <2>2, <2>3, <2>4, <2>5 DEF IInv
<1>9. CASE ~busy[t] /\ HasCommands
  <2>1. iteration \in 1 .. M /\ iteration' = iteration - 1 /\ M \in Nat
    BY <1>2, <1>9, CommandDispatchAssumption DEF IInv, TypeOK, HasCommands, VisitTask, VisitWhen
  <2>2. c \in Commands /\ c \notin Taken /\ Taken' = Taken \cup {c} /\ iteration' \in 0 .. M
    BY <2>1 DEF NextCommand, Commands, Taken
  <2>3. /\ busy \in [Tasks -> BOOLEAN] /\ writes \in [Tasks -> Seq(Commands)]
        /\ reads \in [Tasks -> Seq(Commands)]
    BY DEF IInv, TypeOK
  <2>4. writes[t] = <<>> /\ reads[t] = <<>> /\ Pending(t) = {}
    BY <1>2, <1>9, Shape DEF IInv
  <2>5. busy' = [busy EXCEPT ![t] = TRUE] /\ writes' = [writes EXCEPT ![t] = Append(@, c)]
    BY <1>2, <1>9 DEF VisitTask, VisitWhen, SendCommad
  <2> HIDE DEF c
  <2>6. OnlyTask(t)
    BY <1>3, <2>3, <2>5 DEF OnlyTask
  <2>7. writes'[t] = <<c>> /\ reads'[t] = <<>> /\ busy'[t]
    <3>1. writes'[t] = Append(writes[t], c) /\ Append(<<>>, c) = <<c>>
      BY <1>2, <2>3, <2>5
    <3>2. busy'[t]
      BY <1>2, <2>3, <2>5
    <3> QED BY <1>3, <2>4, <3>1, <3>2
  <2>8. TypeOK'
    <3>1. busy' \in [Tasks -> BOOLEAN]
      BY <2>3, <2>5
    <3>2. writes' \in [Tasks -> Seq(Commands)]
      <4>1. Append(writes[t], c) \in Seq(Commands)
        BY <2>2, <2>3
      <4> QED BY <2>3, <2>5, <4>1
    <3>3. {writes, reads, toClient, toServer}' \subseteq [Tasks -> Seq(Commands)]
      BY <1>3, <3>2 DEF IInv, TypeOK
    <3> QED BY <1>3, <1>4, <2>2, <3>1, <3>3 DEF IInv, TypeOK, outputVars, ioVars
  <2>9. BusyMeansOnePending'
    <3>1. Len(writes'[t]) + Len(reads'[t]) = 1
      BY ONLY <2>7
    <3> QED BY ONLY IInv, t \in Tasks, <2>6, <2>7, <3>1, BusyMoves DEF IInv
  <2>10. Pending(t)' = {c}
    BY <2>7, Ranges DEF Pending
  <2>11. c \notin InTasks /\ c \notin Requests(adding)
    BY <2>2 DEF IInv, Accounted
  <2>12. Pending(t)' \cap Others(t) = {}
    BY <2>10, <2>11 DEF Others, InTasks
  <2>13. /\ InTasks' = InTasks \cup {c}
         /\ \A u, v \in Tasks : u # v => Pending(u)' \cap Pending(v)' = {}
    BY <1>2, <2>4, <2>6, <2>10, <2>12, Moves DEF IInv
  <2>14. OnePlace' /\ Accounted'
    BY <1>3, <2>2, <2>11, <2>13 DEF IInv, OnePlace, Accounted, Requests, outputVars
  <2>15. Threads'
    <3>1. \A u \in Tasks : busy'[u] => busy[u] \/ u = t
      BY <2>6 DEF OnlyTask
    <3> QED BY <1>2, <1>3, <1>5, <3>1 DEF IInv, Threads, outputVars
  <2>16. MainInv'
    BY <1>3, <2>1 DEF IInv, MainInv, outputVars, ioVars
  <2>17. Flying' = Flying \cup {NextCommand}
    BY <1>3, <2>13 DEF Flying, Requests, c
  <2> QED BY <1>6, <1>7, <1>9, <2>1, <2>8, <2>9, <2>14, <2>15, <2>16, <2>17 DEF IInv
<1> QED BY <1>8, <1>9

-----------------------------------------------------------------------------
(* What Dump may miss *)

LEMMA RequestsFew ==
    ASSUME NEW rs, IsFiniteSet(rs)
    PROVE IsFiniteSet(Requests(rs)) /\ Cardinality(Requests(rs)) <= Cardinality(rs)
<1> DEFINE f == [r \in rs |-> r.request]
<1>1. f \in Surjection(rs, Requests(rs))
  BY DEF Surjection, Requests
<1> QED BY <1>1, FS_Surjection

\* One command for every task of the pull.
LEMMA InTasksFew ==
    ASSUME IInv
    PROVE IsFiniteSet(InTasks) /\ Cardinality(InTasks) <= Len(pull)
<1> DEFINE D == {i \in 1 .. Len(pull) : busy[pull[i]]}
           Command(t) == IF writes[t] # <<>> THEN Head(writes[t]) ELSE Head(reads[t])
           f == [i \in D |-> Command(pull[i])]
<1>1. pull \in Seq(Tasks) /\ Len(pull) \in Nat /\ \A i \in 1 .. Len(pull) : pull[i] \in Tasks
  BY DEF IInv, TypeOK
<1>2. \A t \in Tasks : busy[t] => Pending(t) = {Command(t)}
  BY Shape DEF IInv
<1>3. \A t \in Tasks : ~busy[t] => Pending(t) = {}
  BY Shape DEF IInv
<1>4. \A t \in Tasks : busy[t] => \E i \in D : pull[i] = t
  BY <1>1 DEF IInv, Threads, Range
<1> HIDE DEF Command
<1>5. f \in Surjection(D, InTasks)
  <2>1. \A i \in D : f[i] \in InTasks
    BY <1>1, <1>2 DEF InTasks
  <2>2. \A c \in InTasks : \E i \in D : f[i] = c
    BY <1>2, <1>3, <1>4 DEF InTasks
  <2> QED BY <2>1, <2>2 DEF Surjection
<1>6. IsFiniteSet(1 .. Len(pull)) /\ Cardinality(1 .. Len(pull)) = Len(pull)
  <2>1. 1 \in Int /\ Len(pull) \in Int
    BY <1>1
  <2>2. IsFiniteSet(1 .. Len(pull)) /\ Cardinality(1 .. Len(pull)) = IF 1 > Len(pull) THEN 0 ELSE Len(pull) - 1 + 1
    BY <2>1, FS_Interval
  <2> QED BY <1>1, <2>2
<1>7. IsFiniteSet(D) /\ Cardinality(D) <= Len(pull)
  BY <1>6, FS_Subset
<1>8. IsFiniteSet(InTasks) /\ Cardinality(InTasks) <= Cardinality(D)
  BY <1>5, <1>7, FS_Surjection
<1>9. Cardinality(InTasks) \in Nat /\ Cardinality(D) \in Nat
  BY <1>7, <1>8, FS_CardinalityType
<1> QED BY <1>1, <1>7, <1>8, <1>9

LEMMA UnionFew ==
    ASSUME NEW S, NEW T, IsFiniteSet(S), IsFiniteSet(T)
    PROVE /\ IsFiniteSet(S \cup T) /\ Cardinality(S) \in Nat /\ Cardinality(T) \in Nat
          /\ Cardinality(S \cup T) \in Nat /\ Cardinality(S \cup T) <= Cardinality(S) + Cardinality(T)
<1>1. IsFiniteSet(S \cup T) /\ IsFiniteSet(S \cap T)
  BY FS_Union, FS_Subset
<1>2. Cardinality(S \cup T) = Cardinality(S) + Cardinality(T) - Cardinality(S \cap T)
  BY FS_Union
<1>3. Cardinality(S) \in Nat /\ Cardinality(T) \in Nat /\ Cardinality(S \cap T) \in Nat
      /\ Cardinality(S \cup T) \in Nat
  BY <1>1, FS_CardinalityType
<1> QED BY <1>1, <1>2, <1>3

\* All commands are taken: they are counted where they are.
LEMMA DumpOK == IInv /\ Dump => IInv'
<1> SUFFICES ASSUME IInv, Dump PROVE IInv'
  OBVIOUS
<1> USE DEF Dump
<1>0. UNCHANGED <<serverVars, taskVars, toClient, toServer, results, lost, ioVars, client>>
  OBVIOUS
<1>1. BusyMeansOnePending' /\ ResponsesMatch' /\ OnePlace' /\ Accounted'
  BY CommandsKept DEF commandVars, serverVars, taskVars
<1>2. iteration = 0
  BY CommandDispatchAssumption DEF IInv, TypeOK, HasCommands
<1>3. TypeOK'
  <2>1. {reported, stopLoop, work, ioStopped}' \subseteq BOOLEAN
    BY DEF IInv, TypeOK, ioVars
  <2> QED BY <2>1 DEF IInv, TypeOK, serverVars, taskVars, ioVars
<1>4. Wire' /\ Threads' /\ MainInv'
  BY <1>2 DEF IInv, Wire, Threads, Running, MainInv, serverVars, taskVars, ioVars
<1>5. M - Cardinality(results) <= Len(pull) + IoThreads + Cardinality(lost)
  <2>1. Commands = ((InTasks \cup Requests(adding)) \cup Requests(results)) \cup lost
    BY <1>2, CommandDispatchAssumption DEF IInv, Accounted, Taken, Commands
  <2>2. IsFiniteSet(InTasks) /\ Cardinality(InTasks) <= Len(pull) /\ Len(pull) \in Nat
    BY InTasksFew DEF IInv, TypeOK
  <2>3. /\ IsFiniteSet(Requests(adding)) /\ Cardinality(Requests(adding)) <= Cardinality(adding)
        /\ IsFiniteSet(Requests(results)) /\ Cardinality(Requests(results)) <= Cardinality(results)
    BY RequestsFew DEF IInv, Threads
  <2>4. IsFiniteSet(lost)
    BY CommandsFinite, FS_Subset DEF IInv, TypeOK
  <2>5. Cardinality(adding) \in Nat /\ Cardinality(results) \in Nat
    BY FS_CardinalityType DEF IInv, Threads
  <2>6. Cardinality(adding) <= IoThreads
    BY <2>5, CommandDispatchAssumption DEF IInv, Threads, Running
  <2> DEFINE A == InTasks \cup Requests(adding)
             B == A \cup Requests(results)
  <2>7. /\ IsFiniteSet(A) /\ Cardinality(InTasks) \in Nat /\ Cardinality(Requests(adding)) \in Nat
        /\ Cardinality(A) \in Nat
        /\ Cardinality(A) <= Cardinality(InTasks) + Cardinality(Requests(adding))
    BY <2>2, <2>3, UnionFew
  <2>8. /\ IsFiniteSet(B) /\ Cardinality(Requests(results)) \in Nat /\ Cardinality(B) \in Nat
        /\ Cardinality(B) <= Cardinality(A) + Cardinality(Requests(results))
    BY <2>3, <2>7, UnionFew
  <2>9. /\ Cardinality(lost) \in Nat /\ Cardinality(B \cup lost) \in Nat
        /\ Cardinality(B \cup lost) <= Cardinality(B) + Cardinality(lost)
    BY <2>4, <2>8, UnionFew
  <2>10. Cardinality(B \cup lost) = M
    BY <2>1, CommandsFinite
  <2> HIDE DEF A, B
  <2> QED BY <2>2, <2>3, <2>5, <2>6, <2>7, <2>8, <2>9, <2>10, CommandDispatchAssumption
<1>6. DumpMissesFew'
  BY <1>5 DEF DumpMissesFew, serverVars
<1> QED BY <1>1, <1>3, <1>4, <1>6 DEF IInv
-----------------------------------------------------------------------------
(* Theorems *)

LEMMA NextOK == IInv /\ [Next]_vars => IInv'
<1> SUFFICES ASSUME IInv, [Next]_vars PROVE IInv'
  OBVIOUS
<1>1. CASE Post \/ Dump \/ Stop \/ Join
  BY <1>1, PostOK, DumpOK, StopOK, JoinOK
<1>2. CASE Run \/ HandleAccept \/ HandleAcceptError \/ IoStop
  BY <1>2, RunOK, HandleAcceptOK, HandleAcceptErrorOK, IoStopOK
<1>3. CASE Strand
  BY <1>3, BeginVisitOK, VisitTaskOK, EndVisitOK DEF Strand
<1>4. ASSUME NEW t \in Tasks, TaskHandlers(t) PROVE IInv'
  BY <1>4, HandleWriteOK, CommandLostOK, HandleReadOK DEF TaskHandlers
<1>5. ASSUME NEW t \in Tasks, Connect(t) \/ ClientHandleRead(t) \/ ClientEnds(t) \/ ClientDies(t)
      PROVE IInv'
  BY <1>5, ConnectOK, ClientHandleReadOK, ClientGoneOK
<1>6. ASSUME NEW r \in adding, AddResult(r) PROVE IInv'
  BY <1>6, AddResultOK
<1>7. CASE Ended \/ UNCHANGED vars
  <2>1. UNCHANGED vars
    BY <1>7 DEF Ended
  <2>2. BusyMeansOnePending' /\ ResponsesMatch' /\ OnePlace' /\ Accounted'
    BY <2>1, CommandsKept DEF vars, commandVars, serverVars, taskVars, outputVars
  <2>3. TypeOK'
    BY <2>1 DEF IInv, TypeOK, vars, serverVars, taskVars, outputVars, ioVars
  <2>4. Wire' /\ Threads' /\ MainInv' /\ DumpMissesFew'
    BY <2>1 DEF IInv, Wire, Threads, Running, MainInv, DumpMissesFew, vars, serverVars,
                taskVars, outputVars, ioVars
  <2> QED BY <2>2, <2>3, <2>4 DEF IInv
<1> QED BY <1>1, <1>2, <1>3, <1>4, <1>5, <1>6, <1>7 DEF Next

\* The inductive invariant: a command that was taken is pending in one task,
\* held by one handler, recorded or lost (server.hpp, server_task.hpp).
THEOREM Inductive == Spec => []IInv
BY InitOK, NextOK, PTL DEF Spec

\* m_isBusy says exactly whether an operation is pending, and a Result holds
\* the answer to its own request, however late its handler is and whoever dies
\* (server_task.hpp:51-124).
THEOREM AnswersPaired == Spec => []Consistent
<1>1. IInv => Consistent
  BY DEF IInv, Consistent
<1> QED BY <1>1, Inductive, PTL

\* Dump, which waits for nobody, misses at most one command for each accepted
\* task, one for each thread of the pool and those that broken connections
\* swallowed (server_main_test.hpp:36-42, server_task.hpp:84-124).
THEOREM DumpBounded == Spec => []DumpMissesFew
<1>1. IInv => DumpMissesFew
  BY DEF IInv
<1> QED BY <1>1, Inductive, PTL

-----------------------------------------------------------------------------
(* The ledger *)

\* The room the ledger asks for: a strand that visits uses a thread.
LEMMA RoomForOneMore ==
    ASSUME IInv, visit # 0
    PROVE Cardinality(Flying) < Cardinality(Tasks) + IoThreads
<1> DEFINE D == {t \in Tasks : busy[t]}
           Command(t) == IF writes[t] # <<>> THEN Head(writes[t]) ELSE Head(reads[t])
           f == [t \in D |-> Command(t)]
<1>1. \A t \in Tasks : busy[t] => Pending(t) = {Command(t)}
  BY Shape DEF IInv
<1>2. \A t \in Tasks : ~busy[t] => Pending(t) = {}
  BY Shape DEF IInv
<1> HIDE DEF Command
<1>3. f \in Surjection(D, InTasks)
  <2>1. \A t \in D : f[t] \in InTasks
    BY <1>1 DEF InTasks
  <2>2. \A c \in InTasks : \E t \in D : f[t] = c
    BY <1>1, <1>2 DEF InTasks
  <2> QED BY <2>1, <2>2 DEF Surjection
<1>4. IsFiniteSet(D) /\ Cardinality(D) <= Cardinality(Tasks)
  BY CommandDispatchAssumption, FS_Subset
<1>5. IsFiniteSet(InTasks) /\ Cardinality(InTasks) <= Cardinality(D)
  BY <1>3, <1>4, FS_Surjection
<1>6. /\ Cardinality(InTasks) \in Nat /\ Cardinality(D) \in Nat /\ Cardinality(Tasks) \in Nat
      /\ Cardinality(adding) \in Nat
  BY <1>4, <1>5, CommandDispatchAssumption, FS_CardinalityType DEF IInv, Threads
<1>7. IsFiniteSet(Requests(adding)) /\ Cardinality(Requests(adding)) <= Cardinality(adding)
  BY RequestsFew DEF IInv, Threads
<1>8. Cardinality(adding) + 1 <= IoThreads
  BY <1>6, CommandDispatchAssumption DEF IInv, Threads, Running
<1>9. /\ Cardinality(Flying) \in Nat /\ Cardinality(Requests(adding)) \in Nat
      /\ Cardinality(Flying) <= Cardinality(InTasks) + Cardinality(Requests(adding))
  BY <1>5, <1>7, UnionFew DEF Flying
<1> HIDE DEF D
<1> QED BY <1>4, <1>5, <1>6, <1>7, <1>8, <1>9, CommandDispatchAssumption

\* The variables of the ledger, by the names of this module.
ledgerVars == <<iteration, Flying, Requests(results), lost, reported, Requests(dumped)>>

LEMMA LedgerVars == Ledger!vars = ledgerVars /\ (UNCHANGED ledgerVars => UNCHANGED Ledger!vars)
BY Zenon DEF Ledger!vars, ledgerVars, Flying, InTasks, Pending, Requests

\* The ledger counts as this module does.
LEMMA LedgerCardinality == \A S : Ledger!Cardinality(S) = Cardinality(S)
BY Zenon DEF Ledger!Cardinality, Cardinality

LEMMA LedgerInit == Init => Ledger!Init
<1> SUFFICES ASSUME Init PROVE Ledger!Init
  OBVIOUS
<1>1. Flying = {}
  BY Ranges DEF Init, NoMessage, Flying, InTasks, Pending, Requests
<1> QED BY <1>1 DEF Init, Ledger!Init, Flying, InTasks, Pending, Requests

\* Every step hands out a command, answers one, loses one, reports or stutters.
LEMMA LedgerNext == IInv /\ [Next]_vars => [Ledger!Next]_(Ledger!vars)
<1> SUFFICES ASSUME IInv, [Next]_vars PROVE Ledger!Next \/ UNCHANGED Ledger!vars
  OBVIOUS
<1>0. ASSUME UNCHANGED <<iteration, writes, reads, adding, results, lost, reported, dumped>>
      PROVE UNCHANGED Ledger!vars
  BY <1>0 DEF Ledger!vars
<1>1. CASE Post \/ Stop \/ Join
  BY <1>0, <1>1 DEF Post, Stop, StopWith, Join, serverVars, taskVars, outputVars
<1>2. CASE Run \/ HandleAccept \/ HandleAcceptError \/ IoStop \/ BeginVisit \/ EndVisit
  BY <1>0, <1>2 DEF Run, HandleAccept, HandleAcceptError, IoStop, BeginVisit, EndVisit, serverVars,
                    taskVars, outputVars
<1>3. ASSUME NEW t \in Tasks, Connect(t) \/ ClientHandleRead(t) \/ ClientEnds(t) \/ ClientDies(t)
      PROVE UNCHANGED Ledger!vars
  BY <1>0, <1>3 DEF Connect, ClientHandleRead, ClientEnds, ClientDies, ClientStep, serverVars,
                    taskVars, outputVars
<1>4. CASE Ended \/ UNCHANGED vars
  BY <1>0, <1>4 DEF Ended, vars, serverVars, taskVars, outputVars
<1>5. CASE Dump
  <2>1. iteration = 0 /\ reported = FALSE
    BY <1>5, CommandDispatchAssumption DEF IInv, TypeOK, MainInv, Dump, HasCommands
  <2>2. Ledger!Report
    BY <1>5, <2>1 DEF Ledger!Report, Dump, serverVars, taskVars
  <2> QED BY <2>2 DEF Ledger!Next
<1>6. CASE VisitTask
  <2>1. visit # 0 /\ UNCHANGED <<results, lost, reported, dumped>>
    BY <1>6 DEF VisitTask, VisitWhen, outputVars
  <2>2. CASE UNCHANGED <<iteration, writes>> /\ Flying' = Flying
    <3>1. UNCHANGED ledgerVars
      BY <2>1, <2>2 DEF ledgerVars, Requests
    <3> QED BY <3>1, LedgerVars
  <2>3. CASE HasCommands /\ iteration' = iteration - 1 /\ Flying' = Flying \cup {NextCommand}
    <3>1. Cardinality(Flying) < Cardinality(Tasks) + IoThreads
      BY <2>1, RoomForOneMore
    <3>2. Ledger!HandOut
      BY <2>1, <2>3, <3>1, LedgerCardinality, Zenon
         DEF Ledger!HandOut, HasCommands, NextCommand, Flying, InTasks, Pending, Requests
    <3> QED BY <3>2 DEF Ledger!Next
  <2> QED BY <1>6, <2>2, <2>3, VisitTaskOK
<1>7. ASSUME NEW t \in Tasks, TaskHandlers(t) PROVE Ledger!Next \/ UNCHANGED Ledger!vars
  <2>1. UNCHANGED <<iteration, results, reported, dumped>>
    BY <1>7 DEF TaskHandlers, HandleWrite, Written, HandleWriteError, NotWritten, HandleRead,
                HandleReadError, TaskStep, serverVars
  <2>2. CASE HandleWrite(t) \/ HandleRead(t)
    <3>1. lost' = lost
      BY <2>2 DEF HandleWrite, Written, HandleRead
    <3>2. Flying' = Flying
      BY <2>2, HandleWriteOK, HandleReadOK
    <3>3. UNCHANGED ledgerVars
      BY <2>1, <3>1, <3>2 DEF ledgerVars, Requests
    <3> QED BY <3>3, LedgerVars
  <2>3. CASE HandleWriteError(t) \/ HandleReadError(t)
    <3>1. PICK c \in Commands : c \in Flying /\ Flying' = Flying \ {c} /\ lost' = lost \cup {c}
      BY <2>3, CommandLostOK
    <3>2. Ledger!Lose({c})
      BY <2>1, <3>1, Zenon DEF Ledger!Lose, Flying, InTasks, Pending, Requests
    <3>3. {c} \in SUBSET Flying
      BY <3>1
    <3> QED BY <3>2, <3>3, Zenon DEF Ledger!Next, Flying, InTasks, Pending, Requests
  <2> QED BY <1>7, <2>2, <2>3 DEF TaskHandlers
<1>8. ASSUME NEW r \in adding, AddResult(r) PROVE Ledger!Next
  <2>1. UNCHANGED <<iteration, lost, reported, dumped>> /\ r.request \in Commands
    BY <1>8 DEF AddResult, serverVars, IInv, TypeOK, Result
  <2>2. /\ r.request \in Flying /\ Flying' = Flying \ {r.request}
        /\ Requests(results)' = Requests(results) \cup {r.request}
    BY <1>8, AddResultOK
  <2>3. Ledger!Answer(r.request)
    BY <2>1, <2>2, Zenon DEF Ledger!Answer, Flying, InTasks, Pending, Requests
  <2> QED BY <2>1, <2>3 DEF Ledger!Next, Commands
<1> QED BY <1>1, <1>2, <1>3, <1>4, <1>5, <1>6, <1>7, <1>8 DEF Next, Strand

\* The server keeps the promise of CommandLedger: no command is handed out
\* twice or forgotten, the unanswered ones are bounded by the tasks and the
\* threads, and the report is one snapshot taken after the last command.
THEOREM PromiseKept == Spec => LedgerKept
BY LedgerInit, LedgerNext, Inductive, PTL DEF Spec, LedgerKept, Ledger!Spec
=============================================================================
