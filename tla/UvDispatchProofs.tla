--------------------------- MODULE UvDispatchProofs ---------------------------
(***************************************************************************)
(* Proofs about UvDispatch for any number of clients and commands.  The    *)
(* pool's thread and the loop's share m_currentCommandResult without a     *)
(* lock.  What saves the pairing of answers is the wire: it is empty, or   *)
(* holds the current command (Wire); while SendCommad is between making    *)
(* the Result and filling it in the task's wire is empty, so nothing but a *)
(* lost connection can take the Result away (Fill).                        *)
(***************************************************************************)
EXTENDS UvDispatch, FiniteSetTheorems, SequenceTheorems, TLAPS

Taken == 1 .. (M - iteration)
Flying == {current[t] : t \in Tasks} \ {None}
Requests(rs) == {r.request : r \in rs}

Wire ==
    \A t \in Tasks :
        /\ toServer[t] = <<>> \/ toServer[t] = <<current[t]>>
        /\ client[t] # "ended" =>
             toClient[t] = <<>> \/ (toClient[t] = <<current[t]>> /\ toServer[t] = <<>>)

\* Between the two halves of SendCommad.
Fill ==
    filling =>
        /\ visit \in 1 .. Len(pull)
        /\ toServer[pull[visit]] = <<>>
        /\ client[pull[visit]] # "ended" =>
             current[pull[visit]] # None /\ toClient[pull[visit]] = <<>>
        /\ current[pull[visit]] = None => handle[pull[visit]] = "closed"

\* Between uv_write and HandleWrite a task is busy, if its handle is open.
Writes ==
    /\ \A t \in Tasks : writing[t] /\ handle[t] = "open" => current[t] # None
    /\ WriteRequestFree

\* A command is the current one of one task, and that task was accepted.
OneTask ==
    /\ \A t, u \in Tasks : t # u /\ current[t] # None => current[t] # current[u]
    /\ \A t \in Tasks : current[t] # None => t \in Range(pull)

Accounted == Flying \cup Requests(results) \cup lost = Taken

\* Where the work item is.
Work ==
    /\ visit # 0 <=> work = "running"
    /\ reported <=> work = "none"
    /\ reported => iteration = 0
    /\ IsFiniteSet(results) /\ IsFiniteSet(dumped)

IInv ==
    /\ TypeOK /\ Wire /\ Fill /\ OneTask /\ Accounted /\ Work
    /\ AnswersBelong /\ DumpMissesFew /\ CrashNeedsDeath

-----------------------------------------------------------------------------
(* Sequences, sets of commands *)

LEMMA RangeAppend ==
    ASSUME NEW S, NEW q \in Seq(S), NEW e \in S
    PROVE Append(q, e) \in Seq(S) /\ Range(q) \subseteq Range(Append(q, e))
          /\ Len(Append(q, e)) = Len(q) + 1 /\ Len(q) \in Nat
<1>1. /\ Append(q, e) \in Seq(S) /\ DOMAIN Append(q, e) = 1 .. (Len(q) + 1)
      /\ \A i \in 1 .. Len(q) : Append(q, e)[i] = q[i]
      /\ DOMAIN q = 1 .. Len(q) /\ Len(q) \in Nat /\ Len(Append(q, e)) = Len(q) + 1
  OBVIOUS
<1> QED BY <1>1 DEF Range

LEMMA OneCommand ==
    ASSUME NEW c
    PROVE /\ Append(<<>>, c) = <<c>> /\ Head(<<c>>) = c /\ Tail(<<c>>) = <<>>
          /\ <<c>> # <<>> /\ <<c>> \in Seq(Commands) => c \in Commands
OBVIOUS

LEMMA NoneIsNoCommand == None \notin Commands
BY DEF None, Commands

LEMMA CommandsFinite == IsFiniteSet(Commands) /\ Cardinality(Commands) = M
<1>1. M \in Int /\ 1 \in Int /\ M > 0
  BY UvDispatchAssumption
<1>2. IsFiniteSet(1 .. M) /\ Cardinality(1 .. M) = IF 1 > M THEN 0 ELSE M - 1 + 1
  BY <1>1, FS_Interval
<1> QED BY <1>1, <1>2 DEF Commands

LEMMA UnionFew ==
    ASSUME NEW S, NEW T, IsFiniteSet(S), IsFiniteSet(T)
    PROVE /\ IsFiniteSet(S \cup T) /\ Cardinality(S) \in Nat /\ Cardinality(T) \in Nat
          /\ Cardinality(S \cup T) \in Nat /\ Cardinality(S \cup T) <= Cardinality(S) + Cardinality(T)
<1>1. IsFiniteSet(S \cup T) /\ IsFiniteSet(S \cap T)
  BY FS_Union, FS_Subset
<1>2. Cardinality(S \cup T) = Cardinality(S) + Cardinality(T) - Cardinality(S \cap T)
  BY FS_Union
<1>3. Cardinality(S) \in Nat /\ Cardinality(T) \in Nat /\ Cardinality(S \cap T) \in Nat
      /\ Cardinality(S \cup T) \in Nat
  BY <1>1, FS_CardinalityType
<1> QED BY <1>1, <1>2, <1>3

LEMMA RequestsFew ==
    ASSUME NEW rs, IsFiniteSet(rs)
    PROVE IsFiniteSet(Requests(rs)) /\ Cardinality(Requests(rs)) <= Cardinality(rs)
<1> DEFINE f == [r \in rs |-> r.request]
<1>1. f \in Surjection(rs, Requests(rs))
  BY DEF Surjection, Requests
<1> QED BY <1>1, FS_Surjection

-----------------------------------------------------------------------------
(* Steps that leave the commands where they are *)

LEMMA InitOK == Init => IInv
<1> SUFFICES ASSUME Init PROVE IInv
  OBVIOUS
<1> USE DEF Init
<1>1. TypeOK
  <2>1. iteration \in 0 .. M /\ visit \in 0 .. (Len(pull) + 1)
    BY UvDispatchAssumption
  <2>2. {toClient, toServer} \subseteq [Tasks -> Seq(Commands)]
    OBVIOUS
  <2>3. {reported, filling} \subseteq BOOLEAN
    OBVIOUS
  <2>4. {reading, writing} \subseteq [Tasks -> BOOLEAN]
    OBVIOUS
  <2> QED BY <2>1, <2>2, <2>3, <2>4 DEF TypeOK
<1>2. Wire /\ Fill
  BY DEF Wire, Fill
<1>3. OneTask /\ AnswersBelong /\ CrashNeedsDeath /\ DumpMissesFew
  BY DEF OneTask, AnswersBelong, CrashNeedsDeath, DumpMissesFew
<1>4. Accounted
  <2>1. Taken = {}
    BY UvDispatchAssumption DEF Taken
  <2> QED BY <2>1 DEF Accounted, Flying, Requests
<1>5. Work
  BY FS_EmptySet DEF Work
<1> QED BY <1>1, <1>2, <1>3, <1>4, <1>5 DEF IInv

LEMMA DumpKept ==
    ASSUME IInv, UNCHANGED <<reported, dumped>>, pull' \in Seq(Tasks), Len(pull') >= Len(pull),
           lost \subseteq lost', lost' \subseteq Commands
    PROVE DumpMissesFew'
<1> SUFFICES ASSUME reported
             PROVE M - Cardinality(dumped) <= Len(pull') + Cardinality(lost')
  BY DEF DumpMissesFew
<1>1. M - Cardinality(dumped) <= Len(pull) + Cardinality(lost)
  BY DEF IInv, DumpMissesFew
<1>2. IsFiniteSet(lost')
  BY CommandsFinite, FS_Subset
<1>3. Cardinality(lost) <= Cardinality(lost') /\ Cardinality(lost') \in Nat /\ Cardinality(lost) \in Nat
  BY <1>2, FS_Subset, FS_CardinalityType
<1>4. Cardinality(dumped) \in Nat
  BY FS_CardinalityType DEF IInv, Work
<1>5. Len(pull) \in Nat /\ Len(pull') \in Nat
  BY DEF IInv, TypeOK
<1> QED BY <1>1, <1>3, <1>4, <1>5, UvDispatchAssumption

\* The state of the commands.
commandVars == <<iteration, current, results, lost>>

LEMMA CommandsKept ==
    ASSUME IInv, UNCHANGED commandVars, pull' = pull
    PROVE OneTask' /\ Accounted' /\ AnswersBelong'
<1>1. Flying' = Flying /\ Taken' = Taken /\ Requests(results)' = Requests(results) /\ lost' = lost
  BY DEF commandVars, Flying, Taken, Requests
<1>2. Accounted'
  BY <1>1 DEF IInv, Accounted
<1> QED BY <1>2 DEF IInv, OneTask, AnswersBelong, commandVars

LEMMA SomeWorkOK == IInv /\ SomeWork => IInv'
<1> SUFFICES ASSUME IInv, SomeWork PROVE IInv'
  OBVIOUS
<1> USE DEF SomeWork, taskVars, sockets, outputVars
<1>1. OneTask' /\ Accounted' /\ AnswersBelong'
  BY CommandsKept DEF commandVars
<1>2. Len(pull) \in Nat /\ filling \in BOOLEAN
  BY DEF IInv, TypeOK
<1>3. visit = 0 /\ ~filling
  BY <1>2 DEF IInv, Work, Fill
<1>4. TypeOK'
  <2>1. visit' \in 0 .. (Len(pull') + 1)
    BY <1>2
  <2> QED BY <2>1 DEF IInv, TypeOK
<1>5. Fill' /\ Wire' /\ Work' /\ DumpMissesFew' /\ CrashNeedsDeath'
  BY <1>3 DEF IInv, Fill, Wire, Work, DumpMissesFew, CrashNeedsDeath
<1> QED BY <1>1, <1>4, <1>5 DEF IInv

LEMMA EndWorkOK == IInv /\ EndWork => IInv'
<1> SUFFICES ASSUME IInv, EndWork PROVE IInv'
  OBVIOUS
<1> USE DEF EndWork, taskVars, sockets, outputVars
<1>1. OneTask' /\ Accounted' /\ AnswersBelong'
  BY CommandsKept DEF commandVars
<1>2. Len(pull) \in Nat
  BY DEF IInv, TypeOK
<1>3. work = "running"
  BY <1>2 DEF IInv, Work
<1>4. TypeOK'
  <2>1. visit' \in 0 .. (Len(pull') + 1)
    BY <1>2
  <2> QED BY <2>1 DEF IInv, TypeOK
<1>5. Fill' /\ Wire' /\ Work' /\ DumpMissesFew' /\ CrashNeedsDeath'
  BY <1>3 DEF IInv, Fill, Wire, Work, DumpMissesFew, CrashNeedsDeath
<1> QED BY <1>1, <1>4, <1>5 DEF IInv

LEMMA HandleNewConnectionOK == IInv /\ HandleNewConnection => IInv'
<1> SUFFICES ASSUME IInv, HandleNewConnection PROVE IInv'
  OBVIOUS
<1> USE DEF HandleNewConnection, workVars, taskVars, sockets, outputVars
<1>1. /\ backlog \in Seq(Tasks) /\ pull \in Seq(Tasks) /\ backlog # <<>>
  BY DEF IInv, TypeOK
<1>2. backlog' \in Seq(Tasks) /\ Head(backlog) \in Tasks
  BY <1>1, HeadTailProperties
<1>3. /\ pull' \in Seq(Tasks) /\ Range(pull) \subseteq Range(pull')
      /\ Len(pull') = Len(pull) + 1 /\ Len(pull) \in Nat
  BY <1>1, <1>2, RangeAppend
<1>4. ~filling
  BY DEF IInv, Fill
<1>5. TypeOK'
  <2>1. visit' \in 0 .. (Len(pull') + 1)
    BY <1>3
  <2> QED BY <1>2, <1>3, <2>1 DEF IInv, TypeOK
<1>6. Accounted'
  BY DEF IInv, Accounted, Flying, Requests, Taken
<1>7. OneTask'
  BY <1>3 DEF IInv, OneTask
<1>8. DumpMissesFew'
  BY <1>3, DumpKept DEF IInv, TypeOK
<1>9. Fill' /\ Wire' /\ Work' /\ AnswersBelong' /\ CrashNeedsDeath'
  BY <1>4 DEF IInv, Fill, Wire, Work, AnswersBelong, CrashNeedsDeath
<1> QED BY <1>5, <1>6, <1>7, <1>8, <1>9 DEF IInv

LEMMA InterruptOK == IInv /\ Interrupt => IInv'
<1> SUFFICES ASSUME IInv, Interrupt PROVE IInv'
  OBVIOUS
<1> USE DEF Interrupt, workVars, taskVars, sockets, outputVars
<1>1. OneTask' /\ Accounted' /\ AnswersBelong'
  BY CommandsKept DEF commandVars
<1>2. TypeOK'
  BY DEF IInv, TypeOK
<1>3. Fill' /\ Wire' /\ Work' /\ DumpMissesFew' /\ CrashNeedsDeath'
  BY DEF IInv, Fill, Wire, Work, DumpMissesFew, CrashNeedsDeath
<1> QED BY <1>1, <1>2, <1>3 DEF IInv

LEMMA HandleWriteOK == ASSUME IInv, NEW t \in Tasks, HandleWrite(t) PROVE IInv'
<1> USE DEF HandleWrite, Callback, workVars
<1>1. OneTask' /\ Accounted' /\ AnswersBelong'
  BY CommandsKept DEF commandVars
<1>2. TypeOK'
  <2>1. reading \in [Tasks -> BOOLEAN] /\ writing \in [Tasks -> BOOLEAN]
    BY DEF IInv, TypeOK
  <2>2. reading' \in [Tasks -> BOOLEAN]
    BY <2>1
  <2>3. writing' \in [Tasks -> BOOLEAN]
    BY <2>1
  <2>4. {reading, writing}' \subseteq [Tasks -> BOOLEAN]
    BY <2>2, <2>3
  <2> QED BY <2>4 DEF IInv, TypeOK
<1>3. Fill' /\ Wire' /\ Work' /\ DumpMissesFew' /\ CrashNeedsDeath'
  BY DEF IInv, Fill, Wire, Work, DumpMissesFew, CrashNeedsDeath
<1> QED BY <1>1, <1>2, <1>3 DEF IInv

LEMMA ConnectOK == ASSUME IInv, NEW t \in Tasks, Connect(t) PROVE IInv'
<1> USE DEF Connect, ClientStep, workVars, taskVars, sockets, outputVars
<1>1. OneTask' /\ Accounted' /\ AnswersBelong'
  BY CommandsKept DEF commandVars
<1>2. client' = [client EXCEPT ![t] = "reading"] /\ client[t] = "unborn"
      /\ client \in [Tasks -> {"unborn", "reading", "ended"}]
  BY DEF IInv, TypeOK
<1>3. TypeOK'
  BY <1>2 DEF IInv, TypeOK
<1>4. \A u \in Tasks : client'[u] = "ended" <=> client[u] = "ended"
  BY <1>2
<1>5. Fill'
  <2>1. filling => pull[visit] \in Tasks
    BY DEF IInv, Fill, TypeOK
  <2> QED BY <1>4, <2>1 DEF IInv, Fill
<1>6. Wire' /\ Work' /\ DumpMissesFew' /\ CrashNeedsDeath'
  BY <1>4 DEF IInv, Wire, Work, DumpMissesFew, CrashNeedsDeath
<1> QED BY <1>1, <1>3, <1>5, <1>6 DEF IInv

LEMMA ClientGoneOK ==
    ASSUME IInv, NEW t \in Tasks, ClientReadError(t) \/ ClientDies(t) PROVE IInv'
<1> USE DEF ClientReadError, ClientDies, ClientStep, workVars, taskVars, sockets, outputVars
<1>1. OneTask' /\ Accounted' /\ AnswersBelong'
  BY CommandsKept DEF commandVars
<1>2. client' = [client EXCEPT ![t] = "ended"] /\ client \in [Tasks -> {"unborn", "reading", "ended"}]
  BY DEF IInv, TypeOK
<1>3. TypeOK'
  BY <1>2 DEF IInv, TypeOK
<1>4. \A u \in Tasks : client[u] = "ended" => client'[u] = "ended"
  BY <1>2
<1>5. Fill'
  <2>1. filling => pull[visit] \in Tasks
    BY DEF IInv, Fill, TypeOK
  <2> QED BY <1>4, <2>1 DEF IInv, Fill
<1>6. Wire' /\ Work' /\ DumpMissesFew'
  BY <1>4 DEF IInv, Wire, Work, DumpMissesFew
<1>7. CrashNeedsDeath'
  <2>1. filling => pull[visit] \in Tasks
    BY DEF IInv, Fill, TypeOK
  <2> QED BY <1>4, <2>1 DEF IInv, CrashNeedsDeath
<1> QED BY <1>1, <1>3, <1>5, <1>6, <1>7 DEF IInv

\* A living client has the current command in its buffer and answers that one;
\* it is not the task SendCommad is filling in.
LEMMA ClientHandleReadOK == ASSUME IInv, NEW t \in Tasks, ClientHandleRead(t) PROVE IInv'
<1> USE DEF ClientHandleRead, ClientStep, workVars, taskVars, outputVars
<1>1. OneTask' /\ Accounted' /\ AnswersBelong'
  BY CommandsKept DEF commandVars
<1>2. toClient[t] = <<current[t]>> /\ toServer[t] = <<>>
  BY DEF IInv, Wire
<1>3. toClient \in [Tasks -> Seq(Commands)] /\ toServer \in [Tasks -> Seq(Commands)]
  BY DEF IInv, TypeOK
<1>4. toServer' = [toServer EXCEPT ![t] = <<current[t]>>] /\ toClient' = [toClient EXCEPT ![t] = <<>>]
  BY <1>2, OneCommand
<1>5. TypeOK'
  <2>1. <<current[t]>> \in Seq(Commands) /\ <<>> \in Seq(Commands)
    BY <1>2, <1>3
  <2>2. {toClient, toServer}' \subseteq [Tasks -> Seq(Commands)]
    BY <1>3, <1>4, <2>1
  <2> QED BY <2>2 DEF IInv, TypeOK
<1>6. Wire'
  BY <1>3, <1>4 DEF IInv, Wire
<1>7. Fill'
  <2>1. toClient[t] # <<>> /\ client[t] # "ended"
    OBVIOUS
  <2>2. filling => pull[visit] \in Tasks
    BY DEF IInv, Fill, TypeOK
  <2>3. filling => pull[visit] # t
    BY <2>1 DEF IInv, Fill
  <2> QED BY <1>3, <1>4, <2>2, <2>3 DEF IInv, Fill
<1>8. Work' /\ DumpMissesFew' /\ CrashNeedsDeath'
  BY DEF IInv, Work, DumpMissesFew, CrashNeedsDeath
<1> QED BY <1>1, <1>5, <1>6, <1>7, <1>8 DEF IInv
-----------------------------------------------------------------------------
(* Steps that move a command *)

\* The current command of one task is replaced.
LEMMA Moves ==
    ASSUME IInv, NEW t \in Tasks, NEW c, current' = [current EXCEPT ![t] = c]
    PROVE /\ c = None => Flying' = Flying \ {current[t]}
          /\ current[t] = None /\ c # None => Flying' = Flying \cup {c}
<1>1. current \in [Tasks -> Commands \cup {None}]
  BY DEF IInv, TypeOK
<1>2. current'[t] = c /\ \A u \in Tasks \ {t} : current'[u] = current[u]
  BY <1>1
<1>3. \A x : x \in Flying <=> x # None /\ \E u \in Tasks : x = current[u]
  BY DEF Flying
<1>4. \A x : x \in Flying' <=> x # None /\ \E u \in Tasks : x = current'[u]
  BY DEF Flying
<1>5. ASSUME c = None PROVE Flying' = Flying \ {current[t]}
  <2>1. \A u \in Tasks \ {t} : current[u] # None => current[u] # current[t]
    BY DEF IInv, OneTask
  <2>2. ASSUME NEW x PROVE x \in Flying' <=> x \in Flying /\ x # current[t]
    BY <1>2, <1>3, <1>4, <1>5, <2>1
  <2> QED BY <2>2
<1>6. ASSUME current[t] = None, c # None PROVE Flying' = Flying \cup {c}
  <2>1. ASSUME NEW x PROVE x \in Flying' <=> x \in Flying \/ x = c
    BY <1>2, <1>3, <1>4, <1>6
  <2> QED BY <2>1
<1> QED BY <1>5, <1>6

\* The first half of SendCommad: a task without a command takes the next one.
LEMMA VisitTaskOK ==
    ASSUME IInv, VisitTask
    PROVE /\ IInv'
          /\ \/ /\ HasCommands /\ iteration' = iteration - 1 /\ Flying' = Flying \cup {NextCommand}
                /\ \E t \in Tasks : current[t] = None
             \/ UNCHANGED <<iteration, current>>
<1>1. pull \in Seq(Tasks) /\ Len(pull) \in Nat /\ visit \in 1 .. Len(pull) /\ ~filling
  BY DEF IInv, TypeOK, VisitTask, VisitWhen
<1>2. PICK t \in Tasks : t = pull[visit] /\ t \in Range(pull)
  BY <1>1 DEF Range
<1>3. UNCHANGED <<server, work, pull, handle, reading, writing, extent, sockets, outputVars,
                  backlog, client>>
  BY DEF VisitTask, VisitWhen
<1>4. AnswersBelong' /\ DumpMissesFew' /\ CrashNeedsDeath'
  <2>1. server' = "running"
    BY DEF VisitTask, VisitWhen
  <2> QED BY <1>3, <2>1 DEF IInv, AnswersBelong, DumpMissesFew, CrashNeedsDeath, outputVars
<1>5. CASE ~(~IsBusy /\ HasCommands)
  <2>1. visit' = visit + 1 /\ UNCHANGED <<iteration, current, filling>>
    BY <1>5 DEF VisitTask, VisitWhen
  <2>2. OneTask' /\ Accounted'
    BY <1>3, <2>1, CommandsKept DEF commandVars, outputVars
  <2>3. visit' \in 0 .. (Len(pull') + 1) /\ visit' # 0 /\ visit # 0
    BY <1>1, <1>3, <2>1
  <2>4. TypeOK'
    BY <1>3, <2>1, <2>3 DEF IInv, TypeOK, sockets, outputVars
  <2>5. Wire' /\ Fill'
    BY <1>1, <1>3, <2>1 DEF IInv, Wire, Fill, sockets
  <2>6. Work'
    BY <1>3, <2>1, <2>3 DEF IInv, Work, outputVars
  <2> QED BY <1>4, <2>1, <2>2, <2>4, <2>5, <2>6 DEF IInv
<1>6. CASE ~IsBusy /\ HasCommands
  <2> DEFINE c == NextCommand
  <2>1. /\ iteration \in 1 .. M /\ iteration' = iteration - 1 /\ M \in Nat
        /\ current[t] = None
        /\ current' = [current EXCEPT ![t] = c] /\ filling' = TRUE /\ visit' = visit
    BY <1>2, <1>6, UvDispatchAssumption DEF IInv, TypeOK, HasCommands, IsBusy, VisitTask, VisitWhen
  <2>2. c \in Commands /\ c \notin Taken /\ Taken' = Taken \cup {c} /\ iteration' \in 0 .. M
    BY <2>1 DEF NextCommand, Commands, Taken
  <2> HIDE DEF c
  <2>3. c # None
    BY <2>2, NoneIsNoCommand
  <2>4. current \in [Tasks -> Commands \cup {None}]
    BY DEF IInv, TypeOK
  <2>5. Flying' = Flying \cup {c}
    BY <2>1, <2>3, Moves
  <2>6. c \notin Flying
    BY <2>2 DEF IInv, Accounted
  <2>7. OneTask'
    <3>1. \A u \in Tasks : current[u] # c
      BY <2>3, <2>6 DEF Flying
    <3>2. current'[t] = c /\ \A u \in Tasks \ {t} : current'[u] = current[u]
      BY <2>1, <2>4
    <3>3. \A u, v \in Tasks : u # v /\ current'[u] # None => current'[u] # current'[v]
      BY <3>1, <3>2 DEF IInv, OneTask
    <3>4. \A u \in Tasks : current'[u] # None => u \in Range(pull)
      BY <1>2, <3>2 DEF IInv, OneTask
    <3> QED BY <1>3, <3>3, <3>4 DEF OneTask
  <2>8. Accounted'
    BY <1>3, <2>2, <2>5 DEF IInv, Accounted, Requests, outputVars
  <2>9. TypeOK'
    <3>1. current' \in [Tasks -> Commands \cup {None}]
      BY <2>1, <2>2, <2>4
    <3>2. {reported, filling}' \subseteq BOOLEAN
      BY <1>3, <2>1 DEF IInv, TypeOK, outputVars
    <3> QED BY <1>3, <2>1, <2>2, <3>1, <3>2 DEF IInv, TypeOK, sockets, outputVars
  <2>10. toServer[t] = <<>> /\ (client[t] # "ended" => toClient[t] = <<>>)
    <3>1. toServer[t] \in Seq(Commands) /\ toClient[t] \in Seq(Commands)
      BY DEF IInv, TypeOK
    <3>2. toServer[t] # <<current[t]>> /\ toClient[t] # <<current[t]>>
      BY <2>1, <3>1, NoneIsNoCommand, OneCommand
    <3> QED BY <3>2 DEF IInv, Wire
  <2>11. Wire'
    <3>1. \A u \in Tasks \ {t} : current'[u] = current[u]
      BY <2>1, <2>4
    <3> QED BY <1>3, <2>10, <3>1 DEF IInv, Wire, sockets
  <2>12. Fill'
    <3>1. current'[t] = c
      BY <2>1, <2>4
    <3> QED BY <1>1, <1>2, <1>3, <2>1, <2>3, <2>10, <3>1 DEF Fill, sockets
  <2>13. Work'
    BY <1>3, <2>1 DEF IInv, Work, outputVars
  <2>14. Flying' = Flying \cup {NextCommand}
    BY <2>5 DEF c
  <2> QED BY <1>4, <1>6, <2>1, <2>7, <2>8, <2>9, <2>11, <2>12, <2>13, <2>14 DEF IInv
<1> QED BY <1>5, <1>6

\* The second half: the wire is still empty, so the command goes out alone.
LEMMA SendCommadOK == IInv /\ SendCommad => IInv'
<1> SUFFICES ASSUME IInv, SendCommad PROVE IInv'
  OBVIOUS
<1>1. /\ filling /\ pull \in Seq(Tasks) /\ Len(pull) \in Nat /\ visit \in 1 .. Len(pull)
  BY DEF IInv, TypeOK, SendCommad, Fill
<1>2. PICK t \in Tasks : t = pull[visit]
  BY <1>1
<1>3. UNCHANGED <<iteration, work, pull, current, handle, reading, extent, toServer, outputVars,
                  backlog, client>>
  BY DEF SendCommad
<1>4. OneTask' /\ Accounted' /\ AnswersBelong' /\ DumpMissesFew'
  <2>1. OneTask' /\ Accounted' /\ AnswersBelong'
    BY <1>3, CommandsKept DEF commandVars, outputVars
  <2> QED BY <1>3, <2>1 DEF IInv, DumpMissesFew, outputVars
<1>5. toServer[t] = <<>> /\ (client[t] # "ended" => current[t] # None /\ toClient[t] = <<>>)
  BY <1>1, <1>2 DEF IInv, Fill
<1>6. CASE current[t] = None
  <2>1. server' = "crashed" /\ UNCHANGED <<visit, filling, writing, toClient>>
    BY <1>2, <1>6 DEF SendCommad
  <2>2. client[t] = "ended" /\ handle[t] = "closed"
    BY <1>1, <1>2, <1>5, <1>6 DEF IInv, Fill
  <2>3. TypeOK'
    BY <1>3, <2>1 DEF IInv, TypeOK, outputVars
  <2>4. Wire' /\ Fill' /\ Work'
    BY <1>3, <2>1 DEF IInv, Wire, Fill, Work, outputVars
  <2>5. CrashNeedsDeath'
    BY <1>1, <1>2, <1>3, <1>6, <2>1, <2>2 DEF CrashNeedsDeath
  <2> QED BY <1>4, <2>3, <2>4, <2>5 DEF IInv
<1>7. CASE current[t] # None
  <2>1. /\ visit' = visit + 1 /\ filling' = FALSE /\ server' = server
        /\ \/ /\ writing' = [writing EXCEPT ![t] = TRUE]
              /\ toClient' = [toClient EXCEPT ![t] = Append(@, current[t])]
           \/ UNCHANGED <<writing, toClient>>
    BY <1>2, <1>7 DEF SendCommad
  <2>2. toClient \in [Tasks -> Seq(Commands)] /\ current[t] \in Commands /\ writing \in [Tasks -> BOOLEAN]
    BY <1>7 DEF IInv, TypeOK
  <2>3. TypeOK'
    <3>1. visit' \in 0 .. (Len(pull') + 1)
      BY <1>1, <1>3, <2>1
    <3>2. toClient' \in [Tasks -> Seq(Commands)]
      <4>1. Append(toClient[t], current[t]) \in Seq(Commands)
        BY <2>2
      <4> QED BY <2>1, <2>2, <4>1
    <3>3. writing' \in [Tasks -> BOOLEAN]
      BY <2>1, <2>2
    <3>4. {reading, writing}' \subseteq [Tasks -> BOOLEAN]
      BY <1>3, <3>3 DEF IInv, TypeOK
    <3>5. {toClient, toServer}' \subseteq [Tasks -> Seq(Commands)]
      BY <1>3, <3>2 DEF IInv, TypeOK
    <3>6. {reported, filling}' \subseteq BOOLEAN
      BY <1>3, <2>1 DEF IInv, TypeOK, outputVars
    <3> QED BY <1>3, <2>1, <3>1, <3>4, <3>5, <3>6 DEF IInv, TypeOK, outputVars
  <2>4. Wire'
    <3>1. \A u \in Tasks \ {t} : toClient'[u] = toClient[u]
      BY <2>1, <2>2
    <3>2. client[t] # "ended" => toClient'[t] = <<>> \/ toClient'[t] = <<current[t]>>
      BY <1>5, <2>1, <2>2, OneCommand
    <3> QED BY <1>3, <1>5, <3>1, <3>2 DEF IInv, Wire
  <2>5. Fill' /\ CrashNeedsDeath'
    BY <1>3, <2>1 DEF Fill, CrashNeedsDeath, SendCommad
  <2>6. Work'
    BY <1>1, <1>3, <2>1 DEF IInv, Work, outputVars
  <2> QED BY <1>4, <2>3, <2>4, <2>5, <2>6 DEF IInv
<1> QED BY <1>6, <1>7
\* One task without a command is one command less on its way.
LEMMA FlyingFew ==
    ASSUME IInv
    PROVE /\ IsFiniteSet(Flying) /\ Cardinality(Flying) <= Len(pull)
          /\ \A t \in Tasks : current[t] = None => Cardinality(Flying) < Cardinality(Tasks)
<1>1. pull \in Seq(Tasks) /\ Len(pull) \in Nat /\ \A i \in 1 .. Len(pull) : pull[i] \in Tasks
  BY DEF IInv, TypeOK
<1>2. IsFiniteSet(1 .. Len(pull)) /\ Cardinality(1 .. Len(pull)) = Len(pull)
  <2>1. 1 \in Int /\ Len(pull) \in Int
    BY <1>1
  <2>2. /\ IsFiniteSet(1 .. Len(pull))
        /\ Cardinality(1 .. Len(pull)) = IF 1 > Len(pull) THEN 0 ELSE Len(pull) - 1 + 1
    BY <2>1, FS_Interval
  <2> QED BY <1>1, <2>2
<1>3. IsFiniteSet(Flying) /\ Cardinality(Flying) <= Len(pull)
  <2> DEFINE D == {i \in 1 .. Len(pull) : current[pull[i]] # None}
             f == [i \in D |-> current[pull[i]]]
  <2>1. \A t \in Tasks : current[t] # None => \E i \in 1 .. Len(pull) : pull[i] = t
    BY <1>1 DEF IInv, OneTask, Range
  <2>2. f \in [D -> Flying]
    BY <1>1 DEF Flying
  <2>3. \A c \in Flying : \E i \in D : f[i] = c
    BY <2>1 DEF Flying
  <2>4. f \in Surjection(D, Flying)
    BY <2>2, <2>3 DEF Surjection
  <2>5. IsFiniteSet(D) /\ Cardinality(D) <= Len(pull)
    BY <1>2, FS_Subset
  <2>6. IsFiniteSet(Flying) /\ Cardinality(Flying) <= Cardinality(D)
    BY <2>4, <2>5, FS_Surjection
  <2>7. Cardinality(Flying) \in Nat /\ Cardinality(D) \in Nat
    BY <2>5, <2>6, FS_CardinalityType
  <2> HIDE DEF D
  <2> QED BY <1>1, <2>5, <2>6, <2>7
<1>4. ASSUME NEW t \in Tasks, current[t] = None PROVE Cardinality(Flying) < Cardinality(Tasks)
  <2> DEFINE D == {u \in Tasks : current[u] # None}
             f == [u \in D |-> current[u]]
  <2>1. f \in Surjection(D, Flying)
    BY DEF Flying, Surjection
  <2>2. D \subseteq Tasks \ {t}
    BY <1>4
  <2>3. /\ IsFiniteSet(Tasks \ {t}) /\ Cardinality(Tasks \ {t}) = Cardinality(Tasks) - 1
        /\ Cardinality(Tasks) \in Nat
    BY UvDispatchAssumption, FS_RemoveElement, FS_CardinalityType
  <2>4. IsFiniteSet(D) /\ Cardinality(D) <= Cardinality(Tasks \ {t})
    BY <2>2, <2>3, FS_Subset
  <2>5. IsFiniteSet(Flying) /\ Cardinality(Flying) <= Cardinality(D)
    BY <2>1, <2>4, FS_Surjection
  <2>6. Cardinality(Flying) \in Nat /\ Cardinality(D) \in Nat
    BY <2>4, <2>5, FS_CardinalityType
  <2> HIDE DEF D
  <2> QED BY <2>3, <2>4, <2>5, <2>6
<1> QED BY <1>3, <1>4

\* The report: all commands are taken, and counted where they are.
LEMMA AfterSomeWorkOK == IInv /\ AfterSomeWork => IInv'
<1> SUFFICES ASSUME IInv, AfterSomeWork PROVE IInv'
  OBVIOUS
<1>0. UNCHANGED <<server, iteration, visit, filling, pull, taskVars, sockets, results, lost,
                  backlog, client>> /\ work = "after"
  BY DEF AfterSomeWork
<1>1. OneTask' /\ Accounted' /\ AnswersBelong'
  BY <1>0, CommandsKept DEF commandVars, taskVars
<1>2. Wire' /\ Fill' /\ CrashNeedsDeath'
  BY <1>0 DEF IInv, Wire, Fill, CrashNeedsDeath, taskVars, sockets
<1>3. CASE HasCommands
  <2>1. work' = "queued" /\ UNCHANGED <<reported, dumped>>
    BY <1>3 DEF AfterSomeWork
  <2>2. TypeOK'
    BY <1>0, <2>1 DEF IInv, TypeOK, taskVars, sockets
  <2>3. Work' /\ DumpMissesFew'
    BY <1>0, <2>1 DEF IInv, Work, DumpMissesFew
  <2> QED BY <1>1, <1>2, <2>2, <2>3 DEF IInv
<1>4. CASE ~HasCommands
  <2>1. work' = "none" /\ reported' = TRUE /\ dumped' = results
    BY <1>4 DEF AfterSomeWork
  <2>2. iteration = 0 /\ M \in Nat
    BY <1>4, UvDispatchAssumption DEF IInv, TypeOK, HasCommands
  <2>3. TypeOK'
    <3>1. {reported, filling}' \subseteq BOOLEAN
      BY <1>0, <2>1 DEF IInv, TypeOK
    <3> QED BY <1>0, <2>1, <3>1 DEF IInv, TypeOK, taskVars, sockets
  <2>4. Work'
    BY <1>0, <2>1, <2>2 DEF IInv, Work
  <2>5. M - Cardinality(results) <= Len(pull) + Cardinality(lost)
    <3>1. Commands = (Flying \cup Requests(results)) \cup lost
      BY <2>2 DEF IInv, Accounted, Taken, Commands
    <3>2. IsFiniteSet(Flying) /\ Cardinality(Flying) <= Len(pull) /\ Len(pull) \in Nat
      BY FlyingFew DEF IInv, TypeOK
    <3>3. IsFiniteSet(Requests(results)) /\ Cardinality(Requests(results)) <= Cardinality(results)
          /\ Cardinality(results) \in Nat
      BY RequestsFew, FS_CardinalityType DEF IInv, Work
    <3>4. IsFiniteSet(lost)
      BY CommandsFinite, FS_Subset DEF IInv, TypeOK
    <3> DEFINE A == Flying \cup Requests(results)
    <3>5. /\ IsFiniteSet(A) /\ Cardinality(A) \in Nat /\ Cardinality(Flying) \in Nat
          /\ Cardinality(Requests(results)) \in Nat
          /\ Cardinality(A) <= Cardinality(Flying) + Cardinality(Requests(results))
      BY <3>2, <3>3, UnionFew
    <3>6. /\ Cardinality(lost) \in Nat /\ Cardinality(A \cup lost) \in Nat
          /\ Cardinality(A \cup lost) <= Cardinality(A) + Cardinality(lost)
      BY <3>4, <3>5, UnionFew
    <3>7. Cardinality(A \cup lost) = M
      BY <3>1, CommandsFinite
    <3> HIDE DEF A
    <3> QED BY <3>2, <3>3, <3>5, <3>6, <3>7, <2>2
  <2>6. DumpMissesFew'
    BY <1>0, <2>1, <2>5 DEF DumpMissesFew
  <2> QED BY <1>1, <1>2, <2>3, <2>4, <2>6 DEF IInv
<1> QED BY <1>3, <1>4

\* An answer on the wire is the current command's: the Result is there.
LEMMA HandleReadOK ==
    ASSUME IInv, NEW t \in Tasks, HandleRead(t)
    PROVE /\ IInv'
          /\ current[t] \in Flying /\ Flying' = Flying \ {current[t]}
          /\ Requests(results)' = Requests(results) \cup {current[t]}
<1> DEFINE c == Head(toServer[t])
<1>1. /\ toServer \in [Tasks -> Seq(Commands)] /\ current \in [Tasks -> Commands \cup {None}]
      /\ extent \in [Tasks -> Nat] /\ toServer[t] # <<>>
  BY DEF IInv, TypeOK, HandleRead, HandleReadThen
<1>2. /\ toServer[t] = <<current[t]>> /\ c = current[t] /\ current[t] \in Commands
      /\ Tail(toServer[t]) = <<>> /\ current[t] # None
  <2>1. toServer[t] = <<current[t]>>
    BY <1>1 DEF IInv, Wire
  <2>2. current[t] \in Commands
    <3>1. toServer[t] \in Seq(Commands)
      BY <1>1
    <3> QED BY <2>1, <3>1, OneCommand
  <2>3. Head(toServer[t]) = current[t] /\ Tail(toServer[t]) = <<>>
    BY <2>1, OneCommand
  <2> QED BY <2>1, <2>2, <2>3, NoneIsNoCommand
<1>3. /\ Callback(t) /\ UNCHANGED <<server, handle, reading, writing, lost>>
      /\ toServer' = [toServer EXCEPT ![t] = <<>>]
      /\ extent' = [extent EXCEPT ![t] = Written(t, c)]
      /\ results' = results \cup {Received(t, c)}
      /\ current' = [current EXCEPT ![t] = None]
  BY <1>2 DEF HandleRead, HandleReadThen
<1>4. Received(t, c) \in Result /\ Received(t, c).request = current[t] /\ Received(t, c).answers = current[t]
  BY <1>2 DEF Received, Result
<1>5. Written(t, c) \in Nat
  <2>1. AnswerLength[c] \in Nat /\ extent[t] \in Nat
    BY <1>1, <1>2, UvDispatchAssumption DEF Commands
  <2> QED BY <2>1 DEF Written
<1> HIDE DEF c
<1>6. TypeOK'
  <2>1. extent' \in [Tasks -> Nat]
    BY <1>1, <1>3, <1>5
  <2>2. {toClient, toServer}' \subseteq [Tasks -> Seq(Commands)]
    <3>1. toServer' \in [Tasks -> Seq(Commands)]
      BY <1>1, <1>3
    <3> QED BY <1>3, <3>1 DEF IInv, TypeOK, Callback
  <2>3. current' \in [Tasks -> Commands \cup {None}]
    BY <1>1, <1>3
  <2>4. results' \subseteq Result
    BY <1>3, <1>4 DEF IInv, TypeOK
  <2> QED BY <1>3, <2>1, <2>2, <2>3, <2>4 DEF IInv, TypeOK, Callback, workVars
<1>7. AnswersBelong'
  BY <1>3, <1>4 DEF IInv, AnswersBelong
<1>8. current[t] \in Flying /\ Flying' = Flying \ {current[t]}
  BY <1>2, <1>3, Moves DEF Flying
<1>9. Requests(results)' = Requests(results) \cup {current[t]}
  BY <1>3, <1>4 DEF Requests
<1>10. Accounted'
  BY <1>3, <1>8, <1>9 DEF IInv, Accounted, Taken, Callback, workVars
<1>11. current'[t] = None /\ \A u \in Tasks \ {t} : current'[u] = current[u]
  BY <1>1, <1>3
<1>12. OneTask'
  BY <1>3, <1>11 DEF IInv, OneTask, Callback
<1>13. Wire'
  <2>1. client[t] # "ended" => toClient[t] = <<>>
    BY <1>1 DEF IInv, Wire
  <2>2. toServer'[t] = <<>> /\ \A u \in Tasks \ {t} : toServer'[u] = toServer[u]
    BY <1>1, <1>3
  <2> QED BY <1>3, <1>11, <2>1, <2>2 DEF IInv, Wire, Callback
<1>14. Fill'
  <2>1. filling => pull[visit] \in Tasks
    BY DEF IInv, Fill, TypeOK
  <2>2. filling => pull[visit] # t
    BY <1>1 DEF IInv, Fill
  <2>3. \A u \in Tasks \ {t} : toServer'[u] = toServer[u]
    BY <1>1, <1>3
  <2> QED BY <1>3, <1>11, <2>1, <2>2, <2>3 DEF IInv, Fill, Callback, workVars
<1>15. Work'
  <2>1. IsFiniteSet(results')
    BY <1>3, FS_AddElement DEF IInv, Work
  <2> QED BY <1>3, <2>1 DEF IInv, Work, Callback, workVars
<1>16. DumpMissesFew' /\ CrashNeedsDeath'
  BY <1>3 DEF IInv, DumpMissesFew, CrashNeedsDeath, Callback
<1> QED BY <1>6, <1>7, <1>8, <1>9, <1>10, <1>12, <1>13, <1>14, <1>15, <1>16 DEF IInv
\* The connection is lost, and the Result with it; SendCommad may be about to
\* fill that Result in.
LEMMA HandleReadErrorOK ==
    ASSUME IInv, NEW t \in Tasks, HandleReadError(t)
    PROVE /\ IInv'
          /\ Flying' = Flying \ {current[t]} /\ lost' = lost \cup ({current[t]} \ {None})
<1>1. /\ toServer \in [Tasks -> Seq(Commands)] /\ current \in [Tasks -> Commands \cup {None}]
      /\ handle \in [Tasks -> {"open", "closed"}]
  BY DEF IInv, TypeOK
<1>2. /\ Callback(t) /\ UNCHANGED <<server, reading, writing, extent, results>>
      /\ client[t] = "ended" /\ handle' = [handle EXCEPT ![t] = "closed"]
      /\ lost' = lost \cup ({current[t]} \ {None})
      /\ current' = [current EXCEPT ![t] = None] /\ toServer' = [toServer EXCEPT ![t] = <<>>]
  BY DEF HandleReadError
<1>3. lost' \subseteq Commands /\ lost \subseteq lost'
  BY <1>1, <1>2 DEF IInv, TypeOK
<1>4. TypeOK'
  <2>1. handle' \in [Tasks -> {"open", "closed"}]
    BY <1>1, <1>2
  <2>2. {toClient, toServer}' \subseteq [Tasks -> Seq(Commands)]
    <3>1. toServer' \in [Tasks -> Seq(Commands)]
      BY <1>1, <1>2
    <3> QED BY <1>2, <3>1 DEF IInv, TypeOK, Callback
  <2>3. current' \in [Tasks -> Commands \cup {None}]
    BY <1>1, <1>2
  <2> QED BY <1>2, <1>3, <2>1, <2>2, <2>3 DEF IInv, TypeOK, Callback, workVars
<1>5. Flying' = Flying \ {current[t]}
  BY <1>2, Moves
<1>6. current[t] # None => current[t] \in Flying
  BY DEF Flying
<1>7. Accounted'
  <2>1. None \notin Flying
    BY DEF Flying
  <2>2. Flying' \cup (lost' \ lost) \cup lost = Flying \cup lost
    BY <1>2, <1>5, <1>6, <2>1
  <2> QED BY <1>2, <1>3, <2>2 DEF IInv, Accounted, Taken, Requests, Callback, workVars
<1>8. current'[t] = None /\ \A u \in Tasks \ {t} : current'[u] = current[u]
  BY <1>1, <1>2
<1>9. OneTask'
  BY <1>2, <1>8 DEF IInv, OneTask, Callback
<1>10. toServer'[t] = <<>> /\ \A u \in Tasks \ {t} : toServer'[u] = toServer[u]
  BY <1>1, <1>2
<1>11. Wire'
  BY <1>2, <1>8, <1>10 DEF IInv, Wire, Callback
<1>12. Fill'
  <2>1. filling => pull[visit] \in Tasks
    BY DEF IInv, Fill, TypeOK
  <2>2. handle'[t] = "closed" /\ \A u \in Tasks \ {t} : handle'[u] = handle[u]
    BY <1>1, <1>2
  <2> QED BY <1>2, <1>8, <1>10, <2>1, <2>2 DEF IInv, Fill, Callback, workVars
<1>13. Work' /\ AnswersBelong' /\ CrashNeedsDeath'
  BY <1>2 DEF IInv, Work, AnswersBelong, CrashNeedsDeath, Callback, workVars
<1>14. DumpMissesFew'
  <2>1. pull' \in Seq(Tasks) /\ Len(pull') >= Len(pull)
    BY <1>2 DEF IInv, TypeOK, Callback
  <2> QED BY <1>2, <1>3, <2>1, DumpKept DEF Callback
<1> QED BY <1>2, <1>4, <1>5, <1>7, <1>9, <1>11, <1>12, <1>13, <1>14 DEF IInv

-----------------------------------------------------------------------------
(* Theorems *)

LEMMA NextOK == IInv /\ [Next]_vars => IInv'
<1> SUFFICES ASSUME IInv, [Next]_vars PROVE IInv'
  OBVIOUS
<1>1. CASE Pool
  BY <1>1, SomeWorkOK, VisitTaskOK, SendCommadOK, EndWorkOK DEF Pool
<1>2. CASE AfterSomeWork \/ HandleNewConnection \/ Interrupt
  BY <1>2, AfterSomeWorkOK, HandleNewConnectionOK, InterruptOK
<1>3. ASSUME NEW t \in Tasks, Callbacks(t) PROVE IInv'
  BY <1>3, HandleWriteOK, HandleReadOK, HandleReadErrorOK DEF Callbacks
<1>4. ASSUME NEW t \in Tasks,
             Connect(t) \/ ClientHandleRead(t) \/ ClientReadError(t) \/ ClientDies(t)
      PROVE IInv'
  BY <1>4, ConnectOK, ClientHandleReadOK, ClientGoneOK
<1>5. CASE Ended \/ UNCHANGED vars
  <2>1. UNCHANGED vars
    BY <1>5 DEF Ended
  <2>2. OneTask' /\ Accounted' /\ AnswersBelong'
    BY <2>1, CommandsKept DEF vars, commandVars, workVars, taskVars, outputVars
  <2>3. TypeOK'
    BY <2>1 DEF IInv, TypeOK, vars, workVars, taskVars, sockets, outputVars
  <2>4. Wire' /\ Fill' /\ Work' /\ DumpMissesFew' /\ CrashNeedsDeath'
    BY <2>1 DEF IInv, Wire, Fill, Work, DumpMissesFew, CrashNeedsDeath, vars, workVars, taskVars,
                sockets, outputVars
  <2> QED BY <2>2, <2>3, <2>4 DEF IInv
<1> QED BY <1>1, <1>2, <1>3, <1>4, <1>5 DEF Next

\* The inductive invariant: what is on a wire is the current command, and the
\* half-made Result of SendCommad is safe from everything but a lost
\* connection (server_task.hpp:73-145).
THEOREM Inductive == Spec => []IInv
BY InitOK, NextOK, PTL DEF Spec

\* Every recorded answer is paired with its own request, and the report misses
\* at most a command for each accepted task and the lost ones
\* (server_task.hpp:116-145, server_main_test.hpp:56).
THEOREM AnswersPaired == Spec => []Consistent
<1>1. IInv => Consistent
  BY DEF IInv, Consistent
<1> QED BY <1>1, Inductive, PTL

\* The answer that is next to be read belongs to the waiting Result, whoever was
\* killed, and a living client has one command before it (server_task.hpp:73-97).
THEOREM WireHoldsCurrent == Spec => []WireIsCurrent
<1>1. IInv => WireIsCurrent
  <2> SUFFICES ASSUME IInv, NEW t \in Tasks
               PROVE /\ toServer[t] \in {<<>>, <<current[t]>>}
                     /\ client[t] # "ended" =>
                          toClient[t] \o toServer[t] \in {<<>>, <<current[t]>>}
    BY DEF WireIsCurrent
  <2>1. toClient[t] \in Seq(Commands) /\ toServer[t] \in Seq(Commands)
    BY DEF IInv, TypeOK
  <2>2. /\ toClient[t] = <<>> => toClient[t] \o toServer[t] = toServer[t]
        /\ toServer[t] = <<>> => toClient[t] \o toServer[t] = toClient[t]
    BY <2>1, ConcatEmptySeq
  <2>3. /\ toServer[t] = <<>> \/ toServer[t] = <<current[t]>>
        /\ client[t] # "ended" =>
             toClient[t] = <<>> \/ (toClient[t] = <<current[t]>> /\ toServer[t] = <<>>)
    BY DEF IInv, Wire
  <2> QED BY <2>2, <2>3
<1> QED BY <1>1, Inductive, PTL

\* A write is outstanding only in a busy task or on a closed handle.
LEMMA WritesOK == IInv /\ Writes /\ [Next]_vars => Writes'
<1> SUFFICES ASSUME IInv, Writes, [Next]_vars PROVE Writes'
  OBVIOUS
<1> USE DEF Writes, WriteRequestFree
<1>0. /\ current \in [Tasks -> Commands \cup {None}] /\ handle \in [Tasks -> {"open", "closed"}]
      /\ writing \in [Tasks -> BOOLEAN] /\ pull \in Seq(Tasks) /\ Len(pull) \in Nat
      /\ filling => visit \in 1 .. Len(pull)
  BY DEF IInv, TypeOK, Fill
<1>1. ASSUME UNCHANGED <<filling, pull, visit, current, handle, writing>> PROVE Writes'
  BY <1>1
<1>2. CASE SomeWork \/ EndWork
  BY <1>0, <1>2 DEF SomeWork, EndWork, taskVars, IInv, Work, Fill
<1>3. CASE VisitTask
  <2>1. UNCHANGED <<pull, handle, writing>> /\ visit \in 1 .. Len(pull) /\ ~filling
    BY <1>3 DEF VisitTask, VisitWhen
  <2>2. CASE ~(~IsBusy /\ HasCommands)
    BY <1>3, <2>1, <2>2 DEF VisitTask, VisitWhen
  <2>3. CASE ~IsBusy /\ HasCommands
    <3>1. PICK t \in Tasks : t = pull[visit]
      BY <1>0, <2>1
    <3>2. current[t] = None /\ visit' = visit /\ current' = [current EXCEPT ![t] = NextCommand]
      BY <1>3, <2>3, <3>1 DEF VisitTask, VisitWhen, IsBusy
    <3>3. NextCommand # None
      BY <2>3, UvDispatchAssumption DEF IInv, TypeOK, HasCommands, NextCommand, None
    <3>4. current'[t] # None /\ \A u \in Tasks \ {t} : current'[u] = current[u]
      BY <1>0, <3>2, <3>3
    <3>5. writing[t] => handle[t] = "closed"
      BY <1>0, <3>2
    <3> QED BY <2>1, <3>1, <3>2, <3>4, <3>5
  <2> QED BY <2>2, <2>3
<1>4. CASE SendCommad
  <2>1. PICK t \in Tasks : t = pull[visit]
    BY <1>0, <1>4 DEF SendCommad
  <2>2. UNCHANGED <<pull, current, handle>>
    BY <1>4 DEF SendCommad
  <2>3. CASE current[t] = None
    BY <1>1, <1>4, <2>1, <2>2, <2>3 DEF SendCommad
  <2>4. CASE current[t] # None
    <3>1. ~filling' /\ \A u \in Tasks \ {t} : writing'[u] = writing[u]
      BY <1>0, <1>4, <2>1, <2>4 DEF SendCommad
    <3> QED BY <2>2, <2>4, <3>1
  <2> QED BY <2>3, <2>4
<1>5. CASE AfterSomeWork \/ Interrupt
  BY <1>1, <1>5 DEF AfterSomeWork, Interrupt, workVars, taskVars
<1>6. CASE HandleNewConnection
  <2>1. ~filling
    BY <1>0, <1>6 DEF HandleNewConnection
  <2> QED BY <1>6, <2>1 DEF HandleNewConnection, workVars, taskVars
<1>7. ASSUME NEW t \in Tasks, Callbacks(t) PROVE Writes'
  <2>1. UNCHANGED <<filling, pull, visit>>
    BY <1>7 DEF Callbacks, HandleWrite, HandleRead, HandleReadThen, HandleReadError, Callback, workVars
  <2>2. CASE HandleWrite(t)
    BY <1>0, <2>1, <2>2 DEF HandleWrite
  <2>3. CASE HandleRead(t)
    <3>1. ~writing[t] /\ \A u \in Tasks \ {t} : current'[u] = current[u]
      BY <1>0, <2>3 DEF HandleRead, HandleReadThen
    <3> QED BY <2>1, <2>3, <3>1 DEF HandleRead, HandleReadThen
  <2>4. CASE HandleReadError(t)
    <3>1. /\ handle'[t] = "closed" /\ writing' = writing
          /\ \A u \in Tasks \ {t} : handle'[u] = handle[u] /\ current'[u] = current[u]
      BY <1>0, <2>4 DEF HandleReadError
    <3> QED BY <2>1, <3>1
  <2> QED BY <1>7, <2>2, <2>3, <2>4 DEF Callbacks
<1>8. ASSUME NEW t \in Tasks,
             Connect(t) \/ ClientHandleRead(t) \/ ClientReadError(t) \/ ClientDies(t)
      PROVE Writes'
  BY <1>1, <1>8 DEF Connect, ClientHandleRead, ClientReadError, ClientDies, ClientStep, workVars, taskVars
<1>9. CASE Ended \/ UNCHANGED vars
  BY <1>1, <1>9 DEF Ended, vars, workVars, taskVars
<1> QED BY <1>2, <1>3, <1>4, <1>5, <1>6, <1>7, <1>8, <1>9 DEF Next, Pool

\* When SendCommad fills m_bufferSend and takes the uv_write_t of a task, no write
\* of the task is outstanding, unless a read error has closed its handle
\* (server_task.hpp:79-97, 125-144).
THEOREM BuffersFree == Spec => []WriteRequestFree
<1>1. Init => Writes
  BY DEF Init, Writes, WriteRequestFree
<1>2. Writes => WriteRequestFree
  BY DEF Writes
<1> QED BY <1>1, <1>2, WritesOK, Inductive, PTL DEF Spec

\* The process reads a null m_currentCommandResult only in SendCommad, of the
\* task it is filling, whose connection a read error closed since the Result was
\* made (server_task.hpp:79-97, 125-144).
THEOREM CrashExplained == Spec => []CrashNeedsDeath
<1>1. IInv => CrashNeedsDeath
  BY DEF IInv
<1> QED BY <1>1, Inductive, PTL

\* An answer always finds its Result: HandleRead, which looks at no flag, never
\* is the one to read the null pointer, whoever dies (server_task.hpp:130-144).
THEOREM AnswerFindsResult == Spec => [](\A t \in Tasks : toServer[t] # <<>> => current[t] # None)
<1>1. IInv => \A t \in Tasks : toServer[t] # <<>> => current[t] # None
  <2> SUFFICES ASSUME IInv, NEW t \in Tasks, toServer[t] # <<>> PROVE current[t] # None
    OBVIOUS
  <2>1. toServer[t] \in Seq(Commands) /\ toServer[t] = <<current[t]>>
    BY DEF IInv, TypeOK, Wire
  <2> QED BY <2>1, OneCommand, NoneIsNoCommand
<1> QED BY <1>1, Inductive, PTL

-----------------------------------------------------------------------------
(* The ledger *)

\* The variables of the ledger, by the names of this module.
ledgerVars == <<iteration, Flying, Requests(results), lost, reported, Requests(dumped)>>

LEMMA LedgerVars == UNCHANGED ledgerVars => UNCHANGED Ledger!vars
BY Zenon DEF Ledger!vars, ledgerVars, Flying, Requests

\* The ledger counts as this module does.
LEMMA LedgerCardinality == \A S : Ledger!Cardinality(S) = Cardinality(S)
BY Zenon DEF Ledger!Cardinality, Cardinality

LEMMA LedgerInit == Init => Ledger!Init
BY DEF Init, Ledger!Init

\* Every step hands out a command, answers one, loses one, reports or stutters.
LEMMA LedgerNext == IInv /\ [Next]_vars => [Ledger!Next]_(Ledger!vars)
<1> SUFFICES ASSUME IInv, [Next]_vars PROVE Ledger!Next \/ UNCHANGED Ledger!vars
  OBVIOUS
<1>0. ASSUME UNCHANGED <<iteration, current, results, lost, reported, dumped>>
      PROVE UNCHANGED Ledger!vars
  BY <1>0 DEF Ledger!vars
<1>1. CASE SomeWork \/ SendCommad \/ EndWork
  BY <1>0, <1>1 DEF SomeWork, SendCommad, EndWork, taskVars, outputVars
<1>2. CASE HandleNewConnection \/ Interrupt
  BY <1>0, <1>2 DEF HandleNewConnection, Interrupt, workVars, taskVars, outputVars
<1>3. ASSUME NEW t \in Tasks,
             Connect(t) \/ ClientHandleRead(t) \/ ClientReadError(t) \/ ClientDies(t)
      PROVE UNCHANGED Ledger!vars
  BY <1>0, <1>3 DEF Connect, ClientHandleRead, ClientReadError, ClientDies, ClientStep, workVars,
                    taskVars, outputVars
<1>4. CASE Ended \/ UNCHANGED vars
  BY <1>0, <1>4 DEF Ended, vars, workVars, taskVars, outputVars
<1>5. CASE VisitTask
  <2>1. UNCHANGED <<results, lost, reported, dumped>>
    BY <1>5 DEF VisitTask, VisitWhen, outputVars
  <2>2. CASE UNCHANGED <<iteration, current>>
    BY <1>0, <2>1, <2>2
  <2>3. CASE /\ HasCommands /\ iteration' = iteration - 1 /\ Flying' = Flying \cup {NextCommand}
             /\ \E t \in Tasks : current[t] = None
    <3>1. Cardinality(Flying) < Cardinality(Tasks)
      BY <2>3, FlyingFew
    <3>2. Ledger!HandOut
      BY <2>1, <2>3, <3>1, LedgerCardinality, Zenon
         DEF Ledger!HandOut, HasCommands, NextCommand, Flying, Requests
    <3> QED BY <3>2 DEF Ledger!Next
  <2> QED BY <1>5, <2>2, <2>3, VisitTaskOK
<1>6. CASE AfterSomeWork
  <2>1. UNCHANGED <<iteration, current, results, lost>> /\ work = "after"
    BY <1>6 DEF AfterSomeWork, taskVars
  <2>2. CASE HasCommands
    BY <1>0, <1>6, <2>1, <2>2 DEF AfterSomeWork
  <2>3. CASE ~HasCommands
    <3>1. iteration = 0 /\ ~reported
      BY <2>1, <2>3, UvDispatchAssumption DEF IInv, TypeOK, Work, HasCommands
    <3>2. reported' = TRUE /\ dumped' = results
      BY <1>6, <2>3 DEF AfterSomeWork
    <3>3. Ledger!Report
      BY <2>1, <3>1, <3>2 DEF Ledger!Report
    <3> QED BY <3>3 DEF Ledger!Next
  <2> QED BY <2>2, <2>3
<1>7. ASSUME NEW t \in Tasks, Callbacks(t) PROVE Ledger!Next \/ UNCHANGED Ledger!vars
  <2>1. UNCHANGED <<iteration, reported, dumped>> /\ current[t] \in Commands \cup {None}
    BY <1>7 DEF Callbacks, HandleWrite, HandleRead, HandleReadThen, HandleReadError, Callback, workVars,
                IInv, TypeOK
  <2>2. CASE HandleWrite(t)
    BY <1>0, <2>1, <2>2 DEF HandleWrite
  <2>3. CASE HandleRead(t)
    <3>1. /\ current[t] \in Flying /\ Flying' = Flying \ {current[t]} /\ lost' = lost
          /\ Requests(results)' = Requests(results) \cup {current[t]}
      BY <2>3, HandleReadOK DEF HandleRead, HandleReadThen
    <3>2. PICK c \in Commands : c = current[t]
      BY <2>1, <3>1 DEF Flying
    <3>3. Ledger!Answer(c)
      BY <2>1, <3>1, <3>2, Zenon DEF Ledger!Answer, Flying, Requests
    <3> QED BY <3>2, <3>3 DEF Ledger!Next, Commands
  <2>4. CASE HandleReadError(t)
    <3>1. Flying' = Flying \ {current[t]} /\ lost' = lost \cup ({current[t]} \ {None}) /\ results' = results
      BY <2>4, HandleReadErrorOK DEF HandleReadError
    <3>2. CASE current[t] = None
      <4>1. Flying' = Flying /\ lost' = lost
        BY <3>1, <3>2 DEF Flying
      <4>2. UNCHANGED ledgerVars
        BY <2>1, <3>1, <4>1 DEF ledgerVars, Requests
      <4> QED BY <4>2, LedgerVars
    <3>3. CASE current[t] # None
      <4>1. PICK c \in Commands : c = current[t] /\ c \in Flying /\ lost' = lost \cup {c}
        BY <2>1, <3>1, <3>3 DEF Flying
      <4>2. Ledger!Lose({c})
        BY <2>1, <3>1, <4>1, Zenon DEF Ledger!Lose, Flying, Requests
      <4>3. {c} \in SUBSET Flying
        BY <4>1
      <4> QED BY <4>2, <4>3, Zenon DEF Ledger!Next, Flying
    <3> QED BY <3>2, <3>3
  <2> QED BY <1>7, <2>2, <2>3, <2>4 DEF Callbacks
<1> QED BY <1>1, <1>2, <1>3, <1>4, <1>5, <1>6, <1>7 DEF Next, Pool

\* The server keeps the promise of CommandLedger with room for one command per
\* task: none is handed out twice or forgotten, and the report is one snapshot
\* taken after the last.
THEOREM PromiseKept == Spec => LedgerKept
BY LedgerInit, LedgerNext, Inductive, PTL DEF Spec, LedgerKept, Ledger!Spec
=============================================================================
