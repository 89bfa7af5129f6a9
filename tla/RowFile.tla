------------------------------- MODULE RowFile --------------------------------
(***************************************************************************)
(* The file of rows behind the command servers of boost_cloud.  A starter  *)
(* process prepares it (PrepareSample, Writer::Write) unless it exists and *)
(* then starts a server and clients, whose commands look rows up in it     *)
(* (CountImpl::Run, Reader::GetRowById).  Starters may be killed, started  *)
(* again and run at the same time.                                         *)
(*                                                                         *)
(* The file is a sequence of numbers: a size_t, a row number and a         *)
(* character take one cell each.  An offset counts cells from 0.           *)
(***************************************************************************)
EXTENDS Integers, Sequences, SequencesExt, FiniteSetsExt

CONSTANTS
    Starters,   \* processes that run main of cloud_starter, each with a client
    Rows,       \* the generated rows, sequences of characters
    RowBits,    \* width of a row number (16)
    Asked       \* commands ask for rows 0 .. Asked - 1 (2999)

NewLine == 10   \* ROW_END

ASSUME RowFileAssumption ==
    /\ Rows \in Seq(Seq(Nat \ {0, NewLine}))
    /\ \A i \in DOMAIN Rows : Rows[i] # <<>>
    /\ RowBits \in Nat /\ Len(Rows) < 2 ^ RowBits
    /\ Asked \in 1 .. (Len(Rows) + 1)

VARIABLES
    exists, file,   \* what the file system holds under fileName
    starter,        \* where a starter is
    at,             \* how much of its Writer's output has reached the file
    client,         \* where the client of a starter is: idle, or in GetRowById
    rowId,          \* the row it was asked for
    offsetRef,      \* offsetRefTable, then the offset of the row
    answer,         \* what CountImpl::Run returned last
    raced           \* a Writer met another one, or a Reader
vars == <<exists, file, starter, at, client, rowId, offsetRef, answer, raced>>

starterVars == <<starter, at>>
clientVars == <<client, rowId, offsetRef, answer>>

Error == 0      \* "<error>"; a count is never 0

-----------------------------------------------------------------------------
(* Writer::Write *)

ContentByTime(s) == IF s = CHOOSE x \in Starters : TRUE THEN Rows ELSE Reverse(Rows)

\* srand is given the constant time_t(0): every starter generates the same rows.
Content(s) == Rows

\* Row::Write of each row.
Text(rows) == FlattenSeq([i \in DOMAIN rows |-> Append(rows[i], NewLine)])

RowNumberFromZero(i) == (i - 1) % 2 ^ RowBits

\* ++number, from 0.
RowNumber(i) == i % 2 ^ RowBits

RefTable(rows) == 1 + Len(Text(rows))

WrittenHeaderFirst(rows) ==
    <<RefTable(rows)>> \o Text(rows) \o <<Len(rows)>> \o
    FlattenSeq([i \in DOMAIN rows |-> <<RefTable(SubSeq(rows, 1, i - 1)), RowNumber(i)>>])

\* What is written before the seek back: a place for the offset of the table,
\* the rows, their number, and an offset and a row number for each.
Written(rows) ==
    <<0>> \o Text(rows) \o <<Len(rows)>> \o
    FlattenSeq([i \in DOMAIN rows |-> <<RefTable(SubSeq(rows, 1, i - 1)), RowNumber(i)>>])

\* cells written to f from offset o; what lies between f's end and o reads as 0.
Overwritten(f, o, cells) ==
    [i \in 1 .. Max({Len(f), o + Len(cells)}) |->
        IF i \in (o + 1) .. (o + Len(cells)) THEN cells[i - o]
        ELSE IF i <= Len(f) THEN f[i] ELSE 0]

Complete == Overwritten(Written(Rows), 0, <<RefTable(Rows)>>)

-----------------------------------------------------------------------------
(* Reader and Row *)

\* fread into a variable that was set to 0.
Word(f, o) == IF o < Len(f) THEN f[o + 1] ELSE 0

\* The entries of the table at offset o whose row number is id.
EntriesOf(f, o, id) == {i \in 1 .. Word(f, o) : Word(f, o + 2 * i) = id}

\* Row::Read keeps the characters up to and with the end of the row, or of the
\* file, and a zero.
ReadRow(f, o) ==
    LET ends == {e \in o .. (Len(f) - 1) : f[e + 1] = NewLine}
    IN SubSeq(f, o + 1, IF ends = {} THEN Len(f) ELSE Min(ends) + 1) \o <<0>>

GetCharsCount(f, o) == Len(ReadRow(f, o))

\* Reader::Read.
ReadAll(f) ==
    LET o == Word(f, 0)
    IN [i \in 1 .. Word(f, o) |-> ReadRow(f, Word(f, o + 2 * i - 1))]

-----------------------------------------------------------------------------
TypeOK ==
    /\ {exists, raced} \subseteq BOOLEAN /\ file \in Seq(Nat)
    /\ starter \in [Starters -> {"stat", "open", "write", "header", "run", "died"}]
    /\ at \in [Starters -> 0 .. Len(Written(Rows))]
    /\ client \in [Starters -> {"idle", "table", "row"}]
    /\ rowId \in [Starters -> 0 .. (Asked - 1)]
    /\ offsetRef \in [Starters -> Nat]
    /\ answer \in [id : 0 .. (Asked - 1), count : Nat]

Init ==
    /\ exists = FALSE /\ file = <<>>
    /\ starter = [s \in Starters |-> "stat"] /\ at = [s \in Starters |-> 0]
    /\ client = [s \in Starters |-> "idle"] /\ rowId = [s \in Starters |-> 0]
    /\ offsetRef = [s \in Starters |-> 0]
    /\ answer = [id |-> 0, count |-> Error] /\ raced = FALSE

Writing(s) == starter[s] \in {"write", "header"}
Move(s, there) == starter' = [starter EXCEPT ![s] = there]

-----------------------------------------------------------------------------
(* A starter: main and PrepareSample *)

\* An existing file is taken as it is; the server and the clients are started.
Stat(s) ==
    /\ starter[s] = "stat"
    /\ Move(s, IF exists THEN "run" ELSE "open")
    /\ UNCHANGED <<exists, file, at, clientVars, raced>>

\* fopen "wb" makes the file, or empties the one another starter has made.
Open(s) ==
    /\ starter[s] = "open" /\ Move(s, "write")
    /\ exists' = TRUE /\ file' = <<>>
    /\ raced' = (raced \/ \E x \in Starters : Writing(x) \/ client[x] # "idle")
    /\ UNCHANGED <<at, clientVars>>

\* ... or fails: Write does nothing and ~FileHolder closes a null pointer.
OpenFails(s) ==
    /\ starter[s] = "open" /\ Move(s, "died")
    /\ UNCHANGED <<exists, file, at, clientVars, raced>>

\* The buffer of the stream is written out when it is full; fseek writes out
\* the rest.
Flush(s) ==
    /\ starter[s] = "write"
    /\ \E next \in (at[s] + 1) .. Len(Written(Content(s))) :
         /\ file' = Overwritten(file, at[s], SubSeq(Written(Content(s)), at[s] + 1, next))
         /\ at' = [at EXCEPT ![s] = next]
         /\ IF next = Len(Written(Content(s))) THEN Move(s, "header") ELSE UNCHANGED starter
    /\ UNCHANGED <<exists, clientVars, raced>>

\* ~FileHolder writes out the offset of the table, and the children start; after
\* a CreateProcess that fails nobody reads, which is among the behaviours.
Close(s) ==
    /\ starter[s] = "header" /\ Move(s, "run")
    /\ file' = Overwritten(file, 0, <<RefTable(Content(s))>>)
    /\ UNCHANGED <<exists, at, clientVars, raced>>

\* The process is killed before it starts anybody.
Dies(s) ==
    /\ starter[s] \notin {"run", "died"} /\ Move(s, "died")
    /\ UNCHANGED <<exists, file, at, clientVars, raced>>

-----------------------------------------------------------------------------
(* A client: CountImpl::Run makes a Reader for every command *)

Reading(s, here, there) ==
    /\ starter[s] = "run" /\ exists
    /\ client[s] = here /\ client' = [client EXCEPT ![s] = there]
    /\ raced' = (raced \/ \E x \in Starters : Writing(x))
    /\ UNCHANGED <<exists, file, starterVars>>

Answer(s, count) == answer' = [id |-> rowId[s], count |-> count]

ReadHeader(s) ==
    /\ Reading(s, "idle", "table")
    /\ \E id \in 0 .. (Asked - 1) : rowId' = [rowId EXCEPT ![s] = id]
    /\ offsetRef' = [offsetRef EXCEPT ![s] = Word(file, 0)]
    /\ UNCHANGED answer

\* The first entry with the row's number; the loop ends there.
FindEntry(s) ==
    LET entries == EntriesOf(file, offsetRef[s], rowId[s]) IN
    /\ entries # {} /\ Reading(s, "table", "row")
    /\ offsetRef' = [offsetRef EXCEPT ![s] = Word(file, @ + 2 * Min(entries) - 1)]
    /\ UNCHANGED <<rowId, answer>>

FindNothing(s) ==
    /\ EntriesOf(file, offsetRef[s], rowId[s]) = {} /\ Reading(s, "table", "idle")
    /\ Answer(s, Error)
    /\ UNCHANGED <<rowId, offsetRef>>

ReadIt(s) ==
    /\ Reading(s, "row", "idle")
    /\ Answer(s, GetCharsCount(file, offsetRef[s]))
    /\ UNCHANGED <<rowId, offsetRef>>

-----------------------------------------------------------------------------
Next == \E s \in Starters :
    \/ Stat(s) \/ Open(s) \/ OpenFails(s) \/ Flush(s) \/ Close(s) \/ Dies(s)
    \/ ReadHeader(s) \/ FindEntry(s) \/ FindNothing(s) \/ ReadIt(s)

Spec == Init /\ [][Next]_vars

-----------------------------------------------------------------------------
(* Properties *)

\* The row with its end and its zero, by the definition of the rows.
Right == answer.id \in DOMAIN Rows /\ answer.count = Len(Rows[answer.id]) + 2

\* A starter killed at any point leaves a file nobody repairs, since the next
\* one only asks whether it exists (cloud_starter.cpp:24).  A lookup in it finds
\* the row or nothing, never another one, because the offset of the table is
\* written last (serializer.h:152-175); whoever reads while a starter writes, or
\* after two wrote at once, has no such promise.
NeverWrongRow == raced \/ answer.count = Error \/ Right

\* If no starter died and none met another, every row is found, except row 0:
\* numbers begin with 1 and commands with 0.
RowsFound ==
    raced \/ (\E s \in Starters : starter[s] = "died") \/ answer.id = 0 \/ Right

\* Two starters that both saw no file empty it and write it over one another;
\* when both are through the file is as if one had done it, and Reader::Read
\* gives back every row.  This rests on both generating the same rows.
SettledFile ==
    /\ \E s \in Starters : starter[s] = "run"
    /\ \A s \in Starters : starter[s] \in {"stat", "run"}
    => /\ file = Complete
       /\ ReadAll(file) = [i \in DOMAIN Rows |-> Rows[i] \o <<NewLine, 0>>]

\* Whoever runs has a file to open: a Reader without one closes a null pointer
\* in ~FileHolder (serializer.h:25-28).
ClientHasFile == \A s \in Starters : starter[s] = "run" => exists

\* The state is well formed, clients start behind a file, and a settled file is
\* whole (cloud_starter.cpp:20-112, serializer.h:139-177).
Consistent == TypeOK /\ ClientHasFile /\ SettledFile
=============================================================================
