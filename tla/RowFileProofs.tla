---------------------------- MODULE RowFileProofs -----------------------------
(***************************************************************************)
(* Proofs about RowFile, for any rows, any number of starters and any way  *)
(* their writes, deaths and lookups interleave.                            *)
(*                                                                         *)
(* The first half is about data: what FlattenSeq concatenates, hence where *)
(* Writer::Write puts each cell of the file and what Reader finds there.   *)
(* Its inductions are made by the least counterexample (LeastNatural).     *)
(* The second half is the inductive invariant IInv of the specification.   *)
(***************************************************************************)
EXTENDS RowFile, SequenceTheorems, WellFoundedInduction, TLAPS

-----------------------------------------------------------------------------
(* FlattenSeq *)

\* Every set of naturals that is not empty has a least element.
LEMMA LeastNatural ==
    ASSUME NEW T, T \subseteq Nat, T # {}
    PROVE \E x \in T : \A y \in T : x <= y
<1> DEFINE Less == {ss \in Nat \X Nat : ss[1] < ss[2]}
<1>1. IsWellFoundedOn(Less, Nat)
  BY NatLessThanWellFounded, Zenon DEF OpToRel
<1>2. PICK x \in T : \A y \in T : ~(<<y, x>> \in Less)
  <2> HIDE DEF Less
  <2> QED BY <1>1, WFMin
<1>3. \A y \in T : ~(y < x)
  BY <1>2
<1> QED BY <1>3

\* g concatenates the first n pieces.
Joins(g, ss, n) ==
    /\ DOMAIN g = 1 .. n
    /\ \A i \in 1 .. n : g[i] = IF i = 1 THEN ss[i] ELSE g[i - 1] \o ss[i]

\* FlattenSeq of some pieces, with the function it is defined by.
LEMMA FlattenUnfold ==
    ASSUME NEW ss, Len(ss) # 0
    PROVE FlattenSeq(ss) =
      (CHOOSE g : g = [i \in 1 .. Len(ss) |-> IF i = 1 THEN ss[i] ELSE g[i - 1] \o ss[i]])[Len(ss)]
BY Zenon DEF FlattenSeq

\* There is such a function, whatever the pieces.
LEMMA JoinsExist ==
    ASSUME NEW S, NEW ss \in Seq(Seq(S)), NEW m \in 0 .. Len(ss)
    PROVE \E g \in [1 .. m -> Seq(S)] : Joins(g, ss, m)
<1> DEFINE Has(n) == \E g \in [1 .. n -> Seq(S)] : Joins(g, ss, n)
           T == {n \in 0 .. Len(ss) : ~Has(n)}
<1>0. Len(ss) \in Nat /\ \A i \in 1 .. Len(ss) : ss[i] \in Seq(S)
  OBVIOUS
<1>1. Has(0)
  <2>1. [i \in 1 .. 0 |-> <<>>] \in [1 .. 0 -> Seq(S)]
    OBVIOUS
  <2>2. Joins([i \in 1 .. 0 |-> <<>>], ss, 0)
    BY DEF Joins
  <2> QED BY <2>1, <2>2
<1>2. ASSUME NEW n \in 1 .. Len(ss), Has(n - 1) PROVE Has(n)
  <2>1. PICK g \in [1 .. (n - 1) -> Seq(S)] : Joins(g, ss, n - 1)
    BY <1>2
  <2>2. PICK e \in Seq(S) : e = IF n = 1 THEN ss[n] ELSE g[n - 1] \o ss[n]
    <3>1. CASE n = 1
      BY <1>0, <3>1
    <3>2. CASE n # 1
      <4>1. g[n - 1] \in Seq(S) /\ ss[n] \in Seq(S)
        BY <1>0, <3>2
      <4> QED BY <3>2, <4>1, ConcatProperties
    <3> QED BY <3>1, <3>2
  <2>3. PICK h : h = [i \in 1 .. n |-> IF i = n THEN e ELSE g[i]]
    OBVIOUS
  <2>4. h \in [1 .. n -> Seq(S)]
    BY <2>3
  <2>5. \A i \in 1 .. (n - 1) : h[i] = g[i]
    BY <2>3
  <2>6. h[n] = e
    BY <2>3
  <2>7. ASSUME NEW i \in 1 .. n PROVE h[i] = IF i = 1 THEN ss[i] ELSE h[i - 1] \o ss[i]
    <3>1. CASE i = n
      <4>1. CASE n = 1
        BY <2>2, <2>6, <3>1, <4>1
      <4>2. CASE n # 1
        <5>1. h[n - 1] = g[n - 1]
          BY <2>5, <4>2
        <5> QED BY <2>2, <2>6, <3>1, <4>2, <5>1
      <4> QED BY <4>1, <4>2
    <3>2. CASE i # n /\ i = 1
      <4>1. i \in 1 .. (n - 1)
        BY <3>2
      <4>2. g[i] = ss[i]
        BY <2>1, <3>2, <4>1 DEF Joins
      <4> QED BY <2>5, <3>2, <4>1, <4>2
    <3>3. CASE i # n /\ i # 1
      <4>1. i \in 1 .. (n - 1) /\ i - 1 \in 1 .. (n - 1)
        BY <3>3
      <4> QED BY <2>1, <2>5, <3>3, <4>1 DEF Joins
    <3> QED BY <3>1, <3>2, <3>3
  <2>8. Joins(h, ss, n)
    BY <2>4, <2>7 DEF Joins
  <2> QED BY <2>4, <2>8
<1> HIDE DEF Has
<1>3. T = {}
  <2> SUFFICES ASSUME T # {} PROVE FALSE
    OBVIOUS
  <2>0. T \subseteq Nat
    BY <1>0
  <2>1. PICK n \in T : \A y \in T : n <= y
    <3> HIDE DEF T
    <3> QED BY <2>0, LeastNatural
  <2>2. n \in 1 .. Len(ss)
    BY <1>0, <1>1, <2>1
  <2>3. n - 1 \in 0 .. Len(ss) /\ n - 1 \notin T
    BY <1>0, <2>1, <2>2
  <2> QED BY <1>2, <2>1, <2>2, <2>3
<1>4. Has(m)
  BY <1>3
<1> QED BY <1>4 DEF Has

\* Two such functions agree.
LEMMA JoinsUnique ==
    ASSUME NEW ss, NEW n \in Nat, NEW g, NEW h, Joins(g, ss, n), Joins(h, ss, n),
           NEW m \in 1 .. n
    PROVE g[m] = h[m]
<1> DEFINE T == {i \in 1 .. n : g[i] # h[i]}
<1>1. ASSUME T # {} PROVE FALSE
  <2>0. T \subseteq Nat
    OBVIOUS
  <2>1. PICK i \in T : \A j \in T : i <= j
    <3> HIDE DEF T
    <3> QED BY <1>1, <2>0, LeastNatural
  <2>2. CASE i = 1
    BY <2>1, <2>2 DEF Joins
  <2>3. CASE i # 1
    <3>1. i - 1 \in 1 .. n /\ i - 1 \notin T
      BY <2>1, <2>3
    <3>2. g[i - 1] = h[i - 1]
      BY <3>1
    <3> QED BY <2>1, <2>3, <3>2 DEF Joins
  <2> QED BY <2>2, <2>3
<1> QED BY <1>1

\* So FlattenSeq is the last value of any of them.
LEMMA FlattenJoins ==
    ASSUME NEW S, NEW ss \in Seq(Seq(S)), Len(ss) # 0, NEW g, Joins(g, ss, Len(ss))
    PROVE FlattenSeq(ss) = g[Len(ss)]
<1>0. Len(ss) \in Nat /\ Len(ss) \in 0 .. Len(ss) /\ Len(ss) \in 1 .. Len(ss)
  OBVIOUS
<1> DEFINE Eq(h) == h = [i \in 1 .. Len(ss) |-> IF i = 1 THEN ss[i] ELSE h[i - 1] \o ss[i]]
<1>1. PICK f \in [1 .. Len(ss) -> Seq(S)] : Joins(f, ss, Len(ss))
  BY <1>0, JoinsExist
<1>2. Eq(f)
  BY <1>1 DEF Joins
<1>3. PICK h : h = CHOOSE x : Eq(x)
  OBVIOUS
<1>4. Eq(h)
  <2> HIDE DEF Eq
  <2> QED BY <1>2, <1>3
<1>5. Joins(h, ss, Len(ss))
  <2>1. PICK r : r = [i \in 1 .. Len(ss) |-> IF i = 1 THEN ss[i] ELSE h[i - 1] \o ss[i]]
    OBVIOUS
  <2>2. h = r
    BY <1>4, <2>1
  <2>3. DOMAIN r = 1 .. Len(ss) /\ \A i \in 1 .. Len(ss) : r[i] = IF i = 1 THEN ss[i] ELSE h[i - 1] \o ss[i]
    BY <2>1
  <2> QED BY <2>2, <2>3 DEF Joins
<1>6. h[Len(ss)] = g[Len(ss)]
  BY <1>0, <1>5, JoinsUnique
<1>7. FlattenSeq(ss) = h[Len(ss)]
  BY <1>3, FlattenUnfold, Zenon
<1> QED BY <1>6, <1>7

\* FlattenSeq, one piece at a time.
LEMMA FlattenAppend ==
    ASSUME NEW S, NEW ss \in Seq(Seq(S)), NEW s \in Seq(S)
    PROVE /\ FlattenSeq(ss) \in Seq(S)
          /\ FlattenSeq(Append(ss, s)) = FlattenSeq(ss) \o s
<1> DEFINE n == Len(ss)
           tt == Append(ss, s)
<1>0. /\ n \in Nat /\ n \in 0 .. n /\ tt \in Seq(Seq(S)) /\ Len(tt) = n + 1 /\ tt[n + 1] = s
      /\ n + 1 \in 0 .. Len(tt) /\ \A i \in 1 .. n : tt[i] = ss[i]
  OBVIOUS
<1> HIDE DEF tt
<1>1. PICK g \in [1 .. (n + 1) -> Seq(S)] : Joins(g, tt, n + 1)
  BY <1>0, JoinsExist
<1>2. FlattenSeq(tt) = g[n + 1]
  BY <1>0, <1>1, FlattenJoins
<1>3. CASE n = 0
  <2>1. ss = <<>> /\ FlattenSeq(ss) = <<>>
    <3>1. ss = <<>>
      BY <1>3, EmptySeq
    <3> QED BY <3>1 DEF FlattenSeq
  <2>2. g[n + 1] = s
    BY <1>0, <1>1, <1>3 DEF Joins
  <2>3. <<>> \in Seq(S) /\ <<>> \o s = s
    BY ConcatEmptySeq
  <2> QED BY <1>2, <2>1, <2>2, <2>3 DEF tt
<1>4. CASE n # 0
  <2>1. PICK h : h = [i \in 1 .. n |-> g[i]]
    OBVIOUS
  <2>2. Joins(h, ss, n)
    <3>1. \A i \in 1 .. n : i \in 1 .. (n + 1) /\ (i # 1 => i - 1 \in 1 .. n)
      BY <1>0
    <3> QED BY <1>0, <1>1, <2>1, <3>1 DEF Joins
  <2>3. FlattenSeq(ss) = h[n] /\ h[n] = g[n] /\ g[n] \in Seq(S)
    <3>1. n \in 1 .. n /\ n \in 1 .. (n + 1)
      BY <1>0, <1>4
    <3> QED BY <1>1, <1>4, <2>1, <2>2, <3>1, FlattenJoins
  <2>4. g[n + 1] = g[n] \o s
    <3>1. n + 1 \in 1 .. (n + 1) /\ n + 1 # 1 /\ (n + 1) - 1 = n
      BY <1>0, <1>4
    <3> QED BY <1>0, <1>1, <3>1 DEF Joins
  <2> QED BY <1>2, <2>3, <2>4 DEF tt
<1> QED BY <1>3, <1>4

\* The first k pieces, one after the other.
Leading(ss, k) == FlattenSeq(SubSeq(ss, 1, k))

\* One piece more.
LEMMA LeadingStep ==
    ASSUME NEW S, NEW ss \in Seq(Seq(S)), NEW k \in 1 .. Len(ss)
    PROVE /\ Leading(ss, k - 1) \in Seq(S)
          /\ Leading(ss, k) = Leading(ss, k - 1) \o ss[k]
<1>1. SubSeq(ss, 1, k - 1) \in Seq(Seq(S)) /\ ss[k] \in Seq(S)
  OBVIOUS
<1>2. SubSeq(ss, 1, k) = Append(SubSeq(ss, 1, k - 1), ss[k])
  OBVIOUS
<1> QED BY <1>1, <1>2, FlattenAppend DEF Leading

\* No piece, and all of them.
LEMMA LeadingEnds ==
    ASSUME NEW S, NEW ss \in Seq(Seq(S))
    PROVE /\ Leading(ss, 0) = <<>>
          /\ Leading(ss, Len(ss)) = FlattenSeq(ss)
          /\ \A k \in 0 .. Len(ss) : Leading(ss, k) \in Seq(S)
<1>1. SubSeq(ss, 1, 0) = <<>> /\ SubSeq(ss, 1, Len(ss)) = ss
  OBVIOUS
<1>2. FlattenSeq(<<>>) = <<>>
  BY DEF FlattenSeq
<1>3. ASSUME NEW k \in 0 .. Len(ss) PROVE Leading(ss, k) \in Seq(S)
  <2>1. SubSeq(ss, 1, k) \in Seq(Seq(S)) /\ <<>> \in Seq(S)
    OBVIOUS
  <2> QED BY <2>1, FlattenAppend DEF Leading
<1> QED BY <1>1, <1>2, <1>3 DEF Leading

\* The cells of a concatenation.
LEMMA ConcatCells ==
    ASSUME NEW S, NEW a \in Seq(S), NEW p \in Seq(S)
    PROVE /\ a \o p \in Seq(S)
          /\ Len(a) \in Nat /\ Len(p) \in Nat /\ Len(a \o p) = Len(a) + Len(p)
          /\ \A i \in 1 .. Len(a) : (a \o p)[i] = a[i]
          /\ \A j \in 1 .. Len(p) : Len(a) + j \in 1 .. (Len(a) + Len(p)) /\ (a \o p)[Len(a) + j] = p[j]
OBVIOUS

\* The same as LeadingStep, with names for the three sequences.
LEMMA LeadingParts ==
    ASSUME NEW S, NEW ss \in Seq(Seq(S)), NEW k \in 1 .. Len(ss)
    PROVE \E a \in Seq(S), b \in Seq(S), p \in Seq(S) :
            a = Leading(ss, k - 1) /\ b = Leading(ss, k) /\ p = ss[k] /\ b = a \o p
<1>1. ss[k] \in Seq(S) /\ k \in 0 .. Len(ss)
  OBVIOUS
<1>2. Leading(ss, k) \in Seq(S)
  BY <1>1, LeadingEnds
<1> QED BY <1>1, <1>2, LeadingStep, Zenon

\* a opens b.
Opens(a, b) == Len(a) <= Len(b) /\ \A i \in 1 .. Len(a) : a[i] = b[i]

\* The first pieces open the whole.
LEMMA LeadingOpens ==
    ASSUME NEW S, NEW ss \in Seq(Seq(S)), NEW m \in 0 .. Len(ss)
    PROVE Opens(Leading(ss, m), FlattenSeq(ss))
<1> DEFINE n == Len(ss)
           F == FlattenSeq(ss)
           T == {d \in 0 .. n : ~Opens(Leading(ss, n - d), F)}
<1>0. n \in Nat
  OBVIOUS
<1>1. T \subseteq Nat
  BY <1>0
<1>2. ASSUME T # {} PROVE FALSE
  <2>1. PICK d \in T : \A e \in T : d <= e
    <3> HIDE DEF T
    <3> QED BY <1>1, <1>2, LeastNatural
  <2>2. d # 0
    <3>1. Leading(ss, n) = F /\ F \in Seq(S)
      BY <1>0, LeadingEnds
    <3>2. Opens(F, F)
      BY <3>1 DEF Opens
    <3>3. n - 0 = n
      BY <1>0
    <3> QED BY <2>1, <3>1, <3>2, <3>3
  <2>3. PICK k \in 1 .. n : k = n - d + 1 /\ k - 1 = n - d /\ n - (d - 1) = k /\ d - 1 \in 0 .. n /\ ~(d <= d - 1)
    <3>1. d \in 0 .. n
      BY <2>1
    <3> HIDE DEF n, F, T
    <3> QED BY <1>0, <2>2, <3>1
  <2>4. Opens(Leading(ss, k), F)
    BY <2>1, <2>3
  <2>5. PICK a \in Seq(S), b \in Seq(S), p \in Seq(S) :
          a = Leading(ss, k - 1) /\ b = Leading(ss, k) /\ p = ss[k] /\ b = a \o p
    BY LeadingParts
  <2>6. Opens(a, b)
    <3>1. /\ Len(a) \in Nat /\ Len(p) \in Nat /\ Len(b) = Len(a) + Len(p)
          /\ \A i \in 1 .. Len(a) : b[i] = a[i]
      BY <2>5, ConcatCells
    <3> QED BY <3>1 DEF Opens
  <2>7. Opens(a, F)
    <3>1. F \in Seq(S)
      BY LeadingEnds, <1>0
    <3> HIDE DEF F
    <3>2. Opens(b, F)
      BY <2>4, <2>5, Zenon
    <3>2a. Len(a) \in Nat /\ Len(b) \in Nat /\ Len(F) \in Nat
      <4> HIDE DEF T, n
      <4> QED BY <3>1
    <3>3. Len(a) <= Len(b) /\ Len(b) <= Len(F)
      BY <2>6, <3>2, Zenon DEF Opens
    <3>4. Len(a) <= Len(F) /\ \A i \in 1 .. Len(a) : i \in 1 .. Len(b)
      BY <3>2a, <3>3
    <3> QED BY <2>6, <3>2, <3>4, Zenon DEF Opens
  <2> QED BY <2>1, <2>3, <2>5, <2>7
<1>3. n - m \in 0 .. n /\ n - (n - m) = m
  BY <1>0
<1> QED BY <1>2, <1>3

\* Where the k-th piece lies.
LEMMA FlattenPiece ==
    ASSUME NEW S, NEW ss \in Seq(Seq(S)), NEW k \in 1 .. Len(ss)
    PROVE /\ Len(Leading(ss, k - 1)) + Len(ss[k]) <= Len(FlattenSeq(ss))
          /\ \A j \in 1 .. Len(ss[k]) : FlattenSeq(ss)[Len(Leading(ss, k - 1)) + j] = ss[k][j]
<1>1. PICK a \in Seq(S), b \in Seq(S), p \in Seq(S), F \in Seq(S) :
        a = Leading(ss, k - 1) /\ b = Leading(ss, k) /\ p = ss[k] /\ b = a \o p /\ F = FlattenSeq(ss)
  <2>1. FlattenSeq(ss) \in Seq(S)
    BY LeadingEnds
  <2>2. PICK a \in Seq(S), b \in Seq(S), p \in Seq(S) :
          a = Leading(ss, k - 1) /\ b = Leading(ss, k) /\ p = ss[k] /\ b = a \o p
    BY LeadingParts
  <2> QED BY <2>1, <2>2, Zenon
<1>2. Opens(b, F)
  <2>1. k \in 0 .. Len(ss)
    OBVIOUS
  <2> QED BY <1>1, <2>1, LeadingOpens, Zenon
<1>3. /\ Len(b) = Len(a) + Len(p)
      /\ \A j \in 1 .. Len(p) : Len(a) + j \in 1 .. Len(b) /\ b[Len(a) + j] = p[j]
  <2>1. /\ Len(a \o p) = Len(a) + Len(p)
        /\ \A j \in 1 .. Len(p) : Len(a) + j \in 1 .. (Len(a) + Len(p)) /\ (a \o p)[Len(a) + j] = p[j]
    BY <1>1, ConcatCells
  <2> QED BY <1>1, <2>1
<1>4. Len(a) + Len(p) <= Len(F) /\ \A j \in 1 .. Len(p) : F[Len(a) + j] = p[j]
  BY <1>2, <1>3 DEF Opens
<1> QED BY <1>1, <1>4

\* A sequence of pairs.
LEMMA FlattenPairs ==
    ASSUME NEW S, NEW ss \in Seq(Seq(S)), \A i \in 1 .. Len(ss) : Len(ss[i]) = 2,
           NEW m \in 0 .. Len(ss)
    PROVE Len(Leading(ss, m)) = 2 * m
<1> DEFINE n == Len(ss)
           T == {k \in 0 .. n : Len(Leading(ss, k)) # 2 * k}
<1>0. n \in Nat
  OBVIOUS
<1>1. T \subseteq Nat
  BY <1>0
<1>2. ASSUME T # {} PROVE FALSE
  <2>1. PICK k \in T : \A e \in T : k <= e
    <3> HIDE DEF T
    <3> QED BY <1>1, <1>2, LeastNatural
  <2>2. k # 0
    BY <2>1, LeadingEnds
  <2>3. k \in 1 .. n /\ k - 1 \in 0 .. n /\ k - 1 \notin T
    BY <1>0, <2>1, <2>2
  <2>4. PICK a \in Seq(S), b \in Seq(S), p \in Seq(S) :
          a = Leading(ss, k - 1) /\ b = Leading(ss, k) /\ p = ss[k] /\ b = a \o p
    BY <2>3, LeadingParts
  <2>5. Len(b) = Len(a) + Len(p) /\ Len(p) = 2 /\ Len(a) = 2 * (k - 1)
    BY <2>3, <2>4, ConcatProperties
  <2>6. Len(b) = 2 * k
    BY <2>3, <2>5
  <2> QED BY <2>1, <2>4, <2>6
<1> QED BY <1>2

-----------------------------------------------------------------------------
(* The Writer's output, cell by cell *)

Lines == [i \in DOMAIN Rows |-> Append(Rows[i], NewLine)]
Table == [i \in DOMAIN Rows |-> <<RefTable(SubSeq(Rows, 1, i - 1)), RowNumber(i)>>]
Chars == Nat \ {0, NewLine}

\* The rows hold no end of a row and none is empty (RowFileAssumption).
LEMMA RowsType ==
    /\ Len(Rows) \in Nat /\ DOMAIN Rows = 1 .. Len(Rows)
    /\ \A i \in 1 .. Len(Rows) :
         /\ Rows[i] \in Seq(Nat) /\ Len(Rows[i]) \in Nat \ {0}
         /\ \A j \in 1 .. Len(Rows[i]) : Rows[i][j] \in Nat /\ Rows[i][j] # NewLine
<1>1. Rows \in Seq(Seq(Chars)) /\ \A i \in DOMAIN Rows : Rows[i] # <<>>
  BY RowFileAssumption DEF Chars
<1>2. Len(Rows) \in Nat /\ DOMAIN Rows = 1 .. Len(Rows)
  BY <1>1
<1>3. ASSUME NEW i \in 1 .. Len(Rows)
      PROVE /\ Rows[i] \in Seq(Nat) /\ Len(Rows[i]) \in Nat \ {0}
            /\ \A j \in 1 .. Len(Rows[i]) : Rows[i][j] \in Nat /\ Rows[i][j] # NewLine
  <2>1. PICK r \in Seq(Chars) : r = Rows[i] /\ r # <<>>
    BY <1>1, <1>2
  <2>2. \A j \in 1 .. Len(r) : r[j] \in Chars
    BY <2>1
  <2>3. \A j \in 1 .. Len(r) : r[j] \in Nat /\ r[j] # NewLine
    BY <2>2 DEF Chars
  <2>4. r \in [1 .. Len(r) -> Nat] /\ Len(r) \in Nat
    BY <2>3
  <2>5. r \in Seq(Nat) /\ Len(r) # 0
    BY <2>1, <2>4, EmptySeq
  <2> QED BY <2>1, <2>3, <2>4, <2>5
<1> QED BY <1>2, <1>3

\* Row::Write: the characters of the row, then its end.
LEMMA LinesType ==
    /\ Lines \in Seq(Seq(Nat)) /\ Len(Lines) = Len(Rows)
    /\ \A i \in 1 .. Len(Rows) :
         /\ Lines[i] = Append(Rows[i], NewLine)
         /\ Len(Lines[i]) = Len(Rows[i]) + 1
         /\ \A j \in 1 .. Len(Rows[i]) : Lines[i][j] = Rows[i][j]
         /\ Lines[i][Len(Rows[i]) + 1] = NewLine
<1>1. Len(Rows) \in Nat /\ DOMAIN Rows = 1 .. Len(Rows)
  BY RowsType
<1>2. NewLine \in Nat
  BY DEF NewLine
<1>3. ASSUME NEW i \in 1 .. Len(Rows)
      PROVE /\ Lines[i] \in Seq(Nat) /\ Lines[i] = Append(Rows[i], NewLine)
            /\ Len(Lines[i]) = Len(Rows[i]) + 1
            /\ \A j \in 1 .. Len(Rows[i]) : Lines[i][j] = Rows[i][j]
            /\ Lines[i][Len(Rows[i]) + 1] = NewLine
  <2>1. PICK r \in Seq(Nat) : r = Rows[i]
    BY RowsType
  <2>2. PICK l : l = Append(r, NewLine)
    OBVIOUS
  <2>3. Lines[i] = l
    BY <1>1, <2>1, <2>2 DEF Lines
  <2>4. /\ l \in Seq(Nat) /\ Len(l) = Len(r) + 1
        /\ \A j \in 1 .. Len(r) : l[j] = r[j]
        /\ l[Len(r) + 1] = NewLine
    BY <1>2, <2>2
  <2> QED BY <2>1, <2>2, <2>3, <2>4, Zenon
<1>4. Lines = [i \in 1 .. Len(Rows) |-> Lines[i]]
  BY <1>1 DEF Lines
<1> HIDE DEF Lines
<1>5. Lines \in [1 .. Len(Rows) -> Seq(Nat)]
  BY <1>3, <1>4
<1>6. Lines \in Seq(Seq(Nat)) /\ Len(Lines) = Len(Rows)
  BY <1>1, <1>5
<1> QED BY <1>3, <1>6

\* The cells of the first part of a sequence.
LEMMA SubSeqCells ==
    ASSUME NEW S, NEW s \in Seq(S), NEW k \in 0 .. Len(s)
    PROVE /\ SubSeq(s, 1, k) \in Seq(S) /\ Len(SubSeq(s, 1, k)) = k
          /\ SubSeq(s, 1, k) \in [1 .. k -> S]
          /\ \A i \in 1 .. k : SubSeq(s, 1, k)[i] = s[i]
<1>1. Len(s) \in Nat /\ k \in Nat /\ k <= Len(s)
  OBVIOUS
<1>2. SubSeq(s, 1, k) \in Seq(S) /\ Len(SubSeq(s, 1, k)) = k /\ \A i \in 1 .. k : SubSeq(s, 1, k)[i] = s[i]
  BY <1>1
<1>3. \A t \in Seq(S) : Len(t) = k => t \in [1 .. k -> S]
  BY <1>1
<1> QED BY <1>2, <1>3

\* The text of the first k rows is the front of the text.
LEMMA TextLeading ==
    ASSUME NEW k \in 0 .. Len(Rows)
    PROVE /\ Text(SubSeq(Rows, 1, k)) = Leading(Lines, k)
          /\ Text(SubSeq(Rows, 1, k)) \in Seq(Nat)
<1>1. Len(Rows) \in Nat /\ DOMAIN Rows = 1 .. Len(Rows) /\ Rows \in Seq(Seq(Chars))
  BY RowsType, RowFileAssumption DEF Chars
<1>2. PICK first : first = SubSeq(Rows, 1, k)
  OBVIOUS
<1>3. DOMAIN first = 1 .. k /\ \A i \in 1 .. k : first[i] = Rows[i]
  BY <1>1, <1>2
<1>4. PICK lines : lines = [i \in DOMAIN first |-> Append(first[i], NewLine)]
  OBVIOUS
<1>5. lines \in [1 .. k -> Seq(Nat)] /\ \A i \in 1 .. k : lines[i] = Lines[i]
  <2>1. \A i \in 1 .. k : i \in 1 .. Len(Rows) /\ i \in DOMAIN first
    BY <1>1, <1>3
  <2>2. DOMAIN lines = 1 .. k /\ lines = [i \in 1 .. k |-> lines[i]]
    BY <1>3, <1>4
  <2>3. ASSUME NEW i \in 1 .. k PROVE lines[i] = Lines[i] /\ Lines[i] \in Seq(Nat)
    <3>1. lines[i] = Append(Rows[i], NewLine)
      BY <1>3, <1>4, <2>1
    <3>2. i \in 1 .. Len(Rows) /\ Len(Lines) = Len(Rows) /\ Lines \in Seq(Seq(Nat))
      BY <2>1, LinesType
    <3> QED BY <3>1, <3>2, LinesType
  <2> QED BY <2>2, <2>3
<1>6. lines = SubSeq(Lines, 1, k)
  <2>1. Lines \in Seq(Seq(Nat)) /\ Len(Lines) = Len(Rows)
    BY LinesType
  <2>2. SubSeq(Lines, 1, k) \in [1 .. k -> Seq(Nat)] /\ \A i \in 1 .. k : SubSeq(Lines, 1, k)[i] = Lines[i]
    BY <1>1, <2>1, SubSeqCells
  <2> QED BY <1>5, <2>2
<1>7. Text(first) = Leading(Lines, k)
  BY <1>4, <1>6, Zenon DEF Text, Leading
<1>8. Leading(Lines, k) \in Seq(Nat)
  BY LinesType, LeadingEnds
<1> QED BY <1>2, <1>7, <1>8

\* ... and the text of all rows is the text.
LEMMA TextWhole ==
    /\ SubSeq(Rows, 1, Len(Rows)) = Rows /\ Text(Rows) = FlattenSeq(Lines) /\ Text(Rows) \in Seq(Nat)
<1>1. Len(Rows) \in 0 .. Len(Rows) /\ SubSeq(Rows, 1, Len(Rows)) = Rows
  <2>1. Rows \in Seq(Seq(Chars))
    BY RowFileAssumption DEF Chars
  <2> QED BY <2>1
<1>2. Leading(Lines, Len(Lines)) = FlattenSeq(Lines)
  BY LinesType, LeadingEnds
<1> QED BY <1>1, <1>2, LinesType, TextLeading

\* An entry is an offset and a row number; the number has not wrapped, as
\* there are fewer rows than 2 ^ RowBits.
LEMMA TableType ==
    /\ Table \in Seq(Seq(Nat)) /\ Len(Table) = Len(Rows)
    /\ \A i \in 1 .. Len(Rows) :
         /\ Table[i] = <<RefTable(SubSeq(Rows, 1, i - 1)), i>>
         /\ Len(Table[i]) = 2
         /\ RefTable(SubSeq(Rows, 1, i - 1)) \in Nat
<1>1. Len(Rows) \in Nat /\ DOMAIN Rows = 1 .. Len(Rows)
  BY RowsType
<1>2. ASSUME NEW i \in 1 .. Len(Rows)
      PROVE /\ Table[i] = <<RefTable(SubSeq(Rows, 1, i - 1)), i>>
            /\ Len(Table[i]) = 2 /\ Table[i] \in Seq(Nat)
            /\ RefTable(SubSeq(Rows, 1, i - 1)) \in Nat
  <2>1. RowNumber(i) = i
    <3>1. i \in Nat /\ i < 2 ^ RowBits /\ RowBits \in Nat
      BY <1>1, RowFileAssumption
    <3> QED BY <3>1 DEF RowNumber
  <2>2. PICK t \in Seq(Nat) : t = Text(SubSeq(Rows, 1, i - 1))
    <3>1. i - 1 \in 0 .. Len(Rows)
      BY <1>1
    <3> QED BY <3>1, TextLeading
  <2>3. PICK o \in Nat : o = RefTable(SubSeq(Rows, 1, i - 1))
    <3>1. 1 + Len(t) \in Nat
      OBVIOUS
    <3> QED BY <2>2, <3>1 DEF RefTable
  <2>4. Table[i] = <<o, i>>
    BY <1>1, <2>1, <2>3 DEF Table
  <2> QED BY <2>3, <2>4
<1>3. Table = [i \in 1 .. Len(Rows) |-> Table[i]]
  BY <1>1 DEF Table
<1> HIDE DEF Table
<1>4. Table \in [1 .. Len(Rows) -> Seq(Nat)]
  BY <1>2, <1>3
<1>5. Table \in Seq(Seq(Nat)) /\ Len(Table) = Len(Rows)
  BY <1>1, <1>4
<1> QED BY <1>2, <1>5

Output == Written(Rows)

\* Where the i-th row begins.
Ref(i) == RefTable(SubSeq(Rows, 1, i - 1))

\* A single cell.
LEMMA OneCell ==
    ASSUME NEW c \in Nat PROVE <<c>> \in Seq(Nat) /\ Len(<<c>>) = 1 /\ <<c>>[1] = c
OBVIOUS

\* The four parts of the file, by their places.
LEMMA FourParts ==
    ASSUME NEW a \in Nat, NEW b \in Nat, NEW t \in Seq(Nat), NEW u \in Seq(Nat), NEW f,
           f = <<a>> \o t \o <<b>> \o u
    PROVE /\ f \in Seq(Nat) /\ Len(f) = 2 + Len(t) + Len(u)
          /\ f[1] = a /\ f[2 + Len(t)] = b
          /\ \A p \in 1 .. Len(t) : f[p + 1] = t[p]
          /\ \A q \in 1 .. Len(u) : f[2 + Len(t) + q] = u[q]
<1>1. PICK x : x = <<a>> \o t
  OBVIOUS
<1>2. x \in Seq(Nat) /\ Len(x) = 1 + Len(t) /\ x[1] = a /\ \A p \in 1 .. Len(t) : x[p + 1] = t[p]
  BY <1>1
<1>3. PICK y : y = x \o <<b>>
  OBVIOUS
<1>3a. y \in Seq(Nat) /\ Len(y) = Len(x) + 1 /\ y[Len(x) + 1] = b /\ \A p \in 1 .. Len(x) : y[p] = x[p]
  BY <1>2, <1>3
<1>3b. f = y \o u
  BY <1>1, <1>3
<1>3c. /\ f \in Seq(Nat) /\ Len(f) = Len(y) + Len(u)
      /\ \A p \in 1 .. Len(y) : f[p] = y[p]
      /\ \A q \in 1 .. Len(u) : f[Len(y) + q] = u[q]
  <2>1. /\ y \o u \in Seq(Nat) /\ Len(y \o u) = Len(y) + Len(u)
        /\ \A p \in 1 .. Len(y) : (y \o u)[p] = y[p]
        /\ \A q \in 1 .. Len(u) : (y \o u)[Len(y) + q] = u[q]
    <3>1. y \in Seq(Nat)
      BY <1>3a
    <3>2. \A v, w \in Seq(Nat) :
            /\ v \o w \in Seq(Nat) /\ Len(v \o w) = Len(v) + Len(w)
            /\ \A p \in 1 .. Len(v) : (v \o w)[p] = v[p]
            /\ \A q \in 1 .. Len(w) : (v \o w)[Len(v) + q] = w[q]
      BY ConcatCells
    <3> QED BY <3>1, <3>2, Zenon
  <2> QED BY <1>3b, <2>1
<1>4. Len(t) \in Nat /\ Len(u) \in Nat
  OBVIOUS
<1>5. PICK l \in Nat, m \in Nat, k \in Nat : l = Len(t) /\ m = Len(x) /\ k = Len(y) /\ m = 1 + l /\ k = 2 + l
  BY <1>2, <1>3a, <1>4
<1>6. Len(f) = 2 + Len(t) + Len(u) /\ \A q \in 1 .. Len(u) : f[2 + Len(t) + q] = u[q]
  BY <1>3c, <1>5
<1>7. y[1] = a /\ f[1] = a /\ f[2 + l] = b
  <2>1. 1 \in 1 .. m /\ 1 \in 1 .. k /\ 2 + l \in 1 .. k /\ m + 1 = 2 + l
    BY <1>5
  <2> QED BY <1>2, <1>3a, <1>3c, <1>5, <2>1
<1>8. ASSUME NEW p \in 1 .. l PROVE f[p + 1] = t[p]
  <2>1. p + 1 \in 1 .. m /\ p + 1 \in 1 .. k
    BY <1>5
  <2> QED BY <1>2, <1>3a, <1>3c, <1>5, <2>1
<1> QED BY <1>3c, <1>5, <1>6, <1>7, <1>8

\* Writer::Write: the place for the header, the text, the number of rows and
\* the table, and where each begins.
LEMMA Layout ==
    /\ Output \in Seq(Nat) /\ RefTable(Rows) = 1 + Len(Text(Rows))
    /\ Len(Text(Rows)) \in Nat /\ Len(Rows) \in Nat
    /\ Len(Output) = RefTable(Rows) + 1 + 2 * Len(Rows)
    /\ Output[1] = 0 /\ Output[RefTable(Rows) + 1] = Len(Rows)
    /\ \A p \in 1 .. Len(Text(Rows)) : Output[p + 1] = Text(Rows)[p]
    /\ \A q \in 1 .. (2 * Len(Rows)) : Output[RefTable(Rows) + 1 + q] = FlattenSeq(Table)[q]
<1>1. PICK t \in Seq(Nat) : t = Text(Rows)
  BY TextWhole
<1>2. PICK n \in Nat : n = Len(Rows)
  BY RowsType
<1>3. PICK u \in Seq(Nat) : u = FlattenSeq(Table) /\ Len(u) = 2 * n
  <2>1. Table \in Seq(Seq(Nat)) /\ Len(Table) = n /\ n \in 0 .. Len(Table)
    BY <1>2, TableType
  <2>2. Leading(Table, n) = FlattenSeq(Table) /\ Leading(Table, n) \in Seq(Nat)
    BY <2>1, LeadingEnds
  <2>3. Len(Leading(Table, n)) = 2 * n
    BY <1>2, <2>1, FlattenPairs, TableType
  <2> QED BY <2>2, <2>3
<1>4. Output = <<0>> \o t \o <<n>> \o u
  BY <1>1, <1>2, <1>3, Zenon DEF Output, Written, Table
<1>5. 0 \in Nat
  OBVIOUS
<1>6. /\ Output \in Seq(Nat) /\ Len(Output) = 2 + Len(t) + Len(u)
      /\ Output[1] = 0 /\ Output[2 + Len(t)] = n
      /\ \A p \in 1 .. Len(t) : Output[p + 1] = t[p]
      /\ \A q \in 1 .. Len(u) : Output[2 + Len(t) + q] = u[q]
  <2>1. \A f : f = <<0>> \o t \o <<n>> \o u =>
              /\ f \in Seq(Nat) /\ Len(f) = 2 + Len(t) + Len(u)
              /\ f[1] = 0 /\ f[2 + Len(t)] = n
              /\ \A p \in 1 .. Len(t) : f[p + 1] = t[p]
              /\ \A q \in 1 .. Len(u) : f[2 + Len(t) + q] = u[q]
    BY <1>5, FourParts, SMTT(30)
  <2> QED BY <1>4, <2>1, Zenon
<1>7. PICK r \in Nat, l \in Nat : r = 1 + l /\ l = Len(t) /\ r = RefTable(Rows)
  <2>1. Len(t) \in Nat /\ 1 + Len(t) \in Nat
    OBVIOUS
  <2>2. RefTable(Rows) = 1 + Len(t)
    BY <1>1 DEF RefTable
  <2> QED BY <2>1, <2>2
<1>8. Len(Output) = r + 1 + 2 * n
  BY <1>3, <1>6, <1>7
<1>9. 2 + l = r + 1 /\ \A q \in Int : 2 + l + q = r + 1 + q
  BY <1>7
<1>10. /\ Output[r + 1] = n /\ \A p \in 1 .. l : Output[p + 1] = t[p]
       /\ \A q \in 1 .. (2 * n) : Output[r + 1 + q] = u[q]
  BY <1>3, <1>6, <1>7, <1>9
<1> QED BY <1>1, <1>2, <1>3, <1>6, <1>7, <1>8, <1>10

\* The characters of a row.
LEMMA RowCells ==
    ASSUME NEW i \in 1 .. Len(Rows)
    PROVE /\ Ref(i) \in Nat \ {0} /\ Ref(i) + Len(Rows[i]) + 1 <= RefTable(Rows)
          /\ \A j \in 1 .. Len(Rows[i]) : Output[Ref(i) + j] = Rows[i][j]
          /\ Output[Ref(i) + Len(Rows[i]) + 1] = NewLine
<1>1. PICK t \in Seq(Nat) : t = Text(Rows) /\ t = FlattenSeq(Lines)
  BY TextWhole
<1>2. PICK a \in Seq(Nat) : a = Text(SubSeq(Rows, 1, i - 1)) /\ a = Leading(Lines, i - 1)
  <2>1. i - 1 \in 0 .. Len(Rows)
    BY RowsType
  <2> QED BY <2>1, TextLeading
<1>3. PICK m \in Nat, n \in Nat : m = Len(Rows[i]) /\ n = Len(a)
  BY RowsType
<1>4. /\ Len(Lines[i]) = m + 1 /\ Lines[i][m + 1] = NewLine
      /\ \A j \in 1 .. m : Lines[i][j] = Rows[i][j]
  BY <1>3, LinesType
<1>5. /\ n + (m + 1) <= Len(t)
      /\ \A j \in 1 .. (m + 1) : t[n + j] = Lines[i][j]
  <2>1. Lines \in Seq(Seq(Nat)) /\ i \in 1 .. Len(Lines)
    BY LinesType
  <2>2. /\ Len(Leading(Lines, i - 1)) + Len(Lines[i]) <= Len(FlattenSeq(Lines))
        /\ \A j \in 1 .. Len(Lines[i]) : FlattenSeq(Lines)[Len(Leading(Lines, i - 1)) + j] = Lines[i][j]
    BY <2>1, FlattenPiece
  <2> QED BY <1>1, <1>2, <1>3, <1>4, <2>2
<1>6. Ref(i) = 1 + n /\ RefTable(Rows) = 1 + Len(t)
  BY <1>1, <1>2, <1>3 DEF Ref, RefTable
<1>7. ASSUME NEW j \in 1 .. (m + 1) PROVE Output[Ref(i) + j] = Lines[i][j]
  <2>1. n + j \in 1 .. Len(t) /\ (1 + n) + j = (n + j) + 1
    BY <1>5
  <2>2. Output[(n + j) + 1] = t[n + j]
    BY <1>1, <2>1, Layout
  <2> QED BY <1>5, <1>6, <2>1, <2>2
<1>8. m + 1 \in 1 .. (m + 1) /\ \A j \in 1 .. m : j \in 1 .. (m + 1)
  OBVIOUS
<1>9. (1 + n) + m + 1 <= 1 + Len(t) /\ 1 + n \in Nat \ {0} /\ (1 + n) + (m + 1) = (1 + n) + m + 1
  BY <1>5
<1>10. Output[Ref(i) + (m + 1)] = NewLine /\ \A j \in 1 .. m : Output[Ref(i) + j] = Rows[i][j]
  BY <1>4, <1>7, <1>8
<1> QED BY <1>3, <1>6, <1>9, <1>10

\* The two cells of an entry of the table.
LEMMA EntryCells ==
    ASSUME NEW i \in 1 .. Len(Rows)
    PROVE /\ Output[RefTable(Rows) + 2 * i] = Ref(i)
          /\ Output[RefTable(Rows) + 2 * i + 1] = i
<1>1. PICK n \in Nat, r \in Nat : n = Len(Rows) /\ r = RefTable(Rows)
  <2>1. 1 + Len(Text(Rows)) \in Nat
    BY Layout
  <2> QED BY <2>1, Layout
<1>2. /\ Table \in Seq(Seq(Nat)) /\ i \in 1 .. Len(Table) /\ i - 1 \in 0 .. Len(Table)
      /\ \A k \in 1 .. Len(Table) : Len(Table[k]) = 2
  <2>1. Table \in Seq(Seq(Nat)) /\ Len(Table) = n /\ \A k \in 1 .. n : Len(Table[k]) = 2
    BY TableType, <1>1
  <2>2. i \in 1 .. n /\ i - 1 \in 0 .. n
    BY <1>1
  <2> QED BY <2>1, <2>2
<1>3. Len(Leading(Table, i - 1)) = 2 * (i - 1)
  BY <1>2, FlattenPairs
<1>4. Table[i] = <<Ref(i), i>> /\ Len(Table[i]) = 2
  BY TableType DEF Ref
<1>5. \A j \in 1 .. 2 : FlattenSeq(Table)[2 * (i - 1) + j] = Table[i][j]
  <2>1. \A j \in 1 .. Len(Table[i]) : FlattenSeq(Table)[Len(Leading(Table, i - 1)) + j] = Table[i][j]
    BY <1>2, FlattenPiece
  <2> QED BY <1>3, <1>4, <2>1
<1>6. /\ 2 * (i - 1) + 1 \in 1 .. (2 * n) /\ 2 * (i - 1) + 2 \in 1 .. (2 * n)
      /\ r + 1 + (2 * (i - 1) + 1) = r + 2 * i /\ r + 1 + (2 * (i - 1) + 2) = r + 2 * i + 1
  BY <1>1
<1>7. 1 \in 1 .. 2 /\ 2 \in 1 .. 2 /\ <<Ref(i), i>>[1] = Ref(i) /\ <<Ref(i), i>>[2] = i
  OBVIOUS
<1>8. FlattenSeq(Table)[2 * (i - 1) + 1] = Ref(i) /\ FlattenSeq(Table)[2 * (i - 1) + 2] = i
  BY <1>4, <1>5, <1>7
<1>9. \A q \in 1 .. (2 * n) : Output[r + 1 + q] = FlattenSeq(Table)[q]
  BY <1>1, Layout
<1> QED BY <1>1, <1>6, <1>8, <1>9

\* Max of two numbers.
LEMMA LargerOfTwo ==
    ASSUME NEW a \in Nat, NEW b \in Nat PROVE Max({a, b}) = IF a <= b THEN b ELSE a
BY DEF Max

\* g is f with the cells c from offset o.
Patched(g, f, o, c) ==
    /\ g \in Seq(Nat)
    /\ Len(g) = IF Len(f) <= o + Len(c) THEN o + Len(c) ELSE Len(f)
    /\ \A i \in 1 .. Len(c) : g[o + i] = c[i]
    /\ \A i \in 1 .. Len(f) : i \notin (o + 1) .. (o + Len(c)) => g[i] = f[i]

\* Overwritten does that.
LEMMA OverwrittenCells ==
    ASSUME NEW f \in Seq(Nat), NEW o \in Nat, NEW c \in Seq(Nat)
    PROVE Patched(Overwritten(f, o, c), f, o, c)
<1>0. PICK g : g = Overwritten(f, o, c)
  OBVIOUS
<1>1. PICK m \in Nat, n \in Nat, l \in Nat :
        n = Len(f) /\ l = o + Len(c) /\ m = IF n <= l THEN l ELSE n
  <2>1. Len(f) \in Nat /\ o + Len(c) \in Nat
    OBVIOUS
  <2> QED BY <2>1
<1>2. Max({Len(f), o + Len(c)}) = m
  BY <1>1, LargerOfTwo
<1>3. g = [i \in 1 .. m |-> IF i \in (o + 1) .. l THEN c[i - o] ELSE IF i <= n THEN f[i] ELSE 0]
  BY <1>0, <1>1, <1>2, Zenon DEF Overwritten
<1>4. ASSUME NEW i \in 1 .. m PROVE g[i] \in Nat
  <2>1. CASE i \in (o + 1) .. l
    <3>1. i - o \in 1 .. Len(c)
      BY <1>1, <2>1
    <3>2. c[i - o] \in Nat
      BY <3>1
    <3> QED BY <1>3, <2>1, <3>2
  <2>2. CASE i \notin (o + 1) .. l /\ i <= n
    <3>1. f[i] \in Nat
      BY <1>1, <2>2
    <3> QED BY <1>3, <2>2, <3>1
  <2>3. CASE i \notin (o + 1) .. l /\ ~(i <= n)
    BY <1>3, <2>3
  <2> QED BY <2>1, <2>2, <2>3
<1>5. g \in [1 .. m -> Nat]
  BY <1>3, <1>4
<1>6. g \in Seq(Nat) /\ Len(g) = m
  BY <1>5
<1>7. ASSUME NEW i \in 1 .. Len(c) PROVE g[o + i] = c[i]
  <2>1. o + i \in (o + 1) .. l /\ o + i \in 1 .. m /\ (o + i) - o = i
    BY <1>1
  <2> QED BY <1>3, <2>1
<1>8. ASSUME NEW i \in 1 .. Len(f), i \notin (o + 1) .. (o + Len(c)) PROVE g[i] = f[i]
  <2>1. i \in 1 .. m /\ i <= n
    BY <1>1
  <2> QED BY <1>1, <1>3, <1>8, <2>1
<1>9. Patched(g, f, o, c)
  BY <1>1, <1>6, <1>7, <1>8 DEF Patched
<1> QED BY <1>0, <1>9

\* The finished file differs from the Writer's output in its first cell.
LEMMA CompleteCells ==
    /\ Complete \in Seq(Nat) /\ Len(Complete) = Len(Output)
    /\ RefTable(Rows) \in Nat \ {0} /\ Len(Output) \in Nat \ {0}
    /\ Complete[1] = RefTable(Rows)
    /\ \A i \in 2 .. Len(Output) : Complete[i] = Output[i]
<1>1. PICK r \in Nat, n \in Nat, m \in Nat :
        r = RefTable(Rows) /\ n = Len(Output) /\ m = Len(Rows) /\ n = r + 1 + 2 * m /\ r # 0 /\ n # 0
  <2>1. PICK l \in Nat, m \in Nat : l = Len(Text(Rows)) /\ m = Len(Rows)
    BY Layout
  <2>2. RefTable(Rows) = 1 + l /\ Len(Output) = (1 + l) + 1 + 2 * m
    BY <2>1, Layout
  <2>3. 1 + l \in Nat /\ 1 + l # 0 /\ (1 + l) + 1 + 2 * m \in Nat /\ (1 + l) + 1 + 2 * m # 0
    OBVIOUS
  <2> QED BY <2>1, <2>2, <2>3
<1>2. PICK c \in Seq(Nat) : c = <<r>> /\ Len(c) = 1 /\ c[1] = r
  BY OneCell, Zenon
<1>3. Complete = Overwritten(Output, 0, c)
  BY <1>1, <1>2, Zenon DEF Complete, Output
<1>4. /\ Complete \in Seq(Nat)
      /\ Len(Complete) = IF Len(Output) <= 0 + Len(c) THEN 0 + Len(c) ELSE Len(Output)
      /\ \A i \in 1 .. Len(c) : Complete[0 + i] = c[i]
      /\ \A i \in 1 .. Len(Output) : i \notin (0 + 1) .. (0 + Len(c)) => Complete[i] = Output[i]
  <2>1. Output \in Seq(Nat) /\ 0 \in Nat
    BY Layout
  <2> HIDE DEF Complete, Output
  <2>2. Patched(Complete, Output, 0, c)
    BY <1>3, <2>1, OverwrittenCells
  <2> QED BY <2>2, Zenon DEF Patched
<1>5. Len(Complete) = n
  <2>1. Len(Complete) = IF n <= 0 + 1 THEN 0 + 1 ELSE n
    BY <1>1, <1>2, <1>4
  <2> QED BY <1>1, <2>1
<1>6. Complete[1] = r
  BY <1>2, <1>4
<1>7. ASSUME NEW i \in 2 .. n PROVE Complete[i] = Output[i]
  <2>1. i \in 1 .. n /\ i \notin (0 + 1) .. (0 + 1)
    BY <1>1
  <2> QED BY <1>1, <1>2, <1>4, <2>1
<1> QED BY <1>1, <1>4, <1>5, <1>6, <1>7

\* What GetRowById reads in the finished file: the offset of the table, its
\* length, and its entries.
LEMMA CompleteWords ==
    /\ Word(Complete, 0) = RefTable(Rows)
    /\ Word(Complete, RefTable(Rows)) = Len(Rows)
    /\ \A i \in 1 .. Len(Rows) :
         /\ Word(Complete, RefTable(Rows) + 2 * i) = i
         /\ Word(Complete, RefTable(Rows) + 2 * i - 1) = Ref(i)
<1>1. PICK r \in Nat, n \in Nat, m \in Nat :
        r = RefTable(Rows) /\ n = Len(Output) /\ m = Len(Rows) /\ n = r + 1 + 2 * m /\ r # 0
  BY Layout, CompleteCells
<1>2. /\ Len(Complete) = n /\ Complete[1] = r
      /\ \A i \in 2 .. n : Complete[i] = Output[i]
  BY <1>1, CompleteCells
<1>3. Word(Complete, 0) = r
  <2>1. 0 < n /\ 0 + 1 = 1
    BY <1>1
  <2> QED BY <1>2, <2>1 DEF Word
<1>4. Word(Complete, r) = m
  <2>1. r < n /\ r + 1 \in 2 .. n
    BY <1>1
  <2>2. Output[r + 1] = m
    BY <1>1, Layout
  <2> QED BY <1>2, <2>1, <2>2 DEF Word
<1>5. ASSUME NEW i \in 1 .. m
      PROVE Word(Complete, r + 2 * i) = i /\ Word(Complete, r + 2 * i - 1) = Ref(i)
  <2>1. /\ r + 2 * i < n /\ r + 2 * i + 1 \in 2 .. n
        /\ r + 2 * i - 1 < n /\ r + 2 * i \in 2 .. n /\ (r + 2 * i - 1) + 1 = r + 2 * i
    BY <1>1
  <2>2. Output[r + 2 * i] = Ref(i) /\ Output[r + 2 * i + 1] = i
    BY <1>1, EntryCells
  <2> QED BY <1>2, <2>1, <2>2 DEF Word
<1> QED BY <1>1, <1>3, <1>4, <1>5

\* GetRowById finds the one entry of a row, and none for a number no row has.
LEMMA CompleteEntries ==
    ASSUME NEW id \in Nat
    PROVE EntriesOf(Complete, RefTable(Rows), id) = IF id \in 1 .. Len(Rows) THEN {id} ELSE {}
<1>1. PICK m \in Nat : m = Len(Rows)
  BY Layout
<1>2. EntriesOf(Complete, RefTable(Rows), id) = {i \in 1 .. m : Word(Complete, RefTable(Rows) + 2 * i) = id}
  BY <1>1, CompleteWords DEF EntriesOf
<1>3. \A i \in 1 .. m : Word(Complete, RefTable(Rows) + 2 * i) = i
  BY <1>1, CompleteWords
<1> QED BY <1>1, <1>2, <1>3

\* Appending one cell and then a zero.
LEMMA AppendTwo ==
    ASSUME NEW s \in Seq(Nat), NEW c \in Nat
    PROVE Append(s, c) \o <<0>> = s \o <<c, 0>>
<1>1. PICK a : a = Append(s, c) \o <<0>>
  OBVIOUS
<1>2. PICK b : b = s \o <<c, 0>>
  OBVIOUS
<1>3. /\ a \in Seq(Nat) /\ Len(a) = Len(s) + 2 /\ \A i \in 1 .. Len(s) : a[i] = s[i]
      /\ a[Len(s) + 1] = c /\ a[Len(s) + 2] = 0
  BY <1>1
<1>4. /\ b \in Seq(Nat) /\ Len(b) = Len(s) + 2 /\ \A i \in 1 .. Len(s) : b[i] = s[i]
      /\ b[Len(s) + 1] = c /\ b[Len(s) + 2] = 0
  BY <1>2
<1>5. \A i \in 1 .. (Len(s) + 2) : i \in 1 .. Len(s) \/ i = Len(s) + 1 \/ i = Len(s) + 2
  OBVIOUS
<1>6. \A i \in 1 .. (Len(s) + 2) : a[i] = b[i]
  BY <1>3, <1>4, <1>5, Zenon
<1>7. a = b
  BY <1>3, <1>4, <1>6
<1> QED BY <1>1, <1>2, <1>7

\* Row::Read at the offset of a row.
LEMMA CompleteRow ==
    ASSUME NEW i \in 1 .. Len(Rows)
    PROVE /\ ReadRow(Complete, Ref(i)) = Rows[i] \o <<NewLine, 0>>
          /\ GetCharsCount(Complete, Ref(i)) = Len(Rows[i]) + 2
<1>1. PICK o \in Nat, l \in Nat, n \in Nat, f \in Seq(Nat), row \in Seq(Nat) :
        /\ o = Ref(i) /\ l = Len(Rows[i]) /\ n = Len(f) /\ f = Complete /\ row = Rows[i]
        /\ o # 0 /\ o + l + 1 < n
  <2>1. Ref(i) \in Nat \ {0} /\ Rows[i] \in Seq(Nat) /\ Len(Rows[i]) \in Nat
    BY RowCells, RowsType
  <2>2. /\ Complete \in Seq(Nat) /\ Len(Complete) = Len(Output) /\ Len(Complete) \in Nat
        /\ RefTable(Rows) \in Nat /\ Len(Rows) \in Nat
        /\ Len(Output) = RefTable(Rows) + 1 + 2 * Len(Rows)
        /\ Ref(i) + Len(Rows[i]) + 1 <= RefTable(Rows)
    BY CompleteCells, Layout, RowCells
  <2>3. Ref(i) + Len(Rows[i]) + 1 < Len(Complete)
    BY <2>1, <2>2
  <2> QED BY <2>1, <2>2, <2>3
<1>2. (\A j \in 1 .. l : f[o + j] = row[j]) /\ f[o + l + 1] = NewLine
  <2>1. \A k \in 2 .. n : f[k] = Output[k]
    BY <1>1, CompleteCells
  <2>0. n \in Nat /\ o # 0 /\ o + l + 1 < n
    BY <1>1
  <2>2. /\ \A j \in 1 .. l : o + j \in 2 .. n
        /\ o + l + 1 \in 2 .. n
    BY <2>0
  <2>3. (\A j \in 1 .. l : Output[o + j] = row[j]) /\ Output[o + l + 1] = NewLine
    BY <1>1, RowCells
  <2> QED BY <2>1, <2>2, <2>3
<1>3. \A j \in 1 .. l : row[j] # NewLine
  BY <1>1, RowsType
<1>4. PICK ends : ends = {e \in o .. (n - 1) : f[e + 1] = NewLine}
  OBVIOUS
<1>5. o + l \in ends
  BY <1>1, <1>2, <1>4
<1>6. ASSUME NEW e \in ends PROVE o + l <= e
  <2>1. e \in o .. (n - 1) /\ f[e + 1] = NewLine
    BY <1>4
  <2>2. CASE e < o + l
    <3>1. PICK j \in 1 .. l : j = e - o + 1 /\ o + j = e + 1
      BY <2>1, <2>2
    <3> QED BY <1>2, <1>3, <2>1, <3>1
  <2> QED BY <2>1, <2>2
<1>7. Min(ends) = o + l
  <2>1. \A e \in ends : e \in Nat
    BY <1>4
  <2> QED BY <1>5, <1>6, <2>1 DEF Min
<1>8. ReadRow(f, o) = SubSeq(f, o + 1, o + l + 1) \o <<0>>
  <2>1. ends # {}
    BY <1>5
  <2> QED BY <1>1, <1>4, <1>7, <2>1 DEF ReadRow
<1>9. PICK s : s = SubSeq(f, o + 1, o + l + 1)
  OBVIOUS
<1>10. s \in Seq(Nat) /\ Len(s) = l + 1 /\ \A j \in 1 .. (l + 1) : s[j] = f[o + j]
  <2>1. o + 1 \in 1 .. (Len(f) + 1) /\ o + l + 1 \in o .. Len(f) /\ (o + l + 1) - (o + 1) + 1 = l + 1
    <3>1. n = Len(f) /\ o + l + 1 < n
      BY <1>1
    <3> QED BY <3>1
  <2> QED BY <1>9, <2>1, SubSeqProperties
<1>11. NewLine \in Nat
  BY DEF NewLine
<1>12. s = Append(row, NewLine)
  <2>1. Append(row, NewLine) \in Seq(Nat) /\ Len(Append(row, NewLine)) = l + 1
    BY <1>1, <1>11
  <2>2. ASSUME NEW j \in 1 .. (l + 1) PROVE s[j] = Append(row, NewLine)[j]
    <3>1. CASE j \in 1 .. l
      BY <1>1, <1>2, <1>10, <3>1
    <3>2. CASE j = l + 1
      <4>1. o + j = o + l + 1
        BY <3>2
      <4>2. Append(row, NewLine)[l + 1] = NewLine
        BY <1>1, <1>11
      <4> QED BY <1>2, <1>10, <3>2, <4>1, <4>2
    <3>3. j \in 1 .. l \/ j = l + 1
      OBVIOUS
    <3> QED BY <3>1, <3>2, <3>3, Zenon
  <2> QED BY <1>10, <2>1, <2>2
<1>13. s \o <<0>> = row \o <<NewLine, 0>> /\ Len(s \o <<0>>) = l + 2
  <2>1. Append(row, NewLine) \o <<0>> = row \o <<NewLine, 0>>
    BY <1>11, AppendTwo
  <2>2. Len(s \o <<0>>) = Len(s) + 1
    BY <1>10
  <2>3. (l + 1) + 1 = l + 2
    OBVIOUS
  <2> QED BY <1>10, <1>12, <2>1, <2>2, <2>3
<1> QED BY <1>1, <1>8, <1>9, <1>13 DEF GetCharsCount

\* Reader::Read gives back the rows.
LEMMA CompleteReadAll == ReadAll(Complete) = [i \in DOMAIN Rows |-> Rows[i] \o <<NewLine, 0>>]
<1>1. PICK m \in Nat, r \in Nat : m = Len(Rows) /\ r = RefTable(Rows) /\ DOMAIN Rows = 1 .. m
  BY RowsType, CompleteCells
<1>2. \A i \in 1 .. m : ReadRow(Complete, Word(Complete, r + 2 * i - 1)) = Rows[i] \o <<NewLine, 0>>
  BY <1>1, CompleteWords, CompleteRow
<1>3. ReadAll(Complete) = [i \in 1 .. m |-> ReadRow(Complete, Word(Complete, r + 2 * i - 1))]
  BY <1>1, CompleteWords DEF ReadAll
<1> QED BY <1>1, <1>2, <1>3

\* The cells of what a Flush writes.
LEMMA SliceCells ==
    ASSUME NEW a \in Nat, NEW b \in Nat, a <= b, b <= Len(Output)
    PROVE /\ SubSeq(Output, a + 1, b) \in Seq(Nat) /\ Len(SubSeq(Output, a + 1, b)) = b - a
          /\ \A i \in 1 .. (b - a) : SubSeq(Output, a + 1, b)[i] = Output[a + i]
<1>1. \A i \in (a + 1) .. b : Output[i] \in Nat
  BY Layout
<1>2. a + 1 \in Int /\ b \in Int
  OBVIOUS
<1>3. PICK s : s = SubSeq(Output, a + 1, b)
  OBVIOUS
<1>4. /\ s \in Seq(Nat) /\ Len(s) = IF a + 1 <= b THEN b - (a + 1) + 1 ELSE 0
      /\ \A i \in 1 .. (b - (a + 1) + 1) : s[i] = Output[(a + 1) + i - 1]
  BY <1>1, <1>2, <1>3, SubSeqProperties
<1>5. b - (a + 1) + 1 = b - a /\ \A i \in Int : (a + 1) + i - 1 = a + i
  OBVIOUS
<1>6. Len(s) = b - a
  BY <1>4
<1>7. \A i \in 1 .. (b - a) : s[i] = Output[a + i]
  BY <1>4, <1>5
<1> QED BY <1>3, <1>4, <1>6, <1>7

\* The cells of a torn file.
LEMMA LeadingCells ==
    ASSUME NEW k \in 0 .. Len(Output)
    PROVE /\ SubSeq(Output, 1, k) \in Seq(Nat) /\ Len(SubSeq(Output, 1, k)) = k
          /\ \A i \in 1 .. k : SubSeq(Output, 1, k)[i] = Output[i]
<1>1. Output \in Seq(Nat)
  BY Layout
<1> QED BY <1>1, SubSeqCells

\* g is what a Flush of the output from a to b leaves of the file f.
Flushed(g, f, a, b) ==
    /\ g \in Seq(Nat) /\ Len(g) <= Len(Output) /\ Len(f) <= Len(g) /\ b <= Len(g)
    /\ Len(g) = IF Len(f) <= b THEN b ELSE Len(f)
    /\ \A i \in (a + 1) .. b : g[i] = Output[i]
    /\ \A i \in 1 .. Len(f) : i \notin (a + 1) .. b => g[i] = f[i]

\* ... which is what Overwritten makes of it.
LEMMA FlushCells ==
    ASSUME NEW f \in Seq(Nat), NEW a \in Nat, NEW b \in Nat, a <= b, b <= Len(Output),
           Len(f) <= Len(Output)
    PROVE Flushed(Overwritten(f, a, SubSeq(Output, a + 1, b)), f, a, b)
<1>0. PICK g : g = Overwritten(f, a, SubSeq(Output, a + 1, b))
  OBVIOUS
<1>1. PICK c \in Seq(Nat) : /\ c = SubSeq(Output, a + 1, b) /\ Len(c) = b - a
                            /\ \A i \in 1 .. (b - a) : c[i] = Output[a + i]
  BY SliceCells
<1>2. /\ g \in Seq(Nat)
      /\ Len(g) = IF Len(f) <= a + Len(c) THEN a + Len(c) ELSE Len(f)
      /\ \A i \in 1 .. Len(c) : g[a + i] = c[i]
      /\ \A i \in 1 .. Len(f) : i \notin (a + 1) .. (a + Len(c)) => g[i] = f[i]
  <2>1. g = Overwritten(f, a, c)
    BY <1>0, <1>1
  <2>2. Patched(g, f, a, c)
    BY <2>1, OverwrittenCells
  <2> QED BY <2>2, Zenon DEF Patched
<1>3. a + (b - a) = b /\ Len(f) \in Nat /\ Len(Output) \in Nat
  BY CompleteCells
<1>4. Len(g) = IF Len(f) <= b THEN b ELSE Len(f)
  BY <1>1, <1>2, <1>3
<1>5. Len(g) <= Len(Output) /\ Len(f) <= Len(g) /\ b <= Len(g)
  BY <1>3, <1>4
<1>6. ASSUME NEW i \in (a + 1) .. b PROVE g[i] = Output[i]
  <2>1. i - a \in 1 .. (b - a) /\ a + (i - a) = i
    OBVIOUS
  <2> QED BY <1>1, <1>2, <2>1
<1>7. Flushed(g, f, a, b)
  BY <1>1, <1>2, <1>3, <1>4, <1>5, <1>6 DEF Flushed
<1> QED BY <1>0, <1>7

\* One writer's Flush makes a longer front of its output.
LEMMA FlushLeading ==
    ASSUME NEW a \in Nat, NEW b \in Nat, a <= b, b <= Len(Output)
    PROVE Overwritten(SubSeq(Output, 1, a), a, SubSeq(Output, a + 1, b)) = SubSeq(Output, 1, b)
<1>0. Len(Output) \in Nat
  BY CompleteCells
<1>1. a \in 0 .. Len(Output) /\ b \in 0 .. Len(Output)
  BY <1>0
<1>2. PICK f \in Seq(Nat) : f = SubSeq(Output, 1, a) /\ Len(f) = a /\ \A i \in 1 .. a : f[i] = Output[i]
  BY <1>1, LeadingCells
<1>3. PICK h \in Seq(Nat) : h = SubSeq(Output, 1, b) /\ Len(h) = b /\ \A i \in 1 .. b : h[i] = Output[i]
  BY <1>1, LeadingCells
<1>4. PICK g : g = Overwritten(f, a, SubSeq(Output, a + 1, b))
  OBVIOUS
<1>5. /\ g \in Seq(Nat) /\ Len(g) = IF a <= b THEN b ELSE a
      /\ \A i \in (a + 1) .. b : g[i] = Output[i]
      /\ \A i \in 1 .. a : i \notin (a + 1) .. b => g[i] = f[i]
  <2>1. Len(f) <= Len(Output)
    BY <1>1, <1>2
  <2>2. /\ g \in Seq(Nat) /\ Len(g) = IF Len(f) <= b THEN b ELSE Len(f)
        /\ \A i \in (a + 1) .. b : g[i] = Output[i]
        /\ \A i \in 1 .. Len(f) : i \notin (a + 1) .. b => g[i] = f[i]
    <3>1. Flushed(g, f, a, b)
      BY <1>4, <2>1, FlushCells
    <3> QED BY <3>1, Zenon DEF Flushed
  <2> QED BY <1>2, <2>2
<1>6. ASSUME NEW i \in 1 .. b PROVE g[i] = h[i]
  <2>1. i \in (a + 1) .. b \/ (i \in 1 .. a /\ i \notin (a + 1) .. b)
    OBVIOUS
  <2> QED BY <1>2, <1>3, <1>5, <2>1
<1>7. g = h
  BY <1>3, <1>5, <1>6
<1> QED BY <1>2, <1>3, <1>4, <1>7

\* What a Close leaves of a file.
LEMMA CloseCells ==
    ASSUME NEW f \in Seq(Nat), Len(f) <= Len(Output), NEW g, g = Overwritten(f, 0, <<RefTable(Rows)>>)
    PROVE /\ g \in Seq(Nat) /\ Len(g) <= Len(Output) /\ Len(f) <= Len(g)
          /\ g[1] = RefTable(Rows)
          /\ \A i \in 2 .. Len(f) : g[i] = f[i]
<1>1. PICK c \in Seq(Nat) : c = <<RefTable(Rows)>> /\ Len(c) = 1 /\ c[1] = RefTable(Rows)
  BY CompleteCells, OneCell
<1>2. /\ g \in Seq(Nat)
      /\ Len(g) = IF Len(f) <= 0 + Len(c) THEN 0 + Len(c) ELSE Len(f)
      /\ \A i \in 1 .. Len(c) : g[0 + i] = c[i]
      /\ \A i \in 1 .. Len(f) : i \notin (0 + 1) .. (0 + Len(c)) => g[i] = f[i]
  <2>1. g = Overwritten(f, 0, c) /\ 0 \in Nat
    BY <1>1
  <2>2. Patched(g, f, 0, c)
    BY <2>1, OverwrittenCells
  <2> QED BY <2>2, Zenon DEF Patched
<1>3. PICK m \in Nat, n \in Nat : m = Len(f) /\ n = Len(Output) /\ n # 0 /\ m <= n
  BY CompleteCells
<1>4. Len(g) = IF m <= 1 THEN 1 ELSE m
  BY <1>1, <1>2, <1>3
<1>5. Len(g) <= n /\ m <= Len(g)
  BY <1>3, <1>4
<1>6. g[1] = RefTable(Rows)
  BY <1>1, <1>2
<1>7. \A i \in 2 .. m : i \in 1 .. m /\ i \notin (0 + 1) .. (0 + 1)
  BY <1>3
<1> QED BY <1>1, <1>2, <1>3, <1>5, <1>6, <1>7

\* A file with the right header and the right cells behind it is whole.
LEMMA IsComplete ==
    ASSUME NEW f \in Seq(Nat), Len(f) = Len(Output), f[1] = RefTable(Rows),
           \A i \in 2 .. Len(Output) : f[i] = Output[i]
    PROVE f = Complete
<1>1. PICK n \in Nat, g \in Seq(Nat) :
        n = Len(Output) /\ g = Complete /\ Len(g) = n /\ g[1] = RefTable(Rows) /\ \A i \in 2 .. n : g[i] = Output[i]
  BY CompleteCells
<1>2. \A i \in 1 .. n : i = 1 \/ i \in 2 .. n
  OBVIOUS
<1>3. \A i \in 1 .. n : f[i] = g[i]
  BY <1>1, <1>2, Zenon
<1> QED BY <1>1, <1>3

\* The header makes the output of one writer whole.
LEMMA CloseWhole == Overwritten(SubSeq(Output, 1, Len(Output)), 0, <<RefTable(Rows)>>) = Complete
<1>1. Output \in Seq(Nat)
  BY Layout
<1>2. SubSeq(Output, 1, Len(Output)) = Output
  BY <1>1
<1> QED BY <1>2, Zenon DEF Complete, Output

\* A torn file has no table: the offset of the table was not written.
LEMMA TornEmpty ==
    ASSUME NEW k \in 0 .. Len(Output), NEW id
    PROVE /\ Word(SubSeq(Output, 1, k), 0) = 0
          /\ EntriesOf(SubSeq(Output, 1, k), 0, id) = {}
<1>1. PICK f \in Seq(Nat) : f = SubSeq(Output, 1, k) /\ Len(f) = k /\ \A i \in 1 .. k : f[i] = Output[i]
  BY LeadingCells
<1>2. Word(f, 0) = 0
  <2>1. CASE 0 < k
    <3>1. 1 \in 1 .. k /\ 0 + 1 = 1
      BY <2>1, CompleteCells
    <3>2. Output[1] = 0
      BY Layout
    <3> QED BY <1>1, <2>1, <3>1, <3>2 DEF Word
  <2>2. CASE ~(0 < k)
    BY <1>1, <2>2 DEF Word
  <2> QED BY <2>1, <2>2
<1>3. EntriesOf(f, 0, id) = {}
  BY <1>2 DEF EntriesOf
<1> QED BY <1>1, <1>2, <1>3

\* fread gives a number, beyond the end of the file too.
LEMMA WordType ==
    ASSUME NEW f \in Seq(Nat), NEW o \in Nat PROVE Word(f, o) \in Nat
BY DEF Word

\* The first entry with a number is one of them.
LEMMA EntriesType ==
    ASSUME NEW f \in Seq(Nat), NEW o \in Nat, NEW id, EntriesOf(f, o, id) # {}
    PROVE Min(EntriesOf(f, o, id)) \in EntriesOf(f, o, id) /\ Min(EntriesOf(f, o, id)) \in Nat \ {0}
<1>1. PICK T : T = EntriesOf(f, o, id)
  OBVIOUS
<1>2. \A i \in T : i \in Nat \ {0}
  BY <1>1, WordType DEF EntriesOf
<1>3. PICK x \in T : \A y \in T : x <= y
  BY <1>1, <1>2, LeastNatural
<1>4. Min(T) \in T
  BY <1>3 DEF Min
<1> QED BY <1>1, <1>2, <1>4

\* A count is a number, wherever Row::Read begins.
LEMMA CountType ==
    ASSUME NEW f \in Seq(Nat), NEW o \in Nat PROVE GetCharsCount(f, o) \in Nat
<1>1. PICK ends : ends = {e \in o .. (Len(f) - 1) : f[e + 1] = NewLine}
  OBVIOUS
<1>2. PICK b \in Nat : b = (IF ends = {} THEN Len(f) ELSE Min(ends) + 1) /\ b <= Len(f)
  <2>1. CASE ends = {}
    BY <2>1
  <2>2. CASE ends # {}
    <3>1. \A e \in ends : e \in Nat /\ e + 1 \in Nat /\ e + 1 <= Len(f)
      BY <1>1
    <3>2. PICK x \in ends : \A y \in ends : x <= y
      BY <2>2, <3>1, LeastNatural
    <3>3. Min(ends) \in ends
      BY <3>2 DEF Min
    <3> QED BY <2>2, <3>1, <3>3
  <2> QED BY <2>1, <2>2
<1>3. PICK s : s = SubSeq(f, o + 1, b)
  OBVIOUS
<1>4. s \in Seq(Nat)
  <2>1. o + 1 \in Int /\ b \in Int /\ \A i \in (o + 1) .. b : f[i] \in Nat
    BY <1>2
  <2> QED BY <1>3, <2>1, SubSeqProperties
<1>5. ReadRow(f, o) = s \o <<0>>
  BY <1>1, <1>2, <1>3, Zenon DEF ReadRow
<1>6. Len(s \o <<0>>) \in Nat
  BY <1>4
<1> QED BY <1>5, <1>6 DEF GetCharsCount

-----------------------------------------------------------------------------
(* The inductive invariant *)

Disturbed == \E s \in Starters : starter[s] \in {"write", "header", "died"}

\* Where each starter is in its output, and that it has made the file.
Positions ==
    \A s \in Starters :
        /\ starter[s] \in {"stat", "open"} => at[s] = 0
        /\ starter[s] = "header" => at[s] = Len(Output)
        /\ starter[s] \in {"write", "header", "run"} => exists

\* All that b has written is in the file; the first cell is the offset of the
\* table or the place for it.
Covers(b) ==
    /\ starter[b] \in {"write", "header", "run", "died"}
    /\ starter[b] = "run" => at[b] = Len(Output)
    /\ at[b] <= Len(file)
    /\ \A i \in 2 .. at[b] : file[i] = Output[i]

\* The starter that opened the file last covers it.
Covered == exists => \E b \in Starters : Covers(b)

Whole == exists => (Disturbed \/ file = Complete)

\* What readers rely on as long as nobody met a writer.
Alone ==
    /\ \A s, x \in Starters : (Writing(s) /\ Writing(x)) => s = x
    /\ \A s \in Starters : Writing(s) =>
         file = SubSeq(Output, 1, at[s]) /\ \A x \in Starters : client[x] = "idle"
    /\ file = Complete \/ \E k \in 0 .. Len(Output) : file = SubSeq(Output, 1, k)
    /\ \A s \in Starters :
         /\ client[s] = "table" => offsetRef[s] = Word(file, 0)
         /\ client[s] = "row" =>
              file = Complete /\ rowId[s] \in 1 .. Len(Rows) /\ offsetRef[s] = Ref(rowId[s])

FileInv == Len(file) <= Len(Output) /\ Positions /\ Covered /\ Whole
Answers == NeverWrongRow /\ RowsFound
IInv == TypeOK /\ FileInv /\ (raced \/ Alone) /\ Answers

-----------------------------------------------------------------------------
\* TypeOK, in the form the provers use.
LEMMA Types ==
    ASSUME TypeOK
    PROVE /\ exists \in BOOLEAN /\ raced \in BOOLEAN /\ file \in Seq(Nat)
          /\ starter \in [Starters -> {"stat", "open", "write", "header", "run", "died"}]
          /\ at \in [Starters -> 0 .. Len(Output)] /\ Len(Output) \in Nat /\ Len(file) \in Nat
          /\ client \in [Starters -> {"idle", "table", "row"}]
          /\ rowId \in [Starters -> 0 .. (Asked - 1)]
          /\ offsetRef \in [Starters -> Nat]
          /\ answer \in [id : 0 .. (Asked - 1), count : Nat]
<1>1. exists \in BOOLEAN /\ raced \in BOOLEAN
  BY Zenon DEF TypeOK
<1>2. Len(Output) \in Nat
  BY CompleteCells
<1>3. file \in Seq(Nat) /\ Len(file) \in Nat
  BY DEF TypeOK
<1> QED BY <1>1, <1>2, <1>3, Zenon DEF TypeOK, Output

\* No file, and nobody at work.
LEMMA InitOK == Init => IInv
<1> SUFFICES ASSUME Init PROVE IInv
  OBVIOUS
<1>1. exists = FALSE /\ file = <<>> /\ raced = FALSE
  BY DEF Init
<1>2. Len(Output) \in Nat /\ Asked \in Nat \ {0} /\ Len(<<>>) = 0 /\ <<>> \in Seq(Nat)
  BY CompleteCells, RowFileAssumption, RowsType
<1>3. TypeOK
  <2>1. {exists, raced} \subseteq BOOLEAN
    BY <1>1
  <2>2. at \in [Starters -> 0 .. Len(Written(Rows))]
    BY <1>2 DEF Init, Output
  <2>3. rowId \in [Starters -> 0 .. (Asked - 1)] /\ offsetRef \in [Starters -> Nat] /\ file \in Seq(Nat)
    BY <1>2 DEF Init
  <2>4. answer \in [id : 0 .. (Asked - 1), count : Nat]
    BY <1>2 DEF Init, Error
  <2>5. /\ starter \in [Starters -> {"stat", "open", "write", "header", "run", "died"}]
        /\ client \in [Starters -> {"idle", "table", "row"}]
    BY DEF Init
  <2> QED BY <2>1, <2>2, <2>3, <2>4, <2>5 DEF TypeOK
<1>4. FileInv
  <2>1. Positions
    BY DEF Init, Positions
  <2>2. Len(file) <= Len(Output)
    BY <1>1, <1>2
  <2> QED BY <1>1, <2>1, <2>2 DEF FileInv, Covered, Whole
<1>5. Alone
  <2>1. \A s \in Starters : ~Writing(s) /\ client[s] = "idle"
    BY DEF Init, Writing
  <2>2. file = SubSeq(Output, 1, 0) /\ 0 \in 0 .. Len(Output)
    BY <1>1, <1>2, SubSeqEmpty
  <2> QED BY <2>1, <2>2 DEF Alone
<1>6. Answers
  BY DEF Init, Answers, NeverWrongRow, RowsFound
<1> QED BY <1>3, <1>4, <1>5, <1>6 DEF IInv

\* A step that gives no answer.
LEMMA AnswersKept ==
    ASSUME Answers, UNCHANGED answer, raced => raced',
           \A s \in Starters : starter[s] = "died" => starter'[s] = "died"
    PROVE Answers'
<1>1. Right' <=> Right
  BY DEF Right
<1> QED BY <1>1 DEF Answers, NeverWrongRow, RowsFound

\* Stat: the file is taken as it is.
LEMMA StatOK ==
    ASSUME IInv, NEW s \in Starters, Stat(s) PROVE IInv'
<1>0. TypeOK /\ FileInv /\ (raced \/ Alone) /\ Answers
  BY DEF IInv
<1>1. PICK there \in {"run", "open"} :
        starter[s] = "stat" /\ starter' = [starter EXCEPT ![s] = there] /\ (there = "run" => exists)
  BY DEF Stat, Move
<1>2. UNCHANGED <<exists, file, at, client, rowId, offsetRef, answer, raced>>
  BY DEF Stat, clientVars
<1>3. TypeOK'
  <2>1. starter' \in [Starters -> {"stat", "open", "write", "header", "run", "died"}]
    BY <1>0, <1>1, Types
  <2> QED BY <1>0, <1>2, <2>1 DEF TypeOK
<1>4. /\ \A x \in Starters : x # s => starter'[x] = starter[x]
      /\ starter'[s] = there
  BY <1>0, <1>1, Types
<1>5. \A x \in Starters : (Writing(x)' <=> Writing(x)) /\ (Covers(x) => Covers(x)')
  BY <1>1, <1>2, <1>4 DEF Writing, Covers
<1>6. FileInv'
  <2>1. Positions'
    BY <1>0, <1>1, <1>2, <1>4 DEF FileInv, Positions
  <2>2. Covered'
    BY <1>0, <1>2, <1>5 DEF FileInv, Covered
  <2>3. Disturbed => Disturbed'
    BY <1>1, <1>4 DEF Disturbed
  <2> QED BY <1>0, <1>2, <2>1, <2>2, <2>3 DEF FileInv, Whole
<1>7. (raced \/ Alone)'
  BY <1>0, <1>2, <1>5 DEF Alone
<1>8. Answers'
  BY <1>0, <1>1, <1>2, <1>4, AnswersKept
<1> QED BY <1>3, <1>6, <1>7, <1>8 DEF IInv

\* Open: the opener, who has written nothing yet, covers the empty file.
LEMMA OpenOK ==
    ASSUME IInv, NEW s \in Starters, Open(s) PROVE IInv'
<1>0. TypeOK /\ FileInv /\ (raced \/ Alone) /\ Answers
  BY DEF IInv
<1>1. /\ starter[s] = "open" /\ starter' = [starter EXCEPT ![s] = "write"]
      /\ exists' = TRUE /\ file' = <<>>
      /\ UNCHANGED <<at, client, rowId, offsetRef, answer>>
  BY DEF Open, Move, clientVars
<1>2. raced' = (raced \/ \E x \in Starters : Writing(x) \/ client[x] # "idle")
  BY DEF Open
<1>3. TypeOK'
  <2>1. starter' \in [Starters -> {"stat", "open", "write", "header", "run", "died"}]
    BY <1>0, <1>1, Types
  <2>2. raced' \in BOOLEAN /\ exists' \in BOOLEAN
    BY <1>1, <1>2
  <2>3. file' \in Seq(Nat)
    BY <1>1
  <2> QED BY <1>0, <1>1, <2>1, <2>2, <2>3 DEF TypeOK
<1>4. /\ \A x \in Starters : x # s => starter'[x] = starter[x]
      /\ starter'[s] = "write" /\ at'[s] = 0
  BY <1>0, <1>1, Types DEF FileInv, Positions
<1>5. Len(Output) \in Nat /\ Len(<<>>) = 0
  BY CompleteCells
<1>6. FileInv'
  <2>1. Positions'
    BY <1>0, <1>1, <1>4 DEF FileInv, Positions
  <2>2. Covers(s)'
    BY <1>1, <1>4, <1>5 DEF Covers
  <2>3. Disturbed'
    BY <1>4 DEF Disturbed
  <2>4. (Len(file) <= Len(Output))'
    <3>1. Output' = Output
      BY DEF Output, Written, Text, RefTable, RowNumber
    <3> QED BY <1>1, <1>5, <3>1
  <2> QED BY <2>1, <2>2, <2>3, <2>4 DEF FileInv, Covered, Whole
<1>7. (raced \/ Alone)'
  <2>1. CASE raced'
    BY <2>1
  <2>2. CASE ~raced'
    <3>1. \A x \in Starters : ~Writing(x) /\ client'[x] = "idle"
      BY <1>1, <1>2, <2>2
    <3>2. \A x \in Starters : Writing(x)' => x = s
      BY <1>4, <3>1 DEF Writing
    <3>3. file' = SubSeq(Output, 1, 0) /\ 0 \in 0 .. Len(Output)
      BY <1>1, <1>5, SubSeqEmpty
    <3>4. Alone'
      BY <1>4, <3>1, <3>2, <3>3 DEF Alone
    <3> QED BY <3>4
  <2> QED BY <2>1, <2>2
<1>8. Answers'
  BY <1>0, <1>1, <1>2, <1>4, AnswersKept
<1> QED BY <1>3, <1>6, <1>7, <1>8 DEF IInv

\* A starter that dies, or cannot open the file.
LEMMA DiedOK ==
    ASSUME IInv, NEW s \in Starters, Dies(s) \/ OpenFails(s) PROVE IInv'
<1>0. TypeOK /\ FileInv /\ (raced \/ Alone) /\ Answers
  BY DEF IInv
<1>1. /\ starter[s] \notin {"run", "died"} /\ starter' = [starter EXCEPT ![s] = "died"]
      /\ UNCHANGED <<exists, file, at, client, rowId, offsetRef, answer, raced>>
  BY DEF Dies, OpenFails, Move, clientVars
<1>3. TypeOK'
  <2>1. starter' \in [Starters -> {"stat", "open", "write", "header", "run", "died"}]
    BY <1>0, <1>1, Types
  <2> QED BY <1>0, <1>1, <2>1 DEF TypeOK
<1>4. /\ \A x \in Starters : x # s => starter'[x] = starter[x]
      /\ starter'[s] = "died"
  BY <1>0, <1>1, Types
<1>5. \A x \in Starters : (Writing(x)' => Writing(x)) /\ (Covers(x) => Covers(x)')
  BY <1>1, <1>4 DEF Writing, Covers
<1>6. FileInv'
  <2>1. Positions'
    BY <1>0, <1>1, <1>4 DEF FileInv, Positions
  <2>2. Covered'
    BY <1>0, <1>1, <1>5 DEF FileInv, Covered
  <2>3. Disturbed'
    BY <1>4 DEF Disturbed
  <2> QED BY <1>0, <1>1, <2>1, <2>2, <2>3 DEF FileInv, Whole
<1>7. (raced \/ Alone)'
  BY <1>0, <1>1, <1>5 DEF Alone
<1>8. Answers'
  BY <1>0, <1>1, <1>4, AnswersKept
<1> QED BY <1>3, <1>6, <1>7, <1>8 DEF IInv

\* Flush: whoever covered the file still does, as all write the same cells.
LEMMA FlushOK ==
    ASSUME IInv, NEW s \in Starters, Flush(s) PROVE IInv'
<1>0. TypeOK /\ FileInv /\ (raced \/ Alone) /\ Answers
  BY DEF IInv
<1>1. starter[s] = "write" /\ UNCHANGED <<exists, client, rowId, offsetRef, answer, raced>>
  BY DEF Flush, clientVars
<1>2. PICK next \in (at[s] + 1) .. Len(Output) :
        /\ file' = Overwritten(file, at[s], SubSeq(Output, at[s] + 1, next))
        /\ at' = [at EXCEPT ![s] = next]
        /\ IF next = Len(Output) THEN Move(s, "header") ELSE UNCHANGED starter
  BY Zenon DEF Flush, Content, Output
<1>3. PICK a \in Nat, there \in {"write", "header"} :
        /\ a = at[s] /\ next \in Nat /\ a < next /\ next <= Len(Output)
        /\ next \in 0 .. Len(Output)
        /\ starter' = [starter EXCEPT ![s] = there] /\ (there = "header" => next = Len(Output))
  <2>1. at[s] \in Nat /\ Len(Output) \in Nat
    BY <1>0, Types
  <2>2. next \in Nat /\ at[s] < next /\ next <= Len(Output) /\ next \in 0 .. Len(Output)
    BY <2>1
  <2>3. starter = [starter EXCEPT ![s] = "write"]
    BY <1>0, <1>1, Types
  <2>4. CASE next = Len(Output)
    BY <1>2, <2>1, <2>2, <2>4 DEF Move
  <2>5. CASE next # Len(Output)
    BY <1>2, <2>1, <2>2, <2>3, <2>5
  <2> QED BY <2>4, <2>5
<1>4. Flushed(file', file, a, next)
  <2>1. a <= next /\ Len(file) <= Len(Output) /\ file \in Seq(Nat)
    BY <1>0, <1>3, Types DEF FileInv
  <2> QED BY <1>2, <1>3, <2>1, FlushCells
<1>5. /\ \A x \in Starters : x # s => starter'[x] = starter[x] /\ at'[x] = at[x]
      /\ starter'[s] = there /\ at'[s] = next
  BY <1>0, <1>2, <1>3, Types
<1>6. TypeOK'
  <2>1. starter' \in [Starters -> {"stat", "open", "write", "header", "run", "died"}]
    BY <1>0, <1>3, Types
  <2>2. at' \in [Starters -> 0 .. Len(Output)]
    BY <1>0, <1>2, <1>3, Types
  <2>3. file' \in Seq(Nat)
    BY <1>4 DEF Flushed
  <2> QED BY <1>0, <1>1, <2>1, <2>2, <2>3 DEF TypeOK, Output
<1>7. \A x \in Starters : (Writing(x)' <=> Writing(x))
  BY <1>1, <1>5 DEF Writing
<1>8. FileInv'
  <2>1. Positions'
    BY <1>0, <1>1, <1>3, <1>5 DEF FileInv, Positions
  <2>2. ASSUME NEW b \in Starters, Covers(b) PROVE Covers(b)'
    <3>1. Len(file') \in Nat /\ Len(file) \in Nat /\ at[b] \in Nat /\ at'[b] \in Nat
      <4>1. TypeOK' => (file' \in Seq(Nat) /\ at' \in [Starters -> 0 .. Len(Output)])
        BY Zenon DEF TypeOK, Output
      <4> QED BY <1>0, <1>6, <4>1, Types
    <3>2. /\ Len(file) <= Len(file') /\ next <= Len(file')
          /\ \A i \in (a + 1) .. next : file'[i] = Output[i]
          /\ \A i \in 1 .. Len(file) : i \notin (a + 1) .. next => file'[i] = file[i]
      BY <1>4, Zenon DEF Flushed
    <3>3. at[b] <= Len(file) /\ \A i \in 2 .. at[b] : file[i] = Output[i]
      BY <2>2 DEF Covers
    <3>4. ASSUME NEW i \in 2 .. at[b] PROVE file'[i] = Output[i]
      <4>1. i \in 1 .. Len(file)
        BY <3>1, <3>3
      <4> QED BY <3>2, <3>3, <4>1
    <3>5. CASE b # s
      <4>1. at'[b] = at[b] /\ starter'[b] = starter[b] /\ at[b] <= Len(file')
        BY <1>5, <3>1, <3>2, <3>3, <3>5
      <4> QED BY <2>2, <3>4, <4>1 DEF Covers
    <3>6. CASE b = s
      <4>1. \A i \in 2 .. next : i \in 2 .. a \/ i \in (a + 1) .. next
        BY <1>3
      <4>2. \A i \in 2 .. next : file'[i] = Output[i]
        BY <1>3, <3>2, <3>4, <3>6, <4>1
      <4> QED BY <1>5, <3>2, <3>6, <4>2 DEF Covers
    <3> QED BY <3>5, <3>6
  <2>3. Covered'
    BY <1>0, <1>1, <2>2 DEF FileInv, Covered
  <2>4. Disturbed'
    BY <1>5 DEF Disturbed
  <2>5. Len(file') <= Len(Output)
    BY <1>4 DEF Flushed
  <2> QED BY <2>1, <2>3, <2>4, <2>5 DEF FileInv, Whole
<1>9. (raced \/ Alone)'
  <2>1. CASE raced
    BY <1>1, <2>1
  <2>2. CASE Alone
    <3>1. /\ file = SubSeq(Output, 1, a) /\ \A x \in Starters : client'[x] = "idle"
          /\ \A x \in Starters : Writing(x) => x = s
      BY <1>1, <1>3, <2>2 DEF Alone, Writing
    <3>2. a <= next
      BY <1>3
    <3>3. file' = SubSeq(Output, 1, next)
      BY <1>2, <1>3, <3>1, <3>2, FlushLeading
    <3>4. Alone'
      BY <1>3, <1>5, <1>7, <3>1, <3>3 DEF Alone
    <3> QED BY <3>4
  <2> QED BY <1>0, <2>1, <2>2
<1>10. Answers'
  BY <1>0, <1>1, <1>5, AnswersKept
<1> QED BY <1>6, <1>8, <1>9, <1>10 DEF IInv

\* Close: if this was the last one at work, the one that covers the file has
\* written all of it.
LEMMA CloseOK ==
    ASSUME IInv, NEW s \in Starters, Close(s) PROVE IInv'
<1>0. TypeOK /\ FileInv /\ (raced \/ Alone) /\ Answers
  BY DEF IInv
<1>1. /\ starter[s] = "header" /\ starter' = [starter EXCEPT ![s] = "run"]
      /\ UNCHANGED <<exists, at, client, rowId, offsetRef, answer, raced>>
  BY DEF Close, Move, clientVars
<1>2. file' = Overwritten(file, 0, <<RefTable(Rows)>>)
  BY Zenon DEF Close, Content
<1>3. exists /\ at[s] = Len(Output) /\ Len(file) <= Len(Output) /\ file \in Seq(Nat)
  BY <1>0, <1>1, Types DEF FileInv, Positions
<1>4. /\ file' \in Seq(Nat) /\ Len(file') <= Len(Output) /\ Len(file) <= Len(file')
      /\ file'[1] = RefTable(Rows) /\ \A i \in 2 .. Len(file) : file'[i] = file[i]
  BY <1>2, <1>3, CloseCells
<1>5. /\ \A x \in Starters : x # s => starter'[x] = starter[x]
      /\ starter'[s] = "run"
  BY <1>0, <1>1, Types
<1>6. TypeOK'
  <2>1. starter' \in [Starters -> {"stat", "open", "write", "header", "run", "died"}]
    BY <1>0, <1>1, Types
  <2> QED BY <1>0, <1>1, <1>4, <2>1 DEF TypeOK
<1>7. FileInv'
  <2>1. Positions'
    BY <1>0, <1>1, <1>5 DEF FileInv, Positions
  <2>2. ASSUME NEW b \in Starters, Covers(b) PROVE Covers(b)'
    <3>1. Len(file') \in Nat /\ Len(file) \in Nat /\ at[b] \in Nat
      BY <1>0, <1>4, Types
    <3>2. at[b] <= Len(file) /\ \A i \in 2 .. at[b] : file[i] = Output[i]
      BY <2>2 DEF Covers
    <3>3. at[b] <= Len(file') /\ \A i \in 2 .. at[b] : i \in 2 .. Len(file)
      BY <1>4, <3>1, <3>2
    <3>4. \A i \in 2 .. at[b] : file'[i] = Output[i]
      BY <1>4, <3>2, <3>3
    <3> QED BY <1>1, <1>3, <1>5, <2>2, <3>3, <3>4 DEF Covers
  <2>3. PICK b \in Starters : Covers(b)
    BY <1>0, <1>3 DEF FileInv, Covered
  <2>4. Covered'
    BY <2>2, <2>3 DEF Covered
  <2>5. Whole'
    <3>1. CASE Disturbed'
      BY <3>1 DEF Whole
    <3>2. CASE ~Disturbed'
      <4>1. starter'[b] = "run" /\ Covers(b)'
        BY <2>2, <2>3, <3>2 DEF Disturbed, Covers
      <4>2. at'[b] = Len(Output) /\ at'[b] <= Len(file') /\ \A i \in 2 .. at'[b] : file'[i] = Output[i]
        BY <4>1 DEF Covers
      <4>3. Len(file') = Len(Output)
        BY <1>0, <1>4, <4>2, Types
      <4>4. \A i \in 2 .. Len(Output) : file'[i] = Output[i]
        BY <4>2
      <4>5. file' = Complete
        BY <1>4, <4>3, <4>4, IsComplete
      <4> QED BY <4>5 DEF Whole
    <3> QED BY <3>1, <3>2
  <2> QED BY <1>4, <2>1, <2>4, <2>5 DEF FileInv
<1>8. (raced \/ Alone)'
  <2>1. CASE raced
    BY <1>1, <2>1
  <2>2. CASE Alone
    <3>1. /\ file = SubSeq(Output, 1, Len(Output)) /\ \A x \in Starters : client'[x] = "idle"
          /\ \A x \in Starters : Writing(x) => x = s
      BY <1>1, <1>3, <2>2 DEF Alone, Writing
    <3>2. file' = Complete
      BY <1>2, <3>1, CloseWhole
    <3>3. \A x \in Starters : ~Writing(x)'
      BY <1>5, <3>1 DEF Writing
    <3>4. Alone'
      BY <3>1, <3>2, <3>3 DEF Alone
    <3> QED BY <3>4
  <2> QED BY <1>0, <2>1, <2>2
<1>9. Answers'
  BY <1>0, <1>1, <1>5, AnswersKept
<1> QED BY <1>6, <1>7, <1>8, <1>9 DEF IInv

-----------------------------------------------------------------------------
\* What the reads leave alone.
LEMMA ReadingOK ==
    ASSUME IInv, NEW s \in Starters, NEW here, NEW there, Reading(s, here, there)
    PROVE /\ UNCHANGED <<exists, file, starter, at>>
          /\ starter[s] = "run" /\ client[s] = here /\ client' = [client EXCEPT ![s] = there]
          /\ FileInv' /\ raced' \in BOOLEAN /\ (raced => raced')
          /\ ~raced' => (Alone /\ (\A x \in Starters : ~Writing(x)) /\
                         (Disturbed => \E x \in Starters : starter[x] = "died") /\
                         (Disturbed \/ file = Complete))
<1>1. UNCHANGED <<exists, file, starter, at>>
  BY DEF Reading, starterVars
<1>2. /\ starter[s] = "run" /\ exists /\ client[s] = here /\ client' = [client EXCEPT ![s] = there]
      /\ raced' = (raced \/ \E x \in Starters : Writing(x))
  BY DEF Reading
<1>3. FileInv'
  BY <1>1 DEF IInv, FileInv, Positions, Covered, Covers, Whole, Disturbed
<1>4. raced' \in BOOLEAN /\ (raced => raced')
  BY <1>2
<1>5. ASSUME ~raced'
      PROVE /\ Alone /\ (\A x \in Starters : ~Writing(x)) /\ (Disturbed \/ file = Complete)
            /\ Disturbed => \E x \in Starters : starter[x] = "died"
  BY <1>2, <1>5 DEF IInv, FileInv, Whole, Disturbed, Writing
<1> QED BY <1>1, <1>2, <1>3, <1>4, <1>5

\* ReadHeader.
LEMMA ReadHeaderOK ==
    ASSUME IInv, NEW s \in Starters, ReadHeader(s) PROVE IInv'
<1>0. TypeOK /\ FileInv /\ (raced \/ Alone) /\ Answers
  BY DEF IInv
<1>1. /\ UNCHANGED <<exists, file, starter, at, answer>>
      /\ client' = [client EXCEPT ![s] = "table"]
      /\ FileInv' /\ raced' \in BOOLEAN /\ (raced => raced')
      /\ ~raced' => (Alone /\ \A x \in Starters : ~Writing(x))
  BY ReadingOK DEF ReadHeader
<1>2. PICK id \in 0 .. (Asked - 1) : rowId' = [rowId EXCEPT ![s] = id]
  BY DEF ReadHeader
<1>3. offsetRef' = [offsetRef EXCEPT ![s] = Word(file, 0)] /\ Word(file, 0) \in Nat
  BY <1>0, Types, WordType DEF ReadHeader
<1>4. TypeOK'
  <2>1. client' \in [Starters -> {"idle", "table", "row"}]
    BY <1>0, <1>1, Types
  <2>2. rowId' \in [Starters -> 0 .. (Asked - 1)] /\ offsetRef' \in [Starters -> Nat]
    BY <1>0, <1>2, <1>3, Types
  <2> QED BY <1>0, <1>1, <2>1, <2>2 DEF TypeOK
<1>5. /\ \A x \in Starters : x # s => client'[x] = client[x] /\ rowId'[x] = rowId[x] /\ offsetRef'[x] = offsetRef[x]
      /\ client'[s] = "table" /\ offsetRef'[s] = Word(file, 0)
  BY <1>0, <1>1, <1>2, <1>3, Types
<1>6. (raced \/ Alone)'
  <2>1. CASE raced'
    BY <2>1
  <2>2. CASE ~raced'
    <3>1. \A x \in Starters : ~Writing(x)'
      BY <1>1, <2>2 DEF Writing
    <3>2. Alone'
      BY <1>1, <1>5, <2>2, <3>1 DEF Alone
    <3> QED BY <3>2
  <2> QED BY <2>1, <2>2
<1>7. Answers'
  BY <1>0, <1>1, AnswersKept
<1> QED BY <1>1, <1>4, <1>6, <1>7 DEF IInv

\* As long as nobody met a writer, an entry that is found is the one of the row.
LEMMA FoundEntry ==
    ASSUME TypeOK, Alone, NEW s \in Starters, client[s] = "table",
           EntriesOf(file, offsetRef[s], rowId[s]) # {}
    PROVE /\ file = Complete /\ rowId[s] \in 1 .. Len(Rows)
          /\ Word(file, offsetRef[s] + 2 * Min(EntriesOf(file, offsetRef[s], rowId[s])) - 1) = Ref(rowId[s])
<1>1. offsetRef[s] = Word(file, 0) /\ rowId[s] \in Nat
  <2>1. rowId[s] \in 0 .. (Asked - 1)
    BY Types
  <2> QED BY <2>1 DEF Alone
<1>2. file = Complete
  <2>1. ASSUME NEW k \in 0 .. Len(Output), file = SubSeq(Output, 1, k) PROVE FALSE
    BY <1>1, <2>1, TornEmpty
  <2> QED BY <2>1 DEF Alone
<1>3. offsetRef[s] = RefTable(Rows)
  BY <1>1, <1>2, CompleteWords
<1>4. rowId[s] \in 1 .. Len(Rows) /\ EntriesOf(file, offsetRef[s], rowId[s]) = {rowId[s]}
  BY <1>1, <1>2, <1>3, CompleteEntries
<1>5. Min({rowId[s]}) = rowId[s]
  BY <1>1 DEF Min
<1>6. Word(Complete, RefTable(Rows) + 2 * rowId[s] - 1) = Ref(rowId[s])
  BY <1>4, CompleteWords
<1> QED BY <1>2, <1>3, <1>4, <1>5, <1>6

\* FindEntry.
LEMMA FindEntryOK ==
    ASSUME IInv, NEW s \in Starters, FindEntry(s) PROVE IInv'
<1>0. TypeOK /\ FileInv /\ (raced \/ Alone) /\ Answers
  BY DEF IInv
<1>1. PICK entries : entries = EntriesOf(file, offsetRef[s], rowId[s])
  OBVIOUS
<1>2. /\ entries # {} /\ Reading(s, "table", "row") /\ UNCHANGED <<rowId, answer>>
      /\ offsetRef' = [offsetRef EXCEPT ![s] = Word(file, offsetRef[s] + 2 * Min(entries) - 1)]
  BY <1>1 DEF FindEntry
<1>3. /\ UNCHANGED <<exists, file, starter, at>>
      /\ client[s] = "table" /\ client' = [client EXCEPT ![s] = "row"]
      /\ FileInv' /\ raced' \in BOOLEAN /\ (raced => raced')
      /\ ~raced' => (Alone /\ \A x \in Starters : ~Writing(x))
  BY <1>2, ReadingOK
<1>4. PICK w \in Nat : w = Word(file, offsetRef[s] + 2 * Min(entries) - 1)
  <2>1. offsetRef[s] \in Nat /\ file \in Seq(Nat)
    BY <1>0, Types
  <2>2. Min(entries) \in Nat \ {0}
    BY <1>1, <1>2, <2>1, EntriesType
  <2>3. offsetRef[s] + 2 * Min(entries) - 1 \in Nat
    BY <2>1, <2>2
  <2> QED BY <2>1, <2>3, WordType
<1>5. TypeOK'
  <2>1. client' \in [Starters -> {"idle", "table", "row"}]
    BY <1>0, <1>3, Types
  <2>2. offsetRef' \in [Starters -> Nat]
    BY <1>0, <1>2, <1>4, Types
  <2> QED BY <1>0, <1>2, <1>3, <2>1, <2>2 DEF TypeOK
<1>6. /\ \A x \in Starters : x # s => client'[x] = client[x] /\ offsetRef'[x] = offsetRef[x]
      /\ client'[s] = "row" /\ offsetRef'[s] = w
  BY <1>0, <1>2, <1>3, <1>4, Types
<1>7. (raced \/ Alone)'
  <2>1. CASE raced'
    BY <2>1
  <2>2. CASE ~raced'
    <3>1. \A x \in Starters : ~Writing(x)'
      BY <1>3, <2>2 DEF Writing
    <3>2. file = Complete /\ rowId[s] \in 1 .. Len(Rows) /\ w = Ref(rowId[s])
      BY <1>0, <1>1, <1>2, <1>3, <1>4, <2>2, FoundEntry
    <3>3. Alone'
      BY <1>2, <1>3, <1>6, <2>2, <3>1, <3>2 DEF Alone
    <3> QED BY <3>3
  <2> QED BY <2>1, <2>2
<1>8. Answers'
  BY <1>0, <1>2, <1>3, AnswersKept
<1> QED BY <1>3, <1>5, <1>7, <1>8 DEF IInv

\* The two reads that give an answer.
LEMMA AnsweredOK ==
    ASSUME IInv, NEW s \in Starters, NEW here, Reading(s, here, "idle"), NEW count \in Nat,
           Answer(s, count), UNCHANGED <<rowId, offsetRef>>, Answers'
    PROVE IInv'
<1>0. TypeOK /\ FileInv /\ (raced \/ Alone) /\ Answers
  BY DEF IInv
<1>1. /\ UNCHANGED <<exists, file, starter, at>>
      /\ client' = [client EXCEPT ![s] = "idle"]
      /\ FileInv' /\ raced' \in BOOLEAN /\ (raced => raced')
      /\ ~raced' => (Alone /\ \A x \in Starters : ~Writing(x))
  BY ReadingOK
<1>2. TypeOK'
  <2>1. client' \in [Starters -> {"idle", "table", "row"}]
    BY <1>0, <1>1, Types
  <2>2. answer' \in [id : 0 .. (Asked - 1), count : Nat]
    <3>1. rowId[s] \in 0 .. (Asked - 1)
      BY <1>0, Types
    <3> QED BY <3>1 DEF Answer
  <2> QED BY <1>0, <1>1, <2>1, <2>2 DEF TypeOK
<1>3. \A x \in Starters : client'[x] = client[x] \/ client'[x] = "idle"
  BY <1>0, <1>1, Types
<1>4. (raced \/ Alone)'
  <2>1. CASE raced'
    BY <2>1
  <2>2. CASE ~raced'
    <3>1. \A x \in Starters : ~Writing(x)'
      BY <1>1, <2>2 DEF Writing
    <3>2. Alone'
      BY <1>1, <1>3, <2>2, <3>1 DEF Alone
    <3> QED BY <3>2
  <2> QED BY <2>1, <2>2
<1> QED BY <1>1, <1>2, <1>4 DEF IInv

\* FindNothing: a whole file has an entry for every row but row 0.
LEMMA FindNothingOK ==
    ASSUME IInv, NEW s \in Starters, FindNothing(s) PROVE IInv'
<1>0. TypeOK
  BY DEF IInv
<1>1. /\ EntriesOf(file, offsetRef[s], rowId[s]) = {} /\ Reading(s, "table", "idle")
      /\ Answer(s, Error) /\ UNCHANGED <<rowId, offsetRef>>
  BY DEF FindNothing
<1>2. /\ UNCHANGED starter /\ client[s] = "table"
      /\ ~raced' => (Alone /\ (Disturbed => \E x \in Starters : starter[x] = "died") /\
                     (Disturbed \/ file = Complete))
  BY <1>1, ReadingOK
<1>3. answer'.id = rowId[s] /\ answer'.count = Error /\ Error \in Nat
  BY <1>1 DEF Answer, Error
<1>4. NeverWrongRow'
  BY <1>3 DEF NeverWrongRow, Error
<1>5. RowsFound'
  <2>1. SUFFICES ASSUME ~raced', ~\E x \in Starters : starter'[x] = "died", rowId[s] # 0 PROVE FALSE
    BY <1>3 DEF RowsFound
  <2>2. file = Complete /\ Alone
    BY <1>2, <2>1
  <2>3. offsetRef[s] = RefTable(Rows)
    BY <1>2, <2>2, CompleteWords DEF Alone
  <2>4. rowId[s] \in Nat /\ rowId[s] \in 1 .. Len(Rows)
    <3>1. rowId[s] \in 0 .. (Asked - 1) /\ Asked \in 1 .. (Len(Rows) + 1) /\ Len(Rows) \in Nat
      BY <1>0, Types, RowFileAssumption, RowsType
    <3> QED BY <2>1, <3>1
  <2>5. EntriesOf(Complete, RefTable(Rows), rowId[s]) = {rowId[s]}
    BY <2>4, CompleteEntries
  <2> QED BY <1>1, <2>2, <2>3, <2>5
<1>6. Answers'
  BY <1>4, <1>5 DEF Answers
<1> QED BY <1>1, <1>3, <1>6, AnsweredOK

\* ReadIt: the count of the row that was asked for.
LEMMA ReadItOK ==
    ASSUME IInv, NEW s \in Starters, ReadIt(s) PROVE IInv'
<1>0. TypeOK
  BY DEF IInv
<1>1. PICK count \in Nat : count = GetCharsCount(file, offsetRef[s])
  <2>1. file \in Seq(Nat) /\ offsetRef[s] \in Nat
    BY <1>0, Types
  <2> QED BY <2>1, CountType
<1>2. Reading(s, "row", "idle") /\ Answer(s, count) /\ UNCHANGED <<rowId, offsetRef>>
  BY <1>1 DEF ReadIt
<1>3. client[s] = "row" /\ (~raced' => Alone)
  BY <1>2, ReadingOK
<1>4. answer'.id = rowId[s] /\ answer'.count = count
  BY <1>2 DEF Answer
<1>5. ~raced' => Right'
  <2>1. SUFFICES ASSUME ~raced' PROVE Right'
    OBVIOUS
  <2>2. file = Complete /\ rowId[s] \in 1 .. Len(Rows) /\ offsetRef[s] = Ref(rowId[s])
    BY <1>3, <2>1 DEF Alone
  <2>3. count = Len(Rows[rowId[s]]) + 2
    BY <1>1, <2>2, CompleteRow
  <2>4. rowId[s] \in DOMAIN Rows
    BY <2>2, RowsType
  <2> QED BY <1>4, <2>3, <2>4 DEF Right
<1>6. Answers'
  BY <1>5 DEF Answers, NeverWrongRow, RowsFound
<1> QED BY <1>2, <1>6, AnsweredOK

-----------------------------------------------------------------------------
(* Theorems *)

\* Every step preserves the invariant.
LEMMA NextOK == IInv /\ [Next]_vars => IInv'
<1> SUFFICES ASSUME IInv, [Next]_vars PROVE IInv'
  OBVIOUS
<1>1. CASE UNCHANGED vars
  <2>1. UNCHANGED <<exists, file, starter, at, client, rowId, offsetRef, answer, raced>>
    BY <1>1 DEF vars
  <2>2. TypeOK' /\ FileInv'
    BY <2>1 DEF IInv, TypeOK, FileInv, Positions, Covered, Covers, Whole, Disturbed
  <2>3. (raced \/ Alone)'
    BY <2>1 DEF IInv, Alone, Writing
  <2>4. Answers'
    BY <2>1 DEF IInv, Answers, NeverWrongRow, RowsFound, Right
  <2> QED BY <2>2, <2>3, <2>4 DEF IInv
<1>2. CASE Next
  <2>1. PICK s \in Starters :
          \/ Stat(s) \/ Open(s) \/ OpenFails(s) \/ Flush(s) \/ Close(s) \/ Dies(s)
          \/ ReadHeader(s) \/ FindEntry(s) \/ FindNothing(s) \/ ReadIt(s)
    BY <1>2 DEF Next
  <2>2. CASE Stat(s)
    BY <2>2, StatOK
  <2>3. CASE Open(s)
    BY <2>3, OpenOK
  <2>4. CASE OpenFails(s) \/ Dies(s)
    BY <2>4, DiedOK
  <2>5. CASE Flush(s)
    BY <2>5, FlushOK
  <2>6. CASE Close(s)
    BY <2>6, CloseOK
  <2>7. CASE ReadHeader(s)
    BY <2>7, ReadHeaderOK
  <2>8. CASE FindEntry(s)
    BY <2>8, FindEntryOK
  <2>9. CASE FindNothing(s)
    BY <2>9, FindNothingOK
  <2>10. CASE ReadIt(s)
    BY <2>10, ReadItOK
  <2> QED BY <2>1, <2>2, <2>3, <2>4, <2>5, <2>6, <2>7, <2>8, <2>9, <2>10
<1> QED BY <1>1, <1>2

\* The invariant of the specification.
LEMMA Inductive == Spec => []IInv
BY InitOK, NextOK, PTL DEF Spec

\* Writer::Write and Reader::Read are inverse: whatever the rows, the finished
\* file gives back each of them with its end and its zero.
THEOREM RoundTrip == ReadAll(Complete) = [i \in DOMAIN Rows |-> Rows[i] \o <<NewLine, 0>>]
BY CompleteReadAll

\* GetRowById on the finished file: a number that a row has is found in one entry
\* and leads to that row, and any other number, row 0 among them, to nothing.
THEOREM LookupExact ==
    ASSUME NEW id \in Nat, NEW o, o = Word(Complete, 0), NEW e, e = EntriesOf(Complete, o, id)
    PROVE /\ id \in DOMAIN Rows =>
               /\ e = {id}
               /\ GetCharsCount(Complete, Word(Complete, o + 2 * id - 1)) = Len(Rows[id]) + 2
          /\ id \notin DOMAIN Rows => e = {}
<1>1. o = RefTable(Rows) /\ DOMAIN Rows = 1 .. Len(Rows)
  BY CompleteWords, RowsType
<1>2. e = IF id \in 1 .. Len(Rows) THEN {id} ELSE {}
  BY <1>1, CompleteEntries
<1>3. ASSUME id \in 1 .. Len(Rows)
      PROVE GetCharsCount(Complete, Word(Complete, o + 2 * id - 1)) = Len(Rows[id]) + 2
  <2>1. Word(Complete, o + 2 * id - 1) = Ref(id)
    BY <1>1, <1>3, CompleteWords
  <2> QED BY <1>3, <2>1, CompleteRow
<1> QED BY <1>1, <1>2, <1>3

\* PrepareSample: the state is well formed, whoever runs has a file, and when no
\* starter is at work and none died the file is whole, however many emptied and
\* wrote it at once.
THEOREM SettledIsWhole == Spec => []Consistent
<1>1. IInv => Consistent
  <2> SUFFICES ASSUME IInv PROVE Consistent
    OBVIOUS
  <2>1. TypeOK /\ Positions /\ Whole
    BY DEF IInv, FileInv
  <2>2. ClientHasFile
    BY <2>1 DEF ClientHasFile, Positions
  <2>3. SettledFile
    <3>1. SUFFICES ASSUME \E s \in Starters : starter[s] = "run",
                          \A s \in Starters : starter[s] \in {"stat", "run"}
                   PROVE file = Complete
      BY CompleteReadAll DEF SettledFile
    <3> QED BY <2>1, <2>2, <3>1 DEF Whole, Disturbed, ClientHasFile
  <2> QED BY <2>1, <2>2, <2>3 DEF Consistent
<1> QED BY <1>1, Inductive, PTL

\* As long as no writer met anybody the file is the finished one or what one
\* writer had written when it was killed: nothing in between.
TornOrWhole ==
    raced \/ file = Complete \/ \E k \in 0 .. Len(Written(Rows)) : file = SubSeq(Written(Rows), 1, k)

\* A killed starter leaves a front of Writer::Write's output, for any rows and any
\* flush (serializer.h:139-177).
THEOREM OnlyTornOrWhole == Spec => []TornOrWhole
<1>1. IInv => TornOrWhole
  BY Zenon DEF IInv, Alone, TornOrWhole, Output
<1> QED BY <1>1, Inductive, PTL

\* A lookup in a file that a killed starter left torn finds the row or nothing,
\* wherever the kill fell: the offset of the table is written last.
THEOREM TornIsSafe == Spec => []NeverWrongRow
<1>1. IInv => NeverWrongRow
  BY DEF IInv, Answers
<1> QED BY <1>1, Inductive, PTL

\* If no starter died and none met another, every row but row 0 is found.
THEOREM AllRowsFound == Spec => []RowsFound
<1>1. IInv => RowsFound
  BY DEF IInv, Answers
<1> QED BY <1>1, Inductive, PTL
=============================================================================
