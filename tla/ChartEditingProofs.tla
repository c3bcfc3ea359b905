-------------------------- MODULE ChartEditingProofs --------------------------
(***************************************************************************)
(* What the parser, the operations and the verifier of Sankey diagrams,    *)
(* radar charts and timelines do, for any authored sources and any         *)
(* arguments: the lemmas behind the theorems of AgentSessionProofs.        *)
(***************************************************************************)
EXTENDS ChartEditing, FiniteSetTheorems, WellFoundedInduction, TLAPS

(***************************************************************************)
(* Sets and folds.  The parsers are folds over lines; that the recursive   *)
(* function behind a fold exists is shown here once, for a step that is a  *)
(* function from bodies and lines to bodies.                               *)
(***************************************************************************)
\* A family of subsets of a finite set that is not empty has a smallest member.
LEMMA SmallestSubset ==
    ASSUME NEW U, IsFiniteSet(U), NEW F, F \subseteq SUBSET U, F # {}
    PROVE  \E S \in F : \A T \in F : T \subseteq S => T = S
<1>1. F \subseteq FiniteSubsetsOf(U)
  BY FS_FiniteSubsetsOfFinite
<1>2. IsWellFoundedOn(StrictSubsetOrdering(U), FiniteSubsetsOf(U))
  BY FS_StrictSubsetOrderingWellFounded
<1>3. \E S \in F : \A T \in F : <<T, S>> \notin StrictSubsetOrdering(U)
  BY <1>1, <1>2, WFMin
<1>4. QED
  BY <1>3 DEF StrictSubsetOrdering

\* A set of numbers up to n that is not empty has a smallest member.
LEMMA SmallestNumber ==
    ASSUME NEW n \in Nat, NEW F, F \subseteq 0 .. n, F # {}
    PROVE  \E m \in F : \A k \in F : m <= k
<1> DEFINE Below == {0 .. k : k \in F}
<1>1. IsFiniteSet(0 .. n)
  BY FS_Interval
<1>2. Below \subseteq SUBSET (0 .. n) /\ Below # {}
  <2>1. Below # {}
    OBVIOUS
  <2>2. ASSUME NEW k \in F PROVE 0 .. k \subseteq 0 .. n
    OBVIOUS
  <2>3. QED
    BY <2>1, <2>2
<1>3. PICK S \in Below : \A T \in Below : T \subseteq S => T = S
  <2> DEFINE U == 0 .. n
  <2>1. IsFiniteSet(U) /\ Below \subseteq SUBSET U /\ Below # {}
    BY <1>1, <1>2
  <2> HIDE DEF Below, U
  <2>2. QED
    BY <2>1, SmallestSubset
<1>4. PICK m \in F : S = 0 .. m
  OBVIOUS
<1>5. ASSUME NEW k \in F PROVE m <= k
  <2>1. m \in Nat /\ k \in Nat /\ 0 .. k \in Below
    OBVIOUS
  <2>2. CASE k < m
    <3>1. 0 .. k \subseteq 0 .. m
      BY <2>1, <2>2
    <3>2. 0 .. k = 0 .. m
      BY <1>3, <1>4, <2>1, <3>1
    <3>3. m \in 0 .. k
      BY <2>1, <3>2
    <3>4. QED
      BY <2>1, <2>2, <3>3
  <2>3. QED
    BY <2>1, <2>2
<1>6. QED
  BY <1>5

Greatest(s) == CHOOSE x \in s : \A y \in s : x >= y

LEMMA GreatestIs ==
    ASSUME NEW n \in Nat, NEW s, s \subseteq 1 .. n, n \in s
    PROVE  Greatest(s) = n
<1>1. \E x \in s : \A y \in s : x >= y
  OBVIOUS
<1>2. Greatest(s) \in s /\ \A y \in s : Greatest(s) >= y
  BY <1>1 DEF Greatest
<1>3. Greatest(s) \in 1 .. n /\ Greatest(s) >= n
  BY <1>2
<1>4. QED
  BY <1>3

\* A set of numbers that is not empty has a greatest one.
LEMMA GreatestIn ==
    ASSUME NEW n \in Nat, NEW s \in SUBSET (1 .. n), s # {}
    PROVE  Greatest(s) \in s /\ \A y \in s : Greatest(s) >= y
<1> DEFINE F == {n - x : x \in s}
<1>1. F \subseteq 0 .. n /\ F # {}
  <2>1. ASSUME NEW x \in s PROVE n - x \in 0 .. n
    <3>1. x \in 1 .. n
      OBVIOUS
    <3>2. QED
      BY <3>1
  <2>2. QED
    BY <2>1
<1>2. PICK m \in F : \A k \in F : m <= k
  <2> HIDE DEF F
  <2> QED BY <1>1, SmallestNumber
<1>3. PICK x \in s : m = n - x
  OBVIOUS
<1>4. ASSUME NEW y \in s PROVE x >= y
  <2>1. n - y \in F
    OBVIOUS
  <2>2. n - x <= n - y
    BY <1>2, <1>3, <2>1
  <2>3. x \in Nat /\ y \in Nat
    OBVIOUS
  <2>4. QED
    BY <2>2, <2>3
<1>5. QED
  BY <1>4 DEF Greatest

\* The fold of seq by step, for every set of positions read in their order.
IsRun(g, seq, n, step, base) ==
    \A s \in SUBSET (1 .. n) :
        g[s] = IF s = {} THEN base ELSE step[<<g[s \ {Greatest(s)}], seq[Greatest(s)]>>]

LEMMA RunExists ==
    ASSUME NEW B, NEW L, NEW step \in [B \X L -> B], NEW base \in B,
           NEW N \in Nat, NEW seq \in [1 .. N -> L]
    PROVE  \E g \in [SUBSET (1 .. N) -> B] : IsRun(g, seq, N, step, base)
<1> DEFINE Bad == {n \in 0 .. N : ~ \E g \in [SUBSET (1 .. n) -> B] : IsRun(g, seq, n, step, base)}
<1>0. SUFFICES ASSUME Bad # {} PROVE FALSE
  <2>1. N \in 0 .. N
    OBVIOUS
  <2>2. QED
    BY <2>1
<1>1. PICK n \in Bad : \A m \in Bad : n <= m
  <2>1. Bad \subseteq 0 .. N
    OBVIOUS
  <2> HIDE DEF Bad
  <2>2. QED
    BY <1>0, <2>1, SmallestNumber
<1>2. CASE n = 0
  <2> DEFINE g == [s \in SUBSET (1 .. n) |-> base]
  <2>1. \A s \in SUBSET (1 .. n) : s = {}
    BY <1>2
  <2>2. IsRun(g, seq, n, step, base)
    BY <2>1 DEF IsRun
  <2>3. g \in [SUBSET (1 .. n) -> B]
    OBVIOUS
  <2> HIDE DEF g
  <2>4. QED
    BY <2>2, <2>3
<1>3. CASE n # 0
  <2>1. n \in 1 .. N /\ n - 1 \in 0 .. N
    BY <1>1, <1>3
  <2>0. n - 1 \notin Bad
    <3>1. ~(n <= n - 1)
      BY <2>1
    <3> HIDE DEF Bad
    <3>2. QED
      BY <1>1, <3>1
  <2>2. PICK f \in [SUBSET (1 .. (n - 1)) -> B] : IsRun(f, seq, n - 1, step, base)
    BY <2>1, <2>0
  <2> DEFINE g == [s \in SUBSET (1 .. n) |->
                     IF n \in s THEN step[<<f[s \ {n}], seq[n]>>] ELSE f[s]]
  <2>3. \A s \in SUBSET (1 .. n) : s \ {n} \in SUBSET (1 .. (n - 1)) /\ (n \notin s => s = s \ {n})
    BY <2>1
  <2>4. g \in [SUBSET (1 .. n) -> B]
    BY <2>1, <2>3
  <2>5. ASSUME NEW s \in SUBSET (1 .. n)
        PROVE  g[s] = IF s = {} THEN base ELSE step[<<g[s \ {Greatest(s)}], seq[Greatest(s)]>>]
    <3>1. CASE n \in s
      <4>1. Greatest(s) = n
        <5>1. n \in Nat /\ s \subseteq 1 .. n
          BY <2>1
        <5>2. QED
          BY <3>1, <5>1, GreatestIs
      <4>2. g[s \ {n}] = f[s \ {n}]
        BY <2>3
      <4>3. g[s] = step[<<f[s \ {n}], seq[n]>>]
        BY <3>1
      <4> HIDE DEF g
      <4>4. QED
        BY <3>1, <4>1, <4>2, <4>3
    <3>2. CASE n \notin s
      <4>1. s \in SUBSET (1 .. (n - 1)) /\ s \ {Greatest(s)} \in SUBSET (1 .. (n - 1))
        BY <2>3, <3>2
      <4>2. g[s] = f[s]
        BY <3>2
      <4>3. g[s \ {Greatest(s)}] = f[s \ {Greatest(s)}]
        BY <3>2
      <4> HIDE DEF g
      <4>4. QED
        BY <2>2, <4>1, <4>2, <4>3 DEF IsRun
    <3>3. QED
      BY <3>1, <3>2
  <2> HIDE DEF g
  <2>6. QED
    BY <2>1, <2>4, <2>5 DEF IsRun
<1>4. QED
  BY <1>2, <1>3

(***************************************************************************)
(* Sequences: what inserting and removing an element leaves where.         *)
(***************************************************************************)
LEMMA SequenceIs ==
    ASSUME NEW L, NEW n \in Nat, NEW f, f = [j \in 1 .. n |-> f[j]], \A j \in 1 .. n : f[j] \in L
    PROVE  f \in Seq(L) /\ Len(f) = n /\ DOMAIN f = 1 .. n
OBVIOUS

LEMMA SameSequence ==
    ASSUME NEW L, NEW n \in Nat, NEW s \in Seq(L), Len(s) = n,
           NEW f, f = [j \in 1 .. n |-> f[j]], \A j \in 1 .. n : s[j] = f[j]
    PROVE  s = f
<1>1. s = [j \in 1 .. n |-> s[j]]
  OBVIOUS
<1>2. QED
  BY <1>1

\* s with e before its i-th element.
Inserted(s, i, e) ==
    [j \in 1 .. Len(s) + 1 |-> IF j < i THEN s[j] ELSE IF j = i THEN e ELSE s[j - 1]]
\* s without its i-th element.
Removed(s, i) == [j \in 1 .. Len(s) - 1 |-> IF j < i THEN s[j] ELSE s[j + 1]]

LEMMA InsertedIs ==
    ASSUME NEW L, NEW s \in Seq(L), NEW i \in 1 .. Len(s) + 1, NEW e \in L
    PROVE  Inserted(s, i, e) \in Seq(L) /\ Len(Inserted(s, i, e)) = Len(s) + 1
<1> DEFINE f == Inserted(s, i, e)
<1>1. Len(s) \in Nat /\ i \in Nat /\ 1 <= i /\ i <= Len(s) + 1 /\ \A k \in 1 .. Len(s) : s[k] \in L
  OBVIOUS
<1>2. f = [j \in 1 .. Len(s) + 1 |-> f[j]]
  BY DEF Inserted
<1>3. ASSUME NEW j \in 1 .. Len(s) + 1 PROVE f[j] \in L
  <2>1. j \in Nat /\ (j < i => j \in 1 .. Len(s)) /\ (j > i => j - 1 \in 1 .. Len(s))
    BY <1>1
  <2>2. f[j] = IF j < i THEN s[j] ELSE IF j = i THEN e ELSE s[j - 1]
    BY DEF Inserted
  <2>3. QED
    BY <1>1, <2>1, <2>2
<1> HIDE DEF f
<1>4. f \in Seq(L) /\ Len(f) = Len(s) + 1
  BY <1>1, <1>2, <1>3, SequenceIs
<1>5. QED
  BY <1>4 DEF f

LEMMA RemovedIs ==
    ASSUME NEW L, NEW s \in Seq(L), NEW i \in 1 .. Len(s)
    PROVE  Removed(s, i) \in Seq(L) /\ Len(Removed(s, i)) = Len(s) - 1
<1> DEFINE f == Removed(s, i)
<1>1. /\ Len(s) \in Nat /\ i \in Nat /\ 1 <= i /\ i <= Len(s) /\ Len(s) - 1 \in Nat
      /\ \A k \in 1 .. Len(s) : s[k] \in L
  OBVIOUS
<1>2. f = [j \in 1 .. Len(s) - 1 |-> f[j]]
  BY DEF Removed
<1>3. ASSUME NEW j \in 1 .. Len(s) - 1 PROVE f[j] \in L
  <2>1. j \in 1 .. Len(s) /\ j + 1 \in 1 .. Len(s)
    BY <1>1
  <2>2. f[j] = IF j < i THEN s[j] ELSE s[j + 1]
    BY DEF Removed
  <2>3. QED
    BY <1>1, <2>1, <2>2
<1> HIDE DEF f
<1>4. f \in Seq(L) /\ Len(f) = Len(s) - 1
  BY <1>1, <1>2, <1>3, SequenceIs
<1>5. QED
  BY <1>4 DEF f

LEMMA ConcatIs ==
    ASSUME NEW L, NEW s \in Seq(L), NEW t \in Seq(L)
    PROVE  s \o t \in Seq(L) /\ Len(s \o t) = Len(s) + Len(t)
OBVIOUS

LEMMA ConcatBefore ==
    ASSUME NEW L, NEW s \in Seq(L), NEW t \in Seq(L), NEW j \in 1 .. Len(s)
    PROVE  (s \o t)[j] = s[j]
OBVIOUS

LEMMA ConcatAfter ==
    ASSUME NEW L, NEW s \in Seq(L), NEW t \in Seq(L), NEW j \in 1 .. Len(t)
    PROVE  (s \o t)[Len(s) + j] = t[j]
OBVIOUS

LEMMA InsertAtIs ==
    ASSUME NEW L, NEW s \in Seq(L), NEW i \in 1 .. Len(s) + 1, NEW e \in L
    PROVE  InsertAt(s, i, e) = Inserted(s, i, e)
<1> DEFINE n == Len(s)
           m == n + 1
           before == SubSeq(s, 1, i - 1)
           front == before \o <<e>>
           after == SubSeq(s, i, n)
           whole == front \o after
           f == Inserted(s, i, e)
<1>1. n \in Nat /\ i \in Nat /\ i - 1 \in Nat /\ 1 <= i /\ i <= n + 1 /\ m \in Nat
  OBVIOUS
<1>2. before \in Seq(L) /\ Len(before) = i - 1
  OBVIOUS
<1>3. \A j \in 1 .. i - 1 : before[j] = s[j]
  OBVIOUS
<1>4. after \in Seq(L) /\ Len(after) = n - i + 1
  BY <1>1
<1>5. \A j \in 1 .. n - i + 1 : after[j] = s[i + j - 1]
  BY <1>1
<1>6. <<e>> \in Seq(L) /\ Len(<<e>>) = 1 /\ <<e>>[1] = e
  OBVIOUS
<1>7. f = [j \in 1 .. m |-> IF j < i THEN s[j] ELSE IF j = i THEN e ELSE s[j - 1]]
  BY DEF Inserted
<1> HIDE DEF n, m, before, after, f
<1>8. front \in Seq(L) /\ Len(front) = i
  <2>1. front \in Seq(L) /\ Len(front) = Len(before) + Len(<<e>>)
    BY <1>2, <1>6, ConcatIs
  <2> HIDE DEF front
  <2>2. QED
    BY <1>1, <1>2, <1>6, <2>1
<1>9. ASSUME NEW j \in 1 .. i - 1 PROVE front[j] = s[j]
  <2>1. j \in 1 .. Len(before)
    BY <1>2
  <2>2. QED
    BY <1>2, <1>3, <1>6, <2>1, ConcatBefore
<1>10. front[i] = e
  <2>1. 1 \in 1 .. Len(<<e>>) /\ Len(before) + 1 = i
    BY <1>1, <1>2, <1>6
  <2>2. front[Len(before) + 1] = <<e>>[1]
    BY <1>2, <1>6, <2>1, ConcatAfter
  <2>3. QED
    BY <1>6, <2>1, <2>2
<1> HIDE DEF front
<1>11. whole \in Seq(L) /\ Len(whole) = m
  <2>1. whole \in Seq(L) /\ Len(whole) = Len(front) + Len(after)
    BY <1>4, <1>8, ConcatIs
  <2> HIDE DEF whole
  <2>2. QED
    BY <1>1, <1>4, <1>8, <2>1 DEF m
<1>12. ASSUME NEW j \in 1 .. m PROVE whole[j] = f[j]
  <2>0. j \in Nat /\ f[j] = IF j < i THEN s[j] ELSE IF j = i THEN e ELSE s[j - 1]
    BY <1>7
  <2>1. CASE j <= i
    <3>1. j \in 1 .. Len(front) /\ (j \in 1 .. i - 1 \/ j = i)
      BY <1>1, <1>8, <2>1
    <3>2. whole[j] = front[j]
      BY <1>4, <1>8, <3>1, ConcatBefore
    <3>3. front[j] = IF j < i THEN s[j] ELSE e
      BY <1>1, <1>9, <1>10, <2>1, <3>1
    <3>4. QED
      BY <1>1, <2>0, <2>1, <3>2, <3>3
  <2>2. CASE ~(j <= i)
    <3> DEFINE k == j - i
    <3>1. /\ k \in 1 .. n - i + 1 /\ k \in 1 .. Len(after) /\ Len(front) + k = j
          /\ i + k - 1 = j - 1 /\ ~(j < i) /\ j # i
      BY <1>1, <1>4, <1>8, <2>0, <2>2 DEF m
    <3> HIDE DEF k
    <3>2. whole[Len(front) + k] = after[k]
      BY <1>4, <1>8, <3>1, ConcatAfter
    <3>3. after[k] = s[i + k - 1]
      BY <1>5, <3>1
    <3>4. QED
      BY <2>0, <3>1, <3>2, <3>3
  <2>3. QED
    BY <2>1, <2>2
<1> HIDE DEF whole
<1>13. f = [j \in 1 .. m |-> f[j]]
  BY <1>7
<1>14. whole = f
  BY <1>1, <1>11, <1>12, <1>13, SameSequence
<1>15. QED
  BY <1>14 DEF InsertAt, n, before, after, front, f, whole

LEMMA RemoveAtIs ==
    ASSUME NEW L, NEW s \in Seq(L), NEW i \in 1 .. Len(s)
    PROVE  RemoveAt(s, i) = Removed(s, i)
<1> DEFINE n == Len(s)
           m == n - 1
           before == SubSeq(s, 1, i - 1)
           after == SubSeq(s, i + 1, n)
           whole == before \o after
           f == Removed(s, i)
<1>1. n \in Nat /\ i \in Nat /\ i - 1 \in Nat /\ 1 <= i /\ i <= n /\ m \in Nat
  OBVIOUS
<1>2. before \in Seq(L) /\ Len(before) = i - 1
  OBVIOUS
<1>3. \A j \in 1 .. i - 1 : before[j] = s[j]
  OBVIOUS
<1>4. after \in Seq(L) /\ Len(after) = n - i
  BY <1>1
<1>5. \A j \in 1 .. n - i : after[j] = s[i + j]
  BY <1>1
<1>6. f = [j \in 1 .. m |-> IF j < i THEN s[j] ELSE s[j + 1]]
  BY DEF Removed
<1> HIDE DEF n, m, before, after, f
<1>7. whole \in Seq(L) /\ Len(whole) = m
  <2>0. before \in Seq(L) /\ after \in Seq(L)
    BY <1>2, <1>4
  <2>1. whole \in Seq(L) /\ Len(whole) = Len(before) + Len(after)
    BY <2>0, ConcatIs
  <2> HIDE DEF whole
  <2>2. QED
    BY <1>1, <1>2, <1>4, <2>1 DEF m
<1>8. ASSUME NEW j \in 1 .. m PROVE whole[j] = f[j]
  <2>0. j \in Nat /\ f[j] = IF j < i THEN s[j] ELSE s[j + 1]
    BY <1>6
  <2>1. CASE j < i
    <3>1. j \in 1 .. i - 1 /\ j \in 1 .. Len(before)
      BY <1>1, <1>2, <2>0, <2>1
    <3>2. whole[j] = before[j]
      BY <1>2, <1>4, <3>1, ConcatBefore
    <3>3. QED
      BY <1>3, <2>0, <2>1, <3>1, <3>2
  <2>2. CASE ~(j < i)
    <3> DEFINE k == j - (i - 1)
    <3>1. /\ k \in 1 .. n - i /\ k \in 1 .. Len(after) /\ Len(before) + k = j /\ i + k = j + 1
      BY <1>1, <1>2, <1>4, <2>0, <2>2 DEF m
    <3> HIDE DEF k
    <3>2. whole[Len(before) + k] = after[k]
      <4>1. before \in Seq(L) /\ after \in Seq(L) /\ k \in 1 .. Len(after)
        BY <1>2, <1>4, <3>1
      <4>2. QED
        BY <4>1, ConcatAfter
    <3>3. after[k] = s[i + k]
      BY <1>5, <3>1
    <3>4. QED
      BY <2>0, <2>2, <3>1, <3>2, <3>3
  <2>3. QED
    BY <2>1, <2>2
<1> HIDE DEF whole
<1>9. f = [j \in 1 .. m |-> f[j]]
  BY <1>6
<1>10. whole = f
  BY <1>1, <1>7, <1>8, <1>9, SameSequence
<1>11. QED
  BY <1>10 DEF RemoveAt, n, before, after, f, whole

(***************************************************************************)
(* Sankey diagrams: what the parser reads.                                 *)
(***************************************************************************)
Kept(rows) == Sankey!FoldLeft(Sankey!ReadLine, Sankey!Blank, rows)
Uncommented(L) == {link \in L : link.source \notin sankey.comments}

SankeyRun(g, rows) ==
    g = [s \in SUBSET DOMAIN rows |->
           IF s = {} THEN <<>>
           ELSE Sankey!ReadLine(g[s \ {Greatest(s)}], rows[Greatest(s)])]

LEMMA KeptIsRun ==
    ASSUME NEW rows
    PROVE  Kept(rows) = (CHOOSE g : SankeyRun(g, rows))[DOMAIN rows]
BY DEF Kept, SankeyRun, Greatest, Sankey!FoldLeft, Sankey!MapThenFoldSet, Sankey!Max, Sankey!Blank

LEMMA SankeyRunExists ==
    ASSUME NEW L, NEW rows \in Seq(L)
    PROVE  \E g : SankeyRun(g, rows)
<1> DEFINE B == Seq(L)
           step == [p \in B \X L |-> Sankey!ReadLine(p[1], p[2])]
           n == Len(rows)
<1>1. step \in [B \X L -> B]
  BY DEF Sankey!ReadLine
<1>2. n \in Nat /\ DOMAIN rows = 1 .. n /\ rows \in [1 .. n -> L] /\ <<>> \in B
  OBVIOUS
<1>3. PICK g \in [SUBSET (1 .. n) -> B] : IsRun(g, rows, n, step, <<>>)
  <2> HIDE DEF B, step, n
  <2> QED BY <1>1, <1>2, RunExists
<1>4. ASSUME NEW s \in SUBSET (1 .. n), s # {}
      PROVE  g[s] = Sankey!ReadLine(g[s \ {Greatest(s)}], rows[Greatest(s)])
  <2>1. Greatest(s) \in s
    BY <1>2, <1>4, GreatestIn
  <2>2. rows[Greatest(s)] \in L /\ g[s \ {Greatest(s)}] \in B
    BY <1>2, <1>3, <2>1
  <2>3. g[s] = step[<<g[s \ {Greatest(s)}], rows[Greatest(s)]>>]
    BY <1>3, <1>4 DEF IsRun
  <2>4. QED
    BY <2>2, <2>3
<1>5. g[{}] = <<>>
  BY <1>3 DEF IsRun
<1>6. SankeyRun(g, rows)
  BY <1>2, <1>3, <1>4, <1>5 DEF SankeyRun
<1>7. QED
  BY <1>6

\* The parser's loop: r holds the links read from the first lines.
LEMMA SankeyReads ==
    ASSUME NEW L, NEW rows \in Seq(L)
    PROVE  \E r : /\ r[0] = <<>> /\ Kept(rows) = r[Len(rows)]
                  /\ \A i \in 1 .. Len(rows) : r[i] = Sankey!ReadLine(r[i - 1], rows[i])
<1> DEFINE n == Len(rows)
           g == CHOOSE g : SankeyRun(g, rows)
           r == [i \in 0 .. n |-> g[1 .. i]]
<1>1. n \in Nat /\ DOMAIN rows = 1 .. n
  OBVIOUS
<1>2. SankeyRun(g, rows)
  BY SankeyRunExists
<1>3. Kept(rows) = g[DOMAIN rows]
  BY KeptIsRun
<1> HIDE DEF g
<1>4. Kept(rows) = r[n]
  BY <1>1, <1>3
<1>5. r[0] = <<>>
  <2>1. 1 .. 0 = {} /\ {} \in SUBSET DOMAIN rows
    OBVIOUS
  <2>2. g[{}] = <<>>
    BY <1>2, <2>1 DEF SankeyRun
  <2>3. QED
    BY <1>1, <2>1, <2>2
<1>6. ASSUME NEW i \in 1 .. n PROVE r[i] = Sankey!ReadLine(r[i - 1], rows[i])
  <2>1. 1 .. i \in SUBSET DOMAIN rows /\ 1 .. i # {} /\ i - 1 \in 0 .. n /\ i \in 0 .. n
    <3> HIDE DEF n, r
    <3>1. i - 1 \in 0 .. n /\ i \in 0 .. n /\ i \in 1 .. i
      BY <1>1
    <3>2. 1 .. i \subseteq 1 .. n
      BY <1>1
    <3>3. QED
      BY <1>1, <3>1, <3>2
  <2>2. Greatest(1 .. i) = i
    BY <1>1, GreatestIs
  <2>3. (1 .. i) \ {i} = 1 .. (i - 1)
    <3>1. i \in Nat /\ i # 0
      BY <1>1
    <3>2. QED
      BY <3>1
  <2>4. g[1 .. i] = Sankey!ReadLine(g[(1 .. i) \ {i}], rows[i])
    BY <1>2, <2>1, <2>2 DEF SankeyRun
  <2>5. QED
    BY <2>1, <2>3, <2>4
<1> HIDE DEF r
<1>7. QED
  BY <1>4, <1>5, <1>6

\* Comments go, everything else stays, in its order.
LEMMA KeptIs ==
    ASSUME NEW L, NEW rows \in Seq(L)
    PROVE  /\ Kept(rows) \in Seq(Uncommented(L))
           /\ Len(Kept(rows)) <= Len(rows)
           /\ Len(Kept(rows)) = Len(rows) => Kept(rows) = rows
           /\ rows \in Seq(Uncommented(L)) => Kept(rows) = rows
<1> DEFINE n == Len(rows)
<1>0. n \in Nat /\ rows \in [1 .. n -> L]
  OBVIOUS
<1>1. PICK r : /\ r[0] = <<>> /\ Kept(rows) = r[n]
               /\ \A i \in 1 .. n : r[i] = Sankey!ReadLine(r[i - 1], rows[i])
  BY SankeyReads
<1> DEFINE Good(i) == /\ r[i] \in Seq(Uncommented(L))
                      /\ Len(r[i]) <= i
                      /\ Len(r[i]) = i => \A j \in 1 .. i : r[i][j] = rows[j]
                      /\ (\A j \in 1 .. i : rows[j] \in Uncommented(L)) => Len(r[i]) = i
           Bad == {i \in 0 .. n : ~Good(i)}
<1>2. Bad = {}
  <2>0. SUFFICES ASSUME Bad # {} PROVE FALSE
    OBVIOUS
  <2>1. PICK m \in Bad : \A k \in Bad : m <= k
    <3>1. Bad \subseteq 0 .. n
      OBVIOUS
    <3> HIDE DEF Bad
    <3>2. QED
      BY <1>0, <2>0, <3>1, SmallestNumber
  <2>2. m \in 0 .. n /\ ~Good(m)
    OBVIOUS
  <2>3. m # 0
    <3>1. r[0] \in Seq(Uncommented(L)) /\ Len(r[0]) = 0
      BY <1>1
    <3>2. Good(0)
      BY <3>1
    <3>3. QED
      BY <2>2, <3>2
  <2>4. m \in 1 .. n /\ m - 1 \in 0 .. n /\ ~(m <= m - 1) /\ rows[m] \in L
    BY <1>0, <2>2, <2>3
  <2>5. Good(m - 1)
    BY <2>1, <2>4
  <2>6. r[m] = Sankey!ReadLine(r[m - 1], rows[m])
    BY <1>1, <2>4
  <2> DEFINE q == r[m - 1]
  <2>7. CASE rows[m].source \in sankey.comments
    <3>1. r[m] = q /\ rows[m] \notin Uncommented(L)
      BY <2>6, <2>7 DEF Sankey!ReadLine, Uncommented
    <3>2. Good(m)
      BY <2>4, <2>5, <3>1
    <3>3. QED
      BY <2>2, <3>2
  <2>8. CASE rows[m].source \notin sankey.comments
    <3>1. r[m] = Append(q, rows[m]) /\ rows[m] \in Uncommented(L)
      BY <2>4, <2>6, <2>8 DEF Sankey!ReadLine, Uncommented
    <3>2. q \in Seq(Uncommented(L)) /\ Len(r[m]) = Len(q) + 1 /\ r[m] \in Seq(Uncommented(L))
      BY <2>5, <3>1
    <3>3. Len(r[m]) = m => \A j \in 1 .. m : r[m][j] = rows[j]
      BY <2>4, <2>5, <3>1, <3>2
    <3>4. (\A j \in 1 .. m : rows[j] \in Uncommented(L)) => Len(r[m]) = m
      BY <2>4, <2>5, <3>2
    <3>5. Good(m)
      BY <2>4, <2>5, <3>2, <3>3, <3>4
    <3>6. QED
      BY <2>2, <3>5
  <2>9. QED
    BY <2>7, <2>8
<1>3. Good(n)
  BY <1>0, <1>2
<1>4. Kept(rows) \in Seq(Uncommented(L)) /\ Len(Kept(rows)) <= n
  BY <1>1, <1>3
<1>5. Len(Kept(rows)) = n => Kept(rows) = rows
  BY <1>0, <1>1, <1>3
<1>6. rows \in Seq(Uncommented(L)) => Len(Kept(rows)) = n
  BY <1>1, <1>3
<1>7. QED
  BY <1>4, <1>5, <1>6

(***************************************************************************)
(* Sankey diagrams: an acyclic flow has a layout.                          *)
(***************************************************************************)
Flows(N, V) == [source : N, target : N, value : V]

\* The nodes of G have places, every one after those its links come from.
Placed(b, G) ==
    \E layer \in [G -> 1 .. Cardinality(G)] :
        \A k \in DOMAIN b :
            b[k].target \in G
            => b[k].source \in G /\ layer[b[k].source] < layer[b[k].target]

\* A node all of whose links come from placed nodes goes behind them.
LEMMA PlaceNext ==
    ASSUME NEW b, NEW G, IsFiniteSet(G), NEW n, n \notin G, Placed(b, G),
           \A k \in DOMAIN b : b[k].target = n => b[k].source \in G
    PROVE  Placed(b, G \union {n})
<1> DEFINE c == Cardinality(G)
<1>1. c \in Nat /\ Cardinality(G \union {n}) = c + 1
  BY FS_CardinalityType, FS_AddElement
<1> HIDE DEF c
<1>2. PICK layer \in [G -> 1 .. c] :
         \A k \in DOMAIN b :
            b[k].target \in G
            => b[k].source \in G /\ layer[b[k].source] < layer[b[k].target]
  BY DEF Placed, c
<1> DEFINE placing == [x \in G \union {n} |-> IF x = n THEN c + 1 ELSE layer[x]]
<1>3. placing \in [G \union {n} -> 1 .. (c + 1)]
  <2>1. ASSUME NEW x \in G PROVE layer[x] \in 1 .. (c + 1)
    <3>1. layer[x] \in 1 .. c
      BY <1>2
    <3>2. QED
      BY <1>1, <3>1
  <2>2. QED
    BY <1>1, <2>1
<1>4. ASSUME NEW k \in DOMAIN b, b[k].target \in G \union {n}
      PROVE  /\ b[k].source \in G \union {n}
             /\ placing[b[k].source] < placing[b[k].target]
  <2>1. CASE b[k].target = n
    <3>1. b[k].source \in G /\ placing[b[k].target] = c + 1
      BY <2>1
    <3>2. placing[b[k].source] = layer[b[k].source] /\ layer[b[k].source] \in 1 .. c
      BY <1>2, <3>1
    <3>3. QED
      BY <1>1, <3>1, <3>2
  <2>2. CASE b[k].target # n
    <3>1. b[k].target \in G /\ b[k].source \in G /\ layer[b[k].source] < layer[b[k].target]
      BY <1>2, <1>4, <2>2
    <3>2. QED
      BY <3>1
  <2>3. QED
    BY <2>1, <2>2
<1> HIDE DEF placing
<1>5. QED
  BY <1>1, <1>3, <1>4 DEF Placed

\* What cannot be placed contains a cycle.
LEMMA Layering ==
    ASSUME NEW b, NEW N, IsFiniteSet(N), ~Sankey!Cyclic(b),
           \A k \in DOMAIN b : b[k].source \in N /\ b[k].target \in N
    PROVE  Placed(b, N)
<1> DEFINE F == {R \in SUBSET N : Placed(b, N \ R)}
<1>1. F \subseteq SUBSET N /\ F # {}
  <2>1. Placed(b, {})
    <3> DEFINE none == [x \in {} |-> 1]
    <3>1. none \in [{} -> 1 .. Cardinality({})]
      OBVIOUS
    <3>2. QED
      BY <3>1 DEF Placed
  <2>2. N \in F
    <3>1. N \ N = {}
      OBVIOUS
    <3>2. QED
      BY <2>1, <3>1
  <2>3. QED
    BY <2>2
<1>2. PICK R \in F : \A S \in F : S \subseteq R => S = R
  <2> HIDE DEF F
  <2>1. QED
    BY <1>1, SmallestSubset
<1> DEFINE G == N \ R
<1>3. R \in SUBSET N /\ Placed(b, G) /\ IsFiniteSet(G)
  BY <1>2, FS_Difference
<1>4. ASSUME NEW n \in R PROVE \E k \in DOMAIN b : b[k].target = n /\ b[k].source \in R
  <2> SUFFICES ASSUME \A k \in DOMAIN b : b[k].target = n => b[k].source \notin R
               PROVE  FALSE
    OBVIOUS
  <2>1. \A k \in DOMAIN b : b[k].target = n => b[k].source \in G
    OBVIOUS
  <2>2. Placed(b, G \union {n})
    <3>1. n \notin G
      OBVIOUS
    <3> HIDE DEF G
    <3>2. QED
      BY <1>3, <2>1, <3>1, PlaceNext
  <2>3. G \union {n} = N \ (R \ {n}) /\ R \ {n} \in SUBSET N
    BY <1>3
  <2>4. R \ {n} \in F
    BY <2>2, <2>3
  <2>5. R \ {n} = R
    BY <1>2, <2>4
  <2>6. QED
    BY <2>5
<1>5. R = {}
  <2> SUFFICES ASSUME NEW n \in R PROVE FALSE
    OBVIOUS
  <2> DEFINE cycle == {k \in DOMAIN b : b[k].source \in R /\ b[k].target \in R}
  <2>1. cycle \in (SUBSET DOMAIN b) \ {{}}
    <3>1. PICK k \in DOMAIN b : b[k].target = n /\ b[k].source \in R
      BY <1>4
    <3>2. k \in cycle
      BY <3>1
    <3> HIDE DEF cycle
    <3>3. cycle \subseteq DOMAIN b
      BY DEF cycle
    <3>4. QED
      BY <3>2, <3>3
  <2>2. ASSUME NEW k \in cycle PROVE \E m \in cycle : b[m].target = b[k].source
    <3>1. b[k].source \in R
      OBVIOUS
    <3>2. PICK m \in DOMAIN b : b[m].target = b[k].source /\ b[m].source \in R
      BY <1>4, <3>1
    <3>3. m \in cycle
      BY <3>1, <3>2
    <3> HIDE DEF cycle
    <3>4. QED
      BY <3>2, <3>3
  <2> HIDE DEF cycle
  <2>3. QED
    BY <2>1, <2>2 DEF Sankey!Cyclic
<1>6. QED
  BY <1>3, <1>5

(***************************************************************************)
(* Sankey diagrams: what the operations do to the links.                   *)
(***************************************************************************)
\* What authored sources and arguments can name and weigh.
Authored == UNION {ToSet(rows) : rows \in sankey.sources}
FlowNodes == sankey.labels \union UNION {{link.source, link.target} : link \in Authored}
FlowValues == sankey.values \union {link.value : link \in Authored}
FlowLinks == Flows(FlowNodes, FlowValues)
AcyclicFlows == {b \in Seq(FlowLinks) : ~Sankey!Cyclic(b)}

\* Two ends are one node in c exactly when they are one node in b.
SameNodes(b, c) ==
    Len(c) = Len(b)
    => \A k, m \in DOMAIN b :
         /\ (c[k].source = c[m].source) = (b[k].source = b[m].source)
         /\ (c[k].source = c[m].target) = (b[k].source = b[m].target)
         /\ (c[k].target = c[m].target) = (b[k].target = b[m].target)

Edits(b) == {c \in AcyclicFlows : SameNodes(b, c)}

LEMMA LabelsAre ==
    ASSUME NEW b \in Seq(FlowLinks)
    PROVE  /\ Sankey!LabelsOf(b) \subseteq FlowNodes
           /\ IsFiniteSet(Sankey!LabelsOf(b))
           /\ \A k \in DOMAIN b : /\ b[k].source \in Sankey!LabelsOf(b)
                                  /\ b[k].target \in Sankey!LabelsOf(b)
<1> DEFINE n == Len(b)
           sources == {b[k].source : k \in 1 .. n}
           targets == {b[k].target : k \in 1 .. n}
<1>1. n \in Nat /\ DOMAIN b = 1 .. n /\ \A k \in 1 .. n : b[k] \in FlowLinks
  OBVIOUS
<1>2. Sankey!LabelsOf(b) = sources \union targets
  BY <1>1 DEF Sankey!LabelsOf, Sankey!ToSet
<1>3. IsFiniteSet(sources) /\ IsFiniteSet(targets)
  <2>1. IsFiniteSet(1 .. n)
    BY <1>1, FS_Interval
  <2>2. ASSUME NEW f, f = [k \in 1 .. n |-> f[k]] PROVE IsFiniteSet({f[k] : k \in 1 .. n})
    <3> DEFINE T == {f[k] : k \in 1 .. n}
    <3>1. f \in Surjection(1 .. n, T)
      BY <2>2 DEF Surjection
    <3> HIDE DEF T, n
    <3>2. IsFiniteSet(T)
      BY <2>1, <3>1, FS_Surjection
    <3>3. QED
      BY <3>2 DEF T
  <2> DEFINE source == [k \in 1 .. n |-> b[k].source]
             target == [k \in 1 .. n |-> b[k].target]
  <2>3. sources = {source[k] : k \in 1 .. n} /\ targets = {target[k] : k \in 1 .. n}
    OBVIOUS
  <2>4. /\ source = [k \in 1 .. n |-> source[k]]
        /\ target = [k \in 1 .. n |-> target[k]]
    OBVIOUS
  <2> HIDE DEF source, target
  <2>5. QED
    BY <2>2, <2>3, <2>4
<1>4. sources \subseteq FlowNodes /\ targets \subseteq FlowNodes
  BY <1>1 DEF FlowLinks, Flows
<1>5. IsFiniteSet(sources \union targets)
  BY <1>3, FS_Union
<1>6. QED
  BY <1>1, <1>2, <1>4, <1>5

LEMMA AddLinkEdits ==
    ASSUME NEW b \in Seq(FlowLinks), NEW at \in 1 .. Len(b) + 1, NEW link \in FlowLinks
    PROVE  Sankey!AddLink(b, at, link) \subseteq Edits(b)
<1> DEFINE c == Sankey!InsertAt(b, at, link)
<1>1. c = InsertAt(b, at, link)
  BY DEF InsertAt, Sankey!InsertAt
<1>2. c \in Seq(FlowLinks) /\ Len(c) = Len(b) + 1
  BY <1>1, InsertAtIs, InsertedIs
<1>3. Len(b) \in Nat
  OBVIOUS
<1> HIDE DEF c
<1>4. SameNodes(b, c)
  BY <1>2, <1>3 DEF SameNodes
<1>5. QED
  BY <1>2, <1>4 DEF Edits, AcyclicFlows, Sankey!AddLink, Sankey!Checked, c

LEMMA RemoveLinkEdits ==
    ASSUME NEW b \in Seq(FlowLinks), NEW source, NEW target, NEW occurrence
    PROVE  Sankey!RemoveLink(b, source, target, occurrence) \subseteq Edits(b)
<1> SUFFICES ASSUME NEW k \in DOMAIN b
             PROVE  Sankey!Checked(Sankey!RemoveAt(b, k)) \subseteq Edits(b)
  BY DEF Sankey!RemoveLink, Sankey!FindLink, Sankey!Between
<1> DEFINE c == Sankey!RemoveAt(b, k)
<1>1. c = RemoveAt(b, k)
  BY DEF RemoveAt, Sankey!RemoveAt
<1>2. c \in Seq(FlowLinks) /\ Len(c) = Len(b) - 1
  BY <1>1, RemoveAtIs, RemovedIs
<1>3. Len(b) \in Nat
  OBVIOUS
<1> HIDE DEF c
<1>4. SameNodes(b, c)
  BY <1>2, <1>3 DEF SameNodes
<1>5. QED
  BY <1>2, <1>4 DEF Edits, AcyclicFlows, Sankey!Checked, c

LEMMA SetLinkValueEdits ==
    ASSUME NEW b \in Seq(FlowLinks), NEW source, NEW target, NEW occurrence,
           NEW value \in FlowValues
    PROVE  Sankey!SetLinkValue(b, source, target, occurrence, value) \subseteq Edits(b)
<1> SUFFICES ASSUME NEW k \in DOMAIN b
             PROVE  Sankey!Checked([b EXCEPT ![k].value = value]) \subseteq Edits(b)
  BY DEF Sankey!SetLinkValue, Sankey!FindLink, Sankey!Between
<1> DEFINE c == [b EXCEPT ![k].value = value]
<1>1. \A l \in FlowLinks : [l EXCEPT !.value = value] \in FlowLinks
  BY DEF FlowLinks, Flows
<1>0. b[k] \in FlowLinks
  OBVIOUS
<1>2. c \in Seq(FlowLinks) /\ DOMAIN c = DOMAIN b
  BY <1>0, <1>1
<1>3. \A m \in DOMAIN b : c[m].source = b[m].source /\ c[m].target = b[m].target
  BY <1>0 DEF FlowLinks, Flows
<1> HIDE DEF c
<1>4. SameNodes(b, c)
  BY <1>3 DEF SameNodes
<1>5. QED
  BY <1>2, <1>4 DEF Edits, AcyclicFlows, Sankey!Checked, c

LEMMA RenameNodeEdits ==
    ASSUME NEW b \in Seq(FlowLinks), NEW from, NEW to \in FlowNodes
    PROVE  Sankey!RenameNode(b, from, to) \subseteq Edits(b)
<1> DEFINE name(label) == IF label = from THEN to ELSE label
           c == [k \in DOMAIN b |-> [b[k] EXCEPT !.source = name(@), !.target = name(@)]]
<1> SUFFICES ASSUME to \notin Sankey!LabelsOf(b) \ {from}
             PROVE  Sankey!Checked(c) \subseteq Edits(b)
  BY DEF Sankey!RenameNode
<1>1. \A k \in DOMAIN b : b[k] \in FlowLinks
  OBVIOUS
<1>2. \A k \in DOMAIN b : c[k] \in FlowLinks
  BY <1>1 DEF FlowLinks, Flows
<1>3. c \in Seq(FlowLinks)
  <2>1. Len(b) \in Nat /\ DOMAIN b = 1 .. Len(b) /\ DOMAIN c = DOMAIN b
    OBVIOUS
  <2> HIDE DEF c
  <2>2. c = [k \in 1 .. Len(b) |-> c[k]] /\ \A k \in 1 .. Len(b) : c[k] \in FlowLinks
    BY <1>2, <2>1 DEF c
  <2>3. QED
    BY <2>1, <2>2
<1>4. \A k \in DOMAIN b : c[k].source = name(b[k].source) /\ c[k].target = name(b[k].target)
  BY <1>1 DEF FlowLinks, Flows
<1>5. \A x, y \in Sankey!LabelsOf(b) : (name(x) = name(y)) = (x = y)
  OBVIOUS
<1> HIDE DEF c, name
<1>6. SameNodes(b, c)
  BY <1>4, <1>5, LabelsAre DEF SameNodes
<1>7. QED
  BY <1>3, <1>6 DEF Edits, AcyclicFlows, Sankey!Checked, c

(***************************************************************************)
(* Sankey diagrams: the loop keeps every flow it accepts acyclic and names *)
(* nothing but what was authored or given; the text an agent holds has no  *)
(* link that reading it would lose.                                        *)
(***************************************************************************)
SankeyInv ==
    /\ body \in AcyclicFlows
    /\ published \in AcyclicFlows
    /\ published \in Seq(Uncommented(FlowLinks))

\* A text is read as the links that are left of it, or not at all.
LEMMA ParseIs ==
    ASSUME NEW rows
    PROVE  /\ Sankey!Parse(rows) \subseteq {Kept(rows)}
           /\ Sankey!Parse(rows) # {} => Kept(rows) # <<>> /\ ~Sankey!Cyclic(Kept(rows))
           /\ Kept(rows) # <<>> /\ ~Sankey!Cyclic(Kept(rows)) => Sankey!Parse(rows) = {Kept(rows)}
BY DEF Sankey!Parse, Kept

LEMMA BlankIsAcyclic == <<>> \in AcyclicFlows /\ <<>> \in Seq(Uncommented(FlowLinks))
<1>1. ~Sankey!Cyclic(<<>>)
  BY DEF Sankey!Cyclic
<1>2. QED
  BY <1>1 DEF AcyclicFlows

LEMMA ReadFlows ==
    ASSUME NEW rows \in Seq(FlowLinks), NEW b \in Sankey!Parse(rows)
    PROVE  b = Kept(rows) /\ b # <<>> /\ b \in AcyclicFlows /\ b \in Seq(Uncommented(FlowLinks))
<1>1. b = Kept(rows) /\ b # <<>> /\ ~Sankey!Cyclic(b)
  BY ParseIs
<1>2. b \in Seq(Uncommented(FlowLinks))
  BY <1>1, KeptIs
<1>3. Uncommented(FlowLinks) \subseteq FlowLinks
  BY DEF Uncommented
<1>4. b \in Seq(FlowLinks)
  BY <1>2, <1>3
<1>5. QED
  BY <1>1, <1>2, <1>4 DEF AcyclicFlows

LEMMA AuthoredFlows ==
    ASSUME NEW rows \in sankey.sources
    PROVE  rows \in Seq(FlowLinks)
<1>1. rows \in Seq(ToSet(rows))
  BY SankeySources
<1>2. ASSUME NEW link \in ToSet(rows) PROVE link \in FlowLinks
  <2>1. link = [source |-> link.source, target |-> link.target, value |-> link.value]
    BY SankeySources
  <2>2. link \in Authored
    BY DEF Authored
  <2>3. link.source \in FlowNodes /\ link.target \in FlowNodes /\ link.value \in FlowValues
    BY <2>2 DEF FlowNodes, FlowValues
  <2>4. QED
    BY <2>1, <2>3 DEF FlowLinks, Flows
<1>3. ToSet(rows) \subseteq FlowLinks
  BY <1>2
<1>4. QED
  BY <1>1, <1>3

\* An accepted operation edits the working copy and nothing else.
LEMMA CommitEdits ==
    ASSUME NEW results, results \subseteq Edits(body), Sankey!Core!Commit(results)
    PROVE  body' \in Edits(body) /\ UNCHANGED published
BY DEF Sankey!Core!Commit

SankeyOperation ==
    \/ Sankey!add_link \/ Sankey!remove_link \/ Sankey!set_link_value \/ Sankey!rename_node

LEMMA OperationsEdit ==
    ASSUME SankeyInv, SankeyOperation
    PROVE  body' \in Edits(body) /\ UNCHANGED published
<1>0. body \in Seq(FlowLinks)
  BY DEF SankeyInv, AcyclicFlows
<1>1. CASE Sankey!add_link
  <2>1. PICK source, target \in sankey.labels \union Sankey!LabelsOf(body),
             value \in sankey.values, at \in 1 .. Len(body) + 1 :
          Sankey!Core!Commit(Sankey!AddLink(body, at, Sankey!Link(source, target, value)))
    BY <1>1 DEF Sankey!add_link
  <2>2. source \in FlowNodes /\ target \in FlowNodes /\ value \in FlowValues
    BY <1>0, LabelsAre DEF FlowNodes, FlowValues
  <2>3. Sankey!Link(source, target, value) \in FlowLinks
    BY <2>2 DEF Sankey!Link, FlowLinks, Flows
  <2>4. Sankey!AddLink(body, at, Sankey!Link(source, target, value)) \subseteq Edits(body)
    BY <1>0, <2>3, AddLinkEdits
  <2>5. QED
    BY <2>1, <2>4, CommitEdits
<1>2. CASE Sankey!remove_link
  BY <1>0, <1>2, RemoveLinkEdits, CommitEdits DEF Sankey!remove_link
<1>3. CASE Sankey!set_link_value
  <2>1. PICK source, target \in Sankey!LabelsOf(body), occurrence \in Sankey!Occurrences,
             value \in sankey.values :
          Sankey!Core!Commit(Sankey!SetLinkValue(body, source, target, occurrence, value))
    BY <1>3 DEF Sankey!set_link_value
  <2>2. value \in FlowValues
    BY DEF FlowValues
  <2>3. QED
    BY <1>0, <2>1, <2>2, SetLinkValueEdits, CommitEdits
<1>4. CASE Sankey!rename_node
  <2>1. PICK from \in Sankey!LabelsOf(body), to \in sankey.labels :
          Sankey!Core!Commit(Sankey!RenameNode(body, from, to))
    BY <1>4 DEF Sankey!rename_node
  <2>2. to \in FlowNodes
    BY DEF FlowNodes
  <2>3. QED
    BY <1>0, <2>1, <2>2, RenameNodeEdits, CommitEdits
<1>5. QED
  BY <1>1, <1>2, <1>3, <1>4 DEF SankeyOperation

\* What a batch hands out has been read from the working copy.
LEMMA PublishReads ==
    ASSUME SankeyInv, Sankey!Core!Publish, published' # published
    PROVE  published' \in Sankey!Parse(body) /\ body' = published'
BY DEF Sankey!Core!Publish, Sankey!Reparse, Sankey!Render

LEMMA SankeyInit ==
    ASSUME Sankey!Init
    PROVE  SankeyInv
<1>1. /\ published \in {<<>>} \union UNION {Sankey!Parse(rows) : rows \in sankey.sources}
      /\ body = published
  BY DEF Sankey!Init, Sankey!Core!Begin, Sankey!Blank
<1>2. CASE published = <<>>
  BY <1>1, <1>2, BlankIsAcyclic DEF SankeyInv
<1>3. CASE published # <<>>
  <2>1. PICK rows \in sankey.sources : published \in Sankey!Parse(rows)
    BY <1>1, <1>3
  <2>2. QED
    BY <1>1, <2>1, AuthoredFlows, ReadFlows DEF SankeyInv
<1>4. QED
  BY <1>2, <1>3

LEMMA SankeyStep ==
    ASSUME SankeyInv, Sankey!Next \/ UNCHANGED <<published, body>>
    PROVE  SankeyInv'
<1>1. CASE UNCHANGED <<published, body>>
  BY <1>1 DEF SankeyInv
<1>2. CASE Sankey!Next
  <2>1. CASE SankeyOperation
    BY <2>1, OperationsEdit DEF SankeyInv, Edits
  <2>2. CASE Sankey!Core!Refuse
    BY <2>2 DEF SankeyInv, Sankey!Core!Refuse
  <2>3. CASE Sankey!Core!Publish
    <3>1. CASE published' = published
      <4>1. body' = published \/ body' \in Sankey!Parse(body)
        BY <2>3 DEF Sankey!Core!Publish, Sankey!Reparse, Sankey!Render
      <4>2. body' \in AcyclicFlows
        BY <4>1, ReadFlows DEF SankeyInv, AcyclicFlows
      <4>3. QED
        BY <3>1, <4>2 DEF SankeyInv
    <3>2. CASE published' # published
      <4>1. published' \in Sankey!Parse(body) /\ body' = published'
        BY <2>3, <3>2, PublishReads
      <4>2. body \in Seq(FlowLinks)
        BY DEF SankeyInv, AcyclicFlows
      <4>3. QED
        BY <4>1, <4>2, ReadFlows DEF SankeyInv
    <3>3. QED
      BY <3>1, <3>2
  <2>4. QED
    BY <1>2, <2>1, <2>2, <2>3 DEF Sankey!Next, SankeyOperation
<1>3. QED
  BY <1>1, <1>2

\* Whatever links are added, removed, weighed and renamed, the layout has a
\* place for every node of a flow (sankey-body.ts checks each body with
\* findSankeyCycle, which finds cycles; that a flow without one can be laid
\* out is shown here).
LEMMA FlowsAreLaidOut ==
    ASSUME SankeyInv
    PROVE  Sankey!ReferencesResolve
<1> DEFINE N == Sankey!LabelsOf(body)
<1>1. body \in Seq(FlowLinks) /\ ~Sankey!Cyclic(body)
  BY DEF SankeyInv, AcyclicFlows
<1>2. /\ IsFiniteSet(N)
      /\ \A k \in DOMAIN body : body[k].source \in N /\ body[k].target \in N
  BY <1>1, LabelsAre
<1>3. Placed(body, N)
  <2> HIDE DEF N
  <2>1. QED
    BY <1>1, <1>2, Layering
<1>4. \A link \in Sankey!ToSet(body) : \E k \in DOMAIN body : link = body[k]
  BY DEF Sankey!ToSet
<1>5. PICK layer \in [N -> 1 .. Cardinality(N)] :
         \A k \in DOMAIN body : layer[body[k].source] < layer[body[k].target]
  BY <1>2, <1>3 DEF Placed
<1>6. \A link \in Sankey!ToSet(body) : layer[link.source] < layer[link.target]
  BY <1>4, <1>5
<1>7. Cardinality(N) = Sankey!Cardinality(N)
  BY DEF Cardinality, Sankey!Cardinality
<1>8. QED
  BY <1>5, <1>6, <1>7 DEF Sankey!ReferencesResolve

\* The links a flow would lose with its text are always announced: the body
\* verify counts against has more links than what is read back.
LEMMA FlowLoss ==
    ASSUME SankeyInv
    PROVE  Sankey!LossIsAnnounced
<1> SUFFICES ASSUME NEW r \in Sankey!Reparse(body), r # body
             PROVE  Sankey!Core!LossReported(body)
  BY DEF Sankey!LossIsAnnounced
<1>1. body \in Seq(FlowLinks) /\ r = Kept(body)
  BY ParseIs DEF SankeyInv, AcyclicFlows, Sankey!Reparse, Sankey!Render
<1>2. Len(r) # Len(body)
  BY <1>1, KeptIs
<1>3. Sankey!Tally(r) # Sankey!Tally(body)
  BY <1>2 DEF Sankey!Tally
<1>4. QED
  BY <1>3 DEF Sankey!Core!LossReported

\* The text of a flow is a fixed point: written again it is read as the same
\* links (serialize after parse, for the text every batch hands out).
LEMMA FlowText ==
    ASSUME SankeyInv, Sankey!Next, published' # published
    PROVE  Sankey!Reparse(published') = {published'}
<1>1. ~SankeyOperation /\ ~Sankey!Core!Refuse
  BY OperationsEdit DEF Sankey!Core!Refuse
<1>2. Sankey!Core!Publish
  BY <1>1 DEF Sankey!Next, SankeyOperation
<1>3. published' \in Sankey!Parse(body) /\ body \in Seq(FlowLinks)
  BY <1>2, PublishReads DEF SankeyInv, AcyclicFlows
<1>4. /\ published' # <<>> /\ ~Sankey!Cyclic(published')
      /\ published' \in Seq(FlowLinks) /\ published' \in Seq(Uncommented(FlowLinks))
  BY <1>3, ReadFlows DEF AcyclicFlows
<1>5. Kept(published') = published'
  BY <1>4, KeptIs
<1>6. QED
  BY <1>4, <1>5, ParseIs DEF Sankey!Reparse, Sankey!Render

\* No operation on a flow merges two nodes or splits one, whatever label a
\* node is renamed to (rename_node refuses a label another node has).
LEMMA FlowNodesStay ==
    ASSUME SankeyInv, Sankey!Next
    PROVE  Sankey!KeepsNodes
<1> SUFFICES ASSUME ops' # ops, Len(body') = Len(body)
             PROVE  SameNodes(body, body')
  BY DEF Sankey!KeepsNodes, SameNodes
<1>1. ~Sankey!Core!Publish /\ ~Sankey!Core!Refuse
  BY DEF Sankey!Core!Publish, Sankey!Core!Refuse
<1>2. SankeyOperation
  BY <1>1 DEF Sankey!Next, SankeyOperation
<1>3. QED
  BY <1>2, OperationsEdit DEF Edits

(***************************************************************************)
(* Radar charts: what authored lines and arguments can say.                *)
(***************************************************************************)
RadarLines == UNION {ToSet(source) : source \in radar.sources}
LinesOfKind(k) == {line \in RadarLines : line.kind = k}
RadarItems == {line.curve : line \in LinesOfKind("curve")}
              \union UNION {ToSet(line.axes) : line \in LinesOfKind("axis")}
RadarNames == radar.ids \union radar.labels
              \union {item.id : item \in RadarItems} \union {item.label : item \in RadarItems}
RadarTitles == radar.titles \union {None} \union {line.title : line \in LinesOfKind("title")}
               \union {radar.cutOf[title] : title \in DOMAIN radar.cutOf}
RadarConfigs == radar.configs \union {line.config : line \in LinesOfKind("option")}
RadarLooks == {None} \union {config["look"] : config \in {c \in RadarConfigs : "look" \in DOMAIN c}}
RadarEntries == UNION {ToSet(line.curve.keyed) : line \in LinesOfKind("curve")}
Maxima == {{}} \union {{n} : n \in Nat}

AxisItems == [id : RadarNames, label : RadarNames]
CurveItems == [id : RadarNames, label : RadarNames, values : Seq(Nat)]
WrittenCurves == [id : RadarNames, label : RadarNames, values : Seq(Nat), keyed : Seq(RadarEntries)]
Charts(C) == [title : RadarTitles, axes : Seq(AxisItems), curves : Seq(C),
              min : Nat, max : Maxima, look : RadarLooks]

IsConfig(config) ==
    /\ DOMAIN config \subseteq {"min", "max", "look"}
    /\ "min" \in DOMAIN config => config["min"] \in Nat
    /\ "max" \in DOMAIN config => config["max"] \in Maxima
    /\ "look" \in DOMAIN config => config["look"] \in RadarLooks

IsLine(line) ==
    /\ line.kind \in {"axis", "curve", "title", "option"}
    /\ line.kind = "axis" => line.axes \in Seq(AxisItems)
    /\ line.kind = "curve" => line.curve \in WrittenCurves
    /\ line.kind = "title" => line.title \in RadarTitles
    /\ line.kind = "option" => IsConfig(line.config)

LEMMA EntriesAreNumbers == \A entry \in RadarEntries : entry[2] \in Nat
BY RadarSources DEF RadarEntries, LinesOfKind, RadarLines

LEMMA ConfigsAre == \A config \in RadarConfigs : IsConfig(config)
<1> SUFFICES ASSUME NEW config \in RadarConfigs PROVE IsConfig(config)
  OBVIOUS
<1>1. /\ DOMAIN config \subseteq {"min", "max", "look"}
      /\ "min" \in DOMAIN config => config["min"] \in Nat
      /\ "max" \in DOMAIN config =>
           config["max"] \subseteq Nat /\ \A m, n \in config["max"] : m = n
  BY RadarSources DEF RadarConfigs, LinesOfKind, RadarLines
<1>2. "look" \in DOMAIN config => config["look"] \in RadarLooks
  BY DEF RadarLooks
<1>3. ASSUME NEW S \in SUBSET Nat, \A m, n \in S : m = n PROVE S \in Maxima
  <2>1. CASE S = {}
    BY <2>1 DEF Maxima
  <2>2. CASE S # {}
    <3>1. PICK m \in S : TRUE
      BY <2>2
    <3>2. S = {m}
      BY <1>3, <3>1
    <3>3. QED
      BY <3>2 DEF Maxima
  <2>3. QED
    BY <2>1, <2>2
<1>4. QED
  BY <1>1, <1>2, <1>3 DEF IsConfig

LEMMA AuthoredLines == \A line \in RadarLines : IsLine(line)
<1> SUFFICES ASSUME NEW line \in RadarLines PROVE IsLine(line)
  OBVIOUS
<1>1. line.kind \in {"axis", "curve", "title", "option"}
  BY RadarSources DEF RadarLines
<1>2. ASSUME line.kind = "axis" PROVE line.axes \in Seq(AxisItems)
  <2>1. /\ line.axes \in Seq(ToSet(line.axes))
        /\ \A axis \in ToSet(line.axes) : axis = [id |-> axis.id, label |-> axis.label]
    BY <1>2, RadarSources DEF RadarLines
  <2>2. \A axis \in ToSet(line.axes) : axis \in RadarItems
    BY <1>2 DEF RadarItems, LinesOfKind
  <2>3. \A axis \in ToSet(line.axes) : axis.id \in RadarNames /\ axis.label \in RadarNames
    BY <2>2 DEF RadarNames
  <2>4. ToSet(line.axes) \subseteq AxisItems
    BY <2>1, <2>3 DEF AxisItems
  <2>5. QED
    BY <2>1, <2>4
<1>3. ASSUME line.kind = "curve" PROVE line.curve \in WrittenCurves
  <2>1. /\ line.curve = [id |-> line.curve.id, label |-> line.curve.label,
                         values |-> line.curve.values, keyed |-> line.curve.keyed]
        /\ line.curve.values \in Seq(Nat)
        /\ line.curve.keyed \in Seq(ToSet(line.curve.keyed))
    BY <1>3, RadarSources DEF RadarLines
  <2>2. line.curve \in RadarItems
    BY <1>3 DEF RadarItems, LinesOfKind
  <2>3. line.curve.id \in RadarNames /\ line.curve.label \in RadarNames
    BY <2>2 DEF RadarNames
  <2>4. ToSet(line.curve.keyed) \subseteq RadarEntries
    BY <1>3 DEF RadarEntries, LinesOfKind
  <2>5. line.curve.keyed \in Seq(RadarEntries)
    BY <2>1, <2>4
  <2>6. QED
    BY <2>1, <2>3, <2>5 DEF WrittenCurves
<1>4. line.kind = "title" => line.title \in RadarTitles
  BY DEF RadarTitles, LinesOfKind
<1>5. line.kind = "option" => IsConfig(line.config)
  BY ConfigsAre DEF RadarConfigs, LinesOfKind
<1>6. QED
  BY <1>1, <1>2, <1>3, <1>4, <1>5 DEF IsLine

LEMMA BlankIs ==
    /\ Radar!Blank \in Charts(CurveItems) /\ Radar!Blank \in Charts(WrittenCurves)
    /\ Radar!Blank.axes = <<>> /\ Radar!Blank.curves = <<>>
BY DEF Radar!Blank, Charts, RadarTitles, Maxima, RadarLooks

LEMMA ConfiguredIs ==
    ASSUME NEW C, NEW b \in Charts(C), NEW config, IsConfig(config)
    PROVE  /\ Radar!Configured(b, config) \in Charts(C)
           /\ Radar!Configured(b, config).axes = b.axes
           /\ Radar!Configured(b, config).curves = b.curves
BY DEF Radar!Configured, Charts, IsConfig

LEMMA ReadLineIs ==
    ASSUME NEW b \in Charts(WrittenCurves), NEW line, IsLine(line)
    PROVE  Radar!ReadLine(b, line) \in Charts(WrittenCurves)
<1>1. CASE line.kind = "axis"
  <2>1. b.axes \o line.axes \in Seq(AxisItems)
    BY <1>1, ConcatIs DEF IsLine, Charts
  <2>2. QED
    BY <1>1, <2>1 DEF Radar!ReadLine, Charts
<1>2. CASE line.kind = "curve"
  <2>1. Append(b.curves, line.curve) \in Seq(WrittenCurves)
    BY <1>2 DEF IsLine, Charts
  <2>2. QED
    BY <1>2, <2>1 DEF Radar!ReadLine, Charts
<1>3. CASE line.kind = "title"
  <2> DEFINE title == IF line.title \in DOMAIN radar.cutOf THEN radar.cutOf[line.title] ELSE line.title
  <2>1. title \in RadarTitles
    BY <1>3 DEF IsLine, RadarTitles
  <2> HIDE DEF title
  <2>2. [b EXCEPT !.title = title] \in Charts(WrittenCurves)
    BY <2>1 DEF Charts
  <2>3. QED
    BY <1>3, <2>2 DEF Radar!ReadLine, title
<1>4. CASE line.kind = "option"
  BY <1>4, ConfiguredIs DEF Radar!ReadLine, IsLine
<1>5. QED
  BY <1>1, <1>2, <1>3, <1>4 DEF IsLine

(***************************************************************************)
(* Radar charts: what the parser reads, line after line.                   *)
(***************************************************************************)
ReadFrom(base, lines) == Radar!FoldLeft(Radar!ReadLine, base, lines)

RadarRun(g, base, lines) ==
    g = [s \in SUBSET DOMAIN lines |->
           IF s = {} THEN base
           ELSE Radar!ReadLine(g[s \ {Greatest(s)}], lines[Greatest(s)])]

LEMMA ReadFromIsRun ==
    ASSUME NEW base, NEW lines
    PROVE  ReadFrom(base, lines) = (CHOOSE g : RadarRun(g, base, lines))[DOMAIN lines]
BY DEF ReadFrom, RadarRun, Greatest, Radar!FoldLeft, Radar!MapThenFoldSet, Radar!Max

LEMMA RadarRunExists ==
    ASSUME NEW base \in Charts(WrittenCurves),
           NEW L, NEW lines \in Seq(L), \A line \in L : IsLine(line)
    PROVE  \E g : RadarRun(g, base, lines)
<1> DEFINE B == Charts(WrittenCurves)
           step == [p \in B \X L |-> Radar!ReadLine(p[1], p[2])]
           n == Len(lines)
<1>1. step \in [B \X L -> B]
  BY ReadLineIs
<1>2. n \in Nat /\ DOMAIN lines = 1 .. n /\ lines \in [1 .. n -> L]
  OBVIOUS
<1>3. PICK g \in [SUBSET (1 .. n) -> B] : IsRun(g, lines, n, step, base)
  <2> HIDE DEF B, step, n
  <2>1. base \in B
    BY DEF B
  <2>2. QED
    BY <1>1, <1>2, <2>1, RunExists
<1> HIDE DEF B
<1>4. ASSUME NEW s \in SUBSET (1 .. n), s # {}
      PROVE  g[s] = Radar!ReadLine(g[s \ {Greatest(s)}], lines[Greatest(s)])
  <2>1. Greatest(s) \in s
    BY <1>2, <1>4, GreatestIn
  <2>2. lines[Greatest(s)] \in L /\ g[s \ {Greatest(s)}] \in B
    BY <1>2, <1>3, <2>1
  <2>3. g[s] = step[<<g[s \ {Greatest(s)}], lines[Greatest(s)]>>]
    BY <1>3, <1>4 DEF IsRun
  <2>4. QED
    BY <2>2, <2>3
<1>5. g[{}] = base
  BY <1>3 DEF IsRun
<1>6. RadarRun(g, base, lines)
  BY <1>2, <1>3, <1>4, <1>5 DEF RadarRun
<1>7. QED
  BY <1>6

\* The parser's loop: r holds what the first lines say.
Reading(r, base, lines) ==
    /\ r[0] = base /\ ReadFrom(base, lines) = r[Len(lines)]
    /\ \A i \in 1 .. Len(lines) : r[i] = Radar!ReadLine(r[i - 1], lines[i])
    /\ \A i \in 0 .. Len(lines) : r[i] \in Charts(WrittenCurves)

LEMMA RadarReads ==
    ASSUME NEW base \in Charts(WrittenCurves),
           NEW L, NEW lines \in Seq(L), \A line \in L : IsLine(line)
    PROVE  \E r : Reading(r, base, lines)
<1> DEFINE n == Len(lines)
           g == CHOOSE g : RadarRun(g, base, lines)
           r == [i \in 0 .. n |-> g[1 .. i]]
<1>1. n \in Nat /\ DOMAIN lines = 1 .. n
  OBVIOUS
<1>2. RadarRun(g, base, lines)
  BY RadarRunExists
<1>3. ReadFrom(base, lines) = g[DOMAIN lines]
  BY ReadFromIsRun
<1> HIDE DEF g
<1>4. ReadFrom(base, lines) = r[n]
  BY <1>1, <1>3
<1>5. r[0] = base
  <2>1. 1 .. 0 = {} /\ {} \in SUBSET DOMAIN lines
    OBVIOUS
  <2>2. g[{}] = base
    BY <1>2, <2>1 DEF RadarRun
  <2>3. QED
    BY <1>1, <2>1, <2>2
<1>6. ASSUME NEW i \in 1 .. n PROVE r[i] = Radar!ReadLine(r[i - 1], lines[i])
  <2>1. 1 .. i \in SUBSET DOMAIN lines /\ 1 .. i # {} /\ i - 1 \in 0 .. n /\ i \in 0 .. n
    <3> HIDE DEF n, r
    <3>1. i - 1 \in 0 .. n /\ i \in 0 .. n /\ i \in 1 .. i
      BY <1>1
    <3>2. 1 .. i \subseteq 1 .. n
      BY <1>1
    <3>3. QED
      BY <1>1, <3>1, <3>2
  <2>2. Greatest(1 .. i) = i
    BY <1>1, GreatestIs
  <2>3. (1 .. i) \ {i} = 1 .. (i - 1)
    <3>1. i \in Nat /\ i # 0
      BY <1>1
    <3>2. QED
      BY <3>1
  <2>4. g[1 .. i] = Radar!ReadLine(g[(1 .. i) \ {i}], lines[i])
    BY <1>2, <2>1, <2>2 DEF RadarRun
  <2>5. QED
    BY <2>1, <2>3, <2>4
<1> HIDE DEF r
<1> DEFINE Bad == {i \in 0 .. n : r[i] \notin Charts(WrittenCurves)}
<1>7. Bad = {}
  <2>1. SUFFICES ASSUME Bad # {} PROVE FALSE
    OBVIOUS
  <2>2. PICK m \in Bad : \A k \in Bad : m <= k
    <3>1. Bad \subseteq 0 .. n
      OBVIOUS
    <3> HIDE DEF Bad
    <3>2. QED
      BY <1>1, <2>1, <3>1, SmallestNumber
  <2>3. m \in 0 .. n /\ r[m] \notin Charts(WrittenCurves)
    OBVIOUS
  <2>4. m # 0
    BY <1>5, <2>3
  <2>5. m \in 1 .. n /\ m - 1 \in 0 .. n /\ ~(m <= m - 1) /\ lines[m] \in L
    BY <1>1, <2>3, <2>4
  <2>6. r[m - 1] \in Charts(WrittenCurves)
    BY <2>2, <2>5
  <2>7. r[m] \in Charts(WrittenCurves)
    BY <1>6, <2>5, <2>6, ReadLineIs
  <2>8. QED
    BY <2>3, <2>7
<1>8. QED
  BY <1>4, <1>5, <1>6, <1>7 DEF Reading

LEMMA ReadFromIs ==
    ASSUME NEW base \in Charts(WrittenCurves),
           NEW L, NEW lines \in Seq(L), \A line \in L : IsLine(line)
    PROVE  ReadFrom(base, lines) \in Charts(WrittenCurves)
<1>1. PICK r : Reading(r, base, lines)
  BY RadarReads
<1>2. Len(lines) \in 0 .. Len(lines)
  OBVIOUS
<1>3. QED
  BY <1>1, <1>2 DEF Reading

\* The first position of an id, 0 if there is none.
LEMMA FirstIs ==
    ASSUME NEW n \in Nat, NEW I \in SUBSET (1 .. n)
    PROVE  LET first == IF I # {} THEN Radar!Min(I) ELSE 0
           IN  /\ I = {} => first = 0
               /\ I # {} => first \in I /\ \A k \in I : first <= k
<1>1. CASE I # {}
  <2>1. PICK m \in I : \A k \in I : m <= k
    <3>1. I \subseteq 0 .. n
      OBVIOUS
    <3>2. QED
      BY <1>1, <3>1, SmallestNumber
  <2>2. Radar!Min(I) \in I /\ \A k \in I : Radar!Min(I) <= k
    BY <2>1 DEF Radar!Min
  <2>3. QED
    BY <1>1, <2>2
<1>2. QED
  BY <1>1

LEMMA ResolvedIs ==
    ASSUME NEW curve \in WrittenCurves, NEW axes \in Seq(AxisItems),
           NEW c \in Radar!Resolved(curve, axes)
    PROVE  /\ c.id = curve.id /\ c.label = curve.label /\ c.values \in Seq(Nat)
           /\ curve.keyed = <<>> => c = curve
<1>1. CASE curve.keyed = <<>>
  BY <1>1 DEF Radar!Resolved, WrittenCurves
<1>2. CASE curve.keyed # <<>>
  <2> DEFINE keyed == curve.keyed
             Entries(id) == {i \in 1 .. Len(keyed) : keyed[i][1] = id}
             Entry(id) == IF Entries(id) # {} THEN Radar!Min(Entries(id)) ELSE 0
             vals == [k \in DOMAIN axes |-> keyed[Entry(axes[k].id)][2]]
  <2>1. /\ \A a \in Radar!ToSet(axes) : Entry(a.id) # 0
        /\ c = [curve EXCEPT !.values = vals]
    BY <1>2 DEF Radar!Resolved, Radar!SelectInSeq
  <2>2. keyed \in Seq(RadarEntries) /\ Len(keyed) \in Nat
    BY DEF WrittenCurves
  <2>3. ASSUME NEW k \in DOMAIN axes PROVE vals[k] \in Nat
    <3>1. axes[k] \in Radar!ToSet(axes)
      BY DEF Radar!ToSet
    <3>2. Entry(axes[k].id) # 0
      BY <2>1, <3>1
    <3>3. Entry(axes[k].id) \in 1 .. Len(keyed)
      <4> DEFINE I == Entries(axes[k].id)
      <4>1. I \in SUBSET (1 .. Len(keyed))
        OBVIOUS
      <4>2. I # {} /\ Entry(axes[k].id) = Radar!Min(I)
        BY <3>2
      <4> HIDE DEF I, Entry, Entries, keyed
      <4>3. Radar!Min(I) \in I
        BY <2>2, <4>1, <4>2, FirstIs
      <4>4. QED
        BY <4>1, <4>2, <4>3
    <3> HIDE DEF Entry, keyed
    <3>4. keyed[Entry(axes[k].id)] \in RadarEntries
      BY <2>2, <3>3
    <3>5. QED
      BY <3>4, EntriesAreNumbers
  <2>4. vals \in Seq(Nat)
    <3>1. Len(axes) \in Nat /\ DOMAIN axes = 1 .. Len(axes)
      OBVIOUS
    <3>2. vals = [k \in 1 .. Len(axes) |-> vals[k]]
      BY <3>1
    <3> HIDE DEF vals
    <3>3. QED
      BY <2>3, <3>1, <3>2, SequenceIs
  <2> HIDE DEF vals
  <2>5. QED
    BY <1>2, <2>1, <2>4 DEF WrittenCurves
<1>3. QED
  BY <1>1, <1>2

\* What a reading draws, once every curve has its values by position.
Chart(read) ==
    [read EXCEPT !.curves = [k \in DOMAIN read.curves |->
        LET curve == CHOOSE c \in Radar!Resolved(read.curves[k], read.axes) : TRUE
        IN  [id |-> curve.id, label |-> curve.label, values |-> curve.values]]]

\* The charts a body may be.
Drawable == {b \in Charts(CurveItems) : ~Radar!Problem(b)}

LEMMA ChartIs ==
    ASSUME NEW read \in Charts(WrittenCurves),
           \A k \in DOMAIN read.curves : Radar!Resolved(read.curves[k], read.axes) # {}
    PROVE  Chart(read) \in Charts(CurveItems)
<1> DEFINE curves == [k \in DOMAIN read.curves |->
               LET curve == CHOOSE c \in Radar!Resolved(read.curves[k], read.axes) : TRUE
               IN  [id |-> curve.id, label |-> curve.label, values |-> curve.values]]
           n == Len(read.curves)
<1>1. n \in Nat /\ DOMAIN read.curves = 1 .. n /\ \A k \in 1 .. n : read.curves[k] \in WrittenCurves
  BY DEF Charts
<1>2. ASSUME NEW k \in 1 .. n PROVE curves[k] \in CurveItems
  <2> DEFINE curve == CHOOSE c \in Radar!Resolved(read.curves[k], read.axes) : TRUE
  <2>1. curve \in Radar!Resolved(read.curves[k], read.axes)
    BY <1>1
  <2>2. curves[k] = [id |-> curve.id, label |-> curve.label, values |-> curve.values]
    BY <1>1
  <2> HIDE DEF curve, curves
  <2>3. read.axes \in Seq(AxisItems)
    BY DEF Charts
  <2>4. /\ curve.id = read.curves[k].id /\ curve.label = read.curves[k].label
        /\ curve.values \in Seq(Nat)
    BY <1>1, <2>1, <2>3, ResolvedIs
  <2>5. QED
    BY <1>1, <2>2, <2>4 DEF CurveItems, WrittenCurves
<1>3. curves = [k \in 1 .. n |-> curves[k]]
  BY <1>1
<1>4. Chart(read) = [read EXCEPT !.curves = curves]
  BY DEF Chart
<1> HIDE DEF curves
<1>5. curves \in Seq(CurveItems)
  BY <1>1, <1>2, <1>3, SequenceIs
<1>6. QED
  BY <1>4, <1>5 DEF Charts

LEMMA RadarParseIs ==
    ASSUME NEW L, NEW lines \in Seq(L), \A line \in L : IsLine(line),
           NEW chart \in Radar!Parse(lines)
    PROVE  /\ chart = Chart(ReadFrom(Radar!Blank, lines)) /\ chart \in Drawable
           /\ ~Radar!EmptyDiagram(chart)
<1> DEFINE read == ReadFrom(Radar!Blank, lines)
           resolved == [k \in DOMAIN read.curves |-> Radar!Resolved(read.curves[k], read.axes)]
<1>1. read \in Charts(WrittenCurves)
  BY BlankIs, ReadFromIs
<1>2. /\ chart = Chart(read) /\ {} \notin Radar!ToSet(resolved)
      /\ ~Radar!Problem(chart) /\ ~Radar!EmptyDiagram(chart)
  <2>1. DOMAIN read.curves = DOMAIN resolved /\
        \A k \in DOMAIN read.curves : resolved[k] = Radar!Resolved(read.curves[k], read.axes)
    OBVIOUS
  <2>2. QED
    BY DEF Radar!Parse, Chart, ReadFrom
<1>3. \A k \in DOMAIN read.curves : Radar!Resolved(read.curves[k], read.axes) # {}
  BY <1>2 DEF Radar!ToSet
<1> HIDE DEF read, resolved
<1>4. Chart(read) \in Charts(CurveItems)
  BY <1>1, <1>3, ChartIs
<1>5. QED
  BY <1>2, <1>4 DEF Drawable, read

(***************************************************************************)
(* Radar charts: the operations, and the values they leave in place.       *)
(***************************************************************************)
LEMMA DrawableIs ==
    ASSUME NEW b \in Drawable
    PROVE  /\ b \in Charts(CurveItems) /\ b.axes \in Seq(AxisItems) /\ b.curves \in Seq(CurveItems)
           /\ \A k \in DOMAIN b.curves : /\ b.curves[k] \in CurveItems
                                         /\ b.curves[k].values \in Seq(Nat)
                                         /\ Len(b.curves[k].values) = Len(b.axes)
           /\ \A i, j \in DOMAIN b.axes : b.axes[i].id = b.axes[j].id => i = j
           /\ \A i, j \in DOMAIN b.curves : b.curves[i].id = b.curves[j].id => i = j
<1>1. b \in Charts(CurveItems) /\ b.axes \in Seq(AxisItems) /\ b.curves \in Seq(CurveItems)
  BY DEF Drawable, Charts
<1>2. ASSUME NEW k \in DOMAIN b.curves
      PROVE  /\ b.curves[k] \in CurveItems /\ b.curves[k].values \in Seq(Nat)
             /\ Len(b.curves[k].values) = Len(b.axes)
  <2>1. b.curves[k] \in CurveItems /\ b.curves[k] \in Radar!ToSet(b.curves)
    BY <1>1 DEF Radar!ToSet
  <2>2. QED
    BY <2>1 DEF CurveItems, Drawable, Radar!Problem
<1>3. \A i, j \in DOMAIN b.axes : b.axes[i].id = b.axes[j].id => i = j
  BY DEF Drawable, Radar!Problem, Radar!IsInjective, Radar!IdsOf
<1>4. \A i, j \in DOMAIN b.curves : b.curves[i].id = b.curves[j].id => i = j
  BY DEF Drawable, Radar!Problem, Radar!IsInjective, Radar!IdsOf
<1>5. QED
  BY <1>1, <1>2, <1>3, <1>4

\* In c every curve and axis of b that is still there has the value it had in b.
ValuesStay(b, c) ==
    \A k \in DOMAIN b.curves, l \in DOMAIN c.curves, i \in DOMAIN b.axes, j \in DOMAIN c.axes :
        b.curves[k].id = c.curves[l].id /\ b.axes[i].id = c.axes[j].id
        => c.curves[l].values[j] = b.curves[k].values[i]
SameIds(b, c) ==
    /\ Radar!IdsOf(c.axes) = Radar!IdsOf(b.axes)
    /\ Radar!IdsOf(c.curves) = Radar!IdsOf(b.curves)
Redrawn(b) == {c \in Drawable : SameIds(b, c) \/ ValuesStay(b, c)}

LEMMA IndexOfIs ==
    ASSUME NEW items, Len(items) \in Nat, DOMAIN items = 1 .. Len(items),
           \A i, j \in DOMAIN items : items[i].id = items[j].id => i = j,
           NEW k \in DOMAIN items
    PROVE  Radar!IndexOf(items, items[k].id) = k
<1> DEFINE I == {i \in 1 .. Len(items) : items[i].id = items[k].id}
<1>1. I = {k}
  OBVIOUS
<1>2. Radar!IndexOf(items, items[k].id) = Radar!Min(I)
  BY <1>1 DEF Radar!IndexOf, Radar!SelectInSeq
<1>3. k \in Nat /\ k <= k
  OBVIOUS
<1> HIDE DEF I
<1>4. Radar!Min(I) = k
  BY <1>1, <1>3 DEF Radar!Min
<1>5. QED
  BY <1>2, <1>4

\* An id that is not found is no item's.
LEMMA IndexOfNone ==
    ASSUME NEW items, Len(items) \in Nat, DOMAIN items = 1 .. Len(items), NEW id
    PROVE  /\ Radar!IndexOf(items, id) = 0 => \A i \in DOMAIN items : items[i].id # id
           /\ Radar!IndexOf(items, id) # 0 =>
                /\ Radar!IndexOf(items, id) \in DOMAIN items
                /\ items[Radar!IndexOf(items, id)].id = id
<1> DEFINE I == {i \in 1 .. Len(items) : items[i].id = id}
           first == IF I # {} THEN Radar!Min(I) ELSE 0
<1>1. Radar!IndexOf(items, id) = first
  BY DEF Radar!IndexOf, Radar!SelectInSeq
<1>2. I \in SUBSET (1 .. Len(items))
  OBVIOUS
<1>3. (I = {} => first = 0) /\ (I # {} => first \in I)
  <2> HIDE DEF I
  <2>1. QED
    BY <1>2, FirstIs
<1>4. \A i \in I : i # 0 /\ i \in DOMAIN items /\ items[i].id = id
  OBVIOUS
<1>5. \A i \in DOMAIN items : items[i].id = id => i \in I
  OBVIOUS
<1> HIDE DEF I, first
<1>6. QED
  BY <1>1, <1>3, <1>4, <1>5

LEMMA RadarInsertAtIs ==
    ASSUME NEW L, NEW s \in Seq(L), NEW i \in 1 .. Len(s) + 1, NEW e \in L
    PROVE  Radar!InsertAt(s, i, e) = Inserted(s, i, e)
BY InsertAtIs DEF InsertAt, Radar!InsertAt

LEMMA RadarRemoveAtIs ==
    ASSUME NEW L, NEW s \in Seq(L), NEW i \in 1 .. Len(s)
    PROVE  Radar!RemoveAt(s, i) = Removed(s, i)
BY RemoveAtIs DEF RemoveAt, Radar!RemoveAt

\* Where the j-th element was before the move.
Origin(from, to, j) ==
    IF j = to THEN from
    ELSE IF j < to THEN (IF j < from THEN j ELSE j + 1)
    ELSE (IF j - 1 < from THEN j - 1 ELSE j)

LEMMA OriginIs ==
    ASSUME NEW n \in Nat, NEW from \in 1 .. n, NEW to \in 1 .. n, NEW j \in 1 .. n
    PROVE  Origin(from, to, j) \in 1 .. n
BY DEF Origin

LEMMA MovedIs ==
    ASSUME NEW L, NEW n \in Nat, NEW s \in Seq(L), Len(s) = n, NEW from \in 1 .. n, NEW to \in 1 .. n
    PROVE  /\ Radar!Moved(s, from, to) \in Seq(L) /\ Len(Radar!Moved(s, from, to)) = n
           /\ \A j \in 1 .. n : Radar!Moved(s, from, to)[j] = s[Origin(from, to, j)]
<1> DEFINE rest == Removed(s, from)
           whole == Inserted(rest, to, s[from])
<1>1. from \in 1 .. Len(s) /\ s[from] \in L /\ n - 1 \in Nat
  OBVIOUS
<1>2. Radar!RemoveAt(s, from) = rest /\ rest \in Seq(L) /\ Len(rest) = n - 1
  BY <1>1, RadarRemoveAtIs, RemovedIs
<1>3. to \in 1 .. Len(rest) + 1 /\ Len(rest) + 1 = n
  BY <1>1, <1>2
<1>4. \A j \in 1 .. n - 1 : rest[j] = IF j < from THEN s[j] ELSE s[j + 1]
  BY DEF Removed
<1> HIDE DEF rest
<1>5. /\ Radar!InsertAt(rest, to, s[from]) = whole
      /\ whole \in Seq(L) /\ Len(whole) = Len(rest) + 1
  <2> DEFINE e == s[from]
  <2>1. rest \in Seq(L) /\ to \in 1 .. Len(rest) + 1 /\ e \in L
    BY <1>1, <1>2, <1>3
  <2> HIDE DEF e
  <2>2. Radar!InsertAt(rest, to, e) = Inserted(rest, to, e)
    BY <2>1, RadarInsertAtIs
  <2>3. Inserted(rest, to, e) \in Seq(L) /\ Len(Inserted(rest, to, e)) = Len(rest) + 1
    BY <2>1, InsertedIs
  <2>4. QED
    BY <2>2, <2>3 DEF e
<1>6. \A j \in 1 .. n : whole[j] = IF j < to THEN rest[j] ELSE IF j = to THEN s[from] ELSE rest[j - 1]
  BY <1>3 DEF Inserted
<1> HIDE DEF whole
<1>7. ASSUME NEW j \in 1 .. n PROVE whole[j] = s[Origin(from, to, j)]
  <2>1. CASE j = to
    BY <1>6, <2>1 DEF Origin
  <2>2. CASE j < to
    <3>1. j \in 1 .. n - 1 /\ j # to
      BY <2>2
    <3>2. QED
      BY <1>4, <1>6, <2>2, <3>1 DEF Origin
  <2>3. CASE j > to
    <3> DEFINE i == j - 1
    <3>1. i \in 1 .. n - 1 /\ j # to /\ ~(j < to) /\ i + 1 = j
      BY <2>3
    <3>2. whole[j] = rest[i]
      BY <1>6, <3>1
    <3>3. rest[i] = IF i < from THEN s[i] ELSE s[j]
      <4> HIDE DEF i
      <4> QED BY <1>4, <3>1
    <3>4. QED
      BY <3>1, <3>2, <3>3 DEF Origin
  <2>4. QED
    BY <2>1, <2>2, <2>3
<1>8. QED
  BY <1>2, <1>3, <1>5, <1>7 DEF Radar!Moved

LEMMA CheckedIs ==
    ASSUME NEW b, NEW x \in Charts(CurveItems), SameIds(b, x) \/ ValuesStay(b, x)
    PROVE  Radar!Checked(x) \subseteq Redrawn(b)
BY DEF Radar!Checked, Redrawn, Drawable

\* Curves with other values, one for every curve there was.
Revalued(curves, vals) == [k \in DOMAIN curves |-> [curves[k] EXCEPT !.values = vals[k]]]

LEMMA RevaluedIs ==
    ASSUME NEW curves \in Seq(CurveItems), NEW vals, \A k \in DOMAIN curves : vals[k] \in Seq(Nat)
    PROVE  /\ Revalued(curves, vals) \in Seq(CurveItems)
           /\ DOMAIN Revalued(curves, vals) = DOMAIN curves
           /\ \A k \in DOMAIN curves : /\ Revalued(curves, vals)[k].id = curves[k].id
                                       /\ Revalued(curves, vals)[k].values = vals[k]
<1> DEFINE r == Revalued(curves, vals)
           n == Len(curves)
<1>1. n \in Nat /\ DOMAIN curves = 1 .. n /\ \A k \in 1 .. n : curves[k] \in CurveItems
  OBVIOUS
<1>2. ASSUME NEW k \in 1 .. n
      PROVE  r[k] \in CurveItems /\ r[k].id = curves[k].id /\ r[k].values = vals[k]
  <2>1. r[k] = [curves[k] EXCEPT !.values = vals[k]]
    BY <1>1 DEF Revalued
  <2> HIDE DEF r
  <2>2. QED
    BY <1>1, <2>1 DEF CurveItems
<1>3. r = [k \in 1 .. n |-> r[k]]
  BY <1>1 DEF Revalued
<1> HIDE DEF r
<1>4. r \in Seq(CurveItems) /\ DOMAIN r = 1 .. n
  BY <1>1, <1>2, <1>3, SequenceIs
<1>5. QED
  BY <1>1, <1>2, <1>4 DEF r

\* Axes that are rearranged together with the values of every curve.
Rearranged(b, axes, vals) == [b EXCEPT !.axes = axes, !.curves = Revalued(b.curves, vals)]

LEMMA RearrangedIs ==
    ASSUME NEW b \in Drawable, NEW axes \in Seq(AxisItems), NEW vals,
           \A k \in DOMAIN b.curves : vals[k] \in Seq(Nat),
           \A k \in DOMAIN b.curves, i \in DOMAIN b.axes, j \in DOMAIN axes :
              b.axes[i].id = axes[j].id => vals[k][j] = b.curves[k].values[i]
    PROVE  Radar!Checked(Rearranged(b, axes, vals)) \subseteq Redrawn(b)
<1> DEFINE curves == Revalued(b.curves, vals)
           x == [b EXCEPT !.axes = axes, !.curves = curves]
<1>1. /\ b \in Charts(CurveItems) /\ b.curves \in Seq(CurveItems)
      /\ \A i, j \in DOMAIN b.curves : b.curves[i].id = b.curves[j].id => i = j
  BY DrawableIs
<1>2. /\ curves \in Seq(CurveItems) /\ DOMAIN curves = DOMAIN b.curves
      /\ \A k \in DOMAIN b.curves : curves[k].id = b.curves[k].id /\ curves[k].values = vals[k]
  BY <1>1, RevaluedIs
<1> HIDE DEF curves
<1>3. x \in Charts(CurveItems) /\ x.axes = axes /\ x.curves = curves
  BY <1>1, <1>2 DEF Charts
<1> HIDE DEF x
<1>4. ValuesStay(b, x)
  <2> SUFFICES ASSUME NEW k \in DOMAIN b.curves, NEW l \in DOMAIN curves,
                      NEW i \in DOMAIN b.axes, NEW j \in DOMAIN axes,
                      b.curves[k].id = curves[l].id, b.axes[i].id = axes[j].id
               PROVE  curves[l].values[j] = b.curves[k].values[i]
    BY <1>3 DEF ValuesStay
  <2>1. k = l /\ curves[l].values = vals[k]
    BY <1>1, <1>2
  <2>2. QED
    BY <2>1
<1>5. x = Rearranged(b, axes, vals)
  BY DEF x, curves, Rearranged
<1>6. QED
  BY <1>3, <1>4, <1>5, CheckedIs

LEMMA AddAxisRedraws ==
    ASSUME NEW b \in Drawable, NEW id \in RadarNames, NEW at \in 1 .. Len(b.axes) + 1, NEW fill \in Nat
    PROVE  Radar!AddAxis(b, id, at, fill) \subseteq Redrawn(b)
<1> DEFINE item == [id |-> id, label |-> id]
           axes == Radar!InsertAt(b.axes, at, item)
           vals == [k \in DOMAIN b.curves |-> Radar!InsertAt(b.curves[k].values, at, fill)]
           n == Len(b.axes)
<1> SUFFICES ASSUME Radar!IndexOf(b.axes, id) = 0
             PROVE  Radar!Checked(Rearranged(b, axes, vals)) \subseteq Redrawn(b)
  <2>1. Radar!InsertValue(b.curves, at, fill) = Revalued(b.curves, vals)
    BY DEF Radar!InsertValue, Revalued
  <2>2. [b EXCEPT !.axes = Radar!InsertAt(@, at, item), !.curves = Radar!InsertValue(@, at, fill)]
        = [b EXCEPT !.axes = axes, !.curves = Radar!InsertValue(b.curves, at, fill)]
    BY DrawableIs DEF Charts
  <2>3. QED
    BY <2>1, <2>2 DEF Radar!AddAxis, Rearranged
<1>1. /\ b.axes \in Seq(AxisItems) /\ n \in Nat /\ DOMAIN b.axes = 1 .. n
      /\ \A i, j \in DOMAIN b.axes : b.axes[i].id = b.axes[j].id => i = j
      /\ \A k \in DOMAIN b.curves : b.curves[k].values \in Seq(Nat) /\ Len(b.curves[k].values) = n
  BY DrawableIs
<1>2. \A i \in DOMAIN b.axes : b.axes[i].id # id
  BY <1>1, IndexOfNone
<1>3. item \in AxisItems
  BY DEF AxisItems
<1>4. axes = Inserted(b.axes, at, item) /\ axes \in Seq(AxisItems)
  BY <1>1, <1>3, RadarInsertAtIs, InsertedIs
<1>5. ASSUME NEW k \in DOMAIN b.curves
      PROVE  /\ vals[k] \in Seq(Nat)
             /\ \A j \in 1 .. n + 1 : vals[k][j] = IF j < at THEN b.curves[k].values[j]
                                        ELSE IF j = at THEN fill ELSE b.curves[k].values[j - 1]
  <2> DEFINE v == b.curves[k].values
  <2>1. v \in Seq(Nat) /\ at \in 1 .. Len(v) + 1 /\ Len(v) = n
    BY <1>1
  <2> HIDE DEF v
  <2>2. Radar!InsertAt(v, at, fill) = Inserted(v, at, fill) /\ Inserted(v, at, fill) \in Seq(Nat)
    <3>1. Radar!InsertAt(v, at, fill) = Inserted(v, at, fill)
      BY <2>1, RadarInsertAtIs
    <3>2. Inserted(v, at, fill) \in Seq(Nat)
      BY <2>1, InsertedIs
    <3>3. QED
      BY <3>1, <3>2
  <2>3. \A j \in 1 .. n + 1 : Inserted(v, at, fill)[j] = IF j < at THEN v[j] ELSE IF j = at THEN fill ELSE v[j - 1]
    BY <2>1 DEF Inserted
  <2>4. vals[k] = Radar!InsertAt(v, at, fill)
    BY DEF v
  <2> HIDE DEF vals
  <2>5. /\ vals[k] \in Seq(Nat)
        /\ \A j \in 1 .. n + 1 : vals[k][j] = IF j < at THEN v[j] ELSE IF j = at THEN fill ELSE v[j - 1]
    BY <2>2, <2>3, <2>4
  <2>6. QED
    BY <2>5 DEF v
<1>7. DOMAIN axes = 1 .. n + 1
  BY <1>4 DEF Inserted
<1>8. \A i, j \in 1 .. n : b.axes[i].id = b.axes[j].id => i = j
  BY <1>1
<1>9. \A j \in 1 .. n + 1 : axes[j] = IF j < at THEN b.axes[j] ELSE IF j = at THEN item ELSE b.axes[j - 1]
  BY <1>4 DEF Inserted
<1> HIDE DEF axes, vals, n
<1>10. ASSUME NEW k \in DOMAIN b.curves, NEW i \in 1 .. n, NEW j \in 1 .. n + 1,
              b.axes[i].id = axes[j].id
       PROVE  vals[k][j] = b.curves[k].values[i]
  <2>2. vals[k][j] = IF j < at THEN b.curves[k].values[j]
                     ELSE IF j = at THEN fill ELSE b.curves[k].values[j - 1]
    BY <1>5
  <2>3. CASE j < at
    <3>1. j \in 1 .. n
      BY <1>1, <2>3
    <3>2. axes[j] = b.axes[j]
      BY <1>9, <2>3
    <3>3. i = j
      BY <1>8, <1>10, <3>1, <3>2
    <3>4. QED
      BY <2>2, <2>3, <3>3
  <2>4. CASE j = at
    <3>1. axes[j] = item
      BY <1>9, <2>4
    <3>2. b.axes[i].id # id
      BY <1>1, <1>2
    <3>3. QED
      BY <1>10, <3>1, <3>2
  <2>5. CASE j > at
    <3>1. j - 1 \in 1 .. n /\ ~(j < at) /\ j # at
      BY <1>1, <2>5
    <3>2. axes[j] = b.axes[j - 1]
      BY <1>9, <3>1
    <3>3. i = j - 1
      BY <1>8, <1>10, <3>1, <3>2
    <3>4. QED
      BY <2>2, <3>1, <3>3
  <2>6. QED
    BY <1>1, <2>3, <2>4, <2>5
<1>11. ASSUME NEW k \in DOMAIN b.curves, NEW i \in DOMAIN b.axes, NEW j \in DOMAIN axes,
              b.axes[i].id = axes[j].id
       PROVE  vals[k][j] = b.curves[k].values[i]
  <2>1. i \in 1 .. n /\ j \in 1 .. n + 1
    BY <1>1, <1>7
  <2>2. QED
    BY <1>10, <1>11, <2>1
<1>12. axes \in Seq(AxisItems) /\ \A k \in DOMAIN b.curves : vals[k] \in Seq(Nat)
  BY <1>4, <1>5
<1> HIDE DEF item
<1>13. QED
  BY <1>11, <1>12, RearrangedIs

LEMMA RemoveAxisRedraws ==
    ASSUME NEW b \in Drawable, NEW at \in DOMAIN b.axes
    PROVE  Radar!RemoveAxis(b, at) \subseteq Redrawn(b)
<1> DEFINE axes == Radar!RemoveAt(b.axes, at)
           vals == [k \in DOMAIN b.curves |-> Radar!RemoveAt(b.curves[k].values, at)]
           n == Len(b.axes)
<1> SUFFICES Radar!Checked(Rearranged(b, axes, vals)) \subseteq Redrawn(b)
  <2>1. Radar!RemoveValue(b.curves, at) = Revalued(b.curves, vals)
    BY DEF Radar!RemoveValue, Revalued
  <2>2. [b EXCEPT !.axes = Radar!RemoveAt(@, at), !.curves = Radar!RemoveValue(@, at)]
        = [b EXCEPT !.axes = axes, !.curves = Radar!RemoveValue(b.curves, at)]
    BY DrawableIs DEF Charts
  <2>3. QED
    BY <2>1, <2>2 DEF Radar!RemoveAxis, Rearranged
<1>1. /\ b.axes \in Seq(AxisItems) /\ n \in Nat /\ DOMAIN b.axes = 1 .. n
      /\ \A i, j \in DOMAIN b.axes : b.axes[i].id = b.axes[j].id => i = j
      /\ \A k \in DOMAIN b.curves : b.curves[k].values \in Seq(Nat) /\ Len(b.curves[k].values) = n
  BY DrawableIs
<1>2. at \in 1 .. n
  BY <1>1
<1>4. axes = Removed(b.axes, at) /\ axes \in Seq(AxisItems)
  BY <1>1, <1>2, RadarRemoveAtIs, RemovedIs
<1>5. ASSUME NEW k \in DOMAIN b.curves
      PROVE  /\ vals[k] \in Seq(Nat)
             /\ \A j \in 1 .. n - 1 : vals[k][j] = IF j < at THEN b.curves[k].values[j]
                                        ELSE b.curves[k].values[j + 1]
  <2> DEFINE v == b.curves[k].values
  <2>1. v \in Seq(Nat) /\ at \in 1 .. Len(v) /\ Len(v) = n
    BY <1>1, <1>2
  <2> HIDE DEF v
  <2>2. Radar!RemoveAt(v, at) = Removed(v, at) /\ Removed(v, at) \in Seq(Nat)
    <3>1. Radar!RemoveAt(v, at) = Removed(v, at)
      BY <2>1, RadarRemoveAtIs
    <3>2. Removed(v, at) \in Seq(Nat)
      BY <2>1, RemovedIs
    <3>3. QED
      BY <3>1, <3>2
  <2>3. \A j \in 1 .. n - 1 : Removed(v, at)[j] = IF j < at THEN v[j] ELSE v[j + 1]
    BY <2>1 DEF Removed
  <2>4. vals[k] = Radar!RemoveAt(v, at)
    BY DEF v
  <2> HIDE DEF vals
  <2>5. /\ vals[k] \in Seq(Nat)
        /\ \A j \in 1 .. n - 1 : vals[k][j] = IF j < at THEN v[j] ELSE v[j + 1]
    BY <2>2, <2>3, <2>4
  <2>6. QED
    BY <2>5 DEF v
<1>7. DOMAIN axes = 1 .. n - 1
  BY <1>4 DEF Removed
<1>8. \A i, j \in 1 .. n : b.axes[i].id = b.axes[j].id => i = j
  BY <1>1
<1>9. \A j \in 1 .. n - 1 : axes[j] = IF j < at THEN b.axes[j] ELSE b.axes[j + 1]
  BY <1>4 DEF Removed
<1> HIDE DEF axes, vals, n
<1>10. ASSUME NEW k \in DOMAIN b.curves, NEW i \in 1 .. n, NEW j \in 1 .. n - 1,
              b.axes[i].id = axes[j].id
       PROVE  vals[k][j] = b.curves[k].values[i]
  <2>1. vals[k][j] = IF j < at THEN b.curves[k].values[j] ELSE b.curves[k].values[j + 1]
    BY <1>5
  <2>2. j \in 1 .. n /\ j + 1 \in 1 .. n
    BY <1>1
  <2>3. i = IF j < at THEN j ELSE j + 1
    <3>1. axes[j] = IF j < at THEN b.axes[j] ELSE b.axes[j + 1]
      BY <1>9
    <3>2. QED
      BY <1>8, <1>10, <2>2, <3>1
  <2>4. QED
    BY <2>1, <2>3
<1>11. ASSUME NEW k \in DOMAIN b.curves, NEW i \in DOMAIN b.axes, NEW j \in DOMAIN axes,
              b.axes[i].id = axes[j].id
       PROVE  vals[k][j] = b.curves[k].values[i]
  <2>1. i \in 1 .. n /\ j \in 1 .. n - 1
    BY <1>1, <1>7
  <2>2. QED
    BY <1>10, <1>11, <2>1
<1>12. axes \in Seq(AxisItems) /\ \A k \in DOMAIN b.curves : vals[k] \in Seq(Nat)
  BY <1>4, <1>5
<1>13. QED
  BY <1>11, <1>12, RearrangedIs

\* A sequence with another element in one place.
LEMMA PutIs ==
    ASSUME NEW L, NEW s \in Seq(L), NEW k \in DOMAIN s, NEW e \in L
    PROVE  /\ [s EXCEPT ![k] = e] \in Seq(L) /\ DOMAIN [s EXCEPT ![k] = e] = DOMAIN s
           /\ \A j \in DOMAIN s : [s EXCEPT ![k] = e][j] = IF j = k THEN e ELSE s[j]
OBVIOUS

\* Other axes for the same values: an axis that is still there is where it was.
Reaxed(b, axes) == [b EXCEPT !.axes = axes]

LEMMA ReaxedIs ==
    ASSUME NEW b \in Drawable, NEW axes \in Seq(AxisItems),
           \A i \in DOMAIN b.axes, j \in DOMAIN axes : b.axes[i].id = axes[j].id => i = j
    PROVE  Radar!Checked(Reaxed(b, axes)) \subseteq Redrawn(b)
<1> DEFINE x == Reaxed(b, axes)
<1>1. /\ b \in Charts(CurveItems)
      /\ \A i, j \in DOMAIN b.curves : b.curves[i].id = b.curves[j].id => i = j
  BY DrawableIs
<1>2. x \in Charts(CurveItems) /\ x.axes = axes /\ x.curves = b.curves
  BY <1>1 DEF Reaxed, Charts
<1> HIDE DEF x
<1>3. ValuesStay(b, x)
  BY <1>1, <1>2 DEF ValuesStay
<1>4. QED
  BY <1>2, <1>3, CheckedIs DEF x

\* Other curves on the same axes.
Recurved(b, curves) == [b EXCEPT !.curves = curves]

LEMMA RecurvedChart ==
    ASSUME NEW b \in Drawable, NEW curves \in Seq(CurveItems)
    PROVE  /\ Recurved(b, curves) \in Charts(CurveItems)
           /\ Recurved(b, curves).axes = b.axes /\ Recurved(b, curves).curves = curves
BY DEF Recurved, Charts, Drawable

\* Each is new or has the values it had.
LEMMA RecurvedIs ==
    ASSUME NEW b \in Drawable, NEW curves \in Seq(CurveItems),
           \A k \in DOMAIN b.curves, l \in DOMAIN curves :
              b.curves[k].id = curves[l].id => curves[l].values = b.curves[k].values
    PROVE  Radar!Checked(Recurved(b, curves)) \subseteq Redrawn(b)
<1> DEFINE x == Recurved(b, curves)
<1>1. \A i, j \in DOMAIN b.axes : b.axes[i].id = b.axes[j].id => i = j
  BY DrawableIs
<1>2. x \in Charts(CurveItems) /\ x.axes = b.axes /\ x.curves = curves
  BY RecurvedChart
<1> HIDE DEF x
<1>3. ValuesStay(b, x)
  BY <1>1, <1>2 DEF ValuesStay
<1>4. QED
  BY <1>2, <1>3, CheckedIs DEF x

\* Each has the id of the one before it in its place.
LEMMA RedrawnCurves ==
    ASSUME NEW b \in Drawable, NEW curves \in Seq(CurveItems), DOMAIN curves = DOMAIN b.curves,
           \A k \in DOMAIN b.curves : curves[k].id = b.curves[k].id
    PROVE  Radar!Checked(Recurved(b, curves)) \subseteq Redrawn(b)
<1> DEFINE x == Recurved(b, curves)
<1>1. x \in Charts(CurveItems) /\ x.axes = b.axes /\ x.curves = curves
  BY RecurvedChart
<1> HIDE DEF x
<1>2. SameIds(b, x)
  BY <1>1 DEF SameIds, Radar!IdsOf
<1>3. QED
  BY <1>1, <1>2, CheckedIs DEF x

LEMMA RelabelledIs ==
    ASSUME NEW to \in RadarNames
    PROVE  /\ \A item \in AxisItems :
                Radar!Relabelled(item, to) \in AxisItems /\ Radar!Relabelled(item, to).id = to
           /\ \A item \in CurveItems :
                /\ Radar!Relabelled(item, to) \in CurveItems /\ Radar!Relabelled(item, to).id = to
                /\ Radar!Relabelled(item, to).values = item.values
BY DEF Radar!Relabelled, AxisItems, CurveItems

LEMMA RenameAxisRedraws ==
    ASSUME NEW b \in Drawable, NEW k \in DOMAIN b.axes, NEW to \in RadarNames
    PROVE  Radar!RenameAxis(b, k, to) \subseteq Redrawn(b)
<1> DEFINE item == Radar!Relabelled(b.axes[k], to)
           axes == [b.axes EXCEPT ![k] = item]
<1> SUFFICES ASSUME Radar!IndexOf(b.axes, to) \in {0, k}
             PROVE  Radar!Checked(Reaxed(b, axes)) \subseteq Redrawn(b)
  BY DrawableIs DEF Radar!RenameAxis, Reaxed, Charts
<1>1. /\ b.axes \in Seq(AxisItems) /\ b.axes[k] \in AxisItems
      /\ \A i, j \in DOMAIN b.axes : b.axes[i].id = b.axes[j].id => i = j
  BY DrawableIs
<1>2. item \in AxisItems /\ item.id = to
  BY <1>1, RelabelledIs
<1> HIDE DEF item
<1>3. /\ axes \in Seq(AxisItems) /\ DOMAIN axes = DOMAIN b.axes
      /\ \A j \in DOMAIN b.axes : axes[j] = IF j = k THEN item ELSE b.axes[j]
  BY <1>1, <1>2, PutIs
<1> HIDE DEF axes
<1>4. ASSUME NEW i \in DOMAIN b.axes, b.axes[i].id = to PROVE i = k
  <2> DEFINE s == b.axes
  <2>1. /\ Len(s) \in Nat /\ DOMAIN s = 1 .. Len(s) /\ i \in DOMAIN s /\ s[i].id = to
        /\ \A i_1, j_1 \in DOMAIN s : s[i_1].id = s[j_1].id => i_1 = j_1
    BY <1>1, <1>4
  <2> HIDE DEF s
  <2>2. Radar!IndexOf(s, s[i].id) = i
    BY <2>1, IndexOfIs
  <2>3. i \in {0, k} /\ i # 0
    BY <2>1, <2>2 DEF s
  <2>4. QED
    BY <2>3
<1>5. \A i \in DOMAIN b.axes, j \in DOMAIN axes : b.axes[i].id = axes[j].id => i = j
  BY <1>1, <1>2, <1>3, <1>4
<1>6. QED
  BY <1>3, <1>5, ReaxedIs

LEMMA SetAxisLabelRedraws ==
    ASSUME NEW b \in Drawable, NEW k \in DOMAIN b.axes, NEW label \in RadarNames
    PROVE  Radar!SetAxisLabel(b, k, label) \subseteq Redrawn(b)
<1> DEFINE item == [b.axes[k] EXCEPT !.label = label]
           axes == [b.axes EXCEPT ![k] = item]
<1>1. /\ b.axes \in Seq(AxisItems) /\ b.axes[k] \in AxisItems
      /\ \A i, j \in DOMAIN b.axes : b.axes[i].id = b.axes[j].id => i = j
  BY DrawableIs
<1>2. item \in AxisItems /\ item.id = b.axes[k].id
  BY <1>1 DEF AxisItems
<1>3. Radar!SetAxisLabel(b, k, label) = Radar!Checked(Reaxed(b, axes))
  BY <1>1, DrawableIs DEF Radar!SetAxisLabel, Reaxed, Charts
<1> HIDE DEF item
<1>4. /\ axes \in Seq(AxisItems) /\ DOMAIN axes = DOMAIN b.axes
      /\ \A j \in DOMAIN b.axes : axes[j] = IF j = k THEN item ELSE b.axes[j]
  BY <1>1, <1>2, PutIs
<1> HIDE DEF axes
<1>5. \A i \in DOMAIN b.axes, j \in DOMAIN axes : b.axes[i].id = axes[j].id => i = j
  BY <1>1, <1>2, <1>4
<1>6. QED
  BY <1>3, <1>4, <1>5, ReaxedIs

LEMMA MovedSequence ==
    ASSUME NEW L, NEW s \in Seq(L), NEW from \in 1 .. Len(s), NEW to \in 1 .. Len(s)
    PROVE  /\ Radar!Moved(s, from, to) \in Seq(L) /\ Len(Radar!Moved(s, from, to)) = Len(s)
           /\ \A j \in 1 .. Len(s) : Radar!Moved(s, from, to)[j] = s[Origin(from, to, j)]
<1> DEFINE n == Len(s)
<1>1. n \in Nat /\ from \in 1 .. n /\ to \in 1 .. n /\ Len(s) = n
  OBVIOUS
<1> HIDE DEF n
<1>2. QED
  BY <1>1, MovedIs DEF n

LEMMA ReorderAxisRedraws ==
    ASSUME NEW b \in Drawable, NEW from \in DOMAIN b.axes, NEW to \in DOMAIN b.axes
    PROVE  Radar!ReorderAxis(b, from, to) \subseteq Redrawn(b)
<1> DEFINE axes == Radar!Moved(b.axes, from, to)
           vals == [k \in DOMAIN b.curves |-> Radar!Moved(b.curves[k].values, from, to)]
           n == Len(b.axes)
<1> SUFFICES Radar!Checked(Rearranged(b, axes, vals)) \subseteq Redrawn(b)
  <2>1. Radar!MoveValue(b.curves, from, to) = Revalued(b.curves, vals)
    BY DEF Radar!MoveValue, Revalued
  <2>2. [b EXCEPT !.axes = Radar!Moved(@, from, to), !.curves = Radar!MoveValue(@, from, to)]
        = [b EXCEPT !.axes = axes, !.curves = Radar!MoveValue(b.curves, from, to)]
    BY DrawableIs DEF Charts
  <2>3. QED
    BY <2>1, <2>2 DEF Radar!ReorderAxis, Rearranged
<1>1. /\ b.axes \in Seq(AxisItems) /\ n \in Nat /\ DOMAIN b.axes = 1 .. n
      /\ \A i, j \in DOMAIN b.axes : b.axes[i].id = b.axes[j].id => i = j
      /\ \A k \in DOMAIN b.curves : b.curves[k].values \in Seq(Nat) /\ Len(b.curves[k].values) = n
  BY DrawableIs
<1>2. from \in 1 .. n /\ to \in 1 .. n
  BY <1>1
<1>3. /\ axes \in Seq(AxisItems) /\ Len(axes) = n
      /\ \A j \in 1 .. n : axes[j] = b.axes[Origin(from, to, j)]
  BY <1>1, <1>2, MovedSequence
<1>4. ASSUME NEW k \in DOMAIN b.curves
      PROVE  /\ vals[k] \in Seq(Nat)
             /\ \A j \in 1 .. n : vals[k][j] = b.curves[k].values[Origin(from, to, j)]
  <2> DEFINE v == b.curves[k].values
  <2>1. v \in Seq(Nat) /\ Len(v) = n /\ n \in Nat
    BY <1>1
  <2>2. vals[k] = Radar!Moved(v, from, to)
    BY DEF v
  <2> HIDE DEF v, vals, n
  <2>3. /\ Radar!Moved(v, from, to) \in Seq(Nat)
        /\ \A j \in 1 .. n : Radar!Moved(v, from, to)[j] = v[Origin(from, to, j)]
    <3>1. v \in Seq(Nat) /\ Len(v) = n /\ n \in Nat /\ from \in 1 .. n /\ to \in 1 .. n
      BY <1>2, <2>1
    <3>2. Radar!Moved(v, from, to) \in Seq(Nat)
      BY <3>1, MovedIs
    <3>3. \A j \in 1 .. Len(v) : Radar!Moved(v, from, to)[j] = v[Origin(from, to, j)]
      BY <3>1, MovedSequence
    <3>4. QED
      BY <3>1, <3>2, <3>3
  <2>4. QED
    BY <2>2, <2>3 DEF v
<1>5. \A j \in 1 .. n : Origin(from, to, j) \in 1 .. n
  BY <1>1, <1>2, OriginIs
<1>6. DOMAIN axes = 1 .. n
  BY <1>1, <1>3
<1> HIDE DEF axes, vals, n
<1>7. ASSUME NEW k \in DOMAIN b.curves, NEW i \in DOMAIN b.axes, NEW j \in DOMAIN axes,
             b.axes[i].id = axes[j].id
      PROVE  vals[k][j] = b.curves[k].values[i]
  <2>1. i = Origin(from, to, j)
    <3> DEFINE o == Origin(from, to, j)
    <3>1. o \in DOMAIN b.axes /\ axes[j] = b.axes[o]
      BY <1>1, <1>3, <1>5, <1>6
    <3> HIDE DEF o
    <3>2. b.axes[i].id = b.axes[o].id
      BY <1>7, <3>1
    <3>3. i = o
      BY <1>1, <3>1, <3>2
    <3>4. QED
      BY <3>3 DEF o
  <2>2. QED
    BY <1>4, <1>6, <2>1
<1>8. axes \in Seq(AxisItems) /\ \A k \in DOMAIN b.curves : vals[k] \in Seq(Nat)
  BY <1>3, <1>4
<1>9. QED
  BY <1>7, <1>8, RearrangedIs

\* A curve of the same id or of an id no curve had.
Carried(curves, curve) ==
    \/ \E k \in DOMAIN curves : curves[k].id = curve.id /\ curves[k].values = curve.values
    \/ \A k \in DOMAIN curves : curves[k].id # curve.id

LEMMA CarriedCurves ==
    ASSUME NEW b \in Drawable, NEW curves \in Seq(CurveItems),
           \A l \in DOMAIN curves : Carried(b.curves, curves[l])
    PROVE  Radar!Checked(Recurved(b, curves)) \subseteq Redrawn(b)
<1>1. \A i, j \in DOMAIN b.curves : b.curves[i].id = b.curves[j].id => i = j
  BY DrawableIs
<1>2. \A k \in DOMAIN b.curves, l \in DOMAIN curves :
        b.curves[k].id = curves[l].id => curves[l].values = b.curves[k].values
  BY <1>1 DEF Carried
<1>3. QED
  BY <1>2, RecurvedIs

LEMMA SameCurveCarried ==
    ASSUME NEW curves, NEW k \in DOMAIN curves
    PROVE  Carried(curves, curves[k])
BY DEF Carried

LEMMA VectorIs ==
    ASSUME NEW b \in Drawable, NEW values \in [DOMAIN b.axes -> Nat]
    PROVE  values \in Seq(Nat)
<1>1. Len(b.axes) \in Nat /\ DOMAIN b.axes = 1 .. Len(b.axes)
  BY DrawableIs
<1>2. values \in [1 .. Len(b.axes) -> Nat]
  BY <1>1
<1>3. QED
  BY <1>1, <1>2, SequenceIs

LEMMA AddCurveRedraws ==
    ASSUME NEW b \in Drawable, NEW id \in RadarNames, NEW at \in 1 .. Len(b.curves) + 1,
           NEW values \in Seq(Nat)
    PROVE  Radar!AddCurve(b, id, at, values) \subseteq Redrawn(b)
<1> DEFINE s == b.curves
           item == [id |-> id, label |-> id, values |-> values]
           curves == Radar!InsertAt(s, at, item)
<1> SUFFICES ASSUME Radar!IndexOf(s, id) = 0
             PROVE  Radar!Checked(Recurved(b, curves)) \subseteq Redrawn(b)
  BY DrawableIs DEF Radar!AddCurve, Recurved, Charts
<1>1. s \in Seq(CurveItems) /\ at \in 1 .. Len(s) + 1
  BY DrawableIs
<1>2. item \in CurveItems /\ item.id = id
  BY DEF CurveItems
<1> HIDE DEF s, item
<1>3. \A k \in DOMAIN s : s[k].id # id
  BY <1>1, IndexOfNone
<1>4. curves = Inserted(s, at, item) /\ curves \in Seq(CurveItems)
  BY <1>1, <1>2, RadarInsertAtIs, InsertedIs
<1>5. ASSUME NEW l \in DOMAIN curves PROVE Carried(s, curves[l])
  <2>1. l \in 1 .. Len(s) + 1
    BY <1>4 DEF Inserted
  <2>2. curves[l] = IF l < at THEN s[l] ELSE IF l = at THEN item ELSE s[l - 1]
    BY <1>4, <2>1 DEF Inserted
  <2> HIDE DEF curves
  <2>3. CASE l < at
    <3>1. l \in DOMAIN s /\ curves[l] = s[l]
      BY <1>1, <2>1, <2>2, <2>3
    <3>2. QED
      BY <3>1, SameCurveCarried
  <2>4. CASE l = at
    BY <1>2, <1>3, <2>2, <2>4 DEF Carried
  <2>5. CASE l > at
    <3>1. l - 1 \in DOMAIN s /\ curves[l] = s[l - 1]
      BY <1>1, <2>1, <2>2, <2>5
    <3>2. QED
      BY <3>1, SameCurveCarried
  <2>6. QED
    BY <1>1, <2>1, <2>3, <2>4, <2>5
<1> HIDE DEF curves
<1>6. QED
  BY <1>4, <1>5, CarriedCurves DEF s

LEMMA RemoveCurveRedraws ==
    ASSUME NEW b \in Drawable, NEW at \in DOMAIN b.curves
    PROVE  Radar!RemoveCurve(b, at) \subseteq Redrawn(b)
<1> DEFINE s == b.curves
           curves == Radar!RemoveAt(s, at)
<1>1. s \in Seq(CurveItems) /\ at \in 1 .. Len(s)
  BY DrawableIs
<1>2. Radar!RemoveCurve(b, at) = Radar!Checked(Recurved(b, curves))
  BY DrawableIs DEF Radar!RemoveCurve, Recurved, Charts
<1> HIDE DEF s
<1>3. curves = Removed(s, at) /\ curves \in Seq(CurveItems)
  BY <1>1, RadarRemoveAtIs, RemovedIs
<1>4. ASSUME NEW l \in DOMAIN curves PROVE Carried(s, curves[l])
  <2>1. l \in 1 .. Len(s) - 1
    BY <1>3 DEF Removed
  <2>2. curves[l] = IF l < at THEN s[l] ELSE s[l + 1]
    BY <1>3, <2>1 DEF Removed
  <2> HIDE DEF curves
  <2>3. l \in DOMAIN s /\ l + 1 \in DOMAIN s
    BY <1>1, <2>1
  <2>4. QED
    BY <2>2, <2>3, SameCurveCarried
<1> HIDE DEF curves
<1>5. QED
  BY <1>2, <1>3, <1>4, CarriedCurves DEF s

LEMMA ReorderCurveRedraws ==
    ASSUME NEW b \in Drawable, NEW from \in DOMAIN b.curves, NEW to \in DOMAIN b.curves
    PROVE  Radar!ReorderCurve(b, from, to) \subseteq Redrawn(b)
<1> DEFINE s == b.curves
           curves == Radar!Moved(s, from, to)
<1>1. s \in Seq(CurveItems) /\ from \in 1 .. Len(s) /\ to \in 1 .. Len(s) /\ Len(s) \in Nat
  BY DrawableIs
<1>2. Radar!ReorderCurve(b, from, to) = Radar!Checked(Recurved(b, curves))
  BY DrawableIs DEF Radar!ReorderCurve, Recurved, Charts
<1> HIDE DEF s
<1>3. /\ curves \in Seq(CurveItems) /\ Len(curves) = Len(s)
      /\ \A j \in 1 .. Len(s) : curves[j] = s[Origin(from, to, j)]
  BY <1>1, MovedSequence
<1> HIDE DEF curves
<1>4. ASSUME NEW l \in DOMAIN curves PROVE Carried(s, curves[l])
  <2>1. l \in 1 .. Len(s)
    BY <1>3
  <2>2. Origin(from, to, l) \in 1 .. Len(s)
    BY <1>1, <2>1, OriginIs
  <2>3. Origin(from, to, l) \in DOMAIN s /\ curves[l] = s[Origin(from, to, l)]
    BY <1>1, <1>3, <2>1, <2>2
  <2>4. QED
    BY <2>3, SameCurveCarried
<1>5. QED
  BY <1>2, <1>3, <1>4, CarriedCurves DEF s

LEMMA RenameCurveRedraws ==
    ASSUME NEW b \in Drawable, NEW k \in DOMAIN b.curves, NEW to \in RadarNames
    PROVE  Radar!RenameCurve(b, k, to) \subseteq Redrawn(b)
<1> DEFINE s == b.curves
           item == Radar!Relabelled(s[k], to)
           curves == [s EXCEPT ![k] = item]
<1> SUFFICES ASSUME Radar!IndexOf(s, to) \in {0, k}
             PROVE  Radar!Checked(Recurved(b, curves)) \subseteq Redrawn(b)
  BY DrawableIs DEF Radar!RenameCurve, Recurved, Charts
<1>1. /\ s \in Seq(CurveItems) /\ s[k] \in CurveItems /\ k \in DOMAIN s
      /\ \A i, j \in DOMAIN s : s[i].id = s[j].id => i = j
  BY DrawableIs
<1> HIDE DEF s
<1>2. item \in CurveItems /\ item.id = to /\ item.values = s[k].values
  BY <1>1, RelabelledIs
<1> HIDE DEF item
<1>3. /\ curves \in Seq(CurveItems) /\ DOMAIN curves = DOMAIN s
      /\ \A j \in DOMAIN s : curves[j] = IF j = k THEN item ELSE s[j]
  BY <1>1, <1>2, PutIs
<1> HIDE DEF curves
<1>4. Carried(s, item)
  <2>1. CASE Radar!IndexOf(s, to) = 0
    <3>1. \A i \in DOMAIN s : s[i].id # to
      BY <1>1, <2>1, IndexOfNone
    <3>2. QED
      BY <1>2, <3>1 DEF Carried
  <2>2. CASE Radar!IndexOf(s, to) # 0
    <3>1. Radar!IndexOf(s, to) = k
      BY <2>2
    <3>2. s[k].id = to
      BY <1>1, <2>2, <3>1, IndexOfNone
    <3>3. QED
      BY <1>1, <1>2, <3>2 DEF Carried
  <2>3. QED
    BY <2>1, <2>2
<1>5. ASSUME NEW l \in DOMAIN curves PROVE Carried(s, curves[l])
  BY <1>3, <1>4, SameCurveCarried
<1>6. QED
  BY <1>3, <1>5, CarriedCurves DEF s

LEMMA SetCurveLabelRedraws ==
    ASSUME NEW b \in Drawable, NEW k \in DOMAIN b.curves, NEW label \in RadarNames
    PROVE  Radar!SetCurveLabel(b, k, label) \subseteq Redrawn(b)
<1> DEFINE s == b.curves
           item == [s[k] EXCEPT !.label = label]
           curves == [s EXCEPT ![k] = item]
<1>1. s \in Seq(CurveItems) /\ s[k] \in CurveItems /\ k \in DOMAIN s
  BY DrawableIs
<1>2. Radar!SetCurveLabel(b, k, label) = Radar!Checked(Recurved(b, curves))
  BY DrawableIs DEF Radar!SetCurveLabel, Recurved, Charts
<1>3. item \in CurveItems /\ item.id = s[k].id
  BY <1>1 DEF CurveItems
<1> HIDE DEF s, item
<1>4. /\ curves \in Seq(CurveItems) /\ DOMAIN curves = DOMAIN s
      /\ \A j \in DOMAIN s : curves[j].id = s[j].id
  BY <1>1, <1>3, PutIs
<1> HIDE DEF curves
<1>5. QED
  BY <1>2, <1>4, RedrawnCurves DEF s

LEMMA SetCurveValuesRedraws ==
    ASSUME NEW b \in Drawable, NEW k \in DOMAIN b.curves, NEW values \in Seq(Nat)
    PROVE  Radar!SetCurveValues(b, k, values) \subseteq Redrawn(b)
<1> DEFINE s == b.curves
           item == [s[k] EXCEPT !.values = values]
           curves == [s EXCEPT ![k] = item]
<1>1. s \in Seq(CurveItems) /\ s[k] \in CurveItems /\ k \in DOMAIN s
  BY DrawableIs
<1>2. Radar!SetCurveValues(b, k, values) = Radar!Checked(Recurved(b, curves))
  BY DrawableIs DEF Radar!SetCurveValues, Recurved, Charts
<1>3. item \in CurveItems /\ item.id = s[k].id
  BY <1>1 DEF CurveItems
<1> HIDE DEF s, item
<1>4. /\ curves \in Seq(CurveItems) /\ DOMAIN curves = DOMAIN s
      /\ \A j \in DOMAIN s : curves[j].id = s[j].id
  BY <1>1, <1>3, PutIs
<1> HIDE DEF curves
<1>5. QED
  BY <1>2, <1>4, RedrawnCurves DEF s

LEMMA SetCurveValueRedraws ==
    ASSUME NEW b \in Drawable, NEW k \in DOMAIN b.curves, NEW axis, NEW value \in Nat
    PROVE  Radar!SetCurveValue(b, k, axis, value) \subseteq Redrawn(b)
<1> DEFINE v == b.curves[k].values
           values == [v EXCEPT ![axis] = value]
<1>1. v \in Seq(Nat)
  BY DrawableIs
<1>2. Radar!SetCurveValue(b, k, axis, value) = Radar!SetCurveValues(b, k, values)
  BY DrawableIs DEF Radar!SetCurveValue, Radar!SetCurveValues, Charts, CurveItems
<1> HIDE DEF v
<1>3. values \in Seq(Nat)
  <2>1. CASE axis \in DOMAIN v
    BY <1>1, <2>1, PutIs
  <2>2. CASE axis \notin DOMAIN v
    <3>1. values = v
      BY <1>1, <2>2
    <3>2. QED
      BY <1>1, <3>1
  <2>3. QED
    BY <2>1, <2>2
<1> HIDE DEF values
<1>4. QED
  BY <1>2, <1>3, SetCurveValuesRedraws

LEMMA SetTitleRedraws ==
    ASSUME NEW b \in Drawable, NEW title \in RadarTitles
    PROVE  Radar!SetTitle(b, title) \subseteq Redrawn(b)
<1> DEFINE x == [b EXCEPT !.title = title]
<1>1. b \in Charts(CurveItems)
  BY DrawableIs
<1>2. x \in Charts(CurveItems) /\ x.axes = b.axes /\ x.curves = b.curves
  BY <1>1 DEF Charts
<1>3. Radar!SetTitle(b, title) = Radar!Checked(x)
  BY DEF Radar!SetTitle
<1> HIDE DEF x
<1>4. SameIds(b, x)
  BY <1>2 DEF SameIds
<1>5. QED
  BY <1>2, <1>3, <1>4, CheckedIs

LEMMA SetConfigRedraws ==
    ASSUME NEW b \in Drawable, NEW config, IsConfig(config)
    PROVE  Radar!SetConfig(b, config) \subseteq Redrawn(b)
<1> DEFINE x == Radar!Configured(b, config)
<1>1. b \in Charts(CurveItems)
  BY DrawableIs
<1>2. x \in Charts(CurveItems) /\ x.axes = b.axes /\ x.curves = b.curves
  BY <1>1, ConfiguredIs
<1>3. Radar!SetConfig(b, config) \subseteq Radar!Checked(x)
  BY DEF Radar!SetConfig
<1> HIDE DEF x
<1>4. SameIds(b, x)
  BY <1>2 DEF SameIds
<1>5. QED
  BY <1>2, <1>3, <1>4, CheckedIs

RadarInv == body \in Drawable /\ published \in Drawable

\* An accepted operation redraws the working copy and nothing else.
LEMMA CommitRedraws ==
    ASSUME NEW results, results \subseteq Redrawn(body), Radar!Core!Commit(results)
    PROVE  body' \in Redrawn(body) /\ UNCHANGED published
BY DEF Radar!Core!Commit

\* What the arguments of the operations may be.
LEMMA RadarArguments ==
    ASSUME RadarInv
    PROVE  /\ radar.ids \subseteq RadarNames
           /\ \A k \in DOMAIN body.axes : Radar!LabelsFor(body.axes[k]) \subseteq RadarNames
           /\ \A k \in DOMAIN body.curves : Radar!LabelsFor(body.curves[k]) \subseteq RadarNames
           /\ radar.titles \union {None} \subseteq RadarTitles
           /\ radar.values \subseteq Nat /\ radar.values \union {body.min} \subseteq Nat
           /\ \A config \in radar.configs : IsConfig(config)
           /\ Radar!Vectors \subseteq Seq(Nat)
<1>1. \A k \in DOMAIN body.axes : body.axes[k].id \in RadarNames
  <2>1. body.axes \in Seq(AxisItems)
    BY DrawableIs DEF RadarInv
  <2>2. \A item \in AxisItems : item.id \in RadarNames
    BY DEF AxisItems
  <2>3. QED
    BY <2>1, <2>2
<1>2. \A k \in DOMAIN body.curves : body.curves[k].id \in RadarNames
  BY DrawableIs DEF RadarInv, CurveItems
<1>3. radar.values \subseteq Nat /\ body.min \in Nat
  BY RadarSources DEF RadarInv, Drawable, Charts
<1>4. \A config \in radar.configs : IsConfig(config)
  BY ConfigsAre DEF RadarConfigs
<1>5. Radar!Vectors \subseteq Seq(Nat)
  <2>1. Radar!Vectors \subseteq [DOMAIN body.axes -> Nat]
    BY <1>3 DEF Radar!Vectors, Radar!Axes
  <2>2. QED
    BY <2>1, VectorIs DEF RadarInv
<1>6. QED
  BY <1>1, <1>2, <1>3, <1>4, <1>5 DEF RadarNames, RadarTitles, Radar!LabelsFor

RadarAxisOperation ==
    \/ Radar!add_axis \/ Radar!remove_axis \/ Radar!rename_axis \/ Radar!set_axis_label
    \/ Radar!reorder_axis
RadarCurveOperation ==
    \/ Radar!add_curve \/ Radar!remove_curve \/ Radar!rename_curve \/ Radar!set_curve_label
    \/ Radar!reorder_curve \/ Radar!set_curve_values \/ Radar!set_curve_value
RadarOperation ==
    \/ Radar!set_title \/ Radar!set_config \/ RadarAxisOperation \/ RadarCurveOperation

LEMMA AxisOperationsRedraw ==
    ASSUME RadarInv, RadarAxisOperation
    PROVE  body' \in Redrawn(body) /\ UNCHANGED published
<1>0. body \in Drawable
  BY DEF RadarInv
<1>1. CASE Radar!add_axis
  <2>1. PICK id \in radar.ids, at \in 1 .. Len(body.axes) + 1, fill \in radar.values \union {body.min} :
          Radar!Core!Commit(Radar!AddAxis(body, id, at, fill))
    BY <1>1 DEF Radar!add_axis, Radar!Slots
  <2>2. id \in RadarNames /\ fill \in Nat
    BY RadarArguments
  <2>3. Radar!AddAxis(body, id, at, fill) \subseteq Redrawn(body)
    BY <1>0, <2>2, AddAxisRedraws
  <2>4. QED
    BY <2>1, <2>3, CommitRedraws
<1>2. CASE Radar!remove_axis
  <2>1. PICK k \in DOMAIN body.axes : Radar!Core!Commit(Radar!RemoveAxis(body, k))
    BY <1>2 DEF Radar!remove_axis, Radar!Axes
  <2>2. Radar!RemoveAxis(body, k) \subseteq Redrawn(body)
    BY <1>0, RemoveAxisRedraws
  <2>3. QED
    BY <2>1, <2>2, CommitRedraws
<1>3. CASE Radar!rename_axis
  <2>1. PICK k \in DOMAIN body.axes, to \in radar.ids : Radar!Core!Commit(Radar!RenameAxis(body, k, to))
    BY <1>3 DEF Radar!rename_axis, Radar!Axes
  <2>2. to \in RadarNames
    BY RadarArguments
  <2>3. Radar!RenameAxis(body, k, to) \subseteq Redrawn(body)
    BY <1>0, <2>2, RenameAxisRedraws
  <2>4. QED
    BY <2>1, <2>3, CommitRedraws
<1>4. CASE Radar!set_axis_label
  <2>1. PICK k \in DOMAIN body.axes : \E label \in Radar!LabelsFor(body.axes[k]) :
          Radar!Core!Commit(Radar!SetAxisLabel(body, k, label))
    BY <1>4 DEF Radar!set_axis_label, Radar!Axes
  <2>2. PICK label \in Radar!LabelsFor(body.axes[k]) :
          Radar!Core!Commit(Radar!SetAxisLabel(body, k, label))
    BY <2>1
  <2>3. label \in RadarNames
    BY RadarArguments
  <2>4. Radar!SetAxisLabel(body, k, label) \subseteq Redrawn(body)
    BY <1>0, <2>3, SetAxisLabelRedraws
  <2>5. QED
    BY <2>2, <2>4, CommitRedraws
<1>5. CASE Radar!reorder_axis
  <2>1. PICK from, to \in DOMAIN body.axes : Radar!Core!Commit(Radar!ReorderAxis(body, from, to))
    BY <1>5 DEF Radar!reorder_axis, Radar!Axes
  <2>2. Radar!ReorderAxis(body, from, to) \subseteq Redrawn(body)
    BY <1>0, ReorderAxisRedraws
  <2>3. QED
    BY <2>1, <2>2, CommitRedraws
<1>6. QED
  BY <1>1, <1>2, <1>3, <1>4, <1>5 DEF RadarAxisOperation

LEMMA CurveOperationsRedraw ==
    ASSUME RadarInv, RadarCurveOperation
    PROVE  body' \in Redrawn(body) /\ UNCHANGED published
<1>0. body \in Drawable
  BY DEF RadarInv
<1>1. CASE Radar!add_curve
  <2>1. PICK id \in radar.ids, at \in 1 .. Len(body.curves) + 1, values \in Radar!Vectors :
          Radar!Core!Commit(Radar!AddCurve(body, id, at, values))
    BY <1>1 DEF Radar!add_curve, Radar!Slots
  <2>2. id \in RadarNames /\ values \in Seq(Nat)
    BY RadarArguments
  <2>3. Radar!AddCurve(body, id, at, values) \subseteq Redrawn(body)
    BY <1>0, <2>2, AddCurveRedraws
  <2>4. QED
    BY <2>1, <2>3, CommitRedraws
<1>2. CASE Radar!remove_curve
  <2>1. PICK k \in DOMAIN body.curves : Radar!Core!Commit(Radar!RemoveCurve(body, k))
    BY <1>2 DEF Radar!remove_curve, Radar!Curves
  <2>2. Radar!RemoveCurve(body, k) \subseteq Redrawn(body)
    BY <1>0, RemoveCurveRedraws
  <2>3. QED
    BY <2>1, <2>2, CommitRedraws
<1>3. CASE Radar!rename_curve
  <2>1. PICK k \in DOMAIN body.curves, to \in radar.ids :
          Radar!Core!Commit(Radar!RenameCurve(body, k, to))
    BY <1>3 DEF Radar!rename_curve, Radar!Curves
  <2>2. to \in RadarNames
    BY RadarArguments
  <2>3. Radar!RenameCurve(body, k, to) \subseteq Redrawn(body)
    BY <1>0, <2>2, RenameCurveRedraws
  <2>4. QED
    BY <2>1, <2>3, CommitRedraws
<1>4. CASE Radar!set_curve_label
  <2>1. PICK k \in DOMAIN body.curves : \E label \in Radar!LabelsFor(body.curves[k]) :
          Radar!Core!Commit(Radar!SetCurveLabel(body, k, label))
    BY <1>4 DEF Radar!set_curve_label, Radar!Curves
  <2>2. PICK label \in Radar!LabelsFor(body.curves[k]) :
          Radar!Core!Commit(Radar!SetCurveLabel(body, k, label))
    BY <2>1
  <2>3. label \in RadarNames
    BY RadarArguments
  <2>4. Radar!SetCurveLabel(body, k, label) \subseteq Redrawn(body)
    BY <1>0, <2>3, SetCurveLabelRedraws
  <2>5. QED
    BY <2>2, <2>4, CommitRedraws
<1>5. CASE Radar!reorder_curve
  <2>1. PICK from, to \in DOMAIN body.curves : Radar!Core!Commit(Radar!ReorderCurve(body, from, to))
    BY <1>5 DEF Radar!reorder_curve, Radar!Curves
  <2>2. Radar!ReorderCurve(body, from, to) \subseteq Redrawn(body)
    BY <1>0, ReorderCurveRedraws
  <2>3. QED
    BY <2>1, <2>2, CommitRedraws
<1>6. CASE Radar!set_curve_values
  <2>1. PICK k \in DOMAIN body.curves, values \in Radar!Vectors :
          Radar!Core!Commit(Radar!SetCurveValues(body, k, values))
    BY <1>6 DEF Radar!set_curve_values, Radar!Curves
  <2>2. values \in Seq(Nat)
    BY RadarArguments
  <2>3. Radar!SetCurveValues(body, k, values) \subseteq Redrawn(body)
    BY <1>0, <2>2, SetCurveValuesRedraws
  <2>4. QED
    BY <2>1, <2>3, CommitRedraws
<1>7. CASE Radar!set_curve_value
  <2>1. PICK k \in DOMAIN body.curves, axis \in Radar!Axes, value \in radar.values :
          Radar!Core!Commit(Radar!SetCurveValue(body, k, axis, value))
    BY <1>7 DEF Radar!set_curve_value, Radar!Curves
  <2>2. value \in Nat
    BY RadarArguments
  <2>3. Radar!SetCurveValue(body, k, axis, value) \subseteq Redrawn(body)
    BY <1>0, <2>2, SetCurveValueRedraws
  <2>4. QED
    BY <2>1, <2>3, CommitRedraws
<1>8. QED
  BY <1>1, <1>2, <1>3, <1>4, <1>5, <1>6, <1>7 DEF RadarCurveOperation

LEMMA RadarOperationsRedraw ==
    ASSUME RadarInv, RadarOperation
    PROVE  body' \in Redrawn(body) /\ UNCHANGED published
<1>0. body \in Drawable
  BY DEF RadarInv
<1>1. CASE Radar!set_title
  <2>1. PICK title \in radar.titles \union {None} : Radar!Core!Commit(Radar!SetTitle(body, title))
    BY <1>1 DEF Radar!set_title
  <2>2. title \in RadarTitles
    BY RadarArguments
  <2>3. Radar!SetTitle(body, title) \subseteq Redrawn(body)
    BY <1>0, <2>2, SetTitleRedraws
  <2>4. QED
    BY <2>1, <2>3, CommitRedraws
<1>2. CASE Radar!set_config
  <2>1. PICK config \in radar.configs : Radar!Core!Commit(Radar!SetConfig(body, config))
    BY <1>2 DEF Radar!set_config
  <2>2. IsConfig(config)
    BY RadarArguments
  <2>3. Radar!SetConfig(body, config) \subseteq Redrawn(body)
    BY <1>0, <2>2, SetConfigRedraws
  <2>4. QED
    BY <2>1, <2>3, CommitRedraws
<1>3. QED
  BY <1>1, <1>2, AxisOperationsRedraw, CurveOperationsRedraw DEF RadarOperation

(***************************************************************************)
(* Radar charts: the text of a chart, read again.                          *)
(***************************************************************************)
OptionLines(b) ==
    {[kind |-> "option", config |-> [f \in {field} |-> b[f]]] : field \in {"min", "max", "look"}}
DrawnLines(b) ==
    [kind : {"title"}, title : RadarTitles] \union [kind : {"axis"}, axes : Seq(AxisItems)]
    \union [kind : {"curve"}, curve : WrittenCurves] \union OptionLines(b)

LEMMA DrawnLinesAre ==
    ASSUME NEW b \in Charts(CurveItems), NEW line \in DrawnLines(b)
    PROVE  IsLine(line)
<1>1. CASE line \in OptionLines(b)
  <2>1. PICK field \in {"min", "max", "look"} :
          line = [kind |-> "option", config |-> [f \in {field} |-> b[f]]]
    BY <1>1 DEF OptionLines
  <2>2. IsConfig([f \in {field} |-> b[f]])
    BY DEF IsConfig, Charts
  <2>3. QED
    BY <2>1, <2>2 DEF IsLine
<1>2. QED
  BY <1>1 DEF DrawnLines, IsLine

LEMMA OptionIs ==
    ASSUME NEW b, NEW field \in {"min", "max", "look"}
    PROVE  Radar!Option(b, field) \in Seq(DrawnLines(b))
<1> DEFINE line == [kind |-> "option", config |-> [f \in {field} |-> b[f]]]
<1>1. line \in DrawnLines(b)
  BY DEF DrawnLines, OptionLines
<1>2. Radar!Option(b, field) = <<>> \/ Radar!Option(b, field) = <<line>>
  BY DEF Radar!Option
<1> HIDE DEF line
<1>3. <<>> \in Seq(DrawnLines(b)) /\ <<line>> \in Seq(DrawnLines(b))
  BY <1>1
<1>4. QED
  BY <1>2, <1>3

TitleText(b) == IF b.title = None THEN <<>> ELSE <<[kind |-> "title", title |-> b.title]>>
AxisText(b) == IF b.axes = <<>> THEN <<>> ELSE <<[kind |-> "axis", axes |-> b.axes]>>
CurveText(b) == [k \in DOMAIN b.curves |-> Radar!CurveLine(b.curves[k])]

LEMMA TextIs ==
    ASSUME NEW b \in Charts(CurveItems)
    PROVE  /\ TitleText(b) \in Seq(DrawnLines(b)) /\ AxisText(b) \in Seq(DrawnLines(b))
           /\ CurveText(b) \in Seq(DrawnLines(b)) /\ Len(CurveText(b)) = Len(b.curves)
<1>1. TitleText(b) \in Seq(DrawnLines(b))
  <2> DEFINE line == [kind |-> "title", title |-> b.title]
  <2>1. line \in DrawnLines(b)
    BY DEF DrawnLines, Charts
  <2>2. TitleText(b) = <<>> \/ TitleText(b) = <<line>>
    BY DEF TitleText
  <2> HIDE DEF line
  <2>3. <<>> \in Seq(DrawnLines(b)) /\ <<line>> \in Seq(DrawnLines(b))
    BY <2>1
  <2>4. QED
    BY <2>2, <2>3
<1>2. AxisText(b) \in Seq(DrawnLines(b))
  <2> DEFINE line == [kind |-> "axis", axes |-> b.axes]
  <2>1. line \in DrawnLines(b)
    BY DEF DrawnLines, Charts
  <2>2. AxisText(b) = <<>> \/ AxisText(b) = <<line>>
    BY DEF AxisText
  <2> HIDE DEF line
  <2>3. <<>> \in Seq(DrawnLines(b)) /\ <<line>> \in Seq(DrawnLines(b))
    BY <2>1
  <2>4. QED
    BY <2>2, <2>3
<1>3. CurveText(b) \in Seq(DrawnLines(b)) /\ Len(CurveText(b)) = Len(b.curves)
  <2> DEFINE text == CurveText(b)
             n == Len(b.curves)
  <2>1. n \in Nat /\ DOMAIN b.curves = 1 .. n /\ \A k \in 1 .. n : b.curves[k] \in CurveItems
    BY DEF Charts
  <2>2. ASSUME NEW k \in 1 .. n PROVE text[k] \in DrawnLines(b)
    <3>1. text[k] = Radar!CurveLine(b.curves[k])
      BY <2>1 DEF CurveText
    <3>2. <<>> \in Seq(RadarEntries)
      OBVIOUS
    <3>3. Radar!CurveLine(b.curves[k]) \in [kind : {"curve"}, curve : WrittenCurves]
      BY <2>1, <3>2 DEF Radar!CurveLine, WrittenCurves, CurveItems
    <3>4. QED
      BY <3>1, <3>3 DEF DrawnLines
  <2>3. text = [k \in 1 .. n |-> text[k]]
    BY <2>1 DEF CurveText
  <2> HIDE DEF text
  <2>4. text \in Seq(DrawnLines(b)) /\ Len(text) = n
    BY <2>1, <2>2, <2>3, SequenceIs
  <2>5. QED
    BY <2>4 DEF text
<1>4. QED
  BY <1>1, <1>2, <1>3

LEMMA RenderIs ==
    ASSUME NEW b \in Charts(CurveItems)
    PROVE  Radar!Render(b) \in Seq(DrawnLines(b))
<1> DEFINE L == DrawnLines(b)
<1>1. Radar!Render(b) = TitleText(b) \o AxisText(b) \o CurveText(b)
          \o Radar!Option(b, "min") \o Radar!Option(b, "max") \o Radar!Option(b, "look")
  BY DEF Radar!Render, TitleText, AxisText, CurveText
<1>2. /\ TitleText(b) \in Seq(L) /\ AxisText(b) \in Seq(L) /\ CurveText(b) \in Seq(L)
      /\ Radar!Option(b, "min") \in Seq(L) /\ Radar!Option(b, "max") \in Seq(L)
      /\ Radar!Option(b, "look") \in Seq(L)
  BY TextIs, OptionIs
<1> HIDE DEF L
<1>3. QED
  BY <1>1, <1>2 DEF L

LEMMA ReparseIs ==
    ASSUME NEW b \in Drawable, NEW c \in Radar!Reparse(b)
    PROVE  c \in Drawable
<1>1. b \in Charts(CurveItems) /\ Radar!Render(b) \in Seq(DrawnLines(b))
  BY DrawableIs, RenderIs
<1>2. \A line \in DrawnLines(b) : IsLine(line)
  BY <1>1, DrawnLinesAre
<1>3. QED
  BY <1>1, <1>2, RadarParseIs DEF Radar!Reparse

LEMMA RadarInit ==
    ASSUME Radar!Init
    PROVE  RadarInv
<1>1. /\ published \in {Radar!Blank} \union UNION {Radar!Parse(source) : source \in radar.sources}
      /\ body = published
  BY DEF Radar!Init, Radar!Core!Begin
<1>2. CASE published = Radar!Blank
  <2>1. Radar!Blank.max = {}
    BY DEF Radar!Blank
  <2>2. ~Radar!Problem(Radar!Blank)
    BY <2>1, BlankIs DEF Radar!Problem, Radar!EmptyDiagram, Radar!IsInjective, Radar!IdsOf, Radar!ToSet
  <2>3. QED
    BY <1>1, <1>2, <2>2, BlankIs DEF RadarInv, Drawable
<1>3. CASE published # Radar!Blank
  <2>1. PICK source \in radar.sources : published \in Radar!Parse(source)
    BY <1>1, <1>3
  <2>2. ToSet(source) \subseteq RadarLines
    BY DEF RadarLines
  <2>3. source \in Seq(RadarLines)
    BY <2>2, RadarSources
  <2>4. published \in Drawable
    BY <2>1, <2>3, AuthoredLines, RadarParseIs
  <2>5. QED
    BY <1>1, <2>4 DEF RadarInv
<1>4. QED
  BY <1>2, <1>3

LEMMA RadarStep ==
    ASSUME RadarInv, Radar!Next \/ UNCHANGED <<published, body>>
    PROVE  RadarInv'
<1>1. CASE UNCHANGED <<published, body>>
  BY <1>1 DEF RadarInv
<1>2. CASE Radar!Next
  <2>1. CASE RadarOperation
    BY <2>1, RadarOperationsRedraw DEF RadarInv, Redrawn
  <2>2. CASE Radar!Core!Refuse
    BY <2>2 DEF RadarInv, Radar!Core!Refuse
  <2>3. CASE Radar!Core!Publish
    <3>1. \/ body' = published /\ published' = published
          \/ \E b \in Radar!Reparse(body) : published' = b /\ body' = b
      BY <2>3 DEF Radar!Core!Publish
    <3>2. \A b \in Radar!Reparse(body) : b \in Drawable
      BY ReparseIs DEF RadarInv
    <3>3. QED
      BY <3>1, <3>2 DEF RadarInv
  <2>4. QED
    BY <1>2, <2>1, <2>2, <2>3
       DEF Radar!Next, RadarOperation, RadarAxisOperation, RadarCurveOperation
<1>3. QED
  BY <1>1, <1>2

(***************************************************************************)
(* Radar charts: a scale that every value can be drawn on.                 *)
(***************************************************************************)
\* A finite set of numbers that is not empty has a greatest one.
LEMMA FiniteGreatest ==
    ASSUME NEW S \in SUBSET Nat, IsFiniteSet(S), S # {}
    PROVE  \E m \in S : \A x \in S : m >= x
<1> DEFINE Above(x) == {y \in S : y > x}
           F == {Above(x) : x \in S}
<1>1. F \subseteq SUBSET S /\ F # {}
  OBVIOUS
<1>2. PICK U \in F : \A T \in F : T \subseteq U => T = U
  <2> DEFINE V == S
  <2>1. IsFiniteSet(V) /\ F \subseteq SUBSET V /\ F # {}
    BY <1>1
  <2> HIDE DEF F, V
  <2>2. QED
    BY <2>1, SmallestSubset
<1>3. PICK m \in S : U = Above(m)
  OBVIOUS
<1>4. ASSUME NEW x \in S PROVE m >= x
  <2>1. SUFFICES ASSUME ~(m >= x) PROVE FALSE
    OBVIOUS
  <2>2. m \in Nat /\ x \in Nat /\ x > m
    BY <2>1
  <2>3. Above(x) \subseteq Above(m)
    <3>1. ASSUME NEW y \in S, y > x PROVE y > m
      <4>1. y \in Nat
        OBVIOUS
      <4>2. QED
        BY <2>2, <3>1, <4>1
    <3>2. QED
      BY <3>1
  <2>4. x \in Above(m) /\ x \notin Above(x) /\ Above(x) \in F
    BY <2>2
  <2>5. Above(x) = Above(m)
    BY <1>2, <1>3, <2>3, <2>4
  <2>6. QED
    BY <2>4, <2>5
<1>5. QED
  BY <1>4

LEMMA EntriesFinite ==
    ASSUME NEW L, NEW s \in Seq(L)
    PROVE  IsFiniteSet(Radar!ToSet(s)) /\ Radar!ToSet(s) \subseteq L
<1>1. IsFiniteSet(1 .. Len(s))
  BY FS_Interval
<1>2. DOMAIN s = 1 .. Len(s) /\ \A k \in 1 .. Len(s) : s[k] \in L
  OBVIOUS
<1>3. Radar!ToSet(s) = {s[k] : k \in 1 .. Len(s)} /\ Radar!ToSet(s) \subseteq L
  BY <1>2 DEF Radar!ToSet
<1>4. [k \in 1 .. Len(s) |-> s[k]] \in Surjection(1 .. Len(s), Radar!ToSet(s))
  BY <1>3 DEF Surjection
<1>5. QED
  BY <1>1, <1>3, <1>4, FS_Surjection

LEMMA ValuesFinite ==
    ASSUME NEW b \in Charts(CurveItems)
    PROVE  IsFiniteSet(Radar!AllValues(b)) /\ Radar!AllValues(b) \subseteq Nat
<1> DEFINE Sets == {Radar!ToSet(curve.values) : curve \in Radar!ToSet(b.curves)}
           n == Len(b.curves)
           sets == [k \in 1 .. n |-> Radar!ToSet(b.curves[k].values)]
<1>1. n \in Nat /\ DOMAIN b.curves = 1 .. n /\ \A k \in 1 .. n : b.curves[k] \in CurveItems
  BY DEF Charts
<1>2. Radar!ToSet(b.curves) = {b.curves[k] : k \in 1 .. n}
  BY <1>1 DEF Radar!ToSet
<1>3. sets \in Surjection(1 .. n, Sets)
  BY <1>2 DEF Surjection
<1>4. IsFiniteSet(Sets)
  <2>1. IsFiniteSet(1 .. n)
    BY <1>1, FS_Interval
  <2> HIDE DEF sets, Sets, n
  <2>2. QED
    BY <1>3, <2>1, FS_Surjection
<1>5. \A S \in Sets : IsFiniteSet(S) /\ S \subseteq Nat
  <2>1. \A k \in 1 .. n : b.curves[k].values \in Seq(Nat)
    BY <1>1 DEF CurveItems
  <2>2. QED
    BY <1>2, <2>1, EntriesFinite
<1> HIDE DEF Sets
<1>6. IsFiniteSet(UNION Sets)
  BY <1>4, <1>5, FS_UNION
<1>7. Radar!AllValues(b) = UNION Sets
  BY DEF Radar!AllValues, Sets
<1>8. QED
  BY <1>5, <1>6, <1>7

LEMMA MaxIs ==
    ASSUME NEW S \in SUBSET Nat, IsFiniteSet(S), S # {}
    PROVE  Radar!Max(S) \in S
<1>1. \E m \in S : \A x \in S : m >= x
  BY FiniteGreatest
<1>2. QED
  BY <1>1 DEF Radar!Max

LEMMA TopIs ==
    ASSUME NEW b \in Charts(CurveItems)
    PROVE  Radar!Top(b) \in Nat
<1>1. CASE b.max # {}
  <2>1. b.max \in Maxima
    BY DEF Charts
  <2>2. PICK n \in Nat : b.max = {n}
    BY <1>1, <2>1 DEF Maxima
  <2>3. IsFiniteSet({n})
    BY FS_Singleton
  <2>4. Radar!Max(b.max) \in Nat
    BY <2>2, <2>3, MaxIs
  <2>5. QED
    BY <1>1, <2>4 DEF Radar!Top
<1>2. CASE b.max = {} /\ Radar!AllValues(b) = {}
  BY <1>2 DEF Radar!Top
<1>3. CASE b.max = {} /\ Radar!AllValues(b) # {}
  <2>1. Radar!Max(Radar!AllValues(b)) \in Nat
    BY <1>3, ValuesFinite, MaxIs
  <2>2. QED
    BY <1>3, <2>1 DEF Radar!Top
<1>4. QED
  BY <1>1, <1>2, <1>3

\* A body is only accepted with one value per axis on every curve and a scale
\* that is not degenerate (radar-body.ts checks the whole body at the end of
\* every operation): whatever is added, removed, moved and renamed keeps it so.
LEMMA ChartsAreDrawn ==
    ASSUME RadarInv
    PROVE  Radar!ReferencesResolve
<1>1. body \in Charts(CurveItems) /\ ~Radar!Problem(body)
  BY DEF RadarInv, Drawable
<1>2. Radar!Top(body) \in Nat /\ body.min \in Nat
  BY <1>1, TopIs DEF Charts
<1>3. body.axes # <<>> => ~(Radar!Top(body) <= body.min)
  BY <1>1 DEF Radar!Problem, Radar!Degenerate, Radar!EmptyDiagram
<1>4. body.axes # <<>> => Radar!Top(body) > body.min
  BY <1>2, <1>3
<1>5. /\ \A curve \in Radar!ToSet(body.curves) : Len(curve.values) = Len(body.axes)
      /\ Radar!IsInjective(Radar!IdsOf(body.axes)) /\ Radar!IsInjective(Radar!IdsOf(body.curves))
  BY <1>1 DEF Radar!Problem
<1>6. QED
  BY <1>4, <1>5 DEF Radar!ReferencesResolve

LEMMA ValueOfIs ==
    ASSUME NEW b \in Drawable, NEW k \in DOMAIN b.curves, NEW i \in DOMAIN b.axes
    PROVE  Radar!ValueOf(b, b.curves[k].id, b.axes[i].id) = b.curves[k].values[i]
<1>1. Radar!IndexOf(b.curves, b.curves[k].id) = k
  <2> DEFINE s == b.curves
  <2>1. /\ Len(s) \in Nat /\ DOMAIN s = 1 .. Len(s) /\ k \in DOMAIN s
        /\ \A i_1, j_1 \in DOMAIN s : s[i_1].id = s[j_1].id => i_1 = j_1
    BY DrawableIs
  <2> HIDE DEF s
  <2>2. Radar!IndexOf(s, s[k].id) = k
    BY <2>1, IndexOfIs
  <2>3. QED
    BY <2>2 DEF s
<1>2. Radar!IndexOf(b.axes, b.axes[i].id) = i
  <2> DEFINE s == b.axes
  <2>1. /\ Len(s) \in Nat /\ DOMAIN s = 1 .. Len(s) /\ i \in DOMAIN s
        /\ \A i_1, j_1 \in DOMAIN s : s[i_1].id = s[j_1].id => i_1 = j_1
    BY DrawableIs
  <2> HIDE DEF s
  <2>2. Radar!IndexOf(s, s[i].id) = i
    BY <2>1, IndexOfIs
  <2>3. QED
    BY <2>2 DEF s
<1>3. QED
  BY <1>1, <1>2 DEF Radar!ValueOf

\* An id of a list is the id of one of its items.
LEMMA IdIs ==
    ASSUME NEW items, NEW id \in Radar!ToSet(Radar!IdsOf(items))
    PROVE  \E k \in DOMAIN items : items[k].id = id
BY DEF Radar!ToSet, Radar!IdsOf

\* Whatever rearranges the axes rearranges the values of every curve with them
\* (the splices of add_axis, remove_axis and reorder_axis in radar-body.ts), and
\* nothing that adds, removes, renames or moves curves touches another curve's.
LEMMA ChartValuesStay ==
    ASSUME RadarInv, Radar!Next
    PROVE  Radar!KeepsValues
<1> SUFFICES ASSUME ops' # ops,
                    <<Radar!IdsOf(body'.axes), Radar!IdsOf(body'.curves)>>
                      # <<Radar!IdsOf(body.axes), Radar!IdsOf(body.curves)>>,
                    NEW curve \in Radar!InBoth(body.curves, body'.curves),
                    NEW axis \in Radar!InBoth(body.axes, body'.axes)
             PROVE  Radar!ValueOf(body', curve, axis) = Radar!ValueOf(body, curve, axis)
  BY DEF Radar!KeepsValues
<1>1. ~Radar!Core!Publish /\ ~Radar!Core!Refuse
  BY DEF Radar!Core!Publish, Radar!Core!Refuse
<1>2. RadarOperation
  BY <1>1 DEF Radar!Next, RadarOperation, RadarAxisOperation, RadarCurveOperation
<1>3. body' \in Redrawn(body)
  BY <1>2, RadarOperationsRedraw
<1>4. body \in Drawable /\ body' \in Drawable /\ ValuesStay(body, body')
  BY <1>3 DEF RadarInv, Redrawn, SameIds
<1>5. PICK k \in DOMAIN body.curves : body.curves[k].id = curve
  BY IdIs DEF Radar!InBoth
<1>6. PICK l \in DOMAIN body'.curves : body'.curves[l].id = curve
  BY IdIs DEF Radar!InBoth
<1>7. PICK i \in DOMAIN body.axes : body.axes[i].id = axis
  BY IdIs DEF Radar!InBoth
<1>8. PICK j \in DOMAIN body'.axes : body'.axes[j].id = axis
  BY IdIs DEF Radar!InBoth
<1>9. body'.curves[l].values[j] = body.curves[k].values[i]
  BY <1>4, <1>5, <1>6, <1>7, <1>8 DEF ValuesStay
<1>10. Radar!ValueOf(body, curve, axis) = body.curves[k].values[i]
  BY <1>4, <1>5, <1>7, ValueOfIs
<1>11. Radar!ValueOf(body', curve, axis) = body'.curves[l].values[j]
  BY <1>4, <1>6, <1>8, ValueOfIs
<1>12. QED
  BY <1>9, <1>10, <1>11

(***************************************************************************)
(* Radar charts: reading one text after another, and what a chart's own    *)
(* text says.                                                              *)
(***************************************************************************)
\* Whoever takes the parser's steps ends where the parser does.
LEMMA ReadsAs ==
    ASSUME NEW base \in Charts(WrittenCurves),
           NEW L, NEW lines \in Seq(L), \A line \in L : IsLine(line),
           NEW f, f[0] = base, \A i \in 1 .. Len(lines) : f[i] = Radar!ReadLine(f[i - 1], lines[i])
    PROVE  ReadFrom(base, lines) = f[Len(lines)]
<1> DEFINE n == Len(lines)
<1>1. n \in Nat
  OBVIOUS
<1>2. PICK r : Reading(r, base, lines)
  BY RadarReads
<1>3. /\ r[0] = base /\ ReadFrom(base, lines) = r[n]
      /\ \A i \in 1 .. n : r[i] = Radar!ReadLine(r[i - 1], lines[i])
  BY <1>2 DEF Reading
<1> DEFINE Bad == {i \in 0 .. n : r[i] # f[i]}
<1>4. Bad = {}
  <2>1. SUFFICES ASSUME Bad # {} PROVE FALSE
    OBVIOUS
  <2>2. PICK m \in Bad : \A k \in Bad : m <= k
    <3>1. Bad \subseteq 0 .. n
      OBVIOUS
    <3> HIDE DEF Bad
    <3>2. QED
      BY <1>1, <2>1, <3>1, SmallestNumber
  <2>3. m \in 0 .. n /\ r[m] # f[m]
    OBVIOUS
  <2>4. m # 0
    BY <1>3, <2>3
  <2>5. m \in 1 .. n /\ m - 1 \in 0 .. n /\ ~(m <= m - 1)
    BY <1>1, <2>3, <2>4
  <2>6. r[m - 1] = f[m - 1]
    BY <2>2, <2>5
  <2>7. r[m] = f[m]
    BY <1>3, <2>5, <2>6
  <2>8. QED
    BY <2>3, <2>7
<1>5. n \in 0 .. n
  BY <1>1
<1>6. QED
  BY <1>3, <1>4, <1>5

LEMMA ReadNothing ==
    ASSUME NEW base \in Charts(WrittenCurves)
    PROVE  ReadFrom(base, <<>>) = base
<1> DEFINE L == {}
           lines == <<>>
           f == [i \in {0} |-> base]
<1>1. lines \in Seq(L) /\ Len(lines) = 0 /\ f[0] = base /\ \A l \in L : IsLine(l)
  OBVIOUS
<1> HIDE DEF f, L, lines
<1>2. \A i \in 1 .. Len(lines) : f[i] = Radar!ReadLine(f[i - 1], lines[i])
  BY <1>1
<1>3. ReadFrom(base, lines) = f[Len(lines)]
  BY <1>1, <1>2, ReadsAs
<1>4. QED
  BY <1>1, <1>3 DEF lines

LEMMA ReadOne ==
    ASSUME NEW base \in Charts(WrittenCurves), NEW line, IsLine(line)
    PROVE  ReadFrom(base, <<line>>) = Radar!ReadLine(base, line)
<1> DEFINE L == {line}
           lines == <<line>>
           f == [i \in 0 .. 1 |-> IF i = 0 THEN base ELSE Radar!ReadLine(base, line)]
<1>1. /\ lines \in Seq(L) /\ Len(lines) = 1 /\ lines[1] = line /\ f[0] = base
      /\ f[1] = Radar!ReadLine(base, line) /\ \A l \in L : IsLine(l)
  OBVIOUS
<1> HIDE DEF f, L, lines
<1>2. \A i \in 1 .. Len(lines) : i = 1 /\ i - 1 = 0
  BY <1>1
<1>3. \A i \in 1 .. Len(lines) : f[i] = Radar!ReadLine(f[i - 1], lines[i])
  BY <1>1, <1>2
<1>4. ReadFrom(base, lines) = f[Len(lines)]
  BY <1>1, <1>3, ReadsAs
<1>5. QED
  BY <1>1, <1>4 DEF lines

LEMMA ReadConcat ==
    ASSUME NEW base \in Charts(WrittenCurves),
           NEW L, NEW s \in Seq(L), NEW t \in Seq(L), \A line \in L : IsLine(line)
    PROVE  ReadFrom(base, s \o t) = ReadFrom(ReadFrom(base, s), t)
<1> DEFINE lines == s \o t
           m == Len(s)
           n == Len(t)
<1>1. PICK r : Reading(r, base, s)
  BY RadarReads
<1>2. ReadFrom(base, s) \in Charts(WrittenCurves)
  BY ReadFromIs
<1>3. PICK q : Reading(q, ReadFrom(base, s), t)
  BY <1>2, RadarReads
<1> DEFINE f == [i \in 0 .. m + n |-> IF i <= m THEN r[i] ELSE q[i - m]]
<1>4. /\ r[0] = base /\ r[m] = ReadFrom(base, s)
      /\ \A i \in 1 .. m : r[i] = Radar!ReadLine(r[i - 1], s[i])
  BY <1>1 DEF Reading
<1>5. /\ q[0] = ReadFrom(base, s) /\ q[n] = ReadFrom(ReadFrom(base, s), t)
      /\ \A i \in 1 .. n : q[i] = Radar!ReadLine(q[i - 1], t[i])
  BY <1>3 DEF Reading
<1>6. /\ lines \in Seq(L) /\ Len(lines) = m + n /\ m \in Nat /\ n \in Nat
  BY ConcatIs
<1>7. \A i \in 1 .. m : lines[i] = s[i]
  BY ConcatBefore
<1>8. \A i \in 1 .. n : lines[m + i] = t[i]
  BY ConcatAfter
<1> HIDE DEF lines, m, n
<1>9. \A i \in 0 .. m + n : f[i] = IF i <= m THEN r[i] ELSE q[i - m]
  OBVIOUS
<1> HIDE DEF f
<1>10. ASSUME NEW i \in 1 .. m + n PROVE f[i] = Radar!ReadLine(f[i - 1], lines[i])
  <2>1. CASE i <= m
    <3>1. i \in 1 .. m /\ i \in 0 .. m + n /\ i - 1 \in 0 .. m + n /\ i - 1 <= m
      BY <1>6, <2>1
    <3>2. f[i] = r[i] /\ f[i - 1] = r[i - 1]
      BY <1>9, <2>1, <3>1
    <3>3. QED
      BY <1>4, <1>7, <3>1, <3>2
  <2>2. CASE ~(i <= m)
    <3> DEFINE j == i - m
    <3>1. j \in 1 .. n /\ i = m + j /\ i \in 0 .. m + n /\ i - 1 \in 0 .. m + n
      BY <1>6, <2>2
    <3>2. f[i] = q[j]
      BY <1>9, <2>2, <3>1
    <3>3. f[i - 1] = q[j - 1]
      <4>1. CASE j = 1
        <5>1. i - 1 = m /\ i - 1 <= m /\ j - 1 = 0
          BY <1>6, <3>1, <4>1
        <5>2. f[i - 1] = r[m]
          BY <1>9, <3>1, <5>1
        <5>3. QED
          BY <1>4, <1>5, <5>1, <5>2
      <4>2. CASE j # 1
        <5>1. ~(i - 1 <= m) /\ (i - 1) - m = j - 1
          BY <1>6, <3>1, <4>2
        <5>2. QED
          BY <1>9, <3>1, <5>1
      <4>3. QED
        BY <4>1, <4>2
    <3>4. lines[i] = t[j]
      BY <1>8, <3>1
    <3>5. q[j] = Radar!ReadLine(q[j - 1], t[j])
      BY <1>5, <3>1
    <3>6. QED
      BY <3>2, <3>3, <3>4, <3>5
  <2>3. QED
    BY <2>1, <2>2
<1>11. f[0] = base
  <2>1. 0 \in 0 .. m + n /\ 0 <= m
    BY <1>6
  <2>2. QED
    BY <1>4, <1>9, <2>1
<1>12. f[m + n] = q[n]
  <2>1. m + n \in 0 .. m + n
    BY <1>6
  <2>2. CASE n = 0
    <3>1. m + n = m /\ m <= m
      BY <1>6, <2>2
    <3>2. f[m + n] = r[m]
      BY <1>9, <2>1, <3>1
    <3>3. QED
      BY <1>4, <1>5, <2>2, <3>2
  <2>3. CASE n # 0
    <3>1. ~(m + n <= m) /\ (m + n) - m = n
      BY <1>6, <2>3
    <3>2. QED
      BY <1>9, <2>1, <3>1
  <2>4. QED
    BY <2>2, <2>3
<1>13. \A i \in 1 .. Len(lines) : f[i] = Radar!ReadLine(f[i - 1], lines[i])
  BY <1>6, <1>10
<1>14. ReadFrom(base, lines) = f[Len(lines)]
  BY <1>6, <1>11, <1>13, ReadsAs
<1>15. QED
  BY <1>5, <1>6, <1>12, <1>14 DEF lines

\* A title is written as it is and read without its comment; none is not written.
Cut(title) == IF title # None /\ title \in DOMAIN radar.cutOf THEN radar.cutOf[title] ELSE title
Written(b) == [k \in DOMAIN b.curves |-> Radar!CurveLine(b.curves[k]).curve]

LEMMA ReadTitle ==
    ASSUME NEW base \in Charts(WrittenCurves), base.title = None, NEW b \in Charts(CurveItems)
    PROVE  ReadFrom(base, TitleText(b)) = [base EXCEPT !.title = Cut(b.title)]
<1>1. CASE b.title = None
  <2>1. TitleText(b) = <<>> /\ Cut(b.title) = None
    BY <1>1 DEF TitleText, Cut
  <2>2. [base EXCEPT !.title = None] = base
    BY DEF Charts
  <2>3. QED
    BY <2>1, <2>2, ReadNothing
<1>2. CASE b.title # None
  <2> DEFINE line == [kind |-> "title", title |-> b.title]
  <2>1. TitleText(b) = <<line>>
    BY <1>2 DEF TitleText
  <2>2. IsLine(line)
    BY DEF IsLine, Charts
  <2>3. Radar!ReadLine(base, line) = [base EXCEPT !.title = Cut(b.title)]
    BY <1>2 DEF Radar!ReadLine, Cut
  <2> HIDE DEF line
  <2>4. QED
    BY <2>1, <2>2, <2>3, ReadOne
<1>3. QED
  BY <1>1, <1>2

LEMMA ReadAxes ==
    ASSUME NEW base \in Charts(WrittenCurves), base.axes = <<>>, NEW b \in Charts(CurveItems)
    PROVE  ReadFrom(base, AxisText(b)) = [base EXCEPT !.axes = b.axes]
<1>1. CASE b.axes = <<>>
  <2>1. AxisText(b) = <<>>
    BY <1>1 DEF AxisText
  <2>2. [base EXCEPT !.axes = <<>>] = base
    BY DEF Charts
  <2>3. QED
    BY <1>1, <2>1, <2>2, ReadNothing
<1>2. CASE b.axes # <<>>
  <2> DEFINE line == [kind |-> "axis", axes |-> b.axes]
  <2>1. AxisText(b) = <<line>>
    BY <1>2 DEF AxisText
  <2>2. IsLine(line)
    BY DEF IsLine, Charts
  <2>3. base.axes \o b.axes = b.axes
    <3>1. b.axes \in Seq(AxisItems)
      BY DEF Charts
    <3>2. QED
      BY <3>1
  <2>4. Radar!ReadLine(base, line) = [base EXCEPT !.axes = base.axes \o b.axes]
    BY DEF Radar!ReadLine, Charts
  <2> HIDE DEF line
  <2>5. QED
    BY <2>1, <2>2, <2>3, <2>4, ReadOne
<1>3. QED
  BY <1>1, <1>2

LEMMA WrittenIs ==
    ASSUME NEW b \in Charts(CurveItems)
    PROVE  /\ Written(b) \in Seq(WrittenCurves) /\ Len(Written(b)) = Len(b.curves)
           /\ \A k \in 1 .. Len(b.curves) :
                Written(b)[k] = [id |-> b.curves[k].id, label |-> b.curves[k].label,
                                 values |-> b.curves[k].values, keyed |-> <<>>]
<1> DEFINE w == Written(b)
           n == Len(b.curves)
<1>1. n \in Nat /\ DOMAIN b.curves = 1 .. n /\ \A k \in 1 .. n : b.curves[k] \in CurveItems
  BY DEF Charts
<1>2. \A k \in 1 .. n : w[k] = [id |-> b.curves[k].id, label |-> b.curves[k].label,
                                values |-> b.curves[k].values, keyed |-> <<>>]
  BY <1>1 DEF Written, Radar!CurveLine
<1>3. w = [k \in 1 .. n |-> w[k]]
  BY <1>1 DEF Written
<1> HIDE DEF w
<1>4. \A k \in 1 .. n : w[k] \in WrittenCurves
  <2>1. <<>> \in Seq(RadarEntries)
    OBVIOUS
  <2>2. ASSUME NEW k \in 1 .. n PROVE w[k] \in WrittenCurves
    <3>1. b.curves[k] \in CurveItems
      BY <1>1
    <3>2. w[k] = [id |-> b.curves[k].id, label |-> b.curves[k].label,
                  values |-> b.curves[k].values, keyed |-> <<>>]
      BY <1>2
    <3>3. QED
      BY <2>1, <3>1, <3>2 DEF WrittenCurves, CurveItems
  <2>3. QED
    BY <2>2
<1>5. w \in Seq(WrittenCurves) /\ Len(w) = n
  BY <1>1, <1>3, <1>4, SequenceIs
<1>6. QED
  BY <1>2, <1>5 DEF w

\* The first i elements.
First(s, i) == [k \in 1 .. i |-> s[k]]

LEMMA FirstNext ==
    ASSUME NEW L, NEW s \in Seq(L), NEW i \in 1 .. Len(s)
    PROVE  First(s, i - 1) \in Seq(L) /\ Append(First(s, i - 1), s[i]) = First(s, i)
<1> DEFINE p == First(s, i - 1)
           q == First(s, i)
<1>1. i \in Nat /\ i - 1 \in Nat /\ \A k \in 1 .. i : s[k] \in L
  OBVIOUS
<1>2. p = [k \in 1 .. (i - 1) |-> p[k]] /\ \A k \in 1 .. (i - 1) : p[k] = s[k]
  BY DEF First
<1>3. q = [k \in 1 .. i |-> q[k]] /\ \A k \in 1 .. i : q[k] = s[k]
  BY DEF First
<1> HIDE DEF p, q
<1>4. p \in Seq(L) /\ Len(p) = i - 1
  <2>1. \A k \in 1 .. (i - 1) : p[k] \in L
    BY <1>1, <1>2
  <2> DEFINE n == i - 1
  <2>2. n \in Nat /\ p = [k \in 1 .. n |-> p[k]] /\ \A k \in 1 .. n : p[k] \in L
    BY <1>1, <1>2, <2>1
  <2> HIDE DEF n
  <2>3. p \in Seq(L) /\ Len(p) = n
    BY <2>2, SequenceIs
  <2>4. QED
    BY <2>3 DEF n
<1> DEFINE a == Append(p, s[i])
<1>5. a \in Seq(L) /\ Len(a) = i /\ \A k \in 1 .. i : a[k] = q[k]
  <2>1. s[i] \in L
    OBVIOUS
  <2>2. a \in Seq(L) /\ Len(a) = i
    BY <1>1, <1>4, <2>1
  <2>3. ASSUME NEW k \in 1 .. i PROVE a[k] = q[k]
    <3>1. CASE k = i
      BY <1>1, <1>3, <1>4, <3>1
    <3>2. CASE k # i
      <4>1. k \in 1 .. (i - 1)
        BY <1>1, <3>2
      <4>2. a[k] = p[k]
        BY <1>4, <2>1, <4>1
      <4>3. QED
        BY <1>2, <1>3, <4>1, <4>2
    <3>3. QED
      BY <3>1, <3>2
  <2>4. QED
    BY <2>2, <2>3
<1> HIDE DEF a
<1>6. a = q
  BY <1>1, <1>3, <1>5, SameSequence
<1>7. QED
  BY <1>4, <1>6 DEF a, p, q

LEMMA ReadCurves ==
    ASSUME NEW base \in Charts(WrittenCurves), base.curves = <<>>, NEW b \in Charts(CurveItems)
    PROVE  ReadFrom(base, CurveText(b)) = [base EXCEPT !.curves = Written(b)]
<1> DEFINE w == Written(b)
           n == Len(b.curves)
           text == CurveText(b)
           f == [i \in 0 .. n |-> [base EXCEPT !.curves = First(w, i)]]
<1>1. /\ text \in Seq(DrawnLines(b)) /\ Len(text) = n /\ n \in Nat
      /\ \A line \in DrawnLines(b) : IsLine(line)
  BY TextIs, DrawnLinesAre DEF Charts
<1>2. \A i \in 1 .. n : text[i] = [kind |-> "curve", curve |-> w[i]]
  BY DEF CurveText, Written, Radar!CurveLine, Charts
<1>3. w \in Seq(WrittenCurves) /\ Len(w) = n
  BY WrittenIs
<1> HIDE DEF text, w, n
<1>4. f[0] = base
  <2>1. First(w, 0) = <<>> /\ 0 \in 0 .. n
    BY <1>1 DEF First
  <2>2. [base EXCEPT !.curves = <<>>] = base
    BY DEF Charts
  <2>3. QED
    BY <2>1, <2>2
<1>5. ASSUME NEW i \in 1 .. n PROVE f[i] = Radar!ReadLine(f[i - 1], text[i])
  <2>1. i \in 1 .. Len(w) /\ i \in 0 .. n /\ i - 1 \in 0 .. n
    BY <1>1, <1>3
  <2>2. Append(First(w, i - 1), w[i]) = First(w, i)
    BY <1>3, <2>1, FirstNext
  <2>3. f[i] = [base EXCEPT !.curves = First(w, i)] /\ f[i - 1] = [base EXCEPT !.curves = First(w, i - 1)]
    BY <2>1
  <2> HIDE DEF f
  <2>4. Radar!ReadLine(f[i - 1], text[i]) = [f[i - 1] EXCEPT !.curves = Append(@, w[i])]
    <3>1. text[i] = [kind |-> "curve", curve |-> w[i]]
      BY <1>2
    <3>2. text[i].kind = "curve" /\ text[i].curve = w[i]
      BY ONLY <3>1
    <3>3. QED
      BY <3>2 DEF Radar!ReadLine
  <2>5. [f[i - 1] EXCEPT !.curves = Append(@, w[i])]
        = [base EXCEPT !.curves = Append(First(w, i - 1), w[i])]
    BY <2>3 DEF Charts
  <2>6. QED
    BY <2>2, <2>3, <2>4, <2>5
<1>6. f[n] = [base EXCEPT !.curves = w]
  <2>1. First(w, n) = w
    BY <1>3 DEF First
  <2>2. n \in 0 .. n
    BY <1>1
  <2>3. QED
    BY <2>1, <2>2
<1> HIDE DEF f
<1>7. \A i \in 1 .. Len(text) : f[i] = Radar!ReadLine(f[i - 1], text[i])
  BY <1>1, <1>5
<1>8. ReadFrom(base, text) = f[Len(text)]
  BY <1>1, <1>4, <1>7, ReadsAs
<1>9. QED
  BY <1>1, <1>6, <1>8 DEF text, w

LEMMA ReadOption ==
    ASSUME NEW base \in Charts(WrittenCurves), NEW b \in Charts(CurveItems),
           NEW field \in {"min", "max", "look"}, base[field] = Radar!Blank[field]
    PROVE  ReadFrom(base, Radar!Option(b, field)) = [base EXCEPT ![field] = b[field]]
<1> DEFINE config == [f \in {field} |-> b[f]]
           line == [kind |-> "option", config |-> config]
<1>1. CASE b[field] = Radar!Blank[field]
  <2>1. Radar!Option(b, field) = <<>>
    BY <1>1 DEF Radar!Option
  <2>2. [base EXCEPT ![field] = b[field]] = base
    BY <1>1 DEF Charts
  <2>3. QED
    BY <2>1, <2>2, ReadNothing
<1>2. CASE b[field] # Radar!Blank[field]
  <2>1. Radar!Option(b, field) = <<line>>
    BY <1>2 DEF Radar!Option
  <2>2. line \in DrawnLines(b)
    BY DEF DrawnLines, OptionLines
  <2>3. IsLine(line)
    BY <2>2, DrawnLinesAre
  <2>4. Radar!ReadLine(base, line) = Radar!Configured(base, config)
    BY DEF Radar!ReadLine
  <2>5. Radar!Configured(base, config) = [base EXCEPT ![field] = b[field]]
    BY DEF Radar!Configured, Charts
  <2> HIDE DEF line, config
  <2>6. QED
    BY <2>1, <2>3, <2>4, <2>5, ReadOne
<1>3. QED
  BY <1>1, <1>2

Saying(title, axes, curves, min, max, look) ==
    [title |-> title, axes |-> axes, curves |-> curves, min |-> min, max |-> max, look |-> look]

LEMMA SayingElse ==
    ASSUME NEW title, NEW axes, NEW curves, NEW min, NEW max, NEW look, NEW other
    PROVE  LET s == Saying(title, axes, curves, min, max, look)
           IN  /\ s.title = title /\ s.axes = axes /\ s.curves = curves
               /\ s.min = min /\ s.max = max /\ s.look = look
               /\ [s EXCEPT !.title = other] = Saying(other, axes, curves, min, max, look)
               /\ [s EXCEPT !.axes = other] = Saying(title, other, curves, min, max, look)
               /\ [s EXCEPT !.curves = other] = Saying(title, axes, other, min, max, look)
               /\ [s EXCEPT !.min = other] = Saying(title, axes, curves, other, max, look)
               /\ [s EXCEPT !.max = other] = Saying(title, axes, curves, min, other, look)
               /\ [s EXCEPT !.look = other] = Saying(title, axes, curves, min, max, other)
<1> DEFINE s == Saying(title, axes, curves, min, max, look)
<1>1. /\ s.title = title /\ s.axes = axes /\ s.curves = curves
      /\ s.min = min /\ s.max = max /\ s.look = look
  BY DEF Saying
<1>2. [s EXCEPT !.title = other] = Saying(other, axes, curves, min, max, look)
  BY DEF Saying
<1>3. [s EXCEPT !.axes = other] = Saying(title, other, curves, min, max, look)
  BY DEF Saying
<1>4. [s EXCEPT !.curves = other] = Saying(title, axes, other, min, max, look)
  BY DEF Saying
<1>5. [s EXCEPT !.min = other] = Saying(title, axes, curves, other, max, look)
  BY DEF Saying
<1>6. [s EXCEPT !.max = other] = Saying(title, axes, curves, min, other, look)
  BY DEF Saying
<1>7. [s EXCEPT !.look = other] = Saying(title, axes, curves, min, max, other)
  BY DEF Saying
<1>8. QED
  BY <1>1, <1>2, <1>3, <1>4, <1>5, <1>6, <1>7

LEMMA CutIs ==
    ASSUME NEW title \in RadarTitles
    PROVE  Cut(title) \in RadarTitles /\ Cut(Cut(title)) = Cut(title)
BY RadarSources DEF Cut, RadarTitles

LEMMA SayingIs ==
    ASSUME NEW b \in Charts(CurveItems),
           NEW title \in {None, Cut(b.title)}, NEW axes \in {<<>>, b.axes},
           NEW curves \in {<<>>, Written(b)}, NEW min \in {0, b.min}, NEW max \in {{}, b.max},
           NEW look \in {None, b.look}
    PROVE  Saying(title, axes, curves, min, max, look) \in Charts(WrittenCurves)
<1>1. title \in RadarTitles
  BY CutIs DEF Charts, RadarTitles
<1>2. axes \in Seq(AxisItems)
  <2>1. <<>> \in Seq(AxisItems) /\ b.axes \in Seq(AxisItems)
    BY DEF Charts
  <2>2. QED
    BY <2>1
<1>3. curves \in Seq(WrittenCurves)
  <2>1. <<>> \in Seq(WrittenCurves) /\ Written(b) \in Seq(WrittenCurves)
    BY WrittenIs
  <2>2. QED
    BY <2>1
<1>4. min \in Nat /\ max \in Maxima /\ look \in RadarLooks
  BY DEF Charts, Maxima, RadarLooks
<1>5. QED
  BY <1>1, <1>2, <1>3, <1>4 DEF Saying, Charts

LEMMA RereadIs ==
    ASSUME NEW b \in Charts(CurveItems)
    PROVE  ReadFrom(Radar!Blank, Radar!Render(b))
           = Saying(Cut(b.title), b.axes, Written(b), b.min, b.max, b.look)
<1> DEFINE L == DrawnLines(b)
           t1 == TitleText(b)
           t2 == AxisText(b)
           t3 == CurveText(b)
           t4 == Radar!Option(b, "min")
           t5 == Radar!Option(b, "max")
           t6 == Radar!Option(b, "look")
           title == Cut(b.title)
           curves == Written(b)
           x0 == Saying(None, <<>>, <<>>, 0, {}, None)
           x1 == Saying(title, <<>>, <<>>, 0, {}, None)
           x2 == Saying(title, b.axes, <<>>, 0, {}, None)
           x3 == Saying(title, b.axes, curves, 0, {}, None)
           x4 == Saying(title, b.axes, curves, b.min, {}, None)
           x5 == Saying(title, b.axes, curves, b.min, b.max, None)
           x6 == Saying(title, b.axes, curves, b.min, b.max, b.look)
<1>1. Radar!Render(b) = t1 \o t2 \o t3 \o t4 \o t5 \o t6
  BY DEF Radar!Render, TitleText, AxisText, CurveText
<1>2. /\ t1 \in Seq(L) /\ t2 \in Seq(L) /\ t3 \in Seq(L)
      /\ t4 \in Seq(L) /\ t5 \in Seq(L) /\ t6 \in Seq(L)
  BY TextIs, OptionIs
<1>3. /\ x0 \in Charts(WrittenCurves) /\ x1 \in Charts(WrittenCurves) /\ x2 \in Charts(WrittenCurves)
      /\ x3 \in Charts(WrittenCurves) /\ x4 \in Charts(WrittenCurves) /\ x5 \in Charts(WrittenCurves)
  BY SayingIs
<1>4. \A line \in L : IsLine(line)
  BY DrawnLinesAre
<1>5. Radar!Blank = x0
  BY DEF Radar!Blank, Saying
<1>6. ReadFrom(x0, t1) = x1
  <2>1. x0.title = None /\ [x0 EXCEPT !.title = title] = x1
    <3> HIDE DEF title
    <3>1. x0.title = None
      BY DEF Saying
    <3>2. [x0 EXCEPT !.title = title] = x1
      BY SayingElse
    <3>3. QED
      BY <3>1, <3>2
  <2> HIDE DEF x0, x1, t1
  <2>2. QED
    BY <1>3, <2>1, ReadTitle DEF t1
<1>7. ReadFrom(x1, t2) = x2
  <2>1. x1.axes = <<>> /\ [x1 EXCEPT !.axes = b.axes] = x2
    BY SayingElse
  <2> HIDE DEF x1, x2
  <2>2. QED
    BY <1>3, <2>1, ReadAxes
<1>8. ReadFrom(x2, t3) = x3
  <2>1. x2.curves = <<>> /\ [x2 EXCEPT !.curves = curves] = x3
    BY SayingElse
  <2> HIDE DEF x2, x3
  <2>2. QED
    BY <1>3, <2>1, ReadCurves
<1>9. ReadFrom(x3, t4) = x4
  <2>1. x3["min"] = Radar!Blank["min"] /\ [x3 EXCEPT !["min"] = b["min"]] = x4
    BY SayingElse DEF Radar!Blank
  <2> HIDE DEF x3, x4
  <2>2. QED
    BY <1>3, <2>1, ReadOption
<1>10. ReadFrom(x4, t5) = x5
  <2>1. x4["max"] = Radar!Blank["max"] /\ [x4 EXCEPT !["max"] = b["max"]] = x5
    BY SayingElse DEF Radar!Blank
  <2> HIDE DEF x4, x5
  <2>2. QED
    BY <1>3, <2>1, ReadOption
<1>11. ReadFrom(x5, t6) = x6
  <2>1. x5["look"] = Radar!Blank["look"] /\ [x5 EXCEPT !["look"] = b["look"]] = x6
    BY SayingElse DEF Radar!Blank
  <2> HIDE DEF x5, x6
  <2>2. QED
    BY <1>3, <2>1, ReadOption
<1> HIDE DEF L, t1, t2, t3, t4, t5, t6, x0, x1, x2, x3, x4, x5, x6
<1>12. ReadFrom(x0, t1 \o t2) = x2
  BY <1>2, <1>3, <1>4, <1>6, <1>7, ReadConcat
<1>13. ReadFrom(x0, t1 \o t2 \o t3) = x3
  <2> DEFINE s == t1 \o t2
  <2>1. s \in Seq(L)
    BY <1>2
  <2> HIDE DEF s
  <2>2. ReadFrom(x0, s \o t3) = ReadFrom(ReadFrom(x0, s), t3)
    BY <1>2, <1>3, <1>4, <2>1, ReadConcat
  <2>3. QED
    BY <1>8, <1>12, <2>2 DEF s
<1>14. ReadFrom(x0, t1 \o t2 \o t3 \o t4) = x4
  <2> DEFINE s == t1 \o t2 \o t3
  <2>1. s \in Seq(L)
    BY <1>2
  <2> HIDE DEF s
  <2>2. ReadFrom(x0, s \o t4) = ReadFrom(ReadFrom(x0, s), t4)
    BY <1>2, <1>3, <1>4, <2>1, ReadConcat
  <2>3. QED
    BY <1>9, <1>13, <2>2 DEF s
<1>15. ReadFrom(x0, t1 \o t2 \o t3 \o t4 \o t5) = x5
  <2> DEFINE s == t1 \o t2 \o t3 \o t4
  <2>1. s \in Seq(L)
    BY <1>2
  <2> HIDE DEF s
  <2>2. ReadFrom(x0, s \o t5) = ReadFrom(ReadFrom(x0, s), t5)
    BY <1>2, <1>3, <1>4, <2>1, ReadConcat
  <2>3. QED
    BY <1>10, <1>14, <2>2 DEF s
<1>16. ReadFrom(x0, t1 \o t2 \o t3 \o t4 \o t5 \o t6) = x6
  <2> DEFINE s == t1 \o t2 \o t3 \o t4 \o t5
  <2>1. s \in Seq(L)
    BY <1>2
  <2> HIDE DEF s
  <2>2. ReadFrom(x0, s \o t6) = ReadFrom(ReadFrom(x0, s), t6)
    BY <1>2, <1>3, <1>4, <2>1, ReadConcat
  <2>3. QED
    BY <1>11, <1>15, <2>2 DEF s
<1>17. QED
  BY <1>1, <1>5, <1>16 DEF x6

\* A curve that is written by position is read as it is written.
LEMMA PositionalIs ==
    ASSUME NEW curve \in WrittenCurves, curve.keyed = <<>>, NEW axes
    PROVE  Radar!Resolved(curve, axes) = {curve}
BY DEF Radar!Resolved

Retitled(b) == [b EXCEPT !.title = Cut(b.title)]

LEMMA DrawnAgain ==
    ASSUME NEW b \in Charts(CurveItems)
    PROVE  LET read == ReadFrom(Radar!Blank, Radar!Render(b))
           IN  /\ Chart(read) = Retitled(b)
               /\ \A k \in DOMAIN read.curves : Radar!Resolved(read.curves[k], read.axes) # {}
<1> DEFINE read == Saying(Cut(b.title), b.axes, Written(b), b.min, b.max, b.look)
           n == Len(b.curves)
           Redraw(k) == LET curve == CHOOSE c \in Radar!Resolved(read.curves[k], read.axes) : TRUE
                        IN  [id |-> curve.id, label |-> curve.label, values |-> curve.values]
           curves == [k \in DOMAIN read.curves |-> Redraw(k)]
<1>1. /\ n \in Nat /\ b.curves \in Seq(CurveItems) /\ DOMAIN b.curves = 1 .. n
      /\ \A k \in 1 .. n : b.curves[k] \in CurveItems
  BY DEF Charts
<1>2. read.curves = Written(b) /\ read.axes = b.axes /\ DOMAIN read.curves = 1 .. n
  BY <1>1, WrittenIs DEF Saying
<1>3. \A k \in 1 .. n : /\ Written(b)[k] \in WrittenCurves /\ Written(b)[k].keyed = <<>>
                        /\ Written(b)[k].id = b.curves[k].id
                        /\ Written(b)[k].label = b.curves[k].label
                        /\ Written(b)[k].values = b.curves[k].values
  <2>1. Written(b) \in Seq(WrittenCurves) /\ Len(Written(b)) = n
    BY WrittenIs
  <2>2. ASSUME NEW k \in 1 .. n
        PROVE  Written(b)[k] = [id |-> b.curves[k].id, label |-> b.curves[k].label,
                                values |-> b.curves[k].values, keyed |-> <<>>]
    BY WrittenIs
  <2>3. \A k \in 1 .. n : Written(b)[k] \in WrittenCurves
    BY <1>1, <2>1
  <2>4. ASSUME NEW k \in 1 .. n
        PROVE  /\ Written(b)[k].keyed = <<>> /\ Written(b)[k].id = b.curves[k].id
               /\ Written(b)[k].label = b.curves[k].label
               /\ Written(b)[k].values = b.curves[k].values
    <3>1. Written(b)[k] = [id |-> b.curves[k].id, label |-> b.curves[k].label,
                           values |-> b.curves[k].values, keyed |-> <<>>]
      BY <2>2
    <3>2. QED
      BY ONLY <3>1
  <2>5. QED
    BY <2>3, <2>4
<1> HIDE DEF read
<1>4. \A k \in 1 .. n : Radar!Resolved(read.curves[k], read.axes) = {Written(b)[k]}
  BY <1>2, <1>3, PositionalIs
<1>5. ASSUME NEW k \in 1 .. n PROVE curves[k] = b.curves[k]
  <2>1. curves[k] = [id |-> Written(b)[k].id, label |-> Written(b)[k].label,
                     values |-> Written(b)[k].values]
    BY <1>2, <1>4
  <2> HIDE DEF curves
  <2>2. curves[k] = [id |-> b.curves[k].id, label |-> b.curves[k].label,
                     values |-> b.curves[k].values]
    BY <1>3, <2>1
  <2>3. QED
    BY <1>1, <2>2 DEF CurveItems
<1>6. curves = [k \in 1 .. n |-> curves[k]]
  BY <1>2
<1>7. Chart(read) = [read EXCEPT !.curves = curves]
  BY DEF Chart
<1> HIDE DEF curves
<1>8. curves = b.curves
  <2> DEFINE s == b.curves
  <2>1. /\ n \in Nat /\ s \in Seq(CurveItems) /\ Len(s) = n
        /\ curves = [k \in 1 .. n |-> curves[k]] /\ \A k \in 1 .. n : s[k] = curves[k]
    BY <1>1, <1>5, <1>6
  <2> HIDE DEF s, n
  <2>2. s = curves
    BY <2>1, SameSequence
  <2>3. QED
    BY <2>2 DEF s
<1>9. [read EXCEPT !.curves = b.curves] = Retitled(b)
  BY DEF read, Saying, Retitled, Charts
<1>10. ReadFrom(Radar!Blank, Radar!Render(b)) = read
  BY RereadIs DEF read
<1>11. \A k \in DOMAIN read.curves : Radar!Resolved(read.curves[k], read.axes) # {}
  BY <1>2, <1>4
<1>12. QED
  BY <1>7, <1>8, <1>9, <1>10, <1>11

\* The text of a chart that can be drawn says the chart, but for the comment
\* in its title; a chart with nothing on it has no text that is one.
LEMMA TextSays ==
    ASSUME NEW b \in Drawable
    PROVE  Radar!Reparse(b) = IF Radar!EmptyDiagram(b) THEN {} ELSE {Retitled(b)}
<1> DEFINE read == ReadFrom(Radar!Blank, Radar!Render(b))
           resolved == [k \in DOMAIN read.curves |-> Radar!Resolved(read.curves[k], read.axes)]
           c == Retitled(b)
<1>1. b \in Charts(CurveItems) /\ ~Radar!Problem(b)
  BY DEF Drawable
<1>2. Chart(read) = c /\ \A k \in DOMAIN read.curves : Radar!Resolved(read.curves[k], read.axes) # {}
  BY <1>1, DrawnAgain
<1>3. {} \notin Radar!ToSet(resolved)
  BY <1>2 DEF Radar!ToSet
<1>4. c.axes = b.axes /\ c.curves = b.curves /\ c.min = b.min /\ c.max = b.max
  BY <1>1 DEF Retitled, Charts
<1>5. Radar!Reparse(b) = IF {} \in Radar!ToSet(resolved) \/ Radar!EmptyDiagram(Chart(read))
                               \/ Radar!Problem(Chart(read)) THEN {} ELSE {Chart(read)}
  BY DEF Radar!Reparse, Radar!Parse, Chart, ReadFrom
<1> HIDE DEF read, resolved, c
<1>6. Radar!EmptyDiagram(c) = Radar!EmptyDiagram(b)
  BY <1>4 DEF Radar!EmptyDiagram
<1>7. ~Radar!Problem(c)
  <2>1. Radar!Top(c) = Radar!Top(b)
    BY <1>4 DEF Radar!Top, Radar!AllValues
  <2>2. QED
    BY <1>1, <1>4, <2>1 DEF Radar!Problem, Radar!Degenerate, Radar!EmptyDiagram
<1>8. QED
  BY <1>2, <1>3, <1>5, <1>6, <1>7 DEF c

\* What is lost is announced: a chart whose text would say something else than
\* the chart is the draft, or one whose title a comment cuts (renderRadar in
\* radar-body.ts writes all that the parser reads, in the order of the body).
LEMMA ChartLoss ==
    ASSUME RadarInv
    PROVE  Radar!LossIsAnnounced
<1>1. \A r \in Radar!Reparse(body) : r = Retitled(body)
  BY TextSays DEF RadarInv
<1>2. body.title \notin DOMAIN radar.cutOf => Retitled(body) = body
  BY DEF RadarInv, Drawable, Charts, Retitled, Cut
<1>3. QED
  BY <1>1, <1>2 DEF Radar!LossIsAnnounced

\* What a batch hands out is a fixed point of writing and reading, a title that
\* lost its comment included.
LEMMA ChartText ==
    ASSUME RadarInv, Radar!Next, published' # published
    PROVE  Radar!Reparse(published') = {published'}
<1>1. Radar!Core!Publish
  BY RadarOperationsRedraw
     DEF Radar!Next, RadarOperation, RadarAxisOperation, RadarCurveOperation, Radar!Core!Refuse
<1>2. published' \in Radar!Reparse(body)
  BY <1>1 DEF Radar!Core!Publish
<1>3. body \in Drawable
  BY DEF RadarInv
<1>4. published' = Retitled(body) /\ published' \in Drawable /\ ~Radar!EmptyDiagram(body)
  BY <1>2, <1>3, TextSays, ReparseIs
<1>5. /\ Retitled(Retitled(body)) = Retitled(body)
      /\ Retitled(body).axes = body.axes /\ Retitled(body).curves = body.curves
  BY <1>3, CutIs DEF Retitled, Drawable, Charts
<1>6. ~Radar!EmptyDiagram(published')
  BY <1>4, <1>5 DEF Radar!EmptyDiagram
<1>7. Radar!Reparse(published') = {Retitled(published')}
  BY <1>4, <1>6, TextSays
<1>8. QED
  BY <1>4, <1>5, <1>7

LEMMA AppendIs ==
    ASSUME NEW L, NEW s \in Seq(L), NEW e \in L
    PROVE  /\ Append(s, e) \in Seq(L) /\ Append(s, e) # <<>> /\ Len(Append(s, e)) = Len(s) + 1
           /\ Append(s, e)[Len(s) + 1] = e /\ \A j \in 1 .. Len(s) : Append(s, e)[j] = s[j]
           /\ DOMAIN Append(s, e) = 1 .. Len(s) + 1
<1>1. Len(s) \in Nat
  OBVIOUS
<1>2. Append(s, e) \in Seq(L) /\ Len(Append(s, e)) = Len(s) + 1
  OBVIOUS
<1>3. Append(s, e)[Len(s) + 1] = e /\ \A j \in 1 .. Len(s) : Append(s, e)[j] = s[j]
  OBVIOUS
<1> DEFINE t == Append(s, e)
<1> HIDE DEF t
<1>4. t \in Seq(L) /\ Len(t) = Len(s) + 1
  BY <1>2 DEF t
<1>5. t # <<>> /\ DOMAIN t = 1 .. Len(s) + 1
  BY <1>1, <1>4
<1>6. QED
  BY <1>2, <1>3, <1>5 DEF t

(***************************************************************************)
(* Timelines: what lines and arguments can say.                            *)
(***************************************************************************)
TimelineLines == UNION {ToSet(source) : source \in timeline.sources}
LinesOfSort(k) == {line \in TimelineLines : line.kind = k}
Headings == {"title", "accTitle", "accDescr"}
\* What is written is not None; what may be left out may be.
Words == (timeline.texts \union timeline.sectionLabels \union timeline.periodLabels
          \union {line.label : line \in LinesOfSort("section") \union LinesOfSort("period")}
          \union {line.event : line \in LinesOfSort("period") \union LinesOfSort("continuation")}
          \union {timeline.sectionOf[label] : label \in DOMAIN timeline.sectionOf}
          \union {timeline.periodOf[label].label : label \in DOMAIN timeline.periodOf}
          \union {timeline.periodOf[label].event : label \in DOMAIN timeline.periodOf}) \ {None}
Labels == Words \union {None}
Phrases == {<<>>} \union {<<text>> : text \in timeline.texts}
           \union {line.text : line \in {l \in TimelineLines : l.kind \in Headings}}
           \union {<<timeline.titleOf[label], word>> : label \in DOMAIN timeline.titleOf, word \in Labels}

PeriodItems == [label : Labels, events : Seq(Words)]
SectionItems == [label : Labels, periods : Seq(PeriodItems)]
Timelines == [title : Phrases, accTitle : Phrases, accDescr : Phrases, sections : Seq(SectionItems)]

IsTimelineLine(line) ==
    /\ line.kind \in Headings \union {"section", "period", "continuation"}
    /\ line.kind \in Headings => line.text \in Phrases
    /\ line.kind = "section" => line.label \in Words \ DOMAIN timeline.periodOf
    /\ line.kind = "period" =>
         /\ line.label \in Labels \ DOMAIN timeline.titleOf /\ line.event \in Labels
         /\ line.event = None => line.label \notin DOMAIN timeline.sectionOf
    /\ line.kind = "continuation" => line.event \in Words

LEMMA AuthoredTimelineLines == \A line \in TimelineLines : IsTimelineLine(line)
<1> SUFFICES ASSUME NEW line \in TimelineLines PROVE IsTimelineLine(line)
  OBVIOUS
<1>1. /\ line.kind \in Headings \union {"section", "period", "continuation"}
      /\ line.kind = "section" => line.label \notin {None} \union DOMAIN timeline.periodOf
      /\ line.kind = "period" =>
           /\ line.label \notin DOMAIN timeline.titleOf
           /\ line.event = None => line.label \notin DOMAIN timeline.sectionOf
      /\ line.kind = "continuation" => line.event # None
  BY TimelineSources DEF TimelineLines, Headings
<1>2. line.kind \in Headings => line.text \in Phrases
  BY DEF Phrases
<1>3. line.kind \in {"section", "period"} => line.label \in Labels
  BY DEF Labels, Words, LinesOfSort
<1>4. line.kind \in {"period", "continuation"} => line.event \in Labels
  BY DEF Labels, Words, LinesOfSort
<1>5. QED
  BY <1>1, <1>2, <1>3, <1>4 DEF IsTimelineLine, Labels

(***************************************************************************)
(* Timelines: at most one section without a label, and it is not empty.    *)
(***************************************************************************)
\* No other section lacks a label, and those that do have a period.
OneImplicit(b) ==
    \A s \in DOMAIN b.sections : b.sections[s].label = None =>
      \A other \in DOMAIN b.sections \ {s} : b.sections[other].label # None
Told(b, s) == b.sections[s].label = None => b.sections[s].periods # <<>>
Tellable == {b \in Timelines : OneImplicit(b) /\ \A s \in DOMAIN b.sections : Told(b, s)}
\* What is read is what it would be read as: no label of a period is a title, or
\* without events a section, no label of a section holds a colon.
PlainPeriod(period) ==
    /\ period.label \notin DOMAIN timeline.titleOf
    /\ period.events = <<>> => period.label \notin DOMAIN timeline.sectionOf
PlainSection(section) ==
    /\ section.label \notin DOMAIN timeline.periodOf
    /\ \A p \in DOMAIN section.periods : PlainPeriod(section.periods[p])
\* It has the periods without a section before the others.
Read == {b \in Timelines : \A s \in DOMAIN b.sections :
                             /\ Told(b, s) /\ PlainSection(b.sections[s])
                             /\ b.sections[s].label = None => s = 1}

LEMMA TimelineIs ==
    ASSUME NEW b \in Timelines
    PROVE  /\ b.sections \in Seq(SectionItems) /\ Len(b.sections) \in Nat
           /\ DOMAIN b.sections = 1 .. Len(b.sections)
           /\ \A s \in DOMAIN b.sections :
                /\ b.sections[s] \in SectionItems
                /\ b.sections[s].label \in Labels /\ b.sections[s].periods \in Seq(PeriodItems)
<1>1. b.sections \in Seq(SectionItems)
  BY DEF Timelines
<1>2. /\ Len(b.sections) \in Nat /\ DOMAIN b.sections = 1 .. Len(b.sections)
      /\ \A s \in DOMAIN b.sections : b.sections[s] \in SectionItems
  BY <1>1
<1>3. \A section \in SectionItems : section.label \in Labels /\ section.periods \in Seq(PeriodItems)
  BY DEF SectionItems
<1>4. QED
  BY <1>1, <1>2, <1>3

LEMMA ReadIsTellable == Read \subseteq Tellable
BY DEF Read, Tellable, OneImplicit

LEMMA PhrasesStay ==
    ASSUME NEW b \in Timelines, NEW head \in Headings, NEW text \in Phrases
    PROVE  /\ [b EXCEPT ![head] = text] \in Timelines
           /\ [b EXCEPT ![head] = text].sections = b.sections
BY DEF Timelines, Headings

\* The same sections, of which the s-th has other periods.
Reperioded(b, s, periods) == [b EXCEPT !.sections[s].periods = periods]

HasPeriods(c, b, s, periods) ==
    /\ c \in Timelines
    /\ DOMAIN c.sections = DOMAIN b.sections /\ Len(c.sections) = Len(b.sections)
    /\ c.sections[s] = [label |-> b.sections[s].label, periods |-> periods]
    /\ \A other \in DOMAIN b.sections \ {s} : c.sections[other] = b.sections[other]

LEMMA PeriodsReplaced ==
    ASSUME NEW section \in SectionItems, NEW periods \in Seq(PeriodItems)
    PROVE  LET c == [label |-> section.label, periods |-> periods]
           IN c \in SectionItems /\ [section EXCEPT !.periods = periods] = c
<1>1. [section EXCEPT !.periods = periods] = [label |-> section.label, periods |-> periods]
  BY DEF SectionItems
<1>2. section.label \in Labels
  BY DEF SectionItems
<1>3. [label |-> section.label, periods |-> periods] \in SectionItems
  BY <1>2 DEF SectionItems
<1>4. QED
  BY <1>1, <1>3

LEMMA ReperiodedIs ==
    ASSUME NEW b \in Timelines, NEW s \in DOMAIN b.sections, NEW periods \in Seq(PeriodItems)
    PROVE  HasPeriods(Reperioded(b, s, periods), b, s, periods)
<1> DEFINE section == [label |-> b.sections[s].label, periods |-> periods]
           sections == [b.sections EXCEPT ![s] = section]
           c == [b EXCEPT !.sections = sections]
<1>1. b.sections[s] \in SectionItems /\ b.sections \in Seq(SectionItems)
  BY TimelineIs
<1>2. section \in SectionItems /\ [b.sections[s] EXCEPT !.periods = periods] = section
  BY <1>1, PeriodsReplaced
<1>3. Reperioded(b, s, periods) = c
  BY <1>2 DEF Reperioded
<1> HIDE DEF section
<1>4. /\ sections \in Seq(SectionItems) /\ DOMAIN sections = DOMAIN b.sections
      /\ Len(sections) = Len(b.sections) /\ sections[s] = section
      /\ \A other \in DOMAIN b.sections \ {s} : sections[other] = b.sections[other]
  BY <1>1, <1>2
<1> HIDE DEF sections
<1>5. c \in Timelines /\ c.sections = sections
  BY <1>4 DEF Timelines
<1> HIDE DEF c
<1>6. HasPeriods(c, b, s, periods)
  BY <1>4, <1>5 DEF section, HasPeriods
<1>7. QED
  BY <1>3, <1>6

\* The same sections, of which the s-th has the same periods but for events.
SameOutline(b, c) ==
    /\ DOMAIN c.sections = DOMAIN b.sections
    /\ \A s \in DOMAIN b.sections :
         /\ c.sections[s].label = b.sections[s].label
         /\ Len(c.sections[s].periods) = Len(b.sections[s].periods)

LEMMA EventsPut ==
    ASSUME NEW period \in PeriodItems, NEW events \in Seq(Words)
    PROVE  LET c == [label |-> period.label, events |-> events]
           IN c = [period EXCEPT !.events = events] /\ c \in PeriodItems
<1>1. [period EXCEPT !.events = events] = [label |-> period.label, events |-> events]
  BY DEF PeriodItems
<1>2. period.label \in Labels
  BY DEF PeriodItems
<1>3. [label |-> period.label, events |-> events] \in PeriodItems
  BY <1>2 DEF PeriodItems
<1>4. QED
  BY <1>1, <1>3

LEMMA ReeventedIs ==
    ASSUME NEW b \in Timelines, NEW s \in DOMAIN b.sections,
           NEW p \in DOMAIN b.sections[s].periods, NEW events \in Seq(Words)
    PROVE  LET c == [b EXCEPT !.sections[s].periods[p].events = events]
           IN c \in Timelines /\ SameOutline(b, c)
<1> DEFINE old == b.sections[s].periods
           periods == [old EXCEPT ![p].events = events]
           c == Reperioded(b, s, periods)
<1>1. old \in Seq(PeriodItems)
  BY TimelineIs
<1>2. old[p] \in PeriodItems
  BY <1>1
<1>3. [old[p] EXCEPT !.events = events] \in PeriodItems
  BY <1>2 DEF PeriodItems
<1>4. periods \in Seq(PeriodItems) /\ Len(periods) = Len(old)
  BY <1>1, <1>3
<1>5. [b EXCEPT !.sections[s].periods[p].events = events] = c
  BY DEF Reperioded
<1> HIDE DEF periods, old
<1>6. /\ c \in Timelines /\ DOMAIN c.sections = DOMAIN b.sections
      /\ c.sections[s] = [label |-> b.sections[s].label, periods |-> periods]
      /\ \A other \in DOMAIN b.sections \ {s} : c.sections[other] = b.sections[other]
  BY <1>4, ReperiodedIs DEF HasPeriods
<1> HIDE DEF c
<1>7. SameOutline(b, c)
  <2>1. c.sections[s].label = b.sections[s].label /\ c.sections[s].periods = periods
    BY <1>6
  <2>2. QED
    BY <1>4, <1>6, <2>1 DEF SameOutline, old
<1>8. QED
  BY <1>5, <1>6, <1>7

LEMMA OutlineTold ==
    ASSUME NEW b \in Timelines, NEW c \in Timelines, SameOutline(b, c), NEW s \in DOMAIN b.sections
    PROVE  Told(b, s) => Told(c, s)
<1>1. b.sections[s].periods \in Seq(PeriodItems) /\ c.sections[s].periods \in Seq(PeriodItems)
  BY TimelineIs DEF SameOutline
<1>2. b.sections[s].periods # <<>> => c.sections[s].periods # <<>>
  BY <1>1 DEF SameOutline
<1>3. QED
  BY <1>2 DEF Told, SameOutline

LEMMA OutlineStays ==
    ASSUME NEW b \in Timelines, NEW c \in Timelines, SameOutline(b, c)
    PROVE  b \in Tellable => c \in Tellable
<1>1. \A s \in DOMAIN b.sections : Told(b, s) => Told(c, s)
  BY OutlineTold
<1>2. QED
  BY <1>1 DEF Tellable, OneImplicit, SameOutline

(***************************************************************************)
(* Timelines: what the parser reads, line after line.                      *)
(***************************************************************************)
LEMMA TimelineBlankIs == Timeline!Blank \in Read /\ Timeline!Blank.sections = <<>>
BY DEF Timeline!Blank, Read, Timelines, Phrases

LEMMA ReadSectionIs ==
    ASSUME NEW b \in Read, NEW label \in Words \ DOMAIN timeline.periodOf
    PROVE  [b EXCEPT !.sections = Append(@, Timeline!Section(label, <<>>))] \in Read
<1> DEFINE section == [label |-> label, periods |-> <<>>]
           sections == Append(b.sections, section)
           c == [b EXCEPT !.sections = sections]
           n == Len(b.sections)
<1>1. b \in Timelines /\ b.sections \in Seq(SectionItems) /\ n \in Nat /\ DOMAIN b.sections = 1 .. n
  BY TimelineIs DEF Read
<1>2. section \in SectionItems /\ PlainSection(section)
  BY DEF SectionItems, Labels, PlainSection
<1> HIDE DEF section
<1>3. /\ sections \in Seq(SectionItems) /\ DOMAIN sections = 1 .. n + 1
      /\ \A s \in 1 .. n : sections[s] = b.sections[s]
      /\ sections[n + 1] = section
  BY <1>1, <1>2
<1> HIDE DEF sections
<1>4. c \in Timelines /\ c.sections = sections
  BY <1>1, <1>3 DEF Timelines
<1> HIDE DEF c
<1>5. ASSUME NEW s \in 1 .. n + 1
      PROVE  Told(c, s) /\ PlainSection(c.sections[s]) /\ (c.sections[s].label = None => s = 1)
  <2>1. CASE s \in 1 .. n
    BY <1>1, <1>3, <1>4, <2>1 DEF Read, Told
  <2>2. CASE s = n + 1
    <3>1. c.sections[s].label = label /\ PlainSection(c.sections[s])
      BY <1>2, <1>3, <1>4, <2>2 DEF section
    <3>2. label # None
      BY DEF Words
    <3>3. QED
      BY <3>1, <3>2 DEF Told
  <2>3. QED
    BY <1>1, <2>1, <2>2
<1>6. c \in Read
  BY <1>3, <1>4, <1>5 DEF Read
<1>7. QED
  BY <1>6 DEF c, sections, section, Timeline!Section

\* A body with a period at the end of its s-th section.
LEMMA ReadPeriodAt ==
    ASSUME NEW b \in Timelines, b.sections # <<>>, NEW period \in PeriodItems, PlainPeriod(period),
           \A s \in DOMAIN b.sections :
             /\ s # Len(b.sections) => Told(b, s)
             /\ PlainSection(b.sections[s])
             /\ b.sections[s].label = None => s = 1
    PROVE  [b EXCEPT !.sections[Len(b.sections)].periods = Append(@, period)] \in Read
<1> DEFINE n == Len(b.sections)
           periods == Append(b.sections[n].periods, period)
           c == Reperioded(b, n, periods)
<1>1. n \in DOMAIN b.sections
  BY TimelineIs
<1>2. b.sections[n].periods \in Seq(PeriodItems)
  BY <1>1, TimelineIs
<1> DEFINE old == b.sections[n].periods
           section == [label |-> b.sections[n].label, periods |-> periods]
<1>3. /\ periods \in Seq(PeriodItems) /\ periods # <<>> /\ DOMAIN periods = 1 .. Len(old) + 1
      /\ periods[Len(old) + 1] = period /\ \A p \in 1 .. Len(old) : periods[p] = old[p]
  <2> HIDE DEF n, old
  <2>1. QED
    BY <1>2, AppendIs DEF old
<1>4. periods \in Seq(PeriodItems) /\ periods # <<>>
  BY <1>3
<1>5. PlainSection(section)
  <2>1. \A p \in DOMAIN periods : periods[p] = period \/ (p \in DOMAIN old /\ periods[p] = old[p])
    <3>1. Len(old) \in Nat /\ DOMAIN old = 1 .. Len(old)
      BY <1>2
    <3> HIDE DEF old, periods, n
    <3>2. DOMAIN periods = 1 .. Len(old) + 1
      BY <1>3
    <3>3. periods[Len(old) + 1] = period /\ \A p \in 1 .. Len(old) : periods[p] = old[p]
      BY <1>3
    <3> DEFINE k == Len(old)
    <3> HIDE DEF k
    <3>4. \A p \in 1 .. k + 1 : p = k + 1 \/ p \in 1 .. k
      BY <3>1 DEF k
    <3> SUFFICES ASSUME NEW p \in DOMAIN periods
                 PROVE  periods[p] = period \/ (p \in DOMAIN old /\ periods[p] = old[p])
      OBVIOUS
    <3>5. p = k + 1 \/ p \in 1 .. k
      BY <3>2, <3>4 DEF k
    <3>6. QED
      BY <3>1, <3>3, <3>5 DEF k
  <2>2. PlainSection(b.sections[n])
    BY <1>1
  <2> HIDE DEF periods
  <2>3. QED
    BY <2>1, <2>2 DEF PlainSection
<1>6. [b EXCEPT !.sections[n].periods = Append(@, period)] = c
  BY DEF Reperioded
<1> HIDE DEF periods, n
<1>7. /\ c \in Timelines /\ DOMAIN c.sections = DOMAIN b.sections
      /\ c.sections[n] = [label |-> b.sections[n].label, periods |-> periods]
      /\ \A other \in DOMAIN b.sections \ {n} : c.sections[other] = b.sections[other]
  BY <1>1, <1>4, ReperiodedIs DEF HasPeriods
<1> HIDE DEF c
<1>8. ASSUME NEW s \in DOMAIN b.sections
      PROVE  Told(c, s) /\ PlainSection(c.sections[s]) /\ (c.sections[s].label = None => s = 1)
  BY <1>1, <1>4, <1>7, <1>5 DEF Told, n
<1>9. c \in Read
  BY <1>7, <1>8 DEF Read
<1>10. QED
  BY <1>6, <1>9 DEF n

LEMMA ReadPeriodIs ==
    ASSUME NEW b \in Read, NEW line, IsTimelineLine(line), line.kind = "period"
    PROVE  Timeline!ReadPeriod(b, line) \in Read
<1> DEFINE section == [label |-> None, periods |-> <<>>]
           opened == IF b.sections = <<>> THEN [b EXCEPT !.sections = <<section>>] ELSE b
           events == IF line.event = None THEN <<>> ELSE <<line.event>>
           period == [label |-> line.label, events |-> events]
<1>1. b \in Timelines /\ b.sections \in Seq(SectionItems)
  BY TimelineIs DEF Read
<1>2. section \in SectionItems /\ PlainSection(section)
  BY TimelineSources DEF SectionItems, Labels, PlainSection
<1>3. events \in Seq(Words) /\ (events = <<>> => line.event = None)
  BY DEF IsTimelineLine, Labels
<1> HIDE DEF events
<1>4. period \in PeriodItems /\ PlainPeriod(period)
  BY <1>3 DEF PeriodItems, IsTimelineLine, PlainPeriod
<1>5. /\ opened \in Timelines /\ opened.sections # <<>>
      /\ \A s \in DOMAIN opened.sections :
           /\ s # Len(opened.sections) => Told(opened, s)
           /\ PlainSection(opened.sections[s])
           /\ opened.sections[s].label = None => s = 1
  <2>1. CASE b.sections = <<>>
    <3> DEFINE sections == <<section>>
    <3>1. /\ sections \in Seq(SectionItems) /\ sections # <<>> /\ Len(sections) = 1
          /\ DOMAIN sections = {1} /\ sections[1] = section
      BY <1>2
    <3> HIDE DEF sections
    <3>2. [b EXCEPT !.sections = sections] \in Timelines
      BY <1>1, <3>1 DEF Timelines
    <3>3. [b EXCEPT !.sections = sections].sections = sections
      BY <1>1 DEF Timelines
    <3>4. opened = [b EXCEPT !.sections = sections]
      BY <2>1 DEF sections
    <3> HIDE DEF opened
    <3>5. opened \in Timelines /\ opened.sections = sections
      BY <3>2, <3>3, <3>4
    <3>6. QED
      BY <1>2, <3>1, <3>5
  <2>2. CASE b.sections # <<>>
    BY <1>1, <2>2 DEF Read
  <2>3. QED
    BY <2>1, <2>2
<1>6. Timeline!ReadPeriod(b, line) = [opened EXCEPT !.sections[Len(opened.sections)].periods = Append(@, period)]
  BY DEF Timeline!ReadPeriod, Timeline!Section, Timeline!Period, events
<1> HIDE DEF opened, period
<1>7. QED
  BY <1>4, <1>5, <1>6, ReadPeriodAt

LEMMA ReadContinuationIs ==
    ASSUME NEW b \in Read, NEW line, IsTimelineLine(line), line.kind = "continuation",
           Timeline!HasPeriod(b)
    PROVE  Timeline!ReadContinuation(b, line) \in Read
<1> DEFINE s == Len(b.sections)
           p == Len(b.sections[s].periods)
           events == Append(b.sections[s].periods[p].events, line.event)
           c == [b EXCEPT !.sections[s].periods[p].events = events]
<1>1. b \in Timelines /\ b.sections \in Seq(SectionItems) /\ b.sections # <<>>
  BY TimelineIs DEF Read, Timeline!HasPeriod
<1>2. s \in DOMAIN b.sections
  BY <1>1
<1>3. b.sections[s].periods \in Seq(PeriodItems) /\ b.sections[s].periods # <<>>
  BY <1>1, <1>2, TimelineIs DEF Timeline!HasPeriod, Timeline!Last
<1>4. p \in DOMAIN b.sections[s].periods /\ b.sections[s].periods[p] \in PeriodItems
  BY <1>3
<1>5. events \in Seq(Words) /\ events # <<>>
  <2> DEFINE old == b.sections[s].periods[p].events
  <2>1. old \in Seq(Words) /\ line.event \in Words
    BY <1>4 DEF PeriodItems, IsTimelineLine
  <2>2. events = Append(old, line.event)
    OBVIOUS
  <2> HIDE DEF old, events
  <2>3. Append(old, line.event) \in Seq(Words) /\ Append(old, line.event) # <<>>
    BY <2>1, AppendIs
  <2>4. QED
    BY <2>2, <2>3
<1>6. Timeline!ReadContinuation(b, line) = c
  BY DEF Timeline!ReadContinuation
<1> DEFINE period == [label |-> b.sections[s].periods[p].label, events |-> events]
           periods == [b.sections[s].periods EXCEPT ![p] = period]
           section == [label |-> b.sections[s].label, periods |-> periods]
<1>7. period = [b.sections[s].periods[p] EXCEPT !.events = events] /\ period \in PeriodItems
  BY <1>4, <1>5, EventsPut
<1>8. PlainPeriod(period)
  <2>1. PlainPeriod(b.sections[s].periods[p])
    BY <1>2, <1>4 DEF Read, PlainSection
  <2> HIDE DEF events
  <2>2. QED
    BY <1>5, <2>1 DEF PlainPeriod
<1>9. c = Reperioded(b, s, periods)
  BY <1>7 DEF Reperioded
<1> HIDE DEF s, p, events, period, c
<1>10. periods \in Seq(PeriodItems) /\ periods # <<>> /\ DOMAIN periods = DOMAIN b.sections[s].periods
  BY <1>3, <1>4, <1>7
<1>11. PlainSection(section)
  <2>1. PlainSection(b.sections[s])
    BY <1>2 DEF Read
  <2>2. \A q \in DOMAIN periods : PlainPeriod(periods[q])
    BY <1>8, <1>10, <2>1 DEF PlainSection
  <2> HIDE DEF periods
  <2>3. QED
    BY <2>1, <2>2 DEF PlainSection
<1> HIDE DEF periods
<1>12. HasPeriods(c, b, s, periods)
  BY <1>1, <1>2, <1>9, <1>10, ReperiodedIs
<1>13. \A t \in DOMAIN b.sections :
         /\ Told(c, t) /\ PlainSection(c.sections[t])
         /\ c.sections[t].label = b.sections[t].label
  <2>1. c.sections[s] = section /\ \A t \in DOMAIN b.sections \ {s} : c.sections[t] = b.sections[t]
    BY <1>12 DEF HasPeriods
  <2>2. Told(c, s) /\ PlainSection(c.sections[s]) /\ c.sections[s].label = b.sections[s].label
    BY <1>10, <1>11, <2>1 DEF Told
  <2>3. QED
    BY <2>1, <2>2 DEF Read, Told
<1>14. c \in Read
  BY <1>12, <1>13 DEF HasPeriods, Read
<1>15. QED
  BY <1>6, <1>14

LEMMA ReadTimelineLineIs ==
    ASSUME NEW b \in Read, NEW line, IsTimelineLine(line)
    PROVE  Timeline!ReadLine(b, line) \subseteq Read
<1>1. CASE line.kind = "section"
  BY <1>1, ReadSectionIs DEF Timeline!ReadLine, IsTimelineLine
<1>2. CASE line.kind = "period"
  BY <1>2, ReadPeriodIs DEF Timeline!ReadLine
<1>3. CASE line.kind = "continuation"
  BY <1>3, ReadContinuationIs DEF Timeline!ReadLine
<1>4. CASE line.kind \in Headings
  <2> DEFINE c == [b EXCEPT ![line.kind] = line.text]
  <2>1. Timeline!ReadLine(b, line) = {c}
    BY <1>4 DEF Timeline!ReadLine, Headings
  <2>2. b \in Timelines /\ line.text \in Phrases
    BY <1>4 DEF Read, IsTimelineLine
  <2>3. c \in Timelines /\ c.sections = b.sections
    BY <1>4, <2>2, PhrasesStay
  <2> HIDE DEF c
  <2>4. c \in Read
    BY <2>3 DEF Read, Told
  <2>5. QED
    BY <2>1, <2>4
<1>5. QED
  BY <1>1, <1>2, <1>3, <1>4 DEF IsTimelineLine

ReadNext(bs, line) == UNION {Timeline!ReadLine(b, line) : b \in bs}

TimelineRun(g, lines) ==
    g = [s \in SUBSET DOMAIN lines |->
           IF s = {} THEN {Timeline!Blank} ELSE ReadNext(g[s \ {Greatest(s)}], lines[Greatest(s)])]

LEMMA ReadAllIsRun ==
    ASSUME NEW lines
    PROVE  Timeline!Parse(lines) = (CHOOSE g : TimelineRun(g, lines))[DOMAIN lines]
BY DEF Timeline!Parse, TimelineRun, ReadNext, Greatest, Timeline!FoldLeft, Timeline!MapThenFoldSet,
       Timeline!Max

LEMMA TimelineRunExists ==
    ASSUME NEW L, NEW lines \in Seq(L), \A line \in L : IsTimelineLine(line)
    PROVE  \E g : TimelineRun(g, lines)
<1> DEFINE B == SUBSET Read
           base == {Timeline!Blank}
           step == [p \in B \X L |-> ReadNext(p[1], p[2])]
           n == Len(lines)
<1>1. step \in [B \X L -> B]
  <2>1. ASSUME NEW bs \in B, NEW line \in L PROVE ReadNext(bs, line) \in B
    <3>1. \A b \in bs : Timeline!ReadLine(b, line) \subseteq Read
      BY ReadTimelineLineIs
    <3>2. QED
      BY <3>1 DEF ReadNext
  <2>2. QED
    BY <2>1
<1>2. n \in Nat /\ DOMAIN lines = 1 .. n /\ lines \in [1 .. n -> L] /\ base \in B
  BY TimelineBlankIs
<1>3. PICK g \in [SUBSET (1 .. n) -> B] : IsRun(g, lines, n, step, base)
  <2> HIDE DEF B, step, n, base
  <2> QED BY <1>1, <1>2, RunExists
<1> HIDE DEF B
<1>4. ASSUME NEW s \in SUBSET (1 .. n), s # {}
      PROVE  g[s] = ReadNext(g[s \ {Greatest(s)}], lines[Greatest(s)])
  <2>1. Greatest(s) \in s
    BY <1>2, <1>4, GreatestIn
  <2>2. lines[Greatest(s)] \in L /\ g[s \ {Greatest(s)}] \in B
    BY <1>2, <1>3, <2>1
  <2>3. g[s] = step[<<g[s \ {Greatest(s)}], lines[Greatest(s)]>>]
    BY <1>3, <1>4 DEF IsRun
  <2>4. QED
    BY <2>2, <2>3
<1>5. g[{}] = base
  BY <1>3 DEF IsRun
<1>6. TimelineRun(g, lines)
  BY <1>2, <1>3, <1>4, <1>5 DEF TimelineRun
<1>7. QED
  BY <1>6

\* What is read says what a text can say, whatever the lines are.
LEMMA TimelineParseIs ==
    ASSUME NEW L, NEW lines \in Seq(L), \A line \in L : IsTimelineLine(line)
    PROVE  Timeline!Parse(lines) \subseteq Read
<1> DEFINE n == Len(lines)
           g == CHOOSE g : TimelineRun(g, lines)
           Bad == {i \in 0 .. n : ~ (g[1 .. i] \subseteq Read)}
<1>1. n \in Nat /\ DOMAIN lines = 1 .. n
  OBVIOUS
<1>2. TimelineRun(g, lines)
  BY TimelineRunExists
<1>3. Timeline!Parse(lines) = g[1 .. n]
  BY <1>1, ReadAllIsRun
<1> HIDE DEF g
<1>4. SUFFICES ASSUME Bad # {} PROVE FALSE
  <2>1. n \in 0 .. n
    BY <1>1
  <2> HIDE DEF n
  <2>2. QED
    BY <1>3, <2>1
<1>5. PICK i \in Bad : \A k \in Bad : i <= k
  <2>1. Bad \subseteq 0 .. n
    OBVIOUS
  <2> HIDE DEF Bad
  <2>2. QED
    BY <1>1, <1>4, <2>1, SmallestNumber
<1>6. i # 0
  <2>1. 1 .. 0 = {} /\ {} \in SUBSET DOMAIN lines
    OBVIOUS
  <2>2. g[{}] = {Timeline!Blank}
    BY <1>2, <2>1 DEF TimelineRun
  <2>3. g[1 .. 0] \subseteq Read
    BY <2>1, <2>2, TimelineBlankIs
  <2>4. QED
    BY <2>3
<1>7. i \in 1 .. n /\ i - 1 \in 0 .. n /\ i \in Nat
  BY <1>1, <1>6
<1>8. g[1 .. (i - 1)] \subseteq Read
  <2>1. i - 1 \notin Bad
    <3>1. ~(i <= i - 1)
      BY <1>7
    <3> HIDE DEF Bad
    <3>2. QED
      BY <1>5, <3>1
  <2>2. QED
    BY <1>7, <2>1
<1>9. g[1 .. i] = ReadNext(g[1 .. (i - 1)], lines[i])
  <2> HIDE DEF n
  <2>1. 1 .. i \in SUBSET DOMAIN lines /\ i \in 1 .. i
    <3>1. 1 .. i \subseteq 1 .. n /\ i \in 1 .. i
      BY <1>1, <1>7
    <3>2. QED
      BY <1>1, <3>1
  <2>2. Greatest(1 .. i) = i
    BY <1>7, <2>1, GreatestIs
  <2>3. (1 .. i) \ {i} = 1 .. (i - 1)
    <3>1. i \in Nat /\ i # 0
      BY <1>6, <1>7
    <3>2. QED
      BY <3>1
  <2>4. g[1 .. i] = ReadNext(g[(1 .. i) \ {i}], lines[i])
    BY <1>2, <2>1, <2>2 DEF TimelineRun
  <2>5. QED
    BY <2>3, <2>4
<1>10. g[1 .. i] \subseteq Read
  <2>1. IsTimelineLine(lines[i])
    BY <1>7
  <2>2. \A b \in g[1 .. (i - 1)] : Timeline!ReadLine(b, lines[i]) \subseteq Read
    BY <1>8, <2>1, ReadTimelineLineIs
  <2>3. QED
    BY <1>9, <2>2 DEF ReadNext
<1>11. QED
  BY <1>5, <1>10

(***************************************************************************)
(* Timelines: what the serializer writes are lines the parser can read.    *)
(***************************************************************************)
FlattenRun(f, seqs) ==
    f = [i \in 1 .. Len(seqs) |-> IF i = 1 THEN seqs[i] ELSE f[i - 1] \o seqs[i]]

LEMMA FlattenRunExists ==
    ASSUME NEW L, NEW seqs \in Seq(Seq(L))
    PROVE  \E f : FlattenRun(f, seqs)
<1> DEFINE B == Seq(L)
           step == [p \in B \X B |-> p[1] \o p[2]]
           n == Len(seqs)
<1>1. step \in [B \X B -> B]
  BY ConcatIs
<1>2. n \in Nat /\ DOMAIN seqs = 1 .. n /\ seqs \in [1 .. n -> B] /\ <<>> \in B
  OBVIOUS
<1>3. PICK g \in [SUBSET (1 .. n) -> B] : IsRun(g, seqs, n, step, <<>>)
  <2> HIDE DEF B, step, n
  <2> QED BY <1>1, <1>2, RunExists
<1> DEFINE f == [i \in 1 .. n |-> g[1 .. i]]
<1>4. ASSUME NEW i \in 1 .. n
      PROVE  f[i] = IF i = 1 THEN seqs[i] ELSE f[i - 1] \o seqs[i]
  <2>1. 1 .. i \in SUBSET (1 .. n) /\ i \in 1 .. i /\ i \in Nat
    <3> HIDE DEF n
    <3>1. 1 .. i \subseteq 1 .. n /\ i \in 1 .. i /\ i \in Nat
      BY <1>2
    <3>2. QED
      BY <3>1
  <2>2. Greatest(1 .. i) = i
    BY <2>1, GreatestIs
  <2>3. (1 .. i) \ {i} = 1 .. (i - 1)
    <3>1. i \in Nat /\ i # 0
      BY <1>2
    <3>2. QED
      BY <3>1
  <2>4. g[1 .. i] = step[<<g[1 .. (i - 1)], seqs[i]>>]
    <3> HIDE DEF step, n, f
    <3>1. QED
      BY <1>3, <2>1, <2>2, <2>3 DEF IsRun
  <2>5. g[1 .. (i - 1)] \in B /\ seqs[i] \in B
    <3> HIDE DEF B, step, f
    <3>1. 1 .. (i - 1) \in SUBSET (1 .. n)
      BY <2>1, <2>3
    <3>2. QED
      BY <1>2, <1>3, <3>1
  <2>6. g[1 .. i] = g[1 .. (i - 1)] \o seqs[i]
    BY <2>4, <2>5
  <2>7. CASE i = 1
    <3>1. 1 .. (i - 1) = {}
      BY <2>7
    <3>2. g[{}] = <<>>
      BY <1>3 DEF IsRun
    <3>3. <<>> \o seqs[i] = seqs[i]
      BY <2>5
    <3>4. f[i] = seqs[i]
      BY <2>6, <3>1, <3>2, <3>3
    <3> HIDE DEF f
    <3>5. QED
      BY <2>7, <3>4
  <2>8. CASE i # 1
    <3>1. i - 1 \in 1 .. n
      <4> HIDE DEF n
      <4>1. QED
        BY <1>2, <2>8
    <3>2. f[i - 1] = g[1 .. (i - 1)]
      BY <3>1
    <3>3. f[i] = f[i - 1] \o seqs[i]
      BY <2>6, <3>2
    <3> HIDE DEF f
    <3>4. QED
      BY <2>8, <3>3
  <2>9. QED
    BY <2>7, <2>8
<1>5. f = [i \in 1 .. n |-> f[i]]
  OBVIOUS
<1> HIDE DEF f
<1>6. FlattenRun(f, seqs)
  BY <1>4, <1>5 DEF FlattenRun
<1>7. QED
  BY <1>6

LEMMA FlattenIs ==
    ASSUME NEW L, NEW seqs \in Seq(Seq(L))
    PROVE  Timeline!FlattenSeq(seqs) \in Seq(L)
<1> DEFINE n == Len(seqs)
           f == CHOOSE f : FlattenRun(f, seqs)
           Bad == {i \in 0 .. n : i # 0 /\ ~ (f[i] \in Seq(L))}
<1>1. n \in Nat /\ \A i \in 1 .. n : seqs[i] \in Seq(L)
  OBVIOUS
<1>2. FlattenRun(f, seqs)
  BY FlattenRunExists
<1>3. Timeline!FlattenSeq(seqs) = IF n = 0 THEN seqs ELSE f[n]
  BY DEF Timeline!FlattenSeq, FlattenRun
<1> HIDE DEF f
<1>4. ASSUME Bad # {} PROVE FALSE
  <2>1. PICK i \in Bad : \A k \in Bad : i <= k
    <3>1. Bad \subseteq 0 .. n
      OBVIOUS
    <3> HIDE DEF Bad
    <3>2. QED
      BY <1>1, <1>4, <3>1, SmallestNumber
  <2>2. i \in 1 .. n /\ i \in Nat /\ ~ (f[i] \in Seq(L))
    BY <1>1
  <2>3. i # 1 => i - 1 \in 1 .. n /\ f[i - 1] \in Seq(L)
    <3>1. i # 1 => i - 1 \in 0 .. n /\ i - 1 # 0 /\ ~ (i <= i - 1) /\ i - 1 \in 1 .. n
      BY <1>1, <2>2
    <3>2. i - 1 \notin Bad \/ i = 1
      <4> HIDE DEF Bad
      <4>1. QED
        BY <2>1, <3>1
    <3>3. QED
      BY <3>1, <3>2
  <2> HIDE DEF Bad
  <2>4. f[i] = IF i = 1 THEN seqs[i] ELSE f[i - 1] \o seqs[i]
    BY <1>2, <2>2 DEF FlattenRun
  <2>5. CASE i = 1
    BY <1>1, <2>2, <2>4, <2>5
  <2>6. CASE i # 1
    <3>1. f[i - 1] \in Seq(L) /\ seqs[i] \in Seq(L)
      BY <1>1, <2>2, <2>3, <2>6
    <3>2. f[i - 1] \o seqs[i] \in Seq(L)
      BY <3>1, ConcatIs
    <3>3. QED
      BY <2>2, <2>4, <2>6, <3>2
  <2>7. QED
    BY <2>5, <2>6
<1>5. CASE n = 0
  <2>1. seqs = <<>>
    BY <1>5
  <2>2. QED
    BY <1>3, <1>5, <2>1
<1>6. CASE n # 0
  <2>1. n \in 0 .. n /\ n \notin Bad
    BY <1>1, <1>4
  <2>2. f[n] \in Seq(L)
    BY <1>6, <2>1
  <2>3. QED
    BY <1>3, <1>6, <2>2
<1>7. QED
  BY <1>5, <1>6

WrittenLines ==
    [kind : Headings, text : Phrases]
    \union [kind : {"section"}, label : Words \ DOMAIN timeline.periodOf]
    \union {line \in [kind : {"period"}, label : Labels \ DOMAIN timeline.titleOf, event : Labels] :
              line.event = None => line.label \notin DOMAIN timeline.sectionOf}
    \union [kind : {"continuation"}, event : Words]

LEMMA WrittenLinesAre == \A line \in WrittenLines : IsTimelineLine(line)
BY DEF WrittenLines, IsTimelineLine, Headings

LEMMA TextLineIs ==
    ASSUME NEW b \in Timelines, NEW head \in Headings
    PROVE  Timeline!TextLine(b, head) \in Seq(WrittenLines)
<1>1. b[head] \in Phrases
  BY DEF Timelines, Headings
<1>2. [kind |-> head, text |-> b[head]] \in WrittenLines
  BY <1>1 DEF WrittenLines
<1>3. QED
  BY <1>2 DEF Timeline!TextLine

LEMMA SectionLineIs ==
    ASSUME NEW label \in Labels
    PROVE  Timeline!SectionLine(label) \in Seq(WrittenLines)
<1>1. CASE label \in DOMAIN timeline.periodOf
  <2>1. /\ timeline.periodOf[label].label \in Labels \ DOMAIN timeline.titleOf
        /\ timeline.periodOf[label].event \in Words
    BY <1>1, TimelineSources DEF Words, Labels
  <2>2. [kind |-> "period", label |-> timeline.periodOf[label].label,
         event |-> timeline.periodOf[label].event] \in WrittenLines
    BY <2>1 DEF WrittenLines, Words, Labels
  <2>3. QED
    BY <1>1, <2>2 DEF Timeline!SectionLine
<1>2. CASE label \notin DOMAIN timeline.periodOf
  <2>1. label # None => [kind |-> "section", label |-> label] \in WrittenLines
    BY <1>2 DEF WrittenLines, Labels
  <2>2. QED
    BY <1>2, <2>1 DEF Timeline!SectionLine
<1>3. QED
  BY <1>1, <1>2

LEMMA PeriodLineIs ==
    ASSUME NEW p \in PeriodItems
    PROVE  Timeline!PeriodLine(p) \in WrittenLines
<1> DEFINE event == IF p.events = <<>> THEN None ELSE p.events[1]
<1>1. p.label \in Labels /\ event \in Labels
  <2>1. p.label \in Labels /\ p.events \in Seq(Words) /\ None \in Labels /\ Words \subseteq Labels
    BY DEF PeriodItems, Labels
  <2>2. QED
    BY <2>1
<1>2. p.label \in DOMAIN timeline.titleOf =>
        [kind |-> "title", text |-> <<timeline.titleOf[p.label], event>>] \in WrittenLines
  <2> HIDE DEF event
  <2>1. ASSUME p.label \in DOMAIN timeline.titleOf
        PROVE  <<timeline.titleOf[p.label], event>> \in Phrases
    BY <1>1, <2>1 DEF Phrases
  <2>2. QED
    BY <2>1 DEF WrittenLines, Headings
<1>3. p.label \in DOMAIN timeline.sectionOf =>
        [kind |-> "section", label |-> timeline.sectionOf[p.label]] \in WrittenLines
  <2>1. p.label \in DOMAIN timeline.sectionOf => timeline.sectionOf[p.label] \in Words \ DOMAIN timeline.periodOf
    BY TimelineSources DEF Words
  <2>2. QED
    BY <2>1 DEF WrittenLines
<1>4. p.label \notin DOMAIN timeline.titleOf /\ ~(p.label \in DOMAIN timeline.sectionOf /\ event = None)
        => [kind |-> "period", label |-> p.label, event |-> event] \in WrittenLines
  <2> HIDE DEF event
  <2>1. QED
    BY <1>1 DEF WrittenLines
<1>5. Timeline!PeriodLine(p) =
        CASE p.label \in DOMAIN timeline.titleOf ->
               [kind |-> "title", text |-> <<timeline.titleOf[p.label], event>>]
          [] p.label \in DOMAIN timeline.sectionOf /\ event = None ->
               [kind |-> "section", label |-> timeline.sectionOf[p.label]]
          [] OTHER -> [kind |-> "period", label |-> p.label, event |-> event]
  BY DEF Timeline!PeriodLine
<1> HIDE DEF event
<1>6. QED
  BY <1>2, <1>3, <1>4, <1>5

LEMMA PeriodLinesAre ==
    ASSUME NEW p \in PeriodItems
    PROVE  Timeline!PeriodLines(p) \in Seq(WrittenLines)
<1> DEFINE more == SubSeq(p.events, 2, Len(p.events))
           lines == [k \in DOMAIN more |-> [kind |-> "continuation", event |-> more[k]]]
<1>1. p.events \in Seq(Words)
  BY DEF PeriodItems
<1>2. more \in Seq(Words)
  BY <1>1
<1> HIDE DEF more
<1>3. \A k \in DOMAIN more : more[k] \in Words
  BY <1>2
<1>4. \A k \in DOMAIN more : [kind |-> "continuation", event |-> more[k]] \in WrittenLines
  BY <1>3 DEF WrittenLines
<1>5. lines \in Seq(WrittenLines)
  BY <1>2, <1>4
<1> HIDE DEF lines
<1>6. <<Timeline!PeriodLine(p)>> \in Seq(WrittenLines)
  BY PeriodLineIs
<1>7. Timeline!PeriodLines(p) = <<Timeline!PeriodLine(p)>> \o lines
  BY DEF Timeline!PeriodLines, lines, more
<1>8. QED
  BY <1>5, <1>6, <1>7, ConcatIs

LEMMA TimelineRenderIs ==
    ASSUME NEW b \in Timelines
    PROVE  Timeline!Render(b) \in Seq(WrittenLines)
<1> DEFINE S == Seq(WrittenLines)
           listed(s) == [p \in Timeline!Periods(b, s) |-> Timeline!PeriodLines(b.sections[s].periods[p])]
           told(s) == Timeline!SectionLine(b.sections[s].label) \o Timeline!FlattenSeq(listed(s))
           sections == [s \in Timeline!Sections(b) |-> told(s)]
<1>1. /\ b.sections \in Seq(SectionItems)
      /\ \A s \in DOMAIN b.sections :
           b.sections[s].label \in Labels /\ b.sections[s].periods \in Seq(PeriodItems)
  BY TimelineIs
<1>2. ASSUME NEW s \in DOMAIN b.sections PROVE told(s) \in S
  <2>1. \A p \in DOMAIN b.sections[s].periods : b.sections[s].periods[p] \in PeriodItems
    BY <1>1
  <2>2. \A p \in DOMAIN b.sections[s].periods : Timeline!PeriodLines(b.sections[s].periods[p]) \in S
    BY <2>1, PeriodLinesAre
  <2> HIDE DEF S
  <2>3. listed(s) \in Seq(S)
    <3>1. b.sections[s].periods \in Seq(PeriodItems)
      BY <1>1
    <3>2. DOMAIN b.sections[s].periods = 1 .. Len(b.sections[s].periods) /\ Len(b.sections[s].periods) \in Nat
      BY <3>1
    <3>3. QED
      BY <2>2, <3>2 DEF Timeline!Periods
  <2>4. Timeline!FlattenSeq(listed(s)) \in S
    <3> HIDE DEF listed
    <3>1. QED
      BY <2>3, FlattenIs DEF S
  <2>5. Timeline!SectionLine(b.sections[s].label) \in S
    BY <1>1, SectionLineIs DEF S
  <2> HIDE DEF listed
  <2>6. QED
    BY <2>4, <2>5, ConcatIs DEF S
<1> HIDE DEF told, S
<1>3. sections \in Seq(S)
  BY <1>1, <1>2 DEF Timeline!Sections
<1> HIDE DEF sections
<1>4. Timeline!FlattenSeq(sections) \in S
  BY <1>3, FlattenIs DEF S
<1> DEFINE title == Timeline!TextLine(b, "title")
           accTitle == Timeline!TextLine(b, "accTitle")
           accDescr == Timeline!TextLine(b, "accDescr")
<1>5. title \in S /\ accTitle \in S /\ accDescr \in S
  BY TextLineIs DEF S, Headings
<1> HIDE DEF title, accTitle, accDescr
<1>6. title \o accTitle \in S
  BY <1>5, ConcatIs DEF S
<1>7. title \o accTitle \o accDescr \in S
  BY <1>5, <1>6, ConcatIs DEF S
<1>8. title \o accTitle \o accDescr \o Timeline!FlattenSeq(sections) \in S
  BY <1>4, <1>7, ConcatIs DEF S
<1>9. QED
  BY <1>8 DEF Timeline!Render, title, accTitle, accDescr, sections, told, S

\* Whatever is written is read as a timeline, if it is read at all.
LEMMA TimelineReparseIs ==
    ASSUME NEW b \in Timelines
    PROVE  Timeline!Reparse(b) \subseteq Read
BY TimelineRenderIs, WrittenLinesAre, TimelineParseIs DEF Timeline!Reparse

(***************************************************************************)
(* Timelines: what operations leave.                                       *)
(***************************************************************************)
LEMMA TimelineInsertAtIs ==
    ASSUME NEW L, NEW s \in Seq(L), NEW i \in 1 .. Len(s) + 1, NEW e \in L
    PROVE  /\ Timeline!InsertAt(s, i, e) = Inserted(s, i, e)
           /\ Timeline!InsertAt(s, i, e) \in Seq(L)
           /\ Len(Timeline!InsertAt(s, i, e)) = Len(s) + 1
<1>1. Timeline!InsertAt(s, i, e) = InsertAt(s, i, e)
  BY DEF InsertAt, Timeline!InsertAt
<1>2. QED
  BY <1>1, InsertAtIs, InsertedIs

LEMMA TimelineRemoveAtIs ==
    ASSUME NEW L, NEW s \in Seq(L), NEW i \in 1 .. Len(s)
    PROVE  /\ Timeline!RemoveAt(s, i) = Removed(s, i)
           /\ Timeline!RemoveAt(s, i) \in Seq(L)
           /\ Len(Timeline!RemoveAt(s, i)) = Len(s) - 1
<1>1. Timeline!RemoveAt(s, i) = RemoveAt(s, i)
  BY DEF RemoveAt, Timeline!RemoveAt
<1>2. QED
  BY <1>1, RemoveAtIs, RemovedIs

LEMMA TellableIs ==
    ASSUME NEW b \in Tellable
    PROVE  /\ b \in Timelines /\ OneImplicit(b) /\ \A s \in DOMAIN b.sections : Told(b, s)
           /\ b.sections \in Seq(SectionItems)
BY TimelineIs DEF Tellable

LEMMA SectionsReplaced ==
    ASSUME NEW b \in Timelines, NEW sections \in Seq(SectionItems)
    PROVE  /\ [b EXCEPT !.sections = sections] \in Timelines
           /\ [b EXCEPT !.sections = sections].sections = sections
BY DEF Timelines

\* Sections that were there before, each at most once, and some with a label.
\* from gives the place each had, 0 for those that are new.
ComeFrom(sections, from, b) ==
    /\ \A s \in DOMAIN sections :
         \/ sections[s].label # None
         \/ from[s] \in DOMAIN b.sections /\ sections[s] = b.sections[from[s]] /\ Told(b, from[s])
    /\ \A s, t \in DOMAIN sections : s # t => from[s] # from[t]

LEMMA SectionsFrom ==
    ASSUME NEW b \in Timelines, OneImplicit(b), NEW sections \in Seq(SectionItems), NEW from,
           ComeFrom(sections, from, b)
    PROVE  [b EXCEPT !.sections = sections] \in Tellable
<1> DEFINE c == [b EXCEPT !.sections = sections]
<1>1. c \in Timelines /\ c.sections = sections
  BY SectionsReplaced
<1> HIDE DEF c
<1>2. \A s \in DOMAIN sections : Told(c, s)
  BY <1>1 DEF Told, ComeFrom
<1>3. ASSUME NEW s \in DOMAIN sections, sections[s].label = None,
             NEW other \in DOMAIN sections \ {s}
      PROVE  sections[other].label # None
  <2> SUFFICES ASSUME sections[other].label = None PROVE FALSE
    OBVIOUS
  <2>1. /\ from[s] \in DOMAIN b.sections /\ b.sections[from[s]].label = None
        /\ from[other] \in DOMAIN b.sections /\ b.sections[from[other]].label = None
    BY <1>3 DEF ComeFrom
  <2>2. from[s] # from[other]
    BY DEF ComeFrom
  <2>3. QED
    BY <2>1, <2>2 DEF OneImplicit
<1>4. c \in Tellable
  BY <1>1, <1>2, <1>3 DEF Tellable, OneImplicit
<1>5. QED
  BY <1>4 DEF c

LEMMA SectionAdded ==
    ASSUME NEW b \in Tellable, NEW at \in 1 .. Len(b.sections) + 1, NEW label \in Words
    PROVE  Timeline!AddSection(b, at, label) \subseteq Tellable
<1> DEFINE n == Len(b.sections)
           section == [label |-> label, periods |-> <<>>]
           sections == Inserted(b.sections, at, section)
           from == [s \in 1 .. n + 1 |-> IF s < at THEN s ELSE IF s = at THEN 0 ELSE s - 1]
<1>1. /\ b \in Timelines /\ OneImplicit(b) /\ \A s \in DOMAIN b.sections : Told(b, s)
      /\ b.sections \in Seq(SectionItems) /\ n \in Nat /\ DOMAIN b.sections = 1 .. n
  BY TellableIs
<1>2. section \in SectionItems /\ section.label # None
  BY DEF SectionItems, Words, Labels
<1> HIDE DEF section
<1>3. /\ sections \in Seq(SectionItems) /\ DOMAIN sections = 1 .. n + 1
      /\ Timeline!InsertAt(b.sections, at, section) = sections
  BY <1>1, <1>2, InsertedIs, TimelineInsertAtIs
<1>4. ASSUME NEW s \in 1 .. n + 1
      PROVE  /\ sections[s] = IF s < at THEN b.sections[s] ELSE IF s = at THEN section ELSE b.sections[s - 1]
             /\ s < at => s \in 1 .. n
             /\ s > at => s - 1 \in 1 .. n
             /\ s \in Nat /\ at \in Nat
  BY <1>1 DEF Inserted
<1>5. \A s \in 1 .. n + 1 :
        \/ sections[s].label # None
        \/ from[s] \in DOMAIN b.sections /\ sections[s] = b.sections[from[s]] /\ Told(b, from[s])
  <2> SUFFICES ASSUME NEW s \in 1 .. n + 1
               PROVE  \/ sections[s].label # None
                      \/ /\ from[s] \in DOMAIN b.sections /\ sections[s] = b.sections[from[s]]
                         /\ Told(b, from[s])
    OBVIOUS
  <2>1. from[s] = IF s < at THEN s ELSE IF s = at THEN 0 ELSE s - 1
    OBVIOUS
  <2> HIDE DEF sections, n, from
  <2>2. CASE s < at
    BY <1>1, <1>4, <2>1, <2>2
  <2>3. CASE s = at
    BY <1>2, <1>4, <2>3
  <2>4. CASE s > at
    BY <1>1, <1>4, <2>1, <2>4
  <2>5. QED
    BY <1>4, <2>2, <2>3, <2>4
<1>6. \A s, t \in 1 .. n + 1 : s # t => from[s] # from[t]
  <2> HIDE DEF n
  <2>1. QED
    BY <1>1, <1>4
<1> HIDE DEF sections, from, n
<1>7. [b EXCEPT !.sections = sections] \in Tellable
  <2>1. ComeFrom(sections, from, b)
    BY <1>3, <1>5, <1>6 DEF ComeFrom
  <2>2. QED
    BY <1>1, <1>3, <2>1, SectionsFrom
<1>8. Timeline!AddSection(b, at, label) = {[b EXCEPT !.sections = sections]}
  BY <1>3 DEF Timeline!AddSection, Timeline!Section, section
<1>9. QED
  BY <1>7, <1>8

\* A section is dropped, whatever it holds.
LEMMA SectionDropped ==
    ASSUME NEW b \in Timelines, OneImplicit(b), NEW s \in DOMAIN b.sections,
           \A other \in DOMAIN b.sections \ {s} : Told(b, other)
    PROVE  [b EXCEPT !.sections = Timeline!RemoveAt(@, s)] \in Tellable
<1> DEFINE n == Len(b.sections)
           sections == Removed(b.sections, s)
           from == [t \in 1 .. n - 1 |-> IF t < s THEN t ELSE t + 1]
<1>1. b.sections \in Seq(SectionItems) /\ n \in Nat /\ DOMAIN b.sections = 1 .. n /\ s \in 1 .. n
  BY TimelineIs
<1>2. /\ sections \in Seq(SectionItems) /\ DOMAIN sections = 1 .. n - 1
      /\ Timeline!RemoveAt(b.sections, s) = sections
  BY <1>1, RemovedIs, TimelineRemoveAtIs
<1>3. ASSUME NEW t \in 1 .. n - 1
      PROVE  /\ sections[t] = IF t < s THEN b.sections[t] ELSE b.sections[t + 1]
             /\ t \in 1 .. n /\ t + 1 \in 1 .. n /\ t \in Nat /\ s \in Nat
             /\ from[t] = IF t < s THEN t ELSE t + 1
  BY <1>1 DEF Removed
<1> HIDE DEF sections, from, n
<1>4. ASSUME NEW t \in DOMAIN sections
      PROVE  from[t] \in DOMAIN b.sections \ {s} /\ sections[t] = b.sections[from[t]]
  <2>1. t \in 1 .. n - 1
    BY <1>2
  <2>2. CASE t < s
    BY <1>1, <1>3, <2>1, <2>2
  <2>3. CASE ~(t < s)
    <3>1. from[t] = t + 1 /\ t + 1 # s /\ sections[t] = b.sections[t + 1] /\ t + 1 \in 1 .. n
      BY <1>3, <2>1, <2>3
    <3>2. QED
      BY <1>1, <3>1
  <2>4. QED
    BY <2>2, <2>3
<1>5. \A t, u \in DOMAIN sections : t # u => from[t] # from[u]
  BY <1>2, <1>3
<1>6. \A t \in DOMAIN sections :
        \/ sections[t].label # None
        \/ from[t] \in DOMAIN b.sections /\ sections[t] = b.sections[from[t]] /\ Told(b, from[t])
  BY <1>4
<1>7. ComeFrom(sections, from, b)
  BY <1>5, <1>6 DEF ComeFrom
<1>8. [b EXCEPT !.sections = sections] \in Tellable
  BY <1>2, <1>7, SectionsFrom
<1>9. QED
  BY <1>2, <1>8

LEMMA LabelReplaced ==
    ASSUME NEW section \in SectionItems, NEW label
    PROVE  [section EXCEPT !.label = label] = [label |-> label, periods |-> section.periods]
BY DEF SectionItems

LEMMA SectionRelabelled ==
    ASSUME NEW b \in Tellable, NEW s \in DOMAIN b.sections, NEW label \in Words
    PROVE  Timeline!SetSectionLabel(b, s, label) \subseteq Tellable
<1> DEFINE section == [label |-> label, periods |-> b.sections[s].periods]
           sections == [b.sections EXCEPT ![s] = section]
           from == [t \in DOMAIN b.sections |-> t]
<1>1. /\ b \in Timelines /\ OneImplicit(b) /\ \A t \in DOMAIN b.sections : Told(b, t)
      /\ b.sections \in Seq(SectionItems) /\ b.sections[s] \in SectionItems
  BY TellableIs, TimelineIs
<1>2. section \in SectionItems /\ section = [b.sections[s] EXCEPT !.label = label]
  <2>1. b.sections[s].periods \in Seq(PeriodItems) /\ label \in Labels
    BY <1>1, TimelineIs DEF Labels
  <2>2. section \in SectionItems
    BY <2>1 DEF SectionItems
  <2>3. section = [b.sections[s] EXCEPT !.label = label]
    BY <1>1, LabelReplaced
  <2> HIDE DEF section
  <2>4. QED
    BY <2>2, <2>3
<1>3. section.label # None
  BY DEF Words
<1>4. Timeline!SetSectionLabel(b, s, label) = {[b EXCEPT !.sections = sections]}
  BY <1>2 DEF Timeline!SetSectionLabel
<1> HIDE DEF section
<1>5. /\ sections \in Seq(SectionItems) /\ DOMAIN sections = DOMAIN b.sections
      /\ sections[s] = section
      /\ \A t \in DOMAIN b.sections \ {s} : sections[t] = b.sections[t]
  BY <1>1, <1>2
<1> HIDE DEF sections
<1>6. \A t \in DOMAIN sections :
        \/ sections[t].label # None
        \/ from[t] \in DOMAIN b.sections /\ sections[t] = b.sections[from[t]] /\ Told(b, from[t])
  BY <1>1, <1>3, <1>5
<1>7. \A t, u \in DOMAIN sections : t # u => from[t] # from[u]
  BY <1>5
<1> HIDE DEF from
<1>8. ComeFrom(sections, from, b)
  BY <1>6, <1>7 DEF ComeFrom
<1>9. [b EXCEPT !.sections = sections] \in Tellable
  BY <1>1, <1>5, <1>8, SectionsFrom
<1>10. QED
  BY <1>4, <1>9

LEMMA OriginsDiffer ==
    ASSUME NEW n \in Nat, NEW from \in 1 .. n, NEW to \in 1 .. n, NEW j \in 1 .. n, NEW k \in 1 .. n,
           j # k
    PROVE  Origin(from, to, j) # Origin(from, to, k)
BY DEF Origin

LEMMA SectionMoved ==
    ASSUME NEW b \in Tellable, NEW from \in DOMAIN b.sections, NEW to \in DOMAIN b.sections
    PROVE  Timeline!MoveSection(b, from, to) \subseteq Tellable
<1> DEFINE n == Len(b.sections)
           sections == Radar!Moved(b.sections, from, to)
           origin == [s \in 1 .. n |-> Origin(from, to, s)]
<1>1. /\ b \in Timelines /\ OneImplicit(b) /\ \A s \in DOMAIN b.sections : Told(b, s)
      /\ b.sections \in Seq(SectionItems) /\ n \in Nat /\ DOMAIN b.sections = 1 .. n
      /\ from \in 1 .. n /\ to \in 1 .. n
  BY TellableIs
<1>2. Timeline!MoveSection(b, from, to) = {[b EXCEPT !.sections = sections]}
  BY DEF Timeline!MoveSection, Timeline!InsertAt, Timeline!RemoveAt, Radar!Moved, Radar!InsertAt,
         Radar!RemoveAt
<1> HIDE DEF sections
<1>3. /\ sections \in Seq(SectionItems) /\ DOMAIN sections = 1 .. n
      /\ \A s \in 1 .. n : sections[s] = b.sections[Origin(from, to, s)]
  <2>1. from \in 1 .. Len(b.sections) /\ to \in 1 .. Len(b.sections)
    BY <1>1
  <2>2. /\ sections \in Seq(SectionItems) /\ Len(sections) = n
        /\ \A s \in 1 .. n : sections[s] = b.sections[Origin(from, to, s)]
    BY <1>1, <2>1, MovedSequence DEF sections
  <2>3. QED
    BY <2>2
<1>4. \A s \in 1 .. n : origin[s] \in 1 .. n /\ sections[s] = b.sections[origin[s]]
  <2> HIDE DEF n
  <2>1. QED
    BY <1>1, <1>3, OriginIs
<1>5. \A s, t \in 1 .. n : s # t => origin[s] # origin[t]
  <2> HIDE DEF n
  <2>1. QED
    BY <1>1, OriginsDiffer
<1> HIDE DEF origin, n
<1>6. \A s \in DOMAIN sections :
        \/ sections[s].label # None
        \/ origin[s] \in DOMAIN b.sections /\ sections[s] = b.sections[origin[s]] /\ Told(b, origin[s])
  BY <1>1, <1>3, <1>4
<1>7. \A s, t \in DOMAIN sections : s # t => origin[s] # origin[t]
  BY <1>3, <1>5
<1>8. ComeFrom(sections, origin, b)
  BY <1>6, <1>7 DEF ComeFrom
<1>9. [b EXCEPT !.sections = sections] \in Tellable
  BY <1>1, <1>3, <1>8, SectionsFrom
<1>10. QED
  BY <1>2, <1>9

\* Other periods in a section leave the labels, and the other sections' periods.
TellsRest(c, b, s) ==
    /\ c \in Timelines /\ OneImplicit(c) /\ DOMAIN c.sections = DOMAIN b.sections
    /\ \A other \in DOMAIN b.sections \ {s} : Told(b, other) => Told(c, other)

LEMMA ReperiodedTells ==
    ASSUME NEW b \in Timelines, OneImplicit(b), NEW s \in DOMAIN b.sections,
           NEW periods \in Seq(PeriodItems)
    PROVE  /\ TellsRest(Reperioded(b, s, periods), b, s)
           /\ periods # <<>> => Told(Reperioded(b, s, periods), s)
<1> DEFINE c == Reperioded(b, s, periods)
<1>1. /\ c \in Timelines /\ DOMAIN c.sections = DOMAIN b.sections
      /\ c.sections[s] = [label |-> b.sections[s].label, periods |-> periods]
      /\ \A other \in DOMAIN b.sections \ {s} : c.sections[other] = b.sections[other]
  BY ReperiodedIs DEF HasPeriods
<1> HIDE DEF c
<1>2. \A t \in DOMAIN b.sections : c.sections[t].label = b.sections[t].label
  BY <1>1
<1>3. OneImplicit(c)
  BY <1>1, <1>2 DEF OneImplicit
<1>4. periods # <<>> => Told(c, s)
  BY <1>1 DEF Told
<1>5. \A other \in DOMAIN b.sections \ {s} : Told(b, other) => Told(c, other)
  BY <1>1 DEF Told
<1>6. QED
  BY <1>1, <1>3, <1>4, <1>5 DEF c, TellsRest

\* What is left of a section that lost periods: it may be dropped.
LEMMA EmptiedIsDropped ==
    ASSUME NEW b \in Timelines, OneImplicit(b), NEW s \in DOMAIN b.sections,
           \A other \in DOMAIN b.sections \ {s} : Told(b, other)
    PROVE  Timeline!DropEmptiedImplicitSection(b, s) \in Tellable
<1>1. CASE b.sections[s] = Timeline!Section(None, <<>>)
  BY <1>1, SectionDropped DEF Timeline!DropEmptiedImplicitSection
<1>2. CASE b.sections[s] # Timeline!Section(None, <<>>)
  <2>1. b.sections[s] \in SectionItems
    BY TimelineIs
  <2>2. Told(b, s)
    BY <1>2, <2>1 DEF Told, SectionItems, Timeline!Section
  <2>3. QED
    BY <1>2, <2>2 DEF Timeline!DropEmptiedImplicitSection, Tellable
<1>3. QED
  BY <1>1, <1>2

LEMMA PeriodAdded ==
    ASSUME NEW b \in Tellable, NEW s \in DOMAIN b.sections,
           NEW at \in 1 .. Len(b.sections[s].periods) + 1, NEW label \in Labels, NEW events \in Seq(Words)
    PROVE  Timeline!AddPeriod(b, s, at, label, events) \subseteq Tellable
<1> DEFINE period == [label |-> label, events |-> events]
           old == b.sections[s].periods
           periods == Timeline!InsertAt(old, at, period)
           c == Reperioded(b, s, periods)
<1>1. period \in PeriodItems
  BY DEF PeriodItems
<1> HIDE DEF period
<1>2. old \in Seq(PeriodItems) /\ Len(old) \in Nat
  BY TellableIs, TimelineIs
<1>3. periods \in Seq(PeriodItems) /\ Len(periods) = Len(old) + 1
  <2>1. at \in 1 .. Len(old) + 1
    OBVIOUS
  <2> HIDE DEF old
  <2>2. QED
    BY <1>1, <1>2, <2>1, TimelineInsertAtIs
<1>4. Timeline!AddPeriod(b, s, at, label, events) = {c}
  BY DEF Timeline!AddPeriod, Timeline!Period, period, Reperioded
<1> HIDE DEF periods
<1>5. periods # <<>>
  BY <1>2, <1>3
<1>6. TellsRest(c, b, s) /\ Told(c, s)
  BY <1>3, <1>5, TellableIs, ReperiodedTells
<1> HIDE DEF c
<1>7. c \in Tellable
  BY <1>6, TellableIs DEF Tellable, TellsRest
<1>8. QED
  BY <1>4, <1>7

LEMMA PeriodRemoved ==
    ASSUME NEW b \in Tellable, NEW s \in DOMAIN b.sections, NEW p \in DOMAIN b.sections[s].periods
    PROVE  Timeline!RemovePeriod(b, s, p) \subseteq Tellable
<1> DEFINE old == b.sections[s].periods
           periods == Timeline!RemoveAt(old, p)
           c == Reperioded(b, s, periods)
<1>1. old \in Seq(PeriodItems) /\ p \in 1 .. Len(old)
  BY TellableIs, TimelineIs
<1>2. periods \in Seq(PeriodItems)
  BY <1>1, TimelineRemoveAtIs
<1>3. Timeline!RemovePeriod(b, s, p) = {Timeline!DropEmptiedImplicitSection(c, s)}
  BY DEF Timeline!RemovePeriod, Reperioded
<1> HIDE DEF periods
<1>4. TellsRest(c, b, s)
  BY <1>2, TellableIs, ReperiodedTells
<1> HIDE DEF c
<1>5. /\ c \in Timelines /\ OneImplicit(c) /\ s \in DOMAIN c.sections
      /\ \A t \in DOMAIN c.sections \ {s} : Told(c, t)
  BY <1>4, TellableIs DEF TellsRest
<1>6. Timeline!DropEmptiedImplicitSection(c, s) \in Tellable
  BY <1>5, EmptiedIsDropped
<1>7. QED
  BY <1>3, <1>6

LEMMA PeriodMoved ==
    ASSUME NEW b \in Tellable, NEW s \in DOMAIN b.sections, NEW p \in DOMAIN b.sections[s].periods,
           NEW to \in DOMAIN b.sections, NEW at \in Nat \ {0}
    PROVE  Timeline!MovePeriod(b, s, p, to, at) \subseteq Tellable
<1> DEFINE old == b.sections[s].periods
           left == Timeline!RemoveAt(old, p)
           rest == Reperioded(b, s, left)
           there == rest.sections[to].periods
           periods == Timeline!InsertAt(there, at, old[p])
           moved == Reperioded(rest, to, periods)
<1>1. old \in Seq(PeriodItems) /\ p \in 1 .. Len(old) /\ old[p] \in PeriodItems
  BY TellableIs, TimelineIs
<1>2. left \in Seq(PeriodItems)
  BY <1>1, TimelineRemoveAtIs
<1>3. Timeline!MovePeriod(b, s, p, to, at) =
        IF at > Len(there) + 1 THEN {}
        ELSE {IF s = to THEN moved ELSE Timeline!DropEmptiedImplicitSection(moved, s)}
  BY DEF Timeline!MovePeriod, Reperioded
<1> HIDE DEF left
<1>4. /\ rest \in Timelines /\ OneImplicit(rest) /\ DOMAIN rest.sections = DOMAIN b.sections
      /\ \A t \in DOMAIN b.sections \ {s} : Told(rest, t)
  <2>1. b \in Timelines /\ OneImplicit(b) /\ \A t \in DOMAIN b.sections : Told(b, t)
    BY TellableIs
  <2>2. TellsRest(rest, b, s)
    BY <1>2, <2>1, ReperiodedTells
  <2> HIDE DEF rest
  <2>3. QED
    BY <2>1, <2>2 DEF TellsRest
<1> HIDE DEF rest
<1>5. there \in Seq(PeriodItems)
  BY <1>4, TimelineIs
<1> HIDE DEF there, old
<1>6. ASSUME ~ (at > Len(there) + 1)
      PROVE  /\ moved \in Timelines /\ OneImplicit(moved) /\ DOMAIN moved.sections = DOMAIN b.sections
             /\ \A t \in DOMAIN b.sections \ {s} : Told(moved, t)
             /\ Told(moved, to)
  <2>1. at \in 1 .. Len(there) + 1
    BY <1>5, <1>6
  <2>2. periods \in Seq(PeriodItems) /\ Len(periods) = Len(there) + 1
    BY <1>1, <1>5, <2>1, TimelineInsertAtIs
  <2> HIDE DEF periods
  <2>3. periods # <<>>
    BY <1>5, <2>2
  <2>4. to \in DOMAIN rest.sections
    BY <1>4
  <2>5. TellsRest(moved, rest, to) /\ Told(moved, to)
    BY <1>4, <2>2, <2>3, <2>4, ReperiodedTells
  <2> HIDE DEF moved
  <2>6. QED
    BY <1>4, <2>5 DEF TellsRest
<1> HIDE DEF moved
<1>7. CASE at > Len(there) + 1
  BY <1>3, <1>7
<1>8. CASE ~ (at > Len(there) + 1) /\ s = to
  BY <1>3, <1>6, <1>8 DEF Tellable
<1>9. CASE ~ (at > Len(there) + 1) /\ s # to
  <2>1. Timeline!DropEmptiedImplicitSection(moved, s) \in Tellable
    BY <1>6, <1>9, EmptiedIsDropped
  <2>2. QED
    BY <1>3, <1>9, <2>1
<1>10. QED
  BY <1>7, <1>8, <1>9

LEMMA PeriodRelabelled ==
    ASSUME NEW b \in Tellable, NEW s \in DOMAIN b.sections, NEW p \in DOMAIN b.sections[s].periods,
           NEW label \in Labels
    PROVE  Timeline!SetPeriodLabel(b, s, p, label) \subseteq Tellable
<1> DEFINE old == b.sections[s].periods
           periods == [old EXCEPT ![p].label = label]
           c == Reperioded(b, s, periods)
<1>1. old \in Seq(PeriodItems) /\ Told(b, s)
  BY TellableIs, TimelineIs
<1>2. old[p] \in PeriodItems
  BY <1>1
<1>3. [old[p] EXCEPT !.label = label] \in PeriodItems
  BY <1>2 DEF PeriodItems
<1>4. periods \in Seq(PeriodItems) /\ Len(periods) = Len(old)
  BY <1>1, <1>3
<1>5. periods # <<>>
  BY <1>1, <1>4
<1>6. Timeline!SetPeriodLabel(b, s, p, label) = {c}
  BY DEF Reperioded, Timeline!SetPeriodLabel
<1> HIDE DEF periods
<1>7. TellsRest(c, b, s) /\ Told(c, s)
  BY <1>4, <1>5, TellableIs, ReperiodedTells
<1> HIDE DEF c
<1>8. c \in Tellable
  BY <1>7, TellableIs DEF Tellable, TellsRest
<1>9. QED
  BY <1>6, <1>8

LEMMA EventsReplaced ==
    ASSUME NEW b \in Tellable, NEW s \in DOMAIN b.sections, NEW p \in DOMAIN b.sections[s].periods,
           NEW events \in Seq(Words)
    PROVE  LET c == [b EXCEPT !.sections[s].periods[p].events = events]
           IN c \in Tellable /\ SameOutline(b, c)
<1> DEFINE c == [b EXCEPT !.sections[s].periods[p].events = events]
<1>1. c \in Timelines /\ SameOutline(b, c)
  BY TellableIs, ReeventedIs
<1> HIDE DEF c
<1>2. c \in Tellable
  BY <1>1, TellableIs, OutlineStays
<1>3. QED
  BY <1>1, <1>2 DEF c

LEMMA EventsAre ==
    ASSUME NEW b \in Tellable, NEW s \in DOMAIN b.sections, NEW p \in DOMAIN b.sections[s].periods
    PROVE  b.sections[s].periods[p].events \in Seq(Words)
<1>1. b.sections[s].periods \in Seq(PeriodItems)
  BY TellableIs, TimelineIs
<1>2. b.sections[s].periods[p] \in PeriodItems
  BY <1>1
<1>3. QED
  BY <1>2 DEF PeriodItems

LEMMA EventAdded ==
    ASSUME NEW b \in Tellable, NEW s \in DOMAIN b.sections, NEW p \in DOMAIN b.sections[s].periods,
           NEW at \in 1 .. Len(b.sections[s].periods[p].events) + 1, NEW text \in Words
    PROVE  Timeline!AddEvent(b, s, p, at, text) \subseteq Tellable
<1> DEFINE events == Timeline!InsertAt(b.sections[s].periods[p].events, at, text)
<1>1. events \in Seq(Words)
  BY EventsAre, TimelineInsertAtIs
<1>2. Timeline!AddEvent(b, s, p, at, text) = {[b EXCEPT !.sections[s].periods[p].events = events]}
  BY DEF Timeline!AddEvent
<1> HIDE DEF events
<1>3. QED
  BY <1>1, <1>2, EventsReplaced

LEMMA EventRemoved ==
    ASSUME NEW b \in Tellable, NEW s \in DOMAIN b.sections, NEW p \in DOMAIN b.sections[s].periods,
           NEW e \in DOMAIN b.sections[s].periods[p].events
    PROVE  Timeline!RemoveEvent(b, s, p, e) \subseteq Tellable
<1> DEFINE old == b.sections[s].periods[p].events
           events == Timeline!RemoveAt(old, e)
<1>1. events \in Seq(Words)
  <2>1. old \in Seq(Words)
    BY EventsAre
  <2>2. e \in 1 .. Len(old)
    BY <2>1
  <2>3. QED
    BY <2>1, <2>2, TimelineRemoveAtIs
<1>2. Timeline!RemoveEvent(b, s, p, e) = {[b EXCEPT !.sections[s].periods[p].events = events]}
  BY DEF Timeline!RemoveEvent
<1> HIDE DEF events
<1>3. QED
  BY <1>1, <1>2, EventsReplaced

LEMMA EventReworded ==
    ASSUME NEW b \in Tellable, NEW s \in DOMAIN b.sections, NEW p \in DOMAIN b.sections[s].periods,
           NEW e \in DOMAIN b.sections[s].periods[p].events, NEW text \in Words
    PROVE  Timeline!SetEventText(b, s, p, e, text) \subseteq Tellable
<1> DEFINE old == b.sections[s].periods[p].events
           events == [old EXCEPT ![e] = text]
<1>1. events \in Seq(Words)
  <2>1. old \in Seq(Words) /\ e \in DOMAIN old
    BY EventsAre
  <2> HIDE DEF old
  <2>2. QED
    BY <2>1
<1>2. Timeline!SetEventText(b, s, p, e, text) = {[b EXCEPT !.sections[s].periods[p].events = events]}
  BY DEF Timeline!SetEventText
<1> HIDE DEF events
<1>3. QED
  BY <1>1, <1>2, EventsReplaced

LEMMA EventMoved ==
    ASSUME NEW b \in Tellable, NEW s \in DOMAIN b.sections, NEW p \in DOMAIN b.sections[s].periods,
           NEW e \in DOMAIN b.sections[s].periods[p].events,
           NEW to, to[1] \in DOMAIN b.sections, to[2] \in DOMAIN b.sections[to[1]].periods,
           NEW at \in Nat \ {0}
    PROVE  Timeline!MoveEvent(b, s, p, e, to, at) \subseteq Tellable
<1> DEFINE old == b.sections[s].periods[p].events
           left == Timeline!RemoveAt(old, e)
           rest == [b EXCEPT !.sections[s].periods[p].events = left]
           there == rest.sections[to[1]].periods[to[2]].events
           events == Timeline!InsertAt(there, at, old[e])
           moved == [rest EXCEPT !.sections[to[1]].periods[to[2]].events = events]
<1>1. old \in Seq(Words)
  BY EventsAre
<1>2. Timeline!MoveEvent(b, s, p, e, to, at) = IF at > Len(there) + 1 THEN {} ELSE {moved}
  BY DEF Timeline!MoveEvent
<1> HIDE DEF old
<1>3. e \in 1 .. Len(old) /\ old[e] \in Words
  BY <1>1 DEF old
<1>4. left \in Seq(Words)
  BY <1>1, <1>3, TimelineRemoveAtIs
<1> HIDE DEF left
<1>5. rest \in Tellable /\ SameOutline(b, rest)
  BY <1>4, EventsReplaced
<1> HIDE DEF rest
<1>6. to[1] \in DOMAIN rest.sections /\ to[2] \in DOMAIN rest.sections[to[1]].periods
  <2>1. to[1] \in DOMAIN b.sections /\ to[1] \in DOMAIN rest.sections
    BY <1>5 DEF SameOutline
  <2>2. Len(rest.sections[to[1]].periods) = Len(b.sections[to[1]].periods)
    BY <1>5, <2>1 DEF SameOutline
  <2>3. /\ rest.sections[to[1]].periods \in Seq(PeriodItems)
        /\ b.sections[to[1]].periods \in Seq(PeriodItems)
    BY <1>5, <2>1, TellableIs, TimelineIs
  <2>4. QED
    BY <2>1, <2>2, <2>3
<1>7. there \in Seq(Words)
  BY <1>5, <1>6, EventsAre
<1> HIDE DEF there
<1>8. ~ (at > Len(there) + 1) => moved \in Tellable
  <2>1. ~ (at > Len(there) + 1) => at \in 1 .. Len(there) + 1
    BY <1>7
  <2>2. ~ (at > Len(there) + 1) => events \in Seq(Words)
    BY <1>3, <1>7, <2>1, TimelineInsertAtIs
  <2> HIDE DEF events
  <2>3. QED
    BY <1>5, <1>6, <2>2, EventsReplaced
<1> HIDE DEF moved
<1>9. QED
  BY <1>2, <1>8

TimelineInv == body \in Tellable /\ published \in Read

LEMMA CommitTells ==
    ASSUME NEW results, results \subseteq Tellable, Timeline!Core!Commit(results)
    PROVE  body' \in Tellable /\ UNCHANGED published
BY DEF Timeline!Core!Commit

LEMMA PeriodRefsAre ==
    ASSUME NEW ref \in Timeline!PeriodRefs
    PROVE  ref[1] \in DOMAIN body.sections /\ ref[2] \in DOMAIN body.sections[ref[1]].periods
BY DEF Timeline!PeriodRefs, Timeline!Sections, Timeline!Periods

\* What the arguments of the operations may be.
LEMMA TimelineArguments ==
    /\ Timeline!Values \subseteq Phrases
    /\ timeline.sectionLabels \subseteq Words
    /\ timeline.periodLabels \subseteq Labels /\ timeline.texts \subseteq Words
    /\ {<<>>} \union {<<t, t>> : t \in timeline.texts} \subseteq Seq(Words)
<1>1. Timeline!Values \subseteq Phrases
  BY DEF Timeline!Values, Phrases
<1>2. timeline.sectionLabels \subseteq Words
  BY TimelineSources DEF Words
<1>3. timeline.periodLabels \subseteq Labels /\ timeline.texts \subseteq Words
  BY TimelineSources DEF Words, Labels
<1>4. {<<>>} \union {<<t, t>> : t \in timeline.texts} \subseteq Seq(Words)
  <2>1. \A t \in timeline.texts : <<t, t>> \in Seq(Words)
    BY <1>3
  <2>2. <<>> \in Seq(Words)
    OBVIOUS
  <2>3. QED
    BY <2>1, <2>2
<1>5. QED
  BY <1>1, <1>2, <1>3, <1>4

TextOperation ==
    Timeline!set_title \/ Timeline!set_accessibility_title \/ Timeline!set_accessibility_description
SectionOperation ==
    \/ Timeline!add_section \/ Timeline!remove_section \/ Timeline!set_section_label
    \/ Timeline!move_section
PeriodOperation ==
    \/ Timeline!add_period \/ Timeline!remove_period \/ Timeline!set_period_label
    \/ Timeline!move_period
EventOperation ==
    \/ Timeline!add_event \/ Timeline!remove_event \/ Timeline!set_event_text \/ Timeline!move_event

LEMMA TextOperationsTell ==
    ASSUME TimelineInv, TextOperation
    PROVE  body' \in Tellable /\ UNCHANGED published
<1>1. PICK head \in Headings, text \in Timeline!Values :
        Timeline!Core!Commit(Timeline!SetText(body, head, text))
  BY DEF TextOperation, Timeline!set_title, Timeline!set_accessibility_title,
         Timeline!set_accessibility_description, Headings
<1> DEFINE c == [body EXCEPT ![head] = text]
<1>2. c \in Timelines /\ c.sections = body.sections
  BY TimelineArguments, TellableIs, PhrasesStay DEF TimelineInv
<1>3. Timeline!SetText(body, head, text) = {c}
  BY DEF Timeline!SetText
<1> HIDE DEF c
<1>4. c \in Tellable
  BY <1>2 DEF TimelineInv, Tellable, OneImplicit, Told
<1>5. QED
  BY <1>1, <1>3, <1>4, CommitTells

LEMMA SectionOperationsTell ==
    ASSUME TimelineInv, SectionOperation
    PROVE  body' \in Tellable /\ UNCHANGED published
<1>0. body \in Tellable /\ Timeline!Sections(body) = DOMAIN body.sections
  BY DEF TimelineInv, Timeline!Sections
<1>1. CASE Timeline!add_section
  <2>1. PICK at \in Timeline!Slots(body.sections), label \in timeline.sectionLabels :
          Timeline!Core!Commit(Timeline!AddSection(body, at, label))
    BY <1>1 DEF Timeline!add_section
  <2>2. at \in 1 .. Len(body.sections) + 1 /\ label \in Words
    BY TimelineArguments DEF Timeline!Slots
  <2>3. QED
    BY <1>0, <2>1, <2>2, SectionAdded, CommitTells
<1>2. CASE Timeline!remove_section
  <2>1. PICK s \in DOMAIN body.sections : Timeline!Core!Commit(Timeline!RemoveSection(body, s))
    BY <1>0, <1>2 DEF Timeline!remove_section
  <2>2. [body EXCEPT !.sections = Timeline!RemoveAt(@, s)] \in Tellable
    BY <1>0, TellableIs, SectionDropped
  <2>3. Timeline!RemoveSection(body, s) \subseteq Tellable
    BY <2>2 DEF Timeline!RemoveSection
  <2>4. QED
    BY <2>1, <2>3, CommitTells
<1>3. CASE Timeline!set_section_label
  <2>1. PICK s \in DOMAIN body.sections, label \in timeline.sectionLabels :
          Timeline!Core!Commit(Timeline!SetSectionLabel(body, s, label))
    BY <1>0, <1>3 DEF Timeline!set_section_label
  <2>2. label \in Words
    BY TimelineArguments
  <2>3. QED
    BY <1>0, <2>1, <2>2, SectionRelabelled, CommitTells
<1>4. CASE Timeline!move_section
  <2>1. PICK from, to \in DOMAIN body.sections : Timeline!Core!Commit(Timeline!MoveSection(body, from, to))
    BY <1>0, <1>4 DEF Timeline!move_section
  <2>2. QED
    BY <1>0, <2>1, SectionMoved, CommitTells
<1>5. QED
  BY <1>1, <1>2, <1>3, <1>4 DEF SectionOperation

LEMMA PeriodOperationsTell ==
    ASSUME TimelineInv, PeriodOperation
    PROVE  body' \in Tellable /\ UNCHANGED published
<1>0. body \in Tellable /\ Timeline!Sections(body) = DOMAIN body.sections
  BY DEF TimelineInv, Timeline!Sections
<1>1. CASE Timeline!add_period
  <2> DEFINE Lists == {<<>>} \union {<<t, t>> : t \in timeline.texts}
  <2>1. PICK s \in DOMAIN body.sections, label \in timeline.periodLabels, events \in Lists :
          \E at \in Timeline!Slots(body.sections[s].periods) :
             Timeline!Core!Commit(Timeline!AddPeriod(body, s, at, label, events))
    BY <1>0, <1>1 DEF Timeline!add_period
  <2>2. label \in Labels /\ events \in Seq(Words)
    BY TimelineArguments
  <2>3. PICK at \in 1 .. Len(body.sections[s].periods) + 1 :
          Timeline!Core!Commit(Timeline!AddPeriod(body, s, at, label, events))
    BY <2>1 DEF Timeline!Slots
  <2>4. QED
    BY <1>0, <2>2, <2>3, PeriodAdded, CommitTells
<1>2. CASE Timeline!remove_period
  <2>1. PICK ref \in Timeline!PeriodRefs : Timeline!Core!Commit(Timeline!RemovePeriod(body, ref[1], ref[2]))
    BY <1>2 DEF Timeline!remove_period
  <2>2. QED
    BY <1>0, <2>1, PeriodRefsAre, PeriodRemoved, CommitTells
<1>3. CASE Timeline!set_period_label
  <2>1. PICK ref \in Timeline!PeriodRefs, label \in timeline.periodLabels :
          Timeline!Core!Commit(Timeline!SetPeriodLabel(body, ref[1], ref[2], label))
    BY <1>3 DEF Timeline!set_period_label
  <2>2. label \in Labels
    BY TimelineArguments
  <2>3. QED
    BY <1>0, <2>1, <2>2, PeriodRefsAre, PeriodRelabelled, CommitTells
<1>4. CASE Timeline!move_period
  <2>1. PICK ref \in Timeline!PeriodRefs, to \in DOMAIN body.sections :
          \E at \in Timeline!Slots(body.sections[to].periods) :
             Timeline!Core!Commit(Timeline!MovePeriod(body, ref[1], ref[2], to, at))
    BY <1>0, <1>4 DEF Timeline!move_period
  <2>2. body.sections[to].periods \in Seq(PeriodItems)
    BY <1>0, TellableIs, TimelineIs
  <2>3. PICK at \in Nat \ {0} : Timeline!Core!Commit(Timeline!MovePeriod(body, ref[1], ref[2], to, at))
    BY <2>1, <2>2 DEF Timeline!Slots
  <2>4. QED
    BY <1>0, <2>1, <2>3, PeriodRefsAre, PeriodMoved, CommitTells
<1>5. QED
  BY <1>1, <1>2, <1>3, <1>4 DEF PeriodOperation

LEMMA EventOperationsTell ==
    ASSUME TimelineInv, EventOperation
    PROVE  body' \in Tellable /\ UNCHANGED published
<1>0. /\ body \in Tellable
      /\ \A ref : Timeline!PeriodAt(ref) = body.sections[ref[1]].periods[ref[2]]
  BY DEF TimelineInv, Timeline!PeriodAt
<1>1. CASE Timeline!add_event
  <2>1. PICK ref \in Timeline!PeriodRefs, text \in timeline.texts :
          \E at \in Timeline!Slots(Timeline!PeriodAt(ref).events) :
             Timeline!Core!Commit(Timeline!AddEvent(body, ref[1], ref[2], at, text))
    BY <1>1 DEF Timeline!add_event
  <2>2. PICK at \in 1 .. Len(body.sections[ref[1]].periods[ref[2]].events) + 1 :
          Timeline!Core!Commit(Timeline!AddEvent(body, ref[1], ref[2], at, text))
    BY <1>0, <2>1 DEF Timeline!Slots
  <2>3. text \in Words
    BY TimelineArguments
  <2>4. QED
    BY <1>0, <2>2, <2>3, PeriodRefsAre, EventAdded, CommitTells
<1>2. CASE Timeline!remove_event
  <2>1. PICK ref \in Timeline!PeriodRefs : \E e \in DOMAIN Timeline!PeriodAt(ref).events :
          Timeline!Core!Commit(Timeline!RemoveEvent(body, ref[1], ref[2], e))
    BY <1>2 DEF Timeline!remove_event
  <2>2. PICK e \in DOMAIN body.sections[ref[1]].periods[ref[2]].events :
          Timeline!Core!Commit(Timeline!RemoveEvent(body, ref[1], ref[2], e))
    BY <1>0, <2>1
  <2>3. QED
    BY <1>0, <2>2, PeriodRefsAre, EventRemoved, CommitTells
<1>3. CASE Timeline!set_event_text
  <2>1. PICK ref \in Timeline!PeriodRefs, text \in timeline.texts :
          \E e \in DOMAIN Timeline!PeriodAt(ref).events :
             Timeline!Core!Commit(Timeline!SetEventText(body, ref[1], ref[2], e, text))
    BY <1>3 DEF Timeline!set_event_text
  <2>2. PICK e \in DOMAIN body.sections[ref[1]].periods[ref[2]].events :
          Timeline!Core!Commit(Timeline!SetEventText(body, ref[1], ref[2], e, text))
    BY <1>0, <2>1
  <2>3. text \in Words
    BY TimelineArguments
  <2>4. QED
    BY <1>0, <2>2, <2>3, PeriodRefsAre, EventReworded, CommitTells
<1>4. CASE Timeline!move_event
  <2>1. PICK ref \in Timeline!PeriodRefs, to \in Timeline!PeriodRefs :
          \E e \in DOMAIN Timeline!PeriodAt(ref).events, at \in Timeline!Slots(Timeline!PeriodAt(to).events) :
             Timeline!Core!Commit(Timeline!MoveEvent(body, ref[1], ref[2], e, to, at))
    BY <1>4 DEF Timeline!move_event
  <2>2. PICK e \in DOMAIN body.sections[ref[1]].periods[ref[2]].events,
             at \in 1 .. Len(body.sections[to[1]].periods[to[2]].events) + 1 :
          Timeline!Core!Commit(Timeline!MoveEvent(body, ref[1], ref[2], e, to, at))
    BY <1>0, <2>1 DEF Timeline!Slots
  <2>3. at \in Nat \ {0}
    <3>1. body.sections[to[1]].periods[to[2]].events \in Seq(Words)
      BY <1>0, PeriodRefsAre, EventsAre
    <3>2. QED
      BY <3>1
  <2>4. QED
    BY <1>0, <2>2, <2>3, PeriodRefsAre, EventMoved, CommitTells
<1>5. QED
  BY <1>1, <1>2, <1>3, <1>4 DEF EventOperation

LEMMA TimelineInit ==
    ASSUME Timeline!Init
    PROVE  TimelineInv
<1>1. PICK source \in timeline.sources : published \in Timeline!Parse(source) /\ body = published
  BY DEF Timeline!Init, Timeline!Core!Begin
<1>2. ToSet(source) \subseteq TimelineLines
  BY DEF TimelineLines
<1>3. source \in Seq(TimelineLines)
  BY <1>2, TimelineSources
<1>4. published \in Read
  BY <1>1, <1>3, AuthoredTimelineLines, TimelineParseIs
<1>5. QED
  BY <1>1, <1>4, ReadIsTellable DEF TimelineInv

LEMMA TimelineStep ==
    ASSUME TimelineInv, Timeline!Next \/ UNCHANGED <<published, body>>
    PROVE  TimelineInv'
<1>1. CASE UNCHANGED <<published, body>>
  BY <1>1 DEF TimelineInv
<1>2. CASE TextOperation \/ SectionOperation \/ PeriodOperation \/ EventOperation
  BY <1>2, TextOperationsTell, SectionOperationsTell, PeriodOperationsTell, EventOperationsTell
     DEF TimelineInv
<1>3. CASE Timeline!Core!Refuse
  BY <1>3, ReadIsTellable DEF TimelineInv, Timeline!Core!Refuse
<1>4. CASE Timeline!Core!Publish
  <2>1. \/ body' = published /\ published' = published
        \/ \E b \in Timeline!Reparse(body) : published' = b /\ body' = b
    BY <1>4 DEF Timeline!Core!Publish
  <2>2. Timeline!Reparse(body) \subseteq Read
    BY TimelineReparseIs, TellableIs DEF TimelineInv
  <2>3. QED
    BY <2>1, <2>2, ReadIsTellable DEF TimelineInv
<1>5. QED
  BY <1>1, <1>2, <1>3, <1>4
     DEF Timeline!Next, TextOperation, SectionOperation, PeriodOperation, EventOperation

\* The property the runs check.
LEMMA SectionsAreTold ==
    ASSUME TimelineInv
    PROVE  Timeline!ReferencesResolve
<1>1. \A s \in DOMAIN body.sections : body.sections[s].label = None =>
        /\ DOMAIN body.sections[s].periods # {}
        /\ \A other \in DOMAIN body.sections \ {s} : body.sections[other].label # None
  <2> SUFFICES ASSUME NEW s \in DOMAIN body.sections, body.sections[s].label = None
               PROVE  /\ DOMAIN body.sections[s].periods # {}
                      /\ \A other \in DOMAIN body.sections \ {s} : body.sections[other].label # None
    OBVIOUS
  <2>1. body.sections[s].periods \in Seq(PeriodItems) /\ body.sections[s].periods # <<>>
    BY TellableIs, TimelineIs DEF TimelineInv, Told
  <2>2. 1 \in DOMAIN body.sections[s].periods
    BY <2>1
  <2>3. QED
    BY <2>2, TellableIs DEF TimelineInv, OneImplicit
<1>2. QED
  BY <1>1 DEF Timeline!ReferencesResolve, Timeline!Sections, Timeline!Periods

(***************************************************************************)
(* Timelines: a text is read in parts.                                     *)
(***************************************************************************)
\* What holds at 0, and at i when it holds at i - 1, holds up to n.
LEMMA CountUp ==
    ASSUME NEW n \in Nat, NEW F, 0 \in F, \A i \in 1 .. n : i - 1 \in F => i \in F
    PROVE  \A i \in 0 .. n : i \in F
<1> DEFINE Bad == {i \in 0 .. n : i \notin F}
<1>1. SUFFICES ASSUME Bad # {} PROVE FALSE
  OBVIOUS
<1>2. PICK m \in Bad : \A k \in Bad : m <= k
  <2>1. Bad \subseteq 0 .. n
    OBVIOUS
  <2> HIDE DEF Bad
  <2>2. QED
    BY <1>1, <2>1, SmallestNumber
<1>3. m \in 1 .. n /\ m \notin F /\ m \in Nat
  OBVIOUS
<1>4. m - 1 \in 0 .. n /\ ~ (m <= m - 1)
  BY <1>3
<1>5. m - 1 \notin Bad
  <2> HIDE DEF Bad
  <2>1. QED
    BY <1>2, <1>4
<1>6. m - 1 \in F
  BY <1>4, <1>5
<1>7. QED
  BY <1>3, <1>6

\* A body that lines lead to from another.
Reads(b, lines, c) ==
    \E f : /\ f[0] = b /\ f[Len(lines)] = c
           /\ \A i \in 1 .. Len(lines) : f[i] \in Timeline!ReadLine(f[i - 1], lines[i])

LEMMA ReadsNone ==
    ASSUME NEW b
    PROVE  \A c : Reads(b, <<>>, c) <=> c = b
<1>1. Len(<<>>) = 0 /\ 1 .. 0 = {}
  OBVIOUS
<1>2. Reads(b, <<>>, b)
  <2> DEFINE f == [i \in {0} |-> b]
  <2>1. f[0] = b
    OBVIOUS
  <2> HIDE DEF f
  <2>2. QED
    BY <1>1, <2>1 DEF Reads
<1>3. QED
  BY <1>1, <1>2 DEF Reads

LEMMA ReadsOne ==
    ASSUME NEW b, NEW line
    PROVE  \A c : Reads(b, <<line>>, c) <=> c \in Timeline!ReadLine(b, line)
<1> DEFINE lines == <<line>>
<1>1. Len(lines) = 1 /\ lines[1] = line
  OBVIOUS
<1> HIDE DEF lines
<1>2. ASSUME NEW c, c \in Timeline!ReadLine(b, line) PROVE Reads(b, lines, c)
  <2> DEFINE f == [i \in {0, 1} |-> IF i = 0 THEN b ELSE c]
  <2>1. f[0] = b /\ f[1] = c
    OBVIOUS
  <2> HIDE DEF f
  <2>2. \A i \in 1 .. 1 : f[i] \in Timeline!ReadLine(f[i - 1], lines[i])
    <3> SUFFICES ASSUME NEW i \in 1 .. 1 PROVE f[i] \in Timeline!ReadLine(f[i - 1], lines[i])
      OBVIOUS
    <3>1. i = 1 /\ i - 1 = 0
      OBVIOUS
    <3>2. QED
      BY <1>1, <1>2, <2>1, <3>1
  <2>3. QED
    BY <1>1, <2>1, <2>2 DEF Reads
<1>3. ASSUME NEW c, Reads(b, lines, c) PROVE c \in Timeline!ReadLine(b, line)
  <2>1. PICK f : /\ f[0] = b /\ f[Len(lines)] = c
                 /\ \A i \in 1 .. Len(lines) : f[i] \in Timeline!ReadLine(f[i - 1], lines[i])
    BY <1>3 DEF Reads
  <2>2. f[1] = c /\ 1 \in 1 .. Len(lines) /\ 1 - 1 = 0
    BY <1>1, <2>1
  <2>3. f[1] \in Timeline!ReadLine(f[1 - 1], lines[1])
    BY <2>1, <2>2
  <2>4. QED
    BY <1>1, <2>1, <2>2, <2>3
<1>4. QED
  BY <1>2, <1>3 DEF lines

\* Lines after lines lead on from where those led.
LEMMA ReadsOn ==
    ASSUME NEW L, NEW xs \in Seq(L), NEW ys \in Seq(L), NEW b, NEW c, NEW d,
           Reads(b, xs, c), Reads(c, ys, d)
    PROVE  Reads(b, xs \o ys, d)
<1> DEFINE m == Len(xs)
           n == Len(ys)
           lines == xs \o ys
<1>1. PICK f : f[0] = b /\ f[m] = c /\ \A i \in 1 .. m : f[i] \in Timeline!ReadLine(f[i - 1], xs[i])
  BY DEF Reads
<1>2. PICK g : g[0] = c /\ g[n] = d /\ \A i \in 1 .. n : g[i] \in Timeline!ReadLine(g[i - 1], ys[i])
  BY DEF Reads
<1> DEFINE h == [i \in 0 .. m + n |-> IF i <= m THEN f[i] ELSE g[i - m]]
<1>3. /\ m \in Nat /\ n \in Nat /\ Len(lines) = m + n
      /\ \A i \in 1 .. m : lines[i] = xs[i]
      /\ \A i \in 1 .. n : lines[m + i] = ys[i]
  BY ConcatIs, ConcatBefore, ConcatAfter
<1> HIDE DEF m, n, lines
<1>4. /\ \A i \in 0 .. m : h[i] = f[i]
      /\ \A i \in 0 .. n : h[m + i] = g[i]
  <2>1. \A i \in 0 .. m : h[i] = f[i]
    BY <1>3
  <2>2. ASSUME NEW i \in 0 .. n PROVE h[m + i] = g[i]
    <3>1. m + i \in 0 .. m + n /\ (m + i) - m = i /\ (m + i <= m => i = 0) /\ m + 0 = m
      BY <1>3
    <3>2. h[m + i] = IF m + i <= m THEN f[m + i] ELSE g[(m + i) - m]
      BY <3>1
    <3> HIDE DEF h
    <3>3. QED
      BY <1>1, <1>2, <3>1, <3>2
  <2>3. QED
    BY <2>1, <2>2
<1> HIDE DEF h
<1>5. ASSUME NEW i \in 1 .. m + n PROVE h[i] \in Timeline!ReadLine(h[i - 1], lines[i])
  <2>1. CASE i <= m
    <3>1. i \in 1 .. m /\ i \in 0 .. m /\ i - 1 \in 0 .. m
      BY <1>3, <2>1
    <3>2. QED
      BY <1>1, <1>3, <1>4, <3>1
  <2>2. CASE ~ (i <= m)
    <3> DEFINE j == i - m
    <3>1. j \in 1 .. n /\ j \in 0 .. n /\ j - 1 \in 0 .. n /\ i = m + j /\ i - 1 = m + (j - 1)
      BY <1>3, <2>2
    <3> HIDE DEF j
    <3>2. h[i] = g[j] /\ h[i - 1] = g[j - 1] /\ lines[i] = ys[j]
      BY <1>3, <1>4, <3>1
    <3>3. QED
      BY <1>2, <3>1, <3>2
  <2>3. QED
    BY <2>1, <2>2
<1>6. h[0] = b /\ h[m + n] = d
  <2>1. 0 \in 0 .. m /\ n \in 0 .. n
    BY <1>3
  <2>2. QED
    BY <1>1, <1>2, <1>4, <2>1
<1>7. Reads(b, lines, d)
  BY <1>3, <1>5, <1>6 DEF Reads
<1>8. QED
  BY <1>7 DEF lines

\* They pass a body where the first lines led.
LEMMA ReadsThrough ==
    ASSUME NEW L, NEW xs \in Seq(L), NEW ys \in Seq(L), NEW b, NEW d, Reads(b, xs \o ys, d)
    PROVE  \E c : Reads(b, xs, c) /\ Reads(c, ys, d)
<1> DEFINE m == Len(xs)
           n == Len(ys)
           lines == xs \o ys
<1>1. /\ m \in Nat /\ n \in Nat /\ Len(lines) = m + n
      /\ \A i \in 1 .. m : lines[i] = xs[i]
      /\ \A i \in 1 .. n : lines[m + i] = ys[i]
  BY ConcatIs, ConcatBefore, ConcatAfter
<1> HIDE DEF m, n, lines
<1>2. PICK h : h[0] = b /\ h[m + n] = d
               /\ \A i \in 1 .. m + n : h[i] \in Timeline!ReadLine(h[i - 1], lines[i])
  BY <1>1 DEF Reads, lines
<1> DEFINE g == [i \in 0 .. n |-> h[m + i]]
<1>3. \A i \in 1 .. m : h[i] \in Timeline!ReadLine(h[i - 1], xs[i])
  <2>1. \A i \in 1 .. m : i \in 1 .. m + n
    BY <1>1
  <2>2. QED
    BY <1>1, <1>2, <2>1
<1>4. \A i \in 1 .. n : g[i] \in Timeline!ReadLine(g[i - 1], ys[i])
  <2> SUFFICES ASSUME NEW i \in 1 .. n PROVE g[i] \in Timeline!ReadLine(g[i - 1], ys[i])
    OBVIOUS
  <2>1. m + i \in 1 .. m + n /\ (m + i) - 1 = m + (i - 1) /\ i \in 0 .. n /\ i - 1 \in 0 .. n
    BY <1>1
  <2>2. g[i] = h[m + i] /\ g[i - 1] = h[m + (i - 1)]
    BY <2>1
  <2> HIDE DEF g
  <2>3. QED
    BY <1>1, <1>2, <2>1, <2>2
<1>5. g[0] = h[m] /\ g[n] = d
  <2>1. 0 \in 0 .. n /\ n \in 0 .. n /\ m + 0 = m
    BY <1>1
  <2>2. QED
    BY <1>2, <2>1
<1> HIDE DEF g
<1>6. Reads(b, xs, h[m])
  BY <1>2, <1>3 DEF Reads, m
<1>7. Reads(h[m], ys, d)
  BY <1>4, <1>5 DEF Reads, n
<1>8. QED
  BY <1>6, <1>7

\* A flattening grows by one sequence after another.
LEMMA FlattenSteps ==
    ASSUME NEW L, NEW seqs \in Seq(Seq(L))
    PROVE  \E f : /\ f[0] = <<>> /\ f[Len(seqs)] = Timeline!FlattenSeq(seqs)
                  /\ \A i \in 0 .. Len(seqs) : f[i] \in Seq(L)
                  /\ \A i \in 1 .. Len(seqs) : f[i] = f[i - 1] \o seqs[i]
<1> DEFINE n == Len(seqs)
           g == CHOOSE g : FlattenRun(g, seqs)
           f == [i \in 0 .. n |-> IF i = 0 THEN <<>> ELSE g[i]]
           Grown == {i \in 0 .. n : f[i] \in Seq(L)}
<1>1. n \in Nat /\ \A i \in 1 .. n : seqs[i] \in Seq(L)
  OBVIOUS
<1>2. FlattenRun(g, seqs)
  BY FlattenRunExists
<1>3. Timeline!FlattenSeq(seqs) = IF n = 0 THEN seqs ELSE g[n]
  BY DEF Timeline!FlattenSeq, FlattenRun
<1> HIDE DEF g
<1>4. f[0] = <<>> /\ \A i \in 1 .. n : f[i] = g[i]
  BY <1>1
<1> HIDE DEF f
<1>5. \A i \in 1 .. n : seqs[i] \in Seq(L) => f[i] = f[i - 1] \o seqs[i]
  <2> SUFFICES ASSUME NEW i \in 1 .. n, seqs[i] \in Seq(L)
               PROVE  f[i] = f[i - 1] \o seqs[i]
    OBVIOUS
  <2>1. g[i] = IF i = 1 THEN seqs[i] ELSE g[i - 1] \o seqs[i]
    BY <1>2 DEF FlattenRun
  <2>2. CASE i = 1
    <3>1. f[i - 1] = <<>>
      BY <1>4, <2>2
    <3>2. <<>> \o seqs[i] = seqs[i]
      OBVIOUS
    <3>3. QED
      BY <1>4, <2>1, <2>2, <3>1, <3>2
  <2>3. CASE i # 1
    <3>1. i - 1 \in 1 .. n
      BY <1>1, <2>3
    <3>2. QED
      BY <1>4, <2>1, <2>3, <3>1
  <2>4. QED
    BY <2>2, <2>3
<1>6. \A i \in 0 .. n : f[i] \in Seq(L)
  <2>1. 0 \in Grown
    <3>1. <<>> \in Seq(L) /\ 0 \in 0 .. n
      BY <1>1
    <3> HIDE DEF n
    <3>2. QED
      BY <1>4, <3>1
  <2>2. ASSUME NEW i \in 1 .. n, i - 1 \in Grown PROVE i \in Grown
    <3>1. f[i - 1] \in Seq(L) /\ seqs[i] \in Seq(L) /\ i \in 0 .. n
      BY <1>1, <2>2
    <3>2. f[i - 1] \o seqs[i] \in Seq(L)
      BY <3>1, ConcatIs
    <3>3. QED
      BY <1>5, <3>1, <3>2
  <2> HIDE DEF Grown, n
  <2>3. \A i \in 0 .. n : i \in Grown
    BY <1>1, <2>1, <2>2, CountUp
  <2>4. QED
    BY <2>3 DEF Grown
<1>7. \A i \in 1 .. n : f[i] = f[i - 1] \o seqs[i]
  <2> SUFFICES ASSUME NEW i \in 1 .. n PROVE f[i] = f[i - 1] \o seqs[i]
    OBVIOUS
  <2>1. i - 1 \in 0 .. n
    BY <1>1
  <2>2. QED
    BY <1>1, <1>5, <1>6, <2>1
<1>8. f[n] = Timeline!FlattenSeq(seqs)
  <2>1. CASE n = 0
    <3>1. seqs = <<>>
      BY <2>1
    <3>2. QED
      BY <1>3, <1>4, <2>1, <3>1
  <2>2. CASE n # 0
    <3>1. n \in 1 .. n
      BY <1>1, <2>2
    <3>2. QED
      BY <1>3, <1>4, <2>2, <3>1
  <2>3. QED
    BY <2>1, <2>2
<1>9. QED
  BY <1>4, <1>6, <1>7, <1>8

\* Flattened lines lead on, a sequence at a time.
LEMMA FlattenReads ==
    ASSUME NEW L, NEW seqs \in Seq(Seq(L)), NEW t,
           \A i \in 1 .. Len(seqs) : Reads(t[i - 1], seqs[i], t[i])
    PROVE  Reads(t[0], Timeline!FlattenSeq(seqs), t[Len(seqs)])
<1> DEFINE n == Len(seqs)
<1>1. n \in Nat /\ \A i \in 1 .. n : seqs[i] \in Seq(L)
  OBVIOUS
<1>2. PICK f : /\ f[0] = <<>> /\ f[n] = Timeline!FlattenSeq(seqs)
               /\ \A i \in 0 .. n : f[i] \in Seq(L)
               /\ \A i \in 1 .. n : f[i] = f[i - 1] \o seqs[i]
  BY FlattenSteps
<1> DEFINE Led == {i \in 0 .. n : Reads(t[0], f[i], t[i])}
<1>3. 0 \in Led
  BY <1>1, <1>2, ReadsNone
<1>4. ASSUME NEW i \in 1 .. n, i - 1 \in Led PROVE i \in Led
  <2>1. i - 1 \in 0 .. n /\ i \in 0 .. n
    BY <1>1
  <2>2. Reads(t[0], f[i - 1], t[i - 1]) /\ Reads(t[i - 1], seqs[i], t[i])
    BY <1>4
  <2>3. Reads(t[0], f[i - 1] \o seqs[i], t[i])
    BY <1>1, <1>2, <2>1, <2>2, ReadsOn
  <2>4. QED
    BY <1>2, <2>1, <2>3
<1>5. n \in Led
  <2> HIDE DEF Led, n
  <2>1. \A i \in 0 .. n : i \in Led
    BY <1>1, <1>3, <1>4, CountUp
  <2>2. QED
    BY <1>1, <2>1
<1>6. QED
  BY <1>2, <1>5

\* They pass a body after each of the sequences.
LEMMA FlattenThrough ==
    ASSUME NEW L, NEW seqs \in Seq(Seq(L)), NEW b, NEW c, Reads(b, Timeline!FlattenSeq(seqs), c)
    PROVE  \E t : /\ t[0] = b /\ t[Len(seqs)] = c
                  /\ \A i \in 1 .. Len(seqs) : Reads(t[i - 1], seqs[i], t[i])
<1> DEFINE n == Len(seqs)
           Passes(t, m, d) == t[0] = b /\ t[m] = d /\ \A i \in 1 .. m : Reads(t[i - 1], seqs[i], t[i])
<1>1. n \in Nat /\ \A i \in 1 .. n : seqs[i] \in Seq(L)
  OBVIOUS
<1>2. PICK f : /\ f[0] = <<>> /\ f[n] = Timeline!FlattenSeq(seqs)
               /\ \A i \in 0 .. n : f[i] \in Seq(L)
               /\ \A i \in 1 .. n : f[i] = f[i - 1] \o seqs[i]
  BY FlattenSteps
<1> DEFINE Led == {m \in 0 .. n : \A d : Reads(b, f[m], d) => \E t : Passes(t, m, d)}
<1> HIDE DEF n
<1>3. 0 \in Led
  <2> SUFFICES ASSUME NEW d, Reads(b, f[0], d) PROVE \E t : Passes(t, 0, d)
    BY <1>1
  <2>1. d = b
    BY <1>2, ReadsNone
  <2> DEFINE t == [i \in {0} |-> b]
  <2>2. t[0] = b
    OBVIOUS
  <2> HIDE DEF t
  <2>3. Passes(t, 0, d)
    BY <2>1, <2>2
  <2>4. QED
    BY <2>3
<1>4. ASSUME NEW m \in 1 .. n, m - 1 \in Led PROVE m \in Led
  <2>0. m \in Nat /\ m - 1 \in 0 .. n /\ m \in 0 .. n
    BY <1>1
  <2> SUFFICES ASSUME NEW d, Reads(b, f[m], d) PROVE \E t : Passes(t, m, d)
    BY <2>0
  <2>1. f[m - 1] \in Seq(L) /\ seqs[m] \in Seq(L) /\ f[m] = f[m - 1] \o seqs[m]
    BY <1>1, <1>2, <2>0
  <2>2. PICK e : Reads(b, f[m - 1], e) /\ Reads(e, seqs[m], d)
    BY <2>1, ReadsThrough
  <2>3. PICK u : Passes(u, m - 1, e)
    BY <1>4, <2>2
  <2> DEFINE t == [i \in 0 .. m |-> IF i = m THEN d ELSE u[i]]
  <2>4. t[m] = d /\ \A i \in 0 .. m - 1 : t[i] = u[i]
    BY <2>0
  <2> HIDE DEF t, Led
  <2>5. t[0] = b
    BY <2>0, <2>3, <2>4
  <2>6. ASSUME NEW i \in 1 .. m PROVE Reads(t[i - 1], seqs[i], t[i])
    <3>1. CASE i = m
      <4>1. m - 1 \in 0 .. m - 1
        BY <2>0
      <4>2. t[i - 1] = e /\ t[i] = d
        BY <2>3, <2>4, <3>1, <4>1
      <4>3. QED
        BY <2>2, <3>1, <4>2
    <3>2. CASE i # m
      <4>1. i \in 1 .. m - 1 /\ i \in 0 .. m - 1 /\ i - 1 \in 0 .. m - 1
        BY <2>0, <3>2
      <4>2. QED
        BY <2>3, <2>4, <4>1
    <3>3. QED
      BY <3>1, <3>2
  <2>7. Passes(t, m, d)
    BY <2>4, <2>5, <2>6
  <2>8. QED
    BY <2>7
<1>5. n \in Led
  <2> HIDE DEF Led
  <2>1. \A i \in 0 .. n : i \in Led
    BY <1>1, <1>3, <1>4, CountUp
  <2>2. QED
    BY <1>1, <2>1
<1>6. \E t : Passes(t, n, c)
  BY <1>2, <1>5 DEF n
<1>7. QED
  BY <1>6 DEF n

\* A line says one thing at most.
LEMMA OneReading ==
    ASSUME NEW b, NEW line, IsTimelineLine(line), NEW c \in Timeline!ReadLine(b, line)
    PROVE  Timeline!ReadLine(b, line) = {c}
BY DEF Timeline!ReadLine, IsTimelineLine, Headings

\* Where lines lead from a blank body is what they are read as.
LEMMA ParseReads ==
    ASSUME NEW L, NEW lines \in Seq(L), \A line \in L : IsTimelineLine(line)
    PROVE  /\ \A c \in Timeline!Parse(lines) : Reads(Timeline!Blank, lines, c)
           /\ \A c : Reads(Timeline!Blank, lines, c) => Timeline!Parse(lines) = {c}
<1> DEFINE n == Len(lines)
           g == CHOOSE g : TimelineRun(g, lines)
<1>1. n \in Nat /\ DOMAIN lines = 1 .. n /\ \A i \in 1 .. n : IsTimelineLine(lines[i])
  OBVIOUS
<1>2. TimelineRun(g, lines)
  BY TimelineRunExists
<1>3. Timeline!Parse(lines) = g[1 .. n]
  BY <1>1, ReadAllIsRun
<1> HIDE DEF g, n
<1>4. g[1 .. 0] = {Timeline!Blank}
  <2>1. 1 .. 0 = {} /\ {} \in SUBSET DOMAIN lines
    OBVIOUS
  <2>2. QED
    BY <1>2, <2>1 DEF TimelineRun
<1>5. ASSUME NEW i \in 1 .. n PROVE g[1 .. i] = ReadNext(g[1 .. (i - 1)], lines[i])
  <2>1. 1 .. i \in SUBSET DOMAIN lines /\ i \in 1 .. i /\ i \in Nat
    <3>1. 1 .. i \subseteq 1 .. n /\ i \in 1 .. i
      BY <1>1
    <3>2. QED
      BY <1>1, <3>1
  <2>2. Greatest(1 .. i) = i
    BY <2>1, GreatestIs
  <2>3. (1 .. i) \ {i} = 1 .. (i - 1)
    <3>1. i \in Nat /\ i # 0
      BY <1>1
    <3>2. QED
      BY <3>1
  <2>4. g[1 .. i] = ReadNext(g[(1 .. i) \ {i}], lines[i])
    BY <1>2, <2>1, <2>2 DEF TimelineRun
  <2>5. QED
    BY <2>3, <2>4
<1>6. ASSUME NEW c, Reads(Timeline!Blank, lines, c) PROVE Timeline!Parse(lines) = {c}
  <2>1. PICK f : /\ f[0] = Timeline!Blank /\ f[n] = c
                 /\ \A i \in 1 .. n : f[i] \in Timeline!ReadLine(f[i - 1], lines[i])
    BY <1>6 DEF Reads, n
  <2> DEFINE Led == {i \in 0 .. n : g[1 .. i] = {f[i]}}
  <2>2. 0 \in Led
    BY <1>1, <1>4, <2>1
  <2>3. ASSUME NEW i \in 1 .. n, i - 1 \in Led PROVE i \in Led
    <3>1. Timeline!ReadLine(f[i - 1], lines[i]) = {f[i]}
      BY <1>1, <2>1, OneReading
    <3>2. g[1 .. i] = ReadNext({f[i - 1]}, lines[i])
      BY <1>5, <2>3
    <3>3. g[1 .. i] = {f[i]}
      BY <3>1, <3>2 DEF ReadNext
    <3>4. i \in 0 .. n
      BY <1>1
    <3>5. QED
      BY <3>3, <3>4
  <2> HIDE DEF Led
  <2>4. n \in Led
    <3>1. \A i \in 0 .. n : i \in Led
      BY <1>1, <2>2, <2>3, CountUp
    <3>2. QED
      BY <1>1, <3>1
  <2>5. QED
    BY <1>3, <2>1, <2>4 DEF Led
<1>7. ASSUME NEW c \in Timeline!Parse(lines) PROVE Reads(Timeline!Blank, lines, c)
  <2> DEFINE Leads(f, m, d) == /\ f[0] = Timeline!Blank /\ f[m] = d
                               /\ \A i \in 1 .. m : f[i] \in Timeline!ReadLine(f[i - 1], lines[i])
             Led == {m \in 0 .. n : \A d \in g[1 .. m] : \E f : Leads(f, m, d)}
  <2>1. 0 \in Led
    <3> DEFINE f == [i \in {0} |-> Timeline!Blank]
    <3>1. f[0] = Timeline!Blank
      OBVIOUS
    <3> HIDE DEF f
    <3>2. Leads(f, 0, Timeline!Blank)
      BY <3>1
    <3>3. QED
      BY <1>1, <1>4, <3>2
  <2>2. ASSUME NEW m \in 1 .. n, m - 1 \in Led PROVE m \in Led
    <3>0. m \in Nat /\ m \in 0 .. n
      BY <1>1
    <3> SUFFICES ASSUME NEW d \in g[1 .. m] PROVE \E f : Leads(f, m, d)
      BY <3>0
    <3>1. PICK e \in g[1 .. (m - 1)] : d \in Timeline!ReadLine(e, lines[m])
      BY <1>5 DEF ReadNext
    <3>2. PICK u : Leads(u, m - 1, e)
      BY <2>2
    <3> DEFINE f == [i \in 0 .. m |-> IF i = m THEN d ELSE u[i]]
    <3>3. f[m] = d /\ \A i \in 0 .. m - 1 : f[i] = u[i]
      BY <3>0
    <3> HIDE DEF f, Led
    <3>4. f[0] = Timeline!Blank
      BY <3>0, <3>2, <3>3
    <3>5. ASSUME NEW i \in 1 .. m PROVE f[i] \in Timeline!ReadLine(f[i - 1], lines[i])
      <4>1. CASE i = m
        <5>1. m - 1 \in 0 .. m - 1
          BY <3>0
        <5>2. f[i - 1] = e /\ f[i] = d
          BY <3>2, <3>3, <4>1, <5>1
        <5>3. QED
          BY <3>1, <4>1, <5>2
      <4>2. CASE i # m
        <5>1. i \in 1 .. m - 1 /\ i \in 0 .. m - 1 /\ i - 1 \in 0 .. m - 1
          BY <3>0, <4>2
        <5>2. QED
          BY <3>2, <3>3, <5>1
      <4>3. QED
        BY <4>1, <4>2
    <3>6. Leads(f, m, d)
      BY <3>3, <3>4, <3>5
    <3>7. QED
      BY <3>6
  <2> HIDE DEF Led
  <2>3. n \in Led
    <3>1. \A i \in 0 .. n : i \in Led
      BY <1>1, <2>1, <2>2, CountUp
    <3>2. QED
      BY <1>1, <3>1
  <2>4. \E f : Leads(f, n, c)
    BY <1>3, <2>3 DEF Led
  <2>5. QED
    BY <2>4 DEF Reads, n
<1>8. QED
  BY <1>6, <1>7

(***************************************************************************)
(* Timelines: what reading one line makes of the last section.             *)
(***************************************************************************)
LEMMA LastReplaced ==
    ASSUME NEW L, NEW s \in Seq(L), NEW e \in L, NEW x \in L
    PROVE  [Append(s, e) EXCEPT ![Len(s) + 1] = x] = Append(s, x)
<1> DEFINE a == Append(s, e)
           f == [a EXCEPT ![Len(s) + 1] = x]
           t == Append(s, x)
<1>1. /\ Len(s) + 1 \in Nat /\ a \in Seq(L) /\ DOMAIN a = 1 .. Len(s) + 1
      /\ \A j \in 1 .. Len(s) : a[j] = s[j]
  BY AppendIs
<1>2. /\ t \in Seq(L) /\ Len(t) = Len(s) + 1 /\ t[Len(s) + 1] = x
      /\ \A j \in 1 .. Len(s) : t[j] = s[j]
  BY AppendIs
<1> HIDE DEF a, t
<1>3. f = [j \in 1 .. Len(s) + 1 |-> IF j = Len(s) + 1 THEN x ELSE a[j]]
  BY <1>1
<1> HIDE DEF f
<1>4. \A j \in 1 .. Len(s) + 1 : t[j] = f[j]
  <2> SUFFICES ASSUME NEW j \in 1 .. Len(s) + 1 PROVE t[j] = f[j]
    OBVIOUS
  <2>1. CASE j = Len(s) + 1
    BY <1>2, <1>3, <2>1
  <2>2. CASE j # Len(s) + 1
    <3>1. j \in 1 .. Len(s)
      BY <2>2
    <3>2. t[j] = s[j] /\ a[j] = s[j]
      BY <1>1, <1>2, <3>1
    <3>3. f[j] = a[j]
      BY <1>3, <2>2
    <3>4. QED
      BY <3>2, <3>3
  <2>3. QED
    BY <2>1, <2>2
<1>5. f = [j \in 1 .. Len(s) + 1 |-> f[j]]
  BY <1>3
<1>6. t = f
  BY <1>1, <1>2, <1>4, <1>5, SameSequence
<1>7. QED
  BY <1>6 DEF t, f, a
LEMMA LastOf ==
    ASSUME NEW L, NEW s \in Seq(L), s # <<>>
    PROVE  \E front \in Seq(L), last \in L : s = Append(front, last)
<1> DEFINE n == Len(s)
           front == First(s, n - 1)
<1>1. n \in 1 .. Len(s) /\ s[n] \in L
  OBVIOUS
<1>2. front \in Seq(L) /\ Append(front, s[n]) = First(s, n)
  <2> HIDE DEF n
  <2>1. QED
    BY <1>1, FirstNext
<1>3. First(s, n) = s
  BY DEF First
<1> HIDE DEF n, front
<1>4. QED
  BY <1>1, <1>2, <1>3

LEMMA FirstAll ==
    ASSUME NEW L, NEW s \in Seq(L)
    PROVE  First(s, 0) = <<>> /\ First(s, Len(s)) = s
<1>1. First(s, 0) = [k \in 1 .. 0 |-> s[k]] /\ 1 .. 0 = {}
  BY DEF First
<1>2. First(s, 0) = <<>>
  BY <1>1
<1>3. First(s, Len(s)) = s
  BY DEF First
<1>4. QED
  BY <1>2, <1>3

(***************************************************************************)
(* Timelines: what a line adds to the last section and its last period.    *)
(***************************************************************************)
With(b, sections) == [b EXCEPT !.sections = sections]
Ended(front, label, periods) == Append(front, [label |-> label, periods |-> periods])

LEMMA WithIs ==
    ASSUME NEW b \in Timelines, NEW sections \in Seq(SectionItems)
    PROVE  /\ With(b, sections) \in Timelines
           /\ With(b, sections).sections = sections
           /\ \A other : With(With(b, sections), other) = With(b, other)
           /\ \A other : With(b, sections).sections = other => With(b, other) = With(b, sections)
BY DEF With, Timelines

LEMMA WithOwn ==
    ASSUME NEW b \in Timelines
    PROVE  With(b, b.sections) = b
BY DEF With, Timelines

LEMMA EndedIs ==
    ASSUME NEW front \in Seq(SectionItems), NEW label \in Labels, NEW periods \in Seq(PeriodItems)
    PROVE  /\ [label |-> label, periods |-> periods] \in SectionItems
           /\ Ended(front, label, periods) \in Seq(SectionItems)
           /\ Len(Ended(front, label, periods)) = Len(front) + 1
           /\ Ended(front, label, periods) # <<>>
           /\ Ended(front, label, periods)[Len(front) + 1] = [label |-> label, periods |-> periods]
<1>1. [label |-> label, periods |-> periods] \in SectionItems
  BY DEF SectionItems
<1>2. QED
  BY <1>1, AppendIs DEF Ended

LEMMA LastPeriods ==
    ASSUME NEW b \in Timelines, NEW front \in Seq(SectionItems), NEW label \in Labels,
           NEW old \in Seq(PeriodItems), b.sections = Ended(front, label, old),
           NEW periods \in Seq(PeriodItems)
    PROVE  Reperioded(b, Len(b.sections), periods) = With(b, Ended(front, label, periods))
<1> DEFINE n == Len(b.sections)
           last == [label |-> label, periods |-> old]
           new == [label |-> label, periods |-> periods]
<1>1. last \in SectionItems /\ new \in SectionItems /\ n = Len(front) + 1 /\ b.sections[n] = last
  BY EndedIs
<1>2. [b.sections EXCEPT ![n] = new] = Append(front, new)
  <2>1. b.sections = Append(front, last)
    BY DEF Ended
  <2> HIDE DEF last, new, n
  <2>2. [Append(front, last) EXCEPT ![Len(front) + 1] = new] = Append(front, new)
    BY <1>1, LastReplaced
  <2>3. QED
    BY <1>1, <2>1, <2>2
<1>3. [b.sections[n] EXCEPT !.periods = periods] = new
  BY <1>1
<1>4. [b EXCEPT !.sections[n].periods = periods]
        = [b EXCEPT !.sections = [b.sections EXCEPT ![n] = [b.sections[n] EXCEPT !.periods = periods]]]
  OBVIOUS
<1>5. QED
  BY <1>2, <1>3, <1>4 DEF With, Ended, Reperioded

\* The section that a period of c goes to, opened or not yet.
Open(c, front, label, periods) ==
    \/ c.sections = Ended(front, label, periods)
    \/ c.sections = <<>> /\ front = <<>> /\ label = None /\ periods = <<>>
EventsOf(line) == IF line.event = None THEN <<>> ELSE <<line.event>>

LEMMA PeriodRead ==
    ASSUME NEW c \in Timelines, NEW front \in Seq(SectionItems), NEW label \in Labels,
           NEW periods \in Seq(PeriodItems), Open(c, front, label, periods),
           NEW line, [label |-> line.label, events |-> EventsOf(line)] \in PeriodItems
    PROVE  Timeline!ReadPeriod(c, line)
             = With(c, Ended(front, label,
                             Append(periods, [label |-> line.label, events |-> EventsOf(line)])))
<1> DEFINE period == [label |-> line.label, events |-> EventsOf(line)]
           opened == IF c.sections = <<>> THEN With(c, Ended(<<>>, None, <<>>)) ELSE c
           more == Append(periods, period)
<1>1. Timeline!ReadPeriod(c, line)
        = [opened EXCEPT !.sections[Len(opened.sections)].periods = Append(@, period)]
  <2>1. Ended(<<>>, None, <<>>) = <<[label |-> None, periods |-> <<>>]>>
    BY DEF Ended
  <2>2. QED
    BY <2>1 DEF Timeline!ReadPeriod, Timeline!Section, Timeline!Period, EventsOf, With
<1>2. opened \in Timelines /\ opened.sections = Ended(front, label, periods)
      /\ \A sections : With(opened, sections) = With(c, sections)
  <2>1. CASE c.sections = <<>>
    <3>1. front = <<>> /\ label = None /\ periods = <<>>
      BY <2>1, EndedIs DEF Open
    <3>2. Ended(front, label, periods) \in Seq(SectionItems)
      BY EndedIs
    <3>3. opened = With(c, Ended(front, label, periods))
      BY <2>1, <3>1
    <3> HIDE DEF opened
    <3>4. QED
      BY <3>2, <3>3, WithIs
  <2>2. CASE c.sections # <<>>
    BY <2>2 DEF Open
  <2>3. QED
    BY <2>1, <2>2
<1>3. more \in Seq(PeriodItems)
  BY AppendIs
<1> HIDE DEF opened, period
<1>4. opened.sections[Len(opened.sections)].periods = periods
  <2> HIDE DEF more
  <2>1. opened.sections = Ended(front, label, periods)
    BY <1>2
  <2>2. Len(Ended(front, label, periods)) = Len(front) + 1
    BY EndedIs
  <2>3. Ended(front, label, periods)[Len(front) + 1] = [label |-> label, periods |-> periods]
    BY EndedIs
  <2>4. QED
    BY <2>1, <2>2, <2>3
<1>5. [opened EXCEPT !.sections[Len(opened.sections)].periods = Append(@, period)]
        = Reperioded(opened, Len(opened.sections), more)
  BY <1>4 DEF Reperioded
<1>6. Reperioded(opened, Len(opened.sections), more) = With(opened, Ended(front, label, more))
  <2> HIDE DEF more
  <2>1. QED
    BY <1>2, <1>3, LastPeriods
<1>7. QED
  BY <1>1, <1>2, <1>5, <1>6 DEF period

LEMMA ContinuationRead ==
    ASSUME NEW c \in Timelines, NEW front \in Seq(SectionItems), NEW label \in Labels,
           NEW periods \in Seq(PeriodItems), NEW period \in PeriodItems, NEW event \in Words,
           c.sections = Ended(front, label, Append(periods, period)),
           NEW line, line.event = event
    PROVE  /\ Timeline!HasPeriod(c)
           /\ Timeline!ReadContinuation(c, line)
                = With(c, Ended(front, label,
                                Append(periods, [label |-> period.label,
                                                 events |-> Append(period.events, event)])))
<1> DEFINE s == Len(c.sections)
           old == Append(periods, period)
           p == Len(old)
           new == [label |-> period.label, events |-> Append(period.events, event)]
           more == Append(periods, new)
<1>1. old \in Seq(PeriodItems) /\ old # <<>> /\ p = Len(periods) + 1 /\ old[p] = period
  BY AppendIs
<1>2. new \in PeriodItems /\ new = [period EXCEPT !.events = Append(period.events, event)]
  <2>1. period.events \in Seq(Words)
    BY DEF PeriodItems
  <2>2. Append(period.events, event) \in Seq(Words)
    BY <2>1, AppendIs
  <2>3. QED
    BY <2>2, EventsPut
<1>3. more \in Seq(PeriodItems)
  BY <1>2, AppendIs
<1>4. [old EXCEPT ![p] = new] = more
  <2>1. new \in PeriodItems
    BY <1>2
  <2> HIDE DEF new, old
  <2>2. [Append(periods, period) EXCEPT ![Len(periods) + 1] = new] = Append(periods, new)
    BY <2>1, LastReplaced
  <2>3. QED
    BY <1>1, <2>2 DEF old
<1> HIDE DEF old, p
<1>5. s = Len(front) + 1 /\ c.sections # <<>> /\ c.sections[s] = [label |-> label, periods |-> old]
  <2>1. c.sections = Ended(front, label, old)
    BY DEF old
  <2>2. Len(Ended(front, label, old)) = Len(front) + 1 /\ Ended(front, label, old) # <<>>
        /\ Ended(front, label, old)[Len(front) + 1] = [label |-> label, periods |-> old]
    BY <1>1, EndedIs
  <2>3. QED
    BY <2>1, <2>2
<1>6. Timeline!HasPeriod(c)
  <2>1. c.sections[Len(c.sections)].periods = old
    BY <1>5
  <2>2. QED
    BY <1>1, <1>5, <2>1 DEF Timeline!HasPeriod, Timeline!Last
<1>7. Timeline!ReadContinuation(c, line) = Reperioded(c, s, more)
  <2>1. /\ c.sections[s].periods = old /\ Len(c.sections[s].periods) = p
        /\ c.sections[s].periods[p].events = period.events
    BY <1>1, <1>5 DEF p
  <2>2. Timeline!ReadContinuation(c, line)
          = [c EXCEPT !.sections[s].periods[p].events = Append(period.events, event)]
    BY <2>1 DEF Timeline!ReadContinuation
  <2>3. [c EXCEPT !.sections[s].periods[p].events = Append(period.events, event)]
          = [c EXCEPT !.sections[s].periods =
               [c.sections[s].periods EXCEPT ![p] =
                  [c.sections[s].periods[p] EXCEPT !.events = Append(period.events, event)]]]
    OBVIOUS
  <2>4. [c.sections[s].periods[p] EXCEPT !.events = Append(period.events, event)] = new
    BY <1>1, <1>2, <2>1
  <2> HIDE DEF s, new, more
  <2>5. QED
    BY <1>4, <2>1, <2>2, <2>3, <2>4 DEF Reperioded
<1>8. Reperioded(c, s, more) = With(c, Ended(front, label, more))
  <2> HIDE DEF more
  <2>1. QED
    BY <1>1, <1>3, LastPeriods DEF old
<1>9. QED
  BY <1>6, <1>7, <1>8

(***************************************************************************)
(* Timelines: a body that says what it would be read as is read as itself. *)
(***************************************************************************)
\* The lines of a period's events after the first.
Continued(events) ==
    LET more == SubSeq(events, 2, Len(events))
    IN [k \in DOMAIN more |-> [kind |-> "continuation", event |-> more[k]]]

LEMMA ContinuedIs ==
    ASSUME NEW events \in Seq(Words)
    PROVE  /\ Continued(events) \in Seq(WrittenLines)
           /\ Len(Continued(events)) = (IF events = <<>> THEN 0 ELSE Len(events) - 1)
           /\ \A k \in 1 .. Len(Continued(events)) :
                /\ k + 1 \in 1 .. Len(events) /\ events[k + 1] \in Words
                /\ Continued(events)[k] = [kind |-> "continuation", event |-> events[k + 1]]
<1> DEFINE more == SubSeq(events, 2, Len(events))
           n == IF events = <<>> THEN 0 ELSE Len(events) - 1
           lines == [k \in DOMAIN more |-> [kind |-> "continuation", event |-> more[k]]]
<1>1. /\ n \in Nat /\ Len(events) \in Nat
      /\ \A k \in 1 .. n : k + 1 \in 1 .. Len(events) /\ events[k + 1] \in Words
  OBVIOUS
<1>2. DOMAIN more = 1 .. n /\ \A k \in 1 .. n : more[k] = events[k + 1]
  OBVIOUS
<1> HIDE DEF n, more
<1>3. \A k \in 1 .. n : lines[k] = [kind |-> "continuation", event |-> events[k + 1]]
  BY <1>2
<1>4. lines = [k \in 1 .. n |-> lines[k]]
  BY <1>2
<1> HIDE DEF lines
<1>5. \A k \in 1 .. n : lines[k] \in WrittenLines
  <2> SUFFICES ASSUME NEW k \in 1 .. n PROVE lines[k] \in WrittenLines
    OBVIOUS
  <2> DEFINE event == events[k + 1]
  <2>1. event \in Words /\ lines[k] = [kind |-> "continuation", event |-> event]
    BY <1>1, <1>3
  <2> HIDE DEF event
  <2>2. QED
    BY <2>1 DEF WrittenLines
<1>6. lines \in Seq(WrittenLines) /\ Len(lines) = n
  BY <1>1, <1>4, <1>5, SequenceIs
<1>7. Continued(events) = lines
  BY DEF Continued, lines, more
<1>8. QED
  BY <1>1, <1>3, <1>6, <1>7 DEF n

LEMMA PlainLineIs ==
    ASSUME NEW period \in PeriodItems, PlainPeriod(period)
    PROVE  /\ Timeline!PeriodLine(period).kind = "period"
           /\ Timeline!PeriodLine(period).label = period.label
           /\ EventsOf(Timeline!PeriodLine(period)) =
                (IF period.events = <<>> THEN <<>> ELSE <<period.events[1]>>)
<1> DEFINE event == IF period.events = <<>> THEN None ELSE period.events[1]
<1>1. Timeline!PeriodLine(period) = [kind |-> "period", label |-> period.label, event |-> event]
  <2>1. period.events = <<>> \/ event # None
    <3>1. period.events \in Seq(Words)
      BY DEF PeriodItems
    <3>2. period.events # <<>> => period.events[1] \in Words
      BY <3>1
    <3>3. QED
      BY <3>2 DEF Words
  <2>2. period.label \notin DOMAIN timeline.titleOf
        /\ ~ (period.label \in DOMAIN timeline.sectionOf /\ event = None)
    BY <2>1 DEF PlainPeriod
  <2>3. QED
    BY <2>2 DEF Timeline!PeriodLine
<1>2. event = None <=> period.events = <<>>
  <2>1. period.events \in Seq(Words)
    BY DEF PeriodItems
  <2>2. period.events # <<>> => period.events[1] \in Words
    BY <2>1
  <2>3. QED
    BY <2>2 DEF Words
<1>3. QED
  BY <1>1, <1>2 DEF EventsOf

LEMMA PeriodReads ==
    ASSUME NEW c \in Timelines, NEW front \in Seq(SectionItems), NEW label \in Labels,
           NEW periods \in Seq(PeriodItems), Open(c, front, label, periods),
           NEW period \in PeriodItems, PlainPeriod(period)
    PROVE  Reads(c, Timeline!PeriodLines(period),
                 With(c, Ended(front, label, Append(periods, period))))
<1> DEFINE events == period.events
           line == Timeline!PeriodLine(period)
           lines == Continued(events)
           saying(k) == [label |-> period.label, events |-> First(events, k)]
           led(k) == With(c, Ended(front, label, Append(periods, saying(k))))
           m == Len(lines)
<1>1. /\ events \in Seq(Words) /\ period.label \in Labels
      /\ period = [label |-> period.label, events |-> events]
  BY DEF PeriodItems
<1>2. /\ Timeline!PeriodLines(period) = <<line>> \o lines
      /\ lines \in Seq(WrittenLines) /\ <<line>> \in Seq(WrittenLines)
  <2>1. line \in WrittenLines
    BY PeriodLineIs
  <2> HIDE DEF line
  <2>2. <<line>> \in Seq(WrittenLines)
    BY <2>1
  <2>3. QED
    BY <1>1, <2>2, ContinuedIs DEF Timeline!PeriodLines, Continued, line
<1>3. /\ line.kind = "period" /\ line.label = period.label
      /\ EventsOf(line) = IF events = <<>> THEN <<>> ELSE <<events[1]>>
  BY PlainLineIs
<1> HIDE DEF line
<1>4. ASSUME NEW k \in 0 .. Len(events) PROVE saying(k) \in PeriodItems
  <2>1. First(events, k) \in Seq(Words)
    <3>1. \A j \in 1 .. k : events[j] \in Words
      BY <1>1
    <3>2. k \in Nat
      OBVIOUS
    <3>3. QED
      BY <3>1, <3>2 DEF First
  <2>2. QED
    BY <1>1, <2>1 DEF PeriodItems
<1>5. ASSUME NEW k \in 0 .. Len(events)
      PROVE  led(k) \in Timelines /\ led(k).sections = Ended(front, label, Append(periods, saying(k)))
             /\ \A other : With(led(k), other) = With(c, other)
  <2>1. Append(periods, saying(k)) \in Seq(PeriodItems)
    BY <1>4, AppendIs
  <2> HIDE DEF saying
  <2>2. Ended(front, label, Append(periods, saying(k))) \in Seq(SectionItems)
    BY <2>1, EndedIs
  <2>3. QED
    BY <2>2, WithIs
<1> DEFINE first == IF events = <<>> THEN 0 ELSE 1
<1>6. first \in 0 .. Len(events) /\ EventsOf(line) = First(events, first)
  <2>1. CASE events = <<>>
    <3>1. Len(events) \in Nat /\ EventsOf(line) = <<>> /\ first = 0
      BY <1>1, <1>3, <2>1
    <3>2. First(events, 0) = <<>>
      BY <1>1, FirstAll
    <3> HIDE DEF first, events
    <3>3. QED
      BY <3>1, <3>2
  <2>2. CASE events # <<>>
    <3>1. 1 \in 1 .. Len(events) /\ 1 - 1 = 0
      BY <1>1, <2>2
    <3>2. Append(First(events, 0), events[1]) = First(events, 1)
      BY <1>1, <3>1, FirstNext
    <3>3. First(events, 1) = <<events[1]>>
      <4>1. First(events, 0) = <<>>
        BY <1>1, FirstAll
      <4>2. Append(<<>>, events[1]) = <<events[1]>>
        OBVIOUS
      <4> HIDE DEF events
      <4>3. QED
        BY <3>2, <4>1, <4>2
    <3>4. QED
      BY <1>3, <2>2, <3>1, <3>3
  <2>3. QED
    BY <2>1, <2>2
<1> HIDE DEF first
<1>7. Reads(c, <<line>>, led(first))
  <2>1. Timeline!ReadLine(c, line) = {Timeline!ReadPeriod(c, line)}
    BY <1>3 DEF Timeline!ReadLine
  <2>2. [label |-> line.label, events |-> EventsOf(line)] = saying(first)
    BY <1>3, <1>6
  <2>3. saying(first) \in PeriodItems
    BY <1>4, <1>6
  <2> HIDE DEF saying
  <2>4. Timeline!ReadPeriod(c, line) = led(first)
    BY <2>2, <2>3, PeriodRead
  <2>5. led(first) \in Timeline!ReadLine(c, line)
    BY <2>1, <2>4
  <2> HIDE DEF led
  <2>6. QED
    BY <2>5, ReadsOne
<1>8. Reads(led(first), lines, led(Len(events)))
  <2>1. /\ m \in Nat /\ first + m = Len(events)
        /\ \A k \in 1 .. m :
             /\ k + 1 \in 1 .. Len(events) /\ events[k + 1] \in Words
             /\ lines[k] = [kind |-> "continuation", event |-> events[k + 1]]
             /\ first = 1
    <3>1. /\ Len(events) \in Nat /\ (events = <<>> => Len(events) = 0)
          /\ (events # <<>> => Len(events) - 1 \in Nat)
      BY <1>1
    <3>2. m = IF events = <<>> THEN 0 ELSE Len(events) - 1
      BY <1>1, ContinuedIs
    <3>3. m \in Nat /\ first + m = Len(events) /\ (m # 0 => first = 1)
      BY <3>1, <3>2 DEF first
    <3>4. \A k \in 1 .. m : m # 0
      BY <3>3
    <3>5. \A k \in 1 .. m :
            /\ k + 1 \in 1 .. Len(events) /\ events[k + 1] \in Words
            /\ lines[k] = [kind |-> "continuation", event |-> events[k + 1]]
      BY <1>1, ContinuedIs
    <3> HIDE DEF m, first, events, lines
    <3>6. QED
      BY <3>3, <3>4, <3>5
  <2> DEFINE f == [k \in 0 .. m |-> led(first + k)]
  <2>2. f[0] = led(first) /\ f[m] = led(Len(events))
    <3>1. 0 \in 0 .. m /\ m \in 0 .. m /\ first + 0 = first
      BY <1>6, <2>1
    <3> HIDE DEF led, m, first
    <3>2. QED
      BY <2>1, <3>1
  <2>3. ASSUME NEW k \in 1 .. m PROVE f[k] \in Timeline!ReadLine(f[k - 1], lines[k])
    <3>1. /\ k \in Nat /\ first + k = k + 1 /\ first + (k - 1) = k /\ k \in 0 .. m /\ k - 1 \in 0 .. m
          /\ k \in 0 .. Len(events) /\ k + 1 \in 1 .. Len(events) /\ (k + 1) - 1 = k
      <4>1. m \in Nat /\ k + 1 \in 1 .. Len(events) /\ first = 1
        BY <2>1
      <4>2. Len(events) \in Nat
        BY <1>1
      <4> HIDE DEF m, first, events
      <4>3. QED
        BY <4>1, <4>2
    <3>2. f[k] = led(k + 1) /\ f[k - 1] = led(k)
      BY <3>1
    <3>3. Append(First(events, k), events[k + 1]) = First(events, k + 1)
      BY <1>1, <3>1, FirstNext
    <3> DEFINE b == led(k)
    <3>4. /\ b \in Timelines /\ b.sections = Ended(front, label, Append(periods, saying(k)))
          /\ \A other : With(b, other) = With(c, other)
      BY <1>5, <3>1
    <3>5. lines[k].kind = "continuation" /\ lines[k].event = events[k + 1] /\ events[k + 1] \in Words
      <4>1. lines[k] = [kind |-> "continuation", event |-> events[k + 1]] /\ events[k + 1] \in Words
        BY <2>1
      <4> HIDE DEF m, events, lines
      <4>2. QED
        BY <4>1
    <3>6. saying(k) \in PeriodItems /\ saying(k).label = period.label /\ saying(k).events = First(events, k)
      BY <1>4, <3>1
    <3>7. led(k + 1) = With(c, Ended(front, label,
             Append(periods, [label |-> saying(k).label, events |-> Append(saying(k).events, events[k + 1])])))
      BY <3>3, <3>6
    <3> HIDE DEF saying, b, f, led, lines, m, first, events
    <3>8. /\ Timeline!HasPeriod(b)
          /\ Timeline!ReadContinuation(b, lines[k]) = With(b, Ended(front, label,
               Append(periods, [label |-> saying(k).label, events |-> Append(saying(k).events, events[k + 1])])))
      <4> DEFINE period2 == saying(k)
                 event == events[k + 1]
                 line2 == lines[k]
      <4>1. /\ b \in Timelines /\ period2 \in PeriodItems /\ event \in Words /\ line2.event = event
            /\ b.sections = Ended(front, label, Append(periods, period2))
        BY <3>4, <3>5, <3>6
      <4> HIDE DEF period2, event, line2
      <4>2. /\ Timeline!HasPeriod(b)
            /\ Timeline!ReadContinuation(b, line2) = With(b, Ended(front, label,
                 Append(periods, [label |-> period2.label, events |-> Append(period2.events, event)])))
        BY <4>1, ContinuationRead
      <4>3. QED
        BY <4>2 DEF period2, event, line2
    <3>9. Timeline!ReadContinuation(b, lines[k]) = f[k]
      BY <3>2, <3>4, <3>7, <3>8
    <3>10. Timeline!ReadLine(b, lines[k]) = {f[k]}
      BY <3>5, <3>8, <3>9 DEF Timeline!ReadLine
    <3>11. f[k - 1] = b
      BY <3>2 DEF b
    <3>12. QED
      BY <3>10, <3>11
  <2> HIDE DEF f
  <2>4. QED
    BY <2>2, <2>3 DEF Reads, m
<1>9. led(Len(events)) = With(c, Ended(front, label, Append(periods, period)))
  BY <1>1, FirstAll
<1>10. QED
  <2> HIDE DEF led, lines
  <2>1. QED
    BY <1>2, <1>7, <1>8, <1>9, ReadsOn

\* The lines of a section, its heading and those of its periods.
SectionLines(section) ==
    Timeline!SectionLine(section.label)
      \o Timeline!FlattenSeq([p \in DOMAIN section.periods |-> Timeline!PeriodLines(section.periods[p])])

LEMMA ListedIs ==
    ASSUME NEW periods \in Seq(PeriodItems)
    PROVE  LET listed == [p \in DOMAIN periods |-> Timeline!PeriodLines(periods[p])]
           IN listed \in Seq(Seq(WrittenLines)) /\ Len(listed) = Len(periods)
<1> DEFINE n == Len(periods)
           listed == [p \in DOMAIN periods |-> Timeline!PeriodLines(periods[p])]
           S == Seq(WrittenLines)
<1>1. n \in Nat /\ DOMAIN periods = 1 .. n /\ \A p \in 1 .. n : periods[p] \in PeriodItems
  OBVIOUS
<1>2. \A p \in 1 .. n : Timeline!PeriodLines(periods[p]) \in S
  BY <1>1, PeriodLinesAre
<1>3. listed = [p \in 1 .. n |-> listed[p]] /\ \A p \in 1 .. n : listed[p] \in S
  BY <1>1, <1>2
<1> HIDE DEF n, listed, S
<1>4. listed \in Seq(S) /\ Len(listed) = n
  BY <1>1, <1>3, SequenceIs
<1>5. QED
  BY <1>4 DEF listed, n, S

LEMMA SectionLinesAre ==
    ASSUME NEW section \in SectionItems
    PROVE  SectionLines(section) \in Seq(WrittenLines)
<1> DEFINE listed == [p \in DOMAIN section.periods |-> Timeline!PeriodLines(section.periods[p])]
           heading == Timeline!SectionLine(section.label)
<1>1. section.label \in Labels /\ section.periods \in Seq(PeriodItems)
  BY DEF SectionItems
<1>2. listed \in Seq(Seq(WrittenLines))
  BY <1>1, ListedIs
<1> HIDE DEF listed
<1>3. Timeline!FlattenSeq(listed) \in Seq(WrittenLines)
  BY <1>2, FlattenIs
<1>4. heading \in Seq(WrittenLines)
  BY <1>1, SectionLineIs
<1> HIDE DEF heading
<1>5. heading \o Timeline!FlattenSeq(listed) \in Seq(WrittenLines)
  BY <1>3, <1>4, ConcatIs
<1>6. QED
  BY <1>5 DEF SectionLines, listed, heading

LEMMA SectionReads ==
    ASSUME NEW h \in Timelines, NEW front \in Seq(SectionItems), NEW section \in SectionItems,
           PlainSection(section), section.label = None => front = <<>> /\ section.periods # <<>>
    PROVE  Reads(With(h, front), SectionLines(section), With(h, Append(front, section)))
<1> DEFINE label == section.label
           periods == section.periods
           n == Len(periods)
           listed == [p \in DOMAIN periods |-> Timeline!PeriodLines(periods[p])]
           heading == Timeline!SectionLine(label)
           t == [p \in 0 .. n |-> IF p = 0 /\ label = None THEN With(h, front)
                                  ELSE With(h, Ended(front, label, First(periods, p)))]
<1>1. /\ label \in Labels /\ periods \in Seq(PeriodItems)
      /\ section = [label |-> label, periods |-> periods]
  BY DEF SectionItems
<1>2. /\ n \in Nat /\ DOMAIN periods = 1 .. n
      /\ \A p \in 1 .. n : periods[p] \in PeriodItems /\ PlainPeriod(periods[p])
  BY <1>1 DEF PlainSection
<1>3. listed \in Seq(Seq(WrittenLines)) /\ Len(listed) = n
  BY <1>1, ListedIs
<1>4. \A p \in 1 .. n : listed[p] = Timeline!PeriodLines(periods[p])
  BY <1>2
<1>5. With(h, front) \in Timelines /\ With(h, front).sections = front
      /\ \A other : With(With(h, front), other) = With(h, other)
  BY WithIs
<1> HIDE DEF listed, periods, label, n
<1>6. \A p \in 0 .. n : First(periods, p) \in Seq(PeriodItems)
  <2> SUFFICES ASSUME NEW p \in 0 .. n PROVE First(periods, p) \in Seq(PeriodItems)
    OBVIOUS
  <2>1. p \in Nat /\ \A k \in 1 .. p : periods[k] \in PeriodItems
    BY <1>2
  <2>2. QED
    BY <2>1 DEF First
<1>7. /\ \A p \in 1 .. n : t[p] = With(h, Ended(front, label, First(periods, p)))
      /\ t[0] = IF label = None THEN With(h, front) ELSE With(h, Ended(front, label, First(periods, 0)))
  BY <1>2
<1> HIDE DEF t
<1>8. ASSUME NEW p \in 0 .. n
      PROVE  /\ t[p] \in Timelines /\ Open(t[p], front, label, First(periods, p))
             /\ \A other : With(t[p], other) = With(h, other)
  <2>1. Ended(front, label, First(periods, p)) \in Seq(SectionItems)
    BY <1>1, <1>6, EndedIs
  <2>2. CASE p = 0 /\ label = None
    <3>1. t[p] = With(h, front) /\ front = <<>> /\ First(periods, p) = <<>>
      BY <1>1, <1>7, <2>2, FirstAll DEF label
    <3>2. QED
      BY <1>5, <2>2, <3>1 DEF Open
  <2>3. CASE ~ (p = 0 /\ label = None)
    <3>1. t[p] = With(h, Ended(front, label, First(periods, p)))
      <4>1. p = 0 \/ p \in 1 .. n
        BY <1>2
      <4>2. QED
        BY <1>7, <2>3, <4>1
    <3>2. QED
      BY <2>1, <3>1, WithIs DEF Open
  <2>4. QED
    BY <2>2, <2>3
<1>9. ASSUME NEW p \in 1 .. n PROVE Reads(t[p - 1], listed[p], t[p])
  <2>1. p - 1 \in 0 .. n /\ p \in 1 .. Len(periods)
    BY <1>2 DEF n
  <2>2. Append(First(periods, p - 1), periods[p]) = First(periods, p)
    BY <1>1, <2>1, FirstNext
  <2>3. Reads(t[p - 1], Timeline!PeriodLines(periods[p]),
              With(t[p - 1], Ended(front, label, Append(First(periods, p - 1), periods[p]))))
    BY <1>1, <1>2, <1>6, <1>8, <2>1, PeriodReads
  <2>4. QED
    BY <1>4, <1>7, <1>8, <2>1, <2>2, <2>3
<1>10. Reads(t[0], Timeline!FlattenSeq(listed), t[n])
  BY <1>3, <1>9, FlattenReads
<1>11. Reads(With(h, front), heading, t[0])
  <2>1. CASE label = None
    <3>1. label \notin DOMAIN timeline.periodOf
      BY DEF PlainSection, label
    <3>2. heading = <<>>
      BY <2>1, <3>1 DEF Timeline!SectionLine
    <3>3. t[0] = With(h, front)
      BY <1>7, <2>1
    <3>4. QED
      BY <3>2, <3>3, ReadsNone
  <2>2. CASE label # None
    <3> DEFINE line == [kind |-> "section", label |-> label]
    <3>1. heading = <<line>>
      BY <2>2 DEF Timeline!SectionLine, PlainSection, label
    <3>2. Timeline!ReadLine(With(h, front), line)
            = {[With(h, front) EXCEPT !.sections = Append(@, Timeline!Section(label, <<>>))]}
      BY DEF Timeline!ReadLine
    <3>3. [With(h, front) EXCEPT !.sections = Append(@, Timeline!Section(label, <<>>))]
            = With(With(h, front), Ended(front, label, <<>>))
      <4> DEFINE b == With(h, front)
      <4>1. b.sections = front
        BY <1>5
      <4> HIDE DEF b
      <4>2. [b EXCEPT !.sections = Append(@, Timeline!Section(label, <<>>))] = With(b, Ended(front, label, <<>>))
        BY <4>1 DEF With, Ended, Timeline!Section
      <4>3. QED
        BY <4>2 DEF b
    <3>4. t[0] = With(h, Ended(front, label, <<>>))
      BY <1>1, <1>7, <2>2, FirstAll
    <3>5. t[0] \in Timeline!ReadLine(With(h, front), line)
      BY <1>5, <3>2, <3>3, <3>4
    <3> HIDE DEF line, heading
    <3>6. QED
      BY <3>1, <3>5, ReadsOne
  <2>3. QED
    BY <2>1, <2>2
<1>12. t[n] = With(h, Append(front, section))
  <2>1. n # 0 \/ label # None
    BY <1>1 DEF n, label, periods
  <2>2. n = 0 \/ n \in 1 .. n
    BY <1>2
  <2>3. t[n] = With(h, Ended(front, label, First(periods, n)))
    BY <1>7, <2>1, <2>2
  <2>4. First(periods, n) = periods
    BY <1>1, FirstAll DEF n
  <2>5. QED
    BY <1>1, <2>3, <2>4 DEF Ended
<1>13. heading \in Seq(WrittenLines) /\ Timeline!FlattenSeq(listed) \in Seq(WrittenLines)
  BY <1>1, <1>3, SectionLineIs, FlattenIs
<1>14. Reads(With(h, front), heading \o Timeline!FlattenSeq(listed), t[n])
  <2> HIDE DEF heading
  <2>1. QED
    BY <1>10, <1>11, <1>13, ReadsOn
<1>15. QED
  BY <1>12, <1>14 DEF SectionLines, heading, listed, label, periods

(***************************************************************************)
(* Timelines: a text is its heads, then its sections.                      *)
(***************************************************************************)
HeadLines(b) ==
    Timeline!TextLine(b, "title") \o Timeline!TextLine(b, "accTitle") \o Timeline!TextLine(b, "accDescr")
Heads(b) == With(b, <<>>)
SectionTexts(b) == [s \in DOMAIN b.sections |-> SectionLines(b.sections[s])]

LEMMA TextParts ==
    ASSUME NEW b \in Timelines
    PROVE  /\ Timeline!Render(b) = HeadLines(b) \o Timeline!FlattenSeq(SectionTexts(b))
           /\ HeadLines(b) \in Seq(WrittenLines)
           /\ SectionTexts(b) \in Seq(Seq(WrittenLines)) /\ Len(SectionTexts(b)) = Len(b.sections)
           /\ Timeline!FlattenSeq(SectionTexts(b)) \in Seq(WrittenLines)
<1> DEFINE texts == SectionTexts(b)
           n == Len(b.sections)
           S == Seq(WrittenLines)
<1>1. n \in Nat /\ DOMAIN b.sections = 1 .. n /\ \A s \in 1 .. n : b.sections[s] \in SectionItems
  BY TimelineIs
<1>2. \A s \in 1 .. n : SectionLines(b.sections[s]) \in S
  BY <1>1, SectionLinesAre
<1>3. texts = [s \in 1 .. n |-> texts[s]] /\ \A s \in 1 .. n : texts[s] \in S
  BY <1>1, <1>2 DEF SectionTexts
<1> HIDE DEF texts, n, S
<1>4. texts \in Seq(S) /\ Len(texts) = n
  BY <1>1, <1>3, SequenceIs
<1>5. Timeline!FlattenSeq(texts) \in S
  BY <1>4, FlattenIs DEF S
<1> DEFINE title == Timeline!TextLine(b, "title")
           accTitle == Timeline!TextLine(b, "accTitle")
           accDescr == Timeline!TextLine(b, "accDescr")
<1>6. title \in S /\ accTitle \in S /\ accDescr \in S
  BY TextLineIs DEF S, Headings
<1> HIDE DEF title, accTitle, accDescr
<1>7. title \o accTitle \in S
  BY <1>6, ConcatIs DEF S
<1>8. title \o accTitle \o accDescr \in S
  BY <1>6, <1>7, ConcatIs DEF S
<1>9. HeadLines(b) = title \o accTitle \o accDescr
  BY DEF HeadLines, title, accTitle, accDescr
<1>10. Timeline!Render(b) = HeadLines(b) \o Timeline!FlattenSeq(texts)
  BY DEF Timeline!Render, HeadLines, texts, SectionTexts, SectionLines, Timeline!Sections, Timeline!Periods
<1>11. QED
  BY <1>4, <1>5, <1>8, <1>9, <1>10 DEF texts, n, S

\* One head is read into a body that has none of that kind.
LEMMA HeadReads ==
    ASSUME NEW b \in Timelines, NEW c \in Timelines, NEW head \in Headings, c[head] = <<>>
    PROVE  Reads(c, Timeline!TextLine(b, head), [c EXCEPT ![head] = b[head]])
<1> DEFINE line == [kind |-> head, text |-> b[head]]
           d == [c EXCEPT ![head] = b[head]]
<1>1. CASE b[head] = <<>>
  <2>1. d = c
    BY <1>1 DEF Timelines, Headings
  <2> HIDE DEF d
  <2>2. Reads(c, <<>>, d)
    BY <2>1, ReadsNone
  <2>3. QED
    BY <1>1, <2>2 DEF Timeline!TextLine, d
<1>2. CASE b[head] # <<>>
  <2>1. Timeline!ReadLine(c, line) = {d}
    BY DEF Timeline!ReadLine, Headings
  <2> HIDE DEF d
  <2>2. Reads(c, <<line>>, d)
    <3> HIDE DEF line
    <3>1. QED
      BY <2>1, ReadsOne
  <2>3. QED
    BY <1>2, <2>2 DEF Timeline!TextLine, d
<1>3. QED
  BY <1>1, <1>2

LEMMA HeadsRead ==
    ASSUME NEW b \in Timelines
    PROVE  Reads(Timeline!Blank, HeadLines(b), Heads(b))
<1> DEFINE c0 == Timeline!Blank
           c1 == [c0 EXCEPT !["title"] = b["title"]]
           c2 == [c1 EXCEPT !["accTitle"] = b["accTitle"]]
           c3 == [c2 EXCEPT !["accDescr"] = b["accDescr"]]
           title == Timeline!TextLine(b, "title")
           accTitle == Timeline!TextLine(b, "accTitle")
           accDescr == Timeline!TextLine(b, "accDescr")
<1>1. /\ c0 \in Timelines /\ c0["title"] = <<>>
      /\ c1 \in Timelines /\ c1["accTitle"] = <<>>
      /\ c2 \in Timelines /\ c2["accDescr"] = <<>>
  <2>1. /\ c0 \in Timelines
        /\ c0 = [title |-> <<>>, accTitle |-> <<>>, accDescr |-> <<>>, sections |-> <<>>]
    BY TimelineBlankIs DEF Timeline!Blank, Read
  <2>2. c1 = [title |-> b.title, accTitle |-> <<>>, accDescr |-> <<>>, sections |-> <<>>]
    BY <2>1
  <2> HIDE DEF c1
  <2>3. c2 = [title |-> b.title, accTitle |-> b.accTitle, accDescr |-> <<>>, sections |-> <<>>]
    BY <2>2
  <2>4. b.title \in Phrases /\ b.accTitle \in Phrases
    BY DEF Timelines
  <2>5. <<>> \in Phrases /\ <<>> \in Seq(SectionItems)
    BY DEF Phrases
  <2> HIDE DEF c0, c2
  <2>6. c1 \in Timelines
    BY <2>2, <2>4, <2>5 DEF Timelines
  <2>7. c2 \in Timelines
    BY <2>3, <2>4, <2>5 DEF Timelines
  <2>8. QED
    BY <2>1, <2>2, <2>3, <2>6, <2>7
<1>2. c3 = Heads(b)
  BY DEF Heads, With, Timelines, Timeline!Blank
<1> HIDE DEF c0
<1>3. Reads(c0, title, c1)
  BY <1>1, HeadReads DEF Headings
<1> HIDE DEF c1
<1>4. Reads(c1, accTitle, c2)
  BY <1>1, HeadReads DEF Headings
<1> HIDE DEF c2
<1>5. Reads(c2, accDescr, c3)
  BY <1>1, HeadReads DEF Headings
<1> HIDE DEF c3
<1>6. title \in Seq(WrittenLines) /\ accTitle \in Seq(WrittenLines) /\ accDescr \in Seq(WrittenLines)
  BY TextLineIs DEF Headings
<1> HIDE DEF title, accTitle, accDescr
<1>7. Reads(c0, title \o accTitle, c2) /\ title \o accTitle \in Seq(WrittenLines)
  BY <1>3, <1>4, <1>6, ReadsOn, ConcatIs
<1>8. Reads(c0, title \o accTitle \o accDescr, c3)
  BY <1>5, <1>6, <1>7, ReadsOn
<1>9. QED
  BY <1>2, <1>8 DEF HeadLines, title, accTitle, accDescr, c0

\* A body that a text can say is what its text is read as.
LEMMA TimelineTextStays ==
    ASSUME NEW b \in Read
    PROVE  Timeline!Reparse(b) = {b}
<1> DEFINE n == Len(b.sections)
           texts == SectionTexts(b)
           t == [s \in 0 .. n |-> With(b, First(b.sections, s))]
<1>1. /\ b \in Timelines /\ b.sections \in Seq(SectionItems) /\ n \in Nat /\ DOMAIN b.sections = 1 .. n
      /\ \A s \in 1 .. n :
           /\ b.sections[s] \in SectionItems /\ PlainSection(b.sections[s]) /\ Told(b, s)
           /\ b.sections[s].label = None => s = 1
  BY TimelineIs DEF Read
<1>2. \A s \in 1 .. n : texts[s] = SectionLines(b.sections[s])
  BY <1>1 DEF SectionTexts
<1> HIDE DEF texts
<1>3. \A s \in 0 .. n : t[s] = With(b, First(b.sections, s))
  OBVIOUS
<1> HIDE DEF t, n
<1>4. ASSUME NEW s \in 1 .. n PROVE Reads(t[s - 1], texts[s], t[s])
  <2>1. s - 1 \in 0 .. n /\ s \in 0 .. n /\ s \in 1 .. Len(b.sections)
    BY <1>1 DEF n
  <2>2. First(b.sections, s - 1) \in Seq(SectionItems)
        /\ Append(First(b.sections, s - 1), b.sections[s]) = First(b.sections, s)
    BY <1>1, <2>1, FirstNext
  <2>3. b.sections[s].label = None => First(b.sections, s - 1) = <<>> /\ b.sections[s].periods # <<>>
    BY <1>1, FirstAll DEF Told
  <2>4. Reads(With(b, First(b.sections, s - 1)), SectionLines(b.sections[s]),
              With(b, Append(First(b.sections, s - 1), b.sections[s])))
    BY <1>1, <2>2, <2>3, SectionReads
  <2>5. QED
    BY <1>2, <1>3, <2>1, <2>2, <2>4
<1>5. /\ Timeline!Render(b) = HeadLines(b) \o Timeline!FlattenSeq(texts)
      /\ HeadLines(b) \in Seq(WrittenLines)
      /\ texts \in Seq(Seq(WrittenLines)) /\ Len(texts) = n
      /\ Timeline!FlattenSeq(texts) \in Seq(WrittenLines)
  BY <1>1, TextParts DEF texts, n
<1>6. Reads(t[0], Timeline!FlattenSeq(texts), t[n])
  BY <1>4, <1>5, FlattenReads
<1>7. t[0] = Heads(b) /\ t[n] = b
  <2>1. 0 \in 0 .. n /\ n \in 0 .. n
    BY <1>1
  <2>2. First(b.sections, 0) = <<>> /\ First(b.sections, n) = b.sections
    BY <1>1, FirstAll DEF n
  <2>3. QED
    BY <1>1, <1>3, <2>1, <2>2, WithOwn DEF Heads
<1>8. Reads(Timeline!Blank, Timeline!Render(b), b)
  BY <1>1, <1>5, <1>6, <1>7, HeadsRead, ReadsOn
<1>9. Timeline!Render(b) \in Seq(WrittenLines)
  BY <1>1, TimelineRenderIs
<1>10. QED
  BY <1>8, <1>9, WrittenLinesAre, ParseReads DEF Timeline!Reparse

(***************************************************************************)
(* Timelines: what the verifier counts, a line at a time.                  *)
(***************************************************************************)
LEMMA FlattenAppend ==
    ASSUME NEW L, NEW seqs \in Seq(Seq(L)), NEW s \in Seq(L)
    PROVE  Timeline!FlattenSeq(Append(seqs, s)) = Timeline!FlattenSeq(seqs) \o s
<1> DEFINE n == Len(seqs)
           more == Append(seqs, s)
<1>1. n \in Nat /\ more \in Seq(Seq(L)) /\ Len(more) = n + 1 /\ more[n + 1] = s
      /\ \A i \in 1 .. n : more[i] = seqs[i]
  BY AppendIs
<1> HIDE DEF n, more
<1>2. PICK f : /\ f[0] = <<>> /\ f[n] = Timeline!FlattenSeq(seqs)
               /\ \A i \in 1 .. n : f[i] = f[i - 1] \o seqs[i]
  BY FlattenSteps DEF n
<1>3. PICK g : /\ g[0] = <<>> /\ g[n + 1] = Timeline!FlattenSeq(more)
               /\ \A i \in 1 .. n + 1 : g[i] = g[i - 1] \o more[i]
  <2>1. \E g : /\ g[0] = <<>> /\ g[Len(more)] = Timeline!FlattenSeq(more)
               /\ \A i \in 1 .. Len(more) : g[i] = g[i - 1] \o more[i]
    <3>1. more \in Seq(Seq(L))
      BY <1>1
    <3>2. \E g : /\ g[0] = <<>> /\ g[Len(more)] = Timeline!FlattenSeq(more)
                 /\ \A i \in 0 .. Len(more) : g[i] \in Seq(L)
                 /\ \A i \in 1 .. Len(more) : g[i] = g[i - 1] \o more[i]
      BY <3>1, FlattenSteps
    <3>3. QED
      BY <3>2
  <2>2. Len(more) = n + 1
    BY <1>1
  <2>3. QED
    BY <2>1, <2>2
<1> DEFINE Same == {i \in 0 .. n : f[i] = g[i]}
<1>4. 0 \in Same
  BY <1>1, <1>2, <1>3
<1>5. ASSUME NEW i \in 1 .. n, i - 1 \in Same PROVE i \in Same
  <2>1. i \in 1 .. n + 1 /\ i \in 0 .. n
    BY <1>1
  <2>2. QED
    BY <1>1, <1>2, <1>3, <1>5, <2>1
<1> HIDE DEF Same
<1>6. \A i \in 0 .. n : i \in Same
  BY <1>1, <1>4, <1>5, CountUp
<1>7. f[n] = g[n]
  <2>1. n \in Same
    BY <1>1, <1>6
  <2>2. QED
    BY <2>1 DEF Same
<1>8. g[n + 1] = g[n] \o s
  <2>1. n + 1 \in 1 .. n + 1 /\ (n + 1) - 1 = n
    BY <1>1
  <2>2. QED
    BY <1>1, <1>3, <2>1
<1>9. QED
  BY <1>2, <1>3, <1>7, <1>8 DEF more

LEMMA FlattenNone == Timeline!FlattenSeq(<<>>) = <<>>
<1>1. PICK f : f[0] = <<>> /\ f[Len(<<>>)] = Timeline!FlattenSeq(<<>>)
  <2>1. <<>> \in Seq(Seq({}))
    OBVIOUS
  <2>2. QED
    BY <2>1, FlattenSteps
<1>2. Len(<<>>) = 0
  OBVIOUS
<1>3. QED
  BY <1>1, <1>2

LEMMA ConcatAppend ==
    ASSUME NEW L, NEW s \in Seq(L), NEW t \in Seq(L), NEW e \in L
    PROVE  s \o Append(t, e) = Append(s \o t, e)
<1> DEFINE a == Append(t, e)
           left == s \o a
           st == s \o t
           right == Append(st, e)
           m == Len(s)
           n == Len(t)
<1>1. m \in Nat /\ n \in Nat
  OBVIOUS
<1>2. a \in Seq(L) /\ Len(a) = n + 1 /\ a[n + 1] = e /\ \A j \in 1 .. n : a[j] = t[j]
  BY AppendIs
<1> HIDE DEF a, n, m
<1>3. /\ st \in Seq(L) /\ Len(st) = m + n
      /\ \A j \in 1 .. m : st[j] = s[j]
      /\ \A j \in 1 .. n : st[m + j] = t[j]
  BY ConcatIs, ConcatBefore, ConcatAfter DEF m, n
<1>4. /\ left \in Seq(L) /\ Len(left) = m + n + 1
      /\ \A j \in 1 .. m : left[j] = s[j]
      /\ \A j \in 1 .. n + 1 : left[m + j] = a[j]
  <2>1. left \in Seq(L) /\ Len(left) = m + (n + 1)
    BY <1>2, ConcatIs DEF m
  <2>2. \A j \in 1 .. m : left[j] = s[j]
    BY <1>2, ConcatBefore DEF m
  <2>3. \A j \in 1 .. n + 1 : left[m + j] = a[j]
    BY <1>2, ConcatAfter DEF m
  <2>4. QED
    BY <1>1, <2>1, <2>2, <2>3
<1> HIDE DEF left, st
<1>5. right \in Seq(L) /\ Len(right) = m + n + 1 /\ right[m + n + 1] = e
      /\ \A j \in 1 .. m + n : right[j] = st[j]
  BY <1>3, AppendIs
<1> HIDE DEF right
<1>6. ASSUME NEW j \in 1 .. m + n + 1 PROVE left[j] = right[j]
  <2>1. CASE j \in 1 .. m
    <3>1. j \in 1 .. m + n
      BY <1>1, <2>1
    <3>2. QED
      BY <1>3, <1>4, <1>5, <2>1, <3>1
  <2>2. CASE j = m + n + 1
    <3>1. n + 1 \in 1 .. n + 1 /\ j = m + (n + 1)
      BY <1>1, <2>2
    <3>2. left[j] = e
      BY <1>2, <1>4, <3>1
    <3>3. QED
      BY <1>5, <2>2, <3>2
  <2>3. CASE j \notin 1 .. m /\ j # m + n + 1
    <3> DEFINE k == j - m
    <3>1. k \in 1 .. n /\ k \in 1 .. n + 1 /\ j = m + k /\ j \in 1 .. m + n
      BY <1>1, <2>3
    <3> HIDE DEF k
    <3>2. QED
      BY <1>2, <1>3, <1>4, <1>5, <3>1
  <2>4. QED
    BY <2>1, <2>2, <2>3
<1>7. right = [j \in 1 .. m + n + 1 |-> right[j]] /\ m + n + 1 \in Nat
  BY <1>1, <1>5
<1>8. left = right
  BY <1>4, <1>6, <1>7, SameSequence
<1>9. QED
  BY <1>8 DEF left, right, st, a

\* What a map gives for one more element is at its end.
LEMMA MappedAppend ==
    ASSUME NEW n \in Nat, NEW M, NEW f, NEW g,
           g = [k \in 1 .. n |-> g[k]], \A k \in 1 .. n : g[k] \in M /\ f[k] = g[k],
           f = [k \in 1 .. n + 1 |-> f[k]], f[n + 1] \in M
    PROVE  g \in Seq(M) /\ f = Append(g, f[n + 1])
<1> DEFINE x == f[n + 1]
           a == Append(g, x)
<1>1. n + 1 \in Nat /\ x \in M
  OBVIOUS
<1> HIDE DEF x
<1>2. g \in Seq(M) /\ Len(g) = n
  BY SequenceIs
<1>3. a \in Seq(M) /\ Len(a) = n + 1 /\ a[n + 1] = x /\ \A k \in 1 .. n : a[k] = g[k]
  BY <1>1, <1>2, AppendIs
<1> HIDE DEF a
<1>4. \A k \in 1 .. n + 1 : a[k] = f[k]
  <2> SUFFICES ASSUME NEW k \in 1 .. n + 1 PROVE a[k] = f[k]
    OBVIOUS
  <2>1. k = n + 1 \/ k \in 1 .. n
    BY <1>1
  <2>2. QED
    BY <1>3, <2>1 DEF x
<1>5. a = f
  BY <1>1, <1>3, <1>4, SameSequence
<1>6. QED
  BY <1>2, <1>5 DEF a, x

EventsIn(periods) == Timeline!FlattenSeq([k \in DOMAIN periods |-> periods[k].events])
Pile(periods) == Len(periods) + Len(EventsIn(periods))
PeriodsIn(sections) == Timeline!FlattenSeq([s \in DOMAIN sections |-> sections[s].periods])
Items(sections) == Pile(PeriodsIn(sections))

LEMMA TallyIs ==
    ASSUME NEW b
    PROVE  Timeline!Tally(b) = <<Items(b.sections), 0, Len(b.sections)>>
BY DEF Timeline!Tally, Items, Pile, PeriodsIn, EventsIn, Timeline!Sections

LEMMA PileIs ==
    ASSUME NEW periods \in Seq(PeriodItems), NEW period \in PeriodItems
    PROVE  /\ Pile(periods) \in Nat
           /\ Pile(Append(periods, period)) = Pile(periods) + 1 + Len(period.events)
<1> DEFINE n == Len(periods)
           more == Append(periods, period)
           g == [k \in DOMAIN periods |-> periods[k].events]
           f == [k \in DOMAIN more |-> more[k].events]
           M == Seq(Words)
<1>1. /\ n \in Nat /\ DOMAIN periods = 1 .. n
      /\ \A k \in 1 .. n : periods[k] \in PeriodItems
  OBVIOUS
<1>2. /\ more \in Seq(PeriodItems) /\ Len(more) = n + 1 /\ DOMAIN more = 1 .. n + 1
      /\ more[n + 1] = period /\ \A k \in 1 .. n : more[k] = periods[k]
  BY AppendIs
<1>3. period.events \in M /\ \A k \in 1 .. n : periods[k].events \in M
  BY <1>1 DEF PeriodItems
<1> HIDE DEF n, more, M
<1>4. /\ g = [k \in 1 .. n |-> g[k]] /\ \A k \in 1 .. n : g[k] = periods[k].events
      /\ f = [k \in 1 .. n + 1 |-> f[k]] /\ \A k \in 1 .. n : f[k] = periods[k].events
  <2>1. \A k \in 1 .. n : k \in 1 .. n + 1
    BY <1>1
  <2>2. QED
    BY <1>1, <1>2, <2>1
<1>5. f[n + 1] = period.events
  <2>1. n + 1 \in 1 .. n + 1
    BY <1>1
  <2>2. QED
    BY <1>2, <2>1
<1> HIDE DEF f, g
<1>6. g \in Seq(M) /\ f = Append(g, period.events)
  <2>1. g \in Seq(M) /\ f = Append(g, f[n + 1])
    <3>1. /\ \A k \in 1 .. n : g[k] \in M /\ f[k] = g[k]
          /\ f[n + 1] \in M
      BY <1>3, <1>4, <1>5
    <3>2. g = [k \in 1 .. n |-> g[k]] /\ f = [k \in 1 .. n + 1 |-> f[k]] /\ n \in Nat
      BY <1>1, <1>4
    <3>3. QED
      BY <3>1, <3>2, MappedAppend
  <2>2. QED
    BY <1>5, <2>1
<1>7. EventsIn(periods) \in M /\ EventsIn(more) = EventsIn(periods) \o period.events
  BY <1>3, <1>6, FlattenIs, FlattenAppend DEF EventsIn, f, g, M
<1>8. Len(EventsIn(periods)) \in Nat /\ Len(period.events) \in Nat
      /\ Len(EventsIn(more)) = Len(EventsIn(periods)) + Len(period.events)
  BY <1>3, <1>7, ConcatIs DEF M
<1>9. Pile(periods) = n + Len(EventsIn(periods)) /\ Pile(more) = n + 1 + Len(EventsIn(more))
  BY <1>2 DEF Pile, n
<1>10. Pile(periods) \in Nat /\ Pile(more) = Pile(periods) + 1 + Len(period.events)
  <2> DEFINE old == Len(EventsIn(periods))
             new == Len(EventsIn(more))
             added == Len(period.events)
  <2>1. n \in Nat /\ old \in Nat /\ added \in Nat /\ new = old + added
    BY <1>1, <1>8
  <2>2. Pile(periods) = n + old /\ Pile(more) = n + 1 + new
    BY <1>9
  <2> HIDE DEF old, new, added
  <2>3. Pile(periods) \in Nat /\ Pile(more) = Pile(periods) + 1 + added
    BY <2>1, <2>2
  <2>4. QED
    BY <2>3 DEF added
<1>11. QED
  BY <1>10 DEF more

LEMMA PeriodsInIs ==
    ASSUME NEW front \in Seq(SectionItems), NEW section \in SectionItems
    PROVE  /\ PeriodsIn(front) \in Seq(PeriodItems)
           /\ PeriodsIn(Append(front, section)) = PeriodsIn(front) \o section.periods
<1> DEFINE n == Len(front)
           more == Append(front, section)
           g == [k \in DOMAIN front |-> front[k].periods]
           f == [k \in DOMAIN more |-> more[k].periods]
           M == Seq(PeriodItems)
<1>1. n \in Nat /\ DOMAIN front = 1 .. n /\ \A k \in 1 .. n : front[k] \in SectionItems
  OBVIOUS
<1>2. /\ more \in Seq(SectionItems) /\ Len(more) = n + 1 /\ DOMAIN more = 1 .. n + 1
      /\ more[n + 1] = section /\ \A k \in 1 .. n : more[k] = front[k]
  BY AppendIs
<1>3. section.periods \in M /\ \A k \in 1 .. n : front[k].periods \in M
  BY <1>1 DEF SectionItems
<1> HIDE DEF n, more, M
<1>4. /\ g = [k \in 1 .. n |-> g[k]] /\ \A k \in 1 .. n : g[k] = front[k].periods
      /\ f = [k \in 1 .. n + 1 |-> f[k]] /\ \A k \in 1 .. n : f[k] = front[k].periods
  <2>1. \A k \in 1 .. n : k \in 1 .. n + 1
    BY <1>1
  <2>2. QED
    BY <1>1, <1>2, <2>1
<1>5. f[n + 1] = section.periods
  <2>1. n + 1 \in 1 .. n + 1
    BY <1>1
  <2>2. QED
    BY <1>2, <2>1
<1> HIDE DEF f, g
<1>6. g \in Seq(M) /\ f = Append(g, section.periods)
  <2>1. g \in Seq(M) /\ f = Append(g, f[n + 1])
    <3>1. /\ \A k \in 1 .. n : g[k] \in M /\ f[k] = g[k]
          /\ f[n + 1] \in M
      BY <1>3, <1>4, <1>5
    <3>2. g = [k \in 1 .. n |-> g[k]] /\ f = [k \in 1 .. n + 1 |-> f[k]] /\ n \in Nat
      BY <1>1, <1>4
    <3>3. QED
      BY <3>1, <3>2, MappedAppend
  <2>2. QED
    BY <1>5, <2>1
<1>7. PeriodsIn(front) \in M /\ PeriodsIn(more) = PeriodsIn(front) \o section.periods
  BY <1>3, <1>6, FlattenIs, FlattenAppend DEF PeriodsIn, f, g, M
<1>8. QED
  BY <1>7 DEF M, more

LEMMA ItemsNone == Items(<<>>) = 0
<1>1. PeriodsIn(<<>>) = <<>>
  <2>1. [s \in DOMAIN <<>> |-> <<>>[s].periods] = <<>>
    OBVIOUS
  <2>2. QED
    BY <2>1, FlattenNone DEF PeriodsIn
<1>2. EventsIn(<<>>) = <<>>
  <2>1. [s \in DOMAIN <<>> |-> <<>>[s].events] = <<>>
    OBVIOUS
  <2>2. QED
    BY <2>1, FlattenNone DEF EventsIn
<1>3. Len(<<>>) = 0
  OBVIOUS
<1>4. QED
  BY <1>1, <1>2, <1>3 DEF Items, Pile

LEMMA ItemsNat ==
    ASSUME NEW sections \in Seq(SectionItems)
    PROVE  Items(sections) \in Nat
<1> DEFINE empty == [label |-> None, events |-> <<>>]
           nothing == [label |-> None, periods |-> <<>>]
<1>1. empty \in PeriodItems /\ nothing \in SectionItems
  BY DEF PeriodItems, SectionItems, Labels
<1> HIDE DEF empty, nothing
<1>2. PeriodsIn(sections) \in Seq(PeriodItems)
  BY <1>1, PeriodsInIs
<1>3. QED
  BY <1>1, <1>2, PileIs DEF Items

LEMMA ItemsSection ==
    ASSUME NEW front \in Seq(SectionItems), NEW label \in Labels
    PROVE  Items(Ended(front, label, <<>>)) = Items(front)
<1> DEFINE section == [label |-> label, periods |-> <<>>]
<1>1. section \in SectionItems /\ section.periods = <<>>
  BY DEF SectionItems
<1> HIDE DEF section
<1>2. PeriodsIn(front) \in Seq(PeriodItems)
      /\ PeriodsIn(Append(front, section)) = PeriodsIn(front) \o section.periods
  BY <1>1, PeriodsInIs
<1>3. PeriodsIn(front) \o <<>> = PeriodsIn(front)
  BY <1>2
<1>4. QED
  BY <1>1, <1>2, <1>3 DEF Items, Ended, section

LEMMA ItemsPeriod ==
    ASSUME NEW front \in Seq(SectionItems), NEW label \in Labels,
           NEW periods \in Seq(PeriodItems), NEW period \in PeriodItems
    PROVE  Items(Ended(front, label, Append(periods, period)))
             = Items(Ended(front, label, periods)) + 1 + Len(period.events)
<1> DEFINE more == Append(periods, period)
           old == [label |-> label, periods |-> periods]
           new == [label |-> label, periods |-> more]
           before == PeriodsIn(front)
<1>1. more \in Seq(PeriodItems)
  BY AppendIs
<1>2. old \in SectionItems /\ new \in SectionItems
  <2> HIDE DEF more
  <2>1. QED
    BY <1>1 DEF SectionItems
<1>3. /\ before \in Seq(PeriodItems)
      /\ PeriodsIn(Append(front, old)) = before \o periods
      /\ PeriodsIn(Append(front, new)) = before \o more
  <2> HIDE DEF more
  <2>1. old.periods = periods /\ new.periods = more
    OBVIOUS
  <2> HIDE DEF old, new
  <2>2. QED
    BY <1>2, <2>1, PeriodsInIs
<1> HIDE DEF before, old, new
<1>4. before \o more = Append(before \o periods, period) /\ before \o periods \in Seq(PeriodItems)
  BY <1>3, ConcatAppend, ConcatIs
<1>5. Pile(Append(before \o periods, period)) = Pile(before \o periods) + 1 + Len(period.events)
  BY <1>4, PileIs
<1>6. QED
  BY <1>3, <1>4, <1>5 DEF Items, Ended, old, new

\* What a line adds to the counts of the body it is read into.
Weight(line) ==
    CASE line.kind = "period" -> 1 + Len(EventsOf(line))
      [] line.kind = "continuation" -> 1
      [] OTHER -> 0
Outlined(c, line) ==
    CASE line.kind = "section" -> Len(c.sections) + 1
      [] line.kind = "period" -> IF c.sections = <<>> THEN 1 ELSE Len(c.sections)
      [] OTHER -> Len(c.sections)
\* d counts `more` periods and events beyond those of c, in so many sections.
Counted(c, d, more, sections) ==
    d \in Read /\ Items(d.sections) = Items(c.sections) + more /\ Len(d.sections) = sections

\* The sections of a body, up to the last one.
LEMMA LastSection ==
    ASSUME NEW c \in Timelines, c.sections # <<>>
    PROVE  \E front \in Seq(SectionItems), label \in Labels, periods \in Seq(PeriodItems) :
             /\ c.sections = Ended(front, label, periods)
             /\ Len(c.sections) = Len(front) + 1
             /\ Timeline!HasPeriod(c) => periods # <<>>
<1>1. c.sections \in Seq(SectionItems)
  BY TimelineIs
<1>2. PICK front \in Seq(SectionItems), last \in SectionItems : c.sections = Append(front, last)
  BY <1>1, LastOf
<1>3. /\ last.label \in Labels /\ last.periods \in Seq(PeriodItems)
      /\ last = [label |-> last.label, periods |-> last.periods]
  BY DEF SectionItems
<1>4. Len(c.sections) = Len(front) + 1 /\ c.sections[Len(front) + 1] = last
  BY <1>2, AppendIs
<1>5. Timeline!HasPeriod(c) => last.periods # <<>>
  BY <1>4 DEF Timeline!HasPeriod, Timeline!Last
<1>6. c.sections = Ended(front, last.label, last.periods)
  BY <1>2, <1>3 DEF Ended
<1>7. QED
  BY <1>3, <1>4, <1>5, <1>6

LEMMA SectionLineWeighs ==
    ASSUME NEW c \in Read, NEW line, IsTimelineLine(line), line.kind = "section",
           NEW d \in Timeline!ReadLine(c, line)
    PROVE  Counted(c, d, 0, Len(c.sections) + 1)
<1> DEFINE sections == Ended(c.sections, line.label, <<>>)
<1>1. c \in Timelines /\ c.sections \in Seq(SectionItems) /\ line.label \in Labels
  BY TimelineIs DEF Read, IsTimelineLine, Labels
<1>2. d = With(c, sections)
  BY DEF Timeline!ReadLine, Timeline!Section, With, Ended
<1>3. /\ sections \in Seq(SectionItems) /\ Len(sections) = Len(c.sections) + 1
      /\ Items(sections) = Items(c.sections) /\ Items(c.sections) \in Nat
  <2>1. <<>> \in Seq(PeriodItems)
    OBVIOUS
  <2>2. QED
    BY <1>1, <2>1, EndedIs, ItemsSection, ItemsNat
<1> HIDE DEF sections
<1>4. d.sections = sections
  BY <1>1, <1>2, <1>3, WithIs
<1>5. d \in Read
  BY ReadTimelineLineIs
<1>6. QED
  BY <1>3, <1>4, <1>5 DEF Counted

LEMMA PeriodLineWeighs ==
    ASSUME NEW c \in Read, NEW line, IsTimelineLine(line), line.kind = "period",
           NEW d \in Timeline!ReadLine(c, line)
    PROVE  Counted(c, d, 1 + Len(EventsOf(line)), IF c.sections = <<>> THEN 1 ELSE Len(c.sections))
<1> DEFINE period == [label |-> line.label, events |-> EventsOf(line)]
<1>1. c \in Timelines /\ d \in Read /\ d = Timeline!ReadPeriod(c, line)
  BY ReadTimelineLineIs DEF Read, Timeline!ReadLine
<1>2. period \in PeriodItems /\ Len(EventsOf(line)) \in Nat
  <2>1. EventsOf(line) \in Seq(Words)
    BY DEF EventsOf, IsTimelineLine, Labels
  <2>2. line.label \in Labels
    BY DEF IsTimelineLine
  <2>3. QED
    BY <2>1, <2>2 DEF PeriodItems
<1>3. PICK front \in Seq(SectionItems), label \in Labels, periods \in Seq(PeriodItems) :
        /\ Open(c, front, label, periods)
        /\ Items(Ended(front, label, periods)) = Items(c.sections)
        /\ Len(front) + 1 = IF c.sections = <<>> THEN 1 ELSE Len(c.sections)
  <2>1. CASE c.sections = <<>>
    <3>1. <<>> \in Seq(SectionItems) /\ None \in Labels /\ <<>> \in Seq(PeriodItems) /\ Len(<<>>) = 0
      BY DEF Labels
    <3>2. Open(c, <<>>, None, <<>>)
      BY <2>1 DEF Open
    <3>3. Items(Ended(<<>>, None, <<>>)) = Items(c.sections)
      BY <2>1, <3>1, ItemsSection
    <3> DEFINE front == <<>>
               label == None
               periods == <<>>
    <3>4. /\ front \in Seq(SectionItems) /\ label \in Labels /\ periods \in Seq(PeriodItems)
          /\ Open(c, front, label, periods)
          /\ Items(Ended(front, label, periods)) = Items(c.sections)
          /\ Len(front) + 1 = IF c.sections = <<>> THEN 1 ELSE Len(c.sections)
      BY <2>1, <3>1, <3>2, <3>3
    <3> HIDE DEF front, label, periods
    <3>5. QED
      BY <3>4
  <2>2. CASE c.sections # <<>>
    <3>1. PICK front \in Seq(SectionItems), label \in Labels, periods \in Seq(PeriodItems) :
             c.sections = Ended(front, label, periods) /\ Len(c.sections) = Len(front) + 1
      BY <1>1, <2>2, LastSection
    <3>2. Open(c, front, label, periods)
      BY <3>1 DEF Open
    <3>3. QED
      BY <2>2, <3>1, <3>2
  <2>3. QED
    BY <2>1, <2>2
<1> DEFINE more == Append(periods, period)
           sections == Ended(front, label, more)
<1>4. d = With(c, sections)
  <2>1. Timeline!ReadPeriod(c, line) = With(c, Ended(front, label, Append(periods, period)))
    BY <1>1, <1>2, <1>3, PeriodRead
  <2>2. QED
    BY <1>1, <2>1
<1>5. more \in Seq(PeriodItems)
  <2> HIDE DEF period
  <2>1. QED
    BY <1>2, AppendIs
<1>6. Items(sections) = Items(c.sections) + 1 + Len(EventsOf(line))
  <2>1. period.events = EventsOf(line)
    OBVIOUS
  <2> HIDE DEF period
  <2>2. QED
    BY <1>2, <1>3, <2>1, ItemsPeriod
<1> HIDE DEF more
<1>7. sections \in Seq(SectionItems) /\ Len(sections) = Len(front) + 1
  BY <1>5, EndedIs
<1> HIDE DEF sections
<1>8. d.sections = sections
  BY <1>1, <1>4, <1>7, WithIs
<1>9. Items(c.sections) \in Nat
  BY <1>1, TimelineIs, ItemsNat
<1>10. Items(d.sections) = Items(c.sections) + (1 + Len(EventsOf(line)))
  <2> DEFINE n == Items(c.sections)
             e == Len(EventsOf(line))
  <2> HIDE DEF n, e
  <2>1. n \in Nat /\ e \in Nat /\ Items(d.sections) = n + 1 + e
    BY <1>2, <1>6, <1>8, <1>9 DEF n, e
  <2>2. QED
    BY <2>1 DEF n, e
<1>11. QED
  BY <1>1, <1>3, <1>7, <1>8, <1>10 DEF Counted

LEMMA ContinuationWeighs ==
    ASSUME NEW c \in Read, NEW line, IsTimelineLine(line), line.kind = "continuation",
           NEW d \in Timeline!ReadLine(c, line)
    PROVE  Counted(c, d, 1, Len(c.sections))
<1>1. /\ c \in Timelines /\ d \in Read
      /\ Timeline!HasPeriod(c) /\ d = Timeline!ReadContinuation(c, line)
  BY ReadTimelineLineIs DEF Read, Timeline!ReadLine
<1>2. PICK front \in Seq(SectionItems), label \in Labels, old \in Seq(PeriodItems) :
        c.sections = Ended(front, label, old) /\ Len(c.sections) = Len(front) + 1 /\ old # <<>>
  BY <1>1, LastSection DEF Timeline!HasPeriod
<1>3. PICK periods \in Seq(PeriodItems), period \in PeriodItems : old = Append(periods, period)
  BY <1>2, LastOf
<1> DEFINE event == line.event
           new == [label |-> period.label, events |-> Append(period.events, event)]
           more == Append(periods, new)
           sections == Ended(front, label, more)
<1>4. event \in Words /\ line.event = event
  BY DEF IsTimelineLine
<1> HIDE DEF event
<1>5. d = With(c, sections)
  <2>1. c.sections = Ended(front, label, Append(periods, period))
    BY <1>2, <1>3
  <2>2. Timeline!ReadContinuation(c, line)
          = With(c, Ended(front, label,
                          Append(periods, [label |-> period.label, events |-> Append(period.events, event)])))
    BY <1>1, <1>4, <2>1, ContinuationRead
  <2>3. QED
    BY <1>1, <2>2
<1>6. new \in PeriodItems /\ Len(new.events) = Len(period.events) + 1 /\ Len(period.events) \in Nat
  <2>1. period.events \in Seq(Words) /\ period.label \in Labels
    BY DEF PeriodItems
  <2> DEFINE events == Append(period.events, event)
  <2>2. events \in Seq(Words) /\ Len(events) = Len(period.events) + 1
    BY <1>4, <2>1, AppendIs
  <2> HIDE DEF events
  <2>3. [label |-> period.label, events |-> events] \in PeriodItems
    BY <2>1, <2>2 DEF PeriodItems
  <2>4. Len(period.events) \in Nat
    BY <2>1
  <2>5. QED
    BY <2>2, <2>3, <2>4 DEF events
<1> HIDE DEF new
<1>7. more \in Seq(PeriodItems) /\ Items(sections) = Items(Ended(front, label, periods)) + 1 + Len(new.events)
  BY <1>6, AppendIs, ItemsPeriod
<1>8. Items(c.sections) = Items(Ended(front, label, periods)) + 1 + Len(period.events)
  BY <1>2, <1>3, ItemsPeriod
<1> HIDE DEF more
<1>9. sections \in Seq(SectionItems) /\ Len(sections) = Len(front) + 1
  BY <1>7, EndedIs
<1> HIDE DEF sections
<1>10. d.sections = sections
  BY <1>1, <1>5, <1>9, WithIs
<1>11. Items(Ended(front, label, periods)) \in Nat
  BY EndedIs, ItemsNat
<1>12. Items(sections) = Items(c.sections) + 1
  <2> DEFINE n == Items(Ended(front, label, periods))
             e == Len(period.events)
  <2> HIDE DEF n, e
  <2>1. n \in Nat /\ e \in Nat /\ Items(c.sections) = n + 1 + e /\ Items(sections) = n + 1 + (e + 1)
    BY <1>6, <1>7, <1>8, <1>11 DEF n, e
  <2>2. QED
    BY <2>1
<1>13. QED
  BY <1>1, <1>2, <1>9, <1>10, <1>12 DEF Counted

LEMMA HeadWeighs ==
    ASSUME NEW c \in Read, NEW line, IsTimelineLine(line), line.kind \in Headings,
           NEW d \in Timeline!ReadLine(c, line)
    PROVE  Counted(c, d, 0, Len(c.sections))
<1>1. c \in Timelines /\ line.text \in Phrases /\ d \in Read
  BY ReadTimelineLineIs DEF Read, IsTimelineLine
<1>2. d = [c EXCEPT ![line.kind] = line.text]
  BY DEF Timeline!ReadLine, Headings
<1>3. d.sections = c.sections
  BY <1>1, <1>2, PhrasesStay
<1>4. Items(c.sections) \in Nat
  BY <1>1, TimelineIs, ItemsNat
<1>5. QED
  BY <1>1, <1>3, <1>4 DEF Counted

\* The lines of a period's events count one each.
LEMMA ContinuedWeighs ==
    ASSUME NEW events \in Seq(Words), NEW c \in Read, NEW d, Reads(c, Continued(events), d)
    PROVE  Counted(c, d, Len(Continued(events)), Len(c.sections))
<1> DEFINE lines == Continued(events)
           m == Len(lines)
<1>1. PICK f : /\ f[0] = c /\ f[m] = d
               /\ \A i \in 1 .. m : f[i] \in Timeline!ReadLine(f[i - 1], lines[i])
  BY DEF Reads
<1>2. m \in Nat /\ \A i \in 1 .. m : IsTimelineLine(lines[i]) /\ lines[i].kind = "continuation"
  <2>1. /\ lines \in Seq(WrittenLines)
        /\ \A i \in 1 .. m : lines[i] = [kind |-> "continuation", event |-> events[i + 1]]
    BY ContinuedIs
  <2>2. ASSUME NEW i \in 1 .. m PROVE lines[i].kind = "continuation"
    <3> DEFINE event == events[i + 1]
    <3>1. lines[i] = [kind |-> "continuation", event |-> event]
      BY <2>1
    <3> HIDE DEF lines, event, m
    <3>2. QED
      BY <3>1
  <2> HIDE DEF lines
  <2>3. m \in Nat /\ \A i \in 1 .. m : lines[i] \in WrittenLines
    BY <2>1
  <2>4. QED
    BY <2>2, <2>3, WrittenLinesAre
<1>3. Items(c.sections) \in Nat
  BY TimelineIs, ItemsNat DEF Read
<1> HIDE DEF lines, m
<1> DEFINE F == {i \in 0 .. m : Counted(c, f[i], i, Len(c.sections))}
<1>4. 0 \in F
  BY <1>1, <1>2, <1>3 DEF Counted
<1>5. ASSUME NEW i \in 1 .. m, i - 1 \in F PROVE i \in F
  <2>1. Counted(c, f[i - 1], i - 1, Len(c.sections)) /\ i \in 0 .. m /\ i \in Nat
    BY <1>2, <1>5
  <2>2. Counted(f[i - 1], f[i], 1, Len(f[i - 1].sections))
    BY <1>1, <1>2, <2>1, ContinuationWeighs DEF Counted
  <2>3. Counted(c, f[i], i, Len(c.sections))
    BY <1>3, <2>1, <2>2 DEF Counted
  <2>4. QED
    BY <2>1, <2>3
<1> HIDE DEF F
<1>6. m \in F
  <2>1. \A i \in 0 .. m : i \in F
    BY <1>2, <1>4, <1>5, CountUp
  <2>2. QED
    BY <1>2, <2>1
<1>7. QED
  BY <1>1, <1>6 DEF F, m, lines

LEMMA PeriodWeighs ==
    ASSUME NEW period \in PeriodItems, NEW c \in Read, NEW d, Reads(c, Timeline!PeriodLines(period), d)
    PROVE  /\ d \in Read /\ Items(c.sections) \in Nat /\ Items(d.sections) \in Nat
           /\ Len(period.events) \in Nat
           /\ PlainPeriod(period) =>
                Counted(c, d, 1 + Len(period.events), IF c.sections = <<>> THEN 1 ELSE Len(c.sections))
           /\ ~ PlainPeriod(period) =>
                Items(d.sections) < Items(c.sections) + 1 + Len(period.events)
<1> DEFINE events == period.events
           line == Timeline!PeriodLine(period)
           lines == Continued(events)
           n == Len(events)
           m == Len(lines)
<1>1. events \in Seq(Words)
  BY DEF PeriodItems
<1>2. line \in WrittenLines
  BY PeriodLineIs
<1>3. /\ lines \in Seq(WrittenLines) /\ m = (IF events = <<>> THEN 0 ELSE n - 1)
  BY <1>1, ContinuedIs
<1>4. n \in Nat /\ m \in Nat /\ (events = <<>> => n = 0) /\ (events # <<>> => n # 0)
  BY <1>1, <1>3
<1>5. Timeline!PeriodLines(period) = <<line>> \o lines
  BY DEF Timeline!PeriodLines, Continued
<1>7. /\ PlainPeriod(period) => line.kind = "period" /\ EventsOf(line) = (IF events = <<>> THEN <<>> ELSE <<events[1]>>)
      /\ ~ PlainPeriod(period) => line.kind \in {"title", "section"}
  <2>1. PlainPeriod(period) => line.kind = "period" /\ EventsOf(line) = (IF events = <<>> THEN <<>> ELSE <<events[1]>>)
    BY PlainLineIs
  <2>2. ASSUME ~ PlainPeriod(period) PROVE line.kind \in {"title", "section"}
    <3>1. CASE period.label \in DOMAIN timeline.titleOf
      <4>1. CASE period.label \in DOMAIN timeline.sectionOf /\ events = <<>>
        BY <3>1, <4>1 DEF Timeline!PeriodLine
      <4>2. CASE ~ (period.label \in DOMAIN timeline.sectionOf /\ events = <<>>)
        BY <3>1, <4>2 DEF Timeline!PeriodLine
      <4>3. QED
        BY <4>1, <4>2
    <3>2. CASE period.label \notin DOMAIN timeline.titleOf
      <4>1. events = <<>> /\ period.label \in DOMAIN timeline.sectionOf
        BY <2>2, <3>2 DEF PlainPeriod
      <4>2. QED
        BY <3>2, <4>1 DEF Timeline!PeriodLine
    <3>3. QED
      BY <3>1, <3>2
  <2>3. QED
    BY <2>1, <2>2
<1> HIDE DEF line, lines, events, n, m
<1>8. PICK e : Reads(c, <<line>>, e) /\ Reads(e, lines, d)
  <2>1. <<line>> \in Seq(WrittenLines)
    BY <1>2
  <2>2. QED
    BY <1>3, <1>5, <2>1, ReadsThrough
<1>9. e \in Timeline!ReadLine(c, line) /\ IsTimelineLine(line)
  BY <1>2, <1>8, ReadsOne, WrittenLinesAre
<1>10. e \in Read
  BY <1>9, ReadTimelineLineIs
<1>11. Counted(e, d, m, Len(e.sections))
  BY <1>1, <1>8, <1>10, ContinuedWeighs DEF m, lines
<1>12. Items(c.sections) \in Nat /\ Items(d.sections) \in Nat /\ Items(e.sections) \in Nat
  BY <1>10, <1>11, TimelineIs, ItemsNat DEF Read, Counted
<1>13. ASSUME PlainPeriod(period)
       PROVE  Counted(c, d, 1 + n, IF c.sections = <<>> THEN 1 ELSE Len(c.sections))
  <2>1. Counted(c, e, 1 + Len(EventsOf(line)), IF c.sections = <<>> THEN 1 ELSE Len(c.sections))
    BY <1>7, <1>9, <1>13, PeriodLineWeighs
  <2>2. Len(EventsOf(line)) = IF events = <<>> THEN 0 ELSE 1
    BY <1>7, <1>13
  <2>3. Len(EventsOf(line)) \in Nat /\ m + Len(EventsOf(line)) = n
    BY <1>3, <1>4, <2>2
  <2>4. Items(d.sections) = Items(c.sections) + (1 + n)
    BY <1>4, <1>11, <1>12, <2>1, <2>3 DEF Counted
  <2>5. QED
    BY <1>11, <2>1, <2>4 DEF Counted
<1>14. ASSUME ~ PlainPeriod(period) PROVE Items(d.sections) < Items(c.sections) + 1 + n
  <2>1. Items(e.sections) = Items(c.sections)
    <3>1. CASE line.kind = "title"
      <4>1. Counted(c, e, 0, Len(c.sections))
        BY <1>9, <3>1, HeadWeighs DEF Headings
      <4>2. QED
        BY <1>12, <4>1 DEF Counted
    <3>2. CASE line.kind = "section"
      <4>1. Counted(c, e, 0, Len(c.sections) + 1)
        BY <1>9, <3>2, SectionLineWeighs
      <4>2. QED
        BY <1>12, <4>1 DEF Counted
    <3>3. QED
      BY <1>7, <1>14, <3>1, <3>2
  <2>2. m <= n
    BY <1>3, <1>4
  <2>3. QED
    BY <1>4, <1>11, <1>12, <2>1, <2>2 DEF Counted
<1>15. QED
  BY <1>4, <1>11, <1>12, <1>13, <1>14 DEF Counted, n, events

AllPlain(periods) == \A p \in DOMAIN periods : PlainPeriod(periods[p])
Misread(section) == section.label \in DOMAIN timeline.periodOf
Listed(periods) == [p \in DOMAIN periods |-> Timeline!PeriodLines(periods[p])]

\* The lines of a section's periods count what the periods do, or less when one
\* is not read as a period.
LEMMA PeriodsWeigh ==
    ASSUME NEW front \in Seq(SectionItems), NEW label \in Labels, NEW periods \in Seq(PeriodItems),
           NEW c \in Read, NEW d, Reads(c, Timeline!FlattenSeq(Listed(periods)), d)
    PROVE  LET had == Items(c.sections) + Items(Ended(front, label, periods))
               has == Items(d.sections) + Items(front)
           IN /\ d \in Read
              /\ AllPlain(periods) => has = had
              /\ AllPlain(periods) /\ c.sections # <<>> => Len(d.sections) = Len(c.sections)
              /\ ~ AllPlain(periods) => has < had
<1> DEFINE n == Len(periods)
           listed == Listed(periods)
           W(p) == Items(Ended(front, label, First(periods, p)))
           base == Items(front)
           start == Items(c.sections)
<1>1. n \in Nat /\ DOMAIN periods = 1 .. n /\ \A p \in 1 .. n : periods[p] \in PeriodItems
  OBVIOUS
<1>2. /\ listed \in Seq(Seq(WrittenLines)) /\ Len(listed) = n
      /\ \A p \in 1 .. n : listed[p] = Timeline!PeriodLines(periods[p])
  BY <1>1, ListedIs DEF Listed
<1>3. base \in Nat /\ start \in Nat
  BY TimelineIs, ItemsNat DEF Read
<1>4. W(0) = base /\ W(n) = Items(Ended(front, label, periods))
  BY FirstAll, ItemsSection
<1>5. ASSUME NEW p \in 0 .. n PROVE W(p) \in Nat
  <2>1. First(periods, p) \in Seq(PeriodItems)
    <3>1. p \in Nat /\ \A k \in 1 .. p : periods[k] \in PeriodItems
      BY <1>1
    <3>2. QED
      BY <3>1 DEF First
  <2>2. QED
    BY <2>1, EndedIs, ItemsNat
<1>6. ASSUME NEW p \in 1 .. n PROVE W(p) = W(p - 1) + 1 + Len(periods[p].events)
  <2>1. First(periods, p - 1) \in Seq(PeriodItems)
        /\ Append(First(periods, p - 1), periods[p]) = First(periods, p)
    BY FirstNext
  <2>2. QED
    BY <1>1, <2>1, ItemsPeriod
<1>7. PICK u : u[0] = c /\ u[n] = d /\ \A p \in 1 .. n : Reads(u[p - 1], listed[p], u[p])
  <2>1. Reads(c, Timeline!FlattenSeq(listed), d)
    OBVIOUS
  <2> HIDE DEF listed, n
  <2>2. \E u : /\ u[0] = c /\ u[Len(listed)] = d
               /\ \A p \in 1 .. Len(listed) : Reads(u[p - 1], listed[p], u[p])
    BY <1>2, <2>1, FlattenThrough
  <2>3. QED
    BY <1>2, <2>2
<1> HIDE DEF n, listed, W, base, start
<1> DEFINE Faithful(p) == \A k \in 1 .. p : PlainPeriod(periods[k])
           F == {p \in 0 .. n :
                   /\ u[p] \in Read
                   /\ Faithful(p) => Items(u[p].sections) + base = start + W(p)
                   /\ Faithful(p) /\ c.sections # <<>> => Len(u[p].sections) = Len(c.sections)
                   /\ ~ Faithful(p) => Items(u[p].sections) + base < start + W(p)}
<1>8. 0 \in F
  <2>1. Faithful(0) /\ 0 \in 0 .. n
    BY <1>1
  <2>2. Items(u[0].sections) + base = start + W(0)
    BY <1>3, <1>4, <1>7 DEF start
  <2>3. QED
    BY <1>7, <2>1, <2>2
<1>9. ASSUME NEW p \in 1 .. n, p - 1 \in F PROVE p \in F
  <2> DEFINE old == u[p - 1]
             new == u[p]
             period == periods[p]
             e == Len(period.events)
             i == Items(old.sections)
             j == Items(new.sections)
             w == W(p - 1)
  <2>1. /\ p \in 0 .. n /\ p - 1 \in 0 .. n /\ p \in Nat
        /\ old \in Read /\ period \in PeriodItems
    BY <1>1, <1>9
  <2>2. Reads(old, Timeline!PeriodLines(period), new)
    BY <1>2, <1>7
  <2> HIDE DEF old, new, period
  <2>3. /\ new \in Read /\ i \in Nat /\ j \in Nat /\ e \in Nat
        /\ PlainPeriod(period) =>
             Counted(old, new, 1 + e, IF old.sections = <<>> THEN 1 ELSE Len(old.sections))
        /\ ~ PlainPeriod(period) => j < i + 1 + e
    BY <2>1, <2>2, PeriodWeighs
  <2>4. PlainPeriod(period) =>
          j = i + (1 + e) /\ (old.sections # <<>> => Len(new.sections) = Len(old.sections))
    BY <2>3 DEF Counted
  <2>5. w \in Nat /\ W(p) = w + 1 + e
    BY <1>5, <1>6, <2>1 DEF period
  <2>6. Faithful(p) <=> Faithful(p - 1) /\ PlainPeriod(period)
    <3>1. \A k \in 1 .. p : k = p \/ k \in 1 .. p - 1
      BY <2>1
    <3>2. p \in 1 .. p /\ \A k \in 1 .. p - 1 : k \in 1 .. p
      BY <2>1
    <3>3. QED
      BY <3>1, <3>2 DEF period
  <2>7. /\ Faithful(p - 1) => i + base = start + w
        /\ Faithful(p - 1) /\ c.sections # <<>> => Len(old.sections) = Len(c.sections)
        /\ ~ Faithful(p - 1) => i + base < start + w
    BY <1>9 DEF old
  <2> HIDE DEF F, Faithful, i, j, e, w
  <2>8. Faithful(p) => j + base = start + W(p)
    <3>1. Faithful(p) => j = i + (1 + e) /\ i + base = start + w
      BY <2>4, <2>6, <2>7
    <3>2. i + base = start + w => i + (1 + e) + base = start + (w + 1 + e)
      BY <1>3, <2>3, <2>5
    <3>3. QED
      BY <2>5, <3>1, <3>2
  <2>9. ~ Faithful(p) => j + base < start + W(p)
    <3>1. CASE PlainPeriod(period)
      BY <1>3, <2>3, <2>4, <2>5, <2>6, <2>7, <3>1
    <3>2. CASE ~ PlainPeriod(period)
      BY <1>3, <2>3, <2>5, <2>7, <3>2
    <3>3. QED
      BY <3>1, <3>2
  <2>10. Faithful(p) /\ c.sections # <<>> => Len(new.sections) = Len(c.sections)
    <3> SUFFICES ASSUME Faithful(p), c.sections # <<>> PROVE Len(new.sections) = Len(c.sections)
      OBVIOUS
    <3>1. Len(old.sections) = Len(c.sections)
      BY <2>6, <2>7
    <3>2. old.sections # <<>>
      <4>1. c.sections \in Seq(SectionItems) /\ old.sections \in Seq(SectionItems)
        BY <2>1, TimelineIs DEF Read
      <4>2. Len(c.sections) # 0
        BY <4>1
      <4>3. QED
        BY <3>1, <4>2
    <3>3. QED
      BY <2>4, <2>6, <3>1, <3>2
  <2>11. QED
    BY <2>1, <2>3, <2>8, <2>9, <2>10 DEF F, j, new
<1> HIDE DEF F
<1>10. n \in F
  <2>1. \A p \in 0 .. n : p \in F
    BY <1>1, <1>8, <1>9, CountUp
  <2>2. QED
    BY <1>1, <2>1
<1>11. Faithful(n) <=> AllPlain(periods)
  BY <1>1 DEF AllPlain
<1> HIDE DEF Faithful
<1>12. QED
  BY <1>4, <1>7, <1>10, <1>11 DEF F, base, start

\* So do the lines of a section, or more when its line is not read as one.
LEMMA SectionWeighs ==
    ASSUME NEW front \in Seq(SectionItems), NEW section \in SectionItems,
           NEW c \in Read, NEW d, Reads(c, SectionLines(section), d)
    PROVE  LET had == Items(c.sections) + Items(Append(front, section))
               has == Items(d.sections) + Items(front)
           IN /\ d \in Read
              /\ ~ Misread(section) /\ AllPlain(section.periods) => has = had
              /\ ~ Misread(section) /\ ~ AllPlain(section.periods) => has < had
              /\ Misread(section) /\ AllPlain(section.periods) => has > had
              /\ ~ Misread(section) /\ AllPlain(section.periods) /\ section.label # None
                   => Len(d.sections) = Len(c.sections) + 1
              /\ ~ Misread(section) /\ AllPlain(section.periods) /\ section.label = None
                 /\ c.sections # <<>>
                   => Len(d.sections) = Len(c.sections)
<1> DEFINE label == section.label
           periods == section.periods
           heading == Timeline!SectionLine(label)
           flat == Timeline!FlattenSeq(Listed(periods))
<1>1. /\ label \in Labels /\ periods \in Seq(PeriodItems)
      /\ section = [label |-> label, periods |-> periods]
  BY DEF SectionItems
<1>2. heading \in Seq(WrittenLines) /\ flat \in Seq(WrittenLines)
  <2>1. Listed(periods) \in Seq(Seq(WrittenLines))
    BY <1>1, ListedIs DEF Listed
  <2>2. QED
    BY <1>1, <2>1, SectionLineIs, FlattenIs
<1>3. SectionLines(section) = heading \o flat
  BY DEF SectionLines, Listed
<1> HIDE DEF heading, flat
<1>4. PICK e : Reads(c, heading, e) /\ Reads(e, flat, d)
  BY <1>2, <1>3, ReadsThrough
<1>5. Items(c.sections) \in Nat /\ c.sections \in Seq(SectionItems)
  BY TimelineIs, ItemsNat DEF Read
<1>6. /\ e \in Read
      /\ ~ Misread(section) => Items(e.sections) = Items(c.sections)
      /\ Misread(section) => Items(e.sections) = Items(c.sections) + 2
      /\ ~ Misread(section) /\ label # None => Len(e.sections) = Len(c.sections) + 1
      /\ label = None => e = c
  <2>1. CASE label = None
    <3>1. heading = <<>> /\ ~ Misread(section)
      BY <2>1, TimelineSources DEF heading, Timeline!SectionLine, Misread
    <3>2. e = c
      BY <1>4, <3>1, ReadsNone
    <3>3. QED
      BY <2>1, <3>1, <3>2
  <2>2. CASE label # None /\ Misread(section)
    <3> DEFINE line == [kind |-> "period", label |-> timeline.periodOf[label].label,
                        event |-> timeline.periodOf[label].event]
    <3>1. heading = <<line>>
      BY <2>2 DEF heading, Timeline!SectionLine, Misread
    <3>2. line.kind = "period" /\ line.event # None
      BY <2>2, TimelineSources DEF Misread
    <3> HIDE DEF line
    <3>3. e \in Timeline!ReadLine(c, line) /\ IsTimelineLine(line)
      <4>1. line \in WrittenLines
        BY <1>2, <3>1
      <4>2. QED
        BY <1>4, <3>1, <4>1, ReadsOne, WrittenLinesAre
    <3>4. Counted(c, e, 1 + Len(EventsOf(line)), IF c.sections = <<>> THEN 1 ELSE Len(c.sections))
      BY <3>2, <3>3, PeriodLineWeighs
    <3>5. Len(EventsOf(line)) = 1
      BY <3>2 DEF EventsOf
    <3>6. QED
      BY <2>2, <3>4, <3>5 DEF Counted
  <2>3. CASE label # None /\ ~ Misread(section)
    <3> DEFINE line == [kind |-> "section", label |-> label]
    <3>1. heading = <<line>> /\ line.kind = "section"
      BY <2>3 DEF heading, Timeline!SectionLine, Misread
    <3> HIDE DEF line
    <3>2. e \in Timeline!ReadLine(c, line) /\ IsTimelineLine(line)
      <4>1. line \in WrittenLines
        BY <1>2, <3>1
      <4>2. QED
        BY <1>4, <3>1, <4>1, ReadsOne, WrittenLinesAre
    <3>3. Counted(c, e, 0, Len(c.sections) + 1)
      BY <3>1, <3>2, SectionLineWeighs
    <3>4. QED
      BY <1>5, <2>3, <3>3 DEF Counted
  <2>4. QED
    BY <2>1, <2>2, <2>3
<1> DEFINE x == Items(c.sections)
           y == Items(e.sections)
           z == Items(d.sections)
           v == Items(front)
           w == Items(Append(front, section))
<1>7. Append(front, section) = Ended(front, label, periods)
  BY <1>1 DEF Ended
<1>8. /\ d \in Read
      /\ AllPlain(periods) => z + v = y + w
      /\ AllPlain(periods) /\ e.sections # <<>> => Len(d.sections) = Len(e.sections)
      /\ ~ AllPlain(periods) => z + v < y + w
  <2>1. Reads(e, Timeline!FlattenSeq(Listed(periods)), d)
    BY <1>4 DEF flat
  <2> HIDE DEF label, periods
  <2>2. LET had == Items(e.sections) + Items(Ended(front, label, periods))
            has == Items(d.sections) + Items(front)
        IN /\ d \in Read
           /\ AllPlain(periods) => has = had
           /\ AllPlain(periods) /\ e.sections # <<>> => Len(d.sections) = Len(e.sections)
           /\ ~ AllPlain(periods) => has < had
    BY <1>1, <1>6, <2>1, PeriodsWeigh
  <2>3. QED
    BY <1>7, <2>2
<1>9. x \in Nat /\ y \in Nat /\ z \in Nat /\ v \in Nat /\ w \in Nat
  <2>1. c.sections \in Seq(SectionItems) /\ d.sections \in Seq(SectionItems) /\ e.sections \in Seq(SectionItems)
    BY <1>6, <1>8, TimelineIs DEF Read
  <2>2. Append(front, section) \in Seq(SectionItems)
    BY AppendIs
  <2>3. QED
    BY <2>1, <2>2, ItemsNat
<1> HIDE DEF x, y, z, v, w
<1>10. /\ ~ Misread(section) => y = x
       /\ Misread(section) => y = x + 2
  BY <1>6 DEF x, y
<1>11. /\ ~ Misread(section) /\ AllPlain(periods) => z + v = x + w
       /\ ~ Misread(section) /\ ~ AllPlain(periods) => z + v < x + w
       /\ Misread(section) /\ AllPlain(periods) => z + v > x + w
  BY <1>8, <1>9, <1>10
<1>12. ~ Misread(section) /\ AllPlain(periods) /\ label # None => Len(d.sections) = Len(c.sections) + 1
  <2> SUFFICES ASSUME ~ Misread(section), AllPlain(periods), label # None
               PROVE  Len(d.sections) = Len(c.sections) + 1
    OBVIOUS
  <2>1. Len(e.sections) = Len(c.sections) + 1 /\ Len(c.sections) \in Nat
    BY <1>5, <1>6
  <2>2. e.sections # <<>>
    BY <2>1
  <2>3. QED
    BY <1>8, <2>1, <2>2
<1>13. AllPlain(periods) /\ label = None /\ c.sections # <<>> => Len(d.sections) = Len(c.sections)
  BY <1>6, <1>8
<1>14. QED
  BY <1>8, <1>11, <1>12, <1>13 DEF x, z, v, w

\* What a text is read as passes, after its heads, a body per section.
LEMMA TextThrough ==
    ASSUME NEW b \in Timelines, NEW r \in Timeline!Reparse(b)
    PROVE  \E t : /\ t[0] = Heads(b) /\ t[Len(b.sections)] = r
                  /\ \A s \in 1 .. Len(b.sections) : Reads(t[s - 1], SectionLines(b.sections[s]), t[s])
<1> DEFINE texts == SectionTexts(b)
           n == Len(b.sections)
<1>1. /\ Timeline!Render(b) = HeadLines(b) \o Timeline!FlattenSeq(texts)
      /\ HeadLines(b) \in Seq(WrittenLines)
      /\ texts \in Seq(Seq(WrittenLines)) /\ Len(texts) = n
      /\ Timeline!FlattenSeq(texts) \in Seq(WrittenLines)
  BY TextParts
<1>2. \A s \in 1 .. n : texts[s] = SectionLines(b.sections[s])
  BY TimelineIs DEF SectionTexts
<1> HIDE DEF texts, n
<1>3. Reads(Timeline!Blank, HeadLines(b) \o Timeline!FlattenSeq(texts), r)
  <2>1. Timeline!Render(b) \in Seq(WrittenLines)
    BY TimelineRenderIs
  <2>2. Reads(Timeline!Blank, Timeline!Render(b), r)
    BY <2>1, WrittenLinesAre, ParseReads DEF Timeline!Reparse
  <2>3. QED
    BY <1>1, <2>2
<1>4. PICK h : Reads(Timeline!Blank, HeadLines(b), h) /\ Reads(h, Timeline!FlattenSeq(texts), r)
  BY <1>1, <1>3, ReadsThrough
<1>5. h = Heads(b)
  <2>1. Timeline!Parse(HeadLines(b)) = {h} /\ Timeline!Parse(HeadLines(b)) = {Heads(b)}
    BY <1>1, <1>4, HeadsRead, WrittenLinesAre, ParseReads
  <2>2. QED
    BY <2>1
<1>6. \E t : /\ t[0] = h /\ t[Len(texts)] = r
             /\ \A s \in 1 .. Len(texts) : Reads(t[s - 1], texts[s], t[s])
  <2>1. Reads(h, Timeline!FlattenSeq(texts), r)
    BY <1>4
  <2>2. texts \in Seq(Seq(WrittenLines))
    BY <1>1
  <2>3. QED
    BY <2>1, <2>2, FlattenThrough
<1>7. QED
  BY <1>1, <1>2, <1>5, <1>6 DEF n

LEMMA HeadsAre ==
    ASSUME NEW b \in Timelines
    PROVE  Heads(b) \in Read /\ Heads(b).sections = <<>>
<1>1. <<>> \in Seq(SectionItems) /\ DOMAIN <<>> = {}
  OBVIOUS
<1>2. Heads(b) \in Timelines /\ Heads(b).sections = <<>>
  BY <1>1, WithIs DEF Heads
<1>3. QED
  BY <1>1, <1>2 DEF Read

\* Periods read as something else lower the counts, when all section lines are
\* read as such; sections read as periods raise them, when all periods are.
LEMMA TextCounts ==
    ASSUME NEW b \in Timelines, NEW r \in Timeline!Reparse(b), NEW k \in DOMAIN b.sections
    PROVE  /\ ~ AllPlain(b.sections[k].periods) /\ (\A s \in DOMAIN b.sections : ~ Misread(b.sections[s]))
                => Items(r.sections) < Items(b.sections)
           /\ Misread(b.sections[k]) /\ (\A s \in DOMAIN b.sections : AllPlain(b.sections[s].periods))
                => Items(r.sections) > Items(b.sections)
<1> DEFINE n == Len(b.sections)
           V(s) == Items(First(b.sections, s))
           SectionsTold == \A s \in DOMAIN b.sections : ~ Misread(b.sections[s])
           PeriodsTold == \A s \in DOMAIN b.sections : AllPlain(b.sections[s].periods)
<1>1. /\ b.sections \in Seq(SectionItems) /\ n \in Nat /\ DOMAIN b.sections = 1 .. n
      /\ \A s \in 1 .. n : /\ b.sections[s] \in SectionItems
                           /\ SectionsTold => ~ Misread(b.sections[s])
                           /\ PeriodsTold => AllPlain(b.sections[s].periods)
  BY TimelineIs
<1>2. PICK t : /\ t[0] = Heads(b) /\ t[n] = r
               /\ \A s \in 1 .. n : Reads(t[s - 1], SectionLines(b.sections[s]), t[s])
  BY TextThrough
<1>3. V(0) = 0 /\ V(n) = Items(b.sections)
  BY <1>1, FirstAll, ItemsNone
<1>4. ASSUME NEW s \in 1 .. n
      PROVE  /\ First(b.sections, s - 1) \in Seq(SectionItems)
             /\ Append(First(b.sections, s - 1), b.sections[s]) = First(b.sections, s)
             /\ V(s) \in Nat /\ V(s - 1) \in Nat
  <2>1. First(b.sections, s - 1) \in Seq(SectionItems)
        /\ Append(First(b.sections, s - 1), b.sections[s]) = First(b.sections, s)
    BY <1>1, FirstNext
  <2>2. First(b.sections, s) \in Seq(SectionItems)
    BY <1>1, <2>1, AppendIs
  <2>3. QED
    BY <2>1, <2>2, ItemsNat
<1> HIDE DEF n, SectionsTold, PeriodsTold
<1> DEFINE Taken(s) == k <= s /\ ~ AllPlain(b.sections[k].periods)
           Made(s) == k <= s /\ Misread(b.sections[k])
           F == {s \in 0 .. n :
                   /\ t[s] \in Read
                   /\ SectionsTold =>
                        Items(t[s].sections) <= V(s) /\ (Taken(s) => Items(t[s].sections) < V(s))
                   /\ PeriodsTold =>
                        Items(t[s].sections) >= V(s) /\ (Made(s) => Items(t[s].sections) > V(s))}
<1>5. 0 \in F
  <2>1. t[0] \in Read /\ Items(t[0].sections) = 0 /\ ~ (k <= 0)
    BY <1>1, <1>2, HeadsAre, ItemsNone
  <2>2. QED
    BY <1>1, <1>3, <2>1
<1>6. ASSUME NEW s \in 1 .. n, s - 1 \in F PROVE s \in F
  <2> DEFINE section == b.sections[s]
             front == First(b.sections, s - 1)
             c == t[s - 1]
             d == t[s]
             x == Items(c.sections)
             y == Items(d.sections)
             v == V(s - 1)
             w == V(s)
  <2>0. /\ c \in Read
        /\ SectionsTold => x <= v /\ (Taken(s - 1) => x < v)
        /\ PeriodsTold => x >= v /\ (Made(s - 1) => x > v)
    <3> HIDE DEF Taken, Made, V
    <3>1. QED
      BY <1>6
  <2> HIDE DEF F
  <2>1. /\ c \in Read /\ section \in SectionItems
        /\ SectionsTold => ~ Misread(section)
        /\ PeriodsTold => AllPlain(section.periods)
        /\ front \in Seq(SectionItems) /\ Append(front, section) = First(b.sections, s)
        /\ Reads(c, SectionLines(section), d) /\ v \in Nat /\ w \in Nat /\ s \in 0 .. n
    <3>1. s \in 0 .. n
      BY <1>1
    <3>2. QED
      BY <1>1, <1>2, <1>4, <2>0, <3>1
  <2>2. /\ SectionsTold => x <= v /\ (Taken(s - 1) => x < v)
        /\ PeriodsTold => x >= v /\ (Made(s - 1) => x > v)
    BY <2>0
  <2>3. /\ Taken(s) => Taken(s - 1) \/ ~ AllPlain(section.periods)
        /\ Made(s) => Made(s - 1) \/ Misread(section)
    <3>1. k <= s => k <= s - 1 \/ k = s
      BY <1>1
    <3>2. QED
      BY <3>1
  <2>4. v = Items(front) /\ w = Items(Append(front, section))
    BY <2>1
  <2> HIDE DEF section, front, c, d, v, w, F, Taken, Made
  <2>5. /\ d \in Read
        /\ ~ Misread(section) /\ AllPlain(section.periods) => y + v = x + w
        /\ ~ Misread(section) /\ ~ AllPlain(section.periods) => y + v < x + w
        /\ Misread(section) /\ AllPlain(section.periods) => y + v > x + w
    BY <2>1, <2>4, SectionWeighs
  <2>6. x \in Nat /\ y \in Nat
    <3>1. c.sections \in Seq(SectionItems) /\ d.sections \in Seq(SectionItems)
      BY <2>1, <2>5, TimelineIs DEF Read
    <3>2. QED
      BY <3>1, ItemsNat
  <2> HIDE DEF x, y
  <2>7. SectionsTold => y <= w /\ (Taken(s) => y < w)
    BY <2>1, <2>2, <2>3, <2>5, <2>6
  <2>8. PeriodsTold => y >= w /\ (Made(s) => y > w)
    BY <2>1, <2>2, <2>3, <2>5, <2>6
  <2>9. QED
    BY <2>1, <2>5, <2>7, <2>8 DEF F, d, y, w
<1> HIDE DEF F
<1>7. n \in F
  <2>1. \A s \in 0 .. n : s \in F
    BY <1>1, <1>5, <1>6, CountUp
  <2>2. QED
    BY <1>1, <2>1
<1>8. /\ SectionsTold => (Taken(n) => Items(r.sections) < Items(b.sections))
      /\ PeriodsTold => (Made(n) => Items(r.sections) > Items(b.sections))
  <2> HIDE DEF V, Taken, Made
  <2>1. QED
    BY <1>2, <1>3, <1>7 DEF F
<1>9. k <= n
  BY <1>1
<1>10. QED
  BY <1>8, <1>9 DEF SectionsTold, PeriodsTold

\* Lines that are all read as what they are: a section without a label, behind
\* another, adds its periods to that one.
LEMMA SectionsMerge ==
    ASSUME NEW b \in Timelines, OneImplicit(b), NEW r \in Timeline!Reparse(b),
           \A s \in DOMAIN b.sections : ~ Misread(b.sections[s]) /\ AllPlain(b.sections[s].periods),
           NEW k \in DOMAIN b.sections, b.sections[k].label = None, k # 1
    PROVE  Len(r.sections) < Len(b.sections)
<1> DEFINE n == Len(b.sections)
<1>1. /\ b.sections \in Seq(SectionItems) /\ n \in Nat /\ DOMAIN b.sections = 1 .. n
      /\ \A s \in 1 .. n :
           /\ b.sections[s] \in SectionItems /\ ~ Misread(b.sections[s]) /\ AllPlain(b.sections[s].periods)
           /\ b.sections[s].label = None <=> s = k
  BY TimelineIs DEF OneImplicit
<1>2. PICK t : /\ t[0] = Heads(b) /\ t[n] = r
               /\ \A s \in 1 .. n : Reads(t[s - 1], SectionLines(b.sections[s]), t[s])
  BY TextThrough
<1> DEFINE F == {s \in 0 .. n : /\ t[s] \in Read
                                /\ Len(t[s].sections) = IF k <= s THEN s - 1 ELSE s}
<1> HIDE DEF n
<1>3. k \in Nat /\ k > 1 /\ k <= n
  BY <1>1
<1>4. 0 \in F
  <2>1. t[0] \in Read /\ t[0].sections = <<>> /\ ~ (k <= 0)
    BY <1>2, <1>3, HeadsAre
  <2>2. Len(t[0].sections) = 0
    BY <2>1
  <2>3. QED
    BY <1>1, <2>1, <2>2
<1>5. ASSUME NEW s \in 1 .. n, s - 1 \in F PROVE s \in F
  <2> DEFINE section == b.sections[s]
             c == t[s - 1]
             d == t[s]
  <2>1. /\ c \in Read /\ section \in SectionItems /\ ~ Misread(section) /\ AllPlain(section.periods)
        /\ Reads(c, SectionLines(section), d) /\ s \in 0 .. n /\ s \in Nat
        /\ section.label = None <=> s = k
    BY <1>1, <1>2, <1>5
  <2>2. Len(c.sections) = IF k <= s - 1 THEN s - 1 - 1 ELSE s - 1
    BY <1>5
  <2> HIDE DEF section, c, d, F
  <2>3. <<>> \in Seq(SectionItems)
    OBVIOUS
  <2>4. /\ d \in Read
        /\ section.label # None => Len(d.sections) = Len(c.sections) + 1
        /\ section.label = None /\ c.sections # <<>> => Len(d.sections) = Len(c.sections)
    <3>1. /\ d \in Read
          /\ ~ Misread(section) /\ AllPlain(section.periods) /\ section.label # None
               => Len(d.sections) = Len(c.sections) + 1
          /\ ~ Misread(section) /\ AllPlain(section.periods) /\ section.label = None
             /\ c.sections # <<>>
               => Len(d.sections) = Len(c.sections)
      <4>1. c \in Read /\ section \in SectionItems /\ Reads(c, SectionLines(section), d)
        BY <2>1
      <4>2. QED
        BY <2>3, <4>1, SectionWeighs, ZenonT(60)
    <3>2. ~ Misread(section) /\ AllPlain(section.periods)
      BY <2>1
    <3>3. QED
      BY <3>1, <3>2
  <2>5. CASE s = k
    <3>1. Len(c.sections) = s - 1 /\ s - 1 # 0
      BY <1>3, <2>2, <2>5
    <3>2. c.sections # <<>>
      BY <3>1
    <3>3. Len(d.sections) = s - 1
      BY <2>1, <2>4, <2>5, <3>1, <3>2
    <3>4. QED
      BY <2>1, <2>4, <2>5, <3>3 DEF F, d
  <2>6. CASE s # k
    <3>1. Len(d.sections) = IF k <= s THEN s - 1 ELSE s
      BY <1>3, <2>1, <2>2, <2>4, <2>6
    <3>2. QED
      BY <2>1, <2>4, <3>1 DEF F, d
  <2>7. QED
    BY <2>5, <2>6
<1> HIDE DEF F
<1>6. n \in F
  <2>1. \A s \in 0 .. n : s \in F
    BY <1>1, <1>4, <1>5, CountUp
  <2>2. QED
    BY <1>1, <2>1
<1>7. QED
  BY <1>1, <1>2, <1>3, <1>6 DEF F, n

\* A text that says something else is counted as one, but where the counts cancel.
LEMMA TimelineLoss ==
    ASSUME NEW b \in Tellable
    PROVE  \/ Timeline!Core!LossReported(b) \/ Timeline!CountsCancel(b)
           \/ \A r \in Timeline!Reparse(b) : r = b
<1> SUFFICES ASSUME ~ Timeline!Core!LossReported(b), ~ Timeline!CountsCancel(b),
                    NEW r \in Timeline!Reparse(b)
             PROVE  r = b
  OBVIOUS
<1>1. b \in Timelines /\ OneImplicit(b) /\ \A s \in DOMAIN b.sections : Told(b, s)
  BY DEF Tellable
<1>2. Items(r.sections) = Items(b.sections) /\ Len(r.sections) = Len(b.sections)
  <2>1. Timeline!Tally(r) = Timeline!Tally(b)
    BY DEF Timeline!Core!LossReported
  <2>2. <<Items(r.sections), 0, Len(r.sections)>> = <<Items(b.sections), 0, Len(b.sections)>>
    BY <2>1, TallyIs
  <2>3. QED
    BY <2>2
<1>3. r.sections \in Seq(SectionItems) /\ b.sections \in Seq(SectionItems)
  BY <1>1, TimelineReparseIs, TimelineIs DEF Read
<1>4. /\ Items(b.sections) \in Nat /\ Len(b.sections) \in Nat
  BY <1>3, ItemsNat
<1>5. \/ \A s \in DOMAIN b.sections : ~ Misread(b.sections[s])
      \/ \A s \in DOMAIN b.sections : AllPlain(b.sections[s].periods)
  BY DEF Timeline!CountsCancel, Timeline!Sections, Timeline!Periods, Misread, AllPlain, PlainPeriod
<1>6. \A s \in DOMAIN b.sections : ~ Misread(b.sections[s]) /\ AllPlain(b.sections[s].periods)
  <2>1. ASSUME NEW s \in DOMAIN b.sections, Misread(b.sections[s]) PROVE FALSE
    <3>1. \A k \in DOMAIN b.sections : AllPlain(b.sections[k].periods)
      BY <1>5, <2>1
    <3>2. Items(r.sections) > Items(b.sections)
      BY <1>1, <2>1, <3>1, TextCounts
    <3>3. QED
      BY <1>2, <1>4, <3>2
  <2>2. ASSUME NEW s \in DOMAIN b.sections, ~ AllPlain(b.sections[s].periods) PROVE FALSE
    <3>1. Items(r.sections) < Items(b.sections)
      BY <1>1, <2>1, <2>2, TextCounts
    <3>2. QED
      BY <1>2, <1>4, <3>1
  <2>3. QED
    BY <2>1, <2>2
<1>7. \A s \in DOMAIN b.sections : b.sections[s].label = None => s = 1
  <2> SUFFICES ASSUME NEW s \in DOMAIN b.sections, b.sections[s].label = None, s # 1 PROVE FALSE
    OBVIOUS
  <2>1. Len(r.sections) < Len(b.sections)
    BY <1>1, <1>6, SectionsMerge
  <2>2. QED
    BY <1>2, <1>4, <2>1
<1>8. b \in Read
  BY <1>1, <1>6, <1>7 DEF Read, PlainSection, Misread, AllPlain
<1>9. QED
  BY <1>8, TimelineTextStays

\* The property the runs check.
LEMMA SectionLoss ==
    ASSUME TimelineInv
    PROVE  Timeline!LossIsAnnounced
BY TimelineLoss DEF TimelineInv, Timeline!LossIsAnnounced

=============================================================================
