---------------------------- MODULE DeleteRunProofs ----------------------------
(***************************************************************************)
(* Facts about the operators of DeleteRun, for the proofs about the loop   *)
(* and about the diary.                                                    *)
(***************************************************************************)
EXTENDS DeleteRun, SequenceTheorems, FiniteSetTheorems, TLAPS

\* A list that shows no element twice.
NoRepeats(s) == \A m, n \in 1..Len(s) : s[m] = s[n] => m = n

\* Cut removes k elements and closes the gap.
LEMMA CutProperties ==
  ASSUME NEW S, NEW s \in Seq(S), NEW i \in 1..Len(s), NEW k \in Nat,
         i + k - 1 <= Len(s)
  PROVE  /\ Cut(s, i, k) \in Seq(S)
         /\ Len(Cut(s, i, k)) = Len(s) - k
         /\ \A j \in 1..(Len(s) - k) : Cut(s, i, k)[j] = IF j < i THEN s[j] ELSE s[j + k]
<1> DEFINE above == SubSeq(s, 1, i - 1)
           below == SubSeq(s, i + k, Len(s))
<1>1. Len(s) \in Nat
  BY LenProperties
<1>2. /\ above \in Seq(S) /\ Len(above) = i - 1
      /\ \A j \in 1..(i - 1) : above[j] = s[j]
  <2>1. \A j \in 1..(i - 1) : s[j] \in S
    BY <1>1, ElementOfSeq
  <2>. QED
    BY <1>1, <2>1, SubSeqProperties, Z3
<1>3. /\ below \in Seq(S) /\ Len(below) = Len(s) - (i + k) + 1
      /\ \A j \in 1..(Len(s) - (i + k) + 1) : below[j] = s[i + k + j - 1]
  <2>1. \A j \in (i + k)..Len(s) : s[j] \in S
    BY <1>1, ElementOfSeq
  <2>. QED
    BY <1>1, <2>1, SubSeqProperties, Z3
<1> HIDE DEF above, below
<1>4. /\ above \o below \in Seq(S)
      /\ Len(above \o below) = Len(above) + Len(below)
      /\ \A j \in 1..(Len(above) + Len(below)) :
           (above \o below)[j] = IF j <= Len(above) THEN above[j] ELSE below[j - Len(above)]
  BY <1>2, <1>3, ConcatProperties
<1>5. \A j \in 1..(Len(s) - k) : (above \o below)[j] = IF j < i THEN s[j] ELSE s[j + k]
  <2> SUFFICES ASSUME NEW j \in 1..(Len(s) - k)
               PROVE  (above \o below)[j] = IF j < i THEN s[j] ELSE s[j + k]
    OBVIOUS
  <2>1. CASE j < i
    BY <1>1, <1>2, <1>3, <1>4, <2>1
  <2>2. CASE j >= i
    <3>1. j - (i - 1) \in 1..(Len(s) - (i + k) + 1)
      BY <1>1, <2>2
    <3>2. below[j - (i - 1)] = s[i + k + (j - (i - 1)) - 1]
      BY <1>3, <3>1
    <3>3. i + k + (j - (i - 1)) - 1 = j + k
      BY <1>1
    <3>4. Len(above) = i - 1 /\ Len(below) = Len(s) - (i + k) + 1
      BY <1>2, <1>3, Zenon
    <3>5. /\ j \in 1..(Len(above) + Len(below)) /\ ~(j <= Len(above)) /\ ~(j < i)
          /\ j - Len(above) = j - (i - 1)
      BY <1>1, <2>2, <3>4
    <3>6. (above \o below)[j] = below[j - Len(above)]
      BY <1>4, <3>5
    <3>. QED
      BY <3>2, <3>3, <3>5, <3>6
  <2>3. j < i \/ j >= i
    BY <1>1
  <2>. QED
    BY <2>1, <2>2, <2>3, Zenon
<1>6. Cut(s, i, k) = above \o below
  BY DEF Cut, above, below
<1>7. Len(above \o below) = Len(s) - k
  BY <1>1, <1>2, <1>3, <1>4
<1>. QED
  BY <1>4, <1>5, <1>6, <1>7, Zenon

\* Cutting nothing changes nothing.
LEMMA CutNothing ==
  ASSUME NEW S, NEW s \in Seq(S), NEW i \in 1..Len(s)
  PROVE  Cut(s, i, 0) = s
<1>1. Len(s) \in Nat
  BY LenProperties
<1>2. /\ Cut(s, i, 0) \in Seq(S) /\ Len(Cut(s, i, 0)) = Len(s) - 0
      /\ \A j \in 1..(Len(s) - 0) : Cut(s, i, 0)[j] = IF j < i THEN s[j] ELSE s[j + 0]
  BY <1>1, CutProperties
<1>3. \A j \in 1..Len(s) : Cut(s, i, 0)[j] = s[j]
  BY <1>1, <1>2
<1>. QED
  BY <1>1, <1>2, <1>3, SeqEqual

\* Cutting one more element at the same place is a longer cut.
LEMMA CutAgain ==
  ASSUME NEW S, NEW s \in Seq(S), NEW i \in 1..Len(s), NEW k \in Nat,
         i + k <= Len(s)
  PROVE  Cut(Cut(s, i, k), i, 1) = Cut(s, i, k + 1)
<1> DEFINE short == Cut(s, i, k)
<1>1. Len(s) \in Nat
  BY LenProperties
<1>2. /\ short \in Seq(S) /\ Len(short) = Len(s) - k
      /\ \A j \in 1..(Len(s) - k) : short[j] = IF j < i THEN s[j] ELSE s[j + k]
  BY <1>1, CutProperties
<1>3. /\ Cut(s, i, k + 1) \in Seq(S) /\ Len(Cut(s, i, k + 1)) = Len(s) - (k + 1)
      /\ \A j \in 1..(Len(s) - (k + 1)) :
           Cut(s, i, k + 1)[j] = IF j < i THEN s[j] ELSE s[j + (k + 1)]
  <2>1. k + 1 \in Nat /\ i + (k + 1) - 1 <= Len(s)
    BY <1>1
  <2>. QED
    BY <2>1, CutProperties, Zenon
<1> HIDE DEF short
<1>4. /\ short \in Seq(S) /\ 1 \in Nat
      /\ i \in 1..Len(short) /\ i + 1 - 1 <= Len(short)
  BY <1>1, <1>2
<1>5. /\ Cut(short, i, 1) \in Seq(S) /\ Len(Cut(short, i, 1)) = Len(short) - 1
      /\ \A j \in 1..(Len(short) - 1) :
           Cut(short, i, 1)[j] = IF j < i THEN short[j] ELSE short[j + 1]
  BY <1>4, CutProperties
<1>6. Len(Cut(short, i, 1)) = Len(Cut(s, i, k + 1))
  BY <1>1, <1>2, <1>3, <1>5
<1>7. \A j \in 1..Len(Cut(short, i, 1)) : Cut(short, i, 1)[j] = Cut(s, i, k + 1)[j]
  <2> SUFFICES ASSUME NEW j \in 1..Len(Cut(short, i, 1))
               PROVE  Cut(short, i, 1)[j] = Cut(s, i, k + 1)[j]
    OBVIOUS
  <2>1. j \in 1..(Len(s) - (k + 1)) /\ j \in 1..(Len(short) - 1)
    BY <1>1, <1>2, <1>5
  <2>2. j \in 1..(Len(s) - k) /\ j + 1 \in 1..(Len(s) - k)
    BY <1>1, <2>1
  <2>3. short[j] = (IF j < i THEN s[j] ELSE s[j + k])
    BY <1>2, <2>2
  <2>4. short[j + 1] = IF j + 1 < i THEN s[j + 1] ELSE s[(j + 1) + k]
    BY <1>2, <2>2
  <2>5. Cut(short, i, 1)[j] = IF j < i THEN short[j] ELSE short[j + 1]
    BY <1>5, <2>1
  <2>6. Cut(s, i, k + 1)[j] = IF j < i THEN s[j] ELSE s[j + (k + 1)]
    BY <1>3, <2>1
  <2>7. j \in Int /\ i \in Int /\ (j + 1) + k = j + (k + 1) /\ (j + 1 < i => j < i)
    BY <1>1, <2>1
  <2>. QED
    BY <2>3, <2>4, <2>5, <2>6, <2>7
<1>. QED
  BY <1>3, <1>5, <1>6, <1>7, SeqEqual DEF short

\* The fetched order of a finite set lists each of its elements once.
LEMMA OrdersProperties ==
  ASSUME NEW S, IsFiniteSet(S), NEW items \in Orders(S)
  PROVE  /\ items \in Seq(S)
         /\ Len(items) = Cardinality(S)
         /\ \A m, n \in 1..Len(items) : items[m] = items[n] => m = n
         /\ \A e \in S : \E n \in 1..Len(items) : items[n] = e
         /\ Range(items) = S
<1>1. Cardinality(S) \in Nat
  BY FS_CardinalityType
<1>2. /\ items \in [1..Cardinality(S) -> S]
      /\ \A m, n \in 1..Cardinality(S) : items[m] = items[n] => m = n
      /\ \A e \in S : \E n \in 1..Cardinality(S) : items[n] = e
  BY DEF Orders, Bijection, Injection, Surjection, IsInjective
<1>3. items \in Seq(S) /\ Len(items) = Cardinality(S)
  BY <1>1, <1>2
<1>4. Range(items) = S
  BY <1>2 DEF Range
<1>. QED
  BY <1>2, <1>3, <1>4

\* Each fetched entry has one place.
LEMMA PlaceProperties ==
  ASSUME NEW S, NEW items \in Seq(S),
         \A m, n \in 1..Len(items) : items[m] = items[n] => m = n
  PROVE  \A n \in 1..Len(items) : Place(items, items[n]) = n
BY DEF Place

\* Cutting a run out of a list without duplicates removes its elements and
\* leaves a list without duplicates, unchanged above the cut.
LEMMA CutRange ==
  ASSUME NEW S, NEW s \in Seq(S), NEW i \in 1..Len(s), NEW k \in Nat,
         i + k - 1 <= Len(s),
         NoRepeats(s)
  PROVE  LET c == Cut(s, i, k) IN
         /\ NoRepeats(c)
         /\ Range(c) = Range(s) \ RunOf(s, i, k)
         /\ RunOf(s, i, k) \subseteq Range(s)
         /\ SubSeq(c, 1, i - 1) = SubSeq(s, 1, i - 1)
<1>1. Len(s) \in Nat /\ i \in Nat
  BY LenProperties
<1> DEFINE c == Cut(s, i, k)
<1>2. /\ c \in Seq(S) /\ Len(c) = Len(s) - k
      /\ \A j \in 1..(Len(s) - k) : c[j] = IF j < i THEN s[j] ELSE s[j + k]
  <2>1. /\ Cut(s, i, k) \in Seq(S) /\ Len(Cut(s, i, k)) = Len(s) - k
        /\ \A j \in 1..(Len(s) - k) : Cut(s, i, k)[j] = IF j < i THEN s[j] ELSE s[j + k]
    <3> HIDE DEF c
    <3>. QED
      BY CutProperties, Zenon
  <2>. QED
    BY <2>1, Zenon DEF c
<1> HIDE DEF c
<1> DEFINE from(j) == IF j < i THEN j ELSE j + k
<1>3. \A j \in 1..Len(c) : c[j] = s[from(j)]
  BY <1>2
<1>4. \A j \in 1..Len(c) : from(j) \in 1..Len(s) /\ from(j) \notin i..(i + k - 1)
  BY <1>1, <1>2
<1>5. \A m, n \in 1..Len(c) : from(m) = from(n) => m = n
  BY <1>1, <1>2
<1>6. \A n \in 1..Len(s) : n \notin i..(i + k - 1) => \E j \in 1..Len(c) : from(j) = n
  <2> SUFFICES ASSUME NEW n \in 1..Len(s), n \notin i..(i + k - 1)
               PROVE  \E j \in 1..Len(c) : from(j) = n
    OBVIOUS
  <2>1. CASE n < i
    <3>1. n \in 1..Len(c)
      BY <1>1, <1>2, <2>1
    <3>. QED
      BY <2>1, <3>1
  <2>2. CASE n >= i + k
    <3>1. n - k \in 1..Len(c) /\ ~(n - k < i) /\ (n - k) + k = n
      BY <1>1, <1>2, <2>2
    <3>. QED
      BY <3>1
  <2>. QED
    BY <1>1, <2>1, <2>2
<1> HIDE DEF from
<1>7. NoRepeats(c)
  BY <1>3, <1>4, <1>5 DEF NoRepeats
<1>8. Range(s) = {s[n] : n \in 1..Len(s)} /\ Range(c) = {c[j] : j \in 1..Len(c)}
  BY <1>2, RangeEquality
<1>9. i..(i + k - 1) \subseteq 1..Len(s)
  BY <1>1
<1>10. RunOf(s, i, k) \subseteq Range(s)
  BY <1>8, <1>9 DEF RunOf
<1>11. Range(c) \subseteq Range(s) \ RunOf(s, i, k)
  <2> SUFFICES ASSUME NEW j \in 1..Len(c)
               PROVE  c[j] \in Range(s) /\ c[j] \notin RunOf(s, i, k)
    BY <1>8
  <2>1. c[j] = s[from(j)] /\ from(j) \in 1..Len(s) /\ from(j) \notin i..(i + k - 1)
    BY <1>3, <1>4, Zenon
  <2>2. ASSUME NEW m \in i..(i + k - 1), c[j] = s[m]
        PROVE  FALSE
    <3>1. m \in 1..Len(s)
      BY <1>9, Zenon
    <3>2. from(j) = m
      BY <2>1, <2>2, <3>1, Zenon DEF NoRepeats
    <3>. QED
      BY <2>1, <3>2, Zenon
  <2>. QED
    BY <1>8, <2>1, <2>2, Zenon DEF RunOf
<1>12. Range(s) \ RunOf(s, i, k) \subseteq Range(c)
  <2> SUFFICES ASSUME NEW e \in Range(s), e \notin RunOf(s, i, k) PROVE e \in Range(c)
    OBVIOUS
  <2>1. PICK n \in 1..Len(s) : s[n] = e
    BY <1>8
  <2>2. n \notin i..(i + k - 1)
    BY <2>1 DEF RunOf
  <2>3. PICK j \in 1..Len(c) : from(j) = n
    BY <1>6, <2>2
  <2>. QED
    BY <1>3, <1>8, <2>1, <2>3
<1>13. SubSeq(c, 1, i - 1) = SubSeq(s, 1, i - 1)
  <2>1. \A j \in 1..(i - 1) : j \in 1..Len(s) /\ j \in 1..(Len(s) - k) /\ j < i
    BY <1>1
  <2>2. \A j \in 1..(i - 1) : c[j] = s[j] /\ s[j] \in S /\ c[j] \in S
    BY <1>2, <2>1, ElementOfSeq
  <2>3. /\ SubSeq(s, 1, i - 1) \in Seq(S)
        /\ Len(SubSeq(s, 1, i - 1)) = IF 1 <= i - 1 THEN i - 1 - 1 + 1 ELSE 0
        /\ \A j \in 1..(i - 1 - 1 + 1) : SubSeq(s, 1, i - 1)[j] = s[1 + j - 1]
    BY <1>1, <2>2, SubSeqProperties
  <2>4. /\ SubSeq(c, 1, i - 1) \in Seq(S)
        /\ Len(SubSeq(c, 1, i - 1)) = IF 1 <= i - 1 THEN i - 1 - 1 + 1 ELSE 0
        /\ \A j \in 1..(i - 1 - 1 + 1) : SubSeq(c, 1, i - 1)[j] = c[1 + j - 1]
    BY <1>1, <2>2, SubSeqProperties
  <2>5. /\ Len(SubSeq(s, 1, i - 1)) = i - 1 /\ Len(SubSeq(c, 1, i - 1)) = i - 1
        /\ \A j \in 1..(i - 1) : j \in 1..(i - 1 - 1 + 1) /\ 1 + j - 1 = j
    BY <1>1, <2>3, <2>4
  <2>6. Len(SubSeq(c, 1, i - 1)) = Len(SubSeq(s, 1, i - 1))
    BY <2>5, Zenon
  <2>7. ASSUME NEW j \in 1..Len(SubSeq(c, 1, i - 1))
        PROVE  SubSeq(c, 1, i - 1)[j] = SubSeq(s, 1, i - 1)[j]
    <3>1. j \in 1..(i - 1)
      BY <2>5, Zenon
    <3>2. j \in 1..(i - 1 - 1 + 1) /\ 1 + j - 1 = j /\ c[j] = s[j]
      BY <2>2, <2>5, <3>1, Zenon
    <3>3. SubSeq(s, 1, i - 1)[j] = s[j]
      BY <2>3, <3>2, Zenon
    <3>4. SubSeq(c, 1, i - 1)[j] = c[j]
      BY <2>4, <3>2, Zenon
    <3>. QED
      BY <3>2, <3>3, <3>4, Zenon
  <2>. QED
    BY <2>3, <2>4, <2>6, <2>7, SeqEqual, Zenon
<1>. QED
  BY <1>7, <1>10, <1>11, <1>12, <1>13 DEF c

-------------------------------------------------------------------------------
(* The length of the run.                                                  *)

Less == {r \in Nat \X Nat : r[1] < r[2]}

\* Every set of numbers has a smallest.
LEMMA LessWellFounded == IsWellFoundedOn(Less, Nat)
BY NatLessThanWellFounded, Zenon DEF OpToRel, Less

\* A run that has k + 1 rows has k.
LEMMA RemovesLess ==
  ASSUME NEW items, NEW rows, Len(rows) \in Nat, NEW i \in 1..Len(rows),
         NEW k \in Nat, NEW m \in Nat, m <= k, Removes(items, rows, i, k)
  PROVE  Removes(items, rows, i, m)
<1>1. i + m - 1 <= i + k - 1 /\ i..(i + m - 2) \subseteq i..(i + k - 2)
  OBVIOUS
<1>. QED
  BY <1>1 DEF Removes

\* Each call of deleteDiary(at:), with what its fetch returned, has one run of
\* rows that it removes, and only one: the swiped row at least.
THEOREM OneRunLength ==
  ASSUME NEW items, NEW rows, Len(rows) \in Nat, NEW i \in 1..Len(rows)
  PROVE  \E k \in 1..Len(rows) :
           /\ IsRunLength(items, rows, i, k)
           /\ \A m \in 1..Len(rows) : IsRunLength(items, rows, i, m) => m = k
<1> DEFINE Ends == {k \in Nat : ~Removes(items, rows, i, k + 1)}
<1>1. Len(rows) \in Ends /\ Ends \subseteq Nat
  BY DEF Removes
<1>2. \A k \in Nat : k \in Ends <=> ~Removes(items, rows, i, k + 1)
  OBVIOUS
<1> HIDE DEF Ends
<1>3. PICK k \in Ends : \A m \in Ends : ~(<<m, k>> \in Less)
  BY <1>1, LessWellFounded, WFMin
<1>4. k \in Nat /\ \A m \in Nat : m < k => m \notin Ends
  BY <1>1, <1>3 DEF Less
<1>5. Removes(items, rows, i, 1)
  BY DEF Removes
<1>6. k >= 1
  <2>1. k # 0
    BY <1>2, <1>3, <1>5
  <2>. QED
    BY <1>4, <2>1
<1>7. Removes(items, rows, i, k)
  <2>1. k - 1 \in Nat /\ k - 1 < k /\ (k - 1) + 1 = k
    BY <1>4, <1>6
  <2>2. Removes(items, rows, i, (k - 1) + 1)
    BY <1>2, <1>4, <2>1
  <2>. QED
    BY <2>1, <2>2
<1>8. k \in 1..Len(rows)
  BY <1>4, <1>6, <1>7 DEF Removes
<1>9. ASSUME NEW m \in 1..Len(rows), IsRunLength(items, rows, i, m) PROVE m = k
  <2>1. Removes(items, rows, i, m) /\ ~Removes(items, rows, i, m + 1)
    BY <1>9 DEF IsRunLength
  <2>2. ~Removes(items, rows, i, k + 1)
    BY <1>2, <1>3, <1>4
  <2>3. ~(m < k)
    <3>1. m < k => m + 1 \in Nat /\ m + 1 <= k
      BY <1>4
    <3>. QED
      BY <1>4, <1>7, <2>1, <3>1, RemovesLess
  <2>4. ~(k < m)
    <3>1. k < m => k + 1 \in Nat /\ k + 1 <= m
      BY <1>4
    <3>. QED
      BY <1>4, <2>1, <2>2, <3>1, RemovesLess
  <2>. QED
    BY <1>4, <2>3, <2>4
<1>10. IsRunLength(items, rows, i, k)
  BY <1>2, <1>3, <1>4, <1>7 DEF IsRunLength
<1>. QED
  BY <1>8, <1>9, <1>10

-------------------------------------------------------------------------------
(* When a deletion takes the swiped row only, for every order of the fetch.*)

\* Each row has a place of its own in the fetched order.
LEMMA RowsHavePlaces ==
  ASSUME NEW S, IsFiniteSet(S), NEW items \in Orders(S), NEW rows \in Seq(S), NoRepeats(rows)
  PROVE  /\ Len(items) \in Nat /\ Len(rows) \in Nat
         /\ \A j \in 1..Len(rows) : Place(items, rows[j]) \in 1..Len(items)
         /\ \A j, m \in 1..Len(rows) : Place(items, rows[j]) = Place(items, rows[m]) => j = m
<1>1. /\ items \in Seq(S)
      /\ \A m, n \in 1..Len(items) : items[m] = items[n] => m = n
      /\ \A e \in S : \E n \in 1..Len(items) : items[n] = e
  BY OrdersProperties
<1>2. Len(items) \in Nat /\ Len(rows) \in Nat /\ \A j \in 1..Len(rows) : rows[j] \in S
  BY <1>1, LenProperties, ElementOfSeq
<1>3. \A e \in S : Place(items, e) \in 1..Len(items) /\ items[Place(items, e)] = e
  BY <1>1 DEF Place
<1>. QED
  BY <1>2, <1>3 DEF NoRepeats

\* The walk takes the swiped row only, and comes to its end, just when the row
\* below was fetched before it, or, for the last row, when it was fetched last.
TakesOneRow(items, rows, i) ==
  IF i < Len(rows) THEN Place(items, rows[i + 1]) < Place(items, rows[i])
  ELSE Place(items, rows[i]) = Len(items)

\* deleteDiary does what its title says in these cases and in no other.
THEOREM DeleteTakesOneRowWhen ==
  ASSUME NEW S, IsFiniteSet(S), NEW items \in Orders(S), NEW rows \in Seq(S), NoRepeats(rows),
         NEW i \in 1..Len(rows), NEW k \in 1..Len(rows), IsRunLength(items, rows, i, k)
  PROVE  k = 1 /\ ~ReadsPastEnd(items, rows, i, k) <=> TakesOneRow(items, rows, i)
<1> DEFINE place(j) == Place(items, rows[j])
<1>1. /\ Len(items) \in Nat /\ Len(rows) \in Nat
      /\ \A j \in 1..Len(rows) : place(j) \in 1..Len(items)
      /\ \A j, m \in 1..Len(rows) : place(j) = place(m) => j = m
  BY RowsHavePlaces
<1>2. /\ i + k - 1 <= Len(rows)
      /\ \A j \in i..(i + k - 2) : place(j) < place(j + 1)
      /\ \/ ~(i + (k + 1) - 1 <= Len(rows))
         \/ \E j \in i..(i + (k + 1) - 2) : ~(place(j) < place(j + 1))
  BY DEF IsRunLength, Removes
<1>3. ReadsPastEnd(items, rows, i, k) <=> i + k > Len(rows) /\ place(Len(rows)) < Len(items)
  BY DEF ReadsPastEnd
<1>4. TakesOneRow(items, rows, i) <=>
        IF i < Len(rows) THEN place(i + 1) < place(i) ELSE place(i) = Len(items)
  BY DEF TakesOneRow
<1> HIDE DEF place
<1>5. CASE i < Len(rows)
  <2>1. i + 1 \in 1..Len(rows) /\ i + 1 # i
    BY <1>1, <1>5
  <2>2. ASSUME k = 1 PROVE place(i + 1) < place(i) /\ ~ReadsPastEnd(items, rows, i, k)
    <3>1. \E j \in i..i : ~(place(j) < place(j + 1))
      BY <1>1, <1>2, <1>5, <2>2
    <3>2. ~(place(i) < place(i + 1))
      BY <3>1
    <3>. QED
      BY <1>1, <1>3, <1>5, <2>1, <2>2, <3>2
  <2>3. ASSUME place(i + 1) < place(i) PROVE k = 1
    <3>1. ~(place(i) < place(i + 1))
      BY <1>1, <2>1, <2>3
    <3>2. i \notin i..(i + k - 2)
      BY <1>2, <3>1
    <3>. QED
      BY <1>1, <3>2
  <2>. QED
    BY <1>4, <1>5, <2>2, <2>3
<1>6. CASE ~(i < Len(rows))
  <2>1. i = Len(rows) /\ k = 1
    BY <1>1, <1>2, <1>6
  <2>2. place(i) \in 1..Len(items)
    BY <1>1
  <2>. QED
    BY <1>1, <1>3, <1>4, <1>6, <2>1, <2>2
<1>. QED
  BY <1>5, <1>6

\* No order of the fetch makes every row of a list of two or more safe to delete:
\* deleting one of the last two takes another row with it, or ends the process.
THEOREM SomeRowTakesMore ==
  ASSUME NEW S, IsFiniteSet(S), NEW items \in Orders(S), NEW rows \in Seq(S), NoRepeats(rows),
         Len(rows) >= 2
  PROVE  \E i, k \in 1..Len(rows) :
           IsRunLength(items, rows, i, k) /\ (k > 1 \/ ReadsPastEnd(items, rows, i, k))
<1> DEFINE last == Len(rows)
<1>1. /\ Len(items) \in Nat /\ last \in Nat
      /\ \A j \in 1..last : Place(items, rows[j]) \in 1..Len(items)
  BY RowsHavePlaces
<1>2. PICK i \in 1..last : ~TakesOneRow(items, rows, i)
  <2>1. last - 1 \in 1..last /\ last \in 1..last /\ (last - 1) + 1 = last
    BY <1>1
  <2>2. CASE Place(items, rows[last]) < Place(items, rows[last - 1])
    <3>1. Place(items, rows[last]) # Len(items)
      BY <1>1, <2>1, <2>2
    <3>2. ~TakesOneRow(items, rows, last)
      BY <1>1, <3>1 DEF TakesOneRow
    <3>. QED
      BY <2>1, <3>2
  <2>3. CASE ~(Place(items, rows[last]) < Place(items, rows[last - 1]))
    <3>1. ~TakesOneRow(items, rows, last - 1)
      BY <1>1, <2>1, <2>3 DEF TakesOneRow
    <3>. QED
      BY <2>1, <3>1
  <2>. QED
    BY <2>2, <2>3
<1>3. PICK k \in 1..last : IsRunLength(items, rows, i, k)
  BY <1>1, OneRunLength
<1>4. k > 1 \/ ReadsPastEnd(items, rows, i, k)
  <2>1. ~(k = 1 /\ ~ReadsPastEnd(items, rows, i, k))
    BY <1>2, <1>3, DeleteTakesOneRowWhen
  <2>. QED
    BY <1>1, <2>1
<1>. QED
  BY <1>3, <1>4

\* When the fetch returns the entries in the order the list shows them, the walk
\* takes the swiped row and every row below it, and nothing stops it.
THEOREM ListOrderTakesTheRest ==
  ASSUME NEW S, IsFiniteSet(S), NEW items \in Orders(S), NEW rows \in Seq(S), NoRepeats(rows),
         \A j, m \in 1..Len(rows) : j < m => Place(items, rows[j]) < Place(items, rows[m]),
         NEW i \in 1..Len(rows), NEW k \in 1..Len(rows), IsRunLength(items, rows, i, k)
  PROVE  /\ i + k - 1 = Len(rows)
         /\ S = Range(rows) => ~ReadsPastEnd(items, rows, i, k)
<1> DEFINE last == Len(rows)
<1>1. /\ Len(items) \in Nat /\ last \in Nat
      /\ \A j \in 1..last : Place(items, rows[j]) \in 1..Len(items)
  BY RowsHavePlaces
<1>2. /\ i + k - 1 <= last
      /\ \/ ~(i + (k + 1) - 1 <= last)
         \/ \E j \in i..(i + (k + 1) - 2) : ~(Place(items, rows[j]) < Place(items, rows[j + 1]))
  BY DEF IsRunLength, Removes
<1>3. i + k - 1 = last
  <2>1. ASSUME i + (k + 1) - 1 <= last, NEW j \in i..(i + (k + 1) - 2)
        PROVE  Place(items, rows[j]) < Place(items, rows[j + 1])
    <3>1. j \in 1..last /\ j + 1 \in 1..last /\ j < j + 1
      BY <1>1, <2>1
    <3>. QED
      BY <3>1
  <2>2. ~(i + (k + 1) - 1 <= last)
    BY <1>2, <2>1
  <2>3. i + k - 1 <= last /\ last \in Nat /\ i \in Nat /\ k \in Nat
    BY <1>1, <1>2
  <2> HIDE DEF last
  <2>. QED
    BY <2>2, <2>3
<1>4. ASSUME S = Range(rows) PROVE ~(Place(items, rows[last]) < Len(items))
  <2>1. /\ items \in Seq(S)
        /\ \A m, n \in 1..Len(items) : items[m] = items[n] => m = n
    BY OrdersProperties
  <2>2. last \in 1..last /\ Place(items, rows[last]) \in 1..Len(items)
    BY <1>1
  <2>3. Len(items) \in 1..Len(items)
    BY <1>1, <2>2
  <2>4. items[Len(items)] \in S /\ Range(rows) = {rows[j] : j \in 1..last}
    BY <2>1, <2>3, ElementOfSeq, RangeEquality
  <2>5. PICK j \in 1..last : rows[j] = items[Len(items)]
    BY <1>4, <2>4
  <2>6. Place(items, rows[j]) = Len(items)
    BY <2>1, <2>3, <2>5, PlaceProperties
  <2>7. j = last \/ j < last
    BY <1>1
  <2>8. j < last => Place(items, rows[j]) < Place(items, rows[last])
    BY <2>2
  <2>. QED
    BY <1>1, <2>2, <2>6, <2>7, <2>8
<1>. QED
  BY <1>3, <1>4 DEF ReadsPastEnd
===============================================================================
