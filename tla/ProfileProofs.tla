----------------------------- MODULE ProfileProofs -----------------------------
(***************************************************************************)
(* Theorems of Profile: with any number of rounds, users and documents,    *)
(* the screen is never left out of date by answers that interleave, nor    *)
(* about somebody else without a read that was still under way for them.   *)
(***************************************************************************)
EXTENDS Profile, FiniteSetTheorems, SequenceTheorems, TLAPS

\* Leaving a group moves one round from r to what is left of its reads.
LEMMA LeaveMoves ==
  ASSUME TypeOK, NEW r \in Kinds, NEW read \in r[2], rounds[r] > 0, Leave(r, read)
  PROVE  /\ <<r[1], r[2] \ {read}>> \in Kinds
         /\ rounds' \in [Kinds -> Nat]
         /\ rounds'[<<r[1], r[2] \ {read}>>] > 0
         /\ \A k \in Kinds : rounds'[k] > 0 => rounds[k] > 0 \/ k = <<r[1], r[2] \ {read}>>
         /\ \A k \in Kinds : k # r /\ rounds[k] > 0 => rounds'[k] > 0
<1> DEFINE left == <<r[1], r[2] \ {read}>>
<1>1. r[1] \in Clients /\ r[2] \in SUBSET Reads
  BY DEF Kinds
<1>2. left \in Kinds
  BY <1>1 DEF Kinds
<1>3. left # r
  OBVIOUS
<1>4. rounds \in [Kinds -> Nat]
  BY DEF TypeOK
<1>5. rounds' = [rounds EXCEPT ![r] = @ - 1, ![left] = @ + 1]
  BY DEF Leave
<1> HIDE DEF left
<1>6. rounds[r] - 1 \in Nat /\ rounds[left] \in Nat
  BY <1>2, <1>4
<1>7. \A k \in Kinds : rounds'[k] = IF k = left THEN rounds[k] + 1 ELSE IF k = r THEN rounds[k] - 1 ELSE rounds[k]
  BY <1>2, <1>3, <1>4, <1>5
<1>8. rounds' \in [Kinds -> Nat]
  BY <1>2, <1>3, <1>4, <1>5, <1>6
<1>9. rounds'[left] > 0
  BY <1>2, <1>6, <1>7
<1>10. \A k \in Kinds : rounds'[k] > 0 => rounds[k] > 0 \/ k = left
  BY <1>4, <1>7
<1>11. \A k \in Kinds : k # r /\ rounds[k] > 0 => rounds'[k] > 0
  BY <1>4, <1>7
<1> QED
  BY <1>2, <1>8, <1>9, <1>10, <1>11 DEF left

\* Starting rounds adds to those that wait for both reads and to no others.
LEMMA AppearStarts ==
  ASSUME TypeOK, NEW first \in Clients, NEW uid \in Clients, Appear(first, uid)
  PROVE  /\ rounds' \in [Kinds -> Nat]
         /\ <<uid, Reads>> \in Kinds /\ rounds'[<<uid, Reads>>] > 0
         /\ \A k \in Kinds : rounds[k] > 0 => rounds'[k] > 0
         /\ \A k \in Kinds : rounds'[k] > 0 =>
              rounds[k] > 0 \/ (k[2] = Reads /\ k[1] \in {first, uid})
<1> DEFINE one == <<uid, Reads>>
           two == <<first, Reads>>
<1>1. one \in Kinds /\ two \in Kinds /\ one[2] = Reads /\ two[2] = Reads
      /\ one[1] = uid /\ two[1] = first
  BY DEF Kinds
<1>2. rounds \in [Kinds -> Nat]
  BY DEF TypeOK
<1>3. rounds' = IF loaded THEN [rounds EXCEPT ![one] = @ + 1]
                ELSE [[rounds EXCEPT ![two] = @ + 1] EXCEPT ![one] = @ + 1]
  BY DEF Appear, ReadTestResult
<1> HIDE DEF one, two
<1>4. CASE loaded
  <2>1. rounds' = [rounds EXCEPT ![one] = @ + 1]
    BY <1>3, <1>4
  <2>2. rounds' \in [Kinds -> Nat] /\ \A k \in Kinds : rounds'[k] = IF k = one THEN rounds[k] + 1 ELSE rounds[k]
    BY <2>1, <1>1, <1>2
  <2> QED
    BY <2>2, <1>1, <1>2 DEF one
<1>5. CASE ~loaded
  <2> DEFINE mid == [rounds EXCEPT ![two] = @ + 1]
  <2>1. mid \in [Kinds -> Nat] /\ \A k \in Kinds : mid[k] = IF k = two THEN rounds[k] + 1 ELSE rounds[k]
    BY <1>1, <1>2
  <2>2. rounds' = [mid EXCEPT ![one] = @ + 1]
    BY <1>3, <1>5
  <2> HIDE DEF mid
  <2>3. rounds' \in [Kinds -> Nat] /\ \A k \in Kinds : rounds'[k] = IF k = one THEN mid[k] + 1 ELSE mid[k]
    BY <2>1, <2>2, <1>1
  <2>4. \A k \in Kinds : rounds[k] \in Nat /\ mid[k] \in Nat
    BY <2>1, <1>2
  <2>5. rounds'[one] > 0 /\ \A k \in Kinds : rounds[k] > 0 => rounds'[k] > 0
    BY <2>1, <2>3, <2>4, <1>1
  <2>6. \A k \in Kinds : rounds'[k] > 0 => rounds[k] > 0 \/ k = one \/ k = two
    BY <2>1, <2>3, <2>4
  <2> QED
    BY <2>3, <2>5, <2>6, <1>1 DEF one
<1> QED
  BY <1>4, <1>5

-------------------------------------------------------------------------------
\* Types, and the screen that is up to date whenever no round is half answered.
ScreenInv == TypeOK /\ ShownIsWhatWasRead

LEMMA ScreenInit == Init => ScreenInv
<1> SUFFICES ASSUME Init PROVE ScreenInv
  OBVIOUS
<1>1. NoRounds \in [Kinds -> Nat]
  BY DEF NoRounds
<1>2. Nil \in Information /\ Nil \in AllResults /\ NoUser \in Clients
  BY DEF Information, AllResults, Clients
<1> QED
  BY <1>1, <1>2 DEF Init, ScreenInv, TypeOK, ShownIsWhatWasRead

\* An answer leaves its round half answered, or over and due.
LEMMA LeaveUnsettles ==
  ASSUME TypeOK, NEW r \in Kinds, NEW read \in r[2], rounds[r] > 0, Leave(r, read)
  PROVE  rounds' \in [Kinds -> Nat] /\ ~Settled'
<1> DEFINE left == <<r[1], r[2] \ {read}>>
<1>1. left \in Kinds /\ rounds' \in [Kinds -> Nat] /\ rounds'[left] > 0
  BY LeaveMoves, Zenon
<1>2. left[2] # Reads
  BY DEF Kinds
<1> HIDE DEF left
<1> QED
  BY <1>1, <1>2 DEF Settled

LEMMA ScreenStep == ScreenInv /\ [Next]_vars => ScreenInv'
<1> SUFFICES ASSUME ScreenInv, [Next]_vars PROVE ScreenInv'
  OBVIOUS
<1>1. TypeOK /\ ShownIsWhatWasRead
  BY DEF ScreenInv
<1>2. CASE Launch
  BY <1>1, <1>2 DEF Launch, ScreenInv, TypeOK, ShownIsWhatWasRead, Settled, IsShown
<1>3. ASSUME NEW first \in Clients, NEW uid \in Clients, Appear(first, uid)
      PROVE  ScreenInv'
  <2>1. /\ rounds' \in [Kinds -> Nat]
        /\ \A k \in Kinds : rounds[k] > 0 => rounds'[k] > 0
    BY <1>1, <1>3, AppearStarts, Zenon
  <2>2. (overlap') \in BOOLEAN
    BY <1>3 DEF Appear
  <2>3. TypeOK'
    BY <1>1, <1>3, <2>1, <2>2 DEF Appear, TypeOK
  <2>4. Settled' => Settled
    BY <2>1 DEF Settled
  <2>5. ShownIsWhatWasRead'
    BY <1>1, <1>3, <2>4 DEF Appear, ShownIsWhatWasRead, IsShown
  <2> QED
    BY <2>3, <2>5 DEF ScreenInv
<1>4. ASSUME NEW r \in Kinds, OwnAnswered(r)
      PROVE  ScreenInv'
  <2>1. rounds' \in [Kinds -> Nat] /\ ~Settled'
    BY <1>1, <1>4, LeaveUnsettles, Zenon DEF OwnAnswered
  <2>2. testInformation' \in Information
    BY <1>4 DEF OwnAnswered, Information
  <2>3. TypeOK'
    BY <1>1, <1>4, <2>1, <2>2 DEF OwnAnswered, TypeOK
  <2> QED
    BY <2>1, <2>3 DEF ScreenInv, ShownIsWhatWasRead
<1>5. ASSUME NEW r \in Kinds, AllAnswered(r)
      PROVE  ScreenInv'
  <2>1. rounds' \in [Kinds -> Nat] /\ ~Settled'
    BY <1>1, <1>5, LeaveUnsettles, Zenon DEF AllAnswered
  <2>2. TypeOK'
    BY <1>1, <1>5, <2>1 DEF AllAnswered, TypeOK
  <2> QED
    BY <2>1, <2>2 DEF ScreenInv, ShownIsWhatWasRead
<1>6. ASSUME NEW uid \in Clients, CalculateTestScore(uid)
      PROVE  ScreenInv'
  <2>1. CASE <<testInformation, allTestResult>> \notin DOMAIN Chart
    <3>1. ProcessEnds
      BY <1>6, <2>1 DEF CalculateTestScore
    <3>2. NoRounds \in [Kinds -> Nat]
      BY DEF NoRounds
    <3>3. Nil \in Information /\ Nil \in AllResults /\ NoUser \in Clients
      BY DEF Information, AllResults, Clients
    <3> QED
      BY <3>1, <3>2, <3>3 DEF ProcessEnds, ScreenInv, TypeOK, ShownIsWhatWasRead
  <2>2. CASE <<testInformation, allTestResult>> \in DOMAIN Chart
    <3>1. /\ rounds' = [rounds EXCEPT ![<<uid, {}>>] = @ - 1]
          /\ shown' = Chart[<<testInformation, allTestResult>>]
          /\ spinning' = FALSE
          /\ UNCHANGED <<running, loaded, testInformation, allTestResult, appeared, overlap>>
      BY <1>6, <2>2 DEF CalculateTestScore
    <3>2. rounds' \in [Kinds -> Nat]
      <4>1. <<uid, {}>> \in Kinds /\ rounds \in [Kinds -> Nat] /\ rounds[<<uid, {}>>] > 0
        BY <1>1, <1>6 DEF Kinds, CalculateTestScore, TypeOK
      <4>2. rounds[<<uid, {}>>] - 1 \in Nat
        BY <4>1
      <4> QED
        BY <3>1, <4>1, <4>2
    <3>3. shown' \in Charts
      BY <2>2, <3>1, Zenon DEF Charts
    <3>4. TypeOK'
      BY <1>1, <3>1, <3>2, <3>3 DEF TypeOK
    <3>5. IsShown'
      BY <2>2, <3>1 DEF IsShown
    <3> QED
      BY <3>4, <3>5 DEF ScreenInv, ShownIsWhatWasRead
  <2> QED
    BY <2>1, <2>2
<1>7. CASE UNCHANGED vars
  BY <1>1, <1>7 DEF vars, ScreenInv, TypeOK, ShownIsWhatWasRead, Settled, IsShown
<1> QED
  BY <1>2, <1>3, <1>4, <1>5, <1>6, <1>7 DEF Next, Answer, Notified

\* The inductive invariant of the screen: the types, and no chart left behind
\* that is out of date by readTestResult's rounds (ProfileViewModel.swift:20-46).
THEOREM ProfileScreen == Spec => []ScreenInv
<1>1. Spec => Init /\ [][Next]_vars
  BY DEF Spec
<1> QED
  BY <1>1, ScreenInit, ScreenStep, PTL

\* Every variable of the Profile tab keeps its type.
THEOREM ProfileTypeOK == Spec => []TypeOK
<1>1. ScreenInv => TypeOK
  BY DEF ScreenInv
<1> QED
  BY <1>1, ProfileScreen, PTL

\* However many rounds interleave their answers in the two shared fields, the
\* screen shows what the fields have whenever no round is half answered or due.
THEOREM ProfileShowsWhatWasRead == Spec => []ShownIsWhatWasRead
<1>1. ScreenInv => ShownIsWhatWasRead
  BY DEF ScreenInv
<1> QED
  BY <1>1, ProfileScreen, PTL

-------------------------------------------------------------------------------
\* Reads that are still without an answer are for the user who looks.
RoundsAreTheUsers ==
  ~overlap => \A r \in Kinds : rounds[r] > 0 /\ r[2] # {} => r[1] = appeared

\* Once the user's document is awaited no more, what was read last is the user's.
ReadIsTheUsers ==
  ~overlap /\ (\A r \in Kinds : rounds[r] > 0 => "own" \notin r[2]) =>
    testInformation = Nil \/ testInformation.of \in {appeared, NoUser}

UsersInv == RoundsAreTheUsers /\ ReadIsTheUsers

LEMMA UsersInit == Init => UsersInv
BY DEF Init, UsersInv, RoundsAreTheUsers, ReadIsTheUsers, NoRounds

LEMMA UsersStep == TypeOK /\ UsersInv /\ [Next]_vars => UsersInv'
<1> SUFFICES ASSUME TypeOK, UsersInv, [Next]_vars PROVE UsersInv'
  OBVIOUS
<1>1. RoundsAreTheUsers /\ ReadIsTheUsers
  BY DEF UsersInv
<1>2. CASE Launch
  BY <1>1, <1>2 DEF Launch, UsersInv, RoundsAreTheUsers, ReadIsTheUsers
<1>3. ASSUME NEW first \in Clients, NEW uid \in Clients, Appear(first, uid)
      PROVE  UsersInv'
  <2>1. /\ <<uid, Reads>> \in Kinds /\ rounds'[<<uid, Reads>>] > 0
        /\ \A k \in Kinds : rounds'[k] > 0 => rounds[k] > 0 \/ (k[2] = Reads /\ k[1] \in {first, uid})
    BY <1>3, AppearStarts, Zenon
  <2>2. ~overlap' => first = uid /\ \A r \in Kinds : rounds[r] > 0 /\ r[2] # {} => r[1] = uid
    BY <1>3 DEF Appear
  <2>3. appeared' = uid
    BY <1>3 DEF Appear
  <2>4. RoundsAreTheUsers'
    BY <2>1, <2>2, <2>3 DEF RoundsAreTheUsers
  <2>5. <<uid, Reads>>[2] = Reads /\ "own" \in Reads
    BY DEF Reads
  <2>6. ReadIsTheUsers'
    BY <2>1, <2>5 DEF ReadIsTheUsers
  <2> QED
    BY <2>4, <2>6 DEF UsersInv
<1>4. ASSUME NEW r \in Kinds, OwnAnswered(r)
      PROVE  UsersInv'
  <2> DEFINE left == <<r[1], r[2] \ {"own"}>>
  <2>1. \A k \in Kinds : rounds'[k] > 0 => rounds[k] > 0 \/ k = left
    BY <1>4, LeaveMoves, Zenon DEF OwnAnswered
  <2>2. left[1] = r[1] /\ rounds[r] > 0 /\ "own" \in r[2]
    BY <1>4 DEF OwnAnswered
  <2>3. UNCHANGED <<appeared, overlap>>
    BY <1>4 DEF OwnAnswered
  <2>4. ~overlap => r[1] = appeared
    BY <1>1, <2>2 DEF RoundsAreTheUsers
  <2>5. testInformation' = Nil \/ testInformation'.of \in {r[1], NoUser}
    BY <1>4 DEF OwnAnswered, DefaultTestScore
  <2> HIDE DEF left
  <2>6. RoundsAreTheUsers'
    BY <1>1, <2>1, <2>2, <2>3, <2>4 DEF RoundsAreTheUsers
  <2>7. ReadIsTheUsers'
    BY <2>3, <2>4, <2>5 DEF ReadIsTheUsers
  <2> QED
    BY <2>6, <2>7 DEF UsersInv
<1>5. ASSUME NEW r \in Kinds, AllAnswered(r)
      PROVE  UsersInv'
  <2> DEFINE left == <<r[1], r[2] \ {"all"}>>
  <2>1. /\ left \in Kinds /\ rounds'[left] > 0
        /\ \A k \in Kinds : rounds'[k] > 0 => rounds[k] > 0 \/ k = left
        /\ \A k \in Kinds : k # r /\ rounds[k] > 0 => rounds'[k] > 0
    BY <1>5, LeaveMoves, Zenon DEF AllAnswered
  <2>2. /\ left[1] = r[1] /\ rounds[r] > 0 /\ r[2] # {}
        /\ "own" \in r[2] <=> "own" \in left[2]
    BY <1>5 DEF AllAnswered
  <2>3. UNCHANGED <<appeared, overlap, testInformation>>
    BY <1>5 DEF AllAnswered
  <2> HIDE DEF left
  <2>4. RoundsAreTheUsers'
    BY <1>1, <2>1, <2>2, <2>3 DEF RoundsAreTheUsers
  <2>5. (\A k \in Kinds : rounds'[k] > 0 => "own" \notin k[2])
          => \A k \in Kinds : rounds[k] > 0 => "own" \notin k[2]
    BY <2>1, <2>2
  <2>6. ReadIsTheUsers'
    BY <1>1, <2>3, <2>5 DEF ReadIsTheUsers
  <2> QED
    BY <2>4, <2>6 DEF UsersInv
<1>6. ASSUME NEW uid \in Clients, CalculateTestScore(uid)
      PROVE  UsersInv'
  <2>1. CASE <<testInformation, allTestResult>> \notin DOMAIN Chart
    <3>1. ProcessEnds
      BY <1>6, <2>1 DEF CalculateTestScore
    <3> QED
      BY <3>1 DEF ProcessEnds, UsersInv, RoundsAreTheUsers, ReadIsTheUsers, NoRounds
  <2>2. CASE <<testInformation, allTestResult>> \in DOMAIN Chart
    <3> DEFINE due == <<uid, {}>>
    <3>1. due \in Kinds /\ due[2] = {} /\ rounds \in [Kinds -> Nat]
      BY DEF Kinds, TypeOK
    <3>2. /\ rounds' = [rounds EXCEPT ![due] = @ - 1]
          /\ UNCHANGED <<testInformation, appeared, overlap>>
      BY <1>6, <2>2 DEF CalculateTestScore
    <3> HIDE DEF due
    <3>3. \A k \in Kinds : rounds'[k] = IF k = due THEN rounds[k] - 1 ELSE rounds[k]
      BY <3>1, <3>2
    <3>4. \A k \in Kinds : k[2] # {} => rounds'[k] = rounds[k]
      BY <3>1, <3>3
    <3>5. RoundsAreTheUsers'
      BY <1>1, <3>2, <3>4 DEF RoundsAreTheUsers
    <3>6. (\A k \in Kinds : rounds'[k] > 0 => "own" \notin k[2])
            => \A k \in Kinds : rounds[k] > 0 => "own" \notin k[2]
      BY <3>4
    <3>7. ReadIsTheUsers'
      BY <1>1, <3>2, <3>6 DEF ReadIsTheUsers
    <3> QED
      BY <3>5, <3>7 DEF UsersInv
  <2> QED
    BY <2>1, <2>2
<1>7. CASE UNCHANGED vars
  BY <1>1, <1>7 DEF vars, UsersInv, RoundsAreTheUsers, ReadIsTheUsers
<1> QED
  BY <1>2, <1>3, <1>4, <1>5, <1>6, <1>7 DEF Next, Answer, Notified

LEMMA UsersShown == ScreenInv /\ UsersInv => ShownIsTheUsers
<1> SUFFICES ASSUME ScreenInv, UsersInv, \A r \in Kinds : rounds[r] = 0, ~overlap, shown # Nil
             PROVE  shown.labels \in {appeared, NoUser}
  BY DEF ShownIsTheUsers
<1>1. Settled
  BY DEF Settled
<1>2. IsShown
  BY <1>1 DEF ScreenInv, ShownIsWhatWasRead
<1> DEFINE fields == <<testInformation, allTestResult>>
<1>3. fields \in DOMAIN Chart /\ shown = Chart[fields] /\ fields[1] = testInformation
  BY <1>2 DEF IsShown
<1> HIDE DEF fields
<1>4. shown.labels = Own(testInformation).of
  BY <1>3 DEF Chart
<1>5. testInformation = Nil \/ testInformation.of \in {appeared, NoUser}
  BY DEF UsersInv, ReadIsTheUsers
<1>6. testInformation = Nil => Own(testInformation).of = NoUser
  BY DEF Own, OrElse, DefaultTestScore
<1>7. testInformation # Nil => Own(testInformation) = testInformation
  BY DEF Own, OrElse
<1> QED
  BY <1>4, <1>5, <1>6, <1>7

\* When all is answered the screen is about the user of the last appearance or
\* nobody, unless reads for another were under way when that user came
\* (ProfileViewModel.swift:23-31, where a failed read replaces what was there).
THEOREM ProfileShowsTheUser == Spec => []ShownIsTheUsers
<1>1. TypeOK /\ TypeOK' /\ UsersInv /\ [Next]_vars => UsersInv'
  BY UsersStep
<1>2. Spec => Init /\ [][Next]_vars
  BY DEF Spec
<1>3. Spec => []UsersInv
  BY <1>1, <1>2, UsersInit, ProfileTypeOK, PTL
<1> QED
  BY <1>3, ProfileScreen, UsersShown, PTL

-------------------------------------------------------------------------------
\* Induction over a finite set without an operator: among its subsets that are
\* bad, if there are any, one has no smaller bad subset.
LEMMA SmallestSubset ==
  ASSUME NEW S, IsFiniteSet(S), NEW Bad \in SUBSET SUBSET S, Bad # {}
  PROVE  \E T \in Bad : IsFiniteSet(T) /\ \A U \in SUBSET T : U # T => U \notin Bad
<1>1. FiniteSubsetsOf(S) = SUBSET S
  BY FS_FiniteSubsetsOfFinite
<1>2. IsWellFoundedOn(StrictSubsetOrdering(S), SUBSET S)
  BY <1>1, FS_StrictSubsetOrderingWellFounded
<1>3. PICK T \in Bad : \A U \in Bad : <<U, T>> \notin StrictSubsetOrdering(S)
  BY <1>2, WFMin
<1>4. \A U \in SUBSET T : U # T => U \notin Bad
  BY <1>3 DEF StrictSubsetOrdering
<1>5. IsFiniteSet(T)
  BY FS_Subset
<1> QED
  BY <1>4, <1>5

Chosen(U) == CHOOSE x \in U : TRUE

LEMMA ChosenIsIn == \A U : U # {} => Chosen(U) \in U
BY DEF Chosen

\* g adds up f over every subset of S, one element after another.
Adds(g, f, S) ==
  g = [U \in SUBSET S |-> IF U = {} THEN 0 ELSE f[Chosen(U)] + g[U \ {Chosen(U)}]]

LEMMA SumIsAdded ==
  ASSUME NEW f, NEW S
  PROVE  SumFunctionOnSet(f, S) = (CHOOSE g : Adds(g, f, S))[S]
BY DEF SumFunctionOnSet, FoldFunctionOnSet, MapThenFoldSet, Adds, Chosen

LEMMA AddsAgree ==
  ASSUME NEW f, NEW S, IsFiniteSet(S), NEW T \in SUBSET S,
         NEW g, Adds(g, f, S), NEW h, Adds(h, f, T)
  PROVE  g[T] = h[T]
<1> DEFINE Bad == {U \in SUBSET T : g[U] # h[U]}
<1>1. IsFiniteSet(T)
  BY FS_Subset
<1>2. SUFFICES ASSUME Bad # {} PROVE FALSE
  OBVIOUS
<1>3. Bad \in SUBSET SUBSET T
  OBVIOUS
<1> HIDE DEF Bad
<1>4. PICK U \in Bad : \A V \in SUBSET U : V # U => V \notin Bad
  BY <1>1, <1>2, <1>3, SmallestSubset
<1>5. U \in SUBSET T /\ U \in SUBSET S /\ g[U] # h[U]
  BY <1>4 DEF Bad
<1>6. g[U] = (IF U = {} THEN 0 ELSE f[Chosen(U)] + g[U \ {Chosen(U)}])
  BY <1>5, Zenon DEF Adds
<1>7. h[U] = (IF U = {} THEN 0 ELSE f[Chosen(U)] + h[U \ {Chosen(U)}])
  BY <1>5, Zenon DEF Adds
<1>8. U # {}
  BY <1>5, <1>6, <1>7
<1>9. g[U \ {Chosen(U)}] = h[U \ {Chosen(U)}]
  BY <1>4, <1>5, <1>8, ChosenIsIn DEF Bad
<1> QED
  BY <1>5, <1>6, <1>7, <1>9

LEMMA AddsExists ==
  ASSUME NEW f, NEW S, IsFiniteSet(S)
  PROVE  \E g : Adds(g, f, S)
<1> DEFINE Bad == {T \in SUBSET S : ~\E g : Adds(g, f, T)}
           v == [U \in SUBSET S |-> (CHOOSE g : Adds(g, f, U))[U]]
<1>1. SUFFICES ASSUME Bad # {} PROVE FALSE
  OBVIOUS
<1>2. Bad \in SUBSET SUBSET S
  OBVIOUS
<1> HIDE DEF Bad
<1>3. PICK T \in Bad : IsFiniteSet(T) /\ \A U \in SUBSET T : U # T => U \notin Bad
  BY <1>1, <1>2, SmallestSubset
<1>4. T \in SUBSET S /\ ~\E g : Adds(g, f, T)
  BY <1>3 DEF Bad
<1>5. ASSUME NEW U \in SUBSET T, U # T
      PROVE  v[U] = IF U = {} THEN 0 ELSE f[Chosen(U)] + v[U \ {Chosen(U)}]
  <2> DEFINE g == CHOOSE g : Adds(g, f, U)
             W == U \ {Chosen(U)}
             h == CHOOSE h : Adds(h, f, W)
  <2>1. U \in SUBSET S /\ W \in SUBSET S /\ W \in SUBSET T /\ W \in SUBSET U
    BY <1>4
  <2>2. W # T
    BY <1>5
  <2>3. (\E k : Adds(k, f, U)) /\ (\E k : Adds(k, f, W))
    BY <1>3, <1>5, <2>1, <2>2 DEF Bad
  <2>4. Adds(g, f, U) /\ Adds(h, f, W)
    BY <2>3, Zenon
  <2>5. v[U] = g[U] /\ v[W] = h[W]
    BY <2>1, Zenon
  <2>6. g[U] = IF U = {} THEN 0 ELSE f[Chosen(U)] + g[W]
    <3> HIDE DEF g
    <3> QED
      BY <2>4, Zenon DEF Adds
  <2> HIDE DEF g, h, v
  <2>7. IsFiniteSet(U)
    BY <1>3, FS_Subset
  <2> HIDE DEF W
  <2>8. g[W] = h[W]
    BY <2>1, <2>4, <2>7, AddsAgree
  <2> QED
    BY <2>5, <2>6, <2>8 DEF W
<1> DEFINE G == [U \in SUBSET T |->
                   IF U = T THEN IF T = {} THEN 0 ELSE f[Chosen(T)] + v[T \ {Chosen(T)}]
                            ELSE v[U]]
<1>6. ASSUME NEW U \in SUBSET T
      PROVE  G[U] = IF U = {} THEN 0 ELSE f[Chosen(U)] + G[U \ {Chosen(U)}]
  <2> DEFINE W == U \ {Chosen(U)}
  <2>1. W \in SUBSET T
    OBVIOUS
  <2>2. U # {} => W # T
    BY ChosenIsIn
  <2> HIDE DEF v
  <2>3. U # {} => G[W] = v[W]
    BY <2>1, <2>2
  <2>4. U = T => G[U] = IF U = {} THEN 0 ELSE f[Chosen(U)] + v[W]
    OBVIOUS
  <2>5. U # T => G[U] = v[U]
    OBVIOUS
  <2> HIDE DEF G, W
  <2>6. U # T => G[U] = IF U = {} THEN 0 ELSE f[Chosen(U)] + v[W]
    BY <1>5, <2>5 DEF W
  <2>7. U = {} => G[U] = 0
    BY <2>4, <2>6
  <2>8. U # {} => G[U] = f[Chosen(U)] + G[W]
    BY <2>3, <2>4, <2>6
  <2> QED
    BY <2>7, <2>8 DEF W
<1>7. Adds(G, f, T)
  <2>1. G = [U \in SUBSET T |-> G[U]]
    OBVIOUS
  <2> HIDE DEF G
  <2>2. [U \in SUBSET T |-> G[U]] = [U \in SUBSET T |-> IF U = {} THEN 0 ELSE f[Chosen(U)] + G[U \ {Chosen(U)}]]
    BY <1>6, Zenon
  <2> QED
    BY <2>1, <2>2, Zenon DEF Adds
<1> QED
  BY <1>4, <1>7, Zenon

LEMMA SumOfNone == ASSUME NEW f PROVE SumFunctionOnSet(f, {}) = 0
<1> DEFINE g == CHOOSE g : Adds(g, f, {})
<1>1. SumFunctionOnSet(f, {}) = g[{}]
  BY SumIsAdded
<1>2. Adds(g, f, {})
  BY AddsExists, FS_EmptySet
<1> HIDE DEF g
<1>3. {} \in SUBSET {}
  OBVIOUS
<1> QED
  BY <1>1, <1>2, <1>3, Zenon DEF Adds

\* A sum is that of the chosen element and the others.
LEMMA SumPeels ==
  ASSUME NEW f, NEW S, IsFiniteSet(S), S # {}
  PROVE  SumFunctionOnSet(f, S) = f[Chosen(S)] + SumFunctionOnSet(f, S \ {Chosen(S)})
<1> DEFINE W == S \ {Chosen(S)}
           g == CHOOSE g : Adds(g, f, S)
           h == CHOOSE h : Adds(h, f, W)
<1>1. W \in SUBSET S /\ S \in SUBSET S
  OBVIOUS
<1>2. IsFiniteSet(W)
  BY <1>1, FS_Subset
<1>3. SumFunctionOnSet(f, S) = g[S] /\ SumFunctionOnSet(f, W) = h[W]
  BY SumIsAdded
<1>4. Adds(g, f, S) /\ Adds(h, f, W)
  <2> HIDE DEF W
  <2> QED
    BY <1>2, AddsExists
<1> HIDE DEF g, h
<1>5. g[S] = f[Chosen(S)] + g[W]
  BY <1>1, <1>4, Zenon DEF Adds
<1> HIDE DEF W
<1>6. g[W] = h[W]
  BY <1>1, <1>4, AddsAgree
<1> QED
  BY <1>3, <1>5, <1>6 DEF W

\* The sum of integers is one.
LEMMA SumIsInt ==
  ASSUME NEW f, NEW S, IsFiniteSet(S), \A x \in S : f[x] \in Int
  PROVE  SumFunctionOnSet(f, S) \in Int
<1> DEFINE Bad == {T \in SUBSET S : SumFunctionOnSet(f, T) \notin Int}
<1>1. SUFFICES ASSUME Bad # {} PROVE FALSE
  OBVIOUS
<1>2. Bad \in SUBSET SUBSET S
  OBVIOUS
<1> HIDE DEF Bad
<1>3. PICK T \in Bad : IsFiniteSet(T) /\ \A U \in SUBSET T : U # T => U \notin Bad
  BY <1>1, <1>2, SmallestSubset
<1>4. T \in SUBSET S /\ SumFunctionOnSet(f, T) \notin Int
  BY <1>3 DEF Bad
<1>5. T # {}
  BY <1>4, SumOfNone
<1>6. SumFunctionOnSet(f, T) = f[Chosen(T)] + SumFunctionOnSet(f, T \ {Chosen(T)})
  BY <1>3, <1>5, SumPeels
<1>7. Chosen(T) \in T
  BY <1>5, ChosenIsIn
<1>8. SumFunctionOnSet(f, T \ {Chosen(T)}) \in Int
  BY <1>3, <1>4, <1>7 DEF Bad
<1> QED
  BY <1>4, <1>6, <1>7, <1>8

\* It does not depend on the order: any element may be taken out first.
LEMMA SumTakesOut ==
  ASSUME NEW f, NEW S, IsFiniteSet(S), \A x \in S : f[x] \in Int, NEW a \in S
  PROVE  SumFunctionOnSet(f, S) = f[a] + SumFunctionOnSet(f, S \ {a})
<1> DEFINE Sum(T) == SumFunctionOnSet(f, T)
           Bad == {T \in SUBSET S : \E x \in T : Sum(T) # f[x] + Sum(T \ {x})}
<1>1. SUFFICES ASSUME Bad # {} PROVE FALSE
  OBVIOUS
<1>2. Bad \in SUBSET SUBSET S
  OBVIOUS
<1> HIDE DEF Bad
<1>3. PICK T \in Bad : IsFiniteSet(T) /\ \A U \in SUBSET T : U # T => U \notin Bad
  BY <1>1, <1>2, SmallestSubset
<1>4. PICK x \in T : Sum(T) # f[x] + Sum(T \ {x})
  BY <1>3 DEF Bad
<1>5. T \in SUBSET S
  BY <1>3 DEF Bad
<1> DEFINE c == Chosen(T)
           R == T \ {c, x}
<1>6. c \in T
  BY ChosenIsIn
<1>7. Sum(T) = f[c] + Sum(T \ {c})
  BY <1>3, SumPeels
<1>8. c # x
  BY <1>4, <1>7
<1> HIDE DEF c
<1>9. Sum(T \ {c}) = f[x] + Sum((T \ {c}) \ {x})
  BY <1>3, <1>5, <1>6, <1>8 DEF Bad
<1>10. Sum(T \ {x}) = f[c] + Sum((T \ {x}) \ {c})
  BY <1>3, <1>5, <1>6, <1>8 DEF Bad
<1>11. (T \ {c}) \ {x} = R /\ (T \ {x}) \ {c} = R
  OBVIOUS
<1>12. IsFiniteSet(R) /\ \A y \in R : f[y] \in Int
  BY <1>3, <1>5, FS_Subset
<1>13. Sum(R) \in Int
  <2> HIDE DEF R
  <2> QED
    BY <1>12, SumIsInt
<1>14. f[c] \in Int /\ f[x] \in Int
  BY <1>5, <1>6
<1> HIDE DEF R, Sum
<1> QED
  BY <1>4, <1>7, <1>9, <1>10, <1>11, <1>13, <1>14

\* Functions with the same values have the same sum.
LEMMA SumIsOfValues ==
  ASSUME NEW f, NEW g, NEW S, IsFiniteSet(S), \A x \in S : f[x] = g[x]
  PROVE  SumFunctionOnSet(f, S) = SumFunctionOnSet(g, S)
<1> DEFINE Bad == {T \in SUBSET S : SumFunctionOnSet(f, T) # SumFunctionOnSet(g, T)}
<1>1. SUFFICES ASSUME Bad # {} PROVE FALSE
  OBVIOUS
<1>2. Bad \in SUBSET SUBSET S
  OBVIOUS
<1> HIDE DEF Bad
<1>3. PICK T \in Bad : IsFiniteSet(T) /\ \A U \in SUBSET T : U # T => U \notin Bad
  BY <1>1, <1>2, SmallestSubset
<1>4. T \in SUBSET S /\ SumFunctionOnSet(f, T) # SumFunctionOnSet(g, T)
  BY <1>3 DEF Bad
<1>5. T # {}
  BY <1>4, SumOfNone
<1> DEFINE W == T \ {Chosen(T)}
<1>6. /\ SumFunctionOnSet(f, T) = f[Chosen(T)] + SumFunctionOnSet(f, W)
      /\ SumFunctionOnSet(g, T) = g[Chosen(T)] + SumFunctionOnSet(g, W)
  BY <1>3, <1>5, SumPeels
<1>7. Chosen(T) \in T
  BY <1>5, ChosenIsIn
<1>8. SumFunctionOnSet(f, W) = SumFunctionOnSet(g, W)
  BY <1>3, <1>4, <1>7 DEF Bad
<1> QED
  BY <1>4, <1>6, <1>7, <1>8

\* The sum over two sets that do not meet is that of their sums.
LEMMA SumOfUnion ==
  ASSUME NEW f, NEW S, IsFiniteSet(S), \A x \in S : f[x] \in Int,
         NEW A \in SUBSET S, NEW B \in SUBSET S, A \cap B = {}
  PROVE  SumFunctionOnSet(f, A \cup B) = SumFunctionOnSet(f, A) + SumFunctionOnSet(f, B)
<1> DEFINE Sum(T) == SumFunctionOnSet(f, T)
           Bad == {T \in SUBSET A : Sum(T \cup B) # Sum(T) + Sum(B)}
<1>0. IsFiniteSet(A)
  BY FS_Subset
<1>1. SUFFICES ASSUME Bad # {} PROVE FALSE
  OBVIOUS
<1>2. Bad \in SUBSET SUBSET A
  OBVIOUS
<1> HIDE DEF Bad
<1>3. PICK T \in Bad : IsFiniteSet(T) /\ \A U \in SUBSET T : U # T => U \notin Bad
  BY <1>0, <1>1, <1>2, SmallestSubset
<1>4. T \in SUBSET A /\ Sum(T \cup B) # Sum(T) + Sum(B)
  BY <1>3 DEF Bad
<1>5. Sum(B) \in Int
  BY FS_Subset, SumIsInt
<1>6. T # {}
  <2>1. T = {} => Sum(T) = 0 /\ T \cup B = B
    BY SumOfNone, Zenon
  <2> HIDE DEF Sum
  <2>2. T = {} => Sum(T \cup B) = Sum(B)
    BY <2>1, Zenon
  <2> QED
    BY <1>4, <1>5, <2>1, <2>2
<1>7. PICK a \in T : TRUE
  BY <1>6
<1> DEFINE W == T \ {a}
<1>8. Sum(T) = f[a] + Sum(W)
  BY <1>3, <1>4, SumTakesOut
<1>9. Sum(T \cup B) = f[a] + Sum(W \cup B)
  <2>1. IsFiniteSet(T \cup B) /\ \A y \in T \cup B : f[y] \in Int
    <3>1. T \cup B \in SUBSET S
      BY <1>4
    <3> QED
      BY <3>1, FS_Subset
  <2>2. a \in T \cup B /\ (T \cup B) \ {a} = W \cup B
    BY <1>4
  <2> QED
    BY <2>1, <2>2, SumTakesOut
<1>10. Sum(W \cup B) = Sum(W) + Sum(B)
  BY <1>3, <1>4 DEF Bad
<1>11. Sum(W) \in Int /\ f[a] \in Int
  <2>1. W \in SUBSET S
    BY <1>4
  <2>2. IsFiniteSet(W) /\ \A y \in W : f[y] \in Int
    BY <2>1, FS_Subset
  <2> HIDE DEF W
  <2> QED
    BY <1>4, <2>2, SumIsInt
<1> HIDE DEF Sum, W
<1> QED
  BY <1>4, <1>5, <1>8, <1>9, <1>10, <1>11

\* The sums of two functions are the sum of both.
LEMMA SumOfBoth ==
  ASSUME NEW f, NEW g, NEW h, NEW S, IsFiniteSet(S),
         \A x \in S : f[x] \in Int /\ g[x] \in Int /\ h[x] = f[x] + g[x]
  PROVE  SumFunctionOnSet(h, S) = SumFunctionOnSet(f, S) + SumFunctionOnSet(g, S)
<1> DEFINE F(T) == SumFunctionOnSet(f, T)
           G(T) == SumFunctionOnSet(g, T)
           H(T) == SumFunctionOnSet(h, T)
           Bad == {T \in SUBSET S : H(T) # F(T) + G(T)}
<1>1. SUFFICES ASSUME Bad # {} PROVE FALSE
  OBVIOUS
<1>2. Bad \in SUBSET SUBSET S
  OBVIOUS
<1> HIDE DEF Bad
<1>3. PICK T \in Bad : IsFiniteSet(T) /\ \A U \in SUBSET T : U # T => U \notin Bad
  BY <1>1, <1>2, SmallestSubset
<1>4. T \in SUBSET S /\ H(T) # F(T) + G(T)
  BY <1>3 DEF Bad
<1>5. T # {}
  <2>1. T = {} => F(T) = 0 /\ G(T) = 0 /\ H(T) = 0
    BY SumOfNone, Zenon
  <2> HIDE DEF F, G, H
  <2> QED
    BY <1>4, <2>1
<1> DEFINE c == Chosen(T)
           W == T \ {c}
<1>6. F(T) = f[c] + F(W) /\ G(T) = g[c] + G(W) /\ H(T) = h[c] + H(W)
  BY <1>3, <1>5, SumPeels
<1>7. c \in T
  BY <1>5, ChosenIsIn
<1> HIDE DEF c
<1>8. H(W) = F(W) + G(W)
  BY <1>3, <1>4, <1>7 DEF Bad
<1>9. F(W) \in Int /\ G(W) \in Int
  <2>1. IsFiniteSet(W) /\ \A y \in W : f[y] \in Int /\ g[y] \in Int
    BY <1>3, <1>4, FS_Subset
  <2> HIDE DEF W
  <2> QED
    BY <2>1, SumIsInt
<1>10. f[c] \in Int /\ g[c] \in Int /\ h[c] = f[c] + g[c]
  BY <1>4, <1>7
<1> HIDE DEF F, G, H, W
<1> QED
  BY <1>4, <1>6, <1>8, <1>9, <1>10

-------------------------------------------------------------------------------
\* The answers of a test by place, and those at some places added up.
Places == 0..14
At(t, P) == SumFunctionOnSet([i \in Places |-> t[i + 1]], P)

\* Tests that are long enough for the calculation.
Tests == {t \in Seq(Int) : Len(t) >= TestLength}

LEMMA PlacesAreFinite == IsFiniteSet(Places) /\ \A P \in SUBSET Places : IsFiniteSet(P)
<1>1. IsFiniteSet(Places)
  <2>1. 0 \in Int /\ 14 \in Int
    OBVIOUS
  <2> QED
    BY <2>1, FS_Interval, Zenon DEF Places
<1>2. ASSUME NEW P \in SUBSET Places PROVE IsFiniteSet(P)
  BY <1>1, FS_Subset
<1> QED
  BY <1>1, <1>2

LEMMA AtIsInt ==
  ASSUME NEW t \in Tests, NEW P \in SUBSET Places
  PROVE  At(t, P) \in Int /\ SumFunction([i \in P |-> t[i + 1]]) = At(t, P)
<1> DEFINE f == [i \in Places |-> t[i + 1]]
           g == [i \in P |-> t[i + 1]]
<1>1. \A i \in Places : i + 1 \in 1..Len(t) /\ t[i + 1] \in Int
  BY DEF Places, Tests, TestLength
<1>2. IsFiniteSet(P) /\ (\A i \in P : f[i] \in Int) /\ \A i \in P : g[i] = f[i]
  BY <1>1, PlacesAreFinite
<1>3. SumFunction(g) = SumFunctionOnSet(g, P)
  BY DEF SumFunction
<1> HIDE DEF f, g
<1>4. SumFunctionOnSet(f, P) \in Int /\ SumFunctionOnSet(g, P) = SumFunctionOnSet(f, P)
  BY <1>2, SumIsInt, SumIsOfValues
<1> QED
  BY <1>3, <1>4 DEF At, f, g

LEMMA AtSplits ==
  ASSUME NEW t \in Tests, NEW P \in SUBSET Places, NEW Q \in SUBSET Places, P \cap Q = {}
  PROVE  At(t, P \cup Q) = At(t, P) + At(t, Q)
<1> DEFINE f == [i \in Places |-> t[i + 1]]
<1>1. \A i \in Places : f[i] \in Int
  BY DEF Places, Tests, TestLength
<1>2. IsFiniteSet(Places)
  BY PlacesAreFinite
<1> HIDE DEF f
<1> QED
  BY <1>1, <1>2, SumOfUnion DEF At, f

\* Every place is in one category, in the profile as in the upload.
LEMMA PlacesArePartitioned ==
  /\ \A c \in 1..3 : UserPlaces[c] \in SUBSET Places /\ UploadPlaces[c] \in SUBSET Places
  /\ UserPlaces[1] \cap UserPlaces[2] = {} /\ (UserPlaces[1] \cup UserPlaces[2]) \cap UserPlaces[3] = {}
  /\ UploadPlaces[1] \cap UploadPlaces[2] = {} /\ (UploadPlaces[1] \cup UploadPlaces[2]) \cap UploadPlaces[3] = {}
  /\ (UserPlaces[1] \cup UserPlaces[2]) \cup UserPlaces[3] = Places
  /\ (UploadPlaces[1] \cup UploadPlaces[2]) \cup UploadPlaces[3] = Places
BY DEF UserPlaces, UploadPlaces, Places

\* The total of some tests is that of what each has at the places.
LEMMA TotalIsOfEach ==
  ASSUME NEW tests \in Seq(Tests), NEW P \in SUBSET Places
  PROVE  Total(tests, P) = SumFunctionOnSet([k \in DOMAIN tests |-> At(tests[k], P)], DOMAIN tests)
<1> DEFINE f == [k \in DOMAIN tests |-> SumFunction([i \in P |-> tests[k][i + 1]])]
           g == [k \in DOMAIN tests |-> At(tests[k], P)]
<1>1. \A k \in DOMAIN tests : f[k] = g[k]
  BY AtIsInt
<1>2. f = g
  BY <1>1
<1>3. Total(tests, P) = SumFunctionOnSet(f, DOMAIN f) /\ DOMAIN f = DOMAIN tests
  BY DEF Total, SumFunction
<1> QED
  BY <1>2, <1>3

LEMMA TestsAreFinite == ASSUME NEW tests \in Seq(Tests) PROVE IsFiniteSet(DOMAIN tests)
BY FS_Interval

LEMMA TotalSplits ==
  ASSUME NEW tests \in Seq(Tests), NEW P \in SUBSET Places, NEW Q \in SUBSET Places, P \cap Q = {}
  PROVE  Total(tests, P \cup Q) = Total(tests, P) + Total(tests, Q)
<1> DEFINE D == DOMAIN tests
           f == [k \in D |-> At(tests[k], P)]
           g == [k \in D |-> At(tests[k], Q)]
           h == [k \in D |-> At(tests[k], P \cup Q)]
<1>1. \A k \in D : f[k] \in Int /\ g[k] \in Int /\ h[k] = f[k] + g[k]
  <2> SUFFICES ASSUME NEW k \in D PROVE f[k] \in Int /\ g[k] \in Int /\ h[k] = f[k] + g[k]
    OBVIOUS
  <2>1. tests[k] \in Tests
    OBVIOUS
  <2>2. At(tests[k], P) \in Int /\ At(tests[k], Q) \in Int
    BY <2>1, AtIsInt
  <2>3. At(tests[k], P \cup Q) = At(tests[k], P) + At(tests[k], Q)
    BY <2>1, AtSplits
  <2> QED
    BY <2>2, <2>3
<1>2. IsFiniteSet(D)
  BY TestsAreFinite
<1>3. Total(tests, P) = SumFunctionOnSet(f, D) /\ Total(tests, Q) = SumFunctionOnSet(g, D)
  BY TotalIsOfEach
<1>4. Total(tests, P \cup Q) = SumFunctionOnSet(h, D)
  BY TotalIsOfEach
<1> HIDE DEF f, g, h, D
<1> QED
  BY <1>1, <1>2, <1>3, <1>4, SumOfBoth

\* The total of a single test.
LEMMA TotalOfOne ==
  ASSUME NEW t \in Tests, NEW P \in SUBSET Places
  PROVE  Total(<<t>>, P) = At(t, P)
<1> DEFINE f == [k \in DOMAIN <<t>> |-> At(<<t>>[k], P)]
<1>1. <<t>> \in Seq(Tests) /\ DOMAIN <<t>> = {1} /\ f[1] = At(t, P)
  OBVIOUS
<1>2. Total(<<t>>, P) = SumFunctionOnSet(f, {1})
  BY <1>1, TotalIsOfEach
<1>3. IsFiniteSet({1}) /\ (\A x \in {1} : f[x] \in Int) /\ {1} \ {1} = {}
  BY <1>1, AtIsInt, FS_Singleton
<1> HIDE DEF f
<1>4. SumFunctionOnSet(f, {1}) = f[1] + SumFunctionOnSet(f, {})
  BY <1>3, SumTakesOut
<1>5. f[1] \in Int
  BY <1>3
<1> QED
  BY <1>1, <1>2, <1>4, <1>5, SumOfNone

\* Three categories that share the places out between them count every answer.
LEMMA CategoriesAddUp ==
  ASSUME NEW tests \in Seq(Tests),
         NEW A \in SUBSET Places, NEW B \in SUBSET Places, NEW C \in SUBSET Places,
         A \cap B = {}, (A \cup B) \cap C = {}, (A \cup B) \cup C = Places
  PROVE  Total(tests, A) + Total(tests, B) + Total(tests, C) = Total(tests, Places)
<1>1. Total(tests, A \cup B) = Total(tests, A) + Total(tests, B)
  BY TotalSplits
<1>2. A \cup B \in SUBSET Places
  OBVIOUS
<1>3. Total(tests, (A \cup B) \cup C) = Total(tests, A \cup B) + Total(tests, C)
  BY <1>2, TotalSplits
<1> QED
  BY <1>1, <1>3, Zenon

\* What uploadData stores of each of the tests adds up to all their answers.
LEMMA UploadAddsUp ==
  ASSUME NEW tests \in Seq(Tests)
  PROVE  SumFunction([k \in DOMAIN tests |->
           UploadSums(tests[k])[1] + UploadSums(tests[k])[2] + UploadSums(tests[k])[3]])
         = Total(tests, Places)
<1> DEFINE D == DOMAIN tests
           f == [k \in D |-> UploadSums(tests[k])[1] + UploadSums(tests[k])[2] + UploadSums(tests[k])[3]]
           g == [k \in D |-> At(tests[k], Places)]
<1>1. ASSUME NEW k \in D PROVE f[k] = g[k]
  <2> DEFINE t == tests[k]
  <2>1. t \in Tests /\ <<t>> \in Seq(Tests)
    OBVIOUS
  <2> HIDE DEF t
  <2>2. \A c \in 1..3 : UploadSums(t)[c] = Total(<<t>>, UploadPlaces[c])
    BY DEF UploadSums, Categories
  <2>3. Total(<<t>>, UploadPlaces[1]) + Total(<<t>>, UploadPlaces[2]) + Total(<<t>>, UploadPlaces[3])
          = Total(<<t>>, Places)
    <3> DEFINE A == UploadPlaces[1]
               B == UploadPlaces[2]
               C == UploadPlaces[3]
    <3>1. /\ A \in SUBSET Places /\ B \in SUBSET Places /\ C \in SUBSET Places
          /\ A \cap B = {} /\ (A \cup B) \cap C = {} /\ (A \cup B) \cup C = Places
      BY PlacesArePartitioned
    <3> DEFINE one == <<t>>
    <3>2. one \in Seq(Tests)
      BY <2>1
    <3> HIDE DEF A, B, C, one
    <3>3. Total(one, A) + Total(one, B) + Total(one, C) = Total(one, Places)
      BY <3>1, <3>2, CategoriesAddUp
    <3> QED
      BY <3>3 DEF A, B, C, one
  <2>4. Total(<<t>>, Places) = At(t, Places)
    BY <2>1, TotalOfOne
  <2> QED
    BY <2>2, <2>3, <2>4 DEF t
<1>2. f = g
  BY <1>1
<1>3. SumFunction(f) = SumFunctionOnSet(f, D)
  BY DEF SumFunction
<1>4. Total(tests, Places) = SumFunctionOnSet(g, D)
  BY TotalIsOfEach
<1> QED
  BY <1>2, <1>3, <1>4

-------------------------------------------------------------------------------
\* The bars that the calculation draws of two fields.
LEMMA BarsAreAverages ==
  ASSUME IsShown
  PROVE  LET user == CalculateUserAverageScore(Own(testInformation).tests)
             all == CalculateAllUserAverageScore(All(allTestResult))
         IN shown.bars = <<user[1], all[1], user[2], all[2], user[3], all[3]>>
<1> DEFINE fields == <<testInformation, allTestResult>>
           user == CalculateUserAverageScore(Own(testInformation).tests)
           all == CalculateAllUserAverageScore(All(allTestResult))
           list == user \o all
<1>1. fields \in DOMAIN Chart /\ shown = Chart[fields]
      /\ fields[1] = testInformation /\ fields[2] = allTestResult
  BY DEF IsShown
<1> HIDE DEF fields
<1>2. shown.bars = Bars(AverageTestScore(list))
  BY <1>1 DEF Chart
<1> DEFINE Values == {user[c] : c \in 1..3} \cup {all[c] : c \in 1..3}
<1>3. user \in [1..3 -> Values] /\ all \in [1..3 -> Values]
  BY DEF CalculateUserAverageScore, CalculateAllUserAverageScore, Averages, Categories
<1> HIDE DEF user, all, Values
<1>4. Len(user) = 3 /\ Len(all) = 3 /\ user \in Seq(Values) /\ all \in Seq(Values)
  <2>1. 3 \in Nat
    OBVIOUS
  <2>2. user \in Seq(Values) /\ all \in Seq(Values)
    <3>1. user \in UNION {[1..n -> Values] : n \in Nat} /\ all \in UNION {[1..n -> Values] : n \in Nat}
      BY <1>3, <2>1, Zenon
    <3> QED
      BY <3>1, SeqDef, Zenon
  <2> QED
    BY <1>3, <2>2, LenProperties
<1>5. list[1] = user[1] /\ list[2] = user[2] /\ list[3] = user[3]
      /\ list[4] = all[1] /\ list[5] = all[2] /\ list[6] = all[3]
  <2>1. \A i \in 1..Len(user) + Len(all) : list[i] = IF i <= Len(user) THEN user[i] ELSE all[i - Len(user)]
    BY <1>4, ConcatProperties
  <2> HIDE DEF list
  <2>2. \A i \in 1..6 : list[i] = IF i <= 3 THEN user[i] ELSE all[i - 3]
    BY <1>4, <2>1
  <2> QED
    BY <2>2
<1> QED
  BY <1>2, <1>5 DEF Bars, AverageTestScore, user, all

\* The default is a list of one test.
LEMMA DefaultsAreTests == DefaultTests \in Seq(Seq(Int))
<1> DEFINE zeros == [i \in 1..TestLength |-> 0]
<1>1. zeros \in [1..15 -> Int] /\ 15 \in Nat
  BY DEF TestLength
<1>2. zeros \in UNION {[1..n -> Int] : n \in Nat}
  BY <1>1, Zenon
<1>3. zeros \in Seq(Int)
  BY <1>2, SeqDef, Zenon
<1> HIDE DEF zeros
<1>4. <<zeros>> \in Seq(Seq(Int))
  BY <1>3
<1> QED
  BY <1>4 DEF DefaultTests, zeros

\* What the fields can have is lists of tests, and in a chart long enough ones.
LEMMA FieldsAreTests ==
  ASSUME TypeOK
  PROVE  /\ Own(testInformation).tests \in Seq(Seq(Int))
         /\ All(allTestResult) \in Seq(Seq(Int))
         /\ testInformation # Nil => Own(testInformation) = testInformation /\ testInformation.tests # Nil
         /\ allTestResult # Nil => All(allTestResult) = allTestResult
<1>1. DefaultTests \in Seq(Seq(Int))
  BY DefaultsAreTests
<1> DEFINE TestLists == Seq(Seq(Int))
<1>2. Documents \subseteq TestLists /\ AllDocuments \subseteq TestLists
  BY DocumentsAssumption
<1>3. testInformation = Nil \/ testInformation.tests \in Documents \cup {DefaultTests}
  BY DEF TypeOK, Information, DefaultTestScore
<1>4. allTestResult = Nil \/ allTestResult \in AllDocuments \cup {DefaultTests}
  BY DEF TypeOK, AllResults
<1>5. Own(Nil).tests = DefaultTests /\ All(Nil) = DefaultTests
  BY DEF Own, All, OrElse, DefaultTestScore
<1>6. testInformation # Nil => Own(testInformation) = testInformation
  BY DEF Own, OrElse
<1>7. allTestResult # Nil => All(allTestResult) = allTestResult
  BY DEF All, OrElse
<1>8. DefaultTests \in TestLists
  BY <1>1
<1> HIDE DEF TestLists
<1>9. Own(testInformation).tests \in TestLists
  BY <1>2, <1>3, <1>5, <1>6, <1>8
<1>10. All(allTestResult) \in TestLists
  BY <1>2, <1>4, <1>5, <1>7, <1>8
<1>11. testInformation # Nil => testInformation.tests # Nil
  BY <1>3, NilAssumption
<1> QED
  BY <1>6, <1>7, <1>9, <1>10, <1>11 DEF TestLists

LEMMA ShownIsLongEnough ==
  ASSUME TypeOK, IsShown
  PROVE  Own(testInformation).tests \in Seq(Tests)
<1> DEFINE own == Own(testInformation).tests
           all == All(allTestResult)
           fields == <<testInformation, allTestResult>>
<1>1. own \in Seq(Seq(Int)) /\ all \in Seq(Seq(Int))
  BY FieldsAreTests
<1>2. ~ReadsPastEnd(own \o all)
  <2>1. fields \in DOMAIN Chart /\ fields[1] = testInformation /\ fields[2] = allTestResult
    BY DEF IsShown
  <2> HIDE DEF fields
  <2> QED
    BY <2>1 DEF Chart
<1> HIDE DEF own, all
<1>3. \A k \in 1..Len(own) : own[k] \in Seq(Int) /\ own[k] = (own \o all)[k] /\ k \in DOMAIN (own \o all)
  BY <1>1
<1>4. \A k \in 1..Len(own) : Len((own \o all)[k]) \in Nat /\ ~(Len((own \o all)[k]) < TestLength)
  BY <1>2, <1>3, LenProperties DEF ReadsPastEnd
<1>5. \A k \in 1..Len(own) : own[k] \in Tests
  BY <1>3, <1>4 DEF Tests, TestLength
<1>6. own \in [1..Len(own) -> Tests] /\ Len(own) \in Nat
  BY <1>1, <1>5, LenProperties
<1>7. own \in UNION {[1..n -> Tests] : n \in Nat}
  BY <1>6, Zenon
<1>8. own \in Seq(Tests)
  BY <1>7, SeqDef, Zenon
<1> QED
  BY <1>8 DEF own

LEMMA ScreenSameBars == TypeOK => SameTestsSameBars
<1> SUFFICES ASSUME TypeOK, IsShown, testInformation # Nil, testInformation.tests = allTestResult,
                    NEW c \in Categories
             PROVE  shown.bars[2 * c - 1] = shown.bars[2 * c]
  BY DEF SameTestsSameBars
<1> DEFINE user == CalculateUserAverageScore(Own(testInformation).tests)
           all == CalculateAllUserAverageScore(All(allTestResult))
<1>1. shown.bars = <<user[1], all[1], user[2], all[2], user[3], all[3]>>
  BY BarsAreAverages
<1>2. Own(testInformation).tests = All(allTestResult)
  BY FieldsAreTests
<1>3. user = all
  BY <1>2 DEF CalculateUserAverageScore, CalculateAllUserAverageScore, UserPlaces, AllUserPlaces
<1> HIDE DEF user, all
<1>4. c \in {1, 2, 3}
  BY DEF Categories
<1> QED
  BY <1>1, <1>3, <1>4

LEMMA ScreenAnswersCount == TypeOK => EveryAnswerCounts
<1> DEFINE tests == testInformation.tests
           user == CalculateUserAverageScore(tests)
           all == CalculateAllUserAverageScore(All(allTestResult))
           sums == [c \in Categories |-> shown.bars[2 * c - 1].sum]
           stored == [k \in DOMAIN tests |->
                        UploadSums(tests[k])[1] + UploadSums(tests[k])[2] + UploadSums(tests[k])[3]]
<1> SUFFICES ASSUME TypeOK, IsShown, testInformation # Nil
             PROVE  /\ sums[1] + sums[2] + sums[3] = Total(tests, 0..14)
                    /\ SumFunction(stored) = Total(tests, 0..14)
  BY Zenon DEF EveryAnswerCounts
<1>1. Own(testInformation) = testInformation
  BY FieldsAreTests
<1>2. tests \in Seq(Tests)
  BY <1>1, ShownIsLongEnough
<1>3. shown.bars = <<user[1], all[1], user[2], all[2], user[3], all[3]>>
  BY <1>1, BarsAreAverages
<1> HIDE DEF tests
<1>4. \A c \in 1..3 : user[c].sum = Total(tests, UserPlaces[c])
  BY DEF CalculateUserAverageScore, Averages, Categories
<1> HIDE DEF user, all
<1>5. sums[1] = user[1].sum /\ sums[2] = user[2].sum /\ sums[3] = user[3].sum
  BY <1>3 DEF Categories
<1> HIDE DEF sums
<1>6. Total(tests, UserPlaces[1]) + Total(tests, UserPlaces[2]) + Total(tests, UserPlaces[3]) = Total(tests, Places)
  <2> DEFINE A == UserPlaces[1]
             B == UserPlaces[2]
             C == UserPlaces[3]
  <2>1. /\ A \in SUBSET Places /\ B \in SUBSET Places /\ C \in SUBSET Places
        /\ A \cap B = {} /\ (A \cup B) \cap C = {} /\ (A \cup B) \cup C = Places
    BY PlacesArePartitioned
  <2> HIDE DEF A, B, C
  <2>2. Total(tests, A) + Total(tests, B) + Total(tests, C) = Total(tests, Places)
    BY <1>2, <2>1, CategoriesAddUp
  <2> QED
    BY <2>2 DEF A, B, C
<1>7. sums[1] + sums[2] + sums[3] = Total(tests, Places)
  BY <1>4, <1>5, <1>6
<1>8. SumFunction(stored) = Total(tests, Places)
  BY <1>2, UploadAddsUp
<1> HIDE DEF stored
<1>9. Total(tests, Places) = Total(tests, 0..14)
  BY DEF Places
<1> QED
  BY <1>7, <1>8, <1>9

\* Two copies of the loop and the switch, a list of six averages and six bars:
\* when the user's tests are all the tests there are, each pair of bars is of the
\* same height (ProfileViewModel.swift:92-148).
THEOREM ProfileSameTestsSameBars == Spec => []SameTestsSameBars
BY ProfileTypeOK, ScreenSameBars, PTL

\* Whatever the answers are, the user's three bars count each of them once, and
\* so do the three sums that uploadData stores of each test: the two disagree on
\* the category of an answer and on no more.
THEOREM ProfileEveryAnswerCounts == Spec => []EveryAnswerCounts
BY ProfileTypeOK, ScreenAnswersCount, PTL

-------------------------------------------------------------------------------
\* The indicator turns only while a round is under way whose calculation stops it,
\* and a round only while the process runs.
SpinnerHasARound ==
  /\ spinning => \E r \in Kinds : rounds[r] > 0
  /\ (\E r \in Kinds : rounds[r] > 0) => running

LEMMA SpinnerInit == Init => SpinnerHasARound
BY DEF Init, NoRounds, SpinnerHasARound

LEMMA SpinnerStep == TypeOK /\ SpinnerHasARound /\ [Next]_vars => SpinnerHasARound'
<1> SUFFICES ASSUME TypeOK, SpinnerHasARound, [Next]_vars PROVE SpinnerHasARound'
  OBVIOUS
<1>1. CASE Launch
  BY <1>1 DEF Launch, SpinnerHasARound
<1>2. ASSUME NEW first \in Clients, NEW uid \in Clients, Appear(first, uid)
      PROVE  SpinnerHasARound'
  <2>1. <<uid, Reads>> \in Kinds /\ rounds'[<<uid, Reads>>] > 0
    BY <1>2, AppearStarts, Zenon
  <2>2. running'
    BY <1>2 DEF Appear
  <2> QED
    BY <2>1, <2>2, Zenon DEF SpinnerHasARound
<1>3. ASSUME NEW r \in Kinds, NEW read \in r[2], rounds[r] > 0, Leave(r, read), UNCHANGED running
      PROVE  SpinnerHasARound'
  <2>1. <<r[1], r[2] \ {read}>> \in Kinds /\ rounds'[<<r[1], r[2] \ {read}>>] > 0
    BY <1>3, LeaveMoves, Zenon
  <2>2. running'
    BY <1>3, Zenon DEF SpinnerHasARound
  <2> QED
    BY <2>1, <2>2, Zenon DEF SpinnerHasARound
<1>4. ASSUME NEW uid \in Clients, CalculateTestScore(uid)
      PROVE  SpinnerHasARound'
  <2>1. CASE <<testInformation, allTestResult>> \notin DOMAIN Chart
    BY <1>4, <2>1 DEF CalculateTestScore, ProcessEnds, NoRounds, SpinnerHasARound
  <2>2. CASE <<testInformation, allTestResult>> \in DOMAIN Chart
    <3>1. spinning' = FALSE /\ UNCHANGED running
      BY <1>4, <2>2 DEF CalculateTestScore
    <3>2. <<uid, {}>> \in Kinds /\ rounds[<<uid, {}>>] > 0
      BY <1>4 DEF CalculateTestScore, Kinds
    <3> QED
      BY <3>1, <3>2, Zenon DEF SpinnerHasARound
  <2> QED
    BY <2>1, <2>2
<1>5. CASE UNCHANGED vars
  BY <1>5 DEF vars, SpinnerHasARound
<1> QED
  BY <1>1, <1>2, <1>3, <1>4, <1>5, Zenon DEF Next, Answer, Notified, OwnAnswered, AllAnswered

\* What the liveness of the indicator rests on: it never turns without a round
\* that is still to be calculated, which is what stops it (ProfileViewModel.swift:43-45).
THEOREM ProfileSpinnerHasARound == Spec => []SpinnerHasARound
<1>1. Spec => Init /\ [][Next]_vars
  BY DEF Spec
<1> QED
  BY <1>1, SpinnerInit, SpinnerStep, ProfileTypeOK, PTL

\* A document with an entry that has no answers, as a registration writes it.
HasEmptyEntry(d) == \E k \in DOMAIN d : d[k] = <<>>

\* With such an entry in every document there is no chart but of nobody's tests.
LEMMA OnlyDefaultsAreDrawn ==
  ASSUME \A d \in Documents : HasEmptyEntry(d), NEW f \in DOMAIN Chart
  PROVE  f[1] \in {Nil, DefaultTestScore}
<1> SUFFICES ASSUME f[1] \notin {Nil, DefaultTestScore} PROVE FALSE
  OBVIOUS
<1> DEFINE own == Own(f[1]).tests
           all == All(f[2])
<1>1. f[1] \in Information /\ f[2] \in AllResults /\ ~ReadsPastEnd(own \o all)
  BY DEF Chart
<1>2. f[1] \in [of : Users, tests : Documents]
  BY <1>1 DEF Information
<1>3. own \in Documents
  BY <1>2 DEF Own, OrElse
<1>4. own \in Seq(Seq(Int)) /\ all \in Seq(Seq(Int))
  BY <1>1, <1>3, DefaultsAreTests, DocumentsAssumption DEF AllResults, All, OrElse
<1> HIDE DEF own, all
<1>5. PICK k \in DOMAIN own : own[k] = <<>>
  BY <1>3 DEF HasEmptyEntry
<1>6. k \in DOMAIN (own \o all) /\ (own \o all)[k] = <<>>
  BY <1>4, <1>5
<1>7. Len((own \o all)[k]) = 0
  BY <1>6
<1>8. Len((own \o all)[k]) < TestLength
  BY <1>7 DEF TestLength
<1> QED
  BY <1>1, <1>6, <1>8 DEF ReadsPastEnd

\* No user's document is ever drawn: the chart is of nobody, and a notification
\* that finds a user's document ends the process.
NoUserIsDrawn ==
  /\ [](shown # Nil => shown.labels = NoUser)
  /\ [][Notified /\ testInformation \notin {Nil, DefaultTestScore} => ~running']_vars

\* A registration writes one entry without answers into its user's document
\* (RegisterViewController.swift:88), and every later test is added to it.  Where all
\* documents have such an entry, in whatever order the two reads of any rounds are
\* answered, the graphs of a registered user are never shown: the averages read past
\* the end of that entry (ProfileViewModel.swift:98-103).
THEOREM ProfileNoRegisteredUserIsDrawn ==
  ASSUME \A d \in Documents : HasEmptyEntry(d)
  PROVE  Spec => NoUserIsDrawn
<1>1. TypeOK => (shown # Nil => shown.labels = NoUser)
  <2> SUFFICES ASSUME TypeOK, shown # Nil PROVE shown.labels = NoUser
    OBVIOUS
  <2>1. PICK f \in DOMAIN Chart : shown = Chart[f]
    BY DEF TypeOK, Charts
  <2>2. Own(f[1]) = DefaultTestScore
    BY <2>1, OnlyDefaultsAreDrawn DEF Own, OrElse
  <2>3. shown.labels = Own(f[1]).of
    BY <2>1 DEF Chart
  <2> QED
    BY <2>2, <2>3 DEF DefaultTestScore
<1>2. [Next]_vars => [Notified /\ testInformation \notin {Nil, DefaultTestScore} => ~running']_vars
  <2> SUFFICES ASSUME testInformation \notin {Nil, DefaultTestScore},
                      NEW uid \in Clients, CalculateTestScore(uid)
               PROVE  ~running'
    BY DEF Notified
  <2>1. <<testInformation, allTestResult>> \notin DOMAIN Chart
    BY OnlyDefaultsAreDrawn
  <2> QED
    BY <2>1 DEF CalculateTestScore, ProcessEnds
<1>3. Spec => Init /\ [][Next]_vars
  BY DEF Spec
<1> QED
  BY <1>1, <1>2, <1>3, ProfileTypeOK, PTL DEF NoUserIsDrawn
================================================================================
