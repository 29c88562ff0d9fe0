-------------------------------- MODULE Profile --------------------------------
(***************************************************************************)
(* The Profile tab: every appearance starts a round of two reads, of the   *)
(* user's document and of All_Test_Score, whose answers come at any time   *)
(* and in any order and land in the two fields all rounds share.  When     *)
(* both answers of a round are in, its DispatchGroup puts the calculation  *)
(* on the main queue, and that draws what the fields have by then.         *)
(*                                                                         *)
(* The alert of viewWillAppear is in module LoginScreens, and what its     *)
(* isLoggedIn does to the singleton in Session.  Documents are external:   *)
(* an answer may bring any of them.                                        *)
(***************************************************************************)
EXTENDS Scores

CONSTANTS Users, NoUser, \* uids, and nobody: the document "noData", which nothing writes
          Nil,           \* Swift's nil: no document, or an answer that is an error
          Documents,     \* lists of tests that a user's document may hold
          AllDocuments,  \* lists of tests that All_Test_Score may hold
          MaxRounds      \* bound: rounds under way

DefaultTests == <<[i \in 1..TestLength |-> 0]>>

ASSUME NilAssumption == NoUser \notin Users /\ Nil \notin Documents \cup {DefaultTests}
ASSUME DocumentsAssumption == Documents \cup AllDocuments \subseteq Seq(Seq(Int))
ASSUME RoundsAssumption == MaxRounds \in Nat

Clients == Users \cup {NoUser}
Reads == {"own", "all"}

VARIABLES
  running,         \* the process runs
  loaded,          \* viewDidLoad has run
  rounds,          \* how many rounds there are for each uid and set of reads
                   \* without an answer; {} when the calculation is due
  testInformation, \* the user's document, as read last
  allTestResult,   \* All_Test_Score, as read last
  shown,           \* the chart and whose labels stand above it
  spinning,        \* the activity indicator turns
  appeared,        \* history: the uid at the last appearance
  overlap          \* history: at that time a round of another uid was under way

vars == <<running, loaded, rounds, testInformation, allTestResult, shown,
          spinning, appeared, overlap>>

Kinds == Clients \X SUBSET Reads
NoRounds == [r \in Kinds |-> 0]
UnderWay == Cardinality({r \in Kinds \X (1..MaxRounds) : r[2] <= rounds[r[1]]})

DefaultTestScore == [of |-> NoUser, tests |-> DefaultTests]
Information == [of : Users, tests : Documents] \cup {DefaultTestScore, Nil}
AllResults == AllDocuments \cup {DefaultTests, Nil}

\* The operator ?? of Swift.
OrElse(value, default) == IF value = Nil THEN default ELSE value

\* What the averages are calculated from, nil replaced by the default.
Own(information) == OrElse(information, DefaultTestScore)
All(results) == OrElse(results, DefaultTests)

\* calculateTestScore and reloadData: how two fields look on screen.  There is no
\* chart of fields with a test that is too short: the calculation traps.
Chart ==
  [f \in {g \in Information \X AllResults : ~ReadsPastEnd(Own(g[1]).tests \o All(g[2]))} |->
     LET list == CalculateUserAverageScore(Own(f[1]).tests) \o CalculateAllUserAverageScore(All(f[2]))
     IN [labels |-> Own(f[1]).of, bars |-> Bars(AverageTestScore(list))]]

Charts == {Chart[f] : f \in DOMAIN Chart}

\* A process that has not shown the tab yet.
Init == /\ running = TRUE /\ loaded = FALSE /\ rounds = NoRounds
        /\ testInformation = Nil /\ allTestResult = Nil /\ shown = Nil
        /\ spinning = FALSE /\ appeared = NoUser /\ overlap = FALSE

\* The process ends, and with it all it has read.
ProcessEnds ==
  /\ running' = FALSE /\ loaded' = FALSE /\ rounds' = NoRounds
  /\ testInformation' = Nil /\ allTestResult' = Nil /\ shown' = Nil
  /\ spinning' = FALSE /\ appeared' = NoUser /\ overlap' = FALSE

Launch == /\ ~running /\ running' = TRUE
          /\ UNCHANGED <<loaded, rounds, testInformation, allTestResult, shown,
                         spinning, appeared, overlap>>

-------------------------------------------------------------------------------
\* readTestResult for one uid, among the rounds there are.
ReadTestResult(rs, uid) == [rs EXCEPT ![<<uid, Reads>>] = @ + 1]

\* Mutant of Appear: the fields are cleared when the reads start.
AppearMutant(first, uid) ==
  /\ running /\ UnderWay + (IF loaded THEN 1 ELSE 2) <= MaxRounds
  /\ loaded => first = uid
  /\ loaded' = TRUE /\ spinning' = TRUE
  /\ rounds' = ReadTestResult(IF loaded THEN rounds ELSE ReadTestResult(rounds, first), uid)
  /\ testInformation' = Nil /\ allTestResult' = Nil
  /\ appeared' = uid
  /\ overlap' = (first # uid \/ \E r \in Kinds : rounds[r] > 0 /\ r[1] # uid /\ r[2] # {})
  /\ UNCHANGED <<running, shown>>

\* setupInitialUI from viewWillAppear, and the first time from viewDidLoad just
\* before: each asks Auth for the uid, which another thread may change between.
Appear(first, uid) ==
  /\ running /\ UnderWay + (IF loaded THEN 1 ELSE 2) <= MaxRounds
  /\ loaded => first = uid
  /\ loaded' = TRUE /\ spinning' = TRUE
  /\ rounds' = ReadTestResult(IF loaded THEN rounds ELSE ReadTestResult(rounds, first), uid)
  /\ appeared' = uid
  /\ overlap' = (first # uid \/ \E r \in Kinds : rounds[r] > 0 /\ r[1] # uid /\ r[2] # {})
  /\ UNCHANGED <<running, testInformation, allTestResult, shown>>

\* Mutant of Leave: an answer with an error leaves a second time.
LeaveMutant(r, read) == rounds' = [rounds EXCEPT ![r] = @ - 2, ![<<r[1], r[2] \ {read}>>] = @ + 1]

\* An answer leaves the group of its round.
Leave(r, read) == rounds' = [rounds EXCEPT ![r] = @ - 1, ![<<r[1], r[2] \ {read}>>] = @ + 1]

\* Mutant of OwnAnswered: an answer without a document leaves the field alone.
OwnAnsweredMutant(r) ==
  /\ rounds[r] > 0 /\ "own" \in r[2]
  /\ Leave(r, "own")
  /\ \/ UNCHANGED testInformation
     \/ r[1] \in Users /\ \E d \in Documents : testInformation' = [of |-> r[1], tests |-> d]
  /\ UNCHANGED <<running, loaded, allTestResult, shown, spinning, appeared, overlap>>

\* The answer to getUserTestData: nil, a document that does not decode, for which
\* the default is put, or the document.  Nobody has none.
OwnAnswered(r) ==
  /\ rounds[r] > 0 /\ "own" \in r[2]
  /\ Leave(r, "own")
  /\ \/ testInformation' \in {Nil, DefaultTestScore}
     \/ r[1] \in Users /\ \E d \in Documents : testInformation' = [of |-> r[1], tests |-> d]
  /\ UNCHANGED <<running, loaded, allTestResult, shown, spinning, appeared, overlap>>

\* Mutant of AllAnswered: the failed read returns before it leaves the group.
AllAnsweredMutant(r) ==
  /\ rounds[r] > 0 /\ "all" \in r[2]
  /\ \/ Leave(r, "all") /\ allTestResult' \in AllResults
     \/ rounds' = [rounds EXCEPT ![r] = @ - 1] /\ allTestResult' = DefaultTests
  /\ UNCHANGED <<running, loaded, testInformation, shown, spinning, appeared, overlap>>

\* The answer to getUserAllData, the same way.
AllAnswered(r) ==
  /\ rounds[r] > 0 /\ "all" \in r[2]
  /\ Leave(r, "all")
  /\ allTestResult' \in AllResults
  /\ UNCHANGED <<running, loaded, testInformation, shown, spinning, appeared, overlap>>

\* The notification of the group: the chart is drawn, the labels are set and the
\* indicator stops, unless the calculation reads past the end of a test.
CalculateTestScore(uid) ==
  /\ rounds[<<uid, {}>>] > 0
  /\ IF <<testInformation, allTestResult>> \notin DOMAIN Chart
     THEN ProcessEnds
     ELSE /\ rounds' = [rounds EXCEPT ![<<uid, {}>>] = @ - 1]
          /\ shown' = Chart[<<testInformation, allTestResult>>]
          /\ spinning' = FALSE
          /\ UNCHANGED <<running, loaded, testInformation, allTestResult, appeared, overlap>>

Answer == \E r \in Kinds : OwnAnswered(r) \/ AllAnswered(r)
Notified == \E uid \in Clients : CalculateTestScore(uid)
Next == \/ Launch
        \/ \E first, uid \in Clients : Appear(first, uid)
        \/ Answer
        \/ Notified

\* Every read is answered, from the cache or as an error when offline, and the
\* main queue runs what is on it.  Nobody has to open the tab.
Fairness == WF_vars(Answer) /\ WF_vars(Notified)
Spec == Init /\ [][Next]_vars /\ Fairness

-------------------------------------------------------------------------------
TypeOK == /\ running \in BOOLEAN /\ loaded \in BOOLEAN
          /\ rounds \in [Kinds -> Nat]
          /\ testInformation \in Information
          /\ allTestResult \in AllResults
          /\ shown \in Charts \cup {Nil}
          /\ spinning \in BOOLEAN /\ overlap \in BOOLEAN
          /\ appeared \in Clients

\* No round has one answer without the other, and no calculation is due.
Settled == \A r \in Kinds : rounds[r] > 0 => r[2] = Reads

\* The chart on the screen is of what the fields have now.
IsShown == /\ <<testInformation, allTestResult>> \in DOMAIN Chart
           /\ shown = Chart[<<testInformation, allTestResult>>]

\* Whenever every round is untouched or over, the screen shows the two fields:
\* rounds that mix their answers never leave a chart behind that is out of date.
ShownIsWhatWasRead ==
  Settled => \/ IsShown
             \/ shown = Nil /\ testInformation = Nil /\ allTestResult = Nil

\* When everything has been answered, the screen is not about somebody else than
\* the user at the last appearance, unless reads for another were still under
\* way then: also a failed read replaces the former user's data.
ShownIsTheUsers ==
  (\A r \in Kinds : rounds[r] = 0) /\ ~overlap /\ shown # Nil =>
    shown.labels \in {appeared, NoUser}

\* Two copies of the loop, a list of six and six bars: if a user's tests are all
\* the tests there are, each pair of bars is of the same height.
SameTestsSameBars ==
  IsShown /\ testInformation # Nil /\
  testInformation.tests = allTestResult =>
    \A c \in Categories : shown.bars[2 * c - 1] = shown.bars[2 * c]

\* The user's bars count every answer once, and so does what uploadData stores of
\* the same tests, though the two do not agree on the category of each.
EveryAnswerCounts ==
  IsShown /\ testInformation # Nil =>
    LET Sum3(sums) == sums[1] + sums[2] + sums[3]
        tests == testInformation.tests
        all == Total(tests, 0..14)
    IN /\ Sum3([c \in Categories |-> shown.bars[2 * c - 1].sum]) = all
       /\ SumFunction([k \in DOMAIN tests |-> Sum3(UploadSums(tests[k]))]) = all

\* The indicator started by an appearance stops, or the process ends.
SpinnerStops == spinning ~> ~spinning

\* Said by the start screen of the test (Main.storyboard:1050), "you will see
\* graphs to show your current situations": drawing them does not end the process.
GraphsAreShown == [][Notified => running']_vars
===============================================================================
