----------------------------- MODULE Questionnaire -----------------------------
(***************************************************************************)
(* The Test tab: the start screen, the questionnaire itself                *)
(* (TestDetailViewController and its view model), the loading spinner with *)
(* its two-second timer, and the result screen, on the tab's navigation    *)
(* stack.  The navigation bar is hidden on all of them, so a screen is     *)
(* left only by its own button or by tapping the tab again.                *)
(*                                                                         *)
(* Handlers run on the main thread, one at a time.  UIKit delivers the     *)
(* lifts of one touch event back to back, and the five answer buttons are  *)
(* not exclusive: an event that lifts several fingers calls several answer *)
(* handlers before anything else runs, also after the first of them pushed *)
(* the spinner, whose view is not on screen until the event is over.       *)
(***************************************************************************)
EXTENDS Integers, Sequences, FiniteSets

CONSTANTS Buttons,   \* the scores of the answer buttons
          Total,     \* totalQuestionNumber of the list, and its length
          MaxScreens \* bound: no screen is opened on a stack this deep

ASSUME ButtonsAssumption == IsFiniteSet(Buttons)
\* Fifteen questions and five buttons: one event cannot answer a whole test.
ASSUME TotalAssumption == Total \in Nat \ {0} /\ Cardinality(Buttons) <= Total
ASSUME MaxScreensAssumption == MaxScreens \in Nat \ {0}

VARIABLES
  nav,                  \* the screens on the stack, the visible one last
  timers,               \* spinners on the stack whose two seconds are running
  lifting,              \* buttons of the current touch event not yet delivered
  \* The questionnaire opened last (TestDetailViewController, its view model):
  currentCount,
  currentQuestionCount, \* of the view model: the question that is shown
  progress,             \* progressView.progress, times Total - 1
  testScore,
  \* History of that questionnaire:
  given,                \* the answers: the question shown and the score
  filed,                \* arrays handed to updateTestScore and updateAllTestScore
  uploaded              \* arrays handed to uploadData

detailVars == <<currentCount, currentQuestionCount, progress, testScore, given, filed, uploaded>>
vars == <<nav, timers, lifting, currentCount, currentQuestionCount, progress, testScore,
          given, filed, uploaded>>

Screens == {"start", "detail", "spinner", "result"}
Top == nav[Len(nav)]

\* How many of the screens on the stack are of one kind.
Count(screen) == Cardinality({n \in 1..Len(nav) : nav[n] = screen})

\* TestDetailViewController as it is created, with list number 1 loaded.
Init == /\ nav = <<"start">> /\ timers = 0 /\ lifting = {}
        /\ currentCount = 1 /\ currentQuestionCount = 1 /\ progress = 0
        /\ testScore = <<>> /\ given = <<>> /\ filed = <<>> /\ uploaded = <<>>

\* A questionnaire is created; the ones below it are never reached again.
NewDetail == /\ currentCount' = 1 /\ currentQuestionCount' = 1 /\ progress' = 0
             /\ testScore' = <<>> /\ given' = <<>> /\ filed' = <<>> /\ uploaded' = <<>>

\* The start screen appears and nobody is signed in: isLoggedIn performs the
\* segue testLoginScreen.  Two segues have that name: the login popup, which
\* changes nothing here, or the push of a questionnaire.
IsLoggedIn ==
  /\ Top = "start" /\ lifting = {}
  /\ Len(nav) < MaxScreens
  /\ nav' = Append(nav, "detail")
  /\ NewDetail
  /\ UNCHANGED <<timers, lifting>>

\* The button YES of the start screen: the storyboard's push segue and the
\* action togoTest push a questionnaire each.
TogoTest ==
  /\ Top = "start" /\ lifting = {}
  /\ Len(nav) < MaxScreens
  /\ nav' = nav \o <<"detail", "detail">>
  /\ NewDetail
  /\ UNCHANGED <<timers, lifting>>

\* A touch event lifts fingers from the answer buttons in set S.
LiftFrom(S) ==
  /\ Top = "detail" /\ lifting = {} /\ S # {}
  /\ lifting' = S
  /\ UNCHANGED <<nav, timers, detailVars>>

\* The view model's nextQuestion, back to the first one after the last.
NextQuestion ==
  currentQuestionCount' = IF currentQuestionCount + 1 < Total + 1
                          THEN currentQuestionCount + 1 ELSE 1

\* Mutant of ShowNextQuestion: the bar is set after the next question is shown.
ShowNextQuestionMutant ==
  /\ currentCount # Total
  /\ currentCount' = currentCount + 1
  /\ NextQuestion
  /\ progress' = currentQuestionCount'
  /\ UNCHANGED <<nav, timers, filed>>

\* increaseProgress before the last question: the bar is set from the question
\* that was answered, then the next one is shown.
ShowNextQuestion ==
  /\ currentCount # Total
  /\ currentCount' = currentCount + 1
  /\ progress' = currentQuestionCount
  /\ NextQuestion
  /\ UNCHANGED <<nav, timers, filed>>

\* Mutant of FinishTest: the count is advanced at the last question too.
FinishTestMutant(score) ==
  /\ currentCount = Total
  /\ filed' = Append(filed, score)
  /\ nav' = Append(nav, "spinner")
  /\ timers' = timers + 1
  /\ currentCount' = currentCount + 1
  /\ UNCHANGED <<currentQuestionCount, progress>>

\* increaseProgress at the last question: the scores are filed under the user
\* and under all users, and a spinner is pushed, which starts its timer.
FinishTest(score) ==
  /\ currentCount = Total
  /\ filed' = Append(filed, score)
  /\ nav' = Append(nav, "spinner")
  /\ timers' = timers + 1
  /\ UNCHANGED <<currentCount, currentQuestionCount, progress>>

\* Mutants of UploadScore: one score too few counts as full; or the array is
\* not emptied.
UploadScoreEarly(score) ==
  IF Len(score) = Total - 1
  THEN uploaded' = Append(uploaded, score) /\ testScore' = <<>>
  ELSE testScore' = score /\ UNCHANGED uploaded

UploadScoreKeeps(score) ==
  /\ testScore' = score
  /\ uploaded' = IF Len(score) = Total THEN Append(uploaded, score) ELSE uploaded

\* uploadScore: a full array goes to the realtime database and is emptied.
UploadScore(score) ==
  IF Len(score) = Total
  THEN uploaded' = Append(uploaded, score) /\ testScore' = <<>>
  ELSE testScore' = score /\ UNCHANGED uploaded

\* Mutant of TouchAnswer: the last score is added after the test is filed.
TouchAnswerMutant(b) ==
  /\ b \in lifting
  /\ lifting' = lifting \ {b}
  /\ given' = Append(given, [question |-> currentQuestionCount, score |-> b])
  /\ ShowNextQuestion \/ FinishTest(testScore)
  /\ UploadScore(Append(testScore, b))

\* touchAnswer1 ... touchAnswer5.
TouchAnswer(b) ==
  /\ b \in lifting
  /\ lifting' = lifting \ {b}
  /\ given' = Append(given, [question |-> currentQuestionCount, score |-> b])
  /\ ShowNextQuestion \/ FinishTest(Append(testScore, b))
  /\ UploadScore(Append(testScore, b))

\* Mutant of MoveToResultScreen: the timer fires and no result is pushed.
MoveToResultScreenMutant ==
  /\ timers > 0 /\ lifting = {}
  /\ timers' = timers - 1
  /\ UNCHANGED <<nav, lifting, detailVars>>

\* moveToResultScreen, two seconds after a spinner was loaded.
MoveToResultScreen ==
  /\ timers > 0 /\ lifting = {}
  /\ timers' = timers - 1
  /\ nav' = Append(nav, "result")
  /\ UNCHANGED <<lifting, detailVars>>

\* The result screen's button pushes a new start screen.
GotoTestScreen ==
  /\ Top = "result" /\ lifting = {}
  /\ Len(nav) < MaxScreens
  /\ nav' = Append(nav, "start")
  /\ UNCHANGED <<timers, lifting, detailVars>>

\* Mutant of PopToRoot: the timers of the popped spinners still push results.
PopToRootMutant ==
  /\ Len(nav) > 1 /\ lifting = {}
  /\ nav' = <<"start">>
  /\ UNCHANGED <<timers, lifting, detailVars>>

\* The Test tab is tapped while it is selected.  A spinner that leaves the stack
\* has no navigationController any more: its timer will do nothing.
PopToRoot ==
  /\ Len(nav) > 1 /\ lifting = {}
  /\ nav' = <<"start">>
  /\ timers' = 0
  /\ UNCHANGED <<lifting, detailVars>>

Next == \/ IsLoggedIn
        \/ TogoTest
        \/ \E S \in SUBSET Buttons : LiftFrom(S)
        \/ \E b \in Buttons : TouchAnswer(b)
        \/ MoveToResultScreen
        \/ GotoTestScreen
        \/ PopToRoot

\* The main run loop delivers the rest of an event and fires the timers; the
\* user need not do anything.
Fairness == WF_vars(\E b \in Buttons : TouchAnswer(b)) /\ WF_vars(MoveToResultScreen)

Spec == Init /\ [][Next]_vars /\ Fairness

-------------------------------------------------------------------------------
Answers == [question : 1..Total, score : Buttons]

TypeOK == /\ nav \in Seq(Screens) /\ nav # <<>>
          /\ timers \in Nat
          /\ lifting \in SUBSET Buttons
          /\ currentCount \in 1..Total
          /\ currentQuestionCount \in 1..Total
          /\ progress \in 0..(Total - 1)
          /\ testScore \in Seq(Buttons)
          /\ given \in Seq(Answers)
          /\ filed \in Seq(Seq(Buttons))
          /\ uploaded \in Seq(Seq(Buttons))

\* Until the test is filed, the controller's count, the view model's question,
\* the bar and the scores agree, in the middle of a touch event too: as many
\* scores as questions left behind.
CountersInStep ==
  filed = <<>> => /\ currentQuestionCount = currentCount
                  /\ Len(testScore) = currentCount - 1
                  /\ progress = currentCount - 1

\* What is filed first is the test: for each question, the answer given while
\* it was shown, in the order of the questions.
FirstFilingIsTheTest ==
  filed # <<>> =>
    /\ Len(filed[1]) = Total
    /\ Len(given) >= Total
    /\ \A q \in 1..Total : given[q] = [question |-> q, score |-> filed[1][q]]

\* A complete test is uploaded once and is the one that was filed, whatever
\* the fingers of the finishing event do afterwards.
UploadedOnceAsFiled == uploaded = IF filed = <<>> THEN <<>> ELSE <<filed[1]>>

\* A questionnaire whose test is filed is covered by its spinner, so that more
\* answers can come only from the event that finished it; they are filed as
\* arrays shorter than a test, one for each finger.
ExtraFilingsAreFromOneEvent ==
  /\ filed # <<>> => Top # "detail" /\ Len(filed) + Cardinality(lifting) <= Cardinality(Buttons)
  /\ \A n \in 2..Len(filed) : Len(filed[n]) = n - 1

\* Each spinner on the stack has its timer running or has shown its result, and
\* no result screen is there without a spinner.
EachSpinnerShowsOneResult == Count("result") + timers = Count("spinner")

\* "wait for 2 sec to get to the result screen" (LoadingSpinner.swift:51): the
\* spinner does not stay, the result or (by the user's tap) the start follows.
SpinnerEnds == Top = "spinner" ~> Top \in {"result", "start"}
===============================================================================
