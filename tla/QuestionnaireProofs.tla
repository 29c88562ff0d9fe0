-------------------------- MODULE QuestionnaireProofs --------------------------
(***************************************************************************)
(* What the questionnaire files and uploads is the test, for any number of *)
(* questions and buttons and any stack.                                    *)
(***************************************************************************)
EXTENDS Questionnaire, SequenceTheorems, FiniteSetTheorems, TLAPS

\* Before the test is filed: the scores are the answers to the questions so
\* far, in order, and the counters agree with their number.
Answering == /\ currentQuestionCount = currentCount
             /\ Len(testScore) = currentCount - 1
             /\ progress = currentCount - 1
             /\ uploaded = <<>>
             /\ Len(given) = Len(testScore)
             /\ \A q \in 1..Len(given) : given[q] = [question |-> q, score |-> testScore[q]]

\* Afterwards: the first filed array is the test and was uploaded; each finger
\* the finishing event still lifts can add one short array.
Finished == /\ currentCount = Total
            /\ Top # "detail"
            /\ Len(testScore) = Len(filed) - 1
            /\ Len(filed) + Cardinality(lifting) <= Cardinality(Buttons)
            /\ \A n \in 2..Len(filed) : Len(filed[n]) = n - 1
            /\ Len(filed[1]) = Total
            /\ Len(given) >= Total
            /\ \A q \in 1..Total : given[q] = [question |-> q, score |-> filed[1][q]]
            /\ uploaded = <<filed[1]>>

TestInv == /\ TypeOK
           /\ filed = <<>> => Answering
           /\ filed # <<>> => Finished

-------------------------------------------------------------------------------
\* The facts about one delivered touch that do not depend on the question.
LEMMA TouchTypes ==
  ASSUME TestInv, NEW b \in Buttons, TouchAnswer(b)
  PROVE  /\ Append(testScore, b) \in Seq(Buttons)
         /\ Len(Append(testScore, b)) = Len(testScore) + 1
         /\ \A q \in 1..Len(testScore) : Append(testScore, b)[q] = testScore[q]
         /\ Append(testScore, b)[Len(testScore) + 1] = b
         /\ given' \in Seq(Answers)
         /\ Len(given') = Len(given) + 1
         /\ \A q \in 1..Len(given) : given'[q] = given[q]
         /\ given'[Len(given) + 1] = [question |-> currentQuestionCount, score |-> b]
         /\ Len(testScore) \in Nat /\ Len(given) \in Nat /\ Len(filed) \in Nat
         /\ Cardinality(lifting) \in Nat /\ Cardinality(Buttons) \in Nat
         /\ Cardinality(lifting) <= Cardinality(Buttons)
         /\ Cardinality(lifting') = Cardinality(lifting) - 1
         /\ lifting' \in SUBSET Buttons
<1>1. testScore \in Seq(Buttons) /\ given \in Seq(Answers) /\ filed \in Seq(Seq(Buttons))
  BY DEF TestInv, TypeOK
<1>2. [question |-> currentQuestionCount, score |-> b] \in Answers
  BY DEF TestInv, TypeOK, Answers
<1>3. /\ Len(testScore) \in Nat /\ Len(given) \in Nat /\ Len(filed) \in Nat
  BY <1>1, LenProperties
<1>4. /\ Append(testScore, b) \in Seq(Buttons)
      /\ Len(Append(testScore, b)) = Len(testScore) + 1
      /\ \A q \in 1..Len(testScore) : Append(testScore, b)[q] = testScore[q]
      /\ Append(testScore, b)[Len(testScore) + 1] = b
  BY <1>1, AppendProperties
<1>5. /\ given' \in Seq(Answers)
      /\ Len(given') = Len(given) + 1
      /\ \A q \in 1..Len(given) : given'[q] = given[q]
      /\ given'[Len(given) + 1] = [question |-> currentQuestionCount, score |-> b]
  <2> DEFINE answer == [question |-> currentQuestionCount, score |-> b]
  <2>1. given' = Append(given, answer) /\ answer \in Answers
    BY <1>2 DEF TouchAnswer
  <2> HIDE DEF answer
  <2>2. /\ Append(given, answer) \in Seq(Answers)
        /\ Len(Append(given, answer)) = Len(given) + 1
        /\ \A q \in 1..Len(given) : Append(given, answer)[q] = given[q]
        /\ Append(given, answer)[Len(given) + 1] = answer
    BY <1>1, <2>1, AppendProperties
  <2>. QED
    BY <2>1, <2>2 DEF answer
<1>6. lifting \in SUBSET Buttons /\ b \in lifting /\ lifting' = lifting \ {b}
  BY DEF TestInv, TypeOK, TouchAnswer
<1>7. /\ IsFiniteSet(lifting) /\ Cardinality(lifting) \in Nat
      /\ Cardinality(Buttons) \in Nat /\ Cardinality(lifting) <= Cardinality(Buttons)
  BY <1>6, ButtonsAssumption, FS_Subset, FS_CardinalityType
<1>8. Cardinality(lifting') = Cardinality(lifting) - 1
  BY <1>6, <1>7, FS_RemoveElement
<1>. QED
  BY <1>3, <1>4, <1>5, <1>6, <1>7, <1>8

\* An answer to a question that is not the last one.
LEMMA NextQuestionStep ==
  ASSUME NEW b \in Buttons, TestInv, TouchAnswer(b), ShowNextQuestion
  PROVE  TestInv'
<1>1. /\ currentCount # Total /\ currentCount' = currentCount + 1
      /\ progress' = currentQuestionCount /\ NextQuestion
      /\ UNCHANGED <<nav, timers, filed>>
  BY DEF ShowNextQuestion
<1>2. Total \in Nat \ {0} /\ currentCount \in 1..Total
  BY TotalAssumption DEF TestInv, TypeOK
<1>3. filed = <<>> /\ Answering
  BY <1>1 DEF TestInv, Finished
<1>4. currentQuestionCount' = currentCount + 1
  BY <1>1, <1>2, <1>3 DEF NextQuestion, Answering
<1>5. Len(Append(testScore, b)) = currentCount /\ Len(testScore) = currentCount - 1
  BY <1>2, <1>3, TouchTypes DEF Answering
<1>6. testScore' = Append(testScore, b) /\ uploaded' = uploaded
  BY <1>1, <1>2, <1>5 DEF TouchAnswer, UploadScore
<1>7. Answering'
  <2>1. /\ currentQuestionCount' = currentCount' /\ progress' = currentCount' - 1
        /\ Len(testScore') = currentCount' - 1 /\ uploaded' = <<>>
    BY <1>1, <1>2, <1>3, <1>4, <1>5, <1>6 DEF Answering
  <2>2. Len(given') = Len(testScore') /\ Len(given) = currentCount - 1
    BY <1>2, <1>3, <1>5, <1>6, TouchTypes DEF Answering
  <2>3. \A q \in 1..Len(given') : given'[q] = [question |-> q, score |-> testScore'[q]]
    <3> SUFFICES ASSUME NEW q \in 1..Len(given')
                 PROVE  given'[q] = [question |-> q, score |-> testScore'[q]]
      OBVIOUS
    <3>1. CASE q = currentCount
      <4>1. given'[q] = [question |-> currentQuestionCount, score |-> b]
        BY <1>2, <2>2, <3>1, TouchTypes
      <4>2. testScore'[q] = b
        BY <1>2, <1>5, <1>6, <3>1, TouchTypes
      <4>. QED
        BY <1>3, <3>1, <4>1, <4>2 DEF Answering
    <3>2. CASE q # currentCount
      <4>1. q \in 1..Len(given) /\ q \in 1..Len(testScore)
        BY <1>2, <1>5, <1>6, <2>2, <3>2, TouchTypes
      <4>2. given'[q] = given[q] /\ testScore'[q] = testScore[q]
        BY <1>6, <4>1, TouchTypes
      <4>. QED
        BY <1>3, <4>1, <4>2 DEF Answering
    <3>. QED
      BY <3>1, <3>2
  <2>. QED
    BY <2>1, <2>2, <2>3 DEF Answering
<1>8. TypeOK'
  <2>1. currentCount' \in 1..Total /\ currentQuestionCount' \in 1..Total
    BY <1>1, <1>2, <1>4
  <2>2. progress' \in 0..(Total - 1)
    BY <1>1, <1>2, <1>3 DEF Answering
  <2>3. /\ nav' \in Seq(Screens) /\ nav' # <<>> /\ timers' \in Nat
        /\ filed' \in Seq(Seq(Buttons)) /\ uploaded' \in Seq(Seq(Buttons))
    BY <1>1, <1>6 DEF TestInv, TypeOK
  <2>. QED
    BY <1>6, <2>1, <2>2, <2>3, TouchTypes DEF TypeOK
<1>. QED
  BY <1>1, <1>3, <1>7, <1>8 DEF TestInv

\* The answer to the last question, which finishes the test.
LEMMA FirstFinishStep ==
  ASSUME NEW b \in Buttons, TestInv, TouchAnswer(b), filed = <<>>,
         FinishTest(Append(testScore, b))
  PROVE  TestInv'
<1> DEFINE score == Append(testScore, b)
<1>0. /\ score \in Seq(Buttons) /\ Len(score) = Len(testScore) + 1
      /\ \A q \in 1..Len(testScore) : score[q] = testScore[q]
      /\ score[Len(testScore) + 1] = b
      /\ given' \in Seq(Answers) /\ Len(given') = Len(given) + 1
      /\ \A q \in 1..Len(given) : given'[q] = given[q]
      /\ given'[Len(given) + 1] = [question |-> currentQuestionCount, score |-> b]
      /\ Len(testScore) \in Nat /\ Len(given) \in Nat /\ Len(filed) \in Nat
      /\ Cardinality(lifting) \in Nat /\ Cardinality(Buttons) \in Nat
      /\ Cardinality(lifting) <= Cardinality(Buttons)
      /\ Cardinality(lifting') = Cardinality(lifting) - 1
      /\ lifting' \in SUBSET Buttons
  BY TouchTypes, Zenon
<1>1. /\ currentCount = Total /\ filed' = Append(filed, score)
      /\ nav' = Append(nav, "spinner") /\ timers' = timers + 1
      /\ UNCHANGED <<currentCount, currentQuestionCount, progress>>
  BY DEF FinishTest
<1>2. Total \in Nat \ {0} /\ Cardinality(Buttons) <= Total /\ Answering
  BY TotalAssumption DEF TestInv
<1>3. score \in Seq(Buttons) /\ Len(score) = Total /\ Len(testScore) = Total - 1
  BY <1>1, <1>2, <1>0 DEF Answering
<1>4. uploaded' = Append(uploaded, score) /\ testScore' = <<>>
  BY <1>3 DEF TouchAnswer, UploadScore
<1>5. \A q \in 1..Total : given'[q] = [question |-> q, score |-> score[q]]
  <2> SUFFICES ASSUME NEW q \in 1..Total
               PROVE  given'[q] = [question |-> q, score |-> score[q]]
    OBVIOUS
  <2>1. Len(given) = Total - 1
    BY <1>2, <1>3 DEF Answering
  <2>2. CASE q = Total
    <3>1. given'[q] = [question |-> currentQuestionCount, score |-> b] /\ score[q] = b
      BY <1>2, <1>3, <2>1, <2>2, <1>0
    <3>. QED
      BY <1>1, <1>2, <2>2, <3>1 DEF Answering
  <2>3. CASE q # Total
    <3>1. q \in 1..Len(given) /\ q \in 1..Len(testScore)
      BY <1>2, <1>3, <2>1, <2>3
    <3>2. given'[q] = given[q] /\ score[q] = testScore[q]
      BY <3>1, <1>0
    <3>. QED
      BY <1>2, <3>1, <3>2 DEF Answering
  <2>. QED
    BY <2>2, <2>3
<1>6. Len(given') = Total
  BY <1>2, <1>3, <1>0 DEF Answering
<1> HIDE DEF score
<1>7. filed' = <<score>> /\ uploaded' = <<score>>
  BY <1>1, <1>2, <1>4 DEF Answering
<1>8. nav' \in Seq(Screens) /\ nav' # <<>> /\ nav'[Len(nav')] = "spinner"
  <2>1. "spinner" \in Screens /\ nav \in Seq(Screens)
    BY DEF Screens, TestInv, TypeOK
  <2>2. Len(nav') = Len(nav) + 1
    BY <1>1, <2>1, AppendProperties
  <2>. QED
    BY <1>1, <2>1, <2>2, AppendProperties
<1>9. TypeOK'
  <2>1. filed' \in Seq(Seq(Buttons)) /\ uploaded' \in Seq(Seq(Buttons)) /\ testScore' \in Seq(Buttons)
    BY <1>3, <1>4, <1>7
  <2>2. timers' \in Nat /\ currentCount' \in 1..Total /\ currentQuestionCount' \in 1..Total
        /\ progress' \in 0..(Total - 1)
    BY <1>1 DEF TestInv, TypeOK
  <2>. QED
    BY <1>8, <2>1, <2>2, <1>0 DEF TypeOK
<1>10. Finished'
  <2>1. Len(filed') = 1 /\ filed'[1] = score /\ Len(testScore') = 0
    BY <1>4, <1>7
  <2>2. Len(filed') + Cardinality(lifting') <= Cardinality(Buttons)
    BY <2>1, <1>0
  <2>3. Top' # "detail"
    BY <1>8 DEF Top
  <2>. QED
    BY <1>1, <1>2, <1>3, <1>5, <1>6, <1>7, <2>1, <2>2, <2>3 DEF Finished
<1>. QED
  BY <1>7, <1>9, <1>10 DEF TestInv

\* One more finger of the event that finished the test.
LEMMA ExtraFinishStep ==
  ASSUME NEW b \in Buttons, TestInv, TouchAnswer(b), filed # <<>>,
         FinishTest(Append(testScore, b))
  PROVE  TestInv'
<1> DEFINE score == Append(testScore, b)
<1>0. /\ score \in Seq(Buttons) /\ Len(score) = Len(testScore) + 1
      /\ \A q \in 1..Len(testScore) : score[q] = testScore[q]
      /\ score[Len(testScore) + 1] = b
      /\ given' \in Seq(Answers) /\ Len(given') = Len(given) + 1
      /\ \A q \in 1..Len(given) : given'[q] = given[q]
      /\ given'[Len(given) + 1] = [question |-> currentQuestionCount, score |-> b]
      /\ Len(testScore) \in Nat /\ Len(given) \in Nat /\ Len(filed) \in Nat
      /\ Cardinality(lifting) \in Nat /\ Cardinality(Buttons) \in Nat
      /\ Cardinality(lifting) <= Cardinality(Buttons)
      /\ Cardinality(lifting') = Cardinality(lifting) - 1
      /\ lifting' \in SUBSET Buttons
  BY TouchTypes, Zenon
<1>1. /\ currentCount = Total /\ filed' = Append(filed, score)
      /\ nav' = Append(nav, "spinner") /\ timers' = timers + 1
      /\ UNCHANGED <<currentCount, currentQuestionCount, progress>>
  BY DEF FinishTest
<1>2. Total \in Nat \ {0} /\ Cardinality(Buttons) <= Total /\ Finished
  BY TotalAssumption DEF TestInv
<1>3. score \in Seq(Buttons) /\ Len(score) = Len(filed)
  BY <1>2, <1>0 DEF Finished
<1>4. Len(filed) < Cardinality(Buttons) /\ Len(filed) \in Nat
  <2>1. Cardinality(lifting) # 0
    <3>1. b \in lifting /\ IsFiniteSet(lifting)
      BY ButtonsAssumption, FS_Subset DEF TouchAnswer, TestInv, TypeOK
    <3>. QED
      BY <3>1, FS_EmptySet
  <2>. QED
    BY <1>2, <2>1, <1>0 DEF Finished
<1>5. Len(score) # Total
  BY <1>2, <1>3, <1>4, <1>0
<1>6. testScore' = score /\ uploaded' = uploaded
  BY <1>5 DEF TouchAnswer, UploadScore
<1> HIDE DEF score
<1>7. /\ filed' \in Seq(Seq(Buttons)) /\ Len(filed') = Len(filed) + 1
      /\ \A n \in 1..Len(filed) : filed'[n] = filed[n]
      /\ filed'[Len(filed) + 1] = score
  BY <1>1, <1>3, AppendProperties DEF TestInv, TypeOK
<1>8. filed' # <<>> /\ 1 \in 1..Len(filed)
  BY <1>4, <1>7, EmptySeq DEF TestInv, TypeOK
<1>9. nav' \in Seq(Screens) /\ nav' # <<>> /\ nav'[Len(nav')] = "spinner"
  <2>1. "spinner" \in Screens /\ nav \in Seq(Screens)
    BY DEF Screens, TestInv, TypeOK
  <2>2. Len(nav') = Len(nav) + 1
    BY <1>1, <2>1, AppendProperties
  <2>. QED
    BY <1>1, <2>1, <2>2, AppendProperties
<1>10. TypeOK'
  <2>1. uploaded' \in Seq(Seq(Buttons)) /\ testScore' \in Seq(Buttons)
    BY <1>3, <1>6 DEF TestInv, TypeOK
  <2>2. timers' \in Nat /\ currentCount' \in 1..Total /\ currentQuestionCount' \in 1..Total
        /\ progress' \in 0..(Total - 1)
    BY <1>1 DEF TestInv, TypeOK
  <2>. QED
    BY <1>7, <1>9, <2>1, <2>2, <1>0 DEF TypeOK
<1>11. Finished'
  <2>1. currentCount' = Total /\ Top' # "detail"
    BY <1>1, <1>9 DEF Top
  <2>2. Len(testScore') = Len(filed') - 1
    BY <1>3, <1>4, <1>6, <1>7
  <2>3. Len(filed') + Cardinality(lifting') <= Cardinality(Buttons)
    BY <1>2, <1>4, <1>7, <1>0 DEF Finished
  <2>4. \A n \in 2..Len(filed') : Len(filed'[n]) = n - 1
    <3> SUFFICES ASSUME NEW n \in 2..Len(filed') PROVE Len(filed'[n]) = n - 1
      OBVIOUS
    <3>1. CASE n = Len(filed) + 1
      BY <1>3, <1>4, <1>7, <3>1
    <3>2. CASE n # Len(filed) + 1
      <4>1. n \in 2..Len(filed) /\ n \in 1..Len(filed)
        BY <1>4, <1>7, <3>2
      <4>. QED
        BY <1>2, <1>7, <4>1 DEF Finished
    <3>. QED
      BY <3>1, <3>2
  <2>5. filed'[1] = filed[1]
    BY <1>7, <1>8
  <2>6. Len(given') >= Total /\ \A q \in 1..Total : given'[q] = given[q]
    <3>1. Len(given) >= Total /\ Len(given) \in Nat
      BY <1>2, <1>0 DEF Finished
    <3>2. \A q \in 1..Total : q \in 1..Len(given)
      BY <1>2, <3>1
    <3>. QED
      BY <1>2, <3>1, <3>2, <1>0
  <2>. QED
    BY <1>2, <1>6, <2>1, <2>2, <2>3, <2>4, <2>5, <2>6 DEF Finished
<1>. QED
  BY <1>8, <1>10, <1>11 DEF TestInv

\* A touch delivered to any questionnaire.
LEMMA TouchStep ==
  ASSUME NEW b \in Buttons, TestInv, TouchAnswer(b)
  PROVE  TestInv'
<1>1. ShowNextQuestion \/ FinishTest(Append(testScore, b))
  BY DEF TouchAnswer
<1>2. CASE ShowNextQuestion
  BY <1>2, NextQuestionStep, Zenon
<1>3. CASE FinishTest(Append(testScore, b)) /\ filed = <<>>
  BY <1>3, FirstFinishStep, Zenon
<1>4. CASE FinishTest(Append(testScore, b)) /\ filed # <<>>
  BY <1>4, ExtraFinishStep, Zenon
<1>. QED
  BY <1>1, <1>2, <1>3, <1>4, Zenon

\* A screen put on the stack becomes its top.
LEMMA PushScreen ==
  ASSUME NEW screen \in Screens, nav \in Seq(Screens), nav' = Append(nav, screen)
  PROVE  nav' \in Seq(Screens) /\ nav' # <<>> /\ Top' = screen
<1>1. /\ nav' \in Seq(Screens) /\ Len(nav') = Len(nav) + 1
      /\ nav'[Len(nav) + 1] = screen
  BY AppendProperties
<1>. QED
  BY <1>1, LenProperties DEF Top

\* A step that moves among the other screens leaves the questionnaire alone.
LEMMA OtherScreenStep ==
  ASSUME TestInv, UNCHANGED <<lifting, detailVars>>, timers' \in Nat,
         nav' \in Seq(Screens), nav' # <<>>, Top' # "detail"
  PROVE  TestInv'
<1>1. TypeOK'
  BY DEF TestInv, TypeOK, detailVars
<1>2. (filed = <<>> => Answering)' /\ (filed # <<>> => Finished)'
  BY DEF TestInv, Answering, Finished, detailVars
<1>. QED
  BY <1>1, <1>2 DEF TestInv

\* Whatever was under it, a questionnaire that is opened starts afresh.
LEMMA NewDetailStep ==
  ASSUME TestInv, NewDetail, UNCHANGED <<timers, lifting>>,
         nav' \in Seq(Screens), nav' # <<>>
  PROVE  TestInv'
<1>1. Total \in Nat \ {0}
  BY TotalAssumption
<1>2. TypeOK'
  BY <1>1 DEF TestInv, TypeOK, NewDetail
<1>3. filed' = <<>> /\ Answering'
  BY DEF NewDetail, Answering
<1>. QED
  BY <1>2, <1>3 DEF TestInv

LEMMA TogoTestStep ==
  ASSUME TestInv, TogoTest
  PROVE  TestInv'
<1>1. nav \in Seq(Screens)
  BY DEF TestInv, TypeOK
<1>2. <<"detail", "detail">> \in Seq(Screens) /\ Len(<<"detail", "detail">>) = 2
  BY DEF Screens
<1>3. nav' = nav \o <<"detail", "detail">> /\ NewDetail /\ UNCHANGED <<timers, lifting>>
  BY DEF TogoTest
<1>4. nav' \in Seq(Screens) /\ Len(nav') = Len(nav) + 2
  BY <1>1, <1>2, <1>3, ConcatProperties
<1>5. nav' # <<>>
  BY <1>1, <1>4, LenProperties
<1>. QED
  BY <1>3, <1>4, <1>5, NewDetailStep

LEMMA LiftFromStep ==
  ASSUME NEW S \in SUBSET Buttons, TestInv, LiftFrom(S)
  PROVE  TestInv'
<1>1. filed = <<>> /\ Answering
  BY DEF LiftFrom, TestInv, Finished
<1>2. filed' = <<>> /\ Answering'
  BY <1>1 DEF LiftFrom, Answering, detailVars
<1>3. TypeOK'
  BY DEF LiftFrom, TestInv, TypeOK, detailVars
<1>. QED
  BY <1>2, <1>3 DEF TestInv

LEMMA TestInvStep ==
  ASSUME TestInv, [Next]_vars
  PROVE  TestInv'
<1>1. nav \in Seq(Screens) /\ nav # <<>> /\ timers \in Nat
  BY DEF TestInv, TypeOK
<1>2. CASE TogoTest
  BY <1>2, TogoTestStep, Zenon
<1>9. CASE IsLoggedIn
  <2>1. nav' = Append(nav, "detail") /\ NewDetail /\ UNCHANGED <<timers, lifting>>
    BY <1>9 DEF IsLoggedIn
  <2>2. nav' \in Seq(Screens) /\ nav' # <<>>
    BY <1>1, <2>1, PushScreen DEF Screens
  <2>. QED
    BY <2>1, <2>2, NewDetailStep
<1>3. ASSUME NEW S \in SUBSET Buttons, LiftFrom(S) PROVE TestInv'
  BY <1>3, LiftFromStep, Zenon
<1>4. ASSUME NEW b \in Buttons, TouchAnswer(b) PROVE TestInv'
  BY <1>4, TouchStep, Zenon
<1>5. CASE MoveToResultScreen
  <2>1. nav' = Append(nav, "result") /\ timers' \in Nat /\ UNCHANGED <<lifting, detailVars>>
    BY <1>1, <1>5 DEF MoveToResultScreen
  <2>2. nav' \in Seq(Screens) /\ nav' # <<>> /\ Top' = "result"
    BY <1>1, <2>1, PushScreen DEF Screens
  <2>. QED
    BY <2>1, <2>2, OtherScreenStep
<1>6. CASE GotoTestScreen
  <2>1. nav' = Append(nav, "start") /\ timers' \in Nat /\ UNCHANGED <<lifting, detailVars>>
    BY <1>1, <1>6 DEF GotoTestScreen
  <2>2. nav' \in Seq(Screens) /\ nav' # <<>> /\ Top' = "start"
    BY <1>1, <2>1, PushScreen DEF Screens
  <2>. QED
    BY <2>1, <2>2, OtherScreenStep
<1>7. CASE PopToRoot
  <2>1. nav' = <<"start">> /\ timers' \in Nat /\ UNCHANGED <<lifting, detailVars>>
    BY <1>7 DEF PopToRoot
  <2>2. nav' \in Seq(Screens) /\ nav' # <<>> /\ Top' = "start"
    BY <2>1 DEF Screens, Top
  <2>. QED
    BY <2>1, <2>2, OtherScreenStep
<1>8. CASE UNCHANGED vars
  BY <1>8 DEF vars, TestInv, TypeOK, Answering, Finished, Top
<1>. QED
  BY <1>2, <1>3, <1>4, <1>5, <1>6, <1>7, <1>8, <1>9, Zenon DEF Next

LEMMA TestInvInit ==
  ASSUME Init
  PROVE  TestInv
<1>1. Total \in Nat \ {0}
  BY TotalAssumption
<1>2. TypeOK
  BY <1>1 DEF Init, TypeOK, Screens
<1>3. filed = <<>> /\ Answering
  BY DEF Init, Answering
<1>. QED
  BY <1>2, <1>3 DEF TestInv

-------------------------------------------------------------------------------
\* TestInv is an invariant of the questionnaire.
THEOREM TestInvariant == Spec => []TestInv
<1>. QED
  BY TestInvInit, TestInvStep, PTL DEF Spec

\* The controller's fields, the stack and the timers keep their types.
THEOREM TestTypeOK == Spec => []TypeOK
<1>1. TestInv => TypeOK
  BY DEF TestInv
<1>. QED
  BY <1>1, TestInvariant, PTL

\* The two counters, the bar and the scores advance together, question by
\* question, in the middle of a touch event too.
THEOREM TestCountersInStep == Spec => []CountersInStep
<1>1. TestInv => CountersInStep
  BY DEF TestInv, Answering, CountersInStep
<1>. QED
  BY <1>1, TestInvariant, PTL

\* The array that finishing the test files is the answers, each to the
\* question that was shown, in order.
THEOREM TestFirstFiling == Spec => []FirstFilingIsTheTest
<1>1. TestInv => FirstFilingIsTheTest
  BY DEF TestInv, Finished, FirstFilingIsTheTest
<1>. QED
  BY <1>1, TestInvariant, PTL

\* The realtime database is given that same array, once.
THEOREM TestUploadedOnce == Spec => []UploadedOnceAsFiled
<1>1. TestInv => UploadedOnceAsFiled
  BY DEF TestInv, Answering, Finished, UploadedOnceAsFiled
<1>. QED
  BY <1>1, TestInvariant, PTL

\* What is filed beyond the test is one short array for each further finger of
\* the finishing event: the covered questionnaire takes no new touch.
THEOREM TestExtraFilings == Spec => []ExtraFilingsAreFromOneEvent
<1>1. ASSUME TestInv PROVE ExtraFilingsAreFromOneEvent
  <2>1. CASE filed = <<>>
    BY <2>1 DEF ExtraFilingsAreFromOneEvent
  <2>2. CASE filed # <<>>
    BY <1>1, <2>2 DEF TestInv, Finished, ExtraFilingsAreFromOneEvent
  <2>. QED
    BY <2>1, <2>2
<1>. QED
  BY <1>1, TestInvariant, PTL
-------------------------------------------------------------------------------
\* A screen put on the stack counts among those of its kind, and no others.
LEMMA CountPush ==
  ASSUME NEW screen \in Screens, NEW kind, nav \in Seq(Screens), nav' = Append(nav, screen)
  PROVE  /\ Count(kind) \in Nat
         /\ Count(kind)' = IF screen = kind THEN Count(kind) + 1 ELSE Count(kind)
<1> DEFINE N == {n \in 1..Len(nav) : nav[n] = kind}
<1>1. /\ Len(nav) \in Nat /\ Len(nav') = Len(nav) + 1
      /\ \A n \in 1..Len(nav) : nav'[n] = nav[n]
      /\ nav'[Len(nav) + 1] = screen
  BY AppendProperties, LenProperties
<1>2. IsFiniteSet(N) /\ Cardinality(N) \in Nat
  <2>1. IsFiniteSet(1..Len(nav)) /\ N \in SUBSET (1..Len(nav))
    BY <1>1, FS_Interval
  <2> HIDE DEF N
  <2>. QED
    BY <2>1, FS_Subset, FS_CardinalityType
<1>3. Len(nav) + 1 \notin N
  BY <1>1
<1>4. {n \in 1..Len(nav') : nav'[n] = kind}
        = IF screen = kind THEN N \cup {Len(nav) + 1} ELSE N
  BY <1>1
<1>5. Cardinality(N \cup {Len(nav) + 1}) = Cardinality(N) + 1
  BY <1>2, <1>3, FS_AddElement
<1>6. Count(kind) = Cardinality(N) /\ Count(kind)' = Cardinality({n \in 1..Len(nav') : nav'[n] = kind})
  BY DEF Count
<1> HIDE DEF N
<1>. QED
  BY <1>2, <1>4, <1>5, <1>6

\* Each handler keeps the account of results and timers against spinners.
LEMMA SpinnerStep ==
  ASSUME TypeOK, EachSpinnerShowsOneResult, [Next]_vars
  PROVE  EachSpinnerShowsOneResult'
<1> USE DEF EachSpinnerShowsOneResult
<1>1. nav \in Seq(Screens) /\ timers \in Nat
  BY DEF TypeOK
<1>2. Count("result") \in Nat /\ Count("spinner") \in Nat
  <2>1. ASSUME NEW kind PROVE Count(kind) \in Nat
    <3> DEFINE N == {n \in 1..Len(nav) : nav[n] = kind}
    <3>1. Len(nav) \in Int
      BY <1>1, LenProperties
    <3>2. IsFiniteSet(1..Len(nav)) /\ N \in SUBSET (1..Len(nav))
      BY <3>1, FS_Interval
    <3>3. Count(kind) = Cardinality(N)
      BY DEF Count
    <3> HIDE DEF N
    <3>. QED
      BY <3>2, <3>3, FS_Subset, FS_CardinalityType
  <2>. QED
    BY <2>1, Zenon
<1>3. ASSUME NEW screen \in {"start", "detail"}, nav' = Append(nav, screen), timers' = timers
      PROVE  EachSpinnerShowsOneResult'
  <2>1. screen \in Screens /\ screen # "result" /\ screen # "spinner"
    BY <1>3 DEF Screens
  <2>2. Count("result")' = Count("result") /\ Count("spinner")' = Count("spinner")
    BY <1>1, <1>3, <2>1, CountPush, Zenon
  <2>. QED
    BY <1>3, <2>2
<1>4. CASE IsLoggedIn
  <2>1. nav' = Append(nav, "detail") /\ timers' = timers
    BY <1>4 DEF IsLoggedIn
  <2>. QED
    BY <1>3, <2>1
<1>5. CASE TogoTest
  <2>1. nav' = nav \o <<"detail", "detail">> /\ timers' = timers
    BY <1>5 DEF TogoTest
  <2>2. /\ Len(nav) \in Nat /\ Len(nav') = Len(nav) + 2
        /\ \A n \in 1..Len(nav) : nav'[n] = nav[n]
        /\ nav'[Len(nav) + 1] = "detail" /\ nav'[Len(nav) + 2] = "detail"
    BY <1>1, <2>1, LenProperties
  <2>3. ASSUME NEW kind \in {"result", "spinner"} PROVE Count(kind)' = Count(kind)
    <3>1. {n \in 1..Len(nav') : nav'[n] = kind} = {n \in 1..Len(nav) : nav[n] = kind}
      BY <2>2
    <3>. QED
      BY <3>1 DEF Count
  <2>. QED
    BY <2>1, <2>3
<1>6. ASSUME NEW b \in Buttons, TouchAnswer(b) PROVE EachSpinnerShowsOneResult'
  <2>1. CASE ShowNextQuestion
    BY <2>1 DEF ShowNextQuestion, Count
  <2>2. CASE FinishTest(Append(testScore, b))
    <3>1. nav' = Append(nav, "spinner") /\ timers' = timers + 1 /\ "spinner" \in Screens
      BY <2>2 DEF FinishTest, Screens
    <3>2. Count("result")' = Count("result") /\ Count("spinner")' = Count("spinner") + 1
      BY <1>1, <3>1, CountPush
    <3>. QED
      BY <1>1, <1>2, <3>1, <3>2
  <2>. QED
    BY <1>6, <2>1, <2>2 DEF TouchAnswer
<1>7. CASE MoveToResultScreen
  <2>1. nav' = Append(nav, "result") /\ timers' = timers - 1 /\ "result" \in Screens
    BY <1>7 DEF MoveToResultScreen, Screens
  <2>2. Count("result")' = Count("result") + 1 /\ Count("spinner")' = Count("spinner")
    BY <1>1, <2>1, CountPush
  <2>. QED
    BY <1>1, <1>2, <2>1, <2>2
<1>8. CASE GotoTestScreen
  <2>1. nav' = Append(nav, "start") /\ timers' = timers
    BY <1>8 DEF GotoTestScreen
  <2>. QED
    BY <1>3, <2>1
<1>9. CASE PopToRoot
  <2>1. nav' = <<"start">> /\ timers' = 0
    BY <1>9 DEF PopToRoot
  <2>2. ASSUME NEW kind \in {"result", "spinner"} PROVE Count(kind)' = 0
    <3>1. {n \in 1..Len(nav') : nav'[n] = kind} = {}
      BY <2>1
    <3>. QED
      BY <3>1, FS_EmptySet DEF Count
  <2>. QED
    BY <2>1, <2>2
<1>10. CASE UNCHANGED <<nav, timers>>
  BY <1>10 DEF Count
<1>11. ASSUME NEW S \in SUBSET Buttons, LiftFrom(S) PROVE UNCHANGED <<nav, timers>>
  BY <1>11 DEF LiftFrom
<1>12. UNCHANGED vars => UNCHANGED <<nav, timers>>
  BY DEF vars
<1>. QED
  BY <1>4, <1>5, <1>6, <1>7, <1>8, <1>9, <1>10, <1>11, <1>12 DEF Next

\* However often the tab is tapped while timers run, each spinner on the stack
\* has its two seconds running or has shown its one result.
THEOREM TestSpinners == Spec => []EachSpinnerShowsOneResult
<1>1. Init => EachSpinnerShowsOneResult
  <2> SUFFICES ASSUME Init PROVE EachSpinnerShowsOneResult
    OBVIOUS
  <2>1. nav = <<"start">> /\ timers = 0
    BY DEF Init
  <2>2. ASSUME NEW kind \in {"result", "spinner"} PROVE Count(kind) = 0
    <3>1. {n \in 1..Len(nav) : nav[n] = kind} = {}
      BY <2>1
    <3>. QED
      BY <3>1, FS_EmptySet DEF Count
  <2>. QED
    BY <2>1, <2>2 DEF EachSpinnerShowsOneResult
<1>. QED
  BY <1>1, SpinnerStep, TestTypeOK, PTL DEF Spec

\* While a spinner is what the user sees, two seconds are running that end it, and
\* until they do only another finger of the finishing event can cover it, by a
\* spinner of its own: no screen that a user could be stuck under, or sent back to
\* the questions from.
SpinnerHasItsTimer == Top = "spinner" => timers > 0
SpinnerGivesWay == [][Top = "spinner" => Top' \in {"spinner", "result", "start"}]_vars

\* What a step does to the screen on top and to the timers.
LEMMA TopStep ==
  ASSUME TypeOK, [Next]_vars
  PROVE  \/ UNCHANGED <<Top, timers>>
         \/ Top' = "spinner" /\ timers' = timers + 1
         \/ Top' \in {"result", "start"}
         \/ Top = "start" /\ Top' = "detail"
<1>1. nav \in Seq(Screens)
  BY DEF TypeOK
<1>2. ASSUME NEW screen \in Screens, nav' = Append(nav, screen) PROVE Top' = screen
  BY <1>1, <1>2, PushScreen
<1>3. {"start", "detail", "spinner", "result"} = Screens
  BY DEF Screens
<1>4. CASE IsLoggedIn
  <2>1. nav' = Append(nav, "detail") /\ Top = "start"
    BY <1>4 DEF IsLoggedIn
  <2>. QED
    BY <1>2, <1>3, <2>1
<1>5. CASE TogoTest
  <2>1. nav' = nav \o <<"detail", "detail">> /\ Top = "start"
    BY <1>5 DEF TogoTest
  <2>2. Len(nav) \in Nat /\ Len(nav') = Len(nav) + 2 /\ nav'[Len(nav) + 2] = "detail"
    BY <1>1, <2>1, LenProperties
  <2>. QED
    BY <2>1, <2>2 DEF Top
<1>6. ASSUME NEW b \in Buttons, TouchAnswer(b)
      PROVE  UNCHANGED <<Top, timers>> \/ (Top' = "spinner" /\ timers' = timers + 1)
  <2>1. CASE ShowNextQuestion
    BY <2>1 DEF ShowNextQuestion, Top
  <2>2. CASE FinishTest(Append(testScore, b))
    <3>1. nav' = Append(nav, "spinner") /\ timers' = timers + 1
      BY <2>2 DEF FinishTest
    <3>. QED
      BY <1>2, <1>3, <3>1
  <2>. QED
    BY <1>6, <2>1, <2>2 DEF TouchAnswer
<1>7. CASE MoveToResultScreen
  BY <1>2, <1>3, <1>7 DEF MoveToResultScreen
<1>8. CASE GotoTestScreen
  BY <1>2, <1>3, <1>8 DEF GotoTestScreen
<1>9. CASE PopToRoot
  <2>1. nav' = <<"start">>
    BY <1>9 DEF PopToRoot
  <2>. QED
    BY <2>1 DEF Top
<1>10. ASSUME NEW S \in SUBSET Buttons, LiftFrom(S) PROVE UNCHANGED <<Top, timers>>
  BY <1>10 DEF LiftFrom, Top
<1>11. UNCHANGED vars => UNCHANGED <<Top, timers>>
  BY DEF vars, Top
<1>. QED
  BY <1>4, <1>5, <1>6, <1>7, <1>8, <1>9, <1>10, <1>11 DEF Next

\* What SpinnerEnds rests on: at every step the screen on top has a running timer
\* as long as it is a spinner, and never gives way to a question.
THEOREM TestSpinnerHasItsTimer == Spec => []SpinnerHasItsTimer /\ SpinnerGivesWay
<1>1. Init => SpinnerHasItsTimer
  BY DEF Init, SpinnerHasItsTimer, Top
<1>2. TypeOK /\ SpinnerHasItsTimer /\ [Next]_vars => SpinnerHasItsTimer'
  <2>1. TypeOK => timers \in Nat
    BY DEF TypeOK
  <2>. QED
    BY <2>1, TopStep DEF SpinnerHasItsTimer
<1>3. TypeOK /\ [Next]_vars =>
        [Top = "spinner" => Top' \in {"spinner", "result", "start"}]_vars
  BY TopStep
<1>. QED
  BY <1>1, <1>2, <1>3, TestTypeOK, PTL DEF Spec, SpinnerGivesWay
===============================================================================
