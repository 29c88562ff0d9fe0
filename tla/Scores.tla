-------------------------------- MODULE Scores ---------------------------------
(***************************************************************************)
(* The scores of a finished test, which the app computes in three places:  *)
(* ProfileViewModel for the user and once more for all users, and          *)
(* TestDetailViewModel.uploadData for the realtime database.               *)
(*                                                                         *)
(* A test is the sequence of its answers, empty in the entry that a        *)
(* registration writes.  The source counts answers from 0.  An average is  *)
(* kept as the fraction it is, sum over divisor; with no tests at all the  *)
(* divisor is 0 and the Double is not a number.                            *)
(***************************************************************************)
EXTENDS Integers, Sequences, FiniteSets, Functions

TestLength == 15
Categories == 1..3 \* depression, anxiety, stress

\* The answers at these places of all the tests, added up.
Total(tests, places) ==
  SumFunction([k \in DOMAIN tests |-> SumFunction([i \in places |-> tests[k][i + 1]])])

\* Reading the answer at a place that a test does not have ends the process.
ReadsPastEnd(tests) == \E k \in DOMAIN tests : Len(tests[k]) < TestLength

\* The three averages, added up over the given places of each category.
Averages(tests, places) ==
  [c \in Categories |-> [sum |-> Total(tests, places[c]), over |-> 5 * Len(tests)]]

\* Mutant of UserPlaces: the places of uploadData, but for the last category.
UserPlacesMutant == <<0..4, 5..9, 11..14>>

\* The cases of the switch in calculateUserAverageScore.
UserPlaces == <<0..4, 5..10, 11..14>>
CalculateUserAverageScore(tests) == Averages(tests, UserPlaces)

\* calculateAllUserAverageScore repeats the loop and the switch.
AllUserPlaces == <<0..4, 5..10, 11..14>>
CalculateAllUserAverageScore(tests) == Averages(tests, AllUserPlaces)

\* What uploadData stores of one test, each a third of these sums.
UploadPlaces == <<0..4, 5..9, 10..14>>
UploadSums(test) == [c \in Categories |-> Total(<<test>>, UploadPlaces[c])]

\* Mutant of AverageTestScore: two of the six fields swapped.
AverageTestScoreMutant(list) ==
  [depression |-> list[1], anxiety |-> list[2], stress |-> list[3],
   allDepression |-> list[4], allAnxiety |-> list[6], allStress |-> list[5]]

\* The six averages by name, from the list of the user's and then all users'.
AverageTestScore(list) ==
  [depression |-> list[1], anxiety |-> list[2], stress |-> list[3],
   allDepression |-> list[4], allAnxiety |-> list[5], allStress |-> list[6]]

\* The bars of the chart, left to right: each category has the user's bar and
\* beside it that of all users.
Bars(average) ==
  <<average.depression, average.allDepression, average.anxiety,
    average.allAnxiety, average.stress, average.allStress>>
================================================================================
