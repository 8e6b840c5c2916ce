-------------------------- MODULE PolicyQuizProofs --------------------------
(***************************************************************************)
(* Proofs about PolicyQuiz for every number of questions, seconds, starting *)
(* points and passes.                                                       *)
(*                                                                         *)
(* That a question is answered once rests on when the countdown runs: only *)
(* with the whole scene there and the buttons enabled.  That in turn rests *)
(* on the dialogs: the first countdown starts as the welcome dialog is     *)
(* closed, and behind a dialog nobody answers.  The points need a sharper  *)
(* bound than PaidPerPass, one that counts the questions of this pass.     *)
(***************************************************************************)
EXTENDS PolicyQuiz, TLAPS

Answered == index + (IF feedback THEN 1 ELSE 0)

(* What p passes over the quiz are worth. *)
Worth(p) == WinPoints * Questions * p

(* When the countdown runs and when a feedback timer does. *)
Phases ==
  /\ index < Questions
  /\ counting => /\ stage = "ready" /\ ~disabled /\ ~feedback
                 /\ page = "quiz" /\ dialog = "none"
  /\ feedback => stage = "ready" /\ disabled /\ page = "quiz"
  /\ stage # "none" => font
  /\ dialog # "none" => ~disabled /\ ~feedback
  /\ dialog = "saved" => disk # NoSave

(* The points of the passes before this one, and of the questions answered. *)
Points ==
  /\ page = "quiz" => total <= StartPoints + Worth(passes - 1) + WinPoints * Answered
  /\ total <= StartPoints + Worth(passes)
  /\ disk # NoSave => disk.total <= StartPoints + Worth(passes)
  /\ dialog = "saved" => disk.total <= StartPoints + Worth(passes - 1)

QuizInv ==
  /\ TypeOK
  /\ Phases
  /\ AnsweredOnce
  /\ StartDiscardsNothing
  /\ Points

(* One more pass is worth the points of all its questions. *)
LEMMA WorthOfOneMore ==
  ASSUME NEW p \in Nat
  PROVE  /\ Worth(p) \in Nat
         /\ Worth(p + 1) = Worth(p) + WinPoints * Questions
BY QuizAssumption DEF Worth, WinPoints

(* The same, counted from the pass that is under way. *)
LEMMA WorthOfThisPass ==
  ASSUME passes \in 1 .. MaxPasses
  PROVE  /\ passes \in Nat /\ passes - 1 \in Nat
         /\ Worth(passes - 1) \in Nat
         /\ Worth(passes) = Worth(passes - 1) + WinPoints * Questions
<1>1. passes - 1 \in Nat /\ (passes - 1) + 1 = passes
  BY QuizAssumption
<1>2. QED
  BY <1>1, WorthOfOneMore

(* A pass begun with no more points than the passes before it are worth.    *)
LEMMA NewPassKeepsPoints ==
  ASSUME TypeOK, NEW hasFont, ShowQuiz(hasFont),
         total' \in Nat, total' <= StartPoints + Worth(passes),
         disk' # NoSave => disk'.total \in Nat /\ disk'.total <= StartPoints + Worth(passes)
  PROVE  (disk' # NoSave \/ dialog' # "saved") => Points'
<1>1. passes' = passes + 1 /\ passes \in Nat /\ passes' - 1 = passes
  BY QuizAssumption DEF ShowQuiz, TypeOK
<1>2. /\ Worth(passes) \in Nat /\ WinPoints * Questions \in Nat
      /\ Worth(passes') = Worth(passes) + WinPoints * Questions
      /\ Worth(passes' - 1) = Worth(passes)
  BY <1>1, WorthOfOneMore, QuizAssumption DEF WinPoints
<1>3. WinPoints * Answered' = 0
  BY DEF ShowQuiz, NewElement, Reset, Answered, WinPoints
<1>4. total' <= StartPoints + Worth(passes' - 1) + WinPoints * Answered'
  BY <1>2, <1>3, QuizAssumption
<1>5. total' <= StartPoints + Worth(passes')
  BY <1>2, QuizAssumption
<1>6. disk' # NoSave => /\ disk'.total <= StartPoints + Worth(passes')
                       /\ disk'.total <= StartPoints + Worth(passes' - 1)
  BY <1>2, QuizAssumption
<1>7. QED
  BY <1>4, <1>5, <1>6 DEF Points

LEMMA InitEstablishesQuizInv == Init => QuizInv
<1> SUFFICES ASSUME Init PROVE QuizInv
  OBVIOUS
<1>1. Worth(0) = 0 /\ Worth(1) \in Nat /\ passes - 1 = 0
  BY WorthOfOneMore, QuizAssumption DEF Worth, WinPoints, Init
<1>2. TypeOK
  <2>1. 1 \in 1 .. MaxPasses /\ 0 \in 0 .. Questions /\ Seconds \in 0 .. Seconds
    BY QuizAssumption
  <2>2. QED
    BY <2>1, QuizAssumption DEF Init, TypeOK
<1>3. Phases /\ AnsweredOnce /\ StartDiscardsNothing
  BY QuizAssumption DEF Init, Phases, AnsweredOnce, StartDiscardsNothing
<1>4. Points
  BY <1>1, QuizAssumption DEF Init, Points, Answered, WinPoints
<1>5. QED
  BY <1>2, <1>3, <1>4 DEF QuizInv

-----------------------------------------------------------------------------
(* When the countdown runs out it submits a wrong answer, and nothing throws. *)
TimedOut ==
  /\ index < Questions /\ ~disabled /\ ~feedback /\ page = "quiz"
  /\ stage = "ready" /\ dialog = "none"
  /\ disabled' = TRUE /\ counting' = FALSE /\ feedback' = TRUE
  /\ rewinds' = rewinds + 1 /\ wrong' = wrong + 1
  /\ UNCHANGED <<app, total, index, right, stage, secondsLeft>>

LEMMA RanOutOfTimeAnswers ==
  ASSUME TypeOK, Phases, RanOutOfTime
  PROVE  TimedOut
<1>1. /\ index < Questions /\ ~disabled /\ ~feedback /\ page = "quiz"
      /\ stage = "ready" /\ dialog = "none"
  BY DEF RanOutOfTime, TypeOK, Phases
<1>2. /\ disabled' = TRUE /\ counting' = FALSE /\ feedback' = TRUE
      /\ rewinds' = rewinds + 1 /\ wrong' = wrong + 1
      /\ UNCHANGED <<app, total, index, right, stage, secondsLeft>>
  BY <1>1 DEF RanOutOfTime, SubmitWrong, Throws, StopCountDown, app
<1>3. QED
  BY <1>1, <1>2 DEF TimedOut

(* TypeOK in four parts. *)
AnswersTyped ==
  index \in 0 .. Questions /\ right \in Nat /\ wrong \in Nat /\ total \in Nat
CountersTyped ==
  secondsLeft \in 0 .. Seconds /\ rewinds \in Nat /\ passes \in 1 .. MaxPasses
FlagsTyped ==
  /\ disabled \in BOOLEAN /\ feedback \in BOOLEAN /\ counting \in BOOLEAN
  /\ stage \in {"none", "starting", "scene", "ready"}
AppTyped ==
  /\ page \in {"quiz", "create-country"} /\ dialog \in {"welcome", "saved", "none"}
  /\ font \in BOOLEAN /\ quizDone \in BOOLEAN
  /\ disk = NoSave \/ disk \in SavedGame

LEMMA TypeOKInParts ==
  AnswersTyped' /\ CountersTyped' /\ FlagsTyped' /\ AppTyped' => TypeOK'
BY DEF TypeOK, AnswersTyped, CountersTyped, FlagsTyped, AppTyped

(* Every action keeps the types. *)
LEMMA StepPreservesType == QuizInv /\ [Next]_vars => TypeOK'
<1> SUFFICES ASSUME QuizInv, [Next]_vars PROVE TypeOK'
  OBVIOUS
<1> USE DEF app, answers, countdown
<1>0. /\ TypeOK /\ Phases /\ AnsweredOnce /\ StartDiscardsNothing /\ Points
      /\ Questions \in Nat \ {0} /\ Seconds \in Nat \ {0} /\ StartPoints \in Nat
      /\ MaxPasses \in Nat \ {0}
      /\ 0 \in 0 .. Questions /\ Seconds \in 0 .. Seconds
  BY QuizAssumption DEF QuizInv
<1>1. CASE LoadFont
  <2>1. AnswersTyped'
    BY <1>0, <1>1 DEF LoadFont, Reset, TypeOK, AnswersTyped, WinPoints
  <2>2. CountersTyped'
    BY <1>0, <1>1 DEF LoadFont, Reset, TypeOK, CountersTyped
  <2>3. FlagsTyped'
    BY <1>0, <1>1 DEF LoadFont, Reset, TypeOK, FlagsTyped
  <2>4. AppTyped'
    BY <1>0, <1>1 DEF LoadFont, Reset, TypeOK, AppTyped
  <2>5. QED
    BY <2>1, <2>2, <2>3, <2>4, TypeOKInParts
<1>2. CASE BuildScene
  BY <1>0, <1>2 DEF BuildScene, TypeOK, WinPoints
<1>3. CASE CreateCountDownTimer
  BY <1>0, <1>3 DEF CreateCountDownTimer, TypeOK, WinPoints
<1>4. CASE Answer
  <2>1. AnswersTyped'
    BY <1>0, <1>4 DEF Answer, Answerable, SubmitRight, SubmitWrong, Throws, Lit,
         StopCountDown, TypeOK, AnswersTyped, WinPoints
  <2>2. CountersTyped'
    BY <1>0, <1>4 DEF Answer, Answerable, SubmitRight, SubmitWrong, Throws, Lit,
         StopCountDown, TypeOK, CountersTyped
  <2>3. FlagsTyped'
    BY <1>0, <1>4 DEF Answer, Answerable, SubmitRight, SubmitWrong, Throws, Lit,
         StopCountDown, TypeOK, FlagsTyped
  <2>4. AppTyped'
    BY <1>0, <1>4 DEF Answer, Answerable, SubmitRight, SubmitWrong, Throws, Lit,
         StopCountDown, TypeOK, AppTyped
  <2>5. QED
    BY <2>1, <2>2, <2>3, <2>4, TypeOKInParts
<1>5. CASE Tick
  BY <1>0, <1>5 DEF Tick, TypeOK, WinPoints
<1>r. RanOutOfTime => TimedOut
  BY <1>0, RanOutOfTimeAnswers
<1>6. CASE RanOutOfTime
  <2>1. AnswersTyped'
    BY <1>0, <1>6, <1>r DEF TimedOut, TypeOK, AnswersTyped, WinPoints
  <2>2. CountersTyped'
    BY <1>0, <1>6, <1>r DEF TimedOut, TypeOK, CountersTyped
  <2>3. FlagsTyped'
    BY <1>0, <1>6, <1>r DEF TimedOut, TypeOK, FlagsTyped
  <2>4. AppTyped'
    BY <1>0, <1>6, <1>r DEF TimedOut, TypeOK, AppTyped
  <2>5. QED
    BY <2>1, <2>2, <2>3, <2>4, TypeOKInParts
<1>7. CASE ResetAfterStop
  BY <1>0, <1>7 DEF ResetAfterStop, TypeOK, WinPoints
<1>8. CASE NextQuestion
  <2>1. AnswersTyped'
    BY <1>0, <1>8 DEF NextQuestion, StartCountDown, TypeOK, AnswersTyped, WinPoints
  <2>2. CountersTyped'
    BY <1>0, <1>8 DEF NextQuestion, StartCountDown, TypeOK, CountersTyped
  <2>3. FlagsTyped'
    BY <1>0, <1>8 DEF NextQuestion, StartCountDown, TypeOK, FlagsTyped
  <2>4. AppTyped'
    BY <1>0, <1>8 DEF NextQuestion, StartCountDown, TypeOK, AppTyped
  <2>5. QED
    BY <2>1, <2>2, <2>3, <2>4, TypeOKInParts
<1>9. CASE QuizFinished
  BY <1>0, <1>9 DEF QuizFinished, LeaveQuiz, NewElement, Reset, TypeOK, WinPoints
<1>10. CASE CloseWelcome
  BY <1>0, <1>10 DEF CloseWelcome, StartCountDown, TypeOK, WinPoints
<1>11. CASE BounceBack
  <2>1. AnswersTyped'
    BY <1>0, <1>11 DEF BounceBack, ShowQuiz, NewElement, Reset, TypeOK, AnswersTyped, WinPoints
  <2>2. CountersTyped'
    BY <1>0, <1>11 DEF BounceBack, ShowQuiz, NewElement, Reset, TypeOK, CountersTyped
  <2>3. FlagsTyped'
    BY <1>0, <1>11 DEF BounceBack, ShowQuiz, NewElement, Reset, TypeOK, FlagsTyped
  <2>4. AppTyped'
    BY <1>0, <1>11 DEF BounceBack, ShowQuiz, NewElement, Reset, TypeOK, AppTyped
  <2>5. QED
    BY <2>1, <2>2, <2>3, <2>4, TypeOKInParts
<1>12. CASE BackToQuiz
  <2>1. AnswersTyped'
    BY <1>0, <1>12 DEF BackToQuiz, ShowQuiz, NewElement, Reset, TypeOK, AnswersTyped, WinPoints
  <2>2. CountersTyped'
    BY <1>0, <1>12 DEF BackToQuiz, ShowQuiz, NewElement, Reset, TypeOK, CountersTyped
  <2>3. FlagsTyped'
    BY <1>0, <1>12 DEF BackToQuiz, ShowQuiz, NewElement, Reset, TypeOK, FlagsTyped
  <2>4. AppTyped'
    BY <1>0, <1>12 DEF BackToQuiz, ShowQuiz, NewElement, Reset, TypeOK, AppTyped
  <2>5. QED
    BY <2>1, <2>2, <2>3, <2>4, TypeOKInParts
<1>13. CASE ForwardFromQuiz
  BY <1>0, <1>13 DEF ForwardFromQuiz, LeaveQuiz, NewElement, Reset, TypeOK,
       WinPoints
<1>14. CASE AutoSave
  BY <1>0, <1>14 DEF AutoSave, TypeOK, SavedGame, WinPoints
<1>15. CASE Reload
  <2>1. AnswersTyped'
    BY <1>0, <1>15 DEF Reload, LoadPage, ShowQuiz, NewElement, Reset, TypeOK, AnswersTyped,
         WinPoints
  <2>2. CountersTyped'
    BY <1>0, <1>15 DEF Reload, LoadPage, ShowQuiz, NewElement, Reset, TypeOK, CountersTyped
  <2>3. FlagsTyped'
    BY <1>0, <1>15 DEF Reload, LoadPage, ShowQuiz, NewElement, Reset, TypeOK, FlagsTyped
  <2>4. AppTyped'
    BY <1>0, <1>15 DEF Reload, LoadPage, ShowQuiz, NewElement, Reset, TypeOK, AppTyped
  <2>5. QED
    BY <2>1, <2>2, <2>3, <2>4, TypeOKInParts
<1>16. CASE OpenNewGame
  <2>1. AnswersTyped'
    BY <1>0, <1>16 DEF OpenNewGame, LoadPage, ShowQuiz, NewElement, Reset,
         TypeOK, AnswersTyped, WinPoints
  <2>2. CountersTyped'
    BY <1>0, <1>16 DEF OpenNewGame, LoadPage, ShowQuiz, NewElement, Reset, TypeOK, CountersTyped
  <2>3. FlagsTyped'
    BY <1>0, <1>16 DEF OpenNewGame, LoadPage, ShowQuiz, NewElement, Reset, TypeOK, FlagsTyped
  <2>4. AppTyped'
    BY <1>0, <1>16 DEF OpenNewGame, LoadPage, ShowQuiz, NewElement, Reset, TypeOK, AppTyped
  <2>5. QED
    BY <2>1, <2>2, <2>3, <2>4, TypeOKInParts
<1>17. CASE RestoreGame
  <2>1. AnswersTyped'
    BY <1>0, <1>17 DEF RestoreGame, LeaveQuiz, NewElement, Reset, TypeOK, AnswersTyped,
         WinPoints, Phases, SavedGame
  <2>2. CountersTyped'
    BY <1>0, <1>17 DEF RestoreGame, LeaveQuiz, NewElement, Reset, TypeOK, CountersTyped
  <2>3. FlagsTyped'
    BY <1>0, <1>17 DEF RestoreGame, LeaveQuiz, NewElement, Reset, TypeOK, FlagsTyped
  <2>4. AppTyped'
    BY <1>0, <1>17 DEF RestoreGame, LeaveQuiz, NewElement, Reset, TypeOK, AppTyped,
         Phases, SavedGame
  <2>5. QED
    BY <2>1, <2>2, <2>3, <2>4, TypeOKInParts
<1>18. CASE UNCHANGED vars
  BY <1>0, <1>18 DEF vars, TypeOK
<1>19. QED
  BY <1>1, <1>2, <1>3, <1>4, <1>5, <1>6, <1>7, <1>8, <1>9, <1>10, <1>11, <1>12,
     <1>13, <1>14, <1>15, <1>16, <1>17, <1>18 DEF Next

(* Every action keeps the countdown to its phase. *)
LEMMA StepPreservesPhases == QuizInv /\ [Next]_vars => Phases'
<1> SUFFICES ASSUME QuizInv, [Next]_vars PROVE Phases'
  OBVIOUS
<1> USE DEF app, answers, countdown
<1>0. /\ TypeOK /\ Phases /\ AnsweredOnce /\ StartDiscardsNothing /\ Points
      /\ Questions \in Nat \ {0} /\ Seconds \in Nat \ {0} /\ StartPoints \in Nat
      /\ MaxPasses \in Nat \ {0}
      /\ 0 \in 0 .. Questions /\ Seconds \in 0 .. Seconds
  BY QuizAssumption DEF QuizInv
<1>1. CASE LoadFont
  BY <1>0, <1>1 DEF LoadFont, Reset, TypeOK, Phases
<1>2. CASE BuildScene
  BY <1>0, <1>2 DEF BuildScene, TypeOK, Phases
<1>3. CASE CreateCountDownTimer
  BY <1>0, <1>3 DEF CreateCountDownTimer, TypeOK, Phases
<1>4. CASE Answer
  BY <1>0, <1>4 DEF Answer, Answerable, SubmitRight, SubmitWrong, Throws, Lit,
       StopCountDown, TypeOK, Phases
<1>5. CASE Tick
  BY <1>0, <1>5 DEF Tick, TypeOK, Phases
<1>r. RanOutOfTime => TimedOut
  BY <1>0, RanOutOfTimeAnswers
<1>6. CASE RanOutOfTime
  BY <1>0, <1>6, <1>r DEF TimedOut, TypeOK, Phases
<1>7. CASE ResetAfterStop
  BY <1>0, <1>7 DEF ResetAfterStop, TypeOK, Phases
<1>8. CASE NextQuestion
  BY <1>0, <1>8 DEF NextQuestion, StartCountDown, TypeOK, Phases
<1>9. CASE QuizFinished
  BY <1>0, <1>9 DEF QuizFinished, LeaveQuiz, NewElement, Reset, TypeOK, Phases
<1>10. CASE CloseWelcome
  BY <1>0, <1>10 DEF CloseWelcome, StartCountDown, TypeOK, Phases
<1>11. CASE BounceBack
  BY <1>0, <1>11 DEF BounceBack, ShowQuiz, NewElement, Reset, TypeOK, Phases
<1>12. CASE BackToQuiz
  BY <1>0, <1>12 DEF BackToQuiz, ShowQuiz, NewElement, Reset, TypeOK, Phases
<1>13. CASE ForwardFromQuiz
  BY <1>0, <1>13 DEF ForwardFromQuiz, LeaveQuiz, NewElement, Reset, TypeOK, Phases
<1>14. CASE AutoSave
  BY <1>0, <1>14 DEF AutoSave, TypeOK, Phases
<1>15. CASE Reload
  BY <1>0, <1>15 DEF Reload, LoadPage, ShowQuiz, NewElement, Reset, TypeOK, Phases
<1>16. CASE OpenNewGame
  BY <1>0, <1>16 DEF OpenNewGame, LoadPage, ShowQuiz, NewElement, Reset, TypeOK,
       Phases
<1>17. CASE RestoreGame
  BY <1>0, <1>17 DEF RestoreGame, LeaveQuiz, NewElement, Reset, TypeOK, Phases
<1>18. CASE UNCHANGED vars
  BY <1>0, <1>18 DEF vars, Phases
<1>19. QED
  BY <1>1, <1>2, <1>3, <1>4, <1>5, <1>6, <1>7, <1>8, <1>9, <1>10, <1>11, <1>12,
     <1>13, <1>14, <1>15, <1>16, <1>17, <1>18 DEF Next

(* No action counts a question twice or throws an answer away. *)
LEMMA StepPreservesAnswers == QuizInv /\ [Next]_vars => (AnsweredOnce /\ StartDiscardsNothing)'
<1> SUFFICES ASSUME QuizInv, [Next]_vars PROVE (AnsweredOnce /\ StartDiscardsNothing)'
  OBVIOUS
<1> USE DEF app, answers, countdown
<1>0. /\ TypeOK /\ Phases /\ AnsweredOnce /\ StartDiscardsNothing /\ Points
      /\ Questions \in Nat \ {0} /\ Seconds \in Nat \ {0} /\ StartPoints \in Nat
      /\ MaxPasses \in Nat \ {0}
      /\ 0 \in 0 .. Questions /\ Seconds \in 0 .. Seconds
  BY QuizAssumption DEF QuizInv
<1>1. CASE LoadFont
  BY <1>0, <1>1 DEF LoadFont, Reset, TypeOK, Phases, AnsweredOnce,
       StartDiscardsNothing
<1>2. CASE BuildScene
  BY <1>0, <1>2 DEF BuildScene, TypeOK, Phases, AnsweredOnce, StartDiscardsNothing
<1>3. CASE CreateCountDownTimer
  BY <1>0, <1>3 DEF CreateCountDownTimer, TypeOK, Phases, AnsweredOnce,
       StartDiscardsNothing
<1>4. CASE Answer
  BY <1>0, <1>4 DEF Answer, Answerable, SubmitRight, SubmitWrong, Throws, Lit,
       StopCountDown, TypeOK, Phases, AnsweredOnce, StartDiscardsNothing
<1>5. CASE Tick
  BY <1>0, <1>5 DEF Tick, TypeOK, Phases, AnsweredOnce, StartDiscardsNothing
<1>r. RanOutOfTime => TimedOut
  BY <1>0, RanOutOfTimeAnswers
<1>6. CASE RanOutOfTime
  BY <1>0, <1>6, <1>r DEF TimedOut, TypeOK, Phases, AnsweredOnce,
       StartDiscardsNothing
<1>7. CASE ResetAfterStop
  BY <1>0, <1>7 DEF ResetAfterStop, TypeOK, Phases, AnsweredOnce,
       StartDiscardsNothing
<1>8. CASE NextQuestion
  BY <1>0, <1>8 DEF NextQuestion, StartCountDown, TypeOK, Phases, AnsweredOnce,
       StartDiscardsNothing
<1>9. CASE QuizFinished
  BY <1>0, <1>9 DEF QuizFinished, LeaveQuiz, NewElement, Reset, TypeOK, Phases,
       AnsweredOnce, StartDiscardsNothing
<1>10. CASE CloseWelcome
  BY <1>0, <1>10 DEF CloseWelcome, StartCountDown, TypeOK, Phases, AnsweredOnce,
       StartDiscardsNothing
<1>11. CASE BounceBack
  BY <1>0, <1>11 DEF BounceBack, ShowQuiz, NewElement, Reset, TypeOK, Phases,
       AnsweredOnce, StartDiscardsNothing
<1>12. CASE BackToQuiz
  BY <1>0, <1>12 DEF BackToQuiz, ShowQuiz, NewElement, Reset, TypeOK, Phases,
       AnsweredOnce, StartDiscardsNothing
<1>13. CASE ForwardFromQuiz
  BY <1>0, <1>13 DEF ForwardFromQuiz, LeaveQuiz, NewElement, Reset, TypeOK,
       Phases, AnsweredOnce, StartDiscardsNothing
<1>14. CASE AutoSave
  BY <1>0, <1>14 DEF AutoSave, TypeOK, Phases, AnsweredOnce, StartDiscardsNothing
<1>15. CASE Reload
  BY <1>0, <1>15 DEF Reload, LoadPage, ShowQuiz, NewElement, Reset, TypeOK,
       Phases, AnsweredOnce, StartDiscardsNothing
<1>16. CASE OpenNewGame
  BY <1>0, <1>16 DEF OpenNewGame, LoadPage, ShowQuiz, NewElement, Reset, TypeOK,
       Phases, AnsweredOnce, StartDiscardsNothing
<1>17. CASE RestoreGame
  BY <1>0, <1>17 DEF RestoreGame, LeaveQuiz, NewElement, Reset, TypeOK, Phases,
       AnsweredOnce, StartDiscardsNothing
<1>18. CASE UNCHANGED vars
  BY <1>0, <1>18 DEF vars, AnsweredOnce, StartDiscardsNothing
<1>19. QED
  BY <1>1, <1>2, <1>3, <1>4, <1>5, <1>6, <1>7, <1>8, <1>9, <1>10, <1>11, <1>12,
     <1>13, <1>14, <1>15, <1>16, <1>17, <1>18 DEF Next

(* No action pays more than the questions of the passes are worth. *)
LEMMA StepPreservesPoints == QuizInv /\ [Next]_vars => Points'
<1> SUFFICES ASSUME QuizInv, [Next]_vars PROVE Points'
  OBVIOUS
<1> USE DEF app, answers, countdown
<1>0. /\ TypeOK /\ Phases /\ AnsweredOnce /\ StartDiscardsNothing /\ Points
      /\ Questions \in Nat \ {0} /\ Seconds \in Nat \ {0} /\ StartPoints \in Nat
      /\ MaxPasses \in Nat \ {0}
      /\ 0 \in 0 .. Questions /\ Seconds \in 0 .. Seconds
  BY QuizAssumption DEF QuizInv
<1>s. /\ disk # NoSave => disk.total \in Nat
      /\ passes \in Nat /\ Worth(passes) \in Nat
  <2>1. passes \in Nat
    BY <1>0 DEF TypeOK
  <2>2. QED
    BY <1>0, <2>1, WorthOfOneMore DEF TypeOK, SavedGame
<1>1. CASE LoadFont
  BY <1>0, <1>1, WorthOfThisPass, WorthOfOneMore DEF LoadFont, Reset, TypeOK,
       Phases, StartDiscardsNothing, Points, Answered, WinPoints
<1>2. CASE BuildScene
  BY <1>0, <1>2, WorthOfThisPass, WorthOfOneMore DEF BuildScene, TypeOK, Phases,
       StartDiscardsNothing, Points, Answered, WinPoints
<1>3. CASE CreateCountDownTimer
  BY <1>0, <1>3, WorthOfThisPass, WorthOfOneMore DEF CreateCountDownTimer, TypeOK,
       Phases, StartDiscardsNothing, Points, Answered, WinPoints
<1>4. CASE Answer
  BY <1>0, <1>4, WorthOfThisPass, WorthOfOneMore DEF Answer, Answerable,
       SubmitRight, SubmitWrong, Throws, Lit, StopCountDown, TypeOK, Phases,
       StartDiscardsNothing, Points, Answered, WinPoints
<1>5. CASE Tick
  BY <1>0, <1>5, WorthOfThisPass, WorthOfOneMore DEF Tick, TypeOK, Phases,
       StartDiscardsNothing, Points, Answered, WinPoints
<1>r. RanOutOfTime => TimedOut
  BY <1>0, RanOutOfTimeAnswers
<1>6. CASE RanOutOfTime
  BY <1>0, <1>6, <1>r, WorthOfThisPass, WorthOfOneMore DEF TimedOut, TypeOK,
       Phases, StartDiscardsNothing, Points, Answered, WinPoints
<1>7. CASE ResetAfterStop
  BY <1>0, <1>7, WorthOfThisPass, WorthOfOneMore DEF ResetAfterStop, TypeOK,
       Phases, StartDiscardsNothing, Points, Answered, WinPoints
<1>8. CASE NextQuestion
  BY <1>0, <1>8, WorthOfThisPass, WorthOfOneMore DEF NextQuestion, StartCountDown,
       TypeOK, Phases, StartDiscardsNothing, Points, Answered, WinPoints
<1>9. CASE QuizFinished
  BY <1>0, <1>9, WorthOfThisPass, WorthOfOneMore DEF QuizFinished, LeaveQuiz,
       NewElement, Reset, TypeOK, Phases, StartDiscardsNothing, Points, Answered,
       WinPoints
<1>10. CASE CloseWelcome
  BY <1>0, <1>10, WorthOfThisPass, WorthOfOneMore DEF CloseWelcome,
       StartCountDown, TypeOK, Phases, StartDiscardsNothing, Points, Answered,
       WinPoints
<1>11. CASE BounceBack
  <2>1. ShowQuiz(font) /\ total' \in Nat /\ total' <= StartPoints + Worth(passes)
    BY <1>0, <1>s, <1>11 DEF BounceBack, TypeOK, Points
  <2>2. disk' # NoSave => disk'.total \in Nat /\ disk'.total <= StartPoints + Worth(passes)
    BY <1>0, <1>s, <1>11 DEF BounceBack, Points
  <2>3. disk' # NoSave \/ dialog' # "saved"
    BY <1>0, <1>11 DEF BounceBack, Phases
  <2>4. QED
    BY <1>0, <2>1, <2>2, <2>3, NewPassKeepsPoints
<1>12. CASE BackToQuiz
  <2>1. ShowQuiz(font) /\ total' \in Nat /\ total' <= StartPoints + Worth(passes)
    BY <1>0, <1>s, <1>12 DEF BackToQuiz, TypeOK, Points
  <2>2. disk' # NoSave => disk'.total \in Nat /\ disk'.total <= StartPoints + Worth(passes)
    BY <1>0, <1>s, <1>12 DEF BackToQuiz, Points
  <2>3. disk' # NoSave \/ dialog' # "saved"
    BY <1>0, <1>12 DEF BackToQuiz, Phases
  <2>4. QED
    BY <1>0, <2>1, <2>2, <2>3, NewPassKeepsPoints
<1>13. CASE ForwardFromQuiz
  BY <1>0, <1>13, WorthOfThisPass, WorthOfOneMore DEF ForwardFromQuiz, LeaveQuiz,
       NewElement, Reset, TypeOK, Phases, StartDiscardsNothing, Points, Answered,
       WinPoints
<1>14. CASE AutoSave
  BY <1>0, <1>14, WorthOfThisPass, WorthOfOneMore DEF AutoSave, TypeOK, Phases,
       StartDiscardsNothing, Points, Answered, WinPoints
<1>15. CASE Reload
  <2>1. ShowQuiz(FALSE) /\ total' = StartPoints
    BY <1>15 DEF Reload, LoadPage
  <2>2. total' \in Nat /\ total' <= StartPoints + Worth(passes)
    BY <1>0, <1>s, <2>1
  <2>3. disk' # NoSave => disk'.total \in Nat /\ disk'.total <= StartPoints + Worth(passes)
    BY <1>0, <1>s, <1>15 DEF Reload, LoadPage, Points
  <2>4. disk' # NoSave \/ dialog' # "saved"
    BY <1>0, <1>15 DEF Reload, LoadPage, Phases
  <2>5. QED
    BY <1>0, <2>1, <2>2, <2>3, <2>4, NewPassKeepsPoints
<1>16. CASE OpenNewGame
  <2>1. ShowQuiz(FALSE) /\ total' = StartPoints
    BY <1>16 DEF OpenNewGame, LoadPage
  <2>2. total' \in Nat /\ total' <= StartPoints + Worth(passes)
    BY <1>0, <1>s, <2>1
  <2>3. disk' # NoSave => disk'.total \in Nat /\ disk'.total <= StartPoints + Worth(passes)
    BY <1>0, <1>s, <1>16 DEF OpenNewGame, LoadPage, Points
  <2>4. disk' # NoSave \/ dialog' # "saved"
    BY <1>0, <1>16 DEF OpenNewGame, LoadPage, Phases
  <2>5. QED
    BY <1>0, <2>1, <2>2, <2>3, <2>4, NewPassKeepsPoints
<1>17. CASE RestoreGame
  <2>1. dialog = "saved" /\ disk # NoSave /\ total' = disk.total /\ disk.total \in Nat
    BY <1>0, <1>s, <1>17 DEF RestoreGame, Phases
  <2>2. /\ Worth(passes - 1) \in Nat /\ WinPoints * Questions \in Nat
        /\ Worth(passes) = Worth(passes - 1) + WinPoints * Questions
        /\ Worth(passes)' = Worth(passes) /\ Worth(passes - 1)' = Worth(passes - 1)
    BY <1>0, <1>17, WorthOfThisPass, QuizAssumption DEF RestoreGame, TypeOK,
         WinPoints, Worth
  <2>3. /\ index \in Nat
        /\ (index' = index \/ index' = 0) /\ feedback' = FALSE
    BY <1>0, <1>17 DEF RestoreGame, LeaveQuiz, NewElement, Reset, TypeOK, Phases
  <2>4. Answered' = index \/ Answered' = 0
    BY <2>3 DEF Answered
  <2>5. WinPoints * Answered' \in Nat
    BY <2>3, <2>4 DEF WinPoints
  <2>6. QED
    BY <1>0, <1>17, <2>1, <2>2, <2>5 DEF RestoreGame, Points
<1>18. CASE UNCHANGED vars
  BY <1>0, <1>18 DEF vars, Points, Answered
<1>19. QED
  BY <1>1, <1>2, <1>3, <1>4, <1>5, <1>6, <1>7, <1>8, <1>9, <1>10, <1>11, <1>12,
     <1>13, <1>14, <1>15, <1>16, <1>17, <1>18 DEF Next

LEMMA StepPreservesQuizInv == QuizInv /\ [Next]_vars => QuizInv'
BY StepPreservesType, StepPreservesPhases, StepPreservesAnswers, StepPreservesPoints
   DEF QuizInv

-----------------------------------------------------------------------------
(* The inductive invariant holds in every reachable state of the quiz. *)
THEOREM QuizInvariant == Spec => []QuizInv
<1>1. Init => QuizInv
  BY InitEstablishesQuizInv
<1>2. QuizInv /\ [Next]_vars => QuizInv'
  BY StepPreservesQuizInv
<1>3. QED
  BY <1>1, <1>2, PTL DEF Spec

(* The state of app, quiz and countdown keeps its type for any number of    *)
(* questions: the countdown never goes below zero, and no path leads past   *)
(* the last question.                                                       *)
THEOREM QuizTypeCorrect == Spec => []TypeOK
<1>1. QuizInv => TypeOK
  BY DEF QuizInv
<1>2. QED
  BY <1>1, QuizInvariant, PTL

(* No question is answered both by the player (submitAnswer) and by the     *)
(* countdown (ranOutOfTime), whichever timer comes first.                   *)
THEOREM QuizAnsweredOnce == Spec => []AnsweredOnce
<1>1. QuizInv => AnsweredOnce
  BY DEF QuizInv
<1>2. QED
  BY <1>1, QuizInvariant, PTL

(* However often the page is bounced, reloaded or restored, the points in   *)
(* the game and in localStorage stay within five per question and pass.     *)
THEOREM QuizPaidPerPass == Spec => []PaidPerPass
<1>1. QuizInv => PaidPerPass
  BY DEF QuizInv, Points, PaidPerPass, Worth
<1>2. QED
  BY <1>1, QuizInvariant, PTL

(* The late start() of the quiz throws no paid answer away: until the font  *)
(* is there the first question cannot be got past.                          *)
THEOREM QuizStartDiscardsNothing == Spec => []StartDiscardsNothing
<1>1. QuizInv => StartDiscardsNothing
  BY DEF QuizInv
<1>2. QED
  BY <1>1, QuizInvariant, PTL
=============================================================================
