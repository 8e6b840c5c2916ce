----------------------------- MODULE PolicyQuiz -----------------------------
(***************************************************************************)
(* The policy quiz that opens the game: the questions (oap-policy-quiz),   *)
(* the countdown that answers for a slow player (oap-countdown-timer-3d),  *)
(* and the part of oap-app that pays for the answers, loads the 3d font    *)
(* the countdown needs, opens the first dialogs and decides which page the *)
(* browser's history may lead to.                                          *)
(*                                                                         *)
(* The quiz is a new element each time its page is shown.  It counts       *)
(* answers from the first render, but can end one only once the countdown  *)
(* object exists, which takes the font and two timers after it.            *)
(***************************************************************************)
EXTENDS Integers

CONSTANTS
  Questions,    \* this.questions.length
  Seconds,      \* secondsLeft of a new countdown
  StartPoints,  \* totalChoicePoints of a new game
  MaxPasses,    \* bound: how many times the quiz is shown from its start
  NoSave        \* nothing in localStorage

ASSUME QuizAssumption ==
  /\ Questions \in Nat \ {0}
  /\ Seconds \in Nat \ {0}
  /\ StartPoints \in Nat
  /\ MaxPasses \in Nat \ {0}

VARIABLES
  page,         \* oap-app._page
  dialog,       \* the modal dialog over the page
  font,         \* font3d has been loaded
  total,        \* totalChoicePoints
  quizDone,     \* oap-app.quizDone
  disk,         \* the saved game
  passes,       \* how many quiz elements, or restarts of one, there were
  index,        \* currentIndex; Questions stands for null
  disabled,     \* submitDisabled
  right,        \* correctAnswers
  wrong,        \* incorrectAnswers
  feedback,     \* the 2.7 s or 3.3 s timer of submitAnswer is running
  stage,        \* what start() has made: nothing, the scene, the countdown
  counting,     \* inCountDown, and its one second timer is armed
  secondsLeft,  \* secondsLeft
  rewinds       \* two second tweens that end in resetAfterStop

app == <<page, dialog, font, quizDone, disk, passes>>
answers == <<index, disabled, right, wrong, feedback>>
countdown == <<counting, secondsLeft, rewinds>>
vars == <<app, total, answers, stage, countdown>>

WinPoints == 5

SavedGame == [page : {"quiz", "create-country"}, total : Nat, quizDone : BOOLEAN]

TypeOK ==
  /\ page \in {"quiz", "create-country"}
  /\ dialog \in {"welcome", "saved", "none"}
  /\ font \in BOOLEAN
  /\ total \in Nat
  /\ quizDone \in BOOLEAN
  /\ disk = NoSave \/ disk \in SavedGame
  /\ passes \in 1 .. MaxPasses
  /\ index \in 0 .. Questions
  /\ disabled \in BOOLEAN
  /\ right \in Nat /\ wrong \in Nat
  /\ feedback \in BOOLEAN
  /\ stage \in {"none", "starting", "scene", "ready"}
  /\ counting \in BOOLEAN
  /\ secondsLeft \in 0 .. Seconds
  /\ rewinds \in Nat

Init ==
  /\ page = "quiz" /\ dialog = "welcome" /\ font = FALSE
  /\ total = StartPoints /\ quizDone = FALSE
  /\ disk = NoSave /\ passes = 1
  /\ index = 0 /\ disabled = FALSE /\ right = 0 /\ wrong = 0 /\ feedback = FALSE
  /\ stage = "none"
  /\ counting = FALSE /\ secondsLeft = Seconds /\ rewinds = 0

-----------------------------------------------------------------------------
(***************************************************************************)
(* The quiz element comes and goes with its page.                          *)
(***************************************************************************)

Reset ==
  /\ index' = 0
  /\ disabled' = FALSE
  /\ right' = 0 /\ wrong' = 0

(* A new element: its first update resets it and, with the font there,      *)
(* starts to build the countdown.  The timers of the old element only reach *)
(* the old element.                                                         *)
NewElement(hasFont) ==
  /\ Reset
  /\ feedback' = FALSE
  /\ stage' = IF hasFont THEN "starting" ELSE "none"
  /\ counting' = FALSE /\ secondsLeft' = Seconds /\ rewinds' = 0

ShowQuiz(hasFont) ==
  /\ passes < MaxPasses
  /\ passes' = passes + 1
  /\ page' = "quiz"
  /\ NewElement(hasFont)

LeaveQuiz == page' = "create-country" /\ NewElement(FALSE)

(* The font may arrive at any time, also between two answers; the element   *)
(* on the page then starts over.                                            *)
LoadFont ==
  /\ ~font
  /\ font' = TRUE
  /\ IF page = "quiz"
     THEN Reset /\ stage' = "starting"
     ELSE UNCHANGED <<index, disabled, right, wrong, stage>>
  /\ UNCHANGED <<page, dialog, quizDone, disk, passes, total, feedback, countdown>>

(* The timers of start(): the scene and its lights, then the countdown. *)
BuildScene ==
  /\ stage = "starting"
  /\ stage' = "scene"
  /\ UNCHANGED <<app, total, answers, countdown>>

CreateCountDownTimer ==
  /\ stage = "scene"
  /\ stage' = "ready"
  /\ UNCHANGED <<app, total, answers, countdown>>

-----------------------------------------------------------------------------
(***************************************************************************)
(* Answers and the countdown.                                              *)
(***************************************************************************)

StartCountDown == secondsLeft' = Seconds /\ counting' = TRUE

(* stopCountDownWin and stopCountDownFail: one more tween will rewind. *)
StopCountDown_KeepsTimer == rewinds' = rewinds + 1 /\ UNCHANGED <<counting, secondsLeft>>
StopCountDown ==
  /\ counting' = FALSE
  /\ rewinds' = rewinds + 1
  /\ UNCHANGED secondsLeft

(* An answer lights the scene and stops the countdown, and throws where one *)
(* is missing.  A right answer is then at most counted, never paid, a wrong *)
(* one not counted, and no timer will enable the buttons again.             *)
Throws_NoGuard == FALSE
Throws == stage # "ready"

Lit == stage \in {"scene", "ready"}

SubmitRight ==
  /\ disabled' = TRUE
  /\ right' = IF Lit THEN right + 1 ELSE right
  /\ IF Throws
     THEN UNCHANGED <<total, feedback, countdown>>
     ELSE /\ StopCountDown
          /\ total' = total + WinPoints
          /\ feedback' = TRUE
  /\ UNCHANGED <<app, index, wrong, stage>>

SubmitWrong ==
  /\ disabled' = TRUE
  /\ IF Throws
     THEN UNCHANGED <<wrong, feedback, countdown>>
     ELSE /\ StopCountDown
          /\ wrong' = wrong + 1
          /\ feedback' = TRUE
  /\ UNCHANGED <<app, total, index, right, stage>>

(* The four buttons: disabled while submitDisabled, behind a modal dialog. *)
Answerable_AlwaysEnabled ==
  page = "quiz" /\ dialog = "none" /\ index < Questions
Answerable ==
  /\ page = "quiz"
  /\ dialog = "none"
  /\ index < Questions
  /\ ~disabled

Answer == Answerable /\ (SubmitRight \/ SubmitWrong)

Tick_PastZero ==
  /\ counting
  /\ secondsLeft' = secondsLeft - 1
  /\ UNCHANGED <<app, total, answers, stage, counting, rewinds>>
Tick ==
  /\ counting
  /\ secondsLeft > 0
  /\ secondsLeft' = secondsLeft - 1
  /\ UNCHANGED <<app, total, answers, stage, counting, rewinds>>

(* The tick after zero: the countdown answers for the player. *)
RanOutOfTime ==
  /\ counting
  /\ secondsLeft = 0
  /\ IF index < Questions
     THEN SubmitWrong
     ELSE StopCountDown /\ UNCHANGED <<app, total, answers, stage>>

(* Tweens run with the page's animation frames, which a hidden tab holds    *)
(* back, so a rewind may meet the countdown of a later question.            *)
ResetAfterStop ==
  /\ rewinds > 0
  /\ rewinds' = rewinds - 1
  /\ secondsLeft' = Seconds
  /\ UNCHANGED <<app, total, answers, stage, counting>>

NextQuestion_NoCountDown ==
  /\ feedback
  /\ index < Questions - 1
  /\ index' = index + 1
  /\ feedback' = FALSE
  /\ disabled' = FALSE
  /\ UNCHANGED <<app, total, right, wrong, stage, countdown>>
NextQuestion ==
  /\ feedback
  /\ index < Questions - 1
  /\ index' = index + 1
  /\ StartCountDown
  /\ feedback' = FALSE
  /\ disabled' = FALSE
  /\ UNCHANGED <<app, total, right, wrong, stage, rewinds>>

(* The timer of the last question: the app is told and changes the page. *)
QuizFinished ==
  /\ feedback
  /\ index = Questions - 1
  /\ quizDone' = TRUE
  /\ LeaveQuiz
  /\ UNCHANGED <<dialog, font, disk, passes, total>>

-----------------------------------------------------------------------------
(***************************************************************************)
(* The app around the quiz.                                                *)
(***************************************************************************)

(* The last welcome dialog is closed; the zero-delay timer after it starts  *)
(* the first countdown, or throws when there is no countdown object.        *)
CloseWelcome ==
  /\ dialog = "welcome"
  /\ dialog' = "none"
  /\ IF page = "quiz" /\ stage = "ready"
     THEN StartCountDown
     ELSE UNCHANGED <<counting, secondsLeft>>
  /\ UNCHANGED <<page, font, quizDone, disk, passes, total, answers, stage, rewinds>>

(* Back in the history to "/" or to a later page before the quiz is done:   *)
(* the guard in updated pushes /quiz again, but the element was replaced.   *)
BounceBack ==
  /\ page = "quiz"
  /\ ~quizDone
  /\ ShowQuiz(font)
  /\ UNCHANGED <<dialog, font, quizDone, disk, total>>

(* No guard keeps the quiz from being opened again by the back button ...   *)
BackToQuiz ==
  /\ page = "create-country"
  /\ ShowQuiz(font)
  /\ UNCHANGED <<dialog, font, quizDone, disk, total>>

(* ... nor, once it was done, from being left by the forward button.        *)
ForwardFromQuiz ==
  /\ page = "quiz"
  /\ quizDone
  /\ LeaveQuiz
  /\ UNCHANGED <<dialog, font, quizDone, disk, passes, total>>

(* The autosave is off while the choice of a saved game is open. *)
AutoSave ==
  /\ dialog # "saved"
  /\ disk' = [page |-> page, total |-> total, quizDone |-> quizDone]
  /\ disk' # disk
  /\ UNCHANGED <<page, dialog, font, quizDone, passes, total, answers, stage, countdown>>

(* The page is loaded: a new game, over which a dialog opens. *)
LoadPage(savedGame) ==
  /\ ShowQuiz(FALSE)
  /\ font' = FALSE
  /\ total' = StartPoints /\ quizDone' = FALSE
  /\ disk' = savedGame
  /\ dialog' = IF savedGame = NoSave THEN "welcome" ELSE "saved"

Reload == LoadPage(disk)

OpenNewGame == dialog = "saved" /\ LoadPage(NoSave)

(* On the quiz page the element under the dialog stays, without countdown. *)
RestoreGame ==
  /\ dialog = "saved"
  /\ dialog' = "none"
  /\ total' = disk.total
  /\ quizDone' = disk.quizDone
  /\ IF disk.page = "quiz"
     THEN UNCHANGED <<page, answers, stage, countdown>>
     ELSE LeaveQuiz
  /\ UNCHANGED <<font, disk, passes>>

-----------------------------------------------------------------------------
Next ==
  \/ LoadFont
  \/ BuildScene
  \/ CreateCountDownTimer
  \/ Answer
  \/ Tick
  \/ RanOutOfTime
  \/ ResetAfterStop
  \/ NextQuestion
  \/ QuizFinished
  \/ CloseWelcome
  \/ BounceBack
  \/ BackToQuiz
  \/ ForwardFromQuiz
  \/ AutoSave
  \/ Reload
  \/ OpenNewGame
  \/ RestoreGame

(* Timers and tweens run; the network and the player owe nothing. *)
Fairness ==
  /\ WF_vars(BuildScene)
  /\ WF_vars(CreateCountDownTimer)
  /\ WF_vars(Tick)
  /\ WF_vars(RanOutOfTime)
  /\ WF_vars(ResetAfterStop)
  /\ WF_vars(NextQuestion)
  /\ WF_vars(QuizFinished)

Spec == Init /\ [][Next]_vars /\ Fairness

-----------------------------------------------------------------------------
(***************************************************************************)
(* Properties.                                                             *)
(***************************************************************************)

(* Each question is answered once, by the player or by the countdown, never *)
(* by both: the answers counted are the questions passed and the one whose  *)
(* feedback is shown.                                                       *)
AnsweredOnce ==
  /\ feedback => disabled
  /\ feedback \/ ~disabled =>
       right + wrong = index + (IF feedback THEN 1 ELSE 0)

(* The quiz pays five points per right answer and pass, whatever reload,    *)
(* bounce, late font or timeout comes between: total and saved total stay   *)
(* below the worth of the passes that were begun.                           *)
PaidPerPass ==
  /\ total <= StartPoints + WinPoints * Questions * passes
  /\ disk # NoSave => disk.total <= StartPoints + WinPoints * Questions * passes

(* The font's start() discards no answer that was paid or counted wrong:    *)
(* before it no question can be got past.                                   *)
StartDiscardsNothing == ~font => index = 0 /\ wrong = 0 /\ ~feedback

(* Once the countdown runs the quiz ends without the player's help, unless  *)
(* the player starts it over.                                               *)
QuizEnds ==
  \A p \in 1 .. MaxPasses :
    (counting /\ passes = p) ~> (page # "quiz" \/ passes # p)
=============================================================================
