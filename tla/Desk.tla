-------------------------------- MODULE Desk --------------------------------
(***************************************************************************)
(* What the people who run the project work with: the panel's pages of a   *)
(* theme (ThemeDesk), of the settings (PanelSettings), of the accounts     *)
(* (AccountLogin) and of the assistant (Assistant), the process of the     *)
(* bots (BotRunner) with the review in Telegram (EditorDesk), and the text *)
(* they are shown (Markup). They share rows this module does not follow    *)
(* from one to the other: in a behaviour one of them moves.                *)
(***************************************************************************)
EXTENDS ThemeDesk, PanelSettings, AccountLogin, BotRunner, EditorDesk, Assistant, Markup

CONSTANT
    Texts           \* what the model writes

ASSUME TextsAssumption == Texts \subseteq Seq(Characters)

Parts == {"theme", "settings", "login", "runner", "editor", "question", "markup"}

VARIABLES
    part,           \* the part that moves
    text            \* a text to be sent

vars == <<part, deskVars, settingsVars, loginVars, runnerVars, editorVars,
          questionVars, text>>

TypeOK ==
    /\ part \in Parts
    /\ DeskTypeOK /\ SettingsTypeOK /\ LoginTypeOK /\ RunnerTypeOK
    /\ EditorTypeOK /\ QuestionTypeOK

\* The parts that do not move are as they begin.
Init ==
    /\ part \in Parts
    /\ text \in IF part = "markup" THEN Texts ELSE {<<>>}
    /\ life \in IF part = "theme" THEN [Themes -> Backgrounds] ELSE {[t \in Themes |-> CHOOSE g \in Backgrounds : TRUE]}
    /\ listed \in IF part = "runner" THEN [RunBots -> FirstRows] ELSE {[b \in RunBots |-> Nothing]}
    /\ DeskInit /\ SettingsInit /\ LoginInit /\ RunnerInit
    /\ EditorInit /\ QuestionInit

\* What a part leaves alone.
ButTheme == <<part, settingsVars, loginVars, runnerVars, editorVars, questionVars, text>>
ButSettings == <<part, deskVars, loginVars, runnerVars, editorVars, questionVars, text>>
ButLogin == <<part, deskVars, settingsVars, runnerVars, editorVars, questionVars, text>>
ButRunner == <<part, deskVars, settingsVars, loginVars, editorVars, questionVars, text>>
ButReview == <<part, deskVars, settingsVars, loginVars, runnerVars, questionVars, text>>
ButQuestion == <<part, deskVars, settingsVars, loginVars, runnerVars, editorVars, text>>

Next ==
    \/ part = "theme" /\ DeskNext /\ UNCHANGED ButTheme
    \/ part = "settings" /\ SettingsNext /\ UNCHANGED ButSettings
    \/ part = "login" /\ LoginNext /\ UNCHANGED ButLogin
    \/ part = "runner" /\ RunnerNext /\ UNCHANGED ButRunner
    \/ part = "editor" /\ EditorNext /\ UNCHANGED ButReview
    \/ part = "question" /\ QuestionNext /\ UNCHANGED ButQuestion

\* The runner's loop goes on for ever, and a task that waits begins again; a question is
\* worked on (litellm gives a call up after a time).
Fairness ==
    /\ WF_vars(part = "runner" /\ (Load \/ Apply) /\ UNCHANGED ButRunner)
    /\ \A b \in RunBots : WF_vars(part = "runner" /\ StartPolling(b) /\ UNCHANGED ButRunner)
    /\ WF_vars(part = "question" /\ QuestionNext /\ UNCHANGED ButQuestion)

Spec == Init /\ [][Next]_vars /\ Fairness

-----------------------------------------------------------------------------
\* A question ends, and an answer's rounds are booked but in the one case Booked names.
AnswerComes == part = "question" => QuestionEnds

\* What Telegram is sent is well formed, with every word of the text.
RenderedWellFormed == Rendered(text)
=============================================================================
