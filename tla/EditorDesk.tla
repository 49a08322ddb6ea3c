----------------------------- MODULE EditorDesk -----------------------------
(***************************************************************************)
(* Posts reviewed in Telegram: the theme bots with their editors           *)
(* (handlers/editor_review.py) and the admin bot with the operator         *)
(* (handlers/admin_review.py, admin_start.py). All bots run in one process *)
(* and share the handlers' two tables of texts that are waited for, kept   *)
(* by chat; the handlers of the admin bot look at every update first.      *)
(***************************************************************************)
EXTENDS Naturals, FiniteSets, SequencesExt

CONSTANTS
    ThemeBots, AdminBot,    \* the bots; the theme of a theme bot is the bot
    People,                 \* who writes to them; a private chat has its person's id
    Editor,                 \* editor_chat_id of each theme bot
    Drafts,                 \* posts in review
    Home,                   \* the theme of each of them
    NoDraft, NoPerson,
    MaxExamples,            \* MAX_LEARNED_EXAMPLES
    MaxActs                 \* bound: how much the people do

ASSUME EditorAssumption ==
    /\ AdminBot \notin ThemeBots
    /\ Editor \in [ThemeBots -> People] /\ Home \in [Drafts -> ThemeBots]
    /\ NoDraft \notin Drafts /\ NoPerson \notin People /\ IsFiniteSet(People)
    /\ MaxActs \in Nat /\ MaxExamples \in Nat \ {0}

VARIABLES
    draft,              \* the status of each post
    fixes, pending,     \* _pending_fixes, _pending_edits: by chat
    saving,             \* texts taken, not yet committed
    taught,             \* examples_good of each theme's bot: the posts whose texts they are
    notify,             \* notify_chat_id of the admin bot
    presses,            \* history: how often Fix or Edit was pressed for each post
    changed,            \* history: how often its text was changed
    acts

editorVars == <<draft, fixes, pending, saving, taught, notify, presses, changed, acts>>

AllBots == ThemeBots \union {AdminBot}

EditorTypeOK ==
    /\ draft \in [Drafts -> {"in review", "approved", "rejected"}]
    /\ fixes \in [People -> Drafts \union {NoDraft}] /\ pending \in [People -> Drafts \union {NoDraft}]
    /\ saving \subseteq [bot : AllBots, who : People, post : Drafts]
    /\ taught \in [ThemeBots -> Seq(Drafts)]
    /\ \A b \in ThemeBots : Len(taught[b]) <= MaxExamples /\ IsInjective(taught[b])
    /\ notify \in People \union {NoPerson}
    /\ presses \in [Drafts -> 0 .. MaxActs] /\ changed \in [Drafts -> 0 .. MaxActs]
    /\ acts \in 0 .. MaxActs

EditorInit ==
    /\ draft = [p \in Drafts |-> "in review"]
    /\ fixes = [c \in People |-> NoDraft] /\ pending = [c \in People |-> NoDraft]
    /\ saving = {} /\ taught = [b \in ThemeBots |-> <<>>] /\ notify = NoPerson
    /\ presses = [p \in Drafts |-> 0] /\ changed = [p \in Drafts |-> 0]
    /\ acts = MaxActs

Act == acts > 0 /\ acts' = acts - 1

\* The theme bots' cards are for the editor and for posts of the theme; the admin bot asks
\* nobody who they are.
MayPress(bot, who, p) == bot # AdminBot => Editor[bot] = who /\ Home[p] = bot

\* on_approve, on_reject of both.
Decide(bot, who, p, status) ==
    /\ Act /\ MayPress(bot, who, p)
    /\ draft[p] = "in review"
    /\ draft' = [draft EXCEPT ![p] = status]
    /\ UNCHANGED <<fixes, pending, saving, taught, notify, presses, changed>>

\* on_fix, on_edit: the last one pressed is waited for, whatever the bot.
Press(bot, who, p) ==
    /\ Act /\ MayPress(bot, who, p)
    /\ IF bot = AdminBot THEN pending' = [pending EXCEPT ![who] = p] /\ UNCHANGED fixes
                         ELSE fixes' = [fixes EXCEPT ![who] = p] /\ UNCHANGED pending
    /\ presses' = [presses EXCEPT ![p] = @ + 1]
    /\ UNCHANGED <<draft, saving, taught, notify, changed>>

\* Mutant of Taken: the entry is looked up and stays.
TakenAndKept(table, who) == table

\* The entry is popped before anything is awaited.
Taken(table, who) == [table EXCEPT ![who] = NoDraft]

\* on_edit_text, on_fix_text: a chat that is waited for. The admin bot's handler has the
\* first look, and leaves nothing of a text sent to a theme bot; the editor's, of a text
\* sent to the admin bot. Somebody who is no editor of this bot loses the entry.
Text(bot, who) ==
    /\ Act
    /\ \/ /\ pending[who] # NoDraft /\ bot = AdminBot
          /\ pending' = Taken(pending, who)
          /\ saving' = saving \union {[bot |-> bot, who |-> who, post |-> pending[who]]}
          /\ UNCHANGED fixes
       \/ /\ pending[who] = NoDraft /\ fixes[who] # NoDraft /\ bot \in ThemeBots
          /\ fixes' = Taken(fixes, who)
          /\ saving' = IF Editor[bot] = who
                       THEN saving \union {[bot |-> bot, who |-> who, post |-> fixes[who]]} ELSE saving
          /\ UNCHANGED pending
    /\ UNCHANGED <<draft, taught, notify, presses, changed>>

\* remember_good_example: the last ones, each once (no text is there twice, so that to take
\* out the first of its kind is to take out all).
Remember(examples, p) ==
    LET all == Append(RemoveFirst(examples, p), p)
    IN  SubSeq(all, IF Len(all) > MaxExamples THEN Len(all) - MaxExamples + 1 ELSE 1, Len(all))

\* edit_candidate_text and remember_good_example, committed; refused when the post is in
\* review no more.
SaveText(s) ==
    /\ s \in saving /\ saving' = saving \ {s}
    /\ IF draft[s.post] = "in review"
       THEN /\ changed' = [changed EXCEPT ![s.post] = @ + 1]
            /\ taught' = [b \in ThemeBots |-> IF b = s.bot THEN Remember(taught[b], s.post) ELSE taught[b]]
       ELSE UNCHANGED <<changed, taught>>
    /\ UNCHANGED <<draft, fixes, pending, notify, presses, acts>>

\* on_start of admin_start.py; the same command to a theme bot is answered by nobody.
StartAdmin(who) ==
    /\ Act
    /\ notify' = who
    /\ UNCHANGED <<draft, fixes, pending, saving, taught, presses, changed>>

\* A restart: the tables were in memory.
BotsRestart ==
    /\ Act
    /\ fixes' = [c \in People |-> NoDraft] /\ pending' = [c \in People |-> NoDraft]
    /\ saving' = {}
    /\ UNCHANGED <<draft, taught, notify, presses, changed>>

EditorNext ==
    \/ \E who \in People :
          \/ StartAdmin(who)
          \/ \E bot \in AllBots :
                \/ Text(bot, who)
                \/ \E p \in Drafts : Press(bot, who, p) \/ \E s \in {"approved", "rejected"} : Decide(bot, who, p, s)
    \/ \E s \in saving : SaveText(s)
    \/ BotsRestart

-----------------------------------------------------------------------------
\* A text sent to a bot changes a post only where Fix or Edit was pressed for that post,
\* and once for each press, in whatever order the presses and texts of several bots
\* come and handlers of one chat overlap. (Which bot it was sent to is not looked at: a
\* text may be put into the examples of another theme's bot.)
EditsFollowPresses == \A p \in Drafts : changed[p] <= presses[p]
=============================================================================
