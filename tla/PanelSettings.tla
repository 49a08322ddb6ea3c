---------------------------- MODULE PanelSettings ----------------------------
(***************************************************************************)
(* The one row of settings (core/services/panel_settings.py, automation.py,*)
(* routers/settings.py): created by whoever asks first, edited by several  *)
(* people at once, read by every job. A request reads the row, merges what *)
(* it was sent into what it read, checks the whole, and writes at its      *)
(* commit the columns that differ.                                         *)
(***************************************************************************)
EXTENDS Naturals, FiniteSets

CONSTANTS
    Rows,               \* the rows the table may come to have
    Editors,            \* requests handled at the same time
    Ranges,             \* of each field of AutomationSettings: the values within its bounds
    Defaults,           \* AutomationSettings()
    Requests,           \* what is sent: [automation |-> some fields and their values], or
                        \* other columns of the row
    Zones, NoZone,      \* time zones; a name that is none
    MaxEdits            \* bound: requests

Fields == DOMAIN Ranges

\* check_consistency: values that are right one by one and senseless together. Trust
\* and the threshold are in tenths.
Consistent(a) ==
    /\ a.min_trust_score < a.max_trust_score
    /\ a.selection_score_threshold <= 10 * a.min_trust_score
    /\ a.min_rewrite_stock <= a.max_daily_batch * a.rewrite_stock_days

Valid(a) == (\A f \in Fields : a[f] \in Ranges[f]) /\ Consistent(a)

ASSUME SettingsAssumption ==
    /\ Defaults \in [Fields -> Nat] /\ Valid(Defaults)
    /\ Fields = {"min_trust_score", "max_trust_score", "selection_score_threshold",
                 "min_rewrite_stock", "max_daily_batch", "rewrite_stock_days"}
    /\ \A f \in Fields : Ranges[f] \subseteq Nat
    /\ \A request \in Requests :
          DOMAIN request = {"automation"} \/ DOMAIN request \subseteq {"timezone", "pool_cooldown_days"}
    /\ NoZone \notin Zones /\ Zones # {} /\ MaxEdits \in Nat

VARIABLES
    row,        \* the rows, <<>> where there is none
    edit,       \* of each editor: the row it read, what it read and was sent; <<>>: nothing
    edits       \* requests still to come

settingsVars == <<row, edit, edits>>

\* PanelSettings(): the defaults.
FirstRow == [automation |-> Defaults, timezone |-> CHOOSE z \in Zones : TRUE, pool_cooldown_days |-> 7]
There == {r \in Rows : row[r] # <<>>}

SettingsRow == [automation : [Fields -> Nat], timezone : Zones, pool_cooldown_days : Nat]

SettingsTypeOK ==
    /\ row \in [Rows -> SettingsRow \union {<<>>}]
    /\ edit \in [Editors -> [at : Rows, new : BOOLEAN, sent : Requests, read : [Fields -> Nat]] \union {<<>>}]
    /\ edits \in 0 .. MaxEdits

SettingsInit ==
    /\ row = [r \in Rows |-> <<>>]
    /\ edit = [e \in Editors |-> <<>>]
    /\ edits = MaxEdits

\* The fields of new over those of old; what old has not, is ignored.
Over(new, old) == [f \in DOMAIN old |-> IF f \in DOMAIN new THEN new[f] ELSE old[f]]

\* get_or_create_panel_settings: some row (LIMIT 1), or a new one, which no other session
\* sees before the commit; then the request is checked, a set of values as a whole. A
\* request that is refused is rolled back, with the row it has created.
Read(e, request) ==
    /\ edits > 0 /\ edits' = edits - 1
    /\ edit[e] = <<>>
    /\ \E r \in IF There = {} THEN Rows ELSE There :
          LET held == IF There = {} THEN FirstRow ELSE row[r]
          IN  /\ "automation" \in DOMAIN request => Valid(Over(request.automation, held.automation))
              /\ "timezone" \in DOMAIN request => request.timezone \in Zones
              /\ "pool_cooldown_days" \in DOMAIN request => request.pool_cooldown_days \in Nat
              /\ edit' = [edit EXCEPT ![e] = [at |-> r, new |-> There = {}, sent |-> request,
                                            read |-> held.automation]]
    /\ UNCHANGED row

\* Mutant of Written: the fields that were sent, over the others as they are by now.
WrittenByField(old, ed) ==
    IF "automation" \in DOMAIN ed.sent THEN [old EXCEPT !.automation = Over(ed.sent.automation, @)]
                                       ELSE Over(ed.sent, old)

\* The columns that differ from what was read, over the row as it is by now;
\* set_automation's column is the whole set.
Written(old, ed) ==
    CASE "automation" \notin DOMAIN ed.sent -> Over(ed.sent, old)
      [] "automation" \in DOMAIN ed.sent ->
            IF Over(ed.sent.automation, ed.read) = ed.read THEN old
            ELSE [old EXCEPT !.automation = Over(ed.sent.automation, ed.read)]

Commit(e) ==
    /\ edit[e] # <<>>
    /\ IF edit[e].new
       THEN \E r \in Rows \ There : row' = [row EXCEPT ![r] = Written(FirstRow, edit[e])]
       ELSE row' = [row EXCEPT ![edit[e].at] = Written(@, edit[e])]
    /\ edit' = [edit EXCEPT ![e] = <<>>]
    /\ UNCHANGED edits

SettingsNext == \E e \in Editors : Commit(e) \/ \E request \in Requests : Read(e, request)

-----------------------------------------------------------------------------
\* Whatever is edited at the same time, every row a job may read has a set of values that
\* check_consistency accepts: get_automation checks it again on every read, so that a bad
\* set would stop every job. (An edit can be lost: the set is written whole, as it was
\* read. And two first requests make two rows.)
SettingsConsistent == \A r \in There : Valid(row[r].automation)
=============================================================================
