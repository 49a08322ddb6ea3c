------------------------------ MODULE DeskProofs ------------------------------
(***************************************************************************)
(* Desk for any rows, editors, people, posts, calls and texts: every part  *)
(* keeps its type, the settings stay consistent, an edit follows a press,  *)
(* the panel shows why a theme is silent, an answer's rounds are booked,   *)
(* and what Telegram is sent is well formed.                               *)
(***************************************************************************)
EXTENDS Desk, MarkupProofs, FiniteSetTheorems

\* The rows there are hold valid sets.
RowsValid ==
    /\ DOMAIN row = Rows
    /\ \A r \in There : "automation" \in DOMAIN row[r] /\ Valid(row[r].automation)

\* What an editor has read and was sent, taken together, is valid, and a row that was
\* there when it was read is there still.
EditsValid ==
    /\ DOMAIN edit = Editors
    /\ \A e \in Editors : edit[e] # <<>> =>
          /\ "automation" \in DOMAIN edit[e].sent => Valid(Over(edit[e].sent.automation, edit[e].read))
          /\ edit[e].new \in BOOLEAN
          /\ ~edit[e].new => edit[e].at \in There

SettingsInv == RowsValid /\ EditsValid

\* The columns a request writes leave a valid set valid.
LEMMA WrittenValid ==
    ASSUME NEW old, NEW ed,
           "automation" \in DOMAIN old, Valid(old.automation),
           "automation" \in DOMAIN ed.sent => Valid(Over(ed.sent.automation, ed.read))
    PROVE  /\ "automation" \in DOMAIN Written(old, ed)
           /\ Valid(Written(old, ed).automation)
<1>1. CASE "automation" \notin DOMAIN ed.sent
  <2>1. Written(old, ed) = [f \in DOMAIN old |-> IF f \in DOMAIN ed.sent THEN ed.sent[f] ELSE old[f]]
    BY <1>1 DEF Written, Over
  <2>2. Written(old, ed).automation = old.automation
    BY <1>1, <2>1
  <2>3. QED
    BY <2>1, <2>2
<1>2. CASE "automation" \in DOMAIN ed.sent
  <2> DEFINE merged == Over(ed.sent.automation, ed.read)
  <2>1. Written(old, ed) = old \/ Written(old, ed) = [old EXCEPT !.automation = merged]
    BY <1>2 DEF Written
  <2>2. Valid(merged)
    BY <1>2
  <2> HIDE DEF merged
  <2>3. QED
    BY <2>1, <2>2
<1>3. QED
  BY <1>1, <1>2

\* A row that is made is not the empty one.
LEMMA FirstRowValid == "automation" \in DOMAIN FirstRow /\ Valid(FirstRow.automation)
  BY SettingsAssumption DEF FirstRow

LEMMA ReadKeepsSettings ==
    ASSUME SettingsInv, NEW e \in Editors, NEW request \in Requests, Read(e, request)
    PROVE  SettingsInv'
<1>1. UNCHANGED row /\ There' = There
  BY DEF Read, There
<1>2. PICK r \in IF There = {} THEN Rows ELSE There :
         LET held == IF There = {} THEN FirstRow ELSE row[r]
         IN  /\ "automation" \in DOMAIN request => Valid(Over(request.automation, held.automation))
             /\ edit' = [edit EXCEPT ![e] = [at |-> r, new |-> There = {}, sent |-> request,
                                            read |-> held.automation]]
  BY DEF Read
<1>3. RowsValid'
  BY <1>1 DEF SettingsInv, RowsValid
<1>4. DOMAIN edit' = Editors /\ \A d \in Editors \ {e} : edit'[d] = edit[d]
  BY <1>2 DEF SettingsInv, EditsValid
<1>5. /\ edit'[e].sent = request
      /\ edit'[e].read = (IF There = {} THEN FirstRow ELSE row[r]).automation
      /\ edit'[e].new = (There = {}) /\ edit'[e].at = r
  BY <1>2 DEF SettingsInv, EditsValid
<1>6. "automation" \in DOMAIN edit'[e].sent => Valid(Over(edit'[e].sent.automation, edit'[e].read))
  BY <1>2, <1>5
<1>7. edit'[e].new \in BOOLEAN /\ (~edit'[e].new => edit'[e].at \in There)
  BY <1>2, <1>5
<1>8. EditsValid'
  BY <1>1, <1>4, <1>6, <1>7 DEF SettingsInv, EditsValid, Valid, Over
<1>9. QED
  BY <1>3, <1>8 DEF SettingsInv

LEMMA CommitKeepsSettings ==
    ASSUME SettingsInv, NEW e \in Editors, Commit(e)
    PROVE  SettingsInv'
<1> DEFINE ed == edit[e]
<1>1. ed # <<>> /\ edit' = [edit EXCEPT ![e] = <<>>]
  BY DEF Commit
<1>2. \E r \in Rows : \E old :
         /\ row' = [row EXCEPT ![r] = Written(old, ed)]
         /\ "automation" \in DOMAIN old /\ Valid(old.automation)
  <2>1. CASE ed.new
    BY <2>1, FirstRowValid DEF Commit
  <2>2. CASE ~ed.new
    <3>1. ed.at \in There /\ ed.at \in Rows
      BY <1>1, <2>2 DEF SettingsInv, EditsValid, There
    <3>2. row' = [row EXCEPT ![ed.at] = Written(row[ed.at], ed)]
      BY <2>2, <3>1 DEF Commit, SettingsInv, RowsValid
    <3>3. "automation" \in DOMAIN row[ed.at] /\ Valid(row[ed.at].automation)
      BY <3>1 DEF SettingsInv, RowsValid
    <3>4. QED
      BY <3>1, <3>2, <3>3
  <2>3. QED
    BY <1>1, <2>1, <2>2 DEF SettingsInv, EditsValid
<1>3. PICK r \in Rows : \E old :
         /\ row' = [row EXCEPT ![r] = Written(old, ed)]
         /\ "automation" \in DOMAIN old /\ Valid(old.automation)
  BY <1>2
<1>4. PICK old :
         /\ row' = [row EXCEPT ![r] = Written(old, ed)]
         /\ "automation" \in DOMAIN old /\ Valid(old.automation)
  BY <1>3
<1>5. "automation" \in DOMAIN Written(old, ed) /\ Valid(Written(old, ed).automation)
  BY <1>1, <1>4, WrittenValid DEF SettingsInv, EditsValid
<1>6. DOMAIN row' = Rows /\ \A q \in Rows : row'[q] = IF q = r THEN Written(old, ed) ELSE row[q]
  BY <1>4 DEF SettingsInv, RowsValid
<1>7. RowsValid'
  BY <1>5, <1>6 DEF SettingsInv, RowsValid, There, Valid
<1>8. There \subseteq There'
  <2>1. DOMAIN <<>> = {}
    OBVIOUS
  <2>2. Written(old, ed) # <<>>
    BY <1>5, <2>1
  <2>3. QED
    BY <1>6, <2>2 DEF There
<1>9. DOMAIN edit' = Editors /\ edit'[e] = <<>> /\ \A d \in Editors \ {e} : edit'[d] = edit[d]
  BY <1>1 DEF SettingsInv, EditsValid
<1>10. EditsValid'
  BY <1>8, <1>9 DEF SettingsInv, EditsValid, Valid, Over
<1>11. QED
  BY <1>7, <1>10 DEF SettingsInv

LEMMA SettingsSteps == SettingsInv /\ [Next]_vars => SettingsInv'
<1> SUFFICES ASSUME SettingsInv, [Next]_vars PROVE SettingsInv'
  OBVIOUS
<1>1. CASE part = "settings" /\ SettingsNext
  BY <1>1, ReadKeepsSettings, CommitKeepsSettings DEF SettingsNext
<1>2. CASE UNCHANGED settingsVars
  BY <1>2 DEF SettingsInv, RowsValid, EditsValid, settingsVars, There, Valid, Over
<1>3. (part = "settings" /\ SettingsNext) \/ UNCHANGED settingsVars
  BY DEF Next, vars, ButTheme, ButLogin, ButRunner, ButReview, ButQuestion
<1>4. QED
  BY <1>1, <1>2, <1>3

\* Every set of values a job may read is one that check_consistency accepts (automation.py),
\* for any number of requests at the same time.
THEOREM SettingsAreConsistent == Spec => []SettingsConsistent
<1>1. Init => SettingsInv
  BY DEF Init, SettingsInit, SettingsInv, RowsValid, EditsValid, There
<1>2. SettingsInv => SettingsConsistent
  BY DEF SettingsInv, RowsValid, SettingsConsistent
<1>3. QED
  BY <1>1, <1>2, SettingsSteps, PTL DEF Spec

-----------------------------------------------------------------------------
\* What is still open for a post: the texts being saved, and the chats waited for.
Saves(p) == {s \in saving : s.post = p}
Fixing(p) == {c \in People : fixes[c] = p}
Editing(p) == {c \in People : pending[c] = p}

EditTypes ==
    /\ fixes \in [People -> Drafts \union {NoDraft}] /\ pending \in [People -> Drafts \union {NoDraft}]
    /\ saving \subseteq [bot : AllBots, who : People, post : Drafts] /\ IsFiniteSet(saving)
    /\ presses \in [Drafts -> Nat] /\ changed \in [Drafts -> Nat]

\* Each press is waited for, being saved, spent on a change, or lost.
PressesCover ==
    \A p \in Drafts :
       changed[p] + Cardinality(Saves(p)) + Cardinality(Fixing(p)) + Cardinality(Editing(p)) <= presses[p]

EditInv == EditTypes /\ PressesCover

LEMMA OneMore ==
    ASSUME NEW A, NEW B, NEW x, IsFiniteSet(A), B \subseteq A \union {x}
    PROVE  IsFiniteSet(B) /\ Cardinality(B) \in Nat /\ Cardinality(B) <= Cardinality(A) + 1
<1>1. /\ IsFiniteSet(A \union {x}) /\ Cardinality(A) \in Nat
      /\ Cardinality(A \union {x}) <= Cardinality(A) + 1
  <2>1. /\ IsFiniteSet(A \union {x})
        /\ Cardinality(A \union {x}) = Cardinality(A) \/ Cardinality(A \union {x}) = Cardinality(A) + 1
    BY FS_AddElement
  <2>2. Cardinality(A) \in Nat
    BY FS_CardinalityType
  <2>3. QED
    BY <2>1, <2>2
<1>2. IsFiniteSet(B) /\ Cardinality(B) <= Cardinality(A \union {x})
  BY <1>1, FS_Subset
<1>3. QED
  BY <1>1, <1>2, FS_CardinalityType

LEMMA OneLess ==
    ASSUME NEW A, NEW B, NEW x \in A, IsFiniteSet(A), B \subseteq A \ {x}
    PROVE  IsFiniteSet(B) /\ Cardinality(B) \in Nat /\ Cardinality(B) + 1 <= Cardinality(A)
<1>1. /\ IsFiniteSet(A \ {x}) /\ Cardinality(A) \in Nat
      /\ Cardinality(A \ {x}) = Cardinality(A) - 1
  BY FS_RemoveElement, FS_CardinalityType
<1>2. IsFiniteSet(B) /\ Cardinality(B) <= Cardinality(A \ {x})
  BY <1>1, FS_Subset
<1>3. Cardinality(B) \in Nat
  BY <1>2, FS_CardinalityType
<1>4. QED
  BY <1>1, <1>2, <1>3

LEMMA NotMore ==
    ASSUME NEW A, NEW B, IsFiniteSet(A), B \subseteq A
    PROVE  IsFiniteSet(B) /\ Cardinality(B) \in Nat /\ Cardinality(B) <= Cardinality(A)
  BY FS_Subset, FS_CardinalityType

\* The sets counted are finite.
LEMMA OpenFinite ==
    ASSUME EditTypes, NEW p \in Drafts
    PROVE  /\ IsFiniteSet(Saves(p)) /\ IsFiniteSet(Fixing(p)) /\ IsFiniteSet(Editing(p))
           /\ Cardinality(Saves(p)) \in Nat /\ Cardinality(Fixing(p)) \in Nat
           /\ Cardinality(Editing(p)) \in Nat
           /\ changed[p] \in Nat /\ presses[p] \in Nat
<1>1. IsFiniteSet(People) /\ IsFiniteSet(saving)
  BY EditorAssumption DEF EditTypes
<1>2. Saves(p) \subseteq saving /\ Fixing(p) \subseteq People /\ Editing(p) \subseteq People
  BY DEF Saves, Fixing, Editing
<1>3. QED
  BY <1>1, <1>2, NotMore DEF EditTypes

LEMMA PressKeepsEdits ==
    ASSUME EditInv, NEW b \in AllBots, NEW who \in People, NEW q \in Drafts, Press(b, who, q)
    PROVE  EditInv'
<1>1. /\ IF b = AdminBot THEN pending' = [pending EXCEPT ![who] = q] /\ fixes' = fixes
                           ELSE fixes' = [fixes EXCEPT ![who] = q] /\ pending' = pending
      /\ presses' = [presses EXCEPT ![q] = @ + 1]
      /\ saving' = saving /\ changed' = changed
  BY DEF Press
<1>2. EditTypes'
  BY <1>1 DEF EditInv, EditTypes
<1>3. ASSUME NEW p \in Drafts
      PROVE  changed'[p] + Cardinality(Saves(p)') + Cardinality(Fixing(p)') + Cardinality(Editing(p)')
             <= presses'[p]
  <2>1. /\ IsFiniteSet(Saves(p)) /\ IsFiniteSet(Fixing(p)) /\ IsFiniteSet(Editing(p))
        /\ Cardinality(Saves(p)) \in Nat /\ Cardinality(Fixing(p)) \in Nat
        /\ Cardinality(Editing(p)) \in Nat /\ changed[p] \in Nat /\ presses[p] \in Nat
        /\ changed[p] + Cardinality(Saves(p)) + Cardinality(Fixing(p)) + Cardinality(Editing(p)) <= presses[p]
    BY OpenFinite DEF EditInv, PressesCover
  <2>2. Saves(p)' = Saves(p) /\ changed'[p] = changed[p]
    BY <1>1 DEF Saves
  <2>3. presses'[p] = IF p = q THEN presses[p] + 1 ELSE presses[p]
    BY <1>1 DEF EditInv, EditTypes
  <2>4. CASE p = q
    <3>1. CASE b = AdminBot
      <4>1. Fixing(p)' = Fixing(p) /\ Editing(p)' \subseteq Editing(p) \union {who}
        BY <1>1, <3>1 DEF Fixing, Editing, EditInv, EditTypes
      <4>2. Cardinality(Editing(p)') \in Nat /\ Cardinality(Editing(p)') <= Cardinality(Editing(p)) + 1
        BY <2>1, <4>1, OneMore
      <4>3. QED
        BY <2>1, <2>2, <2>3, <2>4, <4>1, <4>2
    <3>2. CASE b # AdminBot
      <4>1. Editing(p)' = Editing(p) /\ Fixing(p)' \subseteq Fixing(p) \union {who}
        BY <1>1, <3>2 DEF Fixing, Editing, EditInv, EditTypes
      <4>2. Cardinality(Fixing(p)') \in Nat /\ Cardinality(Fixing(p)') <= Cardinality(Fixing(p)) + 1
        BY <2>1, <4>1, OneMore
      <4>3. QED
        BY <2>1, <2>2, <2>3, <2>4, <4>1, <4>2
    <3>3. QED
      BY <3>1, <3>2
  <2>5. CASE p # q
    <3>1. Fixing(p)' \subseteq Fixing(p) /\ Editing(p)' \subseteq Editing(p)
      BY <1>1, <2>5 DEF Fixing, Editing, EditInv, EditTypes
    <3>2. /\ Cardinality(Fixing(p)') \in Nat /\ Cardinality(Fixing(p)') <= Cardinality(Fixing(p))
          /\ Cardinality(Editing(p)') \in Nat /\ Cardinality(Editing(p)') <= Cardinality(Editing(p))
      BY <2>1, <3>1, NotMore
    <3>3. QED
      BY <2>1, <2>2, <2>3, <2>5, <3>2
  <2>6. QED
    BY <2>4, <2>5
<1>4. QED
  BY <1>2, <1>3 DEF EditInv, PressesCover

\* A text taken: what was waited for is waited for no more, and may be saved.
LEMMA TextKeepsEdits ==
    ASSUME EditInv, NEW b \in AllBots, NEW who \in People, Text(b, who)
    PROVE  EditInv'
<1>1. changed' = changed /\ presses' = presses
  BY DEF Text
<1>2. PICK q \in Drafts :
         /\ saving' = saving \/ saving' = saving \union {[bot |-> b, who |-> who, post |-> q]}
         /\ \/ pending[who] = q /\ pending' = [pending EXCEPT ![who] = NoDraft] /\ fixes' = fixes
            \/ fixes[who] = q /\ fixes' = [fixes EXCEPT ![who] = NoDraft] /\ pending' = pending
  BY DEF Text, Taken, EditInv, EditTypes
<1> DEFINE new == [bot |-> b, who |-> who, post |-> q]
<1>3. new \in [bot : AllBots, who : People, post : Drafts] /\ new.post = q
  OBVIOUS
<1>4. saving' \subseteq saving \union {new}
  BY <1>2
<1> HIDE DEF new
<1>5. EditTypes'
  <2>1. IsFiniteSet(saving')
    BY <1>4, OneMore DEF EditInv, EditTypes
  <2>2. QED
    BY <1>1, <1>2, <1>3, <1>4, <2>1 DEF EditInv, EditTypes
<1>6. ASSUME NEW p \in Drafts
      PROVE  changed'[p] + Cardinality(Saves(p)') + Cardinality(Fixing(p)') + Cardinality(Editing(p)')
             <= presses'[p]
  <2>1. /\ IsFiniteSet(Saves(p)) /\ IsFiniteSet(Fixing(p)) /\ IsFiniteSet(Editing(p))
        /\ Cardinality(Saves(p)) \in Nat /\ Cardinality(Fixing(p)) \in Nat
        /\ Cardinality(Editing(p)) \in Nat /\ changed[p] \in Nat /\ presses[p] \in Nat
        /\ changed[p] + Cardinality(Saves(p)) + Cardinality(Fixing(p)) + Cardinality(Editing(p)) <= presses[p]
    BY OpenFinite DEF EditInv, PressesCover
  <2>2. NoDraft # p
    BY EditorAssumption
  <2>3. CASE p # q
    <3>1. Saves(p)' \subseteq Saves(p) /\ Fixing(p)' \subseteq Fixing(p) /\ Editing(p)' \subseteq Editing(p)
      BY <1>2, <1>3, <1>4, <2>2, <2>3 DEF Saves, Fixing, Editing, EditInv, EditTypes
    <3>2. /\ Cardinality(Saves(p)') \in Nat /\ Cardinality(Saves(p)') <= Cardinality(Saves(p))
          /\ Cardinality(Fixing(p)') \in Nat /\ Cardinality(Fixing(p)') <= Cardinality(Fixing(p))
          /\ Cardinality(Editing(p)') \in Nat /\ Cardinality(Editing(p)') <= Cardinality(Editing(p))
      BY <2>1, <3>1, NotMore
    <3>3. QED
      BY <1>1, <2>1, <3>2
  <2>4. CASE p = q
    <3>1. Saves(p)' \subseteq Saves(p) \union {new}
      BY <1>4 DEF Saves
    <3>2. Cardinality(Saves(p)') \in Nat /\ Cardinality(Saves(p)') <= Cardinality(Saves(p)) + 1
      BY <2>1, <3>1, OneMore
    <3>3. CASE pending[who] = q /\ pending' = [pending EXCEPT ![who] = NoDraft] /\ fixes' = fixes
      <4>1. who \in Editing(p) /\ Editing(p)' \subseteq Editing(p) \ {who} /\ Fixing(p)' = Fixing(p)
        BY <2>2, <2>4, <3>3 DEF Editing, Fixing, EditInv, EditTypes
      <4>2. Cardinality(Editing(p)') \in Nat /\ Cardinality(Editing(p)') + 1 <= Cardinality(Editing(p))
        BY <2>1, <4>1, OneLess
      <4>3. QED
        BY <1>1, <2>1, <3>2, <4>1, <4>2
    <3>4. CASE fixes[who] = q /\ fixes' = [fixes EXCEPT ![who] = NoDraft] /\ pending' = pending
      <4>1. who \in Fixing(p) /\ Fixing(p)' \subseteq Fixing(p) \ {who} /\ Editing(p)' = Editing(p)
        BY <2>2, <2>4, <3>4 DEF Editing, Fixing, EditInv, EditTypes
      <4>2. Cardinality(Fixing(p)') \in Nat /\ Cardinality(Fixing(p)') + 1 <= Cardinality(Fixing(p))
        BY <2>1, <4>1, OneLess
      <4>3. QED
        BY <1>1, <2>1, <3>2, <4>1, <4>2
    <3>5. QED
      BY <1>2, <3>3, <3>4
  <2>5. QED
    BY <2>3, <2>4
<1>7. QED
  BY <1>5, <1>6 DEF EditInv, PressesCover

LEMMA SaveKeepsEdits ==
    ASSUME EditInv, NEW s \in saving, SaveText(s)
    PROVE  EditInv'
<1>1. /\ saving' = saving \ {s} /\ fixes' = fixes /\ pending' = pending /\ presses' = presses
      /\ changed' = changed \/ changed' = [changed EXCEPT ![s.post] = @ + 1]
  BY DEF SaveText
<1>2. s.post \in Drafts
  BY DEF EditInv, EditTypes
<1>3. EditTypes'
  <2>1. IsFiniteSet(saving')
    BY <1>1, FS_Subset DEF EditInv, EditTypes
  <2>2. changed' \in [Drafts -> Nat]
    BY <1>1, <1>2 DEF EditInv, EditTypes
  <2>3. QED
    BY <1>1, <2>1, <2>2 DEF EditInv, EditTypes
<1>4. ASSUME NEW p \in Drafts
      PROVE  changed'[p] + Cardinality(Saves(p)') + Cardinality(Fixing(p)') + Cardinality(Editing(p)')
             <= presses'[p]
  <2>1. /\ IsFiniteSet(Saves(p)) /\ Cardinality(Saves(p)) \in Nat /\ Cardinality(Fixing(p)) \in Nat
        /\ Cardinality(Editing(p)) \in Nat /\ changed[p] \in Nat /\ presses[p] \in Nat
        /\ changed[p] + Cardinality(Saves(p)) + Cardinality(Fixing(p)) + Cardinality(Editing(p)) <= presses[p]
    BY OpenFinite DEF EditInv, PressesCover
  <2>2. Fixing(p)' = Fixing(p) /\ Editing(p)' = Editing(p)
    BY <1>1 DEF Fixing, Editing
  <2>3. CASE s.post = p
    <3>1. s \in Saves(p) /\ Saves(p)' \subseteq Saves(p) \ {s}
      BY <1>1, <2>3 DEF Saves
    <3>2. Cardinality(Saves(p)') \in Nat /\ Cardinality(Saves(p)') + 1 <= Cardinality(Saves(p))
      BY <2>1, <3>1, OneLess
    <3>3. changed'[p] = changed[p] \/ changed'[p] = changed[p] + 1
      BY <1>1, <2>3 DEF EditInv, EditTypes
    <3>4. QED
      BY <1>1, <2>1, <2>2, <3>2, <3>3
  <2>4. CASE s.post # p
    <3>1. Saves(p)' \subseteq Saves(p) /\ changed'[p] = changed[p]
      BY <1>1, <2>4 DEF Saves, EditInv, EditTypes
    <3>2. Cardinality(Saves(p)') \in Nat /\ Cardinality(Saves(p)') <= Cardinality(Saves(p))
      BY <2>1, <3>1, NotMore
    <3>3. QED
      BY <1>1, <2>1, <2>2, <3>1, <3>2
  <2>5. QED
    BY <2>3, <2>4
<1>5. QED
  BY <1>3, <1>4 DEF EditInv, PressesCover

\* Nothing is waited for after a restart.
LEMMA RestartKeepsEdits ==
    ASSUME EditInv, BotsRestart
    PROVE  EditInv'
<1>1. /\ saving' = {} /\ changed' = changed /\ presses' = presses
      /\ fixes' = [c \in People |-> NoDraft] /\ pending' = [c \in People |-> NoDraft]
  BY DEF BotsRestart
<1>2. EditTypes'
  BY <1>1, FS_EmptySet DEF EditInv, EditTypes
<1>3. ASSUME NEW p \in Drafts
      PROVE  changed'[p] + Cardinality(Saves(p)') + Cardinality(Fixing(p)') + Cardinality(Editing(p)')
             <= presses'[p]
  <2>1. Saves(p)' = {} /\ Fixing(p)' = {} /\ Editing(p)' = {}
    BY <1>1, EditorAssumption DEF Saves, Fixing, Editing
  <2>2. /\ Cardinality(Saves(p)) \in Nat /\ Cardinality(Fixing(p)) \in Nat
        /\ Cardinality(Editing(p)) \in Nat /\ changed[p] \in Nat /\ presses[p] \in Nat
        /\ changed[p] + Cardinality(Saves(p)) + Cardinality(Fixing(p)) + Cardinality(Editing(p)) <= presses[p]
    BY OpenFinite DEF EditInv, PressesCover
  <2>3. QED
    BY <1>1, <2>1, <2>2, FS_EmptySet
<1>4. QED
  BY <1>2, <1>3 DEF EditInv, PressesCover

LEMMA EditSteps == EditInv /\ [Next]_vars => EditInv'
<1> SUFFICES ASSUME EditInv, [Next]_vars PROVE EditInv'
  OBVIOUS
<1>1. CASE UNCHANGED <<fixes, pending, saving, presses, changed>>
  BY <1>1 DEF EditInv, EditTypes, PressesCover, Saves, Fixing, Editing
<1>2. CASE EditorNext
  <2>1. ASSUME NEW who \in People, StartAdmin(who) PROVE EditInv'
    BY <1>1, <2>1 DEF StartAdmin
  <2>2. ASSUME NEW b \in AllBots, NEW who \in People, NEW p \in Drafts, NEW status,
               Decide(b, who, p, status)
        PROVE  EditInv'
    BY <1>1, <2>2 DEF Decide
  <2>3. QED
    BY <1>2, <2>1, <2>2, TextKeepsEdits, PressKeepsEdits, SaveKeepsEdits, RestartKeepsEdits DEF EditorNext
<1>3. EditorNext \/ UNCHANGED editorVars
  BY DEF Next, vars, ButTheme, ButSettings, ButLogin, ButRunner, ButQuestion
<1>4. QED
  BY <1>1, <1>2, <1>3 DEF editorVars

LEMMA EditInit == Init => EditInv
<1> SUFFICES ASSUME Init PROVE EditInv
  OBVIOUS
<1>1. EditTypes
  BY FS_EmptySet DEF Init, EditorInit, EditTypes
<1>2. ASSUME NEW p \in Drafts PROVE Saves(p) = {} /\ Fixing(p) = {} /\ Editing(p) = {}
  BY EditorAssumption DEF Init, EditorInit, Saves, Fixing, Editing
<1>3. ASSUME NEW p \in Drafts PROVE changed[p] = 0 /\ presses[p] = 0
  BY DEF Init, EditorInit
<1>4. QED
  BY <1>1, <1>2, <1>3, FS_EmptySet DEF EditInv, PressesCover

\* A text changes a post once for each press of Fix or Edit for that post, and never without
\* one (editor_review.py, admin_review.py), for any bots, people, posts and order of their acts.
THEOREM EditsFollow == Spec => []EditsFollowPresses
<1>1. EditInv => EditsFollowPresses
  <2>1. SUFFICES ASSUME EditInv, NEW p \in Drafts PROVE changed[p] <= presses[p]
    BY DEF EditsFollowPresses
  <2>2. QED
    BY <2>1, OpenFinite DEF EditInv, PressesCover
<1>2. QED
  BY <1>1, EditInit, EditSteps, PTL DEF Spec

-----------------------------------------------------------------------------
\* A theme that is silent, although its bot may publish by itself and its cadence would let
\* it, has an alert and a stage that is not "ok" (theme_health, list_alerts and
\* publish_pool_job look at the same rows), for any themes, bots, channels and whatever the
\* operator has done to them.
THEOREM SilenceIsShown == Spec => []SilenceIsExplained
<1>1. SilenceIsExplained
  <2>1. SUFFICES ASSUME NEW t \in Existing, theme[t].on,
                        LastIn(TargetsOf(t)) \in {"days", "weeks", "never"},
                        ~ \E b \in BotsOf(t) : Publishable(b)
                 PROVE  /\ Alerts(t) \cap {"missing_target_channel", "theme_inactive"} # {}
                        /\ StagesAbove(t) \ {"ok"} # {} \/ \E b \in Working(t) : ~bot[b].auto \/ ~Rested(b)
    BY DEF SilenceIsExplained, LongSilent
  <2>2. Receiving(t) = {} => "missing_target_channel" \in Alerts(t)
    BY <2>1 DEF Alerts
  <2>3. Receiving(t) # {} => "theme_inactive" \in Alerts(t)
    BY <2>1 DEF Alerts, LongSilent
  <2>4. CASE Receiving(t) = {} \/ Working(t) = {}
    <3>1. BotStage(t) = "crit" /\ BotStage(t) \in StagesAbove(t)
      BY <2>4 DEF BotStage, StagesAbove
    <3>2. QED
      BY <2>2, <2>3, <3>1
  <2>5. ASSUME Receiving(t) # {}, NEW b \in Working(t), bot[b].auto, Rested(b)
        PROVE  StagesAbove(t) \ {"ok"} # {}
    <3>1. b \in BotsOf(t) /\ bot[b] # None /\ bot[b].role = "theme" /\ bot[b].on /\ bot[b].of = t
      BY <2>5 DEF Working, BotsOf
    <3>2. "rewritten" \notin life[t].posts
      BY <2>1, <2>5, <3>1 DEF Publishable
    <3>3. RewriteStage(t) = "warn" /\ RewriteStage(t) \in StagesAbove(t)
      BY <3>2 DEF RewriteStage, StagesAbove
    <3>4. QED
      BY <3>3
  <2>6. QED
    BY <2>2, <2>3, <2>4, <2>5
<1>2. QED
  BY <1>1, PTL

-----------------------------------------------------------------------------
\* The columns a request writes are of their types.
LEMMA WrittenTyped ==
    ASSUME NEW request \in Requests, NEW read \in [Fields -> Nat], NEW old \in SettingsRow,
           NEW at \in Rows, NEW new \in BOOLEAN,
           "automation" \in DOMAIN request => Valid(Over(request.automation, read)),
           "timezone" \in DOMAIN request => request.timezone \in Zones,
           "pool_cooldown_days" \in DOMAIN request => request.pool_cooldown_days \in Nat
    PROVE  Written(old, [at |-> at, new |-> new, sent |-> request, read |-> read]) \in SettingsRow
<1> DEFINE ed == [at |-> at, new |-> new, sent |-> request, read |-> read]
<1>1. ed.sent = request /\ ed.read = read
  OBVIOUS
<1>2. DOMAIN old = {"automation", "timezone", "pool_cooldown_days"}
  BY DEF SettingsRow
<1> HIDE DEF ed
<1>3. CASE "automation" \notin DOMAIN request
  <2>1. Written(old, ed) = [f \in DOMAIN old |-> IF f \in DOMAIN request THEN request[f] ELSE old[f]]
    BY <1>1, <1>3 DEF Written, Over
  <2>2. Written(old, ed) \in SettingsRow
    BY <1>2, <1>3, <2>1 DEF SettingsRow
  <2>3. QED
    BY <2>2 DEF ed
<1>4. CASE "automation" \in DOMAIN request
  <2> DEFINE merged == Over(request.automation, read)
  <2>1. Written(old, ed) = old \/ Written(old, ed) = [old EXCEPT !.automation = merged]
    BY <1>1, <1>4 DEF Written
  <2>2. merged \in [Fields -> Nat]
    <3>1. DOMAIN merged = Fields /\ merged = [f \in Fields |-> merged[f]]
      BY DEF Over
    <3>2. \A f \in Fields : merged[f] \in Ranges[f] /\ Ranges[f] \subseteq Nat
      BY <1>4, SettingsAssumption DEF Valid
    <3> HIDE DEF merged
    <3>3. QED
      BY <3>1, <3>2
  <2> HIDE DEF merged
  <2>3. Written(old, ed) \in SettingsRow
    BY <1>2, <2>1, <2>2 DEF SettingsRow
  <2>4. QED
    BY <2>3 DEF ed
<1>5. QED
  BY <1>3, <1>4

\* The rows and requests are typed, and what was checked of a request holds until it commits.
SettingsTyped ==
    /\ SettingsTypeOK
    /\ \A e \in Editors : edit[e] # <<>> =>
          /\ "automation" \in DOMAIN edit[e].sent => Valid(Over(edit[e].sent.automation, edit[e].read))
          /\ "timezone" \in DOMAIN edit[e].sent => edit[e].sent.timezone \in Zones
          /\ "pool_cooldown_days" \in DOMAIN edit[e].sent => edit[e].sent.pool_cooldown_days \in Nat

LEMMA FirstRowTyped == FirstRow \in SettingsRow
<1>1. Defaults \in [Fields -> Nat]
  BY SettingsAssumption
<1>2. (CHOOSE z \in Zones : TRUE) \in Zones
  BY SettingsAssumption
<1>3. QED
  BY <1>1, <1>2 DEF FirstRow, SettingsRow

LEMMA ReadKeepsTypes ==
    ASSUME SettingsTyped, NEW e \in Editors, NEW request \in Requests, Read(e, request)
    PROVE  SettingsTyped'
<1>1. edits \in 0 .. MaxEdits /\ edits' = edits - 1 /\ edits > 0 /\ row' = row
  BY DEF Read, SettingsTyped, SettingsTypeOK
<1>2. PICK r \in IF There = {} THEN Rows ELSE There :
         LET held == IF There = {} THEN FirstRow ELSE row[r]
         IN  /\ "automation" \in DOMAIN request => Valid(Over(request.automation, held.automation))
             /\ "timezone" \in DOMAIN request => request.timezone \in Zones
             /\ "pool_cooldown_days" \in DOMAIN request => request.pool_cooldown_days \in Nat
             /\ edit' = [edit EXCEPT ![e] = [at |-> r, new |-> There = {}, sent |-> request,
                                            read |-> held.automation]]
  BY DEF Read
<1> DEFINE held == IF There = {} THEN FirstRow ELSE row[r]
           now == [at |-> r, new |-> There = {}, sent |-> request, read |-> held.automation]
<1>3. r \in Rows /\ held \in SettingsRow
  BY FirstRowTyped DEF There, SettingsTyped, SettingsTypeOK
<1>4. held.automation \in [Fields -> Nat]
  BY <1>3 DEF SettingsRow
<1>5. /\ now \in [at : Rows, new : BOOLEAN, sent : Requests, read : [Fields -> Nat]]
      /\ now.sent = request /\ now.read = held.automation
  BY <1>3, <1>4
<1>6. edit' = [edit EXCEPT ![e] = now]
  BY <1>2
<1>7. /\ "automation" \in DOMAIN now.sent => Valid(Over(now.sent.automation, now.read))
      /\ "timezone" \in DOMAIN now.sent => now.sent.timezone \in Zones
      /\ "pool_cooldown_days" \in DOMAIN now.sent => now.sent.pool_cooldown_days \in Nat
  BY <1>2, <1>5
<1> HIDE DEF held, now
<1>8. \A d \in Editors : edit'[d] = IF d = e THEN now ELSE edit[d]
  BY <1>6 DEF SettingsTyped, SettingsTypeOK
<1>9. edit' \in [Editors -> [at : Rows, new : BOOLEAN, sent : Requests, read : [Fields -> Nat]] \union {<<>>}]
  BY <1>5, <1>6 DEF SettingsTyped, SettingsTypeOK
<1>10. SettingsTypeOK'
  BY <1>1, <1>9, SettingsAssumption DEF SettingsTyped, SettingsTypeOK
<1>11. QED
  BY <1>7, <1>8, <1>10 DEF SettingsTyped, Valid, Consistent, Over

LEMMA CommitKeepsTypes ==
    ASSUME SettingsInv, SettingsTyped, NEW e \in Editors, Commit(e)
    PROVE  SettingsTyped'
<1> DEFINE ed == edit[e]
<1>1. ed # <<>> /\ edit' = [edit EXCEPT ![e] = <<>>] /\ edits' = edits
  BY DEF Commit
<1>2. ed \in [at : Rows, new : BOOLEAN, sent : Requests, read : [Fields -> Nat]]
  BY <1>1 DEF SettingsTyped, SettingsTypeOK
<1>3. /\ "automation" \in DOMAIN ed.sent => Valid(Over(ed.sent.automation, ed.read))
      /\ "timezone" \in DOMAIN ed.sent => ed.sent.timezone \in Zones
      /\ "pool_cooldown_days" \in DOMAIN ed.sent => ed.sent.pool_cooldown_days \in Nat
  BY <1>1 DEF SettingsTyped
<1>4. ASSUME NEW old \in SettingsRow PROVE Written(old, ed) \in SettingsRow
  <2>1. ed = [at |-> ed.at, new |-> ed.new, sent |-> ed.sent, read |-> ed.read]
    BY <1>2
  <2>2. ed.at \in Rows /\ ed.new \in BOOLEAN /\ ed.sent \in Requests /\ ed.read \in [Fields -> Nat]
    BY <1>2
  <2> HIDE DEF ed
  <2>3. Written(old, [at |-> ed.at, new |-> ed.new, sent |-> ed.sent, read |-> ed.read]) \in SettingsRow
    BY <1>3, <2>2, WrittenTyped
  <2>4. QED
    BY <2>1, <2>3
<1>5. row' \in [Rows -> SettingsRow \union {<<>>}]
  <2>1. CASE ed.new
    BY <1>4, <2>1, FirstRowTyped DEF Commit, SettingsTyped, SettingsTypeOK
  <2>2. CASE ~ed.new
    <3>1. ed.at \in Rows
      BY <1>2
    <3>2. row' = [row EXCEPT ![ed.at] = Written(row[ed.at], ed)]
      BY <2>2 DEF Commit
    <3>3. row[ed.at] \in SettingsRow
      BY <1>1, <2>2, <3>1 DEF SettingsInv, EditsValid, There, SettingsTyped, SettingsTypeOK
    <3>4. QED
      BY <1>4, <3>2, <3>3 DEF SettingsTyped, SettingsTypeOK
  <2>3. QED
    BY <2>1, <2>2
<1>6. QED
  BY <1>1, <1>5 DEF SettingsTyped, SettingsTypeOK, Valid, Consistent, Over

\* Every row is a row of settings, at every moment (panel_settings.py).
LEMMA SettingsTypedAlways == Spec => []SettingsTyped
<1>1. Init => SettingsTyped
  <2>1. SUFFICES ASSUME Init PROVE SettingsTyped
    OBVIOUS
  <2>2. row = [r \in Rows |-> <<>>] /\ edit = [e \in Editors |-> <<>>] /\ edits = MaxEdits
    BY <2>1 DEF Init, SettingsInit
  <2>3. QED
    BY <2>2, SettingsAssumption DEF SettingsTyped, SettingsTypeOK
<1>2. Init => SettingsInv
  BY DEF Init, SettingsInit, SettingsInv, RowsValid, EditsValid, There
<1>3. SettingsInv /\ SettingsTyped /\ [Next]_vars => SettingsTyped'
  <2>1. SUFFICES ASSUME SettingsInv, SettingsTyped, [Next]_vars PROVE SettingsTyped'
    OBVIOUS
  <2>2. CASE part = "settings" /\ SettingsNext
    BY <2>1, <2>2, ReadKeepsTypes, CommitKeepsTypes DEF SettingsNext
  <2>3. CASE UNCHANGED settingsVars
    BY <2>1, <2>3 DEF SettingsTyped, SettingsTypeOK, settingsVars, Valid, Consistent, Over
  <2>4. (part = "settings" /\ SettingsNext) \/ UNCHANGED settingsVars
    BY <2>1 DEF Next, vars, ButTheme, ButLogin, ButRunner, ButReview, ButQuestion
  <2>5. QED
    BY <2>2, <2>3, <2>4
<1>4. QED
  BY <1>1, <1>2, <1>3, SettingsSteps, PTL DEF Spec

-----------------------------------------------------------------------------
\* What is in flight for an attempt.
InFlight(a) == {c \in Calls : call[c].at # "idle" /\ call[c].of = a}

KeptTyped == kept \in [Attempts -> {"nothing", "code", "password"}]
Begun == [of : Attempts, at : {"signing", "accepted", "signed"}, with : {"code", "password"}]
CallTyped == call \in [Calls -> {Free} \union Begun]
CountsTyped ==
    /\ accounts \in [Attempts -> 0 .. MaxSubmits] /\ accepted \in [Attempts -> Nat]
    /\ disturbed \subseteq Attempts /\ unused \subseteq Attempts /\ submits \in 0 .. MaxSubmits

\* An attempt's accounts and the requests that may still make one were all submitted.
CallsCovered == \A a \in Attempts : accounts[a] + Cardinality(InFlight(a)) + submits <= MaxSubmits

LoginTyped == KeptTyped /\ CallTyped /\ CountsTyped /\ CallsCovered

LEMMA LoginTypes == LoginTyped => LoginTypeOK
  BY DEF LoginTyped, KeptTyped, CallTyped, CountsTyped, Begun, LoginTypeOK

\* A request is free, or begun for an attempt.
LEMMA CallShape ==
    ASSUME CallTyped, NEW c \in Calls
    PROVE  /\ call[c] = Free => call[c].at = "idle"
           /\ call[c].at # "idle" => call[c] \in Begun /\ call[c].of \in Attempts
           /\ call[c].at = "idle" => call[c] = Free
<1>1. Free.at = "idle" /\ call[c] \in {Free} \union Begun
  BY DEF CallTyped, Free
<1>2. ASSUME NEW x \in Begun PROVE x.at # "idle" /\ x.of \in Attempts
  BY DEF Begun
<1>3. QED
  BY <1>1, <1>2

LEMMA CallsCounted ==
    ASSUME CountsTyped, CallsCovered, NEW a \in Attempts
    PROVE  /\ IsFiniteSet(InFlight(a)) /\ Cardinality(InFlight(a)) \in Nat
           /\ accounts[a] \in Nat /\ submits \in Nat /\ MaxSubmits \in Nat
           /\ accounts[a] + Cardinality(InFlight(a)) + submits <= MaxSubmits
<1>1. InFlight(a) \subseteq Calls
  BY DEF InFlight
<1>2. accounts[a] \in Nat /\ submits \in Nat
  BY LoginAssumption DEF CountsTyped
<1>3. QED
  BY <1>1, <1>2, LoginAssumption, NotMore DEF CallsCovered

\* A request that ends is in flight no more; its attempt may have gained an account for it.
LEMMA CallEnds ==
    ASSUME LoginTyped, NEW c \in Calls, call[c].at # "idle", call' = [call EXCEPT ![c] = Free],
           unused' = unused, submits' = submits, accepted' = accepted, KeptTyped',
           disturbed' \subseteq disturbed \union {call[c].of},
           accounts' = accounts \/ accounts' = [accounts EXCEPT ![call[c].of] = @ + 1]
    PROVE  LoginTyped'
<1>1. call[c].of \in Attempts
  BY CallShape DEF LoginTyped
<1>2. CallTyped' /\ Free.at = "idle"
  BY DEF LoginTyped, CallTyped, Free
<1>3. ASSUME NEW a \in Attempts
      PROVE  /\ accounts'[a] + Cardinality(InFlight(a)') + submits' <= MaxSubmits
             /\ accounts'[a] \in 0 .. MaxSubmits
  <2>1. /\ IsFiniteSet(InFlight(a)) /\ Cardinality(InFlight(a)) \in Nat
        /\ accounts[a] \in Nat /\ submits \in Nat /\ MaxSubmits \in Nat
        /\ accounts[a] + Cardinality(InFlight(a)) + submits <= MaxSubmits
    BY CallsCounted DEF LoginTyped
  <2>2. InFlight(a)' \subseteq InFlight(a) \ {c}
    BY <1>2 DEF InFlight, LoginTyped, CallTyped
  <2>3. CASE call[c].of = a
    <3>1. c \in InFlight(a)
      BY <2>3 DEF InFlight
    <3>2. Cardinality(InFlight(a)') \in Nat /\ Cardinality(InFlight(a)') + 1 <= Cardinality(InFlight(a))
      BY <2>1, <2>2, <3>1, OneLess
    <3>3. accounts'[a] = accounts[a] \/ accounts'[a] = accounts[a] + 1
      BY <2>3 DEF LoginTyped, CountsTyped
    <3>4. QED
      BY <2>1, <3>2, <3>3
  <2>4. CASE call[c].of # a
    <3>1. Cardinality(InFlight(a)') \in Nat /\ Cardinality(InFlight(a)') <= Cardinality(InFlight(a))
      BY <2>1, <2>2, NotMore
    <3>2. accounts'[a] = accounts[a]
      BY <2>4 DEF LoginTyped, CountsTyped
    <3>3. QED
      BY <2>1, <3>1, <3>2
  <2>5. QED
    BY <2>3, <2>4
<1>4. accounts' = [a \in Attempts |-> accounts'[a]]
  BY DEF LoginTyped, CountsTyped
<1>5. CountsTyped'
  BY <1>1, <1>3, <1>4 DEF LoginTyped, CountsTyped
<1>6. QED
  BY <1>2, <1>3, <1>5 DEF LoginTyped, CallsCovered

LEMMA SubmitKeepsLogins ==
    ASSUME LoginTyped, NEW c \in Calls, NEW a \in Attempts, NEW with \in {"code", "password"},
           Submit(c, a, with)
    PROVE  LoginTyped'
<1>1. /\ submits > 0 /\ submits' = submits - 1
      /\ call' = [call EXCEPT ![c] = [of |-> a, at |-> "signing", with |-> with]]
      /\ kept' = kept /\ accounts' = accounts /\ unused' = unused /\ accepted' = accepted
      /\ disturbed' \subseteq disturbed \union {a}
  BY DEF Submit
<1>2. /\ submits > 0 /\ submits' = submits - 1 /\ accounts' = accounts /\ unused' = unused
      /\ accepted' = accepted /\ disturbed' \subseteq disturbed \union {a}
  BY <1>1
<1>3. KeptTyped'
  BY <1>1 DEF LoginTyped, KeptTyped
<1>4. CallTyped'
  <2>1. [of |-> a, at |-> "signing", with |-> with] \in Begun
    BY DEF Begun
  <2>2. QED
    BY <1>1, <2>1 DEF LoginTyped, CallTyped
<1>5. CountsTyped'
  BY <1>2, LoginAssumption DEF LoginTyped, CountsTyped
<1>6. ASSUME NEW b \in Attempts
      PROVE  accounts'[b] + Cardinality(InFlight(b)') + submits' <= MaxSubmits
  <2>1. /\ IsFiniteSet(InFlight(b)) /\ Cardinality(InFlight(b)) \in Nat
        /\ accounts[b] \in Nat /\ submits \in Nat /\ MaxSubmits \in Nat
        /\ accounts[b] + Cardinality(InFlight(b)) + submits <= MaxSubmits
    BY CallsCounted DEF LoginTyped
  <2>2. InFlight(b)' \subseteq InFlight(b) \union {c}
    BY <1>1 DEF InFlight, LoginTyped, CallTyped
  <2>3. Cardinality(InFlight(b)') \in Nat /\ Cardinality(InFlight(b)') <= Cardinality(InFlight(b)) + 1
    BY <2>1, <2>2, OneMore
  <2>4. accounts'[b] = accounts[b]
    BY <1>1
  <2>5. QED
    BY <1>2, <2>1, <2>3, <2>4
<1>7. QED
  BY <1>3, <1>4, <1>5, <1>6 DEF LoginTyped, CallsCovered

\* Where the requests in flight stay as they are, or one of them gets on.
LEMMA CallsStay ==
    ASSUME LoginTyped, KeptTyped', CallTyped', CountsTyped', submits' = submits,
           \A a \in Attempts : accounts'[a] <= accounts[a],
           \A c \in Calls : call'[c].of = call[c].of /\ (call'[c].at = "idle" <=> call[c].at = "idle")
    PROVE  LoginTyped'
<1>1. ASSUME NEW a \in Attempts
      PROVE  accounts'[a] + Cardinality(InFlight(a)') + submits' <= MaxSubmits
  <2>1. InFlight(a)' = InFlight(a)
    BY DEF InFlight
  <2>2. /\ Cardinality(InFlight(a)) \in Nat /\ accounts[a] \in Nat /\ submits \in Nat /\ MaxSubmits \in Nat
        /\ accounts[a] + Cardinality(InFlight(a)) + submits <= MaxSubmits
    BY CallsCounted DEF LoginTyped
  <2>3. accounts'[a] \in 0 .. MaxSubmits /\ accounts'[a] <= accounts[a]
    BY DEF CountsTyped
  <2>4. QED
    BY <2>1, <2>2, <2>3
<1>2. QED
  BY <1>1 DEF LoginTyped, CallsCovered

\* A request in flight gets on with its attempt.
LEMMA CallGetsOn ==
    ASSUME LoginTyped, KeptTyped', CountsTyped', NEW c \in Calls, NEW at \in {"accepted", "signed"},
           call[c].at # "idle", call' = [call EXCEPT ![c].at = at],
           accounts' = accounts, submits' = submits
    PROVE  LoginTyped'
<1> DEFINE new == [call[c] EXCEPT !.at = at]
<1>1. call[c] \in Begun
  BY CallShape DEF LoginTyped
<1>2. new \in Begun /\ new.of = call[c].of /\ new.at # "idle"
  BY <1>1 DEF Begun
<1>3. call' = [call EXCEPT ![c] = new]
  OBVIOUS
<1> HIDE DEF new
<1>4. CallTyped' /\ \A d \in Calls : call'[d] = IF d = c THEN new ELSE call[d]
  BY <1>2, <1>3 DEF LoginTyped, CallTyped
<1>5. \A d \in Calls : call'[d].of = call[d].of /\ (call'[d].at = "idle" <=> call[d].at = "idle")
  BY <1>2, <1>4
<1>6. ASSUME NEW a \in Attempts PROVE accounts'[a] <= accounts[a]
  BY CallsCounted DEF LoginTyped
<1>7. QED
  BY <1>4, <1>5, <1>6, CallsStay

LEMMA LoginSteps == LoginTyped /\ [Next]_vars => LoginTyped'
<1> SUFFICES ASSUME LoginTyped, [Next]_vars PROVE LoginTyped'
  OBVIOUS
<1>1. LoginNext \/ UNCHANGED loginVars
  BY DEF Next, vars, ButTheme, ButSettings, ButRunner, ButReview, ButQuestion
<1>2. CASE UNCHANGED loginVars
  BY <1>2 DEF LoginTyped, KeptTyped, CallTyped, CountsTyped, CallsCovered, loginVars, InFlight
<1>3. ASSUME NEW c \in Calls, Accepted(c) PROVE LoginTyped'
  <2>1. /\ call[c].at # "idle" /\ call' = [call EXCEPT ![c].at = "accepted"]
        /\ kept' = kept /\ accepted' = [accepted EXCEPT ![call[c].of] = @ + 1]
        /\ UNCHANGED <<accounts, disturbed, unused, submits>>
    BY <1>3 DEF Accepted
  <2>2. call[c].of \in Attempts
    BY <2>1, CallShape DEF LoginTyped
  <2>3. KeptTyped'
    BY <2>1 DEF LoginTyped, KeptTyped
  <2>4. CountsTyped'
    <3>1. accepted' \in [Attempts -> Nat]
      BY <2>1, <2>2 DEF LoginTyped, CountsTyped
    <3>2. QED
      BY <2>1, <3>1 DEF LoginTyped, CountsTyped
  <2>5. QED
    BY <2>1, <2>3, <2>4, CallGetsOn
<1>4. ASSUME NEW c \in Calls, SignedIn(c) PROVE LoginTyped'
  <2>1. /\ call[c].at # "idle" /\ call' = [call EXCEPT ![c].at = "signed"]
        /\ kept' = [kept EXCEPT ![call[c].of] = "nothing"]
        /\ UNCHANGED <<accounts, accepted, disturbed, unused, submits>>
    BY <1>4 DEF SignedIn, Keep
  <2>2. KeptTyped' /\ CountsTyped'
    BY <2>1 DEF LoginTyped, KeptTyped, CountsTyped
  <2>3. QED
    BY <2>1, <2>2, CallGetsOn
<1>5. ASSUME NEW c \in Calls, PasswordNeeded(c) PROVE LoginTyped'
  <2>1. call[c].at = "signing" /\ call[c].at # "idle" /\ call' = [call EXCEPT ![c] = Free]
    BY <1>5 DEF PasswordNeeded
  <2>2. KeptTyped'
    BY <1>5 DEF PasswordNeeded, Keep, LoginTyped, KeptTyped
  <2>3. accounts' = accounts /\ accepted' = accepted /\ disturbed' = disturbed /\ unused' = unused /\ submits' = submits
    BY <1>5 DEF PasswordNeeded
  <2>4. QED
    BY <2>1, <2>2, <2>3, CallEnds
<1>6. ASSUME NEW c \in Calls, Refused(c) \/ Enrolled(c) \/ CallDies(c) PROVE LoginTyped'
  <2>1. call[c].at # "idle" /\ call' = [call EXCEPT ![c] = Free]
    BY <1>6, CallShape DEF Refused, Enrolled, CallDies, LoginTyped
  <2>2. /\ kept' = kept /\ accepted' = accepted /\ unused' = unused /\ submits' = submits
        /\ disturbed' \subseteq disturbed \union {call[c].of}
    BY <1>6 DEF Refused, Enrolled, CallDies
  <2>3. accounts' = accounts \/ accounts' = [accounts EXCEPT ![call[c].of] = @ + 1]
    BY <1>6 DEF Refused, Enrolled, CallDies
  <2>4. KeptTyped'
    BY <2>2 DEF LoginTyped, KeptTyped
  <2>5. QED
    BY <2>1, <2>2, <2>3, <2>4, CallEnds
<1>7. ASSUME NEW a \in Attempts, Start(a) \/ RemoveAccount(a) \/ Expire(a) PROVE LoginTyped'
  <2>1. /\ call' = call /\ submits' = submits /\ unused' \subseteq unused
        /\ accepted' = accepted /\ disturbed' = disturbed
    BY <1>7 DEF Start, RemoveAccount, Expire
  <2>2. accounts' = accounts \/ (accounts[a] > 0 /\ accounts' = [accounts EXCEPT ![a] = @ - 1])
    BY <1>7 DEF Start, RemoveAccount, Expire
  <2>3. KeptTyped'
    BY <1>7 DEF Start, RemoveAccount, Expire, Keep, LoginTyped, KeptTyped
  <2>4. CallTyped'
    BY <2>1 DEF LoginTyped, CallTyped
  <2>5. CountsTyped' /\ \A b \in Attempts : accounts'[b] <= accounts[b]
    BY <2>1, <2>2, LoginAssumption DEF LoginTyped, CountsTyped
  <2>6. QED
    BY <2>1, <2>3, <2>4, <2>5, CallsStay
<1>8. QED
  BY <1>1, <1>2, <1>3, <1>4, <1>5, <1>6, <1>7, SubmitKeepsLogins DEF LoginNext

LEMMA LoginInitTyped == Init => LoginTyped
<1> SUFFICES ASSUME Init PROVE LoginTyped
  OBVIOUS
<1>1. /\ kept = [a \in Attempts |-> "nothing"] /\ call = [c \in Calls |-> Free]
      /\ accounts = [a \in Attempts |-> 0] /\ accepted = [a \in Attempts |-> 0]
      /\ disturbed = {} /\ unused = Attempts /\ submits = MaxSubmits
  BY DEF Init, LoginInit
<1>2. KeptTyped /\ CallTyped /\ CountsTyped
  BY <1>1, LoginAssumption DEF KeptTyped, CallTyped, CountsTyped
<1>3. \A a \in Attempts : InFlight(a) = {} /\ accounts[a] = 0
  BY <1>1 DEF InFlight, Free
<1>4. QED
  <2>1. submits = MaxSubmits
    BY <1>1
  <2>2. QED
    BY <1>2, <1>3, <2>1, FS_EmptySet, LoginAssumption DEF LoginTyped, CallsCovered

-----------------------------------------------------------------------------
\* An attempt not given out is known to nobody.
NotBegun(a) == a \in unused => kept[a] = "nothing" /\ accepted[a] = 0 /\ InHandOf(a) = {}

\* At most one request has the attempt in hand: before Telegram accepts, or after and then
\* without an account yet. What was accepted is not in Redis once the state is deleted.
InOneHand(a) ==
    /\ \A c, d \in InHandOf(a) : c = d
    /\ accepted[a] \in {0, 1} /\ accounts[a] <= accepted[a]
    /\ \A c \in InHandOf(a) : call[c].at = "signing" => accepted[a] = 0
    /\ \A c \in InHandOf(a) : call[c].at # "signing" => accepted[a] = 1 /\ accounts[a] = 0
    /\ accepted[a] = 1 => kept[a] = "nothing" \/ \E c \in InHandOf(a) : call[c].at = "accepted"

Once(a) == NotBegun(a) /\ (a \notin disturbed => InOneHand(a))

LoginInv == LoginTyped /\ \A a \in Attempts : Once(a)

\* A free request has nothing in hand, one that has begun has a step.
LEMMA InHandBegun ==
    ASSUME LoginTyped, NEW a \in Attempts, NEW c \in InHandOf(a)
    PROVE  /\ c \in Calls /\ call[c] \in Begun /\ call[c].of = a /\ call[c] # Free
           /\ call[c].at \in {"signing", "accepted", "signed"}
<1>1. c \in Calls /\ call[c].of = a
  BY DEF InHandOf
<1>2. Free.of \notin Attempts
  BY LoginAssumption DEF Free
<1>3. call[c] \in Begun
  BY <1>1, <1>2 DEF LoginTyped, CallTyped
<1>4. QED
  BY <1>1, <1>2, <1>3 DEF Begun

\* What a step does to other attempts.
LEMMA OtherAttempts ==
    ASSUME NEW a \in Attempts, Once(a),
           \A c \in Calls : (call[c].of = a \/ call'[c].of = a) => call'[c] = call[c],
           kept'[a] = kept[a], accepted'[a] = accepted[a], accounts'[a] = accounts[a],
           a \in unused' => a \in unused, a \in disturbed => a \in disturbed'
    PROVE  Once(a)'
<1>1. InHandOf(a)' = InHandOf(a) /\ \A c \in InHandOf(a) : call'[c].at = call[c].at
  BY DEF InHandOf
<1>2. NotBegun(a)'
  BY <1>1 DEF Once, NotBegun
<1>3. ASSUME a \notin disturbed' PROVE InOneHand(a)'
  BY <1>1, <1>3 DEF Once, InOneHand
<1>4. QED
  BY <1>2, <1>3 DEF Once

\* A request that was there before gets on with its attempt, or leaves it.
LEMMA RequestMoves ==
    ASSUME LoginInv, NEW c \in Calls, NEW b \in Attempts, b = call[c].of,
           Accepted(c) \/ SignedIn(c) \/ PasswordNeeded(c) \/ Refused(c) \/ Enrolled(c) \/ CallDies(c)
    PROVE  \A a \in Attempts : Once(a)'
<1> DEFINE new == call'[c]
<1>1. /\ call[c] \in Begun /\ c \in InHandOf(b) /\ Free.of \notin Attempts
      /\ call[c].at \in {"signing", "accepted", "signed"}
  <2>1. c \in InHandOf(b)
    BY DEF InHandOf
  <2>2. QED
    BY <2>1, InHandBegun, LoginAssumption DEF LoginInv, Free
<1>2. /\ \A d \in Calls \ {c} : call'[d] = call[d]
      /\ new = Free \/ new.of = b
      /\ Accepted(c) => new.at = "accepted" /\ new.of = b
      /\ SignedIn(c) => new.at = "signed" /\ new.of = b
      /\ PasswordNeeded(c) \/ Refused(c) \/ Enrolled(c) \/ CallDies(c) => new = Free
  <2>1. DOMAIN call = Calls
    BY DEF LoginInv, LoginTyped, CallTyped
  <2>2. ASSUME NEW at, call' = [call EXCEPT ![c].at = at]
        PROVE  call'[c].of = b /\ call'[c].at = at /\ \A d \in Calls \ {c} : call'[d] = call[d]
    BY <1>1, <2>1, <2>2 DEF Begun
  <2>3. CASE Accepted(c)
    <3>1. call' = [call EXCEPT ![c].at = "accepted"] /\ call[c].at = "signing"
      BY <2>3 DEF Accepted
    <3>2. ~(SignedIn(c) \/ PasswordNeeded(c) \/ Refused(c) \/ Enrolled(c) \/ CallDies(c))
      BY <2>1, <2>2, <3>1 DEF SignedIn, PasswordNeeded, Refused, Enrolled, CallDies, Free
    <3>3. QED
      BY <2>2, <2>3, <3>1, <3>2
  <2>4. CASE SignedIn(c)
    <3>1. call' = [call EXCEPT ![c].at = "signed"] /\ call[c].at = "accepted"
      BY <2>4 DEF SignedIn
    <3>2. ~(Accepted(c) \/ PasswordNeeded(c) \/ Refused(c) \/ Enrolled(c) \/ CallDies(c))
      BY <2>1, <2>2, <3>1 DEF Accepted, PasswordNeeded, Refused, Enrolled, CallDies, Free
    <3>3. QED
      BY <2>2, <2>4, <3>1, <3>2
  <2>5. CASE PasswordNeeded(c) \/ Refused(c) \/ Enrolled(c) \/ CallDies(c)
    <3>1. call' = [call EXCEPT ![c] = Free]
      BY <2>5 DEF PasswordNeeded, Refused, Enrolled, CallDies
    <3>2. new = Free /\ new.at = "idle" /\ \A d \in Calls \ {c} : call'[d] = call[d]
      BY <2>1, <3>1 DEF Free
    <3>3. ~Accepted(c) /\ ~SignedIn(c)
      BY <2>2, <3>2 DEF Accepted, SignedIn
    <3>4. QED
      BY <2>5, <3>2, <3>3
  <2>6. QED
    BY <2>3, <2>4, <2>5
<1>3. /\ unused' = unused /\ disturbed \subseteq disturbed'
      /\ \A a \in Attempts \ {b} : kept'[a] = kept[a] /\ accepted'[a] = accepted[a] /\ accounts'[a] = accounts[a]
  BY DEF Accepted, SignedIn, PasswordNeeded, Refused, Enrolled, CallDies, Keep, LoginInv, LoginTyped, KeptTyped, CountsTyped
<1>4. ASSUME NEW a \in Attempts \ {b} PROVE Once(a)'
  <2>1. \A d \in Calls : (call[d].of = a \/ call'[d].of = a) => call'[d] = call[d]
    BY <1>1, <1>2
  <2>2. QED
    BY <1>3, <2>1, OtherAttempts DEF LoginInv
<1>5. Once(b)'
  <2>1. Once(b) /\ NotBegun(b)'
    BY <1>1, <1>3 DEF LoginInv, Once, NotBegun
  <2>2. ASSUME b \notin disturbed' PROVE InOneHand(b)'
    <3>1. InOneHand(b) /\ InHandOf(b) = {c} /\ ~CallDies(c)
      BY <1>1, <1>3, <2>1, <2>2 DEF Once, InOneHand, CallDies
    <3>2. accepted[b] \in Nat /\ accounts[b] \in Nat /\ kept \in [Attempts -> {"nothing", "code", "password"}]
      BY DEF LoginInv, LoginTyped, CountsTyped, KeptTyped
    <3>3. /\ new = Free => InHandOf(b)' = {}
          /\ new.of = b => InHandOf(b)' = {c}
      BY <1>1, <1>2, <3>1 DEF InHandOf
    <3> HIDE DEF new
    <3>4. CASE Accepted(c)
      <4>1. /\ call[c].at = "signing" /\ call'[c].at = "accepted" /\ InHandOf(b)' = {c}
            /\ accepted'[b] = accepted[b] + 1 /\ accounts'[b] = accounts[b]
        BY <1>2, <3>2, <3>3, <3>4 DEF new, Accepted, LoginInv, LoginTyped, CountsTyped
      <4>2. accepted[b] = 0 /\ accounts[b] = 0
        BY <3>1, <3>2, <4>1 DEF InOneHand
      <4>3. QED
        BY <4>1, <4>2 DEF InOneHand
    <3>5. CASE SignedIn(c)
      <4>1. /\ call[c].at = "accepted" /\ call'[c].at = "signed" /\ InHandOf(b)' = {c}
            /\ accepted'[b] = accepted[b] /\ accounts'[b] = accounts[b] /\ kept'[b] = "nothing"
        BY <1>2, <3>2, <3>3, <3>5 DEF new, SignedIn, Keep
      <4>2. accepted[b] = 1 /\ accounts[b] = 0
        BY <3>1, <4>1 DEF InOneHand
      <4>3. QED
        BY <4>1, <4>2 DEF InOneHand
    <3>6. CASE PasswordNeeded(c) \/ Refused(c)
      <4>1. /\ call[c].at = "signing" /\ InHandOf(b)' = {}
            /\ accepted'[b] = accepted[b] /\ accounts'[b] = accounts[b]
        BY <1>2, <3>3, <3>6 DEF PasswordNeeded, Refused
      <4>2. accepted[b] = 0
        BY <3>1, <4>1 DEF InOneHand
      <4>3. QED
        BY <3>1, <4>1, <4>2 DEF InOneHand
    <3>7. CASE Enrolled(c)
      <4>1. /\ call[c].at = "signed" /\ InHandOf(b)' = {}
            /\ accepted'[b] = accepted[b] /\ accounts'[b] = accounts[b] + 1 /\ kept'[b] = kept[b]
        BY <1>2, <3>3, <3>7 DEF Enrolled, LoginInv, LoginTyped, CountsTyped
      <4>2. accepted[b] = 1 /\ accounts[b] = 0 /\ kept[b] = "nothing"
        BY <3>1, <4>1 DEF InOneHand
      <4>3. QED
        BY <4>1, <4>2 DEF InOneHand
    <3>8. QED
      BY <3>1, <3>4, <3>5, <3>6, <3>7
  <2>3. QED
    BY <2>1, <2>2 DEF Once
<1>6. QED
  BY <1>4, <1>5

\* A request that takes an attempt up finds a state, so nothing was accepted for it, or
\* another request has it in hand.
LEMMA RequestBegins ==
    ASSUME LoginInv, NEW c \in Calls, NEW b \in Attempts, NEW with \in {"code", "password"}, Submit(c, b, with)
    PROVE  \A a \in Attempts : Once(a)'
<1> DEFINE new == [of |-> b, at |-> "signing", with |-> with]
<1>1. /\ call[c] = Free /\ kept[b] # "nothing" /\ call' = [call EXCEPT ![c] = new]
      /\ disturbed' = IF InHandOf(b) = {} THEN disturbed ELSE disturbed \union {b}
      /\ UNCHANGED <<kept, accounts, accepted, unused>>
  BY DEF Submit
<1>2. call'[c] = new /\ (\A d \in Calls \ {c} : call'[d] = call[d]) /\ Free.of \notin Attempts
  BY <1>1, LoginAssumption DEF LoginInv, LoginTyped, CallTyped, Free
<1>3. ASSUME NEW a \in Attempts \ {b} PROVE Once(a)'
  <2>1. \A d \in Calls : (call[d].of = a \/ call'[d].of = a) => call'[d] = call[d]
    BY <1>1, <1>2
  <2>2. a \in disturbed => a \in disturbed'
    BY <1>1
  <2>3. kept'[a] = kept[a] /\ accepted'[a] = accepted[a] /\ accounts'[a] = accounts[a] /\ unused' = unused
    BY <1>1
  <2>4. QED
    BY <2>1, <2>2, <2>3, OtherAttempts DEF LoginInv
<1>4. Once(b)'
  <2>1. Once(b) /\ b \notin unused /\ NotBegun(b)'
    BY <1>1 DEF LoginInv, Once, NotBegun
  <2>2. ASSUME b \notin disturbed' PROVE InOneHand(b)'
    <3>1. InHandOf(b) = {} /\ InOneHand(b)
      BY <1>1, <2>1, <2>2 DEF Once
    <3>2. InHandOf(b)' = {c} /\ call'[c].at = "signing"
      BY <1>2, <3>1 DEF InHandOf
    <3>3. accepted[b] = 0
      BY <1>1, <3>1 DEF InOneHand
    <3>4. accepted'[b] = 0 /\ accounts'[b] = accounts[b] /\ accepted[b] = 0
      BY <1>1, <3>3
    <3>5. QED
      BY <3>1, <3>2, <3>4 DEF InOneHand
  <2>3. QED
    BY <2>1, <2>2 DEF Once
<1>5. QED
  BY <1>3, <1>4

\* An attempt begins, its state expires, or its account is deleted.
LEMMA AttemptMoves ==
    ASSUME LoginInv, NEW b \in Attempts, Start(b) \/ RemoveAccount(b) \/ Expire(b)
    PROVE  \A a \in Attempts : Once(a)'
<1>1. /\ call' = call /\ disturbed' = disturbed /\ accepted' = accepted /\ unused' \subseteq unused
      /\ \A a \in Attempts \ {b} : kept'[a] = kept[a] /\ accounts'[a] = accounts[a]
  BY DEF Start, RemoveAccount, Expire, Keep, LoginInv, LoginTyped, KeptTyped, CountsTyped
<1>2. ASSUME NEW a \in Attempts \ {b} PROVE Once(a)'
  <2>1. \A d \in Calls : call'[d] = call[d]
    BY <1>1
  <2>2. /\ kept'[a] = kept[a] /\ accepted'[a] = accepted[a] /\ accounts'[a] = accounts[a]
        /\ a \in unused' => a \in unused
        /\ a \in disturbed => a \in disturbed'
    BY <1>1
  <2>3. QED
    BY <2>1, <2>2, OtherAttempts DEF LoginInv
<1>3. Once(b)'
  <2>1. InHandOf(b)' = InHandOf(b) /\ accepted'[b] = accepted[b] /\ Once(b)
    BY <1>1 DEF InHandOf, LoginInv
  <2>2. accounts[b] \in Nat
    BY CallsCounted DEF LoginInv, LoginTyped
  <2>3. CASE Start(b)
    <3>1. b \in unused /\ b \notin unused' /\ accounts'[b] = accounts[b]
      BY <2>3 DEF Start
    <3>2. accepted[b] = 0 /\ InHandOf(b) = {}
      BY <2>1, <3>1 DEF Once, NotBegun
    <3>3. QED
      BY <1>1, <2>1, <3>1, <3>2 DEF Once, NotBegun, InOneHand
  <2>4. CASE RemoveAccount(b)
    <3>1. kept' = kept /\ accounts[b] > 0 /\ accounts'[b] = accounts[b] - 1 /\ unused' = unused
      BY <2>4 DEF RemoveAccount, LoginInv, LoginTyped, CountsTyped
    <3>2. QED
      BY <1>1, <2>1, <2>2, <3>1 DEF Once, NotBegun, InOneHand
  <2>5. CASE Expire(b)
    <3>1. kept'[b] = "nothing" /\ accounts' = accounts /\ unused' = unused
      BY <2>5 DEF Expire, Keep, LoginInv, LoginTyped, KeptTyped
    <3>2. QED
      BY <1>1, <2>1, <3>1 DEF Once, NotBegun, InOneHand
  <2>6. QED
    BY <2>3, <2>4, <2>5
<1>4. QED
  BY <1>2, <1>3

LEMMA OnceSteps == LoginInv /\ [Next]_vars => LoginInv'
<1> SUFFICES ASSUME LoginInv, [Next]_vars PROVE LoginInv'
  OBVIOUS
<1>1. LoginNext \/ UNCHANGED loginVars
  BY DEF Next, vars, ButTheme, ButSettings, ButRunner, ButReview, ButQuestion
<1>2. LoginTyped'
  BY LoginSteps DEF LoginInv
<1>3. CASE UNCHANGED loginVars
  <2>1. \A a \in Attempts : Once(a)'
    BY <1>3 DEF LoginInv, Once, NotBegun, InOneHand, InHandOf, loginVars
  <2>2. QED
    BY <1>2, <2>1 DEF LoginInv
<1>4. CASE LoginNext
  <2>1. ASSUME NEW c \in Calls,
               Accepted(c) \/ SignedIn(c) \/ PasswordNeeded(c) \/ Refused(c) \/ Enrolled(c) \/ CallDies(c)
        PROVE  \A a \in Attempts : Once(a)'
    <3>1. call[c].at # "idle"
      BY <2>1, CallShape DEF Accepted, SignedIn, PasswordNeeded, Refused, Enrolled, CallDies, LoginInv, LoginTyped
    <3>2. call[c].of \in Attempts
      BY <3>1, CallShape DEF LoginInv, LoginTyped
    <3>3. QED
      BY <2>1, <3>2, RequestMoves
  <2>2. \A a \in Attempts : Once(a)'
    BY <1>4, <2>1, RequestBegins, AttemptMoves DEF LoginNext
  <2>3. QED
    BY <1>2, <2>2 DEF LoginInv
<1>5. QED
  BY <1>1, <1>3, <1>4

\* An attempt that Telegram has accepted is over, unless two requests had it in hand at once
\* or one was cut short: its state is gone once its request is past it, no other request
\* takes it up, and one account at most comes of it, for any number of attempts, of requests
\* and of codes refused before (submit_code, submit_password).
THEOREM LoginsAreOnce == Spec => []AcceptedOnce
<1>1. Init => LoginInv
  <2> SUFFICES ASSUME Init PROVE LoginInv
    OBVIOUS
  <2>1. /\ kept = [a \in Attempts |-> "nothing"] /\ call = [c \in Calls |-> Free]
        /\ accounts = [a \in Attempts |-> 0] /\ accepted = [a \in Attempts |-> 0]
    BY DEF Init, LoginInit
  <2>2. \A a \in Attempts : InHandOf(a) = {}
    BY <2>1, LoginAssumption DEF InHandOf, Free
  <2>3. \A a \in Attempts : Once(a)
    BY <2>1, <2>2 DEF Once, NotBegun, InOneHand
  <2>4. QED
    BY <2>3, LoginInitTyped DEF LoginInv
<1>2. LoginInv => AcceptedOnce
  <2> SUFFICES ASSUME LoginInv, NEW a \in Attempts \ disturbed
               PROVE  /\ accounts[a] <= accepted[a] /\ accepted[a] <= 1
                      /\ accepted[a] = 1 =>
                            /\ kept[a] = "nothing" \/ \E c \in InHandOf(a) : call[c].at = "accepted"
                            /\ \A c \in InHandOf(a) : call[c].at # "signing"
    BY DEF AcceptedOnce
  <2>1. InOneHand(a)
    BY DEF LoginInv, Once
  <2>2. QED
    BY <2>1 DEF InOneHand
<1>3. QED
  BY <1>1, <1>2, OnceSteps, PTL DEF Spec

-----------------------------------------------------------------------------
\* The active bots of a row, of tasks or of what was read.
Rowed(f) == {b \in RunBots : f[b] # Nothing}

LEMMA RunnerInitTyped == Init => RunnerTypeOK
<1> SUFFICES ASSUME Init PROVE RunnerTypeOK
  OBVIOUS
<1>1. /\ listed \in [RunBots -> FirstRows]
      /\ loaded = Nothing /\ task = [b \in RunBots |-> Nothing] /\ signature = <<>>
      /\ polls = {} /\ attached = FALSE /\ changes = MaxChanges
  BY DEF Init, RunnerInit
<1>2. FirstRows \subseteq Config \union {Nothing}
  <2>1. Tokens # {} /\ BotThemes # {}
    BY RunnerAssumption
  <2>2. (CHOOSE t \in Tokens : TRUE) \in Tokens /\ (CHOOSE t \in BotThemes : TRUE) \in BotThemes
    BY <2>1
  <2>3. QED
    BY <2>2 DEF FirstRows, Config
<1>3. listed \in [RunBots -> Config \union {Nothing}]
  BY <1>1, <1>2
<1>4. task \in [RunBots -> Config \union {Nothing}]
  BY <1>1
<1>5. DOMAIN signature = {b \in RunBots : task[b] # Nothing}
  <2>1. DOMAIN signature = {}
    BY <1>1
  <2>2. \A b \in RunBots : task[b] = Nothing
    BY <1>1
  <2>3. QED
    BY <2>1, <2>2
<1>6. changes \in 0 .. MaxChanges
  BY <1>1, RunnerAssumption
<1>7. QED
  BY <1>1, <1>3, <1>4, <1>5, <1>6 DEF RunnerTypeOK

\* A round: the tasks are those of the rows that were read.
LEMMA ApplyKeepsTypes ==
    ASSUME RunnerTypeOK, Apply
    PROVE  RunnerTypeOK'
<1> DEFINE wanted == {b \in RunBots : loaded[b] # Nothing}
           same == {b \in wanted \cap DOMAIN signature : signature[b] = Signature(loaded[b])}
<1>1. /\ loaded # Nothing
      /\ task' = [b \in RunBots |-> IF b \in same THEN task[b] ELSE loaded[b]]
      /\ signature' = [b \in wanted |-> Signature(loaded[b])]
      /\ polls' = polls \cap same
      /\ loaded' = Nothing /\ listed' = listed /\ attached' = attached /\ changes' = changes
  BY DEF Apply
<1>2. /\ loaded \in [RunBots -> Config \union {Nothing}]
      /\ task \in [RunBots -> Config \union {Nothing}]
      /\ DOMAIN signature = {b \in RunBots : task[b] # Nothing}
  BY <1>1 DEF RunnerTypeOK
<1>3. task' \in [RunBots -> Config \union {Nothing}]
  BY <1>1, <1>2
<1>4. same \subseteq wanted /\ wanted \subseteq RunBots /\ \A b \in same : task[b] # Nothing
  BY <1>2
<1>5. \A b \in RunBots : b \in wanted <=> loaded[b] # Nothing
  OBVIOUS
<1> HIDE DEF wanted, same
<1>6. DOMAIN signature' = wanted
  BY <1>1
<1>7. \A b \in RunBots : task'[b] = IF b \in same THEN task[b] ELSE loaded[b]
  BY <1>1
<1>8. wanted = {b \in RunBots : task'[b] # Nothing}
  BY <1>4, <1>5, <1>7
<1>9. polls' \subseteq wanted
  BY <1>1, <1>4
<1>10. QED
  BY <1>1, <1>3, <1>6, <1>8, <1>9 DEF RunnerTypeOK

LEMMA RunnerSteps == RunnerTypeOK /\ [Next]_vars => RunnerTypeOK'
<1> SUFFICES ASSUME RunnerTypeOK, [Next]_vars PROVE RunnerTypeOK'
  OBVIOUS
<1>1. RunnerNext \/ UNCHANGED runnerVars
  BY DEF Next, vars, ButTheme, ButSettings, ButLogin, ButReview, ButQuestion
<1>2. CASE UNCHANGED runnerVars
  BY <1>2 DEF RunnerTypeOK, runnerVars
<1>3. CASE Load
  BY <1>3 DEF Load, RunnerTypeOK
<1>4. CASE RunnerRestarts
  <2>1. /\ loaded' = Nothing /\ task' = [b \in RunBots |-> Nothing] /\ signature' = <<>> /\ polls' = {}
        /\ attached' = FALSE /\ listed' = listed
    BY <1>4 DEF RunnerRestarts
  <2>2. changes' \in 0 .. MaxChanges
    BY <1>4, RunnerAssumption DEF RunnerRestarts, Happens, RunnerTypeOK
  <2>3. DOMAIN signature' = {} /\ \A b \in RunBots : task'[b] = Nothing
    BY <2>1
  <2>4. task' \in [RunBots -> Config \union {Nothing}]
    BY <2>1
  <2>5. DOMAIN signature' = {b \in RunBots : task'[b] # Nothing}
    BY <2>3
  <2>6. QED
    BY <2>1, <2>2, <2>4, <2>5 DEF RunnerTypeOK
<1>5. ASSUME NEW b \in RunBots, PollingFails(b) PROVE RunnerTypeOK'
  BY <1>5, RunnerAssumption DEF PollingFails, Happens, RunnerTypeOK
<1>6. ASSUME NEW b \in RunBots, StartPolling(b) PROVE RunnerTypeOK'
  BY <1>6 DEF StartPolling, RunnerTypeOK
<1>7. ASSUME NEW b \in RunBots, NEW now \in Config \union {Nothing}, ChangeRow(b, now) PROVE RunnerTypeOK'
  BY <1>7, RunnerAssumption DEF ChangeRow, Happens, RunnerTypeOK
<1>8. QED
  BY <1>1, <1>2, <1>3, <1>4, <1>5, <1>6, <1>7, ApplyKeepsTypes DEF RunnerNext

-----------------------------------------------------------------------------
\* A question pays for one round after the other; the rows of the rounds are with the
\* session until a query writes them, and booked by the commit alone.
RoundsPaid ==
    /\ phase = "asked" => paid = 0 /\ round = 0
    /\ phase = "thinking" => paid = round
    /\ phase = "tools" => paid = round + 1
    /\ phase \in Ended => paid <= MaxRounds
    /\ phase # "answered" => booked = 0

QuestionInv == QuestionTypeOK /\ RoundsPaid /\ Booked

LEMMA QuestionInitTyped == Init => QuestionInv
<1> SUFFICES ASSUME Init PROVE QuestionInv
  OBVIOUS
<1>1. /\ phase = "asked" /\ round = 0 /\ calls = 0 /\ given = 0
      /\ added = 0 /\ tx = "open" /\ paid = 0 /\ booked = 0
  BY DEF Init, QuestionInit
<1>2. QuestionTypeOK
  BY <1>1, AssistantAssumption DEF QuestionTypeOK
<1>3. RoundsPaid /\ Booked
  BY <1>1, AssistantAssumption DEF RoundsPaid, Booked, Ended
<1>4. QED
  BY <1>2, <1>3 DEF QuestionInv

\* The commit: it books every round, or it is silently undone, or it raises.
LEMMA FinishEnds ==
    ASSUME NEW rows, Finish(rows)
    PROVE  /\ phase' \in {"answered", "failed"}
           /\ phase' # "answered" => booked' = booked
           /\ phase' = "answered" => (tx = "open" /\ booked' = paid') \/ (tx = "aborted" /\ rows = 0 /\ booked' = booked)
  BY DEF Finish

LEMMA QuestionSteps == QuestionInv /\ [Next]_vars => QuestionInv'
<1> SUFFICES ASSUME QuestionInv, [Next]_vars PROVE QuestionInv'
  OBVIOUS
<1>1. QuestionNext \/ UNCHANGED questionVars
  BY DEF Next, vars, ButTheme, ButSettings, ButLogin, ButRunner, ButReview
<1>2. CASE UNCHANGED questionVars
  BY <1>2 DEF QuestionInv, QuestionTypeOK, RoundsPaid, Booked, After, questionVars
<1> USE AssistantAssumption DEF QuestionInv, QuestionTypeOK, RoundsPaid, Booked, Ended, After
<1>3. CASE Begin
  BY <1>3 DEF Begin
<1>4. CASE Answered
  BY <1>4, FinishEnds DEF Answered, Paid, Finish
<1>5. CASE AsksForTools
  BY <1>5 DEF AsksForTools, Paid
<1>6. CASE ModelFails
  BY <1>6 DEF ModelFails
<1>7. CASE Tool
  <2>1. /\ phase = "tools" /\ UNCHANGED <<phase, round, paid, booked>>
        /\ calls > 0 /\ calls' = calls - 1
    BY <1>7 DEF Tool
  <2>2. given' \in Nat /\ given' < OutputBudget + ResultSize
    BY <1>7 DEF Tool, Query
  <2>3. added' \in Nat /\ tx' \in {"open", "aborted", "lost"}
    BY <1>7 DEF Tool, Query
  <2>4. calls' \in 0 .. MaxCalls
    BY <2>1
  <2>5. QED
    BY <2>1, <2>2, <2>3, <2>4
<1>8. CASE RoundEnds
  <2>1. CASE After(round) < MaxRounds
    BY <1>8, <2>1 DEF RoundEnds
  <2>2. CASE ~(After(round) < MaxRounds)
    <3>1. /\ phase = "tools" /\ calls = 0 /\ UNCHANGED <<round, paid, calls, given, added, tx>> /\ Finish(added)
      BY <1>8, <2>2 DEF RoundEnds
    <3>2. round + 1 = MaxRounds
      BY <2>2
    <3>3. QED
      BY <3>1, <3>2, FinishEnds
  <2>3. QED
    BY <2>1, <2>2
<1>9. QED
  BY <1>1, <1>2, <1>3, <1>4, <1>5, <1>6, <1>7, <1>8 DEF QuestionNext

-----------------------------------------------------------------------------
\* Taking an element out of a sequence without repetitions leaves none of it.
LEMMA TakenOut ==
    ASSUME NEW S, NEW s \in Seq(S), NEW p, IsInjective(s)
    PROVE  /\ RemoveFirst(s, p) \in Seq(S) /\ IsInjective(RemoveFirst(s, p))
           /\ \A i \in DOMAIN RemoveFirst(s, p) : RemoveFirst(s, p)[i] # p
<1> DEFINE r == RemoveFirst(s, p)
           at == {i \in 1 .. Len(s) : s[i] = p}
<1>1. CASE ~ \E k \in DOMAIN s : s[k] = p
  <2>1. r = s
    BY <1>1 DEF RemoveFirst
  <2> HIDE DEF r
  <2>2. r \in Seq(S) /\ IsInjective(r) /\ \A i \in DOMAIN r : r[i] # p
    BY <1>1, <2>1
  <2>3. QED
    BY <2>2 DEF r
<1>2. ASSUME NEW k \in DOMAIN s, s[k] = p
      PROVE  /\ RemoveFirst(s, p) \in Seq(S) /\ IsInjective(RemoveFirst(s, p))
             /\ \A i \in DOMAIN RemoveFirst(s, p) : RemoveFirst(s, p)[i] # p
  <2> DEFINE a == SubSeq(s, 1, k - 1)
             b == SubSeq(s, k + 1, Len(s))
  <2>1. at = {k}
    BY <1>2 DEF IsInjective
  <2>2. Min(at) = k
    BY <1>2, <2>1 DEF Min
  <2>3. r = a \o b
    <3>1. r = RemoveAt(s, Min(at))
      BY <1>2 DEF RemoveFirst, SelectInSeq
    <3>2. QED
      BY <2>2, <3>1 DEF RemoveAt
  <2>4. k \in 1 .. Len(s) /\ Len(s) \in Nat
    BY <1>2
  <2>5. /\ a \in Seq(S) /\ Len(a) = k - 1 /\ \A i \in 1 .. k - 1 : a[i] = s[i]
        /\ b \in Seq(S) /\ Len(b) = Len(s) - k /\ \A i \in 1 .. Len(s) - k : b[i] = s[k + i]
    BY <2>4
  <2> HIDE DEF r, at, a, b
  <2>6. /\ r \in Seq(S) /\ Len(r) = Len(a) + Len(b)
        /\ \A i \in 1 .. Len(a) + Len(b) : r[i] = IF i <= Len(a) THEN a[i] ELSE b[i - Len(a)]
    <3>1. /\ a \o b \in Seq(S) /\ Len(a \o b) = Len(a) + Len(b)
          /\ \A i \in 1 .. Len(a) + Len(b) : (a \o b)[i] = IF i <= Len(a) THEN a[i] ELSE b[i - Len(a)]
      BY <2>5, ConcatProperties
    <3>2. QED
      BY <2>3, <3>1
  <2>7. DOMAIN r = 1 .. Len(s) - 1 /\ DOMAIN s = 1 .. Len(s)
    <3>1. Len(r) = Len(s) - 1 /\ DOMAIN r = 1 .. Len(r)
      BY <2>4, <2>5, <2>6
    <3>2. QED
      BY <3>1
  <2>8. ASSUME NEW i \in DOMAIN r
        PROVE  \E j \in DOMAIN s : r[i] = s[j] /\ j # k /\ (i < k => j = i) /\ (i >= k => j = i + 1)
    <3>1. r[i] = IF i <= k - 1 THEN a[i] ELSE b[i - (k - 1)]
      <4>1. Len(a) = k - 1 /\ i \in 1 .. Len(a) + Len(b)
        BY <2>4, <2>5, <2>7
      <4>2. QED
        BY <2>6, <4>1
    <3>2. CASE i < k
      BY <2>4, <2>5, <2>7, <3>1, <3>2
    <3>3. CASE i >= k
      <4>1. i - (k - 1) \in 1 .. Len(s) - k /\ k + (i - (k - 1)) = i + 1 /\ ~(i <= k - 1) /\ ~(i < k)
        BY <2>4, <2>7, <3>3
      <4>2. b[i - (k - 1)] = s[k + (i - (k - 1))]
        BY <2>5, <4>1
      <4>3. i + 1 \in DOMAIN s /\ i + 1 # k
        BY <2>4, <2>7, <3>3
      <4>4. QED
        BY <3>1, <4>1, <4>2, <4>3
    <3>4. QED
      BY <2>4, <2>7, <3>2, <3>3
  <2>9. \A i \in DOMAIN r : r[i] # p
    BY <1>2, <2>8 DEF IsInjective
  <2>10. ASSUME NEW i \in DOMAIN r, NEW j \in DOMAIN r, r[i] = r[j] PROVE i = j
    <3>1. PICK x \in DOMAIN s : r[i] = s[x] /\ x # k /\ (i < k => x = i) /\ (i >= k => x = i + 1)
      BY <2>8
    <3>2. PICK y \in DOMAIN s : r[j] = s[y] /\ y # k /\ (j < k => y = j) /\ (j >= k => y = j + 1)
      BY <2>8
    <3>3. x = y
      BY <2>10, <3>1, <3>2 DEF IsInjective
    <3>4. QED
      BY <2>4, <2>7, <3>1, <3>2, <3>3
  <2>11. r \in Seq(S) /\ IsInjective(r) /\ \A i \in DOMAIN r : r[i] # p
    BY <2>6, <2>9, <2>10 DEF IsInjective
  <2>12. QED
    BY <2>11 DEF r
<1>3. QED
  BY <1>1, <1>2

\* The examples of a bot: so many at the most, each once.
Examples(s) == s \in Seq(Drafts) /\ Len(s) <= MaxExamples /\ IsInjective(s)

LEMMA RememberKeeps ==
    ASSUME NEW s, Examples(s), NEW p \in Drafts
    PROVE  Examples(Remember(s, p))
<1> DEFINE r == RemoveFirst(s, p)
           all == Append(r, p)
           first == IF Len(all) > MaxExamples THEN Len(all) - MaxExamples + 1 ELSE 1
<1>1. r \in Seq(Drafts) /\ IsInjective(r) /\ \A i \in DOMAIN r : r[i] # p
  BY TakenOut DEF Examples
<1>2. Remember(s, p) = SubSeq(all, first, Len(all))
  BY DEF Remember
<1> HIDE DEF r
<1>3. /\ all \in Seq(Drafts) /\ Len(all) = Len(r) + 1 /\ Len(r) \in Nat /\ DOMAIN r = 1 .. Len(r)
      /\ \A i \in 1 .. Len(r) : all[i] = r[i]
      /\ all[Len(r) + 1] = p
  BY <1>1
<1> HIDE DEF all
<1>4. ASSUME NEW i \in 1 .. Len(all), NEW j \in 1 .. Len(all), all[i] = all[j] PROVE i = j
  <2>1. CASE i <= Len(r) /\ j <= Len(r)
    BY <1>1, <1>3, <1>4, <2>1 DEF IsInjective
  <2>2. CASE i > Len(r) \/ j > Len(r)
    BY <1>1, <1>3, <1>4, <2>2
  <2>3. QED
    BY <1>3, <2>1, <2>2
<1>5. MaxExamples \in Nat /\ MaxExamples > 0
  BY EditorAssumption
<1>6. first \in 1 .. Len(all) /\ Len(all) - first + 1 <= MaxExamples /\ Len(all) \in Nat
  BY <1>3, <1>5
<1> HIDE DEF first
<1> DEFINE last == SubSeq(all, first, Len(all))
<1>7. /\ last \in Seq(Drafts) /\ Len(last) = Len(all) - first + 1
      /\ \A i \in 1 .. Len(last) : last[i] = all[first + i - 1]
  BY <1>3, <1>6
<1> HIDE DEF last
<1>8. ASSUME NEW i \in DOMAIN last, NEW j \in DOMAIN last, last[i] = last[j] PROVE i = j
  <2>1. i \in 1 .. Len(last) /\ j \in 1 .. Len(last)
    BY <1>7
  <2>2. first + i - 1 \in 1 .. Len(all) /\ first + j - 1 \in 1 .. Len(all)
    BY <1>6, <1>7, <2>1
  <2>3. all[first + i - 1] = all[first + j - 1]
    BY <1>7, <1>8, <2>1
  <2>4. first + i - 1 = first + j - 1
    BY <1>4, <2>2, <2>3
  <2>5. QED
    BY <1>6, <2>1, <2>4
<1>9. Examples(last)
  BY <1>6, <1>7, <1>8 DEF Examples, IsInjective
<1>10. QED
  BY <1>2, <1>9 DEF last

ActsCover == acts \in 0 .. MaxActs /\ \A p \in Drafts : presses[p] + acts <= MaxActs

\* What the people did is within their bound; the posts and examples are of their types.
ReviewTyped ==
    /\ draft \in [Drafts -> {"in review", "approved", "rejected"}]
    /\ taught \in [ThemeBots -> Seq(Drafts)] /\ \A b \in ThemeBots : Examples(taught[b])
    /\ notify \in People \union {NoPerson}
    /\ ActsCover

LEMMA ReviewTypes == ReviewTyped /\ EditInv => EditorTypeOK
<1> SUFFICES ASSUME ReviewTyped, EditInv PROVE EditorTypeOK
  OBVIOUS
<1>1. presses \in [Drafts -> 0 .. MaxActs]
  <2>1. presses \in [Drafts -> Nat] /\ ActsCover
    BY DEF ReviewTyped, EditInv, EditTypes
  <2>2. QED
    BY <2>1, EditorAssumption DEF ActsCover
<1>2. \A p \in Drafts : changed[p] \in Nat /\ changed[p] <= presses[p] /\ presses[p] <= MaxActs
  <2>1. ASSUME NEW p \in Drafts PROVE changed[p] \in Nat /\ changed[p] <= presses[p] /\ presses[p] <= MaxActs
    <3>1. presses[p] \in 0 .. MaxActs
      BY <1>1
    <3>2. QED
      BY <3>1, OpenFinite, EditorAssumption DEF EditInv, PressesCover
  <2>2. QED
    BY <2>1
<1>3. changed \in [Drafts -> 0 .. MaxActs]
  BY <1>2, EditorAssumption DEF EditInv, EditTypes
<1>4. acts \in 0 .. MaxActs
  BY DEF ReviewTyped, ActsCover
<1>5. QED
  BY <1>1, <1>3, <1>4 DEF EditorTypeOK, ReviewTyped, EditInv, EditTypes, Examples

LEMMA ReviewInitTyped == Init => ReviewTyped
<1> SUFFICES ASSUME Init PROVE ReviewTyped
  OBVIOUS
<1>1. /\ draft = [p \in Drafts |-> "in review"] /\ taught = [b \in ThemeBots |-> <<>>]
      /\ notify = NoPerson /\ presses = [p \in Drafts |-> 0] /\ acts = MaxActs
  BY DEF Init, EditorInit
<1>2. Examples(<<>>)
  BY EditorAssumption DEF Examples, IsInjective
<1>3. <<>> \in Seq(Drafts)
  BY <1>2 DEF Examples
<1>4. QED
  <2>1. ActsCover
    <3>1. acts = MaxActs /\ \A p \in Drafts : presses[p] = 0
      BY <1>1
    <3>2. QED
      BY <3>1, EditorAssumption DEF ActsCover
  <2>2. QED
    BY <1>1, <1>2, <1>3, <2>1 DEF ReviewTyped

LEMMA ReviewSteps == ReviewTyped /\ EditInv /\ [Next]_vars => ReviewTyped'
<1> SUFFICES ASSUME ReviewTyped, EditInv, [Next]_vars PROVE ReviewTyped'
  OBVIOUS
<1>1. EditorNext \/ UNCHANGED editorVars
  BY DEF Next, vars, ButTheme, ButSettings, ButLogin, ButRunner, ButQuestion
<1>2. CASE UNCHANGED editorVars
  BY <1>2 DEF ReviewTyped, ActsCover, editorVars, Examples
<1> ActsCover /\ presses \in [Drafts -> Nat]
  BY DEF ReviewTyped, EditInv, EditTypes
<1>3. ASSUME Act, presses' = presses PROVE ActsCover'
  BY <1>3, EditorAssumption DEF Act, ActsCover
<1>4. ASSUME NEW who \in People, NEW b \in AllBots, NEW p \in Drafts, Press(b, who, p) PROVE ReviewTyped'
  <2>1. /\ acts > 0 /\ acts' = acts - 1 /\ presses' = [presses EXCEPT ![p] = @ + 1]
        /\ draft' = draft /\ taught' = taught /\ notify' = notify
    BY <1>4 DEF Press, Act
  <2>2. acts' \in 0 .. MaxActs
    <3>1. acts > 0 /\ acts' = acts - 1
      BY <2>1
    <3>2. QED
      BY <3>1, EditorAssumption DEF ActsCover
  <2>3. ASSUME NEW q \in Drafts PROVE presses'[q] + acts' <= MaxActs
    <3>1. presses'[q] = IF q = p THEN presses[q] + 1 ELSE presses[q]
      BY <2>1 DEF EditInv, EditTypes
    <3>2. presses[q] \in Nat /\ acts \in Nat /\ MaxActs \in Nat /\ presses[q] + acts <= MaxActs
      BY EditorAssumption DEF ActsCover
    <3>3. QED
      BY <2>1, <3>1, <3>2
  <2>4. QED
    BY <2>1, <2>2, <2>3 DEF ReviewTyped, ActsCover, Examples
<1>5. ASSUME NEW s \in saving, SaveText(s) PROVE ReviewTyped'
  <2>1. s.post \in Drafts
    BY DEF EditInv, EditTypes
  <2>2. draft' = draft /\ notify' = notify /\ presses' = presses /\ acts' = acts
    BY <1>5 DEF SaveText
  <2>3. \/ taught' = taught
        \/ taught' = [b \in ThemeBots |-> IF b = s.bot THEN Remember(taught[b], s.post) ELSE taught[b]]
    BY <1>5 DEF SaveText
  <2>4. ASSUME NEW b \in ThemeBots PROVE Examples(taught'[b])
    <3>1. Examples(taught[b]) /\ Examples(Remember(taught[b], s.post))
      BY <2>1, RememberKeeps DEF ReviewTyped
    <3>2. taught'[b] = taught[b] \/ taught'[b] = Remember(taught[b], s.post)
      BY <2>3
    <3>3. QED
      BY <3>1, <3>2
  <2>5. taught' \in [ThemeBots -> Seq(Drafts)]
    BY <2>3, <2>4 DEF ReviewTyped, Examples
  <2>6. QED
    BY <2>2, <2>4, <2>5 DEF ReviewTyped, ActsCover
<1>6. ASSUME NEW who \in People, NEW b \in AllBots, Text(b, who) PROVE ReviewTyped'
  BY <1>3, <1>6 DEF Text, ReviewTyped, Examples
<1>7. ASSUME NEW who \in People, NEW b \in AllBots, NEW p \in Drafts,
             NEW status \in {"approved", "rejected"}, Decide(b, who, p, status)
      PROVE  ReviewTyped'
  BY <1>3, <1>7 DEF Decide, ReviewTyped, Examples
<1>8. ASSUME NEW who \in People, StartAdmin(who) PROVE ReviewTyped'
  BY <1>3, <1>8 DEF StartAdmin, ReviewTyped, Examples
<1>9. CASE BotsRestart
  BY <1>3, <1>9 DEF BotsRestart, ReviewTyped, Examples
<1>10. QED
  BY <1>1, <1>2, <1>4, <1>5, <1>6, <1>7, <1>8, <1>9 DEF EditorNext

-----------------------------------------------------------------------------
\* Rubrics whose names differ, whatever their case.
Distinct(names) == \A i, j \in DOMAIN names : Fold[names[i]] = Fold[names[j]] => i = j
Cleaned == {s \in Seq(DOMAIN Fold) : Distinct(s)}

\* A name that differs from the ones there can be put behind them.
LEMMA OneMoreName ==
    ASSUME NEW s \in Cleaned, NEW name \in DOMAIN Fold, ~ \E k \in Range(s) : Fold[k] = Fold[name]
    PROVE  Append(s, name) \in Cleaned
<1> DEFINE r == Append(s, name)
<1>1. /\ s \in Seq(DOMAIN Fold) /\ Len(s) \in Nat /\ DOMAIN s = 1 .. Len(s)
      /\ \A i, j \in DOMAIN s : Fold[s[i]] = Fold[s[j]] => i = j
  BY DEF Cleaned, Distinct
<1>2. /\ r \in Seq(DOMAIN Fold) /\ DOMAIN r = 1 .. Len(s) + 1 /\ r[Len(s) + 1] = name
      /\ \A i \in 1 .. Len(s) : r[i] = s[i]
  BY <1>1
<1>3. \A i \in 1 .. Len(s) : Fold[s[i]] # Fold[name]
  BY <1>1 DEF Range
<1> HIDE DEF r
<1>4. ASSUME NEW i \in DOMAIN r, NEW j \in DOMAIN r, Fold[r[i]] = Fold[r[j]] PROVE i = j
  <2>1. CASE i <= Len(s) /\ j <= Len(s)
    BY <1>1, <1>2, <1>4, <2>1
  <2>2. CASE i > Len(s) \/ j > Len(s)
    BY <1>1, <1>2, <1>3, <1>4, <2>2
  <2>3. QED
    BY <1>1, <1>2, <2>1, <2>2
<1>5. r \in Cleaned
  BY <1>2, <1>4 DEF Cleaned, Distinct
<1>6. QED
  BY <1>5 DEF r

\* _clean_rubrics leaves names that differ.
LEMMA CleanRubricsDistinct ==
    ASSUME NEW names \in Seq(DOMAIN Fold)
    PROVE  CleanRubrics(names) \in Cleaned
<1>1. PICK n \in Nat : n = Len(names) /\ \A i \in 1 .. n : names[i] \in DOMAIN Fold
  OBVIOUS
<1> DEFINE Next1(i, s) == IF \E k \in Range(s) : Fold[k] = Fold[names[i]] THEN s ELSE Append(s, names[i])
           g == [x \in (1 .. n) \X Cleaned |-> Next1(x[1], x[2])]
           Eq(f) == f = [i \in 0 .. n |-> IF i = 0 THEN <<>>
                            ELSE IF \E k \in Range(f[i - 1]) : Fold[k] = Fold[names[i]] THEN f[i - 1]
                            ELSE Append(f[i - 1], names[i])]
           cleaned == CHOOSE f : Eq(f)
<1>2. <<>> \in Cleaned
  BY DEF Cleaned, Distinct
<1>3. ASSUME NEW i \in 1 .. n, NEW s \in Cleaned PROVE Next1(i, s) \in Cleaned
  BY <1>1, OneMoreName
<1>4. g \in StepsIn(Cleaned, n)
  <2>1. \A x \in (1 .. n) \X Cleaned : Next1(x[1], x[2]) \in Cleaned
    BY <1>3
  <2> HIDE DEF Next1
  <2>2. QED
    BY <2>1 DEF StepsIn
<1>5. \E f : Eq(f)
  <2>1. PICK f \in [0 .. n -> Cleaned] : f[0] = <<>> /\ \A i \in 1 .. n : f[i] = g[<<i, f[i - 1]>>]
    <3> HIDE DEF g
    <3>1. \E f : f \in Along(Cleaned, n, <<>>, g)
      BY <1>2, <1>4, Defined
    <3>2. QED
      BY <3>1 DEF Along
  <2>2. ASSUME NEW i \in 1 .. n PROVE f[i] = Next1(i, f[i - 1])
    <3>1. i - 1 \in 0 .. n
      BY <1>1
    <3>2. <<i, f[i - 1]>> \in (1 .. n) \X Cleaned
      BY <3>1
    <3> HIDE DEF Next1
    <3>3. QED
      BY <2>1, <3>2
  <2>3. ASSUME NEW i \in 0 .. n
        PROVE  f[i] = IF i = 0 THEN <<>>
                            ELSE IF \E k \in Range(f[i - 1]) : Fold[k] = Fold[names[i]] THEN f[i - 1]
                            ELSE Append(f[i - 1], names[i])
    <3>1. CASE i = 0
      BY <2>1, <3>1
    <3>2. CASE i # 0
      <4>1. i \in 1 .. n
        BY <1>1, <3>2
      <4>2. QED
        BY <2>2, <3>2, <4>1
    <3>3. QED
      BY <3>1, <3>2
  <2>4. f = [i \in 0 .. n |-> f[i]]
    OBVIOUS
  <2>5. Eq(f)
    BY <2>3, <2>4
  <2>6. QED
    BY <2>5
<1>6. Eq(cleaned)
  <2> HIDE DEF Eq
  <2>1. QED
    BY <1>5
<1>7. CleanRubrics(names) = cleaned[n]
  BY <1>1 DEF CleanRubrics
<1> HIDE DEF cleaned
<1>8. cleaned[0] = <<>> /\ \A i \in 1 .. n : cleaned[i] = Next1(i, cleaned[i - 1])
  <2>1. 0 \in 0 .. n /\ \A i \in 1 .. n : i \in 0 .. n /\ i # 0
    BY <1>1
  <2>2. QED
    BY <1>6, <2>1
<1> DEFINE P == {i \in 0 .. n : cleaned[i] \in Cleaned}
<1>9. 0 \in P
  BY <1>1, <1>2, <1>8
<1>10. \A i \in 1 .. n : i - 1 \in P => i \in P
  <2> HIDE DEF Next1
  <2>1. QED
    BY <1>1, <1>3, <1>8
<1>11. n \in P
  <2> HIDE DEF P
  <2>1. \A i \in 0 .. n : i \in P
    BY <1>1, <1>9, <1>10, Throughout
  <2>2. QED
    BY <1>1, <2>1
<1>12. QED
  BY <1>7, <1>11

-----------------------------------------------------------------------------
\* The parts of DeskTypeOK.
ThemesTyped ==
    /\ theme \in [Themes -> ThemeRow \union {None}]
    /\ \A t \in Existing : Len(theme[t].rubrics) <= MaxRubrics /\ Distinct(theme[t].rubrics)
BotsTyped ==
    /\ bot \in [Bots -> BotRow \union {None}]
    /\ \A b \in Bots : bot[b] # None =>
          bot[b].of \in Existing \union {NoTheme} /\ (bot[b].role = "theme" <=> bot[b].of # NoTheme)
TargetsTyped ==
    /\ target \in [Chats -> TargetRow \union {None}]
    /\ \A c \in Chats : target[c] # None => target[c].of \in Existing
LivesTyped == life \in [Themes -> LifeRow] /\ age \in [Chats -> Range(Ages)]
RequestsTyped == requests \in 0 .. MaxRequests

DeskInv == ThemesTyped /\ BotsTyped /\ TargetsTyped /\ LivesTyped /\ RequestsTyped

LEMMA DeskTypes == DeskInv => DeskTypeOK
  BY DEF DeskInv, ThemesTyped, BotsTyped, TargetsTyped, LivesTyped, RequestsTyped, Distinct, DeskTypeOK

\* A row is not what stands for none.
LEMMA RowsThere ==
    /\ \A x \in ThemeRow : x # None /\ DOMAIN x = {"on", "manual", "order", "hour", "rubrics"}
    /\ \A x \in BotRow : x # None /\ DOMAIN x = {"role", "of", "on", "auto", "pace"}
    /\ \A x \in TargetRow : x # None
<1>1. DOMAIN None = {}
  BY DEF None
<1>2. \A x \in ThemeRow : DOMAIN x = {"on", "manual", "order", "hour", "rubrics"}
  BY DEF ThemeRow
<1>3. \A x \in BotRow : DOMAIN x = {"role", "of", "on", "auto", "pace"}
  BY DEF BotRow
<1>4. \A x \in TargetRow : DOMAIN x = {"of", "on"}
  BY DEF TargetRow
<1>5. QED
  BY <1>1, <1>2, <1>3, <1>4

LEMMA AskKeeps == ASSUME RequestsTyped, Ask PROVE RequestsTyped'
  BY DeskAssumption DEF RequestsTyped, Ask

\* A theme's row is written: its rubrics are a few and differ, and it exists afterwards.
LEMMA ThemeWritten ==
    ASSUME DeskInv, NEW t \in Themes, NEW new \in ThemeRow, theme' = [theme EXCEPT ![t] = new],
           Len(new.rubrics) <= MaxRubrics, Distinct(new.rubrics),
           UNCHANGED <<bot, target, life, age>>, RequestsTyped'
    PROVE  DeskInv'
<1>1. theme \in [Themes -> ThemeRow \union {None}]
  BY DEF DeskInv, ThemesTyped
<1>2. theme' \in [Themes -> ThemeRow \union {None}] /\ \A s \in Themes : theme'[s] = IF s = t THEN new ELSE theme[s]
  BY <1>1
<1>3. Existing \subseteq Existing' /\ Existing' \subseteq Existing \union {t}
  BY <1>2, RowsThere DEF Existing
<1>4. ThemesTyped'
  <2>1. ASSUME NEW s \in Existing' PROVE Len(theme'[s].rubrics) <= MaxRubrics /\ Distinct(theme'[s].rubrics)
    <3>1. CASE s = t
      BY <1>2, <3>1
    <3>2. CASE s # t
      <4>1. s \in Existing /\ s \in Themes
        BY <1>3, <3>2 DEF Existing
      <4>2. theme'[s] = theme[s]
        BY <1>2, <3>2, <4>1
      <4>3. QED
        BY <4>1, <4>2 DEF DeskInv, ThemesTyped
    <3>3. QED
      BY <3>1, <3>2
  <2>2. QED
    BY <1>2, <2>1 DEF ThemesTyped, Distinct
<1>5. BotsTyped'
  <2>1. \A b \in Bots : bot'[b] = bot[b]
    OBVIOUS
  <2>2. QED
    BY <1>3, <2>1 DEF DeskInv, BotsTyped
<1>6. TargetsTyped'
  BY <1>3 DEF DeskInv, TargetsTyped
<1>7. LivesTyped'
  BY DEF DeskInv, LivesTyped
<1>8. QED
  BY <1>4, <1>5, <1>6, <1>7 DEF DeskInv

\* The bots, or the channels, are written, and no theme.
LEMMA BotsWritten ==
    ASSUME DeskInv, NEW b \in Bots, NEW new \in BotRow \union {None}, bot' = [bot EXCEPT ![b] = new],
           new # None => new.of \in Existing \union {NoTheme} /\ (new.role = "theme" <=> new.of # NoTheme),
           UNCHANGED <<theme, target, life, age>>, RequestsTyped'
    PROVE  DeskInv'
<1>1. bot' \in [Bots -> BotRow \union {None}] /\ \A d \in Bots : bot'[d] = IF d = b THEN new ELSE bot[d]
  BY DEF DeskInv, BotsTyped
<1>2. Existing' = Existing
  BY DEF Existing
<1>3. BotsTyped'
  BY <1>1, <1>2 DEF DeskInv, BotsTyped
<1>4. ThemesTyped' /\ TargetsTyped' /\ LivesTyped'
  BY <1>2 DEF DeskInv, ThemesTyped, TargetsTyped, LivesTyped, Distinct
<1>5. QED
  BY <1>3, <1>4 DEF DeskInv

LEMMA TargetsWritten ==
    ASSUME DeskInv, NEW c \in Chats, NEW new \in TargetRow, target' = [target EXCEPT ![c] = new],
           new.of \in Existing, UNCHANGED <<theme, bot, life, age>>, RequestsTyped'
    PROVE  DeskInv'
<1>1. target' \in [Chats -> TargetRow \union {None}] /\ \A d \in Chats : target'[d] = IF d = c THEN new ELSE target[d]
  BY DEF DeskInv, TargetsTyped
<1>2. Existing' = Existing
  BY DEF Existing
<1>3. TargetsTyped'
  BY <1>1, <1>2 DEF DeskInv, TargetsTyped
<1>4. ThemesTyped' /\ BotsTyped' /\ LivesTyped'
  BY <1>2 DEF DeskInv, ThemesTyped, BotsTyped, LivesTyped, Distinct
<1>5. QED
  BY <1>3, <1>4 DEF DeskInv

\* Nothing but what happens in the channels.
LEMMA LivesWritten ==
    ASSUME DeskInv, UNCHANGED <<theme, bot, target, requests>>, LivesTyped'
    PROVE  DeskInv'
  BY DEF DeskInv, ThemesTyped, BotsTyped, TargetsTyped, RequestsTyped, Existing, Distinct

-----------------------------------------------------------------------------
LEMMA UpdateThemeKeeps ==
    ASSUME DeskInv, NEW t \in Themes, NEW change \in ThemeChanges, UpdateTheme(t, change)
    PROVE  DeskInv'
<1> DEFINE old == theme[t]
           updated == Given(change, old)
           cleaned == IF "rubrics" \in DOMAIN change THEN CleanRubrics(updated.rubrics) ELSE updated.rubrics
           owed == IF "manual" \in DOMAIN change /\ change.manual THEN 0 ELSE updated.order
           new == [updated EXCEPT !.rubrics = cleaned, !.order = owed]
<1>1. /\ Ask /\ t \in Existing /\ Len(cleaned) <= MaxRubrics
      /\ "hour" \in DOMAIN change => change.hour \in 0 .. 23
      /\ theme' = [theme EXCEPT ![t] = new]
      /\ UNCHANGED <<bot, target, life, age>>
  BY DEF UpdateTheme
<1>2. old \in ThemeRow /\ Distinct(old.rubrics)
  BY <1>1 DEF DeskInv, ThemesTyped, Existing
<1>3. DOMAIN change \subseteq {"on", "manual", "hour", "rubrics"}
  BY DeskAssumption DEF Body
<1>4. /\ "on" \in DOMAIN change => change["on"] \in BOOLEAN
      /\ "manual" \in DOMAIN change => change["manual"] \in BOOLEAN
      /\ "rubrics" \in DOMAIN change => change["rubrics"] \in Seq(DOMAIN Fold)
  BY DeskAssumption DEF Body
<1>5. /\ DOMAIN updated = {"on", "manual", "order", "hour", "rubrics"}
      /\ \A f \in {"on", "manual", "order", "hour", "rubrics"} :
            updated[f] = IF f \in DOMAIN change THEN change[f] ELSE old[f]
  BY <1>2, RowsThere DEF Given
<1>6. /\ old.on \in BOOLEAN /\ old.manual \in BOOLEAN /\ old.order \in Nat /\ old.hour \in 0 .. 23
      /\ old.rubrics \in Seq(DOMAIN Fold)
  BY <1>2 DEF ThemeRow
<1> HIDE DEF old
<1>7. /\ updated["on"] \in BOOLEAN /\ updated["manual"] \in BOOLEAN /\ updated["order"] \in Nat
      /\ updated["hour"] \in 0 .. 23 /\ updated["rubrics"] \in Seq(DOMAIN Fold)
  <2> HIDE DEF updated
  <2>1. updated["on"] \in BOOLEAN /\ updated["manual"] \in BOOLEAN
    BY <1>4, <1>5, <1>6
  <2>2. updated["order"] \in Nat
    BY <1>3, <1>5, <1>6
  <2>3. updated["hour"] \in 0 .. 23
    BY <1>1, <1>5, <1>6
  <2>4. updated["rubrics"] \in Seq(DOMAIN Fold)
    BY <1>4, <1>5, <1>6
  <2>5. QED
    BY <2>1, <2>2, <2>3, <2>4
<1>8. cleaned \in Seq(DOMAIN Fold) /\ Distinct(cleaned)
  <2>1. CASE "rubrics" \in DOMAIN change
    <3> HIDE DEF updated
    <3>1. QED
      BY <1>7, <2>1, CleanRubricsDistinct DEF Cleaned
  <2>2. CASE "rubrics" \notin DOMAIN change
    <3>1. updated["rubrics"] = old["rubrics"]
      BY <1>5, <2>2
    <3> HIDE DEF updated
    <3>2. QED
      BY <1>2, <1>6, <2>2, <3>1
  <2>3. QED
    BY <2>1, <2>2
<1>9. owed \in Nat
  BY <1>7
<1> HIDE DEF updated, cleaned, owed
<1>10. updated = [f \in {"on", "manual", "order", "hour", "rubrics"} |-> updated[f]]
  BY <1>5 DEF updated, Given
<1>11. new = [on |-> updated["on"], manual |-> updated["manual"], order |-> owed, hour |-> updated["hour"],
              rubrics |-> cleaned]
  <2>1. new = [f \in {"on", "manual", "order", "hour", "rubrics"} |->
                  IF f = "order" THEN owed ELSE IF f = "rubrics" THEN cleaned ELSE updated[f]]
    BY <1>10
  <2> HIDE DEF new
  <2>2. new = [on |-> new["on"], manual |-> new["manual"], order |-> new["order"], hour |-> new["hour"],
               rubrics |-> new["rubrics"]]
    BY <2>1
  <2>3. /\ new["on"] = updated["on"] /\ new["manual"] = updated["manual"] /\ new["order"] = owed
        /\ new["hour"] = updated["hour"] /\ new["rubrics"] = cleaned
    BY <2>1
  <2>4. QED
    BY <2>2, <2>3
<1>12. new \in ThemeRow /\ new.rubrics = cleaned
  BY <1>7, <1>8, <1>9, <1>11 DEF ThemeRow
<1> HIDE DEF new
<1>13. RequestsTyped'
  BY <1>1, AskKeeps DEF DeskInv
<1>14. QED
  BY <1>1, <1>8, <1>12, <1>13, ThemeWritten

LEMMA UpdateBotKeeps ==
    ASSUME DeskInv, NEW b \in Bots, NEW change \in BotChanges, UpdateBot(b, change)
    PROVE  DeskInv'
<1> DEFINE old == bot[b]
           new == Given(change, old)
<1>1. /\ Ask /\ old # None
      /\ "of" \in DOMAIN change =>
            /\ old.role = "theme" <=> change["of"] # NoTheme
            /\ change["of"] \in Existing \union {NoTheme}
      /\ bot' = [bot EXCEPT ![b] = new]
      /\ UNCHANGED <<theme, target, life, age>>
  BY DEF UpdateBot
<1>2. old \in BotRow /\ old.of \in Existing \union {NoTheme} /\ (old.role = "theme" <=> old.of # NoTheme)
  BY <1>1 DEF DeskInv, BotsTyped
<1>3. DOMAIN change \subseteq {"of", "on", "auto", "pace"}
  BY DeskAssumption DEF Body
<1>4. /\ "on" \in DOMAIN change => change["on"] \in BOOLEAN
      /\ "auto" \in DOMAIN change => change["auto"] \in BOOLEAN
      /\ "pace" \in DOMAIN change => change["pace"] \in Paces
      /\ "of" \in DOMAIN change => change["of"] \in Themes \union {NoTheme}
  BY DeskAssumption DEF Body
<1>5. new = [f \in {"role", "of", "on", "auto", "pace"} |-> IF f \in DOMAIN change THEN change[f] ELSE old[f]]
  BY <1>2, RowsThere DEF Given
<1>6. /\ old["role"] \in Roles /\ old["of"] \in Themes \union {NoTheme} /\ old["on"] \in BOOLEAN
      /\ old["auto"] \in BOOLEAN /\ old["pace"] \in Paces
  BY <1>2 DEF BotRow
<1> HIDE DEF old, new
<1>7. /\ new["role"] = old["role"]
      /\ new["of"] = IF "of" \in DOMAIN change THEN change["of"] ELSE old["of"]
      /\ new["on"] \in BOOLEAN /\ new["auto"] \in BOOLEAN /\ new["pace"] \in Paces
  BY <1>3, <1>4, <1>5, <1>6
<1>8. new["of"] \in Themes \union {NoTheme}
  BY <1>4, <1>6, <1>7
<1>9. new = [role |-> new["role"], of |-> new["of"], on |-> new["on"], auto |-> new["auto"],
            pace |-> new["pace"]]
  BY <1>5
<1>10. new \in BotRow
  BY <1>6, <1>7, <1>8, <1>9 DEF BotRow
<1>11. new.of \in Existing \union {NoTheme} /\ (new.role = "theme" <=> new.of # NoTheme)
  BY <1>1, <1>2, <1>7
<1>12. RequestsTyped'
  BY <1>1, AskKeeps DEF DeskInv
<1>13. QED
  BY <1>1, <1>10, <1>11, <1>12, BotsWritten DEF old

LEMMA AddTargetKeeps ==
    ASSUME DeskInv, NEW c \in Chats, NEW t \in Themes, AddTarget(c, t)
    PROVE  DeskInv'
<1>1. /\ Ask /\ Cardinality(BotsOf(t)) = 1
      /\ target' = [target EXCEPT ![c] = [of |-> t, on |-> TRUE]]
      /\ UNCHANGED <<theme, bot, life, age>>
  BY DEF AddTarget
<1>2. \E b \in Bots : bot[b] # None /\ bot[b].of = t
  <2>1. BotsOf(t) # {}
    BY <1>1, FS_EmptySet
  <2>2. QED
    BY <2>1 DEF BotsOf
<1>3. t \in Existing
  BY <1>2, DeskAssumption DEF DeskInv, BotsTyped
<1>4. [of |-> t, on |-> TRUE] \in TargetRow /\ [of |-> t, on |-> TRUE].of = t
  BY DEF TargetRow
<1>5. RequestsTyped'
  BY <1>1, AskKeeps DEF DeskInv
<1>6. QED
  BY <1>1, <1>3, <1>4, <1>5, TargetsWritten

LEMMA SwitchTargetKeeps ==
    ASSUME DeskInv, NEW c \in Chats, SwitchTarget(c)
    PROVE  DeskInv'
<1> DEFINE new == [target[c] EXCEPT !.on = ~@]
<1>1. /\ Ask /\ target[c] # None /\ target' = [target EXCEPT ![c] = new]
      /\ UNCHANGED <<theme, bot, life, age>>
  BY DEF SwitchTarget
<1>2. target[c] \in TargetRow /\ target[c].of \in Existing
  BY <1>1 DEF DeskInv, TargetsTyped
<1>3. new \in TargetRow /\ new.of = target[c].of
  BY <1>2 DEF TargetRow
<1>4. RequestsTyped'
  BY <1>1, AskKeeps DEF DeskInv
<1> HIDE DEF new
<1>5. QED
  BY <1>1, <1>2, <1>3, <1>4, TargetsWritten

LEMMA PublishKeeps ==
    ASSUME DeskInv, NEW b \in Bots, Publish(b)
    PROVE  DeskInv'
<1> DEFINE t == bot[b].of
<1>1. /\ age' = [c \in Chats |-> IF c \in Receiving(t) THEN "fresh" ELSE age[c]]
      /\ life' \in {life, [life EXCEPT ![t] = Spent(@)]}
      /\ UNCHANGED <<theme, bot, target, requests>>
  BY DEF Publish
<1>2. bot[b] # None /\ bot[b].role = "theme"
  BY DEF Publish, Publishable
<1>3. t \in Themes
  BY <1>2 DEF DeskInv, BotsTyped, Existing
<1> HIDE DEF t
<1>4. life[t] \in LifeRow
  BY <1>3 DEF DeskInv, LivesTyped
<1>5. Spent(life[t]) \in LifeRow
  BY <1>4 DEF LifeRow, Spent
<1>6. life' \in [Themes -> LifeRow]
  BY <1>1, <1>5 DEF DeskInv, LivesTyped
<1>7. age' \in [Chats -> Range(Ages)]
  <2>1. "fresh" \in Range(Ages)
    BY DEF Range, Ages
  <2>2. QED
    BY <1>1, <2>1 DEF DeskInv, LivesTyped
<1>8. QED
  BY <1>1, <1>6, <1>7, LivesWritten DEF LivesTyped

LEMMA TimeKeeps ==
    ASSUME DeskInv, TimePasses
    PROVE  DeskInv'
<1>1. /\ age' = [c \in Chats |-> CASE age[c] = "fresh" -> "due" [] age[c] = "due" -> "days"
                                    [] age[c] = "days" -> "weeks" [] OTHER -> age[c]]
      /\ life' = life /\ UNCHANGED <<theme, bot, target, requests>>
  BY DEF TimePasses
<1>2. "due" \in Range(Ages) /\ "days" \in Range(Ages) /\ "weeks" \in Range(Ages)
  BY DEF Range, Ages
<1>3. age' \in [Chats -> Range(Ages)]
  BY <1>1, <1>2 DEF DeskInv, LivesTyped
<1>4. QED
  BY <1>1, <1>3, LivesWritten DEF DeskInv, LivesTyped

LEMMA DeskSteps == DeskInv /\ [Next]_vars => DeskInv'
<1> SUFFICES ASSUME DeskInv, [Next]_vars PROVE DeskInv'
  OBVIOUS
<1>1. DeskNext \/ UNCHANGED deskVars
  BY DEF Next, vars, ButSettings, ButLogin, ButRunner, ButReview, ButQuestion
<1>2. CASE UNCHANGED deskVars
  BY <1>2 DEF DeskInv, ThemesTyped, BotsTyped, TargetsTyped, LivesTyped, RequestsTyped, Existing, Distinct, deskVars
<1>3. ASSUME NEW t \in Themes, CreateTheme(t) PROVE DeskInv'
  <2>1. NewTheme \in ThemeRow /\ NewTheme.rubrics = <<>>
    BY DEF NewTheme, ThemeRow
  <2>2. Len(NewTheme.rubrics) <= MaxRubrics /\ Distinct(NewTheme.rubrics)
    BY <2>1, DeskAssumption DEF Distinct
  <2>3. /\ Ask /\ theme' = [theme EXCEPT ![t] = NewTheme]
        /\ UNCHANGED <<bot, target, life, age>>
    BY <1>3 DEF CreateTheme
  <2>4. RequestsTyped'
    BY <2>3, AskKeeps DEF DeskInv
  <2>5. QED
    BY <2>1, <2>2, <2>3, <2>4, ThemeWritten
<1>4. ASSUME NEW t \in Themes, OrderToday(t) PROVE DeskInv'
  <2> DEFINE new == [theme[t] EXCEPT !.order = 1]
  <2>1. /\ Ask /\ t \in Existing /\ theme' = [theme EXCEPT ![t] = new]
        /\ UNCHANGED <<bot, target, life, age>>
    BY <1>4 DEF OrderToday
  <2>2. theme[t] \in ThemeRow /\ Len(theme[t].rubrics) <= MaxRubrics /\ Distinct(theme[t].rubrics)
    BY <2>1 DEF DeskInv, ThemesTyped, Existing
  <2>3. new \in ThemeRow /\ new.rubrics = theme[t].rubrics
    BY <2>2 DEF ThemeRow
  <2>4. RequestsTyped'
    BY <2>1, AskKeeps DEF DeskInv
  <2> HIDE DEF new
  <2>5. QED
    BY <2>1, <2>2, <2>3, <2>4, ThemeWritten
<1>5. ASSUME NEW b \in Bots, NEW role \in Roles, NEW t \in Themes \union {NoTheme}, CreateBot(b, role, t)
      PROVE  DeskInv'
  <2>1. /\ Ask /\ bot' = [bot EXCEPT ![b] = NewBot(role, t)]
        /\ role = "theme" <=> t # NoTheme
        /\ t \in Existing \union {NoTheme}
        /\ UNCHANGED <<theme, target, life, age>>
    BY <1>5 DEF CreateBot
  <2>2. NewBot(role, t) \in BotRow /\ NewBot(role, t).of = t /\ NewBot(role, t).role = role
    BY DEF NewBot, BotRow, Paces
  <2>3. RequestsTyped'
    BY <2>1, AskKeeps DEF DeskInv
  <2>4. QED
    BY <2>1, <2>2, <2>3, BotsWritten
<1>6. ASSUME NEW b \in Bots, DeleteBot(b) PROVE DeskInv'
  <2>1. Ask /\ bot' = [bot EXCEPT ![b] = None] /\ UNCHANGED <<theme, target, life, age>>
    BY <1>6 DEF DeleteBot
  <2>2. RequestsTyped'
    BY <2>1, AskKeeps DEF DeskInv
  <2>3. QED
    BY <2>1, <2>2, BotsWritten
<1>7. QED
  BY <1>1, <1>2, <1>3, <1>4, <1>5, <1>6, UpdateThemeKeeps, UpdateBotKeeps, AddTargetKeeps, SwitchTargetKeeps,
     PublishKeeps, TimeKeeps DEF DeskNext

LEMMA DeskInitTyped == Init => DeskInv
<1> SUFFICES ASSUME Init PROVE DeskInv
  OBVIOUS
<1>1. /\ theme = [t \in Themes |-> None] /\ bot = [b \in Bots |-> None]
      /\ target = [c \in Chats |-> None] /\ age = [c \in Chats |-> "never"]
      /\ life \in [Themes -> Backgrounds] /\ requests = MaxRequests
  BY DEF Init, DeskInit
<1>2. Existing = {}
  BY <1>1 DEF Existing
<1>3. ThemesTyped
  BY <1>1, <1>2 DEF ThemesTyped
<1>4. BotsTyped /\ TargetsTyped
  BY <1>1 DEF BotsTyped, TargetsTyped
<1>5. LivesTyped
  <2>1. "never" \in Range(Ages)
    BY DEF Range, Ages
  <2>2. QED
    BY <1>1, <2>1, DeskAssumption DEF LivesTyped
<1>6. RequestsTyped
  BY <1>1, DeskAssumption DEF RequestsTyped
<1>7. QED
  BY <1>3, <1>4, <1>5, <1>6 DEF DeskInv

-----------------------------------------------------------------------------
\* Everything the people work with keeps its type, whatever they do and in whatever order: no
\* theme has more rubrics than MAX_RUBRICS nor two whose names differ in case only
\* (routers/themes.py), a bot and a channel belong to a theme there is (routers/
\* channel_bots.py, target_channels.py), no more accounts are made than codes and passwords
\* were sent (telethon_login.py), every running bot has a signature (interfaces/bots/
\* main.py), and the examples of a persona are few and each there once (persona_learning.py).
THEOREM DeskTypeCorrect == Spec => []TypeOK
<1>1. Init => DeskInv /\ LoginTyped /\ RunnerTypeOK /\ ReviewTyped /\ QuestionInv /\ EditInv
  BY DeskInitTyped, LoginInitTyped, RunnerInitTyped, ReviewInitTyped, QuestionInitTyped, EditInit
<1>2. Init => part \in Parts
  BY DEF Init
<1>3. part \in Parts /\ [Next]_vars => (part \in Parts)'
  BY DEF Next, vars, ButTheme, ButSettings, ButLogin, ButRunner, ButReview, ButQuestion
<1>4. part \in Parts /\ DeskInv /\ SettingsTyped /\ LoginTyped /\ RunnerTypeOK /\ ReviewTyped /\ EditInv
        /\ QuestionInv => TypeOK
  BY DeskTypes, LoginTypes, ReviewTypes DEF SettingsTyped, QuestionInv, TypeOK
<1>5. QED
  BY <1>1, <1>2, <1>3, <1>4, DeskSteps, SettingsTypedAlways, LoginSteps, RunnerSteps, ReviewSteps, EditSteps,
     QuestionSteps, PTL DEF Spec

\* An answer of the assistant (assistant.py) has all its rounds booked, or none, and none
\* only where a query of the last round failed behind that round's row; whatever fails, a
\* question pays for MaxRounds rounds at most, and the data read for it never come to more
\* than the limit and one result.
THEOREM AnswersAreBooked == Spec => []Booked
<1>1. QuestionInv => Booked
  BY DEF QuestionInv
<1>2. QED
  BY <1>1, QuestionInitTyped, QuestionSteps, PTL DEF Spec

\* What Telegram is sent is well formed, with every word of the text in its place and
\* nothing unescaped, whatever the model's markers (tg_format.py).
THEOREM RenderedIsWellFormed == Spec => []RenderedWellFormed
<1> DEFINE TextInv == text \in Seq(Characters)
<1>1. Init => TextInv
  <2>1. <<>> \in Seq(Characters)
    OBVIOUS
  <2>2. QED
    BY <2>1, TextsAssumption DEF Init
<1>2. TextInv /\ [Next]_vars => TextInv'
  <2>1. [Next]_vars => UNCHANGED text
    BY DEF Next, vars, ButTheme, ButSettings, ButLogin, ButRunner, ButReview, ButQuestion
  <2>2. QED
    BY <2>1
<1>3. TextInv => RenderedWellFormed
  BY EveryTextIsRendered DEF RenderedWellFormed
<1>4. QED
  BY <1>1, <1>2, <1>3, PTL DEF Spec
=============================================================================
