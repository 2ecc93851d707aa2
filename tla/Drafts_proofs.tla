---------------------------- MODULE Drafts_proofs -----------------------------
(***************************************************************************)
(* Proofs about Drafts, for any number of drafts and of passes running at  *)
(* once: no draft is dropped, a draft shown as syncing is being submitted, *)
(* and one pass whose answers all arrive makes one entry of a draft.       *)
(***************************************************************************)
EXTENDS Drafts, WellFoundedInduction, TLAPS

\* A set of drafts that is not empty has an oldest one.
LEMMA OldestDraft ==
    ASSUME NEW S \in SUBSET Draft, S # {}
    PROVE  Min(S) \in S
<1>1. S \subseteq Nat
      BY DEF Draft
<1>2. PICK x \in S : \A y \in S : ~(<<y, x>> \in OpToRel(<, Nat))
      BY <1>1, WFMin, NatLessThanWellFounded, Zenon
<1>3. \A y \in S : x <= y
  <2>1. TAKE y \in S
  <2>2. <<y, x>> \in OpToRel(<, Nat) <=> y < x
        BY <1>1 DEF OpToRel
  <2>3. x \in Nat /\ y \in Nat /\ ~(y < x)
        BY <1>1, <1>2, <2>2
  <2>4. QED
        BY <2>3
<1>4. QED
      BY <1>2, <1>3 DEF Min

-----------------------------------------------------------------------------
(* What a step does to the queue and to a pass.                            *)

\* updateOfflineDraftStatus and deleteOfflineDraft touch one stored draft.
LEMMA MarkFacts ==
    ASSUME TypeOK, NEW d \in Draft, NEW s \in Status \cup {"gone"}, Mark(d, s)
    PROVE  /\ draft' \in [Draft -> Status \cup {"none", "gone"}]
           /\ \A c \in Draft : c # d => draft'[c] = draft[c]
           /\ draft'[d] = IF draft[d] \in Status THEN s ELSE draft[d]
           /\ \A c \in Draft : draft'[c] = "none" <=> draft[c] = "none"
<1>1. draft \in [Draft -> Status \cup {"none", "gone"}]
      BY DEF TypeOK
<1>2. d \in Stored <=> draft[d] \in Status
      BY DEF Stored
<1>3. draft' = IF draft[d] \in Status THEN [draft EXCEPT ![d] = s] ELSE draft
      BY <1>2 DEF Mark
<1>4. "none" \notin Status /\ "gone" # "none"
      BY DEF Status
<1>5. CASE draft[d] \in Status
      BY <1>1, <1>3, <1>4, <1>5
<1>6. CASE draft[d] \notin Status
      BY <1>1, <1>3, <1>6
<1>7. QED
      BY <1>5, <1>6

\* A step of a pass changes nothing of the other passes.
LEMMA PassFacts ==
    ASSUME TypeOK, NEW p \in Pass, NEW q \in PassState,
           pass' = [pass EXCEPT ![p] = q]
    PROVE  /\ pass' \in [Pass -> PassState]
           /\ pass'[p] = q
           /\ \A o \in Pass : o # p => pass'[o] = pass[o]
BY DEF TypeOK

\* So does one that only goes to its next statement.
LEMMA GotoFacts ==
    ASSUME TypeOK, NEW p \in Pass, NEW pc \in Pc, Goto(p, pc)
    PROVE  /\ pass' \in [Pass -> PassState]
           /\ pass'[p].pc = pc
           /\ pass'[p].d = pass[p].d
           /\ pass'[p].pending = pass[p].pending
           /\ \A o \in Pass : o # p => pass'[o] = pass[o]
<1>1. pass \in [Pass -> PassState]
      BY DEF TypeOK
<1>2. pass[p] \in PassState
      BY <1>1
<1>3. PICK q : q = [pass[p] EXCEPT !.pc = pc]
      OBVIOUS
<1>4. q \in PassState /\ q.pc = pc /\ q.d = pass[p].d /\ q.pending = pass[p].pending
      BY <1>2, <1>3 DEF PassState
<1>5. pass' = [pass EXCEPT ![p] = q]
      BY <1>1, <1>3 DEF Goto
<1>6. QED
      BY <1>1, <1>4, <1>5

\* A pass that begins or ends, and the draft of one that submits.
LEMMA StateFacts ==
    ASSUME TypeOK
    PROVE  /\ Idle \in PassState
           /\ Idle.pc = "idle" /\ Idle.pending = {}
           /\ \A p \in Pass : /\ pass[p] \in PassState
                              /\ pass[p].pc \in Pc
                              /\ pass[p].d \in Draft
                              /\ pass[p].pending \in SUBSET Draft
           /\ \A p \in Pass : Submitting(p) => draft[pass[p].d] # "none"
           /\ \A d \in Draft : made[d] \in 0..2
<1>1. Idle \in PassState /\ Idle.pc = "idle" /\ Idle.pending = {}
      BY DraftsAssumption DEF Idle, PassState, Pc, Draft
<1>2. \A p \in Pass : /\ pass[p] \in PassState
                      /\ pass[p].pc \in Pc
                      /\ pass[p].d \in Draft
                      /\ pass[p].pending \in SUBSET Draft
      BY DEF TypeOK, PassState
<1>3. \A p \in Pass : Submitting(p) => draft[pass[p].d] # "none"
      BY <1>2 DEF TypeOK, Submitting
<1>4. QED
      BY <1>1, <1>2, <1>3 DEF TypeOK

-----------------------------------------------------------------------------
(* Each step keeps the invariant.                                          *)

LEMMA InitInv == Init => Inv
<1>1. SUFFICES ASSUME Init PROVE Inv
      OBVIOUS
<1>2. Idle \in PassState /\ Idle.pc = "idle" /\ Idle.pending = {}
      BY DraftsAssumption DEF Idle, PassState, Pc, Draft
<1>3. /\ \A d \in Draft : draft[d] = "none" /\ made[d] = 0
      /\ \A p \in Pass : pass[p] = Idle
      /\ mishap = {}
  <2>1. \A d \in Draft : draft[d] = "none"
        BY <1>1 DEF Init
  <2>2. \A d \in Draft : made[d] = 0
        BY <1>1 DEF Init
  <2>3. QED
        BY <1>1, <2>1, <2>2 DEF Init
<1>4. TypeOK
  <2>1. draft \in [Draft -> Status \cup {"none", "gone"}]
        BY <1>1 DEF Init
  <2>2. made \in [Draft -> 0..2] /\ pass \in [Pass -> PassState]
        BY <1>1, <1>2 DEF Init
  <2>3. QED
        BY <1>2, <1>3, <2>1, <2>2 DEF TypeOK
<1>5. PassesMakeSense /\ NeverDropped /\ SyncingIsBeingSynced
      BY <1>2, <1>3 DEF PassesMakeSense, Submitting, NeverDropped, SyncingIsBeingSynced
<1>6. Undisturbed /\ OnceWhenUndisturbed
      BY <1>2, <1>3 DEF Undisturbed, OnceWhenUndisturbed
<1>7. QED
      BY <1>4, <1>5, <1>6 DEF Inv

\* A draft captured is a number nobody holds: nothing refers to it yet.
LEMMA AddDraftInv == Inv /\ AddDraft => Inv'
<1>1. SUFFICES ASSUME Inv, AddDraft PROVE Inv'
      OBVIOUS
<1>2. TypeOK
      BY <1>1 DEF Inv
<1>3. PICK d \in Draft : draft[d] = "none" /\ draft' = [draft EXCEPT ![d] = "queued"]
      BY <1>1 DEF AddDraft
<1>4. made' = made /\ pass' = pass /\ mishap' = mishap
      BY <1>1 DEF AddDraft
<1>5. /\ draft' \in [Draft -> Status \cup {"none", "gone"}]
      /\ draft'[d] = "queued"
      /\ \A c \in Draft : c # d => draft'[c] = draft[c]
      BY <1>2, <1>3 DEF TypeOK, Status
<1>6. made[d] = 0
      BY <1>2, <1>3 DEF TypeOK
<1>7. TypeOK'
      BY <1>2, <1>4, <1>5 DEF TypeOK
<1>8. PassesMakeSense'
      BY <1>1, <1>4 DEF Inv, PassesMakeSense, Submitting
<1>9. NeverDropped' /\ OnceWhenUndisturbed'
      BY <1>1, <1>4, <1>5 DEF Inv, NeverDropped, OnceWhenUndisturbed
<1>10. SyncingIsBeingSynced'
      BY <1>1, <1>4, <1>5 DEF Inv, SyncingIsBeingSynced
<1>11. Undisturbed'
      BY <1>1, <1>4, <1>5, <1>6 DEF Inv, Undisturbed
<1>12. QED
      BY <1>7, <1>8, <1>9, <1>10, <1>11 DEF Inv

\* A pass lists drafts that are stored.  While nothing has gone wrong those
\* have no entry: a draft with one has left the queue or its answer is being
\* dealt with, and then two passes overlap.
LEMMA BeginInv == ASSUME Inv, NEW p \in Pass, Begin(p) PROVE Inv'
<1>1. TypeOK
      BY DEF Inv
<1>2. draft' = draft /\ made' = made
      BY DEF Begin
<1>3. PICK q : q = [Idle EXCEPT !.pc = "next", !.pending = Listed]
      OBVIOUS
<1>4. Listed \in SUBSET Draft /\ \A d \in Listed : draft[d] \in Status
      BY DEF Listed, Stored
<1>5. q \in PassState /\ q.pc = "next" /\ q.pending = Listed
  <2>1. q = [pc |-> "next", pending |-> Listed, d |-> 1]
        BY <1>3 DEF Idle
  <2>2. 1 \in Draft /\ "next" \in Pc
        BY DraftsAssumption DEF Draft, Pc
  <2>3. QED
        BY <1>4, <2>1, <2>2 DEF PassState
<1>6. pass' = [pass EXCEPT ![p] = q]
      BY <1>3 DEF Begin
<1>7. /\ pass' \in [Pass -> PassState]
      /\ pass'[p] = q
      /\ \A o \in Pass : o # p => pass'[o] = pass[o]
      BY <1>1, <1>5, <1>6, PassFacts
<1>8. pass[p].pc = "idle"
      BY DEF Begin
<1>9. /\ mishap' \subseteq Mishap
      /\ mishap \subseteq mishap'
      /\ mishap' = {} => \A o \in Pass : pass[o].pc = "idle"
      /\ "closed" \notin mishap' => "closed" \notin mishap
      BY <1>1 DEF Begin, TypeOK, Mishap
<1>10. TypeOK'
  <2>1. "none" \notin Status
        BY DEF Status
  <2>2. QED
        BY <1>1, <1>2, <1>4, <1>5, <1>7, <1>9, <2>1 DEF TypeOK
<1>11. PassesMakeSense'
      BY <1>2, <1>5, <1>7 DEF Inv, PassesMakeSense, Submitting
<1>12. NeverDropped' /\ OnceWhenUndisturbed'
      BY <1>2, <1>9 DEF Inv, NeverDropped, OnceWhenUndisturbed
<1>13. SyncingIsBeingSynced'
      BY <1>2, <1>7, <1>8, <1>9 DEF Inv, SyncingIsBeingSynced
<1>14. ASSUME mishap' = {}
       PROVE  \A d \in Draft : made[d] > 0 => draft[d] = "gone"
      BY <1>9, <1>14 DEF Inv, Undisturbed
<1>15. ASSUME mishap' = {}, NEW d \in Listed
       PROVE  made[d] = 0
  <2>1. draft[d] # "gone" /\ d \in Draft
        BY <1>4 DEF Status
  <2>2. QED
        BY <1>1, <1>14, <1>15, <2>1, StateFacts
<1>16. Undisturbed'
  <2>1. SUFFICES ASSUME mishap' = {} PROVE Undisturbed'
        BY DEF Undisturbed
  <2>2. \A o, r \in Pass : pass'[o].pc # "idle" /\ pass'[r].pc # "idle" => o = r
        BY <1>7, <1>9, <2>1
  <2>3. \A o \in Pass :
              /\ \A d \in pass'[o].pending : made'[d] = 0
              /\ pass'[o].pc \in {"posting", "failing"} => made'[pass'[o].d] = 0
    <3>1. \A o \in Pass : o # p => pass'[o].pending = {} /\ pass'[o].pc = "idle"
          BY <1>7, <1>9, <2>1 DEF Inv, PassesMakeSense
    <3>2. \A d \in pass'[p].pending : made'[d] = 0
          BY <1>2, <1>5, <1>7, <1>15, <2>1
    <3>3. QED
          BY <1>5, <1>7, <3>1, <3>2
  <2>4. \A d \in Draft : made'[d] > 0 => draft'[d] = "gone"
        BY <1>2, <1>14, <2>1
  <2>5. QED
        BY <2>2, <2>3, <2>4 DEF Undisturbed
<1>17. QED
      BY <1>10, <1>11, <1>12, <1>13, <1>16 DEF Inv

\* The oldest listed draft is marked, if it is still there, and submitted.
LEMMA TakeUpInv == ASSUME Inv, NEW p \in Pass, TakeUp(p) PROVE Inv'
<1>1. TypeOK
      BY DEF Inv
<1>2. made' = made /\ mishap' = mishap /\ pass[p].pc = "next" /\ pass[p].pending # {}
      BY DEF TakeUp
<1>3. pass[p] \in PassState /\ pass[p].pending \in SUBSET Draft
      BY <1>1, StateFacts
<1>4. PICK d : d = Min(pass[p].pending)
      OBVIOUS
<1>5. d \in pass[p].pending /\ d \in Draft
      BY <1>2, <1>3, <1>4, OldestDraft
<1>6. PICK q : q = [pc |-> "posting", d |-> d, pending |-> pass[p].pending \ {d}]
      OBVIOUS
<1>7. /\ q \in PassState
      /\ q.pc = "posting" /\ q.d = d /\ q.pending = pass[p].pending \ {d}
      BY <1>3, <1>5, <1>6 DEF PassState, Pc
<1>8. Mark(d, "syncing") /\ pass' = [pass EXCEPT ![p] = q]
      BY <1>4, <1>6 DEF TakeUp
<1>9. /\ pass' \in [Pass -> PassState]
      /\ pass'[p] = q
      /\ \A o \in Pass : o # p => pass'[o] = pass[o]
      BY <1>1, <1>7, <1>8, PassFacts
<1>10. "syncing" \in Status \cup {"gone"}
      BY DEF Status
<1>11. /\ draft' \in [Draft -> Status \cup {"none", "gone"}]
       /\ \A c \in Draft : c # d => draft'[c] = draft[c]
       /\ draft'[d] = IF draft[d] \in Status THEN "syncing" ELSE draft[d]
       /\ \A c \in Draft : draft'[c] = "none" <=> draft[c] = "none"
      BY <1>1, <1>5, <1>8, <1>10, MarkFacts
<1>12. draft[d] # "none"
      BY <1>1, <1>5 DEF TypeOK
<1>13. TypeOK'
      BY <1>1, <1>2, <1>5, <1>7, <1>9, <1>11, <1>12 DEF TypeOK
<1>14. PassesMakeSense'
      BY <1>2, <1>7, <1>9 DEF Inv, PassesMakeSense, Submitting
<1>15. \A c \in Draft : draft'[c] = "gone" <=> draft[c] = "gone"
      BY <1>11 DEF Status
<1>16. NeverDropped' /\ OnceWhenUndisturbed'
      BY <1>2, <1>15 DEF Inv, NeverDropped, OnceWhenUndisturbed
<1>17. SyncingIsBeingSynced'
      BY <1>2, <1>7, <1>9, <1>11 DEF Inv, SyncingIsBeingSynced
<1>18. Undisturbed'
  <2>1. SUFFICES ASSUME mishap = {} PROVE Undisturbed'
        BY <1>2 DEF Undisturbed
  <2>2. /\ \A o, q0 \in Pass : pass[o].pc # "idle" /\ pass[q0].pc # "idle" => o = q0
        /\ \A o \in Pass :
              /\ \A c \in pass[o].pending : made[c] = 0
              /\ pass[o].pc \in {"posting", "failing"} => made[pass[o].d] = 0
        /\ \A c \in Draft : made[c] > 0 =>
              \/ draft[c] = "gone"
              \/ \E o \in Pass : pass[o].pc = "answered" /\ pass[o].d = c
        BY <2>1 DEF Inv, Undisturbed
  <2>3. \A o, q0 \in Pass : pass'[o].pc # "idle" /\ pass'[q0].pc # "idle" => o = q0
        BY <1>2, <1>9, <2>2
  <2>4. \A o \in Pass :
              /\ \A c \in pass'[o].pending : made'[c] = 0
              /\ pass'[o].pc \in {"posting", "failing"} => made'[pass'[o].d] = 0
        BY <1>2, <1>5, <1>7, <1>9, <2>2
  <2>5. \A c \in Draft : made'[c] > 0 =>
              \/ draft'[c] = "gone"
              \/ \E o \in Pass : pass'[o].pc = "answered" /\ pass'[o].d = c
        BY <1>2, <1>9, <1>15, <2>2
  <2>6. QED
        BY <2>3, <2>4, <2>5 DEF Undisturbed
<1>19. QED
      BY <1>13, <1>14, <1>16, <1>17, <1>18 DEF Inv

\* A pass that ends, or whose page is closed, forgets what it was doing.
LEMMA ResetInv ==
    ASSUME Inv, NEW p \in Pass, pass' = [pass EXCEPT ![p] = Idle],
           \/ pass[p].pc = "next" /\ mishap' = mishap
           \/ mishap' = mishap \cup {"closed"},
           UNCHANGED <<draft, made>>
    PROVE  Inv'
<1>1. TypeOK /\ draft' = draft /\ made' = made
      BY DEF Inv
<1>2. Idle \in PassState /\ Idle.pc = "idle" /\ Idle.pending = {}
      BY <1>1, StateFacts
<1>3. /\ pass' \in [Pass -> PassState]
      /\ pass'[p] = Idle
      /\ \A o \in Pass : o # p => pass'[o] = pass[o]
      BY <1>1, <1>2, PassFacts
<1>4. TypeOK'
      BY <1>1, <1>2, <1>3 DEF TypeOK, Mishap
<1>5. PassesMakeSense'
      BY <1>1, <1>2, <1>3 DEF Inv, PassesMakeSense, Submitting
<1>6. NeverDropped' /\ OnceWhenUndisturbed'
      BY <1>1 DEF Inv, NeverDropped, OnceWhenUndisturbed
<1>7. SyncingIsBeingSynced'
      BY <1>1, <1>3 DEF Inv, SyncingIsBeingSynced
<1>8. Undisturbed'
  <2>1. SUFFICES ASSUME mishap' = {} PROVE Undisturbed'
        BY DEF Undisturbed
  <2>2. mishap = {} /\ pass[p].pc = "next"
        BY <2>1
  <2>3. QED
        BY <1>1, <1>2, <1>3, <2>1, <2>2 DEF Inv, Undisturbed
<1>9. QED
      BY <1>4, <1>5, <1>6, <1>7, <1>8 DEF Inv

\* The server makes an entry of the draft: the first one, as long as nothing
\* has gone wrong.
LEMMA SubmitInv == ASSUME Inv, NEW p \in Pass, Submit(p) PROVE Inv'
<1>1. TypeOK
      BY DEF Inv
<1>2. draft' = draft /\ mishap' = mishap /\ pass[p].pc = "posting"
      BY DEF Submit
<1>3. /\ pass' \in [Pass -> PassState]
      /\ pass'[p].pc = "answered"
      /\ pass'[p].d = pass[p].d
      /\ pass'[p].pending = pass[p].pending
      /\ \A o \in Pass : o # p => pass'[o] = pass[o]
  <2>1. Goto(p, "answered") /\ "answered" \in Pc
        BY DEF Submit, Pc
  <2>2. QED
        BY <1>1, <2>1, GotoFacts
<1>4. PICK d : d = pass[p].d
      OBVIOUS
<1>5. d \in Draft /\ draft[d] # "none"
      BY <1>1, <1>2, <1>4, StateFacts DEF Submitting
<1>6. made' = [made EXCEPT ![d] = IF made[d] = 2 THEN 2 ELSE made[d] + 1]
      BY <1>4 DEF Submit
<1>7. /\ made' \in [Draft -> 0..2]
      /\ \A c \in Draft : c # d => made'[c] = made[c]
      /\ made'[d] > 0
      /\ made[d] = 0 => made'[d] = 1
  <2>1. made \in [Draft -> 0..2] /\ made[d] \in 0..2
        BY <1>1, <1>5 DEF TypeOK
  <2>2. (IF made[d] = 2 THEN 2 ELSE made[d] + 1) \in 0..2
        BY <2>1
  <2>3. made'[d] = IF made[d] = 2 THEN 2 ELSE made[d] + 1
        BY <1>5, <1>6, <2>1
  <2>4. QED
        BY <1>5, <1>6, <2>1, <2>2, <2>3
<1>8. TypeOK'
      BY <1>1, <1>2, <1>3, <1>4, <1>5, <1>7 DEF TypeOK
<1>9. \A c \in Draft : made[c] > 0 => made'[c] > 0
      BY <1>7
<1>10. PassesMakeSense'
  <2>1. /\ pass[p].d \notin pass[p].pending
        /\ \A o \in Pass : pass[o].d \in Draft
        BY <1>1, <1>2, StateFacts DEF Inv, PassesMakeSense, Submitting
  <2>2. QED
        BY <1>2, <1>3, <1>4, <1>7, <1>9, <2>1 DEF Inv, PassesMakeSense, Submitting
<1>11. NeverDropped'
      BY <1>2, <1>9 DEF Inv, NeverDropped
<1>12. SyncingIsBeingSynced'
      BY <1>2, <1>3 DEF Inv, SyncingIsBeingSynced
<1>13. Undisturbed' /\ OnceWhenUndisturbed'
  <2>1. SUFFICES ASSUME mishap = {} PROVE Undisturbed' /\ OnceWhenUndisturbed'
        BY <1>2 DEF Undisturbed, OnceWhenUndisturbed
  <2>2. /\ \A o, r \in Pass : pass[o].pc # "idle" /\ pass[r].pc # "idle" => o = r
        /\ \A o \in Pass :
              /\ \A c \in pass[o].pending : made[c] = 0
              /\ pass[o].pc \in {"posting", "failing"} => made[pass[o].d] = 0
        /\ \A c \in Draft : made[c] > 0 =>
              \/ draft[c] = "gone"
              \/ \E o \in Pass : pass[o].pc = "answered" /\ pass[o].d = c
        BY <2>1 DEF Inv, Undisturbed
  <2>3. \A o \in Pass : o # p => pass[o].pc = "idle" /\ pass[o].pending = {}
        BY <1>2, <2>2 DEF Inv, PassesMakeSense
  <2>4. made'[d] = 1
        BY <1>2, <1>4, <1>7, <2>2
  <2>5. OnceWhenUndisturbed'
        BY <1>2, <1>7, <2>1, <2>4 DEF Inv, OnceWhenUndisturbed
  <2>6. \A o, r \in Pass : pass'[o].pc # "idle" /\ pass'[r].pc # "idle" => o = r
        BY <1>3, <2>3
  <2>7. \A o \in Pass :
              /\ \A c \in pass'[o].pending : made'[c] = 0
              /\ pass'[o].pc \in {"posting", "failing"} => made'[pass'[o].d] = 0
    <3>1. d \notin pass[p].pending /\ pass[p].pending \in SUBSET Draft
          BY <1>1, <1>2, <1>4, StateFacts DEF Inv, PassesMakeSense, Submitting
    <3>2. \A c \in pass'[p].pending : made'[c] = 0
          BY <1>3, <1>7, <2>2, <3>1
    <3>3. QED
          BY <1>3, <2>3, <3>2
  <2>8. \A c \in Draft : made'[c] > 0 =>
              \/ draft'[c] = "gone"
              \/ \E o \in Pass : pass'[o].pc = "answered" /\ pass'[o].d = c
    <3>1. TAKE c \in Draft
    <3>2. CASE c = d
          BY <1>3, <1>4, <3>2
    <3>3. CASE c # d
          BY <1>2, <1>3, <1>7, <2>2, <3>3
    <3>4. QED
          BY <3>2, <3>3
  <2>9. QED
        BY <2>5, <2>6, <2>7, <2>8 DEF Undisturbed
<1>14. QED
      BY <1>8, <1>10, <1>11, <1>12, <1>13 DEF Inv

\* A submission that throws: with no answer lost there is no entry yet.
LEMMA FailInv == ASSUME Inv, NEW p \in Pass, Fail(p) PROVE Inv'
<1>1. TypeOK
      BY DEF Inv
<1>2. /\ draft' = draft /\ made' = made
      /\ pass[p].pc \in {"posting", "answered"}
      /\ mishap' = IF pass[p].pc = "answered" THEN mishap \cup {"lost"} ELSE mishap
      BY DEF Fail
<1>3. /\ pass' \in [Pass -> PassState]
      /\ pass'[p].pc = "failing"
      /\ pass'[p].d = pass[p].d
      /\ pass'[p].pending = pass[p].pending
      /\ \A o \in Pass : o # p => pass'[o] = pass[o]
  <2>1. Goto(p, "failing") /\ "failing" \in Pc
        BY DEF Fail, Pc
  <2>2. QED
        BY <1>1, <2>1, GotoFacts
<1>4. /\ mishap' \subseteq Mishap
      /\ mishap' = {} => mishap = {} /\ pass[p].pc = "posting"
      /\ "closed" \notin mishap' => "closed" \notin mishap
      BY <1>1, <1>2 DEF TypeOK, Mishap
<1>5. TypeOK'
  <2>1. pass[p].pc \notin {"idle", "next"}
        BY <1>2
  <2>2. QED
        BY <1>1, <1>2, <1>3, <1>4, <2>1 DEF TypeOK
<1>6. PassesMakeSense'
      BY <1>2, <1>3 DEF Inv, PassesMakeSense, Submitting
<1>7. NeverDropped' /\ OnceWhenUndisturbed'
      BY <1>2, <1>4 DEF Inv, NeverDropped, OnceWhenUndisturbed
<1>8. SyncingIsBeingSynced'
      BY <1>2, <1>3, <1>4 DEF Inv, SyncingIsBeingSynced
<1>9. Undisturbed'
  <2>1. SUFFICES ASSUME mishap' = {} PROVE Undisturbed'
        BY DEF Undisturbed
  <2>2. mishap = {} /\ pass[p].pc = "posting"
        BY <1>4, <2>1
  <2>3. /\ \A o, r \in Pass : pass[o].pc # "idle" /\ pass[r].pc # "idle" => o = r
        /\ \A o \in Pass :
              /\ \A c \in pass[o].pending : made[c] = 0
              /\ pass[o].pc \in {"posting", "failing"} => made[pass[o].d] = 0
        /\ \A c \in Draft : made[c] > 0 =>
              \/ draft[c] = "gone"
              \/ \E o \in Pass : pass[o].pc = "answered" /\ pass[o].d = c
        BY <2>2 DEF Inv, Undisturbed
  <2>4. \A o, r \in Pass : pass'[o].pc # "idle" /\ pass'[r].pc # "idle" => o = r
        BY <1>3, <2>2, <2>3
  <2>5. \A o \in Pass :
              /\ \A c \in pass'[o].pending : made'[c] = 0
              /\ pass'[o].pc \in {"posting", "failing"} => made'[pass'[o].d] = 0
        BY <1>2, <1>3, <2>2, <2>3
  <2>6. \A c \in Draft : made'[c] > 0 =>
              \/ draft'[c] = "gone"
              \/ \E o \in Pass : pass'[o].pc = "answered" /\ pass'[o].d = c
        BY <1>2, <1>3, <2>2, <2>3
  <2>7. QED
        BY <2>4, <2>5, <2>6 DEF Undisturbed
<1>10. QED
      BY <1>5, <1>6, <1>7, <1>8, <1>9 DEF Inv

\* The answer is dealt with: the draft leaves the queue, or is marked as
\* failed; either way it is still one that was captured.
LEMMA DealtWithInv ==
    ASSUME Inv, NEW p \in Pass, NEW s \in {"gone", "failed"},
           pass[p].pc = IF s = "gone" THEN "answered" ELSE "failing",
           Mark(pass[p].d, s), Goto(p, "next"), UNCHANGED <<made, mishap>>
    PROVE  Inv'
<1>1. TypeOK /\ made' = made /\ mishap' = mishap
      BY DEF Inv
<1>2. Submitting(p) /\ pass[p].pc \in {"answered", "failing"}
      BY DEF Submitting
<1>3. PICK d : d = pass[p].d
      OBVIOUS
<1>4. d \in Draft /\ draft[d] # "none"
      BY <1>1, <1>2, <1>3, StateFacts
<1>5. /\ pass' \in [Pass -> PassState]
      /\ pass'[p].pc = "next"
      /\ pass'[p].d = pass[p].d
      /\ pass'[p].pending = pass[p].pending
      /\ \A o \in Pass : o # p => pass'[o] = pass[o]
  <2>1. "next" \in Pc
        BY DEF Pc
  <2>2. QED
        BY <1>1, <2>1, GotoFacts
<1>6. /\ draft' \in [Draft -> Status \cup {"none", "gone"}]
      /\ \A c \in Draft : c # d => draft'[c] = draft[c]
      /\ draft'[d] = IF draft[d] \in Status THEN s ELSE draft[d]
      /\ \A c \in Draft : draft'[c] = "none" <=> draft[c] = "none"
  <2>1. s \in Status \cup {"gone"} /\ Mark(d, s)
        BY <1>3 DEF Status
  <2>2. QED
        BY <1>1, <1>4, <2>1, MarkFacts
<1>7. /\ s = "gone" => draft'[d] = "gone"
      /\ s = "failed" => (draft'[d] = "gone" <=> draft[d] = "gone")
      /\ draft'[d] # "syncing"
  <2>1. draft[d] \in Status \cup {"gone"} /\ "syncing" \in Status
        BY <1>1, <1>4 DEF TypeOK, Status
  <2>2. QED
        BY <1>6, <2>1 DEF Status
<1>8. TypeOK'
      BY <1>1, <1>5, <1>6 DEF TypeOK
<1>9. PassesMakeSense'
      BY <1>1, <1>5 DEF Inv, PassesMakeSense, Submitting
<1>10. NeverDropped'
  <2>1. s = "gone" => made[d] > 0
        BY <1>3 DEF Inv, PassesMakeSense
  <2>2. QED
        BY <1>1, <1>4, <1>6, <1>7, <2>1 DEF Inv, NeverDropped
<1>11. SyncingIsBeingSynced'
      BY <1>1, <1>3, <1>5, <1>6, <1>7 DEF Inv, SyncingIsBeingSynced
<1>12. OnceWhenUndisturbed'
      BY <1>1 DEF Inv, OnceWhenUndisturbed
<1>13. Undisturbed'
  <2>1. SUFFICES ASSUME mishap = {} PROVE Undisturbed'
        BY <1>1 DEF Undisturbed
  <2>2. /\ \A o, r \in Pass : pass[o].pc # "idle" /\ pass[r].pc # "idle" => o = r
        /\ \A o \in Pass :
              /\ \A c \in pass[o].pending : made[c] = 0
              /\ pass[o].pc \in {"posting", "failing"} => made[pass[o].d] = 0
        /\ \A c \in Draft : made[c] > 0 =>
              \/ draft[c] = "gone"
              \/ \E o \in Pass : pass[o].pc = "answered" /\ pass[o].d = c
        BY <2>1 DEF Inv, Undisturbed
  <2>3. \A o, r \in Pass : pass'[o].pc # "idle" /\ pass'[r].pc # "idle" => o = r
        BY <1>2, <1>5, <2>2
  <2>4. \A o \in Pass :
              /\ \A c \in pass'[o].pending : made'[c] = 0
              /\ pass'[o].pc \in {"posting", "failing"} => made'[pass'[o].d] = 0
        BY <1>1, <1>5, <2>2
  <2>5. ASSUME NEW c \in Draft, made[c] > 0, draft'[c] # "gone"
        PROVE  \E o \in Pass : pass'[o].pc = "answered" /\ pass'[o].d = c
    <3>1. c # d
      <4>1. s = "failed" => made[d] = 0
            BY <1>3, <2>2
      <4>2. QED
            BY <1>7, <2>5, <4>1
    <3>2. draft[c] # "gone"
          BY <1>6, <2>5, <3>1
    <3>3. PICK o \in Pass : pass[o].pc = "answered" /\ pass[o].d = c
          BY <2>2, <2>5, <3>2
    <3>4. o # p
          BY <1>3, <3>1, <3>3
    <3>5. QED
          BY <1>5, <3>3, <3>4
  <2>6. QED
        BY <1>1, <2>3, <2>4, <2>5 DEF Undisturbed
<1>14. QED
      BY <1>8, <1>9, <1>10, <1>11, <1>12, <1>13 DEF Inv

LEMMA StutterInv == Inv /\ UNCHANGED vars => Inv'
<1>1. SUFFICES ASSUME Inv, UNCHANGED vars PROVE Inv'
      OBVIOUS
<1>2. draft' = draft /\ made' = made /\ pass' = pass /\ mishap' = mishap
      BY <1>1 DEF vars
<1>3. TypeOK' /\ PassesMakeSense' /\ NeverDropped'
      BY <1>1, <1>2 DEF Inv, TypeOK, PassesMakeSense, Submitting, NeverDropped
<1>4. SyncingIsBeingSynced' /\ Undisturbed' /\ OnceWhenUndisturbed'
      BY <1>1, <1>2 DEF Inv, SyncingIsBeingSynced, Undisturbed, OnceWhenUndisturbed
<1>5. QED
      BY <1>3, <1>4 DEF Inv

LEMMA NextInv == Inv /\ [Next]_vars => Inv'
<1>1. SUFFICES ASSUME Inv, [Next]_vars PROVE Inv'
      OBVIOUS
<1>2. CASE AddDraft
      BY <1>1, <1>2, AddDraftInv
<1>3. ASSUME NEW p \in Pass, PassStep(p)
      PROVE  Inv'
  <2>1. CASE Begin(p)
        BY <1>1, <2>1, BeginInv
  <2>2. CASE TakeUp(p)
        BY <1>1, <2>2, TakeUpInv
  <2>3. CASE EndPass(p)
    <3>1. /\ pass' = [pass EXCEPT ![p] = Idle] /\ pass[p].pc = "next"
          /\ mishap' = mishap /\ UNCHANGED <<draft, made>>
          BY <2>3 DEF EndPass
    <3>2. QED
          BY <1>1, <3>1, ResetInv
  <2>4. CASE Submit(p)
        BY <1>1, <2>4, SubmitInv
  <2>5. CASE Fail(p)
        BY <1>1, <2>5, FailInv
  <2>6. CASE Delete(p)
    <3>1. /\ pass[p].pc = "answered" /\ Mark(pass[p].d, "gone")
          /\ Goto(p, "next") /\ UNCHANGED <<made, mishap>>
          BY <2>6 DEF Delete
    <3>2. QED
          BY <1>1, <3>1, DealtWithInv
  <2>7. CASE MarkFailed(p)
    <3>1. /\ pass[p].pc = "failing" /\ Mark(pass[p].d, "failed")
          /\ Goto(p, "next") /\ UNCHANGED <<made, mishap>>
          BY <2>7 DEF MarkFailed
    <3>2. QED
          BY <1>1, <3>1, DealtWithInv
  <2>8. QED
        BY <1>3, <2>1, <2>2, <2>3, <2>4, <2>5, <2>6, <2>7 DEF PassStep
<1>4. ASSUME NEW p \in Pass, ClosePage(p)
      PROVE  Inv'
  <2>1. /\ pass' = [pass EXCEPT ![p] = Idle]
        /\ mishap' = mishap \cup {"closed"} /\ UNCHANGED <<draft, made>>
        BY <1>4 DEF ClosePage
  <2>2. QED
        BY <1>1, <2>1, ResetInv
<1>5. CASE UNCHANGED vars
      BY <1>1, <1>5, StutterInv
<1>6. QED
      BY <1>1, <1>2, <1>3, <1>4, <1>5 DEF Next

-----------------------------------------------------------------------------
(* The theorems.                                                           *)

\* The inductive invariant of the queue holds of every behaviour of syncNow.
THEOREM InvHolds == Spec => []Inv
<1>1. Init => Inv
      BY InitInv
<1>2. Inv /\ [Next]_vars => Inv'
      BY NextInv
<1>3. QED
      BY <1>1, <1>2, PTL DEF Spec

\* Drafts and passes stay well formed; a number nobody was given has no entry
\* and is on no pass's list.
THEOREM TypeCorrect == Spec => []TypeOK
<1>1. Inv => TypeOK
      BY DEF Inv
<1>2. QED
      BY <1>1, InvHolds, PTL

\* syncNow never silently drops a draft: one that left the queue has an entry,
\* however many tabs sync, fail, lose answers or are closed.
THEOREM NothingDropped == Spec => []NeverDropped
<1>1. Inv => NeverDropped
      BY DEF Inv
<1>2. QED
      BY <1>1, InvHolds, PTL

\* Until a page is closed, a draft marked as syncing is one that some pass is
\* submitting, so what a later pass skips is in good hands.
THEOREM SkippedIsInHand == Spec => []SyncingIsBeingSynced
<1>1. Inv => SyncingIsBeingSynced
      BY DEF Inv
<1>2. QED
      BY <1>1, InvHolds, PTL

\* Without overlapping passes, lost answers and closed pages a draft becomes
\* at most one entry, however often submissions fail and are retried.
THEOREM OneEntryEach == Spec => []OnceWhenUndisturbed
<1>1. Inv => OnceWhenUndisturbed
      BY DEF Inv
<1>2. QED
      BY <1>1, InvHolds, PTL

=============================================================================
