------------------------------- MODULE Drafts --------------------------------
(***************************************************************************)
(* The offline queue: drafts captured without a network are kept in the    *)
(* browser's IndexedDB and submitted as entries later.  A pass of syncNow  *)
(* runs on every `online` event and on every click of "Sync now", in every *)
(* open tab; each await is a point where another pass may run, the answer  *)
(* may get lost, or the page may be closed.                                *)
(***************************************************************************)
EXTENDS Naturals, FiniteSets, FiniteSetsExt

CONSTANTS
    MaxDraft,  \* drafts are numbered 1..MaxDraft, in the order of capture
    Pass       \* passes that can be running at once

VARIABLES
    draft,     \* draft[d]: its status in IndexedDB, "none" or "gone"
    made,      \* made[d]: entries on the server made from d; 2 is two or more
    pass,      \* what each pass of syncNow is doing
    mishap     \* no part of the program: what has gone wrong so far

vars == <<draft, made, pass, mishap>>

ASSUME DraftsAssumption == MaxDraft \in Nat \ {0}

Draft == 1..MaxDraft

-----------------------------------------------------------------------------

Status == {"queued", "syncing", "failed"}
Pc == {"idle", "next", "posting", "answered", "failing"}

\* The drafts a pass listed when it began and has yet to take up, and the one
\* it is submitting (meaningless when there is none).
PassState == [pc : Pc, pending : SUBSET Draft, d : Draft]

Idle == [pc |-> "idle", pending |-> {}, d |-> 1]

Mishap == {"overlap", "lost", "closed"}

TypeOK ==
    /\ draft \in [Draft -> Status \cup {"none", "gone"}]
    /\ made \in [Draft -> 0..2]
    /\ pass \in [Pass -> PassState]
    /\ mishap \subseteq Mishap
    /\ \A d \in Draft : draft[d] = "none" =>
          /\ made[d] = 0
          /\ \A p \in Pass : /\ d \notin pass[p].pending
                             /\ pass[p].pc \in {"idle", "next"} \/ pass[p].d # d

Init ==
    /\ draft = [d \in Draft |-> "none"]
    /\ made = [d \in Draft |-> 0]
    /\ pass = [p \in Pass |-> Idle]
    /\ mishap = {}

Stored == {d \in Draft : draft[d] \in Status}
Goto(p, pc) == pass' = [pass EXCEPT ![p].pc = pc]

\* updateOfflineDraftStatus: nothing to update once the draft is deleted.
Mark(d, status) ==
    draft' = IF d \in Stored THEN [draft EXCEPT ![d] = status] ELSE draft

-----------------------------------------------------------------------------

\* addOfflineDraft: the key is the next number.
AddDraft ==
    /\ \E d \in Draft :
          /\ draft[d] = "none"
          /\ \A c \in 1..(d - 1) : draft[c] # "none"
          /\ draft' = [draft EXCEPT ![d] = "queued"]
    /\ UNCHANGED <<made, pass, mishap>>

\* A pass begins by listing what it will submit.  Nothing stops two passes:
\* the button is disabled while one is known to run, the event is not.
MutantListed == {d \in Draft : draft[d] = "queued"}
Listed == {d \in Stored : draft[d] # "syncing"}

Begin(p) ==
    /\ pass[p].pc = "idle"
    /\ Listed # {}
    /\ pass' = [pass EXCEPT ![p] = [Idle EXCEPT !.pc = "next", !.pending = Listed]]
    /\ mishap' = IF \A q \in Pass : pass[q].pc = "idle"
                 THEN mishap ELSE mishap \cup {"overlap"}
    /\ UNCHANGED <<draft, made>>

\* The next listed draft, oldest first, is marked and submitted from the copy
\* that was listed, whatever has become of it since.
TakeUp(p) ==
    /\ pass[p].pc = "next"
    /\ pass[p].pending # {}
    /\ LET d == Min(pass[p].pending) IN
       /\ Mark(d, "syncing")
       /\ pass' = [pass EXCEPT ![p] = [ pc |-> "posting", d |-> d,
                                        pending |-> pass[p].pending \ {d} ]]
    /\ UNCHANGED <<made, mishap>>

EndPass(p) ==
    /\ pass[p].pc = "next"
    /\ pass[p].pending = {}
    /\ pass' = [pass EXCEPT ![p] = Idle]
    /\ UNCHANGED <<draft, made, mishap>>

\* POST .../entries reaches the server, which makes an entry of it.
Submit(p) ==
    /\ pass[p].pc = "posting"
    /\ made' = [made EXCEPT ![pass[p].d] = IF @ = 2 THEN 2 ELSE @ + 1]
    /\ Goto(p, "answered")
    /\ UNCHANGED <<draft, mishap>>

\* The request never arrives or is refused, or its answer is lost (or the
\* draft cannot be deleted): createEntry or what follows it throws.
Fail(p) ==
    /\ pass[p].pc \in {"posting", "answered"}
    /\ Goto(p, "failing")
    /\ mishap' = IF pass[p].pc = "answered" THEN mishap \cup {"lost"} ELSE mishap
    /\ UNCHANGED <<draft, made>>

MutantDeleteFreesNumber(p) ==
    /\ pass[p].pc = "answered"
    /\ Mark(pass[p].d, "none")
    /\ Goto(p, "next")
    /\ UNCHANGED <<made, mishap>>

MutantDelete(p) ==
    /\ pass[p].pc = "answered"
    /\ Mark(pass[p].d, "queued")
    /\ Goto(p, "next")
    /\ UNCHANGED <<made, mishap>>

Delete(p) ==
    /\ pass[p].pc = "answered"
    /\ Mark(pass[p].d, "gone")
    /\ Goto(p, "next")
    /\ UNCHANGED <<made, mishap>>

MutantMarkFailed(p) ==
    /\ pass[p].pc = "failing"
    /\ Mark(pass[p].d, "gone")
    /\ Goto(p, "next")
    /\ UNCHANGED <<made, mishap>>

MutantStopAtFailure(p) ==
    /\ pass[p].pc = "failing"
    /\ Goto(p, "next")
    /\ UNCHANGED <<draft, made, mishap>>

MarkFailed(p) ==
    /\ pass[p].pc = "failing"
    /\ Mark(pass[p].d, "failed")
    /\ Goto(p, "next")
    /\ UNCHANGED <<made, mishap>>

\* The tab is closed or reloaded in the middle of a pass, or IndexedDB refuses
\* a write that no catch of syncNow covers.
ClosePage(p) ==
    /\ pass[p].pc # "idle"
    /\ pass' = [pass EXCEPT ![p] = Idle]
    /\ mishap' = mishap \cup {"closed"}
    /\ UNCHANGED <<draft, made>>

-----------------------------------------------------------------------------

PassStep(p) ==
    \/ Begin(p) \/ TakeUp(p) \/ EndPass(p)
    \/ Submit(p) \/ Fail(p) \/ Delete(p) \/ MarkFailed(p)

Next ==
    \/ AddDraft
    \/ \E p \in Pass : PassStep(p) \/ ClosePage(p)

Spec == Init /\ [][Next]_vars

\* The browser runs every continuation, the `online` event keeps coming back,
\* and a network that keeps coming back lets a submission through in the end,
\* answer and all.  Nobody has to write a draft or close a page.
Fairness ==
    \A p \in Pass :
        /\ WF_vars(PassStep(p))
        /\ SF_vars(Submit(p))
        /\ SF_vars(Delete(p))

FairSpec == Spec /\ Fairness

-----------------------------------------------------------------------------
(* Properties.                                                             *)

\* Never silently dropped: a draft leaves the queue only when an entry has
\* been made of it.
NeverDropped == \A d \in Draft : draft[d] = "gone" => made[d] > 0

\* A draft shown as syncing is being submitted, until a page is closed: the
\* filter of a later pass skips only what another pass is really working on.
SyncingIsBeingSynced ==
    "closed" \notin mishap =>
        \A d \in Draft : draft[d] = "syncing" =>
            \E p \in Pass : /\ pass[p].d = d
                            /\ pass[p].pc \in {"posting", "answered", "failing"}

\* One pass at a time whose answers all arrive makes one entry of a draft,
\* however often submissions fail and are retried.
OnceWhenUndisturbed ==
    mishap = {} => \A d \in Draft : made[d] <= 1

\* As long as no page is closed in the middle of a pass, every draft ends up
\* as an entry and leaves the queue.
EveryDraftSynced ==
    \A d \in Draft :
        draft[d] = "queued" ~> (draft[d] = "gone" \/ "closed" \in mishap)

\* syncNow's comment: the filter "avoids submitting the same draft twice" when
\* two passes overlap.
OverlapSubmitsOnce ==
    mishap \subseteq {"overlap"} => \A d \in Draft : made[d] <= 1

\* OfflineDraftQueue's hint: "drafts will sync automatically once you're back
\* online", said of a user who in the end leaves the page open.
PageStaysOpen == <>[][\A p \in Pass : ~ClosePage(p)]_vars
SyncedOnceOnline ==
    PageStaysOpen => \A d \in Draft : draft[d] = "queued" ~> draft[d] = "gone"

-----------------------------------------------------------------------------
(* The inductive invariant.                                                *)

Submitting(p) == pass[p].pc \in {"posting", "answered", "failing"}

\* An idle pass has nothing left to take up, the draft a pass submits is no
\* longer among those it will, and an answer means that an entry was made.
PassesMakeSense ==
    \A p \in Pass :
        /\ pass[p].pc = "idle" => pass[p].pending = {}
        /\ Submitting(p) => pass[p].d \notin pass[p].pending
        /\ pass[p].pc = "answered" => made[pass[p].d] > 0

\* As long as nothing has gone wrong one pass runs at a time, whatever it has
\* yet to submit has no entry, and a draft with an entry leaves the queue as
\* soon as the answer is dealt with.
Undisturbed ==
    mishap = {} =>
        /\ \A p, q \in Pass : pass[p].pc # "idle" /\ pass[q].pc # "idle" => p = q
        /\ \A p \in Pass :
              /\ \A d \in pass[p].pending : made[d] = 0
              /\ pass[p].pc \in {"posting", "failing"} => made[pass[p].d] = 0
        /\ \A d \in Draft : made[d] > 0 =>
              \/ draft[d] = "gone"
              \/ \E p \in Pass : pass[p].pc = "answered" /\ pass[p].d = d

Inv ==
    /\ TypeOK
    /\ PassesMakeSense
    /\ NeverDropped
    /\ SyncingIsBeingSynced
    /\ Undisturbed
    /\ OnceWhenUndisturbed

=============================================================================
