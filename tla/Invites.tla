------------------------------- MODULE Invites -------------------------------
(***************************************************************************)
(* The life of an invite to one workspace: created by the owner, revoked   *)
(* or expired, accepted by the account it is addressed to, or applied      *)
(* while that account registers.  As in Membership, every SELECT is one    *)
(* action and every flush with its commit is one action, and no handler    *)
(* here locks what it reads.                                               *)
(***************************************************************************)
EXTENDS Naturals, FiniteSets

CONSTANTS
    User,      \* people other than the workspace's creator, each with an
               \* email address of their own and at most one account, kept
    Invite,    \* invite rows (and their tokens) that can still be created
    Request,   \* worker threads
    None       \* no row; no argument

VARIABLES
    open,      \* the workspace has a row
    account,   \* people with an account
    member,    \* people with a membership, in whatever role
    invite,    \* the workspace_invites table
    req        \* what each worker thread is doing

vars == <<open, account, member, invite, req>>

ASSUME NoneAssumption == None \notin User /\ None \notin Invite

\* The server has so many worker threads and no more.
ASSUME RequestAssumption == IsFiniteSet(Request)

-----------------------------------------------------------------------------

\* accepted_at, revoked_at and an expires_at that has passed; a row that is
\* not there (never created, or deleted with its workspace) is addressed to
\* nobody.
InviteRow == [ to : User \cup {None}, accepted : BOOLEAN, revoked : BOOLEAN,
               expired : BOOLEAN ]

NoRow == [to |-> None, accepted |-> FALSE, revoked |-> FALSE, expired |-> FALSE]

Pc == { "idle", "create_member", "create_pending", "create_commit",
        "revoke_read", "revoke_commit",
        "accept_read", "accept_check", "accept_commit",
        "register_commit", "apply_read", "apply_commit" }

\* u is the account that accepts or registers, or the addressee of a new
\* invite.  "dead" is no field of the program: whether invite i could no longer
\* be used when the request arrived, for NoEntryOnDeadInvite.
RequestState == [ pc : Pc, u : User \cup {None}, i : Invite \cup {None},
                  dead : BOOLEAN ]

Idle == [pc |-> "idle", u |-> None, i |-> None, dead |-> FALSE]

TypeOK ==
    /\ open \in BOOLEAN
    /\ account \subseteq User
    /\ member \subseteq account
    /\ invite \in [Invite -> InviteRow]
    /\ req \in [Request -> RequestState]
    /\ \A r \in Request :
          /\ req[r].pc \in Pc \ {"idle", "revoke_read", "revoke_commit"} => req[r].u \in User
          /\ req[r].pc \in {"revoke_read", "revoke_commit", "accept_read",
                            "accept_check", "accept_commit", "apply_read", "apply_commit"}
                => req[r].i \in Invite
    /\ ~open => member = {} /\ \A i \in Invite : invite[i] = NoRow

Init ==
    /\ open = TRUE
    /\ account \in SUBSET User
    /\ member = {}
    /\ invite = [i \in Invite |-> NoRow]
    /\ req = [r \in Request |-> Idle]

Exists(i) == invite[i].to # None

\* _get_valid_invite_or_error, and the same test on registration.
Usable(i) ==
    Exists(i) /\ ~invite[i].accepted /\ ~invite[i].revoked /\ ~invite[i].expired

\* What create_invite takes for a pending invite.
Pending(i, e) == invite[i].to = e /\ Usable(i)

Goto(r, pc) == req' = [req EXCEPT ![r].pc = pc]
Finish(r)   == req' = [req EXCEPT ![r] = Idle]
Answer(r)   == Finish(r) /\ UNCHANGED <<open, account, member, invite>>

-----------------------------------------------------------------------------
(* Requests arrive and die.                                                *)

Arrive(r, pc, u, i) ==
    req' = [req EXCEPT ![r] = [pc |-> pc, u |-> u, i |-> i,
                               dead |-> i # None /\ ~Usable(i)]]

\* An accepting caller is logged in.  Anyone may register, with or without an
\* invite token, and a token sent by mistake may be somebody else's.
Receive(r) ==
    /\ req[r].pc = "idle"
    /\ \/ \E e \in User : open /\ Arrive(r, "create_member", e, None)
       \/ \E i \in Invite : Exists(i) /\ Arrive(r, "revoke_read", None, i)
       \/ \E u \in account, i \in Invite : Exists(i) /\ Arrive(r, "accept_read", u, i)
       \/ \E u \in User, i \in Invite \cup {None} :
             (i # None => Exists(i)) /\ Arrive(r, "register_commit", u, i)
    /\ UNCHANGED <<open, account, member, invite>>

Abort(r) ==
    /\ req[r].pc # "idle"
    /\ Answer(r)

-----------------------------------------------------------------------------
(* create_invite                                                           *)

CreateMember(r) ==
    /\ req[r].pc = "create_member"
    /\ IF req[r].u \in member THEN Finish(r) ELSE Goto(r, "create_pending")
    /\ UNCHANGED <<open, account, member, invite>>

MutantCreatePending(r) ==
    /\ req[r].pc = "create_pending"
    /\ Goto(r, "create_commit")
    /\ UNCHANGED <<open, account, member, invite>>

CreatePending(r) ==
    /\ req[r].pc = "create_pending"
    /\ IF \E i \in Invite : Pending(i, req[r].u)
       THEN Finish(r)
       ELSE Goto(r, "create_commit")
    /\ UNCHANGED <<open, account, member, invite>>

\* The INSERT fails on its foreign key if the workspace is gone.
MutantCreateCommit(r) ==
    /\ req[r].pc = "create_commit"
    /\ \E i \in Invite : /\ ~Exists(i)
                         /\ invite' = [invite EXCEPT ![i].to = req[r].u]
    /\ Finish(r)
    /\ UNCHANGED <<open, account, member>>

CreateCommit(r) ==
    /\ req[r].pc = "create_commit"
    /\ IF open
       THEN \E i \in Invite : /\ ~Exists(i)
                              /\ invite' = [invite EXCEPT ![i].to = req[r].u]
       ELSE UNCHANGED invite
    /\ Finish(r)
    /\ UNCHANGED <<open, account, member>>

(* revoke_invite: an invite seen as accepted is left alone.                *)

RevokeRead(r) ==
    /\ req[r].pc = "revoke_read"
    /\ IF Exists(req[r].i) /\ ~invite[req[r].i].accepted
       THEN Goto(r, "revoke_commit")
       ELSE Finish(r)
    /\ UNCHANGED <<open, account, member, invite>>

RevokeCommit(r) ==
    /\ req[r].pc = "revoke_commit"
    /\ invite' = IF Exists(req[r].i)
                 THEN [invite EXCEPT ![req[r].i].revoked = TRUE]
                 ELSE invite
    /\ Finish(r)
    /\ UNCHANGED <<open, account, member>>

-----------------------------------------------------------------------------
(* accept_invite                                                           *)

MutantAcceptRead(r) ==
    /\ req[r].pc = "accept_read"
    /\ IF Exists(req[r].i) /\ invite[req[r].i].to = req[r].u
       THEN Goto(r, "accept_check")
       ELSE Finish(r)
    /\ UNCHANGED <<open, account, member, invite>>

AcceptRead(r) ==
    /\ req[r].pc = "accept_read"
    /\ IF Usable(req[r].i) /\ invite[req[r].i].to = req[r].u
       THEN Goto(r, "accept_check")
       ELSE Finish(r)
    /\ UNCHANGED <<open, account, member, invite>>

AcceptCheck(r) ==
    /\ req[r].pc = "accept_check"
    /\ IF req[r].u \in member THEN Finish(r) ELSE Goto(r, "accept_commit")
    /\ UNCHANGED <<open, account, member, invite>>

\* INSERT the membership and UPDATE accepted_at, in one commit: both or, when
\* the user is a member already or the workspace is gone, neither.
Admissible(r) == open /\ req[r].u \notin member

MutantAdmit(r) ==
    /\ member' = IF open THEN member \cup {req[r].u} ELSE member
    /\ UNCHANGED invite

MutantStampAnyway(r) ==
    /\ member' = IF Admissible(r) THEN member \cup {req[r].u} ELSE member
    /\ invite' = IF Exists(req[r].i)
                 THEN [invite EXCEPT ![req[r].i].accepted = TRUE]
                 ELSE invite

Admit(r) ==
    IF Admissible(r)
    THEN /\ member' = member \cup {req[r].u}
         /\ invite' = [invite EXCEPT ![req[r].i].accepted = TRUE]
    ELSE UNCHANGED <<member, invite>>

AcceptCommit(r) ==
    /\ req[r].pc = "accept_commit"
    /\ Admit(r)
    /\ Finish(r)
    /\ UNCHANGED <<open, account>>

(* register, with an optional invite token: the account is committed first *)
(* and the invite is applied in a second transaction.                      *)

RegisterCommit(r) ==
    /\ req[r].pc = "register_commit"
    /\ IF req[r].u \in account \/ req[r].i = None
       THEN Finish(r)
       ELSE Goto(r, "apply_read")
    /\ account' = account \cup {req[r].u}
    /\ UNCHANGED <<open, member, invite>>

ApplyRead(r) ==
    /\ req[r].pc = "apply_read"
    /\ IF Usable(req[r].i) /\ invite[req[r].i].to = req[r].u
       THEN Goto(r, "apply_commit")
       ELSE Finish(r)
    /\ UNCHANGED <<open, account, member, invite>>

ApplyCommit(r) ==
    /\ req[r].pc = "apply_commit"
    /\ Admit(r)
    /\ Finish(r)
    /\ UNCHANGED <<open, account>>

-----------------------------------------------------------------------------
(* What other handlers and the clock do to these tables.                   *)

Expire(i) ==
    /\ Exists(i)
    /\ invite' = [invite EXCEPT ![i].expired = TRUE]
    /\ UNCHANGED <<open, account, member, req>>

\* remove_member's commit.
RemoveMember(u) ==
    /\ u \in member
    /\ member' = member \ {u}
    /\ UNCHANGED <<open, account, invite, req>>

\* delete_workspace's commit: the cascade takes every membership and invite.
DropWorkspace ==
    /\ open
    /\ open' = FALSE
    /\ member' = {}
    /\ invite' = [i \in Invite |-> NoRow]
    /\ UNCHANGED <<account, req>>

Step(r) ==
    \/ Receive(r) \/ Abort(r)
    \/ CreateMember(r) \/ CreatePending(r) \/ CreateCommit(r)
    \/ RevokeRead(r) \/ RevokeCommit(r)
    \/ AcceptRead(r) \/ AcceptCheck(r) \/ AcceptCommit(r)
    \/ RegisterCommit(r) \/ ApplyRead(r) \/ ApplyCommit(r)

Next ==
    \/ \E r \in Request : Step(r)
    \/ \E i \in Invite : Expire(i)
    \/ \E u \in User : RemoveMember(u)
    \/ DropWorkspace

Spec == Init /\ [][Next]_vars

-----------------------------------------------------------------------------
(* Properties.                                                             *)

\* An owner cannot add anyone: whoever is a member has used up an invite
\* addressed to them, revoked a moment too late or not.
MembersAccepted ==
    \A u \in member : \E i \in Invite : invite[i].to = u /\ invite[i].accepted

\* Why they hold: a request about to admit somebody has read an invite to them
\* that was usable, so it did not arrive with a dead one; a dead invite stays
\* dead as long as the workspace is there; and accounts come before members.
Joining == {"accept_check", "accept_commit", "apply_commit"}

Justified(q) ==
    /\ q.pc \in Joining => ~q.dead /\ (open => invite[q.i].to = q.u)
    /\ q.dead /\ open => q.i \in Invite /\ Exists(q.i) /\ ~Usable(q.i)
    /\ q.pc \in Joining \cup {"accept_read", "apply_read"} => q.u \in account

Inv == TypeOK /\ MembersAccepted /\ \A r \in Request : Justified(req[r])

\* Accepting is all or nothing: an invite is used up only in the commit that
\* makes its addressee a member, so losing a race to the unique constraint or
\* to the deletion of the workspace costs nobody their invite.
UsedUpOnlyByJoining ==
    [][\A i \in Invite :
          invite'[i].accepted /\ ~invite[i].accepted
             => invite[i].to \in member' \ member
      ]_vars

\* A request lets nobody in on an invite that was revoked, expired or used up
\* before the request arrived.
NoEntryOnDeadInvite ==
    [][\A u \in member' \ member :
          \E r \in Request : /\ req[r].pc \in {"accept_commit", "apply_commit"}
                             /\ req[r].u = u
                             /\ ~req[r].dead
                             /\ req'[r].pc = "idle"
      ]_vars

\* The check for a pending invite is unlocked, but an address can collect no
\* more pending invites than creations that overlapped.
PendingFor(e) == {i \in Invite : Pending(i, e)}

PendingBounded == \A e \in User : Cardinality(PendingFor(e)) <= Cardinality(Request)

\* Why: a creation begins when there is no pending invite, and each that has
\* begun adds one at most.
CreatingFor(e) == {r \in Request : req[r].pc = "create_commit" /\ req[r].u = e}

CreationsCounted ==
    \A e \in User :
        /\ IsFiniteSet(PendingFor(e))
        /\ Cardinality(PendingFor(e)) + Cardinality(CreatingFor(e)) <= Cardinality(Request)

=============================================================================
