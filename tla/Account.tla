------------------------------ MODULE Account -------------------------------
(***************************************************************************)
(* Accounts and the ways into them: registration, e-mail verification,     *)
(* password reset, sign-in with a password or with Google, the admin's     *)
(* block, and deletion.  Every SELECT is one action and every flush with   *)
(* its commit is one action; nothing here locks what it reads.             *)
(*                                                                         *)
(* A user name and an e-mail address are both unique and both scrubbed on  *)
(* deletion, so one "address" stands for the two.  What delete_account     *)
(* does to workspaces is in Membership and Photos.                         *)
(***************************************************************************)
EXTENDS Naturals, FiniteSets

CONSTANTS
    User,      \* rows of the users table that exist or can be inserted
    Address, Password, Sub,
    Link,      \* secrets.token_urlsafe values that can still be drawn
    Request,   \* worker threads
    None       \* NULL; the random hash nobody knows the password of

VARIABLES
    user,          \* the users table
    verification,  \* email_verification_tokens, at most one row per user
    reset,         \* password_reset_tokens
    issued,        \* links drawn so far
    expired,       \* links whose expires_at has passed
    session,       \* users for whom somebody holds an access token
    req,           \* what each worker thread is doing
    raced,         \* no state of the program: which overlaps a user has seen
    uses           \* nor this: how often a reset link changed a password

tables == <<user, verification, reset, issued, session, raced, uses>>
vars == <<user, verification, reset, issued, expired, session, req, raced, uses>>

ASSUME NoneAssumption == None \notin User \cup Address \cup Password \cup Sub \cup Link

-----------------------------------------------------------------------------

\* deleted_at makes a row "deleted"; it is never removed.
UserRow == [ phase : {"free", "live", "deleted"}, address : Address \cup {None},
             password : Password \cup {None}, verified : BOOLEAN,
             sub : Sub \cup {None}, admin : BOOLEAN, active : BOOLEAN ]

FreeUser == [ phase |-> "free", address |-> None, password |-> None, verified |-> FALSE,
              sub |-> None, admin |-> FALSE, active |-> TRUE ]

\* The link a row was inserted with stands for its primary key.
VerificationRow == [row : Link \cup {None}, link : Link \cup {None}]
NoVerification  == [row |-> None, link |-> None]

ResetRow == [of : User \cup {None}, used : BOOLEAN]
NoReset  == [of |-> None, used |-> FALSE]

Pc == { "idle", "send_read", "send_commit", "verify_commit", "reset_commit",
        "confirm_commit", "google_email", "google_link", "google_create",
        "delete_commit", "deactivate_commit", "reactivate_commit" }

\* u is the caller, or the account the handler found; target is the account an
\* admin acts on and active what was read of it; row, seen and link are the
\* token rows that were read.
RequestState == [ pc : Pc, u : User \cup {None}, target : User \cup {None},
                  active : BOOLEAN, address : Address \cup {None}, sub : Sub \cup {None},
                  password : Password \cup {None}, row : Link \cup {None},
                  seen : SUBSET Link, link : Link \cup {None} ]

Idle == [ pc |-> "idle", u |-> None, target |-> None, active |-> FALSE, address |-> None,
          sub |-> None, password |-> None, row |-> None, seen |-> {}, link |-> None ]

TypeOK ==
    /\ user \in [User -> UserRow]
    /\ verification \in [User -> VerificationRow]
    /\ reset \in [Link -> ResetRow]
    /\ issued \subseteq Link
    /\ expired \subseteq issued
    /\ session \subseteq User
    /\ req \in [Request -> RequestState]
    /\ raced \in [User -> SUBSET {"reset", "use", "deletion"}]
    /\ uses \in [Link -> Nat]
    /\ \A u, v \in User : \* the unique indexes of users
          u # v => /\ user[u].address = None \/ user[u].address # user[v].address
                   /\ user[u].sub = None \/ user[u].sub # user[v].sub

Init ==
    /\ user = [u \in User |-> FreeUser]
    /\ verification = [u \in User |-> NoVerification]
    /\ reset = [l \in Link |-> NoReset]
    /\ issued = {}
    /\ expired = {}
    /\ session = {}
    /\ req = [r \in Request |-> Idle]
    /\ raced = [u \in User |-> {}]
    /\ uses = [l \in Link |-> 0]

Exists(u) == user[u].phase # "free"

\* What _user_from_token and both ways of signing in require of the row.
MayEnter(u) == user[u].phase = "live" /\ user[u].active

\* get_current_user
Authenticated(u) == u \in session /\ MayEnter(u)

Finish(r)      == req' = [req EXCEPT ![r] = Idle]
Goto(r, pc)    == req' = [req EXCEPT ![r].pc = pc]
\* An error or an answer that leaves the tables as they are.
Answer(r)      == Finish(r) /\ UNCHANGED <<user, verification, reset, issued, session, raced, uses>>
Begin(r, state) == req[r].pc = "idle" /\ req' = [req EXCEPT ![r] = state]
At(r, pc)      == req[r].pc = pc

\* A token row of u is inserted while u's deletion has read the rows it will
\* delete, or after it: nothing will remove the row.
MissedByDeletion(u) ==
    \/ user[u].phase = "deleted"
    \/ \E q \in Request : At(q, "delete_commit") /\ req[q].u = u

Note(u, races) == raced' = [raced EXCEPT ![u] = @ \cup races]

-----------------------------------------------------------------------------
(* Registration and e-mail verification.                                   *)

\* register: the INSERT and its commit; a taken address is a 409.
Register(r, u, a, p) ==
    /\ ~Exists(u)
    /\ \A v \in User : user[v].address # a
    /\ Begin(r, [Idle EXCEPT !.pc = "send_read", !.u = u])
    /\ user' = [user EXCEPT ![u] = [FreeUser EXCEPT !.phase = "live", !.address = a,
                                                    !.password = p]]
    /\ UNCHANGED <<verification, reset, issued, session, raced, uses>>

\* resend_verification_email: the caller and their email_verified.
Resend(r, u) ==
    /\ Authenticated(u)
    /\ ~user[u].verified
    /\ Begin(r, [Idle EXCEPT !.pc = "send_commit", !.u = u, !.row = verification[u].row])
    /\ UNCHANGED tables

SendRead(r) ==
    /\ At(r, "send_read")
    /\ req' = [req EXCEPT ![r].pc = "send_commit", ![r].row = verification[req[r].u].row]
    /\ UNCHANGED tables

\* INSERT if no row was read (the unique index on user_id may refuse it), else
\* an UPDATE of the row that was read (a StaleDataError if it is gone).
SendCommit(r) ==
    LET u == req[r].u IN
    /\ At(r, "send_commit")
    /\ IF verification[u].row = req[r].row
       THEN \E l \in Link \ issued :
              /\ verification' = [verification EXCEPT ![u] =
                    [row |-> IF req[r].row = None THEN l ELSE @.row, link |-> l]]
              /\ issued' = issued \cup {l}
              /\ Note(u, IF req[r].row = None /\ MissedByDeletion(u) THEN {"deletion"} ELSE {})
              /\ Finish(r)
              /\ UNCHANGED <<user, reset, session, uses>>
       ELSE Answer(r)

\* confirm_email_verification: 404 and 410 change nothing.
VerifyRead(r, u, l) ==
    /\ verification[u].link = l
    /\ l \notin expired
    /\ Begin(r, [Idle EXCEPT !.pc = "verify_commit", !.u = u, !.row = verification[u].row])
    /\ UNCHANGED tables

\* The row is deleted by primary key, whatever link it carries by now.
VerifyCommit(r) ==
    LET u == req[r].u IN
    /\ At(r, "verify_commit")
    /\ user' = [user EXCEPT ![u].verified = TRUE]
    /\ verification' = [verification EXCEPT ![u] = IF @.row = req[r].row THEN NoVerification ELSE @]
    /\ Finish(r)
    /\ UNCHANGED <<reset, issued, session, raced, uses>>

-----------------------------------------------------------------------------
(* Password reset.                                                         *)

ResetsOf(u)    == {l \in Link : reset[l].of = u}
UnusedOf(u)    == {l \in ResetsOf(u) : ~reset[l].used}
LiveResets(u)  == UnusedOf(u) \ expired

\* MUTANT of ResetRead: the links sent before are not looked up
ForgetsOldLinks(r, u, a) ==
    /\ user[u].address = a
    /\ Begin(r, [Idle EXCEPT !.pc = "reset_commit", !.u = u])
    /\ UNCHANGED tables

\* request_password_reset: the account and its unused tokens.  An unknown
\* address is answered alike.
ResetRead(r, u, a) ==
    /\ user[u].address = a
    /\ Begin(r, [Idle EXCEPT !.pc = "reset_commit", !.u = u, !.seen = UnusedOf(u)])
    /\ UNCHANGED tables

\* MUTANT of ResetCommit: used_at is cleared where it should be set
ReviveOnReset(r) ==
    LET u == req[r].u IN
    /\ At(r, "reset_commit")
    /\ \E new \in Link \ issued :
          /\ reset' = [l \in Link |-> IF l = new THEN [of |-> u, used |-> FALSE]
                                      ELSE IF l \in ResetsOf(u) THEN [reset[l] EXCEPT !.used = FALSE]
                                      ELSE reset[l]]
          /\ issued' = issued \cup {new}
    /\ Finish(r)
    /\ UNCHANGED <<user, verification, session, raced, uses>>

\* Marks what was read as used, by primary key: a StaleDataError if a row is gone.
ResetCommit(r) ==
    LET u == req[r].u
        others == {q \in Request \ {r} : At(q, "reset_commit") /\ req[q].u = u} IN
    /\ At(r, "reset_commit")
    /\ IF \A l \in req[r].seen : reset[l].of = u
       THEN \E new \in Link \ issued :
              /\ reset' = [l \in Link |-> IF l = new THEN [of |-> u, used |-> FALSE]
                                          ELSE IF l \in req[r].seen THEN [reset[l] EXCEPT !.used = TRUE]
                                          ELSE reset[l]]
              /\ issued' = issued \cup {new}
              /\ Note(u, (IF others # {} THEN {"reset"} ELSE {})
                         \cup (IF MissedByDeletion(u) THEN {"deletion"} ELSE {}))
              /\ Finish(r)
              /\ UNCHANGED <<user, verification, session, uses>>
       ELSE Answer(r)

\* MUTANT of ConfirmRead: used_at is not looked at
UsedLinkAccepted(r, l, p) ==
    /\ reset[l].of # None
    /\ l \notin expired
    /\ Begin(r, [Idle EXCEPT !.pc = "confirm_commit", !.u = reset[l].of, !.link = l,
                             !.password = p])
    /\ UNCHANGED tables

\* confirm_password_reset: the record, its used_at and its expires_at.
ConfirmRead(r, l, p) ==
    /\ reset[l].of # None
    /\ ~reset[l].used
    /\ l \notin expired
    /\ Begin(r, [Idle EXCEPT !.pc = "confirm_commit", !.u = reset[l].of, !.link = l,
                             !.password = p])
    /\ UNCHANGED tables

ConfirmCommit(r) ==
    LET u == req[r].u
        l == req[r].link
        others == {q \in Request \ {r} : At(q, "confirm_commit") /\ req[q].link = l} IN
    /\ At(r, "confirm_commit")
    /\ IF reset[l].of = u
       THEN /\ user' = [user EXCEPT ![u].password = req[r].password]
            /\ reset' = [reset EXCEPT ![l].used = TRUE]
            /\ uses' = [uses EXCEPT ![l] = @ + 1]
            /\ Note(u, IF others # {} THEN {"use"} ELSE {})
            /\ Finish(r)
            /\ UNCHANGED <<verification, issued, session>>
       ELSE Answer(r)

-----------------------------------------------------------------------------
(* Signing in.  A refusal changes nothing.                                 *)

\* login: one SELECT decides.
Login(r, u, a, p) ==
    /\ At(r, "idle")
    /\ user[u].address = a
    /\ MayEnter(u)
    /\ user[u].password = p
    /\ session' = session \cup {u}
    /\ UNCHANGED <<user, verification, reset, issued, req, raced, uses>>

\* callback: the nonce and the code have been checked, Google vouches for s and
\* a.  An account with this google_sub is entered at once.
GoogleReturning(r, u, s) ==
    /\ At(r, "idle")
    /\ user[u].sub = s
    /\ MayEnter(u)
    /\ session' = session \cup {u}
    /\ UNCHANGED <<user, verification, reset, issued, req, raced, uses>>

GoogleUnknownSub(r, s, a) ==
    /\ \A u \in User : user[u].sub # s
    /\ Begin(r, [Idle EXCEPT !.pc = "google_email", !.sub = s, !.address = a])
    /\ UNCHANGED tables

\* MUTANT of MayLink: email_verified is not looked at
LinksUnverified(u) == MayEnter(u)

\* The account with this address, which must be entitled and verified.
MayLink(u) == MayEnter(u) /\ user[u].verified

GoogleEmail(r) ==
    LET found == {u \in User : user[u].address = req[r].address} IN
    /\ At(r, "google_email")
    /\ \/ /\ found = {}
          /\ Goto(r, "google_create")
          /\ UNCHANGED tables
       \/ \E u \in found :
            IF MayLink(u)
            THEN /\ req' = [req EXCEPT ![r].pc = "google_link", ![r].u = u]
                 /\ UNCHANGED tables
            ELSE Answer(r)

\* MUTANT of SubTaken: google_sub has no unique index
KeepsSubUnique(s, u) == FALSE

SubTaken(s, u) == \E v \in User \ {u} : user[v].sub = s

\* The link is written to the row that was read, whatever became of it.
GoogleLink(r) ==
    LET u == req[r].u IN
    /\ At(r, "google_link")
    /\ IF SubTaken(req[r].sub, u)
       THEN Answer(r)
       ELSE /\ user' = [user EXCEPT ![u].sub = req[r].sub]
            /\ session' = session \cup {u}
            /\ Finish(r)
            /\ UNCHANGED <<verification, reset, issued, raced, uses>>

\* The INSERT; an address or sub taken since is an error nobody catches.
GoogleCreate(r) ==
    /\ At(r, "google_create")
    /\ \/ /\ \E v \in User : user[v].address = req[r].address \/ user[v].sub = req[r].sub
          /\ Answer(r)
       \/ \E u \in User :
            /\ ~Exists(u)
            /\ \A v \in User : user[v].address # req[r].address /\ user[v].sub # req[r].sub
            /\ user' = [user EXCEPT ![u] = [FreeUser EXCEPT !.phase = "live",
                           !.address = req[r].address, !.verified = TRUE, !.sub = req[r].sub]]
            /\ session' = session \cup {u}
            /\ Finish(r)
            /\ UNCHANGED <<verification, reset, issued, raced, uses>>

-----------------------------------------------------------------------------
(* Deletion.                                                               *)

\* MUTANT of DeleteRead: used reset tokens are left behind
DeletesUnusedResetsOnly(r, u, p) ==
    /\ Authenticated(u)
    /\ user[u].password = p
    /\ Begin(r, [Idle EXCEPT !.pc = "delete_commit", !.u = u, !.row = verification[u].row,
                             !.seen = UnusedOf(u)])
    /\ UNCHANGED tables

\* verify_password fails on the random hash of an account made by Google.  The
\* check and the SELECTs of the two tables are one step: what matters is what
\* is inserted after them.
DeleteRead(r, u, p) ==
    /\ Authenticated(u)
    /\ user[u].password = p
    /\ Begin(r, [Idle EXCEPT !.pc = "delete_commit", !.u = u, !.row = verification[u].row,
                             !.seen = ResetsOf(u)])
    /\ UNCHANGED tables

\* The scrub leaves google_sub, email_verified and the admin's flags.
Scrubbed(row) == [row EXCEPT !.phase = "deleted", !.address = None, !.password = None]

DeleteCommit(r) ==
    LET u == req[r].u IN
    /\ At(r, "delete_commit")
    /\ user' = [user EXCEPT ![u] = Scrubbed(@)]
    /\ verification' = [verification EXCEPT ![u] = IF @.row = req[r].row THEN NoVerification ELSE @]
    /\ reset' = [l \in Link |-> IF l \in req[r].seen THEN NoReset ELSE reset[l]]
    /\ Finish(r)
    /\ UNCHANGED <<issued, session, raced, uses>>

-----------------------------------------------------------------------------
(* Admins.                                                                 *)

Admins == {u \in User : user[u].admin /\ MayEnter(u)}

\* MUTANT of Deactivate: admins may deactivate themselves
NoSelfCheck(r, u, v) ==
    /\ Authenticated(u) /\ user[u].admin
    /\ Exists(v)
    /\ Begin(r, [Idle EXCEPT !.pc = "deactivate_commit", !.u = u, !.target = v,
                             !.active = user[v].active])
    /\ UNCHANGED tables

\* require_admin, _get_target_user_or_404 and the self-check of deactivate_user.
Deactivate(r, u, v) ==
    /\ Authenticated(u) /\ user[u].admin
    /\ Exists(v) /\ v # u
    /\ Begin(r, [Idle EXCEPT !.pc = "deactivate_commit", !.u = u, !.target = v,
                             !.active = user[v].active])
    /\ UNCHANGED tables

Reactivate(r, u, v) ==
    /\ Authenticated(u) /\ user[u].admin
    /\ Exists(v)
    /\ Begin(r, [Idle EXCEPT !.pc = "reactivate_commit", !.u = u, !.target = v,
                             !.active = user[v].active])
    /\ UNCHANGED tables

\* An attribute set to the value that was read is not written.
SetActive(r, pc, to) ==
    LET v == req[r].target IN
    /\ At(r, pc)
    /\ user' = [user EXCEPT ![v].active = IF req[r].active = to THEN @ ELSE to]
    /\ Finish(r)
    /\ UNCHANGED <<verification, reset, issued, session, raced, uses>>

DeactivateCommit(r) == SetActive(r, "deactivate_commit", FALSE)
ReactivateCommit(r) == SetActive(r, "reactivate_commit", TRUE)

\* scripts/grant_admin.py, run by hand.  It reads the row and commits later: by
\* then the account may have been deleted, and a row read as live still exists.
GrantAdmin(u) ==
    /\ Exists(u)
    /\ user' = [user EXCEPT ![u].admin = TRUE]
    /\ UNCHANGED <<verification, reset, issued, session, req, raced, uses>>

-----------------------------------------------------------------------------

\* The process dies, or the database fails: get_db closes without a commit.
Abort(r) == ~At(r, "idle") /\ Answer(r)

Expire(l) ==
    /\ l \in issued \ expired
    /\ expired' = expired \cup {l}
    /\ UNCHANGED <<req, tables>>

Arrival(r) ==
    \/ \E u \in User, a \in Address, p \in Password : Register(r, u, a, p) \/ Login(r, u, a, p)
    \/ \E u \in User : Resend(r, u)
    \/ \E u \in User, l \in Link : VerifyRead(r, u, l)
    \/ \E u \in User, a \in Address : ResetRead(r, u, a)
    \/ \E l \in Link, p \in Password : ConfirmRead(r, l, p)
    \/ \E u \in User, s \in Sub : GoogleReturning(r, u, s)
    \/ \E s \in Sub, a \in Address : GoogleUnknownSub(r, s, a)
    \/ \E u \in User, p \in Password : DeleteRead(r, u, p)
    \/ \E u, v \in User : Deactivate(r, u, v) \/ Reactivate(r, u, v)

Progress(r) ==
    \/ SendRead(r) \/ SendCommit(r) \/ VerifyCommit(r)
    \/ ResetCommit(r) \/ ConfirmCommit(r)
    \/ GoogleEmail(r) \/ GoogleLink(r) \/ GoogleCreate(r)
    \/ DeleteCommit(r) \/ DeactivateCommit(r) \/ ReactivateCommit(r)

Next ==
    \/ \E r \in Request : (Arrival(r) \/ Progress(r) \/ Abort(r)) /\ UNCHANGED expired
    \/ \E u \in User : GrantAdmin(u) /\ UNCHANGED expired
    \/ \E l \in Link : Expire(l)

Spec == Init /\ [][Next]_vars

-----------------------------------------------------------------------------
(* What must hold.                                                         *)

\* A user has one reset link that works, the last one asked for, unless two of
\* their requests overlapped ("only the most recently requested link should
\* actually work", account.py:126): each then misses the other's link.
OneResetLink == \A u \in User : "reset" \in raced[u] \/ Cardinality(LiveResets(u)) <= 1

\* A reset link changes the password once, unless it was confirmed twice at the
\* same time: used_at is checked in one statement and set in another.
ResetLinkUsedOnce ==
    \A l \in Link : reset[l].of = None \/ "use" \in raced[reset[l].of] \/ uses[l] <= 1

\* Nothing is left of a deleted account that could lead back into it - no
\* password, no address, no link - unless a link was being made for it while
\* the deletion ran, which deletes only the rows it has read.
DeletedIsDeleted ==
    \A u \in User :
        user[u].phase = "deleted" =>
            /\ user[u].address = None
            /\ "deletion" \in raced[u] \/ /\ user[u].password = None
                                          /\ verification[u] = NoVerification
                                          /\ ResetsOf(u) = {}

\* Google is a way into an account only after its address was proven, by the
\* link in a mail or by Google: checked on one read, linked by a later write.
GoogleOnlyVerified == \A u \in User : user[u].sub # None => user[u].verified

\* The last working admin is lost only by deleting their own account, or to an
\* admin who was deactivated themselves since they were let in.
LastAdminStays ==
    [][ Admins # {} /\ Admins' = {} =>
            \/ \E u \in Admins : user'[u].phase = "deleted"
            \/ \E r \in Request : At(r, "deactivate_commit") /\ At(r, "idle")'
                                  /\ req[r].u \notin Admins ]_vars

\* Both kinds of mailed link implement Links.
LiveLinks == ({verification[u].link : u \in User} \ {None}) \cup UNION {UnusedOf(u) : u \in User}

Promised == INSTANCE Links WITH live <- LiveLinks \ expired,
                                dead <- issued \ (LiveLinks \ expired)
LinksSpec == Promised!Spec

-----------------------------------------------------------------------------
(* The inductive invariant.                                                *)

\* A row names only links that were drawn, and a link not yet drawn has no past.
LinksAreDrawn ==
    /\ \A u \in User : /\ verification[u].link \in issued \cup {None}
                       /\ verification[u].row = None => verification[u].link = None
    /\ \A l \in Link : /\ reset[l].of # None => l \in issued
                       /\ l \notin issued => uses[l] = 0

\* Counting those that have expired, too.
OneUnusedReset ==
    \A u \in User : "reset" \in raced[u] \/ \A k, l \in UnusedOf(u) : k = l

UsedIsMarked ==
    \A l \in Link : reset[l].of = None \/ uses[l] = 0 \/ reset[l].used

\* What a request has read about the tables and what is still true of it, short
\* of the races it can lose: the account it links stays verified, a reset has
\* seen all unused links, the link being confirmed is still fresh, and a
\* deletion has seen all there is to delete.
Knows(q) ==
    /\ q.pc \notin {"idle", "google_email", "google_create"} => q.u \in User
    /\ q.pc = "google_link" => Exists(q.u) /\ user[q.u].verified
    /\ q.pc = "deactivate_commit" => q.u # q.target
    /\ q.pc = "reset_commit" => "reset" \in raced[q.u] \/ UnusedOf(q.u) \subseteq q.seen
    /\ q.pc = "confirm_commit" =>
          /\ q.link \in issued
          /\ reset[q.link].of \in {None, q.u}
          /\ reset[q.link].of = None \/ "use" \in raced[q.u] \/ uses[q.link] = 0
    /\ q.pc = "delete_commit" =>
          \/ "deletion" \in raced[q.u]
          \/ verification[q.u].row \in {None, q.row} /\ ResetsOf(q.u) \subseteq q.seen

Inv ==
    /\ TypeOK
    /\ LinksAreDrawn /\ OneUnusedReset /\ UsedIsMarked
    /\ ResetLinkUsedOnce /\ DeletedIsDeleted /\ GoogleOnlyVerified
    /\ \A r \in Request : Knows(req[r])

=============================================================================
