----------------------------- MODULE Membership -----------------------------
(***************************************************************************)
(* Who belongs to a workspace, and in which role, while several requests   *)
(* are served at once.                                                     *)
(*                                                                         *)
(* FastAPI runs each handler in a worker thread with a database session of *)
(* its own.  A handler is a sequence of SELECTs, each of which sees what   *)
(* was committed when it ran (READ COMMITTED, autoflush off), followed by  *)
(* one flush and commit.  Here a SELECT is one action and the flush with   *)
(* its commit is one action; between two actions of a request any other    *)
(* request may run.  Only transfer_ownership locks what it reads.          *)
(***************************************************************************)
EXTENDS FiniteSets

CONSTANTS
    User,       \* accounts, registered before the behaviour starts
    Workspace,  \* workspace ids the database can still hand out
    Request,    \* worker threads: how many requests can be in flight
    None        \* "no such row", and an argument a handler does not take

VARIABLES
    role,     \* the workspace_memberships table: role[w][u], or None
    live,     \* the workspaces table: ids with a row
    used,     \* workspace ids ever handed out; an id is not reused
    deleted,  \* users with deleted_at set
    req       \* what each worker thread is doing

vars == <<role, live, used, deleted, req>>

-----------------------------------------------------------------------------

\* Roles an invite or a role change may carry; "owner" only ever comes from
\* creating a workspace or from a transfer.
GrantedRole == {"member", "subscriber"}
Role == GrantedRole \cup {"owner"}

ASSUME NoneAssumption == None \notin Role

Row == Workspace \X User   \* uq_workspace_membership: one row per pair

Pc == { "idle", "create", "join_check", "join_commit",
        "transfer_lock", "transfer_target", "transfer_commit",
        "role_check", "role_read", "role_commit",
        "remove_check", "remove_read", "remove_commit",
        "drop_check", "drop_load", "drop_commit",
        "leave_owned", "leave_count", "leave_rest", "leave_commit" }

\* A request: the caller u, the workspace w and user v it names, the role it
\* asks for, and what its session has read so far: the role of v's row (None
\* once that row is gone), the rows and the workspaces it will delete, and
\* the owned workspaces it has yet to count.
RequestState ==
    [ pc : Pc, u : User \cup {None}, w : Workspace \cup {None},
      v : User \cup {None}, ask : Role \cup {None}, seen : Role \cup {None},
      rows : SUBSET Row, doomed : SUBSET Workspace, todo : SUBSET Workspace ]

NewRequest(pc, u, w, v, ask) ==
    [ pc |-> pc, u |-> u, w |-> w, v |-> v, ask |-> ask, seen |-> None,
      rows |-> {}, doomed |-> {}, todo |-> {} ]

Idle == NewRequest("idle", None, None, None, None)

\* The arguments each handler takes are there as long as it runs.
NamesWorkspace == Pc \ {"idle", "create", "leave_owned", "leave_count",
                        "leave_rest", "leave_commit"}
NamesUser == {"transfer_lock", "transfer_target", "transfer_commit",
              "role_check", "role_read", "role_commit",
              "remove_check", "remove_read", "remove_commit"}
AsksRole == {"join_check", "join_commit", "role_check", "role_read", "role_commit"}

HasArguments(q) ==
    /\ q.pc # "idle" => q.u \in User
    /\ q.pc \in NamesWorkspace => q.w \in Workspace
    /\ q.pc \in NamesUser => q.v \in User
    /\ q.pc \in AsksRole => q.ask \in GrantedRole

TypeOK ==
    /\ role \in [Workspace -> [User -> Role \cup {None}]]
    /\ live \subseteq used
    /\ used \subseteq Workspace
    /\ deleted \subseteq User
    /\ req \in [Request -> RequestState]
    /\ \A r \in Request : HasArguments(req[r])

Init ==
    /\ role = [w \in Workspace |-> [u \in User |-> None]]
    /\ live = {}
    /\ used = {}
    /\ deleted = {}
    /\ req = [r \in Request |-> Idle]

-----------------------------------------------------------------------------
(* The session and the database.                                           *)

Members(w) == {u \in User : role[w][u] # None}
Owners(w)  == {u \in User : role[w][u] = "owner"}

\* The row a transfer holds FOR UPDATE: its caller's own membership, from the
\* locking SELECT to the commit or rollback.
HoldsLock(r, w, u) ==
    /\ req[r].pc \in {"transfer_target", "transfer_commit"}
    /\ req[r].w = w
    /\ req[r].u = u

MutantNeverLocked(r, w, u) == FALSE
LockedByOther(r, w, u) == \E s \in Request \ {r} : HoldsLock(s, w, u)

Goto(r, pc) == req' = [req EXCEPT ![r] = [@ EXCEPT !.pc = pc]]
Finish(r)   == req' = [req EXCEPT ![r] = Idle]

\* Deleting rows: a session addresses a row it loaded by primary key, so once
\* the row is gone no later row for the same pair is the one it loaded.
Forget(reqs, gone) ==
    [s \in Request |->
        [reqs[s] EXCEPT !.rows = @ \ gone,
                        !.seen = IF <<reqs[s].w, reqs[s].v>> \in gone
                                 THEN None ELSE @]]

\* A foreign key would be left behind: a workspace about to be deleted still
\* has a membership that its cascade did not load.
MutantDangling(r) == FALSE
Dangling(r) ==
    \E w \in req[r].doomed : \E u \in Members(w) : <<w, u>> \notin req[r].rows

\* The flush and commit of a request that only deletes.  It waits for row
\* locks, fails as a whole on a foreign key, and skips rows already gone.
CommitDeletes(r) ==
    /\ \A w \in Workspace, u \in User :
          <<w, u>> \in req[r].rows => ~LockedByOther(r, w, u)
    /\ IF Dangling(r)
       THEN Finish(r) /\ UNCHANGED <<role, live>>
       ELSE /\ role' = [w \in Workspace |-> [u \in User |->
                           IF <<w, u>> \in req[r].rows THEN None ELSE role[w][u]]]
            /\ live' = live \ req[r].doomed
            /\ req' = Forget([req EXCEPT ![r] = Idle], req[r].rows)

\* require_workspace_owner, unlocked: go on as the owner or answer 403 / 404;
\* an owner naming themselves is answered 400.
RequireOwner(r, next) ==
    /\ IF role[req[r].w][req[r].u] = "owner" /\ req[r].v # req[r].u
       THEN Goto(r, next)
       ELSE Finish(r)
    /\ UNCHANGED <<role, live, used, deleted>>

\* The row of the user a request names; 404 when there is none.
ReadTarget(r, next) ==
    LET seen == role[req[r].w][req[r].v] IN
    /\ IF seen = None
       THEN Finish(r)
       ELSE req' = [req EXCEPT ![r] = [@ EXCEPT !.pc = next, !.seen = seen,
                                          !.rows = {<<req[r].w, req[r].v>>}]]
    /\ UNCHANGED <<role, live, used, deleted>>

-----------------------------------------------------------------------------
(* A request arrives.  Its bearer token is checked once, here: an account  *)
(* deleted later does not stop it.                                         *)

Receive(r) ==
    /\ req[r].pc = "idle"
    /\ \E u \in User \ deleted :
          \/ req' = [req EXCEPT ![r] = NewRequest("create", u, None, None, None)]
          \/ req' = [req EXCEPT ![r] = NewRequest("leave_owned", u, None, None, None)]
          \/ \E w \in live :
                \/ req' = [req EXCEPT ![r] = NewRequest("drop_check", u, w, None, None)]
                \/ \E g \in GrantedRole :
                      req' = [req EXCEPT ![r] = NewRequest("join_check", u, w, None, g)]
                \/ \E v \in User :
                      \/ req' = [req EXCEPT ![r] = NewRequest("transfer_lock", u, w, v, None)]
                      \/ req' = [req EXCEPT ![r] = NewRequest("remove_check", u, w, v, None)]
                      \/ \E g \in GrantedRole :
                            req' = [req EXCEPT ![r] = NewRequest("role_check", u, w, v, g)]
    /\ UNCHANGED <<role, live, used, deleted>>

\* The worker dies, the database refuses a statement (a deadlock victim, a
\* foreign key from a table not modelled here): the session is rolled back.
Abort(r) ==
    /\ req[r].pc # "idle"
    /\ Finish(r)
    /\ UNCHANGED <<role, live, used, deleted>>

-----------------------------------------------------------------------------
(* create_workspace: the workspace and its owner row in one commit.        *)

MutantCreateCommit(r) ==
    /\ req[r].pc = "create"
    /\ \E w \in Workspace \ used :
          /\ role' = [role EXCEPT ![w][req[r].u] = "owner"]
          /\ live' = live \cup {w}
    /\ Finish(r)
    /\ UNCHANGED <<used, deleted>>

CreateCommit(r) ==
    /\ req[r].pc = "create"
    /\ \E w \in Workspace \ used :
          /\ role' = [role EXCEPT ![w][req[r].u] = "owner"]
          /\ live' = live \cup {w}
          /\ used' = used \cup {w}
    /\ Finish(r)
    /\ UNCHANGED deleted

(* accept_invite, given a valid invite for this user and role (the life of *)
(* the invite itself is module Invites).                                   *)

JoinCheck(r) ==
    /\ req[r].pc = "join_check"
    /\ IF req[r].w \in live /\ role[req[r].w][req[r].u] = None
       THEN Goto(r, "join_commit")
       ELSE Finish(r)
    /\ UNCHANGED <<role, live, used, deleted>>

\* The INSERT: uq_workspace_membership and the foreign key on workspaces
\* decide; a violated constraint is answered with an error.
JoinCommit(r) ==
    /\ req[r].pc = "join_commit"
    /\ role' = IF req[r].w \in live /\ role[req[r].w][req[r].u] = None
               THEN [role EXCEPT ![req[r].w][req[r].u] = req[r].ask]
               ELSE role
    /\ Finish(r)
    /\ UNCHANGED <<live, used, deleted>>

-----------------------------------------------------------------------------
(* transfer_ownership: SELECT ... FOR UPDATE on the caller's own row, then *)
(* the role check on the locked row, then the target.                      *)

TransferLock(r) ==
    /\ req[r].pc = "transfer_lock"
    /\ ~LockedByOther(r, req[r].w, req[r].u)
    /\ IF role[req[r].w][req[r].u] = "owner" /\ req[r].v # req[r].u
       THEN Goto(r, "transfer_target")
       ELSE Finish(r)
    /\ UNCHANGED <<role, live, used, deleted>>

TransferTarget(r) ==
    /\ req[r].pc = "transfer_target"
    /\ ReadTarget(r, "transfer_commit")

\* Two UPDATEs by primary key; the second matches no row if the target has
\* been removed since it was read, and then both are rolled back.
MutantKeepsOldOwner(r) == [role EXCEPT ![req[r].w][req[r].v] = "owner"]

TransferredRoles(r) ==
    [role EXCEPT ![req[r].w][req[r].u] = "member", ![req[r].w][req[r].v] = "owner"]

MutantTransferCommit(r) ==
    /\ req[r].pc = "transfer_commit"
    /\ ~LockedByOther(r, req[r].w, req[r].v)
    /\ role' = IF req[r].seen = None
               THEN [role EXCEPT ![req[r].w][req[r].u] = "member"]
               ELSE TransferredRoles(r)
    /\ Finish(r)
    /\ UNCHANGED <<live, used, deleted>>

TransferCommit(r) ==
    /\ req[r].pc = "transfer_commit"
    /\ ~LockedByOther(r, req[r].w, req[r].v)
    /\ role' = IF req[r].seen = None THEN role ELSE TransferredRoles(r)
    /\ Finish(r)
    /\ UNCHANGED <<live, used, deleted>>

-----------------------------------------------------------------------------
(* update_member_role and remove_member: nothing is locked.                *)

RoleCheck(r) ==
    /\ req[r].pc = "role_check"
    /\ RequireOwner(r, "role_read")

RoleRead(r) ==
    /\ req[r].pc = "role_read"
    /\ ReadTarget(r, "role_commit")

\* No UPDATE is sent when the role read is already the role asked for, and an
\* UPDATE that matches no row is rolled back.
MutantRoleCommit(r) ==
    /\ req[r].pc = "role_commit"
    /\ role' = [role EXCEPT ![req[r].w][req[r].v] = req[r].ask]
    /\ Finish(r)
    /\ UNCHANGED <<live, used, deleted>>

RoleCommit(r) ==
    /\ req[r].pc = "role_commit"
    /\ IF req[r].seen \in {None, req[r].ask}
       THEN UNCHANGED role
       ELSE /\ ~LockedByOther(r, req[r].w, req[r].v)
            /\ role' = [role EXCEPT ![req[r].w][req[r].v] = req[r].ask]
    /\ Finish(r)
    /\ UNCHANGED <<live, used, deleted>>

RemoveCheck(r) ==
    /\ req[r].pc = "remove_check"
    /\ RequireOwner(r, "remove_read")

RemoveRead(r) ==
    /\ req[r].pc = "remove_read"
    /\ ReadTarget(r, "remove_commit")

RemoveCommit(r) ==
    /\ req[r].pc = "remove_commit"
    /\ CommitDeletes(r)
    /\ UNCHANGED <<used, deleted>>

-----------------------------------------------------------------------------
(* delete_workspace: the cascade is whatever the relationship collections  *)
(* held when db.delete loaded them.                                        *)

DropCheck(r) ==
    /\ req[r].pc = "drop_check"
    /\ RequireOwner(r, "drop_load")

MemberRows(w) == {<<w, u>> : u \in Members(w)}

DropLoad(r) ==
    /\ req[r].pc = "drop_load"
    /\ req' = [req EXCEPT ![r] = [@ EXCEPT !.pc = "drop_commit",
                                          !.doomed = {req[r].w},
                                          !.rows = MemberRows(req[r].w)]]
    /\ UNCHANGED <<role, live, used, deleted>>

DropCommit(r) ==
    /\ req[r].pc = "drop_commit"
    /\ CommitDeletes(r)
    /\ UNCHANGED <<used, deleted>>

-----------------------------------------------------------------------------
(* delete_account: list the owned workspaces, count the other members of   *)
(* each, cascade those with none, then drop every remaining membership.    *)

LeaveOwned(r) ==
    /\ req[r].pc = "leave_owned"
    /\ req' = [req EXCEPT ![r] =
                 [@ EXCEPT !.pc = "leave_count",
                           !.todo = {w \in Workspace : role[w][req[r].u] = "owner"}]]
    /\ UNCHANGED <<role, live, used, deleted>>

\* One count per owned workspace; another member anywhere ends in a 409, and
\* a workspace deleted in the meantime in a 500.
LeaveCount(r) ==
    /\ req[r].pc = "leave_count"
    /\ \E w \in req[r].todo :
          IF w \in live /\ Members(w) \subseteq {req[r].u}
          THEN req' = [req EXCEPT ![r] = [@ EXCEPT !.todo = req[r].todo \ {w},
                                                   !.doomed = req[r].doomed \cup {w}]]
          ELSE Finish(r)
    /\ UNCHANGED <<role, live, used, deleted>>

\* The cascades load.  A member who joins between two of these loads makes
\* the flush fail whichever load came first, so they are one step.
LeaveCascade(r) ==
    /\ req[r].pc = "leave_count"
    /\ req[r].todo = {}
    /\ req' = [req EXCEPT ![r] =
                 [@ EXCEPT !.pc = "leave_rest",
                           !.rows = UNION {MemberRows(w) : w \in req[r].doomed}]]
    /\ UNCHANGED <<role, live, used, deleted>>

MembershipsOf(u) == {<<w, u>> : w \in {x \in Workspace : role[x][u] # None}}

LeaveRest(r) ==
    /\ req[r].pc = "leave_rest"
    /\ req' = [req EXCEPT ![r] =
                 [@ EXCEPT !.pc = "leave_commit",
                           !.rows = req[r].rows \cup MembershipsOf(req[r].u)]]
    /\ UNCHANGED <<role, live, used, deleted>>

LeaveCommit(r) ==
    /\ req[r].pc = "leave_commit"
    /\ CommitDeletes(r)
    /\ deleted' = IF Dangling(r) THEN deleted ELSE deleted \cup {req[r].u}
    /\ UNCHANGED used

-----------------------------------------------------------------------------

Step(r) ==
    \/ Receive(r) \/ Abort(r)
    \/ CreateCommit(r)
    \/ JoinCheck(r) \/ JoinCommit(r)
    \/ TransferLock(r) \/ TransferTarget(r) \/ TransferCommit(r)
    \/ RoleCheck(r) \/ RoleRead(r) \/ RoleCommit(r)
    \/ RemoveCheck(r) \/ RemoveRead(r) \/ RemoveCommit(r)
    \/ DropCheck(r) \/ DropLoad(r) \/ DropCommit(r)
    \/ LeaveOwned(r) \/ LeaveCount(r) \/ LeaveCascade(r) \/ LeaveRest(r)
    \/ LeaveCommit(r)

Next == \E r \in Request : Step(r)

Spec == Init /\ [][Next]_vars

-----------------------------------------------------------------------------
(* Properties.                                                             *)

\* "Never with two": whatever transfers, role changes, removals and deletions
\* overlap, no workspace has two owner rows (transfer_ownership's row lock).
AtMostOneOwner ==
    \A w \in Workspace : \A u, v \in User :
        role[w][u] = "owner" /\ role[w][v] = "owner" => u = v

\* Somebody becomes the owner of a workspace in two ways only: by creating
\* it, or in the very commit in which the previous owner becomes a member.
OwnershipMovesByHandover ==
    [][\A w \in used : \A v \in User :
          role[w][v] # "owner" /\ role'[w][v] = "owner"
             => \E u \in User : role[w][u] = "owner" /\ role'[w][u] = "member"
      ]_vars

\* A transfer is all or nothing: a commit of transfer_ownership never takes
\* the owner away without putting another in place, even when the target was
\* removed after it was read.
TransferNeverStrands ==
    [][\A r \in Request, w \in Workspace :
          /\ req[r].pc = "transfer_commit"
          /\ req'[r].pc = "idle"
          /\ Owners(w) # {}
          => Owners(w)' # {}
      ]_vars

\* Joining is consent-based: a user gets a membership only out of a request
\* of their own, so a stale role change or transfer cannot bring back someone
\* who was removed in the meantime.
JoiningIsConsensual ==
    [][\A w \in Workspace, u \in User :
          role[w][u] = None /\ role'[w][u] # None
             => \E r \in Request : /\ req[r].u = u
                                   /\ req[r].pc \in {"create", "join_commit"}
                                   /\ req'[r].pc = "idle"
      ]_vars

\* A workspace that is gone has no members, whatever joined it while it was
\* being deleted: the late join and the deletion cannot both succeed.
MembersOnlyInLiveWorkspaces ==
    \A w \in Workspace : Members(w) # {} => w \in live

\* What makes AtMostOneOwner hold, besides types: between its locking SELECT
\* and its commit a transfer's caller really is the owner,
LockedRowIsOwner ==
    \A r \in Request : \A w \in Workspace : \A u \in User :
        HoldsLock(r, w, u) => role[w][u] = "owner" /\ req[r].v # u

\* two requests never hold the same row,
LocksExclusive ==
    \A r, s \in Request : \A w \in Workspace : \A u \in User :
        HoldsLock(r, w, u) /\ HoldsLock(s, w, u) => r = s

\* and a row a session still takes for present is present: a deletion by
\* another session is seen no later than the UPDATE that would miss it.
SeenRowExists ==
    \A r \in Request :
        req[r].seen # None =>
            /\ req[r].w \in Workspace
            /\ req[r].v \in User
            /\ role[req[r].w][req[r].v] # None

Inv ==
    /\ TypeOK
    /\ AtMostOneOwner
    /\ MembersOnlyInLiveWorkspaces
    /\ LockedRowIsOwner
    /\ LocksExclusive
    /\ SeenRowExists

\* What update_member_role's and remove_member's docstrings rely on: neither
\* ever leaves a workspace without an owner, since neither applies to the
\* owner (and so transfer_ownership alone needs a lock).
RoleChangeNeverStrands ==
    [][\A r \in Request, w \in Workspace :
          /\ req[r].pc \in {"role_commit", "remove_commit"}
          /\ req'[r].pc = "idle"
          /\ Owners(w) # {}
          => Owners(w)' # {}
      ]_vars

\* What delete_account's docstring promises: deleting an account takes no
\* workspace away from anybody else.
NothingSharedIsLost ==
    [][\A r \in Request, w \in Workspace :
          /\ req[r].pc = "leave_commit"
          /\ w \in live /\ w \notin live'
          /\ req'[r].pc = "idle"
          => Members(w) \subseteq {req[r].u}
      ]_vars

=============================================================================
