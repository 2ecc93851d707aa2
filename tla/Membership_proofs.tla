-------------------------- MODULE Membership_proofs --------------------------
(***************************************************************************)
(* Proofs about module Membership, for any number of users, workspaces and *)
(* concurrent requests.                                                    *)
(***************************************************************************)
EXTENDS Membership, TLAPS

-----------------------------------------------------------------------------
(* Type correctness.                                                       *)

\* Forgetting deleted rows changes neither what a request is doing nor its
\* arguments.
LEMMA ForgetKeepsControl ==
    ASSUME NEW reqs \in [Request -> RequestState], NEW gone, NEW s \in Request
    PROVE  LET f == Forget(reqs, gone) IN
           /\ f \in [Request -> RequestState]
           /\ f[s].pc = reqs[s].pc
           /\ f[s].u = reqs[s].u
           /\ f[s].w = reqs[s].w
           /\ f[s].v = reqs[s].v
           /\ f[s].ask = reqs[s].ask
  BY DEF Forget, RequestState

\* A thread that finishes is idle, and idle is a request state.
LEMMA IdleType == Idle \in RequestState /\ HasArguments(Idle)
  BY DEF Idle, NewRequest, RequestState, HasArguments, Pc, NamesWorkspace,
         NamesUser, AsksRole

\* The empty database, with every thread idle, is well formed.
LEMMA InitType == Init => TypeOK
  BY IdleType DEF Init, TypeOK

\* A request in a well-formed state that touches no table.
LEMMA StepType ==
    ASSUME NEW r \in Request, TypeOK, NEW q \in RequestState, HasArguments(q),
           req' = [req EXCEPT ![r] = q],
           UNCHANGED <<role, live, used, deleted>>
    PROVE  TypeOK'
  BY DEF TypeOK

\* A request that has just arrived is well formed.
LEMMA NewRequestType ==
    ASSUME NEW pc \in Pc, NEW u \in User, NEW w \in Workspace \cup {None},
           NEW v \in User \cup {None}, NEW g \in GrantedRole \cup {None},
           pc \in NamesWorkspace => w \in Workspace,
           pc \in NamesUser => v \in User,
           pc \in AsksRole => g \in GrantedRole
    PROVE  /\ NewRequest(pc, u, w, v, g) \in RequestState
           /\ HasArguments(NewRequest(pc, u, w, v, g))
  BY DEF NewRequest, RequestState, Role, HasArguments

\* Every request a client can send arrives well formed.
LEMMA ReceiveType ==
    ASSUME NEW r \in Request, TypeOK, Receive(r)
    PROVE  TypeOK'
  <1> DEFINE Sent(q) == req' = [req EXCEPT ![r] = q]
  <1>1. UNCHANGED <<role, live, used, deleted>>
    BY DEF Receive
  <1>2. live \subseteq Workspace
    BY DEF TypeOK
  <1>3. SUFFICES ASSUME NEW q \in RequestState, HasArguments(q), Sent(q)
                 PROVE  TypeOK'
    <2> HIDE DEF Sent
    <2> USE DEF Pc, NamesWorkspace, NamesUser, AsksRole
    <2>1. ASSUME NEW u \in User, NEW pc \in {"create", "leave_owned"},
                 Sent(NewRequest(pc, u, None, None, None))
          PROVE  TypeOK'
      BY <1>3, <2>1, NewRequestType
    <2>2. ASSUME NEW u \in User, NEW w \in Workspace,
                 Sent(NewRequest("drop_check", u, w, None, None))
          PROVE  TypeOK'
      BY <1>3, <2>2, NewRequestType
    <2>3. ASSUME NEW u \in User, NEW w \in Workspace, NEW g \in GrantedRole,
                 Sent(NewRequest("join_check", u, w, None, g))
          PROVE  TypeOK'
      BY <1>3, <2>3, NewRequestType
    <2>4. ASSUME NEW u \in User, NEW w \in Workspace, NEW v \in User,
                 NEW pc \in {"transfer_lock", "remove_check"},
                 Sent(NewRequest(pc, u, w, v, None))
          PROVE  TypeOK'
      BY <1>3, <2>4, NewRequestType
    <2>5. ASSUME NEW u \in User, NEW w \in Workspace, NEW v \in User,
                 NEW g \in GrantedRole, Sent(NewRequest("role_check", u, w, v, g))
          PROVE  TypeOK'
      BY <1>3, <2>5, NewRequestType
    <2> QED
      BY <1>2, <2>1, <2>2, <2>3, <2>4, <2>5 DEF Receive, Sent
  <1> QED
    BY <1>1, <1>3, StepType

\* Answering a request leaves every request well formed.
LEMMA FinishType ==
    ASSUME NEW r \in Request, TypeOK, Finish(r)
    PROVE  /\ req' \in [Request -> RequestState]
           /\ \A s \in Request : HasArguments(req'[s])
  BY IdleType DEF Finish, TypeOK

\* A deletion, refused or carried out, leaves tables and requests well formed.
LEMMA CommitDeletesType ==
    ASSUME NEW r \in Request, TypeOK, CommitDeletes(r)
    PROVE  /\ role' \in [Workspace -> [User -> Role \cup {None}]]
           /\ live' \subseteq used
           /\ req' \in [Request -> RequestState]
           /\ \A s \in Request : HasArguments(req'[s])
  <1>1. CASE Dangling(r)
    BY <1>1, FinishType DEF CommitDeletes, TypeOK
  <1>2. CASE ~Dangling(r)
    <2> DEFINE base == [req EXCEPT ![r] = Idle]
    <2>1. /\ base \in [Request -> RequestState]
          /\ \A s \in Request : HasArguments(base[s])
      BY IdleType DEF TypeOK
    <2>2. /\ req' = Forget(base, req[r].rows)
          /\ role' = [w \in Workspace |-> [u \in User |->
                       IF <<w, u>> \in req[r].rows THEN None ELSE role[w][u]]]
          /\ live' = live \ req[r].doomed
      BY <1>2 DEF CommitDeletes
    <2>3. /\ req' \in [Request -> RequestState]
          /\ \A s \in Request : HasArguments(req'[s])
      <3> HIDE DEF base
      <3>1. Forget(base, req[r].rows) \in [Request -> RequestState]
        BY <2>1 DEF Forget, RequestState
      <3>2. ASSUME NEW s \in Request
            PROVE  HasArguments(req'[s])
        <4>1. HasArguments(base[s])
          BY <2>1
        <4> QED
          BY <2>1, <2>2, <4>1, ForgetKeepsControl DEF HasArguments
      <3> QED
        BY <2>2, <3>1, <3>2
    <2> QED
      BY <2>2, <2>3 DEF TypeOK
  <1> QED
    BY <1>1, <1>2

\* Reading the row of the user a request names keeps the request well formed.
LEMMA ReadTargetType ==
    ASSUME NEW r \in Request, TypeOK, NEW next \in NamesUser,
           req[r].pc \in NamesUser, next \in AsksRole => req[r].pc \in AsksRole,
           ReadTarget(r, next)
    PROVE  TypeOK'
  <1> DEFINE row  == <<req[r].w, req[r].v>>
             seen == role[req[r].w][req[r].v]
             q == [req[r] EXCEPT !.pc = next, !.seen = seen, !.rows = {row}]
  <1>1. req[r] \in RequestState /\ HasArguments(req[r])
    BY DEF TypeOK
  <1>2. next \in Pc /\ next \in NamesWorkspace /\ next # "idle"
    BY DEF NamesUser, NamesWorkspace, Pc
  <1>3. /\ req[r].w \in Workspace
        /\ req[r].v \in User
        /\ req[r].u \in User
    BY <1>1 DEF HasArguments, NamesUser, NamesWorkspace, Pc
  <1>4. seen \in Role \cup {None} /\ {row} \in SUBSET Row
    BY <1>3 DEF TypeOK, Row
  <1>5. q \in RequestState
    BY <1>1, <1>2, <1>4 DEF RequestState
  <1>6. HasArguments(q)
    BY <1>1, <1>2, <1>3 DEF HasArguments, RequestState
  <1>7. CASE Finish(r)
    BY <1>7, FinishType DEF ReadTarget, TypeOK
  <1>8. CASE req' = [req EXCEPT ![r] = q]
    <2> HIDE DEF q
    <2> QED
      BY <1>5, <1>6, <1>8, StepType DEF ReadTarget
  <1> QED
    BY <1>7, <1>8 DEF ReadTarget

\* Moving to the next step of the same handler.
LEMMA GotoType ==
    ASSUME NEW r \in Request, TypeOK, NEW next \in Pc, req[r].pc # "idle",
           next \in NamesWorkspace => req[r].pc \in NamesWorkspace,
           next \in NamesUser => req[r].pc \in NamesUser,
           next \in AsksRole => req[r].pc \in AsksRole,
           Goto(r, next), UNCHANGED <<role, live, used, deleted>>
    PROVE  TypeOK'
  <1> DEFINE q == [req[r] EXCEPT !.pc = next]
  <1>1. q \in RequestState
    BY DEF TypeOK, RequestState
  <1>2. HasArguments(q)
    BY DEF TypeOK, HasArguments, RequestState
  <1> HIDE DEF q
  <1> QED
    BY <1>1, <1>2, StepType DEF Goto, q

\* The first check of a handler: on to its next step, or an error answer.
LEMMA CheckType ==
    ASSUME NEW r \in Request, TypeOK, NEW next \in Pc, req[r].pc # "idle",
           next \in NamesWorkspace => req[r].pc \in NamesWorkspace,
           next \in NamesUser => req[r].pc \in NamesUser,
           next \in AsksRole => req[r].pc \in AsksRole,
           Goto(r, next) \/ Finish(r), UNCHANGED <<role, live, used, deleted>>
    PROVE  TypeOK'
  <1>1. CASE Goto(r, next)
    BY <1>1, GotoType
  <1>2. CASE Finish(r)
    BY <1>2, FinishType DEF TypeOK
  <1> QED
    BY <1>1, <1>2

\* A rollback touches no table.
LEMMA AbortType ==
    ASSUME NEW r \in Request, TypeOK, Abort(r)
    PROVE  TypeOK'
  BY FinishType DEF Abort, TypeOK

\* A new workspace gets a fresh id and an owner row.
LEMMA CreateCommitType ==
    ASSUME NEW r \in Request, TypeOK, CreateCommit(r)
    PROVE  TypeOK'
  <1>1. req[r].u \in User
    BY DEF CreateCommit, TypeOK, HasArguments
  <1> QED
    BY <1>1, FinishType DEF CreateCommit, TypeOK, Role

\* An accepted invite adds a row with the role it carried, or nothing.
LEMMA JoinCommitType ==
    ASSUME NEW r \in Request, TypeOK, JoinCommit(r)
    PROVE  TypeOK'
  <1>1. req[r].u \in User /\ req[r].w \in Workspace /\ req[r].ask \in Role
    BY DEF JoinCommit, TypeOK, HasArguments, NamesWorkspace, AsksRole, Pc, Role
  <1> QED
    BY <1>1, FinishType DEF JoinCommit, TypeOK

\* A transfer writes two roles, or nothing.
LEMMA TransferCommitType ==
    ASSUME NEW r \in Request, TypeOK, TransferCommit(r)
    PROVE  TypeOK'
  <1>1. req[r].u \in User /\ req[r].v \in User /\ req[r].w \in Workspace
    BY DEF TransferCommit, TypeOK, HasArguments, NamesWorkspace, NamesUser, Pc
  <1>2. TransferredRoles(r) \in [Workspace -> [User -> Role \cup {None}]]
    BY <1>1 DEF TransferredRoles, TypeOK, Role, GrantedRole
  <1> QED
    BY <1>2, FinishType DEF TransferCommit, TypeOK

\* A role change writes the role asked for, or nothing.
LEMMA RoleCommitType ==
    ASSUME NEW r \in Request, TypeOK, RoleCommit(r)
    PROVE  TypeOK'
  <1>1. req[r].v \in User /\ req[r].w \in Workspace /\ req[r].ask \in Role
    BY DEF RoleCommit, TypeOK, HasArguments, NamesWorkspace, NamesUser, AsksRole, Pc, Role
  <1> QED
    BY <1>1, FinishType DEF RoleCommit, TypeOK

\* Removing a member is a deletion.
LEMMA RemoveCommitType ==
    ASSUME NEW r \in Request, TypeOK, RemoveCommit(r)
    PROVE  TypeOK'
  BY CommitDeletesType DEF RemoveCommit, TypeOK

\* Deleting a workspace is a deletion.
LEMMA DropCommitType ==
    ASSUME NEW r \in Request, TypeOK, DropCommit(r)
    PROVE  TypeOK'
  BY CommitDeletesType DEF DropCommit, TypeOK

\* Deleting an account is a deletion, and marks an account that exists.
LEMMA LeaveCommitType ==
    ASSUME NEW r \in Request, TypeOK, LeaveCommit(r)
    PROVE  TypeOK'
  <1>1. req[r].u \in User
    BY DEF LeaveCommit, TypeOK, HasArguments
  <1> QED
    BY <1>1, CommitDeletesType DEF LeaveCommit, TypeOK

\* The rows a workspace deletion loads are rows of the table.
LEMMA DropLoadType ==
    ASSUME NEW r \in Request, TypeOK, DropLoad(r)
    PROVE  TypeOK'
  <1> DEFINE q == [req[r] EXCEPT !.pc = "drop_commit", !.doomed = {req[r].w},
                                 !.rows = MemberRows(req[r].w)]
  <1> USE DEF Pc, NamesWorkspace, NamesUser, AsksRole
  <1>1. req[r] \in RequestState /\ HasArguments(req[r])
    BY DEF TypeOK
  <1>2. req[r].w \in Workspace /\ MemberRows(req[r].w) \in SUBSET Row
    BY <1>1 DEF DropLoad, HasArguments, MemberRows, Members, Row
  <1>3. q \in RequestState
    BY <1>1, <1>2 DEF DropLoad, RequestState
  <1>4. HasArguments(q)
    BY <1>1 DEF DropLoad, HasArguments, RequestState
  <1> HIDE DEF q
  <1> QED
    BY <1>3, <1>4, StepType DEF DropLoad, q

\* An account deletion lists workspaces.
LEMMA LeaveOwnedType ==
    ASSUME NEW r \in Request, TypeOK, LeaveOwned(r)
    PROVE  TypeOK'
  <1> DEFINE q == [req[r] EXCEPT !.pc = "leave_count",
                       !.todo = {w \in Workspace : role[w][req[r].u] = "owner"}]
  <1> USE DEF Pc, NamesWorkspace, NamesUser, AsksRole
  <1>1. req[r] \in RequestState /\ HasArguments(req[r])
    BY DEF TypeOK
  <1>2. {w \in Workspace : role[w][req[r].u] = "owner"} \in SUBSET Workspace
    OBVIOUS
  <1>3. q \in RequestState
    BY <1>1, <1>2 DEF LeaveOwned, RequestState
  <1>4. HasArguments(q)
    BY <1>1 DEF LeaveOwned, HasArguments, RequestState
  <1> HIDE DEF q
  <1> QED
    BY <1>3, <1>4, StepType DEF LeaveOwned, q

\* The cascades of an account deletion load rows of the table.
LEMMA LeaveCascadeType ==
    ASSUME NEW r \in Request, TypeOK, LeaveCascade(r)
    PROVE  TypeOK'
  <1> DEFINE q == [req[r] EXCEPT !.pc = "leave_rest",
                       !.rows = UNION {MemberRows(w) : w \in req[r].doomed}]
  <1> USE DEF Pc, NamesWorkspace, NamesUser, AsksRole
  <1>1. req[r] \in RequestState /\ HasArguments(req[r])
    BY DEF TypeOK
  <1>2. UNION {MemberRows(w) : w \in req[r].doomed} \in SUBSET Row
    BY <1>1 DEF RequestState, MemberRows, Members, Row
  <1>3. q \in RequestState
    BY <1>1, <1>2 DEF LeaveCascade, RequestState
  <1>4. HasArguments(q)
    BY <1>1 DEF LeaveCascade, HasArguments, RequestState
  <1> HIDE DEF q
  <1> QED
    BY <1>3, <1>4, StepType DEF LeaveCascade, q

\* So does its last query.
LEMMA LeaveRestType ==
    ASSUME NEW r \in Request, TypeOK, LeaveRest(r)
    PROVE  TypeOK'
  <1> DEFINE q == [req[r] EXCEPT !.pc = "leave_commit",
                                 !.rows = req[r].rows \cup MembershipsOf(req[r].u)]
  <1> USE DEF Pc, NamesWorkspace, NamesUser, AsksRole
  <1>1. req[r] \in RequestState /\ HasArguments(req[r])
    BY DEF TypeOK
  <1>2. req[r].rows \cup MembershipsOf(req[r].u) \in SUBSET Row
    BY <1>1 DEF LeaveRest, HasArguments, RequestState, MembershipsOf, Row
  <1>3. q \in RequestState
    BY <1>1, <1>2 DEF LeaveRest, RequestState
  <1>4. HasArguments(q)
    BY <1>1 DEF LeaveRest, HasArguments, RequestState
  <1> HIDE DEF q
  <1> QED
    BY <1>3, <1>4, StepType DEF LeaveRest, q

\* Counting moves workspaces from one list to the other.
LEMMA LeaveCountType ==
    ASSUME NEW r \in Request, TypeOK, LeaveCount(r)
    PROVE  TypeOK'
  <1>1. PICK w \in req[r].todo :
           \/ req' = [req EXCEPT ![r] = [@ EXCEPT !.todo = req[r].todo \ {w},
                                                  !.doomed = req[r].doomed \cup {w}]]
           \/ Finish(r)
    BY DEF LeaveCount
  <1>2. CASE Finish(r)
    BY <1>2, FinishType DEF LeaveCount, TypeOK
  <1> DEFINE q == [req[r] EXCEPT !.todo = req[r].todo \ {w},
                                 !.doomed = req[r].doomed \cup {w}]
  <1>3. CASE req' = [req EXCEPT ![r] = q]
    <2>1. q \in RequestState
      BY DEF TypeOK, RequestState
    <2>2. HasArguments(q)
      BY DEF TypeOK, HasArguments, RequestState
    <2>3. UNCHANGED <<role, live, used, deleted>>
      BY DEF LeaveCount
    <2> HIDE DEF q
    <2> QED
      BY <1>3, <2>1, <2>2, <2>3, StepType
  <1> QED
    BY <1>1, <1>2, <1>3

\* Any step of any request keeps everything well formed.
LEMMA StepKeepsType ==
    ASSUME NEW r \in Request, TypeOK, Step(r)
    PROVE  TypeOK'
  <1> USE DEF Pc, NamesWorkspace, NamesUser, AsksRole
  <1>1. CASE JoinCheck(r)
    BY <1>1, CheckType DEF JoinCheck
  <1>2. CASE TransferLock(r)
    BY <1>2, CheckType DEF TransferLock
  <1>3. CASE RoleCheck(r)
    BY <1>3, CheckType DEF RoleCheck, RequireOwner
  <1>4. CASE RemoveCheck(r)
    BY <1>4, CheckType DEF RemoveCheck, RequireOwner
  <1>5. CASE DropCheck(r)
    BY <1>5, CheckType DEF DropCheck, RequireOwner
  <1>6. CASE TransferTarget(r) \/ RoleRead(r) \/ RemoveRead(r)
    BY <1>6, ReadTargetType DEF TransferTarget, RoleRead, RemoveRead
  <1>7. CASE Receive(r) \/ Abort(r)
    BY <1>7, ReceiveType, AbortType
  <1>8. CASE CreateCommit(r) \/ JoinCommit(r) \/ TransferCommit(r) \/ RoleCommit(r)
    BY <1>8, CreateCommitType, JoinCommitType, TransferCommitType, RoleCommitType
  <1>9. CASE RemoveCommit(r) \/ DropLoad(r) \/ DropCommit(r)
    BY <1>9, RemoveCommitType, DropLoadType, DropCommitType
  <1>10. CASE LeaveOwned(r) \/ LeaveCount(r) \/ LeaveCascade(r) \/ LeaveRest(r) \/ LeaveCommit(r)
    BY <1>10, LeaveOwnedType, LeaveCountType, LeaveCascadeType, LeaveRestType,
       LeaveCommitType
  <1> QED
    BY <1>1, <1>2, <1>3, <1>4, <1>5, <1>6, <1>7, <1>8, <1>9, <1>10
       DEF Step

\* The tables and every request in flight stay well formed: in particular a
\* workspace with a row has an id that was handed out.
THEOREM TypeCorrect == Spec => []TypeOK
  <1>1. Init => TypeOK
    BY InitType
  <1>2. TypeOK /\ [Next]_vars => TypeOK'
    <2>1. TypeOK /\ UNCHANGED vars => TypeOK'
      BY DEF TypeOK, vars
    <2> QED
      BY <2>1, StepKeepsType DEF Next
  <1> QED
    BY <1>1, <1>2, PTL DEF Spec

-----------------------------------------------------------------------------
(* At most one owner.                                                      *)

\* Nobody owns, belongs to or locks anything at the start.
LEMMA InitInv == Init => Inv
  <1> SUFFICES ASSUME Init PROVE Inv
    OBVIOUS
  <1>1. TypeOK
    BY InitType
  <1>2. AtMostOneOwner /\ MembersOnlyInLiveWorkspaces
    BY NoneAssumption DEF Init, AtMostOneOwner, MembersOnlyInLiveWorkspaces, Members, Role
  <1>3. \A r \in Request : req[r].pc = "idle" /\ req[r].seen = None
    BY DEF Init, Idle, NewRequest
  <1>4. LockedRowIsOwner /\ LocksExclusive /\ SeenRowExists
    BY <1>3 DEF LockedRowIsOwner, LocksExclusive, SeenRowExists, HoldsLock
  <1> QED
    BY <1>1, <1>2, <1>4 DEF Inv

\* A step of r that writes no membership keeps the invariant, provided it
\* takes a lock only on a free row of the owner, and remembers only a row
\* that is there.
LEMMA QuietStep ==
    ASSUME Inv, TypeOK', NEW r \in Request, UNCHANGED <<role, live>>,
           \A s \in Request \ {r} : req'[s] = req[s],
           \A w \in Workspace, u \in User : HoldsLock(r, w, u)' =>
               role[w][u] = "owner" /\ req'[r].v # u /\ ~LockedByOther(r, w, u),
           req'[r].seen # None =>
               /\ req'[r].w \in Workspace
               /\ req'[r].v \in User
               /\ role[req'[r].w][req'[r].v] # None
    PROVE  Inv'
  <1>1. AtMostOneOwner' /\ MembersOnlyInLiveWorkspaces'
    BY DEF Inv, AtMostOneOwner, MembersOnlyInLiveWorkspaces, Members
  <1>2. \A s \in Request \ {r}, w \in Workspace, u \in User :
            HoldsLock(s, w, u)' <=> HoldsLock(s, w, u)
    BY DEF HoldsLock
  <1>3. LockedRowIsOwner'
    BY <1>2 DEF Inv, LockedRowIsOwner
  <1>4. LocksExclusive'
    BY <1>2 DEF Inv, LocksExclusive, LockedByOther
  <1>5. SeenRowExists'
    BY DEF Inv, SeenRowExists
  <1> QED
    BY <1>1, <1>3, <1>4, <1>5 DEF Inv

\* A step that ends request r, having changed the table in a way that takes
\* no locked row from its owner and no row that another session remembers.
LEMMA FinalStep ==
    ASSUME Inv, TypeOK', NEW r \in Request, Finish(r),
           AtMostOneOwner', MembersOnlyInLiveWorkspaces',
           \A s \in Request \ {r}, w \in Workspace, u \in User :
               HoldsLock(s, w, u) => role'[w][u] = "owner",
           \A w \in Workspace, u \in User : role[w][u] # None => role'[w][u] # None
    PROVE  Inv'
  <1>1. /\ req'[r] = Idle
        /\ \A s \in Request \ {r} : req'[s] = req[s]
    BY DEF Finish, Inv, TypeOK
  <1>2. \A w \in Workspace, u \in User : ~HoldsLock(r, w, u)'
    BY <1>1 DEF HoldsLock, Idle, NewRequest
  <1>3. \A s \in Request \ {r}, w \in Workspace, u \in User :
            HoldsLock(s, w, u)' <=> HoldsLock(s, w, u)
    BY <1>1 DEF HoldsLock
  <1>4. LockedRowIsOwner'
    BY <1>1, <1>2, <1>3 DEF Inv, LockedRowIsOwner
  <1>5. LocksExclusive'
    BY <1>2, <1>3 DEF Inv, LocksExclusive
  <1>6. SeenRowExists'
    <2>1. req'[r].seen = None
      BY <1>1 DEF Idle, NewRequest
    <2> QED
      BY <1>1, <2>1 DEF Inv, SeenRowExists
  <1> QED
    BY <1>4, <1>5, <1>6 DEF Inv

\* A request that ends without writing releases what it held.
LEMMA FinishQuietly ==
    ASSUME Inv, TypeOK', NEW r \in Request, Finish(r), UNCHANGED <<role, live>>
    PROVE  Inv'
  <1>1. /\ req'[r].pc = "idle"
        /\ req'[r].seen = None
        /\ \A s \in Request \ {r} : req'[s] = req[s]
    BY DEF Finish, Inv, TypeOK, Idle, NewRequest
  <1> QED
    BY <1>1, QuietStep DEF HoldsLock

\* The end of a request that deletes.  Its rows may be remembered elsewhere,
\* but not locked elsewhere; a workspace goes only with all of its members.
LEMMA CommitDeletesInv ==
    ASSUME Inv, TypeOK', NEW r \in Request, CommitDeletes(r)
    PROVE  Inv'
  <1>1. CASE Dangling(r)
    BY <1>1, FinishQuietly DEF CommitDeletes
  <1>2. CASE ~Dangling(r)
    <2> DEFINE gone == req[r].rows
               base == [req EXCEPT ![r] = Idle]
    <2>1. /\ req' = Forget(base, gone)
          /\ role' = [w \in Workspace |-> [u \in User |->
                       IF <<w, u>> \in gone THEN None ELSE role[w][u]]]
          /\ live' = live \ req[r].doomed
      BY <1>2 DEF CommitDeletes
    <2>2. base \in [Request -> RequestState]
      BY IdleType DEF Inv, TypeOK
    <2>3. /\ base[r].pc = "idle"
          /\ base[r].seen = None
          /\ \A s \in Request \ {r} : base[s] = req[s]
      BY DEF Inv, TypeOK, Idle, NewRequest
    <2> HIDE DEF base
    <2>4. ASSUME NEW s \in Request
          PROVE  /\ req'[s].pc = base[s].pc
                 /\ req'[s].u = base[s].u
                 /\ req'[s].w = base[s].w
                 /\ req'[s].v = base[s].v
                 /\ req'[s].seen = IF <<base[s].w, base[s].v>> \in gone
                                   THEN None ELSE base[s].seen
      <3> HIDE DEF gone
      <3> QED
        BY <2>1, <2>2 DEF Forget, RequestState
    <2>5. \A s \in Request, w \in Workspace, u \in User :
              HoldsLock(s, w, u)' => s # r /\ HoldsLock(s, w, u)
      BY <2>3, <2>4 DEF HoldsLock
    <2> HIDE DEF gone
    <2>6. \A w \in Workspace, u \in User :
              role'[w][u] = IF <<w, u>> \in gone THEN None ELSE role[w][u]
      BY <2>1
    <2>7. AtMostOneOwner'
      <3>1. None # "owner"
        BY NoneAssumption DEF Role
      <3>2. \A w \in Workspace, u \in User :
                role'[w][u] = "owner" => role[w][u] = "owner"
        BY <2>6, <3>1
      <3> QED
        BY <3>2 DEF Inv, AtMostOneOwner
    <2>8. MembersOnlyInLiveWorkspaces'
      <3> SUFFICES ASSUME NEW w \in Workspace, NEW u \in User, role'[w][u] # None
                   PROVE  w \in live'
        BY DEF MembersOnlyInLiveWorkspaces, Members
      <3>1. role[w][u] # None /\ <<w, u>> \notin gone
        BY <2>6
      <3>2. w \in live
        BY <3>1 DEF Inv, MembersOnlyInLiveWorkspaces, Members
      <3>3. w \notin req[r].doomed
        BY <1>2, <3>1 DEF Dangling, Members, gone
      <3> QED
        BY <2>1, <3>2, <3>3
    <2>9. LockedRowIsOwner'
      <3> SUFFICES ASSUME NEW s \in Request, NEW w \in Workspace, NEW u \in User,
                          HoldsLock(s, w, u)'
                   PROVE  role'[w][u] = "owner" /\ req'[s].v # u
        BY DEF LockedRowIsOwner
      <3>1. s # r /\ HoldsLock(s, w, u)
        BY <2>5
      <3>2. role[w][u] = "owner" /\ req[s].v # u
        BY <3>1 DEF Inv, LockedRowIsOwner
      <3>3. <<w, u>> \notin gone
        BY <3>1 DEF CommitDeletes, LockedByOther, gone
      <3> QED
        BY <2>3, <2>4, <2>6, <3>1, <3>2, <3>3
    <2>10. LocksExclusive'
      BY <2>5 DEF Inv, LocksExclusive
    <2>11. SeenRowExists'
      <3> SUFFICES ASSUME NEW s \in Request, req'[s].seen # None
                   PROVE  /\ req'[s].w \in Workspace
                          /\ req'[s].v \in User
                          /\ role'[req'[s].w][req'[s].v] # None
        BY DEF SeenRowExists
      <3>1. base[s].seen # None /\ <<base[s].w, base[s].v>> \notin gone
        BY <2>4
      <3>2. s # r
        BY <2>3, <3>1
      <3>3. /\ base[s].w \in Workspace
            /\ base[s].v \in User
            /\ role[base[s].w][base[s].v] # None
        BY <2>3, <3>1, <3>2 DEF Inv, SeenRowExists
      <3> QED
        BY <2>4, <2>6, <3>1, <3>3
    <2> QED
      BY <2>7, <2>8, <2>9, <2>10, <2>11 DEF Inv
  <1> QED
    BY <1>1, <1>2

\* A transfer hands the role on, and the owner it demotes is the only one.
LEMMA TransferCommitInv ==
    ASSUME Inv, TypeOK', NEW r \in Request, TransferCommit(r)
    PROVE  Inv'
  <1> DEFINE w0 == req[r].w
             u0 == req[r].u
             v0 == req[r].v
  <1>1. CASE req[r].seen = None
    BY <1>1, FinishQuietly DEF TransferCommit
  <1>2. CASE req[r].seen # None
    <2>1. w0 \in Workspace /\ u0 \in User /\ v0 \in User
      BY DEF TransferCommit, Inv, TypeOK, HasArguments, NamesWorkspace, NamesUser, Pc
    <2>2. HoldsLock(r, w0, u0)
      BY DEF TransferCommit, HoldsLock
    <2>3. role[w0][u0] = "owner" /\ u0 # v0
      BY <2>1, <2>2 DEF Inv, LockedRowIsOwner
    <2>4. role' = [role EXCEPT ![w0][u0] = "member", ![w0][v0] = "owner"]
      BY <1>2 DEF TransferCommit, TransferredRoles
    <2>5. \A w \in Workspace, u \in User :
              role'[w][u] = IF w # w0 THEN role[w][u]
                            ELSE IF u = v0 THEN "owner"
                            ELSE IF u = u0 THEN "member" ELSE role[w][u]
      BY <2>1, <2>3, <2>4 DEF Inv, TypeOK
    <2>6. AtMostOneOwner'
      BY <2>1, <2>3, <2>5 DEF Inv, AtMostOneOwner
    <2>7. MembersOnlyInLiveWorkspaces'
      <3>1. w0 \in live
        BY <2>1, <2>3, NoneAssumption DEF Inv, MembersOnlyInLiveWorkspaces, Members, Role
      <3> QED
        BY <2>5, <3>1 DEF TransferCommit, Inv, MembersOnlyInLiveWorkspaces, Members
    <2>8. \A s \in Request \ {r}, w \in Workspace, u \in User :
              HoldsLock(s, w, u) => role'[w][u] = "owner"
      BY <2>1, <2>2, <2>5 DEF Inv, LockedRowIsOwner, LocksExclusive
    <2>9. \A w \in Workspace, u \in User : role[w][u] # None => role'[w][u] # None
      BY <2>5, NoneAssumption DEF Role, GrantedRole
    <2> QED
      BY <2>6, <2>7, <2>8, <2>9, FinalStep DEF TransferCommit
  <1> QED
    BY <1>1, <1>2

\* A fresh workspace has no rows, so its creator is its only owner.
LEMMA CreateCommitInv ==
    ASSUME Inv, TypeOK', NEW r \in Request, CreateCommit(r)
    PROVE  Inv'
  <1>1. PICK w0 \in Workspace \ used :
           /\ role' = [role EXCEPT ![w0][req[r].u] = "owner"]
           /\ live' = live \cup {w0}
    BY DEF CreateCommit
  <1>2. req[r].u \in User
    BY DEF CreateCommit, Inv, TypeOK, HasArguments
  <1>3. \A w \in Workspace, u \in User :
            role'[w][u] = IF w = w0 /\ u = req[r].u THEN "owner" ELSE role[w][u]
    BY <1>1, <1>2 DEF Inv, TypeOK
  <1>4. \A u \in User : role[w0][u] = None
    BY <1>1 DEF Inv, TypeOK, MembersOnlyInLiveWorkspaces, Members
  <1>5. None # "owner"
    BY NoneAssumption DEF Role
  <1>6. AtMostOneOwner'
    BY <1>3, <1>4, <1>5 DEF Inv, AtMostOneOwner
  <1>7. MembersOnlyInLiveWorkspaces'
    BY <1>1, <1>3 DEF Inv, MembersOnlyInLiveWorkspaces, Members
  <1>8. \A s \in Request \ {r}, w \in Workspace, u \in User :
            HoldsLock(s, w, u) => role'[w][u] = "owner"
    BY <1>3 DEF Inv, LockedRowIsOwner
  <1>9. \A w \in Workspace, u \in User : role[w][u] # None => role'[w][u] # None
    BY <1>3, <1>5
  <1> QED
    BY <1>6, <1>7, <1>8, <1>9, FinalStep DEF CreateCommit

\* A join adds a member and never an owner, and only to a live workspace.
LEMMA JoinCommitInv ==
    ASSUME Inv, TypeOK', NEW r \in Request, JoinCommit(r)
    PROVE  Inv'
  <1> DEFINE w0 == req[r].w
             u0 == req[r].u
  <1>1. CASE ~(w0 \in live /\ role[w0][u0] = None)
    BY <1>1, FinishQuietly DEF JoinCommit
  <1>2. CASE w0 \in live /\ role[w0][u0] = None
    <2>1. w0 \in Workspace /\ u0 \in User /\ req[r].ask \in GrantedRole
      BY DEF JoinCommit, Inv, TypeOK, HasArguments, NamesWorkspace, AsksRole, Pc
    <2>2. role' = [role EXCEPT ![w0][u0] = req[r].ask] /\ live' = live
      BY <1>2 DEF JoinCommit
    <2>3. \A w \in Workspace, u \in User :
              role'[w][u] = IF w = w0 /\ u = u0 THEN req[r].ask ELSE role[w][u]
      BY <2>1, <2>2 DEF Inv, TypeOK
    <2>4. req[r].ask # "owner" /\ req[r].ask # None /\ None # "owner"
      BY <2>1, NoneAssumption DEF GrantedRole, Role
    <2>5. AtMostOneOwner'
      BY <2>3, <2>4 DEF Inv, AtMostOneOwner
    <2>6. MembersOnlyInLiveWorkspaces'
      BY <1>2, <2>2, <2>3 DEF Inv, MembersOnlyInLiveWorkspaces, Members
    <2>7. \A s \in Request \ {r}, w \in Workspace, u \in User :
              HoldsLock(s, w, u) => role'[w][u] = "owner"
      BY <1>2, <2>3, <2>4 DEF Inv, LockedRowIsOwner
    <2>8. \A w \in Workspace, u \in User : role[w][u] # None => role'[w][u] # None
      BY <2>3, <2>4
    <2> QED
      BY <2>5, <2>6, <2>7, <2>8, FinalStep DEF JoinCommit
  <1> QED
    BY <1>1, <1>2

\* A role change makes nobody an owner and waits for the rows under lock.
LEMMA RoleCommitInv ==
    ASSUME Inv, TypeOK', NEW r \in Request, RoleCommit(r)
    PROVE  Inv'
  <1> DEFINE w0 == req[r].w
             v0 == req[r].v
  <1>1. CASE req[r].seen \in {None, req[r].ask}
    BY <1>1, FinishQuietly DEF RoleCommit
  <1>2. CASE req[r].seen \notin {None, req[r].ask}
    <2>1. w0 \in Workspace /\ v0 \in User /\ req[r].ask \in GrantedRole
      BY DEF RoleCommit, Inv, TypeOK, HasArguments, NamesWorkspace, NamesUser,
             AsksRole, Pc
    <2>2. /\ role' = [role EXCEPT ![w0][v0] = req[r].ask]
          /\ ~LockedByOther(r, w0, v0)
          /\ live' = live
      BY <1>2 DEF RoleCommit
    <2>3. \A w \in Workspace, u \in User :
              role'[w][u] = IF w = w0 /\ u = v0 THEN req[r].ask ELSE role[w][u]
      BY <2>1, <2>2 DEF Inv, TypeOK
    <2>4. req[r].ask # "owner" /\ req[r].ask # None
      BY <2>1, NoneAssumption DEF GrantedRole, Role
    <2>5. role[w0][v0] # None
      BY <1>2 DEF Inv, SeenRowExists
    <2>6. AtMostOneOwner'
      BY <2>3, <2>4 DEF Inv, AtMostOneOwner
    <2>7. MembersOnlyInLiveWorkspaces'
      BY <2>1, <2>2, <2>3, <2>5 DEF Inv, MembersOnlyInLiveWorkspaces, Members
    <2>8. \A s \in Request \ {r}, w \in Workspace, u \in User :
              HoldsLock(s, w, u) => role'[w][u] = "owner"
      BY <2>2, <2>3 DEF Inv, LockedRowIsOwner, LockedByOther
    <2>9. \A w \in Workspace, u \in User : role[w][u] # None => role'[w][u] # None
      BY <2>3, <2>4
    <2> QED
      BY <2>6, <2>7, <2>8, <2>9, FinalStep DEF RoleCommit
  <1> QED
    BY <1>1, <1>2

\* A lock is granted on a row nobody holds, and kept only by an owner.
LEMMA TransferLockInv ==
    ASSUME Inv, TypeOK', NEW r \in Request, TransferLock(r)
    PROVE  Inv'
  <1>1. CASE Finish(r)
    BY <1>1, FinishQuietly DEF TransferLock
  <1>2. CASE role[req[r].w][req[r].u] = "owner" /\ req[r].v # req[r].u /\ Goto(r, "transfer_target")
    <2> DEFINE q == [req[r] EXCEPT !.pc = "transfer_target"]
    <2>1. /\ q.u = req[r].u
          /\ q.w = req[r].w
          /\ q.v = req[r].v
          /\ q.seen = req[r].seen
      BY DEF Inv, TypeOK, RequestState
    <2> HIDE DEF q
    <2>2. /\ req'[r] = q
          /\ \A s \in Request \ {r} : req'[s] = req[s]
      BY <1>2 DEF Goto, Inv, TypeOK, q
    <2> QED
      BY <1>2, <2>1, <2>2, QuietStep DEF TransferLock, HoldsLock, Inv, SeenRowExists
  <1> QED
    BY <1>1, <1>2 DEF TransferLock

\* A step of a request that holds no lock and reads nothing about its target.
LEMMA PlainStep ==
    ASSUME Inv, TypeOK', NEW r \in Request, NEW q, req' = [req EXCEPT ![r] = q],
           q.pc \notin {"transfer_target", "transfer_commit"},
           q.seen = None \/ (q.seen = req[r].seen /\ q.w = req[r].w /\ q.v = req[r].v),
           UNCHANGED <<role, live>>
    PROVE  Inv'
  <1>1. /\ req'[r] = q
        /\ \A s \in Request \ {r} : req'[s] = req[s]
    BY DEF Inv, TypeOK
  <1>2. \A w \in Workspace, u \in User : ~HoldsLock(r, w, u)'
    BY <1>1 DEF HoldsLock
  <1>3. q.seen # None => /\ q.w \in Workspace
                         /\ q.v \in User
                         /\ role[q.w][q.v] # None
    BY DEF Inv, SeenRowExists
  <1> QED
    BY <1>1, <1>2, <1>3, QuietStep

\* A first check writes nothing and takes no lock.
LEMMA CheckInv ==
    ASSUME Inv, TypeOK', NEW r \in Request,
           NEW next \in Pc \ {"transfer_target", "transfer_commit"},
           Goto(r, next) \/ Finish(r), UNCHANGED <<role, live, used, deleted>>
    PROVE  Inv'
  <1>1. CASE Finish(r)
    BY <1>1, FinishQuietly
  <1>2. CASE Goto(r, next)
    <2> DEFINE q == [req[r] EXCEPT !.pc = next]
    <2>1. q.pc = next /\ q.seen = req[r].seen /\ q.w = req[r].w /\ q.v = req[r].v
      BY DEF Inv, TypeOK, RequestState
    <2> HIDE DEF q
    <2> QED
      BY <1>2, <2>1, PlainStep DEF Goto, q
  <1> QED
    BY <1>1, <1>2

\* An arriving request has read nothing and holds nothing.
LEMMA ReceiveInv ==
    ASSUME Inv, TypeOK', NEW r \in Request, Receive(r)
    PROVE  Inv'
  <1> DEFINE Sent(q) == req' = [req EXCEPT ![r] = q]
  <1>1. UNCHANGED <<role, live>>
    BY DEF Receive
  <1>2. ASSUME NEW pc \in Pc \ {"transfer_target", "transfer_commit"},
               NEW u, NEW w, NEW v, NEW g, Sent(NewRequest(pc, u, w, v, g))
        PROVE  Inv'
    <2> DEFINE q == NewRequest(pc, u, w, v, g)
    <2>1. q.pc = pc /\ q.seen = None
      BY DEF NewRequest
    <2> HIDE DEF q
    <2> QED
      BY <1>1, <1>2, <2>1, PlainStep DEF q
  <1> HIDE DEF Sent
  <1> USE DEF Pc
  <1>3. ASSUME NEW u, NEW pc \in {"create", "leave_owned"},
               Sent(NewRequest(pc, u, None, None, None))
        PROVE  Inv'
    BY <1>2, <1>3
  <1>4. ASSUME NEW u, NEW w, Sent(NewRequest("drop_check", u, w, None, None))
        PROVE  Inv'
    BY <1>2, <1>4
  <1>5. ASSUME NEW u, NEW w, NEW g, Sent(NewRequest("join_check", u, w, None, g))
        PROVE  Inv'
    BY <1>2, <1>5
  <1>6. ASSUME NEW u, NEW w, NEW v, NEW pc \in {"transfer_lock", "remove_check"},
               Sent(NewRequest(pc, u, w, v, None))
        PROVE  Inv'
    BY <1>2, <1>6
  <1>7. ASSUME NEW u, NEW w, NEW v, NEW g, Sent(NewRequest("role_check", u, w, v, g))
        PROVE  Inv'
    BY <1>2, <1>7
  <1> QED
    BY <1>3, <1>4, <1>5, <1>6, <1>7 DEF Receive, Sent

\* Reading the target: what the session remembers is what is in the table,
\* and only a transfer, which holds its lock already, goes on holding one.
LEMMA ReadTargetInv ==
    ASSUME Inv, TypeOK', NEW r \in Request, NEW next \in NamesUser,
           req[r].pc \in NamesUser,
           next \in {"transfer_target", "transfer_commit"}
               => req[r].pc \in {"transfer_target", "transfer_commit"},
           ReadTarget(r, next)
    PROVE  Inv'
  <1> DEFINE seen == role[req[r].w][req[r].v]
             q == [req[r] EXCEPT !.pc = next, !.seen = seen,
                                 !.rows = {<<req[r].w, req[r].v>>}]
  <1>1. CASE Finish(r)
    BY <1>1, FinishQuietly DEF ReadTarget
  <1>2. CASE seen # None /\ req' = [req EXCEPT ![r] = q]
    <2>1. /\ q.pc = next
          /\ q.u = req[r].u
          /\ q.w = req[r].w
          /\ q.v = req[r].v
          /\ q.seen = seen
      BY DEF Inv, TypeOK, RequestState
    <2> HIDE DEF q
    <2>2. /\ req'[r] = q
          /\ \A s \in Request \ {r} : req'[s] = req[s]
      BY <1>2 DEF Inv, TypeOK
    <2>3. req[r].w \in Workspace /\ req[r].v \in User
      BY DEF Inv, TypeOK, HasArguments, NamesUser, NamesWorkspace, Pc
    <2>4. ASSUME NEW w \in Workspace, NEW u \in User, HoldsLock(r, w, u)'
          PROVE  role[w][u] = "owner" /\ req'[r].v # u /\ ~LockedByOther(r, w, u)
      <3>1. HoldsLock(r, w, u)
        BY <2>1, <2>2, <2>4 DEF HoldsLock
      <3> QED
        BY <2>1, <2>2, <3>1 DEF Inv, LockedRowIsOwner, LocksExclusive, LockedByOther
    <2> QED
      BY <1>2, <2>1, <2>2, <2>3, <2>4, QuietStep DEF ReadTarget
  <1> QED
    BY <1>1, <1>2 DEF ReadTarget

\* Loading the cascade of a workspace writes nothing.
LEMMA DropLoadInv ==
    ASSUME Inv, TypeOK', NEW r \in Request, DropLoad(r)
    PROVE  Inv'
  <1> DEFINE q == [req[r] EXCEPT !.pc = "drop_commit", !.doomed = {req[r].w},
                                 !.rows = MemberRows(req[r].w)]
  <1>1. /\ q.pc \notin {"transfer_target", "transfer_commit"}
        /\ q.seen = req[r].seen
        /\ q.w = req[r].w
        /\ q.v = req[r].v
    BY DEF Inv, TypeOK, RequestState
  <1> HIDE DEF q
  <1> QED
    BY <1>1, PlainStep DEF DropLoad, q

\* Listing the owned workspaces writes nothing.
LEMMA LeaveOwnedInv ==
    ASSUME Inv, TypeOK', NEW r \in Request, LeaveOwned(r)
    PROVE  Inv'
  <1> DEFINE q == [req[r] EXCEPT !.pc = "leave_count",
                       !.todo = {w \in Workspace : role[w][req[r].u] = "owner"}]
  <1>1. /\ q.pc \notin {"transfer_target", "transfer_commit"}
        /\ q.seen = req[r].seen
        /\ q.w = req[r].w
        /\ q.v = req[r].v
    BY DEF Inv, TypeOK, RequestState
  <1> HIDE DEF q
  <1> QED
    BY <1>1, PlainStep DEF LeaveOwned, q

\* Loading the cascades of an account writes nothing.
LEMMA LeaveCascadeInv ==
    ASSUME Inv, TypeOK', NEW r \in Request, LeaveCascade(r)
    PROVE  Inv'
  <1> DEFINE q == [req[r] EXCEPT !.pc = "leave_rest",
                       !.rows = UNION {MemberRows(w) : w \in req[r].doomed}]
  <1>1. /\ q.pc \notin {"transfer_target", "transfer_commit"}
        /\ q.seen = req[r].seen
        /\ q.w = req[r].w
        /\ q.v = req[r].v
    BY DEF Inv, TypeOK, RequestState
  <1> HIDE DEF q
  <1> QED
    BY <1>1, PlainStep DEF LeaveCascade, q

\* Loading the remaining memberships writes nothing.
LEMMA LeaveRestInv ==
    ASSUME Inv, TypeOK', NEW r \in Request, LeaveRest(r)
    PROVE  Inv'
  <1> DEFINE q == [req[r] EXCEPT !.pc = "leave_commit",
                       !.rows = req[r].rows \cup MembershipsOf(req[r].u)]
  <1>1. /\ q.pc \notin {"transfer_target", "transfer_commit"}
        /\ q.seen = req[r].seen
        /\ q.w = req[r].w
        /\ q.v = req[r].v
    BY DEF Inv, TypeOK, RequestState
  <1> HIDE DEF q
  <1> QED
    BY <1>1, PlainStep DEF LeaveRest, q

\* Counting the other members writes nothing.
LEMMA LeaveCountInv ==
    ASSUME Inv, TypeOK', NEW r \in Request, LeaveCount(r)
    PROVE  Inv'
  <1>1. CASE Finish(r)
    BY <1>1, FinishQuietly DEF LeaveCount
  <1>2. ASSUME NEW w \in req[r].todo,
               req' = [req EXCEPT ![r] = [@ EXCEPT !.todo = req[r].todo \ {w},
                                            !.doomed = req[r].doomed \cup {w}]]
        PROVE  Inv'
    <2> DEFINE q == [req[r] EXCEPT !.todo = req[r].todo \ {w},
                                   !.doomed = req[r].doomed \cup {w}]
    <2>1. /\ q.pc = req[r].pc
          /\ q.seen = req[r].seen
          /\ q.w = req[r].w
          /\ q.v = req[r].v
      BY DEF Inv, TypeOK, RequestState
    <2>2. req[r].pc = "leave_count" /\ UNCHANGED <<role, live>>
      BY DEF LeaveCount
    <2> HIDE DEF q
    <2> QED
      BY <1>2, <2>1, <2>2, PlainStep DEF q
  <1> QED
    BY <1>1, <1>2 DEF LeaveCount

\* Any step of any request keeps the invariant.
LEMMA StepKeepsInv ==
    ASSUME NEW r \in Request, Inv, Step(r)
    PROVE  Inv'
  <1> USE DEF Pc, NamesUser
  <1>1. TypeOK'
    BY StepKeepsType DEF Inv
  <1>2. CASE Receive(r) \/ Abort(r)
    BY <1>1, <1>2, ReceiveInv, FinishQuietly DEF Abort
  <1>3. CASE CreateCommit(r) \/ JoinCommit(r) \/ RoleCommit(r)
    BY <1>1, <1>3, CreateCommitInv, JoinCommitInv, RoleCommitInv
  <1>4. CASE TransferLock(r) \/ TransferCommit(r)
    BY <1>1, <1>4, TransferLockInv, TransferCommitInv
  <1>5. CASE JoinCheck(r)
    BY <1>1, <1>5, CheckInv DEF JoinCheck
  <1>6. CASE RoleCheck(r)
    BY <1>1, <1>6, CheckInv DEF RoleCheck, RequireOwner
  <1>7. CASE RemoveCheck(r)
    BY <1>1, <1>7, CheckInv DEF RemoveCheck, RequireOwner
  <1>8. CASE DropCheck(r)
    BY <1>1, <1>8, CheckInv DEF DropCheck, RequireOwner
  <1>9. CASE TransferTarget(r)
    BY <1>1, <1>9, ReadTargetInv DEF TransferTarget
  <1>10. CASE RoleRead(r)
    BY <1>1, <1>10, ReadTargetInv DEF RoleRead
  <1>11. CASE RemoveRead(r)
    BY <1>1, <1>11, ReadTargetInv DEF RemoveRead
  <1>12. CASE RemoveCommit(r) \/ DropCommit(r) \/ LeaveCommit(r)
    BY <1>1, <1>12, CommitDeletesInv DEF RemoveCommit, DropCommit, LeaveCommit
  <1>13. CASE DropLoad(r) \/ LeaveOwned(r) \/ LeaveCount(r) \/ LeaveCascade(r) \/ LeaveRest(r)
    BY <1>1, <1>13, DropLoadInv, LeaveOwnedInv, LeaveCountInv, LeaveCascadeInv,
       LeaveRestInv
  <1> QED
    BY <1>2, <1>3, <1>4, <1>5, <1>6, <1>7, <1>8, <1>9, <1>10, <1>11, <1>12, <1>13
       DEF Step

\* The invariant depends on nothing but the variables.
LEMMA InvStutters == Inv /\ UNCHANGED vars => Inv'
  BY DEF Inv, vars, TypeOK, AtMostOneOwner, MembersOnlyInLiveWorkspaces, Members,
         LockedRowIsOwner, LocksExclusive, HoldsLock, SeenRowExists

\* The inductive invariant: what the row lock of transfer_ownership protects.
THEOREM InvHolds == Spec => []Inv
  <1>1. Inv /\ [Next]_vars => Inv'
    BY StepKeepsInv, InvStutters DEF Next
  <1> QED
    BY InitInv, <1>1, PTL DEF Spec

\* However many requests overlap, no workspace ever has two owners.
THEOREM NeverTwoOwners == Spec => []AtMostOneOwner
  <1>1. Inv => AtMostOneOwner
    BY DEF Inv
  <1> QED
    BY <1>1, InvHolds, PTL

\* A deleted workspace never keeps or gains a member.
THEOREM NoMembersLeftBehind == Spec => []MembersOnlyInLiveWorkspaces
  <1>1. Inv => MembersOnlyInLiveWorkspaces
    BY DEF Inv
  <1> QED
    BY <1>1, InvHolds, PTL

-----------------------------------------------------------------------------
(* What a step may do to the memberships table.                            *)

\* A deleting commit only takes rows away.
LEMMA CommitDeletesRoles ==
    ASSUME NEW r \in Request, CommitDeletes(r), UNCHANGED used
    PROVE  \A w \in Workspace, u \in User : role'[w][u] \in {None, role[w][u]}
  BY DEF CommitDeletes

\* Every step leaves a row alone, removes it, creates it for a new workspace
\* or for an invited user, or is one of the two commits that write roles.
LEMMA RoleChanges ==
    ASSUME Inv, NEW r \in Request, Step(r), NEW w \in Workspace, NEW u \in User
    PROVE  \/ role'[w][u] \in {None, role[w][u]}
           \/ CreateCommit(r) /\ w \notin used /\ u = req[r].u
           \/ /\ JoinCommit(r) /\ u = req[r].u
              /\ role'[w][u] \in GrantedRole
           \/ /\ RoleCommit(r) /\ role[w][u] # None
              /\ role'[w][u] \in GrantedRole
           \/ /\ TransferCommit(r) /\ req[r].seen # None
              /\ w = req[r].w /\ u \in {req[r].u, req[r].v}
  <1> USE DEF Pc, NamesWorkspace, NamesUser, AsksRole
  <1>1. CASE CreateCommit(r)
    <2>1. PICK w0 \in Workspace \ used : role' = [role EXCEPT ![w0][req[r].u] = "owner"]
      BY <1>1 DEF CreateCommit
    <2> QED
      BY <1>1, <2>1 DEF Inv, TypeOK
  <1>2. CASE JoinCommit(r)
    <2>1. req[r].ask \in GrantedRole
      BY <1>2 DEF JoinCommit, Inv, TypeOK, HasArguments
    <2> QED
      BY <1>2, <2>1 DEF JoinCommit, Inv, TypeOK
  <1>3. CASE RoleCommit(r)
    <2>1. req[r].ask \in GrantedRole
      BY <1>3 DEF RoleCommit, Inv, TypeOK, HasArguments
    <2>2. CASE req[r].seen \in {None, req[r].ask}
      BY <1>3, <2>2 DEF RoleCommit
    <2>3. CASE req[r].seen \notin {None, req[r].ask}
      <3>1. /\ role' = [role EXCEPT ![req[r].w][req[r].v] = req[r].ask]
            /\ role[req[r].w][req[r].v] # None
        BY <1>3, <2>3 DEF RoleCommit, Inv, SeenRowExists
      <3> QED
        BY <1>3, <2>1, <3>1 DEF Inv, TypeOK
    <2> QED
      BY <2>2, <2>3
  <1>4. CASE TransferCommit(r)
    BY <1>4 DEF TransferCommit, TransferredRoles, Inv, TypeOK
  <1>5. CASE RemoveCommit(r) \/ DropCommit(r) \/ LeaveCommit(r)
    BY <1>5, CommitDeletesRoles DEF RemoveCommit, DropCommit, LeaveCommit
  <1>6. CASE Receive(r) \/ Abort(r) \/ JoinCheck(r) \/ TransferLock(r)
    BY <1>6 DEF Receive, Abort, JoinCheck, TransferLock
  <1>7. CASE RoleCheck(r) \/ RemoveCheck(r) \/ DropCheck(r)
    BY <1>7 DEF RoleCheck, RemoveCheck, DropCheck, RequireOwner
  <1>8. CASE TransferTarget(r) \/ RoleRead(r) \/ RemoveRead(r)
    BY <1>8 DEF TransferTarget, RoleRead, RemoveRead, ReadTarget
  <1>9. CASE DropLoad(r) \/ LeaveOwned(r) \/ LeaveCount(r) \/ LeaveCascade(r) \/ LeaveRest(r)
    BY <1>9 DEF DropLoad, LeaveOwned, LeaveCount, LeaveCascade, LeaveRest
  <1> QED
    BY <1>1, <1>2, <1>3, <1>4, <1>5, <1>6, <1>7, <1>8, <1>9 DEF Step

\* What a transfer commits, given that its caller's row is locked.
LEMMA TransferEffect ==
    ASSUME Inv, NEW r \in Request, TransferCommit(r), req[r].seen # None
    PROVE  /\ req[r].w \in Workspace /\ req[r].u \in User /\ req[r].v \in User
           /\ role[req[r].w][req[r].u] = "owner"
           /\ role'[req[r].w][req[r].u] = "member"
           /\ role[req[r].w][req[r].v] # None
           /\ role'[req[r].w][req[r].v] = "owner"
  <1>1. req[r].w \in Workspace /\ req[r].u \in User /\ req[r].v \in User
    BY DEF TransferCommit, Inv, TypeOK, HasArguments, NamesWorkspace, NamesUser, Pc
  <1>2. HoldsLock(r, req[r].w, req[r].u)
    BY DEF TransferCommit, HoldsLock
  <1>3. role[req[r].w][req[r].u] = "owner" /\ req[r].v # req[r].u
    BY <1>1, <1>2 DEF Inv, LockedRowIsOwner
  <1>4. role[req[r].w][req[r].v] # None
    BY DEF Inv, SeenRowExists
  <1> QED
    BY <1>1, <1>3, <1>4 DEF TransferCommit, TransferredRoles, Inv, TypeOK

\* Nobody becomes the owner of an existing workspace except in the commit in
\* which its previous owner steps down.
THEOREM HandoverOnly == Spec => OwnershipMovesByHandover
  <1> DEFINE Handover ==
        \A w \in used : \A v \in User :
            role[w][v] # "owner" /\ role'[w][v] = "owner"
                => \E u \in User : role[w][u] = "owner" /\ role'[w][u] = "member"
  <1>1. ASSUME Inv, NEW r \in Request, Step(r)
        PROVE  Handover
    <2> SUFFICES ASSUME NEW w \in used, NEW v \in User,
                        role[w][v] # "owner", role'[w][v] = "owner"
                 PROVE  \E u \in User : role[w][u] = "owner" /\ role'[w][u] = "member"
      OBVIOUS
    <2>1. w \in Workspace
      BY <1>1 DEF Inv, TypeOK
    <2>2. None # "owner" /\ "owner" \notin GrantedRole
      BY NoneAssumption DEF Role, GrantedRole
    <2>3. /\ TransferCommit(r)
          /\ req[r].seen # None
          /\ w = req[r].w
      BY <1>1, <2>1, <2>2, RoleChanges
    <2> QED
      BY <1>1, <2>3, TransferEffect
  <1>2. UNCHANGED vars => Handover
    BY DEF vars
  <1>3. Inv /\ [Next]_vars => [Handover]_vars
    BY <1>1, <1>2 DEF Next
  <1> QED
    BY <1>3, InvHolds, PTL DEF Spec, OwnershipMovesByHandover

\* Nobody is put into a workspace by someone else's request, however stale
\* what that request read has become.
THEOREM ConsentOnly == Spec => JoiningIsConsensual
  <1> DEFINE Consent ==
        \A w \in Workspace, u \in User :
            role[w][u] = None /\ role'[w][u] # None
                => \E r \in Request : /\ req[r].u = u
                                      /\ req[r].pc \in {"create", "join_commit"}
                                      /\ req'[r].pc = "idle"
  <1>1. ASSUME Inv, NEW r \in Request, Step(r)
        PROVE  Consent
    <2> SUFFICES ASSUME NEW w \in Workspace, NEW u \in User,
                        role[w][u] = None, role'[w][u] # None
                 PROVE  /\ req[r].u = u
                        /\ req[r].pc \in {"create", "join_commit"}
                        /\ req'[r].pc = "idle"
      OBVIOUS
    <2>1. ASSUME TransferCommit(r), req[r].seen # None, w = req[r].w,
                 u \in {req[r].u, req[r].v}
          PROVE  FALSE
      BY <1>1, <2>1, TransferEffect, NoneAssumption DEF Role
    <2>2. (CreateCommit(r) \/ JoinCommit(r)) /\ u = req[r].u
      BY <1>1, <2>1, RoleChanges
    <2>3. Finish(r)
      BY <2>2 DEF CreateCommit, JoinCommit
    <2>4. req'[r].pc = "idle"
      BY <1>1, <2>3 DEF Finish, Inv, TypeOK, Idle, NewRequest
    <2> QED
      BY <2>2, <2>4 DEF CreateCommit, JoinCommit
  <1>2. UNCHANGED vars => Consent
    BY DEF vars
  <1>3. Inv /\ [Next]_vars => [Consent]_vars
    BY <1>1, <1>2 DEF Next
  <1> QED
    BY <1>3, InvHolds, PTL DEF Spec, JoiningIsConsensual

\* A request moves only itself; a deletion elsewhere only makes it forget rows.
LEMMA OthersKeepControl ==
    ASSUME Inv, NEW s \in Request, Step(s), NEW r \in Request, r # s
    PROVE  req'[r].pc = req[r].pc
  <1>1. ASSUME CommitDeletes(s)
        PROVE  req'[r].pc = req[r].pc
    <2> DEFINE base == [req EXCEPT ![s] = Idle]
               gone == req[s].rows
    <2>1. base \in [Request -> RequestState] /\ base[r] = req[r]
      BY IdleType DEF Inv, TypeOK
    <2>2. CASE req' = Forget(base, gone)
      <3> HIDE DEF base, gone
      <3> QED
        BY <2>1, <2>2 DEF Forget, RequestState
    <2>3. CASE Finish(s)
      BY <2>3 DEF Finish, Inv, TypeOK
    <2> QED
      BY <1>1, <2>2, <2>3 DEF CommitDeletes
  <1>2. CASE RemoveCommit(s) \/ DropCommit(s) \/ LeaveCommit(s)
    BY <1>1, <1>2 DEF RemoveCommit, DropCommit, LeaveCommit
  <1>3. CASE ~(RemoveCommit(s) \/ DropCommit(s) \/ LeaveCommit(s))
    <2>1. \E q : req' = [req EXCEPT ![s] = q]
      BY <1>3 DEF Step, Receive, Abort, CreateCommit, JoinCheck, JoinCommit,
         TransferLock, TransferTarget, TransferCommit, RoleCheck, RoleRead,
         RoleCommit, RemoveCheck, RemoveRead, DropCheck, DropLoad, LeaveOwned,
         LeaveCount, LeaveCascade, LeaveRest, RequireOwner, ReadTarget, Goto, Finish
    <2> QED
      BY <2>1 DEF Inv, TypeOK
  <1> QED
    BY <1>2, <1>3

\* A transfer that ends, by commit or by rollback, leaves every workspace
\* that had an owner with one.
THEOREM TransferIsAtomic == Spec => TransferNeverStrands
  <1> DEFINE Atomic ==
        \A r \in Request, w \in Workspace :
            /\ req[r].pc = "transfer_commit"
            /\ req'[r].pc = "idle"
            /\ Owners(w) # {}
            => Owners(w)' # {}
  <1>1. ASSUME Inv, NEW s \in Request, Step(s), NEW r \in Request, NEW w \in Workspace,
               req[r].pc = "transfer_commit", req'[r].pc = "idle", Owners(w) # {}
        PROVE  Owners(w)' # {}
    <2>1. CASE r # s
      <3>1. req'[r].pc = req[r].pc
        BY <1>1, <2>1, OthersKeepControl
      <3> QED
        BY <1>1, <3>1
    <2>2. CASE r = s
      <3>1. Abort(r) \/ TransferCommit(r)
        BY <1>1, <2>2 DEF Step, Receive, CreateCommit, JoinCheck, JoinCommit,
           TransferLock, TransferTarget, RoleCheck, RoleRead, RoleCommit,
           RemoveCheck, RemoveRead, RemoveCommit, DropCheck, DropLoad, DropCommit,
           LeaveOwned, LeaveCount, LeaveCascade, LeaveRest, LeaveCommit
      <3>2. CASE UNCHANGED role
        BY <1>1, <3>2 DEF Owners
      <3>3. CASE TransferCommit(r) /\ req[r].seen # None
        <4>1. /\ req[r].v \in User
              /\ role'[req[r].w][req[r].v] = "owner"
          BY <1>1, <3>3, TransferEffect
        <4>2. w # req[r].w => role'[w] = role[w]
          BY <1>1, <3>3 DEF TransferCommit, TransferredRoles, Inv, TypeOK
        <4> QED
          BY <1>1, <4>1, <4>2 DEF Owners
      <3> QED
        BY <3>1, <3>2, <3>3 DEF Abort, TransferCommit
    <2> QED
      BY <2>1, <2>2
  <1>2. UNCHANGED vars => Atomic
    BY DEF vars, Owners
  <1>3. Inv /\ [Next]_vars => [Atomic]_vars
    BY <1>1, <1>2 DEF Next
  <1> QED
    BY <1>3, InvHolds, PTL DEF Spec, TransferNeverStrands

=============================================================================
