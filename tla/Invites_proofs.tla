--------------------------- MODULE Invites_proofs ----------------------------
(***************************************************************************)
(* Proofs about Invites, for any number of people, invites and requests:   *)
(* members have used up an invite, using one up is joining, and an invite  *)
(* that was dead when a request arrived lets nobody in.                    *)
(***************************************************************************)
EXTENDS Invites, FiniteSetTheorems, TLAPS

(* Requests and the table.                                                 *)

\* The arguments a request needs are there.
HasArguments(q) ==
    /\ q.pc \in Pc \ {"idle", "revoke_read", "revoke_commit"} => q.u \in User
    /\ q.pc \in {"revoke_read", "revoke_commit", "accept_read",
                 "accept_check", "accept_commit", "apply_read", "apply_commit"}
          => q.i \in Invite

\* What happens to the tables: accounts stay, and as long as the workspace does
\* a row keeps its addressee and no mark on it is taken back.
Grows ==
    /\ account \subseteq account'
    /\ open' => open
    /\ open' => \A i \in Invite : Exists(i) =>
          /\ invite'[i].to = invite[i].to
          /\ invite[i].accepted => invite'[i].accepted
          /\ invite[i].revoked => invite'[i].revoked
          /\ invite[i].expired => invite'[i].expired

\* An idle worker has no arguments and justifies nothing.
LEMMA IdleFacts ==
    Idle \in RequestState /\ HasArguments(Idle) /\ Justified(Idle) /\ Justified(Idle)'
BY DEF Idle, RequestState, HasArguments, Justified, Joining, Pc

\* A row that is there is addressed to somebody, in a workspace that is there.
LEMMA RowsAreOpen ==
    ASSUME TypeOK, NEW i \in Invite, Exists(i)
    PROVE  open /\ invite[i].to \in User
<1>1. invite[i] \in InviteRow /\ (~open => invite[i] = NoRow)
      BY DEF TypeOK
<1>2. QED
      BY <1>1 DEF Exists, InviteRow, NoRow

\* What justifies a request is not undone by a change of the table.
LEMMA StaysJustified ==
    ASSUME TypeOK, Grows, NEW q \in RequestState, HasArguments(q), Justified(q)
    PROVE  Justified(q)'
<1>1. q.pc \in Joining => q.i \in Invite /\ q.u \in User
      BY DEF Joining, HasArguments, Pc
<1>2. ASSUME q.pc \in Joining, open'
      PROVE  ~q.dead /\ invite'[q.i].to = q.u
  <2>1. invite[q.i].to = q.u /\ Exists(q.i) /\ ~q.dead
        BY <1>1, <1>2, NoneAssumption DEF Grows, Justified, Exists
  <2>2. QED
        BY <1>1, <1>2, <2>1 DEF Grows
<1>3. ASSUME q.dead, open'
      PROVE  q.i \in Invite /\ Exists(q.i)' /\ ~Usable(q.i)'
      BY <1>3 DEF Grows, Justified, Exists, Usable
<1>4. /\ q.pc \in Joining => ~q.dead
      /\ q.pc \in Joining \cup {"accept_read", "apply_read"} => q.u \in account'
      BY DEF Justified, Grows
<1>5. QED
      BY <1>2, <1>3, <1>4 DEF Justified

\* One request moves to q while the table grows.
LEMMA StepInv ==
    ASSUME Inv, NEW r \in Request, NEW q \in RequestState,
           HasArguments(q), Justified(q)', Grows, MembersAccepted',
           req' = [req EXCEPT ![r] = q],
           open' \in BOOLEAN, account' \subseteq User, member' \subseteq account',
           invite' \in [Invite -> InviteRow],
           ~open' => member' = {} /\ \A i \in Invite : invite'[i] = NoRow
    PROVE  Inv'
<1>1. TypeOK /\ req \in [Request -> RequestState]
      BY DEF Inv, TypeOK
<1>2. /\ req' \in [Request -> RequestState]
      /\ req'[r] = q
      /\ \A s \in Request \ {r} : req'[s] = req[s]
      BY <1>1
<1>3. \A s \in Request : HasArguments(req[s])
      BY <1>1 DEF TypeOK, HasArguments
<1>4. \A s \in Request : HasArguments(req'[s]) /\ Justified(req[s])'
  <2>1. \A s \in Request : HasArguments(req'[s])
        BY <1>2, <1>3
  <2>3. \A s \in Request \ {r} : Justified(req[s]) /\ HasArguments(req[s])
        BY <1>3 DEF Inv
  <2>4. ASSUME NEW s \in Request PROVE Justified(req[s])'
    <3>1. CASE s = r
          BY <1>2, <3>1 DEF Justified, Exists, Usable
    <3>2. CASE s # r
      <4>1. req'[s] = req[s] /\ req[s] \in RequestState
            BY <1>1, <1>2, <3>2
      <4>2. Justified(req[s]) /\ HasArguments(req[s])
            BY <2>3, <3>2
      <4>3. \A x \in RequestState : HasArguments(x) /\ Justified(x) =>
               /\ x.pc \in Joining => ~x.dead /\ (open' => invite'[x.i].to = x.u)
               /\ x.dead /\ open' => x.i \in Invite /\ Exists(x.i)' /\ ~Usable(x.i)'
               /\ x.pc \in Joining \cup {"accept_read", "apply_read"} => x.u \in account'
            BY <1>1, StaysJustified DEF Justified
      <4>4. QED
            BY <4>1, <4>2, <4>3 DEF Justified, Exists, Usable
    <3>3. QED
          BY <3>1, <3>2
  <2>5. QED
        BY <2>1, <2>4
<1>5. TypeOK'
      BY <1>2, <1>4 DEF TypeOK, HasArguments
<1>6. QED
      BY <1>4, <1>5 DEF Inv

\* One request moves to q and the tables stay as they are.
LEMMA QuietInv ==
    ASSUME Inv, NEW r \in Request, NEW q \in RequestState,
           HasArguments(q), Justified(q), req' = [req EXCEPT ![r] = q],
           UNCHANGED <<open, account, member, invite>>
    PROVE  Inv'
<1>1. Grows /\ MembersAccepted'
      BY DEF Grows, Inv, MembersAccepted
<1>2. /\ open' \in BOOLEAN /\ account' \subseteq User /\ member' \subseteq account'
      /\ invite' \in [Invite -> InviteRow]
      /\ ~open' => member' = {} /\ \A i \in Invite : invite'[i] = NoRow
      BY DEF Inv, TypeOK
<1>3. Justified(q)'
      BY <1>1, StaysJustified DEF Inv
<1>4. QED
      BY <1>1, <1>2, <1>3, StepInv

\* A request is answered with nothing written.
LEMMA AnswerInv ==
    ASSUME Inv, NEW r \in Request, Finish(r), UNCHANGED <<open, account, member, invite>>
    PROVE  Inv'
BY IdleFacts, QuietInv DEF Finish

\* A handler moves on: to a step that admits somebody only from another one or
\* on reading a usable invite to them.
LEMMA GotoInv ==
    ASSUME Inv, NEW r \in Request, NEW pc \in Pc, Goto(r, pc),
           UNCHANGED <<open, account, member, invite>>,
           pc \in Pc \ {"idle", "revoke_read", "revoke_commit"} => req[r].u \in User,
           pc \in {"revoke_read", "revoke_commit", "accept_read",
                   "accept_check", "accept_commit", "apply_read", "apply_commit"} => req[r].i \in Invite,
           pc \in Joining \cup {"accept_read", "apply_read"} => req[r].u \in account,
           pc \in Joining => \/ req[r].pc \in Joining
                             \/ Usable(req[r].i) /\ invite[req[r].i].to = req[r].u
    PROVE  Inv'
<1> DEFINE q == [req[r] EXCEPT !.pc = pc]
<1>1. req[r] \in RequestState /\ Justified(req[r])
      BY DEF Inv, TypeOK
<1>2. req' = [req EXCEPT ![r] = q]
      BY DEF Goto
<1>3. /\ q \in RequestState
      /\ q.pc = pc /\ q.u = req[r].u /\ q.i = req[r].i /\ q.dead = req[r].dead
      BY <1>1 DEF RequestState
<1> HIDE DEF q
<1>4. HasArguments(q)
      BY <1>3 DEF HasArguments
<1>5. Justified(q)
  <2>1. CASE req[r].pc \in Joining
        BY <1>1, <1>3, <2>1 DEF Justified
  <2>2. CASE pc \notin Joining
        BY <1>1, <1>3, <2>2 DEF Justified
  <2>3. CASE /\ pc \in Joining
             /\ Usable(req[r].i) /\ invite[req[r].i].to = req[r].u
    <3>1. req[r].i \in Invite /\ Exists(req[r].i)
          BY <2>3 DEF Joining, Usable
    <3>2. open
          BY <3>1, RowsAreOpen DEF Inv
    <3>3. ~req[r].dead
          BY <1>1, <2>3, <3>2 DEF Justified
    <3>4. QED
          BY <1>3, <2>3, <3>3 DEF Justified
  <2>4. QED
        BY <2>1, <2>2, <2>3
<1>6. QED
      BY <1>2, <1>3, <1>4, <1>5, QuietInv

-----------------------------------------------------------------------------
(* The invariant, action by action.                                        *)

\* At the start there are no members, no invites and no requests.
LEMMA InitInv == Init => Inv
<1> SUFFICES ASSUME Init PROVE Inv
    OBVIOUS
<1>1. NoRow \in InviteRow
      BY DEF NoRow, InviteRow
<1>2. \A r \in Request : req[r] = Idle
      BY DEF Init
<1>3. TypeOK
      BY <1>1, IdleFacts DEF Init, TypeOK, HasArguments
<1>4. MembersAccepted
      BY DEF Init, MembersAccepted
<1>5. QED
      BY <1>2, <1>3, <1>4, IdleFacts DEF Inv

\* A request arrives, and knows whether its invite is dead.
LEMMA ReceiveInv ==
    ASSUME Inv, NEW r \in Request, Receive(r) PROVE Inv'
<1> DEFINE New(pc, u, i) == [pc |-> pc, u |-> u, i |-> i, dead |-> i # None /\ ~Usable(i)]
<1>1. account \subseteq User
      BY DEF Inv, TypeOK
<1>2. PICK pc \in {"create_member", "revoke_read", "accept_read", "register_commit"},
           u \in User \cup {None}, i \in Invite \cup {None} :
         /\ req' = [req EXCEPT ![r] = New(pc, u, i)]
         /\ i # None => Exists(i)
         /\ pc # "revoke_read" => u \in User
         /\ pc = "accept_read" => u \in account
         /\ pc \in {"revoke_read", "accept_read"} => i \in Invite
      BY <1>1, NoneAssumption DEF Receive, Arrive
<1> DEFINE q == New(pc, u, i)
<1>3. /\ q \in RequestState
      /\ q.pc = pc /\ q.u = u /\ q.i = i /\ (q.dead <=> i # None /\ ~Usable(i))
      BY DEF RequestState, Pc
<1> HIDE DEF q
<1>4. HasArguments(q)
      BY <1>2, <1>3 DEF HasArguments, Pc
<1>5. Justified(q)
      BY <1>2, <1>3 DEF Justified, Joining
<1>6. req' = [req EXCEPT ![r] = q] /\ UNCHANGED <<open, account, member, invite>>
      BY <1>2 DEF q, Receive
<1>7. QED
      BY <1>3, <1>4, <1>5, <1>6, QuietInv

\* The steps that read, and go on or answer.
LEMMA ReadInv ==
    ASSUME Inv, NEW r \in Request,
           \/ CreateMember(r) \/ CreatePending(r) \/ RevokeRead(r)
           \/ AcceptRead(r) \/ AcceptCheck(r) \/ ApplyRead(r) \/ Abort(r)
    PROVE  Inv'
<1>1. /\ HasArguments(req[r])
      /\ req[r].pc \in Joining \cup {"accept_read", "apply_read"} => req[r].u \in account
      BY DEF Inv, TypeOK, HasArguments, Justified
<1>2. CASE CreateMember(r)
      BY <1>1, <1>2, AnswerInv, GotoInv DEF CreateMember, HasArguments, Pc, Joining
<1>3. CASE CreatePending(r)
      BY <1>1, <1>3, AnswerInv, GotoInv DEF CreatePending, HasArguments, Pc, Joining
<1>4. CASE RevokeRead(r)
      BY <1>1, <1>4, AnswerInv, GotoInv DEF RevokeRead, HasArguments, Pc, Joining
<1>5. CASE AcceptRead(r)
      BY <1>1, <1>5, AnswerInv, GotoInv DEF AcceptRead, HasArguments, Pc, Joining
<1>6. CASE AcceptCheck(r)
      BY <1>1, <1>6, AnswerInv, GotoInv DEF AcceptCheck, HasArguments, Pc, Joining
<1>7. CASE ApplyRead(r)
  <2>1. CASE Finish(r)
        BY <1>7, <2>1, AnswerInv DEF ApplyRead
  <2>2. CASE ~Finish(r)
    <3>1. /\ Usable(req[r].i) /\ invite[req[r].i].to = req[r].u
          /\ Goto(r, "apply_commit") /\ req[r].pc = "apply_read"
          /\ UNCHANGED <<open, account, member, invite>>
          BY <1>7, <2>2 DEF ApplyRead
    <3>2. req[r].u \in User /\ req[r].i \in Invite
          BY <1>1, <3>1 DEF HasArguments, Pc
    <3>3. req[r].u \in account
          BY <1>1, <3>1
    <3>4. QED
          BY <3>1, <3>2, <3>3, GotoInv DEF Pc
  <2>3. QED
        BY <2>1, <2>2
<1>8. CASE Abort(r)
      BY <1>8, AnswerInv DEF Abort, Answer
<1>9. QED
      BY <1>2, <1>3, <1>4, <1>5, <1>6, <1>7, <1>8

\* The table changes and no request moves.
LEMMA TableInv ==
    ASSUME Inv, UNCHANGED req, Grows, MembersAccepted',
           open' \in BOOLEAN, account' \subseteq User, member' \subseteq account',
           invite' \in [Invite -> InviteRow],
           ~open' => member' = {} /\ \A i \in Invite : invite'[i] = NoRow
    PROVE  Inv'
<1>1. req \in [Request -> RequestState] /\ \A r \in Request : HasArguments(req[r])
      BY DEF Inv, TypeOK, HasArguments
<1>2. ASSUME NEW r \in Request PROVE Inv'
  <2>1. PICK q \in RequestState : q = req[r]
        BY <1>1
  <2>2. req' = [req EXCEPT ![r] = q] /\ HasArguments(q) /\ Justified(q)
        BY <1>1, <2>1 DEF Inv
  <2>3. Justified(q)'
        BY <2>2, StaysJustified DEF Inv
  <2>4. QED
        BY <2>2, <2>3, StepInv
<1>3. CASE Request = {}
      BY <1>1, <1>3 DEF Inv, TypeOK
<1>4. QED
      BY <1>2, <1>3

\* Writing one invite row that keeps its addressee, or is new.
LEMMA WriteInv ==
    ASSUME Inv, NEW i \in Invite, NEW x \in InviteRow, open,
           invite' = [invite EXCEPT ![i] = x],
           UNCHANGED <<open, account, member>>,
           Exists(i) => /\ x.to = invite[i].to
                        /\ invite[i].accepted => x.accepted
                        /\ invite[i].revoked => x.revoked
                        /\ invite[i].expired => x.expired
    PROVE  /\ Grows /\ MembersAccepted'
           /\ open' \in BOOLEAN /\ account' \subseteq User /\ member' \subseteq account'
           /\ invite' \in [Invite -> InviteRow]
           /\ ~open' => member' = {} /\ \A j \in Invite : invite'[j] = NoRow
<1>1. TypeOK /\ MembersAccepted
      BY DEF Inv
<1>2. /\ invite' \in [Invite -> InviteRow]
      /\ \A j \in Invite : invite'[j] = IF j = i THEN x ELSE invite[j]
      BY <1>1 DEF TypeOK
<1>3. Grows
      BY <1>2 DEF Grows
<1>4. MembersAccepted'
  <2>1. ASSUME NEW u \in member'
        PROVE  \E j \in Invite : invite'[j].to = u /\ invite'[j].accepted
    <3>1. PICK j \in Invite : invite[j].to = u /\ invite[j].accepted
          BY <1>1, <2>1 DEF MembersAccepted
    <3>2. u # None
          BY <1>1, <2>1, NoneAssumption DEF TypeOK
    <3>3. Exists(j)
          BY <3>1, <3>2 DEF Exists
    <3>4. QED
          BY <1>2, <3>1, <3>3
  <2>2. QED
        BY <2>1 DEF MembersAccepted
<1>5. QED
      BY <1>1, <1>2, <1>3, <1>4 DEF TypeOK

\* Creating an invite fills a row that was not there.
LEMMA CreateCommitInv ==
    ASSUME Inv, NEW r \in Request, CreateCommit(r) PROVE Inv'
<1>1. Finish(r) /\ UNCHANGED <<open, account, member>>
      BY DEF CreateCommit
<1>2. CASE ~open
      BY <1>1, <1>2, AnswerInv DEF CreateCommit
<1>3. CASE open
  <2>1. PICK i \in Invite : ~Exists(i) /\ invite' = [invite EXCEPT ![i].to = req[r].u]
        BY <1>3 DEF CreateCommit
  <2> DEFINE x == [invite[i] EXCEPT !.to = req[r].u]
  <2>2. invite[i] \in InviteRow /\ req[r].u \in User
        BY DEF CreateCommit, Inv, TypeOK, Pc
  <2>3. x \in InviteRow /\ invite' = [invite EXCEPT ![i] = x]
        BY <2>1, <2>2 DEF InviteRow
  <2> HIDE DEF x
  <2>4. QED
        BY <1>1, <1>3, <2>1, <2>3, WriteInv, IdleFacts, StepInv DEF Finish
<1>4. QED
      BY <1>2, <1>3

\* Revoking an invite leaves its addressee and its acceptance alone.
LEMMA RevokeCommitInv ==
    ASSUME Inv, NEW r \in Request, RevokeCommit(r) PROVE Inv'
<1>1. Finish(r) /\ UNCHANGED <<open, account, member>>
      BY DEF RevokeCommit
<1>2. req[r].i \in Invite
      BY DEF RevokeCommit, Inv, TypeOK
<1> DEFINE i == req[r].i
           x == [invite[i] EXCEPT !.revoked = TRUE]
<1>3. CASE ~Exists(i)
      BY <1>1, <1>3, AnswerInv DEF RevokeCommit
<1>4. CASE Exists(i)
  <2>1. invite[i] \in InviteRow
        BY <1>2 DEF Inv, TypeOK
  <2>2. /\ x \in InviteRow /\ invite' = [invite EXCEPT ![i] = x]
        /\ x.to = invite[i].to /\ x.accepted = invite[i].accepted
        /\ x.expired = invite[i].expired /\ x.revoked
        BY <1>4, <2>1 DEF InviteRow, RevokeCommit
  <2>3. open
        BY <1>2, <1>4, RowsAreOpen DEF Inv
  <2> HIDE DEF x
  <2>4. QED
        BY <1>1, <1>2, <2>2, <2>3, WriteInv, IdleFacts, StepInv DEF Finish
<1>5. QED
      BY <1>3, <1>4

\* An invite expires.
LEMMA ExpireInv ==
    ASSUME Inv, NEW i \in Invite, Expire(i) PROVE Inv'
<1> DEFINE x == [invite[i] EXCEPT !.expired = TRUE]
<1>1. invite[i] \in InviteRow
      BY DEF Inv, TypeOK
<1>2. /\ x \in InviteRow /\ invite' = [invite EXCEPT ![i] = x]
      /\ x.to = invite[i].to /\ x.accepted = invite[i].accepted
      /\ x.revoked = invite[i].revoked /\ x.expired
      BY <1>1 DEF InviteRow, Expire
<1>3. open /\ UNCHANGED <<open, account, member, req>>
      BY RowsAreOpen DEF Inv, Expire
<1> HIDE DEF x
<1>4. QED
      BY <1>2, <1>3, WriteInv, TableInv

\* Who is admitted has an account, and their invite to them is used up with it.
LEMMA AdmitInv ==
    ASSUME Inv, NEW r \in Request, AcceptCommit(r) \/ ApplyCommit(r) PROVE Inv'
<1>1. /\ Admit(r) /\ Finish(r) /\ UNCHANGED <<open, account>>
      /\ req[r].pc \in {"accept_commit", "apply_commit"}
      BY DEF AcceptCommit, ApplyCommit
<1>2. req[r].i \in Invite /\ req[r].u \in User /\ Justified(req[r])
      BY <1>1 DEF Inv, TypeOK, Pc
<1>3. CASE ~Admissible(r)
      BY <1>1, <1>3, AnswerInv DEF Admit
<1>4. CASE Admissible(r)
  <2> DEFINE i == req[r].i
             u == req[r].u
             x == [invite[i] EXCEPT !.accepted = TRUE]
  <2>1. /\ open /\ invite[i].to = u
        /\ member' = member \cup {u} /\ invite' = [invite EXCEPT ![i].accepted = TRUE]
        BY <1>1, <1>2, <1>4 DEF Admissible, Admit, Justified, Joining
  <2> u \in account /\ TypeOK
        BY <1>1, <1>2 DEF Justified, Joining, Inv
  <2>2. invite[i] \in InviteRow
        BY <1>2 DEF Inv, TypeOK
  <2>3. /\ x \in InviteRow /\ invite' = [invite EXCEPT ![i] = x]
        /\ x.to = invite[i].to /\ x.accepted
        /\ x.revoked = invite[i].revoked /\ x.expired = invite[i].expired
        BY <2>1, <2>2 DEF InviteRow
  <2> HIDE DEF x
  <2>4. /\ invite' \in [Invite -> InviteRow]
        /\ \A j \in Invite : invite'[j] = IF j = i THEN x ELSE invite[j]
        BY <2>3 DEF Inv, TypeOK
  <2>5. Grows
        BY <1>1, <2>3, <2>4 DEF Grows
  <2>6. MembersAccepted'
    <3>1. invite'[i].to = u /\ invite'[i].accepted
          BY <1>2, <2>1, <2>3, <2>4
    <3>2. \A v \in member : \E j \in Invite : invite'[j].to = v /\ invite'[j].accepted
          BY <2>3, <2>4 DEF Inv, MembersAccepted
    <3>3. QED
          BY <1>2, <2>1, <3>1, <3>2 DEF MembersAccepted
  <2>7. /\ open' \in BOOLEAN /\ account' \subseteq User /\ member' \subseteq account'
        /\ ~open' => member' = {} /\ \A j \in Invite : invite'[j] = NoRow
        BY <1>1, <2>1 DEF TypeOK
  <2>8. req' = [req EXCEPT ![r] = Idle]
        BY <1>1 DEF Finish
  <2>9. QED
        BY <2>4, <2>5, <2>6, <2>7, <2>8, IdleFacts, StepInv
<1>5. QED
      BY <1>3, <1>4

\* An account is created, or the address or name is taken.
LEMMA RegisterCommitInv ==
    ASSUME Inv, NEW r \in Request, RegisterCommit(r) PROVE Inv'
<1>1. /\ req[r] \in RequestState /\ HasArguments(req[r]) /\ Justified(req[r])
      /\ req[r].pc = "register_commit" /\ TypeOK /\ MembersAccepted
      BY DEF RegisterCommit, Inv, TypeOK, HasArguments
<1>2. /\ account' = account \cup {req[r].u} /\ req[r].u \in User
      /\ UNCHANGED <<open, member, invite>>
      BY <1>1 DEF RegisterCommit, HasArguments, Pc
<1>3. /\ Grows /\ MembersAccepted'
      /\ open' \in BOOLEAN /\ account' \subseteq User /\ member' \subseteq account'
      /\ invite' \in [Invite -> InviteRow]
      /\ ~open' => member' = {} /\ \A j \in Invite : invite'[j] = NoRow
      BY <1>1, <1>2 DEF Grows, MembersAccepted, TypeOK
<1>4. CASE Finish(r)
      BY <1>3, <1>4, IdleFacts, StepInv DEF Finish
<1>5. CASE ~Finish(r)
  <2>1. PICK q \in RequestState : q = [req[r] EXCEPT !.pc = "apply_read"]
        BY <1>1 DEF RequestState, Pc
  <2>2. /\ q.pc = "apply_read" /\ q.u = req[r].u /\ q.i = req[r].i /\ q.dead = req[r].dead
        BY <1>1, <2>1 DEF RequestState
  <2>3. Goto(r, "apply_read") /\ req[r].i # None
        BY <1>5 DEF RegisterCommit
  <2>4. req' = [req EXCEPT ![r] = q]
        BY <2>1, <2>3 DEF Goto
  <2>5. q.i \in Invite
        BY <1>1, <2>2, <2>3 DEF RequestState
  <2>6. HasArguments(q)
        BY <1>2, <2>2, <2>5 DEF HasArguments
  <2>7. Justified(q)'
        BY <1>1, <1>2, <2>2 DEF Justified, Joining, Exists, Usable
  <2>8. QED
        BY <1>3, <2>4, <2>6, <2>7, StepInv
<1>6. QED
      BY <1>4, <1>5

\* A member is removed.
LEMMA RemoveMemberInv ==
    ASSUME Inv, NEW u \in User, RemoveMember(u) PROVE Inv'
<1>1. member' = member \ {u} /\ UNCHANGED <<open, account, invite, req>>
      BY DEF RemoveMember
<1>2. Grows /\ MembersAccepted'
      BY <1>1 DEF Grows, Inv, MembersAccepted
<1>3. QED
      BY <1>1, <1>2, TableInv DEF Inv, TypeOK

\* The workspace goes, with its members and its invites.
LEMMA DropWorkspaceInv ==
    ASSUME Inv, DropWorkspace PROVE Inv'
<1>1. /\ ~open' /\ open' \in BOOLEAN /\ member' = {}
      /\ invite' = [i \in Invite |-> NoRow]
      /\ UNCHANGED <<account, req>>
      BY DEF DropWorkspace
<1>2. NoRow \in InviteRow
      BY DEF NoRow, InviteRow
<1>3. Grows /\ MembersAccepted'
      BY <1>1 DEF Grows, MembersAccepted
<1>4. QED
      BY <1>1, <1>2, <1>3, TableInv DEF Inv, TypeOK

\* Every step preserves the invariant.
LEMMA NextInv == Inv /\ [Next]_vars => Inv'
<1> SUFFICES ASSUME Inv, [Next]_vars PROVE Inv'
    OBVIOUS
<1>1. ASSUME NEW r \in Request, Step(r) PROVE Inv'
      BY <1>1, ReceiveInv, ReadInv, CreateCommitInv, RevokeCommitInv, AdmitInv,
         RegisterCommitInv
      DEF Step
<1>2. ASSUME NEW i \in Invite, Expire(i) PROVE Inv'
      BY <1>2, ExpireInv
<1>3. ASSUME NEW u \in User, RemoveMember(u) PROVE Inv'
      BY <1>3, RemoveMemberInv
<1>4. CASE UNCHANGED vars
      BY <1>4 DEF vars, Inv, TypeOK, MembersAccepted, Justified, Exists, Usable
<1>5. QED
      BY <1>1, <1>2, <1>3, <1>4, DropWorkspaceInv DEF Next

-----------------------------------------------------------------------------
(* The theorems.                                                           *)

\* The inductive invariant: whoever is about to be admitted has a live invite
\* of their own.
THEOREM InvHolds == Spec => []Inv
<1>1. Init => Inv
      BY InitInv
<1>2. Inv /\ [Next]_vars => Inv'
      BY NextInv
<1>3. QED
      BY <1>1, <1>2, PTL DEF Spec

\* Every variable keeps its type, members have accounts, and a workspace that is
\* gone has neither members nor invites.
THEOREM TypeCorrect == Spec => []TypeOK
<1>1. Inv => TypeOK
      BY DEF Inv
<1>2. QED
      BY <1>1, InvHolds, PTL

\* Nobody is a member without an invite to them that is used up
\* (accept_invite and _try_apply_invite_on_register are the only ways in).
THEOREM OnlyTheInvited == Spec => []MembersAccepted
<1>1. Inv => MembersAccepted
      BY DEF Inv
<1>2. QED
      BY <1>1, InvHolds, PTL

\* The two tables that matter change together only where somebody is admitted;
\* no other step adds a member or uses up an invite.
LEMMA OthersAdmitNobody ==
    ASSUME Inv, NEW r \in Request, Step(r), ~AcceptCommit(r), ~ApplyCommit(r)
    PROVE  /\ member' = member
           /\ \A i \in Invite : invite'[i].accepted => invite[i].accepted
<1>1. invite \in [Invite -> InviteRow]
      BY DEF Inv, TypeOK
<1>2. CASE CreateCommit(r)
  <2>1. CASE open
    <3>1. PICK i \in Invite : invite' = [invite EXCEPT ![i].to = req[r].u]
          BY <1>2, <2>1 DEF CreateCommit
    <3>2. invite'[i].accepted = invite[i].accepted
          BY <1>1, <3>1 DEF InviteRow
    <3>3. QED
          BY <1>1, <1>2, <3>1, <3>2 DEF CreateCommit
  <2>2. QED
        BY <1>2, <2>1 DEF CreateCommit
<1>3. CASE RevokeCommit(r)
  <2>1. CASE invite' = [invite EXCEPT ![req[r].i].revoked = TRUE]
        BY <1>1, <1>3, <2>1 DEF RevokeCommit, InviteRow
  <2>2. QED
        BY <1>3, <2>1 DEF RevokeCommit
<1>4. CASE ~CreateCommit(r) /\ ~RevokeCommit(r)
  <2>1. UNCHANGED <<member, invite>>
        BY <1>4
        DEF Step, Receive, Abort, Answer, CreateMember, CreatePending, RevokeRead,
            AcceptRead, AcceptCheck, RegisterCommit, ApplyRead
  <2>2. QED
        BY <2>1
<1>5. QED
      BY <1>2, <1>3, <1>4

\* The effect of the two commits that may admit somebody.
LEMMA AdmitEffect ==
    ASSUME Inv, NEW r \in Request, AcceptCommit(r) \/ ApplyCommit(r)
    PROVE  \/ UNCHANGED <<member, invite>>
           \/ /\ req[r].u \notin member /\ member' = member \cup {req[r].u}
              /\ ~req[r].dead /\ req'[r].pc = "idle"
              /\ \A i \in Invite : i # req[r].i => invite'[i] = invite[i]
              /\ invite[req[r].i].to = req[r].u
<1>1. CASE ~Admissible(r)
      BY <1>1 DEF AcceptCommit, ApplyCommit, Admit
<1>2. CASE Admissible(r)
  <2>1. /\ req[r].i \in Invite /\ Justified(req[r]) /\ TypeOK
        /\ req[r].pc \in {"accept_commit", "apply_commit"}
        BY DEF AcceptCommit, ApplyCommit, Inv, TypeOK
  <2>2. /\ member' = member \cup {req[r].u}
        /\ invite' = [invite EXCEPT ![req[r].i].accepted = TRUE]
        /\ req' = [req EXCEPT ![r] = Idle]
        BY <1>2 DEF AcceptCommit, ApplyCommit, Admit, Finish
  <2>3. req'[r].pc = "idle"
        BY <2>1, <2>2 DEF TypeOK, Idle
  <2>4. QED
        BY <1>2, <2>1, <2>2, <2>3 DEF Admissible, Justified, Joining, TypeOK
<1>3. QED
      BY <1>1, <1>2

\* The environment admits nobody and uses up nothing.
LEMMA EnvironmentAdmitsNobody ==
    ASSUME Inv,
           \/ UNCHANGED vars \/ DropWorkspace
           \/ \E i \in Invite : Expire(i)
           \/ \E u \in User : RemoveMember(u)
    PROVE  /\ member' \subseteq member
           /\ \A i \in Invite : invite'[i].accepted => invite[i].accepted
<1>1. invite \in [Invite -> InviteRow]
      BY DEF Inv, TypeOK
<1>2. CASE UNCHANGED vars
      BY <1>2 DEF vars
<1>3. CASE DropWorkspace
      BY <1>3 DEF DropWorkspace, NoRow
<1>4. ASSUME NEW j \in Invite, Expire(j)
      PROVE  /\ member' = member
             /\ \A i \in Invite : invite'[i].accepted => invite[i].accepted
      BY <1>1, <1>4 DEF Expire, InviteRow
<1>5. ASSUME NEW u \in User, RemoveMember(u)
      PROVE  member' \subseteq member /\ invite' = invite
      BY <1>5 DEF RemoveMember
<1>6. QED
      BY <1>2, <1>3, <1>4, <1>5

\* An invite is used up only in the commit that makes its addressee a member.
THEOREM UsedUpByJoining == Spec => UsedUpOnlyByJoining
<1>1. ASSUME Inv, [Next]_vars, NEW i \in Invite, invite'[i].accepted, ~invite[i].accepted
      PROVE  invite[i].to \in member' \ member
  <2>1. PICK r \in Request : AcceptCommit(r) \/ ApplyCommit(r)
        BY <1>1, OthersAdmitNobody, EnvironmentAdmitsNobody DEF Next
  <2>2. invite'[i] # invite[i]
        BY <1>1
  <2>3. QED
        BY <1>1, <2>1, <2>2, AdmitEffect
<1>2. Inv /\ [Next]_vars =>
         [\A i \in Invite : invite'[i].accepted /\ ~invite[i].accepted
             => invite[i].to \in member' \ member]_vars
      BY <1>1
<1>3. QED
      BY <1>2, InvHolds, PTL DEF Spec, UsedUpOnlyByJoining

\* Whoever becomes a member does so by a request that did not arrive with a
\* revoked, expired or used up invite.
THEOREM DeadInvitesAdmitNobody == Spec => NoEntryOnDeadInvite
<1>1. ASSUME Inv, [Next]_vars, NEW u \in member' \ member
      PROVE  \E r \in Request : /\ req[r].pc \in {"accept_commit", "apply_commit"}
                                /\ req[r].u = u
                                /\ ~req[r].dead
                                /\ req'[r].pc = "idle"
  <2>1. PICK r \in Request : AcceptCommit(r) \/ ApplyCommit(r)
        BY <1>1, OthersAdmitNobody, EnvironmentAdmitsNobody DEF Next
  <2>2. req[r].pc \in {"accept_commit", "apply_commit"}
        BY <2>1 DEF AcceptCommit, ApplyCommit
  <2>3. QED
        BY <1>1, <2>1, <2>2, AdmitEffect
<1>2. Inv /\ [Next]_vars =>
         [\A u \in member' \ member :
             \E r \in Request : /\ req[r].pc \in {"accept_commit", "apply_commit"}
                                /\ req[r].u = u
                                /\ ~req[r].dead
                                /\ req'[r].pc = "idle"]_vars
      BY <1>1
<1>3. QED
      BY <1>2, InvHolds, PTL DEF Spec, NoEntryOnDeadInvite

-----------------------------------------------------------------------------
(* Pending invites.                                                        *)

\* Fewer rows and fewer creations stay within the bound.
LEMMA FewerBounded ==
    ASSUME NEW P, NEW Q \in SUBSET P, NEW C \in SUBSET Request, NEW D \in SUBSET C,
           IsFiniteSet(P), Cardinality(P) + Cardinality(C) <= Cardinality(Request)
    PROVE  IsFiniteSet(Q) /\ Cardinality(Q) + Cardinality(D) <= Cardinality(Request)
<1>1. IsFiniteSet(C) /\ IsFiniteSet(D) /\ IsFiniteSet(Q)
      BY RequestAssumption, FS_Subset
<1>2. Cardinality(Q) <= Cardinality(P) /\ Cardinality(D) <= Cardinality(C)
      BY <1>1, FS_Subset
<1>3. /\ Cardinality(P) \in Nat /\ Cardinality(Q) \in Nat
      /\ Cardinality(C) \in Nat /\ Cardinality(D) \in Nat
      /\ Cardinality(Request) \in Nat
      BY <1>1, RequestAssumption, FS_CardinalityType
<1>4. QED
      BY <1>1, <1>2, <1>3

\* A step that makes no invite pending and begins no creation.
LEMMA FewerCounted ==
    ASSUME CreationsCounted,
           \A e \in User, i \in Invite : Pending(i, e)' => Pending(i, e),
           \A r \in Request : req'[r].pc = "create_commit" => req'[r] = req[r]
    PROVE  CreationsCounted'
<1>1. ASSUME NEW e \in User, NEW P, NEW Q, NEW C, NEW D,
             P = PendingFor(e), Q = PendingFor(e)', C = CreatingFor(e), D = CreatingFor(e)'
      PROVE  IsFiniteSet(Q) /\ Cardinality(Q) + Cardinality(D) <= Cardinality(Request)
  <2>1. Q \in SUBSET P
        BY <1>1 DEF PendingFor
  <2>2. C \in SUBSET Request /\ D \in SUBSET C
        BY <1>1 DEF CreatingFor
  <2>3. IsFiniteSet(P) /\ Cardinality(P) + Cardinality(C) <= Cardinality(Request)
        BY <1>1 DEF CreationsCounted
  <2>4. QED
        BY <2>1, <2>2, <2>3, FewerBounded
<1>2. QED
      BY <1>1 DEF CreationsCounted

\* The marks on a row make it less usable, never more.
LEMMA MarkedIsNotPending ==
    ASSUME Inv, NEW i \in Invite, NEW x \in InviteRow,
           invite' = [invite EXCEPT ![i] = x], x.to = invite[i].to,
           invite[i].accepted => x.accepted, invite[i].revoked => x.revoked,
           invite[i].expired => x.expired
    PROVE  \A e \in User, j \in Invite : Pending(j, e)' => Pending(j, e)
<1>1. \A j \in Invite : invite'[j] = IF j = i THEN x ELSE invite[j]
      BY DEF Inv, TypeOK
<1>2. QED
      BY <1>1 DEF Pending, Usable, Exists

LEMMA AbsentIsNotPending ==
    ASSUME NEW e \in User, NEW i \in Invite, ~Exists(i)
    PROVE  ~Pending(i, e)
BY DEF Pending, Usable

\* What the steps other than those of a creation do to the table.
LEMMA OthersMakeNonePending ==
    ASSUME Inv, NEW r \in Request,
           \/ RevokeCommit(r) \/ AcceptCommit(r) \/ ApplyCommit(r) \/ UNCHANGED invite
    PROVE  \A e \in User, j \in Invite : Pending(j, e)' => Pending(j, e)
<1>1. CASE UNCHANGED invite
      BY <1>1 DEF Pending, Usable, Exists
<1>2. CASE RevokeCommit(r) /\ ~UNCHANGED invite
  <2>1. PICK i \in Invite : i = req[r].i /\ invite' = [invite EXCEPT ![i].revoked = TRUE]
        BY <1>2 DEF RevokeCommit, Inv, TypeOK
  <2>2. PICK x : x = [invite[i] EXCEPT !.revoked = TRUE]
        OBVIOUS
  <2>3. invite[i] \in InviteRow
        BY DEF Inv, TypeOK
  <2>4. /\ x \in InviteRow /\ x.to = invite[i].to /\ x.accepted = invite[i].accepted
        /\ x.revoked /\ x.expired = invite[i].expired
        BY <2>2, <2>3 DEF InviteRow
  <2>5. invite' = [invite EXCEPT ![i] = x]
        BY <2>1, <2>2
  <2>6. QED
        BY <2>4, <2>5, MarkedIsNotPending
<1>3. CASE (AcceptCommit(r) \/ ApplyCommit(r)) /\ ~UNCHANGED invite
  <2>1. req[r].i \in Invite /\ Admit(r)
        BY <1>3 DEF AcceptCommit, ApplyCommit, Inv, TypeOK
  <2>2. PICK i \in Invite : i = req[r].i /\ invite' = [invite EXCEPT ![i].accepted = TRUE]
        BY <1>3, <2>1 DEF Admit
  <2>3. PICK x : x = [invite[i] EXCEPT !.accepted = TRUE]
        OBVIOUS
  <2>4. invite[i] \in InviteRow
        BY DEF Inv, TypeOK
  <2>5. /\ x \in InviteRow /\ x.to = invite[i].to /\ x.accepted
        /\ x.revoked = invite[i].revoked /\ x.expired = invite[i].expired
        BY <2>3, <2>4 DEF InviteRow
  <2>6. invite' = [invite EXCEPT ![i] = x]
        BY <2>2, <2>3
  <2>7. QED
        BY <2>5, <2>6, MarkedIsNotPending
<1>4. QED
      BY <1>1, <1>2, <1>3

\* Nobody but CreatePending brings a request to the commit of a creation.
LEMMA OthersBeginNone ==
    ASSUME Inv, NEW r \in Request, Step(r), ~CreatePending(r)
    PROVE  \A s \in Request : req'[s].pc = "create_commit" => req'[s] = req[s]
<1>1. req \in [Request -> RequestState]
      BY DEF Inv, TypeOK
<1>2. ASSUME NEW pc, pc # "create_commit", Goto(r, pc)
      PROVE  \A s \in Request : req'[s].pc = "create_commit" => req'[s] = req[s]
      BY <1>1, <1>2 DEF Goto, RequestState
<1>3. ASSUME Finish(r)
      PROVE  \A s \in Request : req'[s].pc = "create_commit" => req'[s] = req[s]
      BY <1>1, <1>3 DEF Finish, Idle
<1>4. ASSUME NEW pc, NEW u, NEW i, pc # "create_commit", Arrive(r, pc, u, i)
      PROVE  \A s \in Request : req'[s].pc = "create_commit" => req'[s] = req[s]
      BY <1>1, <1>4 DEF Arrive
<1>5. CASE Receive(r)
      BY <1>4, <1>5 DEF Receive
<1>6. CASE ~Receive(r)
      BY <1>2, <1>3, <1>6
         DEF Step, Abort, Answer, CreateMember, CreateCommit, RevokeRead, RevokeCommit, AcceptRead,
             AcceptCheck, AcceptCommit, RegisterCommit, ApplyRead, ApplyCommit
<1>7. QED
      BY <1>5, <1>6

\* A creation begins: there is no pending invite, and no more creations than
\* requests.
LEMMA CreatePendingCounted ==
    ASSUME Inv, CreationsCounted, NEW r \in Request, CreatePending(r)
    PROVE  CreationsCounted'
<1>1. UNCHANGED invite /\ req \in [Request -> RequestState]
      BY DEF CreatePending, Inv, TypeOK
<1>2. CASE Finish(r)
  <2>1. \A s \in Request : req'[s].pc = "create_commit" => req'[s] = req[s]
        BY <1>1, <1>2 DEF Finish, Idle
  <2>2. QED
        BY <1>1, <2>1, FewerCounted, OthersMakeNonePending
<1>3. CASE ~Finish(r)
  <2>1. Goto(r, "create_commit") /\ ~\E i \in Invite : Pending(i, req[r].u)
        BY <1>3 DEF CreatePending
  <2>2. \A s \in Request : s # r => req'[s] = req[s]
        BY <1>1, <2>1 DEF Goto
  <2>3. req'[r].u = req[r].u
        BY <1>1, <2>1 DEF Goto, RequestState
  <2>4. \A e \in User : PendingFor(e)' = PendingFor(e)
        BY <1>1 DEF PendingFor, Pending, Usable, Exists
  <2>5. ASSUME NEW e \in User, NEW Q, NEW C, NEW D,
               Q = PendingFor(e)', C = CreatingFor(e), D = CreatingFor(e)'
        PROVE  IsFiniteSet(Q) /\ Cardinality(Q) + Cardinality(D) <= Cardinality(Request)
    <3>1. CASE e = req[r].u
      <4>1. Q = {}
            BY <2>1, <2>4, <2>5, <3>1 DEF PendingFor
      <4>2. D \in SUBSET Request
            BY <2>5 DEF CreatingFor
      <4>3. Cardinality(Q) = 0 /\ IsFiniteSet(Q)
            BY <4>1, FS_EmptySet
      <4>4. /\ Cardinality(D) <= Cardinality(Request)
            /\ Cardinality(D) \in Nat /\ Cardinality(Request) \in Nat
            BY <4>2, RequestAssumption, FS_Subset, FS_CardinalityType
      <4>5. QED
            BY <4>3, <4>4
    <3>2. CASE e # req[r].u
      <4>1. C \in SUBSET Request /\ D \in SUBSET C
            BY <2>2, <2>3, <2>5, <3>2 DEF CreatingFor
      <4>2. IsFiniteSet(Q) /\ Cardinality(Q) + Cardinality(C) <= Cardinality(Request)
            BY <2>4, <2>5 DEF CreationsCounted
      <4>3. QED
            BY <4>1, <4>2, FewerBounded
    <3>3. QED
          BY <3>1, <3>2
  <2>6. QED
        BY <2>5 DEF CreationsCounted
<1>4. QED
      BY <1>2, <1>3

\* A creation commits: one invite more, one creation less.
LEMMA CreateCommitCounted ==
    ASSUME Inv, CreationsCounted, NEW r \in Request, CreateCommit(r)
    PROVE  CreationsCounted'
<1>1. /\ req \in [Request -> RequestState] /\ req[r].pc = "create_commit"
      /\ req' = [req EXCEPT ![r] = Idle] /\ invite \in [Invite -> InviteRow]
      BY DEF CreateCommit, Inv, TypeOK, Finish
<1>2. /\ req'[r].pc = "idle"
      /\ \A s \in Request : s # r => req'[s] = req[s]
      BY <1>1 DEF Idle
<1>3. CASE UNCHANGED invite
  <2>1. \A s \in Request : req'[s].pc = "create_commit" => req'[s] = req[s]
        BY <1>2
  <2>2. QED
        BY <1>3, <2>1, FewerCounted, OthersMakeNonePending
<1>4. CASE ~UNCHANGED invite
  <2>1. PICK i \in Invite : /\ ~Exists(i)
                            /\ invite' = [invite EXCEPT ![i].to = req[r].u]
        BY <1>4 DEF CreateCommit
  <2>2. /\ \A j \in Invite : j # i => invite'[j] = invite[j]
        /\ invite'[i].to = req[r].u
        BY <1>1, <2>1 DEF InviteRow
  <2>3. ASSUME NEW e \in User, NEW P, NEW Q, NEW C, NEW D,
               P = PendingFor(e), Q = PendingFor(e)', C = CreatingFor(e), D = CreatingFor(e)'
        PROVE  IsFiniteSet(Q) /\ Cardinality(Q) + Cardinality(D) <= Cardinality(Request)
    <3>1. /\ IsFiniteSet(P) /\ Cardinality(P) + Cardinality(C) <= Cardinality(Request)
          /\ C \in SUBSET Request
          BY <2>3 DEF CreationsCounted, CreatingFor
    <3>2. CASE e # req[r].u
      <4>1. Q \in SUBSET P
            BY <2>2, <2>3, <3>2 DEF PendingFor, Pending, Usable, Exists
      <4>2. D \in SUBSET C
            BY <1>2, <2>3 DEF CreatingFor
      <4>3. QED
            BY <3>1, <4>1, <4>2, FewerBounded
    <3>3. CASE e = req[r].u
      <4>1. Q \in SUBSET (P \cup {i})
            BY <2>2, <2>3 DEF PendingFor, Pending, Usable, Exists
      <4>2. r \in C /\ D = C \ {r}
            BY <1>1, <1>2, <2>3, <3>3 DEF CreatingFor
      <4>3. IsFiniteSet(C) /\ IsFiniteSet(P \cup {i})
            BY <3>1, RequestAssumption, FS_Subset, FS_AddElement
      <4>4. /\ Cardinality(D) = Cardinality(C) - 1
            /\ Cardinality(C) \in Nat /\ Cardinality(P) \in Nat
            /\ Cardinality(Request) \in Nat
            BY <3>1, <4>2, <4>3, RequestAssumption, FS_RemoveElement, FS_CardinalityType
      <4>5. Cardinality(P \cup {i}) \in Nat /\ Cardinality(P \cup {i}) <= Cardinality(P) + 1
        <5>1. IsFiniteSet(P)
              BY <3>1
        <5>2. Cardinality(P \cup {i}) = IF i \in P THEN Cardinality(P) ELSE Cardinality(P) + 1
              BY <5>1, FS_AddElement
        <5>3. QED
              BY <4>4, <5>2
      <4>6. IsFiniteSet(Q) /\ Cardinality(Q) <= Cardinality(P \cup {i}) /\ Cardinality(Q) \in Nat
            BY <4>1, <4>3, FS_Subset, FS_CardinalityType
      <4>7. QED
            BY <3>1, <4>4, <4>5, <4>6
    <3>4. QED
          BY <3>2, <3>3
  <2>4. QED
        BY <2>3 DEF CreationsCounted
<1>5. QED
      BY <1>3, <1>4

LEMMA CountedNext == Inv /\ CreationsCounted /\ [Next]_vars => CreationsCounted'
<1>1. SUFFICES ASSUME Inv, CreationsCounted, [Next]_vars
               PROVE  CreationsCounted'
      OBVIOUS
<1>2. ASSUME NEW r \in Request, Step(r), ~CreatePending(r), ~CreateCommit(r)
      PROVE  CreationsCounted'
  <2>1. \/ RevokeCommit(r) \/ AcceptCommit(r) \/ ApplyCommit(r) \/ UNCHANGED invite
        BY <1>2 DEF Step, Receive, Abort, Answer, CreateMember, RevokeRead, AcceptRead,
                    AcceptCheck, RegisterCommit, ApplyRead
  <2>2. \A e \in User, j \in Invite : Pending(j, e)' => Pending(j, e)
        BY <1>1, <2>1, OthersMakeNonePending
  <2>3. QED
        BY <1>1, <1>2, <2>2, OthersBeginNone, FewerCounted
<1>3. ASSUME UNCHANGED req, \A e \in User, j \in Invite : Pending(j, e)' => Pending(j, e)
      PROVE  CreationsCounted'
      BY <1>1, <1>3, FewerCounted
<1>4. ASSUME NEW i \in Invite, Expire(i)
      PROVE  CreationsCounted'
  <2>1. PICK x : x = [invite[i] EXCEPT !.expired = TRUE]
        OBVIOUS
  <2>2. invite[i] \in InviteRow
        BY <1>1 DEF Inv, TypeOK
  <2>3. /\ x \in InviteRow /\ x.to = invite[i].to /\ x.accepted = invite[i].accepted
        /\ x.revoked = invite[i].revoked /\ x.expired
        BY <2>1, <2>2 DEF InviteRow
  <2>4. UNCHANGED req /\ invite' = [invite EXCEPT ![i] = x]
        BY <1>4, <2>1 DEF Expire
  <2>5. QED
        BY <1>1, <1>3, <2>3, <2>4, MarkedIsNotPending
<1>5. ASSUME NEW u \in User, RemoveMember(u)
      PROVE  CreationsCounted'
      BY <1>3, <1>5 DEF RemoveMember, Pending, Usable, Exists
<1>6. CASE DropWorkspace
  <2>1. UNCHANGED req /\ \A i \in Invite : invite'[i].to = None
        BY <1>6 DEF DropWorkspace, NoRow
  <2>2. \A e \in User, j \in Invite : ~Pending(j, e)'
        BY <2>1 DEF Pending, Usable, Exists
  <2>3. QED
        BY <1>3, <2>1, <2>2
<1>7. CASE UNCHANGED vars
      BY <1>3, <1>7 DEF vars, Pending, Usable, Exists
<1>8. QED
      BY <1>1, <1>2, <1>4, <1>5, <1>6, <1>7, CreatePendingCounted, CreateCommitCounted DEF Next

\* However many owners' tabs create invites for one address at once, and
\* whatever becomes of them, an address never has more pending invites than
\* the server has threads.
THEOREM FewPending == Spec => []PendingBounded
<1>1. Init => CreationsCounted
  <2>1. SUFFICES ASSUME Init PROVE CreationsCounted
        OBVIOUS
  <2>2. ASSUME NEW e \in User
        PROVE  PendingFor(e) = {} /\ CreatingFor(e) = {}
        BY <2>1 DEF Init, PendingFor, CreatingFor, Pending, Usable, Exists, NoRow, Idle
  <2>3. /\ IsFiniteSet({}) /\ Cardinality({}) = 0 /\ Cardinality(Request) \in Nat
        BY RequestAssumption, FS_EmptySet, FS_CardinalityType
  <2>4. QED
        BY <2>2, <2>3 DEF CreationsCounted
<1>2. Inv /\ CreationsCounted /\ [Next]_vars => CreationsCounted'
      BY CountedNext
<1>3. CreationsCounted => PendingBounded
  <2>1. ASSUME NEW e \in User, NEW P, NEW C, P = PendingFor(e), C = CreatingFor(e),
               CreationsCounted
        PROVE  Cardinality(P) <= Cardinality(Request)
    <3>1. IsFiniteSet(P) /\ IsFiniteSet(C)
          BY <2>1, RequestAssumption, FS_Subset DEF CreationsCounted, CreatingFor
    <3>2. /\ Cardinality(P) \in Nat /\ Cardinality(C) \in Nat /\ Cardinality(Request) \in Nat
          /\ Cardinality(P) + Cardinality(C) <= Cardinality(Request)
          BY <2>1, <3>1, RequestAssumption, FS_CardinalityType DEF CreationsCounted
    <3>3. QED
          BY <3>2
  <2>2. QED
        BY <2>1 DEF PendingBounded
<1>4. QED
      BY <1>1, <1>2, <1>3, InvHolds, PTL DEF Spec

=============================================================================
