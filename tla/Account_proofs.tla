--------------------------- MODULE Account_proofs ---------------------------
(***************************************************************************)
(* Proofs about Account, for any number of users, addresses, links and     *)
(* requests: its invariants, who is left as an admin, and that both kinds  *)
(* of mailed link implement Links.                                         *)
(***************************************************************************)
EXTENDS Account, FiniteSetTheorems, TLAPS

-----------------------------------------------------------------------------
(* Requests.                                                               *)

\* An idle worker's state is a request state, and knows nothing.
LEMMA IdleType == Idle \in RequestState /\ Knows(Idle) /\ Idle.pc = "idle"
BY DEF Idle, RequestState, Pc, Knows

\* What a step of one request does to the requests.
LEMMA OneMoves ==
    ASSUME TypeOK, NEW r \in Request, NEW q \in RequestState,
           req' = [req EXCEPT ![r] = q]
    PROVE  /\ req' \in [Request -> RequestState]
           /\ req'[r] = q
           /\ \A s \in Request \ {r} : req'[s] = req[s]
BY DEF TypeOK

\* The invariant survives a step that leaves the tables alone and leaves the
\* request with what it knows to be true.
LEMMA Quiet ==
    ASSUME Inv, NEW r \in Request, NEW q \in RequestState, Knows(q),
           req' = [req EXCEPT ![r] = q], UNCHANGED <<expired, tables>>
    PROVE  Inv'
<1>1. TypeOK /\ \A s \in Request : Knows(req[s])
      BY DEF Inv
<1>2. /\ req' \in [Request -> RequestState]
      /\ req'[r] = q
      /\ \A s \in Request \ {r} : req'[s] = req[s]
      BY <1>1, OneMoves
<1>3. TypeOK'
      BY <1>1, <1>2 DEF TypeOK, tables
<1>4. LinksAreDrawn' /\ OneUnusedReset' /\ UsedIsMarked'
      BY DEF Inv, tables, LinksAreDrawn, OneUnusedReset, UsedIsMarked, UnusedOf, ResetsOf
<1>5. ResetLinkUsedOnce' /\ DeletedIsDeleted' /\ GoogleOnlyVerified'
      BY DEF Inv, tables, ResetLinkUsedOnce, DeletedIsDeleted, GoogleOnlyVerified, ResetsOf
<1>6. ASSUME NEW s \in Request PROVE Knows(req[s])'
  <2>1. Knows(req'[s])
        BY <1>1, <1>2
  <2>2. QED
        BY <2>1 DEF Knows, tables, UnusedOf, ResetsOf, Exists
<1>7. QED
      BY <1>3, <1>4, <1>5, <1>6 DEF Inv

\* An answer that leaves the tables alone.
LEMMA AnswerKeeps ==
    ASSUME Inv, NEW r \in Request, Answer(r), UNCHANGED expired
    PROVE  Inv'
BY IdleType, Quiet DEF Answer, Finish, tables

-----------------------------------------------------------------------------
(* Requests that read and leave the tables alone.                          *)

\* What a request that has begun to verify, reset or link knows.
LEMMA ReadsKeep ==
    ASSUME Inv, UNCHANGED expired, NEW r \in Request,
           \/ \E u \in User : Resend(r, u)
           \/ SendRead(r)
           \/ \E u \in User, l \in Link : VerifyRead(r, u, l)
           \/ \E u \in User, a \in Address : ResetRead(r, u, a)
           \/ \E s \in Sub, a \in Address : GoogleUnknownSub(r, s, a)
    PROVE  Inv'
<1>1. TypeOK /\ Knows(req[r]) /\ req[r] \in RequestState
      BY DEF Inv, TypeOK
<1>2. ASSUME NEW u \in User, Resend(r, u) PROVE Inv'
  <2>1. PICK q : q = [Idle EXCEPT !.pc = "send_commit", !.u = u, !.row = verification[u].row]
        OBVIOUS
  <2>2. q \in RequestState /\ Knows(q)
        BY <1>1, <2>1 DEF TypeOK, VerificationRow, Idle, RequestState, Pc, Knows
  <2>3. QED
        BY <1>2, <2>1, <2>2, Quiet DEF Resend, Begin
<1>3. ASSUME SendRead(r) PROVE Inv'
  <2>1. PICK q : q = [req[r] EXCEPT !.pc = "send_commit", !.row = verification[req[r].u].row]
        OBVIOUS
  <2>2. req[r].u \in User
        BY <1>1, <1>3 DEF SendRead, At, Knows
  <2>3. q \in RequestState /\ Knows(q)
        BY <1>1, <2>1, <2>2 DEF TypeOK, VerificationRow, RequestState, Pc, Knows
  <2>4. req' = [req EXCEPT ![r] = q]
        BY <1>1, <1>3, <2>1 DEF SendRead, TypeOK
  <2>5. QED
        BY <1>3, <2>3, <2>4, Quiet DEF SendRead
<1>4. ASSUME NEW u \in User, NEW l \in Link, VerifyRead(r, u, l) PROVE Inv'
  <2>1. PICK q : q = [Idle EXCEPT !.pc = "verify_commit", !.u = u, !.row = verification[u].row]
        OBVIOUS
  <2>2. q \in RequestState /\ Knows(q)
        BY <1>1, <2>1 DEF TypeOK, VerificationRow, Idle, RequestState, Pc, Knows
  <2>3. QED
        BY <1>4, <2>1, <2>2, Quiet DEF VerifyRead, Begin
<1>5. ASSUME NEW u \in User, NEW a \in Address, ResetRead(r, u, a) PROVE Inv'
  <2>1. PICK q : q = [Idle EXCEPT !.pc = "reset_commit", !.u = u, !.seen = UnusedOf(u)]
        OBVIOUS
  <2>2. UnusedOf(u) \subseteq Link
        BY DEF UnusedOf, ResetsOf
  <2>3. q \in RequestState /\ Knows(q)
        BY <2>1, <2>2 DEF Idle, RequestState, Pc, Knows
  <2>4. QED
        BY <1>5, <2>1, <2>3, Quiet DEF ResetRead, Begin
<1>6. ASSUME NEW s \in Sub, NEW a \in Address, GoogleUnknownSub(r, s, a) PROVE Inv'
  <2>1. PICK q : q = [Idle EXCEPT !.pc = "google_email", !.sub = s, !.address = a]
        OBVIOUS
  <2>2. q \in RequestState /\ Knows(q)
        BY <2>1 DEF Idle, RequestState, Pc, Knows
  <2>3. QED
        BY <1>6, <2>1, <2>2, Quiet DEF GoogleUnknownSub, Begin
<1>7. QED
      BY <1>2, <1>3, <1>4, <1>5, <1>6

\* A confirmation finds a link that was never used, a deletion all there is to
\* delete, and an admin somebody else.
LEMMA DecisionsKeep ==
    ASSUME Inv, UNCHANGED expired, NEW r \in Request,
           \/ \E l \in Link, p \in Password : ConfirmRead(r, l, p)
           \/ \E u \in User, p \in Password : DeleteRead(r, u, p)
           \/ \E u, v \in User : Deactivate(r, u, v) \/ Reactivate(r, u, v)
    PROVE  Inv'
<1>1. TypeOK
      BY DEF Inv
<1>2. ASSUME NEW l \in Link, NEW p \in Password, ConfirmRead(r, l, p) PROVE Inv'
  <2>1. PICK q : q = [Idle EXCEPT !.pc = "confirm_commit", !.u = reset[l].of, !.link = l,
                                  !.password = p]
        OBVIOUS
  <2>2. q.u \in User /\ q.link = l /\ q.u = reset[l].of
        BY <1>1, <1>2, <2>1 DEF ConfirmRead, TypeOK, ResetRow, Idle
  <2>3. q \in RequestState
        BY <2>1, <2>2 DEF Idle, RequestState, Pc
  <2>4. l \in issued /\ uses[l] = 0
        BY <1>2 DEF Inv, LinksAreDrawn, UsedIsMarked, ConfirmRead
  <2>5. Knows(q)
        BY <2>1, <2>2, <2>4 DEF Idle, Knows
  <2>6. QED
        BY <1>2, <2>1, <2>3, <2>5, Quiet DEF ConfirmRead, Begin
<1>3. ASSUME NEW u \in User, NEW p \in Password, DeleteRead(r, u, p) PROVE Inv'
  <2>1. PICK q : q = [Idle EXCEPT !.pc = "delete_commit", !.u = u, !.row = verification[u].row,
                                  !.seen = ResetsOf(u)]
        OBVIOUS
  <2>2. ResetsOf(u) \subseteq Link
        BY DEF ResetsOf
  <2>3. q \in RequestState /\ Knows(q)
        BY <1>1, <2>1, <2>2 DEF TypeOK, VerificationRow, Idle, RequestState, Pc, Knows
  <2>4. QED
        BY <1>3, <2>1, <2>3, Quiet DEF DeleteRead, Begin
<1>4. ASSUME NEW u \in User, NEW v \in User, Deactivate(r, u, v) PROVE Inv'
  <2>1. PICK q : q = [Idle EXCEPT !.pc = "deactivate_commit", !.u = u, !.target = v,
                                  !.active = user[v].active]
        OBVIOUS
  <2>2. q \in RequestState /\ Knows(q)
        BY <1>1, <1>4, <2>1 DEF TypeOK, UserRow, Idle, RequestState, Pc, Knows, Deactivate
  <2>3. QED
        BY <1>4, <2>1, <2>2, Quiet DEF Deactivate, Begin
<1>5. ASSUME NEW u \in User, NEW v \in User, Reactivate(r, u, v) PROVE Inv'
  <2>1. PICK q : q = [Idle EXCEPT !.pc = "reactivate_commit", !.u = u, !.target = v,
                                  !.active = user[v].active]
        OBVIOUS
  <2>2. q \in RequestState /\ Knows(q)
        BY <1>1, <2>1 DEF TypeOK, UserRow, Idle, RequestState, Pc, Knows
  <2>3. QED
        BY <1>5, <2>1, <2>2, Quiet DEF Reactivate, Begin
<1>6. QED
      BY <1>2, <1>3, <1>4, <1>5

\* Google's callback looks for the address: no account, one it may link, or one
\* it refuses.
LEMMA GoogleEmailKeeps ==
    ASSUME Inv, UNCHANGED expired, NEW r \in Request, GoogleEmail(r)
    PROVE  Inv'
<1>1. TypeOK /\ req[r] \in RequestState
      BY DEF Inv, TypeOK
<1>2. CASE Goto(r, "google_create") /\ UNCHANGED tables
  <2>1. PICK q : q = [req[r] EXCEPT !.pc = "google_create"]
        OBVIOUS
  <2>2. q \in RequestState /\ Knows(q)
        BY <1>1, <2>1 DEF RequestState, Pc, Knows
  <2>3. req' = [req EXCEPT ![r] = q]
        BY <1>1, <1>2, <2>1 DEF Goto, TypeOK
  <2>4. QED
        BY <1>2, <2>2, <2>3, Quiet
<1>3. ASSUME NEW u \in User, MayLink(u), UNCHANGED tables,
             req' = [req EXCEPT ![r].pc = "google_link", ![r].u = u]
      PROVE  Inv'
  <2>1. PICK q : q = [req[r] EXCEPT !.pc = "google_link", !.u = u]
        OBVIOUS
  <2>2. q \in RequestState /\ Knows(q)
        BY <1>1, <1>3, <2>1 DEF RequestState, Pc, Knows, MayLink, MayEnter, Exists
  <2>3. req' = [req EXCEPT ![r] = q]
        BY <1>1, <1>3, <2>1 DEF TypeOK
  <2>4. QED
        BY <1>3, <2>2, <2>3, Quiet
<1>4. QED
      BY <1>2, <1>3, AnswerKeeps DEF GoogleEmail

-----------------------------------------------------------------------------
(* Commits that change a row of users, and nothing else.                   *)

\* A worker that has become idle, or is yet to read, knows nothing that others
\* could take back; the others know what they knew.
LEMMA UserChanges ==
    ASSUME Inv, NEW u \in User, NEW row \in UserRow, user' = [user EXCEPT ![u] = row],
           UNCHANGED <<verification, reset, issued, expired, raced, uses>>,
           session' \subseteq User, req' \in [Request -> RequestState],
           \A s \in Request : \/ req'[s] = req[s]
                              \/ req'[s].pc = "idle"
                              \/ req'[s].pc = "send_read" /\ req'[s].u \in User,
           \A v \in User \ {u} : /\ row.address = None \/ user[v].address # row.address
                                 /\ row.sub = None \/ user[v].sub # row.sub,
           Exists(u) => row.phase # "free" /\ (user[u].verified => row.verified),
           row.phase = "deleted" => /\ user[u].phase = "deleted"
                                    /\ row.address = user[u].address
                                    /\ row.password = user[u].password,
           row.sub # None => row.verified
    PROVE  Inv'
<1>1. TypeOK /\ \A s \in Request : Knows(req[s])
      BY DEF Inv
<1>2. user'[u] = row /\ \A v \in User \ {u} : user'[v] = user[v]
      BY <1>1 DEF TypeOK
<1>3. TypeOK'
  <2>1. user' \in [User -> UserRow]
        BY <1>1 DEF TypeOK
  <2>2. ASSUME NEW v \in User, NEW w \in User, v # w
        PROVE  /\ user'[v].address = None \/ user'[v].address # user'[w].address
               /\ user'[v].sub = None \/ user'[v].sub # user'[w].sub
        BY <1>1, <1>2, <2>2 DEF TypeOK
  <2>3. QED
        BY <1>1, <2>1, <2>2 DEF TypeOK
<1>4. LinksAreDrawn' /\ OneUnusedReset' /\ UsedIsMarked' /\ ResetLinkUsedOnce'
      BY DEF Inv, LinksAreDrawn, OneUnusedReset, UsedIsMarked, ResetLinkUsedOnce, UnusedOf,
             ResetsOf
<1>5. DeletedIsDeleted' /\ GoogleOnlyVerified'
      BY <1>2 DEF Inv, DeletedIsDeleted, GoogleOnlyVerified, ResetsOf
<1>6. ASSUME NEW s \in Request PROVE Knows(req[s])'
  <2>1. CASE req'[s].pc \in {"idle", "send_read"}
        BY <2>1, <1>6, <1>1 DEF Knows, TypeOK
  <2>2. CASE req'[s] = req[s]
    <3>1. \A v \in User : Exists(v) /\ user[v].verified => Exists(v)' /\ user'[v].verified
          BY <1>2 DEF Exists
    <3>2. Knows(req[s])
          BY <1>1
    <3>3. QED
          BY <2>2, <3>1, <3>2 DEF Knows, UnusedOf, ResetsOf
  <2>3. QED
        BY <2>1, <2>2
<1>7. QED
      BY <1>3, <1>4, <1>5, <1>6 DEF Inv

\* Registration takes a row that was free and an address nobody has.
LEMMA RegisterKeeps ==
    ASSUME Inv, UNCHANGED expired, NEW r \in Request, NEW u \in User, NEW a \in Address,
           NEW p \in Password, Register(r, u, a, p)
    PROVE  Inv'
<1>1. TypeOK
      BY DEF Inv
<1>2. PICK q : q = [Idle EXCEPT !.pc = "send_read", !.u = u]
      OBVIOUS
<1>3. q \in RequestState /\ q.pc = "send_read" /\ q.u = u
      BY <1>2 DEF Idle, RequestState, Pc
<1>4. /\ req' \in [Request -> RequestState]
      /\ \A s \in Request : req'[s] = req[s] \/ req'[s] = q
      BY <1>1, <1>2, <1>3, OneMoves DEF Register, Begin
<1>5. PICK row : row = [FreeUser EXCEPT !.phase = "live", !.address = a, !.password = p]
      OBVIOUS
<1>6. /\ row \in UserRow /\ row.phase = "live"
      /\ row.address = a /\ row.sub = None
      BY <1>5 DEF FreeUser, UserRow
<1>7. user' = [user EXCEPT ![u] = row] /\ ~Exists(u) /\ \A v \in User : user[v].address # a
      BY <1>5 DEF Register
<1>8. session' \subseteq User
      BY <1>1 DEF Register, TypeOK
<1>9. QED
      BY <1>3, <1>4, <1>6, <1>7, <1>8, UserChanges DEF Register

\* Signing in changes nobody's row.
LEMMA SignInKeeps ==
    ASSUME Inv, UNCHANGED expired, NEW r \in Request, NEW u \in User,
           \/ \E a \in Address, p \in Password : Login(r, u, a, p)
           \/ \E s \in Sub : GoogleReturning(r, u, s)
    PROVE  Inv'
<1>1. TypeOK
      BY DEF Inv
<1>2. /\ session' = session \cup {u}
      /\ UNCHANGED <<user, verification, reset, issued, req, raced, uses>>
      BY DEF Login, GoogleReturning
<1>3. TypeOK'
      BY <1>1, <1>2 DEF TypeOK
<1>4. \A s \in Request : Knows(req[s])'
      BY <1>2 DEF Inv, Knows, UnusedOf, ResetsOf, Exists
<1>5. LinksAreDrawn' /\ OneUnusedReset' /\ UsedIsMarked' /\ ResetLinkUsedOnce'
      BY <1>2 DEF Inv, LinksAreDrawn, OneUnusedReset, UsedIsMarked, ResetLinkUsedOnce, UnusedOf,
             ResetsOf
<1>6. DeletedIsDeleted' /\ GoogleOnlyVerified'
      BY <1>2 DEF Inv, DeletedIsDeleted, GoogleOnlyVerified, ResetsOf
<1>7. QED
      BY <1>3, <1>4, <1>5, <1>6 DEF Inv

\* The account a Google identity is written to is still verified, though it may
\* have been blocked or deleted since it was read.
LEMMA GoogleLinkKeeps ==
    ASSUME Inv, UNCHANGED expired, NEW r \in Request, GoogleLink(r)
    PROVE  Inv'
<1>1. TypeOK /\ req[r] \in RequestState /\ Knows(req[r])
      BY DEF Inv, TypeOK
<1>2. PICK u : u = req[r].u
      OBVIOUS
<1>3. u \in User /\ Exists(u) /\ user[u].verified
      BY <1>1, <1>2 DEF GoogleLink, At, Knows
<1>4. CASE SubTaken(req[r].sub, u)
      BY <1>2, <1>4, AnswerKeeps DEF GoogleLink
<1>5. CASE ~SubTaken(req[r].sub, u)
  <2>1. PICK row : row = [user[u] EXCEPT !.sub = req[r].sub]
        OBVIOUS
  <2>2. user[u] \in UserRow
        BY <1>1, <1>3 DEF TypeOK
  <2>3. /\ row \in UserRow /\ row.sub = req[r].sub
        /\ row.phase = user[u].phase /\ row.verified
        /\ row.address = user[u].address /\ row.password = user[u].password
        BY <1>1, <1>3, <2>1, <2>2 DEF UserRow, RequestState
  <2>4. /\ user' = [user EXCEPT ![u].sub = req[r].sub] /\ Finish(r)
        /\ session' = session \cup {u}
        /\ UNCHANGED <<verification, reset, issued, raced, uses>>
        BY <1>2, <1>5 DEF GoogleLink
  <2>5. user' = [user EXCEPT ![u] = row]
        BY <1>1, <1>3, <2>1, <2>4 DEF TypeOK
  <2>6. \A v \in User \ {u} : /\ row.address = None \/ user[v].address # row.address
                              /\ row.sub = None \/ user[v].sub # row.sub
        BY <1>1, <1>3, <1>5, <2>3 DEF TypeOK, SubTaken
  <2>7. /\ req' \in [Request -> RequestState]
        /\ \A s \in Request : req'[s] = req[s] \/ req'[s].pc = "idle"
        BY <1>1, <2>4, IdleType, OneMoves DEF Finish
  <2>8. session' \subseteq User
        BY <1>1, <1>3, <2>4 DEF TypeOK
  <2>9. /\ UNCHANGED <<verification, reset, issued, expired, raced, uses>>
        /\ Exists(u) => row.phase # "free" /\ (user[u].verified => row.verified)
        BY <2>3, <2>4 DEF Exists
  <2>10. /\ row.phase = "deleted" => /\ user[u].phase = "deleted"
                                     /\ row.address = user[u].address
                                     /\ row.password = user[u].password
         /\ row.sub # None => row.verified
        BY <2>3
  <2>11. QED
        BY <1>3, <2>3, <2>5, <2>6, <2>7, <2>8, <2>9, <2>10, UserChanges
<1>6. QED
      BY <1>4, <1>5

\* Google vouches for the address of an account it makes.
LEMMA GoogleCreateKeeps ==
    ASSUME Inv, UNCHANGED expired, NEW r \in Request, GoogleCreate(r)
    PROVE  Inv'
<1>1. TypeOK /\ req[r] \in RequestState
      BY DEF Inv, TypeOK
<1>2. CASE Answer(r)
      BY <1>2, AnswerKeeps
<1>3. ASSUME NEW u \in User, ~Exists(u), Finish(r), session' = session \cup {u},
             \A v \in User : user[v].address # req[r].address /\ user[v].sub # req[r].sub,
             user' = [user EXCEPT ![u] = [FreeUser EXCEPT !.phase = "live",
                         !.address = req[r].address, !.verified = TRUE, !.sub = req[r].sub]],
             UNCHANGED <<verification, reset, issued, raced, uses>>
      PROVE  Inv'
  <2>1. PICK row : row = [FreeUser EXCEPT !.phase = "live", !.address = req[r].address,
                                          !.verified = TRUE, !.sub = req[r].sub]
        OBVIOUS
  <2>2. /\ row \in UserRow /\ row.phase = "live" /\ row.verified
        /\ row.address = req[r].address /\ row.sub = req[r].sub
        BY <1>1, <2>1 DEF FreeUser, UserRow, RequestState
  <2>3. user' = [user EXCEPT ![u] = row]
        BY <1>3, <2>1
  <2>4. /\ req' \in [Request -> RequestState]
        /\ \A s \in Request : req'[s] = req[s] \/ req'[s].pc = "idle"
        BY <1>1, <1>3, IdleType, OneMoves DEF Finish
  <2>5. session' \subseteq User
        BY <1>1, <1>3 DEF TypeOK
  <2>6. \A v \in User \ {u} : /\ row.address = None \/ user[v].address # row.address
                              /\ row.sub = None \/ user[v].sub # row.sub
        BY <1>3, <2>2
  <2>7. /\ UNCHANGED <<verification, reset, issued, expired, raced, uses>>
        /\ Exists(u) => row.phase # "free" /\ (user[u].verified => row.verified)
        BY <1>3
  <2>8. QED
        BY <2>2, <2>3, <2>4, <2>5, <2>6, <2>7, UserChanges
<1>4. QED
      BY <1>2, <1>3 DEF GoogleCreate

\* An admin's switch and the grant of the role touch nothing else of a row.
LEMMA AdminKeeps ==
    ASSUME Inv, UNCHANGED expired,
           \/ \E r \in Request : DeactivateCommit(r) \/ ReactivateCommit(r)
           \/ \E u \in User : GrantAdmin(u)
    PROVE  Inv'
<1>1. TypeOK
      BY DEF Inv
<1>2. ASSUME NEW v \in User, NEW row \in UserRow, user' = [user EXCEPT ![v] = row],
             row.phase = user[v].phase, row.address = user[v].address,
             row.password = user[v].password, row.verified = user[v].verified,
             row.sub = user[v].sub,
             req' \in [Request -> RequestState],
             \A s \in Request : req'[s] = req[s] \/ req'[s].pc = "idle",
             UNCHANGED <<verification, reset, issued, session, raced, uses>>
      PROVE  Inv'
  <2>1. session' \subseteq User
        BY <1>1, <1>2 DEF TypeOK
  <2>2. \A w \in User \ {v} : /\ row.address = None \/ user[w].address # row.address
                              /\ row.sub = None \/ user[w].sub # row.sub
        BY <1>1, <1>2 DEF TypeOK
  <2>3. row.sub # None => row.verified
        BY <1>2 DEF Inv, GoogleOnlyVerified
  <2>4. /\ UNCHANGED <<verification, reset, issued, expired, raced, uses>>
        /\ Exists(v) => row.phase # "free" /\ (user[v].verified => row.verified)
        BY <1>2 DEF Exists
  <2>5. row.phase = "deleted" => /\ user[v].phase = "deleted"
                                 /\ row.address = user[v].address
                                 /\ row.password = user[v].password
        BY <1>2
  <2>6. QED
        BY <1>2, <2>1, <2>2, <2>3, <2>4, <2>5, UserChanges
<1>3. ASSUME NEW r \in Request, NEW to \in BOOLEAN, NEW pc, SetActive(r, pc, to)
      PROVE  Inv'
  <2>1. /\ req' \in [Request -> RequestState]
        /\ \A s \in Request : req'[s] = req[s] \/ req'[s].pc = "idle"
        BY <1>1, <1>3, IdleType, OneMoves DEF SetActive, Finish
  <2>2. CASE req[r].target \in User
    <3>1. PICK v \in User : v = req[r].target
          BY <2>2
    <3>2. PICK row : row = [user[v] EXCEPT !.active = IF req[r].active = to THEN @ ELSE to]
          OBVIOUS
    <3>3. user[v] \in UserRow
          BY <1>1 DEF TypeOK
    <3>4. /\ row \in UserRow /\ row.phase = user[v].phase /\ row.address = user[v].address
          /\ row.password = user[v].password /\ row.verified = user[v].verified
          /\ row.sub = user[v].sub
          BY <3>2, <3>3 DEF UserRow
    <3>5. user' = [user EXCEPT ![v] = row]
          BY <1>1, <1>3, <3>1, <3>2 DEF SetActive, TypeOK
    <3>6. QED
          BY <1>2, <1>3, <2>1, <3>4, <3>5 DEF SetActive
  <2>3. CASE req[r].target \notin User
    <3>1. user' = user
          BY <1>1, <1>3, <2>3 DEF SetActive, TypeOK
    <3>2. QED
          BY <1>3, <3>1, AnswerKeeps DEF SetActive, Answer
  <2>4. QED
        BY <2>2, <2>3
<1>4. ASSUME NEW v \in User, GrantAdmin(v) PROVE Inv'
  <2>1. PICK row : row = [user[v] EXCEPT !.admin = TRUE]
        OBVIOUS
  <2>2. user[v] \in UserRow
        BY <1>1 DEF TypeOK
  <2>3. /\ row \in UserRow /\ row.phase = user[v].phase /\ row.address = user[v].address
        /\ row.password = user[v].password /\ row.verified = user[v].verified
        /\ row.sub = user[v].sub
        BY <2>1, <2>2 DEF UserRow
  <2>4. user' = [user EXCEPT ![v] = row]
        BY <1>1, <1>4, <2>1 DEF GrantAdmin, TypeOK
  <2>5. QED
        BY <1>1, <1>2, <1>4, <2>3, <2>4 DEF GrantAdmin, TypeOK
<1>5. QED
      BY <1>3, <1>4 DEF DeactivateCommit, ReactivateCommit

-----------------------------------------------------------------------------
(* Commits that change the links.                                          *)

\* What a note of races does to raced: it grows for one user.
LEMMA Noted ==
    ASSUME TypeOK, NEW u \in User, NEW races \in SUBSET {"reset", "use", "deletion"},
           Note(u, races)
    PROVE  /\ raced' \in [User -> SUBSET {"reset", "use", "deletion"}]
           /\ \A v \in User : raced[v] \subseteq raced'[v]
           /\ races \subseteq raced'[u]
BY DEF TypeOK, Note

\* A verification link is drawn: for a new row, or in place of the row's old
\* link.  An account being deleted gets a new row only as a race it has noted.
LEMMA SendKeeps ==
    ASSUME Inv, UNCHANGED expired, NEW r \in Request, SendCommit(r)
    PROVE  Inv'
<1>1. TypeOK /\ req[r] \in RequestState /\ Knows(req[r])
      BY DEF Inv, TypeOK
<1>2. PICK u : u = req[r].u
      OBVIOUS
<1>3. u \in User
      BY <1>1, <1>2 DEF SendCommit, At, Knows
<1>4. CASE verification[u].row # req[r].row
      BY <1>2, <1>4, AnswerKeeps DEF SendCommit
<1>5. CASE verification[u].row = req[r].row
  <2>1. PICK l \in Link \ issued :
             /\ verification' = [verification EXCEPT ![u] =
                    [row |-> IF req[r].row = None THEN l ELSE @.row, link |-> l]]
             /\ issued' = issued \cup {l}
             /\ Note(u, IF req[r].row = None /\ MissedByDeletion(u) THEN {"deletion"} ELSE {})
             /\ Finish(r)
             /\ UNCHANGED <<user, reset, session, uses>>
        BY <1>2, <1>5 DEF SendCommit
  <2>2. /\ raced' \in [User -> SUBSET {"reset", "use", "deletion"}]
        /\ \A v \in User : raced[v] \subseteq raced'[v]
        /\ req[r].row = None /\ MissedByDeletion(u) => "deletion" \in raced'[u]
        BY <1>1, <1>3, <2>1, Noted
  <2>3. /\ req' \in [Request -> RequestState] /\ req'[r] = Idle
        /\ \A s \in Request \ {r} : req'[s] = req[s]
        BY <1>1, <2>1, IdleType, OneMoves DEF Finish
  <2>4. /\ verification' \in [User -> VerificationRow]
        /\ \A v \in User \ {u} : verification'[v] = verification[v]
        /\ verification'[u].link = l
        /\ verification'[u].row = IF req[r].row = None THEN l ELSE verification[u].row
        BY <1>1, <1>3, <2>1 DEF TypeOK, VerificationRow
  <2>5. TypeOK'
        BY <1>1, <2>1, <2>2, <2>3, <2>4 DEF TypeOK
  <2>6. LinksAreDrawn'
        BY <1>5, <2>1, <2>4, NoneAssumption DEF Inv, LinksAreDrawn
  <2>7. OneUnusedReset' /\ UsedIsMarked' /\ ResetLinkUsedOnce'
        BY <1>1, <2>1, <2>2 DEF Inv, OneUnusedReset, UsedIsMarked, ResetLinkUsedOnce, UnusedOf,
               ResetsOf, TypeOK, ResetRow
  <2>8. DeletedIsDeleted' /\ GoogleOnlyVerified'
    <3>1. user[u].phase = "deleted" => "deletion" \in raced'[u]
      <4>1. CASE req[r].row = None
            BY <2>2, <4>1 DEF MissedByDeletion
      <4>2. CASE req[r].row # None
            BY <1>3, <1>5, <2>2, <4>2 DEF Inv, DeletedIsDeleted, NoVerification
      <4>3. QED
            BY <4>1, <4>2
    <3>2. QED
          BY <2>1, <2>2, <2>4, <3>1 DEF Inv, DeletedIsDeleted, GoogleOnlyVerified, ResetsOf
  <2>9. ASSUME NEW s \in Request PROVE Knows(req[s])'
    <3>1. CASE s = r
          BY <2>3, <3>1 DEF Knows, Idle
    <3>2. CASE s # r
      <4>1. req'[s] = req[s] /\ Knows(req[s]) /\ req[s] \in RequestState
            BY <1>1, <2>3, <3>2 DEF Inv, TypeOK
      <4>2. req[s].pc = "delete_commit" /\ req[s].u = u =>
               "deletion" \in raced'[u] \/ verification'[u].row = verification[u].row
            BY <2>2, <2>4 DEF MissedByDeletion, At
      <4>3. QED
            BY <2>1, <2>2, <2>4, <4>1, <4>2 DEF Knows, UnusedOf, ResetsOf, Exists
    <3>3. QED
          BY <3>1, <3>2
  <2>10. QED
         BY <2>5, <2>6, <2>7, <2>8, <2>9 DEF Inv
<1>6. QED
      BY <1>4, <1>5

\* The row a verification has read is gone after it, and the address proven.
LEMMA VerifyKeeps ==
    ASSUME Inv, UNCHANGED expired, NEW r \in Request, VerifyCommit(r)
    PROVE  Inv'
<1>1. TypeOK /\ req[r] \in RequestState /\ Knows(req[r])
      BY DEF Inv, TypeOK
<1>2. PICK u : u = req[r].u
      OBVIOUS
<1>3. u \in User
      BY <1>1, <1>2 DEF VerifyCommit, At, Knows
<1>4. /\ user' = [user EXCEPT ![u].verified = TRUE]
      /\ verification' = [verification EXCEPT ![u] =
            IF @.row = req[r].row THEN NoVerification ELSE @]
      /\ Finish(r) /\ UNCHANGED <<reset, issued, session, raced, uses>>
      BY <1>2 DEF VerifyCommit
<1>5. /\ req' \in [Request -> RequestState] /\ req'[r] = Idle
      /\ \A s \in Request \ {r} : req'[s] = req[s]
      BY <1>1, <1>4, IdleType, OneMoves DEF Finish
<1>6. /\ user' \in [User -> UserRow]
      /\ \A v \in User : /\ user'[v].phase = user[v].phase /\ user'[v].address = user[v].address
                         /\ user'[v].password = user[v].password /\ user'[v].sub = user[v].sub
                         /\ user[v].verified => user'[v].verified
  <2>1. PICK row : row = [user[u] EXCEPT !.verified = TRUE]
        OBVIOUS
  <2>2. user[u] \in UserRow
        BY <1>1, <1>3 DEF TypeOK
  <2>3. /\ row \in UserRow /\ row.phase = user[u].phase /\ row.address = user[u].address
        /\ row.password = user[u].password /\ row.sub = user[u].sub /\ row.verified
        BY <2>1, <2>2 DEF UserRow
  <2>4. user' = [user EXCEPT ![u] = row]
        BY <1>1, <1>3, <1>4, <2>1 DEF TypeOK
  <2>5. QED
        BY <1>1, <1>3, <2>3, <2>4 DEF TypeOK
<1>7. /\ verification' \in [User -> VerificationRow]
      /\ \A v \in User : verification'[v] \in {NoVerification, verification[v]}
      BY <1>1, <1>3, <1>4 DEF TypeOK, VerificationRow, NoVerification
<1>8. TypeOK'
      BY <1>1, <1>4, <1>5, <1>6, <1>7 DEF TypeOK
<1>9. LinksAreDrawn'
      BY <1>4, <1>7 DEF Inv, LinksAreDrawn, NoVerification
<1>10. OneUnusedReset' /\ UsedIsMarked' /\ ResetLinkUsedOnce'
       BY <1>4 DEF Inv, OneUnusedReset, UsedIsMarked, ResetLinkUsedOnce, UnusedOf, ResetsOf
<1>11. DeletedIsDeleted' /\ GoogleOnlyVerified'
       BY <1>4, <1>6, <1>7 DEF Inv, DeletedIsDeleted, GoogleOnlyVerified, ResetsOf
<1>12. ASSUME NEW s \in Request PROVE Knows(req[s])'
  <2>1. CASE s = r
        BY <1>5, <2>1 DEF Knows, Idle
  <2>2. CASE s # r
    <3>1. req'[s] = req[s] /\ Knows(req[s])
          BY <1>5, <2>2 DEF Inv
    <3>2. QED
          BY <1>4, <1>6, <1>7, <3>1 DEF Knows, UnusedOf, ResetsOf, Exists, NoVerification
  <2>3. QED
        BY <2>1, <2>2
<1>13. QED
       BY <1>8, <1>9, <1>10, <1>11, <1>12 DEF Inv

\* A new reset link marks those it has seen as used: all that are not, unless
\* another request overlapped.
LEMMA ResetKeeps ==
    ASSUME Inv, UNCHANGED expired, NEW r \in Request, ResetCommit(r)
    PROVE  Inv'
<1>1. TypeOK /\ req[r] \in RequestState /\ Knows(req[r])
      BY DEF Inv, TypeOK
<1>2. PICK u : u = req[r].u
      OBVIOUS
<1>3. PICK seen : seen = req[r].seen
      OBVIOUS
<1>4. u \in User /\ u # None /\ seen \subseteq Link
      BY <1>1, <1>2, <1>3, NoneAssumption DEF ResetCommit, At, Knows, RequestState
<1>5. "reset" \in raced[u] \/ UnusedOf(u) \subseteq seen
      BY <1>1, <1>2, <1>3 DEF ResetCommit, At, Knows
<1>6. CASE ~ \A l \in seen : reset[l].of = u
      BY <1>2, <1>3, <1>6, AnswerKeeps DEF ResetCommit
<1>7. CASE \A l \in seen : reset[l].of = u
  <2> DEFINE races == (IF {q \in Request \ {r} : At(q, "reset_commit") /\ req[q].u = u} # {}
                       THEN {"reset"} ELSE {})
                      \cup (IF MissedByDeletion(u) THEN {"deletion"} ELSE {})
  <2>1. PICK new \in Link \ issued :
             /\ reset' = [l \in Link |-> IF l = new THEN [of |-> u, used |-> FALSE]
                                         ELSE IF l \in seen THEN [reset[l] EXCEPT !.used = TRUE]
                                         ELSE reset[l]]
             /\ issued' = issued \cup {new}
             /\ Note(u, races)
             /\ Finish(r)
             /\ UNCHANGED <<user, verification, session, uses>>
        BY <1>2, <1>3, <1>7 DEF ResetCommit
  <2>2. /\ raced' \in [User -> SUBSET {"reset", "use", "deletion"}]
        /\ \A v \in User : raced[v] \subseteq raced'[v]
        /\ races \subseteq raced'[u]
        BY <1>1, <1>4, <2>1, Noted
  <2>3. /\ req' \in [Request -> RequestState] /\ req'[r] = Idle
        /\ \A s \in Request \ {r} : req'[s] = req[s]
        BY <1>1, <2>1, IdleType, OneMoves DEF Finish
  <2>4. reset[new].of = None /\ uses[new] = 0 /\ new \notin seen
        BY <1>4, <1>7, <2>1 DEF Inv, LinksAreDrawn
  <2>5. /\ reset' \in [Link -> ResetRow]
        /\ reset'[new].of = u /\ ~reset'[new].used
        /\ \A l \in Link \ {new} : /\ reset'[l].of = reset[l].of
                                   /\ reset'[l].used = (reset[l].used \/ l \in seen)
    <3>1. \A l \in Link : reset[l] \in ResetRow
          BY <1>1 DEF TypeOK
    <3>2. \A row \in ResetRow : /\ [row EXCEPT !.used = TRUE] \in ResetRow
                                /\ [row EXCEPT !.used = TRUE].of = row.of
                                /\ [row EXCEPT !.used = TRUE].used
          BY DEF ResetRow
    <3>3. [of |-> u, used |-> FALSE] \in ResetRow
          BY <1>4 DEF ResetRow
    <3>4. ASSUME NEW l \in Link
          PROVE  /\ reset'[l] \in ResetRow
                 /\ l = new => reset'[l].of = u /\ ~reset'[l].used
                 /\ l # new => /\ reset'[l].of = reset[l].of
                               /\ reset'[l].used = (reset[l].used \/ l \in seen)
          BY <2>1, <3>1, <3>2, <3>3 DEF ResetRow
    <3>5. QED
          BY <2>1, <3>4
  <2>6. \A v \in User \ {u} : ResetsOf(v)' = ResetsOf(v) /\ UnusedOf(v)' \subseteq UnusedOf(v)
        BY <1>1, <1>4, <2>1, <2>4, <2>5, NoneAssumption DEF ResetsOf, UnusedOf
  <2>7. UnusedOf(u)' \subseteq {new} \cup (UnusedOf(u) \ seen)
        BY <2>5 DEF ResetsOf, UnusedOf
  <2>8. TypeOK'
        BY <1>1, <2>1, <2>2, <2>3, <2>5 DEF TypeOK
  <2>9. LinksAreDrawn'
        BY <2>1, <2>4, <2>5 DEF Inv, LinksAreDrawn
  <2>10. OneUnusedReset'
    <3>1. ASSUME NEW v \in User
          PROVE  "reset" \in raced'[v] \/ \A k, l \in UnusedOf(v)' : k = l
          BY <1>5, <2>2, <2>6, <2>7 DEF Inv, OneUnusedReset
    <3>2. QED
          BY <3>1 DEF OneUnusedReset
  <2>11. UsedIsMarked' /\ ResetLinkUsedOnce'
    <3>1. ASSUME NEW l \in Link PROVE reset'[l].of = None \/ uses'[l] = 0 \/ reset'[l].used
          BY <2>1, <2>4, <2>5 DEF Inv, UsedIsMarked
    <3>2. ASSUME NEW l \in Link
          PROVE  reset'[l].of = None \/ "use" \in raced'[reset'[l].of] \/ uses'[l] <= 1
      <4>1. CASE l = new
            BY <2>1, <2>4, <4>1
      <4>2. CASE l # new
        <5>1. reset[l].of \in User \cup {None}
              BY <1>1 DEF TypeOK, ResetRow
        <5>2. QED
              BY <2>1, <2>2, <2>5, <4>2, <5>1 DEF Inv, ResetLinkUsedOnce
      <4>3. QED
            BY <4>1, <4>2
    <3>3. QED
          BY <3>1, <3>2 DEF UsedIsMarked, ResetLinkUsedOnce
  <2>12. DeletedIsDeleted' /\ GoogleOnlyVerified'
    <3>1. user[u].phase = "deleted" => "deletion" \in raced'[u]
          BY <2>2 DEF MissedByDeletion
    <3>2. ASSUME NEW v \in User, user'[v].phase = "deleted"
          PROVE  /\ user'[v].address = None
                 /\ "deletion" \in raced'[v] \/ /\ user'[v].password = None
                                                /\ verification'[v] = NoVerification
                                                /\ ResetsOf(v)' = {}
          BY <2>1, <2>2, <2>6, <3>1, <3>2 DEF Inv, DeletedIsDeleted
    <3>3. QED
          BY <2>1, <3>2 DEF Inv, DeletedIsDeleted, GoogleOnlyVerified
  <2>13. ASSUME NEW s \in Request PROVE Knows(req[s])'
    <3>1. CASE s = r
          BY <2>3, <3>1 DEF Knows, Idle
    <3>2. CASE s # r
      <4>1. req'[s] = req[s] /\ Knows(req[s]) /\ req[s] \in RequestState
            BY <1>1, <2>3, <3>2 DEF Inv, TypeOK
      <4>2. req[s].pc = "reset_commit" =>
               "reset" \in raced'[req[s].u] \/ UnusedOf(req[s].u)' \subseteq req[s].seen
        <5>1. CASE req[s].u = u
              BY <2>2, <3>2, <5>1 DEF At
        <5>2. CASE req[s].u # u
              BY <2>2, <2>6, <4>1, <5>2 DEF Knows
        <5>3. QED
              BY <5>1, <5>2
      <4>3. req[s].pc = "delete_commit" =>
               \/ "deletion" \in raced'[req[s].u]
               \/ /\ verification'[req[s].u].row \in {None, req[s].row}
                  /\ ResetsOf(req[s].u)' \subseteq req[s].seen
        <5>1. CASE req[s].u = u
              BY <2>2, <3>2, <5>1 DEF At, MissedByDeletion
        <5>2. CASE req[s].u # u
              BY <2>1, <2>2, <2>6, <4>1, <5>2 DEF Knows
        <5>3. QED
              BY <5>1, <5>2
      <4>4. req[s].pc = "confirm_commit" =>
               /\ req[s].link \in issued'
               /\ reset'[req[s].link].of \in {None, req[s].u}
               /\ \/ reset'[req[s].link].of = None
                  \/ "use" \in raced'[req[s].u]
                  \/ uses'[req[s].link] = 0
        <5>1. SUFFICES ASSUME req[s].pc = "confirm_commit"
              PROVE  /\ req[s].link \in issued'
                     /\ reset'[req[s].link].of \in {None, req[s].u}
                     /\ \/ reset'[req[s].link].of = None
                        \/ "use" \in raced'[req[s].u]
                        \/ uses'[req[s].link] = 0
              OBVIOUS
        <5>2. req[s].link \in Link \ {new} /\ req[s].u \in User
              BY <1>1, <2>1, <4>1, <5>1 DEF Knows, TypeOK
        <5>3. QED
              BY <2>1, <2>2, <2>5, <4>1, <5>1, <5>2 DEF Knows
      <4>5. QED
            BY <2>1, <4>1, <4>2, <4>3, <4>4 DEF Knows, Exists
    <3>3. QED
          BY <3>1, <3>2
  <2>14. QED
         BY <2>8, <2>9, <2>10, <2>11, <2>12, <2>13 DEF Inv
<1>8. QED
      BY <1>6, <1>7

\* A confirmation that nobody overlapped is the first use of its link.
LEMMA ConfirmKeeps ==
    ASSUME Inv, UNCHANGED expired, NEW r \in Request, ConfirmCommit(r)
    PROVE  Inv'
<1>1. TypeOK /\ req[r] \in RequestState /\ Knows(req[r])
      BY DEF Inv, TypeOK
<1>2. PICK u : u = req[r].u
      OBVIOUS
<1>3. PICK l : l = req[r].link
      OBVIOUS
<1>4. u \in User /\ u # None /\ l \in Link
      BY <1>1, <1>2, <1>3, NoneAssumption DEF ConfirmCommit, At, Knows, TypeOK
<1>5. CASE reset[l].of # u
      BY <1>2, <1>3, <1>5, AnswerKeeps DEF ConfirmCommit
<1>6. CASE reset[l].of = u
  <2> DEFINE races == IF {q \in Request \ {r} : At(q, "confirm_commit") /\ req[q].link = l} # {}
                      THEN {"use"} ELSE {}
  <2>1. /\ user' = [user EXCEPT ![u].password = req[r].password]
        /\ reset' = [reset EXCEPT ![l].used = TRUE]
        /\ uses' = [uses EXCEPT ![l] = @ + 1]
        /\ Note(u, races)
        /\ Finish(r)
        /\ UNCHANGED <<verification, issued, session>>
        BY <1>2, <1>3, <1>6 DEF ConfirmCommit
  <2>2. /\ raced' \in [User -> SUBSET {"reset", "use", "deletion"}]
        /\ \A v \in User : raced[v] \subseteq raced'[v]
        /\ races \subseteq raced'[u]
        BY <1>1, <1>4, <2>1, Noted
  <2>3. /\ req' \in [Request -> RequestState] /\ req'[r] = Idle
        /\ \A s \in Request \ {r} : req'[s] = req[s]
        BY <1>1, <2>1, IdleType, OneMoves DEF Finish
  <2>4. /\ user' \in [User -> UserRow]
        /\ \A v \in User : /\ user'[v].phase = user[v].phase /\ user'[v].address = user[v].address
                           /\ user'[v].sub = user[v].sub /\ user'[v].verified = user[v].verified
                           /\ v # u => user'[v] = user[v]
    <3>1. PICK row : row = [user[u] EXCEPT !.password = req[r].password]
          OBVIOUS
    <3>2. user[u] \in UserRow
          BY <1>1, <1>4 DEF TypeOK
    <3>3. /\ row \in UserRow /\ row.phase = user[u].phase /\ row.address = user[u].address
          /\ row.sub = user[u].sub /\ row.verified = user[u].verified
          BY <1>1, <3>1, <3>2 DEF UserRow, RequestState
    <3>4. user' = [user EXCEPT ![u] = row]
          BY <1>1, <1>4, <2>1, <3>1 DEF TypeOK
    <3>5. QED
          BY <1>1, <1>4, <3>3, <3>4 DEF TypeOK
  <2>5. /\ reset' \in [Link -> ResetRow] /\ reset'[l].used
        /\ \A k \in Link : /\ reset'[k].of = reset[k].of
                           /\ reset[k].used => reset'[k].used
    <3>1. PICK row : row = [reset[l] EXCEPT !.used = TRUE]
          OBVIOUS
    <3>2. reset[l] \in ResetRow
          BY <1>1, <1>4 DEF TypeOK
    <3>3. row \in ResetRow /\ row.of = reset[l].of /\ row.used
          BY <3>1, <3>2 DEF ResetRow
    <3>4. reset' = [reset EXCEPT ![l] = row]
          BY <1>1, <1>4, <2>1, <3>1 DEF TypeOK
    <3>5. QED
          BY <1>1, <1>4, <3>3, <3>4 DEF TypeOK
  <2>6. \A v \in User : ResetsOf(v)' = ResetsOf(v) /\ UnusedOf(v)' \subseteq UnusedOf(v)
        BY <2>5 DEF ResetsOf, UnusedOf
  <2>7. /\ uses' \in [Link -> Nat] /\ uses'[l] = uses[l] + 1
        /\ \A k \in Link \ {l} : uses'[k] = uses[k]
        BY <1>1, <1>4, <2>1 DEF TypeOK
  <2>8. TypeOK'
        BY <1>1, <2>1, <2>2, <2>3, <2>4, <2>5, <2>7 DEF TypeOK
  <2>9. LinksAreDrawn'
        BY <1>1, <1>3, <2>1, <2>5, <2>7 DEF Inv, LinksAreDrawn, ConfirmCommit, At, Knows
  <2>10. OneUnusedReset'
    <3>1. ASSUME NEW v \in User
          PROVE  "reset" \in raced'[v] \/ \A j, k \in UnusedOf(v)' : j = k
          BY <2>2, <2>6 DEF Inv, OneUnusedReset
    <3>2. QED
          BY <3>1 DEF OneUnusedReset
  <2>11. UsedIsMarked' /\ ResetLinkUsedOnce'
    <3>1. UsedIsMarked'
          BY <2>5, <2>7 DEF Inv, UsedIsMarked
    <3>2. ASSUME NEW k \in Link
          PROVE  reset'[k].of = None \/ "use" \in raced'[reset'[k].of] \/ uses'[k] <= 1
      <4>1. CASE k = l
        <5>1. "use" \in raced[u] \/ uses[l] = 0
              BY <1>1, <1>2, <1>3, <1>4, <1>6 DEF ConfirmCommit, At, Knows
        <5>2. QED
              BY <1>4, <1>6, <2>2, <2>5, <2>7, <4>1, <5>1
      <4>2. CASE k # l
        <5>1. reset[k].of \in User \cup {None}
              BY <1>1 DEF TypeOK, ResetRow
        <5>2. QED
              BY <2>2, <2>5, <2>7, <4>2, <5>1 DEF Inv, ResetLinkUsedOnce
      <4>3. QED
            BY <4>1, <4>2
    <3>3. QED
          BY <3>1, <3>2 DEF ResetLinkUsedOnce
  <2>12. DeletedIsDeleted' /\ GoogleOnlyVerified'
    <3>1. l \in ResetsOf(u)
          BY <1>4, <1>6 DEF ResetsOf
    <3>2. ASSUME NEW v \in User, user'[v].phase = "deleted"
          PROVE  /\ user'[v].address = None
                 /\ "deletion" \in raced'[v] \/ /\ user'[v].password = None
                                                /\ verification'[v] = NoVerification
                                                /\ ResetsOf(v)' = {}
          BY <2>1, <2>2, <2>4, <2>6, <3>1, <3>2 DEF Inv, DeletedIsDeleted
    <3>3. QED
          BY <2>4, <3>2 DEF Inv, DeletedIsDeleted, GoogleOnlyVerified
  <2>13. ASSUME NEW s \in Request PROVE Knows(req[s])'
    <3>1. CASE s = r
          BY <2>3, <3>1 DEF Knows, Idle
    <3>2. CASE s # r
      <4>1. req'[s] = req[s] /\ Knows(req[s])
            BY <1>1, <2>3, <3>2 DEF Inv
      <4>2. req[s].pc = "confirm_commit" =>
               /\ req[s].link \in issued'
               /\ reset'[req[s].link].of \in {None, req[s].u}
               /\ \/ reset'[req[s].link].of = None
                  \/ "use" \in raced'[req[s].u]
                  \/ uses'[req[s].link] = 0
        <5>1. CASE req[s].link = l
              BY <1>4, <1>6, <2>1, <2>2, <2>5, <3>2, <4>1, <5>1 DEF At, Knows
        <5>2. CASE req[s].link # l
              BY <1>1, <2>1, <2>2, <2>5, <2>7, <4>1, <5>2 DEF Knows, TypeOK
        <5>3. QED
              BY <5>1, <5>2
      <4>3. QED
            BY <2>1, <2>2, <2>4, <2>6, <4>1, <4>2 DEF Knows, Exists
    <3>3. QED
          BY <3>1, <3>2
  <2>14. QED
         BY <2>8, <2>9, <2>10, <2>11, <2>12, <2>13 DEF Inv
<1>7. QED
      BY <1>5, <1>6

\* A deletion removes what it has seen: all there is, short of the race it notes.
LEMMA DeleteKeeps ==
    ASSUME Inv, UNCHANGED expired, NEW r \in Request, DeleteCommit(r)
    PROVE  Inv'
<1>1. TypeOK /\ req[r] \in RequestState /\ Knows(req[r])
      BY DEF Inv, TypeOK
<1>2. PICK u : u = req[r].u
      OBVIOUS
<1>3. PICK seen : seen = req[r].seen
      OBVIOUS
<1>4. u \in User /\ u # None
      BY <1>1, <1>2, NoneAssumption DEF DeleteCommit, At, Knows
<1>5. \/ "deletion" \in raced[u]
      \/ verification[u].row \in {None, req[r].row} /\ ResetsOf(u) \subseteq seen
      BY <1>1, <1>2, <1>3 DEF DeleteCommit, At, Knows
<1>6. /\ user' = [user EXCEPT ![u] = Scrubbed(@)]
      /\ verification' = [verification EXCEPT ![u] =
            IF @.row = req[r].row THEN NoVerification ELSE @]
      /\ reset' = [l \in Link |-> IF l \in seen THEN NoReset ELSE reset[l]]
      /\ Finish(r)
      /\ UNCHANGED <<issued, session, raced, uses>>
      BY <1>2, <1>3 DEF DeleteCommit
<1>7. /\ req' \in [Request -> RequestState] /\ req'[r] = Idle
      /\ \A s \in Request \ {r} : req'[s] = req[s]
      BY <1>1, <1>6, IdleType, OneMoves DEF Finish
<1>8. /\ user' \in [User -> UserRow]
      /\ user'[u].phase = "deleted" /\ user'[u].address = None /\ user'[u].password = None
      /\ user'[u].sub = user[u].sub /\ user'[u].verified = user[u].verified
      /\ \A v \in User \ {u} : user'[v] = user[v]
  <2>1. PICK row : row = Scrubbed(user[u])
        OBVIOUS
  <2>2. user[u] \in UserRow
        BY <1>1, <1>4 DEF TypeOK
  <2>3. /\ row \in UserRow /\ row.phase = "deleted" /\ row.address = None
        /\ row.password = None /\ row.sub = user[u].sub /\ row.verified = user[u].verified
        BY <2>1, <2>2 DEF UserRow, Scrubbed
  <2>4. user' = [user EXCEPT ![u] = row]
        BY <1>1, <1>4, <1>6, <2>1 DEF TypeOK
  <2>5. QED
        BY <1>1, <1>4, <2>3, <2>4 DEF TypeOK
<1>9. /\ verification' \in [User -> VerificationRow]
      /\ \A v \in User : verification'[v] \in {NoVerification, verification[v]}
      /\ \A v \in User \ {u} : verification'[v] = verification[v]
      /\ verification[u].row = req[r].row => verification'[u] = NoVerification
      BY <1>1, <1>4, <1>6 DEF TypeOK, VerificationRow, NoVerification
<1>10. /\ reset' \in [Link -> ResetRow]
       /\ \A l \in Link : IF l \in seen THEN reset'[l].of = None ELSE reset'[l] = reset[l]
       BY <1>1, <1>6 DEF TypeOK, ResetRow, NoReset
<1>11. \A v \in User : ResetsOf(v)' \subseteq ResetsOf(v) \ seen /\ UnusedOf(v)' \subseteq UnusedOf(v)
       BY <1>10, NoneAssumption DEF ResetsOf, UnusedOf
<1>12. TypeOK'
       BY <1>1, <1>6, <1>7, <1>8, <1>9, <1>10 DEF TypeOK
<1>13. LinksAreDrawn'
       BY <1>6, <1>9, <1>10 DEF Inv, LinksAreDrawn, NoVerification
<1>14. OneUnusedReset'
  <2>1. ASSUME NEW v \in User
        PROVE  "reset" \in raced'[v] \/ \A j, k \in UnusedOf(v)' : j = k
        BY <1>6, <1>11 DEF Inv, OneUnusedReset
  <2>2. QED
        BY <2>1 DEF OneUnusedReset
<1>15. UsedIsMarked' /\ ResetLinkUsedOnce'
       BY <1>6, <1>10 DEF Inv, UsedIsMarked, ResetLinkUsedOnce
<1>16. DeletedIsDeleted' /\ GoogleOnlyVerified'
  <2>1. verification[u].row = None => verification[u] = NoVerification
        BY <1>1, <1>4 DEF Inv, TypeOK, LinksAreDrawn, VerificationRow, NoVerification
  <2>2. \/ "deletion" \in raced[u]
        \/ verification'[u] = NoVerification /\ ResetsOf(u)' = {}
        BY <1>4, <1>5, <1>9, <1>11, <2>1
  <2>3. ASSUME NEW v \in User, user'[v].phase = "deleted"
        PROVE  /\ user'[v].address = None
               /\ "deletion" \in raced'[v] \/ /\ user'[v].password = None
                                              /\ verification'[v] = NoVerification
                                              /\ ResetsOf(v)' = {}
    <3>1. CASE v = u
          BY <1>6, <1>8, <2>2, <3>1
    <3>2. CASE v # u
          BY <1>6, <1>8, <1>9, <1>11, <2>3, <3>2 DEF Inv, DeletedIsDeleted
    <3>3. QED
          BY <3>1, <3>2
  <2>4. QED
        BY <1>8, <2>3 DEF Inv, DeletedIsDeleted, GoogleOnlyVerified
<1>17. ASSUME NEW s \in Request PROVE Knows(req[s])'
  <2>1. CASE s = r
        BY <1>7, <2>1 DEF Knows, Idle
  <2>2. CASE s # r
    <3>1. req'[s] = req[s] /\ Knows(req[s])
          BY <1>1, <1>7, <2>2 DEF Inv
    <3>2. \A v \in User : Exists(v) /\ user[v].verified => Exists(v)' /\ user'[v].verified
          BY <1>8 DEF Exists
    <3>3. req[s].pc = "confirm_commit" =>
             /\ req[s].link \in issued'
             /\ reset'[req[s].link].of \in {None, req[s].u}
             /\ \/ reset'[req[s].link].of = None
                \/ "use" \in raced'[req[s].u]
                \/ uses'[req[s].link] = 0
          BY <1>1, <1>6, <1>10, <3>1 DEF Knows, TypeOK
    <3>4. req[s].pc = "delete_commit" =>
             \/ "deletion" \in raced'[req[s].u]
             \/ /\ verification'[req[s].u].row \in {None, req[s].row}
                /\ ResetsOf(req[s].u)' \subseteq req[s].seen
          BY <1>6, <1>9, <1>11, <3>1 DEF Knows, NoVerification
    <3>5. QED
          BY <1>6, <1>11, <3>1, <3>2, <3>3, <3>4 DEF Knows
  <2>3. QED
        BY <2>1, <2>2
<1>18. QED
       BY <1>12, <1>13, <1>14, <1>15, <1>16, <1>17 DEF Inv

\* The invariant does not read the clock.
LEMMA ExpireKeeps ==
    ASSUME Inv, NEW l \in Link, Expire(l)
    PROVE  Inv'
<1>1. TypeOK'
      BY DEF Inv, TypeOK, Expire, tables
<1>2. LinksAreDrawn' /\ OneUnusedReset' /\ UsedIsMarked' /\ ResetLinkUsedOnce'
      BY DEF Inv, Expire, tables, LinksAreDrawn, OneUnusedReset, UsedIsMarked,
             ResetLinkUsedOnce, UnusedOf, ResetsOf
<1>3. DeletedIsDeleted' /\ GoogleOnlyVerified'
      BY DEF Inv, Expire, tables, DeletedIsDeleted, GoogleOnlyVerified, ResetsOf
<1>4. \A s \in Request : Knows(req[s])'
      BY DEF Inv, Expire, tables, Knows, UnusedOf, ResetsOf, Exists
<1>5. QED
      BY <1>1, <1>2, <1>3, <1>4 DEF Inv

-----------------------------------------------------------------------------
(* The invariants.                                                         *)

LEMMA InitInv == Init => Inv
<1> SUFFICES ASSUME Init PROVE Inv
    OBVIOUS
<1>1. TypeOK
  <2>1. FreeUser \in UserRow /\ NoVerification \in VerificationRow /\ NoReset \in ResetRow
        BY DEF FreeUser, UserRow, NoVerification, VerificationRow, NoReset, ResetRow
  <2>2. FreeUser.address = None /\ FreeUser.sub = None
        BY DEF FreeUser
  <2>3. QED
        BY <2>1, <2>2, IdleType DEF Init, TypeOK
<1>2. \A u \in User : ResetsOf(u) = {} /\ UnusedOf(u) = {}
      BY NoneAssumption DEF Init, ResetsOf, UnusedOf, NoReset
<1>3. LinksAreDrawn /\ OneUnusedReset /\ UsedIsMarked /\ ResetLinkUsedOnce
      BY <1>2 DEF Init, LinksAreDrawn, OneUnusedReset, UsedIsMarked, ResetLinkUsedOnce,
                  NoVerification, NoReset
<1>4. DeletedIsDeleted /\ GoogleOnlyVerified
      BY DEF Init, DeletedIsDeleted, GoogleOnlyVerified, FreeUser
<1>5. \A r \in Request : Knows(req[r])
      BY IdleType DEF Init
<1>6. QED
      BY <1>1, <1>3, <1>4, <1>5 DEF Inv

LEMMA NextInv == Inv /\ [Next]_vars => Inv'
<1> SUFFICES ASSUME Inv, [Next]_vars PROVE Inv'
    OBVIOUS
<1>1. ASSUME NEW r \in Request, Arrival(r), UNCHANGED expired PROVE Inv'
      BY <1>1, ReadsKeep, DecisionsKeep, RegisterKeeps, SignInKeeps DEF Arrival
<1>2. ASSUME NEW r \in Request, Progress(r), UNCHANGED expired PROVE Inv'
      BY <1>2, ReadsKeep, SendKeeps, VerifyKeeps, ResetKeeps, ConfirmKeeps, GoogleEmailKeeps,
         GoogleLinkKeeps, GoogleCreateKeeps, DeleteKeeps, AdminKeeps DEF Progress
<1>3. ASSUME NEW r \in Request, Abort(r), UNCHANGED expired PROVE Inv'
      BY <1>3, AnswerKeeps DEF Abort
<1>4. CASE UNCHANGED vars
  <2>1. TypeOK'
        BY <1>4 DEF Inv, TypeOK, vars
  <2>2. LinksAreDrawn' /\ OneUnusedReset' /\ UsedIsMarked' /\ ResetLinkUsedOnce'
        BY <1>4 DEF Inv, vars, LinksAreDrawn, OneUnusedReset, UsedIsMarked, ResetLinkUsedOnce,
                    UnusedOf, ResetsOf
  <2>3. DeletedIsDeleted' /\ GoogleOnlyVerified'
        BY <1>4 DEF Inv, vars, DeletedIsDeleted, GoogleOnlyVerified, ResetsOf
  <2>4. \A s \in Request : Knows(req[s])'
        BY <1>4 DEF Inv, vars, Knows, UnusedOf, ResetsOf, Exists
  <2>5. QED
        BY <2>1, <2>2, <2>3, <2>4 DEF Inv
<1>5. QED
      BY <1>1, <1>2, <1>3, <1>4, AdminKeeps, ExpireKeeps DEF Next

\* The inductive invariant: what the tables say of each other, and what every
\* worker still knows of what it has read.
THEOREM InvHolds == Spec => []Inv
BY InitInv, NextInv, PTL DEF Spec

\* The unique indexes on users hold whatever overlaps, and the tables and the
\* workers stay within their types.
THEOREM TypeCorrect == Spec => []TypeOK
<1>1. Inv => TypeOK
      BY DEF Inv
<1>2. QED
      BY <1>1, InvHolds, PTL

LEMMA OneLiveReset == Inv => OneResetLink
<1> SUFFICES ASSUME Inv, NEW u \in User, "reset" \notin raced[u]
             PROVE  Cardinality(LiveResets(u)) <= 1
    BY DEF OneResetLink
<1>1. \A k, l \in LiveResets(u) : k = l
      BY DEF Inv, OneUnusedReset, LiveResets
<1>2. CASE LiveResets(u) = {}
      BY <1>2, FS_EmptySet
<1>3. CASE LiveResets(u) # {}
  <2>1. PICK l : LiveResets(u) = {l}
        BY <1>1, <1>3
  <2>2. QED
        BY <2>1, FS_Singleton
<1>4. QED
      BY <1>2, <1>3

\* However many requests, resets and confirmations there are, a user whose
\* requests never overlapped has at most one reset link that works.
THEOREM OneLink == Spec => []OneResetLink
BY OneLiveReset, InvHolds, PTL

\* A link that was not confirmed twice at once changes the password once.
THEOREM UsedOnce == Spec => []ResetLinkUsedOnce
<1>1. Inv => ResetLinkUsedOnce
      BY DEF Inv
<1>2. QED
      BY <1>1, InvHolds, PTL

\* A deletion leaves no way back into the account, short of the race it lost.
THEOREM Deleted == Spec => []DeletedIsDeleted
<1>1. Inv => DeletedIsDeleted
      BY DEF Inv
<1>2. QED
      BY <1>1, InvHolds, PTL

\* Google leads only into accounts whose address was proven.
THEOREM GoogleVerified == Spec => []GoogleOnlyVerified
<1>1. Inv => GoogleOnlyVerified
      BY DEF Inv
<1>2. QED
      BY <1>1, InvHolds, PTL

-----------------------------------------------------------------------------
(* The admins.                                                             *)

\* A write that keeps a row's phase and the admin's flags keeps the admin.
LEMMA FlagsKept ==
    ASSUME NEW u \in Admins,
           /\ user'[u].phase = user[u].phase
           /\ user[u].active => user'[u].active
           /\ user[u].admin => user'[u].admin
    PROVE  u \in Admins'
BY DEF Admins, MayEnter

\* No write but a deletion's and a deactivation's makes an admin less.
LEMMA AdminsKept ==
    ASSUME Inv, NEW u \in Admins, NEW r \in Request,
           Arrival(r) \/ Progress(r) \/ Abort(r), ~DeleteCommit(r), ~DeactivateCommit(r)
    PROVE  u \in Admins'
<1> DEFINE Kept == /\ user'[u].phase = user[u].phase
                   /\ user[u].active => user'[u].active
                   /\ user[u].admin => user'[u].admin
<1>1. TypeOK /\ u \in User /\ user[u] \in UserRow /\ user[u].phase = "live"
      BY DEF Inv, TypeOK, Admins, MayEnter
<1>2. ASSUME user' = user PROVE Kept
      BY <1>2
<1>3. ASSUME NEW v, NEW row, user' = [user EXCEPT ![v] = row], u # v PROVE Kept
      BY <1>1, <1>3 DEF TypeOK
<1>4. ASSUME Arrival(r) PROVE Kept
      BY <1>1, <1>2, <1>3, <1>4
      DEF Arrival, Register, Exists, Resend, VerifyRead, ResetRead, ConfirmRead, Login,
          GoogleReturning, GoogleUnknownSub, DeleteRead, Deactivate, Reactivate, tables
<1>5. ASSUME VerifyCommit(r) PROVE Kept
      BY <1>1, <1>5 DEF VerifyCommit, TypeOK, UserRow
<1>6. ASSUME ConfirmCommit(r) PROVE Kept
      BY <1>1, <1>6 DEF ConfirmCommit, Answer, TypeOK, UserRow
<1>7. ASSUME GoogleLink(r) PROVE Kept
      BY <1>1, <1>7 DEF GoogleLink, Answer, TypeOK, UserRow
<1>8. ASSUME GoogleCreate(r) PROVE Kept
      BY <1>1, <1>2, <1>3, <1>8 DEF GoogleCreate, Answer, Exists
<1>9. ASSUME ReactivateCommit(r) PROVE Kept
      BY <1>1, <1>9 DEF ReactivateCommit, SetActive, TypeOK, UserRow
<1>10. ASSUME SendRead(r) \/ SendCommit(r) \/ ResetCommit(r) \/ GoogleEmail(r) \/ Abort(r)
       PROVE  Kept
       BY <1>2, <1>10
       DEF SendRead, SendCommit, ResetCommit, GoogleEmail, Abort, Answer, tables
<1>11. Kept
       BY <1>4, <1>5, <1>6, <1>7, <1>8, <1>9, <1>10 DEF Progress
<1>12. QED
       BY <1>11, FlagsKept

\* Which step takes the last admin.
LEMMA LastAdmin ==
    ASSUME Inv, [Next]_vars, Admins # {}, Admins' = {}
    PROVE  \/ \E u \in Admins : user'[u].phase = "deleted"
           \/ \E r \in Request : At(r, "deactivate_commit") /\ At(r, "idle")'
                                 /\ req[r].u \notin Admins
<1>1. TypeOK /\ \A r \in Request : Knows(req[r])
      BY DEF Inv
<1>2. PICK u \in Admins : TRUE
      OBVIOUS
<1>3. u \in User /\ user[u] \in UserRow
      BY <1>1 DEF Admins, TypeOK
<1>4. ASSUME NEW r \in Request, DeleteCommit(r) PROVE user'[u].phase = "deleted"
  <2>1. req[r].u = u
    <3>1. SUFFICES ASSUME req[r].u # u PROVE FALSE
          OBVIOUS
    <3>2. user'[u] = user[u]
          BY <1>1, <1>3, <1>4, <3>1 DEF DeleteCommit, TypeOK
    <3>3. QED
          BY <3>2, FlagsKept
  <2>2. user'[u] = Scrubbed(user[u])
        BY <1>1, <1>3, <1>4, <2>1 DEF DeleteCommit, TypeOK
  <2>3. QED
        BY <1>3, <2>2 DEF Scrubbed, UserRow
<1>5. ASSUME NEW r \in Request, DeactivateCommit(r)
      PROVE  At(r, "deactivate_commit") /\ At(r, "idle")' /\ req[r].u \notin Admins
  <2>1. At(r, "deactivate_commit") /\ At(r, "idle")'
        BY <1>1, <1>5, IdleType DEF DeactivateCommit, SetActive, Finish, At, TypeOK
  <2>2. req[r].u # req[r].target
        BY <1>1, <2>1 DEF Knows, At
  <2>3. ASSUME req[r].u \in Admins PROVE FALSE
    <3>1. user'[req[r].u] = user[req[r].u]
          BY <1>1, <1>5, <2>2, <2>3 DEF DeactivateCommit, SetActive, TypeOK, Admins
    <3>2. QED
          BY <2>3, <3>1, FlagsKept
  <2>4. QED
        BY <2>1, <2>3
<1>6. ASSUME NEW v \in User, GrantAdmin(v) PROVE FALSE
  <2>1. /\ user'[u].phase = user[u].phase
        /\ user[u].active => user'[u].active
        /\ user[u].admin => user'[u].admin
        BY <1>1, <1>3, <1>6 DEF GrantAdmin, TypeOK, UserRow
  <2>2. QED
        BY <2>1, FlagsKept
<1>7. user' # user
      BY FlagsKept
<1>8. PICK r \in Request : DeleteCommit(r) \/ DeactivateCommit(r)
      BY <1>6, <1>7, AdminsKept DEF Next, Expire, tables, vars
<1>9. QED
      BY <1>4, <1>5, <1>8

\* The last working admin goes by their own hand, or by an admin who had been
\* blocked since the request was let in.
THEOREM LastAdminLeaves == Spec => LastAdminStays
<1>1. Inv /\ [Next]_vars =>
        [ Admins # {} /\ Admins' = {} =>
            \/ \E u \in Admins : user'[u].phase = "deleted"
            \/ \E r \in Request : At(r, "deactivate_commit") /\ At(r, "idle")'
                                  /\ req[r].u \notin Admins ]_vars
      BY LastAdmin
<1>2. QED
      BY <1>1, InvHolds, PTL DEF Spec, LastAdminStays

-----------------------------------------------------------------------------
(* Mailed links implement Links.                                           *)

\* The links that work, but for their age: those of a verification row and
\* those of an unused reset row.
LEMMA Working ==
    ASSUME TypeOK
    PROVE  \A l : l \in LiveLinks <=>
              \/ l # None /\ \E u \in User : verification[u].link = l
              \/ l \in Link /\ reset[l].of # None /\ ~reset[l].used
<1>1. \A l \in Link : reset[l].of \in User \cup {None}
      BY DEF TypeOK, ResetRow
<1>2. QED
      BY <1>1, NoneAssumption DEF LiveLinks, UnusedOf, ResetsOf

\* The same of the next state.
LEMMA WorkingNext ==
    ASSUME TypeOK'
    PROVE  \A l : l \in LiveLinks' <=>
              \/ l # None /\ \E u \in User : verification'[u].link = l
              \/ l \in Link /\ reset'[l].of # None /\ ~reset'[l].used
<1>1. \A l \in Link : reset'[l].of \in User \cup {None}
      BY DEF TypeOK, ResetRow
<1>2. QED
      BY <1>1, NoneAssumption DEF LiveLinks, UnusedOf, ResetsOf

LEMMA WorkingDrawn ==
    ASSUME Inv
    PROVE  LiveLinks \subseteq issued
BY Working DEF Inv, LinksAreDrawn

\* A step that draws no link and revives none is a Kill, or not seen.
LEMMA Shrinks ==
    ASSUME Inv, issued' = issued, LiveLinks' \ expired' \subseteq LiveLinks \ expired
    PROVE  [Promised!Next]_(Promised!links)
<1> DEFINE L == LiveLinks \ expired
           M == LiveLinks' \ expired'
<1>1. L \subseteq issued /\ M \subseteq L
      BY WorkingDrawn
<1>2. CASE M = L
      BY <1>2 DEF Promised!links
<1>3. CASE M # L
  <2>1. M = L \ (L \ M) /\ issued' \ M = (issued \ L) \cup (L \ M) /\ L \ M # {}
        BY <1>1, <1>3
  <2>2. Promised!Kill(L \ M)
        BY <2>1 DEF Promised!Kill
  <2>3. QED
        BY <2>2 DEF Promised!Next
<1>4. QED
      BY <1>2, <1>3

\* A step that draws a link and revives no other is an Issue.
LEMMA Grows ==
    ASSUME Inv, NEW new \in Link \ issued, issued' = issued \cup {new},
           new \in LiveLinks' \ expired',
           LiveLinks' \ expired' \subseteq (LiveLinks \ expired) \cup {new}
    PROVE  Promised!Next
<1> DEFINE L == LiveLinks \ expired
           M == LiveLinks' \ expired'
<1>1. L \subseteq issued
      BY WorkingDrawn
<1>2. /\ new \notin L \cup (issued \ L)
      /\ L \ M \subseteq L
      /\ M = (L \ (L \ M)) \cup {new}
      /\ issued' \ M = (issued \ L) \cup (L \ M)
      BY <1>1
<1>3. Promised!Issue(new, L \ M)
      BY <1>2 DEF Promised!Issue
<1>4. QED
      BY <1>3 DEF Promised!Next

\* A step that writes neither kind of row, nor draws a link.
LEMMA NoMail ==
    ASSUME Inv, UNCHANGED <<verification, reset, issued, expired>>
    PROVE  [Promised!Next]_(Promised!links)
<1>1. LiveLinks' = LiveLinks
      BY DEF LiveLinks, UnusedOf, ResetsOf
<1>2. QED
      BY <1>1, Shrinks

\* A verification link is drawn, perhaps in the place of the user's other one.
LEMMA SendIssues ==
    ASSUME Inv, Inv', UNCHANGED expired, NEW r \in Request, SendCommit(r)
    PROVE  [Promised!Next]_(Promised!links)
<1>1. TypeOK /\ TypeOK' /\ Knows(req[r])
      BY DEF Inv
<1>2. PICK u \in User : u = req[r].u
      BY <1>1 DEF SendCommit, At, Knows
<1>3. CASE Answer(r)
      BY <1>3, NoMail DEF Answer
<1>4. ASSUME NEW l \in Link \ issued, issued' = issued \cup {l}, UNCHANGED reset,
             verification' = [verification EXCEPT ![u] =
                 [row |-> IF req[r].row = None THEN l ELSE @.row, link |-> l]]
      PROVE  Promised!Next
  <2>1. /\ verification'[u].link = l
        /\ \A v \in User \ {u} : verification'[v] = verification[v]
        BY <1>1, <1>4 DEF TypeOK
  <2>2. l # None /\ l \notin expired
        BY <1>1, NoneAssumption DEF TypeOK
  <2>3. l \in LiveLinks' /\ LiveLinks' \subseteq LiveLinks \cup {l}
        BY <1>1, <1>4, <2>1, <2>2, Working, WorkingNext
  <2>4. QED
        BY <1>4, <2>2, <2>3, Grows
<1>5. QED
      BY <1>2, <1>3, <1>4 DEF SendCommit

\* A reset link is drawn, in the place of those its request has seen.
LEMMA ResetIssues ==
    ASSUME Inv, Inv', UNCHANGED expired, NEW r \in Request, ResetCommit(r)
    PROVE  [Promised!Next]_(Promised!links)
<1>1. TypeOK /\ TypeOK' /\ Knows(req[r])
      BY DEF Inv
<1>2. PICK u \in User : u = req[r].u
      BY <1>1 DEF ResetCommit, At, Knows
<1>3. CASE Answer(r)
      BY <1>3, NoMail DEF Answer
<1>4. ASSUME NEW new \in Link \ issued, issued' = issued \cup {new}, UNCHANGED verification,
             reset' = [l \in Link |-> IF l = new THEN [of |-> u, used |-> FALSE]
                                      ELSE IF l \in req[r].seen THEN [reset[l] EXCEPT !.used = TRUE]
                                      ELSE reset[l]]
      PROVE  Promised!Next
  <2>1. \A row \in ResetRow : [row EXCEPT !.used = TRUE].used
        BY DEF ResetRow
  <2>2. /\ reset'[new].of = u /\ ~reset'[new].used
        /\ \A l \in Link \ {new} : reset'[l] = reset[l] \/ reset'[l].used
        BY <1>1, <1>4, <2>1 DEF TypeOK
  <2>3. new # None /\ new \notin expired /\ u # None
        BY <1>1, NoneAssumption DEF TypeOK
  <2>4. new \in LiveLinks' /\ LiveLinks' \subseteq LiveLinks \cup {new}
        BY <1>1, <1>4, <2>2, <2>3, Working, WorkingNext
  <2>5. QED
        BY <1>4, <2>3, <2>4, Grows
<1>5. QED
      BY <1>2, <1>3, <1>4 DEF ResetCommit

\* A link that is followed, or whose account goes, is withdrawn for good.
LEMMA UseKills ==
    ASSUME Inv, Inv', UNCHANGED expired, NEW r \in Request,
           VerifyCommit(r) \/ ConfirmCommit(r) \/ DeleteCommit(r)
    PROVE  [Promised!Next]_(Promised!links)
<1>1. TypeOK /\ TypeOK'
      BY DEF Inv
<1>2. NoVerification.link = None /\ NoReset.of = None
      BY DEF NoVerification, NoReset
<1>3. CASE Answer(r)
      BY <1>3, NoMail DEF Answer
<1>4. CASE ~Answer(r)
  <2>1. /\ UNCHANGED issued
        /\ \A u \in User : verification'[u] \in {verification[u], NoVerification}
        BY <1>1, <1>4 DEF VerifyCommit, ConfirmCommit, DeleteCommit, TypeOK
  <2>2. \A row \in ResetRow : [row EXCEPT !.used = TRUE].used
        BY DEF ResetRow
  <2>3. \A l \in Link : reset'[l] \in {reset[l], NoReset} \/ reset'[l].used
    <3>1. CASE VerifyCommit(r)
          BY <3>1 DEF VerifyCommit
    <3>2. CASE ConfirmCommit(r)
      <4>1. reset' = [reset EXCEPT ![req[r].link].used = TRUE]
            BY <1>4, <3>2 DEF ConfirmCommit
      <4>2. QED
            BY <1>1, <2>2, <4>1 DEF TypeOK
    <3>3. CASE DeleteCommit(r)
          BY <3>3 DEF DeleteCommit
    <3>4. QED
          BY <3>1, <3>2, <3>3
  <2>4. LiveLinks' \subseteq LiveLinks
        BY <1>1, <1>2, <2>1, <2>3, Working, WorkingNext
  <2>5. QED
        BY <2>1, <2>4, Shrinks
<1>5. QED
      BY <1>3, <1>4

LEMMA LinksInit == Init => Promised!Init
<1> SUFFICES ASSUME Init PROVE Promised!Init
    OBVIOUS
<1>1. issued = {} /\ LiveLinks = {}
      BY InitInv, WorkingDrawn DEF Init
<1>2. QED
      BY <1>1 DEF Promised!Init

LEMMA LinksNext ==
    ASSUME Inv, Inv', [Next]_vars
    PROVE  [Promised!Next]_(Promised!links)
<1>1. ASSUME NEW r \in Request, Arrival(r) \/ Abort(r), UNCHANGED expired
      PROVE  [Promised!Next]_(Promised!links)
      BY <1>1, NoMail
      DEF Arrival, Register, Resend, VerifyRead, ResetRead, ConfirmRead, Login,
          GoogleReturning, GoogleUnknownSub, DeleteRead, Deactivate, Reactivate, tables,
          Abort, Answer
<1>2. ASSUME NEW r \in Request, UNCHANGED expired,
             \/ SendRead(r) \/ GoogleEmail(r) \/ GoogleLink(r) \/ GoogleCreate(r)
             \/ DeactivateCommit(r) \/ ReactivateCommit(r)
      PROVE  [Promised!Next]_(Promised!links)
      BY <1>2, NoMail
      DEF SendRead, GoogleEmail, GoogleLink, GoogleCreate, DeactivateCommit,
          ReactivateCommit, SetActive, tables, Answer
<1>3. ASSUME NEW r \in Request, Progress(r), UNCHANGED expired
      PROVE  [Promised!Next]_(Promised!links)
      BY <1>2, <1>3, SendIssues, ResetIssues, UseKills DEF Progress
<1>4. ASSUME NEW u \in User, GrantAdmin(u), UNCHANGED expired
      PROVE  [Promised!Next]_(Promised!links)
      BY <1>4, NoMail DEF GrantAdmin
<1>5. ASSUME NEW l \in Link, Expire(l)
      PROVE  [Promised!Next]_(Promised!links)
  <2>1. LiveLinks' = LiveLinks /\ issued' = issued /\ expired \subseteq expired'
        BY <1>5 DEF Expire, tables, LiveLinks, UnusedOf, ResetsOf
  <2>2. QED
        BY <2>1, Shrinks
<1>6. CASE UNCHANGED vars
      BY <1>6, NoMail DEF vars
<1>7. QED
      BY <1>1, <1>3, <1>4, <1>5, <1>6 DEF Next

\* A mailed link is handed out once, and once it has stopped working - used,
\* replaced, expired or withdrawn - it never works again.
THEOREM ImplementsLinks == Spec => LinksSpec
<1>1. Init => Promised!Init
      BY LinksInit
<1>2. Inv /\ Inv' /\ [Next]_vars => [Promised!Next]_(Promised!links)
      BY LinksNext
<1>3. QED
      BY <1>1, <1>2, InvHolds, PTL DEF Spec, LinksSpec, Promised!Spec

=============================================================================
