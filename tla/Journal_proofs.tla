--------------------------- MODULE Journal_proofs ---------------------------
(***************************************************************************)
(* Proofs about Journal, for any number of users, entries, comments, tags  *)
(* and requests: what the list and the view agree on, that no reply or     *)
(* notification or tag gets lost, and how long a link lasts.               *)
(***************************************************************************)
EXTENDS Journal, TLAPS

-----------------------------------------------------------------------------
(* Operators.                                                              *)

LEMMA FreshIn == ASSUME NEW S, S # {} PROVE Fresh(S) \in S
BY DEF Fresh

LEMMA EntryRowsTyped ==
    /\ NoEntry \in EntryRow
    /\ [NoEntry EXCEPT !.phase = "gone"] \in EntryRow
    /\ [NoEntry EXCEPT !.phase = "gone"].phase = "gone"
    /\ [NoEntry EXCEPT !.phase = "gone"].tags = {}
BY DEF NoEntry, EntryRow

LEMMA CommentRowsTyped ==
    /\ NoComment \in CommentRow
    /\ [NoComment EXCEPT !.phase = "gone"] \in CommentRow
    /\ [NoComment EXCEPT !.phase = "gone"].phase = "gone"
BY DEF NoComment, CommentRow

LEMMA IdleType ==
    /\ Idle \in RequestState
    /\ Idle.pc = "idle" /\ Idle.hold = {} /\ Idle.need = {} /\ Idle.token = None
BY EntryRowsTyped DEF Idle, RequestState

LEMMA IdleKnows == Knows(Idle)
BY IdleType DEF Knows, Aim

\* An entry made from a form.
LEMMA FilledType ==
    ASSUME NEW u \in User, NEW form \in Form
    PROVE  /\ Filled(form, u) \in EntryRow
           /\ Filled(form, u).phase = "live" /\ Filled(form, u).author = u
           /\ Filled(form, u).tags = form.tags
BY FormAssumption DEF Filled, EntryRow

\* Where a request goes that needs some names.
LEMMA NamesWanted ==
    ASSUME NEW state \in RequestState, NEW job \in {"create", "update", "share", "recap"},
           NEW names \in SUBSET Name, state.hold = {}
    PROVE  LET q == WithNames(state, job, names) IN
           /\ q \in RequestState
           /\ Aim(q) = job /\ q.pc \in {"name", job} /\ (names = {} => q.pc = job)
           /\ q.hold = {} /\ q.need = names \ named
           /\ q.pc # "name" => q.need = {}
           /\ q.of = state.of /\ q.new = state.new /\ q.token = state.token
<1> DEFINE q == WithNames(state, job, names)
<1>1. q = [state EXCEPT !.job = job, !.need = names \ named,
                        !.pc = IF names \subseteq named THEN job ELSE "name"]
      BY DEF WithNames
<1>2. PICK pc : pc = IF names \subseteq named THEN job ELSE "name"
      OBVIOUS
<1>3. PICK need : need = names \ named
      OBVIOUS
<1>4. q = [state EXCEPT !.job = job, !.need = need, !.pc = pc]
      BY <1>1, <1>2, <1>3
<1>5. /\ pc \in {"name", job} /\ need \in SUBSET Name
      /\ pc \in {"name", "create", "update", "share", "recap"}
      BY <1>2, <1>3
<1>6. /\ q \in RequestState /\ q.pc = pc /\ q.job = job /\ q.need = need
      /\ q.hold = {} /\ q.of = state.of /\ q.new = state.new /\ q.token = state.token
  <2>1. q \in RequestState
        BY <1>4, <1>5 DEF RequestState
  <2>2. q.pc = pc /\ q.job = job /\ q.need = need
        BY <1>4 DEF RequestState
  <2>3. q.hold = {} /\ q.of = state.of /\ q.new = state.new /\ q.token = state.token
        BY <1>4 DEF RequestState
  <2>4. QED
        BY <2>1, <2>2, <2>3
<1>7. Aim(q) = job
      BY <1>2, <1>6 DEF Aim
<1>8. (names = {} => pc = job) /\ (pc # "name" => need = {})
      BY <1>2, <1>3
<1>9. QED
      BY <1>3, <1>5, <1>6, <1>7, <1>8

-----------------------------------------------------------------------------
(* Steps that leave the content alone.                                     *)

\* The invariant survives a step that leaves the content alone and the request
\* with what it knows to be true and names of its own.
LEMMA Quiet ==
    ASSUME Inv, UNCHANGED <<public, role, content>>,
           NEW r \in Request, NEW q \in RequestState, Knows(q),
           q.hold \cap named = {}, \A s \in Request \ {r} : q.hold \cap req[s].hold = {},
           req' = [req EXCEPT ![r] = q]
    PROVE  Inv'
<1>1. TypeOK /\ \A s \in Request : Knows(req[s])
      BY DEF Inv
<1>2. /\ req' \in [Request -> RequestState]
      /\ req'[r] = q
      /\ \A s \in Request \ {r} : req'[s] = req[s]
      BY <1>1 DEF TypeOK
<1>3. TypeOK'
      BY <1>1, <1>2 DEF TypeOK, content
<1>4. ThreadsWhole' /\ NobodyMissed' /\ RowsInOrder'
      BY DEF Inv, content, ThreadsWhole, NobodyMissed, RowsInOrder, Posted, Live, FreeComments
<1>5. ASSUME NEW s \in Request PROVE Knows(req[s])'
  <2>1. Knows(req'[s])
        BY <1>1, <1>2
  <2>2. QED
        BY <2>1 DEF Knows, content, Live, Posted, Aim
<1>6. TagsComplete'
  <2>1. \A e \in Entry : entry'[e].tags \subseteq named'
        BY DEF Inv, TagsComplete, content
  <2>2. ASSUME NEW s \in Request, req'[s].pc \in {"create", "update"}
        PROVE  req'[s].new.tags \subseteq named' \cup req'[s].hold
        BY <1>5, <2>2 DEF Knows, Aim
  <2>3. QED
        BY <2>1, <2>2 DEF TagsComplete
<1>7. QED
      BY <1>3, <1>4, <1>5, <1>6 DEF Inv

LEMMA RefuseKeeps ==
    ASSUME Inv, UNCHANGED <<public, role>>, NEW r \in Request, Refuse(r)
    PROVE  Inv'
BY IdleType, IdleKnows, Quiet DEF Refuse, Finish

\* Nobody's invariant depends on the roles or the visibility of the workspace.
LEMMA RolesKeep ==
    ASSUME Inv, \/ \E u \in User, new \in Roles : SetRole(u, new)
                \/ SetVisibility
    PROVE  Inv'
<1>1. UNCHANGED <<req, content>>
      BY DEF SetRole, SetVisibility
<1>2. TypeOK'
      BY <1>1 DEF Inv, TypeOK, content, SetRole, SetVisibility
<1>3. ThreadsWhole' /\ NobodyMissed' /\ RowsInOrder' /\ TagsComplete'
      BY <1>1 DEF Inv, content, ThreadsWhole, NobodyMissed, RowsInOrder, TagsComplete, Posted,
                  Live, FreeComments
<1>4. \A s \in Request : Knows(req[s])'
      BY <1>1 DEF Inv, Knows, content, Live, Posted, Aim
<1>5. QED
      BY <1>2, <1>3, <1>4 DEF Inv

\* A request begins to look for the names of a new entry, of an edit, of the recap.
LEMMA NamingKeeps ==
    ASSUME Inv, UNCHANGED <<public, role>>, NEW r \in Request,
           \/ \E u \in User \cup {None} : ViewRecap(r, u)
           \/ \E u \in User, form \in Form : CreateEntry(r, u, form)
           \/ \E u \in User, form \in Form, e \in Entry : UpdateEntry(r, u, e, form)
    PROVE  Inv'
<1>1. TypeOK
      BY DEF Inv
<1>2. ASSUME NEW u \in User \cup {None}, ViewRecap(r, u) PROVE Inv'
  <2>1. PICK q : q = WithNames(Idle, "recap", {Recap})
        OBVIOUS
  <2>2. /\ q \in RequestState /\ Aim(q) = "recap" /\ q.hold = {} /\ q.pc \in {"name", "recap"}
        /\ q.pc # "name" => q.need = {}
        BY <2>1, IdleType, NamesWanted DEF Name
  <2>3. Knows(q)
        BY <2>2 DEF Knows
  <2>4. QED
        BY <1>2, <2>1, <2>2, <2>3, Quiet DEF ViewRecap, Begin
<1>3. ASSUME NEW u \in User, NEW form \in Form, CreateEntry(r, u, form) PROVE Inv'
  <2>1. PICK new : new = Filled(form, u)
        OBVIOUS
  <2>2. /\ new \in EntryRow /\ new.phase = "live" /\ new.author \in User
        /\ new.tags \in SUBSET Name
        BY <2>1, FilledType, FormAssumption DEF Name
  <2>3. PICK state : state = [Idle EXCEPT !.new = new]
        OBVIOUS
  <2>4. state \in RequestState /\ state.hold = {} /\ state.new = new
        BY <2>2, <2>3, IdleType DEF RequestState
  <2>5. PICK q : q = WithNames(state, "create", new.tags)
        OBVIOUS
  <2>6. /\ q \in RequestState /\ Aim(q) = "create" /\ q.pc \in {"name", "create"}
        /\ q.hold = {} /\ q.need = new.tags \ named /\ q.new = new
        /\ q.pc # "name" => q.need = {}
        BY <2>2, <2>4, <2>5, NamesWanted
  <2>7. Knows(q)
        BY <2>2, <2>6 DEF Knows
  <2>8. QED
        BY <1>3, <2>1, <2>3, <2>5, <2>6, <2>7, Quiet DEF CreateEntry, Begin
<1>4. ASSUME NEW u \in User, NEW form \in Form, NEW e \in Entry, UpdateEntry(r, u, e, form)
      PROVE  Inv'
  <2>1. PICK new : new = IF IsOwner(e, u) THEN Filled(form, u)
                         ELSE [entry[e] EXCEPT !.tags = form.tags]
        OBVIOUS
  <2>2. entry[e] \in EntryRow
        BY <1>1 DEF TypeOK
  <2>3. /\ new \in EntryRow /\ new.tags \in SUBSET Name
    <3>1. CASE IsOwner(e, u)
          BY <2>1, <3>1, FilledType, FormAssumption DEF Name
    <3>2. CASE ~IsOwner(e, u)
          BY <2>1, <2>2, <3>2, FormAssumption DEF Name, EntryRow
    <3>3. QED
          BY <3>1, <3>2
  <2>4. PICK old : old = entry[e]
        OBVIOUS
  <2>5. PICK state : state = [Idle EXCEPT !.of = e, !.was = old, !.new = new]
        OBVIOUS
  <2>6. state \in RequestState /\ state.hold = {} /\ state.new = new /\ state.of = e
    <3>1. e \in Shareable \cup {None}
          BY DEF Shareable
    <3>2. state \in RequestState
      <4>1. old \in EntryRow /\ new \in EntryRow /\ Idle \in RequestState
            BY <2>2, <2>3, <2>4, IdleType
      <4>2. QED
            BY <2>5, <3>1, <4>1 DEF RequestState
    <3>3. state.hold = {} /\ state.new = new /\ state.of = e
          BY <2>5, IdleType DEF RequestState
    <3>4. QED
          BY <3>2, <3>3
  <2>7. PICK q : q = WithNames(state, "update", new.tags)
        OBVIOUS
  <2>8. /\ q \in RequestState /\ Aim(q) = "update" /\ q.pc \in {"name", "update"}
        /\ q.hold = {} /\ q.need = new.tags \ named /\ q.new = new /\ q.of = e
        /\ q.pc # "name" => q.need = {}
        BY <2>3, <2>6, <2>7, NamesWanted
  <2>9. Knows(q)
        BY <2>8 DEF Knows
  <2>10. UNCHANGED content /\ req' = [req EXCEPT ![r] = q]
    <3>1. /\ UNCHANGED content
          /\ req' = [req EXCEPT ![r] =
                 WithNames([Idle EXCEPT !.of = e, !.was = entry[e], !.new = new],
                           "update", new.tags)]
          BY <1>4, <2>1 DEF UpdateEntry, Begin
    <3>2. QED
          BY <2>4, <2>5, <2>7, <3>1
  <2>11. QED
         BY <2>8, <2>9, <2>10, Quiet
<1>5. QED
      BY <1>2, <1>3, <1>4

\* A deletion, a comment or a link begins with what it reads.
LEMMA ReadsKeep ==
    ASSUME Inv, UNCHANGED <<public, role>>, NEW r \in Request,
           \/ \E u \in User, e \in Entry : DropEntry(r, u, e)
           \/ \E u \in User, e \in Entry, p \in Comment \cup {None} : Post(r, u, e, p)
           \/ \E u \in User, c \in Comment : Uncomment(r, u, c)
           \/ \E u \in User, s \in Shareable : Unshare(r, u, s)
    PROVE  Inv'
<1>1. TypeOK
      BY DEF Inv
<1>2. ASSUME NEW u \in User, NEW e \in Entry, DropEntry(r, u, e) PROVE Inv'
  <2>1. PICK seen : seen = CommentsOf(e)
        OBVIOUS
  <2>2. PICK q : q = [Idle EXCEPT !.pc = "drop", !.of = e, !.seen = seen]
        OBVIOUS
  <2>3. seen \in SUBSET Comment /\ e \in Shareable
        BY <2>1 DEF CommentsOf, Shareable
  <2>4. /\ q \in RequestState /\ q.hold = {} /\ q.pc = "drop" /\ q.of = e /\ q.need = {}
    <3>1. e \in Shareable \cup {None} /\ NoEntry \in EntryRow
          BY <2>3, EntryRowsTyped
    <3>2. QED
          BY <2>2, <2>3, <3>1 DEF Idle, RequestState
  <2>5. Knows(q)
        BY <2>4 DEF Knows, Aim
  <2>6. UNCHANGED content /\ req' = [req EXCEPT ![r] = q]
        BY <1>2, <2>1, <2>2 DEF DropEntry, Begin
  <2>7. QED
        BY <2>4, <2>5, <2>6, Quiet
<1>3. ASSUME NEW u \in User, NEW e \in Entry, NEW p \in Comment \cup {None}, Post(r, u, e, p)
      PROVE  Inv'
  <2>1. PICK to : to = ({entry[e].author} \cup entry[e].coauthors) \ {u}
        OBVIOUS
  <2>2. PICK q : q = [Idle EXCEPT !.pc = "comment", !.u = u, !.of = e, !.c = p, !.to = to]
        OBVIOUS
  <2>3. Live(e) /\ p \in {None} \cup CommentsOf(e)
        BY <1>3 DEF Post, CanView
  <2>4. to \in SUBSET User /\ u \notin to /\ entry[e].author \in to \cup {u}
        BY <1>1, <2>1, <2>3 DEF Inv, RowsInOrder, TypeOK, EntryRow
  <2>5. e \in Shareable
        BY DEF Shareable
  <2>6. q \in RequestState
    <3>1. e \in Shareable \cup {None} /\ NoEntry \in EntryRow
          BY <2>5, EntryRowsTyped
    <3>2. q = [ pc |-> "comment", job |-> "create", u |-> u, of |-> e, was |-> NoEntry,
                new |-> NoEntry, need |-> {}, hold |-> {}, wait |-> None, c |-> p, seen |-> {},
                late |-> FALSE, to |-> to, token |-> None ]
          BY <2>2 DEF Idle
    <3>3. QED
          BY <2>4, <3>1, <3>2 DEF RequestState
  <2>7. /\ q.hold = {} /\ q.pc = "comment" /\ q.of = e /\ q.need = {}
        /\ q.u = u /\ q.c = p /\ q.to = to
        BY <2>2, IdleType DEF RequestState
  <2>8. Knows(q)
        BY <2>3, <2>4, <2>7 DEF Knows, Aim, Live, CommentsOf, Posted
  <2>9. UNCHANGED content /\ req' = [req EXCEPT ![r] = q]
        BY <1>3, <2>1, <2>2 DEF Post, Begin
  <2>10. QED
         BY <2>6, <2>7, <2>8, <2>9, Quiet
<1>4. ASSUME NEW u \in User, NEW c \in Comment, Uncomment(r, u, c) PROVE Inv'
  <2>1. PICK seen : seen = Thread(c)
        OBVIOUS
  <2>2. PICK q : q = [Idle EXCEPT !.pc = "uncomment", !.seen = seen]
        OBVIOUS
  <2>3. seen \in SUBSET Comment
        BY <2>1 DEF Thread
  <2>4. /\ q \in RequestState /\ q.hold = {} /\ q.pc = "uncomment" /\ q.need = {}
    <3>1. NoEntry \in EntryRow
          BY EntryRowsTyped
    <3>2. q = [ pc |-> "uncomment", job |-> "create", u |-> None, of |-> None, was |-> NoEntry,
                new |-> NoEntry, need |-> {}, hold |-> {}, wait |-> None, c |-> None,
                seen |-> seen, late |-> FALSE, to |-> {}, token |-> None ]
          BY <2>2 DEF Idle
    <3>3. QED
          BY <2>3, <3>1, <3>2 DEF RequestState
  <2>5. Knows(q)
        BY <2>4 DEF Knows, Aim
  <2>6. UNCHANGED content /\ req' = [req EXCEPT ![r] = q]
        BY <1>4, <2>1, <2>2 DEF Uncomment, Begin
  <2>7. QED
        BY <2>4, <2>5, <2>6, Quiet
<1>5. ASSUME NEW u \in User, NEW s \in Shareable, Unshare(r, u, s) PROVE Inv'
  <2>1. PICK q : q = [Idle EXCEPT !.pc = "unshare", !.of = s]
        OBVIOUS
  <2>2. /\ q \in RequestState /\ q.hold = {} /\ q.pc = "unshare" /\ q.need = {}
    <3>1. s \in Shareable \cup {None} /\ NoEntry \in EntryRow
          BY EntryRowsTyped
    <3>2. QED
          BY <2>1, <3>1 DEF Idle, RequestState
  <2>3. Knows(q)
        BY <2>2 DEF Knows, Aim
  <2>4. QED
        BY <1>5, <2>1, <2>2, <2>3, Quiet DEF Unshare, Begin
<1>6. QED
      BY <1>2, <1>3, <1>4, <1>5

\* A name is waited for, inserted by this request alone, or found.
LEMMA InsertKeeps ==
    ASSUME Inv, UNCHANGED <<public, role>>, NEW r \in Request, NEW n \in Name, InsertName(r, n)
    PROVE  Inv'
<1>1. TypeOK /\ req[r] \in RequestState /\ Knows(req[r]) /\ req[r].pc = "name"
      BY DEF Inv, TypeOK, InsertName, At
<1>2. UNCHANGED content
      BY DEF InsertName
<1>3. CASE req' = [req EXCEPT ![r].wait = n]
  <2>1. PICK q : q = [req[r] EXCEPT !.wait = n]
        OBVIOUS
  <2>2. /\ q \in RequestState /\ q.pc = "name" /\ q.hold = req[r].hold /\ q.need = req[r].need
        /\ q.job = req[r].job /\ q.of = req[r].of /\ q.new = req[r].new /\ q.token = req[r].token
        BY <1>1, <2>1 DEF RequestState
  <2>3. Knows(q)
        BY <1>1, <2>2 DEF Knows, Aim
  <2>4. req' = [req EXCEPT ![r] = q]
        BY <1>1, <1>3, <2>1 DEF TypeOK
  <2>5. QED
        BY <1>1, <1>2, <2>2, <2>3, <2>4, Quiet DEF TypeOK
<1>4. CASE req' # [req EXCEPT ![r].wait = n]
  <2>1. PICK rest : rest = req[r].need \ {n}
        OBVIOUS
  <2>2. PICK pc : pc = IF rest = {} THEN req[r].job ELSE "name"
        OBVIOUS
  <2>3. PICK hold : hold = IF n \in named THEN req[r].hold ELSE req[r].hold \cup {n}
        OBVIOUS
  <2>4. PICK link : link = IF n = Recap THEN token[Recap] ELSE req[r].token
        OBVIOUS
  <2>5. PICK q : q = [req[r] EXCEPT !.wait = None, !.need = rest, !.pc = pc, !.hold = hold,
                                    !.token = link]
        OBVIOUS
  <2>6. /\ pc \in {req[r].job, "name"}
        /\ req[r].job \in {"create", "update", "share", "recap"}
        /\ rest \in SUBSET Name /\ hold \in SUBSET Name /\ link \in Link \cup {None}
        BY <1>1, <2>1, <2>2, <2>3, <2>4 DEF TypeOK, Shareable, RequestState
  <2>7. q \in RequestState
        BY <1>1, <2>5, <2>6 DEF RequestState
  <2>8. /\ q.pc = pc /\ q.hold = hold /\ q.need = rest /\ q.token = link
        /\ q.job = req[r].job /\ q.of = req[r].of /\ q.new = req[r].new
        BY <1>1, <2>5 DEF RequestState
  <2>9. Aim(q) = req[r].job /\ Aim(req[r]) = req[r].job
        BY <1>1, <2>2, <2>6, <2>8 DEF Aim
  <2>10. /\ pc # "name" => rest = {}
         /\ req[r].need \subseteq rest \cup {n} /\ req[r].hold \subseteq hold
         /\ n \in named \cup hold
         BY <2>1, <2>2, <2>3
  <2>11. Knows(q)
         BY <1>1, <2>6, <2>8, <2>9, <2>10 DEF Knows
  <2>12. /\ ~HeldByOther(r, n)
         /\ req' = [req EXCEPT ![r].wait = None, ![r].need = rest, ![r].pc = pc,
                               ![r].hold = hold, ![r].token = link]
         BY <1>1, <1>4, <2>1, <2>2, <2>3, <2>4 DEF InsertName, TypeOK
  <2>13. req' = [req EXCEPT ![r] = q]
         BY <1>1, <2>5, <2>12 DEF TypeOK
  <2>14. q.hold \cap named = {} /\ \A s \in Request \ {r} : q.hold \cap req[s].hold = {}
         BY <1>1, <2>3, <2>8, <2>12 DEF TypeOK, HeldByOther
  <2>15. QED
         BY <1>2, <2>7, <2>11, <2>13, <2>14, Quiet
<1>5. QED
      BY <1>3, <1>4

\* A link that is there is handed out; else a new one begins.
LEMMA ShareKeeps ==
    ASSUME Inv, UNCHANGED <<public, role>>, NEW r \in Request, NEW u \in User,
           NEW s \in Shareable, Share(r, u, s)
    PROVE  Inv'
<1>1. TypeOK
      BY DEF Inv
<1>2. CASE token[s] = None
  <2>1. PICK state : state = [Idle EXCEPT !.of = s]
        OBVIOUS
  <2>2. state \in RequestState /\ state.hold = {} /\ state.of = s /\ state.token = None
        BY <2>1, IdleType DEF RequestState
  <2>3. PICK q : q = WithNames(state, "share", {s} \cap {Recap})
        OBVIOUS
  <2>4. {s} \cap {Recap} \in SUBSET Name /\ (s # Recap => {s} \cap {Recap} = {})
        BY DEF Name
  <2>5. /\ q \in RequestState /\ Aim(q) = "share" /\ q.pc \in {"name", "share"}
        /\ s # Recap => q.pc = "share"
        /\ q.hold = {} /\ q.of = s /\ q.token = None /\ (q.pc # "name" => q.need = {})
        BY <2>2, <2>3, <2>4, NamesWanted
  <2>6. Knows(q)
        BY <2>5 DEF Knows
  <2>7. QED
        BY <1>2, <2>1, <2>3, <2>5, <2>6, Quiet DEF Share, Begin
<1>3. CASE token[s] # None
  <2>1. /\ UNCHANGED <<req, entry, comment, inbox, named, token>>
        /\ given' = given \cup {token[s]}
        BY <1>3 DEF Share
  <2>2. TypeOK'
        BY <1>1, <1>3, <2>1 DEF TypeOK
  <2>3. ThreadsWhole' /\ NobodyMissed' /\ RowsInOrder' /\ TagsComplete'
        BY <2>1 DEF Inv, ThreadsWhole, NobodyMissed, RowsInOrder, TagsComplete, Posted, Live,
                    FreeComments
  <2>4. \A q \in Request : Knows(req[q])'
        BY <2>1 DEF Inv, Knows, Live, Posted, Aim
  <2>5. QED
        BY <2>2, <2>3, <2>4 DEF Inv
<1>4. QED
      BY <1>2, <1>3

-----------------------------------------------------------------------------
(* Commits.                                                                *)

\* No id is used twice: an entry or a comment that there was is still the one it
\* was, or gone.
Steady ==
    /\ \A e \in Entry : entry[e].phase # "free" =>
          /\ entry'[e].phase # "free"
          /\ Live(e)' => Live(e) /\ entry'[e].author = entry[e].author
    /\ \A c \in Comment : comment[c].phase # "free" =>
          /\ comment'[c].phase # "free"
          /\ Posted(c)' => Posted(c) /\ comment'[c].of = comment[c].of

\* A request ends or is about to answer, and has let go of its names; what the
\* others know is still true.
LEMMA OthersKnow ==
    ASSUME Inv, Steady, NEW r \in Request, NEW q \in RequestState,
           q.pc = "idle" \/ (q.pc = "share_answer" /\ q.of \in Shareable),
           q.hold = {}, q.need = {},
           named' = named \/ named' = named \cup req[r].hold,
           req' = [s \in Request |-> req'[s]], req'[r] = q,
           \A s \in Request \ {r} : req'[s] \in {req[s], [req[s] EXCEPT !.late = TRUE]}
    PROVE  /\ req' \in [Request -> RequestState]
           /\ named' \subseteq Name
           /\ \A s, t \in Request : s # t => req'[s].hold \cap req'[t].hold = {}
           /\ \A s \in Request : req'[s].hold \cap named' = {}
           /\ \A s \in Request : Knows(req[s])'
           /\ \A s \in Request : req'[s].pc \in {"create", "update"} =>
                 req'[s].new.tags \subseteq named' \cup req'[s].hold
<1>1. TypeOK /\ \A s \in Request : req[s] \in RequestState /\ Knows(req[s])
      BY DEF Inv, TypeOK
<1>2. ASSUME NEW s \in Request \ {r}
      PROVE  /\ req'[s] \in RequestState
             /\ req'[s].hold = req[s].hold /\ req'[s].need = req[s].need
             /\ req'[s].pc = req[s].pc /\ req'[s].job = req[s].job /\ req'[s].of = req[s].of
             /\ req'[s].new = req[s].new /\ req'[s].token = req[s].token
             /\ req'[s].u = req[s].u /\ req'[s].to = req[s].to /\ req'[s].c = req[s].c
  <2>1. PICK t : t = req[s]
        OBVIOUS
  <2>2. t \in RequestState /\ req'[s] \in {t, [t EXCEPT !.late = TRUE]}
        BY <1>1, <2>1
  <2>3. req'[s] \in RequestState
        BY <2>2 DEF RequestState
  <2>4. /\ req'[s].hold = t.hold /\ req'[s].need = t.need
        /\ req'[s].pc = t.pc /\ req'[s].job = t.job /\ req'[s].of = t.of
        /\ req'[s].new = t.new /\ req'[s].token = t.token
        /\ req'[s].u = t.u /\ req'[s].to = t.to /\ req'[s].c = t.c
        BY <2>2 DEF RequestState
  <2>5. QED
        BY <2>1, <2>3, <2>4
<1>3. req' \in [Request -> RequestState]
      BY <1>2
<1>4. named \subseteq named' /\ named' \subseteq named \cup req[r].hold /\ named' \subseteq Name
      BY <1>1 DEF TypeOK, RequestState
<1>5. /\ \A s, t \in Request : s # t => req'[s].hold \cap req'[t].hold = {}
      /\ \A s \in Request : req'[s].hold \cap named' = {}
  <2>1. \A s \in Request : req'[s].hold = IF s = r THEN {} ELSE req[s].hold
        BY <1>2
  <2>2. /\ \A s, t \in Request : s # t => req[s].hold \cap req[t].hold = {}
        /\ \A s \in Request : req[s].hold \cap named = {}
        BY <1>1 DEF TypeOK
  <2>3. ASSUME NEW s \in Request PROVE req'[s].hold \cap named' = {}
        BY <1>4, <2>1, <2>2
  <2>4. ASSUME NEW s \in Request, NEW t \in Request, s # t
        PROVE  req'[s].hold \cap req'[t].hold = {}
        BY <2>1, <2>2, <2>4
  <2>5. QED
        BY <2>3, <2>4
<1>6. ASSUME NEW s \in Request PROVE Knows(req[s])'
  <2>1. CASE s = r
        BY <2>1 DEF Knows, Aim
  <2>2. CASE s # r
    <3>1. PICK t : t = req[s]
          OBVIOUS
    <3>2. PICK t1 : t1 = req'[s]
          OBVIOUS
    <3>3. /\ t \in RequestState /\ Knows(t)
          /\ t1.hold = t.hold /\ t1.need = t.need /\ t1.pc = t.pc /\ t1.job = t.job
          /\ t1.of = t.of /\ t1.new = t.new /\ t1.token = t.token
          /\ t1.u = t.u /\ t1.to = t.to /\ t1.c = t.c
          BY <1>1, <1>2, <2>2, <3>1, <3>2
    <3>4. Aim(t1) = Aim(t)
          BY <3>3 DEF Aim
    <3>5. Aim(t) \in {"create", "update"} => t.new.tags \subseteq named' \cup t.hold \cup t.need
          BY <1>4, <3>3 DEF Knows
    <3>6. t.pc = "comment" =>
             /\ entry'[t.of].phase # "free"
             /\ Live(t.of)' => entry'[t.of].author \in t.to \cup {t.u}
             /\ t.c # None => /\ comment'[t.c].phase # "free"
                              /\ Posted(t.c)' => comment'[t.c].of = t.of
      <4>1. SUFFICES ASSUME t.pc = "comment"
            PROVE  /\ entry'[t.of].phase # "free"
                   /\ Live(t.of)' => entry'[t.of].author \in t.to \cup {t.u}
                   /\ t.c # None => /\ comment'[t.c].phase # "free"
                                    /\ Posted(t.c)' => comment'[t.c].of = t.of
            OBVIOUS
      <4>2. t.of \in Entry /\ t.c \in Comment \cup {None}
            BY <3>3, <4>1 DEF Knows, Aim, RequestState
      <4>3. QED
            BY <3>3, <4>1, <4>2 DEF Knows, Steady
    <3>7. Knows(t1)'
          BY <3>3, <3>4, <3>5, <3>6 DEF Knows
    <3>8. QED
          BY <3>2, <3>7 DEF Knows, Aim
  <2>3. QED
        BY <2>1, <2>2
<1>7. ASSUME NEW s \in Request, req'[s].pc \in {"create", "update"}
      PROVE  req'[s].new.tags \subseteq named' \cup req'[s].hold
      BY <1>6, <1>7 DEF Knows, Aim
<1>8. QED
      BY <1>3, <1>4, <1>5, <1>6, <1>7

\* The ordinary case: a request ends.
LEMMA Ended ==
    ASSUME Inv, NEW r \in Request, Finish(r)
    PROVE  /\ req' = [s \in Request |-> req'[s]] /\ req'[r] = Idle
           /\ \A s \in Request \ {r} : req'[s] = req[s]
BY DEF Inv, TypeOK, Finish

\* What is left to show of a commit, and what the others know of it.
LEMMA Committed ==
    ASSUME Inv, Steady, NEW r \in Request, Finish(r), UNCHANGED <<public, role>>,
           named' = named \/ named' = named \cup req[r].hold,
           entry' \in [Entry -> EntryRow], comment' \in [Comment -> CommentRow],
           inbox' \in [User -> [Comment -> {"none", "unread", "read"}]],
           token' \in [Shareable -> Link \cup {None}], given' \subseteq Link,
           ThreadsWhole', NobodyMissed', RowsInOrder',
           \A e \in Entry : entry'[e].tags \subseteq named'
    PROVE  Inv'
<1>1. /\ req' = [s \in Request |-> req'[s]] /\ req'[r] = Idle
      /\ \A s \in Request \ {r} : req'[s] = req[s]
      BY Ended
<1>2. /\ req' \in [Request -> RequestState]
      /\ named' \subseteq Name
      /\ \A s, t \in Request : s # t => req'[s].hold \cap req'[t].hold = {}
      /\ \A s \in Request : req'[s].hold \cap named' = {}
      /\ \A s \in Request : Knows(req[s])'
      /\ \A s \in Request : req'[s].pc \in {"create", "update"} =>
            req'[s].new.tags \subseteq named' \cup req'[s].hold
      BY <1>1, IdleType, OthersKnow
<1>3. TypeOK'
      BY <1>2 DEF Inv, TypeOK
<1>4. TagsComplete'
      BY <1>2 DEF TagsComplete
<1>5. QED
      BY <1>2, <1>3, <1>4 DEF Inv

\* The recap's row, a link handed out, a link withdrawn.
LEMMA LinkCommitsKeep ==
    ASSUME Inv, UNCHANGED <<public, role>>, NEW r \in Request,
           RecapCommit(r) \/ ShareAnswer(r) \/ UnshareCommit(r)
    PROVE  Inv'
<1>1. TypeOK /\ req[r] \in RequestState /\ Knows(req[r])
      BY DEF Inv, TypeOK
<1>2. Finish(r) /\ UNCHANGED <<entry, comment, inbox>>
      BY DEF RecapCommit, ShareAnswer, UnshareCommit
<1>3. Steady
      BY <1>2 DEF Steady, Live, Posted
<1>4. named' = named \/ named' = named \cup req[r].hold
      BY DEF RecapCommit, ShareAnswer, UnshareCommit, CommitNames
<1>5. token' \in [Shareable -> Link \cup {None}]
      BY <1>1 DEF RecapCommit, ShareAnswer, UnshareCommit, TypeOK
<1>6. given' \subseteq Link
  <2>1. CASE ShareAnswer(r)
    <3>1. token[req[r].of] \in Link \cup {None}
          BY <1>1, <2>1 DEF ShareAnswer, At, Knows, Aim, TypeOK
    <3>2. QED
          BY <1>1, <2>1, <3>1 DEF ShareAnswer, TypeOK
  <2>2. CASE ~ShareAnswer(r)
        BY <1>1, <2>2 DEF RecapCommit, UnshareCommit, TypeOK
  <2>3. QED
        BY <2>1, <2>2
<1>7. ThreadsWhole' /\ NobodyMissed' /\ RowsInOrder'
      BY <1>2 DEF Inv, ThreadsWhole, NobodyMissed, RowsInOrder, Posted, Live, FreeComments
<1>8. \A e \in Entry : entry'[e].tags \subseteq named'
      BY <1>2, <1>4 DEF Inv, TagsComplete
<1>9. /\ entry' \in [Entry -> EntryRow] /\ comment' \in [Comment -> CommentRow]
      /\ inbox' \in [User -> [Comment -> {"none", "unread", "read"}]]
      BY <1>1, <1>2 DEF TypeOK
<1>10. QED
       BY <1>2, <1>3, <1>4, <1>5, <1>6, <1>7, <1>8, <1>9, Committed

\* A new link, in place of none; its request lets go of the names it inserted.
LEMMA ShareCommitKeeps ==
    ASSUME Inv, UNCHANGED <<public, role>>, NEW r \in Request, ShareCommit(r)
    PROVE  Inv'
<1>1. TypeOK /\ req[r] \in RequestState /\ Knows(req[r]) /\ req[r].pc = "share"
      BY DEF Inv, TypeOK, ShareCommit, At
<1>2. PICK s : s = req[r].of
      OBVIOUS
<1>3. s \in Shareable
      BY <1>1, <1>2 DEF Knows, Aim
<1>4. CASE Finish(r) /\ given' = given \cup {req[r].token} /\ req[r].token # None
           /\ UNCHANGED <<entry, comment, inbox, named, token>>
  <2>1. Steady
        BY <1>4 DEF Steady, Live, Posted
  <2>2. given' \subseteq Link
        BY <1>1, <1>4 DEF TypeOK, RequestState
  <2>3. ThreadsWhole' /\ NobodyMissed' /\ RowsInOrder'
        BY <1>4 DEF Inv, ThreadsWhole, NobodyMissed, RowsInOrder, Posted, Live, FreeComments
  <2>4. \A e \in Entry : entry'[e].tags \subseteq named'
        BY <1>4 DEF Inv, TagsComplete
  <2>5. /\ entry' \in [Entry -> EntryRow] /\ comment' \in [Comment -> CommentRow]
        /\ inbox' \in [User -> [Comment -> {"none", "unread", "read"}]]
        /\ token' \in [Shareable -> Link \cup {None}]
        BY <1>1, <1>4 DEF TypeOK
  <2>6. QED
        BY <1>4, <2>1, <2>2, <2>3, <2>4, <2>5, Committed
<1>5. CASE /\ FreeLinks # {}
           /\ token' = [token EXCEPT ![s] = Fresh(FreeLinks)]
           /\ CommitNames(r)
           /\ req' = [req EXCEPT ![r].pc = "share_answer", ![r].hold = {}]
           /\ UNCHANGED <<entry, comment, inbox, given>>
  <2>1. Steady
        BY <1>5 DEF Steady, Live, Posted
  <2>2. PICK q : q = [req[r] EXCEPT !.pc = "share_answer", !.hold = {}]
        OBVIOUS
  <2>3. /\ q \in RequestState /\ q.pc = "share_answer" /\ q.hold = {}
        /\ q.need = req[r].need /\ q.of = req[r].of
        BY <1>1, <2>2 DEF RequestState
  <2>4. q.need = {} /\ q.of \in Shareable
        BY <1>1, <1>2, <1>3, <2>3 DEF Knows
  <2>5. /\ req' = [t \in Request |-> req'[t]] /\ req'[r] = q
        /\ \A t \in Request \ {r} : req'[t] = req[t]
        BY <1>1, <1>5, <2>2 DEF TypeOK
  <2>6. named' = named \cup req[r].hold
        BY <1>5 DEF CommitNames
  <2>7. /\ req' \in [Request -> RequestState]
        /\ named' \subseteq Name
        /\ \A t, v \in Request : t # v => req'[t].hold \cap req'[v].hold = {}
        /\ \A t \in Request : req'[t].hold \cap named' = {}
        /\ \A t \in Request : Knows(req[t])'
        /\ \A t \in Request : req'[t].pc \in {"create", "update"} =>
              req'[t].new.tags \subseteq named' \cup req'[t].hold
        BY <2>1, <2>3, <2>4, <2>5, <2>6, OthersKnow
  <2>8. Fresh(FreeLinks) \in Link
        BY <1>5, FreshIn DEF FreeLinks
  <2>9. TypeOK'
        BY <1>1, <1>5, <2>7, <2>8 DEF TypeOK
  <2>10. ThreadsWhole' /\ NobodyMissed' /\ RowsInOrder'
         BY <1>5 DEF Inv, ThreadsWhole, NobodyMissed, RowsInOrder, Posted, Live, FreeComments
  <2>11. TagsComplete'
         BY <1>5, <2>6, <2>7 DEF Inv, TagsComplete
  <2>12. QED
         BY <2>7, <2>9, <2>10, <2>11 DEF Inv
<1>6. CASE Refuse(r)
      BY <1>6, RefuseKeeps
<1>7. QED
      BY <1>2, <1>4, <1>5, <1>6 DEF ShareCommit

\* A new entry takes an id nothing refers to, with tags that exist by then.
LEMMA CreateKeeps ==
    ASSUME Inv, UNCHANGED <<public, role>>, NEW r \in Request, CreateCommit(r)
    PROVE  Inv'
<1>1. TypeOK /\ req[r] \in RequestState /\ Knows(req[r]) /\ req[r].pc = "create"
      BY DEF Inv, TypeOK, CreateCommit, At
<1>2. PICK e : e = Fresh(FreeEntries)
      OBVIOUS
<1>3. e \in Entry /\ entry[e].phase = "free"
      BY <1>2, FreshIn DEF CreateCommit, FreeEntries
<1>4. PICK new : new = req[r].new
      OBVIOUS
<1>5. /\ new \in EntryRow /\ new.phase = "live" /\ new.author \in User
      /\ new.tags \subseteq named \cup req[r].hold
      BY <1>1, <1>4 DEF Knows, Aim, RequestState
<1>6. /\ entry' = [entry EXCEPT ![e] = new] /\ named' = named \cup req[r].hold
      /\ Finish(r) /\ UNCHANGED <<comment, inbox, token, given>>
      BY <1>2, <1>4 DEF CreateCommit, CommitNames
<1>7. /\ entry' \in [Entry -> EntryRow] /\ entry'[e] = new
      /\ \A x \in Entry \ {e} : entry'[x] = entry[x]
      BY <1>1, <1>3, <1>5, <1>6 DEF TypeOK
<1>8. Steady
      BY <1>3, <1>6, <1>7 DEF Steady, Live, Posted
<1>9. \A c \in Comment : Posted(c) => comment[c].of \in Entry \ {e}
      BY <1>3 DEF Inv, ThreadsWhole, RowsInOrder, Live
<1>10. ThreadsWhole'
       BY <1>6, <1>7, <1>9 DEF Inv, ThreadsWhole, Posted, Live
<1>11. NobodyMissed'
       BY <1>6, <1>7, <1>9 DEF Inv, NobodyMissed, Posted
<1>12. RowsInOrder'
       BY <1>5, <1>6, <1>7 DEF Inv, RowsInOrder, Posted, Live, FreeComments
<1>13. \A x \in Entry : entry'[x].tags \subseteq named'
       BY <1>5, <1>6, <1>7 DEF Inv, TagsComplete
<1>14. /\ comment' \in [Comment -> CommentRow]
       /\ inbox' \in [User -> [Comment -> {"none", "unread", "read"}]]
       /\ token' \in [Shareable -> Link \cup {None}] /\ given' \subseteq Link
       BY <1>1, <1>6 DEF TypeOK
<1>15. QED
       BY <1>6, <1>7, <1>8, <1>10, <1>11, <1>12, <1>13, <1>14, Committed

\* An edit keeps the entry's author, and a deletion under way is told of it.
LEMMA UpdateKeeps ==
    ASSUME Inv, UNCHANGED <<public, role>>, NEW r \in Request, UpdateCommit(r)
    PROVE  Inv'
<1>1. TypeOK /\ req[r] \in RequestState /\ Knows(req[r]) /\ req[r].pc = "update"
      BY DEF Inv, TypeOK, UpdateCommit, At
<1>2. CASE Refuse(r)
      BY <1>2, RefuseKeeps
<1>3. CASE ~Refuse(r)
  <2>1. PICK e : e = req[r].of
        OBVIOUS
  <2>2. PICK was : was = req[r].was
        OBVIOUS
  <2>3. PICK new : new = req[r].new
        OBVIOUS
  <2>4. /\ e \in Entry /\ was \in EntryRow /\ new \in EntryRow
        /\ new.tags \subseteq named \cup req[r].hold
        BY <1>1, <2>1, <2>2, <2>3 DEF Knows, Aim, RequestState
  <2>5. /\ entry' = [entry EXCEPT ![e].public = IF new.public = was.public THEN @ ELSE new.public,
                                  ![e].coauthors = Merged(@, was.coauthors, new.coauthors),
                                  ![e].tags = Merged(@, was.tags, new.tags)]
        /\ named' = named \cup req[r].hold
        /\ req' = [q \in Request |-> IF At(q, "drop") /\ req[q].of = e
                                     THEN [req[q] EXCEPT !.late = TRUE]
                                     ELSE IF q = r THEN Idle ELSE req[q]]
        /\ UNCHANGED <<comment, inbox, token, given>>
        BY <1>3, <2>1, <2>2, <2>3 DEF UpdateCommit, CommitNames
  <2>6. PICK now : now = entry[e]
        OBVIOUS
  <2>7. PICK open : open = IF new.public = was.public THEN now.public ELSE new.public
        OBVIOUS
  <2>8. PICK co : co = Merged(now.coauthors, was.coauthors, new.coauthors)
        OBVIOUS
  <2>9. PICK tags : tags = Merged(now.tags, was.tags, new.tags)
        OBVIOUS
  <2>10. now \in EntryRow
         BY <1>1, <2>4, <2>6 DEF TypeOK
  <2>11. /\ open \in BOOLEAN /\ co \in SUBSET User /\ tags \in SUBSET Tag
         /\ tags \subseteq now.tags \cup new.tags
         BY <2>4, <2>7, <2>8, <2>9, <2>10 DEF EntryRow, Merged
  <2>12. PICK row : row = [now EXCEPT !.public = open, !.coauthors = co, !.tags = tags]
         OBVIOUS
  <2>13. /\ row \in EntryRow /\ row.phase = now.phase /\ row.author = now.author
         /\ row.tags = tags
         BY <2>10, <2>11, <2>12 DEF EntryRow
  <2>14. entry' = [entry EXCEPT ![e] = row]
         BY <1>1, <2>4, <2>5, <2>6, <2>7, <2>8, <2>9, <2>12 DEF TypeOK
  <2>15. /\ entry' \in [Entry -> EntryRow]
         /\ \A x \in Entry : entry'[x].phase = entry[x].phase /\ entry'[x].author = entry[x].author
         /\ entry'[e].tags = tags /\ \A x \in Entry \ {e} : entry'[x] = entry[x]
         BY <1>1, <2>4, <2>6, <2>13, <2>14 DEF TypeOK
  <2>16. Steady
         BY <2>5, <2>15 DEF Steady, Live, Posted
  <2>17. /\ req' = [s \in Request |-> req'[s]] /\ req'[r] = Idle
         /\ \A s \in Request \ {r} : req'[s] \in {req[s], [req[s] EXCEPT !.late = TRUE]}
         BY <1>1, <2>5 DEF At
  <2>18. /\ req' \in [Request -> RequestState]
         /\ named' \subseteq Name
         /\ \A s, t \in Request : s # t => req'[s].hold \cap req'[t].hold = {}
         /\ \A s \in Request : req'[s].hold \cap named' = {}
         /\ \A s \in Request : Knows(req[s])'
         /\ \A s \in Request : req'[s].pc \in {"create", "update"} =>
               req'[s].new.tags \subseteq named' \cup req'[s].hold
         BY <2>5, <2>16, <2>17, IdleType, OthersKnow
  <2>19. TypeOK'
         BY <1>1, <2>5, <2>15, <2>18 DEF TypeOK
  <2>20. ThreadsWhole' /\ NobodyMissed' /\ RowsInOrder'
         BY <2>5, <2>15 DEF Inv, ThreadsWhole, NobodyMissed, RowsInOrder, Posted, Live,
                            FreeComments
  <2>21. TagsComplete'
    <3>1. \A x \in Entry : entry[x].tags \subseteq named
          BY DEF Inv, TagsComplete
    <3>2. \A x \in Entry : entry'[x].tags \subseteq named'
          BY <2>4, <2>5, <2>6, <2>11, <2>15, <3>1
    <3>3. QED
          BY <2>18, <3>2 DEF TagsComplete
  <2>22. QED
         BY <2>18, <2>19, <2>20, <2>21 DEF Inv
<1>4. QED
      BY <1>2, <1>3

\* An entry goes with all its comments, and so with whole threads.
LEMMA DropKeeps ==
    ASSUME Inv, UNCHANGED <<public, role>>, NEW r \in Request, DropCommit(r)
    PROVE  Inv'
<1>1. TypeOK /\ req[r] \in RequestState /\ Knows(req[r]) /\ req[r].pc = "drop"
      BY DEF Inv, TypeOK, DropCommit, At
<1>2. CASE Refuse(r)
      BY <1>2, RefuseKeeps
<1>3. CASE ~Refuse(r)
  <2>1. PICK e \in Entry : e = req[r].of
        BY <1>1 DEF Knows, Aim
  <2>2. /\ Live(e)
        /\ entry' = [entry EXCEPT ![e] = [NoEntry EXCEPT !.phase = "gone"]]
        /\ comment' = [c \in Comment |-> IF c \in CommentsOf(e)
                                         THEN [NoComment EXCEPT !.phase = "gone"] ELSE comment[c]]
        /\ token' = [token EXCEPT ![e] = None]
        /\ Finish(r)
        /\ UNCHANGED <<inbox, named, given>>
        BY <1>3, <2>1 DEF DropCommit
  <2>3. /\ entry' \in [Entry -> EntryRow]
        /\ entry'[e].phase = "gone" /\ entry'[e].tags = {}
        /\ \A x \in Entry \ {e} : entry'[x] = entry[x]
        BY <1>1, <2>2, EntryRowsTyped DEF TypeOK
  <2>4. /\ comment' \in [Comment -> CommentRow]
        /\ \A c \in Comment : IF c \in CommentsOf(e) THEN comment'[c].phase = "gone"
                              ELSE comment'[c] = comment[c]
        BY <1>1, <2>2, CommentRowsTyped DEF TypeOK
  <2>5. \A c \in Comment : c \in CommentsOf(e) <=> Posted(c) /\ comment[c].of = e
        BY DEF CommentsOf
  <2>6. ASSUME NEW c \in Comment, Posted(c)'
        PROVE  Posted(c) /\ comment'[c] = comment[c] /\ comment[c].of \in Entry \ {e}
        BY <2>4, <2>5, <2>6 DEF Inv, RowsInOrder, Posted
  <2>7. Steady
        BY <2>3, <2>4, <2>6 DEF Steady, Live, Posted
  <2>8. ThreadsWhole'
    <3>1. SUFFICES ASSUME NEW c \in Comment, Posted(c)'
          PROVE  /\ Live(comment[c].of)'
                 /\ comment'[c].parent # None =>
                       /\ Posted(comment[c].parent)'
                       /\ comment'[comment'[c].parent].of = comment'[c].of
          BY DEF ThreadsWhole
    <3>2. Posted(c) /\ comment'[c] = comment[c] /\ comment[c].of \in Entry \ {e}
          BY <2>6, <3>1
    <3>3. /\ Live(comment[c].of)
          /\ comment[c].parent # None => /\ Posted(comment[c].parent)
                                         /\ comment[comment[c].parent].of = comment[c].of
          BY <3>2 DEF Inv, ThreadsWhole
    <3>4. comment[c].parent \in Comment \cup {None}
          BY <1>1 DEF TypeOK, CommentRow
    <3>5. QED
          BY <2>3, <2>4, <2>5, <3>2, <3>3, <3>4 DEF Live, Posted
  <2>9. NobodyMissed'
    <3>1. ASSUME NEW c \in Comment, NEW u \in User, Posted(c)'
          PROVE  /\ (u = entry'[comment'[c].of].author /\ u # comment'[c].author) =>
                       inbox'[u][c] # "none"
                 /\ u = comment'[c].author => inbox'[u][c] = "none"
      <4>1. Posted(c) /\ comment'[c] = comment[c] /\ entry'[comment[c].of] = entry[comment[c].of]
            BY <2>3, <2>6, <3>1
      <4>2. /\ (u = entry[comment[c].of].author /\ u # comment[c].author) => inbox[u][c] # "none"
            /\ u = comment[c].author => inbox[u][c] = "none"
            BY <4>1 DEF Inv, NobodyMissed
      <4>3. inbox' = inbox
            BY <2>2
      <4>4. QED
            BY <4>1, <4>2, <4>3
    <3>2. QED
          BY <3>1 DEF NobodyMissed
  <2>10. RowsInOrder'
    <3>1. \A x \in Entry : Live(x)' => entry'[x].author \in User
          BY <2>3 DEF Inv, RowsInOrder, Live
    <3>2. \A c \in Comment : Posted(c)' => comment'[c].of \in Entry
          BY <2>6
    <3>3. FreeComments' \subseteq FreeComments
          BY <2>4 DEF FreeComments
    <3>4. QED
          BY <2>2, <3>1, <3>2, <3>3 DEF Inv, RowsInOrder
  <2>11. \A x \in Entry : entry'[x].tags \subseteq named'
         BY <2>2, <2>3 DEF Inv, TagsComplete
  <2>12. /\ inbox' \in [User -> [Comment -> {"none", "unread", "read"}]]
         /\ token' \in [Shareable -> Link \cup {None}] /\ given' \subseteq Link
         BY <1>1, <2>2 DEF TypeOK
  <2>13. QED
         BY <2>2, <2>3, <2>4, <2>7, <2>8, <2>9, <2>10, <2>11, <2>12, Committed
<1>4. QED
      BY <1>2, <1>3

\* A comment comes with its notifications, to an entry and a parent that are
\* still the ones it was written to.
LEMMA PostKeeps ==
    ASSUME Inv, UNCHANGED <<public, role>>, NEW r \in Request, PostCommit(r)
    PROVE  Inv'
<1>1. TypeOK /\ req[r] \in RequestState /\ Knows(req[r]) /\ req[r].pc = "comment"
      BY DEF Inv, TypeOK, PostCommit, At
<1>2. CASE Refuse(r)
      BY <1>2, RefuseKeeps
<1>3. CASE ~Refuse(r)
  <2>1. PICK e \in Entry : e = req[r].of
        BY <1>1 DEF Knows, Aim
  <2>2. PICK p \in Comment \cup {None} : p = req[r].c
        BY <1>1 DEF RequestState
  <2>3. PICK to : to = req[r].to
        OBVIOUS
  <2>4. PICK u \in User : u = req[r].u
        BY <1>1 DEF Knows
  <2>5. /\ u \notin to
        /\ Live(e) => entry[e].author \in to \cup {u}
        /\ p # None => (Posted(p) => comment[p].of = e)
        BY <1>1, <2>1, <2>2, <2>3, <2>4 DEF Knows
  <2>6. PICK c : c = Fresh(FreeComments)
        OBVIOUS
  <2>7. /\ Live(e) /\ (p # None => Posted(p)) /\ FreeComments # {}
        /\ comment' = [comment EXCEPT ![c] = [phase |-> "live", of |-> e, author |-> u,
                                              parent |-> p]]
        /\ inbox' = [v \in User |-> IF v \in to THEN [inbox[v] EXCEPT ![c] = "unread"]
                                    ELSE inbox[v]]
        /\ Finish(r)
        /\ UNCHANGED <<entry, named, token, given>>
        BY <1>3, <2>1, <2>2, <2>3, <2>4, <2>6 DEF PostCommit
  <2>8. c \in Comment /\ comment[c].phase = "free"
        BY <2>6, <2>7, FreshIn DEF FreeComments
  <2>9. /\ comment' \in [Comment -> CommentRow]
        /\ \A d \in Comment \ {c} : comment'[d] = comment[d]
        /\ comment'[c].phase = "live" /\ comment'[c].of = e /\ comment'[c].author = u
        /\ comment'[c].parent = p
    <3>1. PICK row : row = [phase |-> "live", of |-> e, author |-> u, parent |-> p]
          OBVIOUS
    <3>2. /\ row \in CommentRow /\ row.phase = "live" /\ row.of = e /\ row.author = u
          /\ row.parent = p
          BY <3>1 DEF CommentRow
    <3>3. QED
          BY <1>1, <2>7, <2>8, <3>1, <3>2 DEF TypeOK
  <2>10. /\ inbox' \in [User -> [Comment -> {"none", "unread", "read"}]]
         /\ \A v \in User : /\ inbox'[v][c] = IF v \in to THEN "unread" ELSE inbox[v][c]
                            /\ \A d \in Comment \ {c} : inbox'[v][d] = inbox[v][d]
    <3>1. \A v \in User : inbox[v] \in [Comment -> {"none", "unread", "read"}]
          BY <1>1 DEF TypeOK
    <3>2. \A v \in User :
             LET box == [inbox[v] EXCEPT ![c] = "unread"] IN
             /\ box \in [Comment -> {"none", "unread", "read"}] /\ box[c] = "unread"
             /\ \A d \in Comment \ {c} : box[d] = inbox[v][d]
          BY <2>8, <3>1
    <3>3. QED
          BY <2>7, <3>1, <3>2
  <2>11. Steady
         BY <2>7, <2>8, <2>9 DEF Steady, Live, Posted
  <2>12. ThreadsWhole'
    <3>1. SUFFICES ASSUME NEW d \in Comment, Posted(d)'
          PROVE  /\ Live(comment[d].of)'
                 /\ comment'[d].parent # None =>
                       /\ Posted(comment[d].parent)'
                       /\ comment'[comment'[d].parent].of = comment'[d].of
          BY DEF ThreadsWhole
    <3>2. CASE d = c
          BY <2>5, <2>7, <2>8, <2>9, <3>2 DEF Live, Posted
    <3>3. CASE d # c
      <4>1. Posted(d) /\ comment'[d] = comment[d]
            BY <2>9, <3>1, <3>3 DEF Posted
      <4>2. /\ Live(comment[d].of)
            /\ comment[d].parent # None => /\ Posted(comment[d].parent)
                                           /\ comment[comment[d].parent].of = comment[d].of
            BY <4>1 DEF Inv, ThreadsWhole
      <4>3. comment[d].parent \in Comment \cup {None}
            BY <1>1 DEF TypeOK, CommentRow
      <4>4. comment[d].parent # None =>
               comment[d].parent \in Comment \ {c} /\ comment'[comment[d].parent] = comment[comment[d].parent]
            BY <2>8, <2>9, <4>2, <4>3 DEF Posted
      <4>5. QED
            BY <2>7, <4>1, <4>2, <4>4 DEF Live, Posted
    <3>4. QED
          BY <3>2, <3>3
  <2>13. NobodyMissed'
    <3>1. ASSUME NEW d \in Comment, NEW v \in User, Posted(d)'
          PROVE  /\ (v = entry'[comment'[d].of].author /\ v # comment'[d].author) =>
                       inbox'[v][d] # "none"
                 /\ v = comment'[d].author => inbox'[v][d] = "none"
      <4>1. CASE d = c
        <5>1. inbox[v][c] = "none"
              BY <2>8 DEF Inv, RowsInOrder, FreeComments
        <5>2. QED
              BY <2>5, <2>7, <2>9, <2>10, <4>1, <5>1
      <4>2. CASE d # c
        <5>1. Posted(d) /\ comment'[d] = comment[d] /\ inbox'[v][d] = inbox[v][d]
              BY <2>9, <2>10, <3>1, <4>2 DEF Posted
        <5>2. QED
              BY <2>7, <5>1 DEF Inv, NobodyMissed
      <4>3. QED
            BY <4>1, <4>2
    <3>2. QED
          BY <3>1 DEF NobodyMissed
  <2>14. RowsInOrder'
    <3>1. \A x \in Entry : Live(x)' => entry'[x].author \in User
          BY <2>7 DEF Inv, RowsInOrder, Live
    <3>2. \A d \in Comment : Posted(d)' => comment'[d].of \in Entry
          BY <2>9 DEF Inv, RowsInOrder, Posted
    <3>3. FreeComments' \subseteq FreeComments \ {c}
          BY <2>9 DEF FreeComments
    <3>4. \A d \in FreeComments', v \in User : inbox'[v][d] = "none"
          BY <2>10, <3>3 DEF Inv, RowsInOrder, FreeComments
    <3>5. QED
          BY <3>1, <3>2, <3>4 DEF RowsInOrder
  <2>15. \A x \in Entry : entry'[x].tags \subseteq named'
         BY <2>7 DEF Inv, TagsComplete
  <2>16. /\ entry' \in [Entry -> EntryRow]
         /\ token' \in [Shareable -> Link \cup {None}] /\ given' \subseteq Link
         BY <1>1, <2>7 DEF TypeOK
  <2>17. QED
         BY <2>7, <2>9, <2>10, <2>11, <2>12, <2>13, <2>14, <2>15, <2>16, Committed
<1>4. QED
      BY <1>2, <1>3

\* A thread that is deleted leaves no reply behind.
LEMMA UncommentKeeps ==
    ASSUME Inv, UNCHANGED <<public, role>>, NEW r \in Request, UncommentCommit(r)
    PROVE  Inv'
<1>1. TypeOK /\ req[r] \in RequestState
      BY DEF Inv, TypeOK
<1>2. CASE Refuse(r)
      BY <1>2, RefuseKeeps
<1>3. CASE ~Refuse(r)
  <2>1. PICK seen : seen = req[r].seen
        OBVIOUS
  <2>2. /\ \A d \in Comment \ seen : Posted(d) => comment[d].parent \notin seen
        /\ comment' = [d \in Comment |-> IF d \in seen THEN [NoComment EXCEPT !.phase = "gone"]
                                         ELSE comment[d]]
        /\ Finish(r)
        /\ UNCHANGED <<entry, inbox, named, token, given>>
        BY <1>3, <2>1 DEF UncommentCommit
  <2>3. /\ comment' \in [Comment -> CommentRow]
        /\ \A d \in Comment : IF d \in seen THEN comment'[d].phase = "gone"
                              ELSE comment'[d] = comment[d]
        BY <1>1, <2>2, CommentRowsTyped DEF TypeOK
  <2>4. ASSUME NEW d \in Comment, Posted(d)'
        PROVE  Posted(d) /\ comment'[d] = comment[d] /\ d \notin seen
        BY <2>3, <2>4 DEF Posted
  <2>5. Steady
        BY <2>2, <2>3, <2>4 DEF Steady, Live, Posted
  <2>6. ThreadsWhole'
    <3>1. SUFFICES ASSUME NEW d \in Comment, Posted(d)'
          PROVE  /\ Live(comment[d].of)'
                 /\ comment'[d].parent # None =>
                       /\ Posted(comment[d].parent)'
                       /\ comment'[comment'[d].parent].of = comment'[d].of
          BY DEF ThreadsWhole
    <3>2. Posted(d) /\ comment'[d] = comment[d] /\ d \notin seen
          BY <2>4, <3>1
    <3>3. /\ Live(comment[d].of)
          /\ comment[d].parent # None => /\ Posted(comment[d].parent)
                                         /\ comment[comment[d].parent].of = comment[d].of
          BY <3>2 DEF Inv, ThreadsWhole
    <3>4. comment[d].parent \in (Comment \cup {None}) \ seen
          BY <1>1, <2>2, <3>2 DEF TypeOK, CommentRow
    <3>5. QED
          BY <2>2, <2>3, <3>2, <3>3, <3>4 DEF Live, Posted
  <2>7. NobodyMissed'
        BY <2>2, <2>4 DEF Inv, NobodyMissed
  <2>8. RowsInOrder'
    <3>1. FreeComments' \subseteq FreeComments
          BY <2>3 DEF FreeComments
    <3>2. \A d \in Comment : Posted(d)' => comment'[d].of \in Entry
          BY <2>4 DEF Inv, RowsInOrder
    <3>3. QED
          BY <2>2, <3>1, <3>2 DEF Inv, RowsInOrder, Live
  <2>9. \A x \in Entry : entry'[x].tags \subseteq named'
        BY <2>2 DEF Inv, TagsComplete
  <2>10. /\ entry' \in [Entry -> EntryRow]
         /\ inbox' \in [User -> [Comment -> {"none", "unread", "read"}]]
         /\ token' \in [Shareable -> Link \cup {None}] /\ given' \subseteq Link
         BY <1>1, <2>2 DEF TypeOK
  <2>11. QED
         BY <2>2, <2>3, <2>5, <2>6, <2>7, <2>8, <2>9, <2>10, Committed
<1>4. QED
      BY <1>2, <1>3

\* Reading a notification does not make it go away.
LEMMA MarkKeeps ==
    ASSUME Inv, NEW u \in User, NEW some \in SUBSET Comment, MarkRead(u, some)
    PROVE  Inv'
<1>1. TypeOK
      BY DEF Inv
<1>2. /\ inbox' \in [User -> [Comment -> {"none", "unread", "read"}]]
      /\ \A v \in User, c \in Comment : inbox'[v][c] = "none" <=> inbox[v][c] = "none"
  <2>1. PICK box : box = [c \in Comment |-> IF c \in some /\ inbox[u][c] = "unread" THEN "read"
                                            ELSE inbox[u][c]]
        OBVIOUS
  <2>2. /\ box \in [Comment -> {"none", "unread", "read"}]
        /\ \A c \in Comment : box[c] = "none" <=> inbox[u][c] = "none"
        BY <1>1, <2>1 DEF TypeOK
  <2>3. inbox' = [inbox EXCEPT ![u] = box]
        BY <1>1, <2>1 DEF MarkRead, TypeOK
  <2>4. QED
        BY <1>1, <2>2, <2>3 DEF TypeOK
<1>3. UNCHANGED <<public, role, req, entry, comment, named, token, given>>
      BY DEF MarkRead
<1>4. TypeOK'
      BY <1>1, <1>2, <1>3 DEF TypeOK
<1>5. ThreadsWhole' /\ NobodyMissed' /\ RowsInOrder' /\ TagsComplete'
  <2>1. NobodyMissed'
        BY <1>2, <1>3 DEF Inv, NobodyMissed, Posted
  <2>2. ThreadsWhole' /\ TagsComplete'
        BY <1>3 DEF Inv, ThreadsWhole, TagsComplete, Posted, Live
  <2>3. RowsInOrder'
        BY <1>2, <1>3 DEF Inv, RowsInOrder, Posted, Live, FreeComments
  <2>4. QED
        BY <2>1, <2>2, <2>3
<1>6. \A s \in Request : Knows(req[s])'
      BY <1>3 DEF Inv, Knows, Live, Posted, Aim
<1>7. QED
      BY <1>4, <1>5, <1>6 DEF Inv

-----------------------------------------------------------------------------
(* The invariants.                                                         *)

LEMMA InitInv == Init => Inv
<1> SUFFICES ASSUME Init PROVE Inv
    OBVIOUS
<1>1. NoEntry.phase = "free" /\ NoEntry.tags = {} /\ NoComment.phase = "free"
      BY DEF NoEntry, NoComment
<1>2. TypeOK
      BY EntryRowsTyped, CommentRowsTyped, IdleType DEF Init, TypeOK, Roles
<1>3. ThreadsWhole /\ NobodyMissed /\ TagsComplete /\ RowsInOrder
      BY <1>1, IdleType DEF Init, ThreadsWhole, NobodyMissed, TagsComplete, RowsInOrder, Live,
                            Posted, FreeComments
<1>4. \A r \in Request : Knows(req[r])
      BY IdleKnows DEF Init
<1>5. QED
      BY <1>2, <1>3, <1>4 DEF Inv

LEMMA NextInv == Inv /\ [Next]_vars => Inv'
<1> SUFFICES ASSUME Inv, [Next]_vars PROVE Inv'
    OBVIOUS
<1>1. ASSUME NEW r \in Request, Arrival(r), UNCHANGED <<public, role>> PROVE Inv'
      BY <1>1, NamingKeeps, ReadsKeep, ShareKeeps DEF Arrival
<1>2. ASSUME NEW r \in Request, Progress(r), UNCHANGED <<public, role>> PROVE Inv'
      BY <1>2, LinkCommitsKeep, CreateKeeps, UpdateKeeps, DropKeeps, InsertKeeps, RefuseKeeps,
         PostKeeps, UncommentKeeps, ShareCommitKeeps DEF Progress, DeadlockVictim
<1>3. ASSUME NEW r \in Request, Abort(r), UNCHANGED <<public, role>> PROVE Inv'
      BY <1>3, RefuseKeeps DEF Abort
<1>4. CASE UNCHANGED vars
  <2>1. TypeOK'
        BY <1>4 DEF Inv, TypeOK, vars, content
  <2>2. ThreadsWhole' /\ NobodyMissed' /\ RowsInOrder' /\ TagsComplete'
        BY <1>4 DEF Inv, vars, content, ThreadsWhole, NobodyMissed, RowsInOrder, TagsComplete,
                    Posted, Live, FreeComments
  <2>3. \A s \in Request : Knows(req[s])'
        BY <1>4 DEF Inv, vars, content, Knows, Live, Posted, Aim
  <2>4. QED
        BY <2>1, <2>2, <2>3 DEF Inv
<1>5. ASSUME NEW u \in User, MarkRead(u, Comment) \/ \E c \in Comment : MarkRead(u, {c})
      PROVE  Inv'
      BY <1>5, MarkKeeps
<1>6. QED
      BY <1>1, <1>2, <1>3, <1>4, <1>5, RolesKeep DEF Next

\* The inductive invariant.
THEOREM InvHolds == Spec => []Inv
BY InitInv, NextInv, PTL DEF Spec

\* The content stays well formed, and no name is inserted by two requests.
THEOREM TypeCorrect == Spec => []TypeOK
<1>1. Inv => TypeOK
      BY DEF Inv
<1>2. QED
      BY <1>1, InvHolds, PTL

LEMMA ListIsView == Inv => ListAgreesWithView
<1> SUFFICES ASSUME Inv, NEW u \in User \cup {None}, MayRead(u)
             PROVE  Listed(u) = {e \in Entry : CanView(e, u)}
    BY DEF ListAgreesWithView
<1>1. ASSUME NEW e \in Entry, Live(e)
      PROVE  /\ IsOwner(e, u) \/ IsCoauthor(e, u) => u # None
             /\ u # None => u \in User
  <2>1. entry[e].author \in User /\ entry[e].coauthors \subseteq User
        BY <1>1 DEF Inv, RowsInOrder, TypeOK, EntryRow
  <2>2. QED
        BY <2>1, NoneAssumption DEF IsOwner, IsCoauthor
<1>2. ASSUME NEW e \in Entry
      PROVE  e \in Listed(u) <=> CanView(e, u)
      BY <1>1 DEF Listed, CanView, MayRead
<1>3. Listed(u) \subseteq Entry
      BY DEF Listed
<1>4. QED
      BY <1>2, <1>3

\* For any roles, co-authors and visibility: the list shows what the view would.
THEOREM ListAgrees == Spec => []ListAgreesWithView
BY ListIsView, InvHolds, PTL

\* No comment loses the entry or the comment it is about.
THEOREM ThreadsStayWhole == Spec => []ThreadsWhole
<1>1. Inv => ThreadsWhole
      BY DEF Inv
<1>2. QED
      BY <1>1, InvHolds, PTL

\* The author of an entry is told of every comment of somebody else.
THEOREM EveryoneTold == Spec => []NobodyMissed
<1>1. Inv => NobodyMissed
      BY DEF Inv
<1>2. QED
      BY <1>1, InvHolds, PTL

\* No overlap of requests that use a new tag loses it to one of them.
THEOREM TagsExist == Spec => []TagsComplete
<1>1. Inv => TagsComplete
      BY DEF Inv
<1>2. QED
      BY <1>1, InvHolds, PTL

-----------------------------------------------------------------------------
(* Links.                                                                  *)

\* Which step takes a link away from what it shows.
LEMMA LinkTaken ==
    ASSUME Inv, [Next]_vars, NEW s \in Shareable, token[s] # None, token'[s] # token[s]
    PROVE  \/ \E r \in Request : /\ req[r].of = s /\ req[r].pc \in {"unshare", "drop"}
                                 /\ req'[r].pc = "idle"
           \/ \E r \in Request : req[r].of = s /\ At(r, "share") /\ req[r].token = None
<1>1. TypeOK /\ \A r \in Request : Knows(req[r])
      BY DEF Inv
<1>2. ASSUME NEW r \in Request, DropCommit(r) \/ UnshareCommit(r)
      PROVE  req[r].of = s /\ req[r].pc \in {"unshare", "drop"} /\ req'[r].pc = "idle"
  <2>1. req[r].pc \in {"unshare", "drop"} /\ Finish(r)
        BY <1>2 DEF DropCommit, UnshareCommit, Refuse, At
  <2>2. req'[r].pc = "idle"
        BY <1>1, <2>1, IdleType DEF Finish, TypeOK
  <2>3. req[r].of = s
        BY <1>1, <1>2 DEF DropCommit, UnshareCommit, Refuse, content, TypeOK
  <2>4. QED
        BY <2>1, <2>2, <2>3
<1>3. ASSUME NEW r \in Request, ShareCommit(r)
      PROVE  req[r].of = s /\ At(r, "share") /\ req[r].token = None
  <2>1. At(r, "share") /\ (req[r].of = Recap => req[r].token = None)
        BY <1>3 DEF ShareCommit, Refuse, content
  <2>2. req[r].token = None
        BY <1>1, <2>1 DEF Knows, Aim, At
  <2>3. req[r].of = s
        BY <1>1, <1>3 DEF ShareCommit, Refuse, content, TypeOK
  <2>4. QED
        BY <2>1, <2>2, <2>3
<1>4. ASSUME NEW r \in Request, Arrival(r) \/ Abort(r)
      PROVE  UNCHANGED token
      BY <1>4
      DEF Arrival, ViewRecap, CreateEntry, UpdateEntry, DropEntry, Post, Uncomment, Share,
          Unshare, Abort, Refuse, content
<1>5. ASSUME NEW r \in Request, Progress(r), ~DropCommit(r), ~UnshareCommit(r), ~ShareCommit(r)
      PROVE  UNCHANGED token
      BY <1>5
      DEF Progress, RecapCommit, CreateCommit, UpdateCommit, InsertName, DeadlockVictim,
          PostCommit, UncommentCommit, ShareAnswer, Refuse, content
<1>6. ASSUME \/ UNCHANGED vars
             \/ SetVisibility
             \/ \E u \in User, new \in Roles : SetRole(u, new)
             \/ \E u \in User : MarkRead(u, Comment) \/ \E c \in Comment : MarkRead(u, {c})
      PROVE  UNCHANGED token
      BY <1>6 DEF vars, content, SetVisibility, SetRole, MarkRead
<1>7. PICK r \in Request : DropCommit(r) \/ UnshareCommit(r) \/ ShareCommit(r)
      BY <1>4, <1>5, <1>6 DEF Next
<1>8. QED
      BY <1>2, <1>3, <1>7

\* A link that was handed out goes only with what it shows, when it is
\* withdrawn, or to a request that had found none.
THEOREM LinksLast == Spec => HandedOutLinkLasts
<1>1. Inv /\ [Next]_vars =>
        [ \A l \in given : \A s \in Shared(l) :
            s \notin Shared(l)' =>
                \/ \E r \in Request : req[r].of = s /\ req[r].pc \in {"unshare", "drop"} /\ req'[r].pc = "idle"
                \/ \E r \in Request : req[r].of = s /\ At(r, "share") /\ req[r].token = None ]_vars
  <2>1. ASSUME Inv, [Next]_vars, NEW l \in given, NEW s \in Shared(l), s \notin Shared(l)'
        PROVE  \/ \E r \in Request : req[r].of = s /\ req[r].pc \in {"unshare", "drop"} /\ req'[r].pc = "idle"
               \/ \E r \in Request : req[r].of = s /\ At(r, "share") /\ req[r].token = None
    <3>1. s \in Shareable /\ token[s] = l /\ token'[s] # l
          BY <2>1 DEF Shared
    <3>2. l # None
          BY <2>1, NoneAssumption DEF Inv, TypeOK
    <3>3. QED
          BY <2>1, <3>1, <3>2, LinkTaken
  <2>2. QED
        BY <2>1
<1>2. QED
      BY <1>1, InvHolds, PTL DEF Spec, HandedOutLinkLasts

=============================================================================
