------------------------------ MODULE Journal -------------------------------
(***************************************************************************)
(* The contents of one workspace: entries, who may see and edit them,      *)
(* their tags, comments and the notifications these cause, links that      *)
(* share an entry, and the row of the yearly recap.  A SELECT (or several  *)
(* with nothing between them that matters) is one action, a flush with its *)
(* commit another.  Roles and the visibility of the workspace change       *)
(* underneath; Membership says how.                                        *)
(***************************************************************************)
EXTENDS Naturals, FiniteSets

CONSTANTS
    User, Entry, Comment, Tag,
    Link,       \* secrets.token_urlsafe values
    Request,    \* worker threads
    Owner,      \* the user who made the workspace and stays its owner
    Form,       \* what a form for an entry can say
    Recap,      \* the workspace_recaps row of one year
    None        \* NULL; as a reader, nobody who is logged in

VARIABLES
    public,     \* Workspace.visibility = "public"
    role,       \* workspace_memberships
    entry,      \* journal_entries with entry_coauthors and entry_tags
    comment,    \* comments
    inbox,      \* notifications of type "comment"
    named,      \* the rows that exist of tags and workspace_recaps
    token,      \* share_token of entries and of the recap
    given,      \* links an answer has handed out
    req         \* what each worker thread is doing

content == <<entry, comment, inbox, named, token, given>>
vars == <<public, role, req, content>>

ASSUME NoneAssumption == None \notin User \cup Entry \cup Comment \cup Tag \cup Link \cup {Recap}
ASSUME RecapAssumption == Recap \notin Entry \cup Tag
ASSUME OwnerAssumption == Owner \in User
ASSUME FormAssumption ==
    Form \subseteq [public : BOOLEAN, coauthors : SUBSET User, tags : SUBSET Tag]

-----------------------------------------------------------------------------

Roles == {"owner", "member", "subscriber", "none"}

Name      == Tag \cup {Recap}
Shareable == Entry \cup {Recap}

EntryRow == [ phase : {"free", "live", "gone"}, author : User \cup {None}, public : BOOLEAN,
              coauthors : SUBSET User, tags : SUBSET Tag ]
NoEntry  == [ phase |-> "free", author |-> None, public |-> FALSE, coauthors |-> {}, tags |-> {} ]

CommentRow == [ phase : {"free", "live", "gone"}, of : Entry \cup {None}, author : User \cup {None},
                parent : Comment \cup {None} ]
NoComment  == [ phase |-> "free", of |-> None, author |-> None, parent |-> None ]

\* job is where a request goes once it has its names; was is the entry as it
\* was read and new what it is to become; need, hold and wait are the names it
\* has still to insert, has inserted, and waits for another session to decide;
\* seen are the comments it has loaded, late is a row of entry_edit_events it missed.
RequestState == [ pc : {"idle", "name", "create", "update", "drop", "comment", "uncomment",
                        "share", "share_answer", "unshare", "recap"},
                  job : {"create", "update", "share", "recap"}, u : User \cup {None},
                  of : Shareable \cup {None}, was : EntryRow, new : EntryRow,
                  need : SUBSET Name, hold : SUBSET Name, wait : Name \cup {None},
                  c : Comment \cup {None}, seen : SUBSET Comment, late : BOOLEAN,
                  to : SUBSET User, token : Link \cup {None} ]

Idle == [ pc |-> "idle", job |-> "create", u |-> None, of |-> None, was |-> NoEntry, new |-> NoEntry,
          need |-> {}, hold |-> {}, wait |-> None, c |-> None, seen |-> {}, late |-> FALSE,
          to |-> {}, token |-> None ]

TypeOK ==
    /\ public \in BOOLEAN
    /\ role \in [User -> Roles]
    /\ entry \in [Entry -> EntryRow]
    /\ comment \in [Comment -> CommentRow]
    /\ inbox \in [User -> [Comment -> {"none", "unread", "read"}]]
    /\ named \subseteq Name
    /\ token \in [Shareable -> Link \cup {None}]
    /\ given \subseteq Link
    /\ req \in [Request -> RequestState]
    /\ \A q, r \in Request : q # r => req[q].hold \cap req[r].hold = {}
    /\ \A r \in Request : req[r].hold \cap named = {}

Init ==
    /\ public = FALSE
    /\ role = [u \in User |-> IF u = Owner THEN "owner" ELSE "none"]
    /\ entry = [e \in Entry |-> NoEntry]
    /\ comment = [c \in Comment |-> NoComment]
    /\ inbox = [u \in User |-> [c \in Comment |-> "none"]]
    /\ named = {}
    /\ token = [s \in Shareable |-> None]
    /\ given = {}
    /\ req = [r \in Request |-> Idle]

At(r, pc)       == req[r].pc = pc
Begin(r, state) == At(r, "idle") /\ req' = [req EXCEPT ![r] = state]
\* The end of a request; whatever it had inserted and not committed is gone.
Finish(r)       == req' = [req EXCEPT ![r] = Idle]
\* An error, or an answer that leaves the content as it is.
Refuse(r)       == Finish(r) /\ UNCHANGED content

\* The next id of a sequence, the next random value.
Fresh(S)        == CHOOSE x \in S : TRUE
FreeEntries     == {e \in Entry : entry[e].phase = "free"}
FreeComments    == {c \in Comment : comment[c].phase = "free"}
FreeLinks       == Link \ (given \cup {token[s] : s \in Shareable})

Live(e)         == entry[e].phase = "live"
Posted(c)       == comment[c].phase = "live"
CommentsOf(e)   == {c \in Comment : Posted(c) /\ comment[c].of = e}

-----------------------------------------------------------------------------
(* Who may do what.                                                        *)

Member(u) == u \in User /\ role[u] # "none"
\* require_workspace_write_access
Writer(u) == u \in User /\ role[u] \in {"owner", "member"}
\* require_workspace_read_access
MayRead(u) == public \/ Member(u)

IsOwner(e, u)    == entry[e].author = u
IsCoauthor(e, u) == u \in entry[e].coauthors
CanEdit(e, u)    == IsOwner(e, u) \/ IsCoauthor(e, u)

\* A co-author who has lost the workspace loses the entry with it.
MutantCanView(e, u) ==
    /\ Live(e)
    /\ Member(u) \/ public
    /\ entry[e].public \/ IsOwner(e, u) \/ (IsCoauthor(e, u) /\ Member(u))

\* _can_view: what one entry is shown by.
CanView(e, u) ==
    /\ Live(e)
    /\ IF public THEN entry[e].public \/ IsOwner(e, u) \/ IsCoauthor(e, u)
       ELSE /\ Member(u)
            /\ entry[e].public \/ IsOwner(e, u) \/ IsCoauthor(e, u)

\* _apply_visibility: what list_entries and list_tags show a reader let in.
Listed(u) ==
    {e \in Entry : Live(e) /\ (entry[e].public \/ (u # None /\ (IsOwner(e, u) \/ IsCoauthor(e, u))))}

\* Membership changes the roles and update_workspace_visibility the workspace.
\* No request that has been let in notices.
SetRole(u, new) ==
    /\ u # Owner
    /\ new \in Roles \ {"owner", role[u]}
    /\ role' = [role EXCEPT ![u] = new]
    /\ UNCHANGED <<public, req, content>>

\* What the owner chose before, and read or not, does not matter to the commit; a
\* commit that changes nothing is no step.
SetVisibility ==
    /\ public' = ~public
    /\ UNCHANGED <<role, req, content>>

-----------------------------------------------------------------------------
(* Names that are made on first use: _resolve_tags, _get_or_create_recap.  *)

\* The SELECT finds some of the names; the others are inserted one by one.
WithNames(state, job, names) ==
    [state EXCEPT !.job = job, !.need = names \ named,
                  !.pc = IF names \subseteq named THEN job ELSE "name"]

\* A row that another session has not committed yet is not waited for.
MutantHeldByOther(r, n) == FALSE

HeldByOther(r, n) == \E q \in Request \ {r} : n \in req[q].hold

\* No SAVEPOINT: a name that exists already costs the names inserted before it.
MutantInsertName(r, n) ==
    LET rest == req[r].need \ {n} IN
    /\ At(r, "name") /\ n \in req[r].need
    /\ req[r].wait \in {None, n}
    /\ \/ /\ HeldByOther(r, n)
          /\ req[r].wait = None
          /\ req' = [req EXCEPT ![r].wait = n]
       \/ /\ ~HeldByOther(r, n)
          /\ req' = [req EXCEPT ![r].wait = None, ![r].need = rest,
                                ![r].pc = IF rest = {} THEN req[r].job ELSE "name",
                                ![r].hold = IF n \in named THEN {} ELSE @ \cup {n},
                                ![r].token = IF n = Recap THEN token[Recap] ELSE @]
    /\ UNCHANGED content

\* The INSERT waits for an uncommitted row of the same name.  A committed one
\* is an IntegrityError that unwinds the SAVEPOINT only, and is then SELECTed.
InsertName(r, n) ==
    LET rest == req[r].need \ {n} IN
    /\ At(r, "name") /\ n \in req[r].need
    /\ req[r].wait \in {None, n}
    /\ \/ /\ HeldByOther(r, n)
          /\ req[r].wait = None
          /\ req' = [req EXCEPT ![r].wait = n]
       \/ /\ ~HeldByOther(r, n)
          /\ req' = [req EXCEPT ![r].wait = None, ![r].need = rest,
                                ![r].pc = IF rest = {} THEN req[r].job ELSE "name",
                                ![r].hold = IF n \in named THEN @ ELSE @ \cup {n},
                                ![r].token = IF n = Recap THEN token[Recap] ELSE @]
    /\ UNCHANGED content

\* Two sessions wait for each other's rows: the database fails one of them with
\* an OperationalError, which nobody catches.
DeadlockVictim(r) ==
    /\ At(r, "name")
    /\ \E q \in Request : req[r].wait \in req[q].hold /\ req[q].wait \in req[r].hold
    /\ Refuse(r)

CommitNames(r) == named' = named \cup req[r].hold

\* get_workspace_recap; the statistics are computed, not stored.
ViewRecap(r, u) ==
    /\ MayRead(u)
    /\ Begin(r, WithNames(Idle, "recap", {Recap}))
    /\ UNCHANGED content

RecapCommit(r) ==
    /\ At(r, "recap")
    /\ CommitNames(r)
    /\ Finish(r)
    /\ UNCHANGED <<entry, comment, inbox, token, given>>

-----------------------------------------------------------------------------
(* Entries.                                                                *)

\* _resolve_coauthors: they must be able to write.
CoauthorsAllowed(co) == \A v \in co : Writer(v)

\* The author drops out of the co-authors.
Filled(form, author) ==
    [ phase |-> "live", author |-> author, public |-> form.public,
      coauthors |-> form.coauthors \ {author}, tags |-> form.tags ]

CreateEntry(r, u, form) ==
    LET new == Filled(form, u) IN
    /\ Writer(u)
    /\ CoauthorsAllowed(new.coauthors)
    /\ Begin(r, WithNames([Idle EXCEPT !.new = new], "create", new.tags))
    /\ UNCHANGED content

CreateCommit(r) ==
    /\ At(r, "create")
    /\ FreeEntries # {}
    /\ entry' = [entry EXCEPT ![Fresh(FreeEntries)] = req[r].new]
    /\ CommitNames(r)
    /\ Finish(r)
    /\ UNCHANGED <<comment, inbox, token, given>>

\* update_entry.  Visibility and co-authors are the primary author's; a payload
\* that changes nothing writes nothing.
UpdateEntry(r, u, e, form) ==
    LET old == entry[e]
        new == IF IsOwner(e, u) THEN Filled(form, u) ELSE [old EXCEPT !.tags = form.tags] IN
    /\ Live(e)
    /\ Writer(u) /\ CanEdit(e, u)
    /\ new # old
    /\ new.coauthors = old.coauthors \/ CoauthorsAllowed(new.coauthors)
    /\ Begin(r, WithNames([Idle EXCEPT !.of = e, !.was = old, !.new = new],
                          "update", new.tags))
    /\ UNCHANGED content

\* The difference to what was read is written: deleting a row of a join table
\* that is gone or inserting one that is there is an error.  An EntryEditEvent
\* is inserted with it, which a deletion under way has not loaded.
Fits(now, was, new) == was \ new \subseteq now /\ (new \ was) \cap now = {}
Merged(now, was, new) == (now \ (was \ new)) \cup (new \ was)

UpdateCommit(r) ==
    LET e == req[r].of
        was == req[r].was
        new == req[r].new
        now == entry[e] IN
    /\ At(r, "update")
    /\ IF /\ Live(e)
          /\ Fits(now.coauthors, was.coauthors, new.coauthors)
          /\ Fits(now.tags, was.tags, new.tags)
       THEN /\ entry' = [entry EXCEPT ![e].public = IF new.public = was.public THEN @ ELSE new.public,
                                      ![e].coauthors = Merged(@, was.coauthors, new.coauthors),
                                      ![e].tags = Merged(@, was.tags, new.tags)]
            /\ CommitNames(r)
            /\ req' = [q \in Request |-> IF At(q, "drop") /\ req[q].of = e
                                         THEN [req[q] EXCEPT !.late = TRUE]
                                         ELSE IF q = r THEN Idle ELSE req[q]]
            /\ UNCHANGED <<comment, inbox, token, given>>
       ELSE Refuse(r)

\* delete_entry: the cascade is loaded, then deleted.
DropEntry(r, u, e) ==
    /\ Live(e)
    /\ Writer(u) /\ IsOwner(e, u)
    /\ Begin(r, [Idle EXCEPT !.pc = "drop", !.of = e, !.seen = CommentsOf(e)])
    /\ UNCHANGED content

\* A comment, or an edit event, that was not loaded keeps the entry: its foreign key.
DropCommit(r) ==
    LET e == req[r].of IN
    /\ At(r, "drop")
    /\ IF Live(e) /\ ~req[r].late /\ CommentsOf(e) \subseteq req[r].seen
       THEN /\ entry' = [entry EXCEPT ![e] = [NoEntry EXCEPT !.phase = "gone"]]
            /\ comment' = [c \in Comment |-> IF c \in CommentsOf(e)
                                             THEN [NoComment EXCEPT !.phase = "gone"] ELSE comment[c]]
            /\ token' = [token EXCEPT ![e] = None]
            /\ Finish(r)
            /\ UNCHANGED <<inbox, named, given>>
       ELSE Refuse(r)

-----------------------------------------------------------------------------
(* Comments and the notifications they cause.                              *)

\* Any comment will do as a parent.
MutantPost(r, u, e, p) ==
    /\ Writer(u) /\ CanView(e, u)
    /\ p = None \/ (p \in Comment /\ Posted(p))
    /\ Begin(r, [Idle EXCEPT !.pc = "comment", !.u = u, !.of = e, !.c = p,
                             !.to = ({entry[e].author} \cup entry[e].coauthors) \ {u}])
    /\ UNCHANGED content

\* create_comment up to its commit: the e-mails go out here.
Post(r, u, e, p) ==
    /\ Writer(u) /\ CanView(e, u)
    /\ p \in {None} \cup CommentsOf(e)
    /\ Begin(r, [Idle EXCEPT !.pc = "comment", !.u = u, !.of = e, !.c = p,
                             !.to = ({entry[e].author} \cup entry[e].coauthors) \ {u}])
    /\ UNCHANGED content

\* The notifications are added but not committed with the comment.
MutantPostCommit(r) ==
    LET p == req[r].c IN
    /\ At(r, "comment")
    /\ IF Live(req[r].of) /\ (p # None => Posted(p))
       THEN LET c == Fresh(FreeComments) IN
              /\ FreeComments # {}
              /\ comment' = [comment EXCEPT ![c] = [phase |-> "live", of |-> req[r].of,
                                 author |-> req[r].u, parent |-> p]]
              /\ Finish(r)
              /\ UNCHANGED <<entry, inbox, named, token, given>>
       ELSE Refuse(r)

\* The comment and its notifications in one commit, or neither: its foreign
\* keys want the entry and the parent.
PostCommit(r) ==
    LET p == req[r].c IN
    /\ At(r, "comment")
    /\ IF Live(req[r].of) /\ (p # None => Posted(p))
       THEN LET c == Fresh(FreeComments) IN
              /\ FreeComments # {}
              /\ comment' = [comment EXCEPT ![c] = [phase |-> "live", of |-> req[r].of,
                                 author |-> req[r].u, parent |-> p]]
              /\ inbox' = [u \in User |-> IF u \in req[r].to THEN [inbox[u] EXCEPT ![c] = "unread"]
                                          ELSE inbox[u]]
              /\ Finish(r)
              /\ UNCHANGED <<entry, named, token, given>>
       ELSE Refuse(r)

\* A comment with the replies to it, and theirs: the least set that has it and
\* the replies to what is in it.
HasReplies(S) == \A d \in Comment : Posted(d) /\ comment[d].parent \in S => d \in S
Thread(c)     == {d \in Comment : \A S \in SUBSET Comment : c \in S /\ HasReplies(S) => d \in S}

\* delete_comment, by its author (writer or not) or the entry's primary author.
Uncomment(r, u, c) ==
    /\ Posted(c) /\ CanView(comment[c].of, u)
    /\ comment[c].author = u \/ IsOwner(comment[c].of, u)
    /\ Begin(r, [Idle EXCEPT !.pc = "uncomment", !.seen = Thread(c)])
    /\ UNCHANGED content

UncommentCommit(r) ==
    LET seen == req[r].seen IN
    /\ At(r, "uncomment")
    /\ IF \E d \in Comment \ seen : Posted(d) /\ comment[d].parent \in seen
       THEN Refuse(r)
       ELSE /\ comment' = [d \in Comment |-> IF d \in seen THEN [NoComment EXCEPT !.phase = "gone"]
                                             ELSE comment[d]]
            /\ Finish(r)
            /\ UNCHANGED <<entry, inbox, named, token, given>>

\* mark_notification_read, and mark_all_notifications_read in one UPDATE.
MarkRead(u, some) ==
    /\ \E c \in some : inbox[u][c] = "unread"
    /\ inbox' = [inbox EXCEPT ![u] =
                    [c \in Comment |-> IF c \in some /\ @[c] = "unread" THEN "read" ELSE @[c]]]
    /\ UNCHANGED <<public, role, req, entry, comment, named, token, given>>

-----------------------------------------------------------------------------
(* Links to one entry, or to the recap.                                    *)

\* What anybody is shown who has the link: get_shared_entry, get_shared_recap.
Shared(l) == {s \in Shareable : token[s] = l}

MayShare(s, u) ==
    IF s = Recap THEN u \in User /\ role[u] = "owner" ELSE Live(s) /\ Writer(u) /\ IsOwner(s, u)

\* Every call makes a new link.
MutantShare(r, u, s) ==
    /\ MayShare(s, u)
    /\ Begin(r, WithNames([Idle EXCEPT !.of = s, !.token = token[s]], "share",
                          {s} \cap {Recap}))
    /\ UNCHANGED content

\* enable_entry_sharing, enable_workspace_recap_sharing: a link that is there is
\* the answer.
Share(r, u, s) ==
    /\ MayShare(s, u)
    /\ \/ /\ token[s] = None
          /\ Begin(r, WithNames([Idle EXCEPT !.of = s], "share", {s} \cap {Recap}))
          /\ UNCHANGED content
       \/ /\ token[s] # None
          /\ At(r, "idle")
          /\ given' = given \cup {token[s]}
          /\ UNCHANGED <<req, entry, comment, inbox, named, token>>

\* A recap row made by somebody else meanwhile may have a link by now.
ShareCommit(r) ==
    LET s == req[r].of IN
    /\ At(r, "share")
    /\ \/ /\ s = Recap /\ req[r].token # None
          /\ given' = given \cup {req[r].token}
          /\ Finish(r)
          /\ UNCHANGED <<entry, comment, inbox, named, token>>
       \/ /\ s = Recap => req[r].token = None
          /\ IF s = Recap \/ Live(s)
             THEN   /\ FreeLinks # {}
                    /\ token' = [token EXCEPT ![s] = Fresh(FreeLinks)]
                    /\ CommitNames(r)
                    /\ req' = [req EXCEPT ![r].pc = "share_answer", ![r].hold = {}]
                    /\ UNCHANGED <<entry, comment, inbox, given>>
             ELSE Refuse(r)

\* db.refresh reads the token again: another request may have changed it, and
\* none is not a valid answer.
ShareAnswer(r) ==
    /\ At(r, "share_answer")
    /\ given' = given \cup ({token[req[r].of]} \ {None})
    /\ Finish(r)
    /\ UNCHANGED <<entry, comment, inbox, named, token>>

Unshare(r, u, s) ==
    /\ MayShare(s, u)
    /\ token[s] # None
    /\ Begin(r, [Idle EXCEPT !.pc = "unshare", !.of = s])
    /\ UNCHANGED content

UnshareCommit(r) ==
    /\ At(r, "unshare")
    /\ token' = [token EXCEPT ![req[r].of] = None]
    /\ Finish(r)
    /\ UNCHANGED <<entry, comment, inbox, named, given>>

-----------------------------------------------------------------------------

\* The process dies, or the database fails: get_db closes without a commit.
Abort(r) == ~At(r, "idle") /\ Refuse(r)

Arrival(r) ==
    \/ \E u \in User \cup {None} : ViewRecap(r, u)
    \/ \E u \in User, form \in Form :
          CreateEntry(r, u, form) \/ \E e \in Entry : UpdateEntry(r, u, e, form)
    \/ \E u \in User, e \in Entry : DropEntry(r, u, e)
    \/ \E u \in User, e \in Entry, p \in Comment \cup {None} : Post(r, u, e, p)
    \/ \E u \in User, c \in Comment : Uncomment(r, u, c)
    \/ \E u \in User, s \in Shareable : Share(r, u, s) \/ Unshare(r, u, s)

Progress(r) ==
    \/ RecapCommit(r) \/ CreateCommit(r) \/ UpdateCommit(r) \/ DropCommit(r)
    \/ \E n \in Name : InsertName(r, n)
    \/ DeadlockVictim(r)
    \/ PostCommit(r) \/ UncommentCommit(r)
    \/ ShareCommit(r) \/ ShareAnswer(r) \/ UnshareCommit(r)

Next ==
    \/ \E r \in Request : (Arrival(r) \/ Progress(r) \/ Abort(r)) /\ UNCHANGED <<public, role>>
    \/ \E u \in User, new \in Roles : SetRole(u, new)
    \/ SetVisibility
    \/ \E u \in User : MarkRead(u, Comment) \/ \E c \in Comment : MarkRead(u, {c})

Spec == Init /\ [][Next]_vars

-----------------------------------------------------------------------------
(* What must hold.                                                         *)

\* The two ways the visibility rule is written agree, whatever has become of
\* roles, co-authors and visibility since an entry was made: whoever is let into
\* the workspace is listed the entries get_entry would show them one by one.
ListAgreesWithView ==
    \A u \in User \cup {None} : MayRead(u) => Listed(u) = {e \in Entry : CanView(e, u)}

\* A reply is in the thread of the entry it was written to, and neither a
\* comment nor an entry is deleted from under the replies to it, whichever of
\* the deletion and the reply comes first.
ThreadsWhole ==
    \A c \in Comment :
        Posted(c) =>
            /\ Live(comment[c].of)
            /\ comment[c].parent # None =>
                  /\ Posted(comment[c].parent)
                  /\ comment[comment[c].parent].of = comment[c].of

\* A comment is there only together with its notifications: the entry's author
\* has one of every comment that is not their own, and nobody has one of theirs.
NobodyMissed ==
    \A c \in Comment, u \in User :
        Posted(c) =>
            /\ u = entry[comment[c].of].author /\ u # comment[c].author => inbox[u][c] # "none"
            /\ u = comment[c].author => inbox[u][c] = "none"

\* A new tag two entries make at once is lost to neither: whoever is about to
\* commit has each of their tags as a row, their own or the winner's, and the
\* tags of an entry exist.
TagsComplete ==
    /\ \A e \in Entry : entry[e].tags \subseteq named
    /\ \A r \in Request : req[r].pc \in {"create", "update"} => req[r].new.tags \subseteq named \cup req[r].hold

\* A link somebody was given works until it is withdrawn with its entry or by
\* itself; asking again does not change it ("returns the existing token rather
\* than rotating it", entries.py:625) unless that request found none: it had
\* looked before the link was made.
HandedOutLinkLasts ==
    [][ \A l \in given : \A s \in Shared(l) :
            s \notin Shared(l)' =>
                \/ \E r \in Request : req[r].of = s /\ req[r].pc \in {"unshare", "drop"} /\ req'[r].pc = "idle"
                \/ \E r \in Request : req[r].of = s /\ At(r, "share") /\ req[r].token = None ]_vars

-----------------------------------------------------------------------------
(* The inductive invariant.                                                *)

\* An entry has an author, a comment an entry, and one yet to be written no
\* notifications.
RowsInOrder ==
    /\ \A e \in Entry : Live(e) => entry[e].author \in User
    /\ \A c \in Comment : Posted(c) => comment[c].of \in Entry
    /\ \A c \in FreeComments, u \in User : inbox[u][c] = "none"

Aim(q) == IF q.pc = "name" THEN q.job ELSE q.pc

\* What a request knows, whatever happens to the content meanwhile: what its
\* commit is about; the names it has, or is still to insert; that only a recap's
\* link is read again; and that a comment it answers, should it still be there,
\* is of the entry, whose author, should it still be there, will be told.
Knows(q) ==
    /\ Aim(q) \in {"update", "drop", "comment"} => q.of \in Entry
    /\ Aim(q) \in {"share", "share_answer"} => q.of \in Shareable
    /\ Aim(q) = "share" /\ q.of # Recap => q.pc = "share" /\ q.token = None
    /\ Aim(q) = "create" => q.new.phase = "live" /\ q.new.author \in User
    /\ q.pc # "name" => q.need = {}
    /\ Aim(q) \in {"create", "update"} => q.new.tags \subseteq named \cup q.hold \cup q.need
    /\ q.pc = "comment" =>
          /\ q.u \in User \ q.to
          /\ entry[q.of].phase # "free"
          /\ Live(q.of) => entry[q.of].author \in q.to \cup {q.u}
          /\ q.c # None => /\ comment[q.c].phase # "free"
                           /\ Posted(q.c) => comment[q.c].of = q.of

Inv ==
    /\ TypeOK
    /\ ThreadsWhole /\ NobodyMissed /\ TagsComplete /\ RowsInOrder
    /\ \A r \in Request : Knows(req[r])

=============================================================================
