------------------------------- MODULE Photos --------------------------------
(***************************************************************************)
(* Entry photos live in two places: an entry_images row in the database    *)
(* and a stored object (a file or an S3 key).  No transaction spans both.  *)
(* An upload stores the objects first and commits the rows last; a         *)
(* deletion commits the rows' removal first and deletes the objects last,  *)
(* one by one, while other requests run and may fail at any point.         *)
(***************************************************************************)
EXTENDS Naturals, FiniteSets

CONSTANTS
    Entry,     \* entry ids of one workspace that can still be handed out
    File,      \* stored names (random UUIDs) that can still be generated
    Request,   \* worker threads
    None,      \* no entry
    MaxBatch   \* photos in one upload, at most

VARIABLES
    open,      \* the workspace has a row
    entry,     \* status of each entry id: "new", "live" or "gone"
    row,       \* row[f]: the entry whose entry_images row names f, or None
    files,     \* stored objects
    named,     \* names ever generated
    trouble,   \* no part of the program: the worst that has happened so far
    req        \* what each worker thread is doing

vars == <<open, entry, row, files, named, trouble, req>>

ASSUME PhotosAssumption == None \notin Entry /\ MaxBatch \in Nat

-----------------------------------------------------------------------------

Pc == {"idle", "flush", "save", "load", "collect", "commit", "sweep"}

\* The entry a request is for (None: an entry being created, or the whole
\* workspace), the photos it has yet to store, the objects it has stored,
\* the entries it will delete, those whose photos it has yet to load, and
\* the names it will delete from storage.
RequestState ==
    [ pc : Pc, e : Entry \cup {None}, left : 0..MaxBatch, saved : SUBSET File,
      doomed : SUBSET Entry, todo : SUBSET Entry, names : SUBSET File ]

Start(pc, e, left) ==
    [ pc |-> pc, e |-> e, left |-> left, saved |-> {},
      doomed |-> {}, todo |-> {}, names |-> {} ]

Idle == Start("idle", None, 0)

TypeOK ==
    /\ open \in BOOLEAN
    /\ entry \in [Entry -> {"new", "live", "gone"}]
    /\ row \in [File -> Entry \cup {None}]
    /\ \A f \in File : row[f] # None => entry[row[f]] = "live"
    /\ ~open => \A e \in Entry : entry[e] # "live"
    /\ files \subseteq named
    /\ named \subseteq File
    /\ trouble \in {"none", "rejected", "failed"}
    /\ req \in [Request -> RequestState]

Init ==
    /\ open = TRUE
    /\ entry = [e \in Entry |-> "new"]
    /\ row = [f \in File |-> None]
    /\ files = {}
    /\ named = {}
    /\ trouble = "none"
    /\ req = [r \in Request |-> Idle]

Live == {e \in Entry : entry[e] = "live"}
Referenced == {f \in File : row[f] # None}
PhotosOf(e) == {f \in File : row[f] = e}

Finish(r) == req' = [req EXCEPT ![r] = Idle]
Trouble(worst) ==
    trouble' = IF trouble = "failed" THEN trouble ELSE worst
Database == <<open, entry, row>>

-----------------------------------------------------------------------------
(* Requests arrive: create_entry and add_images with a batch of files,     *)
(* delete_entry, and delete_workspace (or the cascade of delete_account).  *)

Receive(r) ==
    /\ req[r].pc = "idle"
    /\ open
    /\ \/ \E n \in 0..MaxBatch : req' = [req EXCEPT ![r] = Start("flush", None, n)]
       \/ \E e \in Live, n \in 0..MaxBatch : req' = [req EXCEPT ![r] = Start("save", e, n)]
       \/ \E e \in Live : req' = [req EXCEPT ![r] = Start("load", e, 0)]
       \/ req' = [req EXCEPT ![r] = Start("load", None, 0)]
    /\ UNCHANGED <<Database, files, named, trouble>>

\* A crash, a lost database connection, a storage backend that refuses a
\* write: the transaction rolls back and nothing undoes what was stored.
Abort(r) ==
    /\ req[r].pc # "idle"
    /\ Finish(r)
    /\ Trouble("failed")
    /\ UNCHANGED <<Database, files, named>>

-----------------------------------------------------------------------------
(* create_entry inserts the entry before its photos are stored, uncommitted, *)
(* and so holds a key-share lock on the workspace row until it is done.      *)

Flush(r) ==
    /\ req[r].pc = "flush"
    /\ IF open THEN req' = [req EXCEPT ![r] = [@ EXCEPT !.pc = "save"]] ELSE Finish(r)
    /\ UNCHANGED <<Database, files, named, trouble>>

HoldsWorkspace(r) == req[r].pc = "save" /\ req[r].e = None

(* _save_images: each file is checked and stored before the next is looked *)
(* at; a bad one answers 400 with the earlier ones already stored.         *)

SaveImage(r) ==
    /\ req[r].pc = "save"
    /\ req[r].left > 0
    /\ \E f \in File \ named :
          /\ files' = files \cup {f}
          /\ named' = named \cup {f}
          /\ req' = [req EXCEPT ![r] = [@ EXCEPT !.left = req[r].left - 1,
                                                 !.saved = req[r].saved \cup {f}]]
    /\ UNCHANGED <<Database, trouble>>

RejectImage(r) ==
    /\ req[r].pc = "save"
    /\ req[r].left > 0
    /\ Finish(r)
    /\ Trouble("rejected")
    /\ UNCHANGED <<Database, files, named>>

\* The rows of the batch, and a new entry's own row, in one commit; photos
\* added to an entry that is gone by now fail on their foreign key.
MutantUploadAccepted(r) == TRUE
UploadAccepted(r) == req[r].e \in Live \cup {None} \/ req[r].saved = {}

UploadCommit(r) ==
    /\ req[r].pc = "save"
    /\ req[r].left = 0
    /\ IF UploadAccepted(r)
       THEN \E e \in IF req[r].e = None THEN {x \in Entry : entry[x] = "new"} ELSE {req[r].e} :
               /\ entry' = IF req[r].e = None THEN [entry EXCEPT ![e] = "live"] ELSE entry
               /\ row' = [f \in File |-> IF f \in req[r].saved THEN e ELSE row[f]]
               /\ UNCHANGED trouble
       ELSE /\ Trouble("failed")
            /\ UNCHANGED <<entry, row>>
    /\ Finish(r)
    /\ UNCHANGED <<open, files, named>>

-----------------------------------------------------------------------------
(* delete_entry, delete_workspace: load what will go, commit, then sweep.  *)

\* The entries to delete; 404 when there are none left to find.
Load(r) ==
    /\ req[r].pc = "load"
    /\ LET doomed == IF req[r].e = None THEN Live ELSE {req[r].e} \cap Live IN
       IF open /\ (req[r].e # None => doomed # {})
       THEN req' = [req EXCEPT ![r] = [@ EXCEPT !.pc = "collect", !.doomed = doomed,
                                                !.todo = doomed]]
       ELSE Finish(r)
    /\ UNCHANGED <<Database, files, named, trouble>>

\* entry.images, loaded once per entry: both the list of names to delete from
\* storage and the rows the cascade deletes.
Collect(r) ==
    /\ req[r].pc = "collect"
    /\ \E e \in req[r].todo :
          req' = [req EXCEPT ![r] = [@ EXCEPT !.todo = req[r].todo \ {e},
                                              !.names = req[r].names \cup PhotosOf(e)]]
    /\ UNCHANGED <<Database, files, named, trouble>>

\* A row that was committed after the load, under an entry or a workspace
\* that is going, makes the whole deletion fail on its foreign key.
MutantLeftBehind(r) == FALSE
LeftBehind(r) ==
    \/ \E f \in Referenced : row[f] \in req[r].doomed /\ f \notin req[r].names
    \/ req[r].e = None /\ Live \ req[r].doomed # {}

MutantDeleteCommit(r) ==
    /\ req[r].pc = "collect"
    /\ req[r].todo = {}
    /\ req[r].e = None => \A s \in Request : ~HoldsWorkspace(s)
    /\ IF LeftBehind(r)
       THEN UNCHANGED Database
       ELSE /\ entry' = [e \in Entry |-> IF e \in req[r].doomed THEN "gone" ELSE entry[e]]
            /\ row' = [f \in File |-> IF f \in req[r].names THEN None ELSE row[f]]
            /\ open' = (open /\ req[r].e # None)
    /\ req' = [req EXCEPT ![r] = [@ EXCEPT !.pc = "sweep"]]
    /\ UNCHANGED <<files, named, trouble>>

DeleteCommit(r) ==
    /\ req[r].pc = "collect"
    /\ req[r].todo = {}
    /\ req[r].e = None => \A s \in Request : ~HoldsWorkspace(s)
    /\ IF LeftBehind(r)
       THEN /\ Finish(r)
            /\ UNCHANGED Database
       ELSE /\ entry' = [e \in Entry |-> IF e \in req[r].doomed THEN "gone" ELSE entry[e]]
            /\ row' = [f \in File |-> IF f \in req[r].names THEN None ELSE row[f]]
            /\ open' = (open /\ req[r].e # None)
            /\ req' = [req EXCEPT ![r] = [@ EXCEPT !.pc = "sweep"]]
    /\ UNCHANGED <<files, named, trouble>>

\* delete_stored_images: a name that is not there is no error, and an error
\* is logged and skipped.
SweepFile(r) ==
    /\ req[r].pc = "sweep"
    /\ \E f \in req[r].names :
          /\ files' = files \ {f}
          /\ req' = [req EXCEPT ![r] = [@ EXCEPT !.names = req[r].names \ {f}]]
    /\ UNCHANGED <<Database, named, trouble>>

SweepFails(r) ==
    /\ req[r].pc = "sweep"
    /\ \E f \in req[r].names : req' = [req EXCEPT ![r] = [@ EXCEPT !.names = req[r].names \ {f}]]
    /\ Trouble("failed")
    /\ UNCHANGED <<Database, files, named>>

MutantSwept(r) ==
    /\ req[r].pc = "sweep"
    /\ Finish(r)
    /\ UNCHANGED <<Database, files, named, trouble>>

Swept(r) ==
    /\ req[r].pc = "sweep"
    /\ req[r].names = {}
    /\ Finish(r)
    /\ UNCHANGED <<Database, files, named, trouble>>

-----------------------------------------------------------------------------

Step(r) ==
    \/ Receive(r) \/ Abort(r)
    \/ Flush(r) \/ SaveImage(r) \/ RejectImage(r) \/ UploadCommit(r)
    \/ Load(r) \/ Collect(r) \/ DeleteCommit(r)
    \/ SweepFile(r) \/ SweepFails(r) \/ Swept(r)

Next == \E r \in Request : Step(r)

Spec == Init /\ [][Next]_vars

-----------------------------------------------------------------------------
(* Properties.                                                             *)

\* Every photo row has its stored object, whatever failed, crashed or ran at
\* the same time: get_entry_image never serves a photo that is not there.
EveryRowHasItsFile == Referenced \subseteq files

\* What makes it hold, besides types.  An upload's objects are stored and no
\* row names them yet, and no two uploads share one;
UploadsAreStored == \A r \in Request : req[r].saved \subseteq files \ Referenced

UploadsAreApart ==
    \A r, s \in Request : r # s => req[r].saved \cap req[s].saved = {}

\* a deletion's list has names that were handed out, never those of an upload
\* in flight, and once it has committed no row has any of them.
ListsAreOld ==
    \A r, s \in Request :
        req[r].names \subseteq named /\ req[r].names \cap req[s].saved = {}

SweptAreUnreferenced ==
    \A r \in Request : req[r].pc = "sweep" => req[r].names \cap Referenced = {}

\* A deletion lists photos of the entries it deletes only, and the entry being
\* created keeps its workspace.
ListsAreOfDoomed ==
    \A r \in Request :
        /\ req[r].todo \subseteq req[r].doomed
        /\ req[r].pc = "load" => req[r].names = {}
        /\ \A f \in req[r].names : row[f] \in req[r].doomed \cup {None}

HoldersKeepOpen == \A r \in Request : HoldsWorkspace(r) => open

Inv ==
    /\ TypeOK
    /\ EveryRowHasItsFile
    /\ UploadsAreStored
    /\ UploadsAreApart
    /\ ListsAreOld
    /\ SweptAreUnreferenced
    /\ ListsAreOfDoomed
    /\ HoldersKeepOpen

\* To its readers the journal is an Album: an entry's photos appear at once,
\* never disappear one by one, and go when the entry goes.
readable == [e \in Entry |-> PhotosOf(e) \cap files]
A == INSTANCE Album WITH entries <- Live, album <- readable
AlbumSpec == A!Spec

\* Storage leaks only when something goes wrong: without a rejected batch, a
\* failed commit, a failed deletion or a crash, once every request has been
\* answered nothing is stored that no row refers to.
NoLeakWithoutTrouble ==
    (trouble = "none" /\ \A r \in Request : req[r].pc = "idle") => files = Referenced

\* Why: as long as all is well, an object that no row refers to is one that an
\* upload has stored and not committed, or that a deletion has committed and
\* not swept.
Owes(r, f) ==
    \/ req[r].pc = "save"  /\ f \in req[r].saved
    \/ req[r].pc = "sweep" /\ f \in req[r].names

LooseAreOwed ==
    trouble = "none" => \A f \in files \ Referenced : \E r \in Request : Owes(r, f)

=============================================================================
