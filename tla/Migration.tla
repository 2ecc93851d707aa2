------------------------------ MODULE Migration -----------------------------
(***************************************************************************)
(* Runs of migrate_uploads_to_object_storage.py, while the web application *)
(* goes on taking and deleting photos: on the local disk until it restarts *)
(* with the new settings, in the bucket from then on.  A file is there or  *)
(* not, what is in it is left out: a run that reads a local file while it  *)
(* is still being written copies half of it.                               *)
(***************************************************************************)
EXTENDS FiniteSets

CONSTANTS
    File,      \* stored names: random, never drawn twice
    Script     \* processes that migrate

VARIABLES
    local,     \* backend/uploads/
    bucket,    \* object storage
    photo,     \* what the application is doing with each name
    manifest,  \* what the manifest file says
    torn,      \* the manifest file is not JSON: its writer stopped half-way
    switched,  \* the web application uses the bucket
    script     \* what each process is doing

migration == <<local, bucket, photo, manifest, torn, switched, script>>

-----------------------------------------------------------------------------

\* A name is drawn for a file that is saved before its row of entry_images is
\* committed, and deleted after the row is.  "gone" is a name of no use any more,
\* whose file may have been left behind.
Life == {"none", "saved", "shown", "going", "gone"}

\* mine is the manifest in memory.
ScriptState == [pc : {"idle", "list", "put"}, mine : SUBSET File, todo : SUBSET File]
Ended       == [pc |-> "idle", mine |-> {}, todo |-> {}]

Init ==
    /\ local = {}
    /\ bucket = {}
    /\ photo = [f \in File |-> "none"]
    /\ manifest = {}
    /\ torn = FALSE
    /\ switched = FALSE
    /\ script = [i \in Script |-> Ended]

Migrating(i) == script[i].pc = "put"

Turns(f, from, to) ==
    /\ photo[f] = from
    /\ photo' = [photo EXCEPT ![f] = to]

Save(f) ==
    /\ Turns(f, "none", "saved")
    /\ local' = IF switched THEN local ELSE local \cup {f}
    /\ bucket' = IF switched THEN bucket \cup {f} ELSE bucket
    /\ UNCHANGED <<manifest, torn, switched, script>>

RowCommit(f) ==
    /\ Turns(f, "saved", "shown")
    /\ UNCHANGED <<local, bucket, manifest, torn, switched, script>>

RowDeleted(f) ==
    /\ Turns(f, "shown", "going")
    /\ UNCHANGED <<local, bucket, manifest, torn, switched, script>>

\* What a script has put into the bucket, or has yet to put, stays there.
Delete(f) ==
    /\ Turns(f, "going", "gone")
    /\ local' = IF switched THEN local ELSE local \ {f}
    /\ bucket' = IF switched THEN bucket \ {f} ELSE bucket
    /\ UNCHANGED <<manifest, torn, switched, script>>

\* The upload is rejected, the deletion fails, or the server stops before it
\* is through.
LeftBehind(f) ==
    /\ Turns(f, "saved", "gone") \/ Turns(f, "going", "gone")
    /\ UNCHANGED <<local, bucket, manifest, torn, switched, script>>

\* The server restarts with the new settings.
Switch ==
    /\ ~switched
    /\ switched' = TRUE
    /\ photo' = [f \in File |-> IF photo[f] \in {"saved", "going"} THEN "gone" ELSE photo[f]]
    /\ UNCHANGED <<local, bucket, manifest, torn, script>>

\* A manifest that is not JSON ends this run, and every later one.
LoadManifest(i) ==
    /\ script[i].pc = "idle"
    /\ ~torn
    /\ script' = [script EXCEPT ![i] = [pc |-> "list", mine |-> manifest, todo |-> {}]]
    /\ UNCHANGED <<local, bucket, photo, manifest, torn, switched>>

ListFiles(i) ==
    /\ script[i].pc = "list"
    /\ LET todo == local \ script[i].mine IN
          script' = [script EXCEPT ![i] = IF todo = {} THEN Ended
                                          ELSE [@ EXCEPT !.pc = "put", !.todo = todo]]
    /\ UNCHANGED <<local, bucket, photo, manifest, torn, switched>>

Put(i) ==
    /\ Migrating(i)
    /\ \E f \in script[i].todo \cap local :
          /\ bucket' = bucket \cup {f}
          /\ script' = [script EXCEPT ![i].mine = @ \cup {f}, ![i].todo = @ \ {f}]
    /\ UNCHANGED <<local, photo, manifest, torn, switched>>

\* MUTANT of GiveUp: what was to be put is recorded although a put failed
RecordsAnyway(i) ==
    /\ Migrating(i)
    /\ manifest' = script[i].mine \cup script[i].todo
    /\ script' = [script EXCEPT ![i] = Ended]
    /\ UNCHANGED <<local, bucket, photo, torn, switched>>

\* The process stops: a put fails, the file is gone, or something else.
GiveUp(i) ==
    /\ script[i].pc # "idle"
    /\ script' = [script EXCEPT ![i] = Ended]
    /\ UNCHANGED <<local, bucket, photo, manifest, torn, switched>>

\* The manifest replaces what another run has saved since it was loaded, if
\* the process does not stop in the middle of it.
SaveManifest(i) ==
    /\ Migrating(i)
    /\ script[i].todo = {}
    /\ \/ manifest' = script[i].mine /\ torn' = FALSE
       \/ manifest' = {} /\ torn' = TRUE
    /\ script' = [script EXCEPT ![i] = Ended]
    /\ UNCHANGED <<local, bucket, photo, switched>>

Next ==
    \/ Switch
    \/ \E f \in File :
          Save(f) \/ RowCommit(f) \/ RowDeleted(f) \/ Delete(f) \/ LeftBehind(f)
    \/ \E i \in Script :
          LoadManifest(i) \/ ListFiles(i) \/ Put(i) \/ GiveUp(i) \/ SaveManifest(i)

Spec == Init /\ [][Next]_migration

-----------------------------------------------------------------------------

Shown == {f \in File : photo[f] = "shown"}

\* No run will look again at a file the manifest names, so the bucket has it as
\* long as an entry shows it: whatever the application uploads and deletes on
\* either side meanwhile, wherever runs stop, and though two of them overwrite
\* each other's manifest.  A run that found every file named can therefore be
\* followed by the switch, if nothing was uploaded to the local disk since.
ManifestTrue ==
    /\ manifest \cap Shown \subseteq bucket
    /\ \A i \in Script : script[i].mine \cap Shown \subseteq bucket

-----------------------------------------------------------------------------
(* The inductive invariant: a new photo is none that anybody has heard of,  *)
(* and one that is saved may be shown next.                                 *)

TypeOK == photo \in [File -> Life] /\ script \in [Script -> ScriptState]

Drawn == {f \in File : photo[f] # "none"}
Kept  == {f \in File : photo[f] \in {"saved", "shown"}}

\* Whatever is stored, listed or copied has a name that was drawn.
NamesDrawn ==
    /\ local \cup manifest \subseteq Drawn
    /\ \A i \in Script : script[i].mine \cup script[i].todo \subseteq Drawn

KeptCopied ==
    /\ manifest \cap Kept \subseteq bucket
    /\ \A i \in Script : script[i].mine \cap Kept \subseteq bucket

Inv == TypeOK /\ NamesDrawn /\ KeptCopied

=============================================================================
