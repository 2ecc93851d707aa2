-------------------------------- MODULE Album --------------------------------
(***************************************************************************)
(* What the photos of a workspace's journal promise their readers, without *)
(* files, rows or requests: the photos of an entry appear together with    *)
(* their bytes, stay as long as the entry does, and go with it.            *)
(***************************************************************************)
CONSTANTS Entry, File

VARIABLES
    entries,   \* the entries that can be read
    album      \* album[e]: the photos of entry e that can be loaded

vars == <<entries, album>>

Init ==
    /\ entries = {}
    /\ album = [e \in Entry |-> {}]

Unseen(photos) == \A e \in Entry : album[e] \cap photos = {}

CreateEntry(e, photos) ==
    /\ e \notin entries
    /\ Unseen(photos)
    /\ entries' = entries \cup {e}
    /\ album' = [album EXCEPT ![e] = photos]

AddPhotos(e, photos) ==
    /\ e \in entries
    /\ Unseen(photos)
    /\ album' = [album EXCEPT ![e] = @ \cup photos]
    /\ UNCHANGED entries

DeleteEntries(es) ==
    /\ entries' = entries \ es
    /\ album' = [e \in Entry |-> IF e \in es THEN {} ELSE album[e]]

Next ==
    \/ \E e \in Entry, photos \in SUBSET File :
          CreateEntry(e, photos) \/ AddPhotos(e, photos)
    \/ \E es \in SUBSET entries : DeleteEntries(es)

Spec == Init /\ [][Next]_vars

=============================================================================
