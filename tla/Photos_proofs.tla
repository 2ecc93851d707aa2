---------------------------- MODULE Photos_proofs ----------------------------
(***************************************************************************)
(* Proofs about Photos, for any number of entries, files, requests and     *)
(* photos in a batch: a row always has its stored object, and the journal  *)
(* implements an Album.                                                    *)
(***************************************************************************)
EXTENDS Photos, TLAPS

(* What a step does to the requests.                                       *)

\* An idle worker's state is a request state.
LEMMA IdleType == Idle \in RequestState
BY PhotosAssumption DEF Idle, Start, RequestState, Pc

\* A step of request r leaves the state of the other requests alone.
LEMMA OneMoves ==
    ASSUME TypeOK, NEW r \in Request, NEW q \in RequestState,
           req' = [req EXCEPT ![r] = q]
    PROVE  /\ req' \in [Request -> RequestState]
           /\ req'[r] = q
           /\ \A s \in Request \ {r} : req'[s] = req[s]
BY DEF TypeOK

\* The invariant survives a step of a request that leaves the database and the
\* storage alone, takes no new upload and lists only photos it may list.
LEMMA RequestMoves ==
    ASSUME Inv, NEW r \in Request, NEW q \in RequestState,
           req' = [req EXCEPT ![r] = q],
           trouble' \in {"none", "rejected", "failed"},
           UNCHANGED <<open, entry, row, files, named>>,
           q.saved \subseteq req[r].saved,
           q.todo \subseteq q.doomed,
           q.pc = "load" => q.names = {},
           \A f \in q.names : /\ f \in req[r].names \/ row[f] # None
                              /\ row[f] \in q.doomed \cup {None}
                              /\ q.pc = "sweep" => row[f] = None,
           q.pc = "save" /\ q.e = None => open
    PROVE  Inv'
PROOF
<1>1. TypeOK /\ TypeOK'
      BY OneMoves DEF Inv, TypeOK
<1>2. /\ req'[r] = q
      /\ \A s \in Request \ {r} : req'[s] = req[s]
      BY OneMoves DEF Inv
<1>3. EveryRowHasItsFile'
      BY DEF Inv, EveryRowHasItsFile, Referenced
<1>4. UploadsAreStored'
      BY <1>2 DEF Inv, UploadsAreStored, Referenced
<1>5. UploadsAreApart'
      BY <1>2 DEF Inv, UploadsAreApart
<1>6. ListsAreOld'
  <2>1. q.names \in SUBSET File
        BY DEF RequestState
  <2>2. \A f \in q.names : f \in req[r].names \/ f \in Referenced
        BY <2>1 DEF Referenced
  <2>3. q.names \subseteq named
        BY <2>2, <1>1 DEF Inv, ListsAreOld, EveryRowHasItsFile, TypeOK
  <2>4. \A s \in Request : q.names \cap req[s].saved = {}
        BY <2>2 DEF Inv, ListsAreOld, UploadsAreStored
  <2>5. QED
        BY <1>2, <2>3, <2>4 DEF Inv, ListsAreOld
<1>7. SweptAreUnreferenced'
      BY <1>2 DEF Inv, SweptAreUnreferenced, Referenced
<1>8. ListsAreOfDoomed'
      BY <1>2 DEF Inv, ListsAreOfDoomed
<1>9. HoldersKeepOpen'
      BY <1>2 DEF Inv, HoldersKeepOpen, HoldsWorkspace
<1>10. QED
      BY <1>1, <1>3, <1>4, <1>5, <1>6, <1>7, <1>8, <1>9 DEF Inv

-----------------------------------------------------------------------------
(* The invariant, action by action.                                        *)

\* At the start nothing is stored, named or asked for.
LEMMA InitInv == Init => Inv
<1> SUFFICES ASSUME Init PROVE Inv
    OBVIOUS
<1>1. \A r \in Request : req[r] = Idle
      BY DEF Init
<1>2. /\ Idle.saved = {} /\ Idle.names = {} /\ Idle.todo = {} /\ Idle.doomed = {}
      /\ Idle.pc = "idle"
      BY DEF Idle, Start
<1>3. TypeOK
      BY IdleType DEF Init, TypeOK
<1>4. Referenced = {}
      BY DEF Init, Referenced
<1>5. QED
      BY <1>1, <1>2, <1>3, <1>4
      DEF Inv, EveryRowHasItsFile, UploadsAreStored, UploadsAreApart, ListsAreOld,
          SweptAreUnreferenced, ListsAreOfDoomed, HoldersKeepOpen, HoldsWorkspace

\* Answering a request with nothing written.
LEMMA FinishInv ==
    ASSUME Inv, NEW r \in Request, Finish(r),
           trouble' \in {"none", "rejected", "failed"},
           UNCHANGED <<open, entry, row, files, named>>
    PROVE  Inv'
<1>1. /\ Idle.saved = {} /\ Idle.names = {} /\ Idle.todo = {} /\ Idle.doomed = {}
      /\ Idle.pc = "idle"
      BY DEF Idle, Start
<1>2. req' = [req EXCEPT ![r] = Idle]
      BY DEF Finish
<1>3. QED
      BY <1>1, <1>2, IdleType, RequestMoves

\* The record of the worst that happened keeps its type.
LEMMA TroubleType ==
    ASSUME TypeOK, NEW worst \in {"rejected", "failed"}, Trouble(worst)
    PROVE  trouble' \in {"none", "rejected", "failed"}
BY DEF TypeOK, Trouble

\* A request that has just arrived has nothing stored and nothing listed.
LEMMA ReceiveInv ==
    ASSUME Inv, NEW r \in Request, Receive(r) PROVE Inv'
<1> DEFINE New == {Start("flush", None, n) : n \in 0..MaxBatch}
                    \cup {Start("save", e, n) : e \in Live, n \in 0..MaxBatch}
                    \cup {Start("load", e, 0) : e \in Live}
                    \cup {Start("load", None, 0)}
<1>1. PICK q \in New : req' = [req EXCEPT ![r] = q]
      BY DEF Receive
<1>2. Live \subseteq Entry
      BY DEF Live
<1>3. /\ q \in RequestState
      /\ q.saved = {} /\ q.names = {} /\ q.todo = {} /\ q.doomed = {}
      /\ q.pc = "save" => q.e # None
      BY <1>2, PhotosAssumption DEF Start, RequestState, Pc
<1>4. trouble' \in {"none", "rejected", "failed"}
      BY DEF Inv, TypeOK, Receive
<1>5. UNCHANGED <<open, entry, row, files, named>>
      BY DEF Receive, Database
<1> HIDE DEF New
<1>6. QED
      BY <1>1, <1>3, <1>4, <1>5, RequestMoves

\* create_entry's flush: from here on the workspace is kept.
LEMMA FlushInv ==
    ASSUME Inv, NEW r \in Request, Flush(r) PROVE Inv'
<1> DEFINE q == [req[r] EXCEPT !.pc = "save"]
<1>1. /\ trouble' \in {"none", "rejected", "failed"}
      /\ UNCHANGED <<open, entry, row, files, named>>
      BY DEF Inv, TypeOK, Flush, Database
<1>2. CASE open
  <2>1. req' = [req EXCEPT ![r] = q]
        BY <1>2 DEF Flush
  <2>2. /\ q \in RequestState
        /\ q.saved = req[r].saved /\ q.names = req[r].names /\ q.pc = "save"
        /\ q.todo = req[r].todo /\ q.doomed = req[r].doomed
        BY DEF Inv, TypeOK, RequestState, Pc
  <2> HIDE DEF q
  <2>3. /\ req[r].todo \subseteq req[r].doomed
        /\ \A f \in req[r].names : row[f] \in req[r].doomed \cup {None}
        BY DEF Inv, ListsAreOfDoomed
  <2>4. QED
        BY <1>1, <1>2, <2>1, <2>2, <2>3, RequestMoves
<1>3. CASE ~open
      BY <1>1, <1>3, FinishInv DEF Flush
<1>4. QED
      BY <1>2, <1>3

\* A deletion has found the entries it will delete, and no photo of theirs yet.
LEMMA LoadInv ==
    ASSUME Inv, NEW r \in Request, Load(r) PROVE Inv'
<1> DEFINE D == IF req[r].e = None THEN Live ELSE {req[r].e} \cap Live
           q == [req[r] EXCEPT !.pc = "collect", !.doomed = D, !.todo = D]
<1>1. /\ trouble' \in {"none", "rejected", "failed"}
      /\ UNCHANGED <<open, entry, row, files, named>>
      BY DEF Inv, TypeOK, Load, Database
<1>2. D \subseteq Entry
      BY DEF Live
<1>3. req' = [req EXCEPT ![r] = q] \/ Finish(r)
      BY DEF Load
<1> HIDE DEF D
<1>4. CASE req' = [req EXCEPT ![r] = q]
  <2> req[r] \in RequestState
      BY DEF Inv, TypeOK
  <2>1. /\ q \in RequestState
        /\ q.saved = req[r].saved /\ q.names = req[r].names /\ q.pc = "collect"
        /\ q.todo = q.doomed
        BY <1>2 DEF RequestState, Pc
  <2>2. q.names = {}
        BY <2>1 DEF Load, Inv, ListsAreOfDoomed
  <2> HIDE DEF q
  <2>3. QED
        BY <1>1, <1>4, <2>1, <2>2, RequestMoves
<1>5. CASE Finish(r)
      BY <1>1, <1>5, FinishInv
<1>6. QED
      BY <1>3, <1>4, <1>5

\* A deletion lists the photos of one more doomed entry: rows name them, so they
\* were stored, and no upload in flight has them.
LEMMA CollectInv ==
    ASSUME Inv, NEW r \in Request, Collect(r) PROVE Inv'
<1>1. /\ trouble' \in {"none", "rejected", "failed"}
      /\ UNCHANGED <<open, entry, row, files, named>>
      BY DEF Inv, TypeOK, Collect, Database
<1>2. PICK e \in req[r].todo :
         req' = [req EXCEPT ![r] = [@ EXCEPT !.todo = req[r].todo \ {e},
                                             !.names = req[r].names \cup PhotosOf(e)]]
      BY DEF Collect
<1> DEFINE q == [req[r] EXCEPT !.todo = req[r].todo \ {e},
                               !.names = req[r].names \cup PhotosOf(e)]
<1>3. req' = [req EXCEPT ![r] = q]
      BY <1>2
<1>4. /\ PhotosOf(e) \subseteq File
      /\ \A f \in PhotosOf(e) : row[f] = e
      BY DEF PhotosOf
<1>5. req[r].pc = "collect"
      BY DEF Collect
<1>6. /\ q \in RequestState
      /\ q.saved = req[r].saved /\ q.names = req[r].names \cup PhotosOf(e)
      /\ q.pc = "collect" /\ q.todo = req[r].todo \ {e} /\ q.doomed = req[r].doomed
  <2> req[r] \in RequestState
      BY DEF Inv, TypeOK
  <2> QED
      BY <1>4, <1>5 DEF RequestState
<1>7. /\ req[r].todo \subseteq req[r].doomed
      /\ \A f \in req[r].names : row[f] \in req[r].doomed \cup {None}
      /\ req[r].doomed \subseteq Entry
      BY DEF Inv, ListsAreOfDoomed, TypeOK, RequestState
<1>8. e \in Entry /\ e \in req[r].doomed /\ e # None
      BY <1>7, PhotosAssumption
<1> HIDE DEF q
<1>9. QED
      BY <1>1, <1>3, <1>4, <1>6, <1>7, <1>8, RequestMoves

\* A new object has a new name, so it is on no list and in no other upload.
LEMMA SaveImageInv ==
    ASSUME Inv, NEW r \in Request, SaveImage(r) PROVE Inv'
<1>1. PICK f \in File \ named :
         /\ files' = files \cup {f}
         /\ named' = named \cup {f}
         /\ req' = [req EXCEPT ![r] = [@ EXCEPT !.left = req[r].left - 1,
                                                !.saved = req[r].saved \cup {f}]]
      BY DEF SaveImage
<1> DEFINE q == [req[r] EXCEPT !.left = req[r].left - 1,
                               !.saved = req[r].saved \cup {f}]
<1>2. /\ UNCHANGED <<open, entry, row, trouble>>
      /\ req[r].pc = "save" /\ req[r].left > 0
      BY DEF SaveImage, Database
<1>3. TypeOK /\ req[r] \in RequestState
      BY DEF Inv, TypeOK
<1>4. /\ q \in RequestState
      /\ q.saved = req[r].saved \cup {f} /\ q.names = req[r].names
      /\ q.pc = req[r].pc /\ q.e = req[r].e
      /\ q.todo = req[r].todo /\ q.doomed = req[r].doomed
  <2>1. req[r].left - 1 \in 0..MaxBatch
        BY <1>2, <1>3, PhotosAssumption DEF RequestState
  <2> QED
      BY <1>3, <2>1 DEF RequestState
<1>5. req' = [req EXCEPT ![r] = q]
      BY <1>1
<1> HIDE DEF q
<1>6. /\ req' \in [Request -> RequestState]
      /\ req'[r] = q
      /\ \A s \in Request \ {r} : req'[s] = req[s]
      BY <1>3, <1>4, <1>5, OneMoves
<1>7. TypeOK'
      BY <1>1, <1>2, <1>3, <1>6 DEF TypeOK
<1>8. f \notin files /\ f \notin Referenced
      BY <1>1, <1>3 DEF Inv, TypeOK, EveryRowHasItsFile
<1>9. EveryRowHasItsFile'
      BY <1>1, <1>2 DEF Inv, EveryRowHasItsFile, Referenced
<1>10. UploadsAreStored'
  <2>1. Referenced' = Referenced
        BY <1>2 DEF Referenced
  <2>2. \A s \in Request : req'[s].saved \subseteq req[s].saved \cup {f}
        BY <1>4, <1>6
  <2>3. QED
        BY <1>1, <1>8, <2>1, <2>2 DEF Inv, UploadsAreStored
<1>11. UploadsAreApart'
  <2>1. \A s \in Request : f \notin req[s].saved
        BY <1>8 DEF Inv, UploadsAreStored
  <2>2. QED
        BY <1>4, <1>6, <2>1 DEF Inv, UploadsAreApart
<1>12. ListsAreOld'
  <2>1. \A s \in Request : req'[s].names = req[s].names
        BY <1>4, <1>6
  <2>2. \A s \in Request : req'[s].saved \subseteq req[s].saved \cup {f}
        BY <1>4, <1>6
  <2>3. \A s \in Request : f \notin req[s].names
        BY <1>1 DEF Inv, ListsAreOld
  <2>4. QED
        BY <1>1, <2>1, <2>2, <2>3 DEF Inv, ListsAreOld
<1>13. SweptAreUnreferenced'
      BY <1>2, <1>4, <1>6 DEF Inv, SweptAreUnreferenced, Referenced
<1>14. ListsAreOfDoomed'
      BY <1>2, <1>4, <1>6 DEF Inv, ListsAreOfDoomed
<1>15. HoldersKeepOpen'
      BY <1>2, <1>4, <1>6 DEF Inv, HoldersKeepOpen, HoldsWorkspace
<1>16. QED
      BY <1>7, <1>9, <1>10, <1>11, <1>12, <1>13, <1>14, <1>15 DEF Inv

\* What a deletion sweeps is in no row and in no upload.
LEMMA SweepFileInv ==
    ASSUME Inv, NEW r \in Request, SweepFile(r) PROVE Inv'
<1>1. PICK f \in req[r].names :
         /\ files' = files \ {f}
         /\ req' = [req EXCEPT ![r] = [@ EXCEPT !.names = req[r].names \ {f}]]
      BY DEF SweepFile
<1> DEFINE q == [req[r] EXCEPT !.names = req[r].names \ {f}]
<1>2. /\ UNCHANGED <<open, entry, row, named, trouble>>
      /\ req[r].pc = "sweep"
      BY DEF SweepFile, Database
<1>3. TypeOK /\ req[r] \in RequestState
      BY DEF Inv, TypeOK
<1>4. /\ q \in RequestState
      /\ q.saved = req[r].saved /\ q.names = req[r].names \ {f}
      /\ q.pc = req[r].pc /\ q.e = req[r].e
      /\ q.todo = req[r].todo /\ q.doomed = req[r].doomed
      BY <1>3 DEF RequestState
<1>5. req' = [req EXCEPT ![r] = q]
      BY <1>1
<1> HIDE DEF q
<1>6. /\ req' \in [Request -> RequestState]
      /\ req'[r] = q
      /\ \A s \in Request \ {r} : req'[s] = req[s]
      BY <1>3, <1>4, <1>5, OneMoves
<1>7. /\ \A s \in Request : req'[s].saved = req[s].saved
      /\ \A s \in Request : req'[s].names \subseteq req[s].names
      BY <1>4, <1>6
<1>8. f \notin Referenced /\ \A s \in Request : f \notin req[s].saved
      BY <1>2 DEF Inv, SweptAreUnreferenced, ListsAreOld
<1>9. Referenced' = Referenced
      BY <1>2 DEF Referenced
<1>10. TypeOK'
      BY <1>1, <1>2, <1>3, <1>6 DEF TypeOK
<1>11. EveryRowHasItsFile'
      BY <1>1, <1>8, <1>9 DEF Inv, EveryRowHasItsFile
<1>12. UploadsAreStored'
      BY <1>1, <1>7, <1>8, <1>9 DEF Inv, UploadsAreStored
<1>13. UploadsAreApart'
      BY <1>7 DEF Inv, UploadsAreApart
<1>14. ListsAreOld'
      BY <1>2, <1>7 DEF Inv, ListsAreOld
<1>15. SweptAreUnreferenced'
      BY <1>4, <1>6, <1>7, <1>9 DEF Inv, SweptAreUnreferenced
<1>16. ListsAreOfDoomed'
      BY <1>2, <1>4, <1>6 DEF Inv, ListsAreOfDoomed
<1>17. HoldersKeepOpen'
      BY <1>2, <1>4, <1>6 DEF Inv, HoldersKeepOpen, HoldsWorkspace
<1>18. QED
      BY <1>10, <1>11, <1>12, <1>13, <1>14, <1>15, <1>16, <1>17 DEF Inv

\* A deletion gives up on one object, which stays in storage.
LEMMA SweepFailsInv ==
    ASSUME Inv, NEW r \in Request, SweepFails(r) PROVE Inv'
<1>1. PICK f \in req[r].names :
         req' = [req EXCEPT ![r] = [@ EXCEPT !.names = req[r].names \ {f}]]
      BY DEF SweepFails
<1> DEFINE q == [req[r] EXCEPT !.names = req[r].names \ {f}]
<1>2. /\ trouble' \in {"none", "rejected", "failed"}
      /\ UNCHANGED <<open, entry, row, files, named>>
      /\ req[r].pc = "sweep"
      BY TroubleType DEF Inv, SweepFails, Database
<1>3. req[r] \in RequestState
      BY DEF Inv, TypeOK
<1>4. /\ q \in RequestState
      /\ q.saved = req[r].saved /\ q.names = req[r].names \ {f}
      /\ q.pc = "sweep" /\ q.todo = req[r].todo /\ q.doomed = req[r].doomed
      BY <1>2, <1>3 DEF RequestState
<1>5. req' = [req EXCEPT ![r] = q]
      BY <1>1
<1>6. /\ req[r].todo \subseteq req[r].doomed
      /\ \A g \in req[r].names : row[g] \in req[r].doomed \cup {None}
      BY DEF Inv, ListsAreOfDoomed
<1>7. \A g \in req[r].names : row[g] = None
      BY <1>2, <1>3 DEF Inv, SweptAreUnreferenced, Referenced, RequestState
<1> HIDE DEF q
<1>8. QED
      BY <1>2, <1>4, <1>5, <1>6, <1>7, RequestMoves

\* An idle worker has stored nothing and listed nothing.
LEMMA IdleFields ==
    /\ Idle.saved = {} /\ Idle.names = {} /\ Idle.todo = {} /\ Idle.doomed = {}
    /\ Idle.pc = "idle"
BY DEF Idle, Start

\* The effect of an accepted upload: its objects, until now in no row, become
\* the photos of a live entry.
LEMMA UploadEffect ==
    ASSUME Inv, NEW r \in Request, UploadCommit(r), UploadAccepted(r)
    PROVE  \E e \in Entry :
              /\ row' = [f \in File |-> IF f \in req[r].saved THEN e ELSE row[f]]
              /\ \/ e \in Live /\ entry' = entry
                 \/ req[r].saved = {} /\ entry' = entry
                 \/ /\ entry[e] = "new" /\ open
                    /\ entry' = [entry EXCEPT ![e] = "live"]
<1> DEFINE Targets == IF req[r].e = None THEN {x \in Entry : entry[x] = "new"}
                                         ELSE {req[r].e}
<1>1. PICK e \in Targets :
         /\ entry' = IF req[r].e = None THEN [entry EXCEPT ![e] = "live"] ELSE entry
         /\ row' = [f \in File |-> IF f \in req[r].saved THEN e ELSE row[f]]
      BY DEF UploadCommit
<1>2. req[r] \in RequestState
      BY DEF Inv, TypeOK
<1>3. req[r].e \in Entry \cup {None}
      BY <1>2 DEF RequestState
<1>4. CASE req[r].e = None
  <2>1. e \in Entry /\ entry[e] = "new" /\ entry' = [entry EXCEPT ![e] = "live"]
        BY <1>1, <1>4
  <2>2. open
        BY <1>4 DEF UploadCommit, Inv, HoldersKeepOpen, HoldsWorkspace
  <2>3. QED
        BY <1>1, <2>1, <2>2
<1>5. CASE req[r].e # None
  <2>1. e \in Entry /\ e = req[r].e /\ entry' = entry
        BY <1>1, <1>3, <1>5
  <2>2. e \in Live \/ req[r].saved = {}
        BY <2>1, <1>5 DEF UploadAccepted
  <2>3. QED
        BY <1>1, <2>1, <2>2
<1>6. QED
      BY <1>4, <1>5

\* An upload commits, or fails on its foreign key: what it adds is in no list.
LEMMA UploadCommitInv ==
    ASSUME Inv, NEW r \in Request, UploadCommit(r) PROVE Inv'
<1>1. UNCHANGED <<open, files, named>> /\ Finish(r)
      BY DEF UploadCommit
<1>2. CASE ~UploadAccepted(r)
  <2>1. /\ UNCHANGED <<entry, row>>
        /\ trouble' \in {"none", "rejected", "failed"}
        BY <1>2, TroubleType DEF UploadCommit, Inv
  <2>2. QED
        BY <1>1, <2>1, FinishInv
<1>3. CASE UploadAccepted(r)
  <2>1. PICK e \in Entry :
              /\ row' = [f \in File |-> IF f \in req[r].saved THEN e ELSE row[f]]
              /\ \/ e \in Live /\ entry' = entry
                 \/ req[r].saved = {} /\ entry' = entry
                 \/ /\ entry[e] = "new" /\ open
                    /\ entry' = [entry EXCEPT ![e] = "live"]
        BY <1>3, UploadEffect
  <2>2. trouble' = trouble
        BY <1>3 DEF UploadCommit
  <2>3. TypeOK /\ req[r].saved \in SUBSET File
        BY DEF Inv, TypeOK, RequestState
  <2>4. /\ req' \in [Request -> RequestState]
        /\ req'[r] = Idle
        /\ \A s \in Request \ {r} : req'[s] = req[s]
        BY <1>1, <2>3, IdleType, OneMoves DEF Finish
  <2>5. /\ row' \in [File -> Entry \cup {None}]
        /\ \A f \in File : row'[f] = IF f \in req[r].saved THEN e ELSE row[f]
        BY <2>1, <2>3 DEF TypeOK
  <2>6. /\ entry' \in [Entry -> {"new", "live", "gone"}]
        /\ req[r].saved # {} => entry'[e] = "live"
        /\ \A x \in Entry : entry[x] = "live" => entry'[x] = "live"
        /\ ~open => entry' = entry
        BY <2>1, <2>3 DEF TypeOK, Live
  <2>7. TypeOK'
    <3>1. \A f \in File : row'[f] # None => entry'[row'[f]] = "live"
          BY <2>3, <2>5, <2>6 DEF TypeOK
    <3>2. ~open' => \A x \in Entry : entry'[x] # "live"
          BY <1>1, <2>3, <2>6 DEF TypeOK
    <3>3. QED
          BY <1>1, <2>2, <2>3, <2>4, <2>5, <2>6, <3>1, <3>2 DEF TypeOK
  <2>8. Referenced' = Referenced \cup req[r].saved
        BY <2>3, <2>5, PhotosAssumption DEF Referenced
  <2>9. /\ \A s \in Request : req'[s].saved \subseteq req[s].saved
        /\ \A s \in Request : req'[s].names \subseteq req[s].names
        /\ req'[r].saved = {} /\ req'[r].pc = "idle"
        /\ \A s \in Request : req'[s].saved \cap req[r].saved = {}
        BY <2>4, IdleFields DEF Inv, UploadsAreApart
  <2>10. EveryRowHasItsFile'
        BY <1>1, <2>8 DEF Inv, EveryRowHasItsFile, UploadsAreStored
  <2>11. UploadsAreStored'
        BY <1>1, <2>8, <2>9 DEF Inv, UploadsAreStored
  <2>12. UploadsAreApart'
        BY <2>9 DEF Inv, UploadsAreApart
  <2>13. ListsAreOld'
        BY <1>1, <2>9 DEF Inv, ListsAreOld
  <2>14. SweptAreUnreferenced'
    <3>1. \A s \in Request : req[s].names \cap req[r].saved = {}
          BY DEF Inv, ListsAreOld
    <3>2. QED
          BY <2>4, <2>8, <2>9, <3>1 DEF Inv, SweptAreUnreferenced
  <2>15. ListsAreOfDoomed'
    <3>1. \A s \in Request : \A f \in req[s].names : f \in File /\ row'[f] = row[f]
          BY <2>3, <2>5 DEF Inv, ListsAreOld, TypeOK, RequestState
    <3>2. QED
          BY <2>4, <3>1, IdleFields DEF Inv, ListsAreOfDoomed
  <2>16. HoldersKeepOpen'
        BY <1>1, <2>4, <2>9 DEF Inv, HoldersKeepOpen, HoldsWorkspace
  <2>17. QED
        BY <2>7, <2>10, <2>11, <2>12, <2>13, <2>14, <2>15, <2>16 DEF Inv
<1>4. QED
      BY <1>2, <1>3

\* The effect of a deletion that commits: the doomed entries and every row of
\* theirs are gone, and so is nothing else.
LEMMA DeleteEffect ==
    ASSUME Inv, NEW r \in Request, DeleteCommit(r), ~LeftBehind(r)
    PROVE  /\ entry' \in [Entry -> {"new", "live", "gone"}]
           /\ \A e \in Entry : entry'[e] = IF e \in req[r].doomed THEN "gone" ELSE entry[e]
           /\ row' \in [File -> Entry \cup {None}]
           /\ \A f \in File : row'[f] = IF row[f] \in req[r].doomed THEN None ELSE row[f]
           /\ \A f \in req[r].names : row'[f] = None
<1>1. /\ TypeOK
      /\ req[r].names \subseteq File /\ req[r].doomed \subseteq Entry
      BY DEF Inv, TypeOK, RequestState
<1>2. /\ entry' = [e \in Entry |-> IF e \in req[r].doomed THEN "gone" ELSE entry[e]]
      /\ row' = [f \in File |-> IF f \in req[r].names THEN None ELSE row[f]]
      BY DEF DeleteCommit
<1>3. \A f \in File : row[f] \in req[r].doomed => f \in req[r].names
      BY <1>1, PhotosAssumption DEF LeftBehind, Referenced
<1>4. \A f \in req[r].names : row[f] \in req[r].doomed \/ row[f] = None
      BY DEF Inv, ListsAreOfDoomed
<1>5. \A f \in File : row'[f] = IF row[f] \in req[r].doomed THEN None ELSE row[f]
      BY <1>2, <1>3, <1>4
<1>6. QED
      BY <1>1, <1>2, <1>5 DEF TypeOK

\* A deletion commits, or fails on a row it has not listed.
LEMMA DeleteCommitInv ==
    ASSUME Inv, NEW r \in Request, DeleteCommit(r) PROVE Inv'
<1>1. UNCHANGED <<files, named, trouble>> /\ req[r].pc = "collect"
      BY DEF DeleteCommit
<1>2. CASE LeftBehind(r)
  <2>1. Finish(r) /\ UNCHANGED <<open, entry, row>>
        BY <1>2 DEF DeleteCommit, Database
  <2>2. trouble' \in {"none", "rejected", "failed"}
        BY <1>1 DEF Inv, TypeOK
  <2>3. QED
        BY <1>1, <2>1, <2>2, FinishInv
<1>3. CASE ~LeftBehind(r)
  <2> DEFINE q == [req[r] EXCEPT !.pc = "sweep"]
  <2>1. req' = [req EXCEPT ![r] = q]
        BY <1>3 DEF DeleteCommit
  <2>2. TypeOK /\ req[r] \in RequestState
        BY DEF Inv, TypeOK
  <2>3. /\ q \in RequestState
        /\ q.saved = req[r].saved /\ q.names = req[r].names /\ q.pc = "sweep"
        /\ q.todo = req[r].todo /\ q.doomed = req[r].doomed
        BY <2>2 DEF RequestState, Pc
  <2> HIDE DEF q
  <2>4. /\ req' \in [Request -> RequestState]
        /\ req'[r] = q
        /\ \A s \in Request \ {r} : req'[s] = req[s]
        BY <2>1, <2>2, <2>3, OneMoves
  <2>5. /\ entry' \in [Entry -> {"new", "live", "gone"}]
        /\ \A e \in Entry : entry'[e] = IF e \in req[r].doomed THEN "gone" ELSE entry[e]
        /\ row' \in [File -> Entry \cup {None}]
        /\ \A f \in File : row'[f] = IF row[f] \in req[r].doomed THEN None ELSE row[f]
        /\ \A f \in req[r].names : row'[f] = None
        BY <1>3, DeleteEffect
  <2>6. /\ open' = (open /\ req[r].e # None)
        /\ req[r].e = None => \A s \in Request : ~HoldsWorkspace(s)
        BY <1>3 DEF DeleteCommit
  <2>7. req[r].e = None => Live \subseteq req[r].doomed
        BY <1>3 DEF LeftBehind
  <2>8. TypeOK'
    <3>1. \A f \in File : row'[f] # None => entry'[row'[f]] = "live"
          BY <2>2, <2>5 DEF TypeOK
    <3>2. ~open' => \A e \in Entry : entry'[e] # "live"
          BY <2>2, <2>5, <2>6, <2>7 DEF TypeOK, Live
    <3>3. open' \in BOOLEAN
          BY <2>6
    <3>4. QED
          BY <1>1, <2>2, <2>4, <2>5, <3>1, <3>2, <3>3 DEF TypeOK
  <2>9. Referenced' \subseteq Referenced
        BY <2>5 DEF Referenced
  <2>10. \A s \in Request : /\ req'[s].saved = req[s].saved
                            /\ req'[s].names = req[s].names
                            /\ req'[s].todo = req[s].todo
                            /\ req'[s].doomed = req[s].doomed
        BY <2>3, <2>4
  <2>11. EveryRowHasItsFile'
        BY <1>1, <2>9 DEF Inv, EveryRowHasItsFile
  <2>12. UploadsAreStored'
        BY <1>1, <2>9, <2>10 DEF Inv, UploadsAreStored
  <2>13. UploadsAreApart'
        BY <2>10 DEF Inv, UploadsAreApart
  <2>14. ListsAreOld'
        BY <1>1, <2>10 DEF Inv, ListsAreOld
  <2>15. SweptAreUnreferenced'
    <3>1. req[r].names \cap Referenced' = {}
          BY <2>5 DEF Referenced
    <3>2. QED
          BY <2>4, <2>9, <2>10, <3>1 DEF Inv, SweptAreUnreferenced
  <2>16. ListsAreOfDoomed'
    <3>1. \A s \in Request : \A f \in req[s].names :
             row'[f] = None \/ row'[f] = row[f]
          BY <2>2, <2>5 DEF TypeOK, RequestState
    <3>2. \A s \in Request : req'[s].pc = "load" => req[s].pc = "load"
          BY <2>3, <2>4
    <3>3. QED
          BY <2>10, <3>1, <3>2 DEF Inv, ListsAreOfDoomed
  <2>17. HoldersKeepOpen'
        BY <2>3, <2>4, <2>6 DEF Inv, HoldersKeepOpen, HoldsWorkspace
  <2>18. QED
        BY <2>8, <2>11, <2>12, <2>13, <2>14, <2>15, <2>16, <2>17 DEF Inv
<1>4. QED
      BY <1>2, <1>3

\* The steps that only end a request.
LEMMA EndInv ==
    ASSUME Inv, NEW r \in Request, Abort(r) \/ RejectImage(r) \/ Swept(r)
    PROVE  Inv'
<1>1. CASE Abort(r)
      BY <1>1, TroubleType, FinishInv DEF Abort, Database, Inv
<1>2. CASE RejectImage(r)
      BY <1>2, TroubleType, FinishInv DEF RejectImage, Database, Inv
<1>3. CASE Swept(r)
  <2>1. trouble' \in {"none", "rejected", "failed"}
        BY <1>3 DEF Swept, Inv, TypeOK
  <2>2. QED
        BY <1>3, <2>1, FinishInv DEF Swept, Database
<1>4. QED
      BY <1>1, <1>2, <1>3

\* Every step preserves the invariant.
LEMMA NextInv == Inv /\ [Next]_vars => Inv'
<1> SUFFICES ASSUME Inv, [Next]_vars PROVE Inv'
    OBVIOUS
<1>1. ASSUME NEW r \in Request, Step(r) PROVE Inv'
      BY <1>1, ReceiveInv, EndInv, FlushInv, SaveImageInv, UploadCommitInv, LoadInv,
         CollectInv, DeleteCommitInv, SweepFileInv, SweepFailsInv
      DEF Step
<1>2. CASE UNCHANGED vars
      BY <1>2
      DEF vars, Inv, TypeOK, EveryRowHasItsFile, UploadsAreStored, UploadsAreApart,
          ListsAreOld, SweptAreUnreferenced, ListsAreOfDoomed, HoldersKeepOpen,
          HoldsWorkspace, Referenced
<1>3. QED
      BY <1>1, <1>2 DEF Next

\* The inductive invariant: uploads in flight and deletions in flight never
\* have a stored object in common, and a committed deletion's objects are in
\* no row.
THEOREM InvHolds == Spec => []Inv
<1>1. Init => Inv
      BY InitInv
<1>2. Inv /\ [Next]_vars => Inv'
      BY NextInv
<1>3. QED
      BY <1>1, <1>2, PTL DEF Spec

\* Every variable keeps its type, no row names an entry that is not live, and
\* no entry is live in a workspace that is gone.
THEOREM TypeCorrect == Spec => []TypeOK
<1>1. Inv => TypeOK
      BY DEF Inv
<1>2. QED
      BY <1>1, InvHolds, PTL

\* Whatever uploads and deletions overlap, fail or crash, the photo that a row
\* names is in storage (get_entry_image).
THEOREM NoPhotoIsMissing == Spec => []EveryRowHasItsFile
<1>1. Inv => EveryRowHasItsFile
      BY DEF Inv
<1>2. QED
      BY <1>1, InvHolds, PTL

-----------------------------------------------------------------------------
(* The journal implements an Album.                                        *)

\* As every row has its object, what can be loaded is what the rows say.
LEMMA Readable ==
    ASSUME EveryRowHasItsFile
    PROVE  readable = [e \in Entry |-> PhotosOf(e)]
<1>1. \A e \in Entry : PhotosOf(e) \cap files = PhotosOf(e)
      BY PhotosAssumption DEF EveryRowHasItsFile, Referenced, PhotosOf
<1>2. QED
      BY <1>1 DEF readable

\* The same after a step.
LEMMA ReadableNext ==
    ASSUME EveryRowHasItsFile'
    PROVE  readable' = [e \in Entry |-> PhotosOf(e)']
<1>1. \A e \in Entry : PhotosOf(e)' \cap files' = PhotosOf(e)'
      BY PhotosAssumption DEF EveryRowHasItsFile, Referenced, PhotosOf
<1>2. QED
      BY <1>1 DEF readable

\* An empty journal is an empty Album.
LEMMA AlbumInit == Init => A!Init
<1> SUFFICES ASSUME Init PROVE A!Init
    OBVIOUS
<1>1. Live = {}
      BY DEF Init, Live
<1>2. \A e \in Entry : PhotosOf(e) = {}
      BY PhotosAssumption DEF Init, PhotosOf
<1>3. readable = [e \in Entry |-> {}]
      BY <1>2 DEF readable
<1>4. QED
      BY <1>1, <1>3 DEF A!Init

\* A step that leaves the entries and the rows alone is not seen by readers.
LEMMA Unseen ==
    ASSUME Inv, Inv', UNCHANGED <<entry, row>>
    PROVE  UNCHANGED <<Live, readable>>
<1>1. Live' = Live
      BY DEF Live
<1>2. \A e \in Entry : PhotosOf(e)' = PhotosOf(e)
      BY DEF PhotosOf
<1>3. /\ readable = [e \in Entry |-> PhotosOf(e)]
      /\ readable' = [e \in Entry |-> PhotosOf(e)']
      BY Readable, ReadableNext DEF Inv
<1>4. QED
      BY <1>1, <1>2, <1>3

\* An upload shows all its photos in one step, and none was seen before.
LEMMA UploadShows ==
    ASSUME Inv, Inv', NEW r \in Request, UploadCommit(r)
    PROVE  A!Next \/ UNCHANGED <<Live, readable>>
<1> DEFINE S == req[r].saved
<1>1. CASE ~UploadAccepted(r)
      BY <1>1, Unseen DEF UploadCommit
<1>2. CASE UploadAccepted(r)
  <2>1. PICK e \in Entry :
              /\ row' = [f \in File |-> IF f \in S THEN e ELSE row[f]]
              /\ \/ e \in Live /\ entry' = entry
                 \/ S = {} /\ entry' = entry
                 \/ /\ entry[e] = "new" /\ open
                    /\ entry' = [entry EXCEPT ![e] = "live"]
        BY <1>2, UploadEffect
  <2>2. TypeOK /\ S \subseteq File /\ \A f \in S : row[f] = None
        BY DEF Inv, TypeOK, RequestState, UploadsAreStored, Referenced
  <2>3. /\ readable = [x \in Entry |-> PhotosOf(x)]
        /\ readable' = [x \in Entry |-> PhotosOf(x)']
        BY Readable, ReadableNext DEF Inv
  <2>4. \A x \in Entry : PhotosOf(x)' = IF x = e THEN PhotosOf(e) \cup S ELSE PhotosOf(x)
        BY <2>1, <2>2, PhotosAssumption DEF PhotosOf
  <2>5. \A x \in Entry : PhotosOf(x) \cap S = {}
        BY <2>2, PhotosAssumption DEF PhotosOf
  <2>6. A!Unseen(S)
        BY <2>3, <2>5 DEF A!Unseen
  <2>7. readable' = [readable EXCEPT ![e] = PhotosOf(e) \cup S]
        BY <2>3, <2>4
  <2>8. CASE e \in Live /\ entry' = entry
    <3>1. Live' = Live
          BY <2>8 DEF Live
    <3>2. readable[e] = PhotosOf(e)
          BY <2>3
    <3>3. A!AddPhotos(e, S)
          BY <2>6, <2>7, <2>8, <3>1, <3>2 DEF A!AddPhotos
    <3>4. QED
          BY <2>2, <3>3 DEF A!Next
  <2>9. CASE S = {} /\ entry' = entry
    <3>1. row' = row
          BY <2>1, <2>2, <2>9 DEF TypeOK
    <3>2. QED
          BY <2>9, <3>1, Unseen
  <2>10. CASE entry[e] = "new" /\ entry' = [entry EXCEPT ![e] = "live"]
    <3>1. e \notin Live /\ Live' = Live \cup {e}
          BY <2>2, <2>10 DEF Live, TypeOK
    <3>2. PhotosOf(e) = {}
          BY <2>2, <2>10, PhotosAssumption DEF PhotosOf, TypeOK
    <3>3. A!CreateEntry(e, S)
          BY <2>6, <2>7, <3>1, <3>2 DEF A!CreateEntry
    <3>4. QED
          BY <2>2, <3>3 DEF A!Next
  <2>11. QED
        BY <2>1, <2>8, <2>9, <2>10
<1>3. QED
      BY <1>1, <1>2

\* A deletion takes whole entries, photos and all.
LEMMA DeletionHides ==
    ASSUME Inv, Inv', NEW r \in Request, DeleteCommit(r)
    PROVE  A!Next \/ UNCHANGED <<Live, readable>>
<1> DEFINE D == req[r].doomed
           es == D \cap Live
<1>1. CASE LeftBehind(r)
      BY <1>1, Unseen DEF DeleteCommit, Database
<1>2. CASE ~LeftBehind(r)
  <2>1. /\ \A e \in Entry : entry'[e] = IF e \in D THEN "gone" ELSE entry[e]
        /\ \A f \in File : row'[f] = IF row[f] \in D THEN None ELSE row[f]
        BY <1>2, DeleteEffect
  <2>2. TypeOK
        BY DEF Inv
  <2>3. /\ readable = [x \in Entry |-> PhotosOf(x)]
        /\ readable' = [x \in Entry |-> PhotosOf(x)']
        BY Readable, ReadableNext DEF Inv
  <2>4. Live' = Live \ es
        BY <2>1 DEF Live
  <2>5. \A x \in Entry : PhotosOf(x)' = IF x \in D THEN {} ELSE PhotosOf(x)
        BY <2>1, PhotosAssumption DEF PhotosOf
  <2>6. \A x \in Entry : x \notin Live => PhotosOf(x) = {}
        BY <2>2, PhotosAssumption DEF PhotosOf, Live, TypeOK
  <2>7. readable' = [x \in Entry |-> IF x \in es THEN {} ELSE readable[x]]
        BY <2>3, <2>5, <2>6
  <2>8. A!DeleteEntries(es)
        BY <2>4, <2>7 DEF A!DeleteEntries
  <2>9. QED
        BY <2>8 DEF A!Next
<1>3. QED
      BY <1>1, <1>2

\* Every step is a step of Album, or its readers do not see it.
LEMMA AlbumNext ==
    ASSUME Inv, Inv', [Next]_vars
    PROVE  [A!Next]_(A!vars)
<1>1. ASSUME NEW r \in Request, Step(r), ~UploadCommit(r), ~DeleteCommit(r)
      PROVE  UNCHANGED <<entry, row>>
      BY <1>1
      DEF Step, Receive, Abort, Flush, SaveImage, RejectImage, Load, Collect, SweepFile,
          SweepFails, Swept, Database
<1>2. ASSUME NEW r \in Request, Step(r)
      PROVE  A!Next \/ UNCHANGED <<Live, readable>>
      BY <1>1, <1>2, Unseen, UploadShows, DeletionHides
<1>3. ASSUME UNCHANGED vars
      PROVE  UNCHANGED <<Live, readable>>
      BY <1>3, Unseen DEF vars
<1>4. A!Next \/ UNCHANGED <<Live, readable>>
      BY <1>2, <1>3 DEF Next
<1>5. QED
      BY <1>4 DEF A!vars

\* Photos implements Album: to its readers, an entry's photos appear together,
\* stay while the entry is there and go with it.
THEOREM ImplementsAlbum == Spec => AlbumSpec
<1>1. Init => A!Init
      BY AlbumInit
<1>2. Inv /\ Inv' /\ [Next]_vars => [A!Next]_(A!vars)
      BY AlbumNext
<1>3. QED
      BY <1>1, <1>2, InvHolds, PTL DEF Spec, AlbumSpec, A!Spec

-----------------------------------------------------------------------------
(* Leaks.                                                                  *)

\* When a step adds no object, what a request owes it owes still, or the step
\* was its own: then the step is to see to it.
LEMMA OthersOwe ==
    ASSUME TypeOK, LooseAreOwed, NEW r \in Request, NEW q \in RequestState,
           req' = [req EXCEPT ![r] = q],
           trouble' = "none" => trouble = "none",
           \A f \in files' \ Referenced' :
              f \in files \ Referenced \/ Owes(r, f)' \/ trouble' # "none",
           \A f \in files' \ Referenced' :
              Owes(r, f) => Owes(r, f)' \/ trouble' # "none"
    PROVE  LooseAreOwed'
<1>1. \A s \in Request : s # r => req'[s] = req[s]
      BY OneMoves
<1>2. SUFFICES ASSUME trouble' = "none", NEW f \in files' \ Referenced'
               PROVE  \E s \in Request : Owes(s, f)'
      BY DEF LooseAreOwed
<1>3. CASE f \in files \ Referenced
  <2>1. PICK s \in Request : Owes(s, f)
        BY <1>2, <1>3 DEF LooseAreOwed
  <2>2. CASE s = r
        BY <1>2, <2>1, <2>2
  <2>3. CASE s # r
    <3>1. Owes(s, f)'
          BY <1>1, <2>1, <2>3 DEF Owes
    <3>2. QED
          BY <3>1
  <2>4. QED
        BY <2>2, <2>3
<1>4. QED
      BY <1>2, <1>3

\* A step that moves no object and no row, of a request that owes nothing or
\* does not forget what it owes.
LEMMA QuietOwes ==
    ASSUME TypeOK, LooseAreOwed, NEW r \in Request, NEW q \in RequestState,
           req' = [req EXCEPT ![r] = q], UNCHANGED <<row, files>>,
           trouble' = "none" => trouble = "none",
           \/ trouble' # "none"
           \/ req[r].pc \notin {"save", "sweep"}
           \/ req[r].pc = "sweep" /\ req[r].names = {}
    PROVE  LooseAreOwed'
<1>1. Referenced' = Referenced
      BY DEF Referenced
<1>2. \A f \in files' \ Referenced' : Owes(r, f) => trouble' # "none"
      BY DEF Owes
<1>3. QED
      BY <1>1, <1>2, OthersOwe

LEMMA QuietStepsOwe ==
    ASSUME Inv, LooseAreOwed, NEW r \in Request,
           \/ Receive(r) \/ Abort(r) \/ Flush(r) \/ RejectImage(r) \/ Load(r)
           \/ Collect(r) \/ SweepFails(r) \/ Swept(r)
    PROVE  LooseAreOwed'
<1>1. TypeOK /\ UNCHANGED <<row, files>>
      BY DEF Inv, Receive, Abort, Flush, RejectImage, Load, Collect, SweepFails, Swept, Database
<1>2. trouble' = "none" => trouble = "none"
      BY DEF Receive, Abort, Flush, RejectImage, Load, Collect, SweepFails, Swept, Trouble
<1>3. \/ trouble' # "none"
      \/ req[r].pc \notin {"save", "sweep"}
      \/ req[r].pc = "sweep" /\ req[r].names = {}
      BY DEF Receive, Abort, Flush, RejectImage, Load, Collect, SweepFails, Swept, Trouble
<1>4. PICK q : req' = [req EXCEPT ![r] = q]
      BY DEF Receive, Abort, Flush, RejectImage, Load, Collect, SweepFails, Swept, Finish
<1>5. Inv'
      BY ReceiveInv, FlushInv, LoadInv, CollectInv, SweepFailsInv, EndInv
<1>6. q \in RequestState
      BY <1>1, <1>4, <1>5 DEF Inv, TypeOK
<1>7. QED
      BY <1>1, <1>2, <1>3, <1>4, <1>6, QuietOwes

\* An object that is stored is owed by its upload.
LEMMA SaveImageOwes ==
    ASSUME Inv, LooseAreOwed, NEW r \in Request, SaveImage(r)
    PROVE  LooseAreOwed'
<1>1. PICK f \in File \ named :
         /\ files' = files \cup {f}
         /\ req' = [req EXCEPT ![r] = [@ EXCEPT !.left = req[r].left - 1,
                                                !.saved = req[r].saved \cup {f}]]
      BY DEF SaveImage
<1>2. TypeOK /\ UNCHANGED <<row, trouble>> /\ req[r].pc = "save" /\ req[r] \in RequestState
      BY DEF Inv, TypeOK, SaveImage, Database
<1>3. PICK q : q = [req[r] EXCEPT !.left = req[r].left - 1, !.saved = req[r].saved \cup {f}]
      OBVIOUS
<1>4. q.pc = "save" /\ q.saved = req[r].saved \cup {f} /\ req' = [req EXCEPT ![r] = q]
      BY <1>1, <1>2, <1>3 DEF RequestState
<1>5. q \in RequestState
      BY <1>4, SaveImageInv DEF Inv, TypeOK
<1>6. Referenced' = Referenced /\ req'[r] = q
      BY <1>2, <1>4, <1>5, OneMoves DEF Referenced
<1>7. \A g \in files' \ Referenced' : g \in files \ Referenced \/ Owes(r, g)'
      BY <1>1, <1>4, <1>6, <1>2 DEF Owes
<1>8. \A g \in files' \ Referenced' : Owes(r, g) => Owes(r, g)'
      BY <1>2, <1>4, <1>6 DEF Owes
<1>9. QED
      BY <1>2, <1>4, <1>5, <1>7, <1>8, OthersOwe

\* An upload commits, and its objects are in its rows.
LEMMA UploadOwes ==
    ASSUME Inv, LooseAreOwed, NEW r \in Request, UploadCommit(r)
    PROVE  LooseAreOwed'
<1>1. /\ req[r].pc = "save" /\ files' = files /\ TypeOK
      /\ Idle \in RequestState /\ req' = [req EXCEPT ![r] = Idle]
      BY IdleType DEF UploadCommit, Finish, Inv
<1>2. CASE ~UploadAccepted(r)
  <2>1. UNCHANGED row /\ trouble' # "none"
        BY <1>2 DEF UploadCommit, Trouble
  <2>2. QED
        BY <1>1, <2>1, QuietOwes
<1>3. CASE UploadAccepted(r)
  <2>1. PICK e \in Entry : row' = [f \in File |-> IF f \in req[r].saved THEN e ELSE row[f]]
        BY <1>3, UploadEffect
  <2>2. trouble' = trouble
        BY <1>3 DEF UploadCommit
  <2>3. \A f \in File : f \in Referenced' <=> f \in Referenced \/ f \in req[r].saved
        BY <2>1, PhotosAssumption DEF Referenced
  <2>4. ASSUME NEW f \in files' \ Referenced'
        PROVE  f \in files \ Referenced /\ ~Owes(r, f)
    <3>1. f \in File
          BY <1>1 DEF TypeOK
    <3>2. QED
          BY <1>1, <2>3, <2>4, <3>1 DEF Owes
  <2>5. QED
        BY <1>1, <2>2, <2>4, OthersOwe
<1>4. QED
      BY <1>2, <1>3

\* A deletion commits, and owes the objects whose rows it has taken.
LEMMA DeletionOwes ==
    ASSUME Inv, LooseAreOwed, NEW r \in Request, DeleteCommit(r)
    PROVE  LooseAreOwed'
<1>1. /\ req[r].pc = "collect" /\ UNCHANGED <<files, trouble>>
      /\ TypeOK /\ req[r] \in RequestState
      BY DEF DeleteCommit, Inv, TypeOK
<1>2. CASE LeftBehind(r)
  <2>1. UNCHANGED row /\ req' = [req EXCEPT ![r] = Idle]
        BY <1>2 DEF DeleteCommit, Database, Finish
  <2>2. QED
        BY <1>1, <2>1, IdleType, QuietOwes
<1>3. CASE ~LeftBehind(r)
  <2>1. /\ row' = [f \in File |-> IF f \in req[r].names THEN None ELSE row[f]]
        /\ req' = [req EXCEPT ![r] = [@ EXCEPT !.pc = "sweep"]]
        BY <1>3 DEF DeleteCommit
  <2>2. PICK q : q = [req[r] EXCEPT !.pc = "sweep"]
        OBVIOUS
  <2>3. /\ q \in RequestState /\ q.pc = "sweep" /\ q.names = req[r].names
        /\ req' = [req EXCEPT ![r] = q]
        BY <1>1, <2>1, <2>2 DEF RequestState, Pc
  <2>4. req'[r] = q
        BY <1>1, <2>3, OneMoves
  <2>5. ASSUME NEW f \in files' \ Referenced'
        PROVE  f \in files \ Referenced \/ Owes(r, f)'
    <3>1. f \in File /\ f \in files
          BY <1>1 DEF TypeOK
    <3>2. CASE f \in req[r].names
          BY <2>3, <2>4, <3>2 DEF Owes
    <3>3. CASE f \notin req[r].names
          BY <2>1, <2>5, <3>1, <3>3 DEF Referenced
    <3>4. QED
          BY <3>2, <3>3
  <2>6. \A f \in files' \ Referenced' : ~Owes(r, f)
        BY <1>1 DEF Owes
  <2>7. QED
        BY <1>1, <2>3, <2>5, <2>6, OthersOwe
<1>4. QED
      BY <1>2, <1>3

\* What is swept is there no more.
LEMMA SweepFileOwes ==
    ASSUME Inv, LooseAreOwed, NEW r \in Request, SweepFile(r)
    PROVE  LooseAreOwed'
<1>1. PICK f \in req[r].names :
         /\ files' = files \ {f}
         /\ req' = [req EXCEPT ![r] = [@ EXCEPT !.names = req[r].names \ {f}]]
      BY DEF SweepFile
<1>2. TypeOK /\ UNCHANGED <<row, trouble>> /\ req[r].pc = "sweep" /\ req[r] \in RequestState
      BY DEF Inv, TypeOK, SweepFile, Database
<1>3. PICK q : q = [req[r] EXCEPT !.names = req[r].names \ {f}]
      OBVIOUS
<1>4. /\ q \in RequestState /\ q.pc = "sweep" /\ q.names = req[r].names \ {f}
      /\ req' = [req EXCEPT ![r] = q]
      BY <1>1, <1>2, <1>3 DEF RequestState
<1>5. Referenced' = Referenced /\ req'[r] = q
      BY <1>2, <1>4, OneMoves DEF Referenced
<1>6. \A g \in files' \ Referenced' : g \in files \ Referenced
      BY <1>1, <1>5
<1>7. \A g \in files' \ Referenced' : Owes(r, g) => Owes(r, g)'
      BY <1>1, <1>2, <1>4, <1>5 DEF Owes
<1>8. QED
      BY <1>2, <1>4, <1>6, <1>7, OthersOwe

\* Without a rejected batch, a failed commit, a failed deletion or a crash,
\* nothing is stored that no row refers to once every request is answered,
\* whatever number of uploads and deletions overlapped.
THEOREM NothingLeaks == Spec => []NoLeakWithoutTrouble
<1>1. Init => LooseAreOwed
      BY DEF Init, LooseAreOwed
<1>2. Inv /\ LooseAreOwed /\ [Next]_vars => LooseAreOwed'
  <2>1. SUFFICES ASSUME Inv, LooseAreOwed, [Next]_vars
                 PROVE  LooseAreOwed'
        OBVIOUS
  <2>2. ASSUME NEW r \in Request, Step(r) PROVE LooseAreOwed'
        BY <2>1, <2>2, QuietStepsOwe, SaveImageOwes, UploadOwes, DeletionOwes, SweepFileOwes
           DEF Step
  <2>3. CASE UNCHANGED vars
        BY <2>1, <2>3 DEF vars, LooseAreOwed, Owes, Referenced
  <2>4. QED
        BY <2>1, <2>2, <2>3 DEF Next
<1>3. Inv /\ LooseAreOwed => NoLeakWithoutTrouble
  <2>1. SUFFICES ASSUME Inv, LooseAreOwed, trouble = "none", \A r \in Request : req[r].pc = "idle"
                 PROVE  files = Referenced
        BY DEF NoLeakWithoutTrouble
  <2>2. files \ Referenced = {}
        BY <2>1 DEF LooseAreOwed, Owes
  <2>3. QED
        BY <2>1, <2>2 DEF Inv, EveryRowHasItsFile
<1>4. QED
      BY <1>1, <1>2, <1>3, InvHolds, PTL DEF Spec

=============================================================================
