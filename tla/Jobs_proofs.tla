----------------------------- MODULE Jobs_proofs ------------------------------
(***************************************************************************)
(* Proofs about the three scripts, each for any number of its processes    *)
(* and any length of time: what the manifest names is in the bucket,       *)
(* recorded backups can be restored, and reminders come once a day.  Each  *)
(* is proved of the script alone, and then of Jobs.                        *)
(***************************************************************************)
EXTENDS Jobs, FiniteSetTheorems, TLAPS

-----------------------------------------------------------------------------
(* Migration.                                                              *)

LEMMA MigrationInit == Uploads!Init => Uploads!Inv
<1>1. SUFFICES ASSUME Uploads!Init PROVE Uploads!Inv
      OBVIOUS
<1>2. /\ local = {} /\ manifest = {} /\ bucket = {}
      /\ photo \in [File -> {"none"}]
      /\ \A i \in Script : script[i] = Uploads!Ended
      /\ script \in [Script -> {Uploads!Ended}]
      BY <1>1 DEF Uploads!Init
<1>3. /\ Uploads!Ended \in Uploads!ScriptState
      /\ Uploads!Ended.mine = {} /\ Uploads!Ended.todo = {}
      BY DEF Uploads!Ended, Uploads!ScriptState
<1>4. photo \in [File -> Uploads!Life]
      BY <1>2 DEF Uploads!Life
<1>5. QED
      BY <1>2, <1>3, <1>4 DEF Uploads!Inv, Uploads!TypeOK, Uploads!NamesDrawn, Uploads!KeptCopied

\* A step of the web application: names are drawn once, and who is in the bucket
\* and still kept stays there.
LEMMA MigrationPhotos ==
    ASSUME Uploads!Inv, photo' \in [File -> Uploads!Life],
           UNCHANGED <<manifest, script>>,
           \A g \in File : photo[g] # "none" => photo'[g] # "none",
           local' \subseteq Uploads!Drawn',
           \A g \in File : /\ photo'[g] \in {"saved", "shown"}
                           /\ photo[g] # "none"
                           => /\ photo[g] \in {"saved", "shown"}
                              /\ g \in bucket => g \in bucket'
    PROVE  Uploads!Inv'
<1>1. Uploads!TypeOK'
      BY DEF Uploads!Inv, Uploads!TypeOK
<1>2. Uploads!Drawn \subseteq Uploads!Drawn'
      BY DEF Uploads!Drawn
<1>3. Uploads!NamesDrawn'
      BY <1>2 DEF Uploads!Inv, Uploads!NamesDrawn
<1>4. ASSUME NEW g \in Uploads!Kept', g \in Uploads!Drawn
      PROVE  g \in Uploads!Kept /\ (g \in bucket => g \in bucket')
      BY <1>4 DEF Uploads!Kept, Uploads!Drawn
<1>5. Uploads!KeptCopied'
      BY <1>4 DEF Uploads!Inv, Uploads!NamesDrawn, Uploads!KeptCopied
<1>6. QED
      BY <1>1, <1>3, <1>5 DEF Uploads!Inv

\* One photo goes on in its life.
LEMMA MigrationTurns ==
    ASSUME Uploads!Inv, NEW f \in File, NEW from \in Uploads!Life,
           NEW to \in Uploads!Life \ {"none"},
           Uploads!Turns(f, from, to), UNCHANGED <<manifest, script>>,
           local' \subseteq local \cup {f},
           bucket \ {f} \subseteq bucket',
           to \in {"saved", "shown"} => from \in {"none", "saved"} /\ bucket \subseteq bucket'
    PROVE  Uploads!Inv'
<1>1. /\ photo \in [File -> Uploads!Life] /\ photo[f] = from
      /\ photo' = [photo EXCEPT ![f] = to]
      BY DEF Uploads!Inv, Uploads!TypeOK, Uploads!Turns
<1>2. /\ photo' \in [File -> Uploads!Life] /\ photo'[f] = to
      /\ \A g \in File : g # f => photo'[g] = photo[g]
      BY <1>1
<1>3. \A g \in File : photo[g] # "none" => photo'[g] # "none"
      BY <1>2
<1>4. local' \subseteq Uploads!Drawn'
  <2>1. local \subseteq Uploads!Drawn
        BY DEF Uploads!Inv, Uploads!NamesDrawn
  <2>2. QED
        BY <1>2, <1>3, <2>1 DEF Uploads!Drawn
<1>5. ASSUME NEW g \in File, photo'[g] \in {"saved", "shown"}, photo[g] # "none"
      PROVE  photo[g] \in {"saved", "shown"} /\ (g \in bucket => g \in bucket')
  <2>1. CASE g = f
        BY <1>1, <1>2, <1>5, <2>1
  <2>2. CASE g # f
        BY <1>2, <1>5, <2>2
  <2>3. QED
        BY <2>1, <2>2
<1>6. QED
      BY <1>2, <1>3, <1>4, <1>5, MigrationPhotos

LEMMA MigrationApplication ==
    ASSUME Uploads!Inv,
           \/ Uploads!Switch
           \/ \E f \in File : \/ Uploads!Save(f) \/ Uploads!RowCommit(f)
                             \/ Uploads!RowDeleted(f) \/ Uploads!Delete(f)
                             \/ Uploads!LeftBehind(f)
    PROVE  Uploads!Inv'
<1>1. CASE Uploads!Switch
  <2>1. /\ photo \in [File -> Uploads!Life] /\ local \subseteq Uploads!Drawn
        BY DEF Uploads!Inv, Uploads!TypeOK, Uploads!NamesDrawn
  <2>2. /\ photo' = [f \in File |-> IF photo[f] \in {"saved", "going"} THEN "gone" ELSE photo[f]]
        /\ UNCHANGED <<local, bucket, manifest, script>>
        BY <1>1 DEF Uploads!Switch
  <2>3. /\ photo' \in [File -> Uploads!Life]
        /\ \A g \in File : photo'[g] = IF photo[g] \in {"saved", "going"} THEN "gone" ELSE photo[g]
        BY <2>1, <2>2 DEF Uploads!Life
  <2>4. /\ \A g \in File : photo[g] # "none" => photo'[g] # "none"
        /\ \A g \in File : photo'[g] \in {"saved", "shown"} => photo[g] \in {"saved", "shown"}
        BY <2>3
  <2>5. local' \subseteq Uploads!Drawn'
        BY <2>1, <2>2, <2>4 DEF Uploads!Drawn
  <2>6. QED
        BY <2>2, <2>3, <2>4, <2>5, MigrationPhotos
<1>2. ASSUME NEW f \in File,
             \/ Uploads!Save(f) \/ Uploads!RowCommit(f) \/ Uploads!RowDeleted(f)
             \/ Uploads!Delete(f) \/ Uploads!LeftBehind(f)
      PROVE  Uploads!Inv'
  <2>1. \A life \in {"none", "saved", "shown", "going", "gone"} : life \in Uploads!Life
        BY DEF Uploads!Life
  <2>2. CASE Uploads!Save(f)
        BY <2>1, <2>2, MigrationTurns DEF Uploads!Save
  <2>3. CASE Uploads!RowCommit(f)
        BY <2>1, <2>3, MigrationTurns DEF Uploads!RowCommit
  <2>4. CASE Uploads!RowDeleted(f)
        BY <2>1, <2>4, MigrationTurns DEF Uploads!RowDeleted
  <2>5. CASE Uploads!Delete(f)
        BY <2>1, <2>5, MigrationTurns DEF Uploads!Delete
  <2>6. CASE Uploads!LeftBehind(f)
        BY <2>1, <2>6, MigrationTurns DEF Uploads!LeftBehind
  <2>7. QED
        BY <1>2, <2>2, <2>3, <2>4, <2>5, <2>6
<1>3. QED
      BY <1>1, <1>2

\* Steps of a script, which leave the photos alone: what it takes up has been
\* drawn, and what it adds to its manifest it has put into the bucket.
LEMMA MigrationScript ==
    ASSUME Uploads!Inv, NEW i \in Script, NEW q \in Uploads!ScriptState,
           script' = [script EXCEPT ![i] = q],
           UNCHANGED <<local, photo, switched>>,
           bucket \subseteq bucket',
           q.mine \cup q.todo \cup manifest' \subseteq Uploads!Drawn,
           (q.mine \cup manifest') \cap Uploads!Kept \subseteq bucket'
    PROVE  Uploads!Inv'
<1>1. script \in [Script -> Uploads!ScriptState]
      BY DEF Uploads!Inv, Uploads!TypeOK
<1>2. /\ script' \in [Script -> Uploads!ScriptState]
      /\ script'[i] = q
      /\ \A o \in Script : o # i => script'[o] = script[o]
      BY <1>1
<1>3. Uploads!TypeOK'
      BY <1>2 DEF Uploads!Inv, Uploads!TypeOK
<1>4. Uploads!Drawn' = Uploads!Drawn /\ Uploads!Kept' = Uploads!Kept
      BY DEF Uploads!Drawn, Uploads!Kept
<1>5. Uploads!NamesDrawn'
      BY <1>2, <1>4 DEF Uploads!Inv, Uploads!NamesDrawn
<1>6. Uploads!KeptCopied'
      BY <1>2, <1>4 DEF Uploads!Inv, Uploads!KeptCopied
<1>7. QED
      BY <1>3, <1>5, <1>6 DEF Uploads!Inv

LEMMA MigrationNext == Uploads!Inv /\ [Uploads!Next]_migration => Uploads!Inv'
<1>1. SUFFICES ASSUME Uploads!Inv, [Uploads!Next]_migration PROVE Uploads!Inv'
      OBVIOUS
<1>2. CASE \/ Uploads!Switch
           \/ \E f \in File : \/ Uploads!Save(f) \/ Uploads!RowCommit(f)
                             \/ Uploads!RowDeleted(f) \/ Uploads!Delete(f)
                             \/ Uploads!LeftBehind(f)
      BY <1>1, <1>2, MigrationApplication
<1>3. ASSUME NEW i \in Script,
             \/ Uploads!LoadManifest(i) \/ Uploads!ListFiles(i) \/ Uploads!Put(i)
             \/ Uploads!GiveUp(i) \/ Uploads!SaveManifest(i)
      PROVE  Uploads!Inv'
  <2>1. /\ script[i] \in Uploads!ScriptState
        /\ script[i].mine \in SUBSET File /\ script[i].todo \in SUBSET File
        BY <1>1 DEF Uploads!Inv, Uploads!TypeOK, Uploads!ScriptState
  <2>2. /\ local \cup manifest \subseteq Uploads!Drawn /\ Uploads!Drawn \subseteq File
        /\ script[i].mine \cup script[i].todo \subseteq Uploads!Drawn
        /\ manifest \cap Uploads!Kept \subseteq bucket
        /\ script[i].mine \cap Uploads!Kept \subseteq bucket
        BY <1>1 DEF Uploads!Inv, Uploads!Drawn, Uploads!NamesDrawn, Uploads!KeptCopied
  <2>3. /\ Uploads!Ended \in Uploads!ScriptState
        /\ Uploads!Ended.mine = {} /\ Uploads!Ended.todo = {}
        BY DEF Uploads!Ended, Uploads!ScriptState
  <2>4. ASSUME script' = [script EXCEPT ![i] = Uploads!Ended],
               UNCHANGED <<local, bucket, photo, switched>>,
               manifest' \in {manifest, script[i].mine, {}}
        PROVE  Uploads!Inv'
        BY <1>1, <2>2, <2>3, <2>4, MigrationScript
  <2>5. CASE Uploads!LoadManifest(i)
    <3>1. PICK q : q = [pc |-> "list", mine |-> manifest, todo |-> {}]
          OBVIOUS
    <3>2. /\ script' = [script EXCEPT ![i] = q]
          /\ UNCHANGED <<local, photo, switched>>
          /\ bucket' = bucket /\ manifest' = manifest
          BY <2>5, <3>1 DEF Uploads!LoadManifest
    <3>3. q \in Uploads!ScriptState /\ q.mine = manifest /\ q.todo = {}
          BY <2>1, <2>2, <3>1 DEF Uploads!ScriptState
    <3>4. QED
          BY <1>1, <2>2, <3>2, <3>3, MigrationScript
  <2>6. CASE Uploads!ListFiles(i)
    <3>1. /\ UNCHANGED <<local, photo, switched>>
          /\ bucket' = bucket /\ manifest' = manifest
          BY <2>6 DEF Uploads!ListFiles
    <3>2. CASE script' = [script EXCEPT ![i] = Uploads!Ended]
          BY <2>4, <3>1, <3>2
    <3>3. CASE script' = [script EXCEPT ![i] = [@ EXCEPT !.pc = "put",
                                                         !.todo = local \ script[i].mine]]
      <4>1. PICK q : q = [script[i] EXCEPT !.pc = "put", !.todo = local \ script[i].mine]
            OBVIOUS
      <4>2. q \in Uploads!ScriptState
            BY <2>1, <2>2, <4>1 DEF Uploads!ScriptState
      <4>3. q.mine = script[i].mine /\ q.todo = local \ script[i].mine
            BY <2>1, <4>1 DEF Uploads!ScriptState
      <4>4. script' = [script EXCEPT ![i] = q]
            BY <1>1, <3>3, <4>1 DEF Uploads!Inv, Uploads!TypeOK
      <4>5. QED
            BY <1>1, <2>2, <3>1, <4>2, <4>3, <4>4, MigrationScript
    <3>4. QED
          BY <2>6, <3>2, <3>3 DEF Uploads!ListFiles
  <2>7. CASE Uploads!Put(i)
    <3>1. PICK f \in script[i].todo \cap local :
                 /\ bucket' = bucket \cup {f}
                 /\ script' = [script EXCEPT ![i].mine = @ \cup {f}, ![i].todo = @ \ {f}]
          BY <2>7 DEF Uploads!Put
    <3>2. PICK q : q = [ pc |-> script[i].pc, mine |-> script[i].mine \cup {f},
                         todo |-> script[i].todo \ {f} ]
          OBVIOUS
    <3>3. /\ q \in Uploads!ScriptState
          /\ q.mine = script[i].mine \cup {f} /\ q.todo = script[i].todo \ {f}
          BY <2>1, <3>2 DEF Uploads!ScriptState
    <3>4. script' = [script EXCEPT ![i] = q]
          BY <1>1, <2>1, <3>1, <3>2
             DEF Uploads!Inv, Uploads!TypeOK, Uploads!ScriptState
    <3>5. UNCHANGED <<local, photo, switched>> /\ manifest' = manifest
          BY <2>7 DEF Uploads!Put
    <3>6. QED
          BY <1>1, <2>2, <3>1, <3>3, <3>4, <3>5, MigrationScript
  <2>8. CASE Uploads!GiveUp(i)
        BY <2>4, <2>8 DEF Uploads!GiveUp
  <2>9. CASE Uploads!SaveManifest(i)
        BY <2>4, <2>9 DEF Uploads!SaveManifest
  <2>10. QED
         BY <1>3, <2>5, <2>6, <2>7, <2>8, <2>9
<1>4. CASE UNCHANGED migration
  <2>1. Uploads!Drawn' = Uploads!Drawn /\ Uploads!Kept' = Uploads!Kept
        BY <1>4 DEF migration, Uploads!Drawn, Uploads!Kept
  <2>2. QED
        BY <1>1, <1>4, <2>1 DEF migration, Uploads!Inv, Uploads!TypeOK, Uploads!NamesDrawn,
                                Uploads!KeptCopied
<1>5. QED
      BY <1>1, <1>2, <1>3, <1>4 DEF Uploads!Next

-----------------------------------------------------------------------------
(* Backup.                                                                 *)

LEMMA BackupInit == Backups!Init => Backups!Inv
<1>1. SUFFICES ASSUME Backups!Init PROVE Backups!Inv
      OBVIOUS
<1>2. /\ now = 0 /\ remote \in BOOLEAN /\ recorded = {}
      /\ store \in [Backups!Time -> {"none"}]
      /\ job \in [Run -> {Backups!NoJob}]
      BY <1>1 DEF Backups!Init
<1>3. 0 \in Backups!Time
      BY JobsAssumption DEF Backups!Time
<1>4. /\ Backups!NoJob \in Backups!Job
      /\ Backups!NoJob.pc = "idle" /\ Backups!NoJob.old = {} /\ Backups!NoJob.ok = FALSE
      BY <1>3 DEF Backups!NoJob, Backups!Job
<1>5. \A r \in Run : job[r] = Backups!NoJob
      BY <1>2
<1>6. Backups!TypeOK
      BY <1>2, <1>3, <1>4 DEF Backups!TypeOK
<1>7. Backups!SharedNames
      BY <1>2, <1>4, <1>5 DEF Backups!SharedNames, Backups!Busy
<1>8. /\ \A s \in Backups!Time : store[s] # "partial"
      /\ \A s \in recorded : Backups!Kept(s)
      /\ \A r \in Run : ~job[r].ok /\ job[r].pc = "idle" /\ job[r].old = {}
      BY <1>2, <1>4, <1>5
<1>9. QED
      BY <1>6, <1>7, <1>8 DEF Backups!Inv, Backups!Busy

\* What a name a run has taken stands for.
LEMMA BackupFacts ==
    ASSUME Backups!Inv
    PROVE  /\ now \in Nat /\ remote \in BOOLEAN
           /\ \A s \in Backups!Time : s \in Nat
           /\ \A r \in Run : /\ job[r] \in Backups!Job
                             /\ job[r].stamp \in Backups!Time
                             /\ job[r].old \in SUBSET Backups!Time
                             /\ job[r].ok \in BOOLEAN
BY JobsAssumption DEF Backups!Inv, Backups!TypeOK, Backups!Time, Backups!Job

\* A step of a run at work.  It keeps its name, or ends; it records only what
\* is kept; and it takes nothing from a backup whose retention is not over,
\* but may take from its own if that is a local file.
LEMMA BackupWork ==
    ASSUME Backups!Inv, NEW r \in Run, job[r].pc # "idle",
           NEW stamp, stamp = job[r].stamp, NEW q \in Backups!Job,
           job' = [job EXCEPT ![r] = q],
           UNCHANGED <<now, remote, started, twice>>,
           q.pc # "idle" => q.stamp = stamp /\ recorded' = recorded,
           recorded' = recorded \/ recorded' = recorded \cup {stamp},
           recorded' # recorded => Backups!Kept(stamp)',
           store' \in [Backups!Time -> {"none", "partial", "whole"}],
           remote => \A s \in Backups!Time : store'[s] # "partial",
           \A s \in Backups!Time :
              now < s + Retention /\ store[s] = "whole" =>
                 store'[s] = "whole" \/ (~remote /\ s = stamp),
           q.ok => q.pc = "record",
           q.pc \in {"sweep", "delete"} \/ q.ok => Backups!Kept(stamp)',
           \A s \in q.old : s + Retention <= now
    PROVE  Backups!Inv'
<1>1. /\ job \in [Run -> Backups!Job]
      /\ recorded \subseteq Backups!Time /\ now \in Backups!Time /\ remote \in BOOLEAN
      BY DEF Backups!Inv, Backups!TypeOK
<1>2. /\ job' \in [Run -> Backups!Job]
      /\ job'[r] = q
      /\ \A o \in Run : o # r => job'[o] = job[o]
      BY <1>1
<1>3. \A o \in Run : job[o].stamp \in Backups!Time
      BY BackupFacts
<1>4. stamp \in Backups!Time /\ stamp = job[r].stamp
      BY <1>3
<1>5. job[r].pc # "idle"
      OBVIOUS
<1>6. Backups!TypeOK'
  <2>1. now' = now /\ remote' = remote /\ recorded' \subseteq Backups!Time
        BY <1>1, <1>4
  <2>2. \A o \in Run : job'[o].ok => job'[o].pc = "record"
        BY <1>2 DEF Backups!Inv, Backups!TypeOK, Backups!Busy
  <2>3. QED
        BY <1>1, <1>2, <2>1, <2>2 DEF Backups!TypeOK, Backups!Busy
<1>7. /\ recorded \subseteq started /\ stamp \in started
      /\ stamp \in recorded => stamp \in twice
      /\ \A o \in Run : job[o].pc # "idle" =>
            /\ job[o].stamp \in started
            /\ job[o].stamp \in recorded => job[o].stamp \in twice
      /\ \A o, p \in Run :
            o # p /\ job[o].pc # "idle" /\ job[p].pc # "idle" /\ job[p].stamp = job[o].stamp
               => job[o].stamp \in twice
      BY <1>4, <1>5 DEF Backups!Inv, Backups!SharedNames, Backups!Busy
<1>8. Backups!SharedNames'
  <2>1. recorded' \subseteq started' /\ recorded' \subseteq recorded \cup {stamp}
        BY <1>4, <1>7
  <2>2. ASSUME NEW o \in Run, job'[o].pc # "idle"
        PROVE  /\ job[o].pc # "idle" /\ job'[o].stamp = job[o].stamp
               /\ o = r => recorded' = recorded
        BY <1>2, <1>5, <2>2
  <2>3. ASSUME NEW o \in Run, job'[o].pc # "idle"
        PROVE  /\ job'[o].stamp \in started'
               /\ job'[o].stamp \in recorded' => job'[o].stamp \in twice'
    <3>1. /\ job[o].pc # "idle" /\ job'[o].stamp = job[o].stamp
          /\ o = r => recorded' = recorded
          BY <2>2, <2>3
    <3>2. ASSUME o # r, job[o].stamp = stamp
          PROVE  stamp \in twice
          BY <1>4, <1>5, <1>7, <3>1, <3>2
    <3>3. QED
          BY <1>7, <2>1, <3>1, <3>2
  <2>4. ASSUME NEW o \in Run, NEW p \in Run, o # p,
               job'[o].pc # "idle", job'[p].pc # "idle", job'[p].stamp = job'[o].stamp
        PROVE  job'[o].stamp \in twice'
    <3>1. /\ job[o].pc # "idle" /\ job'[o].stamp = job[o].stamp
          /\ job[p].pc # "idle" /\ job'[p].stamp = job[p].stamp
          BY <2>2, <2>4
    <3>2. QED
          BY <1>7, <2>4, <3>1
  <2>5. QED
        BY <2>1, <2>3, <2>4 DEF Backups!SharedNames, Backups!Busy
<1>9. ASSUME NEW s \in Backups!Time, Backups!Kept(s), s = stamp /\ ~remote => s \in twice
      PROVE  Backups!Kept(s)'
      BY <1>1, <1>4, <1>9 DEF Backups!Kept
<1>10. ASSUME NEW s \in recorded' PROVE Backups!Kept(s)'
  <2>1. CASE s \in recorded
    <3>1. Backups!Kept(s) /\ s \in Backups!Time
          BY <1>1, <2>1 DEF Backups!Inv
    <3>2. QED
          BY <1>7, <1>9, <2>1, <3>1
  <2>2. CASE s \notin recorded
    <3>1. s = stamp /\ Backups!Kept(stamp)'
          BY <1>10, <2>2
    <3>2. QED
          BY <3>1
  <2>3. QED
        BY <2>1, <2>2
<1>11. ASSUME NEW o \in Run, NEW s, s = job'[o].stamp,
              job'[o].pc \in {"sweep", "delete"} \/ job'[o].ok
       PROVE  Backups!Kept(s)'
  <2>1. CASE o = r
    <3>1. s = stamp /\ Backups!Kept(stamp)'
          BY <1>2, <1>11, <2>1
    <3>2. QED
          BY <3>1
  <2>2. CASE o # r
    <3>1. /\ job'[o] = job[o] /\ s = job[o].stamp
          /\ Backups!Busy(o, "sweep") \/ Backups!Busy(o, "delete") \/ job[o].ok
          BY <1>2, <1>11, <2>2 DEF Backups!Busy
    <3>2. Backups!Kept(s) /\ s \in Backups!Time
          BY <1>3, <3>1 DEF Backups!Inv
    <3>3. job[o].pc # "idle"
          BY <1>11, <3>1 DEF Backups!Inv, Backups!TypeOK, Backups!Busy
    <3>4. s = stamp => s \in twice
          BY <1>4, <1>5, <1>7, <2>2, <3>1, <3>3
    <3>5. QED
          BY <1>9, <3>2, <3>4
  <2>3. QED
        BY <2>1, <2>2
<1>12. ASSUME NEW o \in Run, NEW s \in job'[o].old
       PROVE  s + Retention <= now'
      BY <1>2, <1>12 DEF Backups!Inv
<1>13. ASSUME NEW o \in Run,
              (Backups!Busy(o, "sweep") \/ Backups!Busy(o, "delete") \/ job[o].ok)'
       PROVE  Backups!Kept(job[o].stamp)'
  <2>1. job'[o].pc \in {"sweep", "delete"} \/ job'[o].ok
        BY <1>13 DEF Backups!Busy
  <2>2. PICK s : s = job'[o].stamp
        OBVIOUS
  <2>3. Backups!Kept(s)'
        BY <1>11, <2>1, <2>2
  <2>4. QED
        BY <2>2, <2>3 DEF Backups!Kept
<1>14. QED
      BY <1>6, <1>8, <1>10, <1>12, <1>13 DEF Backups!Inv

\* A run is started: it takes the second for its name.
LEMMA BackupStart == ASSUME Backups!Inv, NEW r \in Run, Backups!Start(r) PROVE Backups!Inv'
<1>1. /\ job \in [Run -> Backups!Job] /\ now \in Backups!Time /\ now \in Nat
      /\ recorded \subseteq Backups!Time
      BY BackupFacts DEF Backups!Inv, Backups!TypeOK
<1>2. /\ job[r].pc = "idle"
      /\ now' = now /\ remote' = remote /\ store' = store /\ recorded' = recorded
      /\ started' = started \cup {now} /\ twice' = twice \cup (started \cap {now})
      BY DEF Backups!Start, Backups!Busy
<1>3. PICK q : q = [Backups!NoJob EXCEPT !.pc = "dump", !.stamp = now]
      OBVIOUS
<1>4. /\ q \in Backups!Job
      /\ q.pc = "dump" /\ q.stamp = now /\ q.old = {} /\ q.ok = FALSE
  <2>1. Backups!NoJob \in Backups!Job
        BY JobsAssumption DEF Backups!NoJob, Backups!Job, Backups!Time
  <2>2. QED
        BY <1>1, <1>3, <2>1 DEF Backups!NoJob, Backups!Job
<1>5. job' = [job EXCEPT ![r] = q]
      BY <1>3 DEF Backups!Start
<1>6. /\ job' \in [Run -> Backups!Job]
      /\ job'[r] = q
      /\ \A o \in Run : o # r => job'[o] = job[o]
      BY <1>1, <1>4, <1>5
<1>7. Backups!TypeOK'
  <2>1. \A o \in Run : job'[o].ok => job'[o].pc = "record"
        BY <1>4, <1>6 DEF Backups!Inv, Backups!TypeOK, Backups!Busy
  <2>2. QED
        BY <1>1, <1>2, <1>6, <2>1 DEF Backups!Inv, Backups!TypeOK, Backups!Busy
<1>8. Backups!SharedNames'
  <2>1. /\ recorded \subseteq started
        /\ \A o \in Run : job[o].pc # "idle" =>
              /\ job[o].stamp \in started
              /\ job[o].stamp \in recorded => job[o].stamp \in twice
        /\ \A o, p \in Run :
              o # p /\ job[o].pc # "idle" /\ job[p].pc # "idle" /\ job[p].stamp = job[o].stamp
                 => job[o].stamp \in twice
        BY DEF Backups!Inv, Backups!SharedNames, Backups!Busy
  <2>2. ASSUME NEW o \in Run, job'[o].pc # "idle"
        PROVE  /\ job'[o].stamp \in started'
               /\ job'[o].stamp \in recorded' => job'[o].stamp \in twice'
        BY <1>2, <1>4, <1>6, <2>1, <2>2
  <2>3. ASSUME NEW o \in Run, NEW p \in Run, o # p,
               job'[o].pc # "idle", job'[p].pc # "idle", job'[p].stamp = job'[o].stamp
        PROVE  job'[o].stamp \in twice'
        BY <1>2, <1>4, <1>6, <2>1, <2>3
  <2>4. recorded' \subseteq started'
        BY <1>2, <2>1
  <2>5. QED
        BY <2>2, <2>3, <2>4 DEF Backups!SharedNames, Backups!Busy
<1>9. ASSUME NEW s, Backups!Kept(s) PROVE Backups!Kept(s)'
      BY <1>2, <1>9 DEF Backups!Kept
<1>10. ASSUME NEW o \in Run,
              (Backups!Busy(o, "sweep") \/ Backups!Busy(o, "delete") \/ job[o].ok)'
       PROVE  Backups!Kept(job[o].stamp)'
  <2>1. /\ o # r /\ job'[o] = job[o]
        /\ Backups!Busy(o, "sweep") \/ Backups!Busy(o, "delete") \/ job[o].ok
        BY <1>4, <1>6, <1>10 DEF Backups!Busy
  <2>2. PICK s : s = job[o].stamp
        OBVIOUS
  <2>3. Backups!Kept(s)'
        BY <1>9, <2>1, <2>2 DEF Backups!Inv
  <2>4. QED
        BY <2>1, <2>2, <2>3 DEF Backups!Kept
<1>11. ASSUME NEW o \in Run, NEW s \in job'[o].old
       PROVE  s + Retention <= now'
      BY <1>2, <1>4, <1>6, <1>11 DEF Backups!Inv
<1>12. \A s \in recorded' : Backups!Kept(s)'
      BY <1>2, <1>9 DEF Backups!Inv
<1>13. remote' => \A s \in Backups!Time : store'[s] # "partial"
      BY <1>2 DEF Backups!Inv
<1>14. QED
      BY <1>7, <1>8, <1>10, <1>11, <1>12, <1>13 DEF Backups!Inv

\* As time passes retentions end, and none begins.
LEMMA BackupTick == ASSUME Backups!Inv, Backups!Tick PROVE Backups!Inv'
<1>1. /\ now < LastTick /\ now' = now + 1
      /\ remote' = remote /\ store' = store /\ recorded' = recorded /\ job' = job
      /\ started' = started /\ twice' = twice
      BY DEF Backups!Tick
<1>2. now \in Nat /\ \A s \in Backups!Time : s \in Nat
      BY BackupFacts
<1>3. now' \in Backups!Time
      BY <1>1, <1>2, JobsAssumption DEF Backups!Time
<1>4. Backups!TypeOK' /\ Backups!SharedNames'
      BY <1>1, <1>3 DEF Backups!Inv, Backups!TypeOK, Backups!SharedNames, Backups!Busy
<1>5. ASSUME NEW s \in Backups!Time, Backups!Kept(s) PROVE Backups!Kept(s)'
  <2>1. now + 1 < s + Retention => now < s + Retention
        BY <1>2, JobsAssumption
  <2>2. QED
        BY <1>1, <1>5, <2>1 DEF Backups!Kept
<1>6. ASSUME NEW s \in recorded' PROVE Backups!Kept(s)'
  <2>1. s \in Backups!Time /\ Backups!Kept(s)
        BY <1>1, <1>6 DEF Backups!Inv, Backups!TypeOK
  <2>2. QED
        BY <1>5, <2>1
<1>7. ASSUME NEW o \in Run,
             (Backups!Busy(o, "sweep") \/ Backups!Busy(o, "delete") \/ job[o].ok)'
      PROVE  Backups!Kept(job[o].stamp)'
  <2>1. Backups!Busy(o, "sweep") \/ Backups!Busy(o, "delete") \/ job[o].ok
        BY <1>1, <1>7 DEF Backups!Busy
  <2>2. PICK s \in Backups!Time : s = job[o].stamp
        BY BackupFacts
  <2>3. Backups!Kept(s)'
        BY <1>5, <2>1, <2>2 DEF Backups!Inv
  <2>4. QED
        BY <1>1, <2>2, <2>3 DEF Backups!Kept
<1>8. ASSUME NEW o \in Run, NEW s \in job'[o].old
      PROVE  s + Retention <= now'
  <2>1. s \in Nat /\ s + Retention <= now
        BY <1>1, <1>2, <1>8, BackupFacts DEF Backups!Inv
  <2>2. QED
        BY <1>1, <1>2, <2>1, JobsAssumption
<1>9. remote' => \A s \in Backups!Time : store'[s] # "partial"
      BY <1>1 DEF Backups!Inv
<1>10. QED
      BY <1>4, <1>6, <1>7, <1>8, <1>9 DEF Backups!Inv

\* Whatever a run does that leaves the storage and the rows alone.
LEMMA BackupGoesOn ==
    ASSUME Backups!Inv, NEW r \in Run, job[r].pc # "idle", NEW q \in Backups!Job,
           job' = [job EXCEPT ![r] = q],
           UNCHANGED <<now, remote, store, recorded, started, twice>>,
           q.pc # "idle" => q.stamp = job[r].stamp,
           q.ok => q.pc = "record",
           q.pc \in {"sweep", "delete"} \/ q.ok => job[r].pc \in {"sweep", "delete"},
           \A s \in q.old : s + Retention <= now
    PROVE  Backups!Inv'
<1>1. PICK stamp \in Backups!Time : stamp = job[r].stamp
      BY BackupFacts
<1>2. job[r].pc \in {"sweep", "delete"} => Backups!Kept(stamp)'
  <2>1. job[r].pc \in {"sweep", "delete"} => Backups!Kept(stamp)
        BY <1>1 DEF Backups!Inv, Backups!Busy
  <2>2. QED
        BY <2>1 DEF Backups!Kept
<1>3. /\ store' \in [Backups!Time -> {"none", "partial", "whole"}]
      /\ remote => \A s \in Backups!Time : store'[s] # "partial"
      BY DEF Backups!Inv, Backups!TypeOK
<1>4. \A s \in Backups!Time :
         now < s + Retention /\ store[s] = "whole"
            => store'[s] = "whole" \/ (~remote /\ s = stamp)
      OBVIOUS
<1>5. /\ q.pc # "idle" => q.stamp = stamp /\ recorded' = recorded
      /\ q.pc \in {"sweep", "delete"} \/ q.ok => Backups!Kept(stamp)'
      BY <1>1, <1>2
<1>6. QED
      BY <1>1, <1>3, <1>4, <1>5, BackupWork

\* The dump, the sweep's list, the end of the sweep, and every failure.
LEMMA BackupProcess ==
    ASSUME Backups!Inv, NEW r \in Run,
           \/ Backups!Dump(r) \/ Backups!Sweep(r) \/ Backups!SweepEnds(r)
           \/ Backups!SaveFails(r) \/ Backups!Crash(r)
    PROVE  Backups!Inv'
<1>1. /\ job \in [Run -> Backups!Job] /\ job[r] \in Backups!Job
      /\ job[r].stamp \in Backups!Time /\ job[r].old \in SUBSET Backups!Time
      /\ job[r].ok \in BOOLEAN /\ now \in Nat
      /\ \A s \in Backups!Time : s \in Nat
      BY BackupFacts DEF Backups!Inv, Backups!TypeOK
<1>2. /\ job[r].ok => job[r].pc = "record"
      /\ \A s \in job[r].old : s + Retention <= now
      BY DEF Backups!Inv, Backups!TypeOK, Backups!Busy
<1>3. CASE Backups!Dump(r)
  <2>1. /\ job[r].pc = "dump"
        /\ UNCHANGED <<now, remote, store, recorded, started, twice>>
        BY <1>3 DEF Backups!Dump, Backups!Busy
  <2>2. CASE Backups!To(r, "save")
    <3>1. PICK q : q = [job[r] EXCEPT !.pc = "save"]
          OBVIOUS
    <3>2. job' = [job EXCEPT ![r] = q]
          BY <1>1, <2>2, <3>1 DEF Backups!To
    <3>3. /\ q \in Backups!Job /\ q.pc = "save" /\ q.stamp = job[r].stamp
          /\ q.old = job[r].old /\ q.ok = job[r].ok
          BY <1>1, <3>1 DEF Backups!Job
    <3>4. QED
          BY <1>2, <2>1, <3>2, <3>3, BackupGoesOn
  <2>3. CASE Backups!Outcome(r, FALSE)
    <3>1. PICK q : q = [job[r] EXCEPT !.pc = "record", !.ok = FALSE]
          OBVIOUS
    <3>2. job' = [job EXCEPT ![r] = q]
          BY <1>1, <2>3, <3>1 DEF Backups!Outcome
    <3>3. /\ q \in Backups!Job /\ q.pc = "record" /\ q.stamp = job[r].stamp
          /\ q.old = job[r].old /\ q.ok = FALSE
          BY <1>1, <3>1 DEF Backups!Job
    <3>4. QED
          BY <1>2, <2>1, <3>2, <3>3, BackupGoesOn
  <2>4. QED
        BY <1>3, <2>2, <2>3 DEF Backups!Dump
<1>4. CASE Backups!Sweep(r)
  <2>1. /\ job[r].pc = "sweep"
        /\ UNCHANGED <<now, remote, store, recorded, started, twice>>
        BY <1>4 DEF Backups!Sweep, Backups!Busy
  <2>2. PICK fraction \in BOOLEAN :
             job' = [job EXCEPT ![r].pc = "delete",
                                ![r].old = {s \in Backups!Time :
                                              store[s] # "none" /\ Backups!Expired(s, fraction)}]
        BY <1>4 DEF Backups!Sweep
  <2>3. PICK old : old = {s \in Backups!Time :
                              store[s] # "none" /\ Backups!Expired(s, fraction)}
        OBVIOUS
  <2>4. old \in SUBSET Backups!Time /\ \A s \in old : Backups!Expired(s, fraction)
        BY <2>3
  <2>5. \A s \in old : s + Retention <= now
    <3>1. TAKE s \in old
    <3>2. s \in Nat /\ Backups!Expired(s, fraction)
          BY <1>1, <2>4
    <3>3. QED
          BY <1>1, <3>2, JobsAssumption DEF Backups!Expired
  <2>6. PICK q : q = [job[r] EXCEPT !.pc = "delete", !.old = old]
        OBVIOUS
  <2>7. /\ q \in Backups!Job /\ q.pc = "delete" /\ q.stamp = job[r].stamp
        /\ q.old = old /\ ~q.ok
        BY <1>1, <1>2, <2>1, <2>4, <2>6 DEF Backups!Job
  <2>8. job' = [job EXCEPT ![r] = q]
        BY <1>1, <2>2, <2>3, <2>6
  <2>9. QED
        BY <2>1, <2>5, <2>7, <2>8, BackupGoesOn
<1>5. CASE Backups!SweepEnds(r)
  <2>1. /\ job[r].pc = "delete"
        /\ UNCHANGED <<now, remote, store, recorded, started, twice>>
        /\ Backups!Outcome(r, TRUE)
        BY <1>5 DEF Backups!SweepEnds, Backups!Busy
  <2>2. PICK q : q = [job[r] EXCEPT !.pc = "record", !.ok = TRUE]
        OBVIOUS
  <2>3. /\ q \in Backups!Job /\ q.pc = "record" /\ q.stamp = job[r].stamp
        /\ q.old = job[r].old
        BY <1>1, <2>2 DEF Backups!Job
  <2>4. job' = [job EXCEPT ![r] = q]
        BY <1>1, <2>1, <2>2 DEF Backups!Outcome
  <2>5. QED
        BY <1>2, <2>1, <2>3, <2>4, BackupGoesOn
<1>6. CASE Backups!SaveFails(r)
  <2>1. /\ job[r].pc # "idle"
        /\ UNCHANGED <<now, remote, store, recorded, started, twice>>
        /\ Backups!Outcome(r, FALSE)
        BY <1>6 DEF Backups!SaveFails, Backups!Busy
  <2>2. PICK q : q = [job[r] EXCEPT !.pc = "record", !.ok = FALSE]
        OBVIOUS
  <2>3. /\ q \in Backups!Job /\ q.pc = "record" /\ q.stamp = job[r].stamp
        /\ q.old = job[r].old /\ ~q.ok
        BY <1>1, <2>2 DEF Backups!Job
  <2>4. job' = [job EXCEPT ![r] = q]
        BY <1>1, <2>1, <2>2 DEF Backups!Outcome
  <2>5. QED
        BY <1>2, <2>1, <2>3, <2>4, BackupGoesOn
<1>7. CASE Backups!Crash(r)
  <2>1. /\ job[r].pc # "idle" /\ job' = [job EXCEPT ![r] = Backups!NoJob]
        /\ UNCHANGED <<now, remote, store, recorded, started, twice>>
        BY <1>7 DEF Backups!Crash, Backups!Busy
  <2>2. /\ Backups!NoJob \in Backups!Job /\ Backups!NoJob.pc = "idle"
        /\ Backups!NoJob.old = {} /\ ~Backups!NoJob.ok
        BY JobsAssumption DEF Backups!NoJob, Backups!Job, Backups!Time
  <2>3. QED
        BY <2>1, <2>2, BackupGoesOn
<1>8. QED
      BY <1>3, <1>4, <1>5, <1>6, <1>7

\* What a run writes: the backup is whole once it is written, and only a local
\* file is ever part of one.
LEMMA BackupStores ==
    ASSUME Backups!Inv, NEW r \in Run,
           \/ Backups!Save(r) \/ Backups!Write(r) \/ Backups!Delete(r) \/ Backups!Record(r)
    PROVE  Backups!Inv'
<1>1. /\ job \in [Run -> Backups!Job] /\ job[r] \in Backups!Job
      /\ job[r].stamp \in Backups!Time /\ job[r].old \in SUBSET Backups!Time
      /\ job[r].ok \in BOOLEAN /\ now \in Nat /\ remote \in BOOLEAN
      /\ \A s \in Backups!Time : s \in Nat
      /\ store \in [Backups!Time -> {"none", "partial", "whole"}]
      BY BackupFacts DEF Backups!Inv, Backups!TypeOK
<1>2. /\ job[r].ok => job[r].pc = "record"
      /\ \A s \in job[r].old : s + Retention <= now
      /\ remote => \A s \in Backups!Time : store[s] # "partial"
      BY DEF Backups!Inv, Backups!TypeOK, Backups!Busy
<1>3. PICK stamp \in Backups!Time : stamp = job[r].stamp
      BY <1>1
<1>4. CASE Backups!Save(r)
  <2>1. /\ job[r].pc = "save"
        /\ store' = [store EXCEPT ![stamp] = IF remote THEN "whole" ELSE "partial"]
        /\ UNCHANGED <<now, remote, recorded, started, twice>>
        /\ Backups!To(r, IF remote THEN "sweep" ELSE "write")
        BY <1>3, <1>4 DEF Backups!Save, Backups!Busy
  <2>2. PICK pc \in {"sweep", "write"} : pc = IF remote THEN "sweep" ELSE "write"
        OBVIOUS
  <2>3. PICK q : q = [job[r] EXCEPT !.pc = pc]
        OBVIOUS
  <2>4. job' = [job EXCEPT ![r] = q]
        BY <1>1, <2>1, <2>2, <2>3 DEF Backups!To
  <2>5. /\ q \in Backups!Job /\ q.pc = pc /\ q.stamp = stamp
        /\ q.old = job[r].old /\ q.ok = job[r].ok
        BY <1>1, <1>3, <2>3 DEF Backups!Job
  <2>6. /\ store' \in [Backups!Time -> {"none", "partial", "whole"}]
        /\ store'[stamp] = IF remote THEN "whole" ELSE "partial"
        /\ \A s \in Backups!Time : s # stamp => store'[s] = store[s]
        BY <1>1, <2>1
  <2>7. pc = "sweep" => Backups!Kept(stamp)'
        BY <2>2, <2>6 DEF Backups!Kept
  <2>8. \A s \in q.old : s + Retention <= now
        BY <1>2, <2>5
  <2>9. /\ q.ok => q.pc = "record"
        /\ q.pc \in {"sweep", "delete"} \/ q.ok => Backups!Kept(stamp)'
        /\ q.pc # "idle" => q.stamp = stamp /\ recorded' = recorded
        BY <1>2, <2>1, <2>2, <2>5, <2>7
  <2>10. /\ remote => \A s \in Backups!Time : store'[s] # "partial"
         /\ \A s \in Backups!Time :
               now < s + Retention /\ store[s] = "whole"
                  => store'[s] = "whole" \/ (~remote /\ s = stamp)
        BY <1>2, <2>6
  <2>11. QED
        BY <1>3, <2>1, <2>4, <2>5, <2>6, <2>8, <2>9, <2>10, BackupWork
<1>5. CASE Backups!Write(r)
  <2>1. /\ job[r].pc = "write"
        /\ store' = [store EXCEPT ![stamp] = "whole"]
        /\ UNCHANGED <<now, remote, recorded, started, twice>>
        /\ Backups!To(r, "sweep")
        BY <1>3, <1>5 DEF Backups!Write, Backups!Busy
  <2>2. PICK q : q = [job[r] EXCEPT !.pc = "sweep"]
        OBVIOUS
  <2>3. job' = [job EXCEPT ![r] = q]
        BY <1>1, <2>1, <2>2 DEF Backups!To
  <2>4. /\ q \in Backups!Job /\ q.pc = "sweep" /\ q.stamp = stamp
        /\ q.old = job[r].old /\ q.ok = job[r].ok
        BY <1>1, <1>3, <2>2 DEF Backups!Job
  <2>5. /\ store' \in [Backups!Time -> {"none", "partial", "whole"}]
        /\ store'[stamp] = "whole"
        /\ \A s \in Backups!Time : s # stamp => store'[s] = store[s]
        BY <1>1, <2>1
  <2>6. Backups!Kept(stamp)'
        BY <2>5 DEF Backups!Kept
  <2>7. \A s \in q.old : s + Retention <= now
        BY <1>2, <2>4
  <2>8. /\ q.ok => q.pc = "record"
        /\ q.pc \in {"sweep", "delete"} \/ q.ok => Backups!Kept(stamp)'
        /\ q.pc # "idle" => q.stamp = stamp /\ recorded' = recorded
        BY <1>2, <2>1, <2>4, <2>6
  <2>9. /\ remote => \A s \in Backups!Time : store'[s] # "partial"
        /\ \A s \in Backups!Time :
              now < s + Retention /\ store[s] = "whole"
                 => store'[s] = "whole" \/ (~remote /\ s = stamp)
        BY <1>2, <2>5
  <2>10. QED
        BY <1>3, <2>1, <2>3, <2>4, <2>5, <2>7, <2>8, <2>9, BackupWork
<1>6. CASE Backups!Delete(r)
  <2>1. PICK d \in job[r].old :
             /\ store' = [store EXCEPT ![d] = "none"]
             /\ job' = [job EXCEPT ![r].old = @ \ {d}]
        BY <1>6 DEF Backups!Delete
  <2>2. /\ job[r].pc = "delete"
        /\ UNCHANGED <<now, remote, recorded, started, twice>>
        BY <1>6 DEF Backups!Delete, Backups!Busy
  <2>3. /\ d \in Backups!Time /\ d + Retention <= now /\ ~(now < d + Retention)
        BY <1>1, <1>2, <2>1, JobsAssumption
  <2>4. PICK q : q = [job[r] EXCEPT !.old = @ \ {d}]
        OBVIOUS
  <2>5. job' = [job EXCEPT ![r] = q]
        BY <1>1, <2>1, <2>4
  <2>6. /\ q \in Backups!Job /\ q.pc = "delete" /\ q.stamp = stamp
        /\ q.old = job[r].old \ {d} /\ q.ok = job[r].ok
        BY <1>1, <1>3, <2>2, <2>4 DEF Backups!Job
  <2>7. /\ store' \in [Backups!Time -> {"none", "partial", "whole"}]
        /\ store'[d] = "none"
        /\ \A s \in Backups!Time : s # d => store'[s] = store[s]
        BY <1>1, <2>1, <2>3
  <2>8. /\ remote => \A s \in Backups!Time : store'[s] # "partial"
        /\ \A s \in Backups!Time :
              now < s + Retention /\ store[s] = "whole"
                 => store'[s] = "whole" \/ (~remote /\ s = stamp)
        BY <1>2, <2>3, <2>7
  <2>9. Backups!Kept(stamp)'
    <3>1. Backups!Kept(stamp)
          BY <1>3, <2>2 DEF Backups!Inv, Backups!Busy
    <3>2. QED
          BY <1>3, <2>2, <2>3, <2>7, <3>1 DEF Backups!Kept
  <2>10. \A s \in q.old : s + Retention <= now
        BY <1>2, <2>6
  <2>11. /\ q.ok => q.pc = "record"
         /\ q.pc \in {"sweep", "delete"} \/ q.ok => Backups!Kept(stamp)'
         /\ q.pc # "idle" => q.stamp = stamp /\ recorded' = recorded
        BY <1>2, <2>2, <2>6, <2>9
  <2>12. QED
        BY <1>3, <2>2, <2>5, <2>6, <2>7, <2>8, <2>10, <2>11, BackupWork
<1>7. CASE Backups!Record(r)
  <2>1. /\ job[r].pc = "record" /\ job' = [job EXCEPT ![r] = Backups!NoJob]
        /\ UNCHANGED <<now, remote, store, started, twice>>
        /\ recorded' = recorded \/ (job[r].ok /\ recorded' = recorded \cup {stamp})
        BY <1>3, <1>7 DEF Backups!Record, Backups!Busy
  <2>2. /\ Backups!NoJob \in Backups!Job /\ Backups!NoJob.pc = "idle"
        /\ Backups!NoJob.old = {} /\ ~Backups!NoJob.ok
        BY JobsAssumption DEF Backups!NoJob, Backups!Job, Backups!Time
  <2>3. job[r].ok => Backups!Kept(stamp)'
    <3>1. job[r].ok => Backups!Kept(stamp)
          BY <1>3 DEF Backups!Inv
    <3>2. QED
          BY <2>1, <3>1 DEF Backups!Kept
  <2>4. /\ recorded' = recorded \/ recorded' = recorded \cup {stamp}
        /\ recorded' # recorded => Backups!Kept(stamp)'
        BY <2>1, <2>3
  <2>5. /\ store' \in [Backups!Time -> {"none", "partial", "whole"}]
        /\ remote => \A s \in Backups!Time : store'[s] # "partial"
        /\ \A s \in Backups!Time :
              now < s + Retention /\ store[s] = "whole"
                 => store'[s] = "whole" \/ (~remote /\ s = stamp)
        BY <1>1, <1>2, <2>1
  <2>6. QED
        BY <1>3, <2>1, <2>2, <2>4, <2>5, BackupWork
<1>8. QED
      BY <1>4, <1>5, <1>6, <1>7

LEMMA BackupNext == Backups!Inv /\ [Backups!Next]_backups => Backups!Inv'
<1>1. SUFFICES ASSUME Backups!Inv, [Backups!Next]_backups PROVE Backups!Inv'
      OBVIOUS
<1>2. CASE Backups!Tick
      BY <1>1, <1>2, BackupTick
<1>3. ASSUME NEW r \in Run, Backups!Start(r)
      PROVE  Backups!Inv'
      BY <1>1, <1>3, BackupStart
<1>4. ASSUME NEW r \in Run,
             \/ Backups!Dump(r) \/ Backups!Sweep(r) \/ Backups!SweepEnds(r)
             \/ Backups!SaveFails(r) \/ Backups!Crash(r)
      PROVE  Backups!Inv'
      BY <1>1, <1>4, BackupProcess
<1>5. ASSUME NEW r \in Run,
             \/ Backups!Save(r) \/ Backups!Write(r) \/ Backups!Delete(r) \/ Backups!Record(r)
      PROVE  Backups!Inv'
      BY <1>1, <1>5, BackupStores
<1>6. CASE UNCHANGED backups
  <2>1. /\ now' = now /\ remote' = remote /\ store' = store /\ recorded' = recorded
        /\ job' = job /\ started' = started /\ twice' = twice
        BY <1>6 DEF backups
  <2>2. QED
        BY <1>1, <2>1 DEF Backups!Inv, Backups!TypeOK, Backups!SharedNames, Backups!Kept,
                          Backups!Busy
<1>7. QED
      BY <1>1, <1>2, <1>3, <1>4, <1>5, <1>6 DEF Backups!Next

\* What is recorded is whole; with object storage nothing there is part of a
\* backup, so the most recent key is whole and no older.
LEMMA BackupRestorable == Backups!Inv => Backups!Restorable
<1>1. SUFFICES ASSUME Backups!Inv, NEW stamp \in recorded, now < stamp + Retention,
                      remote \/ stamp \notin twice
               PROVE  /\ store[stamp] = "whole"
                      /\ remote => \A s \in Backups!Time :
                            Backups!IsMostRecent(s) => store[s] = "whole" /\ s >= stamp
      BY DEF Backups!Restorable
<1>2. store[stamp] = "whole" /\ stamp \in Backups!Time
      BY <1>1 DEF Backups!Inv, Backups!TypeOK, Backups!Kept
<1>3. ASSUME remote, NEW s \in Backups!Time, Backups!IsMostRecent(s)
      PROVE  store[s] = "whole" /\ s >= stamp
  <2>1. store[s] # "none" /\ stamp <= s
        BY <1>2, <1>3 DEF Backups!IsMostRecent
  <2>2. store[s] \in {"none", "partial", "whole"} /\ store[s] # "partial"
        BY <1>1, <1>3 DEF Backups!Inv, Backups!TypeOK
  <2>3. s \in Nat /\ stamp \in Nat
        BY <1>1, <1>2, BackupFacts
  <2>4. QED
        BY <2>1, <2>2, <2>3
<1>4. QED
      BY <1>2, <1>3

-----------------------------------------------------------------------------
(* Reminders.                                                              *)

\* What a run may rely on: nobody on its list, nor the user it is about to
\* notify, has a notification of a day that nobody else shares.
Clear(q) ==
    q.pc # "idle" =>
        /\ q.today <= day
        /\ q.pc = "commit" => q.user \notin q.todo
        /\ \A u \in Reader, d \in Memories!Day \ shared :
              /\ (u \in q.todo \/ (q.pc = "commit" /\ u = q.user)) /\ d > q.today
                    => notes[u][d] = 0
              /\ q.pc = "commit" /\ u = q.user /\ d = q.today => notes[u][d] = 0

\* Whatever the notifications of a date, what has been mailed about them and is
\* about to be is no more.
Counted ==
    \A u \in Reader, d \in Memories!Day :
        /\ d > day => notes[u][d] = 0
        /\ d \notin shared => notes[u][d] <= 1
        /\ mails[u][d] + Cardinality(Memories!Mailing(u, d)) <= notes[u][d]

\* Reminders' Cardinality is the Cardinality the theorems on finite sets are about.
LEMMA SameCardinality == ASSUME NEW S PROVE Memories!Cardinality(S) = Cardinality(S)
BY DEF Memories!Cardinality, Cardinality

LEMMA ReminderParts ==
    Memories!Inv <=> /\ Memories!TypeOK
                     /\ \A i \in Sender : Clear(sender[i])
                     /\ Counted
<1>1. Memories!Unnotified <=> \A i \in Sender : Clear(sender[i])
      BY DEF Memories!Unnotified, Clear, Memories!Sending, Memories!Awaits
<1>2. QED
      BY <1>1, SameCardinality DEF Memories!Inv, Counted

LEMMA ReminderPartsNext ==
    /\ Memories!TypeOK'
    /\ \A i \in Sender : Clear(sender[i])'
    /\ Counted'
    => Memories!Inv'
<1>1. (\A i \in Sender : Clear(sender[i])') => Memories!Unnotified'
      BY DEF Memories!Unnotified, Clear, Memories!Sending, Memories!Awaits
<1>2. QED
      BY <1>1, SameCardinality DEF Memories!Inv, Counted

LEMMA ReminderFacts ==
    ASSUME Memories!TypeOK
    PROVE  /\ day \in Nat /\ day \in Memories!Day
           /\ \A d \in Memories!Day : d \in Nat
           /\ Memories!NotSending \in Memories!SenderState
           /\ Memories!NotSending.pc = "idle"
           /\ \A i \in Sender : /\ sender[i] \in Memories!SenderState
                                /\ sender[i].today \in Memories!Day
                                /\ sender[i].dated \in Memories!Day
                                /\ sender[i].todo \in SUBSET Reader
           /\ \A u \in Reader, d \in Memories!Day : notes[u][d] \in Nat /\ mails[u][d] \in Nat
           /\ \A u, d : /\ IsFiniteSet(Memories!Mailing(u, d))
                        /\ Cardinality(Memories!Mailing(u, d)) \in Nat
<1>1. day \in Nat /\ day \in Memories!Day /\ (\A d \in Memories!Day : d \in Nat)
      BY JobsAssumption DEF Memories!TypeOK, Memories!Day
<1>2. Memories!NotSending \in Memories!SenderState /\ Memories!NotSending.pc = "idle"
      BY JobsAssumption DEF Memories!NotSending, Memories!SenderState, Memories!Day
<1>3. \A i \in Sender : /\ sender[i] \in Memories!SenderState
                        /\ sender[i].today \in Memories!Day
                        /\ sender[i].dated \in Memories!Day
                        /\ sender[i].todo \in SUBSET Reader
      BY DEF Memories!TypeOK, Memories!SenderState
<1>4. \A u \in Reader, d \in Memories!Day : notes[u][d] \in Nat /\ mails[u][d] \in Nat
      BY DEF Memories!TypeOK
<1>5. ASSUME NEW u, NEW d
      PROVE  /\ IsFiniteSet(Memories!Mailing(u, d))
             /\ Cardinality(Memories!Mailing(u, d)) \in Nat
  <2>1. Memories!Mailing(u, d) \subseteq Sender
        BY DEF Memories!Mailing
  <2>2. IsFiniteSet(Memories!Mailing(u, d))
        BY <2>1, FS_Subset, JobsAssumption
  <2>3. QED
        BY <2>2, FS_CardinalityType
<1>6. QED
      BY <1>1, <1>2, <1>3, <1>4, <1>5

LEMMA ReminderInit == Memories!Init => Memories!Inv
<1>1. SUFFICES ASSUME Memories!Init PROVE Memories!Inv
      OBVIOUS
<1>2. 0 \in Memories!Day /\ Memories!NotSending \in Memories!SenderState
      BY JobsAssumption DEF Memories!NotSending, Memories!SenderState, Memories!Day
<1>3. Memories!NotSending.pc = "idle"
      BY DEF Memories!NotSending
<1>4. /\ \A u \in Reader, d \in Memories!Day : notes[u][d] = 0 /\ mails[u][d] = 0
      /\ \A i \in Sender : sender[i] = Memories!NotSending
      /\ day = 0 /\ shared = {}
      BY <1>1 DEF Memories!Init
<1>5. /\ notes \in [Reader -> [Memories!Day -> Nat]]
      /\ mails \in [Reader -> [Memories!Day -> Nat]]
      /\ sender \in [Sender -> Memories!SenderState]
      BY <1>1, <1>2 DEF Memories!Init
<1>6. Memories!TypeOK
      BY <1>2, <1>3, <1>4, <1>5 DEF Memories!TypeOK
<1>7. \A i \in Sender : Clear(sender[i])
      BY <1>3, <1>4 DEF Clear
<1>8. Counted
  <2>1. ASSUME NEW u, NEW d PROVE Memories!Mailing(u, d) = {}
        BY <1>3, <1>4 DEF Memories!Mailing, Memories!Sending
  <2>2. Cardinality({}) = 0
        BY FS_EmptySet
  <2>3. ASSUME NEW u \in Reader, NEW d \in Memories!Day
        PROVE  mails[u][d] + Cardinality(Memories!Mailing(u, d)) <= notes[u][d]
        BY <1>4, <2>1, <2>2
  <2>4. QED
        BY <1>4, <2>3 DEF Counted
<1>9. QED
      BY <1>6, <1>7, <1>8, ReminderParts

\* What a step of one run does to what it and the others are doing.
LEMMA SenderFacts ==
    ASSUME Memories!TypeOK, NEW i \in Sender, NEW q \in Memories!SenderState,
           sender' = [sender EXCEPT ![i] = q], q.pc \in {"commit", "mail"} => q.user \in Reader
    PROVE  /\ sender' \in [Sender -> Memories!SenderState]
           /\ sender'[i] = q
           /\ \A j \in Sender : j # i => sender'[j] = sender[j]
           /\ \A j \in Sender : sender'[j].pc \in {"commit", "mail"} => sender'[j].user \in Reader
BY DEF Memories!TypeOK

\* A step that makes no notification and sends no mail.
LEMMA ReminderQuiet ==
    ASSUME Memories!Inv, NEW i \in Sender, NEW q \in Memories!SenderState,
           q.pc # "mail", q.pc = "commit" => q.user \in Reader, Clear(q),
           sender' = [sender EXCEPT ![i] = q], UNCHANGED <<day, notes, mails, shared>>
    PROVE  Memories!Inv'
<1>1. Memories!TypeOK /\ Counted /\ \A j \in Sender : Clear(sender[j])
      BY ReminderParts
<1>2. /\ sender' \in [Sender -> Memories!SenderState]
      /\ sender'[i] = q
      /\ \A j \in Sender : j # i => sender'[j] = sender[j]
      /\ \A j \in Sender : sender'[j].pc \in {"commit", "mail"} => sender'[j].user \in Reader
      BY <1>1, SenderFacts
<1>3. Memories!TypeOK'
      BY <1>1, <1>2 DEF Memories!TypeOK
<1>4. ASSUME NEW j \in Sender PROVE Clear(sender[j])'
  <2>1. CASE j = i
        BY <1>2, <2>1 DEF Clear
  <2>2. CASE j # i
        BY <1>1, <1>2, <2>2 DEF Clear
  <2>3. QED
        BY <2>1, <2>2
<1>5. ASSUME NEW u \in Reader, NEW d \in Memories!Day
      PROVE  mails'[u][d] + Cardinality(Memories!Mailing(u, d)') <= notes'[u][d]
  <2>1. PICK M, N : M = Memories!Mailing(u, d) /\ N = Memories!Mailing(u, d)'
        OBVIOUS
  <2>2. N \subseteq M
        BY <1>2, <2>1 DEF Memories!Mailing, Memories!Sending
  <2>3. IsFiniteSet(M) /\ Cardinality(M) \in Nat /\ mails[u][d] \in Nat /\ notes[u][d] \in Nat
        BY <1>1, <2>1, ReminderFacts
  <2>4. Cardinality(N) <= Cardinality(M) /\ Cardinality(N) \in Nat
        BY <2>2, <2>3, FS_Subset, FS_CardinalityType
  <2>5. mails[u][d] + Cardinality(M) <= notes[u][d]
        BY <1>1, <2>1 DEF Counted
  <2>6. mails[u][d] + Cardinality(N) <= notes[u][d]
        BY <2>3, <2>4, <2>5
  <2>7. QED
        BY <2>1, <2>6
<1>6. Counted'
      BY <1>1, <1>5 DEF Counted
<1>7. QED
      BY <1>3, <1>4, <1>6, ReminderPartsNext

\* A run begins with everybody on its list, the day it is; the others begin
\* nothing.
LEMMA ReminderBegin ==
    ASSUME Memories!Inv, NEW i \in Sender, Memories!Begin(i) PROVE Memories!Inv'
<1>1. Memories!TypeOK /\ Counted
      BY ReminderParts
<1>2. PICK q : q = [Memories!NotSending EXCEPT !.pc = "list", !.today = day, !.todo = Reader]
      OBVIOUS
<1>3. Memories!NotSending \in Memories!SenderState /\ day \in Memories!Day /\ day \in Nat
      BY <1>1, ReminderFacts
<1>4. q \in Memories!SenderState /\ q.pc = "list" /\ q.today = day /\ q.todo = Reader
      BY <1>2, <1>3 DEF Memories!NotSending, Memories!SenderState
<1>5. Clear(q)
  <2>1. q.today <= day
        BY <1>3, <1>4
  <2>2. ASSUME NEW u \in Reader, NEW d \in Memories!Day, d > q.today
        PROVE  notes[u][d] = 0
        BY <1>1, <1>4, <2>2 DEF Counted
  <2>3. QED
        BY <1>4, <2>1, <2>2 DEF Clear
<1>6. sender' = [sender EXCEPT ![i] = q] /\ UNCHANGED <<day, notes, mails, shared>>
      BY <1>2 DEF Memories!Begin, Memories!Send
<1>7. QED
      BY <1>4, <1>5, <1>6, ReminderQuiet

LEMMA ReminderCheck ==
    ASSUME Memories!Inv, NEW i \in Sender, Memories!Check(i) PROVE Memories!Inv'
<1>1. /\ Memories!TypeOK /\ Clear(sender[i])
      /\ sender[i] \in Memories!SenderState /\ sender[i].todo \in SUBSET Reader
      /\ sender[i].today \in Memories!Day
      /\ sender[i].pc = "list" /\ UNCHANGED <<day, notes, mails, shared>>
      BY ReminderParts, ReminderFacts DEF Memories!Check, Memories!Sending
<1>2. PICK u \in sender[i].todo :
          \/ Memories!Send(i, [sender[i] EXCEPT !.todo = @ \ {u}])
          \/ /\ ~Memories!AlreadyNotified(u, sender[i].today)
             /\ Memories!Send(i, [sender[i] EXCEPT !.pc = "commit", !.user = u,
                                                   !.todo = @ \ {u}])
      BY DEF Memories!Check
<1>3. CASE Memories!Send(i, [sender[i] EXCEPT !.todo = @ \ {u}])
  <2>1. PICK q : q = [sender[i] EXCEPT !.todo = @ \ {u}]
        OBVIOUS
  <2>2. /\ q \in Memories!SenderState /\ q.pc = "list"
        /\ q.today = sender[i].today /\ q.todo = sender[i].todo \ {u}
        BY <1>1, <2>1 DEF Memories!SenderState
  <2>3. Clear(q)
        BY <1>1, <2>2 DEF Clear
  <2>4. sender' = [sender EXCEPT ![i] = q]
        BY <1>3, <2>1 DEF Memories!Send
  <2>5. QED
        BY <1>1, <2>2, <2>3, <2>4, ReminderQuiet
<1>4. CASE /\ ~Memories!AlreadyNotified(u, sender[i].today)
           /\ Memories!Send(i, [sender[i] EXCEPT !.pc = "commit", !.user = u,
                                                 !.todo = @ \ {u}])
  <2>1. PICK q : q = [sender[i] EXCEPT !.pc = "commit", !.user = u, !.todo = @ \ {u}]
        OBVIOUS
  <2>2. u \in Reader
        BY <1>1
  <2>3. /\ q \in Memories!SenderState /\ q.pc = "commit" /\ q.user = u
        /\ q.today = sender[i].today /\ q.todo = sender[i].todo \ {u}
        BY <1>1, <2>1, <2>2 DEF Memories!SenderState
  <2>4. notes[u][q.today] = 0
    <3>1. notes[u][q.today] \in Nat /\ ~(notes[u][q.today] > 0)
          BY <1>1, <1>4, <2>2, <2>3, ReminderFacts DEF Memories!AlreadyNotified
    <3>2. QED
          BY <3>1
  <2>5. Clear(q)
        BY <1>1, <1>2, <2>2, <2>3, <2>4 DEF Clear
  <2>6. sender' = [sender EXCEPT ![i] = q]
        BY <1>4, <2>1 DEF Memories!Send
  <2>7. QED
        BY <1>1, <2>2, <2>3, <2>5, <2>6, ReminderQuiet
<1>5. QED
      BY <1>2, <1>3, <1>4

\* A run ends, or stops half-way.
LEMMA ReminderEnds ==
    ASSUME Memories!Inv, NEW i \in Sender, Memories!End(i) \/ Memories!Stop(i)
    PROVE  Memories!Inv'
<1>1. Memories!NotSending \in Memories!SenderState /\ Memories!NotSending.pc = "idle"
      BY ReminderParts, ReminderFacts
<1>2. /\ sender' = [sender EXCEPT ![i] = Memories!NotSending]
      /\ UNCHANGED <<day, notes, mails, shared>>
      BY DEF Memories!End, Memories!Stop, Memories!Send
<1>3. Clear(Memories!NotSending)
      BY <1>1 DEF Clear
<1>4. QED
      BY <1>1, <1>2, <1>3, ReminderQuiet

\* The notification is one more of today's for its user, and a mail about it is
\* to be sent.  Nobody else is at work, or today is a shared date; and the run
\* itself has today's users still clear.
LEMMA ReminderCommit ==
    ASSUME Memories!Inv, NEW i \in Sender, Memories!NotifyCommit(i) PROVE Memories!Inv'
<1>1. /\ Memories!TypeOK /\ Counted /\ \A j \in Sender : Clear(sender[j])
      /\ sender[i] \in Memories!SenderState /\ sender[i].todo \in SUBSET Reader
      /\ day \in Memories!Day /\ day \in Nat /\ sender[i].today \in Nat
      /\ sender[i].pc = "commit"
      BY ReminderParts, ReminderFacts DEF Memories!NotifyCommit, Memories!Sending
<1>2. PICK u \in Reader : u = sender[i].user
      BY <1>1 DEF Memories!TypeOK
<1>3. /\ notes' = [notes EXCEPT ![u][day] = @ + 1]
      /\ day' = day /\ mails' = mails /\ shared \subseteq shared' /\ shared' \subseteq shared \cup {day}
      /\ day \in shared' \/ \A j \in Sender : j # i => sender[j].pc = "idle"
      BY <1>2 DEF Memories!NotifyCommit, Memories!Sending
<1>4. PICK q : q = [sender[i] EXCEPT !.pc = "mail", !.dated = day]
      OBVIOUS
<1>5. /\ q \in Memories!SenderState /\ q.pc = "mail" /\ q.user = u /\ q.dated = day
      /\ q.today = sender[i].today /\ q.todo = sender[i].todo
      BY <1>1, <1>2, <1>4 DEF Memories!SenderState
<1>6. /\ sender' \in [Sender -> Memories!SenderState]
      /\ sender'[i] = q
      /\ \A j \in Sender : j # i => sender'[j] = sender[j]
      /\ \A j \in Sender : sender'[j].pc \in {"commit", "mail"} => sender'[j].user \in Reader
  <2>1. sender' = [sender EXCEPT ![i] = q]
        BY <1>4 DEF Memories!NotifyCommit, Memories!Send
  <2>2. QED
        BY <1>1, <1>5, <2>1, SenderFacts
<1>7. /\ notes' \in [Reader -> [Memories!Day -> Nat]]
      /\ notes'[u][day] = notes[u][day] + 1
      /\ \A v \in Reader, d \in Memories!Day :
            v # u \/ d # day => notes'[v][d] = notes[v][d]
  <2>1. notes \in [Reader -> [Memories!Day -> Nat]]
        BY <1>1 DEF Memories!TypeOK
  <2>2. QED
        BY <1>1, <1>3, <2>1
<1>8. Memories!TypeOK'
      BY <1>1, <1>3, <1>6, <1>7 DEF Memories!TypeOK
<1>9. sender[i].today <= day /\ u \notin sender[i].todo
      BY <1>1, <1>2 DEF Clear
<1>10. day \notin shared' => notes[u][day] = 0
  <2>1. SUFFICES ASSUME day \notin shared' PROVE notes[u][day] = 0
        OBVIOUS
  <2>2. day \in Memories!Day \ shared
        BY <1>1, <1>3, <2>1
  <2>3. \/ day > sender[i].today \/ day = sender[i].today
        BY <1>1, <1>9
  <2>4. QED
        BY <1>1, <1>2, <2>2, <2>3 DEF Clear
<1>11. ASSUME NEW j \in Sender PROVE Clear(sender[j])'
  <2>1. CASE j = i
    <3>1. SUFFICES ASSUME NEW v \in sender[i].todo, NEW d \in Memories!Day \ shared',
                          d > sender[i].today
                   PROVE  notes'[v][d] = 0
          BY <1>3, <1>5, <1>6, <1>9, <2>1 DEF Clear
    <3>2. v \in Reader /\ v # u /\ d \in Memories!Day \ shared
          BY <1>1, <1>3, <1>9
    <3>3. notes[v][d] = 0
          BY <1>1, <3>1, <3>2 DEF Clear
    <3>4. QED
          BY <1>7, <3>2, <3>3
  <2>2. CASE j # i /\ sender[j].pc # "idle"
    <3>1. day \in shared' /\ sender'[j] = sender[j]
          BY <1>3, <1>6, <2>2
    <3>2. \A v \in Reader, d \in Memories!Day \ shared' :
             /\ d \in Memories!Day \ shared
             /\ notes'[v][d] = notes[v][d]
          BY <1>3, <1>7, <3>1
    <3>3. Clear(sender[j])
          BY <1>1
    <3>4. QED
          BY <1>3, <2>2, <3>1, <3>2, <3>3 DEF Clear
  <2>3. CASE j # i /\ sender[j].pc = "idle"
        BY <1>6, <2>3 DEF Clear
  <2>4. QED
        BY <2>1, <2>2, <2>3
<1>12. ASSUME NEW v \in Reader, NEW d \in Memories!Day
       PROVE  /\ d > day' => notes'[v][d] = 0
              /\ d \notin shared' => notes'[v][d] <= 1
  <2>1. /\ d > day => notes[v][d] = 0
        /\ d \notin shared => notes[v][d] <= 1
        BY <1>1 DEF Counted
  <2>2. CASE v = u /\ d = day
        BY <1>1, <1>3, <1>7, <1>10, <2>2
  <2>3. CASE v # u \/ d # day
        BY <1>3, <1>7, <2>1, <2>3
  <2>4. QED
        BY <2>2, <2>3
<1>13. ASSUME NEW v \in Reader, NEW d \in Memories!Day
       PROVE  mails'[v][d] + Cardinality(Memories!Mailing(v, d)') <= notes'[v][d]
  <2>1. PICK M, N : M = Memories!Mailing(v, d) /\ N = Memories!Mailing(v, d)'
        OBVIOUS
  <2>2. IsFiniteSet(M) /\ Cardinality(M) \in Nat /\ mails[v][d] \in Nat /\ notes[v][d] \in Nat
        BY <1>1, <2>1, ReminderFacts
  <2>3. mails[v][d] + Cardinality(M) <= notes[v][d]
        BY <1>1, <2>1 DEF Counted
  <2>4. CASE v = u /\ d = day
    <3>1. N = M \cup {i} /\ i \notin M
          BY <1>1, <1>5, <1>6, <2>1, <2>4 DEF Memories!Mailing, Memories!Sending
    <3>2. Cardinality(N) = Cardinality(M) + 1
          BY <2>2, <3>1, FS_AddElement
    <3>3. notes'[v][d] = notes[v][d] + 1 /\ mails'[v][d] = mails[v][d]
          BY <1>3, <1>7, <2>4
    <3>4. mails'[v][d] + Cardinality(N) <= notes'[v][d]
          BY <2>2, <2>3, <3>2, <3>3
    <3>5. QED
          BY <2>1, <3>4
  <2>5. CASE v # u \/ d # day
    <3>1. N = M
          BY <1>1, <1>5, <1>6, <2>1, <2>5 DEF Memories!Mailing, Memories!Sending
    <3>2. notes'[v][d] = notes[v][d] /\ mails'[v][d] = mails[v][d]
          BY <1>3, <1>7, <2>5
    <3>3. QED
          BY <2>1, <2>3, <3>1, <3>2
  <2>6. QED
        BY <2>4, <2>5
<1>14. Counted'
      BY <1>12, <1>13 DEF Counted
<1>15. QED
      BY <1>8, <1>11, <1>14, ReminderPartsNext

\* A mail is sent about a notification that none was sent about, or it is not.
LEMMA ReminderMail ==
    ASSUME Memories!Inv, NEW i \in Sender, Memories!Mail(i) PROVE Memories!Inv'
<1>1. /\ Memories!TypeOK /\ Counted /\ \A j \in Sender : Clear(sender[j])
      /\ sender[i] \in Memories!SenderState /\ sender[i].todo \in SUBSET Reader
      /\ sender[i].pc = "mail" /\ UNCHANGED <<day, notes, shared>>
      BY ReminderParts, ReminderFacts DEF Memories!Mail, Memories!Sending
<1>2. PICK u \in Reader : u = sender[i].user
      BY <1>1 DEF Memories!TypeOK
<1>3. PICK c \in Memories!Day : c = sender[i].dated
      BY <1>1, ReminderFacts
<1>4. PICK q : q = [sender[i] EXCEPT !.pc = "list", !.user = Nobody, !.dated = 0]
      OBVIOUS
<1>5. /\ q \in Memories!SenderState /\ q.pc = "list"
      /\ q.today = sender[i].today /\ q.todo = sender[i].todo
  <2>1. 0 \in Memories!Day
        BY JobsAssumption DEF Memories!Day
  <2>2. QED
        BY <1>1, <1>4, <2>1 DEF Memories!SenderState
<1>6. sender' = [sender EXCEPT ![i] = q]
      BY <1>4 DEF Memories!Mail, Memories!Send
<1>7. Clear(q)
  <2>1. Clear(sender[i])
        BY <1>1
  <2>2. QED
        BY <1>1, <1>5, <2>1 DEF Clear
<1>8. CASE mails' = mails
      BY <1>1, <1>5, <1>6, <1>7, <1>8, ReminderQuiet
<1>9. CASE mails' = [mails EXCEPT ![u][c] = @ + 1]
  <2>1. /\ sender' \in [Sender -> Memories!SenderState]
        /\ sender'[i] = q
        /\ \A j \in Sender : j # i => sender'[j] = sender[j]
        /\ \A j \in Sender : sender'[j].pc \in {"commit", "mail"} => sender'[j].user \in Reader
        BY <1>1, <1>5, <1>6, SenderFacts
  <2>2. /\ mails' \in [Reader -> [Memories!Day -> Nat]]
        /\ mails'[u][c] = mails[u][c] + 1
        /\ \A v \in Reader, d \in Memories!Day :
              v # u \/ d # c => mails'[v][d] = mails[v][d]
    <3>1. mails \in [Reader -> [Memories!Day -> Nat]]
          BY <1>1 DEF Memories!TypeOK
    <3>2. QED
          BY <1>9, <3>1
  <2>3. Memories!TypeOK'
        BY <1>1, <2>1, <2>2 DEF Memories!TypeOK
  <2>4. ASSUME NEW j \in Sender PROVE Clear(sender[j])'
    <3>1. CASE j = i
          BY <1>1, <1>7, <2>1, <3>1 DEF Clear
    <3>2. CASE j # i
      <4>1. Clear(sender[j]) /\ sender'[j] = sender[j]
            BY <1>1, <2>1, <3>2
      <4>2. QED
            BY <1>1, <4>1 DEF Clear
    <3>3. QED
          BY <3>1, <3>2
  <2>5. ASSUME NEW v \in Reader, NEW d \in Memories!Day
        PROVE  mails'[v][d] + Cardinality(Memories!Mailing(v, d)') <= notes'[v][d]
    <3>1. PICK M, N : M = Memories!Mailing(v, d) /\ N = Memories!Mailing(v, d)'
          OBVIOUS
    <3>2. /\ IsFiniteSet(M) /\ Cardinality(M) \in Nat
          /\ mails[v][d] \in Nat /\ notes[v][d] \in Nat
          BY <1>1, <3>1, ReminderFacts
    <3>3. mails[v][d] + Cardinality(M) <= notes[v][d] /\ notes'[v][d] = notes[v][d]
          BY <1>1, <3>1 DEF Counted
    <3>4. N = M \ {i}
          BY <1>5, <2>1, <3>1 DEF Memories!Mailing, Memories!Sending
    <3>5. CASE v = u /\ d = c
      <4>1. i \in M
            BY <1>1, <1>2, <1>3, <3>1, <3>5 DEF Memories!Mailing, Memories!Sending
      <4>2. Cardinality(N) = Cardinality(M) - 1
            BY <3>2, <3>4, <4>1, FS_RemoveElement
      <4>3. mails'[v][d] = mails[v][d] + 1
            BY <2>2, <3>5
      <4>4. mails'[v][d] + Cardinality(N) <= notes'[v][d]
            BY <3>2, <3>3, <4>2, <4>3
      <4>5. QED
            BY <3>1, <4>4
    <3>6. CASE v # u \/ d # c
      <4>1. i \notin M
            BY <1>2, <1>3, <3>1, <3>6 DEF Memories!Mailing, Memories!Sending
      <4>2. N = M /\ mails'[v][d] = mails[v][d]
            BY <2>2, <3>4, <3>6, <4>1
      <4>3. QED
            BY <3>1, <3>3, <4>2
    <3>7. QED
          BY <3>5, <3>6
  <2>6. Counted'
        BY <1>1, <2>5 DEF Counted
  <2>7. QED
        BY <2>3, <2>4, <2>6, ReminderPartsNext
<1>10. mails' = mails \/ mails' = [mails EXCEPT ![u][c] = @ + 1]
      BY <1>2, <1>3 DEF Memories!Mail
<1>11. QED
      BY <1>8, <1>9, <1>10

\* The day that begins has no notifications yet.
LEMMA ReminderMidnight == ASSUME Memories!Inv, Memories!Midnight PROVE Memories!Inv'
<1>1. /\ Memories!TypeOK /\ Counted /\ \A j \in Sender : Clear(sender[j])
      /\ day \in Nat /\ \A d \in Memories!Day : d \in Nat
      /\ \A i \in Sender : sender[i].today \in Nat
      BY ReminderParts, ReminderFacts
<1>2. day < LastDay /\ day' = day + 1 /\ UNCHANGED <<notes, mails, sender, shared>>
      BY DEF Memories!Midnight
<1>3. day' \in Memories!Day
      BY <1>1, <1>2, JobsAssumption DEF Memories!Day
<1>4. Memories!TypeOK'
      BY <1>1, <1>2, <1>3 DEF Memories!TypeOK
<1>5. ASSUME NEW j \in Sender PROVE Clear(sender[j])'
  <2>1. Clear(sender[j]) /\ (sender[j].today <= day => sender[j].today <= day')
        BY <1>1, <1>2
  <2>2. QED
        BY <1>2, <2>1 DEF Clear
<1>6. \A u, d : Memories!Mailing(u, d)' = Memories!Mailing(u, d)
      BY <1>2 DEF Memories!Mailing, Memories!Sending
<1>7. ASSUME NEW u \in Reader, NEW d \in Memories!Day
      PROVE  /\ d > day' => notes'[u][d] = 0
             /\ d \notin shared' => notes'[u][d] <= 1
             /\ mails'[u][d] + Cardinality(Memories!Mailing(u, d)') <= notes'[u][d]
  <2>1. /\ d > day => notes[u][d] = 0
        /\ d \notin shared => notes[u][d] <= 1
        /\ mails[u][d] + Cardinality(Memories!Mailing(u, d)) <= notes[u][d]
        BY <1>1 DEF Counted
  <2>2. d > day + 1 => d > day
        BY <1>1
  <2>3. QED
        BY <1>2, <1>6, <2>1, <2>2
<1>8. Counted'
      BY <1>7 DEF Counted
<1>9. QED
      BY <1>4, <1>5, <1>8, ReminderPartsNext

LEMMA ReminderNext == Memories!Inv /\ [Memories!Next]_reminders => Memories!Inv'
<1>1. SUFFICES ASSUME Memories!Inv, [Memories!Next]_reminders PROVE Memories!Inv'
      OBVIOUS
<1>2. CASE Memories!Midnight
      BY <1>1, <1>2, ReminderMidnight
<1>3. ASSUME NEW i \in Sender,
             \/ Memories!Begin(i) \/ Memories!Check(i) \/ Memories!NotifyCommit(i)
             \/ Memories!Mail(i) \/ Memories!End(i) \/ Memories!Stop(i)
      PROVE  Memories!Inv'
      BY <1>1, <1>3, ReminderBegin, ReminderCheck, ReminderCommit, ReminderMail, ReminderEnds
<1>4. CASE UNCHANGED reminders
  <2>1. /\ day' = day /\ notes' = notes /\ mails' = mails
        /\ sender' = sender /\ shared' = shared
        BY <1>4 DEF reminders
  <2>2. QED
        BY <1>1, <2>1 DEF Memories!Inv, Memories!TypeOK, Memories!Unnotified, Memories!Awaits,
                          Memories!Mailing, Memories!Sending
<1>5. QED
      BY <1>1, <1>2, <1>3, <1>4 DEF Memories!Next

LEMMA ReminderOnce == Memories!Inv => Memories!OncePerDay
<1>1. SUFFICES ASSUME Memories!Inv, NEW u \in Reader
               PROVE  /\ \A d \in Memories!Day \ shared : notes[u][d] <= 1
                      /\ \A d \in Memories!Day : mails[u][d] <= notes[u][d]
      BY DEF Memories!OncePerDay
<1>2. Memories!TypeOK /\ Counted
      BY <1>1, ReminderParts
<1>3. ASSUME NEW d \in Memories!Day PROVE mails[u][d] <= notes[u][d]
  <2>1. PICK n \in Nat : n = Cardinality(Memories!Mailing(u, d))
        BY <1>2, ReminderFacts
  <2>2. /\ mails[u][d] + n <= notes[u][d]
        /\ mails[u][d] \in Nat /\ notes[u][d] \in Nat
        BY <1>2, <2>1, ReminderFacts DEF Counted
  <2>3. QED
        BY <2>2
<1>4. QED
      BY <1>2, <1>3 DEF Counted

-----------------------------------------------------------------------------
(* The theorems.                                                           *)

\* What the admin's statistics show as a backup that succeeded can be restored
\* until its retention is over, whatever runs of backup_database.py overlap it,
\* sweep, fail or stop; with object storage the key a restore picks is whole
\* and no older.
THEOREM BackupsRestorable == Backups!Spec => []Restorable
<1>1. Backups!Init => Backups!Inv
      BY BackupInit
<1>2. Backups!Inv /\ [Backups!Next]_(Backups!backups) => Backups!Inv'
      BY BackupNext DEF Backups!backups, backups
<1>3. Backups!Inv => Restorable
      BY BackupRestorable DEF Restorable
<1>4. QED
      BY <1>1, <1>2, <1>3, PTL DEF Backups!Spec

\* Runs of send_on_this_day_reminders.py, restarted as often as you like and
\* across midnight, notify nobody twice a day unless two are at work at once,
\* and never send more mails about a day than it has notifications.
THEOREM RemindedOnce == Memories!Spec => []OncePerDay
<1>1. Memories!Init => Memories!Inv
      BY ReminderInit
<1>2. Memories!Inv /\ [Memories!Next]_(Memories!reminders) => Memories!Inv'
      BY ReminderNext DEF Memories!reminders, reminders
<1>3. Memories!Inv => OncePerDay
      BY ReminderOnce DEF OncePerDay
<1>4. QED
      BY <1>1, <1>2, <1>3, PTL DEF Memories!Spec

\* What the manifest of migrate_uploads_to_object_storage.py names and an entry
\* still shows is in the bucket, whatever the application uploads and deletes
\* meanwhile, and wherever runs overlap or stop.
THEOREM ManifestsAreTrue == Uploads!Spec => []ManifestTrue
<1>1. Uploads!Init => Uploads!Inv
      BY MigrationInit
<1>2. Uploads!Inv /\ [Uploads!Next]_(Uploads!migration) => Uploads!Inv'
      BY MigrationNext DEF Uploads!migration, migration
<1>3. Uploads!Inv => ManifestTrue
      BY DEF Uploads!Inv, Uploads!KeptCopied, Uploads!Kept, Uploads!Shown,
             ManifestTrue, Uploads!ManifestTrue
<1>4. QED
      BY <1>1, <1>2, <1>3, PTL DEF Uploads!Spec

\* The scripts side by side do nothing that each could not do alone, so all of
\* it holds of Jobs.
THEOREM JobsHold == JobsSpec => [](Restorable /\ OncePerDay /\ ManifestTrue)
<1>1. JobsInit => Backups!Init /\ Memories!Init /\ Uploads!Init
      BY DEF JobsInit
<1>2. [JobsNext]_jobsVars => /\ [Backups!Next]_(Backups!backups)
                             /\ [Memories!Next]_(Memories!reminders)
                             /\ [Uploads!Next]_(Uploads!migration)
      BY DEF JobsNext, jobsVars, backups, reminders, migration,
             Backups!backups, Memories!reminders, Uploads!migration
<1>3. JobsSpec => Backups!Spec /\ Memories!Spec /\ Uploads!Spec
      BY <1>1, <1>2, PTL DEF JobsSpec, Backups!Spec, Memories!Spec, Uploads!Spec
<1>4. QED
      BY <1>3, BackupsRestorable, RemindedOnce, ManifestsAreTrue, PTL

=============================================================================
