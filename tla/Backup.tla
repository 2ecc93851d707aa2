------------------------------- MODULE Backup -------------------------------
(***************************************************************************)
(* Runs of backup_database.py: the dump, its copy in object storage or, if *)
(* there is none, on the local disk, the retention sweep, and the row of   *)
(* backup_runs.  Two runs can overlap, and a run can stop anywhere.  Time  *)
(* passes in ticks; the name of a backup is the tick its run started at.   *)
(***************************************************************************)
EXTENDS Naturals

CONSTANTS
    Run,        \* processes that make backups
    Retention,  \* BACKUP_RETENTION_DAYS, in ticks
    Longest,    \* bound: ticks a run can take, DUMP_TIMEOUT_SECONDS and the uploads
    LastTick    \* bound on the time

VARIABLES
    now,
    remote,     \* object storage is configured
    store,      \* the backup of each tick: "none", "partial" or "whole"
    recorded,   \* rows of backup_runs that say a run succeeded
    job,        \* what each process is doing
    started,    \* no state of the program: the ticks runs started at
    twice       \* nor this: those at which two did, so that they share a name

backups == <<now, remote, store, recorded, job, started, twice>>

-----------------------------------------------------------------------------

Time == 0..LastTick

\* stamp names the backup, old are the backups the sweep has yet to delete, and
\* ok is the outcome to be recorded.
Job  == [ pc : {"idle", "dump", "save", "write", "sweep", "delete", "record"},
          stamp : Time, old : SUBSET Time, ok : BOOLEAN ]
NoJob == [pc |-> "idle", stamp |-> 0, old |-> {}, ok |-> FALSE]

Init ==
    /\ now = 0
    /\ remote \in BOOLEAN
    /\ store = [s \in Time |-> "none"]
    /\ recorded = {}
    /\ job = [r \in Run |-> NoJob]
    /\ started = {}
    /\ twice = {}

Busy(r, pc) == job[r].pc = pc

To(r, pc) == job' = [job EXCEPT ![r].pc = pc]

Outcome(r, ok) == job' = [job EXCEPT ![r].pc = "record", ![r].ok = ok]

Start(r) ==
    /\ Busy(r, "idle")
    /\ job' = [job EXCEPT ![r] = [NoJob EXCEPT !.pc = "dump", !.stamp = now]]
    /\ started' = started \cup {now}
    /\ twice' = twice \cup (started \cap {now})
    /\ UNCHANGED <<now, remote, store, recorded>>

\* create_dump; the dump exists only in memory.
Dump(r) ==
    /\ Busy(r, "dump")
    /\ To(r, "save") \/ Outcome(r, FALSE)
    /\ UNCHANGED <<now, remote, store, recorded, started, twice>>

\* put_object stores the whole backup or nothing.  write_bytes opens the file,
\* which empties it, and then writes.
Save(r) ==
    /\ Busy(r, "save")
    /\ store' = [store EXCEPT ![job[r].stamp] = IF remote THEN "whole" ELSE "partial"]
    /\ To(r, IF remote THEN "sweep" ELSE "write")
    /\ UNCHANGED <<now, remote, recorded, started, twice>>

Write(r) ==
    /\ Busy(r, "write")
    /\ store' = [store EXCEPT ![job[r].stamp] = "whole"]
    /\ To(r, "sweep")
    /\ UNCHANGED <<now, remote, recorded, started, twice>>

\* MUTANT of Expired: a tick of the retention is lost
ExpiresEarly(s, fraction) == s + Retention < now + (IF fraction THEN 2 ELSE 1)

\* _apply_retention: the cutoff and the names are read once.  A name has whole
\* ticks, the cutoff a fraction of one more or none.
Expired(s, fraction) == s + Retention < now + (IF fraction THEN 1 ELSE 0)

Sweep(r) ==
    /\ Busy(r, "sweep")
    /\ \E fraction \in BOOLEAN :
          job' = [job EXCEPT ![r].pc = "delete",
                             ![r].old = {s \in Time : store[s] # "none" /\ Expired(s, fraction)}]
    /\ UNCHANGED <<now, remote, store, recorded, started, twice>>

Delete(r) ==
    /\ Busy(r, "delete")
    /\ \E s \in job[r].old :
          /\ store' = [store EXCEPT ![s] = "none"]
          /\ job' = [job EXCEPT ![r].old = @ \ {s}]
    /\ UNCHANGED <<now, remote, recorded, started, twice>>

SweepEnds(r) ==
    /\ Busy(r, "delete")
    /\ job[r].old = {}
    /\ Outcome(r, TRUE)
    /\ UNCHANGED <<now, remote, store, recorded, started, twice>>

\* Whatever fails after the dump, the save or the sweep, is recorded as a run
\* that failed, even if its backup is there.
SaveFails(r) ==
    /\ \/ Busy(r, "save") \/ Busy(r, "write") \/ Busy(r, "sweep")
       \/ Busy(r, "delete") /\ job[r].old # {}
    /\ Outcome(r, FALSE)
    /\ UNCHANGED <<now, remote, store, recorded, started, twice>>

\* _record_run: a row that cannot be written is passed over.
Record(r) ==
    /\ Busy(r, "record")
    /\ \/ recorded' = IF job[r].ok THEN recorded \cup {job[r].stamp} ELSE recorded
       \/ UNCHANGED recorded
    /\ job' = [job EXCEPT ![r] = NoJob]
    /\ UNCHANGED <<now, remote, store, started, twice>>

\* The process stops, or its retention is no number, which nothing catches.
Crash(r) ==
    /\ ~Busy(r, "idle")
    /\ job' = [job EXCEPT ![r] = NoJob]
    /\ UNCHANGED <<now, remote, store, recorded, started, twice>>

Tick ==
    /\ now < LastTick
    /\ \A r \in Run : Busy(r, "idle") \/ now < job[r].stamp + Longest
    /\ now' = now + 1
    /\ UNCHANGED <<remote, store, recorded, job, started, twice>>

Next ==
    \/ Tick
    \/ \E r \in Run :
          \/ Start(r) \/ Dump(r) \/ Save(r) \/ Write(r) \/ Sweep(r) \/ Delete(r)
          \/ SweepEnds(r) \/ SaveFails(r) \/ Record(r) \/ Crash(r)

Spec == Init /\ [][Next]_backups

-----------------------------------------------------------------------------

\* _most_recent_object_storage_key: what a restore takes unless told otherwise.
IsMostRecent(s) ==
    /\ store[s] # "none"
    /\ \A other \in Time : store[other] # "none" => other <= s

\* What the admin's statistics show as a backup that succeeded can be restored
\* until its retention is over, whatever runs overlap it, sweep or fail later
\* on; and in object storage the key a restore picks is then a whole backup and
\* no older one.  Two runs started within one second share a local file, and
\* the second may break what the first has recorded.
Restorable ==
    \A stamp \in recorded :
        now < stamp + Retention /\ (remote \/ stamp \notin twice) =>
            /\ store[stamp] = "whole"
            /\ remote => \A s \in Time : IsMostRecent(s) => store[s] = "whole" /\ s >= stamp

-----------------------------------------------------------------------------
(* The inductive invariant.                                                *)

TypeOK ==
    /\ now \in Time
    /\ remote \in BOOLEAN
    /\ store \in [Time -> {"none", "partial", "whole"}]
    /\ recorded \subseteq Time
    /\ job \in [Run -> Job]
    /\ \A r \in Run : job[r].ok => Busy(r, "record")

\* Runs that share a name are known to: those at work, and one at work and one
\* that was recorded.
SharedNames ==
    /\ recorded \subseteq started
    /\ \A r \in Run : ~Busy(r, "idle") =>
          /\ job[r].stamp \in started
          /\ job[r].stamp \in recorded => job[r].stamp \in twice
          /\ \A q \in Run \ {r} :
                ~Busy(q, "idle") /\ job[q].stamp = job[r].stamp => job[r].stamp \in twice

\* Until its retention is over a backup is whole, unless another run wrote to
\* the same local file.
Kept(s) == now < s + Retention /\ (remote \/ s \notin twice) => store[s] = "whole"

Inv ==
    /\ TypeOK
    /\ SharedNames
    /\ remote => \A s \in Time : store[s] # "partial"
    /\ \A s \in recorded : Kept(s)
    /\ \A r \in Run :
          /\ Busy(r, "sweep") \/ Busy(r, "delete") \/ job[r].ok => Kept(job[r].stamp)
          /\ \A s \in job[r].old : s + Retention <= now

=============================================================================
