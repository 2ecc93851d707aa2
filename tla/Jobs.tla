-------------------------------- MODULE Jobs --------------------------------
(***************************************************************************)
(* The three scripts that run beside the web application.  They share no   *)
(* state, so one moves while the others have yet to begin.                 *)
(***************************************************************************)
EXTENDS Naturals, FiniteSets

CONSTANTS Run, Retention, Longest, LastTick, Sender, Reader, Nobody, LastDay, File, Script

ASSUME JobsAssumption ==
    /\ Retention \in Nat
    /\ LastTick \in Nat
    /\ LastDay \in Nat
    /\ IsFiniteSet(Sender)

VARIABLES now, remote, store, recorded, job, started, twice,
          day, notes, mails, sender, shared,
          local, bucket, photo, manifest, torn, switched, script

Backups  == INSTANCE Backup
Memories == INSTANCE Reminders
Uploads  == INSTANCE Migration

backups   == <<now, remote, store, recorded, job, started, twice>>
reminders == <<day, notes, mails, sender, shared>>
migration == <<local, bucket, photo, manifest, torn, switched, script>>
jobsVars == <<backups, reminders, migration>>

JobsInit == Backups!Init /\ Memories!Init /\ Uploads!Init

JobsNext ==
    \/ Memories!Init /\ Uploads!Init /\ Backups!Next /\ UNCHANGED <<reminders, migration>>
    \/ Backups!Init /\ Uploads!Init /\ Memories!Next /\ UNCHANGED <<backups, migration>>
    \/ Backups!Init /\ Memories!Init /\ Uploads!Next /\ UNCHANGED <<backups, reminders>>

JobsSpec == JobsInit /\ [][JobsNext]_jobsVars

\* See Backup: a backup recorded as made can be restored for as long as it is kept.
Restorable == Backups!Restorable

\* See Reminders: one reminder a day, unless two runs are at work at once.
OncePerDay == Memories!OncePerDay

\* See Migration: what the manifest names and an entry shows is in the bucket.
ManifestTrue == Uploads!ManifestTrue

=============================================================================
