------------------------------ MODULE Backups ------------------------------
(***************************************************************************)
(* The copies of the database (scripts/backup.mjs): a run dumps it into a  *)
(* file, copies the file to another disk and into a storage elsewhere,     *)
(* reads both back, and only then removes what is older than the newest    *)
(* Keep.  Any step can fail or be killed and leaves what it had written;   *)
(* the names of the files grow with time, and nothing but the name decides *)
(* what is old.  A copy is brought back over the file of the same name.    *)
(***************************************************************************)
EXTENDS Integers, FiniteSets, FiniteSetsExt

CONSTANTS
    Runners,     \* commands that run beside each other
    Keep,        \* ANYQ_BACKUP_S3_KEEP and --keep
    MaxDumps     \* bound: dumps that are started

ASSUME BackupsAssumption == Keep \in Nat \ {0} /\ MaxDumps \in Nat

VARIABLES
    copies,      \* place -> the files there, each whole or cut
    started,     \* dumps started; the name of the next one
    run,         \* runner -> where it is, its dump, the names it will remove
    proven,      \* the newest dump that was read back from the storage whole
    done,        \* the newest dump whose run has ended well
    brought,     \* whether a file was brought back from the storage
    lapped       \* whether Keep dumps were started during one run

backupsVars == <<copies, started, run, proven, done, brought, lapped>>

Places == {"disk", "mirror", "storage"}
Resting == [at |-> "resting", dump |-> 0, old |-> {}]
Here(place) == DOMAIN copies[place]
WholeIn(place) == {n \in Here(place) : copies[place][n] = "whole"}

BackupsInit ==
    /\ copies = [p \in Places |-> [n \in {} |-> "cut"]] /\ started = 0
    /\ run = [r \in Runners |-> Resting]
    /\ proven = 0 /\ done = 0 /\ brought = FALSE /\ lapped = FALSE

Written(place, n, state) ==
    [copies EXCEPT ![place] = [m \in DOMAIN @ \cup {n} |-> IF m = n THEN state ELSE @[m]]]
Without(place, n) == [copies EXCEPT ![place] = [m \in DOMAIN @ \ {n} |-> @[m]]]
Goes(r, step) == run' = [run EXCEPT ![r].at = step]
Stops(r) == run' = [run EXCEPT ![r] = Resting]
Restarts == UNCHANGED <<proven, done, brought, lapped>>

-----------------------------------------------------------------------------
\* The file is there, under its final name, from the first byte on.
Creates(r) ==
    /\ run[r] = Resting /\ started < MaxDumps
    /\ started' = started + 1
    /\ copies' = Written("disk", started', "cut")
    /\ run' = [run EXCEPT ![r] = [at |-> "dumping", dump |-> started', old |-> {}]]
    /\ lapped' = (lapped \/ \E q \in Runners : run[q] # Resting /\ started' - run[q].dump >= Keep)
    /\ UNCHANGED <<proven, done, brought>>

Dumped(r) ==
    /\ run[r].at = "dumping"
    /\ IF run[r].dump \in Here("disk")
       THEN copies' = Written("disk", run[r].dump, "whole") ELSE UNCHANGED copies
    /\ Goes(r, "mirroring") /\ Restarts /\ UNCHANGED started

\* A copy that was cut on the way is found by its hash, and stays.
Mirrors(r) ==
    LET n == run[r].dump IN
    /\ run[r].at = "mirroring" /\ n \in Here("disk")
    /\ \/ copies' = Written("mirror", n, copies["disk"][n]) /\ Goes(r, "uploading")
       \/ copies' = Written("mirror", n, "cut") /\ Stops(r)
    /\ Restarts /\ UNCHANGED started

Puts(r) ==
    LET n == run[r].dump IN
    /\ run[r].at = "uploading" /\ n \in Here("disk")
    /\ \E state \in {copies["disk"][n], "cut"} : copies' = Written("storage", n, state)
    /\ Goes(r, "readingBack") /\ Restarts /\ UNCHANGED started

\* What to remove is listed only when the new copy was read back.
ReadsBack(r) ==
    /\ run[r].at = "readingBack" /\ run[r].dump \in WholeIn("storage")
    /\ proven' = Max({proven, run[r].dump})
    /\ Goes(r, "listing") /\ UNCHANGED <<copies, started, done, brought, lapped>>

\* All but the newest Keep, by name.
Expired(names) ==
    {n \in names : Cardinality({m \in names : m > n}) >= Keep}

Lists(r) ==
    /\ \/ /\ run[r].at = "listing"
          /\ run' = [run EXCEPT ![r].at = "removing", ![r].old = Expired(Here("storage"))]
       \/ /\ run[r].at = "pruning"
          /\ run' = [run EXCEPT ![r].at = "unlinking", ![r].old = Expired(Here("disk"))]
    /\ Restarts /\ UNCHANGED <<copies, started>>

\* The storage removes without asking whether the object is there; a file that
\* is not there ends the run.
Removes(r) ==
    \E n \in run[r].old :
        /\ \/ run[r].at = "removing" /\ copies' = Without("storage", n)
           \/ run[r].at = "unlinking" /\ n \in Here("disk") /\ copies' = Without("disk", n)
        /\ run' = [run EXCEPT ![r].old = @ \ {n}]
        /\ Restarts /\ UNCHANGED started

Finishes(r) ==
    /\ run[r].old = {}
    /\ \/ run[r].at = "removing" /\ Goes(r, "pruning") /\ UNCHANGED done
       \/ run[r].at = "unlinking" /\ Stops(r) /\ done' = Max({done, run[r].dump})
    /\ UNCHANGED <<copies, started, proven, brought, lapped>>

\* An error or a kill, at any step: nothing is taken back.
Fails(r) ==
    /\ run[r] # Resting /\ Stops(r)
    /\ Restarts /\ UNCHANGED <<copies, started>>

\* The newest of the storage, over the local file of that name.
Pulls(r) ==
    /\ run[r] = Resting /\ Here("storage") # {}
    /\ LET n == Max(Here("storage")) IN
       \E state \in {copies["storage"][n], "cut"} : copies' = Written("disk", n, state)
    /\ brought' = TRUE
    /\ UNCHANGED <<started, run, proven, done, lapped>>

BackupsNext ==
    \E r \in Runners :
        \/ Creates(r) \/ Dumped(r) \/ Mirrors(r) \/ Puts(r) \/ ReadsBack(r) \/ Lists(r)
        \/ Removes(r) \/ Finishes(r) \/ Fails(r) \/ Pulls(r)

BackupsSpec == BackupsInit /\ [][BackupsNext]_backupsVars

-----------------------------------------------------------------------------
\* A dump that was proven, or whose run has ended well, was started.
BackupsTypeOK ==
    /\ DOMAIN copies = Places /\ \A p \in Places : Here(p) \subseteq 1..started
    /\ done <= proven /\ proven <= started

(***************************************************************************)
(* "A failed copy never leaves fewer copies than there were an hour ago"   *)
(* (docs/BACKUP_RUNBOOK.md): once a dump was read back from the storage, a *)
(* whole one at least as new is there for good, whatever the runs after it *)
(* leave behind; so it is on the disk and on the mirror once the run has   *)
(* ended well.  Not so when as many runs as Keep start during one run, and *)
(* the disk not when a file was brought back over it.                      *)
(***************************************************************************)
CopyRemains ==
    \/ lapped
    \/ /\ proven # 0 => \E n \in WholeIn("storage") : n >= proven
       /\ done # 0 => done \in WholeIn("mirror")
       /\ done # 0 /\ ~brought => \E n \in WholeIn("disk") : n >= done
=============================================================================
