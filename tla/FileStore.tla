------------------------------ MODULE FileStore ------------------------------
(***************************************************************************)
(* services/file_service.py in detail: the in-memory index, the parquet    *)
(* files and the uploaded_files table, which one upload changes one after  *)
(* the other under _file_store_lock while get_file reads without the lock. *)
(* A call may fail (OSError, a SQLite error) and the process may stop      *)
(* between any two of those changes.                                       *)
(*                                                                         *)
(* Checked to implement FileReservations: what the job scheduler relies on *)
(* holds whichever step of an upload is the last one to happen.            *)
(***************************************************************************)
EXTENDS Naturals, FiniteSets, Sequences

CONSTANTS Files,       \* upload ids
          Readers,     \* threads inside get_file
          MaxFiles,    \* settings.MAX_INMEMORY_FILES
          MaxHolders,  \* bound: jobs that reserve one file at a time
          MaxFaults,   \* bound: failing calls per behaviour
          MaxCrashes,  \* bound: process stops per behaviour
          NoFile       \* "no value" marker

ASSUME StoreAssumption ==
    /\ IsFiniteSet(Files) /\ NoFile \notin Files /\ IsFiniteSet(Readers)
    /\ MaxFiles \in Nat \ {0}
    /\ {MaxHolders, MaxFaults, MaxCrashes} \subseteq Nat

VARIABLES
    \* Durable.
    disk,       \* ids with a parquet file
    rows,       \* ids with a row of uploaded_files
    rowActive,  \* uploaded_files.active_jobs
    \* In memory.
    up,         \* init_storage has run in this process
    index,      \* keys of _file_index
    counts,     \* metadata["active_jobs"] of the indexed files
    step,       \* where the holder of _file_store_lock is in store_file
    current,    \* the id it is storing
    victim,     \* the file it evicts
    reader,     \* what each get_file call has found so far
    \* The callers and the model's bookkeeping.
    issued,     \* ids generated, oldest first: uploads hold the lock, so this
                \* is the order of the index and of the rows (created_at, rowid)
    known,      \* ids returned to a client
    held,       \* reservations that jobs of this process hold
    faults, crashes

durableVars == <<disk, rows, rowActive>>
lockVars    == <<step, current, victim>>
boundVars   == <<faults, crashes>>
vars == <<durableVars, up, index, counts, lockVars, reader, issued, known,
          held, boundVars>>

Step    == {"free", "unlink", "forget", "write", "upsert"}
Reading == {"idle", "found", "loaded", "missing"}

TypeOK ==
    /\ {disk, rows, index, known} \subseteq SUBSET Files
    /\ issued \in Seq(Files)
    /\ {rowActive, counts, held} \subseteq [Files -> Nat]
    /\ up \in BOOLEAN /\ step \in Step
    /\ {current, victim} \subseteq Files \cup {NoFile}
    /\ step # "free" => current # NoFile
    /\ step \in {"unlink", "forget"} => victim # NoFile
    /\ reader \in [Readers -> [pc : Reading, file : Files \cup {NoFile}, holds : BOOLEAN]]
    /\ faults \in 0..MaxFaults /\ crashes \in 0..MaxCrashes

Idle == [pc |-> "idle", file |-> NoFile, holds |-> FALSE]
Zero == [f \in Files |-> 0]

Init ==
    /\ disk = {} /\ rows = {} /\ rowActive = Zero
    /\ up = TRUE /\ index = {} /\ counts = Zero
    /\ step = "free" /\ current = NoFile /\ victim = NoFile
    /\ reader = [r \in Readers |-> Idle]
    /\ issued = <<>> /\ known = {} /\ held = Zero
    /\ faults = 0 /\ crashes = 0
-----------------------------------------------------------------------------
\* A call to the file system or the database raises.
Fault == /\ faults < MaxFaults
         /\ faults' = faults + 1
         /\ UNCHANGED crashes

Unlock == /\ step' = "free" /\ current' = NoFile /\ victim' = NoFile

\* Mutant: the reservations are not looked at.
WholeIndex == index

\* _oldest_evictable_file: the first unreserved entry of the index.
Unreserved == {f \in index : counts[f] = 0}
IssuedBy(f, g) == \E i, j \in DOMAIN issued : i <= j /\ issued[i] = f /\ issued[j] = g
OldestEvictable == {f \in Unreserved : \A g \in Unreserved : IssuedBy(f, g)}

Fresh(f) == \A i \in DOMAIN issued : issued[i] # f

\* store_file takes the lock; with a full index it pops a victim, and with
\* every file reserved it raises RuntimeError and changes nothing.
BeginStore(f) ==
    /\ up /\ step = "free" /\ Fresh(f)
    /\ issued' = Append(issued, f)
    /\ current' = f
    /\ \/ /\ Cardinality(index) < MaxFiles
          /\ step' = "write"
          /\ UNCHANGED <<index, victim>>
       \/ /\ Cardinality(index) >= MaxFiles
          /\ victim' \in OldestEvictable
          /\ index' = index \ {victim'}
          /\ step' = "unlink"
    /\ UNCHANGED <<durableVars, up, counts, reader, known, held, boundVars>>

\* _remove_disk_file: an OSError is logged and the eviction goes on.
Unlink ==
    /\ step = "unlink"
    /\ \/ disk' = disk \ {victim} /\ UNCHANGED boundVars
       \/ Fault /\ UNCHANGED disk
    /\ step' = "forget"
    /\ UNCHANGED <<rows, rowActive, up, index, counts, current, victim, reader,
                   issued, known, held>>

\* _delete_metadata; its exception ends the upload.
Forget ==
    /\ step = "forget"
    /\ \/ /\ rows' = rows \ {victim}
          /\ step' = "write"
          /\ UNCHANGED <<current, victim, boundVars>>
       \/ Fault /\ Unlock /\ UNCHANGED rows
    /\ UNCHANGED <<disk, rowActive, up, index, counts, reader, issued, known,
                   held>>

\* df.to_parquet, then the index entry; a failed write may leave a part of
\* the file behind.
Write ==
    /\ step = "write"
    /\ \/ /\ disk' = disk \cup {current}
          /\ index' = index \cup {current}
          /\ counts' = [counts EXCEPT ![current] = 0]
          /\ step' = "upsert"
          /\ UNCHANGED <<current, victim, boundVars>>
       \/ /\ Fault /\ Unlock
          /\ disk' \in {disk, disk \cup {current}}
          /\ UNCHANGED <<index, counts>>
    /\ UNCHANGED <<rows, rowActive, up, reader, issued, known, held>>

\* _upsert_metadata, and the id is returned; or it raises, and the index
\* keeps an entry whose id no client has.
Upsert ==
    /\ step = "upsert"
    /\ \/ /\ rows' = rows \cup {current}
          /\ rowActive' = [rowActive EXCEPT ![current] = counts[current]]
          /\ known' = known \cup {current}
          /\ UNCHANGED boundVars
       \/ Fault /\ UNCHANGED <<rows, rowActive, known>>
    /\ Unlock
    /\ UNCHANGED <<disk, up, index, counts, reader, issued, held>>

\* reserve_file and release_file: one critical section each.  The index counts
\* first, then _update_active_jobs; when that raises, the caller has no
\* reservation but the index has counted it.
Counted(change) ==
    /\ rowActive' = [f \in Files |-> IF f \in rows THEN change[f] ELSE rowActive[f]]
    /\ UNCHANGED boundVars

Reserve(f) ==
    /\ up /\ step = "free" /\ f \in known /\ held[f] < MaxHolders
    /\ f \in index
    /\ counts' = [counts EXCEPT ![f] = @ + 1]
    /\ \/ /\ Counted([rowActive EXCEPT ![f] = @ + 1])
          /\ held' = [held EXCEPT ![f] = @ + 1]
       \/ Fault /\ UNCHANGED <<rowActive, held>>
    /\ UNCHANGED <<disk, rows, up, index, lockVars, reader, issued, known>>

\* A job gives its reservation back once it no longer reads the file.
ReadingHolders(f) == {r \in Readers : reader[r].file = f /\ reader[r].holds}

Release(f) ==
    /\ up /\ step = "free" /\ held[f] > Cardinality(ReadingHolders(f))
    /\ held' = [held EXCEPT ![f] = @ - 1]
    /\ IF f \in index /\ counts[f] > 0
       THEN /\ counts' = [counts EXCEPT ![f] = @ - 1]
            /\ \/ Counted([rowActive EXCEPT ![f] = IF @ = 0 THEN 0 ELSE @ - 1])
               \/ Fault /\ UNCHANGED rowActive
       ELSE UNCHANGED <<counts, rowActive, boundVars>>
    /\ UNCHANGED <<disk, rows, up, index, lockVars, reader, issued, known>>

\* get_file, without the lock: the index lookup, then the parquet file.
Lookup(r, f) ==
    /\ up /\ reader[r].pc = "idle" /\ f \in known
    /\ reader' = [reader EXCEPT ![r] =
                    [pc |-> IF f \in index THEN "found" ELSE "missing",
                     file |-> f,
                     holds |-> held[f] > Cardinality(ReadingHolders(f))]]
    /\ UNCHANGED <<durableVars, up, index, counts, lockVars, issued, known, held,
                   boundVars>>

Load(r) ==
    /\ reader[r].pc = "found"
    /\ reader' = [reader EXCEPT ![r].pc =
                    IF reader[r].file \in disk THEN "loaded" ELSE "missing"]
    /\ UNCHANGED <<durableVars, up, index, counts, lockVars, issued, known, held,
                   boundVars>>

Return(r) ==
    /\ reader[r].pc \in {"loaded", "missing"}
    /\ reader' = [reader EXCEPT ![r] = Idle]
    /\ UNCHANGED <<durableVars, up, index, counts, lockVars, issued, known, held,
                   boundVars>>
-----------------------------------------------------------------------------
Crash ==
    /\ up /\ crashes < MaxCrashes
    /\ up' = FALSE /\ crashes' = crashes + 1
    /\ index' = {} /\ counts' = Zero /\ held' = Zero /\ Unlock
    /\ reader' = [r \in Readers |-> Idle]
    /\ UNCHANGED <<durableVars, issued, known, faults>>

\* UPDATE uploaded_files SET active_jobs = 0
ResetCounters == Zero

\* init_storage: one transaction zeroes the counters, drops the rows whose
\* parquet file is gone, and the index is rebuilt from the others.
InitStorage ==
    /\ ~up /\ up' = TRUE
    /\ rows' = rows \cap disk
    /\ rowActive' = ResetCounters
    /\ index' = rows'
    /\ counts' = [f \in Files |-> rowActive'[f]]
    /\ UNCHANGED <<disk, lockVars, reader, issued, known, held, boundVars>>

LockedStep == Unlink \/ Forget \/ Write \/ Upsert
GetFile(r) == (\E f \in Files : Lookup(r, f)) \/ Load(r) \/ Return(r)

Next ==
    \/ \E f \in Files : BeginStore(f) \/ Reserve(f) \/ Release(f)
    \/ LockedStep
    \/ \E r \in Readers : GetFile(r)
    \/ Crash
    \/ InitStorage

Spec == Init /\ [][Next]_vars
-----------------------------------------------------------------------------
(***************************************************************************)
(* Properties.                                                             *)
(***************************************************************************)

\* A job that holds a reservation can always load its file: no upload, no
\* failed eviction and no restart takes the index entry, the parquet file or
\* the row away (get_file in _run_job reads without the lock).
ReservedReadSucceeds ==
    /\ \A f \in Files : held[f] > 0 => f \in index /\ f \in disk /\ f \in rows
    /\ \A r \in Readers : reader[r].holds => reader[r].pc # "missing"

\* The abstract store: a file is stored while it has a row and a parquet file
\* that the running process knows of, or the next one will; an id no client was
\* given was never issued.
IsStored(f) == f \in rows \cap disk /\ (up => f \in index \/ f = victim)

Life == [f \in Files |-> IF IsStored(f) THEN "stored"
                         ELSE IF f \in known THEN "gone" ELSE "new"]
Reserved == [f \in Files |-> IF IsStored(f) THEN counts[f] ELSE 0]

Abstract == INSTANCE FileReservations WITH files <- Life, active <- Reserved

\* Every step of the store, with the failures and stops in between, is a
\* step the job scheduler was told to expect.
ImplementsReservations == Abstract!FilesSpec
=============================================================================
