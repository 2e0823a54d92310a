--------------------------- MODULE FileReservations ---------------------------
(***************************************************************************)
(* What services/file_service.py promises the job scheduler: an uploaded   *)
(* file is stored under a fresh id, it is evicted only while no job        *)
(* reserves it, and reservations are counted.  FileStore.tla is the        *)
(* detailed store (index, parquet file, SQLite row, lock, failing calls,   *)
(* crashes) and implements this specification; JobService.tla builds on it.*)
(* How many files are kept is no promise: an eviction whose two deletions  *)
(* both fail leaves a file that the next start finds again.                *)
(***************************************************************************)
EXTENDS Naturals, FiniteSets

CONSTANT Files  \* upload ids (uuid4 in the code: never issued twice)

ASSUME FilesAssumption == IsFiniteSet(Files)

VARIABLES files,    \* [Files -> FileState]: where each id is in its life
          active    \* [Files -> Nat]: metadata["active_jobs"]

fileVars == <<files, active>>

FileState == {"new", "stored", "gone"}

FilesTypeOK == /\ files \in [Files -> FileState]
               /\ active \in [Files -> Nat]

Stored == {f \in Files : files[f] = "stored"}

\* Mutant: reservations are not looked at.
EvictableAny == Stored

\* Files that _oldest_evictable_file may return: cached and unreserved.
Evictable == {f \in Stored : active[f] = 0}
-----------------------------------------------------------------------------
FilesInit == /\ files = [f \in Files |-> "new"]
             /\ active = [f \in Files |-> 0]

\* store_file, up to the row that makes the new id known.
StoreFile(f) ==
    /\ files[f] = "new"
    /\ files' = [files EXCEPT ![f] = "stored"]
    /\ UNCHANGED active

\* store_file makes room, whether or not its upload then succeeds.
EvictFile(f) ==
    /\ f \in Evictable
    /\ files' = [files EXCEPT ![f] = "gone"]
    /\ UNCHANGED active

\* reserve_file: counted only when the file is still in the index.
ReserveFile(f) ==
    /\ files[f] = "stored"
    /\ active' = [active EXCEPT ![f] = @ + 1]
    /\ UNCHANGED files

\* release_file: a no-op for an absent or unreserved file.
ReleaseFile(f) ==
    /\ active' = IF files[f] = "stored" /\ active[f] > 0
                 THEN [active EXCEPT ![f] = @ - 1] ELSE active
    /\ UNCHANGED files

\* What the next start may find: a file is back whose eviction failed twice.
Found == {g \in [Files -> FileState] :
            \A f \in Files : g[f] = files[f] \/ (files[f] = "gone" /\ g[f] = "stored")}

\* init_storage at start-up zeroes every counter; the jobs restored after it
\* reserve their files again, and only stored files can be reserved.
RestoreReservations ==
    /\ files' \in Found
    /\ active' \in [Files -> Nat]
    /\ \A f \in Files : files'[f] # "stored" => active'[f] = 0

FilesNext ==
    \/ \E f \in Files : \/ StoreFile(f) \/ EvictFile(f)
                        \/ ReserveFile(f) \/ ReleaseFile(f)
    \/ RestoreReservations

FilesSpec == FilesInit /\ [][FilesNext]_fileVars
=============================================================================
