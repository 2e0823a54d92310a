----------------------------- MODULE DataProofs -----------------------------
(***************************************************************************)
(* Theorems about data before and after a forecast, for every value of the *)
(* constants.                                                              *)
(*                                                                         *)
(* FileStore: a job that reserved its file can read it, and the store      *)
(* implements FileReservations, on which JobService builds.  KnownContext  *)
(* and DataPreparation: a fit knows nothing of the time after its cutoff,  *)
(* and the calendar of a prepared series says what the table says.         *)
(* ForecastMonitoring: a comparison does not depend on the order in which  *)
(* its jobs are named, and one more actual never makes it say less.        *)
(*                                                                         *)
(* The strengthening for the store, StoreInv: an id that a client has and  *)
(* that is in the index has its row and its parquet file (Backed); the     *)
(* reservations of the running jobs are counted (Accounted); and what the  *)
(* holder of the lock is changing is in neither of those (LockSound).      *)
(***************************************************************************)
EXTENDS FileStore, KnownContext, DataPreparation, ForecastMonitoring, FiniteSums

Backed ==
    /\ rows \subseteq known
    /\ index \cap known \subseteq disk \cap rows
    /\ \A f \in known \cup index : ~Fresh(f)

Accounted ==
    /\ \A f \in Files : held[f] <= counts[f]
    /\ \A f \in Files : held[f] > 0 => f \in index /\ f \in known
    /\ \A f \in Files : Cardinality(ReadingHolders(f)) <= held[f]
    /\ \A r \in Readers : reader[r].holds =>
          reader[r].file \in Files /\ reader[r].pc \in {"found", "loaded"}

LockSound ==
    /\ step = "free" => victim = NoFile
    /\ step # "free" => current \in Files /\ current \notin known /\ ~Fresh(current)
    /\ step \in {"unlink", "forget", "write"} => current \notin index
    /\ step \in {"unlink", "forget"} =>
          victim \in Files /\ victim \notin index /\ counts[victim] = 0
    /\ step \in {"write", "upsert"} => victim \notin rows
    /\ step = "upsert" => current \in index /\ current \in disk /\ counts[current] = 0

Down == ~up => /\ step = "free" /\ index = {} /\ counts = Zero /\ held = Zero
               /\ reader = [r \in Readers |-> Idle]

StoreInv == TypeOK /\ Backed /\ Accounted /\ LockSound /\ Down

-----------------------------------------------------------------------------
LEMMA ReadersFinite ==
    ASSUME NEW f
    PROVE  IsFiniteSet(ReadingHolders(f)) /\ Cardinality(ReadingHolders(f)) \in Nat
<1>1. IsFiniteSet(ReadingHolders(f))
  BY StoreAssumption, FS_Subset DEF ReadingHolders
<1> QED
  BY <1>1, FS_CardinalityType

\* A reader that holds a reservation is covered by one.
LEMMA ReaderCovered ==
    ASSUME StoreInv, NEW r \in Readers, reader[r].holds
    PROVE  /\ reader[r].file \in Files /\ held[reader[r].file] > 0
           /\ reader[r].file \in index \cap known
<1> DEFINE f == reader[r].file
<1>1. f \in Files /\ r \in ReadingHolders(f)
  BY DEF StoreInv, Accounted, ReadingHolders
<1>2. Cardinality(ReadingHolders(f)) > 0
  <2>1. ReadingHolders(f) # {}
    BY <1>1
  <2>2. Cardinality(ReadingHolders(f)) # 0
    BY <2>1, ReadersFinite, FS_EmptySet
  <2> QED
    BY <2>2, ReadersFinite
<1>3. held[f] \in Nat /\ Cardinality(ReadingHolders(f)) \in Nat
  BY <1>1, ReadersFinite DEF StoreInv, TypeOK
<1>4. held[f] > 0
  BY <1>1, <1>2, <1>3 DEF StoreInv, Accounted
<1> QED
  BY <1>1, <1>4 DEF StoreInv, Accounted

\* Where nobody's call or reservation changes, the readers stay covered.
LEMMA CoveredFrame ==
    ASSUME StoreInv, UNCHANGED <<reader, held>>,
           \A f \in Files : held[f] > 0 => /\ f \in index' /\ f \in known'
                                           /\ counts'[f] = counts[f],
           counts' \in [Files -> Nat]
    PROVE  Accounted'
<1>1. \A f : ReadingHolders(f)' = ReadingHolders(f)
  BY DEF ReadingHolders
<1>2. \A f \in Files : held[f] \in Nat /\ counts'[f] \in Nat
  BY DEF StoreInv, TypeOK
<1> QED
  BY <1>1, <1>2 DEF StoreInv, Accounted

\* What was issued stays issued.
LEMMA FreshFrame ==
    ASSUME TypeOK, NEW f \in Files, issued' = Append(issued, f)
    PROVE  /\ ~Fresh(f)' /\ issued' \in Seq(Files)
           /\ \A g : ~Fresh(g) => ~Fresh(g)'
<1>1. issued \in Seq(Files)
  BY DEF TypeOK
<1>2. /\ issued' \in Seq(Files) /\ Len(issued') = Len(issued) + 1
      /\ issued'[Len(issued) + 1] = f
      /\ \A i \in 1 .. Len(issued) : issued'[i] = issued[i]
  BY <1>1
<1>3. DOMAIN issued' = 1 .. Len(issued) + 1 /\ DOMAIN issued = 1 .. Len(issued)
      /\ Len(issued) \in Nat
  BY <1>1, <1>2
<1>4. \A i \in DOMAIN issued : i \in DOMAIN issued' /\ issued'[i] = issued[i]
  BY <1>2, <1>3
<1>5. Len(issued) + 1 \in DOMAIN issued'
  BY <1>3
<1> QED
  BY <1>2, <1>4, <1>5 DEF Fresh
-----------------------------------------------------------------------------
(***************************************************************************)
(* Every action keeps StoreInv.                                            *)
(***************************************************************************)
LEMMA InitInv == Init => StoreInv
<1> SUFFICES ASSUME Init PROVE StoreInv
  OBVIOUS
<1> USE DEF Init, Zero, Idle
<1>1. TypeOK
  BY StoreAssumption DEF TypeOK, Step, Reading
<1>2. \A f \in Files : ReadingHolders(f) = {}
  BY DEF ReadingHolders
<1>3. Accounted
  BY <1>2, FS_EmptySet DEF Accounted
<1> QED
  BY <1>1, <1>3 DEF StoreInv, Backed, LockSound, Down

LEMMA BeginStoreInv ==
    ASSUME StoreInv, NEW f \in Files, BeginStore(f)
    PROVE  StoreInv'
<1>0. TypeOK /\ Backed /\ Accounted /\ LockSound
  BY DEF StoreInv
<1>1. /\ up /\ step = "free" /\ Fresh(f) /\ issued' = Append(issued, f) /\ current' = f
      /\ UNCHANGED <<disk, rows, rowActive, up, counts, reader, known, held, faults, crashes>>
  BY DEF BeginStore, durableVars, boundVars
<1>2. /\ ~Fresh(f)' /\ issued' \in Seq(Files)
      /\ \A g : ~Fresh(g) => ~Fresh(g)'
  BY <1>0, <1>1, FreshFrame
<1>3. \/ step' = "write" /\ UNCHANGED <<index, victim>>
      \/ /\ step' = "unlink" /\ victim' \in index /\ counts[victim'] = 0
         /\ index' = index \ {victim'}
  BY DEF BeginStore, OldestEvictable, Unreserved
<1>4. f \notin index /\ f \notin known /\ f \notin rows
  BY <1>0, <1>1 DEF Backed
<1>5. victim = NoFile
  BY <1>0, <1>1 DEF LockSound
<1>6. TypeOK'
  BY <1>0, <1>1, <1>2, <1>3, StoreAssumption DEF TypeOK, Step
<1>7. Backed'
  BY <1>0, <1>1, <1>2, <1>3 DEF Backed
<1>8. \A g \in Files : held[g] > 0 => g \in index' /\ g \in known'
  <2>1. \A g \in Files : counts[g] \in Nat /\ held[g] \in Nat /\ held[g] <= counts[g]
    BY <1>0 DEF TypeOK, Accounted
  <2>2. \A g \in Files : held[g] > 0 => counts[g] # 0
    BY <2>1
  <2> QED
    BY <1>0, <1>1, <1>3, <2>2 DEF Accounted
<1>9. Accounted'
  BY <1>0, <1>1, <1>8, CoveredFrame DEF TypeOK
<1>10. LockSound'
  BY <1>0, <1>1, <1>2, <1>3, <1>4, <1>5, StoreAssumption DEF LockSound, TypeOK
<1> QED
  BY <1>1, <1>6, <1>7, <1>9, <1>10 DEF StoreInv, Down

LEMMA UnlinkInv == ASSUME StoreInv, Unlink PROVE StoreInv'
<1>0. TypeOK /\ Backed /\ Accounted /\ LockSound /\ Down
  BY DEF StoreInv
<1>1. /\ step = "unlink" /\ step' = "forget" /\ disk' \in {disk, disk \ {victim}}
      /\ UNCHANGED <<rows, rowActive, up, index, counts, current, victim, reader,
                     issued, known, held>>
  BY DEF Unlink
<1>2. faults' \in 0..MaxFaults /\ crashes' = crashes
  BY <1>0, StoreAssumption DEF Unlink, Fault, boundVars, TypeOK
<1>3. TypeOK'
  BY <1>0, <1>1, <1>2 DEF TypeOK, Step
<1>4. Backed'
  BY <1>0, <1>1 DEF Backed, LockSound, Fresh
<1>5. Accounted'
  BY <1>0, <1>1, CoveredFrame DEF TypeOK, Accounted
<1>6. LockSound'
  BY <1>0, <1>1 DEF LockSound, Fresh
<1> QED
  BY <1>0, <1>1, <1>3, <1>4, <1>5, <1>6 DEF StoreInv, Down

LEMMA ForgetInv == ASSUME StoreInv, Forget PROVE StoreInv'
<1>0. TypeOK /\ Backed /\ Accounted /\ LockSound /\ Down
  BY DEF StoreInv
<1>1. /\ step = "forget"
      /\ UNCHANGED <<disk, rowActive, up, index, counts, reader, issued, known, held>>
  BY DEF Forget
<1>2. \/ /\ rows' = rows \ {victim} /\ step' = "write"
         /\ UNCHANGED <<current, victim>>
      \/ /\ step' = "free" /\ current' = NoFile /\ victim' = NoFile /\ rows' = rows
  BY DEF Forget, Unlock
<1>3. faults' \in 0..MaxFaults /\ crashes' = crashes
  BY <1>0, StoreAssumption DEF Forget, Fault, boundVars, TypeOK
<1>4. TypeOK'
  BY <1>0, <1>1, <1>2, <1>3 DEF TypeOK, Step
<1>5. Backed'
  BY <1>0, <1>1, <1>2 DEF Backed, LockSound, Fresh
<1>6. Accounted'
  BY <1>0, <1>1, CoveredFrame DEF TypeOK, Accounted
<1>7. LockSound'
  BY <1>0, <1>1, <1>2 DEF LockSound, Fresh
<1> QED
  BY <1>0, <1>1, <1>2, <1>4, <1>5, <1>6, <1>7 DEF StoreInv, Down

LEMMA WriteInv == ASSUME StoreInv, Write PROVE StoreInv'
<1>0. TypeOK /\ Backed /\ Accounted /\ LockSound /\ Down
  BY DEF StoreInv
<1>1. /\ step = "write" /\ up
      /\ UNCHANGED <<rows, rowActive, up, reader, issued, known, held>>
      /\ current \in Files /\ current \notin known /\ current \notin index
  BY <1>0 DEF Write, LockSound, Down
<1>2. \/ /\ disk' = disk \cup {current} /\ index' = index \cup {current}
         /\ counts' = [counts EXCEPT ![current] = 0] /\ step' = "upsert"
         /\ UNCHANGED <<current, victim>>
      \/ /\ step' = "free" /\ current' = NoFile /\ victim' = NoFile
         /\ disk' \in {disk, disk \cup {current}} /\ UNCHANGED <<index, counts>>
  BY DEF Write, Unlock
<1>3. faults' \in 0..MaxFaults /\ crashes' = crashes
  BY <1>0, StoreAssumption DEF Write, Fault, boundVars, TypeOK
<1>4. TypeOK'
  <2>1. counts' \in [Files -> Nat]
    BY <1>0, <1>1, <1>2 DEF TypeOK
  <2> QED
    BY <1>0, <1>1, <1>2, <1>3, <2>1 DEF TypeOK, Step
<1>5. Backed'
  BY <1>0, <1>1, <1>2 DEF Backed, LockSound, Fresh
<1>6. \A g \in Files : held[g] > 0 => g \in index' /\ g \in known' /\ counts'[g] = counts[g]
  BY <1>0, <1>1, <1>2 DEF Accounted, TypeOK
<1>7. Accounted'
  BY <1>1, <1>4, <1>6, CoveredFrame DEF TypeOK
<1>8. LockSound'
  BY <1>0, <1>1, <1>2 DEF LockSound, Fresh, TypeOK
<1> QED
  BY <1>1, <1>4, <1>5, <1>7, <1>8 DEF StoreInv, Down

LEMMA UpsertInv == ASSUME StoreInv, Upsert PROVE StoreInv'
<1>0. TypeOK /\ Backed /\ Accounted /\ LockSound /\ Down
  BY DEF StoreInv
<1>1. /\ step = "upsert" /\ up
      /\ UNCHANGED <<disk, up, index, counts, reader, issued, held>>
      /\ step' = "free" /\ current' = NoFile /\ victim' = NoFile
      /\ current \in Files /\ current \notin known /\ current \in index
      /\ current \in disk /\ ~Fresh(current)
  BY <1>0 DEF Upsert, Unlock, LockSound, Down
<1>2. \/ /\ rows' = rows \cup {current} /\ known' = known \cup {current}
         /\ rowActive' = [rowActive EXCEPT ![current] = counts[current]]
      \/ UNCHANGED <<rows, rowActive, known>>
  BY DEF Upsert
<1>3. faults' \in 0..MaxFaults /\ crashes' = crashes
  BY <1>0, StoreAssumption DEF Upsert, Fault, boundVars, TypeOK
<1>4. TypeOK'
  <2>1. rowActive' \in [Files -> Nat]
    BY <1>0, <1>1, <1>2 DEF TypeOK
  <2> QED
    BY <1>0, <1>1, <1>2, <1>3, <2>1 DEF TypeOK, Step
<1>5. Backed'
  BY <1>0, <1>1, <1>2 DEF Backed, Fresh
<1>6. Accounted'
  BY <1>0, <1>1, <1>2, CoveredFrame DEF TypeOK, Accounted
<1>7. LockSound'
  BY <1>1 DEF LockSound
<1> QED
  BY <1>1, <1>4, <1>5, <1>6, <1>7 DEF StoreInv, Down

LEMMA ReserveInv ==
    ASSUME StoreInv, NEW f \in Files, Reserve(f)
    PROVE  StoreInv'
<1>0. TypeOK /\ Backed /\ Accounted /\ LockSound /\ Down
  BY DEF StoreInv
<1>1. /\ up /\ step = "free" /\ f \in known /\ f \in index
      /\ counts' = [counts EXCEPT ![f] = @ + 1]
      /\ UNCHANGED <<disk, rows, up, index, step, current, victim, reader, issued, known>>
  BY DEF Reserve, lockVars
<1>2. held' = [held EXCEPT ![f] = @ + 1] \/ held' = held
  BY DEF Reserve
<1>3. rowActive' \in [Files -> Nat]
  <2>1. [rowActive EXCEPT ![f] = @ + 1] \in [Files -> Nat]
    BY <1>0 DEF TypeOK
  <2>2. \/ Counted([rowActive EXCEPT ![f] = @ + 1])
        \/ rowActive' = rowActive
    BY DEF Reserve
  <2> QED
    BY <1>0, <2>1, <2>2 DEF Counted, TypeOK
<1>4. faults' \in 0..MaxFaults /\ crashes' = crashes
  BY <1>0, StoreAssumption DEF Reserve, Counted, Fault, boundVars, TypeOK
<1>5. counts' \in [Files -> Nat] /\ held' \in [Files -> Nat]
  <2>1. counts \in [Files -> Nat] /\ held \in [Files -> Nat]
    BY <1>0 DEF TypeOK
  <2>2. counts[f] + 1 \in Nat /\ held[f] + 1 \in Nat
    BY <2>1
  <2> QED
    BY <1>1, <1>2, <2>1, <2>2
<1>6. TypeOK'
  BY <1>0, <1>1, <1>3, <1>4, <1>5 DEF TypeOK
<1>7. Backed'
  BY <1>0, <1>1 DEF Backed, Fresh
<1>8. \A g : ReadingHolders(g)' = ReadingHolders(g)
  BY <1>1 DEF ReadingHolders
<1>9. \A g \in Files : /\ held[g] \in Nat /\ counts[g] \in Nat
                       /\ held[g] <= held'[g] /\ held'[g] <= counts'[g]
                       /\ g # f => held'[g] = held[g]
  BY <1>0, <1>1, <1>2 DEF TypeOK, Accounted
<1>10. \A g \in Files : Cardinality(ReadingHolders(g)) <= held'[g]
  BY <1>0, <1>5, <1>9, ReadersFinite DEF Accounted
<1>11. Accounted'
  BY <1>0, <1>1, <1>8, <1>9, <1>10 DEF Accounted
<1>12. LockSound'
  BY <1>0, <1>1 DEF LockSound
<1> QED
  BY <1>1, <1>6, <1>7, <1>11, <1>12 DEF StoreInv, Down

LEMMA ReleaseInv ==
    ASSUME StoreInv, NEW f \in Files, Release(f)
    PROVE  /\ StoreInv'
           /\ f \in index \cap known /\ counts[f] > 0
           /\ counts' = [counts EXCEPT ![f] = @ - 1]
<1>0. TypeOK /\ Backed /\ Accounted /\ LockSound /\ Down
  BY DEF StoreInv
<1>1. /\ up /\ step = "free" /\ held[f] > Cardinality(ReadingHolders(f))
      /\ held' = [held EXCEPT ![f] = @ - 1]
      /\ UNCHANGED <<disk, rows, up, index, step, current, victim, reader, issued, known>>
  BY DEF Release, lockVars
<1>2. \A g \in Files : held[g] \in Nat /\ counts[g] \in Nat /\ held[g] <= counts[g]
  BY <1>0 DEF TypeOK, Accounted
<1>3. \A g : Cardinality(ReadingHolders(g)) \in Nat
  BY ReadersFinite
<1>4. held[f] > 0
  BY <1>1, <1>2, <1>3
<1>5. f \in index /\ f \in known /\ counts[f] > 0
  BY <1>0, <1>2, <1>4 DEF Accounted
<1>6. counts' = [counts EXCEPT ![f] = @ - 1]
  BY <1>5 DEF Release
<1>7. rowActive' \in [Files -> Nat]
  <2>1. rowActive[f] \in Nat
    BY <1>0 DEF TypeOK
  <2>2. (IF rowActive[f] = 0 THEN 0 ELSE rowActive[f] - 1) \in Nat
    BY <2>1
  <2> QED
    BY <1>0, <1>5, <2>2 DEF Release, Counted, TypeOK
<1>8. faults' \in 0..MaxFaults /\ crashes' = crashes
  BY <1>0, <1>5, StoreAssumption DEF Release, Counted, Fault, boundVars, TypeOK
<1>9. counts[f] - 1 \in Nat /\ held[f] - 1 \in Nat
  BY <1>2, <1>4, <1>5
<1>10. counts' \in [Files -> Nat] /\ held' \in [Files -> Nat]
  BY <1>0, <1>1, <1>6, <1>9 DEF TypeOK
<1>11. TypeOK'
  BY <1>0, <1>1, <1>7, <1>8, <1>10 DEF TypeOK
<1>12. Backed'
  BY <1>0, <1>1 DEF Backed, Fresh
<1>13. \A g : ReadingHolders(g)' = ReadingHolders(g)
  BY <1>1 DEF ReadingHolders
<1>14. \A g \in Files : g # f => held'[g] = held[g] /\ counts'[g] = counts[g]
  BY <1>0, <1>1, <1>6 DEF TypeOK
<1>15. held'[f] = held[f] - 1 /\ counts'[f] = counts[f] - 1
  BY <1>0, <1>1, <1>6 DEF TypeOK
<1>16. \A g \in Files : /\ held'[g] <= counts'[g]
                        /\ held'[g] > 0 => held[g] > 0
                        /\ Cardinality(ReadingHolders(g)) <= held'[g]
  BY <1>0, <1>1, <1>2, <1>3, <1>14, <1>15 DEF Accounted
<1>17. Accounted'
  BY <1>0, <1>1, <1>13, <1>16 DEF Accounted
<1>18. LockSound'
  BY <1>0, <1>1 DEF LockSound
<1> QED
  BY <1>1, <1>5, <1>6, <1>11, <1>12, <1>17, <1>18 DEF StoreInv, Down

\* Reading changes nothing but the readers.
LEMMA ReadInv ==
    ASSUME StoreInv, up, TypeOK', Accounted',
           UNCHANGED <<disk, rows, up, index, counts, step, current, victim, issued,
                       known, held>>
    PROVE  StoreInv'
<1>1. Backed' /\ LockSound' /\ Down'
  BY DEF StoreInv, Backed, LockSound, Down, Fresh
<1> QED
  BY <1>1 DEF StoreInv

LEMMA LookupInv ==
    ASSUME StoreInv, NEW r \in Readers, NEW f \in Files, Lookup(r, f)
    PROVE  StoreInv'
<1>0. TypeOK /\ Accounted
  BY DEF StoreInv
<1> DEFINE holds == held[f] > Cardinality(ReadingHolders(f))
           found == [pc |-> IF f \in index THEN "found" ELSE "missing",
                     file |-> f, holds |-> holds]
<1>1. /\ up /\ reader[r].pc = "idle" /\ reader' = [reader EXCEPT ![r] = found]
      /\ UNCHANGED <<disk, rows, rowActive, up, index, counts, step, current, victim,
                     issued, known, held, faults, crashes>>
  BY DEF Lookup, durableVars, lockVars, boundVars
<1>2. held[f] \in Nat /\ Cardinality(ReadingHolders(f)) \in Nat
  BY <1>0, ReadersFinite DEF TypeOK
<1>3. holds \in BOOLEAN /\ (holds => held[f] > 0)
  BY <1>2
<1>4. /\ found \in [pc : Reading, file : Files \cup {NoFile}, holds : BOOLEAN]
      /\ found.file = f /\ found.holds = holds
      /\ holds => found.pc = "found"
  BY <1>0, <1>3 DEF Reading, Accounted
<1> HIDE DEF found
<1>5. TypeOK'
  BY <1>0, <1>1, <1>4 DEF TypeOK
<1>6. ~reader[r].holds
  BY <1>0, <1>1 DEF Accounted
<1>7. /\ reader'[r] = found
      /\ \A q \in Readers : q # r => reader'[q] = reader[q]
  BY <1>0, <1>1 DEF TypeOK
<1>8. \A g \in Files : ReadingHolders(g)' = IF g = f /\ holds THEN ReadingHolders(g) \cup {r}
                                              ELSE ReadingHolders(g)
  BY <1>4, <1>6, <1>7 DEF ReadingHolders
<1>9. r \notin ReadingHolders(f)
  BY <1>6 DEF ReadingHolders
<1>10. Cardinality(ReadingHolders(f) \cup {r}) = Cardinality(ReadingHolders(f)) + 1
  BY <1>9, ReadersFinite, FS_AddElement
<1>11. \A g \in Files : Cardinality(ReadingHolders(g)') <= held[g]
  <2> SUFFICES ASSUME NEW g \in Files PROVE Cardinality(ReadingHolders(g)') <= held[g]
    OBVIOUS
  <2>1. CASE g = f /\ holds
    BY <1>2, <1>8, <1>10, <2>1
  <2>2. CASE ~(g = f /\ holds)
    BY <1>0, <1>8, <2>2 DEF Accounted
  <2> QED
    BY <2>1, <2>2
<1>12. Accounted'
  <2>1. \A q \in Readers : reader'[q].holds =>
           reader'[q].file \in Files /\ reader'[q].pc \in {"found", "loaded"}
    BY <1>0, <1>4, <1>7 DEF Accounted
  <2> QED
    BY <1>0, <1>1, <1>11, <2>1 DEF Accounted
<1> QED
  BY <1>1, <1>5, <1>12, ReadInv

LEMMA LoadInv ==
    ASSUME StoreInv, NEW r \in Readers, Load(r)
    PROVE  StoreInv'
<1>0. TypeOK /\ Backed /\ Accounted /\ Down
  BY DEF StoreInv
<1> DEFINE pc == IF reader[r].file \in disk THEN "loaded" ELSE "missing"
<1>1. /\ reader[r].pc = "found" /\ reader' = [reader EXCEPT ![r].pc = pc]
      /\ UNCHANGED <<disk, rows, rowActive, up, index, counts, step, current, victim,
                     issued, known, held, faults, crashes>>
  BY DEF Load, durableVars, lockVars, boundVars
<1>2. up
  BY <1>0, <1>1 DEF Down, Idle
<1>3. /\ reader'[r].file = reader[r].file /\ reader'[r].holds = reader[r].holds
      /\ reader'[r].pc = pc
      /\ \A q \in Readers : q # r => reader'[q] = reader[q]
      /\ reader' \in [Readers -> [pc : Reading, file : Files \cup {NoFile}, holds : BOOLEAN]]
  BY <1>0, <1>1 DEF TypeOK, Reading
<1>4. TypeOK'
  BY <1>0, <1>1, <1>3 DEF TypeOK
<1>5. \A g : ReadingHolders(g)' = ReadingHolders(g)
  BY <1>3 DEF ReadingHolders
<1>6. reader[r].holds => pc = "loaded"
  BY <1>0, ReaderCovered DEF Backed
<1>7. Accounted'
  <2>1. \A q \in Readers : reader'[q].holds =>
           reader'[q].file \in Files /\ reader'[q].pc \in {"found", "loaded"}
    BY <1>0, <1>3, <1>6 DEF Accounted
  <2> QED
    BY <1>0, <1>1, <1>5, <2>1 DEF Accounted
<1> QED
  BY <1>1, <1>2, <1>4, <1>7, ReadInv

LEMMA ReturnInv ==
    ASSUME StoreInv, NEW r \in Readers, Return(r)
    PROVE  StoreInv'
<1>0. TypeOK /\ Accounted /\ Down
  BY DEF StoreInv
<1>1. /\ reader[r].pc \in {"loaded", "missing"} /\ reader' = [reader EXCEPT ![r] = Idle]
      /\ UNCHANGED <<disk, rows, rowActive, up, index, counts, step, current, victim,
                     issued, known, held, faults, crashes>>
  BY DEF Return, durableVars, lockVars, boundVars
<1>2. up
  BY <1>0, <1>1 DEF Down, Idle
<1>3. /\ reader'[r] = Idle
      /\ \A q \in Readers : q # r => reader'[q] = reader[q]
      /\ reader' \in [Readers -> [pc : Reading, file : Files \cup {NoFile}, holds : BOOLEAN]]
  BY <1>0, <1>1 DEF TypeOK, Reading, Idle
<1>4. TypeOK'
  BY <1>0, <1>1, <1>3 DEF TypeOK
<1>5. \A g \in Files : ReadingHolders(g)' \subseteq ReadingHolders(g)
  BY <1>3 DEF ReadingHolders, Idle
<1>6. \A g \in Files : Cardinality(ReadingHolders(g)') <= held[g]
  <2> SUFFICES ASSUME NEW g \in Files PROVE Cardinality(ReadingHolders(g)') <= held[g]
    OBVIOUS
  <2>1. /\ IsFiniteSet(ReadingHolders(g)')
        /\ Cardinality(ReadingHolders(g)') <= Cardinality(ReadingHolders(g))
    BY <1>5, ReadersFinite, FS_Subset
  <2>2. /\ Cardinality(ReadingHolders(g)') \in Nat /\ Cardinality(ReadingHolders(g)) \in Nat
        /\ held[g] \in Nat
    BY <1>0, <2>1, ReadersFinite, FS_CardinalityType DEF TypeOK
  <2> QED
    BY <1>0, <2>1, <2>2 DEF Accounted
<1>7. Accounted'
  <2>1. \A q \in Readers : reader'[q].holds =>
           reader'[q].file \in Files /\ reader'[q].pc \in {"found", "loaded"}
    BY <1>0, <1>3 DEF Accounted, Idle
  <2> QED
    BY <1>0, <1>1, <1>6, <2>1 DEF Accounted
<1> QED
  BY <1>1, <1>2, <1>4, <1>7, ReadInv

\* With idle readers and no reservation there is nothing to cover.
LEMMA NothingToCover ==
    ASSUME reader' = [r \in Readers |-> Idle], held' = Zero,
           counts' \in [Files -> Nat]
    PROVE  Accounted'
<1>1. \A f \in Files : ReadingHolders(f)' = {}
  BY DEF ReadingHolders, Idle
<1>2. \A f \in Files : Cardinality(ReadingHolders(f)') = 0 /\ held'[f] = 0 /\ counts'[f] \in Nat
  BY <1>1, FS_EmptySet DEF Zero
<1>3. \A r \in Readers : ~reader'[r].holds
  BY DEF Idle
<1> QED
  BY <1>2, <1>3 DEF Accounted

LEMMA CrashInv == ASSUME StoreInv, Crash PROVE StoreInv'
<1>0. TypeOK /\ Backed
  BY DEF StoreInv
<1>1. /\ up' = FALSE /\ index' = {} /\ counts' = Zero /\ held' = Zero
      /\ step' = "free" /\ current' = NoFile /\ victim' = NoFile
      /\ reader' = [r \in Readers |-> Idle]
      /\ UNCHANGED <<disk, rows, rowActive, issued, known, faults>>
      /\ crashes' \in 0..MaxCrashes
  BY <1>0, StoreAssumption DEF Crash, Unlock, durableVars, TypeOK
<1>2. Zero \in [Files -> Nat]
  BY DEF Zero
<1>3. TypeOK'
  BY <1>0, <1>1, <1>2 DEF TypeOK, Step, Idle, Reading
<1>4. Accounted'
  BY <1>1, <1>2, NothingToCover
<1>5. Backed' /\ LockSound' /\ Down'
  BY <1>0, <1>1 DEF Backed, Fresh, LockSound, Down
<1> QED
  BY <1>3, <1>4, <1>5 DEF StoreInv

LEMMA InitStorageInv == ASSUME StoreInv, InitStorage PROVE StoreInv' /\ counts' = Zero
<1>0. TypeOK /\ Backed /\ LockSound /\ Down
  BY DEF StoreInv
<1>1. /\ ~up /\ up' = TRUE /\ rows' = rows \cap disk /\ rowActive' = Zero /\ index' = rows'
      /\ UNCHANGED <<disk, step, current, victim, reader, issued, known, held, faults,
                     crashes>>
  BY DEF InitStorage, ResetCounters, lockVars, boundVars
<1>2. counts' = Zero
  BY <1>1 DEF InitStorage, Zero
<1>3. Zero \in [Files -> Nat]
  BY DEF Zero
<1>4. step = "free" /\ reader' = [r \in Readers |-> Idle] /\ held' = Zero
  BY <1>0, <1>1 DEF Down
<1>5. TypeOK'
  BY <1>0, <1>1, <1>2, <1>3 DEF TypeOK
<1>6. Accounted'
  BY <1>2, <1>3, <1>4, NothingToCover
<1>7. Backed' /\ LockSound' /\ Down'
  BY <1>0, <1>1, <1>4 DEF Backed, Fresh, LockSound, Down
<1> QED
  BY <1>2, <1>5, <1>6, <1>7 DEF StoreInv

LEMMA NextInv == StoreInv /\ [Next]_vars => StoreInv'
<1> SUFFICES ASSUME StoreInv, [Next]_vars PROVE StoreInv'
  OBVIOUS
<1>1. CASE \E f \in Files : BeginStore(f) \/ Reserve(f) \/ Release(f)
  BY <1>1, BeginStoreInv, ReserveInv, ReleaseInv
<1>2. CASE LockedStep
  BY <1>2, UnlinkInv, ForgetInv, WriteInv, UpsertInv DEF LockedStep
<1>3. CASE \E r \in Readers : GetFile(r)
  BY <1>3, LookupInv, LoadInv, ReturnInv DEF GetFile
<1>4. CASE Crash \/ InitStorage
  BY <1>4, CrashInv, InitStorageInv
<1>5. CASE UNCHANGED vars
  <2>1. UNCHANGED <<disk, rows, rowActive, up, index, counts, step, current, victim,
                    reader, issued, known, held, faults, crashes>>
    BY <1>5 DEF vars, durableVars, lockVars, boundVars
  <2>2. TypeOK' /\ Backed' /\ LockSound' /\ Down'
    BY <2>1 DEF StoreInv, TypeOK, Backed, Fresh, LockSound, Down
  <2>3. Accounted'
    BY <2>1 DEF StoreInv, Accounted, ReadingHolders
  <2> QED
    BY <2>2, <2>3 DEF StoreInv
<1> QED
  BY <1>1, <1>2, <1>3, <1>4, <1>5 DEF Next

LEMMA AlwaysInv == Spec => []StoreInv
BY InitInv, NextInv, PTL DEF Spec

\* Every variable keeps its type; while the lock is held, store_file knows
\* what it stores and what it evicts.
THEOREM StoreTypeCorrect == Spec => []TypeOK
<1>1. StoreInv => TypeOK
  BY DEF StoreInv
<1> QED
  BY <1>1, AlwaysInv, PTL

\* A job that holds a reservation finds its file in the index, on disk and in
\* the table, and its get_file never comes back empty.
THEOREM ReservedReadsSucceed == Spec => []ReservedReadSucceeds
<1>1. StoreInv => ReservedReadSucceeds
  <2> SUFFICES ASSUME StoreInv PROVE ReservedReadSucceeds
    OBVIOUS
  <2>1. \A f \in Files : held[f] > 0 => f \in index /\ f \in disk /\ f \in rows
    BY DEF StoreInv, Accounted, Backed
  <2>2. \A r \in Readers : reader[r].holds => reader[r].pc # "missing"
    BY DEF StoreInv, Accounted
  <2> QED
    BY <2>1, <2>2 DEF ReservedReadSucceeds
<1> QED
  BY <1>1, AlwaysInv, PTL

-----------------------------------------------------------------------------
(***************************************************************************)
(* Every step of the store is a step of FileReservations or a stutter.     *)
(***************************************************************************)

\* Steps that neither store nor evict a file nor count a reservation.
LEMMA Stutter ==
    ASSUME \A f \in Files : /\ IsStored(f)' <=> IsStored(f)
                            /\ IsStored(f) => counts'[f] = counts[f]
                            /\ f \in known' <=> f \in known
    PROVE  UNCHANGED <<Life, Reserved>>
BY DEF Life, Reserved

\* A file that is no longer stored was evicted.
LEMMA Evicted ==
    ASSUME NEW v \in Files, IsStored(v), ~IsStored(v)', v \in known, counts[v] = 0,
           UNCHANGED <<known, counts>>,
           \A f \in Files \ {v} : IsStored(f)' <=> IsStored(f)
    PROVE  Abstract!EvictFile(v)
<1>1. Life' = [Life EXCEPT ![v] = "gone"]
  BY DEF Life
<1>2. Reserved' = Reserved
  BY DEF Reserved
<1>3. v \in Abstract!Evictable
  BY DEF Abstract!Evictable, Abstract!Stored, Life, Reserved
<1> QED
  BY <1>1, <1>2, <1>3 DEF Abstract!EvictFile

\* The victim of an upload, if it is still stored, has no reservation and a
\* client knows it.
LEMMA Victim ==
    ASSUME StoreInv, step \in {"unlink", "forget"}
    PROVE  /\ victim \in Files /\ victim \notin index /\ counts[victim] = 0 /\ up
           /\ IsStored(victim) => victim \in known
BY DEF StoreInv, LockSound, Backed, IsStored, Down

LEMMA BeginStoreMaps ==
    ASSUME StoreInv, NEW f \in Files, BeginStore(f)
    PROVE  UNCHANGED <<Life, Reserved>>
<1>1. /\ victim = NoFile /\ UNCHANGED <<disk, rows, up, counts, known>>
  BY DEF BeginStore, StoreInv, LockSound, durableVars
<1>2. \/ UNCHANGED <<index, victim>>
      \/ victim' \in index /\ index' = index \ {victim'}
  BY DEF BeginStore, OldestEvictable, Unreserved
<1>3. \A g \in Files : IsStored(g)' <=> IsStored(g)
  BY <1>1, <1>2, StoreAssumption DEF IsStored
<1> QED
  BY <1>1, <1>3, Stutter

LEMMA UnlinkMaps ==
    ASSUME StoreInv, Unlink
    PROVE  UNCHANGED <<Life, Reserved>> \/ \E f \in Files : Abstract!EvictFile(f)
<1>1. PICK v \in Files : v = victim
  BY Victim DEF Unlink
<1>2. /\ UNCHANGED <<rows, up, index, victim, counts, known>>
      /\ disk' \in {disk, disk \ {v}}
  BY <1>1 DEF Unlink
<1>3. \A f \in Files \ {v} : IsStored(f)' <=> IsStored(f)
  BY <1>2 DEF IsStored
<1>4. IsStored(v)' => IsStored(v)
  BY <1>2 DEF IsStored
<1>5. counts[v] = 0 /\ (IsStored(v) => v \in known)
  BY <1>1, Victim DEF Unlink
<1>6. CASE IsStored(v) /\ ~IsStored(v)'
  BY <1>2, <1>3, <1>5, <1>6, Evicted
<1>7. CASE IsStored(v)' <=> IsStored(v)
  BY <1>2, <1>3, <1>7, Stutter
<1> QED
  BY <1>4, <1>6, <1>7

LEMMA ForgetMaps ==
    ASSUME StoreInv, Forget
    PROVE  UNCHANGED <<Life, Reserved>> \/ \E f \in Files : Abstract!EvictFile(f)
<1>1. PICK v \in Files : v = victim
  BY Victim DEF Forget
<1>2. /\ UNCHANGED <<disk, up, index, counts, known>>
      /\ \/ rows' = rows \ {v} /\ victim' = v
         \/ rows' = rows /\ victim' = NoFile
  BY <1>1 DEF Forget, Unlock
<1>3. \A f \in Files \ {v} : IsStored(f)' <=> IsStored(f)
  BY <1>1, <1>2, StoreAssumption DEF IsStored
<1>4. up /\ v \notin index /\ counts[v] = 0 /\ (IsStored(v) => v \in known)
  BY <1>1, Victim DEF Forget
<1>5. ~IsStored(v)'
  BY <1>2, <1>4, StoreAssumption DEF IsStored
<1>6. CASE IsStored(v)
  BY <1>2, <1>3, <1>4, <1>5, <1>6, Evicted
<1>7. CASE ~IsStored(v)
  BY <1>2, <1>3, <1>5, <1>7, Stutter
<1> QED
  BY <1>6, <1>7

LEMMA WriteMaps ==
    ASSUME StoreInv, Write
    PROVE  UNCHANGED <<Life, Reserved>>
<1>1. /\ current \notin rows /\ victim \notin rows /\ current \in Files
      /\ UNCHANGED <<rows, up, known>>
  BY DEF Write, StoreInv, LockSound, Backed
<1>2. /\ disk' \in {disk, disk \cup {current}} /\ index' \in {index, index \cup {current}}
      /\ victim' \in {victim, NoFile}
      /\ \A f \in Files \ {current} : counts'[f] = counts[f]
  BY DEF Write, Unlock, StoreInv, TypeOK
<1>3. \A f \in Files : /\ IsStored(f)' <=> IsStored(f)
                       /\ IsStored(f) => counts'[f] = counts[f]
  BY <1>1, <1>2, StoreAssumption DEF IsStored
<1> QED
  BY <1>1, <1>3, Stutter

LEMMA UpsertMaps ==
    ASSUME StoreInv, Upsert
    PROVE  UNCHANGED <<Life, Reserved>> \/ \E f \in Files : Abstract!StoreFile(f)
<1>1. PICK v \in Files : v = current
  BY DEF Upsert, StoreInv, LockSound
<1>2. /\ UNCHANGED <<disk, up, index, counts>> /\ victim' = NoFile /\ victim \notin rows
      /\ v \in index /\ v \in disk /\ v \notin known /\ v \notin rows /\ counts[v] = 0
  BY <1>1 DEF Upsert, Unlock, StoreInv, LockSound, Backed
<1>3. CASE rows' = rows \cup {v} /\ known' = known \cup {v}
  <2>1. \A f \in Files \ {v} : IsStored(f)' <=> IsStored(f)
    BY <1>2, <1>3, StoreAssumption DEF IsStored
  <2>2. ~IsStored(v) /\ IsStored(v)'
    BY <1>2, <1>3 DEF IsStored
  <2>3. /\ Life[v] = "new" /\ Life' = [Life EXCEPT ![v] = "stored"]
        /\ Reserved' = Reserved
    BY <1>2, <1>3, <2>1, <2>2 DEF Life, Reserved
  <2>4. Abstract!StoreFile(v)
    BY <2>3 DEF Abstract!StoreFile
  <2> QED
    BY <2>4
<1>4. CASE UNCHANGED <<rows, known>>
  <2>1. \A f \in Files : IsStored(f)' <=> IsStored(f)
    BY <1>2, <1>4, StoreAssumption DEF IsStored
  <2> QED
    BY <1>2, <1>4, <2>1, Stutter
<1> QED
  BY <1>1, <1>3, <1>4 DEF Upsert

\* Reservations are counted where they are given and taken back.
LEMMA ReserveMaps ==
    ASSUME StoreInv, NEW f \in Files, Reserve(f)
    PROVE  Abstract!ReserveFile(f)
<1>1. /\ UNCHANGED <<disk, rows, up, index, victim, known>>
      /\ counts' = [counts EXCEPT ![f] = @ + 1]
      /\ f \in index /\ f \in known /\ counts \in [Files -> Nat]
  BY DEF Reserve, lockVars, StoreInv, TypeOK
<1>2. \A g \in Files : IsStored(g)' <=> IsStored(g)
  BY <1>1 DEF IsStored
<1>3. IsStored(f)
  BY <1>1 DEF StoreInv, Backed, IsStored
<1>4. Life' = Life /\ Life[f] = "stored"
  BY <1>1, <1>2, <1>3 DEF Life
<1>5. Reserved' = [Reserved EXCEPT ![f] = @ + 1]
  BY <1>1, <1>2, <1>3 DEF Reserved
<1> QED
  BY <1>4, <1>5 DEF Abstract!ReserveFile

LEMMA ReleaseMaps ==
    ASSUME StoreInv, NEW f \in Files, Release(f)
    PROVE  Abstract!ReleaseFile(f)
<1>1. /\ UNCHANGED <<disk, rows, up, index, victim, known>>
      /\ counts' = [counts EXCEPT ![f] = @ - 1]
      /\ f \in index /\ f \in known /\ counts[f] > 0 /\ counts \in [Files -> Nat]
  BY ReleaseInv DEF Release, lockVars, StoreInv, TypeOK
<1>2. \A g \in Files : IsStored(g)' <=> IsStored(g)
  BY <1>1 DEF IsStored
<1>3. IsStored(f)
  BY <1>1 DEF StoreInv, Backed, IsStored
<1>4. Life' = Life /\ Life[f] = "stored"
  BY <1>1, <1>2, <1>3 DEF Life
<1>5. Reserved' = [Reserved EXCEPT ![f] = @ - 1] /\ Reserved[f] > 0
  BY <1>1, <1>2, <1>3 DEF Reserved
<1> QED
  BY <1>4, <1>5 DEF Abstract!ReleaseFile

\* A stop forgets the counters and may bring back a file that was not deleted.
LEMMA CrashMaps ==
    ASSUME StoreInv, Crash
    PROVE  Abstract!RestoreReservations
<1>1. /\ UNCHANGED <<disk, rows, known>> /\ up' = FALSE /\ counts' = Zero
      /\ rows \subseteq known
  BY DEF Crash, durableVars, StoreInv, Backed
<1>2. \A f \in Files : /\ IsStored(f) => IsStored(f)'
                       /\ IsStored(f)' => f \in known
  BY <1>1 DEF IsStored
<1>3. Life' \in [Files -> Abstract!FileState]
  BY DEF Life, Abstract!FileState
<1>4. \A f \in Files : Life'[f] = Life[f] \/ (Life[f] = "gone" /\ Life'[f] = "stored")
  BY <1>1, <1>2 DEF Life
<1>5. \A f \in Files : Reserved'[f] = 0
  BY <1>1 DEF Reserved, Zero
<1>6. Reserved' \in [Files -> Nat]
  BY <1>5 DEF Reserved
<1> QED
  BY <1>3, <1>4, <1>5, <1>6 DEF Abstract!RestoreReservations, Abstract!Found

LEMMA InitStorageMaps ==
    ASSUME StoreInv, InitStorage
    PROVE  UNCHANGED <<Life, Reserved>>
<1>1. /\ ~up /\ up' /\ UNCHANGED <<disk, known>> /\ rows' = rows \cap disk /\ index' = rows'
  BY DEF InitStorage
<1>2. counts' = counts
  BY <1>1, InitStorageInv DEF StoreInv, Down
<1>3. \A f \in Files : IsStored(f)' <=> IsStored(f)
  BY <1>1 DEF IsStored
<1> QED
  BY <1>1, <1>2, <1>3, Stutter

\* The detailed store implements the abstract one, for any number of failing
\* calls and process stops.
THEOREM StoreImplementsReservations == Spec => ImplementsReservations
<1>1. Init => Abstract!FilesInit
  BY DEF Init, Zero, Abstract!FilesInit, Life, Reserved, IsStored
<1>2. ASSUME StoreInv, [Next]_vars PROVE [Abstract!FilesNext]_(Abstract!fileVars)
  <2> USE DEF Abstract!FilesNext, Abstract!fileVars
  <2>1. CASE \E f \in Files : BeginStore(f) \/ Reserve(f) \/ Release(f)
    BY <1>2, <2>1, BeginStoreMaps, ReserveMaps, ReleaseMaps
  <2>2. CASE LockedStep
    BY <1>2, <2>2, UnlinkMaps, ForgetMaps, WriteMaps, UpsertMaps DEF LockedStep
  <2>3. CASE \E r \in Readers : GetFile(r)
    <3>1. UNCHANGED <<disk, rows, up, index, counts, victim, known>>
      BY <2>3 DEF GetFile, Lookup, Load, Return, durableVars, lockVars
    <3>2. \A f \in Files : IsStored(f)' <=> IsStored(f)
      BY <3>1 DEF IsStored
    <3> QED
      BY <3>1, <3>2, Stutter
  <2>4. CASE Crash \/ InitStorage
    BY <1>2, <2>4, CrashMaps, InitStorageMaps
  <2>5. CASE UNCHANGED vars
    <3>1. UNCHANGED <<disk, rows, up, index, counts, victim, known>>
      BY <2>5 DEF vars, durableVars, lockVars
    <3>2. \A f \in Files : IsStored(f)' <=> IsStored(f)
      BY <3>1 DEF IsStored
    <3> QED
      BY <3>1, <3>2, Stutter
  <2> QED
    BY <1>2, <2>1, <2>2, <2>3, <2>4, <2>5 DEF Next
<1> QED
  BY <1>1, <1>2, AlwaysInv, PTL DEF Spec, ImplementsReservations, Abstract!FilesSpec
-----------------------------------------------------------------------------
(***************************************************************************)
(* What a fit may know (KnownContext).                                     *)
(***************************************************************************)

\* At a cutoff, an entry and what was published of it by then say the same.
LEMMA SameValue ==
    ASSUME NEW d \in Declarations, Readable(d), NEW c \in 0 .. Present,
           NEW n \in Predictors, NEW t \in Required(c)
    PROVE  Value(Published(d, c), n, t, c) = Value(d, n, t, c)
<1> DEFINE e == d.cov[n][t]
           p == PublishedEntry(e, c)
<1>1. t \in DOMAIN d.cov[n]
  <2>1. t \in 0 .. Present + Horizon
    BY ContextAssumption DEF Required
  <2> QED
    BY <2>1, ContextAssumption
<1>2. Published(d, c).cov[n][t] = p /\ Published(d, c).ahead = d.ahead
  BY <1>1 DEF Published
<1>3. p.kind = e.kind /\ p.value = e.value /\ p.versions = {r \in e.versions : r.at <= c}
  BY DEF PublishedEntry
<1>4. Eligible(p, c) = Eligible(e, c)
  BY <1>3 DEF Eligible
<1>5. Latest(p, c) = Latest(e, c)
  BY <1>4 DEF Latest
<1>6. WellFormed(e) /\ WellFormed(p)
  BY <1>1, <1>3 DEF Readable, WellFormed
<1> HIDE DEF p
<1> QED
  BY <1>2, <1>3, <1>4, <1>5, <1>6 DEF Value

\* Publication takes no predictor away.
LEMMA SamePredictors ==
    ASSUME NEW d \in Declarations, NEW c, NEW n \in Predictors
    PROVE  /\ DOMAIN Published(d, c).cov[n] = DOMAIN d.cov[n]
           /\ \A t \in DOMAIN d.cov[n] :
                 Published(d, c).cov[n][t] # Nothing <=> d.cov[n][t] # Nothing
<1>1. /\ DOMAIN Published(d, c).cov[n] = DOMAIN d.cov[n]
      /\ \A t \in DOMAIN d.cov[n] :
            Published(d, c).cov[n][t] = PublishedEntry(d.cov[n][t], c)
  BY DEF Published
<1>2. ASSUME NEW t \in DOMAIN d.cov[n]
      PROVE  PublishedEntry(d.cov[n][t], c) # Nothing <=> d.cov[n][t] # Nothing
  <2> DEFINE e == d.cov[n][t]
  <2>1. e \in {Nothing, Plain(e.value), Versions(e.versions)}
    BY ContextAssumption
  <2>2. CASE e = Nothing
    BY <2>2 DEF PublishedEntry, Nothing
  <2>3. CASE e = Plain(e.value) \/ e = Versions(e.versions)
    <3>1. e.kind # "none"
      BY <2>3 DEF Plain, Versions
    <3>2. PublishedEntry(e, c).kind = e.kind /\ Nothing.kind = "none"
      BY DEF PublishedEntry, Nothing
    <3> QED
      BY <3>1, <3>2
  <2> QED
    BY <2>1, <2>2, <2>3
<1> QED
  BY <1>1, <1>2

\* options_as_of gives at a cutoff what it would have given that day.
LEMMA NothingOfTheFuture ==
    ASSUME NEW d \in Declarations, Readable(d), NEW c \in 0 .. Present
    PROVE  AsOf(Published(d, c), c) = AsOf(d, c)
<1> DEFINE p == Published(d, c)
           values(x) == [n \in Predictors |-> [t \in Required(c) |-> Value(x, n, t, c)]]
           used(x) == {n \in Predictors : \E t \in DOMAIN x.cov[n] : x.cov[n][t] # Nothing}
<1>1. values(p) = values(d)
  BY SameValue
<1>2. used(p) = used(d)
  BY SamePredictors
<1>3. KnownEvents(p, c) = KnownEvents(d, c) /\ p.holidays = d.holidays
  BY DEF Published, KnownEvents
<1>4. Dummies(p, KnownEvents(p, c), c) = Dummies(d, KnownEvents(d, c), c)
  BY <1>3 DEF Dummies
<1>5. ASSUME NEW x
      PROVE  AsOf(x, c) =
               IF \E n \in used(x) : \E t \in Required(c) : values(x)[n][t] = NoValue
               THEN Refusal(c)
               ELSE [cutoff |-> c, ok |-> TRUE, cov |-> [n \in used(x) |-> values(x)[n]],
                     events |-> Dummies(x, KnownEvents(x, c), c)]
  BY DEF AsOf
<1> HIDE DEF p, values, used
<1>6. AsOf(p, c) = AsOf(d, c)
  BY <1>1, <1>2, <1>4, <1>5
<1> QED
  BY <1>6 DEF p

ContextInv ==
    /\ declared \in Declarations
    /\ engine # NoEngine => engine = declared
    /\ fit = NoFit \/ \E c \in 0 .. Present : fit = AsOf(declared, c)

LEMMA CutoffKept == ASSUME NEW d, NEW c PROVE AsOf(d, c).cutoff = c
BY DEF AsOf, Refusal, NoFit

LEMMA ContextInit_Inv == ContextInit => ContextInv
BY DEF ContextInit, ContextInv

LEMMA ContextStep_Inv == ContextInv /\ [ContextNext]_contextVars => ContextInv'
<1> SUFFICES ASSUME ContextInv, [ContextNext]_contextVars PROVE ContextInv'
  OBVIOUS
<1>1. CASE PrepareOptions
  BY <1>1 DEF PrepareOptions, DeclaredContext, ContextInv
<1>2. ASSUME NEW c \in 0 .. Present, Fit(c) PROVE ContextInv'
  BY <1>2 DEF Fit, ContextInv
<1>3. CASE UNCHANGED contextVars
  BY <1>3 DEF contextVars, ContextInv
<1> QED
  BY <1>1, <1>2, <1>3 DEF ContextNext

\* No fit, at any origin of any declaration that can be read, uses a revision
\* or an announcement that was published after its cutoff.
THEOREM FitsLookBackOnly == ContextSpec => []NoLookAhead
<1>1. ContextInv => NoLookAhead
  <2> SUFFICES ASSUME ContextInv, fit.cutoff >= 0, Readable(declared)
               PROVE  fit = AsOf(Published(declared, fit.cutoff), fit.cutoff)
    BY DEF NoLookAhead
  <2>1. fit # NoFit
    <3>1. NoFit.cutoff = -1
      BY DEF NoFit
    <3> QED
      BY <3>1
  <2>2. PICK c \in 0 .. Present : fit = AsOf(declared, c)
    BY <2>1 DEF ContextInv
  <2>3. fit.cutoff = c
    BY <2>2, CutoffKept
  <2> QED
    BY <2>2, <2>3, NothingOfTheFuture DEF ContextInv
<1> QED
  BY <1>1, ContextInit_Inv, ContextStep_Inv, PTL DEF ContextSpec
-----------------------------------------------------------------------------
(***************************************************************************)
(* What a training window may know (DataPreparation).                      *)
(***************************************************************************)

\* Two series that agree up to a cutoff are cleaned alike up to there.
LEMMA CleanedAlike ==
    ASSUME NEW c, NEW g, NEW h, UpTo(g, c) = UpTo(h, c),
           \A p \in UpTo(g, c) : g[p] = h[p]
    PROVE  Training(g, c) = Training(h, c)
<1>1. Observed(g, c) = Observed(h, c)
  BY DEF Observed
<1>2. \A how, sign : Fence(g, c, how, sign) = Fence(h, c, how, sign)
  BY <1>1 DEF Fence
<1>3. Treated(g, c, options.outliers) = Treated(h, c, options.outliers)
  BY <1>2 DEF Treated
<1> QED
  BY <1>3 DEF Training

TrainingInv ==
    training # NoFrame => stage = "prepared" /\ training = Training(frame, window)

LEMMA PrepInit_Inv == PrepInit => TrainingInv
BY DEF PrepInit, TrainingInv

LEMMA PrepStep_Inv == TrainingInv /\ [PrepNext]_prepVars => TrainingInv'
<1> SUFFICES ASSUME TrainingInv, [PrepNext]_prepVars PROVE TrainingInv'
  OBVIOUS
<1>1. CASE Stream \/ Receive \/ Prepare
  BY <1>1 DEF Stream, Receive, Prepare, TrainingInv
<1>2. CASE Preflight \/ UNCHANGED prepVars
  <2>1. UNCHANGED <<stage, options, frame, window, training>>
    BY <1>2 DEF Preflight, prepVars
  <2> QED
    BY <2>1 DEF TrainingInv, Training
<1>3. ASSUME NEW c \in DOMAIN frame, Train(c) PROVE TrainingInv'
  BY <1>3 DEF Train, TrainingInv, Training
<1> QED
  BY <1>1, <1>2, <1>3 DEF PrepNext

\* For every table, calendar and choice of the user, a change after the cutoff
\* leaves the cleaned training window as it is.
THEOREM WindowsAreBlind == PrepSpec => []TrainingIsBlind
<1>1. TrainingInv => TrainingIsBlind
  <2> SUFFICES ASSUME TrainingInv, training # NoFrame,
                      NEW p \in DOMAIN frame \ UpTo(frame, window), NEW v
               PROVE  Training([frame EXCEPT ![p] = v], window) = training
    BY DEF TrainingIsBlind
  <2> DEFINE h == [frame EXCEPT ![p] = v]
  <2>1. DOMAIN h = DOMAIN frame /\ \A q \in DOMAIN frame \ {p} : h[q] = frame[q]
    OBVIOUS
  <2>2. UpTo(h, window) = UpTo(frame, window)
    BY <2>1 DEF UpTo
  <2>3. \A q \in UpTo(h, window) : h[q] = frame[q]
    BY <2>1, <2>2 DEF UpTo
  <2> QED
    BY <2>2, <2>3, CleanedAlike DEF TrainingInv
<1> QED
  BY <1>1, PrepInit_Inv, PrepStep_Inv, PTL DEF PrepSpec
-----------------------------------------------------------------------------
(***************************************************************************)
(* The calendar (DataPreparation): every day has a period, periods are in the *)
(* order of their days, and a day that starts a period is its own.         *)
(***************************************************************************)
\* Division by the length of a period.
LEMMA Remainder ==
    ASSUME NEW a \in Int, NEW k \in Nat \ {0}
    PROVE  a % k \in 0 .. k - 1 /\ \E q \in Int : a = k * q + (a % k)
<1>1. a \div k \in Int /\ a = k * (a \div k) + (a % k)
  OBVIOUS
<1>2. a % k \in 0 .. k - 1
  OBVIOUS
<1> QED
  BY <1>1, <1>2

LEMMA Multiples ==
    ASSUME NEW k \in Nat \ {0}, NEW x \in Int, NEW y \in Int
    PROVE  /\ x < y => k * x + k <= k * y
           /\ k * x < k * y => x < y
           /\ k * x \in Int /\ k * (x + 1) = k * x + k
<1>1. ASSUME NEW u \in Int, NEW w \in Int, u <= w PROVE k * u <= k * w
  <2>1. (w - u) \in Nat /\ w = u + (w - u)
    BY <1>1
  <2>2. k * (w - u) >= 0
    BY <2>1
  <2>3. k * w = k * u + k * (w - u)
    OBVIOUS
  <2> QED
    BY <2>2, <2>3
<1>2. k * (x + 1) = k * x + k
  OBVIOUS
<1>3. x < y => k * (x + 1) <= k * y
  BY <1>1
<1>4. y <= x => k * y <= k * x
  BY <1>1
<1> QED
  BY <1>2, <1>3, <1>4

LEMMA RemainderIs ==
    ASSUME NEW a \in Int, NEW k \in Nat \ {0}, NEW q \in Int, NEW r \in 0 .. k - 1, a = k * q + r
    PROVE  a % k = r
<1>1. PICK p \in Int : a = k * p + (a % k)
  BY Remainder
<1>2. a % k \in 0 .. k - 1
  BY Remainder
<1>3. ~ (q < p) /\ ~ (p < q)
  BY <1>1, <1>2, Multiples
<1> QED
  BY <1>1, <1>3

-----------------------------------------------------------------------------
Proper(f) == f.step \in Nat \ {0} /\ f.anchor \in 0 .. f.step - 1

\* The day a period starts is `anchor` more than a multiple of `step`, and is
\* less than a period away.
LEMMA FloorIs ==
    ASSUME NEW f, Proper(f), NEW t \in Int
    PROVE  \E q \in Int : /\ Floor(t, f) = f.step * q + f.anchor
                          /\ Floor(t, f) <= t /\ t < Floor(t, f) + f.step
                          /\ Floor(t, f) % f.step = f.anchor
                          /\ (Floor(t, f) + f.step) % f.step = f.anchor
                          /\ Floor(t, f) \in Int
<1> DEFINE k == f.step
           a == f.anchor
           b == t - a
<1>0. k \in Nat \ {0} /\ a \in 0 .. k - 1 /\ b \in Int /\ a \in Int
  BY DEF Proper
<1>1. PICK q \in Int : b = k * q + (b % k)
  <2> HIDE DEF k, b
  <2> QED
    BY <1>0, Remainder
<1>2. b % k \in 0 .. k - 1
  <2> HIDE DEF k, b
  <2> QED
    BY <1>0, Remainder
<1>3. Floor(t, f) = t - (b % k) /\ b = t - a
  BY DEF Floor
<1> HIDE DEF k, a, b
<1>4. k * q \in Int /\ k * (q + 1) = k * q + k
  BY <1>0, Multiples
<1>5. Floor(t, f) = k * q + a /\ Floor(t, f) \in Int
  BY <1>0, <1>1, <1>2, <1>3, <1>4
<1>6. Floor(t, f) <= t /\ t < Floor(t, f) + k
  BY <1>0, <1>2, <1>3
<1>7. Floor(t, f) % k = a
  BY <1>0, <1>5, RemainderIs
<1>8. (Floor(t, f) + k) % k = a
  <2>1. Floor(t, f) + k \in Int /\ Floor(t, f) + k = k * (q + 1) + a /\ q + 1 \in Int
    BY <1>0, <1>4, <1>5
  <2> QED
    BY <1>0, <2>1, RemainderIs
<1> QED
  BY <1>5, <1>6, <1>7, <1>8 DEF k, a

LEMMA PeriodIs ==
    ASSUME NEW f, Proper(f), NEW t \in Int
    PROVE  Period(t, f) \in Int /\ Period(t, f) % f.step = f.anchor
<1>1. /\ Floor(t, f) \in Int /\ Floor(t, f) % f.step = f.anchor
      /\ (Floor(t, f) + f.step) % f.step = f.anchor
  BY FloorIs, Zenon
<1>2. Floor(t, f) + f.step \in Int
  BY <1>1 DEF Proper
<1> QED
  BY <1>1, <1>2, Zenon DEF Period

\* A day that starts a period is its own period.
LEMMA PeriodOnGrid ==
    ASSUME NEW f, Proper(f), NEW t \in Int, t % f.step = f.anchor
    PROVE  Period(t, f) = t
<1> DEFINE k == f.step
<1>0. k \in Nat \ {0} /\ f.anchor \in 0 .. k - 1
  BY DEF Proper
<1>1. PICK p \in Int : t = k * p + (t % k)
  <2> HIDE DEF k
  <2> QED
    BY <1>0, Remainder
<1>2. PICK q \in Int : /\ Floor(t, f) = k * q + f.anchor /\ Floor(t, f) <= t
                       /\ t < Floor(t, f) + k /\ Floor(t, f) \in Int
  BY FloorIs, Zenon
<1>3. t = k * p + f.anchor
  BY <1>1
<1> HIDE DEF k
<1>4. k * p \in Int /\ k * q \in Int
  BY <1>0, Multiples
<1>5. ~ (q < p) /\ ~ (p < q)
  BY <1>0, <1>2, <1>3, <1>4, Multiples
<1>6. Floor(t, f) = t
  BY <1>2, <1>3, <1>5
<1> QED
  BY <1>6 DEF Period

LEMMA PeriodsAreOrdered ==
    ASSUME NEW f, Proper(f), NEW t \in Int, NEW u \in Int, t <= u
    PROVE  Period(t, f) <= Period(u, f)
<1> DEFINE k == f.step
<1>0. k \in Nat \ {0} /\ f.anchor \in 0 .. k - 1
  BY DEF Proper
<1>1. PICK p \in Int : /\ Floor(t, f) = k * p + f.anchor /\ Floor(t, f) <= t
                       /\ t < Floor(t, f) + k /\ Floor(t, f) \in Int
  BY FloorIs, Zenon
<1>2. PICK q \in Int : /\ Floor(u, f) = k * q + f.anchor /\ Floor(u, f) <= u
                       /\ u < Floor(u, f) + k /\ Floor(u, f) \in Int
  BY FloorIs, Zenon
<1>3. /\ Period(t, f) = IF f.ends /\ Floor(t, f) # t THEN Floor(t, f) + k ELSE Floor(t, f)
      /\ Period(u, f) = IF f.ends /\ Floor(u, f) # u THEN Floor(u, f) + k ELSE Floor(u, f)
  BY DEF Period
<1> HIDE DEF k
<1>4. k * p \in Int /\ k * q \in Int
  BY <1>0, Multiples
<1>5. k * p < k * q + k
  BY <1>0, <1>1, <1>2, <1>4
<1>6. p <= q /\ k * p <= k * q
  BY <1>0, <1>4, <1>5, Multiples
<1>7. p < q => k * p + k <= k * q
  BY <1>0, Multiples
<1>8. CASE p = q
  BY <1>0, <1>1, <1>2, <1>3, <1>4, <1>8
<1>9. CASE p < q
  BY <1>0, <1>1, <1>2, <1>3, <1>4, <1>6, <1>7, <1>9
<1> QED
  BY <1>6, <1>8, <1>9

-----------------------------------------------------------------------------
(***************************************************************************)
(* The table: finitely many days, with a first and a last, and a frequency *)
(* whose periods have a length.                                            *)
(***************************************************************************)
Dated == file \in Uploads /\ Stamps # {}
LEMMA Elements ==
    ASSUME NEW T, NEW s \in Seq(T)
    PROVE  DOMAIN s = 1 .. Len(s) /\ Len(s) \in Nat /\ \A i \in DOMAIN s : s[i] \in T
OBVIOUS

LEMMA Rows ==
    ASSUME file \in Uploads
    PROVE  /\ IsFiniteSet(Selected) /\ IsFiniteSet(Stamps) /\ Stamps \subseteq Nat
           /\ \A i \in Selected : Day(i) \in Stamps /\ Amount(i) \in Int \cup {Missing}
<1>1. file.rows \in Table
  BY PreparationAssumption
<1>2. /\ DOMAIN file.rows = 1 .. Len(file.rows) /\ Len(file.rows) \in Nat
      /\ \A i \in DOMAIN file.rows : file.rows[i] \in [t : Nat \cup {Missing}, v : Int \cup {Missing}]
  BY <1>1, Elements DEF Table
<1>3. IsFiniteSet(Selected)
  <2>1. IsFiniteSet(DOMAIN file.rows) /\ Selected \subseteq DOMAIN file.rows
    BY <1>2, FS_Interval DEF Selected
  <2> QED
    BY <2>1, FS_Subset
<1>4. IsFiniteSet(Stamps)
  <2>1. [i \in Selected |-> Day(i)] \in Surjection(Selected, Stamps)
    BY DEF Stamps, Surjection
  <2> QED
    BY <1>3, <2>1, FS_Surjection
<1>5. ASSUME NEW i \in Selected
      PROVE  Day(i) \in Nat /\ Amount(i) \in Int \cup {Missing}
  BY <1>2 DEF Selected, Day, Amount
<1> QED
  BY <1>3, <1>4, <1>5 DEF Stamps

LEMMA Span ==
    ASSUME Dated
    PROVE  /\ FirstDay \in Stamps /\ FinalDay \in Stamps /\ FirstDay \in Nat /\ FinalDay \in Nat
           /\ \A t \in Stamps : t \in Nat /\ FirstDay <= t /\ t <= FinalDay
<1>1. Stamps \in SUBSET Nat /\ IsFiniteSet(Stamps) /\ Stamps # {}
  BY Rows DEF Dated
<1>2. FirstDay \in Stamps /\ \A t \in Stamps : FirstDay <= t
  BY <1>1, LeastNumber DEF FirstDay, Min
<1>3. FinalDay \in Stamps /\ \A t \in Stamps : FinalDay >= t
  <2>1. \E n \in Stamps : \A m \in Stamps : n >= m
    BY <1>1, LargestNumber DEF SomeNumbers
  <2> QED
    BY <2>1, Zenon DEF FinalDay, Max
<1> QED
  BY <1>1, <1>2, <1>3

LEMMA SpacingIsPositive ==
    ASSUME Dated, Spacing # {}
    PROVE  Min(Spacing) \in Nat \ {0}
<1>1. Spacing \in SUBSET (Nat \ {0}) /\ Spacing \in SUBSET Nat
  BY Span DEF Spacing
<1>2. \E n \in Spacing : \A m \in Spacing : n <= m
  BY <1>1, LeastNumber
<1>3. Min(Spacing) \in Spacing
  BY <1>2, Zenon DEF Min
<1> QED
  BY <1>1, <1>3

LEMMA FrequencyIsProper ==
    ASSUME Dated
    PROVE  Proper(Frequency)
<1>1. Proper(Daily) /\ Proper(Weekly) /\ Proper(Monthly)
  BY PreparationAssumption DEF Proper, Daily, Weekly, Monthly
<1>2. ASSUME NEW k \in Nat \ {0} PROVE Proper(Normalized(k))
  <2>1. Proper(Every(k))
    <3>1. FirstDay \in Int
      BY Span
    <3>2. FirstDay % k \in 0 .. k - 1
      BY <3>1, Remainder
    <3> QED
      BY <3>2 DEF Proper, Every
  <2> QED
    BY <1>1, <2>1, PreparationAssumption, Zenon DEF Normalized
<1>3. Proper(Inferred)
  BY <1>1, <1>2, SpacingIsPositive, Zenon DEF Inferred
<1> QED
  BY <1>1, <1>3, Zenon DEF Frequency

-----------------------------------------------------------------------------
(***************************************************************************)
(* The series: one observation per stamp, whichever way its rows were      *)
(* resolved, and the frame on the calendar.                                *)
(***************************************************************************)
LEMMA DemandIs ==
    ASSUME Dated
    PROVE  /\ Summable(Demand, Selected)
           /\ \A I \in SUBSET Selected : /\ IsFiniteSet(I) /\ Summable(Demand, I)
                                         /\ SumOf(I) \in Int
           /\ \A i \in Selected : Demand[i] = IF Amount(i) = Missing THEN 0 ELSE Amount(i)
           /\ \A i \in Selected : Amount(i) # Missing => Amount(i) \in Int
<1>1. /\ IsFiniteSet(Selected)
      /\ \A i \in Selected : Amount(i) \in Int \cup {Missing}
  BY Rows DEF Dated
<1>2. \A i \in Selected : /\ Demand[i] = IF Amount(i) = Missing THEN 0 ELSE Amount(i)
                          /\ Demand[i] \in Int
  BY <1>1 DEF Demand
<1>3. Summable(Demand, Selected)
  BY <1>1, <1>2 DEF Summable
<1>4. ASSUME NEW I \in SUBSET Selected
      PROVE  IsFiniteSet(I) /\ Summable(Demand, I) /\ SumOf(I) \in Int
  <2>1. Summable(Demand, I)
    BY <1>3, SubsetSummable
  <2> QED
    BY <2>1, SumType DEF SumOf, Summable
<1> QED
  BY <1>1, <1>2, <1>3, <1>4

\* What a resolved stamp says of its rows.
LEMMA ResolvedIs ==
    ASSUME Dated, NEW t \in Stamps, NEW how, NEW v \in Resolved(t, how)
    PROVE  /\ v \in Int \cup {Missing}
           /\ v # Missing => \/ Known(RowsAt(t)) # {}
                             \/ Duplicated # {} /\ how = "sum" /\ Known(RowsAt(t)) = {}
           /\ v = Missing => Known(RowsAt(t)) = {} \/ how \in {"keep-first", "latest"}
           /\ how = "sum" => SumOf(RowsAt(t)) = IF v = Missing THEN 0 ELSE v
<1> DEFINE R == RowsAt(t)
<1>1. /\ R \in SUBSET Selected /\ R # {} /\ IsFiniteSet(R) /\ Cardinality(R) \in Nat
      /\ Cardinality(R) # 0 /\ SumOf(R) \in Int
  <2>1. R \in SUBSET Selected /\ R # {}
    BY DEF RowsAt, Stamps
  <2>2. IsFiniteSet(R) /\ SumOf(R) \in Int
    BY <2>1, DemandIs
  <2> QED
    BY <2>1, <2>2, FS_CardinalityType, FS_EmptySet
<1>2. Missing \notin Int
  BY PreparationAssumption
<1>3. Known(R) = {i \in R : Amount(i) # Missing}
  BY DEF Known
<1>4. \A i \in R : Amount(i) \in Int \cup {Missing}
  BY <1>1, DemandIs
<1>5. CASE Duplicated = {}
  <2>1. PICK i : R = {i}
    <3>1. Cardinality(R) = 1
      <4>1. ~ Cardinality(R) > 1
        BY <1>5 DEF Duplicated
      <4> HIDE DEF R
      <4> QED
        BY <1>1, <4>1
    <3>2. \E i : R = {i}
      BY <1>1, <3>1, FS_Singleton
    <3> QED
      BY <3>2
  <2>2. v = Amount(i) /\ i \in Selected
    BY <1>1, <1>5, <2>1 DEF Resolved
  <2>3. SumOf(R) = Demand[i]
    <3>1. Summable(Demand, R) /\ i \in R /\ R \ {i} = {}
      BY <1>1, <2>1, DemandIs
    <3>2. SumFunctionOnSet(Demand, R) = Demand[i] + SumFunctionOnSet(Demand, {})
      BY <3>1, SumOfOneAndRest
    <3>3. Demand[i] \in Int
      BY <3>1 DEF Summable
    <3> QED
      BY <3>2, <3>3, SumOfNothing DEF SumOf
  <2>4. SumOf(R) = IF v = Missing THEN 0 ELSE v
    BY <2>2, <2>3, DemandIs
  <2> QED
    BY <1>3, <1>4, <2>1, <2>2, <2>4
<1>6. CASE Duplicated # {} /\ how \in {"keep-first", "latest"}
  <2>1. PICK i \in R : v = Amount(i)
    BY <1>6 DEF Resolved
  <2> QED
    BY <1>3, <1>4, <1>6, <2>1
<1>7. CASE Duplicated # {} /\ how = "sum"
  <2>1. v = SumOf(R)
    BY <1>7 DEF Resolved
  <2> QED
    BY <1>1, <1>2, <1>7, <2>1
<1>8. CASE Duplicated # {} /\ how \notin {"keep-first", "latest", "sum"}
  <2>1. v = IF Known(R) = {} THEN Missing ELSE Mean(R)
    BY <1>8 DEF Resolved
  <2>2. ASSUME Known(R) # {} PROVE Mean(R) \in Int
    <3> DEFINE K == Known(R)
    <3>1. K \in SUBSET Selected
      BY <1>1, <1>3
    <3>2. IsFiniteSet(K) /\ SumOf(K) \in Int
      BY <3>1, DemandIs
    <3>3. Cardinality(K) \in Nat \ {0}
      BY <2>2, <3>2, FS_CardinalityType, FS_EmptySet
    <3>4. SumOf(K) \div Cardinality(K) \in Int
      <4> HIDE DEF K
      <4> QED
        BY <3>2, <3>3
    <3> QED
      BY <3>4 DEF Mean
  <2> QED
    BY <1>2, <1>8, <2>1, <2>2
<1> QED
  BY <1>5, <1>6, <1>7, <1>8

\* A series has one observation per stamp.
IsSeries(s) == s \in [Stamps -> Int \cup {Missing}]
                 /\ \A t \in Stamps : s[t] \in Resolved(t, options.duplicates)

LEMMA SeriesIs ==
    ASSUME Dated, NEW s \in Series
    PROVE  IsSeries(s)
<1> DEFINE all == [t \in Stamps |-> Resolved(t, options.duplicates)]
<1>1. s \in [Stamps -> UNION Range(all)] /\ \A t \in Stamps : s[t] \in all[t]
  BY Zenon DEF Series
<1>2. \A t \in Stamps : s[t] \in Resolved(t, options.duplicates)
  BY <1>1
<1>3. \A t \in Stamps : s[t] \in Int \cup {Missing}
  BY <1>2, ResolvedIs
<1>4. s = [t \in Stamps |-> s[t]]
  BY <1>1, Zenon
<1> QED
  BY <1>2, <1>3, <1>4 DEF IsSeries

\* Observations that are used as they are lie on the calendar.
OptionsFit == options.aggregation = "As provided" => OnGrid

\* A period has a value exactly where something is seen, the excused ones apart.
Faithful(g) ==
    \A p \in DOMAIN g : /\ g[p] # Missing => SeenIn(p) \/ FalseZero(p)
                        /\ g[p] = Missing => ~ SeenIn(p) \/ options.duplicates \in {"keep-first", "latest"}

\* Some stamp of a period has a value, or none has.
LEMMA StampsOfPeriod ==
    ASSUME Dated, NEW s, IsSeries(s), NEW p, NEW T,
           T = {t \in Stamps : Period(t, Frequency) = p}
    PROVE  /\ (\E t \in T : s[t] # Missing) => SeenIn(p) \/ FalseZero(p)
           /\ (\A t \in T : s[t] = Missing) => ~ SeenIn(p) \/ options.duplicates \in {"keep-first", "latest"}
<1>1. ASSUME NEW t \in T, s[t] # Missing PROVE SeenIn(p) \/ FalseZero(p)
  <2>1. t \in Stamps /\ s[t] \in Resolved(t, options.duplicates)
    BY DEF IsSeries
  <2>2. \/ Known(RowsAt(t)) # {}
        \/ Duplicated # {} /\ options.duplicates = "sum" /\ Known(RowsAt(t)) = {}
    BY <1>1, <2>1, ResolvedIs
  <2>3. CASE Known(RowsAt(t)) # {}
    <3>1. PICK i \in Known(RowsAt(t)) : TRUE
      BY <2>3
    <3>2. i \in Known(Selected) /\ Day(i) = t
      BY <3>1 DEF Known, RowsAt
    <3> QED
      BY <3>2, Zenon DEF SeenIn
  <2> QED
    BY <2>2, <2>3, Zenon DEF FalseZero
<1>2. ASSUME \A t \in T : s[t] = Missing, SeenIn(p), options.duplicates \notin {"keep-first", "latest"} PROVE FALSE
  <2>1. PICK i \in Known(Selected) : Period(Day(i), Frequency) = p
    BY <1>2 DEF SeenIn
  <2>2. i \in Selected /\ Amount(i) # Missing /\ Day(i) \in Stamps
    BY DEF Known, Stamps
  <2>3. s[Day(i)] = Missing /\ s[Day(i)] \in Resolved(Day(i), options.duplicates)
    BY <1>2, <2>1, <2>2 DEF IsSeries
  <2>4. Known(RowsAt(Day(i))) = {}
    BY <1>2, <2>2, <2>3, ResolvedIs
  <2>5. i \in Known(RowsAt(Day(i)))
    BY <2>2 DEF Known, RowsAt
  <2> QED
    BY <2>4, <2>5
<1> QED
  BY <1>1, <1>2

\* Aggregating has a value exactly when one of the stamps has.
LEMMA AggregateIs ==
    ASSUME Dated, NEW s, IsSeries(s), NEW T \in SUBSET Stamps, NEW how
    PROVE  LET seen == {t \in T : s[t] # Missing}
           IN  /\ Aggregate(s, T, how) = Missing <=> seen = {}
               /\ Summable(s, seen)
<1> DEFINE seen == {t \in T : s[t] # Missing}
           a == Aggregate(s, T, how)
<1>1. /\ seen \subseteq Nat /\ IsFiniteSet(seen) /\ \A t \in seen : s[t] \in Int
      /\ Cardinality(seen) \in Nat
  <2>1. IsFiniteSet(Stamps) /\ Stamps \subseteq Nat
    BY Rows DEF Dated
  <2>2. seen \subseteq Stamps
    OBVIOUS
  <2>3. IsFiniteSet(seen)
    BY <2>1, <2>2, FS_Subset
  <2>4. \A t \in seen : s[t] \in Int
    BY DEF IsSeries
  <2> QED
    BY <2>1, <2>2, <2>3, <2>4, FS_CardinalityType
<1>2. Summable(s, seen) /\ SumFunctionOnSet(s, seen) \in Int
  <2>1. Summable(s, seen)
    BY <1>1 DEF Summable
  <2> QED
    BY <2>1, SumType
<1>3. Missing \notin Int
  BY PreparationAssumption
<1>4. a = IF how = "sum" THEN Summed(s, T)
          ELSE IF seen = {} THEN Missing
          ELSE CASE how = "mean" -> SumFunctionOnSet(s, seen) \div Cardinality(seen)
                 [] how = "last" -> s[Max(seen)]
                 [] OTHER -> s[Min(seen)]
  BY DEF Aggregate
<1>5. Summed(s, T) = IF seen = {} THEN Missing ELSE SumFunctionOnSet(s, seen)
  BY DEF Summed
<1>6. seen = {} => a = Missing
  BY <1>4, <1>5, Zenon
<1>7. ASSUME seen # {} PROVE a # Missing
  <2>1. Max(seen) \in seen
    <3>1. \E n \in seen : \A m \in seen : n >= m
      <4> HIDE DEF seen
      <4> QED
        BY <1>1, <1>7, LargestNumber DEF SomeNumbers
    <3> QED
      BY <3>1, Zenon DEF Max
  <2>2. Min(seen) \in seen
    <3>1. \E n \in seen : \A m \in seen : n <= m
      <4>1. seen \in SUBSET Nat
        BY <1>1
      <4> HIDE DEF seen
      <4> QED
        BY <4>1, <1>7, LeastNumber
    <3> QED
      BY <3>1, Zenon DEF Min
  <2>3. SumFunctionOnSet(s, seen) \div Cardinality(seen) \in Int
    <3>1. Cardinality(seen) # 0
      BY <1>1, <1>7, FS_EmptySet
    <3> HIDE DEF seen
    <3> QED
      BY <1>1, <1>2, <3>1
  <2>4. s[Max(seen)] \in Int /\ s[Min(seen)] \in Int
    BY <1>1, <2>1, <2>2
  <2> HIDE DEF seen
  <2>5. CASE how = "sum"
    BY <1>2, <1>3, <1>4, <1>5, <1>7, <2>5
  <2>6. CASE how = "mean"
    BY <1>3, <1>4, <1>7, <2>3, <2>6
  <2>7. CASE how = "last"
    BY <1>3, <1>4, <1>7, <2>4, <2>7
  <2>8. CASE how \notin {"sum", "mean", "last"}
    BY <1>3, <1>4, <1>7, <2>4, <2>8
  <2> QED
    BY <2>5, <2>6, <2>7, <2>8
<1> QED
  BY <1>2, <1>6, <1>7

\* The stamps that lie on the calendar are their own periods.
LEMMA StampIsPeriod ==
    ASSUME Dated, OnGrid, NEW t \in Stamps
    PROVE  Period(t, Frequency) = t
<1>1. t \in Int /\ t \in Grid(Frequency)
  BY Span DEF OnGrid
<1>2. t % Frequency.step = Frequency.anchor
  BY <1>1 DEF Grid
<1> QED
  BY <1>1, <1>2, FrequencyIsProper, PeriodOnGrid

LEMMA GridPeriods ==
    ASSUME Dated, NEW p \in Grid(Frequency)
    PROVE  Period(p, Frequency) = p
<1>1. p \in Int /\ p % Frequency.step = Frequency.anchor
  BY Span DEF Grid
<1> QED
  BY <1>1, FrequencyIsProper, PeriodOnGrid

LEMMA FrameIsFaithful ==
    ASSUME Dated, NEW s, IsSeries(s), OptionsFit
    PROVE  Faithful(Framed(s))
<1>1. CASE options.aggregation = "As provided"
  <2>1. Framed(s) = [t \in Grid(Frequency) |-> IF t \in Stamps THEN s[t] ELSE Missing]
    BY <1>1 DEF Framed
  <2>2. ASSUME NEW p \in Grid(Frequency)
        PROVE  LET T == {t \in Stamps : Period(t, Frequency) = p}
               IN  T = {p} \cap Stamps
    BY <1>1, StampIsPeriod, GridPeriods DEF OptionsFit
  <2>3. ASSUME NEW p \in Grid(Frequency)
        PROVE  /\ Framed(s)[p] # Missing => SeenIn(p) \/ FalseZero(p)
               /\ Framed(s)[p] = Missing => ~ SeenIn(p) \/ options.duplicates \in {"keep-first", "latest"}
    <3> DEFINE T == {t \in Stamps : Period(t, Frequency) = p}
    <3>1. T = {p} \cap Stamps
      BY <2>2
    <3>2. Framed(s)[p] = IF p \in Stamps THEN s[p] ELSE Missing
      BY <2>1
    <3>3. /\ (\E t \in T : s[t] # Missing) => SeenIn(p) \/ FalseZero(p)
          /\ (\A t \in T : s[t] = Missing) => ~ SeenIn(p) \/ options.duplicates \in {"keep-first", "latest"}
      BY StampsOfPeriod, Zenon
    <3> HIDE DEF T
    <3> QED
      BY <3>1, <3>2, <3>3
  <2> QED
    BY <2>1, <2>3 DEF Faithful
<1>2. CASE options.aggregation # "As provided"
  <2> DEFINE T(p) == {t \in Stamps : Period(t, Frequency) = p}
             how == options.aggregation
  <2>1. Framed(s) = [p \in Periods(Frequency) |-> Aggregate(s, T(p), how)]
    BY <1>2 DEF Framed
  <2>2. ASSUME NEW p \in Periods(Frequency)
        PROVE  /\ Framed(s)[p] # Missing => SeenIn(p) \/ FalseZero(p)
               /\ Framed(s)[p] = Missing => ~ SeenIn(p) \/ options.duplicates \in {"keep-first", "latest"}
    <3>1. Framed(s)[p] = Missing <=> {t \in T(p) : s[t] # Missing} = {}
      <4>1. T(p) \in SUBSET Stamps
        OBVIOUS
      <4>2. Aggregate(s, T(p), how) = Missing <=> {t \in T(p) : s[t] # Missing} = {}
        <5> HIDE DEF T, how
        <5> QED
          BY <4>1, AggregateIs
      <4> QED
        BY <2>1, <4>2
    <3>2. /\ (\E t \in T(p) : s[t] # Missing) => SeenIn(p) \/ FalseZero(p)
          /\ (\A t \in T(p) : s[t] = Missing) => ~ SeenIn(p) \/ options.duplicates \in {"keep-first", "latest"}
      BY StampsOfPeriod, Zenon
    <3> HIDE DEF T
    <3> QED
      BY <3>1, <3>2
  <2> QED
    BY <2>1, <2>2 DEF Faithful
<1> QED
  BY <1>1, <1>2

-----------------------------------------------------------------------------
(***************************************************************************)
(* No demand is moved: the rows are summed by stamp and the stamps by period. *)
(***************************************************************************)
LEMMA StampSums ==
    ASSUME Dated
    PROVE  LET sums == [t \in Stamps |-> SumOf(RowsAt(t))]
           IN  /\ Summable(sums, Stamps)
               /\ SumFunctionOnSet(sums, Stamps) = SumOf(Selected)
<1> DEFINE at == [i \in Selected |-> Day(i)]
           sums == [t \in Stamps |-> SumOf(RowsAt(t))]
           group == [p \in Stamps |-> SumFunctionOnSet(Demand, {i \in Selected : at[i] = p})]
<1>1. at \in [Selected -> Stamps] /\ IsFiniteSet(Stamps) /\ Summable(Demand, Selected)
  BY Rows, DemandIs DEF Dated
<1>2. \A p \in Stamps : {i \in Selected : at[i] = p} = RowsAt(p)
  BY DEF RowsAt
<1>3. group = sums
  BY <1>2 DEF SumOf
<1>4. Summable(group, Stamps) /\ SumFunctionOnSet(group, Stamps) = SumFunctionOnSet(Demand, Selected)
  <2> HIDE DEF at
  <2> QED
    BY <1>1, SumByGroups, Zenon
<1> QED
  BY <1>3, <1>4, Zenon DEF SumOf

\* Leaving out what is missing is adding zeros.
LEMMA SummedIs ==
    ASSUME NEW g, NEW T, NEW h, Summable(h, T),
           \A p \in T : h[p] = IF g[p] = Missing THEN 0 ELSE g[p]
    PROVE  /\ Summed(g, T) \in {SumFunctionOnSet(h, T), Missing}
           /\ (IF Summed(g, T) = Missing THEN 0 ELSE Summed(g, T)) = SumFunctionOnSet(h, T)
<1> DEFINE seen == {p \in T : g[p] # Missing}
<1>1. Summed(g, T) = IF seen = {} THEN Missing ELSE SumFunctionOnSet(g, seen)
  BY DEF Summed
<1>2. seen \in SUBSET T /\ \A p \in seen : g[p] = h[p]
  OBVIOUS
<1>3. \A p \in T \ seen : h[p] = 0
  OBVIOUS
<1> HIDE DEF seen
<1>4. SumFunctionOnSet(h, T) = SumFunctionOnSet(h, seen)
  BY <1>2, <1>3, SumSkipsZeros
<1>5. SumFunctionOnSet(g, seen) = SumFunctionOnSet(h, seen) /\ SumFunctionOnSet(h, seen) \in Int
  <2>1. Summable(h, seen)
    BY <1>2, SubsetSummable
  <2> QED
    BY <1>2, <2>1, SumsAgree, SumType
<1>6. seen = {} => SumFunctionOnSet(h, seen) = 0
  BY SumOfNothing
<1>7. Missing \notin Int
  BY PreparationAssumption
<1> QED
  BY <1>1, <1>4, <1>5, <1>6, <1>7

Summing == options.duplicates = "sum" /\ options.aggregation \in {"sum", "As provided"}

LEMMA DemandIsKept ==
    ASSUME Dated, NEW s, IsSeries(s), OptionsFit, Summing
    PROVE  Summed(Framed(s), DOMAIN Framed(s)) \in {SumOf(Selected), Missing}
<1> DEFINE sums == [t \in Stamps |-> SumOf(RowsAt(t))]
<1>1. Summable(sums, Stamps) /\ SumFunctionOnSet(sums, Stamps) = SumOf(Selected)
  BY StampSums
<1>2. ASSUME NEW t \in Stamps PROVE sums[t] = IF s[t] = Missing THEN 0 ELSE s[t]
  BY ResolvedIs DEF IsSeries, Summing
<1>3. FirstDay \in Nat /\ FinalDay \in Nat /\ \A t \in Stamps : t \in Nat /\ FirstDay <= t /\ t <= FinalDay
  BY Span
<1>4. CASE options.aggregation = "As provided"
  <2> DEFINE G == Grid(Frequency)
             whole == [p \in G |-> IF p \in Stamps THEN sums[p] ELSE 0]
  <2>1. Framed(s) = [t \in G |-> IF t \in Stamps THEN s[t] ELSE Missing]
    BY <1>4 DEF Framed
  <2>2. IsFiniteSet(G) /\ Stamps \in SUBSET G
    <3>1. FirstDay \in Int /\ FinalDay \in Int
      BY <1>3
    <3>2. IsFiniteSet(FirstDay .. FinalDay)
      BY <3>1, FS_Interval
    <3>3. G \subseteq FirstDay .. FinalDay
      BY DEF Grid
    <3> QED
      BY <1>4, <3>2, <3>3, FS_Subset DEF OnGrid, OptionsFit
  <2>3. Summable(whole, G)
    <3>1. \A t \in Stamps : sums[t] \in Int
      BY <1>1 DEF Summable
    <3>2. \A p \in G : whole[p] \in Int
      BY <3>1
    <3> QED
      BY <2>2, <3>2 DEF Summable
  <2>4. \A p \in G : whole[p] = IF Framed(s)[p] = Missing THEN 0 ELSE Framed(s)[p]
    BY <1>2, <2>1
  <2>5. SumFunctionOnSet(whole, G) = SumFunctionOnSet(whole, Stamps)
    <3>1. \A p \in G \ Stamps : whole[p] = 0
      OBVIOUS
    <3> HIDE DEF whole, G
    <3> QED
      BY <2>2, <2>3, <3>1, SumSkipsZeros
  <2>6. SumFunctionOnSet(whole, Stamps) = SumFunctionOnSet(sums, Stamps)
    <3>1. \A p \in Stamps : whole[p] = sums[p]
      BY <2>2
    <3> HIDE DEF whole, sums
    <3> QED
      BY <1>1, <3>1, SumsAgree
  <2>7. DOMAIN Framed(s) = G
    BY <2>1
  <2> HIDE DEF whole, G, sums
  <2> QED
    BY <1>1, <2>3, <2>4, <2>5, <2>6, <2>7, SummedIs
<1>5. CASE options.aggregation = "sum"
  <2> DEFINE P == Periods(Frequency)
             T(p) == {t \in Stamps : Period(t, Frequency) = p}
             at == [t \in Stamps |-> Period(t, Frequency)]
             In(p) == {t \in Stamps : at[t] = p}
             group == [p \in P |-> SumFunctionOnSet(sums, In(p))]
  <2>1. Framed(s) = [p \in P |-> Summed(s, T(p))]
    BY <1>5 DEF Framed, Aggregate
  <2>2. /\ Proper(Frequency) /\ FirstDay \in Int /\ FinalDay \in Int
        /\ Period(FirstDay, Frequency) \in Int /\ Period(FinalDay, Frequency) \in Int
    <3>1. FirstDay \in Int /\ FinalDay \in Int
      BY <1>3
    <3> QED
      BY <3>1, FrequencyIsProper, PeriodIs
  <2>3. at \in [Stamps -> P]
    <3>1. ASSUME NEW t \in Stamps PROVE Period(t, Frequency) \in P
      <4>1. t \in Int /\ FirstDay <= t /\ t <= FinalDay
        BY <1>3
      <4>2. Period(t, Frequency) \in Int /\ Period(t, Frequency) % Frequency.step = Frequency.anchor
        BY <2>2, <4>1, PeriodIs
      <4>3. /\ Period(FirstDay, Frequency) <= Period(t, Frequency)
            /\ Period(t, Frequency) <= Period(FinalDay, Frequency)
        BY <2>2, <4>1, PeriodsAreOrdered
      <4>4. Period(t, Frequency) \in Period(FirstDay, Frequency) .. Period(FinalDay, Frequency)
        BY <2>2, <4>2, <4>3
      <4> QED
        BY <4>2, <4>4 DEF Periods
    <3> QED
      BY <3>1
  <2>4. IsFiniteSet(P)
    <3>1. IsFiniteSet(Period(FirstDay, Frequency) .. Period(FinalDay, Frequency))
      BY <2>2, FS_Interval
    <3>2. P \subseteq Period(FirstDay, Frequency) .. Period(FinalDay, Frequency)
      BY DEF Periods
    <3> QED
      BY <3>1, <3>2, FS_Subset
  <2>5. Summable(group, P) /\ SumFunctionOnSet(group, P) = SumFunctionOnSet(sums, Stamps)
    <3> HIDE DEF at, P, sums
    <3> QED
      BY <1>1, <2>3, <2>4, SumByGroups, Zenon
  <2>6. ASSUME NEW p \in P
        PROVE  group[p] = IF Framed(s)[p] = Missing THEN 0 ELSE Framed(s)[p]
    <3>1. In(p) = T(p) /\ T(p) \in SUBSET Stamps /\ group[p] = SumFunctionOnSet(sums, T(p))
      OBVIOUS
    <3>2. Framed(s)[p] = Summed(s, T(p))
      BY <2>1
    <3>3. Summable(sums, T(p))
      BY <1>1, <3>1, SubsetSummable
    <3>4. \A t \in T(p) : sums[t] = IF s[t] = Missing THEN 0 ELSE s[t]
      BY <1>2, <3>1
    <3>5. (IF Summed(s, T(p)) = Missing THEN 0 ELSE Summed(s, T(p))) = SumFunctionOnSet(sums, T(p))
      <4> HIDE DEF T, sums
      <4> QED
        BY <3>3, <3>4, SummedIs
    <3> QED
      BY <3>1, <3>2, <3>5, Zenon
  <2>7. DOMAIN Framed(s) = P
    BY <2>1
  <2> HIDE DEF P, sums, group
  <2> QED
    BY <1>1, <2>5, <2>6, <2>7, SummedIs
<1> QED
  BY <1>4, <1>5 DEF Summing
-----------------------------------------------------------------------------
(***************************************************************************)
(* What was prepared is the frame of one of the series of the table.       *)
(***************************************************************************)
PreparedInv ==
    /\ file \in Uploads
    /\ stage = "prepared" =>
          /\ Dated /\ OptionsFit
          /\ \E s \in Series : frame = Framed(s)

LEMMA PreparedStep == PreparedInv /\ [PrepNext]_prepVars => PreparedInv'
<1> SUFFICES ASSUME PreparedInv, [PrepNext]_prepVars PROVE PreparedInv'
  OBVIOUS
<1>1. UNCHANGED <<file, options>>
  BY DEF PrepNext, Stream, Receive, Preflight, Prepare, Train, prepVars
<1>2. /\ Stamps' = Stamps /\ FirstDay' = FirstDay /\ FinalDay' = FinalDay
      /\ Selected' = Selected /\ Demand' = Demand
      /\ \A i : Day(i)' = Day(i) /\ Amount(i)' = Amount(i)
      /\ \A t : RowsAt(t)' = RowsAt(t)
  BY <1>1 DEF Stamps, FirstDay, FinalDay, Selected, Day, Amount, RowsAt, Demand
<1>3. /\ Duplicated' = Duplicated /\ Spacing' = Spacing
      /\ \A I : Known(I)' = Known(I) /\ SumOf(I)' = SumOf(I)
      /\ \A k : Every(k)' = Every(k)
  BY <1>2 DEF Duplicated, Spacing, Even, Known, SumOf, Every
<1>4. Ordered' = Ordered
  BY <1>1, Zenon DEF Ordered, Selected, Day
<1>5. Inferred' = Inferred
  BY <1>2, <1>3, <1>4 DEF Inferred, Median2, Deltas, Normalized, Daily, Weekly, Monthly
<1>6. Frequency' = Frequency
  BY <1>1, <1>5, Zenon DEF Frequency, Weekly, Daily
<1>7. /\ \A I : Mean(I)' = Mean(I)
      /\ \A t, how : Resolved(t, how)' = Resolved(t, how)
  BY <1>2, <1>3 DEF Resolved, Mean
<1>8. Series' = Series
  BY <1>1, <1>2, <1>7 DEF Series
<1>9. /\ OnGrid' = OnGrid /\ \A s : Framed(s)' = Framed(s)
  BY <1>1, <1>2, <1>6 DEF OnGrid, Grid, Framed, Periods
<1>10. CASE Prepare
  BY <1>1, <1>2, <1>8, <1>9, <1>10 DEF Prepare, PreparedInv, Dated, Refused, OptionsFit
<1>11. CASE UNCHANGED frame /\ (stage' = "prepared" => stage = "prepared")
  BY <1>1, <1>2, <1>8, <1>9, <1>11 DEF PreparedInv, Dated, OptionsFit
<1>12. CASE Stream \/ Receive \/ Preflight \/ (\E c \in DOMAIN frame : Train(c)) \/ UNCHANGED prepVars
  BY <1>11, <1>12 DEF Stream, Receive, Preflight, Train, prepVars
<1> QED
  BY <1>10, <1>12 DEF PrepNext

\* For every table, calendar and choice of the user the calendar says what the
\* table says: a period has a value exactly where something was observed (but
\* for the rows without a value that a sum over repeated stamps makes zeros,
\* and the choice of one row among several), and summing moves no demand.
THEOREM TableIsKept == PrepSpec => []NothingInvented
<1>1. PrepInit => PreparedInv
  BY DEF PrepInit, PreparedInv
<1>2. PreparedInv => NothingInvented
  <2> SUFFICES ASSUME PreparedInv, stage = "prepared" PROVE NothingInvented
    BY DEF NothingInvented
  <2>1. PICK s \in Series : frame = Framed(s)
    BY DEF PreparedInv
  <2>2. Dated /\ IsSeries(s) /\ OptionsFit
    BY SeriesIs DEF PreparedInv
  <2>3. Faithful(frame)
    BY <2>1, <2>2, FrameIsFaithful
  <2>4. options.duplicates = "sum" /\ options.aggregation \in {"sum", "As provided"} =>
            Summed(frame, DOMAIN frame) \in {SumOf(Selected), Missing}
    BY <2>1, <2>2, DemandIsKept DEF Summing
  <2> QED
    BY <2>3, <2>4, Zenon DEF NothingInvented, Faithful, SeenIn
<1> QED
  BY <1>1, <1>2, PreparedStep, PTL DEF PrepSpec

-----------------------------------------------------------------------------
(***************************************************************************)
(* ForecastMonitoring.  The records of a list take distinct places in the  *)
(* order of Before, so each place is taken and Sorted is what it says;     *)
(* which vintages count then depends on the set of records alone.  Among   *)
(* fully observed records, being enough is a question about their jobs,    *)
(* and jobs that are enough are still so with others.                      *)
(***************************************************************************)

\* A list of records, each of another job.
Listed(s) == {s[k] : k \in DOMAIN s}
OfJobs(s) ==
    /\ \A k \in DOMAIN s : /\ s[k].job \in Int /\ s[k].at \in Nat
                           /\ Plan(s[k]).origin \in Nat
    /\ \A k, m \in DOMAIN s : k # m => s[k].job # s[m].job
Records(s) == OfJobs(s) /\ \E n \in Nat : DOMAIN s = 1 .. n

\* Records of different jobs come one before the other.
LEMMA BeforeIsAnOrder ==
    ASSUME NEW s, OfJobs(s), NEW k \in DOMAIN s, NEW m \in DOMAIN s
    PROVE  /\ ~ Before(s[k], s[k])
           /\ Before(s[k], s[m]) => ~ Before(s[m], s[k])
           /\ k # m => Before(s[k], s[m]) \/ Before(s[m], s[k])
           /\ \A i \in DOMAIN s : Before(s[i], s[k]) /\ Before(s[k], s[m]) => Before(s[i], s[m])
<1>1. \A i \in DOMAIN s : s[i].job \in Int /\ s[i].at \in Nat /\ Plan(s[i]).origin \in Nat
  BY DEF OfJobs
<1>2. k # m => s[k].job # s[m].job
  BY DEF OfJobs
<1>3. ASSUME NEW i \in DOMAIN s, Before(s[i], s[k]), Before(s[k], s[m]) PROVE Before(s[i], s[m])
  <2> DEFINE a == s[i] b == s[k] c == s[m]
             x == Plan(a).origin y == Plan(b).origin z == Plan(c).origin
  <2>1. /\ x < y \/ (x = y /\ (a.at < b.at \/ (a.at = b.at /\ a.job < b.job)))
        /\ y < z \/ (y = z /\ (b.at < c.at \/ (b.at = c.at /\ b.job < c.job)))
    BY <1>3 DEF Before
  <2>2. /\ x \in Nat /\ y \in Nat /\ z \in Nat
        /\ a.at \in Nat /\ b.at \in Nat /\ c.at \in Nat
        /\ a.job \in Int /\ b.job \in Int /\ c.job \in Int
    BY <1>1
  <2> HIDE DEF x, y, z, a, b, c
  <2>3. x < z \/ (x = z /\ (a.at < c.at \/ (a.at = c.at /\ a.job < c.job)))
    BY <2>1, <2>2
  <2> QED
    BY <2>3 DEF Before, x, z, a, c
<1>4. ~ Before(s[k], s[k])
  BY <1>1 DEF Before
<1>5. Before(s[k], s[m]) => ~ Before(s[m], s[k])
  BY <1>1 DEF Before
<1>6. k # m => Before(s[k], s[m]) \/ Before(s[m], s[k])
  BY <1>1, <1>2 DEF Before
<1> QED
  BY <1>3, <1>4, <1>5, <1>6

\* The records that come before the k-th.
Ahead(s, k) == {m \in DOMAIN s : Before(s[m], s[k])}
Place(s, k) == Cardinality(Ahead(s, k))

\* Fewer records come before an earlier one.
LEMMA PlacesAreOrdered ==
    ASSUME NEW s, Records(s), NEW k \in DOMAIN s, NEW m \in DOMAIN s
    PROVE  /\ Place(s, k) \in Nat
           /\ Before(s[k], s[m]) => Place(s, k) < Place(s, m)
           /\ Place(s, k) = Place(s, m) => k = m
<1>1. OfJobs(s) /\ IsFiniteSet(DOMAIN s)
  BY FS_Interval DEF Records
<1>2. \A j \in DOMAIN s : IsFiniteSet(Ahead(s, j)) /\ Place(s, j) \in Nat
  BY <1>1, FS_Subset, FS_CardinalityType DEF Ahead, Place
<1>3. ASSUME NEW i \in DOMAIN s, NEW j \in DOMAIN s, Before(s[i], s[j])
      PROVE  Place(s, i) < Place(s, j)
  <2>1. Ahead(s, i) \cup {i} \subseteq Ahead(s, j)
    BY <1>1, <1>3, BeforeIsAnOrder DEF Ahead
  <2>2. i \notin Ahead(s, i)
    BY <1>1, BeforeIsAnOrder DEF Ahead
  <2>3. Cardinality(Ahead(s, i) \cup {i}) = Place(s, i) + 1
    BY <1>2, <2>2, FS_AddElement DEF Place
  <2>4. Cardinality(Ahead(s, i) \cup {i}) <= Place(s, j)
    BY <1>2, <2>1, FS_Subset DEF Place
  <2> QED
    BY <1>2, <2>3, <2>4
<1>4. Place(s, k) = Place(s, m) => k = m
  BY <1>1, <1>2, <1>3, BeforeIsAnOrder
<1> QED
  BY <1>2, <1>3, <1>4

\* So every place in the list is taken by one of them.
LEMMA EveryPlaceIsTaken ==
    ASSUME NEW s, Records(s), NEW i \in DOMAIN s
    PROVE  \E k \in DOMAIN s : Place(s, k) = i - 1
<1>1. PICK n \in Nat : DOMAIN s = 1 .. n
  BY DEF Records
<1>2. IsFiniteSet(1 .. n) /\ Cardinality(1 .. n) = n
  BY FS_Interval
<1> DEFINE rank == [k \in 1 .. n |-> Place(s, k) + 1]
<1>3. ASSUME NEW k \in 1 .. n PROVE Place(s, k) \in 0 .. n - 1
  <2>1. k \notin Ahead(s, k)
    BY <1>1, BeforeIsAnOrder DEF Ahead, Records
  <2>2. Ahead(s, k) \subseteq 1 .. n
    BY <1>1 DEF Ahead
  <2>3. IsFiniteSet(Ahead(s, k))
    BY <1>2, <2>2, FS_Subset
  <2>4. Cardinality(Ahead(s, k) \cup {k}) = Place(s, k) + 1
    BY <2>1, <2>3, FS_AddElement DEF Place
  <2>5. Cardinality(Ahead(s, k) \cup {k}) <= n
    BY <1>2, <2>2, FS_Subset
  <2>6. Place(s, k) \in Nat
    BY <1>1, PlacesAreOrdered
  <2> QED
    BY <2>4, <2>5, <2>6
<1>4. rank \in [1 .. n -> 1 .. n]
  BY <1>3
<1>5. \A k, m \in 1 .. n : rank[k] = rank[m] => k = m
  <2> TAKE k, m \in 1 .. n
  <2>1. Place(s, k) \in Nat /\ Place(s, m) \in Nat
    BY <1>3
  <2>2. Place(s, k) = Place(s, m) => k = m
    BY <1>1, PlacesAreOrdered
  <2> QED
    BY <2>1, <2>2
<1>6. rank \in Injection(1 .. n, 1 .. n)
  BY <1>4, <1>5 DEF Injection, IsInjective
<1>7. rank \in Surjection(1 .. n, 1 .. n)
  BY <1>2, <1>6, FS_Injection
<1>8. PICK k \in 1 .. n : rank[k] = i
  BY <1>1, <1>7 DEF Surjection
<1> QED
  BY <1>1, <1>3, <1>8

\* Sorted lists the same records, in order.
LEMMA SortedIs ==
    ASSUME NEW s, Records(s)
    PROVE  /\ DOMAIN Sorted(s) = DOMAIN s
           /\ Listed(Sorted(s)) = Listed(s)
           /\ \A i, k \in DOMAIN s : i < k => Before(Sorted(s)[i], Sorted(s)[k])
<1> DEFINE at(i) == CHOOSE k \in DOMAIN s : Place(s, k) = i - 1
<1>1. Sorted(s) = [i \in DOMAIN s |-> s[at(i)]]
  BY Zenon DEF Sorted, Place, Ahead
<1>2. \A i \in DOMAIN s : at(i) \in DOMAIN s /\ Place(s, at(i)) = i - 1
  BY EveryPlaceIsTaken
<1> HIDE DEF at
<1>3. \A i \in DOMAIN s : i \in Nat /\ i >= 1
  BY DEF Records
<1>4. ASSUME NEW i \in DOMAIN s, NEW k \in DOMAIN s, i < k
      PROVE  Before(s[at(i)], s[at(k)])
  <2>1. Place(s, at(i)) < Place(s, at(k)) /\ ~ (Place(s, at(k)) < Place(s, at(i)))
    BY <1>2, <1>3, <1>4
  <2>2. at(i) # at(k) /\ ~ Before(s[at(k)], s[at(i)])
    BY <1>2, <2>1, PlacesAreOrdered
  <2> QED
    BY <1>2, <2>2, BeforeIsAnOrder DEF Records
<1>5. ASSUME NEW k \in DOMAIN s PROVE \E i \in DOMAIN s : at(i) = k
  <2> DEFINE i == Place(s, k) + 1
  <2>1. i \in DOMAIN s
    <3>1. PICK n \in Nat : DOMAIN s = 1 .. n
      BY DEF Records
    <3>2. \A j \in 1 .. n : Place(s, at(j)) = j - 1 /\ at(j) \in 1 .. n
      BY <1>2, <3>1
    <3>3. Place(s, k) \in Nat
      BY PlacesAreOrdered
    <3>4. Ahead(s, k) \subseteq 1 .. n /\ k \in 1 .. n /\ k \notin Ahead(s, k)
      BY <3>1, BeforeIsAnOrder DEF Ahead, Records
    <3>5. IsFiniteSet(1 .. n) /\ Cardinality(1 .. n) = n
      BY FS_Interval
    <3>6. Cardinality(Ahead(s, k) \cup {k}) = Place(s, k) + 1
      BY <3>4, <3>5, FS_Subset, FS_AddElement DEF Place
    <3>7. Cardinality(Ahead(s, k) \cup {k}) <= n
      BY <3>4, <3>5, FS_Subset
    <3> QED
      BY <3>1, <3>3, <3>6, <3>7
  <2>2. Place(s, at(i)) = Place(s, k)
    <3>1. Place(s, k) \in Nat
      BY PlacesAreOrdered
    <3>2. Place(s, at(i)) = i - 1
      BY <1>2, <2>1
    <3> QED
      BY <3>1, <3>2
  <2>3. at(i) = k
    BY <1>2, <2>1, <2>2, PlacesAreOrdered
  <2> QED
    BY <2>1, <2>3
<1>6. Listed(Sorted(s)) = Listed(s)
  BY <1>1, <1>2, <1>5 DEF Listed
<1> QED
  BY <1>1, <1>4, <1>6

\* Which vintages count, said of the set of records alone.
Newest(R) == {r \in R : \A q \in R : Plan(q).origin = Plan(r).origin => q = r \/ Before(q, r)}

LEMMA VintagesAre ==
    ASSUME NEW s, Records(s)
    PROVE  Vintages(s) = Newest(Listed(s))
<1> DEFINE t == Sorted(s)
           Late(i) == \E k \in DOMAIN t : k > i /\ Plan(t[k]).origin = Plan(t[i]).origin
<1>1. Vintages(s) = {t[i] : i \in {i \in DOMAIN t : ~ Late(i)}}
  BY Zenon DEF Vintages
<1>2. /\ DOMAIN t = DOMAIN s /\ Listed(t) = Listed(s)
      /\ \A i, k \in DOMAIN t : i < k => Before(t[i], t[k])
  BY SortedIs
<1>3. \A i \in DOMAIN t : i \in Nat
  BY <1>2 DEF Records
<1>4. \A r, q \in Listed(s) : Before(r, q) => ~ Before(q, r) /\ r # q
  BY BeforeIsAnOrder DEF Listed, Records
<1> HIDE DEF t
<1>5. ASSUME NEW i \in DOMAIN t PROVE t[i] \in Newest(Listed(s)) <=> ~ Late(i)
  <2>1. t[i] \in Listed(s)
    BY <1>2 DEF Listed
  <2>2. ASSUME Late(i) PROVE t[i] \notin Newest(Listed(s))
    <3>1. PICK k \in DOMAIN t : k > i /\ Plan(t[k]).origin = Plan(t[i]).origin
      BY <2>2
    <3>2. Before(t[i], t[k]) /\ t[k] \in Listed(s)
      BY <1>2, <1>3, <3>1 DEF Listed
    <3>3. ~ Before(t[k], t[i]) /\ t[k] # t[i]
      BY <1>4, <2>1, <3>2
    <3> QED
      BY <3>1, <3>2, <3>3 DEF Newest
  <2>3. ASSUME ~ Late(i) PROVE t[i] \in Newest(Listed(s))
    <3>1. ASSUME NEW q \in Listed(s), Plan(q).origin = Plan(t[i]).origin
          PROVE  q = t[i] \/ Before(q, t[i])
      <4>1. PICK k \in DOMAIN t : q = t[k]
        BY <1>2 DEF Listed
      <4>2. ~ (k > i)
        BY <2>3, <3>1, <4>1
      <4> QED
        BY <1>2, <1>3, <4>1, <4>2
    <3> QED
      BY <2>1, <3>1 DEF Newest
  <2> QED
    BY <2>2, <2>3
<1>6. Newest(Listed(s)) \subseteq {t[i] : i \in DOMAIN t}
  BY <1>2 DEF Newest, Listed
<1> QED
  BY <1>1, <1>5, <1>6

-----------------------------------------------------------------------------
\* What a comparison keeps between its steps.
LEMMA CallsTyped ==
    ASSUME MonitorTypeOK, CompareBegin \/ CompareScore \/ CompareRead \/ CompareAnswer
    PROVE  call' \in Calls
<1> DEFINE Measured == [job : JobIds, at : Nat, seen : Scores]
<1>0. /\ call \in [at : {"idle", "reading", "answered"}, answer : {0, 200, 404, 422},
                   records : Seq(Measured), scored : Scores \cup {<<>>}]
      /\ snapshot \in [JobIds -> Nat \cup {NoSnapshot}] /\ jobRows \subseteq JobIds
      /\ \A j \in JobIds : actual[j] \in Scores
  BY DEF MonitorTypeOK, Calls, Scores
<1>1. ASSUME NEW code \in {0, 200, 404, 422}, Reply(code) PROVE call' \in Calls
  BY <1>0, <1>1 DEF Reply, Calls
<1>2. CASE CompareBegin
  <2>1. <<>> \in Seq(Measured)
    OBVIOUS
  <2> QED
    BY <1>2, <2>1 DEF CompareBegin, NoCompare, Calls
<1>3. CASE CompareScore
  <2>1. CASE NextId \in Issued
    <3>1. actual[NextId] \in Scores
      BY <1>0, <2>1 DEF Issued
    <3>2. call' = [call EXCEPT !.scored = actual[NextId]]
      BY <1>3, <2>1 DEF CompareScore
    <3> QED
      BY <1>0, <3>1, <3>2 DEF Calls
  <2> QED
    BY <1>1, <1>3, <2>1 DEF CompareScore
<1>4. CASE CompareRead
  <2> DEFINE r == [RecordOf(NextId) EXCEPT !.seen = call.scored]
  <2>1. \/ call' = [call EXCEPT !.records = Append(@, r), !.scored = <<>>]
           /\ NextId \in Issued
        \/ Reply(422)
    BY <1>4, Zenon DEF CompareRead
  <2>2. ASSUME NextId \in Issued PROVE r \in Measured
    BY <1>0, <1>4, <2>2 DEF CompareRead, RecordOf, Issued
  <2> HIDE DEF r, Measured
  <2>3. ASSUME NextId \in Issued PROVE Append(call.records, r) \in Seq(Measured)
    BY <1>0, <2>2, <2>3
  <2>4. CASE call' = [call EXCEPT !.records = Append(@, r), !.scored = <<>>]
             /\ NextId \in Issued
    BY <1>0, <2>3, <2>4 DEF Calls, Measured
  <2> QED
    BY <1>1, <2>1, <2>4
<1>5. CASE CompareAnswer
  BY <1>1, <1>5 DEF CompareAnswer
<1> QED
  BY <1>2, <1>3, <1>4, <1>5

\* The monitoring keeps its types, and its records are of different jobs.
LEMMA MonitorTypes == MonitorSpec => []MonitorTypeOK
<1>1. MonitorInit => MonitorTypeOK
  BY DEF MonitorInit, MonitorTypeOK, NoCompare, Submissions, Calls
<1>2. MonitorTypeOK /\ [MonitorNext]_monitorVars => MonitorTypeOK'
  <2> SUFFICES ASSUME MonitorTypeOK, [MonitorNext]_monitorVars PROVE MonitorTypeOK'
    OBVIOUS
  <2> USE DEF MonitorTypeOK
  <2>1. ASSUME NEW j \in JobIds, SaveSnapshot(j) PROVE MonitorTypeOK'
    BY <2>1 DEF SaveSnapshot, JobIds, Steps, Submissions, Scores, Calls
  <2>2. ASSUME NEW j \in JobIds, Purge(j) PROVE MonitorTypeOK'
    <3>1. \A i \in JobIds : actual'[i] \in Submissions(i)
      BY <2>2 DEF Purge, Submissions
    <3> QED
      BY <2>2, <3>1 DEF Purge, JobIds, Steps, Submissions, Scores, Calls
  <2>3. ASSUME NEW j \in JobIds, NEW new \in Submissions(j), RecordActuals(j, new)
        PROVE  MonitorTypeOK'
    <3>1. Merged(actual[j], new) \in Submissions(j)
      BY DEF Merged, Submissions
    <3>2. \A i \in JobIds : actual'[i] \in Submissions(i)
      BY <2>3, <3>1 DEF RecordActuals
    <3> QED
      BY <2>3, <3>2 DEF RecordActuals, JobIds, Steps, Submissions, Scores, Calls
  <2>4. CASE CompareBegin \/ CompareScore \/ CompareRead \/ CompareAnswer
    <3>1. call' \in Calls
      BY <2>4, CallsTyped
    <3>2. UNCHANGED <<plan, jobRows, snapshot, actual, clock>>
      BY <2>4 DEF CompareBegin, CompareScore, CompareRead, CompareAnswer
    <3> QED
      BY <3>1, <3>2 DEF JobIds, Steps, Submissions, Scores, Calls
  <2>6. CASE UNCHANGED monitorVars
    BY <2>6 DEF monitorVars, JobIds, Steps, Submissions, Scores, Calls
  <2> QED
    BY <2>1, <2>2, <2>3, <2>4, <2>6 DEF MonitorNext
<1> QED
  BY <1>1, <1>2, PTL DEF MonitorSpec

\* The jobs issued, one record each.
IssuedRecords == {RecordOf(j) : j \in Issued}

LEMMA IssuedIs ==
    ASSUME MonitorTypeOK
    PROVE  /\ IsFiniteSet(Issued)
           /\ \A j \in Issued : /\ j \in Int /\ snapshot[j] \in Nat
                                /\ plan.jobs[j].origin \in Nat
<1>1. /\ IsFiniteSet(JobIds) /\ JobIds \subseteq Int
      /\ \A j \in JobIds : plan.jobs[j].origin \in Nat
  BY MonitoringAssumption DEF MonitorTypeOK, JobIds
<1>2. Issued \subseteq JobIds
  BY DEF Issued, MonitorTypeOK
<1>3. \A j \in Issued : snapshot[j] \in Nat
  BY <1>2 DEF Issued, MonitorTypeOK
<1>4. IsFiniteSet(Issued)
  BY <1>1, <1>2, FS_Subset
<1> QED
  BY <1>1, <1>2, <1>3, <1>4

\* A list of all of them, each once, is a list of records.
LEMMA ListsOfIssued ==
    ASSUME MonitorTypeOK, NEW s, NEW n \in Nat, DOMAIN s = 1 .. n,
           Listed(s) = IssuedRecords,
           \A k, m \in DOMAIN s : k # m => s[k] # s[m]
    PROVE  Records(s)
<1>1. \A k \in DOMAIN s : \E j \in Issued : s[k] = RecordOf(j)
  BY DEF Listed, IssuedRecords
<1>2. \A k \in DOMAIN s : /\ s[k].job \in Issued /\ s[k] = RecordOf(s[k].job)
                          /\ s[k].at = snapshot[s[k].job]
  BY <1>1 DEF RecordOf
<1>3. \A k, m \in DOMAIN s : k # m => s[k].job # s[m].job
  BY <1>2
<1>4. \A k \in DOMAIN s : s[k].job \in Int /\ s[k].at \in Nat /\ Plan(s[k]).origin \in Nat
  BY <1>2, IssuedIs DEF Plan
<1> QED
  BY <1>3, <1>4 DEF Records, OfJobs

LEMMA AllRecordsAre ==
    ASSUME MonitorTypeOK
    PROVE  /\ Records(AllRecords) /\ Listed(AllRecords) = IssuedRecords
           /\ Range(AllRecords) = IssuedRecords
<1> DEFINE ids == SetToSeq(Issued)
           n == Cardinality(Issued)
<1>1. n \in Nat /\ \E f : f \in Bijection(1 .. n, Issued)
  BY IssuedIs, FS_CardinalityType DEF ExistsBijection
<1>2. \E f \in [1 .. n -> Issued] : IsInjective(f)
  BY <1>1 DEF Bijection, Injection
<1>3. ids \in [1 .. n -> Issued] /\ IsInjective(ids)
  BY <1>2, Zenon DEF SetToSeq
<1>4. ids \in Surjection(1 .. n, Issued)
  <2>1. IsFiniteSet(1 .. n) /\ Cardinality(1 .. n) = n
    BY <1>1, FS_Interval
  <2>2. ids \in Injection(1 .. n, Issued)
    BY <1>3 DEF Injection
  <2> QED
    BY <2>1, <2>2, IssuedIs, FS_Injection
<1>5. AllRecords = [i \in 1 .. n |-> RecordOf(ids[i])]
  BY <1>3, Zenon DEF AllRecords
<1> HIDE DEF ids, n
<1>6. Listed(AllRecords) = IssuedRecords
  BY <1>3, <1>4, <1>5 DEF Listed, IssuedRecords, Surjection
<1>7. \A i, k \in 1 .. n : i # k => AllRecords[i] # AllRecords[k]
  <2> TAKE i, k \in 1 .. n
  <2>1. AllRecords[i].job = ids[i] /\ AllRecords[k].job = ids[k]
    BY <1>5 DEF RecordOf
  <2> QED
    BY <1>3, <2>1 DEF IsInjective
<1>8. DOMAIN AllRecords = 1 .. n
  BY <1>5
<1>9. Records(AllRecords)
  BY <1>1, <1>6, <1>7, <1>8, ListsOfIssued
<1> QED
  BY <1>6, <1>9 DEF Range, Listed

\* In every reachable state, for every order in which all the jobs are asked
\* for, the same vintages count and the same alerts are raised.
THEOREM OrderOfJobsIsIrrelevant == MonitorSpec => []OrderIrrelevant
<1>1. MonitorTypeOK => OrderIrrelevant
  <2> SUFFICES ASSUME MonitorTypeOK, NEW s \in SetToSeqs(Range(AllRecords))
               PROVE  Comparison(s) = Comparison(AllRecords)
    BY Zenon DEF OrderIrrelevant
  <2> DEFINE R == IssuedRecords
             n == Cardinality(R)
  <2>1. s \in [1 .. n -> R] /\ \A i, k \in 1 .. n : i # k => s[i] # s[k]
    BY AllRecordsAre DEF SetToSeqs
  <2>2. IsFiniteSet(R) /\ n \in Nat
    <3>1. PICK m \in Nat : DOMAIN AllRecords = 1 .. m
      BY AllRecordsAre DEF Records
    <3>2. ExistsSurjection(1 .. m, R)
      <4> DEFINE g == [i \in 1 .. m |-> AllRecords[i]]
      <4>1. g \in Surjection(1 .. m, R)
        BY <3>1, AllRecordsAre DEF Surjection, Listed
      <4> QED
        BY <4>1 DEF ExistsSurjection
    <3> QED
      BY <3>2, FS_NatSurjection, FS_CardinalityType
  <2> HIDE DEF R, n
  <2>3. s \in Surjection(1 .. n, R)
    <3>1. s \in Injection(1 .. n, R)
      BY <2>1 DEF Injection, IsInjective
    <3>2. IsFiniteSet(1 .. n) /\ Cardinality(1 .. n) = n
      BY <2>2, FS_Interval
    <3> QED
      BY <2>2, <3>1, <3>2, FS_Injection DEF n
  <2>4. Listed(s) = R
    BY <2>1, <2>3 DEF Surjection, Listed
  <2>5. Records(s)
    BY <2>1, <2>2, <2>4, ListsOfIssued DEF R
  <2>6. Vintages(s) = Vintages(AllRecords)
    BY <2>4, <2>5, AllRecordsAre, VintagesAre DEF R
  <2> QED
    BY <2>6, Zenon DEF Comparison
<1> QED
  BY <1>1, MonitorTypes, PTL

-----------------------------------------------------------------------------
\* What fully observed records say is what their jobs were planned to be.
JobsOf(S) == {r.job : r \in S}
Full(S) ==
    /\ \A r \in S : /\ r.job \in JobIds
                    /\ DOMAIN r.seen = Steps(r.job) /\ Seen(r.seen) = Steps(r.job)
    /\ \A r, q \in S : r.job = q.job => r = q

DatesOf(j) == {plan.jobs[j].origin + h : h \in Steps(j)}
Lengths == [j \in JobIds |-> plan.jobs[j].horizon]
EnoughJobs(J) ==
    /\ Cardinality(J) >= MinVintages
    /\ SumFunctionOnSet(Lengths, J) >= MinObserved
    /\ Cardinality(UNION {DatesOf(j) : j \in J}) >= MinDates

LEMMA PlanIs ==
    ASSUME MonitorTypeOK
    PROVE  /\ IsFiniteSet(JobIds) /\ Summable(Lengths, JobIds)
           /\ \A j \in JobIds : /\ plan.jobs[j].origin \in Nat /\ plan.jobs[j].horizon \in Nat
                                /\ Lengths[j] \in Nat
                                /\ IsFiniteSet(Steps(j))
                                /\ Cardinality(Steps(j)) = Lengths[j]
                                /\ IsFiniteSet(DatesOf(j))
<1>1. /\ IsFiniteSet(JobIds)
      /\ \A j \in JobIds : plan.jobs[j].origin \in Nat /\ plan.jobs[j].horizon \in Nat
  BY MonitoringAssumption DEF MonitorTypeOK, JobIds
<1>2. ASSUME NEW j \in JobIds
      PROVE  IsFiniteSet(Steps(j)) /\ Cardinality(Steps(j)) = plan.jobs[j].horizon
  <2> DEFINE n == plan.jobs[j].horizon
  <2>1. n \in Nat
    BY <1>1
  <2> HIDE DEF n
  <2>2. IsFiniteSet(1 .. n) /\ Cardinality(1 .. n) = n
    BY <2>1, FS_Interval
  <2> QED
    BY <2>2 DEF Steps, n
<1>3. ASSUME NEW j \in JobIds PROVE IsFiniteSet(DatesOf(j))
  <2>1. [h \in Steps(j) |-> plan.jobs[j].origin + h] \in Surjection(Steps(j), DatesOf(j))
    BY DEF Surjection, DatesOf
  <2> QED
    BY <1>2, <2>1, FS_Surjection
<1>4. Summable(Lengths, JobIds)
  BY <1>1 DEF Summable, Lengths
<1> QED
  BY <1>1, <1>2, <1>3, <1>4 DEF Lengths

\* Jobs that are enough are still so with others.
LEMMA MoreIsEnough ==
    ASSUME MonitorTypeOK, NEW K \in SUBSET JobIds, NEW J \in SUBSET K, EnoughJobs(J)
    PROVE  EnoughJobs(K)
<1>1. IsFiniteSet(K) /\ IsFiniteSet(J) /\ Cardinality(J) <= Cardinality(K)
      /\ Cardinality(J) \in Nat /\ Cardinality(K) \in Nat
  BY PlanIs, FS_Subset, FS_CardinalityType
<1>2. /\ SumFunctionOnSet(Lengths, J) <= SumFunctionOnSet(Lengths, K)
      /\ SumFunctionOnSet(Lengths, J) \in Int /\ SumFunctionOnSet(Lengths, K) \in Int
  <2>1. Summable(Lengths, K) /\ Summable(Lengths, J)
    BY PlanIs, SubsetSummable
  <2>2. \A j \in K \ J : Lengths[j] >= 0
    BY PlanIs
  <2> QED
    BY <2>1, <2>2, SumGrows, SumType
<1> DEFINE D(S) == UNION {DatesOf(j) : j \in S}
<1>3. /\ Cardinality(D(J)) <= Cardinality(D(K))
      /\ Cardinality(D(J)) \in Nat /\ Cardinality(D(K)) \in Nat
  <2>1. IsFiniteSet({DatesOf(j) : j \in K})
    <3>1. [j \in K |-> DatesOf(j)] \in Surjection(K, {DatesOf(j) : j \in K})
      BY DEF Surjection
    <3> QED
      BY <1>1, <3>1, FS_Surjection
  <2>2. IsFiniteSet(D(K))
    <3>1. \A T \in {DatesOf(j) : j \in K} : IsFiniteSet(T)
      BY PlanIs
    <3> QED
      BY <2>1, <3>1, FS_UNION
  <2>3. D(J) \subseteq D(K)
    OBVIOUS
  <2> QED
    BY <2>2, <2>3, FS_Subset, FS_CardinalityType
<1> HIDE DEF D
<1>4. {MinVintages, MinObserved, MinDates} \subseteq Nat
  BY MonitoringAssumption
<1>5. /\ Cardinality(J) >= MinVintages /\ SumFunctionOnSet(Lengths, J) >= MinObserved
      /\ Cardinality(D(J)) >= MinDates
  BY DEF EnoughJobs, D
<1>6. /\ Cardinality(K) >= MinVintages /\ SumFunctionOnSet(Lengths, K) >= MinObserved
      /\ Cardinality(D(K)) >= MinDates
  BY <1>1, <1>2, <1>3, <1>4, <1>5
<1> QED
  BY <1>6 DEF EnoughJobs, D

\* Whether records are enough is whether their jobs are.
LEMMA EnoughIs ==
    ASSUME MonitorTypeOK, NEW S, Full(S)
    PROVE  /\ IsFiniteSet(S) /\ JobsOf(S) \subseteq JobIds
           /\ Enough(S) <=> EnoughJobs(JobsOf(S))
<1> DEFINE J == JobsOf(S)
           at == [r \in S |-> r.job]
           f == [r \in S |-> Observations(r)]
<1>1. J \subseteq JobIds /\ IsFiniteSet(J)
  <2>1. J \subseteq JobIds
    BY DEF Full, JobsOf
  <2> QED
    BY <2>1, PlanIs, FS_Subset
<1>2. at \in Injection(S, J) /\ at \in Surjection(S, J)
  BY DEF Full, JobsOf, Injection, IsInjective, Surjection
<1>3. IsFiniteSet(S) /\ Cardinality(S) = Cardinality(J)
  BY <1>1, <1>2, FS_Injection
<1>4. \A r \in S : f[r] = Lengths[r.job] /\ f[r] \in Int
  BY PlanIs DEF Full, Observations
<1>5. Summable(f, S)
  BY <1>3, <1>4 DEF Summable
<1>6. Over(S, Observations) = SumFunctionOnSet(Lengths, J)
  <2> DEFINE In(j) == {r \in S : at[r] = j}
             group == [j \in J |-> SumFunctionOnSet(f, In(j))]
  <2>1. at \in [S -> J]
    BY DEF JobsOf
  <2>2. Summable(group, J) /\ SumFunctionOnSet(group, J) = SumFunctionOnSet(f, S)
    <3> HIDE DEF at, f, J
    <3> QED
      BY <1>1, <1>5, <2>1, SumByGroups
  <2>3. ASSUME NEW j \in J PROVE group[j] = Lengths[j]
    <3>1. PICK r \in S : r.job = j
      BY DEF JobsOf
    <3>2. In(j) = {r}
      BY <3>1 DEF Full
    <3>3. Summable(f, {}) /\ SumFunctionOnSet(f, {}) = 0
      BY SumOfNothing, FS_EmptySet DEF Summable
    <3>4. SumFunctionOnSet(f, {} \cup {r}) = f[r] + 0
      <4> HIDE DEF f
      <4> QED
        BY <1>4, <3>3, SumWithOneMore
    <3>5. SumFunctionOnSet(f, {r}) = Lengths[j]
      <4>1. {} \cup {r} = {r}
        OBVIOUS
      <4>2. f[r] + 0 = Lengths[j]
        BY <1>4, <3>1
      <4> HIDE DEF f
      <4> QED
        BY <3>4, <4>1, <4>2
    <3> QED
      BY <3>2, <3>5
  <2>4. SumFunctionOnSet(Lengths, J) = SumFunctionOnSet(group, J)
    <3> HIDE DEF group, J
    <3> QED
      BY <2>2, <2>3, SumsAgree
  <2> QED
    BY <2>2, <2>4, Zenon DEF Over, Total
<1>7. UNION {Dates(r) : r \in S} = UNION {DatesOf(j) : j \in J}
  <2>1. \A r \in S : Dates(r) = DatesOf(r.job)
    BY DEF Full, Dates, DatesOf, Plan
  <2> QED
    BY <2>1 DEF JobsOf
<1> QED
  BY <1>1, <1>3, <1>6, <1>7 DEF Enough, EnoughJobs

-----------------------------------------------------------------------------
\* A window is found when some ending is enough, and it is the shortest.
Origins(S) == {Plan(r).origin : r \in S}
Starts(S) == {o \in Origins(S) : Enough(Since(S, o))}
Longest(S, a) == a \in Starts(S) /\ \A o \in Starts(S) : o <= a

LEMMA WindowIs ==
    ASSUME MonitorTypeOK, NEW S, Full(S)
    PROVE  /\ Starts(S) = {} => Window(S) = {}
           /\ Starts(S) # {} => \E a : Longest(S, a) /\ Window(S) = Since(S, a) /\ Window(S) # {}
<1>1. /\ Starts(S) = {} => Window(S) = {}
      /\ Starts(S) # {} => Window(S) = Since(S, Max(Starts(S)))
  BY Zenon DEF Window, Starts, Origins
<1>2. SUFFICES ASSUME Starts(S) # {}
               PROVE  \E a : Longest(S, a) /\ Window(S) = Since(S, a) /\ Window(S) # {}
  BY <1>1
<1>3. IsFiniteSet(S) /\ \A r \in S : Plan(r).origin \in Nat
  BY EnoughIs, PlanIs DEF Full, Plan
<1>4. IsFiniteSet(Origins(S))
  <2>1. [r \in S |-> Plan(r).origin] \in Surjection(S, Origins(S))
    BY DEF Surjection, Origins
  <2> QED
    BY <1>3, <2>1, FS_Surjection
<1>5. SomeNumbers(Starts(S))
  <2>1. Starts(S) \subseteq Origins(S) /\ Origins(S) \subseteq Nat
    BY <1>3 DEF Starts, Origins
  <2>2. IsFiniteSet(Starts(S))
    BY <1>4, <2>1, FS_Subset
  <2> QED
    BY <1>2, <2>1, <2>2 DEF SomeNumbers
<1>6. \E a \in Starts(S) : \A o \in Starts(S) : a >= o
  BY <1>5, LargestNumber
<1> DEFINE a == Max(Starts(S))
<1>7. a \in Starts(S) /\ \A o \in Starts(S) : a >= o
  BY <1>6, Zenon DEF Max
<1>8. Longest(S, a)
  BY <1>5, <1>7 DEF Longest, SomeNumbers
<1>9. Since(S, a) # {}
  <2>1. PICK r \in S : Plan(r).origin = a
    BY <1>7 DEF Starts, Origins
  <2>2. a >= a
    BY <1>5, <1>7 DEF SomeNumbers
  <2> QED
    BY <2>1, <2>2 DEF Since
<1> QED
  BY <1>1, <1>2, <1>8, <1>9

\* Parts of fully observed records are fully observed.
LEMMA PartsAreFull ==
    ASSUME NEW S, Full(S), NEW T \in SUBSET S
    PROVE  Full(T)
  BY DEF Full

\* With records of more jobs there still are two windows.
LEMMA MoreIsReady ==
    ASSUME MonitorTypeOK, NEW S, NEW U, Full(S), Full(U), JobsOf(S) \subseteq JobsOf(U),
           Window(S) # {}, Window(S \ Window(S)) # {}
    PROVE  Window(U) # {} /\ Window(U \ Window(U)) # {}
<1>1. /\ \A r \in S : Plan(r).origin \in Nat /\ \E q \in U : q.job = r.job
      /\ \A q \in U : Plan(q).origin \in Nat
      /\ \A r \in S, q \in U : q.job = r.job => Plan(q).origin = Plan(r).origin
  BY PlanIs DEF Full, Plan, JobsOf
<1>2. ASSUME NEW T, NEW V, Full(T), Full(V), JobsOf(T) \subseteq JobsOf(V), Enough(T)
      PROVE  Enough(V)
  <2>1. EnoughJobs(JobsOf(T)) /\ JobsOf(V) \subseteq JobIds
    BY <1>2, EnoughIs
  <2>2. EnoughJobs(JobsOf(V))
    BY <1>2, <2>1, MoreIsEnough
  <2> QED
    BY <1>2, <2>2, EnoughIs
<1>3. PICK a : Longest(S, a) /\ Window(S) = Since(S, a)
  BY WindowIs
<1> DEFINE Rest == S \ Window(S)
<1>4. Full(Rest)
  BY PartsAreFull
<1>5. PICK b : Longest(Rest, b)
  <2> HIDE DEF Rest
  <2> QED
    BY <1>4, WindowIs DEF Rest
<1>6. a \in Starts(S) /\ b \in Starts(Rest)
  BY <1>3, <1>5 DEF Longest
<1>7. PICK r \in S : Plan(r).origin = a
  BY <1>6 DEF Starts, Origins
<1>8. PICK q \in Rest : Plan(q).origin = b
  BY <1>6 DEF Starts, Origins
<1>9. Enough(Since(S, a)) /\ Enough(Since(Rest, b))
  BY <1>6 DEF Starts
<1>10. a \in Nat /\ b \in Nat /\ b < a
  BY <1>1, <1>3, <1>7, <1>8 DEF Since
<1>11. a \in Starts(U)
  <2>1. PICK u \in U : u.job = r.job
    BY <1>1
  <2>2. a \in Origins(U)
    BY <1>1, <1>7, <2>1 DEF Origins
  <2>3. JobsOf(Since(S, a)) \subseteq JobsOf(Since(U, a))
    BY <1>1 DEF JobsOf, Since
  <2>4. Full(Since(S, a)) /\ Full(Since(U, a))
    BY PartsAreFull DEF Since
  <2>5. Enough(Since(U, a))
    BY <1>2, <1>9, <2>3, <2>4
  <2> QED
    BY <2>2, <2>5 DEF Starts
<1>12. PICK c : Longest(U, c) /\ Window(U) = Since(U, c) /\ Window(U) # {}
  BY <1>11, WindowIs
<1>13. c \in Nat /\ a <= c
  <2>1. PICK u \in U : Plan(u).origin = c
    BY <1>12 DEF Longest, Starts, Origins
  <2> QED
    BY <1>1, <1>11, <1>12, <2>1 DEF Longest
<1> DEFINE Others == U \ Window(U)
<1>14. Full(Others)
  BY PartsAreFull
<1>15. ASSUME NEW x \in Rest, NEW y \in U, y.job = x.job PROVE y \in Others
  <2>1. Plan(y).origin = Plan(x).origin /\ Plan(x).origin \in Nat
    BY <1>1, <1>15
  <2>2. Plan(x).origin < a
    BY <1>3, <1>10, <2>1 DEF Since
  <2>3. ~ (Plan(y).origin >= c)
    BY <1>10, <1>13, <2>1, <2>2
  <2> QED
    BY <1>12, <2>3 DEF Since
<1>16. b \in Starts(Others)
  <2>1. PICK u \in U : u.job = q.job
    BY <1>1, <1>8
  <2>2. u \in Others /\ Plan(u).origin = b
    BY <1>1, <1>8, <1>15, <2>1
  <2>3. b \in Origins(Others)
    BY <2>2 DEF Origins
  <2>4. JobsOf(Since(Rest, b)) \subseteq JobsOf(Since(Others, b))
    <3>1. ASSUME NEW x \in Since(Rest, b) PROVE \E y \in Since(Others, b) : y.job = x.job
      <4>1. x \in Rest /\ Plan(x).origin >= b
        BY <3>1 DEF Since
      <4>2. PICK y \in U : y.job = x.job
        BY <1>1, <4>1
      <4>3. y \in Others /\ Plan(y).origin = Plan(x).origin
        BY <1>1, <1>15, <4>1, <4>2
      <4> QED
        BY <4>1, <4>2, <4>3 DEF Since
    <3> QED
      BY <3>1 DEF JobsOf
  <2>5. Full(Since(Rest, b)) /\ Full(Since(Others, b))
    <3> HIDE DEF Rest, Others
    <3> QED
      BY <1>4, <1>14, PartsAreFull DEF Since
  <2>6. Enough(Since(Others, b))
    BY <1>2, <1>9, <2>4, <2>5
  <2> QED
    BY <2>3, <2>6 DEF Starts
<1>17. Window(Others) # {}
  <2> HIDE DEF Others
  <2> QED
    BY <1>14, <1>16, WindowIs
<1> QED
  BY <1>12, <1>17

-----------------------------------------------------------------------------
\* Records of forecasts, and those of them that count.
Scored(S) ==
    /\ \A r \in S : r.job \in JobIds /\ DOMAIN r.seen = Steps(r.job)
    /\ \A r, q \in S : r.job = q.job => r = q

LEMMA CompleteIsFull ==
    ASSUME NEW V, Scored(V)
    PROVE  Full(Complete(V))
<1>1. \A r \in V : Pending(r.seen) = {} => Seen(r.seen) = DOMAIN r.seen
  BY DEF Pending, Seen
<1> QED
  BY <1>1 DEF Complete, Full, Scored

\* Among forecasts of one length, every complete one is compared.
LEMMA ComparableIs ==
    ASSUME MonitorTypeOK, SameLength, NEW V, Scored(V)
    PROVE  Comparable(V) = Complete(V)
<1> DEFINE C == Complete(V)
<1>1. Full(C) /\ IsFiniteSet(C) /\ \A r \in C : Plan(r).origin \in Nat
  <2>1. Full(C)
    BY CompleteIsFull
  <2> HIDE DEF C
  <2> QED
    BY <2>1, EnoughIs, PlanIs DEF Full, Plan
<1>2. \A r, q \in C : DOMAIN r.seen = DOMAIN q.seen
  BY <1>1 DEF Full, SameLength, Steps
<1>3. Comparable(V) = {r \in C : \E q \in C : IsLast(q, C) /\ DOMAIN r.seen = DOMAIN q.seen}
  BY Zenon DEF Comparable
<1> HIDE DEF C
<1>4. CASE C = {}
  BY <1>3, <1>4 DEF C
<1>5. CASE C # {}
  <2>1. [r \in C |-> Plan(r).origin] \in Surjection(C, Origins(C))
    BY DEF Surjection, Origins
  <2>2. SomeNumbers(Origins(C))
    BY <1>1, <1>5, <2>1, FS_Surjection DEF SomeNumbers, Origins
  <2>3. PICK n \in Origins(C) : \A m \in Origins(C) : n >= m
    BY <2>2, LargestNumber
  <2>4. PICK q \in C : Plan(q).origin = n
    BY <2>3 DEF Origins
  <2>5. IsLast(q, C)
    BY <1>1, <2>3, <2>4 DEF IsLast, Origins
  <2> QED
    BY <1>2, <1>3, <2>5 DEF C
<1> QED
  BY <1>4, <1>5

\* A record after an actual was observed for a step of job j.
AfterActual(r, j, h, v) ==
    IF r.job # j THEN r ELSE [r EXCEPT !.seen = Merged(@, Single(j, h, v))]

LEMMA ObservedIs ==
    ASSUME MonitorTypeOK, NEW j \in Issued, NEW h \in Steps(j), NEW v \in Actuals,
           NEW r \in IssuedRecords
    PROVE  LET o == AfterActual(r, j, h, v)
           IN  /\ o.job = r.job /\ o.at = r.at /\ Plan(o) = Plan(r)
               /\ DOMAIN r.seen = Steps(r.job) /\ DOMAIN o.seen = Steps(r.job)
               /\ Seen(r.seen) \subseteq Seen(o.seen)
<1>1. PICK i \in Issued : r = RecordOf(i)
  BY DEF IssuedRecords
<1>2. i \in JobIds /\ DOMAIN actual[i] = Steps(i)
  BY DEF Issued, MonitorTypeOK, Submissions
<1>3. /\ r.job = i /\ r.seen = actual[i] /\ r.at = snapshot[i]
      /\ r = [job |-> i, at |-> snapshot[i], seen |-> actual[i]]
  BY <1>1 DEF RecordOf
<1>4. CASE i # j
  BY <1>2, <1>3, <1>4 DEF AfterActual
<1>5. CASE i = j
  <2> DEFINE new == Single(j, h, v)
             m == Merged(actual[i], new)
  <2>1. m = [k \in Steps(i) |-> IF new[k] # NoActual THEN new[k] ELSE actual[i][k]]
    BY <1>2 DEF Merged
  <2>2. AfterActual(r, j, h, v) = [job |-> i, at |-> snapshot[i], seen |-> m]
    BY <1>3, <1>5 DEF AfterActual
  <2>3. Seen(actual[i]) \subseteq Seen(m) /\ DOMAIN m = Steps(i)
    <3> HIDE DEF new
    <3> QED
      BY <1>2, <2>1 DEF Seen
  <2> HIDE DEF m
  <2> QED
    BY <1>2, <1>3, <2>2, <2>3 DEF Plan
<1> QED
  BY <1>4, <1>5

\* The newest records before and after are of the same jobs.
LEMMA NewestObserved ==
    ASSUME MonitorTypeOK, NEW j \in Issued, NEW h \in Steps(j), NEW v \in Actuals,
           NEW r \in Newest(IssuedRecords)
    PROVE  AfterActual(r, j, h, v) \in Newest({AfterActual(q, j, h, v) : q \in IssuedRecords})
<1> DEFINE later(q) == AfterActual(q, j, h, v)
<1>1. \A q \in IssuedRecords : /\ Plan(later(q)) = Plan(q)
                               /\ later(q).job = q.job /\ later(q).at = q.at
  BY ObservedIs
<1> HIDE DEF later
<1>2. \A q \in IssuedRecords : Before(q, r) => Before(later(q), later(r))
  BY <1>1 DEF Before, Newest
<1>3. later(r) \in Newest({later(q) : q \in IssuedRecords})
  BY <1>1, <1>2 DEF Newest
<1> QED
  BY <1>3 DEF later

\* In every reachable state, among forecasts of one length, recording one more
\* actual never takes back that there was enough to compare.
THEOREM EvidenceOnlyGrows == MonitorSpec => []EvidenceGrows
<1>1. MonitorTypeOK => EvidenceGrows
  <2> SUFFICES ASSUME MonitorTypeOK, SameLength, Ready(Vintages(AllRecords)),
                      NEW j \in Issued, NEW h \in Steps(j), NEW v \in Actuals
               PROVE  Ready(Vintages([i \in DOMAIN AllRecords |->
                                AfterActual(AllRecords[i], j, h, v)]))
    BY Zenon DEF EvidenceGrows, AfterActual
  <2> DEFINE later(r) == AfterActual(r, j, h, v)
             t == [i \in DOMAIN AllRecords |-> later(AllRecords[i])]
             R == IssuedRecords
             After == {later(r) : r \in R}
             V == Newest(R)
             W == Newest(After)
  <2>1. \A r \in R : /\ later(r).job = r.job /\ later(r).at = r.at /\ Plan(later(r)) = Plan(r)
                     /\ DOMAIN r.seen = Steps(r.job) /\ DOMAIN later(r).seen = Steps(r.job)
                     /\ Seen(r.seen) \subseteq Seen(later(r).seen)
    BY ObservedIs
  <2>2. \A r \in V : later(r) \in W
    BY NewestObserved
  <2>3. \A r \in R : \E i \in Issued : r = RecordOf(i) /\ r.job = i /\ i \in JobIds
    BY DEF IssuedRecords, RecordOf, Issued, MonitorTypeOK
  <2>4. Records(AllRecords) /\ Listed(AllRecords) = R
    BY AllRecordsAre
  <2> HIDE DEF later, R
  <2>5. Records(t) /\ Listed(t) = After
    <3>1. DOMAIN t = DOMAIN AllRecords /\ \A i \in DOMAIN t : t[i] = later(AllRecords[i])
      OBVIOUS
    <3>2. \A i \in DOMAIN t : AllRecords[i] \in R
      BY <2>4 DEF Listed
    <3>3. \A i \in DOMAIN t : /\ t[i].job = AllRecords[i].job /\ t[i].at = AllRecords[i].at
                              /\ Plan(t[i]) = Plan(AllRecords[i])
      BY <2>1, <3>1, <3>2
    <3>4. Records(t)
      <4> HIDE DEF t
      <4> QED
        BY <2>4, <3>1, <3>3 DEF Records, OfJobs
    <3>5. Listed(t) = After
      BY <2>4, <3>1, <3>2 DEF Listed
    <3> QED
      BY <3>4, <3>5
  <2>6. Vintages(AllRecords) = V /\ Vintages(t) = W
    <3> HIDE DEF t, After
    <3> QED
      BY <2>4, <2>5, VintagesAre
  <2>7. Scored(V) /\ Scored(W)
    <3>1. V \subseteq R /\ W \subseteq After
      BY DEF Newest
    <3>2. Scored(R) /\ Scored(After)
      BY <2>1, <2>3 DEF Scored
    <3> QED
      BY <3>1, <3>2 DEF Scored
  <2>8. JobsOf(Complete(V)) \subseteq JobsOf(Complete(W))
    <3>1. ASSUME NEW r \in Complete(V) PROVE later(r) \in Complete(W) /\ later(r).job = r.job
      <4>1. r \in V /\ r \in R /\ Pending(r.seen) = {}
        BY <3>1 DEF Complete, Newest
      <4>2. later(r) \in W
        BY <2>2, <4>1
      <4>3. Pending(later(r).seen) = {}
        BY <2>1, <4>1 DEF Pending
      <4> QED
        BY <2>1, <4>1, <4>2, <4>3 DEF Complete
    <3> QED
      BY <3>1 DEF JobsOf
  <2> HIDE DEF V, W, t
  <2>9. Comparable(V) = Complete(V) /\ Comparable(W) = Complete(W)
    BY <2>7, ComparableIs
  <2>10. Full(Complete(V)) /\ Full(Complete(W))
    BY <2>7, CompleteIsFull
  <2>11. /\ Window(Complete(V)) # {}
         /\ Window(Complete(V) \ Window(Complete(V))) # {}
    BY <2>6, <2>9 DEF Ready, Recent, Earlier
  <2>12. /\ Window(Complete(W)) # {}
         /\ Window(Complete(W) \ Window(Complete(W))) # {}
    BY <2>8, <2>10, <2>11, MoreIsReady
  <2>13. Ready(Vintages(t))
    BY <2>6, <2>9, <2>12 DEF Ready, Recent, Earlier
  <2> QED
    BY <2>13 DEF t, later
<1> QED
  BY <1>1, MonitorTypes, PTL
==============================================================================
