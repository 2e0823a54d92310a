---------------------------- MODULE SecretConfig ----------------------------
(***************************************************************************)
(* core/secret_store.py and core/llm_config_store.py: the encryption key   *)
(* the backend generates for itself, the LLM configuration row whose API   *)
(* key it encrypts, and the caches of both.  Threads write the row, one    *)
(* reader at a time holds _cache_lock, and the process may restart between *)
(* any two steps.  A key is named after the thread that generated it.      *)
(***************************************************************************)
EXTENDS Integers

CONSTANTS Threads,     \* threads that write the configuration
          Bodies,      \* provider, model, URL and temperature of a row
          MaxVersion,  \* bound on the row's version
          NoKey, NoRow, NoBody, Unlocked

Keys == Threads
Row  == [version : 1..MaxVersion, body : Bodies, cipher : Keys \cup {NoKey}]

ASSUME SecretAssumption ==
    /\ MaxVersion \in Nat
    /\ NoKey \notin Keys /\ "empty" \notin Keys /\ NoKey # "empty"
    /\ NoRow \notin Row /\ Unlocked \notin Row /\ NoRow # Unlocked
    /\ NoBody \notin Bodies

VARIABLES
    keyFile,  \* contents of .encryption_key: NoKey when there is none
    row,      \* the llm_config row; cipher is the key that encrypted its API key
    fernet,   \* secret_store._fernet
    cached,   \* llm_config_store._cache, with _cache_version
    reading,  \* the row read by the reader that holds _cache_lock
    pc,       \* where a thread is
    body,     \* the configuration a thread is writing
    sealed    \* the key that encrypted the API key it is writing

durable    == <<keyFile, row>>
caches     == <<fernet, cached, reading>>
threadVars == <<pc, body, sealed>>
secretVars == <<durable, caches, threadVars>>

SecretTypeOK ==
    /\ keyFile \in Keys \cup {NoKey, "empty"}
    /\ row \in Row \cup {NoRow}
    /\ fernet \in Keys \cup {NoKey}
    /\ cached \in Row \cup {NoRow} /\ reading \in Row \cup {Unlocked}
    /\ pc \in [Threads -> {"idle", "insert", "check", "create", "fill", "ready",
                           "store", "stored", "failed"}]
    /\ body \in [Threads -> Bodies \cup {NoBody}]
    /\ sealed \in [Threads -> Keys \cup {NoKey}]

Idle     == [t \in Threads |-> "idle"]
Nothing  == [t \in Threads |-> NoBody]
Unsealed == [t \in Threads |-> NoKey]

SecretInit ==
    /\ keyFile = NoKey /\ row = NoRow
    /\ fernet = NoKey /\ cached = NoRow /\ reading = Unlocked
    /\ pc = Idle /\ body = Nothing /\ sealed = Unsealed

Proceed(t, label) == pc' = [pc EXCEPT ![t] = label]
-----------------------------------------------------------------------------
(* generate_and_persist_key *)

CheckKey(t) ==
    /\ pc[t] = "check"
    /\ Proceed(t, IF keyFile = NoKey THEN "create" ELSE "ready")
    /\ UNCHANGED <<durable, caches, body, sealed>>

\* Mutant: the file is opened without O_EXCL.
CreateAnyway(t) ==
    /\ pc[t] = "create"
    /\ keyFile' = "empty" /\ Proceed(t, "fill")
    /\ UNCHANGED <<row, caches, body, sealed>>

\* O_EXCL: another thread's file makes os.open fail.
CreateKey(t) ==
    /\ pc[t] = "create"
    /\ IF keyFile = NoKey
       THEN keyFile' = "empty" /\ Proceed(t, "fill")
       ELSE keyFile' = keyFile /\ Proceed(t, "failed")
    /\ UNCHANGED <<row, caches, body, sealed>>

FillKey(t) ==
    /\ pc[t] = "fill"
    /\ keyFile' = t /\ Proceed(t, "ready")
    /\ UNCHANGED <<row, caches, body, sealed>>

\* get_fernet: the key of this process; an empty file is not a key.
Loaded == IF fernet # NoKey THEN fernet
          ELSE IF keyFile = "empty" THEN NoKey ELSE keyFile
-----------------------------------------------------------------------------
(* put_llm_config *)

PutConfig(t, new, withKey) ==
    /\ pc[t] = "idle"
    /\ body' = [body EXCEPT ![t] = new]
    /\ Proceed(t, IF withKey THEN "check" ELSE "store")
    /\ UNCHANGED <<durable, caches, sealed>>

Encrypt(t) ==
    /\ pc[t] = "ready" /\ body[t] # NoBody
    /\ fernet' = Loaded
    /\ sealed' = [sealed EXCEPT ![t] = Loaded]
    /\ Proceed(t, IF Loaded = NoKey THEN "failed" ELSE "store")
    /\ UNCHANGED <<durable, cached, reading, body>>

\* Mutant: an update keeps the version.
SameVersion(t) ==
    [version |-> 1, body |-> body[t],
     cipher  |-> IF sealed[t] # NoKey THEN sealed[t]
                 ELSE IF row = NoRow THEN NoKey ELSE row.cipher]

\* Without an API key the stored one is kept; an update bumps the version.
Written(t) ==
    [version |-> IF row = NoRow THEN 1 ELSE row.version + 1,
     body    |-> body[t],
     cipher  |-> IF sealed[t] # NoKey THEN sealed[t]
                 ELSE IF row = NoRow THEN NoKey ELSE row.cipher]

StoreConfig(t) ==
    /\ pc[t] = "store"
    /\ row' = Written(t)
    /\ row' \in Row                                   \* bound: MaxVersion
    /\ Proceed(t, "stored")
    /\ UNCHANGED <<keyFile, caches, body, sealed>>

\* The request is answered and its thread free again.
Finish(t) ==
    /\ pc[t] \in {"stored", "failed"}
    /\ Proceed(t, "idle")
    /\ body' = [body EXCEPT ![t] = NoBody]
    /\ sealed' = [sealed EXCEPT ![t] = NoKey]
    /\ UNCHANGED <<durable, caches>>
-----------------------------------------------------------------------------
(* get_llm_config; without a row the environment answers. *)

ReadRow ==
    /\ reading = Unlocked /\ row # NoRow
    /\ reading' = row
    /\ UNCHANGED <<durable, fernet, cached, threadVars>>

IsCurrent == cached # NoRow /\ cached.version = reading.version

ReturnConfig ==
    /\ reading # Unlocked
    /\ reading' = Unlocked
    /\ IF IsCurrent \/ reading.cipher = NoKey
       THEN fernet' = fernet ELSE fernet' = Loaded
    /\ IF IsCurrent \/ (reading.cipher # NoKey /\ Loaded # reading.cipher)
       THEN cached' = cached ELSE cached' = reading
    /\ UNCHANGED <<durable, threadVars>>

ProcessRestarts ==
    /\ fernet' = NoKey /\ cached' = NoRow /\ reading' = Unlocked
    /\ pc' = Idle /\ body' = Nothing /\ sealed' = Unsealed
    /\ UNCHANGED durable

KeyStep(t) == CheckKey(t) \/ CreateKey(t) \/ FillKey(t)
PutStep(t) == Encrypt(t) \/ StoreConfig(t) \/ Finish(t)

SecretNext ==
    \/ \E t \in Threads :
         \/ \E new \in Bodies, withKey \in BOOLEAN : PutConfig(t, new, withKey)
         \/ KeyStep(t) \/ PutStep(t)
    \/ ReadRow \/ ReturnConfig
    \/ ProcessRestarts

SecretSpec == SecretInit /\ [][SecretNext]_secretVars
-----------------------------------------------------------------------------
\* The stored API key can always be decrypted: whatever generators, writers
\* and restarts do, it was encrypted with the key that is on disk.
CipherReadable ==
    /\ row # NoRow /\ row.cipher # NoKey => row.cipher = keyFile
    /\ reading # Unlocked /\ reading.cipher # NoKey => reading.cipher = keyFile

\* A reader that trusts the version is right: no two configurations ever share
\* one, also when the row changes while a reader works on an older one.
CacheCoherent ==
    /\ cached # NoRow /\ row # NoRow /\ cached.version = row.version => cached = row
    /\ cached # NoRow /\ reading # Unlocked /\ IsCurrent => cached = reading

=============================================================================
