---------------------------- MODULE SetupProofs ----------------------------
(***************************************************************************)
(* Proofs about SecretConfig and FirstRunSetup, for any number of threads, *)
(* sessions, older API users and restarts.                                 *)
(***************************************************************************)
EXTENDS FirstRunSetup, TLAPS

\* One thread at most is writing the key, into an empty file; whatever was
\* loaded or used for encryption is the key in the file.
KeyInv ==
    /\ \A t, u \in Threads : pc[t] = "fill" /\ pc[u] = "fill" => t = u
    /\ \A t \in Threads : pc[t] = "fill" => keyFile = "empty"
    /\ fernet # NoKey => fernet = keyFile
    /\ \A t \in Threads : sealed[t] # NoKey => sealed[t] = keyFile

\* What is cached or being read is the row, or an older version of it.
Older(r) == row # NoRow /\ r.version <= row.version /\ (r.version = row.version => r = row)

CacheInv ==
    /\ cached # NoRow => Older(cached)
    /\ reading # Unlocked => Older(reading)
    /\ cached # NoRow /\ reading # Unlocked /\ cached.version = reading.version
         => cached = reading

SecretInv == SecretTypeOK /\ KeyInv /\ CipherReadable /\ CacheInv

LEMMA SecretInitial == SecretInit => SecretInv
  BY SecretAssumption
  DEF SecretInit, SecretInv, SecretTypeOK, KeyInv, CipherReadable, CacheInv,
      Idle, Nothing, Unsealed, Keys

LEMMA LoadedIsKey ==
  ASSUME SecretTypeOK, KeyInv
  PROVE  /\ Loaded \in Keys \cup {NoKey}
         /\ Loaded # NoKey => Loaded = keyFile
  BY SecretAssumption DEF SecretTypeOK, KeyInv, Loaded, Keys

LEMMA WrittenIsNewer ==
  ASSUME SecretInv, NEW t \in Threads
  PROVE  /\ row # NoRow => Written(t).version = row.version + 1
         /\ Written(t).cipher # NoKey => Written(t).cipher = keyFile
         /\ row \in Row \cup {NoRow}
  BY DEF SecretInv, SecretTypeOK, KeyInv, CipherReadable, Written

LEMMA KeyStepKeeps ==
  ASSUME SecretInv, NEW t \in Threads, KeyStep(t)
  PROVE  SecretInv'
<1> USE SecretAssumption DEF SecretInv
<1>1. CASE CheckKey(t)
  BY <1>1 DEF CheckKey, Proceed, durable, caches, SecretTypeOK, KeyInv, CipherReadable,
              CacheInv, Older
<1>2. CASE CreateKey(t)
  BY <1>2 DEF CreateKey, Proceed, caches, SecretTypeOK, KeyInv, CipherReadable,
              CacheInv, Older, Keys
<1>3. CASE FillKey(t)
  <2>1. keyFile = "empty"
    BY <1>3 DEF FillKey, KeyInv
  <2>2. /\ fernet = NoKey /\ \A u \in Threads : sealed[u] = NoKey
        /\ row # NoRow => row.cipher = NoKey
        /\ reading # Unlocked => reading.cipher = NoKey
    BY <2>1 DEF KeyInv, CipherReadable, SecretTypeOK, Row, Keys
  <2>3. SecretTypeOK'
    BY <1>3 DEF FillKey, Proceed, caches, SecretTypeOK, Keys
  <2>4. KeyInv'
    BY <1>3, <2>2 DEF FillKey, Proceed, caches, SecretTypeOK, KeyInv
  <2> QED BY <1>3, <2>2, <2>3, <2>4
       DEF FillKey, caches, CipherReadable, CacheInv, Older
<1> QED BY <1>1, <1>2, <1>3 DEF KeyStep

LEMMA PutStepKeeps ==
  ASSUME SecretInv, NEW t \in Threads, PutStep(t)
  PROVE  SecretInv'
<1> USE SecretAssumption DEF SecretInv
<1>1. CASE Encrypt(t)
  <2>1. /\ Loaded \in Keys \cup {NoKey}
        /\ Loaded # NoKey => Loaded = keyFile
    BY LoadedIsKey
  <2> QED BY <1>1, <2>1
       DEF Encrypt, Proceed, durable, SecretTypeOK, KeyInv, CipherReadable, CacheInv, Older
<1>2. CASE StoreConfig(t)
  <2>1. /\ row # NoRow => row'.version = row.version + 1
        /\ row'.cipher # NoKey => row'.cipher = keyFile
        /\ row' \in Row
    BY <1>2, WrittenIsNewer DEF StoreConfig
  <2>2. SecretTypeOK'
    BY <1>2, <2>1 DEF StoreConfig, Proceed, caches, SecretTypeOK
  <2>3. KeyInv' /\ CipherReadable'
    BY <1>2, <2>1 DEF StoreConfig, Proceed, caches, SecretTypeOK, KeyInv, CipherReadable
  <2>4. CacheInv'
    <3> DEFINE Behind(r) == row # NoRow /\ r.version <= row.version
    <3>1. ASSUME NEW r \in Row, Older(r) PROVE Older(r)'
      <4>1. r.version \in Int /\ row.version \in Int
        BY <3>1 DEF SecretTypeOK, Row, Older
      <4> QED BY <2>1, <3>1, <4>1 DEF Older
    <3> QED BY <1>2, <3>1 DEF StoreConfig, caches, CacheInv, SecretTypeOK
  <2> QED BY <2>2, <2>3, <2>4
<1>3. CASE Finish(t)
  BY <1>3 DEF Finish, Proceed, durable, caches, SecretTypeOK, KeyInv, CipherReadable,
              CacheInv, Older
<1> QED BY <1>1, <1>2, <1>3 DEF PutStep

LEMMA SecretStep == SecretInv /\ [SecretNext]_secretVars => SecretInv'
<1> SUFFICES ASSUME SecretInv, [SecretNext]_secretVars PROVE SecretInv'
  OBVIOUS
<1> USE SecretAssumption DEF SecretInv
<1>1. ASSUME NEW t \in Threads, NEW new \in Bodies, NEW withKey \in BOOLEAN,
             PutConfig(t, new, withKey)
      PROVE  SecretInv'
  BY <1>1 DEF PutConfig, Proceed, durable, caches, SecretTypeOK, KeyInv, CipherReadable,
              CacheInv, Older
<1>2. CASE ReadRow
  <2>1. Older(row)
    BY <1>2 DEF ReadRow, Older, SecretTypeOK, Row
  <2> QED BY <1>2, <2>1 DEF ReadRow, durable, threadVars, SecretTypeOK, KeyInv,
                             CipherReadable, CacheInv, Older
<1>3. CASE ReturnConfig
  <2>1. /\ Loaded \in Keys \cup {NoKey}
        /\ Loaded # NoKey => Loaded = keyFile
    BY LoadedIsKey
  <2> QED BY <1>3, <2>1 DEF ReturnConfig, IsCurrent, durable, threadVars, SecretTypeOK,
                             KeyInv, CipherReadable, CacheInv, Older
<1>4. CASE ProcessRestarts
  BY <1>4 DEF ProcessRestarts, durable, Idle, Nothing, Unsealed, SecretTypeOK, KeyInv,
              CipherReadable, CacheInv, Older
<1>5. CASE UNCHANGED secretVars
  BY <1>5 DEF secretVars, durable, caches, threadVars, SecretTypeOK, KeyInv,
              CipherReadable, CacheInv, Older
<1> QED BY <1>1, <1>2, <1>3, <1>4, <1>5, KeyStepKeeps, PutStepKeeps DEF SecretNext

LEMMA SecretInvariant == SecretSpec => []SecretInv
<1> QED BY SecretInitial, SecretStep, PTL DEF SecretSpec

\* The stored API key was encrypted with the key on disk, whatever generators,
\* writers and readers run at once and whenever the process restarts.
THEOREM CipherStaysReadable == SecretSpec => []CipherReadable
<1> QED BY SecretInvariant, PTL DEF SecretInv

\* A configuration cached under the row's version is the row.
THEOREM CacheIsCoherent == SecretSpec => []CacheCoherent
<1>1. SecretInv => CacheCoherent
  BY DEF SecretInv, CacheInv, CacheCoherent, IsCurrent, Older
<1> QED BY <1>1, SecretInvariant, PTL
-----------------------------------------------------------------------------
\* A thread past the insert of its bootstrap belongs to a user; so does a
\* session that was told of success.
Inserted(s) ==
    pc[s] \in {"check", "create", "fill", "ready", "failed"} /\ body[s] = NoBody

SetupInv ==
    /\ SetupTypeOK /\ OneFirstUser /\ CompleteWithUser /\ CredentialsWork
    /\ \A s \in Sessions : Inserted(s) \/ reply[s] = "ok" => s \in users
    /\ SuccessMeansAuth

LEMMA SetupInitial == SetupInit => SetupInv
<1> SUFFICES ASSUME SetupInit PROVE SetupInv
  OBVIOUS
<1>1. SecretTypeOK
  BY SecretInitial DEF SetupInit, SecretInv
<1>2. SetupTypeOK
  BY <1>1 DEF SetupInit, SetupTypeOK, Accounts
<1> QED BY <1>2 DEF SetupInit, SetupInv, OneFirstUser, CompleteWithUser, CredentialsWork,
                    SuccessMeansAuth, SecretInit, Idle, Inserted, Sessions

LEMMA BackendKeeps ==
  ASSUME SetupInv, NEW s \in Sessions, Backend(s)
  PROVE  SetupInv'
<1> USE SetupAssumption DEF SetupInv, Sessions, Accounts
<1> USE DEF SetupTypeOK, SecretTypeOK, Inserted, OneFirstUser, CompleteWithUser,
            CredentialsWork, SuccessMeansAuth
<1>1. CASE InsertFirstUser(s)
  BY <1>1 DEF InsertFirstUser, Proceed, durable, caches, wizardVars
<1>2. CASE RefuseSecondUser(s)
  BY <1>2 DEF RefuseSecondUser, Reply, Proceed, durable, caches, backendVars
<1>3. CASE Succeed(s)
  BY <1>3 DEF Succeed, Reply, Proceed, durable, caches
<1>4. CASE Fail(s)
  BY <1>4 DEF Fail, Reply, Proceed, durable, caches, backendVars
<1>5. CASE KeyGenerated(s)
  BY <1>5 DEF KeyGenerated, KeyStep, CheckKey, CreateKey, FillKey, Proceed, Keys,
              durable, caches, backendVars, wizardVars
<1>6. CASE PutProceeds(s)
  <2>1. CASE Encrypt(s)
    <3>1. Loaded \in Keys \cup {NoKey}
      BY SecretAssumption DEF Loaded
    <3> QED BY <1>6, <2>1, <3>1 DEF PutProceeds, Encrypt, Proceed, durable, backendVars, wizardVars
  <2>2. CASE StoreConfig(s)
    BY <1>6, <2>2 DEF PutProceeds, StoreConfig, Proceed, caches, backendVars, wizardVars
  <2> QED BY <1>6, <2>1, <2>2 DEF PutProceeds
<1> QED BY <1>1, <1>2, <1>3, <1>4, <1>5, <1>6 DEF Backend

LEMMA WizardKeeps ==
  ASSUME SetupInv, NEW s \in Sessions, Wizard(s)
  PROVE  SetupInv'
<1> USE SetupAssumption DEF SetupInv, Sessions, Accounts
<1> USE DEF SetupTypeOK, SecretTypeOK, Inserted, OneFirstUser, CompleteWithUser,
            CredentialsWork, SuccessMeansAuth
<1>1. ASSUME NEW i \in DOMAIN Steps, OpenPage(s, i) PROVE SetupInv'
  BY <1>1 DEF OpenPage, Pages, secretVars, durable, caches, threadVars, backendVars
<1>2. CASE VerifyBackend(s)
  BY <1>2 DEF VerifyBackend, SavedUrl, Answer, Leave, secretVars, durable, caches,
              threadVars, backendVars
<1>3. CASE SkipLlm(s) \/ LlmRefused(s) \/ EnableAuth(s) \/ ApplyModels(s)
  BY <1>3 DEF SkipLlm, LlmRefused, EnableAuth, ApplyModels, Quiet, Answer, Leave,
              secretVars, durable, caches, threadVars, backendVars
<1>4. CASE LlmAnswered(s)
  BY <1>4 DEF LlmAnswered, Finish, Proceed, Answer, Leave, durable, caches, backendVars
<1>5. ASSUME NEW new \in Bodies, NEW withKey \in BOOLEAN, SubmitLlm(s, new, withKey)
      PROVE  SetupInv'
  BY <1>5, SecretAssumption DEF SubmitLlm, PutConfig, Proceed, durable, caches, backendVars
<1>6. CASE PostBootstrap(s)
  BY <1>6 DEF PostBootstrap, Proceed, durable, caches, backendVars
<1>7. CASE BootstrapAnswered(s)
  BY <1>7 DEF BootstrapAnswered, StoredCreds, Leave, secretVars, durable, caches,
              threadVars, backendVars
<1>8. CASE GiveUp(s)
  BY <1>8 DEF GiveUp, Leave, secretVars, durable, caches, threadVars, backendVars
<1> QED BY <1>1, <1>2, <1>3, <1>4, <1>5, <1>6, <1>7, <1>8 DEF Wizard

LEMMA SetupStep == SetupInv /\ [SetupNext]_setupVars => SetupInv'
<1> SUFFICES ASSUME SetupInv, [SetupNext]_setupVars PROVE SetupInv'
  OBVIOUS
<1> USE SetupAssumption DEF SetupInv, Sessions, Accounts
<1> USE DEF SetupTypeOK, SecretTypeOK, Inserted, OneFirstUser, CompleteWithUser,
            CredentialsWork, SuccessMeansAuth
<1>1. CASE BackendRestarts
  BY <1>1 DEF BackendRestarts, AuthAtStart, ProcessRestarts, Idle, Nothing, Unsealed, durable
<1>3. CASE ConfigIsRead
  <2>1. Loaded \in Keys \cup {NoKey}
    BY SecretAssumption DEF Loaded
  <2> QED BY <1>3, <2>1, SecretAssumption
       DEF ConfigIsRead, ReadRow, ReturnConfig, IsCurrent, durable, threadVars, backendVars,
           wizardVars
<1>2. CASE UNCHANGED setupVars
  BY <1>2 DEF setupVars, secretVars, durable, caches, threadVars, backendVars, wizardVars
<1> QED BY <1>1, <1>2, <1>3, BackendKeeps, WizardKeeps DEF SetupNext

LEMMA SetupInvariant == SetupSpec => []SetupInv
<1> QED BY SetupInitial, SetupStep, PTL DEF SetupSpec

\* First-run setup creates one API user at most, and none beside older ones.
THEOREM OneUserWins == SetupSpec => []OneFirstUser
<1> QED BY SetupInvariant, PTL DEF SetupInv

\* The setup_complete flag and the API user come and stay together.
THEOREM CompleteWithItsUser == SetupSpec => []CompleteWithUser
<1> QED BY SetupInvariant, PTL DEF SetupInv

\* The frontend never keeps credentials of a session that lost the race.
THEOREM StoredCredentialsWork == SetupSpec => []CredentialsWork
<1> QED BY SetupInvariant, PTL DEF SetupInv

\* A session that was told of success can rely on authentication being on.
THEOREM SuccessTurnsAuthOn == SetupSpec => []SuccessMeansAuth
<1> QED BY SetupInvariant, PTL DEF SetupInv

\* No session, however late, replaces or clears the stored credentials.
THEOREM CredentialsStay == SetupSpec => CredentialsKept
<1>1. SetupInv /\ [SetupNext]_setupVars => [creds # NoCreds => creds' = creds]_setupVars
  <2> SUFFICES ASSUME SetupInv, SetupNext, creds # NoCreds PROVE creds' = creds
    BY DEF setupVars
  <2>1. CASE BackendRestarts
    BY <2>1 DEF BackendRestarts
  <2>2. ASSUME NEW s \in Sessions, Backend(s) PROVE creds' = creds
    BY <2>2 DEF Backend, InsertFirstUser, RefuseSecondUser, Succeed, Fail, KeyGenerated,
                PutProceeds, wizardVars
  <2>3. ASSUME NEW s \in Sessions, BootstrapAnswered(s) PROVE creds' = creds
    <3>1. reply[s] = "ok" => s \in users /\ creds \in users
      BY DEF SetupInv, CredentialsWork
    <3>2. reply[s] = "ok" => s = creds
      BY <3>1, SetupAssumption DEF SetupInv, OneFirstUser
    <3> QED BY <2>3, <3>2 DEF BootstrapAnswered, StoredCreds
  <2>4. ASSUME NEW s \in Sessions, Wizard(s), ~ BootstrapAnswered(s) PROVE creds' = creds
    BY <2>4 DEF Wizard, OpenPage, VerifyBackend, SavedUrl, SkipLlm, LlmRefused,
                LlmAnswered, SubmitLlm, EnableAuth, ApplyModels, PostBootstrap, GiveUp, Quiet
  <2>5. CASE ConfigIsRead
    BY <2>5 DEF ConfigIsRead, wizardVars
  <2> QED BY <2>1, <2>2, <2>3, <2>4, <2>5 DEF SetupNext
<1> QED BY <1>1, SetupInvariant, PTL DEF SetupSpec, CredentialsKept
-----------------------------------------------------------------------------
(* The secrets in the composition: every step of the setup keeps what the      *)
(* secret store relies on.                                                    *)

\* A step of the wizard or of the bootstrap that is none of SecretConfig moves
\* a thread between states in which it holds nothing of the key file.
LEMMA ElsewhereKeeps ==
  ASSUME SecretInv, SecretTypeOK', UNCHANGED <<durable, caches, body, sealed>>,
         NEW s \in Threads,
         \A t \in Threads : pc'[t] = pc[t] \/ pc'[t] # "fill"
  PROVE  SecretInv'
  BY DEF SecretInv, durable, caches, KeyInv, CipherReadable, CacheInv, Older

LEMMA SetupKeepsSecrets ==
  SecretInv /\ SetupInv /\ SetupInv' /\ [SetupNext]_setupVars => SecretInv'
<1> SUFFICES ASSUME SecretInv, SetupInv, SetupInv', [SetupNext]_setupVars PROVE SecretInv'
  OBVIOUS
<1> USE SecretAssumption DEF Sessions
<1>0. SecretTypeOK /\ SecretTypeOK'
  BY DEF SetupInv, SetupTypeOK
<1>1. ASSUME UNCHANGED secretVars PROVE SecretInv'
  BY <1>1, SecretStep
<1>2. ASSUME NEW s \in Sessions, Backend(s) PROVE SecretInv'
  <2>1. CASE KeyGenerated(s)
    BY <2>1, KeyStepKeeps DEF KeyGenerated
  <2>2. CASE PutProceeds(s)
    BY <2>2, PutStepKeeps DEF PutProceeds, PutStep
  <2>3. CASE InsertFirstUser(s)
    BY <1>0, <2>3, ElsewhereKeeps DEF InsertFirstUser, Proceed, SecretTypeOK, durable
  <2>4. CASE RefuseSecondUser(s) \/ Succeed(s) \/ Fail(s)
    BY <1>0, <2>4, ElsewhereKeeps
    DEF RefuseSecondUser, Succeed, Fail, Reply, Proceed, SecretTypeOK, durable
  <2> QED BY <1>2, <2>1, <2>2, <2>3, <2>4 DEF Backend
<1>3. ASSUME NEW s \in Sessions, Wizard(s) PROVE SecretInv'
  <2>1. ASSUME NEW i \in DOMAIN Steps, OpenPage(s, i) PROVE SecretInv'
    BY <1>1, <2>1 DEF OpenPage
  <2>2. CASE \/ VerifyBackend(s) \/ SkipLlm(s) \/ LlmRefused(s) \/ EnableAuth(s)
             \/ ApplyModels(s) \/ BootstrapAnswered(s) \/ GiveUp(s)
    BY <1>1, <2>2 DEF VerifyBackend, SkipLlm, LlmRefused, EnableAuth, ApplyModels,
                      BootstrapAnswered, GiveUp, Quiet
  <2>3. CASE LlmAnswered(s)
    BY <2>3, PutStepKeeps DEF LlmAnswered, PutStep
  <2>4. ASSUME NEW new \in Bodies, NEW withKey \in BOOLEAN, SubmitLlm(s, new, withKey)
        PROVE  SecretInv'
    BY <2>4, SecretStep DEF SubmitLlm, SecretNext
  <2>5. CASE PostBootstrap(s)
    BY <1>0, <2>5, ElsewhereKeeps DEF PostBootstrap, Proceed, SecretTypeOK
  <2> QED BY <1>3, <2>1, <2>2, <2>3, <2>4, <2>5 DEF Wizard
<1>4. CASE ConfigIsRead
  BY <1>4, SecretStep DEF ConfigIsRead, SecretNext
<1>5. CASE BackendRestarts
  BY <1>5, SecretStep DEF BackendRestarts, SecretNext
<1>6. CASE UNCHANGED setupVars
  BY <1>1, <1>6 DEF setupVars
<1> QED BY <1>2, <1>3, <1>4, <1>5, <1>6 DEF SetupNext

LEMMA SetupSecrets == SetupSpec => []SecretInv
<1>1. SetupInit => SecretInv
  BY SecretInitial DEF SetupInit
<1> QED BY <1>1, SetupInvariant, SetupKeepsSecrets, PTL DEF SetupSpec

\* Beside the wizard, its bootstraps, lost answers and restarts as well, the
\* stored API key was encrypted with the key on disk.
THEOREM CipherReadableInSetup == SetupSpec => []CipherReadable
<1> QED BY SetupSecrets, PTL DEF SecretInv

\* Beside the wizard, a configuration cached under the row's version is the row.
THEOREM CacheCoherentInSetup == SetupSpec => []CacheCoherent
<1>1. SecretInv => CacheCoherent
  BY DEF SecretInv, CacheInv, CacheCoherent, IsCurrent, Older
<1> QED BY <1>1, SetupSecrets, PTL
=============================================================================
