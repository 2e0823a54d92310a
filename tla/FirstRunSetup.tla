---------------------------- MODULE FirstRunSetup ----------------------------
(***************************************************************************)
(* The first-run setup: the wizard of the frontend (blueprints/setup), one *)
(* browser session per operator, and the backend's POST /setup/bootstrap   *)
(* (services/setup_service.py), which creates the first API user, marks    *)
(* setup complete, generates the encryption key of SecretConfig and turns  *)
(* authentication on.  Each session's backend request runs in a thread of  *)
(* the backend with the session's name; the wizard may stop waiting for it *)
(* and the backend may restart at any moment.                              *)
(***************************************************************************)
EXTENDS SecretConfig, FiniteSets

CONSTANTS Legacy,   \* API users of a deployment older than the wizard
          NoCreds

Sessions == Threads
Accounts == Sessions \cup Legacy

ASSUME SetupAssumption ==
    /\ IsFiniteSet(Accounts) /\ Sessions \cap Legacy = {}
    /\ NoCreds \notin Accounts

VARIABLES
    users,      \* api_users, each an enabled administrator
    complete,   \* system_settings.setup_complete
    authOn,     \* config.API_KEY_ENABLED of the running process
    creds,      \* credentials of the frontend's api_credentials row
    passed,     \* the wizard steps a session has passed (its setup_*_ok flags)
    page,       \* the step whose handler is past its _setup_complete() check
    waiting,    \* the session waits for the answer of its backend request
    reply       \* the last answer of the session's bootstrap request

backendVars == <<users, complete, authOn>>
wizardVars  == <<creds, passed, page, waiting, reply>>
setupVars   == <<secretVars, backendVars, wizardVars>>

Steps == <<"backend", "llm", "auth", "models", "admin">>
Pages == {Steps[i] : i \in DOMAIN Steps}

SetupTypeOK ==
    /\ SecretTypeOK
    /\ users \subseteq Accounts /\ complete \in BOOLEAN /\ authOn \in BOOLEAN
    /\ creds \in Accounts \cup {NoCreds}
    /\ passed \in [Sessions -> 0..4]
    /\ page \in [Sessions -> Pages \cup {"none"}] /\ waiting \in [Sessions -> BOOLEAN]
    /\ reply \in [Sessions -> {"none", "ok", "conflict", "error"}]

\* migrate_legacy_deployment and _configure_startup_auth have run.
SetupInit ==
    /\ SecretInit
    /\ users \in {{}, Legacy}
    /\ complete = (users # {}) /\ authOn = (users # {})
    /\ creds = NoCreds
    /\ passed = [s \in Sessions |-> 0]
    /\ page = [s \in Sessions |-> "none"] /\ waiting = [s \in Sessions |-> FALSE]
    /\ reply = [s \in Sessions |-> "none"]

\* _authenticate_api_key, for the credentials the frontend sends.
Authorized == ~ authOn \/ creds \in users
-----------------------------------------------------------------------------
(* The wizard.  Every handler asks GET /setup/status first, and redirects to  *)
(* the login when setup is complete.                                          *)

OpenPage(s, i) ==
    /\ page[s] = "none" /\ ~ complete
    /\ i <= passed[s] + 1
    /\ page' = [page EXCEPT ![s] = Steps[i]]
    /\ UNCHANGED <<secretVars, backendVars, creds, passed, waiting, reply>>

At(s, here) == page[s] = here /\ ~ waiting[s]

Leave(s) == page' = [page EXCEPT ![s] = "none"]

\* The handler of step i redirects to the next one, or shows an error.
Answer(s, i, ok) ==
    /\ Leave(s)
    /\ passed' = [passed EXCEPT ![s] = IF ok /\ @ < i THEN i ELSE @]

Quiet == UNCHANGED <<secretVars, backendVars, creds, waiting, reply>>

\* Mutant: the credentials are replaced with the connection.
SavedAfresh == NoCreds

\* save_api_credentials without a key keeps the stored one.
SavedUrl == creds

VerifyBackend(s) ==
    /\ At(s, "backend")
    /\ creds' = SavedUrl
    /\ Answer(s, 1, TRUE)
    /\ UNCHANGED <<secretVars, backendVars, waiting, reply>>

\* "Use Traditional Forecasting without an LLM": PUT /config/llm/enabled.
SkipLlm(s) ==
    /\ At(s, "llm")
    /\ Answer(s, 2, Authorized)
    /\ Quiet

\* PUT /config/llm, after POST /config/llm/test has succeeded.
SubmitLlm(s, new, withKey) ==
    /\ At(s, "llm") /\ Authorized
    /\ PutConfig(s, new, withKey)
    /\ waiting' = [waiting EXCEPT ![s] = TRUE]
    /\ UNCHANGED <<backendVars, creds, passed, page, reply>>

LlmRefused(s) ==
    /\ At(s, "llm")
    /\ Answer(s, 2, FALSE)
    /\ Quiet

LlmAnswered(s) ==
    /\ Finish(s) /\ body[s] # NoBody
    /\ waiting' = [waiting EXCEPT ![s] = FALSE]
    /\ IF waiting[s]
       THEN Answer(s, 2, pc[s] = "stored")
       ELSE UNCHANGED <<passed, page>>
    /\ UNCHANGED <<backendVars, creds, reply>>

EnableAuth(s) == At(s, "auth") /\ Answer(s, 3, TRUE) /\ Quiet

\* PUT /models/{name} for every changed model.
ApplyModels(s) ==
    /\ At(s, "models")
    /\ Answer(s, 4, Authorized)
    /\ Quiet

PostBootstrap(s) ==
    /\ At(s, "admin") /\ pc[s] = "idle"
    /\ Proceed(s, "insert")
    /\ waiting' = [waiting EXCEPT ![s] = TRUE]
    /\ reply' = [reply EXCEPT ![s] = "none"]
    /\ UNCHANGED <<durable, caches, body, sealed, backendVars, creds, passed, page>>

\* The request timed out, its connection broke or the frontend was restarted.
GiveUp(s) ==
    /\ waiting[s]
    /\ waiting' = [waiting EXCEPT ![s] = FALSE]
    /\ Leave(s)
    /\ UNCHANGED <<secretVars, backendVars, creds, passed, reply>>
-----------------------------------------------------------------------------
(* run_bootstrap and setup_bootstrap *)

\* Mutant: the insert is unconditional.
InsertAnyway(s) ==
    /\ pc[s] = "insert"
    /\ users' = users \cup {s} /\ complete' = TRUE /\ Proceed(s, "check")
    /\ UNCHANGED <<durable, caches, body, sealed, authOn, wizardVars>>

\* One BEGIN IMMEDIATE transaction.
InsertFirstUser(s) ==
    /\ pc[s] = "insert" /\ users = {}
    /\ users' = {s} /\ complete' = TRUE
    /\ Proceed(s, "check")
    /\ UNCHANGED <<durable, caches, body, sealed, authOn, wizardVars>>

Reply(s, answer) ==
    /\ Proceed(s, "idle")
    /\ reply' = [reply EXCEPT ![s] = answer]

RefuseSecondUser(s) ==
    /\ pc[s] = "insert" /\ users # {}
    /\ Reply(s, "conflict")
    /\ UNCHANGED <<durable, caches, body, sealed, backendVars, creds, passed, page, waiting>>

Succeed(s) ==
    /\ pc[s] = "ready" /\ body[s] = NoBody
    /\ authOn' = TRUE
    /\ Reply(s, "ok")
    /\ UNCHANGED <<durable, caches, body, sealed, users, complete, creds, passed, page, waiting>>

\* The key could not be written: the exception passes setup_bootstrap by.
Fail(s) ==
    /\ pc[s] = "failed" /\ body[s] = NoBody
    /\ Reply(s, "error")
    /\ UNCHANGED <<durable, caches, body, sealed, backendVars, creds, passed, page, waiting>>

Answered(s) == page[s] = "admin" /\ waiting[s] /\ reply[s] # "none" /\ pc[s] = "idle"

StoredCreds(s) == IF reply[s] = "ok" THEN s ELSE creds

\* The admin handler goes on with the backend's answer.
BootstrapAnswered(s) ==
    /\ Answered(s)
    /\ creds' = StoredCreds(s)
    /\ Leave(s)
    /\ waiting' = [waiting EXCEPT ![s] = FALSE]
    /\ UNCHANGED <<secretVars, backendVars, passed, reply>>

KeyGenerated(s) == KeyStep(s) /\ UNCHANGED <<backendVars, wizardVars>>
PutProceeds(s)  == (Encrypt(s) \/ StoreConfig(s)) /\ UNCHANGED <<backendVars, wizardVars>>

\* Any handler or job of the backend that asks for the LLM configuration.
ConfigIsRead == (ReadRow \/ ReturnConfig) /\ UNCHANGED <<backendVars, wizardVars>>

AuthAtStart == users # {}

\* lifespan: migrate_legacy_deployment, then _configure_startup_auth.  The
\* requests of the old process break.
BackendRestarts ==
    /\ ProcessRestarts
    /\ complete' = (complete \/ users # {})
    /\ authOn' = AuthAtStart
    /\ page' = [s \in Sessions |-> IF waiting[s] THEN "none" ELSE page[s]]
    /\ waiting' = [s \in Sessions |-> FALSE]
    /\ UNCHANGED <<users, creds, passed, reply>>

Wizard(s) ==
    \/ \E i \in DOMAIN Steps : OpenPage(s, i)
    \/ VerifyBackend(s) \/ SkipLlm(s) \/ LlmRefused(s) \/ LlmAnswered(s)
    \/ \E new \in Bodies, withKey \in BOOLEAN : SubmitLlm(s, new, withKey)
    \/ EnableAuth(s) \/ ApplyModels(s) \/ PostBootstrap(s) \/ BootstrapAnswered(s)
    \/ GiveUp(s)

Backend(s) ==
    \/ InsertFirstUser(s) \/ RefuseSecondUser(s) \/ Succeed(s) \/ Fail(s)
    \/ KeyGenerated(s) \/ PutProceeds(s)

SetupNext == \/ \E s \in Sessions : Wizard(s) \/ Backend(s)
             \/ ConfigIsRead \/ BackendRestarts

SetupSpec == SetupInit /\ [][SetupNext]_setupVars
-----------------------------------------------------------------------------
\* run_bootstrap: simultaneous first-run requests cannot both succeed, nor one
\* beside the users of an older deployment, also across lost answers, second
\* attempts and restarts.
OneFirstUser == \/ users \subseteq Legacy
                \/ \E s \in Sessions : users = {s}

\* Setup is complete exactly when there is an API user: a restart never finds
\* one without the other.
CompleteWithUser == complete <=> users # {}

\* The credentials the frontend talks to the backend with are always those of
\* an API user, whichever sessions raced to create it.
CredentialsWork == creds # NoCreds => creds \in users

\* Once a session was told that setup succeeded, the backend requires
\* authentication, restarts included.
SuccessMeansAuth == (\E s \in Sessions : reply[s] = "ok") => authOn

\* A session that is still in the wizard after another finished it cannot lose
\* the credentials that one stored.
CredentialsKept == [][creds # NoCreds => creds' = creds]_setupVars

=============================================================================
