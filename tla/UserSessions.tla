---------------------------- MODULE UserSessions ----------------------------
(***************************************************************************)
(* Who is signed in to the frontend: app.py load_user, blueprints/auth,    *)
(* the user pages of blueprints/admin and scripts/user_managment.py.       *)
(*                                                                         *)
(* A session holds the session_version of the account it was opened under; *)
(* whoever changes the password, the active flag or forces a reset counts  *)
(* it up.  One account and the browsers it is used from are modelled, and  *)
(* administrators who may do anything to it at any time.                   *)
(***************************************************************************)
EXTENDS Naturals

CONSTANTS Browsers, Passwords, MaxVersion, NoCall

ASSUME SessionsAssumption == MaxVersion \in Nat \ {0} /\ Passwords # {}

VARIABLES
    account,    \* the row of users
    cookie,     \* user_session_version of each browser's session, 0: signed out
    signing,    \* the login or change of password each browser waits for
    proved,     \* history: the password each session was opened with
    revoked     \* history: of each browser's session and of the call it waits for,
                \* what was revoked after its version was read, or is not there

sessionVars == <<account, cookie, signing, proved, revoked>>

Both == {"session", "call"}

Account == [password : Passwords, active : BOOLEAN, change : BOOLEAN,
            version : 1 .. MaxVersion]
Call    == [at : {"signed", "update", "select", "store"}, password : Passwords,
            version : 0 .. MaxVersion]

ASSUME NoCallAssumption == NoCall \notin Call

SessionsTypeOK ==
    /\ account \in Account
    /\ cookie \in [Browsers -> 0 .. MaxVersion]
    /\ signing \in [Browsers -> Call \cup {NoCall}]
    /\ proved \in [Browsers -> Passwords] /\ revoked \in [Browsers -> SUBSET Both]

\* db.init_db seeds the first account with must_change_password.
SessionsInit ==
    /\ \E p \in Passwords :
         account = [password |-> p, active |-> TRUE, change |-> TRUE, version |-> 1]
    /\ cookie = [b \in Browsers |-> 0] /\ signing = [b \in Browsers |-> NoCall]
    /\ proved \in [Browsers -> {account.password}]
    /\ revoked = [b \in Browsers |-> Both]

\* Mutant: the session's version is not compared.
AcceptedAny(b) == account.active /\ cookie[b] # 0
\* load_user
Accepted(b) == account.active /\ cookie[b] = account.version

Await(b, at, p, v) ==
    signing' = [signing EXCEPT ![b] = [at |-> at, password |-> p, version |-> v]]

\* The version that b's call goes on with has just been read.
Fresh(b) == revoked' = [revoked EXCEPT ![b] = @ \ {"call"}]
\* A new password, a forced reset or a deactivation: whoever is signed in, or
\* about to be, has to sign in again.
Revoke == revoked' = [b \in Browsers |-> Both]

\* login: one query reads the flags, the hash and the version.
Login(b, p) ==
    /\ signing[b] = NoCall /\ ~Accepted(b)
    /\ account.active /\ account.password = p
    /\ Await(b, "signed", p, account.version)
    /\ Fresh(b)
    /\ UNCHANGED <<account, cookie, proved>>

Logout(b) ==
    /\ signing[b] = NoCall /\ Accepted(b)
    /\ cookie' = [cookie EXCEPT ![b] = 0]
    /\ revoked' = [revoked EXCEPT ![b] = @ \cup {"session"}]
    /\ UNCHANGED <<account, signing, proved>>

\* change_password: admitted and its current password checked ...
ChangePassword(b, p) ==
    /\ signing[b] = NoCall /\ Accepted(b)
    /\ p # account.password
    /\ Await(b, "update", p, 0)
    /\ UNCHANGED <<account, cookie, proved, revoked>>

Bump == account.version + 1

\* ... the row updated and committed ...
UpdatePassword(b) ==
    /\ signing[b] # NoCall /\ signing[b].at = "update" /\ account.version < MaxVersion
    /\ account' = [account EXCEPT !.password = signing[b].password,
                                  !.change = FALSE, !.version = Bump]
    /\ Await(b, "select", signing[b].password, Bump)
    /\ Revoke
    /\ UNCHANGED <<cookie, proved>>

\* ... and the version read back by a query of its own.
SelectVersion(b) ==
    /\ signing[b] # NoCall /\ signing[b].at = "select"
    /\ Await(b, "store", signing[b].password, account.version)
    /\ Fresh(b)
    /\ UNCHANGED <<account, cookie, proved>>

\* The session is written when the request ends.
StoreSession(b) ==
    /\ signing[b] # NoCall /\ signing[b].at \in {"signed", "store"}
    /\ cookie' = [cookie EXCEPT ![b] = signing[b].version]
    /\ proved' = [proved EXCEPT ![b] = signing[b].password]
    /\ revoked' = [revoked EXCEPT ![b] = IF "call" \in @ THEN Both ELSE {"call"}]
    /\ signing' = [signing EXCEPT ![b] = NoCall]
    /\ UNCHANGED account

\* The worker dies before the session is written.
CallLost(b) ==
    /\ signing[b] # NoCall
    /\ signing' = [signing EXCEPT ![b] = NoCall]
    /\ revoked' = [revoked EXCEPT ![b] = @ \cup {"call"}]
    /\ UNCHANGED <<account, cookie, proved>>

\* user_force_reset
ForceReset ==
    /\ account.version < MaxVersion
    /\ account' = [account EXCEPT !.change = TRUE, !.version = Bump]
    /\ Revoke
    /\ UNCHANGED <<cookie, signing, proved>>

\* _update_user with a password; _reset_password of the script.
SetPassword(p, active, force) ==
    /\ account.version < MaxVersion
    /\ account' = [password |-> p, active |-> active, change |-> force, version |-> Bump]
    /\ Revoke
    /\ UNCHANGED <<cookie, signing, proved>>

\* Mutant: the version moves on a reset only.
EditedOnReset(active, force) ==
    IF force /\ active \in BOOLEAN THEN Bump ELSE account.version
\* _update_user without one: the version moves when the flag does, or on a reset.
EditedVersion(active, force) ==
    IF account.active # active \/ force THEN Bump ELSE account.version

EditUser(active, force) ==
    /\ EditedVersion(active, force) <= MaxVersion
    /\ account' = [account EXCEPT !.active = active, !.change = force,
                                  !.version = EditedVersion(active, force)]
    /\ IF force \/ (account.active /\ ~active) THEN Revoke ELSE UNCHANGED revoked
    /\ UNCHANGED <<cookie, signing, proved>>

\* _disable of the script
Disable ==
    /\ account.version < MaxVersion
    /\ account' = [account EXCEPT !.active = FALSE, !.version = Bump]
    /\ Revoke
    /\ UNCHANGED <<cookie, signing, proved>>

SessionsNext ==
    \/ \E b \in Browsers :
         \/ \E p \in Passwords : Login(b, p) \/ ChangePassword(b, p)
         \/ Logout(b) \/ UpdatePassword(b) \/ SelectVersion(b) \/ StoreSession(b)
         \/ CallLost(b)
    \/ ForceReset \/ Disable
    \/ \E active, force \in BOOLEAN :
         EditUser(active, force) \/ \E p \in Passwords : SetPassword(p, active, force)

SessionsSpec == SessionsInit /\ [][SessionsNext]_sessionVars

-----------------------------------------------------------------------------

\* What was revoked stays out (load_user, session_version): a session is never
\* admitted again once the password was changed or reset, a reset was forced or
\* the account was deactivated after the session's version was read -- not even
\* when that hit a login or a change of password under way whose session was
\* stored afterwards, nor when the account is activated again.
RevokedStaysOut ==
    \A b \in Browsers : Accepted(b) => "session" \notin revoked[b]

\* "Password reset increments the user's session_version, which invalidates
\* existing sessions" (docs/user-management-scripts.md:95): whoever is admitted
\* has signed in with the password in force.  A run expects the violation: a
\* change of password that another one, or a reset, overtakes between its own
\* update and the query that reads the version back adopts the other's version.
SignedInByProof ==
    \A b \in Browsers : Accepted(b) => proved[b] = account.password
=============================================================================
