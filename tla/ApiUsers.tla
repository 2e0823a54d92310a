------------------------------ MODULE ApiUsers ------------------------------
(***************************************************************************)
(* The backend's API users (auth/api_key_db.py, auth/dependency.py and the *)
(* /api-users endpoints of main.py) and the one of them the frontend calls *)
(* with: the admin pages read the stored credentials, ask the backend who  *)
(* is who, act, and store what they were answered, while other pages do    *)
(* the same and calls fail.                                                *)
(***************************************************************************)
EXTENDS Naturals, FiniteSets

CONSTANTS Names,     \* usernames
          Pages,     \* admin requests in flight
          MaxId, MaxKey,  \* bounds: rows and keys ever made
          NoPage

ASSUME ApiAssumption == MaxId \in Nat \ {0} /\ MaxKey \in Nat \ {0}

VARIABLES
    users,   \* rows of api_users
    nextId,  \* its AUTOINCREMENT counter
    nextKey, \* keys are random, so never repeated
    creds,   \* api_credentials of the frontend
    page,    \* admin requests
    owned,   \* owner_id of the uploaded_files and forecast_jobs
    guest,   \* uploads past their authentication: the id it returned
    mishap   \* history: one of the holes below was met

accessVars == <<users, nextId, nextKey, creds, page, owned, guest, mishap>>

UserIds == 1 .. MaxId
Keys == 1 .. MaxKey
User == [id : UserIds, name : Names, key : Keys, enabled : BOOLEAN, admin : BOOLEAN]
Creds == [name : Names, key : Keys]

AdminOp == {"delete", "demote", "rotate", "disable"}
Page == [op : AdminOp, id : UserIds, creds : Creds, at : {"list", "reread", "act", "store"},
         active : BOOLEAN, key : {0} \cup Keys]

ASSUME NoPageAssumption == NoPage \notin Page

AccessTypeOK ==
    /\ users \subseteq User
    /\ nextId \in 1 .. MaxId + 1 /\ nextKey \in 1 .. MaxKey + 1
    /\ creds \in Creds
    /\ page \in [Pages -> Page \cup {NoPage}]
    /\ owned \subseteq UserIds /\ guest \subseteq UserIds
    /\ mishap \in BOOLEAN

\* create_first_user: setup leaves one administrator, known to the frontend.
AccessInit ==
    \E n \in Names :
      /\ users = {[id |-> 1, name |-> n, key |-> 1, enabled |-> TRUE, admin |-> TRUE]}
      /\ nextId = 2 /\ nextKey = 2
      /\ creds = [name |-> n, key |-> 1]
      /\ page = [w \in Pages |-> NoPage]
      /\ owned = {} /\ guest = {} /\ mishap = FALSE

\* verify_api_key
Verifies(u, c) == u.name = c.name /\ u.key = c.key /\ u.enabled
\* require_admin_api_key
Authorized(c) == \E u \in users : Verifies(u, c) /\ u.admin

Named(id) == CHOOSE u \in users : u.id = id
Exists(id) == \E u \in users : u.id = id
Replace(id, u) == users' = (users \ {Named(id)}) \cup {u}

\* api_users_create: SELECT, then an INSERT that the UNIQUE column would refuse.
CreateUser(n, admin) ==
    /\ nextId \in UserIds /\ nextKey \in Keys
    /\ Authorized(creds)
    /\ \A u \in users : u.name # n
    /\ users' = users \cup {[id |-> nextId, name |-> n, key |-> nextKey,
                             enabled |-> TRUE, admin |-> admin]}
    /\ nextId' = nextId + 1 /\ nextKey' = nextKey + 1
    /\ UNCHANGED <<creds, page, owned, guest, mishap>>

\* api_users_toggle, api_users_set_admin: switching on harms nobody.
SwitchOn(id, field) ==
    /\ Authorized(creds) /\ Exists(id)
    /\ Replace(id, [Named(id) EXCEPT ![field] = TRUE])
    /\ UNCHANGED <<nextId, nextKey, creds, page, owned, guest, mishap>>

-----------------------------------------------------------------------------
(* The admin pages.                                                        *)

\* get_api_client: the credentials a request calls with, as they are stored when it
\* begins.  api_key_toggle asks nobody whether it disables the frontend's own user.
OpenPage(w, op, id) ==
    /\ page[w] = NoPage
    /\ page' = [page EXCEPT ![w] =
         [op |-> op, id |-> id, creds |-> creds, active |-> FALSE, key |-> 0,
          at |-> IF op = "disable" THEN "act" ELSE "list"]]
    /\ UNCHANGED <<users, nextId, nextKey, creds, owned, guest, mishap>>

Close(w) == page' = [page EXCEPT ![w] = NoPage]

\* list_api_users: is the target the user the frontend calls with?  An answer
\* other than 200 counts as no.
ListUsers(w) ==
    /\ page[w] # NoPage /\ page[w].at = "list"
    /\ \E answered \in BOOLEAN :
         page' = [page EXCEPT
                    ![w].at = IF page[w].op = "delete" THEN "reread" ELSE "act",
                    ![w].active =
                    /\ answered /\ Authorized(page[w].creds) /\ Exists(page[w].id)
                    /\ Named(page[w].id).name = page[w].creds.name]
    /\ UNCHANGED <<users, nextId, nextKey, creds, owned, guest, mishap>>

\* api_key_delete, api_key_set_admin: the frontend's own user is refused, by the page
\* that listed it or by the backend.
Refuse(w) ==
    /\ page[w] # NoPage
    /\ \/ page[w].active /\ \/ page[w].at = "reread"
                            \/ page[w].at = "act" /\ page[w].op = "demote"
       \/ page[w].at = "act" /\ (~Authorized(page[w].creds) \/ ~Exists(page[w].id))
    /\ Close(w)
    /\ UNCHANGED <<users, nextId, nextKey, creds, owned, guest, mishap>>

Acts(w, op) ==
    /\ page[w] # NoPage /\ page[w].at = "act" /\ page[w].op = op
    /\ Authorized(page[w].creds) /\ Exists(page[w].id)

\* The user the frontend calls with is hit though the page did not know it:
\* the list failed, or other credentials were stored since.
OwnUser(w) == Exists(page[w].id) /\ Named(page[w].id).name = creds.name
\* Mutant: the answer of the list is not looked at.
Unguarded(w) == page[w] # NoPage
Guarded(w) == ~page[w].active

\* api_key_delete, past its guard, asks for the credentials a second time.
Reread(w) ==
    /\ page[w] # NoPage /\ page[w].at = "reread" /\ Guarded(w)
    /\ page' = [page EXCEPT ![w].at = "act", ![w].creds = creds]
    /\ UNCHANGED <<users, nextId, nextKey, creds, owned, guest, mishap>>

\* delete_api_user: refused while the user owns files or jobs.
DeleteUser(w) ==
    /\ Acts(w, "delete")
    /\ users' = IF page[w].id \in owned THEN users ELSE users \ {Named(page[w].id)}
    /\ mishap' = (mishap \/ (OwnUser(w) /\ ~page[w].active))
    /\ Close(w)
    /\ UNCHANGED <<nextId, nextKey, creds, owned, guest>>

Demote(w) ==
    /\ Acts(w, "demote") /\ Guarded(w)
    /\ Replace(page[w].id, [Named(page[w].id) EXCEPT !.admin = FALSE])
    /\ mishap' = (mishap \/ (OwnUser(w) /\ ~page[w].active))
    /\ Close(w)
    /\ UNCHANGED <<nextId, nextKey, creds, owned, guest>>

\* api_key_toggle
DisableUser(w) ==
    /\ Acts(w, "disable")
    /\ Replace(page[w].id, [Named(page[w].id) EXCEPT !.enabled = FALSE])
    /\ mishap' = (mishap \/ OwnUser(w))
    /\ Close(w)
    /\ UNCHANGED <<nextId, nextKey, creds, owned, guest>>

Storing(w) == page[w] # NoPage /\ page[w].at = "store"

\* rotate_api_key: the old key is dead before the frontend holds the new one.
Rotate(w) ==
    /\ Acts(w, "rotate") /\ nextKey \in Keys
    /\ Replace(page[w].id, [Named(page[w].id) EXCEPT !.key = nextKey])
    /\ nextKey' = nextKey + 1
    /\ mishap' = (mishap \/ (OwnUser(w) /\ (~page[w].active \/ \E x \in Pages : Storing(x))))
    /\ IF page[w].active
       THEN page' = [page EXCEPT ![w].at = "store", ![w].key = nextKey]
       ELSE Close(w)
    /\ UNCHANGED <<nextId, creds, owned, guest>>

\* The frontend's own key was rotated: the new one is stored at once.
StoreKey(w) ==
    /\ Storing(w)
    /\ creds' = [name |-> page[w].creds.name, key |-> page[w].key]
    /\ Close(w)
    /\ mishap' = (mishap \/ creds # page[w].creds)
    /\ UNCHANGED <<users, nextId, nextKey, owned, guest>>

\* The answer is lost, the worker is killed, or the row cannot be written.
PageLost(w) ==
    /\ page[w] # NoPage
    /\ Close(w)
    /\ mishap' = (mishap \/ Storing(w))
    /\ UNCHANGED <<users, nextId, nextKey, creds, owned, guest>>

\* api_config: an administrator enters the credentials of a user that works.
SaveConfig(u) ==
    /\ u \in users /\ u.admin /\ u.enabled
    /\ creds' = [name |-> u.name, key |-> u.key]
    /\ mishap' = (mishap \/ \E w \in Pages : page[w] # NoPage /\ page[w].op = "rotate")
    /\ UNCHANGED <<users, nextId, nextKey, page, owned, guest>>

-----------------------------------------------------------------------------
(* Files and jobs of an API user.                                          *)

\* upload_file, analyze: authenticated first, stored much later.
Arrive(u) ==
    /\ u \in users /\ u.enabled
    /\ guest' = guest \cup {u.id}
    /\ UNCHANGED <<users, nextId, nextKey, creds, page, owned, mishap>>

\* Mutant: foreign keys are not enforced.
Unenforced(id) == id \in UserIds
\* FOREIGN KEY (owner_id) REFERENCES api_users: a deleted owner fails the insert.
OwnerExists(id) == Exists(id)
StoreOwned(id) ==
    /\ id \in guest
    /\ guest' = guest \ {id}
    /\ owned' = IF OwnerExists(id) THEN owned \cup {id} ELSE owned
    /\ UNCHANGED <<users, nextId, nextKey, creds, page, mishap>>

Disown(id) ==
    /\ id \in owned /\ owned' = owned \ {id}
    /\ UNCHANGED <<users, nextId, nextKey, creds, page, guest, mishap>>

Manage ==
    \/ \E n \in Names, admin \in BOOLEAN : CreateUser(n, admin)
    \/ \E id \in UserIds, f \in {"enabled", "admin"} : SwitchOn(id, f)
    \/ \E w \in Pages :
         \/ \E op \in AdminOp, id \in UserIds : OpenPage(w, op, id)
         \/ ListUsers(w) \/ Refuse(w) \/ Reread(w) \/ DeleteUser(w) \/ Demote(w) \/ DisableUser(w)
         \/ Rotate(w) \/ StoreKey(w) \/ PageLost(w)
    \/ \E u \in users : SaveConfig(u)

Serve ==
    \/ \E u \in users : Arrive(u)
    \/ \E id \in UserIds : StoreOwned(id) \/ Disown(id)

AccessNext == Manage \/ Serve

AccessSpec == AccessInit /\ [][AccessNext]_accessVars

-----------------------------------------------------------------------------

\* The frontend's stored credentials stay those of an enabled administrator.
\* It locks itself out only through what mishap records: disabling its own
\* user, a list that failed before the guard, credentials replaced under a
\* page in flight, overlapping rotations, or a new key that was never stored.
FrontendKeepsAccess ==
    mishap \/ (\E w \in Pages : Storing(w)) \/ Authorized(creds)

\* Files and jobs always have their owner, though an upload is admitted long
\* before its row is written and the user may be deleted in between.
OwnersExist == \A id \in owned : Exists(id)
=============================================================================
