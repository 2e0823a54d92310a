--------------------------- MODULE FrontendProofs ---------------------------
(***************************************************************************)
(* What the frontend guarantees for any number of browsers, tabs, admin    *)
(* pages, users and reports.                                               *)
(***************************************************************************)
EXTENDS ReportSession, UserSessions, ApiUsers, FiniteSetTheorems,
        WellFoundedInduction, TLAPS

-----------------------------------------------------------------------------
(* UserSessions.                                                           *)

Signing(b, places) == signing[b] # NoCall /\ signing[b].at \in places

\* No session and no version read is newer than the account, and what is as new has
\* not been revoked.
SessionsInv ==
    /\ SessionsTypeOK
    /\ \A b \in Browsers :
         /\ cookie[b] <= account.version
         /\ cookie[b] = account.version => "session" \notin revoked[b]
         /\ Signing(b, {"signed", "store"}) =>
              /\ signing[b].version <= account.version
              /\ signing[b].version = account.version => "call" \notin revoked[b]

LEMMA InitSessionsInv == SessionsInit => SessionsInv
<1> SUFFICES ASSUME SessionsInit
             PROVE  SessionsInv
  OBVIOUS
<1>1. PICK p \in Passwords :
        account = [password |-> p, active |-> TRUE, change |-> TRUE, version |-> 1]
  BY DEF SessionsInit
<1>2. account \in Account
  BY <1>1, SessionsAssumption DEF Account
<1> QED
  BY <1>1, <1>2, SessionsAssumption
     DEF SessionsInit, SessionsInv, SessionsTypeOK, Signing, Both

\* What the type says of the account and of a call, for the leaves below.
LEMMA SessionTypes ==
    ASSUME SessionsInv
    PROVE  /\ account = [password |-> account.password, active |-> account.active,
                         change |-> account.change, version |-> account.version]
           /\ account.password \in Passwords /\ account.active \in BOOLEAN
           /\ account.change \in BOOLEAN /\ account.version \in 1 .. MaxVersion
           /\ \A b \in Browsers :
                /\ signing[b] # NoCall => signing[b] \in Call
                /\ cookie[b] \in Nat
BY SessionsAssumption DEF SessionsInv, SessionsTypeOK, Account

\* A change of the account that counts the version up keeps the invariant, whoever
\* it revokes and whatever the calls that have not read the version yet do.
LEMMA BumpKeepsInv ==
    ASSUME SessionsInv, SessionsTypeOK', account'.version = account.version + 1,
           UNCHANGED cookie,
           \A b \in Browsers : Signing(b, {"signed", "store"})' =>
               Signing(b, {"signed", "store"}) /\ signing'[b] = signing[b]
    PROVE  SessionsInv'
<1>1. account.version \in Nat
  BY SessionTypes
<1>2. ASSUME NEW b \in Browsers
      PROVE  cookie'[b] < account'.version /\ cookie'[b] \in Nat
  BY <1>1, SessionTypes DEF SessionsInv
<1>3. ASSUME NEW b \in Browsers, Signing(b, {"signed", "store"})'
      PROVE  signing'[b].version < account'.version /\ signing'[b].version \in Nat
  <2>1. Signing(b, {"signed", "store"}) /\ signing'[b] = signing[b]
    BY <1>3
  <2>2. signing[b].version <= account.version /\ signing[b].version \in Nat
    BY <2>1, SessionTypes DEF SessionsInv, Signing, Call
  <2> QED
    BY <1>1, <2>1, <2>2
<1>4. account'.version \in Nat
  BY <1>1
<1> QED
  BY <1>2, <1>3, <1>4 DEF SessionsInv

\* An edit that revokes counts the version up.
LEMMA RevokingEditBumps ==
    ASSUME NEW active \in BOOLEAN, NEW force \in BOOLEAN,
           force \/ (account.active /\ ~active)
    PROVE  EditedVersion(active, force) = Bump
BY DEF EditedVersion

LEMMA NextSessionsInv == SessionsInv /\ [SessionsNext]_sessionVars => SessionsInv'
<1> SUFFICES ASSUME SessionsInv, [SessionsNext]_sessionVars
             PROVE  SessionsInv'
  OBVIOUS
<1> USE SessionsAssumption, NoCallAssumption
<1>t. account.version \in Nat
  BY SessionTypes
<1>r. Revoke => revoked' \in [Browsers -> SUBSET Both]
  BY DEF Revoke, Both
<1>1. ASSUME NEW b \in Browsers, NEW p \in Passwords, Login(b, p)
      PROVE  SessionsInv'
  <2> DEFINE call == [at |-> "signed", password |-> p, version |-> account.version]
  <2>1. call \in Call
    BY SessionTypes DEF Call
  <2>2. /\ signing' = [signing EXCEPT ![b] = call]
        /\ revoked' = [revoked EXCEPT ![b] = @ \ {"call"}]
        /\ UNCHANGED <<account, cookie, proved>>
    BY <1>1 DEF Login, Await, Fresh
  <2>3. call.version = account.version
    OBVIOUS
  <2> HIDE DEF call
  <2> QED
    BY <2>1, <2>2, <2>3, <1>t DEF SessionsInv, SessionsTypeOK, Signing
<1>2. ASSUME NEW b \in Browsers, NEW p \in Passwords, ChangePassword(b, p)
      PROVE  SessionsInv'
  <2>1. [at |-> "update", password |-> p, version |-> 0] \in Call
    BY DEF Call
  <2> QED
    BY <1>2, <2>1 DEF ChangePassword, Await, SessionsInv, SessionsTypeOK, Signing
<1>3. ASSUME NEW b \in Browsers, Logout(b)
      PROVE  SessionsInv'
  <2>1. /\ cookie' = [cookie EXCEPT ![b] = 0]
        /\ revoked' = [revoked EXCEPT ![b] = @ \cup {"session"}]
        /\ UNCHANGED <<account, signing, proved>>
    BY <1>3 DEF Logout
  <2>2. account.version > 0
    BY SessionTypes
  <2> QED
    BY <2>1, <2>2, <1>t DEF SessionsInv, SessionsTypeOK, Signing, Both
<1>4. ASSUME NEW b \in Browsers, UpdatePassword(b)
      PROVE  SessionsInv'
  <2> DEFINE p == signing[b].password
             call == [at |-> "select", password |-> p, version |-> account.version + 1]
  <2>1. p \in Passwords /\ account.version + 1 \in 1 .. MaxVersion
    BY <1>4, <1>t, SessionTypes DEF UpdatePassword, Call
  <2>2. account' \in Account /\ account'.version = account.version + 1
    BY <1>4, <2>1, SessionTypes DEF UpdatePassword, Bump, Account
  <2>3. call \in Call /\ call.at = "select"
    BY <2>1 DEF Call
  <2>4. signing' = [signing EXCEPT ![b] = call] /\ Revoke /\ UNCHANGED <<cookie, proved>>
    BY <1>4 DEF UpdatePassword, Await, Bump
  <2> HIDE DEF call
  <2>5. SessionsTypeOK'
    BY <2>2, <2>3, <2>4, <1>r DEF SessionsInv, SessionsTypeOK
  <2>6. ASSUME NEW c \in Browsers, Signing(c, {"signed", "store"})'
        PROVE  Signing(c, {"signed", "store"}) /\ signing'[c] = signing[c]
    BY <2>3, <2>4, <2>6 DEF SessionsInv, SessionsTypeOK, Signing
  <2> QED
    BY <2>2, <2>4, <2>5, <2>6, BumpKeepsInv
<1>5. ASSUME NEW b \in Browsers, SelectVersion(b)
      PROVE  SessionsInv'
  <2> DEFINE call == [at |-> "store", password |-> signing[b].password,
                      version |-> account.version]
  <2>1. call \in Call
    BY <1>5, SessionTypes DEF SelectVersion, Call
  <2>2. /\ signing' = [signing EXCEPT ![b] = call]
        /\ revoked' = [revoked EXCEPT ![b] = @ \ {"call"}]
        /\ UNCHANGED <<account, cookie, proved>>
    BY <1>5 DEF SelectVersion, Await, Fresh
  <2>3. call.version = account.version
    OBVIOUS
  <2> HIDE DEF call
  <2> QED
    BY <2>1, <2>2, <2>3, <1>t DEF SessionsInv, SessionsTypeOK, Signing
<1>6. ASSUME NEW b \in Browsers, StoreSession(b)
      PROVE  SessionsInv'
  <2> DEFINE call == signing[b]
  <2>1. /\ Signing(b, {"signed", "store"}) /\ call \in Call
        /\ cookie' = [cookie EXCEPT ![b] = call.version]
        /\ proved' = [proved EXCEPT ![b] = call.password]
        /\ revoked' = [revoked EXCEPT ![b] = IF "call" \in @ THEN Both ELSE {"call"}]
        /\ signing' = [signing EXCEPT ![b] = NoCall]
        /\ UNCHANGED account
    BY <1>6, SessionTypes DEF StoreSession, Signing
  <2>2. call.version \in 0 .. MaxVersion /\ call.password \in Passwords
    BY <2>1 DEF Call
  <2>3. /\ call.version <= account.version
        /\ call.version = account.version => "call" \notin revoked[b]
    BY <2>1 DEF SessionsInv
  <2> HIDE DEF call
  <2>4. SessionsTypeOK'
    BY <2>1, <2>2 DEF SessionsInv, SessionsTypeOK, Both
  <2>5. /\ cookie'[b] = call.version /\ signing'[b] = NoCall
        /\ "session" \in revoked'[b] => "call" \in revoked[b]
    BY <2>1 DEF SessionsInv, SessionsTypeOK
  <2>6. ASSUME NEW c \in Browsers, c # b
        PROVE  UNCHANGED <<cookie[c], signing[c], revoked[c]>>
    BY <2>1, <2>6 DEF SessionsInv, SessionsTypeOK
  <2> QED
    BY <2>1, <2>3, <2>4, <2>5, <2>6 DEF SessionsInv, Signing
<1>7. ASSUME NEW b \in Browsers, CallLost(b)
      PROVE  SessionsInv'
  BY <1>7 DEF CallLost, SessionsInv, SessionsTypeOK, Signing, Both
<1>8. CASE ForceReset
  <2>1. account.version + 1 \in 1 .. MaxVersion
    BY <1>8, <1>t DEF ForceReset
  <2>2. account' \in Account /\ account'.version = account.version + 1
    BY <1>8, <2>1, SessionTypes DEF ForceReset, Bump, Account
  <2>3. SessionsTypeOK'
    BY <1>8, <2>2, <1>r DEF ForceReset, SessionsInv, SessionsTypeOK
  <2> QED
    BY <1>8, <2>2, <2>3, BumpKeepsInv DEF ForceReset, Signing
<1>9. CASE Disable
  <2>1. account.version + 1 \in 1 .. MaxVersion
    BY <1>9, <1>t DEF Disable
  <2>2. account' \in Account /\ account'.version = account.version + 1
    BY <1>9, <2>1, SessionTypes DEF Disable, Bump, Account
  <2>3. SessionsTypeOK'
    BY <1>9, <2>2, <1>r DEF Disable, SessionsInv, SessionsTypeOK
  <2> QED
    BY <1>9, <2>2, <2>3, BumpKeepsInv DEF Disable, Signing
<1>10. ASSUME NEW active \in BOOLEAN, NEW force \in BOOLEAN, EditUser(active, force)
       PROVE  SessionsInv'
  <2>1. CASE EditedVersion(active, force) = Bump
    <3>1. account.version + 1 \in 1 .. MaxVersion
      BY <1>10, <2>1, <1>t DEF EditUser, Bump
    <3>2. account' \in Account /\ account'.version = account.version + 1
      BY <1>10, <2>1, <3>1, SessionTypes DEF EditUser, Bump, Account
    <3>3. SessionsTypeOK'
      BY <1>10, <3>2, <1>r DEF EditUser, SessionsInv, SessionsTypeOK
    <3> QED
      BY <1>10, <3>2, <3>3, BumpKeepsInv DEF EditUser, Signing
  <2>2. CASE EditedVersion(active, force) = account.version
    <3>1. account' \in Account /\ account'.version = account.version
      BY <1>10, <2>2, <1>t, SessionTypes DEF EditUser, Account
    <3>2. ~(force \/ (account.active /\ ~active))
      BY <2>2, <1>t, RevokingEditBumps DEF Bump
    <3>3. UNCHANGED <<cookie, signing, proved, revoked>>
      BY <1>10, <3>2 DEF EditUser
    <3> QED
      BY <3>1, <3>3 DEF SessionsInv, SessionsTypeOK, Signing
  <2> QED
    BY <2>1, <2>2 DEF EditedVersion
<1>11. ASSUME NEW p \in Passwords, NEW active \in BOOLEAN, NEW force \in BOOLEAN,
              SetPassword(p, active, force)
       PROVE  SessionsInv'
  <2>1. account' \in Account /\ account'.version = account.version + 1
    BY <1>11, <1>t, SessionTypes DEF SetPassword, Bump, Account
  <2>2. SessionsTypeOK'
    BY <1>11, <2>1, <1>r DEF SetPassword, SessionsInv, SessionsTypeOK
  <2> QED
    BY <1>11, <2>1, <2>2, BumpKeepsInv DEF SetPassword, Signing
<1>12. CASE UNCHANGED sessionVars
  BY <1>12 DEF sessionVars, SessionsInv, SessionsTypeOK, Signing
<1> QED
  BY <1>1, <1>2, <1>3, <1>4, <1>5, <1>6, <1>7, <1>8, <1>9, <1>10, <1>11, <1>12
     DEF SessionsNext

\* No session that was revoked after its version was read is admitted again, for any
\* number of browsers, changes, resets and deactivations in any order.
THEOREM RevokedSessionsStayOut == SessionsSpec => []RevokedStaysOut
<1>1. SessionsInv => RevokedStaysOut
  BY DEF SessionsInv, RevokedStaysOut, Accepted
<1> QED
  BY <1>1, InitSessionsInv, NextSessionsInv, PTL DEF SessionsSpec

-----------------------------------------------------------------------------
(* ApiUsers.                                                               *)

RowsUnique ==
    \A u, v \in users : (u.id = v.id => u = v) /\ (u.name = v.name => u = v)
IdsSpent == \A u \in users : u.id < nextId

\* What a page has learned of its target stays true while it waits, since a
\* name is never changed and an id never given again.
PageOK(w) ==
    page[w] # NoPage =>
      /\ page[w].at = "store" => page[w].op = "rotate" /\ page[w].key \in Keys
      /\ page[w].at = "reread" => page[w].op = "delete"
      /\ page[w].at = "act" /\ page[w].op = "delete" => ~page[w].active
      /\ page[w].active => page[w].id < nextId
      /\ page[w].active => \A u \in users :
           u.id = page[w].id => u.name = page[w].creds.name

\* The user behind the credentials of the frontend works, and has the stored
\* key or the one a page is about to store.
Backed(u) ==
    /\ u.name = creds.name /\ u.enabled /\ u.admin
    /\ (\A w \in Pages : ~Storing(w)) => u.key = creds.key
    /\ \A w \in Pages : Storing(w) => u.key = page[w].key

RotatesOwn == \A w \in Pages :
    page[w] # NoPage /\ page[w].op = "rotate" => page[w].creds.name = creds.name

AccessInv ==
    /\ AccessTypeOK /\ RowsUnique /\ IdsSpent /\ OwnersExist
    /\ \A w \in Pages : PageOK(w)
    /\ ~mishap => RotatesOwn /\ \E u \in users : Backed(u)

LEMMA InitAccessInv == AccessInit => AccessInv
<1> SUFFICES ASSUME AccessInit
             PROVE  AccessInv
  OBVIOUS
<1>1. PICK n \in Names :
        /\ users = {[id |-> 1, name |-> n, key |-> 1, enabled |-> TRUE, admin |-> TRUE]}
        /\ creds = [name |-> n, key |-> 1]
  BY DEF AccessInit
<1>2. 1 \in UserIds /\ 1 \in Keys
  BY ApiAssumption DEF UserIds, Keys
<1>3. users \subseteq User /\ creds \in Creds
  BY <1>1, <1>2 DEF User, Creds
<1>4. AccessTypeOK
  <2>1. nextId \in 1 .. MaxId + 1 /\ nextKey \in 1 .. MaxKey + 1
    BY ApiAssumption DEF AccessInit
  <2>2. page \in [Pages -> Page \cup {NoPage}]
    BY DEF AccessInit
  <2>3. owned = {} /\ guest = {} /\ mishap \in BOOLEAN
    BY DEF AccessInit
  <2> QED
    BY <1>3, <2>1, <2>2, <2>3 DEF AccessTypeOK
<1> QED
  BY <1>1, <1>4 DEF AccessInit, AccessInv, RowsUnique, IdsSpent, OwnersExist, PageOK,
                    RotatesOwn, Backed, Storing

\* The row of an id.
LEMMA NamedRow ==
    ASSUME NEW id, Exists(id)
    PROVE  Named(id) \in users /\ Named(id).id = id
BY DEF Exists, Named

LEMMA NamedIs ==
    ASSUME RowsUnique, NEW u \in users
    PROVE  Named(u.id) = u
BY DEF RowsUnique, Named

\* A row replaced by one of the same id and name disturbs nothing but the row.
KeepsUser(v, id) ==
    /\ users' \subseteq User /\ RowsUnique' /\ v \in users'
    /\ \A u \in users' : \E o \in users : o.id = u.id /\ o.name = u.name
    /\ \A o \in users : \E u \in users' : o.id = u.id
    /\ \A o \in users : o # Named(id) => o \in users'

LEMMA ReplaceKeeps ==
    ASSUME AccessInv, NEW id, Exists(id), NEW v \in User,
           v.id = id, v.name = Named(id).name, Replace(id, v)
    PROVE  KeepsUser(v, id)
<1>1. Named(id) \in users /\ Named(id).id = id
  BY NamedRow
<1>2. users' = (users \ {Named(id)}) \cup {v}
  BY DEF Replace
<1>3. RowsUnique'
  BY <1>1, <1>2 DEF AccessInv, RowsUnique
<1> QED
  BY <1>1, <1>2, <1>3 DEF AccessInv, AccessTypeOK, KeepsUser

LEMMA KeptOwners ==
    ASSUME AccessInv, NEW v, NEW id, KeepsUser(v, id), UNCHANGED <<nextId, owned>>
    PROVE  IdsSpent' /\ OwnersExist'
BY DEF KeepsUser, AccessInv, IdsSpent, OwnersExist, Exists

\* A row that the credentials of the frontend do not name is not the one that
\* backs them.
LEMMA OthersBack ==
    ASSUME AccessInv, NEW w \in Pages, Exists(page[w].id), ~OwnUser(w),
           NEW u \in users, u.name = creds.name
    PROVE  u # Named(page[w].id)
BY DEF OwnUser

\* Closing a page that stores nothing.
OnlyCloses ==
    /\ page' \in [Pages -> Page \cup {NoPage}]
    /\ \A x \in Pages : page'[x] # NoPage => page'[x] = page[x]
    /\ \A x \in Pages : Storing(x) => page'[x] = page[x]

LEMMA CloseKeeps ==
    ASSUME AccessInv, NEW w \in Pages, Close(w), ~Storing(w)
    PROVE  OnlyCloses
BY DEF AccessInv, AccessTypeOK, Close, Storing, OnlyCloses

LEMMA ClosePagesOK ==
    ASSUME AccessInv, OnlyCloses, nextId' = nextId,
           \A u \in users' : \E o \in users : o.id = u.id /\ o.name = u.name
    PROVE  \A w \in Pages : PageOK(w)'
BY DEF AccessInv, PageOK, OnlyCloses

\* A page hits a row that is not the frontend's own and is done.
LEMMA HitKeeps ==
    ASSUME AccessInv, NEW w \in Pages, Exists(page[w].id), Close(w), ~Storing(w),
           NEW v \in User, v.id = page[w].id, v.name = Named(page[w].id).name,
           Replace(page[w].id, v), nextKey' \in 1 .. MaxKey + 1, mishap' \in BOOLEAN,
           ~mishap' => ~mishap /\ ~OwnUser(w), UNCHANGED <<nextId, creds, owned, guest>>
    PROVE  AccessInv'
<1>1. OnlyCloses /\ KeepsUser(v, page[w].id)
  BY CloseKeeps, ReplaceKeeps
<1>2. AccessTypeOK'
  BY <1>1 DEF AccessInv, AccessTypeOK, OnlyCloses, KeepsUser
<1>3. \A x \in Pages : PageOK(x)'
  BY <1>1, ClosePagesOK DEF KeepsUser
<1>4. ASSUME ~mishap'
      PROVE  RotatesOwn' /\ \E u \in users' : Backed(u)'
  <2>1. PICK u \in users : Backed(u)
    BY <1>4 DEF AccessInv
  <2>2. u \in users'
    BY <1>1, <1>4, <2>1, OthersBack DEF Backed, KeepsUser
  <2>3. RotatesOwn'
    BY <1>1, <1>4 DEF AccessInv, RotatesOwn, OnlyCloses
  <2>4. Backed(u)'
    BY <1>1, <2>1 DEF Backed, OnlyCloses, Storing
  <2> QED
    BY <2>2, <2>3, <2>4
<1> QED
  BY <1>1, <1>2, <1>3, <1>4, KeptOwners DEF AccessInv, KeepsUser

LEMMA NextAccessInv == AccessInv /\ [AccessNext]_accessVars => AccessInv'
<1> SUFFICES ASSUME AccessInv, [AccessNext]_accessVars
             PROVE  AccessInv'
  OBVIOUS
<1> USE ApiAssumption, NoPageAssumption
<1>t. AccessTypeOK /\ RowsUnique /\ IdsSpent /\ OwnersExist /\ \A w \in Pages : PageOK(w)
  BY DEF AccessInv
<1>n. /\ nextId \in Nat /\ nextKey \in Nat
      /\ \A u \in users : u \in User /\ u.id \in Nat /\ u.id \in UserIds
  BY <1>t DEF AccessTypeOK, User, UserIds
<1>p. \A w \in Pages : page[w] # NoPage => page[w] \in Page
  BY <1>t DEF AccessTypeOK
<1>1. ASSUME NEW n \in Names, NEW admin \in BOOLEAN, CreateUser(n, admin)
      PROVE  AccessInv'
  <2> DEFINE v == [id |-> nextId, name |-> n, key |-> nextKey, enabled |-> TRUE, admin |-> admin]
  <2>1. v \in User
    BY <1>1 DEF CreateUser, User
  <2>2. v.id = nextId /\ v.name = n
    OBVIOUS
  <2>3. /\ users' = users \cup {v} /\ nextId' = nextId + 1 /\ nextKey' = nextKey + 1
        /\ UNCHANGED <<creds, page, owned, guest, mishap>>
        /\ \A u \in users : u.name # n
    BY <1>1 DEF CreateUser
  <2>4. nextId' \in 1 .. MaxId + 1 /\ nextKey' \in 1 .. MaxKey + 1
    BY <1>1, <1>n DEF CreateUser, UserIds, Keys
  <2> HIDE DEF v
  <2>5. AccessTypeOK'
    BY <1>t, <2>1, <2>3, <2>4 DEF AccessTypeOK
  <2>6. RowsUnique' /\ IdsSpent'
    BY <1>t, <1>n, <2>2, <2>3 DEF RowsUnique, IdsSpent
  <2>7. OwnersExist'
    BY <1>t, <2>3 DEF OwnersExist, Exists
  <2>8. ASSUME NEW w \in Pages
        PROVE  PageOK(w)'
    <3>1. PageOK(w)
      BY <1>t
    <3>2. page[w] # NoPage => page[w].id \in Nat
      BY <1>p DEF Page, UserIds
    <3> QED
      BY <3>1, <3>2, <1>n, <2>2, <2>3 DEF PageOK
  <2>9. (~mishap => RotatesOwn /\ \E u \in users : Backed(u))'
    BY <2>3 DEF AccessInv, RotatesOwn, Backed, Storing
  <2> QED
    BY <2>5, <2>6, <2>7, <2>8, <2>9 DEF AccessInv
<1>2. ASSUME NEW id \in UserIds, NEW f \in {"enabled", "admin"}, SwitchOn(id, f)
      PROVE  AccessInv'
  <2> DEFINE o == Named(id)
             v == [o EXCEPT ![f] = TRUE]
  <2>1. o \in users /\ o.id = id /\ o \in User
    BY <1>2, <1>n, NamedRow DEF SwitchOn
  <2>2. /\ v \in User /\ v.id = id /\ v.name = o.name /\ v.key = o.key
        /\ (o.enabled => v.enabled) /\ (o.admin => v.admin)
    BY <2>1 DEF User
  <2>3. /\ Replace(id, v) /\ Exists(id)
        /\ UNCHANGED <<nextId, nextKey, creds, page, owned, guest, mishap>>
    BY <1>2 DEF SwitchOn
  <2> HIDE DEF v, o
  <2>4. KeepsUser(v, id)
    BY <2>2, <2>3, ReplaceKeeps DEF o
  <2>5. ASSUME NEW u \in users, Backed(u)
        PROVE  \E x \in users' : Backed(x)'
    <3>1. CASE u = o
      BY <3>1, <2>2, <2>3, <2>4, <2>5 DEF Backed, KeepsUser, Storing
    <3>2. CASE u # o
      BY <3>2, <2>3, <2>4, <2>5 DEF Backed, KeepsUser, Storing, o
    <3> QED
      BY <3>1, <3>2
  <2>6. AccessTypeOK'
    BY <1>t, <2>3, <2>4 DEF AccessTypeOK, KeepsUser
  <2>7. \A w \in Pages : PageOK(w)'
    BY <1>t, <2>3, <2>4 DEF PageOK, KeepsUser
  <2> QED
    BY <2>3, <2>4, <2>5, <2>6, <2>7, KeptOwners DEF AccessInv, RotatesOwn, KeepsUser
<1>3. ASSUME NEW w \in Pages, NEW op \in AdminOp, NEW id \in UserIds, OpenPage(w, op, id)
      PROVE  AccessInv'
  <2> DEFINE new == [op |-> op, id |-> id, creds |-> creds, active |-> FALSE, key |-> 0,
                     at |-> IF op = "disable" THEN "act" ELSE "list"]
  <2>1. new \in Page
    BY <1>t DEF AccessTypeOK, Page
  <2>2. /\ page' = [page EXCEPT ![w] = new] /\ page[w] = NoPage
        /\ UNCHANGED <<users, nextId, nextKey, creds, owned, guest, mishap>>
    BY <1>3 DEF OpenPage
  <2>3. new.at \notin {"reread", "store"} /\ ~new.active /\ new.creds = creds
    OBVIOUS
  <2> HIDE DEF new
  <2>4. AccessTypeOK'
    BY <1>t, <2>1, <2>2 DEF AccessTypeOK
  <2>5. page'[w] = new /\ \A x \in Pages \ {w} : page'[x] = page[x]
    BY <1>t, <2>2 DEF AccessTypeOK
  <2>6. \A x \in Pages : PageOK(x)'
    BY <1>t, <2>2, <2>3, <2>5 DEF PageOK
  <2>7. \A x \in Pages : /\ Storing(x)' <=> Storing(x)
                         /\ Storing(x) => page'[x] = page[x]
    BY <2>2, <2>3, <2>5 DEF Storing
  <2>8. (~mishap => RotatesOwn /\ \E u \in users : Backed(u))'
    BY <2>2, <2>3, <2>5, <2>7 DEF AccessInv, RotatesOwn, Backed
  <2> QED
    BY <1>t, <2>2, <2>4, <2>6, <2>8 DEF AccessInv, RowsUnique, IdsSpent, OwnersExist, Exists
<1>4. ASSUME NEW w \in Pages, ListUsers(w)
      PROVE  AccessInv'
  <2>1. PICK answered \in BOOLEAN :
          page' = [page EXCEPT
                     ![w].at = IF page[w].op = "delete" THEN "reread" ELSE "act",
                     ![w].active =
                     /\ answered /\ Authorized(page[w].creds) /\ Exists(page[w].id)
                     /\ Named(page[w].id).name = page[w].creds.name]
    BY <1>4 DEF ListUsers
  <2>2. /\ page[w] # NoPage /\ page[w].at = "list" /\ page[w] \in Page
        /\ UNCHANGED <<users, nextId, nextKey, creds, owned, guest, mishap>>
    BY <1>4, <1>p DEF ListUsers
  <2>3. /\ page'[w] \in Page /\ page'[w].id = page[w].id
        /\ page'[w].at = IF page[w].op = "delete" THEN "reread" ELSE "act"
        /\ page'[w].creds = page[w].creds /\ page'[w].op = page[w].op
        /\ page'[w].active => /\ Exists(page[w].id)
                              /\ Named(page[w].id).name = page[w].creds.name
    BY <1>t, <2>1, <2>2 DEF AccessTypeOK, Page
  <2>4. \A x \in Pages \ {w} : page'[x] = page[x]
    BY <1>t, <2>1 DEF AccessTypeOK
  <2>5. page' \in [Pages -> Page \cup {NoPage}]
    BY <1>t, <2>1, <2>3, <2>4 DEF AccessTypeOK
  <2>6. ASSUME page'[w].active
        PROVE  page[w].id < nextId /\ \A u \in users :
                 u.id = page[w].id => u.name = page[w].creds.name
    BY <1>t, <2>3, <2>6, NamedRow, NamedIs DEF IdsSpent
  <2>7. \A x \in Pages : PageOK(x)'
    BY <1>t, <2>2, <2>3, <2>4, <2>6 DEF PageOK
  <2>8. \A x \in Pages : /\ Storing(x)' <=> Storing(x)
                         /\ Storing(x) => page'[x] = page[x]
    BY <2>2, <2>3, <2>4 DEF Storing
  <2>9. (~mishap => RotatesOwn /\ \E u \in users : Backed(u))'
    <3>1. ASSUME ~mishap PROVE RotatesOwn'
      BY <3>1, <2>2, <2>3, <2>4 DEF AccessInv, RotatesOwn
    <3> QED
      BY <3>1, <2>2, <2>8 DEF AccessInv, Backed
  <2>10. AccessTypeOK'
    BY <1>t, <2>2, <2>5 DEF AccessTypeOK
  <2> QED
    BY <1>t, <2>2, <2>7, <2>9, <2>10 DEF AccessInv, RowsUnique, IdsSpent, OwnersExist, Exists
<1>5. ASSUME NEW w \in Pages, Refuse(w)
      PROVE  AccessInv'
  <2>1. Close(w) /\ ~Storing(w) /\ UNCHANGED <<users, nextId, nextKey, creds, owned, guest, mishap>>
    BY <1>5 DEF Refuse, Storing
  <2>2. OnlyCloses
    BY <2>1, CloseKeeps
  <2>3. AccessTypeOK' /\ \A x \in Pages : PageOK(x)'
    BY <1>t, <2>1, <2>2, ClosePagesOK DEF AccessTypeOK, OnlyCloses
  <2>4. (~mishap => RotatesOwn /\ \E u \in users : Backed(u))'
    BY <2>1, <2>2 DEF AccessInv, RotatesOwn, Backed, OnlyCloses, Storing
  <2> QED
    BY <1>t, <2>1, <2>3, <2>4 DEF AccessInv, RowsUnique, IdsSpent, OwnersExist, Exists
<1>r. ASSUME NEW w \in Pages, Reread(w)
      PROVE  AccessInv'
  <2>1. /\ page[w] # NoPage /\ page[w].at = "reread" /\ page[w].op = "delete"
        /\ ~page[w].active /\ page[w] \in Page
        /\ page' = [page EXCEPT ![w].at = "act", ![w].creds = creds]
        /\ UNCHANGED <<users, nextId, nextKey, creds, owned, guest, mishap>>
    BY <1>r, <1>t, <1>p DEF Reread, Guarded, PageOK
  <2>2. /\ page'[w] \in Page /\ page'[w].at = "act" /\ page'[w].creds = creds
        /\ page'[w].op = "delete" /\ ~page'[w].active
    BY <1>t, <2>1 DEF AccessTypeOK, Page
  <2>3. \A x \in Pages \ {w} : page'[x] = page[x]
    BY <1>t, <2>1 DEF AccessTypeOK
  <2>4. page' \in [Pages -> Page \cup {NoPage}]
    BY <1>t, <2>1, <2>2, <2>3 DEF AccessTypeOK
  <2>5. \A x \in Pages : PageOK(x)'
    BY <1>t, <2>1, <2>2, <2>3 DEF PageOK
  <2>6. \A x \in Pages : /\ Storing(x)' <=> Storing(x)
                         /\ Storing(x) => page'[x] = page[x]
    BY <2>1, <2>2, <2>3 DEF Storing
  <2>7. (~mishap => RotatesOwn /\ \E u \in users : Backed(u))'
    <3>1. ASSUME ~mishap PROVE RotatesOwn'
      BY <3>1, <2>1, <2>2, <2>3 DEF AccessInv, RotatesOwn
    <3>2. UNCHANGED <<users, creds, mishap>>
      BY <2>1
    <3> QED
      BY <3>1, <3>2, <2>6 DEF AccessInv, Backed
  <2>8. AccessTypeOK'
    BY <1>t, <2>1, <2>4 DEF AccessTypeOK
  <2> QED
    BY <1>t, <2>1, <2>5, <2>7, <2>8 DEF AccessInv, RowsUnique, IdsSpent, OwnersExist, Exists
<1>6. ASSUME NEW w \in Pages, DeleteUser(w)
      PROVE  AccessInv'
  <2> DEFINE id == page[w].id
  <2>0. ~page[w].active
    BY <1>6, <1>t DEF DeleteUser, Acts, PageOK
  <2>1. /\ Close(w) /\ ~Storing(w) /\ Exists(id) /\ ~page[w].active
        /\ users' = IF id \in owned THEN users ELSE users \ {Named(id)}
        /\ mishap' \in BOOLEAN /\ (~mishap' => ~mishap /\ ~OwnUser(w))
        /\ UNCHANGED <<nextId, nextKey, creds, owned, guest>>
    BY <1>6, <2>0 DEF DeleteUser, Acts, Storing
  <2>2. OnlyCloses
    BY <2>1, CloseKeeps
  <2>3. users' \subseteq users
    BY <2>1
  <2>4. OwnersExist'
    BY <1>t, <2>1, NamedRow DEF OwnersExist, Exists
  <2>5. AccessTypeOK' /\ RowsUnique' /\ IdsSpent'
    BY <1>t, <2>1, <2>2, <2>3 DEF AccessTypeOK, RowsUnique, IdsSpent, OnlyCloses
  <2>6. \A x \in Pages : PageOK(x)'
    BY <2>1, <2>2, <2>3, ClosePagesOK
  <2>7. ASSUME ~mishap'
        PROVE  RotatesOwn' /\ \E u \in users' : Backed(u)'
    <3>1. PICK u \in users : Backed(u)
      BY <2>1, <2>7 DEF AccessInv
    <3>2. u # Named(id)
      BY <2>1, <2>7, <3>1, OthersBack DEF Backed
    <3>3. u \in users'
      BY <2>1, <3>2
    <3> QED
      BY <2>1, <2>2, <2>7, <3>1, <3>3 DEF AccessInv, RotatesOwn, Backed, OnlyCloses, Storing
  <2> QED
    BY <2>4, <2>5, <2>6, <2>7 DEF AccessInv
<1>7. ASSUME NEW w \in Pages, Demote(w)
      PROVE  AccessInv'
  <2> DEFINE v == [Named(page[w].id) EXCEPT !.admin = FALSE]
  <2>1. /\ Close(w) /\ ~Storing(w) /\ Exists(page[w].id) /\ Replace(page[w].id, v)
        /\ mishap' \in BOOLEAN /\ (~mishap' => ~mishap /\ ~OwnUser(w))
        /\ UNCHANGED <<nextId, nextKey, creds, owned, guest>>
    BY <1>7 DEF Demote, Acts, Storing, Guarded
  <2>2. v \in User /\ v.id = page[w].id /\ v.name = Named(page[w].id).name
    <3>1. Named(page[w].id) \in User /\ Named(page[w].id).id = page[w].id
      BY <2>1, <1>n, NamedRow
    <3> QED
      BY <3>1 DEF User
  <2>3. nextKey' \in 1 .. MaxKey + 1
    BY <1>t, <2>1 DEF AccessTypeOK
  <2> HIDE DEF v
  <2> QED
    BY <2>1, <2>2, <2>3, HitKeeps
<1>8. ASSUME NEW w \in Pages, DisableUser(w)
      PROVE  AccessInv'
  <2> DEFINE v == [Named(page[w].id) EXCEPT !.enabled = FALSE]
  <2>1. /\ Close(w) /\ ~Storing(w) /\ Exists(page[w].id) /\ Replace(page[w].id, v)
        /\ mishap' \in BOOLEAN /\ (~mishap' => ~mishap /\ ~OwnUser(w))
        /\ UNCHANGED <<nextId, nextKey, creds, owned, guest>>
    BY <1>8 DEF DisableUser, Acts, Storing
  <2>2. v \in User /\ v.id = page[w].id /\ v.name = Named(page[w].id).name
    <3>1. Named(page[w].id) \in User /\ Named(page[w].id).id = page[w].id
      BY <2>1, <1>n, NamedRow
    <3> QED
      BY <3>1 DEF User
  <2>3. nextKey' \in 1 .. MaxKey + 1
    BY <1>t, <2>1 DEF AccessTypeOK
  <2> HIDE DEF v
  <2> QED
    BY <2>1, <2>2, <2>3, HitKeeps
<1>9. ASSUME NEW w \in Pages, Rotate(w)
      PROVE  AccessInv'
  <2> DEFINE id == page[w].id
             v == [Named(id) EXCEPT !.key = nextKey]
  <2>1. /\ page[w] # NoPage /\ page[w].at = "act" /\ page[w].op = "rotate" /\ page[w] \in Page
        /\ Exists(id) /\ nextKey \in Keys /\ Replace(id, v)
        /\ nextKey' = nextKey + 1 /\ UNCHANGED <<nextId, creds, owned, guest>>
        /\ mishap' \in BOOLEAN
        /\ ~mishap' => ~mishap /\ (OwnUser(w) => page[w].active /\ \A x \in Pages : ~Storing(x))
    BY <1>9, <1>p DEF Rotate, Acts
  <2>2. /\ Named(id) \in users /\ v \in User /\ v.id = id /\ v.name = Named(id).name
        /\ v.key = nextKey /\ v.enabled = Named(id).enabled /\ v.admin = Named(id).admin
    BY <2>1, <1>n, NamedRow DEF User
  <2> HIDE DEF v
  <2>3. KeepsUser(v, id)
    BY <2>1, <2>2, ReplaceKeeps
  <2>4. nextKey' \in 1 .. MaxKey + 1
    BY <1>n, <2>1 DEF Keys
  <2>5. ~Storing(w)
    BY <2>1 DEF Storing
  <2>6. CASE ~page[w].active
    <3>1. Close(w) /\ (~mishap' => ~mishap /\ ~OwnUser(w))
      BY <1>9, <2>1, <2>6 DEF Rotate
    <3> QED
      BY <2>1, <2>2, <2>4, <2>5, <3>1, HitKeeps
  <2>7. CASE page[w].active
    <3>1. page' = [page EXCEPT ![w].at = "store", ![w].key = nextKey]
      BY <1>9, <2>7 DEF Rotate
    <3>2. /\ page'[w] \in Page /\ page'[w].at = "store" /\ page'[w].key = nextKey
          /\ page'[w].id = id /\ page'[w].creds = page[w].creds /\ page'[w].op = "rotate"
          /\ page'[w].active = page[w].active
      BY <1>t, <2>1, <3>1 DEF AccessTypeOK, Page
    <3>3. \A x \in Pages \ {w} : page'[x] = page[x]
      BY <1>t, <3>1 DEF AccessTypeOK
    <3>4. page' \in [Pages -> Page \cup {NoPage}]
      BY <1>t, <3>1, <3>2, <3>3 DEF AccessTypeOK
    <3>5. AccessTypeOK'
      BY <1>t, <2>1, <2>3, <2>4, <3>4 DEF AccessTypeOK, KeepsUser
    <3>6. \A x \in Pages : PageOK(x)'
      <4>1. PageOK(w)'
        BY <1>t, <2>1, <2>3, <3>2 DEF PageOK, KeepsUser
      <4>2. ASSUME NEW x \in Pages \ {w} PROVE PageOK(x)'
        BY <1>t, <2>1, <2>3, <3>3 DEF PageOK, KeepsUser
      <4> QED
        BY <4>1, <4>2
    <3>7. ASSUME ~mishap'
          PROVE  RotatesOwn' /\ \E u \in users' : Backed(u)'
      <4>1. RotatesOwn
        BY <2>1, <3>7 DEF AccessInv
      <4>2. OwnUser(w)
        <5>1. Named(id).name = page[w].creds.name
          BY <1>t, <2>1, <2>2, <2>7, NamedRow DEF PageOK
        <5> QED
          BY <2>1, <4>1, <5>1 DEF OwnUser, RotatesOwn
      <4>3. \A x \in Pages : Storing(x)' <=> x = w
        BY <2>1, <3>2, <3>3, <3>7, <4>2, NoPageAssumption DEF Storing
      <4>4. PICK u \in users : Backed(u)
        BY <2>1, <3>7 DEF AccessInv
      <4>5. u = Named(id)
        BY <1>t, <2>2, <4>2, <4>4 DEF RowsUnique, Backed, OwnUser
      <4>6. \E x \in users' : Backed(x)'
        <5>1. v.name = creds'.name /\ v.enabled /\ v.admin
          BY <2>1, <2>2, <4>4, <4>5 DEF Backed
        <5>2. v \in users' /\ \A x \in Pages : Storing(x)' => v.key = page'[x].key
          BY <2>2, <2>3, <3>2, <4>3 DEF KeepsUser
        <5>3. Storing(w)'
          BY <4>3
        <5> QED
          BY <5>1, <5>2, <5>3 DEF Backed
      <4>7. RotatesOwn'
        BY <2>1, <3>2, <3>3, <4>1 DEF RotatesOwn
      <4> QED
        BY <4>6, <4>7
    <3> QED
      BY <2>1, <2>3, <3>5, <3>6, <3>7, KeptOwners DEF AccessInv, KeepsUser
  <2> QED
    BY <2>6, <2>7
<1>10. ASSUME NEW w \in Pages, StoreKey(w)
       PROVE  AccessInv'
  <2>1. /\ Storing(w) /\ Close(w) /\ page[w] \in Page /\ page[w] # NoPage
        /\ creds' = [name |-> page[w].creds.name, key |-> page[w].key]
        /\ mishap' \in BOOLEAN /\ (~mishap' => ~mishap)
        /\ UNCHANGED <<users, nextId, nextKey, owned, guest>>
    BY <1>10, <1>p DEF StoreKey, Storing
  <2>2. page' = [page EXCEPT ![w] = NoPage]
    BY <2>1 DEF Close
  <2>3. page'[w] = NoPage /\ \A x \in Pages \ {w} : page'[x] = page[x]
    BY <1>t, <2>2 DEF AccessTypeOK
  <2>4. \A x \in Pages : PageOK(x)'
    BY <1>t, <2>1, <2>3 DEF PageOK
  <2>5. ASSUME ~mishap'
        PROVE  RotatesOwn' /\ \E u \in users' : Backed(u)'
    <3>1. PICK u \in users : Backed(u)
      BY <2>1, <2>5 DEF AccessInv
    <3>2. page[w].creds.name = creds.name
      BY <1>t, <2>1, <2>5 DEF AccessInv, RotatesOwn, PageOK, Storing
    <3>3. creds'.name = creds.name /\ creds'.key = u.key
      BY <2>1, <3>1, <3>2 DEF Backed
    <3> QED
      BY <2>1, <2>3, <2>5, <3>1, <3>3 DEF AccessInv, RotatesOwn, Backed, Storing
  <2>6. creds' \in Creds
    BY <1>t, <2>1 DEF PageOK, Storing, Page, Creds
  <2>7. AccessTypeOK'
    BY <1>t, <2>1, <2>2, <2>6 DEF AccessTypeOK
  <2> QED
    BY <1>t, <2>1, <2>4, <2>5, <2>7 DEF AccessInv, RowsUnique, IdsSpent, OwnersExist, Exists
<1>11. ASSUME NEW w \in Pages, PageLost(w)
       PROVE  AccessInv'
  <2>1. /\ Close(w) /\ mishap' \in BOOLEAN /\ (~mishap' => ~mishap /\ ~Storing(w))
        /\ UNCHANGED <<users, nextId, nextKey, creds, owned, guest>>
    BY <1>11 DEF PageLost
  <2>2. page' \in [Pages -> Page \cup {NoPage}] /\ \A x \in Pages : page'[x] # NoPage => page'[x] = page[x]
    BY <1>t, <2>1 DEF AccessTypeOK, Close
  <2>3. AccessTypeOK' /\ \A x \in Pages : PageOK(x)'
    BY <1>t, <2>1, <2>2 DEF AccessTypeOK, PageOK
  <2>4. ASSUME ~mishap'
        PROVE  RotatesOwn' /\ \E u \in users' : Backed(u)'
    <3>1. OnlyCloses /\ ~mishap
      BY <2>1, <2>4, CloseKeeps
    <3> QED
      BY <2>1, <3>1 DEF AccessInv, RotatesOwn, Backed, OnlyCloses, Storing
  <2> QED
    BY <1>t, <2>1, <2>3, <2>4 DEF AccessInv, RowsUnique, IdsSpent, OwnersExist, Exists
<1>12. ASSUME NEW u \in users, SaveConfig(u)
       PROVE  AccessInv'
  <2>1. /\ creds' = [name |-> u.name, key |-> u.key] /\ u.admin /\ u.enabled
        /\ mishap' \in BOOLEAN
        /\ ~mishap' => ~mishap /\ \A w \in Pages : page[w] = NoPage \/ page[w].op # "rotate"
        /\ UNCHANGED <<users, nextId, nextKey, page, owned, guest>>
    BY <1>12 DEF SaveConfig
  <2>2. AccessTypeOK'
    BY <1>t, <1>n, <2>1 DEF AccessTypeOK, User, Creds
  <2>3. \A w \in Pages : PageOK(w)'
    BY <1>t, <2>1 DEF PageOK
  <2>4. ASSUME ~mishap'
        PROVE  RotatesOwn' /\ Backed(u)'
    BY <1>t, <2>1, <2>4 DEF RotatesOwn, Backed, Storing, PageOK
  <2> QED
    BY <1>t, <2>1, <2>2, <2>3, <2>4 DEF AccessInv, RowsUnique, IdsSpent, OwnersExist, Exists
<1>13. CASE Serve
  <2>1. /\ UNCHANGED <<users, nextId, nextKey, creds, page, mishap>>
        /\ owned' \subseteq UserIds /\ guest' \subseteq UserIds
        /\ \A id \in owned' : id \in owned \/ Exists(id)
    BY <1>13, <1>t, <1>n DEF Serve, Arrive, StoreOwned, Disown, OwnerExists, AccessTypeOK
  <2>2. AccessTypeOK'
    BY <1>t, <2>1 DEF AccessTypeOK
  <2>3. OwnersExist'
    BY <1>t, <2>1 DEF OwnersExist, Exists
  <2> QED
    BY <2>1, <2>2, <2>3 DEF AccessInv, RowsUnique, IdsSpent, PageOK, RotatesOwn, Backed, Storing
<1>14. CASE UNCHANGED accessVars
  BY <1>14 DEF accessVars, AccessInv, AccessTypeOK, RowsUnique, IdsSpent, OwnersExist, Exists,
               PageOK, RotatesOwn, Backed, Storing
<1> QED
  BY <1>1, <1>2, <1>3, <1>4, <1>5, <1>r, <1>6, <1>7, <1>8, <1>9, <1>10, <1>11, <1>12, <1>13, <1>14
     DEF AccessNext, Manage

LEMMA AccessInvHolds == AccessSpec => []AccessInv
BY InitAccessInv, NextAccessInv, PTL DEF AccessSpec

\* The frontend keeps credentials that work, for any number of users and admin
\* pages in flight, unless one of the named mishaps was met.
THEOREM AccessKept == AccessSpec => []FrontendKeepsAccess
<1>1. AccessInv => FrontendKeepsAccess
  BY DEF AccessInv, FrontendKeepsAccess, Backed, Authorized, Verifies
<1> QED
  BY <1>1, AccessInvHolds, PTL

\* No file or job ever loses its owner, for any number of users and uploads in
\* flight.
THEOREM OwnersAlwaysExist == AccessSpec => []OwnersExist
<1>1. AccessInv => OwnersExist
  BY DEF AccessInv
<1> QED
  BY <1>1, AccessInvHolds, PTL
-----------------------------------------------------------------------------
(* ReportSession.                                                          *)

\* A finite set of numbers has a largest one: otherwise the sets of the larger
\* ones would shrink for ever.
LEMMA MaxIsIn ==
    ASSUME NEW S, S \subseteq Nat, IsFiniteSet(S), S # {}
    PROVE  Max(S) \in S
<1> DEFINE Above(x) == {y \in S : y > x}
           T == {Above(x) : x \in S}
<1>1. T \subseteq FiniteSubsetsOf(S) /\ T # {}
  <2>1. FiniteSubsetsOf(S) = SUBSET S
    BY FS_FiniteSubsetsOfFinite
  <2>2. T \subseteq SUBSET S /\ T # {}
    OBVIOUS
  <2> HIDE DEF T
  <2> QED
    BY <2>1, <2>2
<1>2. PICK A \in T : \A B \in T : <<B, A>> \notin StrictSubsetOrdering(S)
  <2> HIDE DEF T
  <2> QED
    BY <1>1, WFMin, FS_StrictSubsetOrderingWellFounded
<1>3. PICK x \in S : A = Above(x)
  BY <1>2
<1>4. ASSUME NEW z \in S, z > x
      PROVE  FALSE
  <2>1. z \in Nat /\ x \in Nat
    OBVIOUS
  <2>2. Above(z) \subseteq A
    <3>1. \A y \in S : y > z => y > x
      BY <1>4, <2>1
    <3> QED
      BY <1>3, <3>1
  <2>3. z \in A /\ z \notin Above(z)
    <3>1. ~(z > z)
      BY <2>1
    <3> QED
      BY <1>3, <1>4, <3>1
  <2>4. Above(z) \in T /\ Above(z) \in SUBSET S /\ A \in SUBSET S
    BY <1>3
  <2> HIDE DEF T, Above
  <2>5. <<Above(z), A>> \in StrictSubsetOrdering(S)
    BY <2>2, <2>3, <2>4 DEF StrictSubsetOrdering
  <2> QED
    BY <1>2, <2>4, <2>5
<1>5. \A y \in S : x >= y
  BY <1>4
<1> QED
  BY <1>5 DEF Max

\* What a copy c of the session says agrees with the jobs, the reports and the
\* counter of their ids.
CopyFits(c, js, rs, last) ==
    /\ c.job # 0 => c.job \in DOMAIN js /\ js[c.job].file = c.file
    /\ c.result # 0 => c.result \in DOMAIN js /\ js[c.result].file = c.file
    /\ c.saved <= last
    /\ c.result # 0 /\ c.saved \in Ids /\ rs[c.saved] # NoRow =>
         rs[c.saved].job = c.result

\* What a request holds at its step.
StepFits(t, r, rs, w) ==
    /\ r.at = "fetch" => r.copy.job # 0
    /\ r.at \in {"save", "insert"} => r.copy.result # 0
    /\ r.at \in {"insert", "write"} => w = t
    /\ r.at = "insert" => r.read = Cardinality({i \in Ids : rs[i] # NoRow})
    /\ r.at = "write" => /\ r.new \in Edits /\ r.id \in Ids /\ rs[r.id] # NoRow
                         /\ r.read = rs[r.id].text

RowFits(row, js) == row.job \in DOMAIN js /\ row.file = js[row.job].file

ReportInv ==
    /\ ReportTypeOK
    /\ \A i \in Saved : i <= lastId /\ RowFits(reports[i], jobs)
    /\ CopyFits(session, jobs, reports, lastId)
    /\ \A t \in Tabs : request[t] # Idle =>
         /\ CopyFits(request[t].copy, jobs, reports, lastId)
         /\ StepFits(t, request[t], reports, writer)

\* Jobs are only appended and keep their file; a new report takes a new id and
\* no report changes its job.
Grows ==
    /\ \A j \in DOMAIN jobs : j \in DOMAIN jobs' /\ jobs'[j].file = jobs[j].file
    /\ lastId \in Nat /\ lastId' \in Nat /\ lastId <= lastId'
    /\ \A i \in Ids : reports'[i] # NoRow /\ i <= lastId =>
         reports[i] # NoRow /\ reports'[i].job = reports[i].job

LEMMA CopyStable ==
    ASSUME Grows
    PROVE  \A c \in Session : CopyFits(c, jobs, reports, lastId) =>
                              CopyFits(c, jobs', reports', lastId')
BY SessionAssumption DEF Grows, CopyFits, Session, Ids

LEMMA SavedFinite ==
    /\ IsFiniteSet(Saved) /\ Cardinality(Saved) \in Nat
    /\ Saved \subseteq Nat
<1>1. MaxIds \in Nat
  BY SessionAssumption
<1>2. IsFiniteSet(Ids) /\ Saved \subseteq Ids /\ Ids \subseteq Nat
  BY <1>1, FS_Interval DEF Ids, Saved
<1> QED
  BY <1>2, FS_Subset, FS_CardinalityType

LEMMA InitReportInv == ReportInit => ReportInv
<1> SUFFICES ASSUME ReportInit
             PROVE  ReportInv
  OBVIOUS
<1>1. MaxFiles \in Nat /\ MaxJobs \in Nat /\ MaxIds \in Nat
  BY SessionAssumption
<1>2. session \in Session
  BY <1>1 DEF ReportInit, Session
<1>3. editor \in [Tabs -> Editor]
  BY <1>1 DEF ReportInit, Editor, Closed
<1>4. /\ request \in [Tabs -> Request \cup {Idle}] /\ \A t \in Tabs : request[t] = Idle
      /\ polling \in [Tabs -> BOOLEAN]
      /\ reports \in [Ids -> Row \cup {NoRow}] /\ Saved = {}
  BY DEF ReportInit, Saved
<1>5. jobs \in Seq([file : Files, status : {"active", "done", "error", "gone"}])
  BY DEF ReportInit
<1>6. uploads \in 0 .. MaxFiles /\ lastId \in 0 .. MaxIds
  BY <1>1 DEF ReportInit
<1>7. ReportTypeOK
  BY <1>2, <1>3, <1>4, <1>5, <1>6 DEF ReportTypeOK, ReportInit
<1>8. CopyFits(session, jobs, reports, lastId)
  BY DEF ReportInit, CopyFits, Ids
<1> QED
  BY <1>4, <1>7, <1>8 DEF ReportInv

\* A step that changes the request of one tab, and what that tab may change.
LEMMA TabStep ==
    ASSUME ReportInv, ReportTypeOK', NEW t \in Tabs, NEW r \in Request \cup {Idle},
           request' = [request EXCEPT ![t] = r], Grows,
           CopyFits(session', jobs', reports', lastId'),
           r # Idle => /\ CopyFits(r.copy, jobs', reports', lastId')
                       /\ StepFits(t, r, reports', writer'),
           \A u \in Tabs \ {t} : writer = u => writer' = u /\ reports' = reports,
           \A i \in Saved' : i <= lastId' /\ RowFits(reports'[i], jobs')
    PROVE  ReportInv'
<1>1. request'[t] = r /\ \A u \in Tabs \ {t} : request'[u] = request[u]
  BY DEF ReportInv, ReportTypeOK
<1>2. ASSUME NEW u \in Tabs \ {t}, request[u] # Idle
      PROVE  /\ CopyFits(request[u].copy, jobs', reports', lastId')
             /\ StepFits(u, request[u], reports', writer')
  <2>1. request[u].copy \in Session
    BY <1>2 DEF ReportInv, ReportTypeOK, Request
  <2>2. CopyFits(request[u].copy, jobs, reports, lastId) /\ StepFits(u, request[u], reports, writer)
    BY <1>2 DEF ReportInv
  <2>3. CopyFits(request[u].copy, jobs', reports', lastId')
    BY <2>1, <2>2, CopyStable
  <2>4. StepFits(u, request[u], reports', writer')
    BY <2>2 DEF StepFits
  <2> QED
    BY <2>3, <2>4
<1>3. ASSUME NEW u \in Tabs, request'[u] # Idle
      PROVE  /\ CopyFits(request'[u].copy, jobs', reports', lastId')
             /\ StepFits(u, request'[u], reports', writer')
  BY <1>1, <1>2, <1>3
<1> QED
  BY <1>3 DEF ReportInv

\* Most handlers only move the request on or answer it.
LEMMA MoveStep ==
    ASSUME ReportInv, NEW t \in Tabs, NEW r \in Request,
           request' = [request EXCEPT ![t] = r],
           UNCHANGED <<uses, session, polling, jobs, dbVars>>,
           editor' \in [Tabs -> Editor], uploads' \in 0 .. MaxFiles,
           CopyFits(r.copy, jobs, reports, lastId), StepFits(t, r, reports, writer)
    PROVE  ReportInv'
<1>1. ReportTypeOK'
  BY DEF ReportInv, ReportTypeOK, dbVars
<1>2. Grows
  BY SessionAssumption DEF ReportInv, ReportTypeOK, Grows, dbVars
<1>3. \A i \in Saved' : i <= lastId' /\ RowFits(reports'[i], jobs')
  BY DEF ReportInv, Saved, dbVars
<1>4. CopyFits(session', jobs', reports', lastId')
  BY DEF ReportInv, dbVars
<1> QED
  BY <1>1, <1>2, <1>3, <1>4, TabStep DEF dbVars

Answered(c, stay) ==
    [kind |-> "any", at |-> "answer", copy |-> c, stay |-> stay,
     id |-> 0, new |-> 0, read |-> 0]

LEMMA AnsweredFits ==
    ASSUME NEW c \in Session, NEW stay \in BOOLEAN, NEW t, NEW rs, NEW w
    PROVE  /\ Answered(c, stay) \in Request /\ Answered(c, stay).copy = c
           /\ Answered(c, stay).at = "answer"
           /\ StepFits(t, Answered(c, stay), rs, w)
<1>1. Answered(c, stay) \in Request
  BY SessionAssumption DEF Answered, Request, Step
<1> QED
  BY <1>1 DEF Answered, StepFits

LEMMA AnswerStep ==
    ASSUME ReportInv, NEW t \in Tabs, NEW c \in Session, NEW stay \in BOOLEAN,
           AnswerWith(t, c, stay),
           UNCHANGED <<uses, session, polling, jobs, dbVars>>,
           editor' \in [Tabs -> Editor], uploads' \in 0 .. MaxFiles,
           CopyFits(c, jobs, reports, lastId)
    PROVE  ReportInv'
<1>1. request' = [request EXCEPT ![t] = Answered(c, stay)]
  BY DEF AnswerWith, Answered
<1> QED
  BY <1>1, AnsweredFits, MoveStep

\* Steps of the backend and of the database: no request moves.
LEMMA StillStep ==
    ASSUME ReportInv, ReportTypeOK', Grows, UNCHANGED <<session, request, writer>>,
           \A u \in Tabs : writer = u => reports' = reports,
           \A i \in Saved' : i <= lastId' /\ RowFits(reports'[i], jobs')
    PROVE  ReportInv'
<1>1. CopyFits(session, jobs', reports', lastId')
  BY CopyStable DEF ReportInv, ReportTypeOK
<1>2. ASSUME NEW u \in Tabs, request[u] # Idle
      PROVE  /\ CopyFits(request[u].copy, jobs', reports', lastId')
             /\ StepFits(u, request[u], reports', writer')
  <2>1. request[u].copy \in Session
    BY <1>2 DEF ReportInv, ReportTypeOK, Request
  <2>2. CopyFits(request[u].copy, jobs, reports, lastId) /\ StepFits(u, request[u], reports, writer)
    BY <1>2 DEF ReportInv
  <2>3. CopyFits(request[u].copy, jobs', reports', lastId')
    BY <2>1, <2>2, CopyStable
  <2>4. StepFits(u, request[u], reports', writer')
    BY <2>2 DEF StepFits
  <2> QED
    BY <2>3, <2>4
<1> QED
  BY <1>1, <1>2 DEF ReportInv

\* What a copy of the session looks like after the edits the handlers make.
LEMMA ClearedFits ==
    ASSUME ReportInv, NEW c \in Session, CopyFits(c, jobs, reports, lastId)
    PROVE  Cleared(c) \in Session /\ CopyFits(Cleared(c), jobs, reports, lastId)
<1>1. /\ Cleared(c) \in Session /\ Cleared(c).job = 0 /\ Cleared(c).result = 0
      /\ Cleared(c).saved = c.saved
  <2>1. 0 \in 0 .. MaxFiles /\ 0 \in 0 .. MaxJobs
    BY SessionAssumption
  <2> QED
    BY <2>1 DEF Cleared, Session
<1> QED
  BY <1>1 DEF CopyFits

LEMMA DroppedFits ==
    ASSUME ReportInv, NEW c \in Session, CopyFits(c, jobs, reports, lastId)
    PROVE  LET d == [c EXCEPT !.job = 0]
           IN  d \in Session /\ CopyFits(d, jobs, reports, lastId)
BY SessionAssumption DEF Session, CopyFits

\* The report that stands for the result of a copy is a report of that result.
LEMMA SavedIdFits ==
    ASSUME ReportInv, NEW c \in Session, c.result # 0,
           CopyFits(c, jobs, reports, lastId)
    PROVE  LET d == [c EXCEPT !.saved = SavedId(c)]
           IN  /\ SavedId(c) \in 0 .. MaxIds
               /\ d \in Session /\ CopyFits(d, jobs, reports, lastId)
<1> DEFINE Own == {i \in Saved : reports[i].job = c.result}
           S == {0} \cup Own
           d == [c EXCEPT !.saved = SavedId(c)]
<1>t. /\ lastId \in Nat /\ MaxIds \in Nat /\ lastId <= MaxIds
      /\ \A i \in Saved : i \in Nat /\ i <= lastId
  BY SessionAssumption, SavedFinite DEF ReportInv, ReportTypeOK
<1>1. CASE c.saved # 0
  <2>1. SavedId(c) = c.saved
    BY <1>1 DEF SavedId
  <2> QED
    BY <2>1 DEF Session, CopyFits
<1>2. CASE c.saved = 0
  <2>1. SavedId(c) = Max(S)
    BY <1>2 DEF SavedId
  <2>2. S \subseteq Nat /\ IsFiniteSet(S)
    <3>1. IsFiniteSet(Own) /\ Own \subseteq Nat
      BY SavedFinite, FS_Subset
    <3> HIDE DEF Own
    <3>2. IsFiniteSet(Own \cup {0}) /\ Own \cup {0} = S
      BY <3>1, FS_AddElement
    <3> QED
      BY <3>1, <3>2
  <2>3. Max(S) \in S
    BY <2>2, MaxIsIn
  <2>4. /\ SavedId(c) \in 0 .. MaxIds /\ SavedId(c) <= lastId
        /\ SavedId(c) \in Ids => reports[SavedId(c)].job = c.result
    BY <1>t, <2>1, <2>3 DEF Ids
  <2>5. /\ d \in Session /\ d.saved = SavedId(c)
        /\ d.job = c.job /\ d.result = c.result /\ d.file = c.file
    BY <2>4 DEF Session
  <2> HIDE DEF d
  <2> QED
    BY <2>4, <2>5 DEF CopyFits, d
<1> QED
  BY <1>1, <1>2, <1>t DEF Session

\* An edit changes a text and nothing else of the rows.
LEMMA EditKeepsRows ==
    ASSUME ReportTypeOK, NEW t \in Tabs, EditCommit(t), StepFits(t, request[t], reports, writer),
           request[t].at = "write"
    PROVE  /\ reports' \in [Ids -> Row \cup {NoRow}]
           /\ \A i \in Ids : reports'[i] # NoRow =>
                /\ reports[i] # NoRow /\ reports'[i].job = reports[i].job
                /\ reports'[i].file = reports[i].file
           /\ \A i \in Ids : reports[i] # NoRow => reports'[i] # NoRow
           /\ \A i \in Ids : reports'[i] # reports[i] => i = request[t].id /\ Unchanged(t)
<1> USE MarkersAssumption
<1> DEFINE id == request[t].id
           row == [reports[id] EXCEPT !.text = request[t].new]
<1>1. id \in Ids /\ reports[id] # NoRow /\ reports[id] \in Row /\ request[t].new \in Edits
  BY DEF ReportTypeOK, StepFits
<1>2. row \in Row /\ row # NoRow /\ row.job = reports[id].job /\ row.file = reports[id].file
  BY <1>1 DEF Row, Texts
<1>3. CASE ~Unchanged(t)
  BY <1>3 DEF EditCommit, ReportTypeOK
<1>4. CASE Unchanged(t)
  <2>1. reports' = [reports EXCEPT ![id] = row]
    BY <1>1, <1>4 DEF EditCommit
  <2> HIDE DEF row, id
  <2>2. reports'[id] = row /\ \A i \in Ids \ {id} : reports'[i] = reports[i]
    BY <1>1, <2>1 DEF ReportTypeOK
  <2>3. reports' \in [Ids -> Row \cup {NoRow}]
    BY <1>2, <2>1 DEF ReportTypeOK
  <2> QED
    BY <1>1, <1>2, <1>4, <2>2, <2>3 DEF id
<1> QED
  BY <1>3, <1>4

LEMMA NextReportInv == ReportInv /\ [ReportNext]_reportVars => ReportInv'
<1> SUFFICES ASSUME ReportInv, [ReportNext]_reportVars
             PROVE  ReportInv'
  OBVIOUS
<1> USE SessionAssumption, MarkersAssumption
<1>t. ReportTypeOK
  BY DEF ReportInv
<1>u. uses' = uses
  BY DEF ReportNext, reportVars
<1>v. \A t \in Tabs : request[t] # Idle =>
        /\ request[t] \in Request /\ Copy(t) \in Session
        /\ CopyFits(Copy(t), jobs, reports, lastId) /\ StepFits(t, request[t], reports, writer)
  BY DEF ReportInv, ReportTypeOK, Request, Copy
<1>w. session \in Session /\ CopyFits(session, jobs, reports, lastId)
  BY DEF ReportInv, ReportTypeOK
<1>x. /\ editor \in [Tabs -> Editor] /\ uploads \in 0 .. MaxFiles
      /\ request \in [Tabs -> Request \cup {Idle}]
  BY <1>t DEF ReportTypeOK
<1>1. ASSUME NEW t \in Tabs, HandleOther(t)
      PROVE  ReportInv'
  BY <1>1, <1>u, <1>w, <1>x, AnswerStep DEF HandleOther, tabVars, jobVars
<1>2. ASSUME NEW t \in Tabs, Clear(t)
      PROVE  ReportInv'
  BY <1>2, <1>u, <1>w, <1>x, AnswerStep, ClearedFits DEF Clear, tabVars, jobVars
<1>3. ASSUME NEW t \in Tabs, OpenProgress(t)
      PROVE  ReportInv'
  BY <1>3, <1>u, <1>w, <1>x, AnswerStep DEF OpenProgress, tabVars, jobVars
<1>4. ASSUME NEW t \in Tabs, ShowCurrent(t)
      PROVE  ReportInv'
  <2>1. CASE session.result = 0
    BY <1>4, <2>1, <1>u, <1>w, <1>x, AnswerStep DEF ShowCurrent, jobVars
  <2>2. CASE session.result # 0
    <3> DEFINE d == [session EXCEPT !.saved = SavedId(session)]
    <3>1. /\ AnswerWith(t, d, FALSE) /\ UNCHANGED <<session, polling, jobVars, dbVars>>
          /\ editor' = [editor EXCEPT ![t] = [current |-> TRUE, id |-> SavedId(session),
                                              text |-> Shown(session, SavedId(session))]]
      BY <1>4, <2>2 DEF ShowCurrent
    <3>2. /\ SavedId(session) \in 0 .. MaxIds
          /\ d \in Session /\ CopyFits(d, jobs, reports, lastId)
      BY <1>w, <2>2, SavedIdFits
    <3>3. Shown(session, SavedId(session)) \in {0} \cup Texts
      BY <1>t, <1>w DEF ReportTypeOK, Session, Row, Shown, Saved
    <3>4. editor' \in [Tabs -> Editor]
      BY <1>x, <3>1, <3>2, <3>3 DEF Editor
    <3> HIDE DEF d
    <3> QED
      BY <1>u, <1>x, <3>1, <3>2, <3>4, AnswerStep DEF jobVars
  <2> QED
    BY <2>1, <2>2
<1>5. ASSUME NEW t \in Tabs, NEW id \in Ids, ShowSaved(t, id)
      PROVE  ReportInv'
  <2>1. reports[id].text \in {0} \cup Texts /\ id \in 0 .. MaxIds
    BY <1>5, <1>t DEF ShowSaved, ReportTypeOK, Row, Saved, Ids
  <2>2. editor' \in [Tabs -> Editor]
    BY <1>5, <1>x, <2>1 DEF ShowSaved, Editor
  <2> QED
    BY <1>5, <1>u, <1>w, <1>x, <2>2, AnswerStep DEF ShowSaved, jobVars
<1>6. ASSUME NEW t \in Tabs, NEW k \in Kind, Begin(t, k)
      PROVE  ReportInv'
  <2> DEFINE r == [kind |-> k, at |-> "handle", copy |-> session, stay |-> FALSE,
                   id |-> 0, new |-> 0, read |-> 0]
  <2>1. r \in Request
    BY <1>w DEF Request, Step
  <2>2. /\ request' = [request EXCEPT ![t] = r]
        /\ UNCHANGED <<session, tabVars, jobVars, dbVars>>
    BY <1>6 DEF Begin
  <2>3. StepFits(t, r, reports, writer) /\ r.copy = session
    BY DEF StepFits
  <2> HIDE DEF r
  <2> QED
    BY <1>u, <1>w, <1>x, <2>1, <2>2, <2>3, MoveStep DEF tabVars, jobVars
<1>7. ASSUME NEW t \in Tabs, End(t)
      PROVE  ReportInv'
  <2>1. /\ request[t] # Idle /\ session' = Copy(t)
        /\ polling' = [polling EXCEPT ![t] = request[t].stay]
        /\ request' = [request EXCEPT ![t] = Idle]
        /\ UNCHANGED <<editor, jobVars, dbVars>>
    BY <1>7 DEF End, At
  <2>2. request[t].stay \in BOOLEAN /\ Copy(t) \in Session
    BY <1>v, <2>1 DEF Request
  <2>3. ReportTypeOK'
    BY <1>t, <1>u, <2>1, <2>2 DEF ReportTypeOK, jobVars, dbVars
  <2>4. Grows
    BY <1>t, <2>1 DEF ReportTypeOK, Grows, jobVars, dbVars
  <2>5. \A i \in Saved' : i <= lastId' /\ RowFits(reports'[i], jobs')
    BY <2>1 DEF ReportInv, Saved, jobVars, dbVars
  <2> QED
    BY <1>v, <2>1, <2>3, <2>4, <2>5, TabStep DEF jobVars, dbVars
<1>8. ASSUME NEW t \in Tabs, Killed(t)
      PROVE  ReportInv'
  <2>1. /\ request' = [request EXCEPT ![t] = Idle]
        /\ polling' = [polling EXCEPT ![t] = FALSE]
        /\ editor' = [editor EXCEPT ![t] = Closed]
        /\ writer' = IF writer = t THEN NoTab ELSE writer
        /\ UNCHANGED <<session, jobVars, reports, lastId, limit>>
    BY <1>8 DEF Killed
  <2>2. Closed \in Editor
    BY DEF Closed, Editor
  <2>3. ReportTypeOK'
    BY <1>t, <1>u, <2>1, <2>2 DEF ReportTypeOK, jobVars
  <2>4. Grows
    BY <1>t, <2>1 DEF ReportTypeOK, Grows, jobVars
  <2>5. \A i \in Saved' : i <= lastId' /\ RowFits(reports'[i], jobs')
    BY <2>1 DEF ReportInv, Saved, jobVars
  <2> QED
    BY <1>w, <2>1, <2>3, <2>4, <2>5, TabStep DEF jobVars
<1>9. ASSUME NEW t \in Tabs, Leave(t)
      PROVE  ReportInv'
  BY <1>9, <1>u DEF Leave, ReportInv, ReportTypeOK, Saved, jobVars, dbVars
<1>10. ASSUME NEW t \in Tabs, Upload(t)
       PROVE  ReportInv'
  <2>1. /\ Copy(t) \in Session /\ CopyFits(Copy(t), jobs, reports, lastId)
        /\ UNCHANGED <<session, tabVars, jobs, dbVars>>
    BY <1>10, <1>v DEF Upload, Handles, At
  <2>2. CASE AnswerWith(t, Cleared(Copy(t)), FALSE) /\ UNCHANGED uploads
    BY <1>u, <1>x, <2>1, <2>2, AnswerStep, ClearedFits DEF tabVars
  <2>3. CASE /\ uploads < uses.files /\ uploads' = uploads + 1
             /\ AnswerWith(t, [Cleared(Copy(t)) EXCEPT !.file = uploads + 1], FALSE)
    <3> DEFINE d == [Cleared(Copy(t)) EXCEPT !.file = uploads + 1]
    <3>1. uploads + 1 \in 1 .. MaxFiles
      <4>1. uses.files \in 0 .. MaxFiles
        BY <1>t DEF ReportTypeOK
      <4> QED
        BY <1>x, <2>3, <4>1
    <3>2. /\ d \in Session /\ d.job = 0 /\ d.result = 0 /\ d.saved = Copy(t).saved
      <4>1. 0 \in 0 .. MaxJobs /\ uploads + 1 \in 0 .. MaxFiles
        BY <3>1
      <4> QED
        BY <2>1, <4>1 DEF Cleared, Session
    <3>3. CopyFits(d, jobs, reports, lastId)
      BY <2>1, <3>2 DEF CopyFits
    <3>4. AnswerWith(t, d, FALSE) /\ uploads' \in 0 .. MaxFiles
      <4>1. uploads' = uploads + 1
        BY <2>3
      <4>2. uploads' \in 0 .. MaxFiles
        BY <3>1, <4>1
      <4> QED
        BY <2>3, <4>2
    <3> HIDE DEF d
    <3> QED
      BY <1>u, <1>x, <2>1, <3>2, <3>3, <3>4, AnswerStep DEF tabVars
  <2> QED
    BY <1>10, <2>2, <2>3 DEF Upload
<1>12. ASSUME NEW t \in Tabs, PollAnswered(t)
       PROVE  ReportInv'
  <2>1. /\ Copy(t) \in Session /\ CopyFits(Copy(t), jobs, reports, lastId)
        /\ UNCHANGED <<session, tabVars, jobVars, dbVars>>
    BY <1>12, <1>v DEF PollAnswered, Handles, At
  <2>2. \/ AnswerWith(t, Copy(t), FALSE) \/ AnswerWith(t, Copy(t), TRUE)
        \/ AnswerWith(t, [Copy(t) EXCEPT !.job = 0], FALSE)
    BY <1>12 DEF PollAnswered
  <2>3. /\ [Copy(t) EXCEPT !.job = 0] \in Session
        /\ CopyFits([Copy(t) EXCEPT !.job = 0], jobs, reports, lastId)
    BY <2>1, DroppedFits
  <2> QED
    BY <1>u, <1>x, <2>1, <2>2, <2>3, AnswerStep DEF tabVars, jobVars
<1>13. ASSUME NEW t \in Tabs, PollTerminal(t)
       PROVE  ReportInv'
  <2> DEFINE r == [request[t] EXCEPT !.at = "fetch"]
  <2>1. /\ request[t] \in Request /\ Copy(t).job # 0 /\ CopyFits(Copy(t), jobs, reports, lastId)
        /\ request' = [request EXCEPT ![t].at = "fetch"]
        /\ UNCHANGED <<session, tabVars, jobVars, dbVars>>
    BY <1>13, <1>v DEF PollTerminal, Handles, At, Go
  <2>2. request' = [request EXCEPT ![t] = r]
    BY <2>1
  <2>3. r \in Request /\ r.at = "fetch" /\ r.copy = Copy(t)
    BY <2>1 DEF Request, Step, Copy
  <2>4. StepFits(t, r, reports, writer)
    BY <2>1, <2>3 DEF StepFits
  <2> HIDE DEF r
  <2> QED
    BY <1>u, <1>x, <2>1, <2>2, <2>3, <2>4, MoveStep DEF tabVars, jobVars
<1>14. ASSUME NEW t \in Tabs, FetchResult(t)
       PROVE  ReportInv'
  <2> DEFINE j == Copy(t).job
             d == [Forgotten(Copy(t)) EXCEPT !.job = 0, !.result = j, !.text = j]
             r == [request[t] EXCEPT !.at = "save", !.copy = d]
  <2>1. /\ request[t] \in Request /\ request[t].at = "fetch"
        /\ Copy(t) \in Session /\ CopyFits(Copy(t), jobs, reports, lastId)
        /\ StepFits(t, request[t], reports, writer)
        /\ request' = [request EXCEPT ![t].at = "save", ![t].copy = d]
        /\ UNCHANGED <<session, tabVars, jobVars, dbVars>>
    BY <1>14, <1>v DEF FetchResult, At
  <2>2. j # 0 /\ j \in 0 .. MaxJobs /\ j \in {0} \cup Texts /\ 0 \in 0 .. MaxIds
    BY <2>1 DEF StepFits, Copy, Session, Texts, Jobs
  <2>3. /\ d \in Session /\ d.job = 0 /\ d.result = j /\ d.saved = 0
        /\ d.file = Copy(t).file
    <3>1. 0 \in 0 .. MaxJobs
      OBVIOUS
    <3> HIDE DEF j
    <3> QED
      BY <2>1, <2>2, <3>1 DEF Session, Forgotten
  <2>4. CopyFits(d, jobs, reports, lastId)
    BY <1>t, <2>1, <2>2, <2>3 DEF CopyFits, Ids, ReportTypeOK
  <2> HIDE DEF d, j
  <2>5. request' = [request EXCEPT ![t] = r]
    BY <2>1
  <2>6. r \in Request /\ r.at = "save" /\ r.copy = d
    BY <2>1, <2>3 DEF Request, Step
  <2>7. StepFits(t, r, reports, writer)
    BY <2>2, <2>3, <2>6 DEF StepFits
  <2> HIDE DEF r
  <2> QED
    BY <1>u, <1>x, <2>1, <2>4, <2>5, <2>6, <2>7, MoveStep DEF tabVars, jobVars
<1>15. ASSUME NEW t \in Tabs, FetchFails(t)
       PROVE  ReportInv'
  <2>1. /\ Copy(t) \in Session /\ CopyFits(Copy(t), jobs, reports, lastId)
        /\ UNCHANGED <<session, tabVars, jobVars, dbVars>>
        /\ AnswerWith(t, [Copy(t) EXCEPT !.job = 0], FALSE)
    BY <1>15, <1>v DEF FetchFails, At
  <2> QED
    BY <1>u, <1>x, <2>1, AnswerStep, DroppedFits DEF tabVars, jobVars
<1>19. ASSUME NEW t \in Tabs, NEW new \in Edits, EditUnsaved(t, new)
       PROVE  ReportInv'
  <2> DEFINE d == [Copy(t) EXCEPT !.text = new]
  <2>1. /\ Copy(t) \in Session /\ CopyFits(Copy(t), jobs, reports, lastId)
        /\ UNCHANGED <<session, tabVars, jobVars, dbVars>>
        /\ AnswerWith(t, d, FALSE) \/ AnswerWith(t, Copy(t), FALSE)
    BY <1>19, <1>v DEF EditUnsaved, Handles, At
  <2>2. d \in Session /\ CopyFits(d, jobs, reports, lastId)
    BY <2>1 DEF Session, Texts, CopyFits
  <2> HIDE DEF d
  <2> QED
    BY <1>u, <1>x, <2>1, <2>2, AnswerStep DEF tabVars, jobVars
<1>21. ASSUME NEW t \in Tabs, EditRefused(t)
       PROVE  ReportInv'
  BY <1>21, <1>u, <1>v, <1>x, AnswerStep DEF EditRefused, Handles, At, tabVars, jobVars
<1>11. ASSUME NEW t \in Tabs, Analyze(t)
       PROVE  ReportInv'
  <2>1. /\ Copy(t) \in Session /\ CopyFits(Copy(t), jobs, reports, lastId)
        /\ UNCHANGED <<session, tabVars, uploads, dbVars>>
    BY <1>11, <1>v DEF Analyze, Handles, At
  <2>2. CASE AnswerWith(t, Copy(t), FALSE) /\ UNCHANGED jobs
    BY <1>u, <1>x, <2>1, <2>2, AnswerStep DEF tabVars
  <2>3. CASE /\ Copy(t).file # 0 /\ Len(jobs) < uses.jobs
             /\ jobs' = Append(jobs, [file |-> Copy(t).file, status |-> "active"])
             /\ \/ AnswerWith(t, [Copy(t) EXCEPT !.job = Len(jobs) + 1], FALSE)
                \/ AnswerWith(t, Copy(t), FALSE)
    <3> DEFINE f == Copy(t).file
               new == [file |-> f, status |-> "active"]
               d == [Copy(t) EXCEPT !.job = Len(jobs) + 1]
    <3>1. f \in Files /\ new.file = f
      BY <2>1, <2>3 DEF Session, Files
    <3>2. new \in [file : Files, status : {"active", "done", "error", "gone"}]
      BY <3>1
    <3>3. jobs' = Append(jobs, new)
      BY <2>3
    <3> HIDE DEF new, f
    <3>4. /\ jobs' \in Seq([file : Files, status : {"active", "done", "error", "gone"}])
          /\ Len(jobs) \in Nat /\ Len(jobs) + 1 \in DOMAIN jobs' /\ jobs'[Len(jobs) + 1] = new
          /\ \A j \in DOMAIN jobs : j \in DOMAIN jobs' /\ jobs'[j] = jobs[j]
      BY <1>t, <3>2, <3>3 DEF ReportTypeOK
    <3>5. Len(jobs) + 1 \in 0 .. MaxJobs
      <4>1. uses.jobs \in 0 .. MaxJobs
        BY <1>t DEF ReportTypeOK
      <4> QED
        BY <2>3, <3>4, <4>1
    <3>6. Grows
      BY <1>t, <2>1, <3>4 DEF ReportTypeOK, Grows, dbVars
    <3>7. /\ d \in Session /\ d.job = Len(jobs) + 1 /\ d.file = f
          /\ d.result = Copy(t).result /\ d.saved = Copy(t).saved
      BY <2>1, <3>5 DEF Session, f
    <3>8. CopyFits(Copy(t), jobs', reports', lastId')
      BY <2>1, <3>6, CopyStable
    <3>9. CopyFits(d, jobs', reports', lastId')
      <4> HIDE DEF d
      <4> QED
        BY <3>1, <3>4, <3>7, <3>8 DEF CopyFits, f
    <3>10. PICK c \in {Copy(t), d} : AnswerWith(t, c, FALSE)
      BY <2>3
    <3> DEFINE r == Answered(c, FALSE)
    <3>11. /\ r \in Request /\ r.copy = c /\ StepFits(t, r, reports', writer')
           /\ request' = [request EXCEPT ![t] = r]
      BY <2>1, <3>7, <3>10, AnsweredFits DEF AnswerWith, Answered
    <3> HIDE DEF r, d
    <3>12. ReportTypeOK'
      BY <1>t, <1>u, <2>1, <3>4, <3>11 DEF ReportTypeOK, tabVars, dbVars
    <3>13. \A i \in Saved' : i <= lastId' /\ RowFits(reports'[i], jobs')
      BY <2>1, <3>4 DEF ReportInv, Saved, RowFits, dbVars
    <3>14. CopyFits(session', jobs', reports', lastId')
      BY <1>w, <2>1, <3>6, CopyStable
    <3> QED
      BY <2>1, <3>6, <3>8, <3>9, <3>10, <3>11, <3>12, <3>13, <3>14, TabStep DEF dbVars
  <2> QED
    BY <1>11, <2>2, <2>3 DEF Analyze
<1>16. ASSUME NEW t \in Tabs, SaveBegin(t)
       PROVE  ReportInv'
  <2> DEFINE r == [request[t] EXCEPT !.at = "insert", !.read = Cardinality(Saved)]
  <2>1. /\ request[t] \in Request /\ request[t].at = "save"
        /\ CopyFits(Copy(t), jobs, reports, lastId) /\ StepFits(t, request[t], reports, writer)
        /\ writer = NoTab /\ writer' = t
        /\ request' = [request EXCEPT ![t].at = "insert", ![t].read = Cardinality(Saved)]
        /\ UNCHANGED <<session, tabVars, jobVars, reports, lastId, limit>>
    BY <1>16, <1>v DEF SaveBegin, At, Lock
  <2>2. request' = [request EXCEPT ![t] = r]
    BY <2>1
  <2>3. /\ r \in Request /\ r.at = "insert" /\ r.copy = Copy(t) /\ r.read = Cardinality(Saved)
    BY <2>1, SavedFinite DEF Request, Step, Copy
  <2>4. StepFits(t, r, reports, t)
    BY <2>1, <2>3 DEF StepFits, Saved, Copy
  <2> HIDE DEF r
  <2>5. ReportTypeOK'
    BY <1>t, <1>u, <2>1, <2>2, <2>3 DEF ReportTypeOK, tabVars, jobVars
  <2>6. Grows
    BY <1>t, <2>1 DEF ReportTypeOK, Grows, jobVars
  <2>7. \A i \in Saved' : i <= lastId' /\ RowFits(reports'[i], jobs')
    BY <2>1 DEF ReportInv, Saved, jobVars
  <2> QED
    BY <1>w, <2>1, <2>2, <2>3, <2>4, <2>5, <2>6, <2>7, TabStep DEF jobVars
<1>17. ASSUME NEW t \in Tabs, SaveCommit(t)
       PROVE  ReportInv'
  <2> DEFINE row == [job |-> Copy(t).result, file |-> Copy(t).file, text |-> Copy(t).result]
             d == [Copy(t) EXCEPT !.saved = NewId]
             r == Answered(d, FALSE)
  <2>1. /\ Copy(t) \in Session /\ CopyFits(Copy(t), jobs, reports, lastId)
        /\ request[t].at = "insert" /\ StepFits(t, request[t], reports, writer)
        /\ NewId \in Ids /\ reports' = [reports EXCEPT ![NewId] = row]
        /\ lastId' = IF NewId > lastId THEN NewId ELSE lastId
        /\ writer' = NoTab /\ AnswerWith(t, d, FALSE)
        /\ UNCHANGED <<session, tabVars, jobVars, limit>>
    BY <1>17, <1>v DEF SaveCommit, At
  <2>2. /\ lastId \in Nat /\ NewId = lastId + 1 /\ lastId' = NewId /\ NewId \notin Saved
        /\ lastId' \in 0 .. MaxIds /\ writer = t
    BY <1>t, <2>1 DEF NewId, Ids, ReportInv, ReportTypeOK, StepFits
  <2>3. /\ Copy(t).result # 0 /\ Copy(t).result \in DOMAIN jobs
        /\ jobs[Copy(t).result].file = Copy(t).file
    BY <2>1 DEF StepFits, Copy, CopyFits
  <2>4. Copy(t).result \in Jobs /\ Copy(t).file \in Files
    <3> DEFINE Job == [file : Files, status : {"active", "done", "error", "gone"}]
    <3>1. jobs[Copy(t).result] \in Job
      <4>1. jobs \in Seq(Job)
        BY <1>t DEF ReportTypeOK
      <4> HIDE DEF Job
      <4> QED
        BY <2>3, <4>1
    <3> QED
      BY <2>1, <2>3, <3>1 DEF Session, Jobs
  <2>5. row \in Row /\ row # NoRow /\ row.job = Copy(t).result /\ row.file = Copy(t).file
    BY <2>4 DEF Row, Texts
  <2>6. /\ d \in Session /\ d.saved = NewId /\ d.job = Copy(t).job
        /\ d.result = Copy(t).result /\ d.file = Copy(t).file
    BY <2>1, <2>2 DEF Session, Ids
  <2> HIDE DEF row, d
  <2>7. reports'[NewId] = row /\ \A i \in Ids \ {NewId} : reports'[i] = reports[i]
    BY <1>t, <2>1 DEF ReportTypeOK
  <2>8. /\ r \in Request /\ r.copy = d /\ StepFits(t, r, reports', writer')
        /\ request' = [request EXCEPT ![t] = r]
    BY <2>1, <2>6, AnsweredFits DEF AnswerWith, Answered
  <2> HIDE DEF r
  <2>9. ReportTypeOK'
    BY <1>t, <1>u, <2>1, <2>2, <2>5, <2>8 DEF ReportTypeOK, tabVars, jobVars
  <2>10. Grows
    BY <1>t, <2>1, <2>2, <2>7 DEF ReportTypeOK, Grows, jobVars, Ids
  <2>11. \A i \in Saved' : i <= lastId' /\ RowFits(reports'[i], jobs')
    BY <2>1, <2>2, <2>3, <2>5, <2>7 DEF ReportInv, Saved, RowFits, jobVars, Ids
  <2>12. CopyFits(session', jobs', reports', lastId')
    BY <1>w, <2>1, <2>10, CopyStable
  <2>13. CopyFits(d, jobs', reports', lastId')
    BY <2>1, <2>2, <2>5, <2>6, <2>7 DEF CopyFits, jobVars
  <2> QED
    BY <2>2, <2>8, <2>9, <2>10, <2>11, <2>12, <2>13, TabStep
<1>18. ASSUME NEW t \in Tabs, SaveFails(t)
       PROVE  ReportInv'
  <2> DEFINE r == Answered(Copy(t), FALSE)
  <2>1. /\ Copy(t) \in Session /\ CopyFits(Copy(t), jobs, reports, lastId)
        /\ writer' = IF writer = t THEN NoTab ELSE writer
        /\ AnswerWith(t, Copy(t), FALSE)
        /\ UNCHANGED <<session, tabVars, jobVars, reports, lastId, limit>>
    BY <1>18, <1>v DEF SaveFails, At
  <2>2. /\ r \in Request /\ r.copy = Copy(t) /\ StepFits(t, r, reports', writer')
        /\ request' = [request EXCEPT ![t] = r]
    BY <2>1, AnsweredFits DEF AnswerWith, Answered
  <2> HIDE DEF r
  <2>3. ReportTypeOK'
    BY <1>t, <1>u, <2>1, <2>2 DEF ReportTypeOK, tabVars, jobVars
  <2>4. Grows
    BY <1>t, <2>1 DEF ReportTypeOK, Grows, jobVars
  <2>5. \A i \in Saved' : i <= lastId' /\ RowFits(reports'[i], jobs')
    BY <2>1 DEF ReportInv, Saved, jobVars
  <2> QED
    BY <1>w, <2>1, <2>2, <2>3, <2>4, <2>5, TabStep DEF jobVars
<1>20. ASSUME NEW t \in Tabs, NEW new \in Edits, EditBegin(t, new)
       PROVE  ReportInv'
  <2> DEFINE id == EditTarget(t)
             d == IF editor[t].current THEN [Copy(t) EXCEPT !.saved = id] ELSE Copy(t)
             r == [request[t] EXCEPT !.at = "write", !.copy = d, !.id = id, !.new = new,
                                     !.read = reports[id].text]
  <2>1. /\ request[t] \in Request /\ Copy(t) \in Session /\ id \in Saved
        /\ CopyFits(Copy(t), jobs, reports, lastId)
        /\ editor[t].current => Copy(t).result # 0
        /\ writer = NoTab /\ writer' = t
        /\ request' = [request EXCEPT ![t].at = "write", ![t].copy = d, ![t].id = id,
                                      ![t].new = new, ![t].read = reports[id].text]
        /\ UNCHANGED <<session, tabVars, jobVars, reports, lastId, limit>>
    BY <1>20, <1>v DEF EditBegin, Handles, At, Lock
  <2>2. d \in Session /\ CopyFits(d, jobs, reports, lastId)
    <3>1. CASE editor[t].current
      <4>1. id = SavedId(Copy(t)) /\ d = [Copy(t) EXCEPT !.saved = SavedId(Copy(t))]
        BY <3>1 DEF EditTarget
      <4> QED
        BY <2>1, <3>1, <4>1, SavedIdFits
    <3>2. CASE ~editor[t].current
      <4>1. d = Copy(t)
        BY <3>2
      <4> QED
        BY <2>1, <4>1
    <3> QED
      BY <3>1, <3>2
  <2>3. reports[id].text \in Nat /\ id \in Ids /\ id \in 0 .. MaxIds /\ reports[id] # NoRow
    BY <1>t, <2>1 DEF ReportTypeOK, Saved, Row, Texts, Jobs, Ids
  <2> HIDE DEF id, d
  <2>4. request' = [request EXCEPT ![t] = r]
    BY <2>1
  <2>5. /\ r \in Request /\ r.at = "write" /\ r.id = id /\ r.new = new /\ r.copy = d
        /\ r.read = reports[id].text
    <3>1. new \in {0} \cup Edits /\ "write" \in Step
      BY DEF Step
    <3> QED
      BY <2>1, <2>2, <2>3, <3>1 DEF Request
  <2>6. StepFits(t, r, reports, t)
    BY <2>3, <2>5 DEF StepFits
  <2> HIDE DEF r
  <2>7. ReportTypeOK'
    <3>1. writer' = t /\ UNCHANGED <<session, tabVars, jobVars, reports, lastId, limit>>
      BY <2>1
    <3>2. request' \in [Tabs -> Request \cup {Idle}]
      BY <1>x, <2>4, <2>5
    <3> QED
      BY <1>t, <1>u, <3>1, <3>2 DEF ReportTypeOK, tabVars, jobVars
  <2>8. Grows
    BY <1>t, <2>1 DEF ReportTypeOK, Grows, jobVars
  <2>9. \A i \in Saved' : i <= lastId' /\ RowFits(reports'[i], jobs')
    BY <2>1 DEF ReportInv, Saved, jobVars
  <2> QED
    BY <1>w, <2>1, <2>2, <2>4, <2>5, <2>6, <2>7, <2>8, <2>9, TabStep DEF jobVars
<1>22. ASSUME NEW t \in Tabs, EditCommit(t)
       PROVE  ReportInv'
  <2> DEFINE r == Answered(Copy(t), FALSE)
  <2>1. /\ Copy(t) \in Session /\ CopyFits(Copy(t), jobs, reports, lastId)
        /\ request[t].at = "write" /\ StepFits(t, request[t], reports, writer)
        /\ writer' = NoTab /\ AnswerWith(t, Copy(t), FALSE)
        /\ UNCHANGED <<session, tabVars, jobVars, lastId, limit>>
    BY <1>22, <1>v DEF EditCommit, At
  <2>2. /\ r \in Request /\ r.copy = Copy(t) /\ StepFits(t, r, reports', writer')
        /\ request' = [request EXCEPT ![t] = r]
    BY <2>1, AnsweredFits DEF AnswerWith, Answered
  <2> HIDE DEF r
  <2>3. /\ reports' \in [Ids -> Row \cup {NoRow}]
        /\ \A i \in Ids : reports'[i] # NoRow =>
             /\ reports[i] # NoRow /\ reports'[i].job = reports[i].job
             /\ reports'[i].file = reports[i].file
    BY <1>22, <1>t, <2>1, EditKeepsRows
  <2>4. ReportTypeOK'
    BY <1>t, <1>u, <2>1, <2>2, <2>3 DEF ReportTypeOK, tabVars, jobVars
  <2>5. Grows
    BY <1>t, <2>1, <2>3 DEF ReportTypeOK, Grows, jobVars
  <2>6. \A i \in Saved' : i <= lastId' /\ RowFits(reports'[i], jobs')
    BY <2>1, <2>3 DEF ReportInv, Saved, RowFits, jobVars
  <2>7. CopyFits(Copy(t), jobs', reports', lastId') /\ CopyFits(session', jobs', reports', lastId')
    BY <1>w, <2>1, <2>5, CopyStable
  <2>8. writer = t
    BY <2>1 DEF StepFits
  <2> QED
    BY <2>2, <2>4, <2>5, <2>6, <2>7, <2>8, TabStep
<1>23. ASSUME NEW id \in Ids, DeleteReport(id)
       PROVE  ReportInv'
  <2>1. /\ writer = NoTab /\ reports' = [reports EXCEPT ![id] = NoRow]
        /\ UNCHANGED <<session, request, tabVars, jobVars, lastId, writer, limit>>
    BY <1>23 DEF DeleteReport
  <2>2. reports'[id] = NoRow /\ \A i \in Ids \ {id} : reports'[i] = reports[i]
    BY <1>t, <2>1 DEF ReportTypeOK
  <2>3. ReportTypeOK'
    BY <1>t, <1>u, <2>1 DEF ReportTypeOK, tabVars, jobVars
  <2>4. Grows
    BY <1>t, <2>1, <2>2 DEF ReportTypeOK, Grows, jobVars
  <2>5. \A i \in Saved' : i <= lastId' /\ RowFits(reports'[i], jobs')
    BY <2>1, <2>2 DEF ReportInv, Saved, RowFits, jobVars
  <2> QED
    BY <2>1, <2>3, <2>4, <2>5, StillStep
<1>24. ASSUME NEW n \in Limits, SetLimit(n)
       PROVE  ReportInv'
  BY <1>24, <1>t, <1>u, StillStep
     DEF SetLimit, ReportInv, ReportTypeOK, Saved, Grows, tabVars, jobVars
<1>25. ASSUME NEW j \in Jobs, Finish(j) \/ Purge(j)
       PROVE  ReportInv'
  <2>1. PICK s \in {"done", "error", "gone"} :
          j \in DOMAIN jobs /\ jobs' = [jobs EXCEPT ![j].status = s]
    BY <1>25 DEF Finish, Purge
  <2>2. UNCHANGED <<session, request, tabVars, uploads, dbVars>>
    BY <1>25 DEF Finish, Purge
  <2>3. /\ jobs' \in Seq([file : Files, status : {"active", "done", "error", "gone"}])
        /\ DOMAIN jobs' = DOMAIN jobs /\ \A i \in DOMAIN jobs : jobs'[i].file = jobs[i].file
    <3> DEFINE Job == [file : Files, status : {"active", "done", "error", "gone"}]
               row == [jobs[j] EXCEPT !.status = s]
    <3>1. jobs \in Seq(Job)
      BY <1>t DEF ReportTypeOK
    <3>2. jobs[j] \in Job
      <4> HIDE DEF Job
      <4> QED
        BY <2>1, <3>1
    <3>3. row \in Job /\ row.file = jobs[j].file /\ jobs' = [jobs EXCEPT ![j] = row]
      BY <2>1, <3>2
    <3> HIDE DEF Job, row
    <3>4. jobs' \in Seq(Job) /\ DOMAIN jobs' = DOMAIN jobs
      BY <2>1, <3>1, <3>3
    <3>5. jobs'[j] = row /\ \A i \in DOMAIN jobs \ {j} : jobs'[i] = jobs[i]
      BY <2>1, <3>3
    <3> QED
      BY <3>3, <3>4, <3>5 DEF Job
  <2>4. ReportTypeOK'
    BY <1>t, <1>u, <2>2, <2>3 DEF ReportTypeOK, tabVars, dbVars
  <2>5. Grows
    BY <1>t, <2>2, <2>3 DEF ReportTypeOK, Grows, dbVars
  <2>6. \A i \in Saved' : i <= lastId' /\ RowFits(reports'[i], jobs')
    BY <2>2, <2>3 DEF ReportInv, Saved, RowFits, dbVars
  <2> QED
    BY <2>2, <2>4, <2>5, <2>6, StillStep DEF dbVars
<1>26. CASE UNCHANGED reportVars
  BY <1>26 DEF reportVars, webVars, tabVars, jobVars, dbVars, ReportInv, ReportTypeOK, Saved
<1>27. ASSUME ReportNext
       PROVE  ReportInv'
  <2>1. ASSUME NEW t \in Tabs, Instantly(t)
        PROVE  ReportInv'
    BY <2>1, <1>1, <1>2, <1>3, <1>4, <1>5 DEF Instantly
  <2>2. ASSUME NEW t \in Tabs, Poll(t)
        PROVE  ReportInv'
    BY <2>2, <1>6 DEF Poll, Kind
  <2>3. ASSUME NEW t \in Tabs, Handle(t)
        PROVE  ReportInv'
    BY <2>3, <1>10, <1>11, <1>12, <1>13, <1>14, <1>15, <1>16, <1>17, <1>18, <1>19, <1>20,
       <1>21, <1>22 DEF Handle
  <2> QED
    BY <1>27, <2>1, <2>2, <2>3, <1>6, <1>7, <1>8, <1>9, <1>23, <1>24, <1>25 DEF ReportNext
<1> QED
  BY <1>26, <1>27

LEMMA ReportInvHolds == ReportSpec => []ReportInv
BY InitReportInv, NextReportInv, PTL DEF ReportSpec

\* Whatever order the requests of any number of tabs end in, a saved report has
\* the file of its job ...
THEOREM ReportsUnderTheirFile == ReportSpec => []SavedUnderItsFile
<1>1. ReportInv => SavedUnderItsFile
  BY DEF ReportInv, RowFits, SavedUnderItsFile
<1> QED
  BY <1>1, ReportInvHolds, PTL

\* ... and the report shown and edited for a result is the report of it.
THEOREM ReportsOfTheirResult == ReportSpec => []ReportIsOfResult
<1>1. ReportInv => ReportIsOfResult
  BY DEF ReportInv, CopyFits, ReportIsOfResult, Copies, Copy, Saved
<1> QED
  BY <1>1, ReportInvHolds, PTL

\* How a step of ReportNext changes the rows: one is inserted, one is edited or
\* one is deleted, or none changes.
LEMMA RowsMove ==
    ASSUME ReportInv, ReportNext
    PROVE  \/ UNCHANGED reports
           \/ \E t \in Tabs : SaveCommit(t) \/ EditCommit(t)
           \/ \E id \in Ids : DeleteReport(id)
<1>1. ASSUME NEW t \in Tabs, Instantly(t)
      PROVE  UNCHANGED reports
  BY <1>1 DEF Instantly, HandleOther, Clear, OpenProgress, ShowCurrent, ShowSaved, dbVars
<1>2. ASSUME NEW t \in Tabs, Poll(t) \/ End(t) \/ Killed(t) \/ Leave(t)
             \/ (\E k \in Kind : Begin(t, k)) \/ \E n \in Limits : SetLimit(n)
      PROVE  UNCHANGED reports
  BY <1>2 DEF Poll, Begin, End, Killed, Leave, SetLimit, dbVars
<1>3. ASSUME NEW t \in Tabs, Handle(t), ~SaveCommit(t), ~EditCommit(t)
      PROVE  UNCHANGED reports
  BY <1>3 DEF Handle, Upload, Analyze, PollAnswered, PollTerminal, FetchResult, FetchFails,
              SaveBegin, SaveFails, EditUnsaved, EditBegin, EditRefused, dbVars
<1>4. ASSUME NEW j \in Jobs, Finish(j) \/ Purge(j)
      PROVE  UNCHANGED reports
  BY <1>4 DEF Finish, Purge, dbVars
<1> QED
  BY <1>1, <1>2, <1>3, <1>4 DEF ReportNext

\* Reports are only added below the limit, for any number of tabs saving at
\* once and whatever the administrator sets the limit to meanwhile.
THEOREM LimitKept == ReportSpec => WithinLimit
<1> DEFINE Within == Cardinality(Saved') > Cardinality(Saved) => Cardinality(Saved) < limit
<1>1. ReportInv /\ [ReportNext]_reportVars => [Within]_reportVars
  <2> SUFFICES ASSUME ReportInv, ReportNext
               PROVE  Within
    OBVIOUS
  <2>1. Cardinality(Saved) \in Nat /\ IsFiniteSet(Saved)
    BY SavedFinite
  <2>2. CASE UNCHANGED reports
    BY <2>1, <2>2 DEF Saved
  <2>3. ASSUME NEW t \in Tabs, SaveCommit(t)
        PROVE  Within
    <3>1. request[t].read = Cardinality(Saved) /\ request[t].read < limit
      BY <2>3 DEF SaveCommit, At, ReportInv, StepFits, Saved
    <3> QED
      BY <3>1
  <2>4. ASSUME NEW t \in Tabs, EditCommit(t)
        PROVE  Within
    <3>1. StepFits(t, request[t], reports, writer) /\ request[t].at = "write" /\ ReportTypeOK
      BY <2>4 DEF EditCommit, At, ReportInv
    <3>2. Saved' \subseteq Saved
      BY <2>4, <3>1, EditKeepsRows DEF Saved
    <3> QED
      BY <2>1, <3>2, FS_Subset, FS_CardinalityType
  <2>5. ASSUME NEW id \in Ids, DeleteReport(id)
        PROVE  Within
    <3>1. Saved' \subseteq Saved
      BY <2>5 DEF DeleteReport, Saved, ReportInv, ReportTypeOK
    <3> QED
      BY <2>1, <3>1, FS_Subset, FS_CardinalityType
  <2> QED
    BY <2>2, <2>3, <2>4, <2>5, RowsMove
<1> QED
  BY <1>1, ReportInvHolds, PTL DEF ReportSpec, WithinLimit

\* No edit overwrites one the editor has not shown, for any number of editors.
THEOREM EditsKept == ReportSpec => NoEditLost
<1> DEFINE EditSeen == \A i \in Saved \cap Saved' : reports'[i].text # reports[i].text =>
              \E t \in Tabs : /\ request[t] # Idle /\ request'[t] # request[t]
                              /\ editor[t].text = reports[i].text
<1>1. ReportInv /\ [ReportNext]_reportVars => [EditSeen]_reportVars
  <2> SUFFICES ASSUME ReportInv, ReportNext
               PROVE  EditSeen
    OBVIOUS
  <2>2. CASE UNCHANGED reports
    BY <2>2
  <2>3. ASSUME NEW t \in Tabs, SaveCommit(t)
        PROVE  EditSeen
    <3>1. \A i \in Saved : reports'[i] = reports[i]
      BY <2>3, SessionAssumption DEF SaveCommit, NewId, Ids, Saved, ReportInv, ReportTypeOK
    <3> QED
      BY <3>1
  <2>4. ASSUME NEW t \in Tabs, EditCommit(t)
        PROVE  EditSeen
    <3>1. /\ StepFits(t, request[t], reports, writer) /\ request[t].at = "write"
          /\ request[t] # Idle /\ ReportTypeOK
      BY <2>4 DEF EditCommit, At, ReportInv
    <3>2. request' = [request EXCEPT ![t] = Answered(Copy(t), FALSE)]
      BY <2>4 DEF EditCommit, AnswerWith, Answered
    <3>3. request'[t] # request[t]
      <4>1. request'[t] = Answered(Copy(t), FALSE)
        BY <3>1, <3>2 DEF ReportTypeOK
      <4>2. request'[t].at = "answer"
        BY <4>1 DEF Answered
      <4> QED
        BY <3>1, <4>2
    <3>4. ASSUME NEW i \in Saved \cap Saved', reports'[i].text # reports[i].text
          PROVE  i = request[t].id /\ Unchanged(t)
      BY <2>4, <3>1, <3>4, EditKeepsRows DEF Saved
    <3>5. ASSUME NEW i \in Saved \cap Saved', reports'[i].text # reports[i].text
          PROVE  editor[t].text = reports[i].text
      BY <3>1, <3>4, <3>5 DEF StepFits, Unchanged
    <3> QED
      BY <3>1, <3>3, <3>5
  <2>5. ASSUME NEW id \in Ids, DeleteReport(id)
        PROVE  EditSeen
    BY <2>5 DEF DeleteReport, Saved, ReportInv, ReportTypeOK
  <2> QED
    BY <2>2, <2>3, <2>4, <2>5, RowsMove
<1> QED
  BY <1>1, ReportInvHolds, PTL DEF ReportSpec, NoEditLost
=============================================================================
