------------------------------ MODULE AuthStore ------------------------------
(***************************************************************************)
(* Users, browser sessions and client tokens behind the server's routes,   *)
(* over either of the two stores that keep them.                           *)
(*                                                                         *)
(* A route is a list of store operations it awaits one after the other.    *)
(* In MongoAuthStore an operation is one statement over its collections.   *)
(* In FilesystemAuthStore everything is in auth.json: an operation that    *)
(* changes it makes the lock directory, reads the file, and truncates and  *)
(* writes it; one that only looks reads the file without the lock, and so  *)
(* possibly while it is empty or half written.                             *)
(*                                                                         *)
(* Passwords given are right, emails are compared in lower case (an Email  *)
(* is a class of spellings), and nothing in the repository disables a      *)
(* user, so accounts only ever appear.                                     *)
(***************************************************************************)
EXTENDS Naturals, Sequences

CONSTANTS
    Account,   \* user ids
    Email,     \* addresses
    Session,   \* session secrets
    Key,       \* client tokens
    Request,   \* requests in flight, of any number of servers
    Wanted,    \* whether POST /users asks for an administrator, or either
    Ttl,       \* config.session.ttlMs, in ticks
    Nobody,    \* no account; no address, session or token with a request
    Idle,      \* no request
    Accepted,  \* a request that was answered
    Refused,   \* ... with an error
    Torn,      \* auth.json while it is being written
    Free,      \* no lock directory
    Orphaned,  \* the lock directory of a process that died
    MaxTime    \* bound of the clock

ASSUME AuthAssumption ==
    /\ Ttl \in Nat \ {0}
    /\ MaxTime \in Nat
    /\ Nobody \notin Account \cup Email \cup Session \cup Key
    /\ Session \cap Key = {}
    /\ {Free, Orphaned} \cap Request = {}
    /\ Free # Orphaned
    /\ Accepted \notin {Idle, Refused}
    /\ Idle # Refused
    /\ Wanted \subseteq BOOLEAN

VARIABLES
    backend,   \* config.persistence.kind
    now,       \* the clock
    stored,    \* what the store holds
    lock,      \* .auth-store.lock
    seen,      \* what an operation has read, or is about to write
    requests,  \* the requests
    used,      \* secrets and ids already drawn
    told       \* what callers know is there, and has ended

vars == <<backend, now, stored, lock, seen, requests, used, told>>

User == [id : Account, email : Email, admin : BOOLEAN]
StoredSession == [id : Session, user : Account, expiresAt : Nat]
StoredClientToken == [id : Key, user : Account, revoked : BOOLEAN]

AuthState ==
    [users : SUBSET User, sessions : SUBSET StoredSession, tokens : SUBSET StoredClientToken]

EmptyAuthState == [users |-> {}, sessions |-> {}, tokens |-> {}]

Reads == {"usersExist", "verifyPassword", "getSession"}

Changes ==
    {"ensureBootstrapAdmin", "createUser", "createSession", "revokeSession",
     "createClientToken", "revokeClientToken", "verifyClientToken"}

(* The operations each route awaits. *)
Route ==
    [bootstrap |-> <<"usersExist", "createUser">>,
     login     |-> <<"verifyPassword", "createSession">>,
     logout    |-> <<"revokeSession">>,
     me        |-> <<"getSession">>,
     users     |-> <<"getSession", "createUser">>,
     mint      |-> <<"getSession", "createClientToken">>,
     revoke    |-> <<"getSession", "revokeClientToken">>,
     token     |-> <<"verifyClientToken">>]

(* buildServer; MongoAuthStore.ensureBootstrapAdmin is two statements. *)
StartUp ==
    IF backend = "mongodb" THEN Route.bootstrap ELSE <<"ensureBootstrapAdmin">>

RequestState ==
    [route : DOMAIN Route \cup {"startup"}, todo : Seq(Reads \cup Changes),
     email : Email \cup {Nobody}, admin : BOOLEAN,
     session : Session \cup {Nobody}, key : Key \cup {Nobody},
     user : Account \cup {Nobody}, at : {"outside", "inside", "writing"},
     late : BOOLEAN, expired : BOOLEAN]

ASSUME SentinelAssumption ==
    /\ Torn \notin AuthState
    /\ {Idle, Accepted, Refused} \cap RequestState = {}

(* What callers know. *)
Told ==
    [emails : SUBSET Email, sessions : SUBSET StoredSession, keys : SUBSET Key,
     ended : SUBSET (Session \cup Key)]

Init ==
    /\ backend \in {"filesystem", "mongodb"}
    /\ now = 0
    /\ stored = EmptyAuthState
    /\ lock = Free
    /\ seen = [r \in Request |-> EmptyAuthState]
    /\ requests = [r \in Request |-> Idle]
    /\ used = {}
    /\ told = [emails |-> {}, sessions |-> {}, keys |-> {}, ended |-> {}]

-----------------------------------------------------------------------------
(* What the operations find and change *)

HasExpired(s) == s.expiresAt <= now

(* verifyPassword and getSession: whom the credentials belong to. *)
UserByEmail(auth, email) == {u \in auth.users : u.email = email}

SessionById(auth, id) == {s \in auth.sessions : s.id = id}

(* Mutant of CanChange: two spellings of an address are two addresses. *)
CanChangeOrAdd(op, auth, q) ==
    CASE op = "ensureBootstrapAdmin" -> auth.users = {}
      [] op = "createClientToken" -> \E u \in auth.users : u.id = q.user
      [] op = "revokeClientToken" -> \E k \in auth.tokens : k.id = q.key
      [] op = "verifyClientToken" -> \E k \in auth.tokens : k.id = q.key /\ ~k.revoked
      [] OTHER -> TRUE

(* Mutant of CanChange: the token's revocation is not looked at. *)
CanChangeOnceMinted(op, auth, q) ==
    CASE op = "ensureBootstrapAdmin" -> auth.users = {}
      [] op = "createUser" -> UserByEmail(auth, q.email) = {}
      [] op = "createClientToken" -> \E u \in auth.users : u.id = q.user
      [] op \in {"revokeClientToken", "verifyClientToken"} ->
             \E k \in auth.tokens : k.id = q.key
      [] OTHER -> TRUE

(* The checks an operation makes on what it read before it writes. *)
CanChange(op, auth, q) ==
    CASE op = "ensureBootstrapAdmin" -> auth.users = {}
      [] op = "createUser" -> UserByEmail(auth, q.email) = {}
      [] op = "createClientToken" -> \E u \in auth.users : u.id = q.user
      [] op = "revokeClientToken" -> \E k \in auth.tokens : k.id = q.key
      [] op = "verifyClientToken" ->
             \E k \in auth.tokens :
                k.id = q.key /\ ~k.revoked /\ \E u \in auth.users : u.id = k.user
      [] OTHER -> TRUE

(* newSecret, randomUUID: the operations that draw an id, and from where. *)
FreshIds(op, q) ==
    CASE op \in {"ensureBootstrapAdmin", "createUser"} -> Account \ used
      [] op = "createSession" -> Session \ used
      [] op = "createClientToken" -> Key \ used
      [] op = "revokeSession" -> {q.session}
      [] OTHER -> {q.key}

WithUser(auth, id, email, admin) ==
    [auth EXCEPT !.users = @ \cup {[id |-> id, email |-> email, admin |-> admin]}]

WithSession(auth, id, user) ==
    [auth EXCEPT !.sessions = @ \cup {[id |-> id, user |-> user, expiresAt |-> now + Ttl]}]

(* Mutant of WithoutSession: it ends every session. *)
WithoutSessions(auth, id) == [auth EXCEPT !.sessions = {}]

WithoutSession(auth, id) == [auth EXCEPT !.sessions = {s \in @ : s.id # id}]

WithToken(auth, id, user) ==
    [auth EXCEPT !.tokens = @ \cup {[id |-> id, user |-> user, revoked |-> FALSE]}]

WithRevoked(auth, id) ==
    [auth EXCEPT !.tokens = {[k EXCEPT !.revoked = @ \/ k.id = id] : k \in @}]

(* What the store holds after the operation.  verifyClientToken notes when *)
(* the token was used: it changes nothing here, yet it writes.             *)
Changed(op, auth, id, q) ==
    CASE op \in {"ensureBootstrapAdmin", "createUser"} -> WithUser(auth, id, q.email, q.admin)
      [] op = "createSession" -> WithSession(auth, id, q.user)
      [] op = "revokeSession" -> WithoutSession(auth, id)
      [] op = "createClientToken" -> WithToken(auth, id, q.user)
      [] op = "revokeClientToken" -> WithRevoked(auth, id)
      [] op = "verifyClientToken" -> auth

-----------------------------------------------------------------------------
(* Requests *)

IsOpen(r) == requests[r] \notin {Idle, Accepted, Refused}

(***************************************************************************)
(* A request comes with an address, or with a session or token somebody    *)
(* was given.  late says that its credentials had been ended, and the end  *)
(* answered, before it began.                                              *)
(***************************************************************************)
Begin(r, route, operations, given) ==
    /\ ~IsOpen(r)
    /\ requests' = [requests EXCEPT ![r] =
          [route |-> route, todo |-> operations,
           email |-> given.email, admin |-> given.admin,
           session |-> given.session, key |-> given.key,
           user |-> Nobody, at |-> "outside",
           late |-> \/ route = "token" /\ given.key \in told.ended
                    \/ Head(operations) = "getSession" /\ given.session \in told.ended,
           expired |-> FALSE]]
    /\ UNCHANGED <<backend, now, stored, lock, seen, used, told>>

Nothing ==
    [email |-> Nobody, admin |-> FALSE, session |-> Nobody, key |-> Nobody]

Arrives(r) ==
    \/ \E e \in Email :
          \/ LET given == [Nothing EXCEPT !.email = e, !.admin = TRUE] IN
                \/ Begin(r, "startup", StartUp, given)
                \/ Begin(r, "bootstrap", Route.bootstrap, given)
          \/ Begin(r, "login", Route.login, [Nothing EXCEPT !.email = e])
    \/ \E s \in told.sessions :
          LET given == [Nothing EXCEPT !.session = s.id] IN
          \/ \E route \in {"logout", "me", "mint"} : Begin(r, route, Route[route], given)
          \/ \E e \in Email, admin \in Wanted :
                Begin(r, "users", Route.users, [given EXCEPT !.email = e, !.admin = admin])
          \/ \E k \in told.keys : Begin(r, "revoke", Route.revoke, [given EXCEPT !.key = k])
    \/ \E k \in told.keys : Begin(r, "token", Route.token, [Nothing EXCEPT !.key = k])

IsNext(r, operations) == IsOpen(r) /\ Head(requests[r].todo) \in operations

(* The operation at the head is done: the route goes on, or answers. *)
Advanced(q) ==
    IF Len(q.todo) > 1 THEN [q EXCEPT !.todo = Tail(@), !.at = "outside"]
    ELSE IF q.expired THEN Refused ELSE Accepted

(* An expired session is removed and answered like one that never was. *)
Expired(q) == [q EXCEPT !.todo = <<"revokeSession">>, !.expired = TRUE]

(* What a read that found auth makes of the request. *)
AfterRead(q, auth) ==
    LET op       == Head(q.todo)
        sessions == SessionById(auth, q.session)
        found    == IF op = "verifyPassword" THEN UserByEmail(auth, q.email)
                    ELSE {u \in auth.users : \E s \in sessions : s.user = u.id}
    IN  CASE op = "usersExist" -> IF auth.users = {} THEN Advanced(q) ELSE Refused
          [] op = "getSession" /\ (\E s \in sessions : HasExpired(s)) -> Expired(q)
          [] OTHER ->
               IF found = {} \/ (q.route = "users" /\ \A u \in found : ~u.admin)
               THEN Refused
               ELSE Advanced([q EXCEPT !.user = CHOOSE id \in Account : \E u \in found : u.id = id])

(* A file that was read while somebody writes it is empty ... *)
Look(r) ==
    /\ IsNext(r, Reads)
    /\ requests' = [requests EXCEPT ![r] =
          AfterRead(@, IF stored = Torn THEN EmptyAuthState ELSE stored)]
    /\ UNCHANGED <<backend, now, stored, lock, seen, used, told>>

(* ... or half written, and JSON.parse throws. *)
LookFails(r) ==
    /\ IsNext(r, Reads)
    /\ stored = Torn
    /\ requests' = [requests EXCEPT ![r] = Refused]
    /\ UNCHANGED <<backend, now, stored, lock, seen, used, told>>

(* The last operation of an accepted request says what is there now. *)
Answer(known, q, auth) ==
    LET op == Head(q.todo) IN
    IF Advanced(q) # Accepted THEN known
    ELSE CASE op \in {"ensureBootstrapAdmin", "createUser"} ->
                 [known EXCEPT !.emails = @ \cup {q.email}]
           [] op = "createSession" ->
                 [known EXCEPT !.sessions = @ \cup SessionById(auth, q.session)]
           [] op = "createClientToken" -> [known EXCEPT !.keys = @ \cup {q.key}]
           [] op = "revokeSession" -> [known EXCEPT !.ended = @ \cup {q.session}]
           [] op = "revokeClientToken" -> [known EXCEPT !.ended = @ \cup {q.key}]
           [] OTHER -> known

(* The id an operation drew goes with the request. *)
WithId(q, id) ==
    CASE Head(q.todo) = "createSession" -> [q EXCEPT !.session = id]
      [] Head(q.todo) = "createClientToken" -> [q EXCEPT !.key = id]
      [] OTHER -> q

(* An operation refuses: it throws, or answers that there is nothing. *)
Refuse(r) ==
    /\ requests' = [requests EXCEPT ![r] = Refused]
    /\ seen' = [seen EXCEPT ![r] = EmptyAuthState]
    /\ UNCHANGED <<backend, now, stored, used, told>>

(* One statement of MongoAuthStore, or a refused one. *)
Perform(r) ==
    /\ backend = "mongodb"
    /\ IsNext(r, Changes)
    /\ LET q == requests[r]
           op == Head(q.todo)
       IN  \/ /\ CanChange(op, stored, q)
              /\ \E id \in FreshIds(op, q) :
                    /\ stored' = Changed(op, stored, id, q)
                    /\ used' = used \cup {id}
                    /\ requests' = [requests EXCEPT ![r] = Advanced(WithId(q, id))]
                    /\ told' = Answer(told, WithId(q, id), stored')
              /\ UNCHANGED <<backend, now, lock, seen>>
           \/ /\ ~CanChange(op, stored, q)
              /\ Refuse(r)
              /\ UNCHANGED lock

(* Mutant of Enter: the lock directory is made if it is not there. *)
EnterAnyway(r) ==
    /\ backend = "filesystem"
    /\ IsNext(r, Changes)
    /\ requests[r].at = "outside"
    /\ stored # Torn
    /\ lock' = r
    /\ seen' = [seen EXCEPT ![r] = stored]
    /\ requests' = [requests EXCEPT ![r].at = "inside"]
    /\ UNCHANGED <<backend, now, stored, used, told>>

(* withLock, readAuth *)
Enter(r) ==
    /\ backend = "filesystem"
    /\ IsNext(r, Changes)
    /\ requests[r].at = "outside"
    /\ lock = Free
    /\ lock' = r
    /\ seen' = [seen EXCEPT ![r] = stored]
    /\ requests' = [requests EXCEPT ![r].at = "inside"]
    /\ UNCHANGED <<backend, now, stored, used, told>>

IsInside(r, at) == IsOpen(r) /\ requests[r].at = at

Leave(r) ==
    /\ IsInside(r, "inside")
    /\ ~CanChange(Head(requests[r].todo), seen[r], requests[r])
    /\ lock' = Free
    /\ Refuse(r)

(* writeFile opens auth.json and truncates it ... *)
Truncate(r) ==
    LET q == requests[r]
        op == Head(q.todo)
    IN
    /\ IsInside(r, "inside")
    /\ CanChange(op, seen[r], q)
    /\ \E id \in FreshIds(op, q) :
          /\ seen' = [seen EXCEPT ![r] = Changed(op, @, id, q)]
          /\ used' = used \cup {id}
          /\ requests' = [requests EXCEPT ![r] = [WithId(q, id) EXCEPT !.at = "writing"]]
    /\ stored' = Torn
    /\ UNCHANGED <<backend, now, lock, told>>

(* ... and writes it; the lock directory goes. *)
Write(r) ==
    /\ IsInside(r, "writing")
    /\ stored' = seen[r]
    /\ lock' = Free
    /\ requests' = [requests EXCEPT ![r] = Advanced(@)]
    /\ told' = Answer(told, requests[r], seen[r])
    /\ seen' = [seen EXCEPT ![r] = EmptyAuthState]
    /\ UNCHANGED <<backend, now, used>>

(* The process dies; nobody removes the lock directory it made. *)
Crash(r) ==
    /\ IsOpen(r)
    /\ requests' = [requests EXCEPT ![r] = Idle]
    /\ lock' = IF requests[r].at = "outside" THEN lock ELSE Orphaned
    /\ seen' = [seen EXCEPT ![r] = EmptyAuthState]
    /\ UNCHANGED <<backend, now, stored, used, told>>

Tick ==
    /\ now < MaxTime
    /\ now' = now + 1
    /\ UNCHANGED <<backend, stored, lock, seen, requests, used, told>>

Next ==
    \/ \E r \in Request :
          \/ Arrives(r) \/ Look(r) \/ LookFails(r) \/ Perform(r)
          \/ Enter(r) \/ Leave(r) \/ Truncate(r) \/ Write(r) \/ Crash(r)
    \/ Tick

Spec == Init /\ [][Next]_vars

-----------------------------------------------------------------------------
(* Properties *)

TypeOK ==
    /\ backend \in {"filesystem", "mongodb"}
    /\ now \in 0..MaxTime
    /\ stored \in AuthState \/ (stored = Torn /\ backend = "filesystem")
    /\ lock \in Request \cup {Free, Orphaned}
    /\ seen \in [Request -> AuthState]
    /\ requests \in [Request -> {Idle, Accepted, Refused} \cup RequestState]
    /\ used \subseteq Account \cup Session \cup Key
    /\ told \in Told

(***************************************************************************)
(* One address has one account, however many administrators, bootstrap     *)
(* requests and starting servers create it at the same time.               *)
(***************************************************************************)
EmailsAreUnique ==
    stored # Torn =>
        \A u, v \in stored.users : u.email = v.email => u = v

(***************************************************************************)
(* Nothing that was answered is lost to another writer, or to a process    *)
(* that dies: the accounts and tokens callers know of are there, ended     *)
(* sessions are gone and ended tokens are revoked.  The file is in pieces  *)
(* only while its writer holds the lock, or died with it.                  *)
(***************************************************************************)
WhatWasAnsweredIsKept ==
    /\ lock = Free => stored # Torn
    /\ stored # Torn =>
          /\ \A e \in told.emails : UserByEmail(stored, e) # {}
          /\ \A key \in told.keys :
                \E k \in stored.tokens : k.id = key /\ (key \in told.ended => k.revoked)
          /\ \A s \in told.ended \cap Session : SessionById(stored, s) = {}

(***************************************************************************)
(* A request that comes after its session was logged out, or its token     *)
(* revoked, is refused, whatever is in flight.                             *)
(***************************************************************************)
EndedCredentialsAreRefused ==
    [][\A r \in Request :
          IsOpen(r) /\ requests'[r] = Accepted => ~requests[r].late]_vars

(***************************************************************************)
(* A session nobody has logged out is good until it expires: a request     *)
(* that asks who holds it is refused only when it reads auth.json in the   *)
(* middle of a write.                                                      *)
(***************************************************************************)
GoodSessionIsAccepted ==
    [][\A r \in Request, s \in told.sessions :
          /\ IsOpen(r)
          /\ requests'[r] = Refused
          /\ requests[r].route = "me"
          /\ requests[r].session = s.id
          /\ s.id \notin told.ended
          /\ now < s.expiresAt
          => stored = Torn]_vars

=============================================================================
