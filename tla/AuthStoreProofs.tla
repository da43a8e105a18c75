--------------------------- MODULE AuthStoreProofs ---------------------------
(***************************************************************************)
(* What AuthStore keeps for any number of requests, accounts, sessions and *)
(* tokens.  Every operation that changes the store is the last one of its  *)
(* route, and it computes from what is stored when it takes effect: in     *)
(* MongoDB because it is one statement, in the file because whoever is     *)
(* between the read and the write holds the lock.                          *)
(***************************************************************************)
EXTENDS AuthStore, TLAPS

(* auth holds what callers know of. *)
Kept(auth, known) ==
    /\ \A e \in known.emails : UserByEmail(auth, e) # {}
    /\ \A key \in known.keys : \E k \in auth.tokens : k.id = key
    /\ \A k \in auth.tokens : k.id \in known.ended => k.revoked
    /\ \A s \in known.ended \cap Session : SessionById(auth, s) = {}

IsUnique(auth) == \A u, v \in auth.users : u.email = v.email => u = v

IsGood(auth, known) == auth \in AuthState /\ IsUnique(auth) /\ Kept(auth, known)

(* What a request still has to do, and what it has for it. *)
IsReady(q) ==
    \/ /\ q.todo = <<"usersExist", "createUser">> \/ q.todo = <<"createUser">>
          \/ q.todo = <<"ensureBootstrapAdmin">> \/ q.todo = <<"verifyPassword", "createSession">>
       /\ q.email \in Email
    \/ /\ q.todo = <<"createSession">> \/ q.todo = <<"createClientToken">>
       /\ q.user \in Account
    \/ /\ q.todo = <<"revokeSession">> \/ q.todo = <<"getSession">>
          \/ q.todo = <<"getSession", "createClientToken">>
       /\ q.session \in Session
    \/ /\ q.todo = <<"getSession", "createUser">>
       /\ q.session \in Session /\ q.email \in Email
    \/ /\ q.todo = <<"getSession", "revokeClientToken">>
       /\ q.session \in Session /\ q.key \in Key
    \/ /\ q.todo = <<"revokeClientToken">> \/ q.todo = <<"verifyClientToken">>
       /\ q.key \in Key

(* An ended session or token does not get past its first operation. *)
IsDoomed(q, known) ==
    \/ Head(q.todo) = "getSession" /\ q.session \in known.ended
    \/ Head(q.todo) = "verifyClientToken" /\ q.key \in known.ended /\ q.at # "writing"

IsSound(r, q, copy, file, holder, kind, known, drawn) ==
    /\ q \in RequestState
    /\ IsReady(q)
    /\ q.at # "outside" => holder = r /\ kind = "filesystem" /\ Head(q.todo) \in Changes
    /\ q.at = "inside" => file = copy /\ file # Torn
    /\ q.at = "writing" =>
          /\ file = Torn
          /\ Answer(known, q, copy) \in Told
          /\ IsGood(copy, Answer(known, q, copy))
          /\ Answer(known, q, copy).ended \subseteq drawn
    /\ q.late => IsDoomed(q, known)

RequestsAreSound ==
    \A r \in Request : IsOpen(r) =>
        IsSound(r, requests[r], seen[r], stored, lock, backend, told, used)

FileIsSound ==
    /\ stored = Torn => lock # Free
    /\ stored # Torn => IsGood(stored, told)
    /\ told.ended \subseteq used

Inv == TypeOK /\ FileIsSound /\ RequestsAreSound

-----------------------------------------------------------------------------
(* What the lists of operations are *)

LEMMA OneOperation ==
    ASSUME NEW a
    PROVE  Head(<<a>>) = a /\ Len(<<a>>) = 1
  OBVIOUS

LEMMA TwoOperations ==
    ASSUME NEW a, NEW b
    PROVE  Head(<<a, b>>) = a /\ Len(<<a, b>>) = 2 /\ Tail(<<a, b>>) = <<b>>
  OBVIOUS

LEMMA Todo ==
    ASSUME NEW q, IsReady(q)
    PROVE  /\ Head(q.todo) \in Reads \cup Changes
           /\ Head(q.todo) \in Changes => Len(q.todo) = 1
           /\ Head(q.todo) \in {"ensureBootstrapAdmin", "createUser"} => q.email \in Email
           /\ Head(q.todo) \in {"createSession", "createClientToken"} => q.user \in Account
           /\ Head(q.todo) = "revokeSession" => q.session \in Session
           /\ Head(q.todo) \in {"revokeClientToken", "verifyClientToken"} => q.key \in Key
           /\ Head(q.todo) = "getSession" => q.session \in Session
  <1> DEFINE Facts(op, n) ==
           /\ op \in Reads \cup Changes
           /\ op \in Changes => n = 1
           /\ op \in {"ensureBootstrapAdmin", "createUser"} => q.email \in Email
           /\ op \in {"createSession", "createClientToken"} => q.user \in Account
           /\ op = "revokeSession" => q.session \in Session
           /\ op \in {"revokeClientToken", "verifyClientToken"} => q.key \in Key
           /\ op = "getSession" => q.session \in Session
  <1>1. SUFFICES Facts(Head(q.todo), Len(q.todo))
    OBVIOUS
  <1>2. CASE q.todo = <<"usersExist", "createUser">> /\ q.email \in Email
    BY <1>2, TwoOperations DEF Reads, Changes
  <1>3. CASE q.todo = <<"createUser">> /\ q.email \in Email
    BY <1>3, OneOperation DEF Reads, Changes
  <1>4. CASE q.todo = <<"ensureBootstrapAdmin">> /\ q.email \in Email
    BY <1>4, OneOperation DEF Reads, Changes
  <1>5. CASE q.todo = <<"verifyPassword", "createSession">>
    BY <1>5, TwoOperations DEF Reads, Changes
  <1>6. CASE q.todo = <<"createSession">> /\ q.user \in Account
    BY <1>6, OneOperation DEF Reads, Changes
  <1>7. CASE q.todo = <<"createClientToken">> /\ q.user \in Account
    BY <1>7, OneOperation DEF Reads, Changes
  <1>8. CASE q.todo = <<"revokeSession">> /\ q.session \in Session
    BY <1>8, OneOperation DEF Reads, Changes
  <1>9. CASE q.todo = <<"getSession">> /\ q.session \in Session
    BY <1>9, OneOperation DEF Reads, Changes
  <1>10. CASE q.session \in Session /\ \E b : q.todo = <<"getSession", b>>
    BY <1>10, TwoOperations DEF Reads, Changes
  <1>11. CASE q.todo = <<"revokeClientToken">> /\ q.key \in Key
    BY <1>11, OneOperation DEF Reads, Changes
  <1>12. CASE q.todo = <<"verifyClientToken">> /\ q.key \in Key
    BY <1>12, OneOperation DEF Reads, Changes
  <1> HIDE DEF Facts
  <1>13. QED
    BY <1>2, <1>3, <1>4, <1>5, <1>6, <1>7, <1>8, <1>9, <1>10, <1>11, <1>12 DEF IsReady

(* What a read leaves to do is one change, and the request is ready for it. *)
LEMMA TodoAfterRead ==
    ASSUME NEW q, IsReady(q), Head(q.todo) \in Reads
    PROVE  \/ Len(q.todo) = 1 /\ Head(q.todo) = "getSession"
           \/ /\ Len(q.todo) = 2
              /\ \/ Tail(q.todo) = <<"createUser">> /\ q.email \in Email
                 \/ /\ Tail(q.todo) = <<"createSession">> \/ Tail(q.todo) = <<"createClientToken">>
                    /\ Head(q.todo) # "usersExist"
                 \/ Tail(q.todo) = <<"revokeClientToken">> /\ q.key \in Key
  <1>1. CASE \E a : q.todo = <<a>>
    BY <1>1, OneOperation DEF IsReady, Reads
  <1>2. CASE q.todo = <<"usersExist", "createUser">> /\ q.email \in Email
    BY <1>2, TwoOperations
  <1>3. CASE q.todo = <<"verifyPassword", "createSession">>
    BY <1>3, TwoOperations
  <1>4. CASE q.todo = <<"getSession", "createClientToken">>
    BY <1>4, TwoOperations
  <1>5. CASE q.todo = <<"getSession", "createUser">> /\ q.email \in Email
    BY <1>5, TwoOperations
  <1>6. CASE q.todo = <<"getSession", "revokeClientToken">> /\ q.key \in Key
    BY <1>6, TwoOperations
  <1>7. QED
    BY <1>1, <1>2, <1>3, <1>4, <1>5, <1>6 DEF IsReady

(* An operation that changes the store is the last one of its route. *)
LEMMA LastAnswers ==
    ASSUME NEW q, IsReady(q), Head(q.todo) \in Changes
    PROVE  Advanced(q) = IF q.expired THEN Refused ELSE Accepted
  <1>1. Len(q.todo) = 1
    BY Todo
  <1>2. ~(Len(q.todo) > 1)
    BY <1>1
  <1>3. QED
    BY <1>2 DEF Advanced

-----------------------------------------------------------------------------
(* What becomes of a request *)

LEMMA FreshIdTypes ==
    ASSUME NEW q \in RequestState, IsReady(q), Head(q.todo) \in Changes,
           NEW id \in FreshIds(Head(q.todo), q)
    PROVE  /\ id \in Account \cup Session \cup Key
           /\ Head(q.todo) \in {"ensureBootstrapAdmin", "createUser"} => id \in Account
           /\ Head(q.todo) = "createSession" => id \in Session /\ id \notin used
           /\ Head(q.todo) = "createClientToken" => id \in Key /\ id \notin used
           /\ Head(q.todo) = "revokeSession" => id = q.session
           /\ Head(q.todo) \in {"revokeClientToken", "verifyClientToken"} => id = q.key
  BY Todo DEF FreshIds, Changes

LEMMA WithIdFields ==
    ASSUME NEW q \in RequestState, NEW id,
           Head(q.todo) = "createSession" => id \in Session,
           Head(q.todo) = "createClientToken" => id \in Key
    PROVE  /\ WithId(q, id) \in RequestState
           /\ WithId(q, id).todo = q.todo
           /\ WithId(q, id).email = q.email
           /\ WithId(q, id).user = q.user
           /\ WithId(q, id).at = q.at
           /\ WithId(q, id).late = q.late
           /\ WithId(q, id).expired = q.expired
           /\ Head(q.todo) = "createSession" => WithId(q, id).session = id
           /\ Head(q.todo) # "createSession" => WithId(q, id).session = q.session
           /\ Head(q.todo) = "createClientToken" => WithId(q, id).key = id
           /\ Head(q.todo) # "createClientToken" => WithId(q, id).key = q.key
  BY DEF WithId, RequestState

LEMMA MovedFields ==
    ASSUME NEW q \in RequestState, NEW at \in {"outside", "inside", "writing"}
    PROVE  /\ [q EXCEPT !.at = at] \in RequestState
           /\ [q EXCEPT !.at = at].todo = q.todo
           /\ [q EXCEPT !.at = at].email = q.email
           /\ [q EXCEPT !.at = at].user = q.user
           /\ [q EXCEPT !.at = at].session = q.session
           /\ [q EXCEPT !.at = at].key = q.key
           /\ [q EXCEPT !.at = at].at = at
           /\ [q EXCEPT !.at = at].late = q.late
           /\ [q EXCEPT !.at = at].expired = q.expired
  BY DEF RequestState

LEMMA WithIdReady ==
    ASSUME NEW q \in RequestState, IsReady(q), NEW x, x.todo = q.todo, x.email = q.email,
           x.user = q.user,
           Head(q.todo) # "createSession" => x.session = q.session,
           Head(q.todo) # "createClientToken" => x.key = q.key
    PROVE  IsReady(x)
  <1>1. CASE q.todo = <<"createSession">> \/ q.todo = <<"createClientToken">>
    BY <1>1, OneOperation DEF IsReady
  <1>2. CASE q.todo # <<"createSession">> /\ q.todo # <<"createClientToken">>
    <2>1. Head(q.todo) # "createSession" /\ Head(q.todo) # "createClientToken"
      BY <1>2, OneOperation, TwoOperations DEF IsReady
    <2>2. QED
      BY <2>1 DEF IsReady
  <1>3. QED
    BY <1>1, <1>2

(* After a read the route goes on, with the account it found. *)
LEMMA AdvancedFacts ==
    ASSUME NEW q \in RequestState, IsReady(q), Head(q.todo) \in Reads,
           Head(q.todo) # "usersExist" => q.user \in Account
    PROVE  \/ Advanced(q) \in {Accepted, Refused}
           \/ /\ Advanced(q) \in RequestState /\ IsReady(Advanced(q))
              /\ Advanced(q).at = "outside" /\ Advanced(q).late = q.late
  <1> DEFINE next == [q EXCEPT !.todo = Tail(@), !.at = "outside"]
  <1>1. CASE Len(q.todo) = 1
    <2>1. ~(Len(q.todo) > 1)
      BY <1>1
    <2>2. QED
      BY <2>1 DEF Advanced
  <1>2. CASE Len(q.todo) = 2
    <2>1. Advanced(q) = next
      BY <1>2 DEF Advanced
    <2>2. Tail(q.todo) \in Seq(Reads \cup Changes)
      BY <1>2 DEF RequestState
    <2>3. /\ next \in RequestState /\ next.todo = Tail(q.todo) /\ next.at = "outside"
          /\ next.late = q.late /\ next.email = q.email /\ next.key = q.key
          /\ next.user = q.user
      BY <2>2 DEF RequestState
    <2> HIDE DEF next
    <2>4. IsReady(next)
      <3>1. \/ Tail(q.todo) = <<"createUser">> /\ q.email \in Email
            \/ /\ Tail(q.todo) = <<"createSession">> \/ Tail(q.todo) = <<"createClientToken">>
               /\ q.user \in Account
            \/ Tail(q.todo) = <<"revokeClientToken">> /\ q.key \in Key
        <4>1. ~(Len(q.todo) = 1)
          BY <1>2
        <4>2. QED
          BY <4>1, TodoAfterRead
      <3>2. QED
        BY <2>3, <3>1 DEF IsReady
    <2>5. QED
      BY <2>1, <2>3, <2>4
  <1>3. QED
    BY <1>1, <1>2, TodoAfterRead

LEMMA FoundFields ==
    ASSUME NEW q \in RequestState, IsReady(q), Head(q.todo) \in Reads, NEW id \in Account
    PROVE  /\ [q EXCEPT !.user = id] \in RequestState
           /\ [q EXCEPT !.user = id].todo = q.todo
           /\ [q EXCEPT !.user = id].late = q.late
           /\ [q EXCEPT !.user = id].user = id
           /\ IsReady([q EXCEPT !.user = id])
  <1> DEFINE next == [q EXCEPT !.user = id]
  <1>1. /\ next \in RequestState /\ next.todo = q.todo /\ next.late = q.late /\ next.user = id
        /\ next.email = q.email /\ next.session = q.session /\ next.key = q.key
    BY DEF RequestState
  <1> HIDE DEF next
  <1>2. IsReady(next)
    BY <1>1 DEF IsReady
  <1>3. QED
    BY <1>1, <1>2 DEF next

(* A read never lets an ended session or token through. *)
LEMMA AfterReadFacts ==
    ASSUME NEW q \in RequestState, IsReady(q), Head(q.todo) \in Reads, q.at = "outside",
           NEW auth \in AuthState,
           q.late => Head(q.todo) = "getSession" /\ SessionById(auth, q.session) = {}
    PROVE  \/ AfterRead(q, auth) = Refused
           \/ AfterRead(q, auth) = Accepted /\ ~q.late
           \/ /\ AfterRead(q, auth) \in RequestState /\ IsReady(AfterRead(q, auth))
              /\ AfterRead(q, auth).at = "outside" /\ ~AfterRead(q, auth).late
  <1> DEFINE x == AfterRead(q, auth)
             sessions == SessionById(auth, q.session)
             found == IF Head(q.todo) = "verifyPassword" THEN UserByEmail(auth, q.email)
                      ELSE {u \in auth.users : \E s \in sessions : s.user = u.id}
             someone == CHOOSE id \in Account : \E u \in found : u.id = id
             next == [q EXCEPT !.user = someone]
             Good(y) == \/ y = Refused
                        \/ y = Accepted /\ ~q.late
                        \/ y \in RequestState /\ IsReady(y) /\ y.at = "outside" /\ ~y.late
  <1>1. CASE Head(q.todo) = "getSession" /\ \E s \in sessions : HasExpired(s)
    <2>1. x = Expired(q)
      BY <1>1 DEF AfterRead
    <2>2. <<"revokeSession">> \in Seq(Reads \cup Changes)
      BY DEF Changes
    <2>3. /\ Expired(q) \in RequestState /\ Expired(q).at = q.at /\ Expired(q).late = q.late
          /\ Expired(q).todo = <<"revokeSession">> /\ Expired(q).session = q.session
      BY <2>2 DEF Expired, RequestState
    <2>4. IsReady(Expired(q)) /\ ~q.late
      BY <2>3, <1>1, Todo DEF IsReady
    <2>5. QED
      BY <2>1, <2>3, <2>4
  <1>2. CASE Head(q.todo) = "usersExist"
    <2>1. x = Advanced(q) \/ x = Refused
      BY <1>2 DEF AfterRead
    <2>2. ~q.late
      BY <1>2
    <2>3. QED
      BY <1>2, <2>1, <2>2, AdvancedFacts
  <1>3. CASE /\ Head(q.todo) # "usersExist"
             /\ ~(Head(q.todo) = "getSession" /\ \E s \in sessions : HasExpired(s))
    <2>1. x = IF found = {} \/ (q.route = "users" /\ \A u \in found : ~u.admin)
              THEN Refused ELSE Advanced(next)
      BY <1>3 DEF AfterRead
    <2>2. CASE found = {}
      BY <2>1, <2>2
    <2>3. CASE found # {}
      <3>1. ~q.late
        BY <2>3
      <3>2. \A u \in found : u.id \in Account
        BY DEF UserByEmail, AuthState, User
      <3>3. someone \in Account
        BY <2>3, <3>2
      <3>4. x = Refused \/ x = Advanced(next)
        BY <2>1
      <3> HIDE DEF someone, found
      <3>5. /\ next \in RequestState /\ next.todo = q.todo /\ next.late = q.late
            /\ next.user \in Account /\ IsReady(next)
        BY <3>3, FoundFields
      <3> HIDE DEF next, x
      <3>6. Good(Advanced(next))
        BY <3>1, <3>5, AdvancedFacts
      <3>7. QED
        BY <3>4, <3>6 DEF x
    <2>4. QED
      BY <2>2, <2>3
  <1>4. QED
    BY <1>1, <1>2, <1>3

-----------------------------------------------------------------------------
(* What an operation stores, and what its answer says *)

LEMMA AnswerFacts ==
    ASSUME NEW known \in Told, NEW x \in RequestState, IsReady(x), Head(x.todo) \in Changes,
           Head(x.todo) = "createSession" => x.session \in Session,
           Head(x.todo) = "createClientToken" => x.key \in Key,
           NEW auth \in AuthState
    PROVE  /\ Answer(known, x, auth) \in Told
           /\ known.ended \subseteq Answer(known, x, auth).ended
           /\ Answer(known, x, auth).emails \subseteq known.emails \cup
                 {e \in Email : /\ Head(x.todo) \in {"ensureBootstrapAdmin", "createUser"}
                                /\ e = x.email}
           /\ Answer(known, x, auth).keys \subseteq known.keys \cup
                 {k \in Key : Head(x.todo) = "createClientToken" /\ k = x.key}
           /\ Answer(known, x, auth).ended \subseteq known.ended \cup
                 {i \in Session \cup Key :
                     \/ Head(x.todo) = "revokeSession" /\ i = x.session
                     \/ Head(x.todo) = "revokeClientToken" /\ i = x.key}
  <1> DEFINE a == Answer(known, x, auth)
             op == Head(x.todo)
             Goal(y) ==
               /\ y \in Told
               /\ known.ended \subseteq y.ended
               /\ y.emails \subseteq known.emails \cup
                     {e \in Email : op \in {"ensureBootstrapAdmin", "createUser"} /\ e = x.email}
               /\ y.keys \subseteq known.keys \cup {k \in Key : op = "createClientToken" /\ k = x.key}
               /\ y.ended \subseteq known.ended \cup
                     {i \in Session \cup Key : \/ op = "revokeSession" /\ i = x.session
                                               \/ op = "revokeClientToken" /\ i = x.key}
  <1>1. CASE Advanced(x) # Accepted
    <2>1. a = known
      BY <1>1 DEF Answer
    <2>2. QED
      BY <2>1
  <1>2. CASE Advanced(x) = Accepted
    <2>1. CASE op \in {"ensureBootstrapAdmin", "createUser"}
      <3>1. a = [known EXCEPT !.emails = @ \cup {x.email}]
        BY <1>2, <2>1 DEF Answer
      <3>2. x.email \in Email
        BY <2>1, Todo
      <3>3. QED
        BY <2>1, <3>1, <3>2 DEF Told
    <2>2. CASE op = "createSession"
      <3>1. a = [known EXCEPT !.sessions = @ \cup SessionById(auth, x.session)]
        BY <1>2, <2>2 DEF Answer
      <3>2. SessionById(auth, x.session) \subseteq StoredSession
        BY DEF SessionById, AuthState
      <3>3. QED
        BY <2>2, <3>1, <3>2 DEF Told
    <2>3. CASE op = "createClientToken"
      <3>1. a = [known EXCEPT !.keys = @ \cup {x.key}]
        BY <1>2, <2>3 DEF Answer
      <3>2. QED
        BY <2>3, <3>1 DEF Told
    <2>4. CASE op = "revokeSession"
      <3>1. a = [known EXCEPT !.ended = @ \cup {x.session}]
        BY <1>2, <2>4 DEF Answer
      <3>2. x.session \in Session
        BY <2>4, Todo
      <3>3. QED
        BY <2>4, <3>1, <3>2 DEF Told
    <2>5. CASE op = "revokeClientToken"
      <3>1. a = [known EXCEPT !.ended = @ \cup {x.key}]
        BY <1>2, <2>5 DEF Answer
      <3>2. x.key \in Key
        BY <2>5, Todo
      <3>3. QED
        BY <2>5, <3>1, <3>2 DEF Told
    <2>6. CASE op = "verifyClientToken"
      <3>1. a = known
        BY <1>2, <2>6 DEF Answer
      <3>2. QED
        BY <3>1
    <2>7. QED
      BY <2>1, <2>2, <2>3, <2>4, <2>5, <2>6 DEF Changes
  <1>3. QED
    BY <1>1, <1>2

(***************************************************************************)
(* What an operation stores holds what its answer adds to what callers     *)
(* know.  x is the request with the id the operation drew.                 *)
(***************************************************************************)
LEMMA ChangeKeeps ==
    ASSUME NEW q \in RequestState, IsReady(q), Head(q.todo) \in Changes,
           NEW known \in Told, known.ended \subseteq used,
           NEW auth, IsGood(auth, known), CanChange(Head(q.todo), auth, q),
           NEW id \in FreshIds(Head(q.todo), q), now \in Nat, Ttl \in Nat,
           NEW x \in RequestState, IsReady(x), x.todo = q.todo, x.email = q.email,
           Head(q.todo) = "createSession" => x.session = id,
           Head(q.todo) # "createSession" => x.session = q.session,
           Head(q.todo) = "createClientToken" => x.key = id,
           Head(q.todo) # "createClientToken" => x.key = q.key,
           NEW copy, copy = Changed(Head(q.todo), auth, id, q)
    PROVE  /\ IsGood(copy, Answer(known, x, copy))
           /\ Answer(known, x, copy) \in Told
           /\ known.ended \subseteq Answer(known, x, copy).ended
           /\ Answer(known, x, copy).ended \subseteq used \cup {id}
  <1> DEFINE op == Head(q.todo)
             new == Answer(known, x, copy)
  <1>1. /\ op \in {"ensureBootstrapAdmin", "createUser"} => id \in Account
        /\ op = "createSession" => id \in Session /\ id \notin used
        /\ op = "createClientToken" => id \in Key /\ id \notin used
        /\ op = "revokeSession" => id = q.session
        /\ op \in {"revokeClientToken", "verifyClientToken"} => id = q.key
    BY FreshIdTypes
  <1>2. /\ op \in {"ensureBootstrapAdmin", "createUser"} => q.email \in Email
        /\ op \in {"createSession", "createClientToken"} => q.user \in Account
        /\ op = "revokeSession" => q.session \in Session
        /\ op \in {"revokeClientToken", "verifyClientToken"} => q.key \in Key
    BY Todo
  <1>3. auth \in AuthState /\ IsUnique(auth) /\ Kept(auth, known)
    BY DEF IsGood
  <1>4. /\ auth.users \subseteq User /\ auth.sessions \subseteq StoredSession
        /\ auth.tokens \subseteq StoredClientToken
    BY <1>3 DEF AuthState
  <1>5. /\ copy \in AuthState
        /\ IsUnique(copy)
        /\ \A e \in known.emails : UserByEmail(copy, e) # {}
        /\ op \in {"ensureBootstrapAdmin", "createUser"} => UserByEmail(copy, q.email) # {}
        /\ \A key \in known.keys : \E k \in copy.tokens : k.id = key
        /\ op = "createClientToken" => \E k \in copy.tokens : k.id = id
        /\ \A k \in copy.tokens : k.id \in known.ended => k.revoked
        /\ op = "revokeClientToken" => \A k \in copy.tokens : k.id = q.key => k.revoked
        /\ \A s \in known.ended \cap Session : SessionById(copy, s) = {}
        /\ op = "revokeSession" => SessionById(copy, q.session) = {}
    <2>1. CASE op \in {"ensureBootstrapAdmin", "createUser"}
      <3> DEFINE u == [id |-> id, email |-> q.email, admin |-> q.admin]
      <3>1. q.admin \in BOOLEAN
        BY DEF RequestState
      <3>2. u \in User
        BY <1>1, <1>2, <2>1, <3>1 DEF User
      <3>3. copy = [auth EXCEPT !.users = @ \cup {u}]
        BY <2>1 DEF Changed, WithUser
      <3>4. u.email = q.email
        OBVIOUS
      <3> HIDE DEF u
      <3>5. /\ copy \in AuthState /\ copy.users = auth.users \cup {u}
            /\ copy.tokens = auth.tokens /\ copy.sessions = auth.sessions
        BY <1>3, <3>2, <3>3 DEF AuthState
      <3>6. \A v \in auth.users : v.email # q.email
        BY <2>1 DEF CanChange, UserByEmail
      <3>7. IsUnique(copy)
        BY <1>3, <3>4, <3>5, <3>6 DEF IsUnique
      <3>8. /\ \A e \in known.emails : UserByEmail(copy, e) # {}
            /\ UserByEmail(copy, q.email) # {}
        BY <1>3, <3>4, <3>5 DEF Kept, UserByEmail
      <3>9. \A s : SessionById(copy, s) = SessionById(auth, s)
        BY <3>5 DEF SessionById
      <3>10. QED
        BY <1>3, <2>1, <3>5, <3>7, <3>8, <3>9 DEF Kept
    <2>2. CASE op = "createSession"
      <3> DEFINE s == [id |-> id, user |-> q.user, expiresAt |-> now + Ttl]
      <3>1. s \in StoredSession
        BY <1>1, <1>2, <2>2 DEF StoredSession
      <3>2. copy = [auth EXCEPT !.sessions = @ \cup {s}]
        BY <2>2 DEF Changed, WithSession
      <3>3. s.id = id
        OBVIOUS
      <3> HIDE DEF s
      <3>4. /\ copy \in AuthState /\ copy.sessions = auth.sessions \cup {s}
            /\ copy.tokens = auth.tokens /\ copy.users = auth.users
        BY <1>3, <3>1, <3>2 DEF AuthState
      <3>5. \A e : UserByEmail(copy, e) = UserByEmail(auth, e)
        BY <3>4 DEF UserByEmail
      <3>6. id \notin known.ended
        BY <1>1, <2>2
      <3>7. \A i \in known.ended \cap Session : SessionById(copy, i) = {}
        BY <1>3, <3>3, <3>4, <3>6 DEF Kept, SessionById
      <3>8. QED
        BY <1>3, <2>2, <3>4, <3>5, <3>7 DEF Kept, IsUnique
    <2>3. CASE op = "revokeSession"
      <3>1. copy = [auth EXCEPT !.sessions = {s \in @ : s.id # id}]
        BY <2>3 DEF Changed, WithoutSession
      <3>2. /\ copy \in AuthState /\ copy.sessions = {s \in auth.sessions : s.id # id}
            /\ copy.tokens = auth.tokens /\ copy.users = auth.users
        BY <1>3, <3>1 DEF AuthState
      <3>3. \A e : UserByEmail(copy, e) = UserByEmail(auth, e)
        BY <3>2 DEF UserByEmail
      <3>4. /\ \A i \in known.ended \cap Session : SessionById(copy, i) = {}
            /\ SessionById(copy, q.session) = {}
        BY <1>1, <1>3, <2>3, <3>2 DEF Kept, SessionById
      <3>5. QED
        BY <1>3, <2>3, <3>2, <3>3, <3>4 DEF Kept, IsUnique
    <2>4. CASE op = "createClientToken"
      <3> DEFINE k == [id |-> id, user |-> q.user, revoked |-> FALSE]
      <3>1. k \in StoredClientToken
        BY <1>1, <1>2, <2>4 DEF StoredClientToken
      <3>2. copy = [auth EXCEPT !.tokens = @ \cup {k}]
        BY <2>4 DEF Changed, WithToken
      <3>3. k.id = id
        OBVIOUS
      <3> HIDE DEF k
      <3>4. /\ copy \in AuthState /\ copy.tokens = auth.tokens \cup {k}
            /\ copy.sessions = auth.sessions /\ copy.users = auth.users
        BY <1>3, <3>1, <3>2 DEF AuthState
      <3>5. \A e : UserByEmail(copy, e) = UserByEmail(auth, e)
        BY <3>4 DEF UserByEmail
      <3>6. \A i : SessionById(copy, i) = SessionById(auth, i)
        BY <3>4 DEF SessionById
      <3>7. id \notin known.ended
        BY <1>1, <2>4
      <3>8. QED
        BY <1>3, <2>4, <3>3, <3>4, <3>5, <3>6, <3>7 DEF Kept, IsUnique
    <2>5. CASE op = "revokeClientToken"
      <3> DEFINE Cut(k) == [k EXCEPT !.revoked = @ \/ k.id = id]
      <3>1. copy = [auth EXCEPT !.tokens = {Cut(k) : k \in @}]
        BY <2>5 DEF Changed, WithRevoked
      <3>2. ASSUME NEW k \in StoredClientToken
            PROVE  /\ Cut(k) \in StoredClientToken
                   /\ Cut(k).id = k.id
                   /\ k.revoked => Cut(k).revoked
                   /\ k.id = id => Cut(k).revoked
        BY DEF StoredClientToken
      <3> HIDE DEF Cut
      <3>3. /\ copy.tokens = {Cut(k) : k \in auth.tokens}
            /\ copy.sessions = auth.sessions /\ copy.users = auth.users
        BY <1>3, <3>1 DEF AuthState
      <3>4. copy.tokens \subseteq StoredClientToken
        BY <1>4, <3>2, <3>3
      <3>5. copy \in AuthState
        BY <1>3, <3>1, <3>4 DEF AuthState
      <3>6. \A e : UserByEmail(copy, e) = UserByEmail(auth, e)
        BY <3>3 DEF UserByEmail
      <3>7. \A i : SessionById(copy, i) = SessionById(auth, i)
        BY <3>3 DEF SessionById
      <3>8. \A key \in known.keys : \E k \in copy.tokens : k.id = key
        BY <1>3, <1>4, <3>2, <3>3 DEF Kept
      <3>9. /\ \A k \in copy.tokens : k.id \in known.ended => k.revoked
            /\ \A k \in copy.tokens : k.id = id => k.revoked
        BY <1>3, <1>4, <3>2, <3>3 DEF Kept
      <3>10. QED
        BY <1>1, <1>3, <2>5, <3>3, <3>5, <3>6, <3>7, <3>8, <3>9 DEF Kept, IsUnique
    <2>6. CASE op = "verifyClientToken"
      <3>1. copy = auth
        BY <2>6 DEF Changed
      <3>2. QED
        BY <1>3, <2>6, <3>1 DEF Kept
    <2>7. QED
      BY <2>1, <2>2, <2>3, <2>4, <2>5, <2>6 DEF Changes
  <1> HIDE DEF op
  <1>6. /\ Head(x.todo) = op /\ op \in Changes
        /\ op = "createSession" => x.session \in Session
        /\ op = "createClientToken" => x.key \in Key
    BY <1>1 DEF op
  <1>7. /\ new \in Told
        /\ known.ended \subseteq new.ended
        /\ new.emails \subseteq known.emails \cup
              {e \in Email : op \in {"ensureBootstrapAdmin", "createUser"} /\ e = q.email}
        /\ new.keys \subseteq known.keys \cup {k \in Key : op = "createClientToken" /\ k = id}
        /\ new.ended \subseteq known.ended \cup
              {i \in Session \cup Key : \/ op = "revokeSession" /\ i = q.session
                                        \/ op = "revokeClientToken" /\ i = q.key}
    BY <1>5, <1>6, AnswerFacts DEF op
  <1> HIDE DEF new
  <1>8. new.ended \subseteq used \cup {id}
    BY <1>1, <1>7
  <1>9. Kept(copy, new)
    <2>1. \A e \in new.emails : UserByEmail(copy, e) # {}
      BY <1>5, <1>7
    <2>2. \A key \in new.keys : \E k \in copy.tokens : k.id = key
      BY <1>5, <1>7
    <2>3. \A k \in copy.tokens : k.id \in new.ended => k.revoked
      <3>1. op = "revokeSession" => q.session \notin Key
        BY <1>2, AuthAssumption
      <3>2. \A k \in copy.tokens : k.id \in Key
        BY <1>5 DEF AuthState, StoredClientToken
      <3>3. QED
        BY <1>5, <1>7, <3>1, <3>2
    <2>4. \A s \in new.ended \cap Session : SessionById(copy, s) = {}
      <3>1. op = "revokeClientToken" => q.key \notin Session
        BY <1>2, AuthAssumption
      <3>2. QED
        BY <1>5, <1>7, <3>1
    <2>5. QED
      BY <2>1, <2>2, <2>3, <2>4 DEF Kept
  <1>10. QED
    BY <1>5, <1>7, <1>8, <1>9 DEF IsGood, new

-----------------------------------------------------------------------------
(* What a step of one request must show for the invariant to survive it *)

(* A sound request stays so while others act: outside the file whatever    *)
(* they answer, inside because they do not get at the file.                *)
LEMMA StaysSound ==
    ASSUME NEW r, NEW q, NEW copy, NEW kind,
           NEW file, NEW holder, NEW known, NEW drawn,
           NEW file2, NEW holder2, NEW known2, NEW drawn2,
           IsSound(r, q, copy, file, holder, kind, known, drawn),
           known.ended \subseteq known2.ended, drawn \subseteq drawn2,
           q.at = "outside" \/ (file2 = file /\ holder2 = holder /\ known2 = known)
    PROVE  IsSound(r, q, copy, file2, holder2, kind, known2, drawn2)
  <1>1. IsDoomed(q, known) => IsDoomed(q, known2)
    BY DEF IsDoomed
  <1>2. CASE q.at = "outside"
    BY <1>1, <1>2 DEF IsSound
  <1>3. CASE q.at # "outside"
    BY <1>1, <1>3 DEF IsSound
  <1>4. QED
    BY <1>2, <1>3

Answers == {Idle, Accepted, Refused}

(* What the step leaves to the others: the file and the lock, or it had    *)
(* the lock, or took a free one, or there is no file.                      *)
LeavesOthersAlone(r) ==
    \/ lock = r
    \/ lock = Free
    \/ backend = "mongodb"
    \/ stored' = stored /\ lock' = lock /\ told' = told

LEMMA StepKeepsInv ==
    ASSUME Inv, NEW r \in Request, LeavesOthersAlone(r),
           backend' = backend, now' = now,
           requests' = [requests EXCEPT ![r] = requests'[r]],
           seen' = [seen EXCEPT ![r] = seen'[r]],
           seen'[r] \in AuthState,
           requests'[r] \in Answers
              \/ IsSound(r, requests'[r], seen'[r], stored', lock', backend', told', used'),
           stored' \in AuthState \/ (stored' = Torn /\ backend = "filesystem"),
           lock' \in Request \cup {Free, Orphaned},
           used' \subseteq Account \cup Session \cup Key,
           told' \in Told, used \subseteq used', told.ended \subseteq told'.ended,
           stored' = Torn => lock' # Free,
           stored' # Torn => IsGood(stored', told'),
           told'.ended \subseteq used'
    PROVE  Inv'
  <1>1. requests'[r] \in Answers \cup RequestState
    BY DEF IsSound
  <1>2. /\ requests' \in [Request -> Answers \cup RequestState]
        /\ \A s \in Request : s # r => requests'[s] = requests[s]
    BY <1>1 DEF Inv, TypeOK, Answers
  <1>3. /\ seen' \in [Request -> AuthState]
        /\ \A s \in Request : s # r => seen'[s] = seen[s]
    BY DEF Inv, TypeOK
  <1>4. TypeOK'
    BY <1>2, <1>3 DEF Inv, TypeOK, Answers
  <1>5. FileIsSound'
    BY DEF FileIsSound
  <1>6. ASSUME NEW s \in Request, IsOpen(s)'
        PROVE  IsSound(s, requests'[s], seen'[s], stored', lock', backend', told', used')
    <2>1. CASE s = r
      BY <1>6, <2>1 DEF IsOpen, Answers
    <2>2. CASE s # r
      <3>1. requests'[s] = requests[s] /\ seen'[s] = seen[s]
        BY <1>2, <1>3, <2>2
      <3>2. IsSound(s, requests[s], seen[s], stored, lock, backend, told, used)
        BY <1>6, <3>1 DEF Inv, RequestsAreSound, IsOpen
      <3>3. requests[s].at # "outside" => lock = s /\ backend = "filesystem"
        BY <3>2 DEF IsSound
      <3>4. s # Free
        BY AuthAssumption
      <3>5. \/ requests[s].at = "outside"
            \/ stored' = stored /\ lock' = lock /\ told' = told
        BY <2>2, <3>3, <3>4 DEF LeavesOthersAlone
      <3>6. QED
        BY <3>1, <3>2, <3>5, StaysSound
    <2>3. QED
      BY <2>1, <2>2
  <1>7. RequestsAreSound'
    BY <1>6 DEF RequestsAreSound
  <1>8. QED
    BY <1>4, <1>5, <1>7 DEF Inv

(* The invariant, for one request and for the store. *)
LEMMA InvFacts ==
    ASSUME Inv, NEW r \in Request
    PROVE  /\ backend \in {"filesystem", "mongodb"} /\ now \in Nat
           /\ stored \in AuthState \/ (stored = Torn /\ backend = "filesystem")
           /\ lock \in Request \cup {Free, Orphaned}
           /\ DOMAIN seen = Request /\ seen[r] \in AuthState
           /\ DOMAIN requests = Request
           /\ used \subseteq Account \cup Session \cup Key
           /\ told \in Told /\ told.ended \subseteq used
           /\ stored = Torn => lock # Free
           /\ stored # Torn => IsGood(stored, told)
           /\ IsOpen(r) => /\ requests[r] \in RequestState
                           /\ IsReady(requests[r])
                           /\ IsSound(r, requests[r], seen[r], stored, lock, backend, told, used)
  <1>1. now \in Nat
    BY AuthAssumption DEF Inv, TypeOK
  <1>2. /\ backend \in {"filesystem", "mongodb"}
        /\ stored \in AuthState \/ (stored = Torn /\ backend = "filesystem")
        /\ lock \in Request \cup {Free, Orphaned}
        /\ DOMAIN seen = Request /\ seen[r] \in AuthState
        /\ DOMAIN requests = Request
        /\ used \subseteq Account \cup Session \cup Key
        /\ told \in Told
    BY DEF Inv, TypeOK
  <1>3. /\ told.ended \subseteq used
        /\ stored = Torn => lock # Free
        /\ stored # Torn => IsGood(stored, told)
    BY DEF Inv, FileIsSound
  <1>4. IsOpen(r) => IsSound(r, requests[r], seen[r], stored, lock, backend, told, used)
    BY DEF Inv, RequestsAreSound
  <1>5. IsOpen(r) => requests[r] \in RequestState /\ IsReady(requests[r])
    BY <1>4 DEF IsSound
  <1>6. QED
    BY <1>1, <1>2, <1>3, <1>4, <1>5

LEMMA EmptyIsState == EmptyAuthState \in AuthState
  BY DEF EmptyAuthState, AuthState

(* A request that is not open any more, with the store as it was. *)
LEMMA EndKeepsInv ==
    ASSUME Inv, NEW r \in Request,
           backend' = backend, now' = now, stored' = stored, used' = used, told' = told,
           requests' = [requests EXCEPT ![r] = requests'[r]], requests'[r] \in Answers,
           seen' = [seen EXCEPT ![r] = seen'[r]], seen'[r] \in AuthState,
           \/ lock' = lock
           \/ lock = r /\ lock' = Orphaned
           \/ lock = r /\ lock' = Free /\ stored # Torn
    PROVE  Inv'
  <1>1. stored' = Torn => lock' # Free
    BY InvFacts, AuthAssumption
  <1>2. lock' \in Request \cup {Free, Orphaned}
    BY InvFacts
  <1>3. LeavesOthersAlone(r)
    BY DEF LeavesOthersAlone
  <1>4. QED
    BY <1>1, <1>2, <1>3, InvFacts, StepKeepsInv

-----------------------------------------------------------------------------
(* Every step keeps the invariant *)

(* What callers come with suffices for the first operation of the route. *)
Comes(route, operations, given) ==
    /\ route \in DOMAIN Route \cup {"startup"}
    /\ operations \in Seq(Reads \cup Changes)
    /\ given.email \in Email \cup {Nobody} /\ given.admin \in BOOLEAN
    /\ given.session \in Session \cup {Nobody} /\ given.key \in Key \cup {Nobody}
    /\ route = "token" => Head(operations) = "verifyClientToken"
    /\ route = "me" => operations = <<"getSession">>
    /\ Head(operations) # "createSession"
    /\ \A q : /\ q.todo = operations /\ q.email = given.email
              /\ q.session = given.session /\ q.key = given.key
              => IsReady(q)

LEMMA BeginKeepsInv ==
    ASSUME Inv, NEW r \in Request, NEW route, NEW operations, NEW given,
           Comes(route, operations, given), Begin(r, route, operations, given)
    PROVE  Inv'
  <1> DEFINE late == \/ route = "token" /\ given.key \in told.ended
                     \/ Head(operations) = "getSession" /\ given.session \in told.ended
             q == [route |-> route, todo |-> operations,
                   email |-> given.email, admin |-> given.admin,
                   session |-> given.session, key |-> given.key,
                   user |-> Nobody, at |-> "outside", late |-> late, expired |-> FALSE]
  <1>1. /\ requests' = [requests EXCEPT ![r] = q]
        /\ UNCHANGED <<backend, now, stored, lock, seen, used, told>>
    BY DEF Begin
  <1>2. late \in BOOLEAN
    OBVIOUS
  <1>3. late => \/ Head(operations) = "verifyClientToken" /\ given.key \in told.ended
                \/ Head(operations) = "getSession" /\ given.session \in told.ended
    BY DEF Comes
  <1> HIDE DEF late
  <1>4. /\ q \in RequestState
        /\ q.todo = operations /\ q.email = given.email /\ q.session = given.session
        /\ q.key = given.key /\ q.at = "outside" /\ q.late = late
    BY <1>2 DEF Comes, RequestState
  <1> HIDE DEF q
  <1>5. IsReady(q)
    BY <1>4 DEF Comes
  <1>6. q.late => IsDoomed(q, told)
    BY <1>3, <1>4 DEF IsDoomed
  <1>7. IsSound(r, q, seen[r], stored, lock, backend, told, used)
    BY <1>4, <1>5, <1>6 DEF IsSound
  <1>8. requests'[r] = q /\ seen' = [seen EXCEPT ![r] = seen'[r]]
    BY <1>1, InvFacts DEF Inv, TypeOK
  <1>9. LeavesOthersAlone(r)
    BY <1>1 DEF LeavesOthersAlone
  <1>10. QED
    BY <1>1, <1>7, <1>8, <1>9, InvFacts, StepKeepsInv

HasGiven(given, e, b, s, k) ==
    given.email = e /\ given.admin = b /\ given.session = s /\ given.key = k

LEMMA NothingFields ==
    ASSUME NEW e, NEW b, NEW s, NEW k
    PROVE  /\ HasGiven([Nothing EXCEPT !.email = e, !.admin = b], e, b, Nobody, Nobody)
           /\ HasGiven([Nothing EXCEPT !.email = e], e, FALSE, Nobody, Nobody)
           /\ HasGiven([Nothing EXCEPT !.session = s], Nobody, FALSE, s, Nobody)
           /\ HasGiven([[Nothing EXCEPT !.session = s] EXCEPT !.email = e, !.admin = b],
                       e, b, s, Nobody)
           /\ HasGiven([[Nothing EXCEPT !.session = s] EXCEPT !.key = k], Nobody, FALSE, s, k)
           /\ HasGiven([Nothing EXCEPT !.key = k], Nobody, FALSE, Nobody, k)
  BY DEF Nothing, HasGiven

LEMMA ArrivesComes ==
    ASSUME Inv, NEW r \in Request, Arrives(r)
    PROVE  \E route, operations, given :
              Comes(route, operations, given) /\ Begin(r, route, operations, given)
  <1>1. /\ \A s \in told.sessions : s.id \in Session
        /\ told.keys \subseteq Key
    BY InvFacts DEF Told, StoredSession
  <1>2. DOMAIN Route = {"bootstrap", "login", "logout", "me", "users", "mint", "revoke", "token"}
    BY DEF Route
  <1>3. /\ Route.bootstrap = <<"usersExist", "createUser">>
        /\ Route.login = <<"verifyPassword", "createSession">>
        /\ Route.users = <<"getSession", "createUser">>
        /\ Route.revoke = <<"getSession", "revokeClientToken">>
        /\ Route.token = <<"verifyClientToken">>
        /\ Route["logout"] = <<"revokeSession">>
        /\ Route["me"] = <<"getSession">>
        /\ Route["mint"] = <<"getSession", "createClientToken">>
    BY DEF Route
  <1>4. ASSUME NEW e \in Email, NEW given
        PROVE  /\ HasGiven(given, e, TRUE, Nobody, Nobody) =>
                     /\ Comes("startup", StartUp, given)
                     /\ Comes("bootstrap", Route.bootstrap, given)
               /\ HasGiven(given, e, FALSE, Nobody, Nobody) => Comes("login", Route.login, given)
    <2>1. StartUp = <<"usersExist", "createUser">> \/ StartUp = <<"ensureBootstrapAdmin">>
      BY <1>3 DEF StartUp
    <2>2. /\ <<"usersExist", "createUser">> \in Seq(Reads \cup Changes)
          /\ <<"ensureBootstrapAdmin">> \in Seq(Reads \cup Changes)
          /\ <<"verifyPassword", "createSession">> \in Seq(Reads \cup Changes)
      BY DEF Reads, Changes
    <2>3. /\ Head(<<"usersExist", "createUser">>) # "createSession"
          /\ Head(<<"ensureBootstrapAdmin">>) # "createSession"
          /\ Head(<<"verifyPassword", "createSession">>) # "createSession"
      BY OneOperation, TwoOperations
    <2>4. HasGiven(given, e, TRUE, Nobody, Nobody) =>
             /\ Comes("bootstrap", <<"usersExist", "createUser">>, given)
             /\ Comes("startup", <<"usersExist", "createUser">>, given)
             /\ Comes("startup", <<"ensureBootstrapAdmin">>, given)
      BY <1>2, <2>2, <2>3 DEF Comes, IsReady, HasGiven
    <2>5. HasGiven(given, e, FALSE, Nobody, Nobody) =>
             Comes("login", <<"verifyPassword", "createSession">>, given)
      BY <1>2, <2>2, <2>3 DEF Comes, IsReady, HasGiven
    <2>6. QED
      BY <1>3, <2>1, <2>4, <2>5
  <1>5. ASSUME NEW s \in Session, NEW given
        PROVE  /\ HasGiven(given, Nobody, FALSE, s, Nobody) =>
                     \A route \in {"logout", "me", "mint"} : Comes(route, Route[route], given)
               /\ \A e \in Email, b \in BOOLEAN :
                     HasGiven(given, e, b, s, Nobody) => Comes("users", Route.users, given)
               /\ \A k \in Key :
                     HasGiven(given, Nobody, FALSE, s, k) => Comes("revoke", Route.revoke, given)
    <2>1. /\ <<"revokeSession">> \in Seq(Reads \cup Changes)
          /\ <<"getSession">> \in Seq(Reads \cup Changes)
          /\ <<"getSession", "createClientToken">> \in Seq(Reads \cup Changes)
          /\ <<"getSession", "createUser">> \in Seq(Reads \cup Changes)
          /\ <<"getSession", "revokeClientToken">> \in Seq(Reads \cup Changes)
      BY DEF Reads, Changes
    <2>2. /\ Head(<<"revokeSession">>) # "createSession"
          /\ Head(<<"getSession">>) # "createSession"
          /\ Head(<<"getSession", "createClientToken">>) # "createSession"
          /\ Head(<<"getSession", "createUser">>) # "createSession"
          /\ Head(<<"getSession", "revokeClientToken">>) # "createSession"
      BY OneOperation, TwoOperations
    <2>3. HasGiven(given, Nobody, FALSE, s, Nobody) =>
             /\ Comes("logout", <<"revokeSession">>, given)
             /\ Comes("me", <<"getSession">>, given)
             /\ Comes("mint", <<"getSession", "createClientToken">>, given)
      BY <1>2, <2>1, <2>2 DEF Comes, IsReady, HasGiven
    <2>4. \A e \in Email, b \in BOOLEAN : HasGiven(given, e, b, s, Nobody) =>
             Comes("users", <<"getSession", "createUser">>, given)
      BY <1>2, <2>1, <2>2 DEF Comes, IsReady, HasGiven
    <2>5. \A k \in Key : HasGiven(given, Nobody, FALSE, s, k) =>
             Comes("revoke", <<"getSession", "revokeClientToken">>, given)
      BY <1>2, <2>1, <2>2 DEF Comes, IsReady, HasGiven
    <2>6. QED
      BY <1>3, <2>3, <2>4, <2>5
  <1>6. ASSUME NEW k \in Key, NEW given, HasGiven(given, Nobody, FALSE, Nobody, k)
        PROVE  Comes("token", Route.token, given)
    <2>1. <<"verifyClientToken">> \in Seq(Reads \cup Changes)
      BY DEF Changes
    <2>2. Comes("token", <<"verifyClientToken">>, given)
      BY <1>2, <1>6, <2>1, OneOperation DEF Comes, IsReady, HasGiven
    <2>3. QED
      BY <1>3, <2>2
  <1>7. QED
    <2>1. CASE \E e \in Email :
                 LET given == [Nothing EXCEPT !.email = e, !.admin = TRUE] IN
                 \/ Begin(r, "startup", StartUp, given)
                 \/ Begin(r, "bootstrap", Route.bootstrap, given)
      BY <1>4, <2>1, NothingFields
    <2>2. CASE \E e \in Email : Begin(r, "login", Route.login, [Nothing EXCEPT !.email = e])
      BY <1>4, <2>2, NothingFields
    <2>3. CASE \E s \in told.sessions : \E route \in {"logout", "me", "mint"} :
                 Begin(r, route, Route[route], [Nothing EXCEPT !.session = s.id])
      <3>1. PICK s \in told.sessions : \E route \in {"logout", "me", "mint"} :
                 Begin(r, route, Route[route], [Nothing EXCEPT !.session = s.id])
        BY <2>3
      <3>2. s.id \in Session
        BY <1>1
      <3> DEFINE given == [Nothing EXCEPT !.session = s.id]
      <3>3. HasGiven(given, Nobody, FALSE, s.id, Nobody)
        BY NothingFields
      <3>4. \E route \in {"logout", "me", "mint"} : Begin(r, route, Route[route], given)
        BY <3>1
      <3> HIDE DEF given
      <3>5. QED
        BY <1>5, <3>2, <3>3, <3>4
    <2>4. CASE \E s \in told.sessions : \E e \in Email, admin \in Wanted :
                 Begin(r, "users", Route.users,
                       [[Nothing EXCEPT !.session = s.id] EXCEPT !.email = e, !.admin = admin])
      <3>1. PICK s \in told.sessions, e \in Email, admin \in Wanted :
                 Begin(r, "users", Route.users,
                       [[Nothing EXCEPT !.session = s.id] EXCEPT !.email = e, !.admin = admin])
        BY <2>4
      <3>2. s.id \in Session /\ admin \in BOOLEAN
        BY <1>1, AuthAssumption
      <3> DEFINE given == [[Nothing EXCEPT !.session = s.id] EXCEPT !.email = e, !.admin = admin]
      <3>3. HasGiven(given, e, admin, s.id, Nobody)
        BY NothingFields
      <3>4. Begin(r, "users", Route.users, given)
        BY <3>1
      <3> HIDE DEF given
      <3>5. QED
        BY <1>5, <3>2, <3>3, <3>4
    <2>5. CASE \E s \in told.sessions : \E k \in told.keys :
                 Begin(r, "revoke", Route.revoke,
                       [[Nothing EXCEPT !.session = s.id] EXCEPT !.key = k])
      <3>1. PICK s \in told.sessions, k \in told.keys :
                 Begin(r, "revoke", Route.revoke,
                       [[Nothing EXCEPT !.session = s.id] EXCEPT !.key = k])
        BY <2>5
      <3>2. s.id \in Session /\ k \in Key
        BY <1>1
      <3> DEFINE given == [[Nothing EXCEPT !.session = s.id] EXCEPT !.key = k]
      <3>3. HasGiven(given, Nobody, FALSE, s.id, k)
        BY NothingFields
      <3>4. Begin(r, "revoke", Route.revoke, given)
        BY <3>1
      <3> HIDE DEF given
      <3>5. QED
        BY <1>5, <3>2, <3>3, <3>4
    <2>6. CASE \E k \in told.keys : Begin(r, "token", Route.token, [Nothing EXCEPT !.key = k])
      BY <1>1, <1>6, <2>6, NothingFields
    <2>7. QED
      BY <2>1, <2>2, <2>3, <2>4, <2>5, <2>6 DEF Arrives
LEMMA ArrivesKeepsInv ==
    ASSUME Inv, NEW r \in Request, Arrives(r)
    PROVE  Inv'
  BY ArrivesComes, BeginKeepsInv

(* One lemma for each action; with it, what it means for a late request. *)
LEMMA LookStep ==
    ASSUME Inv, NEW r \in Request, Look(r)
    PROVE  Inv' /\ (requests'[r] = Accepted => ~requests[r].late)
  <1> DEFINE q == requests[r]
             auth == IF stored = Torn THEN EmptyAuthState ELSE stored
  <1>1. /\ IsOpen(r) /\ Head(q.todo) \in Reads
        /\ requests' = [requests EXCEPT ![r] = AfterRead(q, auth)]
        /\ UNCHANGED <<backend, now, stored, lock, seen, used, told>>
    BY DEF Look, IsNext
  <1>2. /\ q \in RequestState /\ IsReady(q)
        /\ IsSound(r, q, seen[r], stored, lock, backend, told, used)
    BY <1>1, InvFacts
  <1>3. Head(q.todo) \notin Changes
    BY <1>1 DEF Reads, Changes
  <1>4. q.at = "outside" /\ (q.late => IsDoomed(q, told))
    BY <1>2, <1>3 DEF IsSound
  <1>5. auth \in AuthState
    BY InvFacts, EmptyIsState
  <1>6. ASSUME q.late
        PROVE  Head(q.todo) = "getSession" /\ SessionById(auth, q.session) = {}
    <2>1. Head(q.todo) = "getSession" /\ q.session \in told.ended
      BY <1>1, <1>4, <1>6 DEF IsDoomed, Reads
    <2>2. q.session \in Session
      BY <1>2, <2>1, Todo
    <2>3. CASE stored = Torn
      BY <2>1, <2>3 DEF SessionById, EmptyAuthState
    <2>4. CASE stored # Torn
      <3>1. Kept(stored, told)
        BY <2>4, InvFacts DEF IsGood
      <3>2. QED
        BY <2>1, <2>2, <2>4, <3>1 DEF Kept
    <2>5. QED
      BY <2>3, <2>4
  <1> DEFINE x == AfterRead(q, auth)
  <1>7. /\ requests'[r] = x /\ requests' = [requests EXCEPT ![r] = requests'[r]]
        /\ seen' = [seen EXCEPT ![r] = seen'[r]]
    BY <1>1, InvFacts DEF Inv, TypeOK
  <1>8. \/ x = Refused
        \/ x = Accepted /\ ~q.late
        \/ x \in RequestState /\ IsReady(x) /\ x.at = "outside" /\ ~x.late
    BY <1>1, <1>2, <1>4, <1>5, <1>6, AfterReadFacts
  <1>9. Accepted \notin RequestState /\ Accepted # Refused
    BY AuthAssumption, SentinelAssumption
  <1> HIDE DEF x, auth
  <1>10. \/ x \in Answers
         \/ IsSound(r, x, seen'[r], stored', lock', backend', told', used')
    BY <1>8 DEF IsSound, Answers
  <1>11. LeavesOthersAlone(r)
    BY <1>1 DEF LeavesOthersAlone
  <1>12. Inv'
    BY <1>1, <1>7, <1>10, <1>11, InvFacts, StepKeepsInv
  <1>13. QED
    BY <1>7, <1>8, <1>9, <1>12

LEMMA LookFailsStep ==
    ASSUME Inv, NEW r \in Request, LookFails(r)
    PROVE  Inv' /\ requests'[r] = Refused
  <1>1. /\ requests' = [requests EXCEPT ![r] = Refused]
        /\ UNCHANGED <<backend, now, stored, lock, seen, used, told>>
    BY DEF LookFails
  <1>2. requests'[r] = Refused /\ seen' = [seen EXCEPT ![r] = seen'[r]]
    BY <1>1, InvFacts DEF Inv, TypeOK
  <1>3. QED
    BY <1>1, <1>2, InvFacts, EndKeepsInv DEF Answers

(* An ended token is not good for the check the operation makes. *)
LEMMA DoomedCannotChange ==
    ASSUME NEW q, NEW auth, NEW known, IsGood(auth, known), IsDoomed(q, known),
           Head(q.todo) \in Changes
    PROVE  ~CanChange(Head(q.todo), auth, q)
  <1>1. Head(q.todo) = "verifyClientToken" /\ q.key \in known.ended
    BY DEF IsDoomed, Changes
  <1>2. QED
    BY <1>1 DEF CanChange, IsGood, Kept

(* What a request stores once it has drawn its id. *)
LEMMA DrawnFacts ==
    ASSUME Inv, NEW r \in Request, IsOpen(r), Head(requests[r].todo) \in Changes,
           NEW auth, IsGood(auth, told), CanChange(Head(requests[r].todo), auth, requests[r]),
           NEW id \in FreshIds(Head(requests[r].todo), requests[r]),
           NEW copy, copy = Changed(Head(requests[r].todo), auth, id, requests[r]),
           NEW x \in RequestState,
           x.todo = requests[r].todo, x.email = requests[r].email, x.user = requests[r].user,
           x.session = WithId(requests[r], id).session, x.key = WithId(requests[r], id).key
    PROVE  /\ IsReady(x) /\ ~requests[r].late
           /\ IsGood(copy, Answer(told, x, copy))
           /\ Answer(told, x, copy) \in Told
           /\ told.ended \subseteq Answer(told, x, copy).ended
           /\ Answer(told, x, copy).ended \subseteq used \cup {id}
           /\ id \in Account \cup Session \cup Key
  <1> DEFINE q == requests[r]
  <1>1. /\ q \in RequestState /\ IsReady(q)
        /\ IsSound(r, q, seen[r], stored, lock, backend, told, used)
        /\ told \in Told /\ told.ended \subseteq used /\ now \in Nat
    BY InvFacts
  <1>2. /\ id \in Account \cup Session \cup Key
        /\ Head(q.todo) = "createSession" => id \in Session
        /\ Head(q.todo) = "createClientToken" => id \in Key
    BY <1>1, FreshIdTypes
  <1>3. /\ Head(q.todo) = "createSession" => x.session = id
        /\ Head(q.todo) # "createSession" => x.session = q.session
        /\ Head(q.todo) = "createClientToken" => x.key = id
        /\ Head(q.todo) # "createClientToken" => x.key = q.key
    BY <1>1, <1>2, WithIdFields
  <1>4. ~q.late
    BY <1>1, DoomedCannotChange DEF IsSound
  <1> HIDE DEF q
  <1>5. IsReady(x)
    BY <1>1, <1>3, WithIdReady DEF q
  <1>6. Ttl \in Nat
    BY AuthAssumption
  <1>7. /\ IsGood(copy, Answer(told, x, copy))
        /\ Answer(told, x, copy) \in Told
        /\ told.ended \subseteq Answer(told, x, copy).ended
        /\ Answer(told, x, copy).ended \subseteq used \cup {id}
    BY <1>1, <1>3, <1>5, <1>6, ChangeKeeps DEF q
  <1>8. QED
    BY <1>2, <1>4, <1>5, <1>7 DEF q

LEMMA PerformStep ==
    ASSUME Inv, NEW r \in Request, Perform(r)
    PROVE  Inv' /\ (requests'[r] = Accepted => ~requests[r].late)
  <1> DEFINE q == requests[r]
             op == Head(q.todo)
  <1>1. backend = "mongodb" /\ IsOpen(r) /\ op \in Changes
    BY DEF Perform, IsNext
  <1>2. stored # Torn /\ IsGood(stored, told) /\ q \in RequestState /\ IsReady(q)
    BY <1>1, InvFacts, SentinelAssumption
  <1>3. LeavesOthersAlone(r)
    BY <1>1 DEF LeavesOthersAlone
  <1>4. CASE /\ CanChange(op, stored, q)
             /\ \E id \in FreshIds(op, q) :
                   /\ stored' = Changed(op, stored, id, q)
                   /\ used' = used \cup {id}
                   /\ requests' = [requests EXCEPT ![r] = Advanced(WithId(q, id))]
                   /\ told' = Answer(told, WithId(q, id), stored')
             /\ UNCHANGED <<backend, now, lock, seen>>
    <2>1. PICK id \in FreshIds(op, q) :
                   /\ stored' = Changed(op, stored, id, q)
                   /\ used' = used \cup {id}
                   /\ requests' = [requests EXCEPT ![r] = Advanced(WithId(q, id))]
                   /\ told' = Answer(told, WithId(q, id), stored')
      BY <1>4
    <2> DEFINE x == WithId(q, id)
    <2>2. /\ op = "createSession" => id \in Session
          /\ op = "createClientToken" => id \in Key
      BY <1>1, <1>2, FreshIdTypes
    <2>3. x \in RequestState /\ x.todo = q.todo /\ x.email = q.email /\ x.user = q.user
      BY <1>2, <2>2, WithIdFields
    <2>4. /\ IsReady(x) /\ ~q.late
          /\ IsGood(stored', told')
          /\ told' \in Told
          /\ told.ended \subseteq told'.ended
          /\ told'.ended \subseteq used'
          /\ id \in Account \cup Session \cup Key
      BY <1>1, <1>2, <1>4, <2>1, <2>3, DrawnFacts
    <2>5. Advanced(x) \in Answers
      BY <1>1, <2>3, <2>4, LastAnswers DEF Answers
    <2>6. /\ requests' = [requests EXCEPT ![r] = requests'[r]] /\ requests'[r] \in Answers
          /\ seen' = [seen EXCEPT ![r] = seen'[r]] /\ seen'[r] \in AuthState
      BY <1>4, <2>1, <2>5, InvFacts DEF Inv, TypeOK
    <2>7. stored' \in AuthState /\ stored' # Torn
      BY <2>4, SentinelAssumption DEF IsGood
    <2>8. Inv'
      BY <1>3, <1>4, <2>1, <2>4, <2>6, <2>7, InvFacts, StepKeepsInv
    <2>9. QED
      BY <2>4, <2>8
  <1>5. CASE Refuse(r) /\ lock' = lock
    <2>1. requests'[r] = Refused /\ seen'[r] = EmptyAuthState
      BY <1>5, InvFacts DEF Refuse
    <2>2. Inv'
      BY <1>5, <2>1, EmptyIsState, EndKeepsInv DEF Refuse, Answers
    <2>3. QED
      BY <2>1, <2>2, AuthAssumption
  <1>6. QED
    BY <1>4, <1>5 DEF Perform

LEMMA EnterStep ==
    ASSUME Inv, NEW r \in Request, Enter(r)
    PROVE  Inv' /\ requests'[r] \notin Answers
  <1> DEFINE q == requests[r]
             x == [q EXCEPT !.at = "inside"]
  <1>1. /\ backend = "filesystem" /\ IsOpen(r) /\ Head(q.todo) \in Changes
        /\ q.at = "outside" /\ lock = Free /\ lock' = r
        /\ seen' = [seen EXCEPT ![r] = stored]
        /\ requests' = [requests EXCEPT ![r] = x]
        /\ UNCHANGED <<backend, now, stored, used, told>>
    BY DEF Enter, IsNext
  <1>2. /\ q \in RequestState /\ IsReady(q)
        /\ IsSound(r, q, seen[r], stored, lock, backend, told, used)
        /\ stored \in AuthState /\ stored # Torn
    BY <1>1, InvFacts, SentinelAssumption
  <1>3. /\ x \in RequestState /\ x.todo = q.todo /\ x.email = q.email /\ x.user = q.user
        /\ x.session = q.session /\ x.key = q.key /\ x.at = "inside" /\ x.late = q.late
    BY <1>2, MovedFields
  <1> HIDE DEF x
  <1>4. IsReady(x)
    BY <1>2, <1>3, WithIdReady
  <1>5. x.late => IsDoomed(x, told)
    BY <1>2, <1>3 DEF IsSound, IsDoomed
  <1>6. /\ requests'[r] = x /\ requests' = [requests EXCEPT ![r] = requests'[r]]
        /\ seen'[r] = stored /\ seen' = [seen EXCEPT ![r] = seen'[r]]
    BY <1>1 DEF Inv, TypeOK
  <1>7. IsSound(r, x, stored, stored, r, backend, told, used)
    BY <1>1, <1>2, <1>3, <1>4, <1>5 DEF IsSound
  <1>8. LeavesOthersAlone(r)
    BY <1>1 DEF LeavesOthersAlone
  <1>9. Inv'
    BY <1>1, <1>2, <1>6, <1>7, <1>8, InvFacts, StepKeepsInv
  <1>10. QED
    BY <1>3, <1>6, <1>9, SentinelAssumption DEF Answers

LEMMA LeaveStep ==
    ASSUME Inv, NEW r \in Request, Leave(r)
    PROVE  Inv' /\ requests'[r] = Refused
  <1>1. IsOpen(r) /\ requests[r].at = "inside" /\ lock' = Free /\ Refuse(r)
    BY DEF Leave, IsInside
  <1>2. lock = r /\ stored # Torn
    BY <1>1, InvFacts DEF IsSound
  <1>3. requests'[r] = Refused /\ seen'[r] = EmptyAuthState
    BY <1>1, InvFacts DEF Refuse
  <1>4. QED
    BY <1>1, <1>2, <1>3, EmptyIsState, EndKeepsInv DEF Refuse, Answers

LEMMA TruncateStep ==
    ASSUME Inv, NEW r \in Request, Truncate(r)
    PROVE  Inv' /\ requests'[r] \notin Answers
  <1> DEFINE q == requests[r]
             op == Head(q.todo)
  <1>1. IsOpen(r) /\ q.at = "inside" /\ CanChange(op, seen[r], q)
    BY DEF Truncate, IsInside
  <1>2. PICK id \in FreshIds(op, q) :
          /\ seen' = [seen EXCEPT ![r] = Changed(op, seen[r], id, q)]
          /\ used' = used \cup {id}
          /\ requests' = [requests EXCEPT ![r] = [WithId(q, id) EXCEPT !.at = "writing"]]
    BY DEF Truncate
  <1>3. stored' = Torn /\ UNCHANGED <<backend, now, lock, told>>
    BY DEF Truncate
  <1>4. /\ q \in RequestState /\ IsReady(q)
        /\ IsSound(r, q, seen[r], stored, lock, backend, told, used)
    BY <1>1, InvFacts
  <1>5. /\ lock = r /\ backend = "filesystem" /\ op \in Changes
        /\ stored = seen[r] /\ stored # Torn
    BY <1>1, <1>4 DEF IsSound
  <1>6. IsGood(seen[r], told)
    BY <1>5, InvFacts
  <1> DEFINE x == [WithId(q, id) EXCEPT !.at = "writing"]
             copy == Changed(op, seen[r], id, q)
  <1>7. /\ op = "createSession" => id \in Session
        /\ op = "createClientToken" => id \in Key
    BY <1>4, <1>5, FreshIdTypes
  <1>8. /\ WithId(q, id) \in RequestState
        /\ WithId(q, id).todo = q.todo /\ WithId(q, id).email = q.email
        /\ WithId(q, id).user = q.user /\ WithId(q, id).late = q.late
    BY <1>4, <1>7, WithIdFields
  <1>9. /\ x \in RequestState /\ x.todo = q.todo /\ x.email = q.email /\ x.user = q.user
        /\ x.session = WithId(q, id).session /\ x.key = WithId(q, id).key
        /\ x.at = "writing" /\ x.late = q.late
    BY <1>8, MovedFields
  <1> HIDE DEF x
  <1>10. copy = Changed(op, seen[r], id, q)
    OBVIOUS
  <1> HIDE DEF copy
  <1>11. /\ IsReady(x) /\ ~q.late
         /\ IsGood(copy, Answer(told, x, copy))
         /\ Answer(told, x, copy) \in Told
         /\ Answer(told, x, copy).ended \subseteq used'
         /\ told.ended \subseteq used'
         /\ id \in Account \cup Session \cup Key
    <2>1. told.ended \subseteq used
      BY InvFacts
    <2>2. /\ IsReady(x) /\ ~q.late
          /\ IsGood(copy, Answer(told, x, copy))
          /\ Answer(told, x, copy) \in Told
          /\ Answer(told, x, copy).ended \subseteq used \cup {id}
          /\ id \in Account \cup Session \cup Key
      BY <1>1, <1>5, <1>6, <1>9, <1>10, DrawnFacts
    <2>3. used' = used \cup {id}
      BY <1>2
    <2>4. QED
      BY <2>1, <2>2, <2>3
  <1>12. /\ requests'[r] = x /\ requests' = [requests EXCEPT ![r] = requests'[r]]
         /\ seen'[r] = copy /\ seen' = [seen EXCEPT ![r] = seen'[r]]
    BY <1>2, <1>10, InvFacts DEF x
  <1>13. IsSound(r, x, copy, Torn, lock, backend, told, used')
    BY <1>5, <1>9, <1>11 DEF IsSound
  <1>14. LeavesOthersAlone(r) /\ copy \in AuthState /\ lock # Free
    BY <1>5, <1>11, AuthAssumption DEF LeavesOthersAlone, IsGood
  <1>15. used' \subseteq Account \cup Session \cup Key
    BY <1>2, <1>11, InvFacts
  <1>16. Inv'
    BY <1>2, <1>3, <1>5, <1>11, <1>12, <1>13, <1>14, <1>15, InvFacts, StepKeepsInv
  <1>17. QED
    BY <1>9, <1>12, <1>16, SentinelAssumption DEF Answers

LEMMA WriteStep ==
    ASSUME Inv, NEW r \in Request, Write(r)
    PROVE  Inv' /\ ~requests[r].late
  <1> DEFINE q == requests[r]
  <1>1. /\ IsOpen(r) /\ q.at = "writing" /\ stored' = seen[r] /\ lock' = Free
        /\ requests' = [requests EXCEPT ![r] = Advanced(q)]
        /\ told' = Answer(told, q, seen[r])
        /\ seen' = [seen EXCEPT ![r] = EmptyAuthState]
        /\ UNCHANGED <<backend, now, used>>
    BY DEF Write, IsInside
  <1>2. /\ q \in RequestState /\ IsReady(q)
        /\ IsSound(r, q, seen[r], stored, lock, backend, told, used)
        /\ told \in Told /\ seen[r] \in AuthState
    BY <1>1, InvFacts
  <1>3. /\ lock = r /\ Head(q.todo) \in Changes
        /\ told' \in Told /\ IsGood(stored', told') /\ told'.ended \subseteq used'
        /\ q.late => IsDoomed(q, told)
    BY <1>1, <1>2 DEF IsSound
  <1>4. ~q.late
    BY <1>1, <1>3 DEF IsDoomed, Changes
  <1>5. Advanced(q) \in Answers
    BY <1>2, <1>3, LastAnswers DEF Answers
  <1>6. told.ended \subseteq told'.ended
    <2>1. CASE Head(q.todo) # "createSession" /\ Head(q.todo) # "createClientToken"
      BY <1>1, <1>2, <1>3, <2>1, AnswerFacts
    <2>2. CASE Head(q.todo) = "createSession" \/ Head(q.todo) = "createClientToken"
      BY <1>1, <1>2, <2>2 DEF Answer, Told
    <2>3. QED
      BY <2>1, <2>2
  <1>7. /\ requests'[r] \in Answers /\ requests' = [requests EXCEPT ![r] = requests'[r]]
        /\ seen'[r] = EmptyAuthState /\ seen' = [seen EXCEPT ![r] = seen'[r]]
    BY <1>1, <1>5, InvFacts
  <1>8. LeavesOthersAlone(r) /\ stored' # Torn
    BY <1>1, <1>2, <1>3, SentinelAssumption DEF LeavesOthersAlone
  <1>9. Inv'
    BY <1>1, <1>2, <1>3, <1>6, <1>7, <1>8, EmptyIsState, InvFacts, StepKeepsInv
  <1>10. QED
    BY <1>4, <1>9

LEMMA CrashStep ==
    ASSUME Inv, NEW r \in Request, Crash(r)
    PROVE  Inv' /\ requests'[r] = Idle
  <1>1. /\ IsOpen(r)
        /\ requests' = [requests EXCEPT ![r] = Idle]
        /\ lock' = IF requests[r].at = "outside" THEN lock ELSE Orphaned
        /\ seen' = [seen EXCEPT ![r] = EmptyAuthState]
        /\ UNCHANGED <<backend, now, stored, used, told>>
    BY DEF Crash
  <1>2. lock' = lock \/ (lock = r /\ lock' = Orphaned)
    BY <1>1, InvFacts DEF IsSound
  <1>3. requests'[r] = Idle /\ seen'[r] = EmptyAuthState
    BY <1>1, InvFacts
  <1>4. QED
    BY <1>1, <1>2, <1>3, EmptyIsState, EndKeepsInv DEF Answers

LEMMA TickStep ==
    ASSUME Inv, Tick
    PROVE  Inv'
  <1>1. /\ now' \in 0..MaxTime
        /\ UNCHANGED <<backend, stored, lock, seen, requests, used, told>>
    BY AuthAssumption DEF Tick, Inv, TypeOK
  <1>2. TypeOK'
    BY <1>1 DEF Inv, TypeOK
  <1>3. FileIsSound' /\ RequestsAreSound'
    BY <1>1 DEF Inv, FileIsSound, RequestsAreSound, IsOpen
  <1>4. QED
    BY <1>2, <1>3 DEF Inv

-----------------------------------------------------------------------------
(* The theorems *)

LEMMA InitInv == Init => Inv
  <1> SUFFICES ASSUME Init PROVE Inv
    OBVIOUS
  <1>1. TypeOK
    BY EmptyIsState, AuthAssumption DEF Init, TypeOK, Told
  <1>2. FileIsSound
    BY EmptyIsState, SentinelAssumption
       DEF Init, FileIsSound, IsGood, IsUnique, Kept, EmptyAuthState, UserByEmail, SessionById
  <1>3. RequestsAreSound
    BY DEF Init, RequestsAreSound, IsOpen
  <1>4. QED
    BY <1>1, <1>2, <1>3 DEF Inv

LEMMA NextInv ==
    ASSUME Inv, [Next]_vars
    PROVE  Inv'
  <1>1. CASE UNCHANGED vars
    BY <1>1 DEF vars, Inv, TypeOK, FileIsSound, RequestsAreSound, IsOpen
  <1>2. CASE Tick
    BY <1>2, TickStep
  <1>3. ASSUME NEW r \in Request,
               \/ Arrives(r) \/ Look(r) \/ LookFails(r) \/ Perform(r)
               \/ Enter(r) \/ Leave(r) \/ Truncate(r) \/ Write(r) \/ Crash(r)
        PROVE  Inv'
    BY <1>3, ArrivesKeepsInv, LookStep, LookFailsStep, PerformStep, EnterStep, LeaveStep,
       TruncateStep, WriteStep, CrashStep
  <1>4. QED
    BY <1>1, <1>2, <1>3 DEF Next

(* The invariant holds in every reachable state. *)
THEOREM AuthStaysSound == Spec => []Inv
  <1>1. QED
    BY InitInv, NextInv, PTL DEF Spec

(***************************************************************************)
(* Store, lock and requests keep their types: no operation stores half a   *)
(* user, session or token, however many requests there are.                *)
(***************************************************************************)
THEOREM AuthTypeCorrect == Spec => []TypeOK
  <1>1. Inv => TypeOK
    BY DEF Inv
  <1>2. QED
    BY <1>1, AuthStaysSound, PTL

(***************************************************************************)
(* One address has one account, for any number of bootstrap requests,      *)
(* administrators and starting servers.                                    *)
(***************************************************************************)
THEOREM AddressesStayUnique == Spec => []EmailsAreUnique
  <1>1. Inv => EmailsAreUnique
    BY DEF Inv, FileIsSound, IsGood, IsUnique, EmailsAreUnique
  <1>2. QED
    BY <1>1, AuthStaysSound, PTL

(***************************************************************************)
(* No other writer and no dying process loses an account, a token, a       *)
(* logout or a revocation that was answered.                               *)
(***************************************************************************)
THEOREM AnswersAreKept == Spec => []WhatWasAnsweredIsKept
  <1>1. Inv => WhatWasAnsweredIsKept
    BY DEF Inv, FileIsSound, IsGood, Kept, WhatWasAnsweredIsKept
  <1>2. QED
    BY <1>1, AuthStaysSound, PTL

LEMMA OthersWait ==
    ASSUME Inv, NEW r, NEW s \in Request, s # r,
           \/ Arrives(s) \/ Look(s) \/ LookFails(s) \/ Perform(s)
           \/ Enter(s) \/ Leave(s) \/ Truncate(s) \/ Write(s) \/ Crash(s)
    PROVE  requests'[r] = requests[r]
  <1>1. \E y : requests' = [requests EXCEPT ![s] = y]
    <2>1. CASE Arrives(s)
      BY <2>1 DEF Arrives, Begin
    <2>2. CASE Look(s) \/ LookFails(s) \/ Crash(s)
      BY <2>2 DEF Look, LookFails, Crash
    <2>3. CASE Perform(s)
      BY <2>3 DEF Perform, Refuse
    <2>4. CASE Enter(s)
      BY <2>4 DEF Enter
    <2>5. CASE Leave(s) \/ Truncate(s) \/ Write(s)
      BY <2>5 DEF Leave, Refuse, Truncate, Write
    <2>6. QED
      BY <2>1, <2>2, <2>3, <2>4, <2>5
  <1>2. QED
    BY <1>1 DEF Inv, TypeOK

LEMMA StepRefusesLate ==
    ASSUME Inv, [Next]_vars, NEW r \in Request, IsOpen(r), requests'[r] = Accepted
    PROVE  ~requests[r].late
  <1>1. CASE UNCHANGED <<requests>>
    BY <1>1 DEF IsOpen
  <1>2. CASE UNCHANGED vars
    BY <1>2 DEF IsOpen, vars
  <1>3. CASE Tick
    BY <1>3 DEF IsOpen, Tick
  <1>4. ASSUME NEW s \in Request, s # r,
               \/ Arrives(s) \/ Look(s) \/ LookFails(s) \/ Perform(s)
               \/ Enter(s) \/ Leave(s) \/ Truncate(s) \/ Write(s) \/ Crash(s)
        PROVE  FALSE
    BY <1>4, OthersWait DEF IsOpen
  <1>5. Accepted \notin {Idle, Refused}
    BY AuthAssumption
  <1>6. CASE Look(r) \/ Perform(r) \/ Write(r)
    BY <1>6, LookStep, PerformStep, WriteStep
  <1>7. CASE LookFails(r) \/ Enter(r) \/ Leave(r) \/ Truncate(r) \/ Crash(r)
    BY <1>5, <1>7, LookFailsStep, EnterStep, LeaveStep, TruncateStep, CrashStep DEF Answers
  <1>8. ~Arrives(r)
    BY DEF Arrives, Begin
  <1>9. QED
    BY <1>2, <1>3, <1>4, <1>6, <1>7, <1>8 DEF Next

(***************************************************************************)
(* A request that comes after its session was logged out, or its token     *)
(* revoked, is refused, whatever else is in flight.                        *)
(***************************************************************************)
THEOREM EndedStaysEnded == Spec => EndedCredentialsAreRefused
  <1>1. ASSUME Inv, [Next]_vars
        PROVE  [\A r \in Request :
                  IsOpen(r) /\ requests'[r] = Accepted => ~requests[r].late]_vars
    BY <1>1, StepRefusesLate
  <1>2. QED
    BY <1>1, AuthStaysSound, PTL DEF Spec, EndedCredentialsAreRefused

-----------------------------------------------------------------------------
(* Good sessions *)

(***************************************************************************)
(* The store as it is or is about to be: what the writer will write, while *)
(* the file is in pieces.  When that writer died nothing is read again.    *)
(***************************************************************************)
IsWhole == stored # Torn \/ lock \in Request

Current == IF stored # Torn THEN stored ELSE seen[lock]

(* What has ended by the time the current store is there. *)
Ended ==
    IF stored # Torn THEN told.ended ELSE Answer(told, requests[lock], seen[lock]).ended

(* A session that is not logged out or expired is stored, with its user. *)
SessionsHold(auth, known, ended, drawn, t) ==
    /\ \A s \in auth.sessions : s.id \in drawn /\ \E u \in auth.users : u.id = s.user
    /\ \A s \in known.sessions : s.id \in drawn
    /\ \A s, v \in auth.sessions \cup known.sessions : s.id = v.id => s = v
    /\ \A s \in known.sessions : t < s.expiresAt /\ s.id \notin ended => s \in auth.sessions

(* What a request relies on: it removes a session on its own account only  *)
(* when that has expired, and creates one for a user there is.             *)
FitsSessions(q, auth, known, drawn, t) ==
    /\ q.route = "me" => q.todo = <<"getSession">> \/ (q.todo = <<"revokeSession">> /\ q.expired)
    /\ q.expired =>
          /\ q.todo = <<"revokeSession">>
          /\ q.session \in drawn
          /\ \A s \in auth.sessions \cup known.sessions : s.id = q.session => s.expiresAt <= t
    /\ q.todo = <<"createSession">> => \E u \in auth.users : u.id = q.user

HolderWrites ==
    stored = Torn /\ lock \in Request => IsOpen(lock) /\ requests[lock].at = "writing"

SessionInv ==
    /\ HolderWrites
    /\ IsWhole =>
          /\ SessionsHold(Current, told, Ended, used, now)
          /\ \A r \in Request : IsOpen(r) => FitsSessions(requests[r], Current, told, used, now)

(* What an operation does to the users and the sessions. *)
ChangesSessions(q, auth, id, copy) ==
    /\ auth.users \subseteq copy.users
    /\ Head(q.todo) = "createSession" =>
          \E s : s.id = id /\ s.user = q.user /\ copy.sessions = auth.sessions \cup {s}
    /\ Head(q.todo) = "revokeSession" =>
          copy.sessions = {s \in auth.sessions : s.id # id}
    /\ Head(q.todo) \notin {"createSession", "revokeSession"} =>
          copy.sessions = auth.sessions

LEMMA ChangedSessions ==
    ASSUME NEW q, NEW auth \in AuthState, NEW id, Head(q.todo) \in Changes,
           NEW copy, copy = Changed(Head(q.todo), auth, id, q)
    PROVE  ChangesSessions(q, auth, id, copy)
  <1> DEFINE op == Head(q.todo)
  <1>1. CASE op = "createSession"
    <2> DEFINE s == [id |-> id, user |-> q.user, expiresAt |-> now + Ttl]
    <2>1. copy = [auth EXCEPT !.sessions = @ \cup {s}]
      BY <1>1 DEF Changed, WithSession
    <2>2. s.id = id /\ s.user = q.user
      OBVIOUS
    <2> HIDE DEF s
    <2>3. copy.users = auth.users /\ copy.sessions = auth.sessions \cup {s}
      BY <2>1 DEF AuthState
    <2>4. QED
      BY <1>1, <2>2, <2>3 DEF ChangesSessions
  <1>2. CASE op = "revokeSession"
    <2>1. copy = [auth EXCEPT !.sessions = {s \in @ : s.id # id}]
      BY <1>2 DEF Changed, WithoutSession
    <2>2. copy.users = auth.users /\ copy.sessions = {s \in auth.sessions : s.id # id}
      BY <2>1 DEF AuthState
    <2>3. QED
      BY <1>2, <2>2 DEF ChangesSessions
  <1>3. CASE op \notin {"createSession", "revokeSession"}
    <2>1. \/ \E set : copy = [auth EXCEPT !.users = @ \cup set]
          \/ \E set : copy = [auth EXCEPT !.tokens = set]
          \/ copy = auth
      BY <1>3 DEF Changed, WithUser, WithToken, WithRevoked, Changes
    <2>2. auth.users \subseteq copy.users /\ copy.sessions = auth.sessions
      BY <2>1 DEF AuthState
    <2>3. QED
      BY <1>3, <2>2 DEF ChangesSessions
  <1>4. QED
    BY <1>1, <1>2, <1>3

(* Other requests fit what an operation makes of the store. *)
LEMMA FitsAfterChange ==
    ASSUME NEW q, NEW auth, NEW copy, NEW known, NEW drawn, NEW t, NEW id,
           FitsSessions(q, auth, known, drawn, t), id \notin drawn,
           auth.users \subseteq copy.users,
           \A s \in copy.sessions : s \in auth.sessions \/ s.id = id
    PROVE  FitsSessions(q, copy, known, drawn \cup {id}, t)
  BY DEF FitsSessions

(* An operation keeps the sessions: the one it creates has an id of its    *)
(* own and a user, and it removes none but one that ended or has expired.  *)
LEMMA ChangeKeepsSessions ==
    ASSUME NEW q \in RequestState, IsReady(q), Head(q.todo) \in Changes,
           NEW known \in Told, NEW auth \in AuthState,
           NEW id \in FreshIds(Head(q.todo), q), now \in Nat,
           NEW x \in RequestState, IsReady(x), x.todo = q.todo, x.expired = q.expired,
           Head(q.todo) = "createSession" => x.session = id,
           Head(q.todo) # "createSession" => x.session = q.session,
           Head(q.todo) = "createClientToken" => x.key = id,
           NEW copy \in AuthState, copy = Changed(Head(q.todo), auth, id, q),
           SessionsHold(auth, known, known.ended, used, now),
           FitsSessions(q, auth, known, used, now)
    PROVE  /\ SessionsHold(copy, known, Answer(known, x, copy).ended, used \cup {id}, now)
           /\ \A y : FitsSessions(y, auth, known, used, now) =>
                        FitsSessions(y, copy, known, used \cup {id}, now)
  <1> DEFINE op == Head(q.todo)
             ended == Answer(known, x, copy).ended
  <1>1. /\ auth.users \subseteq copy.users
        /\ op = "createSession" =>
              \E s : s.id = id /\ s.user = q.user /\ copy.sessions = auth.sessions \cup {s}
        /\ op = "revokeSession" => copy.sessions = {s \in auth.sessions : s.id # id}
        /\ op \notin {"createSession", "revokeSession"} => copy.sessions = auth.sessions
    <2> HIDE DEF ended, op
    <2>1. ChangesSessions(q, auth, id, copy)
      BY ChangedSessions
    <2>2. QED
      BY <2>1 DEF ChangesSessions, op
  <1>2. /\ op = "createSession" => id \in Session /\ id \notin used
        /\ op = "createClientToken" => id \in Key
        /\ op = "revokeSession" => id = q.session
    BY FreshIdTypes
  <1>3. op = "createSession" => \E u \in auth.users : u.id = q.user
    <2>1. op = "createSession" => q.todo = <<"createSession">>
      BY OneOperation, TwoOperations DEF IsReady
    <2>2. QED
      BY <2>1 DEF FitsSessions
  <1>4. known.ended \subseteq ended
    BY <1>2, AnswerFacts
  <1>5. op = "revokeSession" /\ ~q.expired => q.session \in ended
    <2>1. ASSUME op = "revokeSession", ~q.expired
          PROVE  q.session \in ended
      <3>1. Advanced(x) = Accepted
        BY <2>1, LastAnswers
      <3>2. Answer(known, x, copy) = [known EXCEPT !.ended = @ \cup {x.session}]
        BY <2>1, <3>1 DEF Answer
      <3>3. QED
        BY <2>1, <3>2 DEF Told
    <2>2. QED
      BY <2>1
  <1> HIDE DEF ended, op
  <1>6. \A s \in copy.sessions :
           s \in auth.sessions \/ (op = "createSession" /\ s.id = id /\ s.user = q.user)
    BY <1>1
  <1>7. \A s, v \in copy.sessions \cup known.sessions : s.id = v.id => s = v
    <2>1. CASE op = "createSession"
      <3>1. PICK w : w.id = id /\ copy.sessions = auth.sessions \cup {w}
        BY <1>1, <2>1
      <3>2. \A s \in auth.sessions \cup known.sessions : s.id # w.id
        BY <1>2, <2>1, <3>1 DEF SessionsHold
      <3>3. QED
        BY <3>1, <3>2 DEF SessionsHold
    <2>2. CASE op # "createSession"
      BY <1>6, <2>2 DEF SessionsHold
    <2>3. QED
      BY <2>1, <2>2
  <1>8. ASSUME NEW s \in known.sessions, now < s.expiresAt, s.id \notin ended
        PROVE  s \in copy.sessions
    <2>1. s \in auth.sessions
      BY <1>4, <1>8 DEF SessionsHold
    <2>2. CASE op = "revokeSession"
      <3>1. s.expiresAt \in Nat
        BY DEF Told, StoredSession
      <3>2. q.expired => s.id # q.session
        BY <1>8, <3>1 DEF FitsSessions
      <3>3. QED
        BY <1>1, <1>2, <1>5, <1>8, <2>1, <2>2, <3>2
    <2>3. CASE op # "revokeSession"
      BY <1>1, <2>1, <2>3
    <2>4. QED
      BY <2>2, <2>3
  <1>9. \A s \in copy.sessions : s.id \in used \cup {id} /\ \E u \in copy.users : u.id = s.user
    BY <1>1, <1>3, <1>6 DEF SessionsHold
  <1>10. SessionsHold(copy, known, ended, used \cup {id}, now)
    BY <1>7, <1>8, <1>9 DEF SessionsHold
  <1>11. ASSUME NEW y, FitsSessions(y, auth, known, used, now)
         PROVE  FitsSessions(y, copy, known, used \cup {id}, now)
    <2>1. CASE op = "createSession"
      <3>1. id \notin used
        BY <1>2, <2>1
      <3>2. QED
        BY <1>1, <1>6, <1>11, <3>1, FitsAfterChange
    <2>2. CASE op # "createSession"
      <3>1. copy.sessions \subseteq auth.sessions
        BY <1>6, <2>2
      <3>2. QED
        BY <1>1, <1>11, <3>1 DEF FitsSessions
    <2>3. QED
      BY <2>1, <2>2
  <1>12. QED
    BY <1>10, <1>11 DEF ended

(* An answer tells callers of sessions that are stored, and of no others. *)
LEMMA AnswerTellsOfStored ==
    ASSUME NEW known \in Told, NEW x, NEW auth, NEW drawn, NEW t, Head(x.todo) \in Changes,
           SessionsHold(auth, known, Answer(known, x, auth).ended, drawn, t)
    PROVE  LET new == Answer(known, x, auth) IN
           /\ SessionsHold(auth, new, new.ended, drawn, t)
           /\ \A y : FitsSessions(y, auth, known, drawn, t) => FitsSessions(y, auth, new, drawn, t)
  <1> DEFINE new == Answer(known, x, auth)
  <1>1. known.sessions \subseteq new.sessions
        /\ new.sessions \subseteq known.sessions \cup auth.sessions
    BY DEF Answer, Changes, Told, SessionById
  <1> HIDE DEF new
  <1>2. auth.sessions \cup new.sessions = auth.sessions \cup known.sessions
    BY <1>1
  <1>3. SessionsHold(auth, known, new.ended, drawn, t)
    BY DEF new
  <1>4. SessionsHold(auth, new, new.ended, drawn, t)
    BY <1>1, <1>2, <1>3 DEF SessionsHold
  <1>5. \A y : FitsSessions(y, auth, known, drawn, t) => FitsSessions(y, auth, new, drawn, t)
    BY <1>2 DEF FitsSessions
  <1>6. QED
    BY <1>4, <1>5 DEF new

(* A route that goes on after a read has a change left, for a user there is. *)
LEMMA AdvancedFits ==
    ASSUME NEW q \in RequestState, Len(q.todo) = 2, q.route # "me", ~q.expired,
           NEW auth, NEW known, NEW drawn, NEW t,
           Tail(q.todo) = <<"createSession">> => \E u \in auth.users : u.id = q.user
    PROVE  FitsSessions(Advanced(q), auth, known, drawn, t)
  <1> DEFINE next == [q EXCEPT !.todo = Tail(@), !.at = "outside"]
  <1>1. Advanced(q) = next
    BY DEF Advanced
  <1>2. /\ next.todo = Tail(q.todo) /\ next.route = q.route
        /\ next.expired = q.expired /\ next.user = q.user
    BY DEF RequestState
  <1> HIDE DEF next
  <1>3. QED
    BY <1>1, <1>2 DEF FitsSessions

(* What a read makes of a request fits the store it read. *)
LEMMA AfterReadFits ==
    ASSUME NEW q \in RequestState, IsReady(q), Head(q.todo) \in Reads,
           NEW auth \in AuthState, NEW cur, NEW known, NEW ended, NEW drawn,
           auth.users \subseteq cur.users, auth.sessions \subseteq cur.sessions,
           SessionsHold(cur, known, ended, drawn, now),
           FitsSessions(q, cur, known, drawn, now)
    PROVE  \/ AfterRead(q, auth) \in {Accepted, Refused}
           \/ FitsSessions(AfterRead(q, auth), cur, known, drawn, now)
  <1> DEFINE x == AfterRead(q, auth)
             sessions == SessionById(auth, q.session)
             found == IF Head(q.todo) = "verifyPassword" THEN UserByEmail(auth, q.email)
                      ELSE {u \in auth.users : \E s \in sessions : s.user = u.id}
             someone == CHOOSE id \in Account : \E u \in found : u.id = id
             next == [q EXCEPT !.user = someone]
             Good(y) == y \in {Accepted, Refused} \/ FitsSessions(y, cur, known, drawn, now)
  <1>1. ~q.expired /\ (q.route = "me" => Len(q.todo) = 1)
    BY OneOperation DEF FitsSessions, Reads
  <1>2. CASE Head(q.todo) = "getSession" /\ \E s \in sessions : HasExpired(s)
    <2>1. x = Expired(q)
      BY <1>2 DEF AfterRead
    <2>2. PICK s \in auth.sessions : s.id = q.session /\ s.expiresAt <= now
      BY <1>2 DEF SessionById, HasExpired
    <2>3. /\ Expired(q).todo = <<"revokeSession">> /\ Expired(q).expired
          /\ Expired(q).session = q.session
      BY DEF Expired, RequestState
    <2>4. <<"revokeSession">> # <<"createSession">>
      BY OneOperation
    <2>5. q.session \in drawn
      BY <2>2 DEF SessionsHold
    <2>6. \A v \in cur.sessions \cup known.sessions : v.id = q.session => v.expiresAt <= now
      BY <2>2 DEF SessionsHold
    <2>7. QED
      BY <2>1, <2>3, <2>4, <2>5, <2>6 DEF FitsSessions
  <1>3. CASE Head(q.todo) = "usersExist"
    <2>1. x = Advanced(q) \/ x = Refused
      BY <1>3 DEF AfterRead
    <2>2. ~(Len(q.todo) = 1 /\ Head(q.todo) = "getSession")
      BY <1>3
    <2>3. Len(q.todo) = 2 /\ Tail(q.todo) # <<"createSession">>
      BY <1>3, <2>2, TodoAfterRead, OneOperation
    <2>4. q.route # "me"
      BY <1>1, <2>3
    <2>5. QED
      BY <1>1, <2>1, <2>3, <2>4, AdvancedFits
  <1>4. CASE /\ Head(q.todo) # "usersExist"
             /\ ~(Head(q.todo) = "getSession" /\ \E s \in sessions : HasExpired(s))
    <2>1. x = IF found = {} \/ (q.route = "users" /\ \A u \in found : ~u.admin)
              THEN Refused ELSE Advanced(next)
      BY <1>4 DEF AfterRead
    <2>2. CASE found = {}
      BY <2>1, <2>2
    <2>3. CASE found # {}
      <3>1. found \subseteq auth.users
        BY DEF UserByEmail
      <3>2. \A u \in found : u.id \in Account
        BY <3>1 DEF AuthState, User
      <3>3. someone \in Account /\ \E u \in found : u.id = someone
        BY <2>3, <3>2
      <3>4. x = Refused \/ x = Advanced(next)
        BY <2>1
      <3>5. \E u \in cur.users : u.id = someone
        BY <3>1, <3>3
      <3> HIDE DEF someone, found, x
      <3>6. /\ next \in RequestState /\ next.todo = q.todo /\ next.route = q.route
            /\ next.user = someone /\ next.expired = q.expired
        BY <3>3 DEF RequestState
      <3> HIDE DEF next
      <3>7. CASE Len(q.todo) = 1
        <4>1. ~(Len(next.todo) > 1)
          BY <3>6, <3>7
        <4>2. QED
          BY <3>4, <4>1 DEF Advanced, x
      <3>8. CASE Len(q.todo) = 2
        <4>1. q.route # "me"
          BY <1>1, <3>8
        <4>2. FitsSessions(Advanced(next), cur, known, drawn, now)
          BY <1>1, <3>5, <3>6, <3>8, <4>1, AdvancedFits
        <4>3. QED
          BY <3>4, <4>2 DEF x
      <3>9. QED
        BY <3>7, <3>8, TodoAfterRead
    <2>4. QED
      BY <2>2, <2>3
  <1>5. QED
    BY <1>2, <1>3, <1>4

(* A request that takes a step and leaves store, clock and answers alone. *)
LEMMA QuietStep ==
    ASSUME Inv, SessionInv, NEW r \in Request, NEW y, NEW z,
           requests' = [requests EXCEPT ![r] = y], seen' = [seen EXCEPT ![r] = z],
           UNCHANGED <<now, stored, used, told>>,
           IsOpen(r) => requests[r].at # "writing",
           stored = Torn => lock' = lock,
           \/ y \in Answers
           \/ IsWhole => FitsSessions(y, Current, told, used, now)
    PROVE  SessionInv'
  <1>1. DOMAIN requests = Request /\ DOMAIN seen = Request
    BY InvFacts
  <1>2. stored = Torn /\ lock \in Request => lock # r
    BY DEF SessionInv, HolderWrites
  <1>3. IsWhole' = IsWhole
    BY DEF IsWhole
  <1>4. IsWhole => Current' = Current /\ Ended' = Ended
    BY <1>1, <1>2 DEF IsWhole, Current, Ended
  <1>5. HolderWrites'
    BY <1>1, <1>2 DEF SessionInv, HolderWrites, IsOpen
  <1>6. ASSUME IsWhole, NEW s \in Request, IsOpen(s)'
        PROVE  FitsSessions(requests'[s], Current, told, used, now)
    BY <1>1, <1>6 DEF SessionInv, IsOpen, Answers
  <1>7. QED
    BY <1>3, <1>4, <1>5, <1>6 DEF SessionInv

LEMMA ArrivesKeepsSessions ==
    ASSUME Inv, SessionInv, NEW r \in Request, Arrives(r)
    PROVE  SessionInv'
  <1>1. PICK route, operations, given :
           Comes(route, operations, given) /\ Begin(r, route, operations, given)
    BY ArrivesComes
  <1> DEFINE late == \/ route = "token" /\ given.key \in told.ended
                     \/ Head(operations) = "getSession" /\ given.session \in told.ended
             q == [route |-> route, todo |-> operations,
                   email |-> given.email, admin |-> given.admin,
                   session |-> given.session, key |-> given.key,
                   user |-> Nobody, at |-> "outside", late |-> late, expired |-> FALSE]
  <1>2. /\ ~IsOpen(r) /\ requests' = [requests EXCEPT ![r] = q]
        /\ UNCHANGED <<now, stored, lock, seen, used, told>>
    BY <1>1 DEF Begin
  <1>3. q.route = route /\ q.todo = operations /\ ~q.expired
    OBVIOUS
  <1> HIDE DEF q
  <1>4. q.todo # <<"createSession">>
    BY <1>1, <1>3, OneOperation DEF Comes
  <1>5. FitsSessions(q, Current, told, used, now)
    BY <1>1, <1>3, <1>4 DEF Comes, FitsSessions
  <1>6. seen' = [seen EXCEPT ![r] = seen[r]]
    BY <1>2, InvFacts DEF Inv, TypeOK
  <1>7. QED
    BY <1>2, <1>5, <1>6, QuietStep

LEMMA LookKeepsSessions ==
    ASSUME Inv, SessionInv, NEW r \in Request, Look(r)
    PROVE  SessionInv'
  <1> DEFINE q == requests[r]
             auth == IF stored = Torn THEN EmptyAuthState ELSE stored
             y == AfterRead(q, auth)
  <1>1. /\ IsOpen(r) /\ Head(q.todo) \in Reads
        /\ requests' = [requests EXCEPT ![r] = y]
        /\ UNCHANGED <<backend, now, stored, lock, seen, used, told>>
    BY DEF Look, IsNext
  <1>2. /\ q \in RequestState /\ IsReady(q)
        /\ IsSound(r, q, seen[r], stored, lock, backend, told, used)
        /\ auth \in AuthState
    BY <1>1, InvFacts, EmptyIsState
  <1>3. q.at = "outside"
    BY <1>1, <1>2 DEF IsSound, Reads, Changes
  <1>4. ASSUME IsWhole
        PROVE  y \in {Accepted, Refused} \/ FitsSessions(y, Current, told, used, now)
    <2>1. auth.users \subseteq Current.users /\ auth.sessions \subseteq Current.sessions
      BY DEF Current, EmptyAuthState
    <2>2. /\ SessionsHold(Current, told, Ended, used, now)
          /\ FitsSessions(q, Current, told, used, now)
      BY <1>1, <1>4 DEF SessionInv
    <2> HIDE DEF auth, q
    <2>3. QED
      BY <1>1, <1>2, <2>1, <2>2, AfterReadFits
  <1>5. seen' = [seen EXCEPT ![r] = seen[r]]
    BY <1>1, InvFacts DEF Inv, TypeOK
  <1> HIDE DEF y
  <1>6. QED
    BY <1>1, <1>3, <1>4, <1>5, QuietStep DEF Answers

(* A request that ends without a change, or begins one. *)
LEMMA RefusedKeepsSessions ==
    ASSUME Inv, SessionInv, NEW r \in Request,
           LookFails(r) \/ Leave(r) \/ (Perform(r) /\ Refuse(r))
    PROVE  SessionInv'
  <1>1. IsOpen(r) => IsSound(r, requests[r], seen[r], stored, lock, backend, told, used)
    BY InvFacts
  <1>2. CASE LookFails(r)
    <2>1. /\ IsOpen(r) /\ Head(requests[r].todo) \in Reads
          /\ requests' = [requests EXCEPT ![r] = Refused]
          /\ UNCHANGED <<now, stored, lock, seen, used, told>>
      BY <1>2 DEF LookFails, IsNext
    <2>2. requests[r].at = "outside"
      BY <1>1, <2>1 DEF IsSound, Reads, Changes
    <2>3. seen' = [seen EXCEPT ![r] = seen[r]]
      BY <2>1, InvFacts DEF Inv, TypeOK
    <2>4. QED
      BY <2>1, <2>2, <2>3, QuietStep DEF Answers
  <1>3. CASE Leave(r)
    <2>1. IsOpen(r) /\ requests[r].at = "inside" /\ Refuse(r)
      BY <1>3 DEF Leave, IsInside
    <2>2. stored # Torn
      BY <1>1, <2>1 DEF IsSound
    <2>3. QED
      BY <2>1, <2>2, QuietStep DEF Refuse, Answers
  <1>4. CASE Perform(r) /\ Refuse(r)
    <2>1. IsOpen(r) /\ backend = "mongodb" /\ stored # Torn
      BY <1>4, InvFacts, SentinelAssumption DEF Perform, IsNext
    <2>2. requests[r].at = "outside"
      BY <1>1, <2>1 DEF IsSound
    <2>3. QED
      BY <1>4, <2>1, <2>2, QuietStep DEF Refuse, Answers
  <1>5. QED
    BY <1>2, <1>3, <1>4

LEMMA EnterKeepsSessions ==
    ASSUME Inv, SessionInv, NEW r \in Request, Enter(r)
    PROVE  SessionInv'
  <1> DEFINE q == requests[r]
             x == [q EXCEPT !.at = "inside"]
  <1>1. /\ IsOpen(r) /\ q.at = "outside" /\ lock = Free
        /\ requests' = [requests EXCEPT ![r] = x]
        /\ seen' = [seen EXCEPT ![r] = stored]
        /\ UNCHANGED <<now, stored, used, told>>
    BY DEF Enter, IsNext
  <1>2. q \in RequestState /\ stored # Torn
    BY <1>1, InvFacts
  <1>3. /\ x.todo = q.todo /\ x.user = q.user /\ x.session = q.session
        /\ x.route = q.route /\ x.expired = q.expired
    BY <1>2 DEF RequestState
  <1> HIDE DEF x
  <1>4. FitsSessions(q, Current, told, used, now)
    BY <1>1, <1>2 DEF SessionInv, IsWhole
  <1>5. FitsSessions(x, Current, told, used, now)
    BY <1>3, <1>4 DEF FitsSessions
  <1>6. QED
    BY <1>1, <1>2, <1>5, QuietStep

(* A process that dies while it writes takes the store with it. *)
LEMMA CrashKeepsSessions ==
    ASSUME Inv, SessionInv, NEW r \in Request, Crash(r)
    PROVE  SessionInv'
  <1>1. /\ IsOpen(r)
        /\ requests' = [requests EXCEPT ![r] = Idle]
        /\ lock' = IF requests[r].at = "outside" THEN lock ELSE Orphaned
        /\ seen' = [seen EXCEPT ![r] = EmptyAuthState]
        /\ UNCHANGED <<now, stored, used, told>>
    BY DEF Crash
  <1>2. IsSound(r, requests[r], seen[r], stored, lock, backend, told, used)
    BY <1>1, InvFacts
  <1>3. CASE requests[r].at = "writing"
    <2>1. stored' = Torn /\ lock' = Orphaned
      BY <1>1, <1>2, <1>3 DEF IsSound
    <2>2. lock' \notin Request
      BY <2>1, AuthAssumption
    <2>3. QED
      BY <2>1, <2>2 DEF SessionInv, HolderWrites, IsWhole
  <1>4. CASE requests[r].at # "writing"
    <2>1. stored = Torn => lock' = lock
      <3>1. requests[r].at \in {"outside", "inside", "writing"}
        BY <1>2 DEF IsSound, RequestState
      <3>2. QED
        BY <1>1, <1>2, <1>4, <3>1 DEF IsSound
    <2>2. QED
      BY <1>1, <1>4, <2>1, QuietStep DEF Answers
  <1>5. QED
    BY <1>3, <1>4

LEMMA TickKeepsSessions ==
    ASSUME Inv, SessionInv, Tick
    PROVE  SessionInv'
  <1>1. now \in Nat /\ now' = now + 1
        /\ UNCHANGED <<stored, lock, seen, requests, used, told>>
    BY AuthAssumption DEF Tick, Inv, TypeOK
  <1>2. IsWhole' = IsWhole /\ Current' = Current /\ Ended' = Ended /\ HolderWrites'
    BY <1>1 DEF IsWhole, Current, Ended, SessionInv, HolderWrites, IsOpen
  <1>3. IsWhole => Current \in AuthState /\ told \in Told
    BY <1>1 DEF IsWhole, Current, Inv, TypeOK
  <1>4. ASSUME NEW s, IsWhole, s \in Current.sessions \cup told.sessions
        PROVE  s.expiresAt \in Nat
    BY <1>3, <1>4 DEF AuthState, Told, StoredSession
  <1>5. ASSUME IsWhole, NEW auth, auth = Current, SessionsHold(auth, told, Ended, used, now)
        PROVE  SessionsHold(auth, told, Ended, used, now + 1)
    <2>1. \A s \in told.sessions : now + 1 < s.expiresAt => now < s.expiresAt
      BY <1>1, <1>4, <1>5
    <2>2. QED
      BY <1>5, <2>1 DEF SessionsHold
  <1>6. ASSUME IsWhole, NEW q, FitsSessions(q, Current, told, used, now)
        PROVE  FitsSessions(q, Current, told, used, now + 1)
    <2>1. \A s \in Current.sessions \cup told.sessions :
             s.expiresAt <= now => s.expiresAt <= now + 1
      BY <1>1, <1>4, <1>6
    <2>2. QED
      BY <1>6, <2>1 DEF FitsSessions
  <1>7. QED
    BY <1>1, <1>2, <1>5, <1>6 DEF SessionInv, IsOpen

(***************************************************************************)
(* The request that changes the store: once it has drawn its id, the store *)
(* it computes holds the sessions, and every request fits it.              *)
(***************************************************************************)
LEMMA DrawnKeepsSessions ==
    ASSUME Inv, SessionInv, NEW r \in Request, IsOpen(r),
           Head(requests[r].todo) \in Changes, stored # Torn,
           CanChange(Head(requests[r].todo), stored, requests[r]),
           NEW id \in FreshIds(Head(requests[r].todo), requests[r]),
           NEW copy, copy = Changed(Head(requests[r].todo), stored, id, requests[r]),
           NEW x \in RequestState,
           x.todo = requests[r].todo, x.email = requests[r].email, x.user = requests[r].user,
           x.route = requests[r].route, x.expired = requests[r].expired,
           x.session = WithId(requests[r], id).session, x.key = WithId(requests[r], id).key,
           IsReady(x), copy \in AuthState
    PROVE  /\ SessionsHold(copy, told, Answer(told, x, copy).ended, used \cup {id}, now)
           /\ FitsSessions(x, copy, told, used \cup {id}, now)
           /\ \A s \in Request : IsOpen(s) =>
                 FitsSessions(requests[s], copy, told, used \cup {id}, now)
  <1> DEFINE q == requests[r]
  <1>1. /\ q \in RequestState /\ IsReady(q) /\ IsGood(stored, told) /\ told \in Told
        /\ now \in Nat
    BY InvFacts
  <1>2. stored \in AuthState
    BY <1>1 DEF IsGood
  <1>3. /\ Head(q.todo) = "createSession" => id \in Session
        /\ Head(q.todo) = "createClientToken" => id \in Key
    BY <1>1, FreshIdTypes
  <1>4. /\ Head(q.todo) = "createSession" => x.session = id
        /\ Head(q.todo) # "createSession" => x.session = q.session
        /\ Head(q.todo) = "createClientToken" => x.key = id
    BY <1>1, <1>3, WithIdFields
  <1>5. /\ SessionsHold(stored, told, told.ended, used, now)
        /\ \A s \in Request : IsOpen(s) => FitsSessions(requests[s], stored, told, used, now)
    BY DEF SessionInv, IsWhole, Current, Ended
  <1>6. FitsSessions(q, stored, told, used, now)
    BY <1>5
  <1> HIDE DEF q
  <1>7. /\ SessionsHold(copy, told, Answer(told, x, copy).ended, used \cup {id}, now)
        /\ \A y : FitsSessions(y, stored, told, used, now) =>
                     FitsSessions(y, copy, told, used \cup {id}, now)
    BY <1>1, <1>2, <1>4, <1>5, <1>6, ChangeKeepsSessions DEF q
  <1>8. FitsSessions(x, copy, told, used \cup {id}, now)
    <2>1. FitsSessions(q, copy, told, used \cup {id}, now)
      BY <1>6, <1>7
    <2>2. Head(q.todo) = "createSession" => ~q.expired
      BY <1>6, OneOperation DEF FitsSessions
    <2>3. QED
      BY <1>4, <2>1, <2>2 DEF FitsSessions, q
  <1>9. QED
    BY <1>5, <1>7, <1>8

LEMMA RouteFields ==
    ASSUME NEW q \in RequestState, NEW id
    PROVE  /\ WithId(q, id).route = q.route
           /\ [WithId(q, id) EXCEPT !.at = "writing"].route = q.route
  BY DEF WithId, RequestState

LEMMA TruncateKeepsSessions ==
    ASSUME Inv, SessionInv, NEW r \in Request, Truncate(r)
    PROVE  SessionInv'
  <1> DEFINE q == requests[r]
             op == Head(q.todo)
  <1>1. IsOpen(r) /\ q.at = "inside" /\ CanChange(op, seen[r], q)
    BY DEF Truncate, IsInside
  <1>2. PICK id \in FreshIds(op, q) :
          /\ seen' = [seen EXCEPT ![r] = Changed(op, seen[r], id, q)]
          /\ used' = used \cup {id}
          /\ requests' = [requests EXCEPT ![r] = [WithId(q, id) EXCEPT !.at = "writing"]]
    BY DEF Truncate
  <1>3. stored' = Torn /\ UNCHANGED <<now, lock, told>>
    BY DEF Truncate
  <1>4. q \in RequestState /\ IsReady(q) /\ IsSound(r, q, seen[r], stored, lock, backend, told, used)
    BY <1>1, InvFacts
  <1>5. lock = r /\ op \in Changes /\ stored = seen[r] /\ stored # Torn
    BY <1>1, <1>4 DEF IsSound
  <1> DEFINE x == [WithId(q, id) EXCEPT !.at = "writing"]
             copy == Changed(op, stored, id, q)
  <1>6. /\ op = "createSession" => id \in Session
        /\ op = "createClientToken" => id \in Key
    BY <1>4, <1>5, FreshIdTypes
  <1>7. /\ WithId(q, id) \in RequestState
        /\ WithId(q, id).todo = q.todo /\ WithId(q, id).email = q.email
        /\ WithId(q, id).user = q.user /\ WithId(q, id).expired = q.expired
    BY <1>4, <1>6, WithIdFields
  <1>8. /\ x \in RequestState /\ x.todo = q.todo /\ x.email = q.email /\ x.user = q.user
        /\ x.session = WithId(q, id).session /\ x.key = WithId(q, id).key
        /\ x.at = "writing" /\ x.expired = q.expired /\ x.route = q.route
    <2>1. x.route = q.route
      BY <1>4, RouteFields
    <2>2. QED
      BY <1>7, <2>1, MovedFields
  <1>9. requests' = [requests EXCEPT ![r] = x] /\ seen' = [seen EXCEPT ![r] = copy]
    BY <1>2, <1>5
  <1>10. copy = Changed(op, stored, id, q)
    OBVIOUS
  <1> HIDE DEF x, copy
  <1>11. /\ SessionsHold(copy, told, Answer(told, x, copy).ended, used \cup {id}, now)
         /\ FitsSessions(x, copy, told, used \cup {id}, now)
         /\ \A s \in Request : IsOpen(s) =>
               FitsSessions(requests[s], copy, told, used \cup {id}, now)
    <2>1. IsGood(seen[r], told) /\ copy = Changed(op, seen[r], id, q)
      BY <1>5, <1>10, InvFacts
    <2>2. /\ IsReady(x) /\ ~q.late
          /\ IsGood(copy, Answer(told, x, copy))
          /\ Answer(told, x, copy) \in Told
          /\ Answer(told, x, copy).ended \subseteq used \cup {id}
          /\ id \in Account \cup Session \cup Key
      BY <1>1, <1>5, <1>8, <1>10, <2>1, DrawnFacts
    <2>3. copy \in AuthState
      BY <2>2 DEF IsGood
    <2>4. QED
      BY <1>1, <1>5, <1>8, <1>10, <2>2, <2>3, DrawnKeepsSessions
  <1>12. /\ requests'[r] = x /\ seen'[r] = copy
         /\ \A s \in Request : s # r => requests'[s] = requests[s]
    BY <1>9, InvFacts
  <1>13. x \notin Answers
    BY <1>8, SentinelAssumption DEF Answers
  <1>14. Current' = copy /\ Ended' = Answer(told, x, copy).ended
    BY <1>3, <1>5, <1>12 DEF Current, Ended
  <1>15. HolderWrites'
    BY <1>3, <1>5, <1>8, <1>12, <1>13 DEF HolderWrites, IsOpen, Answers
  <1>16. \A s \in Request : IsOpen(s)' =>
            FitsSessions(requests'[s], copy, told, used \cup {id}, now)
    BY <1>11, <1>12 DEF IsOpen
  <1>17. QED
    BY <1>2, <1>3, <1>11, <1>14, <1>15, <1>16 DEF SessionInv

LEMMA WriteKeepsSessions ==
    ASSUME Inv, SessionInv, NEW r \in Request, Write(r)
    PROVE  SessionInv'
  <1> DEFINE q == requests[r]
             new == Answer(told, q, seen[r])
  <1>1. /\ IsOpen(r) /\ q.at = "writing" /\ stored' = seen[r] /\ lock' = Free
        /\ requests' = [requests EXCEPT ![r] = Advanced(q)]
        /\ told' = new
        /\ UNCHANGED <<now, used>>
    BY DEF Write, IsInside
  <1>2. /\ q \in RequestState /\ IsReady(q)
        /\ IsSound(r, q, seen[r], stored, lock, backend, told, used)
        /\ told \in Told /\ seen[r] \in AuthState
    BY <1>1, InvFacts
  <1>3. lock = r /\ stored = Torn /\ Head(q.todo) \in Changes
    BY <1>1, <1>2 DEF IsSound
  <1>4. Advanced(q) \in Answers
    BY <1>2, <1>3, LastAnswers DEF Answers
  <1>5. stored' # Torn
    BY <1>1, <1>2, SentinelAssumption
  <1>6. /\ SessionsHold(seen[r], told, new.ended, used, now)
        /\ \A s \in Request : IsOpen(s) => FitsSessions(requests[s], seen[r], told, used, now)
    BY <1>3 DEF SessionInv, IsWhole, Current, Ended
  <1>7. /\ SessionsHold(seen[r], new, new.ended, used, now)
        /\ \A y : FitsSessions(y, seen[r], told, used, now) =>
                     FitsSessions(y, seen[r], new, used, now)
    BY <1>2, <1>3, <1>6, AnswerTellsOfStored
  <1> HIDE DEF new
  <1>8. Current' = seen[r] /\ Ended' = new.ended
    BY <1>1, <1>5 DEF Current, Ended
  <1>9. \A s \in Request : IsOpen(s)' => FitsSessions(requests'[s], seen[r], new, used, now)
    <2>1. requests'[r] \in Answers /\ \A s \in Request : s # r => requests'[s] = requests[s]
      BY <1>1, <1>4, InvFacts
    <2>2. QED
      BY <1>6, <1>7, <2>1 DEF IsOpen, Answers
  <1>10. QED
    BY <1>1, <1>5, <1>7, <1>8, <1>9 DEF SessionInv, HolderWrites

LEMMA PerformKeepsSessions ==
    ASSUME Inv, SessionInv, NEW r \in Request, Perform(r)
    PROVE  SessionInv'
  <1> DEFINE q == requests[r]
             op == Head(q.todo)
  <1>1. backend = "mongodb" /\ IsOpen(r) /\ op \in Changes
    BY DEF Perform, IsNext
  <1>2. stored # Torn /\ q \in RequestState /\ IsReady(q) /\ told \in Told
    BY <1>1, InvFacts, SentinelAssumption
  <1>3. CASE Refuse(r)
    BY <1>3, RefusedKeepsSessions
  <1>4. CASE /\ CanChange(op, stored, q)
             /\ \E id \in FreshIds(op, q) :
                   /\ stored' = Changed(op, stored, id, q)
                   /\ used' = used \cup {id}
                   /\ requests' = [requests EXCEPT ![r] = Advanced(WithId(q, id))]
                   /\ told' = Answer(told, WithId(q, id), stored')
             /\ UNCHANGED <<backend, now, lock, seen>>
    <2>1. PICK id \in FreshIds(op, q) :
                   /\ stored' = Changed(op, stored, id, q)
                   /\ used' = used \cup {id}
                   /\ requests' = [requests EXCEPT ![r] = Advanced(WithId(q, id))]
                   /\ told' = Answer(told, WithId(q, id), stored')
      BY <1>4
    <2> DEFINE x == WithId(q, id)
               copy == Changed(op, stored, id, q)
               new == Answer(told, x, copy)
    <2>2. /\ op = "createSession" => id \in Session
          /\ op = "createClientToken" => id \in Key
      BY <1>1, <1>2, FreshIdTypes
    <2>3. /\ x \in RequestState /\ x.todo = q.todo /\ x.email = q.email /\ x.user = q.user
          /\ x.expired = q.expired /\ x.route = q.route
      BY <1>2, <2>2, WithIdFields, RouteFields
    <2>4. copy = Changed(op, stored, id, q) /\ stored' = copy /\ told' = new
      BY <2>1
    <2>5. x.session = WithId(q, id).session /\ x.key = WithId(q, id).key
      OBVIOUS
    <2>6. requests' = [requests EXCEPT ![r] = Advanced(x)]
      BY <2>1
    <2> HIDE DEF x, copy
    <2>7. IsReady(x) /\ IsGood(copy, new) /\ copy \in AuthState
      <3>1. IsReady(x) /\ IsGood(copy, new)
        BY <1>1, <1>2, <1>4, <2>3, <2>4, <2>5, InvFacts, DrawnFacts
      <3>2. QED
        BY <3>1 DEF IsGood
    <2>8. /\ SessionsHold(copy, told, new.ended, used \cup {id}, now)
          /\ \A s \in Request : IsOpen(s) =>
                FitsSessions(requests[s], copy, told, used \cup {id}, now)
      BY <1>1, <1>2, <1>4, <2>3, <2>4, <2>5, <2>7, DrawnKeepsSessions
    <2>9. /\ SessionsHold(copy, new, new.ended, used \cup {id}, now)
          /\ \A y : FitsSessions(y, copy, told, used \cup {id}, now) =>
                       FitsSessions(y, copy, new, used \cup {id}, now)
      BY <1>1, <1>2, <2>3, <2>8, AnswerTellsOfStored
    <2>10. Advanced(x) \in Answers
      BY <1>1, <2>3, <2>7, LastAnswers DEF Answers
    <2>11. stored' # Torn
      BY <2>4, <2>7, SentinelAssumption
    <2> HIDE DEF new
    <2>12. Current' = copy /\ Ended' = new.ended
      BY <2>4, <2>11 DEF Current, Ended
    <2>13. \A s \in Request : IsOpen(s)' =>
              FitsSessions(requests'[s], copy, new, used \cup {id}, now)
      <3>1. requests'[r] \in Answers /\ \A s \in Request : s # r => requests'[s] = requests[s]
        BY <2>6, <2>10, InvFacts
      <3>2. QED
        BY <2>8, <2>9, <3>1 DEF IsOpen, Answers
    <2>14. QED
      BY <1>4, <2>1, <2>4, <2>9, <2>11, <2>12, <2>13 DEF SessionInv, HolderWrites
  <1>5. QED
    BY <1>3, <1>4 DEF Perform

LEMMA SessionsStay ==
    ASSUME Inv, SessionInv, [Next]_vars
    PROVE  SessionInv'
  <1>1. CASE UNCHANGED vars
    BY <1>1 DEF vars, SessionInv, HolderWrites, IsWhole, Current, Ended, IsOpen
  <1>2. CASE Tick
    BY <1>2, TickKeepsSessions
  <1>3. ASSUME NEW r \in Request,
               \/ Arrives(r) \/ Look(r) \/ LookFails(r) \/ Perform(r)
               \/ Enter(r) \/ Leave(r) \/ Truncate(r) \/ Write(r) \/ Crash(r)
        PROVE  SessionInv'
    BY <1>3, ArrivesKeepsSessions, LookKeepsSessions, RefusedKeepsSessions,
       PerformKeepsSessions, EnterKeepsSessions, TruncateKeepsSessions,
       WriteKeepsSessions, CrashKeepsSessions
  <1>4. QED
    BY <1>1, <1>2, <1>3 DEF Next

(* A request that asks who holds a good session finds it, and its user. *)
LEMMA GoodSessionPasses ==
    ASSUME Inv, SessionInv, [Next]_vars, stored # Torn,
           NEW r \in Request, NEW s \in told.sessions, IsOpen(r),
           requests[r].route = "me", requests[r].session = s.id,
           s.id \notin told.ended, now < s.expiresAt
    PROVE  requests'[r] # Refused
  <1> DEFINE q == requests[r]
  <1>1. /\ q \in RequestState /\ IsReady(q) /\ now \in Nat /\ stored \in AuthState
        /\ told \in Told
    BY InvFacts
  <1>2. /\ SessionsHold(stored, told, told.ended, used, now)
        /\ FitsSessions(q, stored, told, used, now)
    BY DEF SessionInv, IsWhole, Current, Ended
  <1>3. s.expiresAt \in Nat
    BY <1>1 DEF Told, StoredSession
  <1>4. ~q.expired /\ q.todo = <<"getSession">>
    BY <1>1, <1>2, <1>3 DEF FitsSessions
  <1>5. Head(q.todo) = "getSession" /\ Len(q.todo) = 1
    BY <1>4, OneOperation
  <1>6. q # Refused /\ Idle # Refused
    BY <1>1, AuthAssumption, SentinelAssumption
  <1>7. CASE requests' = requests
    BY <1>6, <1>7
  <1>8. ASSUME NEW p \in Request, p # r,
               \/ Arrives(p) \/ Look(p) \/ LookFails(p) \/ Perform(p)
               \/ Enter(p) \/ Leave(p) \/ Truncate(p) \/ Write(p) \/ Crash(p)
        PROVE  requests'[r] # Refused
    BY <1>6, <1>8, OthersWait
  <1>9. ~Arrives(r) /\ ~LookFails(r)
    BY DEF Arrives, Begin, LookFails
  <1>10. ~(Perform(r) \/ Enter(r) \/ Leave(r) \/ Truncate(r) \/ Write(r))
    <2>1. Head(q.todo) \notin Changes
      BY <1>5 DEF Changes
    <2>2. q.at = "outside"
      <3>1. IsSound(r, q, seen[r], stored, lock, backend, told, used)
        BY InvFacts
      <3>2. QED
        BY <2>1, <3>1 DEF IsSound
    <2>3. QED
      BY <2>1, <2>2 DEF Perform, Enter, Leave, Truncate, Write, IsNext, IsInside
  <1>11. CASE Crash(r)
    <2>1. requests'[r] = Idle
      BY <1>11, CrashStep
    <2>2. QED
      BY <1>6, <2>1
  <1>12. CASE Look(r)
    <2> DEFINE sessions == SessionById(stored, q.session)
               found == {u \in stored.users : \E v \in sessions : v.user = u.id}
               next == [q EXCEPT !.user = CHOOSE id \in Account : \E u \in found : u.id = id]
    <2>1. s \in stored.sessions
      BY <1>2 DEF SessionsHold
    <2>2. sessions = {s}
      BY <1>2, <2>1 DEF SessionsHold, SessionById
    <2>3. ~\E v \in sessions : HasExpired(v)
      BY <1>1, <1>3, <2>2 DEF HasExpired
    <2>4. found # {}
      BY <1>2, <2>1, <2>2 DEF SessionsHold
    <2>5. AfterRead(q, stored) = Advanced(next)
      BY <1>5, <2>3, <2>4 DEF AfterRead
    <2>6. next.todo = q.todo /\ next.expired = q.expired
      BY <1>1 DEF RequestState
    <2> HIDE DEF next
    <2>7. ~(Len(next.todo) > 1) /\ ~next.expired
      BY <1>4, <1>5, <2>6
    <2>8. Advanced(next) = Accepted
      BY <2>7 DEF Advanced
    <2>9. requests'[r] = AfterRead(q, stored)
      BY <1>12, InvFacts DEF Look
    <2>10. QED
      BY <2>5, <2>8, <2>9, AuthAssumption
  <1>13. Tick \/ UNCHANGED vars => requests' = requests
    BY DEF Tick, vars
  <1>14. QED
    BY <1>7, <1>8, <1>9, <1>10, <1>11, <1>12, <1>13 DEF Next

(***************************************************************************)
(* A session nobody has logged out is good until it expires, whatever else *)
(* is created, ended and removed meanwhile.                                *)
(***************************************************************************)
THEOREM GoodSessionsStayGood == Spec => GoodSessionIsAccepted
  <1>1. ASSUME Init PROVE SessionInv
    <2>1. stored # Torn /\ stored.sessions = {} /\ told.sessions = {}
      BY <1>1, EmptyIsState, SentinelAssumption DEF Init, EmptyAuthState
    <2>2. \A r \in Request : ~IsOpen(r)
      BY <1>1 DEF Init, IsOpen
    <2>3. SessionsHold(Current, told, Ended, used, now)
      BY <2>1 DEF SessionsHold, Current
    <2>4. QED
      BY <2>1, <2>2, <2>3 DEF SessionInv, HolderWrites
  <1>2. Inv /\ SessionInv /\ [Next]_vars => SessionInv'
    BY SessionsStay
  <1>3. ASSUME Inv, SessionInv, [Next]_vars
        PROVE  [\A r \in Request, s \in told.sessions :
                  /\ IsOpen(r)
                  /\ requests'[r] = Refused
                  /\ requests[r].route = "me"
                  /\ requests[r].session = s.id
                  /\ s.id \notin told.ended
                  /\ now < s.expiresAt
                  => stored = Torn]_vars
    BY <1>3, GoodSessionPasses
  <1>4. QED
    BY <1>1, <1>2, <1>3, AuthStaysSound, PTL DEF Spec, GoodSessionIsAccepted

=============================================================================
