---------------------------- MODULE BackendProofs ----------------------------
(***************************************************************************)
(* For any number of clients, any pool, life of a token and number of      *)
(* secrets: whom AuthMiddleware lets through, and that the pool of         *)
(* connections is neither exceeded nor given back twice.                   *)
(*                                                                         *)
(* The middleware sees a token, the property a history of logins.  What    *)
(* ties them together is that the time left to a token and the age of its  *)
(* login add up to Life at any moment, across restarts and new secrets.    *)
(***************************************************************************)
EXTENDS Backend, FiniteSetTheorems, TLAPS

\* The clients whose request has a connection of the pool.
Running == {c \in Clients : pc[c] = "run"}

CountInv == IsFiniteSet(Running) /\ inUse = Cardinality(Running)

\* There are requests only while the process serves, and then it has a secret.
LifeInv ==
  /\ life = "serving" => secret # 0
  /\ \A c \in Clients : pc[c] # "idle" => life = "serving"

\* A request has no status before AuthMiddleware has seen its token.
AuthInv == \A c \in Clients : pc[c] = "auth" => status[c] = 0

\* A token is as good as the login it stems from.
TokenInv ==
  \A c \in Clients :
    /\ token[c] = None <=> proof[c] = None
    /\ token[c] # None => /\ token[c].secret = proof[c].secret
                          /\ token[c].left + proof[c].age = Life

IInv == TypeOK /\ CountInv /\ LifeInv /\ AuthInv /\ TokenInv

-----------------------------------------------------------------------------
(* Tokens. *)

LEMMA NoneIsNoToken == None \notin Token /\ None \notin Proof
BY BackendAssumption

LEMMA TokenFields ==
  ASSUME NEW t \in Token \cup {None}, t # None
  PROVE  t \in Token /\ t.secret \in 1..MaxSecret /\ t.left \in 0..Life
BY DEF Token

LEMMA ProofFields ==
  ASSUME NEW p \in Proof \cup {None}, p # None
  PROVE  p \in Proof /\ p.secret \in 1..MaxSecret /\ p.age \in 0..Life
BY DEF Proof

\* One unit of time, for one client: the sum of left and age is kept.
LEMMA TickOne ==
  ASSUME NEW t \in Token \cup {None}, NEW p \in Proof \cup {None},
         t = None <=> p = None,
         t # None => t.secret = p.secret /\ t.left + p.age = Life
  PROVE  LET u == IF t = None \/ t.left = 0 THEN t ELSE [t EXCEPT !.left = @ - 1]
             q == IF p = None \/ p.age = Life THEN p ELSE [p EXCEPT !.age = @ + 1]
         IN  /\ u \in Token \cup {None} /\ q \in Proof \cup {None}
             /\ u = None <=> q = None
             /\ u # None => u.secret = q.secret /\ u.left + q.age = Life
<1> DEFINE u == IF t = None \/ t.left = 0 THEN t ELSE [t EXCEPT !.left = @ - 1]
           q == IF p = None \/ p.age = Life THEN p ELSE [p EXCEPT !.age = @ + 1]
<1>1. CASE t = None
  BY <1>1
<1>2. CASE t # None
  <2>1. /\ t \in Token /\ t.secret \in 1..MaxSecret /\ t.left \in 0..Life
        /\ p \in Proof /\ p.secret \in 1..MaxSecret /\ p.age \in 0..Life
    BY <1>2, TokenFields, ProofFields
  <2>2. t.left = 0 <=> p.age = Life
    BY <1>2, <2>1, BackendAssumption
  <2>3. CASE t.left = 0
    BY <1>2, <2>2, <2>3
  <2>4. CASE t.left # 0
    <3>1. t.left - 1 \in 0..Life /\ p.age + 1 \in 0..Life
      BY <1>2, <2>1, <2>2, <2>4, BackendAssumption
    <3>2. /\ u \in Token /\ u.secret = t.secret /\ u.left = t.left - 1
          /\ q \in Proof /\ q.secret = p.secret /\ q.age = p.age + 1
      BY <1>2, <2>1, <2>2, <2>4, <3>1 DEF Token, Proof
    <3>3. u.left + q.age = Life
      BY <1>2, <2>1, <3>2, BackendAssumption
    <3>4. QED BY <1>2, <3>2, <3>3, NoneIsNoToken
  <2>5. QED BY <2>3, <2>4
<1>3. QED BY <1>1, <1>2

\* What AuthMiddleware tests is what the property says.
LEMMA ValidIsProven ==
  ASSUME IInv, NEW c \in Clients
  PROVE  Valid(token[c]) <=> Proven(c)
<1>1. CASE token[c] = None
  BY <1>1 DEF IInv, TokenInv, Valid, Proven
<1>2. CASE token[c] # None
  <2>1. token[c].left \in 0..Life
    BY <1>2, TokenFields DEF IInv, TypeOK
  <2>2. proof[c].age \in 0..Life /\ proof[c] # None
    BY <1>2, ProofFields DEF IInv, TypeOK, TokenInv
  <2>3. token[c].left > 0 <=> proof[c].age < Life
    BY <1>2, <2>1, <2>2, BackendAssumption DEF IInv, TokenInv
  <2>4. QED BY <1>2, <2>2, <2>3 DEF IInv, TokenInv, Valid, Proven
<1>3. QED BY <1>1, <1>2

-----------------------------------------------------------------------------
(* Counting the connections. *)

LEMMA OneMore ==
  ASSUME TypeOK, CountInv, NEW c \in Clients, pc[c] # "run",
         pc' = [pc EXCEPT ![c] = "run"]
  PROVE  IsFiniteSet(Running') /\ Cardinality(Running') = inUse + 1
<1>1. Running' = Running \cup {c} /\ c \notin Running
  BY DEF Running, TypeOK
<1>2. QED BY <1>1, FS_AddElement DEF CountInv

LEMMA OneLess ==
  ASSUME TypeOK, CountInv, NEW c \in Clients, pc[c] = "run",
         pc' = [pc EXCEPT ![c] = "reply"]
  PROVE  /\ IsFiniteSet(Running') /\ Cardinality(Running') = inUse - 1
         /\ inUse >= 1
<1>1. Running' = Running \ {c} /\ c \in Running
  BY DEF Running, TypeOK
<1>2. IsFiniteSet(Running') /\ Cardinality(Running') = inUse - 1
  BY <1>1, FS_RemoveElement DEF CountInv
<1>3. Cardinality(Running') \in Nat
  BY <1>2, FS_CardinalityType
<1>4. QED BY <1>2, <1>3 DEF TypeOK

LEMMA SameCount ==
  ASSUME TypeOK, CountInv, NEW c \in Clients, pc[c] # "run",
         NEW p, p # "run", pc' = [pc EXCEPT ![c] = p], UNCHANGED inUse
  PROVE  CountInv'
<1>1. Running' = Running
  BY DEF Running, TypeOK
<1>2. QED BY <1>1 DEF CountInv

-----------------------------------------------------------------------------
(* The invariant. *)

LEMMA InitInv == Init => IInv
<1> SUFFICES ASSUME Init PROVE IInv
  OBVIOUS
<1>1. TypeOK
  BY BackendAssumption DEF Init, TypeOK, Each, Kinds, Routes
<1>2. CountInv
  <2>1. Running = {}
    BY DEF Init, Each, Running
  <2>2. QED BY <2>1, FS_EmptySet DEF Init, CountInv
<1>3. QED BY <1>1, <1>2 DEF Init, Each, IInv, LifeInv, AuthInv, TokenInv

LEMMA StepInv == IInv /\ [Next]_vars => IInv'
<1> SUFFICES ASSUME IInv, [Next]_vars PROVE IInv'
  OBVIOUS
<1> USE BackendAssumption DEF Go, Status, process, handling, client, inMemory
<1>1. CASE main
  BY <1>1 DEF main, Load, IInv, TypeOK, CountInv, Running, LifeInv, AuthInv, TokenInv
<1>2. CASE Restart
  <2>1. CountInv'
    <3>1. Running' = {}
      BY <1>2 DEF Restart, Each, Running
    <3>2. QED BY <1>2, <3>1, FS_EmptySet DEF Restart, CountInv
  <2>2. TypeOK'
    BY <1>2 DEF Restart, Each, IInv, TypeOK, Kinds, Routes
  <2>3. QED BY <1>2, <2>1, <2>2 DEF Restart, Each, IInv, LifeInv, AuthInv, TokenInv
<1>3. CASE SetSecret
  BY <1>3 DEF SetSecret, IInv, TypeOK, CountInv, Running, LifeInv, AuthInv, TokenInv
<1>4. CASE PgChange \/ UNCHANGED vars
  <2>1. /\ UNCHANGED <<life, secret, inUse, pc, kind, status, token, proof>>
        /\ pg' = pg \/ pg' \in {"up", "down", "stalled"}
    BY <1>4 DEF PgChange, vars
  <2>2. TypeOK'
    BY <2>1 DEF IInv, TypeOK
  <2>3. CountInv'
    BY <2>1 DEF IInv, CountInv, Running
  <2>4. QED BY <2>1, <2>2, <2>3 DEF IInv, LifeInv, AuthInv, TokenInv
<1>5. CASE Tick
  <2>1. \A c \in Clients :
          /\ token'[c] \in Token \cup {None} /\ proof'[c] \in Proof \cup {None}
          /\ token'[c] = None <=> proof'[c] = None
          /\ token'[c] # None => /\ token'[c].secret = proof'[c].secret
                                 /\ token'[c].left + proof'[c].age = Life
    BY <1>5, TickOne DEF Tick, IInv, TypeOK, TokenInv
  <2>2. TokenInv'
    BY <2>1 DEF TokenInv
  <2>3. TypeOK'
    BY <1>5, <2>1 DEF Tick, IInv, TypeOK
  <2>4. QED
    BY <1>5, <2>2, <2>3 DEF Tick, IInv, CountInv, Running, LifeInv, AuthInv
<1>6. ASSUME NEW c \in Clients, NEW k \in Kinds, Request(c, k) PROVE IInv'
  <2>1. Routes[k] \in {"auth", "bind", "acquire", "reply"}
    BY DEF Routes, Kinds
  <2>2. Routes[k] = "auth" => k # "options"
    BY DEF Routes, Kinds
  <2>3. TypeOK'
    BY <1>6, <2>1 DEF Request, IInv, TypeOK
  <2>4. CountInv'
    BY <1>6, <2>1, SameCount DEF Request, IInv
  <2>5. AuthInv'
    BY <1>6, <2>2 DEF Request, IInv, TypeOK, AuthInv
  <2>6. LifeInv'
    BY <1>6 DEF Request, IInv, TypeOK, LifeInv
  <2>7. QED BY <1>6, <2>3, <2>4, <2>5, <2>6 DEF Request, IInv, TokenInv
<1>7. ASSUME NEW c \in Clients, AuthMiddleware(c) PROVE IInv'
  <2>1. TypeOK'
    BY <1>7 DEF AuthMiddleware, AfterAuth, IInv, TypeOK
  <2>2. CountInv'
    BY <1>7, SameCount DEF AuthMiddleware, AfterAuth, IInv
  <2>3. AuthInv' /\ LifeInv' /\ TokenInv'
    BY <1>7 DEF AuthMiddleware, AfterAuth, IInv, TypeOK, AuthInv, LifeInv, TokenInv
  <2>4. QED BY <2>1, <2>2, <2>3 DEF IInv
<1>8. ASSUME NEW c \in Clients, Bind(c) PROVE IInv'
  <2>1. TypeOK'
    BY <1>8 DEF Bind, IInv, TypeOK
  <2>2. CountInv'
    BY <1>8, SameCount DEF Bind, IInv
  <2>3. AuthInv' /\ LifeInv' /\ TokenInv'
    BY <1>8 DEF Bind, IInv, TypeOK, AuthInv, LifeInv, TokenInv
  <2>4. QED BY <2>1, <2>2, <2>3 DEF IInv
<1>9. ASSUME NEW c \in Clients, Acquire(c) PROVE IInv'
  <2>1. IsFiniteSet(Running') /\ Cardinality(Running') = inUse + 1
    BY <1>9, OneMore DEF Acquire, IInv
  <2>2. TypeOK'
    BY <1>9 DEF Acquire, IInv, TypeOK
  <2>3. AuthInv' /\ LifeInv' /\ TokenInv'
    BY <1>9 DEF Acquire, IInv, TypeOK, AuthInv, LifeInv, TokenInv
  <2>4. QED BY <1>9, <2>1, <2>2, <2>3 DEF Acquire, IInv, CountInv
\* the end of a query gives back one connection, and there was one
<1>10. ASSUME NEW c \in Clients, Finish(c), Status(c, 200) \/ Status(c, 401)
       PROVE  /\ CountInv' /\ inUse' \in 0..MaxOpen
              /\ pc' \in [Clients -> {"idle", "auth", "bind", "acquire", "run", "reply"}]
              /\ status' \in [Clients -> {0, 200, 204, 400, 401}]
              /\ AuthInv' /\ LifeInv'
  <2>1. /\ IsFiniteSet(Running') /\ Cardinality(Running') = inUse - 1
        /\ inUse >= 1
    BY <1>10, OneLess DEF Finish, IInv
  <2>2. CountInv' /\ inUse' \in 0..MaxOpen
    BY <1>10, <2>1 DEF Finish, IInv, TypeOK, CountInv
  <2>3. QED BY <1>10, <2>2 DEF Finish, IInv, TypeOK, AuthInv, LifeInv
<1>11. ASSUME NEW c \in Clients, Health(c) \/ Reject(c) PROVE IInv'
  <2>1. /\ Finish(c) /\ (Status(c, 200) \/ Status(c, 401))
        /\ UNCHANGED <<token, proof>>
    BY <1>11 DEF Health, Reject
  <2> UNCHANGED <<life, secret, pg, kind, token, proof>>
    BY <2>1 DEF Finish, process
  <2>2. TypeOK'
    BY <1>10, <2>1 DEF IInv, TypeOK
  <2>3. TokenInv'
    BY <2>1 DEF IInv, TokenInv
  <2>4. QED BY <1>10, <2>1, <2>2, <2>3 DEF IInv
<1>12. ASSUME NEW c \in Clients, LoggedIn(c) PROVE IInv'
  <2>1. Finish(c) /\ Status(c, 200)
    BY <1>12 DEF LoggedIn
  <2>2. secret \in 1..MaxSecret
    BY <2>1 DEF Finish, IInv, TypeOK, LifeInv
  <2>3. DEFINE t == [secret |-> secret, left |-> Life]
               p == [secret |-> secret, age |-> 0]
  <2>4. t \in Token /\ p \in Proof
    BY <2>2 DEF Token, Proof
  <2>5. token' = [token EXCEPT ![c] = t] /\ proof' = [proof EXCEPT ![c] = p]
    BY <1>12 DEF LoggedIn
  <2> UNCHANGED <<life, secret, pg, kind>>
    BY <2>1 DEF Finish, process
  <2>6. TypeOK'
    <3> HIDE DEF t, p
    <3>1. token' \in [Clients -> Token \cup {None}] /\ proof' \in [Clients -> Proof \cup {None}]
      BY <2>4, <2>5 DEF IInv, TypeOK
    <3>2. QED BY <1>10, <2>1, <3>1 DEF IInv, TypeOK
  <2>7. TokenInv'
    BY <2>4, <2>5, NoneIsNoToken DEF IInv, TypeOK, TokenInv
  <2>8. QED BY <1>10, <2>1, <2>6, <2>7 DEF IInv
<1>13. ASSUME NEW c \in Clients, Reply(c) PROVE IInv'
  <2>1. TypeOK'
    BY <1>13 DEF Reply, IInv, TypeOK, Kinds, Routes
  <2>2. CountInv'
    BY <1>13, SameCount DEF Reply, IInv
  <2>3. AuthInv' /\ LifeInv' /\ TokenInv'
    BY <1>13 DEF Reply, IInv, TypeOK, AuthInv, LifeInv, TokenInv
  <2>4. QED BY <2>1, <2>2, <2>3 DEF IInv
<1>14. QED
  BY <1>1, <1>2, <1>3, <1>4, <1>5, <1>6, <1>7, <1>8, <1>9, <1>11, <1>12, <1>13
     DEF Next, Handle

(***************************************************************************)
(* The inductive invariant holds in every reachable state.                 *)
(***************************************************************************)
THEOREM Invariance == Spec => []IInv
BY InitInv, StepInv, PTL DEF Spec

(***************************************************************************)
(* Every variable keeps its type: also across restarts, no more than       *)
(* MaxOpen connections are out, and none is given back twice.              *)
(***************************************************************************)
THEOREM TypeCorrect == Spec => []TypeOK
<1>1. IInv => TypeOK
  BY DEF IInv
<1>2. QED BY <1>1, Invariance, PTL

(***************************************************************************)
(* AuthMiddleware answers 200 exactly for a client that logged in less     *)
(* than the life of a token ago, at a process with the secret of this one, *)
(* however often the process was restarted in between.                     *)
(***************************************************************************)
THEOREM EntersExactlyTheProven == Spec => EnteredWhenProven
<1> DEFINE Entry == \A c \in Clients :
             pc[c] = "auth" /\ status'[c] # 0 => (status'[c] = 200 <=> Proven(c))
<1>1. IInv /\ [Next]_vars => [Entry]_vars
  <2> SUFFICES ASSUME IInv, Next, NEW c \in Clients,
                      pc[c] = "auth", status'[c] # 0
               PROVE  status'[c] = 200 <=> Proven(c)
    BY Zenon
  <2>1. status[c] = 0 /\ c \in DOMAIN status
    BY DEF IInv, TypeOK, AuthInv
  <2>2. CASE AuthMiddleware(c)
    BY <2>1, <2>2, ValidIsProven DEF AuthMiddleware, Status
  \* no other step sets the status of a request that waits for its check
  <2>3. CASE ~ AuthMiddleware(c)
    <3>1. status'[c] = 0
      BY <2>1, <2>3 DEF Next, main, Restart, SetSecret, PgChange, Tick, Handle,
         AuthMiddleware, Bind, Health, LoggedIn, Reject, Reply, Acquire, Request,
         Finish, Go, Status, inMemory, process, handling, client, Each
    <3>2. QED BY <3>1
  <2>4. QED BY <2>2, <2>3
<1>2. QED BY <1>1, Invariance, PTL DEF Spec, EnteredWhenProven
=============================================================================
