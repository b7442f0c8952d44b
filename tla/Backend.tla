------------------------------ MODULE Backend ------------------------------
(***************************************************************************)
(* The Go API: cmd/server/main.go with internal/config, database.New,      *)
(* middleware/auth.go and the handlers setupRouter registers.  Each        *)
(* request runs in a goroutine of its own; all share one sql.DB, which     *)
(* gives a connection to at most MaxOpen queries at a time and lets the    *)
(* others wait.  /metrics wants a token that Login signed with the secret  *)
(* of the running process and that has not expired.  The analytics         *)
(* handlers, which setupRouter does not register, are in Analytics.        *)
(***************************************************************************)
EXTENDS Integers

CONSTANTS Clients,    \* each has one request under way at most
          MaxOpen,    \* SetMaxOpenConns: 25
          Life,       \* of a token: 24 hours, in clock units
          MaxSecret,  \* bound: JWT_SECRET is rotated MaxSecret - 1 times
          None

\* setupRouter: the first step of each kind of request.  The middleware for
\* CORS answers OPTIONS by itself.
Routes == [options |-> "reply", health |-> "acquire", login |-> "bind",
           metrics |-> "auth"]
Kinds == DOMAIN Routes

\* A token as its holder sees it: who signed it, and the time to its "exp".
Token == [secret : 1..MaxSecret, left : 0..Life]
\* A login as its client remembers it: to whom, and how long ago; Life for
\* any time of at least Life.
Proof == [secret : 1..MaxSecret, age : 0..Life]

ASSUME BackendAssumption ==
  /\ MaxOpen \in Nat \ {0} /\ Life \in Nat \ {0} /\ MaxSecret \in Nat \ {0}
  /\ None \notin Token \cup Proof

VARIABLES life,     \* the process: "down" or "serving"
          secret,   \* JWT_SECRET of the environment; 0 if it is not set
          pg,       \* PostgreSQL: "up", "down" or "stalled"
          inUse,    \* connections of the pool that are given out
          pc, kind, \* of each client's request
          status,   \* of the reply; 0 while there is none
          token,    \* the token the client holds
          proof     \* history: when the client last proved its password
process  == <<life, secret>>
handling == <<kind, status>>
client   == <<token, proof>>
vars == <<process, pg, inUse, pc, handling, client>>

Each(x) == [c \in Clients |-> x]

Init ==
  /\ life = "down" /\ secret \in {0, 1}
  /\ pg \in {"up", "down"}
  /\ inUse = 0
  /\ pc = Each("idle") /\ kind = Each("options") /\ status = Each(0)
  /\ token = Each(None) /\ proof = Each(None)

-----------------------------------------------------------------------------
(* The process. *)

\* "JWT_SECRET is required"; everything else has a default.
Load == secret # 0

\* database.New wants a ping that succeeds.  Without it, or without a secret,
\* main ends, and the container is started anew.
main ==
  /\ life = "down" /\ Load /\ pg = "up"
  /\ life' = "serving"
  /\ UNCHANGED <<secret, pg, inUse, pc, handling, client>>

\* The process is killed with all its requests, and perhaps deployed anew
\* with another secret.
Restart ==
  /\ life = "serving"
  /\ life' = "down" /\ inUse' = 0
  /\ secret' \in {secret, secret + 1} \cap 1..MaxSecret
  /\ pc' = Each("idle") /\ kind' = Each("options") /\ status' = Each(0)
  /\ UNCHANGED <<pg, client>>

SetSecret ==
  /\ secret = 0 /\ secret' = 1
  /\ UNCHANGED <<life, pg, inUse, pc, handling, client>>

-----------------------------------------------------------------------------
(* One request. *)

Go(c, from, to) == pc[c] = from /\ pc' = [pc EXCEPT ![c] = to]
Status(c, code) == status' = [status EXCEPT ![c] = code]
inMemory == UNCHANGED <<process, pg, inUse, kind, client>>

\* Mutant: /metrics pings the database first.
AfterAuth_Ping == "acquire"

\* Metrics answers from constants.
AfterAuth == "reply"

Request(c, k) ==
  /\ life = "serving"
  /\ Go(c, "idle", Routes[k])
  /\ kind' = [kind EXCEPT ![c] = k]
  /\ Status(c, IF k = "options" THEN 204 ELSE 0)
  /\ UNCHANGED <<process, pg, inUse, client>>

Valid(t) == t # None /\ t.secret = secret /\ t.left > 0

\* Mutant: the signature is not compared with the secret of this process.
AuthMiddleware_AnySecret(c) ==
  /\ LET ok == token[c] # None /\ token[c].left > 0
     IN  /\ Go(c, "auth", IF ok THEN AfterAuth ELSE "reply")
         /\ Status(c, IF ok THEN 200 ELSE 401)
  /\ inMemory

\* A client sends the token it holds.  A header that is missing, or lacks
\* "Bearer ", is a request without a token.
AuthMiddleware(c) ==
  /\ \/ Valid(token[c]) /\ Go(c, "auth", AfterAuth) /\ Status(c, 200)
     \/ ~ Valid(token[c]) /\ Go(c, "auth", "reply") /\ Status(c, 401)
  /\ inMemory

\* ShouldBindJSON of Login
Bind(c) ==
  /\ kind[c] = "login"
  /\ \/ Go(c, "bind", "acquire") /\ UNCHANGED status
     \/ Go(c, "bind", "reply") /\ Status(c, 400)
  /\ inMemory

\* database/sql: a query waits until fewer than MaxOpen connections are out.
Acquire(c) ==
  /\ inUse < MaxOpen
  /\ Go(c, "acquire", "run")
  /\ inUse' = inUse + 1
  /\ UNCHANGED <<process, pg, handling, client>>

\* A query comes to an end, and Scan and Ping give its connection back.  It
\* has no timeout: while PostgreSQL is stalled it goes on.
Finish(c) ==
  /\ pg # "stalled" /\ Go(c, "run", "reply") /\ inUse' = inUse - 1
  /\ UNCHANGED <<process, pg, kind>>

\* Health: the status is 200 whatever the ping says.
Health(c) ==
  /\ kind[c] # "login"
  /\ Finish(c) /\ Status(c, 200)
  /\ UNCHANGED client

\* Mutant: the connection of a failed query is closed twice.
Reject_Twice(c) ==
  /\ kind[c] = "login"
  /\ pg # "stalled" /\ Go(c, "run", "reply") /\ Status(c, 401)
  /\ inUse' = inUse - 2
  /\ UNCHANGED <<process, pg, kind, client>>

\* Mutant: the connection of a failed query is not given back.
Reject_Leak(c) ==
  /\ kind[c] = "login"
  /\ pg # "stalled" /\ Go(c, "run", "reply") /\ Status(c, 401)
  /\ UNCHANGED <<process, pg, inUse, kind, client>>

\* validateCredentials: a failed query counts as a wrong password.
Reject(c) ==
  /\ kind[c] = "login"
  /\ Finish(c) /\ Status(c, 401)
  /\ UNCHANGED client

\* generateToken
LoggedIn(c) ==
  /\ kind[c] = "login" /\ pg = "up"
  /\ Finish(c) /\ Status(c, 200)
  /\ token' = [token EXCEPT ![c] = [secret |-> secret, left |-> Life]]
  /\ proof' = [proof EXCEPT ![c] = [secret |-> secret, age |-> 0]]

Reply(c) ==
  /\ Go(c, "reply", "idle")
  /\ kind' = [kind EXCEPT ![c] = "options"]
  /\ Status(c, 0)
  /\ UNCHANGED <<process, pg, inUse, client>>

Handle(c) == \/ AuthMiddleware(c) \/ Bind(c) \/ Health(c)
             \/ LoggedIn(c) \/ Reject(c) \/ Reply(c)

-----------------------------------------------------------------------------
PgChange ==
  /\ pg' \in {"up", "down", "stalled"} \ {pg}
  /\ UNCHANGED <<process, inUse, pc, handling, client>>

\* Time passes for the tokens, and for what their holders remember.
Tick ==
  /\ token' = [c \in Clients |->
       IF token[c] = None \/ token[c].left = 0
       THEN token[c] ELSE [token[c] EXCEPT !.left = @ - 1]]
  /\ proof' = [c \in Clients |->
       IF proof[c] = None \/ proof[c].age = Life
       THEN proof[c] ELSE [proof[c] EXCEPT !.age = @ + 1]]
  /\ UNCHANGED <<process, pg, inUse, pc, handling>>

Next == \/ main \/ Restart \/ SetSecret \/ PgChange \/ Tick
        \/ \E c \in Clients : \/ Handle(c) \/ Acquire(c)
                              \/ \E k \in Kinds : Request(c, k)

Spec == Init /\ [][Next]_vars

(***************************************************************************)
(* Goroutines are scheduled.  database/sql hands a connection that is      *)
(* given back to one of the waiting queries, picked at random: none of     *)
(* them waits for ever while connections come back.                        *)
(***************************************************************************)
FairSpec ==
  Spec /\ \A c \in Clients : WF_vars(Handle(c)) /\ SF_vars(Acquire(c))

-----------------------------------------------------------------------------
(* Properties. *)

\* Every variable keeps its type; no more than MaxOpen connections are out,
\* and none is given back twice.
TypeOK ==
  /\ life \in {"down", "serving"} /\ secret \in 0..MaxSecret
  /\ pg \in {"up", "down", "stalled"}
  /\ inUse \in 0..MaxOpen
  /\ pc \in [Clients -> {"idle", "auth", "bind", "acquire", "run", "reply"}]
  /\ kind \in [Clients -> Kinds]
  /\ status \in [Clients -> {0, 200, 204, 400, 401}]
  /\ token \in [Clients -> Token \cup {None}]
  /\ proof \in [Clients -> Proof \cup {None}]

(***************************************************************************)
(* AuthMiddleware lets /metrics through exactly for a client that proved   *)
(* its password less than 24 hours ago, to a process with the secret of    *)
(* this one: a restart alone ends no session, a new secret ends them all.  *)
(***************************************************************************)
Proven(c) ==
  proof[c] # None /\ proof[c].age < Life /\ proof[c].secret = secret

EnteredWhenProven ==
  [][\A c \in Clients :
       pc[c] = "auth" /\ status'[c] # 0 => (status'[c] = 200 <=> Proven(c))]_vars

(***************************************************************************)
(* Although /health and Login wait for a connection of the pool without a  *)
(* timeout, and restarts and failed queries come between, no request waits *)
(* for ever, unless PostgreSQL stalls for ever.                            *)
(***************************************************************************)
NoEndlessStall == <>[](pg # "stalled")
RequestsAnswered ==
  NoEndlessStall => \A c \in Clients : pc[c] # "idle" ~> pc[c] = "idle"

(***************************************************************************)
(* /metrics is answered whatever PostgreSQL does, also when every          *)
(* connection of the pool is stuck in a stalled server.                    *)
(***************************************************************************)
MetricsSpared ==
  \A c \in Clients : pc[c] = "auth" /\ kind[c] = "metrics" ~> pc[c] = "idle"
=============================================================================
