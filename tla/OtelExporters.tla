--------------------------- MODULE OtelExporters ---------------------------
(***************************************************************************)
(* The two Go exporters on the OpenTelemetry SDK, chosen by `program`:     *)
(*   "service"    monitoring/otel-go-service/main.go                       *)
(*   "collector"  monitoring/otel-collector/main.go                        *)
(* Each runs one goroutine that reads PostgreSQL at every tick of 30 s and *)
(* updates its instruments, and one goroutine per HTTP request.  They      *)
(* share an sql.DB without limits or timeouts.  /metrics and /health are   *)
(* answered from memory.                                                   *)
(*                                                                         *)
(* Numbers are left out: an instrument is `fresh` when the tick under way, *)
(* or else the last one, has updated it.                                   *)
(***************************************************************************)
EXTENDS Integers, Sequences, FiniteSets

CONSTANTS Clients,  \* each has one request under way at most
          Ticker    \* the collecting goroutine

ASSUME ExportersAssumption == Ticker \notin Clients /\ IsFiniteSet(Clients)

Users == Clients \cup {Ticker}

-----------------------------------------------------------------------------
(* What each program is made of. *)

\* collectMetrics: the readings of one tick, in order.
ServiceReadings ==
  <<"connections", "cache", "slow", "deadlocks", "replication">>

\* Mutant: the collector reads the deadlocks, for which it has no instrument.
CollectorReadings_Deadlocks == <<"connections", "cache", "deadlocks">>

CollectorReadings == <<"connections", "cache">>

\* initMetrics creates these; an update of another is a nil dereference.
ServiceInstruments ==
  {"connections", "slow", "deadlocks", "cache", "duration", "replication"}
CollectorInstruments == {"connections", "slow", "cache"}

\* The first step of each kind of request.
ServiceRoutes == [metrics |-> "reply", health |-> "reply",
                  slow |-> "ask", connections |-> "ask"]
CollectorRoutes == [ServiceRoutes EXCEPT !.slow = "slice"]

Kinds == DOMAIN ServiceRoutes

\* ?limit=: below zero, 0 or 1, or more; more if missing or not a number.
Limits == {"negative", "few", "more"}

VARIABLES program, life,
          lacks,   \* readings PostgreSQL refuses, or answers with NULL
          pg,      \* "up", "full" (refuses new sessions), "down", "stalled"
          tick,    \* ticker.C holds a tick
          at,      \* the reading under way; 0 between ticks
          fresh,   \* the instruments updated since the last tick began
          open,    \* connections the sql.DB has given out
          pc,      \* of each goroutine
          kind, limit, reply    \* of each request
fixed    == <<program, lacks>>
ticking  == <<tick, at, fresh>>
handling == <<kind, limit, reply>>
vars == <<fixed, life, pg, ticking, open, pc, handling>>

Readings == IF program = "service" THEN ServiceReadings ELSE CollectorReadings
Instruments ==
  IF program = "service" THEN ServiceInstruments ELSE CollectorInstruments
Routes == IF program = "service" THEN ServiceRoutes ELSE CollectorRoutes
Each(x) == [c \in Clients |-> x]

\* pg_stat_statements may not be installed; there may be no tables; a
\* standby may have received nothing.
Init ==
  /\ program \in {"service", "collector"} /\ life = "starting"
  /\ lacks \in SUBSET {"cache", "slow", "replication"}
  /\ pg \in {"up", "down", "stalled"}
  /\ tick = FALSE /\ at = 0 /\ fresh = {}
  /\ open = 0
  /\ pc = [u \in Users |-> "idle"]
  /\ kind = Each("health") /\ limit = Each("more") /\ reply = Each("none")

-----------------------------------------------------------------------------
(* Start-up.  sql.Open makes no connection. *)

\* The goroutine is started, then ListenAndServe.
Serve ==
  /\ life = "starting" /\ life' = "serving"
  /\ UNCHANGED <<fixed, pg, ticking, open, pc, handling>>

ServiceMain == program = "service" /\ Serve

\* Mutant: log.Fatal when the ping fails, as in cmd/server.
CollectorMain_Fatal == program = "collector" /\ pg = "up" /\ Serve

\* The ping's result is logged only; in a stalled server it does not return.
CollectorMain == program = "collector" /\ pg # "stalled" /\ Serve

main == ServiceMain \/ CollectorMain

-----------------------------------------------------------------------------
(* The pool. *)

Go(u, from, to) == pc[u] = from /\ pc' = [pc EXCEPT ![u] = to]
Give == open' = open - 1

\* A query gets an idle connection, or opens one.
Acquire(u) ==
  /\ pg # "down"
  /\ Go(u, "ask", "run")
  /\ open' = open + 1
  /\ UNCHANGED <<fixed, life, pg, ticking, handling>>

\* There was no idle connection, and none could be opened.
Refused(u) ==
  /\ pg \in {"full", "down"} /\ pc[u] = "ask"
  /\ UNCHANGED open

\* The session went with the server.
Broken(u) == pg = "down" /\ pc[u] = "run" /\ Give

Answered(u) == pg \in {"up", "full"} /\ pc[u] = "run"

-----------------------------------------------------------------------------
(* The collecting goroutine. *)

Wake ==
  /\ tick /\ at = 0
  /\ tick' = FALSE /\ at' = 1 /\ fresh' = {}
  /\ Go(Ticker, "idle", "ask")
  /\ UNCHANGED <<fixed, life, pg, open, handling>>

\* The reading under way ends, and the next begins.
Proceed ==
  IF at < Len(Readings)
  THEN at' = at + 1 /\ pc' = [pc EXCEPT ![Ticker] = "ask"]
  ELSE at' = 0 /\ pc' = [pc EXCEPT ![Ticker] = "idle"]

Update(instruments) ==
  /\ fresh' = fresh \cup instruments
  /\ UNCHANGED <<fixed, life, pg, tick, handling>>

\* A query fails: the error is logged, or dropped, and the tick goes on.
ReadingFails ==
  /\ Refused(Ticker) \/ Broken(Ticker)
  /\ Proceed /\ Update({})

\* Query returns with the first row.
ReadingRows ==
  /\ Answered(Ticker) /\ Readings[at] = "connections"
  /\ Go(Ticker, "run", "rows")
  /\ UNCHANGED <<fixed, life, pg, ticking, open, handling>>

\* Mutant: without the deferred Close a row that cannot be scanned ends it all.
ServiceConnections_Leak ==
  /\ program = "service"
  /\ pg # "stalled" /\ pc[Ticker] = "rows"
  /\ UNCHANGED open /\ Proceed /\ Update({})

\* The service adds the counts after the last row.  rows.Err is not asked: if
\* the server goes, what has been read, perhaps nothing, passes for all.
ServiceConnections ==
  /\ program = "service"
  /\ pg # "stalled" /\ pc[Ticker] = "rows"
  /\ Give /\ Proceed
  /\ \/ Update({"connections"})
     \/ pg = "down" /\ Update({})

\* The collector adds each count as it is read; there is one at least, for
\* the session that asks.
CollectorAdd ==
  /\ program = "collector"
  /\ pg \in {"up", "full"} /\ pc[Ticker] = "rows"
  /\ Update({"connections"})
  /\ UNCHANGED <<at, open, pc>>

CollectorConnections ==
  /\ program = "collector"
  /\ pg # "stalled" /\ pc[Ticker] = "rows"
  /\ pg = "down" \/ "connections" \in fresh
  /\ Give /\ Proceed /\ Update({})

\* The readings of one value: nothing is recorded for an error or a NULL.
Value ==
  /\ Answered(Ticker) /\ Readings[at] # "connections"
  /\ Give /\ Update({Readings[at]} \ lacks)

\* Mutant: an error ends the tick.
ServiceValues_Abort ==
  /\ program = "service" /\ Value
  /\ IF Readings[at] \in lacks
     THEN at' = 0 /\ pc' = [pc EXCEPT ![Ticker] = "idle"]
     ELSE Proceed

ServiceValues == program = "service" /\ Value /\ Proceed

CollectorCache == program = "collector" /\ Value /\ Proceed

collectMetrics ==
  \/ Wake \/ Acquire(Ticker) \/ ReadingFails \/ ReadingRows
  \/ ServiceConnections \/ ServiceValues
  \/ CollectorAdd \/ CollectorConnections \/ CollectorCache

-----------------------------------------------------------------------------
(* One request. *)

Respond(c, r) ==
  /\ pc' = [pc EXCEPT ![c] = "reply"]
  /\ reply' = [reply EXCEPT ![c] = r]
  /\ UNCHANGED <<fixed, life, pg, ticking, kind, limit>>

Request(c, k, l) ==
  /\ life = "serving" /\ (k = "slow" \/ l = "more")
  /\ Go(c, "idle", Routes[k])
  /\ kind' = [kind EXCEPT ![c] = k]
  /\ limit' = [limit EXCEPT ![c] = l]
  /\ reply' = [reply EXCEPT ![c] = IF Routes[k] = "reply" THEN "ok" ELSE "none"]
  /\ UNCHANGED <<fixed, life, pg, ticking, open>>

\* LIMIT wants a number that is not negative.
ServiceSlowQueries(c) ==
  /\ kind[c] = "slow"
  /\ LET fails == "slow" \in lacks \/ limit[c] = "negative"
     IN  \/ Refused(c) /\ Respond(c, "error")
         \/ Broken(c)  /\ Respond(c, "error")
         \/ fails /\ Answered(c) /\ Give /\ Respond(c, "error")
         \/ /\ ~ fails /\ Answered(c) /\ Go(c, "run", "rows")
            /\ UNCHANGED <<fixed, life, pg, ticking, open, handling>>
         \* The last row, or the last before the session broke: 200.
         \/ /\ pg # "stalled" /\ pc[c] = "rows"
            /\ Give /\ Respond(c, "ok")

\* Of the collector's one made-up slow query, slowQueries[:limit] is a slice,
\* or a panic.
CollectorSlowQueries(c) ==
  /\ pc[c] = "slice" /\ UNCHANGED open
  /\ \/ limit[c] = "few" /\ Respond(c, "ok")
     \/ /\ limit[c] # "few" /\ Go(c, "slice", "panic")
        /\ UNCHANGED <<fixed, life, pg, ticking, handling>>

\* Mutant: a query that fails is tried again.
ServiceConnectionsHandler_Retry(c) ==
  /\ program = "service" /\ kind[c] = "connections"
  /\ \/ Broken(c) /\ Go(c, "run", "ask")
        /\ UNCHANGED <<fixed, life, pg, ticking, handling>>
     \/ Answered(c) /\ Give /\ Respond(c, "ok")

ServiceConnectionsHandler(c) ==
  /\ program = "service" /\ kind[c] = "connections"
  /\ \/ (Refused(c) \/ Broken(c)) /\ Respond(c, "error")
     \/ Answered(c) /\ Give /\ Respond(c, "ok")

\* The collector has made-up numbers for a failed query.
CollectorConnectionsHandler(c) ==
  /\ program = "collector" /\ kind[c] = "connections"
  /\ \/ (Refused(c) \/ Broken(c)) /\ Respond(c, "made up")
     \/ Answered(c) /\ Give /\ Respond(c, "ok")

\* The request is forgotten.
End(c) ==
  /\ kind' = [kind EXCEPT ![c] = "health"]
  /\ limit' = [limit EXCEPT ![c] = "more"]
  /\ reply' = [reply EXCEPT ![c] = "none"]
  /\ UNCHANGED <<fixed, life, pg, ticking, open>>

Reply(c) == Go(c, "reply", "idle") /\ End(c)

\* net/http recovers a handler's panic, within the goroutine of the request, and
\* closes the connection: the client has no answer.
Recover(c) == Go(c, "panic", "idle") /\ End(c)

Handle(c) ==
  \/ Acquire(c) \/ Reply(c) \/ Recover(c)
  \/ ServiceSlowQueries(c) \/ CollectorSlowQueries(c)
  \/ ServiceConnectionsHandler(c) \/ CollectorConnectionsHandler(c)

-----------------------------------------------------------------------------
PgChange ==
  /\ pg' \in {"up", "full", "down", "stalled"} \ {pg}
  /\ UNCHANGED <<fixed, life, ticking, open, pc, handling>>

\* time.Ticker drops the tick that finds another waiting.
Tick ==
  /\ life = "serving" /\ ~ tick /\ tick' = TRUE
  /\ UNCHANGED <<fixed, life, pg, at, fresh, open, pc, handling>>

Next ==
  \/ main \/ collectMetrics \/ PgChange \/ Tick
  \/ \E c \in Clients : \/ Handle(c)
                        \/ \E k \in Kinds, l \in Limits : Request(c, k, l)

Spec == Init /\ [][Next]_vars

\* Goroutines are scheduled, and the clock runs.
FairSpec ==
  /\ Spec /\ WF_vars(main) /\ WF_vars(collectMetrics) /\ WF_vars(Tick)
  /\ \A c \in Clients : WF_vars(Handle(c))

-----------------------------------------------------------------------------
(* Properties. *)

\* Every variable keeps its type; what is updated was created by initMetrics.
TypeOK ==
  /\ program \in {"service", "collector"} /\ life \in {"starting", "serving"}
  /\ lacks \subseteq {"cache", "slow", "replication"}
  /\ pg \in {"up", "full", "down", "stalled"}
  /\ tick \in BOOLEAN /\ at \in 0..Len(Readings)
  /\ fresh \subseteq Instruments
  /\ open \in 0..Cardinality(Users)
  /\ pc \in [Users -> {"idle", "ask", "run", "rows", "slice", "panic", "reply"}]
  /\ kind \in [Clients -> Kinds] /\ limit \in [Clients -> Limits]
  /\ reply \in [Clients -> {"none", "ok", "error", "made up"}]

(***************************************************************************)
(* The sql.DB has no limit of its own, so what a handler or a reading      *)
(* keeps is lost to all users of the server.  However queries and rows     *)
(* end, each connection given out is one of a query that is running.       *)
(***************************************************************************)
ConnectionsReturned ==
  open = Cardinality({u \in Users : pc[u] \in {"run", "rows"}})

(***************************************************************************)
(* The exporters come up without a database: the service whatever          *)
(* PostgreSQL does, the collector unless it stalls for ever.               *)
(***************************************************************************)
NoEndlessStall == <>[](pg # "stalled")
ComesUp ==
  program = "service" \/ NoEndlessStall => <>(life = "serving")

(***************************************************************************)
(* /metrics and /health are answered whatever PostgreSQL does, also while  *)
(* every other goroutine hangs in a query.  Unless PostgreSQL stalls for   *)
(* ever, every request ends and has an answer by then, be it an error;     *)
(* save the collector's /slow-queries, which panics without ?limit=0 or 1. *)
(***************************************************************************)
Panics(c) == program = "collector" /\ kind[c] = "slow" /\ limit[c] # "few"
Answering(c) == pc[c] = "reply" /\ reply[c] \in {"ok", "error", "made up"}

RequestsAnswered ==
  \A c \in Clients :
    /\ pc[c] # "idle" /\ kind[c] \in {"metrics", "health"} ~> Answering(c)
    /\ NoEndlessStall => (pc[c] # "idle" /\ ~ Panics(c) ~> Answering(c))
    /\ NoEndlessStall => (pc[c] # "idle" ~> pc[c] = "idle")

(***************************************************************************)
(* However often PostgreSQL has failed or stalled in the middle of a tick, *)
(* once it stays up every reading it can answer is taken again and again,  *)
(* among them those that come after one it cannot answer.                  *)
(***************************************************************************)
CollectionResumes ==
  <>[](pg = "up") =>
    \A n \in 1..Len(ServiceReadings) :
      LET r == ServiceReadings[n]
      IN  (n <= Len(Readings) /\ r \notin lacks) =>
             []<>(r \in fresh) /\ []<>(r \notin fresh)
=============================================================================
