-------------------------- MODULE BypassCollector --------------------------
(***************************************************************************)
(* The bypass collector: monitoring/collector-c-otel/main-prometheus.c.    *)
(* The main thread connects once and then, every 30 seconds, writes the    *)
(* fields of one static struct; the polling thread of libmicrohttpd reads  *)
(* them for each scrape, one request at a time.  There is no lock.  A      *)
(* field is abstracted to the round in which it was written, 0 for the     *)
(* zeros the struct starts with.                                           *)
(***************************************************************************)
EXTENDS Naturals

CONSTANT MaxRound  \* bound: collections

Connections == {"active", "idle", "total"}
Fields == Connections \cup {"cache_hit_ratio", "slow_queries", "last_update"}

VARIABLES pg,       \* PostgreSQL: "up", "down" or "stalled"
          db_conn,  \* NULL, "OK", or "BAD" once the session is lost
          metrics,
          round,    \* of the collection under way, or of the last one
          pc, todo, \* of the main thread, and the fields it is about to write
          http,     \* of the polling thread: "idle" or "reading"
          toRead,   \* the fields it has still to read
          reply     \* what it has read; the last reply when it is idle
mainVars == <<db_conn, metrics, round, pc, todo>>
httpVars == <<http, toRead, reply>>
vars == <<pg, mainVars, httpVars>>

Init ==
  /\ pg \in {"up", "down"}
  /\ db_conn = "NULL"
  /\ metrics = [f \in Fields |-> 0] /\ round = 0
  /\ pc = "connect" /\ todo = {}
  /\ http = "idle" /\ toRead = {} /\ reply = metrics

-----------------------------------------------------------------------------
(* The main thread. *)

\* It is tried once; MHD_start_daemon follows.
connect_postgresql ==
  /\ pc = "connect" /\ pg # "stalled"
  /\ db_conn' = IF pg = "up" THEN "OK" ELSE "NULL"
  /\ pc' = "collect"
  /\ UNCHANGED <<pg, metrics, round, todo, httpVars>>

\* without a connection all fields get simulated values
collect_metrics ==
  /\ pc = "collect" /\ round < MaxRound
  /\ round' = round + 1
  /\ IF db_conn = "NULL"
     THEN pc' = "simulated" /\ todo' = Fields
     ELSE pc' = "query connections" /\ UNCHANGED todo
  /\ UNCHANGED <<pg, db_conn, metrics, httpVars>>

\* A query ends.  It fails on a session that is lost, and it may fail on any
\* other, for example when it is cancelled; there is no timeout.
QueryEnds(fields, write, next) ==
  /\ pg # "stalled"
  /\ \/ /\ pg = "up" /\ db_conn = "OK"
        /\ pc' = write /\ todo' = fields
        /\ UNCHANGED db_conn
     \/ /\ db_conn' \in IF pg = "up" THEN {db_conn} ELSE {"BAD"}
        /\ pc' = next /\ UNCHANGED todo
  /\ UNCHANGED <<pg, metrics, round, httpVars>>

QueryConnections ==
  /\ pc = "query connections"
  /\ QueryEnds(Connections, "connections", "query cache")

QueryCache ==
  /\ pc = "query cache"
  /\ QueryEnds({"cache_hit_ratio"}, "cache", "stamp")

\* The last write of a group moves on to the next step.
After == [ simulated   |-> "sleep",
           connections |-> "query cache",
           cache       |-> "stamp" ]

\* No call orders the writes of a group: the compiler may do them in any order.
Write ==
  /\ pc \in DOMAIN After
  /\ \E f \in todo :
       /\ metrics' = [metrics EXCEPT ![f] = round]
       /\ todo' = todo \ {f}
       /\ pc' = IF todo = {f} THEN After[pc] ELSE pc
  /\ UNCHANGED <<pg, db_conn, round, httpVars>>

Stamp ==
  /\ pc = "stamp"
  /\ metrics' = [metrics EXCEPT !["last_update"] = round]
  /\ pc' = "sleep"
  /\ UNCHANGED <<pg, db_conn, round, todo, httpVars>>

Wake ==
  /\ pc = "sleep"
  /\ pc' = "collect"
  /\ UNCHANGED <<pg, db_conn, metrics, round, todo, httpVars>>

-----------------------------------------------------------------------------
(* The polling thread.  Other routes and methods read nothing. *)

metrics_handler ==
  /\ pc # "connect" /\ http = "idle"
  /\ http' = "reading" /\ toRead' = Fields
  /\ UNCHANGED <<pg, mainVars, reply>>

\* The order in which the arguments of snprintf are read is unspecified.
Read ==
  /\ http = "reading"
  /\ \E f \in toRead :
       /\ reply' = [reply EXCEPT ![f] = metrics[f]]
       /\ toRead' = toRead \ {f}
       /\ http' = IF toRead = {f} THEN "idle" ELSE http
  /\ UNCHANGED <<pg, mainVars>>

-----------------------------------------------------------------------------
\* PostgreSQL stops, which ends its sessions, starts, stalls and recovers.
PgChange ==
  /\ pg' \in {"up", "down", "stalled"} \ {pg}
  /\ db_conn' = IF pg' = "down" /\ db_conn = "OK" THEN "BAD" ELSE db_conn
  /\ UNCHANGED <<metrics, round, pc, todo, httpVars>>

\* After the last collection of the bound the main thread stands still.
Next == \/ connect_postgresql \/ collect_metrics
        \/ QueryConnections \/ QueryCache \/ Write \/ Stamp \/ Wake
        \/ metrics_handler \/ Read \/ PgChange

Spec == Init /\ [][Next]_vars

-----------------------------------------------------------------------------
(***************************************************************************)
(* "Last metrics update timestamp": when a collection is over, some value  *)
(* is as new as last_update says.  It does not hold: the time is set also  *)
(* after both queries have failed, so a scrape between two collections     *)
(* finds old values with a new time, for ever once the session is lost.    *)
(***************************************************************************)
LastUpdateTrue ==
  pc = "sleep" =>
    \E f \in Fields \ {"last_update"} : metrics[f] >= metrics["last_update"]
=============================================================================
