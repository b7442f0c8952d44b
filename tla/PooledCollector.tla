--------------------------- MODULE PooledCollector ---------------------------
(***************************************************************************)
(* monitoring/c-collector/main_optimized.c: one thread per HTTP connection *)
(* (MHD_USE_THREAD_PER_CONNECTION), all of them on one pool of PostgreSQL  *)
(* connections and one cached sample, with no lock anywhere.  So a load    *)
(* and a store of available[i] are steps of their own, and two threads may *)
(* both see a connection free.  A connection that breaks goes back to the  *)
(* pool like any other and is never opened again.  libpq forbids two       *)
(* threads to use one PGconn at a time: here they may, and then anything   *)
(* can happen to them (Race).                                              *)
(*                                                                         *)
(* Ages stand for clock differences and stop at Period; the sample itself  *)
(* is left out: what it is worth is its age.                               *)
(***************************************************************************)
EXTENDS Naturals

CONSTANTS Threads,   \* concurrent requests
          NConns,    \* CONNECTION_POOL_SIZE: 5
          Period     \* the cache is good for Period clock units: 10 s

ASSUME PoolAssumption == NConns \in Nat \ {0} /\ Period \in Nat \ {0}

Conns == 1..NConns
NoConn == 0

VARIABLES life,      \* the process: "serving", "stopping", "destroying",
                     \* "exited", "crashed"
          pg,        \* PostgreSQL: "answering" (be it with errors), "stalled"
          pool,      \* "open", or "freed" by destroy_connection_pool
          available, \* pool->available
          link,      \* each connection: "ok", "lost", or "never" connected
          cached,    \* cache.cache_valid
          age,       \* now - cache.last_update
          pc, idx, held, since   \* per thread: where it is, loop index, its
                                 \* connection, time since it read the clock
threadVars == <<pc, idx, held, since>>
vars == <<life, pg, pool, available, link, cached, age, threadVars>>

\* Mutant: available[i] = 1 without looking at PQstatus.
Init_AllAvailable ==
  /\ life = "serving" /\ pool = "open" /\ pg = "answering"
  /\ link \in [Conns -> {"ok", "never"}]
  /\ available = [c \in Conns |-> TRUE]
  /\ cached = FALSE /\ age = Period
  /\ pc = [h \in Threads |-> "idle"]
  /\ idx = [h \in Threads |-> 1]
  /\ held = [h \in Threads |-> NoConn]
  /\ since = [h \in Threads |-> 0]

Init ==
  /\ life = "serving" /\ pool = "open" /\ pg = "answering"
  /\ link \in [Conns -> {"ok", "never"}]          \* create_connection_pool
  /\ available = [c \in Conns |-> link[c] = "ok"]
  /\ cached = FALSE /\ age = Period
  /\ pc = [h \in Threads |-> "idle"]
  /\ idx = [h \in Threads |-> 1]
  /\ held = [h \in Threads |-> NoConn]
  /\ since = [h \in Threads |-> 0]

Go(h, from, to) == pc[h] = from /\ pc' = [pc EXCEPT ![h] = to]

Fresh == cached /\ age < Period

-----------------------------------------------------------------------------
(* One request. *)

\* MHD starts a thread for a new connection until it is being stopped
Request(h) ==
  /\ life = "serving"
  /\ Go(h, "idle", "check")
  /\ UNCHANGED <<life, pg, pool, available, link, cached, age, idx, held, since>>

\* the clock is read once, before the cache is tested
get_cached_metrics(h) ==
  /\ Go(h, "check", IF Fresh THEN "reply" ELSE "scan")
  /\ idx' = [idx EXCEPT ![h] = 1]
  /\ since' = [since EXCEPT ![h] = 0]
  /\ UNCHANGED <<life, pg, pool, available, link, cached, age, held>>

\* Mutant: when nothing is free the scan starts over instead of giving up.
get_connection_Wait(h) ==
  /\ pc[h] = "scan"
  /\ IF available[idx[h]]
     THEN Go(h, "scan", "take") /\ UNCHANGED idx
     ELSE /\ idx' = [idx EXCEPT ![h] = IF idx[h] < NConns THEN @ + 1 ELSE 1]
          /\ UNCHANGED pc
  /\ UNCHANGED <<life, pg, pool, available, link, cached, age, held, since>>

\* Mutant: the loop runs to i <= pool_size.
get_connection_OffByOne(h) ==
  /\ pc[h] = "scan"
  /\ IF idx[h] \in Conns /\ available[idx[h]]
     THEN Go(h, "scan", "take") /\ UNCHANGED idx
     ELSE /\ idx' = [idx EXCEPT ![h] = @ + 1]
          /\ pc' = [pc EXCEPT ![h] = IF idx[h] <= NConns THEN "scan" ELSE "reply"]
  /\ UNCHANGED <<life, pg, pool, available, link, cached, age, held, since>>

\* if (p->available[i]): the test only.  With none free the old sample is
\* served (-1 leaves the cache alone).
get_connection(h) ==
  /\ pc[h] = "scan"
  /\ IF available[idx[h]]
     THEN Go(h, "scan", "take") /\ UNCHANGED idx
     ELSE /\ idx' = [idx EXCEPT ![h] = IF @ < NConns THEN @ + 1 ELSE 1]
          /\ pc' = [pc EXCEPT ![h] = IF idx[h] < NConns THEN "scan" ELSE "reply"]
  /\ UNCHANGED <<life, pg, pool, available, link, cached, age, held, since>>

\* p->available[i] = 0; return p->connections[i]
Take(h) ==
  /\ Go(h, "take", "query")
  /\ available' = [available EXCEPT ![idx[h]] = FALSE]
  /\ held' = [held EXCEPT ![h] = idx[h]]
  /\ UNCHANGED <<life, pg, pool, link, cached, age, idx, since>>

\* PQexec, to the end of which there is no timeout
Query(h) ==
  /\ pg # "stalled"
  /\ \/ Go(h, "query", "stored") /\ link[held[h]] = "ok"
     \/ Go(h, "query", "failed")
  /\ UNCHANGED <<life, pg, pool, available, link, cached, age, idx, held, since>>

\* Two threads in one PGconn.  Undefined: besides what one thread alone may
\* get (Query), one of them may wait for ever for the bytes the other has read,
\* or the process may die of a damaged buffer.
Shared(h, k) ==
  h # k /\ pc[h] = "query" /\ pc[k] \in {"query", "hung"} /\ held[h] = held[k]

Race(h) ==
  /\ \E k \in Threads : Shared(h, k)
  /\ \/ Go(h, "query", "hung") /\ UNCHANGED life
     \/ pc' = [k \in Threads |-> "dead"] /\ life' = "crashed"
  /\ UNCHANGED <<pg, pool, available, link, cached, age, idx, held, since>>

\* Mutant: the error path does not give the connection back.
return_connection_Leak(h) ==
  /\ \/ Go(h, "stored", "commit") /\ available' = [available EXCEPT ![held[h]] = TRUE]
     \/ Go(h, "failed", "reply") /\ UNCHANGED available
  /\ held' = [held EXCEPT ![h] = NoConn]
  /\ UNCHANGED <<life, pg, pool, link, cached, age, idx, since>>

\* on either path, whatever state the connection is in
return_connection(h) ==
  /\ Go(h, "stored", "commit") \/ Go(h, "failed", "reply")
  /\ available' = [available EXCEPT ![held[h]] = TRUE]
  /\ held' = [held EXCEPT ![h] = NoConn]
  /\ UNCHANGED <<life, pg, pool, link, cached, age, idx, since>>

\* cache.last_update = now, the clock read before the query, then
\* cache_valid = 1: the test reads both, so the second store decides
Commit(h) ==
  /\ Go(h, "commit", "reply")
  /\ age' = since[h]
  /\ cached' = TRUE
  /\ UNCHANGED <<life, pg, pool, available, link, idx, held, since>>

\* format, queue, and the thread ends; its locals are forgotten
Reply(h) ==
  /\ Go(h, "reply", "idle")
  /\ idx' = [idx EXCEPT ![h] = 1]
  /\ since' = [since EXCEPT ![h] = 0]
  /\ UNCHANGED <<life, pg, pool, available, link, cached, age, held>>

Handle(h) ==
  \/ get_cached_metrics(h) \/ get_connection(h) \/ Take(h) \/ Query(h)
  \/ return_connection(h) \/ Commit(h) \/ Reply(h)

-----------------------------------------------------------------------------
(* main, after sleep(1) has seen running = 0, and the world outside. *)

signal_handler ==
  /\ life = "serving" /\ life' = "stopping"
  /\ UNCHANGED <<pg, pool, available, link, cached, age, threadVars>>

\* Mutant: the requests under way are not waited for.
MHD_stop_daemon_NoWait ==
  /\ life = "stopping"
  /\ life' = "destroying"
  /\ UNCHANGED <<pg, pool, available, link, cached, age, threadVars>>

\* joins the thread of every connection
MHD_stop_daemon ==
  /\ life = "stopping" /\ \A h \in Threads : pc[h] = "idle"
  /\ life' = "destroying"
  /\ UNCHANGED <<pg, pool, available, link, cached, age, threadVars>>

destroy_connection_pool ==
  /\ life = "destroying"
  /\ life' = "exited" /\ pool' = "freed"
  /\ UNCHANGED <<pg, available, link, cached, age, threadVars>>

PgChange ==
  /\ pg' = IF pg = "stalled" THEN "answering" ELSE "stalled"
  /\ UNCHANGED <<life, pool, available, link, cached, age, threadVars>>

LoseLink(c) ==
  /\ link[c] = "ok" /\ link' = [link EXCEPT ![c] = "lost"]
  /\ UNCHANGED <<life, pg, pool, available, cached, age, threadVars>>

Tick(n) == IF n < Period THEN n + 1 ELSE n

Pass ==
  /\ life \notin {"exited", "crashed"}
  /\ age' = Tick(age)
  /\ since' = [h \in Threads |-> IF pc[h] = "idle" THEN 0 ELSE Tick(since[h])]
  /\ UNCHANGED <<life, pg, pool, available, link, cached, pc, idx, held>>

Exited == life \in {"exited", "crashed"} /\ UNCHANGED vars

Stop == MHD_stop_daemon \/ destroy_connection_pool

Next == \/ \E h \in Threads : Request(h) \/ Handle(h) \/ Race(h)
        \/ signal_handler \/ Stop \/ Exited
        \/ \E c \in Conns : LoseLink(c)
        \/ PgChange \/ Pass

Spec == Init /\ [][Next]_vars

(***************************************************************************)
(* Every request's thread and main are scheduled.  PostgreSQL owes nothing.*)
(***************************************************************************)
FairSpec == Spec /\ WF_vars(Stop) /\ \A h \in Threads : WF_vars(Handle(h))

-----------------------------------------------------------------------------
(* Properties. *)

TypeOK ==
  /\ life \in {"serving", "stopping", "destroying", "exited", "crashed"}
  /\ pg \in {"answering", "stalled"}
  /\ pool \in {"open", "freed"}
  /\ available \in [Conns -> BOOLEAN]
  /\ link \in [Conns -> {"ok", "lost", "never"}]
  /\ cached \in BOOLEAN
  /\ age \in 0..Period
  /\ pc \in [Threads -> {"idle", "check", "scan", "take", "query", "stored",
                         "failed", "commit", "reply", "hung", "dead"}]
  /\ idx \in [Threads -> Conns]
  /\ held \in [Threads -> Conns \cup {NoConn}]
  /\ since \in [Threads -> 0..Period]

(***************************************************************************)
(* No connection leaks, in spite of the races on available: one that is    *)
(* marked in use is in use by some request, or was never open.             *)
(***************************************************************************)
NoLeak ==
  \A c \in Conns : ~available[c] =>
     link[c] = "never" \/ \E h \in Threads : held[h] = c

(***************************************************************************)
(* A connection that was never opened is never handed out.                 *)
(***************************************************************************)
OnlyOpened == \A h \in Threads : held[h] # NoConn => link[held[h]] # "never"

(***************************************************************************)
(* No request is still under way when the pool's memory is freed.          *)
(***************************************************************************)
NoUseAfterFree == pool = "freed" => \A h \in Threads : pc[h] = "idle"

(***************************************************************************)
(* "Shutting down gracefully" (main_optimized.c:254): every request gets   *)
(* its answer, from the old sample when the pool is exhausted, and main    *)
(* returns.  PQexec and MHD_stop_daemon wait without a timeout, so this    *)
(* takes a PostgreSQL that does not stall for ever; and it takes that the  *)
(* unguarded pool never brought two requests together in one connection.   *)
(***************************************************************************)
NoEndlessStall == <>[](pg # "stalled")
NeverTwoInOne == [](\A h, k \in Threads : ~Shared(h, k))

GracefulShutdown ==
  NoEndlessStall /\ NeverTwoInOne =>
    /\ \A h \in Threads : pc[h] = "check" ~> pc[h] = "idle"
    /\ life = "stopping" ~> life = "exited"
=============================================================================
