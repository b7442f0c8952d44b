------------------------------ MODULE Collector ------------------------------
(***************************************************************************)
(* monitoring/c-collector/main.c: the exporter the deployment runs, and    *)
(* main_enhanced.c, which has two queries more, an estimate for one that   *)
(* fails, and a page for "/", which like other pages needs no lock.  Two   *)
(* threads share the metrics array and one mutex.  The collector thread    *)
(* connects to each tenant in turn and runs its queries while it HOLDS the *)
(* mutex; the main thread accepts one client at a time, and takes the      *)
(* mutex to format a scrape.  A signal clears the flag both loops test.    *)
(*                                                                         *)
(* A metric's value is abstracted to the number of the collection (round)  *)
(* that read it; 0 is the zero memset leaves.  The environment is          *)
(* PostgreSQL (up, down, or stalled: sessions open but answering nothing)  *)
(* and the HTTP clients (which may send nothing, or give up).              *)
(***************************************************************************)
EXTENDS Naturals, Sequences

CONSTANTS NTenants,   \* tenant_count: 2 in the program
          NQueries,   \* PQexec calls of one collection: 11, or 13
          Fallback,   \* those with an estimate: {}, or the WAL files
          Clients,    \* Prometheus, the health probe, ...
          Backlog,    \* the listen backlog: 10
          MaxRound,   \* bound: rounds are numbered 1..MaxRound, then 1 again
          None

ASSUME CollectorAssumption ==
  /\ NTenants \in Nat \ {0}
  /\ NQueries \in Nat \ {0}
  /\ Fallback \subseteq 1..NQueries
  /\ Backlog \in Nat \ {0}
  /\ MaxRound \in Nat \ {0}
  /\ None \notin Clients

Tenants == 1..NTenants
Queries == 1..NQueries

VARIABLES running,   \* the flag the signal handler clears
          mutex,     \* metrics_mutex: "free", or the thread that holds it
          metrics,   \* the shared array
          cpc, ti, qi, conn, round,      \* the collector thread
          spc, si, body, cur, queue,     \* the main thread and its socket
          phase, request,                \* the clients
          pg,                            \* the PostgreSQL server
          whole, late                    \* history (see below)

(***************************************************************************)
(* History variables, read by properties only.                             *)
(*   whole[t]  metrics[t] as its last finished collection left it          *)
(*   late      clients accepted after the signal, counted up to LateCap    *)
(***************************************************************************)
LateCap == 2

collectorVars == <<cpc, ti, qi, conn, round>>
serverVars    == <<spc, si, body, cur>>
clientVars    == <<queue, phase, request>>
history       == <<whole, late>>
vars == <<running, mutex, metrics, collectorVars, serverVars, clientVars,
          pg, history>>

\* "Default estimate", a value that is no round's.
Estimate == MaxRound + 1

\* What a query that fails leaves in an entry that was cleared.
Failed(q) == IF q \in Fallback THEN Estimate ELSE 0

tenant_metrics == [up : BOOLEAN, val : [Queries -> 0..Estimate]]
Zeroed == [up |-> FALSE, val |-> [q \in Queries |-> 0]]

\* What strstr may find: a request is not NUL-terminated, and after an empty
\* read the buffer is uninitialised, so the bytes of an earlier request can
\* follow (or stand for) those received.
Matches(r) == CASE r = "metrics" -> {"metrics"}
                [] r = "health"  -> {"metrics", "health"}
                [] OTHER         -> {"metrics", "health", "other"}

Init ==
  /\ running = TRUE
  /\ mutex = "free"
  /\ metrics = [t \in Tenants |-> Zeroed]
  /\ cpc = "test" /\ ti = 1 /\ qi = 1 /\ conn = "none" /\ round = MaxRound
  /\ spc = "loop" /\ si = 1 /\ body = None /\ cur = None
  /\ queue = <<>>
  /\ phase = [c \in Clients |-> "away"]
  /\ request = [c \in Clients |-> "nothing"]
  /\ pg \in {"up", "down"}
  /\ whole = metrics
  /\ late = 0

-----------------------------------------------------------------------------
(* The collector thread. *)

collectorFrame == UNCHANGED <<running, serverVars, clientVars, pg, late>>

\* Mutant: the collector thread does not look at the flag.
CollectorTest_Endless ==
  /\ cpc = "test"
  /\ cpc' = "connect"
  /\ ti' = 1
  /\ UNCHANGED <<qi, conn, round, mutex, metrics, whole>>
  /\ collectorFrame

\* while (running), at the top of a cycle over the tenants
CollectorTest ==
  /\ cpc = "test"
  /\ cpc' = IF running THEN "connect" ELSE "done"
  /\ ti' = 1
  /\ UNCHANGED <<qi, conn, round, mutex, metrics, whole>>
  /\ collectorFrame

\* Mutant: one failed connection ends the cycle (break for continue).
connect_to_tenant_Break ==
  /\ cpc = "connect"
  /\ \E ok \in {o \in BOOLEAN : o => pg = "up"} :
        /\ conn' = IF ok THEN "ok" ELSE "none"
        /\ cpc' = IF ok THEN "lock" ELSE "sleep"
  /\ UNCHANGED <<ti, qi, round, mutex, metrics, whole>>
  /\ collectorFrame

\* PQconnectdb gives up after connect_timeout, so this step always ends
connect_to_tenant ==
  /\ cpc = "connect"
  /\ \E ok \in {o \in BOOLEAN : o => pg = "up"} :
        /\ conn' = IF ok THEN "ok" ELSE "failed"
        /\ cpc' = IF ok THEN "lock" ELSE "finish"
  /\ UNCHANGED <<ti, qi, round, mutex, metrics, whole>>
  /\ collectorFrame

\* Mutant: a lock that does not wait (pthread_mutex_trylock, unchecked).
CollectorLock_Try ==
  /\ cpc = "lock"
  /\ mutex' = "collector"
  /\ cpc' = "reset"
  /\ UNCHANGED <<ti, qi, conn, round, metrics, whole>>
  /\ collectorFrame

CollectorLock ==
  /\ cpc = "lock"
  /\ mutex = "free"
  /\ mutex' = "collector"
  /\ cpc' = "reset"
  /\ UNCHANGED <<ti, qi, conn, round, metrics, whole>>
  /\ collectorFrame

\* Mutant: the memset is missing.
CollectorReset_NoMemset ==
  /\ cpc = "reset"
  /\ metrics' = [metrics EXCEPT ![ti].up = TRUE]
  /\ round' = (round % MaxRound) + 1
  /\ qi' = 1
  /\ cpc' = "query"
  /\ UNCHANGED <<ti, conn, mutex, whole>>
  /\ collectorFrame

\* memset, then is_connected = 1: PQstatus is still the one of the connect,
\* libpq notices a broken session only when it is used
CollectorReset ==
  /\ cpc = "reset"
  /\ metrics' = [metrics EXCEPT ![ti] =
                    [up |-> TRUE, val |-> [q \in Queries |-> 0]]]
  /\ round' = (round % MaxRound) + 1
  /\ qi' = 1
  /\ cpc' = "query"
  /\ UNCHANGED <<ti, conn, mutex, whole>>
  /\ collectorFrame

\* PQexec has no timeout: on an open session of a stalled server it blocks.
\* A query that fails leaves the zero, or an estimate; the next one is run all
\* the same.
CollectorQuery ==
  /\ cpc = "query"
  /\ conn = "ok" => pg # "stalled"
  /\ \/ /\ conn = "ok" /\ pg = "up"
        /\ metrics' = [metrics EXCEPT ![ti].val[qi] = round]
     \/ qi \notin Fallback /\ UNCHANGED metrics
     \/ /\ qi \in Fallback
        /\ metrics' = [metrics EXCEPT ![ti].val[qi] = Estimate]
  /\ qi' = IF qi < NQueries THEN qi + 1 ELSE 1
  /\ cpc' = IF qi < NQueries THEN "query" ELSE "unlock"
  /\ UNCHANGED <<ti, conn, round, mutex, whole>>
  /\ collectorFrame

CollectorUnlock ==
  /\ cpc = "unlock"
  /\ mutex' = "free"
  /\ whole' = [whole EXCEPT ![ti] = metrics[ti]]
  /\ cpc' = "finish"
  /\ UNCHANGED <<ti, qi, conn, round, metrics>>
  /\ collectorFrame

\* PQfinish, and the for loop's increment and test
CollectorFinish ==
  /\ cpc = "finish"
  /\ conn' = "none"
  /\ ti' = IF ti < NTenants THEN ti + 1 ELSE ti
  /\ cpc' = IF ti < NTenants THEN "connect" ELSE "sleep"
  /\ UNCHANGED <<qi, round, mutex, metrics, whole>>
  /\ collectorFrame

CollectorWake ==
  /\ cpc = "sleep"
  /\ cpc' = "test"
  /\ UNCHANGED <<ti, qi, conn, round, mutex, metrics, whole>>
  /\ collectorFrame

CollectorStep ==
  \/ CollectorTest \/ connect_to_tenant \/ CollectorLock \/ CollectorReset
  \/ CollectorQuery \/ CollectorUnlock \/ CollectorFinish \/ CollectorWake

-----------------------------------------------------------------------------
(* The main thread. *)

serverFrame == UNCHANGED <<running, metrics, collectorVars, pg, whole>>

\* Mutant: for (;;) instead of while (running).
ServerTest_Endless ==
  /\ spc = "loop"
  /\ spc' = "accept"
  /\ UNCHANGED <<mutex, si, body, cur, clientVars, late>>
  /\ serverFrame

ServerTest ==
  /\ spc = "loop"
  /\ spc' = IF running THEN "accept" ELSE "join"
  /\ UNCHANGED <<mutex, si, body, cur, clientVars, late>>
  /\ serverFrame

\* accept is restarted after the signal, so it waits for a client whatever
\* running says
ServerAccept ==
  /\ spc = "accept"
  /\ queue # <<>>
  /\ cur' = Head(queue)
  /\ queue' = Tail(queue)
  /\ late' = IF running \/ late = LateCap THEN late ELSE late + 1
  /\ spc' = "recv"
  /\ UNCHANGED <<mutex, si, body, phase, request>>
  /\ serverFrame

\* recv waits for bytes or for the end of the stream; its result is not
\* looked at
ServerDispatch ==
  /\ spc = "recv"
  /\ request[cur] # "nothing" \/ phase[cur] = "gone"
  /\ \E m \in Matches(request[cur]) :
        spc' = IF m = "metrics" THEN "lock" ELSE "send"
  /\ UNCHANGED <<mutex, si, body, cur, clientVars, late>>
  /\ serverFrame

\* Mutant: the scrape is formatted without the mutex.
ServerLock_Missing ==
  /\ spc = "lock"
  /\ si' = 1
  /\ body' = [t \in Tenants |-> Zeroed]
  /\ spc' = "format"
  /\ UNCHANGED <<mutex, cur, clientVars, late>>
  /\ serverFrame

ServerLock ==
  /\ spc = "lock"
  /\ mutex = "free"
  /\ mutex' = "server"
  /\ si' = 1
  /\ body' = [t \in Tenants |-> Zeroed]
  /\ spc' = "format"
  /\ UNCHANGED <<cur, clientVars, late>>
  /\ serverFrame

\* Mutant: the loop runs to i <= tenant_count.
ServerFormat_OffByOne ==
  /\ spc = "format"
  /\ body' = [body EXCEPT ![si] = metrics[si]]
  /\ si' = IF si <= NTenants THEN si + 1 ELSE 1
  /\ spc' = IF si <= NTenants THEN "format" ELSE "unlock"
  /\ UNCHANGED <<mutex, cur, clientVars, late>>
  /\ serverFrame

\* one tenant's lines are appended to metrics_buffer
ServerFormat ==
  /\ spc = "format"
  /\ body' = [body EXCEPT ![si] = metrics[si]]
  /\ si' = IF si < NTenants THEN si + 1 ELSE 1
  /\ spc' = IF si < NTenants THEN "format" ELSE "unlock"
  /\ UNCHANGED <<mutex, cur, clientVars, late>>
  /\ serverFrame

\* Mutant: handle_metrics_request returns with the mutex held.
ServerUnlock_Leaked ==
  /\ spc = "unlock"
  /\ body' = None
  /\ spc' = "send"
  /\ UNCHANGED <<mutex, si, cur, clientVars, late>>
  /\ serverFrame

\* from here on the text is the thread's own, and final: body is dropped
ServerUnlock ==
  /\ spc = "unlock"
  /\ mutex' = "free"
  /\ body' = None
  /\ spc' = "send"
  /\ UNCHANGED <<si, cur, clientVars, late>>
  /\ serverFrame

ServerSend ==
  /\ spc = "send"
  /\ spc' = "close"
  /\ UNCHANGED <<mutex, si, body, cur, clientVars, late>>
  /\ serverFrame

ServerClose ==
  /\ spc = "close"
  /\ phase' = [phase EXCEPT ![cur] = "away"]
  /\ request' = [request EXCEPT ![cur] = "nothing"]
  /\ cur' = None
  /\ spc' = "loop"
  /\ UNCHANGED <<mutex, si, body, queue, late>>
  /\ serverFrame

\* Mutant: the thread is not joined.
ServerJoin_Missing ==
  /\ spc = "join"
  /\ spc' = "exited"
  /\ UNCHANGED <<mutex, si, body, cur, clientVars, late>>
  /\ serverFrame

\* pthread_join, close(server_socket), return from main
ServerJoin ==
  /\ spc = "join"
  /\ cpc = "done"
  /\ spc' = "exited"
  /\ UNCHANGED <<mutex, si, body, cur, clientVars, late>>
  /\ serverFrame

ServerStep ==
  \/ ServerTest \/ ServerAccept \/ ServerDispatch \/ ServerLock \/ ServerFormat
  \/ ServerUnlock \/ ServerSend \/ ServerClose \/ ServerJoin

-----------------------------------------------------------------------------
(* The signal handler, the clients and PostgreSQL. *)

threadFrame == UNCHANGED <<mutex, metrics, serverVars, history>>

signal_handler ==
  /\ running
  /\ running' = FALSE
  /\ UNCHANGED <<collectorVars, clientVars, pg>>
  /\ threadFrame

\* the kernel completes the connection into the listen backlog
ClientConnect(c) ==
  /\ phase[c] = "away"
  /\ spc # "exited"
  /\ Len(queue) < Backlog
  /\ queue' = Append(queue, c)
  /\ phase' = [phase EXCEPT ![c] = "here"]
  /\ UNCHANGED <<running, collectorVars, request, pg>>
  /\ threadFrame

ClientSend(c, r) ==
  /\ phase[c] = "here"
  /\ request[c] = "nothing"
  /\ request' = [request EXCEPT ![c] = r]
  /\ UNCHANGED <<running, collectorVars, queue, phase, pg>>
  /\ threadFrame

\* the client's own timeout: it closes its side, unanswered
ClientGiveUp(c) ==
  /\ phase[c] = "here"
  /\ phase' = [phase EXCEPT ![c] = "gone"]
  /\ UNCHANGED <<running, collectorVars, queue, request, pg>>
  /\ threadFrame

\* PostgreSQL fails, stalls or comes back; going down breaks its sessions
PgChange ==
  /\ \E s \in {"up", "down", "stalled"} \ {pg} :
        /\ pg' = s
        /\ conn' = IF s = "down" /\ conn = "ok" THEN "broken" ELSE conn
  /\ UNCHANGED <<running, cpc, ti, qi, round, clientVars>>
  /\ threadFrame

\* one session is lost (its backend is terminated) while the server lives
PgDropSession ==
  /\ conn = "ok"
  /\ conn' = "broken"
  /\ UNCHANGED <<running, cpc, ti, qi, round, clientVars, pg>>
  /\ threadFrame

ClientStep == \E c \in Clients :
  \/ ClientConnect(c)
  \/ \E r \in {"metrics", "health", "other"} : ClientSend(c, r)
  \/ ClientGiveUp(c)

\* after the process has exited nothing more is modelled
Exited == spc = "exited" /\ UNCHANGED vars

Next == \/ CollectorStep \/ ServerStep \/ signal_handler \/ ClientStep
        \/ PgChange \/ PgDropSession \/ Exited

Spec == Init /\ [][Next]_vars

(***************************************************************************)
(* Each thread is scheduled.  The locks get strong fairness: each side     *)
(* leaves the mutex free for long (a 15 s sleep, a network round trip)     *)
(* between two uses, so neither is overtaken for ever.  Clients come back  *)
(* and close an unanswered connection: Prometheus scrapes every 10 s and   *)
(* the health probe runs every 30 s, both with a 10 s timeout.  Nothing is *)
(* assumed of PostgreSQL or of the signal.                                 *)
(***************************************************************************)
Fairness ==
  /\ WF_vars(CollectorStep)
  /\ WF_vars(ServerStep)
  /\ SF_vars(CollectorLock)
  /\ SF_vars(ServerLock)
  /\ \A c \in Clients : WF_vars(ClientConnect(c)) /\ WF_vars(ClientGiveUp(c))

FairSpec == Spec /\ Fairness

-----------------------------------------------------------------------------
(* Properties. *)

TypeOK ==
  /\ running \in BOOLEAN
  /\ mutex \in {"free", "collector", "server"}
  /\ metrics \in [Tenants -> tenant_metrics]
  /\ cpc \in {"test", "connect", "lock", "reset", "query", "unlock",
              "finish", "sleep", "done"}
  /\ ti \in Tenants
  /\ qi \in Queries
  /\ conn \in {"none", "ok", "broken", "failed"}
  /\ round \in 1..MaxRound
  /\ spc \in {"loop", "accept", "recv", "lock", "format", "unlock", "send",
              "close", "join", "exited"}
  /\ si \in Tenants
  /\ body \in [Tenants -> tenant_metrics] \cup {None}
  /\ cur \in Clients \cup {None}
  /\ queue \in Seq(Clients)
  /\ phase \in [Clients -> {"away", "here", "gone"}]
  /\ request \in [Clients -> {"nothing", "metrics", "health", "other"}]
  /\ pg \in {"up", "down", "stalled"}
  /\ whole \in [Tenants -> tenant_metrics]
  /\ late \in 0..LateCap

(***************************************************************************)
(* When handle_metrics_request has formatted the last tenant, its body is  *)
(* the result of each tenant's last finished collection, all as of that    *)
(* one instant: never a tenant between its memset and its last query.      *)
(***************************************************************************)
ReplyIsSnapshot == spc = "unlock" => body = whole

(***************************************************************************)
(* No reply mixes two collections of a tenant: what it shows is the value  *)
(* read in one round, or what a query of that round that failed has left.  *)
(***************************************************************************)
SameRound(m) ==
  \E n \in 1..MaxRound : \A q \in Queries : m.val[q] \in {0, n, Failed(q)}

NoMixedRounds ==
  \A t \in Tenants : /\ SameRound(whole[t])
                     /\ body # None => SameRound(body[t])

(***************************************************************************)
(* After the signal the main loop serves at most the one client accept is  *)
(* already waiting for, however many are queued.                           *)
(***************************************************************************)
AtMostOneLateClient == late <= 1

(***************************************************************************)
(* main returns only when the collector thread has ended, with no tenant   *)
(* half collected, the mutex free and no accepted client left open.        *)
(***************************************************************************)
CleanExit ==
  spc = "exited" => /\ cpc = "done" /\ mutex = "free" /\ conn = "none"
                    /\ metrics = whole
                    /\ cur = None /\ ~running

Board == INSTANCE MetricsBoard
           WITH published <- whole,
                reply <- IF spc = "unlock" THEN body ELSE None

(***************************************************************************)
(* The program implements the board: scrapes are atomic, entries whole.    *)
(***************************************************************************)
ImplementsBoard == Board!Spec

(***************************************************************************)
(* "pg_up PostgreSQL server is up" (the HELP line of the scrape): a reply  *)
(* does not say so about a tenant while PostgreSQL is down and the         *)
(* collector stands at the connection to that tenant it failed to open.    *)
(***************************************************************************)
PgUpMeansUp ==
  spc = "unlock" /\ conn = "failed" /\ pg = "down" => ~body[ti].up

(***************************************************************************)
(* Liveness, provided PostgreSQL does not stall for ever.                  *)
(***************************************************************************)
NoEndlessStall == <>[](pg # "stalled")

\* The single-threaded server never stays blocked: it always gets back to
\* accepting clients, until the process exits.
ServerReturns == NoEndlessStall => []<>(spc \in {"accept", "exited"})

\* A signalled process exits, given the client that accept still waits for.
ShutdownCompletes == NoEndlessStall => (~running ~> spc = "exited")

\* While the process runs, every tenant is tried again and again, whatever
\* happens to the connections of the others.
EveryTenantTried ==
  NoEndlessStall =>
    \A t \in Tenants : []<>(~running \/ (cpc = "connect" /\ ti = t))
=============================================================================
