--------------------------- MODULE TenantDiscovery ---------------------------
(***************************************************************************)
(* pganalytics-v2/monitoring/c-collector/main.c: the exporter that finds   *)
(* its tenants itself.  Each cycle asks PostgreSQL for its databases and   *)
(* writes them over the slots of one array, the first database to slot 1   *)
(* and so on; then it reads the statistics of each slot.  The two hold the *)
(* mutex separately, and a slot given to another database keeps the        *)
(* statistics of the last one until they are read anew.  The main thread   *)
(* runs one discovery itself, before it starts the collector thread.       *)
(*                                                                         *)
(* /metrics is put together by strcat in an array on the stack, without a  *)
(* look at its size, and send_response copies the text into a smaller one, *)
(* which cuts it.  Lengths are counted in tenants.  So many as BodyRoom    *)
(* and SendRoom fit into the one and the other however long their names    *)
(* are; more may fit or not.                                               *)
(*                                                                         *)
(* A statistic is abstracted to the database it was read from.  Databases  *)
(* come and go, sessions fail, clients call: all of it at any time.  Left  *)
(* out, as nothing but a reply's text depends on them: the time stamps,    *)
(* database_connected and the count of it that /health gives.              *)
(***************************************************************************)
EXTENDS Naturals, Sequences

CONSTANTS Databases,    \* the databases PostgreSQL may have
          MaxTenants,   \* MAX_TENANTS: 100
          NStats,       \* queries of update_tenant_metrics: 3
          BodyRoom,     \* response_body[16384]: 27 tenants, 60 with short names
          SendRoom,     \* response[4096]: 6 tenants, 14 with short names
          None

ASSUME DiscoveryAssumption == /\ MaxTenants \in Nat \ {0}
                              /\ NStats \in Nat \ {0}
                              /\ BodyRoom \in Nat /\ SendRoom \in Nat
                              /\ None \notin Databases

Slots == 1..MaxTenants
Threads == {"main", "collector"}
Discovering == {"ask", "dlock", "write"}
MainPlaces == {"start", "create", "loop", "accept", "lock", "walk", "reply",
               "sent", "stop", "join", "exited"}
CollectorPlaces == {"none", "test", "ulock", "uconnect", "uquery", "sleep", "done"}
\* "undefined": the program has written behind an array
Places == Discovering \cup MainPlaces \cup CollectorPlaces \cup {"undefined"}

VARIABLES keep_running, running,  \* the flags of main and of the collector
          mutex,                  \* global_metrics.mutex
          tenants, tenant_count,  \* global_metrics
          pc,                     \* of each thread
          rows, i, q,             \* locals of the discovery or of the update
          kind, si, body,         \* the request main is serving
          response,               \* what send_response sends to its client
          stalled,                \* PostgreSQL answers nothing
          known,                  \* history: names the last discovery left,
          found                   \* and those when the request was served
flags == <<keep_running, running>>
locals == <<rows, i, q>>
serving == <<kind, si, body, response, found>>
vars == <<flags, mutex, tenants, tenant_count, pc, locals, serving, stalled, known>>

tenant_metrics_t == [id : Databases \cup {None}, active : BOOLEAN,
                     stat : [1..NStats -> Databases \cup {None}]]
Unused == [id |-> None, active |-> FALSE, stat |-> [n \in 1..NStats |-> None]]

\* what SELECT datname FROM pg_database may answer: names, in any order
Answers == {s \in UNION {[1..n -> Databases] : n \in 1..MaxTenants + 1} :
              \A a, b \in DOMAIN s : a # b => s[a] # s[b]}
Prefix(s, n) == IF Len(s) <= n THEN s ELSE SubSeq(s, 1, n)

\* main has installed the signal handlers
Init ==
  /\ keep_running = TRUE /\ running = FALSE
  /\ mutex = "free"
  /\ tenants = [n \in Slots |-> Unused] /\ tenant_count = 0
  /\ pc = [p \in Threads |-> IF p = "main" THEN "start" ELSE "none"]
  /\ rows = <<>> /\ i = 1 /\ q = 1
  /\ kind = "other" /\ si = 1 /\ body = <<>> /\ response = <<>>
  /\ stalled = FALSE
  /\ known = <<>> /\ found = <<>>

Go(p, from, to) == pc[p] = from /\ pc' = [pc EXCEPT ![p] = to]
Lock(p) == mutex = "free" /\ mutex' = p
Unlock == mutex' = "free"

-----------------------------------------------------------------------------
(* discover_tenants, called by p. *)

AfterDiscovery(p) == IF p = "main" THEN "create" ELSE "ulock"
discoverFrame == UNCHANGED <<flags, q, serving, stalled>>

\* connect and query; nothing bounds how long PostgreSQL takes.  A failure
\* of either leaves the tenants as they are.
Ask(p) ==
  /\ ~stalled
  /\ \/ /\ Go(p, "ask", "dlock")
        /\ rows' \in Answers
     \/ Go(p, "ask", AfterDiscovery(p)) /\ UNCHANGED rows
  /\ UNCHANGED <<mutex, tenants, tenant_count, i, known>>
  /\ discoverFrame

\* Mutant: the tenants are rewritten without the mutex.
DiscoverLock_Missing(p) ==
  /\ Go(p, "dlock", "write")
  /\ tenant_count' = 0
  /\ i' = 1
  /\ UNCHANGED <<mutex, tenants, rows, known>>
  /\ discoverFrame

\* Mutant: tenant_count = 0 is missing.
DiscoverLock_NoReset(p) ==
  /\ Go(p, "dlock", "write")
  /\ Lock(p)
  /\ i' = 1
  /\ UNCHANGED <<tenants, tenant_count, rows, known>>
  /\ discoverFrame

DiscoverLock(p) ==
  /\ Go(p, "dlock", "write")
  /\ Lock(p)
  /\ tenant_count' = 0
  /\ i' = 1
  /\ UNCHANGED <<tenants, rows, known>>
  /\ discoverFrame

\* the name and the connection string are replaced, the statistics are not
WriteTenant(p) ==
  /\ pc[p] = "write" /\ i <= Len(rows) /\ i <= MaxTenants
  /\ tenants' = [tenants EXCEPT ![i] =
                    [id |-> rows[i], active |-> TRUE, stat |-> tenants[i].stat]]
  /\ tenant_count' = tenant_count + 1
  /\ i' = i + 1
  /\ UNCHANGED <<mutex, pc, rows, known>>
  /\ discoverFrame

DiscoverUnlock(p) ==
  /\ i > Len(rows) \/ i > MaxTenants
  /\ Go(p, "write", AfterDiscovery(p))
  /\ Unlock
  /\ known' = Prefix(rows, MaxTenants)
  /\ rows' = <<>> /\ i' = 1
  /\ UNCHANGED <<tenants, tenant_count>>
  /\ discoverFrame

discover_tenants(p) ==
  Ask(p) \/ DiscoverLock(p) \/ WriteTenant(p) \/ DiscoverUnlock(p)

-----------------------------------------------------------------------------
(* metrics_collector_thread. *)

updateFrame == UNCHANGED <<flags, tenant_count, rows, serving, stalled, known>>

CollectorTest ==
  /\ Go("collector", "test", IF running THEN "ask" ELSE "done")
  /\ UNCHANGED <<mutex, tenants, i, q>>
  /\ updateFrame

UpdateLock ==
  /\ Go("collector", "ulock", "uconnect")
  /\ Lock("collector")
  /\ i' = 1
  /\ UNCHANGED <<tenants, q>>
  /\ updateFrame

\* update_tenant_metrics: a tenant that cannot be reached is only marked
\* (database_connected), it keeps its statistics
UpdateConnect ==
  /\ pc["collector"] = "uconnect" /\ i <= tenant_count
  /\ IF tenants[i].active
     THEN /\ ~stalled
          /\ \/ pc' = [pc EXCEPT !["collector"] = "uquery"] /\ UNCHANGED i
             \/ i' = i + 1 /\ UNCHANGED pc
     ELSE i' = i + 1 /\ UNCHANGED pc
  /\ q' = 1
  /\ UNCHANGED <<mutex, tenants>>
  /\ updateFrame

\* a query that fails leaves the old value; after the last one, PQfinish
UpdateQuery ==
  /\ ~stalled
  /\ Go("collector", "uquery", IF q < NStats THEN "uquery" ELSE "uconnect")
  /\ tenants' \in {tenants, [tenants EXCEPT ![i].stat[q] = tenants[i].id]}
  /\ q' = IF q < NStats THEN q + 1 ELSE 1
  /\ i' = IF q < NStats THEN i ELSE i + 1
  /\ UNCHANGED mutex
  /\ updateFrame

\* Mutant: the mutex is not given back.
UpdateUnlock_Leaked ==
  /\ i > tenant_count
  /\ Go("collector", "uconnect", "sleep")
  /\ i' = 1
  /\ UNCHANGED <<mutex, tenants, q>>
  /\ updateFrame

UpdateUnlock ==
  /\ i > tenant_count
  /\ Go("collector", "uconnect", "sleep")
  /\ Unlock
  /\ i' = 1
  /\ UNCHANGED <<tenants, q>>
  /\ updateFrame

CollectorWake ==
  /\ Go("collector", "sleep", "test")
  /\ UNCHANGED <<mutex, tenants, i, q>>
  /\ updateFrame

CollectorStep ==
  \/ CollectorTest \/ discover_tenants("collector")
  \/ UpdateLock \/ UpdateConnect \/ UpdateQuery \/ UpdateUnlock \/ CollectorWake

-----------------------------------------------------------------------------
(* The main thread. *)

mainFrame == UNCHANGED <<keep_running, tenants, tenant_count, locals, stalled, known>>

\* pthread_mutex_init; running = 1, over what a signal may have stored
Start ==
  /\ Go("main", "start", "ask")
  /\ running' = TRUE
  /\ UNCHANGED <<mutex, serving>>
  /\ mainFrame

pthread_create ==
  /\ pc["main"] = "create"
  /\ pc' = [pc EXCEPT !["main"] = "loop", !["collector"] = "test"]
  /\ UNCHANGED <<running, mutex, serving>>
  /\ mainFrame

MainTest ==
  /\ Go("main", "loop", IF keep_running THEN "accept" ELSE "stop")
  /\ UNCHANGED <<running, mutex, serving>>
  /\ mainFrame

\* accept and recv; "other" stands for a client that sends nothing, too
handle_request(k) ==
  /\ Go("main", "accept", IF k = "other" THEN "reply" ELSE "lock")
  /\ kind' = k
  /\ UNCHANGED <<running, mutex, si, body, response, found>>
  /\ mainFrame

ServerLock ==
  /\ Go("main", "lock", "walk")
  /\ Lock("main")
  /\ si' = 1 /\ body' = <<>>
  /\ UNCHANGED <<running, kind, response, found>>
  /\ mainFrame

\* one tenant is listed (/metrics) or, if connected, counted (/health)
Listed == kind = "metrics" /\ tenants[si].active

ServerWalk ==
  /\ pc["main"] = "walk" /\ si <= tenant_count
  /\ body' = IF Listed THEN Append(body, tenants[si]) ELSE body
  /\ si' = si + 1
  /\ UNCHANGED <<running, mutex, pc, kind, response, found>>
  /\ mainFrame

\* strcat writes behind response_body: undefined is what follows
Overflow ==
  /\ pc["main"] = "walk" /\ si <= tenant_count
  /\ Listed /\ Len(body) >= BodyRoom
  /\ pc' = [p \in Threads |-> "undefined"]
  /\ UNCHANGED <<running, mutex, serving>>
  /\ mainFrame

ServerUnlock ==
  /\ si > tenant_count
  /\ Go("main", "walk", "reply")
  /\ Unlock
  /\ found' = IF kind = "metrics" THEN known ELSE <<>>
  /\ si' = 1
  /\ UNCHANGED <<running, kind, body, response>>
  /\ mainFrame

\* send_response: what does not fit into its array is left off, the length it
\* announces is that of all (and so no client takes a cut reply for whole)
send_response ==
  /\ Go("main", "reply", "sent")
  /\ \E n \in 0..Len(body) : /\ n >= SendRoom \/ n = Len(body)
                             /\ response' = Prefix(body, n)
  /\ body' = <<>>
  /\ UNCHANGED <<running, mutex, kind, si, found>>
  /\ mainFrame

\* close; the request is forgotten
Close ==
  /\ Go("main", "sent", "loop")
  /\ kind' = "other" /\ response' = <<>> /\ found' = <<>>
  /\ UNCHANGED <<running, mutex, si, body>>
  /\ mainFrame

\* Mutant: main trusts the handler to have cleared running.
Stop_NoClear ==
  /\ Go("main", "stop", "join")
  /\ UNCHANGED <<running, mutex, serving>>
  /\ mainFrame

\* global_metrics.running = 0
Stop ==
  /\ Go("main", "stop", "join")
  /\ running' = FALSE
  /\ UNCHANGED <<mutex, serving>>
  /\ mainFrame

\* Mutant: the mutex is destroyed before the collector has ended.
Join_Missing ==
  /\ Go("main", "join", "exited")
  /\ mutex' = "destroyed"
  /\ UNCHANGED <<running, serving>>
  /\ mainFrame

\* pthread_join, pthread_mutex_destroy, close, return
Join ==
  /\ pc["collector"] = "done"
  /\ Go("main", "join", "exited")
  /\ mutex' = "destroyed"
  /\ UNCHANGED <<running, serving>>
  /\ mainFrame

MainStep ==
  \/ Start \/ discover_tenants("main") \/ pthread_create \/ MainTest
  \/ \E k \in {"metrics", "health", "other"} : handle_request(k)
  \/ ServerLock \/ ServerWalk \/ Overflow \/ ServerUnlock
  \/ send_response \/ Close \/ Stop \/ Join

-----------------------------------------------------------------------------
envFrame == UNCHANGED <<mutex, tenants, tenant_count, pc, locals, serving, known>>

signal_handler ==
  /\ pc["main"] \notin {"exited", "undefined"} /\ (keep_running \/ running)
  /\ keep_running' = FALSE /\ running' = FALSE
  /\ UNCHANGED stalled
  /\ envFrame

PgChange == stalled' = ~stalled /\ UNCHANGED flags /\ envFrame

Exited == pc["main"] = "exited" /\ UNCHANGED vars

Next == CollectorStep \/ MainStep \/ signal_handler \/ PgChange \/ Exited

Spec == Init /\ [][Next]_vars

(***************************************************************************)
(* Both threads are scheduled, and clients keep calling: Prometheus        *)
(* scrapes and the container's health probe, both with a timeout.  Strong  *)
(* fairness of the locks: either side leaves the mutex free for most of    *)
(* the time (a sleep of 30 s, a round trip to the client).                 *)
(***************************************************************************)
FairSpec ==
  /\ Spec
  /\ WF_vars(CollectorStep) /\ WF_vars(MainStep)
  /\ SF_vars(UpdateLock) /\ SF_vars(ServerLock) /\ SF_vars(DiscoverLock("collector"))

-----------------------------------------------------------------------------
(* Properties. *)

TypeOK ==
  /\ keep_running \in BOOLEAN /\ running \in BOOLEAN /\ stalled \in BOOLEAN
  /\ mutex \in Threads \cup {"free", "destroyed"}
  /\ tenants \in [Slots -> tenant_metrics_t]
  /\ tenant_count \in 0..MaxTenants
  /\ pc \in [Threads -> Places]
  /\ pc["main"] \notin CollectorPlaces /\ pc["collector"] \notin MainPlaces
  /\ rows \in Seq(Databases) /\ known \in Seq(Databases)
  /\ i \in 1..MaxTenants + 1 /\ q \in 1..NStats
  /\ kind \in {"metrics", "health", "other"}
  /\ si \in 1..MaxTenants + 1 /\ found \in Seq(Databases)
  /\ body \in Seq(tenant_metrics_t) /\ response \in Seq(tenant_metrics_t)

(***************************************************************************)
(* A scrape names the databases one finished discovery found, each once    *)
(* and in its order: not those of two discoveries, not part of a list that *)
(* is being rewritten.  All that are left out are last ones, of more than  *)
(* a reply surely has room for; and only with more tenants than            *)
(* response_body surely has room for may the program come to an undefined  *)
(* end instead.                                                            *)
(***************************************************************************)
ScrapeNamesOneDiscovery ==
  /\ pc["main"] = "sent" /\ kind = "metrics" =>
       /\ Len(response) <= Len(found)
       /\ Len(response) < Len(found) => Len(response) >= SendRoom
       /\ \A n \in DOMAIN response : response[n].id = found[n]
       /\ \A m, n \in DOMAIN response : response[m].id = response[n].id => m = n
  /\ pc["main"] = "undefined" => tenant_count > BodyRoom

(***************************************************************************)
(* The mutex is destroyed only when no thread can come back to it, and not *)
(* while one holds it.                                                     *)
(***************************************************************************)
DestroyedUnused ==
  /\ mutex = "destroyed" => pc["collector"] = "done"
  /\ \A p \in Threads : pc[p] \in {"write", "walk", "uconnect", "uquery"} => mutex = p

(***************************************************************************)
(* A signal stops the program whenever it comes after signal() is called,  *)
(* also while main is still starting and about to store running = 1 over   *)
(* the handler's 0; unless PostgreSQL stalls for ever, or a reply was put  *)
(* together of too many tenants.                                           *)
(***************************************************************************)
NoEndlessStall == <>[](~stalled)
NeverOverflows == [](pc["main"] # "undefined")

ShutdownCompletes ==
  NoEndlessStall /\ NeverOverflows => (~keep_running ~> pc["main"] = "exited")

\* The single-threaded server always gets back to its clients, under the same
\* conditions.
ServerReturns ==
  NoEndlessStall /\ NeverOverflows => []<>(pc["main"] \in {"accept", "exited"})

(***************************************************************************)
(* "Built-in tenant isolation" (README.md:40): what a scrape shows under a *)
(* tenant's name was read from that tenant's database.                     *)
(***************************************************************************)
TenantIsolation ==
  kind = "metrics" => \A n \in DOMAIN body : \A s \in 1..NStats :
                         body[n].stat[s] \in {None, body[n].id}
=============================================================================
