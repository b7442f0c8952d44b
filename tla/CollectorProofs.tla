-------------------------- MODULE CollectorProofs ---------------------------
(***************************************************************************)
(* What TLAPS proves of Collector, for every number of tenants, queries    *)
(* and clients.                                                            *)
(*                                                                         *)
(* ReplyIsSnapshot is not inductive: that formatting has copied whole      *)
(* entries so far says nothing unless the collector is kept out meanwhile. *)
(* IInv adds who holds the mutex in each place of each thread, where       *)
(* metrics may differ from whole, and how far formatting has come.         *)
(***************************************************************************)
EXTENDS Collector, TLAPS

\* The mutex is held exactly in the two critical sections.
MutexInv ==
  /\ mutex = "collector" <=> cpc \in {"reset", "query", "unlock"}
  /\ mutex = "server" <=> spc \in {"format", "unlock"}

\* Only the tenant under collection differs from its last finished entry.
WholeInv ==
  \A t \in Tenants :
     (cpc \notin {"query", "unlock"} \/ t # ti) => metrics[t] = whole[t]

\* The tenant under collection holds what the queries done have left, and
\* zeroes for those to come.
RoundInv ==
  /\ \A t \in Tenants : SameRound(whole[t])
  /\ cpc \in {"query", "unlock"} =>
       /\ metrics[ti].up = TRUE
       /\ \A q \in Queries :
            metrics[ti].val[q] \in
               IF cpc = "unlock" \/ q < qi THEN {round, Failed(q)} ELSE {0}

\* Formatting has copied whole entries up to si, and zeroes stand beyond.
BodyInv ==
  /\ spc = "format" =>
       /\ body \in [Tenants -> tenant_metrics]
       /\ \A t \in Tenants : body[t] = IF t < si THEN whole[t] ELSE Zeroed
  /\ spc = "unlock" => body = whole
  /\ spc \notin {"format", "unlock"} => body = None

\* What the flag, the accepted client and the connection are, where.
ControlInv ==
  /\ spc \in {"join", "exited"} => ~running
  /\ spc \in {"loop", "accept", "join", "exited"} => cur = None
  /\ spc = "exited" => cpc = "done"
  /\ cpc \in {"test", "connect", "sleep", "done"} => conn = "none"
  /\ late <= 1
  /\ late = 1 => ~running /\ spc # "accept"

IInv == TypeOK /\ MutexInv /\ WholeInv /\ RoundInv /\ BodyInv /\ ControlInv

-----------------------------------------------------------------------------
\* The round number is always in range, also when it starts again.
LEMMA RoundType == \A r \in 1..MaxRound : (r % MaxRound) + 1 \in 1..MaxRound
BY CollectorAssumption

\* Storing one statistic, or clearing an entry, keeps the array's type.
LEMMA StoreType ==
  ASSUME NEW f \in [Tenants -> tenant_metrics], NEW t \in Tenants,
         NEW q \in Queries, NEW n \in 0..Estimate
  PROVE  [f EXCEPT ![t].val[q] = n] \in [Tenants -> tenant_metrics]
BY DEF tenant_metrics

LEMMA StoreEffect ==
  ASSUME NEW f \in [Tenants -> tenant_metrics], NEW t \in Tenants,
         NEW q \in Queries, NEW n \in 0..Estimate
  PROVE  LET g == [f EXCEPT ![t].val[q] = n]
         IN  /\ g[t].up = f[t].up
             /\ \A p \in Queries : g[t].val[p] = IF p = q THEN n ELSE f[t].val[p]
BY DEF tenant_metrics

LEMMA ZeroType ==
  /\ Zeroed \in tenant_metrics
  /\ [up |-> TRUE, val |-> [q \in Queries |-> 0]] \in tenant_metrics
BY CollectorAssumption DEF Zeroed, tenant_metrics, Estimate

\* What each thread, and the environment, leave alone.
LEMMA CollectorFrame ==
  collectorFrame =>
    UNCHANGED <<running, spc, si, body, cur, queue, phase, request, pg, late>>
BY DEF collectorFrame, serverVars, clientVars

LEMMA ServerFrame ==
  serverFrame =>
    UNCHANGED <<running, metrics, cpc, ti, qi, conn, round, pg, whole>>
BY DEF serverFrame, collectorVars

LEMMA ThreadFrame ==
  threadFrame =>
    UNCHANGED <<mutex, metrics, spc, si, body, cur, whole, late>>
BY DEF threadFrame, serverVars, history

-----------------------------------------------------------------------------
(* Types. *)

LEMMA TypeInit == Init => TypeOK
BY CollectorAssumption, ZeroType DEF Init, TypeOK, Tenants, Queries, LateCap

LEMMA CollectorType == TypeOK /\ CollectorStep => TypeOK'
<1> SUFFICES ASSUME TypeOK, CollectorStep PROVE TypeOK'
  OBVIOUS
<1> USE CollectorFrame, CollectorAssumption DEF TypeOK
<1>1. CASE CollectorTest BY <1>1 DEF CollectorTest, Tenants
<1>2. CASE connect_to_tenant BY <1>2 DEF connect_to_tenant
<1>3. CASE CollectorLock BY <1>3 DEF CollectorLock
<1>4. CASE CollectorReset
  <2>1. metrics' \in [Tenants -> tenant_metrics]
    BY <1>4, ZeroType DEF CollectorReset
  <2>2. round' \in 1..MaxRound
    BY <1>4, RoundType DEF CollectorReset
  <2>3. qi' \in Queries
    BY <1>4 DEF CollectorReset, Queries
  <2>4. QED BY <1>4, <2>1, <2>2, <2>3 DEF CollectorReset
<1>5. CASE CollectorQuery
  <2>1. round \in 0..Estimate /\ Estimate \in 0..Estimate
    BY DEF Estimate
  <2>2. metrics' \in [Tenants -> tenant_metrics]
    <3>1. \/ UNCHANGED metrics
          \/ metrics' = [metrics EXCEPT ![ti].val[qi] = round]
          \/ metrics' = [metrics EXCEPT ![ti].val[qi] = Estimate]
      BY <1>5 DEF CollectorQuery
    <3>2. metrics \in [Tenants -> tenant_metrics] /\ ti \in Tenants /\ qi \in Queries
      OBVIOUS
    <3>3. QED BY ONLY <2>1, <3>1, <3>2, StoreType
  <2>3. qi' \in Queries
    BY <1>5 DEF CollectorQuery, Queries
  <2>4. QED BY <1>5, <2>2, <2>3 DEF CollectorQuery
<1>6. CASE CollectorUnlock BY <1>6 DEF CollectorUnlock
<1>7. CASE CollectorFinish BY <1>7 DEF CollectorFinish, Tenants
<1>8. CASE CollectorWake BY <1>8 DEF CollectorWake
<1>9. QED BY <1>1, <1>2, <1>3, <1>4, <1>5, <1>6, <1>7, <1>8 DEF CollectorStep

LEMMA ServerType == TypeOK /\ BodyInv /\ ServerStep => TypeOK'
<1> SUFFICES ASSUME TypeOK, BodyInv, ServerStep PROVE TypeOK'
  OBVIOUS
<1> USE ServerFrame, CollectorAssumption DEF TypeOK, clientVars
<1>1. CASE ServerTest
  <2>1. spc' \in {"accept", "join"}
    BY <1>1 DEF ServerTest
  <2>2. QED BY <1>1, <2>1 DEF ServerTest
<1>2. CASE ServerAccept
  <2>1. cur' \in Clients /\ queue' \in Seq(Clients)
    BY <1>2 DEF ServerAccept
  <2>2. late' \in 0..LateCap
    BY <1>2 DEF ServerAccept, LateCap
  <2>3. QED BY <1>2, <2>1, <2>2 DEF ServerAccept
<1>3. CASE ServerDispatch BY <1>3 DEF ServerDispatch
<1>4. CASE ServerLock BY <1>4, ZeroType DEF ServerLock, Tenants
<1>5. CASE ServerFormat
  <2>1. body' \in [Tenants -> tenant_metrics]
    BY <1>5 DEF ServerFormat, BodyInv
  <2>2. si' \in Tenants
    BY <1>5 DEF ServerFormat, Tenants
  <2>3. QED BY <1>5, <2>1, <2>2 DEF ServerFormat
<1>6. CASE ServerUnlock BY <1>6 DEF ServerUnlock
<1>7. CASE ServerSend BY <1>7 DEF ServerSend
<1>8. CASE ServerClose
  <2>1. /\ phase' \in [Clients -> {"away", "here", "gone"}]
        /\ request' \in [Clients -> {"nothing", "metrics", "health", "other"}]
    BY <1>8 DEF ServerClose
  <2>2. cur' = None /\ spc' = "loop"
    BY <1>8 DEF ServerClose
  <2>3. UNCHANGED <<mutex, si, body, queue, late>> /\ serverFrame
    BY <1>8 DEF ServerClose
  <2>4. QED BY <2>1, <2>2, <2>3
<1>9. CASE ServerJoin BY <1>9 DEF ServerJoin
<1>10. QED BY <1>1, <1>2, <1>3, <1>4, <1>5, <1>6, <1>7, <1>8, <1>9 DEF ServerStep

\* The rest of Next: the signal, the clients, PostgreSQL, the final stutter.
EnvStep == signal_handler \/ ClientStep \/ PgChange \/ PgDropSession \/ Exited

LEMMA EnvType == TypeOK /\ (EnvStep \/ UNCHANGED vars) => TypeOK'
<1> SUFFICES ASSUME TypeOK, EnvStep \/ UNCHANGED vars PROVE TypeOK'
  OBVIOUS
<1> USE ThreadFrame DEF TypeOK, collectorVars, clientVars
<1>1. CASE signal_handler
  <2>1. running' \in BOOLEAN
    BY <1>1 DEF signal_handler
  <2>2. QED BY <1>1, <2>1 DEF signal_handler
<1>2. CASE ClientStep
  <2>1. ASSUME NEW c \in Clients, ClientConnect(c) PROVE TypeOK'
    BY <2>1 DEF ClientConnect
  <2>2. ASSUME NEW c \in Clients, NEW r \in {"metrics", "health", "other"},
               ClientSend(c, r)
        PROVE  TypeOK'
    BY <2>2 DEF ClientSend
  <2>3. ASSUME NEW c \in Clients, ClientGiveUp(c) PROVE TypeOK'
    BY <2>3 DEF ClientGiveUp
  <2>4. QED BY <1>2, <2>1, <2>2, <2>3 DEF ClientStep
<1>3. CASE PgChange BY <1>3 DEF PgChange
<1>4. CASE PgDropSession BY <1>4 DEF PgDropSession
<1>5. CASE Exited \/ UNCHANGED vars
  BY <1>5 DEF Exited, vars, serverVars, history
<1>6. QED BY <1>1, <1>2, <1>3, <1>4, <1>5 DEF EnvStep

-----------------------------------------------------------------------------
(* The mutex, the entries and the body, step by step. *)

Others == MutexInv /\ WholeInv /\ RoundInv /\ BodyInv /\ ControlInv

LEMMA OthersInit == Init => Others
<1> SUFFICES ASSUME Init PROVE Others
  OBVIOUS
<1>1. MutexInv BY DEF Init, MutexInv
<1>2. WholeInv BY DEF Init, WholeInv
<1>3. RoundInv
  <2>1. \A t \in Tenants : \A q \in Queries : whole[t].val[q] \in {0, 1, Failed(q)}
    BY DEF Init, Zeroed
  <2>2. 1 \in 1..MaxRound
    BY CollectorAssumption
  <2>3. QED BY <2>1, <2>2 DEF Init, RoundInv, SameRound
<1>4. BodyInv BY DEF Init, BodyInv
<1>5. ControlInv BY DEF Init, ControlInv
<1>6. QED BY <1>1, <1>2, <1>3, <1>4, <1>5 DEF Others

LEMMA CollectorOthers == IInv /\ TypeOK' /\ CollectorStep => Others'
<1> SUFFICES ASSUME IInv, TypeOK', CollectorStep PROVE Others'
  OBVIOUS
<1>1. MutexInv'
  BY CollectorFrame DEF IInv, TypeOK, MutexInv, CollectorStep, CollectorTest,
     connect_to_tenant, CollectorLock, CollectorReset, CollectorQuery,
     CollectorUnlock, CollectorFinish, CollectorWake
<1>2. WholeInv'
  BY CollectorFrame DEF IInv, TypeOK, WholeInv, CollectorStep, CollectorTest,
     connect_to_tenant, CollectorLock, CollectorReset, CollectorQuery,
     CollectorUnlock, CollectorFinish, CollectorWake
<1>3. RoundInv'
  <2>1. CASE CollectorReset
    <3>1. metrics'[ti] = [up |-> TRUE, val |-> [q \in Queries |-> 0]]
      BY <2>1 DEF CollectorReset, IInv, TypeOK
    <3>2. ti' = ti /\ whole' = whole
      BY <2>1 DEF CollectorReset
    <3>3. metrics'[ti].up = TRUE /\ \A q \in Queries : metrics'[ti].val[q] = 0
      BY <3>1
    <3>4. cpc' = "query" /\ \A q \in Queries : ~(q < qi')
      BY <2>1 DEF CollectorReset, Queries
    <3>5. QED BY <3>2, <3>3, <3>4 DEF IInv, RoundInv, SameRound
  <2>2. CASE CollectorQuery
    <3>1. UNCHANGED <<ti, round, whole>>
      BY <2>2 DEF CollectorQuery
    <3>2. metrics[ti].up = TRUE
      BY <2>2 DEF CollectorQuery, IInv, RoundInv
    <3>3. \A q \in Queries :
            metrics[ti].val[q] \in IF q < qi THEN {round, Failed(q)} ELSE {0}
      BY <2>2 DEF CollectorQuery, IInv, RoundInv
    <3>4. /\ metrics'[ti].up = TRUE
          /\ metrics'[ti].val[qi] \in {round, Failed(qi)}
          /\ \A q \in Queries : q # qi => metrics'[ti].val[q] = metrics[ti].val[q]
      <4>1. round \in 0..Estimate /\ Estimate \in 0..Estimate
        BY CollectorAssumption DEF IInv, TypeOK, Estimate
      <4>2. qi \in Queries /\ ti \in Tenants /\ metrics \in [Tenants -> tenant_metrics]
        BY DEF IInv, TypeOK
      <4>3. CASE metrics' = [metrics EXCEPT ![ti].val[qi] = round]
        BY <3>2, <4>1, <4>2, <4>3, StoreEffect
      <4>4. CASE qi \notin Fallback /\ UNCHANGED metrics
        BY <3>2, <3>3, <4>2, <4>4 DEF Failed, Queries
      <4>5. CASE qi \in Fallback /\ metrics' = [metrics EXCEPT ![ti].val[qi] = Estimate]
        BY <3>2, <4>1, <4>2, <4>5, StoreEffect DEF Failed
      <4>6. QED BY <2>2, <4>3, <4>4, <4>5 DEF CollectorQuery
    <3>5. \A q \in Queries : cpc' = "unlock" \/ q < qi' <=> q < qi \/ q = qi
      BY <2>2, CollectorAssumption DEF CollectorQuery, IInv, TypeOK, Queries
    <3>6. \A q \in Queries :
            metrics'[ti].val[q] \in
               IF cpc' = "unlock" \/ q < qi' THEN {round, Failed(q)} ELSE {0}
      BY <3>3, <3>4, <3>5
    <3>7. QED BY <3>1, <3>4, <3>6 DEF IInv, RoundInv, SameRound
  <2>3. CASE CollectorUnlock
    <3>1. SameRound(metrics[ti])
      BY <2>3 DEF CollectorUnlock, IInv, TypeOK, RoundInv, SameRound
    <3>2. \A t \in Tenants : SameRound(whole'[t])
      BY <2>3, <3>1 DEF CollectorUnlock, IInv, TypeOK, RoundInv
    <3>3. QED BY <2>3, <3>2 DEF CollectorUnlock, RoundInv, SameRound
  <2>4. CASE CollectorTest \/ connect_to_tenant \/ CollectorLock
             \/ CollectorFinish \/ CollectorWake
    <3>1. whole' = whole /\ cpc' \notin {"query", "unlock"}
      BY <2>4 DEF CollectorTest, connect_to_tenant, CollectorLock,
         CollectorFinish, CollectorWake
    <3>2. QED BY <3>1 DEF IInv, RoundInv
  <2>5. QED BY <2>1, <2>2, <2>3, <2>4 DEF CollectorStep
<1>4. BodyInv'
  \* while the server formats, the collector is not at its unlock
  <2>1. spc \in {"format", "unlock"} => whole' = whole
    BY DEF IInv, MutexInv, CollectorStep, CollectorTest, connect_to_tenant,
       CollectorLock, CollectorReset, CollectorQuery, CollectorUnlock,
       CollectorFinish, CollectorWake
  <2>2. UNCHANGED <<spc, si, body>>
    BY CollectorFrame DEF CollectorStep, CollectorTest, connect_to_tenant,
       CollectorLock, CollectorReset, CollectorQuery, CollectorUnlock,
       CollectorFinish, CollectorWake
  <2>3. QED BY <2>1, <2>2 DEF IInv, BodyInv
<1>5. ControlInv'
  BY CollectorFrame DEF IInv, TypeOK, ControlInv, CollectorStep, CollectorTest,
     connect_to_tenant, CollectorLock, CollectorReset, CollectorQuery,
     CollectorUnlock, CollectorFinish, CollectorWake
<1>6. QED BY <1>1, <1>2, <1>3, <1>4, <1>5 DEF Others

LEMMA ServerOthers == IInv /\ TypeOK' /\ ServerStep => Others'
<1> SUFFICES ASSUME IInv, TypeOK', ServerStep PROVE Others'
  OBVIOUS
<1>1. MutexInv'
  BY ServerFrame DEF IInv, TypeOK, MutexInv, ServerStep, ServerTest,
     ServerAccept, ServerDispatch, ServerLock, ServerFormat, ServerUnlock,
     ServerSend, ServerClose, ServerJoin
<1>2. UNCHANGED <<running, metrics, cpc, ti, qi, conn, round, whole>>
  BY ServerFrame DEF ServerStep, ServerTest, ServerAccept, ServerDispatch,
     ServerLock, ServerFormat, ServerUnlock, ServerSend, ServerClose, ServerJoin
<1>3. WholeInv'
  BY <1>2 DEF IInv, WholeInv
<1>4. RoundInv'
  BY <1>2 DEF IInv, RoundInv, SameRound
<1>5. BodyInv'
  <2>1. CASE ServerLock
    <3>1. body' = [t \in Tenants |-> Zeroed] /\ si' = 1 /\ spc' = "format"
      BY <2>1 DEF ServerLock
    <3>2. \A t \in Tenants : ~(t < 1)
      BY DEF Tenants
    <3>3. QED BY <3>1, <3>2, ZeroType DEF BodyInv
  <2>2. CASE ServerFormat
    \* the collector is outside its critical section, so entries are whole
    <3>1. /\ spc = "format" /\ body' = [body EXCEPT ![si] = metrics[si]]
          /\ \A t \in Tenants : metrics[t] = whole[t]
      BY <2>2 DEF ServerFormat, IInv, MutexInv, WholeInv
    <3>2. body' \in [Tenants -> tenant_metrics]
      BY <3>1 DEF IInv, TypeOK, BodyInv
    <3>3. \A t \in Tenants : body'[t] = IF t < si + 1 THEN whole[t] ELSE Zeroed
      BY <3>1 DEF IInv, TypeOK, BodyInv, Tenants
    <3>4. CASE si < NTenants
      BY <1>2, <2>2, <3>2, <3>3, <3>4 DEF ServerFormat, BodyInv
    <3>5. CASE ~(si < NTenants)
      <4>1. \A t \in Tenants : t < si + 1
        BY <3>5, CollectorAssumption DEF IInv, TypeOK, Tenants
      <4>2. body' = whole
        BY <3>2, <3>3, <4>1 DEF IInv, TypeOK
      <4>3. QED BY <1>2, <2>2, <3>5, <4>2 DEF ServerFormat, BodyInv
    <3>6. QED BY <3>4, <3>5
  <2>3. CASE ServerUnlock BY <2>3 DEF ServerUnlock, BodyInv
  <2>4. CASE ServerTest \/ ServerAccept \/ ServerDispatch \/ ServerSend
             \/ ServerClose \/ ServerJoin
    <3>1. /\ spc \notin {"format", "unlock"} /\ spc' \notin {"format", "unlock"}
          /\ body' = body
      BY <2>4 DEF ServerTest, ServerAccept, ServerDispatch, ServerSend,
         ServerClose, ServerJoin
    <3>2. QED BY <3>1 DEF IInv, BodyInv
  <2>5. QED BY <2>1, <2>2, <2>3, <2>4 DEF ServerStep
<1>6. ControlInv'
  BY <1>2 DEF IInv, TypeOK, ControlInv, LateCap, ServerStep, ServerTest,
     ServerAccept, ServerDispatch, ServerLock, ServerFormat, ServerUnlock,
     ServerSend, ServerClose, ServerJoin
<1>7. QED BY <1>1, <1>3, <1>4, <1>5, <1>6 DEF Others

LEMMA EnvOthers == IInv /\ (EnvStep \/ UNCHANGED vars) => Others'
<1> SUFFICES ASSUME IInv, EnvStep \/ UNCHANGED vars PROVE Others'
  OBVIOUS
<1>1. /\ UNCHANGED <<mutex, metrics, spc, si, body, cur, whole, late>>
      /\ UNCHANGED <<cpc, ti, qi, round>>
      /\ conn' = conn \/ (conn = "ok" /\ conn' = "broken")
      /\ running' = running \/ running' = FALSE
  BY ThreadFrame DEF EnvStep, signal_handler, ClientStep, ClientConnect,
     ClientSend, ClientGiveUp, PgChange, PgDropSession, Exited, vars,
     collectorVars, serverVars, history
<1>2. MutexInv' BY <1>1 DEF IInv, MutexInv
<1>3. WholeInv' BY <1>1 DEF IInv, WholeInv
<1>4. RoundInv' BY <1>1 DEF IInv, RoundInv, SameRound
<1>5. BodyInv' BY <1>1 DEF IInv, BodyInv
<1>6. ControlInv' BY <1>1 DEF IInv, ControlInv
<1>7. QED BY <1>2, <1>3, <1>4, <1>5, <1>6 DEF Others

LEMMA NextSteps == Next <=> (CollectorStep \/ ServerStep \/ EnvStep)
BY DEF Next, EnvStep

(***************************************************************************)
(* The inductive invariant holds in every reachable state.                 *)
(***************************************************************************)
THEOREM Invariance == Spec => []IInv
<1>1. Init => IInv
  BY TypeInit, OthersInit DEF IInv, Others
<1>2. IInv /\ [Next]_vars => IInv'
  <2> SUFFICES ASSUME IInv, [Next]_vars PROVE IInv'
    OBVIOUS
  <2>1. CASE CollectorStep
    BY <2>1, CollectorType, CollectorOthers DEF IInv, Others
  <2>2. CASE ServerStep
    BY <2>2, ServerType, ServerOthers DEF IInv, Others
  <2>3. CASE EnvStep \/ UNCHANGED vars
    BY <2>3, EnvType, EnvOthers DEF IInv, Others
  <2>4. QED BY <2>1, <2>2, <2>3, NextSteps
<1>3. QED BY <1>1, <1>2, PTL DEF Spec

(***************************************************************************)
(* Every variable keeps its type: in particular the two loops never index  *)
(* a tenant or a query out of range.                                       *)
(***************************************************************************)
THEOREM TypeCorrect == Spec => []TypeOK
<1>1. IInv => TypeOK
  BY DEF IInv
<1>2. QED BY <1>1, Invariance, PTL

(***************************************************************************)
(* A scrape is a snapshot of finished collections, for any number of       *)
(* tenants, although its lines are appended one tenant at a time.          *)
(***************************************************************************)
THEOREM SnapshotReplies == Spec => []ReplyIsSnapshot
<1>1. IInv => ReplyIsSnapshot
  BY DEF IInv, BodyInv, ReplyIsSnapshot
<1>2. QED BY <1>1, Invariance, PTL

(***************************************************************************)
(* No reply, finished or in the making, mixes two rounds of a tenant.      *)
(***************************************************************************)
THEOREM SingleRoundReplies == Spec => []NoMixedRounds
<1>1. IInv => NoMixedRounds
  <2> SUFFICES ASSUME IInv, NEW t \in Tenants
               PROVE  SameRound(whole[t]) /\ (body # None => SameRound(body[t]))
    BY DEF NoMixedRounds
  <2>1. SameRound(whole[t])
    BY DEF IInv, RoundInv
  <2>2. SameRound(Zeroed)
    <3>1. 1 \in 1..MaxRound
      BY CollectorAssumption
    <3>2. QED BY <3>1 DEF SameRound, Zeroed
  <2>3. body # None => body[t] = whole[t] \/ body[t] = Zeroed
    BY DEF IInv, BodyInv
  <2>4. QED BY <2>1, <2>2, <2>3
<1>2. QED BY <1>1, Invariance, PTL

(***************************************************************************)
(* A signalled process takes at most one more client.                      *)
(***************************************************************************)
THEOREM OneLateClient == Spec => []AtMostOneLateClient
<1>1. IInv => AtMostOneLateClient
  BY DEF IInv, ControlInv, AtMostOneLateClient
<1>2. QED BY <1>1, Invariance, PTL

(***************************************************************************)
(* main returns with the collection thread ended and nothing half done.    *)
(***************************************************************************)
THEOREM ExitsCleanly == Spec => []CleanExit
<1>1. IInv => CleanExit
  <2> SUFFICES ASSUME IInv, spc = "exited"
               PROVE  /\ cpc = "done" /\ mutex = "free" /\ conn = "none"
                      /\ metrics = whole /\ cur = None /\ ~running
    BY DEF CleanExit
  <2>1. cpc = "done" /\ conn = "none" /\ cur = None /\ ~running
    BY DEF IInv, ControlInv
  <2>2. mutex = "free"
    BY <2>1 DEF IInv, MutexInv, TypeOK
  <2>3. metrics = whole
    BY <2>1 DEF IInv, WholeInv, TypeOK
  <2>4. QED BY <2>1, <2>2, <2>3
<1>2. QED BY <1>1, Invariance, PTL

-----------------------------------------------------------------------------
(* Refinement. *)

\* An entry the collector has finished is one the board may publish.
LEMMA FinishedEntry ==
  IInv /\ cpc = "unlock" => metrics[ti] \in Board!OfRound(round)
<1> SUFFICES ASSUME IInv, cpc = "unlock"
             PROVE  metrics[ti] \in Board!OfRound(round)
  OBVIOUS
<1>1. metrics[ti] \in tenant_metrics
  BY DEF IInv, TypeOK
<1>2. /\ metrics[ti].up = TRUE
      /\ \A q \in Queries : metrics[ti].val[q] \in {round, Failed(q)}
  BY DEF IInv, RoundInv
<1>3. metrics[ti].val \in [Queries -> {0, round, Estimate}]
  BY <1>1, <1>2 DEF tenant_metrics, Failed
<1>4. \A q \in Queries : Board!Failed(q) = Failed(q)
  BY DEF Board!Failed, Failed, Board!Estimate, Estimate
<1>5. QED
  BY <1>1, <1>2, <1>3, <1>4 DEF Board!OfRound, Board!Estimate, Estimate, tenant_metrics

boardReply == IF spc = "unlock" THEN body ELSE None

(***************************************************************************)
(* The collector implements the board: the step that formats the last      *)
(* tenant is the scrape, the unlock of the collector is the publication.   *)
(***************************************************************************)
THEOREM Refinement == Spec => ImplementsBoard
<1>1. Init => Board!Init
  BY DEF Init, Board!Init, Board!Blank, Zeroed
<1>2. IInv /\ IInv' /\ [Next]_vars => [Board!Next]_(Board!vars)
  <2> SUFFICES ASSUME IInv, IInv', [Next]_vars
               PROVE  Board!Next \/ UNCHANGED <<whole, boardReply>>
    BY DEF Board!vars, boardReply
  <2>1. CASE CollectorUnlock
    <3>1. whole' = [whole EXCEPT ![ti] = metrics[ti]] /\ ti \in Tenants
      BY <2>1 DEF CollectorUnlock, IInv, TypeOK
    <3>2. metrics[ti] \in Board!OfRound(round) /\ round \in 1..MaxRound
      BY <2>1, FinishedEntry DEF CollectorUnlock, IInv, TypeOK
    <3>3. UNCHANGED <<spc, body>>
      BY <2>1, CollectorFrame DEF CollectorUnlock
    <3>4. Board!Publish(ti)
      BY <3>1, <3>2, <3>3 DEF Board!Publish
    <3>5. QED BY <3>1, <3>4 DEF Board!Next
  <2>2. CASE CollectorStep /\ ~CollectorUnlock
    <3>1. UNCHANGED <<whole, spc, body>>
      BY <2>2, CollectorFrame DEF CollectorStep, CollectorTest, connect_to_tenant,
         CollectorLock, CollectorReset, CollectorQuery, CollectorFinish,
         CollectorWake
    <3>2. QED BY <3>1 DEF boardReply
  <2>3. CASE ServerStep
    <3>1. whole' = whole
      BY <2>3, ServerFrame DEF ServerStep, ServerTest, ServerAccept,
         ServerDispatch, ServerLock, ServerFormat, ServerUnlock, ServerSend,
         ServerClose, ServerJoin
    <3>2. CASE spc' = "unlock"
      <4>1. body' = whole'
        BY <3>2 DEF IInv, BodyInv
      <4>2. Board!Scrape
        BY <3>1, <3>2, <4>1 DEF Board!Scrape
      <4>3. QED BY <4>2 DEF Board!Next
    <3>3. CASE spc' # "unlock"
      <4>1. Board!Delivered
        BY <3>1, <3>3 DEF Board!Delivered
      <4>2. QED BY <4>1 DEF Board!Next
    <3>4. QED BY <3>2, <3>3
  <2>4. CASE EnvStep \/ UNCHANGED vars
    <3>1. UNCHANGED <<whole, spc, body>>
      BY <2>4, ThreadFrame DEF EnvStep, signal_handler, ClientStep,
         ClientConnect, ClientSend, ClientGiveUp, PgChange, PgDropSession,
         Exited, vars, serverVars, history
    <3>2. QED BY <3>1 DEF boardReply
  <2>5. QED BY <2>1, <2>2, <2>3, <2>4, NextSteps
<1>3. QED
  BY <1>1, <1>2, Invariance, PTL DEF Spec, ImplementsBoard, Board!Spec

(***************************************************************************)
(* A corollary of the refinement, and what PgUpMeansUp runs into: once a   *)
(* collection of a tenant has finished, no later one takes its pg_up back  *)
(* to 0, whatever becomes of the server.                                   *)
(***************************************************************************)
THEOREM UpForEver ==
  Spec => [][\A t \in Tenants : whole[t].up => whole'[t].up]_whole
<1>1. IInv /\ [Board!Next]_(Board!vars)
        => [\A t \in Tenants : whole[t].up => whole'[t].up]_whole
  <2> SUFFICES ASSUME IInv, [Board!Next]_(Board!vars), whole' # whole
               PROVE  \A t \in Tenants : whole[t].up => whole'[t].up
    OBVIOUS
  <2>1. PICK t \in Tenants : Board!Publish(t)
    BY DEF Board!Next, Board!vars, Board!Scrape, Board!Delivered
  <2>2. PICK n \in 1..MaxRound :
          \E m \in Board!OfRound(n) : whole' = [whole EXCEPT ![t] = m]
    BY <2>1 DEF Board!Publish
  <2>3. PICK m \in Board!OfRound(n) : whole' = [whole EXCEPT ![t] = m]
    BY <2>2
  <2>4. m.up
    BY DEF Board!OfRound
  <2>5. DOMAIN whole = Tenants
    BY DEF IInv, TypeOK
  <2>6. QED BY <2>3, <2>4, <2>5
<1>2. QED
  BY <1>1, Invariance, Refinement, PTL DEF ImplementsBoard, Board!Spec
=============================================================================
