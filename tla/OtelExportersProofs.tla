------------------------- MODULE OtelExportersProofs -------------------------
(***************************************************************************)
(* For any number of clients, and for both exporters: every connection the *)
(* sql.DB has given out is one of a query under way, however queries fail. *)
(*                                                                         *)
(* The counting needs that a connection is given back by who has it, which *)
(* shows at once from pc.  The type of fresh needs more: that a reading is *)
(* answered only while one is under way, so that at is a place in the list *)
(* of readings, and that each reading has an instrument.                   *)
(***************************************************************************)
EXTENDS OtelExporters, FiniteSetTheorems, TLAPS

\* The goroutines that have a connection.
Holding == {u \in Users : pc[u] \in {"run", "rows"}}

\* The collecting goroutine rests exactly between ticks, and goes through
\* rows for one reading only.
TickInv ==
  /\ at = 0 <=> pc[Ticker] = "idle"
  /\ pc[Ticker] # "reply"
  /\ pc[Ticker] = "rows" => Readings[at] = "connections"

IInv == TypeOK /\ ConnectionsReturned /\ TickInv

-----------------------------------------------------------------------------
(* The readings. *)

\* Every reading has an instrument in its program.
LEMMA ReadingHasInstrument ==
  ASSUME TypeOK, at # 0
  PROVE  Readings[at] \in Instruments /\ at \in 1..Len(Readings)
<1> at \in 0..Len(Readings)
  BY DEF TypeOK
<1>1. CASE program = "service"
  <2>1. Readings = ServiceReadings /\ Instruments = ServiceInstruments
    BY <1>1 DEF Readings, Instruments
  <2>2. Len(ServiceReadings) = 5
    BY DEF ServiceReadings
  <2>3. at \in 1..5
    BY <2>1, <2>2
  <2>4. QED
    BY <2>1, <2>2, <2>3 DEF ServiceReadings, ServiceInstruments
<1>2. CASE program = "collector"
  <2>1. Readings = CollectorReadings /\ Instruments = CollectorInstruments
    BY <1>2 DEF Readings, Instruments
  <2>2. Len(CollectorReadings) = 2
    BY DEF CollectorReadings
  <2>3. at \in 1..2
    BY <2>1, <2>2
  <2>4. QED
    BY <2>1, <2>2, <2>3 DEF CollectorReadings, CollectorInstruments
<1>3. QED BY <1>1, <1>2 DEF TypeOK

LEMMA ReadingsLen == 1 \in 1..Len(Readings) /\ Len(Readings) \in Nat
<1>1. Len(ServiceReadings) = 5 /\ Len(CollectorReadings) = 2
  BY DEF ServiceReadings, CollectorReadings
<1>2. QED BY <1>1 DEF Readings

LEMMA ConnectionsHasInstrument == "connections" \in Instruments
BY DEF Instruments, ServiceInstruments, CollectorInstruments

-----------------------------------------------------------------------------
(* Counting. *)

PCs == {"idle", "ask", "run", "rows", "slice", "panic", "reply"}

LEMMA HoldingFinite ==
  /\ IsFiniteSet(Users) /\ Cardinality(Users) \in Nat
  /\ IsFiniteSet(Holding) /\ Cardinality(Holding) \in Nat
  /\ Cardinality(Holding) <= Cardinality(Users)
<1>1. IsFiniteSet(Users)
  BY ExportersAssumption, FS_AddElement DEF Users
<1>2. Holding \in SUBSET Users
  BY DEF Holding
<1>3. QED BY <1>1, <1>2, FS_Subset, FS_CardinalityType

\* One goroutine moves; open changes as it comes to hold a connection, or to
\* hold one no more.
Counted(u, to) ==
  \/ /\ pc[u] \notin {"run", "rows"} /\ to \in {"run", "rows"}
     /\ open' = open + 1
  \/ /\ pc[u] \in {"run", "rows"} /\ to \notin {"run", "rows"}
     /\ open' = open - 1
  \/ /\ pc[u] \in {"run", "rows"} <=> to \in {"run", "rows"}
     /\ open' = open

LEMMA Move ==
  ASSUME TypeOK, ConnectionsReturned, NEW u \in Users, NEW to \in PCs,
         pc' = [pc EXCEPT ![u] = to], Counted(u, to)
  PROVE  /\ pc' \in [Users -> PCs]
         /\ open' \in 0..Cardinality(Users)
         /\ ConnectionsReturned'
<1>1. /\ pc' \in [Users -> PCs] /\ pc'[u] = to
      /\ \A v \in Users \ {u} : pc'[v] = pc[v]
  BY DEF TypeOK, PCs
<1>2. /\ IsFiniteSet(Users) /\ Cardinality(Users) \in Nat
      /\ IsFiniteSet(Holding) /\ open = Cardinality(Holding)
      /\ open \in Nat
  BY HoldingFinite DEF ConnectionsReturned, Holding
<1>3. open' = Cardinality(Holding')
  <2>1. CASE pc[u] \notin {"run", "rows"} /\ to \in {"run", "rows"}
    <3>1. open' = open + 1
      BY <2>1 DEF Counted
    <3>2. Holding' = Holding \cup {u} /\ u \notin Holding
      BY <1>1, <2>1 DEF Holding
    <3>3. QED BY <1>2, <3>1, <3>2, FS_AddElement
  <2>2. CASE pc[u] \in {"run", "rows"} /\ to \notin {"run", "rows"}
    <3>1. open' = open - 1
      BY <2>2 DEF Counted
    <3>2. Holding' = Holding \ {u} /\ u \in Holding
      BY <1>1, <2>2 DEF Holding
    <3>3. QED BY <1>2, <3>1, <3>2, FS_RemoveElement
  <2>3. CASE pc[u] \in {"run", "rows"} <=> to \in {"run", "rows"}
    <3>1. open' = open
      BY <2>3 DEF Counted
    <3>2. Holding' = Holding
      BY <1>1, <2>3 DEF Holding
    <3>3. QED BY <1>2, <3>1, <3>2
  <2>4. QED BY <2>1, <2>2, <2>3
<1>4. Holding' \in SUBSET Users
  BY DEF Holding
<1>5. Cardinality(Holding') \in Nat /\ Cardinality(Holding') <= Cardinality(Users)
  BY <1>2, <1>4, FS_Subset, FS_CardinalityType
<1>6. QED BY <1>1, <1>2, <1>3, <1>5 DEF ConnectionsReturned, Holding

-----------------------------------------------------------------------------
(* One request. *)

\* A step of a client leaves the program, PostgreSQL and the tick alone.
ClientStep(c, to) ==
  /\ to \in PCs /\ pc' = [pc EXCEPT ![c] = to] /\ Counted(c, to)
  /\ UNCHANGED <<fixed, life, pg, ticking>>
  /\ kind' \in [Clients -> Kinds] /\ limit' \in [Clients -> Limits]
  /\ reply' \in [Clients -> {"none", "ok", "error", "made up"}]

LEMMA ClientKeeps ==
  ASSUME IInv, NEW c \in Clients, NEW to, ClientStep(c, to)
  PROVE  IInv'
<1>1. c \in Users /\ Ticker \in Users /\ c # Ticker
  BY ExportersAssumption DEF Users
<1>2. /\ pc' \in [Users -> PCs] /\ open' \in 0..Cardinality(Users)
      /\ ConnectionsReturned'
  BY <1>1, Move DEF IInv, ClientStep
<1>3. /\ UNCHANGED <<program, lacks, life, pg, tick, at, fresh>>
      /\ Readings' = Readings /\ Instruments' = Instruments
  BY DEF ClientStep, fixed, ticking, Readings, Instruments
<1>4. TypeOK'
  BY <1>2, <1>3 DEF IInv, TypeOK, ClientStep, PCs
<1>5. pc'[Ticker] = pc[Ticker]
  BY <1>1 DEF ClientStep, IInv, TypeOK
<1>6. TickInv'
  BY <1>3, <1>5 DEF IInv, TickInv
<1>7. QED BY <1>2, <1>4, <1>6 DEF IInv

\* A reply is written.
LEMMA RespondKeeps ==
  ASSUME IInv, NEW c \in Clients, NEW r \in {"ok", "error", "made up"},
         Respond(c, r), Counted(c, "reply")
  PROVE  IInv'
<1>1. reply' \in [Clients -> {"none", "ok", "error", "made up"}]
  BY DEF Respond, IInv, TypeOK
<1>2. ClientStep(c, "reply")
  BY <1>1 DEF ClientStep, Respond, IInv, TypeOK, PCs
<1>3. QED BY <1>2, ClientKeeps

\* What ends a query counts right.
LEMMA EndsCounted ==
  ASSUME NEW u
  PROVE  /\ Refused(u) => Counted(u, "reply") /\ Counted(u, "ask") /\ Counted(u, "idle")
         /\ Give /\ pc[u] \in {"run", "rows"}
              => Counted(u, "reply") /\ Counted(u, "ask") /\ Counted(u, "idle")
BY DEF Refused, Give, Counted

LEMMA HandleKeeps ==
  ASSUME IInv, NEW c \in Clients, Handle(c)
  PROVE  IInv'
<1>1. CASE Acquire(c)
  <2>1. ClientStep(c, "run")
    BY <1>1 DEF Acquire, Go, Counted, ClientStep, PCs, handling, IInv, TypeOK
  <2>2. QED BY <2>1, ClientKeeps
<1>2. CASE Reply(c) \/ Recover(c)
  <2>1. /\ Counted(c, "idle") /\ pc' = [pc EXCEPT ![c] = "idle"]
        /\ End(c)
    BY <1>2 DEF Reply, Recover, End, Go, Counted
  <2>2. /\ kind' \in [Clients -> Kinds] /\ limit' \in [Clients -> Limits]
        /\ reply' \in [Clients -> {"none", "ok", "error", "made up"}]
    BY <2>1 DEF End, IInv, TypeOK, Kinds, ServiceRoutes, Limits
  <2>3. ClientStep(c, "idle")
    BY <2>1, <2>2 DEF End, ClientStep, PCs
  <2>4. QED BY <2>3, ClientKeeps
<1>3. CASE ServiceSlowQueries(c)
  <2>1. CASE Refused(c) /\ Respond(c, "error")
    BY <2>1, EndsCounted, RespondKeeps
  <2>2. CASE Broken(c) /\ Respond(c, "error")
    BY <2>2, EndsCounted, RespondKeeps DEF Broken
  <2>3. CASE Answered(c) /\ Give /\ Respond(c, "error")
    BY <2>3, EndsCounted, RespondKeeps DEF Answered
  <2>4. CASE /\ Answered(c) /\ Go(c, "run", "rows")
             /\ UNCHANGED <<fixed, life, pg, ticking, open, handling>>
    <3>1. ClientStep(c, "rows")
      BY <2>4 DEF Go, Counted, ClientStep, PCs, handling, IInv, TypeOK
    <3>2. QED BY <3>1, ClientKeeps
  <2>5. CASE pc[c] = "rows" /\ Give /\ Respond(c, "ok")
    BY <2>5, EndsCounted, RespondKeeps
  <2>6. QED BY <1>3, <2>1, <2>2, <2>3, <2>4, <2>5 DEF ServiceSlowQueries
<1>4. CASE ServiceConnectionsHandler(c) \/ CollectorConnectionsHandler(c)
  <2>1. PICK r \in {"ok", "error", "made up"} :
          /\ Respond(c, r)
          /\ Refused(c) \/ Broken(c) \/ (Answered(c) /\ Give)
    BY <1>4 DEF ServiceConnectionsHandler, CollectorConnectionsHandler
  <2>2. Counted(c, "reply")
    BY <2>1, EndsCounted DEF Broken, Answered
  <2>3. QED BY <2>1, <2>2, RespondKeeps
<1>5. CASE CollectorSlowQueries(c)
  <2>1. CASE Respond(c, "ok")
    <3>1. Counted(c, "reply")
      BY <1>5 DEF CollectorSlowQueries, Counted
    <3>2. QED BY <2>1, <3>1, RespondKeeps
  <2>2. CASE Go(c, "slice", "panic") /\ UNCHANGED <<fixed, life, pg, ticking, handling>>
    <3>1. ClientStep(c, "panic")
      BY <1>5, <2>2 DEF CollectorSlowQueries, Go, Counted, ClientStep, PCs, handling,
         IInv, TypeOK
    <3>2. QED BY <3>1, ClientKeeps
  <2>3. QED BY <1>5, <2>1, <2>2 DEF CollectorSlowQueries
<1>6. QED BY <1>1, <1>2, <1>3, <1>4, <1>5 DEF Handle

LEMMA RequestKeeps ==
  ASSUME IInv, NEW c \in Clients, NEW k \in Kinds, NEW l \in Limits, Request(c, k, l)
  PROVE  IInv'
<1>1. Routes[k] \in {"ask", "slice", "reply"}
  BY DEF Kinds, Routes, CollectorRoutes, ServiceRoutes
<1>2. Counted(c, Routes[k])
  BY <1>1 DEF Request, Go, Counted
<1>3. kind' \in [Clients -> Kinds] /\ limit' \in [Clients -> Limits]
  BY DEF Request, IInv, TypeOK
<1>4. reply' \in [Clients -> {"none", "ok", "error", "made up"}]
  BY DEF Request, IInv, TypeOK
<1>5. ClientStep(c, Routes[k])
  BY <1>1, <1>2, <1>3, <1>4 DEF Request, Go, ClientStep, PCs
<1>6. QED BY <1>5, ClientKeeps

-----------------------------------------------------------------------------
(* The collecting goroutine. *)

LEMMA TickerIsUser == Ticker \in Users
BY DEF Users

\* A reading ends, its connection given back or never had.
LEMMA ReadingEnds ==
  ASSUME IInv, NEW s, Update(s), s \subseteq Instruments, Proceed,
         Counted(Ticker, "ask"), pc[Ticker] # "idle"
  PROVE  IInv'
<1>1. at \in 1..Len(Readings) /\ Len(Readings) \in Nat
  BY ReadingHasInstrument, ReadingsLen DEF IInv, TickInv
<1>2. PICK to \in {"ask", "idle"} :
        /\ pc' = [pc EXCEPT ![Ticker] = to]
        /\ at' \in 0..Len(Readings) /\ (at' = 0 <=> to = "idle")
  BY <1>1 DEF Proceed
<1>3. Counted(Ticker, to)
  BY DEF Counted
<1>4. /\ pc' \in [Users -> PCs] /\ open' \in 0..Cardinality(Users)
      /\ ConnectionsReturned'
  BY <1>2, <1>3, TickerIsUser, Move DEF IInv, PCs
<1>5. /\ UNCHANGED <<program, lacks, life, pg, tick, kind, limit, reply>>
      /\ Readings' = Readings /\ Instruments' = Instruments
  BY DEF Update, fixed, handling, Readings, Instruments
<1>6. fresh' \subseteq Instruments
  BY DEF Update, IInv, TypeOK
<1>7. TypeOK'
  BY <1>2, <1>4, <1>5, <1>6 DEF IInv, TypeOK, PCs
<1>8. pc'[Ticker] = to
  BY <1>2, TickerIsUser DEF IInv, TypeOK
<1>9. TickInv'
  BY <1>2, <1>8 DEF TickInv
<1>10. QED BY <1>4, <1>7, <1>9 DEF IInv

\* A step of the goroutine within a reading.
LEMMA TickerKeeps ==
  ASSUME IInv, NEW to \in {"ask", "run", "rows"},
         pc' = [pc EXCEPT ![Ticker] = to], Counted(Ticker, to),
         to = "rows" => Readings[at] = "connections",
         at' \in 1..Len(Readings), at # 0 => at' = at,
         fresh' \subseteq fresh, tick' \in BOOLEAN,
         UNCHANGED <<fixed, life, pg, handling>>,
         at = 0 => to = "ask"
  PROVE  IInv'
<1>1. /\ pc' \in [Users -> PCs] /\ open' \in 0..Cardinality(Users)
      /\ ConnectionsReturned'
  BY TickerIsUser, Move DEF IInv, PCs
<1>2. /\ UNCHANGED <<program, lacks, life, pg, kind, limit, reply>>
      /\ Readings' = Readings /\ Instruments' = Instruments
  BY DEF fixed, handling, Readings, Instruments
<1>3. at' \in 0..Len(Readings) /\ at' # 0
  BY ReadingsLen
<1>4. TypeOK'
  BY <1>1, <1>2, <1>3 DEF IInv, TypeOK, PCs
<1>5. pc'[Ticker] = to
  BY TickerIsUser DEF IInv, TypeOK
<1>6. TickInv'
  BY <1>2, <1>3, <1>5 DEF TickInv
<1>7. QED BY <1>1, <1>4, <1>6 DEF IInv

LEMMA CollectKeeps ==
  ASSUME IInv, collectMetrics
  PROVE  IInv'
<1>1. TypeOK /\ TickInv /\ (pc[Ticker] # "idle" => at \in 1..Len(Readings))
  BY ReadingHasInstrument DEF IInv, TickInv
<1>2. CASE Wake
  <2>1. Counted(Ticker, "ask") /\ at' \in 1..Len(Readings)
    BY <1>2, ReadingsLen DEF Wake, Go, Counted
  <2>2. QED BY <1>2, <2>1, TickerKeeps DEF Wake, Go
<1>3. CASE Acquire(Ticker)
  <2>1. /\ Counted(Ticker, "run") /\ pc[Ticker] = "ask"
        /\ pc' = [pc EXCEPT ![Ticker] = "run"]
    BY <1>3 DEF Acquire, Go, Counted
  <2>2. at \in 1..Len(Readings) /\ at # 0
    BY <1>1, <2>1 DEF TickInv
  <2>3. UNCHANGED <<fixed, life, pg, ticking, handling>>
    BY <1>3 DEF Acquire
  <2>4. QED BY <1>1, <2>1, <2>2, <2>3, TickerKeeps DEF ticking, TypeOK
<1>4. CASE ReadingFails
  <2>1. Counted(Ticker, "ask") /\ pc[Ticker] # "idle"
    BY <1>4, EndsCounted DEF ReadingFails, Refused, Broken
  <2>2. QED BY <1>4, <2>1, ReadingEnds DEF ReadingFails
<1>5. CASE ReadingRows
  <2>1. /\ Counted(Ticker, "rows") /\ pc[Ticker] = "run"
        /\ pc' = [pc EXCEPT ![Ticker] = "rows"]
        /\ Readings[at] = "connections"
    BY <1>5 DEF ReadingRows, Go, Counted
  <2>2. at \in 1..Len(Readings) /\ at # 0
    BY <1>1, <2>1 DEF TickInv
  <2>3. UNCHANGED <<fixed, life, pg, ticking, handling>>
    BY <1>5 DEF ReadingRows
  <2>4. QED BY <1>1, <2>1, <2>2, <2>3, TickerKeeps DEF ticking, TypeOK
<1>6. CASE ServiceConnections \/ CollectorConnections
  <2>1. pc[Ticker] = "rows" /\ Give /\ Proceed
    BY <1>6 DEF ServiceConnections, CollectorConnections
  <2>2. PICK s \in {{"connections"}, {}} : Update(s)
    BY <1>6 DEF ServiceConnections, CollectorConnections
  <2>3. s \subseteq Instruments
    BY ConnectionsHasInstrument
  <2>4. Counted(Ticker, "ask")
    BY <2>1, EndsCounted
  <2>5. QED BY <2>1, <2>2, <2>3, <2>4, ReadingEnds
<1>7. CASE ServiceValues \/ CollectorCache
  <2> DEFINE s == {Readings[at]} \ lacks
  <2>1. pc[Ticker] = "run" /\ Give /\ Update(s) /\ Proceed
    BY <1>7 DEF ServiceValues, CollectorCache, Value, Answered
  <2>2. s \subseteq Instruments
    BY <1>1, <2>1, ReadingHasInstrument DEF TickInv
  <2>3. Counted(Ticker, "ask")
    BY <2>1, EndsCounted
  <2> HIDE DEF s
  <2>4. QED BY <2>1, <2>2, <2>3, ReadingEnds
<1>8. CASE CollectorAdd
  <2>1. /\ UNCHANGED <<program, lacks, life, pg, tick, at, open, pc, kind, limit, reply>>
        /\ fresh' = fresh \cup {"connections"}
    BY <1>8 DEF CollectorAdd, Update, fixed, handling
  <2>2. Readings' = Readings /\ Instruments' = Instruments
    BY <2>1 DEF Readings, Instruments
  <2>3. fresh' \subseteq Instruments
    BY <1>1, <2>1, ConnectionsHasInstrument DEF TypeOK
  <2>4. TypeOK'
    BY <1>1, <2>1, <2>2, <2>3 DEF TypeOK
  <2>5. TickInv' /\ ConnectionsReturned'
    BY <2>1, <2>2 DEF IInv, TickInv, ConnectionsReturned
  <2>6. QED BY <2>4, <2>5 DEF IInv
<1>9. QED
  BY <1>2, <1>3, <1>4, <1>5, <1>6, <1>7, <1>8 DEF collectMetrics

-----------------------------------------------------------------------------
(* The invariant. *)

LEMMA InitInv == Init => IInv
<1> SUFFICES ASSUME Init PROVE IInv
  OBVIOUS
<1>1. Holding = {} /\ Ticker \in Users
  BY TickerIsUser DEF Init, Holding
<1>2. ConnectionsReturned
  BY <1>1, FS_EmptySet DEF Init, ConnectionsReturned, Holding
<1>3. open \in 0..Cardinality(Users) /\ at \in 0..Len(Readings)
  BY HoldingFinite, ReadingsLen DEF Init
<1>4. /\ kind \in [Clients -> Kinds] /\ limit \in [Clients -> Limits]
      /\ reply \in [Clients -> {"none", "ok", "error", "made up"}]
      /\ pc \in [Users -> {"idle", "ask", "run", "rows", "slice", "panic", "reply"}]
  BY DEF Init, Each, Kinds, ServiceRoutes, Limits
<1>5. TypeOK
  BY <1>3, <1>4 DEF Init, TypeOK
<1>6. TickInv
  BY <1>1 DEF Init, TickInv
<1>7. QED BY <1>2, <1>5, <1>6 DEF IInv

LEMMA StepInv == IInv /\ [Next]_vars => IInv'
<1> SUFFICES ASSUME IInv, [Next]_vars PROVE IInv'
  OBVIOUS
\* start-up, PostgreSQL and the clock: no goroutine moves
<1>1. CASE main \/ PgChange \/ Tick \/ UNCHANGED vars
  <2>1. /\ UNCHANGED <<program, lacks, at, fresh, open, pc, kind, limit, reply>>
        /\ life' \in {"starting", "serving"} /\ tick' \in BOOLEAN
        /\ pg' \in {"up", "full", "down", "stalled"}
    BY <1>1 DEF main, ServiceMain, CollectorMain, Serve, PgChange, Tick, vars,
       fixed, ticking, handling, IInv, TypeOK
  <2>2. Readings' = Readings /\ Instruments' = Instruments
    BY <2>1 DEF Readings, Instruments
  <2>3. TypeOK'
    BY <2>1, <2>2 DEF IInv, TypeOK
  <2>4. TickInv' /\ ConnectionsReturned'
    BY <2>1, <2>2 DEF IInv, TickInv, ConnectionsReturned
  <2>5. QED BY <2>3, <2>4 DEF IInv
<1>2. QED
  BY <1>1, CollectKeeps, HandleKeeps, RequestKeeps DEF Next

(***************************************************************************)
(* The inductive invariant holds in every reachable state.                 *)
(***************************************************************************)
THEOREM Invariance == Spec => []IInv
BY InitInv, StepInv, PTL DEF Spec

(***************************************************************************)
(* Every variable keeps its type: no instrument is updated that the        *)
(* program has not created, which would be a nil dereference in the        *)
(* goroutine that collects, and no more connections are given out than     *)
(* there are goroutines.                                                   *)
(***************************************************************************)
THEOREM TypeCorrect == Spec => []TypeOK
<1>1. IInv => TypeOK
  BY DEF IInv
<1>2. QED BY <1>1, Invariance, PTL

(***************************************************************************)
(* However queries and rows end, a connection of the sql.DB is one of a    *)
(* query that is running: none is lost.                                    *)
(***************************************************************************)
THEOREM NoConnectionLost == Spec => []ConnectionsReturned
<1>1. IInv => ConnectionsReturned
  BY DEF IInv
<1>2. QED BY <1>1, Invariance, PTL
=============================================================================
