-------------------------- MODULE OtelClientProofs --------------------------
(***************************************************************************)
(* For any number of cycles and arrays of any size: nothing is received    *)
(* twice, made-up and measured values do not meet, and five metrics are    *)
(* room enough for any outage of the OpenTelemetry collector.              *)
(*                                                                         *)
(* All but the type invariant speak of the past of received, so the        *)
(* inductive invariant says what the rounds in received and in the batch   *)
(* can be at each place of the cycle.                                      *)
(***************************************************************************)
EXTENDS OtelClient, SequenceTheorems, TLAPS

\* The batch is new to the collector: what it has got is from past rounds,
\* or from this one when the push is over.
RoundInv ==
  /\ received \cap Batch = {}
  /\ \A m \in received : m.round <= round /\ (pc # "sleep" => m.round < round)
  /\ \A m \in Batch : m.round <= round

\* The one connection attempt has settled whether values are made up.
SourceInv ==
  /\ \A m \in received \cup Batch :
       m.name # "connection" => (m.simulated <=> db_conn = "null")
  /\ pc = "connect" => metrics = <<>> /\ received = {}
  /\ pc = "cache" => db_conn = "open"

IInv == TypeOK /\ AtMostOnce /\ RoundInv /\ SourceInv

\* How many metrics there can be at each place, if every push was set up.
Room == [connect |-> 0, collect |-> 1, cache |-> 4, export |-> 5, sleep |-> 0]
RoomInv ==
  /\ dropped => unset
  /\ ~unset => Len(metrics) <= Room[pc]

-----------------------------------------------------------------------------
(* The arrays. *)

Elements(s) == {s[n] : n \in DOMAIN s}

LEMMA MeasuredType ==
  ASSUME TypeOK, NEW n \in Names
  PROVE  Measured(n) \in otel_metric_t /\ Simulated(n) \in otel_metric_t
BY DEF TypeOK, Measured, Simulated, otel_metric_t

\* The short lists that are recorded.
LEMMA OneList ==
  ASSUME NEW S, NEW a \in S
  PROVE  <<a>> \in Seq(S) /\ Len(<<a>>) = 1 /\ Elements(<<a>>) = {a}
BY DEF Elements

LEMMA ThreeList ==
  ASSUME NEW S, NEW a \in S, NEW b \in S, NEW c \in S
  PROVE  /\ <<a, b, c>> \in Seq(S) /\ Len(<<a, b, c>>) = 3
         /\ Elements(<<a, b, c>>) = {a, b, c}
BY DEF Elements

LEMMA FourList ==
  ASSUME NEW S, NEW a \in S, NEW b \in S, NEW c \in S, NEW d \in S
  PROVE  /\ <<a, b, c, d>> \in Seq(S) /\ Len(<<a, b, c, d>>) = 4
         /\ Elements(<<a, b, c, d>>) = {a, b, c, d}
BY DEF Elements

LEMMA EmptyList ==
  ASSUME NEW S
  PROVE  <<>> \in Seq(S) /\ Len(<<>>) = 0 /\ Elements(<<>>) = {}
<1>1. <<>> \in Seq(S) /\ Len(<<>>) = 0
  BY EmptySeq
<1>2. DOMAIN <<>> = {}
  OBVIOUS
<1>3. QED BY <1>1, <1>2 DEF Elements

\* Recording keeps to the array, and adds nothing but what is recorded.
LEMMA RecordArray ==
  ASSUME NEW S, NEW a \in Seq(S), NEW s \in Seq(S), Len(a) <= MaxMetrics
  PROVE  LET r == otel_record_metric(a, s)
         IN  /\ r \in Seq(S) /\ Len(r) <= MaxMetrics
             /\ Len(r) <= Len(a) + Len(s)
             /\ Elements(r) \subseteq Elements(a) \cup Elements(s)
<1> DEFINE all == a \o s
           r == otel_record_metric(a, s)
<1>1. /\ all \in Seq(S) /\ Len(all) = Len(a) + Len(s)
      /\ \A i \in 1..Len(all) : all[i] = IF i <= Len(a) THEN a[i] ELSE s[i - Len(a)]
  BY ConcatProperties
<1>2. /\ Len(a) \in Nat /\ Len(s) \in Nat /\ Len(all) \in Nat
      /\ DOMAIN a = 1..Len(a) /\ DOMAIN s = 1..Len(s) /\ DOMAIN all = 1..Len(all)
  BY <1>1, LenProperties
<1>3. Elements(all) \subseteq Elements(a) \cup Elements(s)
  <2> SUFFICES ASSUME NEW i \in 1..Len(all)
               PROVE  all[i] \in Elements(a) \cup Elements(s)
    BY <1>2 DEF Elements
  <2>1. CASE i <= Len(a)
    <3>1. i \in DOMAIN a /\ all[i] = a[i]
      BY <1>1, <1>2, <2>1
    <3>2. QED BY <3>1 DEF Elements
  <2>2. CASE ~(i <= Len(a))
    <3>1. i - Len(a) \in DOMAIN s /\ all[i] = s[i - Len(a)]
      BY <1>1, <1>2, <2>2
    <3>2. QED BY <3>1 DEF Elements
  <2>3. QED BY <2>1, <2>2
<1>4. CASE Len(all) <= MaxMetrics
  <2>1. r = all
    BY <1>4 DEF otel_record_metric
  <2>2. QED BY <1>1, <1>3, <1>4, <2>1
<1>5. CASE ~(Len(all) <= MaxMetrics)
  <2>1. r = SubSeq(all, 1, MaxMetrics)
    BY <1>5 DEF otel_record_metric
  <2>2. MaxMetrics \in Nat /\ MaxMetrics >= 1 /\ MaxMetrics < Len(all)
    BY <1>2, <1>5, OtelAssumption
  <2>3. \A i \in 1..MaxMetrics : all[i] \in S
    BY <1>1, <2>2, ElementOfSeq
  <2>4. /\ r \in Seq(S) /\ Len(r) = MaxMetrics
        /\ \A i \in 1..MaxMetrics : r[i] = all[i]
    BY <2>1, <2>2, <2>3, SubSeqProperties
  <2>5. Elements(r) \subseteq Elements(all)
    <3>1. DOMAIN r = 1..MaxMetrics
      BY <2>4, LenProperties
    <3>2. 1..MaxMetrics \subseteq DOMAIN all
      BY <1>2, <2>2
    <3>3. QED BY <2>4, <3>1, <3>2 DEF Elements
  <2>6. QED BY <1>1, <1>2, <1>3, <2>2, <2>4, <2>5
<1>6. QED BY <1>4, <1>5

SpanArray(a) == a \in Seq(otel_span_t) /\ Len(a) <= MaxSpans

LEMMA StartSpan ==
  ASSUME TypeOK, NEW a, SpanArray(a), NEW op \in Operations
  PROVE  SpanArray(otel_start_span(a, op))
<1> DEFINE e == [operation |-> op, round |-> round, ended |-> FALSE]
<1>1. e \in otel_span_t
  BY DEF TypeOK, otel_span_t
<1>2. Append(a, e) \in Seq(otel_span_t) /\ Len(Append(a, e)) = Len(a) + 1
  BY <1>1, AppendProperties DEF SpanArray
<1>3. Len(a) \in Nat
  BY LenProperties DEF SpanArray
<1>4. QED BY <1>2, <1>3, OtelAssumption DEF SpanArray, otel_start_span

LEMMA EndSpan ==
  ASSUME NEW a, SpanArray(a)
  PROVE  SpanArray(otel_end_span(a))
<1>1. CASE a = <<>>
  BY <1>1 DEF otel_end_span
<1>2. CASE a # <<>>
  <2>1. Len(a) \in 1..Len(a) /\ a[Len(a)] \in otel_span_t
    BY <1>2, EmptySeq, ElementOfSeq DEF SpanArray
  <2>2. DEFINE e == [a[Len(a)] EXCEPT !.ended = TRUE]
  <2>3. e \in otel_span_t
    BY <2>1 DEF otel_span_t
  <2>4. otel_end_span(a) = [a EXCEPT ![Len(a)] = e]
    BY <1>2 DEF otel_end_span
  <2>5. QED BY <2>1, <2>3, <2>4, ExceptSeq DEF SpanArray
<1>3. QED BY <1>1, <1>2

-----------------------------------------------------------------------------
(* One step records. *)

\* m was read, or made up, in this round, as the connection has it.
Current(m) ==
  /\ m \in otel_metric_t /\ m.round = round
  /\ m.name # "connection" => (m.simulated <=> db_conn' = "null")

Recordable(s) ==
  /\ s \in Seq(otel_metric_t)
  /\ \A m \in Elements(s) : Current(m)

LEMMA RecordableLists ==
  ASSUME NEW a, NEW b, NEW c, NEW d, Current(a)
  PROVE  /\ Recordable(<<>>) /\ Recordable(<<a>>)
         /\ Current(b) /\ Current(c) => Recordable(<<a, b, c>>)
         /\ Current(b) /\ Current(c) /\ Current(d) => Recordable(<<a, b, c, d>>)
<1>1. \A m : Current(m) => m \in otel_metric_t
  BY DEF Current
<1>2. Recordable(<<>>)
  BY EmptyList DEF Recordable
<1>3. <<a>> \in Seq(otel_metric_t) /\ Elements(<<a>>) = {a}
  BY <1>1, OneList
<1>4. Recordable(<<a>>)
  BY <1>3 DEF Recordable
<1>5. ASSUME Current(b), Current(c) PROVE Recordable(<<a, b, c>>)
  <2>1. <<a, b, c>> \in Seq(otel_metric_t) /\ Elements(<<a, b, c>>) = {a, b, c}
    BY <1>1, <1>5, ThreeList
  <2>2. QED BY <1>5, <2>1 DEF Recordable
<1>6. ASSUME Current(b), Current(c), Current(d) PROVE Recordable(<<a, b, c, d>>)
  <2>1. /\ <<a, b, c, d>> \in Seq(otel_metric_t)
        /\ Elements(<<a, b, c, d>>) = {a, b, c, d}
    BY <1>1, <1>6, FourList
  <2>2. QED BY <1>6, <2>1 DEF Recordable
<1>7. QED BY <1>2, <1>4, <1>5, <1>6

LEMMA RecordStep ==
  ASSUME IInv, NEW s, Recordable(s), Record(s),
         pc # "sleep", pc' \in {"collect", "cache", "export"},
         SpanArray(spans'), db_conn' \in {"null", "open"},
         pc # "connect" => db_conn' = db_conn,
         pc' = "cache" => db_conn' = "open",
         UNCHANGED <<round, received>>
  PROVE  IInv'
<1>1. /\ metrics' \in Seq(otel_metric_t) /\ Len(metrics') <= MaxMetrics
      /\ Batch' \subseteq Batch \cup Elements(s)
  <2>1. metrics \in Seq(otel_metric_t) /\ Len(metrics) <= MaxMetrics
    BY DEF IInv, TypeOK
  <2>2. s \in Seq(otel_metric_t)
    BY DEF Recordable
  <2>3. metrics' = otel_record_metric(metrics, s)
    BY DEF Record
  <2>4. Batch = Elements(metrics) /\ Batch' = Elements(metrics')
    BY DEF Batch, Elements
  <2>5. QED BY <2>1, <2>2, <2>3, <2>4, RecordArray
<1>2. TypeOK'
  BY <1>1 DEF IInv, TypeOK, Record, SpanArray
<1>3. \A m \in Elements(s) : m \in otel_metric_t
  BY DEF Recordable, Current
<1>4. received \cap Elements(s) = {}
  <2> SUFFICES ASSUME NEW m \in received, m \in Elements(s) PROVE FALSE
    OBVIOUS
  <2>1. m.round < round /\ m.round = round
    BY DEF IInv, RoundInv, Recordable, Current
  <2>2. QED BY <2>1 DEF IInv, TypeOK
<1>5. RoundInv'
  <2>1. \A m \in Batch' : m.round <= round
    <3>1. \A m \in Elements(s) : m.round <= round
      BY DEF Recordable, Current, IInv, TypeOK
    <3>2. QED BY <1>1, <3>1 DEF IInv, RoundInv
  <2>2. QED BY <1>1, <1>4, <2>1 DEF IInv, RoundInv
<1>6. SourceInv'
  <2>1. CASE pc = "connect"
    <3>1. received' = {} /\ Batch = {}
      BY <2>1 DEF IInv, SourceInv, Batch
    <3>2. QED BY <1>1, <3>1 DEF Recordable, Current, SourceInv
  <2>2. CASE pc # "connect"
    BY <1>1, <2>2 DEF Recordable, Current, IInv, SourceInv
  <2>3. QED BY <2>1, <2>2
<1>7. AtMostOnce'
  BY DEF IInv, AtMostOnce, Record
<1>8. QED BY <1>2, <1>5, <1>6, <1>7 DEF IInv

-----------------------------------------------------------------------------
(* The invariant. *)

LEMMA InitInv == Init => IInv
<1> SUFFICES ASSUME Init PROVE IInv
  OBVIOUS
<1>1. Batch = {}
  BY DEF Init, Batch
<1>2. TypeOK
  <2>1. /\ metrics \in Seq(otel_metric_t) /\ spans \in Seq(otel_span_t)
        /\ Len(metrics) = 0 /\ Len(spans) = 0
    BY EmptySeq DEF Init
  <2>2. Len(metrics) <= MaxMetrics /\ Len(spans) <= MaxSpans /\ round \in 0..MaxRound
    BY <2>1, OtelAssumption DEF Init
  <2>3. received \subseteq otel_metric_t
    BY DEF Init
  <2>4. QED BY <2>1, <2>2, <2>3 DEF Init, TypeOK
<1>3. QED BY <1>1, <1>2 DEF Init, IInv, AtMostOnce, RoundInv, SourceInv

LEMMA StepInv == IInv /\ [Next]_vars => IInv'
<1> SUFFICES ASSUME IInv, [Next]_vars PROVE IInv'
  OBVIOUS
<1>1. TypeOK /\ SpanArray(spans)
  BY DEF IInv, TypeOK, SpanArray
<1>2. \A n \in Names : /\ db_conn' = "open" \/ n = "connection" => Current(Measured(n))
                       /\ db_conn' = "null" => Current(Simulated(n))
  <2>1. \A n \in Names : /\ Measured(n) \in otel_metric_t /\ Simulated(n) \in otel_metric_t
                         /\ Measured(n).round = round /\ Simulated(n).round = round
                         /\ ~Measured(n).simulated /\ Simulated(n).simulated
                         /\ Measured(n).name = n
    BY <1>1, MeasuredType DEF Measured, Simulated
  <2>2. QED BY <2>1 DEF Current
<1>3. \A op \in Operations : SpanArray(otel_start_span(spans, op))
  BY <1>1, StartSpan
<1>4. CASE connect_postgresql
  <2>1. Recordable(<<Measured("connection")>>)
    BY <1>2, RecordableLists DEF Names
  <2>2. SpanArray(spans')
    BY <1>3, <1>4, EndSpan DEF connect_postgresql, Operations
  <2>3. QED BY <1>4, <2>1, <2>2, RecordStep DEF connect_postgresql
<1>5. CASE collect_simulated
  <2>1. db_conn' = "null"
    BY <1>5 DEF collect_simulated
  <2>2. Recordable(<<Simulated("active"), Simulated("idle"),
                     Simulated("hit_ratio"), Simulated("slow")>>)
    BY <1>2, <2>1, RecordableLists DEF Names
  <2>3. SpanArray(spans')
    BY <1>3, <1>5, EndSpan DEF collect_simulated, Operations
  <2>4. QED BY <1>5, <2>1, <2>2, <2>3, RecordStep DEF collect_simulated
<1>6. CASE query_connections
  <2>1. db_conn' = "open" /\ db_conn = "open"
    BY <1>6 DEF query_connections
  <2>2. /\ Recordable(<<Measured("active"), Measured("idle"), Measured("total")>>)
        /\ Recordable(<<>>)
    BY <1>2, <2>1, RecordableLists DEF Names
  <2>3. SpanArray(spans')
    BY <1>1, <1>3, <1>6, StartSpan, EndSpan DEF query_connections, Operations
  <2>4. QED BY <1>6, <2>1, <2>2, <2>3, RecordStep DEF query_connections
<1>7. CASE query_cache_stats
  <2>1. db_conn' = "open" /\ db_conn = "open"
    BY <1>7 DEF query_cache_stats, IInv, SourceInv
  <2>2. Recordable(<<Measured("hit_ratio")>>) /\ Recordable(<<>>)
    BY <1>2, <2>1, RecordableLists DEF Names
  <2>3. SpanArray(spans')
    BY <1>3, <1>7, EndSpan DEF query_cache_stats, Operations
  <2>4. QED BY <1>7, <2>1, <2>2, <2>3, RecordStep DEF query_cache_stats
<1>8. CASE export_unset
  BY <1>8 DEF export_unset, FrameExport, IInv, TypeOK, AtMostOnce, RoundInv,
     SourceInv, Batch
\* what is pushed was not received before, and is then forgotten
<1>9. CASE otel_export_metrics
  <2>1. Batch' = {} /\ metrics' = <<>>
    BY <1>9 DEF otel_export_metrics, Batch
  <2>2. Batch \subseteq otel_metric_t
    BY ElementOfSeq, LenProperties DEF IInv, TypeOK, Batch
  <2>3. received' = received \/ received' = received \cup Batch
    BY <1>9 DEF otel_export_metrics, Deliver
  <2>4. ~twice'
    BY <1>9 DEF otel_export_metrics, Deliver, IInv, AtMostOnce, RoundInv
  <2>5. TypeOK'
    <3>1. metrics' \in Seq(otel_metric_t) /\ Len(metrics') <= MaxMetrics
      BY <2>1, EmptySeq, OtelAssumption
    <3>2. received' \subseteq otel_metric_t
      BY <2>2, <2>3 DEF IInv, TypeOK
    <3>3. pc' = "sleep" /\ UNCHANGED <<round, db_conn, spans, dropped, unset>>
      BY <1>9 DEF otel_export_metrics, FrameExport
    <3>4. twice' \in BOOLEAN
      BY <1>9 DEF otel_export_metrics, Deliver, IInv, TypeOK
    <3>5. QED BY <3>1, <3>2, <3>3, <3>4 DEF IInv, TypeOK
  <2>6. RoundInv'
    BY <1>9, <2>1, <2>3 DEF otel_export_metrics, FrameExport, IInv, RoundInv
  <2>7. SourceInv'
    BY <1>9, <2>1, <2>3 DEF otel_export_metrics, FrameExport, IInv, SourceInv
  <2>8. QED BY <2>4, <2>5, <2>6, <2>7 DEF IInv, AtMostOnce
<1>10. CASE sleep
  <2>1. round' \in 0..MaxRound /\ \A n \in Nat : n <= round => n < round'
    BY <1>10, OtelAssumption DEF sleep, IInv, TypeOK
  <2>2. \A m \in received \cup Batch : m.round \in Nat
    <3>1. Batch \subseteq otel_metric_t
      BY ElementOfSeq, LenProperties DEF IInv, TypeOK, Batch
    <3>2. \A m \in otel_metric_t : m.round \in 0..MaxRound
      BY DEF otel_metric_t
    <3>3. QED BY <3>1, <3>2, OtelAssumption DEF IInv, TypeOK
  <2>3. TypeOK' /\ AtMostOnce'
    BY <1>10, <2>1 DEF sleep, history, IInv, TypeOK, AtMostOnce
  <2>4. RoundInv'
    BY <1>10, <2>1, <2>2 DEF sleep, history, IInv, TypeOK, RoundInv, Batch
  <2>5. SourceInv'
    BY <1>10 DEF sleep, history, IInv, SourceInv, Batch
  <2>6. QED BY <2>3, <2>4, <2>5 DEF IInv
<1>11. CASE Bound \/ UNCHANGED vars
  BY <1>11 DEF Bound, vars, history, IInv, TypeOK, AtMostOnce, RoundInv, SourceInv, Batch
<1>12. QED
  BY <1>4, <1>5, <1>6, <1>7, <1>8, <1>9, <1>10, <1>11 DEF Next

(***************************************************************************)
(* The inductive invariant holds in every reachable state.                 *)
(***************************************************************************)
THEOREM Invariance == Spec => []IInv
BY InitInv, StepInv, PTL DEF Spec

(***************************************************************************)
(* Every variable keeps its type: the arrays never grow beyond their size, *)
(* whatever it is and however long nothing is sent.                        *)
(***************************************************************************)
THEOREM TypeCorrect == Spec => []TypeOK
<1>1. IInv => TypeOK
  BY DEF IInv
<1>2. QED BY <1>1, Invariance, PTL

(***************************************************************************)
(* A push that timed out and was received is not pushed again.             *)
(***************************************************************************)
THEOREM ReceivedOnce == Spec => []AtMostOnce
<1>1. IInv => AtMostOnce
  BY DEF IInv
<1>2. QED BY <1>1, Invariance, PTL

(***************************************************************************)
(* One process sends made-up values only, or measured values only.         *)
(***************************************************************************)
THEOREM OneSource == Spec => []SourcesNeverMix
<1>1. IInv => SourcesNeverMix
  BY DEF IInv, TypeOK, SourceInv, SourcesNeverMix, otel_metric_t
<1>2. QED BY <1>1, Invariance, PTL

-----------------------------------------------------------------------------
(* Room in the metrics array. *)

\* What recording n metrics does to the room.
LEMMA RecordRoom ==
  ASSUME TypeOK, RoomInv, NEW s \in Seq(otel_metric_t), Record(s),
         Room[pc] + Len(s) <= Room[pc'], Room[pc'] <= MaxMetrics,
         Room[pc] \in Nat, Room[pc'] \in Nat
  PROVE  RoomInv'
<1>1. Len(metrics') <= Len(metrics) + Len(s)
  BY RecordArray DEF TypeOK, Record
<1>2. Len(metrics) \in Nat /\ Len(s) \in Nat /\ Len(metrics') \in Nat
  BY RecordArray, LenProperties DEF TypeOK, Record
<1>3. CASE unset
  BY <1>3 DEF RoomInv, Record
<1>4. CASE ~unset
  <2>1. Len(metrics) <= Room[pc] /\ ~dropped
    BY <1>4 DEF RoomInv
  <2>2. Len(metrics) + Len(s) <= Room[pc'] /\ Len(metrics) + Len(s) <= MaxMetrics
    BY <1>2, <2>1, OtelAssumption
  <2>3. ~(Len(metrics) + Len(s) > MaxMetrics)
    BY <1>2, <2>2, OtelAssumption
  <2>4. ~dropped'
    BY <2>1, <2>3 DEF Record
  <2>5. QED BY <1>1, <1>2, <2>2, <2>4 DEF RoomInv
<1>5. QED BY <1>3, <1>4

(***************************************************************************)
(* An array for five metrics (it has 100) never overflows, however many    *)
(* pushes fail, unless curl could not be set up.                           *)
(***************************************************************************)
THEOREM RoomForOutages ==
  ASSUME MaxMetrics >= 5
  PROVE  Spec => []OutageNeverDrops
<1> USE OtelAssumption
<1>1. Init => RoomInv
  BY DEF Init, RoomInv, Room
<1>2. IInv /\ RoomInv /\ [Next]_vars => RoomInv'
  <2> SUFFICES ASSUME IInv, RoomInv, [Next]_vars PROVE RoomInv'
    OBVIOUS
  <2>1. TypeOK /\ \A n \in Names : /\ Measured(n) \in otel_metric_t
                                   /\ Simulated(n) \in otel_metric_t
    BY MeasuredType DEF IInv
  <2>2. CASE connect_postgresql
    <3> DEFINE s == <<Measured("connection")>>
    <3>1. s \in Seq(otel_metric_t) /\ Len(s) = 1
      BY <2>1, OneList DEF Names
    <3>2. Room[pc] = 0 /\ Room[pc'] = 1 /\ Record(s)
      BY <2>2 DEF connect_postgresql, Room
    <3> HIDE DEF s
    <3>3. /\ Room[pc] + Len(s) <= Room[pc'] /\ Room[pc'] <= MaxMetrics
          /\ Room[pc] \in Nat /\ Room[pc'] \in Nat
      BY <3>1, <3>2
    <3>4. QED BY <2>1, <3>1, <3>2, <3>3, RecordRoom
  <2>3. CASE collect_simulated
    <3> DEFINE s == <<Simulated("active"), Simulated("idle"),
                      Simulated("hit_ratio"), Simulated("slow")>>
    <3>1. s \in Seq(otel_metric_t) /\ Len(s) = 4
      BY <2>1, FourList DEF Names
    <3>2. Room[pc] = 1 /\ Room[pc'] = 5 /\ Record(s)
      BY <2>3 DEF collect_simulated, Room
    <3> HIDE DEF s
    <3>3. /\ Room[pc] + Len(s) <= Room[pc'] /\ Room[pc'] <= MaxMetrics
          /\ Room[pc] \in Nat /\ Room[pc'] \in Nat
      BY <3>1, <3>2
    <3>4. QED BY <2>1, <3>1, <3>2, <3>3, RecordRoom
  <2>4. CASE query_connections
    <3> DEFINE s == <<Measured("active"), Measured("idle"), Measured("total")>>
    <3>1. s \in Seq(otel_metric_t) /\ Len(s) = 3
      BY <2>1, ThreeList DEF Names
    <3>2. Room[pc] = 1 /\ Room[pc'] = 4
      BY <2>4 DEF query_connections, Room
    <3>3. PICK r \in {s, <<>>} : Record(r)
      BY <2>4 DEF query_connections
    <3> HIDE DEF s
    <3>4. r \in Seq(otel_metric_t) /\ (Len(r) = 3 \/ Len(r) = 0)
      <4>1. CASE r = s
        BY <3>1, <4>1
      <4>2. CASE r = <<>>
        BY <4>2, EmptyList
      <4>3. QED BY <3>3, <4>1, <4>2
    <3>5. /\ Room[pc] + Len(r) <= Room[pc'] /\ Room[pc'] <= MaxMetrics
          /\ Room[pc] \in Nat /\ Room[pc'] \in Nat
      <4>1. CASE Len(r) = 3
        BY <3>2, <4>1
      <4>2. CASE Len(r) = 0
        BY <3>2, <4>2
      <4>3. QED BY <3>4, <4>1, <4>2
    <3>6. QED BY <2>1, <3>3, <3>4, <3>5, RecordRoom
  <2>5. CASE query_cache_stats
    <3> DEFINE s == <<Measured("hit_ratio")>>
    <3>1. s \in Seq(otel_metric_t) /\ Len(s) = 1
      BY <2>1, OneList DEF Names
    <3>2. Room[pc] = 4 /\ Room[pc'] = 5
      BY <2>5 DEF query_cache_stats, Room
    <3>3. PICK r \in {s, <<>>} : Record(r)
      BY <2>5 DEF query_cache_stats
    <3> HIDE DEF s
    <3>4. r \in Seq(otel_metric_t) /\ (Len(r) = 1 \/ Len(r) = 0)
      <4>1. CASE r = s
        BY <3>1, <4>1
      <4>2. CASE r = <<>>
        BY <4>2, EmptyList
      <4>3. QED BY <3>3, <4>1, <4>2
    <3>5. /\ Room[pc] + Len(r) <= Room[pc'] /\ Room[pc'] <= MaxMetrics
          /\ Room[pc] \in Nat /\ Room[pc'] \in Nat
      <4>1. CASE Len(r) = 1
        BY <3>2, <4>1
      <4>2. CASE Len(r) = 0
        BY <3>2, <4>2
      <4>3. QED BY <3>4, <4>1, <4>2
    <3>6. QED BY <2>1, <3>3, <3>4, <3>5, RecordRoom
  <2>6. CASE export_unset
    BY <2>6 DEF export_unset, RoomInv
  <2>7. CASE otel_export_metrics
    BY <2>7, EmptySeq DEF otel_export_metrics, FrameExport, RoomInv, Room
  <2>8. CASE sleep
    BY <2>1, <2>8, LenProperties DEF sleep, history, RoomInv, Room, TypeOK
  <2>9. CASE Bound \/ UNCHANGED vars
    BY <2>9 DEF Bound, vars, history, RoomInv
  <2>10. QED
    BY <2>2, <2>3, <2>4, <2>5, <2>6, <2>7, <2>8, <2>9 DEF Next
<1>3. RoomInv => OutageNeverDrops
  BY DEF RoomInv, OutageNeverDrops
<1>4. QED BY <1>1, <1>2, <1>3, Invariance, PTL DEF Spec
=============================================================================
