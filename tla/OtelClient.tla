----------------------------- MODULE OtelClient -----------------------------
(***************************************************************************)
(* monitoring/collector-c-otel/main.c: one thread that connects once, then *)
(* for ever collects, pushes the batch to the OpenTelemetry collector and  *)
(* sleeps.  Its metrics and spans are arrays of fixed size; recording into *)
(* a full one does nothing.  The batch is emptied after every push, sent   *)
(* or not, unless curl could not even be set up.                           *)
(*                                                                         *)
(* A metric is its name, the cycle that recorded it and whether its value  *)
(* was made up.  The push may fail with the batch not received, or with    *)
(* the batch received and the answer lost or late (CURLOPT_TIMEOUT).       *)
(***************************************************************************)
EXTENDS Naturals, Sequences

CONSTANTS MaxMetrics,  \* otel_ctx.metrics: 100
          MaxSpans,    \* otel_ctx.spans: 50
          MaxRound     \* bound: the number of cycles modelled

ASSUME OtelAssumption == /\ MaxMetrics \in Nat \ {0} /\ MaxSpans \in Nat \ {0}
                         /\ MaxRound \in Nat \ {0}

VARIABLES pc, round,
          db_conn,      \* "null" or "open"; an open one may fail at any query
          metrics,      \* otel_ctx.metrics, up to metric_count
          spans,        \* otel_ctx.spans, up to span_count
          received,     \* external: what the OpenTelemetry collector has got
          twice, dropped, unset   \* history: something was received again,
                                  \* found the array full; curl was not set up
history == <<twice, dropped, unset>>
vars == <<pc, round, db_conn, metrics, spans, received, history>>

Names == {"connection", "active", "idle", "total", "hit_ratio", "slow"}
otel_metric_t == [name : Names, round : 0..MaxRound, simulated : BOOLEAN]
Operations == {"connect", "collection", "connections", "cache_stats"}
otel_span_t == [operation : Operations, round : 0..MaxRound, ended : BOOLEAN]

Init == /\ pc = "connect" /\ round = 0 /\ db_conn = "null"
        /\ metrics = <<>> /\ spans = <<>> /\ received = {}
        /\ twice = FALSE /\ dropped = FALSE /\ unset = FALSE

-----------------------------------------------------------------------------
(* The SDK functions, on an array a. *)

otel_record_metric(a, s) ==
  LET all == a \o s
  IN  IF Len(all) <= MaxMetrics THEN all ELSE SubSeq(all, 1, MaxMetrics)

Measured(n) == [name |-> n, round |-> round, simulated |-> FALSE]
Simulated(n) == [name |-> n, round |-> round, simulated |-> TRUE]

Record(s) == /\ metrics' = otel_record_metric(metrics, s)
             /\ dropped' = (dropped \/ Len(metrics) + Len(s) > MaxMetrics)
             /\ UNCHANGED <<twice, unset>>

\* Mutant: no look at span_count.
otel_start_span_Unchecked(a, op) ==
  Append(a, [operation |-> op, round |-> round, ended |-> FALSE])

otel_start_span(a, op) ==
  IF Len(a) >= MaxSpans THEN a
  ELSE Append(a, [operation |-> op, round |-> round, ended |-> FALSE])

\* it ends the span started last, whichever that is
otel_end_span(a) == IF a = <<>> THEN a ELSE [a EXCEPT ![Len(a)].ended = TRUE]

-----------------------------------------------------------------------------
connect_postgresql ==
  /\ pc = "connect" /\ pc' = "collect"
  /\ db_conn' \in {"null", "open"}
  /\ spans' = otel_end_span(otel_start_span(spans, "connect"))
  /\ Record(<<Measured("connection")>>)
  /\ UNCHANGED <<round, received>>

\* without a connection the values are made up, and no query is run
collect_simulated ==
  /\ pc = "collect" /\ db_conn = "null" /\ pc' = "export"
  /\ spans' = otel_end_span(otel_start_span(spans, "collection"))
  /\ Record(<<Simulated("active"), Simulated("idle"),
              Simulated("hit_ratio"), Simulated("slow")>>)
  /\ UNCHANGED <<round, db_conn, received>>

query_connections ==
  /\ pc = "collect" /\ db_conn = "open" /\ pc' = "cache"
  /\ spans' = otel_end_span(otel_start_span(otel_start_span(spans, "collection"),
                                            "connections"))
  /\ \/ Record(<<Measured("active"), Measured("idle"), Measured("total")>>)
     \/ Record(<<>>)
  /\ UNCHANGED <<round, db_conn, received>>

\* Mutant: a failed query falls back to the made-up value.
query_cache_stats_Fallback ==
  /\ pc = "cache" /\ pc' = "export"
  /\ spans' = otel_end_span(otel_end_span(otel_start_span(spans, "cache_stats")))
  /\ Record(<<Measured("hit_ratio")>>) \/ Record(<<Simulated("hit_ratio")>>)
  /\ UNCHANGED <<round, db_conn, received>>

\* with a second otel_end_span(), meant for metrics.collection
query_cache_stats ==
  /\ pc = "cache" /\ pc' = "export"
  /\ spans' = otel_end_span(otel_end_span(otel_start_span(spans, "cache_stats")))
  /\ Record(<<Measured("hit_ratio")>>) \/ Record(<<>>)
  /\ UNCHANGED <<round, db_conn, received>>

Batch == {metrics[n] : n \in DOMAIN metrics}
Deliver == /\ received' = received \cup Batch
           /\ twice' = (twice \/ received \cap Batch # {})
FrameExport == UNCHANGED <<round, db_conn, spans, dropped>>

\* curl_easy_init failed: nothing is sent, nothing is reset
export_unset ==
  /\ pc = "export" /\ pc' = "sleep"
  /\ unset' = TRUE
  /\ UNCHANGED <<metrics, received, twice>>
  /\ FrameExport

\* Mutant: an unsuccessful push keeps its batch, to send it again.
otel_export_metrics_Keep ==
  /\ pc = "export" /\ pc' = "sleep"
  /\ \/ Deliver /\ metrics' \in {<<>>, metrics}
     \/ UNCHANGED <<received, twice, metrics>>
  /\ UNCHANGED unset
  /\ FrameExport

\* Mutant: metric_count = 0 is missing.
otel_export_metrics_NoReset ==
  /\ pc = "export" /\ pc' = "sleep"
  /\ Deliver \/ UNCHANGED <<received, twice>>
  /\ UNCHANGED <<metrics, unset>>
  /\ FrameExport

\* received or not, whatever curl says of it, the batch is gone
otel_export_metrics ==
  /\ pc = "export" /\ pc' = "sleep"
  /\ Deliver \/ UNCHANGED <<received, twice>>
  /\ metrics' = <<>>
  /\ UNCHANGED unset
  /\ FrameExport

sleep ==
  /\ pc = "sleep" /\ round < MaxRound
  /\ pc' = "collect" /\ round' = round + 1
  /\ UNCHANGED <<db_conn, metrics, spans, received, history>>

Bound == pc = "sleep" /\ round = MaxRound /\ UNCHANGED vars

Next == \/ connect_postgresql \/ collect_simulated \/ query_connections
        \/ query_cache_stats \/ export_unset \/ otel_export_metrics \/ sleep
        \/ Bound

Spec == Init /\ [][Next]_vars

-----------------------------------------------------------------------------
(* Properties. *)

\* Every variable keeps its type, and the arrays their bounds.
TypeOK ==
  /\ pc \in {"connect", "collect", "cache", "export", "sleep"}
  /\ round \in 0..MaxRound
  /\ db_conn \in {"null", "open"}
  /\ metrics \in Seq(otel_metric_t) /\ Len(metrics) <= MaxMetrics
  /\ spans \in Seq(otel_span_t) /\ Len(spans) <= MaxSpans
  /\ received \subseteq otel_metric_t
  /\ twice \in BOOLEAN /\ dropped \in BOOLEAN /\ unset \in BOOLEAN

(***************************************************************************)
(* No metric reaches the OpenTelemetry collector twice, although a push    *)
(* that timed out may have been received.                                  *)
(***************************************************************************)
AtMostOnce == ~twice

(***************************************************************************)
(* An outage of the OpenTelemetry collector, however long, never fills the *)
(* metrics array: only a curl that cannot be set up does.                  *)
(***************************************************************************)
OutageNeverDrops == dropped => unset

(***************************************************************************)
(* Made-up and measured values never reach the collector from one process: *)
(* whether they are made up is settled by the one connection attempt.      *)
(***************************************************************************)
SourcesNeverMix ==
  \A m, n \in received : m.name # "connection" /\ n.name # "connection"
                            => m.simulated = n.simulated
=============================================================================
