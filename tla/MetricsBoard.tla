---------------------------- MODULE MetricsBoard ----------------------------
(***************************************************************************)
(* What the multi-tenant C collector promises to whoever scrapes it, with  *)
(* its threads, its mutex and its PostgreSQL connections left out: a board *)
(* holding one entry per tenant, replaced as a whole by each finished      *)
(* collection, and a reply that is the board at one instant.               *)
(* Collector implements this module (Collector!ImplementsBoard).           *)
(***************************************************************************)
EXTENDS Naturals

CONSTANTS Tenants,   \* the monitored databases
          Queries,   \* the statistics read for each of them
          Fallback,  \* the statistics with an estimate
          MaxRound,  \* collections are numbered 1..MaxRound, then 1 again
          None       \* no reply is being given

VARIABLES published, reply
vars == <<published, reply>>

(***************************************************************************)
(* What one finished collection leaves: every statistic is either the      *)
(* value read in that very collection or, for a query that failed, its     *)
(* estimate if it has one and 0 if not.                                    *)
(***************************************************************************)
Estimate == MaxRound + 1
Failed(q) == IF q \in Fallback THEN Estimate ELSE 0

OfRound(n) ==
  {m \in [up : {TRUE}, val : [Queries -> {0, n, Estimate}]] :
     \A q \in Queries : m.val[q] \in {n, Failed(q)}}

Blank == [up |-> FALSE, val |-> [q \in Queries |-> 0]]

Init == /\ published = [t \in Tenants |-> Blank]
        /\ reply = None

\* A collection of t ends.  No step takes an entry's "up" back to FALSE.
Publish(t) ==
  /\ \E n \in 1..MaxRound : \E m \in OfRound(n) :
        published' = [published EXCEPT ![t] = m]
  /\ UNCHANGED reply

\* A scrape is answered with the whole board of this instant.
Scrape == /\ reply' = published
          /\ UNCHANGED published

Delivered == /\ reply' = None
             /\ UNCHANGED published

Next == (\E t \in Tenants : Publish(t)) \/ Scrape \/ Delivered

Spec == Init /\ [][Next]_vars
=============================================================================
