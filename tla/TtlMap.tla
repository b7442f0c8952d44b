------------------------------- MODULE TtlMap -------------------------------
(***************************************************************************)
(* What pkg/metrics/cache.go promises to its callers, with the sweeper and *)
(* the lock left out: a value is there from its Set until it is TTL old or *)
(* replaced, and at no other time.  TtlCache implements this module.       *)
(***************************************************************************)
EXTENDS Naturals

CONSTANTS Keys, Values,
          TTL,     \* config.TTL in clock units
          Absent   \* no value: what a failed Get returns

VARIABLES live,  \* the entry of each key, Absent when there is none
          got    \* the result of the last Get
vars == <<live, got>>

Init == live = [k \in Keys |-> Absent] /\ got = Absent

Set(k, v) == /\ live' = [live EXCEPT ![k] = [val |-> v, age |-> 0]]
             /\ UNCHANGED got

Get(k) == /\ got' = IF live[k] = Absent THEN Absent ELSE live[k].val
          /\ UNCHANGED live

Older(e) == IF e = Absent \/ e.age >= TTL THEN Absent
            ELSE [val |-> e.val, age |-> e.age + 1]

Pass == /\ live' = [k \in Keys |-> Older(live[k])]
        /\ UNCHANGED got

Next == \/ \E k \in Keys : Get(k) \/ \E v \in Values : Set(k, v)
        \/ Pass

Spec == Init /\ [][Next]_vars
=============================================================================
