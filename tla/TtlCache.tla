------------------------------ MODULE TtlCache ------------------------------
(***************************************************************************)
(* pkg/metrics/cache.go: a map with a time to live, swept by a goroutine.  *)
(* Time is relative: an entry carries its age, so that time.Now().After(   *)
(* ExpiresAt) reads age > TTL.  Ages stop at TTL + 1, and so the model is  *)
(* finite without a bound on the clock.  Get and Set hold the lock from    *)
(* start to end and are one step each; the sweep, which holds it over a    *)
(* whole iteration of the map while the clock goes on, is not.             *)
(***************************************************************************)
EXTENDS Naturals

CONSTANTS Keys, Values,
          TTL,              \* config.TTL
          CleanupInterval,  \* config.CleanupInterval, same clock
          Absent

ASSUME TtlAssumption ==
  /\ TTL \in Nat
  /\ CleanupInterval \in Nat \ {0}     \* time.NewTicker panics otherwise
  /\ Absent \notin Values
  /\ Absent \notin [val : Values, age : 0..TTL+1]

VARIABLES data,      \* c.data
          mutex,     \* c.mutex: "free", or "sweep" while the sweeper has it
          stop,      \* whether c.stop is closed
          pc,        \* the goroutine of cleanupExpired
          doomed,    \* keys the running sweep found expired, not yet deleted
          timer,     \* clock units until the ticker fires
          ticked,    \* a tick waits in ticker.C (capacity 1)
          panicked,  \* Close was called twice
          got        \* the result of the last Get
sweeper == <<pc, doomed, timer, ticked>>
vars == <<data, mutex, stop, sweeper, panicked, got>>

CacheItem == [val : Values, age : 0..TTL+1]
Expired(k) == data[k] # Absent /\ data[k].age > TTL

Init ==
  /\ data = [k \in Keys |-> Absent]
  /\ mutex = "free" /\ stop = FALSE /\ panicked = FALSE /\ got = Absent
  /\ pc = "select" /\ doomed = {} /\ timer = CleanupInterval /\ ticked = FALSE

-----------------------------------------------------------------------------
(* The callers.  Nothing forbids Get and Set after Close. *)

Set(k, v) ==
  /\ mutex = "free"
  /\ data' = [data EXCEPT ![k] = [val |-> v, age |-> 0]]
  /\ UNCHANGED <<mutex, stop, sweeper, panicked, got>>

Get(k) ==
  /\ mutex = "free"
  /\ got' = IF data[k] = Absent \/ Expired(k) THEN Absent ELSE data[k].val
  /\ UNCHANGED <<data, mutex, stop, sweeper, panicked>>

\* closing a closed channel panics, and the panic ends the program
Close ==
  /\ stop' = TRUE
  /\ panicked' = stop
  /\ UNCHANGED <<data, mutex, sweeper, got>>

-----------------------------------------------------------------------------
(* cleanupExpired. *)

\* select, case <-ticker.C.  When both cases are ready either may be taken.
SweepTick ==
  /\ pc = "select" /\ ticked
  /\ ticked' = FALSE
  /\ pc' = "lock"
  /\ UNCHANGED <<data, mutex, stop, doomed, timer, panicked, got>>

\* Mutant: break leaves the select, not the loop.
SweepStop_Break ==
  /\ pc = "select" /\ stop
  /\ pc' = "select"
  /\ UNCHANGED <<data, mutex, stop, doomed, timer, ticked, panicked, got>>

\* select, case <-c.stop
SweepStop ==
  /\ pc = "select" /\ stop
  /\ pc' = "stopped"
  /\ UNCHANGED <<data, mutex, stop, doomed, timer, ticked, panicked, got>>

\* Mutant: an entry expiring at this very instant is swept (!Before).
SweepLock_Early ==
  /\ pc = "lock" /\ mutex = "free"
  /\ mutex' = "sweep"
  /\ doomed' = {k \in Keys : data[k] # Absent /\ data[k].age >= TTL}
  /\ pc' = "sweep"
  /\ UNCHANGED <<data, stop, timer, ticked, panicked, got>>

\* now is read once: entries that expire during the sweep stay
SweepLock ==
  /\ pc = "lock" /\ mutex = "free"
  /\ mutex' = "sweep"
  /\ doomed' = {k \in Keys : Expired(k)}
  /\ pc' = "sweep"
  /\ UNCHANGED <<data, stop, timer, ticked, panicked, got>>

\* Mutant: the value is dropped, the entry stays.
SweepDelete_Nil ==
  /\ pc = "sweep"
  /\ \E k \in doomed : /\ data' = [data EXCEPT ![k].val = Absent]
                       /\ doomed' = doomed \ {k}
  /\ UNCHANGED <<mutex, stop, pc, timer, ticked, panicked, got>>

\* a map is iterated in any order
SweepDelete ==
  /\ pc = "sweep"
  /\ \E k \in doomed : /\ data' = [data EXCEPT ![k] = Absent]
                       /\ doomed' = doomed \ {k}
  /\ UNCHANGED <<mutex, stop, pc, timer, ticked, panicked, got>>

\* Mutant: the goroutine ends after its first sweep (no for).
SweepUnlock_Once ==
  /\ pc = "sweep" /\ doomed = {}
  /\ mutex' = "free"
  /\ pc' = "stopped"
  /\ UNCHANGED <<data, stop, doomed, timer, ticked, panicked, got>>

SweepUnlock ==
  /\ pc = "sweep" /\ doomed = {}
  /\ mutex' = "free"
  /\ pc' = "select"
  /\ UNCHANGED <<data, stop, doomed, timer, ticked, panicked, got>>

Sweeping == SweepLock \/ SweepDelete \/ SweepUnlock

-----------------------------------------------------------------------------
Older(e) == IF e = Absent \/ e.age > TTL THEN e
            ELSE [val |-> e.val, age |-> e.age + 1]

\* the clock; a tick that finds ticker.C full is dropped, and the ticker is
\* stopped when the goroutine returns
Pass ==
  /\ data' = [k \in Keys |-> Older(data[k])]
  /\ timer' = IF pc = "stopped" THEN timer
              ELSE IF timer = 1 THEN CleanupInterval ELSE timer - 1
  /\ ticked' = (ticked \/ (pc # "stopped" /\ timer = 1))
  /\ UNCHANGED <<mutex, stop, pc, doomed, panicked, got>>

Dead == panicked /\ UNCHANGED vars

Next == \/ /\ ~panicked
           /\ \/ \E k \in Keys : Get(k) \/ \E v \in Values : Set(k, v)
              \/ Close \/ SweepTick \/ SweepStop \/ Sweeping \/ Pass
        \/ Dead

Spec == Init /\ [][Next]_vars

(***************************************************************************)
(* The goroutine is scheduled and time passes.  select picks among ready   *)
(* cases at random, so neither case is passed over for ever; Lock is not   *)
(* starved either: a waiting writer of a sync.RWMutex keeps readers out.   *)
(***************************************************************************)
FairSpec == Spec /\ WF_vars(~panicked /\ Pass) /\ WF_vars(~panicked /\ Sweeping)
                 /\ SF_vars(~panicked /\ SweepTick)
                 /\ SF_vars(~panicked /\ SweepStop)

-----------------------------------------------------------------------------
(* Properties. *)

TypeOK ==
  /\ data \in [Keys -> CacheItem \cup {Absent}]
  /\ mutex \in {"free", "sweep"}
  /\ stop \in BOOLEAN /\ panicked \in BOOLEAN
  /\ pc \in {"select", "lock", "sweep", "stopped"}
  /\ doomed \in SUBSET Keys
  /\ timer \in 1..CleanupInterval
  /\ ticked \in BOOLEAN
  /\ got \in Values \cup {Absent}

Live(k) == IF data[k] = Absent \/ Expired(k) THEN Absent ELSE data[k]

Map == INSTANCE TtlMap WITH live <- [k \in Keys |-> Live(k)]

(***************************************************************************)
(* Seen through Get, the swept map is the plain one: the sweeper, however  *)
(* late or interleaved, takes away no entry that is still alive, and an    *)
(* entry it has not come to yet is never returned.                         *)
(***************************************************************************)
ImplementsTtlMap == Map!Spec

(***************************************************************************)
(* Memory is given back: an expired entry is deleted or set anew, unless   *)
(* the cache is closed, whose Close stops the sweeper for good.            *)
(***************************************************************************)
ExpiredForgotten == \A k \in Keys : Expired(k) ~> (~Expired(k) \/ stop)

\* Close ends the goroutine, also when ticks keep coming.
SweeperStops == stop ~> (pc = "stopped" \/ panicked)
=============================================================================
