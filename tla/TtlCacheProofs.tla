--------------------------- MODULE TtlCacheProofs ---------------------------
(***************************************************************************)
(* For every set of keys and values, every TTL and cleanup interval: the   *)
(* cache is the plain map with a time to live.  What makes it inductive is *)
(* that the keys a sweep still has to delete stay expired until it does,   *)
(* because the sweep keeps Set out.                                        *)
(***************************************************************************)
EXTENDS TtlCache, TLAPS

SweepInv ==
  /\ mutex = "sweep" <=> pc = "sweep"
  /\ pc # "sweep" => doomed = {}
  /\ \A k \in doomed : Expired(k)

IInv == TypeOK /\ SweepInv

-----------------------------------------------------------------------------
(* Entries. *)

LEMMA EntryIsItem ==
  ASSUME NEW e \in CacheItem \cup {Absent}, e # Absent
  PROVE  e.val \in Values /\ e.age \in 0..TTL+1 /\ e = [val |-> e.val, age |-> e.age]
BY DEF CacheItem

LEMMA FreshType == ASSUME NEW v \in Values PROVE [val |-> v, age |-> 0] \in CacheItem
BY TtlAssumption DEF CacheItem

LEMMA ItemNotAbsent == Absent \notin CacheItem
BY TtlAssumption DEF CacheItem

\* One unit of time keeps an item an item, and an expired one expired.
LEMMA OlderType ==
  ASSUME NEW e \in CacheItem \cup {Absent}
  PROVE  /\ Older(e) \in CacheItem \cup {Absent}
         /\ Older(e) = Absent <=> e = Absent
         /\ e # Absent /\ e.age > TTL => Older(e).age > TTL
<1>1. CASE e = Absent
  BY <1>1, ItemNotAbsent DEF Older
<1>2. CASE e # Absent
  <2>1. e.val \in Values /\ e.age \in 0..TTL+1 /\ e \in CacheItem
    BY <1>2, EntryIsItem
  <2>2. CASE e.age > TTL
    BY <1>2, <2>1, <2>2 DEF Older
  <2>3. CASE ~(e.age > TTL)
    <3>1. e.age + 1 \in 0..TTL+1
      BY <2>1, <2>3, TtlAssumption
    <3>2. Older(e) = [val |-> e.val, age |-> e.age + 1] /\ Older(e) \in CacheItem
      BY <1>2, <2>1, <2>3, <3>1 DEF Older, CacheItem
    <3>3. QED BY <1>2, <2>3, <3>2, ItemNotAbsent
  <2>4. QED BY <2>2, <2>3
<1>3. QED BY <1>1, <1>2

-----------------------------------------------------------------------------
(* The invariant. *)

LEMMA InitInv == Init => IInv
<1> SUFFICES ASSUME Init PROVE IInv
  OBVIOUS
<1>1. TypeOK
  <2>1. CleanupInterval \in 1..CleanupInterval
    BY TtlAssumption
  <2>2. data \in [Keys -> CacheItem \cup {Absent}] /\ got \in Values \cup {Absent}
    BY DEF Init
  <2>3. QED BY <2>1, <2>2 DEF Init, TypeOK
<1>2. SweepInv
  BY DEF Init, SweepInv
<1>3. QED BY <1>1, <1>2 DEF IInv

LEMMA StepInv == IInv /\ [Next]_vars => IInv'
<1> SUFFICES ASSUME IInv, [Next]_vars PROVE IInv'
  OBVIOUS
<1> USE DEF IInv, TypeOK, SweepInv, Expired, sweeper
<1>1. ASSUME NEW k \in Keys, NEW v \in Values, Set(k, v) PROVE IInv'
  BY <1>1, FreshType DEF Set
<1>2. ASSUME NEW k \in Keys, Get(k) PROVE IInv'
  <2>1. got' \in Values \cup {Absent}
    BY <1>2, EntryIsItem DEF Get
  <2>2. QED BY <1>2, <2>1 DEF Get
<1>3. CASE Close BY <1>3 DEF Close
<1>4. CASE SweepTick BY <1>4 DEF SweepTick
<1>5. CASE SweepStop BY <1>5 DEF SweepStop
<1>6. CASE SweepLock BY <1>6 DEF SweepLock
<1>7. CASE SweepDelete BY <1>7 DEF SweepDelete
<1>8. CASE SweepUnlock BY <1>8 DEF SweepUnlock
<1>9. CASE Pass
  <2>1. data' \in [Keys -> CacheItem \cup {Absent}]
    BY <1>9, OlderType DEF Pass
  <2>2. timer' \in 1..CleanupInterval /\ ticked' \in BOOLEAN
    BY <1>9, TtlAssumption DEF Pass
  <2>3. \A k \in doomed : data'[k] # Absent /\ data'[k].age > TTL
    BY <1>9, OlderType DEF Pass
  <2>4. QED BY <1>9, <2>1, <2>2, <2>3 DEF Pass
<1>10. CASE UNCHANGED vars BY <1>10 DEF vars
<1>11. QED
  BY <1>1, <1>2, <1>3, <1>4, <1>5, <1>6, <1>7, <1>8, <1>9, <1>10
     DEF Next, Sweeping, Dead

THEOREM Invariance == Spec => []IInv
BY InitInv, StepInv, PTL DEF Spec

(***************************************************************************)
(* Types, whatever the callers, the clock and the sweeper do.              *)
(***************************************************************************)
THEOREM TypeCorrect == Spec => []TypeOK
<1>1. IInv => TypeOK
  BY DEF IInv
<1>2. QED BY <1>1, Invariance, PTL

-----------------------------------------------------------------------------
(* Refinement. *)

liveMap == [k \in Keys |-> Live(k)]

(***************************************************************************)
(* Get answers as the plain map would: no live value is swept away and no  *)
(* expired one is returned.                                                *)
(***************************************************************************)
THEOREM Refinement == Spec => ImplementsTtlMap
<1>1. Init => Map!Init
  BY DEF Init, Map!Init, Live
<1>2. IInv /\ [Next]_vars => [Map!Next]_(Map!vars)
  <2> SUFFICES ASSUME IInv, [Next]_vars
               PROVE  Map!Next \/ UNCHANGED <<liveMap, got>>
    BY DEF Map!vars, liveMap
  <2> USE DEF IInv, TypeOK, SweepInv
  <2>1. ASSUME NEW k \in Keys, NEW v \in Values, Set(k, v) PROVE Map!Set(k, v)
    <3>1. data' = [data EXCEPT ![k] = [val |-> v, age |-> 0]] /\ got' = got
      BY <2>1 DEF Set
    <3>2. [val |-> v, age |-> 0] # Absent /\ ~([val |-> v, age |-> 0].age > TTL)
      BY FreshType, ItemNotAbsent, TtlAssumption
    <3>3. (Live(k))' = [val |-> v, age |-> 0]
      BY <3>1, <3>2 DEF Live, Expired
    <3>4. \A j \in Keys : j # k => (Live(j))' = Live(j)
      BY <3>1 DEF Live, Expired
    <3>5. QED BY <3>1, <3>3, <3>4 DEF Map!Set
  <2>2. ASSUME NEW k \in Keys, Get(k) PROVE Map!Get(k)
    BY <2>2 DEF Get, Map!Get, Live, Expired
  <2>3. CASE Pass
    <3>1. ASSUME NEW k \in Keys
          PROVE  (Live(k))' = Map!Older(Live(k))
      <4>1. data'[k] = Older(data[k]) /\ data[k] \in CacheItem \cup {Absent}
        BY <2>3, <3>1 DEF Pass
      <4>2. CASE data[k] = Absent
        BY <4>1, <4>2 DEF Live, Expired, Older, Map!Older
      <4>3. CASE data[k] # Absent /\ data[k].age > TTL
        BY <4>1, <4>3 DEF Live, Expired, Older, Map!Older
      <4>4. CASE data[k] # Absent /\ ~(data[k].age > TTL)
        <5>1. data'[k] = [val |-> data[k].val, age |-> data[k].age + 1]
          BY <4>1, <4>4 DEF Older
        <5>2. data'[k] # Absent
          BY <4>1, <4>4, OlderType
        <5>3. data[k].age \in 0..TTL
          BY <4>1, <4>4, EntryIsItem, TtlAssumption
        <5>4. Live(k) = data[k]
          BY <4>4 DEF Live, Expired
        <5>5. (Live(k))' = IF data[k].age + 1 > TTL THEN Absent ELSE data'[k]
          BY <5>1, <5>2 DEF Live, Expired
        <5>6. Map!Older(data[k]) = IF data[k].age >= TTL THEN Absent ELSE data'[k]
          BY <5>1, <4>4 DEF Map!Older
        <5>7. data[k].age + 1 > TTL <=> data[k].age >= TTL
          BY <5>3, TtlAssumption
        <5>8. QED BY <5>4, <5>5, <5>6, <5>7
      <4>5. QED BY <4>2, <4>3, <4>4
    <3>2. Map!Pass
      BY <2>3, <3>1 DEF Pass, Map!Pass
    <3>3. QED BY <3>2 DEF Map!Next
  <2>4. CASE SweepDelete
    <3>1. PICK d \in doomed : data' = [data EXCEPT ![d] = Absent]
      BY <2>4 DEF SweepDelete
    <3>2. \A k \in Keys : (Live(k))' = Live(k)
      BY <3>1 DEF Live, Expired
    <3>3. QED BY <2>4, <3>2 DEF SweepDelete, liveMap
  <2>5. CASE Close \/ SweepTick \/ SweepStop \/ SweepLock \/ SweepUnlock
             \/ UNCHANGED vars
    <3>1. UNCHANGED <<data, got>>
      BY <2>5 DEF Close, SweepTick, SweepStop, SweepLock, SweepUnlock, vars
    <3>2. QED BY <3>1 DEF liveMap, Live, Expired
  <2>6. QED
    BY <2>1, <2>2, <2>3, <2>4, <2>5 DEF Next, Sweeping, Dead, Map!Next
<1>3. QED
  BY <1>1, <1>2, Invariance, PTL DEF Spec, ImplementsTtlMap, Map!Spec
=============================================================================
