------------------------ MODULE PooledCollectorProofs ------------------------
(***************************************************************************)
(* For any number of requests and connections: the pool without a lock     *)
(* loses no connection, hands out none that was never opened, and is freed *)
(* last.  Two threads may hold one connection, so the usual argument, that *)
(* a connection marked in use has one owner, is not available.  What is    *)
(* inductive is weaker: it has an owner at least, because the thread that  *)
(* clears the mark stores the connection in the same step, and a thread    *)
(* that gives one up sets the mark whoever else holds it.  A thread that   *)
(* hangs in libpq after a race keeps its connection.                       *)
(***************************************************************************)
EXTENDS PooledCollector, TLAPS

\* A thread has a connection exactly from its Take to its return, or for good
\* when a race in libpq leaves it hanging or ends the process.
Using == {"query", "stored", "failed"}
HoldInv ==
  \A h \in Threads :
    /\ pc[h] \in Using => held[h] # NoConn
    /\ held[h] # NoConn => pc[h] \in Using \cup {"hung", "dead"}

\* A connection that was never opened is marked in use from the start, so no
\* scan ever stops at it.
OpenedInv ==
  /\ \A c \in Conns : link[c] = "never" => ~available[c]
  /\ \A h \in Threads : pc[h] = "take" => link[idx[h]] # "never"

\* Once the daemon is stopped there is no request, and the memory goes last.
LifeInv ==
  /\ life \in {"destroying", "exited"} => \A h \in Threads : pc[h] = "idle"
  /\ pool = "freed" => life = "exited"

IInv == TypeOK /\ HoldInv /\ OpenedInv /\ NoLeak /\ OnlyOpened /\ LifeInv

-----------------------------------------------------------------------------
(* Types. *)

LEMMA ConnsNonempty == 1 \in Conns /\ NoConn \notin Conns
BY PoolAssumption DEF Conns, NoConn

\* The next index of a scan is an index.
LEMMA NextIndex ==
  ASSUME NEW i \in Conns PROVE (IF i < NConns THEN i + 1 ELSE 1) \in Conns
BY PoolAssumption DEF Conns

LEMMA TickType == ASSUME NEW n \in 0..Period PROVE Tick(n) \in 0..Period
BY PoolAssumption DEF Tick

LEMMA TypeInit == Init => TypeOK
<1> SUFFICES ASSUME Init PROVE TypeOK
  OBVIOUS
<1>1. available \in [Conns -> BOOLEAN] /\ link \in [Conns -> {"ok", "lost", "never"}]
  BY DEF Init
<1>2. age \in 0..Period /\ 0 \in 0..Period
  BY PoolAssumption DEF Init
<1>3. /\ pc \in [Threads -> {"idle"}] /\ idx \in [Threads -> Conns]
      /\ held \in [Threads -> Conns \cup {NoConn}] /\ since \in [Threads -> 0..Period]
  BY <1>2, ConnsNonempty DEF Init
<1>4. QED BY <1>1, <1>2, <1>3 DEF Init, TypeOK

LEMMA TypeStep == TypeOK /\ HoldInv /\ [Next]_vars => TypeOK'
<1> SUFFICES ASSUME TypeOK, HoldInv, [Next]_vars PROVE TypeOK'
  OBVIOUS
<1> USE PoolAssumption DEF TypeOK, Go, threadVars
<1>1. ASSUME NEW h \in Threads, Request(h) PROVE TypeOK'
  BY <1>1 DEF Request
<1>2. ASSUME NEW h \in Threads, get_cached_metrics(h) PROVE TypeOK'
  BY <1>2, ConnsNonempty DEF get_cached_metrics
<1>3. ASSUME NEW h \in Threads, get_connection(h) PROVE TypeOK'
  <2>1. idx' \in [Threads -> Conns]
    BY <1>3, NextIndex DEF get_connection
  <2>2. pc' \in [Threads -> {"idle", "check", "scan", "take", "query", "stored",
                             "failed", "commit", "reply", "hung", "dead"}]
    BY <1>3 DEF get_connection
  <2>3. QED BY <1>3, <2>1, <2>2 DEF get_connection
<1>4. ASSUME NEW h \in Threads, Take(h) PROVE TypeOK'
  BY <1>4 DEF Take
<1>5. ASSUME NEW h \in Threads, Query(h) PROVE TypeOK'
  BY <1>5 DEF Query
<1>6. ASSUME NEW h \in Threads, return_connection(h) PROVE TypeOK'
  BY <1>6 DEF return_connection
<1>7. ASSUME NEW h \in Threads, Commit(h) PROVE TypeOK'
  BY <1>7 DEF Commit
<1>8. ASSUME NEW h \in Threads, Reply(h) PROVE TypeOK'
  BY <1>8, ConnsNonempty DEF Reply
<1>9. CASE signal_handler \/ Stop
  BY <1>9 DEF signal_handler, Stop, MHD_stop_daemon, destroy_connection_pool
<1>10. ASSUME NEW c \in Conns, LoseLink(c) PROVE TypeOK'
  BY <1>10 DEF LoseLink
<1>11. CASE Pass
  <2>1. age' \in 0..Period
    BY <1>11, TickType DEF Pass
  <2>2. since' \in [Threads -> 0..Period]
    BY <1>11, TickType DEF Pass
  <2>3. QED BY <1>11, <2>1, <2>2 DEF Pass
<1>12. CASE Exited \/ UNCHANGED vars
  BY <1>12 DEF Exited, vars
<1>13. ASSUME NEW h \in Threads, Race(h) PROVE TypeOK'
  BY <1>13 DEF Race
<1>14. CASE PgChange
  BY <1>14 DEF PgChange
<1>15. QED
  BY <1>1, <1>2, <1>3, <1>4, <1>5, <1>6, <1>7, <1>8, <1>9, <1>10, <1>11, <1>12,
     <1>13, <1>14 DEF Next, Handle

-----------------------------------------------------------------------------
(* The pool. *)

Safety == HoldInv /\ OpenedInv /\ NoLeak /\ OnlyOpened /\ LifeInv

LEMMA SafetyInit == Init => Safety
BY DEF Init, Safety, HoldInv, Using, OpenedInv, NoLeak, OnlyOpened, LifeInv

LEMMA SafetyStep == IInv /\ TypeOK' /\ [Next]_vars => Safety'
<1> SUFFICES ASSUME IInv, TypeOK', [Next]_vars PROVE Safety'
  OBVIOUS
<1> USE DEF IInv, Safety, TypeOK, HoldInv, Using, OpenedInv, NoLeak, OnlyOpened, LifeInv,
            Go, threadVars
<1>1. ASSUME NEW h \in Threads, Request(h) PROVE Safety'
  BY <1>1 DEF Request
<1>2. ASSUME NEW h \in Threads, get_cached_metrics(h) PROVE Safety'
  BY <1>2 DEF get_cached_metrics
\* what the scan stops at is available, so it was opened
<1>3. ASSUME NEW h \in Threads, get_connection(h) PROVE Safety'
  BY <1>3 DEF get_connection
\* the connection that loses its mark has its owner in the same step
<1>4. ASSUME NEW h \in Threads, Take(h) PROVE Safety'
  <2>1. held'[h] = idx[h] /\ idx[h] \in Conns /\ idx[h] # NoConn
    BY <1>4, ConnsNonempty DEF Take
  <2>2. HoldInv' /\ OpenedInv' /\ OnlyOpened' /\ LifeInv'
    BY <1>4, <2>1 DEF Take
  <2>3. NoLeak'
    <3> SUFFICES ASSUME NEW c \in Conns, ~available'[c], link[c] # "never"
                 PROVE  \E k \in Threads : held'[k] = c
      BY <1>4 DEF Take
    <3>1. CASE c = idx[h]
      BY <2>1, <3>1
    <3>2. CASE c # idx[h]
      <4>1. PICK k \in Threads : held[k] = c
        BY <1>4, <3>2 DEF Take
      <4>2. held[h] = NoConn
        BY <1>4 DEF Take
      <4>3. k # h /\ held'[k] = c
        BY <1>4, <4>1, <4>2, ConnsNonempty DEF Take
      <4>4. QED BY <4>3
    <3>3. QED BY <3>1, <3>2
  <2>4. QED BY <2>2, <2>3
<1>5. ASSUME NEW h \in Threads, Query(h) PROVE Safety'
  BY <1>5 DEF Query
\* every other connection in use has another owner
<1>6. ASSUME NEW h \in Threads, return_connection(h) PROVE Safety'
  <2>1. held[h] \in Conns /\ available' = [available EXCEPT ![held[h]] = TRUE]
    BY <1>6 DEF return_connection
  <2>2. HoldInv' /\ OpenedInv' /\ OnlyOpened' /\ LifeInv'
    BY <1>6, <2>1 DEF return_connection
  <2>3. NoLeak'
    <3> SUFFICES ASSUME NEW c \in Conns, ~available'[c], link[c] # "never"
                 PROVE  \E k \in Threads : held'[k] = c
      BY <1>6 DEF return_connection
    <3>1. c # held[h] /\ ~available[c]
      BY <2>1
    <3>2. PICK k \in Threads : held[k] = c
      BY <3>1
    <3>3. held'[k] = c
      BY <1>6, <3>1, <3>2 DEF return_connection
    <3>4. QED BY <3>3
  <2>4. QED BY <2>2, <2>3
<1>7. ASSUME NEW h \in Threads, Commit(h) PROVE Safety'
  BY <1>7 DEF Commit
<1>8. ASSUME NEW h \in Threads, Reply(h) PROVE Safety'
  BY <1>8 DEF Reply
<1>9. CASE signal_handler \/ Stop
  BY <1>9 DEF signal_handler, Stop, MHD_stop_daemon, destroy_connection_pool
<1>10. ASSUME NEW c \in Conns, LoseLink(c) PROVE Safety'
  BY <1>10 DEF LoseLink
<1>11. CASE Pass BY <1>11 DEF Pass
<1>12. CASE Exited \/ UNCHANGED vars
  BY <1>12 DEF Exited, vars
<1>13. ASSUME NEW h \in Threads, Race(h) PROVE Safety'
  BY <1>13 DEF Race, Shared
<1>14. CASE PgChange
  BY <1>14 DEF PgChange
<1>15. QED
  BY <1>1, <1>2, <1>3, <1>4, <1>5, <1>6, <1>7, <1>8, <1>9, <1>10, <1>11, <1>12,
     <1>13, <1>14 DEF Next, Handle

(***************************************************************************)
(* The inductive invariant holds in every reachable state.                 *)
(***************************************************************************)
THEOREM Invariance == Spec => []IInv
<1>1. Init => IInv
  BY TypeInit, SafetyInit DEF IInv, Safety
<1>2. IInv /\ [Next]_vars => IInv'
  BY TypeStep, SafetyStep DEF IInv, Safety
<1>3. QED BY <1>1, <1>2, PTL DEF Spec

(***************************************************************************)
(* Every variable keeps its type: in particular the loop of get_connection *)
(* never looks behind the end of available.                                *)
(***************************************************************************)
THEOREM TypeCorrect == Spec => []TypeOK
<1>1. IInv => TypeOK
  BY DEF IInv
<1>2. QED BY <1>1, Invariance, PTL

(***************************************************************************)
(* However requests race for the pool, no connection stays marked in use   *)
(* after the last request that used it.                                    *)
(***************************************************************************)
THEOREM PoolNeverLeaks == Spec => []NoLeak
<1>1. IInv => NoLeak
  BY DEF IInv
<1>2. QED BY <1>1, Invariance, PTL

(***************************************************************************)
(* No request gets a connection that create_connection_pool failed to open.*)
(***************************************************************************)
THEOREM HandsOutOpened == Spec => []OnlyOpened
<1>1. IInv => OnlyOpened
  BY DEF IInv
<1>2. QED BY <1>1, Invariance, PTL

(***************************************************************************)
(* destroy_connection_pool frees the pool when no request is under way.    *)
(***************************************************************************)
THEOREM FreedUnused == Spec => []NoUseAfterFree
<1>1. IInv => NoUseAfterFree
  BY DEF IInv, LifeInv, NoUseAfterFree
<1>2. QED BY <1>1, Invariance, PTL
=============================================================================
