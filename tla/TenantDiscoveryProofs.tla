----------------------- MODULE TenantDiscoveryProofs ------------------------
(***************************************************************************)
(* What TLAPS proves of TenantDiscovery, for every set of databases and    *)
(* every MAX_TENANTS: also for more databases than slots, and for arrays   *)
(* with room for fewer tenants than there are.                             *)
(*                                                                         *)
(* ScrapeNamesOneDiscovery needs that the slots agree with one discovery   *)
(* whenever nobody is rewriting them, with the rows being written while    *)
(* somebody is, that the walk of a scrape excludes the rewriting, and that *)
(* what send_response cuts off are the last tenants of the text.           *)
(***************************************************************************)
EXTENDS TenantDiscovery, TLAPS

Distinct(s) == \A a, b \in DOMAIN s : s[a] = s[b] => a = b

\* Who is where when the mutex is held, and how main and the thread start.
MutexInv ==
  /\ pc["main"] \in {"write", "walk", "undefined"} <=> mutex = "main"
  /\ pc["collector"] \in {"write", "uconnect", "uquery"} <=> mutex = "collector"
  /\ mutex = "destroyed" <=> pc["main"] = "exited"
  /\ pc["main"] = "exited" => pc["collector"] = "done"
  /\ pc["main"] \in Discovering \cup {"start", "create"} <=> pc["collector"] = "none"

\* The rows fetched, while they are being written over the slots.
RowsInv ==
  /\ Distinct(rows)
  /\ \A p \in Threads : pc[p] = "write" =>
       /\ i = tenant_count + 1
       /\ tenant_count <= Len(rows)
       /\ \A n \in 1..tenant_count : tenants[n].id = rows[n]

\* Otherwise the slots in use are the last discovery's.
KnownInv ==
  /\ Distinct(known)
  /\ (\A p \in Threads : pc[p] # "write") =>
       /\ tenant_count = Len(known)
       /\ \A n \in 1..tenant_count : tenants[n].id = known[n]

\* Slots in use are active; the loops stay inside them.
SlotInv ==
  /\ \A n \in 1..tenant_count : tenants[n].active
  /\ pc["collector"] = "uconnect" => i <= tenant_count + 1
  /\ pc["collector"] = "uquery" => i <= tenant_count
  /\ pc["main"] = "walk" => si <= tenant_count + 1

\* A scrape has listed the slots before si.
BodyInv ==
  pc["main"] = "walk" /\ kind = "metrics" =>
    /\ Len(body) = si - 1
    /\ \A n \in 1..Len(body) : body[n].id = tenants[n].id

\* The text put together and the reply cut from it, by what discovery had left
\* when main gave the mutex back.
ServedInv ==
  /\ pc["main"] \in {"reply", "sent"} /\ kind = "metrics" => Distinct(found)
  /\ pc["main"] = "reply" /\ kind = "metrics" =>
       /\ Len(body) = Len(found)
       /\ \A n \in 1..Len(body) : body[n].id = found[n]
  /\ pc["main"] = "sent" /\ kind = "metrics" =>
       /\ Len(response) <= Len(found)
       /\ Len(response) < Len(found) => Len(response) >= SendRoom
       /\ \A n \in 1..Len(response) : response[n].id = found[n]
  /\ pc["main"] = "undefined" => tenant_count > BodyRoom

IInv == TypeOK /\ MutexInv /\ RowsInv /\ KnownInv /\ SlotInv /\ BodyInv /\ ServedInv
-----------------------------------------------------------------------------
(* The operators. *)

\* An answer is a sequence of distinct names.
LEMMA AnswerSeq == \A s \in Answers : s \in Seq(Databases) /\ Distinct(s)
<1> SUFFICES ASSUME NEW s \in Answers PROVE s \in Seq(Databases) /\ Distinct(s)
  OBVIOUS
<1>1. PICK n \in 1..MaxTenants + 1 : s \in [1..n -> Databases]
  BY DEF Answers
<1>2. n \in Nat
  BY <1>1, DiscoveryAssumption
<1>3. s \in Seq(Databases)
  BY <1>1, <1>2
<1>4. Distinct(s)
  BY DEF Answers, Distinct
<1>5. QED BY <1>3, <1>4

\* A prefix has the first n members, or all if there are not more.
LEMMA PrefixSeq ==
  ASSUME NEW S, NEW s \in Seq(S), NEW n \in Nat
  PROVE  /\ Prefix(s, n) \in Seq(S)
         /\ Len(Prefix(s, n)) = IF Len(s) <= n THEN Len(s) ELSE n
         /\ \A m \in 1..Len(Prefix(s, n)) : Prefix(s, n)[m] = s[m]
<1>1. CASE Len(s) <= n
  BY <1>1 DEF Prefix
<1>2. CASE ~(Len(s) <= n)
  <2>1. Prefix(s, n) = SubSeq(s, 1, n)
    BY <1>2 DEF Prefix
  <2>2. QED BY <1>2, <2>1
<1>3. QED BY <1>1, <1>2

\* The names that find a slot are the first ones, at most MaxTenants.
LEMMA ListedNames ==
  ASSUME NEW s \in Seq(Databases), Distinct(s)
  PROVE  LET t == Prefix(s, MaxTenants)
         IN  /\ t \in Seq(Databases)
             /\ Len(t) = IF Len(s) <= MaxTenants THEN Len(s) ELSE MaxTenants
             /\ \A n \in 1..Len(t) : t[n] = s[n]
             /\ Distinct(t)
<1> DEFINE t == Prefix(s, MaxTenants)
<1>1. /\ t \in Seq(Databases)
      /\ Len(t) = IF Len(s) <= MaxTenants THEN Len(s) ELSE MaxTenants
      /\ \A n \in 1..Len(t) : t[n] = s[n]
  BY PrefixSeq, DiscoveryAssumption
<1>2. Distinct(t)
  <2> HIDE DEF t
  <2>1. DOMAIN t = 1..Len(t) /\ DOMAIN t \subseteq DOMAIN s
    BY <1>1, DiscoveryAssumption
  <2>2. QED BY <1>1, <2>1 DEF Distinct
<1>3. QED BY <1>1, <1>2

LEMMA SlotType ==
  ASSUME NEW f \in [Slots -> tenant_metrics_t], NEW n \in Slots, NEW d \in Databases
  PROVE  LET g == [f EXCEPT ![n] = [id |-> d, active |-> TRUE, stat |-> f[n].stat]]
         IN  /\ g \in [Slots -> tenant_metrics_t]
             /\ \A m \in Slots : /\ g[m].id = IF m = n THEN d ELSE f[m].id
                                 /\ g[m].active = (m = n \/ f[m].active)
BY DEF tenant_metrics_t

LEMMA StatType ==
  ASSUME NEW f \in [Slots -> tenant_metrics_t], NEW n \in Slots,
         NEW s \in 1..NStats, NEW d \in Databases \cup {None}
  PROVE  LET g == [f EXCEPT ![n].stat[s] = d]
         IN  /\ g \in [Slots -> tenant_metrics_t]
             /\ \A m \in Slots : g[m].id = f[m].id /\ g[m].active = f[m].active
BY DEF tenant_metrics_t

LEMMA InitInv == Init => IInv
<1> SUFFICES ASSUME Init PROVE IInv
  OBVIOUS
<1> USE DiscoveryAssumption DEF Init
<1>1. TypeOK
  <2>1. tenants \in [Slots -> tenant_metrics_t]
    BY DEF Unused, tenant_metrics_t
  <2>2. /\ pc \in [Threads -> Places]
        /\ pc["main"] = "start" /\ pc["collector"] = "none"
    BY DEF Threads, Places, MainPlaces, CollectorPlaces
  <2>3. pc["main"] \notin CollectorPlaces /\ pc["collector"] \notin MainPlaces
    BY <2>2 DEF MainPlaces, CollectorPlaces
  <2>4. /\ rows \in Seq(Databases) /\ known \in Seq(Databases)
        /\ body \in Seq(tenant_metrics_t) /\ response \in Seq(tenant_metrics_t)
        /\ found \in Seq(Databases)
    OBVIOUS
  <2>5. /\ tenant_count \in 0..MaxTenants /\ q \in 1..NStats
        /\ i \in 1..MaxTenants + 1 /\ si \in 1..MaxTenants + 1
    OBVIOUS
  <2>6. QED BY <2>1, <2>2, <2>3, <2>4, <2>5 DEF TypeOK
<1>2. MutexInv
  BY DEF MutexInv, Threads, Discovering
<1>3. RowsInv /\ KnownInv /\ SlotInv /\ BodyInv /\ ServedInv
  BY DEF RowsInv, KnownInv, SlotInv, BodyInv, ServedInv, Distinct, Threads
<1>4. QED BY <1>1, <1>2, <1>3 DEF IInv

\* The second thread does not discover while the first one does.
LEMMA OneDiscoverer ==
  ASSUME IInv, NEW p \in Threads, pc[p] \in Discovering
  PROVE  /\ pc["main"] \in {"write", "walk"} => p = "main" \/ mutex = "main"
         /\ p = "main" => pc["collector"] = "none"
         /\ p = "collector" => pc["main"] \notin Discovering \cup {"start", "create"}
BY DEF IInv, MutexInv, TypeOK, Threads, Places, Discovering, CollectorPlaces

\* What main serves is kept by every step but those that make the reply.
LEMMA SameServed ==
  ASSUME IInv, UNCHANGED <<kind, body, response, found>>,
         pc'["main"] = pc["main"] \/ pc'["main"] \notin {"reply", "sent", "undefined"},
         UNCHANGED tenant_count \/ pc["main"] # "undefined"
  PROVE  ServedInv'
BY DEF IInv, ServedInv, Distinct

-----------------------------------------------------------------------------
(* discover_tenants. *)

LEMMA AskInv ==
  ASSUME IInv, NEW p \in Threads, Ask(p)
  PROVE  IInv'
<1> USE DEF Ask, Go, discoverFrame, flags, serving
<1>1. TypeOK'
  BY AnswerSeq DEF IInv, TypeOK, Threads, AfterDiscovery, Places, Discovering, MainPlaces, CollectorPlaces
<1>2. MutexInv'
  BY OneDiscoverer DEF IInv, TypeOK, MutexInv, Threads, AfterDiscovery, Discovering
<1>3. RowsInv'
  BY AnswerSeq DEF IInv, TypeOK, RowsInv, MutexInv, Threads, AfterDiscovery, Discovering
<1>4. KnownInv'
  BY DEF IInv, TypeOK, KnownInv, Threads, AfterDiscovery
<1>5. SlotInv' /\ BodyInv'
  BY DEF IInv, TypeOK, SlotInv, BodyInv, Threads, AfterDiscovery
<1>6. ServedInv'
  BY SameServed DEF IInv, TypeOK, Threads, AfterDiscovery
<1>7. QED BY <1>1, <1>2, <1>3, <1>4, <1>5, <1>6 DEF IInv

LEMMA DiscoverLockInv ==
  ASSUME IInv, NEW p \in Threads, DiscoverLock(p)
  PROVE  IInv'
<1> USE DiscoveryAssumption DEF DiscoverLock, Go, Lock, discoverFrame, flags, serving
<1>1. TypeOK'
  BY DEF IInv, TypeOK, Threads, Places, Discovering, MainPlaces, CollectorPlaces
<1>2. MutexInv'
  BY OneDiscoverer DEF IInv, TypeOK, MutexInv, Threads, Discovering
<1>3. RowsInv'
  BY DEF IInv, TypeOK, RowsInv, MutexInv, Threads
<1>4. KnownInv'
  BY DEF IInv, TypeOK, KnownInv, Threads
<1>5. SlotInv' /\ BodyInv'
  <2>1. pc'["collector"] \notin {"uconnect", "uquery"} /\ pc'["main"] # "walk"
    BY <1>2 DEF MutexInv, Threads
  <2>2. QED BY <2>1 DEF IInv, TypeOK, SlotInv, BodyInv
<1>6. ServedInv'
  <2>1. pc["main"] # "undefined"
    BY DEF IInv, MutexInv, Threads
  <2>2. pc'["main"] = pc["main"] \/ pc'["main"] = "write"
    BY DEF IInv, TypeOK, Threads
  <2>3. QED BY <2>1, <2>2, SameServed
<1>7. QED BY <1>1, <1>2, <1>3, <1>4, <1>5, <1>6 DEF IInv

LEMMA WriteTenantInv ==
  ASSUME IInv, NEW p \in Threads, WriteTenant(p)
  PROVE  IInv'
<1> USE DiscoveryAssumption DEF WriteTenant, discoverFrame, flags, serving
<1>1. i = tenant_count + 1 /\ i \in Slots /\ i <= Len(rows) /\ rows[i] \in Databases
  <2>1. i = tenant_count + 1 /\ i <= Len(rows) /\ i <= MaxTenants
    BY DEF IInv, RowsInv
  <2>2. rows \in Seq(Databases) /\ i \in 1..MaxTenants + 1
    BY DEF IInv, TypeOK
  <2>3. QED BY <2>1, <2>2 DEF Slots
<1>2. /\ tenants' \in [Slots -> tenant_metrics_t]
      /\ \A m \in Slots : /\ tenants'[m].id = IF m = i THEN rows[i] ELSE tenants[m].id
                          /\ tenants'[m].active = (m = i \/ tenants[m].active)
  <2>1. tenants \in [Slots -> tenant_metrics_t]
    BY DEF IInv, TypeOK
  <2>2. tenants' = [tenants EXCEPT ![i] =
                      [id |-> rows[i], active |-> TRUE, stat |-> tenants[i].stat]]
    OBVIOUS
  <2>3. QED BY ONLY <1>1, <2>1, <2>2, SlotType
<1>3. tenant_count' = i /\ i' = i + 1 /\ 1..tenant_count' \subseteq Slots
  BY <1>1 DEF Slots
<1>4. TypeOK'
  <2>1. tenant_count' \in 0..MaxTenants /\ i' \in 1..MaxTenants + 1
    BY <1>1, <1>3 DEF Slots
  <2>2. QED BY <1>2, <2>1 DEF IInv, TypeOK
<1>5. MutexInv'
  BY DEF IInv, MutexInv
<1>6. RowsInv'
  <2>1. tenant_count \in Nat /\ \A n \in 1..tenant_count : tenants[n].id = rows[n]
    BY DEF IInv, TypeOK, RowsInv
  <2>2. \A n \in 1..tenant_count' : tenants'[n].id = rows'[n]
    BY <1>1, <1>2, <1>3, <2>1
  <2>3. QED BY <1>1, <1>3, <2>2 DEF IInv, RowsInv, Distinct
<1>7. KnownInv'
  BY DEF IInv, KnownInv
<1>8. SlotInv' /\ BodyInv'
  <2>1. pc["collector"] \notin {"uconnect", "uquery"} /\ pc["main"] # "walk"
    BY DEF IInv, MutexInv, Threads
  <2>2. tenant_count \in Nat /\ \A n \in 1..tenant_count : tenants[n].active
    BY DEF IInv, TypeOK, SlotInv
  <2>3. \A n \in 1..tenant_count' : tenants'[n].active
    BY <1>1, <1>2, <1>3, <2>2
  <2>4. QED BY <2>1, <2>3 DEF SlotInv, BodyInv
<1>9. ServedInv'
  <2>1. pc["main"] # "undefined"
    BY DEF IInv, MutexInv, Threads
  <2>2. QED BY <2>1, SameServed
<1>10. QED BY <1>4, <1>5, <1>6, <1>7, <1>8, <1>9 DEF IInv

LEMMA DiscoverUnlockInv ==
  ASSUME IInv, NEW p \in Threads, DiscoverUnlock(p)
  PROVE  IInv'
<1> USE DiscoveryAssumption DEF DiscoverUnlock, Go, Unlock, discoverFrame, flags, serving
<1>1. /\ rows \in Seq(Databases) /\ Distinct(rows)
      /\ tenant_count \in 0..MaxTenants /\ i = tenant_count + 1
      /\ tenant_count <= Len(rows)
      /\ \A n \in 1..tenant_count : tenants[n].id = rows[n]
  BY DEF IInv, TypeOK, RowsInv
<1>2. tenant_count = Len(Prefix(rows, MaxTenants))
  BY <1>1, ListedNames
<1>3. TypeOK'
  <2>1. known' \in Seq(Databases) /\ rows' \in Seq(Databases)
    BY <1>1, ListedNames
  <2>2. /\ pc' \in [Threads -> Places]
        /\ pc'["main"] \notin CollectorPlaces /\ pc'["collector"] \notin MainPlaces
    BY DEF IInv, TypeOK, Threads, AfterDiscovery, Places, Discovering, MainPlaces, CollectorPlaces
  <2>3. i' \in 1..MaxTenants + 1 /\ mutex' \in Threads \cup {"free", "destroyed"}
    OBVIOUS
  <2>4. QED BY <2>1, <2>2, <2>3 DEF IInv, TypeOK
<1>4. MutexInv'
  BY OneDiscoverer DEF IInv, TypeOK, MutexInv, Threads, AfterDiscovery, Discovering
<1>5. \A t \in Threads : pc'[t] # "write"
  BY <1>4 DEF MutexInv, Threads
<1>6. RowsInv'
  BY <1>5 DEF RowsInv, Distinct
<1>7. KnownInv'
  <2>1. Distinct(known')
    BY <1>1, ListedNames
  <2>2. tenant_count' = Len(known')
    BY <1>2
  <2>3. \A n \in 1..tenant_count' : tenants'[n].id = known'[n]
    BY <1>1, <1>2, ListedNames
  <2>4. QED BY <2>1, <2>2, <2>3 DEF KnownInv, Distinct
<1>8. SlotInv' /\ BodyInv'
  <2>1. mutex' = "free"
    OBVIOUS
  <2>2. pc'["collector"] \notin {"uconnect", "uquery"} /\ pc'["main"] # "walk"
    BY <1>4, <2>1 DEF MutexInv, Threads
  <2>3. QED BY <2>2 DEF IInv, SlotInv, BodyInv
<1>9. ServedInv'
  BY SameServed DEF IInv, TypeOK, Threads, AfterDiscovery
<1>10. QED BY <1>3, <1>4, <1>6, <1>7, <1>8, <1>9 DEF IInv

-----------------------------------------------------------------------------
(* The collector thread. *)

\* Steps of the collector that touch no tenant keep what relates the slots to
\* the rows, to the last discovery and to the scrape.
LEMMA SameTenants ==
  ASSUME IInv, UNCHANGED <<tenants, tenant_count, rows, known, kind, si, body>>,
         UNCHANGED i \/ \A p \in Threads : pc[p] # "write",
         \A p \in Threads : pc'[p] = "write" <=> pc[p] = "write",
         pc'["main"] = "walk" <=> pc["main"] = "walk"
  PROVE  RowsInv' /\ KnownInv' /\ BodyInv'
BY DEF IInv, RowsInv, KnownInv, BodyInv

LEMMA CollectorMoves ==
  ASSUME IInv, CollectorTest \/ CollectorWake
  PROVE  IInv'
<1> USE DEF CollectorTest, CollectorWake, Go, updateFrame, flags, serving
<1>1. TypeOK'
  BY DEF IInv, TypeOK, Threads, Places, Discovering, MainPlaces, CollectorPlaces
<1>2. MutexInv'
  BY DEF IInv, TypeOK, MutexInv, Threads, Discovering
<1>3. RowsInv' /\ KnownInv' /\ BodyInv'
  BY SameTenants DEF IInv, TypeOK, Threads
<1>4. SlotInv'
  BY DEF IInv, TypeOK, SlotInv, Threads
<1>5. ServedInv'
  BY SameServed DEF IInv, TypeOK, Threads
<1>6. QED BY <1>1, <1>2, <1>3, <1>4, <1>5 DEF IInv

LEMMA UpdateLockInv ==
  ASSUME IInv, UpdateLock \/ UpdateUnlock
  PROVE  IInv'
<1> USE DiscoveryAssumption DEF UpdateLock, UpdateUnlock, Go, Lock, Unlock,
        updateFrame, flags, serving
<1>1. TypeOK'
  BY DEF IInv, TypeOK, Threads, Places, Discovering, MainPlaces, CollectorPlaces
<1>2. MutexInv'
  BY DEF IInv, TypeOK, MutexInv, Threads, Discovering
<1>3. RowsInv' /\ KnownInv' /\ BodyInv'
  <2>1. \A p \in Threads : pc[p] # "write"
    BY DEF IInv, MutexInv, Threads
  <2>2. QED BY <2>1, SameTenants DEF IInv, TypeOK, Threads
<1>4. SlotInv'
  BY DEF IInv, TypeOK, SlotInv, Threads
<1>5. ServedInv'
  BY SameServed DEF IInv, TypeOK, Threads
<1>6. QED BY <1>1, <1>2, <1>3, <1>4, <1>5 DEF IInv

LEMMA UpdateConnectInv ==
  ASSUME IInv, UpdateConnect
  PROVE  IInv'
<1> USE DiscoveryAssumption DEF UpdateConnect, updateFrame, flags, serving
<1>1. /\ i <= tenant_count /\ tenant_count \in 0..MaxTenants /\ i \in 1..MaxTenants + 1
      /\ i' \in {i, i + 1}
  BY DEF IInv, TypeOK
<1>2. /\ pc' \in [Threads -> Places]
      /\ pc'["main"] = pc["main"] /\ pc'["collector"] \in {"uconnect", "uquery"}
      /\ pc'["collector"] = "uquery" => i' = i
  BY DEF IInv, TypeOK, Threads, Places, CollectorPlaces
<1>3. TypeOK'
  BY <1>1, <1>2 DEF IInv, TypeOK, MainPlaces
<1>4. MutexInv'
  BY <1>2 DEF IInv, MutexInv
<1>5. RowsInv' /\ KnownInv' /\ BodyInv'
  <2>1. \A p \in Threads : pc[p] # "write" /\ pc'[p] # "write"
    BY <1>2 DEF IInv, MutexInv, Threads
  <2>2. QED BY <1>2, <2>1, SameTenants
<1>6. SlotInv'
  BY <1>1, <1>2 DEF IInv, SlotInv
<1>7. ServedInv'
  BY <1>2, SameServed
<1>8. QED BY <1>3, <1>4, <1>5, <1>6, <1>7 DEF IInv

LEMMA UpdateQueryInv ==
  ASSUME IInv, UpdateQuery
  PROVE  IInv'
<1> USE DiscoveryAssumption DEF UpdateQuery, Go, updateFrame, flags, serving
<1>1. /\ i <= tenant_count /\ tenant_count \in 0..MaxTenants /\ i \in 1..MaxTenants + 1
      /\ i \in Slots /\ i' \in {i, i + 1}
  BY DEF IInv, TypeOK, SlotInv, Slots
<1>2. /\ pc' \in [Threads -> Places]
      /\ pc'["main"] = pc["main"] /\ pc'["collector"] \in {"uconnect", "uquery"}
      /\ pc'["collector"] = "uquery" => i' = i
  BY DEF IInv, TypeOK, Threads, Places, CollectorPlaces
<1>3. /\ tenants' \in [Slots -> tenant_metrics_t]
      /\ \A m \in Slots : tenants'[m].id = tenants[m].id /\ tenants'[m].active = tenants[m].active
  <2>1. tenants \in [Slots -> tenant_metrics_t] /\ q \in 1..NStats
    BY DEF IInv, TypeOK
  <2>2. tenants[i].id \in Databases \cup {None}
    BY <1>1, <2>1 DEF tenant_metrics_t
  <2>3. tenants' \in {tenants, [tenants EXCEPT ![i].stat[q] = tenants[i].id]}
    OBVIOUS
  <2>4. CASE tenants' = tenants
    BY <2>1, <2>4
  <2>5. CASE tenants' = [tenants EXCEPT ![i].stat[q] = tenants[i].id]
    BY ONLY <1>1, <2>1, <2>2, <2>5, StatType
  <2>6. QED BY <2>3, <2>4, <2>5
<1>4. 1..tenant_count \subseteq Slots
  BY <1>1 DEF Slots
<1>5. TypeOK'
  <2>1. i' \in 1..MaxTenants + 1
    BY <1>1
  <2>2. q' \in 1..NStats
    <3>1. q \in 1..NStats /\ q' = IF q < NStats THEN q + 1 ELSE 1
      BY DEF IInv, TypeOK
    <3>2. QED BY ONLY <3>1, DiscoveryAssumption
  <2>3. QED BY <1>2, <1>3, <2>1, <2>2 DEF IInv, TypeOK, MainPlaces
<1>6. MutexInv'
  BY <1>2 DEF IInv, MutexInv
<1>7. \A p \in Threads : pc[p] # "write" /\ pc'[p] # "write"
  BY <1>2 DEF IInv, MutexInv, Threads
<1>8. RowsInv' /\ KnownInv'
  BY <1>3, <1>4, <1>7 DEF IInv, RowsInv, KnownInv, Distinct
<1>9. SlotInv' /\ BodyInv'
  <2>1. pc'["main"] # "walk"
    BY <1>2 DEF IInv, MutexInv, Threads
  <2>2. QED BY <1>1, <1>2, <1>3, <1>4, <2>1 DEF IInv, SlotInv, BodyInv
<1>10. ServedInv'
  BY <1>2, SameServed
<1>11. QED BY <1>5, <1>6, <1>8, <1>9, <1>10 DEF IInv

-----------------------------------------------------------------------------
(* The main thread. *)

LEMMA MainMoves ==
  ASSUME IInv,
         \/ Start \/ pthread_create \/ MainTest \/ Stop \/ Join
         \/ \E k \in {"metrics", "health", "other"} : handle_request(k)
  PROVE  IInv'
<1> USE DEF mainFrame, locals, serving
<1>1. UNCHANGED <<keep_running, tenants, tenant_count, rows, i, q, si, body,
                  response, stalled, known, found>>
  BY DEF Start, pthread_create, MainTest, Stop, Join, handle_request
<1>2. /\ pc' \in [Threads -> Places]
      /\ \/ /\ pc'["collector"] = pc["collector"] /\ mutex' = mutex
            /\ \/ pc["main"] = "start" /\ pc'["main"] = "ask"
               \/ /\ pc["main"] \in {"loop", "accept", "stop"}
                  /\ pc'["main"] \in {"accept", "stop", "lock", "join"}
               \/ /\ pc["main"] = "accept" /\ pc'["main"] = "reply" /\ kind' = "other"
         \/ /\ pc["main"] = "create" /\ mutex' = mutex
            /\ pc'["main"] = "loop" /\ pc'["collector"] = "test"
         \/ /\ pc["main"] = "join" /\ pc'["main"] = "exited" /\ mutex' = "destroyed"
            /\ pc["collector"] = "done" /\ pc'["collector"] = "done"
  <2> USE DEF IInv, TypeOK, Threads, Go, Places, Discovering, MainPlaces, CollectorPlaces
  <2>1. CASE Start BY <2>1 DEF Start
  <2>2. CASE pthread_create BY <2>2 DEF pthread_create
  <2>3. CASE MainTest BY <2>3 DEF MainTest
  <2>4. CASE Stop BY <2>4 DEF Stop
  <2>5. CASE Join BY <2>5 DEF Join
  <2>6. CASE \E k \in {"metrics", "health", "other"} : handle_request(k)
    BY <2>6 DEF handle_request
  <2>7. QED BY <2>1, <2>2, <2>3, <2>4, <2>5, <2>6
<1>3. running' \in BOOLEAN /\ kind' \in {"metrics", "health", "other"}
  BY DEF IInv, TypeOK, Start, pthread_create, MainTest, Stop, Join, handle_request
<1>4. TypeOK'
  BY <1>1, <1>2, <1>3 DEF IInv, TypeOK, MainPlaces, CollectorPlaces
<1>5. MutexInv'
  BY <1>2 DEF IInv, MutexInv, Discovering
<1>6. \A p \in Threads : pc'[p] = "write" <=> pc[p] = "write"
  BY <1>2 DEF IInv, MutexInv, Threads
<1>7. pc'["main"] # "walk"
  BY <1>2
<1>8. RowsInv' /\ KnownInv' /\ BodyInv'
  BY <1>1, <1>6, <1>7 DEF IInv, RowsInv, KnownInv, BodyInv, Distinct
<1>9. SlotInv'
  BY <1>1, <1>2 DEF IInv, SlotInv
<1>10. ServedInv'
  BY <1>1, <1>2, <1>3 DEF IInv, ServedInv
<1>11. QED BY <1>4, <1>5, <1>8, <1>9, <1>10 DEF IInv

LEMMA ServerLockInv ==
  ASSUME IInv, ServerLock
  PROVE  IInv'
<1> USE DiscoveryAssumption DEF ServerLock, Go, Lock, mainFrame, locals
<1>1. TypeOK'
  BY DEF IInv, TypeOK, Threads, Places, Discovering, MainPlaces, CollectorPlaces
<1>2. MutexInv'
  BY DEF IInv, TypeOK, MutexInv, Threads, Discovering
<1>3. \A p \in Threads : pc'[p] = "write" <=> pc[p] = "write"
  BY DEF IInv, TypeOK, Threads
<1>4. RowsInv' /\ KnownInv' /\ BodyInv'
  BY <1>3 DEF IInv, RowsInv, KnownInv, BodyInv, Distinct
<1>5. SlotInv'
  BY DEF IInv, TypeOK, SlotInv, Threads
<1>6. ServedInv'
  BY DEF IInv, TypeOK, ServedInv, Threads
<1>7. QED BY <1>1, <1>2, <1>4, <1>5, <1>6 DEF IInv

LEMMA ServerWalkInv ==
  ASSUME IInv, ServerWalk
  PROVE  IInv'
<1> USE DiscoveryAssumption DEF ServerWalk, mainFrame, locals
<1>1. /\ si \in Slots /\ tenant_count \in 0..MaxTenants /\ si <= tenant_count
      /\ tenants[si] \in tenant_metrics_t /\ body \in Seq(tenant_metrics_t)
  BY DEF IInv, TypeOK, Slots
<1>2. TypeOK'
  <2>1. si' \in 1..MaxTenants + 1 /\ body' \in Seq(tenant_metrics_t)
    BY <1>1 DEF Slots
  <2>2. QED BY <2>1 DEF IInv, TypeOK
<1>3. MutexInv'
  BY DEF IInv, MutexInv
<1>4. RowsInv' /\ KnownInv'
  BY DEF IInv, RowsInv, KnownInv, Distinct
<1>5. SlotInv'
  BY <1>1 DEF IInv, SlotInv, Slots
<1>6. BodyInv'
  <2>1. CASE kind = "metrics"
    <3>1. body' = Append(body, tenants[si])
      BY <1>1, <2>1 DEF IInv, SlotInv, Slots, Listed
    <3>2. Len(body) = si - 1 /\ \A n \in 1..Len(body) : body[n].id = tenants[n].id
      BY <2>1 DEF IInv, BodyInv
    <3>3. Len(body') = si' - 1 /\ \A n \in 1..Len(body') : body'[n].id = tenants[n].id
      BY <1>1, <3>1, <3>2 DEF Slots
    <3>4. QED BY <3>3 DEF BodyInv
  <2>2. CASE kind # "metrics"
    BY <2>2 DEF BodyInv
  <2>3. QED BY <2>1, <2>2
<1>7. ServedInv'
  BY DEF IInv, ServedInv
<1>8. QED BY <1>2, <1>3, <1>4, <1>5, <1>6, <1>7 DEF IInv

\* response_body overflows only when it holds the text of BodyRoom tenants and
\* there is one more.
LEMMA OverflowInv ==
  ASSUME IInv, Overflow
  PROVE  IInv'
<1> USE DiscoveryAssumption DEF Overflow, mainFrame, locals, serving
<1>1. /\ pc["main"] = "walk"
      /\ pc' \in [Threads -> Places]
      /\ pc'["main"] = "undefined" /\ pc'["collector"] = "undefined"
  BY DEF Threads, Places
<1>2. TypeOK'
  BY <1>1 DEF IInv, TypeOK, MainPlaces, CollectorPlaces
<1>3. MutexInv'
  BY <1>1 DEF IInv, MutexInv, Discovering
<1>4. \A p \in Threads : pc[p] # "write" /\ pc'[p] # "write"
  BY <1>1 DEF IInv, MutexInv, Threads
<1>5. RowsInv' /\ KnownInv' /\ SlotInv' /\ BodyInv'
  BY <1>1, <1>4 DEF IInv, RowsInv, KnownInv, SlotInv, BodyInv, Distinct
<1>6. ServedInv'
  <2>1. /\ Len(body) = si - 1 /\ Len(body) >= BodyRoom /\ si <= tenant_count
        /\ si \in Nat /\ tenant_count \in Nat
    BY DEF IInv, TypeOK, BodyInv, Listed
  <2>2. QED BY <1>1, <2>1 DEF ServedInv
<1>7. QED BY <1>2, <1>3, <1>5, <1>6 DEF IInv

\* The walk has listed all slots in use, and nobody has rewritten them.
LEMMA ServerUnlockInv ==
  ASSUME IInv, ServerUnlock
  PROVE  IInv'
<1> USE DiscoveryAssumption DEF ServerUnlock, Go, Unlock, mainFrame, locals
<1>1. TypeOK'
  <2>1. si' \in 1..MaxTenants + 1 /\ found' \in Seq(Databases)
    BY DEF IInv, TypeOK
  <2>2. QED BY <2>1 DEF IInv, TypeOK, Threads, Places, Discovering, MainPlaces, CollectorPlaces
<1>2. MutexInv'
  BY DEF IInv, TypeOK, MutexInv, Threads, Discovering
<1>3. \A p \in Threads : pc'[p] = "write" <=> pc[p] = "write"
  BY DEF IInv, TypeOK, Threads
<1>4. RowsInv' /\ KnownInv'
  BY <1>3 DEF IInv, RowsInv, KnownInv, Distinct
<1>5. SlotInv' /\ BodyInv'
  BY DEF IInv, TypeOK, SlotInv, BodyInv, Threads
<1>6. ServedInv'
  <2>1. pc'["main"] = "reply"
    BY DEF IInv, TypeOK, Threads
  <2>2. CASE kind = "metrics"
    <3>1. \A p \in Threads : pc[p] # "write"
      BY DEF IInv, MutexInv, Threads
    <3>2. /\ tenant_count = Len(known) /\ Distinct(known)
          /\ \A n \in 1..tenant_count : tenants[n].id = known[n]
      BY <3>1 DEF IInv, KnownInv
    <3>3. /\ Len(body) = si - 1 /\ si <= tenant_count + 1
          /\ \A n \in 1..Len(body) : body[n].id = tenants[n].id
          /\ tenant_count \in Nat /\ si \in Nat
      BY <2>2 DEF IInv, TypeOK, BodyInv, SlotInv
    <3>4. Len(body) = tenant_count
      BY <3>3
    <3>5. found' = known /\ body' = body
      BY <2>2
    <3>6. QED BY <2>1, <3>2, <3>3, <3>4, <3>5 DEF ServedInv, Distinct
  <2>3. CASE kind # "metrics"
    BY <2>1, <2>3 DEF ServedInv
  <2>4. QED BY <2>2, <2>3
<1>7. QED BY <1>1, <1>2, <1>4, <1>5, <1>6 DEF IInv

\* The reply is a prefix of the text.
LEMMA SendResponseInv ==
  ASSUME IInv, send_response
  PROVE  IInv'
<1> USE DiscoveryAssumption DEF send_response, Go, mainFrame, locals
<1>1. PICK n \in 0..Len(body) : (n >= SendRoom \/ n = Len(body)) /\ response' = Prefix(body, n)
  OBVIOUS
<1>2. body \in Seq(tenant_metrics_t) /\ n \in Nat /\ n <= Len(body)
  BY <1>1 DEF IInv, TypeOK
<1>3. /\ response' \in Seq(tenant_metrics_t)
      /\ Len(response') = n
      /\ \A m \in 1..n : response'[m] = body[m]
  BY <1>1, <1>2, PrefixSeq
<1>4. TypeOK'
  BY <1>3 DEF IInv, TypeOK, Threads, Places, Discovering, MainPlaces, CollectorPlaces
<1>5. MutexInv'
  BY DEF IInv, TypeOK, MutexInv, Threads, Discovering
<1>6. \A p \in Threads : pc'[p] = "write" <=> pc[p] = "write"
  BY DEF IInv, TypeOK, Threads
<1>7. RowsInv' /\ KnownInv'
  BY <1>6 DEF IInv, RowsInv, KnownInv, Distinct
<1>8. SlotInv' /\ BodyInv'
  BY DEF IInv, TypeOK, SlotInv, BodyInv, Threads
<1>9. ServedInv'
  <2>1. pc["main"] = "reply" /\ pc'["main"] = "sent" /\ kind' = kind /\ found' = found
    BY DEF IInv, TypeOK, Threads
  <2>2. CASE kind = "metrics"
    <3>1. /\ Distinct(found) /\ Len(body) = Len(found)
          /\ \A m \in 1..Len(body) : body[m].id = found[m]
      BY <2>1, <2>2 DEF IInv, ServedInv
    <3>2. /\ Len(response') <= Len(found)
          /\ Len(response') < Len(found) => Len(response') >= SendRoom
          /\ \A m \in 1..Len(response') : response'[m].id = found[m]
      <4>1. n <= Len(found) /\ (n < Len(found) => n >= SendRoom)
        BY ONLY <1>1, <1>2, <3>1
      <4>2. \A m \in 1..n : m \in 1..Len(body)
        BY ONLY <1>2, body \in Seq(tenant_metrics_t), Len(body) \in Nat
      <4>3. \A m \in 1..n : response'[m].id = found[m]
        BY ONLY <1>3, <3>1, <4>2
      <4>4. QED BY ONLY <1>3, <4>1, <4>3
    <3>3. QED BY <2>1, <3>1, <3>2 DEF ServedInv, Distinct
  <2>3. CASE kind # "metrics"
    BY <2>1, <2>3 DEF ServedInv
  <2>4. QED BY <2>2, <2>3
<1>10. QED BY <1>4, <1>5, <1>7, <1>8, <1>9 DEF IInv

LEMMA CloseInv ==
  ASSUME IInv, Close
  PROVE  IInv'
<1> USE DEF Close, Go, mainFrame, locals
<1>1. TypeOK'
  BY DEF IInv, TypeOK, Threads, Places, Discovering, MainPlaces, CollectorPlaces
<1>2. MutexInv'
  BY DEF IInv, TypeOK, MutexInv, Threads, Discovering
<1>3. \A p \in Threads : pc'[p] = "write" <=> pc[p] = "write"
  BY DEF IInv, TypeOK, Threads
<1>4. RowsInv' /\ KnownInv'
  BY <1>3 DEF IInv, RowsInv, KnownInv, Distinct
<1>5. SlotInv' /\ BodyInv' /\ ServedInv'
  BY DEF IInv, TypeOK, SlotInv, BodyInv, ServedInv, Threads
<1>6. QED BY <1>1, <1>2, <1>4, <1>5 DEF IInv

\* The environment, and stuttering, touch the flags and the server only.
LEMMA EnvInv ==
  ASSUME IInv, signal_handler \/ PgChange \/ Exited \/ UNCHANGED vars
  PROVE  IInv'
<1>1. UNCHANGED <<mutex, tenants, tenant_count, pc, rows, i, q, kind, si, body,
                  response, known, found>>
  BY DEF signal_handler, PgChange, Exited, envFrame, vars, locals, serving
<1>2. keep_running' \in BOOLEAN /\ running' \in BOOLEAN /\ stalled' \in BOOLEAN
  BY DEF IInv, TypeOK, signal_handler, PgChange, Exited, vars, flags
<1>3. TypeOK' /\ MutexInv'
  BY <1>1, <1>2 DEF IInv, TypeOK, MutexInv
<1>4. RowsInv' /\ KnownInv' /\ SlotInv' /\ BodyInv' /\ ServedInv'
  BY <1>1 DEF IInv, RowsInv, KnownInv, SlotInv, BodyInv, ServedInv, Distinct
<1>5. QED BY <1>3, <1>4 DEF IInv

-----------------------------------------------------------------------------
(* The theorems. *)

\* IInv holds in every reachable state.
THEOREM Invariance == Spec => []IInv
<1>1. IInv /\ [Next]_vars => IInv'
  <2> SUFFICES ASSUME IInv, [Next]_vars PROVE IInv'
    OBVIOUS
  <2>1. ASSUME NEW p \in Threads, discover_tenants(p) PROVE IInv'
    BY <2>1, AskInv, DiscoverLockInv, WriteTenantInv, DiscoverUnlockInv DEF discover_tenants
  <2>2. CASE CollectorStep
    BY <2>1, <2>2, CollectorMoves, UpdateLockInv, UpdateConnectInv, UpdateQueryInv
       DEF CollectorStep, Threads
  <2>3. CASE MainStep
    BY <2>1, <2>3, MainMoves, ServerLockInv, ServerWalkInv, OverflowInv,
       ServerUnlockInv, SendResponseInv, CloseInv
       DEF MainStep, Threads
  <2>4. QED BY <2>2, <2>3, EnvInv DEF Next
<1>2. QED BY <1>1, InitInv, PTL DEF Spec

(***************************************************************************)
(* The variables keep their types; above all tenant_count and the loop     *)
(* indices stay inside the array, whatever number of databases there is.   *)
(***************************************************************************)
THEOREM TypeCorrect == Spec => []TypeOK
<1>1. IInv => TypeOK
  BY DEF IInv
<1>2. QED BY <1>1, Invariance, PTL

(***************************************************************************)
(* A scrape lists names of one finished discovery, each once; what a cut   *)
(* reply leaves out are the last ones.  response_body is overrun only with *)
(* more tenants than it surely has room for.                               *)
(***************************************************************************)
THEOREM OneDiscovery == Spec => []ScrapeNamesOneDiscovery
<1>1. IInv => ScrapeNamesOneDiscovery
  <2> SUFFICES ASSUME IInv PROVE ScrapeNamesOneDiscovery
    OBVIOUS
  <2>1. response \in Seq(tenant_metrics_t) /\ found \in Seq(Databases)
    BY DEF IInv, TypeOK
  <2>2. CASE pc["main"] = "sent" /\ kind = "metrics"
    <3>1. /\ Distinct(found)
          /\ Len(response) <= Len(found)
          /\ Len(response) < Len(found) => Len(response) >= SendRoom
          /\ \A n \in 1..Len(response) : response[n].id = found[n]
      BY <2>2 DEF IInv, ServedInv
    <3>2. DOMAIN response = 1..Len(response) /\ DOMAIN response \subseteq DOMAIN found
      BY <2>1, <3>1
    <3>3. \A m, n \in DOMAIN response : response[m].id = response[n].id => m = n
      BY <3>1, <3>2 DEF Distinct
    <3>4. QED BY <2>2, <3>1, <3>2, <3>3 DEF ScrapeNamesOneDiscovery
  <2>3. CASE ~(pc["main"] = "sent" /\ kind = "metrics")
    BY <2>3 DEF IInv, ServedInv, ScrapeNamesOneDiscovery
  <2>4. QED BY <2>2, <2>3
<1>2. QED BY <1>1, Invariance, PTL

(***************************************************************************)
(* Each critical section holds the mutex, and main destroys it after the   *)
(* collector thread has ended.                                             *)
(***************************************************************************)
THEOREM MutexOutlivesThreads == Spec => []DestroyedUnused
<1>1. IInv => DestroyedUnused
  BY DEF IInv, TypeOK, MutexInv, DestroyedUnused, Threads, MainPlaces, CollectorPlaces
<1>2. QED BY <1>1, Invariance, PTL

-----------------------------------------------------------------------------
(* What is left of tenant isolation, which the program does not keep. *)

\* No step gives a slot that had a database to another one.
SlotKept == \A n \in Slots : tenants[n].id \in {None, tenants'[n].id}

\* The statistics of e were read from the database it names.
OwnStats(e) == \A s \in 1..NStats : e.stat[s] \in {None, e.id}

IsolationInv ==
  /\ \A n \in Slots : OwnStats(tenants[n])
  /\ \A n \in DOMAIN body : OwnStats(body[n])

LEMMA SlotsStayOwn ==
  ASSUME IInv, IsolationInv, [Next]_vars, [SlotKept]_tenants
  PROVE  \A n \in Slots : OwnStats(tenants'[n])
<1>1. tenants \in [Slots -> tenant_metrics_t] /\ \A n \in Slots : OwnStats(tenants[n])
  BY DEF IInv, TypeOK, IsolationInv
<1>2. CASE UNCHANGED tenants
  BY <1>1, <1>2
<1>3. ASSUME NEW p \in Threads, WriteTenant(p) PROVE \A n \in Slots : OwnStats(tenants'[n])
  <2>1. (i \in Slots /\ SlotKept) \/ UNCHANGED tenants
    BY <1>3, DiscoveryAssumption DEF WriteTenant, Slots, IInv, TypeOK
  <2>2. CASE i \in Slots /\ SlotKept
    <3>1. tenants'[i].stat = tenants[i].stat /\ tenants[i].id \in {None, tenants'[i].id}
      BY <1>1, <1>3, <2>2 DEF WriteTenant, SlotKept
    <3>2. OwnStats(tenants'[i])
      BY <1>1, <2>2, <3>1 DEF OwnStats
    <3>3. \A n \in Slots \ {i} : tenants'[n] = tenants[n]
      BY <1>1, <1>3 DEF WriteTenant
    <3>4. QED BY <1>1, <3>2, <3>3
  <2>3. QED BY <1>2, <2>1, <2>2
\* a query is asked of the database the slot names
<1>4. CASE UpdateQuery
  <2>1. i \in Slots /\ q \in 1..NStats
    BY <1>4, DiscoveryAssumption
       DEF UpdateQuery, Go, Slots, IInv, TypeOK, SlotInv
  <2>2. CASE tenants' = [tenants EXCEPT ![i].stat[q] = tenants[i].id]
    <3>1. /\ tenants[i] \in tenant_metrics_t
          /\ tenants'[i] = [tenants[i] EXCEPT !.stat[q] = tenants[i].id]
      BY <1>1, <2>1, <2>2
    <3>2. /\ tenants'[i].id = tenants[i].id
          /\ \A s \in 1..NStats : tenants'[i].stat[s] \in {tenants[i].stat[s], tenants[i].id}
      BY <2>1, <3>1 DEF tenant_metrics_t
    <3>3. OwnStats(tenants'[i])
      BY <1>1, <2>1, <3>2 DEF OwnStats
    <3>4. \A n \in Slots \ {i} : tenants'[n] = tenants[n]
      BY <1>1, <2>2
    <3>5. QED BY <1>1, <3>3, <3>4
  <2>3. QED BY <1>2, <1>4, <2>2 DEF UpdateQuery
<1>5. UNCHANGED tenants \/ UpdateQuery \/ \E p \in Threads : WriteTenant(p)
  <2>1. ASSUME NEW p \in Threads, discover_tenants(p)
        PROVE  UNCHANGED tenants \/ WriteTenant(p)
    BY <2>1 DEF discover_tenants, Ask, DiscoverLock, DiscoverUnlock
  <2>2. CASE CollectorStep
    BY <2>1, <2>2 DEF CollectorStep, CollectorTest, UpdateLock, UpdateConnect,
       UpdateUnlock, CollectorWake, Threads
  <2>3. CASE MainStep
    BY <2>1, <2>3 DEF MainStep, Start, pthread_create, MainTest, handle_request,
       ServerLock, ServerWalk, Overflow, ServerUnlock, send_response, Close, Stop, Join,
       mainFrame, Threads
  <2>4. CASE signal_handler \/ PgChange \/ Exited \/ UNCHANGED vars
    BY <2>4 DEF signal_handler, PgChange, Exited, envFrame, vars
  <2>5. QED BY <2>2, <2>3, <2>4 DEF Next
<1>6. QED BY <1>2, <1>3, <1>4, <1>5

\* A reply gets its entries from the slots.
LEMMA BodyStaysOwn ==
  ASSUME IInv, IsolationInv, [Next]_vars
  PROVE  \A n \in DOMAIN body' : OwnStats(body'[n])
<1>1. \A n \in DOMAIN body : OwnStats(body[n])
  BY DEF IsolationInv
<1>2. CASE ServerWalk
  <2>1. si \in Slots /\ tenants[si] \in tenant_metrics_t
    BY <1>2, DiscoveryAssumption DEF ServerWalk, IInv, TypeOK, Slots
  <2>2. OwnStats(tenants[si]) /\ body \in Seq(tenant_metrics_t)
    BY <2>1 DEF IsolationInv, IInv, TypeOK
  <2>3. CASE body' = Append(body, tenants[si])
    <3>1. /\ DOMAIN body = 1..Len(body) /\ Len(body) \in Nat
          /\ DOMAIN body' = 1..Len(body) + 1
          /\ \A n \in 1..Len(body) : body'[n] = body[n]
          /\ body'[Len(body) + 1] = tenants[si]
      BY <2>1, <2>2, <2>3
    <3>2. \A n \in DOMAIN body' : n \in DOMAIN body \/ n = Len(body) + 1
      BY <3>1
    <3>3. QED BY <1>1, <2>2, <3>1, <3>2
  <2>4. QED BY <1>1, <1>2, <2>3 DEF ServerWalk
<1>3. CASE body' = <<>>
  <2>1. DOMAIN body' = {}
    BY <1>3
  <2>2. QED BY <2>1
<1>4. body' = body \/ body' = <<>> \/ ServerWalk
  <2>1. ASSUME NEW p \in Threads, discover_tenants(p) PROVE body' = body
    BY <2>1 DEF discover_tenants, Ask, DiscoverLock, WriteTenant, DiscoverUnlock,
       discoverFrame, serving
  <2>2. CASE CollectorStep
    BY <2>1, <2>2 DEF CollectorStep, CollectorTest, UpdateLock, UpdateConnect,
       UpdateQuery, UpdateUnlock, CollectorWake, updateFrame, serving, Threads
  <2>3. CASE MainStep
    BY <2>1, <2>3 DEF MainStep, Start, pthread_create, MainTest, handle_request,
       ServerLock, Overflow, ServerUnlock, send_response, Close, Stop, Join, serving,
       Threads
  <2>4. CASE signal_handler \/ PgChange \/ Exited \/ UNCHANGED vars
    BY <2>4 DEF signal_handler, PgChange, Exited, envFrame, vars, serving
  <2>5. QED BY <2>2, <2>3, <2>4 DEF Next
<1>5. CASE body' = body
  BY <1>1, <1>5
<1>6. QED BY <1>2, <1>3, <1>4, <1>5

(***************************************************************************)
(* A tenant's name gets the statistics of another database only by a slot  *)
(* that is given to another database (one is made, or dropped, or comes in *)
(* another order): while no discovery does that, failed queries, failed    *)
(* connections and scrapes at any instant keep the tenants apart.          *)
(***************************************************************************)
THEOREM IsolatedWhileSlotsKept ==
  Spec /\ [][SlotKept]_tenants => []TenantIsolation
<1>1. Init => IsolationInv
  <2> SUFFICES ASSUME Init PROVE IsolationInv
    OBVIOUS
  <2>1. \A n \in Slots : OwnStats(tenants[n])
    BY DEF Init, Unused, OwnStats
  <2>2. DOMAIN body = {}
    BY DEF Init
  <2>3. QED BY <2>1, <2>2 DEF IsolationInv
<1>2. IInv /\ IsolationInv /\ [Next]_vars /\ [SlotKept]_tenants => IsolationInv'
  BY SlotsStayOwn, BodyStaysOwn DEF IsolationInv
<1>3. IsolationInv => TenantIsolation
  BY DEF IsolationInv, OwnStats, TenantIsolation
<1>4. QED BY <1>1, <1>2, <1>3, Invariance, PTL DEF Spec
=============================================================================
