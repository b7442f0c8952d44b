--------------------------- MODULE AnalyticsProofs ---------------------------
(***************************************************************************)
(* For any number of requests and any size of the pool: no failure of a    *)
(* query costs a connection, and no section is partly made up, although    *)
(* the local result of a query that fails is partly filled in.             *)
(*                                                                         *)
(* That inUse stays in its range follows from counting: it is the number   *)
(* of requests at "run".  The set of requests may be infinite; those with  *)
(* a connection are finitely many, which is part of the invariant.         *)
(***************************************************************************)
EXTENDS Analytics, FiniteSetTheorems, SequenceTheorems, TLAPS

\* The requests that have a connection.
Running == {r \in Requests : pc[r] = "run"}

CountInv == IsFiniteSet(Running) /\ inUse = Cardinality(Running)

\* A request has something to do exactly while it waits or runs, and has not
\* yet asked all queries of the operation it is at.
TodoInv ==
  \A r \in Requests :
    /\ pc[r] \in {"acquire", "run"} <=> todo[r] # <<>>
    /\ todo[r] # <<>> => asked[r] < Queries(Head(todo[r]))
    /\ todo[r] = <<>> => asked[r] = 0

\* The local result belongs to the operation under way, and between its
\* queries holds what the first has filled in.
ReadInv ==
  \A r \in Requests :
    /\ todo[r] = <<>> => read[r] = {}
    /\ todo[r] # <<>> => read[r] \subseteq Parts(Head(todo[r]))
    /\ asked[r] = 1 => "max" \in read[r]

\* A section comes whole from the database or from the constants.
Whole == UNION {UNION {[Parts(op) -> {s}] : s \in {"real", "mock"}} : op \in OpNames}
OutInv == out \in [Requests -> Seq(Whole)]

\* TypeOK in the words used here; what it says of the results follows from
\* ReadInv and OutInv.
TypeInv ==
  /\ db \in {"open", "nil"} /\ pg \in {"up", "down", "stalled"}
  /\ inUse \in 0..MaxOpen
  /\ pc \in [Requests -> {"idle", "acquire", "run", "reply"}]
  /\ todo \in [Requests -> Suffixes]
  /\ asked \in [Requests -> 0..1]
  /\ read \in [Requests -> SUBSET UNION {Parts(op) : op \in OpNames}]

IInv == TypeInv /\ CountInv /\ TodoInv /\ ReadInv /\ OutInv

-----------------------------------------------------------------------------
(* The list of operations. *)

Names == {"slow", "tables", "connections", "size", "performance"}

LEMMA OperationsType == Operations \in Seq(Names) /\ Len(Operations) = 5
BY DEF Operations, Names

LEMMA NamesAreOps == Names = OpNames
<1>1. OpNames \subseteq Names
  BY DEF OpNames, Operations, Names
<1>2. /\ Operations[1] = "slow" /\ Operations[2] = "tables"
      /\ Operations[3] = "connections" /\ Operations[4] = "size"
      /\ Operations[5] = "performance"
  BY DEF Operations
<1>3. Names \subseteq OpNames
  BY <1>2, SMT DEF OpNames, Names
<1>4. QED BY <1>1, <1>3

LEMMA SuffixOf ==
  ASSUME NEW h \in Handlers, NEW i \in 1..6
  PROVE  SubSeq(h, i, Len(h)) \in Suffixes
BY SMT DEF Suffixes

LEMMA HandlerType ==
  ASSUME NEW h \in Handlers
  PROVE  h \in Seq(Names) /\ Len(h) \in 1..5
<1>1. Operations \in Seq(Names) /\ Len(Operations) = 5
  BY OperationsType
<1>2. CASE h = Operations
  BY <1>1, <1>2
<1>3. ASSUME NEW i \in 1..5, h = <<Operations[i]>> PROVE h \in Seq(Names) /\ Len(h) = 1
  <2>1. Operations[i] \in Names
    BY <1>1, ElementOfSeq
  <2>2. QED BY <1>3, <2>1
<1>4. QED BY <1>2, <1>3 DEF Handlers

\* A handler begins with all of its operations.
LEMMA HandlerIsSuffix ==
  ASSUME NEW h \in Handlers
  PROVE  h \in Suffixes /\ h # <<>>
<1>1. h \in Seq(Names) /\ Len(h) \in 1..5
  BY HandlerType
<1>2. SubSeq(h, 1, Len(h)) = h
  BY <1>1, SubSeqFull
<1>3. 1 \in 1..6
  OBVIOUS
<1>4. h \in Suffixes
  BY <1>2, <1>3, SuffixOf
<1>5. h # <<>>
  BY <1>1, EmptySeq
<1>6. QED BY <1>4, <1>5

LEMMA EmptyIsSuffix == <<>> \in Suffixes
<1>1. Operations \in Handlers
  BY DEF Handlers
<1>2. SubSeq(Operations, 6, Len(Operations)) = <<>> /\ 6 \in 1..6
  BY OperationsType, SubSeqEmpty
<1>3. QED BY <1>1, <1>2, SuffixOf

\* What is left after an operation is a suffix again, and empty after the last.
LEMMA TailIsSuffix ==
  ASSUME NEW s \in Suffixes, s # <<>>
  PROVE  /\ Tail(s) \in Suffixes /\ (Tail(s) = <<>> <=> Len(s) = 1)
         /\ Head(s) \in OpNames
<1>1. PICK h \in Handlers, i \in 1..6 : s = SubSeq(h, i, Len(h))
  BY SMT DEF Suffixes
<1> DEFINE n == Len(h)
<1>2. h \in Seq(Names) /\ n \in 1..5
  BY HandlerType
<1> HIDE DEF n
<1>3. i <= n
  BY <1>1, <1>2, SubSeqEmpty DEF n
<1>4. i \in 1..n /\ n \in i..n /\ i + 1 \in 1..6
  BY <1>2, <1>3
<1> USE DEF n
<1>5. Tail(s) = SubSeq(h, i + 1, Len(h))
  BY <1>1, <1>2, <1>4, HeadTailOfSubSeq
<1>6. s \in Seq(Names)
  <2>1. \A j \in i..Len(h) : h[j] \in Names
    BY <1>2, <1>4, ElementOfSeq
  <2>2. QED BY <1>1, <1>2, <2>1, SubSeqProperties
<1>7. Len(Tail(s)) = Len(s) - 1 /\ Tail(s) \in Seq(Names) /\ Len(s) \in Nat
  BY <1>6, HeadTailProperties, LenProperties
<1>8. Tail(s) = <<>> <=> Len(s) = 1
  <2>1. Tail(s) # <<>> => Len(Tail(s)) # 0
    BY <1>7, EmptySeq
  <2>2. Tail(s) = <<>> => Len(Tail(s)) = 0
    BY EmptySeq
  <2>3. Len(Tail(s)) = 0 <=> Len(s) = 1
    BY <1>7
  <2>4. QED BY <2>1, <2>2, <2>3
<1>9. Tail(s) \in Suffixes
  BY <1>4, <1>5, SuffixOf
<1>10. Head(s) \in OpNames
  BY <1>6, HeadTailProperties, NamesAreOps
<1>11. QED BY <1>8, <1>9, <1>10

LEMMA QueriesType == \A op : Queries(op) \in {1, 2}
BY DEF Queries

-----------------------------------------------------------------------------
(* Results. *)

\* The mock is whole.
LEMMA MockIsWhole == ASSUME NEW op \in OpNames PROVE Mock(op) \in Whole
<1>1. Mock(op) \in [Parts(op) -> {"mock"}]
  BY DEF Mock
<1>2. QED BY <1>1 DEF Whole

\* A local result with every part filled in is whole.
LEMMA FilledIsWhole ==
  ASSUME NEW op \in OpNames, NEW got, Parts(op) \subseteq got
  PROVE  Local(op, got) \in Whole
<1>1. Local(op, got) \in [Parts(op) -> {"real"}]
  BY DEF Local
<1>2. QED BY <1>1 DEF Whole

\* The operation's queries together fill in all of its parts, and a query
\* nothing but parts.
LEMMA QueriesFillAll ==
  ASSUME NEW op, NEW n \in 0..1, n < Queries(op)
  PROVE  /\ Filled(op, n) \subseteq Parts(op)
         /\ n + 1 # Queries(op) => "max" \in Filled(op, n)
         /\ n = 0 /\ n + 1 = Queries(op) => Parts(op) = Filled(op, n)
         /\ n = 1 => Parts(op) = {"max"} \cup Filled(op, n)
<1>1. CASE op = "connections"
  BY <1>1 DEF Queries, Filled, Parts
<1>2. CASE op # "connections"
  BY <1>2 DEF Queries, Filled, Parts
<1>3. QED BY <1>1, <1>2

-----------------------------------------------------------------------------
(* Counting the connections. *)

\* A request that was not running gets a connection.
LEMMA OneMore ==
  ASSUME TypeInv, CountInv, NEW r \in Requests, pc[r] # "run",
         pc' = [pc EXCEPT ![r] = "run"]
  PROVE  IsFiniteSet(Running') /\ Cardinality(Running') = inUse + 1
<1>1. Running' = Running \cup {r} /\ r \notin Running
  BY DEF Running, TypeInv
<1>2. QED BY <1>1, FS_AddElement DEF CountInv

\* A running request gives its connection back, so there was one.
LEMMA OneLess ==
  ASSUME TypeInv, CountInv, NEW r \in Requests, pc[r] = "run",
         NEW p, p # "run", pc' = [pc EXCEPT ![r] = p]
  PROVE  /\ IsFiniteSet(Running') /\ Cardinality(Running') = inUse - 1
         /\ inUse >= 1
<1>1. Running' = Running \ {r} /\ r \in Running
  BY DEF Running, TypeInv
<1>2. IsFiniteSet(Running') /\ Cardinality(Running') = inUse - 1
  BY <1>1, FS_RemoveElement DEF CountInv
<1>3. Cardinality(Running') \in Nat
  BY <1>2, FS_CardinalityType
<1>4. QED BY <1>2, <1>3 DEF TypeInv

\* Who does not run before and after a step does not count.
LEMMA SameCount ==
  ASSUME TypeInv, CountInv, NEW r \in Requests, pc[r] # "run",
         NEW p, p # "run", pc' = [pc EXCEPT ![r] = p]
  PROVE  Running' = Running
BY DEF Running, TypeInv

-----------------------------------------------------------------------------
(* One operation ends. *)

\* The request's lists after EndOperation, whatever became of the connection.
LEMMA OperationEnds ==
  ASSUME IInv, NEW r \in Requests, pc[r] \in {"acquire", "run"},
         NEW s \in Whole, EndOperation(r, s)
  PROVE  /\ todo' \in [Requests -> Suffixes] /\ asked' \in [Requests -> 0..1]
         /\ read' \in [Requests -> SUBSET UNION {Parts(op) : op \in OpNames}]
         /\ pc' \in [Requests -> {"idle", "acquire", "run", "reply"}]
         /\ pc' = [pc EXCEPT ![r] = pc'[r]] /\ pc'[r] \in {"acquire", "reply"}
         /\ TodoInv' /\ ReadInv' /\ OutInv'
<1> USE DEF EndOperation
<1>1. todo[r] \in Suffixes /\ todo[r] # <<>>
  BY DEF IInv, TypeInv, TodoInv
<1>2. Tail(todo[r]) \in Suffixes /\ (Tail(todo[r]) = <<>> <=> Len(todo[r]) = 1)
  BY <1>1, TailIsSuffix
<1>3. todo' \in [Requests -> Suffixes] /\ asked' \in [Requests -> 0..1]
  BY <1>2 DEF IInv, TypeInv
<1>4. /\ pc' \in [Requests -> {"idle", "acquire", "run", "reply"}]
      /\ pc' = [pc EXCEPT ![r] = pc'[r]] /\ pc'[r] \in {"acquire", "reply"}
  BY DEF IInv, TypeInv
<1>5. TodoInv'
  <2>1. /\ todo'[r] = Tail(todo[r]) /\ asked'[r] = 0
        /\ pc'[r] = IF Tail(todo[r]) = <<>> THEN "reply" ELSE "acquire"
    BY <1>2 DEF IInv, TypeInv
  <2>2. \A q \in Requests \ {r} :
           todo'[q] = todo[q] /\ asked'[q] = asked[q] /\ pc'[q] = pc[q]
    BY DEF IInv, TypeInv
  <2>3. /\ pc'[r] \in {"acquire", "run"} <=> todo'[r] # <<>>
        /\ asked'[r] < Queries(Head(todo'[r]))
        /\ todo'[r] = <<>> => asked'[r] = 0
    <3>1. asked'[r] < Queries(Head(todo'[r]))
      BY <2>1 DEF Queries
    <3>2. CASE Tail(todo[r]) = <<>>
      <4>1. pc'[r] = "reply" /\ todo'[r] = <<>>
        BY <2>1, <3>2
      <4>2. QED BY <2>1, <3>1, <4>1
    <3>3. CASE Tail(todo[r]) # <<>>
      <4>1. pc'[r] = "acquire" /\ todo'[r] # <<>>
        BY <2>1, <3>3
      <4>2. QED BY <2>1, <3>1, <4>1
    <3>4. QED BY <3>2, <3>3
  <2>4. ASSUME NEW q \in Requests \ {r}
        PROVE  /\ pc'[q] \in {"acquire", "run"} <=> todo'[q] # <<>>
               /\ todo'[q] # <<>> => asked'[q] < Queries(Head(todo'[q]))
               /\ todo'[q] = <<>> => asked'[q] = 0
    BY <2>2 DEF IInv, TodoInv
  <2>5. QED BY <2>3, <2>4 DEF TodoInv
<1>6. OutInv'
  <2>1. Append(out[r], s) \in Seq(Whole)
    BY AppendProperties DEF IInv, OutInv
  <2>2. QED BY <2>1 DEF IInv, OutInv
<1>7. read' \in [Requests -> SUBSET UNION {Parts(op) : op \in OpNames}]
  BY DEF IInv, TypeInv
<1>8. ReadInv'
  <2>1. read'[r] = {} /\ asked'[r] = 0
    BY DEF IInv, TypeInv
  <2>2. \A q \in Requests \ {r} :
           todo'[q] = todo[q] /\ asked'[q] = asked[q] /\ read'[q] = read[q]
    BY DEF IInv, TypeInv
  <2>3. QED BY <2>1, <2>2 DEF IInv, ReadInv
<1>9. QED BY <1>3, <1>4, <1>5, <1>6, <1>7, <1>8

-----------------------------------------------------------------------------
(* The invariant. *)

LEMMA InitInv == Init => IInv
<1> SUFFICES ASSUME Init PROVE IInv
  OBVIOUS
<1>1. Running = {}
  BY DEF Init, Running
<1>2. CountInv
  BY <1>1, FS_EmptySet DEF Init, CountInv
<1>3. TodoInv
  BY DEF Init, TodoInv
<1>4. OutInv
  BY EmptySeq DEF Init, OutInv
<1>5. TypeInv
  BY EmptyIsSuffix, AnalyticsAssumption DEF Init, TypeInv
<1>6. ReadInv
  BY DEF Init, ReadInv
<1>7. QED BY <1>2, <1>3, <1>4, <1>5, <1>6 DEF IInv

\* A request that waits or runs is at one of its handler's operations.
LEMMA UnderWay ==
  ASSUME IInv, NEW r \in Requests, pc[r] \in {"acquire", "run"}
  PROVE  /\ todo[r] # <<>> /\ Head(todo[r]) \in OpNames
         /\ asked[r] < Queries(Head(todo[r]))
BY TailIsSuffix DEF IInv, TypeInv, TodoInv

LEMMA StepInv == IInv /\ [Next]_vars => IInv'
<1> SUFFICES ASSUME IInv, [Next]_vars PROVE IInv'
  OBVIOUS
<1> USE DEF Go
<1>1. ASSUME NEW r \in Requests, NEW h \in Handlers, Request(r, h) PROVE IInv'
  <2>1. h \in Suffixes /\ h # <<>>
    BY HandlerIsSuffix
  <2>2. todo[r] = <<>> /\ asked[r] = 0
    BY <1>1 DEF Request, IInv, TodoInv
  <2>3. TypeInv'
    BY <1>1, <2>1 DEF Request, IInv, TypeInv
  <2>4. CountInv'
    BY <1>1, SameCount DEF Request, IInv, CountInv
  <2>5. TodoInv'
    BY <1>1, <2>1, <2>2, QueriesType DEF Request, IInv, TypeInv, TodoInv
  <2>6. ReadInv'
    BY <1>1, <2>2 DEF Request, IInv, TypeInv, ReadInv
  <2>7. QED BY <1>1, <2>3, <2>4, <2>5, <2>6 DEF Request, IInv, OutInv
<1>2. ASSUME NEW r \in Requests, Unconnected(r) PROVE IInv'
  <2>1. /\ todo' \in [Requests -> Suffixes] /\ asked' \in [Requests -> 0..1]
        /\ read' \in [Requests -> SUBSET UNION {Parts(op) : op \in OpNames}]
        /\ pc' \in [Requests -> {"idle", "acquire", "run", "reply"}]
        /\ pc' = [pc EXCEPT ![r] = pc'[r]] /\ pc'[r] \in {"acquire", "reply"}
        /\ TodoInv' /\ ReadInv' /\ OutInv'
    BY <1>2, OperationEnds, UnderWay, MockIsWhole DEF Unconnected, IInv
  <2>2. CountInv'
    BY <1>2, <2>1, SameCount DEF Unconnected, IInv, CountInv
  <2>3. TypeInv'
    BY <1>2, <2>1 DEF Unconnected, IInv, TypeInv
  <2>4. QED BY <2>1, <2>2, <2>3 DEF IInv
<1>3. ASSUME NEW r \in Requests, Acquire(r) PROVE IInv'
  <2>1. IsFiniteSet(Running') /\ Cardinality(Running') = inUse + 1
    BY <1>3, OneMore DEF Acquire, IInv
  <2>2. TypeInv'
    BY <1>3, AnalyticsAssumption DEF Acquire, IInv, TypeInv
  <2>3. TodoInv'
    BY <1>3 DEF Acquire, IInv, TypeInv, TodoInv
  <2>4. QED
    BY <1>3, <2>1, <2>2, <2>3 DEF Acquire, IInv, CountInv, ReadInv, OutInv
\* with a query that ends, its connection goes back
<1>4. ASSUME NEW r \in Requests, NEW s \in Whole, Release(r), EndOperation(r, s)
      PROVE  IInv'
  <2>1. /\ todo' \in [Requests -> Suffixes] /\ asked' \in [Requests -> 0..1]
        /\ read' \in [Requests -> SUBSET UNION {Parts(op) : op \in OpNames}]
        /\ pc' \in [Requests -> {"idle", "acquire", "run", "reply"}]
        /\ pc' = [pc EXCEPT ![r] = pc'[r]] /\ pc'[r] \in {"acquire", "reply"}
        /\ TodoInv' /\ ReadInv' /\ OutInv'
    BY <1>4, OperationEnds DEF Release
  <2>2. /\ IsFiniteSet(Running') /\ Cardinality(Running') = inUse - 1
        /\ inUse >= 1
    BY <1>4, <2>1, OneLess DEF Release, IInv
  <2>3. CountInv'
    BY <1>4, <2>2 DEF Release, CountInv
  <2>4. TypeInv'
    BY <1>4, <2>1, <2>2, AnalyticsAssumption
       DEF Release, IInv, TypeInv
  <2>5. QED BY <2>1, <2>3, <2>4 DEF IInv
<1>5. ASSUME NEW r \in Requests, Release(r), Complete(r), ~ LastQuery(r),
             NextQuery(r)
      PROVE  IInv'
  <2>1. /\ IsFiniteSet(Running') /\ Cardinality(Running') = inUse - 1
        /\ inUse >= 1
    BY <1>5, OneLess DEF Release, NextQuery, IInv
  \* the one operation with two queries has asked the first
  <2>2. asked[r] = 0 /\ Queries(Head(todo[r])) = 2 /\ todo[r] # <<>>
    BY <1>5, QueriesType DEF Release, LastQuery, IInv, TypeInv, TodoInv
  <2>3. TypeInv'
    BY <1>5, <2>1, <2>2, AnalyticsAssumption DEF Release, NextQuery, IInv, TypeInv
  <2>4. TodoInv'
    BY <1>5, <2>2 DEF NextQuery, Release, IInv, TypeInv, TodoInv
  <2>5. ReadInv'
    <3>1. "max" \in read[r]
      BY <1>5, <2>2, QueriesFillAll DEF Complete
    <3>2. QED BY <1>5, <2>2, <3>1 DEF NextQuery, IInv, TypeInv, ReadInv
  <2>6. QED
    BY <1>5, <2>1, <2>3, <2>4, <2>5 DEF Release, NextQuery, IInv, CountInv, OutInv
\* the last query of an operation completes its local result
<1>6. ASSUME NEW r \in Requests, QueryDone(r) PROVE IInv'
  <2>1. CASE ~ LastQuery(r)
    BY <1>5, <1>6, <2>1 DEF QueryDone
  <2>2. CASE LastQuery(r)
    <3> DEFINE op == Head(todo[r])
    <3>1. op \in OpNames /\ asked[r] \in 0..1 /\ asked[r] < Queries(op)
      BY <1>6, UnderWay DEF QueryDone, Release, IInv, TypeInv
    <3>2. Filled(op, asked[r]) \subseteq read[r] /\ asked[r] + 1 = Queries(op)
      BY <1>6, <2>2 DEF QueryDone, Complete, LastQuery
    <3>3. asked[r] = 1 => "max" \in read[r]
      BY DEF IInv, ReadInv
    <3> HIDE DEF op
    <3>4. Parts(op) \subseteq read[r]
      BY <3>1, <3>2, <3>3, QueriesFillAll
    <3>5. Result(r) \in Whole
      BY <3>1, <3>4, FilledIsWhole DEF Result, op
    <3>6. Release(r) /\ EndOperation(r, Result(r))
      BY <1>6, <2>2 DEF QueryDone
    <3>7. QED BY <1>4, <3>5, <3>6
  <2>3. QED BY <2>1, <2>2
<1>7. ASSUME NEW r \in Requests, QueryMocked(r) PROVE IInv'
  <2>1. Mock(Head(todo[r])) \in Whole
    BY <1>7, UnderWay, MockIsWhole DEF QueryMocked, Release
  <2>2. QED BY <1>4, <1>7, <2>1 DEF QueryMocked
<1>8. ASSUME NEW r \in Requests, Reply(r) PROVE IInv'
  <2>1. OutInv'
    BY <1>8, EmptySeq DEF Reply, IInv, OutInv
  <2>2. CountInv'
    BY <1>8, SameCount DEF Reply, IInv, CountInv
  <2>3. TypeInv'
    BY <1>8, <2>1 DEF Reply, IInv, TypeInv
  <2>4. TodoInv'
    BY <1>8 DEF Reply, IInv, TypeInv, TodoInv
  <2>5. ReadInv'
    BY <1>8 DEF Reply, IInv, ReadInv
  <2>6. QED BY <2>1, <2>2, <2>3, <2>4, <2>5 DEF IInv
<1>9. ASSUME NEW r \in Requests, Scan(r) PROVE IInv'
  <2>1. PICK f \in Filled(Head(todo[r]), asked[r]) :
           read' = [read EXCEPT ![r] = @ \cup {f}]
    BY <1>9 DEF Scan
  <2>2. /\ Head(todo[r]) \in OpNames /\ asked[r] \in 0..1
        /\ asked[r] < Queries(Head(todo[r])) /\ todo[r] # <<>>
    BY <1>9, UnderWay DEF Scan, IInv, TypeInv
  <2>3. f \in Parts(Head(todo[r]))
    BY <2>2, QueriesFillAll
  <2>4. read' \in [Requests -> SUBSET UNION {Parts(op) : op \in OpNames}]
    BY <2>1, <2>2, <2>3 DEF IInv, TypeInv
  <2>5. ReadInv'
    BY <1>9, <2>1, <2>2, <2>3 DEF Scan, IInv, TypeInv, ReadInv
  <2>6. TypeInv'
    BY <1>9, <2>4 DEF Scan, IInv, TypeInv
  <2>7. CountInv' /\ TodoInv' /\ OutInv'
    BY <1>9 DEF Scan, IInv, CountInv, Running, TodoInv, OutInv
  <2>8. QED BY <2>5, <2>6, <2>7 DEF IInv
<1>10. CASE PgChange \/ UNCHANGED vars
  BY <1>10 DEF PgChange, vars, IInv, TypeInv, CountInv, Running, TodoInv,
               ReadInv, OutInv
<1>11. QED
  BY <1>1, <1>2, <1>3, <1>6, <1>7, <1>8, <1>9, <1>10 DEF Next, Handle

(***************************************************************************)
(* The inductive invariant holds in every reachable state.                 *)
(***************************************************************************)
THEOREM Invariance == Spec => []IInv
BY InitInv, StepInv, PTL DEF Spec

(***************************************************************************)
(* Every variable keeps its type: never more than MaxOpen connections are  *)
(* out, and none is given back twice.                                      *)
(***************************************************************************)
THEOREM TypeCorrect == Spec => []TypeOK
<1>1. IInv => TypeOK
  <2>1. Whole \subseteq Sections
    BY DEF Whole, Sections
  <2>2. OutInv => out \in [Requests -> Seq(Sections)]
    BY <2>1, SeqMonotonic DEF OutInv
  <2>3. QED BY <2>2 DEF IInv, TypeInv, TypeOK
<1>2. QED BY <1>1, Invariance, PTL

(***************************************************************************)
(* The connections that are out are those of the queries that run, however *)
(* many requests there are and however their queries end.                  *)
(***************************************************************************)
THEOREM NoConnectionLost == Spec => []ConnectionsReturned
<1>1. IInv => ConnectionsReturned
  BY DEF IInv, CountInv, Running, ConnectionsReturned
<1>2. QED BY <1>1, Invariance, PTL

(***************************************************************************)
(* Each section of each reply is measured in every part or made up in      *)
(* every part, wherever its queries fail.                                  *)
(***************************************************************************)
THEOREM SectionsAreWhole == Spec => []WholeSections
<1>1. IInv => WholeSections
  <2> SUFFICES ASSUME IInv, NEW r \in Requests, NEW i \in 1..Len(out[r])
               PROVE  \E source \in {"real", "mock"} :
                         \A f \in DOMAIN out[r][i] : out[r][i][f] = source
    BY DEF WholeSections
  <2>1. out[r][i] \in Whole
    BY ElementOfSeq DEF IInv, OutInv
  <2>2. PICK op \in OpNames :
           \E source \in {"real", "mock"} : out[r][i] \in [Parts(op) -> {source}]
    BY <2>1 DEF Whole
  <2>3. PICK source \in {"real", "mock"} : out[r][i] \in [Parts(op) -> {source}]
    BY <2>2
  <2>4. QED BY <2>3
<1>2. QED BY <1>1, Invariance, PTL
=============================================================================
