----------------------------- MODULE Analytics -----------------------------
(***************************************************************************)
(* The analytics of the Go API: internal/handlers/analytics.go,            *)
(* services/analytics_service.go, repositories/analytics_repository.go and *)
(* the NewDB of database/postgres.go.  setupRouter does not register these *)
(* handlers; they are modelled as gin would run them, one goroutine for    *)
(* each request, behind the token check that Backend models.               *)
(*                                                                         *)
(* Of a value only its source is kept: the database ("real"), a constant   *)
(* of the repository ("mock"), or none yet ("zero", as Go initialises it). *)
(***************************************************************************)
EXTENDS Integers, Sequences, FiniteSets

CONSTANTS Requests,  \* each is made, answered and made again
          MaxOpen    \* SetMaxOpenConns: 25

ASSUME AnalyticsAssumption == MaxOpen \in Nat \ {0}

\* The repository's operations, in the order GetFullAnalytics calls them,
\* and the handlers, by what each wants of the repository.
Operations == <<"slow", "tables", "connections", "size", "performance">>
Handlers == {Operations} \cup {<<Operations[i]>> : i \in 1..5}

\* What a handler has still to do when some operations are done.
Suffixes == UNION {{SubSeq(h, i, Len(h)) : i \in 1..6} : h \in Handlers}

\* GetConnectionStats asks two queries, one after the other.
Queries(op) == IF op = "connections" THEN 2 ELSE 1

\* The parts of an operation's result that a query may fill in before it
\* fails: fields of ConnectionStats, else the first rows or columns and the
\* rest.  ConnectionsPercent is computed of "max" and "total" in the end.
Parts(op) == IF op = "connections" THEN {"max", "total", "states"}
                                   ELSE {"first", "rest"}

\* Those that the query fills in that comes after n others.
Filled(op, n) == IF op # "connections" THEN Parts(op)
                 ELSE IF n = 0 THEN {"max"} ELSE {"total", "states"}

\* The repository's local result, its parts in got read from the database.
Local(op, got) == [f \in Parts(op) |-> IF f \in got THEN "real" ELSE "zero"]

\* What getMockSlowQueries and its likes return, made anew for each call.
Mock(op) == [f \in Parts(op) |-> "mock"]

VARIABLES db,      \* "open", or "nil" when NewDB could not connect
          pg,      \* PostgreSQL: "up", "down" or "stalled"
          inUse,   \* connections of the pool that are given out
          pc,      \* of each request
          todo,    \* the operations it has still to do
          asked,   \* queries done of the first of them
          read,    \* the parts of its local result that are filled in
          out      \* the sections of the reply
vars == <<db, pg, inUse, pc, todo, asked, read, out>>

\* sqlx.Connect pings; on an error NewDB's caller is left with nil.
Init ==
  /\ \/ pg = "up" /\ db = "open"
     \/ pg = "down" /\ db = "nil"
  /\ inUse = 0
  /\ pc = [r \in Requests |-> "idle"]
  /\ todo = [r \in Requests |-> <<>>] /\ asked = [r \in Requests |-> 0]
  /\ read = [r \in Requests |-> {}]
  /\ out = [r \in Requests |-> <<>>]

Go(r, from, to) == pc[r] = from /\ pc' = [pc EXCEPT ![r] = to]

Request(r, h) ==
  /\ Go(r, "idle", "acquire")
  /\ todo' = [todo EXCEPT ![r] = h]
  /\ UNCHANGED <<db, pg, inUse, asked, read, out>>

\* The first operation of todo returns s; its local result is forgotten.
EndOperation(r, s) ==
  /\ out' = [out EXCEPT ![r] = Append(@, s)]
  /\ read' = [read EXCEPT ![r] = {}]
  /\ todo' = [todo EXCEPT ![r] = Tail(@)]
  /\ asked' = [asked EXCEPT ![r] = 0]
  /\ pc' = [pc EXCEPT ![r] = IF Len(todo[r]) = 1 THEN "reply" ELSE "acquire"]

\* r.db == nil
Unconnected(r) ==
  /\ db = "nil" /\ pc[r] = "acquire"
  /\ EndOperation(r, Mock(Head(todo[r])))
  /\ UNCHANGED <<db, pg, inUse>>

\* database/sql: a query waits until fewer than MaxOpen connections are out.
Acquire(r) ==
  /\ db = "open" /\ inUse < MaxOpen
  /\ Go(r, "acquire", "run")
  /\ inUse' = inUse + 1
  /\ UNCHANGED <<db, pg, todo, asked, read, out>>

\* Scan stores a column, or Select appends a row, to the local result.
Scan(r) ==
  /\ pc[r] = "run" /\ pg = "up"
  /\ \E f \in Filled(Head(todo[r]), asked[r]) \ read[r] :
        read' = [read EXCEPT ![r] = @ \cup {f}]
  /\ UNCHANGED <<db, pg, inUse, pc, todo, asked, out>>

\* A query comes to an end, and Select, Get and Scan give its connection
\* back.  It has no timeout: while PostgreSQL is stalled it goes on.
Release(r) ==
  /\ pc[r] = "run" /\ pg # "stalled" /\ inUse' = inUse - 1
  /\ UNCHANGED <<db, pg>>

LastQuery(r) == asked[r] + 1 = Queries(Head(todo[r]))
NextQuery(r) == /\ asked' = [asked EXCEPT ![r] = @ + 1]
                /\ pc' = [pc EXCEPT ![r] = "acquire"]
                /\ UNCHANGED <<todo, read, out>>

\* The result is what has been scanned.
Result(r) == Local(Head(todo[r]), read[r])
Complete(r) == pg = "up" /\ Filled(Head(todo[r]), asked[r]) \subseteq read[r]

\* Mutant: one query too many is asked.
QueryDone_OffByOne(r) ==
  /\ Release(r) /\ Complete(r)
  /\ \/ asked[r] = Queries(Head(todo[r])) /\ EndOperation(r, Result(r))
     \/ asked[r] < Queries(Head(todo[r])) /\ NextQuery(r)

\* Mutant: between the two queries the connection is kept.
QueryDone_Kept(r) ==
  /\ pc[r] = "run" /\ Complete(r)
  /\ \/ LastQuery(r) /\ Release(r) /\ EndOperation(r, Result(r))
     \/ ~ LastQuery(r) /\ NextQuery(r) /\ UNCHANGED <<db, pg, inUse>>

QueryDone(r) ==
  /\ Release(r) /\ Complete(r)
  /\ \/ LastQuery(r) /\ EndOperation(r, Result(r))
     \/ ~ LastQuery(r) /\ NextQuery(r)

\* Mutant: the constants replace only what is not filled in.
QueryMocked_Partly(r) ==
  /\ Release(r)
  /\ EndOperation(r, [f \in Parts(Head(todo[r])) |->
                       IF f \in read[r] THEN "real" ELSE "mock"])

\* Mutant: on an error the rows are not closed.
QueryMocked_Leak(r) ==
  /\ pc[r] = "run" /\ pg # "stalled"
  /\ EndOperation(r, Mock(Head(todo[r])))
  /\ UNCHANGED <<db, pg, inUse>>

\* An error, which a query may meet while PostgreSQL is up too, after some
\* columns or rows or before; or no rows for "slow" and "tables".  The mock is
\* returned in place of the local result, and the error is not handed on.
QueryMocked(r) ==
  /\ Release(r)
  /\ EndOperation(r, Mock(Head(todo[r])))

\* The reply is 200 and "Success" in every case.
Reply(r) ==
  /\ Go(r, "reply", "idle")
  /\ out' = [out EXCEPT ![r] = <<>>]
  /\ UNCHANGED <<db, pg, inUse, todo, asked, read>>

PgChange ==
  /\ pg' \in {"up", "down", "stalled"} \ {pg}
  /\ UNCHANGED <<db, inUse, pc, todo, asked, read, out>>

Handle(r) ==
  Unconnected(r) \/ Scan(r) \/ QueryDone(r) \/ QueryMocked(r) \/ Reply(r)

Next == \/ PgChange
        \/ \E r \in Requests : \/ Handle(r) \/ Acquire(r)
                               \/ \E h \in Handlers : Request(r, h)

Spec == Init /\ [][Next]_vars

\* Goroutines are scheduled, and database/sql hands a connection that is
\* given back to one of the waiting queries, picked at random.
FairSpec ==
  Spec /\ \A r \in Requests : WF_vars(Handle(r)) /\ SF_vars(Acquire(r))

-----------------------------------------------------------------------------
(* Properties. *)

OpNames == {Operations[i] : i \in 1..5}
Sections == UNION {[Parts(op) -> {"zero", "real", "mock"}] : op \in OpNames}

\* Every variable keeps its type: no more than MaxOpen connections are out,
\* no operation asks for more than its queries.
TypeOK ==
  /\ db \in {"open", "nil"} /\ pg \in {"up", "down", "stalled"}
  /\ inUse \in 0..MaxOpen
  /\ pc \in [Requests -> {"idle", "acquire", "run", "reply"}]
  /\ todo \in [Requests -> Suffixes]
  /\ asked \in [Requests -> 0..1]
  /\ read \in [Requests -> SUBSET UNION {Parts(op) : op \in OpNames}]
  /\ out \in [Requests -> Seq(Sections)]

(***************************************************************************)
(* However queries fail, every connection that is out belongs to a query   *)
(* that is running: none is lost to the pool, in 25 errors or in any       *)
(* number, and none is held while its handler waits for another.           *)
(***************************************************************************)
ConnectionsReturned ==
  inUse = Cardinality({r \in Requests : pc[r] = "run"})

(***************************************************************************)
(* A section is measured in all of its parts or made up in all of them,    *)
(* and no part is left out: also when PostgreSQL fails between the two     *)
(* queries of GetConnectionStats, or in the middle of a result, with a     *)
(* local result partly filled in.                                          *)
(***************************************************************************)
WholeSections ==
  \A r \in Requests : \A i \in 1..Len(out[r]) :
     \E source \in {"real", "mock"} :
        \A f \in DOMAIN out[r][i] : out[r][i][f] = source

(***************************************************************************)
(* Every request is answered, though its queries compete for a pool that   *)
(* may be smaller than the number of requests, unless PostgreSQL stalls    *)
(* for ever.                                                               *)
(***************************************************************************)
NoEndlessStall == <>[](pg # "stalled")
RequestsAnswered ==
  NoEndlessStall => \A r \in Requests : pc[r] = "acquire" ~> pc[r] = "reply"
=============================================================================
