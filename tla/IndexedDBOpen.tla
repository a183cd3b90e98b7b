----------------------------- MODULE IndexedDBOpen -----------------------------
(***************************************************************************)
(* How the adapters of one IndexedDB database come to be ready             *)
(* (IndexedDBAdapter.js: initialize, _initializeInternal,                  *)
(* _initializeComplete, _createTables, _setupDB).                          *)
(*                                                                         *)
(* All stores of one name share a database, one table each.  A table can   *)
(* be made only while the version of the database goes up, which needs all *)
(* other connections closed; so an adapter that finds its table missing    *)
(* closes its connection and opens again with the next version.  Adapters  *)
(* live in several frames: the browser runs the requests of the database   *)
(* one at a time and each adapter takes its own events in order.           *)
(***************************************************************************)
EXTENDS Naturals, Sequences, FiniteSets

CONSTANTS
  Adapters,     \* the adapters of the database
  Table,        \* Table[a]: the partition a keeps its items in
  MayLose,      \* whether the browser may swallow the answer to an open()
  MayFail,      \* whether an open() may be answered with an error
  MayDelete     \* whether deleteStorage() may be called

Undefined == "undefined"
Current   == 0             \* open(name) without a version
NoRequest == [by |-> "nobody", version |-> Current, kind |-> "none"]

VARIABLES
  version,      \* the version of the database, 0 when there is none
  tables,       \* its object stores
  requests,     \* the open and delete requests that wait, first come first
  notified,     \* whether the first request has sent its versionchange events
  conn,         \* the connection of each adapter
  events,       \* the events each adapter has yet to handle
  ready,        \* #ready
  timer,        \* #initializeTimeoutId: unset, running or over
  deleted,      \* whether the database was deleted (history)
  lost          \* whether an answer was lost (history)

vars == <<version, tables, requests, notified, conn, events, ready, timer, deleted, lost>>
browser == <<version, tables, notified, deleted, lost>>

Init ==
  /\ version = 0 /\ tables = {} /\ requests = <<>> /\ notified = FALSE
  /\ conn = [a \in Adapters |-> "none"]
  /\ events = [a \in Adapters |-> <<>>]
  /\ ready = [a \in Adapters |-> Undefined]
  /\ timer = [a \in Adapters |-> "unset"]
  /\ deleted = FALSE /\ lost = FALSE

(***************************************************************************)
(* The adapter.                                                            *)
(***************************************************************************)
\* _initializeInternal: the timer is started by the first call only.
InitializeInternal(a, v) ==
  /\ timer' = [timer EXCEPT ![a] = IF @ = "unset" THEN "running" ELSE @]
  /\ requests' = Append(requests, [by |-> a, version |-> v, kind |-> "open"])

\* A mutant: the guard of line 189 is gone.
CompleteAnew(a, outcome) ==
  /\ ready' = [ready EXCEPT ![a] = outcome]
  /\ timer' = [timer EXCEPT ![a] = "over"]

\* _initializeComplete: the first outcome stays.
InitializeComplete(a, outcome) ==
  /\ ready' = [ready EXCEPT ![a] = IF @ = Undefined THEN outcome ELSE @]
  /\ timer' = [timer EXCEPT ![a] = "over"]

Initialize(a) ==
  /\ timer[a] = "unset"
  /\ InitializeInternal(a, Current)
  /\ UNCHANGED <<browser, conn, events, ready>>

TimeOut(a) ==
  /\ timer[a] = "running"
  /\ InitializeComplete(a, "failed")
  /\ UNCHANGED <<browser, requests, conn, events>>

\* The event a handles next, and the rest.
Handles(a, event) == events[a] # <<>> /\ Head(events[a]) = event
Handled(a) == events' = [events EXCEPT ![a] = Tail(@)]

\* _setupDB: ready, or open once more with the next version.
TableMissing(a) ==
  /\ Table[a] \notin tables
  /\ conn' = [conn EXCEPT ![a] = "closed"]
  /\ InitializeInternal(a, version + 1)
  /\ UNCHANGED ready

\* A mutant: the table is not looked for.
TableTakenForGranted(a) ==
  /\ InitializeComplete(a, "ready")
  /\ UNCHANGED <<requests, conn>>

TableFound(a) ==
  /\ Table[a] \in tables
  /\ InitializeComplete(a, "ready")
  /\ UNCHANGED <<requests, conn>>

SetupDB(a) ==
  /\ Handles(a, "success") /\ Handled(a)
  /\ TableMissing(a) \/ TableFound(a)
  /\ UNCHANGED browser

OnError(a) ==
  /\ Handles(a, "error") /\ Handled(a)
  /\ InitializeComplete(a, "failed")
  /\ UNCHANGED <<browser, requests, conn>>

\* A mutant: the connection stays open.
KeepsConnection(a) ==
  /\ Handles(a, "versionchange") /\ Handled(a)
  /\ UNCHANGED <<browser, requests, conn, ready, timer>>

\* onversionchange, set by _setupDB.
OnVersionChange(a) ==
  /\ Handles(a, "versionchange") /\ Handled(a)
  /\ conn' = [conn EXCEPT ![a] = "closed"]
  /\ UNCHANGED <<browser, requests, ready, timer>>

\* deleteStorage: the whole database, other tables with it.
DeleteStorage(a) ==
  /\ MayDelete /\ ~deleted /\ ready[a] = "ready"
  /\ conn' = [conn EXCEPT ![a] = "closed"]
  /\ requests' = Append(requests, [by |-> a, version |-> Current, kind |-> "delete"])
  /\ deleted' = TRUE
  /\ UNCHANGED <<version, tables, notified, events, ready, timer, lost>>

(***************************************************************************)
(* The browser.                                                            *)
(***************************************************************************)
First == IF requests = <<>> THEN NoRequest ELSE Head(requests)
Asked(r) == IF r.version = Current THEN IF version = 0 THEN 1 ELSE version ELSE r.version
Exclusive == \/ First.kind = "delete"
             \/ First.kind = "open" /\ Asked(First) > version
AllClosed == \A a \in Adapters : conn[a] \notin {"open", "stuck"}
Answered(event) == /\ requests' = Tail(requests)
                   /\ notified' = FALSE
                   /\ events' = [events EXCEPT ![First.by] = Append(@, event)]

\* A request that needs the database for itself asks the open connections to close.
Notify ==
  /\ Exclusive /\ ~notified
  /\ notified' = TRUE
  /\ events' = [a \in Adapters |->
                  IF conn[a] = "open" THEN Append(events[a], "versionchange") ELSE events[a]]
  /\ UNCHANGED <<version, tables, requests, conn, ready, timer, deleted, lost>>

\* onupgradeneeded runs _createTables, in the transaction that raises the version.
CreateTables(a) == tables' = tables \cup {Table[a]}
Upgrade ==
  /\ First.kind = "open" /\ Exclusive /\ notified /\ AllClosed
  /\ CreateTables(First.by)
  /\ version' = Asked(First)
  /\ conn' = [conn EXCEPT ![First.by] = "open"]
  /\ Answered("success")
  /\ UNCHANGED <<ready, timer, deleted, lost>>

Open ==
  /\ First.kind = "open" /\ Asked(First) = version
  /\ conn' = [conn EXCEPT ![First.by] = "open"]
  /\ Answered("success")
  /\ UNCHANGED <<version, tables, ready, timer, deleted, lost>>

\* A version below that of the database, or an error of the browser's own.
OpenFails ==
  /\ First.kind = "open" /\ (MayFail \/ Asked(First) < version)
  /\ Answered("error")
  /\ UNCHANGED <<version, tables, conn, ready, timer, deleted, lost>>

\* "indexedDB.open() does not trigger any event": the connection may be open all the same.
AnswerLost ==
  /\ MayLose /\ First.kind = "open" /\ ~Exclusive
  /\ requests' = Tail(requests)
  /\ \E c \in {"none", "stuck"} : conn' = [conn EXCEPT ![First.by] = c]
  /\ lost' = TRUE
  /\ UNCHANGED <<version, tables, notified, deleted, events, ready, timer>>

DeleteDatabase ==
  /\ First.kind = "delete" /\ notified /\ AllClosed
  /\ requests' = Tail(requests) /\ notified' = FALSE
  /\ version' = 0 /\ tables' = {}
  /\ UNCHANGED <<conn, events, ready, timer, deleted, lost>>

Browser == Notify \/ Upgrade \/ Open \/ OpenFails \/ AnswerLost \/ DeleteDatabase
Handlers(a) == SetupDB(a) \/ OnError(a) \/ OnVersionChange(a)
Next ==
  \/ \E a \in Adapters : Initialize(a) \/ TimeOut(a) \/ Handlers(a) \/ DeleteStorage(a)
  \/ Browser

\* Events are delivered and requests answered; that a time-out comes is an
\* assumption of its own (TimersFire).
Spec == Init /\ [][Next]_vars
Fairness == WF_vars(Browser) /\ \A a \in Adapters : WF_vars(Handlers(a))
TimersFire == WF_vars(\E a \in Adapters : TimeOut(a))

(***************************************************************************)
(* Properties.                                                             *)
(***************************************************************************)
\* The types of all variables.
TypeOK ==
  /\ version \in Nat /\ tables \subseteq {Table[a] : a \in Adapters}
  /\ requests \in Seq([by : Adapters, version : Nat, kind : {"open", "delete"}])
  /\ notified \in BOOLEAN /\ deleted \in BOOLEAN /\ lost \in BOOLEAN
  /\ conn \in [Adapters -> {"none", "open", "closed", "stuck"}]
  /\ events \in [Adapters -> Seq({"success", "error", "versionchange"})]
  /\ ready \in [Adapters -> {Undefined, "ready", "failed"}]
  /\ timer \in [Adapters -> {"unset", "running", "over"}]

\* An adapter that races others for the next version never asks for one the
\* database has passed, which would fail its initialisation for good: it
\* closes its connection in the step that queues the request, and the
\* upgrade of another waits for that.  (After a deletion the versions begin
\* anew, and one asked for before may overtake one asked for later.)
NoVersionError ==
  ~deleted => \A i \in DOMAIN requests :
    requests[i].version # Current => requests[i].version >= version

\* A ready adapter with an open connection has its table.
ReadyHasTable == \A a \in Adapters : ready[a] = "ready" /\ conn[a] = "open" => Table[a] \in tables

\* An upgrade closes the connections of all other adapters, so none is made
\* without need: every version has added one table.
NoUselessUpgrade == ~deleted => version = Cardinality(tables)

\* What the first initialisations of several adapters of one database, in
\* whatever order, may never do to each other.
OpeningIsSafe == NoVersionError /\ ReadyHasTable /\ NoUselessUpgrade

\* The time-out, a late success and a late error leave the first outcome.
OneOutcome == [][\A a \in Adapters : ready[a] # Undefined => ready'[a] = ready[a]]_vars

\* Adapters that wait for each other's connections to close never wait in a
\* circle: as long as no answer is lost nobody needs the time-out.
OpensWithoutTimer == \A a \in Adapters : timer[a] = "running" ~> timer[a] = "over" \/ lost

\* With its time-out initialize() is settled for every adapter, whatever the
\* browser swallows.
EveryInitSettles ==
  TimersFire => \A a \in Adapters : timer[a] = "running" ~> ready[a] # Undefined
================================================================================
