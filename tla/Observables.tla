------------------------------ MODULE Observables -------------------------------
(***************************************************************************)
(* Observable.js: one subscription to the merge of several observables.    *)
(* What an observable performs is one of                                   *)
(*   sync    a value and its completion at once (wrapSync)                 *)
(*   empty   completion at once (empty)                                    *)
(*   promise a value or an error, and completion (wrap)                    *)
(*   stream  values and completion over time; returns what unsubscribes    *)
(*   late    the same, but returns a promise of what unsubscribes          *)
(* A stream stops when it is unsubscribed from.                            *)
(***************************************************************************)
EXTENDS Naturals, Sequences, FiniteSets

CONSTANTS
  Sources,
  Kinds,       \* the kinds chosen from
  MaxEvents    \* bound on what is delivered

VARIABLES
  kind,
  events,        \* what the subscriber was called with
  completed,     \* sources whose complete was called
  subscribed, unsubscribed,
  result,        \* of perform: "none", "pending", "fn"; of an async function a promise
  didUnsubscribe,  \* of the subscription to each source
  stopped        \* how often the function that unsubscribes was called
vars == <<kind, events, completed, subscribed, unsubscribed, result, didUnsubscribe, stopped>>

Init ==
  /\ kind \in [Sources -> Kinds] /\ events = <<>> /\ completed = {}
  /\ subscribed = FALSE /\ unsubscribed = 0
  /\ result = [s \in Sources |-> "none"]
  /\ didUnsubscribe = [s \in Sources |-> FALSE] /\ stopped = [s \in Sources |-> 0]

OfKind(K) == {s \in Sources : kind[s] \in K}

\* Subscribing performs all sources, in any order: the values of the
\* synchronous ones are delivered before subscribe returns.
Subscribe ==
  /\ ~subscribed /\ subscribed' = TRUE
  /\ events' = [i \in 1..Cardinality(OfKind({"sync"})) |-> "value"]
  /\ completed' = OfKind({"sync", "empty"})
  /\ result' = [s \in Sources |-> CASE kind[s] = "stream" -> "fn" [] kind[s] = "late" -> "pending"
                                    [] OTHER -> "none"]
  /\ UNCHANGED <<kind, unsubscribed, didUnsubscribe, stopped>>

Running(s) == subscribed /\ s \notin completed /\ stopped[s] = 0
Room == Len(events) < MaxEvents

\* wrap: the error, then complete all the same.  Nothing stops it.
Settle(s) ==
  /\ kind[s] = "promise" /\ Running(s)
  /\ \E e \in {"value", "error"} : events' = Append(events, e)
  /\ completed' = completed \cup {s}
  /\ UNCHANGED <<kind, subscribed, unsubscribed, result, didUnsubscribe, stopped>>

Value(s) ==
  /\ kind[s] \in {"stream", "late"} /\ Running(s) /\ Room
  /\ events' = Append(events, "value")
  /\ UNCHANGED <<kind, completed, subscribed, unsubscribed, result, didUnsubscribe, stopped>>

Complete(s) ==
  /\ kind[s] \in {"stream", "late"} /\ Running(s)
  /\ completed' = completed \cup {s}
  /\ UNCHANGED <<kind, events, subscribed, unsubscribed, result, didUnsubscribe, stopped>>

\* A mutant: what it resolves to is kept, however that was asked for.
PerformedUnheeded(s) ==
  /\ result[s] = "pending"
  /\ result' = [result EXCEPT ![s] = "fn"]
  /\ UNCHANGED <<kind, events, completed, subscribed, unsubscribed, didUnsubscribe, stopped>>

\* The promise of a late source resolves; it is called if that was asked for.
Performed(s) ==
  /\ result[s] = "pending"
  /\ result' = [result EXCEPT ![s] = "fn"]
  /\ stopped' = [stopped EXCEPT ![s] = IF didUnsubscribe[s] THEN @ + 1 ELSE @]
  /\ UNCHANGED <<kind, events, completed, subscribed, unsubscribed, didUnsubscribe>>

\* merge: Promise.all of the completions, then complete.
MergeCompletes ==
  /\ subscribed /\ completed = Sources /\ ~\E i \in DOMAIN events : events[i] = "complete"
  /\ events' = Append(events, "complete")
  /\ UNCHANGED <<kind, completed, subscribed, unsubscribed, result, didUnsubscribe, stopped>>

\* unsubscribe, called twice at most: every subscription does it once.
Unsubscribe ==
  /\ subscribed /\ unsubscribed < 2 /\ unsubscribed' = unsubscribed + 1
  /\ didUnsubscribe' = [s \in Sources |-> TRUE]
  /\ stopped' = [s \in Sources |->
                   IF result[s] = "fn" /\ ~didUnsubscribe[s] THEN stopped[s] + 1 ELSE stopped[s]]
  /\ UNCHANGED <<kind, events, completed, subscribed, result>>

Next ==
  \/ Subscribe \/ MergeCompletes \/ Unsubscribe
  \/ \E s \in Sources : Settle(s) \/ Value(s) \/ Complete(s) \/ Performed(s)
\* Promises settle.
Promised == MergeCompletes \/ \E s \in Sources : Settle(s) \/ Performed(s)
Spec == Init /\ [][Next]_vars /\ WF_vars(Promised)

(***************************************************************************)
(* Properties.                                                             *)
(***************************************************************************)
\* The merge completes last, and once; and no source is stopped twice or
\* unasked, whether its perform had returned when it was unsubscribed from.
MergeEndsOnce ==
  /\ \A i \in DOMAIN events : events[i] = "complete" => i = Len(events)
  /\ \A s \in Sources : stopped[s] <= (IF unsubscribed > 0 THEN 1 ELSE 0)

\* Once unsubscribed, every stream is stopped, the late ones too; a merge
\* all of whose sources have completed completes.  (What is asked and what
\* answers it never cease once they hold: this says ~> of both.)
SourcesStop ==
  <>[](/\ \A s \in Sources : unsubscribed > 0 /\ kind[s] \in {"stream", "late"} => stopped[s] = 1
       /\ completed = Sources /\ Sources # {} => \E i \in DOMAIN events : events[i] = "complete")
================================================================================
