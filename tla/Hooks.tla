---------------------------------- MODULE Hooks ---------------------------------
(***************************************************************************)
(* Results that come late: a component that uses usePromise and            *)
(* useBackgrounded, and several deferreds waited for with whenAll          *)
(* (DeferredUtil.coffee).                                                  *)
(***************************************************************************)
EXTENDS Naturals, Sequences, FiniteSets

CONSTANTS
  MaxRenders,   \* bound on the changes of the dependencies
  Deferreds, Nothing

VARIABLES
  \* usePromise: the dependencies of the last render and of the last effect,
  \* the effects not cleaned up, the state with the effect it tells of, and
  \* the effects whose promise has not settled
  alive, deps, effect, mounted, state, unsettled,
  \* useBackgrounded: the tab, the DOM, what the observer reported last, the state
  hidden, domVisible, observed, backgrounded,
  \* whenAll: what is left, the first error, its promise; history: who settled how
  count, error, master, settled
promised == <<deps, effect, mounted, state, unsettled>>
page == <<hidden, domVisible, observed, backgrounded>>
deferred == <<count, error, master, settled>>
vars == <<alive, promised, page, deferred>>

State(status, e) == [status |-> status, of |-> e]
Init ==
  /\ alive = TRUE
  /\ deps = 1 /\ effect = 0 /\ mounted = {} /\ state = State("idle", 0) /\ unsettled = {}
  /\ hidden \in BOOLEAN /\ domVisible \in BOOLEAN /\ observed = domVisible
  /\ backgrounded = (hidden \/ ~domVisible)
  /\ count = Cardinality(Deferreds) /\ error = Nothing /\ settled = <<>>
  /\ master = IF Deferreds = {} THEN "resolved" ELSE Nothing   \* Promise.resolve()

(***************************************************************************)
(* usePromise.                                                             *)
(***************************************************************************)
\* Effects run after the render; until then the state is that of the one before.
Render ==
  /\ alive /\ effect = deps /\ deps < MaxRenders /\ deps' = deps + 1
  /\ UNCHANGED <<alive, effect, mounted, state, unsettled, page, deferred>>

\* The clean-up of the effect before, and this one: pending at once.
RunEffect ==
  /\ alive /\ effect # deps /\ effect' = deps /\ mounted' = {deps}
  /\ state' = State("pending", deps) /\ unsettled' = unsettled \cup {deps}
  /\ UNCHANGED <<alive, deps, page, deferred>>

Unmount ==
  /\ alive /\ alive' = FALSE /\ mounted' = {}
  /\ UNCHANGED <<deps, effect, state, unsettled, page, deferred>>

\* A mutant: the promise of an effect that was cleaned up sets the state.
SettleAlways(e) ==
  /\ e \in unsettled /\ unsettled' = unsettled \ {e}
  /\ \E status \in {"fulfilled", "rejected"} : state' = State(status, e)
  /\ UNCHANGED <<alive, deps, effect, mounted, page, deferred>>

Settle(e) ==
  /\ e \in unsettled /\ unsettled' = unsettled \ {e}
  /\ \E status \in {"fulfilled", "rejected"} :
       state' = IF e \in mounted THEN State(status, e) ELSE state
  /\ UNCHANGED <<alive, deps, effect, mounted, page, deferred>>

(***************************************************************************)
(* useBackgrounded: either event sets the state to what it tells itself.   *)
(***************************************************************************)
SwitchTab ==
  /\ hidden' = ~hidden
  /\ backgrounded' = IF alive THEN hidden' ELSE backgrounded
  /\ UNCHANGED <<alive, domVisible, observed, promised, deferred>>

ChangeDom ==
  /\ domVisible' = ~domVisible
  /\ UNCHANGED <<alive, hidden, observed, backgrounded, promised, deferred>>

\* The observer reports later, and only what differs from its last report.
Observe ==
  /\ alive /\ observed # domVisible /\ observed' = domVisible
  /\ backgrounded' = ~domVisible
  /\ UNCHANGED <<alive, hidden, domVisible, promised, deferred>>

(***************************************************************************)
(* whenAll.  What a deferred is rejected with is an error, never falsy.    *)
(***************************************************************************)
Left == {d \in Deferreds : \A i \in DOMAIN settled : settled[i].by # d}

Reject(d) ==
  /\ count' = count - 1 /\ error' = IF error = Nothing THEN d ELSE error
  /\ master' = IF count' = 0 THEN error' ELSE master
  /\ settled' = Append(settled, [by |-> d, how |-> "rejected"])
  /\ UNCHANGED <<alive, promised, page>>

Resolve(d) ==
  /\ count' = count - 1
  /\ master' = IF count' # 0 THEN master ELSE IF error # Nothing THEN error ELSE "resolved"
  /\ settled' = Append(settled, [by |-> d, how |-> "resolved"])
  /\ UNCHANGED <<error, alive, promised, page>>

Next ==
  \/ Render \/ RunEffect \/ Unmount \/ \E e \in unsettled : Settle(e)
  \/ SwitchTab \/ ChangeDom \/ Observe
  \/ \E d \in Left : Resolve(d) \/ Reject(d)
Spec == Init /\ [][Next]_vars

(***************************************************************************)
(* Properties.                                                             *)
(***************************************************************************)
\* However promises settle, the state tells of the last effect that ran.
StateIsOfLastEffect ==
  /\ state.of = effect
  /\ alive => (state.status = "pending" <=> effect \in unsettled)

\* Where the tab and the DOM agree, and the observer has reported, so does
\* the state.  (Where they differ it is what the last event told.)
BackgroundedWhenBothAgree ==
  alive /\ observed = domVisible /\ hidden = ~domVisible => backgrounded = hidden

\* whenAll settles with the last of its deferreds, with the error of the
\* first that was rejected.
WhenAllSettlesLast ==
  /\ master # Nothing <=> Left = {}
  /\ master # Nothing =>
       LET rejections == {i \in DOMAIN settled : settled[i].how = "rejected"}
       IN IF rejections = {} THEN master = "resolved"
          ELSE \E first \in rejections :
                 master = settled[first].by /\ \A i \in rejections : first <= i
================================================================================
