--------------------------------- MODULE Promises --------------------------------
(***************************************************************************)
(* CancelablePromise.js, OptionPromise.js and OptionArrayPromise.js: a     *)
(* promise that can be given up, and one whose nulls, filtered values and  *)
(* rejections are handled at the end of a chain; useDebouncedCallback.js:  *)
(* a call that waits and is given up when the component goes or changes.   *)
(***************************************************************************)
EXTENDS Naturals, Sequences, Selection

CONSTANTS
  Null,        \* null or undefined
  Elements     \* of the arrays that are promised, besides Null

VARIABLES
  original,    \* the promise: "pending", or what it settled with
  isCanceled,
  wrapped,     \* CancelablePromise.getPromise()
  debounced,   \* the debounced functions: whether their call is waiting
  current,     \* the one of the last rendering, Null after the component is gone
  inEffect,    \* the one whose effect has run and whose clean-up has not, or Null
  recalled,    \* those that were called after their clean-up
  called       \* the functions whose callback has run, in order

debounceVars == <<debounced, current, inEffect, recalled, called>>
promiseVars == <<original, isCanceled, wrapped, debounceVars>>

Pending == [is |-> "pending"]
Resolved(v) == [is |-> "resolved", value |-> v]
Rejected(reason) == [is |-> "rejected", reason |-> reason]
NoValue == "no value"
Filtered == "filtered"

--------------------------------------------------------------------------------
(* OptionPromise, with isNone as sized() has it: an empty array is none.   *)

IsReallyNone(v) == v = Null \/ v = <<>>

\* "result" is what the caller's function returns for the value, if it is called;
\* a function of elements or reasons is a function.
Then(p, result) == IF p.is = "resolved" THEN result ELSE p

MapPromise(p, result) ==
  Then(p, IF IsReallyNone(p.value) THEN Rejected(NoValue) ELSE result)
FilterPromise(p, result) ==
  Then(p, IF ~IsReallyNone(p.value) /\ result THEN p ELSE Rejected(Filtered))
Empty(p) == Then(p, Resolved(IsReallyNone(p.value)))
GetOrElsePromise(p, other) ==
  CASE p.is = "rejected" -> other[p.reason]
    [] p.is = "resolved" -> IF IsReallyNone(p.value) THEN other[NoValue] ELSE p.value
    [] OTHER -> Pending
EitherOf(p, reject) ==
  CASE p.is = "rejected" -> <<"left", reject[p.reason]>>
    [] p.is = "resolved" -> IF IsReallyNone(p.value) THEN <<"left", reject[NoValue]>>
                            ELSE <<"right", p.value>>
    [] OTHER -> Pending

\* mapEach() keeps nulls in their places; flatMapEach() drops them.
MapEach(p, f) ==
  MapPromise(p, Resolved([i \in DOMAIN p.value |-> IF p.value[i] = Null THEN Null ELSE f[p.value[i]]]))
NotNull(els) == Selected(els, {els[i] : i \in DOMAIN els} \ {Null})
FlatMapEach(p, f) ==
  MapPromise(p,
    LET mapped == [i \in DOMAIN NotNull(p.value) |-> f[NotNull(p.value)[i]]]
    IN IF \E i \in DOMAIN mapped : mapped[i].is = "rejected"
       THEN mapped[CHOOSE i \in DOMAIN mapped : mapped[i].is = "rejected"]
       ELSE Resolved(NotNull([i \in DOMAIN mapped |-> mapped[i].value])))

--------------------------------------------------------------------------------
Arrays == UNION {[1 .. n -> Elements \cup {Null}] : n \in 0 .. 2}
Outcomes == {Resolved(v) : v \in Arrays \cup {Null}} \cup {Rejected("error")}

Init ==
  /\ original = Pending /\ isCanceled = FALSE /\ wrapped = Pending
  /\ debounced = <<FALSE>> /\ current = 1 /\ inEffect = Null /\ recalled = {} /\ called = <<>>

Token == Rejected("isCanceled")

Settle ==
  /\ original = Pending
  /\ original' \in Outcomes
  /\ UNCHANGED <<isCanceled, wrapped, debounceVars>>

\* The continuation of the original promise runs later than it settles.
Continue ==
  /\ original # Pending /\ wrapped = Pending
  /\ wrapped' = IF isCanceled THEN Token ELSE original
  /\ UNCHANGED <<original, isCanceled, debounceVars>>

Cancel ==
  /\ ~isCanceled
  /\ isCanceled' = TRUE
  /\ UNCHANGED <<original, wrapped, debounceVars>>

\* Calls that come while one is waiting are put together with it. Whoever kept a
\* function of an earlier rendering can call it, even after its clean-up.
CallDebounced ==
  \E i \in DOMAIN debounced :
     /\ debounced' = [debounced EXCEPT ![i] = TRUE]
     /\ recalled' = IF i \in {current, inEffect} THEN recalled ELSE recalled \cup {i}
     /\ UNCHANGED <<original, isCanceled, wrapped, current, inEffect, called>>

TimePasses ==
  \E i \in DOMAIN debounced :
     /\ debounced[i] /\ Len(called) < 2
     /\ debounced' = [debounced EXCEPT ![i] = FALSE]
     /\ called' = Append(called, i)
     /\ UNCHANGED <<original, isCanceled, wrapped, current, inEffect, recalled>>

\* A rendering with other dependencies makes another function. React lets the
\* effects of one rendering run before the next.
ChangeCallback ==
  /\ current # Null /\ inEffect = current /\ Len(debounced) < 3
  /\ debounced' = Append(debounced, FALSE)
  /\ current' = Len(debounced) + 1
  /\ UNCHANGED <<original, isCanceled, wrapped, inEffect, recalled, called>>

Unmount ==
  /\ current # Null /\ inEffect = current
  /\ current' = Null
  /\ UNCHANGED <<original, isCanceled, wrapped, debounced, inEffect, recalled, called>>

\* A mutant: the clean-up cancels what the component has by then.
CleanUpCurrent ==
  /\ inEffect # current
  /\ debounced' = [i \in DOMAIN debounced |-> debounced[i] /\ i # current]
  /\ inEffect' = current
  /\ UNCHANGED <<original, isCanceled, wrapped, current, recalled, called>>

\* The effects run after the rendering is on the page: the clean-up of the function
\* before, if there was one, and the effect of the new one, if there is one.
RunEffects ==
  /\ inEffect # current
  /\ debounced' = [i \in DOMAIN debounced |-> debounced[i] /\ i # inEffect]
  /\ inEffect' = current
  /\ UNCHANGED <<original, isCanceled, wrapped, current, recalled, called>>

Next ==
  \/ Settle \/ Continue \/ Cancel
  \/ CallDebounced \/ TimePasses \/ ChangeCallback \/ Unmount \/ RunEffects

Spec == Init /\ [][Next]_promiseVars

--------------------------------------------------------------------------------
(* Properties                                                              *)

\* A promise that is cancelled before its continuation runs is never handed on, even
\* if it had settled (CancelablePromise). A call that waits when the clean-up of its
\* function runs never comes: until then it may, also after a rendering made another
\* function or the component went, and afterwards only if that function is called
\* again (useDebouncedCallback).
GivenUpStaysGivenUp ==
  [][/\ isCanceled /\ wrapped = Pending => wrapped' \in {Pending, Token}
     /\ called' # called =>
          called'[Len(called')] \in {current, inEffect} \cup recalled]_promiseVars

\* The end of a chain is told of each null, empty array, filter or rejection on the
\* way, once and of the first; nulls in an array keep their places or are dropped.
ChainsEndOnce ==
  LET filtered == FilterPromise(original, Len(original.value) # 1)
      same(p) == MapPromise(p, Resolved(p.value))
      itself == [r \in {"error", NoValue, Filtered} |-> r]
      reason(p) == GetOrElsePromise(p, itself)
  IN original # Pending =>
       /\ reason(same(original)) = reason(original)
       /\ filtered.is = "rejected" => reason(same(filtered)) = filtered.reason
       /\ filtered.is = "resolved" => filtered = original /\ Empty(original) = Resolved(FALSE)
       /\ EitherOf(original, itself)
            = <<IF original.is = "resolved" /\ ~IsReallyNone(original.value) THEN "right" ELSE "left",
                reason(original)>>
       /\ MapEach(original, [e \in Elements |-> e]) = same(original)
       /\ LET mapped == FlatMapEach(original, [e \in Elements |-> Resolved(e)])
              failing == FlatMapEach(original, [e \in Elements |-> Rejected("error")])
          IN /\ mapped.is = same(original).is
             /\ mapped.is = "resolved" =>
                  /\ \A i \in DOMAIN mapped.value : mapped.value[i] # Null
                  /\ failing.is = "rejected" <=> mapped.value # <<>>
================================================================================
