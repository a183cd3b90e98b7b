--------------------------------- MODULE Queues ---------------------------------
(***************************************************************************)
(* The bounded sequences: Queue.js, EvictingQueue.js, Stack.js.            *)
(* What is added is numbered, so that the order shows.                     *)
(***************************************************************************)
EXTENDS Naturals, Sequences, SequencesExt, Selection

CONSTANTS
  Capacity,      \* of all three, at least 1: an EvictingQueue of 0 has no bound
  MaxAdds   \* bound on what is added

VARIABLES queue, evicting, stack, added
vars == <<queue, evicting, stack, added>>

Init == queue = <<>> /\ evicting = <<>> /\ stack = <<>> /\ added = 0

New == added + 1
Adds == added < MaxAdds /\ added' = New

(***************************************************************************)
(* Queue.                                                                  *)
(***************************************************************************)
\* offer returns false, and add throws, when the queue is full.
Offer ==
  /\ Adds
  /\ queue' = IF Len(queue) >= Capacity THEN queue ELSE Append(queue, New)
  /\ UNCHANGED <<evicting, stack>>

Poll == queue # <<>> /\ queue' = Tail(queue) /\ UNCHANGED <<evicting, stack, added>>

RemoveIndex(i) ==
  /\ i \in DOMAIN queue
  /\ queue' = RemoveAt(queue, i)
  /\ UNCHANGED <<evicting, stack, added>>

\* removeMatching: a loop from the end to the front, and what it has after n turns.
Matching(s, P) ==
  LET after[n \in 0 .. Len(s)] ==
        IF n = 0 THEN [rest |-> s, matched |-> <<>>]
        ELSE LET so == after[n - 1]
                 i == Len(s) - n + 1
             IN IF so.rest[i] \notin P THEN so
                ELSE [rest |-> RemoveAt(so.rest, i), matched |-> Append(so.matched, so.rest[i])]
  IN [after[Len(s)] EXCEPT !.matched = Reverse(@)]

RemoveMatching(P) ==
  /\ queue' = Matching(queue, P).rest
  /\ UNCHANGED <<evicting, stack, added>>

(***************************************************************************)
(* EvictingQueue: offer; the rest is inherited.                            *)
(***************************************************************************)
OfferEvicting ==
  /\ Adds
  /\ evicting' = Append(IF Len(evicting) = Capacity THEN Tail(evicting) ELSE evicting, New)
  /\ UNCHANGED <<queue, stack>>

PollEvicting ==
  /\ evicting # <<>> /\ evicting' = Tail(evicting) /\ UNCHANGED <<queue, stack, added>>

(***************************************************************************)
(* Stack.                                                                  *)
(***************************************************************************)
Push ==
  /\ Adds
  /\ LET pushed == Append(stack, New) IN stack' = IF Len(pushed) > Capacity THEN Tail(pushed) ELSE pushed
  /\ UNCHANGED <<queue, evicting>>

Pop == stack # <<>> /\ stack' = Front(stack) /\ UNCHANGED <<queue, evicting, added>>
Drain == stack # <<>> /\ stack' = <<>> /\ UNCHANGED <<queue, evicting, added>>

\* peek(n), n at least 1: the last n, the newest first.
Peek(s, n) == Reverse(SubSeq(s, (IF n > Len(s) THEN 0 ELSE Len(s) - n) + 1, Len(s)))
\* copy: what is peeked, pushed again from the end.
Copy(s) == Reverse(Peek(s, Capacity))

Next ==
  \/ Offer \/ Poll \/ OfferEvicting \/ PollEvicting \/ Push \/ Pop \/ Drain
  \/ \E i \in 1..Capacity : RemoveIndex(i)
  \/ \E P \in SUBSET ToSet(queue) : RemoveMatching(P)
Spec == Init /\ [][Next]_vars

(***************************************************************************)
(* Properties.                                                             *)
(***************************************************************************)
Ascending(s) == \A i \in 1..(Len(s) - 1) : s[i] < s[i + 1]
\* None outgrows its bound or changes the order of what it holds; an
\* evicting queue holds the newest; what is removed by a predicate is what
\* matches, in order; a copy is the same stack.
InOrderAndBounded ==
  /\ \A s \in {queue, evicting, stack} : Len(s) <= Capacity /\ Ascending(s)
  /\ \A P \in SUBSET (1..MaxAdds) :
       LET removed == Matching(queue, P) IN
       /\ removed.matched = Selected(queue, P)
       /\ removed.rest = Selected(queue, 1..MaxAdds \ P)
  /\ Copy(stack) = stack
================================================================================
