------------------------------ MODULE SlotHandoff ------------------------------
(***************************************************************************)
(* What a pool of async slots promises to the calls that ask for one,      *)
(* whatever the order in which the engine runs their continuations:        *)
(*   - a call enters at once only while fewer than Size slots are held;    *)
(*     otherwise it joins the end of one queue;                            *)
(*   - a queued call is let in only from the head of the queue and only    *)
(*     against a credit, and a credit is made only by giving a slot back;  *)
(*   - giving a slot back while somebody waits without a credit makes a    *)
(*     credit: no hand-over is lost.                                       *)
(* PermitPool implements this module.                                      *)
(***************************************************************************)
EXTENDS Naturals, Sequences

CONSTANTS
  Calls,  \* the calls that may ask for a slot
  Size    \* the number of slots

VARIABLES
  queue,    \* the waiting calls, first come first served
  credits,  \* how many of them, from the head, have been promised a slot
  held      \* how many slots are in use

handoffVars == <<queue, credits, held>>

Lesser(a, b) == IF a <= b THEN a ELSE b

Init ==
  /\ queue = <<>>
  /\ credits = 0
  /\ held = 0

Enter ==
  /\ held < Size
  /\ held' = held + 1
  /\ UNCHANGED <<queue, credits>>

Join(c) ==
  /\ held >= Size
  /\ queue' = Append(queue, c)
  /\ UNCHANGED <<credits, held>>

\* k of the held slots come back.
GiveBack(k) ==
  /\ held' = held - k
  /\ credits' = Lesser(credits + k, Len(queue))
  /\ UNCHANGED queue

\* A slot that came back before is given back once more: the pool cannot tell.
GiveBackAgain ==
  /\ credits' = Lesser(credits + 1, Len(queue))
  /\ UNCHANGED <<queue, held>>

LetIn ==
  /\ credits > 0
  /\ queue' = Tail(queue)
  /\ credits' = credits - 1
  /\ held' = held + 1

Next ==
  \/ Enter
  \/ \E c \in Calls : Join(c)
  \/ \E k \in 1..held : GiveBack(k)
  \/ GiveBackAgain
  \/ LetIn

Spec == Init /\ [][Next]_handoffVars
================================================================================
