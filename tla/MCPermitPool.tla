----------------------------- MODULE MCPermitPool ------------------------------
(***************************************************************************)
(* Small instances of PermitPool for TLC.  Calls of getPermit() are        *)
(* interchangeable, and so are calls of flush().                           *)
(***************************************************************************)
EXTENDS PermitPool, TLC

\* The callers that give every permit back once: no permit.release() of a permit
\* given back before.
ReleasedTwice == \E r \in Requests : phase[r] = "released" /\ Release(r)

ReleaseOnceSpec == Init /\ [][Next /\ ~ReleasedTwice]_vars

CallSymmetry == Permutations(Requests) \cup Permutations(Flushes)
================================================================================
