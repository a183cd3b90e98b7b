-------------------------------- MODULE Selection -------------------------------
(***************************************************************************)
(* Array.prototype.filter and what lodash has like it.  The same as        *)
(* SelectSeq(s, LAMBDA x : x \in T), about which there are no proofs.      *)
(***************************************************************************)
EXTENDS Naturals, Sequences

\* The elements of s that are in T, in their order
Selected(s, T) ==
  LET upTo[i \in 0 .. Len(s)] ==
        IF i = 0 THEN <<>> ELSE IF s[i] \in T THEN Append(upTo[i - 1], s[i]) ELSE upTo[i - 1]
  IN upTo[Len(s)]
================================================================================
