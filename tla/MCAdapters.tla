------------------------------ MODULE MCAdapters -------------------------------
(***************************************************************************)
(* The storage adapters for TLC: three adapters with a table each, and two *)
(* items that together pass the high-water mark.                           *)
(***************************************************************************)
EXTENDS StorageAdapters

CONSTANTS a1, a2, a3
ThreeAdapters == {a1, a2, a3}
Partitions == [a \in ThreeAdapters |-> IF a = a3 THEN "reports" ELSE IF a = a2 THEN "lenses" ELSE "store"]
================================================================================
