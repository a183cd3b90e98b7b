--------------------------- MODULE MCPersistentCache ---------------------------
(***************************************************************************)
(* Small instances of PersistentCache for TLC.                             *)
(***************************************************************************)
EXTENDS PersistentCache

AllCalls == [op : {"getOrPut"}, key : Keys, storage : Uses]
  \cup [op : {"put"}, key : Keys, storage : {"used", "notSet"}]
  \cup [op : {"get", "delete", "flush"}, key : Keys, storage : {"used"}]

================================================================================
