-------------------------- MODULE MCFetchAjaxService ---------------------------
(***************************************************************************)
(* Small instances of FetchAjaxService for TLC.                            *)
(***************************************************************************)
EXTENDS FetchAjaxService
================================================================================
