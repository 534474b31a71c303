----------------------------- MODULE MCRequests -----------------------------
(***************************************************************************)
(* Two Drives, of three pages and of two, and a third that may be          *)
(* connected meanwhile; folders deep enough to reach the bound of a path   *)
(* and to go round; a page of three files; the storage of three accounts;  *)
(* a file of one folder to be moved to a second while others take it to a  *)
(* third.                                                                  *)
(***************************************************************************)
EXTENDS Requests, TLC

CONSTANTS a1, a2, a3

MCCards == <<a1, a2>>
MCPagesOf == (a1 :> 3) @@ (a2 :> 2) @@ (a3 :> 2)
=============================================================================
