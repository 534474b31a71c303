--------------------------- MODULE MCFileListing ---------------------------
(***************************************************************************)
(* Two Drives, of two pages and of one or two, and a third that may be     *)
(* connected meanwhile.                                                    *)
(***************************************************************************)
EXTENDS FileListing, TLC

CONSTANTS a1, a2, a3

MCCards == <<a1, a2>>
MCPagesOf == (a1 :> 3) @@ (a2 :> 2) @@ (a3 :> 2)
=============================================================================
