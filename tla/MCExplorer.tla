----------------------------- MODULE MCExplorer -----------------------------
(***************************************************************************)
(* Six blocks, two to a page; every block but 2 has several transactions,  *)
(* one of those to a page, so that a window of three page numbers slides;  *)
(* four delays with the shape of rpcBackoffDelays.                         *)
(***************************************************************************)
EXTENDS Explorer

MCBlock    == 0..5
MCHeightOf == [b \in MCBlock |-> b]
MCSeveral  == MCBlock \ {2}
MCDelays   == <<0, 1, 2, 3>>
=============================================================================
