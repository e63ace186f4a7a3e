-------------------------- MODULE MCHomepageData --------------------------
(***************************************************************************)
(* Small instance of HomepageData: the nominal reward falls at the second  *)
(* height.  There the hashrate of algorithm 1 goes over its peak, by a     *)
(* little; algorithm 2 has no peak before, and jumps.                      *)
(***************************************************************************)
EXTENDS HomepageData

MCHashAt == <<<<13, 16>>, <<13, 12>>>>
MCPeakAt == <<<<15, 15>>, <<0, 15>>>>
MCEraAt  == <<<<10, 11>>, <<10, 11>>>>
=============================================================================
