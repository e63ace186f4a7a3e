--------------------------- MODULE MCHomepageGen ---------------------------
(***************************************************************************)
(* Small instance of HomepageGen: one block per height.                    *)
(***************************************************************************)
EXTENDS HomepageGen

MCBlock    == 0..MaxHeight
MCHeightOf == [b \in MCBlock |-> b]
=============================================================================
