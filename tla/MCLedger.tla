------------------------------ MODULE MCLedger ------------------------------
(***************************************************************************)
(* Four blocks.  Blocks 0 and 1 are old: s1 moves o0 on and leaves change. *)
(* Block 2 spends old outputs; block 3 spends, in one block, an old output *)
(* and twice an output of its own.  o7 has no address.                     *)
(***************************************************************************)
EXTENDS AddressPage

MCBlock    == 0..3
MCHeightOf == [b \in MCBlock |-> b]
MCTx       == {"c0", "c1", "s1", "c2", "s2", "s3", "s4"}
MCTxsOf    == 0 :> <<"c0">> @@ 1 :> <<"c1", "s1">> @@ 2 :> <<"c2", "s2">>
              @@ 3 :> <<"s3", "s4">>
MCOut      == {"o0", "o1", "o2", "o3", "o5", "o6", "o7"}
MCOutsOf   == "c0" :> {"o0"} @@ "c1" :> {"o1"} @@ "s1" :> {"o2", "o3"} @@ "c2" :> {"o7"}
              @@ "s2" :> {"o5"} @@ "s3" :> {"o6"} @@ "s4" :> {}
MCIn       == {"i0", "i1", "i2", "i3", "i5", "i6"}
MCInsOf    == [t \in MCTx |-> CASE t = "s1" -> <<"i0">>
                                [] t = "s2" -> <<"i2", "i1">>
                                [] t = "s3" -> <<"i5", "i3">>
                                [] t = "s4" -> <<"i6">>
                                [] OTHER    -> << >>]
MCPrev     == "i0" :> "o0" @@ "i1" :> "o1" @@ "i2" :> "o2" @@ "i3" :> "o3"
              @@ "i5" :> "o5" @@ "i6" :> "o6"
MCAddress  == {"A", "B"}
MCOwner    == [o \in MCOut |-> IF o \in {"o0", "o3", "o5"} THEN "A" ELSE "B"]
MCValue    == "o0" :> 5 @@ "o1" :> 5 @@ "o2" :> 3 @@ "o3" :> 2 @@ "o5" :> 8
              @@ "o6" :> 9 @@ "o7" :> 0
MCReported  == MCOut \ {"o7"}
MCDecodable == MCReported \ {"o3"}
MCOldIndex  == <<0, 1>>
=============================================================================
