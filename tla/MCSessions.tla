----------------------------- MODULE MCSessions -----------------------------
(***************************************************************************)
(* Calls for TLC.  The row lengths of decider-2b are chosen around its     *)
(* budget of 8192: 2700 is padded to 2752, of which two rows fit and three *)
(* do not; two of 4096 fill it exactly; 9000 is past it alone.             *)
(***************************************************************************)
EXTENDS Sessions

OneRow(lens) == [i \in DOMAIN lens |-> <<lens[i]>>]

MCCalls ==
  [l \in Loaders |->
     CASE l = "embed" -> {<< >>, OneRow(<<7, 3>>)}
       [] l = "pair"  -> {<< >>, OneRow(<<5, 9>>)}
       [] l = "laya"  -> {<< >>, OneRow(<<9, 5>>)}
       [] l = "2b"    -> {<< >>, <<<<9000>>, <<2700>>, <<2700, 2700>>>>,
                          OneRow(<<4097, 100, 4096>>)}]
=============================================================================
