---------------------------- MODULE MCPaperTrading ----------------------------
(* Instances of PaperTrading for TLC.  Cash for two shares at the low price or *)
(* one at the high price, with something left.  Symmetry in the runs without   *)
(* liveness only.                                                              *)
EXTENDS PaperTrading, TLC

MCInitialCash == [a \in Account |-> 63]

Sym == Permutations(Client) \cup Permutations(Order)
=============================================================================
