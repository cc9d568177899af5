---------------------------- MODULE MCGigOrders ----------------------------
(***************************************************************************)
(* Instances of GigOrders for TLC.                                         *)
(***************************************************************************)
EXTENDS GigOrders, TLC

\* A PATCH may store 0 and negative prices; two orders at 2000 are more than the
\* buyer has.
MCPrices  == {-1000, 0, 2000}
TwoPrices == {-1000, 2000}

\* Order ids are interchangeable, and so are the slots of a kind.
Symmetry == Permutations(Orders) \cup Permutations(Http)
=============================================================================
