------------------------------ MODULE MCLedger ------------------------------
(***************************************************************************)
(* Instances of Ledger for TLC: one agent near the emission cap, one with  *)
(* little to spend.                                                        *)
(***************************************************************************)
EXTENDS Ledger, TLC

CONSTANTS a, b

MCStarting == (a :> 4990000) @@ (b :> 5000) @@ (System :> 15000)

\* An amount that is finer than a hundredth, and NaN; an order of a
\* negative price.
MCAmounts == {4995, NaN}
MCGigPrices == {-20000}

Symmetry == Permutations(Conns)
=============================================================================
