------------------------------- MODULE Escrow -------------------------------
(***************************************************************************)
(* What the ledger promises about one escrowed amount, whatever it was     *)
(* escrowed for (a gig order or a task): the full price is taken from the  *)
(* payer once, and it leaves the system account at most once, either as a  *)
(* payment to the worker or as a refund to the payer.  The promise may be  *)
(* off for an item; which items, the detailed modules say.                 *)
(*                                                                         *)
(* The functions of lib/transfer.ts that move escrowed points do not check *)
(* any of this themselves: releaseEscrow..., refundEscrow... debit the     *)
(* system account unconditionally.  It is their callers, the order and     *)
(* task handlers, that must call them at the right time; the detailed      *)
(* modules are checked against this one.                                   *)
(***************************************************************************)
CONSTANT Items      \* the orders or tasks money is escrowed for

VARIABLES
    escrow,         \* escrow[i]: where the price of item i is
    void            \* the items for which nothing is promised any more

vars == <<escrow, void>>

Init == /\ escrow = [i \in Items |-> "none"]
        /\ void = {}

Move(i, from, to) == /\ escrow[i] = from
                     /\ escrow' = [escrow EXCEPT ![i] = to]
                     /\ UNCHANGED void

\* escrowDeduct, escrowDeductForOrder
Hold(i) == Move(i, "none", "held")

\* releaseEscrowToExecutor, releaseEscrowForOrder
Release(i) == Move(i, "held", "released")

\* refundEscrow, refundEscrowForOrder
Refund(i) == Move(i, "held", "refunded")

\* The promise ends for some items, for good; the price of the others stays
\* where it is.
Void == /\ void \subseteq void'
        /\ \A i \in Items \ void' : escrow'[i] = escrow[i]

Next == (\E i \in Items : Hold(i) \/ Release(i) \/ Refund(i)) \/ Void

Spec == Init /\ [][Next]_vars
=============================================================================
