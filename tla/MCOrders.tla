------------------------------ MODULE MCOrders ------------------------------
(* Small instances of Orders for TLC. *)
EXTENDS Orders, TLC

CONSTANTS o1, o2

\* o1 and o2 have the same price, so the USDT offset tells them apart.
MCPrice == [o \in Order |-> 3]
MCCents == 0..1

\* The two goroutines that serve payments are interchangeable.
MCSymmetry == Permutations(Payer)
=============================================================================
