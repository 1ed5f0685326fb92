--------------------------- MODULE PaymentLedger ---------------------------
(***************************************************************************)
(* What the storefront promises about money: a payment is booked for one   *)
(* order only, and each thing it pays for (a key, credit, hours) is        *)
(* carried out at most once, after the booking and for that order.         *)
(***************************************************************************)
EXTENDS Naturals

CONSTANTS Order, Ref, Kind

VARIABLES
  ledger,  \* set of [order, ref]
  given    \* [Order \X Ref \X Kind -> Nat]

Init ==
  /\ ledger = {}
  /\ given = [e \in Order \X Ref \X Kind |-> 0]

Book(o, r) ==
  /\ \A b \in ledger : b.ref # r
  /\ ledger' = ledger \cup {[order |-> o, ref |-> r]}
  /\ UNCHANGED given

Give(o, r, k) ==
  /\ [order |-> o, ref |-> r] \in ledger
  /\ given[<<o, r, k>>] = 0
  /\ given' = [given EXCEPT ![<<o, r, k>>] = 1]
  /\ UNCHANGED ledger

Next == \E o \in Order, r \in Ref : Book(o, r) \/ \E k \in Kind : Give(o, r, k)

Spec == Init /\ [][Next]_<<ledger, given>>
=============================================================================
