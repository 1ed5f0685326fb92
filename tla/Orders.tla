------------------------------- MODULE Orders -------------------------------
(***************************************************************************)
(* Order fulfilment in the storefront: how a payment seen by one of the    *)
(* three gateways becomes a key (or a renewal) on kiro-go, and what the    *)
(* admin's order page does beside it.                                      *)
(*                                                                         *)
(* A payer is a goroutine that serves a SePay webhook, a "check USDT"      *)
(* request or a PayPal capture; all of them end in fulfillOrder, which     *)
(* holds fulfillMu.  A clerk is a goroutine that serves the admin's        *)
(* approve button, which does not take the mutex.  Orders, payments and    *)
(* issued keys are rows of SQLite and survive a crash; what kiro-go was    *)
(* asked to do through keyadmin is `applied`.                              *)
(*                                                                         *)
(* Definitions named Mut* are planted faults: each shows that a property   *)
(* notices the bug it is meant for. No behaviour of the spec uses them.    *)
(***************************************************************************)
EXTENDS Naturals, Sequences, FiniteSets

CONSTANTS
  Order,      \* order codes
  Renewal,    \* orders with renew_key_id # 0
  Linked,     \* renewals whose issued_keys row has a kiro_key_id
  Timed,      \* orders whose package has a duration
  Price,      \* [Order -> Nat], in USDT cents (VND and USD follow from it)
  Tolerance,  \* what a PayPal payment may be short (0.01 USD in the code)
  Cents,      \* offsets tried by uniqueUSDTAmount (0..99 in the code)
  Sepay, Crypto, Paypal,  \* payment references of the three gateways
  Click,      \* presses of the admin's approve button
  Payer, Clerk,
  Nobody,     \* owner of the free mutex
  MaxTicket,  \* bound on payments made and approve buttons pressed
  MaxFault    \* bound on crashes and failed calls

Ref    == Sepay \cup Crypto \cup Paypal
Ticket == Ref \cup Click
Kind   == {"key", "credit", "hours"}
Effect == Order \X Ticket \X Kind

ASSUME OrdersAssumption ==
  /\ Renewal \subseteq Order /\ Linked \subseteq Renewal /\ Timed \subseteq Order
  /\ Tolerance \in Nat /\ Price \in [Order -> Nat]
  /\ \A o \in Order : Price[o] > Tolerance
  /\ Cents \subseteq Nat /\ 0 \in Cents
  /\ Sepay \cap Crypto = {} /\ Sepay \cap Paypal = {} /\ Crypto \cap Paypal = {}
  /\ Ref \cap Click = {}
  /\ Nobody \notin Payer
  /\ MaxTicket \in Nat /\ MaxFault \in Nat

VARIABLES
  status,     \* orders.status; "absent" and "quoted" are before the INSERT
  payAmount,  \* orders.pay_amount
  payments,   \* rows of payments: [order, ref]
  issued,     \* rows of issued_keys: [order, ticket, linked]
  mirrored,   \* [Ticket -> Nat]: bumps of issued_keys.credit_limit
  sent,       \* [Ref -> what the customer paid, or NotSent]
  chain,      \* confirmed transfers to the wallet, oldest first
  captured,   \* PayPal orders that PayPal has captured
  applied,    \* [Effect -> Nat]: what kiro-go has carried out
  late,       \* calls given up by the caller that may still be carried out
  mu,         \* fulfillMu
  payer,      \* [Payer -> activity]
  clerk,      \* [Clerk -> activity]
  clicked,    \* presses of the approve button so far: [order, ref]
  faults

db    == <<status, payAmount, payments, issued, mirrored>>
world == <<sent, chain, captured>>
kiro  == <<applied, late>>
procs == <<mu, payer, clerk>>
vars  == <<db, world, kiro, procs, clicked, faults>>

NotSent == [order |-> "none", amount |-> 0]
Idle    == [pc |-> "idle"]
Open    == {"pending", "reported"}
Exists  == {"pending", "reported", "approved", "cancelled"}

(* Payer program counters, in the order of fulfillOrder. *)
Paid    == {"create", "issue", "credit", "mirror", "hours", "approve"}
Holding == {"load", "pay"} \cup Paid

Row(o, r)   == [order |-> o, ref |-> r]
Known(r)    == \E p \in payments : p.ref = r

\* The payments made and the buttons pressed so far are fewer than MaxTicket.
MoreTickets ==
  Cardinality({r \in Ref : sent[r] # NotSent}) + Cardinality(clicked) < MaxTicket

Fault == faults < MaxFault /\ faults' = faults + 1

Init ==
  /\ status    = [o \in Order |-> "absent"]
  /\ payAmount = [o \in Order |-> 0]
  /\ payments = {} /\ issued = {}
  /\ mirrored = [t \in Ticket |-> 0]
  /\ sent = [r \in Ref |-> NotSent] /\ chain = <<>> /\ captured = {}
  /\ applied = [e \in Effect |-> 0] /\ late = {}
  /\ mu = Nobody
  /\ payer = [p \in Payer |-> Idle]
  /\ clerk = [c \in Clerk |-> Idle]
  /\ clicked = {} /\ faults = 0

(***************************************************************************)
(* The customer: checkout, renewal order, "I have paid", and the money.    *)
(***************************************************************************)
Used(a) == \E o \in Order : status[o] \in Open /\ payAmount[o] = a

\* uniqueUSDTAmount: the least free offset, or the base price when none is.
uniqueUSDTAmount(base) ==
  LET free == {c \in Cents : ~Used(base + c)}
  IN  IF free = {} THEN base
      ELSE base + (CHOOSE c \in free : \A d \in free : c <= d)

\* Two steps: the amount is read by SELECTs before the row is INSERTed.
handleCheckout(o) ==
  /\ \/ /\ status[o] = "absent"
        /\ status' = [status EXCEPT ![o] = "quoted"]
        /\ payAmount' = [payAmount EXCEPT ![o] = uniqueUSDTAmount(Price[o])]
     \/ /\ status[o] = "quoted"
        /\ status' = [status EXCEPT ![o] = "pending"]
        /\ UNCHANGED payAmount
  /\ UNCHANGED <<payments, issued, mirrored, world, kiro, procs, clicked, faults>>

MutConfirmStatus(o) ==
  /\ status[o] = "pending"
  /\ status' = [status EXCEPT ![o] = "confirmed"]
  /\ UNCHANGED <<payAmount, payments, issued, mirrored, world, kiro, procs,
                 clicked, faults>>

handleOrderConfirm(o) ==
  /\ status[o] = "pending"
  /\ status' = [status EXCEPT ![o] = "reported"]
  /\ UNCHANGED <<payAmount, payments, issued, mirrored, world, kiro, procs,
                 clicked, faults>>

\* What a gateway takes for the order with a bank transfer or a PayPal payment.
Least(r, o) == IF r \in Paypal THEN Price[o] - Tolerance ELSE Price[o]

\* A transfer with the order's code, or of exactly its USDT amount, or a PayPal
\* payment for it; the first and the last are just enough or one unit less.
Pay(r, o) ==
  /\ sent[r] = NotSent /\ MoreTickets
  /\ status[o] \in Exists
  /\ \E a \in IF r \in Crypto THEN {payAmount[o]} ELSE {Least(r, o), Least(r, o) - 1} :
       sent' = [sent EXCEPT ![r] = [order |-> o, amount |-> a]]
  /\ chain' = IF r \in Crypto THEN Append(chain, r) ELSE chain
  /\ UNCHANGED <<db, captured, kiro, procs, clicked, faults>>

(***************************************************************************)
(* The gateways.                                                           *)
(***************************************************************************)
\* A payer at work on order o with payment r, which is transfer number scan of
\* the chain if it is one; "lock" is the call of fulfillOrder.
Job(pc, o, r, scan)  == [pc |-> pc, order |-> o, ref |-> r, scan |-> scan]
Calling(o, r, scan) == Job("lock", o, r, scan)

\* A webhook names the order in its text; SePay may deliver it again.
handleSepayWebhook(p, r) ==
  LET o == sent[r].order
  IN  /\ payer[p].pc = "idle" /\ r \in Sepay /\ sent[r] # NotSent
      /\ sent[r].amount >= Least(r, o)
      /\ payer' = [payer EXCEPT ![p] = Calling(o, r, 0)]
      /\ UNCHANGED <<db, world, kiro, mu, clerk, clicked, faults>>

\* PayPal captures a paypal order once; the client names the shop's order.
handlePaypalCapture(p, o, r) ==
  /\ payer[p].pc = "idle" /\ r \in Paypal \ captured
  /\ sent[r] # NotSent /\ status[o] \in Exists
  /\ captured' = captured \cup {r}
  /\ \/ /\ sent[r].amount >= Least(r, o)
        /\ payer' = [payer EXCEPT ![p] = Calling(o, r, 0)]
        /\ UNCHANGED faults
     \/ sent[r].amount < Least(r, o) /\ UNCHANGED <<payer, faults>>
     \/ Fault /\ UNCHANGED payer            \* PayPal's answer is lost
  /\ UNCHANGED <<db, sent, chain, kiro, mu, clerk, clicked>>

\* Places before i of the transfers large enough for o (which may be too large).
Enough(o, i) ==
  {j \in DOMAIN chain : j < i /\ sent[chain[j]].amount >= payAmount[o]}

\* checkCryptoPayment takes the fetched transfers from the newest to the oldest.
TryTransfer(p, o, i) ==
  \E j \in Enough(o, i) :
    /\ \A k \in Enough(o, i) : k <= j
    /\ payer' = [payer EXCEPT ![p] = Calling(o, chain[j], j)]

\* handleCryptoCheck; a check that finds no transfer leaves no trace.
checkCryptoPayment(p, o) ==
  /\ payer[p].pc = "idle"
  /\ status[o] \in Exists \ {"approved"}
  /\ TryTransfer(p, o, Len(chain) + 1)
  /\ UNCHANGED <<db, world, kiro, mu, clerk, clicked, faults>>

(***************************************************************************)
(* fulfillOrder, one action per statement that reads or writes shared      *)
(* state.                                                                  *)
(***************************************************************************)
At(p, pc)   == payer[p].pc = pc
Goto(p, pc) == payer' = [payer EXCEPT ![p] = Job(pc, @.order, @.ref, @.scan)]

MutNoMutex(p) ==
  /\ At(p, "lock")
  /\ mu' = p /\ Goto(p, "load")
  /\ UNCHANGED <<db, world, kiro, clerk, clicked, faults>>

Lock(p) ==
  /\ At(p, "lock") /\ mu = Nobody
  /\ mu' = p /\ Goto(p, "load")
  /\ UNCHANGED <<db, world, kiro, clerk, clicked, faults>>

MutForgetUnlock(p, ok) ==
  /\ mu' = IF ok THEN Nobody ELSE mu
  /\ payer' = [payer EXCEPT ![p] = Idle]

\* The deferred Unlock.  An error sends checkCryptoPayment to the next transfer.
Return(p, ok) ==
  LET o == payer[p].order
      i == payer[p].scan
  IN  /\ mu' = Nobody
      /\ IF ~ok /\ payer[p].ref \in Crypto /\ Enough(o, i) # {}
         THEN TryTransfer(p, o, i)
         ELSE payer' = [payer EXCEPT ![p] = Idle]

MutSkipBooking(p) ==
  /\ At(p, "load")
  /\ IF status[payer[p].order] = "approved"
     THEN Return(p, TRUE)
     ELSE Goto(p, "create") /\ UNCHANGED mu
  /\ UNCHANGED <<db, world, kiro, clerk, clicked, faults>>

loadOrderForFulfill(p) ==
  /\ At(p, "load")
  /\ \/ /\ IF status[payer[p].order] = "approved"
           THEN Return(p, TRUE)
           ELSE Goto(p, "pay") /\ UNCHANGED mu
        /\ UNCHANGED faults
     \/ Fault /\ Return(p, FALSE)
  /\ UNCHANGED <<db, world, kiro, clerk, clicked>>

MutNoUniqueIndex(p) ==
  /\ At(p, "pay")
  /\ payments' = payments \cup {Row(payer[p].order, payer[p].ref)}
  /\ Goto(p, IF payer[p].order \in Renewal THEN "credit" ELSE "create")
  /\ UNCHANGED <<status, payAmount, issued, mirrored, world, kiro, mu, clerk,
                 clicked, faults>>

\* INSERT INTO payments, under the unique index on (method, ref).
InsertPayment(p) ==
  LET o == payer[p].order
      r == payer[p].ref
  IN  /\ At(p, "pay")
      /\ \/ /\ Known(r)
            /\ Return(p, FALSE) /\ UNCHANGED <<payments, faults>>
         \/ /\ ~Known(r)
            /\ payments' = payments \cup {Row(o, r)}
            /\ IF o \in Renewal \ Linked
               THEN Return(p, FALSE)
               ELSE /\ Goto(p, IF o \in Renewal THEN "credit" ELSE "create")
                    /\ UNCHANGED mu
            /\ UNCHANGED faults
         \/ /\ ~Known(r) /\ o \in Renewal
            /\ Fault                      \* renewExistingKey's SELECT failed
            /\ payments' = payments \cup {Row(o, r)}
            /\ Return(p, FALSE)
         \/ Fault /\ Return(p, FALSE) /\ UNCHANGED payments
      /\ UNCHANGED <<status, payAmount, issued, mirrored, world, kiro, clerk, clicked>>

\* A call of keyadmin: answered, or given up with its effect undecided.
Call(p, kind, next) ==
  LET e == <<payer[p].order, payer[p].ref, kind>>
  IN  /\ \/ /\ applied' = [applied EXCEPT ![e] = @ + 1]
            /\ Goto(p, next)
            /\ UNCHANGED <<late, mu, faults>>
         \/ /\ Fault
            /\ late' = late \cup {e}
            /\ Return(p, FALSE)
            /\ UNCHANGED applied
      /\ UNCHANGED <<db, world, clerk, clicked>>

CreateKeyWithExpiry(p) == At(p, "create") /\ Call(p, "key", "issue")
AddCredit(p) == At(p, "credit") /\ Call(p, "credit", "mirror")
AddHours(p)  == At(p, "hours") /\ Call(p, "hours", "approve")

IssuedRow(o, t, linked) == [order |-> o, ticket |-> t, linked |-> linked]

\* lookupKeyID compares the name that create returned (marker included when the
\* package has a duration) with names listed without their markers.
lookupKeyID(o) == o \notin Timed

MutIssueErrorIgnored(p) ==
  /\ At(p, "issue")
  /\ \/ /\ issued' = issued \cup {[order |-> payer[p].order,
              ticket |-> payer[p].ref, linked |-> lookupKeyID(payer[p].order)]}
        /\ UNCHANGED faults
     \/ Fault /\ UNCHANGED issued
  /\ Goto(p, "approve")
  /\ UNCHANGED <<status, payAmount, payments, mirrored, world, kiro, mu, clerk, clicked>>

InsertIssued(p) ==
  LET o == payer[p].order
      r == payer[p].ref
  IN  /\ At(p, "issue")
      /\ \/ /\ issued' = issued \cup {IssuedRow(o, r, lookupKeyID(o))}
            /\ Goto(p, "approve") /\ UNCHANGED <<mu, faults>>
         \/ /\ Fault                      \* the listing failed
            /\ issued' = issued \cup {IssuedRow(o, r, FALSE)}
            /\ Goto(p, "approve") /\ UNCHANGED mu
         \/ Fault /\ Return(p, FALSE) /\ UNCHANGED issued
      /\ UNCHANGED <<status, payAmount, payments, mirrored, world, kiro, clerk, clicked>>

\* UPDATE issued_keys SET credit_limit=credit_limit+?; its error is ignored.
MirrorCredit(p) ==
  /\ At(p, "mirror")
  /\ \/ /\ mirrored' = [mirrored EXCEPT ![payer[p].ref] = @ + 1]
        /\ UNCHANGED faults
     \/ Fault /\ UNCHANGED mirrored
  /\ Goto(p, IF payer[p].order \in Timed THEN "hours" ELSE "approve")
  /\ UNCHANGED <<status, payAmount, payments, issued, world, kiro, mu, clerk, clicked>>

MarkApproved(p) ==
  /\ At(p, "approve")
  /\ \/ /\ status' = [status EXCEPT ![payer[p].order] = "approved"]
        /\ Return(p, TRUE) /\ UNCHANGED faults
     \/ Fault /\ Return(p, FALSE) /\ UNCHANGED status
  /\ UNCHANGED <<payAmount, payments, issued, mirrored, world, kiro, clerk, clicked>>

(***************************************************************************)
(* handleAdminOrderAction.                                                 *)
(***************************************************************************)
AdminCancel(o) ==
  /\ status[o] \in Exists
  /\ status' = [status EXCEPT ![o] = "cancelled"]
  /\ UNCHANGED <<payAmount, payments, issued, mirrored, world, kiro, procs,
                 clicked, faults>>

Task(pc, o, k)   == [pc |-> pc, order |-> o, ticket |-> k]
ClerkGoto(c, pc) == clerk' = [clerk EXCEPT ![c] = Task(pc, @.order, @.ticket)]
ClerkDone(c)     == clerk' = [clerk EXCEPT ![c] = Idle]

AdminApprove(c, o, k) ==
  /\ clerk[c].pc = "idle" /\ MoreTickets
  /\ k \in Click /\ \A b \in clicked : b.ref # k
  /\ status[o] \in Exists \ {"approved"}
  /\ clicked' = clicked \cup {Row(o, k)}
  /\ clerk' = [clerk EXCEPT ![c] = Task("create", o, k)]
  /\ UNCHANGED <<db, world, kiro, mu, payer, faults>>

AdminCreate(c) ==
  /\ clerk[c].pc = "create"
  /\ LET e == <<clerk[c].order, clerk[c].ticket, "key">>
     IN  \/ /\ applied' = [applied EXCEPT ![e] = @ + 1]
            /\ ClerkGoto(c, "issue") /\ UNCHANGED <<late, faults>>
         \/ /\ Fault /\ late' = late \cup {e}
            /\ ClerkDone(c) /\ UNCHANGED applied
  /\ UNCHANGED <<db, world, mu, payer, clicked>>

AdminIssue(c) ==
  /\ clerk[c].pc = "issue"
  /\ LET o == clerk[c].order
         k == clerk[c].ticket
     IN  \/ /\ issued' = issued \cup {IssuedRow(o, k, lookupKeyID(o))}
            /\ ClerkGoto(c, "approve") /\ UNCHANGED faults
         \/ /\ Fault /\ issued' = issued \cup {IssuedRow(o, k, FALSE)}
            /\ ClerkGoto(c, "approve")
         \/ Fault /\ ClerkDone(c) /\ UNCHANGED issued
  /\ UNCHANGED <<status, payAmount, payments, mirrored, world, kiro, mu, payer, clicked>>

AdminMark(c) ==
  /\ clerk[c].pc = "approve"
  /\ \/ /\ status' = [status EXCEPT ![clerk[c].order] = "approved"]
        /\ UNCHANGED faults
     \/ Fault /\ UNCHANGED status
  /\ ClerkDone(c)
  /\ UNCHANGED <<payAmount, payments, issued, mirrored, world, kiro, mu, payer, clicked>>

(***************************************************************************)
(* The environment: a call that was given up is carried out after all, and *)
(* the storefront process dies and restarts.                               *)
(***************************************************************************)
Land(e) ==
  /\ e \in late
  /\ late' = late \ {e}
  /\ applied' = [applied EXCEPT ![e] = @ + 1]
  /\ UNCHANGED <<db, world, procs, clicked, faults>>

Crash ==
  /\ Fault
  /\ mu' = Nobody
  /\ payer' = [p \in Payer |-> Idle]
  /\ clerk' = [c \in Clerk |-> Idle]
  /\ UNCHANGED <<db, world, kiro, clicked>>

fulfillOrder(p) ==
  \/ loadOrderForFulfill(p) \/ InsertPayment(p)
  \/ CreateKeyWithExpiry(p) \/ InsertIssued(p)
  \/ AddCredit(p) \/ MirrorCredit(p) \/ AddHours(p)
  \/ MarkApproved(p)

Next ==
  \/ \E o \in Order : handleCheckout(o) \/ handleOrderConfirm(o) \/ AdminCancel(o)
  \/ \E r \in Ref, o \in Order : Pay(r, o)
  \/ \E p \in Payer : \/ \E r \in Ref : handleSepayWebhook(p, r)
                      \/ \E o \in Order, r \in Ref : handlePaypalCapture(p, o, r)
                      \/ \E o \in Order : checkCryptoPayment(p, o)
                      \/ Lock(p) \/ fulfillOrder(p)
  \/ \E c \in Clerk : \/ \E o \in Order, k \in Click : AdminApprove(c, o, k)
                      \/ AdminCreate(c) \/ AdminIssue(c) \/ AdminMark(c)
  \/ \E e \in late : Land(e)
  \/ Crash

Spec == Init /\ [][Next]_vars

(***************************************************************************)
(* Every HTTP call has a timeout and every statement returns, so a handler *)
(* that has started goes on; sync.Mutex hands itself over to waiters in    *)
(* turn once they have starved, so a waiter gets it.  Customers, gateways  *)
(* and the admin owe nothing.                                              *)
(***************************************************************************)
Fairness ==
  \A p \in Payer : WF_vars(fulfillOrder(p)) /\ SF_vars(Lock(p))

FairSpec == Spec /\ Fairness

-----------------------------------------------------------------------------
Jobs  == [pc: {"lock"} \cup Holding, order: Order, ref: Ref, scan: Nat]
Tasks == [pc: {"create", "issue", "approve"}, order: Order, ticket: Click]

\* The types of the tables and of the goroutines' activities.
TypeOK ==
  /\ status \in [Order -> Exists \cup {"absent", "quoted"}]
  /\ payAmount \in [Order -> Nat]
  /\ payments \subseteq [order: Order, ref: Ref]
  /\ issued \subseteq [order: Order, ticket: Ticket, linked: BOOLEAN]
  /\ mirrored \in [Ticket -> Nat]
  /\ sent \in [Ref -> {NotSent} \cup [order: Order, amount: Nat]]
  /\ chain \in Seq(Crypto) /\ captured \subseteq Paypal
  /\ applied \in [Effect -> Nat] /\ late \subseteq Effect
  /\ mu \in Payer \cup {Nobody}
  /\ payer \in [Payer -> {Idle} \cup Jobs]
  /\ clerk \in [Clerk -> {Idle} \cup Tasks]
  /\ clicked \subseteq [order: Order, ref: Click]
  /\ faults \in 0..MaxFault

\* A payment, however often its webhook is delivered, its transfer is scanned
\* or its call times out and lands late, makes kiro-go create at most one key
\* or add credit and hours at most once, and for one order only
\* (the unique index on payments and the order of fulfillOrder's statements);
\* so does a press of the admin's button.
OneDeliveryPerPayment ==
  \A d1, d2 \in Order, t \in Ticket, k \in Kind :
    /\ applied[<<d1, t, k>>] <= 1
    /\ applied[<<d1, t, k>>] > 0 /\ applied[<<d2, t, k>>] > 0 => d1 = d2

Ledger == INSTANCE PaymentLedger WITH
  Ref <- Ticket, ledger <- payments \cup clicked, given <- applied

\* The gateways, fulfillOrder and keyadmin's failures implement the ledger.
ImplementsLedger == Ledger!Spec

Renewed(o) ==
  /\ o \in Linked
  /\ \E r \in Ref : /\ applied[<<o, r, "credit">>] > 0
                    /\ o \in Timed => applied[<<o, r, "hours">>] > 0

\* An approved order was delivered: the customer can see an issued key for it,
\* or the renewed key got its credit and its hours (fulfillOrder and the admin's
\* approve write "approved" last, whatever failed or crashed before).
ApprovedIsDelivered ==
  \A o \in Order : status[o] = "approved" =>
    Renewed(o) \/ \E i \in issued : i.order = o

\* While one goroutine fulfils an order nobody has approved that order, as long
\* as the admin's button is not used: two of them never both go on past the check
\* of the status (a call of the first that is carried out late may still find the
\* order delivered by the second).
OneFulfilmentAtATime ==
  clicked = {} =>
    \A p \in Payer : payer[p].pc \in {"pay"} \cup Paid =>
      status[payer[p].order] # "approved"

\* With no failure, a payment that reaches fulfillOrder gets its order approved,
\* unless it was booked for another order, the admin cancels the order or it
\* renews a key that was never linked to kiro-go.
PaidIsApproved ==
  \A p \in Payer, o \in Order, r \in Ref :
    payer[p].pc = "lock" /\ payer[p].order = o /\ payer[p].ref = r ~>
      \/ status[o] \in {"approved", "cancelled"}
      \/ \E d \in Order \ {o} : Row(d, r) \in payments
      \/ faults > 0 \/ o \in Renewal \ Linked

\* "lookupKeyID tim id cua key trong kiro-go dua tren TEN key (da bo marker)":
\* when nothing fails the row of a sold key knows the key's id.  It is "" for
\* every package with a duration, and such a key cannot be renewed.
IssuedIsLinked == faults = 0 => \A i \in issued : i.linked

\* "So tien USDT le duy nhat de phan biet cac don cung gia": a transfer pays the
\* order whose amount it carries.  checkCryptoPayment takes any larger one.
TransferPaysItsOrder ==
  \A b \in payments : b.ref \in Crypto => sent[b.ref].order = b.order
=============================================================================
