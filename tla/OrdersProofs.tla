---------------------------- MODULE OrdersProofs ----------------------------
(***************************************************************************)
(* Proofs about Orders, for any number of orders, payments, goroutines and *)
(* failures: the type invariant, that a payment (or a press of the admin's *)
(* button) is turned into at most one delivery, that fulfilment implements *)
(* PaymentLedger, that an approved order was delivered, and that no two    *)
(* goroutines fulfil one at once.                                          *)
(***************************************************************************)
EXTENDS Orders, WellFoundedInduction, TLAPS

-----------------------------------------------------------------------------
(* Type correctness.                                                       *)

\* The empty tables and idle goroutines of a fresh start are well typed.
LEMMA InitType == Init => TypeOK
BY OrdersAssumption
   DEF Init, TypeOK, Exists, Ref, Ticket, Effect, Kind, NotSent, Idle, Holding, Paid

\* A set of naturals has a minimal member for any well-founded relation on Nat.
LEMMA LeastOf ==
  ASSUME NEW S, S \subseteq Nat, S # {}, NEW R, IsWellFoundedOn(R, Nat)
  PROVE  \E c \in S : \A d \in S : <<d, c>> \notin R
BY WFMin, Zenon

\* A set of naturals that is not empty has a least member: the offset that
\* uniqueUSDTAmount chooses, the newest transfer that checkCryptoPayment tries.
LEMMA LeastNat ==
  ASSUME NEW S, S \subseteq Nat, S # {}
  PROVE  \E c \in S : \A d \in S : c <= d
<1> DEFINE R == {ss \in Nat \X Nat : ss[1] < ss[2]}
<1>1. IsWellFoundedOn(R, Nat)
  BY NatLessThanWellFounded, Zenon DEF OpToRel
<1>2. \E c \in S : \A d \in S : <<d, c>> \notin R
  <2> HIDE DEF R
  <2> QED
    BY <1>1, LeastOf, Zenon
<1>3. ASSUME NEW c \in S, NEW d \in S, <<d, c>> \notin R PROVE c <= d
  <2>1. d \in Nat /\ c \in Nat /\ ~(d < c)
    BY <1>3
  <2> QED
    BY <2>1
<1> QED
  <2> HIDE DEF R
  <2> QED
    BY <1>2, <1>3, Zenon

\* A failure keeps the count of failures within its bound.
LEMMA FaultType ==
  ASSUME TypeOK PROVE Fault \/ UNCHANGED faults => faults' \in 0..MaxFault
BY OrdersAssumption DEF TypeOK, Fault

\* A payer that is not idle works on an order with a payment; so does a clerk.
LEMMA JobType ==
  ASSUME TypeOK
  PROVE  /\ \A p \in Payer : payer[p].pc # "idle" => payer[p] \in Jobs
         /\ \A c \in Clerk : clerk[c].pc # "idle" => clerk[c] \in Tasks
BY DEF TypeOK, Idle

\* The next transfer to try is a well-typed activity.
LEMMA TryTransferType ==
  ASSUME TypeOK, NEW p \in Payer, NEW o \in Order, NEW i, TryTransfer(p, o, i)
  PROVE  \E j \in Nat, r \in Crypto :
           payer' = [payer EXCEPT ![p] = Calling(o, r, j)]
<1>1. PICK j \in DOMAIN chain : payer' = [payer EXCEPT ![p] = Calling(o, chain[j], j)]
  BY DEF TryTransfer, Enough
<1>2. j \in Nat /\ chain[j] \in Crypto
  BY DEF TypeOK
<1> QED
  BY <1>1, <1>2

\* A payer about to call fulfillOrder is a well-typed activity.
LEMMA CallingType ==
  ASSUME NEW o \in Order, NEW r \in Ref, NEW j \in Nat
  PROVE  Calling(o, r, j) \in Jobs
BY DEF Calling, Job, Jobs

\* A booking of a payment for an order is a well-typed row.
LEMMA RowType ==
  ASSUME NEW o \in Order, NEW l \in BOOLEAN
  PROVE  /\ \A r \in Ref : Row(o, r) \in [order: Order, ref: Ref]
         /\ \A t \in Ticket :
              IssuedRow(o, t, l) \in [order: Order, ticket: Ticket, linked: BOOLEAN]
BY DEF Row, IssuedRow

\* fulfillOrder's return leaves the caller idle or about to call it again.
LEMMA ReturnStep ==
  ASSUME TypeOK, NEW p \in Payer, payer[p] \in Jobs, NEW ok \in BOOLEAN, Return(p, ok)
  PROVE  /\ mu' = Nobody
         /\ \/ payer' = [payer EXCEPT ![p] = Idle]
            \/ \E j \in Nat, r \in Crypto :
                 payer' = [payer EXCEPT ![p] = Calling(payer[p].order, r, j)]
<1>1. payer[p].order \in Order
  BY DEF Jobs
<1> QED
  BY <1>1, TryTransferType DEF Return

\* fulfillOrder's return keeps the types of the mutex and of the payers.
LEMMA ReturnType ==
  ASSUME TypeOK, NEW p \in Payer, payer[p] \in Jobs, NEW ok \in BOOLEAN, Return(p, ok)
  PROVE  mu' \in Payer \cup {Nobody} /\ payer' \in [Payer -> {Idle} \cup Jobs]
<1>1. payer[p].order \in Order
  BY DEF Jobs
<1>2. CASE payer' = [payer EXCEPT ![p] = Idle]
  BY <1>2, ReturnStep DEF TypeOK
<1>3. ASSUME NEW j \in Nat, NEW r \in Crypto,
             payer' = [payer EXCEPT ![p] = Calling(payer[p].order, r, j)]
      PROVE  payer' \in [Payer -> {Idle} \cup Jobs]
  <2>1. Calling(payer[p].order, r, j) \in Jobs
    BY <1>1, CallingType DEF Ref
  <2> QED
    BY <1>3, <2>1 DEF TypeOK
<1> QED
  BY <1>2, <1>3, ReturnStep

\* The statements that leave a payer working move its program counter only.
LEMMA GotoType ==
  ASSUME TypeOK, NEW p \in Payer, payer[p] \in Jobs, NEW pc \in Holding, Goto(p, pc)
  PROVE  payer' \in [Payer -> {Idle} \cup Jobs]
<1>1. Job(pc, payer[p].order, payer[p].ref, payer[p].scan) \in Jobs
  BY DEF Jobs, Job
<1> QED
  BY <1>1 DEF TypeOK, Goto

\* A call of keyadmin keeps the types.
LEMMA CallType ==
  ASSUME TypeOK, NEW p \in Payer, payer[p] \in Jobs, NEW kind \in Kind,
         NEW next \in Holding, Call(p, kind, next)
  PROVE  TypeOK'
<1> DEFINE e == <<payer[p].order, payer[p].ref, kind>>
<1>1. e \in Effect
  BY DEF Jobs, Effect, Ticket
<1> HIDE DEF e
<1>2. faults' \in 0..MaxFault
  BY FaultType DEF Call
<1>4. applied \in [Effect -> Nat] /\ late \subseteq Effect
  BY DEF TypeOK
<1>5. applied' \in [Effect -> Nat] /\ late' \subseteq Effect
  <2>1. \/ applied' = [applied EXCEPT ![e] = @ + 1] /\ UNCHANGED late
        \/ late' = late \cup {e} /\ UNCHANGED applied
    BY DEF Call, e
  <2> QED
    BY <1>1, <1>4, <2>1
<1>3. mu' \in Payer \cup {Nobody} /\ payer' \in [Payer -> {Idle} \cup Jobs]
  <2>1. CASE Goto(p, next) /\ UNCHANGED mu
    BY <2>1, GotoType DEF TypeOK
  <2>2. CASE Return(p, FALSE)
    BY <2>2, ReturnType
  <2> QED
    BY <2>1, <2>2 DEF Call
<1> QED
  BY <1>2, <1>3, <1>5 DEF TypeOK, Call, db, world

\* Every step keeps the types.
LEMMA NextType == TypeOK /\ [Next]_vars => TypeOK'
<1> SUFFICES ASSUME TypeOK, [Next]_vars PROVE TypeOK'
  OBVIOUS
<1> USE OrdersAssumption
<1>1. ASSUME NEW o \in Order,
             handleCheckout(o) \/ handleOrderConfirm(o) \/ AdminCancel(o)
      PROVE  TypeOK'
  <2>1. CASE handleCheckout(o)
    <3>1. uniqueUSDTAmount(Price[o]) \in Nat
      <4> DEFINE free == {c \in Cents : ~Used(Price[o] + c)}
                 c0 == CHOOSE c \in free : \A d \in free : c <= d
      <4>1. CASE free = {}
        BY <4>1 DEF uniqueUSDTAmount
      <4>2. CASE free # {}
        <5>1. PICK c \in free : \A d \in free : c <= d
          BY <4>2, LeastNat
        <5>2. c0 \in free
          BY <5>1
        <5>3. uniqueUSDTAmount(Price[o]) = Price[o] + c0
          BY <4>2, Zenon DEF uniqueUSDTAmount
        <5>4. c0 \in Nat /\ Price[o] \in Nat
          BY <5>2
        <5> QED
          BY <5>3, <5>4
      <4> QED
        BY <4>1, <4>2
    <3>2. status' \in [Order -> Exists \cup {"absent", "quoted"}]
      BY <2>1 DEF TypeOK, handleCheckout, Exists
    <3>3. payAmount' \in [Order -> Nat]
      <4>1. payAmount \in [Order -> Nat]
        BY DEF TypeOK
      <4> QED
        BY <2>1, <3>1, <4>1 DEF handleCheckout
    <3> QED
      BY <2>1, <3>2, <3>3 DEF TypeOK, handleCheckout, world, kiro, procs
  <2>2. CASE handleOrderConfirm(o)
    BY <2>2 DEF TypeOK, handleOrderConfirm, Exists, world, kiro, procs
  <2>3. CASE AdminCancel(o)
    BY <2>3 DEF TypeOK, AdminCancel, Exists, world, kiro, procs
  <2> QED
    BY <1>1, <2>1, <2>2, <2>3
<1>2. ASSUME NEW r \in Ref, NEW o \in Order, Pay(r, o)
      PROVE  TypeOK'
  <2>0. {payAmount[o], Least(r, o), Least(r, o) - 1} \subseteq Nat
    <3>1. payAmount[o] \in Nat /\ Price[o] \in Nat /\ Tolerance \in Nat /\ Price[o] > Tolerance
      BY DEF TypeOK
    <3> QED
      BY <3>1 DEF Least
  <2>1. sent' \in [Ref -> {NotSent} \cup [order: Order, amount: Nat]]
    <3>1. PICK a \in Nat : sent' = [sent EXCEPT ![r] = [order |-> o, amount |-> a]]
      BY <1>2, <2>0 DEF Pay
    <3> QED
      BY <3>1 DEF TypeOK
  <2>2. chain' \in Seq(Crypto)
    BY <1>2 DEF TypeOK, Pay
  <2> QED
    BY <1>2, <2>1, <2>2 DEF TypeOK, Pay, db, kiro, procs
<1>3. ASSUME NEW p \in Payer, NEW r \in Ref, handleSepayWebhook(p, r)
      PROVE  TypeOK'
  <2>1. sent[r].order \in Order
    BY <1>3 DEF TypeOK, handleSepayWebhook
  <2>2. Calling(sent[r].order, r, 0) \in Jobs
    BY <2>1, CallingType
  <2> QED
    BY <1>3, <2>2 DEF TypeOK, handleSepayWebhook, db, world, kiro
<1>4. ASSUME NEW p \in Payer, NEW o \in Order, NEW r \in Ref, handlePaypalCapture(p, o, r)
      PROVE  TypeOK'
  <2>1. Calling(o, r, 0) \in Jobs
    BY CallingType
  <2>2. payer' \in [Payer -> {Idle} \cup Jobs]
    BY <1>4, <2>1 DEF TypeOK, handlePaypalCapture
  <2>3. faults' \in 0..MaxFault
    BY <1>4, FaultType DEF handlePaypalCapture
  <2> QED
    BY <1>4, <2>2, <2>3 DEF TypeOK, handlePaypalCapture, db, kiro
<1>5. ASSUME NEW p \in Payer, NEW o \in Order, checkCryptoPayment(p, o)
      PROVE  TypeOK'
  <2>1. PICK j \in Nat, r \in Crypto : payer' = [payer EXCEPT ![p] = Calling(o, r, j)]
    BY <1>5, TryTransferType DEF checkCryptoPayment
  <2>2. Calling(o, r, j) \in Jobs
    BY CallingType DEF Ref
  <2> QED
    BY <1>5, <2>1, <2>2 DEF TypeOK, checkCryptoPayment, db, world, kiro
<1>6. ASSUME NEW p \in Payer, Lock(p)
      PROVE  TypeOK'
  <2>1. payer[p] \in Jobs /\ "load" \in Holding
    BY <1>6, JobType DEF Lock, At, Holding
  <2>2. payer' \in [Payer -> {Idle} \cup Jobs]
    BY <1>6, <2>1, GotoType DEF Lock
  <2> QED
    BY <1>6, <2>2 DEF TypeOK, Lock, db, world, kiro
<1>7. ASSUME NEW p \in Payer, fulfillOrder(p)
      PROVE  TypeOK'
  <2>0. payer[p] \in Jobs
    BY <1>7, JobType DEF fulfillOrder, loadOrderForFulfill, InsertPayment,
       CreateKeyWithExpiry, InsertIssued, AddCredit, MirrorCredit, AddHours,
       MarkApproved, At
  <2>t. /\ payments \subseteq [order: Order, ref: Ref]
        /\ issued \subseteq [order: Order, ticket: Ticket, linked: BOOLEAN]
        /\ mirrored \in [Ticket -> Nat] /\ mu \in Payer \cup {Nobody}
    BY DEF TypeOK
  <2>a. Holding = {"load", "pay", "create", "issue", "credit", "mirror", "hours", "approve"}
    BY DEF Holding, Paid
  <2>b. /\ payer[p].order \in Order /\ payer[p].ref \in Ref
        /\ payer[p].ref \in Ticket /\ lookupKeyID(payer[p].order) \in BOOLEAN
    BY <2>0 DEF Jobs, Ticket, lookupKeyID
  <2>1. CASE loadOrderForFulfill(p)
    <3>1. mu' \in Payer \cup {Nobody} /\ payer' \in [Payer -> {Idle} \cup Jobs]
      BY <2>0, <2>a, <2>t, <2>1, ReturnType, GotoType DEF loadOrderForFulfill
    <3>2. faults' \in 0..MaxFault
      BY <2>1, FaultType DEF loadOrderForFulfill
    <3> QED
      BY <2>1, <3>1, <3>2 DEF TypeOK, loadOrderForFulfill, db, world, kiro
  <2>2. CASE InsertPayment(p)
    <3>1. mu' \in Payer \cup {Nobody} /\ payer' \in [Payer -> {Idle} \cup Jobs]
      BY <2>0, <2>a, <2>t, <2>2, ReturnType, GotoType DEF InsertPayment
    <3>2. payments' \subseteq [order: Order, ref: Ref]
      <4>1. Row(payer[p].order, payer[p].ref) \in [order: Order, ref: Ref]
        BY <2>b, RowType
      <4>2. \/ UNCHANGED payments
            \/ payments' = payments \cup {Row(payer[p].order, payer[p].ref)}
        BY <2>2 DEF InsertPayment
      <4> QED
        BY <2>t, <4>1, <4>2
    <3>3. faults' \in 0..MaxFault
      BY <2>2, FaultType DEF InsertPayment
    <3> QED
      BY <2>2, <3>1, <3>2, <3>3 DEF TypeOK, InsertPayment, world, kiro
  <2>3. CASE CreateKeyWithExpiry(p)
    BY <2>0, <2>a, <2>3, CallType DEF CreateKeyWithExpiry, Kind
  <2>4. CASE InsertIssued(p)
    <3>1. mu' \in Payer \cup {Nobody} /\ payer' \in [Payer -> {Idle} \cup Jobs]
      BY <2>0, <2>a, <2>t, <2>4, ReturnType, GotoType DEF InsertIssued
    <3>2. issued' \subseteq [order: Order, ticket: Ticket, linked: BOOLEAN]
      <4>1. \A l \in BOOLEAN : IssuedRow(payer[p].order, payer[p].ref, l)
                                  \in [order: Order, ticket: Ticket, linked: BOOLEAN]
        BY <2>b, RowType
      <4>2. \/ UNCHANGED issued
            \/ \E l \in BOOLEAN :
                 issued' = issued \cup {IssuedRow(payer[p].order, payer[p].ref, l)}
        BY <2>4, <2>b DEF InsertIssued
      <4> QED
        BY <2>t, <4>1, <4>2
    <3>3. faults' \in 0..MaxFault
      BY <2>4, FaultType DEF InsertIssued
    <3> QED
      BY <2>4, <3>1, <3>2, <3>3 DEF TypeOK, InsertIssued, world, kiro
  <2>5. CASE AddCredit(p)
    BY <2>0, <2>a, <2>5, CallType DEF AddCredit, Kind
  <2>6. CASE MirrorCredit(p)
    <3>1. payer' \in [Payer -> {Idle} \cup Jobs]
      BY <2>0, <2>a, <2>6, GotoType DEF MirrorCredit
    <3>2. mirrored' \in [Ticket -> Nat]
      BY <2>6, <2>b, <2>t DEF MirrorCredit
    <3>3. faults' \in 0..MaxFault
      BY <2>6, FaultType DEF MirrorCredit
    <3> QED
      BY <2>6, <3>1, <3>2, <3>3 DEF TypeOK, MirrorCredit, world, kiro
  <2>7. CASE AddHours(p)
    BY <2>0, <2>a, <2>7, CallType DEF AddHours, Kind
  <2>8. CASE MarkApproved(p)
    <3>1. mu' \in Payer \cup {Nobody} /\ payer' \in [Payer -> {Idle} \cup Jobs]
      BY <2>0, <2>8, ReturnType DEF MarkApproved
    <3>2. status' \in [Order -> Exists \cup {"absent", "quoted"}]
      BY <2>8 DEF TypeOK, MarkApproved, Exists
    <3>3. faults' \in 0..MaxFault
      BY <2>8, FaultType DEF MarkApproved
    <3> QED
      BY <2>8, <3>1, <3>2, <3>3 DEF TypeOK, MarkApproved, world, kiro
  <2> QED
    BY <1>7, <2>1, <2>2, <2>3, <2>4, <2>5, <2>6, <2>7, <2>8 DEF fulfillOrder
<1>8. ASSUME NEW c \in Clerk, NEW o \in Order, NEW k \in Click, AdminApprove(c, o, k)
      PROVE  TypeOK'
  <2>1. Task("create", o, k) \in Tasks
    BY DEF Task, Tasks
  <2> QED
    BY <1>8, <2>1 DEF TypeOK, AdminApprove, Row, db, world, kiro
<1>9. ASSUME NEW c \in Clerk, AdminCreate(c)
      PROVE  TypeOK'
  <2>1. clerk[c] \in Tasks
    BY <1>9, JobType DEF AdminCreate
  <2>t. applied \in [Effect -> Nat] /\ late \subseteq Effect
    BY DEF TypeOK
  <2>2. <<clerk[c].order, clerk[c].ticket, "key">> \in Effect
    BY <2>1 DEF Effect, Ticket, Kind, Tasks
  <2>3. Task("issue", clerk[c].order, clerk[c].ticket) \in Tasks
    BY <2>1 DEF Task, Tasks
  <2>4. clerk' \in [Clerk -> {Idle} \cup Tasks]
    BY <1>9, <2>3 DEF TypeOK, AdminCreate, ClerkGoto, ClerkDone
  <2>5. applied' \in [Effect -> Nat] /\ late' \subseteq Effect
    BY <1>9, <2>2, <2>t DEF AdminCreate
  <2>6. faults' \in 0..MaxFault
    BY <1>9, FaultType DEF AdminCreate
  <2> QED
    BY <1>9, <2>4, <2>5, <2>6 DEF TypeOK, AdminCreate, db, world
<1>10. ASSUME NEW c \in Clerk, AdminIssue(c)
       PROVE  TypeOK'
  <2>1. clerk[c] \in Tasks
    BY <1>10, JobType DEF AdminIssue
  <2>t. issued \subseteq [order: Order, ticket: Ticket, linked: BOOLEAN]
    BY DEF TypeOK
  <2>2. /\ clerk[c].order \in Order /\ clerk[c].ticket \in Ticket
        /\ lookupKeyID(clerk[c].order) \in BOOLEAN
    BY <2>1 DEF Tasks, Ticket, lookupKeyID
  <2>3. Task("approve", clerk[c].order, clerk[c].ticket) \in Tasks
    BY <2>1 DEF Task, Tasks
  <2>4. clerk' \in [Clerk -> {Idle} \cup Tasks]
    BY <1>10, <2>3 DEF TypeOK, AdminIssue, ClerkGoto, ClerkDone
  <2>5. issued' \subseteq [order: Order, ticket: Ticket, linked: BOOLEAN]
    <3>1. \A l \in BOOLEAN : IssuedRow(clerk[c].order, clerk[c].ticket, l)
                                \in [order: Order, ticket: Ticket, linked: BOOLEAN]
      BY <2>2, RowType
    <3>2. \/ UNCHANGED issued
          \/ \E l \in BOOLEAN :
               issued' = issued \cup {IssuedRow(clerk[c].order, clerk[c].ticket, l)}
      BY <1>10, <2>2 DEF AdminIssue
    <3> QED
      BY <2>t, <3>1, <3>2
  <2>6. faults' \in 0..MaxFault
    BY <1>10, FaultType DEF AdminIssue
  <2> QED
    BY <1>10, <2>4, <2>5, <2>6 DEF TypeOK, AdminIssue, world, kiro
<1>11. ASSUME NEW c \in Clerk, AdminMark(c)
       PROVE  TypeOK'
  <2>1. clerk[c] \in Tasks /\ clerk' = [clerk EXCEPT ![c] = Idle]
    BY <1>11, JobType DEF AdminMark, ClerkDone
  <2>2. status' \in [Order -> Exists \cup {"absent", "quoted"}]
    BY <1>11, <2>1 DEF TypeOK, AdminMark, Exists
  <2> QED
    BY <1>11, <2>1, <2>2 DEF TypeOK, AdminMark, Fault, world, kiro
<1>12. ASSUME NEW e \in late, Land(e)
       PROVE  TypeOK'
  BY <1>12 DEF TypeOK, Land, db, world, procs
<1>13. CASE Crash
  BY <1>13 DEF TypeOK, Crash, Fault, db, world, kiro
<1>14. CASE UNCHANGED vars
  BY <1>14 DEF TypeOK, vars, db, world, kiro, procs
<1> QED
  BY <1>1, <1>2, <1>3, <1>4, <1>5, <1>6, <1>7, <1>8, <1>9, <1>10, <1>11, <1>12,
     <1>13, <1>14 DEF Next

\* Every table and every goroutine keeps its type.
THEOREM TypeCorrect == Spec => []TypeOK
<1> QED
  BY InitType, NextType, PTL DEF Spec

-----------------------------------------------------------------------------
(* One delivery per payment.                                               *)

Booked    == payments \cup clicked
Undone(e) == applied[e] = 0 /\ e \notin late

\* A payment, or a press of the button, is booked for one order.
BookedOnce == \A b1, b2 \in Booked : b1.ref = b2.ref => b1 = b2

\* What was asked of kiro-go had been booked, and was asked once.
EffectsBooked ==
  \A o \in Order, t \in Ticket, k \in Kind :
    ~Undone(<<o, t, k>>) => Row(o, t) \in Booked
AtMostOnce ==
  \A e \in Effect : applied[e] <= 1 /\ (e \in late => applied[e] = 0)

\* A payer past the mutex owns it; one past the booking has booked its payment
\* and has not yet asked for what its program counter says is still to come.
Mutex       == \A p \in Payer : payer[p].pc \in Holding => mu = p
PayerBooked ==
  \A p \in Payer : payer[p].pc \in Paid => Row(payer[p].order, payer[p].ref) \in payments
PayerPending ==
  \A p \in Payer :
    /\ payer[p].pc = "create" => Undone(<<payer[p].order, payer[p].ref, "key">>)
    /\ payer[p].pc = "credit" => Undone(<<payer[p].order, payer[p].ref, "credit">>)
    /\ payer[p].pc \in {"credit", "mirror", "hours"}
         => Undone(<<payer[p].order, payer[p].ref, "hours">>)

\* The same of a clerk; no two of them serve the same press of the button.
ClerkBooked ==
  \A c \in Clerk : clerk[c].pc # "idle" => Row(clerk[c].order, clerk[c].ticket) \in clicked
ClerkPending ==
  \A c \in Clerk :
    clerk[c].pc = "create" => Undone(<<clerk[c].order, clerk[c].ticket, "key">>)
ClerkAlone ==
  \A c, d \in Clerk :
    clerk[c].pc # "idle" /\ clerk[d].pc # "idle" /\ clerk[c].ticket = clerk[d].ticket => c = d

Inv ==
  /\ TypeOK
  /\ BookedOnce /\ EffectsBooked /\ AtMostOnce
  /\ Mutex /\ PayerBooked /\ PayerPending
  /\ ClerkBooked /\ ClerkPending /\ ClerkAlone

\* Nothing is booked, asked for or held at a fresh start.
LEMMA InvInit == Init => Inv
<1> SUFFICES ASSUME Init PROVE Inv
  OBVIOUS
<1>1. TypeOK
  BY InitType
<1>2. BookedOnce /\ Mutex /\ PayerBooked /\ PayerPending
  BY DEF Init, Booked, BookedOnce, Mutex, PayerBooked, PayerPending, Idle, Holding, Paid
<1>3. ClerkBooked /\ ClerkPending /\ ClerkAlone
  BY DEF Init, ClerkBooked, ClerkPending, ClerkAlone, Idle
<1>4. EffectsBooked /\ AtMostOnce
  BY DEF Init, EffectsBooked, AtMostOnce, Undone, Effect
<1> QED
  BY <1>1, <1>2, <1>3, <1>4 DEF Inv

\* The same after the step, of an effect named before it.
UndoneNext(e) == applied'[e] = 0 /\ e \notin late'

(* What a step does to the bookings and to what was asked of kiro-go.      *)

Data == BookedOnce /\ EffectsBooked /\ AtMostOnce

\* What was still undone for these tickets is still undone after the step.
Keeps(T) ==
  \A o \in Order, t \in T, k \in Kind : Undone(<<o, t, k>>) => UndoneNext(<<o, t, k>>)

\* A step that neither books nor asks keeps what the tables promise.
LEMMA StillStep ==
  ASSUME Inv, UNCHANGED <<payments, clicked, applied, late>>
  PROVE  Data' /\ Keeps(Ticket)
BY DEF Inv, Data, Keeps, Booked, BookedOnce, EffectsBooked, AtMostOnce, Undone, UndoneNext

\* Booking a new payment keeps it, and nothing was asked for that payment yet.
LEMMA BookStep ==
  ASSUME Inv, NEW o \in Order, NEW r \in Ref, ~Known(r),
         payments' = payments \cup {Row(o, r)}, UNCHANGED <<clicked, applied, late>>
  PROVE  /\ Data' /\ Keeps(Ticket)
         /\ \A d \in Order, k \in Kind : Undone(<<d, r, k>>)
<1>1. \A b \in Booked : b.ref # r
  BY OrdersAssumption DEF Inv, TypeOK, Booked, Known
<1>2. Booked' = Booked \cup {Row(o, r)} /\ Row(o, r).ref = r
  BY DEF Booked, Row
<1>3. BookedOnce'
  BY <1>1, <1>2 DEF Inv, BookedOnce
<1>4. EffectsBooked' /\ AtMostOnce' /\ Keeps(Ticket)
  BY <1>2 DEF Inv, EffectsBooked, AtMostOnce, Keeps, Undone, UndoneNext
<1>5. ASSUME NEW d \in Order, NEW k \in Kind PROVE Undone(<<d, r, k>>)
  <2>1. Row(d, r) \notin Booked
    BY <1>1 DEF Row
  <2> QED
    BY <2>1 DEF Inv, EffectsBooked, Ticket
<1> QED
  BY <1>3, <1>4, <1>5 DEF Data

\* The same of a fresh press of the approve button.
LEMMA ClickStep ==
  ASSUME Inv, NEW o \in Order, NEW k \in Click, \A b \in clicked : b.ref # k,
         clicked' = clicked \cup {Row(o, k)}, UNCHANGED <<payments, applied, late>>
  PROVE  /\ Data' /\ Keeps(Ticket)
         /\ \A d \in Order, j \in Kind : Undone(<<d, k, j>>)
<1>1. \A b \in Booked : b.ref # k
  BY OrdersAssumption DEF Inv, TypeOK, Booked
<1>2. Booked' = Booked \cup {Row(o, k)} /\ Row(o, k).ref = k
  BY DEF Booked, Row
<1>3. BookedOnce'
  BY <1>1, <1>2 DEF Inv, BookedOnce
<1>4. EffectsBooked' /\ AtMostOnce' /\ Keeps(Ticket)
  BY <1>2 DEF Inv, EffectsBooked, AtMostOnce, Keeps, Undone, UndoneNext
<1>5. ASSUME NEW d \in Order, NEW j \in Kind PROVE Undone(<<d, k, j>>)
  <2>1. Row(d, k) \notin Booked
    BY <1>1 DEF Row
  <2> QED
    BY <2>1 DEF Inv, EffectsBooked, Ticket
<1> QED
  BY <1>3, <1>4, <1>5 DEF Data

Asks(e) ==
  \/ applied' = [applied EXCEPT ![e] = @ + 1] /\ UNCHANGED late
  \/ late' = late \cup {e} /\ UNCHANGED applied

\* A call of keyadmin for a booked effect that is still undone keeps it.
LEMMA AskStep ==
  ASSUME Inv, NEW o \in Order, NEW t \in Ticket, NEW k \in Kind,
         Row(o, t) \in Booked, Undone(<<o, t, k>>), Asks(<<o, t, k>>),
         UNCHANGED <<payments, clicked>>
  PROVE  /\ Data'
         /\ \A d \in Order, u \in Ticket, j \in Kind :
              <<d, u, j>> # <<o, t, k>> /\ Undone(<<d, u, j>>) => UndoneNext(<<d, u, j>>)
<1> DEFINE e == <<o, t, k>>
<1>1. e \in Effect /\ Undone(e) /\ Asks(e)
  BY DEF Effect
<1>2. applied \in [Effect -> Nat] /\ late \subseteq Effect
  BY DEF Inv, TypeOK
<1> HIDE DEF e
<1>3. \A f \in Effect : f # e => applied'[f] = applied[f] /\ (f \in late' <=> f \in late)
  BY <1>1, <1>2 DEF Asks
<1>4. applied'[e] <= 1 /\ (e \in late' => applied'[e] = 0)
  BY <1>1, <1>2 DEF Asks, Undone
<1>5. AtMostOnce'
  BY <1>3, <1>4 DEF Inv, AtMostOnce
<1>6. \A f \in Effect : f # e => (Undone(f) <=> UndoneNext(f))
  BY <1>3 DEF Undone, UndoneNext
<1>7. \A d \in Order, u \in Ticket, j \in Kind : <<d, u, j>> \in Effect
  BY DEF Effect
<1>8. EffectsBooked'
  <2> SUFFICES ASSUME NEW d \in Order, NEW u \in Ticket, NEW j \in Kind,
                      ~UndoneNext(<<d, u, j>>)
               PROVE  Row(d, u) \in Booked
    BY DEF EffectsBooked, Booked, Undone, UndoneNext
  <2>1. CASE <<d, u, j>> = e
    BY <2>1 DEF e
  <2>2. CASE <<d, u, j>> # e
    BY <2>2, <1>6, <1>7 DEF Inv, EffectsBooked
  <2> QED
    BY <2>1, <2>2
<1>9. BookedOnce'
  BY DEF Inv, BookedOnce, Booked
<1> QED
  BY <1>5, <1>6, <1>7, <1>8, <1>9 DEF Data, e

\* A call given up that lands late is carried out for the first time.
LEMMA LandStep ==
  ASSUME Inv, NEW e \in late, Land(e)
  PROVE  Data' /\ Keeps(Ticket)
<1>1. applied \in [Effect -> Nat] /\ late \subseteq Effect /\ e \in Effect
  BY DEF Inv, TypeOK
<1>2. applied' = [applied EXCEPT ![e] = @ + 1] /\ late' = late \ {e} /\ Booked' = Booked
  BY DEF Land, db, Booked
<1>3. applied[e] = 0
  BY <1>1 DEF Inv, AtMostOnce
<1>4. \A f \in Effect : UndoneNext(f) <=> Undone(f)
  BY <1>1, <1>2, <1>3 DEF Undone, UndoneNext
<1>5. AtMostOnce'
  BY <1>1, <1>2, <1>3 DEF Inv, AtMostOnce
<1>6. \A d \in Order, u \in Ticket, j \in Kind : <<d, u, j>> \in Effect
  BY DEF Effect
<1>7. EffectsBooked' /\ Keeps(Ticket)
  BY <1>2, <1>4, <1>6 DEF Inv, EffectsBooked, Keeps, Undone, UndoneNext
<1>8. BookedOnce'
  BY <1>2 DEF Inv, BookedOnce
<1> QED
  BY <1>5, <1>7, <1>8 DEF Data

(* What a step does to the payers and to the clerks.                       *)

Payers == Mutex /\ PayerBooked /\ PayerPending
Clerks == ClerkBooked /\ ClerkPending /\ ClerkAlone

\* The step of someone else: bookings stay, and so does what is undone.
LEMMA OthersPayers ==
  ASSUME Inv, UNCHANGED <<payer, mu>>, payments \subseteq payments', Keeps(Ref)
  PROVE  Payers'
<1>1. \A p \in Payer : payer[p].pc # "idle" => payer[p] \in Jobs
  BY JobType DEF Inv
<1>2. \A p \in Payer, k \in Kind : payer[p].pc # "idle" =>
        (Undone(<<payer[p].order, payer[p].ref, k>>)
           => UndoneNext(<<payer[p].order, payer[p].ref, k>>))
  BY <1>1 DEF Keeps, Jobs
<1>3. Mutex' /\ PayerBooked'
  BY DEF Inv, Mutex, PayerBooked
<1>4. PayerPending'
  BY <1>2 DEF Inv, PayerPending, Kind, Undone, UndoneNext
<1> QED
  BY <1>3, <1>4 DEF Payers

\* The step of someone else keeps what the clerks promise.
LEMMA OthersClerks ==
  ASSUME Inv, UNCHANGED clerk, clicked \subseteq clicked', Keeps(Click)
  PROVE  Clerks'
<1>1. \A c \in Clerk : clerk[c].pc # "idle" => clerk[c] \in Tasks
  BY JobType DEF Inv
<1>2. \A c \in Clerk : clerk[c].pc # "idle" =>
        (Undone(<<clerk[c].order, clerk[c].ticket, "key">>)
           => UndoneNext(<<clerk[c].order, clerk[c].ticket, "key">>))
  BY <1>1 DEF Keeps, Tasks, Kind
<1>3. ClerkBooked' /\ ClerkAlone'
  BY DEF Inv, ClerkBooked, ClerkAlone
<1>4. ClerkPending'
  BY <1>2 DEF Inv, ClerkPending, Undone, UndoneNext
<1> QED
  BY <1>3, <1>4 DEF Clerks

\* A payer that neither owns the mutex nor takes it.
LEMMA OutsideStep ==
  ASSUME Inv, NEW p \in Payer, NEW j, j.pc \notin Holding, payer' = [payer EXCEPT ![p] = j],
         payments' = payments, mu' = mu, Keeps(Ref)
  PROVE  Payers'
<1>1. \A q \in Payer : q # p => payer'[q] = payer[q]
  BY DEF Inv, TypeOK
<1>2. payer'[p] = j
  BY DEF Inv, TypeOK
<1>3. j.pc \notin Paid /\ j.pc \notin {"create", "credit", "mirror", "hours"}
  BY DEF Holding, Paid
<1>4. Mutex' /\ PayerBooked'
  BY <1>1, <1>2, <1>3 DEF Inv, Mutex, PayerBooked
<1>5. \A q \in Payer : payer[q].pc # "idle" => payer[q] \in Jobs
  BY JobType DEF Inv
<1>6. \A q \in Payer, k \in Kind : q # p /\ payer[q].pc # "idle" =>
        (Undone(<<payer[q].order, payer[q].ref, k>>)
           => UndoneNext(<<payer[q].order, payer[q].ref, k>>))
  BY <1>1, <1>5 DEF Keeps, Jobs
<1>7. PayerPending'
  <2> SUFFICES ASSUME NEW q \in Payer
               PROVE  /\ payer'[q].pc = "create" => UndoneNext(<<payer'[q].order, payer'[q].ref, "key">>)
                      /\ payer'[q].pc = "credit" => UndoneNext(<<payer'[q].order, payer'[q].ref, "credit">>)
                      /\ payer'[q].pc \in {"credit", "mirror", "hours"}
                           => UndoneNext(<<payer'[q].order, payer'[q].ref, "hours">>)
    BY DEF PayerPending, Undone, UndoneNext
  <2>1. CASE q = p
    BY <2>1, <1>2, <1>3
  <2>2. CASE q # p
    BY <2>2, <1>1, <1>6 DEF Inv, PayerPending, Kind
  <2> QED
    BY <2>1, <2>2
<1> QED
  BY <1>4, <1>7 DEF Payers

\* The payer that owns the mutex, or takes it: nobody else is past it.
LEMMA OwnerStep ==
  ASSUME Inv, NEW p \in Payer, mu = p \/ mu = Nobody, NEW j, payer' = [payer EXCEPT ![p] = j],
         j.pc \in Holding => mu' = p,
         j.pc \in Paid => Row(j.order, j.ref) \in payments',
         j.pc = "create" => UndoneNext(<<j.order, j.ref, "key">>),
         j.pc = "credit" => UndoneNext(<<j.order, j.ref, "credit">>),
         j.pc \in {"credit", "mirror", "hours"} => UndoneNext(<<j.order, j.ref, "hours">>)
  PROVE  Payers'
<1>1. \A q \in Payer : q # p => payer'[q] = payer[q] /\ payer[q].pc \notin Holding
  BY OrdersAssumption DEF Inv, TypeOK, Mutex
<1>2. payer'[p] = j
  BY DEF Inv, TypeOK
<1>3. \A q \in Payer : q # p => payer'[q].pc \notin Paid
                                /\ payer'[q].pc \notin {"create", "credit", "mirror", "hours"}
  BY <1>1 DEF Holding, Paid
<1>4. Mutex' /\ PayerBooked'
  BY <1>1, <1>2, <1>3 DEF Mutex, PayerBooked
<1>5. PayerPending'
  <2> SUFFICES ASSUME NEW q \in Payer
               PROVE  /\ payer'[q].pc = "create"
                           => UndoneNext(<<payer'[q].order, payer'[q].ref, "key">>)
                      /\ payer'[q].pc = "credit"
                           => UndoneNext(<<payer'[q].order, payer'[q].ref, "credit">>)
                      /\ payer'[q].pc \in {"credit", "mirror", "hours"}
                           => UndoneNext(<<payer'[q].order, payer'[q].ref, "hours">>)
    BY DEF PayerPending, Undone, UndoneNext
  <2>1. CASE q = p
    BY <2>1, <1>2
  <2>2. CASE q # p
    BY <2>2, <1>3
  <2> QED
    BY <2>1, <2>2
<1> QED
  BY <1>4, <1>5 DEF Payers

\* A clerk goes on with its order, or starts with a fresh press of the button.
LEMMA ClerkSteps ==
  ASSUME Inv, NEW c \in Clerk, NEW j, clerk' = [clerk EXCEPT ![c] = j],
         clicked \subseteq clicked',
         j.pc # "idle" => /\ Row(j.order, j.ticket) \in clicked'
                          /\ \A d \in Clerk : d # c /\ clerk[d].pc # "idle"
                               => clerk[d].ticket # j.ticket,
         j.pc = "create" => UndoneNext(<<j.order, j.ticket, "key">>),
         \A d \in Clerk : d # c /\ clerk[d].pc = "create" =>
           UndoneNext(<<clerk[d].order, clerk[d].ticket, "key">>)
  PROVE  Clerks'
<1>1. \A d \in Clerk : d # c => clerk'[d] = clerk[d]
  BY DEF Inv, TypeOK
<1>2. clerk'[c] = j
  BY DEF Inv, TypeOK
<1>3. ClerkBooked' /\ ClerkPending' /\ ClerkAlone'
  BY <1>1, <1>2 DEF Inv, ClerkBooked, ClerkPending, ClerkAlone, Undone, UndoneNext
<1> QED
  BY <1>3 DEF Clerks

(* Each step preserves the invariant.                                      *)

\* An idle payer, or one about to call fulfillOrder, is not past the mutex.
LEMMA LeaveHolding ==
  /\ Idle.pc \notin Holding /\ Idle.pc \notin Paid
  /\ Idle.pc \notin {"create", "credit", "mirror", "hours"}
  /\ \A o, r, i : /\ Calling(o, r, i).pc \notin Holding
                  /\ Calling(o, r, i).pc \notin Paid
                  /\ Calling(o, r, i).pc \notin {"create", "credit", "mirror", "hours"}
BY DEF Idle, Calling, Job, Holding, Paid

\* fulfillOrder's return, by its owner, keeps what the payers promise.
LEMMA ReturnPayers ==
  ASSUME Inv, NEW p \in Payer, payer[p].pc \in Holding, NEW ok \in BOOLEAN, Return(p, ok)
  PROVE  Payers'
<1>1. mu = p /\ payer[p] \in Jobs
  BY JobType DEF Inv, Mutex, Holding, Paid
<1>2. CASE payer' = [payer EXCEPT ![p] = Idle]
  BY <1>1, <1>2, OwnerStep, LeaveHolding
<1>3. CASE \E j \in Nat, r \in Crypto :
             payer' = [payer EXCEPT ![p] = Calling(payer[p].order, r, j)]
  <2>1. PICK j \in Nat, r \in Crypto :
          payer' = [payer EXCEPT ![p] = Calling(payer[p].order, r, j)]
    BY <1>3
  <2> DEFINE job == Calling(payer[p].order, r, j)
  <2>2. /\ job.pc \notin Holding /\ job.pc \notin Paid
        /\ job.pc \notin {"create", "credit", "mirror", "hours"}
    BY LeaveHolding
  <2> HIDE DEF job
  <2> QED
    BY <1>1, <2>1, <2>2, OwnerStep DEF job
<1> QED
  BY <1>1, <1>2, <1>3, ReturnStep DEF Inv

\* A call of keyadmin, for a key, credit or hours that were still undone.
LEMMA CallStep ==
  ASSUME Inv, NEW p \in Payer, payer[p].pc \in Paid, NEW kind \in Kind,
         NEW next \in Paid \ {"create", "credit"}, Call(p, kind, next),
         Undone(<<payer[p].order, payer[p].ref, kind>>),
         next \in {"mirror", "hours"} =>
           /\ kind # "hours"
           /\ Undone(<<payer[p].order, payer[p].ref, "hours">>)
  PROVE  Data' /\ Payers' /\ Clerks'
<1> DEFINE o == payer[p].order
           r == payer[p].ref
<1>1. /\ o \in Order /\ r \in Ref /\ r \in Ticket /\ r \notin Click
      /\ payer[p] \in Jobs /\ payer[p].pc \in Holding /\ mu = p
  BY JobType, OrdersAssumption DEF Inv, Mutex, Holding, Paid, Jobs, Ticket
<1>2. Row(o, r) \in payments /\ Row(o, r) \in Booked
  BY DEF Inv, PayerBooked, Booked
<1>3. Asks(<<o, r, kind>>) /\ UNCHANGED <<payments, clicked, clerk>>
  BY DEF Call, Asks, db
<1>4. /\ Data'
      /\ \A d \in Order, u \in Ticket, j \in Kind :
           <<d, u, j>> # <<o, r, kind>> /\ Undone(<<d, u, j>>) => UndoneNext(<<d, u, j>>)
  BY <1>1, <1>2, <1>3, AskStep
<1>5. Keeps(Click)
  BY <1>1, <1>4 DEF Keeps, Ticket
<1>6. Clerks'
  BY <1>3, <1>5, OthersClerks
<1>7. CASE Goto(p, next) /\ UNCHANGED mu
  <2> DEFINE j == Job(next, o, r, payer[p].scan)
  <2>1. j.pc = next /\ j.order = o /\ j.ref = r /\ payer' = [payer EXCEPT ![p] = j]
    BY <1>7 DEF Job, Goto
  <2>2. ASSUME next \in {"mirror", "hours"} PROVE UndoneNext(<<o, r, "hours">>)
    <3>1. <<o, r, "hours">> # <<o, r, kind>> /\ "hours" \in Kind
      BY <2>2 DEF Kind
    <3> HIDE DEF o, r
    <3> QED
      BY <1>1, <1>4, <2>2, <3>1 DEF o, r
  <2>3. Row(o, r) \in payments'
    BY <1>2, <1>3
  <2>4. mu = p /\ mu' = p /\ j.pc \notin {"create", "credit"}
    BY <1>1, <1>7, <2>1
  <2>5. j.pc \in {"mirror", "hours"} => UndoneNext(<<j.order, j.ref, "hours">>)
    BY <2>1, <2>2
  <2>6. Row(j.order, j.ref) \in payments' /\ payer' = [payer EXCEPT ![p] = j]
    BY <2>1, <2>3
  <2> HIDE DEF j, o, r
  <2> QED
    BY <1>4, <1>6, <2>4, <2>5, <2>6, OwnerStep
<1>8. CASE Return(p, FALSE)
  <2>1. payer[p].pc \in Holding /\ FALSE \in BOOLEAN
    BY <1>1
  <2> HIDE DEF o, r
  <2> QED
    BY <1>4, <1>6, <1>8, <2>1, ReturnPayers
<1> QED
  BY <1>4, <1>6, <1>7, <1>8 DEF Call

\* Statements of fulfillOrder that neither book nor ask: they move on or return.
LEMMA PlainStep ==
  ASSUME Inv, NEW p \in Payer, payer[p].pc \in Holding,
         UNCHANGED <<payments, clicked, applied, late, clerk>>,
         \/ \E ok \in BOOLEAN : Return(p, ok)
         \/ Goto(p, "pay") /\ UNCHANGED mu
         \/ Goto(p, "approve") /\ payer[p].pc \in Paid /\ UNCHANGED mu
         \/ Goto(p, "hours") /\ payer[p].pc = "mirror" /\ UNCHANGED mu
  PROVE  Data' /\ Payers' /\ Clerks'
<1>1. Data' /\ Keeps(Ticket)
  BY StillStep
<1>2. Clerks'
  BY <1>1, OthersClerks DEF Keeps, Ticket
<1>3. mu = p /\ payer[p] \in Jobs
  BY JobType DEF Inv, Mutex, Holding, Paid
<1>4. ASSUME NEW pc, Goto(p, pc), UNCHANGED mu,
             \/ pc = "pay"
             \/ pc = "approve" /\ payer[p].pc \in Paid
             \/ pc = "hours" /\ payer[p].pc = "mirror"
      PROVE  Payers'
  <2> DEFINE j == Job(pc, payer[p].order, payer[p].ref, payer[p].scan)
  <2>1. /\ j.pc = pc /\ j.order = payer[p].order /\ j.ref = payer[p].ref
        /\ payer' = [payer EXCEPT ![p] = j]
    BY <1>4 DEF Job, Goto
  <2> HIDE DEF j
  <2>2. j.pc \in Paid => Row(j.order, j.ref) \in payments'
    BY <1>4, <2>1 DEF Inv, PayerBooked, Paid
  <2>3. j.pc \notin {"create", "credit", "mirror"}
    BY <1>4, <2>1
  <2>4. j.pc = "hours" => UndoneNext(<<j.order, j.ref, "hours">>)
    BY <1>4, <2>1 DEF Inv, PayerPending, Undone, UndoneNext
  <2> QED
    BY <1>3, <1>4, <2>1, <2>2, <2>3, <2>4, OwnerStep
<1>5. Payers'
  BY <1>4, ReturnPayers
<1> QED
  BY <1>1, <1>2, <1>5

\* The INSERT INTO payments: refused by the unique index, failed, or booked.
LEMMA PayStep ==
  ASSUME Inv, NEW p \in Payer, InsertPayment(p)
  PROVE  Data' /\ Payers' /\ Clerks'
<1> DEFINE o == payer[p].order
           r == payer[p].ref
<1>1. /\ payer[p].pc = "pay" /\ payer[p].pc \in Holding /\ payer[p] \in Jobs /\ mu = p
      /\ o \in Order /\ r \in Ref
  BY JobType DEF Inv, InsertPayment, At, Mutex, Holding, Jobs
<1>2. CASE UNCHANGED payments /\ Return(p, FALSE)
  BY <1>1, <1>2, PlainStep DEF InsertPayment, kiro
<1>3. CASE ~Known(r) /\ payments' = payments \cup {Row(o, r)}
  <2>1. /\ Data' /\ Keeps(Ticket) /\ \A d \in Order, k \in Kind : Undone(<<d, r, k>>)
    BY <1>1, <1>3, BookStep DEF InsertPayment, kiro
  <2>2. Clerks'
    BY <2>1, OthersClerks DEF Keeps, Ticket, InsertPayment
  <2>3. ASSUME NEW pc \in {"credit", "create"}, Goto(p, pc), UNCHANGED mu
        PROVE  Payers'
    <3> DEFINE j == Job(pc, o, r, payer[p].scan)
    <3>1. /\ j.pc = pc /\ j.order = o /\ j.ref = r /\ payer' = [payer EXCEPT ![p] = j]
      BY <2>3 DEF Job, Goto
    <3>2. \A k \in Kind : UndoneNext(<<o, r, k>>)
      BY <1>1, <2>1 DEF Keeps, Ticket
    <3>3. Row(o, r) \in payments'
      BY <1>3
    <3> HIDE DEF j, o, r
    <3>4. \A k \in Kind : UndoneNext(<<j.order, j.ref, k>>)
      BY <3>1, <3>2
    <3>5. mu' = p /\ Row(j.order, j.ref) \in payments'
      BY <1>1, <2>3, <3>1, <3>3
    <3> QED
      BY <1>1, <3>1, <3>4, <3>5, OwnerStep DEF Kind
  <2>4. ASSUME Return(p, FALSE) PROVE Payers'
    <3>1. payer[p].pc \in Holding /\ FALSE \in BOOLEAN
      BY <1>1
    <3> HIDE DEF o, r
    <3> QED
      BY <2>4, <3>1, ReturnPayers
  <2>5. Payers'
    BY <1>3, <2>3, <2>4 DEF InsertPayment
  <2> QED
    BY <2>1, <2>2, <2>5
<1> QED
  BY <1>2, <1>3 DEF InsertPayment

\* Every statement of fulfillOrder preserves the invariant.
LEMMA FulfilStep ==
  ASSUME Inv, NEW p \in Payer, fulfillOrder(p)
  PROVE  Data' /\ Payers' /\ Clerks'
<1>0. /\ payer[p].pc \in Holding
      /\ FALSE \in BOOLEAN /\ TRUE \in BOOLEAN
  BY DEF fulfillOrder, loadOrderForFulfill, InsertPayment, CreateKeyWithExpiry,
     InsertIssued, AddCredit, MirrorCredit, AddHours, MarkApproved, At, Holding, Paid
<1>1. CASE loadOrderForFulfill(p)
  BY <1>0, <1>1, PlainStep DEF loadOrderForFulfill, db, kiro
<1>2. CASE InsertPayment(p)
  BY <1>2, PayStep
<1>3. CASE CreateKeyWithExpiry(p)
  <2>1. /\ payer[p].pc = "create" /\ Call(p, "key", "issue")
        /\ payer[p].pc \in Paid /\ "key" \in Kind /\ "issue" \in Paid \ {"create", "credit"}
        /\ Undone(<<payer[p].order, payer[p].ref, "key">>)
    BY <1>3 DEF CreateKeyWithExpiry, At, Inv, PayerPending, Paid, Kind
  <2> QED
    BY <2>1, CallStep
<1>4. CASE InsertIssued(p)
  <2>1. payer[p].pc \in Paid
    BY <1>4 DEF InsertIssued, At, Paid
  <2> QED
    BY <1>0, <1>4, <2>1, PlainStep DEF InsertIssued, kiro
<1>5. CASE AddCredit(p)
  <2>1. /\ payer[p].pc = "credit" /\ Call(p, "credit", "mirror")
        /\ payer[p].pc \in Paid /\ "credit" \in Kind /\ "mirror" \in Paid \ {"create", "credit"}
        /\ Undone(<<payer[p].order, payer[p].ref, "credit">>)
        /\ Undone(<<payer[p].order, payer[p].ref, "hours">>)
    BY <1>5 DEF AddCredit, At, Inv, PayerPending, Paid, Kind
  <2> QED
    BY <2>1, CallStep
<1>6. CASE MirrorCredit(p)
  <2>1. payer[p].pc = "mirror" /\ payer[p].pc \in Paid
    BY <1>6 DEF MirrorCredit, At, Paid
  <2> QED
    BY <1>0, <1>6, <2>1, PlainStep DEF MirrorCredit, kiro
<1>7. CASE AddHours(p)
  <2>1. /\ payer[p].pc = "hours" /\ Call(p, "hours", "approve")
        /\ payer[p].pc \in Paid /\ "hours" \in Kind /\ "approve" \in Paid \ {"create", "credit"}
        /\ Undone(<<payer[p].order, payer[p].ref, "hours">>)
    BY <1>7 DEF AddHours, At, Inv, PayerPending, Paid, Kind
  <2> QED
    BY <2>1, CallStep
<1>8. CASE MarkApproved(p)
  BY <1>0, <1>8, PlainStep DEF MarkApproved, kiro
<1> QED
  BY <1>1, <1>2, <1>3, <1>4, <1>5, <1>6, <1>7, <1>8 DEF fulfillOrder

\* The admin's approve button, in its three statements after the click.
LEMMA AdminStep ==
  ASSUME Inv, NEW c \in Clerk, AdminCreate(c) \/ AdminIssue(c) \/ AdminMark(c)
  PROVE  Data' /\ Payers' /\ Clerks'
<1> DEFINE o == clerk[c].order
           k == clerk[c].ticket
<1>1. /\ clerk[c].pc # "idle" /\ clerk[c] \in Tasks
      /\ o \in Order /\ k \in Click /\ k \in Ticket /\ k \notin Ref
      /\ Row(o, k) \in clicked /\ Row(o, k) \in Booked
      /\ \A d \in Clerk : d # c /\ clerk[d].pc # "idle" => clerk[d].ticket # k
  BY JobType, OrdersAssumption
     DEF Inv, AdminCreate, AdminIssue, AdminMark, Tasks, Ticket, ClerkBooked, ClerkAlone, Booked
<1>2. UNCHANGED <<payments, clicked, payer, mu>>
  BY DEF AdminCreate, AdminIssue, AdminMark, db
<1>3. /\ Data' /\ Keeps(Ref)
      /\ \A d \in Order, u \in Click \ {k} : Undone(<<d, u, "key">>) => UndoneNext(<<d, u, "key">>)
  <2>1. CASE AdminCreate(c)
    <3>1. Undone(<<o, k, "key">>) /\ Asks(<<o, k, "key">>) /\ "key" \in Kind
      BY <2>1 DEF AdminCreate, Inv, ClerkPending, Asks, Kind
    <3>2. /\ Data'
          /\ \A d \in Order, u \in Ticket, j \in Kind :
               <<d, u, j>> # <<o, k, "key">> /\ Undone(<<d, u, j>>) => UndoneNext(<<d, u, j>>)
      BY <1>1, <1>2, <3>1, AskStep
    <3> QED
      BY <1>1, <3>1, <3>2 DEF Keeps, Ticket
  <2>2. CASE AdminIssue(c) \/ AdminMark(c)
    <3>1. Data' /\ Keeps(Ticket)
      BY <2>2, <1>2, StillStep DEF AdminIssue, AdminMark, kiro
    <3> QED
      BY <3>1 DEF Keeps, Ticket, Kind
  <2> QED
    BY <2>1, <2>2
<1>4. Payers'
  BY <1>2, <1>3, OthersPayers
<1>5. \A d \in Clerk : d # c /\ clerk[d].pc = "create" =>
        UndoneNext(<<clerk[d].order, clerk[d].ticket, "key">>)
  <2>1. \A d \in Clerk : clerk[d].pc # "idle" => clerk[d] \in Tasks
    BY JobType DEF Inv
  <2>2. \A d \in Clerk : d # c /\ clerk[d].pc = "create" =>
          clerk[d].order \in Order /\ clerk[d].ticket \in Click \ {k}
    BY <1>1, <2>1 DEF Tasks
  <2> HIDE DEF o, k
  <2> QED
    BY <1>3, <2>2 DEF Inv, ClerkPending
<1>6. Clerks'
  <2>0. /\ Idle.pc = "idle"
        /\ \A pc : /\ Task(pc, o, k).pc = pc
                   /\ Task(pc, o, k).order = o /\ Task(pc, o, k).ticket = k
    BY DEF Idle, Task
  <2>1. \/ clerk' = [clerk EXCEPT ![c] = Idle]
        \/ \E pc \in {"issue", "approve"} : clerk' = [clerk EXCEPT ![c] = Task(pc, o, k)]
    BY DEF AdminCreate, AdminIssue, AdminMark, ClerkGoto, ClerkDone
  <2>2. PICK j : /\ clerk' = [clerk EXCEPT ![c] = j] /\ j.pc # "create"
                 /\ j.pc # "idle" => j.order = o /\ j.ticket = k
    BY <2>0, <2>1
  <2> HIDE DEF o, k
  <2>3. j.pc # "idle" => /\ Row(j.order, j.ticket) \in clicked'
                         /\ \A d \in Clerk : d # c /\ clerk[d].pc # "idle"
                              => clerk[d].ticket # j.ticket
    BY <1>1, <1>2, <2>2
  <2> QED
    BY <1>2, <1>5, <2>2, <2>3, ClerkSteps
<1> QED
  BY <1>3, <1>4, <1>6

\* The admin presses approve: a fresh press of the button for an idle clerk.
LEMMA ApproveStep ==
  ASSUME Inv, NEW c \in Clerk, NEW o \in Order, NEW k \in Click, AdminApprove(c, o, k)
  PROVE  Data' /\ Payers' /\ Clerks'
<1>1. /\ Data' /\ Keeps(Ticket)
      /\ \A d \in Order, j \in Kind : Undone(<<d, k, j>>)
  BY ClickStep DEF AdminApprove, db, kiro
<1>2. Payers'
  BY <1>1, OthersPayers DEF AdminApprove, db, Keeps, Ticket
<1> DEFINE j == Task("create", o, k)
<1>3. /\ clerk' = [clerk EXCEPT ![c] = j] /\ clicked' = clicked \cup {Row(o, k)}
      /\ j.pc = "create" /\ j.order = o /\ j.ticket = k
  BY DEF AdminApprove, Task
<1>4. \A d \in Clerk : clerk[d].pc # "idle" => clerk[d] \in Tasks
  BY JobType DEF Inv
<1>5. \A d \in Clerk : clerk[d].pc # "idle" => clerk[d].ticket # k
  <2>1. \A b \in clicked : b.ref # k
    BY DEF AdminApprove
  <2> QED
    BY <2>1 DEF Inv, ClerkBooked, Row
<1>6. \A d \in Clerk : clerk[d].pc = "create" =>
        UndoneNext(<<clerk[d].order, clerk[d].ticket, "key">>)
  BY <1>1, <1>4 DEF Inv, ClerkPending, Keeps, Ticket, Tasks, Kind
<1>7. UndoneNext(<<o, k, "key">>)
  BY <1>1 DEF Keeps, Ticket, Kind
<1> HIDE DEF j
<1>8. UndoneNext(<<j.order, j.ticket, "key">>) /\ Row(j.order, j.ticket) \in clicked'
  BY <1>3, <1>7
<1>9. Clerks'
  BY <1>3, <1>5, <1>6, <1>8, ClerkSteps
<1> QED
  BY <1>1, <1>2, <1>9

\* A payer enters its handler: no booking, nothing asked, no mutex.
LEMMA EnterStep ==
  ASSUME Inv, NEW p \in Payer, payer[p].pc = "idle",
         UNCHANGED <<payments, clicked, applied, late, mu, clerk>>,
         \/ UNCHANGED payer
         \/ \E o, r, i : payer' = [payer EXCEPT ![p] = Calling(o, r, i)]
  PROVE  Data' /\ Payers' /\ Clerks'
<1>1. Data' /\ Keeps(Ticket)
  BY StillStep
<1>2. Keeps(Ref) /\ Keeps(Click)
  BY <1>1 DEF Keeps, Ticket
<1>3. Clerks'
  BY <1>2, OthersClerks
<1>4. CASE UNCHANGED payer
  BY <1>1, <1>2, <1>3, <1>4, OthersPayers
<1>5. ASSUME NEW o, NEW r, NEW i, payer' = [payer EXCEPT ![p] = Calling(o, r, i)]
      PROVE  Payers'
  <2>1. Calling(o, r, i).pc \notin Holding
    BY LeaveHolding
  <2> QED
    BY <1>2, <1>5, <2>1, OutsideStep
<1> QED
  BY <1>1, <1>3, <1>4, <1>5

\* Every step of the storefront, its customers and kiro-go preserves it.
LEMMA InvNext == Inv /\ [Next]_vars => Inv'
<1> SUFFICES ASSUME Inv, [Next]_vars PROVE Data' /\ Payers' /\ Clerks'
  BY NextType DEF Inv, Data, Payers, Clerks
<1>1. ASSUME UNCHANGED <<payments, clicked, applied, late, payer, mu, clerk>>
      PROVE  Data' /\ Payers' /\ Clerks'
  <2>1. Data' /\ Keeps(Ticket)
    BY <1>1, StillStep
  <2>2. Keeps(Ref) /\ Keeps(Click)
    BY <2>1 DEF Keeps, Ticket
  <2> QED
    BY <1>1, <2>1, <2>2, OthersPayers, OthersClerks
<1>2. ASSUME NEW o \in Order, handleCheckout(o) \/ handleOrderConfirm(o) \/ AdminCancel(o)
      PROVE  Data' /\ Payers' /\ Clerks'
  BY <1>1, <1>2 DEF handleCheckout, handleOrderConfirm, AdminCancel, kiro, procs
<1>3. ASSUME NEW r \in Ref, NEW o \in Order, Pay(r, o)
      PROVE  Data' /\ Payers' /\ Clerks'
  BY <1>1, <1>3 DEF Pay, db, kiro, procs
<1>4. ASSUME NEW p \in Payer,
             \/ \E r \in Ref : handleSepayWebhook(p, r)
             \/ \E o \in Order, r \in Ref : handlePaypalCapture(p, o, r)
             \/ \E o \in Order : checkCryptoPayment(p, o)
      PROVE  Data' /\ Payers' /\ Clerks'
  <2>1. /\ payer[p].pc = "idle"
        /\ UNCHANGED <<payments, clicked, applied, late, mu, clerk>>
        /\ \/ UNCHANGED payer
           \/ \E o, r, i : payer' = [payer EXCEPT ![p] = Calling(o, r, i)]
    BY <1>4 DEF handleSepayWebhook, handlePaypalCapture, checkCryptoPayment, TryTransfer, db, kiro
  <2> QED
    BY <2>1, EnterStep
<1>5. ASSUME NEW p \in Payer, Lock(p)
      PROVE  Data' /\ Payers' /\ Clerks'
  <2>1. Data' /\ Keeps(Ticket)
    BY <1>5, StillStep DEF Lock, db, kiro
  <2>2. Clerks'
    BY <1>5, <2>1, OthersClerks DEF Lock, Keeps, Ticket
  <2> DEFINE j == Job("load", payer[p].order, payer[p].ref, payer[p].scan)
  <2>3. /\ j.pc = "load" /\ payer' = [payer EXCEPT ![p] = j] /\ mu = Nobody /\ mu' = p
    BY <1>5 DEF Lock, Goto, Job
  <2> HIDE DEF j
  <2>4. j.pc \notin Paid /\ j.pc \notin {"create", "credit", "mirror", "hours"}
    BY <2>3 DEF Paid
  <2> QED
    BY <2>1, <2>2, <2>3, <2>4, OwnerStep
<1>6. ASSUME NEW p \in Payer, fulfillOrder(p)
      PROVE  Data' /\ Payers' /\ Clerks'
  BY <1>6, FulfilStep
<1>7. ASSUME NEW c \in Clerk,
             \/ \E o \in Order, k \in Click : AdminApprove(c, o, k)
             \/ AdminCreate(c) \/ AdminIssue(c) \/ AdminMark(c)
      PROVE  Data' /\ Payers' /\ Clerks'
  BY <1>7, ApproveStep, AdminStep
<1>8. ASSUME NEW e \in late, Land(e)
      PROVE  Data' /\ Payers' /\ Clerks'
  <2>1. Data' /\ Keeps(Ticket)
    BY <1>8, LandStep
  <2>2. UNCHANGED <<payments, clicked, payer, mu, clerk>> /\ Keeps(Ref) /\ Keeps(Click)
    BY <1>8, <2>1 DEF Land, db, procs, Keeps, Ticket
  <2> QED
    BY <2>1, <2>2, OthersPayers, OthersClerks
<1>9. CASE Crash
  <2>1. Data'
    BY <1>9, StillStep DEF Crash, db, kiro
  <2>2. /\ \A p \in Payer : payer'[p] = Idle
        /\ \A c \in Clerk : clerk'[c] = Idle
    BY <1>9 DEF Crash
  <2>3. Payers'
    BY <2>2, LeaveHolding DEF Payers, Mutex, PayerBooked, PayerPending
  <2>4. Clerks'
    BY <2>2 DEF Clerks, ClerkBooked, ClerkPending, ClerkAlone, Idle
  <2> QED
    BY <2>1, <2>3, <2>4
<1>10. CASE UNCHANGED vars
  BY <1>1, <1>10 DEF vars, db, kiro, procs
<1> QED
  BY <1>2, <1>3, <1>4, <1>5, <1>6, <1>7, <1>8, <1>9, <1>10 DEF Next

\* The strengthening that makes one delivery per payment inductive: who owns
\* fulfillMu, what each goroutine has booked, and what it has yet to ask for.
THEOREM Invariant == Spec => []Inv
<1> QED
  BY InvInit, InvNext, PTL DEF Spec

\* However webhooks are repeated, transfers rescanned and calls given up, and
\* wherever the process dies, a payment is turned into at most one key, or one
\* addition of credit and of hours, for the one order it is booked for.
THEOREM DeliveredOnce == Spec => []OneDeliveryPerPayment
<1>1. Inv => OneDeliveryPerPayment
  <2> SUFFICES ASSUME Inv, NEW d1 \in Order, NEW d2 \in Order, NEW t \in Ticket, NEW k \in Kind
               PROVE  /\ applied[<<d1, t, k>>] <= 1
                      /\ applied[<<d1, t, k>>] > 0 /\ applied[<<d2, t, k>>] > 0 => d1 = d2
    BY DEF OneDeliveryPerPayment
  <2>1. <<d1, t, k>> \in Effect
    BY DEF Effect
  <2>2. applied[<<d1, t, k>>] <= 1
    BY <2>1 DEF Inv, AtMostOnce
  <2>3. ASSUME applied[<<d1, t, k>>] > 0, applied[<<d2, t, k>>] > 0 PROVE d1 = d2
    <3>1. Row(d1, t) \in Booked /\ Row(d2, t) \in Booked
      BY <2>3 DEF Inv, EffectsBooked, Undone
    <3>2. Row(d1, t) = Row(d2, t)
      BY <3>1 DEF Inv, BookedOnce, Row
    <3> QED
      BY <3>2 DEF Row
  <2> QED
    BY <2>2, <2>3
<1> QED
  BY <1>1, Invariant, PTL

-----------------------------------------------------------------------------
(* Refinement of the ledger.                                               *)

\* The first state of the storefront is the empty ledger.
LEMMA LedgerInit == Init => Ledger!Init
BY DEF Init, Ledger!Init, Effect, Row

\* What a call of keyadmin does to the ledger: nothing when it is given up.
LEMMA LedgerAsk ==
  ASSUME Inv, NEW o \in Order, NEW t \in Ticket, NEW k \in Kind,
         Row(o, t) \in Booked, Undone(<<o, t, k>>), Asks(<<o, t, k>>),
         UNCHANGED <<payments, clicked>>
  PROVE  Ledger!Next \/ UNCHANGED <<payments \cup clicked, applied>>
<1>1. applied[<<o, t, k>>] = 0
  BY DEF Undone
<1>2. CASE applied' = [applied EXCEPT ![<<o, t, k>>] = @ + 1]
  <2>1. applied' = [applied EXCEPT ![<<o, t, k>>] = 1]
    BY <1>1, <1>2
  <2>2. Ledger!Give(o, t, k)
    BY <1>1, <2>1 DEF Ledger!Give, Booked, Row
  <2> QED
    BY <2>2 DEF Ledger!Next
<1>3. CASE UNCHANGED applied
  BY <1>3
<1> QED
  BY <1>2, <1>3 DEF Asks

\* A new booking of the storefront is a Book step of the ledger.
LEMMA LedgerBook ==
  ASSUME Inv, NEW o \in Order, NEW t \in Ticket, \A b \in Booked : b.ref # t,
         Booked' = Booked \cup {Row(o, t)}, UNCHANGED applied
  PROVE  Ledger!Next
<1>1. Ledger!Book(o, t)
  BY DEF Ledger!Book, Booked, Row
<1> QED
  BY <1>1 DEF Ledger!Next

\* Every step books, gives, or leaves the ledger as it was.
LEMMA LedgerNext ==
  Inv /\ [Next]_vars => Ledger!Next \/ UNCHANGED <<payments \cup clicked, applied>>
<1> SUFFICES ASSUME Inv, [Next]_vars
             PROVE  Ledger!Next \/ UNCHANGED <<payments \cup clicked, applied>>
  OBVIOUS
<1>1. CASE UNCHANGED <<payments, clicked, applied>>
  BY <1>1
<1>2. ASSUME NEW p \in Payer, InsertPayment(p), payments' # payments
      PROVE  Ledger!Next
  <2> DEFINE o == payer[p].order
             r == payer[p].ref
  <2>1. /\ ~Known(r) /\ payments' = payments \cup {Row(o, r)}
        /\ UNCHANGED <<clicked, applied>>
    BY <1>2 DEF InsertPayment, kiro
  <2>2. o \in Order /\ r \in Ref /\ r \in Ticket
    BY <1>2, JobType DEF Inv, InsertPayment, At, Jobs, Ticket
  <2> HIDE DEF o, r
  <2>3. \A b \in Booked : b.ref # r
    BY <2>1, <2>2, OrdersAssumption DEF Inv, TypeOK, Booked, Known
  <2>4. Booked' = Booked \cup {Row(o, r)}
    BY <2>1 DEF Booked
  <2> QED
    BY <2>1, <2>2, <2>3, <2>4, LedgerBook
<1>3. ASSUME NEW c \in Clerk, NEW o \in Order, NEW k \in Click, AdminApprove(c, o, k)
      PROVE  Ledger!Next
  <2>1. \A b \in Booked : b.ref # k
    BY <1>3, OrdersAssumption DEF Inv, TypeOK, Booked, AdminApprove
  <2>2. Booked' = Booked \cup {Row(o, k)} /\ UNCHANGED applied /\ k \in Ticket
    BY <1>3 DEF Booked, AdminApprove, db, kiro, Ticket
  <2> QED
    BY <2>1, <2>2, LedgerBook
<1>4. ASSUME NEW p \in Payer, NEW k \in Kind, NEW next, Call(p, k, next),
             payer[p].pc \in Paid, Undone(<<payer[p].order, payer[p].ref, k>>)
      PROVE  Ledger!Next \/ UNCHANGED <<payments \cup clicked, applied>>
  <2>1. /\ payer[p].order \in Order /\ payer[p].ref \in Ticket
        /\ Row(payer[p].order, payer[p].ref) \in Booked
    BY <1>4, JobType DEF Inv, PayerBooked, Booked, Jobs, Ticket, Paid
  <2>2. Asks(<<payer[p].order, payer[p].ref, k>>) /\ UNCHANGED <<payments, clicked>>
    BY <1>4 DEF Call, Asks, db
  <2> QED
    BY <1>4, <2>1, <2>2, LedgerAsk
<1>5. ASSUME NEW p \in Payer, CreateKeyWithExpiry(p) \/ AddCredit(p) \/ AddHours(p)
      PROVE  Ledger!Next \/ UNCHANGED <<payments \cup clicked, applied>>
  BY <1>4, <1>5
     DEF CreateKeyWithExpiry, AddCredit, AddHours, At, Inv, PayerPending, Paid, Kind
<1>6. ASSUME NEW c \in Clerk, AdminCreate(c)
      PROVE  Ledger!Next \/ UNCHANGED <<payments \cup clicked, applied>>
  <2>1. /\ clerk[c].order \in Order /\ clerk[c].ticket \in Ticket /\ "key" \in Kind
        /\ Row(clerk[c].order, clerk[c].ticket) \in Booked
        /\ Undone(<<clerk[c].order, clerk[c].ticket, "key">>)
    BY <1>6, JobType
       DEF Inv, AdminCreate, ClerkBooked, ClerkPending, Booked, Tasks, Ticket, Kind
  <2>2. Asks(<<clerk[c].order, clerk[c].ticket, "key">>) /\ UNCHANGED <<payments, clicked>>
    BY <1>6 DEF AdminCreate, Asks, db
  <2> QED
    BY <2>1, <2>2, LedgerAsk
<1>7. ASSUME NEW e \in late, Land(e)
      PROVE  Ledger!Next
  <2>1. PICK o \in Order, t \in Ticket, k \in Kind : e = <<o, t, k>>
    BY DEF Inv, TypeOK, Effect
  <2>2. applied[e] = 0 /\ Row(o, t) \in Booked
    BY <2>1 DEF Inv, TypeOK, AtMostOnce, EffectsBooked, Undone
  <2>3. /\ applied' = [applied EXCEPT ![<<o, t, k>>] = 1]
        /\ UNCHANGED <<payments, clicked>>
    BY <1>7, <2>1, <2>2 DEF Land, db
  <2>4. Ledger!Give(o, t, k)
    BY <2>1, <2>2, <2>3 DEF Ledger!Give, Booked, Row
  <2> QED
    BY <2>4 DEF Ledger!Next
<1>8. ASSUME NEW p \in Payer,
             \/ \E r \in Ref : handleSepayWebhook(p, r)
             \/ \E o \in Order, r \in Ref : handlePaypalCapture(p, o, r)
             \/ \E o \in Order : checkCryptoPayment(p, o)
             \/ Lock(p) \/ loadOrderForFulfill(p) \/ InsertIssued(p)
             \/ MirrorCredit(p) \/ MarkApproved(p)
      PROVE  UNCHANGED <<payments, clicked, applied>>
  BY <1>8 DEF handleSepayWebhook, handlePaypalCapture, checkCryptoPayment, Lock,
     loadOrderForFulfill, InsertIssued, MirrorCredit, MarkApproved, db, kiro
<1>9. ASSUME NEW p \in Payer, fulfillOrder(p)
      PROVE  Ledger!Next \/ UNCHANGED <<payments \cup clicked, applied>>
  <2>1. CASE InsertPayment(p) /\ payments' = payments
    BY <1>1, <2>1 DEF InsertPayment, kiro
  <2> QED
    BY <1>1, <1>2, <1>5, <1>8, <1>9, <2>1 DEF fulfillOrder
<1>10. ASSUME \/ \E o \in Order : handleCheckout(o) \/ handleOrderConfirm(o) \/ AdminCancel(o)
              \/ \E r \in Ref, o \in Order : Pay(r, o)
              \/ \E c \in Clerk : AdminIssue(c) \/ AdminMark(c)
              \/ Crash \/ UNCHANGED vars
       PROVE  UNCHANGED <<payments, clicked, applied>>
  BY <1>10 DEF handleCheckout, handleOrderConfirm, AdminCancel, Pay, AdminIssue, AdminMark,
     Crash, vars, db, kiro
<1> QED
  BY <1>1, <1>3, <1>6, <1>7, <1>8, <1>9, <1>10 DEF Next

\* Whatever the gateways, the admin, keyadmin's failures and crashes do, the
\* storefront's bookings and kiro-go's deliveries follow the ledger.
THEOREM FulfilmentImplementsLedger == Spec => ImplementsLedger
<1> QED
  BY LedgerInit, LedgerNext, Invariant, PTL DEF Spec, ImplementsLedger, Ledger!Spec

-----------------------------------------------------------------------------
(* Approved orders.                                                        *)

Delivered(o) == Renewed(o) \/ \E i \in issued : i.order = o

\* A payer past a call of keyadmin was answered: its order is being delivered,
\* and once only its approval is left it is.
PayerDelivers(p) ==
  /\ payer[p].pc \in {"credit", "mirror", "hours"} => payer[p].order \in Linked
  /\ payer[p].pc \in {"mirror", "hours"} =>
       applied[<<payer[p].order, payer[p].ref, "credit">>] > 0
  /\ payer[p].pc = "approve" => Delivered(payer[p].order)

ClerkDelivers(c) == clerk[c].pc = "approve" => Delivered(clerk[c].order)

DeliveryInv ==
  /\ ApprovedIsDelivered
  /\ \A p \in Payer : PayerDelivers(p)
  /\ \A c \in Clerk : ClerkDelivers(c)

\* An effect of a well-typed job is one of the effects.
LEMMA EffectOf ==
  ASSUME NEW o \in Order, NEW t \in Ticket, NEW k \in Kind
  PROVE  <<o, t, k>> \in Effect
BY DEF Effect

\* What kiro-go has done and the issued keys are never taken back.
LEMMA NothingIsTakenBack ==
  ASSUME TypeOK, [Next]_vars
  PROVE  issued \subseteq issued' /\ \A e \in Effect : applied[e] > 0 => applied'[e] > 0
<1>0. applied \in [Effect -> Nat] /\ late \subseteq Effect
  BY DEF TypeOK
<1>1. ASSUME NEW e \in Effect, applied' = [applied EXCEPT ![e] = @ + 1]
      PROVE  \A f \in Effect : applied[f] > 0 => applied'[f] > 0
  BY <1>0, <1>1
<1>2. ASSUME NEW p \in Payer, fulfillOrder(p)
      PROVE  /\ issued \subseteq issued'
             /\ \/ applied' = applied
                \/ \E e \in Effect : applied' = [applied EXCEPT ![e] = @ + 1]
  <2>1. payer[p].pc # "idle" => payer[p] \in Jobs
    BY JobType
  <2>2. ASSUME NEW k \in Kind, payer[p] \in Jobs
        PROVE  <<payer[p].order, payer[p].ref, k>> \in Effect
    BY <2>2, EffectOf DEF Jobs, Ticket
  <2>3. CASE CreateKeyWithExpiry(p) \/ AddCredit(p) \/ AddHours(p)
    BY <2>1, <2>2, <2>3 DEF CreateKeyWithExpiry, AddCredit, AddHours, At, Call, db, Kind
  <2>4. CASE ~(CreateKeyWithExpiry(p) \/ AddCredit(p) \/ AddHours(p))
    BY <1>2, <2>4 DEF fulfillOrder, loadOrderForFulfill, InsertPayment, InsertIssued,
       MirrorCredit, MarkApproved, db, kiro
  <2> QED BY <2>3, <2>4
<1>3. ASSUME NEW c \in Clerk, AdminCreate(c) \/ AdminIssue(c) \/ AdminMark(c)
      PROVE  /\ issued \subseteq issued'
             /\ \/ applied' = applied
                \/ \E e \in Effect : applied' = [applied EXCEPT ![e] = @ + 1]
  <2>1. CASE AdminCreate(c)
    <3>1. clerk[c].pc # "idle" => clerk[c] \in Tasks
      BY JobType
    <3>2. <<clerk[c].order, clerk[c].ticket, "key">> \in Effect
      BY <2>1, <3>1, EffectOf DEF AdminCreate, Tasks, Ticket, Kind
    <3> QED BY <2>1, <3>2 DEF AdminCreate, db
  <2>2. CASE AdminIssue(c) \/ AdminMark(c)
    BY <2>2 DEF AdminIssue, AdminMark, kiro
  <2> QED BY <1>3, <2>1, <2>2
<1>4. ASSUME \/ \E o \in Order : handleCheckout(o) \/ handleOrderConfirm(o) \/ AdminCancel(o)
             \/ \E r \in Ref, o \in Order : Pay(r, o)
             \/ \E p \in Payer : \/ \E r \in Ref : handleSepayWebhook(p, r)
                                 \/ \E o \in Order, r \in Ref : handlePaypalCapture(p, o, r)
                                 \/ \E o \in Order : checkCryptoPayment(p, o)
                                 \/ Lock(p)
             \/ \E c \in Clerk, o \in Order, k \in Click : AdminApprove(c, o, k)
             \/ Crash \/ UNCHANGED vars
      PROVE  UNCHANGED <<issued, applied>>
  BY <1>4 DEF handleCheckout, handleOrderConfirm, AdminCancel, Pay, handleSepayWebhook,
     handlePaypalCapture, checkCryptoPayment, Lock, AdminApprove, Crash, vars, db, kiro
<1>5. ASSUME NEW e \in late, Land(e)
      PROVE  issued' = issued /\ e \in Effect /\ applied' = [applied EXCEPT ![e] = @ + 1]
  BY <1>0, <1>5 DEF Land, db
<1> QED BY <1>1, <1>2, <1>3, <1>4, <1>5 DEF Next

\* A delivered order stays delivered.
LEMMA DeliveredStays ==
  ASSUME TypeOK, [Next]_vars, NEW o \in Order, Delivered(o)
  PROVE  Delivered(o)'
<1>1. CASE Renewed(o)
  <2>1. PICK r \in Ref : /\ applied[<<o, r, "credit">>] > 0
                         /\ o \in Timed => applied[<<o, r, "hours">>] > 0
    BY <1>1 DEF Renewed
  <2>2. <<o, r, "credit">> \in Effect /\ <<o, r, "hours">> \in Effect
    BY EffectOf DEF Ticket, Kind
  <2> QED BY <1>1, <2>1, <2>2, NothingIsTakenBack DEF Renewed, Delivered
<1>2. CASE \E i \in issued : i.order = o
  BY <1>2, NothingIsTakenBack DEF Delivered
<1> QED BY <1>1, <1>2 DEF Delivered

\* What the step of a payer inside fulfillOrder comes to.
LEMMA PayerGoes ==
  ASSUME TypeOK, NEW p \in Payer, payer[p] \in Jobs, NEW pc, Goto(p, pc)
  PROVE  /\ payer'[p].pc = pc
         /\ payer'[p].order = payer[p].order /\ payer'[p].ref = payer[p].ref
         /\ \A q \in Payer \ {p} : payer'[q] = payer[q]
BY DEF TypeOK, Goto, Job

LEMMA PayerReturns ==
  ASSUME TypeOK, NEW p \in Payer, payer[p] \in Jobs, NEW ok \in BOOLEAN, Return(p, ok)
  PROVE  payer'[p].pc \in {"idle", "lock"} /\ \A q \in Payer \ {p} : payer'[q] = payer[q]
<1>1. CASE payer' = [payer EXCEPT ![p] = Idle]
  BY <1>1 DEF TypeOK, Idle
<1>2. CASE \E j \in Nat, r \in Crypto : payer' = [payer EXCEPT ![p] = Calling(payer[p].order, r, j)]
  BY <1>2 DEF TypeOK, Calling, Job
<1> QED BY <1>1, <1>2, ReturnStep

\* A payer that is still what it was keeps its promise.
LEMMA PayerRests ==
  ASSUME TypeOK, [Next]_vars, NEW p \in Payer, PayerDelivers(p), payer'[p] = payer[p]
  PROVE  PayerDelivers(p)'
<1>1. CASE payer[p].pc \in {"credit", "mirror", "hours", "approve"}
  <2>1. payer[p] \in Jobs
    BY <1>1, JobType
  <2>2. payer[p].order \in Order /\ <<payer[p].order, payer[p].ref, "credit">> \in Effect
    BY <2>1, EffectOf DEF Jobs, Ticket, Kind
  <2> QED BY <2>2, NothingIsTakenBack, DeliveredStays DEF PayerDelivers
<1>2. CASE payer[p].pc \notin {"credit", "mirror", "hours", "approve"}
  BY <1>2 DEF PayerDelivers
<1> QED BY <1>1, <1>2

\* A statement of fulfillOrder leads to the next one with what that one promises.
LEMMA FulfilDelivers ==
  ASSUME TypeOK, NEW p \in Payer, PayerDelivers(p), fulfillOrder(p)
  PROVE  PayerDelivers(p)' /\ \A q \in Payer \ {p} : payer'[q] = payer[q]
<1>0. payer[p] \in Jobs /\ FALSE \in BOOLEAN /\ TRUE \in BOOLEAN
  BY JobType DEF fulfillOrder, loadOrderForFulfill, InsertPayment, CreateKeyWithExpiry,
     InsertIssued, AddCredit, MirrorCredit, AddHours, MarkApproved, At
<1>1. PICK o \in Order, r \in Ticket :
        o = payer[p].order /\ r = payer[p].ref /\ r \in Ref /\ applied \in [Effect -> Nat]
  BY <1>0 DEF Jobs, Ticket, TypeOK
<1>2. ASSUME \E ok \in BOOLEAN : Return(p, ok)
      PROVE  PayerDelivers(p)' /\ \A q \in Payer \ {p} : payer'[q] = payer[q]
  BY <1>1, <1>0, <1>2, PayerReturns DEF PayerDelivers
<1>3. ASSUME NEW pc, Goto(p, pc), pc \in {"pay", "create", "issue"}
      PROVE  PayerDelivers(p)' /\ \A q \in Payer \ {p} : payer'[q] = payer[q]
  BY <1>1, <1>0, <1>3, PayerGoes DEF PayerDelivers
<1>4. ASSUME Goto(p, "approve"), Delivered(o)'
      PROVE  PayerDelivers(p)' /\ \A q \in Payer \ {p} : payer'[q] = payer[q]
  <2>1. payer'[p].order = o
    BY <1>1, <1>0, <1>4, PayerGoes
  <2>2. payer'[p].pc = "approve" /\ \A q \in Payer \ {p} : payer'[q] = payer[q]
    BY <1>1, <1>0, <1>4, PayerGoes
  <2> QED BY <1>1, <1>4, <2>1, <2>2 DEF PayerDelivers, Delivered, Renewed
<1>5. ASSUME NEW kind \in Kind, applied' = [applied EXCEPT ![<<o, r, kind>>] = @ + 1]
      PROVE  applied'[<<o, r, kind>>] > 0
  <2>1. <<o, r, kind>> \in Effect
    BY <1>1, EffectOf
  <2> QED BY <1>1, <1>5, <2>1
<1>6. CASE loadOrderForFulfill(p)
  BY <1>1, <1>0, <1>2, <1>3, <1>6 DEF loadOrderForFulfill
<1>7. CASE InsertPayment(p)
  <2>1. CASE Goto(p, "credit") /\ o \in Linked
    <3>1. /\ payer'[p].pc = "credit" /\ payer'[p].order = o
          /\ \A q \in Payer \ {p} : payer'[q] = payer[q]
      BY <1>1, <1>0, <2>1, PayerGoes
    <3> QED BY <1>1, <2>1, <3>1 DEF PayerDelivers
  <2> QED BY <1>1, <1>0, <1>2, <1>3, <1>7, <2>1 DEF InsertPayment
<1>8. CASE CreateKeyWithExpiry(p)
  BY <1>1, <1>0, <1>2, <1>3, <1>8 DEF CreateKeyWithExpiry, Call
<1>9. CASE InsertIssued(p)
  <2>1. ASSUME NEW l, issued' = issued \cup {IssuedRow(o, r, l)}
        PROVE  Delivered(o)'
    <3>1. IssuedRow(o, r, l) \in issued' /\ IssuedRow(o, r, l).order = o
      BY <1>1, <2>1 DEF IssuedRow
    <3> QED BY <1>1, <3>1 DEF Delivered
  <2>2. \/ \E l : issued' = issued \cup {IssuedRow(o, r, l)} /\ Goto(p, "approve")
        \/ Return(p, FALSE)
    BY <1>1, <1>9 DEF InsertIssued
  <2> QED BY <1>1, <1>0, <1>2, <1>4, <2>1, <2>2
<1>10. CASE AddCredit(p)
  <2>1. CASE /\ Goto(p, "mirror")
             /\ applied' = [applied EXCEPT ![<<o, r, "credit">>] = @ + 1]
    <3>1. /\ payer'[p].pc = "mirror" /\ payer'[p].order = o /\ payer'[p].ref = r
          /\ \A q \in Payer \ {p} : payer'[q] = payer[q]
      BY <1>1, <1>0, <2>1, PayerGoes
    <3>2. o \in Linked /\ applied'[<<o, r, "credit">>] > 0
      BY <1>1, <1>5, <1>10, <2>1 DEF AddCredit, At, PayerDelivers, Kind
    <3> QED BY <1>1, <3>1, <3>2 DEF PayerDelivers
  <2> QED BY <1>1, <1>0, <1>2, <1>10, <2>1 DEF AddCredit, Call
<1>11. CASE MirrorCredit(p)
  <2>1. /\ o \in Linked /\ applied[<<o, r, "credit">>] > 0 /\ applied' = applied
        /\ issued' = issued
    BY <1>1, <1>11 DEF MirrorCredit, At, PayerDelivers, kiro
  <2>2. CASE Goto(p, "hours")
    <3>1. /\ payer'[p].pc = "hours" /\ payer'[p].order = o /\ payer'[p].ref = r
          /\ \A q \in Payer \ {p} : payer'[q] = payer[q]
      BY <1>1, <1>0, <2>2, PayerGoes
    <3> QED BY <1>1, <2>1, <3>1 DEF PayerDelivers
  <2>3. CASE Goto(p, "approve") /\ o \notin Timed
    <3>1. Delivered(o)'
      BY <1>1, <2>1, <2>3 DEF Delivered, Renewed
    <3> QED BY <1>1, <1>4, <2>3, <3>1
  <2> QED BY <1>1, <1>11, <2>2, <2>3 DEF MirrorCredit
<1>12. CASE AddHours(p)
  <2>1. CASE /\ Goto(p, "approve")
             /\ applied' = [applied EXCEPT ![<<o, r, "hours">>] = @ + 1]
    <3>1. o \in Linked /\ applied[<<o, r, "credit">>] > 0
      BY <1>1, <1>12 DEF AddHours, At, PayerDelivers
    <3>2. applied'[<<o, r, "hours">>] > 0
      BY <1>1, <1>5, <2>1 DEF Kind
    <3>3. applied'[<<o, r, "credit">>] > 0
      <4>1. <<o, r, "credit">> \in Effect /\ <<o, r, "credit">> # <<o, r, "hours">>
        BY <1>1, EffectOf DEF Kind
      <4> QED BY <1>1, <2>1, <3>1, <4>1
    <3>4. Delivered(o)'
      BY <1>1, <3>1, <3>2, <3>3 DEF Delivered, Renewed
    <3> QED BY <1>1, <1>4, <2>1, <3>4
  <2> QED BY <1>1, <1>0, <1>2, <1>12, <2>1 DEF AddHours, Call
<1>13. CASE MarkApproved(p)
  BY <1>1, <1>0, <1>2, <1>13 DEF MarkApproved
<1> QED BY <1>1, <1>6, <1>7, <1>8, <1>9, <1>10, <1>11, <1>12, <1>13 DEF fulfillOrder

\* Every step leaves each payer with what its next statement needs.
LEMMA PayersDeliver ==
  ASSUME TypeOK, DeliveryInv, [Next]_vars
  PROVE  \A p \in Payer : PayerDelivers(p)'
<1> SUFFICES ASSUME NEW p \in Payer PROVE PayerDelivers(p)'
  OBVIOUS
<1>1. PayerDelivers(p)
  BY DEF DeliveryInv
<1>2. CASE payer'[p] = payer[p]
  BY <1>1, <1>2, PayerRests
<1>3. CASE payer'[p].pc \in {"idle", "lock", "load"}
  BY <1>3 DEF PayerDelivers
<1>4. ASSUME NEW q \in Payer, fulfillOrder(q)
      PROVE  PayerDelivers(p)'
  <2>1. PayerDelivers(q)' /\ (p # q => payer'[p] = payer[p])
    BY <1>4, FulfilDelivers DEF DeliveryInv
  <2> QED BY <1>2, <2>1
<1>5. ASSUME NEW q \in Payer, Lock(q)
      PROVE  payer'[p] = payer[p] \/ payer'[p].pc = "load"
  BY <1>5 DEF Lock, Goto, Job, TypeOK
<1>6. ASSUME NEW q \in Payer,
             \/ \E r \in Ref : handleSepayWebhook(q, r)
             \/ \E o \in Order, r \in Ref : handlePaypalCapture(q, o, r)
             \/ \E o \in Order : checkCryptoPayment(q, o)
      PROVE  payer'[p] = payer[p] \/ payer'[p].pc = "lock"
  <2>1. payer' = payer \/ \E o, r, i : payer' = [payer EXCEPT ![q] = Calling(o, r, i)]
    BY <1>6 DEF handleSepayWebhook, handlePaypalCapture, checkCryptoPayment, TryTransfer
  <2> QED BY <2>1 DEF Calling, Job, TypeOK
<1>7. ASSUME \/ \E o \in Order : handleCheckout(o) \/ handleOrderConfirm(o) \/ AdminCancel(o)
             \/ \E r \in Ref, o \in Order : Pay(r, o)
             \/ \E c \in Clerk : \/ \E o \in Order, k \in Click : AdminApprove(c, o, k)
                                 \/ AdminCreate(c) \/ AdminIssue(c) \/ AdminMark(c)
             \/ \E e \in late : Land(e)
             \/ UNCHANGED vars
      PROVE  payer' = payer
  BY <1>7 DEF handleCheckout, handleOrderConfirm, AdminCancel, Pay, AdminApprove, AdminCreate,
     AdminIssue, AdminMark, Land, vars, procs
<1>8. ASSUME Crash
      PROVE  payer'[p].pc = "idle"
  BY <1>8 DEF Crash, Idle
<1> QED BY <1>2, <1>3, <1>4, <1>5, <1>6, <1>7, <1>8 DEF Next

\* The same of the clerks.
LEMMA ClerksDeliver ==
  ASSUME TypeOK, DeliveryInv, [Next]_vars
  PROVE  \A c \in Clerk : ClerkDelivers(c)'
<1> SUFFICES ASSUME NEW c \in Clerk PROVE ClerkDelivers(c)'
  OBVIOUS
<1>1. CASE clerk'[c] = clerk[c]
  <2>1. clerk[c].pc # "idle" => clerk[c] \in Tasks
    BY JobType
  <2>2. clerk[c].pc = "approve" => Delivered(clerk[c].order) /\ clerk[c].order \in Order
    BY <2>1 DEF DeliveryInv, ClerkDelivers, Tasks
  <2> QED BY <1>1, <2>2, DeliveredStays DEF ClerkDelivers
<1>2. CASE clerk'[c].pc # "approve"
  BY <1>2 DEF ClerkDelivers
<1>3. ASSUME AdminIssue(c)
      PROVE  ClerkDelivers(c)'
  <2>1. clerk[c] \in Tasks
    BY <1>3, JobType DEF AdminIssue
  <2>2. CASE ClerkDone(c)
    <3>1. clerk'[c].pc = "idle"
      BY <2>2 DEF ClerkDone, TypeOK, Idle
    <3> QED BY <1>2, <3>1
  <2>3. ASSUME NEW l, ClerkGoto(c, "approve"),
               issued' = issued \cup {IssuedRow(clerk[c].order, clerk[c].ticket, l)}
        PROVE  ClerkDelivers(c)'
    <3>1. clerk'[c].order = clerk[c].order
      BY <2>3 DEF ClerkGoto, Task, TypeOK
    <3>2. /\ IssuedRow(clerk[c].order, clerk[c].ticket, l) \in issued'
          /\ IssuedRow(clerk[c].order, clerk[c].ticket, l).order = clerk[c].order
      BY <2>3 DEF IssuedRow
    <3> QED BY <3>1, <3>2 DEF ClerkDelivers, Delivered
  <2> QED BY <1>3, <2>2, <2>3 DEF AdminIssue
<1>4. ASSUME NEW d \in Clerk,
             \/ \E o \in Order, k \in Click : AdminApprove(d, o, k)
             \/ AdminCreate(d) \/ AdminMark(d)
      PROVE  clerk'[c] = clerk[c] \/ clerk'[c].pc # "approve"
  BY <1>4 DEF AdminApprove, AdminCreate, AdminMark, ClerkGoto, ClerkDone, Task, Idle, TypeOK
<1>5. ASSUME NEW d \in Clerk, AdminIssue(d), d # c
      PROVE  clerk'[c] = clerk[c]
  BY <1>5 DEF AdminIssue, ClerkGoto, ClerkDone, TypeOK
<1>6. ASSUME \/ \E o \in Order : handleCheckout(o) \/ handleOrderConfirm(o) \/ AdminCancel(o)
             \/ \E r \in Ref, o \in Order : Pay(r, o)
             \/ \E p \in Payer : \/ \E r \in Ref : handleSepayWebhook(p, r)
                                 \/ \E o \in Order, r \in Ref : handlePaypalCapture(p, o, r)
                                 \/ \E o \in Order : checkCryptoPayment(p, o)
                                 \/ Lock(p)
             \/ \E e \in late : Land(e)
             \/ UNCHANGED vars
      PROVE  clerk' = clerk
  BY <1>6 DEF handleCheckout, handleOrderConfirm, AdminCancel, Pay, handleSepayWebhook,
     handlePaypalCapture, checkCryptoPayment, Lock, Land, vars, procs
<1>7. ASSUME NEW p \in Payer, fulfillOrder(p)
      PROVE  clerk' = clerk
  BY <1>7 DEF fulfillOrder, loadOrderForFulfill, InsertPayment, CreateKeyWithExpiry,
     InsertIssued, AddCredit, MirrorCredit, AddHours, MarkApproved, Call
<1>8. ASSUME Crash
      PROVE  clerk'[c].pc = "idle"
  BY <1>8 DEF Crash, Idle
<1> QED BY <1>1, <1>2, <1>3, <1>4, <1>5, <1>6, <1>7, <1>8 DEF Next

\* Only the last statement of a payer or of a clerk approves an order.
LEMMA WhoApproves ==
  ASSUME TypeOK, [Next]_vars, NEW o \in Order, status'[o] = "approved", status[o] # "approved"
  PROVE  \/ \E p \in Payer : MarkApproved(p) /\ payer[p].order = o
         \/ \E c \in Clerk : AdminMark(c) /\ clerk[c].order = o
<1>0. status \in [Order -> Exists \cup {"absent", "quoted"}]
  BY DEF TypeOK
<1>1. ASSUME NEW d \in Order, handleCheckout(d) \/ handleOrderConfirm(d) \/ AdminCancel(d)
      PROVE  FALSE
  BY <1>0, <1>1 DEF handleCheckout, handleOrderConfirm, AdminCancel
<1>2. ASSUME NEW p \in Payer, MarkApproved(p)
      PROVE  payer[p].order = o
  BY <1>0, <1>2 DEF MarkApproved
<1>3. ASSUME NEW c \in Clerk, AdminMark(c)
      PROVE  clerk[c].order = o
  BY <1>0, <1>3 DEF AdminMark
<1>4. ASSUME NEW p \in Payer, fulfillOrder(p), ~MarkApproved(p)
      PROVE  status' = status
  BY <1>4 DEF fulfillOrder, loadOrderForFulfill, InsertPayment, CreateKeyWithExpiry,
     InsertIssued, AddCredit, MirrorCredit, AddHours, Call, db
<1>5. ASSUME \/ \E r \in Ref, d \in Order : Pay(r, d)
             \/ \E p \in Payer : \/ \E r \in Ref : handleSepayWebhook(p, r)
                                 \/ \E d \in Order, r \in Ref : handlePaypalCapture(p, d, r)
                                 \/ \E d \in Order : checkCryptoPayment(p, d)
                                 \/ Lock(p)
             \/ \E c \in Clerk : \/ \E d \in Order, k \in Click : AdminApprove(c, d, k)
                                 \/ AdminCreate(c) \/ AdminIssue(c)
             \/ \E e \in late : Land(e)
             \/ Crash \/ UNCHANGED vars
      PROVE  status' = status
  BY <1>5 DEF Pay, handleSepayWebhook, handlePaypalCapture, checkCryptoPayment, Lock,
     AdminApprove, AdminCreate, AdminIssue, Land, Crash, vars, db
<1> QED BY <1>1, <1>2, <1>3, <1>4, <1>5 DEF Next

LEMMA DeliveryStep == TypeOK /\ DeliveryInv /\ [Next]_vars => DeliveryInv'
<1> SUFFICES ASSUME TypeOK, DeliveryInv, [Next]_vars PROVE DeliveryInv'
  OBVIOUS
<1>1. ASSUME NEW o \in Order, status'[o] = "approved"
      PROVE  Delivered(o)'
  <2>1. CASE status[o] = "approved"
    <3>1. Delivered(o)
      BY <2>1 DEF DeliveryInv, ApprovedIsDelivered, Delivered
    <3> QED BY <3>1, DeliveredStays
  <2>2. ASSUME NEW p \in Payer, MarkApproved(p), payer[p].order = o
        PROVE  Delivered(o)'
    <3>1. Delivered(o)
      BY <2>2 DEF DeliveryInv, PayerDelivers, MarkApproved, At
    <3> QED BY <3>1, DeliveredStays
  <2>3. ASSUME NEW c \in Clerk, AdminMark(c), clerk[c].order = o
        PROVE  Delivered(o)'
    <3>1. Delivered(o)
      BY <2>3 DEF DeliveryInv, ClerkDelivers, AdminMark
    <3> QED BY <3>1, DeliveredStays
  <2> QED BY <1>1, <2>1, <2>2, <2>3, WhoApproves
<1>2. ApprovedIsDelivered'
  BY <1>1 DEF ApprovedIsDelivered, Delivered, Renewed
<1> QED BY <1>2, PayersDeliver, ClerksDeliver DEF DeliveryInv

\* Whatever calls fail, land late or are cut off by a crash: an order is marked
\* approved only when its key was issued, or its key got credit and hours.
THEOREM ApprovalFollowsDelivery == Spec => []ApprovedIsDelivered
<1>1. Init => DeliveryInv
  BY DEF Init, DeliveryInv, ApprovedIsDelivered, PayerDelivers, ClerkDelivers, Idle
<1>2. DeliveryInv => ApprovedIsDelivered
  BY DEF DeliveryInv
<1> QED BY <1>1, <1>2, DeliveryStep, TypeCorrect, PTL DEF Spec

-----------------------------------------------------------------------------
(* One fulfilment at a time.                                               *)

\* While a payer is past its look at the order nobody else can approve it: other
\* payers wait for the mutex, and clerks have pressed the button.
LEMMA OneAtATimeStep ==
  ASSUME Inv, OneFulfilmentAtATime, [Next]_vars
  PROVE  OneFulfilmentAtATime'
<1> SUFFICES ASSUME clicked' = {}, NEW p \in Payer, payer'[p].pc \in {"pay"} \cup Paid
             PROVE  status'[payer'[p].order] # "approved"
  BY DEF OneFulfilmentAtATime
<1>1. TypeOK
  BY DEF Inv
<1>2. clicked = {}
  <2>1. \A c \in Clerk, o \in Order, k \in Click : ~AdminApprove(c, o, k)
    BY DEF AdminApprove
  <2>2. clicked' = clicked
    BY <2>1 DEF Next, vars, handleCheckout, handleOrderConfirm, AdminCancel, Pay,
       handleSepayWebhook, handlePaypalCapture, checkCryptoPayment, Lock, fulfillOrder,
       loadOrderForFulfill, InsertPayment, CreateKeyWithExpiry, InsertIssued, AddCredit,
       MirrorCredit, AddHours, MarkApproved, Call, AdminCreate, AdminIssue, AdminMark, Land, Crash
  <2> QED BY <2>2
<1>3. \A c \in Clerk : clerk[c].pc = "idle"
  BY <1>2 DEF Inv, ClerkBooked
<1>4. ASSUME NEW q \in Payer, fulfillOrder(q)
      PROVE  /\ payer[q] \in Jobs
             /\ \/ payer'[q].pc \in {"idle", "lock"}
                \/ payer'[q].order = payer[q].order /\ ~MarkApproved(q)
             /\ \A s \in Payer \ {q} : payer'[s] = payer[s]
  <2>1. payer[q] \in Jobs
    BY <1>1, <1>4, JobType DEF fulfillOrder, loadOrderForFulfill, InsertPayment,
       CreateKeyWithExpiry, InsertIssued, AddCredit, MirrorCredit, AddHours, MarkApproved, At
  <2>2. CASE Return(q, TRUE) \/ Return(q, FALSE)
    BY <1>1, <2>1, <2>2, PayerReturns
  <2>3. ASSUME NEW pc, Goto(q, pc), ~MarkApproved(q)
        PROVE  payer'[q].order = payer[q].order /\ \A s \in Payer \ {q} : payer'[s] = payer[s]
    BY <1>1, <2>1, <2>3, PayerGoes
  <2>4. \/ Return(q, TRUE) \/ Return(q, FALSE)
        \/ ~MarkApproved(q) /\ \E pc : Goto(q, pc)
    BY <1>4 DEF fulfillOrder, loadOrderForFulfill, InsertPayment, CreateKeyWithExpiry,
       InsertIssued, AddCredit, MirrorCredit, AddHours, MarkApproved, Call, At
  <2> QED BY <2>1, <2>2, <2>3, <2>4
<1>5. \/ payer'[p] = payer[p]
      \/ fulfillOrder(p) /\ payer'[p].order = payer[p].order /\ ~MarkApproved(p)
  <2>1. CASE \E q \in Payer : fulfillOrder(q)
    BY <1>4, <2>1, Zenon DEF Paid
  <2>2. ASSUME NEW q \in Payer, Lock(q)
        PROVE  payer'[p] = payer[p]
    BY <1>1, <2>2 DEF Lock, Goto, Job, TypeOK, Paid
  <2>3. ASSUME NEW q \in Payer,
               \/ \E r \in Ref : handleSepayWebhook(q, r)
               \/ \E o \in Order, r \in Ref : handlePaypalCapture(q, o, r)
               \/ \E o \in Order : checkCryptoPayment(q, o)
        PROVE  payer'[p] = payer[p]
    <3>1. payer' = payer \/ \E o, r, i : payer' = [payer EXCEPT ![q] = Calling(o, r, i)]
      BY <2>3 DEF handleSepayWebhook, handlePaypalCapture, checkCryptoPayment, TryTransfer
    <3> QED BY <1>1, <3>1 DEF Calling, Job, TypeOK, Paid
  <2>4. CASE \/ \E o \in Order : handleCheckout(o) \/ handleOrderConfirm(o) \/ AdminCancel(o)
             \/ \E r \in Ref, o \in Order : Pay(r, o)
             \/ \E c \in Clerk : \/ \E o \in Order, k \in Click : AdminApprove(c, o, k)
                                 \/ AdminCreate(c) \/ AdminIssue(c) \/ AdminMark(c)
             \/ \E e \in late : Land(e)
             \/ UNCHANGED vars
    BY <2>4 DEF handleCheckout, handleOrderConfirm, AdminCancel, Pay, AdminApprove, AdminCreate,
       AdminIssue, AdminMark, Land, vars, procs
  <2>5. ~Crash
    BY DEF Crash, Idle, Paid
  <2> QED BY <2>1, <2>2, <2>3, <2>4, <2>5 DEF Next
<1>6. /\ payer[p] \in Jobs /\ payer[p].pc \in Holding
      /\ payer'[p].order = payer[p].order /\ status[payer[p].order] # "approved"
  <2>1. CASE payer[p].pc \in {"pay"} \cup Paid
    BY <1>1, <1>2, <1>5, <2>1, JobType DEF OneFulfilmentAtATime, Holding, Paid
  <2>2. CASE payer[p].pc \notin {"pay"} \cup Paid
    <3>1. loadOrderForFulfill(p) /\ payer'[p].order = payer[p].order
      BY <1>5, <2>2 DEF fulfillOrder, InsertPayment, CreateKeyWithExpiry, InsertIssued,
         AddCredit, MirrorCredit, AddHours, MarkApproved, At, Paid
    <3>2. payer[p] \in Jobs
      BY <1>4, <3>1 DEF fulfillOrder
    <3>3. ~Return(p, TRUE) /\ ~Return(p, FALSE)
      BY <1>1, <3>2, PayerReturns DEF Paid
    <3> QED BY <3>1, <3>2, <3>3 DEF loadOrderForFulfill, At, Holding
  <2> QED BY <2>1, <2>2
<1>7. SUFFICES ASSUME status'[payer[p].order] = "approved" PROVE FALSE
  BY <1>6
<1>8. payer[p].order \in Order
  BY <1>6 DEF Jobs
<1>9. ASSUME NEW q \in Payer, MarkApproved(q)
      PROVE  FALSE
  <2>1. q = p
    BY <1>6, <1>9 DEF Inv, Mutex, MarkApproved, At, Holding, Paid
  <2>2. Return(p, TRUE) \/ Return(p, FALSE)
    BY <1>9, <2>1 DEF MarkApproved
  <2> QED BY <1>1, <1>6, <2>2, PayerReturns DEF Paid
<1>10. ASSUME NEW c \in Clerk, AdminMark(c)
       PROVE  FALSE
  BY <1>3, <1>10 DEF AdminMark
<1> QED BY <1>1, <1>6, <1>7, <1>8, <1>9, <1>10, WhoApproves

\* Two goroutines never both deliver an order: while one is past its look at the
\* order nobody has approved it, unless the admin's button was used.
THEOREM OneAtATime == Spec => []OneFulfilmentAtATime
<1>1. Init => OneFulfilmentAtATime
  BY DEF Init, OneFulfilmentAtATime, Idle, Paid
<1>2. Inv /\ OneFulfilmentAtATime /\ [Next]_vars => OneFulfilmentAtATime'
  BY OneAtATimeStep
<1> QED BY <1>1, <1>2, Invariant, PTL DEF Spec
=============================================================================
