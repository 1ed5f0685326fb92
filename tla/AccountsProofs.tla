---------------------------- MODULE AccountsProofs ----------------------------
(***************************************************************************)
(* Theorems about what keeps an account of Kiro alive and brings a new one: *)
(* TokenRefresh, for any workers and any number of renewals, crashes and   *)
(* lost answers, and SignIn, for any sign-ins, tabs and handlers at once.  *)
(***************************************************************************)
EXTENDS TokenRefresh, SignIn, SequenceTheorems, TLAPS

-----------------------------------------------------------------------------
(* TokenRefresh: what the workers hold and the disk has.                   *)

\* The refresh token that the provider accepts.
Cur == IF provider.rotates THEN provider.issued ELSE 0

\* w has renewed the token and not yet written it into the configuration.
Pending(w) ==
  \/ w \in Asker /\ task[w].pc \in {"write", "store"}
  \/ w \in Renewer /\ task[w].pc = "write"

\* The pool has what w will write: other requests may know it already.
Shared(w) == w \in Asker /\ TaskAt(w, "store")

TaskType == [pc: {"idle", "check", "ask", "write", "store", "refused", "disable",
                  "reload", "edit"}, acc: Rec]

KindInv ==
  /\ \A w \in Clerk : task[w].pc \in {"idle", "edit", "reload"}
  /\ \A w \in Renewer : task[w].pc \notin {"check", "edit"}
  /\ \A w \in Asker : task[w].pc \notin {"refused", "edit"}
  /\ \A w \in Asker : task[w].pc \in {"ask", "write", "store"} <=> mutex = w

\* No copy is newer than the provider's token, of which it accepts one.
BoundInv ==
  /\ provider.live = {Cur}
  /\ stored.refresh \in 0..Cur /\ pooled.refresh \in 0..Cur
  /\ \A w \in Worker : task[w].acc.refresh \in 0..Cur

\* While nothing went wrong on the way: the token is in the configuration, or
\* one worker is going to write it, and then nobody else can renew it.
Kept ==
  /\ stored.refresh = Cur \/ \E w \in Worker : Pending(w)
  /\ \A w \in Worker : Pending(w) =>
       /\ task[w].acc.refresh = Cur
       /\ provider.rotates =>
            /\ stored.refresh # Cur
            /\ pooled.refresh = Cur => Shared(w)
            /\ \A v \in Worker \ {w} :
                 task[v].acc.refresh = Cur => Shared(w) /\ TaskAt(v, "check")

KeptInv == mishaps = 0 /\ ~stale => Kept

\* While workers of different kinds have not met: requests are among themselves,
\* or one other worker is alone, and whoever asks has the token.
Alone == \A v, w \in Worker :
           v = w \/ TaskAt(v, "idle") \/ TaskAt(w, "idle") \/ (v \in Asker /\ w \in Asker)

CalmTask(w) ==
  /\ task[w].pc \notin {"refused", "disable"} /\ (w \in Asker => ~TaskAt(w, "reload"))
  /\ task[w].pc \in {"ask", "write", "store"} => task[w].acc.refresh = Cur
  /\ TaskAt(w, "edit") => Tokens(stored, task[w].acc) = stored
  /\ w \notin Clerk /\ task[w].pc \notin {"idle", "reload"} => pooled.on

Calm ==
  /\ ~burnt /\ ~stale
  /\ Alone
  /\ \A w \in Worker : CalmTask(w)
  /\ (\A w \in Worker : ~TaskAt(w, "reload")) => pooled.on = stored.on
  /\ \/ pooled.refresh = Cur
     \/ \E w \in Worker : TaskAt(w, "write") \/ (w \in Renewer /\ TaskAt(w, "store"))

CalmInv == ~raced /\ mishaps = 0 => Calm

TokenInv == TokenTypeOK /\ KindInv /\ BoundInv /\ KeptInv /\ CalmInv

LEMMA TokenInvIsStronger == TokenInv => TokenIsKept
<1> SUFFICES ASSUME TokenInv PROVE TokenIsKept
  OBVIOUS
<1>1. ASSUME \A w \in Worker : ~Unwritten(w), mishaps = 0, ~stale
      PROVE  stored.refresh \in provider.live
  BY <1>1 DEF TokenInv, KeptInv, Kept, BoundInv, Pending, Unwritten
<1>2. burnt => raced \/ mishaps > 0
  BY TokenAssumption DEF TokenInv, CalmInv, Calm, TokenTypeOK
<1> QED BY <1>1, <1>2 DEF TokenIsKept

LEMMA TokenInvInit == TokenInit => TokenInv
<1> SUFFICES ASSUME TokenInit PROVE TokenInv
  OBVIOUS
<1>1. /\ provider.rotates \in BOOLEAN /\ provider.issued = 0 /\ provider.live = {0}
      /\ Cur = 0
  BY DEF TokenInit, Cur
<1>2. /\ \A w \in Worker : task[w].pc = "idle" /\ task[w].acc = First
      /\ stored = First /\ pooled = First /\ First.refresh = 0
  BY DEF TokenInit, Resting, First
<1>3. TokenTypeOK
  <2>1. First \in Rec /\ Resting.acc = First
    BY TokenAssumption DEF First, Rec, Resting
  <2>2. task \in [Worker -> TaskType]
    BY <2>1 DEF TokenInit, TaskType, Resting
  <2>3. provider \in [rotates: BOOLEAN, issued: 0..MaxIssue, live: SUBSET (0..MaxIssue)]
    BY TokenAssumption DEF TokenInit
  <2>4. due \in -1..MaxIssue /\ mishaps \in 0..MaxIssue
    BY TokenAssumption DEF TokenInit
  <2>5. /\ stored \in Rec /\ pooled \in Rec /\ mutex \in Asker \cup {NoOne}
        /\ <<raced, burnt, stale>> \in BOOLEAN \X BOOLEAN \X BOOLEAN
    BY <2>1 DEF TokenInit
  <2> QED BY <2>2, <2>3, <2>4, <2>5 DEF TokenTypeOK, TaskType
<1>4. KindInv
  BY <1>2, TokenAssumption DEF TokenInit, KindInv, Worker
<1>5. BoundInv
  BY <1>1, <1>2 DEF BoundInv
<1>6. KeptInv
  BY <1>1, <1>2 DEF KeptInv, Kept, Pending, Worker
<1>7. CalmInv
  BY <1>1, <1>2 DEF TokenInit, CalmInv, Calm, Alone, CalmTask, TaskAt
<1> QED BY <1>3, <1>4, <1>5, <1>6, <1>7 DEF TokenInv

-----------------------------------------------------------------------------
(* How one worker changes.                                                 *)

OthersSame(w) == \A v \in Worker \ {w} : task'[v] = task[v]

LEMMA Goes ==
  ASSUME TokenTypeOK, NEW w \in Worker, NEW pc, NEW acc, TaskGoes(w, pc, acc)
  PROVE  task'[w].pc = pc /\ task'[w].acc = acc /\ OthersSame(w)
  BY DEF TokenTypeOK, TaskGoes, OthersSame

LEMMA Ends ==
  ASSUME TokenTypeOK, NEW w \in Worker, TaskEnds(w)
  PROVE  /\ task'[w].pc = "idle" /\ task'[w].acc = First /\ First.refresh = 0
         /\ OthersSame(w)
  BY DEF TokenTypeOK, TaskEnds, OthersSame, Resting, First

\* A write of tokens into another copy.
LEMMA TokensIs ==
  ASSUME NEW old \in Rec, NEW acc \in Rec
  PROVE  /\ Tokens(old, acc) \in Rec
         /\ Tokens(old, acc).refresh = acc.refresh /\ Tokens(old, acc).on = old.on
  BY DEF Rec, Tokens

LEMMA Copies ==
  ASSUME TokenTypeOK
  PROVE  /\ stored \in Rec /\ pooled \in Rec /\ \A w \in Worker : task[w].acc \in Rec
         /\ task \in [Worker -> TaskType]
         /\ provider.issued \in 0..MaxIssue /\ Cur \in Nat /\ mishaps \in 0..MaxIssue
<1>1. task \in [Worker -> TaskType]
  BY DEF TokenTypeOK, TaskType
<1>2. \A w \in Worker : task[w].acc \in Rec
  BY <1>1 DEF TaskType
<1>3. provider.issued \in 0..MaxIssue
  BY DEF TokenTypeOK
<1>4. Cur \in Nat
  BY <1>3, TokenAssumption DEF Cur
<1> QED BY <1>1, <1>2, <1>3, <1>4 DEF TokenTypeOK

\* A renewal.
LEMMA AfterIssue ==
  ASSUME TokenTypeOK, BoundInv, NEW acc \in Rec, Issue(acc)
  PROVE  /\ acc.refresh = Cur
         /\ provider'.rotates = provider.rotates /\ provider'.live = {Cur'}
         /\ Renewed(acc).refresh = Cur'
         /\ provider.rotates => Cur' = Cur + 1
         /\ ~provider.rotates => Cur' = 0 /\ Cur = 0
<1>1. /\ provider'.rotates = provider.rotates /\ provider'.issued = provider.issued + 1
      /\ provider'.live = IF provider.rotates THEN {provider.issued + 1} ELSE provider.live
  BY DEF TokenTypeOK, Issue
<1>2. acc.refresh = Cur /\ provider.live = {Cur}
  BY DEF BoundInv, Issue
<1>3. CASE provider.rotates
  BY <1>1, <1>2, <1>3 DEF Cur, Renewed, Rec
<1>4. CASE ~provider.rotates
  BY <1>1, <1>2, <1>4 DEF Cur, Renewed, Rec
<1> QED BY <1>1, <1>2, <1>3, <1>4

-----------------------------------------------------------------------------
(* Types.                                                                  *)

LEMMA RenewedType ==
  ASSUME TokenTypeOK, NEW acc \in Rec, Issue(acc)
  PROVE  /\ Renewed(acc) \in Rec
         /\ provider' \in [rotates: BOOLEAN, issued: 0..MaxIssue, live: SUBSET (0..MaxIssue)]
         /\ mishaps + 1 \in 0..MaxIssue
<1>1. provider \in [rotates: BOOLEAN, issued: 0..MaxIssue, live: SUBSET (0..MaxIssue)]
  BY DEF TokenTypeOK
<1>2. mishaps \in 0..MaxIssue
  BY DEF TokenTypeOK
<1>3. provider.issued + 1 \in 0..MaxIssue /\ mishaps + 1 \in 0..MaxIssue
  BY <1>1, <1>2, TokenAssumption DEF Issue, Within
<1>4. (IF provider.rotates THEN {provider.issued + 1} ELSE provider.live) \in SUBSET (0..MaxIssue)
  BY <1>1, <1>3
<1>5. (IF provider.rotates THEN provider.issued + 1 ELSE acc.refresh) \in 0..MaxIssue
  BY <1>3 DEF Rec
<1>6. Renewed(acc) \in Rec
  BY <1>3, <1>5 DEF Renewed, Rec
<1>7. provider' \in [rotates: BOOLEAN, issued: 0..MaxIssue, live: SUBSET (0..MaxIssue)]
  BY <1>1, <1>3, <1>4 DEF Issue
<1> QED BY <1>3, <1>6, <1>7

Pcs == {"idle", "check", "ask", "write", "store", "refused", "disable", "reload", "edit"}

LEMMA TaskTypeGoes ==
  ASSUME TokenTypeOK, NEW w \in Worker, NEW pc \in Pcs, NEW acc \in Rec,
         TaskGoes(w, pc, acc)
  PROVE  (task \in [Worker -> [pc: Pcs, acc: Rec]])'
<1>1. [pc |-> pc, acc |-> acc] \in [pc: Pcs, acc: Rec]
  OBVIOUS
<1>2. task \in [Worker -> [pc: Pcs, acc: Rec]]
  BY DEF TokenTypeOK, Pcs
<1> QED BY <1>1, <1>2 DEF TaskGoes

LEMMA TaskTypeEnds ==
  ASSUME TokenTypeOK, NEW w \in Worker, TaskEnds(w)
  PROVE  (task \in [Worker -> [pc: Pcs, acc: Rec]])'
<1>1. First \in Rec
  BY TokenAssumption DEF First, Rec
<1>2. TaskGoes(w, "idle", First)
  BY DEF TaskEnds, TaskGoes, Resting
<1> QED BY <1>1, <1>2, TaskTypeGoes DEF Pcs

\* The parts of the state other than the workers and what a renewal changes.
RestType ==
  /\ due \in -1..MaxIssue
  /\ stored \in Rec /\ pooled \in Rec
  /\ mutex \in Asker \cup {NoOne}
  /\ raced \in BOOLEAN /\ burnt \in BOOLEAN /\ stale \in BOOLEAN

Parts ==
  /\ provider \in [rotates: BOOLEAN, issued: 0..MaxIssue, live: SUBSET (0..MaxIssue)]
  /\ mishaps \in 0..MaxIssue
  /\ task \in [Worker -> [pc: Pcs, acc: Rec]]
  /\ RestType

LEMMA TypeParts == TokenTypeOK => Parts
  BY DEF TokenTypeOK, Parts, RestType, Pcs

LEMMA TypeBuilt == Parts' => TokenTypeOK'
  BY DEF TokenTypeOK, Parts, RestType, Pcs

WorkerStep(w) ==
  \/ TakeAccount(w) \/ LockAndRead(w)
  \/ BeginRenewal(w) \/ RefreshToken(w) \/ AnswerLost(w) \/ RefreshFails(w)
  \/ RenewalRefused(w) \/ FirstWrite(w) \/ SecondWrite(w)
  \/ disableAccountToken(w) \/ ReadAccount(w) \/ UpdateWholeAccount(w) \/ ReloadPool(w)

LEMMA TypeOfWorker ==
  ASSUME TokenTypeOK, NEW w \in Worker, WorkerStep(w)
  PROVE  TokenTypeOK'
<1> USE DEF Pcs
<1>0. /\ stored \in Rec /\ pooled \in Rec /\ task[w].acc \in Rec
      /\ provider \in [rotates: BOOLEAN, issued: 0..MaxIssue, live: SUBSET (0..MaxIssue)]
      /\ mishaps \in 0..MaxIssue /\ RestType
  BY Copies, TypeParts DEF Parts
<1>1. CASE TakeAccount(w)
  <2>1. (task \in [Worker -> [pc: Pcs, acc: Rec]])'
    BY <1>0, <1>1, TaskTypeGoes DEF TakeAccount
  <2> QED BY <1>0, <1>1, <2>1, TypeBuilt DEF TakeAccount, Meets, RestType, Parts
<1>2. CASE LockAndRead(w)
  <2>1. CASE TaskEnds(w) /\ UNCHANGED mutex
    BY <1>0, <1>2, <2>1, TaskTypeEnds, TypeBuilt DEF LockAndRead, RestType, Parts
  <2>2. CASE mutex' = w /\ TaskGoes(w, "ask", IF pooled.on THEN pooled ELSE task[w].acc)
    <3>1. (IF pooled.on THEN pooled ELSE task[w].acc) \in Rec
      BY <1>0
    <3>2. (task \in [Worker -> [pc: Pcs, acc: Rec]])'
      BY <2>2, <3>1, TaskTypeGoes
    <3> QED BY <1>0, <1>2, <2>2, <3>2, TypeBuilt DEF LockAndRead, RestType, Parts
  <2> QED BY <1>2, <2>1, <2>2 DEF LockAndRead
<1>3. CASE BeginRenewal(w)
  <2>1. (task \in [Worker -> [pc: Pcs, acc: Rec]])'
    BY <1>0, <1>3, TaskTypeGoes DEF BeginRenewal
  <2> QED BY <1>0, <1>3, <2>1, TypeBuilt DEF BeginRenewal, Meets, RestType, Parts
<1>4. CASE RefreshToken(w)
  <2>1. /\ Renewed(task[w].acc) \in Rec
        /\ provider' \in [rotates: BOOLEAN, issued: 0..MaxIssue, live: SUBSET (0..MaxIssue)]
    BY <1>0, <1>4, RenewedType DEF RefreshToken
  <2>2. (task \in [Worker -> [pc: Pcs, acc: Rec]])'
    BY <1>4, <2>1, TaskTypeGoes DEF RefreshToken
  <2> QED BY <1>0, <1>4, <2>1, <2>2, TypeBuilt DEF RefreshToken, RestType, Parts
<1>5. CASE AnswerLost(w)
  <2>1. /\ provider' \in [rotates: BOOLEAN, issued: 0..MaxIssue, live: SUBSET (0..MaxIssue)]
        /\ mishaps' \in 0..MaxIssue
    BY <1>0, <1>5, RenewedType DEF AnswerLost
  <2>2. (task \in [Worker -> [pc: Pcs, acc: Rec]])'
    BY <1>5, TaskTypeEnds DEF AnswerLost
  <2>3. RestType'
    BY <1>0, <1>5 DEF AnswerLost, RestType
  <2> QED BY <2>1, <2>2, <2>3, TypeBuilt DEF Parts
<1>6. CASE RefreshFails(w)
  <2>1. (task \in [Worker -> [pc: Pcs, acc: Rec]])'
    BY <1>0, <1>6, TaskTypeEnds, TaskTypeGoes DEF RefreshFails
  <2>2. RestType'
    BY <1>0, <1>6 DEF RefreshFails, RestType
  <2> QED BY <1>0, <1>6, <2>1, <2>2, TypeBuilt DEF RefreshFails, Parts
<1>7. CASE RenewalRefused(w)
  <2>1. (task \in [Worker -> [pc: Pcs, acc: Rec]])'
    BY <1>0, <1>7, TaskTypeEnds, TaskTypeGoes DEF RenewalRefused
  <2> QED BY <1>0, <1>7, <2>1, TypeBuilt DEF RenewalRefused, RestType, Parts
<1>8. CASE FirstWrite(w)
  <2>1. (task \in [Worker -> [pc: Pcs, acc: Rec]])'
    BY <1>0, <1>8, TaskTypeGoes DEF FirstWrite
  <2>2. stored' \in Rec /\ pooled' \in Rec
    BY <1>0, <1>8, TokensIs DEF FirstWrite, Pooled
  <2> QED BY <1>0, <1>8, <2>1, <2>2, TypeBuilt DEF FirstWrite, RestType, Parts
<1>9. CASE SecondWrite(w)
  <2>1. (task \in [Worker -> [pc: Pcs, acc: Rec]])'
    BY <1>0, <1>9, TaskTypeGoes, TaskTypeEnds DEF SecondWrite
  <2>2. stored' \in Rec /\ pooled' \in Rec
    BY <1>0, <1>9, TokensIs DEF SecondWrite, Pooled
  <2>3. RestType'
    BY <1>0, <1>9, <2>2 DEF SecondWrite, RestType
  <2> QED BY <1>0, <1>9, <2>1, <2>3, TypeBuilt DEF SecondWrite, Parts
<1>10. ASSUME NEW on \in BOOLEAN, WriteAccount(w, on)
       PROVE  /\ (task \in [Worker -> [pc: Pcs, acc: Rec]])'
              /\ stored' \in Rec /\ stale' \in BOOLEAN
  <2>1. (task \in [Worker -> [pc: Pcs, acc: Rec]])'
    BY <1>0, <1>10, TaskTypeGoes DEF WriteAccount
  <2>2. [task[w].acc EXCEPT !.on = on] \in Rec
    BY <1>0 DEF Rec
  <2> QED BY <1>10, <2>1, <2>2 DEF WriteAccount
<1>11. CASE disableAccountToken(w)
  BY <1>0, <1>10, <1>11, TypeBuilt DEF disableAccountToken, RestType, Parts
<1>12. CASE ReadAccount(w)
  <2>1. (task \in [Worker -> [pc: Pcs, acc: Rec]])'
    BY <1>0, <1>12, TaskTypeGoes DEF ReadAccount
  <2> QED BY <1>0, <1>12, <2>1, TypeBuilt DEF ReadAccount, Meets, RestType, Parts
<1>13. CASE UpdateWholeAccount(w)
  BY <1>0, <1>10, <1>13, TypeBuilt DEF UpdateWholeAccount, RestType, Parts
<1>14. CASE ReloadPool(w)
  <2>1. (task \in [Worker -> [pc: Pcs, acc: Rec]])'
    BY <1>14, TaskTypeEnds DEF ReloadPool
  <2> QED BY <1>0, <1>14, <2>1, TypeBuilt DEF ReloadPool, RestType, Parts
<1> QED BY <1>1, <1>2, <1>3, <1>4, <1>5, <1>6, <1>7, <1>8, <1>9, <1>11, <1>12, <1>13, <1>14
        DEF WorkerStep

LEMMA TypeOfRest ==
  ASSUME TokenTypeOK, Expire \/ Restart \/ UNCHANGED tokenVars
  PROVE  TokenTypeOK'
<1>1. CASE Expire
  BY <1>1, TokenAssumption DEF Expire, TokenTypeOK
<1>2. CASE Restart
  <2>1. Resting \in [pc: Pcs, acc: Rec] /\ mishaps + 1 \in 0..MaxIssue
    BY <1>2, Copies, TokenAssumption DEF Resting, First, Rec, Pcs, Restart, Within
  <2>2. RestType'
    BY <1>2, TypeParts DEF Parts, Restart, RestType
  <2> QED BY <1>2, <2>1, <2>2, TypeParts, TypeBuilt DEF Restart, Parts
<1>3. CASE UNCHANGED tokenVars
  BY <1>3 DEF tokenVars, TokenTypeOK
<1> QED BY <1>1, <1>2, <1>3

-----------------------------------------------------------------------------
(* What each kind of worker can be doing, and who has the lock.            *)

LEMMA KindStep ==
  ASSUME TokenTypeOK, KindInv, NEW w \in Worker, WorkerStep(w)
  PROVE  KindInv'
<1> USE DEF KindInv, Worker, TaskAt, OthersSame
<1>0. NoOne \notin Asker /\ Asker \cap Renewer = {} /\ Asker \cap Clerk = {} /\ Renewer \cap Clerk = {}
  BY TokenAssumption
<1>1. CASE TakeAccount(w)
  BY <1>0, <1>1, Goes DEF TakeAccount
<1>2. CASE LockAndRead(w)
  BY <1>0, <1>2, Goes, Ends DEF LockAndRead
<1>3. CASE BeginRenewal(w)
  BY <1>0, <1>3, Goes DEF BeginRenewal
<1>4. CASE RefreshToken(w)
  BY <1>0, <1>4, Goes DEF RefreshToken
<1>5. CASE AnswerLost(w)
  BY <1>0, <1>5, Ends DEF AnswerLost
<1>6. CASE RefreshFails(w)
  BY <1>0, <1>6, Goes, Ends DEF RefreshFails
<1>7. CASE RenewalRefused(w)
  BY <1>0, <1>7, Goes, Ends DEF RenewalRefused
<1>8. CASE FirstWrite(w)
  BY <1>0, <1>8, Goes DEF FirstWrite
<1>9. CASE SecondWrite(w)
  BY <1>0, <1>9, Goes, Ends DEF SecondWrite
<1>10. CASE disableAccountToken(w)
  BY <1>0, <1>10, Goes DEF disableAccountToken, WriteAccount
<1>11. CASE ReadAccount(w)
  BY <1>0, <1>11, Goes DEF ReadAccount
<1>12. CASE UpdateWholeAccount(w)
  BY <1>0, <1>12, Goes DEF UpdateWholeAccount, WriteAccount
<1>13. CASE ReloadPool(w)
  BY <1>0, <1>13, Ends DEF ReloadPool
<1> QED BY <1>1, <1>2, <1>3, <1>4, <1>5, <1>6, <1>7, <1>8, <1>9, <1>10, <1>11, <1>12, <1>13
        DEF WorkerStep

-----------------------------------------------------------------------------
(* No copy is newer than the provider's token.                             *)

LEMMA BoundGoes ==
  ASSUME BoundInv, NEW w \in Worker, OthersSame(w), UNCHANGED provider,
         stored'.refresh \in 0..Cur, pooled'.refresh \in 0..Cur,
         task'[w].acc.refresh \in 0..Cur
  PROVE  BoundInv'
<1>1. Cur' = Cur
  BY DEF Cur
<1> QED BY <1>1 DEF BoundInv, OthersSame

LEMMA BoundRenewed ==
  ASSUME TokenTypeOK, BoundInv, NEW w \in Worker, OthersSame(w), Issue(task[w].acc),
         UNCHANGED <<stored, pooled>>, task'[w].acc.refresh \in {0, Cur'}
  PROVE  BoundInv'
<1>1. /\ provider'.live = {Cur'} /\ Cur \in Nat
      /\ Cur' = Cur \/ Cur' = Cur + 1
  BY Copies, AfterIssue
<1>2. 0..Cur \subseteq 0..Cur' /\ Cur' \in 0..Cur' /\ 0 \in 0..Cur'
  BY <1>1
<1> QED BY <1>1, <1>2 DEF BoundInv, OthersSame

LEMMA BoundStep ==
  ASSUME TokenTypeOK, BoundInv, NEW w \in Worker, WorkerStep(w)
  PROVE  BoundInv'
<1>0. /\ stored.refresh \in 0..Cur /\ pooled.refresh \in 0..Cur
      /\ task[w].acc.refresh \in 0..Cur /\ 0 \in 0..Cur
      /\ stored \in Rec /\ pooled \in Rec /\ task[w].acc \in Rec
  BY Copies DEF BoundInv
<1>1. CASE TakeAccount(w)
  BY <1>0, <1>1, Goes, BoundGoes DEF TakeAccount
<1>2. CASE LockAndRead(w)
  BY <1>0, <1>2, Goes, Ends, BoundGoes DEF LockAndRead
<1>3. CASE BeginRenewal(w)
  BY <1>0, <1>3, Goes, BoundGoes DEF BeginRenewal
<1>4. CASE RefreshToken(w)
  BY <1>0, <1>4, Goes, AfterIssue, BoundRenewed DEF RefreshToken
<1>5. CASE AnswerLost(w)
  BY <1>0, <1>5, Ends, BoundRenewed DEF AnswerLost
<1>6. CASE RefreshFails(w)
  BY <1>0, <1>6, Goes, Ends, BoundGoes DEF RefreshFails
<1>7. CASE RenewalRefused(w)
  BY <1>0, <1>7, Goes, Ends, BoundGoes DEF RenewalRefused
<1>8. CASE FirstWrite(w)
  <2>1. stored'.refresh \in 0..Cur /\ pooled'.refresh \in 0..Cur
    BY <1>0, <1>8, TokensIs DEF FirstWrite, Pooled
  <2> QED BY <1>0, <1>8, <2>1, Goes, BoundGoes DEF FirstWrite
<1>9. CASE SecondWrite(w)
  <2>1. stored'.refresh \in 0..Cur /\ pooled'.refresh \in 0..Cur
    BY <1>0, <1>9, TokensIs DEF SecondWrite, Pooled
  <2> QED BY <1>0, <1>9, <2>1, Goes, Ends, BoundGoes DEF SecondWrite
<1>10. ASSUME NEW on, WriteAccount(w, on), UNCHANGED <<provider, pooled>>
       PROVE  BoundInv'
  <2>1. stored'.refresh = task[w].acc.refresh
    BY <1>0, <1>10 DEF WriteAccount, Rec
  <2> QED BY <1>0, <1>10, <2>1, Goes, BoundGoes DEF WriteAccount
<1>11. CASE disableAccountToken(w)
  BY <1>10, <1>11 DEF disableAccountToken
<1>12. CASE ReadAccount(w)
  BY <1>0, <1>12, Goes, BoundGoes DEF ReadAccount
<1>13. CASE UpdateWholeAccount(w)
  BY <1>10, <1>13 DEF UpdateWholeAccount
<1>14. CASE ReloadPool(w)
  BY <1>0, <1>14, Ends, BoundGoes DEF ReloadPool
<1> QED BY <1>1, <1>2, <1>3, <1>4, <1>5, <1>6, <1>7, <1>8, <1>9, <1>11, <1>12, <1>13, <1>14
        DEF WorkerStep

-----------------------------------------------------------------------------
(* The token is in the configuration, or on its way there.                 *)

\* A step of a worker that has no token to write, before and after.
LEMMA KeptGoes ==
  ASSUME KeptInv, NEW w \in Worker, OthersSame(w), UNCHANGED provider,
         ~Pending(w), ~Pending(w)',
         mishaps' = 0 /\ ~stale' =>
           /\ mishaps = 0 /\ ~stale /\ stored'.refresh = stored.refresh
           /\ \A u \in Worker : Pending(u) /\ provider.rotates =>
                /\ pooled'.refresh = Cur => Shared(u)
                /\ task'[w].acc.refresh = Cur => Shared(u) /\ TaskAt(w, "check")'
  PROVE  KeptInv'
<1> SUFFICES ASSUME mishaps' = 0, ~stale' PROVE Kept'
  BY DEF KeptInv
<1>1. Cur' = Cur /\ Kept
  BY DEF Cur, KeptInv
<1>2. \A u \in Worker \ {w} : (Pending(u)' <=> Pending(u)) /\ (Shared(u)' <=> Shared(u))
  BY DEF OthersSame, Pending, Shared, TaskAt
<1>3. (stored.refresh = Cur \/ \E u \in Worker : Pending(u))'
  BY <1>1, <1>2 DEF Kept
<1>4. ASSUME NEW u \in Worker, Pending(u)'
      PROVE  /\ task'[u].acc.refresh = Cur'
             /\ provider'.rotates =>
                  /\ stored'.refresh # Cur'
                  /\ pooled'.refresh = Cur' => Shared(u)'
                  /\ \A v \in Worker \ {u} :
                       task'[v].acc.refresh = Cur' => Shared(u)' /\ TaskAt(v, "check")'
  <2>1. u # w /\ Pending(u)
    BY <1>2, <1>4
  <2>2. task'[u] = task[u]
    BY <2>1 DEF OthersSame
  <2>3. \A v \in Worker \ {w} : TaskAt(v, "check")' <=> TaskAt(v, "check")
    BY DEF OthersSame, TaskAt
  <2> QED BY <1>1, <1>2, <2>1, <2>2, <2>3 DEF Kept, OthersSame
<1> QED BY <1>3, <1>4 DEF Kept

\* While a rotated token waits to be written, nobody has older copies only.
LEMMA NothingIsZero ==
  ASSUME TokenTypeOK, BoundInv, Kept, NEW u \in Worker, Pending(u), provider.rotates
  PROVE  Cur # 0
  BY Copies DEF BoundInv, Kept

\* While one worker has a rotated token to write, no other worker has one.
LEMMA OnePending ==
  ASSUME Kept, NEW u \in Worker, NEW w \in Worker, u # w, Pending(u), Pending(w)
  PROVE  ~provider.rotates
  BY DEF Kept, Pending, TaskAt

\* The same where only w's copy and the pool's change, to what there was.
LEMMA KeptCopies ==
  ASSUME TokenTypeOK, BoundInv, KeptInv, NEW w \in Worker, OthersSame(w),
         ~Pending(w), ~Pending(w)',
         UNCHANGED <<provider, mishaps, stale>>, stored'.refresh = stored.refresh,
         pooled'.refresh \in {pooled.refresh, stored.refresh},
         \/ task'[w].acc.refresh \in {0, stored.refresh}
         \/ task'[w].acc.refresh = task[w].acc.refresh /\ ~TaskAt(w, "check")
         \/ task'[w].acc.refresh = pooled.refresh /\ TaskAt(w, "check")'
  PROVE  KeptInv'
<1> SUFFICES ASSUME mishaps' = 0, ~stale',
                    NEW u \in Worker, Pending(u), provider.rotates
             PROVE  /\ pooled'.refresh = Cur => Shared(u)
                    /\ task'[w].acc.refresh = Cur => Shared(u) /\ TaskAt(w, "check")'
  BY KeptGoes
<1>1. Kept /\ u # w
  BY DEF KeptInv
<1>2. /\ stored.refresh # Cur /\ Cur # 0
      /\ pooled.refresh = Cur => Shared(u)
      /\ task[w].acc.refresh = Cur => Shared(u) /\ TaskAt(w, "check")
  BY <1>1, NothingIsZero DEF Kept
<1> QED BY <1>2

\* The worker that renewed the token is the only one who has it.
LEMMA KeptRenewed ==
  ASSUME TokenTypeOK, KindInv, BoundInv, KeptInv, NEW w \in Worker, RefreshToken(w)
  PROVE  KeptInv'
<1> SUFFICES ASSUME mishaps' = 0, ~stale' PROVE Kept'
  BY DEF KeptInv
<1>1. /\ task[w].pc = "ask" /\ Issue(task[w].acc)
      /\ task'[w].pc = "write" /\ task'[w].acc = Renewed(task[w].acc) /\ OthersSame(w)
      /\ UNCHANGED <<stored, pooled>>
  BY Goes DEF RefreshToken, TaskAt
<1>2. Kept
  BY DEF KeptInv, RefreshToken
<1>3. /\ task[w].acc.refresh = Cur /\ provider'.rotates = provider.rotates
      /\ task'[w].acc.refresh = Cur'
      /\ provider.rotates => Cur' = Cur + 1
      /\ ~provider.rotates => Cur' = Cur
  BY <1>1, AfterIssue, Copies
<1>4. Pending(w)' /\ ~Pending(w)
  BY <1>1 DEF KindInv, Worker, Pending
<1>5. \A u \in Worker \ {w} : (Pending(u)' <=> Pending(u)) /\ task'[u] = task[u]
  BY <1>1 DEF OthersSame, Pending
<1>6. CASE provider.rotates
  <2>1. \A u \in Worker : ~Pending(u)
    BY <1>1, <1>2, <1>3, <1>4, <1>6 DEF Kept, TaskAt
  <2>2. /\ stored.refresh # Cur' /\ pooled.refresh # Cur'
        /\ \A v \in Worker : task[v].acc.refresh # Cur'
    BY <1>3, <1>6, Copies DEF BoundInv
  <2> QED BY <1>1, <1>3, <1>4, <1>5, <2>1, <2>2 DEF Kept
<1>7. CASE ~provider.rotates
  BY <1>2, <1>3, <1>4, <1>5, <1>7 DEF Kept
<1> QED BY <1>6, <1>7

\* What w writes into the configuration is the provider's token.
LEMMA KeptStored ==
  ASSUME KeptInv, NEW w \in Worker, OthersSame(w), UNCHANGED <<provider, mishaps, stale>>,
         Pending(w), ~Pending(w)', stored'.refresh = task[w].acc.refresh
  PROVE  KeptInv'
<1> SUFFICES ASSUME mishaps' = 0, ~stale' PROVE Kept'
  BY DEF KeptInv
<1>1. Kept /\ Cur' = Cur
  BY DEF KeptInv, Cur
<1>2. stored'.refresh = Cur
  BY <1>1 DEF Kept
<1>3. \A u \in Worker : Pending(u)' =>
        u # w /\ Pending(u) /\ task'[u] = task[u] /\ task[u].acc.refresh = Cur /\ ~provider.rotates
  BY <1>1, OnePending DEF OthersSame, Pending, Kept
<1> QED BY <1>1, <1>2, <1>3 DEF Kept

\* A request tells the pool first.
LEMMA KeptShared ==
  ASSUME TokenTypeOK, KeptInv, NEW w \in Asker, OthersSame(w), UNCHANGED <<provider, stored, mishaps, stale>>,
         TaskAt(w, "write"), TaskAt(w, "store")', task'[w].acc = task[w].acc
  PROVE  KeptInv'
<1> SUFFICES ASSUME mishaps' = 0, ~stale' PROVE Kept'
  BY DEF KeptInv
<1>0. w \in Worker
  BY DEF Worker
<1>1. Kept /\ Cur' = Cur
  BY DEF KeptInv, Cur
<1>2. Pending(w) /\ Pending(w)' /\ Shared(w)' /\ ~Shared(w)
  BY DEF Pending, Shared, TaskAt
<1>3. \A u \in Worker \ {w} : (Pending(u)' <=> Pending(u)) /\ task'[u] = task[u]
  BY DEF OthersSame, Pending
<1>4. CASE provider.rotates
  <2>1. \A u \in Worker : Pending(u) => u = w
    BY <1>0, <1>1, <1>2, <1>4, OnePending
  <2>2. \A v \in Worker \ {w} : task[v].acc.refresh # Cur
    BY <1>0, <1>1, <1>2, <1>4 DEF Kept
  <2> QED BY <1>0, <1>1, <1>2, <1>3, <1>4, <2>1, <2>2 DEF Kept
<1>5. CASE ~provider.rotates
  BY <1>0, <1>1, <1>2, <1>3, <1>5 DEF Kept
<1> QED BY <1>4, <1>5

LEMMA KeptStep ==
  ASSUME TokenTypeOK, KindInv, BoundInv, KeptInv, NEW w \in Worker, WorkerStep(w)
  PROVE  KeptInv'
<1> USE DEF Pending, TaskAt
<1>0. Asker \cap Renewer = {} /\ Asker \cap Clerk = {} /\ Renewer \cap Clerk = {}
  BY TokenAssumption
<1>1. CASE TakeAccount(w)
  <2>1. task[w].pc = "idle" /\ task'[w].pc = "check" /\ task'[w].acc = pooled /\ OthersSame(w)
    BY <1>1, Goes DEF TakeAccount
  <2> QED BY <1>1, <2>1, KeptCopies DEF TakeAccount
<1>2. CASE LockAndRead(w)
  <2>1. CASE TaskEnds(w)
    BY <1>2, <2>1, Ends, KeptCopies DEF LockAndRead
  <2>2. CASE TaskGoes(w, "ask", IF pooled.on THEN pooled ELSE task[w].acc)
    <3>1. /\ task[w].pc = "check" /\ task'[w].pc = "ask" /\ OthersSame(w)
          /\ task'[w].acc = pooled \/ task'[w].acc = task[w].acc
      BY <1>2, <2>2, Goes DEF LockAndRead
    <3>2. \A u \in Asker : task[u].pc \notin {"write", "store"}
      BY <1>2, TokenAssumption DEF KindInv, LockAndRead
    <3>3. ASSUME NEW u \in Worker, Pending(u), provider.rotates, Kept
          PROVE  pooled.refresh # Cur /\ task[w].acc.refresh # Cur
      <4>1. u # w /\ ~Shared(u)
        BY <3>1, <3>2, <3>3 DEF Shared
      <4> QED BY <3>3, <4>1 DEF Kept
    <3> QED BY <1>2, <3>1, <3>3, KeptGoes DEF LockAndRead, KeptInv
  <2> QED BY <1>2, <2>1, <2>2 DEF LockAndRead
<1>3. CASE BeginRenewal(w)
  <2>1. task[w].pc = "idle" /\ task'[w].pc = "ask" /\ task'[w].acc = stored /\ OthersSame(w)
    BY <1>3, Goes DEF BeginRenewal
  <2> QED BY <1>3, <2>1, KeptCopies DEF BeginRenewal
<1>4. CASE RefreshToken(w)
  BY <1>4, KeptRenewed
<1>5. CASE AnswerLost(w)
  BY <1>5, Copies DEF AnswerLost, KeptInv
<1>6. CASE RefreshFails(w)
  <2>1. /\ task[w].pc = "ask" /\ task'[w].pc \in {"idle", "disable", "refused"} /\ OthersSame(w)
        /\ task'[w].acc.refresh = 0 \/ task'[w].acc = task[w].acc
    BY <1>6, Goes, Ends DEF RefreshFails
  <2> QED BY <1>6, <2>1, KeptCopies DEF RefreshFails
<1>7. CASE RenewalRefused(w)
  <2>1. /\ task[w].pc = "refused" /\ task'[w].pc \in {"idle", "disable"} /\ OthersSame(w)
        /\ task'[w].acc.refresh = 0 \/ task'[w].acc = task[w].acc
    BY <1>7, Goes, Ends DEF RenewalRefused
  <2> QED BY <1>7, <2>1, KeptCopies DEF RenewalRefused
<1>8. CASE FirstWrite(w)
  <2>1. /\ task[w].pc = "write" /\ task'[w].pc = "store" /\ task'[w].acc = task[w].acc
        /\ OthersSame(w)
    BY <1>8, Goes DEF FirstWrite
  <2>2. CASE w \in Asker
    BY <1>8, <2>1, <2>2, KeptShared DEF FirstWrite
  <2>3. CASE w \in Renewer
    <3>1. stored'.refresh = task[w].acc.refresh
      BY <1>0, <1>8, <2>3, Copies, TokensIs DEF FirstWrite
    <3> QED BY <1>0, <1>8, <2>1, <2>3, <3>1, KeptStored DEF FirstWrite
  <2> QED BY <2>1, <2>2, <2>3 DEF KindInv, Worker
<1>9. CASE SecondWrite(w)
  <2>1. /\ task[w].pc = "store" /\ task'[w].pc \in {"idle", "reload"} /\ OthersSame(w)
        /\ task'[w].acc.refresh = 0 \/ task'[w].acc = task[w].acc
    BY <1>9, Goes, Ends DEF SecondWrite
  <2>2. CASE w \in Asker
    <3>1. stored'.refresh = task[w].acc.refresh
      BY <1>9, <2>2, Copies, TokensIs DEF SecondWrite
    <3> QED BY <1>0, <1>9, <2>1, <2>2, <3>1, KeptStored DEF SecondWrite
  <2>3. CASE w \in Renewer
    <3>1. /\ stored' = stored
          /\ pooled'.refresh = task[w].acc.refresh \/ pooled' = pooled
      BY <1>0, <1>9, <2>3, Copies, TokensIs DEF SecondWrite, Pooled
    <3>2. ASSUME NEW u \in Worker, Pending(u), provider.rotates, Kept
          PROVE  /\ Cur # 0 /\ task[w].acc.refresh # Cur
                 /\ pooled.refresh = Cur => Shared(u)
      <4>1. u # w
        BY <1>0, <2>1, <2>3, <3>2
      <4>2. task[w].acc.refresh # Cur
        BY <2>1, <3>2, <4>1 DEF Kept
      <4> QED BY <3>2, <4>2, NothingIsZero DEF Kept
    <3> QED BY <1>0, <1>9, <2>1, <2>3, <3>1, <3>2, KeptGoes DEF SecondWrite, KeptInv
  <2> QED BY <2>1, <2>2, <2>3 DEF KindInv, Worker
<1>10. ASSUME NEW on, WriteAccount(w, on), task[w].pc \in {"disable", "edit"},
              UNCHANGED <<provider, pooled, mishaps>>
       PROVE  KeptInv'
  <2>1. /\ task'[w].pc = "reload" /\ task'[w].acc = task[w].acc /\ OthersSame(w)
        /\ stored'.refresh = task[w].acc.refresh
    BY <1>10, Goes, Copies DEF WriteAccount, Rec
  <2>2. ~stale' => ~stale /\ task[w].acc.refresh = stored.refresh
    <3>1. Tokens(stored, task[w].acc).refresh = task[w].acc.refresh
      BY Copies, TokensIs
    <3> QED BY <1>10, <3>1 DEF WriteAccount
  <2>3. ASSUME NEW u \in Worker, Pending(u), provider.rotates, Kept
        PROVE  stored.refresh # Cur /\ (pooled.refresh = Cur => Shared(u))
    BY <2>3 DEF Kept
  <2> QED BY <1>10, <2>1, <2>2, <2>3, KeptGoes DEF KeptInv
<1>11. CASE disableAccountToken(w)
  BY <1>10, <1>11 DEF disableAccountToken
<1>12. CASE ReadAccount(w)
  <2>1. task[w].pc = "idle" /\ task'[w].pc = "edit" /\ task'[w].acc = stored /\ OthersSame(w)
    BY <1>12, Goes DEF ReadAccount
  <2> QED BY <1>12, <2>1, KeptCopies DEF ReadAccount
<1>13. CASE UpdateWholeAccount(w)
  BY <1>10, <1>13 DEF UpdateWholeAccount
<1>14. CASE ReloadPool(w)
  BY <1>14, Ends, KeptCopies DEF ReloadPool
<1> QED BY <1>1, <1>2, <1>3, <1>4, <1>5, <1>6, <1>7, <1>8, <1>9, <1>11, <1>12, <1>13, <1>14
        DEF WorkerStep

-----------------------------------------------------------------------------
(* Nobody is refused while workers of different kinds do not meet.         *)

\* Who is at work besides w: requests, when w is one.
Company(w) == \A v \in Worker \ {w} : TaskAt(v, "idle") \/ (v \in Asker /\ w \in Asker)

LEMMA AloneStart ==
  ASSUME Alone, NEW w \in Worker, OthersSame(w), Meets(w), ~raced'
  PROVE  Company(w) /\ Alone' /\ ~raced
<1>1. Company(w) /\ ~raced
  BY DEF Meets, Company
<1> QED BY <1>1 DEF Company, Alone, OthersSame, TaskAt

LEMMA AloneStays ==
  ASSUME Alone, NEW w \in Worker, OthersSame(w), ~TaskAt(w, "idle")
  PROVE  Company(w) /\ Alone'
<1>1. Company(w)
  BY DEF Alone, Company
<1> QED BY <1>1 DEF Company, Alone, OthersSame, TaskAt

LEMMA CalmGoes ==
  ASSUME Calm, NEW w \in Worker, OthersSame(w),
         UNCHANGED <<provider, stored, pooled, burnt, stale>>,
         task[w].pc \notin {"write", "store", "reload"}, Alone', CalmTask(w)'
  PROVE  Calm'
<1>1. Cur' = Cur
  BY DEF Cur
<1>2. \A v \in Worker \ {w} : CalmTask(v)'
  BY <1>1 DEF Calm, CalmTask, OthersSame, TaskAt
<1>3. (\A v \in Worker : ~TaskAt(v, "reload"))' => \A v \in Worker : ~TaskAt(v, "reload")
  BY DEF OthersSame, TaskAt
<1>4. (\/ pooled.refresh = Cur
       \/ \E v \in Worker : TaskAt(v, "write") \/ (v \in Renewer /\ TaskAt(v, "store")))'
  BY <1>1 DEF Calm, OthersSame, TaskAt
<1> QED BY <1>2, <1>3, <1>4 DEF Calm

\* A request that gets the lock finds the provider's token in the pool.
LEMMA PoolIsCurrent ==
  ASSUME KindInv, Calm, NEW w \in Asker, Company(w), task[w].pc \in {"check", "store"},
         mutex \in {NoOne, w}
  PROVE  pooled.refresh = Cur
<1>1. Asker \cap Renewer = {} /\ NoOne \notin Asker /\ w \in Worker
  BY TokenAssumption DEF Worker
<1>2. ASSUME NEW v \in Worker, TaskAt(v, "write") \/ (v \in Renewer /\ TaskAt(v, "store"))
      PROVE  FALSE
  <2>1. v # w
    BY <1>1, <1>2 DEF TaskAt
  <2>2. v \in Asker /\ task[v].pc = "write"
    BY <1>1, <1>2, <2>1 DEF Company, TaskAt
  <2> QED BY <1>1, <2>1, <2>2 DEF KindInv
<1> QED BY <1>2 DEF Calm

\* Without company, the configuration has the provider's token.
LEMMA StoreIsCurrent ==
  ASSUME KeptInv, Calm, mishaps = 0, NEW w \in Worker, w \notin Asker, Company(w),
         task[w].pc \in {"idle", "reload"}
  PROVE  stored.refresh = Cur
<1>1. \A v \in Worker : ~Pending(v)
  BY DEF Company, Pending, TaskAt
<1> QED BY <1>1 DEF KeptInv, Calm, Kept

\* The steps that write nothing.
LEMMA CalmReading ==
  ASSUME TokenTypeOK, KindInv, BoundInv, KeptInv, CalmInv, NEW w \in Worker,
         \/ TakeAccount(w) \/ LockAndRead(w) \/ BeginRenewal(w) \/ RefreshFails(w)
         \/ RenewalRefused(w) \/ ReadAccount(w)
  PROVE  CalmInv'
<1> SUFFICES ASSUME ~raced', mishaps' = 0 PROVE Calm'
  BY DEF CalmInv
<1> USE DEF TaskAt
<1>0. Asker \cap Renewer = {} /\ Asker \cap Clerk = {} /\ Renewer \cap Clerk = {}
  BY TokenAssumption
<1>1. mishaps = 0 /\ ~raced
  <2>1. Meets(w) => ~raced
    BY DEF Meets
  <2>2. mishaps' = mishaps
    BY DEF TakeAccount, LockAndRead, BeginRenewal, RefreshFails, RenewalRefused, ReadAccount
  <2>3. Meets(w) \/ raced' = raced
    BY DEF TakeAccount, LockAndRead, BeginRenewal, RefreshFails, RenewalRefused, ReadAccount
  <2> QED BY <2>1, <2>2, <2>3
<1>2. Calm /\ Alone /\ CalmTask(w)
  BY <1>1 DEF CalmInv, Calm
<1>3. CASE TakeAccount(w)
  <2>1. task[w].pc = "idle" /\ task'[w].pc = "check" /\ OthersSame(w)
    BY <1>3, Goes DEF TakeAccount
  <2>2. Alone'
    BY <1>2, <1>3, <2>1, AloneStart DEF TakeAccount
  <2>3. CalmTask(w)'
    BY <1>3, <2>1 DEF TakeAccount, CalmTask
  <2> QED BY <1>2, <1>3, <2>1, <2>2, <2>3, CalmGoes DEF TakeAccount
<1>4. CASE LockAndRead(w)
  <2>1. /\ task[w].pc = "check" /\ w \in Asker /\ mutex = NoOne /\ OthersSame(w)
        /\ \/ task'[w].pc = "idle"
           \/ task'[w].pc = "ask" /\ task'[w].acc = IF pooled.on THEN pooled ELSE task[w].acc
    BY <1>4, Goes, Ends DEF LockAndRead
  <2>2. Company(w) /\ Alone'
    BY <1>2, <2>1, AloneStays
  <2>3. pooled.on /\ pooled.refresh = Cur /\ Cur' = Cur
    BY <1>0, <1>2, <1>4, <2>1, <2>2, PoolIsCurrent DEF CalmTask, LockAndRead, Cur
  <2>4. CalmTask(w)'
    BY <1>4, <2>1, <2>3 DEF LockAndRead, CalmTask
  <2> QED BY <1>2, <1>4, <2>1, <2>2, <2>4, CalmGoes DEF LockAndRead
<1>5. CASE BeginRenewal(w)
  <2>1. /\ task[w].pc = "idle" /\ task'[w].pc = "ask" /\ task'[w].acc = stored
        /\ OthersSame(w) /\ w \notin Asker
    BY <1>0, <1>5, Goes DEF BeginRenewal
  <2>2. Company(w) /\ Alone'
    BY <1>2, <1>5, <2>1, AloneStart DEF BeginRenewal
  <2>3. stored.refresh = Cur /\ Cur' = Cur
    BY <1>1, <1>2, <1>5, <2>1, <2>2, StoreIsCurrent DEF BeginRenewal, Cur
  <2>4. pooled.on
    BY <1>2, <1>5, <2>1, <2>2 DEF Calm, Company, BeginRenewal
  <2>5. CalmTask(w)'
    BY <1>5, <2>1, <2>3, <2>4 DEF BeginRenewal, CalmTask
  <2> QED BY <1>2, <1>5, <2>1, <2>2, <2>5, CalmGoes DEF BeginRenewal
<1>6. CASE RefreshFails(w)
  <2>1. task[w].pc = "ask" /\ task[w].acc.refresh \in provider.live
    BY <1>2, <1>6 DEF RefreshFails, CalmTask, BoundInv
  <2>2. task'[w].pc = "idle" /\ OthersSame(w) /\ burnt' = burnt
    BY <1>6, <2>1, Ends DEF RefreshFails
  <2>3. Alone'
    BY <1>2, <2>1, <2>2, AloneStays
  <2>4. CalmTask(w)'
    BY <2>2 DEF CalmTask
  <2> QED BY <1>2, <1>6, <2>1, <2>2, <2>3, <2>4, CalmGoes DEF RefreshFails
<1>7. CASE RenewalRefused(w)
  BY <1>2, <1>7 DEF RenewalRefused, CalmTask
<1>8. CASE ReadAccount(w)
  <2>1. /\ task[w].pc = "idle" /\ task'[w].pc = "edit" /\ task'[w].acc = stored
        /\ OthersSame(w) /\ w \in Clerk
    BY <1>8, Goes DEF ReadAccount
  <2>2. Alone'
    BY <1>2, <1>8, <2>1, AloneStart DEF ReadAccount
  <2>3. Tokens(stored, stored) = stored
    BY Copies DEF Tokens, Rec
  <2>4. (Tokens(stored, task[w].acc) = stored)'
    BY <1>8, <2>1, <2>3 DEF ReadAccount, Tokens
  <2>5. CalmTask(w)'
    BY <1>0, <2>1, <2>4 DEF CalmTask
  <2> QED BY <1>2, <1>8, <2>1, <2>2, <2>5, CalmGoes DEF ReadAccount
<1> QED BY <1>3, <1>4, <1>5, <1>6, <1>7, <1>8

\* The renewal and the writes of a request or of a refresh.
LEMMA CalmWriting ==
  ASSUME TokenTypeOK, KindInv, BoundInv, CalmInv, NEW w \in Worker,
         RefreshToken(w) \/ FirstWrite(w) \/ SecondWrite(w)
  PROVE  CalmInv'
<1> SUFFICES ASSUME ~raced', mishaps' = 0 PROVE Calm'
  BY DEF CalmInv
<1> USE DEF TaskAt
<1>0. /\ Asker \cap Renewer = {} /\ Asker \cap Clerk = {} /\ Renewer \cap Clerk = {}
      /\ NoOne \notin Asker
  BY TokenAssumption
<1>1. Calm /\ Alone /\ CalmTask(w)
  BY DEF RefreshToken, FirstWrite, SecondWrite, CalmInv, Calm
<1>2. /\ task[w].pc \in {"ask", "write", "store"} /\ OthersSame(w) /\ UNCHANGED <<burnt, stale>>
  BY Goes, Ends DEF RefreshToken, FirstWrite, SecondWrite
<1>3. Company(w) /\ Alone'
  BY <1>1, <1>2, AloneStays
<1>4. w \notin Clerk /\ pooled.on /\ task[w].acc.refresh = Cur
  BY <1>1, <1>2 DEF KindInv, CalmTask
<1>5. /\ Tokens(pooled, task[w].acc).refresh = Cur
       /\ Tokens(pooled, task[w].acc).on = pooled.on
       /\ Tokens(stored, task[w].acc).on = stored.on
  <2>1. pooled \in Rec /\ stored \in Rec /\ task[w].acc \in Rec
    BY Copies
  <2> QED BY <1>4, <2>1, TokensIs
<1>6. \A v \in Worker \ {w} :
        /\ task'[v] = task[v]
        /\ task[v].pc \notin {"ask", "write", "store", "edit", "refused", "disable"}
        /\ w \in Renewer => task[v].pc = "idle"
  <2>1. w \in Asker => mutex = w
    BY <1>2 DEF KindInv
  <2> QED BY <1>0, <1>1, <1>2, <1>3, <2>1 DEF OthersSame, Company, KindInv, Calm, CalmTask
<1>7. ASSUME pooled'.on
      PROVE  \A v \in Worker \ {w} : CalmTask(v)'
  BY <1>1, <1>6, <1>7 DEF CalmTask, Calm
<1>8. pooled.on = stored.on \/ \E v \in Worker \ {w} : task[v].pc = "reload"
  BY <1>1, <1>2 DEF Calm
<1>9. CASE RefreshToken(w)
  <2>1. /\ task'[w].pc = "write" /\ task'[w].acc = Renewed(task[w].acc)
        /\ Issue(task[w].acc) /\ UNCHANGED <<stored, pooled>>
    BY <1>9, Goes DEF RefreshToken
  <2>2. task'[w].acc.refresh = Cur'
    BY <2>1, Copies, AfterIssue
  <2>3. CalmTask(w)'
    BY <1>4, <2>1, <2>2 DEF CalmTask
  <2> QED BY <1>1, <1>2, <1>3, <1>4, <1>6, <1>7, <1>8, <2>1, <2>3 DEF Calm
<1>10. CASE FirstWrite(w)
  <2>1. /\ task[w].pc = "write" /\ task'[w].pc = "store" /\ task'[w].acc = task[w].acc
        /\ Cur' = Cur
    BY <1>10, Goes DEF FirstWrite, Cur
  <2>2. /\ pooled'.on = pooled.on /\ stored'.on = stored.on
        /\ w \in Asker => pooled'.refresh = Cur
    BY <1>4, <1>10, <1>5 DEF FirstWrite, Pooled
  <2>3. CalmTask(w)'
    BY <1>4, <2>1, <2>2 DEF CalmTask
  <2>4. w \in Asker \/ w \in Renewer
    BY <1>4 DEF Worker
  <2> QED BY <1>1, <1>2, <1>3, <1>4, <1>6, <1>7, <1>8, <2>1, <2>2, <2>3, <2>4 DEF Calm
<1>11. CASE SecondWrite(w)
  <2>1. /\ task[w].pc = "store" /\ task'[w].pc \in {"idle", "reload"}
        /\ w \in Asker => task'[w].pc = "idle"
        /\ Cur' = Cur
    BY <1>11, Goes, Ends DEF SecondWrite, Cur
  <2>2. /\ pooled'.on = pooled.on /\ stored'.on = stored.on
        /\ w \in Asker => pooled' = pooled
        /\ w \notin Asker => pooled'.refresh = Cur
    BY <1>4, <1>11, <1>5 DEF SecondWrite, Pooled
  <2>3. CalmTask(w)'
    BY <2>1 DEF CalmTask
  <2>4. w \in Asker => pooled.refresh = Cur
    BY <1>1, <1>2, <1>3, <2>1, PoolIsCurrent DEF KindInv
  <2> QED BY <1>1, <1>2, <1>3, <1>4, <1>6, <1>7, <1>8, <2>1, <2>2, <2>3, <2>4 DEF Calm
<1> QED BY <1>9, <1>10, <1>11

\* Whole accounts, and the reload that follows.
LEMMA CalmAccounts ==
  ASSUME TokenTypeOK, KindInv, BoundInv, KeptInv, CalmInv, NEW w \in Worker,
         disableAccountToken(w) \/ UpdateWholeAccount(w) \/ ReloadPool(w)
  PROVE  CalmInv'
<1> SUFFICES ASSUME ~raced', mishaps' = 0 PROVE Calm'
  BY DEF CalmInv
<1> USE DEF TaskAt
<1>0. Asker \cap Renewer = {} /\ Asker \cap Clerk = {} /\ Renewer \cap Clerk = {}
  BY TokenAssumption
<1>1. Calm /\ Alone /\ CalmTask(w) /\ mishaps = 0
  BY DEF disableAccountToken, UpdateWholeAccount, ReloadPool, CalmInv, Calm
<1>2. CASE disableAccountToken(w)
  BY <1>1, <1>2 DEF disableAccountToken, CalmTask
<1>3. CASE UpdateWholeAccount(w)
  <2>1. PICK on \in BOOLEAN : WriteAccount(w, on)
    BY <1>3 DEF UpdateWholeAccount
  <2>2. /\ task[w].pc = "edit" /\ task'[w].pc = "reload" /\ OthersSame(w)
        /\ UNCHANGED <<provider, pooled, burnt>>
    BY <1>3, <2>1, Goes DEF UpdateWholeAccount, WriteAccount
  <2>3. w \notin Asker /\ w \notin Renewer
    BY <2>2 DEF KindInv
  <2>4. Company(w) /\ Alone'
    BY <1>1, <2>2, AloneStays
  <2>5. ~stale' /\ Cur' = Cur
    BY <1>1, <2>1, <2>2 DEF WriteAccount, CalmTask, Calm, Cur
  <2>6. \A v \in Worker : CalmTask(v)'
    BY <2>2, <2>3, <2>4 DEF CalmTask, Company, OthersSame
  <2>7. pooled'.refresh = Cur'
    BY <1>1, <2>2, <2>3, <2>4, <2>5 DEF Calm, Company
  <2> QED BY <1>1, <2>2, <2>4, <2>5, <2>6, <2>7 DEF Calm
<1>4. CASE ReloadPool(w)
  <2>1. /\ task[w].pc = "reload" /\ task'[w].pc = "idle" /\ OthersSame(w)
        /\ pooled' = stored /\ UNCHANGED <<provider, stored, burnt, stale>>
    BY <1>4, Ends DEF ReloadPool
  <2>2. w \notin Asker
    BY <1>1, <2>1 DEF CalmTask
  <2>3. Company(w) /\ Alone'
    BY <1>1, <2>1, AloneStays
  <2>4. pooled'.refresh = Cur'
    BY <1>1, <2>1, <2>2, <2>3, StoreIsCurrent DEF Cur
  <2>5. \A v \in Worker : CalmTask(v)'
    BY <2>1, <2>2, <2>3 DEF CalmTask, Company, OthersSame
  <2> QED BY <1>1, <2>1, <2>3, <2>4, <2>5 DEF Calm
<1> QED BY <1>2, <1>3, <1>4

LEMMA CalmStep ==
  ASSUME TokenTypeOK, KindInv, BoundInv, KeptInv, CalmInv, NEW w \in Worker, WorkerStep(w)
  PROVE  CalmInv'
<1>1. CASE AnswerLost(w)
  BY <1>1, Copies DEF AnswerLost, CalmInv
<1>2. CASE ~AnswerLost(w)
  BY <1>2, CalmReading, CalmWriting, CalmAccounts DEF WorkerStep
<1> QED BY <1>1, <1>2

-----------------------------------------------------------------------------
(* Every step.                                                             *)

LEMMA RestStep ==
  ASSUME TokenInv, Expire \/ Restart \/ UNCHANGED tokenVars
  PROVE  TokenInv'
<1> USE DEF TokenInv
<1>1. TokenTypeOK'
  BY TypeOfRest
<1>2. CASE Restart
  <2>1. /\ \A w \in Worker : task'[w].pc = "idle" /\ task'[w].acc.refresh = 0
        /\ mutex' = NoOne /\ Cur' = Cur /\ pooled' = stored /\ UNCHANGED <<stored, provider>>
    BY <1>2 DEF Restart, Resting, First, Cur
  <2>2. mishaps' # 0
    BY <1>2, Copies DEF Restart
  <2>3. KindInv'
    BY <2>1, TokenAssumption DEF KindInv, Worker
  <2>4. BoundInv'
    BY <2>1, Copies DEF BoundInv
  <2> QED BY <1>1, <2>2, <2>3, <2>4 DEF KeptInv, CalmInv
<1>3. CASE Expire \/ UNCHANGED tokenVars
  <2>1. UNCHANGED <<provider, stored, pooled, mutex, task, mishaps, raced, burnt, stale>>
    BY <1>3 DEF Expire, tokenVars
  <2>2. Cur' = Cur
    BY <2>1 DEF Cur
  <2>3. KindInv'
    BY <2>1 DEF KindInv
  <2>4. BoundInv'
    BY <2>1, <2>2 DEF BoundInv
  <2>5. KeptInv'
    BY <2>1, <2>2 DEF KeptInv, Kept, Pending, Shared, TaskAt
  <2>6. CalmInv'
    BY <2>1, <2>2 DEF CalmInv, Calm, Alone, CalmTask, TaskAt
  <2> QED BY <1>1, <2>3, <2>4, <2>5, <2>6
<1> QED BY <1>2, <1>3

LEMMA TokenStep == TokenInv /\ [TokenNext]_tokenVars => TokenInv'
<1> SUFFICES ASSUME TokenInv, [TokenNext]_tokenVars PROVE TokenInv'
  OBVIOUS
<1>1. CASE Expire \/ Restart \/ UNCHANGED tokenVars
  BY <1>1, RestStep
<1>2. ASSUME NEW w \in Worker, WorkerStep(w) PROVE TokenInv'
  BY <1>2, TypeOfWorker, KindStep, BoundStep, KeptStep, CalmStep DEF TokenInv
<1> QED BY <1>1, <1>2 DEF TokenNext, WorkerStep

\* The account is not lost, whoever renews its token and in whatever order the
\* copies are written: without a crash, a lost answer or an outdated account that
\* was written back, the configuration ends with the token that the provider
\* accepts; and no healthy account is refused before workers of two kinds met.
THEOREM TokenKept == TokenSpec => []TokenIsKept
<1>1. TokenInit => TokenInv
  BY TokenInvInit
<1>2. TokenInv /\ [TokenNext]_tokenVars => TokenInv'
  BY TokenStep
<1>3. TokenInv => TokenIsKept
  BY TokenInvIsStronger
<1> QED BY <1>1, <1>2, <1>3, PTL DEF TokenSpec

-----------------------------------------------------------------------------
(* SignIn: the types.                                                      *)

PollPcs == {"idle", "token", "exchange", "add", "insert", "lines"}
PollGot == [pc: PollPcs, of: Login \cup Pasted \cup {NoLogin}, got: Mails]
TabAt == [of: Login \cup {NoLogin}, at: {"closed", "page", "discover", "idp", "code"},
          via: Login \cup {NoLogin}]
Logins == [kind: {"none", "portal", "device", "pasted"}, on: BOOLEAN, over: BOOLEAN]

\* A handler that works for a sign-in knows which; so does a tab that waits for one.
Placed ==
  /\ \A p \in Poller : /\ poll[p].pc \in {"token", "exchange", "add"} => poll[p].of \in Login
                       /\ poll[p].pc = "insert" => poll[p].of \in Pasted \cup {NoLogin}
  /\ \A t \in Tab : tab[t].at = "discover" => tab[t].via \in Login

SignTyped == SignInTypeOK /\ Placed

PollTyped ==
  /\ poll \in [Poller -> PollGot]
  /\ \A p \in Poller : /\ poll[p].pc \in {"token", "exchange", "add"} => poll[p].of \in Login
                       /\ poll[p].pc = "insert" => poll[p].of \in Pasted \cup {NoLogin}

TabTyped ==
  /\ tab \in [Tab -> TabAt]
  /\ \A t \in Tab : tab[t].at = "discover" => tab[t].via \in Login

LEMMA SignTypes ==
  SignTyped <=>
    /\ login \in [Login -> Logins] /\ port \in Login \cup {NoLogin}
    /\ leg2 \in [Login -> Tab \cup {NoTab}] /\ mail \in [Login -> Mails] /\ sent \subseteq Login
    /\ TabTyped /\ grant \in [Login -> {"pending", "approved", "denied", "redeemed"}]
    /\ spent \subseteq Tab /\ PollTyped
    /\ records \in Seq(Pasted \cup {"fresh"}) /\ Len(records) <= MaxRecord
    /\ made \in [Login -> Nat]
  BY DEF SignTyped, SignInTypeOK, Placed, Logins, TabAt, PollGot, PollPcs, PollTyped, TabTyped

LEMMA SignInitTyped == SignInInit => SignTyped
  BY SignInAssumption DEF SignInInit, SignTyped, SignInTypeOK, Placed, Mails, NoMail, Waiting

LEMMA PollGoesTyped ==
  ASSUME PollTyped, NEW p \in Poller, NEW pc \in PollPcs, NEW l \in Login \cup Pasted \cup {NoLogin},
         NEW got \in Mails, pc \in {"token", "exchange", "add"} => l \in Login,
         pc = "insert" => l \in Pasted \cup {NoLogin}, PollGoes(p, pc, l, got)
  PROVE  PollTyped'
<1>1. [pc |-> pc, of |-> l, got |-> got] \in PollGot
  BY DEF PollGot
<1> QED BY <1>1 DEF PollTyped, PollGoes

LEMMA PollEndsTyped ==
  ASSUME PollTyped, NEW p \in Poller, PollEnds(p)
  PROVE  PollTyped'
<1>1. Waiting \in PollGot /\ Waiting.pc = "idle"
  BY DEF PollGot, PollPcs, Waiting, NoMail, Mails
<1> QED BY <1>1 DEF PollTyped, PollEnds

LEMMA TabGoesTyped ==
  ASSUME TabTyped, NEW t \in Tab, NEW at \in {"page", "discover", "idp", "code"},
         NEW s \in Login \cup {NoLogin}, at = "discover" => s \in Login, TabGoes(t, at, s)
  PROVE  TabTyped'
  BY DEF TabTyped, TabGoes, TabAt

LEMMA CloseTyped ==
  ASSUME login \in [Login -> Logins], port \in Login \cup {NoLogin}, NEW l, CloseSession(l)
  PROVE  login' \in [Login -> Logins] /\ port' \in Login \cup {NoLogin}
  BY DEF CloseSession, Logins

LEMMA StartTyped ==
  ASSUME login \in [Login -> Logins], NEW l, NEW kind \in {"portal", "device", "pasted"},
         StartLogin(l, kind)
  PROVE  login' \in [Login -> Logins]
<1>1. [kind |-> kind, on |-> TRUE, over |-> FALSE] \in Logins
  BY DEF Logins
<1> QED BY <1>1 DEF StartLogin

LEMMA DeliverTyped ==
  ASSUME mail \in [Login -> Mails], sent \subseteq Login, NEW s \in Login,
         NEW what \in {"error", "social", "idp"}, NEW t \in Tab \cup {NoTab}, Deliver(s, what, t)
  PROVE  mail' \in [Login -> Mails] /\ sent' \subseteq Login
<1>1. [what |-> what, tab |-> t] \in Mails
  BY DEF Mails
<1> QED BY <1>1 DEF Deliver

LEMMA AddTyped ==
  ASSUME records \in Seq(Pasted \cup {"fresh"}), Len(records) < MaxRecord,
         NEW i \in Pasted \cup {"fresh"}, AddAccountOnce(i)
  PROVE  records' \in Seq(Pasted \cup {"fresh"}) /\ Len(records') <= MaxRecord
<1>1. Len(records') = Len(records) + 1 /\ records' \in Seq(Pasted \cup {"fresh"})
  BY DEF AddAccountOnce
<1> QED BY <1>1, SignInAssumption

\* The places of a step.
LEMMA SignStepTyped ==
  ASSUME SignTyped, [SignInNext]_signInVars,
         \A p \in Poller : poll[p].pc = "exchange" => poll[p].got.tab \in Tab
  PROVE  SignTyped'
<1>0. /\ login \in [Login -> Logins] /\ port \in Login \cup {NoLogin}
      /\ leg2 \in [Login -> Tab \cup {NoTab}] /\ mail \in [Login -> Mails] /\ sent \subseteq Login
      /\ TabTyped /\ grant \in [Login -> {"pending", "approved", "denied", "redeemed"}]
      /\ spent \subseteq Tab /\ PollTyped
      /\ records \in Seq(Pasted \cup {"fresh"}) /\ Len(records) <= MaxRecord
      /\ made \in [Login -> Nat]
  BY SignTypes
<1> DEFINE New == /\ login' \in [Login -> Logins] /\ port' \in Login \cup {NoLogin}
                  /\ leg2' \in [Login -> Tab \cup {NoTab}] /\ mail' \in [Login -> Mails]
                  /\ sent' \subseteq Login /\ TabTyped'
                  /\ grant' \in [Login -> {"pending", "approved", "denied", "redeemed"}]
                  /\ spent' \subseteq Tab /\ PollTyped'
                  /\ records' \in Seq(Pasted \cup {"fresh"}) /\ Len(records') <= MaxRecord
                  /\ made' \in [Login -> Nat]
<1>z. New => SignTyped'
  BY DEF SignTyped, SignInTypeOK, Placed, Logins, TabAt, PollGot, PollPcs, PollTyped, TabTyped
<1>p. ASSUME UNCHANGED poll PROVE PollTyped'
  BY <1>0, <1>p DEF PollTyped
<1>t. ASSUME UNCHANGED tab PROVE TabTyped'
  BY <1>0, <1>t DEF TabTyped
<1>n. NoMail \in Mails
  BY DEF NoMail, Mails
<1>1. ASSUME NEW l \in Login, StartKiroSsoLogin(l) PROVE New
  BY <1>0, <1>1, <1>p, <1>t, StartTyped DEF StartKiroSsoLogin
<1>2. ASSUME NEW l \in Login, CancelKiroSsoLogin(l) PROVE New
  BY <1>0, <1>2, <1>p, <1>t, CloseTyped DEF CancelKiroSsoLogin
<1>3. ASSUME NEW l \in Login, Deadline(l) PROVE New
  BY <1>0, <1>3, <1>p, <1>t DEF Deadline, Logins
<1>4. ASSUME NEW l \in Login, TimerFires(l) PROVE New
  BY <1>0, <1>4, <1>p, <1>t, CloseTyped DEF TimerFires
<1>5. ASSUME NEW t \in Tab, NEW l \in Login, OpenTab(t, l) PROVE New
  <2>1. [of |-> l, at |-> "page", via |-> NoLogin] \in TabAt
    BY DEF TabAt
  <2>2. TabTyped'
    BY <1>0, <1>5, <2>1 DEF OpenTab, TabTyped
  <2> QED BY <1>0, <1>5, <1>p, <2>2 DEF OpenTab
<1>6. ASSUME NEW t \in Tab, Descriptor(t) PROVE New
  BY <1>0, <1>6, <1>p, TabGoesTyped DEF Descriptor
<1>7. ASSUME NEW t \in Tab, Discovered(t) PROVE New
  <2>1. tab[t].via \in Login
    BY <1>0, <1>7 DEF Discovered, TabTyped
  <2>2. TabTyped'
    BY <1>0, <1>7, <2>1, TabGoesTyped DEF Discovered
  <2>3. leg2' \in [Login -> Tab \cup {NoTab}]
    BY <1>0, <1>7 DEF Discovered
  <2>4. mail' \in [Login -> Mails] /\ sent' \subseteq Login
    BY <1>0, <1>7, <2>1, DeliverTyped DEF Discovered
  <2> QED BY <1>0, <1>7, <1>p, <2>2, <2>3, <2>4 DEF Discovered
<1>8. ASSUME NEW t \in Tab, IdpCode(t) \/ SocialCode(t) PROVE New
  <2>1. port \in Login
    BY <1>0, <1>8 DEF IdpCode, SocialCode
  <2>2. TabTyped'
    BY <1>0, <1>8, <2>1, TabGoesTyped DEF IdpCode, SocialCode
  <2>3. mail' \in [Login -> Mails] /\ sent' \subseteq Login
    BY <1>0, <1>8, <2>1, DeliverTyped DEF IdpCode, SocialCode
  <2> QED BY <1>0, <1>8, <1>p, <2>2, <2>3 DEF IdpCode, SocialCode
<1>9. ASSUME NEW p \in Poller, NEW l \in Login, PollKiroSsoAuth(p, l) PROVE New
  <2>1. CASE mail[l] # NoMail
    <3>1. mail' \in [Login -> Mails]
      BY <1>0, <1>9, <1>n, <2>1 DEF PollKiroSsoAuth
    <3>2. PollTyped'
      <4>1. mail[l] \in Mails /\ "exchange" \in PollPcs
        BY <1>0 DEF PollPcs
      <4> QED BY <1>0, <1>9, <2>1, <4>1, PollGoesTyped, PollEndsTyped DEF PollKiroSsoAuth
    <3> QED BY <1>0, <1>9, <1>t, <2>1, <3>1, <3>2, CloseTyped DEF PollKiroSsoAuth
  <2>2. CASE mail[l] = NoMail
    BY <1>0, <1>9, <1>p, <1>t, <2>2, CloseTyped DEF PollKiroSsoAuth
  <2> QED BY <2>1, <2>2
<1>10. ASSUME NEW l \in Login, StartBuilderIdLogin(l) PROVE New
  <2>1. login' \in [Login -> Logins]
    BY <1>0, <1>10 DEF StartBuilderIdLogin, Logins
  <2> QED BY <1>0, <1>10, <1>p, <1>t, <2>1 DEF StartBuilderIdLogin
<1>11. ASSUME NEW l \in Login, UserDecides(l) PROVE New
  BY <1>0, <1>11, <1>p, <1>t DEF UserDecides
<1>12. ASSUME NEW p \in Poller, NEW l \in Login, PollBuilderIdAuth(p, l) PROVE New
  <2>1. PollTyped'
    BY <1>0, <1>12, <1>n, <1>p, PollGoesTyped DEF PollBuilderIdAuth, PollPcs
  <2> QED BY <1>0, <1>12, <1>t, <2>1, CloseTyped DEF PollBuilderIdAuth
<1>13. ASSUME NEW p \in Poller, DeviceTokens(p) PROVE New
  <2>1. poll[p].of \in Login
    BY <1>0, <1>13 DEF DeviceTokens, PollTyped
  <2>2. [what |-> "device", tab |-> NoTab] \in Mails
    BY DEF Mails
  <2>3. PollTyped'
    BY <1>0, <1>13, <2>1, <2>2, PollGoesTyped, PollEndsTyped DEF DeviceTokens, PollPcs
  <2> QED BY <1>0, <1>13, <1>t, <2>1, <2>3, CloseTyped DEF DeviceTokens
<1>14. ASSUME NEW p \in Poller, NoDeviceTokens(p) PROVE New
  <2>1. PollTyped'
    BY <1>0, <1>14, PollEndsTyped DEF NoDeviceTokens
  <2> QED BY <1>0, <1>14, <1>t, <2>1, CloseTyped DEF NoDeviceTokens
<1>15. ASSUME NEW l \in Login, StartIamSsoLogin(l) PROVE New
  BY <1>0, <1>15, <1>p, <1>t, StartTyped DEF StartIamSsoLogin
<1>16. ASSUME NEW p \in Poller, NEW l \in Login, NEW t \in Tab, CompleteIamSsoLogin(p, l, t) PROVE New
  <2>1. [what |-> "pasted", tab |-> t] \in Mails
    BY DEF Mails
  <2>2. PollTyped'
    BY <1>0, <1>16, <1>p, <2>1, PollGoesTyped DEF CompleteIamSsoLogin, PollPcs
  <2> QED BY <1>0, <1>16, <1>t, <2>2, CloseTyped DEF CompleteIamSsoLogin
<1>17. ASSUME NEW p \in Poller, ExchangeCode(p) PROVE New
  <2>1. poll[p].of \in Login /\ poll[p].got \in Mails
    BY <1>0, <1>17 DEF ExchangeCode, PollTyped, PollGot
  <2>2. PollTyped'
    BY <1>0, <1>17, <2>1, PollGoesTyped, PollEndsTyped DEF ExchangeCode, PollPcs
  <2>3. spent' \subseteq Tab
    BY <1>0, <1>17 DEF ExchangeCode
  <2> QED BY <1>0, <1>17, <1>t, <2>2, <2>3, CloseTyped DEF ExchangeCode
<1>18. ASSUME NEW p \in Poller, ExchangeFails(p) PROVE New
  BY <1>0, <1>18, <1>t, PollEndsTyped DEF ExchangeFails
<1>19. ASSUME NEW p \in Poller, AddAccount(p) PROVE New
  <2>1. made' \in [Login -> Nat]
    BY <1>0, <1>19 DEF AddAccount, PollTyped
  <2>2. records' \in Seq(Pasted \cup {"fresh"}) /\ Len(records') <= MaxRecord
    BY <1>0, <1>19, AddTyped DEF AddAccount
  <2> QED BY <1>0, <1>19, <1>t, <2>1, <2>2, PollEndsTyped DEF AddAccount
<1>20. ASSUME NEW p \in Poller, NEW i \in Pasted, apiImportCredentials(p, i) PROVE New
  <2>1. PollTyped'
    BY <1>0, <1>20, <1>n, PollGoesTyped DEF apiImportCredentials, PollPcs
  <2> QED BY <1>0, <1>20, <1>t, <2>1 DEF apiImportCredentials
<1>21. ASSUME NEW p \in Poller, InsertImported(p) PROVE New
  <2>1. records' \in Seq(Pasted \cup {"fresh"}) /\ Len(records') <= MaxRecord
    <3>1. poll[p].of \in Pasted \cup {NoLogin}
      BY <1>0, <1>21 DEF InsertImported, PollTyped
    <3> QED BY <1>0, <1>21, <3>1, AddTyped DEF InsertImported
  <2> QED BY <1>0, <1>21, <1>t, <2>1, PollEndsTyped DEF InsertImported
<1>22. ASSUME NEW p \in Poller, apiImportSsoToken(p) PROVE New
  <2>1. PollTyped'
    BY <1>0, <1>22, <1>n, PollGoesTyped DEF apiImportSsoToken, PollPcs
  <2> QED BY <1>0, <1>22, <1>t, <2>1 DEF apiImportSsoToken
<1>23. ASSUME NEW p \in Poller, ImportLine(p) PROVE New
  <2>1. PollTyped'
    BY <1>0, <1>23, <1>p, PollEndsTyped DEF ImportLine
  <2>2. records' \in Seq(Pasted \cup {"fresh"}) /\ Len(records') <= MaxRecord
    BY <1>0, <1>23, AddTyped DEF ImportLine
  <2> QED BY <1>0, <1>23, <1>t, <2>1, <2>2 DEF ImportLine
<1>24. ASSUME UNCHANGED signInVars PROVE New
  <2>1. PollTyped' /\ TabTyped'
    BY <1>24, <1>p, <1>t DEF signInVars
  <2> QED BY <1>0, <1>24, <2>1 DEF signInVars
<1> QED BY <1>1, <1>2, <1>3, <1>4, <1>5, <1>6, <1>7, <1>8, <1>9, <1>10, <1>11, <1>12, <1>13,
           <1>14, <1>15, <1>16, <1>17, <1>18, <1>19, <1>20, <1>21, <1>22, <1>23, <1>24, <1>z
           DEF SignInNext, LoginStep, ImportStep

-----------------------------------------------------------------------------
(* SignIn: codes and their flows.                                          *)

\* A code that was given to a tab of this sign-in's own flow.
Own(l, got) == got.tab \in Tab /\ Fits(l, got) /\ tab[got.tab].at # "closed"

CodesFit ==
  /\ \A l \in Login : \/ mail[l] = NoMail \/ mail[l].what = "error" \/ Own(l, mail[l])
  /\ \A p \in Poller : poll[p].pc = "exchange" => Own(poll[p].of, poll[p].got)

\* A tab keeps the sign-in it was opened for, and a session its second leg.
LEMMA FlowsAreKept ==
  ASSUME SignTyped, [SignInNext]_signInVars
  PROVE  /\ \A l \in Login : leg2[l] # NoTab => leg2'[l] = leg2[l]
         /\ \A t \in Tab : tab[t].at # "closed" => tab'[t].of = tab[t].of /\ tab'[t].at # "closed"
<1>0. leg2 \in [Login -> Tab \cup {NoTab}] /\ tab \in [Tab -> TabAt]
  BY SignTypes DEF TabTyped
<1>1. ASSUME NEW t \in Tab, \/ Descriptor(t) \/ Discovered(t) \/ IdpCode(t) \/ SocialCode(t)
                            \/ \E l \in Login : OpenTab(t, l)
      PROVE  /\ \A l \in Login : leg2[l] # NoTab => leg2'[l] = leg2[l]
             /\ \A x \in Tab : tab[x].at # "closed" => tab'[x].of = tab[x].of /\ tab'[x].at # "closed"
  <2>1. CASE \E l \in Login : OpenTab(t, l)
    BY <1>0, <2>1 DEF OpenTab
  <2>2. ASSUME NEW at \in {"page", "discover", "idp", "code"}, NEW s, TabGoes(t, at, s)
        PROVE  \A x \in Tab : tab[x].at # "closed" => tab'[x].of = tab[x].of /\ tab'[x].at # "closed"
    BY <1>0, <2>2 DEF TabGoes, TabAt
  <2>3. CASE Descriptor(t)
    BY <2>2, <2>3 DEF Descriptor
  <2>4. CASE Discovered(t)
    BY <1>0, <2>2, <2>4 DEF Discovered
  <2>5. CASE IdpCode(t) \/ SocialCode(t)
    BY <2>2, <2>5 DEF IdpCode, SocialCode
  <2> QED BY <1>1, <2>1, <2>3, <2>4, <2>5
<1>2. ASSUME UNCHANGED <<leg2, tab>>
      PROVE  /\ \A l \in Login : leg2[l] # NoTab => leg2'[l] = leg2[l]
             /\ \A t \in Tab : tab[t].at # "closed" => tab'[t].of = tab[t].of /\ tab'[t].at # "closed"
  BY <1>2
<1>3. \/ \E t \in Tab : \/ Descriptor(t) \/ Discovered(t) \/ IdpCode(t) \/ SocialCode(t)
                        \/ \E l \in Login : OpenTab(t, l)
      \/ UNCHANGED <<leg2, tab>>
  BY DEF SignInNext, LoginStep, ImportStep, signInVars, StartKiroSsoLogin, StartBuilderIdLogin,
     StartIamSsoLogin, CancelKiroSsoLogin, Deadline, TimerFires, UserDecides, PollKiroSsoAuth,
     PollBuilderIdAuth, CompleteIamSsoLogin, DeviceTokens, NoDeviceTokens, ExchangeCode,
     ExchangeFails, AddAccount, apiImportCredentials, InsertImported, apiImportSsoToken, ImportLine
<1> QED BY <1>1, <1>2, <1>3

LEMMA OwnStays ==
  ASSUME SignTyped, [SignInNext]_signInVars, NEW l \in Login, NEW got, Own(l, got)
  PROVE  Own(l, got)'
<1>1. got.tab \in Tab /\ tab[got.tab].at # "closed" /\ got.tab # NoTab
  BY SignInAssumption DEF Own
<1>2. tab'[got.tab].of = tab[got.tab].of /\ tab'[got.tab].at # "closed"
  BY <1>1, FlowsAreKept
<1>3. leg2[l] = got.tab => leg2'[l] = got.tab
  BY <1>1, FlowsAreKept
<1> QED BY <1>1, <1>2, <1>3 DEF Own, Fits

\* What a session catches is an error or a code of its own flow.
LEMMA WhatIsCaught ==
  ASSUME SignTyped, [SignInNext]_signInVars, NEW l \in Login, mail'[l] # mail[l]
  PROVE  \/ mail'[l] = NoMail \/ mail'[l].what = "error"
         \/ l \notin sent /\ Own(l, mail'[l])
<1>0. mail \in [Login -> Mails] /\ leg2 \in [Login -> Tab \cup {NoTab}] /\ tab \in [Tab -> TabAt]
  BY SignTypes DEF TabTyped
<1>2. ASSUME NEW t \in Tab, Discovered(t)
      PROVE  mail'[l].what = "error"
  <2>1. tab[t].via \in Login
    BY <1>0, <1>2, SignTypes DEF TabTyped, Discovered
  <2>2. Deliver(tab[t].via, "error", NoTab)
    BY <1>2 DEF Discovered
  <2> QED BY <1>0, <2>1, <2>2 DEF Deliver
<1>3. ASSUME NEW t \in Tab, IdpCode(t)
      PROVE  mail'[l].what = "error" \/ (l \notin sent /\ Own(l, mail'[l]))
  <2>1. PICK what \in {"idp", "error"} : Deliver(port, what, t)
    BY <1>3 DEF IdpCode
  <2>2. l = port /\ l \notin sent /\ mail'[l] = [what |-> what, tab |-> t]
    BY <1>0, <2>1 DEF Deliver
  <2> QED BY <1>3, <2>2 DEF IdpCode, Own, Fits
<1>4. ASSUME NEW t \in Tab, SocialCode(t)
      PROVE  mail'[l].what = "error" \/ (l \notin sent /\ Own(l, mail'[l]))
  <2>1. PICK what \in {"social", "error"} : Deliver(port, what, t)
    BY <1>4 DEF SocialCode
  <2>2. l = port /\ l \notin sent /\ mail'[l] = [what |-> what, tab |-> t]
    BY <1>0, <2>1 DEF Deliver
  <2> QED BY <1>4, <2>2 DEF SocialCode, Own, Fits
<1>5. ASSUME NEW p \in Poller, NEW k \in Login, PollKiroSsoAuth(p, k)
      PROVE  mail'[l] = NoMail
  BY <1>0, <1>5 DEF PollKiroSsoAuth
<1>6. \/ \E t \in Tab : Discovered(t) \/ IdpCode(t) \/ SocialCode(t)
      \/ \E p \in Poller, k \in Login : PollKiroSsoAuth(p, k)
      \/ UNCHANGED mail
  BY DEF SignInNext, LoginStep, ImportStep, signInVars, StartKiroSsoLogin, StartBuilderIdLogin,
     StartIamSsoLogin, CancelKiroSsoLogin, Deadline, TimerFires, UserDecides, Descriptor, OpenTab,
     PollBuilderIdAuth, CompleteIamSsoLogin, DeviceTokens, NoDeviceTokens, ExchangeCode,
     ExchangeFails, AddAccount, apiImportCredentials, InsertImported, apiImportSsoToken, ImportLine
<1> QED BY <1>2, <1>3, <1>4, <1>5, <1>6

\* Who begins to exchange a code has fetched it from a session, or was handed it.
LEMMA WhoExchanges ==
  ASSUME SignTyped, [SignInNext]_signInVars, NEW p \in Poller, poll'[p].pc = "exchange",
         poll'[p] # poll[p]
  PROVE  \E l \in Login :
           /\ poll'[p].of = l /\ poll[p].pc = "idle"
           /\ \/ /\ login[l].kind = "portal" /\ mail[l] # NoMail /\ mail[l].what # "error"
                 /\ poll'[p].got = mail[l] /\ mail'[l] = NoMail
              \/ login[l].kind = "pasted" /\ Own(l, poll'[p].got)
<1>0. poll \in [Poller -> PollGot] /\ mail \in [Login -> Mails]
  BY SignTypes DEF PollTyped
<1>1. NoMail \in Mails /\ Waiting \in PollGot /\ Waiting.pc = "idle"
  BY DEF NoMail, Mails, Waiting, PollGot, PollPcs
<1>3. ASSUME NEW q \in Poller, NEW l \in Login, PollKiroSsoAuth(q, l)
      PROVE  /\ poll'[p].of = l /\ poll[p].pc = "idle"
             /\ login[l].kind = "portal" /\ mail[l] # NoMail /\ mail[l].what # "error"
             /\ poll'[p].got = mail[l] /\ mail'[l] = NoMail
  <2>1. mail[l] # NoMail /\ mail[l].what # "error" /\ PollGoes(q, "exchange", l, mail[l])
    BY <1>0, <1>1, <1>3 DEF PollKiroSsoAuth, PollEnds
  <2> QED BY <1>0, <1>3, <2>1 DEF PollKiroSsoAuth, Session, PollGoes
<1>4. ASSUME NEW q \in Poller, NEW l \in Login, NEW t \in Tab, CompleteIamSsoLogin(q, l, t)
      PROVE  /\ poll'[p].of = l /\ poll[p].pc = "idle"
             /\ login[l].kind = "pasted" /\ Own(l, poll'[p].got)
  <2>1. tab[t].of = l /\ PollGoes(q, "exchange", l, [what |-> "pasted", tab |-> t])
    BY <1>4 DEF CompleteIamSsoLogin
  <2>2. p = q /\ poll'[p].of = l /\ poll'[p].got = [what |-> "pasted", tab |-> t]
    BY <1>0, <2>1 DEF PollGoes
  <2> QED BY <1>0, <1>4, <2>1, <2>2 DEF CompleteIamSsoLogin, Session, Own, Fits
<1>5. ASSUME NEW q \in Poller,
             \/ \E l \in Login : PollBuilderIdAuth(q, l)
             \/ DeviceTokens(q) \/ NoDeviceTokens(q) \/ ExchangeCode(q) \/ ExchangeFails(q)
             \/ AddAccount(q) \/ InsertImported(q) \/ apiImportSsoToken(q) \/ ImportLine(q)
             \/ \E i \in Pasted : apiImportCredentials(q, i)
      PROVE  FALSE
  <2>1. CASE \E l \in Login : PollBuilderIdAuth(q, l)
    BY <1>0, <2>1 DEF PollBuilderIdAuth, PollGoes
  <2>2. CASE DeviceTokens(q) \/ NoDeviceTokens(q)
    BY <1>0, <1>1, <2>2 DEF DeviceTokens, NoDeviceTokens, PollGoes, PollEnds
  <2>3. CASE ExchangeCode(q) \/ ExchangeFails(q)
    BY <1>0, <1>1, <2>3 DEF ExchangeCode, ExchangeFails, PollGoes, PollEnds
  <2>4. CASE AddAccount(q) \/ InsertImported(q) \/ ImportLine(q)
    BY <1>0, <1>1, <2>4 DEF AddAccount, InsertImported, ImportLine, PollEnds
  <2>5. CASE apiImportSsoToken(q) \/ \E i \in Pasted : apiImportCredentials(q, i)
    BY <1>0, <2>5 DEF apiImportSsoToken, apiImportCredentials, PollGoes
  <2> QED BY <1>5, <2>1, <2>2, <2>3, <2>4, <2>5
<1>6. \/ \E q \in Poller, l \in Login : \/ PollKiroSsoAuth(q, l)
                                        \/ \E t \in Tab : CompleteIamSsoLogin(q, l, t)
      \/ \E q \in Poller :
           \/ \E l \in Login : PollBuilderIdAuth(q, l)
           \/ DeviceTokens(q) \/ NoDeviceTokens(q) \/ ExchangeCode(q) \/ ExchangeFails(q)
           \/ AddAccount(q) \/ InsertImported(q) \/ apiImportSsoToken(q) \/ ImportLine(q)
           \/ \E i \in Pasted : apiImportCredentials(q, i)
  BY DEF SignInNext, LoginStep, ImportStep, signInVars, StartKiroSsoLogin, StartBuilderIdLogin,
     StartIamSsoLogin, CancelKiroSsoLogin, Deadline, TimerFires, UserDecides, Descriptor, OpenTab,
     Discovered, IdpCode, SocialCode
<1> QED BY <1>3, <1>4, <1>5, <1>6

LEMMA CodesStep ==
  ASSUME SignTyped, CodesFit, [SignInNext]_signInVars
  PROVE  CodesFit'
<1>0. PollTyped
  BY SignTypes
<1>1. ASSUME NEW l \in Login
      PROVE  (mail[l] = NoMail \/ mail[l].what = "error" \/ Own(l, mail[l]))'
  <2>1. CASE mail'[l] = mail[l]
    <3>1. PICK got : got = mail[l]
      OBVIOUS
    <3>2. Own(l, got) => Own(l, got)'
      BY OwnStays
    <3> QED BY <2>1, <3>1, <3>2 DEF CodesFit, Own, Fits
  <2>2. CASE mail'[l] # mail[l]
    <3>1. PICK got : got = mail'[l]
      OBVIOUS
    <3>2. Own(l, got) => Own(l, got)'
      BY OwnStays
    <3> QED BY <2>2, <3>1, <3>2, WhatIsCaught DEF Own, Fits
  <2> QED BY <2>1, <2>2
<1>2. ASSUME NEW p \in Poller, poll'[p].pc = "exchange" PROVE Own(poll[p].of, poll[p].got)'
  <2>1. CASE poll'[p] = poll[p]
    <3>1. poll[p].of \in Login /\ Own(poll[p].of, poll[p].got)
      BY <1>0, <1>2, <2>1 DEF CodesFit, PollTyped
    <3>2. PICK l, got : l \in Login /\ l = poll[p].of /\ got = poll[p].got
      BY <3>1
    <3>3. Own(l, got)'
      BY <3>1, <3>2, OwnStays
    <3> QED BY <2>1, <3>2, <3>3 DEF Own, Fits
  <2>2. CASE poll'[p] # poll[p]
    <3>1. PICK l \in Login :
            /\ poll'[p].of = l
            /\ \/ poll'[p].got = mail[l] /\ mail[l] # NoMail /\ mail[l].what # "error"
               \/ Own(l, poll'[p].got)
      BY <1>2, <2>2, WhoExchanges
    <3>2. PICK got : got = poll'[p].got
      OBVIOUS
    <3>3. Own(l, got)
      BY <3>1, <3>2 DEF CodesFit
    <3>4. Own(l, got)'
      BY <3>3, OwnStays
    <3> QED BY <3>1, <3>2, <3>4 DEF Own, Fits
  <2> QED BY <2>1, <2>2
<1> QED BY <1>1, <1>2 DEF CodesFit

-----------------------------------------------------------------------------
(* SignIn: sessions, and the port.                                         *)

LEMMA LoginMoves ==
  ASSUME SignTyped, [SignInNext]_signInVars
  PROVE  \/ UNCHANGED <<login, port>>
         \/ \E l \in Login : \/ StartKiroSsoLogin(l) \/ StartBuilderIdLogin(l) \/ StartIamSsoLogin(l)
                             \/ Deadline(l) \/ CloseSession(l)
<1>1. ASSUME NEW p \in Poller, DeviceTokens(p) \/ NoDeviceTokens(p) \/ ExchangeCode(p)
      PROVE  UNCHANGED <<login, port>> \/ \E l \in Login : CloseSession(l)
  <2>1. poll[p].of \in Login
    BY <1>1, SignTypes DEF PollTyped, DeviceTokens, NoDeviceTokens, ExchangeCode
  <2> QED BY <1>1, <2>1 DEF DeviceTokens, NoDeviceTokens, ExchangeCode
<1>2. ASSUME NEW p \in Poller, NEW l \in Login,
             \/ PollKiroSsoAuth(p, l) \/ PollBuilderIdAuth(p, l)
             \/ \E t \in Tab : CompleteIamSsoLogin(p, l, t)
      PROVE  UNCHANGED <<login, port>> \/ CloseSession(l)
  BY <1>2 DEF PollKiroSsoAuth, PollBuilderIdAuth, CompleteIamSsoLogin
<1>3. ASSUME NEW l \in Login, CancelKiroSsoLogin(l) \/ TimerFires(l) PROVE CloseSession(l)
  BY <1>3 DEF CancelKiroSsoLogin, TimerFires
<1>4. \/ \E p \in Poller : DeviceTokens(p) \/ NoDeviceTokens(p) \/ ExchangeCode(p)
      \/ \E p \in Poller, l \in Login : \/ PollKiroSsoAuth(p, l) \/ PollBuilderIdAuth(p, l)
                                        \/ \E t \in Tab : CompleteIamSsoLogin(p, l, t)
      \/ \E l \in Login : CancelKiroSsoLogin(l) \/ TimerFires(l)
      \/ UNCHANGED <<login, port>>
      \/ \E l \in Login : \/ StartKiroSsoLogin(l) \/ StartBuilderIdLogin(l) \/ StartIamSsoLogin(l)
                          \/ Deadline(l)
  BY DEF SignInNext, LoginStep, ImportStep, signInVars, UserDecides, Descriptor, OpenTab,
     Discovered, IdpCode, SocialCode, ExchangeFails, AddAccount, apiImportCredentials,
     InsertImported, apiImportSsoToken, ImportLine
<1> QED BY <1>1, <1>2, <1>3, <1>4

\* A sign-in keeps its kind, and only one not started gets one.
LEMMA KindsStay ==
  ASSUME SignTyped, [SignInNext]_signInVars, NEW l \in Login, login[l].kind # "none"
  PROVE  login'[l].kind = login[l].kind
<1>0. login \in [Login -> Logins]
  BY SignTypes
<1>1. ASSUME NEW k \in Login,
             \/ StartKiroSsoLogin(k) \/ StartBuilderIdLogin(k) \/ StartIamSsoLogin(k)
             \/ Deadline(k) \/ CloseSession(k)
      PROVE  login'[l].kind = login[l].kind
  BY <1>0, <1>1 DEF StartKiroSsoLogin, StartBuilderIdLogin, StartIamSsoLogin, StartLogin, Deadline,
     CloseSession, Logins
<1> QED BY <1>1, LoginMoves

PortIsHeld == port # NoLogin => Session(port, "portal")

LEMMA PortStep ==
  ASSUME SignTyped, PortIsHeld, [SignInNext]_signInVars
  PROVE  PortIsHeld'
<1>0. login \in [Login -> Logins] /\ port \in Login \cup {NoLogin}
  BY SignTypes
<1>1. ASSUME NEW l \in Login, StartKiroSsoLogin(l) PROVE PortIsHeld'
  BY <1>0, <1>1 DEF StartKiroSsoLogin, StartLogin, PortIsHeld, Session, Logins
<1>2. ASSUME NEW l \in Login, StartBuilderIdLogin(l) PROVE PortIsHeld'
  BY <1>0, <1>2 DEF StartBuilderIdLogin, PortIsHeld, Session, Logins
<1>3. ASSUME NEW l \in Login, StartIamSsoLogin(l) PROVE PortIsHeld'
  BY <1>0, <1>3 DEF StartIamSsoLogin, StartLogin, PortIsHeld, Session, Logins
<1>4. ASSUME NEW l \in Login, Deadline(l) PROVE PortIsHeld'
  BY <1>0, <1>4 DEF Deadline, PortIsHeld, Session, Logins
<1>5. ASSUME NEW l \in Login, CloseSession(l) PROVE PortIsHeld'
  BY <1>0, <1>5, SignInAssumption DEF CloseSession, PortIsHeld, Session, Logins
<1>6. ASSUME UNCHANGED <<login, port>> PROVE PortIsHeld'
  BY <1>6 DEF PortIsHeld, Session
<1> QED BY <1>1, <1>2, <1>3, <1>4, <1>5, <1>6, LoginMoves

-----------------------------------------------------------------------------
(* SignIn: one account for a sign-in.                                      *)

\* What a sign-in can still give an account for: it is not started, its capture
\* is to come or not fetched, its device code is not redeemed.
Unspent(l) ==
  \/ login[l].kind = "none"
  \/ login[l].kind = "portal" /\ (l \notin sent \/ mail[l] # NoMail)
  \/ login[l].kind = "device" /\ grant[l] # "redeemed"

Works(p, l) == poll[p].of = l /\ poll[p].pc \in {"exchange", "add"}

\* Fetching, or redeeming, makes one handler the only one to give the account.
OneEach ==
  /\ \A l \in Login : login[l].kind # "pasted" =>
       /\ Unspent(l) => made[l] = 0 /\ \A p \in Poller : ~Works(p, l)
       /\ \A p \in Poller : Works(p, l) => made[l] = 0 /\ \A q \in Poller : Works(q, l) => q = p
       /\ made[l] <= 1
  /\ \A p \in Poller : poll[p].pc = "token" => login[poll[p].of].kind = "device"

LEMMA UnspentShrinks ==
  ASSUME SignTyped, [SignInNext]_signInVars, NEW l \in Login, Unspent(l)'
  PROVE  Unspent(l)
<1>0. /\ login \in [Login -> Logins] /\ mail \in [Login -> Mails]
      /\ grant \in [Login -> {"pending", "approved", "denied", "redeemed"}]
  BY SignTypes
<1>1. login[l].kind = "none" \/ login'[l].kind = login[l].kind
  BY KindsStay
<1>2. ASSUME NEW t \in Tab, Discovered(t) \/ IdpCode(t) \/ SocialCode(t) PROVE Unspent(l)
  <2>1. l \in sent => l \in sent' /\ mail'[l] = mail[l]
    BY <1>0, <1>2 DEF Discovered, IdpCode, SocialCode, Deliver
  <2>2. UNCHANGED grant
    BY <1>2 DEF Discovered, IdpCode, SocialCode
  <2> QED BY <1>1, <2>1, <2>2 DEF Unspent
<1>3. ASSUME NEW p \in Poller, NEW k \in Login, PollKiroSsoAuth(p, k) PROVE Unspent(l)
  <2>1. mail'[l] # NoMail => mail'[l] = mail[l]
    BY <1>0, <1>3 DEF PollKiroSsoAuth
  <2>2. UNCHANGED <<sent, grant>>
    BY <1>3 DEF PollKiroSsoAuth
  <2> QED BY <1>1, <2>1, <2>2 DEF Unspent
<1>4. ASSUME NEW k \in Login, UserDecides(k) PROVE Unspent(l)
  <2>1. grant[l] = "redeemed" => grant'[l] = "redeemed"
    BY <1>0, <1>4 DEF UserDecides
  <2> QED BY <1>1, <1>4, <2>1 DEF Unspent, UserDecides
<1>5. ASSUME NEW p \in Poller, DeviceTokens(p) PROVE Unspent(l)
  <2>1. grant[l] = "redeemed" => grant'[l] = "redeemed"
    BY <1>0, <1>5 DEF DeviceTokens
  <2> QED BY <1>1, <1>5, <2>1 DEF Unspent, DeviceTokens
<1>6. ASSUME UNCHANGED <<sent, mail, grant>> PROVE Unspent(l)
  BY <1>1, <1>6 DEF Unspent
<1>7. \/ \E t \in Tab : Discovered(t) \/ IdpCode(t) \/ SocialCode(t)
      \/ \E p \in Poller, k \in Login : PollKiroSsoAuth(p, k)
      \/ \E k \in Login : UserDecides(k)
      \/ \E p \in Poller : DeviceTokens(p)
      \/ UNCHANGED <<sent, mail, grant>>
  BY DEF SignInNext, LoginStep, ImportStep, signInVars, StartKiroSsoLogin, StartBuilderIdLogin,
     StartIamSsoLogin, CancelKiroSsoLogin, Deadline, TimerFires, Descriptor, OpenTab,
     PollBuilderIdAuth, CompleteIamSsoLogin, NoDeviceTokens, ExchangeCode,
     ExchangeFails, AddAccount, apiImportCredentials, InsertImported, apiImportSsoToken, ImportLine
<1> QED BY <1>2, <1>3, <1>4, <1>5, <1>6, <1>7

CaughtIsSent == \A l \in Login : mail[l] # NoMail => l \in sent

LEMMA CaughtStep ==
  ASSUME SignTyped, CaughtIsSent, [SignInNext]_signInVars
  PROVE  CaughtIsSent'
<1>0. mail \in [Login -> Mails]
  BY SignTypes
<1>1. ASSUME NEW t \in Tab, Discovered(t) \/ IdpCode(t) \/ SocialCode(t) PROVE CaughtIsSent'
  BY <1>0, <1>1 DEF Discovered, IdpCode, SocialCode, Deliver, CaughtIsSent
<1>2. ASSUME NEW p \in Poller, NEW k \in Login, PollKiroSsoAuth(p, k) PROVE CaughtIsSent'
  BY <1>0, <1>2 DEF PollKiroSsoAuth, CaughtIsSent
<1>3. ASSUME UNCHANGED <<sent, mail>> PROVE CaughtIsSent'
  BY <1>3 DEF CaughtIsSent
<1>4. \/ \E t \in Tab : Discovered(t) \/ IdpCode(t) \/ SocialCode(t)
      \/ \E p \in Poller, k \in Login : PollKiroSsoAuth(p, k)
      \/ UNCHANGED <<sent, mail>>
  BY DEF SignInNext, LoginStep, ImportStep, signInVars, StartKiroSsoLogin, StartBuilderIdLogin,
     StartIamSsoLogin, CancelKiroSsoLogin, Deadline, TimerFires, Descriptor, OpenTab, UserDecides,
     PollBuilderIdAuth, CompleteIamSsoLogin, DeviceTokens, NoDeviceTokens, ExchangeCode,
     ExchangeFails, AddAccount, apiImportCredentials, InsertImported, apiImportSsoToken, ImportLine
<1> QED BY <1>1, <1>2, <1>3, <1>4

TokensAreDevice ==
  \A p \in Poller : poll[p].pc = "token" => login[poll[p].of].kind = "device"

\* Which handler moves, and where to.
LEMMA PollMoves ==
  ASSUME SignTyped, [SignInNext]_signInVars, NEW p \in Poller, poll'[p] # poll[p]
  PROVE  /\ \A q \in Poller : q # p => poll'[q] = poll[q]
         /\ \/ \E l \in Login : PollKiroSsoAuth(p, l) \/ \E t \in Tab : CompleteIamSsoLogin(p, l, t)
            \/ \E l \in Login : Session(l, "device") /\ PollGoes(p, "token", l, NoMail)
            \/ DeviceTokens(p) \/ ExchangeCode(p)
            \/ poll'[p].pc \in {"idle", "insert", "lines"}
<1>0. poll \in [Poller -> PollGot]
  BY SignTypes DEF PollTyped
<1>1. ASSUME NEW q \in Poller, NEW l \in Login, PollKiroSsoAuth(q, l)
      PROVE  q = p /\ \A x \in Poller : x # p => poll'[x] = poll[x]
  BY <1>0, <1>1 DEF PollKiroSsoAuth, PollGoes, PollEnds
<1>2. ASSUME NEW q \in Poller, NEW l \in Login, NEW t \in Tab, CompleteIamSsoLogin(q, l, t)
      PROVE  q = p /\ \A x \in Poller : x # p => poll'[x] = poll[x]
  BY <1>0, <1>2 DEF CompleteIamSsoLogin, PollGoes
<1>3. ASSUME NEW q \in Poller, NEW l \in Login, PollBuilderIdAuth(q, l)
      PROVE  /\ q = p /\ Session(l, "device") /\ PollGoes(p, "token", l, NoMail)
             /\ \A x \in Poller : x # p => poll'[x] = poll[x]
  BY <1>0, <1>3 DEF PollBuilderIdAuth, PollGoes
<1>4. ASSUME NEW q \in Poller, DeviceTokens(q)
      PROVE  q = p /\ \A x \in Poller : x # p => poll'[x] = poll[x]
  BY <1>0, <1>4 DEF DeviceTokens, PollGoes, PollEnds
<1>5. ASSUME NEW q \in Poller, ExchangeCode(q)
      PROVE  q = p /\ \A x \in Poller : x # p => poll'[x] = poll[x]
  BY <1>0, <1>5 DEF ExchangeCode, PollGoes, PollEnds
<1>6. ASSUME NEW q \in Poller,
             \/ NoDeviceTokens(q) \/ ExchangeFails(q) \/ AddAccount(q)
             \/ \E i \in Pasted : apiImportCredentials(q, i)
             \/ InsertImported(q) \/ apiImportSsoToken(q) \/ ImportLine(q)
      PROVE  /\ poll'[p].pc \in {"idle", "insert", "lines"}
             /\ \A x \in Poller : x # p => poll'[x] = poll[x]
  <2>1. PollEnds(q) \/ \E pc \in {"insert", "lines"}, i \in Pasted \cup {NoLogin} : PollGoes(q, pc, i, NoMail)
    <3>1. CASE NoDeviceTokens(q) \/ ExchangeFails(q) \/ AddAccount(q) \/ InsertImported(q)
      BY <3>1 DEF NoDeviceTokens, ExchangeFails, AddAccount, InsertImported
    <3>2. CASE apiImportSsoToken(q) \/ ImportLine(q)
      BY <3>2 DEF apiImportSsoToken, ImportLine
    <3>3. CASE \E i \in Pasted : apiImportCredentials(q, i)
      BY <3>3 DEF apiImportCredentials
    <3> QED BY <1>6, <3>1, <3>2, <3>3
  <2>2. CASE PollEnds(q)
    BY <1>0, <2>2 DEF PollEnds, Waiting
  <2>3. CASE \E pc \in {"insert", "lines"}, i \in Pasted \cup {NoLogin} : PollGoes(q, pc, i, NoMail)
    BY <1>0, <2>3 DEF PollGoes
  <2> QED BY <2>1, <2>2, <2>3
<1>7. \/ \E q \in Poller, l \in Login : \/ PollKiroSsoAuth(q, l) \/ PollBuilderIdAuth(q, l)
                                        \/ \E t \in Tab : CompleteIamSsoLogin(q, l, t)
      \/ \E q \in Poller : \/ DeviceTokens(q) \/ ExchangeCode(q)
                           \/ NoDeviceTokens(q) \/ ExchangeFails(q) \/ AddAccount(q)
                           \/ \E i \in Pasted : apiImportCredentials(q, i)
                           \/ InsertImported(q) \/ apiImportSsoToken(q) \/ ImportLine(q)
  BY DEF SignInNext, LoginStep, ImportStep, signInVars, StartKiroSsoLogin, StartBuilderIdLogin,
     StartIamSsoLogin, CancelKiroSsoLogin, Deadline, TimerFires, UserDecides, Descriptor, OpenTab,
     Discovered, IdpCode, SocialCode
<1> QED BY <1>1, <1>2, <1>3, <1>4, <1>5, <1>6, <1>7

LEMMA TokensStep ==
  ASSUME SignTyped, TokensAreDevice, [SignInNext]_signInVars
  PROVE  TokensAreDevice'
<1>0. poll \in [Poller -> PollGot] /\ mail \in [Login -> Mails]
  BY SignTypes DEF PollTyped
<1> SUFFICES ASSUME NEW p \in Poller, poll'[p].pc = "token"
             PROVE  login'[poll'[p].of].kind = "device"
  BY DEF TokensAreDevice
<1>1. CASE poll'[p] = poll[p]
  <2>1. poll[p].of \in Login /\ login[poll[p].of].kind = "device"
    BY <1>1, SignTypes DEF PollTyped, TokensAreDevice
  <2> QED BY <1>1, <2>1, KindsStay
<1>2. CASE poll'[p] # poll[p]
  <2>1. ASSUME NEW l \in Login, Session(l, "device"), PollGoes(p, "token", l, NoMail)
        PROVE  login'[poll'[p].of].kind = "device"
    <3>1. poll'[p].of = l /\ login'[l].kind = "device"
      BY <1>0, <2>1, KindsStay DEF PollGoes, Session
    <3> QED BY <3>1
  <2>2. ASSUME NEW l \in Login, PollKiroSsoAuth(p, l) \/ \E t \in Tab : CompleteIamSsoLogin(p, l, t)
        PROVE  FALSE
    BY <1>0, <1>2, <2>2 DEF PollKiroSsoAuth, CompleteIamSsoLogin, PollGoes, PollEnds, Waiting
  <2>3. ~DeviceTokens(p) /\ ~ExchangeCode(p)
    BY <1>0, <1>2 DEF DeviceTokens, ExchangeCode, PollGoes, PollEnds, Waiting
  <2> QED BY <1>2, <2>1, <2>2, <2>3, PollMoves
<1> QED BY <1>1, <1>2

\* Who begins to work for an account has used up what the sign-in had to give.
LEMMA NewWork ==
  ASSUME SignTyped, CaughtIsSent, TokensAreDevice, [SignInNext]_signInVars,
         NEW p \in Poller, NEW l \in Login, Works(p, l)', ~Works(p, l), login[l].kind # "pasted"
  PROVE  /\ Unspent(l) /\ ~Unspent(l)' /\ made'[l] = made[l]
         /\ \A q \in Poller : q # p => poll'[q] = poll[q]
<1>0. /\ poll \in [Poller -> PollGot] /\ mail \in [Login -> Mails]
      /\ grant \in [Login -> {"pending", "approved", "denied", "redeemed"}]
  BY SignTypes DEF PollTyped
<1>1. poll'[p] # poll[p] /\ poll'[p].of = l /\ poll'[p].pc \in {"exchange", "add"}
  BY DEF Works
<1>2. CASE \E k \in Login : PollKiroSsoAuth(p, k)
  <2>1. PICK k \in Login : PollKiroSsoAuth(p, k)
    BY <1>2
  <2>2. mail[k] # NoMail /\ PollGoes(p, "exchange", k, mail[k])
    BY <1>0, <1>1, <2>1 DEF PollKiroSsoAuth, PollEnds, Waiting
  <2>3. k = l
    BY <1>0, <1>1, <2>2 DEF PollGoes
  <2>4. l \in sent' /\ mail'[l] = NoMail /\ made' = made /\ login[l].kind = "portal"
    BY <1>0, <2>1, <2>2, <2>3 DEF PollKiroSsoAuth, CaughtIsSent, Session
  <2>5. login'[l].kind = "portal"
    BY <2>4, KindsStay
  <2> QED BY <1>1, <2>2, <2>3, <2>4, <2>5, PollMoves DEF Unspent
<1>3. CASE DeviceTokens(p)
  <2>1. poll[p].pc = "token" /\ grant[poll[p].of] = "approved" /\ made' = made
    BY <1>3 DEF DeviceTokens
  <2>2. poll[p].of = l
    BY <1>0, <1>1, <1>3 DEF DeviceTokens, PollGoes, PollEnds, Waiting
  <2>3. login[l].kind = "device" /\ grant'[l] = "redeemed"
    BY <1>0, <1>3, <2>1, <2>2 DEF TokensAreDevice, DeviceTokens
  <2>4. login'[l].kind = "device"
    BY <2>3, KindsStay
  <2> QED BY <1>1, <2>1, <2>2, <2>3, <2>4, PollMoves DEF Unspent
<1>4. ASSUME NEW k \in Login, NEW t \in Tab, CompleteIamSsoLogin(p, k, t) PROVE FALSE
  BY <1>0, <1>1, <1>4 DEF CompleteIamSsoLogin, PollGoes, Session
<1>5. ~ExchangeCode(p)
  BY <1>0, <1>1 DEF ExchangeCode, PollGoes, PollEnds, Waiting, Works
<1>6. ASSUME NEW k \in Login, PollGoes(p, "token", k, NoMail) PROVE FALSE
  BY <1>0, <1>1, <1>6 DEF PollGoes
<1> QED BY <1>1, <1>2, <1>3, <1>4, <1>5, <1>6, PollMoves

\* An account is given by a handler that works for it, and is done then.
LEMMA MadeGrows ==
  ASSUME SignTyped, [SignInNext]_signInVars, NEW l \in Login, made'[l] # made[l]
  PROVE  /\ made'[l] = made[l] + 1
         /\ \E p \in Poller : /\ Works(p, l) /\ poll'[p].pc = "idle"
                              /\ \A q \in Poller : q # p => poll'[q] = poll[q]
<1>0. poll \in [Poller -> PollGot] /\ made \in [Login -> Nat]
  BY SignTypes DEF PollTyped
<1>1. PICK p \in Poller : AddAccount(p)
  BY DEF SignInNext, LoginStep, ImportStep, signInVars, StartKiroSsoLogin, StartBuilderIdLogin,
     StartIamSsoLogin, CancelKiroSsoLogin, Deadline, TimerFires, UserDecides, Descriptor, OpenTab,
     Discovered, IdpCode, SocialCode, PollKiroSsoAuth, PollBuilderIdAuth, CompleteIamSsoLogin,
     DeviceTokens, NoDeviceTokens, ExchangeCode, ExchangeFails, apiImportCredentials,
     InsertImported, apiImportSsoToken, ImportLine
<1>2. poll[p].of = l /\ made'[l] = made[l] + 1
  BY <1>0, <1>1 DEF AddAccount
<1>3. poll'[p].pc = "idle" /\ \A q \in Poller : q # p => poll'[q] = poll[q]
  BY <1>0, <1>1 DEF AddAccount, PollEnds, Waiting
<1> QED BY <1>1, <1>2, <1>3 DEF AddAccount, Works

OneFor(l) == login[l].kind # "pasted" =>
  /\ Unspent(l) => made[l] = 0 /\ \A p \in Poller : ~Works(p, l)
  /\ \A p \in Poller : Works(p, l) => made[l] = 0 /\ \A q \in Poller : Works(q, l) => q = p
  /\ made[l] <= 1

LEMMA OneForStep ==
  ASSUME SignTyped, CaughtIsSent, TokensAreDevice, [SignInNext]_signInVars,
         NEW l \in Login, OneFor(l)
  PROVE  OneFor(l)'
<1> SUFFICES ASSUME login'[l].kind # "pasted"
             PROVE  /\ Unspent(l)' => made'[l] = 0 /\ \A p \in Poller : ~Works(p, l)'
                    /\ \A p \in Poller : Works(p, l)' =>
                         made'[l] = 0 /\ \A q \in Poller : Works(q, l)' => q = p
                    /\ made'[l] <= 1
  BY DEF OneFor
<1>0. made[l] \in Nat
  BY SignTypes
<1>1. login[l].kind # "pasted"
  BY KindsStay
<1>2. /\ Unspent(l) => made[l] = 0 /\ \A p \in Poller : ~Works(p, l)
      /\ \A p \in Poller : Works(p, l) => made[l] = 0 /\ \A q \in Poller : Works(q, l) => q = p
      /\ made[l] <= 1
  BY <1>1 DEF OneFor
<1>3. \A p \in Poller : Works(p, l)' /\ ~Works(p, l) =>
        /\ Unspent(l) /\ ~Unspent(l)' /\ made'[l] = made[l]
        /\ \A q \in Poller : q # p => poll'[q] = poll[q]
  BY <1>1, NewWork
<1>4. made'[l] # made[l] => /\ made'[l] = made[l] + 1
        /\ \E p \in Poller : /\ Works(p, l) /\ poll'[p].pc = "idle"
                             /\ \A q \in Poller : q # p => poll'[q] = poll[q]
  BY MadeGrows
<1>5. ASSUME Unspent(l)' PROVE made'[l] = 0 /\ \A p \in Poller : ~Works(p, l)'
  <2>1. Unspent(l)
    BY <1>5, UnspentShrinks
  <2> QED BY <1>2, <1>3, <1>4, <1>5, <2>1
<1>6. ASSUME NEW p \in Poller, Works(p, l)', NEW q \in Poller, Works(q, l)' PROVE q = p
  BY <1>2, <1>3, <1>6 DEF Works
<1>7. ASSUME NEW p \in Poller, Works(p, l)' PROVE made'[l] = 0
  <2>1. made[l] = 0
    BY <1>2, <1>3, <1>7
  <2>2. ASSUME made'[l] # made[l] PROVE FALSE
    <3>1. PICK q \in Poller : /\ Works(q, l) /\ poll'[q].pc = "idle"
                              /\ \A x \in Poller : x # q => poll'[x] = poll[x]
      BY <1>4, <2>2
    <3>2. p # q
      BY <1>7, <3>1 DEF Works
    <3>3. Works(p, l)
      BY <1>7, <3>1, <3>2 DEF Works
    <3> QED BY <1>2, <3>1, <3>2, <3>3
  <2> QED BY <2>1, <2>2
<1>8. made'[l] <= 1
  BY <1>0, <1>2, <1>4
<1> QED BY <1>5, <1>6, <1>7, <1>8

-----------------------------------------------------------------------------
(* SignIn: the whole property.                                             *)

OneIdentifier ==
  \A i, j \in DOMAIN records : records[i] = records[j] => i = j \/ records[i] = "fresh"

LEMMA RecordsStep ==
  ASSUME SignTyped, OneIdentifier, [SignInNext]_signInVars
  PROVE  OneIdentifier'
<1>0. records \in Seq(Pasted \cup {"fresh"})
  BY SignTypes
<1>1. ASSUME NEW i, AddAccountOnce(i) PROVE OneIdentifier'
  BY <1>0, <1>1 DEF AddAccountOnce, OneIdentifier, Known
<1>2. (\E i : AddAccountOnce(i)) \/ UNCHANGED records
  BY DEF SignInNext, LoginStep, ImportStep, signInVars, StartKiroSsoLogin, StartBuilderIdLogin,
     StartIamSsoLogin, CancelKiroSsoLogin, Deadline, TimerFires, UserDecides, Descriptor, OpenTab,
     Discovered, IdpCode, SocialCode, PollKiroSsoAuth, PollBuilderIdAuth, CompleteIamSsoLogin,
     DeviceTokens, NoDeviceTokens, ExchangeCode, ExchangeFails, AddAccount, apiImportCredentials,
     InsertImported, apiImportSsoToken, ImportLine
<1> QED BY <1>1, <1>2 DEF OneIdentifier

SignInv ==
  /\ SignTyped /\ CodesFit /\ PortIsHeld /\ CaughtIsSent /\ TokensAreDevice
  /\ (\A l \in Login : OneFor(l)) /\ OneIdentifier

LEMMA SignInInitInv == SignInInit => SignInv
<1> SUFFICES ASSUME SignInInit PROVE SignInv
  OBVIOUS
<1>1. SignTyped
  BY SignInitTyped
<1>2. CodesFit /\ PortIsHeld /\ CaughtIsSent /\ TokensAreDevice /\ OneIdentifier
  BY DEF SignInInit, CodesFit, PortIsHeld, CaughtIsSent, TokensAreDevice, OneIdentifier, Waiting
<1>3. \A l \in Login : OneFor(l)
  BY DEF SignInInit, OneFor, Unspent, Works, Waiting
<1> QED BY <1>1, <1>2, <1>3 DEF SignInv

LEMMA SignInStepInv ==
  ASSUME SignInv, [SignInNext]_signInVars
  PROVE  SignInv'
<1>1. SignTyped'
  BY SignStepTyped DEF SignInv, CodesFit, Own
<1>2. CodesFit' /\ PortIsHeld' /\ CaughtIsSent' /\ TokensAreDevice' /\ OneIdentifier'
  BY CodesStep, PortStep, CaughtStep, TokensStep, RecordsStep DEF SignInv
<1>3. \A l \in Login : OneFor(l)'
  BY OneForStep DEF SignInv
<1> QED BY <1>1, <1>2, <1>3 DEF SignInv

LEMMA SignInvIsExact == SignInv => SignInIsExact
<1> SUFFICES ASSUME SignInv PROVE SignInIsExact
  OBVIOUS
<1>1. \A p \in Poller : poll[p].pc = "exchange" => Fits(poll[p].of, poll[p].got)
  BY DEF SignInv, CodesFit, Own
<1>2. \A l \in Login : login[l].kind # "pasted" => made[l] <= 1
  BY DEF SignInv, OneFor
<1> QED BY <1>1, <1>2 DEF SignInv, SignInIsExact, PortIsHeld, OneIdentifier

\* A code meets the verifier of its own flow, no sign-in but a pasted one gives
\* two accounts, the port belongs to a session that can still be ended, and an
\* identifier is in the configuration once: for any sign-ins, tabs and polls at
\* once (auth/kiro_sso.go, auth/builderid.go, auth/iam_sso.go, proxy/handler.go).
THEOREM SignInExact == SignInSpec => []SignInIsExact
<1>1. SignInInit => SignInv
  BY SignInInitInv
<1>2. SignInv /\ [SignInNext]_signInVars => SignInv'
  BY SignInStepInv
<1>3. SignInv => SignInIsExact
  BY SignInvIsExact
<1> QED BY <1>1, <1>2, <1>3, PTL DEF SignInSpec
=============================================================================
