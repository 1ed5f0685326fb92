------------------------------ MODULE PoolProofs ------------------------------
(***************************************************************************)
(* Theorems about the pools of accounts: AccountPool, that of Kiro, with   *)
(* its loop in PoolScan, and BackendPool, those of Codex and Grok, for any *)
(* accounts, weights, requests, goroutines and bounds.                     *)
(***************************************************************************)
EXTENDS AccountPool, PoolScan, BackendPool, FiniteSetTheorems, TLAPS

-----------------------------------------------------------------------------
(* AccountPool: the types.                                                 *)

(***************************************************************************)
(* TypeOK alone is not inductive: a handler adds the id of its copy to the *)
(* accounts it has tried, and a round takes accounts out of its snapshot.  *)
(***************************************************************************)
Working == {"call", "reload", "overage", "count"}

ReqInv ==
  /\ req \in [Request -> Handlers]
  /\ \A r \in Request : req[r].pc \in Working => req[r].acc \in Copies

JobInv ==
  /\ job \in [Admin -> Jobs]
  /\ \A k \in Admin : DOMAIN job[k].snap = job[k].todo

PoolInv ==
  /\ cfg \in [Account -> Records]
  /\ entries \in Lists /\ cool \in [Account -> Nat]
  /\ now \in 0..MaxTime /\ jobs \in 0..MaxJob

SwitchInv == allow \in BOOLEAN /\ unloaded \in BOOLEAN

TypeInv == ReqInv /\ JobInv /\ PoolInv /\ SwitchInv

\* A list is a function on some accounts.
LEMMA ListIs ==
  ASSUME NEW f
  PROVE  f \in Lists <=> (f = [a \in DOMAIN f |-> f[a]] /\ DOMAIN f \subseteq Account
                            /\ \A a \in DOMAIN f : f[a] \in Records)
<1>1. ASSUME f \in Lists
      PROVE  f = [a \in DOMAIN f |-> f[a]] /\ DOMAIN f \subseteq Account
               /\ \A a \in DOMAIN f : f[a] \in Records
  <2>1. PICK A \in SUBSET Account : f \in [A -> Records]
    BY <1>1, Zenon DEF Lists
  <2> QED BY <2>1
<1>2. ASSUME f = [a \in DOMAIN f |-> f[a]], DOMAIN f \subseteq Account,
             \A a \in DOMAIN f : f[a] \in Records
      PROVE  f \in Lists
  <2>1. f \in [DOMAIN f -> Records]
    BY <1>2, Zenon
  <2> QED BY <2>1, <1>2, Zenon DEF Lists
<1> QED BY <1>1, <1>2, Zenon

\* Reload makes a list of the configuration.
LEMMA ListedIsList ==
  ASSUME cfg \in [Account -> Records]
  PROVE  Listed(cfg, allow) \in Lists
<1>1. DOMAIN Listed(cfg, allow) = {b \in Account : cfg[b].on /\ ~isQuotaBlocked(cfg[b], allow)}
  BY DEF Listed
<1>2. \A a \in DOMAIN Listed(cfg, allow) : Listed(cfg, allow)[a] \in Records
  BY DEF Listed
<1>3. Listed(cfg, allow) = [a \in DOMAIN Listed(cfg, allow) |-> Listed(cfg, allow)[a]]
  BY DEF Listed
<1> QED BY <1>1, <1>2, <1>3, ListIs

LEMMA NoListIsList == NoList \in Lists /\ DOMAIN NoList = {}
<1>1. DOMAIN NoList = {} /\ NoList = [a \in DOMAIN NoList |-> NoList[a]]
  BY DEF NoList
<1> QED BY <1>1, ListIs

\* What changes a record leaves a record.
LEMMA RecordEdits ==
  ASSUME NEW rec \in Records
  PROVE  /\ Banned(rec) \in Records
         /\ \A b \in BOOLEAN : [rec EXCEPT !.blocked = b] \in Records
         /\ \A b \in BOOLEAN : [rec EXCEPT !.ban = FALSE, !.on = b] \in Records
         /\ \A e \in Edits(rec) : e \in Records
         /\ Fresh \in Records
BY DEF Records, Banned, Edits, Fresh

LEMMA InitTypeInv == Init => TypeInv
<1> SUFFICES ASSUME Init PROVE TypeInv
  OBVIOUS
<1>1. Fresh \in Records
  BY DEF Fresh, Records
<1>2. cfg \in [Account -> Records]
  BY <1>1 DEF Init
<1>3. entries \in Lists
  BY <1>2, ListedIsList DEF Init
<1>4. Begun \in Handlers /\ Begun.pc \notin Working
  BY DEF Begun, Handlers, Working
<1>5. Idle \in Jobs /\ DOMAIN Idle.snap = Idle.todo
  BY NoListIsList DEF Idle, Jobs
<1>6. cool \in [Account -> Nat] /\ now \in 0..MaxTime /\ jobs \in 0..MaxJob
  BY PoolAssumption DEF Init
<1>7. req \in [Request -> Handlers] /\ job \in [Admin -> Jobs]
  BY <1>4, <1>5 DEF Init
<1>8. SwitchInv
  BY Zenon DEF Init, SwitchInv
<1> QED BY <1>2, <1>3, <1>4, <1>5, <1>6, <1>7, <1>8, Zenon DEF Init, TypeInv, ReqInv, JobInv, PoolInv

-----------------------------------------------------------------------------
(* What a step does to a handler.                                          *)

\* A handler whose fields change within their types stays one.
LEMMA HandlerMoves ==
  ASSUME ReqInv, NEW r \in Request, NEW q \in Handlers,
         q.pc \in Working => q.acc \in Copies,
         req' = [req EXCEPT ![r] = q]
  PROVE  ReqInv'
BY DEF ReqInv

LEMMA HandlerDone ==
  ASSUME ReqInv, NEW r \in Request, Done(r)
  PROVE  ReqInv'
<1>1. [Begun EXCEPT !.pc = "done"] \in Handlers /\ [Begun EXCEPT !.pc = "done"].pc \notin Working
  BY DEF Begun, Handlers, Working
<1> QED BY <1>1, HandlerMoves DEF Done

LEMMA HandlerTakes ==
  ASSUME ReqInv, PoolInv, NEW r \in Request, NEW a \in DOMAIN entries, Take(r, a)
  PROVE  ReqInv'
<1> DEFINE c == [id |-> a, rec |-> entries[a]]
           q == [req[r] EXCEPT !.pc = "call", !.at = 0, !.over = FALSE, !.acc = c]
<1>1. c \in Copies
  BY ListIs DEF PoolInv, Copies
<1>2. q \in Handlers /\ q.acc = c
  BY <1>1 DEF ReqInv, Handlers
<1>3. req' = [req EXCEPT ![r] = q]
  BY DEF Take
<1> HIDE DEF q
<1> QED BY <1>1, <1>2, <1>3, HandlerMoves

\* The handler goes on with the account it has, or with its id alone.
LEMMA HandlerKeeps ==
  ASSUME ReqInv, NEW r \in Request, req[r].pc \in Working, NEW pc \in Working,
         Step(r, pc) \/ After(r, pc)
  PROVE  ReqInv'
<1>1. CASE Step(r, pc)
  <2> DEFINE q == [req[r] EXCEPT !.pc = pc]
  <2>1. q \in Handlers /\ q.acc \in Copies
    BY DEF ReqInv, Handlers, Working
  <2>2. req' = [req EXCEPT ![r] = q]
    BY <1>1 DEF Step
  <2> HIDE DEF q
  <2> QED BY <2>1, <2>2, HandlerMoves
<1>2. CASE After(r, pc)
  <2> DEFINE c == [req[r].acc EXCEPT !.rec = Fresh]
             q == [req[r] EXCEPT !.pc = pc, !.acc = c]
  <2>1. req[r].acc \in Copies
    BY DEF ReqInv
  <2>2. c \in Copies
    BY <2>1 DEF Copies, Fresh, Records
  <2>3. q \in Handlers /\ q.acc = c
    BY <2>2 DEF ReqInv, Handlers, Working
  <2>4. req' = [req EXCEPT ![r] = q]
    BY <1>2 DEF After
  <2> HIDE DEF q
  <2> QED BY <2>2, <2>3, <2>4, HandlerMoves
<1> QED BY <1>1, <1>2

LEMMA HandlerScans ==
  ASSUME ReqInv, PoolInv, SwitchInv, NEW r \in Request,
         req' = [req EXCEPT ![r].pc = "scan", ![r].at = now, ![r].over = allow]
  PROVE  ReqInv'
<1> DEFINE q == [req[r] EXCEPT !.pc = "scan", !.at = now, !.over = allow]
<1>1. now \in Nat
  BY PoolAssumption DEF PoolInv
<1>2. q \in Handlers /\ q.pc \notin Working
  BY <1>1 DEF ReqInv, Handlers, Working, SwitchInv
<1>3. req' = [req EXCEPT ![r] = q]
  OBVIOUS
<1> HIDE DEF q
<1> QED BY <1>2, <1>3, HandlerMoves

LEMMA HandlerRetries ==
  ASSUME ReqInv, NEW r \in Request, req[r].pc \in Working, NextAccount(r)
  PROVE  ReqInv'
<1>1. CASE Done(r)
  BY <1>1, HandlerDone
<1>2. CASE req' = [req EXCEPT ![r] = [Begun EXCEPT !.out = req[r].out \cup {req[r].acc.id}]]
  <2>1. req[r].acc \in Copies /\ req[r].out \subseteq Account
    BY DEF ReqInv, Handlers
  <2> DEFINE q == [Begun EXCEPT !.out = req[r].out \cup {req[r].acc.id}]
  <2>2. q \in Handlers /\ q.pc \notin Working
    BY <2>1 DEF Begun, Handlers, Copies, Working
  <2> HIDE DEF q
  <2> QED BY <1>2, <2>2, HandlerMoves DEF q
<1> QED BY <1>1, <1>2 DEF NextAccount

-----------------------------------------------------------------------------
(* What a step does to the pool and to the configuration.                  *)

\* Recording an outcome sets one cooldown; Reload makes another list.
LEMMA PoolMoves ==
  ASSUME PoolInv, UNCHANGED <<cfg, env, jobs>>, NEW a,
         \/ RecordSuccess(a) \/ Penalty(a) \/ Reload \/ UNCHANGED pool
  PROVE  PoolInv'
<1>1. CASE RecordSuccess(a) \/ Penalty(a)
  <2>1. now + Hour \in Nat /\ now + Minute \in Nat /\ now + Short \in Nat
    BY PoolAssumption DEF PoolInv
  <2>2. cool' \in [Account -> Nat] /\ entries' = entries
    BY <1>1, <2>1 DEF PoolInv, RecordSuccess, Penalty, RecordThrottle, RecordError
  <2> QED BY <2>2 DEF PoolInv, env
<1>2. CASE Reload
  BY <1>2, ListedIsList DEF PoolInv, Reload, env
<1>3. CASE UNCHANGED pool
  BY <1>3 DEF PoolInv, pool, env
<1> QED BY <1>1, <1>2, <1>3

\* A write of a whole record, or of the usage alone.
LEMMA ConfigMoves ==
  ASSUME PoolInv, UNCHANGED <<pool, env, jobs>>, NEW acc \in Copies \cup {NoAcc},
         \/ \E rec \in Records : UpdateAccount(acc.id, rec)
         \/ PersistOverageSnapshot(acc)
         \/ UNCHANGED cfg
  PROVE  PoolInv'
<1>1. CASE \E rec \in Records : UpdateAccount(acc.id, rec)
  BY <1>1 DEF PoolInv, UpdateAccount, pool, env
<1>2. CASE PersistOverageSnapshot(acc)
  <2>1. PICK b \in BOOLEAN : cfg' = [cfg EXCEPT ![acc.id].blocked = b]
    BY <1>2 DEF PersistOverageSnapshot
  <2>2. cfg' \in [Account -> Records]
    BY <2>1, RecordEdits DEF PoolInv
  <2> QED BY <2>2 DEF PoolInv, pool, env
<1>3. CASE UNCHANGED cfg
  BY <1>3 DEF PoolInv, pool, env
<1> QED BY <1>1, <1>2, <1>3

\* The copies that goroutines hold have records.
LEMMA CopyHasRecord ==
  ASSUME NEW acc \in Copies \cup {NoAcc}
  PROVE  acc.rec \in Records
<1>1. CASE acc \in Copies
  BY <1>1 DEF Copies
<1>2. CASE acc = NoAcc
  BY <1>2 DEF NoAcc, Fresh, Records
<1> QED BY <1>1, <1>2

-----------------------------------------------------------------------------
(* What a step does to a goroutine.                                        *)

LEMMA JobMoves ==
  ASSUME JobInv, NEW k \in Admin, NEW j \in Jobs, DOMAIN j.snap = j.todo,
         job' = [job EXCEPT ![k] = j]
  PROVE  JobInv'
BY DEF JobInv

LEMMA JobGoes ==
  ASSUME JobInv, NEW k \in Admin,
         NEW pc \in {"write", "next", "ask", "again", "info", "saved", "banned", "overage",
                     "count", "reload"},
         NEW acc \in Copies \cup {NoAcc},
         \/ Goto(k, pc)
         \/ job' = [job EXCEPT ![k].pc = pc, ![k].acc = acc]
  PROVE  JobInv'
<1>1. CASE Goto(k, pc)
  <2> DEFINE j == [job[k] EXCEPT !.pc = pc]
  <2>1. job[k] \in Jobs /\ DOMAIN job[k].snap = job[k].todo
    BY DEF JobInv
  <2>2. j \in Jobs /\ j.snap = job[k].snap /\ j.todo = job[k].todo
    BY <2>1 DEF Jobs
  <2>3. job' = [job EXCEPT ![k] = j]
    BY <1>1 DEF Goto
  <2> HIDE DEF j
  <2> QED BY <2>1, <2>2, <2>3, JobMoves
<1>2. CASE job' = [job EXCEPT ![k].pc = pc, ![k].acc = acc]
  <2> DEFINE j == [job[k] EXCEPT !.pc = pc, !.acc = acc]
  <2>1. job[k] \in Jobs /\ DOMAIN job[k].snap = job[k].todo
    BY DEF JobInv
  <2>2. j \in Jobs /\ j.snap = job[k].snap /\ j.todo = job[k].todo
    BY <2>1 DEF Jobs
  <2>3. job' = [job EXCEPT ![k] = j]
    BY <1>2
  <2> HIDE DEF j
  <2> QED BY <2>1, <2>2, <2>3, JobMoves
<1> QED BY <1>1, <1>2

LEMMA JobEnds ==
  ASSUME JobInv, NEW k \in Admin, End(k)
  PROVE  JobInv'
<1>1. Idle \in Jobs /\ DOMAIN Idle.snap = Idle.todo
  BY NoListIsList DEF Idle, Jobs
<1> QED BY <1>1, JobMoves DEF End

LEMMA JobGoesOn ==
  ASSUME JobInv, NEW k \in Admin, Onward(k)
  PROVE  JobInv'
<1>1. CASE End(k)
  BY <1>1, JobEnds
<1>2. CASE job' = [job EXCEPT ![k].pc = IF job[k].kind = "batch" THEN "reload" ELSE "next",
                              ![k].acc = NoAcc]
  BY <1>2, JobGoes
<1> QED BY <1>1, <1>2 DEF Onward

LEMMA JobBegins ==
  ASSUME JobInv, PoolInv, NEW k \in Admin,
         NEW pc \in {"write", "ask", "next"}, NEW kind \in {"edit", "page", "batch", "round"},
         NEW acc \in Copies \cup {NoAcc}, NEW snap \in Lists,
         Begin(k, pc, kind, acc, snap, DOMAIN snap)
  PROVE  JobInv' /\ PoolInv'
<1> DEFINE j == [pc |-> pc, kind |-> kind, acc |-> acc, snap |-> snap, todo |-> DOMAIN snap]
<1>1. j \in Jobs /\ DOMAIN j.snap = j.todo
  BY ListIs DEF Jobs
<1>2. job' = [job EXCEPT ![k] = j]
  BY DEF Begin
<1>3. JobInv'
  <2> HIDE DEF j
  <2> QED BY <1>1, <1>2, JobMoves
<1>4. jobs' \in 0..MaxJob /\ UNCHANGED <<cfg, entries, cool, now>>
  BY PoolAssumption DEF PoolInv, Begin, pool, env
<1> QED BY <1>3, <1>4 DEF PoolInv

LEMMA JobTakesNext ==
  ASSUME JobInv, NEW k \in Admin, NextInRound(k)
  PROVE  JobInv'
<1>1. CASE job[k].todo = {}
  BY <1>1, JobGoes DEF NextInRound
<1>2. CASE job[k].todo # {}
  <2>1. PICK a \in job[k].todo :
          job' = [job EXCEPT ![k].pc = "ask", ![k].todo = @ \ {a},
                             ![k].snap = [b \in job[k].todo \ {a} |-> @[b]],
                             ![k].acc = [id |-> a, rec |-> job[k].snap[a]]]
    BY <1>2 DEF NextInRound
  <2> DEFINE rest == [b \in job[k].todo \ {a} |-> job[k].snap[b]]
             c    == [id |-> a, rec |-> job[k].snap[a]]
             j    == [job[k] EXCEPT !.pc = "ask", !.todo = @ \ {a}, !.snap = rest, !.acc = c]
  <2>2. job[k] \in Jobs /\ DOMAIN job[k].snap = job[k].todo
    BY DEF JobInv
  <2>3. /\ job[k].snap \in Lists /\ job[k].todo \subseteq Account
        /\ \A b \in job[k].todo : job[k].snap[b] \in Records
    BY <2>2, ListIs DEF Jobs
  <2>4. rest \in Lists
    <3>1. rest = [b \in DOMAIN rest |-> rest[b]] /\ DOMAIN rest = job[k].todo \ {a}
      OBVIOUS
    <3>2. \A b \in DOMAIN rest : rest[b] \in Records
      BY <2>3
    <3> HIDE DEF rest
    <3> QED BY <3>1, <3>2, <2>3, ListIs
  <2>5. c \in Copies
    BY <2>3 DEF Copies
  <2>6. job' = [job EXCEPT ![k] = j]
    BY <2>1
  <2>7. DOMAIN rest = job[k].todo \ {a}
    OBVIOUS
  <2> HIDE DEF c, rest
  <2>8. j \in Jobs /\ DOMAIN j.snap = j.todo
    BY <2>2, <2>4, <2>5, <2>7 DEF Jobs
  <2> HIDE DEF j
  <2> QED BY <2>6, <2>8, JobMoves
<1> QED BY <1>1, <1>2

-----------------------------------------------------------------------------
(* Each action keeps the type invariant.                                   *)

LEMMA HandlerKeepsTypes ==
  ASSUME TypeInv, NEW r \in Request, handleClaudeStream(r)
  PROVE  TypeInv'
<1> USE DEF TypeInv
<1>1. UNCHANGED <<job, jobs, env>>
  BY Zenon DEF handleClaudeStream, BeginPick, Visit, Fallback, GiveUp, Served, EmptyReply, Punished,
         Disabled, DisabledReload, Overage, OverageReload, OverageCounts
<1>2. JobInv'
  BY <1>1 DEF JobInv
<1>3. SwitchInv'
  BY <1>1, Zenon DEF SwitchInv, env, handleClaudeStream, BeginPick, Visit, Fallback, GiveUp, Served,
     EmptyReply, Punished, Disabled, DisabledReload, Overage, OverageReload, OverageCounts, Reload
<1>4. ReqInv'
  <2>1. CASE BeginPick(r)
    BY <2>1, HandlerDone, HandlerScans DEF BeginPick
  <2>2. CASE Visit(r)
    BY <2>2, HandlerTakes DEF Visit
  <2>3. CASE Fallback(r)
    BY <2>3, HandlerDone, HandlerTakes DEF Fallback
  <2>4. CASE GiveUp(r)
    BY <2>4, HandlerDone DEF GiveUp
  <2>5. CASE Served(r)
    BY <2>5, HandlerDone DEF Served
  <2>6. CASE EmptyReply(r) \/ Punished(r) \/ DisabledReload(r) \/ OverageCounts(r)
    <3>1. NextAccount(r) /\ req[r].pc \in Working
      BY <2>6 DEF EmptyReply, Punished, DisabledReload, OverageCounts, At, Working
    <3> QED BY <3>1, HandlerRetries
  <2>7. CASE Disabled(r) \/ Overage(r) \/ OverageReload(r)
    <3>1. req[r].pc \in Working /\ \E pc \in Working : Step(r, pc) \/ After(r, pc)
      BY <2>7 DEF Disabled, Overage, OverageReload, At, Working
    <3> QED BY <3>1, HandlerKeeps
  <2> QED BY <2>1, <2>2, <2>3, <2>4, <2>5, <2>6, <2>7 DEF handleClaudeStream
<1>5. PoolInv'
  <2>1. CASE Disabled(r) \/ Overage(r)
    <3>1. req[r].acc \in Copies
      BY <2>1 DEF ReqInv, Disabled, Overage, At, Working
    <3>2. Banned(req[r].acc.rec) \in Records
      BY <3>1, CopyHasRecord, RecordEdits
    <3>3. UNCHANGED <<pool, env, jobs>>
            /\ (disableAccount(req[r].acc) \/ PersistOverageSnapshot(req[r].acc))
      BY <2>1 DEF Disabled, Overage
    <3> QED BY <3>1, <3>2, <3>3, ConfigMoves DEF disableAccount
  <2>2. CASE ~(Disabled(r) \/ Overage(r))
    <3>1. /\ UNCHANGED cfg
          /\ \E a : RecordSuccess(a) \/ Penalty(a) \/ Reload \/ UNCHANGED pool
      BY <2>2 DEF handleClaudeStream, BeginPick, Visit, Fallback, GiveUp, Served, EmptyReply,
         Punished, DisabledReload, OverageReload, OverageCounts, Penalty
    <3> QED BY <3>1, <1>1, PoolMoves
  <2> QED BY <2>1, <2>2
<1> QED BY <1>2, <1>3, <1>4, <1>5

\* The steps of an administrative goroutine.
JobStep(k) ==
  \/ \E a \in Account : apiUpdateAccount(k, a) \/ apiRefreshAccount(k, a)
  \/ apiUpdateSettings(k) \/ refreshAllAccounts(k) \/ NextInRound(k) \/ WriteEdit(k)
  \/ InfoFails(k) \/ InfoArrives(k) \/ UpdateAccountInfo(k) \/ Answer(k)
  \/ RoundPunished(k) \/ RoundDisabled(k) \/ RoundDisabledReload(k)
  \/ RoundOverage(k) \/ RoundOverageReload(k) \/ RoundOverageCounts(k)
  \/ JobReload(k)

LEMMA BeginKeepsTypes ==
  ASSUME TypeInv, NEW k \in Admin,
         \/ \E a \in Account : apiUpdateAccount(k, a) \/ apiRefreshAccount(k, a)
         \/ refreshAllAccounts(k)
  PROVE  TypeInv'
<1> USE DEF TypeInv
<1>1. UNCHANGED <<req, allow, unloaded>>
  BY DEF apiUpdateAccount, apiRefreshAccount, refreshAllAccounts, Begin, env
<1>2. ReqInv' /\ SwitchInv'
  BY <1>1, Zenon DEF ReqInv, SwitchInv
<1>3. JobInv' /\ PoolInv'
  <2>1. CASE \E a \in Account : apiUpdateAccount(k, a)
    <3>1. PICK a \in Account : apiUpdateAccount(k, a)
      BY <2>1
    <3>2. PICK rec \in Edits(cfg[a]) :
            Begin(k, "write", "edit", [id |-> a, rec |-> rec], NoList, {})
      BY <3>1 DEF apiUpdateAccount
    <3>3. cfg[a] \in Records
      BY DEF PoolInv
    <3>4. [id |-> a, rec |-> rec] \in Copies
      BY <3>3, RecordEdits DEF Copies
    <3> QED BY <3>2, <3>4, NoListIsList, JobBegins
  <2>2. CASE \E a \in Account : apiRefreshAccount(k, a)
    <3>1. PICK a \in Account, kind \in {"page", "batch"} :
            Begin(k, "ask", kind, [id |-> a, rec |-> cfg[a]], NoList, {})
      BY <2>2 DEF apiRefreshAccount
    <3>2. [id |-> a, rec |-> cfg[a]] \in Copies
      BY DEF PoolInv, Copies
    <3> QED BY <3>1, <3>2, NoListIsList, JobBegins
  <2>3. CASE refreshAllAccounts(k)
    <3> DEFINE enabled == {a \in Account : cfg[a].on}
               snap    == [a \in enabled |-> cfg[a]]
    <3>1. Begin(k, "next", "round", NoAcc, snap, enabled)
      BY <2>3 DEF refreshAllAccounts
    <3>2. snap \in Lists /\ DOMAIN snap = enabled
      <4>1. snap = [a \in DOMAIN snap |-> snap[a]] /\ DOMAIN snap = enabled
        OBVIOUS
      <4>2. \A a \in DOMAIN snap : snap[a] \in Records
        BY DEF PoolInv
      <4> HIDE DEF snap
      <4> QED BY <4>1, <4>2, ListIs
    <3> HIDE DEF snap, enabled
    <3> QED BY <3>1, <3>2, JobBegins
  <2> QED BY <2>1, <2>2, <2>3
<1> QED BY <1>2, <1>3

LEMMA JobKeepsTypes ==
  ASSUME TypeInv, NEW k \in Admin, JobStep(k)
  PROVE  TypeInv'
<1> USE DEF TypeInv
<1>1. CASE \/ \E a \in Account : apiUpdateAccount(k, a) \/ apiRefreshAccount(k, a)
           \/ refreshAllAccounts(k)
  BY <1>1, BeginKeepsTypes
<1>2. CASE NextInRound(k)
  <2>1. UNCHANGED <<cfg, pool, env, req, jobs, unloaded>>
    BY <1>2 DEF NextInRound
  <2>2. JobInv'
    BY <1>2, JobTakesNext
  <2>3. PoolInv'
    BY <2>1, PoolMoves
  <2> QED BY <2>1, <2>2, <2>3, Zenon DEF ReqInv, SwitchInv, env
<1>3. CASE WriteEdit(k) \/ InfoFails(k) \/ InfoArrives(k) \/ UpdateAccountInfo(k) \/ RoundDisabled(k)
           \/ RoundOverage(k)
  <2> DEFINE acc == job[k].acc
  <2>1. acc \in Copies \cup {NoAcc} /\ NoAcc \in Copies \cup {NoAcc}
    BY DEF JobInv, Jobs
  <2>2. acc.rec \in Records
    BY <2>1, CopyHasRecord
  <2>3. JobInv'
    BY <1>3, <2>1, JobGoes, JobGoesOn
       DEF WriteEdit, InfoFails, InfoArrives, UpdateAccountInfo, RoundDisabled, RoundOverage,
           RoundFails
  <2>4. UNCHANGED <<pool, env, jobs, req>>
    BY <1>3 DEF WriteEdit, InfoFails, InfoArrives, UpdateAccountInfo, RoundDisabled, RoundOverage,
                RoundFails
  <2>5. \/ \E rec \in Records : UpdateAccount(acc.id, rec)
        \/ PersistOverageSnapshot(acc)
        \/ UNCHANGED cfg
    <3>1. CASE WriteEdit(k) \/ InfoFails(k) \/ RoundDisabled(k)
      BY <3>1, <2>2, RecordEdits DEF WriteEdit, InfoFails, RoundDisabled, disableAccount
    <3>2. CASE InfoArrives(k)
      <4>1. \A on \in {acc.rec.on, TRUE} : [acc.rec EXCEPT !.ban = FALSE, !.on = on] \in Records
        BY <2>2 DEF Records
      <4> QED BY <3>2, <4>1 DEF InfoArrives
    <3>3. CASE UpdateAccountInfo(k) \/ RoundOverage(k)
      BY <3>3 DEF UpdateAccountInfo, RoundOverage, PersistOverageSnapshot
    <3> QED BY <1>3, <3>1, <3>2, <3>3
  <2>6. SwitchInv'
    BY <1>3, <2>4, Zenon
       DEF SwitchInv, env, WriteEdit, InfoFails, InfoArrives, UpdateAccountInfo, RoundDisabled, RoundOverage, Wrote
  <2>7. PoolInv'
    BY <2>1, <2>4, <2>5, ConfigMoves
  <2> QED BY <2>3, <2>4, <2>6, <2>7, Zenon DEF ReqInv
<1>4. CASE Answer(k) \/ RoundPunished(k) \/ RoundDisabledReload(k) \/ RoundOverageReload(k)
           \/ RoundOverageCounts(k) \/ JobReload(k)
  <2>1. JobInv'
    <3>1. \A acc : acc = NoAcc => acc \in Copies \cup {NoAcc}
      OBVIOUS
    <3> QED BY <1>4, <3>1, JobGoes, JobGoesOn, JobEnds
       DEF Answer, RoundPunished, RoundDisabledReload, RoundOverageReload, RoundOverageCounts,
           JobReload, RoundFails
  <2>2. /\ UNCHANGED <<cfg, env, jobs, req>>
        /\ \E a : RecordSuccess(a) \/ Penalty(a) \/ Reload \/ UNCHANGED pool
    BY <1>4 DEF Answer, RoundPunished, RoundDisabledReload, RoundOverageReload,
                RoundOverageCounts, JobReload, RoundFails, Penalty
  <2>3. PoolInv'
    BY <2>2, PoolMoves
  <2>4. SwitchInv'
    BY <1>4, <2>2, Zenon DEF SwitchInv, env, Answer, RoundPunished, RoundDisabledReload, RoundOverageReload,
                       RoundOverageCounts, JobReload, Reload
  <2> QED BY <2>1, <2>2, <2>3, <2>4, Zenon DEF ReqInv
<1>5. CASE apiUpdateSettings(k)
  <2>1. UNCHANGED <<cfg, entries, cool, now, req, unloaded>> /\ jobs' \in 0..MaxJob
    BY <1>5, PoolAssumption DEF apiUpdateSettings, pool, PoolInv
  <2>2. SwitchInv'
    BY <1>5, <2>1, Zenon DEF apiUpdateSettings, SwitchInv
  <2>3. JobInv'
    <3> DEFINE j == [job[k] EXCEPT !.pc = "reload", !.kind = "settings"]
    <3>1. job[k] \in Jobs /\ DOMAIN job[k].snap = job[k].todo
      BY DEF JobInv
    <3>2. j \in Jobs /\ j.snap = job[k].snap /\ j.todo = job[k].todo
      BY <3>1 DEF Jobs
    <3>3. job' = [job EXCEPT ![k] = j]
      BY <1>5 DEF apiUpdateSettings
    <3> HIDE DEF j
    <3> QED BY <3>1, <3>2, <3>3, JobMoves
  <2> QED BY <2>1, <2>2, <2>3, Zenon DEF ReqInv, PoolInv
<1> QED BY <1>1, <1>2, <1>3, <1>4, <1>5 DEF JobStep

LEMMA NextKeepsTypes == TypeInv /\ [Next]_vars => TypeInv'
<1> SUFFICES ASSUME TypeInv, [Next]_vars PROVE TypeInv'
  OBVIOUS
<1>1. CASE \E r \in Request : handleClaudeStream(r)
  BY <1>1, HandlerKeepsTypes
<1>2. CASE \E k \in Admin : JobStep(k)
  BY <1>2, JobKeepsTypes
<1>3. CASE Tick
  <2>1. UNCHANGED <<cfg, entries, cool, allow, req, job, jobs, unloaded>> /\ now' \in 0..MaxTime
    BY <1>3, PoolAssumption DEF Tick, pool, procs, TypeInv, PoolInv
  <2> QED BY <2>1, Zenon DEF TypeInv, ReqInv, JobInv, PoolInv, SwitchInv
<1>4. CASE UNCHANGED vars
  BY <1>4, Zenon DEF vars, pool, env, procs, TypeInv, ReqInv, JobInv, PoolInv, SwitchInv
<1> QED BY <1>1, <1>2, <1>3, <1>4 DEF Next, JobStep

\* The types of the pool, of the configuration and of the goroutines.
THEOREM TypeCorrect == Spec => []TypeOK
<1>1. Init => TypeInv
  BY InitTypeInv
<1>2. TypeInv /\ [Next]_vars => TypeInv'
  BY NextKeepsTypes
<1>3. TypeInv => TypeOK
  BY DEF TypeInv, TypeOK, ReqInv, JobInv, PoolInv, SwitchInv
<1> QED BY <1>1, <1>2, <1>3, PTL DEF Spec

-----------------------------------------------------------------------------
(* The pool follows the configuration.  Who has changed the configuration  *)
(* owes a Reload until it makes one; a step of one goroutine leaves the    *)
(* debts of the others alone.                                              *)

HandlerOwes(r) == req[r].pc \in {"reload", "overage"}
Owing(j)       == j.pc = "reload" \/ (j.kind \in {"batch", "round"} /\ j.pc # "idle")
JobOwes(k)     == Owing(job[k])

\* Only refreshes ask for usage, a round goes from account to account, and only
\* a page answers.
Fits(j) ==
  /\ j.pc \in {"ask", "again", "info"} => j.kind \in {"page", "batch", "round"}
  /\ j.pc = "next" => j.kind = "round"
  /\ j.pc = "saved" => j.kind = "page"

KindInv == \A k \in Admin : Fits(job[k])

Debts == PoolFollowsConfig /\ KindInv

\* The ways in which the step of one process may keep the promise.
Settled(owed, owes) ==
  \/ entries' = Listed(cfg', allow')
  \/ owes
  \/ unloaded' = TRUE
  \/ UNCHANGED <<cfg, allow, entries, unloaded>> /\ ~owed

LEMMA InitDebts == Init => Debts
BY DEF Init, Debts, PoolFollowsConfig, KindInv, Fits, Idle

LEMMA DebtsOf ==
  /\ ReloadIsDue <=> \/ \E r \in Request : HandlerOwes(r)
                     \/ \E k \in Admin : JobOwes(k)
  /\ ReloadIsDue' <=> \/ \E r \in Request : HandlerOwes(r)'
                      \/ \E k \in Admin : JobOwes(k)'
BY DEF ReloadIsDue, HandlerOwes, JobOwes, Owing, JobAt

\* A handler that bans an account, or stores its overage, owes a Reload.
LEMMA HandlerSettles ==
  ASSUME TypeInv, NEW r \in Request, handleClaudeStream(r)
  PROVE  Settled(HandlerOwes(r), HandlerOwes(r)')
<1>1. req \in [Request -> Handlers]
  BY DEF TypeInv, ReqInv
<1>2. CASE Disabled(r)
  BY <1>1, <1>2 DEF Disabled, After, Settled, HandlerOwes, Handlers
<1>3. CASE Overage(r)
  BY <1>1, <1>3 DEF Overage, After, Settled, HandlerOwes, Handlers
<1>4. CASE DisabledReload(r) \/ OverageReload(r)
  BY <1>4 DEF DisabledReload, OverageReload, Reload, Settled, env
<1>5. CASE BeginPick(r) \/ Visit(r) \/ Fallback(r) \/ GiveUp(r) \/ Served(r) \/ EmptyReply(r)
             \/ Punished(r) \/ OverageCounts(r)
  <2>1. ~HandlerOwes(r)
    BY <1>5 DEF BeginPick, Visit, Fallback, GiveUp, Served, EmptyReply, Punished, OverageCounts,
                At, HandlerOwes
  <2>2. UNCHANGED <<cfg, allow, entries, unloaded>>
    BY <1>5 DEF BeginPick, Visit, Fallback, GiveUp, Served, EmptyReply, Punished, OverageCounts,
                pool, env, Penalty, RecordSuccess, RecordError, RecordThrottle
  <2> QED BY <2>1, <2>2 DEF Settled
<1> QED BY <1>2, <1>3, <1>4, <1>5 DEF handleClaudeStream

\* A goroutine whose step leaves it fit and owing, or that owed nothing.
LEMMA JobFits ==
  ASSUME TypeInv, KindInv, NEW k \in Admin, NEW q, Fits(q), job' = [job EXCEPT ![k] = q]
  PROVE  KindInv' /\ (JobOwes(k)' <=> Owing(q))
<1>1. job' = [l \in Admin |-> IF l = k THEN q ELSE job[l]]
  BY DEF TypeInv, JobInv
<1> QED BY <1>1, Zenon DEF KindInv, JobOwes

\* The same for a step that changes where the goroutine stands.
LEMMA JobFitsAt ==
  ASSUME TypeInv, KindInv, NEW k \in Admin, NEW pc, NEW acc,
         pc \in {"ask", "again", "info"} => job[k].kind \in {"page", "batch", "round"},
         pc = "next" => job[k].kind = "round", pc = "saved" => job[k].kind = "page",
         \/ Goto(k, pc)
         \/ job' = [job EXCEPT ![k].pc = pc, ![k].acc = acc]
         \/ \E snap, todo : job' = [job EXCEPT ![k].pc = pc, ![k].todo = todo, ![k].snap = snap,
                                             ![k].acc = acc]
  PROVE  /\ KindInv'
         /\ JobOwes(k)' <=> \/ pc = "reload"
                            \/ job[k].kind \in {"batch", "round"} /\ pc # "idle"
<1>1. job[k] \in Jobs
  BY DEF TypeInv, JobInv
<1>2. PICK q : job' = [job EXCEPT ![k] = q] /\ q.pc = pc /\ q.kind = job[k].kind
  <2>1. CASE Goto(k, pc)
    <3> DEFINE q == [job[k] EXCEPT !.pc = pc]
    <3>1. job' = [job EXCEPT ![k] = q] /\ q.pc = pc /\ q.kind = job[k].kind
      BY <1>1, <2>1 DEF Goto, Jobs
    <3> QED BY <3>1
  <2>2. CASE job' = [job EXCEPT ![k].pc = pc, ![k].acc = acc]
    <3> DEFINE q == [job[k] EXCEPT !.pc = pc, !.acc = acc]
    <3>1. job' = [job EXCEPT ![k] = q] /\ q.pc = pc /\ q.kind = job[k].kind
      BY <1>1, <2>2 DEF Jobs
    <3> QED BY <3>1
  <2>3. CASE \E snap, todo : job' = [job EXCEPT ![k].pc = pc, ![k].todo = todo, ![k].snap = snap,
                                             ![k].acc = acc]
    <3>1. PICK snap, todo : job' = [job EXCEPT ![k].pc = pc, ![k].todo = todo, ![k].snap = snap,
                                            ![k].acc = acc]
      BY <2>3
    <3> DEFINE q == [job[k] EXCEPT !.pc = pc, !.todo = todo, !.snap = snap, !.acc = acc]
    <3>2. job' = [job EXCEPT ![k] = q] /\ q.pc = pc /\ q.kind = job[k].kind
      BY <1>1, <3>1 DEF Jobs
    <3> QED BY <3>2
  <2> QED BY <2>1, <2>2, <2>3
<1>3. Fits(q)
  BY <1>2 DEF Fits
<1> QED BY <1>2, <1>3, JobFits DEF Owing

LEMMA JobFitsEnd ==
  ASSUME TypeInv, KindInv, NEW k \in Admin, End(k)
  PROVE  KindInv'
BY JobFits DEF End, Idle, Fits

LEMMA JobFitsOnward ==
  ASSUME TypeInv, KindInv, NEW k \in Admin, Onward(k), job[k].kind \in {"page", "batch", "round"}
  PROVE  KindInv' /\ (job[k].kind # "page" => JobOwes(k)')
<1>1. CASE job[k].kind = "page"
  BY <1>1, JobFitsEnd DEF Onward
<1>2. CASE job[k].kind # "page"
  <2>1. PICK pc \in {"reload", "next"} :
          /\ job' = [job EXCEPT ![k].pc = pc, ![k].acc = NoAcc]
          /\ pc = "next" => job[k].kind = "round"
    BY <1>2 DEF Onward
  <2> QED BY <1>2, <2>1, JobFitsAt
<1> QED BY <1>1, <1>2

\* So does a goroutine that writes, but for the refresh page, which marks that
\* the pool is behind.
LEMMA JobSettles ==
  ASSUME TypeInv, KindInv, NEW k \in Admin, JobStep(k)
  PROVE  Settled(JobOwes(k), JobOwes(k)') /\ KindInv'
<1>1. CASE \/ \E a \in Account : apiUpdateAccount(k, a) \/ apiRefreshAccount(k, a)
           \/ refreshAllAccounts(k)
  <2>1. PICK pc \in {"write", "ask", "next"}, kind \in {"edit", "page", "batch", "round"} :
          /\ \E acc, snap, todo : Begin(k, pc, kind, acc, snap, todo)
          /\ pc = "ask" => kind # "edit"
          /\ pc = "next" => kind = "round"
    BY <1>1 DEF apiUpdateAccount, apiRefreshAccount, refreshAllAccounts
  <2>2. PICK acc, snap, todo : Begin(k, pc, kind, acc, snap, todo)
    BY <2>1
  <2> DEFINE q == [pc |-> pc, kind |-> kind, acc |-> acc, snap |-> snap, todo |-> todo]
  <2>3. Fits(q) /\ job' = [job EXCEPT ![k] = q]
    BY <2>1, <2>2 DEF Fits, Begin
  <2>4. KindInv'
    <3> HIDE DEF q
    <3> QED BY <2>3, JobFits
  <2>5. UNCHANGED <<cfg, allow, entries, unloaded>> /\ ~JobOwes(k)
    BY <2>2 DEF Begin, pool, env, JobOwes, Owing, JobAt
  <2> QED BY <2>4, <2>5 DEF Settled
<1>2. CASE NextInRound(k)
  <2>1. job[k].kind = "round"
    BY <1>2 DEF NextInRound, JobAt, KindInv, Fits
  <2>2. PICK pc \in {"reload", "ask"} :
          \/ Goto(k, pc)
          \/ \E acc, snap, todo : job' = [job EXCEPT ![k].pc = pc, ![k].todo = todo,
                                                   ![k].snap = snap, ![k].acc = acc]
    BY <1>2 DEF NextInRound
  <2>3. /\ pc \in {"ask", "again", "info"} => job[k].kind \in {"page", "batch", "round"}
        /\ pc = "next" => job[k].kind = "round"
        /\ pc = "saved" => job[k].kind = "page"
        /\ pc # "idle"
    BY <2>1, <2>2
  <2>4. KindInv' /\ JobOwes(k)'
    BY <2>1, <2>2, <2>3, JobFitsAt
  <2> QED BY <2>4, Zenon DEF Settled
<1>3. CASE WriteEdit(k)
  <2>1. PICK pc \in {"reload"} : job' = [job EXCEPT ![k].pc = pc, ![k].acc = NoAcc]
    BY <1>3 DEF WriteEdit
  <2>2. KindInv' /\ JobOwes(k)'
    BY <2>1, JobFitsAt
  <2> QED BY <2>2, Zenon DEF Settled
<1>4. CASE JobReload(k)
  <2>1. End(k) /\ entries' = Listed(cfg', allow')
    BY <1>4 DEF JobReload, Reload, env
  <2> QED BY <2>1, JobFitsEnd DEF Settled
<1>5. CASE Answer(k)
  <2>1. UNCHANGED <<cfg, allow, entries, unloaded>> /\ ~JobOwes(k)
    BY <1>5 DEF Answer, pool, env, JobAt, KindInv, Fits, JobOwes, Owing
  <2>2. KindInv'
    BY <1>5, JobFitsEnd DEF Answer
  <2> QED BY <2>1, <2>2, Zenon DEF Settled
<1>6. CASE InfoFails(k) \/ InfoArrives(k) \/ UpdateAccountInfo(k)
  <2>1. job[k].kind \in {"page", "batch", "round"} /\ job[k].pc \in {"ask", "again", "info"}
    BY <1>6 DEF InfoFails, InfoArrives, UpdateAccountInfo, JobAt, KindInv, Fits
  <2>2. \/ Onward(k)
        \/ Goto(k, "again") \/ Goto(k, "info")
        \/ Goto(k, "saved") /\ job[k].kind = "page"
    BY <1>6 DEF InfoFails, InfoArrives, UpdateAccountInfo
  <2>3. KindInv' /\ (job[k].kind # "page" => JobOwes(k)')
    <3>1. CASE Onward(k)
      BY <2>1, <3>1, JobFitsOnward
    <3>2. CASE Goto(k, "again") \/ Goto(k, "info")
      <4>1. PICK pc \in {"again", "info"} : Goto(k, pc)
        BY <3>2
      <4> QED BY <2>1, <4>1, JobFitsAt
    <3>3. CASE Goto(k, "saved") /\ job[k].kind = "page"
      <4>1. PICK pc \in {"saved"} : Goto(k, pc)
        BY <3>3
      <4> QED BY <3>3, <4>1, JobFitsAt
    <3> QED BY <2>2, <3>1, <3>2, <3>3
  <2>4. job[k].kind = "page" => UNCHANGED <<cfg, allow, entries, unloaded>> \/ unloaded' = TRUE
    BY <1>6, Zenon DEF InfoFails, InfoArrives, UpdateAccountInfo, Wrote, pool, env
  <2>5. job[k].kind = "page" => ~JobOwes(k)
    BY <2>1 DEF JobOwes, Owing
  <2> QED BY <2>3, <2>4, <2>5, Zenon DEF Settled
<1>7. CASE RoundPunished(k) \/ RoundDisabled(k) \/ RoundDisabledReload(k) \/ RoundOverage(k)
           \/ RoundOverageReload(k) \/ RoundOverageCounts(k)
  <2>1. job[k].kind = "round"
    BY <1>7 DEF RoundPunished, RoundDisabled, RoundDisabledReload, RoundOverage,
                RoundOverageReload, RoundOverageCounts, RoundFails
  <2>2. Onward(k) \/ \E pc \in {"banned", "overage", "count"} : Goto(k, pc)
    BY <1>7 DEF RoundPunished, RoundDisabled, RoundDisabledReload, RoundOverage,
                RoundOverageReload, RoundOverageCounts, RoundFails
  <2> QED BY <2>1, <2>2, JobFitsAt, JobFitsOnward DEF Settled
<1>8. CASE apiUpdateSettings(k)
  <2>1. job[k] \in Jobs
    BY DEF TypeInv, JobInv
  <2>2. PICK q : job' = [job EXCEPT ![k] = q] /\ q.pc = "reload" /\ q.kind = "settings"
    <3> DEFINE q == [job[k] EXCEPT !.pc = "reload", !.kind = "settings"]
    <3>1. job' = [job EXCEPT ![k] = q] /\ q.pc = "reload" /\ q.kind = "settings"
      BY <1>8, <2>1 DEF apiUpdateSettings, Jobs
    <3> QED BY <3>1
  <2>3. Fits(q) /\ Owing(q)
    BY <2>2 DEF Fits, Owing
  <2> QED BY <2>2, <2>3, JobFits DEF Settled
<1> QED BY <1>1, <1>2, <1>3, <1>4, <1>5, <1>6, <1>7, <1>8 DEF JobStep

\* A step that settles what its process does, and leaves the debts of the other
\* processes alone, keeps the promise.
LEMMA SettledKeeps ==
  ASSUME PoolFollowsConfig, NEW owed, NEW owes, Settled(owed, owes),
         ReloadIsDue /\ ~owed => ReloadIsDue',
         owes => ReloadIsDue'
  PROVE  PoolFollowsConfig'
<1>1. CASE entries' = Listed(cfg', allow')
  BY <1>1 DEF PoolFollowsConfig
<1>2. CASE owes
  BY <1>2 DEF PoolFollowsConfig
<1>3. CASE unloaded' = TRUE
  BY <1>3, Zenon DEF PoolFollowsConfig
<1>4. CASE UNCHANGED <<cfg, allow, entries, unloaded>> /\ ~owed
  BY <1>4, Zenon DEF PoolFollowsConfig, Listed
<1> QED BY <1>1, <1>2, <1>3, <1>4, Zenon DEF Settled

LEMMA NextKeepsDebts == TypeInv /\ Debts /\ [Next]_vars => Debts'
<1> SUFFICES ASSUME TypeInv, Debts, [Next]_vars PROVE Debts'
  OBVIOUS
<1> USE DEF Debts
<1>1. CASE \E r \in Request : handleClaudeStream(r)
  <2>1. PICK r \in Request : handleClaudeStream(r)
    BY <1>1
  <2>2. UNCHANGED job /\ \A s \in Request : s # r => req'[s] = req[s]
    BY <2>1 DEF TypeInv, ReqInv, handleClaudeStream, BeginPick, Visit, Fallback, GiveUp, Served,
                EmptyReply, Punished, Disabled, DisabledReload, Overage, OverageReload,
                OverageCounts, NextAccount, Done, Take, Step, After
  <2>3. KindInv' /\ \A k \in Admin : JobOwes(k)' <=> JobOwes(k)
    BY <2>2, Zenon DEF KindInv, JobOwes
  <2>4. \A s \in Request : s # r => (HandlerOwes(s)' <=> HandlerOwes(s))
    BY <2>2, Zenon DEF HandlerOwes
  <2>5. ReloadIsDue /\ ~HandlerOwes(r) => ReloadIsDue'
    BY <2>3, <2>4, DebtsOf, Zenon
  <2>6. HandlerOwes(r)' => ReloadIsDue'
    BY DebtsOf, Zenon
  <2>7. PoolFollowsConfig'
    BY <2>1, <2>5, <2>6, HandlerSettles, SettledKeeps
  <2> QED BY <2>3, <2>7
<1>2. CASE \E k \in Admin : JobStep(k)
  <2>1. PICK k \in Admin : JobStep(k)
    BY <1>2
  <2>2. UNCHANGED req /\ \A l \in Admin : l # k => job'[l] = job[l]
    BY <2>1 DEF TypeInv, JobInv, JobStep, apiUpdateAccount, apiRefreshAccount, apiUpdateSettings,
                refreshAllAccounts,
                Begin, NextInRound, WriteEdit, InfoFails, InfoArrives, UpdateAccountInfo, Answer,
                RoundPunished, RoundDisabled, RoundDisabledReload, RoundOverage,
                RoundOverageReload, RoundOverageCounts, RoundFails, JobReload, Onward, Goto, End
  <2>3. \A l \in Admin : l # k => (JobOwes(l)' <=> JobOwes(l))
    BY <2>2, Zenon DEF JobOwes
  <2>4. \A s \in Request : HandlerOwes(s)' <=> HandlerOwes(s)
    BY <2>2, Zenon DEF HandlerOwes
  <2>5. ReloadIsDue /\ ~JobOwes(k) => ReloadIsDue'
    BY <2>3, <2>4, DebtsOf, Zenon
  <2>6. JobOwes(k)' => ReloadIsDue'
    BY DebtsOf, Zenon
  <2>7. PoolFollowsConfig'
    BY <2>1, <2>5, <2>6, JobSettles, SettledKeeps
  <2> QED BY <2>1, <2>7, JobSettles
<1>3. CASE Tick \/ UNCHANGED vars
  <2>1. UNCHANGED <<cfg, allow, entries, req, job, unloaded>>
    BY <1>3 DEF Tick, vars, pool, env, procs
  <2> QED BY <2>1, Zenon DEF PoolFollowsConfig, ReloadIsDue, JobAt, KindInv
<1> QED BY <1>1, <1>2, <1>3 DEF Next, JobStep

\* With any number of bans, edits and refreshes at once, the pool ends up with
\* the accounts of the configuration: whoever writes owes a Reload, and nobody
\* forgets it but the refresh page.
THEOREM PoolFollows == Spec => []PoolFollowsConfig
<1>1. Init => TypeInv /\ Debts
  BY InitTypeInv, InitDebts
<1>2. TypeInv /\ Debts /\ [Next]_vars => TypeInv' /\ Debts'
  BY NextKeepsTypes, NextKeepsDebts
<1>3. TypeInv /\ Debts => PoolFollowsConfig
  BY DEF Debts
<1> QED BY <1>1, <1>2, <1>3, PTL DEF Spec

-----------------------------------------------------------------------------
(* What a pick returns.                                                    *)

\* A handler that holds the read lock leaves the loop, or its fallback, by its
\* own step only.
LEMMA PickIsItsOwn ==
  ASSUME TypeInv, [Next]_vars, NEW r \in Request, req[r].pc = "scan", req'[r].pc # "scan"
  PROVE  Visit(r) \/ Fallback(r)
<1>1. CASE \E s \in Request : handleClaudeStream(s)
  <2>1. PICK s \in Request : handleClaudeStream(s)
    BY <1>1
  <2>2. s # r => req'[r] = req[r]
    BY <2>1 DEF TypeInv, ReqInv, handleClaudeStream, BeginPick, Visit, Fallback, GiveUp, Served,
                EmptyReply, Punished, Disabled, DisabledReload, Overage, OverageReload,
                OverageCounts, NextAccount, Done, Take, Step, After
  <2>3. s = r
    BY <2>2
  <2> QED BY <2>1, <2>3 DEF handleClaudeStream, BeginPick, GiveUp, Served, EmptyReply, Punished,
                Disabled, DisabledReload, Overage, OverageReload, OverageCounts, At
<1>2. CASE \E k \in Admin : JobStep(k)
  <2>1. UNCHANGED req
    BY <1>2 DEF JobStep, apiUpdateAccount, apiRefreshAccount, apiUpdateSettings, refreshAllAccounts, Begin,
                NextInRound, WriteEdit, InfoFails, InfoArrives, UpdateAccountInfo, Answer,
                RoundPunished, RoundDisabled, RoundDisabledReload, RoundOverage,
                RoundOverageReload, RoundOverageCounts, RoundFails, JobReload
  <2> QED BY <2>1
<1>3. CASE Tick \/ UNCHANGED vars
  BY <1>3 DEF Tick, vars, procs
<1> QED BY <1>1, <1>2, <1>3 DEF Next, JobStep

LEMMA TakenIs ==
  ASSUME TypeInv, NEW r \in Request, NEW a, Take(r, a)
  PROVE  req'[r].pc = "call" /\ req'[r].acc.id = a
BY DEF TypeInv, ReqInv, Take, Handlers

LEMMA PickGot ==
  ASSUME TypeInv, [Next]_vars, NEW r \in Request, At(r, "scan"), req'[r].pc = "call"
  PROVE  LET a == req'[r].acc.id
         IN  /\ a \in DOMAIN entries /\ Candidate(r, a)
             /\ Cooling(r, a) => \A b \in DOMAIN entries : Candidate(r, b) => Cooling(r, b)
<1>1. req[r].pc = "scan" /\ req'[r].pc = "call"
  BY DEF At
<1>2. CASE Visit(r)
  BY <1>2, TakenIs DEF Visit
<1>3. CASE Fallback(r)
  <2> DEFINE cands == {a \in DOMAIN entries : Candidate(r, a)}
  <2>1. ~Done(r)
    BY <1>1 DEF Done, Begun, TypeInv, ReqInv
  <2>2. PICK a \in cands :
          /\ \A b \in cands : cool[a] < cool[b] \/ (cool[a] = cool[b] /\ a <= b)
          /\ Take(r, a)
    BY <1>3, <2>1 DEF Fallback
  <2>3. /\ cool \in [Account -> Nat] /\ req[r].at \in Nat
        /\ DOMAIN entries \subseteq Account
    BY ListIs DEF TypeInv, PoolInv, ReqInv, Handlers
  <2>4. ASSUME Cooling(r, a), NEW b \in DOMAIN entries, Candidate(r, b)
        PROVE  Cooling(r, b)
    <3>1. cool[a] \in Nat /\ cool[b] \in Nat /\ cool[a] <= cool[b] /\ req[r].at < cool[a]
      BY <2>2, <2>3, <2>4 DEF Cooling
    <3> QED BY <2>3, <3>1 DEF Cooling
  <2> QED BY <2>2, <2>4, TakenIs
<1> QED BY <1>1, <1>2, <1>3, PickIsItsOwn

\* A request gets an account it has not tried, one over its quota only if the
\* setting allowed that when it began to look, and one that is cooling down only
\* if every account it could get is.
THEOREM CoolingIsLast == Spec => CoolingLastResort
<1>1. Init => TypeInv
  BY InitTypeInv
<1>2. TypeInv /\ [Next]_vars => TypeInv'
  BY NextKeepsTypes
<1>3. TypeInv /\ [Next]_vars =>
        [\A r \in Request : At(r, "scan") /\ req'[r].pc = "call" =>
           LET a == req'[r].acc.id
           IN  /\ a \in DOMAIN entries /\ Candidate(r, a)
               /\ Cooling(r, a) =>
                    \A b \in DOMAIN entries : Candidate(r, b) => Cooling(r, b)]_vars
  BY PickGot
<1> QED BY <1>1, <1>2, <1>3, PTL DEF Spec, CoolingLastResort

-----------------------------------------------------------------------------
(* PoolScan: the loop over the slots.                                      *)

(***************************************************************************)
(* What a picker has seen and what others took from it are together the    *)
(* slots of all values of the counter after some value f, unless it has    *)
(* overflowed; and it has moved the counter itself once for each draw.     *)
(***************************************************************************)
SlotPicker == [on: BOOLEAN, left: 0..Slots, seen: SUBSET {Owner[i] : i \in 0..Slots-1},
               taken: SUBSET (0..Slots-1), turned: BOOLEAN]

Known(q, i) == Owner[i] \in q.seen \/ i \in q.taken

Covers(q, f, last) ==
  /\ last - f >= Slots - q.left
  /\ \A v \in (f+1)..last : Known(q, v % Slots)

Covered(q, last) == q.on /\ ~q.turned => \E f \in 0..last : Covers(q, f, last)

ScanInv ==
  /\ currentIndex \in 0..Wrap-1
  /\ picker \in [Picker -> SlotPicker]
  /\ \A p \in Picker : Covered(picker[p], currentIndex)

LEMMA RemainderIs ==
  ASSUME NEW n \in Nat \ {0}, NEW i \in 0..n-1, NEW q \in Nat
  PROVE  (i + n * q) % n = i
OBVIOUS

\* Any n values in a row meet every remainder.
LEMMA EveryRemainder ==
  ASSUME NEW n \in Nat \ {0}, NEW f \in Nat, NEW i \in 0..n-1
  PROVE  \E v \in (f+1)..(f+n) : v % n = i
<1> DEFINE m == (f+1) % n
           q == (f+1) \div n
<1>1. m \in 0..n-1 /\ q \in Nat /\ f + 1 = n * q + m
  OBVIOUS
<1>2. CASE m <= i
  <2>1. (i + n * q) % n = i
    BY <1>1, RemainderIs
  <2>2. i + n * q \in (f+1)..(f+n)
    <3> DEFINE t == n * q
    <3>1. t \in Nat /\ f + 1 = t + m
      BY <1>1
    <3> HIDE DEF t, m
    <3>2. i + t \in (f+1)..(f+n)
      BY <1>1, <1>2, <3>1
    <3> QED BY <3>2 DEF t
  <2> QED BY <2>1, <2>2
<1>3. CASE m > i
  <2>1. q + 1 \in Nat /\ n * (q + 1) = n * q + n
    BY <1>1
  <2>2. (i + n * (q + 1)) % n = i
    BY <2>1, RemainderIs
  <2>3. i + n * (q + 1) \in (f+1)..(f+n)
    <3> DEFINE t == n * q
    <3>1. t \in Nat /\ f + 1 = t + m /\ n * (q + 1) = t + n
      BY <1>1, <2>1
    <3> HIDE DEF t, m
    <3>2. i + (t + n) \in (f+1)..(f+n)
      BY <1>1, <1>3, <3>1
    <3> QED BY <3>1, <3>2
  <2> QED BY <2>2, <2>3
<1> QED BY <1>1, <1>2, <1>3

\* The same by name, for a leaf that must not look into the remainder.
Meets(n, f, i) == \E v \in (f+1)..(f+n) : v % n = i

LEMMA EverySlotMet ==
  ASSUME NEW n \in Nat \ {0}, NEW f \in Nat, NEW i \in 0..n-1
  PROVE  Meets(n, f, i)
BY EveryRemainder DEF Meets

\* The counter's next value, unless it overflows.
LEMMA NextIndex ==
  ASSUME NEW c \in 0..Wrap-1
  PROVE  LET index == (c + 1) % Wrap
         IN  index \in 0..Wrap-1 /\ (index # 0 => index = c + 1) /\ index % Slots \in 0..Slots-1
<1>1. Wrap \in Nat \ {0} /\ Slots \in Nat \ {0}
  BY ScanAssumption
<1>2. CASE c + 1 = Wrap
  <2>1. (0 + Wrap * 1) % Wrap = 0
    BY <1>1, RemainderIs
  <2> QED BY <1>1, <1>2, <2>1
<1>3. CASE c + 1 # Wrap
  <2>1. c + 1 \in 0..Wrap-1
    BY <1>1, <1>3
  <2>2. (c + 1 + Wrap * 0) % Wrap = c + 1
    BY <1>1, <2>1, RemainderIs
  <2> QED BY <1>1, <2>1, <2>2
<1> QED BY <1>2, <1>3

\* A picker that notices one more slot, and has drawn it itself or not.
LEMMA CoveredGrows ==
  ASSUME NEW q \in SlotPicker, NEW w \in SlotPicker, NEW c \in 0..Wrap-1,
         NEW index \in 0..Wrap-1, index # 0 => index = c + 1,
         Covered(q, c),
         w.on => /\ q.on /\ q.seen \subseteq w.seen /\ q.taken \subseteq w.taken
                 /\ w.left \in {q.left, q.left - 1}
                 /\ Known(w, index % Slots)
                 /\ w.turned \/ (~q.turned /\ index # 0)
  PROVE  Covered(w, index)
<1> SUFFICES ASSUME w.on, ~w.turned PROVE \E f \in 0..index : Covers(w, f, index)
  BY DEF Covered
<1>1. PICK f \in 0..c : Covers(q, f, c)
  BY Zenon DEF Covered
<1>2. index = c + 1
  OBVIOUS
<1>3. index - f >= Slots - w.left
  BY <1>1, <1>2, ScanAssumption DEF Covers, SlotPicker
<1>4. ASSUME NEW v \in (f+1)..index PROVE Known(w, v % Slots)
  <2>1. CASE v = index
    BY <2>1
  <2>2. CASE v # index
    <3>1. v \in (f+1)..c
      BY <1>2, <2>2
    <3>2. Known(q, v % Slots)
      BY <1>1, <3>1 DEF Covers
    <3> QED BY <3>2 DEF Known
  <2> QED BY <2>1, <2>2
<1>5. f \in 0..index
  BY <1>2
<1> QED BY <1>3, <1>4, <1>5 DEF Covers

LEMMA AwayCovers == Away \in SlotPicker /\ ~Away.on
BY ScanAssumption DEF Away, SlotPicker

LEMMA DrawCovers ==
  ASSUME ScanInv, NEW p \in Picker, Draw(p)
  PROVE  ScanInv'
<1> DEFINE index == (currentIndex + 1) % Wrap
           acc   == Owner[index % Slots]
           mine  == picker[p]
           round == [mine EXCEPT !.left = @ - 1, !.seen = @ \cup {acc}, !.turned = @ \/ index = 0]
<1>1. /\ index \in 0..Wrap-1 /\ (index # 0 => index = currentIndex + 1)
      /\ index % Slots \in 0..Slots-1
  BY NextIndex DEF ScanInv
<1>2. mine \in SlotPicker /\ mine.on /\ mine.left > 0 /\ currentIndex' = index
  BY DEF Draw, ScanInv
<1>3. PICK next \in {round, Away} :
        picker' = [q \in Picker |-> IF q = p THEN next ELSE Notice(picker[q], index)]
  BY DEF Draw
<1>4. acc \in {Owner[i] : i \in 0..Slots-1}
  BY <1>1
<1> HIDE DEF index, acc
<1>5. round \in SlotPicker /\ round.on /\ mine.seen \subseteq round.seen
        /\ round.taken = mine.taken /\ round.left = mine.left - 1 /\ acc \in round.seen
        /\ (round.turned <=> (mine.turned \/ index = 0))
  <2>1. PICK t \in BOOLEAN : t = (mine.turned \/ index = 0)
    BY Zenon
  <2>2. round = [mine EXCEPT !.left = @ - 1, !.seen = @ \cup {acc}, !.turned = t]
    BY <2>1, Zenon
  <2> HIDE DEF round, mine
  <2>3. /\ round \in SlotPicker
        /\ round.on = mine.on /\ mine.seen \subseteq round.seen /\ round.taken = mine.taken
        /\ round.left = mine.left - 1 /\ acc \in round.seen /\ round.turned = t
    <3>1. mine.left - 1 \in 0..Slots
      BY <1>2, ScanAssumption DEF SlotPicker
    <3> QED BY <1>2, <1>4, <2>2, <3>1 DEF SlotPicker
  <2> QED BY <1>2, <2>1, <2>3, Zenon
<1> HIDE DEF round
<1>6. next \in SlotPicker /\ Covered(next, index)
  <2>1. CASE next = Away
    BY <2>1, AwayCovers, Zenon DEF Covered
  <2>2. CASE next = round
    <3>1. Known(round, index % Slots)
      BY <1>5 DEF Known, acc
    <3>2. Covered(mine, currentIndex) /\ currentIndex \in 0..Wrap-1
      BY DEF ScanInv
    <3>3. round.turned \/ (~mine.turned /\ index # 0)
      BY <1>5, Zenon
    <3> HIDE DEF mine
    <3>4. Covered(round, index)
      BY <1>1, <1>2, <1>5, <3>1, <3>2, <3>3, CoveredGrows
    <3> QED BY <1>5, <2>2, <3>4
  <2> QED BY <2>1, <2>2
<1>7. ASSUME NEW q \in Picker
      PROVE  Notice(picker[q], index) \in SlotPicker /\ Covered(Notice(picker[q], index), index)
  <2> DEFINE old == picker[q]
             w   == [old EXCEPT !.taken = @ \cup {index % Slots}, !.turned = @ \/ index = 0]
  <2>1. old \in SlotPicker /\ Covered(old, currentIndex) /\ currentIndex \in 0..Wrap-1
    BY DEF ScanInv
  <2> HIDE DEF old
  <2>2. CASE ~old.on
    <3>1. Notice(old, index) = old
      BY <2>2, Zenon DEF Notice
    <3> QED BY <2>1, <2>2, <3>1, Zenon DEF Covered, old
  <2>3. CASE old.on
    <3>1. Notice(old, index) = w
      BY <2>3, Zenon DEF Notice
    <3>2. w \in SlotPicker /\ w.on /\ w.seen = old.seen /\ old.taken \subseteq w.taken
            /\ w.left = old.left /\ index % Slots \in w.taken
            /\ (w.turned <=> (old.turned \/ index = 0))
      BY <1>1, <2>1, <2>3 DEF SlotPicker
    <3> HIDE DEF w
    <3>3. Known(w, index % Slots)
      BY <3>2 DEF Known
    <3>4. w.turned \/ (~old.turned /\ index # 0)
      BY <3>2, Zenon
    <3>5. Covered(w, index)
      BY <1>1, <2>1, <2>3, <3>2, <3>3, <3>4, CoveredGrows
    <3> QED BY <3>1, <3>2, <3>5 DEF old
  <2> QED BY <2>2, <2>3
<1>8. picker' \in [Picker -> SlotPicker]
  BY <1>3, <1>6, <1>7
<1>9. \A q \in Picker : Covered(picker'[q], index)
  BY <1>3, <1>6, <1>7
<1> QED BY <1>1, <1>2, <1>8, <1>9 DEF ScanInv

LEMMA ScanKeeps == ScanInv /\ [ScanNext]_scanVars => ScanInv'
<1> SUFFICES ASSUME ScanInv, [ScanNext]_scanVars PROVE ScanInv'
  OBVIOUS
<1>1. ASSUME NEW p \in Picker, BeginScan(p) PROVE ScanInv'
  <2> DEFINE w == Loop(Slots)
  <2>1. w \in SlotPicker /\ w.left = Slots
    BY ScanAssumption DEF Loop, SlotPicker
  <2>2. picker' = [picker EXCEPT ![p] = w] /\ currentIndex' = currentIndex
    BY <1>1 DEF BeginScan
  <2> HIDE DEF w
  <2>3. currentIndex \in 0..currentIndex /\ currentIndex - currentIndex >= Slots - w.left
    BY <2>1, ScanAssumption DEF ScanInv
  <2>4. \A v \in (currentIndex + 1)..currentIndex : Known(w, v % Slots)
    BY DEF ScanInv
  <2>5. Covered(w, currentIndex)
    BY <2>3, <2>4 DEF Covered, Covers
  <2> QED BY <2>1, <2>2, <2>5 DEF ScanInv
<1>2. ASSUME NEW p \in Picker, GoBack(p) PROVE ScanInv'
  <2>1. Covered(Away, currentIndex)
    BY AwayCovers, Zenon DEF Covered
  <2> QED BY <1>2, <2>1, AwayCovers DEF GoBack, ScanInv
<1>3. CASE UNCHANGED scanVars
  BY <1>3 DEF scanVars, ScanInv
<1> QED BY <1>1, <1>2, <1>3, DrawCovers DEF ScanNext

\* The types of the counter and of the loops.
THEOREM ScanTypeCorrect == ScanSpec => []ScanTypeOK
<1>1. ScanInit => ScanInv
  BY AwayCovers, ScanAssumption DEF ScanInit, ScanInv, Covered
<1>2. ScanInv => ScanTypeOK
  BY DEF ScanInv, ScanTypeOK, SlotPicker
<1> QED BY <1>1, <1>2, ScanKeeps, PTL DEF ScanSpec

\* Pickers that draw from one counter at once do not starve an account: one that
\* goes to the fallback has looked at the account of every slot, or another
\* picker drew that slot in the meantime, for any weights and any number of
\* pickers, unless the counter overflowed.
THEOREM PassedOver == ScanSpec => []PassedOverForATurn
<1>1. ScanInit => ScanInv
  BY AwayCovers, ScanAssumption DEF ScanInit, ScanInv, Covered
<1>2. ScanInv => PassedOverForATurn
  <2> SUFFICES ASSUME ScanInv, NEW p \in Picker, picker[p].on, picker[p].left = 0,
                      ~picker[p].turned, NEW i \in 0..Slots-1
               PROVE  Known(picker[p], i)
    BY Zenon DEF PassedOverForATurn, Known
  <2>1. PICK f \in 0..currentIndex : Covers(picker[p], f, currentIndex)
    BY DEF ScanInv, Covered
  <2>2. f \in Nat /\ f + Slots <= currentIndex /\ Slots \in Nat \ {0}
    BY <2>1, ScanAssumption DEF Covers, ScanInv
  <2>3. PICK v \in (f+1)..(f+Slots) : v % Slots = i
    <3>1. Meets(Slots, f, i)
      BY <2>2, EverySlotMet
    <3> QED BY <3>1 DEF Meets
  <2>4. v \in (f+1)..currentIndex
    BY <2>2, <2>3, ScanAssumption DEF ScanInv
  <2> QED BY <2>1, <2>3, <2>4 DEF Covers
<1> QED BY <1>1, <1>2, ScanKeeps, PTL DEF ScanSpec

-----------------------------------------------------------------------------
(* BackendPool: the types.                                                 *)

(***************************************************************************)
(* BackendTypeOK alone is not inductive: a request that holds an account   *)
(* holds a real one, and counts down its tries only when it has some left. *)
(***************************************************************************)
CallerType == [pc: RequestPc, acc: PoolAccount \cup {NoBackend},
               excluded: SUBSET PoolAccount, tries: Nat, gentle: BOOLEAN]
CheckerType == [pc: {"idle", "probe", "enable", "reload"},
                todo: SUBSET PoolAccount, acc: PoolAccount \cup {NoBackend}]

Busy == {"picked", "call", "disable", "reload", "release"}

Sound(c) == c.pc \in Busy => c.acc \in PoolAccount /\ c.tries > 0

CallerInv ==
  /\ caller \in [Caller -> CallerType]
  /\ \A r \in Caller : Sound(caller[r])

BackendInv ==
  /\ family \in {"grok", "codex"}
  /\ standing \in [PoolAccount -> Mode]
  /\ usage \in [PoolAccount -> {"room", "full", "due"}]
  /\ loaded \subseteq PoolAccount /\ cooling \subseteq PoolAccount
  /\ inFlight \in [PoolAccount -> Nat]
  /\ streak \in [PoolAccount -> 0..Threshold]
  /\ checker \in CheckerType
  /\ admin \in {"idle", "reload"}
  /\ troubles \in 0..MaxTrouble

BackendTypeInv == CallerInv /\ BackendInv

LEMMA TypeInvIsStronger == BackendTypeInv => BackendTypeOK
  BY DEF BackendTypeInv, CallerInv, BackendInv, BackendTypeOK, CallerType, CheckerType

LEMMA TypeInvInit == BackendInit => BackendTypeInv
<1> SUFFICES ASSUME BackendInit PROVE BackendTypeInv
  OBVIOUS
<1>1. CallerInv
  BY DEF BackendInit, CallerInv, CallerType, Sound, Busy, RequestPc
<1>2. BackendInv
  BY BackendAssumption DEF BackendInit, BackendInv, Mode, CheckerType
<1> QED BY <1>1, <1>2 DEF BackendTypeInv

-----------------------------------------------------------------------------
(* How one request changes.                                                *)

\* A request whose record stays well formed leaves all of them so.
LEMMA OneCaller ==
  ASSUME CallerInv, NEW r \in Caller, NEW c \in CallerType, Sound(c),
         caller' = [caller EXCEPT ![r] = c]
  PROVE  CallerInv'
  BY DEF CallerInv, Sound, Busy

\* What Proceed does, as a record.
LEMMA ProceedIs ==
  ASSUME CallerInv, NEW r \in Caller, NEW pc \in RequestPc, Proceed(r, pc),
         pc \in Busy => caller[r].pc \in Busy
  PROVE  CallerInv'
<1> DEFINE c == [caller[r] EXCEPT !.pc = pc]
<1>1. caller[r] \in CallerType /\ Sound(caller[r])
  BY DEF CallerInv
<1>2. c \in CallerType /\ Sound(c)
  BY <1>1 DEF CallerType, Sound
<1>3. caller' = [caller EXCEPT ![r] = c]
  BY DEF Proceed, CallerInv
<1> HIDE DEF c
<1> QED BY <1>2, <1>3, OneCaller

\* A request that begins, and one that has picked an account.
LEMMA BegunIs ==
  ASSUME NEW c \in CallerType, NEW n \in Nat, NEW pc \in {"failed", "pick"}
  PROVE  LET d == [c EXCEPT !.pc = pc, !.tries = n] IN d \in CallerType /\ Sound(d)
  BY DEF CallerType, Sound, Busy, RequestPc

LEMMA PickedIs ==
  ASSUME NEW c \in CallerType, c.tries # 0, NEW a \in PoolAccount, NEW g \in BOOLEAN
  PROVE  LET d == [c EXCEPT !.pc = "picked", !.acc = a, !.gentle = g] IN
         d \in CallerType /\ Sound(d)
<1> DEFINE Made(b) == [c EXCEPT !.pc = "picked", !.acc = a, !.gentle = b]
<1>0. c.tries > 0
  BY DEF CallerType
<1>1. Made(TRUE) \in CallerType /\ Made(FALSE) \in CallerType
  BY DEF CallerType, RequestPc
<1>2. Made(g) \in CallerType
  <2> HIDE DEF Made
  <2> QED BY <1>1, Zenon
<1>3. Made(g).acc = a /\ Made(g).tries = c.tries
  BY DEF CallerType
<1> QED BY <1>0, <1>2, <1>3, Zenon DEF Sound

\* After NextTry the request picks again and holds nothing.
LEMMA NextTryIs ==
  ASSUME CallerInv, NEW r \in Caller, caller[r].pc \in Busy,
         NEW out \in SUBSET PoolAccount, NextTry(r, out)
  PROVE  /\ CallerInv'
         /\ caller' = [caller EXCEPT ![r] =
              [caller[r] EXCEPT !.pc = "pick", !.tries = @ - 1, !.acc = NoBackend,
                                !.excluded = @ \cup out, !.gentle = FALSE]]
<1> DEFINE c == [caller[r] EXCEPT !.pc = "pick", !.tries = @ - 1, !.acc = NoBackend,
                                  !.excluded = @ \cup out, !.gentle = FALSE]
<1>1. caller[r] \in CallerType /\ Sound(caller[r])
  BY DEF CallerInv
<1>2. caller[r].tries - 1 \in Nat
  BY <1>1 DEF CallerType, Sound
<1>3. c \in CallerType /\ Sound(c)
  BY <1>1, <1>2 DEF CallerType, Sound, RequestPc, Busy
<1>4. caller' = [caller EXCEPT ![r] = c]
  BY DEF NextTry, CallerInv
<1> HIDE DEF c
<1>5. CallerInv'
  BY <1>3, <1>4, OneCaller
<1> QED BY <1>4, <1>5 DEF c

LEMMA CallerSame == CallerInv /\ UNCHANGED caller => CallerInv'
  BY DEF CallerInv, Sound

\* Counting a request in and out keeps the load a natural number.
LEMMA LoadType ==
  ASSUME BackendInv, NEW a, Acquire(a) \/ Release(a)
  PROVE  (inFlight \in [PoolAccount -> Nat])'
  BY DEF BackendInv, Acquire, Release

\* A write of the configuration keeps the type of standing.
LEMMA SetModeType ==
  ASSUME BackendInv, NEW a, NEW m \in Mode, SetMode(a, m)
  PROVE  (standing \in [PoolAccount -> Mode])'
  BY DEF BackendInv, SetMode

\* A streak that ends.
LEMMA StreakEnds ==
  ASSUME BackendInv, NEW a, streak' = [streak EXCEPT ![a] = 0]
  PROVE  (streak \in [PoolAccount -> 0..Threshold])'
<1>1. 0 \in 0..Threshold
  BY BackendAssumption
<1>2. streak \in [PoolAccount -> 0..Threshold]
  BY DEF BackendInv
<1> QED BY <1>1, <1>2

LEMMA ReloadType == BackendInv /\ ReloadBackends => (loaded \subseteq PoolAccount)'
  BY DEF BackendInv, ReloadBackends, Enabled

LEMMA TroubleType == BackendInv /\ Trouble => (troubles \in 0..MaxTrouble)'
  BY BackendAssumption DEF BackendInv, Trouble

-----------------------------------------------------------------------------
(* Every step keeps the types.                                             *)

LEMMA CallerStep ==
  ASSUME BackendTypeInv, NEW r \in Caller, GrokLoop(r) \/ CodexLoop(r)
  PROVE  CallerInv'
<1>0. CallerInv /\ caller[r] \in CallerType /\ Sound(caller[r]) /\ BackendInv
  BY DEF BackendTypeInv, CallerInv
<1>1. CASE BeginRequest(r)
  <2> DEFINE found == IF loaded = {} THEN Enabled ELSE loaded
             c == [caller[r] EXCEPT !.pc = IF found = {} THEN "failed" ELSE "pick",
                                    !.tries = Cardinality(found) + 2]
  <2>1. found \subseteq PoolAccount
    BY <1>0 DEF BackendInv, Enabled
  <2>2. Cardinality(found) \in Nat
    BY <2>1, BackendAssumption, FS_Subset, FS_CardinalityType
  <2>3. caller' = [caller EXCEPT ![r] = c]
    BY <1>1, <1>0 DEF BeginRequest, CallerInv
  <2>4. Cardinality(found) + 2 \in Nat
    BY <2>2
  <2>5. (IF found = {} THEN "failed" ELSE "pick") \in {"failed", "pick"}
    OBVIOUS
  <2> HIDE DEF found
  <2>6. c \in CallerType /\ Sound(c)
    BY ONLY <1>0, <2>4, <2>5, BegunIs, Zenon
  <2> HIDE DEF c
  <2> QED BY <1>0, <2>3, <2>6, OneCaller
<1>2. CASE Pick(r)
  <2>1. CASE caller' = [caller EXCEPT ![r].pc = "failed"]
    BY <2>1, <1>0, ProceedIs DEF Proceed, RequestPc, Busy
  <2>2. CASE ~(caller[r].tries = 0 \/ PickFrom(r) = {})
    <3>1. PICK a \in PickFrom(r) :
            caller' = [caller EXCEPT ![r].pc = "picked", ![r].acc = a,
                                     ![r].gentle = GentlePick(r) # {}]
      BY <1>2, <2>2 DEF Pick
    <3> DEFINE c == [caller[r] EXCEPT !.pc = "picked", !.acc = a,
                                      !.gentle = GentlePick(r) # {}]
    <3>2. a \in PoolAccount
      BY <1>0 DEF PickFrom, LeastLoaded, GentlePick, Open, BackendInv
    <3>3. caller' = [caller EXCEPT ![r] = c]
      BY <3>1, <1>0 DEF CallerInv
    <3>4. (GentlePick(r) # {}) \in BOOLEAN
      OBVIOUS
    <3>5. c \in CallerType /\ Sound(c)
      BY ONLY <1>0, <2>2, <3>2, <3>4, PickedIs, Zenon
    <3> HIDE DEF c
    <3> QED BY <1>0, <3>3, <3>5, OneCaller
  <2> QED BY <1>2, <2>1, <2>2 DEF Pick, Proceed
<1>3. CASE AcquirePicked(r)
  BY <1>0, <1>3, ProceedIs DEF AcquirePicked, RequestPc, Busy
<1>4. CASE PlainFailure(r)
  <2>1. {caller[r].acc} \in SUBSET PoolAccount
    BY <1>0, <1>4 DEF PlainFailure, Calling, Sound, Busy
  <2> QED BY <1>0, <1>4, <2>1, NextTryIs DEF PlainFailure, Calling, Busy
<1>5. CASE Unauthorized(r)
  <2>1. {caller[r].acc} \in SUBSET PoolAccount /\ {} \in SUBSET PoolAccount
    BY <1>0, <1>5 DEF Unauthorized, Calling, Sound, Busy
  <2> QED BY <1>0, <1>5, <2>1, NextTryIs DEF Unauthorized, Calling, Busy
<1>6. CASE DisableAccount(r)
  BY <1>0, <1>6, ProceedIs DEF DisableAccount, RequestPc, Busy
<1>7. CASE ReloadAfterDisable(r)
  <2>1. {caller[r].acc} \in SUBSET PoolAccount /\ caller[r].pc \in Busy
    BY <1>0, <1>7 DEF ReloadAfterDisable, Sound, Busy
  <2>2. CASE Proceed(r, "release")
    BY <1>0, <2>1, <2>2, ProceedIs DEF RequestPc
  <2>3. CASE NextTry(r, {caller[r].acc})
    BY <1>0, <2>1, <2>3, NextTryIs
  <2> QED BY <1>7, <2>2, <2>3 DEF ReloadAfterDisable
<1>8. CASE StopTrying(r)
  BY <1>0, <1>8, ProceedIs DEF StopTrying, RequestPc, Busy
<1>9. CASE Serve(r)
  BY <1>0, <1>9, ProceedIs DEF Serve, RequestPc, Busy
<1>10. CASE GrokQuota(r)
  <2>1. Proceed(r, "disable") \/ Proceed(r, "release")
    BY <1>10 DEF GrokQuota
  <2>2. caller[r].pc \in Busy
    BY <1>10 DEF GrokQuota, Calling, Busy
  <2> QED BY <1>0, <2>1, <2>2, ProceedIs DEF RequestPc
<1>11. CASE ReleaseAfterQuota(r)
  <2>1. {caller[r].acc} \in SUBSET PoolAccount /\ caller[r].pc \in Busy
    BY <1>0, <1>11 DEF ReleaseAfterQuota, Sound, Busy
  <2> QED BY <1>0, <1>11, <2>1, NextTryIs DEF ReleaseAfterQuota
<1>12. CASE CodexQuota(r)
  <2>1. {caller[r].acc} \in SUBSET PoolAccount /\ caller[r].pc \in Busy
    BY <1>0, <1>12 DEF CodexQuota, Calling, Sound, Busy
  <2>2. CASE Proceed(r, "disable")
    BY <1>0, <2>1, <2>2, ProceedIs DEF RequestPc
  <2>3. CASE NextTry(r, {caller[r].acc})
    BY <1>0, <2>1, <2>3, NextTryIs
  <2> QED BY <1>12, <2>2, <2>3 DEF CodexQuota
<1> QED BY <1>1, <1>2, <1>3, <1>4, <1>5, <1>6, <1>7, <1>8, <1>9, <1>10, <1>11, <1>12
        DEF GrokLoop, CodexLoop, AnyLoop

LEMMA PoolStepOfCaller ==
  ASSUME BackendTypeInv, NEW r \in Caller, GrokLoop(r) \/ CodexLoop(r)
  PROVE  BackendInv'
<1>0. CallerInv /\ BackendInv /\ caller[r] \in CallerType
  BY DEF BackendTypeInv, CallerInv
<1>1. ASSUME Calling(r) PROVE caller[r].acc \in PoolAccount
  BY <1>0, <1>1 DEF CallerInv, Calling, Sound, Busy
<1>2. CASE BeginRequest(r)
  BY <1>0, <1>2 DEF BeginRequest, BackendInv, Enabled
<1>3. CASE Pick(r)
  BY <1>0, <1>3 DEF Pick, BackendInv
<1>4. CASE AcquirePicked(r)
  <2>1. (inFlight \in [PoolAccount -> Nat])'
    BY <1>0, <1>4, LoadType DEF AcquirePicked
  <2> QED BY <1>0, <1>4, <2>1 DEF AcquirePicked, BackendInv
<1>5. CASE PlainFailure(r)
  <2>1. (inFlight \in [PoolAccount -> Nat])' /\ (troubles \in 0..MaxTrouble)'
    BY <1>0, <1>5, LoadType, TroubleType DEF PlainFailure
  <2> QED BY <1>0, <1>5, <2>1 DEF PlainFailure, BackendInv
<1>6. CASE Unauthorized(r)
  <2>1. (inFlight \in [PoolAccount -> Nat])' /\ (troubles \in 0..MaxTrouble)'
    BY <1>0, <1>6, LoadType, TroubleType DEF Unauthorized
  <2>2. (cooling \subseteq PoolAccount)'
    BY <1>0, <1>1, <1>6 DEF Unauthorized, BackendInv
  <2> QED BY <1>0, <1>6, <2>1, <2>2 DEF Unauthorized, BackendInv
<1>7. CASE DisableAccount(r)
  <2>1. (standing \in [PoolAccount -> Mode])'
    BY <1>0, <1>7, SetModeType DEF DisableAccount, Mode
  <2> QED BY <1>0, <1>7, <2>1 DEF DisableAccount, BackendInv
<1>8. CASE ReloadAfterDisable(r)
  <2>1. (loaded \subseteq PoolAccount)'
    BY <1>0, <1>8, ReloadType DEF ReloadAfterDisable
  <2>2. (streak \in [PoolAccount -> 0..Threshold])'
    BY <1>0, <1>8, BackendAssumption DEF ReloadAfterDisable, BackendInv
  <2> QED BY <1>0, <1>8, <2>1, <2>2 DEF ReloadAfterDisable, BackendInv
<1>9. CASE StopTrying(r)
  <2>1. (inFlight \in [PoolAccount -> Nat])' /\ (troubles \in 0..MaxTrouble)'
    BY <1>0, <1>9, LoadType, TroubleType DEF StopTrying
  <2> QED BY <1>0, <1>9, <2>1 DEF StopTrying, BackendInv
<1>10. CASE Serve(r)
  <2>1. (inFlight \in [PoolAccount -> Nat])'
    BY <1>0, <1>10, LoadType DEF Serve
  <2>2. (streak \in [PoolAccount -> 0..Threshold])'
    BY <1>0, <1>10, StreakEnds DEF Serve
  <2>3. (cooling \subseteq PoolAccount)'
    BY <1>0, <1>1, <1>10 DEF Serve, ReadHeaders, BackendInv
  <2>4. (usage \in [PoolAccount -> {"room", "full", "due"}])'
    BY <1>0, <1>10 DEF Serve, ReadHeaders, BackendInv
  <2> QED BY <1>0, <1>10, <2>1, <2>2, <2>3, <2>4 DEF Serve, ReadHeaders, BackendInv
<1>11. CASE GrokQuota(r)
  <2>1. (troubles \in 0..MaxTrouble)'
    BY <1>0, <1>11, TroubleType DEF GrokQuota
  <2>2. (streak \in [PoolAccount -> 0..Threshold])'
    <3> DEFINE a == caller[r].acc
               v == IF streak[a] < Threshold THEN streak[a] + 1 ELSE streak[a]
    <3>1. a \in PoolAccount /\ streak \in [PoolAccount -> 0..Threshold]
      BY <1>0, <1>1, <1>11 DEF GrokQuota, BackendInv
    <3>2. v \in 0..Threshold
      BY <3>1, BackendAssumption
    <3>3. streak' = [streak EXCEPT ![a] = v]
      BY <1>11, <3>1 DEF GrokQuota
    <3> HIDE DEF v, a
    <3> QED BY <3>1, <3>2, <3>3
  <2>3. (cooling \subseteq PoolAccount)'
    BY <1>0, <1>1, <1>11 DEF GrokQuota, BackendInv
  <2> QED BY <1>0, <1>11, <2>1, <2>2, <2>3 DEF GrokQuota, BackendInv
<1>12. CASE ReleaseAfterQuota(r)
  <2>1. (inFlight \in [PoolAccount -> Nat])'
    BY <1>0, <1>12, LoadType DEF ReleaseAfterQuota
  <2> QED BY <1>0, <1>12, <2>1 DEF ReleaseAfterQuota, BackendInv
<1>13. CASE CodexQuota(r)
  <2>1. (inFlight \in [PoolAccount -> Nat])' /\ (troubles \in 0..MaxTrouble)'
    BY <1>0, <1>13, LoadType, TroubleType DEF CodexQuota
  <2>2. (cooling \subseteq PoolAccount)'
    BY <1>0, <1>1, <1>13 DEF CodexQuota, ReadHeaders, BackendInv
  <2>3. (usage \in [PoolAccount -> {"room", "full", "due"}])'
    BY <1>0, <1>13 DEF CodexQuota, ReadHeaders, BackendInv
  <2> QED BY <1>0, <1>13, <2>1, <2>2, <2>3 DEF CodexQuota, ReadHeaders, BackendInv
<1> QED BY <1>2, <1>3, <1>4, <1>5, <1>6, <1>7, <1>8, <1>9, <1>10, <1>11, <1>12, <1>13
        DEF GrokLoop, CodexLoop, AnyLoop

LEMMA PoolStepOfChecker ==
  ASSUME BackendTypeInv, CheckerStep
  PROVE  BackendInv' /\ UNCHANGED caller
<1>0. BackendInv
  BY DEF BackendTypeInv
<1>1. CASE BeginCheck
  BY <1>0, <1>1 DEF BeginCheck, BackendInv, CheckerType, MayBeBack
<1>2. CASE ProbeDisabled
  <2>1. (usage \in [PoolAccount -> {"room", "full", "due"}])'
    BY <1>0, <1>2 DEF ProbeDisabled, BackendInv
  <2>2. (checker \in CheckerType)'
    <3>1. PICK a \in checker.todo :
            \/ checker' = [pc |-> "enable", acc |-> a, todo |-> checker.todo \ {a}]
            \/ checker' = [checker EXCEPT !.todo = @ \ {a},
                             !.pc = IF checker.todo = {a} THEN "idle" ELSE @]
      BY <1>2 DEF ProbeDisabled
    <3>2. checker \in CheckerType /\ a \in PoolAccount
      BY <1>0 DEF BackendInv, CheckerType
    <3>3. CASE checker' = [pc |-> "enable", acc |-> a, todo |-> checker.todo \ {a}]
      BY <3>2, <3>3 DEF CheckerType
    <3>4. CASE checker' = [checker EXCEPT !.todo = @ \ {a},
                            !.pc = IF checker.todo = {a} THEN "idle" ELSE @]
      BY <3>2, <3>4 DEF CheckerType
    <3> QED BY <3>1, <3>3, <3>4
  <2> QED BY <1>0, <1>2, <2>1, <2>2 DEF ProbeDisabled, BackendInv
<1>3. CASE EnableAgain
  <2>1. (standing \in [PoolAccount -> Mode])'
    BY <1>0, <1>3, SetModeType DEF EnableAgain, Mode
  <2>2. (checker \in CheckerType)'
    BY <1>0, <1>3 DEF EnableAgain, BackendInv, CheckerType
  <2> QED BY <1>0, <1>3, <2>1, <2>2 DEF EnableAgain, BackendInv
<1>4. CASE ReloadAfterEnable
  <2>1. (loaded \subseteq PoolAccount)'
    BY <1>0, <1>4, ReloadType DEF ReloadAfterEnable
  <2>2. (checker \in CheckerType)'
    BY <1>0, <1>4 DEF ReloadAfterEnable, BackendInv, CheckerType
  <2> QED BY <1>0, <1>4, <2>1, <2>2 DEF ReloadAfterEnable, BackendInv
<1> QED BY <1>1, <1>2, <1>3, <1>4
        DEF CheckerStep, BeginCheck, ProbeDisabled, EnableAgain, ReloadAfterEnable

LEMMA PoolStepOfAdmin ==
  ASSUME BackendTypeInv, AdminStep
  PROVE  BackendInv' /\ UNCHANGED caller
<1>0. BackendInv
  BY DEF BackendTypeInv
<1>1. ASSUME Edit PROVE (troubles \in 0..MaxTrouble)' /\ admin' = "reload"
  BY <1>0, <1>1, TroubleType DEF Edit
<1>2. ASSUME NEW a \in PoolAccount, apiSetAccountEnabled(a)
      PROVE  BackendInv' /\ UNCHANGED caller
  <2>1. (standing \in [PoolAccount -> Mode])'
    BY <1>0, <1>2, SetModeType DEF apiSetAccountEnabled, Mode
  <2> QED BY <1>0, <1>1, <1>2, <2>1 DEF apiSetAccountEnabled, BackendInv
<1>3. ASSUME NEW a \in PoolAccount, apiDeleteAccount(a)
      PROVE  BackendInv' /\ UNCHANGED caller
  BY <1>0, <1>1, <1>3 DEF apiDeleteAccount, BackendInv, Mode
<1>4. ASSUME NEW a \in PoolAccount, apiAddAccount(a)
      PROVE  BackendInv' /\ UNCHANGED caller
  BY <1>0, <1>1, <1>4 DEF apiAddAccount, BackendInv, Mode
<1>5. ASSUME NEW a \in PoolAccount, apiPatchAccount(a)
      PROVE  BackendInv' /\ UNCHANGED caller
  BY <1>0, <1>1, <1>5 DEF apiPatchAccount, BackendInv
<1>6. CASE apiRefreshQuota
  BY <1>0, <1>1, <1>6 DEF apiRefreshQuota, BackendInv
<1>7. CASE ReloadAfterEdit
  <2>1. (loaded \subseteq PoolAccount)'
    BY <1>0, <1>7, ReloadType DEF ReloadAfterEdit
  <2> QED BY <1>0, <1>7, <2>1 DEF ReloadAfterEdit, BackendInv
<1> QED BY <1>2, <1>3, <1>4, <1>5, <1>6, <1>7 DEF AdminStep

LEMMA PoolStepOfTime ==
  ASSUME BackendTypeInv, CooldownRunsOut \/ HelloEndsCooldown \/ WindowResets
  PROVE  BackendInv' /\ UNCHANGED caller
  BY DEF BackendTypeInv, BackendInv, CooldownRunsOut, HelloEndsCooldown, EndCooldown, WindowResets

LEMMA TypeStep ==
  ASSUME BackendTypeInv, [BackendNext]_backendVars
  PROVE  BackendTypeInv'
<1>1. ASSUME NEW r \in Caller, GrokLoop(r) \/ CodexLoop(r) PROVE BackendTypeInv'
  BY <1>1, CallerStep, PoolStepOfCaller DEF BackendTypeInv
<1>2. CASE CheckerStep \/ AdminStep \/ CooldownRunsOut \/ HelloEndsCooldown \/ WindowResets
  BY <1>2, PoolStepOfChecker, PoolStepOfAdmin, PoolStepOfTime, CallerSame DEF BackendTypeInv
<1>3. CASE UNCHANGED backendVars
  BY <1>3, CallerSame DEF BackendTypeInv, BackendInv, backendVars
<1> QED BY <1>1, <1>2, <1>3 DEF BackendNext

\* The pool, the configuration, the requests and the checker keep their types,
\* for any accounts, requests and bounds: in particular the tries left (a number
\* of accounts plus two, counted down) never fall below zero.
THEOREM BackendTypeCorrect == BackendSpec => []BackendTypeOK
<1>1. BackendSpec => []BackendTypeInv
  BY TypeInvInit, TypeStep, PTL DEF BackendSpec
<1> QED BY <1>1, TypeInvIsStronger, PTL
-----------------------------------------------------------------------------
(* What a step of a request does to the requests, in the words of the      *)
(* properties.                                                             *)

OthersSame(r) == \A x \in Caller \ {r} : caller'[x] = caller[x]

LEMMA AfterProceed ==
  ASSUME CallerInv, NEW r \in Caller, NEW pc, Proceed(r, pc)
  PROVE  /\ caller'[r].pc = pc /\ caller'[r].acc = caller[r].acc
         /\ OthersSame(r)
  BY DEF CallerInv, CallerType, Proceed, OthersSame

LEMMA AfterNextTry ==
  ASSUME CallerInv, NEW r \in Caller, NEW out, NextTry(r, out)
  PROVE  caller'[r].pc = "pick" /\ OthersSame(r)
  BY DEF CallerInv, CallerType, NextTry, OthersSame

LEMMA AfterBegin ==
  ASSUME CallerInv, NEW r \in Caller, BeginRequest(r)
  PROVE  /\ caller[r].pc = "begin" /\ caller'[r].pc \in {"failed", "pick"}
         /\ OthersSame(r)
  BY DEF CallerInv, CallerType, BeginRequest, OthersSame

LEMMA AfterPick ==
  ASSUME CallerInv, NEW r \in Caller, Pick(r)
  PROVE  /\ caller[r].pc = "pick" /\ caller'[r].pc \in {"failed", "picked"}
         /\ OthersSame(r)
<1>1. CASE Proceed(r, "failed")
  BY <1>1, AfterProceed DEF Pick
<1>2. ASSUME NEW a, NEW g,
             caller' = [caller EXCEPT ![r].pc = "picked", ![r].acc = a, ![r].gentle = g]
      PROVE  caller'[r].pc = "picked" /\ OthersSame(r)
  BY <1>2 DEF CallerInv, CallerType, OthersSame
<1> QED BY <1>1, <1>2 DEF Pick

-----------------------------------------------------------------------------
(* The pool follows the configuration.                                     *)

LEMMA EnabledSame == UNCHANGED standing => Enabled' = Enabled
  BY DEF Enabled

\* A step of a request that owes no reload keeps what others owe.
LEMMA DebtIsKept ==
  ASSUME PoolIsEnabled, NEW r \in Caller, caller[r].pc # "reload", OthersSame(r),
         UNCHANGED <<standing, loaded, checker, admin>>
  PROVE  PoolIsEnabled'
<1>1. Enabled' = Enabled
  BY EnabledSame
<1>2. (\E x \in Caller : caller[x].pc = "reload") =>
        \E x \in Caller : caller'[x].pc = "reload"
  BY DEF OthersSame
<1> QED BY <1>1, <1>2 DEF PoolIsEnabled

LEMMA ReloadSettles ==
  ASSUME ReloadBackends, UNCHANGED standing
  PROVE  PoolIsEnabled'
  BY EnabledSame DEF ReloadBackends, PoolIsEnabled

LEMMA CallerSettles ==
  ASSUME BackendTypeInv, PoolIsEnabled, NEW r \in Caller, GrokLoop(r) \/ CodexLoop(r)
  PROVE  PoolIsEnabled'
<1>0. CallerInv
  BY DEF BackendTypeInv
<1>1. CASE BeginRequest(r)
  <2>1. CASE loaded # {}
    BY <1>0, <1>1, <2>1, AfterBegin, DebtIsKept DEF BeginRequest
  <2>2. CASE loaded = {}
    <3>1. ReloadBackends /\ UNCHANGED standing
      BY <1>1, <2>2 DEF BeginRequest, ReloadBackends
    <3> QED BY <3>1, ReloadSettles
  <2> QED BY <2>1, <2>2
<1>2. CASE Pick(r)
  BY <1>0, <1>2, AfterPick, DebtIsKept DEF Pick
<1>3. CASE AcquirePicked(r)
  BY <1>0, <1>3, AfterProceed, DebtIsKept DEF AcquirePicked
<1>4. CASE PlainFailure(r)
  BY <1>0, <1>4, AfterNextTry, DebtIsKept DEF PlainFailure, Calling
<1>5. CASE Unauthorized(r)
  BY <1>0, <1>5, AfterNextTry, DebtIsKept DEF Unauthorized, Calling
<1>6. CASE DisableAccount(r)
  BY <1>0, <1>6, AfterProceed DEF DisableAccount, PoolIsEnabled
<1>7. CASE ReloadAfterDisable(r)
  BY <1>7, ReloadSettles DEF ReloadAfterDisable
<1>8. CASE StopTrying(r)
  BY <1>0, <1>8, AfterProceed, DebtIsKept DEF StopTrying, Calling
<1>9. CASE Serve(r)
  BY <1>0, <1>9, AfterProceed, DebtIsKept DEF Serve, Calling
<1>10. CASE GrokQuota(r)
  BY <1>0, <1>10, AfterProceed, DebtIsKept DEF GrokQuota, Calling
<1>11. CASE ReleaseAfterQuota(r)
  BY <1>0, <1>11, AfterNextTry, DebtIsKept DEF ReleaseAfterQuota
<1>12. CASE CodexQuota(r)
  BY <1>0, <1>12, AfterProceed, AfterNextTry, DebtIsKept DEF CodexQuota, Calling
<1> QED BY <1>1, <1>2, <1>3, <1>4, <1>5, <1>6, <1>7, <1>8, <1>9, <1>10, <1>11, <1>12
        DEF GrokLoop, CodexLoop, AnyLoop

LEMMA CheckerSettles ==
  ASSUME BackendTypeInv, PoolIsEnabled, CheckerStep
  PROVE  PoolIsEnabled'
<1>1. checker \in CheckerType
  BY DEF BackendTypeInv, BackendInv
<1>2. CASE BeginCheck
  BY <1>2, EnabledSame DEF BeginCheck, PoolIsEnabled
<1>3. CASE ProbeDisabled
  BY <1>3, EnabledSame DEF ProbeDisabled, PoolIsEnabled
<1>4. CASE EnableAgain
  BY <1>1, <1>4 DEF EnableAgain, PoolIsEnabled, CheckerType
<1>5. CASE ReloadAfterEnable
  BY <1>5, ReloadSettles DEF ReloadAfterEnable
<1> QED BY <1>2, <1>3, <1>4, <1>5 DEF CheckerStep

LEMMA AdminSettles ==
  ASSUME AdminStep
  PROVE  PoolIsEnabled'
<1>1. CASE Edit
  BY <1>1 DEF Edit, PoolIsEnabled
<1>2. CASE ReloadAfterEdit
  BY <1>2, ReloadSettles DEF ReloadAfterEdit
<1> QED BY <1>1, <1>2 DEF AdminStep, apiSetAccountEnabled, apiDeleteAccount,
                          apiAddAccount, apiPatchAccount, apiRefreshQuota

LEMMA EnabledStep ==
  ASSUME BackendTypeInv, PoolIsEnabled, [BackendNext]_backendVars
  PROVE  PoolIsEnabled'
<1>1. CASE CooldownRunsOut \/ HelloEndsCooldown \/ WindowResets \/ UNCHANGED backendVars
  BY <1>1, EnabledSame DEF CooldownRunsOut, HelloEndsCooldown, EndCooldown, WindowResets,
                           backendVars, PoolIsEnabled
<1> QED BY <1>1, CallerSettles, CheckerSettles, AdminSettles DEF BackendNext

\* Whoever writes Enabled of an account, a request that switches it off, the
\* checker that finds it well, or the administrator, the pool is what the
\* configuration says as soon as nobody owes a reload; in particular a request
\* that finds the pool empty and fills it leaves nobody behind.
THEOREM BackendFollows == BackendSpec => []PoolIsEnabled
<1>1. BackendInit => PoolIsEnabled
  BY DEF BackendInit, PoolIsEnabled, Enabled
<1>2. BackendSpec => []BackendTypeInv
  BY TypeInvInit, TypeStep, PTL DEF BackendSpec
<1> QED BY <1>1, <1>2, EnabledStep, PTL DEF BackendSpec

-----------------------------------------------------------------------------
(* The load of an account is the number of requests that hold it.          *)

Holders(a) == {r \in Caller : Holds(r, a)}

LEMMA HoldersFinite == \A a : IsFiniteSet(Holders(a)) /\ Cardinality(Holders(a)) \in Nat
  BY BackendAssumption, FS_Subset, FS_CardinalityType DEF Holders

\* What others hold stays theirs.
LEMMA OthersHold ==
  ASSUME NEW r \in Caller, OthersSame(r), UNCHANGED family, NEW a
  PROVE  Holders(a)' \ {r} = Holders(a) \ {r}
  BY DEF Holders, Holds, OthersSame

LEMMA NothingHeld ==
  ASSUME LoadIsExact, NEW r \in Caller, OthersSame(r), UNCHANGED <<family, inFlight>>,
         \A a \in PoolAccount : Holds(r, a)' <=> Holds(r, a)
  PROVE  LoadIsExact'
<1>1. ASSUME NEW a \in PoolAccount PROVE Holders(a)' = Holders(a)
  BY OthersHold DEF Holders
<1> QED BY <1>1 DEF LoadIsExact, Holders

LEMMA OneTaken ==
  ASSUME BackendInv, LoadIsExact, NEW r \in Caller, OthersSame(r), UNCHANGED family,
         NEW b \in PoolAccount, Acquire(b),
         \A a \in PoolAccount : ~Holds(r, a) /\ (Holds(r, a)' <=> a = b)
  PROVE  LoadIsExact'
<1> SUFFICES ASSUME NEW a \in PoolAccount
             PROVE  inFlight'[a] = Cardinality(Holders(a)')
  BY DEF LoadIsExact, Holders
<1>1. inFlight[a] = Cardinality(Holders(a)) /\ inFlight \in [PoolAccount -> Nat]
  BY DEF LoadIsExact, Holders, BackendInv
<1>2. CASE a = b
  <2>1. Holders(a)' = Holders(a) \cup {r} /\ r \notin Holders(a)
    BY <1>2, OthersHold DEF Holders
  <2>2. Cardinality(Holders(a)') = Cardinality(Holders(a)) + 1
    BY <2>1, HoldersFinite, FS_AddElement
  <2> QED BY <1>1, <1>2, <2>2 DEF Acquire
<1>3. CASE a # b
  <2>1. Holders(a)' = Holders(a)
    BY <1>3, OthersHold DEF Holders
  <2> QED BY <1>1, <1>3, <2>1 DEF Acquire
<1> QED BY <1>2, <1>3

LEMMA OneGivenBack ==
  ASSUME BackendInv, LoadIsExact, NEW r \in Caller, OthersSame(r), UNCHANGED family,
         NEW b \in PoolAccount, Release(b),
         \A a \in PoolAccount : (Holds(r, a) <=> a = b) /\ ~Holds(r, a)'
  PROVE  LoadIsExact'
<1> SUFFICES ASSUME NEW a \in PoolAccount
             PROVE  inFlight'[a] = Cardinality(Holders(a)')
  BY DEF LoadIsExact, Holders
<1>1. inFlight[a] = Cardinality(Holders(a)) /\ inFlight \in [PoolAccount -> Nat]
  BY DEF LoadIsExact, Holders, BackendInv
<1>2. CASE a = b
  <2>1. Holders(a)' = Holders(a) \ {r} /\ r \in Holders(a)
    BY <1>2, OthersHold DEF Holders
  <2>2. /\ IsFiniteSet(Holders(a)')
        /\ Cardinality(Holders(a)') = Cardinality(Holders(a)) - 1
    BY <2>1, HoldersFinite, FS_RemoveElement
  <2>3. Cardinality(Holders(a)') \in Nat
    BY <2>2, FS_CardinalityType
  <2> QED BY <1>1, <1>2, <2>2, <2>3 DEF Release
<1>3. CASE a # b
  <2>1. Holders(a)' = Holders(a)
    BY <1>3, OthersHold DEF Holders
  <2> QED BY <1>1, <1>3, <2>1 DEF Release
<1> QED BY <1>2, <1>3

\* A request that gives its account back after the call and holds nothing then.
LEMMA CallEnds ==
  ASSUME BackendTypeInv, LoadIsExact, NEW r \in Caller, OthersSame(r), UNCHANGED family,
         caller[r].pc = "call", Release(caller[r].acc),
         \/ caller'[r].pc \in {"pick", "done", "failed"}
         \/ family = "codex" /\ caller'[r].pc = "disable"
  PROVE  LoadIsExact'
<1>1. caller[r].acc \in PoolAccount
  BY DEF BackendTypeInv, CallerInv, Sound, Busy
<1>2. \A a \in PoolAccount : (Holds(r, a) <=> a = caller[r].acc) /\ ~Holds(r, a)'
  BY DEF Holds
<1> QED BY <1>1, <1>2, OneGivenBack DEF BackendTypeInv

LEMMA CallerCounts ==
  ASSUME BackendTypeInv, LoadIsExact, NEW r \in Caller, GrokLoop(r) \/ CodexLoop(r)
  PROVE  LoadIsExact'
<1>0. CallerInv /\ BackendInv
  BY DEF BackendTypeInv
<1>1. CASE BeginRequest(r)
  BY <1>0, <1>1, AfterBegin, NothingHeld DEF BeginRequest, Holds
<1>2. CASE Pick(r)
  BY <1>0, <1>2, AfterPick, NothingHeld DEF Pick, Holds
<1>3. CASE AcquirePicked(r)
  <2>1. caller[r].pc = "picked" /\ UNCHANGED family /\ Acquire(caller[r].acc)
    BY <1>3 DEF AcquirePicked
  <2>2. caller'[r].pc = "call" /\ caller'[r].acc = caller[r].acc /\ OthersSame(r)
    BY <1>0, <1>3, AfterProceed DEF AcquirePicked
  <2>3. caller[r].acc \in PoolAccount
    BY <1>0, <2>1 DEF CallerInv, Sound, Busy
  <2>4. \A a \in PoolAccount : ~Holds(r, a) /\ (Holds(r, a)' <=> a = caller[r].acc)
    BY <2>1, <2>2 DEF Holds
  <2> QED BY <1>0, <2>1, <2>2, <2>3, <2>4, OneTaken
<1>4. CASE PlainFailure(r)
  BY <1>0, <1>4, AfterNextTry, CallEnds DEF PlainFailure, Calling
<1>5. CASE Unauthorized(r)
  BY <1>0, <1>5, AfterNextTry, CallEnds DEF Unauthorized, Calling
<1>6. CASE DisableAccount(r)
  BY <1>0, <1>6, AfterProceed, NothingHeld DEF DisableAccount, Holds
<1>7. CASE ReloadAfterDisable(r)
  <2>1. CASE family = "grok"
    BY <1>0, <1>7, <2>1, AfterProceed, NothingHeld DEF ReloadAfterDisable, Holds
  <2>2. CASE family # "grok"
    BY <1>0, <1>7, <2>2, AfterNextTry, NothingHeld DEF ReloadAfterDisable, Holds
  <2> QED BY <2>1, <2>2
<1>8. CASE StopTrying(r)
  BY <1>0, <1>8, AfterProceed, CallEnds DEF StopTrying, Calling
<1>9. CASE Serve(r)
  BY <1>0, <1>9, AfterProceed, CallEnds DEF Serve, Calling
<1>10. CASE family = "grok" /\ GrokQuota(r)
  <2>1. /\ caller[r].pc = "call" /\ caller'[r].pc \in {"disable", "release"}
        /\ caller'[r].acc = caller[r].acc /\ OthersSame(r)
    BY <1>0, <1>10, AfterProceed DEF GrokQuota, Calling
  <2>2. \A a \in PoolAccount : Holds(r, a)' <=> Holds(r, a)
    BY <1>10, <2>1 DEF GrokQuota, Holds
  <2> QED BY <1>10, <2>1, <2>2, NothingHeld DEF GrokQuota
<1>11. CASE family = "grok" /\ ReleaseAfterQuota(r)
  <2>1. /\ caller[r].pc = "release" /\ caller'[r].pc = "pick" /\ OthersSame(r)
        /\ Release(caller[r].acc) /\ UNCHANGED family
    BY <1>0, <1>11, AfterNextTry DEF ReleaseAfterQuota
  <2>2. caller[r].acc \in PoolAccount
    BY <1>0, <2>1 DEF CallerInv, Sound, Busy
  <2>3. \A a \in PoolAccount : (Holds(r, a) <=> a = caller[r].acc) /\ ~Holds(r, a)'
    BY <2>1 DEF Holds
  <2> QED BY <1>0, <2>1, <2>2, <2>3, OneGivenBack
<1>12. CASE family = "codex" /\ CodexQuota(r)
  BY <1>0, <1>12, AfterProceed, AfterNextTry, CallEnds DEF CodexQuota, Calling
<1> QED BY <1>1, <1>2, <1>3, <1>4, <1>5, <1>6, <1>7, <1>8, <1>9, <1>10, <1>11, <1>12
        DEF GrokLoop, CodexLoop, AnyLoop

LEMMA CountStep ==
  ASSUME BackendTypeInv, LoadIsExact, [BackendNext]_backendVars
  PROVE  LoadIsExact'
<1>1. CASE UNCHANGED <<family, inFlight, caller>>
  BY <1>1 DEF LoadIsExact, Holds
<1>2. CASE CheckerStep \/ AdminStep
  <2>1. UNCHANGED <<family, inFlight, caller>>
    BY <1>2 DEF CheckerStep, BeginCheck, ProbeDisabled, EnableAgain, ReloadAfterEnable,
                AdminStep, apiSetAccountEnabled, apiDeleteAccount, apiAddAccount,
                apiPatchAccount, apiRefreshQuota, ReloadAfterEdit
  <2> QED BY <1>1, <2>1
<1>3. CASE CooldownRunsOut \/ HelloEndsCooldown \/ WindowResets \/ UNCHANGED backendVars
  BY <1>1, <1>3 DEF CooldownRunsOut, HelloEndsCooldown, EndCooldown, WindowResets, backendVars
<1> QED BY <1>2, <1>3, CallerCounts DEF BackendNext

\* The load by which the pools choose is exact for any number of requests at
\* once: every way through the loops gives an account back once, and the lower
\* bound of zero in Release never hides a missing count.
THEOREM LoadCounts == BackendSpec => []LoadIsExact
<1>1. BackendInit => LoadIsExact
  <2> SUFFICES ASSUME BackendInit, NEW a \in PoolAccount
               PROVE  inFlight[a] = Cardinality(Holders(a))
    BY DEF LoadIsExact, Holders
  <2>1. Holders(a) = {}
    BY DEF BackendInit, Holders, Holds
  <2> QED BY <2>1, FS_EmptySet DEF BackendInit
<1>2. BackendSpec => []BackendTypeInv
  BY TypeInvInit, TypeStep, PTL DEF BackendSpec
<1> QED BY <1>1, <1>2, CountStep, PTL DEF BackendSpec
=============================================================================
