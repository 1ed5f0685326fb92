---------------------------- MODULE AccountPool ----------------------------
(***************************************************************************)
(* The Kiro account pool: how a request picks an account, what its outcome *)
(* does to the account, and who changes accounts beside the requests (the  *)
(* admin's pages and the background refresh).                              *)
(*                                                                         *)
(* Accounts live twice: in the configuration, and as copies in the pool's  *)
(* list, which Reload rebuilds.  Every writer of an account reads a whole  *)
(* account, changes some fields and writes the whole back.  A weight only  *)
(* says how often picks start at an account; where one starts is left      *)
(* open here (PoolScan has the loop), so the list is a function of ids.    *)
(* Tokens are left out: one may be about to expire, and its refresh may    *)
(* fail, at any time.                                                      *)
(* Definitions named Mut* are planted faults: each shows that a property   *)
(* notices the bug it is meant for. No behaviour of the spec uses them.    *)
(***************************************************************************)
EXTENDS Integers, FiniteSets

CONSTANTS
  Account,    \* ids, in the order of the configuration
  Serving,    \* accounts whose model list is empty or holds the model
  Request,    \* handlers, one request each
  Admin,      \* goroutines of the admin's pages and of the background refresh
  Attempts,   \* maxAccountRetryAttempts
  Short, Minute, Hour,  \* cooldowns: 90 seconds, a minute, an hour
  MaxTime, MaxJob       \* bounds: clock, admin jobs

ASSUME PoolAssumption ==
  /\ Account \subseteq Nat /\ Serving \subseteq Account
  /\ Attempts \in Nat \ {0} /\ Short \in Nat \ {0}
  /\ Minute \in Nat \ {0} /\ Hour \in Nat \ {0}
  /\ MaxTime \in Nat /\ MaxJob \in Nat

VARIABLES
  cfg,      \* cfg.Accounts: [Account -> [on, ban, blocked]]
  entries,  \* pool.accounts: the record of each account in the list
  cool,     \* cooldowns: the time, or 0 for no entry
  allow,    \* cfg.AllowOverUsage
  now,      \* the clock
  req,      \* [Request -> what its handler does]
  job,      \* [Admin -> what the goroutine does]
  jobs,     \* jobs so far
  unloaded  \* history: apiRefreshAccount wrote since the last Reload

pool  == <<entries, cool>>
env   == <<allow, now>>
procs == <<req, job, jobs>>
vars  == <<cfg, pool, env, procs, unloaded>>

Fresh   == [on |-> TRUE, ban |-> FALSE, blocked |-> FALSE]
NoAcc   == [id |-> 0, rec |-> Fresh]
NoList  == [a \in {} |-> Fresh]
Idle    == [pc |-> "idle", kind |-> "none", acc |-> NoAcc, snap |-> NoList, todo |-> {}]
Begun   == [pc |-> "pick", out |-> {}, at |-> 0, over |-> FALSE, acc |-> NoAcc]

\* `blocked` is an account over its quota whose overages are off upstream.
isQuotaBlocked(rec, over) == rec.blocked /\ ~over

\* Reload's list: the accounts that are enabled and not isQuotaBlocked.
Listed(c, over) == [a \in {b \in Account : c[b].on /\ ~isQuotaBlocked(c[b], over)} |-> c[a]]

Init ==
  /\ cfg = [a \in Account |-> Fresh]
  /\ allow = FALSE
  /\ entries = Listed(cfg, allow)
  /\ cool = [a \in Account |-> 0]
  /\ now = 0
  /\ req = [r \in Request |-> Begun]
  /\ job = [k \in Admin |-> Idle] /\ jobs = 0 /\ unloaded = FALSE

\* p.mu: no picker holds it for reading, so it may be taken for writing.
NoReader == \A r \in Request : req[r].pc # "scan"

Reload ==
  /\ NoReader
  /\ entries' = Listed(cfg, allow)
  /\ unloaded' = FALSE
  /\ UNCHANGED cool

\* The third error in a row costs a minute; whether it is the third is open.
RecordError(a, quota) ==
  /\ NoReader
  /\ cool' \in IF quota THEN {[cool EXCEPT ![a] = now + Hour]}
               ELSE {cool, [cool EXCEPT ![a] = now + Minute]}
  /\ UNCHANGED entries

MutCooldownSince(a) ==
  /\ NoReader
  /\ cool' = [cool EXCEPT ![a] = now - Short]
  /\ UNCHANGED entries

RecordThrottle(a) ==
  /\ NoReader
  /\ cool' = [cool EXCEPT ![a] = now + Short]
  /\ UNCHANGED entries

RecordSuccess(a) ==
  /\ NoReader
  /\ cool' = [cool EXCEPT ![a] = 0]
  /\ UNCHANGED entries

\* UpdateAccount: the whole record that the caller has, with these changes.
UpdateAccount(a, rec) == cfg' = [cfg EXCEPT ![a] = rec]
Banned(rec) == [rec EXCEPT !.on = FALSE, !.ban = TRUE]

(***************************************************************************)
(* Requests: GetNextForModelExcluding, under the read lock.                *)
(***************************************************************************)
At(r, pc)         == req[r].pc = pc
Step(r, pc)       == req' = [req EXCEPT ![r].pc = pc]
Take(r, a)        == req' = [req EXCEPT ![r].pc = "call", ![r].at = 0, ![r].over = FALSE,
                                        ![r].acc = [id |-> a, rec |-> entries[a]]]
Done(r)           == req' = [req EXCEPT ![r] = [Begun EXCEPT !.pc = "done"]]
Candidate(r, a)   == /\ a \notin req[r].out /\ a \in Serving
                     /\ ~isQuotaBlocked(entries[a], req[r].over)
Cooling(r, a)     == req[r].at < cool[a]

\* From here on the handler needs only the account's id.
After(r, pc) == req' = [req EXCEPT ![r].pc = pc, ![r].acc = [@ EXCEPT !.rec = Fresh]]

\* Each attempt excludes its account, so `out` also counts them.  The setting is
\* read once for the whole scan.
BeginPick(r) ==
  /\ At(r, "pick") /\ Cardinality(req[r].out) < Attempts
  /\ IF DOMAIN entries = {} THEN Done(r)
     ELSE req' = [req EXCEPT ![r].pc = "scan", ![r].at = now, ![r].over = allow]
  /\ UNCHANGED <<cfg, pool, env, job, jobs, unloaded>>

\* Every attempt was made, or the request's time budget is gone.
GiveUp(r) ==
  /\ At(r, "pick") /\ req[r].out # {}
  /\ Done(r)
  /\ UNCHANGED <<cfg, pool, env, job, jobs, unloaded>>

MutNoExclude(r) ==
  /\ At(r, "scan")
  /\ \E a \in DOMAIN entries : a \in Serving /\ Take(r, a)
  /\ UNCHANGED <<cfg, pool, env, job, jobs, unloaded>>

\* The loop finds an entry.  It starts at currentIndex, which every picker moves
\* (these handlers and any others), so it may be any entry that is fit, and the
\* rounds may miss them all or pass them over because a token is about to expire.
Visit(r) ==
  /\ At(r, "scan")
  /\ \E a \in DOMAIN entries : Candidate(r, a) /\ ~Cooling(r, a) /\ Take(r, a)
  /\ UNCHANGED <<cfg, pool, env, job, jobs, unloaded>>

\* After the loop: the first candidate without an entry in cooldowns, or else
\* the one whose cooldown ends, or ended, first.
Fallback(r) ==
  LET cands == {a \in DOMAIN entries : Candidate(r, a)}
  IN  /\ At(r, "scan")
      /\ IF cands = {} THEN Done(r)
         ELSE \E a \in cands :
                /\ \A b \in cands : cool[a] < cool[b] \/ (cool[a] = cool[b] /\ a <= b)
                /\ Take(r, a)
      /\ UNCHANGED <<cfg, pool, env, job, jobs, unloaded>>

(***************************************************************************)
(* Requests: ensureValidToken and the call, and what their outcome does.   *)
(***************************************************************************)
\* The next account, unless a part of the message has been sent.
NextAccount(r) ==
  \/ Done(r)
  \/ req' = [req EXCEPT ![r] = [Begun EXCEPT !.out = req[r].out \cup {req[r].acc.id}]]

\* A reply without content is not the account's fault.
EmptyReply(r) ==
  /\ At(r, "call") /\ NextAccount(r)
  /\ UNCHANGED <<cfg, pool, env, job, jobs, unloaded>>

Served(r) ==
  /\ At(r, "call")
  /\ RecordSuccess(req[r].acc.id) /\ Done(r)
  /\ UNCHANGED <<cfg, env, job, jobs, unloaded>>

(***************************************************************************)
(* handleAccountFailure(account, err), which handlers and the background   *)
(* refresh call: each class of error is an alternative.  disableAccount is *)
(* UpdateAccount with the caller's copy, then Reload; an overage error may *)
(* store new overage data and Reload before it counts as an error.         *)
(***************************************************************************)
Penalty(a) == RecordThrottle(a) \/ RecordError(a, TRUE) \/ RecordError(a, FALSE)

disableAccount(acc) == UpdateAccount(acc.id, Banned(acc.rec))

PersistOverageSnapshot(acc) ==
  \E b \in BOOLEAN : cfg' = [cfg EXCEPT ![acc.id].blocked = b]

Punished(r) ==
  /\ At(r, "call") /\ Penalty(req[r].acc.id) /\ NextAccount(r)
  /\ UNCHANGED <<cfg, env, job, jobs, unloaded>>

MutDisableWithoutReload(r) ==
  /\ At(r, "call") /\ disableAccount(req[r].acc) /\ NextAccount(r)
  /\ UNCHANGED <<pool, env, job, jobs, unloaded>>

Disabled(r) ==
  /\ At(r, "call") /\ disableAccount(req[r].acc) /\ After(r, "reload")
  /\ UNCHANGED <<pool, env, job, jobs, unloaded>>

DisabledReload(r) ==
  /\ At(r, "reload") /\ Reload /\ NextAccount(r)
  /\ UNCHANGED <<cfg, env, job, jobs>>

Overage(r) ==
  /\ At(r, "call") /\ PersistOverageSnapshot(req[r].acc) /\ After(r, "overage")
  /\ UNCHANGED <<pool, env, job, jobs, unloaded>>

OverageReload(r) ==
  /\ At(r, "overage") /\ Reload /\ Step(r, "count")
  /\ UNCHANGED <<cfg, env, job, jobs>>

OverageCounts(r) ==
  /\ At(r, "count") /\ RecordError(req[r].acc.id, FALSE) /\ NextAccount(r)
  /\ UNCHANGED <<cfg, env, job, jobs, unloaded>>

handleClaudeStream(r) ==
  \/ BeginPick(r) \/ Visit(r) \/ Fallback(r) \/ GiveUp(r)
  \/ Served(r) \/ EmptyReply(r) \/ Punished(r) \/ Disabled(r) \/ DisabledReload(r)
  \/ Overage(r) \/ OverageReload(r) \/ OverageCounts(r)

(***************************************************************************)
(* The admin's pages and the background refresh.  An "edit" is a change of *)
(* one account; a "page" is apiRefreshAccount, a "batch" the batch refresh *)
(* of one account, a "round" refreshAllAccounts, whose snapshot is of all  *)
(* accounts at once.                                                       *)
(***************************************************************************)
JobAt(k, pc) == job[k].pc = pc
Goto(k, pc)  == job' = [job EXCEPT ![k].pc = pc]
End(k)       == job' = [job EXCEPT ![k] = Idle]

Begin(k, pc, kind, acc, snap, todo) ==
  /\ JobAt(k, "idle") /\ jobs < MaxJob
  /\ jobs' = jobs + 1
  /\ job' = [job EXCEPT ![k] = [pc |-> pc, kind |-> kind, acc |-> acc, snap |-> snap,
                                todo |-> todo]]
  /\ UNCHANGED <<cfg, pool, env, req, unloaded>>

\* The pages' updates: enabled, and the batch "enable", which alone clears a ban;
\* an update of other fields writes these back as they were read.
Edits(rec) ==
  {[rec EXCEPT !.on = b] : b \in BOOLEAN} \cup {[rec EXCEPT !.on = TRUE, !.ban = FALSE]}

apiUpdateAccount(k, a) ==
  \E rec \in Edits(cfg[a]) : Begin(k, "write", "edit", [id |-> a, rec |-> rec], NoList, {})

WriteEdit(k) ==
  /\ JobAt(k, "write")
  /\ UpdateAccount(job[k].acc.id, job[k].acc.rec)
  /\ job' = [job EXCEPT ![k].pc = "reload", ![k].acc = NoAcc]
  /\ UNCHANGED <<pool, env, req, jobs, unloaded>>

apiRefreshAccount(k, a) ==
  \E kind \in {"page", "batch"} : Begin(k, "ask", kind, [id |-> a, rec |-> cfg[a]], NoList, {})

\* The setting that lets accounts over their quota serve, then Reload.
apiUpdateSettings(k) ==
  /\ JobAt(k, "idle") /\ jobs < MaxJob
  /\ allow' \in BOOLEAN
  /\ jobs' = jobs + 1
  /\ job' = [job EXCEPT ![k].pc = "reload", ![k].kind = "settings"]
  /\ UNCHANGED <<cfg, pool, now, req, unloaded>>

refreshAllAccounts(k) ==
  LET enabled == {a \in Account : cfg[a].on}
  IN  Begin(k, "next", "round", NoAcc, [a \in enabled |-> cfg[a]], enabled)

NextInRound(k) ==
  /\ JobAt(k, "next")
  /\ IF job[k].todo = {} THEN Goto(k, "reload")
     ELSE \E a \in job[k].todo :
            /\ \A b \in job[k].todo : a <= b
            /\ job' = [job EXCEPT ![k].pc = "ask", ![k].todo = @ \ {a},
                                  ![k].snap = [b \in job[k].todo \ {a} |-> @[b]],
                                  ![k].acc = [id |-> a, rec |-> job[k].snap[a]]]
  /\ UNCHANGED <<cfg, pool, env, req, jobs, unloaded>>

\* The end of one account's refresh: a page answers, the others go on.
Onward(k) ==
  \/ job[k].kind = "page" /\ End(k)
  \/ /\ job[k].kind # "page"
     /\ job' = [job EXCEPT ![k].pc = IF job[k].kind = "batch" THEN "reload" ELSE "next",
                           ![k].acc = NoAcc]

Wrote(k) == unloaded' = (unloaded \/ job[k].kind = "page")

\* RefreshAccountInfo, the usage call failed: a suspension or a bad token bans
\* the account, and the page then renews the token and asks once more.
InfoFails(k) ==
  LET acc == job[k].acc
  IN  /\ job[k].pc \in {"ask", "again"}
      /\ \/ UNCHANGED <<cfg, unloaded>> /\ Onward(k)
         \/ /\ UpdateAccount(acc.id, Banned(acc.rec)) /\ Wrote(k)
            /\ Onward(k) \/ (JobAt(k, "ask") /\ job[k].kind = "page" /\ Goto(k, "again"))
      /\ UNCHANGED <<pool, env, req, jobs>>

\* RefreshAccountInfo, the usage is known, or not offered for this account: a
\* ban that the caller's copy shows is cleared.
InfoArrives(k) ==
  LET acc == job[k].acc
  IN  /\ job[k].pc \in {"ask", "again"}
      /\ IF acc.rec.ban
         THEN /\ \E on \in {acc.rec.on, TRUE} :
                   UpdateAccount(acc.id, [acc.rec EXCEPT !.ban = FALSE, !.on = on])
              /\ Wrote(k)
         ELSE UNCHANGED <<cfg, unloaded>>
      /\ Goto(k, "info")
      /\ UNCHANGED <<pool, env, req, jobs>>

UpdateAccountInfo(k) ==
  /\ JobAt(k, "info")
  /\ \E b \in BOOLEAN : cfg' = [cfg EXCEPT ![job[k].acc.id].blocked = b]
  /\ Wrote(k)
  /\ IF job[k].kind = "page" THEN Goto(k, "saved") ELSE Onward(k)
  /\ UNCHANGED <<pool, env, req, jobs>>

Answer(k) ==
  /\ JobAt(k, "saved") /\ End(k)
  /\ UNCHANGED <<cfg, pool, env, req, jobs, unloaded>>

\* The background refresh cannot renew an account's token: handleAccountFailure.
RoundFails(k, pc, next) ==
  /\ JobAt(k, pc) /\ job[k].kind = "round"
  /\ IF next = "next" THEN Onward(k) ELSE Goto(k, next)
  /\ UNCHANGED <<env, req, jobs>>

RoundPunished(k) ==
  RoundFails(k, "ask", "next") /\ Penalty(job[k].acc.id) /\ UNCHANGED <<cfg, unloaded>>

RoundDisabled(k) ==
  /\ RoundFails(k, "ask", "banned") /\ disableAccount(job[k].acc)
  /\ UNCHANGED <<pool, unloaded>>

RoundDisabledReload(k) == RoundFails(k, "banned", "next") /\ Reload /\ UNCHANGED cfg

RoundOverage(k) ==
  /\ RoundFails(k, "ask", "overage") /\ PersistOverageSnapshot(job[k].acc)
  /\ UNCHANGED <<pool, unloaded>>

RoundOverageReload(k) == RoundFails(k, "overage", "count") /\ Reload /\ UNCHANGED cfg

RoundOverageCounts(k) ==
  RoundFails(k, "count", "next") /\ RecordError(job[k].acc.id, FALSE) /\ UNCHANGED <<cfg, unloaded>>

JobReload(k) ==
  /\ JobAt(k, "reload") /\ Reload /\ End(k)
  /\ UNCHANGED <<cfg, env, req, jobs>>

Tick ==
  /\ now < MaxTime /\ now' = now + 1
  /\ UNCHANGED <<cfg, pool, allow, procs, unloaded>>

Next ==
  \/ \E r \in Request : handleClaudeStream(r)
  \/ \E k \in Admin : \/ \E a \in Account : apiUpdateAccount(k, a) \/ apiRefreshAccount(k, a)
                      \/ apiUpdateSettings(k) \/ refreshAllAccounts(k) \/ NextInRound(k) \/ WriteEdit(k)
                      \/ InfoFails(k) \/ InfoArrives(k)
                      \/ UpdateAccountInfo(k) \/ Answer(k)
                      \/ RoundPunished(k) \/ RoundDisabled(k) \/ RoundDisabledReload(k)
                      \/ RoundOverage(k) \/ RoundOverageReload(k) \/ RoundOverageCounts(k)
                      \/ JobReload(k)
  \/ Tick

Spec == Init /\ [][Next]_vars

-----------------------------------------------------------------------------
Records == [on: BOOLEAN, ban: BOOLEAN, blocked: BOOLEAN]
Copies  == [id: Account, rec: Records]
Lists   == UNION {[A -> Records] : A \in SUBSET Account}

Handlers == [pc: {"pick", "scan", "call", "reload", "overage", "count", "done"},
             out: SUBSET Account, at: Nat, over: BOOLEAN, acc: Copies \cup {NoAcc}]
Jobs     == [pc: {"idle", "write", "next", "ask", "again", "info", "saved", "banned",
                  "overage", "count", "reload"},
             kind: {"none", "edit", "page", "batch", "round", "settings"},
             acc: Copies \cup {NoAcc}, snap: Lists, todo: SUBSET Account]

\* The types of the pool, of the configuration and of the goroutines.
TypeOK ==
  /\ cfg \in [Account -> Records]
  /\ entries \in Lists /\ cool \in [Account -> Nat]
  /\ allow \in BOOLEAN /\ now \in 0..MaxTime /\ jobs \in 0..MaxJob
  /\ req \in [Request -> Handlers] /\ job \in [Admin -> Jobs]
  /\ unloaded \in BOOLEAN

\* A request gets an account it has not tried yet, one over its quota only if the
\* setting allowed that when it began to look, and one that is cooling down only if
\* every account it could get is.
CoolingLastResort ==
  [][\A r \in Request : At(r, "scan") /\ req'[r].pc = "call" =>
       LET a == req'[r].acc.id
       IN  /\ a \in DOMAIN entries /\ Candidate(r, a)
           /\ Cooling(r, a) => \A b \in DOMAIN entries : Candidate(r, b) => Cooling(r, b)]_vars

\* Somebody changed the configuration and has not called Reload yet.
ReloadIsDue ==
  \/ \E r \in Request : req[r].pc \in {"reload", "overage"}
  \/ \E k \in Admin : \/ JobAt(k, "reload")
                      \/ job[k].kind \in {"batch", "round"} /\ ~JobAt(k, "idle")

\* With any number of bans, edits, settings and refreshes at once, the pool ends up with
\* the accounts of the configuration (each writer reloads after it has written,
\* and Reload reads under the pool's lock); apiRefreshAccount alone writes and
\* never reloads.
PoolFollowsConfig == entries = Listed(cfg, allow) \/ ReloadIsDue \/ unloaded

\* "Clear the ban (if it was marked before) once the info is obtained": when a
\* refresh page has stored the info, the account is not banned.  The ban of its
\* own first try stays, because the second looks at the copy read before it.
InfoClearsBan == \A k \in Admin : JobAt(k, "saved") => ~cfg[job[k].acc.id].ban
=============================================================================
