---------------------------- MODULE BackendPool ----------------------------
(***************************************************************************)
(* The Grok and the Codex account pools of kiro-go and everything that     *)
(* works on them at once: the account loops of the two providers, their    *)
(* health checkers and the administrator's requests.  The two pools have   *)
(* the same shape; family says which one a behaviour is about.             *)
(*                                                                         *)
(* Time is abstract: a cooldown may end, and the reset of an account's     *)
(* usage window may come, at any moment.  The rotating start index only    *)
(* breaks ties between accounts of equal load, so a pick may take any of   *)
(* the least loaded.                                                       *)
(***************************************************************************)
EXTENDS Integers, FiniteSets

CONSTANTS
  PoolAccount,   \* ids of accounts
  Warming,       \* those in the first stages of the warm-up of Codex
  Caller,        \* slots for requests that are served at the same time
  NoBackend,     \* a request or a checker that holds no account
  Threshold,     \* quota answers in a row that switch a Grok account off
  MaxTrouble     \* bound: answers other than a served one, and edits

ASSUME BackendAssumption ==
  /\ IsFiniteSet(PoolAccount) /\ IsFiniteSet(Caller)
  /\ Warming \subseteq PoolAccount
  /\ NoBackend \notin PoolAccount
  /\ Threshold \in Nat \ {0}
  /\ MaxTrouble \in Nat

VARIABLES
  family,        \* "grok" or "codex", never changes
  standing,      \* Enabled and BanReason of each account in the configuration
  usage,         \* the usage window of each account, as the configuration has it
  loaded,        \* the pool: ids loaded from it by ReloadBackends
  cooling,       \* ids with a cooldown that has not ended
  inFlight,      \* live requests per account, as the pool counts them
  streak,        \* quota answers of a Grok account since its last success
  caller,        \* the account loops
  checker,       \* the health checker
  admin,         \* the administrator's request being served
  troubles       \* answers other than a served one and edits so far

backendVars == <<family, standing, usage, loaded, cooling, inFlight, streak, caller,
                 checker, admin, troubles>>

\* A disabled account is told apart by who switched it off: the administrator,
\* the quota rule of Codex (its marker is in BanReason), the streak of Grok.
Mode == {"absent", "on", "admin", "auto-quota", "streak"}

Enabled == {a \in PoolAccount : standing[a] = "on"}

RequestPc == {"begin", "pick", "picked", "call", "disable", "reload", "release",
              "failed", "done"}

BackendTypeOK ==
  /\ family \in {"grok", "codex"}
  /\ standing \in [PoolAccount -> Mode]
  /\ usage \in [PoolAccount -> {"room", "full", "due"}]
  /\ loaded \subseteq PoolAccount /\ cooling \subseteq PoolAccount
  /\ inFlight \in [PoolAccount -> Nat]
  /\ streak \in [PoolAccount -> 0..Threshold]
  /\ caller \in [Caller -> [pc: RequestPc, acc: PoolAccount \cup {NoBackend},
                          excluded: SUBSET PoolAccount, tries: Nat, gentle: BOOLEAN]]
  /\ checker \in [pc: {"idle", "probe", "enable", "reload"},
                  todo: SUBSET PoolAccount, acc: PoolAccount \cup {NoBackend}]
  /\ admin \in {"idle", "reload"}
  /\ troubles \in 0..MaxTrouble

BackendInit ==
  /\ family \in {"grok", "codex"}
  /\ standing = [a \in PoolAccount |-> "on"]
  /\ usage = [a \in PoolAccount |-> "room"]
  /\ loaded = PoolAccount /\ cooling = {}
  /\ inFlight = [a \in PoolAccount |-> 0]
  /\ streak = [a \in PoolAccount |-> 0]
  /\ caller = [r \in Caller |-> [pc |-> "begin", acc |-> NoBackend, excluded |-> {},
                               tries |-> 0, gentle |-> FALSE]]
  /\ checker = [pc |-> "idle", todo |-> {}, acc |-> NoBackend]
  /\ admin = "idle"
  /\ troubles = 0

-----------------------------------------------------------------------------
(* The pool's own operations.                                              *)

ReloadBackends == loaded' = Enabled

Acquire(a) == inFlight' = [inFlight EXCEPT ![a] = @ + 1]
Release(a) == inFlight' = [inFlight EXCEPT ![a] = IF @ <= 1 THEN 0 ELSE @ - 1]

\* The warm-up lets a new account serve one request at a time at first.
WarmupAllows(a) == a \in Warming => inFlight[a] = 0

LeastLoaded(S) == {a \in S : \A b \in S : inFlight[a] <= inFlight[b]}

Open(r) == loaded \ (caller[r].excluded \cup cooling)

\* GetNextForCustomer and, when it finds none, the picks behind it: the pass
\* that respects the warm-up, the pass that does not, and, for a request that
\* has excluded nobody, the accounts that are cooling down.
GentlePick(r) ==
  IF family = "codex" THEN {a \in Open(r) : WarmupAllows(a)} ELSE Open(r)

PickFrom(r) ==
  IF GentlePick(r) # {} THEN LeastLoaded(GentlePick(r))
  ELSE IF Open(r) # {} THEN LeastLoaded(Open(r))
  ELSE IF caller[r].excluded = {} THEN LeastLoaded(loaded)
  ELSE {}

\* SetEnabled: nothing happens to an account that was deleted meanwhile.
SetMode(a, m) == standing' = [standing EXCEPT ![a] = IF @ = "absent" THEN @ ELSE m]

-----------------------------------------------------------------------------
(* One request: the loop over accounts.                                    *)

Proceed(r, pc) == caller' = [caller EXCEPT ![r].pc = pc]

\* The account is excluded, or not, and the loop goes on with the next one.
NextTry(r, out) ==
  caller' = [caller EXCEPT ![r].pc = "pick", ![r].tries = @ - 1, ![r].acc = NoBackend,
                     ![r].excluded = @ \cup out, ![r].gentle = FALSE]

Trouble == troubles < MaxTrouble /\ troubles' = troubles + 1

Calling(r) == caller[r].pc = "call"

BeginRequest(r) ==
  LET found == IF loaded = {} THEN Enabled ELSE loaded IN
  /\ caller[r].pc = "begin"
  /\ loaded' = found
  /\ caller' = [caller EXCEPT ![r].pc = IF found = {} THEN "failed" ELSE "pick",
                        ![r].tries = Cardinality(found) + 2]
  /\ UNCHANGED <<family, standing, usage, cooling, inFlight, streak, checker,
                 admin, troubles>>

Pick(r) ==
  /\ caller[r].pc = "pick"
  /\ IF caller[r].tries = 0 \/ PickFrom(r) = {}
       THEN Proceed(r, "failed")
       ELSE \E a \in PickFrom(r) :
              caller' = [caller EXCEPT ![r].pc = "picked", ![r].acc = a,
                                 ![r].gentle = GentlePick(r) # {}]
  /\ UNCHANGED <<family, standing, usage, loaded, cooling, inFlight, streak,
                 checker, admin, troubles>>

\* The pick is counted in a second critical section.
AcquirePicked(r) ==
  /\ caller[r].pc = "picked"
  /\ Acquire(caller[r].acc)
  /\ Proceed(r, "call")
  /\ UNCHANGED <<family, standing, usage, loaded, cooling, streak, checker, admin,
                 troubles>>

\* Mutant: the account is not given back.
PlainFailureKeeps(r) ==
  /\ Calling(r) /\ Trouble
  /\ NextTry(r, {caller[r].acc})
  /\ UNCHANGED <<family, standing, usage, loaded, inFlight, cooling, streak,
                 checker, admin>>

\* The token cannot be renewed, both tries of the call fail, the answer is an
\* error of no special kind, or a collected answer breaks off.
PlainFailure(r) ==
  /\ Calling(r) /\ Trouble
  /\ Release(caller[r].acc)
  /\ NextTry(r, {caller[r].acc})
  /\ UNCHANGED <<family, standing, usage, loaded, cooling, streak, checker, admin>>

\* 401 and 403: after a 401 a renewed token gives the account another try, else
\* the account cools down.
Unauthorized(r) ==
  /\ Calling(r) /\ Trouble
  /\ \/ NextTry(r, {}) /\ UNCHANGED cooling
     \/ NextTry(r, {caller[r].acc}) /\ cooling' = cooling \cup {caller[r].acc}
  /\ Release(caller[r].acc)
  /\ UNCHANGED <<family, standing, usage, loaded, streak, checker, admin>>

\* Grok, 402 or a 429 that says the free usage is spent: count it, cool the
\* account down (a 402 that reaches the threshold does not), and at the
\* threshold switch the account off.
GrokQuota(r) ==
  LET a == caller[r].acc  n == streak[a] + 1 IN
  /\ Calling(r) /\ Trouble
  /\ streak' = [streak EXCEPT ![a] = IF @ < Threshold THEN n ELSE @]
  /\ cooling' \in IF n >= Threshold THEN {cooling, cooling \cup {a}}
                                    ELSE {cooling \cup {a}}
  /\ Proceed(r, IF n >= Threshold THEN "disable" ELSE "release")
  /\ UNCHANGED <<family, standing, usage, loaded, inFlight, checker, admin>>

\* SetCodexAccountUsage, by what the headers say of the first usage window.
ReadHeaders(a, use) == usage' = [usage EXCEPT ![a] = use]

\* Codex, 402 or 429: the usage is kept if the headers have it, the account is
\* given back, and then it is cooled, or else switched off for a limit (of either
\* window) that the headers say is hours or days away.
CodexQuota(r) ==
  LET a == caller[r].acc IN
  /\ Calling(r) /\ Trouble
  /\ Release(a)
  /\ \/ /\ Proceed(r, "disable") /\ UNCHANGED cooling
        /\ \E use \in {"room", "full"} : ReadHeaders(a, use)
     \/ /\ NextTry(r, {a}) /\ cooling' = cooling \cup {a}
        /\ UNCHANGED usage \/ \E use \in {"room", "full"} : ReadHeaders(a, use)
  /\ UNCHANGED <<family, standing, loaded, streak, checker, admin>>

\* Disable writes the configuration first and reloads the pool after it.
DisableAccount(r) ==
  /\ caller[r].pc = "disable"
  /\ SetMode(caller[r].acc, IF family = "grok" THEN "streak" ELSE "auto-quota")
  /\ Proceed(r, "reload")
  /\ UNCHANGED <<family, usage, loaded, cooling, inFlight, streak, checker,
                 admin, troubles>>

ReloadAfterDisable(r) ==
  /\ caller[r].pc = "reload"
  /\ ReloadBackends
  /\ IF family = "grok"
       THEN streak' = [streak EXCEPT ![caller[r].acc] = 0] /\ Proceed(r, "release")
       ELSE NextTry(r, {caller[r].acc}) /\ UNCHANGED streak
  /\ UNCHANGED <<family, standing, usage, cooling, inFlight, checker, admin,
                 troubles>>

ReleaseAfterQuota(r) ==
  /\ caller[r].pc = "release"
  /\ Release(caller[r].acc)
  /\ NextTry(r, {caller[r].acc})
  /\ UNCHANGED <<family, standing, usage, loaded, cooling, streak, checker, admin,
                 troubles>>

\* A prompt that is too long, any 400 of Codex, or a stream that breaks off
\* after its headers: the account is given back and no other one is tried.
StopTrying(r) ==
  /\ Calling(r) /\ Trouble
  /\ Release(caller[r].acc)
  /\ \/ Proceed(r, "done")
     \/ family = "codex" /\ Proceed(r, "failed")
  /\ UNCHANGED <<family, standing, usage, loaded, cooling, streak, checker, admin>>

\* A success ends a streak; with Codex it also ends the account's cooldown,
\* unless the headers say that the first window is full.
Serve(r) ==
  LET a == caller[r].acc IN
  /\ Calling(r)
  /\ streak' = [streak EXCEPT ![a] = 0]
  /\ IF family = "grok" THEN UNCHANGED <<usage, cooling>>
     ELSE \/ ReadHeaders(a, "full") /\ cooling' = cooling \cup {a}
          \/ ReadHeaders(a, "room") /\ cooling' = cooling \ {a}
          \/ UNCHANGED usage        /\ cooling' = cooling \ {a}
  /\ Release(a)
  /\ Proceed(r, "done")
  /\ UNCHANGED <<family, standing, loaded, checker, admin, troubles>>

\* The loop of handleGrokWithFormat and the loop of handleCodexWithFormat.
AnyLoop(r) ==
  \/ BeginRequest(r) \/ Pick(r) \/ AcquirePicked(r) \/ PlainFailure(r)
  \/ Unauthorized(r) \/ DisableAccount(r) \/ ReloadAfterDisable(r)
  \/ StopTrying(r) \/ Serve(r)

GrokLoop(r) == family = "grok" /\ (AnyLoop(r) \/ GrokQuota(r) \/ ReleaseAfterQuota(r))

CodexLoop(r) == family = "codex" /\ (AnyLoop(r) \/ CodexQuota(r))

-----------------------------------------------------------------------------
(* The health checker: every minute, one account after the other.          *)

\* Accounts of Codex that were switched off for quota and may be back: the
\* checker works through this list, taken at the start of its turn.
MayBeBack == {a \in PoolAccount : standing[a] = "auto-quota" /\ usage[a] # "full"}

BeginCheck ==
  /\ family = "codex"
  /\ checker.pc = "idle" /\ MayBeBack # {}
  /\ checker' = [checker EXCEPT !.pc = "probe", !.todo = MayBeBack]
  /\ UNCHANGED <<family, standing, usage, loaded, cooling, inFlight, streak, caller,
                 admin, troubles>>

\* The probe of an account of the list answers, or fails for another hour.
ProbeDisabled ==
  /\ checker.pc = "probe"
  /\ \E a \in checker.todo :
       \/ /\ checker' = [pc |-> "enable", acc |-> a, todo |-> checker.todo \ {a}]
          /\ UNCHANGED usage
       \/ /\ checker' = [checker EXCEPT !.todo = @ \ {a},
                           !.pc = IF checker.todo = {a} THEN "idle" ELSE @]
          /\ usage' = [usage EXCEPT ![a] = IF @ = "due" THEN "full" ELSE @]
  /\ UNCHANGED <<family, standing, loaded, cooling, inFlight, streak, caller, admin,
                 troubles>>

EnableAgain ==
  /\ checker.pc = "enable"
  /\ SetMode(checker.acc, "on")
  /\ checker' = [checker EXCEPT !.pc = "reload"]
  /\ UNCHANGED <<family, usage, loaded, cooling, inFlight, streak, caller, admin,
                 troubles>>

\* Mutant: the checker leaves the pool as it is.
ReloadForgotten ==
  /\ checker.pc = "reload"
  /\ checker' = [checker EXCEPT !.pc = "idle", !.acc = NoBackend]
  /\ UNCHANGED <<family, standing, usage, loaded, cooling, inFlight, streak, caller,
                 admin, troubles>>

ReloadAfterEnable ==
  /\ checker.pc = "reload"
  /\ ReloadBackends
  /\ checker' = [checker EXCEPT !.pc = IF checker.todo = {} THEN "idle" ELSE "probe",
                                !.acc = NoBackend]
  /\ UNCHANGED <<family, standing, usage, cooling, inFlight, streak, caller, admin,
                 troubles>>

CheckerStep == BeginCheck \/ ProbeDisabled \/ EnableAgain \/ ReloadAfterEnable

-----------------------------------------------------------------------------
(* The administrator: each request writes the configuration and reloads.   *)

Edit == admin = "idle" /\ Trouble /\ admin' = "reload"

apiSetAccountEnabled(a) ==
  /\ Edit
  /\ standing[a] # "absent"
  /\ \E m \in {"on", "admin"} : SetMode(a, m)
  /\ UNCHANGED <<family, usage, loaded, cooling, inFlight, streak, caller, checker>>

apiDeleteAccount(a) ==
  /\ Edit
  /\ standing' = [standing EXCEPT ![a] = "absent"]
  /\ UNCHANGED <<family, usage, loaded, cooling, inFlight, streak, caller, checker>>

\* An import enables the account, also one that is known, unless it says not to;
\* what the quota rule wrote into BanReason stays.
apiAddAccount(a) ==
  /\ Edit
  /\ \/ standing' = [standing EXCEPT ![a] = "on"]
     \/ standing' = [standing EXCEPT ![a] = IF @ = "auto-quota" THEN @ ELSE "admin"]
  /\ usage' = [usage EXCEPT ![a] = "room"]
  /\ UNCHANGED <<family, loaded, cooling, inFlight, streak, caller, checker>>

\* A new proxy, name or machine id: only the reload matters here.
apiPatchAccount(a) ==
  /\ Edit
  /\ standing[a] # "absent"
  /\ UNCHANGED <<family, standing, usage, loaded, cooling, inFlight, streak, caller,
                 checker>>

\* The quota of one or of all Grok accounts is asked for and shown; the pool is
\* loaded again, and nothing else.
apiRefreshQuota ==
  /\ family = "grok"
  /\ Edit
  /\ UNCHANGED <<family, standing, usage, loaded, cooling, inFlight, streak, caller,
                 checker>>

ReloadAfterEdit ==
  /\ admin = "reload"
  /\ ReloadBackends
  /\ admin' = "idle"
  /\ UNCHANGED <<family, standing, usage, cooling, inFlight, streak, caller, checker,
                 troubles>>

AdminStep ==
  \/ \E a \in PoolAccount :
       apiSetAccountEnabled(a) \/ apiDeleteAccount(a) \/ apiAddAccount(a) \/ apiPatchAccount(a)
  \/ apiRefreshQuota \/ ReloadAfterEdit

EndCooldown(a) ==
  /\ cooling' = cooling \ {a}
  /\ UNCHANGED <<family, standing, usage, loaded, inFlight, streak, caller, checker,
                 admin, troubles>>

\* isCoolingDown, once the time is over.
CooldownRunsOut == \E a \in cooling : EndCooldown(a)

\* The health checkers say hello to an account of the pool that is cooling down,
\* and it answers.
HelloEndsCooldown == \E a \in cooling \cap loaded : EndCooldown(a)

\* The time the headers of Codex gave for the reset of the usage window comes.
WindowResets ==
  /\ \E a \in PoolAccount : usage[a] = "full" /\ usage' = [usage EXCEPT ![a] = "due"]
  /\ UNCHANGED <<family, standing, loaded, cooling, inFlight, streak, caller, checker,
                 admin, troubles>>

BackendNext ==
  \/ \E r \in Caller : GrokLoop(r) \/ CodexLoop(r)
  \/ CheckerStep
  \/ AdminStep
  \/ CooldownRunsOut \/ HelloEndsCooldown \/ WindowResets

BackendSpec == BackendInit /\ [][BackendNext]_backendVars
-----------------------------------------------------------------------------
(* Properties.                                                             *)

\* The request of r is counted for account a: it acquired it and has not given it
\* back.  Codex gives the account back before it switches it off.
Holds(r, a) ==
  /\ caller[r].acc = a
  /\ \/ caller[r].pc \in {"call", "release"}
     \/ family = "grok" /\ caller[r].pc \in {"disable", "reload"}

\* The load that picks go by is the number of requests that hold the account:
\* no way out of the loops, through a failure, a ban, a reload or a deletion of
\* the account, forgets to give it back or gives it back twice.
LoadIsExact ==
  \A a \in PoolAccount : inFlight[a] = Cardinality({r \in Caller : Holds(r, a)})

\* The pool serves the accounts that the configuration has enabled, except
\* between a write of the configuration and the reload its writer owes.
PoolIsEnabled ==
  \/ loaded = Enabled
  \/ admin = "reload" \/ checker.pc = "reload"
  \/ \E r \in Caller : caller[r].pc = "reload"
=============================================================================
