------------------------------ MODULE ApiKeys ------------------------------
(***************************************************************************)
(* A customer's API key: kiro-go's config entry, what keyadmin does to it  *)
(* (a GET of the list, then a PUT that kiro-go itself splits into a        *)
(* snapshot and a write), the requests billed to it, the expiry that lives *)
(* in its name, and the cron job that should turn expired keys off.        *)
(* Definitions named Mut* are planted faults: each shows that a property   *)
(* notices the bug it is meant for. No behaviour of the spec uses them.    *)
(***************************************************************************)
EXTENDS Integers, FiniteSets

CONSTANTS
  Key,
  Title,      \* names without markers; "" is one a key may have
  Worker,     \* keyadmin handlers (bot, storefront, admin) and admin-page PUTs
  Request,    \* requests that can be in flight at once, one credit each
  Hours,      \* arguments of add-hours, in clock ticks, some negative
  Delta,      \* arguments of add-credit, some negative
  Limit,      \* arguments of create and set-credit; 0 is "unlimited"
  MaxTime, MaxUsed, MaxLimit, MaxOp  \* bounds: clock, billing, limit, operations

None == "none"

ASSUME ApiKeysAssumption ==
  /\ Limit \subseteq Nat /\ Hours \subseteq Int /\ Delta \subseteq Int
  /\ {MaxTime, MaxUsed, MaxLimit, MaxOp} \subseteq Nat
  /\ IsFiniteSet(Request) /\ None \notin Key

VARIABLES
  entry,  \* [Key -> Unborn, Gone, or the ApiKeyEntry]
  now,    \* the clock
  op,     \* [Worker -> Idle or the operation under way]
  req,    \* [Request -> the key it is billed to, or None]
  cron,   \* check-key-expiry.sh: "idle" or "listed"
  ops,    \* operations so far
  billed, \* history: [Key -> credits recorded since the last reset]
  limits  \* history: [Key -> the limits it has had, 0 for unlimited]

vars == <<entry, now, op, req, cron, ops, billed, limits>>

Unborn == [born |-> FALSE, live |-> FALSE]
Gone   == [born |-> TRUE, live |-> FALSE]
Idle   == [pc |-> "idle"]

Above(a, b)  == IF a >= b THEN a ELSE b

(* Names: a title and one marker, "#exp=<time>", "#pause=<left>" or none.  *)
stripMarkers(n)     == [title |-> n.title, mode |-> "none", t |-> 0]
withExpUnix(n, exp) == [title |-> n.title, mode |-> "active", t |-> exp]
MutPauseNoFloor(n, left) == [title |-> n.title, mode |-> "paused", t |-> left]
withPause(n, left)  == [title |-> n.title, mode |-> "paused", t |-> Above(left, 0)]

\* parseExpiry: the seconds left, which a key that ran out may have negative.
SecondsLeft(n, at) ==
  CASE n.mode = "active" -> n.t - at
    [] n.mode = "paused" -> n.t
    [] n.mode = "none"   -> 0

Empty(n) == n.title = "" /\ n.mode = "none"

NewEntry(n, limit) ==
  [born |-> TRUE, live |-> TRUE, name |-> n, enabled |-> TRUE, limit |-> limit, used |-> 0]

ApiKeyOverLimit(e) == e.limit > 0 /\ e.used >= e.limit

HasHad(k, limit) == limits' = [limits EXCEPT ![k] = @ \cup {limit}]

Init ==
  /\ entry = [k \in Key |-> Unborn]
  /\ now = 0
  /\ op = [w \in Worker |-> Idle]
  /\ req = [r \in Request |-> None]
  /\ cron = "idle" /\ ops = 0
  /\ billed = [k \in Key |-> 0]
  /\ limits = [k \in Key |-> {}]

(***************************************************************************)
(* keyadmin.  The first step of an operation is kiroFind and the new name  *)
(* or limit computed from what it returned; set-credit, enable and the     *)
(* fallback of delete send their PUT without looking. Of the arguments the *)
(* operation keeps the hours add-hours was asked for.                      *)
(***************************************************************************)
Reading == {"pause", "resume", "hours", "expiry", "rename", "credit"}

Start(w, k, kind, hours, patch) ==
  /\ op[w] = Idle /\ ops < MaxOp
  /\ op' = [op EXCEPT ![w] = [pc |-> "put", key |-> k, kind |-> kind, hours |-> hours,
                              patch |-> patch, at |-> now,
                              seen |-> IF kind \in Reading THEN entry[k] ELSE Gone]]
  /\ ops' = ops + 1
  /\ UNCHANGED <<entry, now, req, cron, billed, limits>>

handlePause(w, k) ==
  LET n == entry[k].name
  IN  /\ entry[k].live /\ n.mode = "active"
      /\ Start(w, k, "pause", 0, [name |-> withPause(n, SecondsLeft(n, now))])

handleResume(w, k) ==
  LET n == entry[k].name
  IN  /\ entry[k].live /\ n.mode = "paused"
      /\ Start(w, k, "resume", 0, [name |-> withExpUnix(n, now + n.t)])

MutAddHoursFromNow(w, k, h) ==
  LET n == entry[k].name
  IN  /\ entry[k].live
      /\ Start(w, k, "hours", h, [name |->
           IF n.mode = "paused" THEN withPause(n, n.t + h)
                                ELSE withExpUnix(n, Above(now + h, now))])

\* A permanent key starts to count now; a key that ran out counts on from when it did.
handleAddHours(w, k, h) ==
  LET n == entry[k].name
  IN  /\ entry[k].live
      /\ Start(w, k, "hours", h, [name |->
           CASE n.mode = "paused" -> withPause(n, n.t + h)
             [] n.mode = "active" -> withExpUnix(n, Above(n.t + h, now))
             [] n.mode = "none"   -> withExpUnix(n, Above(now + h, now))])

\* A time from now, which a negative argument makes now; 0 makes the key permanent.
handleSetExpiry(w, k, h) ==
  LET n == entry[k].name
  IN  /\ entry[k].live
      /\ Start(w, k, "expiry", 0, [name |->
           IF h = 0 THEN stripMarkers(n) ELSE withExpUnix(n, Above(now + h, now))])

handleRename(w, k, t) ==
  LET n == entry[k].name
  IN  /\ entry[k].live
      /\ Start(w, k, "rename", 0, [name |-> [n EXCEPT !.title = t]])

MutAddCreditNoFloor(w, k, d) ==
  /\ entry[k].live
  /\ entry[k].limit + d <= MaxLimit
  /\ Start(w, k, "credit", 0, [limit |-> Above(entry[k].limit + d, 0)])

\* Never below what is used, nor below zero.
handleAddCredit(w, k, d) ==
  LET e == entry[k]
  IN  /\ e.live /\ e.limit + d <= MaxLimit
      /\ Start(w, k, "credit", 0, [limit |-> Above(Above(e.limit + d, e.used), 0)])

handleSetCredit(w, k, l) == Start(w, k, "set", 0, [limit |-> l])
handleEnable(w, k, b)    == Start(w, k, "enable", 0, [enabled |-> b])

\* One key of handleCreate's loop, permanent or with a time.
handleCreate(k, t, h, l) ==
  LET n == [title |-> t, mode |-> "none", t |-> 0]
  IN  /\ entry[k] = Unborn
      /\ entry' = [entry EXCEPT ![k] =
                     NewEntry(IF h > 0 THEN withExpUnix(n, now + h) ELSE n, l)]
      /\ HasHad(k, l)
      /\ UNCHANGED <<now, op, req, cron, ops, billed>>

\* DELETE succeeds, whether or not the key exists; the fallback is handleEnable.
handleDelete(k) ==
  /\ entry[k].live /\ ops < MaxOp
  /\ entry' = [entry EXCEPT ![k] = Gone]
  /\ ops' = ops + 1
  /\ UNCHANGED <<now, op, req, cron, billed, limits>>

(***************************************************************************)
(* kiro-go's PUT: GetApiKeyEntry copies the entry, the fields of the       *)
(* request are laid over the copy, and UpdateApiKey writes all of them.    *)
(***************************************************************************)
Merge(base, patch) ==
  [f \in {"name", "enabled", "limit", "used"} |->
     IF f \in DOMAIN patch THEN patch[f] ELSE base[f]]

apiUpdateApiKey(w) ==
  LET o == op[w]
  IN  /\ o.pc = "put"
      /\ op' = [op EXCEPT ![w] =
           IF entry[o.key].live
           THEN [o EXCEPT !.pc = "write", !.patch = Merge(entry[o.key], @)]
           ELSE Idle]
      /\ UNCHANGED <<entry, now, req, cron, ops, billed, limits>>

\* UpdateApiKey: an empty name is not written, the counters are left alone.
Written(e, patch) ==
  [e EXCEPT !.name = IF Empty(patch.name) THEN @ ELSE patch.name,
            !.enabled = patch.enabled, !.limit = patch.limit]

MutWriteCounters(w) ==
  LET o == op[w]
  IN  /\ o.pc = "write"
      /\ op' = [op EXCEPT ![w] = Idle]
      /\ IF entry[o.key].live
         THEN /\ entry' = [entry EXCEPT ![o.key] = [Written(@, o.patch) EXCEPT !.used = o.patch.used]]
              /\ HasHad(o.key, o.patch.limit)
         ELSE UNCHANGED <<entry, limits>>
      /\ UNCHANGED <<now, req, cron, ops, billed>>

MutUpsert(w) ==
  LET o == op[w]
  IN  /\ o.pc = "write"
      /\ op' = [op EXCEPT ![w] = Idle]
      /\ entry' = [entry EXCEPT ![o.key] = Written(IF @.live THEN @ ELSE NewEntry(o.patch.name, 0), o.patch)]
      /\ HasHad(o.key, o.patch.limit)
      /\ UNCHANGED <<now, req, cron, ops, billed>>

UpdateApiKey(w) ==
  LET o == op[w]
  IN  /\ o.pc = "write"
      /\ op' = [op EXCEPT ![w] = Idle]
      /\ IF entry[o.key].live
         THEN /\ entry' = [entry EXCEPT ![o.key] = Written(@, o.patch)]
              /\ HasHad(o.key, o.patch.limit)
         ELSE UNCHANGED <<entry, limits>>
      /\ UNCHANGED <<now, req, cron, ops, billed>>

\* A PUT that never arrives, or keyadmin dies before it sends it.
Fail(w) ==
  /\ op[w].pc = "put"
  /\ op' = [op EXCEPT ![w] = Idle]
  /\ UNCHANGED <<entry, now, req, cron, ops, billed, limits>>

(***************************************************************************)
(* Billing.                                                                *)
(***************************************************************************)
MutAdmitOverLimit(r, k) ==
  /\ req[r] = None
  /\ entry[k].live /\ entry[k].enabled
  /\ entry[k].used <= entry[k].limit \/ entry[k].limit = 0
  /\ req' = [req EXCEPT ![r] = k]
  /\ UNCHANGED <<entry, now, op, cron, ops, billed, limits>>

authenticate(r, k) ==
  /\ req[r] = None
  /\ entry[k].live /\ entry[k].enabled /\ ~ApiKeyOverLimit(entry[k])
  /\ req' = [req EXCEPT ![r] = k]
  /\ UNCHANGED <<entry, now, op, cron, ops, billed, limits>>

\* The reply is complete: its cost is added, unless the key is gone by now.
RecordApiKeyUsage(r) ==
  LET k == req[r]
  IN  /\ k # None
      /\ req' = [req EXCEPT ![r] = None]
      /\ IF entry[k].live
         THEN /\ entry[k].used < MaxUsed
              /\ entry' = [entry EXCEPT ![k].used = @ + 1]
              /\ billed' = [billed EXCEPT ![k] = @ + 1]
         ELSE UNCHANGED <<entry, billed>>
      /\ UNCHANGED <<now, op, cron, ops, limits>>

\* A reply that failed is not billed.
Abort(r) ==
  /\ req[r] # None
  /\ req' = [req EXCEPT ![r] = None]
  /\ UNCHANGED <<entry, now, op, cron, ops, billed, limits>>

ResetApiKeyUsage(k) ==
  /\ entry[k].live /\ ops < MaxOp
  /\ entry' = [entry EXCEPT ![k].used = 0]
  /\ billed' = [billed EXCEPT ![k] = 0]
  /\ ops' = ops + 1
  /\ UNCHANGED <<now, op, req, cron, limits>>

(***************************************************************************)
(* Time and check-key-expiry.sh.  The script pipes the list to `python3 -` *)
(* whose here-document is its standard input: after the program, json.load *)
(* finds nothing to read, raises, and no id reaches the loop of PUTs.      *)
(***************************************************************************)
Tick ==
  /\ now < MaxTime
  /\ now' = now + 1
  /\ UNCHANGED <<entry, op, req, cron, ops, billed, limits>>

ListKeys ==
  /\ cron = "idle" /\ cron' = "listed"
  /\ UNCHANGED <<entry, now, op, req, ops, billed, limits>>

ParseNothing ==
  /\ cron = "listed" /\ cron' = "idle"
  /\ UNCHANGED <<entry, now, op, req, ops, billed, limits>>

keyadmin(w, k) ==
  \/ handlePause(w, k) \/ handleResume(w, k)
  \/ \E h \in Hours : handleAddHours(w, k, h)
  \/ \E h \in Hours : handleSetExpiry(w, k, h)
  \/ \E t \in Title : handleRename(w, k, t)
  \/ \E d \in Delta : handleAddCredit(w, k, d)
  \/ \E l \in Limit : handleSetCredit(w, k, l)
  \/ \E b \in BOOLEAN : handleEnable(w, k, b)

Next ==
  \/ \E w \in Worker, k \in Key : keyadmin(w, k)
  \/ \E k \in Key : \/ \E t \in Title, h \in Hours \cap Nat, l \in Limit :
                         handleCreate(k, t, h, l)
                    \/ handleDelete(k) \/ ResetApiKeyUsage(k)
  \/ \E w \in Worker : apiUpdateApiKey(w) \/ UpdateApiKey(w) \/ Fail(w)
  \/ \E r \in Request : \/ \E k \in Key : authenticate(r, k)
                        \/ RecordApiKeyUsage(r) \/ Abort(r)
  \/ Tick \/ ListKeys \/ ParseNothing

Spec == Init /\ [][Next]_vars

\* cron runs the script every few minutes and time passes.
CronSpec == Spec /\ WF_vars(Tick) /\ WF_vars(ListKeys) /\ WF_vars(ParseNothing)

-----------------------------------------------------------------------------
Names   == [title: Title, mode: {"none", "active", "paused"}, t: Nat]
Entries == [born: {TRUE}, live: {TRUE}, name: Names, enabled: BOOLEAN,
            limit: Nat, used: 0..MaxUsed]

\* The type of the config's keys; the markers exclude each other by it.
TypeOK ==
  /\ entry \in [Key -> {Unborn, Gone} \cup Entries]
  /\ now \in 0..MaxTime
  /\ \A w \in Worker : op[w].pc \in {"idle", "put", "write"}
  /\ req \in [Request -> Key \cup {None}]
  /\ cron \in {"idle", "listed"} /\ ops \in 0..MaxOp
  /\ billed \in [Key -> Nat] /\ limits \in [Key -> SUBSET Nat]

\* Requests are admitted on what is used so far and billed when they end, so a
\* key goes over its limit, but by less than the requests in flight at once
\* (authenticate, RecordApiKeyUsage), whatever the admin does beside it.
OvershootIsBounded ==
  \A k \in Key : entry[k].live /\ 0 \notin limits[k] =>
    \E l \in limits[k] : entry[k].used < l + Cardinality(Request)

\* What was recorded for a key is neither lost nor restored by any update of it
\* (UpdateApiKey leaves the counters to RecordApiKeyUsage and the reset).
UsageIsNotLost == \A k \in Key : entry[k].live => entry[k].used = billed[k]

\* An update that read the key before it was deleted does not bring it back.
DeletedStaysDeleted == [][\A k \in Key : entry[k] = Gone => entry'[k] = Gone]_vars

\* The operation of w writes, and the key's marker is still the one it read,
\* both at kiroFind and at GetApiKeyEntry.
Writes(w) == op[w].pc = "write" /\ op'[w] = Idle /\ entry[op[w].key].live
Alone(w)  == op[w].seen.live /\ entry[op[w].key].name = op[w].seen.name

\* Pausing, resuming and renaming keep the time a customer has left: exactly
\* for a rename, and up to the time the operation itself took for the others.
\* add-hours adds its argument to what is left, whose overrun counts against it
\* when the key ran out before; a permanent key gets the argument from the moment
\* the operation read it, so less by the time it took.
TimeLeftIsKept ==
  [][\A w \in Worker : Writes(w) /\ Alone(w) =>
       LET o      == op[w]
           left   == SecondsLeft(entry[o.key].name, now)
           before == Above(left, 0)
           after  == Above(SecondsLeft(entry'[o.key].name, now), 0)
           took   == now - o.at
       IN  /\ o.kind = "rename" => after = before
           /\ o.kind = "pause"  => after - before \in 0..took
           /\ o.kind = "resume" => before - after \in 0..took
           /\ o.kind = "hours"  =>
                after = IF entry[o.key].name.mode = "none" THEN Above(o.hours - took, 0)
                                                           ELSE Above(left + o.hours, 0)]_vars

\* 0 is a limit and "unlimited" at once: a key that always had a limit loses it
\* only to a set-credit that says so, or to an add-credit that found nothing used
\* and takes all there is, whoever writes back which old copy of the key
\* (handleAddCredit's floor is what is used, so using a key keeps it limited).
UnlimitedIsAsked ==
  [][\A k \in Key :
       (/\ entry[k].live /\ entry'[k].live
        /\ 0 \notin limits[k] /\ entry'[k].limit = 0) =>
         \E w \in Worker :
           /\ Writes(w) /\ op[w].key = k
           /\ op[w].kind = "set" \/ (op[w].kind = "credit" /\ op[w].seen.used = 0)]_vars

\* "Tu dong TAT (khong xoa) cac API key da het han": an expired key is turned
\* off, or deleted, or given more time.
Expired(k) ==
  /\ entry[k].live
  /\ entry[k].enabled /\ entry[k].name.mode = "active" /\ now > entry[k].name.t

ExpiredKeyIsDisabled == \A k \in Key : Expired(k) ~> ~Expired(k)
=============================================================================
