--------------------------- MODULE ApiKeysProofs ----------------------------
(***************************************************************************)
(* Proofs about ApiKeys, for any number of keys, admins and requests: the  *)
(* types, that usage is neither lost nor restored, that a deleted key is   *)
(* gone for good, how far a key goes over its limit, what operations of    *)
(* keyadmin do to the credit and the time a customer has left.             *)
(***************************************************************************)
EXTENDS ApiKeys, FiniteSetTheorems, TLAPS

-----------------------------------------------------------------------------
(* The operations under way.                                               *)

Named   == {"pause", "resume", "hours", "expiry", "rename"}
Patches == [name: Names] \cup [limit: Nat] \cup [enabled: BOOLEAN]
Full    == [name: Names, enabled: BOOLEAN, limit: Nat, used: Nat]
Ops     == [pc: {"put", "write"}, key: Key, kind: Named \cup {"credit", "set", "enable"},
            hours: Int, patch: Patches \cup Full, at: Nat, seen: {Unborn, Gone} \cup Entries]

\* add-hours: the time left, or the end, moved by the argument.
Lengthened(o) ==
  LET n == o.seen.name
      m == o.patch.name
  IN  IF n.mode = "paused"
      THEN m.mode = "paused" /\ m.t = Above(n.t + o.hours, 0)
      ELSE /\ m.mode = "active"
           /\ m.t = Above((IF n.mode = "active" THEN n.t ELSE o.at) + o.hours, o.at)

\* What an operation sends follows from what it saw of the key when it started.
Sends(o) ==
  /\ o.kind \in Reading => o.seen \in Entries
  /\ o.kind = "rename" => /\ o.patch.name.mode = o.seen.name.mode
                          /\ o.patch.name.t = o.seen.name.t
  /\ o.kind = "pause"  => /\ o.seen.name.mode = "active"
                          /\ o.patch.name.mode = "paused"
                          /\ o.patch.name.t = Above(o.seen.name.t - o.at, 0)
  /\ o.kind = "resume" => /\ o.seen.name.mode = "paused"
                          /\ o.patch.name.mode = "active"
                          /\ o.patch.name.t = o.at + o.seen.name.t
  /\ o.kind = "hours"  => Lengthened(o)
  /\ o.kind = "credit" => o.patch.limit >= o.seen.used

\* It is a PUT on its way, of one field, or a write of all of them.
UnderWay(o) ==
  /\ o \in Ops /\ o.at <= now
  /\ o.pc = "write" => o.patch \in Full
  /\ o.pc = "put" => /\ o.patch \in Patches
                     /\ o.kind \in Named => o.patch \in [name: Names]
                     /\ o.kind = "credit" => o.patch \in [limit: Nat]
                     /\ o.kind = "enable" => o.patch \in [enabled: BOOLEAN]
  /\ Sends(o)

OpsOK ==
  /\ op \in [Worker -> {Idle} \cup Ops]
  /\ \A w \in Worker : op[w] # Idle => UnderWay(op[w])

\* The fields of a live entry.
LEMMA EntryOf ==
  ASSUME NEW e \in Entries
  PROVE  /\ e.live /\ e # Gone /\ e # Unborn /\ e.name \in Names
         /\ e.enabled \in BOOLEAN /\ e.limit \in Nat /\ e.used \in Nat
<1>1. MaxUsed \in Nat
  BY ApiKeysAssumption
<1>2. e.live = TRUE /\ e.name \in Names /\ e.enabled \in BOOLEAN /\ e.limit \in Nat
      /\ e.used \in 0..MaxUsed
  BY DEF Entries
<1> QED BY <1>1, <1>2 DEF Gone, Unborn

\* A worker whose operation is a PUT or a write is under way.
LEMMA Busy ==
  ASSUME OpsOK, NEW w \in Worker, op[w].pc # "idle"
  PROVE  op[w] \in Ops /\ UnderWay(op[w])
BY DEF OpsOK, Idle

\* The fields of the request laid over a copy of the entry make a whole entry.
LEMMA MergeOf ==
  ASSUME NEW e \in Entries, NEW patch \in Patches
  PROVE  /\ Merge(e, patch) \in Full
         /\ patch \in [name: Names] => Merge(e, patch).name = patch.name
         /\ patch \in [limit: Nat] => Merge(e, patch).limit = patch.limit
         /\ patch \notin [limit: Nat] => Merge(e, patch).limit = e.limit
<1> DEFINE F == {"name", "enabled", "limit", "used"}
           m == Merge(e, patch)
<1>1. m = [f \in F |-> IF f \in DOMAIN patch THEN patch[f] ELSE e[f]]
  BY DEF Merge
<1>2. /\ e.name \in Names /\ e.enabled \in BOOLEAN /\ e.limit \in Nat /\ e.used \in Nat
  BY DEF Entries
<1>3. CASE patch \in [name: Names]
  <2>1. DOMAIN patch = {"name"} /\ patch.name \in Names
    BY <1>3
  <2>2. m = [name |-> patch.name, enabled |-> e.enabled, limit |-> e.limit, used |-> e.used]
    BY <1>1, <2>1
  <2>3. patch \notin [limit: Nat]
    BY <2>1
  <2> QED BY <1>2, <2>1, <2>2, <2>3 DEF Full
<1>4. CASE patch \in [limit: Nat]
  <2>1. DOMAIN patch = {"limit"} /\ patch.limit \in Nat
    BY <1>4
  <2>2. m = [name |-> e.name, enabled |-> e.enabled, limit |-> patch.limit, used |-> e.used]
    BY <1>1, <2>1
  <2>3. patch \notin [name: Names]
    BY <2>1
  <2> QED BY <1>2, <1>4, <2>1, <2>2, <2>3 DEF Full
<1>5. CASE patch \in [enabled: BOOLEAN]
  <2>1. DOMAIN patch = {"enabled"} /\ patch.enabled \in BOOLEAN
    BY <1>5
  <2>2. m = [name |-> e.name, enabled |-> patch.enabled, limit |-> e.limit, used |-> e.used]
    BY <1>1, <2>1
  <2>3. patch \notin [name: Names] /\ patch \notin [limit: Nat]
    BY <2>1
  <2> QED BY <1>2, <2>1, <2>2, <2>3 DEF Full
<1> QED BY <1>3, <1>4, <1>5 DEF Patches

\* UpdateApiKey's write of a whole entry over a live one.
LEMMA WrittenOf ==
  ASSUME NEW e \in Entries, NEW patch \in Full
  PROVE  /\ Written(e, patch) \in Entries
         /\ Written(e, patch).used = e.used /\ Written(e, patch).limit = patch.limit
         /\ \/ Written(e, patch).name = patch.name
            \/ Empty(patch.name) /\ Written(e, patch).name = e.name
BY DEF Written, Entries, Full

\* Nothing is under way at a fresh start, and nobody has a key.
LEMMA InitOK == Init => TypeOK /\ OpsOK
<1> SUFFICES ASSUME Init PROVE TypeOK /\ OpsOK
  OBVIOUS
<1>1. TypeOK
  BY ApiKeysAssumption DEF Init, TypeOK, Idle
<1>2. OpsOK
  BY DEF Init, OpsOK
<1> QED BY <1>1, <1>2

\* kiroFind and the new name or limit: an operation that sends what it should.
LEMMA Starts ==
  ASSUME OpsOK, NEW w \in Worker, NEW k, NEW kind, NEW hours, NEW patch, Start(w, k, kind, hours, patch),
         UnderWay([pc |-> "put", key |-> k, kind |-> kind, hours |-> hours, patch |-> patch,
                   at |-> now, seen |-> IF kind \in Reading THEN entry[k] ELSE Gone])
  PROVE  OpsOK'
<1> DEFINE new == [pc |-> "put", key |-> k, kind |-> kind, hours |-> hours, patch |-> patch,
                   at |-> now, seen |-> IF kind \in Reading THEN entry[k] ELSE Gone]
<1>1. op' = [op EXCEPT ![w] = new] /\ now' = now
  BY DEF Start
<1>2. new \in Ops /\ UnderWay(new)
  BY DEF UnderWay
<1> HIDE DEF new
<1>3. op' \in [Worker -> {Idle} \cup Ops]
  BY <1>1, <1>2 DEF OpsOK
<1>4. \A v \in Worker : op'[v] # Idle => UnderWay(op'[v])
  BY <1>1, <1>2 DEF OpsOK
<1> QED BY <1>1, <1>3, <1>4 DEF OpsOK, UnderWay

\* Each operation of keyadmin starts one.
LEMMA KeyadminStarts ==
  ASSUME TypeOK, OpsOK, NEW w \in Worker, NEW k \in Key, keyadmin(w, k)
  PROVE  OpsOK' /\ UNCHANGED <<entry, now, req, cron, billed, limits>> /\ ops' \in 0..MaxOp
<1> DEFINE n == entry[k].name
<1>0. now \in Nat /\ MaxOp \in Nat /\ entry[k] \in {Unborn, Gone} \cup Entries
  BY ApiKeysAssumption DEF TypeOK
<1>1. entry[k].live => entry[k] \in Entries /\ n \in Names /\ entry[k].limit \in Nat /\ entry[k].used \in Nat
  <2> SUFFICES ASSUME entry[k].live
               PROVE  entry[k] \in Entries /\ n \in Names /\ entry[k].limit \in Nat /\ entry[k].used \in Nat
    OBVIOUS
  <2>1. entry[k] \in Entries
    BY <1>0 DEF Unborn, Gone
  <2> QED BY <2>1, EntryOf
<1>2. ASSUME NEW kind, NEW hours, NEW patch, Start(w, k, kind, hours, patch)
      PROVE  UNCHANGED <<entry, now, req, cron, billed, limits>> /\ ops' \in 0..MaxOp
  BY <1>0, <1>2 DEF Start, TypeOK
<1>3. ASSUME NEW kind \in Named, entry[k].live, NEW m \in Names, NEW h \in Int,
             Start(w, k, kind, h, [name |-> m]),
             kind = "rename" => m.mode = n.mode /\ m.t = n.t,
             kind = "pause"  => n.mode = "active" /\ m.mode = "paused" /\ m.t = Above(n.t - now, 0),
             kind = "resume" => n.mode = "paused" /\ m.mode = "active" /\ m.t = now + n.t,
             kind = "hours"  => IF n.mode = "paused"
                                THEN m.mode = "paused" /\ m.t = Above(n.t + h, 0)
                                ELSE /\ m.mode = "active"
                                     /\ m.t = Above((IF n.mode = "active" THEN n.t ELSE now) + h, now)
      PROVE  OpsOK'
  <2> DEFINE new == [pc |-> "put", key |-> k, kind |-> kind, hours |-> h, patch |-> [name |-> m],
                     at |-> now, seen |-> IF kind \in Reading THEN entry[k] ELSE Gone]
  <2>1. kind \in Reading /\ new.seen = entry[k] /\ [name |-> m] \in [name: Names]
    BY DEF Reading, Named
  <2>2. new \in Ops
    BY <1>0, <2>1 DEF Ops, Patches
  <2>3. Sends(new)
    BY <1>1, <1>3, <2>1 DEF Sends, Lengthened, Named
  <2>4. UnderWay(new)
    BY <1>0, <2>1, <2>2, <2>3 DEF UnderWay, Patches, Named
  <2> QED BY <1>3, <2>4, Starts
<1>4. ASSUME NEW kind \in {"credit", "set"}, NEW l \in Nat, Start(w, k, kind, 0, [limit |-> l]),
             kind = "credit" => entry[k].live /\ l >= entry[k].used
      PROVE  OpsOK'
  <2> DEFINE new == [pc |-> "put", key |-> k, kind |-> kind, hours |-> 0, patch |-> [limit |-> l],
                     at |-> now, seen |-> IF kind \in Reading THEN entry[k] ELSE Gone]
  <2>1. [limit |-> l] \in [limit: Nat] /\ kind \notin Named /\ (kind = "credit" => new.seen = entry[k])
        /\ (kind = "set" => kind \notin Reading)
    BY DEF Reading, Named
  <2>2. new \in Ops
    BY <1>0, <2>1 DEF Ops, Patches
  <2>3. Sends(new)
    BY <1>1, <1>4, <2>1 DEF Sends, Named
  <2>4. UnderWay(new)
    BY <1>0, <2>1, <2>2, <2>3 DEF UnderWay, Patches, Named
  <2> QED BY <1>4, <2>4, Starts
<1>5. ASSUME NEW b \in BOOLEAN, handleEnable(w, k, b)
      PROVE  OpsOK'
  <2> DEFINE new == [pc |-> "put", key |-> k, kind |-> "enable", hours |-> 0, patch |-> [enabled |-> b],
                     at |-> now, seen |-> IF "enable" \in Reading THEN entry[k] ELSE Gone]
  <2>1. [enabled |-> b] \in [enabled: BOOLEAN] /\ "enable" \notin Reading \cup Named
    BY DEF Reading, Named
  <2>2. new \in Ops
    BY <1>0, <2>1 DEF Ops, Patches
  <2>3. Sends(new)
    BY <2>1 DEF Sends, Named
  <2>4. UnderWay(new)
    BY <1>0, <2>1, <2>2, <2>3 DEF UnderWay, Patches, Named
  <2> QED BY <1>5, <2>4, Starts DEF handleEnable
<1>6. ASSUME NEW a \in Int, NEW b \in Nat
      PROVE  Above(a, b) \in Nat /\ Above(a, b) >= a /\ Above(a, b) >= b
  BY <1>6 DEF Above
<1>7. CASE handlePause(w, k)
  <2>1. n.mode = "active" /\ entry[k].live /\ SecondsLeft(n, now) = n.t - now
    BY <1>7 DEF handlePause, SecondsLeft
  <2>2. /\ withPause(n, SecondsLeft(n, now)) \in Names
        /\ withPause(n, SecondsLeft(n, now)).mode = "paused"
        /\ withPause(n, SecondsLeft(n, now)).t = Above(n.t - now, 0)
    BY <1>0, <1>1, <1>6, <2>1 DEF withPause, Names
  <2> QED BY <1>2, <1>3, <1>7, <2>1, <2>2 DEF handlePause, Named
<1>8. CASE handleResume(w, k)
  <2>1. n.mode = "paused" /\ entry[k].live
    BY <1>8 DEF handleResume
  <2>2. /\ withExpUnix(n, now + n.t) \in Names /\ withExpUnix(n, now + n.t).mode = "active"
        /\ withExpUnix(n, now + n.t).t = now + n.t
    BY <1>0, <1>1, <2>1 DEF withExpUnix, Names
  <2> QED BY <1>2, <1>3, <1>8, <2>1, <2>2 DEF handleResume, Named
<1>9. ASSUME NEW h \in Hours, handleAddHours(w, k, h)
      PROVE  OpsOK' /\ UNCHANGED <<entry, now, req, cron, billed, limits>> /\ ops' \in 0..MaxOp
  <2> DEFINE m == CASE n.mode = "paused" -> withPause(n, n.t + h)
                    [] n.mode = "active" -> withExpUnix(n, Above(n.t + h, now))
                    [] n.mode = "none"   -> withExpUnix(n, Above(now + h, now))
  <2>1. entry[k].live /\ Start(w, k, "hours", h, [name |-> m])
    BY <1>9 DEF handleAddHours
  <2>2. h \in Int /\ n.t + h \in Int /\ now + h \in Int
    BY <1>0, <1>1, <2>1, ApiKeysAssumption DEF Names
  <2>3. ASSUME NEW t \in Int
        PROVE  withPause(n, t) \in Names /\ withExpUnix(n, Above(t, now)) \in Names
    BY <1>0, <1>1, <1>6, <2>1 DEF withPause, withExpUnix, Names
  <2>4. /\ m \in Names
        /\ IF n.mode = "paused" THEN m.mode = "paused" /\ m.t = Above(n.t + h, 0)
           ELSE /\ m.mode = "active"
                /\ m.t = Above((IF n.mode = "active" THEN n.t ELSE now) + h, now)
    <3>1. n.mode = "none" \/ n.mode = "active" \/ n.mode = "paused"
      BY <1>1, <2>1 DEF Names
    <3>2. CASE n.mode = "paused"
      BY <2>2, <2>3, <3>2 DEF withPause
    <3>3. CASE n.mode = "active"
      BY <2>2, <2>3, <3>3 DEF withExpUnix
    <3>4. CASE n.mode = "none"
      BY <2>2, <2>3, <3>4 DEF withExpUnix
    <3> QED BY <3>1, <3>2, <3>3, <3>4
  <2> HIDE DEF m
  <2> QED BY <1>2, <1>3, <2>1, <2>2, <2>4 DEF Named
<1>10. ASSUME NEW h \in Hours, handleSetExpiry(w, k, h)
       PROVE  OpsOK' /\ UNCHANGED <<entry, now, req, cron, billed, limits>> /\ ops' \in 0..MaxOp
  <2> DEFINE m == IF h = 0 THEN stripMarkers(n) ELSE withExpUnix(n, Above(now + h, now))
  <2>1. entry[k].live /\ Start(w, k, "expiry", 0, [name |-> m])
    BY <1>10 DEF handleSetExpiry
  <2>A. now + h \in Int /\ n \in Names
    BY <1>0, <1>1, <1>10, <2>1, ApiKeysAssumption
  <2>2. n \in Names /\ Above(now + h, now) \in Nat
    BY <1>0, <1>6, <2>A
  <2>3. stripMarkers(n) \in Names /\ withExpUnix(n, Above(now + h, now)) \in Names
    BY <2>2 DEF stripMarkers, withExpUnix, Names
  <2>4. m \in Names
    BY <2>3
  <2> HIDE DEF m
  <2> QED BY <1>2, <1>3, <2>1, <2>4 DEF Named
<1>11. ASSUME NEW t \in Title, handleRename(w, k, t)
       PROVE  OpsOK' /\ UNCHANGED <<entry, now, req, cron, billed, limits>> /\ ops' \in 0..MaxOp
  <2> DEFINE m == [n EXCEPT !.title = t]
  <2>1. entry[k].live /\ Start(w, k, "rename", 0, [name |-> m])
    BY <1>11 DEF handleRename
  <2>2. m \in Names /\ m.mode = n.mode /\ m.t = n.t
    BY <1>1, <2>1 DEF Names
  <2> HIDE DEF m
  <2> QED BY <1>2, <1>3, <2>1, <2>2 DEF Named
<1>12. ASSUME NEW d \in Delta, handleAddCredit(w, k, d)
       PROVE  OpsOK' /\ UNCHANGED <<entry, now, req, cron, billed, limits>> /\ ops' \in 0..MaxOp
  <2> DEFINE l == Above(Above(entry[k].limit + d, entry[k].used), 0)
  <2>1. entry[k].live /\ Start(w, k, "credit", 0, [limit |-> l])
    BY <1>12 DEF handleAddCredit
  <2>2. l \in Nat /\ l >= entry[k].used
    BY <1>1, <2>1, ApiKeysAssumption DEF Above
  <2> HIDE DEF l
  <2> QED BY <1>2, <1>4, <2>1, <2>2
<1>13. ASSUME NEW l \in Limit, handleSetCredit(w, k, l)
       PROVE  OpsOK' /\ UNCHANGED <<entry, now, req, cron, billed, limits>> /\ ops' \in 0..MaxOp
  BY <1>2, <1>4, <1>13, ApiKeysAssumption DEF handleSetCredit
<1>14. ASSUME NEW b \in BOOLEAN, handleEnable(w, k, b)
       PROVE  OpsOK' /\ UNCHANGED <<entry, now, req, cron, billed, limits>> /\ ops' \in 0..MaxOp
  BY <1>2, <1>5, <1>14 DEF handleEnable
<1> QED BY <1>7, <1>8, <1>9, <1>10, <1>11, <1>12, <1>13, <1>14 DEF keyadmin

-----------------------------------------------------------------------------
(* What the steps do to the entries.                                       *)

\* The keys that are not the one a step is about.
Others(k) == \A j \in Key \ {k} :
  /\ entry'[j] = entry[j] /\ billed'[j] = billed[j] /\ limits'[j] = limits[j]

\* A key is created once.
LEMMA CreateStep ==
  ASSUME TypeOK, NEW k \in Key, NEW t \in Title, NEW h \in Hours \cap Nat, NEW l \in Limit,
         handleCreate(k, t, h, l)
  PROVE  /\ entry[k] = Unborn /\ Others(k)
         /\ entry'[k] \in Entries /\ entry'[k].used = 0 /\ entry'[k].limit = l
         /\ billed'[k] = billed[k] /\ limits'[k] = limits[k] \cup {l}
<1> DEFINE n == [title |-> t, mode |-> "none", t |-> 0]
           m == IF h > 0 THEN withExpUnix(n, now + h) ELSE n
<1>1. now \in Nat /\ h \in Nat /\ l \in Nat /\ MaxUsed \in Nat
  BY ApiKeysAssumption DEF TypeOK
<1>2. m \in Names
  <2>1. n \in Names /\ now + h \in Nat
    BY <1>1 DEF Names
  <2>2. withExpUnix(n, now + h) \in Names
    BY <2>1 DEF withExpUnix, Names
  <2> QED BY <2>1, <2>2
<1>3. /\ entry[k] = Unborn /\ entry' = [entry EXCEPT ![k] = NewEntry(m, l)]
      /\ billed' = billed /\ limits' = [limits EXCEPT ![k] = @ \cup {l}]
  BY DEF handleCreate, HasHad
<1> HIDE DEF m
<1>4. NewEntry(m, l) \in Entries /\ NewEntry(m, l).used = 0 /\ NewEntry(m, l).limit = l
  BY <1>1, <1>2 DEF NewEntry, Entries
<1> QED BY <1>3, <1>4 DEF TypeOK, Others

\* UpdateApiKey writes the fields of a live key, and not the counters.
LEMMA UpdateStep ==
  ASSUME TypeOK, OpsOK, NEW w \in Worker, UpdateApiKey(w)
  PROVE  /\ op[w] \in Ops /\ op[w].patch \in Full /\ Others(op[w].key)
         /\ billed'[op[w].key] = billed[op[w].key]
         /\ entry[op[w].key].live =>
              /\ entry[op[w].key] \in Entries /\ entry'[op[w].key] \in Entries
              /\ entry'[op[w].key].used = entry[op[w].key].used
              /\ entry'[op[w].key].limit = op[w].patch.limit
              /\ limits'[op[w].key] = limits[op[w].key] \cup {op[w].patch.limit}
              /\ \/ entry'[op[w].key].name = op[w].patch.name
                 \/ /\ Empty(op[w].patch.name)
                    /\ entry'[op[w].key].name = entry[op[w].key].name
         /\ ~entry[op[w].key].live => UNCHANGED <<entry, limits>>
<1>1. op[w] \in Ops /\ op[w].patch \in Full
  BY Busy DEF UpdateApiKey, UnderWay
<1>2. PICK k \in Key : k = op[w].key
  BY <1>1 DEF Ops
<1>3. entry \in [Key -> {Unborn, Gone} \cup Entries] /\ limits \in [Key -> SUBSET Nat]
  BY DEF TypeOK
<1>4. CASE entry[k].live
  <2>1. entry[k] \in Entries
    BY <1>3, <1>4 DEF Unborn, Gone
  <2>2. /\ entry' = [entry EXCEPT ![k] = Written(entry[k], op[w].patch)] /\ billed' = billed
        /\ limits' = [limits EXCEPT ![k] = @ \cup {op[w].patch.limit}]
    BY <1>2, <1>4 DEF UpdateApiKey, HasHad
  <2>3. /\ entry'[k] = Written(entry[k], op[w].patch) /\ Others(k)
        /\ limits'[k] = limits[k] \cup {op[w].patch.limit} /\ billed'[k] = billed[k]
    BY <1>3, <2>2 DEF Others
  <2> QED BY <1>1, <1>2, <1>4, <2>1, <2>3, WrittenOf
<1>5. CASE ~entry[k].live
  BY <1>1, <1>2, <1>5 DEF UpdateApiKey, Others
<1> QED BY <1>4, <1>5

\* An entry with another count.
LEMMA CountedOf ==
  ASSUME NEW e \in Entries, NEW u \in 0..MaxUsed
  PROVE  /\ [e EXCEPT !.used = u] \in Entries
         /\ [e EXCEPT !.used = u].used = u /\ [e EXCEPT !.used = u].limit = e.limit
BY DEF Entries

\* A reply is billed to the key it was admitted for, if that is still there.
LEMMA BillStep ==
  ASSUME TypeOK, NEW r \in Request, RecordApiKeyUsage(r)
  PROVE  /\ req[r] # None /\ req' = [req EXCEPT ![r] = None] /\ limits' = limits
         /\ \/ UNCHANGED <<entry, billed>>
            \/ \E k \in Key : /\ k = req[r] /\ Others(k)
                              /\ entry[k] \in Entries /\ entry'[k] \in Entries
                              /\ entry'[k].used = entry[k].used + 1
                              /\ entry'[k].limit = entry[k].limit
                              /\ billed'[k] = billed[k] + 1
<1>1. CASE ~entry[req[r]].live
  BY <1>1 DEF RecordApiKeyUsage
<1>2. CASE entry[req[r]].live
  <2>1. PICK k \in Key : k = req[r]
    BY DEF TypeOK, RecordApiKeyUsage
  <2>2. /\ entry \in [Key -> {Unborn, Gone} \cup Entries] /\ billed \in [Key -> Nat]
        /\ entry[k] \in Entries
    BY <1>2, <2>1 DEF TypeOK, Unborn, Gone
  <2>3. /\ entry[k].used < MaxUsed /\ limits' = limits
        /\ entry' = [entry EXCEPT ![k] = [entry[k] EXCEPT !.used = @ + 1]]
        /\ billed' = [billed EXCEPT ![k] = @ + 1]
    BY <1>2, <2>1 DEF RecordApiKeyUsage
  <2>4. /\ entry'[k] = [entry[k] EXCEPT !.used = @ + 1] /\ billed'[k] = billed[k] + 1
        /\ Others(k)
    BY <2>2, <2>3 DEF Others
  <2>5. /\ entry'[k] \in Entries /\ entry'[k].used = entry[k].used + 1
        /\ entry'[k].limit = entry[k].limit
    <3>1. entry[k].used \in Nat /\ MaxUsed \in Nat /\ entry[k].used + 1 \in 0..MaxUsed
      <4>1. entry[k].used \in Nat /\ MaxUsed \in Nat
        BY <2>2, EntryOf, ApiKeysAssumption
      <4> QED BY <2>3, <4>1
    <3> QED BY <2>2, <2>4, <3>1, CountedOf
  <2> QED BY <2>1, <2>2, <2>3, <2>4, <2>5 DEF RecordApiKeyUsage
<1> QED BY <1>1, <1>2 DEF RecordApiKeyUsage

\* The admin's reset puts the counter of a live key back to zero.
LEMMA ResetStep ==
  ASSUME TypeOK, NEW k \in Key, ResetApiKeyUsage(k)
  PROVE  /\ entry[k] \in Entries /\ entry'[k] \in Entries /\ Others(k) /\ limits' = limits
         /\ entry'[k].used = 0 /\ entry'[k].limit = entry[k].limit /\ billed'[k] = 0
<1>1. /\ entry \in [Key -> {Unborn, Gone} \cup Entries] /\ billed \in [Key -> Nat]
      /\ entry[k] \in Entries
  BY DEF ResetApiKeyUsage, TypeOK, Unborn, Gone
<1>2. /\ entry' = [entry EXCEPT ![k] = [entry[k] EXCEPT !.used = 0]]
      /\ billed' = [billed EXCEPT ![k] = 0] /\ limits' = limits
  BY DEF ResetApiKeyUsage
<1>3. entry'[k] = [entry[k] EXCEPT !.used = 0] /\ billed'[k] = 0 /\ Others(k)
  BY <1>1, <1>2 DEF Others
<1>4. 0 \in 0..MaxUsed
  BY ApiKeysAssumption
<1> QED BY <1>1, <1>2, <1>3, <1>4, CountedOf

\* Every other step leaves the entries, the history and the limits alone.
Quiet == UNCHANGED <<entry, billed, limits>>

LEMMA QuietSteps ==
  ASSUME TypeOK, OpsOK,
         \/ \E w \in Worker, k \in Key : keyadmin(w, k)
         \/ \E w \in Worker : apiUpdateApiKey(w) \/ Fail(w)
         \/ \E r \in Request : Abort(r) \/ \E k \in Key : authenticate(r, k)
         \/ Tick \/ ListKeys \/ ParseNothing \/ UNCHANGED vars
  PROVE  Quiet
BY KeyadminStarts DEF Quiet, apiUpdateApiKey, Fail, Abort, authenticate, Tick, ListKeys,
   ParseNothing, vars

\* A PUT that kiro-go turns into a write of all the fields.
LEMMA PassedOn ==
  ASSUME NEW o \in Ops, NEW m \in Full
  PROVE  LET new == [o EXCEPT !.pc = "write", !.patch = m]
         IN  /\ new \in Ops /\ new.pc = "write" /\ new.patch = m
             /\ new.kind = o.kind /\ new.seen = o.seen /\ new.at = o.at
             /\ new.key = o.key /\ new.hours = o.hours
BY DEF Ops

\* Every step leaves each operation under way with what it must send.
LEMMA OpsStep == TypeOK /\ OpsOK /\ [Next]_vars => OpsOK'
<1> SUFFICES ASSUME TypeOK, OpsOK, [Next]_vars PROVE OpsOK'
  OBVIOUS
<1>0. now \in Nat
  BY DEF TypeOK
<1>1. ASSUME NEW w \in Worker, op' = [op EXCEPT ![w] = Idle], now' = now
      PROVE  OpsOK'
  BY <1>1 DEF OpsOK, UnderWay
<1>2. ASSUME NEW w \in Worker, apiUpdateApiKey(w)
      PROVE  OpsOK'
  <2> DEFINE o == op[w]
             m == Merge(entry[o.key], o.patch)
             new == [o EXCEPT !.pc = "write", !.patch = m]
  <2>1. o \in Ops /\ UnderWay(o) /\ o.pc = "put" /\ o.patch \in Patches
    BY <1>2, Busy DEF apiUpdateApiKey, UnderWay
  <2>2. CASE entry[o.key].live
    <3>1. entry[o.key] \in Entries
      BY <2>1, <2>2 DEF TypeOK, Unborn, Gone, Ops
    <3>2. /\ m \in Full
          /\ o.patch \in [name: Names] => m.name = o.patch.name
          /\ o.patch \in [limit: Nat] => m.limit = o.patch.limit
      BY <2>1, <3>1, MergeOf
    <3>3. op' = [op EXCEPT ![w] = new] /\ now' = now
      BY <1>2, <2>2 DEF apiUpdateApiKey
    <3> HIDE DEF m
    <3>4. /\ new \in Ops /\ new.pc = "write" /\ new.patch = m /\ new.kind = o.kind
          /\ new.seen = o.seen /\ new.at = o.at /\ new.hours = o.hours
      BY <2>1, <3>2, PassedOn
    <3> HIDE DEF new
    <3>5. Sends(new)
      BY <2>1, <3>2, <3>4 DEF Sends, Lengthened, UnderWay, Named
    <3>6. UnderWay(new)
      BY <2>1, <3>2, <3>4, <3>5 DEF UnderWay
    <3> HIDE DEF o
    <3> QED BY <3>3, <3>4, <3>6 DEF OpsOK, UnderWay
  <2>3. CASE ~entry[o.key].live
    BY <1>1, <1>2, <2>3 DEF apiUpdateApiKey
  <2> QED BY <2>2, <2>3
<1>3. ASSUME NEW w \in Worker, UpdateApiKey(w) \/ Fail(w)
      PROVE  OpsOK'
  BY <1>1, <1>3 DEF UpdateApiKey, Fail
<1>4. ASSUME UNCHANGED op, now' \in {now, now + 1}
      PROVE  OpsOK'
  <2>1. \A o \in Ops : o.at <= now => o.at <= now'
    BY <1>0, <1>4 DEF Ops
  <2> QED BY <1>4, <2>1 DEF OpsOK, UnderWay
<1>5. ASSUME \E r \in Request : \/ \E k \in Key : authenticate(r, k)
                                \/ RecordApiKeyUsage(r) \/ Abort(r)
      PROVE  UNCHANGED <<op, now>>
  BY <1>5 DEF authenticate, RecordApiKeyUsage, Abort
<1>6. ASSUME \/ \E k \in Key : handleDelete(k) \/ ResetApiKeyUsage(k)
             \/ \E k \in Key, t \in Title, h \in Hours \cap Nat, l \in Limit : handleCreate(k, t, h, l)
             \/ Tick \/ ListKeys \/ ParseNothing \/ UNCHANGED vars
      PROVE  UNCHANGED op /\ now' \in {now, now + 1}
  BY <1>6 DEF handleDelete, ResetApiKeyUsage, handleCreate, Tick, ListKeys, ParseNothing, vars
<1> QED BY <1>2, <1>3, <1>4, <1>5, <1>6, KeyadminStarts DEF Next

\* Every step is one of these, of one key.
LEMMA Steps ==
  ASSUME TypeOK, OpsOK, [Next]_vars
  PROVE  \/ Quiet
         \/ \E k \in Key : Others(k) /\
              \/ entry[k] = Unborn /\ entry'[k] \in Entries /\ entry'[k].used = 0
              \/ entry[k] \in Entries /\ entry'[k] = Gone
              \/ entry[k] \in Entries /\ entry'[k] \in Entries
<1>1. ASSUME NEW k \in Key, handleDelete(k)
      PROVE  Others(k) /\ entry[k] \in Entries /\ entry'[k] = Gone
  BY <1>1 DEF handleDelete, Others, TypeOK, Unborn, Gone
<1>2. ASSUME NEW w \in Worker, UpdateApiKey(w)
      PROVE  \/ Quiet
             \/ /\ op[w].key \in Key /\ Others(op[w].key)
                /\ entry[op[w].key] \in Entries /\ entry'[op[w].key] \in Entries
  <2>1. CASE ~entry[op[w].key].live
    BY <1>2, <2>1 DEF UpdateApiKey, Quiet
  <2>2. CASE entry[op[w].key].live
    BY <1>2, <2>2, UpdateStep DEF Ops
  <2> QED BY <2>1, <2>2
<1>3. ASSUME NEW r \in Request, RecordApiKeyUsage(r)
      PROVE  \/ Quiet
             \/ \E k \in Key : Others(k) /\ entry[k] \in Entries /\ entry'[k] \in Entries
  BY <1>3, BillStep DEF Quiet
<1>4. ASSUME NEW k \in Key, ResetApiKeyUsage(k)
      PROVE  Others(k) /\ entry[k] \in Entries /\ entry'[k] \in Entries
  BY <1>4, ResetStep
<1>5. ASSUME NEW k \in Key, NEW t \in Title, NEW h \in Hours \cap Nat, NEW l \in Limit,
             handleCreate(k, t, h, l)
      PROVE  /\ Others(k) /\ entry[k] = Unborn
             /\ entry'[k] \in Entries /\ entry'[k].used = 0
  BY <1>5, CreateStep
<1> QED BY <1>1, <1>2, <1>3, <1>4, <1>5, QuietSteps DEF Next

\* Every step keeps the types.
LEMMA NextType == TypeOK /\ OpsOK /\ [Next]_vars => TypeOK'
<1> SUFFICES ASSUME TypeOK, OpsOK, [Next]_vars PROVE TypeOK'
  OBVIOUS
<1>1. entry' \in [Key -> {Unborn, Gone} \cup Entries]
  <2>1. DOMAIN entry' = Key /\ entry' = [k \in Key |-> entry'[k]]
    <3>1. \/ entry' = entry
          \/ \E k \in Key : \E e : entry' = [entry EXCEPT ![k] = e]
      <4>1. ASSUME NEW w \in Worker, UpdateApiKey(w)
            PROVE  entry' = entry \/ \E k \in Key : \E e : entry' = [entry EXCEPT ![k] = e]
        BY <4>1, UpdateStep DEF UpdateApiKey, Ops
      <4>2. ASSUME NEW r \in Request, RecordApiKeyUsage(r)
            PROVE  entry' = entry \/ \E k \in Key : \E e : entry' = [entry EXCEPT ![k] = e]
        BY <4>2 DEF RecordApiKeyUsage, TypeOK
      <4>3. ASSUME NEW k \in Key,
                   \/ handleDelete(k) \/ ResetApiKeyUsage(k)
                   \/ \E t \in Title, h \in Hours \cap Nat, l \in Limit : handleCreate(k, t, h, l)
            PROVE  \E e : entry' = [entry EXCEPT ![k] = e]
        BY <4>3 DEF handleDelete, ResetApiKeyUsage, handleCreate
      <4> QED BY <4>1, <4>2, <4>3, QuietSteps DEF Next, Quiet
    <3> QED BY <3>1 DEF TypeOK
  <2>2. \A k \in Key : entry'[k] \in {Unborn, Gone} \cup Entries
    BY Steps DEF TypeOK, Quiet, Others
  <2> QED BY <2>1, <2>2
<1>2. billed' \in [Key -> Nat]
  <2>1. ASSUME NEW r \in Request, RecordApiKeyUsage(r)
        PROVE  billed' \in [Key -> Nat]
    BY <2>1 DEF RecordApiKeyUsage, TypeOK
  <2>2. ASSUME NEW k \in Key,
               \/ handleDelete(k) \/ ResetApiKeyUsage(k)
               \/ \E t \in Title, h \in Hours \cap Nat, l \in Limit : handleCreate(k, t, h, l)
        PROVE  billed' \in [Key -> Nat]
    <3>1. billed \in [Key -> Nat]
      BY DEF TypeOK
    <3>2. billed' = billed \/ billed' = [billed EXCEPT ![k] = 0]
      BY <2>2 DEF handleDelete, ResetApiKeyUsage, handleCreate
    <3> QED BY <3>1, <3>2
  <2>3. ASSUME NEW w \in Worker, UpdateApiKey(w)
        PROVE  billed' \in [Key -> Nat]
    BY <2>3 DEF UpdateApiKey, TypeOK
  <2> QED BY <2>1, <2>2, <2>3, QuietSteps DEF Next, Quiet, TypeOK
<1>3. limits' \in [Key -> SUBSET Nat]
  <2>1. ASSUME NEW w \in Worker, UpdateApiKey(w)
        PROVE  limits' \in [Key -> SUBSET Nat]
    <3>1. op[w].key \in Key /\ op[w].patch.limit \in Nat
      BY <2>1, UpdateStep DEF Ops, Full
    <3> QED BY <2>1, <3>1 DEF UpdateApiKey, HasHad, TypeOK
  <2>2. ASSUME NEW k \in Key, NEW t \in Title, NEW h \in Hours \cap Nat, NEW l \in Limit,
               handleCreate(k, t, h, l)
        PROVE  limits' \in [Key -> SUBSET Nat]
    BY <2>2, ApiKeysAssumption DEF handleCreate, HasHad, TypeOK
  <2>3. ASSUME \/ \E r \in Request : RecordApiKeyUsage(r)
               \/ \E k \in Key : handleDelete(k) \/ ResetApiKeyUsage(k)
        PROVE  limits' = limits
    BY <2>3 DEF RecordApiKeyUsage, handleDelete, ResetApiKeyUsage
  <2> QED BY <2>1, <2>2, <2>3, QuietSteps DEF Next, Quiet, TypeOK
<1>4. req' \in [Request -> Key \cup {None}]
  <2>1. ASSUME \E w \in Worker, k \in Key : keyadmin(w, k)
        PROVE  req' = req
    BY <2>1, KeyadminStarts
  <2>2. ASSUME NEW r \in Request,
               RecordApiKeyUsage(r) \/ Abort(r) \/ \E k \in Key : authenticate(r, k)
        PROVE  req' \in [Request -> Key \cup {None}]
    BY <2>2 DEF RecordApiKeyUsage, Abort, authenticate, TypeOK
  <2> QED BY <2>1, <2>2 DEF Next, vars, TypeOK, handleCreate, handleDelete, ResetApiKeyUsage,
     apiUpdateApiKey, UpdateApiKey, Fail, Tick, ListKeys, ParseNothing
<1>5. now' \in 0..MaxTime /\ cron' \in {"idle", "listed"} /\ ops' \in 0..MaxOp
  <2>1. ASSUME \E w \in Worker, k \in Key : keyadmin(w, k)
        PROVE  UNCHANGED <<now, cron>> /\ ops' \in 0..MaxOp
    BY <2>1, KeyadminStarts
  <2>2. ASSUME \E r \in Request : \/ \E k \in Key : authenticate(r, k)
                                  \/ RecordApiKeyUsage(r) \/ Abort(r)
        PROVE  UNCHANGED <<now, cron, ops>>
    BY <2>2 DEF authenticate, RecordApiKeyUsage, Abort
  <2>3. ASSUME \/ \E w \in Worker : apiUpdateApiKey(w) \/ UpdateApiKey(w) \/ Fail(w)
               \/ \E k \in Key, t \in Title, h \in Hours \cap Nat, l \in Limit : handleCreate(k, t, h, l)
        PROVE  UNCHANGED <<now, cron, ops>>
    BY <2>3 DEF apiUpdateApiKey, UpdateApiKey, Fail, handleCreate
  <2>4. ASSUME \/ \E k \in Key : handleDelete(k) \/ ResetApiKeyUsage(k)
               \/ Tick \/ ListKeys \/ ParseNothing \/ UNCHANGED vars
        PROVE  now' \in 0..MaxTime /\ cron' \in {"idle", "listed"} /\ ops' \in 0..MaxOp
    <3>1. /\ now \in Nat /\ now <= MaxTime /\ MaxTime \in Nat
          /\ ops \in Nat /\ ops <= MaxOp /\ MaxOp \in Nat
      BY ApiKeysAssumption DEF TypeOK
    <3> QED BY <2>4, <3>1
        DEF handleDelete, ResetApiKeyUsage, Tick, ListKeys, ParseNothing, vars, TypeOK
  <2> QED BY <2>1, <2>2, <2>3, <2>4 DEF Next, TypeOK
<1>6. OpsOK' => \A w \in Worker : op'[w].pc \in {"idle", "put", "write"}
  BY DEF OpsOK, Idle, Ops
<1>7. OpsOK'
  BY OpsStep
<1> QED BY <1>1, <1>2, <1>3, <1>4, <1>5, <1>6, <1>7 DEF TypeOK

\* The tables keep their types, and operations under way what they must send.
THEOREM KeysTyped == Spec => [](TypeOK /\ OpsOK)
<1>1. TypeOK /\ OpsOK /\ [Next]_vars => (TypeOK /\ OpsOK)'
  BY NextType, OpsStep
<1> QED BY <1>1, InitOK, PTL DEF Spec

\* The types of the keys' table, the history and the requests in flight.
THEOREM TypeCorrect == Spec => []TypeOK
BY KeysTyped, PTL

-----------------------------------------------------------------------------
(* The counters.                                                           *)

\* A key that does not exist yet was not billed.
UnbornUnbilled == \A k \in Key : entry[k] = Unborn => billed[k] = 0

\* A step that writes the entry of a key leaves its counter and the history of
\* what was billed to it equal, whichever of the two it changes.
LEMMA UsageStep ==
  TypeOK /\ OpsOK /\ UsageIsNotLost /\ UnbornUnbilled /\ [Next]_vars
    => UsageIsNotLost' /\ UnbornUnbilled'
<1> SUFFICES ASSUME TypeOK, OpsOK, UsageIsNotLost, UnbornUnbilled, [Next]_vars
             PROVE  UsageIsNotLost' /\ UnbornUnbilled'
  OBVIOUS
<1> DEFINE Same(k) == /\ entry'[k].live => entry'[k].used = billed'[k]
                      /\ entry'[k] = Unborn => billed'[k] = 0
<1>1. SUFFICES \A k \in Key : Same(k)
  BY DEF UsageIsNotLost, UnbornUnbilled
<1>2. ASSUME NEW k \in Key, Others(k), Same(k)
      PROVE  \A j \in Key : Same(j)
  BY <1>2 DEF Others, UsageIsNotLost, UnbornUnbilled
<1>3. ASSUME NEW k \in Key, handleDelete(k)
      PROVE  Others(k) /\ Same(k)
  BY <1>3 DEF handleDelete, Others, TypeOK, Unborn, Gone
<1>4. ASSUME NEW w \in Worker, UpdateApiKey(w)
      PROVE  \A k \in Key : Same(k)
  <2>1. CASE ~entry[op[w].key].live
    BY <1>4, <2>1 DEF UpdateApiKey, UsageIsNotLost, UnbornUnbilled
  <2>2. CASE entry[op[w].key].live
    <3>1. PICK k \in Key : k = op[w].key
      BY <1>4, UpdateStep DEF Ops
    <3>2. /\ Others(k) /\ billed'[k] = billed[k] /\ entry'[k] \in Entries
          /\ entry'[k].used = entry[k].used
      BY <1>4, <2>2, <3>1, UpdateStep
    <3> QED BY <1>2, <2>2, <3>1, <3>2, EntryOf DEF UsageIsNotLost
  <2> QED BY <2>1, <2>2
<1>5. ASSUME NEW r \in Request, RecordApiKeyUsage(r)
      PROVE  \A k \in Key : Same(k)
  <2>1. CASE UNCHANGED <<entry, billed>>
    BY <2>1 DEF UsageIsNotLost, UnbornUnbilled
  <2>2. ASSUME NEW k \in Key, Others(k), entry[k] \in Entries, entry'[k] \in Entries,
               entry'[k].used = entry[k].used + 1, billed'[k] = billed[k] + 1
        PROVE  Same(k)
    BY <2>2, EntryOf DEF UsageIsNotLost
  <2> QED BY <1>2, <1>5, <2>1, <2>2, BillStep
<1>6. ASSUME NEW k \in Key, ResetApiKeyUsage(k)
      PROVE  Others(k) /\ Same(k)
  BY <1>6, ResetStep, EntryOf
<1>7. ASSUME NEW k \in Key, NEW t \in Title, NEW h \in Hours \cap Nat, NEW l \in Limit,
             handleCreate(k, t, h, l)
      PROVE  Others(k) /\ Same(k)
  BY <1>7, CreateStep, EntryOf DEF UnbornUnbilled
<1>8. CASE Quiet
  BY <1>8 DEF Quiet, UsageIsNotLost, UnbornUnbilled
<1> QED BY <1>2, <1>3, <1>4, <1>5, <1>6, <1>7, <1>8, QuietSteps DEF Next

\* Whatever admins write over each other's snapshots: the usage of a key is what
\* was recorded for it since its last reset.
THEOREM UsageIsKept == Spec => []UsageIsNotLost
<1>1. Init => UsageIsNotLost /\ UnbornUnbilled
  BY DEF Init, UsageIsNotLost, UnbornUnbilled, Unborn
<1> QED BY <1>1, UsageStep, KeysTyped, PTL DEF Spec

\* No operation that is still under way brings a deleted key back.
THEOREM DeletedStays == Spec => DeletedStaysDeleted
<1>1. ASSUME TypeOK, OpsOK, [Next]_vars
      PROVE  \A k \in Key : entry[k] = Gone => entry'[k] = Gone
  <2>1. Gone # Unborn /\ Gone \notin Entries
    BY DEF Gone, Unborn, Entries
  <2> QED BY <1>1, <2>1, Steps DEF Quiet, Others
<1> QED BY <1>1, KeysTyped, PTL DEF Spec, DeletedStaysDeleted

-----------------------------------------------------------------------------
(* The limit.                                                              *)

InFlight(k) == {r \in Request : req[r] = k}

\* A key that always had a limit is over it by less than the requests that could
\* still be billed: what it used and what is in flight for it stay below one of
\* its limits and the number of requests.
Bounded(k) ==
  \E l \in limits[k] :
    entry[k].used + Cardinality(InFlight(k)) < l + Cardinality(Request)

LimitInv ==
  \A k \in Key : entry[k].live =>
    /\ entry[k].limit \in limits[k]
    /\ 0 \notin limits[k] => Bounded(k)

\* The requests of a key in flight, as requests come and go.
LEMMA Flight ==
  ASSUME TypeOK, NEW k \in Key
  PROVE  /\ IsFiniteSet(InFlight(k)) /\ Cardinality(Request) \in Nat
         /\ Cardinality(InFlight(k)) \in 0..Cardinality(Request)
<1>1. InFlight(k) \subseteq Request
  BY DEF InFlight
<1> QED BY <1>1, ApiKeysAssumption, FS_Subset, FS_CardinalityType

LEMMA Joins ==
  ASSUME TypeOK, NEW k \in Key, NEW r \in Request, req[r] # k, req' = [req EXCEPT ![r] = k]
  PROVE  /\ Cardinality(InFlight(k)') = Cardinality(InFlight(k)) + 1
         /\ Cardinality(InFlight(k)) + 1 <= Cardinality(Request)
<1>1. InFlight(k)' = InFlight(k) \cup {r} /\ r \notin InFlight(k) /\ InFlight(k)' \subseteq Request
  BY DEF InFlight, TypeOK
<1>2. /\ IsFiniteSet(InFlight(k)) /\ Cardinality(InFlight(k)) \in Nat
      /\ Cardinality(Request) \in Nat
  BY Flight
<1>3. Cardinality(InFlight(k)') = Cardinality(InFlight(k)) + 1
  BY <1>1, <1>2, FS_AddElement
<1>4. Cardinality(InFlight(k)') <= Cardinality(Request)
  BY <1>1, ApiKeysAssumption, FS_Subset
<1> QED BY <1>3, <1>4

LEMMA Leaves ==
  ASSUME TypeOK, NEW k \in Key, NEW r \in Request, req[r] # None, req' = [req EXCEPT ![r] = None]
  PROVE  /\ req[r] = k => Cardinality(InFlight(k)') = Cardinality(InFlight(k)) - 1
         /\ req[r] # k => InFlight(k)' = InFlight(k)
<1>1. k # None
  BY ApiKeysAssumption
<1>2. req[r] # k => InFlight(k)' = InFlight(k)
  BY <1>1 DEF InFlight, TypeOK
<1>3. CASE req[r] = k
  <2>1. InFlight(k)' = InFlight(k) \ {r} /\ r \in InFlight(k)
    BY <1>1, <1>3 DEF InFlight, TypeOK
  <2> QED BY <1>3, <2>1, Flight, FS_RemoveElement
<1> QED BY <1>2, <1>3

\* A key with a limit that has used nothing is within it, whatever is in flight.
LEMMA FreshNext ==
  ASSUME TypeOK', NEW k \in Key, NEW l \in limits'[k], 0 \notin limits'[k], entry'[k].used = 0
  PROVE  Bounded(k)'
<1>1. l \in Nat /\ l >= 1
  BY DEF TypeOK
<1>2. InFlight(k)' \subseteq Request
  BY DEF InFlight
<1>3. /\ Cardinality(InFlight(k)') \in Nat /\ Cardinality(Request) \in Nat
      /\ Cardinality(InFlight(k)') <= Cardinality(Request)
  BY <1>2, ApiKeysAssumption, FS_Subset, FS_CardinalityType
<1>4. entry'[k].used + Cardinality(InFlight(k)') < l + Cardinality(Request)
  BY <1>1, <1>3
<1> QED BY <1>4 DEF Bounded

\* Every step keeps it: a request is admitted only while the key is under the
\* limit it has now, and a bill takes its request out of flight.
LEMMA LimitStep == TypeOK /\ OpsOK /\ LimitInv /\ [Next]_vars => LimitInv'
<1> SUFFICES ASSUME TypeOK, OpsOK, LimitInv, [Next]_vars PROVE LimitInv'
  OBVIOUS
<1>0. TypeOK'
  BY NextType
<1> DEFINE Kept(k) == entry'[k].live =>
                        /\ entry'[k].limit \in limits'[k]
                        /\ 0 \notin limits'[k] => Bounded(k)'
<1>1. SUFFICES \A k \in Key : Kept(k)
  BY DEF LimitInv
<1>2. ASSUME NEW k \in Key, Others(k), Kept(k), req' = req
      PROVE  \A j \in Key : Kept(j)
  BY <1>2 DEF Others, LimitInv, Bounded, InFlight
<1>3. ASSUME Quiet, req' = req
      PROVE  \A j \in Key : Kept(j)
  BY <1>3 DEF Quiet, LimitInv, Bounded, InFlight
<1>4. ASSUME NEW r \in Request, NEW k \in Key, authenticate(r, k)
      PROVE  \A j \in Key : Kept(j)
  <2>1. /\ Quiet /\ entry[k].live /\ ~ApiKeyOverLimit(entry[k]) /\ req[r] # k
        /\ req' = [req EXCEPT ![r] = k]
    BY <1>4, ApiKeysAssumption DEF authenticate, Quiet
  <2>2. \A j \in Key \ {k} : InFlight(j)' = InFlight(j)
    BY <1>4, ApiKeysAssumption DEF authenticate, InFlight, TypeOK
  <2>3. ASSUME 0 \notin limits[k] PROVE Bounded(k)'
    <3>1. entry[k] \in Entries
      BY <2>1 DEF TypeOK, Unborn, Gone
    <3>2. entry[k].limit \in Nat /\ entry[k].used \in Nat /\ entry[k].limit \in limits[k]
      BY <2>1, <3>1, EntryOf DEF LimitInv
    <3>3. entry[k].used < entry[k].limit
      BY <2>1, <2>3, <3>2 DEF ApiKeyOverLimit
    <3>4. /\ Cardinality(InFlight(k)') = Cardinality(InFlight(k)) + 1
          /\ Cardinality(InFlight(k)) + 1 <= Cardinality(Request)
          /\ Cardinality(InFlight(k)) \in Nat /\ Cardinality(Request) \in Nat
      <4>1. /\ Cardinality(InFlight(k)') = Cardinality(InFlight(k)) + 1
            /\ Cardinality(InFlight(k)) + 1 <= Cardinality(Request)
        BY <2>1, Joins
      <4>2. Cardinality(InFlight(k)) \in Nat /\ Cardinality(Request) \in Nat
        BY Flight
      <4> QED BY <4>1, <4>2
    <3>5. entry[k].used + Cardinality(InFlight(k)') < entry[k].limit + Cardinality(Request)
      BY <3>2, <3>3, <3>4
    <3> QED BY <2>1, <3>2, <3>5 DEF Bounded, Quiet
  <2>4. ASSUME NEW j \in Key \ {k} PROVE Kept(j)
    BY <2>1, <2>2, <2>4 DEF Quiet, LimitInv, Bounded
  <2>5. Kept(k)
    BY <2>1, <2>3 DEF Quiet, LimitInv
  <2> HIDE DEF Kept
  <2> QED BY <2>4, <2>5
<1>5. ASSUME NEW r \in Request, NEW j \in Key, req[r] # None, req' = [req EXCEPT ![r] = None],
             entry[j].live, 0 \notin limits[j], limits'[j] = limits[j],
             \/ entry'[j].used = entry[j].used
             \/ entry'[j].used = entry[j].used + 1 /\ req[r] = j
      PROVE  Bounded(j)'
  <2>1. entry[j] \in Entries
    BY <1>5 DEF TypeOK, Unborn, Gone
  <2>2. PICK l \in limits[j] :
          entry[j].used + Cardinality(InFlight(j)) < l + Cardinality(Request)
    BY <1>5 DEF LimitInv, Bounded
  <2>3. /\ entry[j].used \in Nat /\ l \in Nat
        /\ Cardinality(InFlight(j)) \in Nat /\ Cardinality(Request) \in Nat
    BY <2>1, EntryOf, Flight DEF TypeOK
  <2>4. /\ req[r] = j => Cardinality(InFlight(j)') = Cardinality(InFlight(j)) - 1
        /\ req[r] # j => InFlight(j)' = InFlight(j)
    BY <1>5, Leaves
  <2>5. entry'[j].used + Cardinality(InFlight(j)') < l + Cardinality(Request)
    BY <1>5, <2>2, <2>3, <2>4
  <2> QED BY <1>5, <2>2, <2>5 DEF Bounded
<1>6. ASSUME NEW r \in Request, RecordApiKeyUsage(r)
      PROVE  \A j \in Key : Kept(j)
  <2>1. /\ req[r] # None /\ req' = [req EXCEPT ![r] = None] /\ limits' = limits
        /\ \/ entry' = entry
           \/ \E k \in Key : /\ k = req[r] /\ Others(k)
                             /\ entry[k] \in Entries /\ entry'[k] \in Entries
                             /\ entry'[k].used = entry[k].used + 1
                             /\ entry'[k].limit = entry[k].limit
    BY <1>6, BillStep
  <2>2. ASSUME NEW j \in Key, entry'[j].live
        PROVE  /\ entry[j].live /\ entry'[j].limit = entry[j].limit
               /\ \/ entry'[j].used = entry[j].used
                  \/ entry'[j].used = entry[j].used + 1 /\ req[r] = j
    BY <2>1, <2>2, EntryOf DEF Others
  <2> QED BY <1>5, <2>1, <2>2 DEF LimitInv
<1>7. ASSUME NEW r \in Request, Abort(r)
      PROVE  \A j \in Key : Kept(j)
  BY <1>5, <1>7 DEF Abort, LimitInv
<1>8. ASSUME NEW k \in Key, handleDelete(k)
      PROVE  \A j \in Key : Kept(j)
  BY <1>2, <1>8 DEF handleDelete, Others, TypeOK, Gone
<1>9. ASSUME NEW k \in Key, ResetApiKeyUsage(k)
      PROVE  \A j \in Key : Kept(j)
  <2>1. /\ entry[k] \in Entries /\ entry'[k] \in Entries /\ Others(k) /\ limits' = limits
        /\ entry'[k].used = 0 /\ entry'[k].limit = entry[k].limit /\ req' = req
    BY <1>9, ResetStep DEF ResetApiKeyUsage
  <2>2. entry[k].live /\ entry[k].limit \in limits[k]
    BY <2>1, EntryOf DEF LimitInv
  <2>3. 0 \notin limits'[k] => Bounded(k)'
    BY <1>0, <2>1, <2>2, FreshNext
  <2> QED BY <1>2, <2>1, <2>2, <2>3
<1>10. ASSUME NEW k \in Key, NEW t \in Title, NEW h \in Hours \cap Nat, NEW l \in Limit,
              handleCreate(k, t, h, l)
       PROVE  \A j \in Key : Kept(j)
  <2>1. /\ Others(k) /\ entry'[k].used = 0 /\ entry'[k].limit = l
        /\ limits'[k] = limits[k] \cup {l} /\ req' = req
    <3>1. req' = req
      BY <1>10 DEF handleCreate
    <3>2. /\ Others(k) /\ entry'[k].used = 0 /\ entry'[k].limit = l
          /\ limits'[k] = limits[k] \cup {l}
      BY <1>10, CreateStep
    <3> QED BY <3>1, <3>2
  <2>2. 0 \notin limits'[k] => Bounded(k)'
    BY <1>0, <2>1, FreshNext
  <2> QED BY <1>2, <2>1, <2>2
<1>11. ASSUME NEW w \in Worker, UpdateApiKey(w)
       PROVE  \A j \in Key : Kept(j)
  <2>1. CASE ~entry[op[w].key].live
    BY <1>3, <1>11, <2>1 DEF UpdateApiKey, Quiet
  <2>2. CASE entry[op[w].key].live
    <3>1. PICK k \in Key : k = op[w].key
      BY <1>11, UpdateStep DEF Ops
    <3>2. /\ Others(k) /\ entry'[k].used = entry[k].used /\ req' = req
          /\ entry'[k].limit \in limits'[k] /\ limits[k] \subseteq limits'[k]
      BY <1>11, <2>2, <3>1, UpdateStep DEF UpdateApiKey
    <3>3. 0 \notin limits'[k] => Bounded(k)'
      BY <2>2, <3>1, <3>2 DEF LimitInv, Bounded, InFlight
    <3> QED BY <1>2, <3>2, <3>3
  <2> QED BY <2>1, <2>2
<1>12. ASSUME \/ \E w \in Worker, k \in Key : keyadmin(w, k)
              \/ \E w \in Worker : apiUpdateApiKey(w) \/ Fail(w)
              \/ Tick \/ ListKeys \/ ParseNothing \/ UNCHANGED vars
       PROVE  Quiet /\ req' = req
  <2>1. Quiet
    BY <1>12, QuietSteps
  <2>2. req' = req
    BY <1>12, KeyadminStarts DEF apiUpdateApiKey, Fail, Tick, ListKeys, ParseNothing, vars
  <2> QED BY <2>1, <2>2
<1> QED BY <1>3, <1>4, <1>6, <1>7, <1>8, <1>9, <1>10, <1>11, <1>12 DEF Next

\* However the admin changes the limit meanwhile, a key that was never unlimited
\* goes over one of the limits it had by less than the requests in flight at once.
THEOREM OvershootBounded == Spec => []OvershootIsBounded
<1>1. Init => LimitInv
  BY DEF Init, LimitInv, Unborn
<1>2. TypeOK /\ LimitInv => OvershootIsBounded
  <2> SUFFICES ASSUME TypeOK, LimitInv, NEW k \in Key, entry[k].live, 0 \notin limits[k]
               PROVE  \E l \in limits[k] : entry[k].used < l + Cardinality(Request)
    BY DEF OvershootIsBounded
  <2>1. PICK l \in limits[k] : entry[k].used + Cardinality(InFlight(k)) < l + Cardinality(Request)
    BY DEF LimitInv, Bounded
  <2>2. entry[k] \in Entries
    BY DEF TypeOK, Unborn, Gone
  <2>3. /\ entry[k].used \in Nat /\ l \in Nat
        /\ Cardinality(InFlight(k)) \in Nat /\ Cardinality(Request) \in Nat
    BY <2>2, EntryOf, Flight DEF TypeOK
  <2> QED BY <2>1, <2>3
<1> QED BY <1>1, <1>2, LimitStep, KeysTyped, PTL DEF Spec

-----------------------------------------------------------------------------
(* What a write of keyadmin's does.                                        *)

\* The operation that writes is UpdateApiKey's: the entry has its limit and its
\* name, unless that is empty, and the counter it had.
LEMMA WritesStep ==
  ASSUME TypeOK, OpsOK, [Next]_vars, NEW w \in Worker, Writes(w)
  PROVE  /\ UnderWay(op[w]) /\ op[w].patch \in Full /\ op[w].key \in Key
         /\ entry[op[w].key] \in Entries /\ entry'[op[w].key] \in Entries
         /\ entry'[op[w].key].used = entry[op[w].key].used
         /\ entry'[op[w].key].limit = op[w].patch.limit
         /\ \/ entry'[op[w].key].name = op[w].patch.name
            \/ /\ Empty(op[w].patch.name)
               /\ entry'[op[w].key].name = entry[op[w].key].name
<1>1. op[w] \in Ops /\ UnderWay(op[w])
  BY Busy DEF Writes
<1>2. op'[w] # op[w]
  BY DEF Writes, Idle
<1>3. ASSUME NEW v \in Worker, v # w, UpdateApiKey(v) \/ apiUpdateApiKey(v) \/ Fail(v)
      PROVE  op'[w] = op[w]
  BY <1>3 DEF UpdateApiKey, apiUpdateApiKey, Fail, OpsOK
<1>4. ~apiUpdateApiKey(w) /\ ~Fail(w)
  BY DEF Writes, apiUpdateApiKey, Fail
<1>5. ASSUME NEW v \in Worker, NEW k \in Key, keyadmin(v, k)
      PROVE  op'[w] = op[w]
  <2>1. PICK kind, hours, patch : Start(v, k, kind, hours, patch)
    BY <1>5 DEF keyadmin, handlePause, handleResume, handleAddHours, handleSetExpiry,
       handleRename, handleAddCredit, handleSetCredit, handleEnable
  <2>2. v # w
    BY <2>1 DEF Start, Writes, Idle
  <2> QED BY <2>1, <2>2 DEF Start, OpsOK
<1>6. ASSUME \/ \E k \in Key : \/ handleDelete(k) \/ ResetApiKeyUsage(k)
                               \/ \E t \in Title, h \in Hours \cap Nat, l \in Limit :
                                    handleCreate(k, t, h, l)
             \/ \E r \in Request : \/ RecordApiKeyUsage(r) \/ Abort(r)
                                   \/ \E k \in Key : authenticate(r, k)
             \/ Tick \/ ListKeys \/ ParseNothing \/ UNCHANGED vars
      PROVE  op' = op
  BY <1>6 DEF handleDelete, ResetApiKeyUsage, handleCreate, RecordApiKeyUsage, Abort,
     authenticate, Tick, ListKeys, ParseNothing, vars
<1>7. UpdateApiKey(w)
  BY <1>2, <1>3, <1>4, <1>5, <1>6 DEF Next
<1> QED BY <1>1, <1>7, UpdateStep DEF Writes, Ops

\* A copy of the key that is about to be written back has a limit the key had,
\* unless the operation is about the limit.
Copied ==
  \A w \in Worker : op[w].pc = "write" /\ op[w].kind \notin {"credit", "set"} =>
                      op[w].patch.limit \in limits[op[w].key]

\* What a key's limit was stays on the record.
LEMMA LimitsGrow ==
  ASSUME TypeOK, OpsOK, [Next]_vars
  PROVE  \A k \in Key : limits[k] \subseteq limits'[k]
<1>1. ASSUME NEW w \in Worker, UpdateApiKey(w)
      PROVE  \A k \in Key : limits[k] \subseteq limits'[k]
  <2>1. PICK k \in Key : k = op[w].key
    BY <1>1, UpdateStep DEF Ops
  <2>2. Others(k) /\ (limits'[k] = limits[k] \cup {op[w].patch.limit} \/ limits' = limits)
    BY <1>1, <2>1, UpdateStep
  <2> QED BY <2>2 DEF Others
<1>2. ASSUME NEW k \in Key, NEW t \in Title, NEW h \in Hours \cap Nat, NEW l \in Limit,
             handleCreate(k, t, h, l)
      PROVE  \A j \in Key : limits[j] \subseteq limits'[j]
  BY <1>2, CreateStep DEF Others
<1>3. ASSUME \/ \E r \in Request : RecordApiKeyUsage(r)
             \/ \E k \in Key : handleDelete(k) \/ ResetApiKeyUsage(k)
      PROVE  limits' = limits
  BY <1>3 DEF RecordApiKeyUsage, handleDelete, ResetApiKeyUsage
<1>4. Quiet => limits' = limits
  BY DEF Quiet
<1> QED BY <1>1, <1>2, <1>3, <1>4, QuietSteps DEF Next

\* A copy is taken of a live key, whose limit is one it had.
LEMMA CopiedStep ==
  ASSUME TypeOK, OpsOK, LimitInv, Copied, [Next]_vars
  PROVE  Copied'
<1>1. \A k \in Key : limits[k] \subseteq limits'[k]
  BY LimitsGrow
<1> DEFINE Safe(o) == o.pc = "write" /\ o.kind \notin {"credit", "set"} =>
                        o.key \in Key /\ o.patch.limit \in limits[o.key]
<1>2. \A w \in Worker : Safe(op[w])
  BY Busy DEF Copied, Ops
<1>3. SUFFICES \A w \in Worker : Safe(op'[w])
  BY <1>1 DEF Copied
<1> HIDE DEF Safe
<1>4. \A w \in Worker : op[w] = op'[w] => Safe(op'[w])
  BY <1>2
<1>5. Safe(Idle)
  BY DEF Safe, Idle
<1>6. ASSUME NEW w \in Worker, apiUpdateApiKey(w)
      PROVE  \A v \in Worker : Safe(op'[v])
  <2> DEFINE o == op[w]
             m == Merge(entry[o.key], o.patch)
             new == [o EXCEPT !.pc = "write", !.patch = m]
  <2>1. o \in Ops /\ UnderWay(o) /\ o.pc = "put" /\ o.patch \in Patches /\ o.key \in Key
    BY <1>6, Busy DEF apiUpdateApiKey, UnderWay, Ops
  <2>2. CASE entry[o.key].live
    <3>1. entry[o.key] \in Entries /\ entry[o.key].limit \in limits[o.key]
      BY <2>1, <2>2 DEF TypeOK, Unborn, Gone, LimitInv
    <3>2. m \in Full /\ (o.patch \notin [limit: Nat] => m.limit = entry[o.key].limit)
      BY <2>1, <3>1, MergeOf
    <3>3. o.kind \notin {"credit", "set"} => o.patch \notin [limit: Nat]
      BY <2>1 DEF UnderWay, Ops, Named
    <3>4. op' = [op EXCEPT ![w] = new]
      BY <1>6, <2>2 DEF apiUpdateApiKey
    <3> HIDE DEF m
    <3>5. new.kind = o.kind /\ new.patch = m /\ new.key = o.key
      BY <2>1, <3>2, PassedOn
    <3> HIDE DEF new
    <3>6. Safe(new)
      BY <2>1, <3>1, <3>2, <3>3, <3>5 DEF Safe
    <3> HIDE DEF o
    <3> QED BY <1>4, <3>4, <3>6 DEF OpsOK
  <2>3. CASE ~entry[o.key].live
    BY <1>4, <1>5, <1>6, <2>3 DEF apiUpdateApiKey, OpsOK
  <2> QED BY <2>2, <2>3
<1>7. ASSUME NEW w \in Worker, UpdateApiKey(w) \/ Fail(w)
      PROVE  \A v \in Worker : Safe(op'[v])
  BY <1>4, <1>5, <1>7 DEF UpdateApiKey, Fail, OpsOK
<1>8. ASSUME NEW w \in Worker, NEW k \in Key, keyadmin(w, k)
      PROVE  \A v \in Worker : Safe(op'[v])
  <2>1. PICK kind, hours, patch : Start(w, k, kind, hours, patch)
    BY <1>8 DEF keyadmin, handlePause, handleResume, handleAddHours, handleSetExpiry,
       handleRename, handleAddCredit, handleSetCredit, handleEnable
  <2> DEFINE new == [pc |-> "put", key |-> k, kind |-> kind, hours |-> hours, patch |-> patch,
                     at |-> now, seen |-> IF kind \in Reading THEN entry[k] ELSE Gone]
  <2>2. op' = [op EXCEPT ![w] = new]
    BY <2>1 DEF Start
  <2>3. Safe(new)
    BY DEF Safe
  <2> HIDE DEF new
  <2> QED BY <1>4, <2>2, <2>3 DEF OpsOK
<1>9. ASSUME \/ \E k \in Key : \/ handleDelete(k) \/ ResetApiKeyUsage(k)
                               \/ \E t \in Title, h \in Hours \cap Nat, l \in Limit :
                                    handleCreate(k, t, h, l)
             \/ \E r \in Request : \/ RecordApiKeyUsage(r) \/ Abort(r)
                                   \/ \E k \in Key : authenticate(r, k)
             \/ Tick \/ ListKeys \/ ParseNothing \/ UNCHANGED vars
      PROVE  op' = op
  BY <1>9 DEF handleDelete, ResetApiKeyUsage, handleCreate, RecordApiKeyUsage, Abort,
     authenticate, Tick, ListKeys, ParseNothing, vars
<1> QED BY <1>4, <1>6, <1>7, <1>8, <1>9 DEF Next

\* Only a write of keyadmin's changes the limit of a key that stays.
LEMMA LimitChanges ==
  ASSUME TypeOK, OpsOK, [Next]_vars, NEW k \in Key, entry[k].live, entry'[k].live,
         entry'[k].limit # entry[k].limit
  PROVE  \E w \in Worker : Writes(w) /\ op[w].key = k
<1>1. entry[k] \in Entries
  BY DEF TypeOK, Unborn, Gone
<1>2. ~Quiet
  BY DEF Quiet
<1>3. ASSUME NEW j \in Key, handleDelete(j) PROVE FALSE
  BY <1>3 DEF handleDelete, Gone, TypeOK
<1>4. ASSUME NEW r \in Request, RecordApiKeyUsage(r) PROVE FALSE
  BY <1>4, BillStep DEF Others
<1>5. ASSUME NEW j \in Key, ResetApiKeyUsage(j) PROVE FALSE
  BY <1>5, ResetStep DEF Others
<1>6. ASSUME NEW j \in Key, NEW t \in Title, NEW h \in Hours \cap Nat, NEW l \in Limit,
             handleCreate(j, t, h, l)
      PROVE  FALSE
  BY <1>6, CreateStep DEF Others, Unborn
<1>7. ASSUME NEW w \in Worker, UpdateApiKey(w)
      PROVE  Writes(w) /\ op[w].key = k
  <2>1. op[w].key = k /\ entry[op[w].key].live
    BY <1>7, UpdateStep DEF Others
  <2>2. op[w].pc = "write" /\ op'[w] = Idle
    BY <1>7 DEF UpdateApiKey, OpsOK
  <2> QED BY <2>1, <2>2 DEF Writes
<1> QED BY <1>2, <1>3, <1>4, <1>5, <1>6, <1>7, QuietSteps DEF Next

\* A key that always had a limit becomes unlimited only by a set-credit or by an
\* add-credit that found nothing used, whatever old copies are written back.
THEOREM UnlimitedAsked == Spec => UnlimitedIsAsked
<1>1. ASSUME TypeOK, OpsOK, LimitInv, Copied, [Next]_vars, NEW k \in Key,
             entry[k].live, entry'[k].live, 0 \notin limits[k], entry'[k].limit = 0
      PROVE  \E w \in Worker :
               /\ Writes(w) /\ op[w].key = k
               /\ op[w].kind = "set" \/ (op[w].kind = "credit" /\ op[w].seen.used = 0)
  <2>1. entry'[k].limit # entry[k].limit
    BY <1>1 DEF LimitInv
  <2>2. PICK w \in Worker : Writes(w) /\ op[w].key = k
    BY <1>1, <2>1, LimitChanges
  <2>3. UnderWay(op[w]) /\ op[w].patch.limit = 0 /\ op[w].pc = "write"
    BY <1>1, <2>2, WritesStep DEF Writes
  <2>4. op[w].kind \in {"credit", "set"}
    BY <1>1, <2>2, <2>3 DEF Copied
  <2>5. ASSUME op[w].kind = "credit" PROVE op[w].seen.used = 0
    <3>1. op[w].seen \in Entries /\ op[w].patch.limit >= op[w].seen.used
      BY <2>3, <2>5 DEF UnderWay, Sends, Reading
    <3>2. op[w].seen.used \in Nat
      BY <3>1, EntryOf
    <3> QED BY <2>3, <3>1, <3>2
  <2> QED BY <2>2, <2>4, <2>5
<1>2. TypeOK /\ OpsOK /\ LimitInv /\ Copied /\ [Next]_vars => (LimitInv /\ Copied)'
  BY LimitStep, CopiedStep
<1>3. Init => LimitInv /\ Copied
  BY DEF Init, LimitInv, Copied, Unborn, Idle
<1>4. TypeOK /\ OpsOK /\ LimitInv /\ Copied /\ [Next]_vars =>
        \A k \in Key :
          (/\ entry[k].live /\ entry'[k].live
           /\ 0 \notin limits[k] /\ entry'[k].limit = 0) =>
            \E w \in Worker :
              /\ Writes(w) /\ op[w].key = k
              /\ op[w].kind = "set" \/ (op[w].kind = "credit" /\ op[w].seen.used = 0)
  BY <1>1
<1> QED BY <1>2, <1>3, <1>4, KeysTyped, PTL DEF Spec, UnlimitedIsAsked

\* The seconds left are those of the marker.
LEMMA LeftOf ==
  ASSUME NEW n, NEW at
  PROVE  /\ n.mode = "active" => SecondsLeft(n, at) = n.t - at
         /\ n.mode = "paused" => SecondsLeft(n, at) = n.t
         /\ n.mode = "none" => SecondsLeft(n, at) = 0
BY DEF SecondsLeft

\* A pause, a resume or a rename that finds the marker it read keeps the time, and
\* add-hours moves it by its argument.
LEMMA TimeStep ==
  ASSUME TypeOK, OpsOK, [Next]_vars, NEW w \in Worker, Writes(w), Alone(w)
  PROVE  LET o      == op[w]
             left   == SecondsLeft(entry[o.key].name, now)
             before == Above(left, 0)
             after  == Above(SecondsLeft(entry'[o.key].name, now), 0)
             took   == now - o.at
         IN  /\ o.kind = "rename" => after = before
             /\ o.kind = "pause"  => after - before \in 0..took
             /\ o.kind = "resume" => before - after \in 0..took
             /\ o.kind = "hours"  =>
                  after = IF entry[o.key].name.mode = "none" THEN Above(o.hours - took, 0)
                                                             ELSE Above(left + o.hours, 0)
<1> DEFINE o == op[w]
           n == entry[o.key].name
           m == entry'[o.key].name
           p == o.patch.name
<1>1. /\ UnderWay(o) /\ o \in Ops /\ Sends(o) /\ o.patch \in Full
      /\ entry[o.key] \in Entries /\ n = o.seen.name
      /\ m = p \/ (Empty(p) /\ m = n)
  BY WritesStep DEF UnderWay, Alone
<1>2. n \in Names /\ p \in Names /\ o.at \in Nat /\ o.at <= now /\ now \in Nat
  BY <1>1, EntryOf DEF Full, Ops, UnderWay, TypeOK
<1> HIDE DEF o, n, m, p
<1>3. n.t \in Nat /\ p.t \in Nat /\ n.mode \in {"none", "active", "paused"}
  BY <1>2 DEF Names
<1>4. CASE o.kind = "rename"
  <2>1. m.mode = n.mode /\ m.t = n.t
    BY <1>1, <1>4 DEF Sends, p
  <2>2. SecondsLeft(m, now) = SecondsLeft(n, now)
    BY <1>3, <2>1, LeftOf
  <2> QED BY <1>4, <2>2 DEF o, n, m
<1>5. CASE o.kind = "pause"
  <2>1. /\ n.mode = "active" /\ p.mode = "paused" /\ p.t = Above(n.t - o.at, 0)
    BY <1>1, <1>5 DEF Sends, p
  <2>2. m = p
    BY <1>1, <2>1 DEF Empty
  <2>3. SecondsLeft(n, now) = n.t - now /\ SecondsLeft(m, now) = Above(n.t - o.at, 0)
    BY <2>1, <2>2, LeftOf
  <2>4. Above(Above(n.t - o.at, 0), 0) - Above(n.t - now, 0) \in 0..(now - o.at)
    BY <1>2, <1>3 DEF Above
  <2> QED BY <1>5, <2>3, <2>4 DEF o, n, m
<1>6. CASE o.kind = "resume"
  <2>1. n.mode = "paused" /\ p.mode = "active" /\ p.t = o.at + n.t
    BY <1>1, <1>6 DEF Sends, p
  <2>2. m = p
    BY <1>1, <2>1 DEF Empty
  <2>3. SecondsLeft(n, now) = n.t /\ SecondsLeft(m, now) = o.at + n.t - now
    <3>1. SecondsLeft(n, now) = n.t
      BY <2>1, LeftOf
    <3>2. SecondsLeft(m, now) = m.t - now
      BY <2>1, <2>2, LeftOf
    <3> QED BY <1>2, <1>3, <2>1, <2>2, <3>1, <3>2
  <2>4. Above(n.t, 0) - Above(o.at + n.t - now, 0) \in 0..(now - o.at)
    BY <1>2, <1>3 DEF Above
  <2> QED BY <1>6, <2>3, <2>4 DEF o, n, m
<1>7. CASE o.kind = "hours"
  <2>1. o.hours \in Int /\ o.seen.name = n
    BY <1>1 DEF Ops
  <2>2. /\ n.mode = "paused" => p.mode = "paused" /\ p.t = Above(n.t + o.hours, 0)
        /\ n.mode = "active" => p.mode = "active" /\ p.t = Above(n.t + o.hours, o.at)
        /\ n.mode = "none"   => p.mode = "active" /\ p.t = Above(o.at + o.hours, o.at)
    BY <1>1, <1>7, <2>1 DEF Sends, Lengthened, p
  <2>3. m = p
    BY <1>1, <1>3, <2>2 DEF Empty
  <2>4. CASE n.mode = "paused"
    <3>1. SecondsLeft(n, now) = n.t /\ SecondsLeft(m, now) = Above(n.t + o.hours, 0)
      BY <2>2, <2>3, <2>4, LeftOf
    <3>2. Above(Above(n.t + o.hours, 0), 0) = Above(n.t + o.hours, 0)
      BY <1>3, <2>1 DEF Above
    <3> QED BY <1>7, <2>4, <3>1, <3>2 DEF o, n, m
  <2>5. CASE n.mode = "active"
    <3>1. /\ SecondsLeft(n, now) = n.t - now
          /\ SecondsLeft(m, now) = Above(n.t + o.hours, o.at) - now
      BY <2>2, <2>3, <2>5, LeftOf
    <3>2. Above(Above(n.t + o.hours, o.at) - now, 0) = Above(n.t - now + o.hours, 0)
      BY <1>2, <1>3, <2>1 DEF Above
    <3> QED BY <1>7, <2>5, <3>1, <3>2 DEF o, n, m
  <2>6. CASE n.mode = "none"
    <3>1. SecondsLeft(m, now) = Above(o.at + o.hours, o.at) - now
      BY <2>2, <2>3, <2>6, LeftOf
    <3>2. Above(Above(o.at + o.hours, o.at) - now, 0) = Above(o.hours - (now - o.at), 0)
      BY <1>2, <2>1 DEF Above
    <3> QED BY <1>7, <2>6, <3>1, <3>2 DEF o, n, m
  <2> QED BY <1>3, <2>4, <2>5, <2>6
<1> QED BY <1>4, <1>5, <1>6, <1>7 DEF o

\* Pausing, resuming and renaming keep what a customer has left, but for the time
\* the operation itself took, and adding hours changes it by the hours added.
THEOREM TimeKept == Spec => TimeLeftIsKept
<1>1. ASSUME TypeOK, OpsOK, [Next]_vars
      PROVE  \A w \in Worker : Writes(w) /\ Alone(w) =>
               LET o      == op[w]
                   left   == SecondsLeft(entry[o.key].name, now)
                   before == Above(left, 0)
                   after  == Above(SecondsLeft(entry'[o.key].name, now), 0)
                   took   == now - o.at
               IN  /\ o.kind = "rename" => after = before
                   /\ o.kind = "pause"  => after - before \in 0..took
                   /\ o.kind = "resume" => before - after \in 0..took
                   /\ o.kind = "hours"  =>
                        after = IF entry[o.key].name.mode = "none"
                                THEN Above(o.hours - took, 0) ELSE Above(left + o.hours, 0)
  BY <1>1, TimeStep
<1> QED BY <1>1, KeysTyped, PTL DEF Spec, TimeLeftIsKept
=============================================================================
