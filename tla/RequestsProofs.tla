---------------------------- MODULE RequestsProofs ----------------------------
(***************************************************************************)
(* Theorems about how a request is answered: Cascade, for any shares,      *)
(* counters and edits of them, WebSearch, for any limits and any number of *)
(* rounds and uses, Responses, for any clients and any crashes, failed     *)
(* saves and expiries, and CacheTracker, for any prompts, all up to the    *)
(* models' bounds.                                                         *)
(***************************************************************************)
EXTENDS Cascade, WebSearch, Responses, CacheTracker, SequenceLemmas

-----------------------------------------------------------------------------
(* Cascade: one answer and one booking.                                    *)

(***************************************************************************)
(* AnsweredAndBookedOnce says little of a request that is still on its way *)
(* and so is not inductive.  Until it ends nothing has been answered or    *)
(* charged, and whatever is in the log are failures, of Kiro only.         *)
(***************************************************************************)
Oks == {i \in DOMAIN rows : rows[i] = "ok"}

Unanswered ==
  /\ answer = <<>> /\ charged = 0
  /\ rows \in Seq({"failed"})
  /\ "kiro" \notin asked => rows = <<>>
  /\ step = "kiro" => "kiro" \in asked
  /\ step = "route" => asked = {}

Closed == /\ Len(answer) = 1
          /\ charged = IF answer = <<"ok">> THEN 1 ELSE 0
          /\ Cardinality(Oks) = charged
          /\ answer = <<"ok">> /\ "kiro" \notin asked => rows = <<"ok">>

RouteInv == ask \in Ask /\ IF step = "done" THEN Closed ELSE Unanswered

LEMMA RouteInvIsStronger == RouteInv => AnsweredAndBookedOnce
  BY DEF RouteInv, Unanswered, Closed, Oks, AnsweredAndBookedOnce

-----------------------------------------------------------------------------
(* The log.                                                                *)

LEMMA FailuresHaveNoOk ==
  ASSUME NEW s \in Seq({"failed"})
  PROVE  Cardinality({i \in DOMAIN s : s[i] = "ok"}) = 0
<1>1. {i \in DOMAIN s : s[i] = "ok"} = {}
  OBVIOUS
<1> QED BY <1>1, FS_EmptySet

LEMMA OneOk ==
  ASSUME NEW s \in Seq({"failed"})
  PROVE  Cardinality({i \in DOMAIN Append(s, "ok") : Append(s, "ok")[i] = "ok"}) = 1
<1> DEFINE t == Append(s, "ok")
<1>1. DOMAIN t = 1..(Len(s) + 1) /\ t[Len(s) + 1] = "ok"
  OBVIOUS
<1>2. \A i \in 1..Len(s) : t[i] = "failed"
  OBVIOUS
<1>3. Len(s) \in Nat
  OBVIOUS
<1> HIDE DEF t
<1>4. {i \in DOMAIN t : t[i] = "ok"} = {Len(s) + 1}
  BY <1>1, <1>2, <1>3
<1>5. Cardinality({Len(s) + 1}) = 1
  BY FS_Singleton
<1> QED BY <1>4, <1>5 DEF t

LEMMA FailureLogged == \A s \in Seq({"failed"}) : Append(s, "failed") \in Seq({"failed"})
  OBVIOUS

-----------------------------------------------------------------------------
(* Three kinds of steps: the request goes on, ends unserved, or is served. *)

LEMMA GoesOn ==
  ASSUME RouteInv, step # "done", step' \notin {"done", "route"},
         UNCHANGED <<ask, answer, charged>>,
         step = "route" \/ asked \subseteq asked',
         step' = "kiro" => "kiro" \in asked',
         rows' = rows \/ (rows' = Append(rows, "failed") /\ "kiro" \in asked')
  PROVE  RouteInv'
<1>1. Unanswered
  BY DEF RouteInv
<1>2. (rows \in Seq({"failed"}))'
  BY <1>1, FailureLogged DEF Unanswered
<1>3. "kiro" \notin asked' => rows' = <<>>
  BY <1>1 DEF Unanswered
<1> QED BY <1>1, <1>2, <1>3 DEF RouteInv, Unanswered

LEMMA EndsUnserved ==
  ASSUME RouteInv, step # "done", step' = "done", UNCHANGED <<ask, charged>>,
         NEW what, what # "ok", answer' = Append(answer, what),
         rows' = rows \/ rows' = Append(rows, "failed")
  PROVE  RouteInv'
<1>1. Unanswered
  BY DEF RouteInv
<1>2. rows' \in Seq({"failed"})
  BY <1>1, FailureLogged DEF Unanswered
<1>3. Cardinality(Oks') = 0
  BY <1>2, FailuresHaveNoOk DEF Oks
<1>4. answer' = <<what>> /\ charged' = 0
  BY <1>1 DEF Unanswered
<1>5. Len(answer') = 1 /\ answer' # <<"ok">>
  BY <1>4
<1> QED BY <1>3, <1>4, <1>5 DEF RouteInv, Closed

LEMMA IsServed ==
  ASSUME RouteInv, step # "done", step' = "done", UNCHANGED <<ask, asked>>,
         answer' = Append(answer, "ok"), Charge
  PROVE  RouteInv'
<1>1. Unanswered
  BY DEF RouteInv
<1>2. rows' = Append(rows, "ok") /\ charged' = 1
  BY <1>1 DEF Unanswered, Charge
<1>0. answer' = <<"ok">>
  BY <1>1 DEF Unanswered
<1>3. Cardinality(Oks') = 1
  BY <1>1, <1>2, OneOk DEF Unanswered, Oks
<1>4. "kiro" \notin asked' => rows' = <<"ok">>
  BY <1>1, <1>2 DEF Unanswered
<1>5. Len(answer') = 1
  BY <1>0
<1> QED BY <1>0, <1>2, <1>3, <1>4, <1>5 DEF RouteInv, Closed

-----------------------------------------------------------------------------
(* Every step is of one of these kinds.                                    *)

\* sendErr of a provider: an event, silence, or a status.
LEMMA AfterSendErr ==
  ASSUME RouteInv, step # "done", NEW p, NEW what, what # "ok", SendErr(p, what),
         UNCHANGED <<ask, asked, charged>>
  PROVE  RouteInv'
<1>1. CASE ask.stream /\ header
  BY <1>1, EndsUnserved DEF SendErr, Log
<1>2. CASE ~(ask.stream /\ header) /\ Silent(p)
  BY <1>2, GoesOn DEF SendErr, Log
<1>3. CASE ~(ask.stream /\ header) /\ ~Silent(p)
  <2> DEFINE w == IF committed THEN "late" ELSE what
  <2>1. w # "ok" /\ answer' = Append(answer, w) /\ step' = "done"
    BY <1>3 DEF SendErr, SendStatus
  <2> HIDE DEF w
  <2> QED BY <1>3, <2>1, EndsUnserved DEF SendErr, Log
<1> QED BY <1>1, <1>2, <1>3

LEMMA AfterSendStatus ==
  ASSUME RouteInv, step # "done", NEW what, what # "ok", SendStatus(what),
         UNCHANGED <<ask, charged>>, rows' = rows \/ rows' = Append(rows, "failed")
  PROVE  RouteInv'
<1> DEFINE w == IF committed THEN "late" ELSE what
<1>1. w # "ok" /\ answer' = Append(answer, w) /\ step' = "done"
  BY DEF SendStatus
<1> HIDE DEF w
<1> QED BY <1>1, EndsUnserved

LEMMA RouteStep ==
  ASSUME RouteInv, [CascadeNext]_cascadeVars
  PROVE  RouteInv'
<1>1. CASE Route
  <2>1. CASE ask.model # "kiro" /\ step' = ask.model
    BY <1>1, <2>1, GoesOn DEF Route, RouteInv, Ask
  <2>2. CASE ask.model = "kiro" /\ step' = "next" /\ UNCHANGED asked
    BY <1>1, <2>2, GoesOn DEF Route
  <2> QED BY <1>1, <2>1, <2>2 DEF Route
<1>2. CASE NextProvider
  BY <1>2, GoesOn DEF NextProvider, Quiet, Backend
<1>3. CASE ExpandOrder
  BY <1>3, GoesOn DEF ExpandOrder, Quiet
<1>4. CASE ExclusiveStop
  <2>1. CASE silentSplitIsExclusive
    BY <1>4, <2>1, AfterSendStatus DEF ExclusiveStop, Quiet, Log
  <2>2. CASE ~silentSplitIsExclusive
    BY <1>4, <2>2, GoesOn DEF ExclusiveStop, Quiet
  <2> QED BY <2>1, <2>2
<1>5. CASE EnterKiro
  <2>1. CASE SendStatus("bad request")
    BY <1>5, <2>1, AfterSendStatus DEF EnterKiro, Quiet
  <2>2. CASE step' \in {"kiro", "next"} /\ UNCHANGED answer
    BY <1>5, <2>2, GoesOn DEF EnterKiro, Quiet
  <2> QED BY <1>5, <2>1, <2>2 DEF EnterKiro
<1>6. CASE NobodyServes
  <2>1. CASE ask.model = "codex"
    BY <1>6, <2>1, AfterSendErr DEF NobodyServes, Quiet
  <2>2. CASE ask.model # "codex"
    BY <1>6, <2>2, AfterSendStatus DEF NobodyServes, Quiet, Log
  <2> QED BY <2>1, <2>2
<1>7. CASE KiroAccountFails
  BY <1>7, GoesOn DEF KiroAccountFails, Quiet, RouteInv, Unanswered
<1>8. CASE KiroGivesUp
  BY <1>8, GoesOn DEF KiroGivesUp, Quiet, Log, RouteInv, Unanswered
<1>9. CASE KiroServes
  BY <1>9, IsServed DEF KiroServes, Respond
<1>10. CASE KiroBreaksOff
  BY <1>10, EndsUnserved DEF KiroBreaksOff, Respond, Log, Quiet
<1>11. ASSUME NEW p \in Backend, BackendServes(p) PROVE RouteInv'
  BY <1>11, IsServed DEF BackendServes, Respond, Backend
<1>12. ASSUME NEW p \in Backend, BackendBreaksOff(p) PROVE RouteInv'
  BY <1>12, EndsUnserved DEF BackendBreaksOff, Respond, Log, Quiet, Backend
<1>13. ASSUME NEW p \in Backend, BackendFails(p) PROVE RouteInv'
  <2>1. step # "done" /\ UNCHANGED <<ask, asked, charged>>
    BY <1>13 DEF BackendFails, Quiet, Backend
  <2>2. CASE step' = "next" /\ UNCHANGED <<rows, answer>>
    BY <2>1, <2>2, GoesOn
  <2>3. CASE SendErr(p, "unavailable")
    BY <2>1, <2>3, AfterSendErr
  <2> QED BY <1>13, <2>2, <2>3 DEF BackendFails
<1>14. ASSUME NEW p \in Backend, PromptTooLong(p) PROVE RouteInv'
  <2>1. step # "done" /\ UNCHANGED <<ask, asked, charged>>
    BY <1>14 DEF PromptTooLong, Quiet, Backend
  <2>2. CASE SendStatus("bad request") /\ Log(FALSE)
    BY <2>1, <2>2, AfterSendStatus DEF Log
  <2>3. CASE SendErr(p, "bad request")
    BY <2>1, <2>3, AfterSendErr
  <2> QED BY <1>14, <2>2, <2>3 DEF PromptTooLong
<1>15. CASE SetSplit \/ UNCHANGED cascadeVars
  BY <1>15 DEF SetSplit, cascadeVars, RouteInv, Unanswered, Closed, Oks
<1> QED BY <1>1, <1>2, <1>3, <1>4, <1>5, <1>6, <1>7, <1>8, <1>9, <1>10, <1>11, <1>12,
           <1>13, <1>14, <1>15 DEF CascadeNext

\* However the shares are set and edited, whichever pools are ready and however
\* each account loop ends: the client is answered once, and charged and logged as
\* served exactly if it got the whole answer.
THEOREM AnsweredOnce == CascadeSpec => []AnsweredAndBookedOnce
<1>1. CascadeInit => RouteInv
  BY DEF CascadeInit, RouteInv, Unanswered
<1>2. CascadeSpec => []RouteInv
  BY <1>1, RouteStep, PTL DEF CascadeSpec
<1> QED BY <1>2, RouteInvIsStronger, PTL


-----------------------------------------------------------------------------
(* Who is asked.  Of each provider it is known that it was asked or will   *)
(* be before the queue is empty; the stop of an exclusive split has both   *)
(* silent providers before it; and before that stop Kiro is not reached.   *)

Stop == Backend \cup {"kiro", "order", "exclusive", "stop", "native"}

Due(q, a, p) == p \in a \/ \E i \in DOMAIN q : q[i] \in {p, "order"}

KiroDue(q, a) == "kiro" \in a \/ \E i \in DOMAIN q : q[i] \in {"kiro", "native"}

StopIsLast(q, a) ==
  \A i \in DOMAIN q : q[i] = "exclusive" =>
    \A p \in Backend : p \in a \/ \E j \in 1..(i - 1) : q[j] = p

KeptFromKiro(q) ==
  \E i \in DOMAIN q : q[i] = "exclusive" /\ \A j \in 1..(i - 1) : q[j] \in Backend

AllIsSplit == ~emptyKiro /\ splitEdits = 0 /\ Grok + Codex = 100

\* Codex asked for by name has not filled the queue yet.
Waits == step = "codex" /\ ask.model = "codex"

Queued ==
  /\ \A p \in Backend : Due(queue, asked, p)
  /\ KiroDue(queue, asked)

TypesOfRoute ==
  /\ ask \in Ask
  /\ share \in [Backend -> Share]
  /\ queue \in Seq(Stop)
  /\ splitEdits \in Nat

\* While the request is on its way, but past the route; a Grok model asks no one else.
UnderWay ==
  /\ ask.model = "codex" => "codex" \in asked
  /\ Waits \/ Queued
  /\ StopIsLast(queue, asked)
  /\ ask.model = "kiro" /\ AllIsSplit => step # "kiro" /\ KeptFromKiro(queue)

\* A client that was told that nobody is available.
ToldSo ==
  answer = <<"unavailable">> =>
    /\ Backend \subseteq asked
    /\ "kiro" \in asked \/ Grok + Codex = 100 \/ splitEdits > 0

SharesInv ==
  /\ TypesOfRoute
  /\ step = "route" => queue = <<>>
  /\ ask.model # "grok" =>
       /\ step \notin {"route", "done"} => UnderWay
       /\ step = "done" => ToldSo

(***************************************************************************)
(* The split, counted over a hundred turns.                                *)
(***************************************************************************)
LEMMA CardOfTurns ==
  ASSUME NEW m \in Nat, NEW n \in Nat, m <= n
  PROVE  Cardinality(m..(n - 1)) = n - m
<1>1. CASE m = n
  <2>1. m..(n - 1) = {}
    BY <1>1
  <2> QED BY <1>1, <2>1, FS_EmptySet
<1>2. CASE m < n
  <2>1. Cardinality(m..(n - 1)) = (n - 1) - m + 1
    BY <1>2, FS_Interval
  <2> QED BY <2>1
<1> QED BY <1>1, <1>2

\* What the shares mean once both are bounded by what is left of 100.
LEMMA EffectiveShares ==
  ASSUME share \in [Backend -> Share]
  PROVE  /\ share["grok"] \in 0..100 /\ share["codex"] \in 0..100
         /\ Grok \in 0..100 /\ Codex \in 0..100 /\ Grok + Codex \in 0..100
         /\ silentSplitIsExclusive <=> Grok + Codex = 100
<1>1. share["grok"] \in 0..100 /\ share["codex"] \in 0..100
  BY CascadeAssumption DEF Backend
<1> DEFINE g == share["grok"]
           c == share["codex"]
<1>2. /\ Grok = IF g + c <= 100 \/ g > c THEN g ELSE 100 - c
      /\ Codex = IF g + c <= 100 \/ c >= g THEN c ELSE 100 - g
      /\ silentSplitIsExclusive <=> g + c >= 100
  BY DEF Grok, Codex, silentSplitIsExclusive
<1> HIDE DEF g, c
<1>3. g \in 0..100 /\ c \in 0..100
  BY <1>1 DEF g, c
<1>4. Grok \in 0..100 /\ Codex \in 0..100 /\ Grok + Codex \in 0..100
  <2>1. CASE g + c <= 100
    BY <1>2, <1>3, <2>1
  <2>2. CASE ~(g + c <= 100)
    BY <1>2, <1>3, <2>2
  <2> QED BY <2>1, <2>2
<1>5. silentSplitIsExclusive <=> Grok + Codex = 100
  BY <1>2, <1>3
<1> QED BY <1>1, <1>4, <1>5

LEMMA SplitCounts ==
  ASSUME share \in [Backend -> Share]
  PROVE  SplitIsExact
<1> DEFINE Got(p) == {turn \in 0..99 : pickSplitProvider(turn) = p}
           both == Grok + Codex
<1>1. /\ share["grok"] \in 0..100 /\ share["codex"] \in 0..100
      /\ Grok \in 0..100 /\ Codex \in 0..100 /\ both \in 0..100
  BY EffectiveShares
<1>2. Cardinality(Got("codex")) = Codex /\ Cardinality(Got("grok")) = Grok
  <2>1. CASE Codex >= Grok
    <3>1. \A turn \in 0..99 : pickSplitProvider(turn) =
            IF turn < Codex THEN "codex" ELSE IF turn < both THEN "grok" ELSE "kiro"
      BY <2>1 DEF pickSplitProvider
    <3> HIDE DEF both
    <3>2. Got("codex") = 0..(Codex - 1)
      BY <1>1, <3>1
    <3>3. Got("grok") = Codex..(both - 1)
      BY <1>1, <3>1
    <3>4. Cardinality(0..(Codex - 1)) = Codex
      <4>1. Cardinality(0..(Codex - 1)) = Codex - 0
        BY <1>1, CardOfTurns
      <4> QED BY <1>1, <4>1
    <3>5. Codex <= both
      BY <1>1 DEF both
    <3>6. Cardinality(Codex..(both - 1)) = both - Codex
      BY <1>1, <3>5, CardOfTurns
    <3>7. both - Codex = Grok
      BY <1>1 DEF both
    <3> HIDE DEF Got
    <3> QED BY <3>2, <3>3, <3>4, <3>6, <3>7
  <2>2. CASE ~(Codex >= Grok)
    <3>1. \A turn \in 0..99 : pickSplitProvider(turn) =
            IF turn < Grok THEN "grok" ELSE IF turn < both THEN "codex" ELSE "kiro"
      BY <2>2 DEF pickSplitProvider
    <3> HIDE DEF both
    <3>2. Got("grok") = 0..(Grok - 1)
      BY <1>1, <3>1
    <3>3. Got("codex") = Grok..(both - 1)
      BY <1>1, <3>1
    <3>4. Cardinality(0..(Grok - 1)) = Grok
      <4>1. Cardinality(0..(Grok - 1)) = Grok - 0
        BY <1>1, CardOfTurns
      <4> QED BY <1>1, <4>1
    <3>5. Grok <= both
      BY <1>1 DEF both
    <3>6. Cardinality(Grok..(both - 1)) = both - Grok
      BY <1>1, <3>5, CardOfTurns
    <3>7. both - Grok = Codex
      BY <1>1 DEF both
    <3> HIDE DEF Got
    <3> QED BY <3>2, <3>3, <3>4, <3>6, <3>7
  <2> QED BY <2>1, <2>2
<1> QED BY <1>1, <1>2 DEF SplitIsExact, Grok, Codex

(***************************************************************************)
(* The queue, at its head.                                                 *)
(***************************************************************************)
LEMMA TailOfQueue ==
  ASSUME NEW q \in Seq(Stop), q # <<>>
  PROVE  /\ Tail(q) \in Seq(Stop) /\ Head(q) = q[1] /\ 1 \in DOMAIN q
         /\ DOMAIN q = 1..Len(q) /\ DOMAIN Tail(q) = 1..(Len(q) - 1) /\ Len(q) \in Nat \ {0}
         /\ \A i \in DOMAIN Tail(q) : Tail(q)[i] = q[i + 1]
<1>1. Len(q) \in Nat \ {0} /\ DOMAIN q = 1..Len(q)
  OBVIOUS
<1>2. Tail(q) \in Seq(Stop) /\ Len(Tail(q)) = Len(q) - 1
  BY HeadTailProperties
<1>3. Head(q) = q[1]
  OBVIOUS
<1>4. \A i \in 1..(Len(q) - 1) : Tail(q)[i] = q[i + 1]
  OBVIOUS
<1>5. DOMAIN Tail(q) = 1..(Len(q) - 1)
  BY <1>2
<1> QED BY <1>1, <1>2, <1>3, <1>4, <1>5

\* What is behind the head stays due.
LEMMA StaysDue ==
  ASSUME NEW q \in Seq(Stop), q # <<>>, NEW S, NEW i \in DOMAIN q, q[i] \in S, q[1] \notin S
  PROVE  \E j \in DOMAIN Tail(q) : Tail(q)[j] \in S
<1>1. i \in 2..Len(q) /\ Len(q) \in Nat /\ i - 1 \in 1..(Len(q) - 1)
  BY TailOfQueue
<1>2. Tail(q)[i - 1] = q[i - 1 + 1]
  BY <1>1, TailOfQueue
<1>3. i - 1 + 1 = i
  BY <1>1
<1> QED BY <1>1, <1>2, <1>3, TailOfQueue

LEMMA DueAfterTail ==
  ASSUME NEW q \in Seq(Stop), q # <<>>, NEW a, NEW b, a \subseteq b, NEW p, Due(q, a, p),
         q[1] = p => p \in b, q[1] # "order"
  PROVE  Due(Tail(q), b, p)
<1>1. CASE p \in b
  BY <1>1 DEF Due
<1>2. CASE p \notin b
  <2>1. PICK i \in DOMAIN q : q[i] \in {p, "order"}
    BY <1>2 DEF Due
  <2>2. q[1] \notin {p, "order"}
    BY <1>2
  <2> QED BY <2>1, <2>2, StaysDue DEF Due
<1> QED BY <1>1, <1>2

LEMMA KiroDueAfterTail ==
  ASSUME NEW q \in Seq(Stop), q # <<>>, NEW a, NEW b, a \subseteq b, KiroDue(q, a),
         q[1] \in {"kiro", "native"} => "kiro" \in b
  PROVE  KiroDue(Tail(q), b)
<1>1. CASE "kiro" \in b
  BY <1>1 DEF KiroDue
<1>2. CASE "kiro" \notin b
  <2>1. PICK i \in DOMAIN q : q[i] \in {"kiro", "native"}
    BY <1>2 DEF KiroDue
  <2>2. q[1] \notin {"kiro", "native"}
    BY <1>2
  <2> QED BY <2>1, <2>2, StaysDue DEF KiroDue
<1> QED BY <1>1, <1>2

LEMMA StopAfterTail ==
  ASSUME NEW q \in Seq(Stop), q # <<>>, NEW a, NEW b, a \subseteq b, StopIsLast(q, a),
         q[1] \in Backend => q[1] \in b
  PROVE  StopIsLast(Tail(q), b)
<1> SUFFICES ASSUME NEW i \in DOMAIN Tail(q), Tail(q)[i] = "exclusive", NEW p \in Backend, p \notin b
             PROVE  \E j \in 1..(i - 1) : Tail(q)[j] = p
  BY DEF StopIsLast
<1>1. i \in 1..(Len(q) - 1) /\ i + 1 \in DOMAIN q /\ q[i + 1] = "exclusive" /\ Len(q) \in Nat
  BY TailOfQueue
<1>2. PICK j \in 1..i : q[j] = p
  <2>1. \E j \in 1..((i + 1) - 1) : q[j] = p
    BY <1>1 DEF StopIsLast
  <2> QED BY <1>1, <2>1
<1>3. j # 1
  BY <1>2
<1>4. j - 1 \in 1..(i - 1) /\ j - 1 \in 1..(Len(q) - 1) /\ j - 1 + 1 = j
  BY <1>1, <1>2, <1>3
<1>5. Tail(q)[j - 1] = p
  BY <1>2, <1>4, TailOfQueue
<1> QED BY <1>4, <1>5

LEMMA KeptAfterTail ==
  ASSUME NEW q \in Seq(Stop), q # <<>>, KeptFromKiro(q), q[1] # "exclusive"
  PROVE  KeptFromKiro(Tail(q))
<1>1. PICK i \in DOMAIN q : q[i] = "exclusive" /\ \A j \in 1..(i - 1) : q[j] \in Backend
  BY DEF KeptFromKiro
<1>2. i \in 2..Len(q) /\ Len(q) \in Nat /\ i - 1 \in 1..(Len(q) - 1) /\ i - 1 + 1 = i
  BY <1>1, TailOfQueue
<1>3. Tail(q)[i - 1] = "exclusive"
  BY <1>1, <1>2, TailOfQueue
<1>4. ASSUME NEW j \in 1..((i - 1) - 1) PROVE Tail(q)[j] \in Backend
  <2>1. j + 1 \in 1..(i - 1) /\ j \in 1..(Len(q) - 1)
    BY <1>2
  <2> QED BY <1>1, <2>1, TailOfQueue
<1> QED BY <1>2, <1>3, <1>4, TailOfQueue DEF KeptFromKiro

\* Kiro is not at the head, nor is the order of the silent providers.
LEMMA HeadOfKept ==
  ASSUME NEW q \in Seq(Stop), KeptFromKiro(q)
  PROVE  q # <<>> /\ q[1] \in Backend \cup {"exclusive"}
<1>1. PICK i \in DOMAIN q : q[i] = "exclusive" /\ \A j \in 1..(i - 1) : q[j] \in Backend
  BY DEF KeptFromKiro
<1>2. q # <<>> /\ i \in 1..Len(q)
  BY <1>1
<1>3. CASE i = 1
  BY <1>1, <1>2, <1>3
<1>4. CASE i # 1
  <2>1. 1 \in 1..(i - 1)
    BY <1>2, <1>4
  <2> QED BY <1>1, <1>2, <2>1
<1> QED BY <1>3, <1>4

\* In place of the order come both providers.
LEMMA Expanded ==
  ASSUME NEW q \in Seq(Stop), q # <<>>, NEW a, NEW s \in {<<"codex", "grok">>, <<"grok", "codex">>},
         q[1] = "order"
  PROVE  /\ s \o Tail(q) \in Seq(Stop)
         /\ \A p \in Backend : Due(s \o Tail(q), a, p)
         /\ KiroDue(q, a) => KiroDue(s \o Tail(q), a)
         /\ StopIsLast(s \o Tail(q), a)
<1> DEFINE t == Tail(q)
           r == s \o t
<1>1. s \in Seq(Stop) /\ Len(s) = 2 /\ \A p \in Backend : s[1] = p \/ s[2] = p
  <2>1. CASE s = <<"codex", "grok">>
    BY <2>1 DEF Stop, Backend
  <2>2. CASE s = <<"grok", "codex">>
    BY <2>2 DEF Stop, Backend
  <2> QED BY <2>1, <2>2
<1>2. t \in Seq(Stop) /\ Len(t) = Len(q) - 1 /\ Len(q) \in Nat \ {0}
  BY TailOfQueue, HeadTailProperties
<1> HIDE DEF t
<1>3. /\ r \in Seq(Stop) /\ Len(r) = Len(q) + 1 /\ DOMAIN r = 1..(Len(q) + 1)
      /\ r[1] = s[1] /\ r[2] = s[2]
      /\ \A i \in 3..(Len(q) + 1) : r[i] = t[i - 2]
  <2>0. s \in Seq(Stop) /\ t \in Seq(Stop)
    BY <1>1, <1>2
  <2>1. r \in Seq(Stop) /\ Len(r) = Len(s) + Len(t)
    BY <2>0, ConcatProperties, Zenon
  <2>2. \A i \in 1..(Len(s) + Len(t)) : r[i] = IF i <= Len(s) THEN s[i] ELSE t[i - Len(s)]
    BY <2>0, ConcatProperties, Zenon
  <2> HIDE DEF r
  <2>3. Len(r) = Len(q) + 1 /\ DOMAIN r = 1..(Len(q) + 1)
    BY <1>1, <1>2, <2>1
  <2>4. \A i \in 1..(Len(q) + 1) : r[i] = IF i <= 2 THEN s[i] ELSE t[i - 2]
    BY <1>1, <1>2, <2>2
  <2>5. r[1] = s[1] /\ r[2] = s[2]
    BY <1>2, <2>4
  <2>6. \A i \in 3..(Len(q) + 1) : r[i] = t[i - 2]
    BY <1>2, <2>4
  <2> QED BY <2>1, <2>3, <2>5, <2>6
<1> HIDE DEF r
<1>4. ASSUME NEW p \in Backend PROVE \E j \in {1, 2} : j \in DOMAIN r /\ r[j] = p
  BY <1>1, <1>2, <1>3
<1>5. ASSUME KiroDue(q, a), "kiro" \notin a PROVE \E j \in DOMAIN r : r[j] \in {"kiro", "native"}
  <2>1. KiroDue(t, a)
    BY <1>5, KiroDueAfterTail DEF t
  <2>2. PICK j \in DOMAIN t : t[j] \in {"kiro", "native"}
    BY <1>5, <2>1 DEF KiroDue
  <2>3. j \in 1..(Len(q) - 1) /\ j + 2 \in 3..(Len(q) + 1) /\ j + 2 - 2 = j
    BY <1>2, <2>2
  <2>4. r[j + 2] = t[j] /\ j + 2 \in DOMAIN r
    BY <1>2, <1>3, <2>3
  <2> QED BY <2>2, <2>4
<1>6. ASSUME NEW i \in DOMAIN r, r[i] = "exclusive", NEW p \in Backend
      PROVE  \E j \in 1..(i - 1) : r[j] = p
  <2>1. i # 1 /\ i # 2
    BY <1>3, <1>6
  <2>2. i \in 3..(Len(q) + 1)
    BY <1>2, <1>3, <2>1
  <2>3. {1, 2} \subseteq 1..(i - 1)
    BY <1>2, <2>2
  <2> QED BY <1>4, <2>3
<1>7. \A p \in Backend : Due(r, a, p)
  BY <1>4 DEF Due
<1>8. KiroDue(q, a) => KiroDue(r, a)
  BY <1>5 DEF KiroDue
<1>9. StopIsLast(r, a)
  BY <1>6 DEF StopIsLast
<1> QED BY <1>3, <1>7, <1>8, <1>9 DEF r, t

LEMMA OrderOfSilent == silentProviderOrder \in {<<"codex", "grok">>, <<"grok", "codex">>}
  BY DEF silentProviderOrder

(***************************************************************************)
(* The route fills the queue.                                              *)
(***************************************************************************)
LEMMA ThreeAndTwo ==
  ASSUME NEW p \in Stop, NEW r \in Stop, NEW s \in Stop, NEW t \in Stop, NEW u \in Stop
  PROVE  <<p, r, s>> \o <<t, u>> = <<p, r, s, t, u>>
<1> DEFINE l == <<p, r, s>> \o <<t, u>>
           m == <<p, r, s, t, u>>
<1>0. <<p, r, s>> \in Seq(Stop) /\ <<t, u>> \in Seq(Stop)
  OBVIOUS
<1>1. l \in Seq(Stop) /\ m \in Seq(Stop) /\ Len(l) = 5 /\ Len(m) = 5
  OBVIOUS
<1>2. l[1] = p /\ l[2] = r /\ l[3] = s /\ l[4] = t /\ l[5] = u
  OBVIOUS
<1>3. m[1] = p /\ m[2] = r /\ m[3] = s /\ m[4] = t /\ m[5] = u
  OBVIOUS
<1>4. \A i \in 1..5 : l[i] = m[i]
  BY <1>2, <1>3
<1> HIDE DEF l, m
<1>5. l = m
  BY <1>1, <1>4, SeqEqual
<1> QED BY <1>5 DEF l, m

LEMMA FirstQueue ==
  ASSUME share \in [Backend -> Share], NEW turn \in Counter,
         NEW q, q = SplitQueue(turn) \o <<"kiro", "order">>
  PROVE  \/ q = <<"kiro", "order">> /\ Grok + Codex # 100
         \/ q = <<"codex", "grok", "exclusive", "kiro", "order">>
         \/ q = <<"grok", "codex", "exclusive", "kiro", "order">>
<1> DEFINE pick == pickSplitProvider(turn)
<1>0. /\ "codex" \in Stop /\ "grok" \in Stop /\ "exclusive" \in Stop
      /\ "kiro" \in Stop /\ "order" \in Stop
  BY DEF Stop, Backend
<1>1. turn \in 0..99
  BY CascadeAssumption
<1>2. Grok \in 0..100 /\ Codex \in 0..100
  BY EffectiveShares
<1>3. pick = "kiro" => Grok + Codex # 100
  BY <1>1, <1>2 DEF pickSplitProvider
<1>4. SplitQueue(turn) = IF pick = "kiro" THEN <<>> ELSE
                         IF pick = "codex" THEN <<"codex", "grok", "exclusive">>
                         ELSE <<"grok", "codex", "exclusive">>
  BY DEF SplitQueue
<1> HIDE DEF pick
<1>5. CASE pick = "kiro"
  BY <1>3, <1>4, <1>5
<1>6. CASE pick = "codex"
  <2>1. SplitQueue(turn) = <<"codex", "grok", "exclusive">>
    BY <1>4, <1>6
  <2>2. <<"codex", "grok", "exclusive">> \o <<"kiro", "order">>
          = <<"codex", "grok", "exclusive", "kiro", "order">>
    BY <1>0, ThreeAndTwo
  <2>3. q = <<"codex", "grok", "exclusive", "kiro", "order">>
    BY <2>1, <2>2, Zenon
  <2> QED BY <2>3
<1>7. CASE pick \notin {"kiro", "codex"}
  <2>1. SplitQueue(turn) = <<"grok", "codex", "exclusive">>
    BY <1>4, <1>7
  <2>2. <<"grok", "codex", "exclusive">> \o <<"kiro", "order">>
          = <<"grok", "codex", "exclusive", "kiro", "order">>
    BY <1>0, ThreeAndTwo
  <2>3. q = <<"grok", "codex", "exclusive", "kiro", "order">>
    BY <2>1, <2>2, Zenon
  <2> QED BY <2>3
<1> QED BY <1>5, <1>6, <1>7

LEMMA QueueOfSplit ==
  ASSUME NEW q, \/ q = <<"codex", "grok", "exclusive", "kiro", "order">>
                \/ q = <<"grok", "codex", "exclusive", "kiro", "order">>,
         NEW a
  PROVE  /\ q \in Seq(Stop) /\ \A p \in Backend : Due(q, a, p)
         /\ KiroDue(q, a) /\ StopIsLast(q, a) /\ KeptFromKiro(q)
<1>1. /\ q \in Seq(Stop) /\ DOMAIN q = 1..5 /\ q[3] = "exclusive" /\ q[4] = "kiro" /\ q[5] = "order"
      /\ q[1] \in Backend /\ q[2] \in Backend
      /\ \A p \in Backend : q[1] = p \/ q[2] = p
  <2>1. CASE q = <<"codex", "grok", "exclusive", "kiro", "order">>
    BY <2>1 DEF Stop, Backend
  <2>2. CASE q = <<"grok", "codex", "exclusive", "kiro", "order">>
    BY <2>2 DEF Stop, Backend
  <2> QED BY <2>1, <2>2
<1>2. (\A p \in Backend : Due(q, a, p)) /\ KiroDue(q, a)
  BY <1>1 DEF Due, KiroDue
<1>3. StopIsLast(q, a)
  <2> SUFFICES ASSUME NEW i \in 1..5, q[i] = "exclusive", NEW p \in Backend
               PROVE  \E j \in 1..(i - 1) : q[j] = p
    BY <1>1 DEF StopIsLast
  <2>1. i = 3
    BY <1>1 DEF Backend
  <2> QED BY <1>1, <2>1
<1>4. KeptFromKiro(q)
  <2>1. \A j \in 1..(3 - 1) : q[j] \in Backend
    BY <1>1
  <2> QED BY <1>1, <2>1 DEF KeptFromKiro
<1> QED BY <1>1, <1>2, <1>3, <1>4

LEMMA QueueWithoutSplit ==
  ASSUME NEW q \in {<<"kiro", "order">>, <<"order", "kiro", "order">>, <<"native", "grok">>},
         NEW a, q = <<"native", "grok">> => "codex" \in a
  PROVE  /\ q \in Seq(Stop) /\ \A p \in Backend : Due(q, a, p)
         /\ KiroDue(q, a) /\ StopIsLast(q, a)
<1>1. CASE q = <<"kiro", "order">>
  BY <1>1 DEF Stop, Backend, Due, KiroDue, StopIsLast
<1>2. CASE q = <<"order", "kiro", "order">>
  BY <1>2 DEF Stop, Backend, Due, KiroDue, StopIsLast
<1>3. CASE q = <<"native", "grok">>
  BY <1>3 DEF Stop, Backend, Due, KiroDue, StopIsLast
<1> QED BY <1>1, <1>2, <1>3

-----------------------------------------------------------------------------
(* Every step keeps to the shares.                                         *)

LEMMA SharesHold ==
  ASSUME UNCHANGED <<share, splitEdits>>
  PROVE  /\ (Grok + Codex)' = Grok + Codex
         /\ UNCHANGED emptyKiro => (AllIsSplit' <=> AllIsSplit)
  BY DEF Grok, Codex, AllIsSplit

\* A request ends: if with the word that nobody is available, everyone is asked.
LEMMA Told ==
  ASSUME SharesInv, RouteInv, step # "done", step' = "done",
         UNCHANGED <<ask, share, splitEdits>>, queue' \in Seq(Stop),
         NEW what, answer' = Append(answer, what),
         what = "unavailable" /\ ask.model # "grok" =>
           /\ Backend \subseteq asked'
           /\ "kiro" \in asked' \/ Grok + Codex = 100 \/ splitEdits > 0
  PROVE  SharesInv'
<1>1. answer' = <<what>>
  BY DEF RouteInv, Unanswered
<1>2. answer' = <<"unavailable">> => what = "unavailable"
  BY <1>1
<1>3. (ask.model # "grok")' => ToldSo'
  BY <1>2, SharesHold DEF ToldSo
<1> QED BY <1>3 DEF SharesInv, TypesOfRoute

\* The queue and whoever was asked stay as they are, and the handler only moves on.
LEMMA MovesOn ==
  ASSUME SharesInv, step \notin {"route", "done"}, step' \notin {"route", "done"},
         UNCHANGED <<ask, share, splitEdits, emptyKiro, queue, asked>>,
         ~Waits, step' # "codex", step' = "kiro" => step = "kiro"
  PROVE  SharesInv'
<1>1. TypesOfRoute'
  BY DEF SharesInv, TypesOfRoute
<1>2. ASSUME ask.model # "grok" PROVE UnderWay'
  <2>1. UnderWay
    BY <1>2 DEF SharesInv
  <2>2. Queued'
    BY <2>1 DEF UnderWay, Queued
  <2>3. StopIsLast(queue, asked)'
    BY <2>1 DEF UnderWay
  <2>4. (ask.model = "kiro" /\ AllIsSplit)' => (step # "kiro" /\ KeptFromKiro(queue))'
    BY <2>1, SharesHold DEF UnderWay
  <2> QED BY <2>1, <2>2, <2>3, <2>4 DEF UnderWay
<1> QED BY <1>1, <1>2 DEF SharesInv

\* The head of the queue is dealt with.
LEMMA HeadIsTaken ==
  ASSUME SharesInv, step = "next", queue # <<>>, step' \notin {"route", "done"},
         UNCHANGED <<ask, share, splitEdits, emptyKiro>>, queue' = Tail(queue),
         asked \subseteq asked', queue[1] \notin {"order"},
         queue[1] \in Backend => queue[1] \in asked',
         queue[1] \in {"kiro", "native"} => "kiro" \in asked',
         step' = "kiro" => queue[1] \in {"kiro", "native"},
         queue[1] = "exclusive" => ~silentSplitIsExclusive
  PROVE  SharesInv'
<1>0. queue \in Seq(Stop) /\ share \in [Backend -> Share]
  BY DEF SharesInv, TypesOfRoute
<1>1. TypesOfRoute'
  BY <1>0, TailOfQueue DEF SharesInv, TypesOfRoute
<1>2. ASSUME ask.model # "grok" PROVE UnderWay'
  <2>1. UnderWay
    BY <1>2 DEF SharesInv
  <2>2. Queued
    BY <2>1 DEF UnderWay, Waits
  <2>3. ASSUME NEW p \in Backend PROVE Due(Tail(queue), asked', p)
    BY <1>0, <2>2, <2>3, DueAfterTail DEF Queued
  <2>4. KiroDue(Tail(queue), asked')
    BY <1>0, <2>2, KiroDueAfterTail DEF Queued
  <2>5. StopIsLast(Tail(queue), asked')
    BY <1>0, <2>1, StopAfterTail DEF UnderWay
  <2>6. ASSUME ask.model = "kiro", AllIsSplit'
        PROVE  step' # "kiro" /\ KeptFromKiro(Tail(queue))
    <3>1. KeptFromKiro(queue) /\ Grok + Codex = 100
      BY <2>1, <2>6, SharesHold DEF UnderWay, AllIsSplit
    <3>2. queue[1] \in Backend \cup {"exclusive"}
      BY <1>0, <3>1, HeadOfKept
    <3>3. queue[1] # "exclusive"
      BY <1>0, <3>1, EffectiveShares
    <3>4. KeptFromKiro(Tail(queue))
      BY <1>0, <3>1, <3>3, KeptAfterTail
    <3> QED BY <3>2, <3>4 DEF Backend
  <2>7. (ask.model = "codex")' => ("codex" \in asked)'
    BY <2>1 DEF UnderWay
  <2>8. Queued'
    BY <2>3, <2>4 DEF Queued
  <2> QED BY <2>5, <2>6, <2>7, <2>8 DEF UnderWay
<1> QED BY <1>1, <1>2 DEF SharesInv

\* Only Grok asked for by name gives up aloud.
LEMMA SendErrKeepsShares ==
  ASSUME SharesInv, RouteInv, NEW p \in Backend, step = p, NEW what, SendErr(p, what),
         UNCHANGED <<ask, share, splitEdits, emptyKiro, queue, asked>>,
         what # "unavailable" \/ p # "codex" \/ Silent(p)
  PROVE  SharesInv'
<1>0. step \notin {"route", "done"} /\ queue' \in Seq(Stop)
  BY DEF Backend, SharesInv, TypesOfRoute
<1>1. CASE ask.stream /\ header
  BY <1>0, <1>1, Told DEF SendErr
<1>2. CASE ~(ask.stream /\ header) /\ Silent(p)
  BY <1>0, <1>2, MovesOn DEF SendErr, Silent, Waits
<1>3. CASE ~(ask.stream /\ header) /\ ~Silent(p)
  <2> DEFINE w == IF committed THEN "late" ELSE what
  <2>1. answer' = Append(answer, w) /\ step' = "done"
    BY <1>3 DEF SendErr, SendStatus
  <2>2. w = "unavailable" => ask.model = "grok"
    BY <1>3 DEF Silent, Backend
  <2> HIDE DEF w
  <2> QED BY <1>0, <2>1, <2>2, Told
<1> QED BY <1>1, <1>2, <1>3

LEMMA RouteKeepsShares ==
  ASSUME SharesInv, Route
  PROVE  SharesInv'
<1>0. step = "route" /\ queue = <<>> /\ share \in [Backend -> Share] /\ ask \in Ask
  BY DEF SharesInv, TypesOfRoute, Route
<1>1. CASE ask.model # "kiro" /\ step' = ask.model /\ asked' = {ask.model} /\ UNCHANGED queue
  <2>1. queue' = <<>> /\ queue' \in Seq(Stop)
    BY <1>0, <1>1
  <2>2. StopIsLast(queue, asked)'
    BY <2>1 DEF StopIsLast
  <2>3. ask.model \in {"grok", "codex"} /\ UNCHANGED <<ask, share, splitEdits>>
    BY <1>0, <1>1 DEF Ask, Route
  <2>4. (ask.model # "grok")' => UnderWay'
    BY <1>1, <2>2, <2>3 DEF UnderWay, Waits
  <2> QED BY <1>0, <1>1, <2>1, <2>3, <2>4 DEF SharesInv, TypesOfRoute
<1>2. CASE /\ ask.model = "kiro" /\ step' = "next"
           /\ \/ emptyKiro' = TRUE /\ queue' = <<"order", "kiro", "order">>
              \/ /\ emptyKiro' = FALSE
                 /\ \E turn \in Counter : queue' = SplitQueue(turn) \o <<"kiro", "order">>
  <2>0. UNCHANGED <<ask, share, splitEdits>>
    BY DEF Route
  <2>1. /\ queue' \in Seq(Stop) /\ \A p \in Backend : Due(queue', asked', p)
        /\ KiroDue(queue', asked') /\ StopIsLast(queue', asked')
        /\ ~emptyKiro' /\ Grok + Codex = 100 => KeptFromKiro(queue')
    <3>1. CASE emptyKiro' /\ queue' = <<"order", "kiro", "order">>
      BY <3>1, QueueWithoutSplit
    <3>2. CASE ~emptyKiro' /\ \E turn \in Counter : queue' = SplitQueue(turn) \o <<"kiro", "order">>
      <4>1. PICK turn \in Counter : queue' = SplitQueue(turn) \o <<"kiro", "order">>
        BY <3>2
      <4>2. CASE queue' = <<"kiro", "order">> /\ Grok + Codex # 100
        BY <4>2, QueueWithoutSplit
      <4>3. CASE \/ queue' = <<"codex", "grok", "exclusive", "kiro", "order">>
                 \/ queue' = <<"grok", "codex", "exclusive", "kiro", "order">>
        BY <4>3, QueueOfSplit
      <4> QED BY <1>0, <4>1, <4>2, <4>3, FirstQueue
    <3> QED BY <1>2, <3>1, <3>2
  <2>2. Queued'
    BY <2>1 DEF Queued
  <2>3. AllIsSplit' => KeptFromKiro(queue)'
    BY <2>0, <2>1, SharesHold DEF AllIsSplit
  <2>4. UnderWay'
    BY <1>2, <2>0, <2>1, <2>2, <2>3 DEF UnderWay
  <2> QED BY <1>0, <1>2, <2>0, <2>1, <2>4 DEF SharesInv, TypesOfRoute
<1> QED BY <1>1, <1>2 DEF Route

LEMMA OrderKeepsShares ==
  ASSUME SharesInv, ExpandOrder
  PROVE  SharesInv'
<1>0. /\ queue \in Seq(Stop) /\ queue # <<>> /\ queue[1] = "order"
      /\ step = "next" /\ step' = "next" /\ asked' = asked
      /\ UNCHANGED <<ask, share, splitEdits, emptyKiro>>
  BY TailOfQueue DEF SharesInv, TypesOfRoute, ExpandOrder, Quiet
<1>1. PICK s \in {<<"codex", "grok">>, <<"grok", "codex">>} : queue' = s \o Tail(queue)
  BY OrderOfSilent DEF ExpandOrder
<1>2. ASSUME ask.model # "grok" PROVE UnderWay'
  <2>1. UnderWay
    BY <1>0, <1>2 DEF SharesInv
  <2>2. /\ \A p \in Backend : Due(queue', asked, p)
        /\ KiroDue(queue, asked) => KiroDue(queue', asked)
        /\ StopIsLast(queue', asked)
    BY <1>0, <1>1, Expanded
  <2>3. Queued'
    BY <1>0, <2>1, <2>2 DEF UnderWay, Waits, Queued
  <2>4. ~(ask.model = "kiro" /\ AllIsSplit)
    BY <1>0, <2>1, HeadOfKept DEF UnderWay, Backend
  <2> QED BY <1>0, <2>1, <2>2, <2>3, <2>4, SharesHold DEF UnderWay
<1>3. queue' \in Seq(Stop)
  BY <1>0, <1>1, Expanded
<1> QED BY <1>0, <1>2, <1>3 DEF SharesInv, TypesOfRoute

LEMMA SharesStep ==
  ASSUME SharesInv, RouteInv, [CascadeNext]_cascadeVars
  PROVE  SharesInv'
<1>0. queue \in Seq(Stop) /\ share \in [Backend -> Share] /\ ask \in Ask /\ splitEdits \in Nat
  BY DEF SharesInv, TypesOfRoute
<1>1. CASE Route
  BY <1>1, RouteKeepsShares
<1>2. CASE NextProvider
  <2>1. queue # <<>> /\ Head(queue) = queue[1] /\ queue[1] \in Backend
    BY <1>0, <1>2, TailOfQueue DEF NextProvider
  <2>2. step' \in Backend \cup {"next"}
    BY <1>2 DEF NextProvider
  <2> QED BY <1>2, <2>1, <2>2, HeadIsTaken DEF NextProvider, Quiet, Backend
<1>3. CASE ExpandOrder
  BY <1>3, OrderKeepsShares
<1>4. CASE ExclusiveStop
  <2>1. queue # <<>> /\ Head(queue) = queue[1] /\ queue[1] = "exclusive" /\ 1 \in DOMAIN queue
    BY <1>0, <1>4, TailOfQueue DEF ExclusiveStop
  <2>2. CASE silentSplitIsExclusive
    <3> DEFINE w == IF committed THEN "late" ELSE "unavailable"
    <3>1. answer' = Append(answer, w) /\ step' = "done"
      BY <1>4, <2>2 DEF ExclusiveStop, SendStatus
    <3>2. Grok + Codex = 100
      BY <1>0, <2>2, EffectiveShares
    <3>3. ASSUME ask.model # "grok" PROVE Backend \subseteq asked
      <4>1. StopIsLast(queue, asked)
        BY <1>4, <3>3 DEF SharesInv, UnderWay, ExclusiveStop
      <4>2. \A j \in 1..(1 - 1) : FALSE
        OBVIOUS
      <4> QED BY <2>1, <4>1, <4>2 DEF StopIsLast
    <3> HIDE DEF w
    <3> QED BY <1>0, <1>4, <2>2, <3>1, <3>2, <3>3, Told DEF ExclusiveStop, Quiet
  <2>3. CASE ~silentSplitIsExclusive
    BY <1>4, <2>1, <2>3, HeadIsTaken DEF ExclusiveStop, Quiet, Backend
  <2> QED BY <2>2, <2>3
<1>5. CASE EnterKiro
  <2>1. queue # <<>> /\ Head(queue) = queue[1] /\ queue[1] \in {"kiro", "native"}
        /\ Tail(queue) \in Seq(Stop)
    BY <1>0, <1>5, TailOfQueue DEF EnterKiro
  <2>2. CASE SendStatus("bad request")
    <3> DEFINE w == IF committed THEN "late" ELSE "bad request"
    <3>1. answer' = Append(answer, w) /\ step' = "done" /\ w # "unavailable"
      BY <2>2 DEF SendStatus
    <3> HIDE DEF w
    <3> QED BY <1>5, <2>1, <3>1, Told DEF EnterKiro, Quiet
  <2>3. CASE step' \in {"kiro", "next"}
    BY <1>5, <2>1, <2>3, HeadIsTaken DEF EnterKiro, Quiet, Backend
  <2> QED BY <1>5, <2>2, <2>3 DEF EnterKiro
<1>6. CASE NobodyServes
  <2>1. queue = <<>> /\ step = "next"
    BY <1>6 DEF NobodyServes
  <2>2. ASSUME ask.model # "grok" PROVE Backend \subseteq asked /\ "kiro" \in asked
    <3>1. Queued
      BY <2>1, <2>2 DEF SharesInv, UnderWay, Waits
    <3> QED BY <2>1, <3>1 DEF Queued, Due, KiroDue
  <2>3. CASE step' = "done" /\ \E what : answer' = Append(answer, what)
    BY <1>0, <1>6, <2>1, <2>2, <2>3, Told DEF NobodyServes, Quiet
  <2>4. ~(step' = "done" /\ \E what : answer' = Append(answer, what)) => ask.model = "codex" /\ Silent("codex")
    BY <1>6 DEF NobodyServes, SendErr, SendStatus
  <2> QED BY <2>3, <2>4 DEF Silent
<1>7. CASE KiroAccountFails
  BY <1>7, MovesOn DEF KiroAccountFails, Quiet, Waits
<1>8. CASE KiroGivesUp
  BY <1>8, MovesOn DEF KiroGivesUp, Quiet, Waits
<1>9. CASE KiroServes
  BY <1>0, <1>9, Told DEF KiroServes, Respond
<1>10. CASE KiroBreaksOff
  BY <1>0, <1>10, Told DEF KiroBreaksOff, Respond, Quiet
<1>11. ASSUME NEW p \in Backend, BackendServes(p) PROVE SharesInv'
  BY <1>0, <1>11, Told DEF BackendServes, Respond, Backend
<1>12. ASSUME NEW p \in Backend, BackendBreaksOff(p) PROVE SharesInv'
  BY <1>0, <1>12, Told DEF BackendBreaksOff, Respond, Quiet, Backend
<1>13. ASSUME NEW p \in Backend, BackendFails(p) PROVE SharesInv'
  <2>0. step = p /\ step \notin {"route", "done"} /\ UNCHANGED <<ask, share, splitEdits, emptyKiro, asked>>
    BY <1>13 DEF BackendFails, Quiet, Backend
  <2>1. CASE p = "codex" /\ ~Silent(p)
    <3>1. ask.model = "codex" /\ queue' = <<"native", "grok">> /\ step' = "next"
      BY <1>13, <2>1 DEF BackendFails, Silent
    <3>2. "codex" \in asked
      BY <2>0, <3>1 DEF SharesInv, UnderWay
    <3>3. /\ queue' \in Seq(Stop) /\ \A q \in Backend : Due(queue', asked, q)
          /\ KiroDue(queue', asked) /\ StopIsLast(queue', asked)
      BY <3>1, <3>2, QueueWithoutSplit
    <3>4. UnderWay'
      BY <2>0, <3>1, <3>2, <3>3 DEF UnderWay, Queued
    <3> QED BY <1>0, <2>0, <3>1, <3>3, <3>4 DEF SharesInv, TypesOfRoute
  <2>2. CASE ~(p = "codex" /\ ~Silent(p))
    BY <1>13, <2>0, <2>2, SendErrKeepsShares DEF BackendFails
  <2> QED BY <2>1, <2>2
<1>14. ASSUME NEW p \in Backend, PromptTooLong(p) PROVE SharesInv'
  <2>0. step = p /\ step \notin {"route", "done"}
        /\ UNCHANGED <<ask, share, splitEdits, emptyKiro, asked, queue>>
    BY <1>14 DEF PromptTooLong, Quiet, Backend
  <2>1. CASE SendStatus("bad request")
    <3> DEFINE w == IF committed THEN "late" ELSE "bad request"
    <3>1. answer' = Append(answer, w) /\ step' = "done" /\ w # "unavailable"
      BY <2>1 DEF SendStatus
    <3> HIDE DEF w
    <3> QED BY <1>0, <2>0, <3>1, Told
  <2>2. CASE SendErr(p, "bad request")
    BY <2>0, <2>2, SendErrKeepsShares
  <2> QED BY <1>14, <2>1, <2>2 DEF PromptTooLong
<1>15. CASE SetSplit
  <2>1. /\ step # "done" /\ splitEdits' = splitEdits + 1
        /\ UNCHANGED <<ask, step, queue, asked, answer, emptyKiro>>
    BY <1>15 DEF SetSplit
  <2>2. splitEdits' \in Nat /\ ~AllIsSplit'
    BY <1>0, <2>1 DEF AllIsSplit
  <2>3. share' \in [Backend -> Share]
    BY <1>0, <1>15 DEF SetSplit
  <2>4. step \notin {"route", "done"} /\ ask.model # "grok" => UnderWay'
    BY <2>1, <2>2 DEF SharesInv, UnderWay, Queued, Waits
  <2> QED BY <2>1, <2>2, <2>3, <2>4 DEF SharesInv, TypesOfRoute
<1>16. CASE UNCHANGED cascadeVars
  <2>1. UNCHANGED <<Grok, Codex>>
    BY <1>16 DEF cascadeVars, Grok, Codex
  <2> QED BY <1>16, <2>1 DEF cascadeVars, SharesInv, TypesOfRoute, UnderWay, Waits, Queued,
                             AllIsSplit, ToldSo
<1> QED BY <1>1, <1>2, <1>3, <1>4, <1>5, <1>6, <1>7, <1>8, <1>9, <1>10, <1>11, <1>12,
           <1>13, <1>14, <1>15, <1>16 DEF CascadeNext

LEMMA SharesInvIsStronger == SharesInv /\ RouteInv => AskedAsShared
<1> SUFFICES ASSUME SharesInv, RouteInv PROVE AskedAsShared
  OBVIOUS
<1>1. SplitIsExact
  BY SplitCounts DEF SharesInv, TypesOfRoute
<1>2. answer = <<"unavailable">> => step = "done"
  BY DEF RouteInv, Unanswered
<1>3. answer = <<"unavailable">> /\ ask.model # "grok" =>
        Backend \subseteq asked /\ ("kiro" \in asked \/ Grok + Codex = 100 \/ splitEdits > 0)
  BY <1>2 DEF SharesInv, ToldSo
<1>4. step = "kiro" /\ ask.model = "kiro" /\ Grok + Codex = 100 /\ splitEdits = 0 => emptyKiro
  BY DEF SharesInv, UnderWay, AllIsSplit
<1> QED BY <1>1, <1>3, <1>4 DEF AskedAsShared

\* However the shares are set: a hundred requests in a row are split exactly by them.
\* No client is told that nobody is available before every provider was asked or
\* found not ready, as far as the shares let them be asked, and a split without a
\* rest for Kiro keeps requests from it while it has accounts.
THEOREM SharesHonoured == CascadeSpec => []AskedAsShared
<1>1. CascadeInit => RouteInv /\ SharesInv
  <2>1. CascadeInit => <<>> \in Seq(Stop) /\ 0 \in Nat
    OBVIOUS
  <2> QED BY <2>1 DEF CascadeInit, RouteInv, Unanswered, SharesInv, TypesOfRoute
<1>2. CascadeSpec => [](RouteInv /\ SharesInv)
  BY <1>1, RouteStep, SharesStep, PTL DEF CascadeSpec
<1> QED BY <1>2, SharesInvIsStronger, PTL

-----------------------------------------------------------------------------
(* WebSearch: the types.                                                   *)

Budget == resolveWebSearchMaxUses
Outcomes == {"results", "skipped", "none"}
Block == {"results", "empty", "text", "tool_use"}

SearchTyped ==
  /\ query \in [mixed : BOOLEAN, max : MaxUses]
  /\ phase \in {"pure", "call", "search", "flush", "done"}
  /\ round \in Nat /\ searches \in Nat
  /\ uses \in Seq(Use) /\ text \in BOOLEAN /\ full \in BOOLEAN
  /\ found \in Seq(Outcomes)
  /\ shown \in Seq(Block)
  /\ bill \in [calls : Nat, key : Nat]

LEMMA SearchesAreBounded ==
  ASSUME SearchTyped
  PROVE  Budget \in Nat \ {0}
<1>1. query.max \in Nat
  BY WebSearchAssumption DEF SearchTyped
<1> QED BY <1>1, WebSearchAssumption DEF Budget, resolveWebSearchMaxUses

LEMMA BoundedIsSeq ==
  ASSUME NEW S, NEW n, NEW s \in BoundedSeq(S, n)
  PROVE  s \in Seq(S)
<1>1. PICK m \in 0..n : s \in [1..m -> S]
  BY DEF BoundedSeq, SeqOf
<1> QED BY <1>1, IsASeq

-----------------------------------------------------------------------------
(* WebSearch: the invariant.                                               *)

\* The rounds and the calls keep to the budget, and a round goes on only if all
\* its searches fit.
RoundsFit ==
  /\ searches <= Budget /\ round <= Budget /\ bill.calls <= Budget + 1
  /\ phase = "call" => bill.calls = round
  /\ phase = "search" => /\ round < Budget /\ bill.calls = round + 1
                         /\ searches + Len(uses) <= Budget

\* In a round that goes on, each use is a search and each outcome has results; in
\* the last one, a use of the client has no outcome and one that has no results
\* was met when the budget was spent.
OutcomesFit ==
  /\ phase \in {"search", "flush"} => Len(found) <= Len(uses)
  /\ phase = "search" => /\ \A i \in DOMAIN uses : uses[i] = "search"
                         /\ \A i \in DOMAIN found : found[i] = "results"
  /\ phase = "flush" => \A i \in DOMAIN found :
       /\ found[i] = "none" <=> uses[i] = "client"
       /\ found[i] = "skipped" => searches = Budget

\* What the client will see so far.
SeenSoFar ==
  /\ phase \in {"call", "search", "flush"} =>
       Count(shown, "empty") = 0 /\ Count(shown, "tool_use") = 0
  /\ phase \in {"call", "search"} => Count(shown, "results") = searches
  /\ phase = "flush" => Count(shown, "results") + Count(found, "results") = searches
  /\ phase = "pure" => searches = 0 /\ bill.calls = 0

SeenAtEnd ==
  phase = "done" /\ reply \in Served =>
    /\ Count(shown, "results") = searches
    /\ Count(shown, "empty") > 0 => searches = Budget
    /\ reply # "window_exceeded" => (reply = "tool_use" <=> Count(shown, "tool_use") > 0)

BilledOnce ==
  /\ phase # "done" => reply = "none"
  /\ bill.key = IF reply \in Served THEN 1 ELSE 0

SearchInv == SearchTyped /\ RoundsFit /\ OutcomesFit /\ SeenSoFar /\ SeenAtEnd /\ BilledOnce

LEMMA SearchInvIsExact == SearchInv => SearchLoopIsExact
<1>1. \A b : Shown(b) = Count(shown, b)
  BY DEF Shown, Count
<1> QED
  BY <1>1 DEF SearchInv, RoundsFit, SeenAtEnd, BilledOnce, SearchLoopIsExact, Budget, Served

LEMMA WebSearchInitInv == WebSearchInit => SearchInv
<1> SUFFICES ASSUME WebSearchInit PROVE SearchInv
  OBVIOUS
<1>1. SearchTyped
  BY EmptySeq DEF WebSearchInit, SearchTyped
<1>2. Budget \in Nat \ {0}
  BY <1>1, SearchesAreBounded
<1>3. RoundsFit /\ OutcomesFit /\ BilledOnce /\ SeenAtEnd
  BY <1>2, EmptySeq DEF WebSearchInit, RoundsFit, OutcomesFit, BilledOnce, SeenAtEnd, Served
<1>4. SeenSoFar
  BY CountEmpty DEF WebSearchInit, SeenSoFar
<1> QED BY <1>1, <1>3, <1>4 DEF SearchInv

LEMMA SearchBudgetStays ==
  ASSUME query' = query
  PROVE  Budget' = Budget
  BY DEF Budget, resolveWebSearchMaxUses

-----------------------------------------------------------------------------
(* WebSearch: the steps.                                                   *)

\* A step that changes none of what the invariant is about, or ends in an error.
LEMMA SearchIdles ==
  ASSUME SearchInv,
         UNCHANGED <<query, round, uses, text, full, found, searches, shown, bill>>,
         \/ UNCHANGED <<phase, reply>>
         \/ phase # "done" /\ phase' = "done" /\ reply' \in {"error", "bad request"}
  PROVE  SearchInv'
<1>1. Budget' = Budget
  BY SearchBudgetStays
<1>2. SearchTyped'
  BY DEF SearchInv, SearchTyped
<1>3. CASE UNCHANGED <<phase, reply>>
  BY <1>1, <1>2, <1>3 DEF SearchInv, RoundsFit, OutcomesFit, SeenSoFar, SeenAtEnd, BilledOnce
<1>4. CASE phase # "done" /\ phase' = "done" /\ reply' \in {"error", "bad request"}
  BY <1>1, <1>2, <1>4
     DEF SearchInv, RoundsFit, OutcomesFit, SeenSoFar, SeenAtEnd, BilledOnce, Served
<1> QED BY <1>3, <1>4

LEMMA SearchAloneKeeps ==
  ASSUME SearchInv, handleWebSearchRequest
  PROVE  SearchInv'
<1> DEFINE s == <<"text", "results", "text">>
<1>1. s \in Seq(Block) /\ shown' = s
  BY DEF handleWebSearchRequest, SearchBlocks, Block
<1>2. Budget' = Budget /\ Budget \in Nat \ {0}
  BY SearchBudgetStays, SearchesAreBounded DEF handleWebSearchRequest, SearchInv
<1>3. SearchTyped'
  <2>1. SearchTyped /\ UNCHANGED <<query, round, uses, text, full, found>>
    BY DEF SearchInv, handleWebSearchRequest
  <2>2. searches' \in Nat /\ phase' \in {"pure", "call", "search", "flush", "done"}
    BY DEF handleWebSearchRequest
  <2>3. bill' \in [calls : Nat, key : Nat]
    <3>1. bill \in [calls : Nat, key : Nat] /\ bill' = [bill EXCEPT !.key = @ + 1]
      BY <2>1 DEF SearchTyped, handleWebSearchRequest
    <3> QED BY <3>1
  <2> QED BY <1>1, <2>1, <2>2, <2>3 DEF SearchTyped
<1>4. RoundsFit' /\ OutcomesFit' /\ SeenSoFar'
  BY <1>2 DEF SearchInv, SearchTyped, RoundsFit, OutcomesFit, SeenSoFar, handleWebSearchRequest
<1>5. BilledOnce'
  BY DEF SearchInv, SearchTyped, BilledOnce, Served, handleWebSearchRequest
<1>6. Count(s, "results") = 1
  <2>1. {i \in DOMAIN s : s[i] = "results"} = {2}
    OBVIOUS
  <2> QED BY <2>1, FS_Singleton DEF Count
<1>7. ~(Count(s, "empty") > 0) /\ ~(Count(s, "tool_use") > 0)
  <2>1. DOMAIN s = 1..3 /\ s[1] = "text" /\ s[2] = "results" /\ s[3] = "text"
    OBVIOUS
  <2> HIDE DEF s
  <2>2. \A i \in DOMAIN s : s[i] # "empty" /\ s[i] # "tool_use"
    BY <2>1
  <2>3. /\ Count(s, "empty") > 0 <=> \E i \in DOMAIN s : s[i] = "empty"
        /\ Count(s, "tool_use") > 0 <=> \E i \in DOMAIN s : s[i] = "tool_use"
    BY <1>1, CountPositive
  <2> QED BY <2>2, <2>3
<1> HIDE DEF s
<1>8. SeenAtEnd'
  BY <1>1, <1>6, <1>7 DEF SeenAtEnd, Served, handleWebSearchRequest
<1> QED BY <1>3, <1>4, <1>5, <1>8 DEF SearchInv

\* A round that goes on asks for searches only.
LEMMA OnlySearches ==
  ASSUME NEW us \in Seq(Use), shouldSearchRound(us)
  PROVE  /\ \A i \in DOMAIN us : us[i] = "search"
         /\ countWebSearchToolUses(us) = Len(us)
<1>1. \A i \in DOMAIN us : us[i] \in Use /\ us[i] \in ToSet(us)
  BY ElementOfSeq, LenProperties DEF ToSet
<1>2. \A i \in DOMAIN us : us[i] = "search"
  BY <1>1 DEF shouldSearchRound, Use
<1>3. countWebSearchToolUses(us) = Count(us, "search")
  BY DEF countWebSearchToolUses, Count
<1> QED BY <1>2, <1>3, CountAll

LEMMA SearchCallKeeps ==
  ASSUME SearchInv, callUpstreamForWebSearch
  PROVE  SearchInv'
<1>1. Budget' = Budget /\ Budget \in Nat \ {0}
  BY SearchBudgetStays, SearchesAreBounded DEF callUpstreamForWebSearch, SearchInv
<1>2. uses' \in Seq(Use)
  BY BoundedIsSeq DEF callUpstreamForWebSearch
<1>3. found' = <<>> /\ found' \in Seq(Outcomes) /\ Len(found') = 0 /\ DOMAIN found' = {}
  BY EmptySeq DEF callUpstreamForWebSearch
<1>4. bill' = [bill EXCEPT !.calls = @ + 1] /\ bill \in [calls : Nat, key : Nat]
  BY DEF SearchInv, SearchTyped, callUpstreamForWebSearch
<1>5. SearchTyped'
  BY <1>2, <1>3, <1>4 DEF SearchInv, SearchTyped, callUpstreamForWebSearch
<1>6. Len(uses') \in Nat
  BY <1>2, LenProperties
<1>7. phase' = "search" =>
        /\ \A i \in DOMAIN uses' : uses'[i] = "search"
        /\ searches + Len(uses') <= Budget /\ round < Budget
  <2> SUFFICES ASSUME phase' = "search"
               PROVE  /\ \A i \in DOMAIN uses' : uses'[i] = "search"
                      /\ searches + Len(uses') <= Budget /\ round < Budget
    OBVIOUS
  <2>1. shouldSearchRound(uses') /\ searches + countWebSearchToolUses(uses') <= Budget
    BY DEF callUpstreamForWebSearch, Budget
  <2>2. round < Budget
    BY <2>1 DEF shouldSearchRound, Budget
  <2> QED BY <1>2, <2>1, <2>2, OnlySearches
<1>8. RoundsFit'
  BY <1>1, <1>4, <1>7 DEF SearchInv, SearchTyped, RoundsFit, callUpstreamForWebSearch
<1>9. OutcomesFit'
  BY <1>3, <1>6, <1>7 DEF OutcomesFit, callUpstreamForWebSearch
<1>10. SeenSoFar'
  <2>1. phase = "call" /\ phase' \in {"search", "flush"} /\ UNCHANGED <<searches, shown>>
    BY DEF callUpstreamForWebSearch
  <2>2. /\ Count(shown, "results") = searches /\ Count(shown, "empty") = 0
        /\ Count(shown, "tool_use") = 0 /\ searches \in Nat
    BY <2>1 DEF SearchInv, SearchTyped, SeenSoFar
  <2>3. Count(found', "results") = 0
    BY <1>3, CountEmpty
  <2> QED BY <2>1, <2>2, <2>3 DEF SeenSoFar
<1>11. BilledOnce' /\ SeenAtEnd'
  BY <1>4 DEF SearchInv, BilledOnce, SeenAtEnd, Served, callUpstreamForWebSearch
<1> QED BY <1>5, <1>8, <1>9, <1>10, <1>11 DEF SearchInv

LEMMA SearchingKeeps ==
  ASSUME SearchInv, searchAllWebUses
  PROVE  SearchInv'
<1>1. Budget' = Budget
  BY SearchBudgetStays DEF searchAllWebUses
<1>2. found \in Seq(Outcomes) /\ found' = Append(found, "results") /\ "results" \in Outcomes
  BY DEF SearchInv, SearchTyped, searchAllWebUses, performWebSearch, Outcomes
<1>3. /\ found' \in Seq(Outcomes) /\ Len(found') = Len(found) + 1
      /\ DOMAIN found' = 1..Len(found) + 1 /\ DOMAIN found = 1..Len(found)
      /\ found'[Len(found) + 1] = "results" /\ Len(found) \in Nat
      /\ \A i \in 1..Len(found) : found'[i] = found[i]
  BY <1>2, AppendAt
<1>4. Len(uses) \in Nat
  BY LenProperties DEF SearchInv, SearchTyped
<1>5. SearchTyped' /\ RoundsFit' /\ SeenSoFar' /\ SeenAtEnd' /\ BilledOnce'
  BY <1>1, <1>3 DEF SearchInv, SearchTyped, RoundsFit, SeenSoFar, SeenAtEnd, BilledOnce,
                    searchAllWebUses
<1>6. OutcomesFit'
  BY <1>3, <1>4 DEF SearchInv, OutcomesFit, searchAllWebUses
<1> QED BY <1>5, <1>6 DEF SearchInv

\* What is shown of a round that has all its outcomes.
LEMMA BlocksOfRound ==
  ASSUME NEW us \in Seq(Use), NEW outs \in Seq(Outcomes), Len(outs) = Len(us),
         \A i \in DOMAIN outs : outs[i] = "none" <=> us[i] = "client"
  PROVE  /\ Blocks(us, outs) \in Seq(Block)
         /\ Count(Blocks(us, outs), "results") = Count(outs, "results")
         /\ Count(Blocks(us, outs), "empty") > 0 => \E i \in DOMAIN outs : outs[i] = "skipped"
         /\ Count(Blocks(us, outs), "tool_use") > 0 <=> "client" \in ToSet(us)
<1> DEFINE bs == Blocks(us, outs)
<1>1. /\ DOMAIN us = 1..Len(us) /\ DOMAIN outs = DOMAIN us /\ Len(us) \in Nat
      /\ \A i \in DOMAIN us : us[i] \in Use /\ outs[i] \in Outcomes
  BY LenProperties, ElementOfSeq
<1>2. /\ DOMAIN bs = DOMAIN us
      /\ \A i \in DOMAIN us :
           bs[i] = IF us[i] = "search" THEN SearchBlocks(outs[i]) ELSE "tool_use"
  BY DEF Blocks
<1>3. bs \in [1..Len(us) -> Block]
  BY <1>1 DEF Blocks, SearchBlocks, Block
<1>4. bs \in Seq(Block)
  BY <1>1, <1>3, IsASeq
<1> HIDE DEF bs
<1>5. \A i \in DOMAIN us : /\ bs[i] = "results" <=> outs[i] = "results"
                           /\ bs[i] = "empty" <=> outs[i] = "skipped"
                           /\ bs[i] = "tool_use" <=> us[i] = "client"
  BY <1>1, <1>2 DEF SearchBlocks, Use, Outcomes
<1>6. {i \in DOMAIN bs : bs[i] = "results"} = {i \in DOMAIN outs : outs[i] = "results"}
  BY <1>1, <1>2, <1>5
<1>7. Count(bs, "results") = Count(outs, "results")
  BY <1>6 DEF Count
<1>8. Count(bs, "empty") > 0 <=> \E i \in DOMAIN bs : bs[i] = "empty"
  BY <1>4, CountPositive
<1>9. Count(bs, "tool_use") > 0 <=> \E i \in DOMAIN bs : bs[i] = "tool_use"
  BY <1>4, CountPositive
<1>10. "client" \in ToSet(us) <=> \E i \in DOMAIN us : us[i] = "client"
  BY <1>1 DEF ToSet
<1>11. Blocks(us, outs) = bs
  BY DEF bs
<1> QED BY <1>1, <1>2, <1>4, <1>5, <1>7, <1>8, <1>9, <1>10, <1>11

LEMMA SearchRoundKeeps ==
  ASSUME SearchInv, appendSearchRound
  PROVE  SearchInv'
<1>1. Budget' = Budget /\ Budget \in Nat
  BY SearchBudgetStays, SearchesAreBounded DEF appendSearchRound, SearchInv
<1>2. /\ uses \in Seq(Use) /\ found \in Seq(Outcomes) /\ shown \in Seq(Block)
      /\ Len(found) = Len(uses) /\ Len(uses) \in Nat /\ searches \in Nat
      /\ DOMAIN found = 1..Len(uses) /\ DOMAIN uses = 1..Len(uses)
      /\ \A i \in DOMAIN uses : uses[i] = "search" /\ found[i] = "results"
  BY LenProperties DEF SearchInv, SearchTyped, OutcomesFit, appendSearchRound
<1> DEFINE bs == Blocks(uses, found)
<1>3. /\ bs \in Seq(Block) /\ Count(bs, "results") = Count(found, "results")
      /\ ~(Count(bs, "empty") > 0)
      /\ Count(bs, "tool_use") > 0 <=> "client" \in ToSet(uses)
  BY <1>2, BlocksOfRound
<1>4. "client" \notin ToSet(uses)
  BY <1>2 DEF ToSet
<1>5. shown' = shown \o bs
  BY DEF appendSearchRound
<1> HIDE DEF bs
<1>6. Count(bs, "empty") \in Nat /\ Count(bs, "tool_use") \in Nat
  BY <1>3, CountFinite
<1>7. Count(found, "results") = Len(uses)
  BY <1>2, CountAll
<1>8. /\ Count(shown', "results") = Count(shown, "results") + Count(bs, "results")
      /\ Count(shown', "empty") = Count(shown, "empty") + Count(bs, "empty")
      /\ Count(shown', "tool_use") = Count(shown, "tool_use") + Count(bs, "tool_use")
  <2>1. \A b : Count(shown \o bs, b) = Count(shown, b) + Count(bs, b)
    BY <1>2, <1>3, CountConcat
  <2> QED BY <1>5, <2>1
<1>9. shown' \in Seq(Block)
  BY <1>2, <1>3, <1>5, ConcatProperties
<1>10. SearchTyped'
  BY <1>2, <1>9 DEF SearchInv, SearchTyped, appendSearchRound
<1>11. RoundsFit'
  BY <1>1, <1>2 DEF SearchInv, SearchTyped, RoundsFit, appendSearchRound
<1>12. SeenSoFar'
  <2>1. phase = "search" /\ phase' = "call" /\ searches' = searches + Len(uses)
    BY DEF appendSearchRound
  <2>2. /\ Count(shown, "results") = searches /\ Count(shown, "empty") = 0
        /\ Count(shown, "tool_use") = 0
    BY <2>1 DEF SearchInv, SeenSoFar
  <2>3. Count(bs, "empty") = 0 /\ Count(bs, "tool_use") = 0
    BY <1>3, <1>4, <1>6
  <2>4. /\ Count(shown', "results") = searches' /\ Count(shown', "empty") = 0
        /\ Count(shown', "tool_use") = 0
    BY <1>3, <1>7, <1>8, <2>1, <2>2, <2>3
  <2> QED BY <2>1, <2>4 DEF SeenSoFar
<1>13. OutcomesFit' /\ SeenAtEnd' /\ BilledOnce'
  BY DEF SearchInv, OutcomesFit, SeenAtEnd, BilledOnce, appendSearchRound
<1> QED BY <1>10, <1>11, <1>12, <1>13 DEF SearchInv

\* The last round goes on by one use, with the outcome that fits it.
LEMMA FlushKeeps ==
  ASSUME SearchInv, NEW out \in Outcomes,
         phase = "flush", Len(found) < Len(uses), found' = Append(found, out),
         out = "none" <=> uses[Len(found) + 1] = "client",
         out = "skipped" => searches = Budget,
         searches' = searches + (IF out = "results" THEN 1 ELSE 0), searches' <= Budget,
         UNCHANGED <<query, phase, round, uses, text, full, shown, bill, reply>>
  PROVE  SearchInv'
<1>1. Budget' = Budget /\ Budget \in Nat
  BY SearchBudgetStays, SearchesAreBounded DEF SearchInv
<1>2. found \in Seq(Outcomes) /\ uses \in Seq(Use) /\ searches \in Nat
  BY DEF SearchInv, SearchTyped
<1>3. /\ found' \in Seq(Outcomes) /\ Len(found') = Len(found) + 1
      /\ DOMAIN found' = 1..Len(found) + 1 /\ DOMAIN found = 1..Len(found)
      /\ found'[Len(found) + 1] = out /\ Len(found) \in Nat
      /\ \A i \in 1..Len(found) : found'[i] = found[i]
  BY <1>2, AppendAt
<1>4. Len(uses) \in Nat
  BY <1>2, LenProperties
<1>5. SearchTyped'
  BY <1>2, <1>3 DEF SearchInv, SearchTyped
<1>6. RoundsFit' /\ SeenAtEnd' /\ BilledOnce'
  BY <1>1 DEF SearchInv, RoundsFit, SeenAtEnd, BilledOnce
<1>7. \A i \in DOMAIN found : /\ found[i] = "none" <=> uses[i] = "client"
                              /\ found[i] = "skipped" => searches = Budget
  BY DEF SearchInv, OutcomesFit
<1>8. searches = Budget => searches' = Budget
  BY <1>1, <1>2
<1>9. OutcomesFit'
  <2>1. Len(found') <= Len(uses')
    BY <1>3, <1>4
  <2>2. ASSUME NEW i \in 1..Len(found) + 1
        PROVE  /\ found'[i] = "none" <=> uses'[i] = "client"
               /\ found'[i] = "skipped" => searches' = Budget'
    <3>1. CASE i = Len(found) + 1
      BY <1>1, <1>3, <1>8, <3>1
    <3>2. CASE i \in 1..Len(found)
      BY <1>1, <1>3, <1>7, <1>8, <3>2
    <3> QED BY <1>3, <3>1, <3>2
  <2> QED BY <1>3, <2>1, <2>2 DEF OutcomesFit
<1>10. Count(found', "results") = Count(found, "results") + (IF out = "results" THEN 1 ELSE 0)
  BY <1>2, CountAppend
<1>11. Count(found, "results") \in Nat /\ Count(shown, "results") \in Nat
  BY <1>2, CountFinite DEF SearchInv, SearchTyped
<1>12. SeenSoFar'
  <2>1. /\ Count(shown, "empty") = 0 /\ Count(shown, "tool_use") = 0
        /\ Count(shown, "results") + Count(found, "results") = searches
    BY DEF SearchInv, SeenSoFar
  <2>2. Count(shown, "results") + Count(found', "results") = searches'
    BY <1>10, <1>11, <2>1
  <2> QED BY <2>1, <2>2 DEF SeenSoFar
<1> QED BY <1>5, <1>6, <1>9, <1>12 DEF SearchInv

LEMMA FlushSearchKeeps ==
  ASSUME SearchInv, FlushSearch
  PROVE  SearchInv'
<1>1. /\ phase = "flush" /\ Len(found) < Len(uses)
      /\ UNCHANGED <<query, phase, round, uses, text, full, shown, bill, reply>>
  BY DEF FlushSearch
<1>2. Budget \in Nat /\ searches \in Nat /\ searches <= Budget
  BY SearchesAreBounded DEF SearchInv, SearchTyped, RoundsFit
<1>3. CASE uses[Len(found) + 1] = "client"
  <2>1. found' = Append(found, "none") /\ searches' = searches
    BY <1>3 DEF FlushSearch
  <2> QED BY <1>1, <1>2, <1>3, <2>1, FlushKeeps DEF Outcomes
<1>4. CASE uses[Len(found) + 1] # "client" /\ searches >= Budget
  <2>1. found' = Append(found, "skipped") /\ searches' = searches
    BY <1>4 DEF FlushSearch, Budget
  <2> QED BY <1>1, <1>2, <1>4, <2>1, FlushKeeps DEF Outcomes
<1>5. CASE uses[Len(found) + 1] # "client" /\ ~(searches >= Budget)
  <2>1. found' = Append(found, "results") /\ searches' = searches + 1
    BY <1>5 DEF FlushSearch, Budget, performWebSearch
  <2> QED BY <1>1, <1>2, <1>5, <2>1, FlushKeeps DEF Outcomes
<1> QED BY <1>3, <1>4, <1>5

LEMMA FlushedKeeps ==
  ASSUME SearchInv, Flushed
  PROVE  SearchInv'
<1>1. Budget' = Budget /\ Budget \in Nat
  BY SearchBudgetStays, SearchesAreBounded DEF Flushed, SearchInv
<1>2. /\ uses \in Seq(Use) /\ found \in Seq(Outcomes) /\ shown \in Seq(Block)
      /\ Len(found) = Len(uses) /\ searches \in Nat
      /\ \A i \in DOMAIN found : found[i] = "none" <=> uses[i] = "client"
      /\ \A i \in DOMAIN found : found[i] = "skipped" => searches = Budget
  BY DEF SearchInv, SearchTyped, OutcomesFit, Flushed
<1> DEFINE bs == Blocks(uses, found)
           head == IF text THEN <<"text">> ELSE <<>>
<1>3. /\ bs \in Seq(Block) /\ Count(bs, "results") = Count(found, "results")
      /\ Count(bs, "empty") > 0 => \E i \in DOMAIN found : found[i] = "skipped"
      /\ Count(bs, "tool_use") > 0 <=> "client" \in ToSet(uses)
  BY <1>2, BlocksOfRound
<1>4. shown' = (shown \o head) \o bs
  BY DEF Flushed
<1>5. /\ head \in Seq(Block) /\ Count(head, "results") = 0 /\ Count(head, "empty") = 0
      /\ Count(head, "tool_use") = 0
  <2>1. CASE text
    <3>1. head = <<"text">> /\ head \in Seq(Block)
      BY <2>1 DEF Block
    <3> QED BY <3>1, CountOne
  <2>2. CASE ~text
    <3>1. head = <<>> /\ head \in Seq(Block)
      BY <2>2
    <3> QED BY <3>1, CountEmpty
  <2> QED BY <2>1, <2>2
<1> HIDE DEF bs, head
<1>6. shown \o head \in Seq(Block) /\ shown' \in Seq(Block)
  BY <1>2, <1>3, <1>4, <1>5, ConcatProperties
<1>7. /\ Count(shown, "results") \in Nat /\ Count(bs, "results") \in Nat
      /\ Count(bs, "empty") \in Nat /\ Count(bs, "tool_use") \in Nat
  BY <1>2, <1>3, CountFinite
<1>8. ASSUME NEW b
      PROVE  Count(shown', b) = Count(shown, b) + Count(head, b) + Count(bs, b)
  <2>1. Count(shown \o head, b) = Count(shown, b) + Count(head, b)
    BY <1>2, <1>5, CountConcat
  <2>2. Count((shown \o head) \o bs, b) = Count(shown \o head, b) + Count(bs, b)
    BY <1>3, <1>6, CountConcat
  <2> QED BY <1>4, <2>1, <2>2
<1>9. /\ Count(shown', "results") = searches
      /\ Count(shown', "empty") = Count(bs, "empty")
      /\ Count(shown', "tool_use") = Count(bs, "tool_use")
  <2>1. phase = "flush" /\ Count(shown, "empty") = 0 /\ Count(shown, "tool_use") = 0
    BY DEF SearchInv, SeenSoFar, Flushed
  <2>2. Count(shown, "results") + Count(found, "results") = searches
    BY <2>1 DEF SearchInv, SeenSoFar
  <2>3. /\ Count(shown', "results") = Count(shown, "results") + 0 + Count(bs, "results")
        /\ Count(shown', "empty") = 0 + 0 + Count(bs, "empty")
        /\ Count(shown', "tool_use") = 0 + 0 + Count(bs, "tool_use")
    BY <1>5, <1>8, <2>1
  <2>4. Count(bs, "results") = Count(found, "results")
    BY <1>3
  <2> QED BY <1>7, <2>2, <2>3, <2>4
<1>10. reply' \in Served /\ (reply' # "window_exceeded" =>
                               (reply' = "tool_use" <=> "client" \in ToSet(uses)))
  BY DEF Flushed, resolveFlushStopReason, Served
<1>11. bill \in [calls : Nat, key : Nat] /\ bill' = [bill EXCEPT !.key = @ + 1] /\ bill.key = 0
  BY DEF SearchInv, SearchTyped, BilledOnce, Served, Flushed
<1>12. SearchTyped'
  <2>1. bill' \in [calls : Nat, key : Nat]
    BY <1>11
  <2> QED BY <1>6, <2>1 DEF SearchInv, SearchTyped, Flushed
<1>13. RoundsFit' /\ OutcomesFit' /\ SeenSoFar'
  BY <1>1, <1>11 DEF SearchInv, RoundsFit, OutcomesFit, SeenSoFar, Flushed
<1>14. SeenAtEnd'
  BY <1>1, <1>2, <1>3, <1>9, <1>10 DEF SeenAtEnd, Flushed
<1>15. BilledOnce'
  BY <1>10, <1>11 DEF BilledOnce, Flushed
<1> QED BY <1>12, <1>13, <1>14, <1>15 DEF SearchInv

LEMMA SearchInvStep == SearchInv /\ [WebSearchNext]_searchVars => SearchInv'
<1> SUFFICES ASSUME SearchInv, [WebSearchNext]_searchVars
             PROVE  SearchInv'
  OBVIOUS
<1>1. CASE NextAccountForSearch \/ NoAccountForSearch \/ NoQuery
  BY <1>1, SearchIdles DEF NextAccountForSearch, NoAccountForSearch, NoQuery, SearchFails
<1>2. CASE UNCHANGED searchVars
  BY <1>2, SearchIdles DEF searchVars
<1> QED
  BY <1>1, <1>2, SearchAloneKeeps, SearchCallKeeps, SearchingKeeps, SearchRoundKeeps,
     FlushSearchKeeps, FlushedKeeps DEF WebSearchNext

\* Whatever a model asks for over however many rounds, with any limit of the
\* program, any max_uses of the client and any number of uses in a round: the
\* searches and the calls keep to the budget, a served client sees each search
\* once and stops for its own tools exactly if it got some, and the key is
\* charged once (websearch_loop.go, runWebSearchLoop; websearch.go).
THEOREM SearchLoopExact == WebSearchSpec => []SearchLoopIsExact
<1>1. WebSearchSpec => []SearchInv
  BY WebSearchInitInv, SearchInvStep, PTL DEF WebSearchSpec
<1> QED BY <1>1, SearchInvIsExact, PTL

-----------------------------------------------------------------------------
(* Responses: the shape of a request and of the directory.                 *)

Fields == {"pc", "id", "store", "stream", "chain", "parts", "items", "open", "tries"}

Shaped == DOMAIN respReq = Client /\ \A c \in Client : DOMAIN respReq[c] = Fields

LEMMA PutMoves ==
  ASSUME Shaped, NEW c \in Client, NEW q, DOMAIN q = Fields, Put(c, q)
  PROVE  Shaped' /\ respReq'[c] = q /\ \A d \in Client : d # c => respReq'[d] = respReq[d]
  BY DEF Shaped, Put

LEMMA IdleFields == DOMAIN IdleReq = Fields /\ IdleReq.pc = "idle" /\ IdleReq.chain = <<>> /\ IdleReq.id = 0
  BY DEF IdleReq, Fields

\* The request c goes on, with the history it has; the others wait.
Goes(c, pc, chain) ==
  /\ respReq'[c].pc = pc /\ respReq'[c].chain = chain
  /\ respReq'[c].id = respReq[c].id /\ respReq'[c].store = respReq[c].store
  /\ \A d \in Client : d # c => respReq'[d] = respReq[d]

\* Nothing but what a request has received, or that it is over.
Still ==
  /\ \A d \in Client :
       \/ respReq'[d] = IdleReq
       \/ /\ respReq'[d].pc = respReq[d].pc /\ respReq'[d].chain = respReq[d].chain
          /\ respReq'[d].id = respReq[d].id /\ respReq'[d].store = respReq[d].store
  /\ UNCHANGED <<respFile, respPrev, respCount, told, unsaved>>

\* The kinds of step there are.
RespMove ==
  \/ Still
  \/ \E c \in Client :
       \/ handleOpenAIResponses(c)
       \/ LoadAncestor(c) /\ Goes(c, "load", <<Older(c)>> \o respReq[c].chain)
       \/ AskKiro(c) /\ Goes(c, "stream", respReq[c].chain)
       \/ StreamEnds(c) /\ Goes(c, IF respReq[c].store THEN "write" ELSE "complete", <<>>)
       \/ WriteTmp(c) /\ Goes(c, "rename", respReq[c].chain)
       \/ RenameTmp(c) /\ Goes(c, "complete", respReq[c].chain)
       \/ SaveFails(c) /\ Goes(c, "complete", respReq[c].chain)
       \/ Complete(c) /\ respReq'[c] = IdleReq /\ \A d \in Client : d # c => respReq'[d] = respReq[d]
  \/ \E r \in RespId : ResponseExpires(r)

LEMMA ResponsesMoves ==
  ASSUME Shaped, [ResponsesNext]_respVars
  PROVE  Shaped' /\ RespMove
<1>1. ASSUME NEW c \in Client, OnResponseText(c) \/ OnResponseCall(c) \/ Collect(c)
      PROVE  Shaped' /\ Still
  <2>1. PICK parts, items, open :
          Put(c, [respReq[c] EXCEPT !.parts = parts, !.open = open, !.items = items])
          \/ Put(c, [respReq[c] EXCEPT !.parts = parts])
    BY <1>1 DEF OnResponseText, OnResponseCall, Collect
  <2>r. PICK r : r = respReq[c]
    OBVIOUS
  <2>d. DOMAIN r = Fields
    BY <2>r DEF Shaped
  <2>q. PICK q : /\ Put(c, q)
                 /\ \/ q = [r EXCEPT !.parts = parts, !.open = open, !.items = items]
                    \/ q = [r EXCEPT !.parts = parts]
    BY <2>1, <2>r
  <2>2. Put(c, q) /\ DOMAIN q = Fields /\ q.pc = r.pc /\ q.id = r.id /\ q.chain = r.chain /\ q.store = r.store
    BY <2>d, <2>q DEF Fields
  <2>3. Shaped' /\ respReq'[c] = q /\ \A d \in Client : d # c => respReq'[d] = respReq[d]
    BY <2>2, PutMoves
  <2> QED BY <1>1, <2>r, <2>2, <2>3 DEF OnResponseText, OnResponseCall, Collect, Still
<1>2. ASSUME NEW c \in Client, ResponseFails(c) PROVE Shaped' /\ Still
  <2>1. CASE Put(c, IdleReq)
    BY <1>2, <2>1, PutMoves, IdleFields DEF ResponseFails, Still
  <2>2. CASE Put(c, [respReq[c] EXCEPT !.tries = @ + 1, !.parts = <<>>])
    <3>r. PICK r : r = respReq[c]
      OBVIOUS
    <3>d. DOMAIN r = Fields
      BY <3>r DEF Shaped
    <3>q. PICK n, q : Put(c, q) /\ q = [r EXCEPT !.tries = n, !.parts = <<>>]
      BY <2>2, <3>r
    <3>1. Put(c, q) /\ DOMAIN q = Fields /\ q.pc = r.pc /\ q.id = r.id /\ q.chain = r.chain /\ q.store = r.store
      BY <3>d, <3>q DEF Fields
    <3>2. Shaped' /\ respReq'[c] = q /\ \A d \in Client : d # c => respReq'[d] = respReq[d]
      BY <3>1, PutMoves
    <3> QED BY <1>2, <3>r, <3>1, <3>2 DEF ResponseFails, Still
  <2> QED BY <1>2, <2>1, <2>2 DEF ResponseFails
<1>3. ASSUME NEW c \in Client, handleOpenAIResponses(c) PROVE Shaped'
  <2>1. PICK store, stream, chain :
          Put(c, [IdleReq EXCEPT !.pc = "load", !.id = respCount + 1, !.store = store,
                                 !.stream = stream, !.chain = chain])
    BY <1>3 DEF handleOpenAIResponses
  <2>2. DOMAIN [IdleReq EXCEPT !.pc = "load", !.id = respCount + 1, !.store = store,
                               !.stream = stream, !.chain = chain] = Fields
    BY IdleFields
  <2> QED BY <2>1, <2>2, PutMoves
<1>4. ASSUME NEW c \in Client, NEW r, r = respReq[c], NEW q, Put(c, q), NEW pc, NEW chain,
             DOMAIN q = Fields /\ q.pc = pc /\ q.id = r.id /\ q.chain = chain /\ q.store = r.store
      PROVE  Shaped' /\ Goes(c, pc, chain)
  BY <1>4, PutMoves DEF Goes
<1>5. ASSUME NEW c \in Client, Complete(c)
      PROVE  Shaped' /\ respReq'[c] = IdleReq /\ \A d \in Client : d # c => respReq'[d] = respReq[d]
  BY <1>5, PutMoves, IdleFields DEF Complete
<1>6. ASSUME NEW r \in RespId, ResponseExpires(r) PROVE Shaped'
  BY <1>6 DEF ResponseExpires, Shaped
<1>7. ASSUME ResponsesCrash PROVE Shaped' /\ Still
  BY <1>7, IdleFields DEF ResponsesCrash, Still, Shaped
<1>8. ASSUME UNCHANGED respVars PROVE Shaped' /\ Still
  BY <1>8 DEF respVars, Shaped, Still
<1>9. ASSUME NEW c \in Client, LoadAncestor(c)
      PROVE  Shaped' /\ Goes(c, "load", <<Older(c)>> \o respReq[c].chain)
  <2>1. PICK r, chain : r = respReq[c] /\ chain = <<Older(c)>> \o respReq[c].chain
    OBVIOUS
  <2>d. DOMAIN r = Fields
    BY <2>1 DEF Shaped
  <2>2. PICK q : Put(c, q) /\ q = [r EXCEPT !.chain = chain]
    BY <1>9, <2>1 DEF LoadAncestor
  <2>3. DOMAIN q = Fields /\ q.pc = r.pc /\ q.id = r.id /\ q.chain = chain /\ q.store = r.store
    BY <2>d, <2>1, <2>2 DEF Fields
  <2>4. r.pc = "load"
    BY <1>9, <2>1 DEF LoadAncestor, ReqAt
  <2> QED BY <1>4, <2>1, <2>2, <2>3, <2>4
<1>10. ASSUME NEW c \in Client, StreamEnds(c)
       PROVE  Shaped' /\ Goes(c, IF respReq[c].store THEN "write" ELSE "complete", <<>>)
  <2>1. PICK r, pc : r = respReq[c] /\ pc = IF respReq[c].store THEN "write" ELSE "complete"
    OBVIOUS
  <2>d. DOMAIN r = Fields
    BY <2>1 DEF Shaped
  <2>2. PICK q, items : Put(c, q) /\ q = [r EXCEPT !.pc = pc, !.items = items, !.chain = <<>>, !.tries = 0]
    BY <1>10, <2>1 DEF StreamEnds
  <2>3. DOMAIN q = Fields /\ q.pc = pc /\ q.id = r.id /\ q.chain = <<>> /\ q.store = r.store
    BY <2>d, <2>1, <2>2 DEF Fields
  <2>4. Shaped' /\ Goes(c, pc, <<>>)
    BY <1>4, <2>1, <2>2, <2>3
  <2> QED BY <2>1, <2>4
<1>11. ASSUME NEW c \in Client, NEW pc, Put(c, [respReq[c] EXCEPT !.pc = pc])
       PROVE  Shaped' /\ Goes(c, pc, respReq[c].chain)
  <2>1. PICK r : r = respReq[c]
    OBVIOUS
  <2>d. DOMAIN r = Fields
    BY <2>1 DEF Shaped
  <2>2. PICK q : Put(c, q) /\ q = [r EXCEPT !.pc = pc]
    BY <1>11, <2>1
  <2>3. DOMAIN q = Fields /\ q.pc = pc /\ q.id = r.id /\ q.chain = r.chain /\ q.store = r.store
    BY <2>d, <2>1, <2>2 DEF Fields
  <2> QED BY <1>4, <2>1, <2>2, <2>3
<1>12. ASSUME NEW c \in Client, AskKiro(c)
       PROVE  Shaped' /\ Goes(c, "stream", respReq[c].chain)
  BY <1>11, <1>12 DEF AskKiro
<1>13. ASSUME NEW c \in Client, WriteTmp(c)
       PROVE  Shaped' /\ Goes(c, "rename", respReq[c].chain)
  BY <1>11, <1>13 DEF WriteTmp
<1>14. ASSUME NEW c \in Client, RenameTmp(c) \/ SaveFails(c)
       PROVE  Shaped' /\ Goes(c, "complete", respReq[c].chain)
  BY <1>11, <1>14 DEF RenameTmp, SaveFails
<1>15. CASE UNCHANGED respVars
  BY <1>8, <1>15 DEF RespMove
<1>16. CASE ResponsesNext
  BY <1>1, <1>2, <1>3, <1>5, <1>6, <1>7, <1>9, <1>10, <1>12, <1>13, <1>14, <1>16
     DEF ResponsesNext, RespMove
<1> QED BY <1>15, <1>16

-----------------------------------------------------------------------------
(* Responses: identifiers and files.                                       *)

Running(c) == respReq[c].pc \in {"load", "stream", "write", "rename", "complete"}

RespTyped ==
  /\ respFile \in [RespId -> {"none", "tmp", "kept", "gone"}]
  /\ respPrev \in [RespId -> 0..MaxResp] /\ respCount \in 0..MaxResp
  /\ \A c \in Client : /\ respReq[c].pc = "idle" \/ Running(c)
                       /\ Running(c) => respReq[c].id \in 1..respCount
                       /\ respReq[c].chain \in Seq(1..respCount)

\* An identifier is given once, and only a request that runs writes its file.
FilesOwned ==
  /\ \A r \in RespId : respFile[r] # "none" => r <= respCount
  /\ \A r \in RespId : respPrev[r] # 0 => respFile[respPrev[r]] \in {"kept", "gone"}
  /\ \A c, d \in Client : Running(c) /\ Running(d) /\ c # d => respReq[c].id # respReq[d].id
  /\ \A c \in Client :
       /\ respReq[c].pc \in {"load", "stream", "write"} => respFile[respReq[c].id] = "none"
       /\ respReq[c].pc = "rename" => respFile[respReq[c].id] = "tmp"

LEMMA QuietIds ==
  ASSUME Still, NEW d \in Client, Running(d)'
  PROVE  /\ Running(d) /\ respReq'[d].pc = respReq[d].pc /\ respReq'[d].id = respReq[d].id
         /\ respReq'[d].chain = respReq[d].chain /\ respReq'[d].store = respReq[d].store
  BY IdleFields DEF Still, Running

\* The new request.
LEMMA NewRequest ==
  ASSUME Shaped, NEW c \in Client, handleOpenAIResponses(c)
  PROVE  \E prev \in {0} \cup {r \in RespId : respFile[r] = "kept"} :
           /\ respPrev' = [respPrev EXCEPT ![respCount + 1] = prev]
           /\ respReq'[c].pc = "load" /\ respReq'[c].id = respCount + 1
           /\ respReq'[c].chain = IF prev = 0 THEN <<>> ELSE <<prev>>
           /\ respReq'[c].store \/ unsaved' = unsaved \cup {respCount + 1}
           /\ unsaved \subseteq unsaved'
           /\ \A d \in Client : d # c => respReq'[d] = respReq[d]
           /\ respCount < MaxResp /\ respCount' = respCount + 1 /\ UNCHANGED <<respFile, told>>
<1>1. PICK prev \in {0} \cup {r \in RespId : respFile[r] = "kept"}, store, stream \in BOOLEAN :
        /\ respPrev' = [respPrev EXCEPT ![respCount + 1] = prev]
        /\ unsaved' = IF store THEN unsaved ELSE unsaved \cup {respCount + 1}
        /\ Put(c, [IdleReq EXCEPT !.pc = "load", !.id = respCount + 1, !.store = store,
                                  !.stream = stream,
                                  !.chain = IF prev = 0 THEN <<>> ELSE <<prev>>])
  BY DEF handleOpenAIResponses
<1>2. PICK chain, q : /\ chain = IF prev = 0 THEN <<>> ELSE <<prev>>
                      /\ q = [IdleReq EXCEPT !.pc = "load", !.id = respCount + 1, !.store = store,
                                             !.stream = stream, !.chain = chain]
  OBVIOUS
<1>3. Put(c, q)
  BY <1>1, <1>2
<1>4. DOMAIN IdleReq = Fields
  BY IdleFields
<1>5. DOMAIN q = Fields /\ q.pc = "load" /\ q.id = respCount + 1 /\ q.store = store /\ q.chain = chain
  BY <1>2, <1>4 DEF Fields
<1>6. respReq'[c] = q /\ \A d \in Client : d # c => respReq'[d] = respReq[d]
  BY <1>3, <1>5, PutMoves
<1> QED BY <1>1, <1>2, <1>5, <1>6 DEF handleOpenAIResponses

LEMMA RespTypedStep ==
  ASSUME Shaped, RespTyped, FilesOwned, RespMove
  PROVE  RespTyped'
<1>0. MaxResp \in Nat
  BY ResponsesAssumption
<1>e. IdleReq.pc = "idle" /\ IdleReq.chain \in Seq(1..respCount)
  BY IdleFields
<1>1. CASE Still
  <2>1. /\ respFile' \in [RespId -> {"none", "tmp", "kept", "gone"}]
        /\ respPrev' \in [RespId -> 0..MaxResp] /\ respCount' \in 0..MaxResp /\ respCount' = respCount
    BY <1>1 DEF Still, RespTyped
  <2>2. ASSUME NEW d \in Client
        PROVE  /\ respReq'[d].pc = "idle" \/ Running(d)'
               /\ Running(d)' => respReq'[d].id \in 1..respCount
               /\ respReq'[d].chain \in Seq(1..respCount)
    BY <1>1, <1>e DEF Still, RespTyped, Running
  <2> QED BY <2>1, <2>2 DEF RespTyped
<1>2. ASSUME NEW c \in Client, handleOpenAIResponses(c) PROVE RespTyped'
  <2>1. PICK prev \in {0} \cup {r \in RespId : respFile[r] = "kept"} :
           /\ respPrev' = [respPrev EXCEPT ![respCount + 1] = prev]
           /\ respReq'[c].pc = "load" /\ respReq'[c].id = respCount + 1
           /\ respReq'[c].chain = IF prev = 0 THEN <<>> ELSE <<prev>>
           /\ \A d \in Client : d # c => respReq'[d] = respReq[d]
           /\ respCount < MaxResp /\ respCount' = respCount + 1 /\ UNCHANGED <<respFile, told>>
    BY <1>2, NewRequest
  <2>2. prev \in 0..respCount
    BY <1>0 DEF RespTyped, FilesOwned, RespId
  <2>3. /\ respFile' \in [RespId -> {"none", "tmp", "kept", "gone"}]
        /\ respPrev' \in [RespId -> 0..MaxResp] /\ respCount' \in 0..MaxResp
    BY <1>0, <2>1, <2>2 DEF RespTyped, RespId
  <2>4. /\ Running(c)' /\ respReq'[c].id \in 1..respCount'
        /\ respReq'[c].chain \in Seq(1..respCount')
    <3>1. <<>> \in Seq(1..respCount + 1) /\ (prev # 0 => <<prev>> \in Seq(1..respCount + 1))
      BY <2>2 DEF RespTyped
    <3>2. respReq'[c].chain \in Seq(1..respCount + 1)
      <4>1. CASE prev = 0
        BY <2>1, <3>1, <4>1
      <4>2. CASE prev # 0
        BY <2>1, <3>1, <4>2
      <4> QED BY <4>1, <4>2
    <3>3. respReq'[c].id \in 1..respCount + 1
      BY <2>1 DEF RespTyped
    <3> QED BY <2>1, <3>2, <3>3 DEF Running
  <2>5. ASSUME NEW d \in Client, d # c
        PROVE  /\ respReq'[d].pc = "idle" \/ Running(d)'
               /\ Running(d)' => respReq'[d].id \in 1..respCount'
               /\ respReq'[d].chain \in Seq(1..respCount')
    BY <1>0, <2>1, <2>5 DEF RespTyped, Running
  <2> QED BY <2>3, <2>4, <2>5 DEF RespTyped
<1>3. ASSUME NEW c \in Client, NEW pc \in {"load", "stream", "write", "rename", "complete"},
             NEW chain \in Seq(1..respCount), Goes(c, pc, chain), Running(c),
             UNCHANGED <<respPrev, respCount>>,
             respFile' \in [RespId -> {"none", "tmp", "kept", "gone"}]
      PROVE  RespTyped'
  BY <1>3 DEF RespTyped, Goes, Running
<1>4. ASSUME NEW c \in Client, LoadAncestor(c), Goes(c, "load", <<Older(c)>> \o respReq[c].chain)
      PROVE  RespTyped'
  <2>1. respReq[c].chain # <<>> /\ Older(c) # 0 /\ respFile[Older(c)] = "kept"
    BY <1>4 DEF LoadAncestor, HasOlder
  <2>2. respReq[c].chain[1] \in RespId
    BY <1>0, <2>1 DEF RespTyped, RespId
  <2>3. Older(c) \in 1..respCount
    BY <1>0, <2>1, <2>2 DEF Older, RespTyped, FilesOwned, RespId
  <2>4. <<Older(c)>> \o respReq[c].chain \in Seq(1..respCount)
    BY <2>3 DEF RespTyped
  <2> QED BY <1>3, <1>4, <2>4 DEF LoadAncestor, ReqAt, Running, RespTyped
<1>5. ASSUME NEW c \in Client, AskKiro(c), Goes(c, "stream", respReq[c].chain) PROVE RespTyped'
  BY <1>3, <1>5 DEF AskKiro, ReqAt, Running, RespTyped
<1>6. ASSUME NEW c \in Client, StreamEnds(c),
             Goes(c, IF respReq[c].store THEN "write" ELSE "complete", <<>>)
      PROVE  RespTyped'
  <2>1. PICK pc \in {"write", "complete"} : pc = IF respReq[c].store THEN "write" ELSE "complete"
    OBVIOUS
  <2>2. Goes(c, pc, <<>>) /\ <<>> \in Seq(1..respCount)
    BY <1>6, <2>1
  <2> QED BY <1>3, <1>6, <2>2 DEF StreamEnds, ReqAt, Running, RespTyped
<1>7. ASSUME NEW c \in Client, WriteTmp(c), Goes(c, "rename", respReq[c].chain) PROVE RespTyped'
  BY <1>3, <1>7 DEF WriteTmp, ReqAt, Running, RespTyped
<1>8. ASSUME NEW c \in Client, RenameTmp(c) \/ SaveFails(c), Goes(c, "complete", respReq[c].chain)
      PROVE  RespTyped'
  <2>1. Running(c)
    BY <1>8 DEF RenameTmp, SaveFails, ReqAt, Running
  <2>2. UNCHANGED <<respPrev, respCount>> /\ respFile' \in [RespId -> {"none", "tmp", "kept", "gone"}]
    <3>1. CASE RenameTmp(c)
      BY <1>0, <3>1 DEF RenameTmp, RespTyped
    <3>2. CASE SaveFails(c)
      BY <1>0, <3>2 DEF SaveFails, RespTyped
    <3> QED BY <1>8, <3>1, <3>2
  <2>3. respReq[c].chain \in Seq(1..respCount)
    BY <1>0 DEF RespTyped
  <2> QED BY <1>3, <1>8, <2>1, <2>2, <2>3
<1>9. ASSUME NEW c \in Client, Complete(c), respReq'[c] = IdleReq,
             \A d \in Client : d # c => respReq'[d] = respReq[d]
      PROVE  RespTyped'
  BY <1>9, <1>e DEF Complete, RespTyped, Running
<1>10. ASSUME NEW r \in RespId, ResponseExpires(r) PROVE RespTyped'
  BY <1>10 DEF ResponseExpires, RespTyped, Running
<1> QED BY <1>1, <1>2, <1>4, <1>5, <1>6, <1>7, <1>8, <1>9, <1>10 DEF RespMove

\* A kept response is lost only when its time is over.
LEMMA KeptStays ==
  ASSUME RespTyped, FilesOwned, RespMove, NEW r \in RespId, respFile[r] \in {"kept", "gone"}
  PROVE  respFile'[r] \in {"kept", "gone"} /\ (respFile'[r] = "kept" => respFile[r] = "kept")
<1>1. ASSUME NEW c \in Client, handleOpenAIResponses(c) \/ LoadAncestor(c) \/ AskKiro(c)
                               \/ StreamEnds(c) \/ Complete(c)
      PROVE  UNCHANGED respFile
  BY <1>1 DEF handleOpenAIResponses, LoadAncestor, AskKiro, StreamEnds, Complete
<1>2. ASSUME NEW c \in Client, WriteTmp(c) \/ RenameTmp(c) \/ SaveFails(c)
      PROVE  respFile'[r] = respFile[r]
  <2>1. respFile[respReq[c].id] \in {"none", "tmp"}
    BY <1>2 DEF WriteTmp, RenameTmp, SaveFails, ReqAt, FilesOwned
  <2>2. r # respReq[c].id
    BY <2>1
  <2> QED BY <1>2, <2>2 DEF WriteTmp, RenameTmp, SaveFails, RespTyped
<1>3. ASSUME NEW x \in RespId, ResponseExpires(x)
      PROVE  respFile'[r] \in {"kept", "gone"} /\ (respFile'[r] = "kept" => respFile[r] = "kept")
  BY <1>3 DEF ResponseExpires, RespTyped
<1>4. CASE Still
  BY <1>4 DEF Still
<1> QED BY <1>1, <1>2, <1>3, <1>4 DEF RespMove

LEMMA PrevStays ==
  ASSUME Shaped, RespTyped, FilesOwned, RespMove
  PROVE  \A r \in 1..respCount : r \in RespId /\ respPrev'[r] = respPrev[r]
<1>0. MaxResp \in Nat /\ respCount \in 0..MaxResp /\ respPrev \in [RespId -> 0..MaxResp]
  BY ResponsesAssumption DEF RespTyped
<1>1. ASSUME NEW c \in Client, handleOpenAIResponses(c)
      PROVE  \A r \in 1..respCount : respPrev'[r] = respPrev[r]
  BY <1>0, <1>1 DEF handleOpenAIResponses, RespId
<1>2. (\E c \in Client : handleOpenAIResponses(c)) \/ UNCHANGED respPrev
  BY DEF RespMove, Still, LoadAncestor, AskKiro, StreamEnds, WriteTmp, RenameTmp, SaveFails,
     Complete, ResponseExpires
<1> QED BY <1>0, <1>1, <1>2 DEF RespId

LEMMA FilesOwnedStep ==
  ASSUME Shaped, RespTyped, FilesOwned, RespMove
  PROVE  FilesOwned'
<1>0. MaxResp \in Nat /\ respCount \in 0..MaxResp
  BY ResponsesAssumption DEF RespTyped
<1>p. ASSUME UNCHANGED respPrev
      PROVE  \A r \in RespId : respPrev'[r] # 0 => respFile'[respPrev'[r]] \in {"kept", "gone"}
  <2>1. ASSUME NEW r \in RespId, respPrev[r] # 0 PROVE respPrev[r] \in RespId
    BY <1>0, <2>1 DEF RespTyped, RespId
  <2> QED BY <1>p, <2>1, KeptStays DEF FilesOwned
<1>1. CASE Still
  <2>1. \A c \in Client : Running(c)' =>
          Running(c) /\ respReq'[c].pc = respReq[c].pc /\ respReq'[c].id = respReq[c].id
    BY <1>1, QuietIds
  <2>2. UNCHANGED <<respFile, respPrev, respCount>>
    BY <1>1 DEF Still
  <2> QED BY <2>1, <2>2 DEF FilesOwned, Running
<1>2. ASSUME NEW c \in Client, handleOpenAIResponses(c) PROVE FilesOwned'
  <2>1. PICK prev \in {0} \cup {r \in RespId : respFile[r] = "kept"} :
           /\ respPrev' = [respPrev EXCEPT ![respCount + 1] = prev]
           /\ respReq'[c].pc = "load" /\ respReq'[c].id = respCount + 1
           /\ \A d \in Client : d # c => respReq'[d] = respReq[d]
           /\ respCount < MaxResp /\ respCount' = respCount + 1 /\ UNCHANGED <<respFile, told>>
    BY <1>2, NewRequest
  <2>2. \A r \in RespId : respFile'[r] # "none" => r <= respCount'
    BY <1>0, <2>1 DEF FilesOwned, RespId
  <2>3. \A r \in RespId : respPrev'[r] # 0 => respFile'[respPrev'[r]] \in {"kept", "gone"}
    BY <1>0, <2>1 DEF FilesOwned, RespId, RespTyped
  <2>4. respFile'[respCount + 1] = "none"
    BY <1>0, <2>1 DEF FilesOwned, RespId, RespTyped
  <2>5. \A d \in Client : d # c /\ Running(d)' => Running(d) /\ respReq'[d].id \in 1..respCount
    BY <2>1 DEF RespTyped, Running
  <2>6. \A d, e \in Client : Running(d)' /\ Running(e)' /\ d # e => respReq'[d].id # respReq'[e].id
    <3>1. ASSUME NEW d \in Client, Running(d)', d # c PROVE respReq'[d].id # respReq'[c].id
      BY <1>0, <2>1, <2>5, <3>1
    <3>2. ASSUME NEW d \in Client, NEW e \in Client, Running(d)', Running(e)', d # e, d # c, e # c
          PROVE respReq'[d].id # respReq'[e].id
      BY <2>1, <2>5, <3>2 DEF FilesOwned
    <3> QED BY <3>1, <3>2
  <2>7. ASSUME NEW d \in Client
        PROVE  /\ respReq'[d].pc \in {"load", "stream", "write"} => respFile'[respReq'[d].id] = "none"
               /\ respReq'[d].pc = "rename" => respFile'[respReq'[d].id] = "tmp"
    BY <2>1, <2>4 DEF FilesOwned
  <2> QED BY <2>2, <2>3, <2>6, <2>7 DEF FilesOwned
<1>3. ASSUME NEW c \in Client, Running(c), NEW pc, NEW chain, Goes(c, pc, chain),
             respFile'[respReq[c].id] \in {"none", "tmp", "kept"},
             \A r \in RespId : r # respReq[c].id => respFile'[r] = respFile[r],
             pc \in {"rename", "complete"}, pc = "rename" => respFile'[respReq[c].id] = "tmp",
             UNCHANGED <<respPrev, respCount>>
      PROVE  FilesOwned'
  <2>1. respReq[c].id \in RespId /\ respReq[c].id <= respCount
    BY <1>0, <1>3 DEF RespTyped, RespId
  <2>2. \A r \in RespId : respFile'[r] # "none" => r <= respCount'
    BY <1>3, <2>1 DEF FilesOwned, RespTyped
  <2>3. \A d \in Client : Running(d)' => Running(d) /\ respReq'[d].id = respReq[d].id
    BY <1>3 DEF Goes, Running
  <2>4. ASSUME NEW d \in Client, d # c, Running(d)
        PROVE  respReq[d].id # respReq[c].id /\ respFile'[respReq[d].id] = respFile[respReq[d].id]
    <3>1. respReq[d].id \in RespId /\ respReq[d].id # respReq[c].id
      BY <1>0, <1>3, <2>4 DEF RespTyped, RespId, FilesOwned
    <3> QED BY <1>3, <3>1
  <2>5. ASSUME NEW d \in Client
        PROVE  /\ respReq'[d].pc \in {"load", "stream", "write"} => respFile'[respReq'[d].id] = "none"
               /\ respReq'[d].pc = "rename" => respFile'[respReq'[d].id] = "tmp"
    <3>1. CASE d = c
      BY <1>3, <2>1, <3>1 DEF Goes
    <3>2. CASE d # c
      BY <1>3, <2>4, <3>2 DEF Goes, FilesOwned, Running
    <3> QED BY <3>1, <3>2
  <2>6. \A d, e \in Client : Running(d)' /\ Running(e)' /\ d # e => respReq'[d].id # respReq'[e].id
    BY <2>3 DEF FilesOwned
  <2>7. \A r \in RespId : respPrev'[r] # 0 => respFile'[respPrev'[r]] \in {"kept", "gone"}
    BY <1>3, <1>p
  <2> QED BY <2>2, <2>5, <2>6, <2>7 DEF FilesOwned
<1>4. ASSUME NEW c \in Client, UNCHANGED <<respFile, respPrev, respCount>>, Running(c),
             \/ LoadAncestor(c) /\ Goes(c, "load", <<Older(c)>> \o respReq[c].chain)
             \/ AskKiro(c) /\ Goes(c, "stream", respReq[c].chain)
             \/ StreamEnds(c) /\ Goes(c, IF respReq[c].store THEN "write" ELSE "complete", <<>>)
      PROVE  FilesOwned'
  <2>1. respReq[c].pc \in {"load", "stream"}
    BY <1>4 DEF LoadAncestor, AskKiro, StreamEnds, ReqAt
  <2>2. respFile[respReq[c].id] = "none" /\ respReq'[c].pc \in {"load", "stream", "write", "complete"}
    BY <1>4, <2>1 DEF FilesOwned, Goes
  <2>3. /\ respReq'[c].id = respReq[c].id
        /\ \A d \in Client : d # c => respReq'[d] = respReq[d]
    BY <1>4 DEF Goes
  <2> QED BY <1>4, <2>2, <2>3 DEF FilesOwned, Running
<1>5. ASSUME NEW c \in Client, LoadAncestor(c) \/ AskKiro(c) \/ StreamEnds(c)
      PROVE  UNCHANGED <<respFile, respPrev, respCount>> /\ Running(c)
  BY <1>5 DEF LoadAncestor, AskKiro, StreamEnds, ReqAt, Running
<1>6. ASSUME NEW c \in Client, WriteTmp(c), Goes(c, "rename", respReq[c].chain) PROVE FilesOwned'
  <2>1. Running(c) /\ UNCHANGED <<respPrev, respCount>>
    BY <1>6 DEF WriteTmp, ReqAt, Running
  <2>2. /\ respFile'[respReq[c].id] = "tmp"
        /\ \A r \in RespId : r # respReq[c].id => respFile'[r] = respFile[r]
    BY <1>0, <1>6, <2>1 DEF WriteTmp, RespTyped, RespId
  <2> QED BY <1>3, <1>6, <2>1, <2>2
<1>7. ASSUME NEW c \in Client, RenameTmp(c) \/ SaveFails(c), Goes(c, "complete", respReq[c].chain)
      PROVE  FilesOwned'
  <2>1. Running(c) /\ UNCHANGED <<respPrev, respCount>>
    BY <1>7 DEF RenameTmp, SaveFails, ReqAt, Running
  <2>2. /\ respFile'[respReq[c].id] \in {"none", "kept"}
        /\ \A r \in RespId : r # respReq[c].id => respFile'[r] = respFile[r]
    BY <1>0, <1>7, <2>1 DEF RenameTmp, SaveFails, RespTyped, RespId
  <2> QED BY <1>3, <1>7, <2>1, <2>2
<1>8. ASSUME NEW c \in Client, Complete(c), respReq'[c] = IdleReq,
             \A d \in Client : d # c => respReq'[d] = respReq[d]
      PROVE  FilesOwned'
  <2>1. respReq'[c].pc = "idle"
    BY <1>8, IdleFields
  <2>2. UNCHANGED <<respFile, respPrev, respCount>>
    BY <1>8 DEF Complete
  <2> QED BY <1>8, <2>1, <2>2 DEF FilesOwned, Running
<1>9. ASSUME NEW r \in RespId, ResponseExpires(r) PROVE FilesOwned'
  <2>1. /\ UNCHANGED <<respPrev, respCount, respReq>>
        /\ \A x \in RespId : respFile[x] \in {"none", "tmp"} => respFile'[x] = respFile[x]
        /\ \A x \in RespId : respFile'[x] # "none" => respFile[x] # "none"
    BY <1>9 DEF ResponseExpires, RespTyped
  <2>2. \A c \in Client : Running(c) => respReq[c].id \in RespId
    BY <1>0 DEF RespTyped, RespId
  <2> QED BY <1>p, <2>1, <2>2 DEF FilesOwned, Running
<1> QED BY <1>1, <1>2, <1>4, <1>5, <1>6, <1>7, <1>8, <1>9 DEF RespMove

-----------------------------------------------------------------------------
(* Responses: the history of a request, and what was reported.             *)

\* The history read so far ends with the response to continue and has no gaps;
\* when the model is asked, nothing is left to read.
ChainWhole(c) == respReq[c].pc \in {"load", "stream"} =>
  /\ Len(respReq[c].chain) > 0 =>
       respReq[c].chain[Len(respReq[c].chain)] = respPrev[respReq[c].id]
  /\ \A i \in 1..Len(respReq[c].chain) - 1 :
       respPrev[respReq[c].chain[i + 1]] = respReq[c].chain[i]
  /\ respReq[c].pc = "stream" => ~HasOlder(c)

\* A request that does not move keeps its history: what it would read next stays
\* as it is, or expires.
LEMMA ChainStays ==
  ASSUME Shaped, RespTyped, FilesOwned, RespMove, NEW c \in Client, ChainWhole(c),
         respReq'[c].pc = respReq[c].pc, respReq'[c].id = respReq[c].id,
         respReq'[c].chain = respReq[c].chain
  PROVE  ChainWhole(c)'
<1> SUFFICES ASSUME respReq[c].pc \in {"load", "stream"} PROVE ChainWhole(c)'
  BY DEF ChainWhole
<1>0. /\ respReq[c].id \in 1..respCount /\ respReq[c].chain \in Seq(1..respCount)
      /\ Len(respReq[c].chain) \in Nat
  BY DEF RespTyped, Running
<1>s. \A i \in 1..Len(respReq[c].chain) : respReq[c].chain[i] \in 1..respCount
  <2>1. PICK chain : chain = respReq[c].chain
    OBVIOUS
  <2>2. chain \in Seq(1..respCount)
    BY <1>0, <2>1
  <2>3. \A i \in 1..Len(chain) : chain[i] \in 1..respCount
    BY <2>2, ElementOfSeq
  <2> QED BY <2>1, <2>3
<1>1. \A r \in 1..respCount : r \in RespId /\ respPrev'[r] = respPrev[r]
  BY PrevStays
<1>2. respPrev'[respReq[c].id] = respPrev[respReq[c].id]
  BY <1>0, <1>1
<1>3. \A i \in 1..Len(respReq[c].chain) : respPrev'[respReq[c].chain[i]] = respPrev[respReq[c].chain[i]]
  BY <1>s, <1>1
<1>4. ASSUME respReq[c].pc = "stream" PROVE ~HasOlder(c)'
  <2>1. ~HasOlder(c)
    BY <1>4 DEF ChainWhole
  <2>2. CASE respReq[c].chain = <<>>
    BY <2>2 DEF HasOlder
  <2>3. CASE respReq[c].chain # <<>>
    <3>1. respReq[c].chain[1] \in 1..respCount
      <4>1. Len(respReq[c].chain) # 0
        BY <1>0, <2>3
      <4> QED BY <1>0, <1>s, <4>1
    <3>2. Older(c)' = Older(c) /\ Older(c) \in 0..MaxResp
      BY <1>1, <3>1 DEF Older, RespTyped
    <3>3. Older(c) # 0 => Older(c) \in RespId /\ respFile[Older(c)] \in {"kept", "gone"}
      BY <1>1, <3>1, <3>2, ResponsesAssumption DEF FilesOwned, Older, RespId
    <3>4. PICK r : r = Older(c)
      OBVIOUS
    <3>5. r # 0 /\ respFile'[r] = "kept" => respFile[r] = "kept"
      BY <3>3, <3>4, KeptStays
    <3> QED BY <2>1, <2>3, <3>2, <3>4, <3>5 DEF HasOlder
  <2> QED BY <2>2, <2>3
<1> QED BY <1>0, <1>2, <1>3, <1>4 DEF ChainWhole

LEMMA ChainStep ==
  ASSUME Shaped, RespTyped, FilesOwned, RespMove, NEW c \in Client, ChainWhole(c)
  PROVE  ChainWhole(c)'
<1>0. MaxResp \in Nat /\ respCount \in 0..MaxResp /\ respPrev \in [RespId -> 0..MaxResp]
  BY ResponsesAssumption DEF RespTyped
<1>1. CASE Still
  <2>1. CASE Running(c)'
    BY <1>1, <2>1, QuietIds, ChainStays
  <2>2. CASE ~Running(c)'
    BY <2>2 DEF ChainWhole, Running
  <2> QED BY <2>1, <2>2
<1>2. ASSUME NEW d \in Client, d # c, \A x \in Client : x # d => respReq'[x] = respReq[x]
      PROVE  ChainWhole(c)'
  BY <1>2, ChainStays
<1>3. CASE handleOpenAIResponses(c)
  <2>1. PICK prev \in {0} \cup {r \in RespId : respFile[r] = "kept"} :
           /\ respPrev' = [respPrev EXCEPT ![respCount + 1] = prev]
           /\ respReq'[c].pc = "load" /\ respReq'[c].id = respCount + 1
           /\ respReq'[c].chain = IF prev = 0 THEN <<>> ELSE <<prev>>
           /\ respCount < MaxResp
    BY <1>3, NewRequest
  <2>2. respPrev'[respReq'[c].id] = prev
    BY <1>0, <2>1 DEF RespId
  <2>3. CASE prev = 0
    BY <2>1, <2>3 DEF ChainWhole
  <2>4. CASE prev # 0
    <3>1. respReq'[c].chain = <<prev>>
      BY <2>1, <2>4
    <3>2. Len(respReq'[c].chain) = 1 /\ respReq'[c].chain[1] = prev
      BY <3>1
    <3> QED BY <2>1, <2>2, <3>2 DEF ChainWhole
  <2> QED BY <2>3, <2>4
<1>4. CASE LoadAncestor(c) /\ Goes(c, "load", <<Older(c)>> \o respReq[c].chain)
  <2>1. /\ respReq[c].pc = "load" /\ respReq[c].chain # <<>> /\ Older(c) # 0
        /\ respPrev' = respPrev /\ respReq'[c].pc = "load" /\ respReq'[c].id = respReq[c].id
    BY <1>4 DEF LoadAncestor, HasOlder, ReqAt, Goes
  <2>2. PICK old, chain : old = Older(c) /\ chain = respReq[c].chain
    OBVIOUS
  <2>3. /\ respReq'[c].chain = <<old>> \o chain /\ chain \in Seq(1..respCount) /\ chain # <<>>
        /\ old = respPrev[chain[1]]
    BY <1>4, <2>1, <2>2 DEF Goes, RespTyped, Older
  <2>4. old \in Nat
    BY <1>0, <2>3 DEF RespId
  <2>5. /\ Len(<<old>> \o chain) = Len(chain) + 1 /\ Len(chain) \in Nat \ {0}
        /\ (<<old>> \o chain)[1] = old
        /\ \A i \in 1..Len(chain) : (<<old>> \o chain)[i + 1] = chain[i]
    BY <2>3, <2>4
  <2>6. /\ chain[Len(chain)] = respPrev[respReq[c].id]
        /\ \A i \in 1..Len(chain) - 1 : respPrev[chain[i + 1]] = chain[i]
    BY <2>1, <2>2, <2>5 DEF ChainWhole
  <2>7. \A i \in 1..Len(chain) : respPrev[(<<old>> \o chain)[i + 1]] = (<<old>> \o chain)[i]
    <3>1. ASSUME NEW i \in 1..Len(chain), i = 1
          PROVE  respPrev[(<<old>> \o chain)[i + 1]] = (<<old>> \o chain)[i]
      BY <2>3, <2>5, <3>1
    <3>2. ASSUME NEW i \in 1..Len(chain), i # 1
          PROVE  respPrev[(<<old>> \o chain)[i + 1]] = (<<old>> \o chain)[i]
      <4>1. i - 1 \in 1..Len(chain) - 1 /\ (i - 1) + 1 = i
        BY <2>5, <3>2
      <4>2. (<<old>> \o chain)[i] = chain[i - 1] /\ (<<old>> \o chain)[i + 1] = chain[i]
        BY <2>5, <4>1
      <4> QED BY <2>6, <4>1, <4>2
    <3> QED BY <3>1, <3>2
  <2>8. (<<old>> \o chain)[Len(chain) + 1] = respPrev[respReq[c].id]
    BY <2>5, <2>6
  <2> QED BY <2>1, <2>3, <2>5, <2>7, <2>8 DEF ChainWhole
<1>5. CASE AskKiro(c) /\ Goes(c, "stream", respReq[c].chain)
  <2>1. /\ respReq[c].pc = "load" /\ ~HasOlder(c) /\ UNCHANGED <<respPrev, respFile>>
        /\ respReq'[c].pc = "stream" /\ respReq'[c].id = respReq[c].id
        /\ respReq'[c].chain = respReq[c].chain
    BY <1>5 DEF AskKiro, ReqAt, Goes
  <2>2. ~HasOlder(c)'
    BY <2>1 DEF HasOlder, Older
  <2> QED BY <2>1, <2>2 DEF ChainWhole
<1>6. ASSUME \/ Goes(c, IF respReq[c].store THEN "write" ELSE "complete", <<>>)
             \/ Goes(c, "rename", respReq[c].chain) \/ Goes(c, "complete", respReq[c].chain)
             \/ respReq'[c] = IdleReq
      PROVE  ChainWhole(c)'
  <2>1. respReq'[c].pc \in {"write", "complete", "rename", "idle"}
    BY <1>6, IdleFields DEF Goes
  <2> QED BY <2>1 DEF ChainWhole
<1>7. ASSUME NEW r \in RespId, ResponseExpires(r) PROVE ChainWhole(c)'
  BY <1>7, ChainStays DEF ResponseExpires
<1>8. ASSUME NEW d \in Client, d # c,
             \/ handleOpenAIResponses(d)
             \/ Goes(d, "load", <<Older(d)>> \o respReq[d].chain)
             \/ Goes(d, "stream", respReq[d].chain)
             \/ Goes(d, IF respReq[d].store THEN "write" ELSE "complete", <<>>)
             \/ Goes(d, "rename", respReq[d].chain) \/ Goes(d, "complete", respReq[d].chain)
             \/ \A x \in Client : x # d => respReq'[x] = respReq[x]
      PROVE  ChainWhole(c)'
  <2>1. ASSUME handleOpenAIResponses(d) PROVE \A x \in Client : x # d => respReq'[x] = respReq[x]
    BY <2>1, NewRequest
  <2> QED BY <1>2, <1>8, <2>1 DEF Goes
<1> QED BY <1>1, <1>3, <1>4, <1>5, <1>6, <1>7, <1>8 DEF RespMove

\* What was reported, or is about to be, is kept unless it is not to be.
ToldKept ==
  /\ told \subseteq RespId
  /\ \A r \in told : r \in unsaved \/ respFile[r] \in {"kept", "gone"}
  /\ \A c \in Client :
       /\ respReq[c].pc = "complete" =>
            respReq[c].id \in unsaved \/ respFile[respReq[c].id] \in {"kept", "gone"}
       /\ Running(c) /\ ~respReq[c].store => respReq[c].id \in unsaved

LEMMA ToldStep ==
  ASSUME Shaped, RespTyped, FilesOwned, ToldKept, RespMove
  PROVE  ToldKept'
<1>0. MaxResp \in Nat /\ respCount \in 0..MaxResp
      /\ \A c \in Client : Running(c) => respReq[c].id \in RespId
  BY ResponsesAssumption DEF RespTyped, RespId
<1>k. \A r \in RespId : respFile[r] \in {"kept", "gone"} => respFile'[r] \in {"kept", "gone"}
  BY KeptStays
<1>1. ASSUME told' = told, unsaved \subseteq unsaved',
             \A c \in Client : Running(c)' =>
               /\ Running(c) /\ respReq'[c].id = respReq[c].id /\ respReq'[c].store = respReq[c].store
               /\ respReq'[c].pc = "complete" =>
                    \/ respReq[c].pc = "complete" \/ respReq[c].id \in unsaved'
                    \/ respFile'[respReq[c].id] = "kept"
      PROVE  ToldKept'
  <2>1. \A r \in told : r \in unsaved' \/ respFile'[r] \in {"kept", "gone"}
    BY <1>1, <1>k DEF ToldKept
  <2>2. ASSUME NEW c \in Client, respReq'[c].pc = "complete"
        PROVE  respReq'[c].id \in unsaved' \/ respFile'[respReq'[c].id] \in {"kept", "gone"}
    <3>1. Running(c)'
      BY <2>2 DEF Running
    <3> QED BY <1>0, <1>1, <1>k, <2>2, <3>1 DEF ToldKept
  <2>3. \A c \in Client : Running(c)' /\ ~respReq'[c].store => respReq'[c].id \in unsaved'
    BY <1>1 DEF ToldKept
  <2> QED BY <1>1, <2>1, <2>2, <2>3 DEF ToldKept
<1>2. CASE Still
  BY <1>1, <1>2, QuietIds DEF Still
<1>3. ASSUME NEW c \in Client, Running(c), NEW pc, NEW chain, Goes(c, pc, chain), told' = told,
             unsaved \subseteq unsaved',
             pc = "complete" => respReq[c].id \in unsaved' \/ respFile'[respReq[c].id] = "kept"
      PROVE  ToldKept'
  BY <1>1, <1>3 DEF Goes, Running
<1>4. ASSUME NEW c \in Client, handleOpenAIResponses(c) PROVE ToldKept'
  <2>1. /\ respReq'[c].pc = "load" /\ respReq'[c].id = respCount + 1
        /\ respReq'[c].store \/ unsaved' = unsaved \cup {respCount + 1}
        /\ unsaved \subseteq unsaved' /\ told' = told /\ respFile' = respFile
        /\ \A d \in Client : d # c => respReq'[d] = respReq[d]
    BY <1>4, NewRequest
  <2>2. ~respReq'[c].store => respReq'[c].id \in unsaved'
    BY <2>1
  <2> QED BY <2>1, <2>2 DEF ToldKept, Running
<1>5. ASSUME NEW c \in Client, LoadAncestor(c), Goes(c, "load", <<Older(c)>> \o respReq[c].chain)
      PROVE  ToldKept'
  BY <1>3, <1>5 DEF LoadAncestor, ReqAt, Running
<1>6. ASSUME NEW c \in Client, AskKiro(c), Goes(c, "stream", respReq[c].chain) PROVE ToldKept'
  BY <1>3, <1>6 DEF AskKiro, ReqAt, Running
<1>7. ASSUME NEW c \in Client, StreamEnds(c),
             Goes(c, IF respReq[c].store THEN "write" ELSE "complete", <<>>)
      PROVE  ToldKept'
  <2>1. Running(c) /\ UNCHANGED <<told, unsaved>>
    BY <1>7 DEF StreamEnds, ReqAt, Running
  <2>2. PICK pc : pc = IF respReq[c].store THEN "write" ELSE "complete"
    OBVIOUS
  <2>3. Goes(c, pc, <<>>) /\ (pc = "complete" => respReq[c].id \in unsaved')
    BY <1>7, <2>1, <2>2 DEF ToldKept
  <2> QED BY <1>3, <2>1, <2>3
<1>8. ASSUME NEW c \in Client, WriteTmp(c), Goes(c, "rename", respReq[c].chain) PROVE ToldKept'
  BY <1>3, <1>8 DEF WriteTmp, ReqAt, Running
<1>9. ASSUME NEW c \in Client, RenameTmp(c) \/ SaveFails(c), Goes(c, "complete", respReq[c].chain)
      PROVE  ToldKept'
  <2>1. Running(c) /\ told' = told /\ unsaved \subseteq unsaved'
    BY <1>9 DEF RenameTmp, SaveFails, ReqAt, Running
  <2>2. respReq[c].id \in unsaved' \/ respFile'[respReq[c].id] = "kept"
    BY <1>0, <1>9, <2>1 DEF RenameTmp, SaveFails, RespTyped
  <2> QED BY <1>3, <1>9, <2>1, <2>2
<1>10. ASSUME NEW c \in Client, Complete(c), respReq'[c] = IdleReq,
              \A d \in Client : d # c => respReq'[d] = respReq[d]
       PROVE  ToldKept'
  <2>1. /\ respReq[c].pc = "complete" /\ told' = told \cup {respReq[c].id}
        /\ UNCHANGED <<respFile, unsaved>> /\ respReq'[c].pc = "idle"
    BY <1>10, IdleFields DEF Complete, ReqAt
  <2>2. respReq[c].id \in RespId
    BY <1>0, <2>1 DEF Running
  <2> QED BY <1>10, <2>1, <2>2 DEF ToldKept, Running
<1>11. ASSUME NEW r \in RespId, ResponseExpires(r) PROVE ToldKept'
  <2>1. UNCHANGED <<told, unsaved, respReq>>
    BY <1>11 DEF ResponseExpires
  <2> QED BY <1>1, <2>1 DEF Running
<1> QED BY <1>2, <1>4, <1>5, <1>6, <1>7, <1>8, <1>9, <1>10, <1>11 DEF RespMove

RespInv ==
  /\ Shaped /\ RespTyped /\ FilesOwned /\ ToldKept
  /\ \A c \in Client : ChainWhole(c)

LEMMA RespInitInv == ResponsesInit => RespInv
<1> SUFFICES ASSUME ResponsesInit PROVE RespInv
  OBVIOUS
<1>1. Shaped /\ \A c \in Client : respReq[c].pc = "idle" /\ respReq[c].chain = <<>>
  BY IdleFields DEF ResponsesInit, Shaped
<1>2. RespTyped /\ FilesOwned /\ ToldKept
  <2>0. <<>> \in Seq(1..respCount)
    BY EmptySeq
  <2>1. \A c \in Client : ~Running(c) /\ respReq[c].chain \in Seq(1..respCount)
    BY <1>1, <2>0 DEF Running
  <2>2. RespTyped
    BY <1>1, <2>1, ResponsesAssumption DEF ResponsesInit, RespTyped, RespId
  <2>3. FilesOwned
    BY <1>1, <2>1 DEF ResponsesInit, FilesOwned
  <2>4. ToldKept
    BY <1>1, <2>1 DEF ResponsesInit, ToldKept
  <2> QED BY <2>2, <2>3, <2>4
<1>3. \A c \in Client : ChainWhole(c)
  BY <1>1 DEF ChainWhole
<1> QED BY <1>1, <1>2, <1>3 DEF RespInv

LEMMA RespStepInv ==
  ASSUME RespInv, [ResponsesNext]_respVars
  PROVE  RespInv'
<1>1. Shaped' /\ RespMove
  BY ResponsesMoves DEF RespInv
<1>2. RespTyped' /\ FilesOwned' /\ ToldKept'
  BY <1>1, RespTypedStep, FilesOwnedStep, ToldStep DEF RespInv
<1>3. \A c \in Client : ChainWhole(c)'
  BY <1>1, ChainStep DEF RespInv
<1> QED BY <1>1, <1>2, <1>3 DEF RespInv

LEMMA RespInvIsWhole == RespInv => HistoryIsWhole
<1> SUFFICES ASSUME RespInv PROVE HistoryIsWhole
  OBVIOUS
<1>1. \A r \in told \ unsaved : respFile[r] \in {"kept", "gone"}
  BY DEF RespInv, ToldKept
<1>2. ASSUME NEW c \in Client, ReqAt(c, "stream")
      PROVE  /\ Len(respReq[c].chain) > 0 =>
                  respReq[c].chain[Len(respReq[c].chain)] = respPrev[respReq[c].id]
             /\ \A i \in 1..Len(respReq[c].chain) - 1 :
                  respPrev[respReq[c].chain[i + 1]] = respReq[c].chain[i]
             /\ ~HasOlder(c)
  BY <1>2 DEF RespInv, ChainWhole, ReqAt
<1> QED BY <1>1, <1>2 DEF HistoryIsWhole

\* What was reported as completed can be continued until it expires, also after
\* a crash, and the history read for a request has no gap and its right end:
\* for any number of clients, responses, crashes and failed saves
\* (proxy/responses_handler.go, responses_history.go, responses_store.go).
THEOREM HistoryWhole == ResponsesSpec => []HistoryIsWhole
<1>1. ResponsesInit => RespInv
  BY RespInitInv
<1>2. RespInv /\ [ResponsesNext]_respVars => RespInv'
  BY RespStepInv
<1>3. RespInv => HistoryIsWhole
  BY RespInvIsWhole
<1> QED BY <1>1, <1>2, <1>3, PTL DEF ResponsesSpec


-----------------------------------------------------------------------------
(* Responses: what is streamed is what is reported, two pictures of an     *)
(* answer: its items and its object.                                       *)

OutItem == [kind: {"message", "call"}, deltas: Seq(Nat), done: Seq(Nat)]

DeltasOf(items) == [i \in DOMAIN items |-> items[i].deltas]

\* The object without what extractThinkingFromContent takes out.
RawObject(parts) ==
  (IF Texts(parts) # <<>> \/ CallsOf(parts) = <<>>
     THEN <<[kind |-> "message", text |-> Texts(parts)]>> ELSE <<>>) \o ObjectCalls(parts)

\* The items say of the pieces what the object would say with all the text.
Exact(parts, items) ==
  /\ parts \in Seq(Part) /\ items \in Seq(OutItem)
  /\ parts = <<>> <=> items = <<>>
  /\ FlattenSeq(DeltasOf(items)) = Places(parts)
  /\ CallsAmong(Streamed(items)) = ObjectCalls(parts)
  /\ parts # <<>> /\ ~TextAfterCall(parts) => Streamed(items) = RawObject(parts)
  /\ CallsOf(parts) # <<>> => \E i \in DOMAIN parts : parts[i] = "call"
  /\ parts # <<>> => Texts(parts) # <<>> \/ CallsOf(parts) # <<>>

\* What the items are when the open message is closed.
ClosedItems(parts, items, open) == IF open THEN LastDone(items, Texts(parts)) ELSE items

\* An open message is the last item, and the only one as long as nothing is called;
\* if something was called, its text came after that.
Streaming(parts, items, open) ==
  /\ Exact(parts, ClosedItems(parts, items, open)) /\ items \in Seq(OutItem)
  /\ open => items # <<>> /\ items[Len(items)].kind = "message"
  /\ ~open /\ items # <<>> => items[Len(items)].kind = "call"
  /\ open /\ CallsOf(parts) # <<>> => TextAfterCall(parts)
  /\ parts # <<>> /\ CallsOf(parts) = <<>> => open /\ Len(items) = 1

\* A piece more: its place is added to the places of its kind.
LEMMA PlacesAppend ==
  ASSUME NEW parts \in Seq(Part), NEW k \in Part
  PROVE  LET n == Len(parts) + 1
             more == Append(parts, k) IN
         /\ Places(more) = Append(Places(parts), n)
         /\ Places(parts) \in Seq(Nat) /\ n \in Nat
         /\ Texts(parts) \in Seq(Nat) /\ CallsOf(parts) \in Seq(Nat)
         /\ Texts(more) = IF k # "call" THEN Append(Texts(parts), n) ELSE Texts(parts)
         /\ CallsOf(more) = IF k = "call" THEN Append(CallsOf(parts), n) ELSE CallsOf(parts)
<1> DEFINE n == Len(parts) + 1
           more == Append(parts, k)
           At(p, e) == {i \in DOMAIN p : (p[i] = "call") <=> (e = "call")}
<1>1. /\ more \in Seq(Part) /\ Len(more) = n /\ Len(parts) \in Nat /\ n \in Nat
      /\ DOMAIN parts = 1..Len(parts) /\ DOMAIN more = 1..n /\ more[n] = k
      /\ \A i \in 1..Len(parts) : more[i] = parts[i]
  BY AppendAt
<1> HIDE DEF more
<1>2. Places(parts) \in Seq(Nat) /\ Len(Places(parts)) = Len(parts)
  BY <1>1 DEF Places
<1>3. Places(more) = Append(Places(parts), n)
  BY <1>1, <1>2 DEF Places
<1>4. ASSUME NEW e \in {"text", "call"}
      PROVE  /\ Select(Places(parts), At(parts, e)) \in Seq(Nat)
             /\ Select(Places(more), At(more, e)) =
                  IF (k = "call") <=> (e = "call") THEN Append(Select(Places(parts), At(parts, e)), n)
                  ELSE Select(Places(parts), At(parts, e))
  <2>1. Select(Places(parts), At(parts, e)) \in Seq(Nat)
    BY <1>2, SelectType
  <2>2. Select(Places(parts), At(parts, e)) = Select(Places(parts), At(more, e))
    <3>1. \A i \in 1..Len(Places(parts)) : i \in At(parts, e) <=> i \in At(more, e)
      BY <1>1, <1>2
    <3> HIDE DEF At
    <3> QED BY <1>2, <3>1, SelectAgrees
  <2>3. n \in At(more, e) <=> ((k = "call") <=> (e = "call"))
    BY <1>1
  <2> HIDE DEF At
  <2>4. Select(Append(Places(parts), n), At(more, e)) =
          IF Len(Places(parts)) + 1 \in At(more, e) THEN Append(Select(Places(parts), At(more, e)), n)
          ELSE Select(Places(parts), At(more, e))
    BY <1>1, <1>2, SelectAppend
  <2> QED BY <1>2, <1>3, <2>1, <2>2, <2>3, <2>4
<1>5. Texts(parts) = Select(Places(parts), At(parts, "text"))
      /\ CallsOf(parts) = Select(Places(parts), At(parts, "call"))
      /\ Texts(more) = Select(Places(more), At(more, "text"))
      /\ CallsOf(more) = Select(Places(more), At(more, "call"))
  BY DEF Texts, TextAt, CallsOf
<1> HIDE DEF At
<1>6. /\ Texts(parts) \in Seq(Nat) /\ CallsOf(parts) \in Seq(Nat)
      /\ Texts(more) = IF k # "call" THEN Append(Texts(parts), n) ELSE Texts(parts)
      /\ CallsOf(more) = IF k = "call" THEN Append(CallsOf(parts), n) ELSE CallsOf(parts)
  BY <1>4, <1>5
<1> QED BY <1>1, <1>2, <1>3, <1>6 DEF more

LEMMA PlacesTyped ==
  ASSUME NEW parts \in Seq(Part)
  PROVE  Places(parts) \in Seq(Nat) /\ Texts(parts) \in Seq(Nat) /\ CallsOf(parts) \in Seq(Nat)
<1>1. "call" \in Part
  BY DEF Part
<1> QED BY <1>1, PlacesAppend

\* An item more: what all the items say, and the calls among them.
ItemSays(it) == [kind |-> it.kind, text |-> IF it.kind = "call" THEN it.deltas ELSE it.done]

Says == [kind: {"message", "call"}, text: Seq(Nat)]

LEMMA ItemAppend ==
  ASSUME NEW items \in Seq(OutItem), NEW it \in OutItem
  PROVE  LET more == Append(items, it) IN
         /\ more \in Seq(OutItem) /\ Streamed(items) \in Seq(Says) /\ ItemSays(it) \in Says
         /\ Streamed(more) = Append(Streamed(items), ItemSays(it))
         /\ FlattenSeq(DeltasOf(items)) \in Seq(Nat)
         /\ FlattenSeq(DeltasOf(more)) = FlattenSeq(DeltasOf(items)) \o it.deltas
         /\ CallsAmong(Streamed(more)) =
              IF it.kind = "call" THEN Append(CallsAmong(Streamed(items)), ItemSays(it))
              ELSE CallsAmong(Streamed(items))
<1> DEFINE n == Len(items) + 1
           more == Append(items, it)
           At(s) == {i \in DOMAIN s : s[i].kind = "call"}
<1>1. /\ more \in Seq(OutItem) /\ Len(more) = n /\ Len(items) \in Nat /\ n \in Nat
      /\ DOMAIN items = 1..Len(items) /\ DOMAIN more = 1..n /\ more[n] = it
      /\ \A i \in 1..Len(items) : more[i] = items[i]
  BY AppendAt
<1> HIDE DEF more
<1>2. \A x \in OutItem : ItemSays(x) \in Says /\ x.deltas \in Seq(Nat)
  BY DEF OutItem, ItemSays, Says
<1>3. \A i \in 1..Len(items) : items[i] \in OutItem
  BY <1>1, ElementOfSeq
<1>4. /\ DOMAIN Streamed(items) = 1..Len(items) /\ DOMAIN Streamed(more) = 1..n
      /\ Streamed(items) = [i \in 1..Len(items) |-> ItemSays(items[i])]
      /\ Streamed(more) = [i \in 1..n |-> ItemSays(more[i])]
  BY <1>1 DEF Streamed, ItemSays
<1>5. Streamed(items) \in Seq(Says) /\ Len(Streamed(items)) = Len(items)
  <2>1. \A i \in 1..Len(items) : ItemSays(items[i]) \in Says
    BY <1>2, <1>3
  <2> HIDE DEF Says
  <2> QED BY <1>1, <1>4, <2>1
<1>6. Streamed(more) = Append(Streamed(items), ItemSays(it))
  <2> HIDE DEF ItemSays
  <2> QED BY <1>1, <1>4, <1>5
<1>7. DeltasOf(items) \in Seq(Seq(Nat)) /\ DeltasOf(more) = Append(DeltasOf(items), it.deltas)
  <2>1. \A i \in 1..Len(items) : items[i].deltas \in Seq(Nat)
    BY <1>2, <1>3
  <2>2. DeltasOf(items) = [i \in 1..Len(items) |-> items[i].deltas]
        /\ DeltasOf(more) = [i \in 1..n |-> more[i].deltas]
    BY <1>1 DEF DeltasOf
  <2>3. DeltasOf(items) \in Seq(Seq(Nat)) /\ Len(DeltasOf(items)) = Len(items)
    BY <1>1, <2>1, <2>2
  <2> QED BY <1>1, <2>2, <2>3
<1>8. /\ FlattenSeq(DeltasOf(items)) \in Seq(Nat)
      /\ FlattenSeq(DeltasOf(more)) = FlattenSeq(DeltasOf(items)) \o it.deltas
  BY <1>2, <1>7, FlattenAppend
<1>9. CallsAmong(Streamed(more)) =
        IF it.kind = "call" THEN Append(CallsAmong(Streamed(items)), ItemSays(it))
        ELSE CallsAmong(Streamed(items))
  <2>1. \A i \in 1..Len(items) : Streamed(more)[i] = Streamed(items)[i]
    BY <1>1, <1>4
  <2>2. Select(Streamed(items), At(Streamed(items))) = Select(Streamed(items), At(Streamed(more)))
    <3>1. \A i \in 1..Len(Streamed(items)) : i \in At(Streamed(items)) <=> i \in At(Streamed(more))
      BY <1>1, <1>4, <1>5, <2>1
    <3> HIDE DEF At, Says
    <3> QED BY <1>5, <3>1, SelectAgrees
  <2>3. n \in At(Streamed(more)) <=> it.kind = "call"
    <3>1. Streamed(more)[n].kind = it.kind
      BY <1>1, <1>4 DEF ItemSays
    <3> QED BY <1>1, <1>4, <3>1
  <2> HIDE DEF At, Says, ItemSays
  <2>4. Select(Append(Streamed(items), ItemSays(it)), At(Streamed(more))) =
          IF Len(Streamed(items)) + 1 \in At(Streamed(more))
            THEN Append(Select(Streamed(items), At(Streamed(more))), ItemSays(it))
            ELSE Select(Streamed(items), At(Streamed(more)))
    <3>1. ItemSays(it) \in Says
      BY <1>2
    <3> QED BY <1>5, <3>1, SelectAppend
  <2>5. CallsAmong(Streamed(items)) = Select(Streamed(items), At(Streamed(items)))
        /\ CallsAmong(Streamed(more)) = Select(Streamed(more), At(Streamed(more)))
    BY DEF CallsAmong, At
  <2> QED BY <1>5, <1>6, <2>2, <2>3, <2>4, <2>5
<1>10. ItemSays(it) \in Says
  BY <1>2
<1> QED BY <1>1, <1>5, <1>6, <1>8, <1>9, <1>10 DEF more

-----------------------------------------------------------------------------
(* What a piece does to a request that streams.                            *)

LEMMA NoItems ==
  ASSUME NEW items \in Seq(OutItem), NEW n, n = 1, n = Len(items) + 1
  PROVE  items = <<>>
<1>1. Len(items) \in Nat
  BY LenProperties
<1>2. Len(items) = 0
  BY <1>1
<1> QED BY <1>2, EmptySeq

LEMMA ConcatAppend ==
  ASSUME NEW a \in Seq(Nat), NEW b \in Seq(Nat), NEW n \in Nat
  PROVE  a \o Append(b, n) = Append(a \o b, n)
<1> QED OBVIOUS

\* What is done to the last item leaves those before it.
LEMMA LastItem ==
  ASSUME NEW front \in Seq(OutItem), NEW last \in OutItem, NEW said \in Seq(Nat), NEW i \in Nat
  PROVE  /\ LastDone(Append(front, last), said) = Append(front, [last EXCEPT !.done = said])
         /\ LastDelta(Append(front, last), i) =
              Append(front, [last EXCEPT !.deltas = Append(last.deltas, i)])
         /\ [last EXCEPT !.done = said] \in OutItem
         /\ [last EXCEPT !.deltas = Append(last.deltas, i)] \in OutItem
<1> DEFINE n == Len(front) + 1
<1>1. PICK items : items = Append(front, last)
  OBVIOUS
<1>2. /\ items \in Seq(OutItem) /\ Len(items) = n /\ items[n] = last /\ DOMAIN items = 1..n
      /\ Len(front) \in Nat /\ n \in 1..n /\ \A j \in 1..Len(front) : items[j] = front[j]
  <2>1. Len(front) \in Nat /\ n \in 1..n
    BY LenProperties
  <2> QED BY <1>1, <2>1, AppendAt
<1>3. ASSUME NEW x \in OutItem
      PROVE  [items EXCEPT ![n] = x] = Append(front, x)
  <2>1. PICK f : f = Append(front, x)
    OBVIOUS
  <2>2. /\ f \in Seq(OutItem) /\ Len(f) = n /\ f[n] = x /\ DOMAIN f = 1..n
        /\ \A j \in 1..Len(front) : f[j] = front[j]
    BY <2>1, AppendAt
  <2>3. PICK g : g = [items EXCEPT ![n] = x]
    OBVIOUS
  <2>4. DOMAIN g = 1..n /\ g = [j \in DOMAIN g |-> g[j]]
        /\ \A j \in 1..n : g[j] = IF j = n THEN x ELSE items[j]
    BY <1>2, <2>3
  <2>5. \A j \in 1..n : j = n \/ j \in 1..Len(front)
    BY <1>2
  <2>6. f = [j \in 1..n |-> f[j]]
    BY <2>2
  <2>7. \A j \in 1..n : g[j] = f[j]
    BY <1>2, <2>2, <2>4, <2>5
  <2> QED BY <2>1, <2>3, <2>4, <2>6, <2>7
<1>4. last.deltas \in Seq(Nat)
  BY DEF OutItem
<1>5. PICK more : more = Append(last.deltas, i)
  OBVIOUS
<1>6. more \in Seq(Nat)
  BY <1>4, <1>5, AppendProperties
<1>7. [last EXCEPT !.done = said] \in OutItem /\ [last EXCEPT !.deltas = more] \in OutItem
  BY <1>6 DEF OutItem
<1>8. LastDone(items, said) = [items EXCEPT ![n] = [last EXCEPT !.done = said]]
  BY <1>2 DEF LastDone
<1>9. LastDelta(items, i) = [items EXCEPT ![n] = [last EXCEPT !.deltas = more]]
  BY <1>2, <1>5 DEF LastDelta
<1> QED BY <1>1, <1>3, <1>5, <1>7, <1>8, <1>9

LEMMA LastDoneIs ==
  ASSUME NEW front \in Seq(OutItem), NEW last \in OutItem, NEW said \in Seq(Nat)
  PROVE  /\ LastDone(Append(front, last), said) = Append(front, [last EXCEPT !.done = said])
         /\ [last EXCEPT !.done = said] \in OutItem
<1>1. 0 \in Nat
  OBVIOUS
<1> QED BY <1>1, LastItem, Zenon

LEMMA LastDeltaIs ==
  ASSUME NEW front \in Seq(OutItem), NEW last \in OutItem, NEW i \in Nat
  PROVE  /\ LastDelta(Append(front, last), i) =
              Append(front, [last EXCEPT !.deltas = Append(last.deltas, i)])
         /\ [last EXCEPT !.deltas = Append(last.deltas, i)] \in OutItem
<1>1. <<>> \in Seq(Nat)
  BY EmptySeq
<1> QED BY <1>1, LastItem, Zenon

\* The kinds of the object's parts.
LEMMA ObjectShape ==
  ASSUME NEW parts \in Seq(Part)
  PROVE  /\ ObjectCalls(parts) \in Seq(Says)
         /\ CallsOf(parts) = <<>> => ObjectCalls(parts) = <<>>
         /\ \A n \in Nat, p \in Seq(Part) :
              CallsOf(p) = Append(CallsOf(parts), n) =>
                ObjectCalls(p) = Append(ObjectCalls(parts), [kind |-> "call", text |-> <<n>>])
<1>1. CallsOf(parts) \in Seq(Nat)
  BY PlacesTyped
<1>2. PICK cs \in Seq(Nat) : cs = CallsOf(parts)
  BY <1>1
<1>3. ObjectCalls(parts) = [j \in DOMAIN cs |-> [kind |-> "call", text |-> <<cs[j]>>]]
  BY <1>2 DEF ObjectCalls
<1>4. DOMAIN cs = 1..Len(cs) /\ Len(cs) \in Nat /\ \A j \in 1..Len(cs) : cs[j] \in Nat
  BY LenProperties, ElementOfSeq
<1>5. \A n \in Nat : [kind |-> "call", text |-> <<n>>] \in Says
  BY DEF Says
<1>6. ObjectCalls(parts) \in Seq(Says) /\ Len(ObjectCalls(parts)) = Len(cs)
  <2>1. \A j \in 1..Len(cs) : [kind |-> "call", text |-> <<cs[j]>>] \in Says
    BY <1>4, <1>5
  <2> HIDE DEF Says
  <2> QED BY <1>3, <1>4, <2>1
<1>7. cs = <<>> => ObjectCalls(parts) = <<>>
  BY <1>3
<1>8. ASSUME NEW n \in Nat, NEW p \in Seq(Part), CallsOf(p) = Append(cs, n)
      PROVE  ObjectCalls(p) = Append(ObjectCalls(parts), [kind |-> "call", text |-> <<n>>])
  <2>1. PICK ds : ds = Append(cs, n)
    OBVIOUS
  <2>2. /\ DOMAIN ds = 1..Len(cs) + 1 /\ ds[Len(cs) + 1] = n
        /\ \A j \in 1..Len(cs) : ds[j] = cs[j]
    BY <2>1, AppendAt
  <2>3. ObjectCalls(p) = [j \in 1..Len(cs) + 1 |-> [kind |-> "call", text |-> <<ds[j]>>]]
    BY <1>8, <2>1, <2>2 DEF ObjectCalls
  <2>4. PICK oc : oc = ObjectCalls(parts)
    OBVIOUS
  <2>5. oc \in Seq(Says) /\ Len(oc) = Len(cs)
        /\ \A j \in 1..Len(cs) : oc[j] = [kind |-> "call", text |-> <<cs[j]>>]
    BY <1>3, <1>4, <1>6, <2>4
  <2>6. PICK e : e = [kind |-> "call", text |-> <<n>>]
    OBVIOUS
  <2>7. PICK f : f = Append(oc, e)
    OBVIOUS
  <2>8. /\ DOMAIN f = 1..Len(cs) + 1 /\ f[Len(cs) + 1] = e /\ f = [j \in DOMAIN f |-> f[j]]
        /\ \A j \in 1..Len(cs) : f[j] = oc[j]
    <3>1. e \in Says
      BY <1>5, <2>6
    <3> HIDE DEF Says
    <3>2. /\ f \in Seq(Says) /\ DOMAIN f = 1..Len(oc) + 1 /\ f[Len(oc) + 1] = e
          /\ \A j \in 1..Len(oc) : f[j] = oc[j]
      BY <2>5, <2>7, <3>1, AppendAt
    <3>3. f = [j \in DOMAIN f |-> f[j]]
      BY <3>2
    <3> QED BY <2>5, <3>2, <3>3
  <2>9. \A j \in 1..Len(cs) + 1 : f[j] = [kind |-> "call", text |-> <<ds[j]>>]
    <3>1. \A j \in 1..Len(cs) + 1 : j \in 1..Len(cs) \/ j = Len(cs) + 1
      BY <1>4
    <3> QED BY <2>2, <2>5, <2>6, <2>8, <3>1
  <2> QED BY <2>3, <2>4, <2>6, <2>7, <2>8, <2>9
<1> QED BY <1>2, <1>6, <1>7, <1>8

\* A call goes behind what is closed, and is the last of the calls.
LEMMA CallStreams ==
  ASSUME NEW parts, NEW its, Exact(parts, its), NEW n, n = Len(parts) + 1
  PROVE  LET it == [kind |-> "call", deltas |-> <<n>>, done |-> <<>>] IN
         Exact(Append(parts, "call"), Append(its, it))
         /\ CallsOf(Append(parts, "call")) # <<>>
<1> DEFINE it == [kind |-> "call", deltas |-> <<n>>, done |-> <<>>]
           p  == Append(parts, "call")
           e  == [kind |-> "call", text |-> <<n>>]
<1>1. parts \in Seq(Part) /\ its \in Seq(OutItem)
  BY DEF Exact
<1>2. n \in Nat /\ Len(parts) \in Nat
  BY <1>1, LenProperties
<1>3. it \in OutItem /\ ItemSays(it) = e /\ it.kind = "call" /\ it.deltas = <<n>>
  BY <1>2 DEF OutItem, ItemSays
<1> HIDE DEF it
<1>4. /\ Places(p) = Append(Places(parts), n) /\ Places(parts) \in Seq(Nat)
      /\ Texts(p) = Texts(parts) /\ CallsOf(p) = Append(CallsOf(parts), n) /\ CallsOf(parts) \in Seq(Nat)
  <2>1. "call" \in Part
    BY DEF Part
  <2> QED BY <1>1, <2>1, PlacesAppend
<1>5. /\ Append(its, it) \in Seq(OutItem) /\ Streamed(its) \in Seq(Says)
      /\ Streamed(Append(its, it)) = Append(Streamed(its), e)
      /\ FlattenSeq(DeltasOf(Append(its, it))) = FlattenSeq(DeltasOf(its)) \o <<n>>
      /\ CallsAmong(Streamed(Append(its, it))) = Append(CallsAmong(Streamed(its)), e)
  BY <1>1, <1>3, ItemAppend
<1>6. /\ p \in Seq(Part) /\ p # <<>> /\ p[n] = "call" /\ n \in DOMAIN p
      /\ DOMAIN parts = 1..Len(parts) /\ DOMAIN p = 1..n /\ \A i \in 1..Len(parts) : p[i] = parts[i]
  <2>1. "call" \in Part
    BY DEF Part
  <2>2. /\ p \in Seq(Part) /\ Len(p) = Len(parts) + 1 /\ p[Len(parts) + 1] = "call"
        /\ DOMAIN parts = 1..Len(parts) /\ DOMAIN p = 1..Len(parts) + 1
        /\ \A i \in 1..Len(parts) : p[i] = parts[i]
    BY <1>1, <2>1, AppendAt
  <2> HIDE DEF p
  <2> QED BY <1>2, <2>2
<1>7. CallsOf(p) # <<>> /\ Append(its, it) # <<>>
  <2>1. Len(CallsOf(p)) = Len(CallsOf(parts)) + 1 /\ Len(Append(its, it)) = Len(its) + 1
    BY <1>1, <1>2, <1>3, <1>4, AppendProperties
  <2>2. Len(CallsOf(parts)) \in Nat /\ Len(its) \in Nat /\ Len(<<>>) = 0
    BY <1>1, <1>4, LenProperties
  <2> QED BY <2>1, <2>2
<1>8. FlattenSeq(DeltasOf(Append(its, it))) = Places(p)
  <2>1. FlattenSeq(DeltasOf(its)) = Places(parts)
    BY DEF Exact
  <2> QED BY <1>2, <1>4, <1>5, <2>1, AppendIsConcat
<1>9. ObjectCalls(p) = Append(ObjectCalls(parts), e)
  BY <1>1, <1>2, <1>4, <1>6, ObjectShape
<1>10. CallsAmong(Streamed(Append(its, it))) = ObjectCalls(p)
  BY <1>5, <1>9 DEF Exact
<1>11. ASSUME ~TextAfterCall(p) PROVE Streamed(Append(its, it)) = RawObject(p)
  <2>1. ~TextAfterCall(parts)
    <3>1. ASSUME NEW i \in DOMAIN parts, NEW j \in DOMAIN parts, i < j, parts[i] = "call", parts[j] # "call"
          PROVE  FALSE
      <4>1. i \in DOMAIN p /\ j \in DOMAIN p /\ p[i] = "call" /\ p[j] # "call"
        BY <1>2, <1>6, <3>1
      <4> QED BY <1>11, <3>1, <4>1 DEF TextAfterCall
    <3> QED BY <3>1 DEF TextAfterCall
  <2>2. CASE parts = <<>>
    <3>1. its = <<>> /\ n = 1
      BY <2>2 DEF Exact
    <3>2. Texts(parts) = <<>> /\ CallsOf(parts) = <<>>
      <4>1. Places(parts) = <<>>
        BY <2>2 DEF Places
      <4> QED BY <4>1, SelectEmpty DEF Texts, CallsOf
    <3>3. Streamed(its) = <<>>
      BY <3>1 DEF Streamed
    <3>4. ObjectCalls(parts) = <<>>
      BY <1>1, <3>2, ObjectShape
    <3>5. RawObject(p) = <<>> \o ObjectCalls(p)
      BY <1>4, <1>7, <3>2 DEF RawObject
    <3> QED BY <1>5, <1>9, <3>3, <3>4, <3>5
  <2>3. CASE parts # <<>>
    <3>1. Streamed(its) = RawObject(parts)
      BY <2>1, <2>3 DEF Exact
    <3> DEFINE head == IF Texts(parts) # <<>> \/ CallsOf(parts) = <<>>
                         THEN <<[kind |-> "message", text |-> Texts(parts)]>> ELSE <<>>
    <3>2. RawObject(parts) = head \o ObjectCalls(parts)
      BY DEF RawObject
    <3>3. RawObject(p) = head \o ObjectCalls(p)
      <4>1. Texts(parts) # <<>> \/ CallsOf(parts) # <<>>
        BY <2>3 DEF Exact
      <4> QED BY <1>4, <1>7, <4>1 DEF RawObject
    <3>4. head \in Seq(Says)
      <4>1. Texts(parts) \in Seq(Nat)
        BY <1>1, PlacesTyped
      <4>2. [kind |-> "message", text |-> Texts(parts)] \in Says
        BY <4>1 DEF Says
      <4> HIDE DEF Says
      <4> QED BY <4>2
    <3>5. ObjectCalls(parts) \in Seq(Says) /\ e \in Says
      BY <1>1, <1>2, ObjectShape DEF Says
    <3> HIDE DEF head, e, Says
    <3>6. Append(head \o ObjectCalls(parts), e) = head \o Append(ObjectCalls(parts), e)
      BY <3>4, <3>5
    <3> QED BY <1>5, <1>9, <3>1, <3>2, <3>3, <3>6
  <2> QED BY <2>2, <2>3
<1>12. Exact(p, Append(its, it))
  <2> HIDE DEF p
  <2> QED BY <1>5, <1>6, <1>7, <1>8, <1>10, <1>11 DEF Exact
<1> QED BY <1>7, <1>12 DEF it, p

\* A text goes into the open message or opens one, which says all the text when it
\* is closed.
LEMMA TextStreams ==
  ASSUME NEW parts, NEW items, NEW open, Streaming(parts, items, open),
         NEW n \in Nat, n = Len(parts) + 1,
         NEW its, open => its = items, ~open => its = Append(items, NewItem("message")),
         NEW k \in Part \ {"call"}
  PROVE  Streaming(Append(parts, k), LastDelta(its, n), TRUE)
<1> DEFINE p      == Append(parts, k)
           closed == ClosedItems(parts, items, open)
<1>1. /\ parts \in Seq(Part) /\ items \in Seq(OutItem) /\ Exact(parts, closed)
      /\ closed \in Seq(OutItem)
  BY DEF Streaming, Exact
<1> HIDE DEF closed
<1>2. n \in Nat /\ Len(parts) \in Nat /\ k \in Part /\ k # "call"
  BY <1>1, LenProperties
<1>3. /\ Places(p) = Append(Places(parts), n) /\ Places(parts) \in Seq(Nat)
      /\ Texts(p) = Append(Texts(parts), n) /\ CallsOf(p) = CallsOf(parts) /\ Texts(parts) \in Seq(Nat)
      /\ Texts(p) \in Seq(Nat) /\ CallsOf(parts) \in Seq(Nat)
  BY <1>1, <1>2, PlacesAppend, AppendProperties
<1>4. /\ p \in Seq(Part) /\ p # <<>> /\ p[n] = k /\ n \in DOMAIN p
      /\ DOMAIN parts = 1..Len(parts) /\ DOMAIN p = 1..n /\ \A i \in 1..Len(parts) : p[i] = parts[i]
  <2>1. /\ p \in Seq(Part) /\ Len(p) = Len(parts) + 1 /\ p[Len(parts) + 1] = k
        /\ DOMAIN parts = 1..Len(parts) /\ DOMAIN p = 1..Len(parts) + 1
        /\ \A i \in 1..Len(parts) : p[i] = parts[i]
    BY <1>1, <1>2, AppendAt
  <2> HIDE DEF p
  <2> QED BY <1>2, <2>1
<1>5. PICK said : said = Texts(p) /\ said \in Seq(Nat)
  BY <1>3
<1>6. \E front \in Seq(OutItem), last \in OutItem :
        /\ its = Append(front, last) /\ last.kind = "message"
        /\ FlattenSeq(DeltasOf(closed)) = FlattenSeq(DeltasOf(front)) \o last.deltas
        /\ CallsAmong(Streamed(closed)) = CallsAmong(Streamed(front))
        /\ CallsOf(parts) = <<>> => front = <<>>
  <2>1. CASE open
    <3>1. items # <<>> /\ items[Len(items)].kind = "message" /\ its = items
      BY <2>1 DEF Streaming
    <3>2. PICK front \in Seq(OutItem) : items = Append(front, items[Len(items)])
      BY <1>1, <3>1, AllButLast
    <3>3. PICK last : last = items[Len(items)]
      OBVIOUS
    <3>4. last \in OutItem
      <4>1. Len(items) \in 1..Len(items)
        BY <1>1, <3>1, LenProperties, EmptySeq
      <4> QED BY <1>1, <3>3, <4>1, ElementOfSeq
    <3>5. closed = Append(front, [last EXCEPT !.done = Texts(parts)])
          /\ [last EXCEPT !.done = Texts(parts)] \in OutItem
      <4>1. PICK t \in Seq(Nat) : t = Texts(parts)
        BY <1>3
      <4>2. LastDone(Append(front, last), t) = Append(front, [last EXCEPT !.done = t])
            /\ [last EXCEPT !.done = t] \in OutItem
        BY <3>4, LastDoneIs
      <4>3. closed = LastDone(items, Texts(parts)) /\ items = Append(front, last)
        BY <2>1, <3>2, <3>3 DEF closed, ClosedItems
      <4> QED BY <4>1, <4>2, <4>3
    <3>6. PICK ended \in OutItem : ended = [last EXCEPT !.done = Texts(parts)]
      BY <3>5
    <3>7. ended.kind = "message" /\ ended.deltas = last.deltas
      BY <3>1, <3>3, <3>4, <3>6 DEF OutItem
    <3>8. /\ FlattenSeq(DeltasOf(closed)) = FlattenSeq(DeltasOf(front)) \o last.deltas
          /\ CallsAmong(Streamed(closed)) = CallsAmong(Streamed(front))
      BY <3>5, <3>6, <3>7, ItemAppend
    <3>9. ASSUME CallsOf(parts) = <<>> PROVE front = <<>>
      <4>1. parts # <<>>
        <5>1. closed # <<>>
          <6>1. Len(closed) = Len(front) + 1 /\ Len(front) \in Nat /\ Len(<<>>) = 0
            BY <3>5, <3>6, AppendProperties, LenProperties
          <6> QED BY <6>1
        <5> QED BY <1>1, <5>1 DEF Exact
      <4>2. Len(items) = 1
        BY <3>9, <4>1 DEF Streaming
      <4>3. Len(items) = Len(front) + 1 /\ Len(front) \in Nat
        <5>1. items = Append(front, last)
          BY <3>2, <3>3
        <5> QED BY <3>4, <5>1, AppendAt
      <4> QED BY <4>2, <4>3, NoItems
    <3> QED BY <3>1, <3>2, <3>3, <3>4, <3>8, <3>9
  <2>2. CASE ~open
    <3>1. its = Append(items, NewItem("message")) /\ closed = items
      BY <2>2 DEF closed, ClosedItems
    <3>2. /\ NewItem("message") \in OutItem /\ NewItem("message").kind = "message"
          /\ NewItem("message").deltas = <<>>
      <4>1. <<>> \in Seq(Nat)
        BY EmptySeq
      <4> QED BY <4>1 DEF NewItem, OutItem
    <3>3. FlattenSeq(DeltasOf(items)) \in Seq(Nat)
      BY <1>1, <3>2, ItemAppend
    <3>4. FlattenSeq(DeltasOf(items)) = FlattenSeq(DeltasOf(items)) \o <<>>
      BY <3>3, ConcatEmptySeq
    <3>5. ASSUME CallsOf(parts) = <<>> PROVE items = <<>>
      <4>1. parts = <<>>
        BY <2>2, <3>5 DEF Streaming
      <4> QED BY <1>1, <3>1, <4>1 DEF Exact
    <3>6. PICK last \in OutItem : last = NewItem("message")
      BY <3>2
    <3>7. /\ its = Append(items, last) /\ last.kind = "message"
          /\ FlattenSeq(DeltasOf(closed)) = FlattenSeq(DeltasOf(items)) \o last.deltas
      BY <3>1, <3>2, <3>4, <3>6
    <3> QED BY <1>1, <3>1, <3>5, <3>7
  <2> QED BY <2>1, <2>2
<1>7. PICK front \in Seq(OutItem), last \in OutItem :
        /\ its = Append(front, last) /\ last.kind = "message"
        /\ FlattenSeq(DeltasOf(closed)) = FlattenSeq(DeltasOf(front)) \o last.deltas
        /\ CallsAmong(Streamed(closed)) = CallsAmong(Streamed(front))
        /\ CallsOf(parts) = <<>> => front = <<>>
  BY <1>6
<1>8. PICK grown \in OutItem : grown = [last EXCEPT !.deltas = Append(last.deltas, n)]
  BY <1>2, LastDeltaIs
<1>9. LastDelta(its, n) = Append(front, grown)
  <2>1. LastDelta(Append(front, last), n) =
          Append(front, [last EXCEPT !.deltas = Append(last.deltas, n)])
    BY <1>2, LastDeltaIs
  <2> QED BY <1>7, <1>8, <2>1
<1>10. PICK ended \in OutItem : ended = [grown EXCEPT !.done = said]
  <2>1. said \in Seq(Nat)
    BY <1>5
  <2> QED BY <2>1, LastDoneIs
<1>11. LastDone(Append(front, grown), said) = Append(front, ended)
  <2>1. said \in Seq(Nat)
    BY <1>5
  <2>2. LastDone(Append(front, grown), said) = Append(front, [grown EXCEPT !.done = said])
    BY <2>1, LastDoneIs
  <2> QED BY <1>10, <2>2
<1>12. /\ grown.kind = "message" /\ ended.kind = "message" /\ last.deltas \in Seq(Nat)
       /\ ended.deltas = Append(last.deltas, n) /\ ended.done = said
  <2>1. grown.kind = "message" /\ grown.deltas = Append(last.deltas, n) /\ last.deltas \in Seq(Nat)
    BY <1>7, <1>8 DEF OutItem
  <2> QED BY <1>10, <2>1 DEF OutItem
<1>13. PICK new : new = Append(front, ended)
  OBVIOUS
<1>14. ClosedItems(p, LastDelta(its, n), TRUE) = new
  BY <1>5, <1>9, <1>11, <1>13 DEF ClosedItems
<1>15. /\ new \in Seq(OutItem) /\ Streamed(front) \in Seq(Says)
       /\ Streamed(new) = Append(Streamed(front), ItemSays(ended))
       /\ FlattenSeq(DeltasOf(front)) \in Seq(Nat)
       /\ FlattenSeq(DeltasOf(new)) = FlattenSeq(DeltasOf(front)) \o Append(last.deltas, n)
       /\ CallsAmong(Streamed(new)) = CallsAmong(Streamed(front))
  <2>1. "message" # "call"
    OBVIOUS
  <2>2. ended.kind # "call"
    BY <1>12, <2>1
  <2>3. /\ new \in Seq(OutItem) /\ Streamed(front) \in Seq(Says)
        /\ Streamed(new) = Append(Streamed(front), ItemSays(ended))
        /\ FlattenSeq(DeltasOf(front)) \in Seq(Nat)
        /\ FlattenSeq(DeltasOf(new)) = FlattenSeq(DeltasOf(front)) \o ended.deltas
    BY <1>13, ItemAppend
  <2>4. CallsAmong(Streamed(new)) = CallsAmong(Streamed(front))
    BY <1>13, <2>2, ItemAppend
  <2> QED BY <1>12, <2>3, <2>4
<1>16. FlattenSeq(DeltasOf(new)) = Places(p)
  <2>1. FlattenSeq(DeltasOf(closed)) = Places(parts)
    BY <1>1 DEF Exact
  <2>2. PICK a \in Seq(Nat) : a = FlattenSeq(DeltasOf(front))
    BY <1>15
  <2>3. PICK b \in Seq(Nat) : b = last.deltas
    BY <1>12
  <2>4. a \o Append(b, n) = Append(a \o b, n)
    BY <1>2, ConcatAppend
  <2>5. Append(a \o b, n) = Places(p)
    BY <1>3, <1>7, <2>1, <2>2, <2>3
  <2> QED BY <1>15, <2>2, <2>3, <2>4, <2>5
<1>17. CallsAmong(Streamed(new)) = ObjectCalls(p)
  BY <1>1, <1>3, <1>7, <1>15 DEF Exact, ObjectCalls
<1>18. ASSUME ~TextAfterCall(p) PROVE Streamed(new) = RawObject(p)
  <2>1. CallsOf(parts) = <<>>
    <3>1. ASSUME NEW i \in DOMAIN parts, parts[i] = "call" PROVE FALSE
      <4>1. i \in DOMAIN p /\ i < n /\ p[i] = "call"
        BY <1>2, <1>4, <3>1
      <4> QED BY <1>2, <1>4, <1>18, <4>1 DEF TextAfterCall
    <3> QED BY <1>1, <3>1 DEF Exact
  <2>2. front = <<>>
    BY <1>7, <2>1
  <2>3. Streamed(new) = <<ItemSays(ended)>>
    <3>1. Streamed(front) = <<>>
      BY <2>2 DEF Streamed
    <3> QED BY <1>15, <3>1
  <2>4. ItemSays(ended) = [kind |-> "message", text |-> said]
    BY <1>12 DEF ItemSays
  <2>5. ObjectCalls(p) = <<>>
    BY <1>3, <1>4, <2>1, ObjectShape
  <2>6. RawObject(p) = <<[kind |-> "message", text |-> said]>> \o <<>>
    BY <1>3, <1>5, <2>1, <2>5 DEF RawObject
  <2> QED BY <2>3, <2>4, <2>6
<1>19. Texts(p) # <<>>
  <2>1. Len(Texts(p)) = Len(Texts(parts)) + 1 /\ Len(Texts(parts)) \in Nat /\ Len(<<>>) = 0
    BY <1>2, <1>3, AppendProperties, LenProperties
  <2> QED BY <2>1
<1>20. new # <<>> /\ Append(front, grown) # <<>> /\ Len(Append(front, grown)) = Len(front) + 1
       /\ Append(front, grown) \in Seq(OutItem) /\ Append(front, grown)[Len(front) + 1] = grown
  <2>1. /\ Len(new) = Len(front) + 1 /\ Len(front) \in Nat /\ Len(<<>>) = 0
        /\ Len(Append(front, grown)) = Len(front) + 1 /\ Append(front, grown) \in Seq(OutItem)
        /\ Append(front, grown)[Len(front) + 1] = grown
    BY <1>13, AppendAt
  <2> QED BY <2>1
<1>21. CallsOf(p) # <<>> => \E i \in DOMAIN p : p[i] = "call"
  <2>1. ASSUME NEW i \in DOMAIN parts, parts[i] = "call" PROVE i \in DOMAIN p /\ p[i] = "call"
    BY <1>2, <1>4, <2>1
  <2> QED BY <1>1, <1>3, <2>1 DEF Exact
<1>25. CallsOf(p) # <<>> => TextAfterCall(p)
  <2>1. ASSUME NEW i \in DOMAIN parts, parts[i] = "call" PROVE TextAfterCall(p)
    <3>1. i \in DOMAIN p /\ i < n /\ p[i] = "call" /\ p[n] # "call"
      BY <1>2, <1>4, <2>1
    <3> QED BY <1>4, <3>1 DEF TextAfterCall
  <2> QED BY <1>1, <1>3, <2>1 DEF Exact
<1>22. Exact(p, new)
  <2> HIDE DEF p
  <2> QED BY <1>4, <1>15, <1>16, <1>17, <1>18, <1>19, <1>20, <1>21 DEF Exact
<1>23. CallsOf(p) = <<>> => Len(Append(front, grown)) = 1
  BY <1>3, <1>7, <1>20
<1> HIDE DEF p
<1>24. Streaming(p, LastDelta(its, n), TRUE)
  BY <1>9, <1>12, <1>14, <1>20, <1>22, <1>23, <1>25 DEF Streaming
<1> QED BY <1>24 DEF p

\* What was streamed, beside the response.
Reported(parts, items) ==
  /\ FlattenSeq(DeltasOf(items)) = Places(parts)
  /\ CallsAmong(Streamed(items)) = ObjectCalls(parts)
  /\ items[Len(items)].kind = "message" => items[Len(items)].done = FinalContent(parts)
  /\ ~TextAfterCall(parts) /\ (CallsOf(parts) = <<>> \/ FinalContent(parts) = Texts(parts))
       => Streamed(items) = Object(parts)

\* The end closes an open message with what is left without the thinking.
LEMMA EndStreams ==
  ASSUME NEW parts, NEW items, NEW open, Streaming(parts, items, open), items # <<>>
  PROVE  Reported(parts, IF open THEN LastDone(items, FinalContent(parts)) ELSE items)
<1>1. parts \in Seq(Part) /\ items \in Seq(OutItem) /\ Places(parts) \in Seq(Nat)
  <2>1. parts \in Seq(Part) /\ items \in Seq(OutItem)
    BY DEF Streaming, Exact
  <2> QED BY <2>1, PlacesTyped
<1>2. CASE ~open
  <2>1. Exact(parts, items) /\ items[Len(items)].kind = "call"
    BY <1>2 DEF Streaming, ClosedItems
  <2>2. parts # <<>> /\ "call" # "message"
    BY <2>1 DEF Exact
  <2>3. CallsOf(parts) # <<>>
    BY <1>2, <2>2 DEF Streaming
  <2>4. ASSUME ~TextAfterCall(parts), FinalContent(parts) = Texts(parts)
        PROVE  Streamed(items) = Object(parts)
    <3>1. Streamed(items) = RawObject(parts)
      BY <2>1, <2>2, <2>4 DEF Exact
    <3> QED BY <2>4, <3>1 DEF RawObject, Object
  <2> QED BY <1>2, <2>1, <2>2, <2>3, <2>4 DEF Reported, Exact
<1>3. CASE open
  <2>1. items[Len(items)].kind = "message"
    BY <1>3 DEF Streaming
  <2>2. PICK front \in Seq(OutItem) : items = Append(front, items[Len(items)])
    BY <1>1, AllButLast
  <2>3. PICK last \in OutItem : last = items[Len(items)]
    <3>1. Len(items) \in 1..Len(items)
      BY <1>1, LenProperties, EmptySeq
    <3> QED BY <1>1, <3>1, ElementOfSeq
  <2>4. PICK whole \in Seq(Nat) : whole = Texts(parts)
    <3> QED BY <1>1, PlacesTyped
  <2>5. PICK final \in Seq(Nat) : final = FinalContent(parts)
    BY <1>1, SelectType DEF FinalContent
  <2>6. PICK raw \in OutItem : raw = [last EXCEPT !.done = whole]
    BY LastDoneIs
  <2>7. PICK ended \in OutItem : ended = [last EXCEPT !.done = final]
    BY LastDoneIs
  <2>8. /\ raw.kind = "message" /\ ended.kind = "message" /\ ended.done = final
        /\ raw.deltas = last.deltas /\ ended.deltas = last.deltas
    BY <2>1, <2>3, <2>6, <2>7 DEF OutItem
  <2>9. LastDone(items, whole) = Append(front, raw) /\ LastDone(items, final) = Append(front, ended)
    <3>1. LastDone(Append(front, last), whole) = Append(front, [last EXCEPT !.done = whole])
          /\ LastDone(Append(front, last), final) = Append(front, [last EXCEPT !.done = final])
      BY LastDoneIs
    <3> QED BY <2>2, <2>3, <2>6, <2>7, <3>1
  <2>10. PICK old, new : old = Append(front, raw) /\ new = Append(front, ended)
    OBVIOUS
  <2>11. Exact(parts, old)
    BY <1>3, <2>4, <2>9, <2>10 DEF Streaming, ClosedItems
  <2>12. /\ FlattenSeq(DeltasOf(old)) = FlattenSeq(DeltasOf(front)) \o last.deltas
         /\ FlattenSeq(DeltasOf(new)) = FlattenSeq(DeltasOf(front)) \o last.deltas
         /\ CallsAmong(Streamed(old)) = CallsAmong(Streamed(front))
         /\ CallsAmong(Streamed(new)) = CallsAmong(Streamed(front))
         /\ Streamed(new) = Append(Streamed(front), ItemSays(ended))
    <3>1. "message" # "call"
      OBVIOUS
    <3> QED BY <2>8, <2>10, <3>1, ItemAppend
  <2>13. FlattenSeq(DeltasOf(new)) = Places(parts) /\ CallsAmong(Streamed(new)) = ObjectCalls(parts)
    BY <2>11, <2>12 DEF Exact
  <2>14. Len(new) = Len(front) + 1 /\ new[Len(new)] = ended
    BY <2>10, AppendAt
  <2>15. ASSUME ~TextAfterCall(parts) PROVE Streamed(new) = Object(parts)
    <3>1. CallsOf(parts) = <<>>
      BY <1>3, <2>15 DEF Streaming
    <3>2. old # <<>>
      <4>1. Len(old) = Len(front) + 1 /\ Len(front) \in Nat /\ Len(<<>>) = 0
        BY <2>10, AppendAt
      <4> QED BY <4>1
    <3>3. parts # <<>>
      BY <2>11, <3>2 DEF Exact
    <3>4. Len(items) = 1
      BY <3>1, <3>3 DEF Streaming
    <3>5. Len(items) = Len(front) + 1 /\ Len(front) \in Nat
      <4>1. items = Append(front, last)
        BY <2>2, <2>3
      <4> QED BY <4>1, AppendAt
    <3>7. front = <<>>
      BY <3>4, <3>5, NoItems
    <3>8. Streamed(front) = <<>>
      BY <3>7 DEF Streamed
    <3>9. Streamed(new) = <<ItemSays(ended)>>
      BY <2>12, <3>8
    <3>10. ItemSays(ended) = [kind |-> "message", text |-> final]
      BY <2>8 DEF ItemSays
    <3>11. ObjectCalls(parts) = <<>>
      BY <1>1, <3>1, ObjectShape
    <3>12. Object(parts) = <<[kind |-> "message", text |-> final]>> \o <<>>
      BY <2>5, <3>1, <3>11 DEF Object
    <3> QED BY <3>9, <3>10, <3>12
  <2>16. Reported(parts, new)
    BY <2>5, <2>8, <2>13, <2>14, <2>15 DEF Reported
  <2> QED BY <1>3, <2>5, <2>9, <2>10, <2>16
<1> QED BY <1>2, <1>3

-----------------------------------------------------------------------------
(* Every request, at each of its places.                                   *)

Answering(q) ==
  /\ q.pc = "load" => q.parts = <<>> /\ q.items = <<>> /\ q.open = FALSE
  /\ q.pc = "stream" /\ q.stream => Streaming(q.parts, q.items, q.open)
  /\ q.pc = "stream" /\ ~q.stream => q.items = <<>> /\ q.open = FALSE
  /\ q.pc \in {"write", "rename", "complete"} => q.items = <<>> \/ Reported(q.parts, q.items)

\* The inductive invariant: the items of every request are those of its pieces.
StreamInv == Shaped /\ \A c \in Client : Answering(respReq[c])

LEMMA NothingStreamed == Streaming(<<>>, <<>>, FALSE)
<1>1. Places(<<>>) = <<>>
  BY DEF Places
<1>2. Texts(<<>>) = <<>> /\ CallsOf(<<>>) = <<>>
  BY <1>1, SelectEmpty DEF Texts, CallsOf
<1>3. ObjectCalls(<<>>) = <<>>
  BY <1>2, ObjectShape, EmptySeq
<1>4. Streamed(<<>>) = <<>> /\ DeltasOf(<<>>) = <<>>
  BY DEF Streamed, DeltasOf
<1>5. CallsAmong(<<>>) = <<>>
  BY SelectEmpty DEF CallsAmong
<1>6. FlattenSeq(<<>>) = <<>>
  BY FlattenEmpty
<1>7. <<>> \in Seq(Part) /\ <<>> \in Seq(OutItem)
  BY EmptySeq
<1>8. Exact(<<>>, <<>>)
  BY <1>1, <1>2, <1>3, <1>4, <1>5, <1>6, <1>7 DEF Exact
<1>9. ClosedItems(<<>>, <<>>, FALSE) = <<>>
  BY DEF ClosedItems
<1> QED BY <1>7, <1>8, <1>9 DEF Streaming

\* A step that puts a request in the place of c keeps the others.
LEMMA PutAnswers ==
  ASSUME StreamInv, NEW c \in Client, NEW q, DOMAIN q = Fields, Put(c, q), Answering(q)
  PROVE  StreamInv'
<1>1. Shaped' /\ respReq'[c] = q /\ \A d \in Client : d # c => respReq'[d] = respReq[d]
  BY PutMoves DEF StreamInv
<1>2. ASSUME NEW d \in Client PROVE Answering(respReq'[d])
  <2>1. CASE d = c
    BY <1>1, <2>1
  <2>2. CASE d # c
    <3>1. respReq'[d] = respReq[d] /\ Answering(respReq[d])
      BY <1>1, <2>2 DEF StreamInv
    <3> QED BY <3>1
  <2> QED BY <2>1, <2>2
<1> QED BY <1>1, <1>2 DEF StreamInv

LEMMA IdleAnswers == Answering(IdleReq) /\ DOMAIN IdleReq = Fields
<1>1. IdleReq.pc = "idle"
  BY DEF IdleReq
<1> QED BY <1>1, IdleFields DEF Answering

LEMMA TextAnswers ==
  ASSUME StreamInv, NEW c \in Client, OnResponseText(c)
  PROVE  StreamInv'
<1>1. PICK r : r = respReq[c]
  OBVIOUS
<1>2. DOMAIN r = Fields /\ r.pc = "stream" /\ r.stream /\ Streaming(r.parts, r.items, r.open)
  BY <1>1 DEF OnResponseText, More, Receives, ReqAt, StreamInv, Shaped, Answering
<1>3. PICK its : its = IF r.open THEN r.items ELSE Append(r.items, NewItem("message"))
  OBVIOUS
<1>4. PICK n : n = Len(r.parts) + 1
  OBVIOUS
<1>0. PICK k \in Part \ {"call"} :
        Put(c, [respReq[c] EXCEPT !.parts = Append(@, k), !.open = TRUE,
                  !.items = LastDelta(IF respReq[c].open THEN respReq[c].items
                                      ELSE Append(respReq[c].items, NewItem("message")), NextPart(c))])
  BY DEF OnResponseText
<1>5. PICK parts, items : parts = Append(r.parts, k) /\ items = LastDelta(its, n)
  OBVIOUS
<1>6. Streaming(parts, items, TRUE)
  <2>1. PICK ps, is, o : ps = r.parts /\ is = r.items /\ o = r.open
    OBVIOUS
  <2>2. /\ Streaming(ps, is, o) /\ n = Len(ps) + 1 /\ n \in Nat
        /\ (o => its = is) /\ (~o => its = Append(is, NewItem("message")))
    <3>1. ps \in Seq(Part)
      BY <1>2, <2>1 DEF Streaming, Exact
    <3> QED BY <1>2, <1>3, <1>4, <2>1, <3>1, LenProperties
  <2>3. Streaming(Append(ps, k), LastDelta(its, n), TRUE)
    BY <2>2, TextStreams, Zenon
  <2> QED BY <1>5, <2>1, <2>3
<1>7. PICK q : q = [r EXCEPT !.parts = parts, !.open = TRUE, !.items = items]
  OBVIOUS
<1>8. Put(c, q)
  BY <1>0, <1>1, <1>3, <1>4, <1>5, <1>7 DEF NextPart
<1>9. /\ DOMAIN q = Fields /\ q.pc = "stream" /\ q.stream = r.stream
      /\ q.parts = parts /\ q.items = items /\ q.open = TRUE
  BY <1>2, <1>7 DEF Fields
<1>10. Answering(q)
  BY <1>2, <1>6, <1>9 DEF Answering
<1> QED BY <1>8, <1>9, <1>10, PutAnswers

LEMMA CallAnswers ==
  ASSUME StreamInv, NEW c \in Client, OnResponseCall(c)
  PROVE  StreamInv'
<1>1. PICK r : r = respReq[c]
  OBVIOUS
<1>2. DOMAIN r = Fields /\ r.pc = "stream" /\ r.stream /\ Streaming(r.parts, r.items, r.open)
  BY <1>1 DEF OnResponseCall, More, Receives, ReqAt, StreamInv, Shaped, Answering
<1>3. PICK closed : closed = ClosedItems(r.parts, r.items, r.open)
  OBVIOUS
<1>4. PICK n : n = Len(r.parts) + 1
  OBVIOUS
<1>5. Exact(r.parts, closed)
  BY <1>2, <1>3 DEF Streaming
<1>6. n \in Nat
  BY <1>4, <1>5, LenProperties DEF Exact
<1>7. PICK it : it = [kind |-> "call", deltas |-> <<n>>, done |-> <<>>]
  OBVIOUS
<1>8. LastDelta(<<NewItem("call")>>, n)[1] = it
  <2>1. PICK new : new = NewItem("call")
    OBVIOUS
  <2>2. new \in OutItem /\ new = [kind |-> "call", deltas |-> <<>>, done |-> <<>>]
    BY <2>1, EmptySeq DEF NewItem, OutItem
  <2>3. <<>> \in Seq(OutItem) /\ <<>> \in Seq(Nat)
    BY EmptySeq
  <2>a. new \in OutItem
    BY <2>2
  <2>4. LastDelta(Append(<<>>, new), n) = Append(<<>>, [new EXCEPT !.deltas = Append(new.deltas, n)])
    <3>1. PICK front \in Seq(OutItem), said \in Seq(Nat) : front = <<>> /\ said = <<>>
      BY <2>3
    <3>2. LastDelta(Append(front, new), n) =
            Append(front, [new EXCEPT !.deltas = Append(new.deltas, n)])
      BY <1>6, <2>a, LastItem
    <3> HIDE DEF OutItem
    <3> QED BY <3>1, <3>2, Zenon
  <2>5. [new EXCEPT !.deltas = Append(new.deltas, n)] = it
    BY <1>7, <2>2
  <2> QED BY <2>1, <2>4, <2>5
<1>9. PICK parts, items : parts = Append(r.parts, "call") /\ items = Append(closed, it)
  OBVIOUS
<1>10. Exact(parts, items) /\ CallsOf(parts) # <<>>
  BY <1>4, <1>5, <1>7, <1>9, CallStreams
<1>11. Streaming(parts, items, FALSE)
  <2>1. closed \in Seq(OutItem) /\ it \in OutItem
    BY <1>5, <1>6, <1>7, EmptySeq DEF Exact, OutItem
  <2>2. Len(items) = Len(closed) + 1 /\ items[Len(items)] = it
    BY <1>9, <2>1, AppendAt
  <2>3. items[Len(items)].kind = "call"
    BY <1>7, <2>2
  <2> QED BY <1>10, <2>3 DEF Streaming, ClosedItems, Exact
<1>12. PICK q : q = [r EXCEPT !.parts = parts, !.open = FALSE, !.items = items]
  OBVIOUS
<1>13. Put(c, q)
  <2>1. PICK its : its = IF r.open THEN LastDone(r.items, FullText(c)) ELSE r.items
    OBVIOUS
  <2>2. its = closed
    BY <1>1, <1>3, <2>1 DEF FullText, ClosedItems
  <2> QED BY <1>1, <1>4, <1>8, <1>9, <1>12, <2>1, <2>2 DEF OnResponseCall, NextPart
<1>14. /\ DOMAIN q = Fields /\ q.pc = "stream" /\ q.stream = r.stream
       /\ q.parts = parts /\ q.items = items /\ q.open = FALSE
  BY <1>2, <1>12 DEF Fields
<1>15. Answering(q)
  BY <1>2, <1>11, <1>14 DEF Answering
<1> QED BY <1>13, <1>14, <1>15, PutAnswers

LEMMA EndAnswers ==
  ASSUME StreamInv, NEW c \in Client, StreamEnds(c)
  PROVE  StreamInv'
<1>1. PICK r : r = respReq[c]
  OBVIOUS
<1>2. DOMAIN r = Fields /\ r.pc = "stream" /\ Answering(r)
  BY <1>1 DEF StreamEnds, ReqAt, StreamInv, Shaped
<1>3. PICK pc, items : /\ pc = IF r.store THEN "write" ELSE "complete"
                       /\ items = IF r.open THEN LastDone(r.items, FinalContent(r.parts)) ELSE r.items
  OBVIOUS
<1>4. PICK q : q = [r EXCEPT !.pc = pc, !.items = items, !.chain = <<>>, !.tries = 0]
  OBVIOUS
<1>5. Put(c, q)
  BY <1>1, <1>3, <1>4 DEF StreamEnds
<1>6. DOMAIN q = Fields /\ q.pc = pc /\ q.items = items /\ q.parts = r.parts
  BY <1>2, <1>4 DEF Fields
<1>7. items = <<>> \/ Reported(r.parts, items)
  <2>1. CASE r.stream
    <3>1. Streaming(r.parts, r.items, r.open)
      BY <1>2, <2>1 DEF Answering
    <3>2. r.items = <<>> => ~r.open
      BY <3>1 DEF Streaming
    <3> QED BY <1>3, <3>1, <3>2, EndStreams
  <2>2. CASE ~r.stream
    BY <1>2, <1>3, <2>2 DEF Answering
  <2> QED BY <2>1, <2>2
<1>8. Answering(q)
  BY <1>3, <1>6, <1>7 DEF Answering
<1> QED BY <1>5, <1>6, <1>8, PutAnswers

LEMMA FailAnswers ==
  ASSUME StreamInv, NEW c \in Client, ResponseFails(c)
  PROVE  StreamInv'
<1>1. CASE Put(c, IdleReq)
  BY <1>1, IdleAnswers, PutAnswers
<1>2. CASE /\ respReq[c].items = <<>>
           /\ Put(c, [respReq[c] EXCEPT !.tries = @ + 1, !.parts = <<>>])
  <2>1. PICK r : r = respReq[c]
    OBVIOUS
  <2>2. PICK n, q : Put(c, q) /\ q = [r EXCEPT !.tries = n, !.parts = <<>>]
    BY <1>2, <2>1
  <2>3. DOMAIN r = Fields /\ r.pc = "stream" /\ Answering(r) /\ r.items = <<>>
    BY <1>2, <2>1 DEF ResponseFails, ReqAt, StreamInv, Shaped
  <2>4. /\ DOMAIN q = Fields /\ q.pc = "stream" /\ q.stream = r.stream
        /\ q.items = <<>> /\ q.parts = <<>> /\ q.open = r.open
    BY <2>2, <2>3 DEF Fields
  <2>5. CASE r.stream
    <3>1. Streaming(r.parts, <<>>, r.open)
      BY <2>3, <2>5 DEF Answering
    <3>2. ~r.open
      BY <3>1 DEF Streaming
    <3>3. ClosedItems(<<>>, <<>>, r.open) = ClosedItems(<<>>, <<>>, FALSE)
      BY <3>2 DEF ClosedItems
    <3>4. Streaming(<<>>, <<>>, r.open)
      BY <3>2, <3>3, NothingStreamed DEF Streaming
    <3>5. Answering(q)
      BY <2>4, <2>5, <3>4 DEF Answering
    <3> QED BY <2>2, <2>4, <3>5, PutAnswers
  <2>6. CASE ~r.stream
    <3>1. Answering(q)
      BY <2>3, <2>4, <2>6 DEF Answering
    <3> QED BY <2>2, <2>4, <3>1, PutAnswers
  <2> QED BY <2>5, <2>6
<1> QED BY <1>1, <1>2 DEF ResponseFails

\* The steps that leave what was received as it is, and those that only collect.
LEMMA OthersAnswer ==
  ASSUME StreamInv, NEW c \in Client,
         handleOpenAIResponses(c) \/ LoadAncestor(c) \/ AskKiro(c) \/ Collect(c)
           \/ WriteTmp(c) \/ RenameTmp(c) \/ SaveFails(c) \/ Complete(c)
  PROVE  StreamInv'
<1>1. PICK r : r = respReq[c]
  OBVIOUS
<1>2. DOMAIN r = Fields /\ Answering(r)
  BY <1>1 DEF StreamInv, Shaped
<1>3. CASE handleOpenAIResponses(c)
  <2>1. PICK id, store, stream, chain :
          Put(c, [IdleReq EXCEPT !.pc = "load", !.id = id, !.store = store,
                                 !.stream = stream, !.chain = chain])
    BY <1>3 DEF handleOpenAIResponses
  <2>2. PICK q : q = [IdleReq EXCEPT !.pc = "load", !.id = id, !.store = store,
                                     !.stream = stream, !.chain = chain]
    OBVIOUS
  <2>3. IdleReq.parts = <<>> /\ IdleReq.items = <<>> /\ IdleReq.open = FALSE
    BY DEF IdleReq
  <2>4. DOMAIN q = Fields /\ q.pc = "load" /\ q.parts = <<>> /\ q.items = <<>> /\ q.open = FALSE
    BY <2>2, <2>3, IdleFields DEF Fields
  <2>5. Answering(q)
    BY <2>4 DEF Answering
  <2> QED BY <2>1, <2>2, <2>4, <2>5, PutAnswers
<1>4. CASE LoadAncestor(c)
  <2>1. PICK chain, q : Put(c, q) /\ q = [r EXCEPT !.chain = chain]
    BY <1>1, <1>4 DEF LoadAncestor
  <2>2. /\ DOMAIN q = Fields /\ q.pc = r.pc /\ q.stream = r.stream /\ q.parts = r.parts
        /\ q.items = r.items /\ q.open = r.open
    BY <1>2, <2>1 DEF Fields
  <2>3. Answering(q)
    BY <1>2, <2>2 DEF Answering
  <2> QED BY <2>1, <2>2, <2>3, PutAnswers
<1>5. ASSUME NEW pc, Put(c, [r EXCEPT !.pc = pc]),
             \/ pc = "stream" /\ r.pc = "load"
             \/ pc \in {"rename", "complete"} /\ r.pc \in {"write", "rename"}
      PROVE  StreamInv'
  <2>1. PICK q : q = [r EXCEPT !.pc = pc]
    OBVIOUS
  <2>2. /\ DOMAIN q = Fields /\ q.pc = pc /\ q.stream = r.stream /\ q.parts = r.parts
        /\ q.items = r.items /\ q.open = r.open
    BY <1>2, <2>1 DEF Fields
  <2>3. CASE pc = "stream" /\ r.pc = "load"
    <3>1. q.parts = <<>> /\ q.items = <<>> /\ q.open = FALSE
      BY <1>2, <2>2, <2>3 DEF Answering
    <3>2. Answering(q)
      BY <2>2, <2>3, <3>1, NothingStreamed DEF Answering
    <3> QED BY <1>5, <2>1, <2>2, <3>2, PutAnswers
  <2>4. CASE pc \in {"rename", "complete"} /\ r.pc \in {"write", "rename"}
    <3>1. Answering(q)
      BY <1>2, <2>2, <2>4 DEF Answering
    <3> QED BY <1>5, <2>1, <2>2, <3>1, PutAnswers
  <2> QED BY <1>5, <2>3, <2>4
<1>6. CASE AskKiro(c)
  BY <1>1, <1>5, <1>6 DEF AskKiro, ReqAt
<1>7. CASE WriteTmp(c)
  BY <1>1, <1>5, <1>7 DEF WriteTmp, ReqAt
<1>8. CASE RenameTmp(c)
  BY <1>1, <1>5, <1>8 DEF RenameTmp, ReqAt
<1>9. CASE SaveFails(c)
  BY <1>1, <1>5, <1>9 DEF SaveFails
<1>10. CASE Collect(c)
  <2>1. PICK parts, q : Put(c, q) /\ q = [r EXCEPT !.parts = parts]
    BY <1>1, <1>10 DEF Collect
  <2>2. r.pc = "stream" /\ ~r.stream
    BY <1>1, <1>10 DEF Collect, Receives, ReqAt
  <2>3. /\ DOMAIN q = Fields /\ q.pc = r.pc /\ q.stream = r.stream
        /\ q.items = r.items /\ q.open = r.open
    BY <1>2, <2>1 DEF Fields
  <2>4. Answering(q)
    BY <1>2, <2>2, <2>3 DEF Answering
  <2> QED BY <2>1, <2>3, <2>4, PutAnswers
<1>11. CASE Complete(c)
  BY <1>11, IdleAnswers, PutAnswers DEF Complete
<1> QED BY <1>3, <1>4, <1>6, <1>7, <1>8, <1>9, <1>10, <1>11

LEMMA StreamInvStep == StreamInv /\ [ResponsesNext]_respVars => StreamInv'
<1> SUFFICES ASSUME StreamInv, [ResponsesNext]_respVars PROVE StreamInv'
  OBVIOUS
<1>1. CASE \/ \E r \in RespId : ResponseExpires(r)
           \/ UNCHANGED respVars
  <2>1. respReq' = respReq
    BY <1>1 DEF ResponseExpires, respVars
  <2> QED BY <2>1 DEF StreamInv, Shaped
<1>2. CASE ResponsesCrash
  <2>1. respReq' = [c \in Client |-> IdleReq]
    BY <1>2 DEF ResponsesCrash
  <2>2. Shaped'
    BY <2>1, IdleFields DEF Shaped
  <2>3. \A c \in Client : Answering(respReq'[c])
    BY <2>1, IdleAnswers
  <2> QED BY <2>2, <2>3 DEF StreamInv
<1>3. ASSUME NEW c \in Client,
             \/ handleOpenAIResponses(c) \/ LoadAncestor(c) \/ AskKiro(c)
             \/ OnResponseText(c) \/ OnResponseCall(c) \/ Collect(c) \/ ResponseFails(c) \/ StreamEnds(c)
             \/ WriteTmp(c) \/ RenameTmp(c) \/ SaveFails(c) \/ Complete(c)
      PROVE  StreamInv'
  BY <1>3, TextAnswers, CallAnswers, EndAnswers, FailAnswers, OthersAnswer
<1> QED BY <1>1, <1>2, <1>3 DEF ResponsesNext

LEMMA StreamInvIsObject == StreamInv => StreamIsTheObject
<1> SUFFICES ASSUME StreamInv, NEW c \in Client, ReqAt(c, "complete"), respReq[c].items # <<>>
             PROVE  Reported(respReq[c].parts, respReq[c].items)
  BY Zenon DEF StreamIsTheObject, Reported, DeltasOf
<1> QED BY DEF StreamInv, Answering, ReqAt

\* A client was sent every piece once, and the calls of the response it is told and
\* that is stored; a message no call closed says that response's text, and item by item
\* the two are the same as long as no text followed a call and no call closed a message
\* with a thinking or white space around it (buildResponsesObject beside the events of
\* handleResponsesStream): in every order of texts, tags and calls, of any length, with
\* failed accounts before it.
THEOREM StreamedAsReported == ResponsesSpec => []StreamIsTheObject
<1>1. ResponsesInit => StreamInv
  <2> SUFFICES ASSUME ResponsesInit PROVE StreamInv
    OBVIOUS
  <2>1. respReq = [c \in Client |-> IdleReq]
    BY DEF ResponsesInit
  <2>2. Shaped
    BY <2>1, IdleFields DEF Shaped
  <2>3. \A c \in Client : Answering(respReq[c])
    BY <2>1, IdleAnswers
  <2> QED BY <2>2, <2>3 DEF StreamInv
<1> QED BY <1>1, StreamInvStep, StreamInvIsObject, PTL DEF ResponsesSpec

-----------------------------------------------------------------------------
(* Prompt cache: the arithmetic of a prompt.                               *)

\* A set of naturals with a bound has its maximum in it.
LEMMA MaxOf ==
  ASSUME NEW N \in Nat, NEW S, S \subseteq 0..N, S # {}
  PROVE  Max(S) \in S /\ \A d \in S : d <= Max(S)
<1>1. PICK c \in S : \A d \in S : d <= c
  BY GreatestNat
<1>2. \E x \in S : \A y \in S : x >= y
  BY <1>1
<1>3. Max(S) \in S /\ \A y \in S : Max(S) >= y
  BY <1>2 DEF Max
<1> QED BY <1>3

LEMMA MinOf ==
  ASSUME NEW a \in Nat, NEW b \in Nat
  PROVE  Min({a, b}) = IF a <= b THEN a ELSE b
<1>1. \E x \in {a, b} : \A y \in {a, b} : x =< y
  <2>1. CASE a <= b
    BY <2>1
  <2>2. CASE ~(a <= b)
    BY <2>2
  <2> QED BY <2>1, <2>2
<1>2. Min({a, b}) \in {a, b} /\ \A y \in {a, b} : Min({a, b}) =< y
  BY <1>1 DEF Min
<1> QED BY <1>2

LEMMA MaxOfPair ==
  ASSUME NEW a \in Nat, NEW b \in Nat
  PROVE  Max({a, b}) \in Nat /\ Max({a, b}) >= a /\ Max({a, b}) >= b /\ Max({a, b}) \in {a, b}
<1>1. \E x \in {a, b} : \A y \in {a, b} : x >= y
  <2>1. CASE a <= b
    BY <2>1
  <2>2. CASE ~(a <= b)
    BY <2>2
  <2> QED BY <2>1, <2>2
<1>2. Max({a, b}) \in {a, b} /\ \A y \in {a, b} : Max({a, b}) >= y
  BY <1>1 DEF Max
<1> QED BY <1>2

LEMMA PromptTyped ==
  ASSUME NEW prompt \in CachePrompt
  PROVE  /\ Len(prompt) \in Nat /\ DOMAIN prompt = 1..Len(prompt)
         /\ \A i \in 1..Len(prompt) : prompt[i].tokens \in Nat /\ prompt[i].ttl \in Nat
  BY CacheAssumption

\* The tokens up to a block.
LEMMA CumulativeAdds ==
  ASSUME NEW prompt \in CachePrompt
  PROVE  /\ \A n \in 0..Len(prompt) : Cumulative(prompt, n) \in Nat
         /\ Cumulative(prompt, 0) = 0
         /\ \A n \in 1..Len(prompt) :
              Cumulative(prompt, n) = Cumulative(prompt, n - 1) + prompt[n].tokens
<1> DEFINE N == Len(prompt)
           ahead == [n \in 1..N |-> [v \in Nat |-> v + prompt[n].tokens]]
           F(f) == [n \in 0..N |-> IF n = 0 THEN 0 ELSE f[n - 1] + prompt[n].tokens]
           sum == CHOOSE f : f = F(f)
<1>1. N \in Nat /\ \A i \in 1..N : prompt[i].tokens \in Nat
  BY PromptTyped
<1>2. ahead \in [1..N -> [Nat -> Nat]]
  <2>1. \A n \in 1..N, v \in Nat : v + prompt[n].tokens \in Nat
    BY <1>1
  <2> HIDE DEF N
  <2> QED BY <2>1
<1>3. \A n \in 0..N : Cumulative(prompt, n) = sum[n]
  BY DEF Cumulative
<1>4. PICK f \in [0..N -> Nat] : Follows(f, N, 0, ahead)
  <2> HIDE DEF N, ahead
  <2> QED BY <1>1, <1>2, RecursionExists
<1>5. f[0] = 0 /\ \A n \in 1..N : f[n] = f[n - 1] + prompt[n].tokens
  <2>1. f[0] = 0 /\ \A n \in 1..N : f[n] = ahead[n][f[n - 1]]
    BY <1>4 DEF Follows
  <2>2. \A n \in 1..N, v \in Nat : ahead[n][v] = v + prompt[n].tokens
    OBVIOUS
  <2> HIDE DEF ahead, N
  <2>3. \A n \in 1..N : f[n - 1] \in Nat
    BY <1>1
  <2> QED BY <2>1, <2>2, <2>3
<1>6. f = F(f)
  <2> HIDE DEF N, ahead
  <2>1. \A n \in 0..N : f[n] = IF n = 0 THEN 0 ELSE f[n - 1] + prompt[n].tokens
    BY <1>1, <1>5
  <2>2. f = [n \in 0..N |-> f[n]]
    OBVIOUS
  <2> QED BY <2>1, <2>2
<1>7. sum = F(sum)
  BY <1>6
<1> HIDE DEF sum
<1>8. sum[0] = 0 /\ \A n \in 1..N : sum[n] = sum[n - 1] + prompt[n].tokens
  <2> HIDE DEF N, ahead
  <2>1. \A n \in 0..N : sum[n] = IF n = 0 THEN 0 ELSE sum[n - 1] + prompt[n].tokens
    BY <1>7
  <2>2. 0 \in 0..N /\ \A n \in 1..N : n \in 0..N /\ n # 0
    BY <1>1
  <2> QED BY <2>1, <2>2
<1>9. \A n \in 0..N : f[n] = sum[n]
  <2> HIDE DEF N, ahead
  <2>1. Alike(f, sum, N)
    BY <1>5, <1>8 DEF Alike
  <2> QED BY <1>1, <2>1, RecursionAgrees
<1> HIDE DEF ahead
<1>10. \A n \in 0..N : sum[n] \in Nat
  <2> HIDE DEF N
  <2> QED BY <1>9
<1>11. 0 \in 0..N /\ \A n \in 1..N : n \in 0..N /\ n - 1 \in 0..N
  BY <1>1
<1> HIDE DEF N
<1>12. /\ \A n \in 0..N : Cumulative(prompt, n) \in Nat
       /\ Cumulative(prompt, 0) = 0
       /\ \A n \in 1..N : Cumulative(prompt, n) = Cumulative(prompt, n - 1) + prompt[n].tokens
  BY <1>3, <1>8, <1>10, <1>11
<1> QED BY <1>12 DEF N

LEMMA CumulativeGrows ==
  ASSUME NEW prompt \in CachePrompt, NEW i \in 0..Len(prompt), NEW j \in 0..Len(prompt), i <= j
  PROVE  Cumulative(prompt, i) <= Cumulative(prompt, j)
<1> DEFINE T == {n \in Nat : i <= n => Cumulative(prompt, i) <= Cumulative(prompt, n)}
<1>1. /\ Len(prompt) \in Nat /\ \A n \in 0..Len(prompt) : Cumulative(prompt, n) \in Nat
      /\ \A n \in 1..Len(prompt) : prompt[n].tokens \in Nat
      /\ \A n \in 1..Len(prompt) : Cumulative(prompt, n) = Cumulative(prompt, n - 1) + prompt[n].tokens
  BY PromptTyped, CumulativeAdds
<1>2. 0 \in T
  <2>1. i <= 0 => i = 0
    BY <1>1
  <2> QED BY <1>1, <2>1
<1>3. ASSUME NEW n \in 1..Len(prompt), n - 1 \in T PROVE n \in T
  <2>1. CASE i <= n - 1
    <3>1. Cumulative(prompt, i) <= Cumulative(prompt, n - 1)
      BY <1>3, <2>1
    <3>2. Cumulative(prompt, n) = Cumulative(prompt, n - 1) + prompt[n].tokens
      BY <1>1
    <3>3. n \in Nat /\ n - 1 \in 0..Len(prompt) /\ prompt[n].tokens \in Nat
      BY <1>1
    <3>4. Cumulative(prompt, n - 1) \in Nat /\ Cumulative(prompt, i) \in Nat
      BY <1>1, <3>3
    <3>5. Cumulative(prompt, i) <= Cumulative(prompt, n)
      BY <3>1, <3>2, <3>3, <3>4
    <3> QED BY <3>3, <3>5
  <2>2. CASE ~(i <= n - 1)
    <3>1. n \in Nat /\ i \in Nat /\ (i <= n => i = n)
      BY <1>1, <2>2
    <3>2. Cumulative(prompt, i) <= Cumulative(prompt, i)
      BY <1>1
    <3>3. i <= n => Cumulative(prompt, i) <= Cumulative(prompt, n)
      BY <3>1, <3>2
    <3> QED BY <3>1, <3>3
  <2> QED BY <2>1, <2>2
<1> HIDE DEF T
<1>4. \A n \in 0..Len(prompt) : n \in T
  BY <1>1, <1>2, <1>3, BoundedInduction
<1> QED BY <1>4 DEF T

\* Where there is a breakpoint its lifetime is one of the two.
LEMMA BreakpointsOf ==
  ASSUME NEW prompt \in CachePrompt
  PROVE  /\ Breakpoints(prompt) \subseteq 1..Len(prompt)
         /\ Breakpoints(prompt) # {} =>
              /\ Max(Breakpoints(prompt)) \in Breakpoints(prompt)
              /\ \A i \in Breakpoints(prompt) : i <= Max(Breakpoints(prompt))
         /\ \A i \in Breakpoints(prompt) : Active(prompt, i) \in {Brief, Lasting}
<1>1. Breakpoints(prompt) \subseteq 1..Len(prompt) /\ Len(prompt) \in Nat
      /\ \A i \in 1..Len(prompt) : prompt[i].ttl \in Nat
  BY PromptTyped DEF Breakpoints
<1>2. ASSUME Breakpoints(prompt) # {}
      PROVE  /\ Max(Breakpoints(prompt)) \in Breakpoints(prompt)
             /\ \A i \in Breakpoints(prompt) : i <= Max(Breakpoints(prompt))
  <2>1. Breakpoints(prompt) \subseteq 0..Len(prompt)
    BY <1>1
  <2> QED BY <1>1, <1>2, <2>1, MaxOf
<1>3. ASSUME NEW i \in Breakpoints(prompt) PROVE Active(prompt, i) \in {Brief, Lasting}
  <2> DEFINE marked == {j \in 1..i : prompt[j].ttl > 0}
  <2>1. marked # {}
    <3>1. CASE prompt[i].ttl > 0
      BY <1>1, <3>1
    <3>2. CASE ~(prompt[i].ttl > 0)
      <4>1. Active(prompt, i) > 0
        BY <3>2 DEF Breakpoints
      <4>2. marked = {} => Active(prompt, i) = 0
        BY DEF Active
      <4> QED BY <4>1, <4>2
    <3> QED BY <3>1, <3>2
  <2>2. Max(marked) \in marked
    <3>1. marked \subseteq 0..i /\ i \in Nat
      BY <1>1
    <3> HIDE DEF marked
    <3> QED BY <2>1, <3>1, MaxOf
  <2>3. Active(prompt, i) = Lifetime(prompt[Max(marked)].ttl)
    BY <2>1 DEF Active
  <2>4. prompt[Max(marked)].ttl > 0 /\ prompt[Max(marked)].ttl \in Nat
    <3>1. \A j \in marked : j \in 1..Len(prompt) /\ prompt[j].ttl > 0
      BY <1>1
    <3> HIDE DEF marked
    <3> QED BY <1>1, <2>2, <3>1
  <2> HIDE DEF marked
  <2> QED BY <2>3, <2>4 DEF Lifetime
<1> QED BY <1>1, <1>2, <1>3

\* The parts by lifetime, up to a block.
PartSums == [previous: Nat, brief: Nat, lasting: Nat]

SumsAt(prompt, matched, x, n) ==
  /\ x \in PartSums /\ matched <= x.previous /\ x.brief + x.lasting = x.previous - matched
  /\ \A i \in Breakpoints(prompt) : i <= n => Cumulative(prompt, i) <= x.previous
  /\ x.previous = matched \/ \E i \in Breakpoints(prompt) : x.previous = Cumulative(prompt, i)

LEMMA StretchTyped ==
  ASSUME NEW prompt \in CachePrompt, NEW x \in PartSums, NEW n \in 1..Len(prompt)
  PROVE  Stretch(prompt, x, n) \in PartSums
<1> DEFINE upto == Cumulative(prompt, n)
<1>1. upto \in Nat
  BY CumulativeAdds, PromptTyped
<1>2. x.previous \in Nat /\ x.brief \in Nat /\ x.lasting \in Nat
  BY DEF PartSums
<1>3. ASSUME ~(upto <= x.previous)
      PROVE  /\ [previous |-> upto, brief |-> x.brief, lasting |-> x.lasting + (upto - x.previous)] \in PartSums
             /\ [previous |-> upto, brief |-> x.brief + (upto - x.previous), lasting |-> x.lasting] \in PartSums
  <2>1. upto - x.previous \in Nat
    BY <1>1, <1>2, <1>3
  <2> HIDE DEF upto
  <2> QED BY <1>1, <1>2, <2>1 DEF PartSums
<1> QED BY <1>3 DEF Stretch

LEMMA StretchAdds ==
  ASSUME NEW prompt \in CachePrompt, NEW matched \in Nat, NEW n \in 1..Len(prompt), NEW x,
         SumsAt(prompt, matched, x, n - 1)
  PROVE  SumsAt(prompt, matched, Stretch(prompt, x, n), n)
<1> DEFINE upto == Cumulative(prompt, n)
           more == upto - x.previous
<1>1. upto \in Nat /\ n \in Nat /\ Len(prompt) \in Nat
  BY CumulativeAdds, PromptTyped
<1>2. x \in PartSums /\ x.previous \in Nat /\ x.brief \in Nat /\ x.lasting \in Nat
  BY DEF SumsAt, PartSums
<1>3. \A i \in Breakpoints(prompt) :
        /\ i \in Nat /\ Cumulative(prompt, i) \in Nat /\ (i <= n => i <= n - 1 \/ i = n)
  <2>1. ASSUME NEW i \in Breakpoints(prompt)
        PROVE  i \in 1..Len(prompt)
    BY BreakpointsOf
  <2> QED BY <1>1, <2>1, CumulativeAdds
<1>4. CASE n \notin Breakpoints(prompt) \/ upto <= x.previous
  <2>1. Stretch(prompt, x, n) = x
    BY <1>4 DEF Stretch
  <2>2. \A i \in Breakpoints(prompt) : i <= n => Cumulative(prompt, i) <= x.previous
    BY <1>3, <1>4 DEF SumsAt
  <2> QED BY <2>1, <2>2 DEF SumsAt
<1>5. CASE n \in Breakpoints(prompt) /\ ~(upto <= x.previous)
  <2>1. PICK y : y = Stretch(prompt, x, n)
    OBVIOUS
  <2>2. /\ y.previous = upto
        /\ \/ y.brief = x.brief /\ y.lasting = x.lasting + more
           \/ y.brief = x.brief + more /\ y.lasting = x.lasting
    BY <1>5, <2>1 DEF Stretch
  <2>3. y \in PartSums
    BY <1>2, <2>1, StretchTyped
  <2>4. more \in Nat /\ x.previous <= upto
    BY <1>1, <1>2, <1>5
  <2>5. matched <= x.previous /\ x.brief + x.lasting = x.previous - matched
    BY DEF SumsAt
  <2>6. matched <= upto /\ y.brief + y.lasting = upto - matched
    <3>1. matched <= upto
      BY <1>1, <1>2, <2>4, <2>5
    <3>2. y.brief + y.lasting = (x.brief + x.lasting) + more
      <4>1. CASE y.brief = x.brief /\ y.lasting = x.lasting + more
        <5> HIDE DEF more
        <5> QED BY <1>2, <2>4, <4>1
      <4>2. CASE y.brief = x.brief + more /\ y.lasting = x.lasting
        <5> HIDE DEF more
        <5> QED BY <1>2, <2>4, <4>2
      <4> QED BY <2>2, <4>1, <4>2
    <3>3. (x.previous - matched) + (upto - x.previous) = upto - matched
      BY <1>1, <1>2
    <3> QED BY <2>5, <3>1, <3>2, <3>3
  <2>7. \A i \in Breakpoints(prompt) : i <= n => Cumulative(prompt, i) <= upto
    <3>1. ASSUME NEW i \in Breakpoints(prompt), i <= n PROVE Cumulative(prompt, i) <= upto
      <4>1. i \in 0..Len(prompt) /\ n \in 0..Len(prompt)
        BY <1>1, BreakpointsOf
      <4> QED BY <3>1, <4>1, CumulativeGrows
    <3> QED BY <3>1
  <2> HIDE DEF upto, more
  <2>8. SumsAt(prompt, matched, y, n)
    BY <1>5, <2>2, <2>3, <2>6, <2>7 DEF SumsAt, upto
  <2> QED BY <2>1, <2>8
<1> QED BY <1>4, <1>5

LEMMA BreakdownAdds ==
  ASSUME NEW prompt \in CachePrompt, NEW matched \in Nat, Breakpoints(prompt) # {},
         matched <= Cumulative(prompt, Max(Breakpoints(prompt)))
  PROVE  /\ Breakdown(prompt, matched).brief \in Nat /\ Breakdown(prompt, matched).lasting \in Nat
         /\ Breakdown(prompt, matched).brief + Breakdown(prompt, matched).lasting =
              Cumulative(prompt, Max(Breakpoints(prompt))) - matched
<1> DEFINE N == Len(prompt)
           b == [previous |-> matched, brief |-> 0, lasting |-> 0]
           ahead == [n \in 1..N |-> [v \in PartSums |-> Stretch(prompt, v, n)]]
           F(f) == [n \in 0..N |-> IF n = 0 THEN b ELSE Stretch(prompt, f[n - 1], n)]
           sofar == CHOOSE f : f = F(f)
<1>1. N \in Nat /\ b \in PartSums
  BY PromptTyped DEF PartSums
<1>2. ahead \in [1..N -> [PartSums -> PartSums]]
  <2>1. \A n \in 1..N, v \in PartSums : Stretch(prompt, v, n) \in PartSums
    BY StretchTyped
  <2> HIDE DEF N
  <2> QED BY <2>1
<1>3. Breakdown(prompt, matched) = sofar[N]
  BY DEF Breakdown
<1>4. PICK f \in [0..N -> PartSums] : Follows(f, N, b, ahead)
  <2> HIDE DEF N, b, ahead
  <2> QED BY <1>1, <1>2, RecursionExists
<1>5. f[0] = b /\ \A n \in 1..N : f[n] = Stretch(prompt, f[n - 1], n)
  <2>1. f[0] = b /\ \A n \in 1..N : f[n] = ahead[n][f[n - 1]]
    <3> HIDE DEF N, b, ahead
    <3> QED BY <1>4 DEF Follows
  <2>2. \A n \in 1..N, v \in PartSums : ahead[n][v] = Stretch(prompt, v, n)
    OBVIOUS
  <2> HIDE DEF ahead, N, b
  <2>3. \A n \in 1..N : f[n - 1] \in PartSums
    BY <1>1
  <2> QED BY <2>1, <2>2, <2>3
<1>6. f = F(f)
  <2> HIDE DEF N, ahead, b
  <2>1. \A n \in 0..N : f[n] = IF n = 0 THEN b ELSE Stretch(prompt, f[n - 1], n)
    BY <1>1, <1>5
  <2>2. f = [n \in 0..N |-> f[n]]
    OBVIOUS
  <2> QED BY <2>1, <2>2
<1>7. sofar = F(sofar)
  BY <1>6
<1> HIDE DEF sofar
<1>8. sofar[0] = b /\ \A n \in 1..N : sofar[n] = Stretch(prompt, sofar[n - 1], n)
  <2> HIDE DEF N, ahead, b
  <2>1. \A n \in 0..N : sofar[n] = IF n = 0 THEN b ELSE Stretch(prompt, sofar[n - 1], n)
    BY <1>7
  <2>2. 0 \in 0..N /\ \A n \in 1..N : n \in 0..N /\ n # 0
    BY <1>1
  <2> QED BY <2>1, <2>2
<1> DEFINE T == {n \in Nat : SumsAt(prompt, matched, sofar[n], n)}
<1>9. 0 \in T
  <2>1. \A i \in Breakpoints(prompt) : ~(i <= 0)
    BY PromptTyped, BreakpointsOf
  <2>2. b.previous = matched /\ b.brief = 0 /\ b.lasting = 0
    OBVIOUS
  <2> HIDE DEF b
  <2>3. SumsAt(prompt, matched, b, 0)
    BY <1>1, <2>1, <2>2 DEF SumsAt
  <2> QED BY <1>8, <2>3
<1>10. ASSUME NEW n \in 1..N, n - 1 \in T PROVE n \in T
  <2>1. SumsAt(prompt, matched, sofar[n - 1], n - 1)
    BY <1>10
  <2>2. SumsAt(prompt, matched, Stretch(prompt, sofar[n - 1], n), n)
    BY <2>1, StretchAdds
  <2>3. n \in Nat
    BY <1>1
  <2> HIDE DEF N, b
  <2> QED BY <1>8, <2>2, <2>3
<1> HIDE DEF T
<1>11. N \in T
  <2> HIDE DEF N
  <2>1. \A n \in 0..N : n \in T
    BY <1>1, <1>9, <1>10, BoundedInduction
  <2> QED BY <1>1, <2>1
<1>12. PICK x : x = Breakdown(prompt, matched) /\ SumsAt(prompt, matched, x, N)
  BY <1>3, <1>11 DEF T
<1> DEFINE m == Max(Breakpoints(prompt))
           last == Cumulative(prompt, m)
<1>13. m \in Breakpoints(prompt) /\ m \in 1..N /\ \A i \in Breakpoints(prompt) : i <= m /\ i \in 1..N
  BY BreakpointsOf
<1>14. last \in Nat
  <2>1. m \in 0..Len(prompt)
    BY <1>13, PromptTyped
  <2> HIDE DEF m
  <2> QED BY <2>1, CumulativeAdds
<1>15. x \in PartSums /\ x.previous \in Nat /\ x.brief \in Nat /\ x.lasting \in Nat
  BY <1>12 DEF SumsAt, PartSums
<1>16. last <= x.previous
  <2>1. m <= N
    BY <1>1, <1>13
  <2> QED BY <1>12, <1>13, <2>1 DEF SumsAt
<1>17. x.previous <= last
  <2>1. ASSUME NEW i \in Breakpoints(prompt) PROVE Cumulative(prompt, i) <= last
    <3>1. i \in 0..Len(prompt) /\ m \in 0..Len(prompt) /\ i <= m
      BY <1>1, <1>13
    <3> HIDE DEF m
    <3> QED BY <3>1, CumulativeGrows
  <2> QED BY <1>12, <2>1 DEF SumsAt
<1>18. x.brief + x.lasting = last - matched
  <2>1. x.brief + x.lasting = x.previous - matched
    BY <1>12 DEF SumsAt
  <2>2. x.previous = last
    BY <1>14, <1>15, <1>16, <1>17
  <2> QED BY <2>1, <2>2
<1> QED BY <1>12, <1>15, <1>18

-----------------------------------------------------------------------------
(* Prompt cache: how long a prefix lives, and what is reported.            *)

Horizon == 0..MaxHour + Lasting
InHorizon(L) == \A x \in L : x.until \in Horizon

UntilIn(L, acct, prefix) ==
  Max({0} \cup {x.until : x \in {l \in L : l.acct = acct /\ l.prefix = prefix}})

LEMMA UntilIsLast ==
  ASSUME NEW L, InHorizon(L), NEW acct, NEW prefix
  PROVE  /\ UntilIn(L, acct, prefix) \in Horizon
         /\ \A x \in L : x.acct = acct /\ x.prefix = prefix => x.until <= UntilIn(L, acct, prefix)
         /\ \/ UntilIn(L, acct, prefix) = 0
            \/ \E x \in L : x.acct = acct /\ x.prefix = prefix /\ x.until = UntilIn(L, acct, prefix)
<1> DEFINE S == {0} \cup {x.until : x \in {l \in L : l.acct = acct /\ l.prefix = prefix}}
<1>1. MaxHour + Lasting \in Nat
  BY CacheAssumption
<1>2. S \subseteq 0..MaxHour + Lasting
  BY <1>1 DEF InHorizon, Horizon
<1>3. S # {} /\ \A x \in L : x.acct = acct /\ x.prefix = prefix => x.until \in S
  OBVIOUS
<1>4. \A d \in S : d = 0 \/ \E x \in L : x.acct = acct /\ x.prefix = prefix /\ x.until = d
  OBVIOUS
<1>5. UntilIn(L, acct, prefix) = Max(S)
  BY DEF UntilIn
<1> HIDE DEF S
<1>6. Max(S) \in S /\ \A d \in S : d <= Max(S)
  BY <1>1, <1>2, <1>3, MaxOf
<1> QED BY <1>2, <1>3, <1>4, <1>5, <1>6 DEF Horizon

\* A use never makes a life shorter, and makes it as long as it says.
LEMMA ProlongedLasts ==
  ASSUME InHorizon(lives), NEW acct, NEW until, \A p \in DOMAIN until : until[p] \in Horizon,
         NEW L, L = Prolonged(acct, until)
  PROVE  /\ InHorizon(L)
         /\ \A a, p : UntilIn(lives, a, p) <= UntilIn(L, a, p)
         /\ \A p \in DOMAIN until : until[p] <= UntilIn(L, acct, p)
<1> DEFINE longer(p) == Max({until[p], UntilIn(lives, acct, p)})
<1>0. MaxHour + Lasting \in Nat
  BY CacheAssumption
<1>01. L = {x \in lives : ~(x.acct = acct /\ x.prefix \in DOMAIN until)} \cup
          {[acct |-> acct, prefix |-> p, until |-> longer(p)] : p \in DOMAIN until}
  BY DEF Prolonged, Until, UntilIn
<1>1. /\ \A x \in L : \/ x \in lives
                      \/ \E p \in DOMAIN until : x.until = longer(p)
      /\ \A x \in lives : ~(x.acct = acct /\ x.prefix \in DOMAIN until) => x \in L
      /\ \A p \in DOMAIN until : [acct |-> acct, prefix |-> p, until |-> longer(p)] \in L
  <2> HIDE DEF longer
  <2>1. ASSUME NEW x \in L
        PROVE  \/ x \in lives
               \/ \E p \in DOMAIN until : x.until = longer(p)
    <3>1. CASE x \in lives
      BY <3>1
    <3>2. CASE x \in {[acct |-> acct, prefix |-> p, until |-> longer(p)] : p \in DOMAIN until}
      <4>1. PICK p \in DOMAIN until : x = [acct |-> acct, prefix |-> p, until |-> longer(p)]
        BY <3>2
      <4>2. x.until = longer(p)
        BY <4>1
      <4> QED BY <4>2
    <3> QED BY <1>01, <3>1, <3>2
  <2>2. ASSUME NEW x \in lives, ~(x.acct = acct /\ x.prefix \in DOMAIN until) PROVE x \in L
    BY <1>01, <2>2
  <2>3. ASSUME NEW p \in DOMAIN until
        PROVE  [acct |-> acct, prefix |-> p, until |-> longer(p)] \in L
    BY <1>01
  <2> QED BY <2>1, <2>2, <2>3
<1>2. ASSUME NEW p \in DOMAIN until
      PROVE  longer(p) \in Horizon /\ until[p] <= longer(p) /\ UntilIn(lives, acct, p) <= longer(p)
  <2>1. UntilIn(lives, acct, p) \in Horizon
    BY UntilIsLast
  <2>2. PICK a, b : a = until[p] /\ b = UntilIn(lives, acct, p) /\ a \in Horizon /\ b \in Horizon
    BY <2>1
  <2>3. a \in Nat /\ b \in Nat
    BY <1>0, <2>2 DEF Horizon
  <2>4. Max({a, b}) \in {a, b} /\ Max({a, b}) >= a /\ Max({a, b}) >= b
    BY <2>3, MaxOfPair
  <2>5. longer(p) = Max({a, b})
    BY <2>2
  <2> HIDE DEF longer
  <2> QED BY <2>2, <2>3, <2>4, <2>5
<1>3. \A p \in DOMAIN until :
        \E x \in L : x.acct = acct /\ x.prefix = p /\ x.until = longer(p)
  <2>1. ASSUME NEW p \in DOMAIN until
        PROVE  \E x \in L : x.acct = acct /\ x.prefix = p /\ x.until = longer(p)
    <3>1. PICK u : u = longer(p)
      OBVIOUS
    <3>2. [acct |-> acct, prefix |-> p, until |-> u] \in L
      BY <1>1, <3>1
    <3> HIDE DEF longer
    <3> QED BY <3>1, <3>2
  <2> HIDE DEF longer
  <2> QED BY <2>1
<1> HIDE DEF longer
<1>4. InHorizon(L)
  BY <1>1, <1>2 DEF InHorizon
<1>5. ASSUME NEW p \in DOMAIN until PROVE until[p] <= UntilIn(L, acct, p)
  <2>1. longer(p) <= UntilIn(L, acct, p) /\ UntilIn(L, acct, p) \in Horizon
    BY <1>3, <1>4, UntilIsLast
  <2> QED BY <1>0, <1>2, <2>1 DEF Horizon
<1>6. ASSUME NEW a, NEW p PROVE UntilIn(lives, a, p) <= UntilIn(L, a, p)
  <2>1. UntilIn(lives, a, p) \in Horizon /\ UntilIn(L, a, p) \in Horizon
    BY <1>4, UntilIsLast
  <2>2. CASE a = acct /\ p \in DOMAIN until
    <3>1. longer(p) <= UntilIn(L, a, p)
      BY <1>3, <1>4, <2>2, UntilIsLast
    <3>2. UntilIn(lives, a, p) <= longer(p) /\ longer(p) \in Horizon
      BY <1>2, <2>2
    <3> QED BY <1>0, <2>1, <3>1, <3>2 DEF Horizon
  <2>3. CASE ~(a = acct /\ p \in DOMAIN until)
    <3>1. CASE UntilIn(lives, a, p) = 0
      BY <1>0, <2>1, <3>1 DEF Horizon
    <3>2. CASE \E x \in lives : x.acct = a /\ x.prefix = p /\ x.until = UntilIn(lives, a, p)
      <4>1. PICK x \in lives : x.acct = a /\ x.prefix = p /\ x.until = UntilIn(lives, a, p)
        BY <3>2
      <4>2. x \in L
        BY <1>1, <2>3, <4>1
      <4> QED BY <1>4, <4>1, <4>2, UntilIsLast
    <3> QED BY <3>1, <3>2, UntilIsLast
  <2> QED BY <2>2, <2>3
<1> QED BY <1>4, <1>5, <1>6

\* What a request that was asked for reports.
Plausible(a) ==
  LET last == Cumulative(a.prompt, Max(Breakpoints(a.prompt))) IN
  /\ a.read + a.written <= a.total
  /\ a.brief + a.lasting >= a.written
  /\ \/ a.brief + a.lasting = a.written
     \/ last < MinCacheable
     \/ last > (a.total * 85) \div 100
  /\ a.alive /\ (a.read > 0 => \E i \in Cacheable(a.prompt) : a.read <= Cumulative(a.prompt, i))

EntryOK(L, e) == /\ e.ttl \in {Brief, Lasting} /\ e.expires \in Nat
                 /\ e.expires <= UntilIn(L, e.acct, e.prefix)

\* The inductive invariant: what is stored lives, and what was reported adds up.
CacheInv ==
  /\ clock \in 0..MaxHour /\ InHorizon(lives)
  /\ \A e \in entriesByAccount : EntryOK(lives, e)
  /\ DOMAIN asking = Asking
  /\ \A q \in Asking : asking[q].pc = "asked" =>
       asking[q].prompt \in CachePrompt /\ Plausible(asking[q])

LEMMA LastOfPrompt ==
  ASSUME NEW prompt \in CachePrompt, Breakpoints(prompt) # {}, NEW extra \in Extra
  PROVE  LET last  == Cumulative(prompt, Max(Breakpoints(prompt)))
             total == Cumulative(prompt, Len(prompt)) + extra
             cap   == Min({last, (total * 85) \div 100}) IN
         /\ last \in Nat /\ total \in Nat /\ last <= total
         /\ cap \in Nat /\ cap <= last
         /\ \/ cap = last
            \/ last > (total * 85) \div 100
<1> DEFINE m == Max(Breakpoints(prompt))
           n == Len(prompt)
<1>1. m \in 1..n /\ n \in Nat
  BY BreakpointsOf, PromptTyped
<1>2. extra \in Nat
  BY CacheAssumption
<1> HIDE DEF m
<1>3. m \in 0..n /\ n \in 0..n /\ m <= n
  BY <1>1
<1>4. Cumulative(prompt, m) \in Nat /\ Cumulative(prompt, n) \in Nat
      /\ Cumulative(prompt, m) <= Cumulative(prompt, n)
  BY <1>3, CumulativeAdds, CumulativeGrows
<1>5. PICK last, total : last = Cumulative(prompt, m) /\ total = Cumulative(prompt, n) + extra
  OBVIOUS
<1>6. last \in Nat /\ total \in Nat /\ last <= total
  BY <1>2, <1>4, <1>5
<1>7. PICK most : most = (total * 85) \div 100
  OBVIOUS
<1>8. most \in Nat
  BY <1>6, <1>7
<1>9. Min({last, most}) = IF last <= most THEN last ELSE most
  BY <1>6, <1>8, MinOf
<1>10. /\ Min({last, most}) \in Nat /\ Min({last, most}) <= last
       /\ \/ Min({last, most}) = last
          \/ last > most
  BY <1>6, <1>8, <1>9
<1> QED BY <1>5, <1>6, <1>7, <1>10 DEF m

\* What is reported of a prompt when nothing of its account is stored, and when
\* a part of it is read.
LEMMA ReportAdds ==
  ASSUME NEW prompt \in CachePrompt, Breakpoints(prompt) # {}, NEW extra \in Extra, NEW acct
  PROVE  LET last  == Cumulative(prompt, Max(Breakpoints(prompt)))
             total == Cumulative(prompt, Len(prompt)) + extra
             cap   == Min({last, (total * 85) \div 100}) IN
         /\ Plausible(Report(acct, prompt, total, 0, IF last < MinCacheable THEN 0 ELSE last, TRUE))
         /\ \A read \in 0..cap :
              (read > 0 => \E i \in Cacheable(prompt) : read <= Cumulative(prompt, i)) =>
                 Plausible(Report(acct, prompt, total, read, cap - read, TRUE))
<1> DEFINE last  == Cumulative(prompt, Max(Breakpoints(prompt)))
           total == Cumulative(prompt, Len(prompt)) + extra
           most  == (total * 85) \div 100
           cap   == Min({last, most})
<1>1. /\ last \in Nat /\ total \in Nat /\ last <= total
      /\ cap \in Nat /\ cap <= last
      /\ \/ cap = last
         \/ last > most
  BY LastOfPrompt
<1>2. ASSUME NEW read \in Nat, read <= last
      PROVE  /\ Breakdown(prompt, read).brief \in Nat /\ Breakdown(prompt, read).lasting \in Nat
             /\ Breakdown(prompt, read).brief + Breakdown(prompt, read).lasting = last - read
  BY <1>2, BreakdownAdds
<1>3. ASSUME NEW read \in Nat, NEW written \in Nat, read + written <= last,
             \/ written = last - read
             \/ last < MinCacheable
             \/ last > most,
             read > 0 => \E i \in Cacheable(prompt) : read <= Cumulative(prompt, i)
      PROVE  Plausible(Report(acct, prompt, total, read, written, TRUE))
  <2>1. read <= last /\ written <= last - read
    BY <1>1, <1>3
  <2>2. PICK parts : parts = Breakdown(prompt, read)
    OBVIOUS
  <2>3. parts.brief + parts.lasting = last - read
    BY <1>2, <2>1, <2>2
  <2>4. PICK a : a = Report(acct, prompt, total, read, written, TRUE)
    OBVIOUS
  <2> HIDE DEF last, total
  <2>5. /\ a.prompt = prompt /\ a.total = total /\ a.alive = TRUE /\ a.read = read
        /\ a.written = written /\ a.brief = parts.brief /\ a.lasting = parts.lasting
    BY <2>2, <2>4 DEF Report
  <2>6. a.read + a.written <= a.total
    BY <1>1, <1>3, <2>5
  <2>7. a.brief + a.lasting >= a.written
    BY <1>1, <1>3, <2>1, <2>3, <2>5
  <2>8. \/ a.brief + a.lasting = a.written
        \/ last < MinCacheable
        \/ last > (a.total * 85) \div 100
    <3>1. a.brief + a.lasting = last - read
      BY <2>3, <2>5
    <3> QED BY <1>3, <2>5, <3>1
  <2>9. last = Cumulative(a.prompt, Max(Breakpoints(a.prompt)))
    BY <2>5 DEF last
  <2>10. a.alive /\ (a.read > 0 => \E i \in Cacheable(a.prompt) : a.read <= Cumulative(a.prompt, i))
    BY <1>3, <2>5
  <2> QED BY <2>4, <2>6, <2>7, <2>8, <2>9, <2>10 DEF Plausible
<1> HIDE DEF last, total, cap, most
<1>4. Plausible(Report(acct, prompt, total, 0, IF last < MinCacheable THEN 0 ELSE last, TRUE))
  <2>0. PICK w : w = IF last < MinCacheable THEN 0 ELSE last
    OBVIOUS
  <2>1. ASSUME last < MinCacheable PROVE Plausible(Report(acct, prompt, total, 0, w, TRUE))
    <3>0. PICK r : r = 0
      OBVIOUS
    <3>1. Plausible(Report(acct, prompt, total, r, r, TRUE))
      <4>1. r \in Nat /\ r + r <= last /\ ~(r > 0)
        BY <1>1, <3>0
      <4> QED BY <1>3, <2>1, <4>1
    <3>2. w = 0
      BY <2>0, <2>1
    <3> QED BY <3>0, <3>1, <3>2
  <2>2. ASSUME ~(last < MinCacheable) PROVE Plausible(Report(acct, prompt, total, 0, w, TRUE))
    <3>0. PICK r : r = 0
      OBVIOUS
    <3>1. Plausible(Report(acct, prompt, total, r, last, TRUE))
      <4>1. r \in Nat /\ r + last <= last /\ ~(r > 0) /\ last = last - r
        BY <1>1, <3>0
      <4> QED BY <1>1, <1>3, <4>1
    <3>2. w = last
      BY <2>0, <2>2
    <3> QED BY <3>0, <3>1, <3>2
  <2>3. Plausible(Report(acct, prompt, total, 0, w, TRUE))
    BY <2>1, <2>2
  <2> QED BY <2>0, <2>3
<1>5. ASSUME NEW read \in 0..cap,
             read > 0 => \E i \in Cacheable(prompt) : read <= Cumulative(prompt, i)
      PROVE  Plausible(Report(acct, prompt, total, read, cap - read, TRUE))
  <2>1. read \in Nat /\ cap - read \in Nat /\ read + (cap - read) <= last
    BY <1>1
  <2>2. \/ cap - read = last - read
        \/ last > most
    BY <1>1
  <2> QED BY <1>3, <1>5, <2>1, <2>2
<1> QED BY <1>4, <1>5 DEF last, total, cap, most

LEMMA PrefixLength ==
  ASSUME NEW prompt \in CachePrompt, NEW i \in 1..Len(prompt)
  PROVE  Len(Prefix(prompt, i)) = i
<1> DEFINE V == {prompt[j].value : j \in 1..i}
<1>1. i \in Nat
  BY PromptTyped
<1>2. Prefix(prompt, i) \in [1..i -> V]
  BY DEF Prefix
<1>3. Prefix(prompt, i) \in Seq(V)
  BY <1>1, <1>2
<1>4. DOMAIN Prefix(prompt, i) = 1..i
  BY <1>2
<1> HIDE DEF V
<1> QED BY <1>1, <1>3, <1>4, LenProperties

-----------------------------------------------------------------------------
(* Prompt cache: the steps.                                                *)

\* What stays stored lives as long, and so does what is stored for the time a
\* use of it was counted to last.
LEMMA StoredLives ==
  ASSUME CacheInv, NEW acct, NEW until, \A p \in DOMAIN until : until[p] \in Horizon,
         NEW new, \A e \in new : /\ e.ttl \in {Brief, Lasting} /\ e.acct = acct
                                 /\ e.prefix \in DOMAIN until /\ e.expires = until[e.prefix],
         NEW old, old \subseteq entriesByAccount,
         entriesByAccount' = old \cup new, lives' = Prolonged(acct, until)
  PROVE  InHorizon(lives') /\ \A e \in entriesByAccount' : EntryOK(lives', e)
<1>0. MaxHour + Lasting \in Nat
  BY CacheAssumption
<1>1. PICK L : L = lives'
  OBVIOUS
<1>2. /\ InHorizon(L)
      /\ \A a, p : UntilIn(lives, a, p) <= UntilIn(L, a, p)
      /\ \A p \in DOMAIN until : until[p] <= UntilIn(L, acct, p)
  BY <1>1, ProlongedLasts DEF CacheInv
<1>3. ASSUME NEW e \in old PROVE EntryOK(L, e)
  <2>1. e.ttl \in {Brief, Lasting} /\ e.expires \in Nat /\ e.expires <= UntilIn(lives, e.acct, e.prefix)
    BY DEF CacheInv, EntryOK
  <2>2. UntilIn(lives, e.acct, e.prefix) \in Horizon /\ UntilIn(L, e.acct, e.prefix) \in Horizon
    BY <1>2, UntilIsLast DEF CacheInv
  <2>3. UntilIn(lives, e.acct, e.prefix) <= UntilIn(L, e.acct, e.prefix)
    BY <1>2
  <2>4. e.expires <= UntilIn(L, e.acct, e.prefix)
    BY <1>0, <2>1, <2>2, <2>3 DEF Horizon
  <2> QED BY <2>1, <2>4 DEF EntryOK
<1>4. ASSUME NEW e \in new PROVE EntryOK(L, e)
  <2>1. e.ttl \in {Brief, Lasting} /\ e.acct = acct /\ e.prefix \in DOMAIN until /\ e.expires = until[e.prefix]
    OBVIOUS
  <2>2. e.expires \in Nat /\ e.expires <= UntilIn(L, e.acct, e.prefix)
    BY <1>0, <1>2, <2>1 DEF Horizon
  <2> QED BY <2>1, <2>2 DEF EntryOK
<1> QED BY <1>1, <1>2, <1>3, <1>4

LEMMA CacheInitInv == CacheInit => CacheInv
<1> SUFFICES ASSUME CacheInit PROVE CacheInv
  OBVIOUS
<1>1. clock \in 0..MaxHour
  BY CacheAssumption DEF CacheInit
<1>2. InHorizon(lives) /\ entriesByAccount = {}
  BY DEF CacheInit, InHorizon
<1>3. DOMAIN asking = Asking /\ \A q \in Asking : asking[q].pc # "asked"
  BY DEF CacheInit, NoPrompt
<1> QED BY <1>1, <1>2, <1>3 DEF CacheInv

\* A request that gets another report leaves those of the others alone.
LEMMA AskingKept ==
  ASSUME CacheInv, NEW q \in Asking, NEW a, asking' = [asking EXCEPT ![q] = a],
         a.pc = "asked" => a.prompt \in CachePrompt /\ Plausible(a)
  PROVE  /\ DOMAIN asking' = Asking
         /\ \A o \in Asking : asking'[o].pc = "asked" =>
              asking'[o].prompt \in CachePrompt /\ Plausible(asking'[o])
<1>1. DOMAIN asking = Asking
  BY DEF CacheInv
<1>2. DOMAIN asking' = Asking /\ asking'[q] = a
      /\ \A o \in Asking \ {q} : asking'[o] = asking[o]
  BY <1>1
<1>3. \A o \in Asking : asking[o].pc = "asked" =>
        asking[o].prompt \in CachePrompt /\ Plausible(asking[o])
  BY DEF CacheInv
<1> QED BY <1>2, <1>3

LEMMA ComputeStep ==
  ASSUME CacheInv, NEW q \in Asking, NEW acct, NEW prompt \in CachePrompt, NEW extra \in Extra,
         Breakpoints(prompt) # {}, Compute(q, acct, prompt, Cumulative(prompt, Len(prompt)) + extra)
  PROVE  /\ InHorizon(lives') /\ \A e \in entriesByAccount' : EntryOK(lives', e)
         /\ DOMAIN asking' = Asking
         /\ \A o \in Asking : asking'[o].pc = "asked" =>
              asking'[o].prompt \in CachePrompt /\ Plausible(asking'[o])
<1> DEFINE last  == Cumulative(prompt, Max(Breakpoints(prompt)))
           total == Cumulative(prompt, Len(prompt)) + extra
           most  == (total * 85) \div 100
           cap   == Min({last, most})
           mine  == {e \in Alive : e.acct = acct}
           hits  == {i \in Cacheable(prompt) : \E e \in mine : e.prefix = Prefix(prompt, i)}
           first == IF last < MinCacheable THEN 0 ELSE last
<1>1. last \in Nat /\ cap \in Nat /\ cap <= last /\ MaxHour + Lasting \in Nat
  BY LastOfPrompt, CacheAssumption
<1>2. /\ Plausible(Report(acct, prompt, total, 0, first, TRUE))
      /\ \A read \in 0..cap :
           (read > 0 => \E i \in Cacheable(prompt) : read <= Cumulative(prompt, i)) =>
              Plausible(Report(acct, prompt, total, read, cap - read, TRUE))
  BY ReportAdds
<1>3. \A read, written, alive :
        /\ Report(acct, prompt, total, read, written, alive).prompt = prompt
        /\ Report(acct, prompt, total, read, written, alive).pc = "asked"
  BY DEF Report
<1>4. Alive \subseteq entriesByAccount
  BY DEF Alive, Pruned
<1>5. CASE mine = {} \/ hits = {}
  <2>1. entriesByAccount' = Alive /\ lives' = lives
    BY <1>5 DEF Compute
  <2>2. InHorizon(lives') /\ \A e \in entriesByAccount' : EntryOK(lives', e)
    BY <1>4, <2>1 DEF CacheInv
  <2>3. PICK read, written : /\ asking' = [asking EXCEPT ![q] = Report(acct, prompt, total, read, written, TRUE)]
                             /\ \/ read = 0 /\ written = first
                                \/ read = 0 /\ written = cap
    BY <1>5 DEF Compute
  <2> HIDE DEF last, total, cap, mine, hits, first
  <2>4. Plausible(Report(acct, prompt, total, read, written, TRUE))
    <3>1. 0 \in 0..cap /\ cap - 0 = cap /\ ~(0 > 0)
      BY <1>1
    <3>2. Plausible(Report(acct, prompt, total, 0, cap, TRUE))
      BY <1>2, <3>1
    <3>3. CASE read = 0 /\ written = first
      BY <1>2, <3>3
    <3>4. CASE read = 0 /\ written = cap
      BY <3>2, <3>4
    <3> QED BY <2>3, <3>3, <3>4
  <2>5. PICK a : a = Report(acct, prompt, total, read, written, TRUE)
    OBVIOUS
  <2>6. a.prompt = prompt /\ Plausible(a) /\ asking' = [asking EXCEPT ![q] = a]
    BY <1>3, <2>3, <2>4, <2>5
  <2>7. a.pc = "asked" => a.prompt \in CachePrompt /\ Plausible(a)
    BY <2>6
  <2>8. /\ DOMAIN asking' = Asking
        /\ \A o \in Asking : asking'[o].pc = "asked" =>
             asking'[o].prompt \in CachePrompt /\ Plausible(asking'[o])
    BY <2>6, <2>7, AskingKept
  <2> QED BY <2>2, <2>8
<1>6. CASE mine # {} /\ hits # {}
  <2> DEFINE i == Max(hits)
             e == CHOOSE x \in mine : x.prefix = Prefix(prompt, i)
             alive == clock < Until(acct, e.prefix)
             matched == Min({Cumulative(prompt, i), cap})
  <2>1. /\ asking' = [asking EXCEPT ![q] = Report(acct, prompt, total, matched, cap - matched, alive)]
        /\ entriesByAccount' = Without(acct, {e.prefix}) \cup {Entry(acct, prompt, i, e.ttl)}
        /\ lives' = IF alive THEN Prolonged(acct, [p \in {e.prefix} |-> clock + e.ttl]) ELSE lives
    BY <1>6 DEF Compute
  <2>2. i \in hits
    <3>1. hits \subseteq 0..Len(prompt) /\ Len(prompt) \in Nat
      BY BreakpointsOf, PromptTyped DEF Cacheable
    <3> HIDE DEF hits
    <3> QED BY <1>6, <3>1, MaxOf
  <2>3. /\ i \in Cacheable(prompt) /\ i \in 0..Len(prompt)
        /\ \E x \in mine : x.prefix = Prefix(prompt, i)
    <3>1. Cacheable(prompt) \subseteq 1..Len(prompt) /\ Len(prompt) \in Nat
      BY BreakpointsOf, PromptTyped DEF Cacheable
    <3>2. \A j \in hits : j \in Cacheable(prompt) /\ \E x \in mine : x.prefix = Prefix(prompt, j)
      OBVIOUS
    <3> HIDE DEF hits, i, mine
    <3> QED BY <2>2, <3>1, <3>2
  <2>4. e \in mine /\ e.prefix = Prefix(prompt, i)
    <3> HIDE DEF i, mine
    <3> QED BY <2>3
  <2>5. /\ e.acct = acct /\ e.ttl \in {Brief, Lasting} /\ clock < e.expires /\ e.expires \in Nat
        /\ e.expires <= UntilIn(lives, acct, e.prefix)
    <3>1. e \in entriesByAccount /\ e.acct = acct /\ e.expires > clock
      BY <2>4 DEF Alive, Pruned
    <3>2. EntryOK(lives, e)
      BY <3>1 DEF CacheInv
    <3>3. e.expires \in Nat /\ clock \in Nat
      BY <3>2, CacheAssumption DEF CacheInv, EntryOK
    <3> HIDE DEF e, mine, i, hits
    <3> QED BY <3>1, <3>2, <3>3 DEF EntryOK
  <2>6. Cumulative(prompt, i) \in Nat
    BY <2>3, CumulativeAdds
  <2> HIDE DEF last, total, cap, mine, hits, first, e, i
  <2>7. alive = TRUE
    <3>1. UntilIn(lives, acct, e.prefix) \in Horizon
      BY UntilIsLast DEF CacheInv
    <3>2. Until(acct, e.prefix) = UntilIn(lives, acct, e.prefix)
      BY DEF Until, UntilIn
    <3>3. clock \in Nat
      BY CacheAssumption DEF CacheInv
    <3>4. clock < UntilIn(lives, acct, e.prefix)
      BY <1>1, <2>5, <3>1, <3>3 DEF Horizon
    <3> QED BY <3>2, <3>4
  <2> HIDE DEF alive
  <2>8. matched \in 0..cap /\ matched <= Cumulative(prompt, i)
    <3>1. PICK c : c = Cumulative(prompt, i)
      OBVIOUS
    <3>2. matched = IF c <= cap THEN c ELSE cap
      BY <1>1, <2>6, <3>1, MinOf
    <3> HIDE DEF matched
    <3> QED BY <1>1, <2>6, <3>1, <3>2
  <2> HIDE DEF matched
  <2>9. Plausible(Report(acct, prompt, total, matched, cap - matched, TRUE))
    BY <1>2, <2>3, <2>8
  <2>10. PICK until : until = [p \in {e.prefix} |-> clock + e.ttl]
    OBVIOUS
  <2>11. lives' = Prolonged(acct, until)
    BY <2>1, <2>7, <2>10
  <2>12. DOMAIN until = {e.prefix} /\ until[e.prefix] = clock + e.ttl
    BY <2>10
  <2>13. clock + e.ttl \in Horizon
    BY <2>5, CacheAssumption DEF CacheInv, Horizon
  <2>14. PICK entry : entry = Entry(acct, prompt, i, e.ttl)
    OBVIOUS
  <2>15. /\ entry.ttl = e.ttl /\ entry.acct = acct /\ entry.prefix = e.prefix
         /\ entry.expires = clock + e.ttl
    BY <2>4, <2>14 DEF Entry
  <2>16. PICK old : old = Without(acct, {e.prefix})
    OBVIOUS
  <2>17. old \subseteq entriesByAccount /\ entriesByAccount' = old \cup {entry}
    BY <1>4, <2>1, <2>14, <2>16 DEF Without
  <2>18. InHorizon(lives') /\ \A x \in entriesByAccount' : EntryOK(lives', x)
    <3>1. \A p \in DOMAIN until : until[p] \in Horizon
      BY <2>12, <2>13
    <3>2. \A x \in {entry} : /\ x.ttl \in {Brief, Lasting} /\ x.acct = acct
                             /\ x.prefix \in DOMAIN until /\ x.expires = until[x.prefix]
      BY <2>5, <2>12, <2>15
    <3>3. PICK new : new = {entry}
      OBVIOUS
    <3>4. /\ entriesByAccount' = old \cup new
          /\ \A x \in new : /\ x.ttl \in {Brief, Lasting} /\ x.acct = acct
                           /\ x.prefix \in DOMAIN until /\ x.expires = until[x.prefix]
      BY <2>17, <3>2, <3>3
    <3>5. old \subseteq entriesByAccount
      BY <2>17
    <3> QED BY <2>11, <3>1, <3>4, <3>5, StoredLives
  <2>19. asking' = [asking EXCEPT ![q] = Report(acct, prompt, total, matched, cap - matched, TRUE)]
    BY <2>1, <2>7
  <2>20. PICK a : a = Report(acct, prompt, total, matched, cap - matched, TRUE)
    OBVIOUS
  <2>21. a.prompt = prompt /\ Plausible(a) /\ asking' = [asking EXCEPT ![q] = a]
    BY <1>3, <2>19, <2>9, <2>20
  <2>22. a.pc = "asked" => a.prompt \in CachePrompt /\ Plausible(a)
    BY <2>21
  <2>23. /\ DOMAIN asking' = Asking
        /\ \A o \in Asking : asking'[o].pc = "asked" =>
             asking'[o].prompt \in CachePrompt /\ Plausible(asking'[o])
    BY <2>21, <2>22, AskingKept
  <2> QED BY <2>18, <2>23
<1> QED BY <1>5, <1>6

LEMMA UpdateStep ==
  ASSUME CacheInv, NEW q \in Asking, Update(q)
  PROVE  /\ InHorizon(lives') /\ \A e \in entriesByAccount' : EntryOK(lives', e)
         /\ DOMAIN asking' = Asking
         /\ \A o \in Asking : asking'[o].pc = "asked" =>
              asking'[o].prompt \in CachePrompt /\ Plausible(asking'[o])
<1>1. PICK acct, prompt : acct = asking[q].acct /\ prompt = asking[q].prompt
  OBVIOUS
<1>2. prompt \in CachePrompt
  BY <1>1 DEF Update, CacheInv
<1> DEFINE new == Cacheable(prompt)
           stored == {Prefix(prompt, i) : i \in new}
           until == [p \in stored |-> clock + Active(prompt, Len(p))]
           fresh == {Entry(acct, prompt, i, Active(prompt, i)) : i \in new}
<1>3. /\ entriesByAccount' = Without(acct, stored) \cup fresh
      /\ lives' = Prolonged(acct, until)
      /\ asking' = [asking EXCEPT ![q] = NoPrompt]
  BY <1>1 DEF Update
<1>4. \A i \in new : Active(prompt, i) \in {Brief, Lasting} /\ Len(Prefix(prompt, i)) = i
  <2>1. \A i \in new : i \in Breakpoints(prompt)
    BY DEF Cacheable
  <2>2. \A i \in Breakpoints(prompt) : i \in 1..Len(prompt) /\ Active(prompt, i) \in {Brief, Lasting}
    BY <1>2, BreakpointsOf
  <2> HIDE DEF new
  <2> QED BY <1>2, <2>1, <2>2, PrefixLength
<1>5. /\ MaxHour + Lasting \in Nat /\ clock \in 0..MaxHour /\ Brief \in Nat /\ Lasting \in Nat
      /\ Brief < Lasting /\ MaxHour \in Nat
  BY CacheAssumption DEF CacheInv
<1> HIDE DEF new
<1>6. DOMAIN until = stored /\ \A i \in new : until[Prefix(prompt, i)] = clock + Active(prompt, i)
  BY <1>4
<1>7. \A p \in DOMAIN until : until[p] \in Horizon
  <2>1. ASSUME NEW i \in new PROVE until[Prefix(prompt, i)] \in Horizon
    <3>1. until[Prefix(prompt, i)] = clock + Active(prompt, i) /\ Active(prompt, i) \in {Brief, Lasting}
      BY <1>4, <1>6
    <3> HIDE DEF until
    <3> QED BY <1>5, <3>1 DEF Horizon
  <2> HIDE DEF until
  <2> QED BY <1>6, <2>1
<1>8. \A e \in fresh : /\ e.ttl \in {Brief, Lasting} /\ e.acct = acct
                       /\ e.prefix \in DOMAIN until /\ e.expires = until[e.prefix]
  <2>1. ASSUME NEW e \in fresh
        PROVE  /\ e.ttl \in {Brief, Lasting} /\ e.acct = acct
               /\ e.prefix \in DOMAIN until /\ e.expires = until[e.prefix]
    <3>1. PICK i \in new : e = Entry(acct, prompt, i, Active(prompt, i))
      OBVIOUS
    <3>2. /\ e.acct = acct /\ e.prefix = Prefix(prompt, i) /\ e.ttl = Active(prompt, i)
          /\ e.expires = clock + Active(prompt, i)
      BY <3>1 DEF Entry
    <3> HIDE DEF until, fresh
    <3> QED BY <1>4, <1>6, <3>2
  <2> HIDE DEF until, fresh
  <2> QED BY <2>1
<1>9. Without(acct, stored) \subseteq entriesByAccount
  BY DEF Without, Alive, Pruned
<1> HIDE DEF stored, until, fresh
<1>10. InHorizon(lives') /\ \A e \in entriesByAccount' : EntryOK(lives', e)
  <2>1. PICK old, made, upto : old = Without(acct, stored) /\ made = fresh /\ upto = until
    OBVIOUS
  <2>2. /\ old \subseteq entriesByAccount /\ entriesByAccount' = old \cup made
        /\ lives' = Prolonged(acct, upto) /\ \A p \in DOMAIN upto : upto[p] \in Horizon
        /\ \A e \in made : /\ e.ttl \in {Brief, Lasting} /\ e.acct = acct
                           /\ e.prefix \in DOMAIN upto /\ e.expires = upto[e.prefix]
    BY <1>3, <1>7, <1>8, <1>9, <2>1
  <2> QED BY <2>2, StoredLives
<1>11. PICK a : a = NoPrompt
  OBVIOUS
<1>12. a.pc # "asked" /\ asking' = [asking EXCEPT ![q] = a]
  BY <1>3, <1>11 DEF NoPrompt
<1>13. /\ DOMAIN asking' = Asking
       /\ \A o \in Asking : asking'[o].pc = "asked" =>
            asking'[o].prompt \in CachePrompt /\ Plausible(asking'[o])
  BY <1>12, AskingKept
<1> QED BY <1>10, <1>13

LEMMA CacheNextInv == CacheInv /\ [CacheNext]_cacheVars => CacheInv'
<1> SUFFICES ASSUME CacheInv, [CacheNext]_cacheVars PROVE CacheInv'
  OBVIOUS
<1>1. ASSUME clock' \in 0..MaxHour,
             InHorizon(lives') /\ \A e \in entriesByAccount' : EntryOK(lives', e),
             /\ DOMAIN asking' = Asking
             /\ \A o \in Asking : asking'[o].pc = "asked" =>
                  asking'[o].prompt \in CachePrompt /\ Plausible(asking'[o])
      PROVE  CacheInv'
  BY <1>1 DEF CacheInv, EntryOK, UntilIn, InHorizon, Plausible
<1>2. /\ clock \in 0..MaxHour /\ InHorizon(lives) /\ \A e \in entriesByAccount : EntryOK(lives, e)
      /\ DOMAIN asking = Asking
      /\ \A o \in Asking : asking[o].pc = "asked" => asking[o].prompt \in CachePrompt /\ Plausible(asking[o])
  BY DEF CacheInv
<1>3. ASSUME NEW q \in Asking, BuildClaudeProfile(q) PROVE CacheInv'
  <2>1. PICK acct \in CacheAccount, prompt \in CachePrompt, extra \in Extra :
          /\ Breakpoints(prompt) # {}
          /\ Compute(q, acct, prompt, Cumulative(prompt, Len(prompt)) + extra)
    BY <1>3 DEF BuildClaudeProfile
  <2>2. clock' = clock
    BY <1>3 DEF BuildClaudeProfile
  <2>3. /\ InHorizon(lives') /\ \A e \in entriesByAccount' : EntryOK(lives', e)
        /\ DOMAIN asking' = Asking
        /\ \A o \in Asking : asking'[o].pc = "asked" =>
             asking'[o].prompt \in CachePrompt /\ Plausible(asking'[o])
    BY <2>1, ComputeStep
  <2> QED BY <1>1, <1>2, <2>2, <2>3
<1>4. ASSUME NEW q \in Asking, Update(q) PROVE CacheInv'
  <2>1. clock' = clock
    BY <1>4 DEF Update
  <2>2. /\ InHorizon(lives') /\ \A e \in entriesByAccount' : EntryOK(lives', e)
        /\ DOMAIN asking' = Asking
        /\ \A o \in Asking : asking'[o].pc = "asked" =>
             asking'[o].prompt \in CachePrompt /\ Plausible(asking'[o])
    BY <1>4, UpdateStep
  <2> QED BY <1>1, <1>2, <2>1, <2>2
<1>5. ASSUME NEW q \in Asking, AskingFails(q) PROVE CacheInv'
  <2>1. PICK a : a = NoPrompt
    OBVIOUS
  <2>2. a.pc # "asked" /\ asking' = [asking EXCEPT ![q] = a]
    BY <1>5, <2>1 DEF AskingFails, NoPrompt
  <2>3. /\ DOMAIN asking' = Asking
        /\ \A o \in Asking : asking'[o].pc = "asked" =>
             asking'[o].prompt \in CachePrompt /\ Plausible(asking'[o])
    BY <2>2, AskingKept
  <2>4. clock' = clock /\ lives' = lives /\ entriesByAccount' = entriesByAccount
    BY <1>5 DEF AskingFails
  <2> QED BY <1>1, <1>2, <2>3, <2>4
<1>6. CASE HourPasses
  <2>1. clock' \in 0..MaxHour
    BY <1>2, <1>6, CacheAssumption DEF HourPasses
  <2>2. lives' = lives /\ entriesByAccount' = entriesByAccount /\ asking' = asking
    BY <1>6 DEF HourPasses
  <2> QED BY <1>1, <1>2, <2>1, <2>2
<1>7. CASE UNCHANGED cacheVars
  <2>1. clock' = clock /\ lives' = lives /\ entriesByAccount' = entriesByAccount /\ asking' = asking
    BY <1>7 DEF cacheVars
  <2> QED BY <1>1, <1>2, <2>1
<1> QED BY <1>3, <1>4, <1>5, <1>6, <1>7 DEF CacheNext

\* Whatever prompts of several requests are asked and answered at the same time,
\* with any sizes, lifetimes and threshold: what a request is told of the cache
\* adds up, and what it is told was read had been stored for its account by an
\* answered request and was kept in use within its lifetime ever since.
THEOREM UsageAddsUp == CacheSpec => []UsageIsPlausible
<1>1. CacheInv => UsageIsPlausible
  <2> SUFFICES ASSUME CacheInv PROVE UsageIsPlausible
    OBVIOUS
  <2>1. \A q \in Asking : asking[q].pc = "asked" => Plausible(asking[q])
    BY DEF CacheInv
  <2>2. ASSUME NEW e \in entriesByAccount PROVE e.expires <= Until(e.acct, e.prefix)
    <3>1. EntryOK(lives, e)
      BY DEF CacheInv
    <3>2. Until(e.acct, e.prefix) = UntilIn(lives, e.acct, e.prefix)
      BY DEF Until, UntilIn
    <3> QED BY <3>1, <3>2 DEF EntryOK
  <2>3. ASSUME NEW q \in Asking, asking[q].pc = "asked"
        PROVE  LET a == asking[q]
                   last == Cumulative(a.prompt, Max(Breakpoints(a.prompt))) IN
               /\ a.read + a.written <= a.total
               /\ a.brief + a.lasting >= a.written
               /\ a.brief + a.lasting = a.written
                    \/ last < MinCacheable \/ last > (a.total * 85) \div 100
               /\ a.alive /\ (a.read > 0 => \E i \in Cacheable(a.prompt) : a.read <= Cumulative(a.prompt, i))
    BY <2>1, <2>3 DEF Plausible
  <2> QED BY <2>2, <2>3 DEF UsageIsPlausible
<1> QED BY <1>1, CacheInitInv, CacheNextInv, PTL DEF CacheSpec
===============================================================================
