------------------------------ MODULE Cascade ------------------------------
(***************************************************************************)
(* One request to kiro-go on its way through the providers: which of Kiro, *)
(* Grok and Codex is asked, in which order, what a provider that cannot    *)
(* serve leaves on the wire and in the log, and who answers in the end.    *)
(*                                                                         *)
(* What an account loop does is in BackendPool and AccountPool; here it is *)
(* an outcome, and whether a pool is ready may change from one look to the *)
(* next.  The shares of the split are read anew wherever the code reads    *)
(* them, and the administrator may change them meanwhile.                  *)
(***************************************************************************)
EXTENDS Integers, Sequences, FiniteSets

CONSTANTS
  Share,        \* the percentages the administrator may set
  Counter,      \* values of the split counter modulo 100
  MaxSplitEdit  \* bound: changes of the shares during the request

ASSUME CascadeAssumption == Share \subseteq 0..100 /\ Counter \subseteq 0..99

VARIABLES
  ask,          \* the request: its format, whether it streams, its model's family
  share,        \* GrokSplitPercent and CodexSplitPercent
  step,         \* the handler that runs
  queue,        \* what is left to try
  tries,        \* accounts of Kiro tried by the loop that runs
  failed,       \* lastErr of that loop is set
  asked,        \* providers that were asked, or found not ready
  emptyKiro,    \* what the route saw of the Kiro pool
  header,       \* Content-Type is set
  committed,    \* the status and the headers have left
  answer,       \* answers the client got, in order
  charged,      \* times the API key was charged
  rows,         \* rows of the request log
  splitEdits    \* counts up to MaxSplitEdit

cascadeVars == <<ask, share, step, queue, tries, failed, asked, emptyKiro,
                 header, committed, answer, charged, rows, splitEdits>>

Backend == {"grok", "codex"}
MaxAccountTries == 3

Ask == [format: {"claude", "openai"}, stream: BOOLEAN, model: {"kiro", "grok", "codex"}]

Outcome == {"ok", "broken", "error event", "bad request", "unavailable", "late"}

CascadeTypeOK ==
  /\ ask \in Ask
  /\ share \in [Backend -> Share]
  /\ step \in Backend \cup {"route", "next", "kiro", "done"}
  /\ queue \in Seq(Backend \cup {"kiro", "order", "exclusive", "stop", "native"})
  /\ tries \in 0..MaxAccountTries
  /\ failed \in BOOLEAN
  /\ asked \subseteq Backend \cup {"kiro"}
  /\ emptyKiro \in BOOLEAN /\ header \in BOOLEAN /\ committed \in BOOLEAN
  /\ answer \in Seq(Outcome)
  /\ charged \in Nat
  /\ rows \in Seq({"ok", "failed"})
  /\ splitEdits \in 0..MaxSplitEdit

CascadeInit ==
  /\ ask \in Ask
  /\ share \in [Backend -> Share]
  /\ step = "route" /\ queue = <<>>
  /\ tries = 0 /\ failed = FALSE
  /\ asked = {} /\ emptyKiro = FALSE
  /\ header = FALSE /\ committed = FALSE
  /\ answer = <<>> /\ charged = 0 /\ rows = <<>> /\ splitEdits = 0

-----------------------------------------------------------------------------
(* The split.                                                              *)

\* The larger share keeps its percentage, the smaller gets what is left of 100.
Grok == IF share["grok"] + share["codex"] <= 100 \/ share["grok"] > share["codex"]
          THEN share["grok"] ELSE 100 - share["codex"]
Codex == IF share["grok"] + share["codex"] <= 100 \/ share["codex"] >= share["grok"]
           THEN share["codex"] ELSE 100 - share["grok"]

\* The larger share takes the low turns.
pickSplitProvider(turn) ==
  LET first == IF Codex >= Grok THEN "codex" ELSE "grok"
      cut == IF Codex >= Grok THEN Codex ELSE Grok IN
  IF turn < cut THEN first
  ELSE IF turn < Grok + Codex THEN IF first = "codex" THEN "grok" ELSE "codex"
  ELSE "kiro"

silentSplitIsExclusive == share["grok"] + share["codex"] >= 100

\* Mutant: a provider without a share is not tried at all.
OnlyShares ==
  IF share["codex"] > 0 THEN <<"codex">> ELSE <<"grok">>

\* Equal shares prefer Codex, unless both are zero.
silentProviderOrder ==
  IF share["codex"] >= share["grok"] /\ share["codex"] > 0
    THEN <<"codex", "grok">> ELSE <<"grok", "codex">>

-----------------------------------------------------------------------------
(* What the client and the log get.                                        *)

Log(logged) == rows' = IF logged THEN Append(rows, "failed") ELSE rows

\* An error as JSON with its status, 400 or 503: too late if a status has left.
SendStatus(what) ==
  /\ answer' = Append(answer, IF committed THEN "late" ELSE what)
  /\ committed' = TRUE /\ header' = TRUE
  /\ step' = "done"

\* A provider other than the one asked for by name hides who it is, and keeps
\* quiet when it cannot serve.
Silent(p) == ask.model # p

\* sendErr of the provider p: an event if the response looks like a stream,
\* nothing if p is silent, else an error with its status.
SendErr(p, what) ==
  \/ /\ ask.stream /\ header
     /\ answer' = Append(answer, "error event")
     /\ Log(TRUE)
     /\ step' = "done"
     /\ UNCHANGED <<header, committed>>
  \/ /\ ~(ask.stream /\ header) /\ Silent(p)
     /\ Log(FALSE)
     /\ step' = "next"
     /\ UNCHANGED <<answer, header, committed>>
  \/ /\ ~(ask.stream /\ header) /\ ~Silent(p)
     /\ Log(TRUE)
     /\ SendStatus(what)

Charge == charged' = charged + 1 /\ rows' = Append(rows, "ok")

Respond(what) ==
  /\ answer' = Append(answer, what)
  /\ header' = TRUE /\ committed' = TRUE
  /\ step' = "done"

-----------------------------------------------------------------------------
(* The route: handleClaudeMessagesInternal and handleOpenAIChat.           *)

\* The split sends the request to a provider, then to the other one, and only
\* then, unless the split is exclusive, to Kiro.
SplitQueue(turn) ==
  CASE pickSplitProvider(turn) = "kiro"  -> <<>>
    [] pickSplitProvider(turn) = "codex" -> <<"codex", "grok", "exclusive">>
    [] OTHER                             -> <<"grok", "codex", "exclusive">>

Route ==
  /\ step = "route"
  /\ \/ /\ ask.model # "kiro"
        /\ step' = ask.model
        /\ asked' = {ask.model}
        /\ UNCHANGED <<queue, emptyKiro>>
     \/ /\ ask.model = "kiro"
        /\ \/ emptyKiro' = TRUE /\ queue' = <<"order", "kiro", "order">>
           \/ /\ emptyKiro' = FALSE
              /\ \E turn \in Counter : queue' = SplitQueue(turn) \o <<"kiro", "order">>
        /\ step' = "next"
        /\ UNCHANGED asked
  /\ UNCHANGED <<ask, share, tries, failed, header, committed, answer,
                 charged, rows, splitEdits>>

Quiet == UNCHANGED <<ask, share, emptyKiro, charged, splitEdits>>

\* The next provider is asked, or passed over because its pool is not ready.
NextProvider ==
  /\ step = "next" /\ queue # <<>> /\ Head(queue) \in Backend
  /\ asked' = asked \cup {Head(queue)}
  /\ step' \in {Head(queue), "next"}
  /\ queue' = Tail(queue)
  /\ Quiet /\ UNCHANGED <<tries, failed, header, committed, answer, rows>>

\* trySilentProviders: both, in the order of their shares.
ExpandOrder ==
  /\ step = "next" /\ queue # <<>> /\ Head(queue) = "order"
  /\ queue' = silentProviderOrder \o Tail(queue)
  /\ Quiet /\ UNCHANGED <<step, tries, failed, asked, header, committed, answer, rows>>

\* The silent providers of a split that is exclusive could not serve: 503.
ExclusiveStop ==
  /\ step = "next" /\ queue # <<>> /\ Head(queue) = "exclusive"
  /\ IF silentSplitIsExclusive
       THEN Log(TRUE) /\ SendStatus("unavailable") /\ UNCHANGED queue
       ELSE queue' = Tail(queue) /\ UNCHANGED <<rows, answer, header, committed, step>>
  /\ Quiet /\ UNCHANGED <<tries, failed, asked>>

\* Kiro: a malformed Claude request ends here; a stream sends its headers and a
\* first ping at once.  (Web searches leave the route here, see WebSearch.)
EnterKiro ==
  /\ step = "next" /\ queue # <<>> /\ Head(queue) \in {"kiro", "native"}
  /\ queue' = Tail(queue)
  /\ asked' = asked \cup {"kiro"}
  /\ tries' = 0 /\ failed' = FALSE
  /\ \/ /\ step' = "kiro"
        /\ header' = (header \/ ask.stream) /\ committed' = (committed \/ ask.stream)
        /\ UNCHANGED answer
     \/ /\ ask.format = "claude" /\ ask.model = "kiro"
        /\ SendStatus("bad request")
     \/ /\ Head(queue) = "native"     \* no account is ready
        /\ step' = "next" /\ UNCHANGED <<header, committed, answer>>
  /\ Quiet /\ UNCHANGED rows

\* Nobody could serve: 503, or 502 if the upstream refused the context.  For a
\* Codex model that is the last step of its own handler.
NobodyServes ==
  /\ step = "next" /\ queue = <<>>
  /\ IF ask.model = "codex"
       THEN SendErr("codex", "unavailable")
       ELSE SendStatus("unavailable") /\ Log(FALSE)
  /\ Quiet /\ UNCHANGED <<queue, tries, failed, asked>>

-----------------------------------------------------------------------------
(* The Kiro loop: handleClaudeNonStream, handleOpenAINonStream and, as far *)
(* as the cascade sees them, the two stream handlers.                      *)

\* An account has no valid token, fails, or answers with nothing.
KiroAccountFails ==
  /\ step = "kiro" /\ tries < MaxAccountTries
  /\ tries' = tries + 1 /\ failed' = TRUE
  /\ Quiet /\ UNCHANGED <<step, queue, asked, header, committed, answer, rows>>

\* Mutant: the loop answers, and leaves the request to the others all the same.
KiroServesTwice ==
  /\ step = "kiro" /\ tries < MaxAccountTries
  /\ answer' = Append(answer, "ok") /\ Charge
  /\ step' = "next"
  /\ UNCHANGED <<ask, share, queue, tries, failed, asked, emptyKiro, header,
                 committed, splitEdits>>

\* No account is left, three have failed, or the time is up.
KiroGivesUp ==
  /\ step = "kiro"
  /\ step' = "next"
  /\ Log(failed)
  /\ Quiet /\ UNCHANGED <<queue, tries, failed, asked, header, committed, answer>>

KiroServes ==
  /\ step = "kiro" /\ tries < MaxAccountTries
  /\ Respond("ok") /\ Charge
  /\ UNCHANGED <<ask, share, queue, tries, failed, asked, emptyKiro, splitEdits>>

KiroBreaksOff ==
  /\ step = "kiro" /\ tries < MaxAccountTries /\ ask.stream
  /\ Respond("broken") /\ Log(TRUE)
  /\ Quiet /\ UNCHANGED <<queue, tries, failed, asked>>

-----------------------------------------------------------------------------
(* Grok and Codex: handleGrokWithFormat and handleCodexWithFormat.         *)

BackendServes(p) ==
  /\ step = p
  /\ Respond("ok") /\ Charge
  /\ UNCHANGED <<ask, share, queue, tries, failed, asked, emptyKiro, splitEdits>>

BackendBreaksOff(p) ==
  /\ step = p /\ ask.stream
  /\ Respond("broken") /\ Log(TRUE)
  /\ Quiet /\ UNCHANGED <<queue, tries, failed, asked>>

\* Every account failed, or there is none.  Codex asked for by name goes on to
\* Kiro, if that has accounts, and to a silent Grok.
BackendFails(p) ==
  /\ step = p
  /\ IF p = "codex" /\ ~Silent(p)
       THEN /\ queue' = <<"native", "grok">> /\ step' = "next"
            /\ UNCHANGED <<rows, answer, header, committed>>
       ELSE SendErr(p, "unavailable") /\ UNCHANGED queue
  /\ Quiet /\ UNCHANGED <<tries, failed, asked>>

\* The prompt is too long for every account.  A silent Grok answers all the
\* same; a silent Codex leaves the request to the next provider.
PromptTooLong(p) ==
  /\ step = p
  /\ IF p = "grok" /\ Silent(p) /\ ~(ask.stream /\ header)
       THEN SendStatus("bad request") /\ Log(FALSE)
       ELSE SendErr(p, "bad request")
  /\ Quiet /\ UNCHANGED <<queue, tries, failed, asked>>

\* apiSetGrokSplit, apiSetCodexSplit.
SetSplit ==
  /\ step # "done" /\ splitEdits < MaxSplitEdit
  /\ splitEdits' = splitEdits + 1
  /\ \E p \in Backend, n \in Share : share' = [share EXCEPT ![p] = n]
  /\ UNCHANGED <<ask, step, queue, tries, failed, asked, emptyKiro, header,
                 committed, answer, charged, rows>>

CascadeNext ==
  \/ Route \/ NextProvider \/ ExpandOrder \/ ExclusiveStop \/ EnterKiro \/ NobodyServes
  \/ KiroAccountFails \/ KiroGivesUp \/ KiroServes \/ KiroBreaksOff
  \/ \E p \in Backend :
       BackendServes(p) \/ BackendBreaksOff(p) \/ BackendFails(p) \/ PromptTooLong(p)
  \/ SetSplit

CascadeSpec == CascadeInit /\ [][CascadeNext]_cascadeVars

-----------------------------------------------------------------------------
(* Properties.                                                             *)

\* The client gets exactly one answer: no provider answers after another one
\* has, and the request does not end without an answer.  The key is charged and
\* a success is logged once, exactly when the client got the whole answer.  A
\* success has a failure beside it in the log only if Kiro had failed: what the
\* comments call the pattern of one OK and one Failed does not come from the
\* silent providers.
AnsweredAndBookedOnce ==
  /\ Len(answer) = IF step = "done" THEN 1 ELSE 0
  /\ step = "done" =>
       /\ charged = IF answer = <<"ok">> THEN 1 ELSE 0
       /\ Cardinality({i \in DOMAIN rows : rows[i] = "ok"}) = charged
       /\ answer = <<"ok">> /\ "kiro" \notin asked => rows = <<"ok">>

\* Of 100 requests in a row each provider gets its share; where the shares add
\* up to more than 100 the larger one, or Codex if they are equal, is kept.
SplitIsExact ==
  LET g == share["grok"]
      c == share["codex"]
      Got(p) == Cardinality({turn \in 0..99 : pickSplitProvider(turn) = p}) IN
  /\ Got("codex") = IF g + c <= 100 \/ c >= g THEN c ELSE 100 - g
  /\ Got("grok")  = IF g + c <= 100 \/ g > c  THEN g ELSE 100 - c

\* Who is asked follows from the shares.  A provider with a share gets its part of
\* the requests; a client is told that nobody is available only after every provider
\* was asked or found not ready, but an exclusive split leaves out Kiro and a
\* Grok model everyone else; and a split that gives everything to Grok and Codex
\* keeps requests from Kiro, except when the route saw no Kiro account that is
\* not cooling down.  (The shares may be changed in between.)
AskedAsShared ==
  /\ step = "route" /\ Grok + Codex > 0 => SplitIsExact
  /\ answer = <<"unavailable">> /\ ask.model # "grok" =>
       /\ Backend \subseteq asked
       /\ "kiro" \in asked \/ Grok + Codex = 100 \/ splitEdits > 0
  /\ step = "kiro" /\ ask.model = "kiro" /\ Grok + Codex = 100 /\ splitEdits = 0 => emptyKiro
=============================================================================
