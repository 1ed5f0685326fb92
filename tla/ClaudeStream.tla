--------------------------- MODULE ClaudeStream ---------------------------
(***************************************************************************)
(* One streamed /v1/messages request: handleClaudeStream's loop over       *)
(* accounts, CallKiroAPI's loop over endpoints, the parsing of the         *)
(* upstream's frames under the idle guard, what is written to the client   *)
(* (ClaudeWriter), and what is billed.                                     *)
(*                                                                         *)
(* Accounts are numbered in the order the pool hands them out; the pool    *)
(* never hands out an excluded one.  Keepalives and pings are stuttering   *)
(* steps: they add no event that the message is made of.                   *)
(* Definitions named Mut* are planted faults: each shows that a property   *)
(* notices the bug it is meant for. No behaviour of the spec uses them.    *)
(***************************************************************************)
EXTENDS ClaudeWriter, SequencesExt

CONSTANTS
  Chunk,       \* the texts a frame may carry, as sequences of kinds of pieces
  MaxAccount,  \* maxAccountRetryAttempts
  Endpoints,   \* how many endpoints the account may use
  MaxFrame,    \* bound on the frames of one stream
  FirstBeats,  \* heartbeats until the first-frame timeout
  IdleBeats    \* and until the idle timeout

ASSUME StreamAssumption ==
  /\ Chunk \subseteq Seq({"text", "open", "close"})
  /\ {MaxAccount, Endpoints, FirstBeats, IdleBeats} \subseteq Nat \ {0}
  /\ MaxFrame \in Nat

VARIABLES
  opt,      \* the request's thinking options
  pc,       \* what the handler does next
  fates,    \* how the accounts tried so far ended, in order
  call,     \* CallKiroAPI's progress: [account, at, shrank, arn]
  calls,    \* and how many requests it has made
  effort,   \* the payload's effort: "none", "low" or "high"
  retried,  \* effortRetried
  rejected, \* UpstreamRejectedContext
  err,      \* how the last attempt failed: "empty" (no content), "abort" (stalled
            \* or cut), "effort" (a 400 that names the effort), "other"
  stream,   \* the upstream stream: [frames, content, quiet, tool]
  said,     \* history: what this stream has said
  w,        \* the writer
  last,     \* the last event written to the client
  marked,   \* the client is between <think> and </think>
  heard,    \* history: the answer text and tool calls the client has got
  billed,   \* how often the request was billed
  result    \* "open", "served", "interrupted" or "fallback"

upstream == <<call, calls, err, stream, said>>
payload  == <<effort, retried, rejected>>
client   == <<last, marked, heard>>
vars     == <<opt, pc, fates, upstream, payload, w, client, billed, result>>

NewCall(account) == [account |-> account, at |-> 1, shrank |-> FALSE, arn |-> FALSE]
NewStream == [frames |-> 0, content |-> FALSE, quiet |-> 0, tool |-> FALSE]
Places    == 2 * Endpoints    \* each endpoint maxStreamAttemptsPerEndpoint times

Init ==
  /\ opt \in {o \in Option : /\ o.omit => o.thinking /\ o.format = "thinking"
                             /\ ~o.thinking => o.format = "think"}
  /\ pc = "pick" /\ fates = <<>>
  /\ call = NewCall(0) /\ calls = 0 /\ err = "none" /\ stream = NewStream /\ said = <<>>
  /\ effort \in {"none", "high"} /\ retried = FALSE /\ rejected = FALSE
  /\ w = NewWriter(FALSE)
  /\ last = Event("none", 0, NoBlock, "none", <<>>) /\ marked = FALSE /\ heard = <<>>
  /\ billed = 0 /\ result = "open"

\* The handler goes on only when what it has queued is on the wire.
At(p) == pc = p /\ w.out = <<>>

(***************************************************************************)
(* The loop over accounts, up to the call.                                 *)
(***************************************************************************)
GetNextForModelExcluding ==
  /\ At("pick") /\ Len(fates) < MaxAccount
  /\ pc' = "token" /\ w' = NewWriter(w.begun)
  /\ UNCHANGED <<opt, fates, upstream, payload, client, billed, result>>

\* No account is left, three were tried or the budget is gone: the caller goes
\* on to another provider or to an error.
GiveUp ==
  /\ At("pick")
  /\ pc' = "done" /\ result' = "fallback"
  /\ UNCHANGED <<opt, fates, upstream, payload, w, client, billed>>

\* CallKiroAPI's variables begin anew.
StartCall(account) ==
  /\ pc' = "call" /\ call' = NewCall(account)
  /\ calls' = 0 /\ err' = "none" /\ stream' = NewStream /\ said' = <<>>

ensureValidToken ==
  /\ At("token")
  /\ \/ StartCall(Len(fates) + 1) /\ UNCHANGED fates
     \/ fates' = Append(fates, "failed") /\ pc' = "pick" /\ UNCHANGED upstream
  /\ UNCHANGED <<opt, payload, w, client, billed, result>>

(***************************************************************************)
(* CallKiroAPI.                                                            *)
(***************************************************************************)
MutSkipTwo(again) == IF again THEN call.at + 1 ELSE call.at + 2

\* A repeat of the same endpoint comes at the even places, and is skipped
\* unless the stream failed in a way that is worth it (retrySameEndpoint).
NextPlace(again) == IF call.at % 2 = 1 /\ ~again THEN call.at + 2 ELSE call.at + 1

Request ==
  /\ At("call") /\ call.at <= Places
  /\ calls' = calls + 1

\* A transport error, 429, or a status that sends it to the next endpoint.
Refused ==
  /\ Request
  /\ err' \in {"effort", "abort", "other"}
  /\ call' = [call EXCEPT !.at = NextPlace(FALSE)]
  /\ UNCHANGED <<opt, pc, fates, stream, said, payload, w, client, billed, result>>

\* 401, 402 or 403.
Denied ==
  /\ Request
  /\ err' = "other" /\ pc' = "failed"
  /\ UNCHANGED <<opt, fates, call, stream, said, payload, w, client, billed, result>>

\* 403 "not authorized", and another profile was found.
reresolveAccountProfileArn ==
  /\ Request /\ ~call.arn
  /\ err' = "other" /\ call' = [call EXCEPT !.at = 1, !.arn = TRUE]
  /\ UNCHANGED <<opt, pc, fates, stream, said, payload, w, client, billed, result>>

MutShrinkAgain ==
  /\ Request
  /\ err' = "other" /\ call' = [call EXCEPT !.at = 1, !.shrank = TRUE]
  /\ UNCHANGED <<opt, pc, fates, stream, said, payload, w, client, billed, result>>

\* 400 "input is too long", and the payload could be made shorter.
shrinkPayload ==
  /\ Request /\ ~call.shrank
  /\ err' = "other" /\ call' = [call EXCEPT !.at = 1, !.shrank = TRUE]
  /\ UNCHANGED <<opt, pc, fates, stream, said, payload, w, client, billed, result>>

StartStream ==
  /\ Request
  /\ pc' = "stream" /\ stream' = NewStream /\ said' = <<>> /\ err' = "none"
  /\ UNCHANGED <<opt, fates, call, payload, w, client, billed, result>>

\* Every place was tried, or the request budget is gone.
AllFailed ==
  /\ At("call") /\ calls > 0
  /\ pc' = "failed"
  /\ UNCHANGED <<opt, fates, upstream, payload, w, client, billed, result>>

(***************************************************************************)
(* parseEventStream, its callbacks and its idle guard.                     *)
(***************************************************************************)
Frame(content, tool) ==
  /\ At("stream") /\ stream.frames < MaxFrame
  /\ stream' = [frames |-> stream.frames + 1, content |-> stream.content \/ content,
                quiet |-> 0, tool |-> tool]

\* The account, whether it is the retry without effort, and the request.
Attempt == <<call.account, retried, calls>>

Piece(kind, n) == [k |-> kind, by |-> Attempt, n |-> Len(said) + n]

OnText(c) ==
  LET text == [i \in DOMAIN c |-> Piece(c[i], i)]
  IN  /\ Frame(TRUE, stream.tool)
      /\ said' = said \o text
      /\ w' = BufferText(w, opt, text) /\ pc' = "text"
      /\ UNCHANGED <<opt, fates, call, calls, err, payload, client, billed, result>>

OnReasoning ==
  LET thought == <<Piece("think", 1)>>
  IN  /\ Frame(TRUE, stream.tool)
      /\ said' = said \o thought
      /\ w' = Reason(w, opt, thought)
      /\ UNCHANGED <<opt, pc, fates, call, calls, err, payload, client, billed, result>>

\* A part of a tool call.  Its last part, or the first of another, makes the
\* callback.
handleToolUseEvent ==
  \/ /\ Frame(TRUE, TRUE)
     /\ UNCHANGED <<opt, pc, fates, call, calls, err, said, payload, w, client, billed, result>>
  \/ /\ \E another \in {FALSE, stream.tool} : Frame(TRUE, another)
     /\ said' = Append(said, Piece("tool", 1))
     /\ w' = BufferText(w, opt, <<>>) /\ pc' = "tool"
     /\ UNCHANGED <<opt, fates, call, calls, err, payload, client, billed, result>>

\* Frames that make no callback: a tool event without a name, and metering.
OtherFrame ==
  /\ \E content \in BOOLEAN : Frame(content, stream.tool)
  /\ UNCHANGED <<opt, pc, fates, call, calls, err, said, payload, w, client, billed, result>>

MutBeatResets ==
  /\ At("stream")
  /\ stream.quiet < IF stream.frames = 0 THEN FirstBeats ELSE IdleBeats
  /\ stream' = [stream EXCEPT !.quiet = 0]
  /\ UNCHANGED <<opt, pc, fates, call, calls, err, said, payload, w, client, billed, result>>

\* A heartbeat interval passes without a frame; the ping changes nothing.
Beat ==
  /\ At("stream")
  /\ stream.quiet < IF stream.frames = 0 THEN FirstBeats ELSE IdleBeats
  /\ stream' = [stream EXCEPT !.quiet = @ + 1]
  /\ UNCHANGED <<opt, pc, fates, call, calls, err, said, payload, w, client, billed, result>>

\* The guard cancels the request, and the pending read fails.
Stall ==
  /\ At("stream")
  /\ stream.quiet >= IF stream.frames = 0 THEN FirstBeats ELSE IdleBeats
  /\ err' = "abort" /\ pc' = "failed"
  /\ UNCHANGED <<opt, fates, call, calls, stream, said, payload, w, client, billed, result>>

Again(e) ==
  /\ err' = e /\ pc' = "call" /\ call' = [call EXCEPT !.at = NextPlace(TRUE)]
  /\ UNCHANGED said /\ UNCHANGED w

\* The end of the stream, or a connection cut after some frame, which is taken
\* for the end; a tool call under way is finished with what there is of it.
StreamEnds ==
  /\ At("stream")
  /\ \/ ~stream.content /\ Again("empty")
     \/ /\ stream.content /\ stream.tool
        /\ said' = Append(said, Piece("tool", 1))
        /\ w' = BufferText(w, opt, <<>>) /\ pc' = "lastTool"
        /\ UNCHANGED <<call, err>>
     \/ /\ stream.content /\ ~stream.tool
        /\ pc' = "whole" /\ UNCHANGED <<call, err, said, w>>
  /\ UNCHANGED <<opt, fates, calls, stream, payload, client, billed, result>>

Fails(e) == err' = e /\ pc' = "failed" /\ UNCHANGED <<call, said, w>>

MutRetryEmitted ==
  /\ At("stream")
  /\ Fails("abort") \/ (~w.begun /\ Again("abort"))
  /\ UNCHANGED <<opt, fates, calls, stream, payload, client, billed, result>>

\* Any other read error; a timeout is not tried again.
StreamBreaks ==
  /\ At("stream")
  /\ Fails("abort") \/ (~stream.content /\ Again("abort"))
  /\ UNCHANGED <<opt, fates, calls, stream, payload, client, billed, result>>

(***************************************************************************)
(* Writing: the loop of processClaudeText, and the events it queued.       *)
(***************************************************************************)
sendSSELocked ==
  /\ w.out # <<>>
  /\ LET ev == Head(w.out)
     IN  /\ last' = [ev EXCEPT !.text = <<>>]
         /\ marked' = CASE ev.role = "open" -> TRUE [] ev.role = "close" -> FALSE
                        [] OTHER -> marked
         /\ heard' = IF ev.role \in {"answer", "tool"} THEN heard \o ev.text ELSE heard
  /\ w' = [w EXCEPT !.out = Tail(@)]
  /\ UNCHANGED <<opt, pc, fates, upstream, payload, billed, result>>

Forced == pc # "text"

EndMessage(x) ==
  Send(Send(ensureMessageStart(x), Event("message_delta", 0, NoBlock, "none", <<>>)),
       Event("message_stop", 0, NoBlock, "none", <<>>))

processClaudeText ==
  /\ pc \in {"text", "tool", "lastTool", "flush", "cut"} /\ w.out = <<>>
  /\ LET x == Scan(w, opt, Forced)
     IN  IF TagFound(w)
         THEN w' = x /\ UNCHANGED <<pc, result>>
         ELSE CASE pc = "text"     -> w' = x /\ pc' = "stream" /\ UNCHANGED result
                [] pc = "tool"     -> /\ w' = ToolUse(x, <<said[Len(said)]>>)
                                      /\ pc' = "stream" /\ UNCHANGED result
                [] pc = "lastTool" -> /\ w' = ToolUse(x, <<said[Len(said)]>>)
                                      /\ pc' = "whole" /\ UNCHANGED result
                [] pc = "flush"    -> /\ w' = closeActiveBlock(x)
                                      /\ pc' = "bill" /\ UNCHANGED result
                [] pc = "cut"      -> /\ w' = EndMessage(closeActiveBlock(x))
                                      /\ pc' = "done" /\ result' = "interrupted"
  /\ UNCHANGED <<opt, fates, upstream, payload, client, billed>>

(***************************************************************************)
(* After the call.                                                         *)
(***************************************************************************)
\* A 400 that names the effort fields, or an empty stream: once more, without.
RetryWithoutEffort ==
  /\ At("failed") /\ ~w.begun /\ ~retried /\ effort # "none" /\ err \in {"empty", "effort"}
  /\ retried' = TRUE /\ effort' = "none"
  /\ StartCall(call.account)
  /\ UNCHANGED <<opt, fates, rejected, w, client, billed, result>>

reduceEffort == IF effort = "high" THEN "low" ELSE effort

\* What the account is charged with; handleAccountFailure's cooldowns and bans
\* are the pool's.
Fate == IF err = "empty" THEN "empty" ELSE "failed"

MutAlwaysFailOver ==
  /\ At("failed")
  /\ ~w.begun => retried \/ effort = "none" \/ err \notin {"empty", "effort"}
  /\ fates' = Append(fates, Fate)
  /\ pc' = "pick"
  /\ UNCHANGED <<opt, upstream, payload, w, client, billed, result>>

\* Before anything of the message was sent another account is tried; after
\* that the message is ended as if it were whole.
AccountFails ==
  /\ At("failed")
  /\ ~w.begun => retried \/ effort = "none" \/ err \notin {"empty", "effort"}
  /\ fates' = Append(fates, Fate)
  /\ rejected' = (rejected \/ err = "empty")
  /\ effort' = IF ~w.begun /\ err \in {"empty", "abort"} THEN reduceEffort ELSE effort
  /\ IF w.begun THEN pc' = "cut" /\ w' = BufferText(w, opt, <<>>)
                ELSE pc' = "pick" /\ UNCHANGED w
  /\ UNCHANGED <<opt, upstream, retried, client, billed, result>>

\* Success without text, thought or tool call: no fault of the account.
EmptyReply ==
  /\ At("whole") /\ ~w.begun /\ said = <<>>
  /\ fates' = Append(fates, "blank") /\ rejected' = TRUE /\ pc' = "pick"
  /\ UNCHANGED <<opt, upstream, effort, retried, w, client, billed, result>>

Flush ==
  /\ At("whole") /\ (w.begun \/ said # <<>>)
  /\ w' = BufferText(w, opt, <<>>) /\ pc' = "flush"
  /\ UNCHANGED <<opt, fates, upstream, payload, client, billed, result>>

recordSuccessForApiKey ==
  /\ At("bill")
  /\ billed' = billed + 1 /\ fates' = Append(fates, "served")
  /\ w' = EndMessage(w) /\ pc' = "done" /\ result' = "served"
  /\ UNCHANGED <<opt, upstream, payload, client>>

Done == At("done") /\ UNCHANGED vars

CallKiroAPI ==
  Refused \/ Denied \/ reresolveAccountProfileArn \/ shrinkPayload \/ StartStream \/ AllFailed

Upstream ==
  \/ \E c \in Chunk : OnText(c)
  \/ OnReasoning \/ handleToolUseEvent \/ OtherFrame \/ StreamEnds \/ StreamBreaks

handleClaudeStream ==
  \/ GetNextForModelExcluding \/ GiveUp \/ ensureValidToken
  \/ CallKiroAPI \/ processClaudeText \/ sendSSELocked
  \/ RetryWithoutEffort \/ AccountFails \/ EmptyReply \/ Flush \/ recordSuccessForApiKey

Next == handleClaudeStream \/ Upstream \/ Beat \/ Stall \/ Done

\* The handler goes on, since the wait for response headers is bounded, and the
\* guard's timers fire; the upstream may fall silent at any moment.
Spec == Init /\ [][Next]_vars /\ WF_vars(handleClaudeStream) /\ WF_vars(Beat) /\ WF_vars(Stall)

-----------------------------------------------------------------------------
\* The types of the handler's variables.
TypeOK ==
  /\ opt \in Option
  /\ pc \in {"pick", "token", "call", "stream", "text", "tool", "lastTool", "failed",
             "whole", "flush", "cut", "bill", "done"}
  /\ \A i \in DOMAIN fates : fates[i] \in {"empty", "failed", "blank", "served"}
  /\ call \in [account: 0..MaxAccount, at: 1..Places + 1, shrank: BOOLEAN, arn: BOOLEAN]
  /\ effort \in {"none", "low", "high"} /\ {retried, rejected, marked} \subseteq BOOLEAN
  /\ stream \in [frames: 0..MaxFrame, content: BOOLEAN, quiet: Nat, tool: BOOLEAN]
  /\ w.block \in {NoBlock, "text", "thinking"} /\ w.source \in {"unknown", "event", "tag"}
  /\ billed \in Nat /\ result \in {"open", "served", "interrupted", "fallback"}

Phase ==
  CASE last.e = "none"          -> "new"
    [] last.e \in {"message_start", "block_stop"} -> "between"
    [] last.e \in {"block_start", "delta"} -> "open"
    [] last.e = "signature"     -> "signed"
    [] last.e = "message_delta" -> "ending"
    [] last.e = "message_stop"  -> "over"

Protocol == INSTANCE SseProtocol WITH
  phase  <- Phase,
  kind   <- IF Phase \in {"open", "signed"} THEN last.kind ELSE NoBlock,
  index  <- IF last.e = "block_stop" THEN last.i + 1 ELSE last.i,
  marked <- marked

\* Whatever the upstream sends and wherever it breaks off, the client reads a
\* well-formed Anthropic event stream.
ImplementsProtocol == Protocol!Spec

\* A client never gets pieces of two upstream replies: neither what it has read
\* nor what is held back for it comes from an earlier attempt.
OneAuthor ==
  pc \notin {"pick", "token"} =>
    \A p \in Range(heard) \cup Range(w.buf) : p.by = Attempt

\* The answer in a reply, told from thinking by its tags alone; a tool call
\* ends the thinking it falls into.
ReadPiece(a, p) ==
  CASE p.k = "think" -> a
    [] p.k = "tool"  -> [inside |-> FALSE, text |-> Append(a.text, p)]
    [] p.k = "open" /\ ~a.inside -> [a EXCEPT !.inside = TRUE]
    [] p.k = "close" /\ a.inside -> [a EXCEPT !.inside = FALSE]
    [] OTHER -> IF a.inside THEN a ELSE [a EXCEPT !.text = Append(@, p)]

ReadOn(a, s) ==
  LET read[n \in 0..Len(s)] == IF n = 0 THEN a ELSE ReadPiece(read[n - 1], s[n])
  IN  read[Len(s)]

Unread == [inside |-> FALSE, text |-> <<>>]

AnswerOf(s) == ReadOn(Unread, s).text

\* A message that has ended holds the whole answer that came, in order and
\* once, however it was cut into frames and held back; it is billed once if the
\* upstream ended it, and not at all if it was interrupted.
ReplyIsExact ==
  pc = "done" /\ w.out = <<>> /\ result \in {"served", "interrupted"} =>
    /\ heard = AnswerOf(said)
    /\ billed = IF result = "served" THEN 1 ELSE 0

\* When the handler leaves the request to another provider nothing of a message
\* is on the wire and nothing is billed.
FallbackIsClean == result = "fallback" => last.e = "none" /\ billed = 0

\* The retries inside a call multiply to a bound: an endpoint twice, and all
\* endpoints anew after a shorter payload and after a better profile.
CallsAreBounded == calls <= 3 * Places

\* A request ends, even if every upstream falls silent: heartbeats do not keep a
\* dead stream alive.
RequestEnds == <>(pc = "done")

\* "upstreamContextRejectedMessage is returned when every backend answered with
\* an empty reply": it is returned when one of them did.
ContextBlamedIfAllEmpty ==
  result = "fallback" /\ rejected =>
    \A i \in DOMAIN fates : fates[i] \in {"empty", "blank"}
=============================================================================
