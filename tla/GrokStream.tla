----------------------------- MODULE GrokStream -----------------------------
(***************************************************************************)
(* How a reply of the Responses API, from Grok or Codex, reaches the       *)
(* client of kiro-go: live, as chunks for an OpenAI client or as blocks    *)
(* for an Anthropic client, or collected first and sent as JSON.           *)
(*                                                                         *)
(* Text is a sequence of "w" (a letter), "sp" (a space) and "x", "y": the  *)
(* two halves of a provider's name, which a silent provider must not let   *)
(* through.  "c" is what the name is rewritten to; it is shorter.  Some    *)
(* names may be written with a space inside, such as "Open AI".            *)
(* The client asked for thinking; tags inside the text are left out.       *)
(*                                                                         *)
(* The upstream speaks of one call at a time: announced with a part of its *)
(* arguments or none, argument deltas, and done with the whole of them.    *)
(* Text may come in between, and a call may show only when it is done, or  *)
(* only in the snapshot.                                                   *)
(***************************************************************************)
EXTENDS Integers, Sequences, SequencesExt

CONSTANTS
  Piece,    \* texts a delta of the upstream may bring
  MaxHold,  \* the longest text without a space that is held back, 64
  MaxEvent  \* bound: events of the upstream

VARIABLES
  style,    \* the client's format and whether the provider is silent
  spoken,   \* what the upstream said, and what of it came as deltas; its thinking
            \* as it was read, with the summaries that repeat it
  live,     \* the writer: what was sent, what is held back, what is open
  events,   \* counts up to MaxEvent
  livePc    \* "read", "done", "broken"

grokVars == <<style, spoken, live, events, livePc>>

Symbol == {"w", "sp", "x", "y", "c"}

ASSUME GrokAssumption ==
  /\ Piece \subseteq Seq(Symbol) /\ <<>> \notin Piece
  /\ MaxHold \in Nat /\ MaxEvent \in Nat

Scrubber == [pend: Seq(Symbol), heard: Seq(Symbol)]

\* What the upstream said of a call: the parts of its arguments, and whether it
\* is announced, cut by text, done after either, only done, or only in the snapshot.
ToolCall == [args: Nat, how: {"open", "cut", "done", "resumed", "late", "missed"}]

GrokStreamTypeOK ==
  /\ style \in [format: {"openai", "claude", "json"}, silent: BOOLEAN]
  /\ spoken \in [text: Seq(Symbol), sent: Seq(Symbol), thought: Seq(Symbol),
               aloud: Seq(Symbol), snapshot: BOOLEAN, calls: Seq(ToolCall)]
  /\ live \in [text: Scrubber, think: Scrubber, best: Seq(Symbol), open: SUBSET {"text", "thinking", "tool"},
               cur: BOOLEAN, calls: Seq(Seq(Nat)), overlap: BOOLEAN]
  /\ events \in 0..MaxEvent
  /\ livePc \in {"read", "done", "broken"}

Nothing == [pend |-> <<>>, heard |-> <<>>]

GrokStreamInit ==
  /\ style \in [format: {"openai", "claude", "json"}, silent: BOOLEAN]
  /\ spoken = [text |-> <<>>, sent |-> <<>>, thought |-> <<>>, aloud |-> <<>>,
             snapshot |-> FALSE, calls |-> <<>>]
  /\ live = [text |-> Nothing, think |-> Nothing, best |-> <<>>, open |-> {},
             cur |-> FALSE, calls |-> <<>>, overlap |-> FALSE]
  /\ events = 0 /\ livePc = "read"

-----------------------------------------------------------------------------
(* The scrubber.                                                           *)

\* A name becomes "c", also one with a space inside.
Rename(out, s) ==
  LET n == Len(out) IN
  IF s = "y" /\ n >= 1 /\ out[n] = "x" THEN Append(Front(out), "c")
  ELSE IF s = "y" /\ n >= 2 /\ out[n] = "sp" /\ out[n - 1] = "x"
    THEN Append(SubSeq(out, 1, n - 2), "c")
  ELSE Append(out, s)

Renamed(t) ==
  LET out[n \in 0..Len(t)] == IF n = 0 THEN <<>> ELSE Rename(out[n - 1], t[n])
  IN  out[Len(t)]

Rewritten(t) == IF style.silent THEN Renamed(t) ELSE t

Cut(t) == LET spaces == {i \in DOMAIN t : t[i] = "sp"} IN
          IF spaces = {} THEN 0 ELSE CHOOSE i \in spaces : \A j \in spaces : j <= i

\* Mutant: what is held back is forgotten at the end.
FlushNothing(s) == [s EXCEPT !.pend = <<>>]

\* Mutant: nothing is held back.
ScrubAtOnce(s, d) == [pend |-> <<>>, heard |-> s.heard \o Rewritten(d)]

\* What follows the last space may be half a name: it waits for more, up to
\* MaxHold.
Scrub(s, d) ==
  LET all == s.pend \o d
      cut == IF Cut(all) > 0 THEN Cut(all)
             ELSE IF Len(all) > MaxHold THEN Len(all) - MaxHold ELSE 0
  IN
  [pend |-> SubSeq(all, cut + 1, Len(all)),
   heard |-> s.heard \o Rewritten(SubSeq(all, 1, cut))]

Flush(s) == [pend |-> <<>>, heard |-> s.heard \o Rewritten(s.pend)]

\* What the snapshot of the whole text has more than the client got: all of it,
\* if what the client got is not how it begins.
Rest(best, got) ==
  IF Len(best) <= Len(got) THEN <<>>
  ELSE IF IsPrefix(got, best) THEN SubSeq(best, Len(got) + 1, Len(best)) ELSE best

-----------------------------------------------------------------------------
(* The writer; blocks exist only for an Anthropic client.                  *)

OpenBlock(v, kind) ==
  IF style.format # "claude" \/ kind \in v.open THEN v
  ELSE [v EXCEPT !.open = @ \cup {kind}, !.overlap = @ \/ v.open # {}]

CloseBlock(v, kind) == [v EXCEPT !.open = @ \ {kind}]

\* Something of a scrubber was sent: its block is opened first, and a block of
\* text ends the thinking before it.
SendPart(v, part, s) ==
  IF s.heard = v[part].heard THEN [v EXCEPT ![part] = s]
  ELSE IF part = "think" THEN [OpenBlock(v, "thinking") EXCEPT ![part] = s]
  ELSE [OpenBlock(IF "text" \in v.open THEN v ELSE CloseBlock(v, "thinking"), "text")
         EXCEPT ![part] = s]

Emit(v, part, d) == IF d = <<>> THEN v ELSE SendPart(v, part, Scrub(v[part], d))
Drain(v, part) == SendPart(v, part, Flush(v[part]))

\* finishFC: the call that is being written is complete.
FinishCall(v) == IF v.cur THEN [CloseBlock(v, "tool") EXCEPT !.cur = FALSE] ELSE v

Raw(v, part, d) == [v EXCEPT ![part].heard = @ \o d]

-----------------------------------------------------------------------------
(* The events of the upstream.  live.calls[i] lists how the client was     *)
(* handed the upstream's call i: the arguments it got each time.  live.cur *)
(* says that the last one is being written.                                *)

Reading == livePc = "read" /\ events < MaxEvent /\ events' = events + 1

ReasoningDelta ==
  /\ Reading
  /\ \E d \in Piece :
       /\ spoken' = [spoken EXCEPT !.thought = @ \o d, !.aloud = @ \o d]
       /\ live' = IF style.format = "json" THEN Raw(live, "think", d)
                                          ELSE Emit(live, "think", d)
  /\ UNCHANGED <<style, livePc>>

\* The finished reasoning item repeats its whole summary, which is read as one
\* more delta, and kept as the best thinking so far.
ReasoningItemDone ==
  /\ Reading
  /\ spoken.thought # <<>>
  /\ spoken' = [spoken EXCEPT !.aloud = @ \o spoken.thought]
  /\ LET v == [live EXCEPT !.best = spoken.thought] IN
     live' = IF style.format = "json" THEN Raw(v, "think", spoken.thought)
                                      ELSE Emit(v, "think", spoken.thought)
  /\ UNCHANGED <<style, livePc>>

Last1(s) == s[Len(s)]
Relast(s, x) == Append(Front(s), x)

\* The upstream is not through with the last call.
InCall == spoken.calls # <<>> /\ Last1(spoken.calls).how \in {"open", "cut"}

Interrupted(calls) ==
  IF InCall THEN Relast(calls, [args |-> Last1(calls).args, how |-> "cut"]) ELSE calls

\* Text ends the call that is being written.
TextDelta ==
  /\ Reading
  /\ \E d \in Piece :
       /\ spoken' = [spoken EXCEPT !.text = @ \o d, !.sent = @ \o d, !.calls = Interrupted(@)]
       /\ live' = IF style.format = "json" THEN Raw(live, "text", d)
                                          ELSE Emit(FinishCall(live), "text", d)
  /\ UNCHANGED <<style, livePc>>

\* Text that only the snapshot will hold.
MissedDelta ==
  /\ Reading
  /\ \E d \in Piece : spoken' = [spoken EXCEPT !.text = @ \o d]
  /\ UNCHANGED <<style, live, livePc>>

\* output_item.added announces a call, with its first arguments or none; it ends
\* the one before it.  The collector waits for the end of the call.
CallAdded ==
  /\ Reading
  /\ \E n \in 0..1 :
       /\ spoken' = [spoken EXCEPT !.calls = Append(@, [args |-> n, how |-> "open"])]
       /\ live' = IF style.format = "json" THEN [live EXCEPT !.calls = Append(@, <<>>)]
                  ELSE [OpenBlock(FinishCall(CloseBlock(CloseBlock(live, "thinking"), "text")), "tool")
                         EXCEPT !.cur = TRUE, !.calls = Append(@, <<n>>)]
  /\ UNCHANGED <<style, livePc>>

\* More of its arguments; the writers drop what comes after a text.
CallArguments ==
  /\ Reading
  /\ InCall
  /\ LET call == Last1(spoken.calls) IN
       /\ spoken' = [spoken EXCEPT !.calls = Relast(@, [args |-> call.args + 1, how |-> call.how])]
       /\ live' = IF live.cur THEN [live EXCEPT !.calls = Relast(@, <<call.args + 1>>)] ELSE live
  /\ UNCHANGED <<style, livePc>>

Ended(how) == IF how = "open" THEN "done" ELSE "resumed"

\* Mutant: the whole arguments are sent although their parts were.
CallDoneRepeats ==
  /\ Reading
  /\ InCall
  /\ LET call == Last1(spoken.calls) IN
       /\ spoken' = [spoken EXCEPT !.calls = Relast(@, [args |-> call.args, how |-> Ended(call.how)])]
       /\ live' = [FinishCall(live) EXCEPT !.calls = Relast(@, <<call.args + call.args>>)]
  /\ UNCHANGED <<style, livePc>>

\* output_item.done of an announced call.  Arguments the client has nothing of are
\* filled in from it; a call that a text cut is announced to an OpenAI client
\* once more, whole.
CallDone ==
  /\ Reading
  /\ InCall
  /\ \E n \in 0..1 :
       LET call  == Last1(spoken.calls)
           whole == IF call.args = 0 THEN n ELSE call.args
           again == CASE live.cur                             -> <<whole>>
                      [] ~live.cur /\ style.format = "claude" -> Last1(live.calls)
                      [] ~live.cur /\ style.format # "claude" -> Append(Last1(live.calls), whole)
       IN
       /\ spoken' = [spoken EXCEPT !.calls = Relast(@, [args |-> whole, how |-> Ended(call.how)])]
       /\ live' = [FinishCall(live) EXCEPT !.calls = Relast(@, again)]
  /\ UNCHANGED <<style, livePc>>

\* A call that appears only when it is done: chunks and JSON have it, the writer
\* of blocks passes it over; or only in the snapshot.
CallOnlyDone ==
  /\ Reading
  /\ ~InCall
  /\ \E n \in 0..1, how \in {"late", "missed"} :
       /\ spoken' = [spoken EXCEPT !.calls = Append(@, [args |-> n, how |-> how])]
       /\ live' = [live EXCEPT !.calls =
                     Append(@, IF how = "missed" \/ style.format = "claude" THEN <<>> ELSE <<n>>)]
  /\ UNCHANGED <<style, livePc>>

-----------------------------------------------------------------------------
(* The end of the reply, with a snapshot of it or without.                 *)

BestThinking(snap) == IF snap THEN spoken.thought ELSE live.best

Finished(v) == CloseBlock(CloseBlock(FinishCall(v), "thinking"), "text")

\* Chunks: the held back text is sent first, then what the snapshot has more.
EndChunks(snap) ==
  LET a == Drain(Drain(live, "think"), "text")
      b == Emit(a, "think", Rest(BestThinking(snap), a.think.heard))
  IN live' = Finished([b EXCEPT !.text.heard =
                         @ \o Rewritten(Rest(IF snap THEN spoken.text ELSE <<>>, a.text.heard))])

\* Blocks: the other way round.
EndBlocks(snap) ==
  LET a == CloseBlock(Emit(live, "think", Rest(BestThinking(snap), live.think.heard)),
                 "thinking")
      b == Emit(a, "text", Rest(IF snap THEN spoken.text ELSE <<>>, a.text.heard))
  IN live' = Finished(Drain(Drain(b, "think"), "text"))

\* JSON: the longer of the deltas and the snapshot, rewritten as a whole, and the
\* snapshot's calls that are not there yet.
EndCollected(snap) ==
  LET Best(part, whole) ==
        Rewritten(IF whole # <<>> /\ Len(whole) >= Len(live[part].heard)
                    THEN whole ELSE live[part].heard)
      Calls == [i \in DOMAIN live.calls |->
                  IF snap /\ live.calls[i] = <<>> THEN <<spoken.calls[i].args>> ELSE live.calls[i]]
  IN live' = [live EXCEPT !.text.heard = Best("text", IF snap THEN spoken.text ELSE <<>>),
                          !.think.heard = Best("think", BestThinking(snap)),
                          !.calls = Calls]

EndReply ==
  /\ livePc = "read"
  /\ livePc' = "done"
  /\ \E snap \in BOOLEAN :
       /\ spoken' = [spoken EXCEPT !.snapshot = snap]
       /\ CASE style.format = "openai" -> EndChunks(snap)
            [] style.format = "claude" -> EndBlocks(snap)
            [] style.format = "json"   -> EndCollected(snap)
  /\ UNCHANGED <<style, events>>

\* The connection breaks: a stream just ends, JSON is made of what there is.
BreakReply ==
  /\ livePc = "read"
  /\ IF style.format = "json" /\ (live.text.heard # <<>> \/ \E i \in DOMAIN live.calls : live.calls[i] # <<>>)
       THEN livePc' = "done" /\ EndCollected(FALSE)
       ELSE livePc' = "broken" /\ UNCHANGED live
  /\ spoken' = spoken
  /\ UNCHANGED <<style, events>>

GrokStreamNext ==
  \/ ReasoningDelta \/ ReasoningItemDone \/ TextDelta \/ MissedDelta
  \/ CallAdded \/ CallArguments \/ CallDone \/ CallOnlyDone
  \/ EndReply \/ BreakReply

GrokStreamSpec == GrokStreamInit /\ [][GrokStreamNext]_grokVars

-----------------------------------------------------------------------------
(* Properties.                                                             *)

Expected == IF spoken.snapshot THEN spoken.text ELSE spoken.sent

\* A client that got the end of a reply got its text, whole and once.  For
\* JSON always; for chunks and blocks if what is missing is the end of the text
\* and no name in it was rewritten.  Blocks are left out when a snapshot comes:
\* their writer fills in before it lets go of what it holds back, which is then
\* sent twice.
TextIsWhole ==
  livePc = "done" =>
    IF style.format = "json" THEN live.text.heard = Rewritten(Expected)
    ELSE (/\ IsPrefix(spoken.sent, spoken.text) /\ Rewritten(spoken.text) = spoken.text
          /\ style.format = "claude" => ~spoken.snapshot)
           => live.text.heard = Expected

HasName(t) == \E i \in 1..(Len(t) - 1) : SubSeq(t, i, i + 1) = <<"x", "y">>
LongRun(t) == \E i \in 1..(Len(t) - MaxHold) : \A j \in i..(i + MaxHold) : t[j] # "sp"

\* A silent provider's name does not reach the client in two halves, however
\* the upstream cuts its text: if no delta is missing, what was read has no run
\* without a space that is longer than MaxHold, and nothing was sent after what
\* was held back: no snapshot, and no thinking that a summary repeated.
NoNameInHalves ==
  /\ style.silent /\ spoken.sent = spoken.text
  /\ IF style.format = "json" THEN livePc = "done" ELSE ~spoken.snapshot
  => /\ HasName(live.text.heard) => LongRun(spoken.text)
     /\ style.format = "json" \/ livePc # "done" \/ live.best = <<>>
          => (HasName(live.think.heard) => LongRun(spoken.aloud))

\* What the client has of a call, over all the times it was handed to it.
HandedOn(call, got) ==
  IF style.format = "json"
    THEN got = IF call.how \in {"done", "resumed", "late"} \/ spoken.snapshot
                 THEN <<call.args>> ELSE <<>>
    ELSE CASE call.how \in {"open", "done"} -> got = <<call.args>>
           [] call.how = "cut"     -> Len(got) = 1 /\ got[1] <= call.args
           [] call.how = "resumed" -> IF style.format = "claude" THEN Len(got) = 1 /\ got[1] <= call.args
                                      ELSE Len(got) = 2 /\ got[1] <= call.args /\ got[2] = call.args
           [] call.how = "late"    -> got = IF style.format = "claude" THEN <<>> ELSE <<call.args>>
           [] call.how = "missed"  -> got = <<>>

\* A client gets every call the upstream announced, once and with all the
\* arguments said so far, however they are divided between its first event, the
\* deltas and its last, and whatever calls come before and after it.  A text
\* inside the call breaks this: an Anthropic client keeps the part before the
\* text, an OpenAI client gets the call a second time, whole, when it is done.
\* JSON has every call that was done or is in the snapshot, once and whole.
\* And while the upstream speaks without thinking, blocks of text and of calls
\* follow each other, and the closings at the end leave no block open.  (What was
\* held back is sent at the end, and may open its block inside a call's.)
CallsAreWhole ==
  /\ DOMAIN live.calls = DOMAIN spoken.calls
  /\ \A i \in DOMAIN spoken.calls : HandedOn(spoken.calls[i], live.calls[i])
  /\ livePc = "done" => live.open = {}
  /\ livePc = "read" /\ spoken.thought = <<>> => ~live.overlap

=============================================================================
