--------------------------- MODULE ClaudeWriter ---------------------------
(***************************************************************************)
(* How handleClaudeStream turns upstream text, reasoning and tool calls    *)
(* into Anthropic events: the closures sendText, startContentBlock,        *)
(* closeActiveBlock and processClaudeText, as operators on the variables   *)
(* they share, collected in a writer w.  The events they send are queued   *)
(* in w.out.                                                               *)
(*                                                                         *)
(* Text is a sequence of pieces: stretches of text and the tags <thinking> *)
(* and </thinking>, which are never split here (the code holds back more   *)
(* runes than a tag has, so that it never sends half of one).              *)
(***************************************************************************)
EXTENDS Naturals, Sequences

CONSTANTS
  Hold,         \* pieces buffered outside a thinking tag (50 runes)
  HoldThinking, \* and inside one (20 runes)
  Keep          \* pieces that stay in the buffer when it is sent (15 runes)

ASSUME WriterAssumption ==
  /\ {Hold, HoldThinking} \subseteq Nat /\ Keep \in Nat \ {0}
  /\ Keep <= Hold /\ Keep <= HoldThinking

Option == [thinking: BOOLEAN, format: {"think", "reasoning_content", "thinking"},
           omit: BOOLEAN]

NoBlock == "none"

\* The variables of one attempt of the account loop; begun is messageStarted.
NewWriter(begun) ==
  [begun |-> begun, block |-> NoBlock, idx |-> 0, next |-> 0, buf |-> <<>>,
   inside |-> FALSE, drop |-> FALSE, source |-> "unknown", started |-> FALSE,
   eventOpen |-> FALSE, out |-> <<>>]

Event(e, i, kind, role, text) ==
  [e |-> e, i |-> i, kind |-> kind, role |-> role, text |-> text]
Send(w, ev) == [w EXCEPT !.out = Append(@, ev)]

ensureMessageStart(w) ==
  IF w.begun THEN w
  ELSE [Send(w, Event("message_start", 0, NoBlock, "none", <<>>)) EXCEPT !.begun = TRUE]

MutUnsignedThinking(w) ==
  IF w.block = NoBlock THEN w
  ELSE [Send(w, Event("block_stop", w.idx, w.block, "none", <<>>)) EXCEPT !.block = NoBlock]

closeActiveBlock(w) ==
  LET sign(x) == IF w.block = "thinking"
                 THEN Send(x, Event("signature", w.idx, w.block, "none", <<>>)) ELSE x
  IN  IF w.block = NoBlock THEN w
      ELSE [Send(sign(w), Event("block_stop", w.idx, w.block, "none", <<>>))
              EXCEPT !.block = NoBlock]

NextBlock(w, kind) ==
  [Send(w, Event("block_start", w.next, kind, "none", <<>>))
     EXCEPT !.block = kind, !.idx = w.next, !.next = @ + 1]

startContentBlock(w, kind) ==
  IF w.block = kind THEN w ELSE NextBlock(closeActiveBlock(ensureMessageStart(w)), kind)

Delta(w, kind, role, text) ==
  LET x == startContentBlock(w, kind)
  IN  Send(x, Event("delta", x.idx, kind, role, text))

\* sendText's thinkingState: 0 answer, 1 first thought, 2 more of it, 3 last; a
\* thought goes to the client in one of four ways.  The role of a delta is what
\* its text adds to the answer and to the thinking marks.
ThinkText(w, text, state) ==
  IF state = 2 /\ text = <<>> THEN w
  ELSE Delta(w, "text", CASE state = 1 -> "open" [] state = 2 -> "more" [] state = 3 -> "close", text)

PlainText(w, text) == IF text = <<>> THEN w ELSE Delta(w, "text", "shown", text)

OmittedThought(w, state) ==
  CASE state = 1 -> startContentBlock(w, "thinking")
    [] state = 2 -> w
    [] state = 3 -> closeActiveBlock(startContentBlock(w, "thinking"))

ThinkingBlock(w, text, state) ==
  LET x == IF text = <<>> THEN w ELSE Delta(w, "thinking", "shown", text)
  IN  IF state = 3 /\ x.block = "thinking" THEN closeActiveBlock(x) ELSE x

Thought(w, opt, text, state) ==
  CASE ~opt.thinking -> w
    [] opt.thinking /\ opt.format = "think" -> ThinkText(w, text, state)
    [] opt.thinking /\ opt.format = "reasoning_content" -> PlainText(w, text)
    [] opt.thinking /\ opt.format = "thinking" /\ opt.omit -> OmittedThought(w, state)
    [] opt.thinking /\ opt.format = "thinking" /\ ~opt.omit -> ThinkingBlock(w, text, state)

Answer(w, text) == IF text = <<>> THEN w ELSE Delta(w, "text", "answer", text)

sendText(w, opt, text, state) ==
  IF state = 0 THEN Answer(w, text) ELSE Thought(w, opt, text, state)

\* allowReasoningSource and allowTagSource: the first source of thoughts wins.
allowReasoningSource(w) == w.source # "tag"
allowTagSource(w)       == w.source # "event"

\* processClaudeText for a reasoning event.
Reason(w, opt, text) ==
  IF ~opt.thinking \/ ~allowReasoningSource(w) THEN w
  ELSE [sendText(w, opt, text, IF w.started THEN 2 ELSE 1)
          EXCEPT !.source = "event", !.started = TRUE, !.eventOpen = @ \/ ~w.started]

\* processClaudeText for text, up to its loop.
BufferText(w, opt, text) ==
  LET x == IF w.eventOpen
           THEN [sendText(w, opt, <<>>, 3) EXCEPT !.eventOpen = FALSE, !.started = FALSE]
           ELSE w
  IN  [x EXCEPT !.buf = @ \o text]

From(s, n) == SubSeq(s, n, Len(s))
Tags(w, k) == {i \in DOMAIN w.buf : w.buf[i].k = k}
First(S)   == CHOOSE i \in S : \A j \in S : i <= j

\* A whole thought that ends here, of which a part may have been sent.
LastThought(w, opt, text) ==
  IF w.drop THEN w
  ELSE IF w.started THEN sendText(w, opt, text, 3)
  ELSE sendText(sendText(w, opt, text, 1), opt, <<>>, 3)

\* The loop goes on after a tag and stops otherwise.
TagFound(w) == Tags(w, IF w.inside THEN "close" ELSE "open") # {}

OpenTag(w, opt) ==
  LET i == First(Tags(w, "open"))
      x == sendText(w, opt, SubSeq(w.buf, 1, i - 1), 0)
  IN  [x EXCEPT !.buf = From(w.buf, i + 1), !.inside = TRUE, !.drop = ~allowTagSource(w),
                !.source = IF @ = "unknown" THEN "tag" ELSE @, !.started = FALSE]

CloseTag(w, opt) ==
  LET i == First(Tags(w, "close"))
      x == LastThought(w, opt, SubSeq(w.buf, 1, i - 1))
  IN  [x EXCEPT !.buf = From(w.buf, i + 1), !.inside = FALSE, !.drop = FALSE, !.started = FALSE]

\* How much of the buffer goes out when it holds no tag.
Safe(w, hold, force) ==
  IF force THEN Len(w.buf) ELSE IF Len(w.buf) > hold THEN Len(w.buf) - Keep ELSE 0

SendAnswer(w, opt, force) ==
  LET n == Safe(w, Hold, force)
  IN  [sendText(w, opt, SubSeq(w.buf, 1, n), 0) EXCEPT !.buf = From(w.buf, n + 1)]

SendThought(w, opt, force) ==
  LET n    == Safe(w, HoldThinking, force)
      text == SubSeq(w.buf, 1, n)
      rest == From(w.buf, n + 1)
  IN  CASE force -> [(IF text = <<>> THEN w ELSE LastThought(w, opt, text))
                       EXCEPT !.buf = rest, !.inside = FALSE, !.drop = FALSE, !.started = FALSE]
        [] ~force /\ n = 0 -> w
        [] ~force /\ n > 0 /\ w.drop -> [w EXCEPT !.buf = rest]
        [] OTHER -> [sendText(w, opt, text, IF w.started THEN 2 ELSE 1)
                       EXCEPT !.buf = rest, !.started = TRUE]

MutNoForce(w, opt, force) ==
  CASE ~w.inside /\ TagFound(w) -> OpenTag(w, opt)
    [] w.inside /\ TagFound(w)  -> CloseTag(w, opt)
    [] ~w.inside /\ ~TagFound(w) -> SendAnswer(w, opt, FALSE)
    [] OTHER -> SendThought(w, opt, force)

\* One round of processClaudeText's loop.
Scan(w, opt, force) ==
  CASE ~w.inside /\ TagFound(w) -> OpenTag(w, opt)
    [] w.inside /\ TagFound(w)  -> CloseTag(w, opt)
    [] ~w.inside /\ ~TagFound(w) -> SendAnswer(w, opt, force)
    [] OTHER -> SendThought(w, opt, force)

\* OnToolUse, after its flush: a block of its own that is opened and closed.
ToolUse(w, tool) ==
  LET x == closeActiveBlock(ensureMessageStart(w))
      y == NextBlock(x, "tool_use")
      z == Send(y, Event("delta", y.idx, "tool_use", "tool", tool))
  IN  [Send(z, Event("block_stop", z.idx, "tool_use", "none", <<>>)) EXCEPT !.block = NoBlock]
=============================================================================
