---------------------------- MODULE SseProtocol ----------------------------
(***************************************************************************)
(* The event stream an Anthropic client accepts: one message, made of      *)
(* content blocks that follow each other with consecutive indices, every   *)
(* thinking block signed before it ends, and nothing after message_stop.   *)
(* Where thinking is shown inside the text, its <think> marks match, and   *)
(* neither a tool call nor the end of the message falls between them.      *)
(* ping events may come at any time and are stuttering steps.              *)
(***************************************************************************)
EXTENDS Naturals

VARIABLES
  phase,   \* "new", "between" (blocks), "open", "signed", "ending", "over"
  kind,    \* kind of the open block
  index,   \* index of the open block, or of the next one
  marked   \* inside <think> ... </think>

pvars == <<phase, kind, index, marked>>

Init == phase = "new" /\ kind = "none" /\ index = 0 /\ marked = FALSE

MessageStart ==
  /\ phase = "new" /\ phase' = "between"
  /\ UNCHANGED <<kind, index, marked>>

BlockStart ==
  /\ phase = "between" /\ phase' = "open"
  /\ kind' \in {"text", "thinking", "tool_use"}
  /\ kind' = "tool_use" => ~marked
  /\ UNCHANGED <<index, marked>>

Delta ==
  /\ phase = "open"
  /\ marked' \in IF kind = "text" THEN BOOLEAN ELSE {marked}
  /\ UNCHANGED <<phase, kind, index>>

Sign ==
  /\ phase = "open" /\ kind = "thinking" /\ phase' = "signed"
  /\ UNCHANGED <<kind, index, marked>>

BlockStop ==
  /\ phase = IF kind = "thinking" THEN "signed" ELSE "open"
  /\ phase' = "between" /\ kind' = "none" /\ index' = index + 1
  /\ UNCHANGED marked

MessageDelta ==
  /\ phase = "between" /\ ~marked
  /\ phase' = "ending" /\ index' = 0
  /\ UNCHANGED <<kind, marked>>

MessageStop ==
  /\ phase = "ending" /\ phase' = "over"
  /\ UNCHANGED <<kind, index, marked>>

Next ==
  \/ MessageStart \/ BlockStart \/ Delta \/ Sign \/ BlockStop
  \/ MessageDelta \/ MessageStop

Spec == Init /\ [][Next]_pvars
=============================================================================
