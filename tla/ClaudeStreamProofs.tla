------------------------- MODULE ClaudeStreamProofs -------------------------
(***************************************************************************)
(* Proofs about ClaudeStream, for any upstream, any accounts, endpoints    *)
(* and timeouts, and any lengths of text held back: that the client reads  *)
(* a well-formed event stream, which never mixes two upstream replies and  *)
(* holds the whole answer of the one it is about, that a request left to   *)
(* another provider has sent nothing, and how often an account is called.  *)
(***************************************************************************)
EXTENDS ClaudeStream, SequenceLemmas, WellFoundedInduction, SequenceTheorems, TLAPS

-----------------------------------------------------------------------------
(* What a client makes of the events it reads.                             *)

Phases == {"new", "between", "open", "signed", "ending", "over"}
Blocks == {NoBlock, "text", "thinking", "tool_use"}
States == [phase: Phases, kind: Blocks, index: Nat, marked: BOOLEAN]
Roles  == {"none", "answer", "tool", "shown", "open", "more", "close"}

\* The events of a message whose pieces of text are in P.
Events(P) ==
  [e: {"none", "message_start", "block_start", "delta", "signature", "block_stop",
       "message_delta", "message_stop"},
   i: Nat, kind: Blocks, role: Roles, text: Seq(P)]

PhaseOf(ev) ==
  CASE ev.e = "none"          -> "new"
    [] ev.e \in {"message_start", "block_stop"} -> "between"
    [] ev.e \in {"block_start", "delta"} -> "open"
    [] ev.e = "signature"     -> "signed"
    [] ev.e = "message_delta" -> "ending"
    [] ev.e = "message_stop"  -> "over"

MarkOf(role, m) == CASE role = "open" -> TRUE [] role = "close" -> FALSE [] OTHER -> m

\* The client after an event, when its marks are m.
Client(ev, m) ==
  [phase  |-> PhaseOf(ev),
   kind   |-> IF PhaseOf(ev) \in {"open", "signed"} THEN ev.kind ELSE NoBlock,
   index  |-> IF ev.e = "block_stop" THEN ev.i + 1 ELSE ev.i,
   marked |-> m]

After(s, ev) == Client(ev, MarkOf(ev.role, s.marked))

\* The events a client in state s accepts.
Legal(s, ev) ==
  \/ /\ ev.e = "message_start" /\ ev.role = "none"
     /\ s.phase = "new" /\ s.kind = NoBlock /\ ev.i = s.index
  \/ /\ ev.e = "block_start" /\ ev.role = "none"
     /\ s.phase = "between" /\ ev.i = s.index
     /\ ev.kind \in Blocks \ {NoBlock} /\ (ev.kind = "tool_use" => ~s.marked)
  \/ /\ ev.e = "delta" /\ s.phase = "open" /\ ev.i = s.index /\ ev.kind = s.kind
     /\ ev.role \in {"open", "close"} => s.kind = "text"
  \/ /\ ev.e = "signature" /\ ev.role = "none"
     /\ s.phase = "open" /\ s.kind = "thinking" /\ ev.kind = s.kind /\ ev.i = s.index
  \/ /\ ev.e = "block_stop" /\ ev.role = "none" /\ ev.i = s.index
     /\ s.phase = IF s.kind = "thinking" THEN "signed" ELSE "open"
  \/ /\ ev.e = "message_delta" /\ ev.role = "none"
     /\ s.phase = "between" /\ s.kind = NoBlock /\ ~s.marked /\ ev.i = 0
  \/ /\ ev.e = "message_stop" /\ ev.role = "none"
     /\ s.phase = "ending" /\ s.kind = NoBlock /\ ev.i = s.index

\* A client in state c that reads the events out accepts them all, and is then
\* in state s: Ss are the states it goes through.
Path(Ss, c, out, s) ==
  /\ Ss \in [0..Len(out) -> States] /\ Ss[0] = c /\ Ss[Len(out)] = s
  /\ \A i \in 1..Len(out) : Legal(Ss[i - 1], out[i]) /\ Ss[i] = After(Ss[i - 1], out[i])

Leads(c, out, s) == \E Ss : Path(Ss, c, out, s)

\* The client after any event of those is in one of the states.
LEMMA AfterType ==
  ASSUME NEW P, NEW ev \in Events(P), NEW s \in States
  PROVE  After(s, ev) \in States
<1>1. PhaseOf(ev) \in Phases
  BY DEF PhaseOf, Phases, Events
<1>2. MarkOf(ev.role, s.marked) \in BOOLEAN
  BY DEF MarkOf, States
<1>3. /\ ev.i \in Nat /\ ev.i + 1 \in Nat /\ ev.kind \in Blocks /\ NoBlock \in Blocks
  BY DEF Events, Blocks
<1> QED BY <1>1, <1>2, <1>3 DEF After, Client, States

\* Nothing leads nowhere.
LEMMA LeadsNowhere ==
  ASSUME NEW c \in States, NEW s
  PROVE  Leads(c, <<>>, s) <=> s = c
<1>1. ASSUME s = c PROVE Leads(c, <<>>, s)
  <2>1. Path([i \in 0..0 |-> c], c, <<>>, s)
    BY <1>1 DEF Path
  <2> QED BY <2>1 DEF Leads
<1>2. ASSUME Leads(c, <<>>, s) PROVE s = c
  BY <1>2 DEF Leads, Path
<1> QED BY <1>1, <1>2

\* One more legal event leads one step further.
LEMMA LeadsFurther ==
  ASSUME NEW P, NEW c, NEW out \in Seq(Events(P)), NEW s, Leads(c, out, s),
         NEW ev \in Events(P), Legal(s, ev)
  PROVE  Leads(c, Append(out, ev), After(s, ev))
<1>1. PICK Ss : Path(Ss, c, out, s)
  BY DEF Leads
<1> DEFINE n  == Len(out)
           on == Append(out, ev)
           Ts == [i \in 0..Len(on) |-> IF i = n + 1 THEN After(s, ev) ELSE Ss[i]]
<1>2. /\ n \in Nat /\ Len(on) = n + 1 /\ on[n + 1] = ev
      /\ \A i \in 1..n : on[i] = out[i]
  OBVIOUS
<1>3. s \in States /\ After(s, ev) \in States
  BY <1>1, <1>2, AfterType DEF Path
<1>4. Ts \in [0..Len(on) -> States]
  BY <1>1, <1>2, <1>3 DEF Path
<1>5. Ts[0] = c /\ Ts[Len(on)] = After(s, ev) /\ Ts[n] = s /\ \A i \in 0..n : Ts[i] = Ss[i]
  BY <1>1, <1>2 DEF Path
<1>6. ASSUME NEW i \in 1..Len(on)
      PROVE  Legal(Ts[i - 1], on[i]) /\ Ts[i] = After(Ts[i - 1], on[i])
  <2> HIDE DEF Ts, on
  <2>1. CASE i = n + 1
    <3>1. i - 1 = n /\ on[i] = ev /\ Ts[i] = After(s, ev) /\ Ts[i - 1] = s
      BY <1>2, <1>5, <2>1
    <3> QED BY <3>1
  <2>2. CASE i \in 1..n
    <3>1. i - 1 \in 0..n /\ i \in 0..n
      BY <1>2, <2>2
    <3> QED BY <1>1, <1>2, <1>5, <2>2, <3>1 DEF Path
  <2> QED BY <1>2, <1>6, <2>1, <2>2
<1>7. Path(Ts, c, on, After(s, ev))
  <2> HIDE DEF Ts, on
  <2> QED BY <1>4, <1>5, <1>6 DEF Path
<1> QED BY <1>7 DEF Leads

\* A client that reads the first of the events is led on by the others.
LEMMA LeadsOn ==
  ASSUME NEW P, NEW c, NEW out \in Seq(Events(P)), NEW s, Leads(c, out, s), out # <<>>
  PROVE  Legal(c, Head(out)) /\ Leads(After(c, Head(out)), Tail(out), s)
<1>1. PICK Ss : Path(Ss, c, out, s)
  BY DEF Leads
<1> DEFINE n  == Len(out)
           on == Tail(out)
           Ts == [i \in 0..Len(on) |-> Ss[i + 1]]
<1>2. /\ n \in Nat /\ n >= 1 /\ Len(on) = n - 1 /\ Head(out) = out[1]
      /\ \A i \in 1..n - 1 : on[i] = out[i + 1]
  OBVIOUS
<1>3. Legal(c, Head(out)) /\ Ss[1] = After(c, Head(out))
  BY <1>1, <1>2 DEF Path
<1>4. Ts \in [0..Len(on) -> States] /\ \A i \in 0..Len(on) : Ts[i] = Ss[i + 1]
  BY <1>1, <1>2 DEF Path
<1>5. Ts[0] = After(c, Head(out)) /\ Ts[Len(on)] = s
  BY <1>1, <1>2, <1>3, <1>4 DEF Path
<1>6. ASSUME NEW i \in 1..Len(on)
      PROVE  Legal(Ts[i - 1], on[i]) /\ Ts[i] = After(Ts[i - 1], on[i])
  <2> HIDE DEF Ts, on
  <2>1. /\ i + 1 \in 1..n /\ i - 1 \in 0..Len(on) /\ i \in 0..Len(on) /\ (i - 1) + 1 = i
        /\ (i + 1) - 1 = i /\ i \in 1..n - 1
    BY <1>2, <1>6
  <2>2. Legal(Ss[i], out[i + 1]) /\ Ss[i + 1] = After(Ss[i], out[i + 1])
    BY <1>1, <2>1 DEF Path
  <2>3. Ts[i - 1] = Ss[i] /\ Ts[i] = Ss[i + 1] /\ on[i] = out[i + 1]
    BY <1>2, <1>4, <2>1
  <2> QED BY <2>2, <2>3
<1>7. Path(Ts, After(c, Head(out)), on, s)
  <2> HIDE DEF Ts, on
  <2> QED BY <1>4, <1>5, <1>6 DEF Path
<1> QED BY <1>3, <1>7 DEF Leads

-----------------------------------------------------------------------------
(* The writer and the client.                                              *)

\* A writer whose text is made of pieces in P.
Writers(P) ==
  [begun: BOOLEAN, block: {NoBlock, "text", "thinking"}, idx: Nat, next: Nat, buf: Seq(P),
   inside: BOOLEAN, drop: BOOLEAN, source: {"unknown", "event", "tag"}, started: BOOLEAN,
   eventOpen: BOOLEAN, out: Seq(Events(P))]

\* What the writer remembers of the message is what a client in state s sees.
Fits(s, x) ==
  /\ ~x.begun => x.block = NoBlock /\ x.next = 0 /\ s.phase = "new" /\ ~s.marked
  /\ x.begun => s.phase = IF x.block = NoBlock THEN "between" ELSE "open"
  /\ s.kind = x.block
  /\ s.index = IF x.block = NoBlock THEN x.next ELSE x.idx
  /\ x.block # NoBlock => x.next = x.idx + 1

\* Once client c has read the queue it agrees with the writer, with marks m.
Agrees(c, x, m) ==
  m \in BOOLEAN /\ \E s \in States : Leads(c, x.out, s) /\ Fits(s, x) /\ s.marked = m

\* The fields that the sending of events leaves alone.
Same(x, y) ==
  /\ y.buf = x.buf /\ y.inside = x.inside /\ y.drop = x.drop /\ y.source = x.source
  /\ y.started = x.started /\ y.eventOpen = x.eventOpen

\* Sending an event queues it.
LEMMA SendOf ==
  ASSUME NEW P, NEW x \in Writers(P), NEW ev \in Events(P)
  PROVE  /\ Send(x, ev) \in Writers(P) /\ Send(x, ev).out = Append(x.out, ev)
         /\ Same(x, Send(x, ev)) /\ Send(x, ev).begun = x.begun /\ Send(x, ev).block = x.block
         /\ Send(x, ev).idx = x.idx /\ Send(x, ev).next = x.next
<1>1. x.out \in Seq(Events(P))
  BY DEF Writers
<1>2. Append(x.out, ev) \in Seq(Events(P))
  BY <1>1
<1> QED BY <1>2 DEF Writers, Send, Same

\* An event of the message itself carries no text.
LEMMA PlainEvent ==
  ASSUME NEW P, NEW i \in Nat, NEW k \in Blocks,
         NEW e \in {"message_start", "block_start", "signature", "block_stop", "message_delta", "message_stop"}
  PROVE  Event(e, i, k, "none", <<>>) \in Events(P)
<1>1. <<>> \in Seq(P)
  OBVIOUS
<1> QED BY <1>1 DEF Event, Events, Roles

LEMMA TextEvent ==
  ASSUME NEW P, NEW i \in Nat, NEW k \in Blocks, NEW role \in Roles, NEW text \in Seq(P)
  PROVE  Event("delta", i, k, role, text) \in Events(P)
BY DEF Event, Events

\* message_start opens the message, once.
LEMMA EnsureStart ==
  ASSUME NEW P, NEW x \in Writers(P), NEW c, NEW m, Agrees(c, x, m)
  PROVE  LET y == ensureMessageStart(x)
         IN  /\ y \in Writers(P) /\ y.begun /\ Same(x, y) /\ y.block = x.block /\ y.next = x.next
             /\ Agrees(c, y, m)
<1>1. CASE x.begun
  BY <1>1 DEF ensureMessageStart, Same
<1>2. CASE ~x.begun
  <2> DEFINE ev == Event("message_start", 0, NoBlock, "none", <<>>)
             y  == [Send(x, ev) EXCEPT !.begun = TRUE]
  <2>1. PICK s \in States : Leads(c, x.out, s) /\ Fits(s, x) /\ s.marked = m
    BY DEF Agrees
  <2>2. ev \in Events(P)
    BY PlainEvent DEF Blocks
  <2>3. Legal(s, ev) /\ After(s, ev) = [phase |-> "between", kind |-> NoBlock, index |-> 0, marked |-> m]
    BY <1>2, <2>1 DEF Fits, Legal, After, Client, PhaseOf, MarkOf, Event
  <2>4. After(s, ev) \in States
    BY <2>2, AfterType
  <2>5. Leads(c, Append(x.out, ev), After(s, ev))
    BY <2>1, <2>2, <2>3, LeadsFurther DEF Writers
  <2>6. ensureMessageStart(x) = y
    BY <1>2 DEF ensureMessageStart
  <2> HIDE DEF ev
  <2>7. /\ y \in Writers(P) /\ y.begun /\ Same(x, y) /\ y.block = x.block /\ y.next = x.next
        /\ y.out = Append(x.out, ev)
    <3>1. /\ Send(x, ev) \in Writers(P) /\ Same(x, Send(x, ev)) /\ Send(x, ev).block = x.block
          /\ Send(x, ev).next = x.next /\ Send(x, ev).out = Append(x.out, ev)
      BY <2>2, SendOf
    <3> QED BY <3>1 DEF Writers, Same
  <2> HIDE DEF y
  <2>8. Fits(After(s, ev), y)
    BY <1>2, <2>1, <2>3, <2>7 DEF Fits
  <2> QED BY <2>1, <2>3, <2>4, <2>5, <2>6, <2>7, <2>8 DEF Agrees
<1> QED BY <1>1, <1>2 DEF Writers

\* closeActiveBlock signs a thinking block and ends the open one.
LEMMA CloseBlock ==
  ASSUME NEW P, NEW x \in Writers(P), NEW c, NEW m, Agrees(c, x, m)
  PROVE  LET y == closeActiveBlock(x)
         IN  /\ y \in Writers(P) /\ y.begun = x.begun /\ Same(x, y) /\ y.block = NoBlock
             /\ y.next = x.next /\ Agrees(c, y, m)
<1>1. CASE x.block = NoBlock
  BY <1>1 DEF closeActiveBlock, Same
<1>2. CASE x.block # NoBlock
  <2> DEFINE sg == Event("signature", x.idx, x.block, "none", <<>>)
             ev == Event("block_stop", x.idx, x.block, "none", <<>>)
             z  == IF x.block = "thinking" THEN Send(x, sg) ELSE x
             y  == [Send(z, ev) EXCEPT !.block = NoBlock]
  <2>1. PICK s \in States : Leads(c, x.out, s) /\ Fits(s, x) /\ s.marked = m
    BY DEF Agrees
  <2>0. /\ x.idx \in Nat /\ x.next \in Nat /\ x.block \in {"text", "thinking"} /\ x.begun
        /\ x.out \in Seq(Events(P))
    BY <1>2, <2>1 DEF Writers, Fits
  <2>2. ev \in Events(P) /\ sg \in Events(P)
    BY <2>0, PlainEvent DEF Blocks
  <2>3. PICK t \in States : /\ Leads(c, z.out, t) /\ t.marked = m /\ t.index = x.idx
                            /\ t.kind = x.block
                            /\ t.phase = IF x.block = "thinking" THEN "signed" ELSE "open"
    <3>1. CASE x.block = "thinking"
      <4>1. Legal(s, sg)
        BY <1>2, <2>0, <2>1, <3>1 DEF Fits, Legal, Event
      <4>2. After(s, sg) = [phase |-> "signed", kind |-> x.block, index |-> x.idx, marked |-> m]
        BY <2>1 DEF After, Client, PhaseOf, MarkOf, Event
      <4>3. Leads(c, Append(x.out, sg), After(s, sg)) /\ After(s, sg) \in States
        BY <2>0, <2>1, <2>2, <4>1, LeadsFurther, AfterType
      <4>4. z.out = Append(x.out, sg)
        BY <2>2, <3>1, SendOf
      <4> HIDE DEF z, sg
      <4>5. /\ After(s, sg).phase = "signed" /\ After(s, sg).kind = x.block
            /\ After(s, sg).index = x.idx /\ After(s, sg).marked = m
        BY <4>2
      <4>6. Leads(c, z.out, After(s, sg))
        BY <4>3, <4>4
      <4> QED BY <3>1, <4>3, <4>5, <4>6
    <3>2. CASE x.block # "thinking"
      <4>1. z.out = x.out
        BY <3>2
      <4> HIDE DEF z
      <4>2. s.kind = x.block /\ s.index = x.idx /\ s.phase = "open"
        BY <1>2, <2>0, <2>1 DEF Fits
      <4>3. Leads(c, z.out, s) /\ s.phase = IF x.block = "thinking" THEN "signed" ELSE "open"
        BY <2>1, <3>2, <4>1, <4>2
      <4> QED BY <2>1, <4>2, <4>3
    <3> QED BY <3>1, <3>2
  <2>4. /\ z \in Writers(P) /\ Same(x, z) /\ z.begun = x.begun /\ z.next = x.next
        /\ z.out \in Seq(Events(P))
    BY <2>2, SendOf DEF Writers, Same
  <2>5. closeActiveBlock(x) = y
    BY <1>2 DEF closeActiveBlock
  <2>6. Legal(t, ev) /\ After(t, ev) = [phase |-> "between", kind |-> NoBlock,
                                        index |-> x.idx + 1, marked |-> m]
    BY <2>3 DEF Legal, After, Client, PhaseOf, MarkOf, Event
  <2> HIDE DEF z, ev, sg
  <2>7. Leads(c, Append(z.out, ev), After(t, ev)) /\ After(t, ev) \in States
    BY <2>2, <2>3, <2>4, <2>6, LeadsFurther, AfterType
  <2>8. /\ y \in Writers(P) /\ y.begun = x.begun /\ Same(x, y) /\ y.block = NoBlock
        /\ y.next = x.next /\ y.out = Append(z.out, ev)
    <3>1. /\ Send(z, ev) \in Writers(P) /\ Same(z, Send(z, ev)) /\ Send(z, ev).begun = z.begun
          /\ Send(z, ev).next = z.next /\ Send(z, ev).out = Append(z.out, ev)
      BY <2>2, <2>4, SendOf
    <3> QED BY <2>4, <3>1 DEF Writers, Same
  <2>9. x.next = x.idx + 1
    BY <1>2, <2>1 DEF Fits
  <2> HIDE DEF y
  <2>10. Fits(After(t, ev), y)
    BY <2>0, <2>6, <2>8, <2>9 DEF Fits
  <2>11. Agrees(c, y, m)
    BY <2>6, <2>7, <2>8, <2>10 DEF Agrees, States
  <2> QED BY <2>5, <2>8, <2>11
<1> QED BY <1>1, <1>2

\* The start of a block: after the message has begun and with no block open.
LEMMA OpenBlock ==
  ASSUME NEW P, NEW x \in Writers(P), NEW c, NEW m, Agrees(c, x, m), x.begun, x.block = NoBlock,
         NEW kind \in {"text", "thinking"}
  PROVE  LET y == NextBlock(x, kind)
         IN  y \in Writers(P) /\ y.begun /\ Same(x, y) /\ y.block = kind /\ Agrees(c, y, m)
<1> DEFINE ev == Event("block_start", x.next, kind, "none", <<>>)
           z  == Send(x, ev)
           y  == [z EXCEPT !.block = kind, !.idx = x.next, !.next = @ + 1]
<1>1. PICK s \in States : Leads(c, x.out, s) /\ Fits(s, x) /\ s.marked = m
  BY DEF Agrees
<1>2. x.next \in Nat /\ x.out \in Seq(Events(P)) /\ kind \in Blocks \ {NoBlock}
  BY DEF Writers, Blocks, NoBlock
<1>3. ev \in Events(P)
  BY <1>2, PlainEvent
<1>4. Legal(s, ev) /\ After(s, ev) = [phase |-> "open", kind |-> kind, index |-> x.next, marked |-> m]
  BY <1>1, <1>2 DEF Legal, After, Client, PhaseOf, MarkOf, Event, Fits
<1>5. NextBlock(x, kind) = y
  BY DEF NextBlock
<1> HIDE DEF ev
<1>6. Leads(c, Append(x.out, ev), After(s, ev)) /\ After(s, ev) \in States
  BY <1>1, <1>2, <1>3, <1>4, LeadsFurther, AfterType
<1>7. /\ z \in Writers(P) /\ Same(x, z) /\ z.begun = x.begun
      /\ z.next = x.next /\ z.out = Append(x.out, ev)
  BY <1>3, SendOf
<1> HIDE DEF z
<1>8. /\ y \in Writers(P) /\ y.begun /\ Same(x, y) /\ y.block = kind /\ y.idx = x.next
      /\ y.next = x.next + 1 /\ y.out = Append(x.out, ev)
  <2>1. x.next + 1 \in Nat /\ z.next + 1 = x.next + 1
    BY <1>2, <1>7
  <2>2. y = [z EXCEPT !.block = kind, !.idx = x.next, !.next = x.next + 1]
    BY <1>7
  <2>3. [z EXCEPT !.block = kind, !.idx = x.next, !.next = x.next + 1] \in Writers(P)
    BY <1>2, <1>7, <2>1 DEF Writers
  <2> QED BY <1>7, <2>2, <2>3 DEF Writers, Same
<1> HIDE DEF y
<1>9. Fits(After(s, ev), y)
  BY <1>2, <1>4, <1>8 DEF Fits
<1>10. Agrees(c, y, m)
  BY <1>1, <1>4, <1>6, <1>8, <1>9 DEF Agrees, States
<1> QED BY <1>5, <1>8, <1>10

\* startContentBlock leaves a block of the kind open.
LEMMA StartBlock ==
  ASSUME NEW P, NEW x \in Writers(P), NEW c, NEW m, Agrees(c, x, m),
         NEW kind \in {"text", "thinking"}
  PROVE  LET y == startContentBlock(x, kind)
         IN  y \in Writers(P) /\ y.begun /\ Same(x, y) /\ y.block = kind /\ Agrees(c, y, m)
<1>1. CASE x.block = kind
  <2>1. x.begun
    BY <1>1 DEF Agrees, Fits, NoBlock, Writers
  <2> QED BY <1>1, <2>1 DEF startContentBlock, Same
<1>2. CASE x.block # kind
  <2> DEFINE y == ensureMessageStart(x)
             z == closeActiveBlock(y)
  <2>1. y \in Writers(P) /\ y.begun /\ Same(x, y) /\ Agrees(c, y, m)
    BY EnsureStart
  <2> HIDE DEF y
  <2>2. z \in Writers(P) /\ z.begun = y.begun /\ Same(y, z) /\ z.block = NoBlock /\ Agrees(c, z, m)
    BY <2>1, CloseBlock
  <2> HIDE DEF z
  <2>3. LET u == NextBlock(z, kind)
        IN  u \in Writers(P) /\ u.begun /\ Same(z, u) /\ u.block = kind /\ Agrees(c, u, m)
    BY <2>1, <2>2, OpenBlock
  <2>4. startContentBlock(x, kind) = NextBlock(z, kind)
    BY <1>2 DEF startContentBlock, y, z
  <2> QED BY <2>1, <2>2, <2>3, <2>4 DEF Same
<1> QED BY <1>1, <1>2

\* A delta of text in a block of its kind; in a text block it may be a mark.
LEMMA DeltaOf ==
  ASSUME NEW P, NEW x \in Writers(P), NEW c, NEW m, Agrees(c, x, m),
         NEW kind \in {"text", "thinking"}, NEW role \in Roles, NEW text \in Seq(P),
         role \in {"open", "close"} => kind = "text"
  PROVE  LET y == Delta(x, kind, role, text)
         IN  /\ y \in Writers(P) /\ y.begun /\ Same(x, y) /\ y.block = kind
             /\ Agrees(c, y, MarkOf(role, m))
<1> DEFINE z  == startContentBlock(x, kind)
           ev == Event("delta", z.idx, kind, role, text)
           n  == MarkOf(role, m)
<1>1. z \in Writers(P) /\ z.begun /\ Same(x, z) /\ z.block = kind /\ Agrees(c, z, m)
  BY StartBlock
<1>2. Delta(x, kind, role, text) = Send(z, ev)
  BY DEF Delta
<1> HIDE DEF z
<1>3. z.idx \in Nat /\ z.out \in Seq(Events(P)) /\ kind \in Blocks \ {NoBlock} /\ n \in BOOLEAN
  <2>1. n \in BOOLEAN
    BY DEF MarkOf, Agrees
  <2> HIDE DEF n
  <2> QED BY <1>1, <2>1 DEF Writers, Blocks, NoBlock
<1>4. ev \in Events(P)
  BY <1>3, TextEvent
<1>5. PICK s \in States : Leads(c, z.out, s) /\ Fits(s, z) /\ s.marked = m
  BY <1>1 DEF Agrees
<1>6. s.phase = "open" /\ s.kind = kind /\ s.index = z.idx /\ z.next = z.idx + 1
  BY <1>1, <1>3, <1>5 DEF Fits
<1>7. Legal(s, ev)
  BY <1>6 DEF Legal, Event
<1>8. After(s, ev) = [phase |-> "open", kind |-> kind, index |-> z.idx, marked |-> n]
  BY <1>5 DEF After, Client, PhaseOf, MarkOf, Event
<1> HIDE DEF ev, n
<1>9. Leads(c, Append(z.out, ev), After(s, ev)) /\ After(s, ev) \in States
  BY <1>3, <1>4, <1>5, <1>7, LeadsFurther, AfterType
<1>10. /\ Send(z, ev) \in Writers(P) /\ Same(z, Send(z, ev)) /\ Send(z, ev).begun = z.begun
       /\ Send(z, ev).block = z.block /\ Send(z, ev).idx = z.idx /\ Send(z, ev).next = z.next
       /\ Send(z, ev).out = Append(z.out, ev)
  BY <1>1, <1>4, SendOf
<1>11. Fits(After(s, ev), Send(z, ev))
  BY <1>1, <1>3, <1>6, <1>8, <1>10 DEF Fits
<1>12. Agrees(c, Send(z, ev), n)
  BY <1>3, <1>8, <1>9, <1>10, <1>11 DEF Agrees
<1> QED BY <1>1, <1>2, <1>10, <1>12 DEF Same, n

\* Most deltas mark nothing.
LEMMA PlainDelta ==
  ASSUME NEW P, NEW x \in Writers(P), NEW c, NEW m, Agrees(c, x, m),
         NEW kind \in {"text", "thinking"}, NEW role \in {"answer", "shown", "more"},
         NEW text \in Seq(P)
  PROVE  LET y == Delta(x, kind, role, text)
         IN  y \in Writers(P) /\ Same(x, y) /\ Agrees(c, y, m)
<1> DEFINE y == Delta(x, kind, role, text)
<1>1. role \in Roles /\ role # "open" /\ role # "close"
  BY DEF Roles
<1>2. MarkOf(role, m) = m
  BY <1>1 DEF MarkOf
<1>3. /\ y \in Writers(P) /\ Same(x, y)
      /\ Agrees(c, y, MarkOf(role, m))
  BY <1>1, DeltaOf
<1> QED BY <1>2, <1>3

\* Two of them, in a text block, do.
LEMMA MarkDelta ==
  ASSUME NEW P, NEW x \in Writers(P), NEW c, NEW m, Agrees(c, x, m),
         NEW role \in {"open", "close"}, NEW text \in Seq(P)
  PROVE  LET y == Delta(x, "text", role, text)
         IN  y \in Writers(P) /\ Same(x, y) /\ Agrees(c, y, role = "open")
<1> DEFINE y == Delta(x, "text", role, text)
<1>1. role \in Roles
  BY DEF Roles
<1>2. /\ role = "open" => MarkOf(role, m) = TRUE
      /\ role = "close" => MarkOf(role, m) = FALSE
  BY DEF MarkOf
<1>3. /\ y \in Writers(P) /\ Same(x, y)
      /\ Agrees(c, y, MarkOf(role, m))
  BY <1>1, DeltaOf
<1> HIDE DEF y
<1>4. CASE role = "open"
  <2>1. Agrees(c, y, TRUE) /\ (role = "open") = TRUE
    BY <1>2, <1>3, <1>4
  <2> QED BY <1>3, <2>1 DEF y
<1>5. CASE role = "close"
  <2>1. Agrees(c, y, FALSE) /\ (role = "open") = FALSE
    BY <1>2, <1>3, <1>5
  <2> QED BY <1>3, <2>1 DEF y
<1> QED BY <1>4, <1>5

\* Thoughts are shown in the text, between <think> and </think>.
Thinks(o) == o.thinking /\ o.format = "think"

\* sendText queues what its thinkingState calls for: only the first part of a
\* thought that is shown in the text leaves a mark open, and the last closes it.
LEMMA SendTextOf ==
  ASSUME NEW P, NEW x \in Writers(P), NEW c, NEW m, Agrees(c, x, m), NEW o \in Option,
         NEW text \in Seq(P), NEW state \in 0..3, m => Thinks(o)
  PROVE  LET y == sendText(x, o, text, state)
         IN  /\ y \in Writers(P) /\ Same(x, y)
             /\ \E n : /\ Agrees(c, y, n)
                       /\ n => Thinks(o) /\ state # 3 /\ (m \/ state = 1)
<1> DEFINE Ok(y) == /\ y \in Writers(P) /\ Same(x, y)
                    /\ \E n : /\ Agrees(c, y, n)
                              /\ n => Thinks(o) /\ state # 3 /\ (m \/ state = 1)
<1>1. m \in BOOLEAN /\ <<>> \in Seq(P)
  BY DEF Agrees
<1>2. ASSUME state # 3 \/ ~m PROVE Ok(x)
  BY <1>2 DEF Same
<1>3. ASSUME NEW kind \in {"text", "thinking"}, NEW role \in {"answer", "shown", "more"},
             state # 3 \/ ~m
      PROVE  Ok(Delta(x, kind, role, text))
  <2> DEFINE y == Delta(x, kind, role, text)
  <2>2. y \in Writers(P) /\ Same(x, y) /\ Agrees(c, y, m)
    BY PlainDelta
  <2> HIDE DEF y
  <2> QED BY <1>3, <2>2 DEF y
<1>4. CASE state = 0
  BY <1>2, <1>3, <1>4 DEF sendText, Answer
<1>5. CASE state # 0
  <2>1. CASE ~o.thinking
    BY <1>2, <1>5, <2>1 DEF sendText, Thought, Thinks
  <2>2. CASE Thinks(o)
    <3>1. ASSUME NEW role \in {"open", "close"}, role = IF state = 1 THEN "open" ELSE "close",
                 state \in {1, 3}
          PROVE  Ok(Delta(x, "text", role, text))
      <4> DEFINE y == Delta(x, "text", role, text)
                 n == role = "open"
      <4>2. y \in Writers(P) /\ Same(x, y) /\ Agrees(c, y, n)
        BY MarkDelta
      <4> HIDE DEF y
      <4>3. n => Thinks(o) /\ state # 3 /\ (m \/ state = 1)
        BY <2>2, <3>1
      <4> HIDE DEF n
      <4> QED BY <4>2, <4>3 DEF y
    <3>2. sendText(x, o, text, state) = ThinkText(x, text, state)
      BY <1>5, <2>2 DEF sendText, Thought, Thinks
    <3>3. CASE state = 1
      <4>1. sendText(x, o, text, state) = Delta(x, "text", "open", text)
        BY <3>2, <3>3 DEF ThinkText
      <4> QED BY <3>1, <3>3, <4>1
    <3>4. CASE state = 2
      BY <1>2, <1>3, <3>2, <3>4 DEF ThinkText
    <3>5. CASE state = 3
      <4>1. sendText(x, o, text, state) = Delta(x, "text", "close", text)
        BY <3>2, <3>5 DEF ThinkText
      <4> QED BY <3>1, <3>5, <4>1
    <3> QED BY <1>5, <3>3, <3>4, <3>5
  <2>3. CASE o.thinking /\ ~Thinks(o)
    <3>0. ~m
      BY <2>3
    <3>1. ASSUME NEW y \in Writers(P), Same(x, y), Agrees(c, y, m)
          PROVE  Ok(y) /\ Ok(closeActiveBlock(y))
      <4>1. /\ closeActiveBlock(y) \in Writers(P) /\ Same(y, closeActiveBlock(y))
            /\ Agrees(c, closeActiveBlock(y), m)
        BY <3>1, CloseBlock
      <4> QED BY <3>0, <3>1, <4>1 DEF Same
    <3>2. CASE o.format = "reasoning_content"
      <4>1. sendText(x, o, text, state) = PlainText(x, text)
        BY <1>5, <2>3, <3>2 DEF sendText, Thought
      <4> QED BY <1>2, <1>3, <3>0, <4>1 DEF PlainText
    <3>3. CASE o.format = "thinking" /\ o.omit
      <4> DEFINE y == startContentBlock(x, "thinking")
      <4>1. y \in Writers(P) /\ Same(x, y) /\ Agrees(c, y, m)
        BY StartBlock
      <4> HIDE DEF y
      <4>2. sendText(x, o, text, state) \in {x, y, closeActiveBlock(y)}
        BY <1>5, <2>3, <3>3 DEF sendText, Thought, OmittedThought, y
      <4> QED BY <1>2, <3>0, <3>1, <4>1, <4>2
    <3>4. CASE o.format = "thinking" /\ ~o.omit
      <4> DEFINE y == IF text = <<>> THEN x ELSE Delta(x, "thinking", "shown", text)
      <4>1. y \in Writers(P) /\ Same(x, y) /\ Agrees(c, y, m)
        <5>1. CASE text = <<>>
          BY <5>1 DEF Same
        <5>2. CASE text # <<>>
          <6> QED BY <5>2, PlainDelta
        <5> QED BY <5>1, <5>2
      <4>2. sendText(x, o, text, state) = ThinkingBlock(x, text, state)
        BY <1>5, <2>3, <3>4 DEF sendText, Thought
      <4>3. sendText(x, o, text, state) \in {y, closeActiveBlock(y)}
        BY <4>2 DEF ThinkingBlock
      <4> HIDE DEF y
      <4> QED BY <3>1, <4>1, <4>3
    <3> QED BY <2>3, <3>2, <3>3, <3>4 DEF Option, Thinks
  <2> QED BY <2>1, <2>2, <2>3
<1> QED BY <1>4, <1>5

\* The last part of a thought leaves no mark open.
LEMMA SendLast ==
  ASSUME NEW P, NEW x \in Writers(P), NEW c, NEW m, Agrees(c, x, m), NEW o \in Option,
         NEW text \in Seq(P), m => Thinks(o)
  PROVE  LET y == sendText(x, o, text, 3)
         IN  y \in Writers(P) /\ Same(x, y) /\ Agrees(c, y, FALSE)
<1> DEFINE state == 3
           y == sendText(x, o, text, state)
<1>1. state \in 0..3 /\ state = 3
  OBVIOUS
<1> HIDE DEF state
<1>2. /\ y \in Writers(P) /\ Same(x, y)
      /\ \E n : /\ Agrees(c, y, n)
                /\ n => Thinks(o) /\ state # 3 /\ (m \/ state = 1)
  BY <1>1, SendTextOf
<1>3. y = sendText(x, o, text, 3)
  BY <1>1
<1> HIDE DEF y
<1>4. PICK n : Agrees(c, y, n) /\ ~n
  BY <1>1, <1>2
<1>5. n = FALSE
  BY <1>4 DEF Agrees
<1>6. y \in Writers(P) /\ Same(x, y) /\ Agrees(c, y, FALSE)
  BY <1>2, <1>4, <1>5
<1> QED BY <1>3, <1>6

\* An answer marks nothing.
LEMMA AnswerOnly ==
  ASSUME NEW P, NEW x \in Writers(P), NEW c, NEW m, Agrees(c, x, m), NEW o \in Option,
         NEW text \in Seq(P)
  PROVE  LET y == Answer(x, text)
         IN  y \in Writers(P) /\ Same(x, y) /\ Agrees(c, y, m)
<1>1. CASE text = <<>>
  BY <1>1 DEF Answer, Same
<1>2. CASE text # <<>>
  <2> QED BY <1>2, PlainDelta DEF Answer
<1> QED BY <1>1, <1>2

\* What is sent of a thought, and to which source it belongs: a thought that has
\* begun and is not read from tags is an event's; only tags are read inside a
\* tag that counts; and there some of the thought is still held back.
Held(x) ==
  /\ x.started /\ (~x.inside \/ x.drop) => x.eventOpen
  /\ x.inside /\ ~x.drop => x.source = "tag"
  /\ x.eventOpen => x.source = "event" /\ x.started
  /\ x.inside /\ ~x.drop /\ x.started => x.buf # <<>>

\* A writer that client c can go on reading from: a mark is open only while a
\* thought that is shown in the text has begun.
Right(P, c, o, x) ==
  /\ x \in Writers(P) /\ Held(x)
  /\ \E m : Agrees(c, x, m) /\ (m => Thinks(o) /\ x.started)

\* The client's side depends on these fields alone.
LEMMA AgreesToo ==
  ASSUME NEW c, NEW m, NEW x, NEW y, Agrees(c, x, m), y.out = x.out, y.begun = x.begun,
         y.block = x.block, y.idx = x.idx, y.next = x.next
  PROVE  Agrees(c, y, m)
BY DEF Agrees, Fits

\* Sending events that mark nothing new keeps a writer right.
LEMMA RightToo ==
  ASSUME NEW P, NEW c, NEW o, NEW x, NEW y \in Writers(P), Held(x), Same(x, y),
         NEW n, Agrees(c, y, n), n => Thinks(o) /\ x.started
  PROVE  Right(P, c, o, y)
<1>1. Held(y)
  BY DEF Held, Same
<1>2. n => Thinks(o) /\ y.started
  BY DEF Same
<1> QED BY <1>1, <1>2 DEF Right

\* A thought of its own event: the first one opens it, unless tags came first.
LEMMA ReasonRight ==
  ASSUME NEW P, NEW c, NEW o \in Option, NEW x, Right(P, c, o, x), NEW text \in Seq(P)
  PROVE  Right(P, c, o, Reason(x, o, text))
<1>1. CASE ~o.thinking \/ ~allowReasoningSource(x)
  BY <1>1 DEF Reason
<1>2. CASE o.thinking /\ allowReasoningSource(x)
  <2> DEFINE state == IF x.started THEN 2 ELSE 1
             y == sendText(x, o, text, state)
             z == [y EXCEPT !.source = "event", !.started = TRUE, !.eventOpen = @ \/ ~x.started]
  <2>1. x \in Writers(P) /\ Held(x)
    BY DEF Right
  <2>2. PICK m : Agrees(c, x, m) /\ (m => Thinks(o) /\ x.started)
    BY DEF Right
  <2>3. state \in 0..3
    OBVIOUS
  <2>4. /\ y \in Writers(P) /\ Same(x, y)
        /\ \E n : /\ Agrees(c, y, n)
                  /\ n => Thinks(o) /\ state # 3 /\ (m \/ state = 1)
    <3> HIDE DEF state
    <3> QED BY <2>1, <2>2, <2>3, SendTextOf
  <2>5. PICK n : Agrees(c, y, n) /\ (n => Thinks(o))
    BY <2>4
  <2>6. Reason(x, o, text) = z
    BY <1>2 DEF Reason
  <2> HIDE DEF y, state
  <2>7. /\ z \in Writers(P) /\ z.source = "event" /\ z.started /\ z.eventOpen = (y.eventOpen \/ ~x.started)
        /\ z.out = y.out /\ z.begun = y.begun /\ z.block = y.block /\ z.idx = y.idx /\ z.next = y.next
        /\ z.inside = y.inside /\ z.drop = y.drop /\ z.buf = y.buf
    BY <2>1, <2>4 DEF Writers
  <2> HIDE DEF z
  <2>8. Agrees(c, z, n)
    BY <2>5, <2>7, AgreesToo
  <2>9. Held(z)
    BY <1>2, <2>1, <2>4, <2>7 DEF Held, Same, allowReasoningSource
  <2> QED BY <2>5, <2>6, <2>7, <2>8, <2>9 DEF Right
<1> QED BY <1>1, <1>2

\* Text ends the thought of an event, and waits in the buffer.
LEMMA BufferTextRight ==
  ASSUME NEW P, NEW c, NEW o \in Option, NEW x, Right(P, c, o, x), NEW text \in Seq(P)
  PROVE  LET z == BufferText(x, o, text)
         IN  Right(P, c, o, z) /\ ~z.eventOpen
<1> DEFINE y == IF x.eventOpen
                THEN [sendText(x, o, <<>>, 3) EXCEPT !.eventOpen = FALSE, !.started = FALSE]
                ELSE x
           z == [y EXCEPT !.buf = @ \o text]
<1>1. Right(P, c, o, y) /\ ~y.eventOpen
  <2>1. CASE ~x.eventOpen
    BY <2>1
  <2>2. CASE x.eventOpen
    <3> DEFINE u == sendText(x, o, <<>>, 3)
               v == [u EXCEPT !.eventOpen = FALSE, !.started = FALSE]
    <3>1. x \in Writers(P) /\ Held(x) /\ <<>> \in Seq(P)
      BY DEF Right
    <3>2. PICK m : Agrees(c, x, m) /\ (m => Thinks(o) /\ x.started)
      BY DEF Right
    <3>3. m => Thinks(o)
      BY <3>2
    <3>4. u \in Writers(P) /\ Same(x, u) /\ Agrees(c, u, FALSE)
      <4> HIDE DEF v, y, z
      <4> QED BY <3>1, <3>2, <3>3, SendLast
    <3> HIDE DEF u
    <3>5. /\ v \in Writers(P) /\ ~v.started /\ ~v.eventOpen
          /\ v.out = u.out /\ v.begun = u.begun /\ v.block = u.block /\ v.idx = u.idx /\ v.next = u.next
          /\ v.inside = u.inside /\ v.drop = u.drop /\ v.buf = u.buf /\ v.source = u.source
      BY <3>4 DEF Writers
    <3>6. y = v
      BY <2>2 DEF u
    <3> HIDE DEF v, y
    <3>7. Agrees(c, v, FALSE)
      BY <3>4, <3>5, AgreesToo
    <3>8. Held(v)
      BY <3>1, <3>4, <3>5 DEF Held, Same
    <3> QED BY <3>4, <3>5, <3>6, <3>7, <3>8 DEF Right
  <2> QED BY <2>1, <2>2
<1>2. BufferText(x, o, text) = z
  BY DEF BufferText
<1> HIDE DEF y
<1>3. y \in Writers(P) /\ Held(y) /\ y.buf \in Seq(P)
  BY <1>1 DEF Right, Writers
<1>4. PICK m : Agrees(c, y, m) /\ (m => Thinks(o) /\ y.started)
  BY <1>1 DEF Right
<1>5. y.buf \o text \in Seq(P) /\ (y.buf # <<>> => y.buf \o text # <<>>)
  BY <1>3
<1>6. /\ z \in Writers(P) /\ z.started = y.started /\ z.eventOpen = y.eventOpen
      /\ z.out = y.out /\ z.begun = y.begun /\ z.block = y.block /\ z.idx = y.idx /\ z.next = y.next
      /\ z.inside = y.inside /\ z.drop = y.drop /\ z.buf = y.buf \o text /\ z.source = y.source
  BY <1>3, <1>5 DEF Writers
<1> HIDE DEF z
<1>7. Agrees(c, z, m)
  BY <1>4, <1>6, AgreesToo
<1>8. Held(z)
  BY <1>3, <1>5, <1>6 DEF Held
<1> QED BY <1>1, <1>2, <1>4, <1>6, <1>7, <1>8 DEF Right

\* A buffer can be cut anywhere; what is not cut off stays.
LEMMA Cuts ==
  ASSUME NEW P, NEW s \in Seq(P), NEW n \in 0..Len(s)
  PROVE  /\ SubSeq(s, 1, n) \in Seq(P) /\ From(s, n + 1) \in Seq(P)
         /\ n < Len(s) => From(s, n + 1) # <<>>
         /\ n > 0 => SubSeq(s, 1, n) # <<>>
<1>1. n \in Nat /\ Len(s) \in Nat
  OBVIOUS
<1>2. SubSeq(s, 1, n) \in Seq(P) /\ Len(SubSeq(s, 1, n)) = n
  BY <1>1, SubSeqProperties
<1>3. From(s, n + 1) \in Seq(P) /\ (n < Len(s) => Len(From(s, n + 1)) > 0)
  <2>1. n + 1 \in Int /\ Len(s) \in Int /\ \A i \in n + 1..Len(s) : s[i] \in P
    BY <1>1
  <2>2. /\ From(s, n + 1) \in Seq(P)
        /\ Len(From(s, n + 1)) = IF n + 1 <= Len(s) THEN Len(s) - (n + 1) + 1 ELSE 0
    BY <2>1, SubSeqProperties DEF From
  <2> QED BY <1>1, <2>2
<1> QED BY <1>1, <1>2, <1>3

\* A set of naturals that is not empty has a least member: the tag that comes
\* first in the buffer.
LEMMA LeastOf ==
  ASSUME NEW S, S \subseteq Nat, S # {}, NEW R, IsWellFoundedOn(R, Nat)
  PROVE  \E c \in S : \A d \in S : <<d, c>> \notin R
BY WFMin, Zenon

LEMMA FirstTag ==
  ASSUME NEW S, S \subseteq Nat, S # {}
  PROVE  First(S) \in S
<1> DEFINE R == {ss \in Nat \X Nat : ss[1] < ss[2]}
<1>1. IsWellFoundedOn(R, Nat)
  BY NatLessThanWellFounded, Zenon DEF OpToRel
<1>2. \E c \in S : \A d \in S : <<d, c>> \notin R
  <2> HIDE DEF R
  <2> QED BY <1>1, LeastOf, Zenon
<1>3. ASSUME NEW c \in S, NEW d \in S, <<d, c>> \notin R PROVE c <= d
  <2>1. d \in Nat /\ c \in Nat /\ ~(d < c)
    BY <1>3
  <2> QED BY <2>1
<1>4. \E c \in S : \A d \in S : c <= d
  <2> HIDE DEF R
  <2> QED BY <1>2, <1>3, Zenon
<1> QED BY <1>4 DEF First

\* What comes before the first tag, and what comes after it.
LEMMA AroundTag ==
  ASSUME NEW P, NEW x \in Writers(P), NEW k, Tags(x, k) # {}
  PROVE  LET i == First(Tags(x, k))
         IN  SubSeq(x.buf, 1, i - 1) \in Seq(P) /\ From(x.buf, i + 1) \in Seq(P)
<1> DEFINE i == First(Tags(x, k))
<1>1. x.buf \in Seq(P)
  BY DEF Writers
<1>2. i \in 1..Len(x.buf)
  <2>1. Tags(x, k) \subseteq 1..Len(x.buf) /\ Tags(x, k) \subseteq Nat
    BY <1>1 DEF Tags
  <2>2. i \in Tags(x, k)
    BY <2>1, FirstTag
  <2> QED BY <2>1, <2>2
<1> HIDE DEF i
<1>3. i - 1 \in 0..Len(x.buf) /\ i \in 0..Len(x.buf)
  BY <1>1, <1>2
<1> QED BY <1>1, <1>3, Cuts DEF i

\* The fields that neither the client nor the queue depends on.
LEMMA RightOf ==
  ASSUME NEW P, NEW c, NEW o, NEW n, NEW y, Agrees(c, y, n), NEW z \in Writers(P), Held(z),
         z.out = y.out, z.begun = y.begun, z.block = y.block, z.idx = y.idx, z.next = y.next,
         n => Thinks(o) /\ z.started
  PROVE  Right(P, c, o, z)
<1>1. Agrees(c, z, n)
  BY AgreesToo
<1> QED BY <1>1 DEF Right

\* <thinking>: what came before it is answer.
LEMMA OpenTagRight ==
  ASSUME NEW P, NEW c, NEW o \in Option, NEW x, Right(P, c, o, x), ~x.eventOpen, ~x.inside,
         Tags(x, "open") # {}
  PROVE  LET z == OpenTag(x, o) IN Right(P, c, o, z) /\ ~z.eventOpen
<1> DEFINE i == First(Tags(x, "open"))
           y == Answer(x, SubSeq(x.buf, 1, i - 1))
           z == [y EXCEPT !.buf = From(x.buf, i + 1), !.inside = TRUE, !.drop = ~allowTagSource(x),
                          !.source = IF @ = "unknown" THEN "tag" ELSE @, !.started = FALSE]
<1>1. x \in Writers(P) /\ Held(x)
  BY DEF Right
<1>2. PICK m : Agrees(c, x, m) /\ (m => Thinks(o) /\ x.started)
  BY DEF Right
<1>3. SubSeq(x.buf, 1, i - 1) \in Seq(P) /\ From(x.buf, i + 1) \in Seq(P)
  BY <1>1, AroundTag
<1>4. z = OpenTag(x, o)
  BY DEF OpenTag, sendText
<1> HIDE DEF i
<1>5. y \in Writers(P) /\ Same(x, y) /\ Agrees(c, y, m)
  <2> HIDE DEF z
  <2> QED BY <1>1, <1>2, <1>3, AnswerOnly
<1> HIDE DEF y
<1>6. /\ z \in Writers(P) /\ z.out = y.out /\ z.begun = y.begun /\ z.block = y.block /\ z.idx = y.idx
      /\ z.next = y.next /\ z.inside /\ z.drop = ~allowTagSource(x) /\ ~z.started
      /\ z.source = (IF x.source = "unknown" THEN "tag" ELSE x.source) /\ z.eventOpen = x.eventOpen
  <2>0. (~allowTagSource(x)) \in BOOLEAN
    BY Zenon DEF allowTagSource
  <2>1. y.source = x.source /\ y.eventOpen = x.eventOpen
    BY <1>5 DEF Same
  <2>2. (IF y.source = "unknown" THEN "tag" ELSE y.source) \in {"unknown", "event", "tag"}
    BY <1>5 DEF Writers
  <2> QED BY <1>3, <1>5, <2>0, <2>1, <2>2 DEF Writers
<1> HIDE DEF z
<1>7. x.source \in {"unknown", "event", "tag"}
  BY <1>1 DEF Writers
<1>8. Held(z) /\ ~m
  BY <1>1, <1>2, <1>6, <1>7 DEF Held, allowTagSource
<1>9. Right(P, c, o, z)
  <2>1. Agrees(c, y, FALSE)
    BY <1>2, <1>5, <1>8 DEF Agrees
  <2> QED BY <1>6, <1>8, <2>1, RightOf
<1> QED BY <1>4, <1>6, <1>9

\* The last of a thought that counts: it leaves no mark open.
LEMMA LastThoughtRight ==
  ASSUME NEW P, NEW c, NEW o \in Option, NEW x, Right(P, c, o, x), ~x.eventOpen, NEW text \in Seq(P)
  PROVE  LET y == LastThought(x, o, text)
         IN  y \in Writers(P) /\ Same(x, y) /\ Agrees(c, y, FALSE)
<1>1. x \in Writers(P) /\ Held(x) /\ <<>> \in Seq(P)
  BY DEF Right
<1>2. PICK m : Agrees(c, x, m) /\ (m => Thinks(o) /\ x.started)
  BY DEF Right
<1>3. m => Thinks(o)
  BY <1>2
<1>4. CASE x.drop
  <2>1. ~m /\ m \in BOOLEAN
    BY <1>1, <1>2, <1>4 DEF Held, Agrees
  <2>2. Agrees(c, x, FALSE)
    BY <1>2, <2>1
  <2> QED BY <1>1, <1>4, <2>2 DEF LastThought, Same
<1>5. CASE ~x.drop /\ x.started
  <2>1. LastThought(x, o, text) = sendText(x, o, text, 3)
    BY <1>5 DEF LastThought
  <2> QED BY <1>1, <1>2, <1>3, <2>1, SendLast
<1>6. CASE ~x.drop /\ ~x.started
  <2> DEFINE state == 1
             y == sendText(x, o, text, state)
             z == sendText(y, o, <<>>, 3)
  <2>1. state \in 0..3
    OBVIOUS
  <2>2. LastThought(x, o, text) = z
    BY <1>6 DEF LastThought
  <2> HIDE DEF state, z
  <2>3. /\ y \in Writers(P) /\ Same(x, y)
        /\ \E n : /\ Agrees(c, y, n)
                  /\ n => Thinks(o) /\ state # 3 /\ (m \/ state = 1)
    BY <1>1, <1>2, <1>3, <2>1, SendTextOf
  <2> HIDE DEF y
  <2>4. PICK n : Agrees(c, y, n) /\ (n => Thinks(o))
    BY <2>3
  <2>5. y \in Writers(P) /\ Agrees(c, y, n)
    BY <2>3, <2>4
  <2>6. n => Thinks(o)
    BY <2>4
  <2>7. z \in Writers(P) /\ Same(y, z) /\ Agrees(c, z, FALSE)
    BY ONLY <1>1, <2>5, <2>6, o \in Option, SendLast DEF z
  <2> QED BY <2>2, <2>3, <2>7 DEF Same
<1> QED BY <1>4, <1>5, <1>6

\* </thinking>: what came before it ends the thought.
LEMMA CloseTagRight ==
  ASSUME NEW P, NEW c, NEW o \in Option, NEW x, Right(P, c, o, x), ~x.eventOpen,
         Tags(x, "close") # {}
  PROVE  LET z == CloseTag(x, o) IN Right(P, c, o, z) /\ ~z.eventOpen
<1> DEFINE i == First(Tags(x, "close"))
           y == LastThought(x, o, SubSeq(x.buf, 1, i - 1))
           z == [y EXCEPT !.buf = From(x.buf, i + 1), !.inside = FALSE, !.drop = FALSE, !.started = FALSE]
<1>1. x \in Writers(P) /\ Held(x)
  BY DEF Right
<1>2. SubSeq(x.buf, 1, i - 1) \in Seq(P) /\ From(x.buf, i + 1) \in Seq(P)
  BY <1>1, AroundTag
<1>3. z = CloseTag(x, o)
  BY DEF CloseTag
<1> HIDE DEF i
<1>4. y \in Writers(P) /\ Same(x, y) /\ Agrees(c, y, FALSE)
  <2> HIDE DEF z
  <2> QED BY <1>2, LastThoughtRight
<1> HIDE DEF y
<1>5. /\ z \in Writers(P) /\ z.out = y.out /\ z.begun = y.begun /\ z.block = y.block /\ z.idx = y.idx
      /\ z.next = y.next /\ ~z.inside /\ ~z.started /\ z.eventOpen = y.eventOpen
  BY <1>2, <1>4 DEF Writers
<1> HIDE DEF z
<1>6. ~z.eventOpen
  BY <1>4, <1>5 DEF Same
<1>7. Held(z)
  BY <1>5, <1>6 DEF Held
<1>8. Right(P, c, o, z)
  BY <1>4, <1>5, <1>7, RightOf
<1> QED BY <1>3, <1>6, <1>8

\* Only a part of the buffer goes out, unless all of it is forced out.
LEMMA SafeCut ==
  ASSUME NEW P, NEW x \in Writers(P), NEW hold \in {Hold, HoldThinking}, NEW force \in BOOLEAN
  PROVE  LET n == Safe(x, hold, force)
         IN  /\ n \in 0..Len(x.buf) /\ n \in Nat
             /\ force => n = Len(x.buf)
             /\ ~force /\ n # 0 => n < Len(x.buf)
<1>1. x.buf \in Seq(P) /\ Len(x.buf) \in Nat
  BY DEF Writers
<1>2. hold \in Nat /\ Keep \in Nat /\ Keep >= 1 /\ Keep <= hold
  BY WriterAssumption
<1> QED BY <1>1, <1>2 DEF Safe

\* Answer that is safe to send.
LEMMA SendAnswerRight ==
  ASSUME NEW P, NEW c, NEW o \in Option, NEW x, Right(P, c, o, x), ~x.eventOpen, ~x.inside,
         NEW force \in BOOLEAN
  PROVE  LET z == SendAnswer(x, o, force) IN Right(P, c, o, z) /\ ~z.eventOpen /\ ~z.started
<1> DEFINE n == Safe(x, Hold, force)
           y == Answer(x, SubSeq(x.buf, 1, n))
           z == [y EXCEPT !.buf = From(x.buf, n + 1)]
<1>1. x \in Writers(P) /\ Held(x) /\ x.buf \in Seq(P)
  BY DEF Right, Writers
<1>2. PICK m : Agrees(c, x, m) /\ (m => Thinks(o) /\ x.started)
  BY DEF Right
<1>3. n \in 0..Len(x.buf)
  BY <1>1, SafeCut
<1>4. z = SendAnswer(x, o, force)
  BY DEF SendAnswer, sendText
<1> HIDE DEF n
<1>5. SubSeq(x.buf, 1, n) \in Seq(P) /\ From(x.buf, n + 1) \in Seq(P)
  BY <1>1, <1>3, Cuts
<1>6. y \in Writers(P) /\ Same(x, y) /\ Agrees(c, y, m)
  <2> HIDE DEF z
  <2> QED BY <1>1, <1>2, <1>5, AnswerOnly
<1> HIDE DEF y
<1>7. ~x.started /\ ~m
  BY <1>1, <1>2 DEF Held
<1>8. Agrees(c, y, FALSE)
  BY <1>6, <1>7 DEF Agrees
<1>9. /\ z \in Writers(P) /\ z.out = y.out /\ z.begun = y.begun /\ z.block = y.block /\ z.idx = y.idx
      /\ z.next = y.next /\ z.inside = x.inside /\ ~z.started /\ ~z.eventOpen
  BY <1>5, <1>6, <1>7 DEF Writers, Same
<1> HIDE DEF z
<1>10. Held(z)
  BY <1>9 DEF Held
<1>11. Right(P, c, o, z)
  BY <1>8, <1>9, <1>10, RightOf
<1> QED BY <1>4, <1>9, <1>11

\* Inside a tag and forced, the thought ends, whether or not anything of it is left.
LEMMA EndThoughtRight ==
  ASSUME NEW P, NEW c, NEW o \in Option, NEW x, Right(P, c, o, x), ~x.eventOpen, x.inside
  PROVE  LET z == SendThought(x, o, TRUE) IN Right(P, c, o, z) /\ ~z.eventOpen /\ ~z.started
<1> DEFINE n    == Safe(x, HoldThinking, TRUE)
           text == SubSeq(x.buf, 1, n)
           rest == From(x.buf, n + 1)
           y == IF text = <<>> THEN x ELSE LastThought(x, o, text)
           z == [y EXCEPT !.buf = rest, !.inside = FALSE, !.drop = FALSE, !.started = FALSE]
<1>1. x \in Writers(P) /\ Held(x) /\ x.buf \in Seq(P) /\ Len(x.buf) \in Nat
  BY DEF Right, Writers
<1>2. PICK m : Agrees(c, x, m) /\ (m => Thinks(o) /\ x.started)
  BY DEF Right
<1>3. n \in 0..Len(x.buf) /\ n = Len(x.buf)
  BY <1>1, SafeCut
<1>4. z = SendThought(x, o, TRUE)
  BY DEF SendThought
<1> HIDE DEF n
<1>5. text \in Seq(P) /\ rest \in Seq(P) /\ (text = <<>> => x.buf = <<>>)
  <2>1. text \in Seq(P) /\ rest \in Seq(P) /\ (n > 0 => text # <<>>)
    BY <1>1, <1>3, Cuts
  <2>2. Len(x.buf) = 0 => x.buf = <<>>
    BY <1>1
  <2> HIDE DEF text, rest
  <2> QED BY <1>1, <1>3, <2>1, <2>2
<1> HIDE DEF text, rest, z
<1>6. y \in Writers(P) /\ Same(x, y) /\ Agrees(c, y, FALSE)
  <2>1. CASE text = <<>>
    <3>1. ~m
      BY <1>1, <1>2, <1>5, <2>1 DEF Held
    <3>2. Agrees(c, x, FALSE)
      BY <1>2, <3>1 DEF Agrees
    <3> QED BY <1>1, <2>1, <3>2 DEF Same
  <2>2. CASE text # <<>>
    <3> QED BY <1>5, <2>2, LastThoughtRight
  <2> QED BY <2>1, <2>2
<1> HIDE DEF y
<1>7. /\ z \in Writers(P) /\ z.out = y.out /\ z.begun = y.begun /\ z.block = y.block /\ z.idx = y.idx
      /\ z.next = y.next /\ ~z.inside /\ ~z.started /\ ~z.eventOpen
  BY <1>5, <1>6 DEF z, Writers, Same
<1>8. Held(z)
  BY <1>7 DEF Held
<1>9. Right(P, c, o, z)
  BY <1>6, <1>7, <1>8, RightOf
<1> QED BY <1>4, <1>7, <1>9

\* Inside a tag, a part of the thought goes out and the rest is held back.
LEMMA MoreThoughtRight ==
  ASSUME NEW P, NEW c, NEW o \in Option, NEW x, Right(P, c, o, x), ~x.eventOpen, x.inside
  PROVE  LET z == SendThought(x, o, FALSE) IN Right(P, c, o, z) /\ ~z.eventOpen
<1> DEFINE n     == Safe(x, HoldThinking, FALSE)
           text  == SubSeq(x.buf, 1, n)
           rest  == From(x.buf, n + 1)
           state == IF x.started THEN 2 ELSE 1
           y == sendText(x, o, text, state)
           z == [y EXCEPT !.buf = rest, !.started = TRUE]
           v == [x EXCEPT !.buf = rest]
<1>1. x \in Writers(P) /\ Held(x) /\ x.buf \in Seq(P) /\ Len(x.buf) \in Nat
  BY DEF Right, Writers
<1>2. PICK m : Agrees(c, x, m) /\ (m => Thinks(o) /\ x.started)
  BY DEF Right
<1>3. n \in 0..Len(x.buf) /\ n \in Nat /\ (n # 0 => n < Len(x.buf))
  BY <1>1, SafeCut
<1>4. SendThought(x, o, FALSE) = IF n = 0 THEN x ELSE IF x.drop THEN v ELSE z
  <2> HIDE DEF z, y
  <2>0. n \in Nat /\ (n # 0 <=> n > 0)
    <3> HIDE DEF n
    <3> QED BY <1>3
  <2>1. CASE n = 0
    BY <2>0, <2>1 DEF SendThought
  <2>2. CASE n # 0 /\ x.drop
    BY <2>0, <2>2 DEF SendThought
  <2>3. CASE n # 0 /\ ~x.drop
    <3>1. SendThought(x, o, FALSE) = z
      BY <2>0, <2>3 DEF SendThought, z, y
    <3> HIDE DEF n
    <3> QED BY <2>3, <3>1
  <2> HIDE DEF n
  <2> QED BY <2>1, <2>2, <2>3
<1>5. state \in 0..3 /\ state # 3
  OBVIOUS
<1> HIDE DEF n, state, z, v
<1>6. text \in Seq(P) /\ rest \in Seq(P) /\ (n # 0 => rest # <<>>)
  BY <1>1, <1>3, Cuts
<1> HIDE DEF text, rest
<1>7. CASE n = 0
  BY <1>4, <1>7
<1>8. CASE n # 0 /\ x.drop
  <2>1. /\ v \in Writers(P) /\ v.out = x.out /\ v.begun = x.begun /\ v.block = x.block /\ v.idx = x.idx
        /\ v.next = x.next /\ v.inside = x.inside /\ v.drop = x.drop /\ v.started = x.started
        /\ v.eventOpen = x.eventOpen
    BY <1>1, <1>6 DEF v, Writers
  <2>2. Held(v)
    BY <1>1, <1>8, <2>1 DEF Held
  <2>3. m => Thinks(o) /\ v.started
    BY <1>2, <2>1
  <2>4. Right(P, c, o, v)
    BY <1>2, <2>1, <2>2, <2>3, RightOf
  <2> QED BY <1>4, <1>8, <2>1, <2>4
<1>9. CASE n # 0 /\ ~x.drop
  <2>1. /\ y \in Writers(P) /\ Same(x, y)
        /\ \E k : /\ Agrees(c, y, k)
                  /\ k => Thinks(o) /\ state # 3 /\ (m \/ state = 1)
    BY <1>1, <1>2, <1>5, <1>6, SendTextOf
  <2> HIDE DEF y
  <2>2. PICK k : Agrees(c, y, k) /\ (k => Thinks(o))
    BY <2>1
  <2>3. /\ z \in Writers(P) /\ z.out = y.out /\ z.begun = y.begun /\ z.block = y.block /\ z.idx = y.idx
        /\ z.next = y.next /\ z.inside = x.inside /\ z.drop = x.drop /\ z.started /\ z.buf = rest
        /\ z.source = x.source /\ z.eventOpen = x.eventOpen
    BY <1>6, <2>1 DEF z, Writers, Same
  <2>4. Held(z)
    BY <1>1, <1>6, <1>9, <2>3 DEF Held
  <2>5. k => Thinks(o) /\ z.started
    BY <2>2, <2>3
  <2>6. Right(P, c, o, z)
    BY <2>2, <2>3, <2>4, <2>5, RightOf
  <2> QED BY <1>4, <1>9, <2>3, <2>6
<1> QED BY <1>7, <1>8, <1>9

\* A round of the loop; when the last is forced, no thought is under way.
LEMMA ScanRight ==
  ASSUME NEW P, NEW c, NEW o \in Option, NEW x, Right(P, c, o, x), ~x.eventOpen,
         NEW force \in BOOLEAN
  PROVE  LET z == Scan(x, o, force)
         IN  Right(P, c, o, z) /\ ~z.eventOpen /\ (force /\ ~TagFound(x) => ~z.started)
<1>1. x.inside \in BOOLEAN
  BY DEF Right, Writers
<1>2. CASE TagFound(x) /\ ~x.inside
  <2>1. Scan(x, o, force) = OpenTag(x, o) /\ Tags(x, "open") # {}
    BY <1>2 DEF Scan, TagFound
  <2> QED BY <1>2, <2>1, OpenTagRight
<1>3. CASE TagFound(x) /\ x.inside
  <2>1. Scan(x, o, force) = CloseTag(x, o) /\ Tags(x, "close") # {}
    BY <1>3 DEF Scan, TagFound
  <2> QED BY <1>3, <2>1, CloseTagRight
<1>4. CASE ~TagFound(x) /\ ~x.inside
  <2>1. Scan(x, o, force) = SendAnswer(x, o, force)
    BY <1>4 DEF Scan
  <2> QED BY <1>4, <2>1, SendAnswerRight
<1>5. CASE ~TagFound(x) /\ x.inside
  <2>1. Scan(x, o, force) = SendThought(x, o, force)
    BY <1>5 DEF Scan
  <2>2. CASE force
    <3>1. force = TRUE
      BY <2>2
    <3> QED BY <1>5, <2>1, <3>1, EndThoughtRight
  <2>3. CASE ~force
    <3>1. force = FALSE
      BY <2>3
    <3> QED BY <1>5, <2>1, <3>1, MoreThoughtRight
  <2> QED BY <2>2, <2>3
<1> QED BY <1>1, <1>2, <1>3, <1>4, <1>5

\* A block is closed at any time.
LEMMA CloseRight ==
  ASSUME NEW P, NEW c, NEW o, NEW x, Right(P, c, o, x)
  PROVE  LET y == closeActiveBlock(x)
         IN  Right(P, c, o, y) /\ y.block = NoBlock /\ Same(x, y)
<1> DEFINE y == closeActiveBlock(x)
<1>1. x \in Writers(P) /\ Held(x)
  BY DEF Right
<1>2. PICK m : Agrees(c, x, m) /\ (m => Thinks(o) /\ x.started)
  BY DEF Right
<1>3. y \in Writers(P) /\ Same(x, y) /\ y.block = NoBlock /\ Agrees(c, y, m)
  BY <1>1, <1>2, CloseBlock
<1> HIDE DEF y
<1>4. Right(P, c, o, y)
  BY <1>1, <1>2, <1>3, RightToo
<1> QED BY <1>3, <1>4 DEF y

\* A tool call is a block of its own, opened and closed while no mark is open.
LEMMA ToolUseRight ==
  ASSUME NEW P, NEW c, NEW o, NEW x, Right(P, c, o, x), ~x.eventOpen, ~x.started, NEW tool \in Seq(P)
  PROVE  LET z == ToolUse(x, tool) IN Right(P, c, o, z) /\ ~z.eventOpen
<1> DEFINE u == ensureMessageStart(x)
           v == closeActiveBlock(u)
<1>1. x \in Writers(P) /\ Held(x)
  BY DEF Right
<1>2. Agrees(c, x, FALSE)
  <2>1. PICK m : Agrees(c, x, m) /\ (m => Thinks(o) /\ x.started)
    BY DEF Right
  <2> QED BY <2>1 DEF Agrees
<1>3. u \in Writers(P) /\ u.begun /\ Same(x, u) /\ Agrees(c, u, FALSE)
  BY <1>1, <1>2, EnsureStart
<1> HIDE DEF u
<1>4. v \in Writers(P) /\ v.begun /\ Same(u, v) /\ v.block = NoBlock /\ Agrees(c, v, FALSE)
  BY <1>3, CloseBlock
<1>5. v = closeActiveBlock(ensureMessageStart(x))
  BY DEF u
<1> HIDE DEF v
<1> DEFINE Wide == [begun: BOOLEAN, block: Blocks, idx: Nat, next: Nat, buf: Seq(P),
                   inside: BOOLEAN, drop: BOOLEAN, source: {"unknown", "event", "tag"},
                   started: BOOLEAN, eventOpen: BOOLEAN, out: Seq(Events(P))]
           e1 == Event("block_start", v.next, "tool_use", "none", <<>>)
           y  == NextBlock(v, "tool_use")
           e2 == Event("delta", y.idx, "tool_use", "tool", tool)
           t  == Send(y, e2)
           e3 == Event("block_stop", t.idx, "tool_use", "none", <<>>)
           z  == [Send(t, e3) EXCEPT !.block = NoBlock]
<1>6. z = ToolUse(x, tool)
  BY <1>5 DEF ToolUse
<1>7. v.next \in Nat /\ v.out \in Seq(Events(P)) /\ "tool_use" \in Blocks /\ "tool" \in Roles /\ v \in Wide
  BY <1>4 DEF Writers, Blocks, Roles, NoBlock
<1>8. e1 \in Events(P)
  BY <1>7, PlainEvent
<1> HIDE DEF e1, z
<1>9. /\ y \in Wide /\ y.out = Append(v.out, e1) /\ y.out \in Seq(Events(P)) /\ y.idx = v.next
      /\ y.next = v.next + 1 /\ Same(v, y) /\ y.begun
  <2>1. Append(v.out, e1) \in Seq(Events(P)) /\ v.next + 1 \in Nat
    BY <1>7, <1>8
  <2>2. y = [Send(v, e1) EXCEPT !.block = "tool_use", !.idx = v.next, !.next = @ + 1]
    BY DEF NextBlock, e1
  <2>3. /\ Send(v, e1) \in Wide /\ Send(v, e1).next = v.next /\ Send(v, e1).out = Append(v.out, e1)
        /\ Same(v, Send(v, e1)) /\ Send(v, e1).begun = v.begun
    BY <1>7, <2>1 DEF Send, Same
  <2> HIDE DEF y
  <2> QED BY <1>4, <1>7, <2>1, <2>2, <2>3 DEF Same
<1> HIDE DEF y
<1>10. e2 \in Events(P)
  BY <1>7, <1>9, TextEvent
<1> HIDE DEF e2
<1>11. /\ t \in Wide /\ t.out = Append(y.out, e2) /\ t.out \in Seq(Events(P)) /\ t.idx = y.idx
       /\ t.next = y.next /\ Same(y, t) /\ t.begun
  <2>1. Append(y.out, e2) \in Seq(Events(P))
    BY <1>9, <1>10
  <2> QED BY <1>9, <2>1 DEF Send, Same
<1> HIDE DEF t
<1>12. e3 \in Events(P)
  BY <1>7, <1>9, <1>11, PlainEvent
<1> HIDE DEF e3
<1>13. /\ z \in Writers(P) /\ z.out = Append(t.out, e3) /\ z.idx = t.idx
       /\ z.next = t.next /\ Same(t, z) /\ z.begun /\ z.block = NoBlock
  <2>1. Append(t.out, e3) \in Seq(Events(P))
    BY <1>11, <1>12
  <2> QED BY <1>11, <2>1 DEF Send, Same, z, Writers
<1>14. PICK s \in States : Leads(c, v.out, s) /\ Fits(s, v) /\ s.marked = FALSE
  BY <1>4 DEF Agrees
<1>15. s.phase = "between" /\ s.kind = NoBlock /\ s.index = v.next /\ s.marked = FALSE
  BY <1>4, <1>14 DEF Fits
<1> DEFINE s1 == After(s, e1)
           s2 == After(s1, e2)
           s3 == After(s2, e3)
<1>16. /\ Legal(s, e1)
       /\ s1 = [phase |-> "open", kind |-> "tool_use", index |-> v.next, marked |-> FALSE]
  BY <1>7, <1>15 DEF e1, Legal, After, Client, PhaseOf, MarkOf, Event, NoBlock
<1>17. s1 \in States /\ Leads(c, y.out, s1)
  <2>1. After(s, e1) \in States /\ Leads(c, Append(v.out, e1), After(s, e1))
    BY <1>7, <1>8, <1>14, <1>16, LeadsFurther, AfterType
  <2> QED BY <1>9, <2>1
<1> HIDE DEF s1
<1>18. /\ Legal(s1, e2)
       /\ s2 = [phase |-> "open", kind |-> "tool_use", index |-> v.next, marked |-> FALSE]
  BY <1>9, <1>16 DEF e2, Legal, After, Client, PhaseOf, MarkOf, Event
<1>19. s2 \in States /\ Leads(c, t.out, s2)
  <2>1. After(s1, e2) \in States /\ Leads(c, Append(y.out, e2), After(s1, e2))
    BY <1>9, <1>10, <1>17, <1>18, LeadsFurther, AfterType
  <2> QED BY <1>11, <2>1
<1> HIDE DEF s2
<1>20. /\ Legal(s2, e3)
       /\ s3 = [phase |-> "between", kind |-> NoBlock, index |-> v.next + 1, marked |-> FALSE]
  BY <1>9, <1>11, <1>18 DEF e3, Legal, After, Client, PhaseOf, MarkOf, Event
<1>21. s3 \in States /\ Leads(c, z.out, s3)
  <2>1. After(s2, e3) \in States /\ Leads(c, Append(t.out, e3), After(s2, e3))
    BY <1>11, <1>12, <1>19, <1>20, LeadsFurther, AfterType
  <2> QED BY <1>13, <2>1
<1> HIDE DEF s3
<1>22. Fits(s3, z)
  BY <1>9, <1>11, <1>13, <1>20 DEF Fits
<1>23. Agrees(c, z, FALSE)
  BY <1>20, <1>21, <1>22 DEF Agrees
<1>24. Same(x, z) /\ ~z.eventOpen
  BY <1>3, <1>4, <1>9, <1>11, <1>13 DEF Same
<1>25. Right(P, c, o, z)
  BY <1>1, <1>13, <1>23, <1>24, RightToo
<1> QED BY <1>6, <1>24, <1>25

\* The end of a message whose blocks are closed.
LEMMA EndMessageRight ==
  ASSUME NEW P, NEW c, NEW o, NEW x, Right(P, c, o, x), ~x.started, x.block = NoBlock
  PROVE  LET z == EndMessage(x) IN z \in Writers(P) /\ z.buf = x.buf /\ \E s : Leads(c, z.out, s)
<1> DEFINE u  == ensureMessageStart(x)
           e1 == Event("message_delta", 0, NoBlock, "none", <<>>)
           e2 == Event("message_stop", 0, NoBlock, "none", <<>>)
           y  == Send(u, e1)
           z  == Send(y, e2)
<1>1. Agrees(c, x, FALSE) /\ x \in Writers(P)
  <2>1. PICK m : Agrees(c, x, m) /\ (m => Thinks(o) /\ x.started)
    BY DEF Right
  <2> QED BY <2>1 DEF Agrees, Right
<1>2. z = EndMessage(x)
  BY DEF EndMessage
<1> HIDE DEF z
<1>3. u \in Writers(P) /\ u.begun /\ u.block = NoBlock /\ Agrees(c, u, FALSE) /\ Same(x, u)
  <2> HIDE DEF y
  <2> QED BY <1>1, EnsureStart
<1>4. e1 \in Events(P) /\ e2 \in Events(P)
  BY PlainEvent DEF Blocks
<1> HIDE DEF u
<1>5. PICK s \in States : Leads(c, u.out, s) /\ Fits(s, u) /\ s.marked = FALSE
  BY <1>3 DEF Agrees
<1>6. s.phase = "between" /\ s.kind = NoBlock /\ s.marked = FALSE
  BY <1>3, <1>5 DEF Fits
<1> DEFINE s1 == After(s, e1)
           s2 == After(s1, e2)
<1>7. /\ Legal(s, e1)
      /\ s1 = [phase |-> "ending", kind |-> NoBlock, index |-> 0, marked |-> FALSE]
  BY <1>6 DEF Legal, After, Client, PhaseOf, MarkOf, Event
<1>8. Legal(s1, e2)
  BY <1>7 DEF Legal, Event
<1> HIDE DEF e1, e2
<1>9. y \in Writers(P) /\ y.out = Append(u.out, e1) /\ Same(u, y)
  BY <1>3, <1>4, SendOf
<1>10. s1 \in States /\ Leads(c, y.out, s1)
  <2>0. u.out \in Seq(Events(P))
    BY <1>3 DEF Writers
  <2>1. After(s, e1) \in States /\ Leads(c, Append(u.out, e1), After(s, e1))
    BY <1>3, <1>4, <1>5, <1>7, <2>0, LeadsFurther, AfterType
  <2> QED BY <1>9, <2>1
<1> HIDE DEF y, s1
<1>11. z \in Writers(P) /\ z.out = Append(y.out, e2) /\ Same(y, z)
  BY <1>4, <1>9, SendOf DEF z
<1>12. Leads(c, z.out, s2)
  <2>0. y.out \in Seq(Events(P))
    BY <1>9 DEF Writers
  <2>1. After(s1, e2) \in States /\ Leads(c, Append(y.out, e2), After(s1, e2))
    BY <1>4, <1>8, <1>9, <1>10, <2>0, LeadsFurther, AfterType
  <2> QED BY <1>11, <2>1
<1> QED BY <1>2, <1>3, <1>9, <1>11, <1>12 DEF Same

\* An attempt begins with nothing queued and nothing remembered.
LEMMA NewRight ==
  ASSUME NEW P, NEW c \in States, c.phase = "new", c.kind = NoBlock, c.index = 0, ~c.marked, NEW o
  PROVE  Right(P, c, o, NewWriter(FALSE))
<1>1. <<>> \in Seq(P) /\ <<>> \in Seq(Events(P))
  OBVIOUS
<1>2. NewWriter(FALSE) \in Writers(P) /\ Held(NewWriter(FALSE))
  BY <1>1 DEF NewWriter, Writers, Held
<1>3. Leads(c, NewWriter(FALSE).out, c)
  <2>1. Leads(c, <<>>, c)
    BY LeadsNowhere
  <2> QED BY <2>1 DEF NewWriter
<1>4. Fits(c, NewWriter(FALSE)) /\ c.marked = FALSE
  BY DEF Fits, NewWriter, States
<1>5. Agrees(c, NewWriter(FALSE), FALSE)
  BY <1>3, <1>4 DEF Agrees
<1> QED BY <1>2, <1>5 DEF Right

\* A message that has not begun is not queued either.
LEMMA NotBegun ==
  ASSUME NEW P, NEW c \in States, NEW o, NEW x, Right(P, c, o, x), ~x.begun, x.out = <<>>
  PROVE  c.phase = "new"
<1>1. PICK m, s \in States : Leads(c, x.out, s) /\ Fits(s, x)
  BY DEF Right, Agrees
<1>2. s = c
  BY <1>1, LeadsNowhere
<1> QED BY <1>1, <1>2 DEF Fits

\* The next event of the queue is one the client accepts.
LEMMA SentRight ==
  ASSUME NEW P, NEW c \in States, NEW o, NEW x, Right(P, c, o, x), x.out # <<>>
  PROVE  LET ev == Head(x.out)
             z  == [x EXCEPT !.out = Tail(@)]
         IN  Right(P, After(c, ev), o, z)
<1> DEFINE ev == Head(x.out)
           z  == [x EXCEPT !.out = Tail(@)]
<1>1. x \in Writers(P) /\ Held(x) /\ x.out \in Seq(Events(P))
  BY DEF Right, Writers
<1>2. PICK m : Agrees(c, x, m) /\ (m => Thinks(o) /\ x.started)
  BY DEF Right
<1>3. PICK s \in States : Leads(c, x.out, s) /\ Fits(s, x) /\ s.marked = m
  BY <1>2 DEF Agrees
<1>4. Leads(After(c, ev), Tail(x.out), s)
  BY <1>1, <1>3, LeadsOn
<1>5. /\ z \in Writers(P) /\ z.out = Tail(x.out) /\ z.begun = x.begun /\ z.block = x.block
      /\ z.idx = x.idx /\ z.next = x.next /\ z.started = x.started
      /\ z.buf = x.buf /\ z.inside = x.inside /\ z.drop = x.drop /\ z.source = x.source
      /\ z.eventOpen = x.eventOpen
  <2>1. Tail(x.out) \in Seq(Events(P))
    BY <1>1
  <2> QED BY <1>1, <2>1 DEF Writers
<1> HIDE DEF z, ev
<1>6. Held(z)
  BY <1>1, <1>5 DEF Held
<1>7. Fits(s, z)
  BY <1>3, <1>5 DEF Fits
<1>8. Agrees(After(c, ev), z, m)
  BY <1>2, <1>3, <1>4, <1>5, <1>7 DEF Agrees
<1>9. Right(P, After(c, ev), o, z)
  BY <1>2, <1>5, <1>6, <1>8 DEF Right
<1> QED BY <1>9 DEF z, ev

-----------------------------------------------------------------------------
(* The handler: its types, and how many requests it makes.                 *)

Pcs   == {"pick", "token", "call", "stream", "text", "tool", "lastTool", "failed",
          "whole", "flush", "cut", "bill", "done"}
Calls == [account: 0..MaxAccount, at: 1..Places + 1, shrank: BOOLEAN, arn: BOOLEAN]

\* How often all places have been tried before the current round of them.
Spent(k) == (IF k.shrank THEN Places ELSE 0) + (IF k.arn THEN Places ELSE 0)

HandlerOK ==
  /\ opt \in Option /\ pc \in Pcs /\ fates \in Seq({"empty", "failed", "blank", "served"})
  /\ call \in Calls /\ calls \in Nat
  /\ effort \in {"none", "low", "high"} /\ retried \in BOOLEAN /\ rejected \in BOOLEAN
  /\ stream \in [frames: 0..MaxFrame, content: BOOLEAN, quiet: Nat, tool: BOOLEAN]
  /\ billed \in Nat /\ result \in {"open", "served", "interrupted", "fallback"}
  /\ pc = "token" => Len(fates) < MaxAccount

\* Every request of a round is made at a place further on.
RoundsOK ==
  /\ pc = "call"   => calls + 1 <= call.at + Spent(call)
  /\ pc \in {"stream", "text", "tool"} => calls <= call.at + Spent(call) /\ call.at <= Places
  /\ calls <= Places + Spent(call)

\* The next place is further on, and at most one past the last.
LEMMA NextPlaceType ==
  ASSUME call \in Calls, call.at <= Places, NEW again \in BOOLEAN
  PROVE  NextPlace(again) \in 1..Places + 1 /\ NextPlace(again) >= call.at + 1
<1>1. Endpoints \in Nat /\ call.at \in Nat /\ call.at >= 1
  BY StreamAssumption DEF Calls
<1> QED BY <1>1 DEF NextPlace, Places

LEMMA CallType ==
  ASSUME NEW k \in Calls
  PROVE  /\ Places \in Nat /\ Places >= 1 /\ k.at \in Nat /\ k.at >= 1
         /\ k.shrank \in BOOLEAN /\ k.arn \in BOOLEAN
         /\ Spent(k) \in Nat /\ Spent(k) <= 2 * Places
<1>1. Places \in Nat /\ Places >= 1
  BY StreamAssumption DEF Places
<1>2. k.at \in Nat /\ k.at >= 1 /\ k.shrank \in BOOLEAN /\ k.arn \in BOOLEAN
  BY <1>1 DEF Calls
<1> QED BY <1>1, <1>2 DEF Spent

\* A call begins at the first place, with no request made.
LEMMA StartCallHandler ==
  ASSUME HandlerOK, RoundsOK, NEW a \in 0..MaxAccount, StartCall(a)
  PROVE  /\ pc' = "call" /\ call' \in Calls /\ calls' \in Nat
         /\ stream' \in [frames: 0..MaxFrame, content: BOOLEAN, quiet: Nat, tool: BOOLEAN]
         /\ RoundsOK'
<1>1. Places \in Nat /\ Places >= 1 /\ MaxFrame \in Nat
  BY StreamAssumption DEF Places
<1> QED BY <1>1 DEF StartCall, NewCall, NewStream, Calls, RoundsOK, Spent

LEMMA CallHandler ==
  ASSUME HandlerOK, RoundsOK, CallKiroAPI
  PROVE  HandlerOK' /\ RoundsOK'
<1>1. /\ Places \in Nat /\ Places >= 1 /\ MaxFrame \in Nat
      /\ call.at \in Nat /\ call.at >= 1 /\ Spent(call) \in Nat /\ calls \in Nat
      /\ call.shrank \in BOOLEAN /\ call.arn \in BOOLEAN
  BY StreamAssumption, CallType DEF HandlerOK
<1>2. CASE Refused
  <2>1. call.at <= Places /\ pc = "call" /\ pc' = "call" /\ calls' = calls + 1
    BY <1>2 DEF Refused, Request, At
  <2>2. PICK n \in 1..Places + 1 : call' = [call EXCEPT !.at = n] /\ n >= call.at + 1
    BY <1>2, <2>1, NextPlaceType DEF HandlerOK, Refused
  <2>3. call' \in Calls /\ call'.at = n /\ Spent(call') = Spent(call)
    BY <2>2 DEF HandlerOK, Calls, Spent
  <2>4. HandlerOK'
    BY <1>2, <2>1, <2>3 DEF HandlerOK, Refused, payload
  <2>5. calls + 1 <= call.at + Spent(call)
    BY <2>1 DEF RoundsOK
  <2>6. calls' + 1 <= call'.at + Spent(call') /\ calls' <= Places + Spent(call')
    BY <1>1, <2>1, <2>2, <2>3, <2>5
  <2> QED BY <2>1, <2>4, <2>6 DEF RoundsOK
<1>3. CASE Denied
  BY <1>1, <1>3 DEF HandlerOK, RoundsOK, Denied, Request, At, Pcs, payload
<1>4. CASE reresolveAccountProfileArn
  <2>0. /\ call' = [call EXCEPT !.at = 1, !.arn = TRUE] /\ ~call.arn /\ call \in Calls
        /\ pc' = "call" /\ calls' = calls + 1 /\ pc = "call" /\ call.at <= Places
    BY <1>4 DEF HandlerOK, reresolveAccountProfileArn, Request, At
  <2>1. call' \in Calls /\ call'.at = 1 /\ Spent(call') = Spent(call) + Places
    <3>1. call' \in Calls /\ call'.at = 1 /\ call'.arn /\ call'.shrank = call.shrank
      <4>1. 1 \in 1..Places + 1
        BY <1>1
      <4> QED BY <2>0, <4>1 DEF Calls
    <3> QED BY <1>1, <2>0, <3>1 DEF Spent
  <2>2. HandlerOK'
    BY <1>4, <2>0, <2>1 DEF HandlerOK, reresolveAccountProfileArn, payload
  <2>3. RoundsOK'
    <3>1. calls + 1 <= call.at + Spent(call)
      BY <2>0 DEF RoundsOK
    <3>2. calls' + 1 <= call'.at + Spent(call') /\ calls' <= Places + Spent(call')
      BY <1>1, <2>0, <2>1, <3>1
    <3> QED BY <2>0, <3>2 DEF RoundsOK
  <2> QED BY <2>2, <2>3
<1>5. CASE shrinkPayload
  <2>0. /\ call' = [call EXCEPT !.at = 1, !.shrank = TRUE] /\ ~call.shrank /\ call \in Calls
        /\ pc' = "call" /\ calls' = calls + 1 /\ pc = "call" /\ call.at <= Places
    BY <1>5 DEF HandlerOK, shrinkPayload, Request, At
  <2>1. call' \in Calls /\ call'.at = 1 /\ Spent(call') = Spent(call) + Places
    <3>1. call' \in Calls /\ call'.at = 1 /\ call'.shrank /\ call'.arn = call.arn
      <4>1. 1 \in 1..Places + 1
        BY <1>1
      <4> QED BY <2>0, <4>1 DEF Calls
    <3> QED BY <1>1, <2>0, <3>1 DEF Spent
  <2>2. HandlerOK'
    BY <1>5, <2>0, <2>1 DEF HandlerOK, shrinkPayload, payload
  <2>3. RoundsOK'
    <3>1. calls + 1 <= call.at + Spent(call)
      BY <2>0 DEF RoundsOK
    <3>2. calls' + 1 <= call'.at + Spent(call') /\ calls' <= Places + Spent(call')
      BY <1>1, <2>0, <2>1, <3>1
    <3> QED BY <2>0, <3>2 DEF RoundsOK
  <2> QED BY <2>2, <2>3
<1>6. CASE StartStream
  BY <1>1, <1>6 DEF HandlerOK, RoundsOK, StartStream, Request, At, Pcs, NewStream, payload
<1>7. CASE AllFailed
  BY <1>1, <1>7 DEF HandlerOK, RoundsOK, AllFailed, At, Pcs, upstream, payload
<1> QED BY <1>2, <1>3, <1>4, <1>5, <1>6, <1>7 DEF CallKiroAPI

\* A frame only moves the guard's clock and the count of frames.
LEMMA FrameHandler ==
  ASSUME HandlerOK, NEW content \in BOOLEAN, NEW tool \in BOOLEAN, Frame(content, tool)
  PROVE  stream' \in [frames: 0..MaxFrame, content: BOOLEAN, quiet: Nat, tool: BOOLEAN]
<1>1. stream.frames \in 0..MaxFrame /\ stream.content \in BOOLEAN /\ MaxFrame \in Nat
  BY StreamAssumption DEF HandlerOK
<1> QED BY <1>1 DEF Frame

LEMMA UpstreamHandler ==
  ASSUME HandlerOK, RoundsOK, Upstream
  PROVE  HandlerOK' /\ RoundsOK'
<1>1. /\ Places \in Nat /\ call.at \in Nat /\ Spent(call) \in Nat /\ stream.tool \in BOOLEAN
      /\ calls \in Nat
  BY CallType DEF HandlerOK
<1>2. ASSUME NEW c \in Chunk, OnText(c) PROVE HandlerOK' /\ RoundsOK'
  <2>1. Frame(TRUE, stream.tool) /\ pc = "stream"
    BY <1>2 DEF OnText, Frame, At
  <2>2. HandlerOK'
    BY <1>1, <1>2, <2>1, FrameHandler DEF HandlerOK, OnText, Pcs, payload
  <2> QED BY <1>2, <2>1, <2>2 DEF RoundsOK, OnText
<1>3. CASE OnReasoning
  <2>1. Frame(TRUE, stream.tool)
    BY <1>3 DEF OnReasoning
  <2>2. HandlerOK'
    BY <1>1, <1>3, <2>1, FrameHandler DEF HandlerOK, OnReasoning, payload
  <2> QED BY <1>3, <2>2 DEF HandlerOK, RoundsOK, OnReasoning
<1>4. CASE handleToolUseEvent
  <2>0. PICK another \in BOOLEAN : Frame(TRUE, another)
    BY <1>1, <1>4 DEF handleToolUseEvent
  <2>1. pc = "stream" /\ Frame(TRUE, another)
    BY <2>0 DEF Frame, At
  <2>2. HandlerOK'
    BY <1>1, <1>4, <2>1, FrameHandler DEF HandlerOK, handleToolUseEvent, Pcs, payload
  <2> QED BY <1>4, <2>1, <2>2 DEF RoundsOK, handleToolUseEvent
<1>5. CASE OtherFrame
  <2>1. PICK content \in BOOLEAN : Frame(content, stream.tool)
    BY <1>5 DEF OtherFrame
  <2>2. HandlerOK'
    BY <1>1, <1>5, <2>1, FrameHandler DEF HandlerOK, OtherFrame, payload
  <2> QED BY <1>5, <2>2 DEF HandlerOK, RoundsOK, OtherFrame
<1>6. ASSUME NEW e, Again(e), pc = "stream", UNCHANGED <<opt, fates, calls, stream, payload, billed, result>>
      PROVE  HandlerOK' /\ RoundsOK'
  <2>1. call.at <= Places /\ calls <= call.at + Spent(call) /\ calls' = calls /\ pc' = "call"
    BY <1>6 DEF RoundsOK, Again
  <2>2. PICK n \in 1..Places + 1 : call' = [call EXCEPT !.at = n] /\ n >= call.at + 1
    BY <1>6, <2>1, NextPlaceType DEF HandlerOK, Again
  <2>3. call' \in Calls /\ call'.at = n /\ Spent(call') = Spent(call)
    BY <2>2 DEF HandlerOK, Calls, Spent
  <2>4. HandlerOK'
    BY <1>6, <2>1, <2>3 DEF HandlerOK, payload, Pcs
  <2>5. calls' + 1 <= call'.at + Spent(call') /\ calls' <= Places + Spent(call')
    BY <1>1, <2>1, <2>2, <2>3
  <2> QED BY <2>1, <2>4, <2>5 DEF RoundsOK
<1>7. ASSUME pc' \in Pcs \ {"token", "call", "stream", "text", "tool"},
             UNCHANGED <<opt, fates, call, calls, stream, payload, billed, result>>
      PROVE  HandlerOK' /\ RoundsOK'
  BY <1>7 DEF HandlerOK, RoundsOK, payload
<1>8. CASE StreamEnds
  <2>1. pc = "stream" /\ UNCHANGED <<opt, fates, calls, stream, payload, billed, result>>
    BY <1>8 DEF StreamEnds, At
  <2>2. Again("empty") \/ (pc' \in {"lastTool", "whole"} /\ call' = call)
    BY <1>8 DEF StreamEnds
  <2>3. {"lastTool", "whole"} \subseteq Pcs \ {"token", "call", "stream", "text", "tool"}
    BY DEF Pcs
  <2> QED BY <1>6, <1>7, <2>1, <2>2, <2>3
<1>9. CASE StreamBreaks
  <2>1. pc = "stream" /\ UNCHANGED <<opt, fates, calls, stream, payload, billed, result>>
    BY <1>9 DEF StreamBreaks, At
  <2>2. Again("abort") \/ (pc' = "failed" /\ call' = call)
    BY <1>9 DEF StreamBreaks, Fails
  <2>3. "failed" \in Pcs \ {"token", "call", "stream", "text", "tool"}
    BY DEF Pcs
  <2> QED BY <1>6, <1>7, <2>1, <2>2, <2>3
<1> QED BY <1>2, <1>3, <1>4, <1>5, <1>8, <1>9 DEF Upstream

LEMMA HandlerStep ==
  ASSUME HandlerOK, RoundsOK, [Next]_vars
  PROVE  HandlerOK' /\ RoundsOK'
<1>1. ASSUME pc' \in Pcs \ {"token", "call", "stream", "text", "tool"}, UNCHANGED <<opt, call, calls, stream>>,
             fates' \in Seq({"empty", "failed", "blank", "served"}), effort' \in {"none", "low", "high"},
             retried' \in BOOLEAN, rejected' \in BOOLEAN, billed' \in Nat,
             result' \in {"open", "served", "interrupted", "fallback"}
      PROVE  HandlerOK' /\ RoundsOK'
  BY <1>1 DEF HandlerOK, RoundsOK
<1>2. {"pick", "failed", "whole", "flush", "cut", "bill", "done", "lastTool"}
        \subseteq Pcs \ {"token", "call", "stream", "text", "tool"}
  BY DEF Pcs
<1>3. CASE GetNextForModelExcluding
  BY <1>3 DEF HandlerOK, RoundsOK, GetNextForModelExcluding, Pcs, upstream, payload
<1>4. CASE GiveUp
  BY <1>1, <1>2, <1>4 DEF HandlerOK, GiveUp, upstream, payload
<1>5. CASE ensureValidToken
  <2>1. CASE StartCall(Len(fates) + 1) /\ UNCHANGED fates
    <3>1. Len(fates) + 1 \in 0..MaxAccount
      BY <1>5, StreamAssumption DEF HandlerOK, ensureValidToken, At
    <3>2. /\ pc' = "call" /\ call' \in Calls /\ calls' \in Nat
          /\ stream' \in [frames: 0..MaxFrame, content: BOOLEAN, quiet: Nat, tool: BOOLEAN]
          /\ RoundsOK'
      BY <2>1, <3>1, StartCallHandler
    <3> QED BY <1>5, <2>1, <3>2 DEF HandlerOK, ensureValidToken, payload, Pcs
  <2>2. CASE fates' = Append(fates, "failed") /\ pc' = "pick" /\ UNCHANGED upstream
    BY <1>1, <1>2, <1>5, <2>2 DEF HandlerOK, ensureValidToken, upstream, payload
  <2> QED BY <1>5, <2>1, <2>2 DEF ensureValidToken
<1>6. CASE CallKiroAPI
  BY <1>6, CallHandler
<1>7. CASE processClaudeText
  <2>1. UNCHANGED <<opt, fates, call, calls, stream, effort, retried, rejected, billed>>
    BY <1>7 DEF processClaudeText, upstream, payload
  <2>2. pc \in {"text", "tool", "lastTool", "flush", "cut"} /\ result' \in {result, "interrupted"}
    BY <1>7 DEF processClaudeText
  <2>3. \/ pc \in {"text", "tool"} /\ pc' \in {pc, "stream"}
        \/ pc \in {"lastTool", "flush", "cut"} /\ pc' \in {pc, "whole", "bill", "done"}
    BY <1>7 DEF processClaudeText
  <2>4. CASE pc \in {"text", "tool"} /\ pc' \in {pc, "stream"}
    BY <2>1, <2>2, <2>4 DEF HandlerOK, RoundsOK, Pcs
  <2>5. CASE pc \in {"lastTool", "flush", "cut"} /\ pc' \in {pc, "whole", "bill", "done"}
    BY <1>1, <1>2, <2>1, <2>2, <2>5 DEF HandlerOK
  <2> QED BY <2>3, <2>4, <2>5
<1>8. CASE sendSSELocked
  BY <1>8 DEF HandlerOK, RoundsOK, sendSSELocked, upstream, payload
<1>9. CASE RetryWithoutEffort
  <2>1. call.account \in 0..MaxAccount
    BY DEF HandlerOK, Calls
  <2>2. /\ pc' = "call" /\ call' \in Calls /\ calls' \in Nat
        /\ stream' \in [frames: 0..MaxFrame, content: BOOLEAN, quiet: Nat, tool: BOOLEAN]
        /\ RoundsOK'
    BY <1>9, <2>1, StartCallHandler DEF RetryWithoutEffort
  <2> QED BY <1>9, <2>2 DEF HandlerOK, RetryWithoutEffort, Pcs
<1>10. CASE AccountFails
  BY <1>1, <1>2, <1>10 DEF HandlerOK, AccountFails, Fate, reduceEffort, upstream
<1>11. CASE EmptyReply
  BY <1>1, <1>2, <1>11 DEF HandlerOK, EmptyReply, upstream
<1>12. CASE Flush
  BY <1>1, <1>2, <1>12 DEF HandlerOK, Flush, upstream, payload
<1>13. CASE recordSuccessForApiKey
  BY <1>1, <1>2, <1>13 DEF HandlerOK, recordSuccessForApiKey, upstream, payload
<1>14. CASE Upstream
  BY <1>14, UpstreamHandler
<1>15. CASE Beat
  BY <1>15 DEF HandlerOK, RoundsOK, Beat, payload
<1>16. CASE Stall
  BY <1>1, <1>2, <1>16 DEF HandlerOK, Stall, payload
<1>17. CASE UNCHANGED vars
  BY <1>17 DEF HandlerOK, RoundsOK, vars, upstream, payload
<1> QED BY <1>3, <1>4, <1>5, <1>6, <1>7, <1>8, <1>9, <1>10, <1>11, <1>12, <1>13, <1>14, <1>15,
           <1>16, <1>17 DEF Next, handleClaudeStream, Done

-----------------------------------------------------------------------------
(* The reply: the client and the writer, and what they hold.               *)

\* Pieces of one attempt's reply.
Mine(a) == [k: {"text", "open", "close", "think", "tool"}, by: {a}, n: Nat]

Reader == Client(last, marked)

Unheard == last = Event("none", 0, NoBlock, "none", <<>>) /\ marked = FALSE /\ heard = <<>>

\* Nothing is written, queued, held back or heard.
Fresh == w = NewWriter(FALSE) /\ Unheard

ReplyOK ==
  /\ last \in Events({}) /\ marked \in BOOLEAN
  /\ last.e = "none" => Unheard
  /\ heard \in Seq(Mine(Attempt)) /\ said \in Seq(Mine(Attempt))
  /\ pc # "done" => Right(Mine(Attempt), Reader, opt, w)
  /\ pc = "done" => w \in Writers(Mine(Attempt)) /\ \E s : Leads(Reader, w.out, s)

\* Where an attempt may be left for another one nothing of it is there; a loop
\* of processClaudeText and the end of a message find no thought under way.
PlaceOK ==
  /\ pc = "pick"  => ~w.begun /\ w.out = <<>> /\ last.e = "none"
  /\ pc = "token" => Fresh
  /\ \/ pc = "call" \/ (pc = "stream" /\ ~stream.content) \/ (pc = "failed" /\ err # "abort")
     => Fresh /\ said = <<>>
  /\ pc \in {"text", "tool", "lastTool", "flush", "cut"} => ~w.eventOpen
  /\ pc \in {"text", "tool"} => stream.content
  /\ pc \in {"tool", "lastTool"} => said # <<>>
  /\ pc = "bill" => w.block = NoBlock /\ ~w.started
  /\ billed > 0 => pc = "done"
  /\ result = "fallback" => pc = "done" /\ last.e = "none" /\ w.out = <<>> /\ billed = 0

LEMMA ReaderType ==
  ASSUME last \in Events({}), marked \in BOOLEAN
  PROVE  Reader \in States
<1>1. PhaseOf(last) \in Phases
  BY DEF PhaseOf, Phases, Events
<1>2. last.i \in Nat /\ last.i + 1 \in Nat /\ last.kind \in Blocks /\ NoBlock \in Blocks
  BY DEF Events, Blocks
<1> QED BY <1>1, <1>2 DEF Reader, Client, States

\* A client that has read nothing can begin to read any attempt.
LEMMA FreshRight ==
  ASSUME NEW P, NEW o
  PROVE  LET ev == Event("none", 0, NoBlock, "none", <<>>)
         IN  Right(P, Client(ev, FALSE), o, NewWriter(FALSE)) /\ ev \in Events({})
<1> DEFINE ev == Event("none", 0, NoBlock, "none", <<>>)
           c  == Client(ev, FALSE)
<1>1. ev \in Events({})
  <2>1. <<>> \in Seq({})
    OBVIOUS
  <2> QED BY <2>1 DEF Event, Events, Blocks, Roles
<1>2. c = [phase |-> "new", kind |-> NoBlock, index |-> 0, marked |-> FALSE]
  BY DEF Client, PhaseOf, Event
<1> HIDE DEF c, ev
<1>3. c \in States /\ c.phase = "new" /\ c.kind = NoBlock /\ c.index = 0 /\ ~c.marked
  BY <1>2 DEF States, Phases, Blocks
<1> QED BY <1>1, <1>3, NewRight DEF c, ev

\* The reply is fine when the writer is right and the attempt is the same ...
LEMMA ReplyKept ==
  ASSUME ReplyOK, UNCHANGED <<opt, last, marked, heard>>, Attempt' = Attempt,
         said' \in Seq(Mine(Attempt)), pc' # "done",
         Right(Mine(Attempt), Reader, opt, w')
  PROVE  ReplyOK'
<1>1. Mine(Attempt)' = Mine(Attempt) /\ Reader' = Reader
  BY DEF Mine, Reader
<1>2. Right(Mine(Attempt), Reader, opt, w)'
  BY <1>1
<1>3. /\ last' \in Events({}) /\ marked' \in BOOLEAN /\ (last'.e = "none" => Unheard')
      /\ heard' \in Seq(Mine(Attempt))' /\ said' \in Seq(Mine(Attempt))'
  BY <1>1 DEF ReplyOK, Unheard
<1> QED BY <1>2, <1>3 DEF ReplyOK

\* ... and when the next attempt finds nothing of this one.
LEMMA ReplyAnew ==
  ASSUME Fresh', said' = <<>>, pc' # "done"
  PROVE  ReplyOK'
<1> DEFINE ev == Event("none", 0, NoBlock, "none", <<>>)
<1>1. Unheard' /\ w' = NewWriter(FALSE) /\ last' = ev /\ marked' = FALSE /\ heard' = <<>>
  BY DEF Fresh, Unheard
<1>2. /\ Right(Mine(Attempt'), Client(ev, FALSE), opt', NewWriter(FALSE))
      /\ ev \in Events({})
  BY FreshRight
<1> HIDE DEF ev
<1>3. Right(Mine(Attempt'), Client(last', marked'), opt', w')
  BY <1>1, <1>2
<1>4. said' \in Seq(Mine(Attempt')) /\ heard' \in Seq(Mine(Attempt'))
  BY <1>1
<1> QED BY <1>1, <1>2, <1>3, <1>4 DEF ReplyOK, Reader

\* What has not begun has not been heard.
LEMMA NotBegunUnheard ==
  ASSUME ReplyOK, pc # "done", ~w.begun, w.out = <<>>
  PROVE  last.e = "none"
<1>1. Right(Mine(Attempt), Reader, opt, w) /\ Reader \in States
  BY ReaderType DEF ReplyOK
<1>2. Reader.phase = "new"
  BY <1>1, NotBegun
<1>3. PhaseOf(last) = "new"
  BY <1>2 DEF Reader, Client
<1> QED BY <1>3 DEF PhaseOf, ReplyOK, Events

Inv == HandlerOK /\ RoundsOK /\ ReplyOK /\ PlaceOK

\* The loop over accounts.
LEMMA AccountsReply ==
  ASSUME Inv, GetNextForModelExcluding \/ GiveUp \/ ensureValidToken
  PROVE  ReplyOK' /\ PlaceOK'
<1>0. HandlerOK /\ ReplyOK /\ PlaceOK
  BY DEF Inv
<1>1. CASE GetNextForModelExcluding
  <2>1. pc = "pick" /\ pc' = "token" /\ w' = NewWriter(w.begun)
    BY <1>1 DEF GetNextForModelExcluding, At
  <2>2. UNCHANGED <<opt, last, marked, heard, said, call, retried, calls, billed, result>>
    BY <1>1 DEF GetNextForModelExcluding, upstream, payload, client
  <2>3. ~w.begun /\ Unheard
    BY <1>0, <2>1 DEF PlaceOK, ReplyOK
  <2>4. w' = NewWriter(FALSE)
    <3>1. w.begun = FALSE
      BY <1>0, <2>1, <2>3 DEF ReplyOK, Right, Writers
    <3> QED BY <2>1, <3>1
  <2>5. Attempt' = Attempt
    BY <2>2 DEF Attempt
  <2>6. Right(Mine(Attempt), Reader, opt, w')
    <3>1. Right(Mine(Attempt), Client(Event("none", 0, NoBlock, "none", <<>>), FALSE), opt, NewWriter(FALSE))
      BY FreshRight
    <3> QED BY <2>3, <2>4, <3>1 DEF Reader, Unheard
  <2>7. ReplyOK'
    BY <1>0, <2>1, <2>2, <2>5, <2>6, ReplyKept DEF ReplyOK
  <2>8. Fresh'
    BY <2>2, <2>3, <2>4 DEF Fresh, Unheard
  <2>9. PlaceOK'
    BY <1>0, <2>1, <2>2, <2>8 DEF PlaceOK
  <2> QED BY <2>7, <2>9
<1>2. CASE GiveUp
  <2>1. pc = "pick" /\ pc' = "done" /\ result' = "fallback"
    BY <1>2 DEF GiveUp, At
  <2>2. UNCHANGED <<opt, w, last, marked, heard, said, call, retried, calls, billed>>
    BY <1>2 DEF GiveUp, upstream, payload, client
  <2>3. Right(Mine(Attempt), Reader, opt, w)
    BY <1>0, <2>1 DEF ReplyOK
  <2>4. w \in Writers(Mine(Attempt)) /\ \E s : Leads(Reader, w.out, s)
    BY <2>3 DEF Right, Agrees
  <2>5. Mine(Attempt)' = Mine(Attempt) /\ Reader' = Reader
    BY <2>2 DEF Attempt, Reader
  <2>6. ReplyOK'
    BY <1>0, <2>1, <2>2, <2>4, <2>5 DEF ReplyOK, Unheard
  <2>7. PlaceOK'
    BY <1>0, <2>1, <2>2 DEF PlaceOK, HandlerOK
  <2> QED BY <2>6, <2>7
<1>3. CASE ensureValidToken
  <2>1. pc = "token" /\ Fresh /\ UNCHANGED <<opt, w, last, marked, heard, retried, billed, result>>
    BY <1>0, <1>3 DEF ensureValidToken, At, PlaceOK, payload, client
  <2>2. Fresh'
    BY <2>1 DEF Fresh, Unheard
  <2>3. CASE StartCall(Len(fates) + 1)
    <3>1. pc' = "call" /\ said' = <<>>
      BY <2>3 DEF StartCall
    <3>2. ReplyOK'
      BY <2>2, <3>1, ReplyAnew
    <3>3. PlaceOK'
      BY <1>0, <2>1, <2>2, <3>1 DEF PlaceOK
    <3> QED BY <3>2, <3>3
  <2>4. CASE pc' = "pick" /\ UNCHANGED upstream
    <3>1. UNCHANGED <<said, call, calls>>
      BY <2>4 DEF upstream
    <3>2. Attempt' = Attempt
      BY <2>1, <3>1 DEF Attempt
    <3>3. Right(Mine(Attempt), Reader, opt, w')
      BY <1>0, <2>1 DEF ReplyOK
    <3>4. ReplyOK'
      BY <1>0, <2>1, <2>4, <3>1, <3>2, <3>3, ReplyKept DEF ReplyOK
    <3>5. ~w'.begun /\ w'.out = <<>> /\ last'.e = "none"
      BY <2>2 DEF Fresh, NewWriter, Unheard, Event
    <3>6. PlaceOK'
      BY <1>0, <2>1, <2>4, <3>5 DEF PlaceOK
    <3> QED BY <3>4, <3>6
  <2> QED BY <1>3, <2>3, <2>4 DEF ensureValidToken
<1> QED BY <1>1, <1>2, <1>3

\* The loop over endpoints leaves nothing behind it.
LEMMA CallReply ==
  ASSUME Inv, CallKiroAPI
  PROVE  ReplyOK' /\ PlaceOK'
<1>0. HandlerOK /\ ReplyOK /\ PlaceOK
  BY DEF Inv
<1>1. /\ pc = "call" /\ pc' \in {"call", "stream", "failed"} /\ said' \in {said, <<>>}
      /\ UNCHANGED <<opt, w, last, marked, heard, billed, result>>
  BY DEF CallKiroAPI, Refused, Denied, reresolveAccountProfileArn, shrinkPayload, StartStream,
         AllFailed, Request, At, upstream, payload, client
<1>2. Fresh /\ said = <<>>
  BY <1>0, <1>1 DEF PlaceOK
<1>3. Fresh' /\ said' = <<>>
  BY <1>1, <1>2 DEF Fresh, Unheard
<1>4. ReplyOK'
  BY <1>1, <1>3, ReplyAnew
<1>5. PlaceOK'
  BY <1>0, <1>1, <1>3 DEF PlaceOK
<1> QED BY <1>4, <1>5

LEMMA PieceType ==
  ASSUME said \in Seq(Mine(Attempt)), NEW k \in {"text", "open", "close", "think", "tool"}, NEW n \in Nat
  PROVE  Piece(k, n) \in Mine(Attempt)
<1>1. Len(said) + n \in Nat
  OBVIOUS
<1> QED BY <1>1 DEF Piece, Mine

\* What a frame of the upstream adds to the reply.
LEMMA UpstreamReply ==
  ASSUME Inv, Upstream
  PROVE  ReplyOK' /\ PlaceOK'
<1>0. HandlerOK /\ ReplyOK /\ PlaceOK
  BY DEF Inv
<1>1. opt \in Option /\ said \in Seq(Mine(Attempt)) /\ <<>> \in Seq(Mine(Attempt))
  BY <1>0 DEF HandlerOK, ReplyOK
<1>2. /\ pc = "stream" /\ UNCHANGED <<opt, last, marked, heard, retried, calls, billed, result>>
  BY DEF Upstream, OnText, OnReasoning, handleToolUseEvent, OtherFrame, StreamEnds, StreamBreaks,
         Frame, At, payload, client
<1>3. Right(Mine(Attempt), Reader, opt, w)
  BY <1>0, <1>2 DEF ReplyOK
<1>4. ASSUME call'.account = call.account, said' \in Seq(Mine(Attempt)), pc' # "done",
             Right(Mine(Attempt), Reader, opt, w')
      PROVE  ReplyOK'
  <2>1. Attempt' = Attempt
    BY <1>2, <1>4 DEF Attempt
  <2> QED BY <1>0, <1>2, <1>4, <2>1, ReplyKept
<1>5. ASSUME NEW text \in Seq(Mine(Attempt)), w' = BufferText(w, opt, text)
      PROVE  Right(Mine(Attempt), Reader, opt, w') /\ ~w'.eventOpen
  BY <1>1, <1>3, <1>5, BufferTextRight
<1>6. ASSUME NEW c \in Chunk, OnText(c) PROVE ReplyOK' /\ PlaceOK'
  <2> DEFINE text == [i \in DOMAIN c |-> Piece(c[i], i)]
  <2>1. text \in Seq(Mine(Attempt))
    <3>1. c \in Seq({"text", "open", "close"}) /\ DOMAIN c = 1..Len(c) /\ Len(c) \in Nat
      BY StreamAssumption
    <3>2. \A i \in 1..Len(c) : Piece(c[i], i) \in Mine(Attempt)
      <4> TAKE i \in 1..Len(c)
      <4>1. c[i] \in {"text", "open", "close", "think", "tool"} /\ i \in Nat
        BY <3>1
      <4> QED BY <1>1, <4>1, PieceType
    <3> QED BY <3>1, <3>2
  <2>2. w' = BufferText(w, opt, text) /\ pc' = "text" /\ call' = call /\ said' = said \o text /\ stream'.content
    BY <1>6 DEF OnText, Frame
  <2> HIDE DEF text
  <2>3. said \o text \in Seq(Mine(Attempt))
    BY <1>1, <2>1
  <2>4. Right(Mine(Attempt), Reader, opt, w') /\ ~w'.eventOpen
    BY <1>5, <2>1, <2>2
  <2>5. ReplyOK'
    BY <1>4, <2>2, <2>3, <2>4
  <2>6. PlaceOK'
    BY <1>0, <1>2, <2>2, <2>4 DEF PlaceOK
  <2> QED BY <2>5, <2>6
<1>7. CASE OnReasoning
  <2> DEFINE thought == <<Piece("think", 1)>>
  <2>1. thought \in Seq(Mine(Attempt))
    BY <1>1, PieceType
  <2>2. w' = Reason(w, opt, thought) /\ pc' = "stream" /\ call' = call /\ said' = said \o thought /\ stream'.content
    BY <1>2, <1>7 DEF OnReasoning, Frame
  <2> HIDE DEF thought
  <2>3. said \o thought \in Seq(Mine(Attempt))
    BY <1>1, <2>1
  <2>4. Right(Mine(Attempt), Reader, opt, w')
    BY <1>1, <1>3, <2>1, <2>2, ReasonRight
  <2>5. ReplyOK'
    BY <1>4, <2>2, <2>3, <2>4
  <2>6. PlaceOK'
    BY <1>0, <1>2, <2>2 DEF PlaceOK
  <2> QED BY <2>5, <2>6
<1>8. /\ Append(said, Piece("tool", 1)) \in Seq(Mine(Attempt))
      /\ Append(said, Piece("tool", 1)) # <<>>
  <2>1. Piece("tool", 1) \in Mine(Attempt)
    BY <1>1, PieceType
  <2> HIDE DEF Piece
  <2> QED BY <1>1, <2>1
<1>9. CASE handleToolUseEvent
  <2>0. PICK another : Frame(TRUE, another)
    BY <1>9 DEF handleToolUseEvent
  <2>1. stream'.content /\ call' = call
    BY <1>9, <2>0 DEF handleToolUseEvent, Frame
  <2>2. CASE UNCHANGED <<pc, said, w>>
    <3>1. ReplyOK'
      BY <1>1, <1>2, <1>3, <1>4, <2>1, <2>2
    <3>2. PlaceOK'
      BY <1>0, <1>2, <2>1, <2>2 DEF PlaceOK
    <3> QED BY <3>1, <3>2
  <2>3. CASE /\ said' = Append(said, Piece("tool", 1))
             /\ w' = BufferText(w, opt, <<>>) /\ pc' = "tool"
    <3>1. Right(Mine(Attempt), Reader, opt, w') /\ ~w'.eventOpen
      BY <1>1, <1>5, <2>3
    <3>2. ReplyOK'
      BY <1>4, <1>8, <2>1, <2>3, <3>1
    <3>3. PlaceOK'
      BY <1>0, <1>2, <1>8, <2>1, <2>3, <3>1 DEF PlaceOK
    <3> QED BY <3>2, <3>3
  <2> QED BY <1>9, <2>2, <2>3 DEF handleToolUseEvent
<1>10. CASE OtherFrame
  <2>1. pc' = "stream" /\ UNCHANGED <<call, said, w>> /\ (~stream'.content => ~stream.content)
    BY <1>0, <1>2, <1>10 DEF OtherFrame, Frame, HandlerOK
  <2>2. ReplyOK'
    BY <1>1, <1>3, <1>4, <2>1
  <2>3. PlaceOK'
    BY <1>0, <1>2, <2>1 DEF PlaceOK, Fresh, Unheard
  <2> QED BY <2>2, <2>3
<1>11. ASSUME NEW e, Again(e), ~stream.content PROVE ReplyOK' /\ PlaceOK'
  <2>1. Fresh /\ said = <<>> /\ UNCHANGED <<said, w>> /\ pc' = "call"
    BY <1>0, <1>2, <1>11 DEF PlaceOK, Again
  <2>2. Fresh' /\ said' = <<>>
    BY <1>2, <2>1 DEF Fresh, Unheard
  <2>3. ReplyOK'
    BY <2>1, <2>2, ReplyAnew
  <2>4. PlaceOK'
    BY <1>0, <1>2, <2>1, <2>2 DEF PlaceOK
  <2> QED BY <2>3, <2>4
<1>12. ASSUME UNCHANGED <<call, said, w>>, pc' = "whole" \/ (pc' = "failed" /\ err' = "abort")
       PROVE  ReplyOK' /\ PlaceOK'
  <2>1. ReplyOK'
    BY <1>1, <1>3, <1>4, <1>12
  <2>2. PlaceOK'
    BY <1>0, <1>2, <1>12 DEF PlaceOK
  <2> QED BY <2>1, <2>2
<1>13. CASE StreamEnds
  <2>1. CASE ~stream.content /\ Again("empty")
    BY <1>11, <2>1
  <2>2. CASE /\ said' = Append(said, Piece("tool", 1))
             /\ w' = BufferText(w, opt, <<>>) /\ pc' = "lastTool" /\ call' = call
    <3>1. Right(Mine(Attempt), Reader, opt, w') /\ ~w'.eventOpen
      BY <1>1, <1>5, <2>2
    <3>2. ReplyOK'
      BY <1>4, <1>8, <2>2, <3>1
    <3>3. PlaceOK'
      BY <1>0, <1>2, <1>8, <2>2, <3>1 DEF PlaceOK
    <3> QED BY <3>2, <3>3
  <2>3. CASE pc' = "whole" /\ UNCHANGED <<call, said, w>>
    BY <1>12, <2>3
  <2> QED BY <1>13, <2>1, <2>2, <2>3 DEF StreamEnds
<1>14. CASE StreamBreaks
  <2>1. CASE Fails("abort")
    <3>1. pc' = "failed" /\ err' = "abort" /\ UNCHANGED <<call, said, w>>
      BY <2>1 DEF Fails
    <3> QED BY <1>12, <3>1
  <2>2. CASE ~stream.content /\ Again("abort")
    BY <1>11, <2>2
  <2> QED BY <1>14, <2>1, <2>2 DEF StreamBreaks
<1> QED BY <1>6, <1>7, <1>9, <1>10, <1>13, <1>14 DEF Upstream

\* The guard's clock, and what it does when it runs out.
LEMMA GuardReply ==
  ASSUME Inv, Beat \/ Stall
  PROVE  ReplyOK' /\ PlaceOK'
<1>0. HandlerOK /\ ReplyOK /\ PlaceOK
  BY DEF Inv
<1>1. /\ pc = "stream" /\ UNCHANGED <<opt, w, last, marked, heard, said, call, retried, calls, billed, result>>
      /\ \/ pc' = "stream" /\ stream'.content = stream.content
         \/ pc' = "failed" /\ err' = "abort"
  BY <1>0 DEF Beat, Stall, At, payload, client, HandlerOK
<1>2. Attempt' = Attempt
  BY <1>1 DEF Attempt
<1>3. Right(Mine(Attempt), Reader, opt, w') /\ said' \in Seq(Mine(Attempt))
  BY <1>0, <1>1 DEF ReplyOK
<1>4. ReplyOK'
  BY <1>0, <1>1, <1>2, <1>3, ReplyKept
<1>5. PlaceOK'
  BY <1>0, <1>1 DEF PlaceOK, Fresh, Unheard
<1> QED BY <1>4, <1>5

\* Reading an event makes the client what it has to be.
LEMMA ReadsOn ==
  ASSUME ReplyOK, sendSSELocked
  PROVE  LET ev == Head(w.out)
         IN  /\ Legal(Reader, ev) /\ Reader' = After(Reader, ev)
             /\ ev \in Events(Mine(Attempt)) /\ last' \in Events({}) /\ marked' \in BOOLEAN
             /\ last'.e # "none"
<1> DEFINE ev == Head(w.out)
<1>1. w.out # <<>> /\ last' = [ev EXCEPT !.text = <<>>] /\ marked' = MarkOf(ev.role, marked)
  BY DEF sendSSELocked, MarkOf
<1>2. Reader \in States
  BY ReaderType DEF ReplyOK
<1>3. w.out \in Seq(Events(Mine(Attempt))) /\ \E s : Leads(Reader, w.out, s)
  BY DEF ReplyOK, Right, Agrees, Writers
<1>4. ev \in Events(Mine(Attempt)) /\ Legal(Reader, ev)
  BY <1>1, <1>3, LeadsOn
<1> HIDE DEF ev
<1>5. /\ last' \in Events({}) /\ last'.e = ev.e /\ last'.i = ev.i /\ last'.kind = ev.kind
  <2>1. <<>> \in Seq({})
    OBVIOUS
  <2> QED BY <1>1, <1>4, <2>1 DEF Events
<1>6. marked' \in BOOLEAN
  BY <1>1 DEF MarkOf, ReplyOK
<1>7. last'.e # "none"
  BY <1>4, <1>5 DEF Legal
<1>8. PhaseOf(last') = PhaseOf(ev)
  BY <1>5 DEF PhaseOf
<1>9. Client(last', marked') = Client(ev, marked')
  BY <1>5, <1>8 DEF Client
<1>10. Reader' = After(Reader, ev)
  <2>1. Reader.marked = marked
    BY DEF Reader, Client
  <2> QED BY <1>1, <1>9, <2>1 DEF Reader, After
<1> QED BY <1>4, <1>5, <1>6, <1>7, <1>10 DEF ev

LEMMA SendReply ==
  ASSUME Inv, sendSSELocked
  PROVE  ReplyOK' /\ PlaceOK'
<1> DEFINE ev == Head(w.out)
<1>0. HandlerOK /\ ReplyOK /\ PlaceOK
  BY DEF Inv
<1>1. /\ Legal(Reader, ev) /\ Reader' = After(Reader, ev)
      /\ ev \in Events(Mine(Attempt)) /\ last' \in Events({}) /\ marked' \in BOOLEAN
      /\ last'.e # "none"
  BY <1>0, ReadsOn
<1>2. /\ w.out # <<>> /\ w' = [w EXCEPT !.out = Tail(@)]
      /\ heard' \in {heard, heard \o ev.text}
      /\ UNCHANGED <<opt, pc, said, call, calls, retried, stream, err, billed, result>>
  BY DEF sendSSELocked, upstream, payload
<1>3. Reader \in States
  BY <1>0, ReaderType DEF ReplyOK
<1>4. Attempt' = Attempt /\ Mine(Attempt') = Mine(Attempt)
  BY <1>2 DEF Attempt
<1> HIDE DEF ev
<1>5. heard' \in Seq(Mine(Attempt))
  <2>1. ev.text \in Seq(Mine(Attempt)) /\ heard \in Seq(Mine(Attempt))
    BY <1>0, <1>1 DEF ReplyOK, Events
  <2>2. heard \o ev.text \in Seq(Mine(Attempt))
    BY <2>1
  <2> QED BY <1>2, <2>1, <2>2
<1>6. ASSUME pc # "done" PROVE ReplyOK'
  <2>1. Right(Mine(Attempt), Reader, opt, w)
    BY <1>0, <1>6 DEF ReplyOK
  <2>2. Right(Mine(Attempt), After(Reader, ev), opt, [w EXCEPT !.out = Tail(@)])
    BY <1>2, <1>3, <2>1, SentRight DEF ev
  <2>3. Right(Mine(Attempt'), Reader', opt', w')
    BY <1>1, <1>2, <1>4, <2>2
  <2> QED BY <1>0, <1>1, <1>2, <1>4, <1>5, <1>6, <2>3 DEF ReplyOK
<1>7. ASSUME pc = "done" PROVE ReplyOK'
  <2>1. w \in Writers(Mine(Attempt)) /\ \E s : Leads(Reader, w.out, s)
    BY <1>0, <1>7 DEF ReplyOK
  <2>2. w.out \in Seq(Events(Mine(Attempt)))
    BY <2>1 DEF Writers
  <2>3. \E s : Leads(After(Reader, ev), Tail(w.out), s)
    BY <1>2, <2>1, <2>2, LeadsOn DEF ev
  <2>4. w' \in Writers(Mine(Attempt)) /\ w'.out = Tail(w.out)
    <3>1. Tail(w.out) \in Seq(Events(Mine(Attempt)))
      BY <1>2, <2>2
    <3> QED BY <1>2, <2>1, <3>1 DEF Writers
  <2>5. \E s : Leads(Reader', w'.out, s)
    BY <1>1, <2>3, <2>4
  <2> QED BY <1>0, <1>1, <1>2, <1>4, <1>5, <1>7, <2>4, <2>5 DEF ReplyOK
<1>8. w'.eventOpen = w.eventOpen /\ w'.block = w.block /\ w'.started = w.started
  <2>1. w \in Writers(Mine(Attempt))
    BY <1>0 DEF ReplyOK, Right
  <2> QED BY <1>2, <2>1 DEF Writers
<1>9. ~Fresh
  BY <1>2 DEF Fresh, NewWriter
<1>10. PlaceOK'
  BY <1>0, <1>2, <1>8, <1>9 DEF PlaceOK
<1> QED BY <1>0, <1>2, <1>6, <1>7, <1>10

\* The end of a message needs only that the client can read what is queued.
LEMMA ReplyEnds ==
  ASSUME ReplyOK, UNCHANGED <<last, marked, heard, said>>, Attempt' = Attempt, pc' = "done",
         w' \in Writers(Mine(Attempt)), NEW s, Leads(Reader, w'.out, s)
  PROVE  ReplyOK'
<1>1. Mine(Attempt)' = Mine(Attempt) /\ Reader' = Reader
  BY DEF Mine, Reader
<1>2. \E t : Leads(Reader', w'.out, t)
  BY <1>1
<1> QED BY <1>1, <1>2 DEF ReplyOK, Unheard

\* A round of the loop, and what follows the last.
LEMMA WriteReply ==
  ASSUME Inv, processClaudeText
  PROVE  ReplyOK' /\ PlaceOK'
<1> DEFINE x == Scan(w, opt, Forced)
           P == Mine(Attempt)
<1>0. HandlerOK /\ ReplyOK /\ PlaceOK
  BY DEF Inv
<1>1. /\ pc \in {"text", "tool", "lastTool", "flush", "cut"}
      /\ UNCHANGED <<opt, last, marked, heard, said, stream, err, call, calls, retried, billed>>
  BY DEF processClaudeText, upstream, payload, client
<1>2. /\ Attempt' = Attempt /\ opt \in Option /\ Forced \in BOOLEAN /\ ~w.eventOpen
      /\ Right(P, Reader, opt, w) /\ said \in Seq(P) /\ said' \in Seq(P) /\ result # "fallback" /\ ~(billed > 0)
  BY <1>0, <1>1 DEF Attempt, HandlerOK, ReplyOK, PlaceOK, Forced
<1>3. Right(P, Reader, opt, x) /\ ~x.eventOpen /\ (Forced /\ ~TagFound(w) => ~x.started)
  BY <1>2, ScanRight
<1>4. \/ TagFound(w) /\ w' = x /\ pc' = pc /\ result' = result
      \/ /\ ~TagFound(w)
         /\ \/ pc = "text" /\ w' = x /\ pc' = "stream" /\ result' = result
            \/ /\ pc \in {"tool", "lastTool"} /\ w' = ToolUse(x, <<said[Len(said)]>>)
               /\ pc' = IF pc = "tool" THEN "stream" ELSE "whole"
               /\ result' = result
            \/ pc = "flush" /\ w' = closeActiveBlock(x) /\ pc' = "bill" /\ result' = result
            \/ /\ pc = "cut" /\ w' = EndMessage(closeActiveBlock(x))
               /\ pc' = "done" /\ result' = "interrupted"
  BY <1>1 DEF processClaudeText
<1> HIDE DEF x, P
<1>5. ASSUME pc' # "done", Right(P, Reader, opt, w') PROVE ReplyOK'
  BY <1>0, <1>1, <1>2, <1>5, ReplyKept DEF P
<1>6. CASE w' = x /\ pc' = pc /\ result' = result
  <2>1. ReplyOK'
    BY <1>1, <1>3, <1>5, <1>6
  <2>2. PlaceOK'
    BY <1>0, <1>1, <1>2, <1>3, <1>6 DEF PlaceOK
  <2> QED BY <2>1, <2>2
<1>7. CASE pc = "text" /\ w' = x /\ pc' = "stream" /\ result' = result
  <2>1. ReplyOK'
    BY <1>3, <1>5, <1>7
  <2>2. PlaceOK'
    BY <1>0, <1>1, <1>2, <1>7 DEF PlaceOK
  <2> QED BY <2>1, <2>2
<1>8. CASE /\ ~TagFound(w) /\ pc \in {"tool", "lastTool"} /\ w' = ToolUse(x, <<said[Len(said)]>>)
           /\ pc' = IF pc = "tool" THEN "stream" ELSE "whole"
           /\ result' = result
  <2>1. <<said[Len(said)]>> \in Seq(P)
    BY <1>0, <1>2, <1>8 DEF PlaceOK
  <2>2. ~x.started
    BY <1>3, <1>8 DEF Forced
  <2>3. Right(P, Reader, opt, w') /\ ~w'.eventOpen
    BY <1>3, <1>8, <2>1, <2>2, ToolUseRight
  <2>4. ReplyOK'
    BY <1>5, <1>8, <2>3
  <2>5. PlaceOK'
    BY <1>0, <1>1, <1>2, <1>8 DEF PlaceOK
  <2> QED BY <2>4, <2>5
<1>9. ASSUME ~TagFound(w), pc \in {"flush", "cut"}, NEW y, y = closeActiveBlock(x)
      PROVE  Right(P, Reader, opt, y) /\ y.block = NoBlock /\ ~y.started
  <2>1. Right(P, Reader, opt, y) /\ y.block = NoBlock /\ Same(x, y)
    BY <1>3, <1>9, CloseRight
  <2>2. ~x.started
    BY <1>3, <1>9 DEF Forced
  <2> QED BY <2>1, <2>2 DEF Same
<1>10. CASE ~TagFound(w) /\ pc = "flush" /\ w' = closeActiveBlock(x) /\ pc' = "bill" /\ result' = result
  <2>1. Right(P, Reader, opt, w') /\ w'.block = NoBlock /\ ~w'.started
    BY <1>9, <1>10
  <2>2. ReplyOK'
    BY <1>5, <1>10, <2>1
  <2>3. PlaceOK'
    BY <1>0, <1>1, <1>2, <1>10, <2>1 DEF PlaceOK
  <2> QED BY <2>2, <2>3
<1>11. CASE /\ ~TagFound(w) /\ pc = "cut" /\ w' = EndMessage(closeActiveBlock(x))
            /\ pc' = "done" /\ result' = "interrupted"
  <2>1. PICK y : y = closeActiveBlock(x)
    OBVIOUS
  <2>2. Right(P, Reader, opt, y) /\ y.block = NoBlock /\ ~y.started
    BY <1>9, <1>11, <2>1
  <2>3. w' = EndMessage(y)
    BY <1>11, <2>1
  <2>4. w' \in Writers(P) /\ \E s : Leads(Reader, w'.out, s)
    BY <2>2, <2>3, EndMessageRight
  <2>5. ReplyOK'
    BY <1>0, <1>1, <1>2, <1>11, <2>4, ReplyEnds DEF P
  <2>6. PlaceOK'
    BY <1>0, <1>1, <1>2, <1>11 DEF PlaceOK
  <2> QED BY <2>5, <2>6
<1> QED BY <1>4, <1>6, <1>7, <1>8, <1>10, <1>11

\* After the call: again, another account, or the end.
LEMMA AfterReply ==
  ASSUME Inv, RetryWithoutEffort \/ AccountFails \/ EmptyReply \/ Flush \/ recordSuccessForApiKey
  PROVE  ReplyOK' /\ PlaceOK'
<1>0. HandlerOK /\ ReplyOK /\ PlaceOK
  BY DEF Inv
<1>1. ASSUME pc # "done", UNCHANGED upstream, UNCHANGED <<opt, retried, last, marked, heard, billed, result>>,
             pc' \in {"cut", "flush"}, w' = BufferText(w, opt, <<>>)
      PROVE  ReplyOK' /\ PlaceOK'
  <2>1. opt \in Option /\ <<>> \in Seq(Mine(Attempt)) /\ Right(Mine(Attempt), Reader, opt, w)
    BY <1>0, <1>1 DEF HandlerOK, ReplyOK
  <2>2. Right(Mine(Attempt), Reader, opt, w') /\ ~w'.eventOpen
    BY <1>1, <2>1, BufferTextRight
  <2>3. Attempt' = Attempt /\ said' = said
    BY <1>1 DEF Attempt, upstream
  <2>4. ReplyOK'
    BY <1>0, <1>1, <2>2, <2>3, ReplyKept DEF ReplyOK
  <2>5. PlaceOK'
    BY <1>0, <1>1, <2>2 DEF PlaceOK
  <2> QED BY <2>4, <2>5
<1>2. ASSUME pc # "done", UNCHANGED upstream, UNCHANGED <<opt, retried, w, last, marked, heard, billed, result>>,
             pc' = "pick", ~w.begun, w.out = <<>>
      PROVE  ReplyOK' /\ PlaceOK'
  <2>1. Right(Mine(Attempt), Reader, opt, w')
    BY <1>0, <1>2 DEF ReplyOK
  <2>2. Attempt' = Attempt /\ said' = said
    BY <1>2 DEF Attempt, upstream
  <2>3. ReplyOK'
    BY <1>0, <1>2, <2>1, <2>2, ReplyKept DEF ReplyOK
  <2>4. last.e = "none"
    BY <1>0, <1>2, NotBegunUnheard
  <2>5. PlaceOK'
    BY <1>0, <1>2, <2>4 DEF PlaceOK
  <2> QED BY <2>3, <2>5
<1>3. CASE RetryWithoutEffort
  <2>1. /\ pc = "failed" /\ err \in {"empty", "effort"} /\ pc' = "call" /\ said' = <<>>
        /\ UNCHANGED <<w, last, marked, heard, billed, result>>
    BY <1>3 DEF RetryWithoutEffort, At, StartCall, client
  <2>2. Fresh'
    BY <1>0, <2>1 DEF PlaceOK, Fresh, Unheard
  <2>3. ReplyOK'
    BY <2>1, <2>2, ReplyAnew
  <2>4. PlaceOK'
    BY <1>0, <2>1, <2>2 DEF PlaceOK
  <2> QED BY <2>3, <2>4
<1>4. CASE AccountFails
  <2>1. pc = "failed" /\ w.out = <<>> /\ UNCHANGED upstream /\ UNCHANGED <<opt, retried, last, marked, heard, billed, result>>
    BY <1>4 DEF AccountFails, At, client
  <2>2. CASE w.begun
    BY <1>1, <1>4, <2>1, <2>2 DEF AccountFails
  <2>3. CASE ~w.begun
    BY <1>2, <1>4, <2>1, <2>3 DEF AccountFails
  <2> QED BY <2>2, <2>3
<1>5. CASE EmptyReply
  BY <1>2, <1>5 DEF EmptyReply, At, client
<1>6. CASE Flush
  BY <1>1, <1>6 DEF Flush, At, client, payload
<1>7. CASE recordSuccessForApiKey
  <2>1. /\ pc = "bill" /\ pc' = "done" /\ w' = EndMessage(w) /\ result' = "served"
        /\ UNCHANGED <<opt, last, marked, heard, said, call, calls, retried>>
    BY <1>7 DEF recordSuccessForApiKey, At, upstream, payload, client
  <2>2. Right(Mine(Attempt), Reader, opt, w) /\ w.block = NoBlock /\ ~w.started
    BY <1>0, <2>1 DEF ReplyOK, PlaceOK
  <2>3. w' \in Writers(Mine(Attempt)) /\ \E s : Leads(Reader, w'.out, s)
    BY <2>1, <2>2, EndMessageRight
  <2>4. Attempt' = Attempt
    BY <2>1 DEF Attempt
  <2>5. ReplyOK'
    BY <1>0, <2>1, <2>3, <2>4, ReplyEnds
  <2>6. PlaceOK'
    BY <1>0, <2>1 DEF PlaceOK
  <2> QED BY <2>5, <2>6
<1> QED BY <1>3, <1>4, <1>5, <1>6, <1>7

-----------------------------------------------------------------------------
(* The theorems.                                                           *)

LEMMA InvInit == Init => Inv
<1> SUFFICES ASSUME Init PROVE Inv
  OBVIOUS
<1>1. pc = "pick" /\ calls = 0 /\ call = NewCall(0) /\ billed = 0 /\ result = "open"
  BY DEF Init
<1>2. HandlerOK /\ RoundsOK
  <2>1. MaxAccount \in Nat /\ Places \in Nat /\ Places >= 1 /\ MaxFrame \in Nat
    BY StreamAssumption DEF Places
  <2>2. call \in Calls /\ Spent(call) = 0
    BY <1>1, <2>1 DEF NewCall, Calls, Spent
  <2>3. HandlerOK
    <3>1. fates \in Seq({"empty", "failed", "blank", "served"})
      BY DEF Init
    <3>2. stream \in [frames: 0..MaxFrame, content: BOOLEAN, quiet: Nat, tool: BOOLEAN]
      BY <2>1 DEF Init, NewStream
    <3>3. /\ opt \in Option /\ effort \in {"none", "low", "high"} /\ retried \in BOOLEAN
          /\ rejected \in BOOLEAN
      BY DEF Init
    <3> QED BY <1>1, <2>2, <3>1, <3>2, <3>3 DEF HandlerOK, Pcs
  <2>4. RoundsOK
    BY <1>1, <2>1, <2>2 DEF RoundsOK
  <2> QED BY <2>3, <2>4
<1>3. Fresh /\ said = <<>>
  BY DEF Init, Fresh, Unheard
<1>4. ReplyOK
  <2> DEFINE ev == Event("none", 0, NoBlock, "none", <<>>)
  <2>1. Right(Mine(Attempt), Client(ev, FALSE), opt, NewWriter(FALSE)) /\ ev \in Events({})
    BY FreshRight
  <2>2. w = NewWriter(FALSE) /\ last = ev /\ marked = FALSE /\ heard = <<>> /\ Unheard
    BY <1>3 DEF Fresh, Unheard
  <2> HIDE DEF ev
  <2>3. said \in Seq(Mine(Attempt)) /\ heard \in Seq(Mine(Attempt))
    BY <1>3, <2>2
  <2> QED BY <1>1, <2>1, <2>2, <2>3 DEF ReplyOK, Reader
<1>5. PlaceOK
  BY <1>1, <1>3 DEF PlaceOK, Fresh, Unheard, NewWriter, Event
<1> QED BY <1>2, <1>4, <1>5 DEF Inv

LEMMA InvStep == Inv /\ [Next]_vars => Inv'
<1> SUFFICES ASSUME Inv, [Next]_vars PROVE Inv'
  OBVIOUS
<1>1. HandlerOK' /\ RoundsOK'
  BY HandlerStep DEF Inv
<1>2. CASE UNCHANGED vars
  <2>1. HandlerOK /\ ReplyOK /\ PlaceOK
    BY DEF Inv
  <2>2. /\ UNCHANGED <<opt, pc, call, calls, err, stream, said, retried, w, last, marked, heard, billed, result>>
    BY <1>2 DEF vars, upstream, payload, client
  <2>3. ReplyOK'
    BY <2>1, <2>2 DEF ReplyOK, Reader, Attempt, Unheard
  <2>4. PlaceOK'
    BY <2>1, <2>2 DEF PlaceOK, Fresh, Unheard
  <2> QED BY <1>1, <2>3, <2>4 DEF Inv
<1>3. CASE Next
  <2>1. (ReplyOK' /\ PlaceOK') \/ UNCHANGED vars
    BY <1>3, AccountsReply, CallReply, UpstreamReply, GuardReply, SendReply, WriteReply, AfterReply
       DEF Next, handleClaudeStream, Done
  <2> QED BY <1>1, <1>2, <2>1 DEF Inv
<1> QED BY <1>2, <1>3

LEMMA InvTypes == Inv => TypeOK
<1> SUFFICES ASSUME Inv PROVE TypeOK
  OBVIOUS
<1>1. w \in Writers(Mine(Attempt)) /\ marked \in BOOLEAN
  BY DEF Inv, ReplyOK, Right
<1>2. HandlerOK
  BY DEF Inv
<1>3. \A i \in DOMAIN fates : fates[i] \in {"empty", "failed", "blank", "served"}
  BY <1>2 DEF HandlerOK
<1> QED BY <1>1, <1>2, <1>3 DEF TypeOK, HandlerOK, Writers, Calls, Pcs

\* The types of the handler's variables, in every state.
THEOREM TypeCorrect == Spec => []TypeOK
BY InvInit, InvStep, InvTypes, PTL DEF Spec

\* The retries of a call stay within their bound, whatever each endpoint
\* answers: the places are gone through once, once more after the payload was
\* shortened and once more after the profile was resolved anew.
THEOREM CallsBounded == Spec => []CallsAreBounded
<1>1. Inv => CallsAreBounded
  <2> SUFFICES ASSUME Inv PROVE CallsAreBounded
    OBVIOUS
  <2>1. calls <= Places + Spent(call) /\ call \in Calls /\ calls \in Nat
    BY DEF Inv, HandlerOK, RoundsOK
  <2>2. Places \in Nat /\ Spent(call) \in Nat /\ Spent(call) <= 2 * Places
    BY <2>1, CallType
  <2> QED BY <2>1, <2>2 DEF CallsAreBounded
<1> QED BY <1>1, InvInit, InvStep, PTL DEF Spec

\* A request that is left to another provider has written nothing and is billed
\* nothing: what is queued for the client is always told by messageStarted.
THEOREM FallbackClean == Spec => []FallbackIsClean
<1>1. Inv => FallbackIsClean
  BY DEF Inv, PlaceOK, FallbackIsClean
<1> QED BY <1>1, InvInit, InvStep, PTL DEF Spec

\* What the client has heard and what is held back for it come from the attempt
\* under way: whichever way an attempt fails, it is followed by another only if
\* nothing of it was heard, and that one begins with an empty buffer.
THEOREM OneReply == Spec => []OneAuthor
<1>1. Inv => OneAuthor
  <2> SUFFICES ASSUME Inv, NEW p \in Range(heard) \cup Range(w.buf) PROVE p.by = Attempt
    BY DEF OneAuthor
  <2>1. heard \in Seq(Mine(Attempt)) /\ w.buf \in Seq(Mine(Attempt))
    BY DEF Inv, ReplyOK, Right, Writers
  <2>2. p \in Mine(Attempt)
    BY <2>1 DEF Range
  <2> QED BY <2>2 DEF Mine
<1> QED BY <1>1, InvInit, InvStep, PTL DEF Spec

\* A client that accepts an event takes a step of the protocol.
LEMMA LegalSteps ==
  ASSUME NEW P, NEW ev \in Events(P), NEW s \in States, Legal(s, ev), NEW t, t = After(s, ev)
  PROVE  \/ /\ s.phase = "new" /\ t.phase = "between"
            /\ t.kind = s.kind /\ t.index = s.index /\ t.marked = s.marked
         \/ /\ s.phase = "between" /\ t.phase = "open"
            /\ t.kind \in {"text", "thinking", "tool_use"} /\ (t.kind = "tool_use" => ~s.marked)
            /\ t.index = s.index /\ t.marked = s.marked
         \/ /\ s.phase = "open" /\ t.marked \in (IF s.kind = "text" THEN BOOLEAN ELSE {s.marked})
            /\ t.phase = s.phase /\ t.kind = s.kind /\ t.index = s.index
         \/ /\ s.phase = "open" /\ s.kind = "thinking" /\ t.phase = "signed"
            /\ t.kind = s.kind /\ t.index = s.index /\ t.marked = s.marked
         \/ /\ s.phase = IF s.kind = "thinking" THEN "signed" ELSE "open"
            /\ t.phase = "between" /\ t.kind = "none" /\ t.index = s.index + 1 /\ t.marked = s.marked
         \/ /\ s.phase = "between" /\ ~s.marked /\ t.phase = "ending" /\ t.index = 0
            /\ t.kind = s.kind /\ t.marked = s.marked
         \/ /\ s.phase = "ending" /\ t.phase = "over"
            /\ t.kind = s.kind /\ t.index = s.index /\ t.marked = s.marked
<1>1. /\ t.phase = PhaseOf(ev) /\ t.marked = MarkOf(ev.role, s.marked)
      /\ t.kind = (IF PhaseOf(ev) \in {"open", "signed"} THEN ev.kind ELSE NoBlock)
      /\ t.index = (IF ev.e = "block_stop" THEN ev.i + 1 ELSE ev.i)
  BY DEF After, Client
<1>2. ev.role = "none" => MarkOf(ev.role, s.marked) = s.marked
  BY DEF MarkOf
<1>3. CASE ev.e = "message_start"
  BY <1>1, <1>2, <1>3 DEF Legal, PhaseOf
<1>4. CASE ev.e = "block_start"
  BY <1>1, <1>2, <1>4 DEF Legal, PhaseOf, Blocks, NoBlock
<1>5. CASE ev.e = "delta"
  <2>1. /\ s.phase = "open" /\ ev.i = s.index /\ ev.kind = s.kind
        /\ ev.role \in {"open", "close"} => s.kind = "text"
    BY <1>5 DEF Legal
  <2>2. PhaseOf(ev) = "open"
    BY <1>5 DEF PhaseOf
  <2>3. MarkOf(ev.role, s.marked) \in BOOLEAN
    BY DEF MarkOf, States
  <2>4. s.kind # "text" => MarkOf(ev.role, s.marked) = s.marked
    BY <2>1 DEF MarkOf
  <2> QED BY <1>1, <1>5, <2>1, <2>2, <2>3, <2>4
<1>6. CASE ev.e = "signature"
  BY <1>1, <1>2, <1>6 DEF Legal, PhaseOf
<1>7. CASE ev.e = "block_stop"
  BY <1>1, <1>2, <1>7 DEF Legal, PhaseOf, NoBlock
<1>8. CASE ev.e = "message_delta"
  BY <1>1, <1>2, <1>8 DEF Legal, PhaseOf
<1>9. CASE ev.e = "message_stop"
  BY <1>1, <1>2, <1>9 DEF Legal, PhaseOf
<1> QED BY <1>3, <1>4, <1>5, <1>6, <1>7, <1>8, <1>9 DEF Legal

\* Only the writing of an event changes what the client sees.
LEMMA Writes ==
  ASSUME [Next]_vars
  PROVE  sendSSELocked \/ UNCHANGED <<last, marked>>
BY DEF Next, handleClaudeStream, GetNextForModelExcluding, GiveUp, ensureValidToken, CallKiroAPI,
       Refused, Denied, reresolveAccountProfileArn, shrinkPayload, StartStream, AllFailed,
       processClaudeText, RetryWithoutEffort, AccountFails, EmptyReply, Flush,
       recordSuccessForApiKey, Upstream, OnText, OnReasoning, handleToolUseEvent, OtherFrame,
       StreamEnds, StreamBreaks, Beat, Stall, Done, vars, client

\* Whatever the upstream sends, wherever a frame cuts a tag or a stream breaks
\* off, and however often it is tried again, the client reads one well-formed
\* Anthropic event stream.
THEOREM Implements == Spec => ImplementsProtocol
<1>1. Init => Protocol!Init
  BY DEF Init, Protocol!Init, Phase, Event, NoBlock
<1>2. Inv /\ [Next]_vars => [Protocol!Next]_(Protocol!pvars)
  <2> SUFFICES ASSUME Inv, [Next]_vars PROVE [Protocol!Next]_(Protocol!pvars)
    OBVIOUS
  <2>1. CASE UNCHANGED <<last, marked>>
    BY <2>1 DEF Protocol!pvars, Phase
  <2>2. CASE sendSSELocked
    <3> DEFINE ev == Head(w.out)
    <3>1. ReplyOK
      BY DEF Inv
    <3>2. Legal(Reader, ev) /\ Reader' = After(Reader, ev) /\ ev \in Events(Mine(Attempt))
      BY <2>2, <3>1, ReadsOn
    <3>3. Reader \in States
      BY <3>1, ReaderType DEF ReplyOK
    <3> HIDE DEF ev
    <3>4. Phase = PhaseOf(last)
      BY DEF Phase, PhaseOf
    <3>5. /\ Phase = Reader.phase /\ marked = Reader.marked
          /\ (IF Phase \in {"open", "signed"} THEN last.kind ELSE NoBlock) = Reader.kind
          /\ (IF last.e = "block_stop" THEN last.i + 1 ELSE last.i) = Reader.index
      BY <3>4 DEF Reader, Client
    <3>6. Phase' = PhaseOf(last')
      BY DEF Phase, PhaseOf
    <3>7. /\ Phase' = Reader'.phase /\ marked' = Reader'.marked
          /\ (IF Phase \in {"open", "signed"} THEN last.kind ELSE NoBlock)' = Reader'.kind
          /\ (IF last.e = "block_stop" THEN last.i + 1 ELSE last.i)' = Reader'.index
      BY <3>6 DEF Reader, Client
    <3> HIDE DEF Reader, Phase
    <3>8. Protocol!Next
      <4>1. PICK s : s = Reader
        OBVIOUS
      <4>2. PICK t : t = Reader'
        OBVIOUS
      <4> QED
        BY <3>2, <3>3, <3>5, <3>7, <4>1, <4>2, LegalSteps
           DEF Protocol!Next, Protocol!MessageStart, Protocol!BlockStart, Protocol!Delta,
               Protocol!Sign, Protocol!BlockStop, Protocol!MessageDelta, Protocol!MessageStop
    <3> QED BY <3>8
  <2> QED BY <2>1, <2>2, Writes
<1> QED BY <1>1, <1>2, InvInit, InvStep, PTL DEF Spec, ImplementsProtocol, Protocol!Spec

\* A request that was served is billed once, and no other is billed: neither one
\* that was interrupted, nor one left to another provider, nor one that goes on.
Billing ==
  /\ result # "open" => pc = "done"
  /\ billed = IF result = "served" THEN 1 ELSE 0

THEOREM BilledOnce == Spec => []Billing
<1>1. Init => Billing
  BY DEF Init, Billing
<1>2. Billing /\ [Next]_vars => Billing'
  <2> SUFFICES ASSUME Billing, [Next]_vars PROVE Billing'
    OBVIOUS
  <2>1. ASSUME pc # "done", UNCHANGED <<billed, result>> PROVE Billing'
    BY <2>1 DEF Billing
  <2>2. CASE GetNextForModelExcluding \/ ensureValidToken \/ CallKiroAPI
    <3>1. pc # "done" /\ UNCHANGED <<billed, result>>
      BY <2>2 DEF GetNextForModelExcluding, ensureValidToken, CallKiroAPI, Refused, Denied,
         reresolveAccountProfileArn, shrinkPayload, StartStream, AllFailed, Request, At
    <3> QED BY <2>1, <3>1
  <2>3. CASE RetryWithoutEffort \/ AccountFails \/ EmptyReply \/ Flush \/ Beat \/ Stall
    BY <2>1, <2>3 DEF RetryWithoutEffort, AccountFails, EmptyReply, Flush, Beat, Stall, At
  <2>4. CASE Upstream
    <3>1. pc # "done" /\ UNCHANGED <<billed, result>>
      BY <2>4 DEF Upstream, OnText, OnReasoning, handleToolUseEvent, OtherFrame, StreamEnds,
         StreamBreaks, Frame, At
    <3> QED BY <2>1, <3>1
  <2>5. CASE GiveUp
    BY <2>5 DEF GiveUp, At, Billing
  <2>6. CASE processClaudeText
    <3>1. pc # "done" /\ UNCHANGED billed
      BY <2>6 DEF processClaudeText
    <3>2. result' = result \/ (result' = "interrupted" /\ pc' = "done")
      BY <2>6 DEF processClaudeText
    <3> QED BY <3>1, <3>2 DEF Billing
  <2>7. CASE recordSuccessForApiKey
    BY <2>7 DEF recordSuccessForApiKey, At, Billing
  <2>8. CASE sendSSELocked \/ UNCHANGED vars
    BY <2>8 DEF sendSSELocked, vars, Billing
  <2> QED BY <2>2, <2>3, <2>4, <2>5, <2>6, <2>7, <2>8 DEF Next, handleClaudeStream, Done
<1> QED BY <1>1, <1>2, PTL DEF Spec

-----------------------------------------------------------------------------
(* What a reply says, read piece by piece.                                 *)

\* What reading pieces yields.
Readings(P) == [inside: BOOLEAN, text: Seq(P)]

Reads(f, a, s) == f[0] = a /\ \A n \in 1..Len(s) : f[n] = ReadPiece(f[n - 1], s[n])

\* A piece leads from a reading to a reading.
LEMMA ReadPieceType ==
  ASSUME NEW P, NEW a \in Readings(P), NEW p \in P
  PROVE  ReadPiece(a, p) \in Readings(P)
<1>1. a.text \in Seq(P) /\ Append(a.text, p) \in Seq(P) /\ a.inside \in BOOLEAN
  BY AppendProperties DEF Readings
<1>2. /\ [inside |-> FALSE, text |-> Append(a.text, p)] \in Readings(P)
      /\ [a EXCEPT !.inside = TRUE] \in Readings(P) /\ [a EXCEPT !.inside = FALSE] \in Readings(P)
      /\ [a EXCEPT !.text = Append(@, p)] \in Readings(P)
  BY <1>1 DEF Readings
<1> QED BY <1>1, <1>2 DEF ReadPiece

\* The recursive function of ReadOn exists and reads the pieces one by one.
LEMMA ReadOnReads ==
  ASSUME NEW P, NEW a \in Readings(P), NEW s \in Seq(P)
  PROVE  \E f \in [0..Len(s) -> Readings(P)] : Reads(f, a, s) /\ ReadOn(a, s) = f[Len(s)]
<1> DEFINE N == Len(s)
           step == [n \in 1..N |-> [v \in Readings(P) |-> ReadPiece(v, s[n])]]
           F(f) == [n \in 0..N |-> IF n = 0 THEN a ELSE ReadPiece(f[n - 1], s[n])]
           read == CHOOSE f : f = F(f)
<1>1. N \in Nat /\ \A n \in 1..N : s[n] \in P
  BY LenProperties, ElementOfSeq
<1>2. step \in [1..N -> [Readings(P) -> Readings(P)]]
  <2>1. \A n \in 1..N, v \in Readings(P) : ReadPiece(v, s[n]) \in Readings(P)
    BY <1>1, ReadPieceType
  <2> HIDE DEF N
  <2> QED BY <2>1
<1>3. PICK f \in [0..N -> Readings(P)] : f[0] = a /\ \A n \in 1..N : f[n] = step[n][f[n - 1]]
  <2> HIDE DEF step, N
  <2>1. \E f \in [0..N -> Readings(P)] : Follows(f, N, a, step)
    BY <1>1, <1>2, RecursionExists
  <2> QED BY <2>1 DEF Follows
<1>4. \A n \in 1..N : step[n][f[n - 1]] = ReadPiece(f[n - 1], s[n])
  <2> HIDE DEF N
  <2>1. \A n \in 1..N : n - 1 \in 0..N
    BY <1>1
  <2>2. \A n \in 1..N : f[n - 1] \in Readings(P)
    BY <1>3, <2>1
  <2>3. ASSUME NEW n \in 1..N, NEW v \in Readings(P)
        PROVE  step[n][v] = ReadPiece(v, s[n])
    OBVIOUS
  <2> HIDE DEF step
  <2> QED BY <2>2, <2>3
<1>5. f = F(f)
  <2> HIDE DEF step, N
  <2>1. ASSUME NEW n \in 0..N PROVE f[n] = F(f)[n]
    <3>1. CASE n = 0
      BY <1>1, <1>3, <3>1
    <3>2. CASE n # 0
      <4>1. n \in 1..N
        BY <1>1, <3>2
      <4> QED BY <1>3, <1>4, <3>2, <4>1
    <3> QED BY <3>1, <3>2
  <2>2. DOMAIN f = 0..N /\ f = [n \in 0..N |-> f[n]]
    BY <1>3
  <2> QED BY <2>1, <2>2
<1>6. read = F(read)
  BY <1>5
<1>7. \A n \in 0..N : read[n] = IF n = 0 THEN a ELSE ReadPiece(read[n - 1], s[n])
  <2> HIDE DEF N, step
  <2>1. \A g : \A n \in 0..N : F(g)[n] = IF n = 0 THEN a ELSE ReadPiece(g[n - 1], s[n])
    OBVIOUS
  <2> HIDE DEF F
  <2> QED BY <1>6, <2>1
<1>8. ReadOn(a, s) = read[N]
  BY DEF ReadOn
<1> HIDE DEF read, step, F, N
<1>9. Alike(read, f, N)
  <2>1. 0 \in 0..N /\ \A n \in 1..N : n \in 0..N /\ n # 0
    BY <1>1
  <2>2. read[0] = a /\ f[0] = a
    BY <1>3, <1>7, <2>1
  <2>3. \A n \in 1..N : read[n] = ReadPiece(read[n - 1], s[n])
    BY <1>7, <2>1
  <2>4. \A n \in 1..N : f[n] = ReadPiece(f[n - 1], s[n])
    BY <1>3, <1>4
  <2> QED BY <2>2, <2>3, <2>4 DEF Alike
<1>10. read[N] = f[N]
  BY <1>1, <1>9, RecursionAgrees
<1> QED BY <1>3, <1>4, <1>8, <1>10 DEF Reads, N

\* Whatever reads them so ends where ReadOn does.
LEMMA ReadsOnce ==
  ASSUME NEW P, NEW a \in Readings(P), NEW s \in Seq(P), NEW f, Reads(f, a, s)
  PROVE  f[Len(s)] = ReadOn(a, s) /\ ReadOn(a, s) \in Readings(P)
<1>1. PICK g \in [0..Len(s) -> Readings(P)] : Reads(g, a, s) /\ ReadOn(a, s) = g[Len(s)]
  BY ReadOnReads
<1>2. Alike(f, g, Len(s))
  BY <1>1 DEF Reads, Alike
<1>3. Len(s) \in Nat /\ Len(s) \in 0..Len(s)
  BY LenProperties
<1> QED BY <1>1, <1>2, <1>3, RecursionAgrees

\* So does a sequence of them.
LEMMA ReadOnType ==
  ASSUME NEW P, NEW a \in Readings(P), NEW s \in Seq(P)
  PROVE  ReadOn(a, s) \in Readings(P)
BY ReadOnReads, ReadsOnce

\* Nothing is read in nothing.
LEMMA ReadNothing ==
  ASSUME NEW P, NEW a \in Readings(P)
  PROVE  ReadOn(a, <<>>) = a
<1>1. <<>> \in Seq(P) /\ Len(<<>>) = 0
  BY EmptySeq
<1>2. Reads([n \in {0} |-> a], a, <<>>)
  BY <1>1 DEF Reads
<1> QED BY <1>1, <1>2, ReadsOnce

\* What follows is read from where what comes before it ends.
LEMMA ReadConcat ==
  ASSUME NEW P, NEW a \in Readings(P), NEW s \in Seq(P), NEW t \in Seq(P)
  PROVE  ReadOn(a, s \o t) = ReadOn(ReadOn(a, s), t)
<1> DEFINE u == s \o t
           m == Len(s)
           n == Len(t)
<1>1. u \in Seq(P) /\ Len(u) = m + n /\ m \in Nat /\ n \in Nat
  BY ConcatProperties, LenProperties
<1>2. /\ \A i \in 1..m : u[i] = s[i]
      /\ \A i \in 1..n : u[m + i] = t[i]
  BY ConcatProperties, LenProperties
<1>3. PICK f : Reads(f, a, u) /\ ReadOn(a, u) = f[m + n]
  BY <1>1, ReadOnReads
<1> HIDE DEF u, m, n
<1>4. Reads(f, a, s)
  BY <1>1, <1>2, <1>3 DEF Reads, m
<1>5. f[m] = ReadOn(a, s) /\ f[m] \in Readings(P)
  BY <1>4, ReadsOnce DEF m
<1> DEFINE g == [i \in 0..n |-> f[m + i]]
<1>6. Reads(g, f[m], t)
  <2>1. g[0] = f[m]
    BY <1>1
  <2>2. ASSUME NEW i \in 1..n PROVE g[i] = ReadPiece(g[i - 1], t[i])
    <3>1. g[i] = f[m + i] /\ g[i - 1] = f[m + (i - 1)]
      BY <1>1
    <3>2. m + i \in 1..m + n /\ m + (i - 1) = (m + i) - 1
      BY <1>1
    <3>3. f[m + i] = ReadPiece(f[(m + i) - 1], u[m + i])
      BY <1>1, <1>3, <3>2 DEF Reads
    <3> QED BY <1>2, <3>1, <3>2, <3>3
  <2> HIDE DEF g
  <2> QED BY <2>1, <2>2 DEF Reads, n
<1>7. g[n] = f[m + n]
  BY <1>1
<1> HIDE DEF g
<1>8. g[n] = ReadOn(f[m], t)
  BY <1>5, <1>6, ReadsOnce DEF n
<1> QED BY <1>3, <1>5, <1>7, <1>8 DEF u

\* One more piece is read last.
LEMMA ReadOne ==
  ASSUME NEW P, NEW a \in Readings(P), NEW s \in Seq(P), NEW p \in P
  PROVE  ReadOn(a, Append(s, p)) = ReadPiece(ReadOn(a, s), p)
<1>1. ASSUME NEW b \in Readings(P) PROVE ReadOn(b, <<p>>) = ReadPiece(b, p)
  <2> DEFINE f == [n \in 0..1 |-> IF n = 0 THEN b ELSE ReadPiece(b, p)]
  <2>1. <<p>> \in Seq(P) /\ Len(<<p>>) = 1 /\ <<p>>[1] = p
    OBVIOUS
  <2>2. f[0] = b /\ f[1] = ReadPiece(b, p)
    OBVIOUS
  <2> HIDE DEF f
  <2>3. Reads(f, b, <<p>>)
    BY <2>1, <2>2 DEF Reads
  <2> QED BY <2>1, <2>2, <2>3, ReadsOnce
<1>2. Append(s, p) = s \o <<p>> /\ <<p>> \in Seq(P) /\ ReadOn(a, s) \in Readings(P)
  BY AppendIsConcat, ReadOnType
<1>3. ReadOn(a, s \o <<p>>) = ReadOn(ReadOn(a, s), <<p>>)
  <2>1. \A t \in Seq(P) : ReadOn(a, s \o t) = ReadOn(ReadOn(a, s), t)
    BY ReadConcat
  <2> QED BY <1>2, <2>1, Zenon
<1>5. ReadOn(ReadOn(a, s), <<p>>) = ReadPiece(ReadOn(a, s), p)
  BY <1>1, <1>2
<1>6. ReadOn(a, Append(s, p)) = ReadOn(a, s \o <<p>>)
  BY <1>2, Zenon
<1> QED BY <1>3, <1>5, <1>6, Zenon

\* Outside a thought, pieces that open none are the answer.
LEMMA ReadAnswer ==
  ASSUME NEW P, NEW t \in Seq(P), NEW s \in Seq(P), \A n \in 1..Len(s) : s[n].k \in {"text", "close"}
  PROVE  ReadOn([inside |-> FALSE, text |-> t], s) = [inside |-> FALSE, text |-> t \o s]
<1> DEFINE a(v) == [inside |-> FALSE, text |-> v]
           N == Len(s)
           f == [n \in 0..N |-> a(t \o SubSeq(s, 1, n))]
<1>1. N \in Nat /\ \A n \in 1..N : s[n] \in P
  BY LenProperties, ElementOfSeq
<1>2. SubSeq(s, 1, 0) = <<>> /\ SubSeq(s, 1, N) = s /\ t \o <<>> = t
  BY <1>1, SubSeqEmpty, SubSeqFull, ConcatEmptySeq
<1>3. a(t) \in Readings(P)
  BY DEF Readings
<1>4. ASSUME NEW n \in 1..N PROVE f[n] = ReadPiece(f[n - 1], s[n])
  <2> DEFINE v == SubSeq(s, 1, n - 1)
  <2>1. v \in Seq(P) /\ <<s[n]>> \in Seq(P) /\ s[n] \in P /\ s[n].k \in {"text", "close"}
    <3>1. \A i \in 1..n - 1 : s[i] \in P
      BY <1>1
    <3>2. v \in Seq(P)
      BY <1>1, <3>1, SubSeqProperties
    <3> QED BY <1>1, <3>2
  <2>2. SubSeq(s, 1, n) = Append(v, s[n])
    <3>1. 1 \in 1..Len(s) /\ n \in 1..Len(s)
      BY <1>1
    <3>2. SubSeq(s, 1, n) = v \o <<s[n]>>
      BY <3>1, SubSeqRecursiveSecond
    <3> QED BY <2>1, <3>2, AppendIsConcat
  <2> HIDE DEF v
  <2>3. t \o Append(v, s[n]) = Append(t \o v, s[n])
    <3>1. t \o (v \o <<s[n]>>) = (t \o v) \o <<s[n]>>
      BY <2>1, ConcatAssociative
    <3>2. t \o v \in Seq(P)
      BY <2>1, ConcatProperties
    <3> QED BY <2>1, <3>1, <3>2, AppendIsConcat
  <2>4. ReadPiece(a(t \o v), s[n]) = a(Append(t \o v, s[n]))
    <3> DEFINE u == t \o v
    <3> HIDE DEF u
    <3>1. ReadPiece(a(u), s[n]) = a(Append(u, s[n]))
      BY <2>1 DEF ReadPiece
    <3> QED BY <3>1 DEF u
  <2>5. f[n] = a(t \o SubSeq(s, 1, n)) /\ f[n - 1] = a(t \o v)
    BY <1>1 DEF v
  <2> HIDE DEF a, f
  <2> QED BY <2>2, <2>3, <2>4, <2>5
<1>5. f[0] = a(t) /\ f[N] = a(t \o s)
  <2>1. f[0] = a(t \o SubSeq(s, 1, 0)) /\ f[N] = a(t \o SubSeq(s, 1, N))
    BY <1>1
  <2> HIDE DEF f, a, N
  <2> QED BY <1>2, <2>1
<1> HIDE DEF f, a
<1>6. Reads(f, a(t), s)
  BY <1>4, <1>5 DEF Reads
<1>7. f[N] = ReadOn(a(t), s)
  BY <1>3, <1>6, ReadsOnce
<1> QED BY <1>5, <1>7 DEF a

\* Inside a thought, pieces that do not end it say nothing.
LEMMA ReadThought ==
  ASSUME NEW P, NEW a \in Readings(P), a.inside, NEW s \in Seq(P),
         \A n \in 1..Len(s) : s[n].k \in {"text", "open"}
  PROVE  ReadOn(a, s) = a
<1> DEFINE f == [n \in 0..Len(s) |-> a]
<1>1. Len(s) \in Nat
  BY LenProperties
<1>2. \A n \in 1..Len(s) : ReadPiece(a, s[n]) = a
  <2> TAKE n \in 1..Len(s)
  <2>1. s[n].k \in {"text", "open"}
    OBVIOUS
  <2> QED BY <2>1 DEF ReadPiece
<1>3. Reads(f, a, s) /\ f[Len(s)] = a
  BY <1>1, <1>2 DEF Reads
<1> HIDE DEF f
<1> QED BY <1>3, ReadsOnce

-----------------------------------------------------------------------------
(* What the events in a queue add to the answer a client has heard.        *)

Adds(ev) == IF ev.role \in {"answer", "tool"} THEN ev.text ELSE <<>>

\* A client that has heard h has heard t when it has read the events of out.
Grows(f, out) == \A i \in 1..Len(out) : f[i] = f[i - 1] \o Adds(out[i])
Hears(h, out, t) == \E f : f[0] = h /\ f[Len(out)] = t /\ Grows(f, out)

\* With nothing queued the client has heard what it has heard.
LEMMA HearsNothing ==
  ASSUME NEW h, NEW t
  PROVE  Hears(h, <<>>, t) <=> t = h
<1>1. Len(<<>>) = 0 /\ 1..0 = {}
  BY EmptySeq
<1>2. [i \in {0} |-> h][0] = h /\ Grows([i \in {0} |-> h], <<>>)
  BY <1>1 DEF Grows
<1>3. ASSUME t = h PROVE Hears(h, <<>>, t)
  BY <1>1, <1>2, <1>3 DEF Hears
<1> QED BY <1>1, <1>3 DEF Hears

\* An event at the end of the queue is heard last ...
LEMMA HearsFurther ==
  ASSUME NEW S, NEW out \in Seq(S), NEW ev \in S, NEW h, NEW t, Hears(h, out, t)
  PROVE  Hears(h, Append(out, ev), t \o Adds(ev))
<1> DEFINE n == Len(out)
           on == Append(out, ev)
<1>1. n \in Nat /\ Len(on) = n + 1 /\ on[n + 1] = ev /\ \A i \in 1..n : on[i] = out[i]
  BY AppendProperties, LenProperties
<1>2. PICK f : f[0] = h /\ f[n] = t /\ Grows(f, out)
  BY DEF Hears
<1> DEFINE g == [i \in 0..n + 1 |-> IF i = n + 1 THEN t \o Adds(ev) ELSE f[i]]
<1>3. g[n + 1] = t \o Adds(ev) /\ \A i \in 0..n : g[i] = f[i]
  BY <1>1
<1> HIDE DEF g, on
<1>4. ASSUME NEW i \in 1..Len(on) PROVE g[i] = g[i - 1] \o Adds(on[i])
  <2>1. CASE i = n + 1
    <3>1. i - 1 = n /\ n \in 0..n
      BY <1>1, <2>1
    <3> QED BY <1>1, <1>2, <1>3, <2>1, <3>1
  <2>2. CASE i # n + 1
    <3>1. i \in 1..n /\ i \in 0..n /\ i - 1 \in 0..n
      BY <1>1, <2>2
    <3>2. f[i] = f[i - 1] \o Adds(out[i])
      BY <1>2, <3>1 DEF Grows, n
    <3> QED BY <1>1, <1>3, <3>1, <3>2
  <2> QED BY <2>1, <2>2
<1>5. Grows(g, on)
  BY <1>4 DEF Grows
<1>6. g[0] = h /\ g[Len(on)] = t \o Adds(ev)
  BY <1>1, <1>2, <1>3
<1> QED BY <1>5, <1>6 DEF Hears, on

\* ... and the one at its head next.
LEMMA HearsOn ==
  ASSUME NEW S, NEW out \in Seq(S), out # <<>>, NEW h, NEW t, Hears(h, out, t)
  PROVE  Hears(h \o Adds(Head(out)), Tail(out), t)
<1> DEFINE n == Len(out)
           on == Tail(out)
<1>1. /\ n \in Nat /\ n >= 1 /\ Len(on) = n - 1 /\ Head(out) = out[1]
      /\ \A i \in 1..n - 1 : on[i] = out[i + 1]
  OBVIOUS
<1>2. PICK f : f[0] = h /\ f[n] = t /\ Grows(f, out)
  BY DEF Hears
<1> DEFINE g == [i \in 0..n - 1 |-> f[i + 1]]
<1>3. \A i \in 0..n - 1 : g[i] = f[i + 1]
  OBVIOUS
<1> HIDE DEF g, on
<1>4. ASSUME NEW i \in 1..Len(on) PROVE g[i] = g[i - 1] \o Adds(on[i])
  <2>1. /\ i \in 0..n - 1 /\ i - 1 \in 0..n - 1 /\ i \in 1..n - 1 /\ i + 1 \in 1..n
        /\ (i - 1) + 1 = i /\ (i + 1) - 1 = i
    BY <1>1
  <2>2. f[i + 1] = f[i] \o Adds(out[i + 1])
    BY <1>2, <2>1 DEF Grows, n
  <2>3. g[i] = f[i + 1] /\ g[i - 1] = f[i] /\ on[i] = out[i + 1]
    BY <1>1, <1>3, <2>1
  <2> QED BY <2>2, <2>3
<1>5. Grows(g, on)
  BY <1>4 DEF Grows
<1>6. g[0] = h \o Adds(Head(out)) /\ g[Len(on)] = t
  <2>1. 0 \in 0..n - 1 /\ n - 1 \in 0..n - 1 /\ 1 \in 1..n /\ 1 - 1 = 0 /\ (n - 1) + 1 = n /\ 0 + 1 = 1
    BY <1>1
  <2>2. f[1] = h \o Adds(out[1])
    BY <1>2, <2>1 DEF Grows, n
  <2> QED BY <1>1, <1>2, <1>3, <2>1, <2>2
<1> QED BY <1>5, <1>6 DEF Hears, on

\* Only pieces of the reply are heard.
LEMMA HearsType ==
  ASSUME NEW P, NEW out \in Seq(Events(P)), NEW h \in Seq(P), NEW t, Hears(h, out, t)
  PROVE  t \in Seq(P)
<1> DEFINE n == Len(out)
<1>1. PICK f : f[0] = h /\ f[n] = t /\ Grows(f, out)
  BY DEF Hears
<1>2. n \in Nat /\ \A i \in 1..n : out[i] \in Events(P)
  BY LenProperties, ElementOfSeq
<1>3. \A i \in 1..n : Adds(out[i]) \in Seq(P)
  BY <1>2, EmptySeq DEF Adds, Events
<1> DEFINE T == {i \in 0..n : f[i] \in Seq(P)}
<1>4. 0 \in T
  BY <1>1, <1>2
<1>5. \A i \in 1..n : i - 1 \in T => i \in T
  <2> SUFFICES ASSUME NEW i \in 1..n, f[i - 1] \in Seq(P) PROVE f[i] \in Seq(P)
    BY <1>2
  <2>1. f[i] = f[i - 1] \o Adds(out[i])
    BY <1>1 DEF Grows
  <2> QED BY <1>3, <2>1, ConcatProperties
<1>6. \A i \in 0..n : i \in T
  <2> HIDE DEF T, n
  <2> QED BY <1>2, <1>4, <1>5, BoundedInduction
<1>7. n \in 0..n
  BY <1>2
<1> QED BY <1>1, <1>6, <1>7

-----------------------------------------------------------------------------
(* What the writer's operations add to it.                                 *)

\* Writers, and what they are while a tool's block is open.
Writing(P) ==
  [begun: BOOLEAN, block: Blocks, idx: Nat, next: Nat, buf: Seq(P),
   inside: BOOLEAN, drop: BOOLEAN, source: {"unknown", "event", "tag"}, started: BOOLEAN,
   eventOpen: BOOLEAN, out: Seq(Events(P))]

\* From x to y text is added to what is heard, and the buffer stays.
Says(P, x, y, text) ==
  /\ x \in Writing(P) /\ y \in Writing(P) /\ Same(x, y) /\ text \in Seq(P)
  /\ \A h \in Seq(P) : \A t : Hears(h, x.out, t) => Hears(h, y.out, t \o text)

Quiet(P, x, y) == /\ x \in Writing(P) /\ y \in Writing(P) /\ Same(x, y)
                  /\ \A h \in Seq(P) : \A t : Hears(h, x.out, t) => Hears(h, y.out, t)

\* A writer between its operations is one of them.
LEMMA WritersWrite ==
  ASSUME NEW P, NEW x \in Writers(P)
  PROVE  x \in Writing(P)
BY DEF Writers, Writing, Blocks

\* A step that changes nothing is quiet.
LEMMA QuietSelf ==
  ASSUME NEW P, NEW x \in Writing(P)
  PROVE  Quiet(P, x, x)
BY DEF Quiet, Same

\* Quiet steps add up.
LEMMA QuietThen ==
  ASSUME NEW P, NEW x, NEW y, NEW z, Quiet(P, x, y), Quiet(P, y, z)
  PROVE  Quiet(P, x, z)
BY DEF Quiet, Same

\* To add no text is to be quiet.
LEMMA SaysQuiet ==
  ASSUME NEW P, NEW x, NEW y, Says(P, x, y, <<>>)
  PROVE  Quiet(P, x, y)
<1> SUFFICES ASSUME NEW h \in Seq(P), NEW t, Hears(h, x.out, t) PROVE Hears(h, y.out, t)
  BY DEF Says, Quiet
<1>1. x.out \in Seq(Events(P))
  BY DEF Says, Writing
<1>2. t \in Seq(P)
  BY <1>1, HearsType
<1>3. t \o <<>> = t
  BY <1>2, ConcatEmptySeq
<1>4. Hears(h, y.out, t \o <<>>)
  BY DEF Says
<1> QED BY <1>3, <1>4

\* An event adds its text, when it is one of answer or tool.
LEMMA SendSays ==
  ASSUME NEW P, NEW x \in Writing(P), NEW ev \in Events(P)
  PROVE  /\ Says(P, x, Send(x, ev), Adds(ev)) /\ Send(x, ev).begun = x.begun
         /\ Send(x, ev).block = x.block /\ Send(x, ev).idx = x.idx /\ Send(x, ev).next = x.next
<1>1. x.out \in Seq(Events(P))
  BY DEF Writing
<1>2. Append(x.out, ev) \in Seq(Events(P))
  BY <1>1, AppendProperties
<1>3. /\ Send(x, ev) \in Writing(P) /\ Send(x, ev).out = Append(x.out, ev) /\ Same(x, Send(x, ev))
      /\ Send(x, ev).begun = x.begun /\ Send(x, ev).block = x.block /\ Send(x, ev).idx = x.idx
      /\ Send(x, ev).next = x.next
  BY <1>2 DEF Writing, Send, Same
<1>4. Adds(ev) \in Seq(P)
  BY EmptySeq DEF Adds, Events
<1>5. \A h, t : Hears(h, x.out, t) => Hears(h, Append(x.out, ev), t \o Adds(ev))
  BY <1>1, HearsFurther
<1> QED BY <1>3, <1>4, <1>5 DEF Says

\* The events of the message itself add nothing.
LEMMA SendQuiet ==
  ASSUME NEW P, NEW x \in Writing(P), NEW i \in Nat, NEW k \in Blocks,
         NEW e \in {"message_start", "block_start", "signature", "block_stop", "message_delta", "message_stop"}
  PROVE  LET y == Send(x, Event(e, i, k, "none", <<>>))
         IN  /\ Quiet(P, x, y) /\ y.begun = x.begun
             /\ y.block = x.block /\ y.idx = x.idx /\ y.next = x.next
<1> DEFINE ev == Event(e, i, k, "none", <<>>)
<1>1. ev \in Events(P) /\ Adds(ev) = <<>>
  BY PlainEvent DEF Adds, Event
<1> HIDE DEF ev
<1>2. /\ Says(P, x, Send(x, ev), <<>>) /\ Send(x, ev).begun = x.begun
      /\ Send(x, ev).block = x.block /\ Send(x, ev).idx = x.idx /\ Send(x, ev).next = x.next
  BY <1>1, SendSays
<1> QED BY <1>2, SaysQuiet DEF ev

\* What is heard depends on the queue alone.
LEMMA QuietToo ==
  ASSUME NEW P, NEW x, NEW y, Quiet(P, x, y), NEW z \in Writing(P), Same(y, z), z.out = y.out
  PROVE  Quiet(P, x, z)
BY DEF Quiet, Same

\* Beginning the message adds nothing.
LEMMA EnsureQuiet ==
  ASSUME NEW P, NEW x \in Writing(P)
  PROVE  LET y == ensureMessageStart(x)
         IN  Quiet(P, x, y) /\ y.block = x.block /\ y.idx = x.idx /\ y.next = x.next
<1>1. CASE x.begun
  BY <1>1, QuietSelf DEF ensureMessageStart
<1>2. CASE ~x.begun
  <2> DEFINE y == Send(x, Event("message_start", 0, NoBlock, "none", <<>>))
             z == [y EXCEPT !.begun = TRUE]
  <2>1. Quiet(P, x, y) /\ y.block = x.block /\ y.idx = x.idx /\ y.next = x.next
    BY SendQuiet DEF Blocks
  <2>2. ensureMessageStart(x) = z
    BY <1>2 DEF ensureMessageStart
  <2> HIDE DEF y
  <2>3. y \in Writing(P)
    BY <2>1 DEF Quiet
  <2>4. /\ z \in Writing(P) /\ Same(y, z) /\ z.out = y.out
        /\ z.block = x.block /\ z.idx = x.idx /\ z.next = x.next
    BY <2>1, <2>3 DEF Writing, Same
  <2> HIDE DEF z
  <2> QED BY <2>1, <2>2, <2>4, QuietToo
<1> QED BY <1>1, <1>2

\* Ending a block adds nothing ...
LEMMA CloseQuiet ==
  ASSUME NEW P, NEW x \in Writing(P)
  PROVE  LET y == closeActiveBlock(x)
         IN  Quiet(P, x, y) /\ y.block = NoBlock /\ y.next = x.next
<1>1. CASE x.block = NoBlock
  BY <1>1, QuietSelf DEF closeActiveBlock
<1>2. CASE x.block # NoBlock
  <2> DEFINE y == IF x.block = "thinking" THEN Send(x, Event("signature", x.idx, x.block, "none", <<>>)) ELSE x
             z == Send(y, Event("block_stop", x.idx, x.block, "none", <<>>))
             v == [z EXCEPT !.block = NoBlock]
  <2>0. x.idx \in Nat /\ x.block \in Blocks
    BY DEF Writing
  <2>1. Quiet(P, x, y) /\ y.next = x.next
    <3>1. Quiet(P, x, x)
      BY QuietSelf
    <3>2. LET u == Send(x, Event("signature", x.idx, x.block, "none", <<>>))
          IN  Quiet(P, x, u) /\ u.next = x.next
      BY <2>0, SendQuiet
    <3> QED BY <3>1, <3>2
  <2>2. closeActiveBlock(x) = v
    BY <1>2 DEF closeActiveBlock
  <2> HIDE DEF y
  <2>3. y \in Writing(P)
    BY <2>1 DEF Quiet
  <2>4. Quiet(P, y, z) /\ z.next = y.next
    BY <2>0, <2>3, SendQuiet
  <2> HIDE DEF z
  <2>5. Quiet(P, x, z) /\ z \in Writing(P)
    <3>1. Quiet(P, x, z)
      BY <2>1, <2>4, QuietThen
    <3> QED BY <3>1 DEF Quiet
  <2>6. v \in Writing(P) /\ Same(z, v) /\ v.out = z.out /\ v.block = NoBlock /\ v.next = z.next
    BY <2>5 DEF Writing, Same, Blocks
  <2> HIDE DEF v
  <2>7. Quiet(P, x, v)
    BY <2>5, <2>6, QuietToo
  <2> QED BY <2>1, <2>2, <2>4, <2>6, <2>7
<1> QED BY <1>1, <1>2

\* ... nor does starting one ...
LEMMA NextQuiet ==
  ASSUME NEW P, NEW x \in Writing(P), NEW kind \in Blocks
  PROVE  LET y == NextBlock(x, kind) IN Quiet(P, x, y) /\ y.idx \in Nat
<1> DEFINE y == Send(x, Event("block_start", x.next, kind, "none", <<>>))
           z == [y EXCEPT !.block = kind, !.idx = x.next, !.next = @ + 1]
<1>1. x.next \in Nat
  BY DEF Writing
<1>2. Quiet(P, x, y) /\ y.next = x.next
  BY <1>1, SendQuiet
<1>3. NextBlock(x, kind) = z
  BY DEF NextBlock
<1> HIDE DEF y
<1>4. y \in Writing(P) /\ y.next + 1 \in Nat
  BY <1>1, <1>2 DEF Quiet
<1>5. z \in Writing(P) /\ Same(y, z) /\ z.out = y.out /\ z.idx = x.next
  BY <1>1, <1>4 DEF Writing, Same
<1> HIDE DEF z
<1> QED BY <1>1, <1>2, <1>3, <1>5, QuietToo

\* ... nor doing the one and then the other where needed.
LEMMA StartQuiet ==
  ASSUME NEW P, NEW x \in Writing(P), NEW kind \in Blocks
  PROVE  LET y == startContentBlock(x, kind) IN Quiet(P, x, y) /\ y.idx \in Nat
<1>1. CASE x.block = kind
  <2>1. x.idx \in Nat
    BY DEF Writing
  <2> QED BY <1>1, <2>1, QuietSelf DEF startContentBlock
<1>2. CASE x.block # kind
  <2> DEFINE y == ensureMessageStart(x)
             z == closeActiveBlock(y)
             v == NextBlock(z, kind)
  <2>1. Quiet(P, x, y)
    BY EnsureQuiet
  <2>2. startContentBlock(x, kind) = v
    BY <1>2 DEF startContentBlock
  <2> HIDE DEF y
  <2>3. Quiet(P, y, z)
    <3>1. y \in Writing(P)
      BY <2>1 DEF Quiet
    <3> QED BY <3>1, CloseQuiet
  <2> HIDE DEF z
  <2>4. Quiet(P, z, v) /\ v.idx \in Nat
    <3>1. z \in Writing(P)
      BY <2>3 DEF Quiet
    <3> QED BY <3>1, NextQuiet
  <2> HIDE DEF v
  <2>5. Quiet(P, x, z)
    BY <2>1, <2>3, QuietThen
  <2>6. Quiet(P, x, v)
    BY <2>4, <2>5, QuietThen
  <2> QED BY <2>2, <2>4, <2>6
<1> QED BY <1>1, <1>2

\* A quiet step, and then a text.
LEMMA QuietSays ==
  ASSUME NEW P, NEW x, NEW y, NEW z, NEW text, Quiet(P, x, y), Says(P, y, z, text)
  PROVE  Says(P, x, z, text)
BY DEF Quiet, Says, Same

\* A delta adds its text, when it is one of answer or tool ...
LEMMA DeltaSays ==
  ASSUME NEW P, NEW x \in Writing(P), NEW kind \in Blocks, NEW role \in Roles, NEW text \in Seq(P)
  PROVE  Says(P, x, Delta(x, kind, role, text), IF role \in {"answer", "tool"} THEN text ELSE <<>>)
<1> DEFINE y  == startContentBlock(x, kind)
           ev == Event("delta", y.idx, kind, role, text)
<1>1. Quiet(P, x, y) /\ y.idx \in Nat
  BY StartQuiet
<1>2. Delta(x, kind, role, text) = Send(y, ev)
  BY DEF Delta
<1> HIDE DEF y
<1>3. ev \in Events(P)
  BY <1>1, TextEvent
<1>4. Adds(ev) = IF role \in {"answer", "tool"} THEN text ELSE <<>>
  BY DEF Adds, Event
<1> HIDE DEF ev
<1>5. Says(P, y, Send(y, ev), Adds(ev))
  <2>1. y \in Writing(P)
    BY <1>1 DEF Quiet
  <2> QED BY <1>3, <2>1, SendSays
<1>6. Says(P, x, Send(y, ev), Adds(ev))
  BY <1>1, <1>5, QuietSays
<1> QED BY <1>2, <1>4, <1>6

\* ... and nothing when it is part of a thought.
LEMMA DeltaQuiet ==
  ASSUME NEW P, NEW x \in Writing(P), NEW kind \in Blocks,
         NEW role \in {"shown", "open", "more", "close"}, NEW text \in Seq(P)
  PROVE  Quiet(P, x, Delta(x, kind, role, text))
<1>1. role \in Roles /\ role \notin {"answer", "tool"}
  BY DEF Roles
<1>2. Says(P, x, Delta(x, kind, role, text), IF role \in {"answer", "tool"} THEN text ELSE <<>>)
  BY <1>1, DeltaSays
<1>3. (IF role \in {"answer", "tool"} THEN text ELSE <<>>) = <<>>
  BY <1>1
<1> QED BY <1>2, <1>3, SaysQuiet

\* An answer is heard as it is ...
LEMMA AnswerSays ==
  ASSUME NEW P, NEW x \in Writing(P), NEW text \in Seq(P)
  PROVE  Says(P, x, Answer(x, text), text)
<1>1. CASE text = <<>>
  <2>1. \A h \in Seq(P) : \A t : Hears(h, x.out, t) => Hears(h, x.out, t \o <<>>)
    <3> SUFFICES ASSUME NEW h \in Seq(P), NEW t, Hears(h, x.out, t) PROVE Hears(h, x.out, t \o <<>>)
      OBVIOUS
    <3>1. x.out \in Seq(Events(P))
      BY DEF Writing
    <3>2. t \in Seq(P)
      BY <3>1, HearsType
    <3>3. t \o <<>> = t
      BY <3>2, ConcatEmptySeq
    <3> QED BY <3>3
  <2> QED BY <1>1, <2>1 DEF Answer, Says, Same
<1>2. CASE text # <<>>
  <2>1. "answer" \in Roles /\ "text" \in Blocks /\ "answer" \in {"answer", "tool"}
    BY DEF Roles, Blocks
  <2>2. \A role \in Roles : Says(P, x, Delta(x, "text", role, text), IF role \in {"answer", "tool"} THEN text ELSE <<>>)
    BY <2>1, DeltaSays
  <2>3. Says(P, x, Delta(x, "text", "answer", text), IF "answer" \in {"answer", "tool"} THEN text ELSE <<>>)
    BY <2>1, <2>2
  <2> QED BY <1>2, <2>1, <2>3 DEF Answer
<1> QED BY <1>1, <1>2

\* ... and a thought is not part of it.
LEMMA ThoughtQuiet ==
  ASSUME NEW P, NEW x \in Writing(P), NEW o \in Option, NEW text \in Seq(P), NEW state \in 1..3
  PROVE  Quiet(P, x, sendText(x, o, text, state))
<1>0. Quiet(P, x, x) /\ {"text", "thinking"} \subseteq Blocks
  BY QuietSelf DEF Blocks
<1>1. sendText(x, o, text, state) = Thought(x, o, text, state)
  BY DEF sendText
<1>2. \A role \in {"shown", "open", "more", "close"}, kind \in {"text", "thinking"} :
         Quiet(P, x, Delta(x, kind, role, text))
  BY <1>0, DeltaQuiet
<1>3. ASSUME NEW y, Quiet(P, x, y) PROVE Quiet(P, x, closeActiveBlock(y))
  <2>1. Quiet(P, y, closeActiveBlock(y))
    BY <1>3, CloseQuiet DEF Quiet
  <2> QED BY <1>3, <2>1, QuietThen
<1>4. CASE ~o.thinking
  BY <1>0, <1>1, <1>4 DEF Thought
<1>5. CASE o.thinking /\ o.format = "think"
  <2>1. sendText(x, o, text, state) = ThinkText(x, text, state)
    BY <1>1, <1>5 DEF Thought
  <2>2. CASE state = 1
    <3>1. ThinkText(x, text, state) = Delta(x, "text", "open", text)
      BY <2>2 DEF ThinkText
    <3> QED BY <1>2, <2>1, <3>1
  <2>3. CASE state = 2
    <3>1. ThinkText(x, text, state) = IF text = <<>> THEN x ELSE Delta(x, "text", "more", text)
      BY <2>3 DEF ThinkText
    <3> QED BY <1>0, <1>2, <2>1, <3>1
  <2>4. CASE state = 3
    <3>1. ThinkText(x, text, state) = Delta(x, "text", "close", text)
      BY <2>4 DEF ThinkText
    <3> QED BY <1>2, <2>1, <3>1
  <2> QED BY <2>2, <2>3, <2>4
<1>6. CASE o.thinking /\ o.format = "reasoning_content"
  <2>1. sendText(x, o, text, state) = PlainText(x, text)
    BY <1>1, <1>6 DEF Thought
  <2>2. PlainText(x, text) = IF text = <<>> THEN x ELSE Delta(x, "text", "shown", text)
    BY DEF PlainText
  <2> QED BY <1>0, <1>2, <2>1, <2>2
<1>7. CASE o.thinking /\ o.format = "thinking" /\ o.omit
  <2> DEFINE y == startContentBlock(x, "thinking")
  <2>1. sendText(x, o, text, state) \in {x, y, closeActiveBlock(y)}
    BY <1>1, <1>7 DEF Thought, OmittedThought
  <2>2. Quiet(P, x, y)
    BY <1>0, StartQuiet
  <2> HIDE DEF y
  <2>3. Quiet(P, x, closeActiveBlock(y))
    BY <1>3, <2>2
  <2> QED BY <1>0, <2>1, <2>2, <2>3
<1>8. CASE o.thinking /\ o.format = "thinking" /\ ~o.omit
  <2> DEFINE y == IF text = <<>> THEN x ELSE Delta(x, "thinking", "shown", text)
  <2>1. sendText(x, o, text, state) = ThinkingBlock(x, text, state)
    BY <1>1, <1>8 DEF Thought
  <2>2. ThinkingBlock(x, text, state) \in {y, closeActiveBlock(y)}
    BY DEF ThinkingBlock
  <2>3. Quiet(P, x, y)
    BY <1>0, <1>2
  <2> HIDE DEF y
  <2>4. Quiet(P, x, closeActiveBlock(y))
    BY <1>3, <2>3
  <2> QED BY <2>1, <2>2, <2>3, <2>4
<1> QED BY <1>4, <1>5, <1>6, <1>7, <1>8 DEF Option

\* Neither is the last of one.
LEMMA LastThoughtQuiet ==
  ASSUME NEW P, NEW x \in Writing(P), NEW o \in Option, NEW text \in Seq(P)
  PROVE  Quiet(P, x, LastThought(x, o, text))
<1>0. <<>> \in Seq(P) /\ 1 \in 1..3 /\ 3 \in 1..3
  BY EmptySeq
<1> DEFINE y == sendText(x, o, text, 1)
           z == sendText(y, o, <<>>, 3)
           v == sendText(x, o, text, 3)
<1>1. LastThought(x, o, text) \in {x, v, z}
  BY DEF LastThought
<1>2. Quiet(P, x, x)
  BY QuietSelf
<1>3. Quiet(P, x, v)
  BY <1>0, ThoughtQuiet
<1>4. Quiet(P, x, y)
  BY <1>0, ThoughtQuiet
<1> HIDE DEF y
<1>5. Quiet(P, y, z)
  <2>1. y \in Writing(P)
    BY <1>4 DEF Quiet
  <2> QED BY <1>0, <2>1, ThoughtQuiet
<1> HIDE DEF v, z
<1>6. Quiet(P, x, z)
  BY <1>4, <1>5, QuietThen
<1> QED BY <1>1, <1>2, <1>3, <1>6

\* A tool call is part of what is heard.
LEMMA ToolSays ==
  ASSUME NEW P, NEW x \in Writing(P), NEW tool \in Seq(P)
  PROVE  Says(P, x, ToolUse(x, tool), tool)
<1> DEFINE u == ensureMessageStart(x)
           v == closeActiveBlock(u)
           y == NextBlock(v, "tool_use")
           ev == Event("delta", y.idx, "tool_use", "tool", tool)
           z == Send(y, ev)
           e2 == Event("block_stop", z.idx, "tool_use", "none", <<>>)
           s == Send(z, e2)
           r == [s EXCEPT !.block = NoBlock]
<1>1. ToolUse(x, tool) = r
  BY DEF ToolUse
<1>2. Quiet(P, x, u)
  BY EnsureQuiet
<1> HIDE DEF u
<1>3. Quiet(P, u, v)
  BY <1>2, CloseQuiet DEF Quiet
<1> HIDE DEF v
<1>4. Quiet(P, v, y) /\ y.idx \in Nat
  <2>1. v \in Writing(P) /\ "tool_use" \in Blocks
    BY <1>3 DEF Quiet, Blocks
  <2> QED BY <2>1, NextQuiet
<1> HIDE DEF y
<1>5. Quiet(P, x, y)
  BY <1>2, <1>3, <1>4, QuietThen
<1>6. ev \in Events(P) /\ Adds(ev) = tool
  <2>1. "tool" \in Roles /\ "tool_use" \in Blocks
    BY DEF Roles, Blocks
  <2> QED BY <1>4, <2>1, TextEvent DEF Adds, Event
<1> HIDE DEF ev
<1>7. Says(P, x, z, tool)
  <2>1. y \in Writing(P)
    BY <1>4 DEF Quiet
  <2>2. Says(P, y, z, tool)
    BY <1>6, <2>1, SendSays
  <2> QED BY <1>5, <2>2, QuietSays
<1> HIDE DEF z
<1>8. Quiet(P, z, s)
  <2>1. z \in Writing(P) /\ z.idx \in Nat /\ "tool_use" \in Blocks
    BY <1>7 DEF Says, Writing, Blocks
  <2> QED BY <2>1, SendQuiet
<1> HIDE DEF s
<1>9. r \in Writing(P) /\ Same(s, r) /\ r.out = s.out
  <2>1. s \in Writing(P)
    BY <1>8 DEF Quiet
  <2> QED BY <2>1 DEF Writing, Same, Blocks
<1> HIDE DEF r
<1>10. Quiet(P, z, r)
  BY <1>8, <1>9, QuietToo
<1>11. Says(P, x, r, tool)
  BY <1>7, <1>10 DEF Says, Quiet, Same
<1> QED BY <1>1, <1>11

\* The end of a message adds nothing to it.
LEMMA EndQuiet ==
  ASSUME NEW P, NEW x \in Writing(P)
  PROVE  Quiet(P, x, EndMessage(x))
<1> DEFINE u == ensureMessageStart(x)
           y == Send(u, Event("message_delta", 0, NoBlock, "none", <<>>))
           z == Send(y, Event("message_stop", 0, NoBlock, "none", <<>>))
<1>0. NoBlock \in Blocks /\ 0 \in Nat
  BY DEF Blocks
<1>1. EndMessage(x) = z
  BY DEF EndMessage
<1>2. Quiet(P, x, u)
  BY EnsureQuiet
<1> HIDE DEF u
<1>3. Quiet(P, u, y)
  BY <1>0, <1>2, SendQuiet DEF Quiet
<1> HIDE DEF y
<1>4. Quiet(P, y, z)
  BY <1>0, <1>3, SendQuiet DEF Quiet
<1> HIDE DEF z
<1> QED BY <1>1, <1>2, <1>3, <1>4, QuietThen

-----------------------------------------------------------------------------
(* What is held back, and what is still to be heard.                       *)

\* No thought's event and no tool call is ever held back.
Plain(s) == \A n \in 1..Len(s) : s[n].k \in {"text", "open", "close"}

\* To a client that has heard h the writer owes the answer r: it has heard it
\* when the queue is read, and what is held back read after that.
Owes(h, x, r) ==
  \E t : Hears(h, x.out, t) /\ ReadOn([inside |-> x.inside, text |-> t], x.buf) = r

\* Nothing is held back, and the queue holds the rest of the answer.
Pays(h, x, text) == x.buf = <<>> /\ ~x.inside /\ Hears(h, x.out, text)

\* A sequence is what lies before a cut and what lies after it.
LEMMA CutInTwo ==
  ASSUME NEW P, NEW s \in Seq(P), NEW n \in 0..Len(s)
  PROVE  /\ SubSeq(s, 1, n) \in Seq(P) /\ From(s, n + 1) \in Seq(P)
         /\ Len(SubSeq(s, 1, n)) = n /\ Len(From(s, n + 1)) = Len(s) - n
         /\ \A i \in 1..n : SubSeq(s, 1, n)[i] = s[i]
         /\ \A i \in 1..Len(s) - n : From(s, n + 1)[i] = s[n + i]
         /\ s = SubSeq(s, 1, n) \o From(s, n + 1)
<1>1. Len(s) \in Nat /\ n \in Nat /\ n <= Len(s) /\ \A i \in 1..Len(s) : s[i] \in P
  BY LenProperties, ElementOfSeq
<1>2. /\ SubSeq(s, 1, n) \in Seq(P) /\ Len(SubSeq(s, 1, n)) = n
      /\ \A i \in 1..n : SubSeq(s, 1, n)[i] = s[i]
  <2>1. 1 \in Int /\ n \in Int /\ \A i \in 1..n : s[i] \in P
    BY <1>1
  <2>2. /\ SubSeq(s, 1, n) \in Seq(P)
        /\ Len(SubSeq(s, 1, n)) = IF 1 <= n THEN n - 1 + 1 ELSE 0
        /\ \A i \in 1..n - 1 + 1 : SubSeq(s, 1, n)[i] = s[1 + i - 1]
    BY <2>1, SubSeqProperties
  <2> QED BY <1>1, <2>2
<1>3. /\ From(s, n + 1) \in Seq(P) /\ Len(From(s, n + 1)) = Len(s) - n
      /\ \A i \in 1..Len(s) - n : From(s, n + 1)[i] = s[n + i]
  <2>1. n + 1 \in Int /\ Len(s) \in Int /\ \A i \in n + 1..Len(s) : s[i] \in P
    BY <1>1
  <2>2. /\ From(s, n + 1) \in Seq(P)
        /\ Len(From(s, n + 1)) = IF n + 1 <= Len(s) THEN Len(s) - (n + 1) + 1 ELSE 0
        /\ \A i \in 1..Len(s) - (n + 1) + 1 : From(s, n + 1)[i] = s[n + 1 + i - 1]
    BY <2>1, SubSeqProperties DEF From
  <2>3. n + 1 <= Len(s) \/ Len(s) - n = 0
    BY <1>1
  <2>4. Len(s) - (n + 1) + 1 = Len(s) - n
    BY <1>1
  <2>5. Len(From(s, n + 1)) = Len(s) - n
    BY <2>2, <2>3, <2>4
  <2>6. ASSUME NEW i \in 1..Len(s) - n PROVE From(s, n + 1)[i] = s[n + i]
    <3>1. i \in 1..Len(s) - (n + 1) + 1 /\ n + 1 + i - 1 = n + i
      BY <1>1, <2>4
    <3>2. From(s, n + 1)[i] = s[n + 1 + i - 1]
      BY <2>2, <3>1
    <3> QED BY <3>1, <3>2
  <2> QED BY <2>2, <2>5, <2>6
<1> DEFINE front == SubSeq(s, 1, n)
           rest  == From(s, n + 1)
<1>4. s = front \o rest
  <2> HIDE DEF front, rest
  <2>1. /\ front \o rest \in Seq(P) /\ Len(front \o rest) = Len(front) + Len(rest)
        /\ \A i \in 1..Len(front) + Len(rest) :
             (front \o rest)[i] = IF i <= Len(front) THEN front[i] ELSE rest[i - Len(front)]
    BY <1>2, <1>3, ConcatProperties DEF front, rest
  <2>2. Len(front) = n /\ Len(rest) = Len(s) - n /\ Len(front \o rest) = Len(s)
    BY <1>1, <1>2, <1>3, <2>1 DEF front, rest
  <2>3. ASSUME NEW i \in 1..Len(s) PROVE (front \o rest)[i] = s[i]
    <3>1. CASE i <= n
      <4>1. i \in 1..n
        BY <1>1, <3>1
      <4>2. front[i] = s[i]
        BY <1>2, <4>1 DEF front
      <4> QED BY <2>1, <2>2, <3>1, <4>2, <1>1
    <3>2. CASE ~(i <= n)
      <4>1. i - n \in 1..Len(s) - n /\ n + (i - n) = i
        BY <1>1, <3>2
      <4>2. rest[i - n] = s[i]
        BY <1>3, <4>1 DEF rest
      <4> QED BY <2>1, <2>2, <3>2, <4>2, <1>1
    <3> QED BY <3>1, <3>2
  <2> QED BY <2>1, <2>2, <2>3, SeqEqual
<1> QED BY <1>2, <1>3, <1>4

\* The part before a cut.
LEMMA CutFront ==
  ASSUME NEW P
  PROVE  \A s \in Seq(P) : \A n \in 0..Len(s) :
           /\ SubSeq(s, 1, n) \in Seq(P) /\ Len(SubSeq(s, 1, n)) = n
           /\ \A i \in 1..n : SubSeq(s, 1, n)[i] = s[i]
<1> SUFFICES ASSUME NEW s \in Seq(P), NEW n \in 0..Len(s)
             PROVE  /\ SubSeq(s, 1, n) \in Seq(P) /\ Len(SubSeq(s, 1, n)) = n
                    /\ \A i \in 1..n : SubSeq(s, 1, n)[i] = s[i]
  OBVIOUS
<1> QED BY CutInTwo

\* The part after a cut.
LEMMA CutRest ==
  ASSUME NEW P
  PROVE  \A s \in Seq(P) : \A n \in 0..Len(s) :
           /\ From(s, n + 1) \in Seq(P) /\ Len(From(s, n + 1)) = Len(s) - n
           /\ \A i \in 1..Len(s) - n : From(s, n + 1)[i] = s[n + i]
<1> SUFFICES ASSUME NEW s \in Seq(P), NEW n \in 0..Len(s)
             PROVE  /\ From(s, n + 1) \in Seq(P) /\ Len(From(s, n + 1)) = Len(s) - n
                    /\ \A i \in 1..Len(s) - n : From(s, n + 1)[i] = s[n + i]
  OBVIOUS
<1> QED BY CutInTwo

\* What lies before and after a piece.
LEMMA CutAround ==
  ASSUME NEW P, NEW s \in Seq(P), Plain(s), NEW i \in 1..Len(s)
  PROVE  LET front == SubSeq(s, 1, i - 1)
             rest  == From(s, i + 1)
         IN  /\ front \in Seq(P) /\ rest \in Seq(P) /\ Len(front) = i - 1
             /\ (\A n \in 1..i - 1 : front[n] = s[n]) /\ Plain(rest)
<1>1. Len(s) \in Nat /\ i - 1 \in 0..Len(s) /\ i \in 0..Len(s)
  BY LenProperties
<1> DEFINE m == i - 1
           front == SubSeq(s, 1, m)
           rest  == From(s, i + 1)
<1>2. m \in 0..Len(s)
  BY <1>1
<1> HIDE DEF m
<1>3. /\ front \in Seq(P) /\ Len(front) = m /\ \A n \in 1..m : front[n] = s[n]
  BY <1>2, CutInTwo
<1>4. /\ rest \in Seq(P) /\ Len(rest) = Len(s) - i
      /\ \A n \in 1..Len(s) - i : rest[n] = s[i + n]
  BY <1>1, CutInTwo
<1>5. \A n \in 1..Len(s) - i : i + n \in 1..Len(s)
  BY <1>1
<1> HIDE DEF rest
<1>6. Plain(rest)
  <2> SUFFICES ASSUME NEW n \in 1..Len(s) - i PROVE rest[n].k \in {"text", "open", "close"}
    BY <1>4 DEF Plain
  <2>1. rest[n] = s[i + n] /\ i + n \in 1..Len(s)
    BY <1>4, <1>5
  <2> QED BY <2>1 DEF Plain
<1> QED BY <1>3, <1>4, <1>6 DEF m, rest

\* A reading goes through any cut.
LEMMA ReadCut ==
  ASSUME NEW P, NEW a \in Readings(P), NEW s \in Seq(P), NEW n \in 0..Len(s)
  PROVE  ReadOn(a, s) = ReadOn(ReadOn(a, SubSeq(s, 1, n)), From(s, n + 1))
<1> DEFINE front == SubSeq(s, 1, n)
           rest  == From(s, n + 1)
<1>1. front \in Seq(P) /\ rest \in Seq(P) /\ s = front \o rest
  BY CutInTwo
<1> HIDE DEF front, rest
<1>2. ReadOn(a, front \o rest) = ReadOn(ReadOn(a, front), rest)
  BY <1>1, ReadConcat
<1> QED BY <1>1, <1>2 DEF front, rest

\* The piece at i is read between what comes before and after it.
LEMMA ReadTag ==
  ASSUME NEW P, NEW a \in Readings(P), NEW s \in Seq(P), NEW i \in 1..Len(s)
  PROVE  ReadOn(a, s) = ReadOn(ReadPiece(ReadOn(a, SubSeq(s, 1, i - 1)), s[i]), From(s, i + 1))
<1>1. Len(s) \in Nat /\ i \in 0..Len(s) /\ i - 1 \in 0..Len(s) /\ s[i] \in P /\ 1 \in 1..Len(s)
  BY LenProperties, ElementOfSeq
<1> DEFINE front == SubSeq(s, 1, i - 1)
<1>2. front \in Seq(P)
  BY <1>1, CutInTwo
<1>3. SubSeq(s, 1, i) = Append(front, s[i])
  <2>1. SubSeq(s, 1, i) = front \o <<s[i]>>
    BY <1>1, SubSeqRecursiveSecond
  <2> HIDE DEF front
  <2> QED BY <1>1, <1>2, <2>1, AppendIsConcat
<1>4. ReadOn(a, s) = ReadOn(ReadOn(a, SubSeq(s, 1, i)), From(s, i + 1))
  BY <1>1, ReadCut
<1> HIDE DEF front
<1>5. ReadOn(a, Append(front, s[i])) = ReadPiece(ReadOn(a, front), s[i])
  <2>1. ASSUME NEW t \in Seq(P), NEW p \in P
        PROVE  ReadOn(a, Append(t, p)) = ReadPiece(ReadOn(a, t), p)
    BY ReadOne
  <2> QED BY <1>1, <1>2, <2>1, Zenon
<1> QED BY <1>3, <1>4, <1>5 DEF front

\* A quiet step leaves what is owed as it is.
LEMMA QuietOwes ==
  ASSUME NEW P, NEW h \in Seq(P), NEW x, NEW y, Quiet(P, x, y), NEW r, Owes(h, x, r)
  PROVE  Owes(h, y, r)
BY DEF Owes, Quiet, Same

\* What is owed depends on the queue, the buffer and the tag alone.
LEMMA OwesToo ==
  ASSUME NEW h, NEW r, NEW x, NEW y, Owes(h, x, r), y.out = x.out, y.buf = x.buf, y.inside = x.inside
  PROVE  Owes(h, y, r)
BY DEF Owes

\* The first tag of a kind, and what comes before it.
LEMMA TagIsFirst ==
  ASSUME NEW P, NEW x \in Writers(P), NEW k, Tags(x, k) # {}
  PROVE  LET i == First(Tags(x, k))
         IN  i \in 1..Len(x.buf) /\ x.buf[i].k = k /\ \A n \in 1..i - 1 : x.buf[n].k # k
<1> DEFINE i == First(Tags(x, k))
<1>1. x.buf \in Seq(P) /\ Len(x.buf) \in Nat /\ DOMAIN x.buf = 1..Len(x.buf)
  BY LenProperties DEF Writers
<1>2. Tags(x, k) \subseteq Nat /\ \A n \in 1..Len(x.buf) : n \in Tags(x, k) <=> x.buf[n].k = k
  BY <1>1 DEF Tags
<1>3. \E m \in Tags(x, k) : \A n \in Tags(x, k) : m <= n
  BY <1>2, LeastNat
<1>4. i \in Tags(x, k) /\ \A n \in Tags(x, k) : i <= n
  <2>1. \E m : m \in Tags(x, k) /\ \A n \in Tags(x, k) : m <= n
    BY <1>3
  <2> QED BY <2>1 DEF First
<1> HIDE DEF i
<1>5. i \in 1..Len(x.buf) /\ x.buf[i].k = k
  BY <1>1, <1>4 DEF Tags
<1>6. ASSUME NEW n \in 1..i - 1 PROVE x.buf[n].k # k
  <2>1. n \in 1..Len(x.buf) /\ ~(i <= n)
    BY <1>1, <1>5
  <2> QED BY <1>2, <1>4, <2>1
<1> QED BY <1>5, <1>6 DEF i

\* Answer up to <thinking>.
LEMMA OpenTagOwes ==
  ASSUME NEW P, NEW h \in Seq(P), NEW x \in Writers(P), NEW o, Plain(x.buf), ~x.inside,
         Tags(x, "open") # {}, NEW r, Owes(h, x, r)
  PROVE  LET z == OpenTag(x, o) IN Owes(h, z, r) /\ Plain(z.buf)
<1> DEFINE i     == First(Tags(x, "open"))
           front == SubSeq(x.buf, 1, i - 1)
           rest  == From(x.buf, i + 1)
           y == Answer(x, front)
           z == [y EXCEPT !.buf = rest, !.inside = TRUE, !.drop = ~allowTagSource(x),
                          !.source = IF @ = "unknown" THEN "tag" ELSE @, !.started = FALSE]
<1>1. x.buf \in Seq(P) /\ x.inside = FALSE /\ Len(x.buf) \in Nat /\ x \in Writing(P)
      /\ x.out \in Seq(Events(P))
  BY LenProperties, WritersWrite DEF Writers
<1>2. i \in 1..Len(x.buf) /\ x.buf[i].k = "open" /\ \A n \in 1..i - 1 : x.buf[n].k # "open"
  BY TagIsFirst
<1>3. z = OpenTag(x, o)
  BY DEF OpenTag, sendText
<1> HIDE DEF i
<1>4. PICK t : Hears(h, x.out, t) /\ ReadOn([inside |-> FALSE, text |-> t], x.buf) = r
  BY <1>1 DEF Owes
<1>5. t \in Seq(P) /\ [inside |-> FALSE, text |-> t] \in Readings(P)
  BY <1>1, <1>4, HearsType DEF Readings
<1>6. /\ front \in Seq(P) /\ rest \in Seq(P) /\ Len(front) = i - 1
      /\ (\A n \in 1..i - 1 : front[n] = x.buf[n]) /\ Plain(rest)
  BY <1>1, <1>2, CutAround
<1>7. r = ReadOn(ReadPiece(ReadOn([inside |-> FALSE, text |-> t], front), x.buf[i]), rest)
  BY <1>1, <1>2, <1>4, <1>5, ReadTag
<1> HIDE DEF front, rest, y, z
<1>8. \A n \in 1..Len(front) : front[n].k \in {"text", "close"}
  <2>1. \A n \in 1..i - 1 : n \in 1..Len(x.buf)
    BY <1>1, <1>2
  <2> SUFFICES ASSUME NEW n \in 1..i - 1 PROVE front[n].k \in {"text", "close"}
    BY <1>6
  <2>2. x.buf[n].k # "open" /\ front[n] = x.buf[n]
    BY <1>2, <1>6
  <2>3. x.buf[n].k \in {"text", "open", "close"}
    BY <2>1 DEF Plain
  <2> QED BY <2>2, <2>3
<1>9. ReadOn([inside |-> FALSE, text |-> t], front) = [inside |-> FALSE, text |-> t \o front]
  BY <1>5, <1>6, <1>8, ReadAnswer
<1>10. ReadPiece([inside |-> FALSE, text |-> t \o front], x.buf[i]) = [inside |-> TRUE, text |-> t \o front]
  BY <1>2 DEF ReadPiece
<1>11. Says(P, x, y, front)
  BY <1>1, <1>6, AnswerSays DEF y
<1>12. y \in Writing(P) /\ Hears(h, y.out, t \o front)
  BY <1>4, <1>11 DEF Says
<1>13. z.out = y.out /\ z.buf = rest /\ z.inside = TRUE
  BY <1>12 DEF z, Writing
<1>14. Owes(h, z, r)
  BY <1>7, <1>9, <1>10, <1>12, <1>13 DEF Owes
<1> QED BY <1>3, <1>6, <1>13, <1>14

\* A thought up to </thinking>.
LEMMA CloseTagOwes ==
  ASSUME NEW P, NEW h \in Seq(P), NEW x \in Writers(P), NEW o \in Option, Plain(x.buf), x.inside,
         Tags(x, "close") # {}, NEW r, Owes(h, x, r)
  PROVE  LET z == CloseTag(x, o) IN Owes(h, z, r) /\ Plain(z.buf)
<1> DEFINE i     == First(Tags(x, "close"))
           front == SubSeq(x.buf, 1, i - 1)
           rest  == From(x.buf, i + 1)
           y == LastThought(x, o, front)
           z == [y EXCEPT !.buf = rest, !.inside = FALSE, !.drop = FALSE, !.started = FALSE]
<1>1. x.buf \in Seq(P) /\ x.inside = TRUE /\ Len(x.buf) \in Nat /\ x \in Writing(P)
      /\ x.out \in Seq(Events(P))
  BY LenProperties, WritersWrite DEF Writers
<1>2. i \in 1..Len(x.buf) /\ x.buf[i].k = "close" /\ \A n \in 1..i - 1 : x.buf[n].k # "close"
  BY TagIsFirst
<1>3. z = CloseTag(x, o)
  BY DEF CloseTag
<1> HIDE DEF i
<1>4. PICK t : Hears(h, x.out, t) /\ ReadOn([inside |-> TRUE, text |-> t], x.buf) = r
  BY <1>1 DEF Owes
<1>5. t \in Seq(P) /\ [inside |-> TRUE, text |-> t] \in Readings(P)
  BY <1>1, <1>4, HearsType DEF Readings
<1>6. /\ front \in Seq(P) /\ rest \in Seq(P) /\ Len(front) = i - 1
      /\ (\A n \in 1..i - 1 : front[n] = x.buf[n]) /\ Plain(rest)
  BY <1>1, <1>2, CutAround
<1>7. r = ReadOn(ReadPiece(ReadOn([inside |-> TRUE, text |-> t], front), x.buf[i]), rest)
  BY <1>1, <1>2, <1>4, <1>5, ReadTag
<1> HIDE DEF front, rest, y, z
<1>8. \A n \in 1..Len(front) : front[n].k \in {"text", "open"}
  <2>1. \A n \in 1..i - 1 : n \in 1..Len(x.buf)
    BY <1>1, <1>2
  <2> SUFFICES ASSUME NEW n \in 1..i - 1 PROVE front[n].k \in {"text", "open"}
    BY <1>6
  <2>2. x.buf[n].k # "close" /\ front[n] = x.buf[n]
    BY <1>2, <1>6
  <2>3. x.buf[n].k \in {"text", "open", "close"}
    BY <2>1 DEF Plain
  <2> QED BY <2>2, <2>3
<1>9. ReadOn([inside |-> TRUE, text |-> t], front) = [inside |-> TRUE, text |-> t]
  <2> DEFINE a == [inside |-> TRUE, text |-> t]
  <2>1. a.inside /\ a \in Readings(P)
    BY <1>5
  <2> HIDE DEF a
  <2>2. ReadOn(a, front) = a
    BY <1>6, <1>8, <2>1, ReadThought
  <2> QED BY <2>2 DEF a
<1>10. ReadPiece([inside |-> TRUE, text |-> t], x.buf[i]) = [inside |-> FALSE, text |-> t]
  BY <1>2 DEF ReadPiece
<1>11. Quiet(P, x, y)
  BY <1>1, <1>6, LastThoughtQuiet DEF y
<1>12. y \in Writing(P) /\ Hears(h, y.out, t)
  BY <1>4, <1>11 DEF Quiet
<1>13. z.out = y.out /\ z.buf = rest /\ z.inside = FALSE
  BY <1>12 DEF z, Writing
<1>14. Owes(h, z, r)
  BY <1>7, <1>9, <1>10, <1>12, <1>13 DEF Owes
<1> QED BY <1>3, <1>6, <1>13, <1>14

\* Answer with no tag in it, of which a part may stay.
LEMMA AnswerOwes ==
  ASSUME NEW P, NEW h \in Seq(P), NEW x \in Writers(P), NEW o, Plain(x.buf), ~x.inside,
         Tags(x, "open") = {}, NEW force \in BOOLEAN, NEW r, Owes(h, x, r)
  PROVE  LET z == SendAnswer(x, o, force)
         IN  Owes(h, z, r) /\ Plain(z.buf) /\ (force => Pays(h, z, r.text))
<1> DEFINE n     == Safe(x, Hold, force)
           front == SubSeq(x.buf, 1, n)
           rest  == From(x.buf, n + 1)
           y == Answer(x, front)
           z == [y EXCEPT !.buf = rest]
<1>1. /\ x.buf \in Seq(P) /\ x.inside = FALSE /\ Len(x.buf) \in Nat /\ x \in Writing(P)
      /\ x.out \in Seq(Events(P)) /\ DOMAIN x.buf = 1..Len(x.buf)
  BY LenProperties, WritersWrite DEF Writers
<1>2. n \in 0..Len(x.buf) /\ n \in Nat /\ (force => n = Len(x.buf))
  BY SafeCut
<1>3. z = SendAnswer(x, o, force)
  BY DEF SendAnswer, sendText
<1> HIDE DEF n
<1>4. PICK t : Hears(h, x.out, t) /\ ReadOn([inside |-> FALSE, text |-> t], x.buf) = r
  BY <1>1 DEF Owes
<1>5. t \in Seq(P) /\ [inside |-> FALSE, text |-> t] \in Readings(P)
  BY <1>1, <1>4, HearsType DEF Readings
<1>6. /\ front \in Seq(P) /\ rest \in Seq(P) /\ Len(front) = n /\ Len(rest) = Len(x.buf) - n
      /\ (\A k \in 1..n : front[k] = x.buf[k]) /\ (\A k \in 1..Len(x.buf) - n : rest[k] = x.buf[n + k])
  <2>a. x.buf \in Seq(P)
    BY <1>1
  <2>b. n \in 0..Len(x.buf)
    BY <1>2
  <2>1. front \in Seq(P) /\ Len(front) = n /\ \A k \in 1..n : front[k] = x.buf[k]
    BY <2>a, <2>b, CutFront, ZenonT(60)
  <2>2. /\ rest \in Seq(P) /\ Len(rest) = Len(x.buf) - n
        /\ \A k \in 1..Len(x.buf) - n : rest[k] = x.buf[n + k]
    BY <2>a, <2>b, CutRest, ZenonT(60)
  <2> QED BY <2>1, <2>2
<1>7. r = ReadOn(ReadOn([inside |-> FALSE, text |-> t], front), rest)
  BY <1>1, <1>2, <1>4, <1>5, ReadCut
<1> HIDE DEF front, rest, y, z
<1>8. \A k \in 1..Len(x.buf) : x.buf[k].k \in {"text", "close"}
  BY <1>1 DEF Plain, Tags
<1>9. ReadOn([inside |-> FALSE, text |-> t], front) = [inside |-> FALSE, text |-> t \o front]
  <2>1. \A k \in 1..Len(front) : front[k].k \in {"text", "close"}
    BY <1>1, <1>2, <1>6, <1>8
  <2> QED BY <1>5, <1>6, <2>1, ReadAnswer
<1>10. Plain(rest)
  <2> SUFFICES ASSUME NEW k \in 1..Len(x.buf) - n PROVE rest[k].k \in {"text", "open", "close"}
    BY <1>6 DEF Plain
  <2>1. n + k \in 1..Len(x.buf) /\ rest[k] = x.buf[n + k]
    BY <1>1, <1>2, <1>6
  <2> QED BY <1>8, <2>1
<1>11. Says(P, x, y, front)
  BY <1>1, <1>6, AnswerSays DEF y
<1>12. y \in Writing(P) /\ Hears(h, y.out, t \o front)
  BY <1>4, <1>11 DEF Says
<1>13. z.out = y.out /\ z.buf = rest /\ z.inside = FALSE
  BY <1>1, <1>11, <1>12 DEF z, Writing, Says, Same
<1>14. Owes(h, z, r)
  BY <1>7, <1>9, <1>12, <1>13 DEF Owes
<1>15. ASSUME force PROVE Pays(h, z, r.text)
  <2>1. rest = <<>>
    <3>1. Len(rest) = 0
      BY <1>1, <1>2, <1>6, <1>15
    <3> QED BY <1>6, <3>1, EmptySeq
  <2>2. [inside |-> FALSE, text |-> t \o front] \in Readings(P)
    BY <1>5, <1>6, ConcatProperties DEF Readings
  <2>3. r = [inside |-> FALSE, text |-> t \o front]
    BY <1>7, <1>9, <2>1, <2>2, ReadNothing
  <2> QED BY <1>12, <1>13, <2>1, <2>3 DEF Pays
<1> QED BY <1>3, <1>10, <1>13, <1>14, <1>15

\* A thought whose end has not come, of which a part may stay.
LEMMA ThoughtOwes ==
  ASSUME NEW P, NEW h \in Seq(P), NEW x \in Writers(P), NEW o \in Option, Plain(x.buf), x.inside,
         Tags(x, "close") = {}, NEW r, Owes(h, x, r)
  PROVE  LET z == SendThought(x, o, FALSE) IN Owes(h, z, r) /\ Plain(z.buf)
<1> DEFINE n     == Safe(x, HoldThinking, FALSE)
           front == SubSeq(x.buf, 1, n)
           rest  == From(x.buf, n + 1)
           state == IF x.started THEN 2 ELSE 1
           y == sendText(x, o, front, state)
           z == [y EXCEPT !.buf = rest, !.started = TRUE]
           v == [x EXCEPT !.buf = rest]
<1>1. /\ x.buf \in Seq(P) /\ x.inside = TRUE /\ Len(x.buf) \in Nat /\ x \in Writing(P)
      /\ x.out \in Seq(Events(P)) /\ DOMAIN x.buf = 1..Len(x.buf)
  BY LenProperties, WritersWrite DEF Writers
<1>2. n \in 0..Len(x.buf) /\ n \in Nat
  BY SafeCut
<1>3. SendThought(x, o, FALSE) = IF n = 0 THEN x ELSE IF x.drop THEN v ELSE z
  <2> HIDE DEF z, y
  <2>0. n \in Nat /\ (n # 0 <=> n > 0)
    <3> HIDE DEF n
    <3> QED BY <1>2
  <2>1. CASE n = 0
    BY <2>0, <2>1 DEF SendThought
  <2>2. CASE n # 0 /\ x.drop
    BY <2>0, <2>2 DEF SendThought
  <2>3. CASE n # 0 /\ ~x.drop
    <3>1. SendThought(x, o, FALSE) = z
      BY <2>0, <2>3 DEF SendThought, z, y
    <3> HIDE DEF n
    <3> QED BY <2>3, <3>1
  <2> HIDE DEF n
  <2> QED BY <2>1, <2>2, <2>3
<1>s. state \in 1..3
  OBVIOUS
<1> HIDE DEF n, state, z, v
<1>4. PICK t : Hears(h, x.out, t) /\ ReadOn([inside |-> TRUE, text |-> t], x.buf) = r
  BY <1>1 DEF Owes
<1>5. t \in Seq(P) /\ [inside |-> TRUE, text |-> t] \in Readings(P)
  BY <1>1, <1>4, HearsType DEF Readings
<1>6. /\ front \in Seq(P) /\ rest \in Seq(P) /\ Len(front) = n /\ Len(rest) = Len(x.buf) - n
      /\ (\A k \in 1..n : front[k] = x.buf[k]) /\ (\A k \in 1..Len(x.buf) - n : rest[k] = x.buf[n + k])
  <2>a. x.buf \in Seq(P)
    BY <1>1
  <2>b. n \in 0..Len(x.buf)
    BY <1>2
  <2>1. front \in Seq(P) /\ Len(front) = n /\ \A k \in 1..n : front[k] = x.buf[k]
    BY <2>a, <2>b, CutFront, ZenonT(60)
  <2>2. /\ rest \in Seq(P) /\ Len(rest) = Len(x.buf) - n
        /\ \A k \in 1..Len(x.buf) - n : rest[k] = x.buf[n + k]
    BY <2>a, <2>b, CutRest, ZenonT(60)
  <2> QED BY <2>1, <2>2
<1>7. r = ReadOn(ReadOn([inside |-> TRUE, text |-> t], front), rest)
  BY <1>1, <1>2, <1>4, <1>5, ReadCut
<1> HIDE DEF front, rest, y
<1>8. \A k \in 1..Len(x.buf) : x.buf[k].k \in {"text", "open"}
  BY <1>1 DEF Plain, Tags
<1>9. ReadOn([inside |-> TRUE, text |-> t], front) = [inside |-> TRUE, text |-> t]
  <2> DEFINE a == [inside |-> TRUE, text |-> t]
  <2>1. a.inside /\ a \in Readings(P)
    BY <1>5
  <2> HIDE DEF a
  <2>2. \A k \in 1..Len(front) : front[k].k \in {"text", "open"}
    <3> SUFFICES ASSUME NEW k \in 1..n PROVE front[k].k \in {"text", "open"}
      BY <1>6
    <3>1. k \in 1..Len(x.buf) /\ front[k] = x.buf[k]
      BY <1>1, <1>2, <1>6
    <3> QED BY <1>8, <3>1
  <2>3. ReadOn(a, front) = a
    BY <1>6, <2>1, <2>2, ReadThought
  <2> QED BY <2>3 DEF a
<1>10. Plain(rest)
  <2> SUFFICES ASSUME NEW k \in 1..Len(x.buf) - n PROVE rest[k].k \in {"text", "open", "close"}
    BY <1>6 DEF Plain
  <2>1. n + k \in 1..Len(x.buf) /\ rest[k] = x.buf[n + k]
    BY <1>1, <1>2, <1>6
  <2> QED BY <1>8, <2>1
<1>11. Quiet(P, x, y)
  BY <1>1, <1>6, <1>s, ThoughtQuiet DEF y
<1>12. y \in Writing(P) /\ Hears(h, y.out, t) /\ y.inside = TRUE
  BY <1>1, <1>4, <1>11 DEF Quiet, Same
<1>13. z.out = y.out /\ z.buf = rest /\ z.inside = TRUE
  BY <1>12 DEF z, Writing
<1>14. v.out = x.out /\ v.buf = rest /\ v.inside = TRUE
  BY <1>1 DEF v, Writing
<1>15. Owes(h, z, r)
  BY <1>7, <1>9, <1>12, <1>13 DEF Owes
<1>16. Owes(h, v, r)
  BY <1>4, <1>7, <1>9, <1>14 DEF Owes
<1> QED BY <1>3, <1>10, <1>13, <1>14, <1>15, <1>16

\* The end of the text ends the thought.
LEMMA EndThoughtPays ==
  ASSUME NEW P, NEW h \in Seq(P), NEW x \in Writers(P), NEW o \in Option, Plain(x.buf), x.inside,
         Tags(x, "close") = {}, NEW r, Owes(h, x, r)
  PROVE  LET z == SendThought(x, o, TRUE) IN Pays(h, z, r.text)
<1> DEFINE n    == Safe(x, HoldThinking, TRUE)
           text == SubSeq(x.buf, 1, n)
           rest == From(x.buf, n + 1)
           y == IF text = <<>> THEN x ELSE LastThought(x, o, text)
           z == [y EXCEPT !.buf = rest, !.inside = FALSE, !.drop = FALSE, !.started = FALSE]
<1>1. /\ x.buf \in Seq(P) /\ x.inside = TRUE /\ Len(x.buf) \in Nat /\ x \in Writing(P)
      /\ x.out \in Seq(Events(P)) /\ DOMAIN x.buf = 1..Len(x.buf)
  BY LenProperties, WritersWrite DEF Writers
<1>2. n \in 0..Len(x.buf) /\ n = Len(x.buf)
  BY <1>1, SafeCut
<1>3. z = SendThought(x, o, TRUE)
  BY DEF SendThought
<1> HIDE DEF n
<1>4. PICK t : Hears(h, x.out, t) /\ ReadOn([inside |-> TRUE, text |-> t], x.buf) = r
  BY <1>1 DEF Owes
<1>5. t \in Seq(P) /\ [inside |-> TRUE, text |-> t] \in Readings(P)
  BY <1>1, <1>4, HearsType DEF Readings
<1>6. text \in Seq(P) /\ rest = <<>>
  <2>a. x.buf \in Seq(P)
    BY <1>1
  <2>b. n \in 0..Len(x.buf)
    BY <1>2
  <2>1. text \in Seq(P)
    BY <2>a, <2>b, CutFront, ZenonT(60)
  <2>3. rest \in Seq(P) /\ Len(rest) = Len(x.buf) - n
    BY <2>a, <2>b, CutRest, ZenonT(60)
  <2>2. Len(rest) = 0
    BY <1>1, <1>2, <2>3
  <2> QED BY <2>1, <2>2, <2>3, EmptySeq
<1> HIDE DEF text, rest, z
<1>7. r = [inside |-> TRUE, text |-> t]
  <2> DEFINE a == [inside |-> TRUE, text |-> t]
  <2>1. a.inside /\ a \in Readings(P)
    BY <1>5
  <2> HIDE DEF a
  <2>2. \A k \in 1..Len(x.buf) : x.buf[k].k \in {"text", "open"}
    BY <1>1 DEF Plain, Tags
  <2>3. ReadOn(a, x.buf) = a
    BY <1>1, <2>1, <2>2, ReadThought
  <2> QED BY <1>4, <2>3 DEF a
<1>8. Quiet(P, x, y)
  <2>1. Quiet(P, x, x)
    BY <1>1, QuietSelf
  <2>2. Quiet(P, x, LastThought(x, o, text))
    BY <1>1, <1>6, LastThoughtQuiet
  <2> QED BY <2>1, <2>2
<1> HIDE DEF y
<1>9. y \in Writing(P) /\ Hears(h, y.out, t)
  BY <1>4, <1>8 DEF Quiet
<1>10. z.out = y.out /\ z.buf = <<>> /\ z.inside = FALSE
  BY <1>6, <1>9 DEF z, Writing
<1> QED BY <1>3, <1>7, <1>9, <1>10 DEF Pays

\* A round of the loop leaves what is owed as it is; the last of a forced loop
\* pays it.
LEMMA ScanOwes ==
  ASSUME NEW P, NEW h \in Seq(P), NEW x \in Writers(P), NEW o \in Option, Plain(x.buf),
         NEW force \in BOOLEAN, NEW r, Owes(h, x, r)
  PROVE  LET z == Scan(x, o, force)
         IN  /\ TagFound(x) \/ ~force => Owes(h, z, r) /\ Plain(z.buf)
             /\ ~TagFound(x) /\ force => Pays(h, z, r.text)
<1>1. x.inside \in BOOLEAN
  BY DEF Writers
<1>2. CASE TagFound(x) /\ ~x.inside
  <2>1. Scan(x, o, force) = OpenTag(x, o) /\ Tags(x, "open") # {}
    BY <1>2 DEF Scan, TagFound
  <2> QED BY <1>2, <2>1, OpenTagOwes
<1>3. CASE TagFound(x) /\ x.inside
  <2>1. Scan(x, o, force) = CloseTag(x, o) /\ Tags(x, "close") # {}
    BY <1>3 DEF Scan, TagFound
  <2> QED BY <1>3, <2>1, CloseTagOwes
<1>4. CASE ~TagFound(x) /\ ~x.inside
  <2>1. Scan(x, o, force) = SendAnswer(x, o, force) /\ Tags(x, "open") = {}
    BY <1>4 DEF Scan, TagFound
  <2> QED BY <1>4, <2>1, AnswerOwes
<1>5. CASE ~TagFound(x) /\ x.inside
  <2>1. Scan(x, o, force) = SendThought(x, o, force) /\ Tags(x, "close") = {}
    BY <1>5 DEF Scan, TagFound
  <2>2. CASE force
    <3>1. force = TRUE
      BY <2>2
    <3> QED BY <1>5, <2>1, <3>1, EndThoughtPays
  <2>3. CASE ~force
    <3>1. force = FALSE
      BY <2>3
    <3> QED BY <1>5, <2>1, <3>1, ThoughtOwes
  <2> QED BY <2>2, <2>3
<1> QED BY <1>1, <1>2, <1>3, <1>4, <1>5

\* Text is owed from when it comes.
LEMMA BufferOwes ==
  ASSUME NEW P, NEW h \in Seq(P), NEW x \in Writers(P), NEW o \in Option, NEW text \in Seq(P),
         Plain(x.buf), Plain(text), NEW r, Owes(h, x, r)
  PROVE  LET z == BufferText(x, o, text) IN Owes(h, z, ReadOn(r, text)) /\ Plain(z.buf)
<1> DEFINE u == sendText(x, o, <<>>, 3)
           v == [u EXCEPT !.eventOpen = FALSE, !.started = FALSE]
           y == IF x.eventOpen THEN v ELSE x
           z == [y EXCEPT !.buf = @ \o text]
<1>1. /\ x.buf \in Seq(P) /\ x.inside \in BOOLEAN /\ x \in Writing(P) /\ x.out \in Seq(Events(P))
  BY WritersWrite DEF Writers
<1>2. BufferText(x, o, text) = z
  BY DEF BufferText
<1>3. Quiet(P, x, u)
  <2>1. <<>> \in Seq(P) /\ 3 \in 1..3
    BY EmptySeq
  <2> QED BY <1>1, <2>1, ThoughtQuiet
<1> HIDE DEF u
<1>4. v \in Writing(P) /\ v.out = u.out /\ v.buf = u.buf /\ v.inside = u.inside
  BY <1>3 DEF Quiet, Writing
<1> HIDE DEF v
<1>5. PICK t : Hears(h, x.out, t) /\ ReadOn([inside |-> x.inside, text |-> t], x.buf) = r
  BY DEF Owes
<1>6. t \in Seq(P) /\ [inside |-> x.inside, text |-> t] \in Readings(P)
  BY <1>1, <1>5, HearsType DEF Readings
<1>7. y \in Writing(P) /\ Hears(h, y.out, t) /\ y.buf = x.buf /\ y.inside = x.inside
  BY <1>1, <1>3, <1>4, <1>5 DEF Quiet, Same
<1> HIDE DEF y
<1>8. x.buf \o text \in Seq(P)
  BY <1>1, ConcatProperties
<1>9. z.out = y.out /\ z.buf = x.buf \o text /\ z.inside = x.inside
  BY <1>7 DEF Writing
<1> HIDE DEF z
<1>10. ReadOn([inside |-> x.inside, text |-> t], x.buf \o text) = ReadOn(r, text)
  BY <1>1, <1>5, <1>6, ReadConcat
<1>11. Plain(x.buf \o text)
  <2>1. Len(x.buf) \in Nat /\ Len(text) \in Nat /\ Len(x.buf \o text) = Len(x.buf) + Len(text)
    BY <1>1, LenProperties, ConcatProperties
  <2> SUFFICES ASSUME NEW i \in 1..Len(x.buf) + Len(text)
               PROVE  (x.buf \o text)[i].k \in {"text", "open", "close"}
    BY <2>1 DEF Plain
  <2>2. (x.buf \o text)[i] = IF i <= Len(x.buf) THEN x.buf[i] ELSE text[i - Len(x.buf)]
    BY <1>1, ConcatProperties
  <2>3. CASE i <= Len(x.buf)
    <3>1. i \in 1..Len(x.buf)
      BY <2>1, <2>3
    <3> QED BY <2>2, <2>3, <3>1 DEF Plain
  <2>4. CASE ~(i <= Len(x.buf))
    <3>1. i - Len(x.buf) \in 1..Len(text)
      BY <2>1, <2>4
    <3>2. text[i - Len(x.buf)].k \in {"text", "open", "close"}
      BY <3>1 DEF Plain
    <3> QED BY <2>2, <2>4, <3>2
  <2> QED BY <2>3, <2>4
<1>12. Owes(h, z, ReadOn(r, text))
  BY <1>7, <1>9, <1>10 DEF Owes
<1> QED BY <1>2, <1>9, <1>11, <1>12

\* A thought of its own event is no part of what is owed.
LEMMA ReasonOwes ==
  ASSUME NEW P, NEW h \in Seq(P), NEW x \in Writers(P), NEW o \in Option, NEW text \in Seq(P),
         Plain(x.buf), NEW r, Owes(h, x, r)
  PROVE  LET z == Reason(x, o, text) IN Owes(h, z, r) /\ Plain(z.buf)
<1>1. CASE ~o.thinking \/ ~allowReasoningSource(x)
  BY <1>1 DEF Reason
<1>2. CASE o.thinking /\ allowReasoningSource(x)
  <2> DEFINE state == IF x.started THEN 2 ELSE 1
             y == sendText(x, o, text, state)
             z == [y EXCEPT !.source = "event", !.started = TRUE, !.eventOpen = @ \/ ~x.started]
  <2>1. state \in 1..3 /\ x \in Writing(P)
    BY WritersWrite
  <2>2. Reason(x, o, text) = z
    BY <1>2 DEF Reason
  <2> HIDE DEF state
  <2>3. Quiet(P, x, y)
    BY <2>1, ThoughtQuiet
  <2>4. Owes(h, y, r) /\ y.buf = x.buf /\ y \in Writing(P)
    BY <2>3, QuietOwes DEF Quiet, Same
  <2> HIDE DEF y
  <2>5. z.out = y.out /\ z.buf = y.buf /\ z.inside = y.inside
    BY <2>4 DEF Writing
  <2> HIDE DEF z
  <2>6. Owes(h, z, r)
    BY <2>4, <2>5, OwesToo
  <2> QED BY <2>2, <2>4, <2>5, <2>6
<1> QED BY <1>1, <1>2

\* A tool call is owed when the answer before it is paid, and paid at once.
LEMMA ToolOwes ==
  ASSUME NEW P, NEW h \in Seq(P), NEW x \in Writers(P), NEW r \in Readings(P), NEW p \in P,
         p.k = "tool", Pays(h, x, r.text)
  PROVE  LET z == ToolUse(x, <<p>>) IN Owes(h, z, ReadPiece(r, p)) /\ Plain(z.buf)
<1> DEFINE z == ToolUse(x, <<p>>)
<1>1. x \in Writing(P) /\ <<p>> \in Seq(P) /\ r.text \in Seq(P) /\ <<>> \in Seq(P)
  BY WritersWrite DEF Readings
<1>2. Says(P, x, z, <<p>>)
  BY <1>1, ToolSays
<1> HIDE DEF z
<1>3. Hears(h, z.out, r.text \o <<p>>) /\ z.buf = <<>> /\ z.inside = FALSE
  BY <1>2 DEF Says, Same, Pays, Writing
<1>4. r.text \o <<p>> = Append(r.text, p)
  BY <1>1, AppendIsConcat
<1>5. ReadPiece(r, p) = [inside |-> FALSE, text |-> Append(r.text, p)]
  BY DEF ReadPiece
<1>6. ReadPiece(r, p) \in Readings(P)
  BY ReadPieceType
<1>7. ReadOn(ReadPiece(r, p), <<>>) = ReadPiece(r, p)
  BY <1>6, ReadNothing
<1>8. Hears(h, z.out, Append(r.text, p))
  BY <1>3, <1>4
<1>9. Owes(h, z, ReadPiece(r, p))
  BY <1>3, <1>5, <1>7, <1>8 DEF Owes
<1>10. Plain(z.buf)
  BY <1>3, EmptySeq DEF Plain
<1> QED BY <1>9, <1>10 DEF z

\* A quiet step leaves what is paid paid.
LEMMA QuietPays ==
  ASSUME NEW P, NEW h \in Seq(P), NEW x, NEW y, Quiet(P, x, y), NEW text, Pays(h, x, text)
  PROVE  Pays(h, y, text)
BY DEF Pays, Quiet, Same

-----------------------------------------------------------------------------
(* The whole answer, once and in order.                                    *)

\* The answer in what the stream has said.
Reply == ReadOn(Unread, said)

Owing == {"call", "stream", "text", "whole", "failed", "flush", "cut"}

\* What the stream has said is what the client has heard, what is queued for it
\* and what is held back; a tool call that waits for the text before it comes
\* after those.
Told ==
  /\ pc \in Owing => Owes(heard, w, Reply) /\ Plain(w.buf)
  /\ pc \in {"tool", "lastTool"} =>
       /\ Plain(w.buf) /\ said[Len(said)].k = "tool"
       /\ \E r \in Readings(Mine(Attempt)) :
            Owes(heard, w, r) /\ Reply = ReadPiece(r, said[Len(said)])
  /\ pc = "bill" \/ (pc = "done" /\ result # "fallback") => Hears(heard, w.out, Reply.text)

\* A reading begins with nothing.
LEMMA UnreadType ==
  ASSUME NEW P
  PROVE  Unread \in Readings(P) /\ ReadOn(Unread, <<>>) = Unread
<1>1. Unread \in Readings(P)
  BY EmptySeq DEF Unread, Readings
<1> QED BY <1>1, ReadNothing

\* The types the steps below need.
LEMMA ToldTypes ==
  ASSUME Inv
  PROVE  /\ heard \in Seq(Mine(Attempt)) /\ said \in Seq(Mine(Attempt)) /\ opt \in Option
         /\ w \in Writers(Mine(Attempt)) /\ Reply \in Readings(Mine(Attempt))
<1>1. /\ heard \in Seq(Mine(Attempt)) /\ said \in Seq(Mine(Attempt)) /\ opt \in Option
      /\ w \in Writers(Mine(Attempt))
  BY DEF Inv, HandlerOK, ReplyOK, Right
<1>2. Reply \in Readings(Mine(Attempt))
  BY <1>1, UnreadType, ReadOnType DEF Reply
<1> QED BY <1>1, <1>2

\* Where nothing was said nothing is owed.
LEMMA ToldAnew ==
  ASSUME Fresh', said' = <<>>, pc' \in Owing
  PROVE  Told'
<1>1. w'.out = <<>> /\ w'.buf = <<>> /\ w'.inside = FALSE /\ heard' = <<>>
  BY DEF Fresh, NewWriter, Unheard
<1>2. Reply' = Unread /\ ReadOn(Unread, <<>>) = Unread
  BY UnreadType DEF Reply
<1>3. Hears(<<>>, <<>>, <<>>)
  BY HearsNothing
<1>4. Owes(heard', w', Reply')
  BY <1>1, <1>2, <1>3 DEF Owes, Unread
<1>5. Plain(w'.buf)
  BY <1>1, EmptySeq DEF Plain
<1> QED BY <1>4, <1>5 DEF Told, Owing

\* A step to where the next attempt begins, or away from the request.
LEMMA ToldLeft ==
  ASSUME Inv', pc' \in {"pick", "token", "call"} \/ (pc' = "done" /\ result' = "fallback")
                 \/ (pc' = "stream" /\ ~stream'.content)
  PROVE  Told'
<1>1. CASE pc' \in {"pick", "token"} \/ (pc' = "done" /\ result' = "fallback")
  BY <1>1 DEF Told, Owing
<1>2. CASE pc' = "call" \/ (pc' = "stream" /\ ~stream'.content)
  <2>1. Fresh' /\ said' = <<>> /\ pc' \in Owing
    BY <1>2 DEF Inv, PlaceOK, Owing
  <2> QED BY <2>1, ToldAnew
<1> QED BY <1>1, <1>2

\* Nothing changes where nothing is said, written or read.
LEMMA ToldKept ==
  ASSUME Told, UNCHANGED <<w, heard, said>>, pc \in Owing, pc' \in Owing
  PROVE  Told'
BY DEF Told, Reply, Owing

\* What a frame adds to the reply it adds to what is owed.
LEMMA UpstreamTold ==
  ASSUME Inv, Inv', Told, Upstream
  PROVE  Told'
<1> DEFINE P == Mine(Attempt)
           p == Piece("tool", 1)
<1>1. heard \in Seq(P) /\ said \in Seq(P) /\ opt \in Option /\ w \in Writers(P) /\ Reply \in Readings(P)
  BY ToldTypes
<1>2. pc = "stream" /\ UNCHANGED <<heard, retried, calls>>
  BY DEF Upstream, OnText, OnReasoning, handleToolUseEvent, OtherFrame, StreamEnds, StreamBreaks,
         Frame, At, payload, client
<1>3. Owes(heard, w, Reply) /\ Plain(w.buf)
  BY <1>2 DEF Told, Owing
<1>4. Unread \in Readings(P) /\ \A t \in Seq(P) : ReadOn(Unread, said \o t) = ReadOn(Reply, t)
  BY <1>1, UnreadType, ReadConcat DEF Reply
<1>5. \A q \in P : ReadOn(Unread, Append(said, q)) = ReadPiece(Reply, q)
  <2> SUFFICES ASSUME NEW q \in P PROVE ReadOn(Unread, Append(said, q)) = ReadPiece(Reply, q)
    OBVIOUS
  <2> HIDE DEF P
  <2> QED BY <1>1, <1>4, ReadOne DEF Reply
<1>6. p \in P /\ p.k = "tool" /\ Piece("think", 1) \in P /\ Piece("think", 1).k = "think"
  BY <1>1, PieceType DEF Piece
<1>7. ASSUME UNCHANGED <<w, said>>, pc' \in Owing PROVE Told'
  BY <1>2, <1>7, ToldKept DEF Owing
<1> HIDE DEF P, p
<1>8. ASSUME NEW c \in Chunk, OnText(c) PROVE Told'
  <2> DEFINE text == [i \in DOMAIN c |-> Piece(c[i], i)]
  <2>1. c \in Seq({"text", "open", "close"}) /\ DOMAIN c = 1..Len(c) /\ Len(c) \in Nat
    BY StreamAssumption
  <2>2. \A i \in 1..Len(c) : Piece(c[i], i) \in P
    <3> TAKE i \in 1..Len(c)
    <3>1. c[i] \in {"text", "open", "close", "think", "tool"} /\ i \in Nat
      BY <2>1
    <3> QED BY <1>1, <3>1, PieceType DEF P
  <2>3. text \in Seq(P) /\ Len(text) = Len(c)
    BY <2>1, <2>2
  <2>4. Plain(text)
    <3> SUFFICES ASSUME NEW i \in 1..Len(c) PROVE text[i].k \in {"text", "open", "close"}
      BY <2>3 DEF Plain
    <3>1. text[i] = Piece(c[i], i) /\ c[i] \in {"text", "open", "close"}
      BY <2>1
    <3> QED BY <3>1 DEF Piece
  <2>5. w' = BufferText(w, opt, text) /\ pc' = "text" /\ said' = said \o text
    BY <1>8 DEF OnText
  <2> HIDE DEF text
  <2>6. Owes(heard, w', ReadOn(Reply, text)) /\ Plain(w'.buf)
    BY <1>1, <1>3, <2>3, <2>4, <2>5, BufferOwes
  <2>7. Reply' = ReadOn(Reply, text)
    BY <1>4, <2>3, <2>5 DEF Reply
  <2> QED BY <1>2, <2>5, <2>6, <2>7 DEF Told
<1>9. CASE OnReasoning
  <2> DEFINE q == Piece("think", 1)
  <2>1. w' = Reason(w, opt, <<q>>) /\ pc' = "stream" /\ said' = said \o <<q>>
    BY <1>2, <1>9 DEF OnReasoning
  <2>2. q \in P /\ q.k = "think"
    BY <1>6
  <2> HIDE DEF q
  <2>3. <<q>> \in Seq(P) /\ said \o <<q>> = Append(said, q)
    BY <1>1, <2>2, AppendIsConcat
  <2>4. \A t \in Seq(P) : Owes(heard, Reason(w, opt, t), Reply) /\ Plain(Reason(w, opt, t).buf)
    BY <1>1, <1>3, ReasonOwes
  <2>5. Owes(heard, w', Reply) /\ Plain(w'.buf)
    BY <2>1, <2>3, <2>4, Zenon
  <2>6. ReadOn(Unread, Append(said, q)) = Reply
    <3>1. ReadOn(Unread, Append(said, q)) = ReadPiece(Reply, q)
      BY <1>5, <2>2
    <3>2. ReadPiece(Reply, q) = Reply
      BY <2>2 DEF ReadPiece
    <3> QED BY <3>1, <3>2
  <2>7. Reply' = Reply
    BY <2>1, <2>3, <2>6 DEF Reply
  <2> QED BY <1>2, <2>1, <2>5, <2>7 DEF Told
<1>10. ASSUME said' = Append(said, p), w' = BufferText(w, opt, <<>>), pc' \in {"tool", "lastTool"},
              call'.account = call.account
       PROVE  Told'
  <2>1. <<>> \in Seq(P) /\ Plain(<<>>) /\ ReadOn(Reply, <<>>) = Reply
    BY <1>1, EmptySeq, ReadNothing DEF Plain
  <2>2. Owes(heard, w', Reply) /\ Plain(w'.buf)
    <3>1. \A t \in Seq(P) : Plain(t) =>
             Owes(heard, BufferText(w, opt, t), ReadOn(Reply, t)) /\ Plain(BufferText(w, opt, t).buf)
      BY <1>1, <1>3, BufferOwes
    <3>2. Owes(heard, BufferText(w, opt, <<>>), ReadOn(Reply, <<>>)) /\ Plain(BufferText(w, opt, <<>>).buf)
      BY <2>1, <3>1
    <3> QED BY <1>10, <2>1, <3>2
  <2>3. said'[Len(said')] = p
    BY <1>1, <1>6, <1>10, AppendProperties
  <2>4. Reply' = ReadPiece(Reply, p)
    BY <1>5, <1>6, <1>10 DEF Reply
  <2>5. Mine(Attempt)' = P
    BY <1>2, <1>10 DEF P, Attempt
  <2> QED BY <1>1, <1>2, <1>6, <1>10, <2>2, <2>3, <2>4, <2>5 DEF Told, Owing
<1>11. CASE handleToolUseEvent
  <2>1. \/ UNCHANGED <<pc, said, w>>
        \/ /\ said' = Append(said, p) /\ w' = BufferText(w, opt, <<>>) /\ pc' = "tool" /\ call' = call
    BY <1>11 DEF handleToolUseEvent, p
  <2> QED BY <1>2, <1>7, <1>10, <2>1 DEF Owing
<1>12. CASE OtherFrame
  BY <1>2, <1>7, <1>12 DEF OtherFrame, Owing
<1>13. CASE StreamEnds
  <2>1. \/ pc' = "call"
        \/ said' = Append(said, p) /\ w' = BufferText(w, opt, <<>>) /\ pc' = "lastTool" /\ call' = call
        \/ pc' = "whole" /\ UNCHANGED <<said, w>>
    BY <1>13 DEF StreamEnds, Again, p
  <2> QED BY <1>7, <1>10, <2>1, ToldLeft DEF Owing
<1>14. CASE StreamBreaks
  <2>1. pc' = "call" \/ (pc' = "failed" /\ UNCHANGED <<said, w>>)
    BY <1>14 DEF StreamBreaks, Again, Fails
  <2> QED BY <1>7, <2>1, ToldLeft DEF Owing
<1> QED BY <1>8, <1>9, <1>11, <1>12, <1>13, <1>14 DEF Upstream

\* What is read moves from the queue to what is heard.
LEMMA SendTold ==
  ASSUME Inv, Told, sendSSELocked
  PROVE  Told'
<1> DEFINE P  == Mine(Attempt)
           ev == Head(w.out)
<1>1. heard \in Seq(P) /\ said \in Seq(P) /\ w \in Writers(P) /\ w.out \in Seq(Events(P))
  <2>1. heard \in Seq(P) /\ said \in Seq(P) /\ w \in Writers(P)
    BY ToldTypes
  <2> QED BY <2>1 DEF Writers
<1>2. /\ w.out # <<>> /\ w' = [w EXCEPT !.out = Tail(@)]
      /\ heard' = IF ev.role \in {"answer", "tool"} THEN heard \o ev.text ELSE heard
      /\ UNCHANGED <<pc, said, call, calls, retried, result>>
  BY DEF sendSSELocked, upstream, payload
<1> HIDE DEF P
<1>3. heard' = heard \o Adds(ev)
  <2>1. heard \o <<>> = heard
    BY <1>1, ConcatEmptySeq
  <2> HIDE DEF ev
  <2> QED BY <1>2, <2>1 DEF Adds
<1>4. w'.out = Tail(w.out) /\ w'.buf = w.buf /\ w'.inside = w.inside
  BY <1>1, <1>2 DEF Writers
<1>5. \A t : Hears(heard, w.out, t) => Hears(heard', w'.out, t)
  BY <1>1, <1>2, <1>3, <1>4, HearsOn
<1>6. \A r : Owes(heard, w, r) => Owes(heard', w', r)
  BY <1>4, <1>5 DEF Owes
<1>7. Reply' = Reply /\ Mine(Attempt)' = Mine(Attempt)
  BY <1>2 DEF Reply, Attempt
<1> QED BY <1>2, <1>4, <1>5, <1>6, <1>7 DEF Told

\* A round of the loop pays some of what is owed, and the last all of it when
\* the text has ended.
LEMMA WriteTold ==
  ASSUME Inv, Told, processClaudeText
  PROVE  Told'
<1> DEFINE x == Scan(w, opt, Forced)
           P == Mine(Attempt)
           p == said[Len(said)]
<1>0. HandlerOK /\ ReplyOK /\ PlaceOK
  BY DEF Inv
<1>1. /\ pc \in {"text", "tool", "lastTool", "flush", "cut"}
      /\ UNCHANGED <<heard, said, call, calls, retried>>
  BY DEF processClaudeText, upstream, payload, client
<1>2. heard \in Seq(P) /\ said \in Seq(P) /\ opt \in Option /\ w \in Writers(P) /\ Reply \in Readings(P)
  BY ToldTypes
<1>3. Forced \in BOOLEAN /\ (Forced <=> pc # "text") /\ ~w.eventOpen /\ Right(P, Reader, opt, w)
  BY <1>0, <1>1 DEF Forced, ReplyOK, PlaceOK
<1>4. Right(P, Reader, opt, x)
  BY <1>2, <1>3, ScanRight
<1>5. x \in Writers(P) /\ x \in Writing(P)
  <2>1. x \in Writers(P)
    BY <1>4 DEF Right
  <2> QED BY <2>1, WritersWrite
<1>6. \A r : Owes(heard, w, r) /\ Plain(w.buf) =>
         /\ TagFound(w) \/ ~Forced => Owes(heard, x, r) /\ Plain(x.buf)
         /\ ~TagFound(w) /\ Forced => Pays(heard, x, r.text)
  BY <1>2, <1>3, ScanOwes
<1>7. \/ TagFound(w) /\ w' = x /\ pc' = pc
      \/ /\ ~TagFound(w)
         /\ \/ pc = "text" /\ w' = x /\ pc' = "stream"
            \/ /\ pc \in {"tool", "lastTool"} /\ w' = ToolUse(x, <<p>>)
               /\ pc' \in {"stream", "whole"}
            \/ pc = "flush" /\ w' = closeActiveBlock(x) /\ pc' = "bill"
            \/ pc = "cut" /\ w' = EndMessage(closeActiveBlock(x)) /\ pc' = "done"
  BY <1>1 DEF processClaudeText
<1>8. Reply' = Reply /\ said' = said /\ heard' = heard /\ Mine(Attempt)' = P
  BY <1>1 DEF Reply, Attempt
<1> HIDE DEF x, P, p
<1>9. CASE TagFound(w) /\ w' = x /\ pc' = pc
  <2>1. CASE pc \in Owing
    <3>1. Owes(heard, w', Reply) /\ Plain(w'.buf)
      BY <1>6, <1>9, <2>1 DEF Told
    <3> QED BY <1>8, <1>9, <2>1, <3>1 DEF Told, Owing
  <2>2. CASE pc \in {"tool", "lastTool"}
    <3>1. p.k = "tool" /\ Plain(w.buf)
      BY <2>2 DEF Told, p
    <3>2. PICK r \in Readings(P) : Owes(heard, w, r) /\ Reply = ReadPiece(r, p)
      BY <2>2 DEF Told, p, P
    <3>3. Owes(heard, w', r) /\ Plain(w'.buf)
      BY <1>6, <1>9, <3>1, <3>2
    <3> QED BY <1>8, <1>9, <2>2, <3>1, <3>2, <3>3 DEF Told, Owing, p
  <2> QED BY <1>1, <2>1, <2>2 DEF Owing
<1>10. CASE ~TagFound(w) /\ pc = "text" /\ w' = x /\ pc' = "stream"
  <2>1. Owes(heard, w', Reply) /\ Plain(w'.buf)
    BY <1>3, <1>6, <1>10 DEF Told, Owing
  <2> QED BY <1>8, <1>10, <2>1 DEF Told
<1>11. CASE ~TagFound(w) /\ pc \in {"tool", "lastTool"} /\ w' = ToolUse(x, <<p>>) /\ pc' \in {"stream", "whole"}
  <2>1. p.k = "tool" /\ Plain(w.buf)
    BY <1>11 DEF Told, p
  <2>2. PICK r \in Readings(P) : Owes(heard, w, r) /\ Reply = ReadPiece(r, p)
    BY <1>11 DEF Told, p, P
  <2>3. Pays(heard, x, r.text)
    BY <1>3, <1>6, <1>11, <2>1, <2>2
  <2>4. p \in P
    <3>1. said # <<>>
      BY <1>0, <1>11 DEF PlaceOK
    <3> QED BY <1>2, <3>1 DEF p
  <2>5. \A q \in P : q.k = "tool" =>
           LET z == ToolUse(x, <<q>>) IN Owes(heard, z, ReadPiece(r, q)) /\ Plain(z.buf)
    BY <1>2, <1>5, <2>3, ToolOwes
  <2>6. Owes(heard, w', Reply) /\ Plain(w'.buf)
    BY <1>11, <2>1, <2>2, <2>4, <2>5, Zenon
  <2> QED BY <1>8, <1>11, <2>6 DEF Told, Owing
<1>12. ASSUME ~TagFound(w), pc \in {"flush", "cut"}, NEW y, y = closeActiveBlock(x)
       PROVE  y \in Writing(P) /\ Hears(heard, y.out, Reply.text)
  <2>1. Owes(heard, w, Reply) /\ Plain(w.buf)
    BY <1>12 DEF Told, Owing
  <2>2. Pays(heard, x, Reply.text)
    BY <1>3, <1>6, <1>12, <2>1
  <2>3. Quiet(P, x, y)
    BY <1>5, <1>12, CloseQuiet
  <2>4. Pays(heard, y, Reply.text)
    BY <1>2, <2>2, <2>3, QuietPays
  <2> QED BY <2>3, <2>4 DEF Pays, Quiet
<1>13. CASE ~TagFound(w) /\ pc = "flush" /\ w' = closeActiveBlock(x) /\ pc' = "bill"
  <2>1. Hears(heard, w'.out, Reply.text)
    BY <1>12, <1>13
  <2> QED BY <1>8, <1>13, <2>1 DEF Told, Owing
<1>14. CASE ~TagFound(w) /\ pc = "cut" /\ w' = EndMessage(closeActiveBlock(x)) /\ pc' = "done"
  <2>1. PICK y : y = closeActiveBlock(x)
    OBVIOUS
  <2>2. y \in Writing(P) /\ Hears(heard, y.out, Reply.text)
    BY <1>12, <1>14, <2>1
  <2>3. Quiet(P, y, w')
    BY <1>14, <2>1, <2>2, EndQuiet
  <2>4. Hears(heard, w'.out, Reply.text)
    BY <1>2, <2>2, <2>3 DEF Quiet
  <2> QED BY <1>8, <1>14, <2>4 DEF Told, Owing
<1> QED BY <1>7, <1>9, <1>10, <1>11, <1>13, <1>14

\* After the call what is owed is paid, or nothing is.
LEMMA AfterTold ==
  ASSUME Inv, Inv', Told,
         RetryWithoutEffort \/ AccountFails \/ EmptyReply \/ Flush \/ recordSuccessForApiKey
  PROVE  Told'
<1> DEFINE P == Mine(Attempt)
<1>1. heard \in Seq(P) /\ said \in Seq(P) /\ opt \in Option /\ w \in Writers(P) /\ Reply \in Readings(P)
  BY ToldTypes
<1> HIDE DEF P
<1>2. ASSUME pc \in Owing, pc' \in {"cut", "flush"}, w' = BufferText(w, opt, <<>>), UNCHANGED <<heard, said>>
      PROVE  Told'
  <2>1. <<>> \in Seq(P) /\ Plain(<<>>) /\ ReadOn(Reply, <<>>) = Reply
    BY <1>1, EmptySeq, ReadNothing DEF Plain
  <2>2. Owes(heard, w, Reply) /\ Plain(w.buf)
    BY <1>2 DEF Told
  <2>3. \A t \in Seq(P) : Plain(t) =>
           Owes(heard, BufferText(w, opt, t), ReadOn(Reply, t)) /\ Plain(BufferText(w, opt, t).buf)
    BY <1>1, <2>2, BufferOwes
  <2>4. Owes(heard, BufferText(w, opt, <<>>), ReadOn(Reply, <<>>)) /\ Plain(BufferText(w, opt, <<>>).buf)
    BY <2>1, <2>3
  <2>5. Owes(heard, w', Reply) /\ Plain(w'.buf)
    BY <1>2, <2>1, <2>4
  <2>6. Reply' = Reply /\ heard' = heard
    BY <1>2 DEF Reply
  <2> QED BY <1>2, <2>5, <2>6 DEF Told
<1>3. CASE RetryWithoutEffort
  BY <1>3, ToldLeft DEF RetryWithoutEffort, StartCall
<1>4. CASE AccountFails
  <2>1. pc = "failed" /\ UNCHANGED <<heard, said>>
    BY <1>4 DEF AccountFails, At, upstream, client
  <2>2. pc' = "pick" \/ (pc' = "cut" /\ w' = BufferText(w, opt, <<>>))
    BY <1>4 DEF AccountFails
  <2> QED BY <1>2, <2>1, <2>2, ToldLeft DEF Owing
<1>5. CASE EmptyReply
  BY <1>5, ToldLeft DEF EmptyReply
<1>6. CASE Flush
  BY <1>2, <1>6 DEF Flush, At, upstream, client, Owing
<1>7. CASE recordSuccessForApiKey
  <2>1. pc = "bill" /\ pc' = "done" /\ w' = EndMessage(w) /\ UNCHANGED <<heard, said>>
    BY <1>7 DEF recordSuccessForApiKey, At, upstream, client
  <2>2. Quiet(P, w, w')
    BY <1>1, <2>1, EndQuiet, WritersWrite
  <2>3. Hears(heard, w'.out, Reply.text)
    BY <1>1, <2>1, <2>2 DEF Told, Quiet
  <2>4. Reply' = Reply
    BY <2>1 DEF Reply
  <2> QED BY <2>1, <2>3, <2>4 DEF Told, Owing
<1> QED BY <1>3, <1>4, <1>5, <1>6, <1>7

\* Every step leaves the books balanced.
LEMMA ToldStep == Inv /\ Inv' /\ Told /\ [Next]_vars => Told'
<1> SUFFICES ASSUME Inv, Inv', Told, [Next]_vars PROVE Told'
  OBVIOUS
<1>1. CASE GetNextForModelExcluding \/ GiveUp \/ ensureValidToken
  BY <1>1, ToldLeft DEF GetNextForModelExcluding, GiveUp, ensureValidToken, StartCall
<1>2. CASE CallKiroAPI
  <2>1. CASE Refused \/ reresolveAccountProfileArn \/ shrinkPayload
    <3>1. pc' = "call"
      BY <2>1 DEF Refused, reresolveAccountProfileArn, shrinkPayload, Request, At
    <3> QED BY <3>1, ToldLeft
  <2>2. CASE Denied \/ AllFailed
    <3>1. pc = "call" /\ pc' = "failed" /\ UNCHANGED <<w, heard, said>>
      BY <2>2 DEF Denied, AllFailed, Request, At, upstream, client
    <3> QED BY <3>1, ToldKept DEF Owing
  <2>3. CASE StartStream
    <3>1. pc' = "stream" /\ ~stream'.content
      BY <2>3 DEF StartStream, NewStream
    <3> QED BY <3>1, ToldLeft
  <2> QED BY <1>2, <2>1, <2>2, <2>3 DEF CallKiroAPI
<1>3. CASE processClaudeText
  BY <1>3, WriteTold
<1>4. CASE sendSSELocked
  BY <1>4, SendTold
<1>5. CASE RetryWithoutEffort \/ AccountFails \/ EmptyReply \/ Flush \/ recordSuccessForApiKey
  BY <1>5, AfterTold
<1>6. CASE Upstream
  BY <1>6, UpstreamTold
<1>7. CASE Beat \/ Stall
  <2>1. pc = "stream" /\ pc' \in {"stream", "failed"} /\ UNCHANGED <<w, heard, said>>
    BY <1>7 DEF Beat, Stall, At, client
  <2> QED BY <2>1, ToldKept DEF Owing
<1>8. CASE UNCHANGED vars
  BY <1>8 DEF vars, upstream, payload, client, Told, Reply, Attempt
<1> QED BY <1>1, <1>2, <1>3, <1>4, <1>5, <1>6, <1>7, <1>8 DEF Next, handleClaudeStream, Done

\* A client whose message has ended, with everything queued for it read, has
\* heard the answer the upstream gave, whole, in order and once: whichever frames
\* it came in, wherever a tag or a tool call cut it, whatever was held back, and
\* after however many attempts; and the message was billed once if the upstream
\* ended it and not at all if it broke off.
THEOREM ReplyExact == Spec => []ReplyIsExact
<1>1. Init => Told
  BY DEF Init, Told, Owing
<1>2. Inv /\ Told /\ Billing => ReplyIsExact
  <2> SUFFICES ASSUME Inv, Told, Billing, pc = "done", w.out = <<>>, result \in {"served", "interrupted"}
               PROVE  heard = AnswerOf(said) /\ billed = IF result = "served" THEN 1 ELSE 0
    BY DEF ReplyIsExact
  <2>1. Hears(heard, <<>>, Reply.text)
    BY DEF Told
  <2>2. heard = Reply.text
    BY <2>1, HearsNothing
  <2> QED BY <2>2 DEF Billing, AnswerOf, Reply
<1> QED BY <1>1, <1>2, InvInit, InvStep, ToldStep, BilledOnce, PTL DEF Spec
=============================================================================
