--------------------------- MODULE ConversionProofs ---------------------------
(***************************************************************************)
(* Theorems about the two conversions of a request between a client's      *)
(* format and a provider's: GrokStream, for any texts of the upstream cut  *)
(* into any deltas, any length that is held back and any number of events; *)
(* and Translator, for any conversation of any length in either format and *)
(* any limits of the payload.                                              *)
(***************************************************************************)
EXTENDS GrokStream, Translator, SequenceLemmas

-----------------------------------------------------------------------------
(* GrokStream: the writer's operators and what they change.                *)

Text == Seq(Symbol)
Part == {"text", "think"}
Kinds == {"text", "thinking", "tool"}
Writer == [text : Scrubber, think : Scrubber, best : Text, open : SUBSET Kinds,
           cur : BOOLEAN, calls : Seq(Seq(Nat)), overlap : BOOLEAN]

\* u is v with s for one of its scrubbers, and perhaps other blocks open.
Speaks(u, v, part, s) ==
  /\ u \in Writer
  /\ u.text = IF part = "text" THEN s ELSE v.text
  /\ u.think = IF part = "think" THEN s ELSE v.think
  /\ u.best = v.best /\ u.cur = v.cur /\ u.calls = v.calls

\* u is v but for the blocks that are open.
Alters(u, v) ==
  /\ u \in Writer
  /\ u.text = v.text /\ u.think = v.think /\ u.best = v.best
  /\ u.cur = v.cur /\ u.calls = v.calls

\* Blocks are opened for an Anthropic client only.
Opens(u, v, kind) ==
  IF style.format = "claude"
    THEN /\ u.open = v.open \cup {kind}
         /\ u.overlap = (v.overlap \/ (kind \notin v.open /\ v.open # {}))
    ELSE u.open = v.open /\ u.overlap = v.overlap

LEMMA OpenBlockIs ==
  ASSUME NEW v \in Writer, NEW kind \in Kinds
  PROVE  Alters(OpenBlock(v, kind), v) /\ Opens(OpenBlock(v, kind), v, kind)
<1>1. CASE style.format # "claude"
  BY <1>1 DEF OpenBlock, Alters, Opens, Writer
<1>2. CASE style.format = "claude" /\ kind \in v.open
  BY <1>2 DEF OpenBlock, Alters, Opens, Writer
<1>3. CASE style.format = "claude" /\ kind \notin v.open
  <2>4. PICK both \in BOOLEAN : both = (v.overlap \/ v.open # {})
    OBVIOUS
  <2> DEFINE open == v.open \cup {kind}
             u == [v EXCEPT !.open = open, !.overlap = both]
  <2>1. OpenBlock(v, kind) = u
    BY <1>3, <2>4, Zenon DEF OpenBlock
  <2>5. open \in SUBSET Kinds
    BY DEF Writer
  <2>2. /\ u \in Writer /\ u.text = v.text /\ u.think = v.think /\ u.best = v.best
        /\ u.cur = v.cur /\ u.calls = v.calls /\ u.open = open
        /\ u.overlap = both
    <3> HIDE DEF open
    <3> QED BY <2>5 DEF Writer
  <2> HIDE DEF u
  <2>6. u.overlap = (v.overlap \/ (kind \notin v.open /\ v.open # {}))
    <3>1. (v.overlap \/ v.open # {}) = (v.overlap \/ (kind \notin v.open /\ v.open # {}))
      BY <1>3
    <3> QED BY <2>2, <2>4, <3>1, Zenon
  <2> QED BY <1>3, <2>1, <2>2, <2>6 DEF Alters, Opens
<1> QED BY <1>1, <1>2, <1>3

LEMMA CloseBlockIs ==
  ASSUME NEW v \in Writer, NEW kind
  PROVE  /\ Alters(CloseBlock(v, kind), v)
         /\ CloseBlock(v, kind).open = v.open \ {kind}
         /\ CloseBlock(v, kind).overlap = v.overlap
  BY DEF CloseBlock, Alters, Writer

\* A new block of text closes the thinking, thinking just opens its block.
Aloud(u, v, part) ==
  IF style.format # "claude" THEN u.open \subseteq v.open /\ u.overlap = v.overlap
  ELSE IF part = "think" THEN Opens(u, v, "thinking")
  ELSE IF "text" \in v.open THEN u.open = v.open /\ u.overlap = v.overlap
  ELSE /\ u.open = (v.open \ {"thinking"}) \cup {"text"}
       /\ u.overlap = (v.overlap \/ v.open \ {"thinking"} # {})

LEMMA SendPartIs ==
  ASSUME NEW v \in Writer, NEW part \in Part, NEW s \in Scrubber
  PROVE  LET u == SendPart(v, part, s) IN
         /\ Speaks(u, v, part, s)
         /\ \/ s.heard = v[part].heard /\ u.open = v.open /\ u.overlap = v.overlap
            \/ Aloud(u, v, part)
<1> DEFINE u == SendPart(v, part, s)
<1>1. CASE s.heard = v[part].heard
  <2>1. CASE part = "text"
    BY <1>1, <2>1 DEF SendPart, Speaks, Writer
  <2>2. CASE part = "think"
    BY <1>1, <2>2 DEF SendPart, Speaks, Writer
  <2> QED BY <2>1, <2>2 DEF Part
<1>2. CASE s.heard # v[part].heard /\ part = "text"
  <2> DEFINE a == IF "text" \in v.open THEN v ELSE CloseBlock(v, "thinking")
             b == OpenBlock(a, "text")
  <2>1. u = [b EXCEPT !["text"] = s]
    BY <1>2 DEF SendPart
  <2>2. /\ Alters(a, v) /\ a.overlap = v.overlap
        /\ a.open = IF "text" \in v.open THEN v.open ELSE v.open \ {"thinking"}
    <3>1. CASE "text" \in v.open
      BY <3>1 DEF Alters
    <3>2. CASE "text" \notin v.open
      BY <3>2, CloseBlockIs
    <3> QED BY <3>1, <3>2
  <2>3. Alters(b, a) /\ Opens(b, a, "text")
    BY <2>2, OpenBlockIs DEF Alters, Kinds
  <2> HIDE DEF a, b, u
  <2>4. /\ u \in Writer /\ u.text = s /\ u.think = b.think /\ u.best = b.best /\ u.cur = b.cur
        /\ u.calls = b.calls /\ u.open = b.open /\ u.overlap = b.overlap
    BY <2>1, <2>3 DEF Alters, Writer
  <2>5. Speaks(u, v, part, s)
    BY <1>2, <2>2, <2>3, <2>4 DEF Alters, Speaks
  <2>6. Aloud(u, v, part)
    <3>1. u.open = b.open /\ u.overlap = b.overlap
      BY <2>4
    <3>2. CASE style.format # "claude"
      BY <1>2, <2>2, <2>3, <3>1, <3>2 DEF Aloud, Opens
    <3>3. CASE style.format = "claude" /\ "text" \in v.open
      <4>1. b.open = v.open \cup {"text"} /\ b.overlap = (a.overlap \/ ("text" \notin v.open /\ a.open # {}))
        BY <2>2, <2>3, <3>3 DEF Opens
      <4>2. b.overlap = v.overlap
        <5>1. ~("text" \notin v.open /\ a.open # {})
          BY <3>3
        <5> QED BY <2>2, <2>3, <4>1, <5>1 DEF Alters, Writer
      <4> QED BY <1>2, <3>1, <3>3, <4>1, <4>2 DEF Aloud
    <3>4. CASE style.format = "claude" /\ "text" \notin v.open
      <4>1. /\ b.open = (v.open \ {"thinking"}) \cup {"text"}
            /\ b.overlap = (a.overlap \/ ("text" \notin a.open /\ a.open # {}))
        BY <2>2, <2>3, <3>4 DEF Opens
      <4>2. a.overlap = v.overlap /\ a.open = v.open \ {"thinking"} /\ "text" \notin a.open
        BY <2>2, <3>4
      <4>3. b.overlap = (v.overlap \/ v.open \ {"thinking"} # {})
        <5>1. ("text" \notin a.open /\ a.open # {}) <=> v.open \ {"thinking"} # {}
          BY <4>2
        <5> QED BY <4>1, <4>2, <5>1, Zenon
      <4> QED BY <1>2, <3>1, <3>4, <4>1, <4>3 DEF Aloud
    <3> QED BY <3>2, <3>3, <3>4
  <2> QED BY <2>5, <2>6 DEF u
<1>3. CASE s.heard # v[part].heard /\ part = "think"
  <2> DEFINE b == OpenBlock(v, "thinking")
  <2>1. u = [b EXCEPT !["think"] = s]
    BY <1>3 DEF SendPart
  <2>2. Alters(b, v) /\ Opens(b, v, "thinking")
    BY OpenBlockIs DEF Kinds
  <2> HIDE DEF b, u
  <2>3. /\ u \in Writer /\ u.text = b.text /\ u.think = s /\ u.best = b.best /\ u.cur = b.cur
        /\ u.calls = b.calls /\ u.open = b.open /\ u.overlap = b.overlap
    BY <2>1, <2>2 DEF Alters, Writer
  <2>4. Speaks(u, v, part, s)
    BY <1>3, <2>2, <2>3 DEF Alters, Speaks
  <2>5. Aloud(u, v, part)
    BY <1>3, <2>2, <2>3 DEF Aloud, Opens
  <2> QED BY <2>4, <2>5 DEF u
<1> QED BY <1>1, <1>2, <1>3 DEF Part

-----------------------------------------------------------------------------
(* GrokStream: what renaming does to a text.                               *)

LEMMA TextAt ==
  ASSUME NEW t \in Text
  PROVE  /\ Len(t) \in Nat /\ DOMAIN t = 1..Len(t)
         /\ \A i \in 1..Len(t) : t[i] \in Symbol
  BY LenProperties, ElementOfSeq DEF Text

LEMMA TextPart ==
  ASSUME NEW t \in Text, NEW m \in Nat \ {0}, NEW n \in Nat, n <= Len(t)
  PROVE  /\ SubSeq(t, m, n) \in Text
         /\ Len(SubSeq(t, m, n)) = IF m <= n THEN n - m + 1 ELSE 0
         /\ \A i \in 1..n - m + 1 : SubSeq(t, m, n)[i] = t[m + i - 1]
<1>1. \A i \in m..n : t[i] \in Symbol
  BY TextAt
<1> QED BY <1>1, SubSeqProperties DEF Text

LEMMA TextPrefix ==
  ASSUME NEW t \in Text, NEW n \in 0..Len(t)
  PROVE  /\ SubSeq(t, 1, n) \in Text /\ Len(SubSeq(t, 1, n)) = n
         /\ \A i \in 1..n : SubSeq(t, 1, n)[i] = t[i]
<1>1. 1 \in Nat \ {0} /\ n \in Nat /\ n <= Len(t) /\ n - 1 + 1 = n
  BY TextAt
<1>2. /\ SubSeq(t, 1, n) \in Text
      /\ Len(SubSeq(t, 1, n)) = IF 1 <= n THEN n - 1 + 1 ELSE 0
      /\ \A i \in 1..n - 1 + 1 : SubSeq(t, 1, n)[i] = t[1 + i - 1]
  BY <1>1, TextPart
<1> QED BY <1>1, <1>2

LEMMA TextAppend ==
  ASSUME NEW t \in Text, NEW s \in Symbol
  PROVE  /\ Append(t, s) \in Text /\ Len(Append(t, s)) = Len(t) + 1
         /\ Append(t, s)[Len(t) + 1] = s
         /\ \A i \in 1..Len(t) : Append(t, s)[i] = t[i]
  BY AppendProperties DEF Text

\* The text ends in a name of two halves, with a space between them or not.
Ends(out, s) ==
  /\ s = "y"
  /\ \/ Len(out) >= 1 /\ out[Len(out)] = "x"
     \/ Len(out) >= 2 /\ out[Len(out)] = "sp" /\ out[Len(out) - 1] = "x"

\* A symbol is appended, or it completes a name and the text gets shorter.
LEMMA RenameIs ==
  ASSUME NEW out \in Text, NEW s \in Symbol
  PROVE  /\ Rename(out, s) \in Text
         /\ ~Ends(out, s) => Rename(out, s) = Append(out, s)
         /\ Ends(out, s) => /\ Len(Rename(out, s)) <= Len(out)
                            /\ \E n \in 0..Len(out) - 1 :
                                  Rename(out, s) = Append(SubSeq(out, 1, n), "c")
<1> DEFINE n == Len(out)
<1>1. n \in Nat /\ "c" \in Symbol
  BY TextAt DEF Symbol
<1>2. CASE s = "y" /\ n >= 1 /\ out[n] = "x"
  <2>1. /\ Rename(out, s) = Append(SubSeq(out, 1, n - 1), "c") /\ n - 1 \in 0..n - 1
        /\ Ends(out, s)
    BY <1>1, <1>2 DEF Rename, Front, Ends
  <2>2. SubSeq(out, 1, n - 1) \in Text /\ Len(SubSeq(out, 1, n - 1)) = n - 1
    <3>1. n - 1 \in 0..Len(out)
      BY <1>1, <1>2
    <3> QED BY <3>1, TextPrefix
  <2>3. Rename(out, s) \in Text /\ Len(Rename(out, s)) = n
    BY <1>1, <2>1, <2>2, TextAppend
  <2> QED BY <1>1, <2>1, <2>3
<1>3. CASE ~(s = "y" /\ n >= 1 /\ out[n] = "x") /\ s = "y" /\ n >= 2 /\ out[n] = "sp" /\ out[n - 1] = "x"
  <2>0. n - 2 \in 0..n - 1 /\ n - 2 \in 0..Len(out) /\ out[n] # "x" /\ n >= 1
    BY <1>1, <1>3
  <2>1. Rename(out, s) = Append(SubSeq(out, 1, n - 2), "c") /\ Ends(out, s)
    BY <1>3, <2>0 DEF Rename, Ends
  <2>2. SubSeq(out, 1, n - 2) \in Text /\ Len(SubSeq(out, 1, n - 2)) = n - 2
    BY <2>0, TextPrefix
  <2>3. Rename(out, s) \in Text /\ Len(Rename(out, s)) = n - 1
    BY <1>1, <2>1, <2>2, TextAppend
  <2> QED BY <1>1, <2>0, <2>1, <2>3
<1>4. CASE ~(s = "y" /\ n >= 1 /\ out[n] = "x") /\ ~(s = "y" /\ n >= 2 /\ out[n] = "sp" /\ out[n - 1] = "x")
  <2>1. Rename(out, s) = Append(out, s) /\ ~Ends(out, s)
    BY <1>4 DEF Rename, Ends
  <2> QED BY <2>1, TextAppend
<1> QED BY <1>2, <1>3, <1>4

\* How a renamed text is put together.
Renames(f, t) == f[0] = <<>> /\ \A n \in 1..Len(t) : f[n] = Rename(f[n - 1], t[n])

LEMMA RenamedSteps ==
  ASSUME NEW t \in Text
  PROVE  \E f \in [0..Len(t) -> Text] : Renames(f, t) /\ Renamed(t) = f[Len(t)]
<1> DEFINE N == Len(t)
           step == [n \in 1..N |-> [v \in Text |-> Rename(v, t[n])]]
           F(f) == [n \in 0..N |-> IF n = 0 THEN <<>> ELSE Rename(f[n - 1], t[n])]
           out == CHOOSE f : f = F(f)
<1>1. N \in Nat /\ \A n \in 1..N : t[n] \in Symbol
  BY TextAt
<1>2. step \in [1..N -> [Text -> Text]]
  <2>1. \A n \in 1..N, v \in Text : Rename(v, t[n]) \in Text
    BY <1>1, RenameIs
  <2> HIDE DEF N
  <2> QED BY <2>1
<1>3. <<>> \in Text
  BY EmptySeq DEF Text
<1>4. PICK f \in [0..N -> Text] : f[0] = <<>> /\ \A n \in 1..N : f[n] = step[n][f[n - 1]]
  <2> HIDE DEF step, N
  <2>1. \E f \in [0..N -> Text] : Follows(f, N, <<>>, step)
    BY <1>1, <1>2, <1>3, RecursionExists
  <2> QED BY <2>1 DEF Follows
<1>5. \A n \in 1..N : step[n][f[n - 1]] = Rename(f[n - 1], t[n])
  BY <1>1, <1>4
<1>6. f = F(f)
  <2> HIDE DEF step, N
  <2>1. ASSUME NEW n \in 0..N PROVE f[n] = F(f)[n]
    <3>1. CASE n = 0
      BY <1>1, <1>4, <3>1
    <3>2. CASE n # 0
      <4>1. n \in 1..N
        BY <1>1, <3>2
      <4> QED BY <1>4, <1>5, <3>2, <4>1
    <3> QED BY <3>1, <3>2
  <2>2. DOMAIN f = 0..N /\ f = [n \in 0..N |-> f[n]]
    BY <1>4
  <2> QED BY <2>1, <2>2
<1>7. out = F(out)
  BY <1>6
<1>8. Renamed(t) = out[N]
  BY DEF Renamed
<1> HIDE DEF out
<1>9. out[0] = <<>> /\ \A n \in 1..N : out[n] = Rename(out[n - 1], t[n])
  <2> HIDE DEF N
  <2>1. \A n \in 0..N : out[n] = F(out)[n]
    BY <1>7, Zenon
  <2>2. 0 \in 0..N /\ F(out)[0] = <<>>
    BY <1>1
  <2>3. \A n \in 1..N : n \in 0..N /\ F(out)[n] = Rename(out[n - 1], t[n])
    BY <1>1
  <2> QED BY <2>1, <2>2, <2>3, Zenon
<1>10. \A n \in 0..N : out[n] = f[n]
  <2> HIDE DEF N, step
  <2>1. Alike(out, f, N)
    BY <1>4, <1>5, <1>9 DEF Alike
  <2> QED BY <1>1, <2>1, RecursionAgrees
<1>11. Renames(f, t)
  BY <1>4, <1>5 DEF Renames
<1>12. Renamed(t) = f[N]
  BY <1>1, <1>8, <1>10
<1> QED BY <1>4, <1>11, <1>12

\* No name in a text, up to a place.
PlainUpTo(t, n) == \A i \in 1..n : ~Ends(SubSeq(t, 1, i - 1), t[i])
Plain(t) == PlainUpTo(t, Len(t))

\* A text without a name is left as it is, any other gets shorter.
LEMMA RenamedIs ==
  ASSUME NEW t \in Text
  PROVE  /\ Renamed(t) \in Text
         /\ Len(Renamed(t)) <= Len(t)
         /\ Renamed(t) = t <=> Plain(t)
<1>1. PICK f \in [0..Len(t) -> Text] : Renames(f, t) /\ Renamed(t) = f[Len(t)]
  BY RenamedSteps
<1> DEFINE N == Len(t)
           T == {n \in 0..N : \/ PlainUpTo(t, n) /\ f[n] = SubSeq(t, 1, n)
                              \/ ~PlainUpTo(t, n) /\ Len(f[n]) < n}
<1>2. N \in Nat /\ \A n \in 1..N : t[n] \in Symbol
  BY TextAt
<1>3. 0 \in T
  <2>1. f[0] = <<>> /\ SubSeq(t, 1, 0) = <<>>
    BY <1>1, SubSeqEmpty DEF Renames
  <2>2. PlainUpTo(t, 0)
    BY DEF PlainUpTo
  <2>3. PlainUpTo(t, 0) /\ f[0] = SubSeq(t, 1, 0)
    BY <2>1, <2>2
  <2> HIDE DEF N
  <2> QED BY <1>2, <2>3
<1>4. ASSUME NEW n \in 1..N, n - 1 \in T
      PROVE  n \in T
  <2> HIDE DEF N
  <2>1. n - 1 \in 0..N /\ n \in 0..N /\ n \in Nat /\ (n - 1) + 1 = n
    BY <1>2
  <2>2. f[n] = Rename(f[n - 1], t[n]) /\ f[n - 1] \in Text /\ t[n] \in Symbol /\ f[n] \in Text
    BY <1>1, <1>2, <2>1 DEF Renames, N
  <2>3. PlainUpTo(t, n) <=> PlainUpTo(t, n - 1) /\ ~Ends(SubSeq(t, 1, n - 1), t[n])
    <3>1. 1..n = 1..(n - 1) \cup {n}
      BY <2>1
    <3> QED BY <3>1 DEF PlainUpTo
  <2>4. Len(f[n]) \in Nat /\ Len(f[n - 1]) \in Nat
    BY <2>2, TextAt
  <2>5. CASE PlainUpTo(t, n - 1) /\ f[n - 1] = SubSeq(t, 1, n - 1)
    <3>0. Len(SubSeq(t, 1, n - 1)) = n - 1
      BY <1>2, <2>1, TextPart DEF N
    <3>1. CASE ~Ends(f[n - 1], t[n])
      <4>1. f[n] = Append(SubSeq(t, 1, n - 1), t[n])
        BY <2>2, <2>5, <3>1, RenameIs
      <4>2. SubSeq(t, 1, n) = SubSeq(t, 1, n - 1) \o <<t[n]>>
        <5>1. 1 \in 1..Len(t) /\ n \in 1..Len(t)
          BY <1>2 DEF N
        <5> QED BY <5>1, SubSeqRecursiveSecond DEF Text
      <4>3. Append(SubSeq(t, 1, n - 1), t[n]) = SubSeq(t, 1, n - 1) \o <<t[n]>>
        BY <2>2, <2>5, AppendIsConcat DEF Text
      <4> QED BY <2>1, <2>3, <2>5, <3>1, <4>1, <4>2, <4>3
    <3>2. CASE Ends(f[n - 1], t[n])
      <4>1. Len(f[n]) <= Len(f[n - 1])
        BY <2>2, <3>2, RenameIs
      <4>2. Len(f[n]) < n
        BY <2>1, <2>4, <2>5, <3>0, <4>1
      <4> QED BY <2>1, <2>3, <2>5, <3>2, <4>2
    <3> QED BY <3>1, <3>2
  <2>6. CASE ~PlainUpTo(t, n - 1) /\ Len(f[n - 1]) < n - 1
    <3>1. Len(f[n]) <= Len(f[n - 1]) + 1
      <4>1. CASE Ends(f[n - 1], t[n])
        BY <2>2, <2>4, <4>1, RenameIs
      <4>2. CASE ~Ends(f[n - 1], t[n])
        BY <2>2, <2>4, <4>2, RenameIs, TextAppend
      <4> QED BY <4>1, <4>2
    <3>2. Len(f[n]) < n
      BY <2>1, <2>4, <2>6, <3>1
    <3> QED BY <2>1, <2>3, <2>6, <3>2
  <2> QED BY <1>4, <2>5, <2>6
<1> HIDE DEF T
<1>5. N \in T
  <2>1. \A n \in 1..N : n - 1 \in T => n \in T
    BY <1>4
  <2>2. \A n \in 0..N : n \in T
    BY <1>2, <1>3, <2>1, BoundedInduction
  <2> QED BY <1>2, <2>2
<1>6. f[N] \in Text /\ Renamed(t) = f[N] /\ Len(f[N]) \in Nat
  BY <1>1, <1>2, TextAt
<1>7. SubSeq(t, 1, N) = t
  BY SubSeqFull DEF Text
<1>8. CASE Plain(t) /\ f[N] = t
  BY <1>2, <1>6, <1>8
<1>9. CASE ~Plain(t) /\ Len(f[N]) < N
  BY <1>2, <1>6, <1>9
<1> QED BY <1>5, <1>7, <1>8, <1>9 DEF T, Plain

\* The same, symbol by symbol.
LEMMA PlainIs ==
  ASSUME NEW t \in Text
  PROVE  Plain(t) <=> \A i \in 1..Len(t) :
           ~ /\ t[i] = "y"
             /\ \/ i > 1 /\ t[i - 1] = "x"
                \/ i > 2 /\ t[i - 1] = "sp" /\ t[i - 2] = "x"
<1>1. ASSUME NEW i \in 1..Len(t)
      PROVE  Ends(SubSeq(t, 1, i - 1), t[i]) <=>
               /\ t[i] = "y"
               /\ \/ i > 1 /\ t[i - 1] = "x"
                  \/ i > 2 /\ t[i - 1] = "sp" /\ t[i - 2] = "x"
  <2> DEFINE u == SubSeq(t, 1, i - 1)
  <2>1. i - 1 \in 0..Len(t) /\ i \in Nat
    BY TextAt
  <2>2. Len(u) = i - 1 /\ \A j \in 1..i - 1 : u[j] = t[j]
    BY <2>1, TextPrefix
  <2> HIDE DEF u
  <2>3. i > 1 => u[i - 1] = t[i - 1]
    BY <2>1, <2>2
  <2>4. i > 2 => u[(i - 1) - 1] = t[i - 2]
    BY <2>1, <2>2
  <2>5. Ends(u, t[i]) <=> /\ t[i] = "y"
                         /\ \/ i > 1 /\ t[i - 1] = "x"
                            \/ i > 2 /\ t[i - 1] = "sp" /\ t[i - 2] = "x"
    BY <2>1, <2>2, <2>3, <2>4 DEF Ends
  <2> QED BY <2>5 DEF u
<1> QED BY <1>1 DEF Plain, PlainUpTo

LEMMA TextConcat ==
  ASSUME NEW a \in Text, NEW b \in Text
  PROVE  /\ a \o b \in Text /\ Len(a \o b) = Len(a) + Len(b)
         /\ \A i \in 1..Len(a) : (a \o b)[i] = a[i]
         /\ \A i \in 1..Len(b) : (a \o b)[Len(a) + i] = b[i]
<1>1. /\ a \o b \in Seq(Symbol) /\ Len(a \o b) = Len(a) + Len(b)
      /\ \A i \in 1..Len(a) + Len(b) : (a \o b)[i] = IF i <= Len(a) THEN a[i] ELSE b[i - Len(a)]
  BY ConcatProperties DEF Text
<1>2. Len(a) \in Nat /\ Len(b) \in Nat
  BY TextAt
<1>3. ASSUME NEW i \in 1..Len(b) PROVE (a \o b)[Len(a) + i] = b[i]
  <2>1. Len(a) + i \in 1..Len(a) + Len(b) /\ ~(Len(a) + i <= Len(a)) /\ (Len(a) + i) - Len(a) = i
    BY <1>2
  <2> QED BY <1>1, <2>1
<1>4. ASSUME NEW i \in 1..Len(a) PROVE (a \o b)[i] = a[i]
  <2>1. i \in 1..Len(a) + Len(b) /\ i <= Len(a)
    BY <1>2
  <2> QED BY <1>1, <2>1
<1> QED BY <1>1, <1>3, <1>4 DEF Text

LEMMA TextAssociates ==
  ASSUME NEW a \in Text, NEW b \in Text, NEW c \in Text
  PROVE  (a \o b) \o c = a \o (b \o c)
<1>1. a \in Seq(Symbol) /\ b \in Seq(Symbol) /\ c \in Seq(Symbol)
  BY DEF Text
<1> QED BY <1>1, ConcatAssociative

\* A part of a text without a name has none either.
LEMMA PlainParts ==
  ASSUME NEW a \in Text, NEW b \in Text, Plain(a \o b)
  PROVE  Plain(a) /\ Plain(b)
<1> DEFINE t == a \o b
<1>1. /\ t \in Text /\ Len(t) = Len(a) + Len(b) /\ Len(a) \in Nat /\ Len(b) \in Nat
      /\ \A i \in 1..Len(a) : t[i] = a[i]
      /\ \A i \in 1..Len(b) : t[Len(a) + i] = b[i]
  BY TextConcat, TextAt
<1> HIDE DEF t
<1>2. \A i \in 1..Len(t) : ~ /\ t[i] = "y"
                              /\ \/ i > 1 /\ t[i - 1] = "x"
                                 \/ i > 2 /\ t[i - 1] = "sp" /\ t[i - 2] = "x"
  BY <1>1, PlainIs DEF t
<1>3. ASSUME NEW i \in 1..Len(a)
      PROVE  ~ /\ a[i] = "y"
               /\ \/ i > 1 /\ a[i - 1] = "x"
                  \/ i > 2 /\ a[i - 1] = "sp" /\ a[i - 2] = "x"
  <2>1. i \in 1..Len(t) /\ i \in Nat
    BY <1>1
  <2>2. t[i] = a[i]
    BY <1>1
  <2>3. ASSUME i > 1 PROVE t[i - 1] = a[i - 1]
    <3>1. i - 1 \in 1..Len(a)
      BY <1>1, <2>1, <2>3
    <3> QED BY <1>1, <3>1
  <2>4. ASSUME i > 2 PROVE t[i - 2] = a[i - 2]
    <3>1. i - 2 \in 1..Len(a)
      BY <1>1, <2>1, <2>4
    <3> QED BY <1>1, <3>1
  <2>5. i > 2 => i > 1
    BY <2>1
  <2> QED BY <1>2, <2>1, <2>2, <2>3, <2>4, <2>5
<1>4. ASSUME NEW i \in 1..Len(b)
      PROVE  ~ /\ b[i] = "y"
               /\ \/ i > 1 /\ b[i - 1] = "x"
                  \/ i > 2 /\ b[i - 1] = "sp" /\ b[i - 2] = "x"
  <2> DEFINE j == Len(a) + i
  <2>1. j \in 1..Len(t) /\ i \in Nat /\ j \in Nat /\ (i > 1 => j > 1) /\ (i > 2 => j > 2)
    BY <1>1
  <2>2. t[j] = b[i]
    BY <1>1
  <2>3. ASSUME i > 1 PROVE t[j - 1] = b[i - 1]
    <3>1. j - 1 = Len(a) + (i - 1) /\ i - 1 \in 1..Len(b)
      BY <1>1, <2>1, <2>3
    <3> QED BY <1>1, <3>1
  <2>4. ASSUME i > 2 PROVE t[j - 2] = b[i - 2]
    <3>1. j - 2 = Len(a) + (i - 2) /\ i - 2 \in 1..Len(b)
      BY <1>1, <2>1, <2>4
    <3> QED BY <1>1, <3>1
  <2>5. i > 2 => i > 1
    BY <2>1
  <2> HIDE DEF j
  <2> QED BY <1>2, <2>1, <2>2, <2>3, <2>4, <2>5
<1> QED BY <1>3, <1>4, PlainIs

\* A text that the scrubber leaves as it is.
Kept(t) == style.silent => Plain(t)

LEMMA RewrittenIs ==
  ASSUME NEW t \in Text
  PROVE  Rewritten(t) \in Text /\ (Rewritten(t) = t <=> Kept(t))
  BY RenamedIs DEF Rewritten, Kept

LEMMA KeptParts ==
  ASSUME NEW a \in Text, NEW b \in Text, Kept(a \o b)
  PROVE  Kept(a) /\ Kept(b)
  BY PlainParts DEF Kept

LEMMA NothingKept == <<>> \in Text /\ Kept(<<>>) /\ Rewritten(<<>>) = <<>>
<1>1. <<>> \in Text /\ Len(<<>>) = 0
  BY EmptySeq DEF Text
<1>2. Plain(<<>>)
  BY <1>1, PlainIs
<1> QED BY <1>1, <1>2, RewrittenIs DEF Kept

-----------------------------------------------------------------------------
(* GrokStream: the scrubber.                                               *)

LEMMA CutIs ==
  ASSUME NEW t \in Text
  PROVE  /\ Cut(t) \in 0..Len(t)
         /\ Cut(t) = 0 => \A i \in 1..Len(t) : t[i] # "sp"
         /\ Cut(t) > 0 => t[Cut(t)] = "sp"
<1> DEFINE spaces == {i \in DOMAIN t : t[i] = "sp"}
<1>1. Len(t) \in Nat /\ DOMAIN t = 1..Len(t) /\ spaces \subseteq 0..Len(t) /\ spaces \subseteq 1..Len(t)
  BY TextAt
<1>2. CASE spaces = {}
  <2>1. Cut(t) = 0
    BY <1>2 DEF Cut
  <2> QED BY <1>1, <1>2, <2>1
<1>3. CASE spaces # {}
  <2>1. Cut(t) = CHOOSE i \in spaces : \A j \in spaces : j <= i
    BY <1>3 DEF Cut
  <2> HIDE DEF spaces
  <2>2. \E i \in spaces : \A j \in spaces : j <= i
    BY <1>1, <1>3, GreatestNat
  <2>3. Cut(t) \in spaces
    BY <2>1, <2>2
  <2> QED BY <1>1, <2>3 DEF spaces
<1> QED BY <1>2, <1>3

\* What is not held back goes on, rewritten.
LEMMA ScrubIs ==
  ASSUME NEW s \in Scrubber, NEW d \in Text
  PROVE  \E a \in Text, b \in Text :
           /\ s.pend \o d = a \o b
           /\ Scrub(s, d) = [pend |-> b, heard |-> s.heard \o Rewritten(a)]
           /\ Scrub(s, d) \in Scrubber
<1> DEFINE all == s.pend \o d
           cut == IF Cut(all) > 0 THEN Cut(all)
                  ELSE IF Len(all) > MaxHold THEN Len(all) - MaxHold ELSE 0
           a == SubSeq(all, 1, cut)
           b == SubSeq(all, cut + 1, Len(all))
<1>1. s.pend \in Text /\ s.heard \in Text
  BY DEF Scrubber, Text
<1>2. all \in Text /\ Len(all) \in Nat
  BY <1>1, TextConcat, TextAt
<1>3. Scrub(s, d) = [pend |-> b, heard |-> s.heard \o Rewritten(a)]
  BY DEF Scrub
<1> HIDE DEF all
<1>4. cut \in 0..Len(all)
  BY <1>2, CutIs, GrokAssumption
<1> HIDE DEF cut
<1>5. a \in Text
  BY <1>2, <1>4, TextPrefix
<1>6. b \in Text
  <2>1. cut + 1 \in Nat \ {0} /\ Len(all) <= Len(all)
    BY <1>2, <1>4
  <2> QED BY <1>2, <2>1, TextPart
<1>7. all = a \o b
  <2>1. 1 \in 1..Len(all) + 1 /\ cut \in 1 - 1..Len(all) /\ Len(all) \in cut..Len(all)
    BY <1>2, <1>4
  <2>2. a \o b = SubSeq(all, 1, Len(all))
    BY <1>2, <2>1, ConcatAdjacentSubSeq DEF Text
  <2>3. SubSeq(all, 1, Len(all)) = all
    BY <1>2, SubSeqFull DEF Text
  <2> QED BY <2>2, <2>3
<1> HIDE DEF a, b
<1>8. s.heard \o Rewritten(a) \in Text
  BY <1>1, <1>5, RewrittenIs, TextConcat
<1>9. Scrub(s, d) \in Scrubber
  BY <1>3, <1>6, <1>8 DEF Scrubber, Text
<1>10. s.pend \o d = a \o b
  BY <1>7 DEF all
<1> QED BY <1>3, <1>5, <1>6, <1>9, <1>10

AllHeard(s) == s.heard \o s.pend

\* Nothing is lost, doubled or changed of a text without names.
LEMMA ScrubKeeps ==
  ASSUME NEW s \in Scrubber, NEW d \in Text, Kept(AllHeard(s) \o d)
  PROVE  AllHeard(Scrub(s, d)) = AllHeard(s) \o d
<1>1. s.pend \in Text /\ s.heard \in Text
  BY DEF Scrubber, Text
<1>3. AllHeard(s) \o d = s.heard \o (s.pend \o d)
  <2>1. (s.heard \o s.pend) \o d = s.heard \o (s.pend \o d)
    BY <1>1, TextAssociates
  <2> QED BY <2>1, Zenon DEF AllHeard
<1>2. PICK a \in Text, b \in Text :
        /\ s.pend \o d = a \o b
        /\ Scrub(s, d) = [pend |-> b, heard |-> s.heard \o Rewritten(a)]
  BY ScrubIs
<1>4. s.heard \o (a \o b) = (s.heard \o a) \o b
  BY <1>1, <1>2, TextAssociates
<1>5. s.heard \o a \in Text
  BY <1>1, TextConcat
<1>6. Kept((s.heard \o a) \o b)
  BY <1>2, <1>3, <1>4
<1>7. Kept(a)
  BY <1>1, <1>5, <1>6, KeptParts
<1>8. Rewritten(a) = a
  BY <1>7, RewrittenIs
<1> QED BY <1>2, <1>3, <1>4, <1>8 DEF AllHeard

LEMMA FlushIs ==
  ASSUME NEW s \in Scrubber
  PROVE  /\ Flush(s) \in Scrubber /\ Flush(s).pend = <<>>
         /\ Kept(AllHeard(s)) => Flush(s).heard = AllHeard(s)
<1>1. s.pend \in Text /\ s.heard \in Text
  BY DEF Scrubber, Text
<1>2. Rewritten(s.pend) \in Text /\ (Kept(s.pend) => Rewritten(s.pend) = s.pend)
  BY <1>1, RewrittenIs
<1>3. s.heard \o Rewritten(s.pend) \in Text
  BY <1>1, <1>2, TextConcat
<1>4. Flush(s) = [pend |-> <<>>, heard |-> s.heard \o Rewritten(s.pend)]
  BY DEF Flush
<1>5. Flush(s) \in Scrubber
  BY <1>3, <1>4, NothingKept DEF Scrubber, Text
<1>6. Kept(AllHeard(s)) => Kept(s.pend)
  BY <1>1, KeptParts DEF AllHeard
<1>7. Flush(s).pend = <<>> /\ Flush(s).heard = s.heard \o Rewritten(s.pend)
  BY DEF Flush
<1>8. Kept(AllHeard(s)) => Flush(s).heard = AllHeard(s)
  BY <1>2, <1>6, <1>7 DEF AllHeard
<1> QED BY <1>5, <1>7, <1>8

-----------------------------------------------------------------------------
(* GrokStream: names, and runs without a space.                            *)

LEMMA NameIs ==
  ASSUME NEW t \in Text
  PROVE  HasName(t) <=> \E i \in 1..Len(t) - 1 : t[i] = "x" /\ t[i + 1] = "y"
<1>1. ASSUME NEW i \in 1..Len(t) - 1
      PROVE  SubSeq(t, i, i + 1) = <<"x", "y">> <=> t[i] = "x" /\ t[i + 1] = "y"
  <2> DEFINE u == SubSeq(t, i, i + 1)
  <2>1. i \in Nat \ {0} /\ i + 1 \in Nat /\ i + 1 <= Len(t) /\ (i + 1) - i + 1 = 2 /\ i <= i + 1
    BY TextAt
  <2>2. u \in Seq(Symbol) /\ Len(u) = 2 /\ \A j \in 1..2 : u[j] = t[i + j - 1]
    BY <2>1, TextPart DEF Text
  <2>3. i + 1 - 1 = i /\ i + 2 - 1 = i + 1
    BY <2>1
  <2>4. u[1] = t[i] /\ u[2] = t[i + 1]
    BY <2>2, <2>3
  <2> HIDE DEF u
  <2>5. u = <<"x", "y">> <=> u[1] = "x" /\ u[2] = "y"
    BY <2>2
  <2> QED BY <2>4, <2>5 DEF u
<1> QED BY <1>1 DEF HasName

\* No name in it, and the next symbol cannot complete one.
Settled(t) == t = <<>> \/ t[Len(t)] = "sp"
Clean(t) == ~HasName(t) /\ Settled(t)

LEMMA SettledIs ==
  ASSUME NEW t \in Text, Settled(t), Len(t) > 0
  PROVE  t[Len(t)] = "sp"
<1>1. t # <<>>
  BY EmptySeq
<1> QED BY <1>1 DEF Settled

LEMMA CleanConcat ==
  ASSUME NEW a \in Text, NEW b \in Text, Clean(a), ~HasName(b)
  PROVE  ~HasName(a \o b) /\ (Settled(b) => Clean(a \o b))
<1> DEFINE t == a \o b
<1>1. /\ t \in Text /\ Len(t) = Len(a) + Len(b) /\ Len(a) \in Nat /\ Len(b) \in Nat
      /\ \A i \in 1..Len(a) : t[i] = a[i]
      /\ \A i \in 1..Len(b) : t[Len(a) + i] = b[i]
  BY TextConcat, TextAt
<1> HIDE DEF t
<1>2. ASSUME NEW i \in 1..Len(t) - 1, t[i] = "x", t[i + 1] = "y" PROVE FALSE
  <2>0. i \in Nat /\ ~HasName(a)
    BY DEF Clean
  <2>1. CASE i < Len(a)
    <3>1. i \in 1..Len(a) - 1 /\ i \in 1..Len(a) /\ i + 1 \in 1..Len(a)
      BY <1>1, <2>0, <2>1
    <3>2. a[i] = "x" /\ a[i + 1] = "y"
      BY <1>1, <1>2, <3>1
    <3> QED BY <2>0, <3>1, <3>2, NameIs
  <2>2. CASE i = Len(a)
    <3>1. Len(a) > 0 /\ i \in 1..Len(a)
      BY <1>1, <2>0, <2>2
    <3>2. a[Len(a)] = "sp"
      BY <3>1, SettledIs DEF Clean
    <3> QED BY <1>1, <1>2, <2>2, <3>1, <3>2
  <2>3. CASE i > Len(a)
    <3> DEFINE j == i - Len(a)
    <3>1. /\ j \in 1..Len(b) - 1 /\ j \in 1..Len(b) /\ j + 1 \in 1..Len(b)
          /\ i = Len(a) + j /\ i + 1 = Len(a) + (j + 1)
      BY <1>1, <2>0, <2>3
    <3> HIDE DEF j
    <3>2. b[j] = "x" /\ b[j + 1] = "y"
      BY <1>1, <1>2, <3>1
    <3> QED BY <3>1, <3>2, NameIs
  <2> QED BY <1>1, <2>0, <2>1, <2>2, <2>3
<1>3. ~HasName(t)
  BY <1>1, <1>2, NameIs
<1>4. ASSUME Settled(b) PROVE Settled(t)
  <2>1. CASE b = <<>>
    <3>1. t = a
      BY <2>1, ConcatEmptySeq DEF t, Text
    <3> QED BY <3>1 DEF Clean
  <2>2. CASE b # <<>>
    <3>1. Len(b) # 0
      BY <2>2, EmptySeq DEF Text
    <3>2. Len(b) > 0 /\ Len(b) \in 1..Len(b)
      BY <1>1, <3>1
    <3>3. b[Len(b)] = "sp"
      BY <1>4, <3>2, SettledIs
    <3> QED BY <1>1, <3>2, <3>3 DEF Settled
  <2> QED BY <2>1, <2>2
<1> QED BY <1>3, <1>4 DEF Clean, t

\* A renamed text has no name, and ends in a space if the text does.
LEMMA RenamedClean ==
  ASSUME NEW t \in Text
  PROVE  ~HasName(Renamed(t)) /\ (Settled(t) => Settled(Renamed(t)))
<1>1. PICK f \in [0..Len(t) -> Text] : Renames(f, t) /\ Renamed(t) = f[Len(t)]
  BY RenamedSteps
<1> DEFINE N == Len(t)
           T == {n \in 0..N : ~HasName(f[n])}
<1>2. N \in Nat /\ \A n \in 1..N : t[n] \in Symbol
  BY TextAt
<1>3. f[0] = <<>> /\ ~HasName(<<>>) /\ 0 \in T
  <2>1. f[0] = <<>>
    BY <1>1 DEF Renames
  <2>2. Len(<<>>) = 0
    BY EmptySeq
  <2>3. ~HasName(<<>>)
    BY <2>2, NothingKept, NameIs
  <2> HIDE DEF N
  <2> QED BY <1>2, <2>1, <2>3
<1>4. ASSUME NEW n \in 1..N
      PROVE  /\ f[n] = Rename(f[n - 1], t[n]) /\ f[n - 1] \in Text /\ f[n] \in Text
             /\ t[n] \in Symbol
  <2>1. n - 1 \in 0..N /\ n \in 0..N
    BY <1>2
  <2> QED BY <1>1, <1>2, <2>1 DEF Renames
<1>5. ASSUME NEW n \in 1..N, n - 1 \in T
      PROVE  n \in T
  <2> DEFINE out == f[n - 1]
             s == t[n]
  <2>0. out \in Text /\ s \in Symbol /\ f[n] = Rename(out, s) /\ ~HasName(out) /\ Len(out) \in Nat
        /\ f[n] \in Text /\ n \in 0..N
    <3>1. out \in Text
      BY <1>4
    <3> QED BY <1>2, <1>4, <1>5, <3>1, TextAt
  <2> HIDE DEF out, s, N
  <2>1. CASE ~Ends(out, s)
    <3>1. /\ f[n] = Append(out, s) /\ Len(f[n]) = Len(out) + 1 /\ f[n][Len(out) + 1] = s
          /\ \A i \in 1..Len(out) : f[n][i] = out[i]
      <4>1. f[n] = Append(out, s)
        BY <2>0, <2>1, RenameIs
      <4> QED BY <2>0, <4>1, TextAppend
    <3>2. ASSUME NEW i \in 1..Len(f[n]) - 1, f[n][i] = "x", f[n][i + 1] = "y" PROVE FALSE
      <4>1. i \in 1..Len(out) /\ i \in Nat
        BY <2>0, <3>1
      <4>2. CASE i = Len(out)
        BY <2>0, <2>1, <3>1, <3>2, <4>1, <4>2 DEF Ends
      <4>3. CASE i # Len(out)
        <5>1. i \in 1..Len(out) - 1 /\ i + 1 \in 1..Len(out)
          BY <2>0, <4>1, <4>3
        <5>2. out[i] = "x" /\ out[i + 1] = "y"
          BY <3>1, <3>2, <4>1, <5>1
        <5> QED BY <2>0, <5>1, <5>2, NameIs
      <4> QED BY <4>2, <4>3
    <3>3. ~HasName(f[n])
      BY <2>0, <3>2, NameIs
    <3> QED BY <2>0, <3>3
  <2>2. CASE Ends(out, s)
    <3>1. PICK k \in 0..Len(out) - 1 : f[n] = Append(SubSeq(out, 1, k), "c")
      BY <2>0, <2>2, RenameIs
    <3> DEFINE u == SubSeq(out, 1, k)
    <3>2. k \in 0..Len(out) /\ k \in Nat
      BY <2>0
    <3>3. u \in Text /\ Len(u) = k /\ \A i \in 1..k : u[i] = out[i]
      BY <2>0, <3>2, TextPrefix
    <3>4. "c" \in Symbol
      BY DEF Symbol
    <3> HIDE DEF u
    <3>5. /\ f[n] = Append(u, "c") /\ Len(f[n]) = k + 1 /\ f[n][k + 1] = "c"
          /\ \A i \in 1..k : f[n][i] = out[i]
      BY <3>1, <3>3, <3>4, TextAppend DEF u
    <3>6. ASSUME NEW i \in 1..Len(f[n]) - 1, f[n][i] = "x", f[n][i + 1] = "y" PROVE FALSE
      <4>1. i \in 1..k /\ i \in Nat
        BY <3>2, <3>5
      <4>2. i + 1 # k + 1
        BY <3>5, <3>6
      <4>3. i + 1 \in 1..k /\ i \in 1..Len(out) - 1
        BY <2>0, <3>2, <4>1, <4>2
      <4>4. out[i] = "x" /\ out[i + 1] = "y"
        BY <3>5, <3>6, <4>1, <4>3
      <4> QED BY <2>0, <4>3, <4>4, NameIs
    <3>7. ~HasName(f[n])
      BY <2>0, <3>6, NameIs
    <3> QED BY <2>0, <3>7
  <2> QED BY <2>1, <2>2
<1>6. \A n \in 0..N : n \in T
  <2>1. \A n \in 1..N : n - 1 \in T => n \in T
    BY <1>5
  <2>2. 0 \in T
    BY <1>3
  <2> HIDE DEF T, N
  <2> QED BY <1>2, <2>1, <2>2, BoundedInduction
<1>7. ~HasName(Renamed(t))
  <2>1. N \in 0..N
    BY <1>2
  <2>2. N \in T
    BY <1>6, <2>1
  <2> QED BY <1>1, <2>2
<1>8. ASSUME Settled(t) PROVE Settled(Renamed(t))
  <2>1. CASE N = 0
    BY <1>1, <1>3, <2>1 DEF Settled
  <2>2. CASE N # 0
    <3>1. N \in 1..N /\ N > 0
      BY <1>2, <2>2
    <3>2. t[N] = "sp"
      BY <1>8, <3>1, SettledIs
    <3>3. /\ f[N] = Rename(f[N - 1], "sp") /\ f[N - 1] \in Text /\ "sp" \in Symbol
      BY <1>4, <3>1, <3>2
    <3>4. ~Ends(f[N - 1], "sp")
      BY DEF Ends
    <3> HIDE DEF N
    <3>5. /\ Len(f[N]) = Len(f[N - 1]) + 1 /\ f[N][Len(f[N - 1]) + 1] = "sp"
      BY <3>3, <3>4, RenameIs, TextAppend
    <3>6. f[N][Len(f[N])] = "sp"
      BY <3>5
    <3> QED BY <1>1, <3>6 DEF Settled, N
  <2> QED BY <2>1, <2>2
<1> QED BY <1>7, <1>8

LEMMA LongRunParts ==
  ASSUME NEW a \in Text, NEW b \in Text, LongRun(a) \/ LongRun(b)
  PROVE  LongRun(a \o b)
<1> DEFINE t == a \o b
<1>1. /\ t \in Text /\ Len(t) = Len(a) + Len(b) /\ Len(a) \in Nat /\ Len(b) \in Nat
      /\ \A i \in 1..Len(a) : t[i] = a[i]
      /\ \A i \in 1..Len(b) : t[Len(a) + i] = b[i]
  BY TextConcat, TextAt
<1> HIDE DEF t
<1>2. CASE LongRun(a)
  <2>1. PICK i \in 1..(Len(a) - MaxHold) : \A j \in i..(i + MaxHold) : a[j] # "sp"
    BY <1>2 DEF LongRun
  <2>2. i \in 1..(Len(t) - MaxHold) /\ \A j \in i..(i + MaxHold) : j \in 1..Len(a)
    BY <1>1, GrokAssumption
  <2>3. \A j \in i..(i + MaxHold) : t[j] # "sp"
    BY <1>1, <2>1, <2>2
  <2> QED BY <2>2, <2>3 DEF LongRun, t
<1>3. CASE LongRun(b)
  <2>1. PICK i \in 1..(Len(b) - MaxHold) : \A j \in i..(i + MaxHold) : b[j] # "sp"
    BY <1>3 DEF LongRun
  <2> DEFINE k == Len(a) + i
  <2>2. k \in 1..(Len(t) - MaxHold) /\ k \in Nat /\ i \in Nat
    BY <1>1, GrokAssumption
  <2>3. ASSUME NEW j \in k..(k + MaxHold) PROVE t[j] # "sp"
    <3>1. /\ j - Len(a) \in i..(i + MaxHold) /\ j - Len(a) \in 1..Len(b)
          /\ Len(a) + (j - Len(a)) = j
      BY <1>1, <2>2, GrokAssumption
    <3>2. t[Len(a) + (j - Len(a))] = b[j - Len(a)] /\ b[j - Len(a)] # "sp"
      BY <1>1, <2>1, <3>1
    <3> QED BY <3>1, <3>2
  <2> HIDE DEF k
  <2> QED BY <2>2, <2>3 DEF LongRun, t
<1> QED BY <1>2, <1>3

\* What was read is what is gone on and what is held back; what the client heard
\* has no name in it, and none can be completed.
Smooth(s, read) ==
  style.silent /\ ~LongRun(read) => /\ \E gone \in Text : read = gone \o s.pend
                                    /\ Clean(s.heard)

LEMMA ScrubSmooth ==
  ASSUME NEW s \in Scrubber, NEW read \in Text, NEW d \in Text, Smooth(s, read)
  PROVE  Smooth(Scrub(s, d), read \o d)
<1> SUFFICES ASSUME style.silent, ~LongRun(read \o d)
             PROVE  /\ \E gone \in Text : read \o d = gone \o Scrub(s, d).pend
                    /\ Clean(Scrub(s, d).heard)
  BY DEF Smooth
<1>1. s.pend \in Text /\ s.heard \in Text
  BY DEF Scrubber, Text
<1>2. ~LongRun(read)
  BY LongRunParts
<1>3. PICK gone \in Text : read = gone \o s.pend
  BY <1>2 DEF Smooth
<1>4. Clean(s.heard)
  BY <1>2 DEF Smooth
<1> DEFINE all == s.pend \o d
           cut == IF Cut(all) > 0 THEN Cut(all)
                  ELSE IF Len(all) > MaxHold THEN Len(all) - MaxHold ELSE 0
           a == SubSeq(all, 1, cut)
           b == SubSeq(all, cut + 1, Len(all))
<1>5. all \in Text /\ Len(all) \in Nat /\ read \o d = gone \o all
  <2>1. all \in Text
    BY <1>1, TextConcat
  <2>2. (gone \o s.pend) \o d = gone \o (s.pend \o d)
    BY <1>1, TextAssociates
  <2>3. Len(all) \in Nat
    BY <2>1, TextAt
  <2> QED BY <1>3, <2>1, <2>2, <2>3
<1>6. Scrub(s, d) = [pend |-> b, heard |-> s.heard \o Rewritten(a)]
  BY DEF Scrub
<1> HIDE DEF all
<1>7. ~(Cut(all) = 0 /\ Len(all) > MaxHold)
  <2> SUFFICES ASSUME Cut(all) = 0, Len(all) > MaxHold PROVE FALSE
    OBVIOUS
  <2>1. \A i \in 1..Len(all) : all[i] # "sp"
    BY <1>5, CutIs
  <2>2. 1 \in 1..(Len(all) - MaxHold) /\ \A j \in 1..(1 + MaxHold) : j \in 1..Len(all)
    BY <1>5, GrokAssumption
  <2>3. LongRun(all)
    BY <2>1, <2>2 DEF LongRun
  <2> QED BY <1>5, <2>3, LongRunParts
<1>8. cut = Cut(all) /\ Cut(all) \in 0..Len(all) /\ cut \in 0..Len(all)
  BY <1>5, <1>7, CutIs
<1>9. (cut > 0 => all[cut] = "sp") /\ cut \in Nat
  BY <1>5, <1>8, CutIs
<1> HIDE DEF cut
<1>10. a \in Text /\ Len(a) = cut /\ \A i \in 1..cut : a[i] = all[i]
  BY <1>5, <1>8, TextPrefix
<1>11. b \in Text /\ all = a \o b
  <2>1. cut + 1 \in Nat \ {0} /\ Len(all) <= Len(all)
    BY <1>5, <1>9
  <2>2. 1 \in 1..Len(all) + 1 /\ cut \in 1 - 1..Len(all) /\ Len(all) \in cut..Len(all)
    BY <1>5, <1>8
  <2>3. a \o b = SubSeq(all, 1, Len(all))
    BY <1>5, <2>2, ConcatAdjacentSubSeq DEF Text
  <2>4. SubSeq(all, 1, Len(all)) = all
    BY <1>5, SubSeqFull DEF Text
  <2>5. b \in Text
    BY <1>5, <2>1, TextPart
  <2> QED BY <2>3, <2>4, <2>5
<1> HIDE DEF a, b
<1>12. Settled(a)
  <2>1. CASE cut = 0
    BY <1>10, <2>1, EmptySeq DEF Settled, Text
  <2>2. CASE cut # 0
    <3>1. cut > 0 /\ cut \in 1..cut
      BY <1>9, <2>2
    <3> QED BY <1>9, <1>10, <3>1 DEF Settled
  <2> QED BY <2>1, <2>2
<1>13. Rewritten(a) = Renamed(a) /\ Renamed(a) \in Text
  BY <1>10, RenamedIs DEF Rewritten
<1>14. Clean(s.heard \o Rewritten(a))
  <2>1. ~HasName(Renamed(a)) /\ Settled(Renamed(a))
    BY <1>10, <1>12, RenamedClean
  <2>2. Clean(s.heard \o Renamed(a))
    BY <1>1, <1>4, <1>13, <2>1, CleanConcat
  <2> QED BY <1>13, <2>2
<1>15. gone \o a \in Text /\ read \o d = (gone \o a) \o b
  <2>1. gone \o a \in Text
    BY <1>10, TextConcat
  <2>2. (gone \o a) \o b = gone \o (a \o b)
    BY <1>10, <1>11, TextAssociates
  <2> QED BY <1>5, <1>11, <2>1, <2>2
<1>16. Scrub(s, d).pend = b /\ Scrub(s, d).heard = s.heard \o Rewritten(a)
  BY <1>6
<1> QED BY <1>14, <1>15, <1>16

LEMMA FlushSmooth ==
  ASSUME NEW s \in Scrubber, NEW read, Smooth(s, read), style.silent, ~LongRun(read)
  PROVE  ~HasName(Flush(s).heard)
<1>1. s.pend \in Text /\ s.heard \in Text /\ Clean(s.heard)
  BY DEF Scrubber, Text, Smooth
<1>2. Flush(s).heard = s.heard \o Renamed(s.pend) /\ Renamed(s.pend) \in Text
  BY <1>1, RenamedIs DEF Flush, Rewritten
<1> QED BY <1>1, <1>2, RenamedClean, CleanConcat

-----------------------------------------------------------------------------
(* GrokStream: sending, draining, finishing a call.                        *)

\* The blocks after a part was sent: as before, or changed for that part.
Shows(u, v, part) == (u.open = v.open /\ u.overlap = v.overlap) \/ Aloud(u, v, part)

LEMMA EmitIs ==
  ASSUME NEW v \in Writer, NEW part \in Part, NEW d \in Text
  PROVE  \E s \in Scrubber :
           /\ Speaks(Emit(v, part, d), v, part, s) /\ Shows(Emit(v, part, d), v, part)
           /\ s = IF d = <<>> THEN v[part] ELSE Scrub(v[part], d)
           /\ d = <<>> => Emit(v, part, d) = v
<1>1. v[part] \in Scrubber
  BY DEF Writer, Part
<1>2. CASE d = <<>>
  <2>1. Emit(v, part, d) = v
    BY <1>2 DEF Emit
  <2>2. Speaks(v, v, part, v[part]) /\ Shows(v, v, part)
    BY DEF Speaks, Shows, Part
  <2> QED BY <1>1, <1>2, <2>1, <2>2
<1>3. CASE d # <<>>
  <2> DEFINE s == Scrub(v[part], d)
  <2>1. s \in Scrubber
    BY <1>1, ScrubIs
  <2>2. Emit(v, part, d) = SendPart(v, part, s)
    BY <1>3 DEF Emit
  <2> HIDE DEF s
  <2>3. Speaks(SendPart(v, part, s), v, part, s) /\ Shows(SendPart(v, part, s), v, part)
    BY <2>1, SendPartIs DEF Shows
  <2> QED BY <1>3, <2>1, <2>2, <2>3 DEF s
<1> QED BY <1>2, <1>3

LEMMA DrainIs ==
  ASSUME NEW v \in Writer, NEW part \in Part
  PROVE  /\ Speaks(Drain(v, part), v, part, Flush(v[part])) /\ Shows(Drain(v, part), v, part)
         /\ Flush(v[part]) \in Scrubber
<1>1. v[part] \in Scrubber
  BY DEF Writer, Part
<1>2. Flush(v[part]) \in Scrubber
  BY <1>1, FlushIs
<1> QED BY <1>2, SendPartIs DEF Drain, Shows

LEMMA FinishCallIs ==
  ASSUME NEW v \in Writer
  PROVE  LET u == FinishCall(v) IN
         /\ u \in Writer /\ u.text = v.text /\ u.think = v.think /\ u.best = v.best
         /\ ~u.cur /\ u.calls = v.calls
         /\ u.open = (IF v.cur THEN v.open \ {"tool"} ELSE v.open) /\ u.overlap = v.overlap
<1>1. CASE ~v.cur
  BY <1>1 DEF FinishCall
<1>2. CASE v.cur
  <2> DEFINE a == CloseBlock(v, "tool")
             u == [a EXCEPT !.cur = FALSE]
  <2>1. FinishCall(v) = u
    BY <1>2 DEF FinishCall
  <2>2. Alters(a, v) /\ a.open = v.open \ {"tool"} /\ a.overlap = v.overlap
    BY CloseBlockIs
  <2> HIDE DEF a
  <2>3. /\ u \in Writer /\ u.text = a.text /\ u.think = a.think /\ u.best = a.best /\ ~u.cur
        /\ u.calls = a.calls /\ u.open = a.open /\ u.overlap = a.overlap
    BY <2>2 DEF Alters, Writer
  <2> HIDE DEF u
  <2> QED BY <1>2, <2>1, <2>2, <2>3 DEF Alters
<1> QED BY <1>1, <1>2

LEMMA HeardIs ==
  ASSUME NEW s \in Scrubber, NEW x \in Text
  PROVE  [s EXCEPT !.heard = x] = [pend |-> s.pend, heard |-> x]
  BY DEF Scrubber

LEMMA RawIs ==
  ASSUME NEW v \in Writer, NEW part \in Part, NEW d \in Text
  PROVE  LET s == [pend |-> v[part].pend, heard |-> v[part].heard \o d] IN
         /\ Speaks(Raw(v, part, d), v, part, s) /\ s \in Scrubber
         /\ Raw(v, part, d).open = v.open /\ Raw(v, part, d).overlap = v.overlap
<1>1. v[part] \in Scrubber /\ v[part].heard \in Text /\ v[part].pend \in Text
  BY DEF Writer, Part, Scrubber, Text
<1>2. v[part].heard \o d \in Text
  BY <1>1, TextConcat
<1> DEFINE s == [pend |-> v[part].pend, heard |-> v[part].heard \o d]
<1>3. s \in Scrubber
  BY <1>1, <1>2 DEF Scrubber, Text
<1>4. CASE part = "text"
  <2>1. Raw(v, part, d) = [v EXCEPT !["text"] = [v["text"] EXCEPT !.heard = v["text"].heard \o d]]
    BY <1>4 DEF Raw
  <2>2. [v["text"] EXCEPT !.heard = v["text"].heard \o d] = s
    BY <1>1, <1>2, <1>4, HeardIs
  <2>3. Raw(v, part, d) = [v EXCEPT !["text"] = s]
    BY <2>1, <2>2
  <2> HIDE DEF s
  <2>4. /\ Speaks(Raw(v, part, d), v, part, s)
        /\ Raw(v, part, d).open = v.open /\ Raw(v, part, d).overlap = v.overlap
    BY <1>3, <1>4, <2>3 DEF Speaks, Writer
  <2> QED BY <1>3, <2>4 DEF s
<1>5. CASE part = "think"
  <2>1. Raw(v, part, d) = [v EXCEPT !["think"] = [v["think"] EXCEPT !.heard = v["think"].heard \o d]]
    BY <1>5 DEF Raw
  <2>2. [v["think"] EXCEPT !.heard = v["think"].heard \o d] = s
    BY <1>1, <1>2, <1>5, HeardIs
  <2>3. Raw(v, part, d) = [v EXCEPT !["think"] = s]
    BY <2>1, <2>2
  <2> HIDE DEF s
  <2>4. /\ Speaks(Raw(v, part, d), v, part, s)
        /\ Raw(v, part, d).open = v.open /\ Raw(v, part, d).overlap = v.overlap
    BY <1>3, <1>5, <2>3 DEF Speaks, Writer
  <2> QED BY <1>3, <2>4 DEF s
<1> QED BY <1>3, <1>4, <1>5 DEF Part

\* A part of a snapshot.
LEMMA RestIs ==
  ASSUME NEW best \in Text, NEW got \in Text
  PROVE  /\ Rest(best, got) \in Text
         /\ Rest(<<>>, got) = <<>>
         /\ IsPrefix(got, best) => best = got \o Rest(best, got)
<1>1. Len(best) \in Nat /\ Len(got) \in Nat /\ <<>> \in Text /\ Len(<<>>) = 0
  BY TextAt, EmptySeq DEF Text
<1>2. Rest(<<>>, got) = <<>>
  BY <1>1 DEF Rest
<1>3. CASE Len(best) <= Len(got)
  <2>1. Rest(best, got) = <<>>
    BY <1>3 DEF Rest
  <2>2. ASSUME IsPrefix(got, best) PROVE best = got \o <<>>
    <3>1. Len(got) = Len(best) /\ SubSeq(got, 1, Len(got)) = SubSeq(best, 1, Len(got))
      BY <1>1, <1>3, <2>2 DEF IsPrefix
    <3>2. SubSeq(got, 1, Len(got)) = got /\ SubSeq(best, 1, Len(best)) = best
      BY SubSeqFull DEF Text
    <3>3. got \o <<>> = got
      BY ConcatEmptySeq DEF Text
    <3> QED BY <3>1, <3>2, <3>3
  <2> QED BY <1>1, <1>2, <2>1, <2>2
<1>4. CASE ~(Len(best) <= Len(got))
  <2>1. SubSeq(best, Len(got) + 1, Len(best)) \in Text
    BY <1>1, TextPart
  <2>2. ASSUME IsPrefix(got, best) PROVE best = got \o SubSeq(best, Len(got) + 1, Len(best))
    <3>1. SubSeq(got, 1, Len(got)) = SubSeq(best, 1, Len(got)) /\ SubSeq(got, 1, Len(got)) = got
      BY <2>2, SubSeqFull DEF IsPrefix, Text
    <3>2. 1 \in 1..Len(best) + 1 /\ Len(got) \in 1 - 1..Len(best) /\ Len(best) \in Len(got)..Len(best)
      BY <1>1, <1>4
    <3>3. SubSeq(best, 1, Len(got)) \o SubSeq(best, Len(got) + 1, Len(best)) = SubSeq(best, 1, Len(best))
      BY <3>2, ConcatAdjacentSubSeq DEF Text
    <3>4. SubSeq(best, 1, Len(best)) = best
      BY SubSeqFull DEF Text
    <3> QED BY <3>1, <3>3, <3>4
  <2> QED BY <1>2, <1>4, <2>1, <2>2 DEF Rest
<1> QED BY <1>3, <1>4

\* A block of a call is open only while the call is being written.
Writing(v) == "tool" \in v.open => v.cur

LEMMA WritingStays ==
  ASSUME NEW u, NEW v \in Writer, NEW part \in Part, NEW s, Speaks(u, v, part, s), Shows(u, v, part)
  PROVE  /\ Writing(v) => Writing(u)
         /\ style.format # "claude" /\ v.open = {} => u.open = {}
<1>1. u.cur = v.cur
  BY DEF Speaks
<1>2. "tool" \in u.open => "tool" \in v.open
  BY DEF Shows, Aloud, Opens
<1> QED BY <1>1, <1>2 DEF Writing, Shows, Aloud

LEMMA FinishedIs ==
  ASSUME NEW v \in Writer
  PROVE  LET u == Finished(v) IN
         /\ u \in Writer /\ u.text = v.text /\ u.think = v.think /\ u.best = v.best
         /\ u.calls = v.calls
         /\ Writing(v) => u.open = {}
<1> DEFINE a == FinishCall(v)
           b == CloseBlock(a, "thinking")
           u == CloseBlock(b, "text")
<1>1. /\ a \in Writer /\ a.text = v.text /\ a.think = v.think /\ a.best = v.best
      /\ a.calls = v.calls /\ a.open = (IF v.cur THEN v.open \ {"tool"} ELSE v.open)
  BY FinishCallIs
<1> HIDE DEF a
<1>2. Alters(b, a) /\ b.open = a.open \ {"thinking"}
  BY <1>1, CloseBlockIs
<1> HIDE DEF b
<1>3. Alters(u, b) /\ u.open = b.open \ {"text"}
  BY <1>2, CloseBlockIs DEF Alters
<1>4. Finished(v) = u
  BY DEF Finished, a, b
<1> HIDE DEF u
<1>5. v.open \subseteq {"text", "thinking", "tool"}
  BY DEF Writer, Kinds
<1>6. Writing(v) => u.open = {}
  BY <1>1, <1>2, <1>3, <1>5 DEF Writing
<1> QED BY <1>1, <1>2, <1>3, <1>4, <1>6 DEF Alters

-----------------------------------------------------------------------------
(* GrokStream: what holds of the reply while it is read.                   *)

Speech == [text : Text, sent : Text, thought : Text, aloud : Text, snapshot : BOOLEAN,
         calls : Seq(ToolCall)]

GrokTyped ==
  /\ style \in [format : {"openai", "claude", "json"}, silent : BOOLEAN]
  /\ spoken \in Speech /\ live \in Writer
  /\ events \in 0..MaxEvent
  /\ livePc \in {"read", "done", "broken"}

\* What the client has of a call, with a snapshot or without.
Got(snap, call, told) ==
  IF style.format = "json"
    THEN told = IF call.how \in {"done", "resumed", "late"} \/ snap THEN <<call.args>> ELSE <<>>
    ELSE CASE call.how \in {"open", "done"} -> told = <<call.args>>
           [] call.how = "cut"     -> Len(told) = 1 /\ told[1] <= call.args
           [] call.how = "resumed" -> IF style.format = "claude" THEN Len(told) = 1 /\ told[1] <= call.args
                                      ELSE Len(told) = 2 /\ told[1] <= call.args /\ told[2] = call.args
           [] call.how = "late"    -> told = IF style.format = "claude" THEN <<>> ELSE <<call.args>>
           [] call.how = "missed"  -> told = <<>>

LEMMA GotIs ==
  ASSUME NEW snap \in BOOLEAN, NEW call \in ToolCall, NEW told
  PROVE  /\ style.format = "json" /\ (call.how \in {"done", "resumed", "late"} \/ snap) =>
              (Got(snap, call, told) <=> told = <<call.args>>)
         /\ style.format = "json" /\ ~(call.how \in {"done", "resumed", "late"} \/ snap) =>
              (Got(snap, call, told) <=> told = <<>>)
         /\ style.format # "json" /\ call.how \in {"open", "done"} =>
              (Got(snap, call, told) <=> told = <<call.args>>)
         /\ style.format # "json" /\ call.how = "cut" =>
              (Got(snap, call, told) <=> Len(told) = 1 /\ told[1] <= call.args)
         /\ style.format = "claude" /\ call.how = "resumed" =>
              (Got(snap, call, told) <=> Len(told) = 1 /\ told[1] <= call.args)
         /\ style.format \notin {"json", "claude"} /\ call.how = "resumed" =>
              (Got(snap, call, told) <=> Len(told) = 2 /\ told[1] <= call.args /\ told[2] = call.args)
         /\ style.format = "claude" /\ call.how = "late" => (Got(snap, call, told) <=> told = <<>>)
         /\ style.format \notin {"json", "claude"} /\ call.how = "late" =>
              (Got(snap, call, told) <=> told = <<call.args>>)
         /\ style.format # "json" /\ call.how = "missed" => (Got(snap, call, told) <=> told = <<>>)
<1> DEFINE one == <<call.args>>
<1> HIDE DEF one
<1>1. Got(snap, call, told) <=>
        IF style.format = "json"
          THEN told = IF call.how \in {"done", "resumed", "late"} \/ snap THEN one ELSE <<>>
          ELSE CASE call.how \in {"open", "done"} -> told = one
                 [] call.how = "cut"     -> Len(told) = 1 /\ told[1] <= call.args
                 [] call.how = "resumed" -> IF style.format = "claude" THEN Len(told) = 1 /\ told[1] <= call.args
                                            ELSE Len(told) = 2 /\ told[1] <= call.args /\ told[2] = call.args
                 [] call.how = "late"    -> told = IF style.format = "claude" THEN <<>> ELSE one
                 [] call.how = "missed"  -> told = <<>>
  BY Zenon DEF Got, one
<1>2. CASE style.format = "json"
  BY <1>1, <1>2 DEF one
<1>3. CASE style.format # "json" /\ call.how \in {"open", "done"}
  BY <1>1, <1>3 DEF one
<1>4. CASE style.format # "json" /\ call.how = "cut"
  BY <1>1, <1>4 DEF one
<1>5. CASE style.format # "json" /\ call.how = "resumed"
  BY <1>1, <1>5 DEF one
<1>6. CASE style.format # "json" /\ call.how = "late"
  BY <1>1, <1>6 DEF one
<1>7. CASE style.format # "json" /\ call.how = "missed"
  BY <1>1, <1>7 DEF one
<1> QED BY <1>2, <1>3, <1>4, <1>5, <1>6, <1>7 DEF ToolCall

Matches(calls, all) ==
  Len(all) = Len(calls) /\ \A i \in 1..Len(calls) : Got(FALSE, calls[i], all[i])

\* The last call is announced and nothing came between.
Talks(calls) == calls # <<>> /\ Last1(calls).how = "open"

\* The calls while the upstream speaks, and the blocks.
Announced(v, sp) ==
  /\ Matches(sp.calls, v.calls)
  /\ v.cur <=> style.format # "json" /\ Talks(sp.calls)
  /\ Writing(v)
  /\ style.format # "claude" => v.open = {}
  /\ sp.thought = <<>> => v.open \subseteq {"text", "tool"} /\ ~v.overlap

\* The text: what was sent and what is held back is what the deltas said.
Delivered(v, sp) ==
  /\ ~sp.snapshot /\ Len(sp.sent) <= Len(sp.text)
  /\ IF style.format = "json" THEN v.text.heard = sp.sent
     ELSE Kept(sp.sent) => AllHeard(v.text) = sp.sent

\* The names: of both parts the client heard none, and no half of one.
Discreet(v, sp) ==
  style.format # "json" => Smooth(v.text, sp.sent) /\ Smooth(v.think, sp.aloud)

CallsSoFar ==
  /\ livePc = "read" => Announced(live, spoken)
  /\ CallsAreWhole

TextSoFar ==
  /\ livePc = "read" => Delivered(live, spoken)
  /\ TextIsWhole

NamesSoFar ==
  /\ livePc # "done" => Discreet(live, spoken)
  /\ livePc = "done" => NoNameInHalves

\* Every block that is open has its kind, the call that is being written is the
\* last one, the client has of every call what was said of it, what was sent and is
\* held back is what the deltas said, and no name of a silent provider is in it.
GrokInv == GrokTyped /\ CallsSoFar /\ TextSoFar /\ NamesSoFar

\* The last of a sequence is replaced.
LEMMA RelastIs ==
  ASSUME NEW S, NEW s \in Seq(S), s # <<>>, NEW x \in S
  PROVE  /\ Relast(s, x) \in Seq(S) /\ Len(Relast(s, x)) = Len(s)
         /\ \A i \in 1..Len(s) : Relast(s, x)[i] = IF i = Len(s) THEN x ELSE s[i]
         /\ Relast(s, x) # <<>> /\ Last1(Relast(s, x)) = x
         /\ Last1(s) \in S /\ Len(s) \in Nat \ {0} /\ Last1(s) = s[Len(s)]
<1> DEFINE f == SubSeq(s, 1, Len(s) - 1)
<1>1. f \in Seq(S) /\ s = Append(f, s[Len(s)]) /\ f = Front(s)
  BY AllButLast DEF Front
<1>2. Len(s) \in Nat \ {0} /\ s[Len(s)] \in S
  <2>1. Len(s) \in Nat /\ Len(s) # 0
    BY LenProperties, EmptySeq
  <2> QED BY <2>1, ElementOfSeq
<1> HIDE DEF f
<1>3. Len(f) + 1 = Len(s) /\ Len(f) \in Nat /\ \A i \in 1..Len(f) : s[i] = f[i]
  BY <1>1, <1>2, AppendProperties, LenProperties
<1> DEFINE t == Append(f, x)
<1>4. /\ t \in Seq(S) /\ Len(t) = Len(s) /\ t # <<>> /\ t[Len(s)] = x
      /\ \A i \in 1..Len(f) : t[i] = f[i]
  BY <1>1, <1>3, AppendProperties
<1>5. Relast(s, x) = t
  BY <1>1 DEF Relast
<1> HIDE DEF t
<1>6. \A i \in 1..Len(s) : t[i] = IF i = Len(s) THEN x ELSE s[i]
  BY <1>3, <1>4
<1> QED BY <1>2, <1>4, <1>5, <1>6 DEF Last1

LEMMA RelastCall ==
  ASSUME NEW calls \in Seq(ToolCall), calls # <<>>, NEW call \in ToolCall
  PROVE  /\ Relast(calls, call) \in Seq(ToolCall) /\ Relast(calls, call) # <<>>
         /\ Last1(Relast(calls, call)) = call
  BY RelastIs

LEMMA RelastTold ==
  ASSUME NEW all \in Seq(Seq(Nat)), all # <<>>, NEW told \in Seq(Nat)
  PROVE  /\ Relast(all, told) \in Seq(Seq(Nat)) /\ Len(Relast(all, told)) = Len(all)
         /\ \A i \in 1..Len(all) : Relast(all, told)[i] = IF i = Len(all) THEN told ELSE all[i]
  BY RelastIs

LEMMA LastAppend ==
  ASSUME NEW S, NEW s \in Seq(S), NEW x \in S
  PROVE  Append(s, x) \in Seq(S) /\ Append(s, x) # <<>> /\ Last1(Append(s, x)) = x
  BY AppendProperties DEF Last1

LEMMA OneTold ==
  ASSUME NEW n \in Nat
  PROVE  <<n>> \in Seq(Nat) /\ Len(<<n>>) = 1 /\ <<n>>[1] = n
  OBVIOUS

LEMMA MatchAppend ==
  ASSUME NEW calls \in Seq(ToolCall), NEW all \in Seq(Seq(Nat)), Matches(calls, all),
         NEW call \in ToolCall, NEW told \in Seq(Nat), Got(FALSE, call, told)
  PROVE  Matches(Append(calls, call), Append(all, told))
<1> DEFINE c == Append(calls, call)
           a == Append(all, told)
<1>1. /\ Len(c) = Len(calls) + 1 /\ Len(calls) \in Nat /\ c[Len(calls) + 1] = call
      /\ \A i \in 1..Len(calls) : c[i] = calls[i]
  BY AppendProperties, LenProperties
<1>2. /\ Len(a) = Len(all) + 1 /\ Len(all) \in Nat /\ a[Len(all) + 1] = told
      /\ \A i \in 1..Len(all) : a[i] = all[i]
  BY AppendProperties, LenProperties
<1>3. Len(all) = Len(calls) /\ \A i \in 1..Len(calls) : Got(FALSE, calls[i], all[i])
  BY DEF Matches
<1> HIDE DEF c, a
<1>4. \A i \in 1..Len(c) : i \in 1..Len(calls) \/ i = Len(calls) + 1
  BY <1>1
<1>5. ASSUME NEW i \in 1..Len(c) PROVE Got(FALSE, c[i], a[i])
  <2>1. CASE i \in 1..Len(calls)
    <3>1. c[i] = calls[i] /\ a[i] = all[i] /\ Got(FALSE, calls[i], all[i])
      BY <1>1, <1>2, <1>3, <2>1
    <3> QED BY <3>1, Zenon
  <2>2. CASE i = Len(calls) + 1
    <3>1. c[i] = call /\ a[i] = told
      BY <1>1, <1>2, <1>3, <2>2
    <3> QED BY <3>1, Zenon
  <2> QED BY <1>4, <2>1, <2>2
<1>6. Len(a) = Len(c)
  BY <1>1, <1>2, <1>3
<1> QED BY <1>5, <1>6 DEF Matches, c, a

\* The last call goes on, and the client is told more of it or nothing.
LEMMA MatchRelast ==
  ASSUME NEW calls \in Seq(ToolCall), NEW all \in Seq(Seq(Nat)), Matches(calls, all), calls # <<>>,
         NEW call \in ToolCall
  PROVE  /\ all # <<>> /\ Last1(all) \in Seq(Nat) /\ Got(FALSE, Last1(calls), Last1(all))
         /\ \A told \in Seq(Nat) :
              Got(FALSE, call, told) => Matches(Relast(calls, call), Relast(all, told))
         /\ Got(FALSE, call, Last1(all)) => Matches(Relast(calls, call), all)
<1> DEFINE c == Relast(calls, call)
           n == Len(calls)
<1>1. /\ Len(c) = n /\ n \in Nat \ {0} /\ Last1(calls) = calls[n]
      /\ \A i \in 1..n : c[i] = IF i = n THEN call ELSE calls[i]
  BY RelastIs
<1>2. Len(all) = n /\ \A i \in 1..n : Got(FALSE, calls[i], all[i])
  BY DEF Matches
<1>3. all # <<>>
  BY <1>1, <1>2, EmptySeq
<1>4. Last1(all) = all[n] /\ Last1(all) \in Seq(Nat)
  <2>1. Last1(all) \in Seq(Nat) /\ Last1(all) = all[Len(all)]
    BY <1>3, RelastIs
  <2> QED BY <1>2, <2>1
<1>8. n \in 1..n
  BY <1>1
<1> HIDE DEF c, n
<1>5. Got(FALSE, Last1(calls), Last1(all))
  <2>1. Got(FALSE, calls[n], all[n])
    BY <1>2, <1>8
  <2> QED BY <1>1, <1>4, <2>1, Zenon
<1>6. ASSUME NEW told \in Seq(Nat), Got(FALSE, call, told) PROVE Matches(c, Relast(all, told))
  <2> DEFINE a == Relast(all, told)
  <2>1. Len(a) = n /\ \A i \in 1..n : a[i] = IF i = n THEN told ELSE all[i]
    BY <1>2, <1>3, RelastTold
  <2> HIDE DEF a
  <2>2. \A i \in 1..n : Got(FALSE, c[i], a[i])
    BY <1>1, <1>2, <1>6, <2>1
  <2> QED BY <1>1, <2>1, <2>2 DEF Matches, a
<1>7. ASSUME Got(FALSE, call, Last1(all)) PROVE Matches(c, all)
  <2>1. \A i \in 1..n : Got(FALSE, c[i], all[i])
    BY <1>1, <1>2, <1>4, <1>7
  <2> QED BY <1>1, <1>2, <2>1 DEF Matches
<1> QED BY <1>3, <1>4, <1>5, <1>6, <1>7 DEF c

\* What holds while the upstream speaks is enough for the property.
LEMMA AnnouncedWhole ==
  ASSUME GrokTyped, Announced(live, spoken), livePc # "done", ~spoken.snapshot
  PROVE  CallsAreWhole
<1>1. /\ spoken.calls \in Seq(ToolCall) /\ live.calls \in Seq(Seq(Nat))
      /\ DOMAIN spoken.calls = 1..Len(spoken.calls) /\ DOMAIN live.calls = 1..Len(live.calls)
  BY LenProperties DEF GrokTyped, Speech, Writer
<1>2. Len(live.calls) = Len(spoken.calls)
  BY DEF Announced, Matches
<1>3. \A i \in 1..Len(spoken.calls) : HandedOn(spoken.calls[i], live.calls[i])
  BY DEF Announced, Matches, Got, HandedOn
<1>4. spoken.thought = <<>> => ~live.overlap
  BY DEF Announced
<1> QED BY <1>1, <1>2, <1>3, <1>4 DEF CallsAreWhole

LEMMA GrokStarts == GrokStreamInit => GrokInv
<1> SUFFICES ASSUME GrokStreamInit PROVE GrokInv
  OBVIOUS
<1> USE DEF GrokStreamInit
<1>1. <<>> \in Text /\ <<>> \in Seq(ToolCall) /\ <<>> \in Seq(Seq(Nat)) /\ Len(<<>>) = 0
  BY EmptySeq DEF Text
<1>2. Nothing \in Scrubber /\ Nothing.heard = <<>> /\ AllHeard(Nothing) = <<>>
  BY <1>1 DEF Nothing, Scrubber, Text, AllHeard
<1>3. spoken \in Speech /\ live \in Writer
  BY <1>1, <1>2 DEF Speech, Writer
<1>4. GrokTyped
  BY <1>3, GrokAssumption DEF GrokTyped
<1>5. Announced(live, spoken)
  BY <1>1 DEF Announced, Matches, Talks, Writing
<1>6. CallsSoFar
  BY <1>4, <1>5, AnnouncedWhole DEF CallsSoFar
<1>7. TextSoFar
  BY <1>1, <1>2 DEF TextSoFar, Delivered, TextIsWhole
<1>8. NamesSoFar
  <2>1. Clean(<<>>)
    BY <1>1, NameIs DEF Clean, Settled
  <2>2. <<>> = <<>> \o <<>>
    BY ConcatEmptySeq, <1>1 DEF Text
  <2>3. Nothing.pend = <<>> /\ Nothing.heard = <<>>
    BY DEF Nothing
  <2>4. Smooth(Nothing, <<>>)
    BY <1>1, <2>1, <2>2, <2>3 DEF Smooth
  <2> QED BY <2>4 DEF NamesSoFar, Discreet
<1> QED BY <1>4, <1>6, <1>7, <1>8 DEF GrokInv

LEMMA ReadStep ==
  ASSUME GrokInv, Reading, UNCHANGED <<style, livePc>>, spoken' \in Speech, live' \in Writer,
         Announced(live', spoken'), Delivered(live', spoken'), Discreet(live', spoken')
  PROVE  GrokInv'
<1>1. events' \in 0..MaxEvent
  BY GrokAssumption DEF GrokInv, GrokTyped, Reading
<1>2. GrokTyped'
  BY <1>1 DEF GrokInv, GrokTyped
<1>3. livePc' = "read"
  BY DEF Reading
<1>4. CallsSoFar'
  <2>1. /\ spoken'.calls \in Seq(ToolCall) /\ live'.calls \in Seq(Seq(Nat))
        /\ DOMAIN spoken'.calls = 1..Len(spoken'.calls) /\ DOMAIN live'.calls = 1..Len(live'.calls)
    BY LenProperties DEF Speech, Writer
  <2>2. Len(live'.calls) = Len(spoken'.calls)
    BY DEF Announced, Matches
  <2>3. ~spoken'.snapshot
    BY DEF Delivered
  <2>4. ASSUME NEW i \in 1..Len(spoken'.calls)
        PROVE  HandedOn(spoken.calls[i], live.calls[i])'
    <3>1. Got(FALSE, spoken'.calls[i], live'.calls[i])
      BY DEF Announced, Matches
    <3> QED BY <2>3, <3>1 DEF Got, HandedOn
  <2>5. spoken'.thought = <<>> => ~live'.overlap
    BY DEF Announced
  <2>6. CallsAreWhole'
    BY <1>3, <2>1, <2>2, <2>4, <2>5 DEF CallsAreWhole, HandedOn
  <2>7. Announced(live, spoken)'
    BY DEF Announced, Matches, Got
  <2> QED BY <2>6, <2>7 DEF CallsSoFar
<1>5. TextSoFar'
  BY <1>3 DEF TextSoFar, Delivered, TextIsWhole, Kept
<1>6. NamesSoFar'
  BY <1>3 DEF NamesSoFar, Discreet, Smooth
<1> QED BY <1>2, <1>4, <1>5, <1>6 DEF GrokInv

\* What a read step finds.
LEMMA Found ==
  ASSUME GrokInv, Reading
  PROVE  /\ livePc = "read" /\ spoken \in Speech /\ live \in Writer
         /\ Announced(live, spoken) /\ Delivered(live, spoken) /\ Discreet(live, spoken)
         /\ spoken.calls \in Seq(ToolCall) /\ live.calls \in Seq(Seq(Nat))
         /\ spoken.text \in Text /\ spoken.sent \in Text /\ spoken.thought \in Text
         /\ spoken.aloud \in Text /\ live.text \in Scrubber /\ live.think \in Scrubber
         /\ live["think"] = live.think /\ live["text"] = live.text
  BY DEF GrokInv, GrokTyped, CallsSoFar, TextSoFar, NamesSoFar, Reading, Writer, Speech

\* What was emitted stays smooth.
LEMMA EmitSmooth ==
  ASSUME NEW s \in Scrubber, NEW read \in Text, NEW d \in Text, Smooth(s, read),
         NEW u, u = IF d = <<>> THEN s ELSE Scrub(s, d)
  PROVE  Smooth(u, read \o d)
<1>1. CASE d = <<>>
  <2>1. read \o <<>> = read
    BY ConcatEmptySeq DEF Text
  <2> QED BY <1>1, <2>1
<1>2. CASE d # <<>>
  BY <1>2, ScrubSmooth
<1> QED BY <1>1, <1>2

LEMMA Pieces == \A d \in Piece : d \in Text
  BY GrokAssumption DEF Text

\* A step that says nothing of a part leaves its names as they are.
LEMMA QuietStep ==
  ASSUME Discreet(live, spoken), live'.text = live.text, live'.think = live.think,
         spoken'.sent = spoken.sent, spoken'.aloud = spoken.aloud
  PROVE  Discreet(live', spoken')
  BY DEF Discreet

LEMMA ReasoningDeltaKeeps ==
  ASSUME GrokInv, ReasoningDelta
  PROVE  GrokInv'
<1>0. Reading /\ UNCHANGED <<style, livePc>>
  BY DEF ReasoningDelta
<1>1. PICK d \in Piece :
        /\ spoken' = [spoken EXCEPT !.thought = @ \o d, !.aloud = @ \o d]
        /\ live' = IF style.format = "json" THEN Raw(live, "think", d) ELSE Emit(live, "think", d)
  BY DEF ReasoningDelta
<1>2. d \in Text /\ "think" \in Part
  BY Pieces DEF Part
<1>3. /\ spoken.thought \o d \in Text /\ Len(spoken.thought \o d) = Len(spoken.thought) + Len(d)
      /\ spoken.aloud \o d \in Text
  BY <1>0, <1>2, Found, TextConcat
<1>4. /\ spoken' \in Speech /\ spoken'.calls = spoken.calls /\ spoken'.text = spoken.text
      /\ spoken'.sent = spoken.sent /\ spoken'.snapshot = spoken.snapshot
      /\ spoken'.thought = spoken.thought \o d /\ spoken'.aloud = spoken.aloud \o d
  BY <1>0, <1>1, <1>3, Found DEF Speech
<1>5. PICK s \in Scrubber :
        /\ Speaks(live', live, "think", s)
        /\ style.format # "json" => s = IF d = <<>> THEN live["think"] ELSE Scrub(live["think"], d)
        /\ Shows(live', live, "think")
        /\ \/ live'.open = live.open /\ live'.overlap = live.overlap
           \/ style.format # "json" /\ d # <<>>
  <2>1. CASE style.format = "json"
    BY <1>0, <1>1, <1>2, <2>1, Found, RawIs DEF Shows
  <2>2. CASE style.format # "json"
    BY <1>0, <1>1, <1>2, <2>2, Found, EmitIs
  <2> QED BY <2>1, <2>2
<1>6. /\ live' \in Writer /\ live'.text = live.text /\ live'.cur = live.cur /\ live'.think = s
      /\ live'.calls = live.calls
  BY <1>5 DEF Speaks
<1>7. d # <<>> => spoken'.thought # <<>>
  <2>1. Len(<<>>) = 0 /\ Len(d) \in Nat /\ Len(spoken.thought) \in Nat /\ (Len(d) = 0 => d = <<>>)
    BY <1>0, <1>2, Found, TextAt, EmptySeq DEF Text
  <2> QED BY <1>3, <1>4, <2>1
<1>8. spoken'.thought = <<>> => spoken.thought = <<>>
  <2>1. spoken.thought \o <<>> = spoken.thought
    BY <1>0, Found, ConcatEmptySeq DEF Text
  <2> QED BY <1>4, <1>7, <2>1
<1>9. Announced(live', spoken')
  <2>1. /\ Writing(live) => Writing(live')
        /\ style.format # "claude" /\ live.open = {} => live'.open = {}
    BY <1>0, <1>2, <1>5, Found, WritingStays
  <2>2. Announced(live, spoken)
    BY <1>0, Found
  <2>3. spoken'.thought = <<>> => live'.open \subseteq {"text", "tool"} /\ ~live'.overlap
    BY <1>5, <1>7, <1>8, <2>2 DEF Announced
  <2> QED BY <1>4, <1>6, <2>1, <2>2, <2>3 DEF Announced
<1>10. Delivered(live', spoken')
  BY <1>0, <1>4, <1>6, Found DEF Delivered
<1>12. Discreet(live', spoken')
  <2> SUFFICES ASSUME style.format # "json" PROVE Discreet(live', spoken')
    BY DEF Discreet
  <2>1. Smooth(live.think, spoken.aloud) /\ Smooth(live.text, spoken.sent)
    BY <1>0, Found DEF Discreet
  <2>2. Smooth(s, spoken.aloud \o d)
    BY <1>0, <1>2, <1>5, <2>1, Found, EmitSmooth
  <2> QED BY <1>4, <1>6, <2>1, <2>2 DEF Discreet
<1> QED BY <1>0, <1>4, <1>6, <1>9, <1>10, <1>12, ReadStep

LEMMA ReasoningItemDoneKeeps ==
  ASSUME GrokInv, ReasoningItemDone
  PROVE  GrokInv'
<1> DEFINE v == [live EXCEPT !.best = spoken.thought]
<1>0. /\ Reading /\ UNCHANGED <<style, livePc>> /\ spoken.thought # <<>>
      /\ spoken' = [spoken EXCEPT !.aloud = @ \o spoken.thought]
      /\ live' = IF style.format = "json" THEN Raw(v, "think", spoken.thought)
                                          ELSE Emit(v, "think", spoken.thought)
  BY DEF ReasoningItemDone
<1>1. /\ v \in Writer /\ v.text = live.text /\ v.cur = live.cur /\ v.calls = live.calls
      /\ v.open = live.open /\ v.overlap = live.overlap /\ v["think"] = live.think
  BY <1>0, Found DEF Writer
<1> HIDE DEF v
<1>2. spoken.thought \in Text /\ "think" \in Part
  BY <1>0, Found DEF Part
<1>3. PICK s \in Scrubber :
        /\ Speaks(live', v, "think", s)
        /\ style.format # "json" =>
             s = IF spoken.thought = <<>> THEN v["think"] ELSE Scrub(v["think"], spoken.thought)
        /\ Shows(live', v, "think")
  <2>1. CASE style.format = "json"
    BY <1>0, <1>1, <1>2, <2>1, RawIs DEF Shows
  <2>2. CASE style.format # "json"
    BY <1>0, <1>1, <1>2, <2>2, EmitIs
  <2> QED BY <2>1, <2>2
<1>4. /\ live' \in Writer /\ live'.text = live.text /\ live'.cur = live.cur /\ live'.think = s
      /\ live'.calls = live.calls
  BY <1>1, <1>3 DEF Speaks
<1>5. /\ spoken' \in Speech /\ spoken'.calls = spoken.calls /\ spoken'.text = spoken.text
      /\ spoken'.sent = spoken.sent /\ spoken'.snapshot = spoken.snapshot
      /\ spoken'.thought = spoken.thought /\ spoken'.aloud = spoken.aloud \o spoken.thought
  <2>1. spoken.aloud \o spoken.thought \in Text
    BY <1>0, Found, TextConcat
  <2> QED BY <1>0, <2>1, Found DEF Speech
<1>6. Announced(live', spoken')
  <2>1. /\ Writing(v) => Writing(live')
        /\ style.format # "claude" /\ v.open = {} => live'.open = {}
    BY <1>1, <1>2, <1>3, WritingStays
  <2>2. Announced(live, spoken)
    BY <1>0, Found
  <2>3. /\ Writing(live) => Writing(live')
        /\ style.format # "claude" /\ live.open = {} => live'.open = {}
    BY <1>1, <2>1 DEF Writing
  <2> QED BY <1>0, <1>4, <1>5, <2>2, <2>3 DEF Announced
<1>7. Delivered(live', spoken')
  BY <1>0, <1>4, <1>5, Found DEF Delivered
<1>8. Discreet(live', spoken')
  <2> SUFFICES ASSUME style.format # "json" PROVE Discreet(live', spoken')
    BY DEF Discreet
  <2>1. Smooth(live.think, spoken.aloud) /\ Smooth(live.text, spoken.sent)
    BY <1>0, Found DEF Discreet
  <2>2. Smooth(s, spoken.aloud \o spoken.thought)
    BY <1>0, <1>1, <1>2, <1>3, <2>1, Found, EmitSmooth
  <2> QED BY <1>4, <1>5, <2>1, <2>2 DEF Discreet
<1> QED BY <1>0, <1>4, <1>5, <1>6, <1>7, <1>8, ReadStep

\* A text inside the last call cuts it.
LEMMA InterruptedIs ==
  ASSUME GrokTyped, Matches(spoken.calls, live.calls)
  PROVE  LET calls == Interrupted(spoken.calls) IN
         calls \in Seq(ToolCall) /\ Matches(calls, live.calls) /\ ~Talks(calls)
<1>1. spoken.calls \in Seq(ToolCall) /\ live.calls \in Seq(Seq(Nat))
  BY DEF GrokTyped, Speech, Writer
<1>2. CASE ~InCall
  BY <1>1, <1>2 DEF Interrupted, InCall, Talks
<1>3. CASE InCall
  <2> DEFINE last == Last1(spoken.calls)
             call == [args |-> last.args, how |-> "cut"]
  <2>1. spoken.calls # <<>> /\ last \in ToolCall /\ last.how \in {"open", "cut"}
    BY <1>1, <1>3, RelastIs DEF InCall
  <2>2. call \in ToolCall /\ call.how = "cut" /\ call.args = last.args /\ last.args \in Nat
    BY <2>1 DEF ToolCall
  <2>3. Interrupted(spoken.calls) = Relast(spoken.calls, call)
    BY <1>3 DEF Interrupted
  <2>4. Got(FALSE, last, Last1(live.calls)) /\ Last1(live.calls) \in Seq(Nat)
    BY <1>1, <2>1, <2>2, MatchRelast
  <2> HIDE DEF call, last
  <2>5. Got(FALSE, call, Last1(live.calls))
    <3>1. CASE style.format = "json"
      BY <2>1, <2>2, <2>4, <3>1, GotIs
    <3>2. CASE style.format # "json" /\ last.how = "open"
      <4>1. Last1(live.calls) = <<last.args>>
        BY <2>1, <2>4, <3>2, GotIs
      <4>2. Len(Last1(live.calls)) = 1 /\ Last1(live.calls)[1] <= call.args
        BY <2>2, <4>1
      <4> QED BY <2>2, <3>2, <4>2, GotIs
    <3>3. CASE style.format # "json" /\ last.how = "cut"
      BY <2>1, <2>2, <2>4, <3>3, GotIs
    <3> QED BY <2>1, <3>1, <3>2, <3>3
  <2>6. Matches(Relast(spoken.calls, call), live.calls)
    BY <1>1, <2>1, <2>2, <2>5, MatchRelast
  <2>7. Relast(spoken.calls, call) \in Seq(ToolCall) /\ Last1(Relast(spoken.calls, call)) = call
    BY <1>1, <2>1, <2>2, RelastIs
  <2> QED BY <2>2, <2>3, <2>6, <2>7 DEF Talks
<1> QED BY <1>2, <1>3

LEMMA TextDeltaKeeps ==
  ASSUME GrokInv, TextDelta
  PROVE  GrokInv'
<1>0. Reading /\ UNCHANGED <<style, livePc>>
  BY DEF TextDelta
<1>1. PICK d \in Piece :
        /\ spoken' = [spoken EXCEPT !.text = @ \o d, !.sent = @ \o d, !.calls = Interrupted(@)]
        /\ live' = IF style.format = "json" THEN Raw(live, "text", d)
                                            ELSE Emit(FinishCall(live), "text", d)
  BY DEF TextDelta
<1>2. d \in Text /\ "text" \in Part
  BY Pieces DEF Part
<1>3. /\ spoken.text \o d \in Text /\ Len(spoken.text \o d) = Len(spoken.text) + Len(d)
      /\ spoken.sent \o d \in Text /\ Len(spoken.sent \o d) = Len(spoken.sent) + Len(d)
      /\ Len(spoken.text) \in Nat /\ Len(spoken.sent) \in Nat /\ Len(d) \in Nat
  BY <1>0, <1>2, Found, TextConcat, TextAt
<1> DEFINE calls == Interrupted(spoken.calls)
<1>9. /\ calls \in Seq(ToolCall) /\ Matches(calls, live.calls) /\ ~Talks(calls)
  <2>1. GrokTyped /\ Announced(live, spoken)
    BY <1>0, Found DEF GrokInv
  <2>2. Matches(spoken.calls, live.calls)
    BY <2>1 DEF Announced
  <2> QED BY <2>1, <2>2, InterruptedIs
<1> HIDE DEF calls
<1>4. /\ spoken' \in Speech /\ spoken'.calls = calls /\ spoken'.text = spoken.text \o d
      /\ spoken'.sent = spoken.sent \o d /\ spoken'.snapshot = spoken.snapshot
      /\ spoken'.thought = spoken.thought /\ spoken'.aloud = spoken.aloud
  BY <1>0, <1>1, <1>3, <1>9, Found DEF Speech, calls
<1>5. ~spoken'.snapshot /\ Len(spoken'.sent) <= Len(spoken'.text)
  <2>1. ~spoken.snapshot /\ Len(spoken.sent) <= Len(spoken.text)
    BY <1>0, Found DEF Delivered
  <2> QED BY <1>3, <1>4, <2>1
<1>6. CASE style.format = "json"
  <2> DEFINE s == [pend |-> live.text.pend, heard |-> live.text.heard \o d]
  <2>1. /\ Speaks(live', live, "text", s) /\ live'.open = live.open /\ live'.overlap = live.overlap
    BY <1>0, <1>1, <1>2, <1>6, Found, RawIs
  <2>2. s.heard = live.text.heard \o d
    OBVIOUS
  <2> HIDE DEF s
  <2>3. /\ live' \in Writer /\ live'.text = s /\ live'.cur = live.cur /\ live'.think = live.think
        /\ live'.calls = live.calls
    BY <2>1 DEF Speaks
  <2>4. Announced(live', spoken')
    <3>1. Announced(live, spoken)
      BY <1>0, Found
    <3>2. Writing(live') /\ ~live'.cur
      BY <1>6, <2>1, <2>3, <3>1 DEF Announced, Writing
    <3> QED BY <1>4, <1>6, <1>9, <2>1, <2>3, <3>1, <3>2 DEF Announced
  <2>5. Delivered(live', spoken')
    BY <1>0, <1>4, <1>5, <1>6, <2>2, <2>3, Found DEF Delivered
  <2>7. Discreet(live', spoken')
    BY <1>6 DEF Discreet
  <2> QED BY <1>0, <1>4, <2>3, <2>4, <2>5, <2>7, ReadStep
<1>7. CASE style.format # "json"
  <2> DEFINE v == FinishCall(live)
  <2>1. /\ v \in Writer /\ v.text = live.text /\ ~v.cur /\ v.calls = live.calls
        /\ v.think = live.think
        /\ v.open = (IF live.cur THEN live.open \ {"tool"} ELSE live.open)
        /\ v.overlap = live.overlap
    BY <1>0, Found, FinishCallIs
  <2> HIDE DEF v
  <2>2. live' = Emit(v, "text", d)
    BY <1>1, <1>7 DEF v
  <2>3. PICK s \in Scrubber :
          /\ Speaks(live', v, "text", s) /\ Shows(live', v, "text")
          /\ s = IF d = <<>> THEN v["text"] ELSE Scrub(v["text"], d)
    BY <1>2, <2>1, <2>2, EmitIs
  <2>4. /\ live' \in Writer /\ live'.text = s /\ ~live'.cur /\ live'.calls = live.calls
        /\ live'.think = live.think
    BY <2>1, <2>3 DEF Speaks
  <2>5. ASSUME spoken.thought = <<>>
        PROVE  live'.open \subseteq {"text", "tool"} /\ ~live'.overlap
    <3>1. v.open \subseteq {"text"} /\ ~v.overlap
      BY <1>0, <2>1, <2>5, Found DEF Announced, Writing
    <3>2. CASE live'.open = v.open /\ live'.overlap = v.overlap
      BY <3>1, <3>2
    <3>3. CASE Aloud(live', v, "text") /\ style.format # "claude"
      BY <3>1, <3>3 DEF Aloud
    <3>4. CASE Aloud(live', v, "text") /\ style.format = "claude" /\ "text" \in v.open
      BY <3>1, <3>4 DEF Aloud
    <3>5. CASE Aloud(live', v, "text") /\ style.format = "claude" /\ "text" \notin v.open
      <4>1. v.open = {}
        BY <3>1, <3>5
      <4>2. /\ live'.open = (v.open \ {"thinking"}) \cup {"text"}
            /\ live'.overlap = (v.overlap \/ v.open \ {"thinking"} # {})
        BY <3>5, Zenon DEF Aloud
      <4>3. ~(v.open \ {"thinking"} # {})
        BY <4>1
      <4>4. live'.overlap = v.overlap
        <5>1. v.overlap = FALSE
          BY <2>1, <3>1 DEF Writer
        <5>2. (v.overlap \/ v.open \ {"thinking"} # {}) = FALSE
          BY <4>3, <5>1
        <5> QED BY <4>2, <5>1, <5>2
      <4> QED BY <3>1, <4>1, <4>2, <4>4
    <3> QED BY <2>3, <3>2, <3>3, <3>4, <3>5 DEF Shows
  <2>6. Announced(live', spoken')
    <3>1. Announced(live, spoken)
      BY <1>0, Found
    <3>2. Writing(v) /\ (style.format # "claude" => v.open = {})
      BY <2>1, <3>1 DEF Announced, Writing
    <3>3. Writing(live') /\ (style.format # "claude" => live'.open = {})
      BY <1>2, <2>1, <2>3, <3>2, WritingStays
    <3> QED BY <1>4, <1>9, <2>4, <2>5, <3>3 DEF Announced
  <2>7. ASSUME Kept(spoken.sent \o d) PROVE AllHeard(live'.text) = spoken.sent \o d
    <3>1. Kept(spoken.sent)
      BY <1>0, <1>2, <2>7, Found, KeptParts
    <3>2. AllHeard(live.text) = spoken.sent /\ live.text \in Scrubber
      BY <1>0, <1>7, <3>1, Found DEF Delivered, Writer
    <3>3. CASE d = <<>>
      <4>1. spoken.sent \o <<>> = spoken.sent
        BY <1>0, Found, ConcatEmptySeq DEF Text
      <4> QED BY <2>1, <2>3, <2>4, <3>2, <3>3, <4>1
    <3>4. CASE d # <<>>
      <4>1. live'.text = Scrub(live.text, d)
        BY <2>1, <2>3, <2>4, <3>4
      <4> QED BY <1>2, <2>7, <3>2, <4>1, ScrubKeeps
    <3> QED BY <3>3, <3>4
  <2>8. Delivered(live', spoken')
    BY <1>4, <1>5, <1>7, <2>7 DEF Delivered
  <2>10. Discreet(live', spoken')
    <3>1. Smooth(live.think, spoken.aloud) /\ Smooth(live.text, spoken.sent)
      BY <1>0, <1>7, Found DEF Discreet
    <3>2. s = IF d = <<>> THEN live.text ELSE Scrub(live.text, d)
      BY <2>1, <2>3
    <3>3. Smooth(s, spoken.sent \o d)
      BY <1>0, <1>2, <3>1, <3>2, Found, EmitSmooth
    <3> QED BY <1>4, <2>4, <3>1, <3>3 DEF Discreet
  <2> QED BY <1>0, <1>4, <2>4, <2>6, <2>8, <2>10, ReadStep
<1> QED BY <1>6, <1>7

LEMMA MissedDeltaKeeps ==
  ASSUME GrokInv, MissedDelta
  PROVE  GrokInv'
<1>0. Reading /\ UNCHANGED <<style, livePc>> /\ live' = live
  BY DEF MissedDelta
<1>1. PICK d \in Piece : spoken' = [spoken EXCEPT !.text = @ \o d]
  BY DEF MissedDelta
<1>2. d \in Text
  BY Pieces
<1>3. /\ spoken.text \o d \in Text /\ Len(spoken.text \o d) = Len(spoken.text) + Len(d)
      /\ Len(spoken.text) \in Nat /\ Len(spoken.sent) \in Nat /\ Len(d) \in Nat
  BY <1>0, <1>2, Found, TextConcat, TextAt
<1>4. /\ spoken' \in Speech /\ spoken'.calls = spoken.calls /\ spoken'.text = spoken.text \o d
      /\ spoken'.sent = spoken.sent /\ spoken'.snapshot = spoken.snapshot
      /\ spoken'.thought = spoken.thought /\ spoken'.aloud = spoken.aloud
  BY <1>0, <1>1, <1>3, Found DEF Speech
<1>5. Announced(live', spoken')
  BY <1>0, <1>4, Found DEF Announced
<1>6. Delivered(live', spoken')
  <2>1. Delivered(live, spoken)
    BY <1>0, Found
  <2>2. Len(spoken'.sent) <= Len(spoken'.text)
    BY <1>3, <1>4, <2>1 DEF Delivered
  <2> QED BY <1>0, <1>4, <2>1, <2>2 DEF Delivered
<1>7. live' \in Writer
  BY <1>0, Found
<1>8. Discreet(live', spoken')
  BY <1>0, <1>4, Found, QuietStep
<1> QED BY <1>0, <1>4, <1>5, <1>6, <1>7, <1>8, ReadStep

\* A step that speaks only of calls keeps the texts.
LEMMA CallStep ==
  ASSUME GrokInv, Reading, UNCHANGED <<style, livePc>>,
         NEW calls \in Seq(ToolCall), spoken' = [spoken EXCEPT !.calls = calls],
         live' \in Writer, live'.text = live.text, live'.think = live.think,
         Matches(calls, live'.calls), live'.cur <=> style.format # "json" /\ Talks(calls),
         Writing(live'), style.format # "claude" => live'.open = {},
         spoken.thought = <<>> => live'.open \subseteq {"text", "tool"} /\ ~live'.overlap
  PROVE  GrokInv'
<1>1. /\ spoken' \in Speech /\ spoken'.calls = calls /\ spoken'.text = spoken.text
      /\ spoken'.sent = spoken.sent /\ spoken'.snapshot = spoken.snapshot
      /\ spoken'.thought = spoken.thought /\ spoken'.aloud = spoken.aloud
  BY Found DEF Speech
<1>2. Announced(live', spoken')
  BY <1>1 DEF Announced
<1>3. Delivered(live', spoken')
  BY <1>1, Found DEF Delivered
<1>4. Discreet(live', spoken')
  BY <1>1, Found, QuietStep
<1> QED BY <1>1, <1>2, <1>3, <1>4, ReadStep

LEMMA CallAddedKeeps ==
  ASSUME GrokInv, CallAdded
  PROVE  GrokInv'
<1>0. Reading /\ UNCHANGED <<style, livePc>>
  BY DEF CallAdded
<1> DEFINE e == OpenBlock(FinishCall(CloseBlock(CloseBlock(live, "thinking"), "text")), "tool")
<1>1. PICK n \in 0..1 :
        /\ spoken' = [spoken EXCEPT !.calls = Append(@, [args |-> n, how |-> "open"])]
        /\ live' = IF style.format = "json" THEN [live EXCEPT !.calls = Append(@, <<>>)]
                   ELSE [e EXCEPT !.cur = TRUE, !.calls = Append(@, <<n>>)]
  BY DEF CallAdded
<1> DEFINE call == [args |-> n, how |-> "open"]
           calls == Append(spoken.calls, call)
<1>2. /\ call \in ToolCall /\ call.how = "open" /\ call.args = n
      /\ <<n>> \in Seq(Nat) /\ <<>> \in Seq(Nat)
  BY OneTold DEF ToolCall
<1>3. spoken' = [spoken EXCEPT !.calls = calls]
  BY <1>1
<1> HIDE DEF call
<1>4. calls \in Seq(ToolCall) /\ Talks(calls)
  BY <1>0, <1>2, Found, LastAppend DEF Talks
<1>5. CASE style.format = "json"
  <2>1. /\ live' \in Writer /\ live'.text = live.text /\ live'.think = live.think
        /\ live'.calls = Append(live.calls, <<>>) /\ live'.cur = live.cur
        /\ live'.open = live.open /\ live'.overlap = live.overlap
    <3>1. Append(live.calls, <<>>) \in Seq(Seq(Nat))
      BY <1>0, <1>2, Found, LastAppend
    <3> QED BY <1>0, <1>1, <1>5, <3>1, Found DEF Writer
  <2>2. Got(FALSE, call, <<>>)
    BY <1>2, <1>5, GotIs
  <2>3. Matches(calls, live'.calls)
    BY <1>0, <1>2, <2>1, <2>2, Found, MatchAppend DEF Announced
  <2>4. Announced(live, spoken)
    BY <1>0, Found
  <2> HIDE DEF calls
  <2> QED BY <1>0, <1>3, <1>4, <1>5, <2>1, <2>3, <2>4, CallStep DEF Announced, Writing
<1>6. CASE style.format # "json"
  <2> DEFINE a == CloseBlock(live, "thinking")
             b == CloseBlock(a, "text")
             c == FinishCall(b)
  <2>1. Alters(a, live) /\ a.open = live.open \ {"thinking"} /\ a.overlap = live.overlap
    BY <1>0, Found, CloseBlockIs
  <2>2. e = OpenBlock(c, "tool")
    OBVIOUS
  <2> HIDE DEF e
  <2>3. Alters(b, a) /\ b.open = a.open \ {"text"} /\ b.overlap = a.overlap
    <3> HIDE DEF a
    <3> QED BY <2>1, CloseBlockIs DEF Alters
  <2>4. /\ c \in Writer /\ c.think = b.think /\ c.text = b.text /\ c.calls = b.calls
        /\ c.open = (IF b.cur THEN b.open \ {"tool"} ELSE b.open) /\ c.overlap = b.overlap
    <3> HIDE DEF b
    <3> QED BY <2>3, FinishCallIs DEF Alters
  <2>5. Alters(e, c) /\ Opens(e, c, "tool")
    <3> HIDE DEF c
    <3> QED BY <2>2, <2>4, OpenBlockIs DEF Kinds
  <2> HIDE DEF a, b, c
  <2>6. /\ e \in Writer /\ e.text = live.text /\ e.think = live.think /\ e.calls = live.calls
        /\ b.cur = live.cur
    BY <2>1, <2>3, <2>4, <2>5 DEF Alters
  <2>7. /\ live' \in Writer /\ live'.text = live.text /\ live'.think = live.think
        /\ live'.calls = Append(live.calls, <<n>>) /\ live'.cur
        /\ live'.open = e.open /\ live'.overlap = e.overlap
    <3>1. Append(live.calls, <<n>>) \in Seq(Seq(Nat))
      BY <1>0, <1>2, Found, LastAppend
    <3>2. live' = [e EXCEPT !.cur = TRUE, !.calls = Append(e.calls, <<n>>)]
      BY <1>1, <1>6
    <3> QED BY <2>6, <3>1, <3>2 DEF Writer
  <2>8. Got(FALSE, call, <<n>>)
    BY <1>2, <1>6, GotIs
  <2>9. Matches(calls, live'.calls)
    BY <1>0, <1>2, <2>7, <2>8, Found, MatchAppend DEF Announced
  <2>10. Announced(live, spoken)
    BY <1>0, Found
  <2>11. c.open = {} /\ c.overlap = live.overlap
    <3>1. live.open \subseteq {"text", "thinking", "tool"}
      BY <1>0, Found DEF Writer, Kinds
    <3> QED BY <2>1, <2>3, <2>4, <2>6, <2>10, <3>1 DEF Announced, Writing
  <2>12. spoken.thought = <<>> => live'.open \subseteq {"text", "tool"} /\ ~live'.overlap
    BY <2>5, <2>7, <2>10, <2>11 DEF Opens, Announced
  <2>13. style.format # "claude" => live'.open = {}
    BY <2>5, <2>7, <2>11 DEF Opens
  <2>14. Writing(live') /\ (live'.cur <=> style.format # "json" /\ Talks(calls))
    BY <1>4, <1>6, <2>7 DEF Writing
  <2> HIDE DEF calls
  <2> QED BY <1>0, <1>3, <1>4, <2>7, <2>9, <2>12, <2>13, <2>14, CallStep
<1> QED BY <1>5, <1>6

\* The last call, of which the client has one part or nothing.
LEMMA LastCall ==
  ASSUME GrokInv, Reading, InCall
  PROVE  LET call == Last1(spoken.calls)
             told == Last1(live.calls)
         IN  /\ spoken.calls # <<>> /\ live.calls # <<>> /\ call \in ToolCall /\ told \in Seq(Nat)
             /\ call.how \in {"open", "cut"} /\ call.args \in Nat
             /\ Got(FALSE, call, told) /\ Announced(live, spoken)
             /\ live.cur => call.how = "open" /\ style.format # "json"
             /\ ~live.cur /\ call.how = "open" => style.format = "json"
<1>1. /\ spoken.calls # <<>> /\ Last1(spoken.calls).how \in {"open", "cut"}
      /\ spoken.calls \in Seq(ToolCall) /\ live.calls \in Seq(Seq(Nat)) /\ Announced(live, spoken)
  BY Found DEF InCall
<1>2. Last1(spoken.calls) \in ToolCall
  BY <1>1, RelastIs
<1>3. /\ live.calls # <<>> /\ Last1(live.calls) \in Seq(Nat)
      /\ Got(FALSE, Last1(spoken.calls), Last1(live.calls))
  BY <1>1, <1>2, MatchRelast DEF Announced
<1> QED BY <1>1, <1>2, <1>3 DEF Announced, Talks, ToolCall

LEMMA CallArgumentsKeeps ==
  ASSUME GrokInv, CallArguments
  PROVE  GrokInv'
<1> DEFINE old == Last1(spoken.calls)
           told == Last1(live.calls)
           call == [args |-> old.args + 1, how |-> old.how]
           calls == Relast(spoken.calls, call)
<1>0. /\ Reading /\ UNCHANGED <<style, livePc>> /\ InCall
      /\ spoken' = [spoken EXCEPT !.calls = calls]
      /\ live' = IF live.cur THEN [live EXCEPT !.calls = Relast(@, <<old.args + 1>>)] ELSE live
  BY DEF CallArguments
<1>1. /\ spoken.calls # <<>> /\ live.calls # <<>> /\ old \in ToolCall /\ told \in Seq(Nat)
      /\ old.how \in {"open", "cut"} /\ old.args \in Nat
      /\ Got(FALSE, old, told) /\ Announced(live, spoken)
      /\ live.cur => old.how = "open" /\ style.format # "json"
      /\ ~live.cur /\ old.how = "open" => style.format = "json"
  BY <1>0, LastCall
<1>2. /\ call \in ToolCall /\ call.how = old.how /\ call.args = old.args + 1
      /\ <<old.args + 1>> \in Seq(Nat)
  BY <1>1, OneTold DEF ToolCall
<1> HIDE DEF old, told, call
<1>3. /\ calls \in Seq(ToolCall) /\ calls # <<>> /\ Last1(calls) = call
  <2>1. spoken.calls \in Seq(ToolCall)
    BY <1>0, Found
  <2> QED BY <1>1, <1>2, <2>1, RelastCall
<1>4. Talks(calls) <=> Talks(spoken.calls)
  BY <1>1, <1>2, <1>3 DEF Talks, old
<1>5. CASE live.cur
  <2> DEFINE all == Relast(live.calls, <<old.args + 1>>)
  <2>1. all \in Seq(Seq(Nat))
    <3>1. live.calls \in Seq(Seq(Nat))
      BY <1>0, Found
    <3> QED BY <1>1, <1>2, <3>1, RelastTold
  <2>2. Got(FALSE, call, <<old.args + 1>>)
    BY <1>1, <1>2, <1>5, GotIs
  <2>3. Matches(calls, all)
    BY <1>0, <1>1, <1>2, <2>2, Found, MatchRelast DEF Announced
  <2> HIDE DEF all, calls
  <2>4. live' = [live EXCEPT !.calls = all]
    BY <1>0, <1>5 DEF all
  <2>5. /\ live' \in Writer /\ live'.text = live.text /\ live'.think = live.think
        /\ live'.calls = all /\ live'.cur = live.cur
        /\ live'.open = live.open /\ live'.overlap = live.overlap
    BY <1>0, <2>1, <2>4, Found DEF Writer
  <2> QED BY <1>0, <1>1, <1>3, <1>4, <2>3, <2>5, CallStep DEF Announced, Writing
<1>6. CASE ~live.cur
  <2>1. Got(FALSE, call, told)
    <3>1. CASE style.format = "json"
      BY <1>1, <1>2, <3>1, GotIs
    <3>2. CASE style.format # "json"
      <4>1. old.how = "cut"
        BY <1>1, <1>6, <3>2
      <4>2. Len(told) = 1 /\ told[1] <= old.args
        BY <1>1, <3>2, <4>1, GotIs
      <4>3. told[1] \in Nat
        <5>1. 1 \in 1..Len(told)
          BY <4>2
        <5> QED BY <1>1, <5>1, ElementOfSeq
      <4>4. told[1] <= call.args
        BY <1>1, <1>2, <4>2, <4>3
      <4> QED BY <1>2, <3>2, <4>1, <4>2, <4>4, GotIs
    <3> QED BY <3>1, <3>2
  <2>2. Matches(calls, live.calls)
    BY <1>0, <1>1, <1>2, <2>1, Found, MatchRelast DEF Announced, told
  <2> HIDE DEF calls
  <2>3. live' = live
    BY <1>0, <1>6
  <2> QED BY <1>0, <1>1, <1>3, <1>4, <2>2, <2>3, Found, CallStep DEF Announced
<1> QED BY <1>5, <1>6

\* One more number at the end of at most one.
LEMMA TwoTold ==
  ASSUME NEW told \in Seq(Nat), NEW n \in Nat
  PROVE  /\ Append(told, n) \in Seq(Nat)
         /\ told = <<>> => Append(told, n) = <<n>>
         /\ Len(told) = 1 => /\ Len(Append(told, n)) = 2 /\ Append(told, n)[1] = told[1]
                             /\ Append(told, n)[2] = n
<1>1. /\ Append(told, n) \in Seq(Nat) /\ Len(Append(told, n)) = Len(told) + 1
      /\ \A i \in 1..Len(told) : Append(told, n)[i] = told[i]
      /\ Append(told, n)[Len(told) + 1] = n
  BY AppendProperties
<1>2. Append(<<>>, n) = <<n>>
  OBVIOUS
<1>3. ASSUME Len(told) = 1
      PROVE  /\ Len(Append(told, n)) = 2 /\ Append(told, n)[1] = told[1] /\ Append(told, n)[2] = n
  <2>1. 1 \in 1..Len(told) /\ Len(told) + 1 = 2
    BY <1>3
  <2> QED BY <1>1, <2>1
<1> QED BY <1>1, <1>2, <1>3

LEMMA CallDoneKeeps ==
  ASSUME GrokInv, CallDone
  PROVE  GrokInv'
<1> DEFINE old == Last1(spoken.calls)
           told == Last1(live.calls)
<1>0. Reading /\ UNCHANGED <<style, livePc>> /\ InCall
  BY DEF CallDone
<1>1. /\ spoken.calls # <<>> /\ live.calls # <<>> /\ old \in ToolCall /\ told \in Seq(Nat)
      /\ old.how \in {"open", "cut"} /\ old.args \in Nat
      /\ Got(FALSE, old, told) /\ Announced(live, spoken)
      /\ live.cur => old.how = "open" /\ style.format # "json"
      /\ ~live.cur /\ old.how = "open" => style.format = "json"
  BY <1>0, LastCall
<1> DEFINE again(w) == CASE live.cur                            -> <<w>>
                         [] ~live.cur /\ style.format = "claude" -> told
                         [] ~live.cur /\ style.format # "claude" -> Append(told, w)
<1>2. PICK n \in 0..1 :
        LET whole == IF old.args = 0 THEN n ELSE old.args IN
        /\ spoken' = [spoken EXCEPT !.calls = Relast(@, [args |-> whole, how |-> Ended(old.how)])]
        /\ live' = [FinishCall(live) EXCEPT !.calls = Relast(@, again(whole))]
  BY DEF CallDone
<1> DEFINE whole == IF old.args = 0 THEN n ELSE old.args
           call == [args |-> whole, how |-> Ended(old.how)]
           calls == Relast(spoken.calls, call)
           next == again(whole)
           all == Relast(live.calls, next)
           v == FinishCall(live)
<1>3. whole \in Nat /\ old.args <= whole
  BY <1>1
<1>4. /\ v \in Writer /\ v.text = live.text /\ v.think = live.think /\ ~v.cur /\ v.calls = live.calls
      /\ v.open = (IF live.cur THEN live.open \ {"tool"} ELSE live.open) /\ v.overlap = live.overlap
  BY <1>0, Found, FinishCallIs
<1>5. spoken' = [spoken EXCEPT !.calls = calls] /\ live' = [v EXCEPT !.calls = all]
  <2>1. spoken' = [spoken EXCEPT !.calls = calls] /\ live' = [v EXCEPT !.calls = Relast(v.calls, next)]
    BY <1>2
  <2> QED BY <1>4, <2>1
<1>6. /\ call \in ToolCall /\ call.args = whole
      /\ call.how = (IF old.how = "open" THEN "done" ELSE "resumed")
  BY <1>3 DEF Ended, ToolCall
<1> HIDE DEF call, v, old, told, whole
<1>7. /\ next \in Seq(Nat)
      /\ live.cur => next = <<whole>>
      /\ ~live.cur /\ style.format = "claude" => next = told
      /\ ~live.cur /\ style.format # "claude" => next = Append(told, whole)
  BY <1>1, <1>3, OneTold, TwoTold
<1> HIDE DEF next
<1>8. Got(FALSE, call, next)
  <2>1. CASE live.cur
    BY <1>1, <1>6, <1>7, <2>1, GotIs
  <2>2. CASE style.format = "json"
    <3>1. told = <<>> /\ ~live.cur
      BY <1>1, <2>2, GotIs
    <3>2. next = <<whole>>
      BY <1>3, <1>7, <2>2, <3>1, TwoTold
    <3> QED BY <1>1, <1>6, <2>2, <3>2, GotIs
  <2>3. CASE ~live.cur /\ style.format # "json"
    <3>1. old.how = "cut" /\ Len(told) = 1 /\ told[1] <= old.args /\ told[1] \in Nat
      <4>1. old.how = "cut"
        BY <1>1, <2>3
      <4>2. Len(told) = 1 /\ told[1] <= old.args
        BY <1>1, <2>3, <4>1, GotIs
      <4>3. 1 \in 1..Len(told)
        BY <4>2
      <4> QED BY <1>1, <4>1, <4>2, <4>3, ElementOfSeq
    <3>2. told[1] <= whole
      BY <1>1, <1>3, <3>1
    <3>3. CASE style.format = "claude"
      BY <1>6, <1>7, <2>3, <3>1, <3>2, <3>3, GotIs
    <3>4. CASE style.format # "claude"
      <4>0. next = Append(told, whole)
        BY <1>7, <2>3, <3>4
      <4>1. Len(next) = 2 /\ next[1] = told[1] /\ next[2] = whole
        BY <1>1, <1>3, <3>1, <4>0, TwoTold
      <4> QED BY <1>6, <2>3, <3>1, <3>2, <3>4, <4>1, GotIs
    <3> QED BY <3>3, <3>4
  <2> QED BY <2>1, <2>2, <2>3
<1>14. spoken.calls \in Seq(ToolCall) /\ live.calls \in Seq(Seq(Nat)) /\ Matches(spoken.calls, live.calls)
  BY <1>0, Found DEF Announced
<1>9. Matches(calls, all)
  BY <1>1, <1>6, <1>7, <1>8, <1>14, MatchRelast
<1>10. calls \in Seq(ToolCall) /\ Last1(calls) = call /\ all \in Seq(Seq(Nat))
  <2>1. calls \in Seq(ToolCall) /\ Last1(calls) = call
    BY <1>1, <1>6, <1>14, RelastCall
  <2>2. all \in Seq(Seq(Nat))
    BY <1>1, <1>7, <1>14, RelastTold
  <2> QED BY <2>1, <2>2
<1>11. ~Talks(calls)
  BY <1>6, <1>10 DEF Talks
<1> HIDE DEF calls, all
<1>12. /\ live' \in Writer /\ live'.text = live.text /\ live'.think = live.think /\ ~live'.cur
       /\ live'.calls = all /\ live'.open = v.open /\ live'.overlap = live.overlap
  BY <1>4, <1>5, <1>10 DEF Writer
<1>13. /\ Writing(live') /\ (style.format # "claude" => live'.open = {})
       /\ spoken.thought = <<>> => live'.open \subseteq {"text", "tool"} /\ ~live'.overlap
  BY <1>1, <1>4, <1>12 DEF Announced, Writing
<1> QED BY <1>0, <1>5, <1>9, <1>10, <1>11, <1>12, <1>13, CallStep

LEMMA CallOnlyDoneKeeps ==
  ASSUME GrokInv, CallOnlyDone
  PROVE  GrokInv'
<1>0. Reading /\ UNCHANGED <<style, livePc>> /\ ~InCall
  BY DEF CallOnlyDone
<1>1. PICK n \in 0..1, how \in {"late", "missed"} :
        /\ spoken' = [spoken EXCEPT !.calls = Append(@, [args |-> n, how |-> how])]
        /\ live' = [live EXCEPT !.calls =
                      Append(@, IF how = "missed" \/ style.format = "claude" THEN <<>> ELSE <<n>>)]
  BY DEF CallOnlyDone
<1> DEFINE call == [args |-> n, how |-> how]
           told == IF how = "missed" \/ style.format = "claude" THEN <<>> ELSE <<n>>
           calls == Append(spoken.calls, call)
           all == Append(live.calls, told)
<1>2. call \in ToolCall /\ call.args = n /\ call.how = how /\ how \in {"late", "missed"}
  BY DEF ToolCall
<1>3. told \in Seq(Nat)
  BY OneTold
<1>4. spoken' = [spoken EXCEPT !.calls = calls] /\ live' = [live EXCEPT !.calls = all]
  BY <1>1
<1>5. Got(FALSE, call, told)
  BY <1>2, GotIs
<1> HIDE DEF call, told
<1>6. calls \in Seq(ToolCall) /\ all \in Seq(Seq(Nat)) /\ Last1(calls) = call
  BY <1>0, <1>2, <1>3, Found, LastAppend
<1>7. Matches(calls, all)
  BY <1>0, <1>2, <1>3, <1>5, Found, MatchAppend DEF Announced
<1>8. ~Talks(calls)
  BY <1>2, <1>6 DEF Talks
<1> HIDE DEF calls, all
<1>9. Announced(live, spoken) /\ ~live.cur
  <2>1. Announced(live, spoken)
    BY <1>0, Found
  <2> QED BY <1>0, <2>1 DEF Announced, Talks, InCall
<1>10. /\ live' \in Writer /\ live'.text = live.text /\ live'.think = live.think
       /\ live'.calls = all /\ live'.cur = live.cur
       /\ live'.open = live.open /\ live'.overlap = live.overlap
  BY <1>0, <1>4, <1>6, Found DEF Writer
<1> QED BY <1>0, <1>4, <1>6, <1>7, <1>8, <1>9, <1>10, CallStep DEF Announced, Writing

-----------------------------------------------------------------------------
(* GrokStream: the end of a reply.                                         *)

\* What the writer is left with: the calls as they were, and all blocks closed.
Closed(u, v) == u \in Writer /\ u.calls = v.calls /\ u.open = {}

\* The text a snapshot brings.
Snapped(snap) == IF snap THEN spoken.text ELSE <<>>

LEMMA BestIs ==
  ASSUME GrokTyped, NEW snap \in BOOLEAN
  PROVE  /\ BestThinking(snap) \in Text /\ Snapped(snap) \in Text
         /\ spoken.text \in Text /\ spoken.sent \in Text /\ live \in Writer
         /\ \A v \in Writer : v.text \in Scrubber /\ v.think \in Scrubber /\ v.text.heard \in Text
              /\ v.think.heard \in Text /\ v.text.pend \in Text /\ v["text"] = v.text
              /\ v["think"] = v.think
  BY NothingKept DEF BestThinking, Snapped, GrokTyped, Speech, Writer, Scrubber, Text

LEMMA EndChunksIs ==
  ASSUME GrokTyped, NEW snap \in BOOLEAN, EndChunks(snap), Writing(live)
  PROVE  /\ Closed(live', live)
         /\ Kept(AllHeard(live.text)) =>
              live'.text.heard =
                AllHeard(live.text) \o Rewritten(Rest(Snapped(snap), AllHeard(live.text)))
         /\ live'.best = live.best
         /\ ~snap => live'.text.heard = Flush(live.text).heard
         /\ ~snap /\ live.best = <<>> => live'.think.heard = Flush(live.think).heard
<1> DEFINE a0 == Drain(live, "think")
           a == Drain(a0, "text")
           r == Rest(BestThinking(snap), a.think.heard)
           b == Emit(a, "think", r)
           q == Rewritten(Rest(Snapped(snap), a.text.heard))
           w == [b EXCEPT !.text.heard = @ \o q]
<1>0. "text" \in Part /\ "think" \in Part
  BY DEF Part
<1>1. live' = Finished(w)
  BY DEF EndChunks, Snapped
<1>2. Speaks(a0, live, "think", Flush(live["think"])) /\ Shows(a0, live, "think")
  BY <1>0, BestIs, DrainIs
<1> HIDE DEF a0
<1>3. /\ a0 \in Writer /\ a0.think = Flush(live.think) /\ a0.best = live.best /\ a0.text = live.text /\ a0.cur = live.cur /\ a0.calls = live.calls
      /\ Writing(a0)
  <2>1. Writing(a0)
    BY <1>0, <1>2, BestIs, WritingStays
  <2> QED BY <1>2, <2>1, BestIs DEF Speaks
<1>4. Speaks(a, a0, "text", Flush(a0["text"])) /\ Shows(a, a0, "text")
  BY <1>0, <1>3, DrainIs
<1> HIDE DEF a
<1>5. /\ a \in Writer /\ a.think = Flush(live.think) /\ a.best = live.best /\ a.text = Flush(live.text) /\ a.cur = live.cur /\ a.calls = live.calls
      /\ Writing(a)
  <2>1. Writing(a)
    BY <1>0, <1>3, <1>4, WritingStays
  <2> QED BY <1>3, <1>4, <2>1, BestIs DEF Speaks
<1>6. r \in Text /\ (~snap /\ live.best = <<>> => r = <<>>)
  BY <1>5, BestIs, RestIs DEF BestThinking
<1> HIDE DEF r
<1>7. PICK sb \in Scrubber : Speaks(b, a, "think", sb) /\ Shows(b, a, "think") /\ (r = <<>> => b = a)
  BY <1>0, <1>5, <1>6, EmitIs
<1> HIDE DEF b
<1>8. /\ b \in Writer /\ b.text = a.text /\ b.cur = live.cur /\ b.calls = live.calls
      /\ b.best = live.best /\ (r = <<>> => b.think = Flush(live.think))
      /\ Writing(b)
  <2>1. Writing(b)
    BY <1>0, <1>5, <1>7, WritingStays
  <2> QED BY <1>5, <1>7, <2>1 DEF Speaks
<1>9. q \in Text /\ (~snap => q = <<>>)
  BY <1>5, BestIs, RestIs, RewrittenIs, NothingKept DEF Snapped
<1> HIDE DEF q
<1>10. w = Raw(b, "text", q)
  BY DEF Raw
<1> HIDE DEF w
<1>11. /\ w \in Writer /\ w.text.heard = a.text.heard \o q /\ w.cur = live.cur
       /\ w.calls = live.calls /\ w.best = live.best /\ w.think = b.think /\ Writing(w)
  <2> DEFINE s == [pend |-> b["text"].pend, heard |-> b["text"].heard \o q]
  <2>1. Speaks(w, b, "text", s) /\ w.open = b.open
    BY <1>0, <1>8, <1>9, <1>10, RawIs
  <2>2. s.heard = a.text.heard \o q
    BY <1>8
  <2> HIDE DEF s
  <2> QED BY <1>8, <2>1, <2>2 DEF Speaks, Writing
<1>12. /\ live' \in Writer /\ live'.text.heard = a.text.heard \o q
       /\ live'.calls = w.calls /\ live'.open = {}
       /\ live'.best = live.best /\ live'.think = b.think
  BY <1>1, <1>11, FinishedIs
<1>14. ASSUME Kept(AllHeard(live.text)) PROVE a.text.heard = AllHeard(live.text)
  BY <1>5, <1>14, BestIs, FlushIs
<1>15. ASSUME ~snap PROVE live'.text.heard = Flush(live.text).heard
  <2>1. a.text.heard \in Text /\ a.text.heard \o <<>> = a.text.heard
    <3>1. a.text.heard \in Text
      BY <1>5, BestIs
    <3> QED BY <3>1, ConcatEmptySeq DEF Text
  <2> QED BY <1>5, <1>9, <1>12, <1>15, <2>1
<1>16. ~snap /\ live.best = <<>> => live'.think.heard = Flush(live.think).heard
  BY <1>6, <1>8, <1>12
<1> QED BY <1>11, <1>12, <1>14, <1>15, <1>16 DEF Closed, q

LEMMA EndBlocksIs ==
  ASSUME GrokTyped, NEW snap \in BOOLEAN, EndBlocks(snap), Writing(live)
  PROVE  /\ Closed(live', live)
         /\ Kept(AllHeard(live.text)) /\ ~snap => live'.text.heard = AllHeard(live.text)
         /\ live'.best = live.best
         /\ ~snap => live'.text.heard = Flush(live.text).heard
         /\ ~snap /\ live.best = <<>> => live'.think.heard = Flush(live.think).heard
<1> DEFINE r == Rest(BestThinking(snap), live.think.heard)
           a0 == Emit(live, "think", r)
           a == CloseBlock(a0, "thinking")
           q == Rest(Snapped(snap), a.text.heard)
           b == Emit(a, "text", q)
           c == Drain(b, "think")
           w == Drain(c, "text")
<1>0. "text" \in Part /\ "think" \in Part
  BY DEF Part
<1>1. live' = Finished(w)
  BY DEF EndBlocks, Snapped
<1>2. r \in Text /\ (~snap /\ live.best = <<>> => r = <<>>)
  BY BestIs, RestIs DEF BestThinking
<1> HIDE DEF r
<1>3. PICK sa \in Scrubber : Speaks(a0, live, "think", sa) /\ Shows(a0, live, "think") /\ (r = <<>> => a0 = live)
  BY <1>0, <1>2, BestIs, EmitIs
<1> HIDE DEF a0
<1>4. /\ a0 \in Writer /\ a0.text = live.text /\ a0.cur = live.cur /\ a0.calls = live.calls
      /\ a0.best = live.best /\ (r = <<>> => a0.think = live.think)
      /\ Writing(a0)
  <2>1. Writing(a0)
    BY <1>0, <1>3, BestIs, WritingStays
  <2> QED BY <1>3, <2>1 DEF Speaks
<1>5. /\ a \in Writer /\ a.text = live.text /\ a.cur = live.cur /\ a.calls = live.calls
      /\ a.best = live.best /\ (r = <<>> => a.think = live.think) /\ Writing(a)
  <2>1. Alters(a, a0) /\ a.open = a0.open \ {"thinking"}
    BY <1>4, CloseBlockIs
  <2> HIDE DEF a
  <2> QED BY <1>4, <2>1 DEF Alters, Writing
<1> HIDE DEF a
<1>6. q \in Text /\ (~snap => q = <<>>)
  BY <1>5, BestIs, RestIs DEF Snapped
<1> HIDE DEF q
<1>7. PICK s \in Scrubber : Speaks(b, a, "text", s) /\ Shows(b, a, "text") /\ (q = <<>> => b = a)
  BY <1>0, <1>5, <1>6, EmitIs
<1> HIDE DEF b
<1>8. /\ b \in Writer /\ b.cur = live.cur /\ b.calls = live.calls
      /\ ~snap => b.text = live.text
      /\ b.best = live.best /\ (r = <<>> => b.think = live.think) /\ Writing(b)
  <2>1. Writing(b)
    BY <1>0, <1>5, <1>7, WritingStays
  <2> QED BY <1>5, <1>6, <1>7, <2>1 DEF Speaks
<1>9. Speaks(c, b, "think", Flush(b["think"])) /\ Shows(c, b, "think")
  BY <1>0, <1>8, DrainIs
<1> HIDE DEF c
<1>10. /\ c \in Writer /\ c.text = b.text /\ c.cur = live.cur /\ c.calls = live.calls
       /\ c.best = live.best /\ (r = <<>> => c.think = Flush(live.think))
       /\ Writing(c)
  <2>1. Writing(c)
    BY <1>0, <1>8, <1>9, WritingStays
  <2> QED BY <1>8, <1>9, <2>1, BestIs DEF Speaks
<1>11. Speaks(w, c, "text", Flush(c["text"])) /\ Shows(w, c, "text")
  BY <1>0, <1>10, DrainIs
<1> HIDE DEF w
<1>12. /\ w \in Writer /\ w.text = Flush(b.text) /\ w.cur = live.cur /\ w.calls = live.calls
       /\ w.best = live.best /\ (r = <<>> => w.think = Flush(live.think))
       /\ Writing(w)
  <2>1. Writing(w)
    BY <1>0, <1>10, <1>11, WritingStays
  <2> QED BY <1>10, <1>11, <2>1, BestIs DEF Speaks
<1>13. /\ live' \in Writer /\ live'.text = Flush(b.text)
       /\ live'.calls = w.calls /\ live'.open = {}
       /\ live'.best = live.best /\ (r = <<>> => live'.think = Flush(live.think))
  BY <1>1, <1>12, FinishedIs
<1>15. ASSUME Kept(AllHeard(live.text)), ~snap PROVE live'.text.heard = AllHeard(live.text)
  <2>1. live'.text = Flush(live.text) /\ live.text \in Scrubber
    BY <1>8, <1>13, <1>15, BestIs
  <2> QED BY <1>15, <2>1, FlushIs
<1>16. /\ ~snap => live'.text.heard = Flush(live.text).heard
       /\ ~snap /\ live.best = <<>> => live'.think.heard = Flush(live.think).heard
  BY <1>2, <1>8, <1>13
<1> QED BY <1>12, <1>13, <1>15, <1>16 DEF Closed

\* The calls of a collected reply, with those that only the snapshot has.
AllCalls(snap) ==
  [i \in DOMAIN live.calls |->
     IF snap /\ live.calls[i] = <<>> THEN <<spoken.calls[i].args>> ELSE live.calls[i]]

LEMMA AllCallsIs ==
  ASSUME GrokTyped, NEW snap \in BOOLEAN, Len(live.calls) = Len(spoken.calls)
  PROVE  /\ AllCalls(snap) \in Seq(Seq(Nat)) /\ Len(AllCalls(snap)) = Len(spoken.calls)
         /\ \A i \in 1..Len(spoken.calls) : AllCalls(snap)[i] =
              IF snap /\ live.calls[i] = <<>> THEN <<spoken.calls[i].args>> ELSE live.calls[i]
<1> DEFINE n == Len(spoken.calls)
           f == [i \in 1..n |->
                   IF snap /\ live.calls[i] = <<>> THEN <<spoken.calls[i].args>> ELSE live.calls[i]]
<1>1. /\ spoken.calls \in Seq(ToolCall) /\ live.calls \in Seq(Seq(Nat)) /\ n \in Nat
      /\ DOMAIN live.calls = 1..n
  BY LenProperties DEF GrokTyped, Speech, Writer
<1>2. ASSUME NEW i \in 1..n
      PROVE  live.calls[i] \in Seq(Nat) /\ <<spoken.calls[i].args>> \in Seq(Nat)
  <2>1. spoken.calls[i] \in ToolCall /\ live.calls[i] \in Seq(Nat)
    BY <1>1, ElementOfSeq
  <2> QED BY <2>1, OneTold DEF ToolCall
<1>3. AllCalls(snap) = f
  BY <1>1 DEF AllCalls
<1>4. f \in [1..n -> Seq(Nat)]
  BY <1>2
<1> HIDE DEF n
<1>5. f \in Seq(Seq(Nat)) /\ Len(f) = n
  <2> HIDE DEF f
  <2> QED BY <1>1, <1>4
<1>6. \A i \in 1..n : f[i] = IF snap /\ live.calls[i] = <<>> THEN <<spoken.calls[i].args>> ELSE live.calls[i]
  OBVIOUS
<1> HIDE DEF f
<1> QED BY <1>3, <1>5, <1>6 DEF n

LEMMA EndCollectedIs ==
  ASSUME GrokTyped, NEW snap \in BOOLEAN, EndCollected(snap), Len(live.calls) = Len(spoken.calls)
  PROVE  /\ live' \in Writer /\ live'.open = live.open
         /\ live'.calls = AllCalls(snap)
         /\ live'.text.heard =
              Rewritten(IF Snapped(snap) # <<>> /\ Len(Snapped(snap)) >= Len(live.text.heard)
                          THEN Snapped(snap) ELSE live.text.heard)
         /\ style.silent => ~HasName(live'.text.heard) /\ ~HasName(live'.think.heard)
<1> DEFINE Longer(whole, heard) == IF whole # <<>> /\ Len(whole) >= Len(heard) THEN whole ELSE heard
           x == Rewritten(Longer(Snapped(snap), live.text.heard))
           y == Rewritten(Longer(BestThinking(snap), live.think.heard))
<1>1. x \in Text /\ y \in Text /\ (style.silent => ~HasName(x) /\ ~HasName(y))
  <2>1. Longer(Snapped(snap), live.text.heard) \in Text
    BY BestIs
  <2>2. Longer(BestThinking(snap), live.think.heard) \in Text
    BY BestIs
  <2> HIDE DEF Longer
  <2> QED BY <2>1, <2>2, RewrittenIs, RenamedClean DEF Rewritten
<1> DEFINE z == AllCalls(snap)
<1>9. z \in Seq(Seq(Nat))
  BY AllCallsIs
<1>2. live' = [live EXCEPT !.text.heard = x, !.think.heard = y, !.calls = z]
  BY BestIs DEF EndCollected, Snapped, AllCalls
<1> HIDE DEF x, y, z
<1>3. live' = [live EXCEPT !.text = [live.text EXCEPT !.heard = x],
                           !.think = [live.think EXCEPT !.heard = y],
                           !.calls = z]
  BY <1>2, BestIs DEF Writer
<1>4. /\ [live.text EXCEPT !.heard = x] = [pend |-> live.text.pend, heard |-> x]
      /\ [live.think EXCEPT !.heard = y] = [pend |-> live.think.pend, heard |-> y]
  BY <1>1, BestIs, HeardIs
<1> DEFINE s == [pend |-> live.text.pend, heard |-> x]
           u == [pend |-> live.think.pend, heard |-> y]
<1>5. s \in Scrubber /\ u \in Scrubber /\ s.heard = x /\ u.heard = y
  BY <1>1, BestIs DEF Scrubber, Text
<1> HIDE DEF s, u
<1>6. live' = [live EXCEPT !.text = s, !.think = u, !.calls = z]
  BY <1>3, <1>4 DEF s, u
<1>7. /\ live' \in Writer /\ live'.calls = z
      /\ live'.open = live.open /\ live'.text = s /\ live'.think = u
  BY <1>5, <1>6, <1>9, BestIs DEF Writer
<1>8. style.silent => ~HasName(live'.text.heard) /\ ~HasName(live'.think.heard)
  BY <1>1, <1>5, <1>7
<1> QED BY <1>5, <1>7, <1>8 DEF x, z

LEMMA BestLonger ==
  ASSUME NEW text \in Text, NEW sent \in Text, Len(sent) <= Len(text)
  PROVE  (IF text # <<>> /\ Len(text) >= Len(sent) THEN text ELSE sent) = text
<1>1. CASE text = <<>>
  <2>1. Len(text) = 0 /\ Len(sent) \in Nat
    BY <1>1, TextAt, EmptySeq
  <2>2. sent = <<>>
    BY <2>1, EmptySeq DEF Text
  <2> QED BY <1>1, <2>2
<1>2. CASE text # <<>>
  <2>1. Len(text) >= Len(sent)
    BY TextAt
  <2> QED BY <1>2, <2>1
<1> QED BY <1>1, <1>2

\* A stream that leaves the calls as they are and closes its blocks has them whole.
LEMMA ClosedWhole ==
  ASSUME GrokInv, livePc = "read", style' = style, livePc' = "done", style.format # "json",
         NEW snap \in BOOLEAN, spoken' = [spoken EXCEPT !.snapshot = snap], Closed(live', live)
  PROVE  CallsAreWhole' /\ live' \in Writer
<1>1. spoken'.calls = spoken.calls /\ live'.calls = live.calls /\ live'.open = {} /\ live' \in Writer
  BY DEF GrokInv, GrokTyped, Speech, Closed
<1>2. CallsAreWhole
  BY DEF GrokInv, CallsSoFar
<1>3. ASSUME NEW i \in DOMAIN spoken.calls
      PROVE  HandedOn(spoken.calls[i], live.calls[i])'
  <2>1. HandedOn(spoken.calls[i], live.calls[i])
    BY <1>2 DEF CallsAreWhole
  <2> QED BY <1>1, <2>1 DEF HandedOn
<1> QED BY <1>1, <1>2, <1>3 DEF CallsAreWhole, HandedOn

\* A reply that ends with everything handed on fits.
LEMMA EndStep ==
  ASSUME GrokInv, livePc = "read", UNCHANGED <<style, events>>, livePc' = "done",
         NEW snap \in BOOLEAN, spoken' = [spoken EXCEPT !.snapshot = snap],
         live' \in Writer, CallsAreWhole', TextIsWhole', NoNameInHalves'
  PROVE  GrokInv'
<1>1. /\ spoken' \in Speech /\ spoken'.calls = spoken.calls
  BY DEF GrokInv, GrokTyped, Speech
<1>2. GrokTyped'
  BY <1>1 DEF GrokInv, GrokTyped
<1>4. CallsSoFar'
  BY DEF CallsSoFar
<1>5. TextSoFar'
  BY DEF TextSoFar
<1>6. NamesSoFar'
  BY DEF NamesSoFar
<1> QED BY <1>2, <1>4, <1>5, <1>6 DEF GrokInv

\* The text of a collected reply.
LEMMA CollectedStep ==
  ASSUME GrokInv, livePc = "read", UNCHANGED <<style, events>>, livePc' = "done",
         NEW snap \in BOOLEAN, spoken' = [spoken EXCEPT !.snapshot = snap],
         style.format = "json", EndCollected(snap)
  PROVE  GrokInv'
<1>1. Announced(live, spoken) /\ Delivered(live, spoken) /\ GrokTyped
  BY DEF GrokInv, CallsSoFar, TextSoFar
<1>9. Len(live.calls) = Len(spoken.calls) /\ live.open = {}
  BY <1>1 DEF Announced, Matches
<1>2. /\ live' \in Writer /\ live'.open = live.open /\ live'.calls = AllCalls(snap)
      /\ style.silent => ~HasName(live'.text.heard) /\ ~HasName(live'.think.heard)
      /\ live'.text.heard =
           Rewritten(IF Snapped(snap) # <<>> /\ Len(Snapped(snap)) >= Len(live.text.heard)
                       THEN Snapped(snap) ELSE live.text.heard)
  BY <1>1, <1>9, EndCollectedIs
<1>4. live.text.heard = spoken.sent /\ Len(spoken.sent) <= Len(spoken.text)
  BY <1>1 DEF Delivered
<1>5. /\ spoken'.snapshot = snap /\ spoken'.text = spoken.text /\ spoken'.sent = spoken.sent
      /\ spoken.text \in Text /\ spoken.sent \in Text
  BY <1>1 DEF GrokTyped, Speech
<1>6. live'.text.heard = Rewritten(IF snap THEN spoken.text ELSE spoken.sent)
  <2>1. CASE snap
    BY <1>2, <1>4, <1>5, <2>1, BestLonger DEF Snapped
  <2>2. CASE ~snap
    BY <1>2, <1>4, <2>2 DEF Snapped
  <2> QED BY <2>1, <2>2
<1>7. TextIsWhole'
  BY <1>5, <1>6 DEF TextIsWhole, Expected, Rewritten
<1>8. NoNameInHalves'
  BY <1>2 DEF NoNameInHalves, HasName
<1>10. /\ spoken.calls \in Seq(ToolCall) /\ spoken'.calls = spoken.calls
       /\ live'.calls \in Seq(Seq(Nat)) /\ Len(live'.calls) = Len(spoken.calls)
       /\ DOMAIN live'.calls = 1..Len(spoken.calls) /\ DOMAIN spoken'.calls = 1..Len(spoken.calls)
       /\ \A i \in 1..Len(spoken.calls) : live'.calls[i] =
            IF snap /\ live.calls[i] = <<>> THEN <<spoken.calls[i].args>> ELSE live.calls[i]
  <2>1. spoken.calls \in Seq(ToolCall) /\ spoken'.calls = spoken.calls
    BY <1>1 DEF GrokTyped, Speech
  <2>2. /\ live'.calls \in Seq(Seq(Nat)) /\ Len(live'.calls) = Len(spoken.calls)
        /\ \A i \in 1..Len(spoken.calls) : live'.calls[i] =
             IF snap /\ live.calls[i] = <<>> THEN <<spoken.calls[i].args>> ELSE live.calls[i]
    BY <1>1, <1>2, <1>9, AllCallsIs
  <2>3. DOMAIN live'.calls = 1..Len(live'.calls) /\ DOMAIN spoken.calls = 1..Len(spoken.calls)
    BY <2>1, <2>2, LenProperties
  <2> QED BY <2>1, <2>2, <2>3
<1>11. ASSUME NEW i \in 1..Len(spoken.calls) PROVE Got(snap, spoken.calls[i], live'.calls[i])
  <2>1. Got(FALSE, spoken.calls[i], live.calls[i])
    BY <1>1 DEF Announced, Matches
  <2>2. live'.calls[i] =
          IF snap /\ live.calls[i] = <<>> THEN <<spoken.calls[i].args>> ELSE live.calls[i]
    BY <1>10
  <2>3. spoken.calls[i] \in ToolCall
    BY <1>10, ElementOfSeq
  <2> QED BY <2>1, <2>2, <2>3, GotIs
<1>12. CallsAreWhole'
  <2>1. (\A i \in DOMAIN spoken.calls : HandedOn(spoken.calls[i], live.calls[i]))'
    BY <1>5, <1>10, <1>11 DEF Got, HandedOn
  <2> QED BY <1>2, <1>9, <1>10, <2>1 DEF CallsAreWhole, HandedOn
<1> QED BY <1>2, <1>7, <1>8, <1>12, EndStep

LEMMA EndReplyKeeps ==
  ASSUME GrokInv, EndReply
  PROVE  GrokInv'
<1>0. PICK snap \in BOOLEAN :
        /\ spoken' = [spoken EXCEPT !.snapshot = snap]
        /\ style.format = "openai" => EndChunks(snap)
        /\ style.format = "claude" => EndBlocks(snap)
        /\ style.format = "json" => EndCollected(snap)
  BY DEF EndReply, GrokInv, GrokTyped
<1>1. livePc = "read" /\ UNCHANGED <<style, events>> /\ livePc' = "done"
  BY DEF EndReply
<1>2. Announced(live, spoken) /\ Delivered(live, spoken) /\ Discreet(live, spoken) /\ GrokTyped
  BY <1>1 DEF GrokInv, CallsSoFar, TextSoFar, NamesSoFar
<1>3. /\ spoken'.snapshot = snap /\ spoken'.text = spoken.text /\ spoken'.sent = spoken.sent
      /\ spoken'.aloud = spoken.aloud
      /\ spoken.text \in Text /\ spoken.sent \in Text
      /\ style.format \in {"openai", "claude", "json"}
  BY <1>0, <1>2 DEF GrokTyped, Speech
<1>9. Writing(live)
  BY <1>2 DEF Announced
<1>4. CASE style.format = "json"
  BY <1>0, <1>1, <1>4, CollectedStep
<1>5. ASSUME style.format # "json", IsPrefix(spoken.sent, spoken.text),
             Rewritten(spoken.text) = spoken.text
      PROVE  /\ Kept(AllHeard(live.text)) /\ AllHeard(live.text) = spoken.sent
             /\ Rewritten(Rest(spoken.text, spoken.sent)) = Rest(spoken.text, spoken.sent)
             /\ spoken.text = spoken.sent \o Rest(spoken.text, spoken.sent)
  <2>1. /\ spoken.text = spoken.sent \o Rest(spoken.text, spoken.sent)
        /\ Rest(spoken.text, spoken.sent) \in Text
    BY <1>3, <1>5, RestIs
  <2>2. Kept(spoken.text)
    BY <1>3, <1>5, RewrittenIs
  <2>3. Kept(spoken.sent) /\ Kept(Rest(spoken.text, spoken.sent))
    BY <1>3, <2>1, <2>2, KeptParts
  <2>4. AllHeard(live.text) = spoken.sent
    BY <1>2, <1>5, <2>3 DEF Delivered
  <2> QED BY <2>1, <2>3, <2>4, RewrittenIs
<1>8. ASSUME style.format # "json", live'.best = live.best,
             ~snap => live'.text.heard = Flush(live.text).heard,
             ~snap /\ live.best = <<>> => live'.think.heard = Flush(live.think).heard
      PROVE  NoNameInHalves'
  <2> SUFFICES ASSUME style.silent, spoken.sent = spoken.text, ~snap
               PROVE  /\ HasName(live'.text.heard) => LongRun(spoken.text)
                      /\ live.best = <<>> => (HasName(live'.think.heard) => LongRun(spoken.aloud))
    BY <1>1, <1>3, <1>8 DEF NoNameInHalves, HasName, LongRun
  <2>1. /\ Smooth(live.text, spoken.sent) /\ Smooth(live.think, spoken.aloud)
        /\ live.text \in Scrubber /\ live.think \in Scrubber
    BY <1>2, <1>8, BestIs DEF Discreet, GrokTyped
  <2> QED BY <1>8, <2>1, FlushSmooth
<1>6. CASE style.format = "openai"
  <2>1. /\ Closed(live', live)
        /\ Kept(AllHeard(live.text)) =>
             live'.text.heard =
               AllHeard(live.text) \o Rewritten(Rest(Snapped(snap), AllHeard(live.text)))
        /\ live'.best = live.best
        /\ ~snap => live'.text.heard = Flush(live.text).heard
        /\ ~snap /\ live.best = <<>> => live'.think.heard = Flush(live.think).heard
    BY <1>0, <1>2, <1>6, <1>9, EndChunksIs
  <2>2. ASSUME IsPrefix(spoken.sent, spoken.text), Rewritten(spoken.text) = spoken.text
        PROVE  live'.text.heard = IF snap THEN spoken.text ELSE spoken.sent
    <3>1. live'.text.heard = spoken.sent \o Rewritten(Rest(Snapped(snap), spoken.sent))
      BY <1>5, <1>6, <2>1, <2>2
    <3>2. CASE snap
      BY <1>5, <1>6, <2>2, <3>1, <3>2 DEF Snapped
    <3>3. CASE ~snap
      <4>1. Rewritten(Rest(Snapped(snap), spoken.sent)) = <<>>
        BY <1>3, <3>3, RestIs, NothingKept DEF Snapped
      <4> QED BY <1>3, <3>1, <3>3, <4>1, ConcatEmptySeq DEF Text
    <3> QED BY <3>2, <3>3
  <2>3. TextIsWhole'
    BY <1>1, <1>3, <1>6, <2>2 DEF TextIsWhole, Expected, Rewritten
  <2>4. NoNameInHalves'
    BY <1>6, <1>8, <2>1
  <2>5. CallsAreWhole' /\ live' \in Writer
    BY <1>0, <1>1, <1>6, <2>1, ClosedWhole
  <2> QED BY <1>0, <1>1, <2>3, <2>4, <2>5, EndStep
<1>7. CASE style.format = "claude"
  <2>1. /\ Closed(live', live)
        /\ Kept(AllHeard(live.text)) /\ ~snap => live'.text.heard = AllHeard(live.text)
        /\ live'.best = live.best
        /\ ~snap => live'.text.heard = Flush(live.text).heard
        /\ ~snap /\ live.best = <<>> => live'.think.heard = Flush(live.think).heard
    BY <1>0, <1>2, <1>7, <1>9, EndBlocksIs
  <2>2. ASSUME IsPrefix(spoken.sent, spoken.text), Rewritten(spoken.text) = spoken.text, ~snap
        PROVE  live'.text.heard = spoken.sent
    BY <1>5, <1>7, <2>1, <2>2
  <2>3. TextIsWhole'
    BY <1>1, <1>3, <1>7, <2>2 DEF TextIsWhole, Expected, Rewritten
  <2>4. NoNameInHalves'
    BY <1>7, <1>8, <2>1
  <2>5. CallsAreWhole' /\ live' \in Writer
    BY <1>0, <1>1, <1>7, <2>1, ClosedWhole
  <2> QED BY <1>0, <1>1, <2>3, <2>4, <2>5, EndStep
<1> QED BY <1>3, <1>4, <1>6, <1>7

LEMMA BreakReplyKeeps ==
  ASSUME GrokInv, BreakReply
  PROVE  GrokInv'
<1>0. livePc = "read" /\ UNCHANGED <<style, events>> /\ spoken' = spoken
  BY DEF BreakReply
<1>1. CASE livePc' = "done" /\ style.format = "json" /\ EndCollected(FALSE)
  <2>1. spoken' = [spoken EXCEPT !.snapshot = FALSE]
    <3>1. spoken \in Speech /\ ~spoken.snapshot
      BY <1>0 DEF GrokInv, GrokTyped, TextSoFar, Delivered
    <3> QED BY <1>0, <3>1 DEF Speech
  <2> QED BY <1>0, <1>1, <2>1, CollectedStep
<1>2. CASE livePc' = "broken" /\ UNCHANGED live
  BY <1>0, <1>2 DEF GrokInv, GrokTyped, CallsSoFar, CallsAreWhole, HandedOn, TextSoFar, TextIsWhole,
     NamesSoFar, Discreet, Smooth
<1> QED BY <1>1, <1>2 DEF BreakReply

LEMMA GrokSteps == GrokInv /\ [GrokStreamNext]_grokVars => GrokInv'
<1> SUFFICES ASSUME GrokInv, [GrokStreamNext]_grokVars PROVE GrokInv'
  OBVIOUS
<1>1. CASE UNCHANGED grokVars
  BY <1>1 DEF grokVars, GrokInv, GrokTyped, CallsSoFar, TextSoFar, Announced, Matches, Got,
     CallsAreWhole, HandedOn, Delivered, Kept, TextIsWhole, Expected, Rewritten, NamesSoFar, Discreet, Smooth, NoNameInHalves
<1> QED
  BY <1>1, ReasoningDeltaKeeps, ReasoningItemDoneKeeps, TextDeltaKeeps, MissedDeltaKeeps,
     CallAddedKeeps, CallArgumentsKeeps, CallDoneKeeps, CallOnlyDoneKeeps, EndReplyKeeps,
     BreakReplyKeeps
  DEF GrokStreamNext

LEMMA GrokHolds == GrokStreamSpec => []GrokInv
  BY GrokStarts, GrokSteps, PTL DEF GrokStreamSpec

\* However the upstream cuts its text into deltas: at the end the client has the
\* answer, whole and once, if what it was sent as deltas is a part from the text's
\* beginning and no name was in it, also when a snapshot repeats the text to an
\* OpenAI client.  To an Anthropic client the code then sends what it held back
\* twice, so of its streams the theorem speaks of those without a snapshot.  A
\* collected answer is always whole (grok.go, streamGrokLiveToClaude,
\* streamGrokLiveToOpenAI, collectGrokResponse, streamScrubber).
THEOREM TextWhole == GrokStreamSpec => []TextIsWhole
<1>1. GrokInv => TextIsWhole
  BY DEF GrokInv, TextSoFar
<1> QED BY <1>1, GrokHolds, PTL

\* For any number of calls and any order of their events, with text inside them or
\* not: a call that no text cut reaches the client once, with all the arguments that
\* were said of it; a call that was cut reaches an Anthropic client with no more
\* than was said, and an OpenAI client once more, whole, when it is done.  The
\* closings at the end leave no block open (grok.go, streamGrokLiveToClaude,
\* streamGrokLiveToOpenAI, collectGrokResponse).
THEOREM CallsWhole == GrokStreamSpec => []CallsAreWhole
<1>1. GrokInv => CallsAreWhole
  BY DEF GrokInv, CallsSoFar
<1> QED BY <1>1, GrokHolds, PTL

\* No cut of the upstream's text makes a renamed provider's name reach the client
\* in two halves, unless it stands in a run without a space longer than MaxHold,
\* for every MaxHold (grok.go, streamScrubber).
THEOREM NamesWhole == GrokStreamSpec => []NoNameInHalves
<1>1. GrokInv => NoNameInHalves
  <2> SUFFICES ASSUME GrokInv, livePc # "done", style.silent, spoken.sent = spoken.text,
                      style.format # "json"
               PROVE  /\ HasName(live.text.heard) => LongRun(spoken.text)
                      /\ HasName(live.think.heard) => LongRun(spoken.aloud)
    BY DEF GrokInv, NamesSoFar, NoNameInHalves
  <2> QED BY DEF GrokInv, NamesSoFar, Discreet, Smooth, Clean
<1> QED BY <1>1, GrokHolds, PTL

\* The types: every variable of the stream keeps the shape Init gives it.
THEOREM GrokType == GrokStreamSpec => []GrokStreamTypeOK
<1>1. GrokInv => GrokStreamTypeOK
  BY GrokAssumption DEF GrokInv, GrokTyped, GrokStreamTypeOK, Speech, Writer, Kinds, Text
<1> QED BY <1>1, GrokHolds, PTL

-----------------------------------------------------------------------------
(* Translator: sums, results as text.                                      *)

Sums(f, s) == f[0] = 0 /\ \A n \in 1..Len(s) : f[n] = f[n - 1] + s[n]

LEMMA TotalSums ==
  ASSUME NEW s \in Seq(Nat)
  PROVE  \E f \in [0..Len(s) -> Nat] : Sums(f, s) /\ Total(s) = f[Len(s)]
<1> DEFINE N == Len(s)
           ahead == [n \in 1..N |-> [v \in Nat |-> v + s[n]]]
           F(f) == [n \in 0..N |-> IF n = 0 THEN 0 ELSE f[n - 1] + s[n]]
           sum == CHOOSE f : f = F(f)
<1>1. N \in Nat /\ \A i \in 1..N : s[i] \in Nat
  BY LenProperties, ElementOfSeq
<1>2. ahead \in [1..N -> [Nat -> Nat]]
  <2>1. \A n \in 1..N, v \in Nat : v + s[n] \in Nat
    BY <1>1
  <2> HIDE DEF N
  <2> QED BY <2>1
<1>3. Total(s) = sum[N]
  BY DEF Total
<1>4. PICK f \in [0..N -> Nat] : Follows(f, N, 0, ahead)
  <2> HIDE DEF N, ahead
  <2> QED BY <1>1, <1>2, RecursionExists
<1>5. f[0] = 0 /\ \A n \in 1..N : f[n] = f[n - 1] + s[n]
  <2>1. f[0] = 0 /\ \A n \in 1..N : f[n] = ahead[n][f[n - 1]]
    BY <1>4 DEF Follows
  <2>2. \A n \in 1..N, v \in Nat : ahead[n][v] = v + s[n]
    OBVIOUS
  <2> HIDE DEF ahead, N
  <2>3. \A n \in 1..N : f[n - 1] \in Nat
    BY <1>1
  <2> QED BY <2>1, <2>2, <2>3
<1>6. f = F(f)
  <2> HIDE DEF N, ahead
  <2>1. \A n \in 0..N : f[n] = IF n = 0 THEN 0 ELSE f[n - 1] + s[n]
    BY <1>1, <1>5
  <2>2. f = [n \in 0..N |-> f[n]]
    OBVIOUS
  <2> QED BY <2>1, <2>2
<1>7. sum = F(sum)
  BY <1>6
<1> HIDE DEF sum
<1>8. sum[0] = 0 /\ \A n \in 1..N : sum[n] = sum[n - 1] + s[n]
  <2> HIDE DEF N, ahead
  <2>1. \A n \in 0..N : sum[n] = IF n = 0 THEN 0 ELSE sum[n - 1] + s[n]
    BY <1>7
  <2>2. 0 \in 0..N /\ \A n \in 1..N : n \in 0..N /\ n # 0
    BY <1>1
  <2> QED BY <2>1, <2>2
<1>9. \A n \in 0..N : f[n] = sum[n]
  <2> HIDE DEF N, ahead
  <2>1. Alike(f, sum, N)
    BY <1>5, <1>8 DEF Alike
  <2> QED BY <1>1, <2>1, RecursionAgrees
<1>10. Total(s) = f[N]
  BY <1>1, <1>3, <1>9
<1> QED BY <1>5, <1>10 DEF Sums

LEMMA TotalNat ==
  ASSUME NEW s \in Seq(Nat)
  PROVE  Total(s) \in Nat
<1>1. PICK f \in [0..Len(s) -> Nat] : Total(s) = f[Len(s)]
  BY TotalSums
<1>2. Len(s) \in 0..Len(s)
  BY LenProperties
<1> QED BY <1>1, <1>2

LEMMA SumLess ==
  ASSUME NEW a \in Nat, NEW b \in Nat, NEW x \in Nat, NEW y \in Nat, b <= a, y <= x
  PROVE  b + y <= a + x /\ (b < a \/ y < x => b + y < a + x)
OBVIOUS

\* A sequence of which no element is larger and one is smaller has a smaller sum.
LEMMA TotalLess ==
  ASSUME NEW s \in Seq(Nat), NEW t \in Seq(Nat), Len(t) = Len(s), NEW k \in 1..Len(s),
         t[k] < s[k], \A i \in 1..Len(s) : t[i] <= s[i]
  PROVE  Total(t) < Total(s)
<1>1. PICK f \in [0..Len(s) -> Nat] : Sums(f, s) /\ Total(s) = f[Len(s)]
  BY TotalSums
<1>2. PICK g \in [0..Len(t) -> Nat] : Sums(g, t) /\ Total(t) = g[Len(t)]
  BY TotalSums
<1>3. Len(s) \in Nat /\ \A i \in 1..Len(s) : s[i] \in Nat /\ t[i] \in Nat
  BY LenProperties, ElementOfSeq
<1> DEFINE T == {n \in Nat : n <= Len(s) => g[n] <= f[n] /\ (k <= n => g[n] < f[n])}
<1>4. 0 \in T
  BY <1>1, <1>2 DEF Sums
<1>5. ASSUME NEW n \in 1..Len(s), n - 1 \in T PROVE n \in T
  <2>1. /\ f[n] = f[n - 1] + s[n] /\ g[n] = g[n - 1] + t[n] /\ t[n] <= s[n]
        /\ s[n] \in Nat /\ t[n] \in Nat /\ n \in Nat
    BY <1>1, <1>2, <1>3 DEF Sums
  <2>2. n - 1 \in 0..Len(s) /\ n - 1 <= Len(s)
    BY <1>3
  <2>3. f[n - 1] \in Nat /\ g[n - 1] \in Nat
    BY <1>1, <1>2, <2>2
  <2>4. g[n - 1] <= f[n - 1] /\ (k <= n - 1 => g[n - 1] < f[n - 1])
    BY <1>5, <2>2
  <2>5. PICK a \in Nat, b \in Nat, x \in Nat, y \in Nat :
          a = f[n - 1] /\ b = g[n - 1] /\ x = s[n] /\ y = t[n]
    BY <2>1, <2>3
  <2>6. /\ b <= a /\ y <= x /\ f[n] = a + x /\ g[n] = b + y /\ n \in Nat
        /\ (k <= n - 1 => b < a) /\ (k = n => y < x)
    <3>1. k = n => y < x
      BY <2>5
    <3> QED BY <2>1, <2>4, <2>5, <3>1
  <2> HIDE DEF T
  <2>7. g[n] <= f[n] /\ (b < a \/ y < x => g[n] < f[n])
    <3>1. b + y <= a + x /\ (b < a \/ y < x => b + y < a + x)
      BY <2>6, SumLess
    <3> QED BY <2>6, <3>1
  <2>8. k <= n => k <= n - 1 \/ k = n
    BY <1>3, <2>6
  <2>9. g[n] <= f[n] /\ (k <= n => g[n] < f[n])
    BY <2>6, <2>7, <2>8
  <2> QED BY <2>6, <2>9 DEF T
<1> HIDE DEF T
<1>6. \A n \in 0..Len(s) : n \in T
  BY <1>3, <1>4, <1>5, BoundedInduction
<1>7. Len(s) \in T
  BY <1>3, <1>6
<1>8. g[Len(s)] < f[Len(s)]
  BY <1>3, <1>7 DEF T
<1> QED BY <1>1, <1>2, <1>8

LEMMA ConcatMembers ==
  ASSUME NEW S, NEW s \in Seq(S), NEW t \in Seq(S)
  PROVE  ToSet(s \o t) = ToSet(s) \cup ToSet(t)
<1>1. Range(s \o t) = Range(s) \cup Range(t)
  BY RangeConcatenation
<1> QED BY <1>1 DEF ToSet, Range

LEMMA FlattenMembers ==
  ASSUME NEW S, NEW s \in Seq(Seq(S))
  PROVE  FlattenSeq(s) \in Seq(S) /\ \A e : e \in ToSet(FlattenSeq(s)) <=> \E i \in DOMAIN s : e \in ToSet(s[i])
<1>1. CASE s = <<>>
  <2>1. FlattenSeq(s) = <<>>
    BY <1>1, FlattenEmpty
  <2>2. DOMAIN s = {} /\ ToSet(<<>>) = {} /\ <<>> \in Seq(S)
    BY <1>1, EmptySeq DEF ToSet
  <2> QED BY <2>1, <2>2
<1>2. CASE s # <<>>
  <2>1. Len(s) \in Nat /\ Len(s) > 0 /\ DOMAIN s = 1..Len(s) /\ \A i \in 1..Len(s) : s[i] \in Seq(S)
    BY <1>2, LenProperties, ElementOfSeq, EmptySeq
  <2>2. PICK f \in [1..Len(s) -> Seq(S)] : Joins(f, s) /\ FlattenSeq(s) = f[Len(s)]
    BY <1>2, FlattenJoins
  <2> DEFINE In(e, n) == \E i \in 1..n : e \in ToSet(s[i])
             T == {n \in Nat : n + 1 <= Len(s) => \A e : e \in ToSet(f[n + 1]) <=> In(e, n + 1)}
  <2>3. 0 \in T
    BY <2>1, <2>2 DEF Joins
  <2>4. ASSUME NEW n \in 1..Len(s), n - 1 \in T PROVE n \in T
    <3>1. ASSUME n + 1 <= Len(s), NEW e PROVE e \in ToSet(f[n + 1]) <=> In(e, n + 1)
      <4>1. n + 1 \in 2..Len(s) /\ (n + 1) - 1 = n /\ n \in 1..Len(s) /\ n + 1 \in 1..Len(s)
        BY <2>1, <3>1
      <4>2. f[n + 1] = f[n] \o s[n + 1] /\ f[n] \in Seq(S) /\ s[n + 1] \in Seq(S)
        BY <2>1, <2>2, <4>1 DEF Joins
      <4>3. e \in ToSet(f[n]) <=> In(e, n)
        <5>1. (n - 1) + 1 = n /\ (n - 1) + 1 <= Len(s)
          BY <2>1, <3>1
        <5>2. \A d : d \in ToSet(f[(n - 1) + 1]) <=> In(d, (n - 1) + 1)
          <6> HIDE DEF In
          <6> QED BY <2>4, <5>1
        <5> HIDE DEF In, T
        <5> QED BY <5>1, <5>2
      <4>4. In(e, n + 1) <=> In(e, n) \/ e \in ToSet(s[n + 1])
        BY <4>1
      <4>5. ToSet(f[n] \o s[n + 1]) = ToSet(f[n]) \cup ToSet(s[n + 1])
        BY <4>2, ConcatMembers
      <4> QED BY <4>2, <4>3, <4>4, <4>5
    <3> QED BY <2>1, <3>1
  <2> HIDE DEF T
  <2>5. \A n \in 0..Len(s) : n \in T
    BY <2>1, <2>3, <2>4, BoundedInduction
  <2>6. \A e : e \in ToSet(f[Len(s)]) <=> In(e, Len(s))
    <3>1. Len(s) - 1 \in T /\ (Len(s) - 1) + 1 = Len(s)
      BY <2>1, <2>5
    <3>2. \A n \in T : n + 1 <= Len(s) => \A e : e \in ToSet(f[n + 1]) <=> In(e, n + 1)
      BY DEF T
    <3> HIDE DEF In
    <3>3. (Len(s) - 1) + 1 <= Len(s) =>
            \A e : e \in ToSet(f[(Len(s) - 1) + 1]) <=> In(e, (Len(s) - 1) + 1)
      BY <3>1, <3>2
    <3> QED BY <2>1, <3>1, <3>3
  <2>7. f[Len(s)] \in Seq(S)
    <3>1. Len(s) \in 1..Len(s)
      BY <2>1
    <3> QED BY <3>1
  <2> QED BY <2>1, <2>2, <2>6, <2>7
<1> QED BY <1>1, <1>2

LEMMA ToldMembers ==
  ASSUME NEW results \in Seq(Id)
  PROVE  Told(results) \in Seq(Id) /\ \A e : e \in ToSet(Told(results)) <=> e \in ToSet(results)
<1> DEFINE copies == [i \in DOMAIN results |-> [k \in 1..Body |-> results[i]]]
<1>1. DOMAIN results = 1..Len(results) /\ Len(results) \in Nat /\ \A i \in DOMAIN results : results[i] \in Id
  BY LenProperties, ElementOfSeq
<1>2. Body \in Nat /\ Body > 0
  BY TranslatorAssumption
<1>3. ASSUME NEW i \in DOMAIN results
      PROVE  copies[i] \in Seq(Id) /\ \A e : e \in ToSet(copies[i]) <=> e = results[i]
  <2>1. copies[i] = [k \in 1..Body |-> results[i]]
    OBVIOUS
  <2>2. copies[i] \in Seq(Id)
    BY <1>1, <1>2, <2>1
  <2>3. ToSet(copies[i]) = {results[i]}
    BY <1>2, <2>1 DEF ToSet
  <2> QED BY <2>2, <2>3
<1>4. DOMAIN copies = DOMAIN results /\ Told(results) = FlattenSeq(copies)
  BY DEF Told
<1> HIDE DEF copies
<1>5. copies \in Seq(Seq(Id))
  <2>1. copies = [i \in 1..Len(results) |-> copies[i]]
    BY <1>1, <1>4 DEF copies
  <2> QED BY <1>1, <1>3, <2>1
<1>6. \A e : e \in ToSet(FlattenSeq(copies)) <=> \E i \in DOMAIN copies : e \in ToSet(copies[i])
  BY <1>5, FlattenMembers
<1>7. \A e : e \in ToSet(results) <=> \E i \in DOMAIN results : e = results[i]
  BY DEF ToSet
<1> QED BY <1>3, <1>4, <1>5, <1>6, <1>7, FlattenMembers

-----------------------------------------------------------------------------
(* Translator: sizes and pieces of a payload.                              *)

PayloadSet == [history: Seq(Turn), text: Seq(Unit), results: Seq(Id)]

HistorySize(h) == Total([i \in DOMAIN h |-> TurnSize(h[i])])

LEMMA TurnFields ==
  ASSUME NEW turn \in Turn
  PROVE  /\ turn.role \in {"user", "assistant"} /\ turn.text \in Seq(Unit)
         /\ turn.calls \in Seq(Id) /\ turn.results \in Seq(Id)
  BY DEF Turn

LEMMA TurnsOf ==
  ASSUME NEW h \in Seq(Turn)
  PROVE  /\ Len(h) \in Nat /\ DOMAIN h = 1..Len(h) /\ \A i \in 1..Len(h) : h[i] \in Turn
         /\ h = <<>> <=> Len(h) = 0
  BY LenProperties, ElementOfSeq, EmptySeq

LEMMA TurnSizeNat ==
  ASSUME NEW turn \in Turn
  PROVE  TurnSize(turn) \in Nat
<1>1. PICK a, b, c : a = Len(turn.text) /\ b = Len(turn.calls) /\ c = Len(turn.results)
  OBVIOUS
<1>2. a \in Nat /\ b \in Nat /\ c \in Nat
  BY <1>1, TurnFields, LenProperties
<1>3. Body \in Nat
  BY TranslatorAssumption
<1>4. PICK d \in Nat : d = Body * c
  BY <1>2, <1>3
<1>5. TurnSize(turn) = 1 + a + b + d
  BY <1>1, <1>4 DEF TurnSize
<1> QED BY <1>2, <1>5

LEMMA HistorySizeNat ==
  ASSUME NEW h \in Seq(Turn)
  PROVE  HistorySize(h) \in Nat
<1> DEFINE sizes == [i \in DOMAIN h |-> TurnSize(h[i])]
<1>1. sizes = [i \in 1..Len(h) |-> TurnSize(h[i])] /\ Len(h) \in Nat
  BY TurnsOf
<1>2. \A i \in 1..Len(h) : TurnSize(h[i]) \in Nat
  BY TurnsOf, TurnSizeNat
<1>3. sizes \in Seq(Nat)
  BY <1>1, <1>2
<1> QED BY <1>3, TotalNat DEF HistorySize

LEMMA SizeOf ==
  ASSUME NEW p \in PayloadSet
  PROVE  /\ p.history \in Seq(Turn) /\ p.text \in Seq(Unit) /\ p.results \in Seq(Id)
         /\ HistorySize(p.history) \in Nat /\ Len(p.text) \in Nat /\ Body * Len(p.results) \in Nat
         /\ Size(p) = HistorySize(p.history) + Len(p.text) + Body * Len(p.results)
         /\ Size(p) \in Nat
<1>1. p.history \in Seq(Turn) /\ p.text \in Seq(Unit) /\ p.results \in Seq(Id)
  BY DEF PayloadSet
<1>2. HistorySize(p.history) \in Nat /\ Len(p.text) \in Nat /\ Len(p.results) \in Nat
  BY <1>1, HistorySizeNat, LenProperties
<1>3. Body * Len(p.results) \in Nat
  BY <1>2, TranslatorAssumption
<1>4. Size(p) = HistorySize(p.history) + Len(p.text) + Body * Len(p.results)
  BY DEF Size, HistorySize
<1>5. PICK a, b, c : a = HistorySize(p.history) /\ b = Len(p.text) /\ c = Body * Len(p.results)
  OBVIOUS
<1>6. a + b + c \in Nat
  BY <1>2, <1>3, <1>5
<1> QED BY <1>1, <1>2, <1>3, <1>4, <1>5, <1>6

\* What is left when the turns before the first of a user are gone.
LEMMA FromUserIs ==
  ASSUME NEW turns \in Seq(Turn)
  PROVE  \/ /\ FromUser(turns) = <<>>
            /\ \A i \in 1..Len(turns) : turns[i].role = "assistant"
         \/ \E k \in 1..Len(turns) :
              /\ FromUser(turns) = SubSeq(turns, k, Len(turns)) /\ turns[k].role = "user"
              /\ \A i \in 1..k - 1 : turns[i].role = "assistant"
<1> DEFINE users == {i \in DOMAIN turns : turns[i].role = "user"}
<1>1. Len(turns) \in Nat /\ DOMAIN turns = 1..Len(turns)
      /\ \A i \in 1..Len(turns) : turns[i].role \in {"user", "assistant"}
  BY TurnsOf, TurnFields
<1>2. CASE users = {}
  <2>1. FromUser(turns) = <<>>
    BY <1>2 DEF FromUser
  <2> QED BY <1>1, <1>2, <2>1
<1>3. CASE users # {}
  <2>1. users \subseteq Nat
    BY <1>1
  <2>2. PICK c \in users : \A d \in users : c <= d
    <3> HIDE DEF users
    <3> QED BY <1>3, <2>1, LeastNat
  <2> DEFINE k == CHOOSE i \in users : \A j \in users : i <= j
  <2>3. k \in users /\ \A j \in users : k <= j
    <3> HIDE DEF users
    <3> QED BY <2>2
  <2>4. FromUser(turns) = SubSeq(turns, k, Len(turns))
    BY <1>3 DEF FromUser
  <2> HIDE DEF k
  <2>5. k \in 1..Len(turns) /\ turns[k].role = "user"
    BY <1>1, <2>3
  <2>6. \A i \in 1..k - 1 : turns[i].role = "assistant"
    BY <1>1, <2>3, <2>5
  <2> QED BY <2>4, <2>5, <2>6
<1> QED BY <1>2, <1>3

\* A part of a sequence, element by element.
LEMMA PartOf ==
  ASSUME NEW S, NEW s \in Seq(S), NEW i \in 1..Len(s) + 1, NEW j \in 0..Len(s)
  PROVE  /\ SubSeq(s, i, j) \in Seq(S)
         /\ Len(SubSeq(s, i, j)) = IF i <= j THEN j - i + 1 ELSE 0
         /\ \A k \in 1..Len(SubSeq(s, i, j)) : SubSeq(s, i, j)[k] = s[i + k - 1]
<1>1. Len(s) \in Nat
  BY LenProperties
<1>2. i \in 1..Len(s) + 1 /\ i \in Int /\ j \in Int
  BY <1>1
<1>3. \A k \in i..j : k \in 1..Len(s)
  BY <1>1
<1>4. \A k \in i..j : s[k] \in S
  BY <1>3, ElementOfSeq
<1> QED BY <1>1, <1>2, <1>4, SubSeqProperties

LEMMA CurrentCut ==
  ASSUME NEW p \in PayloadSet, client.limit \in Nat, NEW q, q = truncateCurrentMessage(p)
  PROVE  /\ q \in PayloadSet /\ q.history = p.history /\ q.results = p.results
         /\ Size(q) > client.limit => Len(q.text) = 1
         /\ Size(q) < client.limit => q.text = p.text
<1>1. PICK H, L, W : H = HistorySize(p.history) /\ L = Len(p.text) /\ W = Body * Len(p.results)
  OBVIOUS
<1>2. /\ H \in Nat /\ L \in Nat /\ W \in Nat /\ Size(p) = H + L + W
      /\ p.history \in Seq(Turn) /\ p.text \in Seq(Unit) /\ p.results \in Seq(Id)
  BY <1>1, SizeOf
<1> DEFINE budget == client.limit - (Size(p) - Len(p.text))
<1>3. budget = client.limit - (H + W) /\ budget \in Int
  <2>1. Size(p) - L = H + W /\ H + W \in Nat
    BY <1>2
  <2>2. Size(p) - Len(p.text) = H + W
    BY <1>1, <2>1
  <2> QED BY <2>1, <2>2
<1>4. CASE L <= budget
  <2>1. q = p
    BY <1>1, <1>4 DEF truncateCurrentMessage
  <2>2. Size(q) <= client.limit
    <3> HIDE DEF budget
    <3>1. H + L + W <= client.limit
      BY <1>2, <1>3, <1>4
    <3> QED BY <1>2, <2>1, <3>1
  <2> QED BY <1>2, <2>1, <2>2
<1>5. CASE ~(L <= budget)
  <2>1. PICK t : t = IF budget <= 0 THEN <<".">> ELSE SubSeq(p.text, 1, budget)
    OBVIOUS
  <2>2. q = [p EXCEPT !.text = t]
    BY <1>1, <1>5, <2>1 DEF truncateCurrentMessage
  <2> HIDE DEF budget
  <2>3. t \in Seq(Unit) /\ \/ budget <= 0 /\ Len(t) = 1
                           \/ budget > 0 /\ Len(t) = budget
    <3>1. CASE budget <= 0
      <4>1. t = <<".">> /\ "." \in Unit
        BY <2>1, <3>1 DEF Unit
      <4> QED BY <3>1, <4>1
    <3>2. CASE ~(budget <= 0)
      <4>1. budget \in 1..L /\ budget > 0
        BY <1>2, <1>3, <1>5, <3>2
      <4>2. 1 \in 1..Len(p.text) + 1 /\ budget \in 0..Len(p.text) /\ 1 <= budget
        BY <1>1, <1>2, <4>1
      <4>3. t = SubSeq(p.text, 1, budget)
        BY <2>1, <3>2
      <4>4. t \in Seq(Unit) /\ Len(t) = budget - 1 + 1
        BY <1>2, <4>2, <4>3, PartOf
      <4> QED BY <1>3, <4>1, <4>4
    <3> QED BY <3>1, <3>2
  <2>4. q \in PayloadSet /\ q.history = p.history /\ q.results = p.results /\ q.text = t
    BY <1>2, <2>2, <2>3 DEF PayloadSet
  <2>5. Size(q) = H + Len(t) + W /\ Len(t) \in Nat
    BY <1>1, <2>4, SizeOf
  <2>6. CASE budget <= 0
    <3>1. Len(t) = 1
      BY <2>3, <2>6
    <3>2. Size(q) > client.limit
      BY <1>2, <1>3, <2>5, <2>6, <3>1
    <3> QED BY <1>2, <2>4, <2>5, <3>1, <3>2
  <2>7. CASE budget > 0
    <3>1. Len(t) = budget
      BY <1>3, <2>3, <2>7
    <3>2. Size(q) = client.limit
      BY <1>2, <1>3, <2>5, <3>1
    <3> QED BY <2>4, <3>2
  <2> QED BY <1>3, <2>6, <2>7
<1> QED BY <1>4, <1>5
-----------------------------------------------------------------------------
(* Translator: cutting texts of the history.                               *)

\* A text that is the other one, or what is left of it with a mark.
Shortened(u, v) ==
  v = u \/ /\ Len(v) \in 2..Len(u) /\ "note" \in ToSet(v)
           /\ ToSet(v) \subseteq ToSet(u) \cup {"note"}

Cuts(h, g) ==
  /\ g \in Seq(Turn) /\ Len(g) = Len(h)
  /\ \A i \in 1..Len(h) : /\ g[i].role = h[i].role /\ g[i].calls = h[i].calls
                          /\ g[i].results = h[i].results /\ Shortened(h[i].text, g[i].text)

AllShort(h) == \A i \in 1..Len(h) : Len(h[i].text) <= MinField + 1

LEMMA CutsItself ==
  ASSUME NEW h \in Seq(Turn)
  PROVE  Cuts(h, h)
BY DEF Cuts, Shortened

LEMMA CutsOfCuts ==
  ASSUME NEW h \in Seq(Turn), NEW g, NEW f, Cuts(h, g), Cuts(g, f)
  PROVE  Cuts(h, f)
<1>1. f \in Seq(Turn) /\ Len(f) = Len(h) /\ g \in Seq(Turn) /\ Len(g) = Len(h)
  BY DEF Cuts
<1>2. ASSUME NEW i \in 1..Len(h)
      PROVE  /\ f[i].role = h[i].role /\ f[i].calls = h[i].calls
             /\ f[i].results = h[i].results /\ Shortened(h[i].text, f[i].text)
  <2>1. /\ f[i].role = h[i].role /\ f[i].calls = h[i].calls /\ f[i].results = h[i].results
        /\ Shortened(h[i].text, g[i].text) /\ Shortened(g[i].text, f[i].text)
    BY <1>1 DEF Cuts
  <2>2. Len(h[i].text) \in Nat /\ Len(g[i].text) \in Nat /\ Len(f[i].text) \in Nat
    BY <1>1, TurnsOf, TurnFields, LenProperties
  <2>3. PICK a, b, c : a = h[i].text /\ b = g[i].text /\ c = f[i].text
    OBVIOUS
  <2>4. Shortened(a, b) /\ Shortened(b, c) /\ Len(a) \in Nat /\ Len(b) \in Nat /\ Len(c) \in Nat
    BY <2>1, <2>2, <2>3
  <2>5. ASSUME b = a \/ c = b PROVE Shortened(a, c)
    BY <2>4, <2>5
  <2>6. ASSUME b # a, c # b PROVE Shortened(a, c)
    <3>1. /\ Len(b) \in 2..Len(a) /\ Len(c) \in 2..Len(b) /\ "note" \in ToSet(c)
          /\ ToSet(b) \subseteq ToSet(a) \cup {"note"} /\ ToSet(c) \subseteq ToSet(b) \cup {"note"}
      BY <2>4, <2>6 DEF Shortened
    <3>2. Len(c) \in 2..Len(a)
      BY <2>4, <3>1
    <3>3. ToSet(c) \subseteq ToSet(a) \cup {"note"}
      BY <3>1
    <3> QED BY <3>1, <3>2, <3>3 DEF Shortened
  <2>7. Shortened(a, c)
    BY <2>5, <2>6
  <2> QED BY <2>1, <2>3, <2>7
<1> QED BY <1>1, <1>2 DEF Cuts

\* Of some elements there is a first that is not less than any other.
LEMMA LargestFirst ==
  ASSUME NEW s \in Seq(Nat), NEW S, S \subseteq 1..Len(s), S # {}
  PROVE  \E i \in S : \A j \in S : s[j] < s[i] \/ (s[j] = s[i] /\ i <= j)
<1> DEFINE T == {n \in Nat : n <= Len(s) => \E L \in Nat : \A i \in 1..n : s[i] <= L}
<1>1. Len(s) \in Nat /\ \A i \in 1..Len(s) : s[i] \in Nat
  BY LenProperties, ElementOfSeq
<1>2. 0 \in T
  OBVIOUS
<1>3. ASSUME NEW n \in 1..Len(s), n - 1 \in T PROVE n \in T
  <2>1. PICK L \in Nat : \A i \in 1..n - 1 : s[i] <= L
    BY <1>1, <1>3
  <2>2. PICK M \in Nat : L <= M /\ s[n] <= M
    <3>1. s[n] \in Nat
      BY <1>1
    <3>2. s[n] <= L \/ L <= s[n]
      BY <3>1
    <3> QED BY <3>1, <3>2
  <2>3. \A i \in 1..n : s[i] <= M
    <3>1. \A i \in 1..n : i \in 1..n - 1 \/ i = n
      BY <1>1
    <3>2. \A i \in 1..n : s[i] \in Nat
      BY <1>1
    <3> QED BY <2>1, <2>2, <3>1, <3>2
  <2>4. n \in Nat
    BY <1>1
  <2> QED BY <2>3, <2>4
<1> HIDE DEF T
<1>4. Len(s) \in T
  <2>1. \A n \in 0..Len(s) : n \in T
    BY <1>1, <1>2, <1>3, BoundedInduction
  <2> QED BY <1>1, <2>1
<1>5. PICK L \in Nat : \A i \in 1..Len(s) : s[i] <= L
  BY <1>1, <1>4 DEF T
<1> DEFINE values == {s[i] : i \in S}
<1>6. values \subseteq 0..L /\ values # {}
  <2>1. \A i \in S : s[i] \in 0..L
    BY <1>1, <1>5
  <2> QED BY <2>1
<1>7. PICK v \in values : \A w \in values : w <= v
  <2> HIDE DEF values
  <2> QED BY <1>6, GreatestNat
<1> DEFINE at == {i \in S : s[i] = v}
<1>8. at \subseteq Nat /\ at # {}
  <2>1. PICK i \in S : s[i] = v
    OBVIOUS
  <2>2. i \in at
    BY <2>1
  <2>3. S \subseteq Nat
    BY <1>1
  <2> QED BY <2>2, <2>3
<1>9. PICK c \in at : \A d \in at : c <= d
  <2> HIDE DEF at
  <2> QED BY <1>8, LeastNat
<1>10. ASSUME NEW j \in S PROVE s[j] < s[c] \/ (s[j] = s[c] /\ c <= j)
  <2>1. s[j] \in Nat /\ s[c] = v /\ v \in Nat /\ s[j] <= v
    BY <1>1, <1>6, <1>7, <1>9
  <2>2. s[j] = v => c <= j
    BY <1>9
  <2> QED BY <2>1, <2>2
<1> QED BY <1>9, <1>10

LEMMA HalveCuts ==
  ASSUME NEW p \in PayloadSet, NEW limit, NEW q, q = Halve(p, limit)
  PROVE  /\ q \in PayloadSet /\ q.text = p.text /\ q.results = p.results
         /\ Cuts(p.history, q.history)
         /\ \/ q = p /\ (Size(p) <= limit \/ AllShort(p.history))
            \/ ~(Size(p) <= limit \/ AllShort(p.history)) /\ Units(q) < Units(p)
<1> DEFINE h == p.history
           sizes == [i \in DOMAIN h |-> Len(h[i].text)]
           long == {i \in DOMAIN h : Len(h[i].text) > MinField + 1}
           largest == CHOOSE i \in long : \A j \in long :
                        \/ Len(h[j].text) < Len(h[i].text)
                        \/ Len(h[j].text) = Len(h[i].text) /\ i <= j
           text == h[largest].text
           keep == IF Len(text) \div 2 < MinField THEN MinField ELSE Len(text) \div 2
<1>1. /\ h \in Seq(Turn) /\ Len(h) \in Nat /\ DOMAIN h = 1..Len(h)
      /\ \A i \in 1..Len(h) : h[i] \in Turn /\ h[i].text \in Seq(Unit) /\ Len(h[i].text) \in Nat
  BY SizeOf, TurnsOf, TurnFields, LenProperties
<1>2. MinField \in Nat /\ MinField > 0
  BY TranslatorAssumption
<1>3. CASE Size(p) <= limit \/ long = {}
  <2>1. q = p
    BY <1>3 DEF Halve
  <2>2. Size(p) <= limit \/ AllShort(p.history)
    BY <1>1, <1>2, <1>3 DEF AllShort
  <2> QED BY <1>1, <2>1, <2>2, CutsItself
<1>4. CASE ~(Size(p) <= limit \/ long = {})
  <2>0. sizes \in Seq(Nat) /\ Len(sizes) = Len(h) /\ \A i \in 1..Len(h) : sizes[i] = Len(h[i].text)
    <3>1. sizes = [i \in 1..Len(h) |-> Len(h[i].text)]
      BY <1>1
    <3> HIDE DEF h
    <3> QED BY <1>1, <3>1
  <2>1. \E i \in long : \A j \in long : \/ Len(h[j].text) < Len(h[i].text)
                                        \/ Len(h[j].text) = Len(h[i].text) /\ i <= j
    <3>1. long \subseteq 1..Len(sizes) /\ long # {}
      BY <1>1, <1>4, <2>0
    <3> HIDE DEF long
    <3>2. PICK i \in long : \A j \in long : sizes[j] < sizes[i] \/ (sizes[j] = sizes[i] /\ i <= j)
      <4> HIDE DEF sizes
      <4> QED BY <2>0, <3>1, LargestFirst
    <3>3. \A j \in long : sizes[j] = Len(h[j].text)
      <4> HIDE DEF sizes
      <4> QED BY <2>0, <3>1
    <3> HIDE DEF sizes, h
    <3> QED BY <3>2, <3>3
  <2>2. largest \in long
    <3> HIDE DEF long, h
    <3> QED BY <2>1
  <2>3. q = IF Size(p) <= limit \/ long = {} \/ keep + 1 >= Len(text) THEN p
            ELSE [p EXCEPT !.history[largest].text = Append(SubSeq(text, 1, keep), "note")]
    BY Zenon DEF Halve
  <2>4. PICK k, x, m : k = largest /\ x = text /\ m = keep
    <3> HIDE DEF largest, text, keep
    <3> QED OBVIOUS
  <2>5. k \in 1..Len(h) /\ x = h[k].text /\ Len(x) > MinField + 1 /\ x \in Seq(Unit) /\ Len(x) \in Nat
    <3>1. k \in DOMAIN h /\ Len(h[k].text) > MinField + 1 /\ x = h[k].text
      <4> HIDE DEF largest, h
      <4> QED BY <2>2, <2>4
    <3> HIDE DEF h
    <3> QED BY <1>1, <3>1
  <2>6. m = IF Len(x) \div 2 < MinField THEN MinField ELSE Len(x) \div 2
    <3> HIDE DEF largest, text
    <3> QED BY <2>4
  <2>7. q = IF m + 1 >= Len(x) THEN p
            ELSE [p EXCEPT !.history[k].text = Append(SubSeq(x, 1, m), "note")]
    <3> HIDE DEF largest, text, keep, long
    <3> QED BY <1>4, <2>3, <2>4
  <2> HIDE DEF largest, text, keep, long, h, sizes
  <2>8. m \in Nat /\ m > 0 /\ m + 1 < Len(x)
    <3>1. PICK l \in Nat : l = Len(x)
      BY <2>5
    <3>2. m = (IF l \div 2 < MinField THEN MinField ELSE l \div 2) /\ l > MinField + 1
      BY <2>5, <2>6, <3>1
    <3>3. l \div 2 \in Nat /\ (l > 2 => l \div 2 + 1 < l)
      OBVIOUS
    <3>4. m \in Nat /\ m > 0 /\ m + 1 < l
      BY <1>2, <3>2, <3>3
    <3> QED BY <3>1, <3>4
  <2>9. PICK t : t = Append(SubSeq(x, 1, m), "note")
    OBVIOUS
  <2>10. t \in Seq(Unit) /\ Len(t) = m + 1 /\ "note" \in ToSet(t) /\ ToSet(t) \subseteq ToSet(x) \cup {"note"}
    <3>1. SubSeq(x, 1, m) \in Seq(Unit) /\ Len(SubSeq(x, 1, m)) = m
          /\ \A i \in 1..m : SubSeq(x, 1, m)[i] = x[i]
      <4>1. 1 \in 1..Len(x) + 1 /\ m \in 0..Len(x) /\ 1 <= m /\ \A i \in 1..m : 1 + i - 1 = i
        BY <2>5, <2>8
      <4>2. Len(SubSeq(x, 1, m)) = m - 1 + 1 /\ m - 1 + 1 = m
        BY <2>5, <2>8, <4>1, PartOf
      <4> QED BY <2>5, <4>1, <4>2, PartOf
    <3>2. PICK u : u = SubSeq(x, 1, m)
      OBVIOUS
    <3>3. u \in Seq(Unit) /\ Len(u) = m /\ "note" \in Unit
      BY <3>1, <3>2 DEF Unit
    <3>4. t \in Seq(Unit) /\ Len(t) = m + 1 /\ t[m + 1] = "note" /\ \A i \in 1..m : t[i] = u[i]
      BY <2>8, <2>9, <3>2, <3>3, AppendProperties
    <3>5. DOMAIN t = 1..m + 1 /\ DOMAIN x = 1..Len(x)
      BY <2>5, <2>8, <3>4
    <3>6. \A i \in 1..m : t[i] = x[i] /\ i \in DOMAIN x
      BY <2>5, <2>8, <3>1, <3>2, <3>4, <3>5
    <3>7. \A i \in 1..m + 1 : i \in 1..m \/ i = m + 1
      BY <2>8
    <3> QED BY <2>8, <3>4, <3>5, <3>6, <3>7 DEF ToSet
  <2>11. q = [p EXCEPT !.history[k].text = t]
    BY <2>5, <2>7, <2>8, <2>9
  <2>12. PICK g : g = [h EXCEPT ![k].text = t]
    OBVIOUS
  <2>13. g \in Seq(Turn) /\ Len(g) = Len(h) /\ DOMAIN g = 1..Len(h)
    <3>1. h[k] \in Turn
      BY <1>1, <2>5
    <3>2. [h[k] EXCEPT !.text = t] \in Turn
      BY <2>10, <3>1 DEF Turn
    <3>3. PICK r : r = [h[k] EXCEPT !.text = t]
      OBVIOUS
    <3>4. g = [h EXCEPT ![k] = r]
      BY <2>12, <3>3
    <3>5. r \in Turn
      BY <3>2, <3>3
    <3> QED BY <1>1, <2>5, <3>4, <3>5
  <2>14. \A i \in 1..Len(h) : i # k => g[i] = h[i]
    BY <1>1, <2>12
  <2>15. /\ g[k].text = t /\ g[k].role = h[k].role /\ g[k].calls = h[k].calls
         /\ g[k].results = h[k].results
    <3>1. h[k] \in Turn
      BY <1>1, <2>5
    <3> QED BY <1>1, <2>5, <2>12, <3>1 DEF Turn
  <2>16. q.history = g /\ q.text = p.text /\ q.results = p.results /\ q \in PayloadSet
    BY <2>11, <2>12, <2>13 DEF PayloadSet, h
  <2>17. Cuts(h, g)
    <3>1. Shortened(x, t)
      BY <2>5, <2>8, <2>10 DEF Shortened
    <3> QED BY <2>5, <2>13, <2>14, <2>15, <3>1 DEF Cuts, Shortened
  <2>18. Units(q) < Units(p)
    <3>1. PICK a, b : /\ a = [i \in DOMAIN p.history |-> Len(p.history[i].text)]
                      /\ b = [i \in DOMAIN q.history |-> Len(q.history[i].text)]
      OBVIOUS
    <3>2. a \in Seq(Nat) /\ Len(a) = Len(h) /\ \A i \in 1..Len(h) : a[i] = Len(h[i].text)
      <4>1. a = [i \in 1..Len(h) |-> Len(h[i].text)]
        BY <1>1, <3>1 DEF h
      <4> QED BY <1>1, <4>1
    <3>3. \A i \in 1..Len(h) : Len(g[i].text) \in Nat
      BY <2>13, TurnsOf, TurnFields, LenProperties
    <3>4. b \in Seq(Nat) /\ Len(b) = Len(h) /\ \A i \in 1..Len(h) : b[i] = Len(g[i].text)
      <4>1. b = [i \in 1..Len(h) |-> Len(g[i].text)]
        BY <2>13, <2>16, <3>1
      <4> QED BY <1>1, <3>3, <4>1
    <3>5. b[k] < a[k]
      BY <2>5, <2>8, <2>10, <2>15, <3>2, <3>4
    <3>6. \A i \in 1..Len(a) : b[i] <= a[i]
      <4>1. Len(a) = Len(h)
        BY <3>2
      <4>2. ASSUME NEW i \in 1..Len(h), i # k PROVE b[i] = a[i] /\ a[i] \in Nat
        BY <1>1, <2>14, <3>2, <3>4, <4>2
      <4>3. b[k] \in Nat /\ a[k] \in Nat
        BY <1>1, <2>5, <3>2, <3>3, <3>4
      <4> QED BY <3>5, <4>1, <4>2, <4>3
    <3>7. Total(b) < Total(a)
      <4>1. k \in 1..Len(a) /\ Len(b) = Len(a)
        BY <2>5, <3>2, <3>4
      <4> QED BY <3>2, <3>4, <3>5, <3>6, <4>1, TotalLess
    <3> QED BY <3>1, <3>7 DEF Units
  <2>19. ~AllShort(h)
    <3>1. MinField + 1 \in Nat
      BY <1>2
    <3> QED BY <2>5, <3>1 DEF AllShort
  <2> QED BY <1>4, <2>16, <2>17, <2>18, <2>19 DEF h
<1> QED BY <1>3, <1>4
\* A text there is shows in the number of units.
LEMMA UnitsLeft ==
  ASSUME NEW p \in PayloadSet
  PROVE  Units(p) \in Nat /\ (Units(p) = 0 => AllShort(p.history))
<1> DEFINE h == p.history
           sizes == [i \in DOMAIN h |-> Len(h[i].text)]
           zeros == [i \in 1..Len(h) |-> 0]
<1>1. /\ h \in Seq(Turn) /\ Len(h) \in Nat /\ DOMAIN h = 1..Len(h)
      /\ \A i \in 1..Len(h) : h[i].text \in Seq(Unit) /\ Len(h[i].text) \in Nat
  BY SizeOf, TurnsOf, TurnFields, LenProperties
<1>2. sizes \in Seq(Nat) /\ Len(sizes) = Len(h) /\ \A i \in 1..Len(h) : sizes[i] = Len(h[i].text)
  <2>1. sizes = [i \in 1..Len(h) |-> Len(h[i].text)]
    BY <1>1
  <2> HIDE DEF h
  <2> QED BY <1>1, <2>1
<1>3. zeros \in Seq(Nat) /\ Len(zeros) = Len(h) /\ \A i \in 1..Len(h) : zeros[i] = 0
  <2> HIDE DEF h
  <2> QED BY <1>1
<1>4. Units(p) = Total(sizes)
  BY DEF Units
<1> HIDE DEF sizes, zeros, h
<1>5. Total(sizes) \in Nat /\ Total(zeros) \in Nat
  BY <1>2, <1>3, TotalNat
<1>6. ASSUME Total(sizes) = 0, NEW k \in 1..Len(h) PROVE Len(h[k].text) = 0
  <2> SUFFICES ASSUME Len(h[k].text) # 0 PROVE FALSE
    OBVIOUS
  <2>1. zeros[k] < sizes[k]
    BY <1>1, <1>2, <1>3
  <2>2. \A i \in 1..Len(sizes) : zeros[i] <= sizes[i]
    BY <1>1, <1>2, <1>3
  <2>3. k \in 1..Len(sizes) /\ Len(zeros) = Len(sizes)
    BY <1>2, <1>3
  <2>4. Total(zeros) < Total(sizes)
    BY <1>2, <1>3, <2>1, <2>2, <2>3, TotalLess
  <2> QED BY <1>5, <1>6, <2>4
<1>7. MinField \in Nat
  BY TranslatorAssumption
<1> QED BY <1>4, <1>5, <1>6, <1>7 DEF AllShort, h

\* truncateOversizedHistoryContent: only texts get shorter, until the payload fits
\* or all are short.
LEMMA HistoryCut ==
  ASSUME NEW p \in PayloadSet, NEW limit, NEW q, q = truncateOversizedHistoryContent(p, limit)
  PROVE  /\ q \in PayloadSet /\ q.text = p.text /\ q.results = p.results
         /\ Cuts(p.history, q.history) /\ (Size(q) <= limit \/ AllShort(q.history))
<1> DEFINE N == Units(p)
           goOn == [n \in 1..N |-> [r \in PayloadSet |-> Halve(r, limit)]]
           F(f) == [n \in 0..N |-> IF n = 0 THEN p ELSE Halve(f[n - 1], limit)]
           cut == CHOOSE f : f = F(f)
<1>1. N \in Nat
  BY UnitsLeft
<1>2. q = cut[N]
  BY DEF truncateOversizedHistoryContent
<1>3. goOn \in [1..N -> [PayloadSet -> PayloadSet]]
  <2>1. \A r \in PayloadSet : Halve(r, limit) \in PayloadSet
    BY HalveCuts
  <2> HIDE DEF N
  <2> QED BY <2>1
<1>4. PICK f \in [0..N -> PayloadSet] : Follows(f, N, p, goOn)
  <2> HIDE DEF N, goOn
  <2> QED BY <1>1, <1>3, RecursionExists
<1>5. f[0] = p /\ \A n \in 1..N : f[n] = Halve(f[n - 1], limit) /\ f[n - 1] \in PayloadSet
  <2>1. f[0] = p /\ \A n \in 1..N : f[n] = goOn[n][f[n - 1]]
    BY <1>4 DEF Follows
  <2>2. \A n \in 1..N, r \in PayloadSet : goOn[n][r] = Halve(r, limit)
    OBVIOUS
  <2> HIDE DEF goOn, N
  <2>3. \A n \in 1..N : f[n - 1] \in PayloadSet
    BY <1>1
  <2> QED BY <2>1, <2>2, <2>3
<1>6. cut = F(cut)
  <2>1. f = F(f)
    <3> HIDE DEF N, goOn
    <3>1. \A n \in 0..N : f[n] = IF n = 0 THEN p ELSE Halve(f[n - 1], limit)
      BY <1>1, <1>5
    <3>2. f = [n \in 0..N |-> f[n]]
      OBVIOUS
    <3> QED BY <3>1, <3>2
  <2> QED BY <2>1
<1> HIDE DEF cut, goOn, N
<1>7. \A n \in 0..N : f[n] = cut[n]
  <2>1. \A n \in 0..N : cut[n] = IF n = 0 THEN p ELSE Halve(cut[n - 1], limit)
    BY <1>6
  <2>2. 0 \in 0..N /\ \A n \in 1..N : n \in 0..N /\ n # 0
    BY <1>1
  <2>3. Alike(f, cut, N)
    BY <1>5, <2>1, <2>2 DEF Alike
  <2> QED BY <1>1, <2>3, RecursionAgrees
<1> DEFINE Over(r) == Size(r) <= limit \/ AllShort(r.history)
           T == {n \in Nat : n <= N =>
                   /\ f[n].text = p.text /\ f[n].results = p.results
                   /\ Cuts(p.history, f[n].history)
                   /\ Over(f[n]) \/ Units(f[n]) + n <= N}
<1>8. 0 \in T
  <2>1. Cuts(p.history, p.history)
    BY CutsItself, SizeOf
  <2> HIDE DEF Over
  <2> QED BY <1>1, <1>5, <2>1 DEF N
<1>9. ASSUME NEW n \in 1..N, n - 1 \in T PROVE n \in T
  <2>1. PICK r, s : r = f[n - 1] /\ s = f[n]
    OBVIOUS
  <2>2. s = Halve(r, limit) /\ r \in PayloadSet
    BY <1>5, <2>1
  <2>3. /\ s \in PayloadSet /\ s.text = r.text /\ s.results = r.results
        /\ Cuts(r.history, s.history)
        /\ \/ s = r /\ Over(r)
           \/ ~Over(r) /\ Units(s) < Units(r)
    BY <2>2, HalveCuts
  <2> HIDE DEF Over
  <2>4. n - 1 \in Nat /\ n - 1 <= N /\ n \in Nat
    BY <1>1
  <2>5. /\ r.text = p.text /\ r.results = p.results /\ Cuts(p.history, r.history)
        /\ Over(r) \/ Units(r) + (n - 1) <= N
    BY <1>9, <2>1, <2>4
  <2>6. Cuts(p.history, s.history)
    <3>1. p.history \in Seq(Turn)
      BY SizeOf
    <3> QED BY <2>3, <2>5, <3>1, CutsOfCuts
  <2>7. Over(s) \/ Units(s) + n <= N
    <3>1. PICK a, b : a = Units(r) /\ b = Units(s)
      OBVIOUS
    <3>2. a \in Nat /\ b \in Nat
      BY <2>2, <2>3, <3>1, UnitsLeft
    <3>3. Over(r) => Over(s)
      BY <2>3
    <3>4. ~Over(r) => b < a
      BY <2>3, <3>1
    <3>5. b < a /\ a + (n - 1) <= N => b + n <= N
      BY <1>1, <2>4, <3>2
    <3> QED BY <2>5, <3>1, <3>3, <3>4, <3>5
  <2> QED BY <2>1, <2>3, <2>4, <2>5, <2>6, <2>7
<1> HIDE DEF T
<1>10. N \in T
  <2>1. \A n \in 0..N : n \in T
    BY <1>1, <1>8, <1>9, BoundedInduction
  <2> QED BY <1>1, <2>1
<1>11. q = f[N] /\ q \in PayloadSet
  BY <1>1, <1>2, <1>7
<1>12. /\ q.text = p.text /\ q.results = p.results /\ Cuts(p.history, q.history)
       /\ Over(q) \/ Units(q) + N <= N
  <2> HIDE DEF Over
  <2> QED BY <1>1, <1>10, <1>11 DEF T
<1>13. Units(q) + N <= N => AllShort(q.history)
  <2>1. PICK u \in Nat : u = Units(q) /\ (u = 0 => AllShort(q.history))
    BY <1>11, UnitsLeft
  <2> QED BY <1>1, <2>1
<1> QED BY <1>11, <1>12, <1>13

\* Of a list of turns, the turns of a user and after.
LEMMA FromUserTurns ==
  ASSUME NEW turns \in Seq(Turn)
  PROVE  FromUser(turns) \in Seq(Turn)
<1>1. CASE FromUser(turns) = <<>>
  BY <1>1, EmptySeq
<1>2. ASSUME NEW k \in 1..Len(turns), FromUser(turns) = SubSeq(turns, k, Len(turns))
      PROVE  FromUser(turns) \in Seq(Turn)
  <2>1. Len(turns) \in 0..Len(turns) /\ k \in 1..Len(turns) + 1
    BY TurnsOf
  <2> QED BY <1>2, <2>1, PartOf
<1> QED BY <1>1, <1>2, FromUserIs

CutTurn == User(<<"cut">>, <<>>)

\* The longest end is some end, as long as the least there may be.
LEMMA EndKept ==
  ASSUME NEW turns \in Seq(Turn), NEW room, NEW min \in Nat
  PROVE  \E from \in 1..Len(turns) + 1 :
           /\ KeepEnd(turns, room, min) =
                (IF from > 1 THEN <<CutTurn>> ELSE <<>>)
                  \o FromUser(SubSeq(turns, from, Len(turns)))
           /\ from = 1 \/ from <= Len(turns) - min + 1
<1> DEFINE n == Len(turns)
           Needed(i) == Total([k \in 1..(n - i + 1) |-> TurnSize(turns[i + k - 1])])
           fits == {i \in 1..(n + 1) : \A j \in i..n : Needed(j) <= room \/ n - j + 1 <= min}
           from == CHOOSE i \in fits : \A j \in fits : i <= j
<1>1. n \in Nat
  BY TurnsOf
<1>2. KeepEnd(turns, room, min) =
        (IF from > 1 THEN <<CutTurn>> ELSE <<>>) \o FromUser(SubSeq(turns, from, n))
  BY Zenon DEF KeepEnd, CutTurn
<1>3. fits \subseteq 1..(n + 1) /\ fits \subseteq Nat
  <2> HIDE DEF n, Needed
  <2> QED BY <1>1
<1>4. n + 1 \in fits
  <2> HIDE DEF n, Needed
  <2> QED BY <1>1
<1>5. PICK c \in fits : \A d \in fits : c <= d
  <2> HIDE DEF fits
  <2> QED BY <1>3, <1>4, LeastNat
<1>6. from \in fits /\ \A d \in fits : from <= d
  <2> HIDE DEF fits
  <2> QED BY <1>5
<1>7. min <= n => n - min + 1 \in fits
  <2> HIDE DEF n, Needed
  <2>1. ASSUME min <= n PROVE \A j \in n - min + 1..n : n - j + 1 <= min
    BY <1>1, <2>1
  <2> QED BY <1>1, <2>1
<1>8. min > n => 1 \in fits
  <2> HIDE DEF n, Needed
  <2>1. ASSUME min > n PROVE \A j \in 1..n : n - j + 1 <= min
    BY <1>1, <2>1
  <2> QED BY <1>1, <2>1
<1> HIDE DEF fits, from, Needed
<1>9. from \in 1..n + 1 /\ (from = 1 \/ from <= n - min + 1)
  <2>1. from \in Nat /\ from >= 1
    BY <1>1, <1>3, <1>6
  <2>2. min <= n => from <= n - min + 1
    BY <1>6, <1>7
  <2>3. min > n => from <= 1
    BY <1>6, <1>8
  <2> HIDE DEF n
  <2> QED BY <1>1, <1>3, <1>6, <2>1, <2>2, <2>3
<1> QED BY <1>2, <1>9
-----------------------------------------------------------------------------
(* Translator: leaving out turns.                                          *)

\* One list of turns is an end of another.
EndOf(turns, e) ==
  /\ e \in Seq(Turn) /\ Len(e) <= Len(turns)
  /\ \A i \in 1..Len(e) : e[i] = turns[Len(turns) - Len(e) + i]

LEMMA EndOfEnd ==
  ASSUME NEW turns \in Seq(Turn), NEW d, NEW e, EndOf(turns, d), EndOf(d, e)
  PROVE  EndOf(turns, e)
<1>1. d \in Seq(Turn) /\ e \in Seq(Turn)
  BY DEF EndOf
<1>2. PICK n, m, l : n = Len(turns) /\ m = Len(d) /\ l = Len(e)
  OBVIOUS
<1>3. n \in Nat /\ m \in Nat /\ l \in Nat /\ m <= n /\ l <= m
  BY <1>1, <1>2, LenProperties DEF EndOf
<1>4. ASSUME NEW i \in 1..l PROVE e[i] = turns[n - l + i]
  <2>1. e[i] = d[m - l + i]
    BY <1>2 DEF EndOf
  <2>2. m - l + i \in 1..m /\ n - m + (m - l + i) = n - l + i
    BY <1>3
  <2>3. \A j \in 1..m : d[j] = turns[n - m + j]
    BY <1>2 DEF EndOf
  <2> QED BY <2>1, <2>2, <2>3
<1> QED BY <1>1, <1>2, <1>3, <1>4 DEF EndOf

LEMMA PartIsEnd ==
  ASSUME NEW turns \in Seq(Turn), NEW k \in 1..Len(turns) + 1
  PROVE  /\ EndOf(turns, SubSeq(turns, k, Len(turns)))
         /\ Len(SubSeq(turns, k, Len(turns))) = Len(turns) - k + 1
<1>1. PICK n \in Nat : n = Len(turns)
  BY TurnsOf
<1>2. PICK e : e = SubSeq(turns, k, n)
  OBVIOUS
<1>3. n \in 0..Len(turns) /\ k \in 1..n + 1
  BY <1>1
<1>4. /\ e \in Seq(Turn) /\ Len(e) = IF k <= n THEN n - k + 1 ELSE 0
      /\ \A i \in 1..Len(e) : e[i] = turns[k + i - 1]
  BY <1>1, <1>2, <1>3, PartOf
<1>5. Len(e) = n - k + 1
  BY <1>1, <1>3, <1>4
<1>6. ASSUME NEW i \in 1..Len(e) PROVE e[i] = turns[n - Len(e) + i]
  <2>1. k + i - 1 = n - Len(e) + i
    BY <1>3, <1>5
  <2> QED BY <1>4, <2>1
<1>7. EndOf(turns, e)
  <2>1. Len(e) <= n
    BY <1>1, <1>3, <1>5
  <2>2. e \in Seq(Turn) /\ Len(e) <= Len(turns)
    BY <1>1, <1>4, <2>1
  <2> QED BY <1>1, <1>6, <2>2, Zenon DEF EndOf
<1> QED BY <1>1, <1>2, <1>5, <1>7

\* FromUser keeps an end that begins with a user and has all of the users' turns.
LEMMA FromUserEnd ==
  ASSUME NEW turns \in Seq(Turn), NEW e, e = FromUser(turns)
  PROVE  /\ EndOf(turns, e) /\ (e # <<>> => e[1].role = "user")
         /\ \A j \in 1..Len(turns) : turns[j].role = "user" => j > Len(turns) - Len(e)
<1>1. Len(turns) \in Nat
  BY TurnsOf
<1>2. CASE e = <<>> /\ \A i \in 1..Len(turns) : turns[i].role = "assistant"
  <2>1. Len(e) = 0 /\ e \in Seq(Turn)
    BY <1>2, EmptySeq
  <2> QED BY <1>1, <1>2, <2>1 DEF EndOf
<1>3. ASSUME NEW k \in 1..Len(turns), e = SubSeq(turns, k, Len(turns)), turns[k].role = "user",
             \A i \in 1..k - 1 : turns[i].role = "assistant"
      PROVE  /\ EndOf(turns, e) /\ e[1].role = "user"
             /\ \A j \in 1..Len(turns) : turns[j].role = "user" => j > Len(turns) - Len(e)
  <2>1. k \in 1..Len(turns) + 1 /\ k \in Nat
    BY <1>1
  <2>2. EndOf(turns, e) /\ Len(e) = Len(turns) - k + 1
    BY <1>3, <2>1, PartIsEnd
  <2>3. e[1] = turns[k]
    <3>1. 1 \in 1..Len(e) /\ Len(turns) - Len(e) + 1 = k
      BY <1>1, <2>1, <2>2
    <3> QED BY <2>2, <3>1 DEF EndOf
  <2>4. ASSUME NEW j \in 1..Len(turns), turns[j].role = "user" PROVE j > Len(turns) - Len(e)
    <3>1. j \notin 1..k - 1
      BY <1>3, <2>4
    <3> QED BY <1>1, <2>1, <2>2, <3>1
  <2> QED BY <1>3, <2>2, <2>3, <2>4
<1>4. \/ e = <<>> /\ \A i \in 1..Len(turns) : turns[i].role = "assistant"
      \/ \E k \in 1..Len(turns) :
           /\ e = SubSeq(turns, k, Len(turns)) /\ turns[k].role = "user"
           /\ \A i \in 1..k - 1 : turns[i].role = "assistant"
  BY FromUserIs
<1> QED BY <1>2, <1>3, <1>4

\* KeepEnd keeps an end that begins with a user; unless it says so, with all of the
\* users' turns; and the last two turns if the first of them is a user's.
LEMMA EndIsKept ==
  ASSUME NEW turns \in Seq(Turn), NEW room, NEW min \in Nat
  PROVE  \E e : /\ EndOf(turns, e) /\ (e # <<>> => e[1].role = "user")
                /\ \/ KeepEnd(turns, room, min) = <<CutTurn>> \o e /\ turns # <<>>
                   \/ /\ KeepEnd(turns, room, min) = e
                      /\ \A j \in 1..Len(turns) :
                           turns[j].role = "user" => j > Len(turns) - Len(e)
                /\ min >= 2 /\ Len(turns) >= 2 /\ turns[Len(turns) - 1].role = "user" => Len(e) >= 2
<1>1. PICK n \in Nat : n = Len(turns)
  BY TurnsOf
<1>2. PICK from \in 1..n + 1 :
        /\ KeepEnd(turns, room, min) =
             (IF from > 1 THEN <<CutTurn>> ELSE <<>>) \o FromUser(SubSeq(turns, from, n))
        /\ from = 1 \/ from <= n - min + 1
  BY <1>1, EndKept
<1>3. PICK d : d = SubSeq(turns, from, n)
  OBVIOUS
<1>4. EndOf(turns, d) /\ Len(d) = n - from + 1 /\ d \in Seq(Turn)
  BY <1>1, <1>3, PartIsEnd DEF EndOf
<1>5. PICK e : e = FromUser(d)
  OBVIOUS
<1>6. /\ EndOf(d, e) /\ (e # <<>> => e[1].role = "user")
      /\ \A j \in 1..Len(d) : d[j].role = "user" => j > Len(d) - Len(e)
  BY <1>4, <1>5, FromUserEnd
<1>7. EndOf(turns, e)
  BY <1>4, <1>6, EndOfEnd
<1>8. e \in Seq(Turn) /\ Len(e) \in Nat /\ from \in Nat
  BY <1>1, <1>6, LenProperties DEF EndOf
<1>9. ASSUME NEW j \in 1..n, turns[j].role = "user", j >= from PROVE j > n - Len(e)
  <2>1. j - from + 1 \in 1..Len(d) /\ n - Len(d) + (j - from + 1) = j
    BY <1>4, <1>8, <1>9
  <2>2. d[j - from + 1] = turns[j]
    BY <1>1, <1>4, <2>1 DEF EndOf
  <2>3. j - from + 1 > Len(d) - Len(e)
    BY <1>6, <1>9, <2>1, <2>2
  <2> QED BY <1>4, <1>8, <2>3
<1>10. \/ KeepEnd(turns, room, min) = <<CutTurn>> \o e /\ turns # <<>>
       \/ /\ KeepEnd(turns, room, min) = e
          /\ \A j \in 1..n : turns[j].role = "user" => j > n - Len(e)
  <2>1. CASE from > 1
    <3>1. n > 0
      BY <2>1
    <3> QED BY <1>1, <1>2, <1>3, <1>5, <2>1, <3>1, TurnsOf
  <2>2. CASE from = 1
    <3>1. KeepEnd(turns, room, min) = <<>> \o e
      BY <1>2, <1>3, <1>5, <2>2
    <3>2. <<>> \o e = e
      BY <1>8, ConcatEmptySeq
    <3> QED BY <1>9, <2>2, <3>1, <3>2
  <2> QED BY <1>8, <2>1, <2>2
<1>11. ASSUME min >= 2, n >= 2, turns[n - 1].role = "user" PROVE Len(e) >= 2
  <2>1. n - 1 \in 1..n /\ n - 1 >= from
    BY <1>2, <1>8, <1>11
  <2>2. n - 1 > n - Len(e)
    BY <1>9, <1>11, <2>1
  <2> QED BY <1>8, <2>2
<1> QED BY <1>1, <1>6, <1>7, <1>10, <1>11

\* Fewer turns: each is one there was, the last only at the end, or the remark
\* that some are missing; and the first is a user's.
Fewer(h, g) ==
  /\ g \in Seq(Turn) /\ (g # <<>> => g[1].role = "user")
  /\ \A i \in 1..Len(g) : \/ g[i] = CutTurn
                          \/ \E j \in 1..Len(h) : g[i] = h[j] /\ (j = Len(h) => i = Len(g))

UsersStay(h, g) ==
  \A j \in 1..Len(h) : h[j].role = "user" => \E i \in 1..Len(g) : g[i] = h[j]

LEMMA CutTurnIs ==
  CutTurn \in Turn /\ CutTurn.role = "user" /\ CutTurn.text = <<"cut">> /\ CutTurn.calls = <<>>
<1>1. <<"cut">> \in Seq(Unit) /\ <<>> \in Seq(Id)
  BY EmptySeq DEF Unit
<1> QED BY <1>1 DEF CutTurn, User, Turn

\* The remark, or nothing, in front of an end.
LEMMA EndWithRemark ==
  ASSUME NEW e \in Seq(Turn), NEW K, K = e \/ K = <<CutTurn>> \o e
  PROVE  \E c \in {0, 1} :
           /\ K \in Seq(Turn) /\ Len(K) = c + Len(e)
           /\ c = 1 => K[1] = CutTurn
           /\ \A i \in 1..Len(e) : K[c + i] = e[i]
           /\ K # e => c = 1
<1>1. Len(e) \in Nat /\ DOMAIN e = 1..Len(e)
  BY TurnsOf
<1>2. CASE K = e
  <2>1. /\ K \in Seq(Turn) /\ Len(K) = 0 + Len(e)
        /\ \A i \in 1..Len(e) : K[0 + i] = e[i]
    <3>1. \A i \in 1..Len(e) : 0 + i = i
      OBVIOUS
    <3> QED BY <1>1, <1>2, <3>1
  <2>2. 0 \in {0, 1} /\ 0 # 1
    OBVIOUS
  <2> QED BY <1>2, <2>1, <2>2, Zenon
<1>3. CASE K = <<CutTurn>> \o e
  <2>0. PICK r : r = <<CutTurn>>
    OBVIOUS
  <2>1. r \in Seq(Turn) /\ r = <<CutTurn>> /\ Len(r) = 1 /\ r[1] = CutTurn
    <3>1. PICK t \in Turn : t = CutTurn
      BY CutTurnIs
    <3>2. r = <<t>> /\ t \in Turn
      BY <2>0, <3>1
    <3> QED BY <3>1, <3>2
  <2>2. /\ K \in Seq(Turn) /\ Len(K) = 1 + Len(e)
        /\ \A i \in 1..1 + Len(e) : K[i] = IF i <= 1 THEN r[i] ELSE e[i - 1]
    BY <1>3, <2>1, ConcatProperties
  <2>3. K[1] = CutTurn
    BY <1>1, <2>1, <2>2
  <2>4. ASSUME NEW i \in 1..Len(e) PROVE K[1 + i] = e[i]
    <3>1. 1 + i \in 1..1 + Len(e) /\ ~(1 + i <= 1) /\ 1 + i - 1 = i
      BY <1>1
    <3> QED BY <2>2, <3>1
  <2> QED BY <2>2, <2>3, <2>4
<1> QED BY <1>2, <1>3

\* The first turns, and an end of the others with the remark.
Shrinks(h, primed, turns, e, K, g) ==
  /\ h # <<>> => h[1].role = "user"
  /\ turns = SubSeq(h, primed + 1, Len(h))
  /\ EndOf(turns, e) /\ (e # <<>> => e[1].role = "user")
  /\ K = e \/ (K = <<CutTurn>> \o e /\ turns # <<>>)
  /\ g = SubSeq(h, 1, primed) \o K

LEMMA HeadAndEnd ==
  ASSUME NEW h \in Seq(Turn), NEW primed \in 0..Len(h), NEW turns, NEW e, NEW K, NEW g,
         Shrinks(h, primed, turns, e, K, g)
  PROVE  /\ Fewer(h, g)
         /\ \A i \in 1..primed : i \in 1..Len(g) /\ g[i] = h[i]
         /\ \A j \in 1..Len(e) : \E i \in 1..Len(g) : g[i] = h[Len(h) - Len(e) + j]
         /\ e # <<>> => g # <<>> /\ Last(g) = h[Len(h)]
         /\ K # e => \E i \in 1..Len(g) : g[i] = CutTurn
<1>1. PICK N \in Nat : N = Len(h) /\ DOMAIN h = 1..N
  BY TurnsOf
<1>2. PICK head : head = SubSeq(h, 1, primed)
  OBVIOUS
<1>3. primed \in Nat /\ primed <= N /\ 1 \in 1..N + 1 /\ primed + 1 \in 1..N + 1 /\ N \in 0..N
  BY <1>1
<1>4. head \in Seq(Turn) /\ Len(head) = primed /\ \A i \in 1..primed : head[i] = h[i]
  <2>1. Len(head) = (IF 1 <= primed THEN primed - 1 + 1 ELSE 0) /\ head \in Seq(Turn)
        /\ \A i \in 1..Len(head) : head[i] = h[1 + i - 1]
    BY <1>1, <1>2, <1>3, PartOf
  <2>2. Len(head) = primed /\ \A i \in 1..primed : 1 + i - 1 = i
    BY <1>3, <2>1
  <2> QED BY <2>1, <2>2
<1>5. EndOf(h, turns) /\ Len(turns) = N - primed /\ turns \in Seq(Turn)
  <2>1. EndOf(h, turns) /\ Len(turns) = N - (primed + 1) + 1
    <3>1. turns = SubSeq(h, primed + 1, N)
      BY <1>1 DEF Shrinks
    <3> QED BY <1>1, <1>3, <3>1, PartIsEnd
  <2> QED BY <1>3, <2>1 DEF EndOf
<1>6. EndOf(turns, e)
  BY DEF Shrinks
<1>7. EndOf(h, e)
  BY <1>5, <1>6, EndOfEnd
<1>8. PICK l \in Nat : l = Len(e) /\ l <= N - primed /\ e \in Seq(Turn) /\ (e # <<>> <=> l > 0)
  BY <1>5, <1>6, TurnsOf DEF EndOf
<1>9. \A i \in 1..l : e[i] = h[N - l + i]
  BY <1>1, <1>7, <1>8 DEF EndOf
<1>10. PICK c \in {0, 1} :
         /\ K \in Seq(Turn) /\ Len(K) = c + l /\ (c = 1 => K[1] = CutTurn)
         /\ \A i \in 1..l : K[c + i] = e[i]
         /\ (K # e => c = 1)
  BY <1>8, EndWithRemark DEF Shrinks
<1>11. g = head \o K
  BY <1>2 DEF Shrinks
<1>12. /\ g \in Seq(Turn) /\ Len(g) = primed + c + l
       /\ \A i \in 1..primed + c + l : g[i] = IF i <= primed THEN head[i] ELSE K[i - primed]
  <2>1. /\ g \in Seq(Turn) /\ Len(g) = primed + (c + l)
        /\ \A i \in 1..primed + (c + l) : g[i] = IF i <= primed THEN head[i] ELSE K[i - primed]
    <3>1. PICK m \in Nat : m = c + l /\ Len(K) = m
      BY <1>8, <1>10
    <3>2. head \in Seq(Turn) /\ K \in Seq(Turn)
      BY <1>4, <1>10
    <3>3. /\ g \in Seq(Turn) /\ Len(g) = Len(head) + Len(K)
          /\ \A i \in 1..Len(head) + Len(K) :
               g[i] = IF i <= Len(head) THEN head[i] ELSE K[i - Len(head)]
      BY <1>11, <3>2, ConcatProperties
    <3>4. Len(head) = primed
      BY <1>4
    <3>5. /\ Len(g) = primed + m
          /\ \A i \in 1..primed + m : g[i] = IF i <= primed THEN head[i] ELSE K[i - primed]
      BY <3>1, <3>3, <3>4
    <3> QED BY <3>1, <3>3, <3>5
  <2>2. primed + (c + l) = primed + c + l
    BY <1>3, <1>8, <1>10
  <2> QED BY <2>1, <2>2
<1>13. \A i \in 1..primed : g[i] = h[i] /\ i \in 1..Len(g)
  BY <1>3, <1>4, <1>8, <1>10, <1>12
<1>14. ASSUME NEW i \in 1..l
       PROVE  primed + c + i \in 1..Len(g) /\ g[primed + c + i] = h[N - l + i]
  <2>1. /\ primed + c + i \in 1..primed + c + l /\ ~(primed + c + i <= primed)
        /\ primed + c + i - primed = c + i
    BY <1>3, <1>8, <1>10
  <2>2. g[primed + c + i] = K[c + i]
    BY <1>12, <2>1
  <2> QED BY <1>9, <1>10, <1>12, <2>1, <2>2
<1>15. c = 1 => primed + 1 \in 1..Len(g) /\ g[primed + 1] = CutTurn
  <2> SUFFICES ASSUME c = 1 PROVE primed + 1 \in 1..Len(g) /\ g[primed + 1] = CutTurn
    OBVIOUS
  <2>1. primed + 1 \in 1..primed + c + l /\ ~(primed + 1 <= primed) /\ primed + 1 - primed = 1
    BY <1>3, <1>8
  <2> QED BY <1>10, <1>12, <2>1
<1>16. c = 1 => N - primed > 0 \/ K = e
  <2>1. K = e \/ turns # <<>>
    BY DEF Shrinks
  <2>2. turns # <<>> => Len(turns) > 0
    BY <1>5, TurnsOf
  <2> QED BY <1>5, <2>1, <2>2
<1>17. c = 1 => N > primed
  <2> SUFFICES ASSUME c = 1, K = e PROVE FALSE
    BY <1>3, <1>16
  <2>1. Len(K) = l /\ Len(K) = 1 + l
    BY <1>8, <1>10
  <2> QED BY <1>8, <2>1
<1>18. ASSUME NEW i \in 1..Len(g)
       PROVE  \/ g[i] = CutTurn
              \/ \E j \in 1..Len(h) : g[i] = h[j] /\ (j = Len(h) => i = Len(g))
  <2>1. i \in 1..primed \/ (c = 1 /\ i = primed + 1) \/ i - primed - c \in 1..l
    BY <1>3, <1>8, <1>10, <1>12
  <2>2. CASE i \in 1..primed
    <3>1. g[i] = h[i] /\ i \in 1..Len(h)
      BY <1>1, <1>3, <1>13, <2>2
    <3>2. ASSUME i = N PROVE i = Len(g)
      <4>1. primed = N /\ l = 0 /\ c = 0
        BY <1>3, <1>8, <1>10, <1>17, <2>2, <3>2
      <4> QED BY <1>3, <1>12, <3>2, <4>1
    <3> QED BY <1>1, <3>1, <3>2
  <2>3. CASE c = 1 /\ i = primed + 1
    BY <1>15, <2>3
  <2>4. CASE i - primed - c \in 1..l
    <3>1. PICK k \in 1..l : k = i - primed - c
      BY <2>4
    <3>2. i = primed + c + k /\ N - l + k \in 1..N /\ (N - l + k = N => i = Len(g))
      <4>1. PICK x \in Nat : x = i
        BY <1>12
      <4>2. x = primed + c + k /\ N - l + k \in 1..N
        BY <1>3, <1>8, <1>10, <3>1, <4>1
      <4>3. N - l + k = N => k = l
        BY <1>1, <1>8
      <4> QED BY <1>12, <4>1, <4>2, <4>3
    <3>3. g[i] = h[N - l + k]
      BY <1>14, <3>2
    <3> QED BY <1>1, <3>2, <3>3
  <2> QED BY <2>1, <2>2, <2>3, <2>4
<1>19. ASSUME g # <<>> PROVE g[1].role = "user"
  <2>1. Len(g) > 0
    BY <1>12, <1>19, TurnsOf
  <2>2. CASE primed > 0
    <3>1. 1 \in 1..primed /\ N > 0
      BY <1>3, <2>2
    <3>2. h # <<>>
      BY <1>1, <3>1, TurnsOf
    <3> QED BY <1>13, <3>1, <3>2 DEF Shrinks
  <2>3. CASE primed = 0 /\ c = 1
    BY <1>15, <2>3, CutTurnIs
  <2>4. CASE primed = 0 /\ c = 0
    <3>1. 1 \in 1..l /\ primed + c + 1 = 1
      BY <1>8, <1>12, <2>1, <2>4
    <3>2. g[1] = e[1]
      BY <1>9, <1>14, <3>1
    <3>3. e # <<>>
      BY <1>8, <3>1
    <3> QED BY <3>2, <3>3 DEF Shrinks
  <2> QED BY <1>3, <1>10, <2>2, <2>3, <2>4
<1>20. Fewer(h, g)
  BY <1>12, <1>18, <1>19 DEF Fewer
<1>21. ASSUME e # <<>> PROVE g # <<>> /\ Last(g) = h[N]
  <2>1. l \in 1..l /\ N - l + l = N /\ primed + c + l = Len(g)
    BY <1>1, <1>8, <1>12, <1>21
  <2>2. g[Len(g)] = h[N]
    BY <1>14, <2>1
  <2>3. Len(g) > 0
    BY <1>3, <1>8, <1>10, <1>12, <1>21
  <2> QED BY <1>12, <2>2, <2>3, TurnsOf DEF Last
<1>22. \A j \in 1..l : \E i \in 1..Len(g) : g[i] = h[N - l + j]
  BY <1>14
<1>23. K # e => \E i \in 1..Len(g) : g[i] = CutTurn
  BY <1>10, <1>15
<1> QED BY <1>1, <1>2, <1>8, <1>11, <1>13, <1>20, <1>21, <1>22, <1>23

LEMMA DroppedIs ==
  ASSUME NEW p \in PayloadSet, NEW primed \in 0..Len(p.history), NEW limit, NEW min \in Nat,
         p.history # <<>> => p.history[1].role = "user",
         NEW q, q = Dropped(p, primed, limit, min)
  PROVE  /\ q \in PayloadSet /\ q.text = p.text /\ q.results = p.results
         /\ Fewer(p.history, q.history) /\ primed <= Len(q.history)
         /\ \/ UsersStay(p.history, q.history)
            \/ \E i \in 1..Len(q.history) : q.history[i] = CutTurn
         /\ min >= 2 /\ Len(p.history) >= primed + 2
              /\ p.history[Len(p.history) - 1].role = "user" =>
              q.history # <<>> /\ Last(q.history) = Last(p.history)
<1>1. PICK h : h = p.history
  OBVIOUS
<1>2. /\ h \in Seq(Turn) /\ Len(h) \in Nat /\ primed \in 0..Len(h) /\ primed \in Nat
      /\ primed + 1 \in 1..Len(h) + 1 /\ (h # <<>> => h[1].role = "user")
  <2>1. h \in Seq(Turn) /\ Len(h) \in Nat
    BY <1>1, SizeOf, TurnsOf
  <2> QED BY <1>1, <2>1
<1>3. PICK head, turns : head = SubSeq(h, 1, primed) /\ turns = SubSeq(h, primed + 1, Len(h))
  OBVIOUS
<1>4. turns \in Seq(Turn) /\ Len(turns) = Len(h) - primed /\ EndOf(h, turns)
  <2>1. EndOf(h, turns) /\ Len(turns) = Len(h) - (primed + 1) + 1
    BY <1>2, <1>3, PartIsEnd
  <2> QED BY <1>2, <2>1 DEF EndOf
<1>5. PICK room : q = [p EXCEPT !.history = head \o KeepEnd(turns, room, min)]
  BY <1>1, <1>3 DEF Dropped
<1>6. PICK K : K = KeepEnd(turns, room, min)
  OBVIOUS
<1>7. PICK e : /\ EndOf(turns, e) /\ (e # <<>> => e[1].role = "user")
               /\ \/ K = <<CutTurn>> \o e /\ turns # <<>>
                  \/ /\ K = e
                     /\ \A j \in 1..Len(turns) :
                          turns[j].role = "user" => j > Len(turns) - Len(e)
               /\ min >= 2 /\ Len(turns) >= 2 /\ turns[Len(turns) - 1].role = "user" => Len(e) >= 2
  BY <1>4, <1>6, EndIsKept
<1>8. PICK g : g = head \o K
  OBVIOUS
<1>9. /\ Fewer(h, g)
      /\ \A i \in 1..primed : i \in 1..Len(g) /\ g[i] = h[i]
      /\ \A j \in 1..Len(e) : \E i \in 1..Len(g) : g[i] = h[Len(h) - Len(e) + j]
      /\ e # <<>> => g # <<>> /\ Last(g) = h[Len(h)]
      /\ K # e => \E i \in 1..Len(g) : g[i] = CutTurn
  <2>1. Shrinks(h, primed, turns, e, K, g)
    BY <1>2, <1>3, <1>7, <1>8 DEF Shrinks
  <2> QED BY <1>2, <2>1, HeadAndEnd
<1>10. q.history = g /\ q.text = p.text /\ q.results = p.results /\ q \in PayloadSet
  <2>1. g \in Seq(Turn)
    BY <1>9 DEF Fewer
  <2> QED BY <1>5, <1>6, <1>8, <2>1 DEF PayloadSet
<1>11. Len(e) \in Nat /\ (e # <<>> <=> Len(e) > 0) /\ Len(e) <= Len(turns)
  BY <1>7, TurnsOf DEF EndOf
<1>12. \A j \in 1..Len(turns) : turns[j] = h[primed + j]
  <2>1. Len(h) - Len(turns) = primed
    BY <1>2, <1>4
  <2> QED BY <1>4, <2>1 DEF EndOf
<1>13. ASSUME \A j \in 1..Len(turns) : turns[j].role = "user" => j > Len(turns) - Len(e)
       PROVE  UsersStay(h, g)
  <2>1. ASSUME NEW j \in 1..Len(h), h[j].role = "user" PROVE \E i \in 1..Len(g) : g[i] = h[j]
    <3>1. CASE j <= primed
      <4>1. j \in 1..primed
        BY <3>1
      <4> QED BY <1>9, <4>1
    <3>2. CASE j > primed
      <4>1. j - primed \in 1..Len(turns) /\ primed + (j - primed) = j
        BY <1>2, <1>4, <3>2
      <4>2. turns[j - primed].role = "user"
        BY <1>12, <2>1, <4>1
      <4>3. j - primed > Len(turns) - Len(e)
        BY <1>13, <4>1, <4>2
      <4>4. PICK k : k = j - Len(h) + Len(e)
        OBVIOUS
      <4>5. k \in 1..Len(e) /\ Len(h) - Len(e) + k = j
        BY <1>2, <1>4, <1>11, <4>1, <4>3, <4>4
      <4> QED BY <1>9, <4>5
    <3> QED BY <1>2, <3>1, <3>2
  <2> QED BY <2>1 DEF UsersStay
<1>14. UsersStay(h, g) \/ \E i \in 1..Len(g) : g[i] = CutTurn
  <2>1. CASE K = e /\ \A j \in 1..Len(turns) : turns[j].role = "user" => j > Len(turns) - Len(e)
    BY <1>13, <2>1
  <2>2. CASE K # e
    BY <1>9, <2>2
  <2>3. ASSUME K = <<CutTurn>> \o e PROVE K # e
    <3>1. PICK t \in Turn : t = CutTurn
      BY CutTurnIs
    <3>2. e \in Seq(Turn)
      BY <1>7 DEF EndOf
    <3>3. PICK s : s = <<t>>
      OBVIOUS
    <3>5. s \in Seq(Turn) /\ s # <<>>
      BY <3>3
    <3>4. K = s \o e
      BY <2>3, <3>1, <3>3
    <3> QED BY <3>2, <3>4, <3>5, ConcatEqualIffEmpty
  <2> QED BY <1>7, <2>1, <2>2, <2>3
<1>15. ASSUME min >= 2, Len(h) >= primed + 2, h[Len(h) - 1].role = "user"
       PROVE  g # <<>> /\ Last(g) = Last(h)
  <2>1. Len(turns) >= 2 /\ Len(turns) - 1 \in 1..Len(turns) /\ primed + (Len(turns) - 1) = Len(h) - 1
    BY <1>2, <1>4, <1>15
  <2>2. turns[Len(turns) - 1].role = "user"
    BY <1>12, <1>15, <2>1
  <2>3. e # <<>>
    BY <1>7, <1>11, <1>15, <2>1, <2>2
  <2> QED BY <1>9, <2>3 DEF Last
<1>16. primed <= Len(g)
  <2>1. g \in Seq(Turn) /\ Len(g) \in Nat
    BY <1>9, TurnsOf DEF Fewer
  <2>2. primed > 0 => primed \in 1..Len(g)
    BY <1>2, <1>9
  <2> QED BY <1>2, <2>1, <2>2
<1> QED BY <1>1, <1>9, <1>10, <1>14, <1>15, <1>16

-----------------------------------------------------------------------------
(* Translator: what Kiro accepts, made smaller.                            *)

Acceptable(h, results) ==
  /\ h # <<>> => h[1].role = "user"
  /\ \A i \in 1..Len(h) : /\ ~Hollow(h[i])
                          /\ h[i].role = "assistant" => "old" \notin ToSet(h[i].text)
  /\ \A i \in 1..Len(h) : h[i].calls # <<>> =>
       i = Len(h) /\ ToSet(h[i].calls) \subseteq ToSet(results)

LEMMA FewerAccepted ==
  ASSUME NEW h, NEW g, NEW results, Acceptable(h, results), Fewer(h, g)
  PROVE  Acceptable(g, results)
<1>1. ASSUME NEW i \in 1..Len(g)
      PROVE  /\ ~Hollow(g[i]) /\ (g[i].role = "assistant" => "old" \notin ToSet(g[i].text))
             /\ g[i].calls # <<>> =>
                  i = Len(g) /\ ToSet(g[i].calls) \subseteq ToSet(results)
  <2>1. CASE g[i] = CutTurn
    <3>1. CutTurn.role # "assistant" /\ CutTurn.calls = <<>>
      BY CutTurnIs
    <3> QED BY <2>1, <3>1 DEF Hollow
  <2>2. ASSUME NEW j \in 1..Len(h), g[i] = h[j], j = Len(h) => i = Len(g)
        PROVE  /\ ~Hollow(g[i]) /\ (g[i].role = "assistant" => "old" \notin ToSet(g[i].text))
               /\ g[i].calls # <<>> =>
                    i = Len(g) /\ ToSet(g[i].calls) \subseteq ToSet(results)
    BY <2>2, Zenon DEF Acceptable
  <2> QED BY <2>1, <2>2, Zenon DEF Fewer
<1> QED BY <1>1, Zenon DEF Acceptable, Fewer

LEMMA CutsAccepted ==
  ASSUME NEW h \in Seq(Turn), NEW g, NEW results, Acceptable(h, results), Cuts(h, g)
  PROVE  Acceptable(g, results)
<1>1. Len(g) = Len(h) /\ g \in Seq(Turn) /\ Len(h) \in Nat
  BY TurnsOf DEF Cuts
<1>2. ASSUME NEW i \in 1..Len(g)
      PROVE  /\ ~Hollow(g[i]) /\ (g[i].role = "assistant" => "old" \notin ToSet(g[i].text))
             /\ g[i].calls # <<>> =>
                  i = Len(g) /\ ToSet(g[i].calls) \subseteq ToSet(results)
  <2>1. /\ i \in 1..Len(h) /\ g[i].role = h[i].role /\ g[i].calls = h[i].calls
        /\ Shortened(h[i].text, g[i].text)
    BY <1>1 DEF Cuts
  <2>2. /\ ~Hollow(h[i]) /\ (h[i].role = "assistant" => "old" \notin ToSet(h[i].text))
        /\ h[i].calls # <<>> => i = Len(g) /\ ToSet(h[i].calls) \subseteq ToSet(results)
    BY <1>1, <2>1 DEF Acceptable
  <2>3. Len(h[i].text) \in Nat
    BY <2>1, TurnsOf, TurnFields, LenProperties
  <2>4. PICK u, v : u = h[i].text /\ v = g[i].text
    OBVIOUS
  <2>5. v = u \/ (Len(v) >= 2 /\ ToSet(v) \subseteq ToSet(u) \cup {"note"})
    BY <2>1, <2>3, <2>4 DEF Shortened
  <2>6. CASE v = u
    BY <2>1, <2>2, <2>4, <2>6 DEF Hollow
  <2>7. CASE Len(v) >= 2 /\ ToSet(v) \subseteq ToSet(u) \cup {"note"}
    <3>1. v \notin {<<>>, <<".">>}
      <4>1. v = <<>> => Len(v) = 0
        OBVIOUS
      <4>2. v = <<".">> => Len(v) = 1
        OBVIOUS
      <4>3. ~(0 >= 2) /\ ~(1 >= 2)
        OBVIOUS
      <4> QED BY <2>7, <4>1, <4>2, <4>3
    <3>2. "old" \notin ToSet(u) => "old" \notin ToSet(v)
      BY <2>7
    <3> QED BY <2>1, <2>2, <2>4, <3>1, <3>2 DEF Hollow
  <2> QED BY <2>5, <2>6, <2>7
<1>3. g # <<>> => g[1].role = "user"
  <2> SUFFICES ASSUME g # <<>> PROVE g[1].role = "user"
    OBVIOUS
  <2>1. 1 \in 1..Len(h) /\ h # <<>>
    BY <1>1, TurnsOf
  <2> QED BY <2>1 DEF Acceptable, Cuts
<1> QED BY <1>2, <1>3 DEF Acceptable

\* The first turns alone.
LEMMA HeadFewer ==
  ASSUME NEW h \in Seq(Turn), NEW primed \in 0..Len(h), h # <<>> => h[1].role = "user",
         NEW g, g = SubSeq(h, 1, primed)
  PROVE  /\ Fewer(h, g) /\ \A i \in 1..Len(g) : i \in 1..Len(h) /\ g[i] = h[i]
<1>1. Len(h) \in Nat /\ primed \in Nat /\ 1 \in 1..Len(h) + 1
  BY TurnsOf
<1>2. /\ g \in Seq(Turn) /\ Len(g) = (IF 1 <= primed THEN primed - 1 + 1 ELSE 0)
      /\ \A i \in 1..Len(g) : g[i] = h[1 + i - 1]
  BY <1>1, PartOf
<1>3. Len(g) = primed /\ \A i \in 1..primed : 1 + i - 1 = i
  BY <1>1, <1>2
<1>4. \A i \in 1..Len(g) : i \in 1..Len(h) /\ g[i] = h[i] /\ (i = Len(h) => i = Len(g))
  BY <1>1, <1>2, <1>3
<1>5. ASSUME g # <<>> PROVE g[1].role = "user"
  <2>1. Len(g) \in Nat /\ Len(g) > 0
    BY <1>2, <1>5, TurnsOf
  <2>2. 1 \in 1..Len(g) /\ h # <<>>
    BY <1>1, <1>3, <2>1, TurnsOf
  <2> QED BY <1>4, <2>2
<1> QED BY <1>2, <1>4, <1>5 DEF Fewer

Unmarked(h) == \A i \in 1..Len(h) : "cut" \notin ToSet(h[i].text) /\ "note" \notin ToSet(h[i].text)

\* Cuts leave the remark and the last calls, and show in a mark.
LEMMA CutsShow ==
  ASSUME NEW h \in Seq(Turn), NEW g, Cuts(h, g)
  PROVE  /\ Unmarked(g) => \A i \in 1..Len(h) : g[i].text = h[i].text
         /\ \A i \in 1..Len(h) : h[i] = CutTurn => g[i].text = <<"cut">>
         /\ h # <<>> => g # <<>> /\ Last(g).calls = Last(h).calls
<1>1. Len(g) = Len(h) /\ g \in Seq(Turn) /\ Len(h) \in Nat
  BY TurnsOf DEF Cuts
<1>2. \A i \in 1..Len(h) : Shortened(h[i].text, g[i].text) /\ g[i].calls = h[i].calls
  BY DEF Cuts
<1>3. ASSUME Unmarked(g), NEW i \in 1..Len(h) PROVE g[i].text = h[i].text
  <2>1. "note" \notin ToSet(g[i].text)
    BY <1>1, <1>3 DEF Unmarked
  <2> QED BY <1>2, <2>1 DEF Shortened
<1>4. ASSUME NEW i \in 1..Len(h), h[i] = CutTurn PROVE g[i].text = <<"cut">>
  <2>1. PICK u, v : u = h[i].text /\ v = g[i].text
    OBVIOUS
  <2>2. u = <<"cut">>
    BY <1>4, <2>1, CutTurnIs
  <2>3. Len(u) = 1
    BY <2>2
  <2>4. v = u \/ Len(v) \in 2..Len(u)
    BY <1>2, <2>1 DEF Shortened
  <2> QED BY <2>1, <2>2, <2>3, <2>4
<1>5. ASSUME h # <<>> PROVE g # <<>> /\ Last(g).calls = Last(h).calls
  <2>1. Len(h) \in 1..Len(h)
    BY <1>1, <1>5, TurnsOf
  <2>2. g # <<>>
    BY <1>1, <2>1, TurnsOf
  <2> QED BY <1>1, <1>2, <2>1, <2>2 DEF Last
<1> QED BY <1>3, <1>4, <1>5

\* What makes a payload smaller keeps what Kiro accepts, and leaves it too large
\* only when all that is left is at its smallest.
AtSmallest(p) == Size(p) > client.limit => Len(p.text) = 1 /\ AllShort(p.history)
Sound(p) == p \in PayloadSet /\ Acceptable(p.history, p.results)

LEMMA SoundDropped ==
  ASSUME NEW p, Sound(p), NEW primed \in 0..Len(p.history), NEW limit, NEW min \in Nat,
         NEW q, q = Dropped(p, primed, limit, min)
  PROVE  /\ Sound(q) /\ q.text = p.text /\ q.results = p.results
         /\ primed <= Len(q.history)
         /\ \/ UsersStay(p.history, q.history)
            \/ \E i \in 1..Len(q.history) : q.history[i] = CutTurn
         /\ min >= 2 /\ Len(p.history) >= primed + 2
              /\ p.history[Len(p.history) - 1].role = "user" =>
              q.history # <<>> /\ Last(q.history) = Last(p.history)
<1>1. p \in PayloadSet /\ Acceptable(p.history, p.results)
  BY DEF Sound
<1>2. p.history # <<>> => p.history[1].role = "user"
  BY <1>1 DEF Acceptable
<1>3. /\ q \in PayloadSet /\ q.text = p.text /\ q.results = p.results
      /\ Fewer(p.history, q.history) /\ primed <= Len(q.history)
      /\ \/ UsersStay(p.history, q.history)
         \/ \E i \in 1..Len(q.history) : q.history[i] = CutTurn
      /\ min >= 2 /\ Len(p.history) >= primed + 2
           /\ p.history[Len(p.history) - 1].role = "user" =>
           q.history # <<>> /\ Last(q.history) = Last(p.history)
  BY <1>1, <1>2, DroppedIs
<1>4. Acceptable(q.history, q.results)
  BY <1>1, <1>3, FewerAccepted
<1> QED BY <1>3, <1>4 DEF Sound

LEMMA SoundCut ==
  ASSUME NEW p, Sound(p), NEW limit,
         NEW q, q = Unless(Size(p) <= limit, p, truncateOversizedHistoryContent(p, limit))
  PROVE  /\ Sound(q) /\ q.text = p.text /\ q.results = p.results /\ Cuts(p.history, q.history)
         /\ Size(q) <= limit \/ AllShort(q.history)
<1>1. p \in PayloadSet /\ Acceptable(p.history, p.results) /\ p.history \in Seq(Turn)
  BY SizeOf DEF Sound
<1>2. CASE Size(p) <= limit
  <2>1. q = p
    BY <1>2 DEF Unless
  <2> QED BY <1>1, <1>2, <2>1, CutsItself
<1>3. CASE ~(Size(p) <= limit)
  <2>1. q = truncateOversizedHistoryContent(p, limit)
    BY <1>3 DEF Unless
  <2>2. /\ q \in PayloadSet /\ q.text = p.text /\ q.results = p.results
        /\ Cuts(p.history, q.history) /\ (Size(q) <= limit \/ AllShort(q.history))
    BY <1>1, <2>1, HistoryCut
  <2>3. Acceptable(q.history, q.results)
    BY <1>1, <2>2, CutsAccepted
  <2> QED BY <2>2, <2>3 DEF Sound
<1> QED BY <1>2, <1>3

\* The current message, cut if the payload is too long for a limit up to that of
\* the model.
LEMMA SoundCurrent ==
  ASSUME NEW p, Sound(p), client.limit \in Nat, NEW limit \in Nat, limit <= client.limit,
         Size(p) <= limit \/ AllShort(p.history),
         NEW q, q = Unless(Size(p) <= limit, p, truncateCurrentMessage(p))
  PROVE  /\ Sound(q) /\ q.history = p.history /\ q.results = p.results /\ AtSmallest(q)
         /\ Size(q) < client.limit => q.text = p.text
<1>1. p \in PayloadSet /\ Acceptable(p.history, p.results) /\ Size(p) \in Nat
  BY SizeOf DEF Sound
<1>2. CASE Size(p) <= limit
  <2>1. q = p
    BY <1>2 DEF Unless
  <2>2. ~(Size(q) > client.limit)
    BY <1>1, <1>2, <2>1
  <2> QED BY <2>1, <2>2 DEF AtSmallest
<1>3. CASE ~(Size(p) <= limit)
  <2>1. q = truncateCurrentMessage(p)
    BY <1>3 DEF Unless
  <2>2. /\ q \in PayloadSet /\ q.history = p.history /\ q.results = p.results
        /\ Size(q) > client.limit => Len(q.text) = 1
        /\ Size(q) < client.limit => q.text = p.text
    BY <1>1, <2>1, CurrentCut
  <2> QED BY <1>1, <1>3, <2>2 DEF Sound, AtSmallest
<1> QED BY <1>2, <1>3

\* truncatePayloadToLimit
LEMMA Truncated ==
  ASSUME NEW p, Sound(p), client.limit \in Nat, NEW q, q = truncatePayloadToLimit(p)
  PROVE  /\ Sound(q) /\ q.results = p.results /\ AtSmallest(q)
         /\ Size(q) < client.limit => q.text = p.text
         /\ Unmarked(q.history) => \A j \in 1..Len(p.history) : p.history[j].role = "user" =>
              \E i \in 1..Len(q.history) : q.history[i].text = p.history[j].text
         /\ p.history # <<>>
              /\ (Size(p) > client.limit =>
                    /\ Len(p.history) >= (IF client.system THEN 4 ELSE 2)
                    /\ p.history[Len(p.history) - 1].role = "user") =>
              q.history # <<>> /\ Last(q.history).calls = Last(p.history).calls
<1>1. /\ p \in PayloadSet /\ p.history \in Seq(Turn) /\ Size(p) \in Nat
      /\ Len(p.history) \in Nat /\ MinRecent \in Nat /\ MinRecent >= 2
  BY SizeOf, TurnsOf, TranslatorAssumption DEF Sound
<1>2. CASE Size(p) <= client.limit
  <2>1. q = p
    BY <1>2 DEF truncatePayloadToLimit
  <2>2. ~(Size(p) > client.limit)
    BY <1>1, <1>2
  <2> QED BY <2>1, <2>2 DEF AtSmallest
<1>3. CASE ~(Size(p) <= client.limit)
  <2> DEFINE primed == IF client.system /\ Len(p.history) >= 2 THEN 2 ELSE 0
  <2>1. PICK a : a = Dropped(p, primed, client.limit, MinRecent)
    OBVIOUS
  <2>2. PICK b : b = Unless(Size(a) <= client.limit, a,
                            truncateOversizedHistoryContent(a, client.limit))
    OBVIOUS
  <2>3. q = Unless(Size(b) <= client.limit, b, truncateCurrentMessage(b))
    BY <1>3, <2>1, <2>2 DEF truncatePayloadToLimit
  <2>4. primed \in 0..Len(p.history) /\ (Len(p.history) >= (IF client.system THEN 4 ELSE 2)
                                           => Len(p.history) >= primed + 2)
    BY <1>1
  <2> HIDE DEF primed
  <2>5. /\ Sound(a) /\ a.text = p.text /\ a.results = p.results
        /\ \/ UsersStay(p.history, a.history)
           \/ \E i \in 1..Len(a.history) : a.history[i] = CutTurn
        /\ MinRecent >= 2 /\ Len(p.history) >= primed + 2
             /\ p.history[Len(p.history) - 1].role = "user" =>
             a.history # <<>> /\ Last(a.history) = Last(p.history)
    BY <1>1, <2>1, <2>4, SoundDropped
  <2>6. /\ Sound(b) /\ b.text = a.text /\ b.results = a.results /\ Cuts(a.history, b.history)
        /\ Size(b) <= client.limit \/ AllShort(b.history)
    BY <2>2, <2>5, SoundCut
  <2>7. /\ Sound(q) /\ q.history = b.history /\ q.results = b.results /\ AtSmallest(q)
        /\ Size(q) < client.limit => q.text = b.text
    BY <1>1, <2>3, <2>6, SoundCurrent
  <2>8. a.history \in Seq(Turn)
    BY <2>5, SizeOf DEF Sound
  <2>9. /\ Unmarked(b.history) => \A i \in 1..Len(a.history) : b.history[i].text = a.history[i].text
        /\ \A i \in 1..Len(a.history) : a.history[i] = CutTurn => b.history[i].text = <<"cut">>
        /\ a.history # <<>> => b.history # <<>> /\ Last(b.history).calls = Last(a.history).calls
        /\ Len(b.history) = Len(a.history)
    <3>1. Len(b.history) = Len(a.history)
      BY <2>6 DEF Cuts
    <3> QED BY <2>6, <2>8, <3>1, CutsShow, Zenon
  <2>10. ASSUME Unmarked(q.history), NEW j \in 1..Len(p.history), p.history[j].role = "user"
         PROVE  \E i \in 1..Len(q.history) : q.history[i].text = p.history[j].text
    <3>1. CASE UsersStay(p.history, a.history)
      <4>1. PICK i \in 1..Len(a.history) : a.history[i] = p.history[j]
        BY <2>10, <3>1 DEF UsersStay
      <4>2. q.history[i].text = a.history[i].text /\ i \in 1..Len(q.history)
        BY <2>7, <2>9, <2>10
      <4> QED BY <4>1, <4>2
    <3>2. ASSUME NEW i \in 1..Len(a.history), a.history[i] = CutTurn PROVE FALSE
      <4>1. q.history[i].text = <<"cut">> /\ i \in 1..Len(q.history)
        BY <2>7, <2>9, <3>2
      <4>2. "cut" \in ToSet(<<"cut">>)
        BY DEF ToSet
      <4> QED BY <2>10, <4>1, <4>2 DEF Unmarked
    <3> QED BY <2>5, <3>1, <3>2
  <2>11. ASSUME Len(p.history) >= (IF client.system THEN 4 ELSE 2),
                p.history[Len(p.history) - 1].role = "user"
         PROVE  q.history # <<>> /\ Last(q.history).calls = Last(p.history).calls
    BY <1>1, <2>4, <2>5, <2>7, <2>9, <2>11
  <2>12. Size(p) > client.limit
    BY <1>1, <1>3
  <2>13. q.results = p.results /\ (Size(q) < client.limit => q.text = p.text)
    BY <2>5, <2>6, <2>7
  <2> QED BY <2>7, <2>10, <2>11, <2>12, <2>13
<1> QED BY <1>2, <1>3

\* shrinkPayloadToHardLimit
LEMMA Shrunk ==
  ASSUME NEW p, Sound(p), client.limit \in Nat, NEW q, q = shrinkPayloadToHardLimit(p)
  PROVE  Sound(q) /\ AtSmallest(q)
<1>1. /\ p \in PayloadSet /\ p.history \in Seq(Turn) /\ Len(p.history) \in Nat
  BY SizeOf, TurnsOf DEF Sound
<1>2. HardLimit \in Nat /\ HardLimit <= client.limit
  <2>1. client.limit \div 2 \in Nat /\ client.limit \div 2 <= client.limit
    OBVIOUS
  <2> QED BY <2>1, TranslatorAssumption DEF HardLimit
<1> DEFINE primed == IF Len(p.history) >= 2 THEN 2 ELSE 0
<1>3. PICK a : a = Dropped(p, primed, HardLimit, 0)
  OBVIOUS
<1>4. PICK b : b = Unless(Size(a) <= HardLimit, a, truncateOversizedHistoryContent(a, HardLimit))
  OBVIOUS
<1>5. PICK head, m : head = SubSeq(b.history, 1, m) /\ m = primed
  OBVIOUS
<1>6. PICK c : c = Unless(Size(b) <= HardLimit, b, [b EXCEPT !.history = head])
  OBVIOUS
<1>7. q = Unless(Size(c) <= HardLimit, c, truncateCurrentMessage(c))
  BY <1>3, <1>4, <1>5, <1>6 DEF shrinkPayloadToHardLimit
<1>8. primed \in 0..Len(p.history) /\ 0 \in Nat
  BY <1>1
<1> HIDE DEF primed
<1>9. Sound(a) /\ primed <= Len(a.history)
  BY <1>3, <1>8, SoundDropped
<1>10. /\ Sound(b) /\ (Size(b) <= HardLimit \/ AllShort(b.history))
       /\ Len(b.history) = Len(a.history)
  BY <1>4, <1>9, SoundCut DEF Cuts
<1>11. Sound(c) /\ (Size(c) <= HardLimit \/ AllShort(c.history))
  <2>1. CASE Size(b) <= HardLimit
    <3>1. c = b
      BY <1>6, <2>1 DEF Unless
    <3> QED BY <1>10, <3>1
  <2>2. CASE ~(Size(b) <= HardLimit)
    <3>1. c = [b EXCEPT !.history = head]
      BY <1>6, <2>2 DEF Unless
    <3>2. /\ b \in PayloadSet /\ b.history \in Seq(Turn) /\ Acceptable(b.history, b.results)
          /\ AllShort(b.history)
      BY <1>10, <2>2, SizeOf DEF Sound
    <3>3. Fewer(b.history, head) /\ \A i \in 1..Len(head) : i \in 1..Len(b.history) /\ head[i] = b.history[i]
      <4>1. m \in 0..Len(b.history)
        <5>1. Len(b.history) \in Nat
          BY <3>2, TurnsOf
        <5> QED BY <1>5, <1>8, <1>9, <1>10, <5>1
      <4>2. b.history # <<>> => b.history[1].role = "user"
        BY <3>2 DEF Acceptable
      <4>3. PICK h : h = b.history
        OBVIOUS
      <4>4. h \in Seq(Turn) /\ m \in 0..Len(h) /\ (h # <<>> => h[1].role = "user")
        BY <3>2, <4>1, <4>2, <4>3
      <4>5. head = SubSeq(h, 1, m)
        BY <1>5, <4>3
      <4>6. Fewer(h, head) /\ \A i \in 1..Len(head) : i \in 1..Len(h) /\ head[i] = h[i]
        BY <4>4, <4>5, HeadFewer
      <4> QED BY <4>3, <4>6
    <3>4. AllShort(head) /\ Acceptable(head, b.results) /\ head \in Seq(Turn)
      BY <3>2, <3>3, FewerAccepted DEF AllShort, Fewer
    <3>5. c \in PayloadSet /\ c.history = head /\ c.results = b.results
      BY <3>1, <3>2, <3>4 DEF PayloadSet
    <3> QED BY <3>4, <3>5 DEF Sound
  <2> QED BY <2>1, <2>2
<1> QED BY <1>2, <1>7, <1>11, SoundCurrent

-----------------------------------------------------------------------------
(* Translator: sanitizeKiroHistory.                                        *)

\* What is selected stood at one of the indices.
LEMMA SelectMembers ==
  ASSUME NEW S, NEW s \in Seq(S), NEW at
  PROVE  \A e \in ToSet(Select(s, at)) : \E i \in 1..Len(s) : i \in at /\ e = s[i]
<1> DEFINE R == {s[i] : i \in at \cap (1..Len(s))}
<1>1. Len(s) \in Nat /\ \A i \in 1..Len(s) : s[i] \in S
  BY LenProperties, ElementOfSeq
<1>2. PICK f \in [0..Len(s) -> Seq(S)] : Takes(f, s, at) /\ Select(s, at) = f[Len(s)]
  BY SelectTakes
<1> DEFINE T == {n \in Nat : n <= Len(s) => f[n] \in Seq(R)}
<1>3. 0 \in T
  <2>1. <<>> \in Seq(R)
    BY EmptySeq
  <2> HIDE DEF R
  <2> QED BY <1>2, <2>1 DEF Takes
<1>4. ASSUME NEW n \in 1..Len(s), n - 1 \in T PROVE n \in T
  <2>1. n \in at => s[n] \in R
    OBVIOUS
  <2> HIDE DEF R
  <2>2. n \in Nat /\ n - 1 \in Nat /\ n - 1 <= Len(s)
    BY <1>1
  <2>3. f[n - 1] \in Seq(R)
    BY <1>4, <2>2
  <2>4. f[n] = IF n \in at THEN Append(f[n - 1], s[n]) ELSE f[n - 1]
    BY <1>2 DEF Takes
  <2>5. n \in at => Append(f[n - 1], s[n]) \in Seq(R)
    <3>1. PICK a, b : a = f[n - 1] /\ b = s[n]
      OBVIOUS
    <3>2. n \in at => Append(a, b) \in Seq(R)
      BY <2>1, <2>3, <3>1, AppendProperties
    <3> QED BY <3>1, <3>2
  <2> QED BY <2>2, <2>3, <2>4, <2>5
<1> HIDE DEF T
<1>5. Len(s) \in T
  <2>1. \A n \in 0..Len(s) : n \in T
    BY <1>1, <1>3, <1>4, BoundedInduction
  <2> QED BY <1>1, <2>1
<1>6. PICK r : r = Select(s, at) /\ r \in Seq(R)
  <2>1. f[Len(s)] \in Seq(R)
    <3> HIDE DEF R
    <3> QED BY <1>1, <1>5 DEF T
  <2> HIDE DEF R
  <2> QED BY <1>2, <2>1
<1>7. ASSUME NEW e \in ToSet(r) PROVE e \in R
  <2> HIDE DEF R
  <2>1. PICK i \in DOMAIN r : e = r[i]
    BY <1>7 DEF ToSet
  <2>2. i \in 1..Len(r)
    BY <1>6, <2>1, LenProperties
  <2> QED BY <1>6, <2>1, <2>2, ElementOfSeq
<1> QED BY <1>6, <1>7

LEMMA FlatIs ==
  ASSUME NEW turn \in Turn, NEW active \in BOOLEAN, NEW f, f = Flat(turn, active)
  PROVE  /\ f \in Turn /\ f.role = turn.role
         /\ turn.role = "assistant" =>
              /\ "old" \notin ToSet(f.text)
              /\ f.calls = IF active THEN turn.calls ELSE <<>>
              /\ turn.text = <<"ok">> => f.text = <<"ok">>
         /\ turn.role = "user" =>
              /\ f.calls = <<>> /\ f.text # <<>> /\ ToSet(turn.results) \subseteq ToSet(f.text)
              /\ f = Flat(turn, FALSE)
<1>1. /\ turn.role \in {"user", "assistant"} /\ turn.text \in Seq(Unit)
      /\ turn.calls \in Seq(Id) /\ turn.results \in Seq(Id) /\ <<>> \in Seq(Id)
  BY TurnFields, EmptySeq
<1>2. CASE turn.role = "assistant"
  <2>1. PICK text : text = Select(turn.text, {i \in DOMAIN turn.text : turn.text[i] # "old"})
    OBVIOUS
  <2>2. PICK calls : calls = IF active THEN turn.calls ELSE <<>>
    OBVIOUS
  <2>3. f = [role |-> "assistant", text |-> text, calls |-> calls, results |-> <<>>]
    BY <1>2, <2>1, <2>2 DEF Flat, Assistant
  <2>4. text \in Seq(Unit)
    BY <1>1, <2>1, SelectType
  <2>5. calls \in Seq(Id)
    BY <1>1, <2>2
  <2>6. "old" \notin ToSet(text)
    <3>1. PICK s, at : s = turn.text /\ at = {i \in DOMAIN s : s[i] # "old"}
      OBVIOUS
    <3>2. \A e \in ToSet(Select(s, at)) : \E i \in 1..Len(s) : i \in at /\ e = s[i]
      BY <1>1, <3>1, SelectMembers
    <3> QED BY <2>1, <3>1, <3>2
  <2>7. ASSUME turn.text = <<"ok">> PROVE text = <<"ok">>
    <3>1. PICK s, at : s = <<"ok">> /\ at = {i \in DOMAIN s : s[i] # "old"}
      OBVIOUS
    <3>2. s \in Seq({"ok"}) /\ Len(s) = 1 /\ DOMAIN s = {1} /\ s[1] = "ok" /\ 1 \in at
      BY <3>1
    <3>3. PICK g : Takes(g, s, at) /\ Select(s, at) = g[Len(s)]
      BY <3>2, SelectTakes
    <3>4. g[1] = Append(<<>>, "ok")
      BY <3>2, <3>3 DEF Takes
    <3>5. Append(<<>>, "ok") = <<"ok">>
      OBVIOUS
    <3> QED BY <2>1, <2>7, <3>1, <3>2, <3>3, <3>4, <3>5
  <2> QED BY <1>1, <1>2, <2>2, <2>3, <2>4, <2>5, <2>6, <2>7 DEF Turn
<1>3. CASE turn.role = "user"
  <2>1. PICK t, told : told = Told(turn.results) /\ t = turn.text \o told
    OBVIOUS
  <2>2. PICK text : text = IF t = <<>> THEN <<".">> ELSE t
    OBVIOUS
  <2>3. f = [role |-> "user", text |-> text, calls |-> <<>>, results |-> <<>>]
        /\ f = Flat(turn, FALSE)
    BY <1>3, <2>1, <2>2 DEF Flat, User
  <2>4. told \in Seq(Id) /\ \A e : e \in ToSet(told) <=> e \in ToSet(turn.results)
    BY <1>1, <2>1, ToldMembers
  <2>5. told \in Seq(Unit)
    <3>1. Id \subseteq Unit
      BY DEF Unit
    <3> QED BY <2>4, <3>1
  <2>6. t \in Seq(Unit) /\ ToSet(t) = ToSet(turn.text) \cup ToSet(told)
    BY <1>1, <2>1, <2>5, ConcatProperties, ConcatMembers
  <2>7. text \in Seq(Unit) /\ text # <<>>
    <3>1. <<".">> \in Seq(Unit) /\ <<".">> # <<>>
      BY DEF Unit
    <3> QED BY <2>2, <2>6, <3>1
  <2>8. ToSet(turn.results) \subseteq ToSet(text)
    <3>1. CASE t = <<>>
      <4>1. ToSet(t) = {}
        BY <3>1 DEF ToSet
      <4> QED BY <2>4, <2>6, <4>1
    <3>2. CASE t # <<>>
      BY <2>2, <2>4, <2>6, <3>2
    <3> QED BY <3>1, <3>2
  <2>9. /\ f.role = "user" /\ f.text = text /\ f.calls = <<>> /\ f.results = <<>>
        /\ f \in Turn
    BY <1>1, <2>3, <2>7 DEF Turn
  <2> QED BY <1>3, <2>3, <2>7, <2>8, <2>9
<1> QED BY <1>1, <1>2, <1>3

Sanitizes(kept, h, active) ==
  /\ kept[0] = <<>>
  /\ \A n \in 1..Len(h) : kept[n] = Keep(kept[n - 1], Flat(h[n], active /\ n = Len(h)))

LEMMA SanitizeKept ==
  ASSUME NEW h \in Seq(Turn), NEW active \in BOOLEAN
  PROVE  \E kept \in [0..Len(h) -> Seq(Turn)] :
           Sanitizes(kept, h, active) /\ sanitizeKiroHistory(h, active) = FromUser(kept[Len(h)])
<1> DEFINE N == Len(h)
           goOn == [n \in 1..N |-> [k \in Seq(Turn) |->
                      Keep(k, Flat(h[n], active /\ n = Len(h)))]]
           F(f) == [n \in 0..N |-> IF n = 0 THEN <<>>
                      ELSE Keep(f[n - 1], Flat(h[n], active /\ n = Len(h)))]
           kept == CHOOSE f : f = F(f)
<1>1. N \in Nat /\ \A n \in 1..N : h[n] \in Turn
  BY TurnsOf
<1>2. sanitizeKiroHistory(h, active) = FromUser(kept[N])
  BY DEF sanitizeKiroHistory
<1>3. goOn \in [1..N -> [Seq(Turn) -> Seq(Turn)]]
  <2>1. ASSUME NEW n \in 1..N, NEW k \in Seq(Turn)
        PROVE  Keep(k, Flat(h[n], active /\ n = Len(h))) \in Seq(Turn)
    <3>1. PICK b \in BOOLEAN : b = (active /\ n = Len(h))
      OBVIOUS
    <3>2. PICK t : t = Flat(h[n], b)
      OBVIOUS
    <3>3. t \in Turn
      BY <1>1, <3>2, FlatIs
    <3>4. Keep(k, t) \in Seq(Turn)
      BY <3>3, AppendProperties DEF Keep
    <3> QED BY <3>1, <3>2, <3>4
  <2> HIDE DEF N
  <2> QED BY <2>1
<1>4. PICK f \in [0..N -> Seq(Turn)] : Follows(f, N, <<>>, goOn)
  <2>1. <<>> \in Seq(Turn)
    BY EmptySeq
  <2> HIDE DEF N, goOn
  <2> QED BY <1>1, <1>3, <2>1, RecursionExists
<1>5. f[0] = <<>> /\ \A n \in 1..N : f[n] = Keep(f[n - 1], Flat(h[n], active /\ n = Len(h)))
  <2>1. f[0] = <<>> /\ \A n \in 1..N : f[n] = goOn[n][f[n - 1]]
    BY <1>4 DEF Follows
  <2>2. \A n \in 1..N, k \in Seq(Turn) : goOn[n][k] = Keep(k, Flat(h[n], active /\ n = Len(h)))
    OBVIOUS
  <2> HIDE DEF goOn, N
  <2>3. \A n \in 1..N : f[n - 1] \in Seq(Turn)
    BY <1>1
  <2> QED BY <2>1, <2>2, <2>3
<1>6. kept = F(kept)
  <2>1. f = F(f)
    <3> HIDE DEF N, goOn
    <3>1. \A n \in 0..N : f[n] = IF n = 0 THEN <<>>
                                 ELSE Keep(f[n - 1], Flat(h[n], active /\ n = Len(h)))
      BY <1>1, <1>5
    <3>2. f = [n \in 0..N |-> f[n]]
      OBVIOUS
    <3> QED BY <3>1, <3>2
  <2> QED BY <2>1
<1> HIDE DEF kept, goOn
<1>7. \A n \in 0..N : f[n] = kept[n]
  <2> HIDE DEF N
  <2>1. \A n \in 0..N : kept[n] = IF n = 0 THEN <<>>
                                  ELSE Keep(kept[n - 1], Flat(h[n], active /\ n = Len(h)))
    BY <1>6
  <2>2. 0 \in 0..N /\ \A n \in 1..N : n \in 0..N /\ n # 0
    BY <1>1
  <2>3. Alike(f, kept, N)
    BY <1>5, <2>1, <2>2 DEF Alike
  <2> QED BY <1>1, <2>3, RecursionAgrees
<1>8. Sanitizes(f, h, active)
  BY <1>5 DEF Sanitizes
<1> QED BY <1>1, <1>2, <1>7, <1>8

\* A turn is kept, or it is empty or a repetition.
KeptFrom(k, t, r) ==
  \/ r = Append(k, t) /\ ~Hollow(t)
  \/ r = k /\ \/ Hollow(t)
              \/ /\ t.role = "user" /\ k # <<>> /\ Last(k).text = t.text
                 /\ Last(k).role = "user"

LEMMA KeepIs ==
  ASSUME NEW k \in Seq(Turn), NEW t \in Turn
  PROVE  Keep(k, t) \in Seq(Turn) /\ KeptFrom(k, t, Keep(k, t))
<1>1. PICK r : r = Keep(k, t)
  OBVIOUS
<1>2. r \in Seq(Turn)
  BY <1>1, AppendProperties DEF Keep
<1>3. r = (IF Hollow(t) \/ (t.role = "user" /\ k # <<>> /\ Last(k).role = "user"
                             /\ Last(k).text = t.text)
           THEN k ELSE Append(k, t))
  BY <1>1 DEF Keep
<1>4. KeptFrom(k, t, r)
  BY <1>3 DEF KeptFrom, Hollow
<1> QED BY <1>1, <1>2, <1>4

\* What has been kept of the first n turns.
CleanUpTo(k, h, n) ==
  /\ Len(k) <= n
  /\ \A i \in 1..Len(k) : ~Hollow(k[i]) /\ (k[i].role = "assistant" => "old" \notin ToSet(k[i].text))
  /\ \A j \in 1..n : h[j].role = "user" =>
       \E i \in 1..Len(k) : k[i].role = "user" /\ k[i].text = Flat(h[j], FALSE).text
  /\ n >= 1 /\ h[1].role = "user" => k # <<>> /\ k[1].role = "user"
  /\ n >= 2 /\ h[1].role = "user" /\ h[2].role = "assistant" /\ h[2].text = <<"ok">> =>
       Len(k) >= 2 /\ k[2].role = "assistant"
  /\ n >= 1 /\ h[n].role = "user" => k # <<>> /\ Last(k).role = "user"

LEMMA CleanStep ==
  ASSUME NEW h \in Seq(Turn), NEW n \in 1..Len(h), NEW k \in Seq(Turn), CleanUpTo(k, h, n - 1),
         NEW b \in BOOLEAN, NEW t, t = Flat(h[n], b), NEW r, KeptFrom(k, t, r)
  PROVE  CleanUpTo(r, h, n)
<1>1. /\ n \in Nat /\ n >= 1 /\ Len(h) \in Nat /\ h[n] \in Turn /\ Len(k) \in Nat
      /\ (k = <<>> <=> Len(k) = 0)
  BY TurnsOf
<1>2. /\ t \in Turn /\ t.role = h[n].role
      /\ h[n].role = "assistant" => "old" \notin ToSet(t.text)
                                      /\ (h[n].text = <<"ok">> => t.text = <<"ok">>)
      /\ h[n].role = "user" => t = Flat(h[n], FALSE)
  BY <1>1, FlatIs
<1>3. \/ r = Append(k, t) /\ ~Hollow(t)
      \/ r = k /\ \/ Hollow(t)
                  \/ /\ t.role = "user" /\ k # <<>> /\ Last(k).text = t.text
                     /\ Last(k).role = "user"
  BY DEF KeptFrom
<1>4. /\ Len(k) <= n - 1
      /\ \A i \in 1..Len(k) : ~Hollow(k[i])
                                /\ (k[i].role = "assistant" => "old" \notin ToSet(k[i].text))
  BY DEF CleanUpTo
<1>5. \A j \in 1..n - 1 : h[j].role = "user" =>
        \E i \in 1..Len(k) : k[i].role = "user" /\ k[i].text = Flat(h[j], FALSE).text
  BY DEF CleanUpTo
<1>6. n - 1 >= 1 /\ h[1].role = "user" => k # <<>> /\ k[1].role = "user"
  BY DEF CleanUpTo
<1>7. n - 1 >= 2 /\ h[1].role = "user" /\ h[2].role = "assistant" /\ h[2].text = <<"ok">> =>
        Len(k) >= 2 /\ k[2].role = "assistant"
  BY DEF CleanUpTo
<1>8. \A j \in 1..n : j \in 1..n - 1 \/ j = n
  BY <1>1
<1>9. h[n].role = "user" => ~Hollow(t)
  BY <1>2 DEF Hollow
<1>10. CASE r = Append(k, t) /\ ~Hollow(t)
  <2>1. /\ Len(r) = Len(k) + 1 /\ r # <<>> /\ r[Len(k) + 1] = t
        /\ \A i \in 1..Len(k) : r[i] = k[i]
    BY <1>2, <1>10, AppendProperties
  <2>2. \A i \in 1..Len(r) : i \in 1..Len(k) \/ i = Len(k) + 1
    BY <1>1, <2>1
  <2>3. \A i \in 1..Len(r) : ~Hollow(r[i]) /\ (r[i].role = "assistant" => "old" \notin ToSet(r[i].text))
    BY <1>2, <1>4, <1>10, <2>1, <2>2
  <2>4. ASSUME NEW j \in 1..n, h[j].role = "user"
        PROVE  \E i \in 1..Len(r) : r[i].role = "user" /\ r[i].text = Flat(h[j], FALSE).text
    <3>1. CASE j \in 1..n - 1
      <4>1. PICK i \in 1..Len(k) : k[i].role = "user" /\ k[i].text = Flat(h[j], FALSE).text
        BY <1>5, <2>4, <3>1
      <4>2. i \in 1..Len(r) /\ r[i] = k[i]
        BY <1>1, <2>1
      <4> QED BY <4>1, <4>2
    <3>2. CASE j = n
      <4>1. Len(k) + 1 \in 1..Len(r)
        BY <1>1, <2>1
      <4> QED BY <1>2, <2>1, <2>4, <3>2, <4>1
    <3> QED BY <1>8, <3>1, <3>2
  <2>5. ASSUME h[1].role = "user" PROVE r[1].role = "user"
    <3>1. CASE n = 1
      <4>1. Len(k) + 1 = 1
        BY <1>1, <1>4, <3>1
      <4> QED BY <1>2, <2>1, <2>5, <3>1, <4>1
    <3>2. CASE n # 1
      <4>1. k # <<>> /\ k[1].role = "user"
        BY <1>1, <1>6, <2>5, <3>2
      <4>2. 1 \in 1..Len(k)
        BY <1>1, <4>1
      <4> QED BY <2>1, <4>1, <4>2
    <3> QED BY <3>1, <3>2
  <2>6. ASSUME n >= 2, h[1].role = "user", h[2].role = "assistant", h[2].text = <<"ok">>
        PROVE  Len(r) >= 2 /\ r[2].role = "assistant"
    <3>1. CASE n = 2
      <4>1. k # <<>>
        BY <1>6, <2>6, <3>1
      <4>2. Len(k) + 1 = 2
        BY <1>1, <1>4, <3>1, <4>1
      <4> QED BY <1>2, <2>1, <2>6, <3>1, <4>2
    <3>2. CASE n # 2
      <4>1. Len(k) >= 2 /\ k[2].role = "assistant"
        BY <1>1, <1>7, <2>6, <3>2
      <4>2. 2 \in 1..Len(k)
        BY <1>1, <4>1
      <4> QED BY <1>1, <2>1, <4>1, <4>2
    <3> QED BY <3>1, <3>2
  <2>7. h[n].role = "user" => Last(r).role = "user"
    BY <1>2, <2>1 DEF Last
  <2>8. Len(r) <= n
    BY <1>1, <1>4, <2>1
  <2> QED BY <2>1, <2>3, <2>4, <2>5, <2>6, <2>7, <2>8 DEF CleanUpTo
<1>11. CASE r = k /\ \/ Hollow(t)
                     \/ /\ t.role = "user" /\ k # <<>> /\ Last(k).text = t.text
                        /\ Last(k).role = "user"
  <2>1. h[n].role = "user" => k # <<>> /\ Last(k).text = t.text /\ Last(k).role = "user"
    BY <1>9, <1>11
  <2>2. ASSUME NEW j \in 1..n, h[j].role = "user"
        PROVE  \E i \in 1..Len(k) : k[i].role = "user" /\ k[i].text = Flat(h[j], FALSE).text
    <3>1. CASE j \in 1..n - 1
      BY <1>5, <2>2, <3>1
    <3>2. CASE j = n
      <4>1. Len(k) \in 1..Len(k) /\ k[Len(k)].text = t.text /\ k[Len(k)].role = "user"
        BY <1>1, <2>1, <2>2, <3>2 DEF Last
      <4> QED BY <1>2, <2>2, <3>2, <4>1
    <3> QED BY <1>8, <3>1, <3>2
  <2>3. h[1].role = "user" => k # <<>> /\ k[1].role = "user"
    <3>1. n = 1 => Len(k) = 0
      BY <1>1, <1>4
    <3>2. n # 1 => n - 1 >= 1
      BY <1>1
    <3> QED BY <1>1, <1>6, <2>1, <3>1, <3>2
  <2>4. ASSUME n >= 2, h[1].role = "user", h[2].role = "assistant", h[2].text = <<"ok">>
        PROVE  Len(k) >= 2 /\ k[2].role = "assistant"
    <3>1. n # 2
      <4> SUFFICES ASSUME n = 2 PROVE FALSE
        OBVIOUS
      <4>1. Hollow(t) /\ t.text = <<"ok">>
        BY <1>2, <1>11, <2>4
      <4>2. PICK x : x = <<"ok">>
        OBVIOUS
      <4>3. Len(x) = 1 /\ x[1] = "ok"
        BY <4>2
      <4>4. x # <<>> /\ x # <<".">>
        <5>1. x = <<>> => Len(x) = 0
          OBVIOUS
        <5>2. x = <<".">> => x[1] = "."
          OBVIOUS
        <5> QED BY <4>3, <5>1, <5>2
      <4> QED BY <4>1, <4>2, <4>4 DEF Hollow
    <3> QED BY <1>1, <1>7, <2>4, <3>1
  <2>5. Len(k) <= n
    BY <1>1, <1>4
  <2> QED BY <1>4, <1>11, <2>1, <2>2, <2>3, <2>4, <2>5 DEF CleanUpTo
<1> QED BY <1>3, <1>10, <1>11

NoCalls(k) == \A i \in 1..Len(k) : k[i].calls = <<>>

\* Every step of sanitizeKiroHistory: what is kept is clean, and has calls with
\* structure only when the last turn's are active.
LEMMA KeptIsClean ==
  ASSUME NEW h \in Seq(Turn), NEW active \in BOOLEAN, NEW kept \in [0..Len(h) -> Seq(Turn)],
         Sanitizes(kept, h, active)
  PROVE  \A n \in 0..Len(h) : CleanUpTo(kept[n], h, n) /\ (n < Len(h) => NoCalls(kept[n]))
<1> DEFINE T == {n \in Nat : n <= Len(h) =>
                   CleanUpTo(kept[n], h, n) /\ (n < Len(h) => NoCalls(kept[n]))}
<1>1. Len(h) \in Nat /\ \A n \in 1..Len(h) : h[n] \in Turn
  BY TurnsOf
<1>2. 0 \in T
  <2>1. kept[0] = <<>> /\ Len(<<>>) = 0 /\ 0 \in Nat
    BY DEF Sanitizes
  <2>2. CleanUpTo(<<>>, h, 0) /\ NoCalls(<<>>)
    BY <2>1 DEF CleanUpTo, NoCalls
  <2> QED BY <2>1, <2>2
<1>3. ASSUME NEW n \in 1..Len(h), n - 1 \in T PROVE n \in T
  <2>1. n \in Nat /\ n - 1 \in Nat /\ n - 1 <= Len(h) /\ n - 1 < Len(h) /\ n - 1 \in 0..Len(h)
    BY <1>1
  <2>2. PICK k, r, b, t : /\ k = kept[n - 1] /\ r = kept[n] /\ b = (active /\ n = Len(h))
                          /\ t = Flat(h[n], b)
    OBVIOUS
  <2>3. CleanUpTo(k, h, n - 1) /\ NoCalls(k) /\ k \in Seq(Turn) /\ b \in BOOLEAN
    BY <1>3, <2>1, <2>2
  <2>4. r = Keep(k, t)
    BY <2>2 DEF Sanitizes
  <2>5. /\ t \in Turn
        /\ h[n].role = "user" => t.calls = <<>>
        /\ h[n].role = "assistant" => t.calls = IF b THEN h[n].calls ELSE <<>>
        /\ h[n].role \in {"user", "assistant"}
    BY <1>1, <2>2, <2>3, FlatIs, TurnFields
  <2>6. KeptFrom(k, t, r)
    BY <2>3, <2>4, <2>5, KeepIs
  <2>7. CleanUpTo(r, h, n)
    BY <2>2, <2>3, <2>6, CleanStep
  <2>8. ASSUME n < Len(h) PROVE NoCalls(r)
    <3>1. b = FALSE
      <4>1. n # Len(h)
        BY <1>1, <2>8
      <4>2. (active /\ n = Len(h)) = FALSE
        BY <4>1
      <4> QED BY <2>2, <4>2
    <3>2. t.calls = <<>>
      BY <2>5, <3>1
    <3>3. CASE r = Append(k, t)
      <4>1. /\ Len(r) = Len(k) + 1 /\ r[Len(k) + 1] = t /\ \A i \in 1..Len(k) : r[i] = k[i]
            /\ Len(k) \in Nat
        BY <2>3, <2>5, <3>3, AppendProperties, LenProperties
      <4>2. \A i \in 1..Len(r) : i \in 1..Len(k) \/ i = Len(k) + 1
        BY <4>1
      <4> QED BY <2>3, <3>2, <4>1, <4>2 DEF NoCalls
    <3>4. CASE r = k
      BY <2>3, <3>4
    <3> QED BY <2>6, <3>3, <3>4 DEF KeptFrom
  <2> QED BY <2>1, <2>2, <2>7, <2>8
<1> HIDE DEF T
<1>4. \A n \in 0..Len(h) : n \in T
  BY <1>1, <1>2, <1>3, BoundedInduction
<1> QED BY <1>1, <1>4 DEF T

\* The results of every turn of a user are told in some turn of a user.
UsersTold(h, s) ==
  \A j \in 1..Len(h) : h[j].role = "user" =>
    \E i \in 1..Len(s) : s[i].role = "user" /\ ToSet(h[j].results) \subseteq ToSet(s[i].text)

\* It ends with an assistant's calls after a user's turn.
EndsCalled(h) ==
  /\ Len(h) >= 2 /\ h[1].role = "user" /\ h[Len(h) - 1].role = "user"
  /\ Last(h).role = "assistant" /\ Last(h).calls # <<>>

LEMMA SanitizeIs ==
  ASSUME NEW h \in Seq(Turn), NEW active \in BOOLEAN, NEW results,
         active => h # <<>> /\ ToSet(Last(h).calls) \subseteq ToSet(results),
         NEW s, s = sanitizeKiroHistory(h, active)
  PROVE  /\ s \in Seq(Turn) /\ Acceptable(s, results) /\ UsersTold(h, s)
         /\ active /\ EndsCalled(h) => EndsCalled(s)
         /\ active /\ EndsCalled(h) /\ Len(h) > 2 /\ h[2].role = "assistant"
              /\ h[2].text = <<"ok">> => Len(s) >= 4
<1>1. PICK N \in Nat : N = Len(h) /\ \A n \in 1..N : h[n] \in Turn
  BY TurnsOf
<1>2. PICK kept \in [0..Len(h) -> Seq(Turn)] :
        Sanitizes(kept, h, active) /\ s = FromUser(kept[Len(h)])
  BY SanitizeKept
<1>3. \A n \in 0..Len(h) : CleanUpTo(kept[n], h, n) /\ (n < Len(h) => NoCalls(kept[n]))
  BY <1>2, KeptIsClean
<1>4. PICK r : r = kept[N]
  OBVIOUS
<1>5. CleanUpTo(r, h, N) /\ r \in Seq(Turn) /\ Len(r) \in Nat /\ s = FromUser(r)
  <2>1. N \in 0..Len(h)
    BY <1>1
  <2>2. r \in Seq(Turn)
    BY <1>1, <1>2, <1>4, <2>1
  <2> QED BY <1>1, <1>2, <1>3, <1>4, <2>1, <2>2, TurnsOf
<1>6. /\ EndOf(r, s) /\ (s # <<>> => s[1].role = "user")
      /\ \A j \in 1..Len(r) : r[j].role = "user" => j > Len(r) - Len(s)
  BY <1>5, FromUserEnd
<1>7. s \in Seq(Turn) /\ Len(s) \in Nat /\ Len(s) <= Len(r)
      /\ \A i \in 1..Len(s) : s[i] = r[Len(r) - Len(s) + i]
  BY <1>6, TurnsOf DEF EndOf
<1>8. \A i \in 1..Len(s) : Len(r) - Len(s) + i \in 1..Len(r)
                             /\ (Len(r) - Len(s) + i = Len(r) => i = Len(s))
  BY <1>5, <1>7
\* Calls with structure stand in the last turn, and are active.
<1>9. \A i \in 1..Len(r) : r[i].calls # <<>> =>
        i = Len(r) /\ active /\ r[i].calls = h[N].calls /\ N > 0
  <2>1. CASE N = 0
    <3>1. r = <<>>
      BY <1>1, <1>2, <1>4, <2>1 DEF Sanitizes
    <3>2. Len(r) = 0
      BY <3>1
    <3> QED BY <3>2
  <2>2. CASE N # 0
    <3>1. N \in 1..Len(h) /\ N - 1 \in 0..Len(h) /\ N - 1 < Len(h)
      BY <1>1, <2>2
    <3>2. PICK k, t : k = kept[N - 1] /\ t = Flat(h[N], active)
      OBVIOUS
    <3>3. NoCalls(k) /\ k \in Seq(Turn) /\ Len(k) \in Nat
      BY <1>3, <3>1, <3>2, TurnsOf
    <3>4. r = Keep(k, t)
      <4>1. (active /\ N = Len(h)) = active
        BY <1>1
      <4> QED BY <1>1, <1>2, <1>4, <3>1, <3>2, <4>1 DEF Sanitizes
    <3>5. /\ t \in Turn
          /\ t.calls # <<>> => active /\ t.calls = h[N].calls
      <4>1. /\ h[N] \in Turn /\ h[N].role \in {"user", "assistant"}
        BY <1>1, <3>1, TurnFields
      <4>2. /\ t \in Turn /\ (h[N].role = "user" => t.calls = <<>>)
            /\ h[N].role = "assistant" => t.calls = IF active THEN h[N].calls ELSE <<>>
        BY <3>2, <4>1, FlatIs
      <4> QED BY <4>1, <4>2
    <3>6. KeptFrom(k, t, r)
      BY <3>3, <3>4, <3>5, KeepIs
    <3>7. CASE r = Append(k, t)
      <4>1. /\ Len(r) = Len(k) + 1 /\ r[Len(k) + 1] = t /\ \A i \in 1..Len(k) : r[i] = k[i]
        BY <3>3, <3>5, <3>7, AppendProperties
      <4>2. \A i \in 1..Len(r) : i \in 1..Len(k) \/ i = Len(k) + 1
        BY <3>3, <4>1
      <4> QED BY <2>2, <3>3, <3>5, <4>1, <4>2 DEF NoCalls
    <3>8. CASE r = k
      BY <3>3, <3>8 DEF NoCalls
    <3> QED BY <3>6, <3>7, <3>8 DEF KeptFrom
  <2> QED BY <2>1, <2>2
<1>10. Acceptable(s, results)
  <2>1. ASSUME NEW i \in 1..Len(s)
        PROVE  /\ ~Hollow(s[i]) /\ (s[i].role = "assistant" => "old" \notin ToSet(s[i].text))
               /\ s[i].calls # <<>> => i = Len(s) /\ ToSet(s[i].calls) \subseteq ToSet(results)
    <3>1. PICK j \in 1..Len(r) : s[i] = r[j] /\ (j = Len(r) => i = Len(s))
      BY <1>7, <1>8
    <3>2. ~Hollow(r[j]) /\ (r[j].role = "assistant" => "old" \notin ToSet(r[j].text))
      BY <1>5 DEF CleanUpTo
    <3>3. r[j].calls # <<>> => i = Len(s) /\ ToSet(r[j].calls) \subseteq ToSet(results)
      BY <1>1, <1>9, <3>1 DEF Last
    <3> QED BY <3>1, <3>2, <3>3
  <2> QED BY <1>6, <2>1 DEF Acceptable
<1>11. UsersTold(h, s)
  <2>1. ASSUME NEW j \in 1..Len(h), h[j].role = "user"
        PROVE  \E i \in 1..Len(s) : s[i].role = "user" /\ ToSet(h[j].results) \subseteq ToSet(s[i].text)
    <3>1. PICK f : f = Flat(h[j], FALSE)
      OBVIOUS
    <3>2. ToSet(h[j].results) \subseteq ToSet(f.text)
      <4>1. h[j] \in Turn
        BY <1>1
      <4> QED BY <2>1, <3>1, <4>1, FlatIs
    <3>3. PICK i \in 1..Len(r) : r[i].role = "user" /\ r[i].text = f.text
      BY <1>1, <1>5, <2>1, <3>1 DEF CleanUpTo
    <3>4. i > Len(r) - Len(s)
      BY <1>6, <3>3
    <3>5. PICK m \in 1..Len(s) : Len(r) - Len(s) + m = i
      <4>1. i - (Len(r) - Len(s)) \in 1..Len(s) /\ Len(r) - Len(s) + (i - (Len(r) - Len(s))) = i
        BY <1>5, <1>7, <3>4
      <4> QED BY <4>1
    <3>6. s[m] = r[i]
      BY <1>7, <3>5
    <3> QED BY <3>2, <3>3, <3>6
  <2> QED BY <2>1 DEF UsersTold
<1>12. ASSUME active, EndsCalled(h)
       PROVE  EndsCalled(s) /\ (Len(h) > 2 /\ h[2].role = "assistant"
                                 /\ h[2].text = <<"ok">> => Len(s) >= 4)
  <2>1. N \in 1..Len(h) /\ N - 1 \in 0..Len(h) /\ N - 1 < Len(h) /\ N - 1 >= 1
    BY <1>1, <1>12 DEF EndsCalled
  <2>2. PICK k, t : k = kept[N - 1] /\ t = Flat(h[N], active)
    OBVIOUS
  <2>3. CleanUpTo(k, h, N - 1) /\ k \in Seq(Turn) /\ Len(k) \in Nat /\ (k = <<>> <=> Len(k) = 0)
    BY <1>3, <2>1, <2>2, TurnsOf
  <2>4. r = Keep(k, t)
    <3>1. (active /\ N = Len(h)) = active
      BY <1>1
    <3> QED BY <1>1, <1>2, <1>4, <2>1, <2>2, <3>1 DEF Sanitizes
  <2>5. /\ h[N] \in Turn /\ h[N].role = "assistant" /\ h[N].calls # <<>>
        /\ h[1].role = "user" /\ h[N - 1].role = "user"
    BY <1>1, <1>12, <2>1 DEF EndsCalled, Last
  <2>6. t \in Turn /\ t.role = "assistant" /\ t.calls = h[N].calls
    BY <1>12, <2>2, <2>5, FlatIs
  <2>7. r = Append(k, t)
    <3>1. KeptFrom(k, t, r)
      BY <2>3, <2>4, <2>6, KeepIs
    <3> QED BY <2>5, <2>6, <3>1 DEF KeptFrom, Hollow
  <2>8. /\ Len(r) = Len(k) + 1 /\ r[Len(k) + 1] = t /\ \A i \in 1..Len(k) : r[i] = k[i]
    BY <2>3, <2>6, <2>7, AppendProperties
  <2>9. /\ Len(k) >= 1 /\ k[1].role = "user" /\ k[Len(k)].role = "user"
        /\ Len(h) > 2 /\ h[2].role = "assistant" /\ h[2].text = <<"ok">> =>
             Len(k) >= 2 /\ k[2].role = "assistant"
    <3>1. k # <<>> /\ k[1].role = "user"
      BY <2>1, <2>3, <2>5 DEF CleanUpTo
    <3>2. Last(k).role = "user"
      BY <2>1, <2>3, <2>5 DEF CleanUpTo
    <3>3. Len(h) > 2 => N - 1 >= 2
      BY <1>1
    <3>4. Len(h) > 2 /\ h[2].role = "assistant" /\ h[2].text = <<"ok">> =>
             Len(k) >= 2 /\ k[2].role = "assistant"
      BY <2>3, <2>5, <3>3 DEF CleanUpTo
    <3> QED BY <2>3, <3>1, <3>2, <3>4 DEF Last
  <2>10. Len(s) = Len(r)
    <3>1. 1 \in 1..Len(r) /\ r[1].role = "user"
      BY <2>3, <2>8, <2>9
    <3>2. 1 > Len(r) - Len(s)
      BY <1>6, <3>1
    <3> QED BY <1>5, <1>7, <3>2
  <2>11. \A i \in 1..Len(s) : s[i] = r[i]
    BY <1>5, <1>7, <2>10
  <2>12. /\ Len(s) = Len(k) + 1 /\ s[Len(s)] = t /\ s[Len(s) - 1] = k[Len(k)] /\ s[1] = k[1]
    <3>1. Len(k) + 1 \in 1..Len(s) /\ Len(k) \in 1..Len(s) /\ 1 \in 1..Len(s) /\ 1 \in 1..Len(k)
          /\ Len(k) \in 1..Len(k) /\ Len(s) - 1 = Len(k)
      BY <2>3, <2>8, <2>9, <2>10
    <3> QED BY <2>8, <2>10, <2>11, <3>1
  <2>13. EndsCalled(s)
    BY <2>3, <2>5, <2>6, <2>9, <2>12 DEF EndsCalled, Last
  <2>14. Len(h) > 2 /\ h[2].role = "assistant" /\ h[2].text = <<"ok">> => Len(s) >= 4
    BY <2>3, <2>9, <2>12
  <2> QED BY <2>13, <2>14
<1> QED BY <1>7, <1>10, <1>11, <1>12

-----------------------------------------------------------------------------
(* Translator: the parts of both conversions that are the same.            *)

LEMMA PrimingIs ==
  /\ Priming \in Seq(Turn) /\ Len(Priming) = 2
  /\ Priming[1].role = "user"
  /\ Priming[2].role = "assistant" /\ Priming[2].text = <<"ok">> /\ Priming[2].calls = <<>>
<1>1. <<"sys">> \in Seq(Unit) /\ <<"ok">> \in Seq(Unit) /\ <<>> \in Seq(Id)
  BY EmptySeq DEF Unit
<1>2. PICK a, b : a = User(<<"sys">>, <<>>) /\ b = Assistant(<<"ok">>, <<>>)
  OBVIOUS
<1>3. /\ a \in Turn /\ b \in Turn /\ a.role = "user"
      /\ b.role = "assistant" /\ b.text = <<"ok">> /\ b.calls = <<>>
  BY <1>1, <1>2 DEF User, Assistant, Turn
<1>4. Priming = <<a, b>>
  BY <1>2 DEF Priming
<1> QED BY <1>3, <1>4

\* In front of the turns, the system prompt's two.
Primed(h, turns, c) ==
  /\ h \in Seq(Turn) /\ Len(h) = c + Len(turns) /\ \A i \in 1..Len(turns) : h[c + i] = turns[i]
  /\ c = 2 => /\ h[1].role = "user"
              /\ h[2].role = "assistant" /\ h[2].text = <<"ok">> /\ h[2].calls = <<>>

Fronted(h, turns) == h = (IF client.system THEN Priming ELSE <<>>) \o turns

LEMMA PrimedIs ==
  ASSUME NEW turns \in Seq(Turn), client.system \in BOOLEAN, NEW h, Fronted(h, turns)
  PROVE  Primed(h, turns, IF client.system THEN 2 ELSE 0)
<1>1. Len(turns) \in Nat
  BY TurnsOf
<1>2. CASE client.system
  <2>1. PICK s : s = Priming
    OBVIOUS
  <2>2. /\ s \in Seq(Turn) /\ Len(s) = 2 /\ s[1].role = "user"
        /\ s[2].role = "assistant" /\ s[2].text = <<"ok">> /\ s[2].calls = <<>>
    BY <2>1, PrimingIs
  <2>3. h = s \o turns
    BY <1>2, <2>1 DEF Fronted
  <2>4. /\ h \in Seq(Turn) /\ Len(h) = Len(s) + Len(turns)
        /\ \A i \in 1..Len(s) + Len(turns) : h[i] = IF i <= Len(s) THEN s[i] ELSE turns[i - Len(s)]
    BY <2>2, <2>3, ConcatProperties
  <2>5. Len(h) = 2 + Len(turns)
        /\ \A i \in 1..2 + Len(turns) : h[i] = IF i <= 2 THEN s[i] ELSE turns[i - 2]
    BY <2>2, <2>4
  <2>6. h[1] = s[1] /\ h[2] = s[2]
    BY <1>1, <2>5
  <2>7. ASSUME NEW i \in 1..Len(turns) PROVE h[2 + i] = turns[i]
    <3>1. 2 + i \in 1..2 + Len(turns) /\ ~(2 + i <= 2) /\ 2 + i - 2 = i
      BY <1>1
    <3> QED BY <2>5, <3>1
  <2>8. Primed(h, turns, 2)
    BY <2>2, <2>4, <2>5, <2>6, <2>7 DEF Primed
  <2> QED BY <1>2, <2>8
<1>3. CASE ~client.system
  <2>1. h = turns
    BY <1>3, ConcatEmptySeq DEF Fronted
  <2>2. Primed(h, turns, 0)
    BY <1>1, <2>1 DEF Primed
  <2> QED BY <1>3, <2>2
<1> QED BY <1>2, <1>3

\* A list of turns that begins with the user and in which, at the end at least, the
\* assistant answers a user.
EndsWell(turns) ==
  turns # <<>> => /\ turns[1].role = "user"
                  /\ Last(turns).role = "assistant" =>
                       Len(turns) >= 2 /\ turns[Len(turns) - 1].role = "user"

InTurns(e, turns) ==
  \E i \in 1..Len(turns) : turns[i].role = "user" /\ e \in ToSet(turns[i].results)

InTexts(e, h) == \E i \in 1..Len(h) : e \in ToSet(h[i].text)

CurrentText(text, results) ==
  IF text # <<>> THEN text ELSE IF results # <<>> THEN Continuation(results) ELSE <<".">>

LEMMA CurrentTextType ==
  ASSUME NEW text \in Seq(Unit), NEW results \in Seq(Id)
  PROVE  CurrentText(text, results) \in Seq(Unit)
<1>1. PICK t : t = Told(results)
  OBVIOUS
<1>2. t \in Seq(Unit) /\ Len(t) \in Nat
  <2>1. t \in Seq(Id) /\ Id \subseteq Unit
    BY <1>1, ToldMembers DEF Unit
  <2> QED BY <2>1, LenProperties
<1>3. Continuation(results) \in Seq(Unit)
  <2>1. CASE Len(t) > MaxTold
    <3>1. Continuation(results) = SubSeq(t, 1, MaxTold)
      BY <1>1, <2>1 DEF Continuation
    <3>2. 1 \in 1..Len(t) + 1 /\ MaxTold \in 0..Len(t)
      BY <1>2, <2>1, TranslatorAssumption
    <3> QED BY <1>2, <3>1, <3>2, PartOf
  <2>2. CASE ~(Len(t) > MaxTold)
    BY <1>1, <1>2, <2>2 DEF Continuation
  <2> QED BY <2>1, <2>2
<1>4. <<".">> \in Seq(Unit)
  BY DEF Unit
<1> QED BY <1>3, <1>4 DEF CurrentText

LEMMA BuiltIs ==
  ASSUME NEW turns \in Seq(Turn), NEW text \in Seq(Unit), NEW results \in Seq(Id),
         client.system \in BOOLEAN, client.limit \in Nat,
         NEW q, q = Built(turns, text, results)
  PROVE  /\ Sound(q) /\ AtSmallest(q)
         /\ q.results \in {<<>>, results}
         /\ EndsWell(turns) /\ q.results # <<>> => q.history # <<>> /\ Last(q.history).calls # <<>>
         /\ Size(q) < client.limit => q.text = CurrentText(text, results)
         /\ Unmarked(q.history) => \A e : InTurns(e, turns) => InTexts(e, q.history)
<1> DEFINE c == IF client.system THEN 2 ELSE 0
<1>1. PICK h : Fronted(h, turns)
  BY DEF Fronted
<1>2. Primed(h, turns, c) /\ c \in {0, 2} /\ (c = 2 <=> client.system)
  <2>1. Primed(h, turns, IF client.system THEN 2 ELSE 0)
    BY <1>1, PrimedIs
  <2> QED BY <2>1
<1>3. PICK active : active = currentToolResultsMatchLastAssistant(h, results)
  OBVIOUS
<1>4. /\ active \in BOOLEAN
      /\ active => /\ results # <<>> /\ h # <<>> /\ Last(h).role = "assistant"
                   /\ Last(h).calls # <<>> /\ ToSet(Last(h).calls) \subseteq ToSet(results)
  BY <1>3 DEF currentToolResultsMatchLastAssistant
<1>5. PICK s, now, res : /\ s = sanitizeKiroHistory(h, active)
                         /\ now = CurrentText(text, results)
                         /\ res = IF active THEN results ELSE <<>>
  OBVIOUS
<1>6. PICK p : p = [history |-> s, text |-> now, results |-> res]
  OBVIOUS
<1>7. q = truncatePayloadToLimit(p)
  BY <1>1, <1>3, <1>5, <1>6, Zenon DEF Built, CurrentText, Fronted
<1> HIDE DEF c
<1>8. /\ h \in Seq(Turn) /\ Len(h) \in Nat /\ Len(h) = c + Len(turns) /\ Len(turns) \in Nat
      /\ (turns = <<>> <=> Len(turns) = 0) /\ (h = <<>> <=> Len(h) = 0)
  BY <1>2, TurnsOf DEF Primed
<1>9. /\ s \in Seq(Turn) /\ Acceptable(s, res) /\ UsersTold(h, s)
      /\ active /\ EndsCalled(h) => EndsCalled(s)
      /\ active /\ EndsCalled(h) /\ Len(h) > 2 /\ h[2].role = "assistant"
           /\ h[2].text = <<"ok">> => Len(s) >= 4
  <2>1. active => h # <<>> /\ ToSet(Last(h).calls) \subseteq ToSet(res)
    BY <1>4, <1>5
  <2> QED BY <1>4, <1>5, <1>8, <2>1, SanitizeIs
<1>10. /\ p.history = s /\ p.text = now /\ p.results = res /\ Sound(p)
  <2>1. now \in Seq(Unit)
    BY <1>5, CurrentTextType
  <2>2. res \in Seq(Id)
    BY <1>4, <1>5, EmptySeq
  <2> QED BY <1>6, <1>9, <2>1, <2>2 DEF PayloadSet, Sound
<1>11. /\ Sound(q) /\ q.results = p.results /\ AtSmallest(q)
       /\ Size(q) < client.limit => q.text = p.text
       /\ Unmarked(q.history) => \A j \in 1..Len(p.history) : p.history[j].role = "user" =>
            \E i \in 1..Len(q.history) : q.history[i].text = p.history[j].text
       /\ p.history # <<>>
            /\ (Size(p) > client.limit =>
                  /\ Len(p.history) >= (IF client.system THEN 4 ELSE 2)
                  /\ p.history[Len(p.history) - 1].role = "user") =>
            q.history # <<>> /\ Last(q.history).calls = Last(p.history).calls
  BY <1>7, <1>10, Truncated
<1>12. ASSUME active, EndsWell(turns)
       PROVE  q.history # <<>> /\ Last(q.history).calls # <<>>
  <2>1. PICK n \in Nat : n = Len(turns) /\ n # 0
    <3>1. ASSUME Len(turns) = 0 PROVE FALSE
      <4>1. Len(h) = 2 /\ c = 2
        BY <1>2, <1>4, <1>8, <1>12, <3>1
      <4> QED BY <1>2, <1>4, <1>12, <4>1 DEF Primed, Last
    <3> QED BY <1>8, <3>1
  <2>2. Last(h) = Last(turns)
    <3>1. n \in 1..n
      BY <2>1
    <3> QED BY <1>2, <1>8, <2>1, <3>1 DEF Primed, Last
  <2>3. n >= 2 /\ turns[n - 1].role = "user" /\ turns[1].role = "user"
    BY <1>4, <1>8, <1>12, <2>1, <2>2 DEF EndsWell
  <2>4. h[Len(h) - 1].role = "user"
    <3>1. n - 1 \in 1..n /\ c + (n - 1) = Len(h) - 1
      BY <1>2, <1>8, <2>1, <2>3
    <3> QED BY <1>2, <2>1, <2>3, <3>1 DEF Primed
  <2>5. h[1].role = "user"
    <3>1. c = 0 => h[1] = turns[1]
      <4>1. 1 \in 1..n /\ 0 + 1 = 1
        BY <2>1
      <4> QED BY <1>2, <2>1, <4>1 DEF Primed
    <3> QED BY <1>2, <2>3, <3>1 DEF Primed
  <2>6. EndsCalled(h)
    BY <1>2, <1>4, <1>8, <1>12, <2>1, <2>3, <2>4, <2>5 DEF EndsCalled
  <2>7. EndsCalled(s)
    BY <1>9, <1>12, <2>6
  <2>8. client.system => Len(s) >= 4
    <3> SUFFICES ASSUME client.system PROVE Len(s) >= 4
      OBVIOUS
    <3>1. c = 2 /\ Len(h) > 2
      BY <1>2, <1>8, <2>1
    <3> QED BY <1>2, <1>9, <1>12, <2>6, <3>1 DEF Primed
  <2>9. s # <<>> /\ Len(s) >= 2 /\ s[Len(s) - 1].role = "user" /\ Last(s).calls # <<>>
    <3>1. Len(s) >= 2
      BY <2>7 DEF EndsCalled
    <3>2. s # <<>>
      BY <1>9, <3>1, TurnsOf
    <3> QED BY <2>7, <3>1, <3>2 DEF EndsCalled
  <2> QED BY <1>10, <1>11, <2>8, <2>9
<1>13. q.results # <<>> => active
  BY <1>4, <1>5, <1>10, <1>11
<1>14. q.results \in {<<>>, results}
  BY <1>4, <1>5, <1>10, <1>11
<1>15. ASSUME Unmarked(q.history), NEW e, InTurns(e, turns) PROVE InTexts(e, q.history)
  <2>1. PICK i \in 1..Len(turns) : turns[i].role = "user" /\ e \in ToSet(turns[i].results)
    BY <1>15 DEF InTurns
  <2>2. c + i \in 1..Len(h) /\ h[c + i] = turns[i]
    BY <1>2, <1>8 DEF Primed
  <2>3. PICK j \in 1..Len(s) : s[j].role = "user" /\ e \in ToSet(s[j].text)
    BY <1>9, <2>1, <2>2 DEF UsersTold
  <2>4. PICK k \in 1..Len(q.history) : q.history[k].text = s[j].text
    BY <1>10, <1>11, <1>15, <2>3
  <2> QED BY <2>3, <2>4 DEF InTexts
<1>16. Size(q) < client.limit => q.text = CurrentText(text, results)
  BY <1>5, <1>10, <1>11
<1> QED BY <1>11, <1>12, <1>13, <1>14, <1>15, <1>16

-----------------------------------------------------------------------------
(* Translator: the history of both formats.                                *)

\* What the clients' messages are like.
Conversation ==
  /\ client \in [format: {"claude", "openai"}, system: BOOLEAN, limit: Limits]
  /\ conv \in Seq(Message) /\ Len(conv) <= MaxTurn
  /\ \A i \in 1..Len(conv) :
       /\ conv[i].role = "assistant" => conv[i].results = <<>>
       /\ conv[i].role = "tool" => client.format = "openai"
       /\ conv[i].role = "user" /\ client.format = "openai" => conv[i].results = <<>>

LEMMA MessageFields ==
  ASSUME Conversation
  PROVE  /\ Len(conv) \in Nat /\ (conv = <<>> <=> Len(conv) = 0)
         /\ \A i \in 1..Len(conv) :
              /\ conv[i].role \in {"user", "assistant", "tool"} /\ conv[i].text \in Seq(Unit)
              /\ conv[i].calls \in Seq(Id) /\ conv[i].results \in Seq(Id)
<1>1. conv \in Seq(Message)
  BY DEF Conversation
<1>2. Len(conv) \in Nat /\ (conv = <<>> <=> Len(conv) = 0) /\ \A i \in 1..Len(conv) : conv[i] \in Message
  BY <1>1, LenProperties, ElementOfSeq, EmptySeq
<1> QED BY <1>2 DEF Message

LEMMA TurnsMade ==
  ASSUME NEW text \in Seq(Unit), NEW calls \in Seq(Id), NEW results \in Seq(Id)
  PROVE  /\ User(text, results) \in Turn /\ User(text, results).role = "user"
         /\ User(text, results).results = results
         /\ Assistant(text, calls) \in Turn /\ Assistant(text, calls).role = "assistant"
<1>1. <<>> \in Seq(Id)
  BY EmptySeq
<1> QED BY <1>1 DEF User, Assistant, Turn

LEMMA ClaudeHistoryIs ==
  ASSUME Conversation, conv # <<>>, client.format = "claude", NEW turns, turns = ClaudeHistory
  PROVE  /\ turns \in Seq(Turn)
         /\ Alternates => EndsWell(turns)
         /\ \A e : \A i \in 1..Len(conv) : conv[i].role = "user" /\ e \in ToSet(conv[i].results) =>
              InTurns(e, turns) \/ (i = Len(conv) /\ Last(conv).role = "user")
<1> DEFINE earlier == IF Last(conv).role = "user" THEN Len(conv) - 1 ELSE Len(conv)
           Made(i) == IF conv[i].role = "user" THEN User(conv[i].text, conv[i].results)
                      ELSE Assistant(conv[i].text, conv[i].calls)
<1>1. /\ Len(conv) \in Nat /\ Len(conv) > 0
      /\ \A i \in 1..Len(conv) :
           /\ conv[i].role \in {"user", "assistant", "tool"} /\ conv[i].text \in Seq(Unit)
           /\ conv[i].calls \in Seq(Id) /\ conv[i].results \in Seq(Id)
  BY MessageFields
<1>2. \A i \in 1..Len(conv) : conv[i].role # "assistant" => conv[i].role = "user"
  BY <1>1 DEF Conversation
<1>3. PICK n \in Nat : /\ n = earlier /\ n <= Len(conv)
                       /\ \A i \in 1..Len(conv) : i \in 1..n \/ (i = Len(conv) /\ Last(conv).role = "user")
  <2>1. earlier \in Nat /\ earlier <= Len(conv)
    BY <1>1
  <2>2. \A i \in 1..Len(conv) : i \in 1..earlier \/ (i = Len(conv) /\ Last(conv).role = "user")
    BY <1>1
  <2> HIDE DEF earlier
  <2> QED BY <2>1, <2>2
<1>4. PICK raw : raw = [i \in 1..n |-> Made(i)]
  OBVIOUS
<1>5. turns = FromUser(raw)
  BY <1>3, <1>4 DEF ClaudeHistory
<1> HIDE DEF earlier
<1>6. ASSUME NEW i \in 1..n
      PROVE  /\ raw[i] = Made(i) /\ Made(i) \in Turn
             /\ conv[i].role = "user" <=> raw[i].role = "user"
             /\ conv[i].role = "user" => raw[i].results = conv[i].results
  <2>1. i \in 1..Len(conv) /\ raw[i] = Made(i)
    BY <1>1, <1>3, <1>4
  <2>2. /\ User(conv[i].text, conv[i].results) \in Turn
        /\ User(conv[i].text, conv[i].results).role = "user"
        /\ User(conv[i].text, conv[i].results).results = conv[i].results
        /\ Assistant(conv[i].text, conv[i].calls) \in Turn
        /\ Assistant(conv[i].text, conv[i].calls).role = "assistant"
    BY <1>1, <2>1, TurnsMade
  <2>3. CASE conv[i].role = "user"
    BY <2>1, <2>2, <2>3
  <2>4. CASE conv[i].role # "user"
    BY <2>1, <2>2, <2>4
  <2> QED BY <2>3, <2>4
<1>7. raw \in Seq(Turn) /\ Len(raw) = n
  <2>1. \A i \in 1..n : Made(i) \in Turn
    BY <1>6
  <2> HIDE DEF Made
  <2> QED BY <1>4, <2>1
<1> HIDE DEF Made
<1>8. /\ EndOf(raw, turns) /\ (turns # <<>> => turns[1].role = "user")
      /\ \A j \in 1..Len(raw) : raw[j].role = "user" => j > Len(raw) - Len(turns)
  BY <1>5, <1>7, FromUserEnd
<1>9. /\ turns \in Seq(Turn) /\ Len(turns) \in Nat /\ Len(turns) <= n
      /\ \A i \in 1..Len(turns) : turns[i] = raw[n - Len(turns) + i]
      /\ (turns = <<>> <=> Len(turns) = 0)
  BY <1>7, <1>8, TurnsOf DEF EndOf
<1>10. ASSUME NEW i \in 1..n, NEW e, conv[i].role = "user", e \in ToSet(conv[i].results)
       PROVE  InTurns(e, turns)
  <2>1. raw[i].role = "user" /\ raw[i].results = conv[i].results
    BY <1>6, <1>10
  <2>2. i > n - Len(turns)
    BY <1>7, <1>8, <2>1
  <2>3. PICK j \in 1..Len(turns) : n - Len(turns) + j = i
    <3>1. i - (n - Len(turns)) \in 1..Len(turns) /\ n - Len(turns) + (i - (n - Len(turns))) = i
      BY <1>9, <2>2
    <3> QED BY <3>1
  <2>4. turns[j] = raw[i]
    BY <1>9, <2>3
  <2> QED BY <1>10, <2>1, <2>4 DEF InTurns
<1>11. ASSUME Alternates, turns # <<>>, Last(turns).role = "assistant"
       PROVE  Len(turns) >= 2 /\ turns[Len(turns) - 1].role = "user"
  <2>1. Len(turns) \in 1..Len(turns) /\ n - Len(turns) + Len(turns) = n /\ n \in 1..n
    BY <1>9, <1>11
  <2>2. Last(turns) = raw[n]
    BY <1>9, <2>1 DEF Last
  <2>3. conv[n].role # "user"
    BY <1>6, <1>11, <2>1, <2>2
  <2>4. conv[n].role = "assistant" /\ n \in 1..Len(conv)
    BY <1>1, <1>2, <1>3, <2>1, <2>3
  <2>5. n # 1
    BY <1>11, <2>4 DEF Alternates
  <2>6. n \in 2..Len(conv) /\ n - 1 \in 1..n /\ n - 1 \in 1..Len(conv)
    BY <1>1, <1>3, <2>4, <2>5
  <2>7. conv[n - 1].role # "assistant"
    BY <1>11, <2>4, <2>6 DEF Alternates
  <2>8. raw[n - 1].role = "user"
    BY <1>2, <1>6, <2>6, <2>7
  <2>9. n - 1 > n - Len(turns)
    BY <1>7, <1>8, <2>6, <2>8
  <2>10. Len(turns) >= 2 /\ Len(turns) - 1 \in 1..Len(turns) /\ n - Len(turns) + (Len(turns) - 1) = n - 1
    BY <1>9, <2>9
  <2> QED BY <1>9, <2>8, <2>10
<1>12. Alternates => EndsWell(turns)
  BY <1>8, <1>11 DEF EndsWell
<1> QED BY <1>3, <1>9, <1>10, <1>12

Progress == [turns: Seq(Turn), pend: Seq(Id)]

Reads(f) ==
  /\ f[0] = [turns |-> <<>>, pend |-> <<>>]
  /\ \A n \in 1..Len(conv) : f[n] = Read(f[n - 1], n)

\* What one message does to the turns and the results that wait.
ReadOne(acc, i, r) ==
  \/ /\ conv[i].role = "tool" /\ i # Len(conv) /\ conv[i + 1].role # "tool"
     /\ r.turns = Append(acc.turns, User(<<>>, acc.pend \o conv[i].results)) /\ r.pend = <<>>
  \/ /\ conv[i].role = "tool" /\ (i = Len(conv) \/ conv[i + 1].role = "tool")
     /\ r.turns = acc.turns /\ r.pend = acc.pend \o conv[i].results
  \/ conv[i].role = "user" /\ i = Len(conv) /\ r.turns = acc.turns /\ r.pend = acc.pend
  \/ /\ conv[i].role = "user" /\ i # Len(conv) /\ r.pend = acc.pend
     /\ r.turns = Append(acc.turns, User(conv[i].text, <<>>))
  \/ /\ conv[i].role = "assistant" /\ r.pend = acc.pend
     /\ r.turns = Append(acc.turns, Assistant(conv[i].text, conv[i].calls))

LEMMA ReadIs ==
  ASSUME Conversation, NEW acc \in Progress, NEW i \in 1..Len(conv), NEW r, r = Read(acc, i)
  PROVE  r \in Progress /\ ReadOne(acc, i, r)
<1>1. PICK m : m = conv[i]
  OBVIOUS
<1>2. /\ m.role \in {"user", "assistant", "tool"} /\ m.text \in Seq(Unit)
      /\ m.calls \in Seq(Id) /\ m.results \in Seq(Id)
      /\ acc.turns \in Seq(Turn) /\ acc.pend \in Seq(Id) /\ <<>> \in Seq(Id) /\ <<>> \in Seq(Unit)
  BY <1>1, MessageFields, EmptySeq DEF Progress
<1>3. PICK more : more = acc.pend \o m.results
  OBVIOUS
<1>4. more \in Seq(Id)
  BY <1>2, <1>3, ConcatProperties
<1>5. PICK told, said, call : /\ told = User(<<>>, more) /\ said = User(m.text, <<>>)
                              /\ call = Assistant(m.text, m.calls)
  OBVIOUS
<1>6. told \in Turn /\ said \in Turn /\ call \in Turn
  BY <1>2, <1>4, <1>5, TurnsMade
<1>7. CASE m.role = "tool" /\ i # Len(conv) /\ conv[i + 1].role # "tool"
  <2>1. r = [turns |-> Append(acc.turns, told), pend |-> <<>>]
    BY <1>1, <1>3, <1>5, <1>7 DEF Read
  <2>2. Append(acc.turns, told) \in Seq(Turn)
    BY <1>2, <1>6, AppendProperties
  <2> QED BY <1>1, <1>2, <1>3, <1>5, <1>7, <2>1, <2>2 DEF Progress, ReadOne
<1>8. CASE m.role = "tool" /\ (i = Len(conv) \/ conv[i + 1].role = "tool")
  <2>1. r = [turns |-> acc.turns, pend |-> more]
    BY <1>1, <1>3, <1>8 DEF Read
  <2> QED BY <1>1, <1>2, <1>3, <1>4, <1>8, <2>1 DEF Progress, ReadOne
<1>9. CASE m.role = "user" /\ i = Len(conv)
  <2>1. r = acc
    BY <1>1, <1>9 DEF Read
  <2> QED BY <1>1, <1>9, <2>1 DEF ReadOne
<1>10. CASE m.role = "user" /\ i # Len(conv)
  <2>1. r = [turns |-> Append(acc.turns, said), pend |-> acc.pend]
    BY <1>1, <1>5, <1>10 DEF Read
  <2>2. Append(acc.turns, said) \in Seq(Turn)
    BY <1>2, <1>6, AppendProperties
  <2> QED BY <1>1, <1>2, <1>5, <1>10, <2>1, <2>2 DEF Progress, ReadOne
<1>11. CASE m.role = "assistant"
  <2>1. r = [turns |-> Append(acc.turns, call), pend |-> acc.pend]
    BY <1>1, <1>5, <1>11 DEF Read
  <2>2. Append(acc.turns, call) \in Seq(Turn)
    BY <1>2, <1>6, AppendProperties
  <2> QED BY <1>1, <1>2, <1>5, <1>11, <2>1, <2>2 DEF Progress, ReadOne
<1> QED BY <1>2, <1>7, <1>8, <1>9, <1>10, <1>11

LEMMA OpenAIReads ==
  ASSUME Conversation
  PROVE  \E f \in [0..Len(conv) -> Progress] : Reads(f) /\ OpenAIHistory = f[Len(conv)]
<1> DEFINE N == Len(conv)
           none == [turns |-> <<>>, pend |-> <<>>]
           goOn == [n \in 1..N |-> [acc \in Progress |-> Read(acc, n)]]
           F(f) == [n \in 0..N |-> IF n = 0 THEN [turns |-> <<>>, pend |-> <<>>]
                                   ELSE Read(f[n - 1], n)]
           read == CHOOSE f : f = F(f)
<1>1. N \in Nat
  BY MessageFields
<1>2. OpenAIHistory = read[N]
  BY DEF OpenAIHistory
<1>3. goOn \in [1..N -> [Progress -> Progress]] /\ none \in Progress
  <2>1. \A n \in 1..N, acc \in Progress : Read(acc, n) \in Progress
    BY ReadIs
  <2>2. none \in Progress
    BY EmptySeq DEF Progress
  <2> HIDE DEF N, none
  <2> QED BY <2>1, <2>2
<1>4. PICK f \in [0..N -> Progress] : Follows(f, N, none, goOn)
  <2> HIDE DEF N, goOn, none
  <2> QED BY <1>1, <1>3, RecursionExists
<1>5. f[0] = [turns |-> <<>>, pend |-> <<>>] /\ \A n \in 1..N : f[n] = Read(f[n - 1], n)
  <2>1. f[0] = none /\ \A n \in 1..N : f[n] = goOn[n][f[n - 1]]
    BY <1>4 DEF Follows
  <2>2. \A n \in 1..N, acc \in Progress : goOn[n][acc] = Read(acc, n)
    OBVIOUS
  <2>3. none = [turns |-> <<>>, pend |-> <<>>]
    OBVIOUS
  <2> HIDE DEF goOn, N, none
  <2>4. \A n \in 1..N : f[n - 1] \in Progress
    BY <1>1
  <2> QED BY <2>1, <2>2, <2>3, <2>4
<1>6. read = F(read)
  <2>1. f = F(f)
    <3> HIDE DEF N, goOn
    <3>1. \A n \in 0..N : f[n] = IF n = 0 THEN [turns |-> <<>>, pend |-> <<>>]
                                 ELSE Read(f[n - 1], n)
      BY <1>1, <1>5
    <3>2. f = [n \in 0..N |-> f[n]]
      OBVIOUS
    <3> QED BY <3>1, <3>2
  <2> QED BY <2>1
<1> HIDE DEF read, goOn
<1>7. \A n \in 0..N : f[n] = read[n]
  <2> HIDE DEF N
  <2>1. \A n \in 0..N : read[n] = IF n = 0 THEN [turns |-> <<>>, pend |-> <<>>]
                                  ELSE Read(read[n - 1], n)
    BY <1>6
  <2>2. 0 \in 0..N /\ \A n \in 1..N : n \in 0..N /\ n # 0
    BY <1>1
  <2>3. Alike(f, read, N)
    BY <1>5, <2>1, <2>2 DEF Alike
  <2> QED BY <1>1, <2>3, RecursionAgrees
<1>8. Reads(f)
  BY <1>5 DEF Reads
<1> QED BY <1>1, <1>2, <1>7, <1>8

\* After the first n messages: every result waits or is in a turn, none waits
\* unless the next one may join it, and the assistant answers users.
ReadUpTo(acc, n) ==
  /\ \A e : \A i \in 1..n : conv[i].role = "tool" /\ e \in ToSet(conv[i].results) =>
       InTurns(e, acc.turns) \/ e \in ToSet(acc.pend)
  /\ acc.pend # <<>> => n >= 1 /\ conv[n].role = "tool" /\ (n = Len(conv) \/ conv[n + 1].role = "tool")
  /\ Alternates /\ n < Len(conv) /\ conv[n + 1].role = "assistant" =>
       acc.turns # <<>> /\ Last(acc.turns).role = "user"
  /\ Alternates => EndsWell(acc.turns)

LEMMA UserAdded ==
  ASSUME NEW turns \in Seq(Turn), NEW t \in Turn, NEW u, u = Append(turns, t)
  PROVE  /\ u # <<>> /\ Last(u) = t
         /\ \A e : InTurns(e, turns) => InTurns(e, u)
         /\ t.role = "user" => \A e \in ToSet(t.results) : InTurns(e, u)
         /\ t.role = "user" /\ EndsWell(turns) => EndsWell(u)
         /\ turns # <<>> /\ Last(turns).role = "user" /\ EndsWell(turns) => EndsWell(u)
<1>1. /\ u \in Seq(Turn) /\ u # <<>> /\ Len(u) = Len(turns) + 1 /\ u[Len(turns) + 1] = t
      /\ \A i \in 1..Len(turns) : u[i] = turns[i]
  BY AppendProperties
<1>2. Len(turns) \in Nat /\ (turns = <<>> <=> Len(turns) = 0)
  BY TurnsOf
<1>3. Last(u) = t
  BY <1>1 DEF Last
<1>4. \A e : InTurns(e, turns) => InTurns(e, u)
  <2>1. \A i \in 1..Len(turns) : i \in 1..Len(u)
    BY <1>1, <1>2
  <2> QED BY <1>1, <2>1 DEF InTurns
<1>5. t.role = "user" => \A e \in ToSet(t.results) : InTurns(e, u)
  <2>1. Len(turns) + 1 \in 1..Len(u)
    BY <1>1, <1>2
  <2> QED BY <1>1, <2>1 DEF InTurns
<1>6. ASSUME t.role = "user", EndsWell(turns) PROVE EndsWell(u)
  <2>1. u[1].role = "user"
    <3>1. CASE turns = <<>>
      BY <1>1, <1>2, <1>6, <3>1
    <3>2. CASE turns # <<>>
      <4>1. 1 \in 1..Len(turns)
        BY <1>2, <3>2
      <4> QED BY <1>1, <1>6, <3>2, <4>1 DEF EndsWell
    <3> QED BY <3>1, <3>2
  <2> QED BY <1>3, <1>6, <2>1 DEF EndsWell
<1>7. ASSUME turns # <<>>, Last(turns).role = "user", EndsWell(turns) PROVE EndsWell(u)
  <2>1. 1 \in 1..Len(turns) /\ Len(turns) \in 1..Len(turns) /\ Len(u) >= 2 /\ Len(u) - 1 = Len(turns)
    BY <1>1, <1>2, <1>7
  <2> QED BY <1>1, <1>7, <2>1 DEF EndsWell, Last
<1> QED BY <1>1, <1>3, <1>4, <1>5, <1>6, <1>7

LEMMA ReadAdvances ==
  ASSUME Conversation, NEW acc \in Progress, NEW n \in 1..Len(conv), ReadUpTo(acc, n - 1),
         NEW r \in Progress, ReadOne(acc, n, r)
  PROVE  ReadUpTo(r, n)
<1>1. /\ n \in Nat /\ n >= 1 /\ Len(conv) \in Nat
      /\ conv[n].role \in {"user", "assistant", "tool"} /\ conv[n].text \in Seq(Unit)
      /\ conv[n].calls \in Seq(Id) /\ conv[n].results \in Seq(Id)
      /\ <<>> \in Seq(Unit) /\ <<>> \in Seq(Id)
  BY MessageFields, EmptySeq
<1>2. acc.turns \in Seq(Turn) /\ acc.pend \in Seq(Id) /\ r.turns \in Seq(Turn) /\ r.pend \in Seq(Id)
  BY DEF Progress
<1>3. \A e : \A i \in 1..n - 1 : conv[i].role = "tool" /\ e \in ToSet(conv[i].results) =>
        InTurns(e, acc.turns) \/ e \in ToSet(acc.pend)
  BY DEF ReadUpTo
<1>4. acc.pend # <<>> => conv[n].role = "tool"
  <2>1. acc.pend # <<>> => n - 1 = Len(conv) \/ conv[(n - 1) + 1].role = "tool"
    BY DEF ReadUpTo
  <2>2. n - 1 # Len(conv) /\ (n - 1) + 1 = n
    BY <1>1
  <2> QED BY <2>1, <2>2
<1>5. Alternates => EndsWell(acc.turns)
  BY DEF ReadUpTo
<1>6. Alternates /\ conv[n].role = "assistant" => acc.turns # <<>> /\ Last(acc.turns).role = "user"
  <2>1. (n - 1) + 1 = n /\ n - 1 < Len(conv)
    BY <1>1
  <2> QED BY <2>1 DEF ReadUpTo
<1>7. Alternates /\ n < Len(conv) /\ conv[n + 1].role = "assistant" => conv[n].role # "assistant"
  <2>1. n < Len(conv) => n + 1 \in 2..Len(conv) /\ (n + 1) - 1 = n
    BY <1>1
  <2> QED BY <2>1 DEF Alternates
<1>8. \A i \in 1..n : i \in 1..n - 1 \/ i = n
  BY <1>1
<1>9. PICK more : more = acc.pend \o conv[n].results
  OBVIOUS
<1>10. more \in Seq(Id) /\ ToSet(more) = ToSet(acc.pend) \cup ToSet(conv[n].results)
  BY <1>1, <1>2, <1>9, ConcatProperties, ConcatMembers
<1>11. ToSet(<<>>) = {}
  BY DEF ToSet
<1>12. CASE /\ conv[n].role = "tool" /\ n # Len(conv) /\ conv[n + 1].role # "tool"
            /\ r.turns = Append(acc.turns, User(<<>>, acc.pend \o conv[n].results)) /\ r.pend = <<>>
  <2>1. PICK t : t = User(<<>>, more)
    OBVIOUS
  <2>2. t \in Turn /\ t.role = "user" /\ t.results = more
    BY <1>1, <1>10, <2>1, TurnsMade
  <2>3. r.turns = Append(acc.turns, t)
    BY <1>9, <1>12, <2>1
  <2>4. /\ r.turns # <<>> /\ Last(r.turns) = t
        /\ \A e : InTurns(e, acc.turns) => InTurns(e, r.turns)
        /\ \A e \in ToSet(more) : InTurns(e, r.turns)
        /\ EndsWell(acc.turns) => EndsWell(r.turns)
    BY <1>2, <2>2, <2>3, UserAdded
  <2>5. \A e : \A i \in 1..n : conv[i].role = "tool" /\ e \in ToSet(conv[i].results) =>
          InTurns(e, r.turns)
    BY <1>3, <1>8, <1>10, <2>4
  <2> QED BY <1>5, <1>12, <2>2, <2>4, <2>5 DEF ReadUpTo
<1>13. CASE /\ conv[n].role = "tool" /\ (n = Len(conv) \/ conv[n + 1].role = "tool")
            /\ r.turns = acc.turns /\ r.pend = acc.pend \o conv[n].results
  <2>1. r.pend = more
    BY <1>9, <1>13
  <2>2. \A e : \A i \in 1..n : conv[i].role = "tool" /\ e \in ToSet(conv[i].results) =>
          InTurns(e, r.turns) \/ e \in ToSet(r.pend)
    BY <1>3, <1>8, <1>10, <1>13, <2>1
  <2>3. n < Len(conv) => n # Len(conv)
    BY <1>1
  <2> QED BY <1>1, <1>5, <1>13, <2>2, <2>3 DEF ReadUpTo
<1>14. CASE conv[n].role = "user" /\ n = Len(conv) /\ r.turns = acc.turns /\ r.pend = acc.pend
  <2>1. \A e : \A i \in 1..n : conv[i].role = "tool" /\ e \in ToSet(conv[i].results) =>
          InTurns(e, r.turns) \/ e \in ToSet(r.pend)
    BY <1>3, <1>8, <1>14
  <2>2. r.pend = <<>> /\ ~(n < Len(conv))
    BY <1>1, <1>4, <1>14
  <2> QED BY <1>5, <1>14, <2>1, <2>2 DEF ReadUpTo
<1>15. CASE /\ conv[n].role = "user" /\ n # Len(conv) /\ r.pend = acc.pend
            /\ r.turns = Append(acc.turns, User(conv[n].text, <<>>))
  <2>1. PICK t : t = User(conv[n].text, <<>>)
    OBVIOUS
  <2>2. t \in Turn /\ t.role = "user"
    BY <1>1, <2>1, TurnsMade
  <2>3. r.turns = Append(acc.turns, t)
    BY <1>15, <2>1
  <2>4. /\ r.turns # <<>> /\ Last(r.turns) = t
        /\ \A e : InTurns(e, acc.turns) => InTurns(e, r.turns)
        /\ EndsWell(acc.turns) => EndsWell(r.turns)
    BY <1>2, <2>2, <2>3, UserAdded
  <2>5. \A e : \A i \in 1..n : conv[i].role = "tool" /\ e \in ToSet(conv[i].results) =>
          InTurns(e, r.turns) \/ e \in ToSet(r.pend)
    BY <1>3, <1>8, <1>15, <2>4
  <2>6. r.pend = <<>>
    BY <1>4, <1>15
  <2> QED BY <1>5, <2>2, <2>4, <2>5, <2>6 DEF ReadUpTo
<1>16. CASE /\ conv[n].role = "assistant" /\ r.pend = acc.pend
            /\ r.turns = Append(acc.turns, Assistant(conv[n].text, conv[n].calls))
  <2>1. PICK t : t = Assistant(conv[n].text, conv[n].calls)
    OBVIOUS
  <2>2. t \in Turn
    BY <1>1, <2>1, TurnsMade
  <2>3. r.turns = Append(acc.turns, t)
    BY <1>16, <2>1
  <2>4. /\ \A e : InTurns(e, acc.turns) => InTurns(e, r.turns)
        /\ acc.turns # <<>> /\ Last(acc.turns).role = "user" /\ EndsWell(acc.turns) =>
             EndsWell(r.turns)
    BY <1>2, <2>2, <2>3, UserAdded
  <2>5. \A e : \A i \in 1..n : conv[i].role = "tool" /\ e \in ToSet(conv[i].results) =>
          InTurns(e, r.turns) \/ e \in ToSet(r.pend)
    BY <1>3, <1>8, <1>16, <2>4
  <2>6. r.pend = <<>>
    BY <1>4, <1>16
  <2>7. Alternates => EndsWell(r.turns)
    BY <1>5, <1>6, <1>16, <2>4
  <2> QED BY <1>7, <1>16, <2>5, <2>6, <2>7 DEF ReadUpTo
<1> QED BY <1>12, <1>13, <1>14, <1>15, <1>16 DEF ReadOne

LEMMA OpenAIHistoryIs ==
  ASSUME Conversation, conv # <<>>, NEW read, read = OpenAIHistory
  PROVE  /\ read.turns \in Seq(Turn) /\ read.pend \in Seq(Id)
         /\ Alternates => EndsWell(read.turns)
         /\ \A e : \A i \in 1..Len(conv) : conv[i].role = "tool" /\ e \in ToSet(conv[i].results) =>
              InTurns(e, read.turns) \/ e \in ToSet(read.pend)
         /\ read.pend # <<>> => Last(conv).role = "tool"
<1>1. Len(conv) \in Nat /\ Len(conv) > 0
  BY MessageFields
<1>2. PICK f \in [0..Len(conv) -> Progress] : Reads(f) /\ OpenAIHistory = f[Len(conv)]
  BY OpenAIReads
<1> DEFINE T == {n \in Nat : n <= Len(conv) => ReadUpTo(f[n], n)}
<1>3. 0 \in T
  <2>1. f[0].turns = <<>> /\ f[0].pend = <<>>
    BY <1>2 DEF Reads
  <2>2. EndsWell(<<>>)
    BY DEF EndsWell
  <2>3. Alternates => conv[0 + 1].role # "assistant"
    BY DEF Alternates
  <2>4. ReadUpTo(f[0], 0)
    BY <2>1, <2>2, <2>3 DEF ReadUpTo
  <2> QED BY <2>4
<1>4. ASSUME NEW n \in 1..Len(conv), n - 1 \in T PROVE n \in T
  <2>1. n \in Nat /\ n - 1 \in 0..Len(conv) /\ n \in 0..Len(conv) /\ n - 1 <= Len(conv)
    BY <1>1
  <2>2. PICK acc, r : acc = f[n - 1] /\ r = f[n]
    OBVIOUS
  <2>3. acc \in Progress /\ r \in Progress /\ ReadUpTo(acc, n - 1) /\ r = Read(acc, n)
    BY <1>2, <1>4, <2>1, <2>2 DEF Reads
  <2>4. ReadOne(acc, n, r)
    BY <2>3, ReadIs
  <2>5. ReadUpTo(r, n)
    BY <2>3, <2>4, ReadAdvances
  <2> QED BY <2>1, <2>2, <2>5
<1> HIDE DEF T
<1>5. Len(conv) \in T
  <2>1. \A n \in 0..Len(conv) : n \in T
    BY <1>1, <1>3, <1>4, BoundedInduction
  <2> QED BY <1>1, <2>1
<1>6. ReadUpTo(read, Len(conv)) /\ read \in Progress
  BY <1>1, <1>2, <1>5 DEF T
<1>7. read.turns \in Seq(Turn) /\ read.pend \in Seq(Id)
  BY <1>6 DEF Progress
<1> QED BY <1>6, <1>7 DEF ReadUpTo, Last

-----------------------------------------------------------------------------
(* Translator: what is sent.                                               *)

\* ResultsReachKiro, of a payload.
UncutIn(p) ==
  /\ Size(p) < client.limit /\ (Current.text = <<>> => Len(p.text) < MaxTold)
  /\ Unmarked(p.history)

ReachIn(p) ==
  UncutIn(p) =>
    \A e \in Results(conv) :
      \/ Current.text # <<>> /\ p.results = <<>> /\ e \in ToSet(Current.results)
      \/ e \in ToSet(p.text) \/ e \in ToSet(p.results) \/ InTexts(e, p.history)

LEMMA ResultsOf ==
  ASSUME Conversation, NEW e \in Results(conv)
  PROVE  \E i \in 1..Len(conv) : e \in ToSet(conv[i].results) /\ conv[i].role \in {"user", "tool"}
<1>1. PICK i \in DOMAIN conv : e \in ToSet(conv[i].results)
  BY DEF Results
<1>2. i \in 1..Len(conv)
  BY LenProperties DEF Conversation
<1>3. conv[i].role # "assistant"
  <2>1. conv[i].role = "assistant" => ToSet(conv[i].results) = {}
    BY <1>2 DEF Conversation, ToSet
  <2> QED BY <1>1, <2>1
<1> QED BY <1>1, <1>2, <1>3, MessageFields

LEMMA CurrentIs ==
  ASSUME Conversation, conv # <<>>
  PROVE  /\ Current.text \in Seq(Unit) /\ Current.results \in Seq(Id)
         /\ Last(conv).role = "user" => Current = Last(conv)
         /\ Last(conv).role # "user" => Current.text = <<>>
<1>1. Len(conv) \in 1..Len(conv)
  BY MessageFields
<1>2. Last(conv).text \in Seq(Unit) /\ Last(conv).results \in Seq(Id)
  BY <1>1, MessageFields DEF Last
<1>3. <<>> \in Seq(Unit) /\ <<>> \in Seq(Id)
  BY EmptySeq
<1> QED BY <1>2, <1>3 DEF Current, User

\* What a conversion sends, if the history and the results of the current message
\* are all there is.
LEMMA SentIs ==
  ASSUME Conversation, conv # <<>>, NEW turns \in Seq(Turn), NEW results \in Seq(Id),
         Alternates => EndsWell(turns),
         \A e \in Results(conv) : InTurns(e, turns) \/ e \in ToSet(results),
         Current.text # <<>> => results = Current.results,
         NEW q, q = Built(turns, Current.text, results)
  PROVE  /\ Sound(q) /\ AtSmallest(q) /\ ReachIn(q)
         /\ q.results # <<>> /\ Alternates => q.history # <<>> /\ Last(q.history).calls # <<>>
<1>1. client.system \in BOOLEAN /\ client.limit \in Nat
  BY TranslatorAssumption DEF Conversation
<1>2. Current.text \in Seq(Unit) /\ Current.results \in Seq(Id)
  BY CurrentIs
<1>3. /\ Sound(q) /\ AtSmallest(q)
      /\ q.results \in {<<>>, results}
      /\ EndsWell(turns) /\ q.results # <<>> => q.history # <<>> /\ Last(q.history).calls # <<>>
      /\ Size(q) < client.limit => q.text = CurrentText(Current.text, results)
      /\ Unmarked(q.history) => \A e : InTurns(e, turns) => InTexts(e, q.history)
  BY <1>1, <1>2, BuiltIs
<1>4. ASSUME UncutIn(q), NEW e \in Results(conv)
      PROVE  \/ Current.text # <<>> /\ q.results = <<>> /\ e \in ToSet(Current.results)
             \/ e \in ToSet(q.text) \/ e \in ToSet(q.results) \/ InTexts(e, q.history)
  <2>1. CASE InTurns(e, turns)
    BY <1>3, <1>4, <2>1 DEF UncutIn
  <2>2. CASE e \in ToSet(results) /\ q.results = results
    BY <2>2
  <2>3. CASE e \in ToSet(results) /\ q.results = <<>> /\ Current.text # <<>>
    BY <2>3
  <2>4. CASE e \in ToSet(results) /\ Current.text = <<>>
    <3>1. results # <<>>
      <4>1. ToSet(<<>>) = {}
        BY DEF ToSet
      <4> QED BY <2>4, <4>1
    <3>2. q.text = Continuation(results) /\ Len(q.text) < MaxTold
      BY <1>3, <1>4, <2>4, <3>1 DEF UncutIn, CurrentText
    <3>3. PICK t : t = Told(results)
      OBVIOUS
    <3>4. t \in Seq(Id) /\ Len(t) \in Nat /\ e \in ToSet(t)
      BY <2>4, <3>3, ToldMembers, LenProperties
    <3>5. CASE Len(t) > MaxTold
      <4>1. q.text = SubSeq(t, 1, MaxTold)
        BY <3>2, <3>3, <3>5 DEF Continuation
      <4>2. MaxTold \in 0..Len(t) /\ 1 \in 1..Len(t) + 1 /\ MaxTold \in Nat
        BY <3>4, <3>5, TranslatorAssumption
      <4>3. Len(q.text) = IF 1 <= MaxTold THEN MaxTold - 1 + 1 ELSE 0
        BY <3>4, <4>1, <4>2, PartOf
      <4> QED BY <3>2, <4>2, <4>3
    <3>6. CASE ~(Len(t) > MaxTold)
      BY <3>2, <3>3, <3>4, <3>6 DEF Continuation
    <3> QED BY <3>5, <3>6
  <2> QED BY <1>3, <2>1, <2>2, <2>3, <2>4
<1>5. ReachIn(q)
  BY <1>4 DEF ReachIn
<1> QED BY <1>3, <1>5

LEMMA ClaudeSends ==
  ASSUME Conversation, conv # <<>>, client.format = "claude",
         NEW q, q = Built(ClaudeHistory, Current.text, Current.results)
  PROVE  /\ Sound(q) /\ AtSmallest(q) /\ ReachIn(q)
         /\ q.results # <<>> /\ Alternates => q.history # <<>> /\ Last(q.history).calls # <<>>
<1>1. PICK turns, results : turns = ClaudeHistory /\ results = Current.results
  OBVIOUS
<1>2. /\ turns \in Seq(Turn) /\ (Alternates => EndsWell(turns))
      /\ \A e : \A i \in 1..Len(conv) : conv[i].role = "user" /\ e \in ToSet(conv[i].results) =>
           InTurns(e, turns) \/ (i = Len(conv) /\ Last(conv).role = "user")
  BY <1>1, ClaudeHistoryIs
<1>3. ASSUME NEW e \in Results(conv) PROVE InTurns(e, turns) \/ e \in ToSet(results)
  <2>1. PICK i \in 1..Len(conv) : e \in ToSet(conv[i].results) /\ conv[i].role \in {"user", "tool"}
    BY ResultsOf
  <2>2. conv[i].role = "user"
    BY <2>1 DEF Conversation
  <2>3. i = Len(conv) /\ Last(conv).role = "user" => e \in ToSet(results)
    BY <1>1, <2>1, CurrentIs DEF Last
  <2> QED BY <1>2, <2>1, <2>2, <2>3
<1>4. results \in Seq(Id)
  BY <1>1, CurrentIs
<1>5. q = Built(turns, Current.text, results)
  BY <1>1
<1> QED BY <1>1, <1>2, <1>3, <1>4, <1>5, SentIs

LEMMA OpenAISends ==
  ASSUME Conversation, conv # <<>>, client.format = "openai",
         NEW q, q = Built(OpenAIHistory.turns, Current.text, OpenAIHistory.pend)
  PROVE  /\ Sound(q) /\ AtSmallest(q) /\ ReachIn(q)
         /\ q.results # <<>> /\ Alternates => q.history # <<>> /\ Last(q.history).calls # <<>>
<1>1. PICK read, turns, results : /\ read = OpenAIHistory
                                  /\ turns = read.turns /\ results = read.pend
  OBVIOUS
<1>2. /\ turns \in Seq(Turn) /\ results \in Seq(Id) /\ (Alternates => EndsWell(turns))
      /\ \A e : \A i \in 1..Len(conv) : conv[i].role = "tool" /\ e \in ToSet(conv[i].results) =>
           InTurns(e, turns) \/ e \in ToSet(results)
      /\ results # <<>> => Last(conv).role = "tool"
  BY <1>1, OpenAIHistoryIs
<1>3. \A i \in 1..Len(conv) : conv[i].role = "user" => conv[i].results = <<>>
  BY DEF Conversation
<1>4. ASSUME NEW e \in Results(conv) PROVE InTurns(e, turns) \/ e \in ToSet(results)
  <2>1. PICK i \in 1..Len(conv) : e \in ToSet(conv[i].results) /\ conv[i].role \in {"user", "tool"}
    BY ResultsOf
  <2>2. ToSet(<<>>) = {}
    BY DEF ToSet
  <2>3. conv[i].role = "tool"
    BY <1>3, <2>1, <2>2
  <2> QED BY <1>2, <2>1, <2>3
<1>5. ASSUME Current.text # <<>> PROVE results = Current.results
  <2>1. Last(conv).role = "user" /\ Current = Last(conv)
    BY <1>5, CurrentIs
  <2>2. results = <<>>
    BY <1>2, <2>1
  <2>3. Len(conv) \in 1..Len(conv)
    BY MessageFields
  <2>4. Last(conv).results = <<>>
    BY <1>3, <2>1, <2>3 DEF Last
  <2> QED BY <2>1, <2>2, <2>4
<1>6. q = Built(turns, Current.text, results)
  BY <1>1
<1> QED BY <1>2, <1>4, <1>5, <1>6, SentIs

\* The inductive invariant: the messages are as their formats have them, what has
\* been sent is sound and as small as it can be made, and at first tells all.
TranslatorInv ==
  /\ Conversation /\ sendPc \in {"compose", "sent", "again"}
  /\ Sound(payload)
  /\ sendPc # "compose" => conv # <<>> /\ AtSmallest(payload)
  /\ sendPc = "sent" => ReachIn(payload)
  /\ sendPc = "sent" /\ payload.results # <<>> /\ Alternates =>
       payload.history # <<>> /\ Last(payload.history).calls # <<>>

LEMMA TranslatorStarts == TranslatorInit => TranslatorInv
<1> SUFFICES ASSUME TranslatorInit PROVE TranslatorInv
  OBVIOUS
<1>1. Conversation
  <2>1. MaxTurn \in Nat /\ Len(<<>>) = 0 /\ <<>> \in Seq(Message)
    BY TranslatorAssumption, EmptySeq
  <2> QED BY <2>1 DEF TranslatorInit, Conversation
<1>2. Sound(payload)
  <2>1. payload.history = <<>> /\ payload \in PayloadSet
    BY EmptySeq DEF TranslatorInit, NoPayload, PayloadSet
  <2>2. Acceptable(payload.history, payload.results)
    BY <2>1 DEF Acceptable
  <2> QED BY <2>1, <2>2 DEF Sound
<1> QED BY <1>1, <1>2 DEF TranslatorInit, TranslatorInv

\* A message more.
LEMMA SayKeeps ==
  ASSUME TranslatorInv, NEW m \in Message, Say(m),
         m.role = "assistant" => m.results = <<>>,
         m.role = "tool" => client.format = "openai",
         m.role = "user" /\ client.format = "openai" => m.results = <<>>
  PROVE  TranslatorInv'
<1>1. /\ conv \in Seq(Message) /\ Len(conv) \in Nat /\ Len(conv) < MaxTurn /\ MaxTurn \in Nat
      /\ conv' = Append(conv, m) /\ client' = client /\ payload' = payload
      /\ sendPc = "compose" /\ sendPc' = sendPc
  BY TranslatorAssumption, MessageFields DEF TranslatorInv, Conversation, Say
<1>2. /\ conv' \in Seq(Message) /\ Len(conv') = Len(conv) + 1 /\ conv'[Len(conv) + 1] = m
      /\ \A i \in 1..Len(conv) : conv'[i] = conv[i]
  BY <1>1, AppendProperties
<1>3. ASSUME NEW i \in 1..Len(conv')
      PROVE  /\ conv'[i].role = "assistant" => conv'[i].results = <<>>
             /\ conv'[i].role = "tool" => client.format = "openai"
             /\ conv'[i].role = "user" /\ client.format = "openai" => conv'[i].results = <<>>
  <2>1. i \in 1..Len(conv) \/ i = Len(conv) + 1
    BY <1>1, <1>2
  <2>2. CASE i \in 1..Len(conv)
    BY <1>2, <2>2 DEF TranslatorInv, Conversation
  <2>3. CASE i = Len(conv) + 1
    BY <1>2, <2>3
  <2> QED BY <2>1, <2>2, <2>3
<1>4. Conversation'
  <2>1. Len(conv') <= MaxTurn
    BY <1>1, <1>2
  <2>2. client \in [format: {"claude", "openai"}, system: BOOLEAN, limit: Limits]
    BY DEF TranslatorInv, Conversation
  <2> QED BY <1>1, <1>2, <1>3, <2>1, <2>2 DEF Conversation
<1>5. Sound(payload')
  BY <1>1 DEF TranslatorInv
<1> QED BY <1>1, <1>4, <1>5 DEF TranslatorInv

LEMMA TranslatorSteps == TranslatorInv /\ [TranslatorNext]_translatorVars => TranslatorInv'
<1> SUFFICES ASSUME TranslatorInv, [TranslatorNext]_translatorVars PROVE TranslatorInv'
  OBVIOUS
<1>0. /\ Said \subseteq Seq(Unit) /\ <<>> \in Seq(Unit) /\ <<>> \in Seq(Id)
      /\ <<"hi">> \in Seq(Unit) /\ <<"old">> \in Seq(Unit) /\ \A i \in Id : <<i>> \in Seq(Id)
  <2>1. Unit = {"hi", "old", ".", "note", "sys", "ok", "cut"} \cup Id
    BY DEF Unit
  <2>2. Said \subseteq Seq(Unit)
    BY <2>1, TranslatorAssumption
  <2>3. "hi" \in Unit /\ "old" \in Unit
    BY <2>1
  <2> QED BY <2>2, <2>3, EmptySeq
<1>1. CASE UserSays
  <2>1. PICK text \in Said, results \in {<<>>} \cup {<<i>> : i \in Id} :
          /\ client.format = "openai" => results = <<>>
          /\ Say([role |-> "user", text |-> text, calls |-> <<>>, results |-> results])
    BY <1>1 DEF UserSays
  <2>2. PICK m : m = [role |-> "user", text |-> text, calls |-> <<>>, results |-> results]
    OBVIOUS
  <2>3. m \in Message /\ m.role = "user" /\ m.results = results
    BY <1>0, <2>2 DEF Message
  <2> QED BY <2>1, <2>2, <2>3, SayKeeps
<1>2. CASE ToolSays
  <2>1. PICK i \in Id : Say([role |-> "tool", text |-> <<>>, calls |-> <<>>, results |-> <<i>>])
    BY <1>2 DEF ToolSays
  <2>2. PICK m : m = [role |-> "tool", text |-> <<>>, calls |-> <<>>, results |-> <<i>>]
    OBVIOUS
  <2>3. m \in Message /\ m.role = "tool" /\ client.format = "openai"
    BY <1>0, <1>2, <2>2 DEF Message, ToolSays
  <2> QED BY <2>1, <2>2, <2>3, SayKeeps
<1>3. CASE AssistantSays
  <2>1. PICK text \in {<<>>, <<"hi">>, <<"old">>}, calls \in {<<>>} \cup {<<i>> : i \in Id} :
          Say([role |-> "assistant", text |-> text, calls |-> calls, results |-> <<>>])
    BY <1>3 DEF AssistantSays
  <2>2. PICK m : m = [role |-> "assistant", text |-> text, calls |-> calls, results |-> <<>>]
    OBVIOUS
  <2>3. m \in Message /\ m.role = "assistant" /\ m.results = <<>>
    <3>1. text \in Seq(Unit) /\ calls \in Seq(Id)
      BY <1>0
    <3> QED BY <1>0, <2>2, <3>1 DEF Message
  <2> QED BY <2>1, <2>2, <2>3, SayKeeps
<1>4. ASSUME NEW q, conv # <<>>, payload' = q, sendPc' = "sent", client' = client, conv' = conv,
             Sound(q), AtSmallest(q), ReachIn(q),
             q.results # <<>> /\ Alternates => q.history # <<>> /\ Last(q.history).calls # <<>>
      PROVE  TranslatorInv'
  <2>1. Conversation'
    BY <1>4 DEF TranslatorInv, Conversation
  <2>2. AtSmallest(payload)'
    BY <1>4 DEF AtSmallest
  <2>3. ReachIn(payload)'
    BY <1>4 DEF ReachIn, UncutIn, Current
  <2>4. Alternates' = Alternates
    BY <1>4 DEF Alternates
  <2>5. Sound(payload)'
    BY <1>4
  <2> QED BY <1>4, <2>1, <2>2, <2>3, <2>4, <2>5 DEF TranslatorInv
<1>5. CASE ClaudeToKiro
  <2>1. PICK q : q = Built(ClaudeHistory, Current.text, Current.results)
    OBVIOUS
  <2>2. /\ Sound(q) /\ AtSmallest(q) /\ ReachIn(q)
        /\ q.results # <<>> /\ Alternates => q.history # <<>> /\ Last(q.history).calls # <<>>
    BY <1>5, <2>1, ClaudeSends DEF TranslatorInv, ClaudeToKiro
  <2>3. conv # <<>> /\ payload' = q /\ sendPc' = "sent" /\ client' = client /\ conv' = conv
    BY <1>5, <2>1 DEF ClaudeToKiro
  <2> QED BY <1>4, <2>2, <2>3
<1>6. CASE OpenAIToKiro
  <2>1. PICK q : q = Built(OpenAIHistory.turns, Current.text, OpenAIHistory.pend)
    OBVIOUS
  <2>2. /\ Sound(q) /\ AtSmallest(q) /\ ReachIn(q)
        /\ q.results # <<>> /\ Alternates => q.history # <<>> /\ Last(q.history).calls # <<>>
    BY <1>6, <2>1, OpenAISends DEF TranslatorInv, OpenAIToKiro
  <2>3. conv # <<>> /\ payload' = q /\ sendPc' = "sent" /\ client' = client /\ conv' = conv
    BY <1>6, <2>1 DEF OpenAIToKiro
  <2> QED BY <1>4, <2>2, <2>3
<1>7. CASE TooLong
  <2>1. PICK q : q = shrinkPayloadToHardLimit(payload)
    OBVIOUS
  <2>2. client.limit \in Nat
    BY TranslatorAssumption DEF TranslatorInv, Conversation
  <2>3. Sound(q) /\ AtSmallest(q)
    BY <2>1, <2>2, Shrunk DEF TranslatorInv
  <2>4. /\ payload' = q /\ sendPc = "sent" /\ sendPc' = "again" /\ client' = client /\ conv' = conv
    BY <1>7, <2>1 DEF TooLong
  <2>5. Conversation'
    BY <2>4 DEF TranslatorInv, Conversation
  <2>6. AtSmallest(payload)'
    BY <2>3, <2>4 DEF AtSmallest
  <2> QED BY <2>3, <2>4, <2>5, <2>6 DEF TranslatorInv
<1>8. CASE UNCHANGED translatorVars
  <2>1. client' = client /\ conv' = conv /\ payload' = payload /\ sendPc' = sendPc
    BY <1>8 DEF translatorVars
  <2>2. Conversation' /\ (AtSmallest(payload) => AtSmallest(payload)')
        /\ (ReachIn(payload) => ReachIn(payload)') /\ Alternates' = Alternates
    BY <2>1 DEF TranslatorInv, Conversation, AtSmallest, ReachIn, UncutIn, Current, Alternates
  <2> QED BY <2>1, <2>2 DEF TranslatorInv
<1> QED BY <1>1, <1>2, <1>3, <1>5, <1>6, <1>7, <1>8 DEF TranslatorNext

\* Whatever was said in either format, what Kiro is sent is what it accepts: at
\* first, and made smaller after a refusal (translator.go, sanitizeKiroHistory,
\* truncatePayloadToLimit, shrinkPayloadToHardLimit).
THEOREM KiroTakesIt == TranslatorSpec => []KiroAccepts
<1>1. TranslatorInv => KiroAccepts
  <2> SUFFICES ASSUME TranslatorInv PROVE KiroAccepts
    OBVIOUS
  <2>1. Acceptable(payload.history, payload.results) /\ payload.history \in Seq(Turn)
    BY SizeOf DEF TranslatorInv, Sound
  <2>2. DOMAIN payload.history = 1..Len(payload.history)
    BY <2>1, TurnsOf
  <2>3. sendPc = "sent" /\ payload.results # <<>> /\ Alternates =>
          payload.history # <<>> /\ Last(payload.history).calls # <<>>
    BY DEF TranslatorInv
  <2> QED BY <2>1, <2>2, <2>3 DEF KiroAccepts, Acceptable
<1> QED BY <1>1, TranslatorStarts, TranslatorSteps, PTL DEF TranslatorSpec

\* What a tool answered reaches Kiro, as text or with structure, unless the
\* payload had to be cut (translator.go, ClaudeToKiro, OpenAIToKiro,
\* narrateToolResults).
THEOREM ResultsArrive == TranslatorSpec => []ResultsReachKiro
<1>1. TranslatorInv => ResultsReachKiro
  <2> SUFFICES ASSUME TranslatorInv, sendPc = "sent", Uncut,
                      NEW e \in Results(conv) \ (IF Orphaned THEN ToSet(Current.results) ELSE {})
               PROVE  e \in ToSet(payload.text) \cup ToSet(payload.results)
                         \cup UNION {ToSet(payload.history[i].text) : i \in DOMAIN payload.history}
    BY DEF ResultsReachKiro
  <2>1. payload.history \in Seq(Turn)
    BY SizeOf DEF TranslatorInv, Sound
  <2>2. DOMAIN payload.history = 1..Len(payload.history)
    BY <2>1, TurnsOf
  <2>3. UncutIn(payload)
    BY <2>2 DEF Uncut, UncutIn, Unmarked
  <2>4. e \in Results(conv) /\ (Orphaned => e \notin ToSet(Current.results))
    OBVIOUS
  <2>5. \/ Current.text # <<>> /\ payload.results = <<>> /\ e \in ToSet(Current.results)
        \/ e \in ToSet(payload.text) \/ e \in ToSet(payload.results) \/ InTexts(e, payload.history)
    BY <2>3, <2>4 DEF TranslatorInv, ReachIn
  <2> QED BY <2>2, <2>4, <2>5 DEF Orphaned, InTexts
<1> QED BY <1>1, TranslatorStarts, TranslatorSteps, PTL DEF TranslatorSpec

\* What is sent fits the budget of the model, or all that is left of it is at its
\* smallest: the loops that cut it do not give up before (translator.go,
\* truncateOversizedHistoryContent, truncateCurrentMessage).
THEOREM PayloadFits == TranslatorSpec => []FitsTheModel
<1>1. TranslatorInv => FitsTheModel
  <2> SUFFICES ASSUME TranslatorInv PROVE FitsTheModel
    OBVIOUS
  <2>1. payload.history \in Seq(Turn)
    BY SizeOf DEF TranslatorInv, Sound
  <2>2. DOMAIN payload.history = 1..Len(payload.history)
    BY <2>1, TurnsOf
  <2> QED BY <2>2 DEF TranslatorInv, AtSmallest, AllShort, FitsTheModel
<1> QED BY <1>1, TranslatorStarts, TranslatorSteps, PTL DEF TranslatorSpec

\* The state of the translator is of its types.
THEOREM TranslatorTypeCorrect == TranslatorSpec => []TranslatorTypeOK
<1>1. TranslatorInv => TranslatorTypeOK
  BY DEF TranslatorInv, Conversation, Sound, PayloadSet, TranslatorTypeOK
<1> QED BY <1>1, TranslatorStarts, TranslatorSteps, PTL DEF TranslatorSpec
===============================================================================
