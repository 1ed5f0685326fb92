----------------------------- MODULE Translator -----------------------------
(***************************************************************************)
(* How kiro-go turns a conversation of an Anthropic or OpenAI client into  *)
(* the payload it sends to Kiro, and makes it smaller: before it is sent,  *)
(* to the budget of the model, and again when Kiro answers that it is too  *)
(* long.                                                                   *)
(*                                                                         *)
(* Kiro accepts tool calls with structure only in the last turn of the     *)
(* history, answered by the tool results of the current message.  All      *)
(* other results are told as text of a user's turn.                        *)
(*                                                                         *)
(* Text is a sequence of units: "hi" is text of the client, "old" a tool   *)
(* call told as text by an earlier version, "." the placeholder, "note"    *)
(* marks what was cut off, and a result is Body units of its id.  The size *)
(* of a turn is its units and one.  Images and tool names are left out.    *)
(***************************************************************************)
EXTENDS Integers, Sequences, SequencesExt, Selection

CONSTANTS
  Said,          \* texts a message may have
  Id,            \* ids of tool calls
  Body,          \* units of a tool's result
  MaxTold,       \* results are told in the current message up to here, 4000
  Limits,        \* budgets of the models
  HardTarget,    \* the size that is tried after a refusal, 400 KB
  MinRecent,     \* minRecentHistoryTurns, 4
  MinField,      \* a text is not cut to less, 512
  MaxTurn        \* bound: messages of a conversation

ASSUME TranslatorAssumption ==
  /\ Said \subseteq Seq({"hi", "old", ".", "note", "sys", "ok", "cut"} \cup Id)
  /\ Body \in Nat \ {0} /\ MaxTold \in Nat /\ Limits \subseteq Nat /\ HardTarget \in Nat
  /\ MinRecent \in Nat \ {0, 1} /\ MinField \in Nat \ {0} /\ MaxTurn \in Nat

VARIABLES
  client,        \* the format, whether there is a system prompt, the budget
  conv,          \* the client's messages
  payload,       \* what Kiro is sent
  sendPc         \* "compose", "sent", "again"

translatorVars == <<client, conv, payload, sendPc>>

Unit == {"hi", "old", ".", "note", "sys", "ok", "cut"} \cup Id
Turn == [role: {"user", "assistant"}, text: Seq(Unit), calls: Seq(Id), results: Seq(Id)]
Message == [role: {"user", "assistant", "tool"}, text: Seq(Unit), calls: Seq(Id),
            results: Seq(Id)]
NoPayload == [history |-> <<>>, text |-> <<>>, results |-> <<>>]

TranslatorTypeOK ==
  /\ client \in [format: {"claude", "openai"}, system: BOOLEAN, limit: Limits]
  /\ conv \in Seq(Message) /\ Len(conv) <= MaxTurn
  /\ payload \in [history: Seq(Turn), text: Seq(Unit), results: Seq(Id)]
  /\ sendPc \in {"compose", "sent", "again"}

TranslatorInit ==
  /\ client \in [format: {"claude", "openai"}, system: BOOLEAN, limit: Limits]
  /\ conv = <<>>
  /\ payload = NoPayload
  /\ sendPc = "compose"

-----------------------------------------------------------------------------
(* Pieces of a payload.                                                    *)

User(text, results) == [role |-> "user", text |-> text, calls |-> <<>>, results |-> results]
Assistant(text, calls) ==
  [role |-> "assistant", text |-> text, calls |-> calls, results |-> <<>>]

Priming == <<User(<<"sys">>, <<>>), Assistant(<<"ok">>, <<>>)>>

Told(results) == FlattenSeq([i \in DOMAIN results |-> [k \in 1..Body |-> results[i]]])

\* buildToolResultsContinuation: the current message tells of a few only.
Continuation(results) == LET t == Told(results) IN
                         IF Len(t) > MaxTold THEN SubSeq(t, 1, MaxTold) ELSE t

\* Without the assistant's turns it begins with.
FromUser(turns) ==
  LET users == {i \in DOMAIN turns : turns[i].role = "user"} IN
  IF users = {} THEN <<>> ELSE SubSeq(turns, CHOOSE i \in users : \A j \in users : i <= j, Len(turns))

Total(sizes) ==
  LET sum[n \in 0..Len(sizes)] == IF n = 0 THEN 0 ELSE sum[n - 1] + sizes[n]
  IN  sum[Len(sizes)]
TurnSize(turn) == 1 + Len(turn.text) + Len(turn.calls) + Body * Len(turn.results)
Size(p) == Total([i \in DOMAIN p.history |-> TurnSize(p.history[i])])
             + Len(p.text) + Body * Len(p.results)

-----------------------------------------------------------------------------
(* The history.                                                            *)

\* A user's message that comes last is the current message.
ClaudeHistory ==
  LET earlier == IF Last(conv).role = "user" THEN Len(conv) - 1 ELSE Len(conv)
  IN FromUser([i \in 1..earlier |->
       IF conv[i].role = "user" THEN User(conv[i].text, conv[i].results)
       ELSE Assistant(conv[i].text, conv[i].calls)])

\* One message more: results that follow each other become one turn, and those
\* at the end the results of the current message.
Read(acc, i) ==
  LET m == conv[i]
      last == i = Len(conv) IN
  CASE m.role = "tool" ->
         IF ~last /\ conv[i + 1].role # "tool"
           THEN [turns |-> Append(acc.turns, User(<<>>, acc.pend \o m.results)), pend |-> <<>>]
           ELSE [turns |-> acc.turns, pend |-> acc.pend \o m.results]
    [] m.role = "user" ->
         IF last THEN acc
         ELSE [turns |-> Append(acc.turns, User(m.text, <<>>)), pend |-> acc.pend]
    [] m.role = "assistant" ->
         [turns |-> Append(acc.turns, Assistant(m.text, m.calls)), pend |-> acc.pend]

OpenAIHistory ==
  LET read[n \in 0..Len(conv)] ==
        IF n = 0 THEN [turns |-> <<>>, pend |-> <<>>] ELSE Read(read[n - 1], n)
  IN  read[Len(conv)]

\* Mutant: it is enough that there are calls.
MatchAny(history, results) ==
  results # <<>> /\ history # <<>> /\ Last(history).calls # <<>>

\* The results answer every call of the last turn.
currentToolResultsMatchLastAssistant(history, results) ==
  /\ results # <<>> /\ history # <<>>
  /\ LET turn == Last(history) IN
       /\ turn.role = "assistant" /\ turn.calls # <<>>
       /\ ToSet(turn.calls) \subseteq ToSet(results)

Hollow(turn) == turn.role = "assistant" /\ turn.calls = <<>> /\ turn.text \in {<<>>, <<".">>}

\* Mutant: the results of the history are dropped with the calls.
SanitizeResults(history, active) ==
  SelectSeq([i \in DOMAIN history |->
               [history[i] EXCEPT !.calls = IF active /\ i = Len(history) THEN @ ELSE <<>>,
                                  !.results = <<>>]], LAMBDA turn : ~Hollow(turn))

\* Calls lose their structure, except those of the active turn; results become
\* text.
Flat(turn, active) ==
  IF turn.role = "assistant"
    THEN Assistant(Select(turn.text, {i \in DOMAIN turn.text : turn.text[i] # "old"}),
                   IF active THEN turn.calls ELSE <<>>)
    ELSE LET text == turn.text \o Told(turn.results) IN
         User(IF text = <<>> THEN <<".">> ELSE text, <<>>)

\* Turns that are empty then, and repetitions of a user's turn, go.
Keep(kept, turn) ==
  IF \/ Hollow(turn)
     \/ turn.role = "user" /\ kept # <<>> /\ Last(kept).role = "user"
          /\ Last(kept).text = turn.text
  THEN kept ELSE Append(kept, turn)

sanitizeKiroHistory(history, active) ==
  LET kept[n \in 0..Len(history)] ==
        IF n = 0 THEN <<>>
        ELSE Keep(kept[n - 1], Flat(history[n], active /\ n = Len(history)))
  IN  FromUser(kept[Len(history)])

-----------------------------------------------------------------------------
(* Making it smaller.                                                      *)

\* The longest end of the turns that fits, and at least the last min.
KeepEnd(turns, room, min) ==
  LET n == Len(turns)
      Needed(i) == Total([k \in 1..(n - i + 1) |-> TurnSize(turns[i + k - 1])])
      fits == {i \in 1..(n + 1) : \A j \in i..n : Needed(j) <= room \/ n - j + 1 <= min}
      from == CHOOSE i \in fits : \A j \in fits : i <= j
  IN (IF from > 1 THEN <<User(<<"cut">>, <<>>)>> ELSE <<>>)
       \o FromUser(SubSeq(turns, from, n))

Dropped(p, primed, limit, min) ==
  LET head == SubSeq(p.history, 1, primed)
      base == Size([p EXCEPT !.history = head]) + TurnSize(User(<<"cut">>, <<>>))
  IN [p EXCEPT !.history =
        head \o KeepEnd(SubSeq(@, primed + 1, Len(@)), limit - base, min)]

\* The longest text of the history is cut in half.
Halve(p, limit) ==
  LET long == {i \in DOMAIN p.history : Len(p.history[i].text) > MinField + 1}
      largest == CHOOSE i \in long : \A j \in long :
                   \/ Len(p.history[j].text) < Len(p.history[i].text)
                   \/ Len(p.history[j].text) = Len(p.history[i].text) /\ i <= j
      text == p.history[largest].text
      keep == IF Len(text) \div 2 < MinField THEN MinField ELSE Len(text) \div 2
  IN IF Size(p) <= limit \/ long = {} \/ keep + 1 >= Len(text) THEN p
     ELSE [p EXCEPT !.history[largest].text = Append(SubSeq(text, 1, keep), "note")]

\* Again and again, until the payload fits or no text can be cut.  Each cut takes
\* a unit at least, so there are no more cuts than units.
Units(p) == Total([i \in DOMAIN p.history |-> Len(p.history[i].text)])
truncateOversizedHistoryContent(p, limit) ==
  LET cut[n \in 0..Units(p)] == IF n = 0 THEN p ELSE Halve(cut[n - 1], limit)
  IN  cut[Units(p)]

\* Mutant: what the rest of the payload needs is forgotten.
CutToBudget(p) ==
  IF Len(p.text) <= client.limit THEN p ELSE [p EXCEPT !.text = SubSeq(@, 1, client.limit)]

\* The current message is cut to the budget of the model, whatever the limit.
truncateCurrentMessage(p) ==
  LET budget == client.limit - (Size(p) - Len(p.text)) IN
  IF Len(p.text) <= budget THEN p
  ELSE [p EXCEPT !.text = IF budget <= 0 THEN <<".">> ELSE SubSeq(@, 1, budget)]

Unless(fits, p, smaller) == IF fits THEN p ELSE smaller

truncatePayloadToLimit(p) ==
  IF Size(p) <= client.limit THEN p
  ELSE LET a == Dropped(p, IF client.system /\ Len(p.history) >= 2 THEN 2 ELSE 0,
                        client.limit, MinRecent)
           b == Unless(Size(a) <= client.limit, a,
                       truncateOversizedHistoryContent(a, client.limit))
       IN Unless(Size(b) <= client.limit, b, truncateCurrentMessage(b))

HardLimit == IF HardTarget >= client.limit THEN client.limit \div 2 ELSE HardTarget

\* Two turns count as the system prompt's whether there is one or not.  What was
\* cut of their text stays cut: the turns are shared.
shrinkPayloadToHardLimit(p) ==
  LET primed == IF Len(p.history) >= 2 THEN 2 ELSE 0
      a == Dropped(p, primed, HardLimit, 0)
      b == Unless(Size(a) <= HardLimit, a, truncateOversizedHistoryContent(a, HardLimit))
      c == Unless(Size(b) <= HardLimit, b, [b EXCEPT !.history = SubSeq(@, 1, primed)])
  IN Unless(Size(c) <= HardLimit, c, truncateCurrentMessage(c))

-----------------------------------------------------------------------------
(* The actions.                                                            *)

Say(m) == sendPc = "compose" /\ Len(conv) < MaxTurn /\ conv' = Append(conv, m)
          /\ UNCHANGED <<client, payload, sendPc>>

UserSays ==
  \E text \in Said, results \in {<<>>} \cup {<<i>> : i \in Id} :
    /\ client.format = "openai" => results = <<>>
    /\ Say([role |-> "user", text |-> text, calls |-> <<>>, results |-> results])

ToolSays ==
  /\ client.format = "openai"
  /\ \E i \in Id : Say([role |-> "tool", text |-> <<>>, calls |-> <<>>, results |-> <<i>>])

AssistantSays ==
  \E text \in {<<>>, <<"hi">>, <<"old">>}, calls \in {<<>>} \cup {<<i>> : i \in Id} :
    Say([role |-> "assistant", text |-> text, calls |-> calls, results |-> <<>>])

\* The parts of both conversions that are the same.
Built(turns, text, results) ==
  LET history == (IF client.system THEN Priming ELSE <<>>) \o turns
      active == currentToolResultsMatchLastAssistant(history, results)
  IN truncatePayloadToLimit(
       [history |-> sanitizeKiroHistory(history, active),
        text |-> IF text # <<>> THEN text
                 ELSE IF results # <<>> THEN Continuation(results) ELSE <<".">>,
        results |-> IF active THEN results ELSE <<>>])

Current == IF Last(conv).role = "user" THEN Last(conv) ELSE User(<<>>, <<>>)

ClaudeToKiro ==
  /\ client.format = "claude"
  /\ sendPc = "compose" /\ conv # <<>>
  /\ payload' = Built(ClaudeHistory, Current.text, Current.results)
  /\ sendPc' = "sent"
  /\ UNCHANGED <<client, conv>>

OpenAIToKiro ==
  /\ client.format = "openai"
  /\ sendPc = "compose" /\ conv # <<>>
  /\ payload' = Built(OpenAIHistory.turns, Current.text, OpenAIHistory.pend)
  /\ sendPc' = "sent"
  /\ UNCHANGED <<client, conv>>

\* Kiro answers 400: the payload is made smaller and sent once more.
TooLong ==
  /\ sendPc = "sent"
  /\ Size(payload) > HardLimit
  /\ payload' = shrinkPayloadToHardLimit(payload)
  /\ sendPc' = "again"
  /\ UNCHANGED <<client, conv>>

TranslatorNext ==
  UserSays \/ ToolSays \/ AssistantSays \/ ClaudeToKiro \/ OpenAIToKiro \/ TooLong

TranslatorSpec == TranslatorInit /\ [][TranslatorNext]_translatorVars

-----------------------------------------------------------------------------
(* Properties.                                                             *)

Alternates ==
  /\ conv[1].role # "assistant"
  /\ \A i \in 2..Len(conv) : conv[i].role = "assistant" => conv[i - 1].role # "assistant"

\* Kiro accepts the payload: the history begins with the user, and no turn of
\* the assistant in it is empty or tells of calls as text; calls with structure
\* stand only in the last turn, and the current message answers them; results
\* with structure answer such a turn.  The last is lost when the payload is made
\* smaller after a refusal, or if the conversation begins with the assistant or
\* has it speak twice in a row.
KiroAccepts ==
  LET h == payload.history IN
  /\ h # <<>> => h[1].role = "user"
  /\ \A i \in DOMAIN h :
       ~Hollow(h[i]) /\ (h[i].role = "assistant" => "old" \notin ToSet(h[i].text))
  /\ \A i \in DOMAIN h :
       h[i].calls # <<>> =>
         i = Len(h) /\ ToSet(h[i].calls) \subseteq ToSet(payload.results)
  /\ sendPc = "sent" /\ payload.results # <<>> /\ Alternates =>
       h # <<>> /\ Last(h).calls # <<>>

Uncut ==
  /\ Size(payload) < client.limit
  /\ Current.text = <<>> => Len(payload.text) < MaxTold
  /\ \A i \in DOMAIN payload.history : {"cut", "note"} \cap ToSet(payload.history[i].text) = {}

Results(messages) == UNION {ToSet(messages[i].results) : i \in DOMAIN messages}
Orphaned == Current.text # <<>> /\ payload.results = <<>>

\* What a tool answered reaches Kiro, as text or with structure, unless the
\* payload had to be cut.  Not so for results of a message with text that answer
\* no call of the last turn.
ResultsReachKiro ==
  sendPc = "sent" /\ Uncut =>
    Results(conv) \ (IF Orphaned THEN ToSet(Current.results) ELSE {})
      \subseteq ToSet(payload.text) \cup ToSet(payload.results)
                  \cup UNION {ToSet(payload.history[i].text) : i \in DOMAIN payload.history}

\* What is sent fits the budget, if anything can be done: else all that is left
\* is at its smallest.
FitsTheModel ==
  sendPc # "compose" /\ Size(payload) > client.limit =>
    /\ Len(payload.text) = 1
    /\ \A i \in DOMAIN payload.history : Len(payload.history[i].text) <= MinField + 1

=============================================================================
