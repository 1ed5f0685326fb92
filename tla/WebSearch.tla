------------------------------ MODULE WebSearch ------------------------------
(***************************************************************************)
(* A Claude request with the server-side search tool: alone, when the      *)
(* program searches and answers itself, or beside other tools, when it     *)
(* calls Kiro round after round, does the searches the model asks for and  *)
(* gives their results back to it, up to a budget.                         *)
(*                                                                         *)
(* A round's answer is buffered; its text and the results are not modelled *)
(* beyond whether they are there.                                          *)
(***************************************************************************)
EXTENDS Naturals, Sequences, SequencesExt, FiniteSets

CONSTANTS
  MaxUses,               \* values of max_uses a client may send
  maxWebSearchRounds,    \* the program's limit
  MaxUse                 \* bound: tools the model asks for in one round

ASSUME WebSearchAssumption == MaxUses \subseteq Nat /\ maxWebSearchRounds \in Nat \ {0}

VARIABLES
  query,        \* the request: whether it has other tools, and its max_uses
  phase,        \* where the handler is
  round,        \* roundIdx
  uses,         \* tools the model asked for in this round: search, or a client's
  text,         \* this round has text
  full,         \* this round filled the context window of the model
  found,        \* outcome of the uses searched so far
  searches,     \* searchCount
  fed,          \* rounds given back to the model: its uses and their results
  shown,        \* blocks for the client
  swaps,        \* accounts given up by the call that runs
  bill,         \* [calls: upstream calls that answered, key: times the key was charged]
  reply         \* what the client got

searchVars == <<query, phase, round, uses, text, full, found, searches, fed, shown, swaps, bill, reply>>

Use == {"search", "client"}
MaxSwap == 3

WebSearchTypeOK ==
  /\ query \in [mixed: BOOLEAN, max: MaxUses]
  /\ phase \in {"pure", "call", "search", "flush", "done"}
  /\ round \in 0..maxWebSearchRounds + 1
  /\ uses \in BoundedSeq(Use, MaxUse) /\ text \in BOOLEAN /\ full \in BOOLEAN
  /\ found \in Seq({"results", "skipped", "none"})
  /\ searches \in Nat
  /\ fed \in Seq([uses: Seq(Use), results: Seq({"results"})])
  /\ shown \in Seq({"results", "empty", "text", "tool_use"})
  /\ swaps \in 0..MaxSwap
  /\ bill \in [calls: Nat, key: 0..1]
  /\ reply \in {"none", "tool_use", "end_turn", "window_exceeded", "error", "bad request"}

WebSearchInit ==
  /\ query \in [mixed: BOOLEAN, max: MaxUses]
  /\ phase = IF query.mixed THEN "call" ELSE "pure"
  /\ round = 0 /\ uses = <<>> /\ text = FALSE /\ full = FALSE /\ found = <<>> /\ searches = 0
  /\ fed = <<>> /\ shown = <<>> /\ swaps = 0
  /\ bill = [calls |-> 0, key |-> 0] /\ reply = "none"

-----------------------------------------------------------------------------
resolveWebSearchMaxUses ==
  IF query.max = 0 \/ query.max > maxWebSearchRounds THEN maxWebSearchRounds ELSE query.max

countWebSearchToolUses(us) == Cardinality({i \in DOMAIN us : us[i] = "search"})

shouldSearchRound(us) ==
  us # <<>> /\ round < resolveWebSearchMaxUses /\ "client" \notin ToSet(us)

\* The two blocks of a search, its use and its results, always come together:
\* one element stands for both.
SearchBlocks(outcome) == IF outcome = "results" THEN "results" ELSE "empty"

Blocks(us, outcomes) ==
  [i \in DOMAIN us |-> IF us[i] = "search" THEN SearchBlocks(outcomes[i]) ELSE "tool_use"]

resolveFlushStopReason(us) ==
  IF full THEN "window_exceeded" ELSE IF "client" \in ToSet(us) THEN "tool_use" ELSE "end_turn"

SearchFails(how) ==
  /\ reply' = how /\ phase' = "done"
  /\ UNCHANGED <<query, round, uses, text, full, found, searches, fed, shown, swaps, bill>>

\* An account fails: at most three are tried for a call or a search.
NextAccountForSearch ==
  /\ phase \in {"pure", "call", "search", "flush"} /\ swaps < MaxSwap
  /\ swaps' = swaps + 1
  /\ UNCHANGED <<query, phase, round, uses, text, full, found, searches, fed, shown, bill, reply>>

\* No account is left.
NoAccountForSearch == phase \in {"pure", "call", "search", "flush"} /\ SearchFails("error")

-----------------------------------------------------------------------------
(* The tool alone.                                                         *)

NoQuery == phase = "pure" /\ SearchFails("bad request")

handleWebSearchRequest ==
  /\ phase = "pure" /\ swaps < MaxSwap
  /\ shown' = <<"text", SearchBlocks("results"), "text">>
  /\ searches' = 1
  /\ bill' = [bill EXCEPT !.key = @ + 1]
  /\ reply' = "end_turn" /\ phase' = "done"
  /\ UNCHANGED <<query, round, uses, text, full, found, fed, swaps>>

-----------------------------------------------------------------------------
(* The loop.                                                               *)

\* A round only of searches that fit the budget goes on; any other is the last.
callUpstreamForWebSearch ==
  /\ phase = "call" /\ swaps < MaxSwap
  /\ uses' \in BoundedSeq(Use, MaxUse) /\ text' \in BOOLEAN /\ full' \in BOOLEAN
  /\ found' = <<>> /\ swaps' = 0
  /\ bill' = [bill EXCEPT !.calls = @ + 1]
  /\ phase' = IF /\ shouldSearchRound(uses')
                 /\ searches + countWebSearchToolUses(uses') <= resolveWebSearchMaxUses
                THEN "search" ELSE "flush"
  /\ UNCHANGED <<query, round, searches, fed, shown, reply>>

performWebSearch(outcome) == found' = Append(found, outcome) /\ swaps' = 0

searchAllWebUses ==
  /\ phase = "search" /\ Len(found) < Len(uses) /\ swaps < MaxSwap
  /\ performWebSearch("results")
  /\ UNCHANGED <<query, phase, round, uses, text, full, searches, fed, shown, bill, reply>>

\* Mutant: the count of searches starts anew in each round.
AppendAndForget ==
  /\ phase = "search" /\ Len(found) = Len(uses)
  /\ searches' = Len(uses)
  /\ fed' = Append(fed, [uses |-> uses, results |-> found])
  /\ shown' = shown \o Blocks(uses, found)
  /\ round' = round + 1 /\ phase' = "call"
  /\ UNCHANGED <<query, uses, text, full, found, swaps, bill, reply>>

\* The model gets its own turn and the results, the client only the searches.
appendSearchRound ==
  /\ phase = "search" /\ Len(found) = Len(uses)
  /\ searches' = searches + Len(uses)
  /\ fed' = Append(fed, [uses |-> uses, results |-> found])
  /\ shown' = shown \o Blocks(uses, found)
  /\ round' = round + 1 /\ phase' = "call"
  /\ UNCHANGED <<query, uses, text, full, found, swaps, bill, reply>>

\* The last round: searches are done while the budget lasts.
FlushSearch ==
  /\ phase = "flush" /\ Len(found) < Len(uses)
  /\ IF uses[Len(found) + 1] = "client"
       THEN found' = Append(found, "none") /\ UNCHANGED <<searches, swaps>>
     ELSE IF searches >= resolveWebSearchMaxUses
       THEN found' = Append(found, "skipped") /\ UNCHANGED <<searches, swaps>>
       ELSE swaps < MaxSwap /\ performWebSearch("results") /\ searches' = searches + 1
  /\ UNCHANGED <<query, phase, round, uses, text, full, fed, shown, bill, reply>>

\* buildFlushContent and the rendering.
Flushed ==
  /\ phase = "flush" /\ Len(found) = Len(uses)
  /\ shown' = shown \o (IF text THEN <<"text">> ELSE <<>>) \o Blocks(uses, found)
  /\ reply' = resolveFlushStopReason(uses)
  /\ bill' = [bill EXCEPT !.key = @ + 1]
  /\ phase' = "done"
  /\ UNCHANGED <<query, round, uses, text, full, found, searches, fed, swaps>>

WebSearchNext ==
  \/ NextAccountForSearch \/ NoAccountForSearch \/ NoQuery \/ handleWebSearchRequest
  \/ callUpstreamForWebSearch \/ searchAllWebUses \/ appendSearchRound
  \/ FlushSearch \/ Flushed

WebSearchSpec == WebSearchInit /\ [][WebSearchNext]_searchVars

-----------------------------------------------------------------------------
(* Properties.                                                             *)

Served == {"tool_use", "end_turn", "window_exceeded"}
Shown(block) == Cardinality({i \in DOMAIN shown : shown[i] = block})

\* However the model mixes searches and tools over the rounds: the searches keep
\* to the budget, and the calls to one more than it, so the loop never falls out
\* of its end; a served client sees each search that was done with its results,
\* an empty result only for one the budget forbade, and stops to run its own
\* tools exactly if it got some, but for a full context window; the key is
\* charged once for that, however many calls it took, and not for an error.
SearchLoopIsExact ==
  /\ query.mixed => /\ searches <= resolveWebSearchMaxUses
                    /\ bill.calls <= resolveWebSearchMaxUses + 1
                    /\ round <= resolveWebSearchMaxUses
  /\ reply \in Served =>
       /\ Shown("results") = searches
       /\ Shown("empty") > 0 => searches = resolveWebSearchMaxUses
       /\ reply # "window_exceeded" => (reply = "tool_use" <=> Shown("tool_use") > 0)
  /\ bill.key = IF reply \in Served THEN 1 ELSE 0
=============================================================================
