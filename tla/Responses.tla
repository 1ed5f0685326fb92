------------------------------ MODULE Responses ------------------------------
(***************************************************************************)
(* The Responses API: a response is streamed or sent whole, kept in a file *)
(* and may be continued by naming it, which puts the responses it came     *)
(* from before the new input.                                              *)
(*                                                                         *)
(* A response is named by the number of its identifier.  Upstream gives    *)
(* pieces of text and calls; a piece is named by its place in the answer.  *)
(* A text is words, white space, or a tag that begins or ends a thinking   *)
(* inside the text.                                                        *)
(***************************************************************************)
EXTENDS Naturals, Sequences, SequencesExt, FiniteSets, Selection

CONSTANTS
  Client,                      \* requests that run at the same time
  MaxResp,                     \* bound: responses
  MaxPart,                     \* bound: pieces and calls of one answer
  maxResponsesHistoryDepth,
  MaxRespMishap                \* bound: crashes, failed saves and expiries

ASSUME ResponsesAssumption == MaxResp \in Nat /\ maxResponsesHistoryDepth \in Nat

VARIABLES
  respFile,      \* what the directory has of each response
  respPrev,      \* the response each one continues, or 0
  respCount,     \* identifiers given so far
  respReq,       \* [Client -> the request it has running]
  told,          \* responses reported as completed
  unsaved,       \* those not to be stored, or whose save failed
  respMishaps    \* counts up to MaxRespMishap

respVars == <<respFile, respPrev, respCount, respReq, told, unsaved, respMishaps>>

RespId == 1..MaxResp
MaxTry == 2      \* of three accounts: the last failure ends the request

Part == {"words", "blank", "begin", "end", "call"}

Item == [kind: {"message", "call"}, deltas: Seq(1..MaxPart), done: Seq(1..MaxPart)]

IdleReq == [pc |-> "idle", id |-> 0, store |-> TRUE, stream |-> TRUE, chain |-> <<>>, parts |-> <<>>,
            items |-> <<>>, open |-> FALSE, tries |-> 0]

ResponsesTypeOK ==
  /\ respFile \in [RespId -> {"none", "tmp", "kept", "gone"}]
  /\ respPrev \in [RespId -> 0..MaxResp]
  /\ respCount \in 0..MaxResp
  /\ \A c \in Client :
       /\ respReq[c].pc \in {"idle", "load", "stream", "write", "rename", "complete"}
       /\ respReq[c].chain \in Seq(RespId)
       /\ respReq[c].parts \in Seq(Part)
       /\ respReq[c].items \in Seq(Item)
       /\ respReq[c].tries \in 0..MaxTry
  /\ told \subseteq RespId /\ unsaved \subseteq RespId
  /\ respMishaps \in 0..MaxRespMishap

ResponsesInit ==
  /\ respFile = [r \in RespId |-> "none"]
  /\ respPrev = [r \in RespId |-> 0]
  /\ respCount = 0
  /\ respReq = [c \in Client |-> IdleReq]
  /\ told = {} /\ unsaved = {} /\ respMishaps = 0

ReqAt(c, pc) == respReq[c].pc = pc
Put(c, q) == respReq' = [respReq EXCEPT ![c] = q]

-----------------------------------------------------------------------------
(* The request and its history.                                            *)

\* An unknown or expired response to continue is answered with 404.
handleOpenAIResponses(c) ==
  /\ ReqAt(c, "idle") /\ respCount < MaxResp
  /\ \E prev \in {0} \cup {r \in RespId : respFile[r] = "kept"}, store, stream \in BOOLEAN :
       /\ respPrev' = [respPrev EXCEPT ![respCount + 1] = prev]
       /\ unsaved' = IF store THEN unsaved ELSE unsaved \cup {respCount + 1}
       /\ Put(c, [IdleReq EXCEPT !.pc = "load", !.id = respCount + 1, !.store = store,
                                 !.stream = stream,
                                 !.chain = IF prev = 0 THEN <<>> ELSE <<prev>>])
  /\ respCount' = respCount + 1
  /\ UNCHANGED <<respFile, told, respMishaps>>

Older(c) == respPrev[respReq[c].chain[1]]

HasOlder(c) ==
  /\ respReq[c].chain # <<>>
  /\ Older(c) # 0 /\ respFile[Older(c)] = "kept"
  /\ Len(respReq[c].chain) <= maxResponsesHistoryDepth

\* Mutant: the responses are left in the order they were read in.
AppendAncestor(c) ==
  /\ ReqAt(c, "load")
  /\ respReq[c].chain # <<>>
  /\ Len(respReq[c].chain) <= maxResponsesHistoryDepth
  /\ respPrev[respReq[c].chain[Len(respReq[c].chain)]] # 0
  /\ Put(c, [respReq[c] EXCEPT !.chain = Append(@, respPrev[@[Len(@)]])])
  /\ UNCHANGED <<respFile, respPrev, respCount, told, unsaved, respMishaps>>

\* collectAncestorChain: one file after the other, oldest first in the end.
LoadAncestor(c) ==
  /\ ReqAt(c, "load") /\ HasOlder(c)
  /\ Put(c, [respReq[c] EXCEPT !.chain = <<Older(c)>> \o @])
  /\ UNCHANGED <<respFile, respPrev, respCount, told, unsaved, respMishaps>>

AskKiro(c) ==
  /\ ReqAt(c, "load") /\ ~HasOlder(c)
  /\ Put(c, [respReq[c] EXCEPT !.pc = "stream"])
  /\ UNCHANGED <<respFile, respPrev, respCount, told, unsaved, respMishaps>>

-----------------------------------------------------------------------------
(* handleResponsesStream.                                                  *)

\* The texts and the calls among the pieces, by their places.
Places(parts) == [i \in DOMAIN parts |-> i]
TextAt(parts) == {i \in DOMAIN parts : parts[i] # "call"}
Texts(parts) == Select(Places(parts), TextAt(parts))
CallsOf(parts) == Select(Places(parts), {i \in DOMAIN parts : parts[i] = "call"})

\* extractThinkingFromContent takes out what is between a tag that begins a
\* thinking and the next that ends one, tags included, and the white space
\* around what is left.
InThinking(parts, i) ==
  \E b \in 1..i, e \in i..Len(parts) :
    parts[b] = "begin" /\ parts[e] = "end" /\ \A k \in b..i - 1 : parts[k] # "end"
Answered(parts) ==
  LET spoken == {i \in TextAt(parts) : ~InThinking(parts, i)}
      solid  == {i \in spoken : parts[i] # "blank"}
  IN  {i \in spoken : \E a, b \in solid : a <= i /\ i <= b}
FinalContent(parts) == Select(Places(parts), Answered(parts))

FullText(c) == Texts(respReq[c].parts)

NewItem(kind) == [kind |-> kind, deltas |-> <<>>, done |-> <<>>]
LastDelta(items, i) == [items EXCEPT ![Len(items)].deltas = Append(@, i)]
LastDone(items, full) == [items EXCEPT ![Len(items)].done = full]

Receives(c) == ReqAt(c, "stream") /\ Len(respReq[c].parts) < MaxPart
More(c) == Receives(c) /\ respReq[c].stream
NextPart(c) == Len(respReq[c].parts) + 1

\* handleResponsesNonStream only collects; what its texts are makes no difference.
Collect(c) ==
  /\ Receives(c) /\ ~respReq[c].stream
  /\ \E kind \in {"words", "call"} : Put(c, [respReq[c] EXCEPT !.parts = Append(@, kind)])
  /\ UNCHANGED <<respFile, respPrev, respCount, told, unsaved, respMishaps>>

\* The first piece after the start or a call opens a message.
OnResponseText(c) ==
  /\ More(c)
  /\ LET items == IF respReq[c].open THEN respReq[c].items
                  ELSE Append(respReq[c].items, NewItem("message")) IN
     \E kind \in Part \ {"call"} :
       Put(c, [respReq[c] EXCEPT !.parts = Append(@, kind), !.open = TRUE,
                                 !.items = LastDelta(items, NextPart(c))])
  /\ UNCHANGED <<respFile, respPrev, respCount, told, unsaved, respMishaps>>

\* Mutant: the message that is open is not closed.
OnCallUnclosed(c) ==
  /\ More(c)
  /\ Put(c, [respReq[c] EXCEPT !.parts = Append(@, "call"), !.open = FALSE,
                               !.items = Append(@, LastDelta(<<NewItem("call")>>, NextPart(c))[1])])
  /\ UNCHANGED <<respFile, respPrev, respCount, told, unsaved, respMishaps>>

\* A call closes the open message, with all the text there was so far, as it came.
OnResponseCall(c) ==
  /\ More(c)
  /\ LET items == IF respReq[c].open THEN LastDone(respReq[c].items, FullText(c))
                  ELSE respReq[c].items IN
     Put(c, [respReq[c] EXCEPT !.parts = Append(@, "call"), !.open = FALSE,
                               !.items = Append(items, LastDelta(<<NewItem("call")>>, NextPart(c))[1])])
  /\ UNCHANGED <<respFile, respPrev, respCount, told, unsaved, respMishaps>>

\* Mutant: the attempts are not counted against their limit.
FailsWithoutEnd(c) ==
  /\ ReqAt(c, "stream")
  /\ IF respReq[c].items = <<>>
       THEN Put(c, [respReq[c] EXCEPT !.tries = @ + 1, !.parts = <<>>])
       ELSE Put(c, IdleReq)
  /\ UNCHANGED <<respFile, respPrev, respCount, told, unsaved, respMishaps>>

\* An account that fails before anything was sent is left for another one.
ResponseFails(c) ==
  /\ ReqAt(c, "stream")
  /\ IF respReq[c].items = <<>> /\ respReq[c].tries < MaxTry
       THEN Put(c, [respReq[c] EXCEPT !.tries = @ + 1, !.parts = <<>>])
       ELSE Put(c, IdleReq)
  /\ UNCHANGED <<respFile, respPrev, respCount, told, unsaved, respMishaps>>

\* The message that is still open is closed without its thinking.
StreamEnds(c) ==
  /\ ReqAt(c, "stream")
  /\ Put(c, [respReq[c] EXCEPT !.pc = IF respReq[c].store THEN "write" ELSE "complete",
               !.items = IF respReq[c].open THEN LastDone(@, FinalContent(respReq[c].parts)) ELSE @,
               !.chain = <<>>, !.tries = 0])
  /\ UNCHANGED <<respFile, respPrev, respCount, told, unsaved, respMishaps>>

\* buildResponsesObject: one message with all the text, unless calls came and it
\* is empty, then the calls.
ObjectCalls(parts) ==
  [j \in DOMAIN CallsOf(parts) |-> [kind |-> "call", text |-> <<CallsOf(parts)[j]>>]]
Object(parts) ==
  (IF FinalContent(parts) # <<>> \/ CallsOf(parts) = <<>>
     THEN <<[kind |-> "message", text |-> FinalContent(parts)]>> ELSE <<>>) \o ObjectCalls(parts)

-----------------------------------------------------------------------------
(* saveResponse, and what happens to files.                                *)

WriteTmp(c) ==
  /\ ReqAt(c, "write")
  /\ respFile' = [respFile EXCEPT ![respReq[c].id] = "tmp"]
  /\ Put(c, [respReq[c] EXCEPT !.pc = "rename"])
  /\ UNCHANGED <<respPrev, respCount, told, unsaved, respMishaps>>

RenameTmp(c) ==
  /\ ReqAt(c, "rename")
  /\ respFile' = [respFile EXCEPT ![respReq[c].id] = "kept"]
  /\ Put(c, [respReq[c] EXCEPT !.pc = "complete"])
  /\ UNCHANGED <<respPrev, respCount, told, unsaved, respMishaps>>

\* A failure to save is only logged.
SaveFails(c) ==
  /\ respReq[c].pc \in {"write", "rename"} /\ respMishaps < MaxRespMishap
  /\ respMishaps' = respMishaps + 1
  /\ respFile' = [respFile EXCEPT ![respReq[c].id] = "none"]
  /\ unsaved' = unsaved \cup {respReq[c].id}
  /\ Put(c, [respReq[c] EXCEPT !.pc = "complete"])
  /\ UNCHANGED <<respPrev, respCount, told>>

Complete(c) ==
  /\ ReqAt(c, "complete")
  /\ told' = told \cup {respReq[c].id}
  /\ Put(c, IdleReq)
  /\ UNCHANGED <<respFile, respPrev, respCount, unsaved, respMishaps>>

\* Thirty days are over: the file is removed when it is read next.
ResponseExpires(r) ==
  /\ respFile[r] = "kept" /\ respMishaps < MaxRespMishap
  /\ respMishaps' = respMishaps + 1
  /\ respFile' = [respFile EXCEPT ![r] = "gone"]
  /\ UNCHANGED <<respPrev, respCount, respReq, told, unsaved>>

ResponsesCrash ==
  /\ respMishaps < MaxRespMishap
  /\ respMishaps' = respMishaps + 1
  /\ respReq' = [c \in Client |-> IdleReq]
  /\ UNCHANGED <<respFile, respPrev, respCount, told, unsaved>>

ResponsesNext ==
  \/ \E c \in Client :
       \/ handleOpenAIResponses(c) \/ LoadAncestor(c) \/ AskKiro(c)
       \/ OnResponseText(c) \/ OnResponseCall(c) \/ Collect(c) \/ ResponseFails(c) \/ StreamEnds(c)
       \/ WriteTmp(c) \/ RenameTmp(c) \/ SaveFails(c) \/ Complete(c)
  \/ (\E r \in RespId : ResponseExpires(r)) \/ ResponsesCrash

ResponsesSpec == ResponsesInit /\ [][ResponsesNext]_respVars

-----------------------------------------------------------------------------
(* Properties.                                                             *)

\* A response that was reported as completed can be continued until it expires,
\* also after a crash, unless it was not to be stored or could not be.  The
\* history the model is given then ends with that response, has no gaps, and
\* stops early only where a file is missing or the chain is too long.
HistoryIsWhole ==
  /\ \A r \in told \ unsaved : respFile[r] \in {"kept", "gone"}
  /\ \A c \in Client : ReqAt(c, "stream") =>
       LET q == respReq[c]
           n == Len(q.chain) IN
       /\ n > 0 => q.chain[n] = respPrev[q.id]
       /\ \A i \in 1..n - 1 : respPrev[q.chain[i + 1]] = q.chain[i]
       /\ ~HasOlder(c)

\* What the items that were streamed say, and the calls among them.
Streamed(items) ==
  [i \in DOMAIN items |->
     [kind |-> items[i].kind,
      text |-> IF items[i].kind = "call" THEN items[i].deltas ELSE items[i].done]]
CallsAmong(s) == Select(s, {i \in DOMAIN s : s[i].kind = "call"})
TextAfterCall(parts) ==
  \E i, j \in DOMAIN parts : i < j /\ parts[i] = "call" /\ parts[j] # "call"

\* Every piece of a streamed answer was sent once and in order, its calls are the
\* calls of the response that is reported and stored, and a message that no call
\* closed says the response's text.  Item by item the two are the same unless text
\* followed a call, where the object moves it in front of the call and the second
\* message repeats the first, or a call closed a message that has a thinking or
\* white space around it, which the message keeps and the object does not have.
StreamIsTheObject ==
  \A c \in Client : ReqAt(c, "complete") /\ respReq[c].items # <<>> =>
    LET parts == respReq[c].parts
        items == respReq[c].items
        last  == items[Len(items)] IN
    /\ FlattenSeq([i \in DOMAIN items |-> items[i].deltas]) = Places(parts)
    /\ CallsAmong(Streamed(items)) = ObjectCalls(parts)
    /\ last.kind = "message" => last.done = FinalContent(parts)
    /\ ~TextAfterCall(parts) /\ (CallsOf(parts) = <<>> \/ FinalContent(parts) = Texts(parts))
         => Streamed(items) = Object(parts)
=============================================================================
