----------------------------- MODULE MCRequests -----------------------------
(***************************************************************************)
(* Small instances of the parts of kiro-go that answer a request, for one  *)
(* run of TLC.  A behaviour is one of one part, the others keep a first    *)
(* state: the states of the parts add up, they do not multiply.            *)
(***************************************************************************)
EXTENDS Cascade, GrokStream, Translator, WebSearch, Responses, CacheTracker

VARIABLE part

Parts == {"cascade", "grok stream", "translator", "search", "responses", "cache"}

requestsVars == <<part, cascadeVars, grokVars, translatorVars, searchVars, respVars, cacheVars>>

RequestsInit ==
  /\ part \in Parts
  /\ CascadeInit
  /\ part # "cascade" => /\ ask = [format |-> "claude", stream |-> TRUE, model |-> "kiro"]
                         /\ share = [b \in Backend |-> 0]
  /\ GrokStreamInit
  /\ part # "grok stream" => style = [format |-> "claude", silent |-> TRUE]
  /\ TranslatorInit
  /\ part # "translator" => client.format = "claude" /\ ~client.system
  /\ WebSearchInit
  /\ part # "search" => ~query.mixed /\ query.max = 0
  /\ ResponsesInit
  /\ CacheInit

RequestsNext ==
  /\ UNCHANGED part
  /\ \/ /\ part = "cascade"     /\ CascadeNext
        /\ UNCHANGED <<grokVars, translatorVars, searchVars, respVars, cacheVars>>
     \/ /\ part = "grok stream" /\ GrokStreamNext
        /\ UNCHANGED <<cascadeVars, translatorVars, searchVars, respVars, cacheVars>>
     \/ /\ part = "translator"  /\ TranslatorNext
        /\ UNCHANGED <<cascadeVars, grokVars, searchVars, respVars, cacheVars>>
     \/ /\ part = "search"      /\ WebSearchNext
        /\ UNCHANGED <<cascadeVars, grokVars, translatorVars, respVars, cacheVars>>
     \/ /\ part = "responses"   /\ ResponsesNext
        /\ UNCHANGED <<cascadeVars, grokVars, translatorVars, searchVars, cacheVars>>
     \/ /\ part = "cache"       /\ CacheNext
        /\ UNCHANGED <<cascadeVars, grokVars, translatorVars, searchVars, respVars>>

RequestsSpec == RequestsInit /\ [][RequestsNext]_requestsVars

\* Each part's type invariant, while it moves.
RequestsTypeOK ==
  CASE part = "cascade"     -> CascadeTypeOK
    [] part = "grok stream" -> GrokStreamTypeOK
    [] part = "translator"  -> TranslatorTypeOK
    [] part = "search"      -> WebSearchTypeOK
    [] part = "responses"   -> ResponsesTypeOK
    [] part = "cache"       -> CacheTypeOK

-----------------------------------------------------------------------------
(* Values of the constants.                                                *)

MCShare   == {0, 40, 60, 100}
MCCounter == {0, 39, 40, 59, 60, 99}

MCPiece == {<<"w">>, <<"x">>, <<"y", "sp">>, <<"w", "sp", "w">>}

MCSaid == {<<>>, <<"hi", "hi", "hi", "hi">>}

System(ttl) == [value |-> "system", tokens |-> 2, ttl |-> ttl, end |-> FALSE]
Short1(ttl) == [value |-> "short", tokens |-> 1, ttl |-> ttl, end |-> TRUE]
Long3(ttl)  == [value |-> "long", tokens |-> 3, ttl |-> ttl, end |-> TRUE]
MCCachePrompt == {<<System(1), Short1(0)>>, <<System(1), Short1(0), Long3(2)>>,
                  <<System(2), Long3(0)>>, <<Short1(1)>>}
=============================================================================
