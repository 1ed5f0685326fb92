---------------------------- MODULE CacheTracker ----------------------------
(***************************************************************************)
(* What kiro-go reports as read from and written to the prompt cache: no   *)
(* cache is there, the tracker works out what one would have done.         *)
(*                                                                         *)
(* A prompt is a sequence of blocks, a prefix of it is its own             *)
(* fingerprint.  A lifetime is Brief or Lasting, five minutes or an hour.  *)
(***************************************************************************)
EXTENDS Naturals, Sequences, FiniteSets, FiniteSetsExt

CONSTANTS
  CacheAccount,
  Asking,            \* requests that run at the same time
  CachePrompt,       \* sequences of [value, tokens, ttl: 0 if not cached, end: of a message]
  Extra,             \* how much the estimate of the whole prompt is above its blocks
  MinCacheable,      \* the least prefix that is cached
  Brief, Lasting,    \* lifetimes
  MaxHour            \* bound: time

ASSUME CacheAssumption ==
  /\ \A prompt \in CachePrompt :
       /\ Len(prompt) \in Nat /\ DOMAIN prompt = 1..Len(prompt)
       /\ \A i \in DOMAIN prompt : prompt[i].tokens \in Nat /\ prompt[i].ttl \in Nat
  /\ Extra \subseteq Nat /\ MinCacheable \in Nat /\ MaxHour \in Nat
  /\ Brief \in Nat \ {0} /\ Lasting \in Nat /\ Brief < Lasting

VARIABLES
  clock,
  entriesByAccount,  \* [acct, prefix, expires, ttl] of the tracker
  asking,            \* [Asking -> its account, prompt and estimate, and what is reported]
  lives              \* history: [acct, prefix, until] of the prefixes that were stored

cacheVars == <<clock, entriesByAccount, asking, lives>>

NoPrompt == [pc |-> "idle", acct |-> CHOOSE a \in CacheAccount : TRUE, prompt |-> <<>>,
             total |-> 0, alive |-> TRUE, read |-> 0, written |-> 0, brief |-> 0, lasting |-> 0]

CacheTypeOK ==
  /\ clock \in 0..MaxHour
  /\ \A e \in entriesByAccount : e.acct \in CacheAccount /\ e.ttl \in {Brief, Lasting}
  /\ \A q \in Asking : asking[q].pc \in {"idle", "asked"} /\ asking[q].prompt \in CachePrompt \cup {<<>>}
  /\ \A x \in lives : x.until \in 0..MaxHour + Lasting

CacheInit ==
  /\ clock = 0 /\ entriesByAccount = {} /\ lives = {}
  /\ asking = [q \in Asking |-> NoPrompt]

-----------------------------------------------------------------------------
(* The profile of a prompt.                                                *)

\* extractPromptCacheTTL, normalizePromptCacheTTL.
Lifetime(ttl) == IF ttl = 0 THEN 0 ELSE IF ttl > Brief THEN Lasting ELSE Brief

Cumulative(prompt, i) ==
  LET sum[n \in 0..Len(prompt)] == IF n = 0 THEN 0 ELSE sum[n - 1] + prompt[n].tokens
  IN  sum[i]
Prefix(prompt, i) == [j \in 1..i |-> prompt[j].value]

\* The lifetime of the last block that asked for one.
Active(prompt, i) ==
  LET marked == {j \in 1..i : prompt[j].ttl > 0} IN
  IF marked = {} THEN 0 ELSE Lifetime(prompt[Max(marked)].ttl)

\* After the first block that asks for it, each end of a message is a breakpoint.
Breakpoints(prompt) ==
  {i \in DOMAIN prompt : prompt[i].ttl > 0 \/ (prompt[i].end /\ Active(prompt, i) > 0)}

Cacheable(prompt) == {i \in Breakpoints(prompt) : Cumulative(prompt, i) >= MinCacheable}

-----------------------------------------------------------------------------
Pruned == {e \in entriesByAccount : e.expires > clock}

\* Mutant: entries whose time is over count as well.
Unpruned == entriesByAccount

\* pruneExpiredLocked, with which Compute and Update begin.
Alive == Pruned

Entry(acct, prompt, i, ttl) ==
  [acct |-> acct, prefix |-> Prefix(prompt, i), expires |-> clock + ttl, ttl |-> ttl]
Without(acct, prefixes) == {e \in Alive : ~(e.acct = acct /\ e.prefix \in prefixes)}

\* A prefix lives for the time it was stored with, and a use prolongs only a life.
Until(acct, prefix) ==
  Max({0} \cup {x.until : x \in {l \in lives : l.acct = acct /\ l.prefix = prefix}})
Prolonged(acct, until) ==
  {x \in lives : ~(x.acct = acct /\ x.prefix \in DOMAIN until)} \cup
  {[acct |-> acct, prefix |-> p, until |-> Max({until[p], Until(acct, p)})] : p \in DOMAIN until}

\* What of the prompt is written, by lifetime: each stretch has that of the
\* breakpoint it ends at.  Neither the threshold nor the cap is applied.
Stretch(prompt, sofar, i) ==
  LET upto == Cumulative(prompt, i)
      more == upto - sofar.previous IN
  IF i \notin Breakpoints(prompt) \/ upto <= sofar.previous THEN sofar
  ELSE IF Active(prompt, i) = Lasting
    THEN [previous |-> upto, brief |-> sofar.brief, lasting |-> sofar.lasting + more]
  ELSE [previous |-> upto, brief |-> sofar.brief + more, lasting |-> sofar.lasting]

Breakdown(prompt, matched) ==
  LET sofar[n \in 0..Len(prompt)] ==
        IF n = 0 THEN [previous |-> matched, brief |-> 0, lasting |-> 0]
        ELSE Stretch(prompt, sofar[n - 1], n)
  IN  sofar[Len(prompt)]

\* What is reported of a prompt.
Report(acct, prompt, total, read, written, alive) ==
  LET parts == Breakdown(prompt, read) IN
  [pc |-> "asked", acct |-> acct, prompt |-> prompt, total |-> total, alive |-> alive,
   read |-> read, written |-> written, brief |-> parts.brief, lasting |-> parts.lasting]

\* The longest prefix that is stored is read, and lives on; the rest up to the
\* last breakpoint is written.  Only the first prompt of an account may be
\* cached as a whole, later ones up to 85 percent.
Compute(q, acct, prompt, total) ==
  LET last == Cumulative(prompt, Max(Breakpoints(prompt)))
      cap == Min({last, (total * 85) \div 100})
      mine == {e \in Alive : e.acct = acct}
      hits == {i \in Cacheable(prompt) : \E e \in mine : e.prefix = Prefix(prompt, i)}
      Reported(read, written, alive) ==
        asking' = [asking EXCEPT ![q] = Report(acct, prompt, total, read, written, alive)] IN
  IF mine = {}
    THEN /\ Reported(0, IF last < MinCacheable THEN 0 ELSE last, TRUE)
         /\ entriesByAccount' = Alive /\ UNCHANGED lives
  ELSE IF hits = {}
    THEN /\ Reported(0, cap, TRUE)
         /\ entriesByAccount' = Alive /\ UNCHANGED lives
  ELSE LET i == Max(hits)
           e == CHOOSE x \in mine : x.prefix = Prefix(prompt, i)
           matched == Min({Cumulative(prompt, i), cap})
           alive == clock < Until(acct, e.prefix) IN
       /\ Reported(matched, cap - matched, alive)
       /\ entriesByAccount' = Without(acct, {e.prefix}) \cup {Entry(acct, prompt, i, e.ttl)}
       /\ lives' = IF alive THEN Prolonged(acct, [p \in {e.prefix} |-> clock + e.ttl]) ELSE lives

BuildClaudeProfile(q) ==
  /\ asking[q].pc = "idle"
  /\ \E acct \in CacheAccount, prompt \in CachePrompt, extra \in Extra :
       /\ Breakpoints(prompt) # {}
       /\ Compute(q, acct, prompt, Cumulative(prompt, Len(prompt)) + extra)
  /\ UNCHANGED clock

\* Update: the answer is complete.  A shorter lifetime replaces a longer one.
Update(q) ==
  /\ asking[q].pc = "asked"
  /\ LET acct == asking[q].acct
         prompt == asking[q].prompt
         new == Cacheable(prompt) IN
     /\ entriesByAccount' = Without(acct, {Prefix(prompt, i) : i \in new})
                     \cup {Entry(acct, prompt, i, Active(prompt, i)) : i \in new}
     /\ lives' = Prolonged(acct, [p \in {Prefix(prompt, i) : i \in new} |->
                                        clock + Active(prompt, Len(p))])
  /\ asking' = [asking EXCEPT ![q] = NoPrompt]
  /\ UNCHANGED clock

AskingFails(q) ==
  /\ asking[q].pc = "asked"
  /\ asking' = [asking EXCEPT ![q] = NoPrompt]
  /\ UNCHANGED <<clock, entriesByAccount, lives>>

HourPasses ==
  /\ clock < MaxHour
  /\ clock' = clock + 1
  /\ UNCHANGED <<entriesByAccount, asking, lives>>

CacheNext ==
  \/ \E q \in Asking : BuildClaudeProfile(q) \/ Update(q) \/ AskingFails(q)
  \/ HourPasses

CacheSpec == CacheInit /\ [][CacheNext]_cacheVars

-----------------------------------------------------------------------------
(* Properties.                                                             *)

\* What is reported of a prompt adds up: read and written are parts of it, so
\* none is billed twice, and the parts by lifetime make up what is written but
\* where the code leaves the threshold and the 85 percent out of them.  What is
\* reported as read was there: the prefix had been stored for that account by
\* an answered request, and used again within its lifetime ever since.
UsageIsPlausible ==
  /\ \A q \in Asking : asking[q].pc = "asked" =>
       LET a == asking[q]
           last == Cumulative(a.prompt, Max(Breakpoints(a.prompt))) IN
       /\ a.read + a.written <= a.total
       /\ a.brief + a.lasting >= a.written
       /\ a.brief + a.lasting = a.written
            \/ last < MinCacheable \/ last > (a.total * 85) \div 100
       /\ a.alive /\ (a.read > 0 => \E i \in Cacheable(a.prompt) : a.read <= Cumulative(a.prompt, i))
  /\ \A e \in entriesByAccount : e.expires <= Until(e.acct, e.prefix)
=============================================================================
