---------------------------- MODULE TokenRefresh ----------------------------
(***************************************************************************)
(* The token of one Kiro account: who renews it, and where it is written.  *)
(*                                                                         *)
(* A token has an access and a refresh generation, the numbers of the      *)
(* renewals they come from.  A provider may rotate refresh tokens: then a  *)
(* renewal uses up the one it was asked with, or else the refresh token    *)
(* stays the same.  The configuration (and its file) and the pool have a   *)
(* copy each; requests renew under tokenRefreshMu and start from the       *)
(* pool's copy, the background refresh and the admin's pages start from    *)
(* the configuration's and take no lock.                                   *)
(***************************************************************************)
EXTENDS Integers, FiniteSets

CONSTANTS
  Asker,         \* requests, in ensureValidToken
  Renewer,       \* background refreshes and refreshes of the admin
  Clerk,         \* pages that write a whole account they read before
  MaxIssue       \* bound: renewals, crashes and answers that are lost

NoOne == "none"

ASSUME TokenAssumption ==
  /\ Asker \cap Renewer = {} /\ Asker \cap Clerk = {} /\ Renewer \cap Clerk = {}
  /\ NoOne \notin Asker
  /\ MaxIssue \in Nat

VARIABLES
  provider,      \* [rotates, issued, live: the refresh tokens it accepts]
  due,           \* access tokens up to this one are about to expire
  stored,        \* the configuration: the token and whether the account is enabled
  pooled,        \* the pool's copy of it
  mutex,         \* who has tokenRefreshMu
  task,          \* [process -> where it is, and its copy of the account]
  mishaps,       \* crashes and lost answers so far
  raced,         \* history: somebody else wrote or renewed during a renewal
  burnt,         \* history: a healthy account was refused
  stale          \* history: a copy read before a renewal was written after it

tokenVars == <<provider, due, stored, pooled, mutex, task, mishaps, raced, burnt, stale>>

Worker == Asker \cup Renewer \cup Clerk
Rec == [access: 0..MaxIssue, refresh: 0..MaxIssue, on: BOOLEAN]
First == [access |-> 0, refresh |-> 0, on |-> TRUE]
Resting == [pc |-> "idle", acc |-> First]

TokenTypeOK ==
  /\ provider \in [rotates: BOOLEAN, issued: 0..MaxIssue, live: SUBSET (0..MaxIssue)]
  /\ due \in -1..MaxIssue
  /\ stored \in Rec /\ pooled \in Rec
  /\ mutex \in Asker \cup {NoOne}
  /\ task \in [Worker -> [pc: {"idle", "check", "ask", "write", "store", "refused",
                               "disable", "reload", "edit"}, acc: Rec]]
  /\ mishaps \in 0..MaxIssue
  /\ <<raced, burnt, stale>> \in BOOLEAN \X BOOLEAN \X BOOLEAN

TokenInit ==
  /\ provider \in [rotates: BOOLEAN, issued: {0}, live: {{0}}]
  /\ due = -1
  /\ stored = First /\ pooled = First
  /\ mutex = NoOne
  /\ task = [w \in Worker |-> Resting]
  /\ mishaps = 0 /\ raced = FALSE /\ burnt = FALSE /\ stale = FALSE

TaskAt(w, pc) == task[w].pc = pc
TaskGoes(w, pc, acc) == task' = [task EXCEPT ![w] = [pc |-> pc, acc |-> acc]]
TaskEnds(w) == task' = [task EXCEPT ![w] = Resting]

Tokens(old, acc) == [acc EXCEPT !.on = old.on]

\* Between a renewal and its last write.
Unwritten(w) == task[w].pc \in {"write", "store"}

\* w starts while somebody else is at work; two requests do not count.
Meets(w) ==
  raced' = (raced \/ \E v \in Worker \ {w} : ~TaskAt(v, "idle") /\ ~({v, w} \subseteq Asker))

Expire ==
  /\ due < provider.issued
  /\ due' = provider.issued
  /\ UNCHANGED <<provider, stored, pooled, mutex, task, mishaps, raced, burnt, stale>>

-----------------------------------------------------------------------------
(* Requests.                                                               *)

\* GetNext: the request works on a copy of the pool's account.  A token that is
\* not about to expire is used as it is.
TakeAccount(w) ==
  /\ w \in Asker /\ TaskAt(w, "idle")
  /\ pooled.on /\ pooled.access <= due
  /\ TaskGoes(w, "check", pooled)
  /\ Meets(w)
  /\ UNCHANGED <<provider, due, stored, pooled, mutex, mishaps, burnt, stale>>

\* With the lock, the pool is read once more: another request may have renewed
\* the token.  A pool without the account leaves the request its own copy.
LockAndRead(w) ==
  /\ w \in Asker /\ TaskAt(w, "check")
  /\ mutex = NoOne
  /\ IF pooled.on /\ pooled.access > due THEN TaskEnds(w) /\ UNCHANGED mutex
     ELSE /\ mutex' = w
          /\ TaskGoes(w, "ask", IF pooled.on THEN pooled ELSE task[w].acc)
  /\ UNCHANGED <<provider, due, stored, pooled, mishaps, raced, burnt, stale>>

-----------------------------------------------------------------------------
(* refreshAllAccounts, apiRefreshAccount and the batch refresh.            *)

\* The batch refresh renews a token that is not due, too.
BeginRenewal(w) ==
  /\ w \in Renewer /\ TaskAt(w, "idle")
  /\ stored.on
  /\ TaskGoes(w, "ask", stored)
  /\ Meets(w)
  /\ UNCHANGED <<provider, due, stored, pooled, mutex, mishaps, burnt, stale>>

-----------------------------------------------------------------------------
(* The renewal, external, and the writes that follow it.                   *)

Renewed(acc) ==
  [acc EXCEPT !.access = provider.issued + 1,
              !.refresh = IF provider.rotates THEN provider.issued + 1 ELSE @]

Within == provider.issued + mishaps < MaxIssue

Issue(acc) ==
  /\ Within
  /\ acc.refresh \in provider.live
  /\ provider' = [provider EXCEPT !.issued = @ + 1,
                                  !.live = IF provider.rotates THEN {provider.issued + 1} ELSE @]

RefreshToken(w) ==
  /\ TaskAt(w, "ask")
  /\ Issue(task[w].acc)
  /\ TaskGoes(w, "write", Renewed(task[w].acc))
  /\ UNCHANGED <<due, stored, pooled, mutex, mishaps, raced, burnt, stale>>

\* The provider renewed the token, and the answer is lost.
AnswerLost(w) ==
  /\ TaskAt(w, "ask")
  /\ mishaps' = mishaps + 1
  /\ Issue(task[w].acc)
  /\ mutex' = IF mutex = w THEN NoOne ELSE mutex
  /\ TaskEnds(w)
  /\ UNCHANGED <<due, stored, pooled, raced, burnt, stale>>

\* The provider does not know the refresh token, or cannot be reached.  A
\* refusal bans the account: isAuthErrorMessage.
RefreshFails(w) ==
  /\ TaskAt(w, "ask")
  /\ mutex' = IF mutex = w THEN NoOne ELSE mutex
  /\ IF task[w].acc.refresh \in provider.live THEN TaskEnds(w) /\ UNCHANGED burnt
     ELSE /\ burnt' = TRUE
          /\ TaskGoes(w, IF w \in Asker THEN "disable" ELSE "refused", task[w].acc)
  /\ UNCHANGED <<provider, due, stored, pooled, mishaps, raced, stale>>

\* The admin's page only shows the error; the background refresh bans.
RenewalRefused(w) ==
  /\ TaskAt(w, "refused")
  /\ TaskEnds(w) \/ TaskGoes(w, "disable", task[w].acc)
  /\ UNCHANGED <<provider, due, stored, pooled, mutex, mishaps, raced, burnt, stale>>

\* UpdateToken: the pool has enabled accounts only.
Pooled(acc) == pooled' = IF pooled.on THEN Tokens(pooled, acc) ELSE pooled

\* The pool first for requests, the configuration first for the others.
FirstWrite(w) ==
  /\ TaskAt(w, "write")
  /\ IF w \in Asker THEN Pooled(task[w].acc) /\ UNCHANGED stored
                    ELSE stored' = Tokens(stored, task[w].acc) /\ UNCHANGED pooled
  /\ TaskGoes(w, "store", task[w].acc)
  /\ UNCHANGED <<provider, due, mutex, mishaps, raced, burnt, stale>>

\* Mutant: a rotated refresh token does not reach the configuration.
StoreAccessOnly(w) ==
  /\ TaskAt(w, "store")
  /\ IF w \in Asker THEN stored' = [stored EXCEPT !.access = task[w].acc.access] /\ UNCHANGED pooled
                    ELSE Pooled(task[w].acc) /\ UNCHANGED stored
  /\ mutex' = IF mutex = w THEN NoOne ELSE mutex
  /\ TaskEnds(w)
  /\ UNCHANGED <<provider, due, mishaps, raced, burnt, stale>>

SecondWrite(w) ==
  /\ TaskAt(w, "store")
  /\ IF w \in Asker THEN stored' = Tokens(stored, task[w].acc) /\ UNCHANGED pooled
                    ELSE Pooled(task[w].acc) /\ UNCHANGED stored
  /\ mutex' = IF mutex = w THEN NoOne ELSE mutex
  /\ IF w \in Asker THEN TaskEnds(w)
     ELSE TaskEnds(w) \/ TaskGoes(w, "reload", task[w].acc)
  /\ UNCHANGED <<provider, due, mishaps, raced, burnt, stale>>

-----------------------------------------------------------------------------
(* Whole accounts: disableAccount, apiUpdateAccount, the batch enable.     *)

\* The account is written as this worker knows it, tokens included.
WriteAccount(w, on) ==
  /\ stored' = [task[w].acc EXCEPT !.on = on]
  /\ stale' = (stale \/ Tokens(stored, task[w].acc) # stored)
  /\ TaskGoes(w, "reload", task[w].acc)

disableAccountToken(w) ==
  /\ TaskAt(w, "disable")
  /\ WriteAccount(w, FALSE)
  /\ UNCHANGED <<provider, due, pooled, mutex, mishaps, raced, burnt>>

ReadAccount(w) ==
  /\ w \in Clerk /\ TaskAt(w, "idle")
  /\ TaskGoes(w, "edit", stored)
  /\ Meets(w)
  /\ UNCHANGED <<provider, due, stored, pooled, mutex, mishaps, burnt, stale>>

UpdateWholeAccount(w) ==
  /\ TaskAt(w, "edit")
  /\ \E on \in BOOLEAN : WriteAccount(w, on)
  /\ UNCHANGED <<provider, due, pooled, mutex, mishaps, raced, burnt>>

ReloadPool(w) ==
  /\ TaskAt(w, "reload")
  /\ pooled' = stored
  /\ TaskEnds(w)
  /\ UNCHANGED <<provider, due, stored, mutex, mishaps, raced, burnt, stale>>

\* The process dies and starts again from its file.
Restart ==
  /\ Within
  /\ mishaps' = mishaps + 1
  /\ pooled' = stored
  /\ mutex' = NoOne
  /\ task' = [w \in Worker |-> Resting]
  /\ UNCHANGED <<provider, due, stored, raced, burnt, stale>>

TokenNext ==
  \/ Expire \/ Restart
  \/ \E w \in Worker :
       \/ TakeAccount(w) \/ LockAndRead(w)
       \/ BeginRenewal(w) \/ RefreshToken(w) \/ AnswerLost(w) \/ RefreshFails(w)
       \/ RenewalRefused(w) \/ FirstWrite(w) \/ SecondWrite(w)
       \/ disableAccountToken(w) \/ ReadAccount(w) \/ UpdateWholeAccount(w) \/ ReloadPool(w)

TokenSpec == TokenInit /\ [][TokenNext]_tokenVars

-----------------------------------------------------------------------------
(* Properties.                                                             *)

\* The account is not lost.  The refresh token that the provider accepts is in
\* the configuration whenever no renewal is being written: no order of the
\* writers loses it, unless the process died or the answer was lost on the way,
\* or somebody wrote a whole account that was read before the renewal.  And a
\* healthy account is refused, and banned for it, only after two workers met:
\* requests alone never ask with a refresh token that was used up.
TokenIsKept ==
  /\ (\A w \in Worker : ~Unwritten(w)) /\ mishaps = 0 /\ ~stale =>
       stored.refresh \in provider.live
  /\ burnt => raced \/ mishaps > 0
=============================================================================
