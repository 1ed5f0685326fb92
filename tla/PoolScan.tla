------------------------------ MODULE PoolScan ------------------------------
(***************************************************************************)
(* The loop of GetNextForModelExcluding (and of GetNextExcluding): any     *)
(* number of pickers hold the pool's lock for reading at once and move one *)
(* counter, currentIndex, so each of them draws some of the slots of the   *)
(* weighted list and misses those that others draw.  What the loop finds   *)
(* at a slot (an account excluded, cooling, over its quota, about to lose  *)
(* its token, or fit) is open.  What a picker does with its account, and   *)
(* after a loop without one, is in AccountPool.                            *)
(***************************************************************************)
EXTENDS Integers, FiniteSets

CONSTANTS
  Slots,    \* n, the length of p.accounts
  Owner,    \* [0..Slots-1 -> account]; an account has one slot per weight
  Picker,   \* requests that look for an account
  Wrap      \* the counter's values, 2^64 in the code

ASSUME ScanAssumption ==
  /\ Slots \in Nat \ {0} /\ Wrap \in Nat \ {0}
  /\ DOMAIN Owner = 0..Slots-1

VARIABLES
  currentIndex,  \* p.currentIndex
  picker         \* [Picker -> the loop's variables, and the history below]

scanVars == <<currentIndex, picker>>

\* `left` counts the draws to come.  History: `taken`, the slots that others drew
\* since the loop began, and `turned`, that the counter overflowed in the meantime.
Loop(draws) == [on |-> TRUE, left |-> draws, seen |-> {}, taken |-> {}, turned |-> FALSE]
Away        == [on |-> FALSE, left |-> 0, seen |-> {}, taken |-> {}, turned |-> FALSE]

ScanInit ==
  /\ currentIndex = 0
  /\ picker = [p \in Picker |-> Away]

\* The planted fault: one draw for each account instead of one for each slot.
MutTotalAccounts(p) ==
  /\ ~picker[p].on
  /\ picker' = [picker EXCEPT ![p] = Loop(Cardinality({Owner[i] : i \in DOMAIN Owner}))]
  /\ UNCHANGED currentIndex

BeginScan(p) ==
  /\ ~picker[p].on
  /\ picker' = [picker EXCEPT ![p] = Loop(Slots)]
  /\ UNCHANGED currentIndex

\* The others who are in the loop while this index is drawn.
Notice(q, index) ==
  IF q.on THEN [q EXCEPT !.taken = @ \cup {index % Slots}, !.turned = @ \/ index = 0] ELSE q

\* One round: the account that the slot belongs to is returned, which leaves the
\* loop, or it is seen.
Draw(p) ==
  LET index == (currentIndex + 1) % Wrap
      acc   == Owner[index % Slots]
      mine  == picker[p]
  IN  /\ mine.on /\ mine.left > 0
      /\ currentIndex' = index
      /\ \E next \in {[mine EXCEPT !.left = @ - 1, !.seen = @ \cup {acc},
                                   !.turned = @ \/ index = 0]}
                     \cup (IF acc \in mine.seen THEN {} ELSE {Away}) :
           picker' = [q \in Picker |-> IF q = p THEN next ELSE Notice(picker[q], index)]

\* The loop ends without an account: the fallback follows.
GoBack(p) ==
  /\ picker[p].on /\ picker[p].left = 0
  /\ picker' = [picker EXCEPT ![p] = Away]
  /\ UNCHANGED currentIndex

ScanNext == \E p \in Picker : BeginScan(p) \/ Draw(p) \/ GoBack(p)

ScanSpec == ScanInit /\ [][ScanNext]_scanVars

-----------------------------------------------------------------------------
ScanTypeOK ==
  /\ currentIndex \in 0..Wrap-1
  /\ picker \in [Picker -> [on: BOOLEAN, left: 0..Slots,
                            seen: SUBSET {Owner[i] : i \in 0..Slots-1},
                            taken: SUBSET (0..Slots-1), turned: BOOLEAN]]

\* Pickers that draw from one counter at once do not starve an account: a picker
\* that goes to the fallback has looked at the account of every slot, or another
\* picker drew that slot in the meantime and so looked at it instead.  The counter
\* may break this once in 2^64 draws: the slot after its last value is 0, whatever
\* the length of the list.
PassedOverForATurn ==
  \A p \in Picker :
    LET q == picker[p]
    IN  q.on /\ q.left = 0 /\ ~q.turned =>
          \A i \in 0..Slots-1 : Owner[i] \in q.seen \/ i \in q.taken
=============================================================================
