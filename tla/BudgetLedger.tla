--------------------------- MODULE BudgetLedger ---------------------------
(***************************************************************************)
(* What the sub-agent runtime promises about tokens, without its tasks and *)
(* counters: every parent run has an account; a child is granted tokens of *)
(* it once, while the account is open; it spends only what it holds; what  *)
(* it still holds in the end is forfeited to the parent's consumption or   *)
(* returned.  A closed account grants nothing any more.                    *)
(***************************************************************************)
EXTENDS Integers, FiniteSets

CONSTANTS Parents, Children, ParentOf, ChildBudget, MaxBudget

VARIABLES
  account,  \* "absent", "open" or "closed"
  funds,    \* what the account was opened with
  charged,  \* tokens each child has cost
  held,     \* tokens each child may still spend
  granted   \* children that had their grant

vars == <<account, funds, charged, held, granted>>

ChildrenOf(p) == {c \in Children : ParentOf[c] = p}

(* the tokens of the account that are gone or promised *)
Taken(p) ==
  {t \in ChildrenOf(p) \X (1..ChildBudget) :
     t[2] <= charged[t[1]] + held[t[1]]}

Free(p) == funds[p] - Cardinality(Taken(p))

Smaller(a, b) == IF a <= b THEN a ELSE b

Init ==
  /\ account = [p \in Parents |-> "absent"]
  /\ funds = [p \in Parents |-> 0]
  /\ charged = [c \in Children |-> 0]
  /\ held = [c \in Children |-> 0]
  /\ granted = {}

Open(p, amount) ==
  /\ account[p] = "absent"
  /\ account' = [account EXCEPT ![p] = "open"]
  /\ funds' = [funds EXCEPT ![p] = amount]
  /\ UNCHANGED <<charged, held, granted>>

(* a grant the child cannot use is taken back at once *)
Grant(c) ==
  LET p == ParentOf[c]
  IN /\ account[p] = "open"
     /\ c \notin granted
     /\ Free(p) > 0
     /\ \E g \in {0, Smaller(ChildBudget, Free(p))} :
          held' = [held EXCEPT ![c] = g]
     /\ granted' = granted \cup {c}
     /\ UNCHANGED <<account, funds, charged>>

Spend(c, amount) ==
  /\ amount <= held[c]
  /\ charged' = [charged EXCEPT ![c] = @ + amount]
  /\ held' = [held EXCEPT ![c] = @ - amount]
  /\ UNCHANGED <<account, funds, granted>>

Return(c) ==
  /\ held' = [held EXCEPT ![c] = 0]
  /\ UNCHANGED <<account, funds, charged, granted>>

Close(p) ==
  /\ account[p] # "absent"
  /\ account' = [account EXCEPT ![p] = "closed"]
  /\ \E S \in SUBSET ChildrenOf(p) :
       held' = [c \in Children |-> IF c \in S THEN 0 ELSE held[c]]
  /\ UNCHANGED <<funds, charged, granted>>

Next ==
  \/ \E p \in Parents : Close(p) \/ \E b \in 1..MaxBudget : Open(p, b)
  \/ \E c \in Children :
       \/ Grant(c)
       \/ Return(c)
       \/ \E amount \in 1..ChildBudget : Spend(c, amount)

Spec == Init /\ [][Next]_vars
=============================================================================
