-------------------------- MODULE AgentTurnProofs --------------------------
(***************************************************************************)
(* Proofs about AgentTurn for every set of actions and every finite set of *)
(* children, and all budgets, batches and cancellations.                   *)
(*                                                                         *)
(* The invariant locates what may be alive: a running child or an open     *)
(* account pins the call to the stretch between its start and the end of   *)
(* the runtime's cancellation, so that a call that is over has neither.    *)
(* The budget needs a count: what children may still be charged with and   *)
(* the open account may still grant is covered by what the turn has left.  *)
(* Tokens are counted as sets of pairs of a child and a level.             *)
(***************************************************************************)
EXTENDS AgentTurn, FiniteSetTheorems, TLAPS

-----------------------------------------------------------------------------
(* Sets of tokens *)

Levels == [Children -> 0..ChildBudget]

(* the tokens of the children in S up to their levels *)
UpTo(S, level) == {t \in S \X (1..ChildBudget) : t[2] <= level[t[1]]}

At(S, c, amount) == IF c \in S THEN amount ELSE 0

(* They are finitely many. *)
LEMMA UpToFinite ==
  ASSUME NEW S \in SUBSET Children, NEW level
  PROVE  /\ IsFiniteSet(UpTo(S, level))
         /\ Cardinality(UpTo(S, level)) \in Nat
<1>1. IsFiniteSet(S) /\ IsFiniteSet(1..ChildBudget)
  BY ActionAssumption, FS_Subset, FS_Interval
<1>2. IsFiniteSet(S \X (1..ChildBudget))
  BY <1>1, FS_Product
<1>3. UpTo(S, level) \in SUBSET (S \X (1..ChildBudget))
  BY DEF UpTo
<1>4. IsFiniteSet(UpTo(S, level))
  BY <1>2, <1>3, FS_Subset
<1>. QED BY <1>4, FS_CardinalityType

(* A child in S contributes its level. *)
LEMMA UpToSplit ==
  ASSUME NEW S \in SUBSET Children, NEW c \in Children, NEW level \in Levels
  PROVE  Cardinality(UpTo(S, level)) =
           Cardinality(UpTo(S \ {c}, level)) + At(S, c, level[c])
<1>1. level[c] \in 0..ChildBudget /\ level[c] \in Nat
  BY ActionAssumption DEF Levels
<1>2. Cardinality(UpTo(S, level)) \in Nat
  BY UpToFinite
<1>3. CASE c \notin S
  <2>1. S \ {c} = S
    BY <1>3
  <2>. QED BY <1>2, <1>3, <2>1 DEF At
<1>4. CASE c \in S
  <2>. DEFINE mine == {c} \X (1..level[c])
  <2>1. mine = UpTo({c}, level)
    BY <1>1, ActionAssumption DEF UpTo
  <2>2. UpTo(S, level) \ mine = UpTo(S \ {c}, level)
    BY <2>1 DEF UpTo
  <2>3. UpTo(S, level) \cap mine = mine
    BY <1>4, <2>1 DEF UpTo
  <2>4. IsFiniteSet(1..level[c]) /\ Cardinality(1..level[c]) = level[c]
    BY <1>1, FS_Interval, SMTT(30)
  <2>5. IsFiniteSet({c}) /\ Cardinality({c}) = 1
    BY FS_Singleton
  <2>6. Cardinality(mine) = Cardinality({c}) * Cardinality(1..level[c])
    BY <2>4, <2>5, FS_Product
  <2>7. Cardinality(mine) = level[c]
    BY <1>1, <2>4, <2>5, <2>6
  <2>8. IsFiniteSet(UpTo(S, level))
    BY UpToFinite
  <2>. HIDE DEF mine
  <2>9. Cardinality(UpTo(S, level) \ mine) =
          Cardinality(UpTo(S, level)) - Cardinality(UpTo(S, level) \cap mine)
    BY <2>8, FS_Difference
  <2>10. Cardinality(UpTo(S \ {c}, level)) =
           Cardinality(UpTo(S, level)) - level[c]
    BY <2>2, <2>3, <2>7, <2>9
  <2>11. At(S, c, level[c]) = level[c]
    BY <1>4 DEF At
  <2>. QED BY <1>1, <1>2, <2>10, <2>11
<1>. QED BY <1>3, <1>4

(* When the level of one child moves, the number of tokens moves with it. *)
LEMMA UpToMoves ==
  ASSUME NEW S \in SUBSET Children, NEW c \in Children,
         NEW level \in Levels, NEW level2 \in Levels,
         \A d \in Children \ {c} : level2[d] = level[d]
  PROVE  Cardinality(UpTo(S, level2)) =
           Cardinality(UpTo(S, level)) + At(S, c, level2[c] - level[c])
<1>1. UpTo(S \ {c}, level2) = UpTo(S \ {c}, level)
  BY DEF UpTo
<1>2. level[c] \in Nat /\ level2[c] \in Nat
  BY ActionAssumption DEF Levels
<1>3. Cardinality(UpTo(S \ {c}, level)) \in Nat
  BY UpToFinite
<1>4. Cardinality(UpTo(S, level)) =
        Cardinality(UpTo(S \ {c}, level)) + At(S, c, level[c])
  BY UpToSplit
<1>5. Cardinality(UpTo(S, level2)) =
        Cardinality(UpTo(S \ {c}, level2)) + At(S, c, level2[c])
  BY UpToSplit
<1>. QED BY <1>1, <1>2, <1>3, <1>4, <1>5 DEF At

(* Lower levels have no more tokens. *)
LEMMA UpToShrinks ==
  ASSUME NEW S \in SUBSET Children,
         NEW level \in Levels, NEW level2 \in Levels,
         \A c \in S : level2[c] <= level[c]
  PROVE  Cardinality(UpTo(S, level2)) <= Cardinality(UpTo(S, level))
<1>1. \A c \in S : level[c] \in Int /\ level2[c] \in Int
  BY ActionAssumption DEF Levels
<1>2. UpTo(S, level2) \in SUBSET UpTo(S, level)
  BY <1>1, ActionAssumption DEF UpTo
<1>3. IsFiniteSet(UpTo(S, level))
  BY UpToFinite
<1>. QED BY <1>2, <1>3, FS_Subset

(* The ledger counts with the same cardinality. *)
LEMMA LedgerCounts ==
  ASSUME NEW S
  PROVE  Ledger!Cardinality(S) = Cardinality(S)
BY DEF Ledger!Cardinality, Cardinality

-----------------------------------------------------------------------------
(* Types *)

(* The steps of the ledger keep its types. *)
LEMMA LedgerTypes ==
  ASSUME AccountTypes, consumed' \in Nat,
         \/ UNCHANGED ledger
         \/ \E a \in Actions, n \in Nat : Ledger!Open(a, n)
         \/ \E a \in Actions : Ledger!Close(a)
         \/ \E c \in Children :
              \/ Ledger!Grant(c) /\ held'[c] > 0
              \/ Ledger!Return(c)
              \/ \E n \in Nat : Ledger!Spend(c, n)
  PROVE  AccountTypes'
<1>. USE DEF AccountTypes
<1>1. CASE UNCHANGED ledger
  BY <1>1 DEF ledger
<1>2. ASSUME NEW a \in Actions, NEW n \in Nat, Ledger!Open(a, n)
      PROVE  AccountTypes'
  BY <1>2 DEF Ledger!Open
<1>3. ASSUME NEW a \in Actions, Ledger!Close(a)
      PROVE  AccountTypes'
  BY <1>3 DEF Ledger!Close
<1>4. ASSUME NEW c \in Children, Ledger!Grant(c), held'[c] > 0
      PROVE  AccountTypes'
  <2>1. PICK g \in {0, Ledger!Smaller(ChildBudget, Ledger!Free(ParentOf[c]))} :
          held' = [held EXCEPT ![c] = g]
    BY <1>4 DEF Ledger!Grant
  <2>2. g > 0
    BY <1>4, <2>1
  <2>3. Ledger!Free(ParentOf[c]) \in Int
    <3>1. funds[ParentOf[c]] \in Nat
      BY ActionAssumption
    <3>2. Ledger!Taken(ParentOf[c]) =
            UpTo(Ledger!ChildrenOf(ParentOf[c]),
                 [d \in Children |-> charged[d] + held[d]])
      BY DEF Ledger!Taken, UpTo, Ledger!ChildrenOf
    <3>3. Ledger!ChildrenOf(ParentOf[c]) \in SUBSET Children
      BY DEF Ledger!ChildrenOf
    <3>4. Cardinality(Ledger!Taken(ParentOf[c])) \in Nat
      BY <3>2, <3>3, UpToFinite
    <3>. QED BY <3>1, <3>4, LedgerCounts DEF Ledger!Free
  <2>4. g \in Nat
    BY <2>2, <2>3, ActionAssumption DEF Ledger!Smaller
  <2>. QED BY <1>4, <2>1, <2>4 DEF Ledger!Grant
<1>5. ASSUME NEW c \in Children, Ledger!Return(c)
      PROVE  AccountTypes'
  BY <1>5 DEF Ledger!Return
<1>6. ASSUME NEW c \in Children, NEW n \in Nat, Ledger!Spend(c, n)
      PROVE  AccountTypes'
  BY <1>6 DEF Ledger!Spend
<1>. QED BY <1>1, <1>2, <1>3, <1>4, <1>5, <1>6

(* What a step of the call does: it moves script on, and either leaves the *)
(* accounts and the children alone or cancels the runtime.                 *)
LEMMA CallShape ==
  ASSUME CallNext \/ Struck
  PROVE  /\ UNCHANGED <<action, consumed, runners>>
         /\ UNCHANGED <<doomed, ledger>> \/ Tombstone
BY DEF CallNext, Struck, SocketOpens, SocketFails, LoopEnds, RuntimeStops,
       Finalize, FilesRemoved, RunCleaned, ParentKilled, RuntimeStopsLate,
       FinalizedLate, AuthorityCloses, Finally, AfterKill, Leave, script, boxes,
       ledger

(* A step of the call keeps the types of its locations and flags. *)
LEMMA CallTypesStep ==
  ASSUME CallTypes, CallNext \/ Struck
  PROVE  CallTypes'
<1>. USE DEF CallTypes, Goto, Leave, End, FinalizeLate, CleanupFails
<1>1. CASE SocketOpens
  BY <1>1 DEF SocketOpens
<1>2. CASE SocketFails
  BY <1>2 DEF SocketFails
<1>3. CASE LoopEnds
  BY <1>3 DEF LoopEnds
<1>4. CASE RuntimeStops
  BY <1>4 DEF RuntimeStops
<1>5. CASE Finalize
  BY <1>5 DEF Finalize, FilesRemoved
<1>6. CASE RunCleaned
  BY <1>6 DEF RunCleaned, Finally, AfterKill
<1>7. CASE ParentKilled
  BY <1>7 DEF ParentKilled, AfterKill
<1>8. CASE RuntimeStopsLate
  BY <1>8 DEF RuntimeStopsLate
<1>9. CASE FinalizedLate
  BY <1>9, ZenonT(30) DEF FinalizedLate, FilesRemoved
<1>10. CASE AuthorityCloses
  BY <1>10, ZenonT(30) DEF AuthorityCloses
<1>11. CASE Struck
  <2>1. /\ at' \in {"leaving", "over", at}
        /\ raised' \in {raised, "failure", "cancellation"}
        /\ listening' \in {FALSE, listening}
    BY <1>11 DEF Struck, script
  <2>2. UNCHANGED <<action, parentTask, quiesced, finalized, closed,
                    parentError>>
    BY <1>11 DEF Struck
  <2>3. listening' \in BOOLEAN
    BY <2>1
  <2>. QED BY <2>1, <2>2, <2>3
<1>. QED
  BY <1>1, <1>2, <1>3, <1>4, <1>5, <1>6, <1>7, <1>8, <1>9, <1>10, <1>11
  DEF CallNext

(* What a step of the parent's task or of a child does. *)
EnvironmentLedger ==
  \/ UNCHANGED <<consumed, ledger>>
  \/ Tombstone /\ UNCHANGED consumed
  \/ \E c \in Children :
       \/ Ledger!Grant(c) /\ held'[c] > 0 /\ UNCHANGED consumed
       \/ Ledger!Return(c) /\ UNCHANGED consumed
       \/ \E n \in Nat : Charge(c, n)

(* Each of them does; none moves the call on. *)
LEMMA EnvironmentShape ==
  ASSUME AccountTypes, Environment
  PROVE  /\ UNCHANGED <<at, action, listening, quiesced, finalized, closed,
                        parentError, raised>>
         /\ EnvironmentLedger
<1>. DEFINE Goal ==
       /\ UNCHANGED <<at, action, listening, quiesced, finalized, closed,
                      parentError, raised>>
       /\ EnvironmentLedger
<1>1. CASE ParentEnds
  BY <1>1 DEF ParentEnds, EnvironmentLedger
<1>a. \A c \in Children : held[c] \in Nat
  BY DEF AccountTypes
<1>b. \A c \in Children : Forfeit(c) => EnvironmentLedger
  BY <1>a DEF Forfeit, EnvironmentLedger
<1>2. ASSUME NEW c \in Children, ChildNext(c)
      PROVE  Goal
  <2>1. UNCHANGED script
    BY <1>2 DEF ChildNext, Spawn, Allocates, Think, RunEnds, Recycles, Deadline,
                Settles, Persists, CallerCancelled
  <2>. SUFFICES EnvironmentLedger
    BY <2>1 DEF script
  <2>2. CASE Spawn(c)
    BY <2>2 DEF Spawn, EnvironmentLedger
  <2>3. CASE Allocates(c) \/ RunEnds(c) \/ Recycles(c) \/ Persists(c)
    BY <2>3 DEF Allocates, RunEnds, Recycles, Persists, EnvironmentLedger
  <2>4. CASE Think(c)
    BY <2>4 DEF Think, EnvironmentLedger
  <2>5. CASE Deadline(c)
    BY <1>b, <2>5 DEF Deadline
  <2>6. CASE Settles(c)
    BY <1>b, <2>6 DEF Settles, EnvironmentLedger
  <2>7. CASE CallerCancelled(c)
    BY <2>7 DEF CallerCancelled, EnvironmentLedger
  <2>. QED BY <1>2, <2>2, <2>3, <2>4, <2>5, <2>6, <2>7 DEF ChildNext
<1>. QED BY <1>1, <1>2 DEF Environment

(* Every step of the turn keeps the types of the accounts. *)
LEMMA AccountTypesStep ==
  ASSUME AccountTypes, CallTypes, [Next]_vars
  PROVE  AccountTypes'
<1>. DEFINE Goal == AccountTypes'
<1>a. ASSUME consumed' \in Nat, UNCHANGED ledger
      PROVE  Goal
  BY <1>a, LedgerTypes
<1>b. ASSUME Tombstone, action' = action, consumed' = consumed
      PROVE  Goal
  <2>1. Ledger!Close(action) /\ account[action] # "absent"
    BY <1>b DEF Tombstone, Ledger!Close
  <2>2. /\ account' = [account EXCEPT ![action] = "closed"]
        /\ held' = [c \in Children |->
                     IF c \in Alive \cap Mine THEN 0 ELSE held[c]]
        /\ UNCHANGED <<funds, charged, granted>>
    BY <1>b, <2>1 DEF Tombstone, Ledger!Close
  <2>. QED BY <1>b, <2>2 DEF AccountTypes
<1>1. CASE NextIteration
  BY <1>1, <1>a DEF NextIteration, actionVars, AccountTypes
<1>2. CASE Answers
  BY <1>2, <1>a DEF Answers, AccountTypes
<1>3. CASE StreamFails
  BY <1>3, <1>a DEF StreamFails, AccountTypes
<1>4. CASE Reject \/ AskUser \/ StartTool \/ ToolReturns \/ ScriptReturns
  BY <1>4, <1>a
  DEF Reject, AskUser, StartTool, ToolReturns, ScriptReturns, actionVars,
      AccountTypes
<1>5. CASE StartScript
  <2>1. Begin
    BY <1>5 DEF StartScript
  <2>2. consumed' = consumed /\ consumed \in Nat
    BY <2>1 DEF Begin, AccountTypes
  <2>3. CASE Remaining <= 0
    BY <1>a, <2>1, <2>2, <2>3 DEF Begin
  <2>4. CASE ~(Remaining <= 0)
    <3>1. /\ Ledger!Open(action + 1, Remaining)
          /\ action + 1 \in Actions
      BY <2>1, <2>4 DEF Begin, BudgetOfAction
    <3>2. Remaining \in Nat
      BY <2>2, <2>4, ActionAssumption DEF Remaining
    <3>. QED BY <2>2, <3>1, <3>2, LedgerTypes
  <2>. QED BY <2>3, <2>4
<1>6. CASE Cancel
  <2>1. CASE UNCHANGED actionVars
    BY <1>a, <2>1 DEF actionVars, AccountTypes
  <2>2. CASE Struck
    <3>1. UNCHANGED consumed /\ UNCHANGED ledger
      BY <2>2 DEF Struck
    <3>. QED BY <1>a, <3>1 DEF AccountTypes
  <2>. QED BY <1>6, <2>1, <2>2 DEF Cancel
<1>7. CASE CallNext
  BY <1>7, <1>a, <1>b, CallShape DEF AccountTypes
<1>8. CASE Environment
  <2>1. EnvironmentLedger /\ action' = action
    BY <1>8, EnvironmentShape
  <2>2. consumed' \in Nat
    BY <2>1 DEF EnvironmentLedger, Charge, AccountTypes
  <2>3. CASE UNCHANGED <<consumed, ledger>>
    BY <1>a, <2>2, <2>3
  <2>4. CASE Tombstone /\ UNCHANGED consumed
    BY <1>b, <2>1, <2>4
  <2>5. ASSUME NEW c \in Children,
               \/ Ledger!Grant(c) /\ held'[c] > 0
               \/ Ledger!Return(c)
               \/ \E n \in Nat : Ledger!Spend(c, n)
        PROVE  Goal
    BY <2>2, <2>5, LedgerTypes
  <2>. QED BY <2>1, <2>3, <2>4, <2>5 DEF EnvironmentLedger, Charge
<1>9. CASE UNCHANGED vars
  BY <1>9, <1>a DEF vars, actionVars, AccountTypes
<1>. QED
  BY <1>1, <1>2, <1>3, <1>4, <1>5, <1>6, <1>7, <1>8, <1>9 DEF Next, LoopNext

(* The calls of an answer form a sequence. *)
LEMMA BatchesAreSequences == Batches \subseteq Seq(Kinds)
<1>1. ASSUME NEW n \in 0..MaxCalls, NEW b \in [1..n -> Kinds]
      PROVE  b \in Seq(Kinds)
  <2>1. n \in Nat
    BY LoopAssumption
  <2>. QED BY <1>1, <2>1
<1>. QED BY <1>1 DEF Batches

(* Every step keeps the types of the loop. *)
LEMMA LoopTypesStep ==
  ASSUME LoopTypes, [Next]_vars
  PROVE  LoopTypes'
<1>. USE LoopAssumption DEF LoopTypes, Over
<1>1. CASE NextIteration
  BY <1>1 DEF NextIteration, Exhausted
<1>2. CASE Answers
  <2>1. calls' \in Seq(Kinds)
    BY <1>2, BatchesAreSequences DEF Answers
  <2>2. /\ pc' \in {"over", "batch"} /\ outcome' \in {"done", outcome}
        /\ UNCHANGED <<iteration, errors, cancels>>
    BY <1>2 DEF Answers
  <2>. QED BY <2>1, <2>2
<1>3. CASE StreamFails
  BY <1>3 DEF StreamFails
<1>a. ASSUME NEW kind \in Kinds, Take(kind)
      PROVE  calls' \in Seq(Kinds) /\ UNCHANGED <<iteration, cancels>>
  BY <1>a DEF Take
<1>4. CASE Reject
  BY <1>4, <1>a DEF Reject, Kinds
<1>5. CASE AskUser
  BY <1>5, <1>a DEF AskUser, Kinds
<1>6. CASE StartTool
  BY <1>6, <1>a DEF StartTool, Kinds
<1>7. CASE StartScript
  BY <1>7, <1>a DEF StartScript, Kinds
<1>8. CASE ToolReturns
  BY <1>8 DEF ToolReturns
<1>9. CASE ScriptReturns
  BY <1>9 DEF ScriptReturns
<1>10. CASE Cancel
  BY <1>10 DEF Cancel, loop
<1>11. CASE UNCHANGED <<loop, cancels>>
  BY <1>11 DEF loop
<1>. QED
  BY <1>1, <1>2, <1>3, <1>4, <1>5, <1>6, <1>7, <1>8, <1>9, <1>10, <1>11
  DEF Next, LoopNext, vars

(* Every step keeps the types of the children and their containers. *)
LEMMA BoxTypesStep ==
  ASSUME BoxTypes, [Next]_vars
  PROVE  BoxTypes'
<1>. USE DEF BoxTypes
<1>a. CASE UNCHANGED boxes
  BY <1>a DEF boxes, runners
<1>b. ASSUME Tombstone, UNCHANGED runners
      PROVE  BoxTypes'
  BY <1>b DEF Tombstone, Mine, runners
<1>1. CASE LoopNext
  BY <1>1, <1>a
  DEF LoopNext, NextIteration, Answers, StreamFails, Reject, AskUser,
      StartTool, StartScript, Begin, ToolReturns, ScriptReturns, actionVars
<1>2. CASE Cancel
  BY <1>2, <1>a DEF Cancel, Struck, actionVars
<1>3. CASE CallNext
  BY <1>3, <1>a, <1>b, CallShape DEF boxes
<1>4. CASE Environment
  <2>1. CASE ParentEnds
    BY <1>a, <2>1 DEF ParentEnds
  <2>2. ASSUME NEW c \in Children, ChildNext(c)
        PROVE  BoxTypes'
    <3>1. CASE Spawn(c)
      BY <3>1 DEF Spawn
    <3>2. CASE Allocates(c)
      BY <3>2 DEF Allocates, Allocated, AllocationFails
    <3>3. CASE Think(c)
      BY <3>3 DEF Think, Charge
    <3>4. CASE RunEnds(c) \/ Recycles(c) \/ Persists(c)
      BY <3>4 DEF RunEnds, Recycles, Persists
    <3>5. CASE Deadline(c)
      BY <3>5 DEF Deadline, Forfeit, Settled, Charge
    <3>6. CASE Settles(c)
      BY <3>6 DEF Settles, Forfeit, Settled, Charge
    <3>7. CASE CallerCancelled(c)
      BY <3>7 DEF CallerCancelled, Settled, Tombstone, Mine
    <3>. QED
      BY <2>2, <3>1, <3>2, <3>3, <3>4, <3>5, <3>6, <3>7 DEF ChildNext
  <2>. QED BY <1>4, <2>1, <2>2 DEF Environment
<1>5. CASE UNCHANGED vars
  BY <1>5, <1>a DEF vars, actionVars
<1>. QED BY <1>1, <1>2, <1>3, <1>4, <1>5 DEF Next

(* Every step of the turn keeps the types of the call. *)
LEMMA CallTypesNext ==
  ASSUME CallTypes, AccountTypes, [Next]_vars
  PROVE  CallTypes'
<1>1. CASE UNCHANGED script
  BY <1>1 DEF CallTypes, script
<1>2. CASE StartScript
  BY <1>2 DEF CallTypes, StartScript, Begin, Goto
<1>3. CASE CallNext \/ Struck
  BY <1>3, CallTypesStep
<1>4. CASE Environment
  <2>1. CASE ParentEnds
    BY <2>1 DEF CallTypes, ParentEnds
  <2>2. CASE ~ParentEnds
    <3>1. UNCHANGED script
      BY <1>4, <2>2
      DEF Environment, ChildNext, Spawn, Allocates, Think, RunEnds, Recycles,
          Deadline, Settles, Persists, CallerCancelled
    <3>. QED BY <1>1, <3>1
  <2>. QED BY <2>1, <2>2
<1>5. CASE LoopNext /\ ~StartScript
  BY <1>1, <1>5
  DEF LoopNext, NextIteration, Answers, StreamFails, Reject, AskUser,
      StartTool, ToolReturns, ScriptReturns, actionVars
<1>6. CASE Cancel
  BY <1>1, <1>3, <1>6 DEF Cancel, actionVars
<1>7. CASE UNCHANGED vars
  BY <1>1, <1>7 DEF vars, actionVars
<1>. QED BY <1>2, <1>3, <1>4, <1>5, <1>6, <1>7 DEF Next

(* Every step of the turn keeps the types. *)
LEMMA TypesStep ==
  ASSUME TypeOK, [Next]_vars
  PROVE  TypeOK'
<1>1. LoopTypes' /\ BoxTypes'
  BY LoopTypesStep, BoxTypesStep DEF TypeOK
<1>2. CallTypes' /\ AccountTypes'
  BY CallTypesNext, AccountTypesStep DEF TypeOK
<1>. QED BY <1>1, <1>2 DEF TypeOK

(* Cancelling the runtime closes the account of the action, whose living   *)
(* children lose what they hold.                                           *)
LEMMA TombstoneEffect ==
  ASSUME AccountTypes, Tombstone
  PROVE  /\ account[action] # "absent"
         /\ account' = [account EXCEPT ![action] = "closed"]
         /\ \A c \in Children :
              held'[c] = IF c \in Alive /\ ParentOf[c] = action
                           THEN 0 ELSE held[c]
         /\ UNCHANGED <<funds, charged, granted>>
BY DEF AccountTypes, Tombstone, Ledger!Close, Mine

(* Nothing is open or alive at a location that does not allow it: the      *)
(* steps of the call.                                                      *)
LEMMA LocatedCall ==
  ASSUME IInv, CallNext \/ Struck, UNCHANGED pc
  PROVE  Located'
<1>a. /\ CallTypes /\ AccountTypes /\ Located /\ ChildrenInTurn
      /\ at \notin {"idle", "over"} /\ pc' = pc
      /\ UNCHANGED <<action, consumed, runners>>
  <2>1. at \notin {"idle", "over"}
    BY DEF CallNext, Struck, SocketOpens, SocketFails, LoopEnds, RuntimeStops,
           Finalize, RunCleaned, ParentKilled, RuntimeStopsLate,
           FinalizedLate, FilesRemoved,
           AuthorityCloses
  <2>. QED BY <2>1, CallShape DEF IInv, TypeOK
<1>b. /\ Alive' = Alive /\ Pending' = Pending
      /\ \A a \in Actions : account'[a] = "open" => account[a] = "open"
      /\ Tombstone => \A a \in Actions : account'[a] # "open"
  <2>1. Alive' = Alive /\ Pending' = Pending
    BY <1>a DEF Alive, Pending, runners
  <2>2. CASE UNCHANGED ledger
    BY <2>2, <1>a, TombstoneEffect, <2>1 DEF ledger, Located, AccountTypes
  <2>3. CASE Tombstone
    BY <1>a, <2>1, <2>3, TombstoneEffect DEF Located, AccountTypes
  <2>. QED BY <2>2, <2>3, CallShape
<1>c. ASSUME Mine \cap (Alive \cup Pending) = {}
      PROVE  Alive \cup Pending = {}
  BY <1>a, <1>c DEF ChildrenInTurn, Mine, Alive, Pending
<1>. USE DEF Located, Goto, Leave, End, FinalizeLate, CleanupFails, ParentDone
<1>1. CASE SocketOpens
  BY <1>1, <1>a, <1>b DEF SocketOpens
<1>2. CASE SocketFails
  BY <1>2, <1>a, <1>b DEF SocketFails
<1>3. CASE LoopEnds
  BY <1>3, <1>a, <1>b DEF LoopEnds
<1>4. CASE RuntimeStops
  BY <1>4, <1>a, <1>b, <1>c DEF RuntimeStops, Quiescent
<1>5. CASE Finalize
  BY <1>5, <1>a, <1>b DEF Finalize, FilesRemoved
<1>6. CASE RunCleaned
  BY <1>6, <1>a, <1>b DEF RunCleaned, Finally, AfterKill
<1>7. CASE ParentKilled
  BY <1>7, <1>a, <1>b DEF ParentKilled, AfterKill
<1>8. CASE RuntimeStopsLate
  BY <1>8, <1>a, <1>b, <1>c DEF RuntimeStopsLate, Quiescent
<1>9. CASE FinalizedLate
  BY <1>9, <1>a, <1>b DEF FinalizedLate, FilesRemoved
<1>10. CASE AuthorityCloses
  BY <1>10, <1>a, <1>b DEF AuthorityCloses
<1>11. CASE Struck
  BY <1>11, <1>a, <1>b DEF Struck, script
<1>. QED
  BY <1>1, <1>2, <1>3, <1>4, <1>5, <1>6, <1>7, <1>8, <1>9, <1>10, <1>11
  DEF CallNext

(* The steps of the parent's task and of the children. *)
LEMMA LocatedEnvironment ==
  ASSUME IInv, Environment, UNCHANGED pc
  PROVE  Located'
<1>a. /\ CallTypes /\ AccountTypes /\ BoxTypes /\ Located
      /\ pc' = pc
      /\ UNCHANGED <<at, action, listening, quiesced>>
  BY EnvironmentShape DEF IInv, TypeOK
<1>b. ASSUME Alive' \cup Pending' \subseteq Alive \cup Pending,
             UNCHANGED parentTask,
             \A a \in Actions : account'[a] = "open" => account[a] = "open"
      PROVE  Located'
  BY <1>a, <1>b DEF Located
<1>1. CASE ParentEnds
  <2>1. Alive' = Alive /\ Pending' = Pending /\ UNCHANGED account
    BY <1>1 DEF ParentEnds, Alive, Pending, boxes, runners, ledger
  <2>2. /\ parentTask' = "running" => parentTask = "running"
        /\ parentTask' = "killed" => parentTask = "killed"
    BY <1>1 DEF ParentEnds
  <2>. QED BY <1>a, <2>1, <2>2 DEF Located
<1>2. ASSUME NEW c \in Children, Spawn(c)
      PROVE  Located'
  <2>1. /\ ParentOf[c] = action /\ action \in Actions
        /\ account[action] = "open"
        /\ UNCHANGED <<account, parentTask>>
    BY <1>2, ActionAssumption DEF Spawn, Mine, Ledger!Grant, script
  <2>2. ~quiesced /\ at \in {"starting", "polling", "leaving", "killing"}
    BY <1>a, <2>1 DEF Located
  <2>. QED BY <1>a, <2>1, <2>2 DEF Located
<1>3. ASSUME NEW c \in Children, ChildNext(c), ~Spawn(c)
      PROVE  Located'
  <2>1. UNCHANGED parentTask
    BY <1>3
    DEF ChildNext, Allocates, Think, RunEnds, Recycles, Deadline, Settles,
        Persists, CallerCancelled, script
  <2>2. \A a \in Actions : account'[a] = "open" => account[a] = "open"
    <3>1. CASE CallerCancelled(c)
      BY <1>a, <3>1, TombstoneEffect DEF CallerCancelled, ledger, AccountTypes
    <3>2. CASE ~CallerCancelled(c)
      BY <1>3, <3>2
      DEF ChildNext, Allocates, Think, RunEnds, Recycles, Deadline, Settles,
          Persists, Forfeit, Charge, Ledger!Spend, Ledger!Return, ledger
    <3>. QED BY <3>1, <3>2
  <2>3. \A d \in Children \ {c} : child'[d] = child[d] /\ spawner'[d] = spawner[d]
    BY <1>a, <1>3
    DEF ChildNext, Allocates, Allocated, AllocationFails, Think, RunEnds,
        Recycles, Deadline, Settles, Persists, CallerCancelled, Forfeit,
        Settled, BoxTypes
  <2>4. c \in Alive \cup Pending
    BY <1>3
    DEF ChildNext, Allocates, Think, RunEnds, Recycles, Deadline, Settles,
        Persists, CallerCancelled, Alive, Pending
  <2>5. Alive' \cup Pending' \subseteq Alive \cup Pending
    BY <2>3, <2>4 DEF Alive, Pending
  <2>. QED BY <1>b, <2>1, <2>2, <2>5
<1>. QED BY <1>1, <1>2, <1>3 DEF Environment

(* Every step of the turn keeps what may go on at each location. *)
LEMMA LocatedStep ==
  ASSUME IInv, [Next]_vars
  PROVE  Located'
<1>a. /\ CallTypes /\ AccountTypes /\ Located
  BY DEF IInv, TypeOK
<1>b. ASSUME UNCHANGED actionVars,
             pc' # "script" => pc # "script" \/ at = "over"
      PROVE  Located'
  <2>1. UNCHANGED <<at, action, parentTask, listening, quiesced, child,
                   spawner, account>>
    BY <1>b DEF actionVars, script, boxes, runners, ledger
  <2>. QED BY <1>a, <1>b, <2>1 DEF Located, Alive, Pending
<1>1. CASE StartScript
  <2>1. /\ at \in {"idle", "over"} /\ pc' = "script"
        /\ parentTask' = "none" /\ ~quiesced'
        /\ UNCHANGED <<listening, child, spawner>>
        /\ action + 1 \in Actions /\ action' = action + 1
    BY <1>1 DEF StartScript, Begin, boxes, runners
  <2>2. /\ Alive \cup Pending = {} /\ ~listening
        /\ \A a \in Actions : account[a] # "open"
    BY <1>a, <2>1 DEF Located
  <2>3. Alive' \cup Pending' = {}
    BY <2>1, <2>2 DEF Alive, Pending
  <2>4. CASE Remaining <= 0
    <3>1. UNCHANGED account
      BY <1>1, <2>4 DEF StartScript, Begin, ledger
    <3>. QED BY <2>1, <2>2, <2>3, <3>1 DEF Located
  <2>5. CASE ~(Remaining <= 0)
    <3>1. /\ at' = "starting"
          /\ account' = [account EXCEPT ![action + 1] = "open"]
      BY <1>1, <2>5 DEF StartScript, Begin, Goto, Ledger!Open
    <3>2. \A a \in Actions : account'[a] = "open" => a = action'
      BY <1>a, <2>1, <2>2, <3>1 DEF AccountTypes
    <3>. QED BY <2>1, <2>2, <2>3, <3>1, <3>2 DEF Located
  <2>. QED BY <2>4, <2>5
<1>2. CASE Answers \/ StreamFails
  <2>1. /\ UNCHANGED <<script, boxes, ledger>> /\ pc # "script"
    BY <1>2 DEF Answers, StreamFails
  <2>2. UNCHANGED <<at, action, parentTask, listening, quiesced, child,
                   spawner, account>>
    BY <2>1 DEF script, boxes, runners, ledger
  <2>. QED BY <1>a, <2>1, <2>2 DEF Located, Alive, Pending
<1>3. CASE NextIteration \/ Reject \/ AskUser \/ StartTool \/ ToolReturns
  BY <1>3, <1>b
  DEF NextIteration, Reject, AskUser, StartTool, ToolReturns, Take
<1>4. CASE ScriptReturns
  BY <1>4, <1>b DEF ScriptReturns
<1>5. CASE Cancel
  BY <1>5, <1>b, LocatedCall DEF Cancel, loop
<1>6. CASE CallNext /\ UNCHANGED <<loop, cancels>>
  BY <1>6, LocatedCall DEF loop
<1>7. CASE Environment /\ UNCHANGED <<loop, cancels>>
  BY <1>7, LocatedEnvironment DEF loop
<1>8. CASE UNCHANGED vars
  BY <1>8, <1>b DEF vars, loop
<1>. QED
  BY <1>1, <1>2, <1>3, <1>4, <1>5, <1>6, <1>7, <1>8 DEF Next, LoopNext

(* A grant is positive, fits the child budget and what the account has. *)
LEMMA GrantEffect ==
  ASSUME AccountTypes, AccountTypes', NEW c \in Children, Ledger!Grant(c),
         held'[c] > 0
  PROVE  /\ account[ParentOf[c]] = "open" /\ c \notin granted
         /\ held' = [held EXCEPT ![c] = held'[c]]
         /\ held'[c] \in 1..ChildBudget /\ held'[c] <= Ledger!Free(ParentOf[c])
         /\ granted' = granted \cup {c}
         /\ UNCHANGED <<account, funds, charged>>
<1>1. PICK g \in {0, Ledger!Smaller(ChildBudget, Ledger!Free(ParentOf[c]))} :
        held' = [held EXCEPT ![c] = g]
  BY DEF Ledger!Grant
<1>2. held'[c] = g /\ g \in Nat /\ g > 0
  BY <1>1 DEF AccountTypes
<1>3. g = Ledger!Smaller(ChildBudget, Ledger!Free(ParentOf[c]))
  BY <1>1, <1>2
<1>4. Ledger!Free(ParentOf[c]) \in Int
  <2>1. funds[ParentOf[c]] \in Nat
    BY ActionAssumption DEF AccountTypes
  <2>2. Ledger!ChildrenOf(ParentOf[c]) \in SUBSET Children
    BY DEF Ledger!ChildrenOf
  <2>3. Ledger!Taken(ParentOf[c]) =
          UpTo(Ledger!ChildrenOf(ParentOf[c]),
               [d \in Children |-> charged[d] + held[d]])
    BY DEF Ledger!Taken, UpTo, Ledger!ChildrenOf
  <2>4. Cardinality(Ledger!Taken(ParentOf[c])) \in Nat
    BY <2>2, <2>3, UpToFinite
  <2>. QED BY <2>1, <2>4, LedgerCounts DEF Ledger!Free
<1>5. g \in 1..ChildBudget /\ g <= Ledger!Free(ParentOf[c])
  BY <1>2, <1>3, <1>4, ActionAssumption DEF Ledger!Smaller
<1>. QED BY <1>1, <1>2, <1>5 DEF Ledger!Grant

(* What ChildrenInTurn says of one child. *)
InTurn(c) ==
  /\ c \in Alive \cup Pending => ParentOf[c] = action
  /\ c \in Alive /\ held[c] # 0 => spawner[c] = "waiting"
  /\ c \in doomed => held[c] = 0
  /\ box[c] = "held" => child[c] \in {"running", "closing"}
  /\ charged[c] + held[c] <= ChildBudget
  /\ c \notin granted => /\ charged[c] = 0 /\ held[c] = 0
                         /\ c \notin Alive \cup Pending \cup doomed
  /\ account[ParentOf[c]] = "absent" => c \notin granted

LEMMA InTurnOfEach == ChildrenInTurn <=> \A c \in Children : InTurn(c)
BY DEF ChildrenInTurn, InTurn

LEMMA InTurnOfEachNext == (\A c \in Children : InTurn(c)') => ChildrenInTurn'
BY DEF ChildrenInTurn, InTurn

(* A spent or forfeited amount moves from what one child holds to what it  *)
(* is charged.                                                             *)
LEMMA SpendEffect ==
  ASSUME AccountTypes, NEW c \in Children, NEW n \in Nat, Ledger!Spend(c, n)
  PROVE  /\ UNCHANGED <<account, funds, granted>>
         /\ charged'[c] + held'[c] = charged[c] + held[c]
         /\ held'[c] = held[c] - n
         /\ \A d \in Children \ {c} :
              charged'[d] = charged[d] /\ held'[d] = held[d]
BY DEF Ledger!Spend, AccountTypes

(* What a child's tasks do to its books: nothing, a grant, or a step that  *)
(* leaves it no more than it had.                                          *)
NoMore(c) ==
  /\ UNCHANGED <<account, granted>>
  /\ charged'[c] + held'[c] <= charged[c] + held[c]
  /\ held'[c] <= held[c]
  /\ \A d \in Children \ {c} :
       charged'[d] = charged[d] /\ held'[d] = held[d]

LEMMA BooksOfChild ==
  ASSUME AccountTypes, AccountTypes', NEW c \in Children,
         \/ UNCHANGED ledger
         \/ Ledger!Return(c)
         \/ \E n \in Nat : Ledger!Spend(c, n)
  PROVE  NoMore(c)
<1>. USE DEF NoMore
<1>n. /\ held[c] \in Nat /\ charged[c] \in Nat
      /\ held'[c] \in Nat /\ charged'[c] \in Nat
  BY DEF AccountTypes
<1>1. CASE UNCHANGED ledger
  BY <1>1, <1>n DEF ledger
<1>2. CASE Ledger!Return(c)
  BY <1>2, <1>n DEF Ledger!Return, AccountTypes
<1>3. ASSUME NEW n \in Nat, Ledger!Spend(c, n)
      PROVE  NoMore(c)
  BY <1>3, <1>n, SpendEffect
<1>. QED BY <1>1, <1>2, <1>3

(* Children live during their own action only, and one that may be charged *)
(* is waited for.                                                          *)
LEMMA ChildrenStep ==
  ASSUME IInv, TypeOK', [Next]_vars
  PROVE  ChildrenInTurn'
<1>a. /\ AccountTypes /\ AccountTypes' /\ BoxTypes /\ BoxTypes' /\ CallTypes
      /\ Located /\ ChildrenInTurn
      /\ \A c \in Children : ParentOf[c] \in Actions
      /\ \A c \in Children : held[c] \in Nat /\ charged[c] \in Nat
      /\ \A c \in Children : held'[c] \in Nat /\ charged'[c] \in Nat
      /\ \A c \in Children : InTurn(c)
  BY ActionAssumption, InTurnOfEach DEF IInv, TypeOK, AccountTypes
<1>b. ASSUME UNCHANGED <<action, boxes, ledger>>
      PROVE  ChildrenInTurn'
  BY <1>a, <1>b DEF ChildrenInTurn, Alive, Pending, boxes, runners, ledger
<1>t. ASSUME Tombstone
      PROVE  /\ UNCHANGED <<charged, granted>>
             /\ \A c \in Children : held'[c] = 0 \/ held'[c] = held[c]
             /\ \A c \in Children :
                  c \in doomed' => c \in doomed \cup Alive /\ held'[c] = 0
             /\ \A a \in Actions : account'[a] = "absent" => account[a] = "absent"
  <2>1. /\ UNCHANGED <<charged, granted>>
        /\ account' = [account EXCEPT ![action] = "closed"]
        /\ \A c \in Children :
             held'[c] = IF c \in Alive /\ ParentOf[c] = action
                          THEN 0 ELSE held[c]
    BY <1>a, <1>t, TombstoneEffect
  <2>2. doomed' = doomed \cup (Alive \cap Mine)
    BY <1>t DEF Tombstone
  <2>3. \A c \in Children : held'[c] = 0 \/ held'[c] = held[c]
    BY <2>1
  <2>4. \A c \in doomed : held[c] = 0
    BY <1>a DEF InTurn, BoxTypes
  <2>5. ASSUME NEW c \in Children, c \in doomed'
        PROVE  c \in doomed \cup Alive /\ held'[c] = 0
    BY <2>1, <2>2, <2>3, <2>4, <2>5 DEF Mine
  <2>6. \A a \in Actions : account'[a] = "absent" => account[a] = "absent"
    BY <1>a, <2>1 DEF AccountTypes
  <2>. QED BY <2>1, <2>3, <2>5, <2>6
<1>c. ASSUME Tombstone, UNCHANGED <<action, child, box>>,
             NEW c \in Children,
             \/ spawner'[c] = spawner[c]
             \/ spawner'[c] = "settled" /\ c \in Pending,
             c \in Alive /\ ParentOf[c] = action => held'[c] = 0
      PROVE  InTurn(c)'
  <2>1. c \in Alive' <=> c \in Alive
    BY <1>c DEF Alive
  <2>2. c \in Pending' => c \in Pending
    BY <1>c DEF Pending
  <2>3. charged'[c] + held'[c] <= ChildBudget
    BY <1>a, <1>c, <1>t, ActionAssumption DEF InTurn
  <2>4. c \in Alive' => held'[c] = 0
    BY <1>a, <1>c, <2>1 DEF InTurn
  <2>5. held[c] = 0 => held'[c] = 0
    BY <1>c, <1>t
  <2>6. c \in doomed' => c \in doomed \cup Alive /\ held'[c] = 0
    BY <1>c, <1>t
  <2>. QED
    BY <1>a, <1>c, <1>t, <2>1, <2>2, <2>3, <2>4, <2>5, <2>6 DEF InTurn
<1>h. ASSUME Tombstone
      PROVE  \A c \in Children :
               c \in Alive /\ ParentOf[c] = action => held'[c] = 0
  BY <1>a, <1>h, TombstoneEffect
<1>1. CASE StartScript
  <2>1. /\ UNCHANGED <<child, box, spawner, doomed, charged, held, granted>>
        /\ Alive \cup Pending = {}
        /\ \A a \in Actions : account'[a] = "absent" => account[a] = "absent"
    <3>1. UNCHANGED boxes /\ at \in {"idle", "over"}
      BY <1>1 DEF StartScript, Begin
    <3>2. \/ UNCHANGED ledger
          \/ Ledger!Open(action + 1, Remaining) /\ action + 1 \in Actions
      BY <1>1 DEF StartScript, Begin, BudgetOfAction
    <3>. QED
      BY <1>a, <3>1, <3>2
      DEF Ledger!Open, ledger, Located, AccountTypes, boxes, runners
  <2>2. Alive' \cup Pending' = {}
    BY <2>1 DEF Alive, Pending
  <2>. QED BY <1>a, <2>1, <2>2 DEF ChildrenInTurn
<1>2. CASE LoopNext /\ ~StartScript
  <2>1. UNCHANGED <<action, boxes, ledger>>
    BY <1>2
    DEF LoopNext, NextIteration, Answers, StreamFails, Reject, AskUser,
        StartTool, ToolReturns, ScriptReturns, actionVars, script
  <2>. QED BY <1>b, <2>1
<1>3. CASE Cancel
  <2>1. UNCHANGED <<action, boxes, ledger>>
    BY <1>3 DEF Cancel, Struck, actionVars, script
  <2>. QED BY <1>b, <2>1
<1>4. CASE CallNext
  <2>1. UNCHANGED <<action, child, box, spawner, runners>>
    BY <1>4, CallShape DEF runners
  <2>2. CASE UNCHANGED <<doomed, ledger>>
    BY <1>b, <2>1, <2>2 DEF boxes
  <2>3. CASE Tombstone
    <3>1. ASSUME NEW c \in Children
          PROVE  InTurn(c)'
      <4>1. c \in Alive /\ ParentOf[c] = action => held'[c] = 0
        BY <1>h, <2>3
      <4>. QED BY <1>c, <2>1, <2>3, <4>1
    <3>. QED BY <3>1, InTurnOfEachNext
  <2>. QED BY <1>4, <2>2, <2>3, CallShape
<1>5. CASE ParentEnds
  BY <1>5, <1>b DEF ParentEnds
<1>d. ASSUME NEW c \in Children, NEW d \in Children \ {c},
             UNCHANGED <<action, account>>,
             child'[d] = child[d] /\ box'[d] = box[d]
               /\ spawner'[d] = spawner[d],
             charged'[d] = charged[d] /\ held'[d] = held[d],
             d \in granted' <=> d \in granted,
             d \in doomed' <=> d \in doomed
      PROVE  InTurn(d)'
  BY <1>a, <1>d DEF InTurn, Alive, Pending
<1>6. ASSUME NEW c \in Children, Spawn(c)
      PROVE  ChildrenInTurn'
  <2>1. /\ ParentOf[c] = action
        /\ child' = [child EXCEPT ![c] = "allocating"]
        /\ spawner' = [spawner EXCEPT ![c] = "waiting"]
        /\ UNCHANGED <<action, box, doomed>>
        /\ Ledger!Grant(c) /\ held'[c] > 0
    BY <1>6 DEF Spawn, Mine, script
  <2>2. /\ account[ParentOf[c]] = "open" /\ c \notin granted
        /\ held' = [held EXCEPT ![c] = held'[c]]
        /\ held'[c] \in 1..ChildBudget
        /\ granted' = granted \cup {c}
        /\ UNCHANGED <<account, charged>>
    BY <1>a, <2>1, GrantEffect
  <2>3. \A d \in Children \ {c} : held'[d] = held[d]
    BY <1>a, <2>2 DEF AccountTypes
  <2>4. ASSUME NEW d \in Children \ {c}
        PROVE  InTurn(d)'
    <3>1. /\ child'[d] = child[d] /\ box'[d] = box[d]
          /\ spawner'[d] = spawner[d]
          /\ charged'[d] = charged[d] /\ held'[d] = held[d]
          /\ d \in granted' <=> d \in granted
          /\ d \in doomed' <=> d \in doomed
      BY <1>a, <2>1, <2>2, <2>3 DEF BoxTypes
    <3>. QED BY <1>d, <2>1, <2>2, <3>1
  <2>5. /\ charged[c] = 0 /\ c \notin doomed'
        /\ spawner'[c] = "waiting" /\ box'[c] # "held"
    BY <1>a, <1>6, <2>1, <2>2 DEF InTurn, Spawn, BoxTypes
  <2>6. charged'[c] + held'[c] <= ChildBudget
    BY <1>a, <2>2, <2>5, ActionAssumption
  <2>7. InTurn(c)'
    BY <2>1, <2>2, <2>5, <2>6 DEF InTurn
  <2>. QED BY <2>4, <2>7, InTurnOfEachNext
<1>e. ASSUME NEW c \in Children, c \in Alive \cup Pending, NoMore(c),
             UNCHANGED action,
             \A d \in Children \ {c} : child'[d] = child[d] /\ box'[d] = box[d]
                                      /\ spawner'[d] = spawner[d],
             \A d \in Children \ {c} : d \in doomed' <=> d \in doomed,
             c \in Alive' /\ held'[c] # 0 => spawner'[c] = "waiting",
             c \in doomed' => c \in doomed \/ held'[c] = 0,
             box'[c] = "held" => child'[c] \in {"running", "closing"}
      PROVE  ChildrenInTurn'
  <2>1. UNCHANGED <<account, granted>>
        /\ charged'[c] + held'[c] <= charged[c] + held[c]
        /\ held'[c] <= held[c]
        /\ \A d \in Children \ {c} :
             charged'[d] = charged[d] /\ held'[d] = held[d]
    BY <1>e DEF NoMore
  <2>2. \A d \in Children \ {c} : InTurn(d)'
    BY <1>d, <1>e, <2>1
  <2>3. charged'[c] + held'[c] <= ChildBudget
    BY <1>a, <2>1, ActionAssumption DEF InTurn
  <2>4. c \in granted /\ ParentOf[c] = action
    BY <1>a, <1>e DEF InTurn
  <2>5. c \in doomed' => held'[c] = 0
    BY <1>a, <1>e, <2>1 DEF InTurn
  <2>6. InTurn(c)'
    BY <1>a, <1>e, <2>1, <2>3, <2>4, <2>5 DEF InTurn
  <2>. QED BY <2>2, <2>6, InTurnOfEachNext
<1>f. ASSUME NEW c \in Children, Forfeit(c)
      PROVE  /\ NoMore(c) /\ held'[c] = 0
             /\ \A d \in Children \ {c} : spawner'[d] = spawner[d]
  <2>1. Ledger!Spend(c, held[c]) /\ held[c] \in Nat
    BY <1>a, <1>f DEF Forfeit, Charge
  <2>2. NoMore(c)
    BY <1>a, <2>1, BooksOfChild
  <2>3. held'[c] = 0
    BY <1>a, <2>1, SpendEffect
  <2>4. \A d \in Children \ {c} : spawner'[d] = spawner[d]
    BY <1>a, <1>f DEF Forfeit, Settled, BoxTypes
  <2>. QED BY <2>2, <2>3, <2>4
<1>g. ASSUME NEW c \in Children, UNCHANGED ledger
      PROVE  NoMore(c) /\ held'[c] = held[c]
  BY <1>a, <1>g, BooksOfChild DEF ledger
<1>7. ASSUME NEW c \in Children, Allocates(c) \/ RunEnds(c) \/ Recycles(c)
      PROVE  ChildrenInTurn'
  <2>1. /\ c \in Alive /\ UNCHANGED <<action, spawner, doomed>>
        /\ UNCHANGED ledger
        /\ \A d \in Children \ {c} : child'[d] = child[d] /\ box'[d] = box[d]
    BY <1>a, <1>7
    DEF Allocates, Allocated, AllocationFails, RunEnds, Recycles, Alive,
        BoxTypes, script
  <2>2. box'[c] = "held" => child'[c] \in {"running", "closing"}
    BY <1>a, <1>7
    DEF Allocates, Allocated, AllocationFails, RunEnds, Recycles, BoxTypes,
        InTurn
  <2>3. NoMore(c) /\ held'[c] = held[c]
    BY <1>g, <2>1
  <2>4. c \in Alive /\ held'[c] # 0 => spawner'[c] = "waiting"
    BY <1>a, <2>1, <2>3 DEF InTurn
  <2>. QED BY <1>e, <2>1, <2>2, <2>3, <2>4
<1>8. ASSUME NEW c \in Children, Think(c)
      PROVE  ChildrenInTurn'
  <2>1. /\ c \in Alive /\ c \notin doomed /\ held[c] # 0
        /\ UNCHANGED <<action, spawner, box, doomed>>
        /\ Ledger!Spend(c, 1)
        /\ \A d \in Children \ {c} : child'[d] = child[d]
        /\ child'[c] \in {"running", "closing"}
    BY <1>a, <1>8 DEF Think, Charge, Alive, BoxTypes, script
  <2>2. NoMore(c)
    BY <1>a, <2>1, BooksOfChild
  <2>3. spawner[c] = "waiting"
    BY <1>a, <2>1 DEF InTurn
  <2>. QED BY <1>e, <2>1, <2>2, <2>3
<1>9. ASSUME NEW c \in Children, Deadline(c)
      PROVE  ChildrenInTurn'
  <2>1. /\ c \in Alive /\ Forfeit(c) /\ UNCHANGED <<action, child, box>>
        /\ \A d \in Children \ {c} : d \in doomed' <=> d \in doomed
    BY <1>9 DEF Deadline, script
  <2>2. /\ NoMore(c) /\ held'[c] = 0
        /\ \A d \in Children \ {c} : spawner'[d] = spawner[d]
    BY <1>f, <2>1
  <2>3. box'[c] = "held" => child'[c] \in {"running", "closing"}
    BY <1>a, <2>1 DEF InTurn
  <2>. QED BY <1>e, <2>1, <2>2, <2>3
<1>10. ASSUME NEW c \in Children, Settles(c)
       PROVE  ChildrenInTurn'
  <2>1. /\ spawner[c] = "waiting" /\ c \in Pending
        /\ UNCHANGED <<action, child, box, doomed>>
    BY <1>10 DEF Settles, Pending, script
  <2>2. /\ NoMore(c)
        /\ \A d \in Children \ {c} : spawner'[d] = spawner[d]
        /\ c \in Alive => held'[c] = 0
    <3>1. CASE c \in doomed /\ Settled(c) /\ UNCHANGED ledger
      <4>1. NoMore(c) /\ held'[c] = held[c]
        BY <1>g, <3>1
      <4>. QED BY <1>a, <3>1, <4>1 DEF InTurn, Settled
    <3>2. CASE child[c] = "ended" /\ Settled(c) /\ Ledger!Return(c)
      <4>1. NoMore(c)
        BY <1>a, <3>2, BooksOfChild
      <4>. QED BY <3>2, <4>1 DEF Settled, Alive
    <3>3. CASE Forfeit(c)
      BY <1>f, <3>3
    <3>. QED BY <1>10, <3>1, <3>2, <3>3 DEF Settles
  <2>3. box'[c] = "held" => child'[c] \in {"running", "closing"}
    BY <1>a, <2>1 DEF InTurn
  <2>4. Alive' = Alive
    BY <2>1 DEF Alive
  <2>. QED BY <1>e, <2>1, <2>2, <2>3, <2>4
<1>11. ASSUME NEW c \in Children, Persists(c)
       PROVE  ChildrenInTurn'
  <2>1. /\ spawner[c] = "settled" /\ c \in Pending
        /\ UNCHANGED <<action, child, box, doomed>> /\ UNCHANGED ledger
        /\ \A d \in Children \ {c} : spawner'[d] = spawner[d]
    BY <1>11 DEF Persists, Pending, script
  <2>2. /\ NoMore(c) /\ held'[c] = held[c] /\ Alive' = Alive
    BY <1>g, <2>1 DEF Alive
  <2>3. /\ c \in Alive' /\ held'[c] # 0 => spawner'[c] = "waiting"
        /\ box'[c] = "held" => child'[c] \in {"running", "closing"}
    BY <1>a, <2>1, <2>2 DEF InTurn
  <2>. QED BY <1>e, <2>1, <2>2, <2>3
<1>12. ASSUME NEW c \in Children, CallerCancelled(c)
       PROVE  ChildrenInTurn'
  <2>1. /\ c \in Mine /\ c \in Pending
        /\ UNCHANGED <<action, child, box>>
        /\ \A d \in Children \ {c} : spawner'[d] = spawner[d]
    BY <1>a, <1>12 DEF CallerCancelled, Settled, Pending, script, BoxTypes
  <2>2. CASE Tombstone /\ Settled(c)
    <3>1. spawner'[c] = "settled"
      BY <1>a, <2>2 DEF Settled, BoxTypes
    <3>2. ASSUME NEW d \in Children
          PROVE  InTurn(d)'
      <4>1. d \in Alive /\ ParentOf[d] = action => held'[d] = 0
        BY <1>h, <2>2
      <4>2. \/ spawner'[d] = spawner[d]
            \/ spawner'[d] = "settled" /\ d \in Pending
        BY <2>1, <3>1
      <4>. QED BY <1>c, <2>1, <2>2, <4>1, <4>2
    <3>. QED BY <3>2, InTurnOfEachNext
  <2>3. CASE spawner[c] = "settled" /\ UNCHANGED <<doomed, ledger>>
    <3>1. /\ NoMore(c) /\ held'[c] = held[c] /\ Alive' = Alive
          /\ UNCHANGED doomed
      BY <1>g, <2>1, <2>3 DEF Alive
    <3>2. /\ c \in Alive' /\ held'[c] # 0 => spawner'[c] = "waiting"
          /\ box'[c] = "held" => child'[c] \in {"running", "closing"}
      BY <1>a, <2>1, <2>3, <3>1 DEF InTurn
    <3>. QED BY <1>e, <2>1, <3>1, <3>2
  <2>. QED BY <1>12, <2>2, <2>3 DEF CallerCancelled
<1>13. CASE UNCHANGED vars
  BY <1>b, <1>13 DEF vars, actionVars, script
<1>. QED
  BY <1>1, <1>2, <1>3, <1>4, <1>5, <1>6, <1>7, <1>8, <1>9, <1>10, <1>11, <1>12,
     <1>13
  DEF Next, Environment, ChildNext

(* Charged or held: what a child has of its account. *)
Booked == [c \in Children |-> charged[c] + held[c]]

TakenOf(a) == Cardinality(UpTo(Ledger!ChildrenOf(a), Booked))
HeldCount == Cardinality(UpTo(Children, Chargeable))

(* The invariant and the ledger count tokens up to levels. *)
TokensCounted ==
  /\ Chargeable \in Levels /\ Booked \in Levels
  /\ HeldTokens = UpTo(Children, Chargeable)
  /\ HeldCount \in Nat
  /\ \A a \in Actions : TakenOf(a) \in Nat
  /\ \A a \in Actions : Ledger!Free(a) = funds[a] - TakenOf(a)

(* They do in every typed state ... *)
LEMMA TokensAreCounted ==
  ASSUME AccountTypes, ChildrenInTurn
  PROVE  TokensCounted
<1>1. \A c \in Children : held[c] \in Nat /\ charged[c] \in Nat
                          /\ charged[c] + held[c] <= ChildBudget
  BY DEF AccountTypes, ChildrenInTurn
<1>2. Chargeable \in Levels /\ Booked \in Levels
  BY <1>1, ActionAssumption DEF AccountTypes, Levels, Booked, Chargeable
<1>3. HeldTokens = UpTo(Children, Chargeable)
  BY DEF HeldTokens, UpTo
<1>4. HeldCount \in Nat
  BY UpToFinite DEF HeldCount
<1>5. ASSUME NEW a \in Actions
      PROVE  TakenOf(a) \in Nat /\ Ledger!Free(a) = funds[a] - TakenOf(a)
  <2>1. Ledger!ChildrenOf(a) \in SUBSET Children
    BY DEF Ledger!ChildrenOf
  <2>2. Ledger!Taken(a) = UpTo(Ledger!ChildrenOf(a), Booked)
    BY DEF Ledger!Taken, UpTo, Ledger!ChildrenOf, Booked
  <2>. QED BY <2>1, <2>2, UpToFinite, LedgerCounts DEF TakenOf, Ledger!Free
<1>. QED BY <1>2, <1>3, <1>4, <1>5 DEF TokensCounted

(* ... and after a step to one. *)
LEMMA TokensAreCountedNext ==
  ASSUME AccountTypes', ChildrenInTurn'
  PROVE  TokensCounted'
<1>1. \A c \in Children : held'[c] \in Nat /\ charged'[c] \in Nat
                          /\ charged'[c] + held'[c] <= ChildBudget
  BY DEF AccountTypes, ChildrenInTurn
<1>2. Chargeable' \in Levels /\ Booked' \in Levels
  BY <1>1, ActionAssumption DEF AccountTypes, Levels, Booked, Chargeable
<1>3. HeldTokens' = UpTo(Children, Chargeable')
  BY DEF HeldTokens, UpTo
<1>4. HeldCount' \in Nat
  BY UpToFinite DEF HeldCount
<1>5. ASSUME NEW a \in Actions
      PROVE  TakenOf(a)' \in Nat /\ Ledger!Free(a)' = funds'[a] - TakenOf(a)'
  <2>1. Ledger!ChildrenOf(a) \in SUBSET Children
    BY DEF Ledger!ChildrenOf
  <2>2. Ledger!Taken(a)' = UpTo(Ledger!ChildrenOf(a), Booked')
    BY DEF Ledger!Taken, UpTo, Ledger!ChildrenOf, Booked
  <2>. QED BY <2>1, <2>2, UpToFinite, LedgerCounts DEF TakenOf, Ledger!Free
<1>. QED BY <1>2, <1>3, <1>4, <1>5 DEF TokensCounted

(* Where only one spawn call moves, it may change what its child is        *)
(* chargeable with.                                                        *)
LEMMA ChargeableMoves ==
  ASSUME TokensCounted, TokensCounted', NEW c \in Children,
         \A d \in Children \ {c} : held'[d] = held[d] /\ spawner'[d] = spawner[d]
  PROVE  HeldCount' = HeldCount + (Chargeable'[c] - Chargeable[c])
<1>1. Chargeable \in Levels /\ Chargeable' \in Levels
  BY DEF TokensCounted
<1>2. \A d \in Children \ {c} : Chargeable'[d] = Chargeable[d]
  BY DEF Chargeable
<1>3. HeldCount' = HeldCount + At(Children, c, Chargeable'[c] - Chargeable[c])
  BY <1>1, <1>2, UpToMoves DEF HeldCount
<1>. QED BY <1>3 DEF At

(* A child waited for contributes what it holds. *)
LEMMA ChargeableCounts ==
  ASSUME AccountTypes, TokensCounted, NEW c \in Children,
         spawner[c] = "waiting"
  PROVE  held[c] <= HeldCount
<1>1. Chargeable \in Levels /\ Chargeable[c] = held[c] /\ held[c] \in Nat
  BY DEF TokensCounted, Chargeable, AccountTypes
<1>2. HeldCount = Cardinality(UpTo(Children \ {c}, Chargeable))
                    + At(Children, c, Chargeable[c])
  BY <1>1, UpToSplit DEF HeldCount
<1>3. Cardinality(UpTo(Children \ {c}, Chargeable)) \in Nat
  BY UpToFinite
<1>4. At(Children, c, Chargeable[c]) = held[c]
  BY <1>1 DEF At
<1>. QED BY <1>1, <1>2, <1>3, <1>4

(* Tokens that are spent move from what is held to what is consumed; the   *)
(* ledger takes neither more nor less.                                     *)
LEMMA SpendCounts ==
  ASSUME AccountTypes, TokensCounted, TokensCounted', NEW c \in Children,
         NEW n \in Nat, Ledger!Spend(c, n), spawner[c] = "waiting",
         \A d \in Children \ {c} : spawner'[d] = spawner[d],
         spawner'[c] = "waiting" \/ n = held[c]
  PROVE  /\ HeldCount' = HeldCount - n
         /\ \A a \in Actions : TakenOf(a)' = TakenOf(a)
         /\ UNCHANGED <<account, funds>>
<1>1. /\ held' = [held EXCEPT ![c] = @ - n]
      /\ charged' = [charged EXCEPT ![c] = @ + n]
      /\ UNCHANGED <<account, funds>>
  BY DEF Ledger!Spend
<1>2. /\ held[c] \in Nat /\ held'[c] = held[c] - n
      /\ \A d \in Children \ {c} : held'[d] = held[d]
  BY <1>1 DEF AccountTypes
<1>3. \A d \in Children : held'[d] + charged'[d] = held[d] + charged[d]
  BY <1>1 DEF AccountTypes
<1>4. HeldCount' = HeldCount + (Chargeable'[c] - Chargeable[c])
  BY <1>2, ChargeableMoves
<1>5. Chargeable[c] = held[c] /\ Chargeable'[c] = held[c] - n
  BY <1>2 DEF Chargeable
<1>6. HeldCount' = HeldCount - n
  BY <1>2, <1>4, <1>5 DEF TokensCounted
<1>7. Booked' = Booked
  <2>1. \A d \in Children : charged'[d] + held'[d] = charged[d] + held[d]
    BY <1>1 DEF AccountTypes
  <2>. QED BY <2>1 DEF Booked
<1>. QED BY <1>1, <1>6, <1>7 DEF TakenOf

(* What a child returns is free again, and held no more. *)
LEMMA ReturnCounts ==
  ASSUME AccountTypes, TokensCounted, TokensCounted', NEW c \in Children,
         Ledger!Return(c), spawner[c] = "waiting",
         \A d \in Children \ {c} : spawner'[d] = spawner[d]
  PROVE  /\ HeldCount' = HeldCount - held[c]
         /\ \A a \in Actions : TakenOf(a)' >= TakenOf(a) - held[c]
         /\ UNCHANGED <<account, funds>>
<1>1. /\ held' = [held EXCEPT ![c] = 0]
      /\ UNCHANGED <<account, funds, charged>>
  BY DEF Ledger!Return
<1>2. /\ held[c] \in Nat /\ held'[c] = 0
      /\ \A d \in Children \ {c} : held'[d] = held[d]
  BY <1>1 DEF AccountTypes
<1>3. HeldCount' = HeldCount + (Chargeable'[c] - Chargeable[c])
  BY <1>2, ChargeableMoves
<1>4. Chargeable'[c] = 0 /\ Chargeable[c] = held[c]
  BY <1>2 DEF Chargeable
<1>5. ASSUME NEW a \in Actions
      PROVE  TakenOf(a)' >= TakenOf(a) - held[c]
  <2>1. Booked \in Levels /\ Booked' \in Levels
    BY DEF TokensCounted
  <2>2. /\ \A d \in Children \ {c} : Booked'[d] = Booked[d]
        /\ Booked'[c] - Booked[c] = 0 - held[c]
    BY <1>1, <1>2 DEF Booked, AccountTypes
  <2>3. Ledger!ChildrenOf(a) \in SUBSET Children
    BY DEF Ledger!ChildrenOf
  <2>4. TakenOf(a)' =
          TakenOf(a) + At(Ledger!ChildrenOf(a), c, Booked'[c] - Booked[c])
    BY <2>1, <2>2, <2>3, UpToMoves DEF TakenOf, Ledger!ChildrenOf
  <2>5. At(Ledger!ChildrenOf(a), c, Booked'[c] - Booked[c])
          \in {0, 0 - held[c]}
    BY <2>2 DEF At
  <2>6. TakenOf(a) \in Nat
    BY DEF TokensCounted
  <2>. QED BY <1>2, <2>4, <2>5, <2>6
<1>6. HeldCount' = HeldCount - held[c]
  <2>1. HeldCount \in Nat
    BY DEF TokensCounted
  <2>. QED BY <1>2, <1>3, <1>4, <2>1
<1>. QED BY <1>1, <1>5, <1>6

(* What is granted is held and taken. *)
LEMMA GrantCounts ==
  ASSUME AccountTypes, AccountTypes', TokensCounted, TokensCounted',
         NEW c \in Children, Ledger!Grant(c), held'[c] > 0,
         held[c] = 0, spawner'[c] = "waiting",
         \A d \in Children \ {c} : spawner'[d] = spawner[d]
  PROVE  /\ HeldCount' = HeldCount + held'[c]
         /\ TakenOf(ParentOf[c])' = TakenOf(ParentOf[c]) + held'[c]
<1>1. /\ held' = [held EXCEPT ![c] = held'[c]]
      /\ held'[c] \in Nat
      /\ UNCHANGED charged
  BY GrantEffect DEF AccountTypes
<1>2. \A d \in Children \ {c} : held'[d] = held[d]
  BY <1>1 DEF AccountTypes
<1>3. HeldCount' = HeldCount + held'[c]
  <2>1. HeldCount' = HeldCount + (Chargeable'[c] - Chargeable[c])
    BY <1>2, ChargeableMoves
  <2>2. Chargeable'[c] = held'[c] /\ Chargeable[c] = 0
    BY DEF Chargeable
  <2>. QED BY <1>1, <2>1, <2>2
<1>5. TakenOf(ParentOf[c])' = TakenOf(ParentOf[c]) + held'[c]
  <2>. DEFINE S == Ledger!ChildrenOf(ParentOf[c])
  <2>1. Booked \in Levels /\ Booked' \in Levels
    BY DEF TokensCounted
  <2>2. /\ \A d \in Children \ {c} : Booked'[d] = Booked[d]
        /\ Booked'[c] - Booked[c] = held'[c]
    BY <1>1, <1>2 DEF Booked, AccountTypes
  <2>3. S \in SUBSET Children /\ c \in S /\ S' = S
    BY DEF Ledger!ChildrenOf
  <2>4. TakenOf(ParentOf[c])' =
          TakenOf(ParentOf[c]) + At(S, c, Booked'[c] - Booked[c])
    BY <2>1, <2>2, <2>3, UpToMoves DEF TakenOf
  <2>5. At(S, c, Booked'[c] - Booked[c]) = held'[c]
    BY <2>2, <2>3 DEF At
  <2>. QED BY <2>4, <2>5
<1>. QED BY <1>3, <1>5

(* Where no result is pending nothing can be charged. *)
LEMMA NobodyHolds ==
  ASSUME Pending = {}
  PROVE  HeldCount = 0
<1>1. \A c \in Children : Chargeable[c] = 0
  BY DEF Pending, Chargeable
<1>2. UpTo(Children, Chargeable) = {}
  BY <1>1, ActionAssumption DEF UpTo
<1>. QED BY <1>2, FS_EmptySet DEF HeldCount

(* BudgetCovered in terms of the counts. *)
Covered ==
  /\ consumed + HeldCount <= MaxTokens
  /\ \A a \in Actions : account[a] = "open" =>
       consumed + HeldCount + funds[a] - TakenOf(a) <= MaxTokens

(* The two say the same ... *)
LEMMA CoveredIsBudgetCovered ==
  ASSUME AccountTypes, TokensCounted
  PROVE  Covered <=> BudgetCovered
<1>1. Cardinality(HeldTokens) = HeldCount
  BY DEF TokensCounted, HeldCount
<1>2. consumed \in Nat /\ HeldCount \in Nat
  BY DEF AccountTypes, TokensCounted
<1>3. ASSUME NEW a \in Actions
      PROVE  consumed + HeldCount + funds[a] - TakenOf(a) =
               consumed + HeldCount + Ledger!Free(a)
  <2>1. funds[a] \in Nat /\ TakenOf(a) \in Nat
        /\ Ledger!Free(a) = funds[a] - TakenOf(a)
    BY DEF AccountTypes, TokensCounted
  <2>. QED BY <1>2, <2>1
<1>. QED BY <1>1, <1>3 DEF Covered, BudgetCovered

(* ... after a step, too. *)
LEMMA CoveredIsBudgetCoveredNext ==
  ASSUME AccountTypes', TokensCounted'
  PROVE  Covered' => BudgetCovered'
<1>1. Cardinality(HeldTokens)' = HeldCount'
  BY DEF TokensCounted, HeldCount
<1>2. consumed' \in Nat /\ HeldCount' \in Nat
  BY DEF AccountTypes, TokensCounted
<1>3. ASSUME NEW a \in Actions
      PROVE  consumed' + HeldCount' + funds'[a] - TakenOf(a)' =
               consumed' + HeldCount' + Ledger!Free(a)'
  <2>1. funds'[a] \in Nat /\ TakenOf(a)' \in Nat
        /\ Ledger!Free(a)' = funds'[a] - TakenOf(a)'
    BY DEF AccountTypes, TokensCounted
  <2>. QED BY <1>2, <2>1
<1>. QED BY <1>1, <1>3 DEF Covered, BudgetCovered

(* A smaller summand keeps a sum within its limit. *)
LEMMA SmallerSummand ==
  ASSUME NEW a \in Nat, NEW b \in Nat, NEW c \in Nat, NEW limit \in Nat,
         c <= b, a + b <= limit
  PROVE  a + c <= limit
OBVIOUS

(* The turn accepts what a child that is waited for is charged with. *)
LEMMA Accepted ==
  ASSUME AccountTypes, TokensCounted, Covered, NEW c \in Children,
         spawner[c] = "waiting", NEW n \in Nat, n <= held[c], Charge(c, n)
  PROVE  /\ ~Refuses(n)
         /\ consumed' = consumed + n
         /\ UNCHANGED refused
<1>1. held[c] <= HeldCount
  BY ChargeableCounts
<1>2. consumed \in Nat /\ HeldCount \in Nat /\ held[c] \in Nat
  BY DEF AccountTypes, TokensCounted
<1>3. n <= MaxTokens - consumed
  <2>1. consumed + HeldCount <= MaxTokens
    BY DEF Covered
  <2>. QED BY <1>1, <1>2, <2>1, ActionAssumption
<1>4. ~Refuses(n)
  BY <1>2, <1>3, ActionAssumption DEF Refuses, Remaining
<1>. QED BY <1>4 DEF Charge

(* The turn's budget covers what is held and what may be granted, so that  *)
(* no charge is refused.                                                   *)
LEMMA CoveredStep ==
  ASSUME IInv, TypeOK', ChildrenInTurn', [Next]_vars
  PROVE  BudgetCovered' /\ ChargesAccepted'
<1>a. /\ AccountTypes /\ AccountTypes' /\ CallTypes /\ BoxTypes
      /\ Located /\ ChildrenInTurn /\ ChargesAccepted
      /\ TokensCounted /\ TokensCounted'
      /\ Covered
  BY TokensAreCounted, TokensAreCountedNext, CoveredIsBudgetCovered
  DEF IInv, TypeOK
<1>. DEFINE Goal == Covered' /\ UNCHANGED refused
<1>. SUFFICES Goal
  BY <1>a, CoveredIsBudgetCoveredNext DEF ChargesAccepted
<1>n. /\ consumed \in Nat /\ consumed' \in Nat /\ MaxTokens \in Nat
      /\ HeldCount \in Nat /\ HeldCount' \in Nat
      /\ \A a \in Actions : /\ funds[a] \in Nat /\ funds'[a] \in Nat
                            /\ TakenOf(a) \in Nat /\ TakenOf(a)' \in Nat
      /\ \A c \in Children : held[c] \in Nat /\ held'[c] \in Nat
                             /\ ParentOf[c] \in Actions
  BY <1>a, ActionAssumption DEF AccountTypes, TokensCounted
<1>m. /\ consumed \in Nat /\ MaxTokens \in Nat
      /\ HeldCount \in Nat /\ HeldCount' \in Nat
  BY <1>n
<1>b. ASSUME UNCHANGED <<consumed, ledger>>, Chargeable' = Chargeable
      PROVE  Covered'
  <2>1. UNCHANGED <<consumed, account, funds, HeldCount>>
    BY <1>b DEF ledger, HeldCount
  <2>2. \A a \in Actions : TakenOf(a)' = TakenOf(a)
    BY <1>b DEF ledger, TakenOf, Booked
  <2>. QED BY <1>a, <2>1, <2>2 DEF Covered
<1>s. ASSUME UNCHANGED <<consumed, ledger, spawner>>
      PROVE  Covered'
  BY <1>b, <1>s DEF Chargeable, ledger
<1>c. ASSUME Tombstone, consumed' = consumed,
             \A c \in Children : spawner'[c] = "waiting" => spawner[c] = "waiting"
      PROVE  Covered'
  <2>1. /\ \A c \in Children : held'[c] <= held[c]
        /\ \A a \in Actions : account'[a] # "open"
    BY <1>a, <1>c, <1>n, TombstoneEffect DEF Located, AccountTypes
  <2>2. \A c \in Children : Chargeable'[c] <= Chargeable[c]
    BY <1>c, <1>n, <2>1 DEF Chargeable
  <2>3. HeldCount' <= HeldCount
    BY <1>a, <2>2, UpToShrinks DEF HeldCount, TokensCounted
  <2>4. consumed + HeldCount <= MaxTokens
    BY <1>a DEF Covered
  <2>5. consumed' + HeldCount' <= MaxTokens
    <3>1. consumed + HeldCount' <= MaxTokens
      BY <1>m, <2>3, <2>4, SmallerSummand
    <3>. QED BY <1>c, <3>1
  <2>. QED BY <2>1, <2>5 DEF Covered
<1>d. ASSUME NEW c \in Children, NEW n \in Nat, Charge(c, n),
             spawner[c] = "waiting",
             \A d \in Children \ {c} : spawner'[d] = spawner[d],
             spawner'[c] = "waiting" \/ n = held[c]
      PROVE  Goal
  <2>1. Ledger!Spend(c, n) /\ n <= held[c]
    BY <1>d DEF Charge, Ledger!Spend
  <2>2. consumed' = consumed + n /\ UNCHANGED refused
    BY <1>a, <1>d, <2>1, Accepted
  <2>3. /\ HeldCount' = HeldCount - n
        /\ \A a \in Actions : TakenOf(a)' = TakenOf(a)
        /\ UNCHANGED <<account, funds>>
    BY <1>a, <1>d, <2>1, SpendCounts
  <2>4. consumed' + HeldCount' = consumed + HeldCount
    BY <1>d, <1>n, <2>2, <2>3
  <2>. QED BY <1>a, <2>2, <2>3, <2>4 DEF Covered
<1>k. ASSUME NEW c \in Children, Forfeit(c), spawner[c] = "waiting"
      PROVE  Goal
  <2>1. /\ Charge(c, held[c]) /\ held[c] \in Nat
        /\ \A d \in Children \ {c} : spawner'[d] = spawner[d]
    BY <1>a, <1>k, <1>n DEF Forfeit, Settled, BoxTypes
  <2>. QED BY <1>d, <1>k, <2>1
<1>e. ASSUME NEW c \in Children, Ledger!Return(c), consumed' = consumed,
             spawner[c] = "waiting",
             \A d \in Children \ {c} : spawner'[d] = spawner[d]
      PROVE  Covered'
  <2>1. /\ HeldCount' = HeldCount - held[c]
        /\ \A a \in Actions : TakenOf(a)' >= TakenOf(a) - held[c]
        /\ UNCHANGED <<account, funds>>
    BY <1>a, <1>e, ReturnCounts
  <2>2. consumed' + HeldCount' <= MaxTokens
    BY <1>a, <1>e, <1>n, <2>1 DEF Covered
  <2>3. ASSUME NEW a \in Actions, account'[a] = "open"
        PROVE  consumed' + HeldCount' + funds'[a] - TakenOf(a)' <= MaxTokens
    <3>1. consumed + HeldCount + funds[a] - TakenOf(a) <= MaxTokens
      BY <1>a, <2>1, <2>3 DEF Covered
    <3>2. TakenOf(a)' >= TakenOf(a) - held[c] /\ funds'[a] = funds[a]
      BY <2>1
    <3>. QED BY <1>e, <1>n, <2>1, <3>1, <3>2
  <2>. QED BY <2>2, <2>3 DEF Covered
<1>f. ASSUME NEW c \in Children, Ledger!Grant(c), held'[c] > 0,
             consumed' = consumed, spawner'[c] = "waiting",
             \A d \in Children \ {c} : spawner'[d] = spawner[d]
      PROVE  Covered'
  <2>. DEFINE p == ParentOf[c]
  <2>1. /\ account[p] = "open" /\ c \notin granted
        /\ held'[c] <= Ledger!Free(p)
        /\ UNCHANGED <<account, funds>>
    BY <1>a, <1>f, GrantEffect
  <2>2. held[c] = 0
    BY <1>a, <2>1 DEF ChildrenInTurn
  <2>3. HeldCount' = HeldCount + held'[c]
        /\ TakenOf(p)' = TakenOf(p) + held'[c]
    BY <1>a, <1>f, <2>2, GrantCounts
  <2>4. consumed + HeldCount + funds[p] - TakenOf(p) <= MaxTokens
    BY <1>a, <1>n, <2>1 DEF Covered
  <2>5. held'[c] <= funds[p] - TakenOf(p)
    BY <1>a, <1>n, <2>1 DEF TokensCounted
  <2>6. consumed' + HeldCount' <= MaxTokens
    BY <1>f, <1>n, <2>3, <2>4, <2>5
  <2>7. consumed' + HeldCount' + funds'[p] - TakenOf(p)' <= MaxTokens
    <3>1. funds'[p] = funds[p]
      BY <2>1
    <3>. QED BY <1>f, <1>n, <2>3, <2>4, <3>1
  <2>8. \A a \in Actions : account'[a] = "open" => a = p
    BY <1>a, <1>n, <2>1 DEF Located
  <2>. QED BY <2>6, <2>7, <2>8 DEF Covered
<1>g. ASSUME Pending = {}, \A a \in Actions : account'[a] # "open",
             consumed' <= MaxTokens, UNCHANGED <<held, spawner>>
      PROVE  Covered'
  <2>1. HeldCount' = 0
    BY <1>g, NobodyHolds DEF HeldCount, Chargeable
  <2>2. consumed' + HeldCount' <= MaxTokens
    <3>1. consumed' \in Nat
      BY <1>n
    <3>. QED BY <1>g, <2>1, <3>1
  <2>. QED BY <1>g, <2>2 DEF Covered
<1>h. ASSUME pc # "script" \/ at \in {"idle", "over"}
      PROVE  Pending = {} /\ \A a \in Actions : account[a] # "open"
  BY <1>a, <1>h DEF Located
<1>1. CASE NextIteration \/ Reject \/ AskUser \/ StartTool \/ ToolReturns
             \/ ScriptReturns
  BY <1>1, <1>s
  DEF NextIteration, Reject, AskUser, StartTool, ToolReturns, ScriptReturns,
      actionVars, boxes, runners
<1>2. CASE Answers \/ StreamFails
  <2>1. PICK n \in Nat : n <= Remaining /\ consumed' = consumed + n
    BY <1>2 DEF Answers, StreamFails
  <2>2. consumed' <= MaxTokens
    BY <1>n, <2>1 DEF Remaining
  <2>3. pc = "model" /\ UNCHANGED ledger /\ UNCHANGED <<spawner, refused>>
    BY <1>2 DEF Answers, StreamFails, boxes, runners
  <2>. QED BY <1>g, <1>h, <2>2, <2>3 DEF ledger
<1>3. CASE StartScript
  <2>1. /\ Begin /\ UNCHANGED consumed /\ at \in {"idle", "over"}
        /\ UNCHANGED <<spawner, refused>>
    BY <1>3 DEF StartScript, Begin, boxes, runners
  <2>2. CASE UNCHANGED ledger
    BY <1>s, <2>1, <2>2
  <2>3. CASE Ledger!Open(action + 1, Remaining) /\ action + 1 \in Actions
    <3>1. /\ account[action + 1] = "absent"
          /\ account' = [account EXCEPT ![action + 1] = "open"]
          /\ funds' = [funds EXCEPT ![action + 1] = Remaining]
          /\ UNCHANGED <<charged, held, granted>>
      BY <2>3 DEF Ledger!Open
    <3>2. HeldCount' = 0
      BY <1>h, <2>1, <3>1, NobodyHolds DEF HeldCount, Chargeable
    <3>3. \A a \in Actions : account'[a] = "open" => a = action + 1
      BY <1>a, <1>h, <2>1, <3>1 DEF AccountTypes
    <3>4. funds'[action + 1] = MaxTokens - consumed
      BY <1>a, <2>3, <3>1 DEF AccountTypes, Remaining
    <3>5. consumed' <= MaxTokens
      BY <1>a, <1>n, <2>1 DEF Covered
    <3>. QED BY <1>n, <2>1, <2>3, <3>2, <3>3, <3>4, <3>5 DEF Covered
  <2>. QED BY <2>1, <2>2, <2>3 DEF Begin, BudgetOfAction
<1>4. CASE Cancel
  <2>1. UNCHANGED <<consumed, ledger>> /\ UNCHANGED <<spawner, refused>>
    BY <1>4 DEF Cancel, Struck, actionVars, boxes, runners
  <2>. QED BY <1>s, <2>1
<1>5. CASE CallNext
  <2>1. UNCHANGED <<consumed, spawner, refused>>
    BY <1>5, CallShape DEF runners
  <2>. QED BY <1>5, <1>s, <1>c, <2>1, CallShape
<1>6. CASE ParentEnds
  BY <1>6, <1>s DEF ParentEnds, boxes, runners
<1>7. ASSUME NEW c \in Children, ChildNext(c)
      PROVE  Goal
  <2>1. CASE Spawn(c)
    <3>1. /\ Ledger!Grant(c) /\ held'[c] > 0 /\ UNCHANGED <<consumed, refused>>
          /\ spawner'[c] = "waiting"
          /\ \A d \in Children \ {c} : spawner'[d] = spawner[d]
      BY <1>a, <2>1 DEF Spawn, BoxTypes
    <3>. QED BY <1>f, <3>1
  <2>2. CASE Allocates(c) \/ RunEnds(c) \/ Recycles(c)
    BY <1>s, <2>2 DEF Allocates, RunEnds, Recycles
  <2>3. CASE Think(c)
    <3>1. /\ c \in Alive /\ held[c] # 0 /\ Charge(c, 1) /\ UNCHANGED spawner
      BY <2>3, <1>n DEF Think, Alive
    <3>2. spawner[c] = "waiting"
      BY <1>a, <3>1 DEF ChildrenInTurn
    <3>. QED BY <1>d, <3>1, <3>2
  <2>4. CASE Deadline(c)
    BY <1>k, <2>4 DEF Deadline
  <2>5. CASE Settles(c)
    <3>1. CASE c \in doomed /\ Settled(c) /\ UNCHANGED <<consumed, refused, ledger>>
      <4>1. held[c] = 0 /\ \A d \in Children \ {c} : spawner'[d] = spawner[d]
        BY <1>a, <3>1 DEF ChildrenInTurn, Settled
      <4>2. Chargeable' = Chargeable
        BY <3>1, <4>1 DEF Chargeable, ledger
      <4>. QED BY <1>b, <3>1, <4>2 DEF ledger
    <3>2. CASE Settled(c) /\ Ledger!Return(c) /\ UNCHANGED <<consumed, refused>>
      <4>1. \A d \in Children \ {c} : spawner'[d] = spawner[d]
        BY <3>2 DEF Settled
      <4>. QED BY <1>e, <2>5, <3>2, <4>1 DEF Settles
    <3>3. CASE Forfeit(c)
      BY <1>k, <2>5, <3>3 DEF Settles
    <3>. QED BY <2>5, <3>1, <3>2, <3>3 DEF Settles
  <2>6. CASE Persists(c)
    <3>1. Chargeable' = Chargeable
      BY <2>6, <1>a DEF Persists, Chargeable, ledger, BoxTypes
    <3>. QED BY <1>b, <2>6, <3>1 DEF Persists
  <2>7. CASE CallerCancelled(c)
    <3>1. CASE Tombstone /\ Settled(c)
      <4>1. \A d \in Children : spawner'[d] = "waiting" => spawner[d] = "waiting"
        BY <1>a, <3>1 DEF Settled, BoxTypes
      <4>. QED BY <1>c, <2>7, <3>1, <4>1 DEF CallerCancelled
    <3>2. CASE /\ spawner[c] = "settled"
               /\ spawner' = [spawner EXCEPT ![c] = "torn"]
               /\ UNCHANGED ledger
      <4>1. Chargeable' = Chargeable
        BY <3>2, <1>a DEF Chargeable, ledger, BoxTypes
      <4>. QED BY <1>b, <2>7, <3>2, <4>1 DEF CallerCancelled
    <3>. QED BY <2>7, <3>1, <3>2 DEF CallerCancelled
  <2>. QED BY <1>7, <2>1, <2>2, <2>3, <2>4, <2>5, <2>6, <2>7 DEF ChildNext
<1>8. CASE UNCHANGED vars
  BY <1>8, <1>s DEF vars, actionVars, boxes, runners
<1>. QED
  BY <1>1, <1>2, <1>3, <1>4, <1>5, <1>6, <1>7, <1>8
  DEF Next, LoopNext, Environment

(* A call without anything to report has come through its cleanup. *)
LEMMA CleanStep ==
  ASSUME IInv, [Next]_vars
  PROVE  SucceedingIsClean'
<1>a. CallTypes /\ Located /\ SucceedingIsClean
  BY DEF IInv, TypeOK
<1>. DEFINE done == <<at, parentTask, quiesced, finalized, closed, parentError,
                      raised>>
<1>b. ASSUME UNCHANGED done
      PROVE  SucceedingIsClean'
  BY <1>a, <1>b DEF SucceedingIsClean
<1>1. CASE StartScript
  BY <1>1 DEF StartScript, Begin, Goto, SucceedingIsClean
<1>2. CASE LoopNext /\ ~StartScript
  <2>1. UNCHANGED done
    BY <1>2
    DEF LoopNext, NextIteration, Answers, StreamFails, Reject, AskUser,
        StartTool, ToolReturns, ScriptReturns, actionVars, script
  <2>. QED BY <1>b, <2>1
<1>3. CASE Environment
  <2>1. CASE ParentEnds
    <3>1. /\ at \in {"polling", "leaving", "killing"}
          /\ at = "leaving" => parentTask = "running"
          /\ UNCHANGED <<at, quiesced, finalized, closed, parentError, raised>>
      BY <2>1, <1>a DEF ParentEnds, Located
    <3>. QED BY <1>a, <3>1 DEF SucceedingIsClean
  <2>2. ASSUME Environment, ~ParentEnds
        PROVE  UNCHANGED done
    BY <2>2
    DEF Environment, ChildNext, Spawn, Allocates, Think, RunEnds, Recycles,
        Deadline, Settles, Persists, CallerCancelled, script
  <2>. QED BY <1>3, <1>b, <2>1, <2>2
<1>4. CASE CallNext \/ Struck
  <2>. USE DEF SucceedingIsClean, Goto, Leave, End, FinalizeLate, CleanupFails,
               ParentDone
  <2>1. CASE SocketOpens
    BY <2>1, <1>a DEF SocketOpens
  <2>2. CASE SocketFails
    BY <2>2, <1>a DEF SocketFails
  <2>3. CASE LoopEnds
    BY <2>3, <1>a DEF LoopEnds
  <2>4. CASE RuntimeStops
    BY <2>4, <1>a DEF RuntimeStops
  <2>5. CASE Finalize
    BY <2>5, <1>a DEF Finalize, FilesRemoved
  <2>6. CASE RunCleaned
    BY <2>6, <1>a DEF RunCleaned, Finally, AfterKill
  <2>7. CASE ParentKilled
    BY <2>7, <1>a DEF ParentKilled, AfterKill
  <2>8. CASE RuntimeStopsLate
    BY <2>8, <1>a DEF RuntimeStopsLate
  <2>9. CASE FinalizedLate
    BY <2>9, <1>a DEF FinalizedLate, FilesRemoved
  <2>10. CASE AuthorityCloses
    BY <2>10, <1>a DEF AuthorityCloses
  <2>11. CASE Struck
    BY <2>11, <1>a DEF Struck, script
  <2>. QED
    BY <1>4, <2>1, <2>2, <2>3, <2>4, <2>5, <2>6, <2>7, <2>8, <2>9, <2>10,
       <2>11
    DEF CallNext
<1>5. CASE Cancel
  <2>1. CASE UNCHANGED actionVars
    BY <1>b, <2>1 DEF actionVars, script
  <2>. QED BY <1>5, <1>4, <2>1 DEF Cancel
<1>6. CASE UNCHANGED vars
  BY <1>6, <1>b DEF vars, actionVars, script
<1>. QED BY <1>1, <1>2, <1>3, <1>4, <1>5, <1>6 DEF Next

-----------------------------------------------------------------------------
(* The inductive invariant *)

(* A turn begins with nothing spent, held or alive. *)
LEMMA IInvInit == Init => IInv
<1>. SUFFICES ASSUME Init PROVE IInv
  OBVIOUS
<1>. USE DEF Init, CallInit, Ledger!Init
<1>1. LoopTypes
  BY LoopAssumption DEF LoopTypes
<1>2. CallTypes /\ BoxTypes /\ AccountTypes
  BY DEF CallTypes, BoxTypes, AccountTypes
<1>3. Alive = {} /\ Pending = {}
  BY DEF Alive, Pending
<1>4. Located
  BY <1>3 DEF Located
<1>5. ChildrenInTurn /\ ChargesAccepted
  BY <1>3, ActionAssumption DEF ChildrenInTurn, ChargesAccepted
<1>6. TokensCounted
  BY <1>2, <1>5, TokensAreCounted
<1>7. HeldCount = 0
  BY <1>3, NobodyHolds
<1>8. Covered
  BY <1>7, ActionAssumption DEF Covered
<1>9. BudgetCovered
  BY <1>2, <1>6, <1>8, CoveredIsBudgetCovered
<1>10. SucceedingIsClean
  BY DEF SucceedingIsClean
<1>. QED
  BY <1>1, <1>2, <1>4, <1>5, <1>9, <1>10 DEF IInv, TypeOK

(* Every step keeps all parts of the invariant. *)
LEMMA IInvStep ==
  ASSUME IInv, [Next]_vars
  PROVE  IInv'
<1>1. TypeOK'
  BY TypesStep DEF IInv
<1>2. Located'
  BY LocatedStep
<1>3. ChildrenInTurn'
  BY <1>1, ChildrenStep
<1>4. BudgetCovered' /\ ChargesAccepted'
  BY <1>1, <1>3, CoveredStep
<1>5. SucceedingIsClean'
  BY CleanStep
<1>. QED BY <1>1, <1>2, <1>3, <1>4, <1>5 DEF IInv

(* What is alive, pending or open at each location of the call, that       *)
(* children live during their own action only, that the budget covers what *)
(* they may be charged with or granted, and what a call without an error   *)
(* has come through: this holds in every state of run_agent's turn, for    *)
(* any number of actions, children and cancellations.                      *)
THEOREM Inductive == Spec => []IInv
<1>1. Init => IInv
  BY IInvInit
<1>2. IInv /\ [Next]_vars => IInv'
  BY IInvStep
<1>. QED BY <1>1, <1>2, PTL DEF Spec

(* Every variable of a turn keeps its type. *)
THEOREM Typed == Spec => []TypeOK
<1>1. IInv => TypeOK
  BY DEF IInv
<1>. QED BY <1>1, Inductive, PTL

(* When stream_code_as_action is through, whatever way it ended and        *)
(* however often the turn's task and the spawn calls of its children were  *)
(* cancelled meanwhile, no parent, child, socket, account or unwritten     *)
(* result of the action is left, and no child has ended with a container   *)
(* it knew of.                                                             *)
THEOREM NothingOutlives == Spec => []NothingOutlivesAction
<1>1. ASSUME IInv, pc # "script"
      PROVE  /\ parentTask \notin {"running", "killed"}
             /\ ~listening
             /\ Alive = {} /\ Pending = {}
             /\ \A c \in Children : box[c] # "held"
             /\ \A a \in Actions : account[a] # "open"
  <2>1. at \in {"idle", "over"} /\ Located /\ ChildrenInTurn
    BY <1>1 DEF IInv, Located
  <2>2. Alive = {} /\ Pending = {}
    BY <2>1 DEF Located
  <2>3. ASSUME NEW c \in Children
        PROVE  box[c] # "held"
    <3>1. child[c] \in {"unborn", "ended"}
      BY <2>2 DEF Alive
    <3>. QED BY <2>1, <3>1 DEF ChildrenInTurn
  <2>. QED BY <2>1, <2>2, <2>3 DEF Located
<1>2. IInv => NothingOutlivesAction
  BY <1>1 DEF NothingOutlivesAction
<1>. QED BY <1>2, Inductive, PTL

(* _TurnBudget never refuses a charge of a child, for every budget, every  *)
(* number of actions and children, and every order of their grants, tokens,*)
(* deadlines, results and cancellations: no spawn call is left with an     *)
(* error of the turn before its result is written.                         *)
THEOREM NoChargeRefused == Spec => []ChargesAccepted
<1>1. IInv => ChargesAccepted
  BY DEF IInv
<1>. QED BY <1>1, Inductive, PTL

(* A script reported without an error went through the whole of the        *)
(* finally clause: parent gone, runtime quiet, artifacts finalized,        *)
(* authority closed.                                                       *)
THEOREM SuccessLeavesNothing == Spec => []SuccessIsClean
<1>1. IInv => SuccessIsClean
  BY DEF IInv, SucceedingIsClean, SuccessIsClean
<1>. QED BY <1>1, Inductive, PTL
=============================================================================
