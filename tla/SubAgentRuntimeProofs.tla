----------------------- MODULE SubAgentRuntimeProofs -----------------------
(***************************************************************************)
(* Proofs about SubAgentRuntime for every set of parents, every finite set *)
(* of children and every limit.                                            *)
(*                                                                         *)
(* The counters of the runtime are compared with sets of tokens, whose     *)
(* cardinalities stand for the sums: first the arithmetic of token sets,   *)
(* then the inductive invariant IInv, one lemma per action that disturbs   *)
(* it, and the theorems.                                                   *)
(***************************************************************************)
EXTENDS SubAgentRuntime, FiniteSetTheorems, TLAPS

Amounts == [Children -> 0..ChildBudget]

-----------------------------------------------------------------------------
(* Token sets *)

(* Token sets are finite. *)
LEMMA TokensFinite ==
  ASSUME NEW S \in SUBSET Children, NEW lo, NEW hi
  PROVE  /\ IsFiniteSet(Tokens(S, lo, hi))
         /\ Cardinality(Tokens(S, lo, hi)) \in Nat
<1>1. IsFiniteSet(S)
  BY ChildrenAssumption, FS_Subset
<1>2. IsFiniteSet(1..ChildBudget)
  BY LimitAssumption, FS_Interval
<1>3. IsFiniteSet(S \X (1..ChildBudget))
  BY <1>1, <1>2, FS_Product
<1>4. Tokens(S, lo, hi) \in SUBSET (S \X (1..ChildBudget))
  BY DEF Tokens
<1>5. IsFiniteSet(Tokens(S, lo, hi))
  BY <1>3, <1>4, FS_Subset
<1>. QED BY <1>5, FS_CardinalityType

(* An interval that starts above a has b - a elements. *)
LEMMA IntervalAbove ==
  ASSUME NEW a \in Nat, NEW b \in Nat, a <= b
  PROVE  IsFiniteSet((a + 1)..b) /\ Cardinality((a + 1)..b) = b - a
<1>1. a + 1 \in Int /\ b \in Int
  OBVIOUS
<1>2. /\ IsFiniteSet((a + 1)..b)
      /\ Cardinality((a + 1)..b) =
           IF a + 1 > b THEN 0 ELSE b - (a + 1) + 1
  BY <1>1, FS_Interval
<1>3. (IF a + 1 > b THEN 0 ELSE b - (a + 1) + 1) = b - a
  OBVIOUS
<1>. QED BY <1>2, <1>3

(* One child has as many tokens between lo and hi as their difference. *)
LEMMA TokensOfOne ==
  ASSUME NEW c \in Children, NEW lo \in Amounts, NEW hi \in Amounts,
         lo[c] <= hi[c]
  PROVE  Cardinality(Tokens({c}, lo, hi)) = hi[c] - lo[c]
<1>1. lo[c] \in 0..ChildBudget /\ hi[c] \in 0..ChildBudget
  BY DEF Amounts
<1>2. lo[c] \in Nat /\ hi[c] \in Nat
  BY <1>1, LimitAssumption
<1>3. Tokens({c}, lo, hi) = {c} \X ((lo[c] + 1)..hi[c])
  BY <1>1, LimitAssumption DEF Tokens
<1>4. /\ IsFiniteSet((lo[c] + 1)..hi[c])
      /\ Cardinality((lo[c] + 1)..hi[c]) = hi[c] - lo[c]
  BY <1>2, IntervalAbove
<1>5. IsFiniteSet({c}) /\ Cardinality({c}) = 1
  BY FS_Singleton
<1>6. Cardinality({c} \X ((lo[c] + 1)..hi[c])) =
        Cardinality({c}) * Cardinality((lo[c] + 1)..hi[c])
  BY <1>4, <1>5, FS_Product
<1>7. Cardinality(Tokens({c}, lo, hi)) = 1 * (hi[c] - lo[c])
  BY <1>3, <1>4, <1>5, <1>6
<1>. QED BY <1>2, <1>7

(* Taking the children in T out of S takes their tokens out. *)
LEMMA TokensDifference ==
  ASSUME NEW S \in SUBSET Children, NEW T \in SUBSET S, NEW lo, NEW hi
  PROVE  Cardinality(Tokens(S \ T, lo, hi)) =
           Cardinality(Tokens(S, lo, hi)) - Cardinality(Tokens(T, lo, hi))
<1>1. Tokens(S \ T, lo, hi) = Tokens(S, lo, hi) \ Tokens(T, lo, hi)
  BY DEF Tokens
<1>2. Tokens(S, lo, hi) \cap Tokens(T, lo, hi) = Tokens(T, lo, hi)
  BY DEF Tokens
<1>3. IsFiniteSet(Tokens(S, lo, hi))
  BY TokensFinite
<1>4. Cardinality(Tokens(S, lo, hi) \ Tokens(T, lo, hi)) =
        Cardinality(Tokens(S, lo, hi))
          - Cardinality(Tokens(S, lo, hi) \cap Tokens(T, lo, hi))
  BY <1>3, FS_Difference
<1>. QED BY <1>1, <1>2, <1>4

(* The tokens of S depend on the amounts of the children in S only. *)
LEMMA TokensSame ==
  ASSUME NEW S, NEW lo, NEW hi, NEW lo2, NEW hi2,
         \A d \in S : lo2[d] = lo[d] /\ hi2[d] = hi[d]
  PROVE  Tokens(S, lo2, hi2) = Tokens(S, lo, hi)
BY DEF Tokens

(* what child c contributes to the tokens of S *)
Share(S, c, lo, hi) == IF c \in S THEN hi[c] - lo[c] ELSE 0

(* A child's share can be split off. *)
LEMMA TokensSplit ==
  ASSUME NEW S \in SUBSET Children, NEW c \in Children,
         NEW lo \in Amounts, NEW hi \in Amounts,
         c \in S => lo[c] <= hi[c]
  PROVE  Cardinality(Tokens(S, lo, hi)) =
           Cardinality(Tokens(S \ {c}, lo, hi)) + Share(S, c, lo, hi)
<1>1. CASE c \in S
  <2>1. {c} \in SUBSET S
    BY <1>1
  <2>2. Cardinality(Tokens(S \ {c}, lo, hi)) =
          Cardinality(Tokens(S, lo, hi)) - Cardinality(Tokens({c}, lo, hi))
    BY <2>1, TokensDifference
  <2>3. Cardinality(Tokens({c}, lo, hi)) = hi[c] - lo[c]
    BY <1>1, TokensOfOne
  <2>4. lo[c] \in Int /\ hi[c] \in Int
    BY LimitAssumption DEF Amounts
  <2>5. Cardinality(Tokens(S, lo, hi)) \in Nat
    BY TokensFinite
  <2>. QED BY <1>1, <2>2, <2>3, <2>4, <2>5 DEF Share
<1>2. CASE c \notin S
  <2>1. S \ {c} = S
    BY <1>2
  <2>2. Cardinality(Tokens(S, lo, hi)) \in Nat
    BY TokensFinite
  <2>. QED BY <1>2, <2>1, <2>2 DEF Share
<1>. QED BY <1>1, <1>2

(* When only child c changes, the cardinality moves by its share. *)
LEMMA TokensMoveByShare ==
  ASSUME NEW S \in SUBSET Children, NEW S2 \in SUBSET Children,
         NEW c \in Children,
         NEW lo \in Amounts, NEW hi \in Amounts,
         NEW lo2 \in Amounts, NEW hi2 \in Amounts,
         c \in S => lo[c] <= hi[c],
         c \in S2 => lo2[c] <= hi2[c],
         S2 \ {c} = S \ {c},
         \A d \in S \ {c} : lo2[d] = lo[d] /\ hi2[d] = hi[d]
  PROVE  Cardinality(Tokens(S2, lo2, hi2)) =
           Cardinality(Tokens(S, lo, hi))
             + Share(S2, c, lo2, hi2) - Share(S, c, lo, hi)
<1>1. Cardinality(Tokens(S, lo, hi)) =
        Cardinality(Tokens(S \ {c}, lo, hi)) + Share(S, c, lo, hi)
  BY TokensSplit
<1>2. Cardinality(Tokens(S2, lo2, hi2)) =
        Cardinality(Tokens(S2 \ {c}, lo2, hi2)) + Share(S2, c, lo2, hi2)
  BY TokensSplit
<1>3. Tokens(S2 \ {c}, lo2, hi2) = Tokens(S \ {c}, lo, hi)
  BY TokensSame
<1>4. Cardinality(Tokens(S \ {c}, lo, hi)) \in Nat
  BY TokensFinite
<1>5. Share(S, c, lo, hi) \in Int /\ Share(S2, c, lo2, hi2) \in Int
  BY LimitAssumption DEF Share, Amounts
<1>. QED BY <1>1, <1>2, <1>3, <1>4, <1>5

(* What lies between two levels splits at a level between them. *)
LEMMA TokensStacked ==
  ASSUME NEW S \in SUBSET Children, NEW lo, NEW mid, NEW hi,
         lo \in Amounts, mid \in Amounts, hi \in Amounts,
         \A c \in S : lo[c] <= mid[c] /\ mid[c] <= hi[c]
  PROVE  Cardinality(Tokens(S, lo, hi)) =
           Cardinality(Tokens(S, lo, mid)) + Cardinality(Tokens(S, mid, hi))
<1>1. \A c \in S : lo[c] \in Int /\ mid[c] \in Int /\ hi[c] \in Int
  BY LimitAssumption DEF Amounts
<1>2. Tokens(S, mid, hi) \subseteq Tokens(S, lo, hi)
  BY <1>1, LimitAssumption DEF Tokens
<1>3. Tokens(S, lo, hi) \ Tokens(S, mid, hi) = Tokens(S, lo, mid)
  BY <1>1, LimitAssumption DEF Tokens
<1>4. Tokens(S, lo, hi) \cap Tokens(S, mid, hi) = Tokens(S, mid, hi)
  BY <1>2
<1>5. IsFiniteSet(Tokens(S, lo, hi))
  BY TokensFinite
<1>6. Cardinality(Tokens(S, lo, hi) \ Tokens(S, mid, hi)) =
        Cardinality(Tokens(S, lo, hi))
          - Cardinality(Tokens(S, lo, hi) \cap Tokens(S, mid, hi))
  BY <1>5, FS_Difference
<1>7. /\ Cardinality(Tokens(S, lo, hi)) \in Nat
      /\ Cardinality(Tokens(S, lo, mid)) \in Nat
      /\ Cardinality(Tokens(S, mid, hi)) \in Nat
  BY TokensFinite
<1>. QED BY <1>3, <1>4, <1>6, <1>7

-----------------------------------------------------------------------------
(* Types.  The two counters that are given back, reserved and              *)
(* pendingResults, are integers here; that they stay natural follows from  *)
(* the sets they count.                                                    *)

LooseCounters ==
  /\ consumed \in [Parents -> Nat] /\ turn \in [Parents -> Nat]
  /\ reserved \in [Parents -> Int] /\ pendingResults \in [Parents -> Int]

LooseTypes == ParentTypes /\ LooseCounters /\ ChildTypes /\ TaskTypes

(* Every step of the runtime keeps the types. *)
LEMMA TypesStep ==
  ASSUME TypeOK, Coherent, [Next]_vars
  PROVE  LooseTypes'
<1>. USE ParentOfAssumption, LimitAssumption
<1>. USE DEF TypeOK, CounterTypes, LooseTypes, LooseCounters, ParentTypes,
             ChildTypes, TaskTypes, SpawnStates, parentVars, ledger, grants,
             verdicts, settling, activity, results, owing, owners
<1>a. \A S \in SUBSET Children : Cardinality(HeldTokens(S)) \in Nat
  BY TokensFinite DEF HeldTokens
<1>b. \A c \in Children : /\ Remaining(c) \in 0..ChildBudget
                          /\ ParentOf[c] \in Parents
  BY DEF Remaining, Coherent
<1>c. ASSUME NEW p \in Parents, BeginCancellation(p)
      PROVE  /\ status' \in [Parents -> {"absent", "active", "cancelled"}]
             /\ reserved' \in [Parents -> Int]
             /\ valid' \in [Children -> BOOLEAN]
             /\ terminal' \in [Children -> {"none", "timeout", "cancelled"}]
             /\ cancelSent' \in [Children -> BOOLEAN]
             /\ UNCHANGED <<limit, consumed, spent>>
  <2>1. {c \in activeChildren[p] : valid[c]} \in SUBSET Children
    OBVIOUS
  <2>. QED BY <1>a, <1>c, <2>1 DEF BeginCancellation, CancelRunners
<1>1. ASSUME NEW c \in Children, Spawn(c)
      PROVE  LooseTypes'
  BY <1>1 DEF Spawn, Reserve, MaySpawn, Available, Smaller
<1>2. ASSUME NEW c \in Children, SpawnTaskFails(c)
      PROVE  LooseTypes'
  BY <1>2 DEF SpawnTaskFails, Reserve, MaySpawn, Available, Smaller, Decide
<1>3. ASSUME NEW c \in Children, CallerCancelledWaiting(c)
      PROVE  LooseTypes'
  BY <1>3 DEF CallerCancelledWaiting
<1>4. ASSUME NEW c \in Children, CallerCancelledDraining(c)
      PROVE  LooseTypes'
  BY <1>4 DEF CallerCancelledDraining
<1>5. ASSUME NEW c \in Children, WakeTerminal(c)
      PROVE  LooseTypes'
  BY <1>5 DEF WakeTerminal, Decide, SignalStatus
<1>6. ASSUME NEW c \in Children, DeadlineExpires(c)
      PROVE  LooseTypes'
  <2>1. TerminalizeCharging(c, "timeout") /\ ParentTypes'
    BY <1>6 DEF DeadlineExpires
  <2>2. ChildTypes' /\ LooseCounters'
    BY <1>6, <1>b, <2>1 DEF DeadlineExpires, TerminalizeCharging, Charged,
         Decide
  <2>3. cancelSent' \in [Children -> BOOLEAN]
    <3>1. CASE Remaining(c) > 0
      BY <1>6, <3>1 DEF DeadlineExpires
    <3>2. CASE ~(Remaining(c) > 0)
      <4>1. CancelRunners({c})
        BY <1>6, <3>2 DEF DeadlineExpires
      <4>. QED BY <4>1 DEF CancelRunners
    <3>. QED BY <3>1, <3>2
  <2>4. spawn' \in [Children -> SpawnStates]
    BY <2>1 DEF TerminalizeCharging
  <2>5. TaskTypes'
    BY <1>6, <2>1, <2>3, <2>4 DEF DeadlineExpires, TerminalizeCharging, Decide
  <2>. QED BY <2>1, <2>2, <2>5
<1>7. ASSUME NEW c \in Children, WakeFinished(c)
      PROVE  LooseTypes'
  <2>1. ParentTypes'
    BY <1>7 DEF WakeFinished
  <2>2. CASE Uncharged(c)
    <3>1. /\ Released(c) /\ UNCHANGED spawnOwes
          /\ valid' = [valid EXCEPT ![c] = FALSE]
          /\ \E v \in {"success", "error"} : Decide(c, v, spent[c])
          /\ spawn' = [spawn EXCEPT ![c] = "draining"]
      BY <1>7, <2>2 DEF WakeFinished
    <3>2. ChildTypes' /\ LooseCounters'
      BY <1>7, <1>b, <3>1 DEF WakeFinished, Released, Decide
    <3>3. TaskTypes'
      BY <1>7, <3>1 DEF WakeFinished, Decide
    <3>. QED BY <2>1, <3>2, <3>3
  <2>3. CASE ~Uncharged(c)
    <3>1. TerminalizeCharging(c, "error")
      BY <1>7, <2>3 DEF WakeFinished
    <3>2. ChildTypes' /\ LooseCounters'
      BY <1>7, <1>b, <3>1 DEF WakeFinished, TerminalizeCharging, Charged,
           Decide
    <3>3. TaskTypes'
      BY <1>7, <3>1 DEF WakeFinished, TerminalizeCharging, Decide
    <3>. QED BY <2>1, <3>2, <3>3
  <2>. QED BY <2>2, <2>3
<1>8. ASSUME NEW c \in Children, WakeFinishedCancelled(c)
      PROVE  LooseTypes'
  BY <1>8 DEF WakeFinishedCancelled
<1>9. ASSUME NEW c \in Children, CancelFromSpawn(c)
      PROVE  LooseTypes'
  BY <1>c, <1>9 DEF CancelFromSpawn, Decide, SignalStatus
<1>10. ASSUME NEW c \in Children, SpawnCharged(c)
      PROVE  LooseTypes'
  BY <1>10 DEF SpawnCharged, CancelRunners
<1>11. ASSUME NEW c \in Children, WriteResult(c)
      PROVE  LooseTypes'
  BY <1>11 DEF WriteResult
<1>12. ASSUME NEW c \in Children, SettleResult(c)
      PROVE  LooseTypes'
  BY <1>12 DEF SettleResult, RaiseQuiescence
<1>13. ASSUME NEW c \in Children, SpawnQuiesced(c)
      PROVE  LooseTypes'
  BY <1>13 DEF SpawnQuiesced
<1>14. ASSUME NEW c \in Children, FactoryReturns(c)
      PROVE  LooseTypes'
  <2>1. CASE valid[c] /\ ~cancelSent[c]
    <3>1. /\ runner' = [runner EXCEPT ![c] = "running"]
          /\ UNCHANGED <<cancelSent, outcome>>
      BY <1>14, <2>1 DEF FactoryReturns
    <3>2. ParentTypes' /\ LooseCounters' /\ ChildTypes'
      BY <1>14 DEF FactoryReturns
    <3>3. TaskTypes'
      BY <1>14, <3>1 DEF FactoryReturns
    <3>. QED BY <3>2, <3>3
  <2>2. CASE ~(valid[c] /\ ~cancelSent[c])
    <3>1. End(c, "cancelled") \/ End(c, "raised")
      BY <1>14, <2>2 DEF FactoryReturns
    <3>2. /\ runner' = [runner EXCEPT ![c] = "done"]
          /\ cancelSent' = [cancelSent EXCEPT ![c] = FALSE]
          /\ \E x \in {"cancelled", "raised", "unread"} :
               outcome' = [outcome EXCEPT ![c] = x]
      BY <3>1 DEF End
    <3>. QED BY <1>14, <3>2 DEF FactoryReturns
  <2>. QED BY <2>1, <2>2
<1>15. ASSUME NEW c \in Children, FactoryFails(c)
      PROVE  LooseTypes'
  BY <1>15 DEF FactoryFails, End
<1>16. ASSUME NEW c \in Children,
              NEW how \in {"honest", "misreport", "raised", "cancelled"},
              RunnerEnds(c, how)
      PROVE  LooseTypes'
  BY <1>16 DEF RunnerEnds, End
<1>17. ASSUME NEW c \in Children, NEW amount \in 1..ChildBudget, Consume(c, amount)
      PROVE  LooseTypes'
  BY <1>17 DEF Consume, MayConsume, Remaining, Coherent
<1>18. ASSUME NEW c \in Children, RunnerCharged(c)
      PROVE  LooseTypes'
  BY <1>18 DEF RunnerCharged
<1>19. ASSUME NEW c \in Children, RunnerFinished(c)
      PROVE  LooseTypes'
  BY <1>19 DEF RunnerFinished, RaiseQuiescence
<1>20. ASSUME NEW p \in Parents, RegisterParent(p)
      PROVE  LooseTypes'
  BY <1>20 DEF RegisterParent
<1>21. ASSUME NEW p \in Parents, CancelParent(p)
      PROVE  LooseTypes'
  BY <1>c, <1>21 DEF CancelParent
<1>22. ASSUME NEW p \in Parents, CancelParentReturns(p)
      PROVE  LooseTypes'
  BY <1>22 DEF CancelParentReturns
<1>23. ASSUME NEW p \in Parents, FinalizeStarts(p)
      PROVE  LooseTypes'
  BY <1>23 DEF FinalizeStarts
<1>24. ASSUME NEW p \in Parents, FinalizeRemoves(p)
      PROVE  LooseTypes'
  BY <1>24 DEF FinalizeRemoves
<1>25. ASSUME NEW p \in Parents, FinalizeFails(p)
      PROVE  LooseTypes'
  BY <1>25 DEF FinalizeFails
<1>26. CASE UNCHANGED vars
  BY <1>26 DEF vars
<1>. QED
  BY <1>1, <1>2, <1>3, <1>4, <1>5, <1>6, <1>7, <1>8, <1>9, <1>10, <1>11,
     <1>12, <1>13, <1>14, <1>15, <1>16, <1>17, <1>18, <1>19, <1>20, <1>21,
     <1>22, <1>23, <1>24, <1>25, <1>26, ZenonT(40)
  DEF Next, ChildNext, ParentNext, SpawnResumes, RunnerEnding, RunnerResumes

-----------------------------------------------------------------------------
(* The accounts *)

AccountsKept == UNCHANGED <<limit, consumed, reserved, spent, budget, valid>>

Accounts == BudgetConserved /\ ReservationExact

(* When the account of one child moves and the reserved counter of its     *)
(* parent moves with what that child holds, the counter stays exact.       *)
LEMMA ReservationMoves ==
  ASSUME TypeOK, LooseTypes', ReservationExact, Coherent,
         NEW c \in Children,
         \A d \in Children \ {c} :
           spent'[d] = spent[d] /\ budget'[d] = budget[d]
             /\ valid'[d] = valid[d],
         valid'[c] => spent'[c] <= budget'[c],
         \A p \in Parents :
           reserved'[p] = reserved[p] +
             (IF p = ParentOf[c] THEN HeldBy(c)' - HeldBy(c) ELSE 0)
  PROVE  ReservationExact'
<1>1. /\ spent \in Amounts /\ budget \in Amounts
      /\ spent' \in Amounts /\ budget' \in Amounts
      /\ valid \in [Children -> BOOLEAN] /\ valid' \in [Children -> BOOLEAN]
  BY DEF TypeOK, LooseTypes, ChildTypes, Amounts
<1>. SUFFICES ASSUME NEW p \in Parents
              PROVE  reserved'[p] =
                       Cardinality(Tokens(Holders(p)', spent', budget'))
  BY DEF ReservationExact, HeldTokens
<1>2. Holders(p) \in SUBSET Children /\ Holders(p)' \in SUBSET Children
  BY DEF Holders, ChildrenOf
<1>3. Holders(p)' \ {c} = Holders(p) \ {c}
  BY DEF Holders, ChildrenOf
<1>4. /\ c \in Holders(p) <=> (p = ParentOf[c] /\ valid[c])
      /\ c \in Holders(p)' <=> (p = ParentOf[c] /\ valid'[c])
  BY <1>1 DEF Holders, ChildrenOf
<1>5. c \in Holders(p) => spent[c] <= budget[c]
  BY DEF Coherent
<1>6. c \in Holders(p)' => spent'[c] <= budget'[c]
  BY <1>4
<1>7. \A d \in Holders(p) \ {c} : spent'[d] = spent[d] /\ budget'[d] = budget[d]
  BY <1>2
<1>8. Cardinality(Tokens(Holders(p)', spent', budget')) =
        Cardinality(Tokens(Holders(p), spent, budget))
          + Share(Holders(p)', c, spent', budget')
          - Share(Holders(p), c, spent, budget)
  BY <1>1, <1>2, <1>3, <1>5, <1>6, <1>7, TokensMoveByShare
<1>9. reserved[p] = Cardinality(Tokens(Holders(p), spent, budget))
  BY DEF ReservationExact, HeldTokens
<1>10. Cardinality(Tokens(Holders(p), spent, budget)) \in Nat
  BY <1>2, TokensFinite
<1>11. /\ Remaining(c) \in Int /\ (Remaining(c))' \in Int
  BY <1>1, LimitAssumption DEF Amounts, Remaining
<1>12. CASE p = ParentOf[c]
  <2>1. Share(Holders(p)', c, spent', budget') = HeldBy(c)'
    BY <1>4, <1>12 DEF Share, HeldBy, Remaining
  <2>2. Share(Holders(p), c, spent, budget) = HeldBy(c)
    BY <1>4, <1>12 DEF Share, HeldBy, Remaining
  <2>3. HeldBy(c) \in Int /\ HeldBy(c)' \in Int
    BY <1>11 DEF HeldBy
  <2>. QED BY <1>8, <1>9, <1>10, <1>12, <2>1, <2>2, <2>3
<1>13. CASE p # ParentOf[c]
  <2>1. /\ Share(Holders(p)', c, spent', budget') = 0
        /\ Share(Holders(p), c, spent, budget) = 0
    BY <1>4, <1>13 DEF Share
  <2>. QED BY <1>8, <1>9, <1>10, <1>13, <2>1
<1>. QED BY <1>12, <1>13

(* A step that keeps every account keeps the counters exact. *)
LEMMA AccountsStay ==
  ASSUME Accounts, AccountsKept
  PROVE  Accounts'
BY DEF Accounts, AccountsKept, BudgetConserved, ReservationExact, HeldTokens,
       Tokens, Holders

(* Cancelling a parent releases exactly what its ended children held. *)
LEMMA CancellationReleases ==
  ASSUME TypeOK, LooseTypes', SlotsHeld, Accounts, NEW p \in Parents,
         BeginCancellation(p), UNCHANGED budget
  PROVE  Accounts'
<1>. DEFINE ended == {c \in activeChildren[p] : valid[c]}
<1>1. /\ valid \in [Children -> BOOLEAN]
      /\ reserved \in [Parents -> Int] /\ consumed \in [Parents -> Nat]
      /\ limit \in [Parents -> Nat]
  BY LimitAssumption DEF TypeOK, ChildTypes, CounterTypes, ParentTypes
<1>2. ended \subseteq Holders(p)
  BY DEF SlotsHeld, Holders
<1>3. /\ valid' = [c \in Children |-> valid[c] /\ c \notin ended]
      /\ reserved' = [reserved EXCEPT ![p] =
                        @ - Cardinality(HeldTokens(ended))]
      /\ spent' = spent /\ budget' = budget
      /\ consumed' = consumed /\ limit' = limit
  BY DEF BeginCancellation
<1>. HIDE DEF ended
<1>4. Holders(p) \in SUBSET Children
  BY DEF Holders, ChildrenOf
<1>5. Holders(p)' = Holders(p) \ ended
  BY <1>1, <1>2, <1>3 DEF Holders, ChildrenOf
<1>6. \A q \in Parents \ {p} : Holders(q)' = Holders(q)
  BY <1>1, <1>2, <1>3 DEF Holders, ChildrenOf
<1>7. Cardinality(HeldTokens(Holders(p) \ ended)) =
        Cardinality(HeldTokens(Holders(p))) - Cardinality(HeldTokens(ended))
  BY <1>2, <1>4, TokensDifference DEF HeldTokens
<1>8. ReservationExact'
  <2>1. \A q \in Parents : (HeldTokens(Holders(q)))' = HeldTokens(Holders(q)')
    BY <1>3 DEF HeldTokens
  <2>2. \A q \in Parents \ {p} :
          reserved'[q] = Cardinality((HeldTokens(Holders(q)))')
    BY <1>1, <1>3, <1>6, <2>1 DEF Accounts, ReservationExact
  <2>3. reserved'[p] = Cardinality((HeldTokens(Holders(p)))')
    BY <1>1, <1>3, <1>5, <1>7, <2>1 DEF Accounts, ReservationExact
  <2>. QED BY <2>2, <2>3 DEF ReservationExact
<1>9. Cardinality(HeldTokens(ended)) \in Nat
  BY <1>2, <1>4, TokensFinite DEF HeldTokens
<1>10. BudgetConserved'
  <2>1. \A q \in Parents : reserved'[q] <= reserved[q]
    BY <1>1, <1>3, <1>9
  <2>2. reserved' \in [Parents -> Int]
    BY <1>1, <1>3, <1>9
  <2>. QED BY <1>1, <1>3, <2>1, <2>2 DEF Accounts, BudgetConserved
<1>. QED BY <1>8, <1>10 DEF Accounts

(* A valid child is waiting, or its spawn call was cancelled: it was       *)
(* spawned, its reservation is at least what it may still spend.           *)
LEMMA RemainingReserved ==
  ASSUME TypeOK, Coherent, ReservationExact, NEW c \in Children, valid[c]
  PROVE  Remaining(c) \in 0..reserved[ParentOf[c]]
<1>. DEFINE p == ParentOf[c]
<1>1. p \in Parents
  BY ParentOfAssumption
<1>2. Holders(p) \in SUBSET Children /\ {c} \in SUBSET Holders(p)
  BY DEF Holders, ChildrenOf
<1>3. /\ spent \in Amounts /\ budget \in Amounts /\ spent[c] <= budget[c]
      /\ spent[c] \in Nat /\ budget[c] \in Nat
  BY LimitAssumption DEF TypeOK, ChildTypes, Amounts, Coherent
<1>4. Cardinality(HeldTokens({c})) = Remaining(c)
  BY <1>3, TokensOfOne DEF HeldTokens, Remaining
<1>5. Cardinality(HeldTokens(Holders(p) \ {c})) =
        Cardinality(HeldTokens(Holders(p))) - Cardinality(HeldTokens({c}))
  BY <1>2, TokensDifference DEF HeldTokens
<1>6. Cardinality(HeldTokens(Holders(p) \ {c})) \in Nat
  BY <1>2, TokensFinite DEF HeldTokens
<1>7. reserved[p] = Cardinality(HeldTokens(Holders(p))) /\ reserved[p] \in Nat
  BY <1>1 DEF ReservationExact, TypeOK, CounterTypes
<1>8. Remaining(c) \in Nat
  BY <1>3 DEF Remaining
<1>. QED BY <1>4, <1>5, <1>6, <1>7, <1>8

(* Every step of the runtime keeps the accounts. *)
LEMMA AccountsStep ==
  ASSUME IInv, LooseTypes', [Next]_vars
  PROVE  Accounts'
<1>a. /\ TypeOK /\ Accounts /\ SlotsHeld /\ Coherent
      /\ BudgetConserved /\ ReservationExact
  BY DEF IInv, Accounts
<1>b. /\ valid \in [Children -> BOOLEAN] /\ valid' \in [Children -> BOOLEAN]
      /\ budget \in [Children -> Nat] /\ spent \in [Children -> Nat]
      /\ reserved \in [Parents -> Nat] /\ consumed \in [Parents -> Nat]
      /\ limit \in [Parents -> Nat] /\ ParentOf \in [Children -> Parents]
  BY <1>a, LimitAssumption, ParentOfAssumption
  DEF TypeOK, LooseTypes, ChildTypes, CounterTypes, ParentTypes
<1>1. ASSUME NEW c \in Children, Spawn(c)
      PROVE  Accounts'
  <2>. DEFINE p == ParentOf[c]
              g == Smaller(ChildBudget, Available(p))
  <2>1. /\ ~valid[c] /\ spent[c] = 0
        /\ Available(p) > 0 /\ p \in Parents
    BY <1>a, <1>b, <1>1 DEF Spawn, Reserve, MaySpawn, Coherent
  <2>2. Available(p) \in Nat
    BY <1>b, <2>1 DEF Available
  <2>3. g \in 1..Available(p)
    BY <2>1, <2>2, LimitAssumption DEF Smaller
  <2>4. /\ budget' = [budget EXCEPT ![c] = g]
        /\ valid' = [valid EXCEPT ![c] = TRUE]
        /\ reserved' = [reserved EXCEPT ![p] = @ + g]
        /\ spent' = spent /\ consumed' = consumed /\ limit' = limit
    BY <1>1 DEF Spawn, Reserve, parentVars
  <2>. HIDE DEF g
  <2>5. HeldBy(c) = 0 /\ HeldBy(c)' = g
    BY <1>b, <2>1, <2>3, <2>4 DEF HeldBy, Remaining
  <2>6. ReservationExact'
    <3>1. \A q \in Parents :
            reserved'[q] = reserved[q] +
              (IF q = ParentOf[c] THEN HeldBy(c)' - HeldBy(c) ELSE 0)
      BY <1>b, <2>3, <2>4, <2>5
    <3>2. valid'[c] => spent'[c] <= budget'[c]
      BY <1>b, <2>1, <2>3, <2>4
    <3>3. \A d \in Children \ {c} :
            spent'[d] = spent[d] /\ budget'[d] = budget[d]
              /\ valid'[d] = valid[d]
      BY <1>b, <2>4
    <3>. QED BY <1>a, <3>1, <3>2, <3>3, ReservationMoves
  <2>7. BudgetConserved'
    BY <1>a, <1>b, <2>1, <2>2, <2>3, <2>4 DEF BudgetConserved, Available
  <2>. QED BY <2>6, <2>7 DEF Accounts
<1>2. ASSUME NEW c \in Children, SpawnTaskFails(c)
      PROVE  Accounts'
  <2>1. /\ ~valid[c] /\ ~valid'[c]
        /\ budget' = [budget EXCEPT ![c] = budget'[c]]
        /\ valid' = valid /\ reserved' = reserved
        /\ spent' = spent /\ consumed' = consumed /\ limit' = limit
    BY <1>a, <1>2 DEF SpawnTaskFails, Reserve, Coherent, ledger, verdicts,
         parentVars
  <2>2. HeldBy(c) = 0 /\ HeldBy(c)' = 0
    BY <2>1 DEF HeldBy
  <2>3. \A q \in Parents :
          reserved'[q] = reserved[q] +
            (IF q = ParentOf[c] THEN HeldBy(c)' - HeldBy(c) ELSE 0)
    BY <1>b, <2>1, <2>2
  <2>4. \A d \in Children \ {c} :
          spent'[d] = spent[d] /\ budget'[d] = budget[d]
            /\ valid'[d] = valid[d]
    BY <1>b, <2>1
  <2>5. ReservationExact'
    BY <1>a, <2>1, <2>3, <2>4, ReservationMoves
  <2>6. BudgetConserved'
    BY <1>a, <2>1 DEF BudgetConserved
  <2>. QED BY <2>5, <2>6 DEF Accounts
<1>3. ASSUME NEW c \in Children, NEW amount \in 1..ChildBudget,
             Consume(c, amount)
      PROVE  Accounts'
  <2>1. /\ valid[c] /\ valid' = valid /\ budget' = budget /\ limit' = limit
        /\ amount <= Remaining(c)
        /\ reserved' = [reserved EXCEPT ![ParentOf[c]] = @ - amount]
        /\ consumed' = [consumed EXCEPT ![ParentOf[c]] = @ + amount]
        /\ spent' = [spent EXCEPT ![c] = @ + amount]
    BY <1>3 DEF Consume, MayConsume, grants, verdicts, parentVars
  <2>2. amount \in Nat
    BY LimitAssumption
  <2>3. HeldBy(c) = Remaining(c) /\ HeldBy(c)' = Remaining(c) - amount
    BY <1>b, <2>1, <2>2 DEF HeldBy, Remaining
  <2>4. Remaining(c) \in Nat
    BY <1>a, <1>b, <2>1, RemainingReserved
  <2>5. \A q \in Parents :
          reserved'[q] = reserved[q] +
            (IF q = ParentOf[c] THEN HeldBy(c)' - HeldBy(c) ELSE 0)
    BY <1>b, <2>1, <2>2, <2>3, <2>4
  <2>6. spent'[c] <= budget'[c]
    BY <1>b, <2>1, <2>2 DEF Remaining
  <2>7. \A d \in Children \ {c} :
          spent'[d] = spent[d] /\ budget'[d] = budget[d]
            /\ valid'[d] = valid[d]
    BY <1>b, <2>1
  <2>8. ReservationExact'
    BY <1>a, <2>5, <2>6, <2>7, ReservationMoves
  <2>9. BudgetConserved'
    BY <1>a, <1>b, <2>1, <2>2 DEF BudgetConserved
  <2>. QED BY <2>8, <2>9 DEF Accounts
<1>c. ASSUME NEW c \in Children, valid[c],
             valid' = [valid EXCEPT ![c] = FALSE],
             Charged(c) \/ Released(c), UNCHANGED <<budget, limit>>
      PROVE  Accounts'
  <2>1. Remaining(c) \in 0..reserved[ParentOf[c]] /\ Remaining(c) \in Nat
    BY <1>a, <1>b, <1>c, RemainingReserved
  <2>2. /\ reserved' = [reserved EXCEPT ![ParentOf[c]] = @ - Remaining(c)]
        /\ \/ consumed' = consumed
           \/ consumed' = [consumed EXCEPT ![ParentOf[c]] = @ + Remaining(c)]
        /\ \A d \in Children \ {c} : spent'[d] = spent[d]
    BY <1>b, <1>c DEF Charged, Released
  <2>3. HeldBy(c) = Remaining(c) /\ HeldBy(c)' = 0 /\ ~valid'[c]
    BY <1>b, <1>c DEF HeldBy
  <2>4. \A q \in Parents :
          reserved'[q] = reserved[q] +
            (IF q = ParentOf[c] THEN HeldBy(c)' - HeldBy(c) ELSE 0)
    BY <1>b, <2>1, <2>2, <2>3
  <2>5. \A d \in Children \ {c} :
          spent'[d] = spent[d] /\ budget'[d] = budget[d]
            /\ valid'[d] = valid[d]
    BY <1>b, <1>c, <2>2
  <2>6. ReservationExact'
    BY <1>a, <2>3, <2>4, <2>5, ReservationMoves
  <2>7. BudgetConserved'
    BY <1>a, <1>b, <1>c, <2>1, <2>2 DEF BudgetConserved
  <2>. QED BY <2>6, <2>7 DEF Accounts
<1>4. ASSUME NEW c \in Children, DeadlineExpires(c)
      PROVE  Accounts'
  <2>1. valid[c]
    BY <1>a, <1>4 DEF DeadlineExpires, DeadlineMissed, Coherent
  <2>. QED BY <1>c, <1>4, <2>1
       DEF DeadlineExpires, TerminalizeCharging, grants, parentVars
<1>5. ASSUME NEW c \in Children, WakeFinished(c)
      PROVE  Accounts'
  <2>1. valid[c]
    BY <1>a, <1>5 DEF WakeFinished, Coherent
  <2>2. /\ valid' = [valid EXCEPT ![c] = FALSE]
        /\ Charged(c) \/ Released(c)
    BY <1>5 DEF WakeFinished, TerminalizeCharging
  <2>. QED BY <1>c, <1>5, <2>1, <2>2 DEF WakeFinished, grants, parentVars
<1>6. ASSUME NEW c \in Children, CancelFromSpawn(c)
      PROVE  Accounts'
  BY <1>a, <1>b, <1>6, CancellationReleases DEF CancelFromSpawn, grants
<1>7. ASSUME NEW p \in Parents, CancelParent(p)
      PROVE  Accounts'
  BY <1>a, <1>7, CancellationReleases DEF CancelParent, grants
<1>8. ASSUME NEW p \in Parents, RegisterParent(p)
      PROVE  Accounts'
  <2>1. limit[p] = 0
    BY <1>8 DEF IInv, AbsentIsBlank, RegisterParent
  <2>2. /\ limit' \in [Parents -> Nat]
        /\ \A q \in Parents \ {p} : limit'[q] = limit[q]
        /\ UNCHANGED <<consumed, reserved, spent, budget, valid>>
    BY <1>b, <1>8, LimitAssumption
    DEF RegisterParent, ledger, grants, verdicts, LooseTypes, ParentTypes
  <2>3. BudgetConserved'
    BY <1>a, <1>b, <2>1, <2>2 DEF BudgetConserved
  <2>4. ReservationExact'
    BY <1>a, <2>2 DEF ReservationExact, HeldTokens, Tokens, Holders
  <2>. QED BY <2>3, <2>4 DEF Accounts
<1>9. ASSUME NEW c \in Children,
             \/ CallerCancelledWaiting(c) \/ CallerCancelledDraining(c)
             \/ WakeTerminal(c) \/ WakeFinishedCancelled(c)
             \/ SpawnCharged(c) \/ WriteResult(c) \/ SettleResult(c)
             \/ SpawnQuiesced(c) \/ RunnerEnding(c) \/ RunnerResumes(c)
      PROVE  Accounts'
  <2>1. AccountsKept
    BY <1>9 DEF CallerCancelledWaiting, CallerCancelledDraining, WakeTerminal,
         WakeFinishedCancelled, SpawnCharged, WriteResult, SettleResult,
         SpawnQuiesced, RunnerEnding, RunnerResumes, FactoryReturns,
         FactoryFails, RunnerEnds, RunnerCharged, RunnerFinished,
         AccountsKept, parentVars, ledger, grants, verdicts
  <2>. QED BY <1>a, <2>1, AccountsStay
<1>10. ASSUME NEW p \in Parents,
              \/ CancelParentReturns(p)
              \/ FinalizeStarts(p) \/ FinalizeRemoves(p) \/ FinalizeFails(p)
       PROVE  Accounts'
  <2>1. AccountsKept
    BY <1>10 DEF CancelParentReturns, FinalizeStarts, FinalizeRemoves, FinalizeFails,
         AccountsKept, parentVars, ledger, grants, verdicts
  <2>. QED BY <1>a, <2>1, AccountsStay
<1>11. CASE UNCHANGED vars
  <2>1. AccountsKept
    BY <1>11 DEF vars, AccountsKept, parentVars, ledger, grants, verdicts
  <2>. QED BY <1>a, <2>1, AccountsStay
<1>. QED
  BY <1>1, <1>2, <1>3, <1>4, <1>5, <1>6, <1>7, <1>8, <1>9, <1>10, <1>11
  DEF Next, ChildNext, ParentNext, SpawnResumes

-----------------------------------------------------------------------------
(* Slots *)

(* Every step of the runtime keeps slots, active children and runners in   *)
(* agreement.                                                              *)
LEMMA SlotsStep ==
  ASSUME TypeOK, LooseTypes', Coherent, SlotsHeld, [Next]_vars
  PROVE  SlotsHeld'
<1>a. /\ slots \in SUBSET Children /\ IsFiniteSet(slots)
      /\ activeChildren \in [Parents -> SUBSET Children]
      /\ runner \in [Children -> {"none", "factory", "running", "charging",
                                  "done", "terminated"}]
      /\ ParentOf \in [Children -> Parents]
  BY ChildrenAssumption, ParentOfAssumption, FS_Subset
  DEF TypeOK, TaskTypes, ParentTypes
<1>b. ASSUME UNCHANGED activity,
             \A c \in Children : RunnerAlive(c)' <=> RunnerAlive(c)
      PROVE  SlotsHeld'
  BY <1>b DEF SlotsHeld, activity
<1>1. ASSUME NEW c \in Children, Spawn(c)
      PROVE  SlotsHeld'
  <2>1. /\ c \notin slots /\ Cardinality(slots) < MaxActive
        /\ slots' = slots \cup {c}
        /\ activeChildren' =
             [activeChildren EXCEPT ![ParentOf[c]] = @ \cup {c}]
        /\ runner' = [runner EXCEPT ![c] = "factory"]
    BY <1>1 DEF Spawn, Reserve, MaySpawn, Coherent, SlotsHeld, RunnerAlive
  <2>2. Cardinality(slots') = Cardinality(slots) + 1
    BY <1>a, <2>1, FS_AddElement
  <2>3. Cardinality(slots) \in Nat
    BY <1>a, FS_CardinalityType
  <2>4. Cardinality(slots') <= MaxActive
    BY <2>1, <2>2, <2>3, LimitAssumption
  <2>5. slots' = {d \in Children : RunnerAlive(d)'}
    BY <1>a, <2>1 DEF SlotsHeld, RunnerAlive
  <2>6. \A p \in Parents : activeChildren'[p] = slots' \cap ChildrenOf(p)
    BY <1>a, <2>1 DEF SlotsHeld, ChildrenOf
  <2>. QED BY <2>4, <2>5, <2>6 DEF SlotsHeld
<1>2. ASSUME NEW c \in Children, RunnerFinished(c)
      PROVE  SlotsHeld'
  <2>1. /\ slots' = slots \ {c}
        /\ activeChildren' =
             [activeChildren EXCEPT ![ParentOf[c]] = @ \ {c}]
        /\ runner' = [runner EXCEPT ![c] = "terminated"]
        /\ runner[c] = "done"
    BY <1>a, <1>2 DEF RunnerFinished
  <2>2. c \in slots
    BY <2>1 DEF SlotsHeld, RunnerAlive
  <2>3. Cardinality(slots') = Cardinality(slots) - 1
    BY <1>a, <2>1, <2>2, FS_RemoveElement
  <2>4. Cardinality(slots) \in Nat
    BY <1>a, FS_CardinalityType
  <2>5. Cardinality(slots') <= MaxActive
    BY <2>3, <2>4, LimitAssumption DEF SlotsHeld
  <2>6. slots' = {d \in Children : RunnerAlive(d)'}
    BY <1>a, <2>1 DEF SlotsHeld, RunnerAlive
  <2>7. \A p \in Parents : activeChildren'[p] = slots' \cap ChildrenOf(p)
    BY <1>a, <2>1 DEF SlotsHeld, ChildrenOf
  <2>. QED BY <2>5, <2>6, <2>7 DEF SlotsHeld
<1>3. ASSUME NEW c \in Children,
             \/ FactoryReturns(c) \/ FactoryFails(c) \/ RunnerCharged(c)
             \/ \E how \in {"honest", "misreport", "raised", "cancelled"} :
                  RunnerEnds(c, how)
             \/ \E amount \in 1..ChildBudget : Consume(c, amount)
      PROVE  SlotsHeld'
  <2>1. UNCHANGED activity
    BY <1>3 DEF FactoryReturns, FactoryFails, RunnerCharged, RunnerEnds,
         Consume
  <2>2. /\ runner[c] \in {"factory", "running", "charging"}
        /\ \E s \in {"running", "charging", "done"} :
             runner' = [runner EXCEPT ![c] = s]
    BY <1>3 DEF FactoryReturns, FactoryFails, RunnerCharged, RunnerEnds,
         Consume, End
  <2>3. \A d \in Children : RunnerAlive(d)' <=> RunnerAlive(d)
    BY <1>a, <2>2 DEF RunnerAlive
  <2>. QED BY <1>b, <2>1, <2>3
<1>4. ASSUME NEW c \in Children,
             \/ SpawnTaskFails(c)
             \/ CallerCancelledWaiting(c) \/ CallerCancelledDraining(c)
             \/ SpawnResumes(c)
      PROVE  SlotsHeld'
  <2>1. UNCHANGED <<activity, runner>>
    BY <1>4 DEF SpawnTaskFails, CallerCancelledWaiting,
         CallerCancelledDraining, SpawnResumes, WakeTerminal, DeadlineExpires,
         WakeFinished, WakeFinishedCancelled, CancelFromSpawn, SpawnCharged,
         WriteResult, SettleResult, SpawnQuiesced, activity
  <2>. QED BY <1>b, <2>1 DEF RunnerAlive
<1>5. ASSUME NEW p \in Parents, ParentNext(p)
      PROVE  SlotsHeld'
  <2>1. UNCHANGED <<activity, runner>>
    BY <1>5 DEF ParentNext, RegisterParent, CancelParent, CancelParentReturns,
         FinalizeStarts, FinalizeRemoves, FinalizeFails, activity
  <2>. QED BY <1>b, <2>1 DEF RunnerAlive
<1>6. CASE UNCHANGED vars
  BY <1>b, <1>6 DEF vars, RunnerAlive
<1>. QED
  BY <1>1, <1>2, <1>3, <1>4, <1>5, <1>6
  DEF Next, ChildNext, RunnerEnding, RunnerResumes

-----------------------------------------------------------------------------
(* Quiescence *)

(* Finitely many children are unsettled. *)
LEMMA UnsettledFinite ==
  ASSUME NEW p
  PROVE  /\ IsFiniteSet(Unsettled(p)) /\ Cardinality(Unsettled(p)) \in Nat
         /\ Unsettled(p) \in SUBSET Children
<1>1. Unsettled(p) \in SUBSET Children
  BY DEF Unsettled, ChildrenOf
<1>. QED BY <1>1, ChildrenAssumption, FS_Subset, FS_CardinalityType

(* Every step of the runtime keeps the count of unsettled results, and the *)
(* event that is raised when it and the active children are gone.          *)
LEMMA QuiescenceStep ==
  ASSUME TypeOK, LooseTypes', Coherent, SlotsHeld, QuiescenceExact,
         [Next]_vars
  PROVE  QuiescenceExact'
<1>a. /\ spawn \in [Children -> SpawnStates]
      /\ spawn' \in [Children -> SpawnStates]
      /\ activeChildren \in [Parents -> SUBSET Children]
      /\ pendingResults \in [Parents -> Nat]
      /\ quiescent \in [Parents -> BOOLEAN]
      /\ ParentOf \in [Children -> Parents]
  BY ParentOfAssumption
  DEF TypeOK, LooseTypes, TaskTypes, ParentTypes, CounterTypes
<1>b. ASSUME UNCHANGED <<settling, activeChildren>>,
             \A c \in Children :
               spawn'[c] \in {"idle", "quiescing", "returned"} <=>
                 spawn[c] \in {"idle", "quiescing", "returned"}
      PROVE  QuiescenceExact'
  <2>1. \A p \in Parents : Unsettled(p)' = Unsettled(p)
    BY <1>b DEF Unsettled, ChildrenOf
  <2>. QED BY <1>b, <2>1 DEF QuiescenceExact, settling
<1>c. ASSUME NEW c \in Children, Reserve(c), spawn' \in [Children -> SpawnStates],
             spawn' = [spawn EXCEPT ![c] = "waiting"]
               \/ spawn' = [spawn EXCEPT ![c] = "persisting"],
             \A p \in Parents \ {ParentOf[c]} :
               activeChildren'[p] = activeChildren[p]
      PROVE  QuiescenceExact'
  <2>. DEFINE p == ParentOf[c]
  <2>1. /\ pendingResults' = [pendingResults EXCEPT ![p] = @ + 1]
        /\ quiescent' = [quiescent EXCEPT ![p] = FALSE]
        /\ spawn[c] = "idle" /\ p \in Parents
    BY <1>a, <1>c DEF Reserve
  <2>2. /\ c \notin Unsettled(p) /\ Unsettled(p)' = Unsettled(p) \cup {c}
    BY <1>a, <1>c, <2>1 DEF Unsettled, ChildrenOf
  <2>3. Cardinality(Unsettled(p)') = Cardinality(Unsettled(p)) + 1
    BY <2>2, UnsettledFinite, FS_AddElement
  <2>4. \A q \in Parents \ {p} : Unsettled(q)' = Unsettled(q)
    BY <1>a, <1>c DEF Unsettled, ChildrenOf
  <2>5. pendingResults'[p] # 0 /\ pendingResults'[p] = Cardinality(Unsettled(p)')
    BY <1>a, <2>1, <2>3 DEF QuiescenceExact
  <2>6. \A q \in Parents \ {p} :
          /\ pendingResults'[q] = Cardinality(Unsettled(q)')
          /\ quiescent'[q] = (activeChildren'[q] = {} /\ pendingResults'[q] = 0)
    BY <1>a, <1>c, <2>1, <2>4 DEF QuiescenceExact
  <2>7. quiescent'[p] = (activeChildren'[p] = {} /\ pendingResults'[p] = 0)
    BY <1>a, <2>1, <2>5
  <2>. QED BY <2>5, <2>6, <2>7 DEF QuiescenceExact
<1>1. ASSUME NEW c \in Children, Spawn(c)
      PROVE  QuiescenceExact'
  BY <1>a, <1>c, <1>1 DEF Spawn
<1>2. ASSUME NEW c \in Children, SpawnTaskFails(c)
      PROVE  QuiescenceExact'
  BY <1>a, <1>c, <1>2 DEF SpawnTaskFails, activity
<1>3. ASSUME NEW c \in Children, SettleResult(c)
      PROVE  QuiescenceExact'
  <2>. DEFINE p == ParentOf[c]
  <2>1. /\ pendingResults' = [pendingResults EXCEPT ![p] = @ - 1]
        /\ RaiseQuiescence(p, activeChildren[p], pendingResults[p] - 1)
        /\ activeChildren' = activeChildren
        /\ spawn[c] = "settling" /\ p \in Parents
        /\ \/ spawn' = [spawn EXCEPT ![c] = "quiescing"]
           \/ spawn' = [spawn EXCEPT ![c] = "returned"]
    BY <1>a, <1>3 DEF SettleResult, activity
  <2>2. /\ c \in Unsettled(p) /\ Unsettled(p)' = Unsettled(p) \ {c}
    BY <1>a, <2>1 DEF Unsettled, ChildrenOf
  <2>3. Cardinality(Unsettled(p)') = Cardinality(Unsettled(p)) - 1
    BY <2>2, UnsettledFinite, FS_RemoveElement
  <2>4. \A q \in Parents \ {p} : Unsettled(q)' = Unsettled(q)
    BY <1>a, <2>1 DEF Unsettled, ChildrenOf
  <2>5. Cardinality(Unsettled(p)') \in Nat
    BY <2>2, UnsettledFinite, FS_RemoveElement, FS_CardinalityType
  <2>6. /\ pendingResults[p] = Cardinality(Unsettled(p))
        /\ Cardinality(Unsettled(p)) \in Nat
    BY <2>1, UnsettledFinite DEF QuiescenceExact
  <2>7. /\ pendingResults[p] # 0 /\ ~quiescent[p]
        /\ pendingResults'[p] = Cardinality(Unsettled(p)')
    BY <1>a, <2>1, <2>3, <2>5, <2>6 DEF QuiescenceExact
  <2>8. quiescent'[p] = (activeChildren'[p] = {} /\ pendingResults'[p] = 0)
    BY <1>a, <2>1, <2>7 DEF RaiseQuiescence
  <2>9. \A q \in Parents \ {p} :
          pendingResults'[q] = pendingResults[q] /\ quiescent'[q] = quiescent[q]
    BY <1>a, <2>1 DEF RaiseQuiescence
  <2>. QED BY <2>1, <2>4, <2>7, <2>8, <2>9 DEF QuiescenceExact
<1>4. ASSUME NEW c \in Children, RunnerFinished(c)
      PROVE  QuiescenceExact'
  <2>. DEFINE p == ParentOf[c]
  <2>1. /\ activeChildren' = [activeChildren EXCEPT ![p] = @ \ {c}]
        /\ RaiseQuiescence(p, activeChildren[p] \ {c}, pendingResults[p])
        /\ pendingResults' = pendingResults /\ spawn' = spawn
        /\ runner[c] = "done" /\ p \in Parents
    BY <1>a, <1>4 DEF RunnerFinished
  <2>2. c \in activeChildren[p]
    BY <2>1 DEF SlotsHeld, RunnerAlive, ChildrenOf
  <2>3. ~quiescent[p]
    BY <2>1, <2>2 DEF QuiescenceExact
  <2>4. quiescent'[p] = (activeChildren'[p] = {} /\ pendingResults'[p] = 0)
    BY <1>a, <2>1, <2>3 DEF RaiseQuiescence
  <2>5. \A q \in Parents \ {p} :
          /\ activeChildren'[q] = activeChildren[q]
          /\ quiescent'[q] = quiescent[q]
    BY <1>a, <2>1 DEF RaiseQuiescence
  <2>6. \A q \in Parents : Unsettled(q)' = Unsettled(q)
    BY <2>1 DEF Unsettled
  <2>. QED BY <2>1, <2>4, <2>5, <2>6 DEF QuiescenceExact
<1>5. ASSUME NEW c \in Children,
             \/ CallerCancelledWaiting(c) \/ CallerCancelledDraining(c)
             \/ WakeTerminal(c) \/ DeadlineExpires(c) \/ WakeFinished(c)
             \/ WakeFinishedCancelled(c) \/ CancelFromSpawn(c)
             \/ SpawnCharged(c) \/ WriteResult(c) \/ SpawnQuiesced(c)
      PROVE  QuiescenceExact'
  <2>1. UNCHANGED <<settling, activeChildren>>
    BY <1>5 DEF CallerCancelledWaiting, CallerCancelledDraining, WakeTerminal,
         DeadlineExpires, WakeFinished, WakeFinishedCancelled, CancelFromSpawn,
         SpawnCharged, WriteResult, SpawnQuiesced, activity
  <2>. DEFINE Settled == {"idle", "quiescing", "returned"}
  <2>2. CASE SpawnQuiesced(c)
    <3>1. spawn[c] = "quiescing" /\ spawn' = [spawn EXCEPT ![c] = "returned"]
      BY <2>2 DEF SpawnQuiesced
    <3>. QED BY <1>a, <1>b, <2>1, <3>1
  <2>3. CASE ~SpawnQuiesced(c)
    <3>1. spawn[c] \notin Settled
      BY <1>5, <2>3
      DEF CallerCancelledWaiting, CallerCancelledDraining, WakeTerminal,
          DeadlineExpires, WakeFinished, WakeFinishedCancelled,
          CancelFromSpawn, SpawnCharged, WriteResult
    <3>2. \/ spawn' = [spawn EXCEPT ![c] = "cancelling"]
          \/ spawn' = [spawn EXCEPT ![c] = "aborted"]
          \/ spawn' = [spawn EXCEPT ![c] = "draining"]
          \/ spawn' = [spawn EXCEPT ![c] = "charging"]
          \/ spawn' = [spawn EXCEPT ![c] = "settling"]
      BY <1>5, <2>3, Zenon
      DEF CallerCancelledWaiting, CallerCancelledDraining, WakeTerminal,
          DeadlineExpires, WakeFinished, WakeFinishedCancelled,
          CancelFromSpawn, SpawnCharged, WriteResult, TerminalizeCharging
    <3>. QED BY <1>a, <1>b, <2>1, <3>1, <3>2
  <2>. QED BY <2>2, <2>3
<1>6. ASSUME NEW c \in Children,
             \/ RunnerEnding(c) \/ RunnerCharged(c)
             \/ \E amount \in 1..ChildBudget : Consume(c, amount)
      PROVE  QuiescenceExact'
  <2>1. UNCHANGED <<settling, activeChildren, spawn>>
    BY <1>6 DEF RunnerEnding, FactoryReturns, FactoryFails, RunnerEnds,
         RunnerCharged, Consume, activity
  <2>. QED BY <1>b, <2>1
<1>7. ASSUME NEW p \in Parents, ParentNext(p)
      PROVE  QuiescenceExact'
  <2>1. UNCHANGED <<settling, activeChildren, spawn>>
    BY <1>7 DEF ParentNext, RegisterParent, CancelParent, CancelParentReturns,
         FinalizeStarts, FinalizeRemoves, FinalizeFails, activity
  <2>. QED BY <1>b, <2>1
<1>8. CASE UNCHANGED vars
  BY <1>b, <1>8 DEF vars, activity
<1>. QED
  BY <1>1, <1>2, <1>3, <1>4, <1>5, <1>6, <1>7, <1>8
  DEF Next, ChildNext, SpawnResumes, RunnerResumes

-----------------------------------------------------------------------------
(* Children and finalized parents *)

(* Every step of the runtime keeps the ledger, the verdict and the tasks   *)
(* of each child together.                                                 *)
LEMMA CoherentStep ==
  ASSUME TypeOK, LooseTypes', Coherent, SlotsHeld, [Next]_vars
  PROVE  Coherent'
<1>a. /\ spawn \in [Children -> SpawnStates]
      /\ valid \in [Children -> BOOLEAN]
      /\ terminal \in [Children -> {"none", "timeout", "cancelled"}]
      /\ budget \in [Children -> Nat] /\ spent \in [Children -> Nat]
      /\ limit \in [Parents -> Nat] /\ reserved \in [Parents -> Nat]
      /\ consumed \in [Parents -> Nat]
      /\ ParentOf \in [Children -> Parents] /\ ChildBudget \in Nat
      /\ runner \in [Children -> {"none", "factory", "running", "charging",
                                  "done", "terminated"}]
  BY ParentOfAssumption, LimitAssumption
  DEF TypeOK, TaskTypes, ChildTypes, ParentTypes, CounterTypes
<1>b. ASSUME UNCHANGED <<spent, budget, valid, terminal, spawn, runner>>
      PROVE  Coherent'
  BY <1>b DEF Coherent
<1>c. ASSUME NEW c \in Children, Reserve(c)
      PROVE  /\ budget' = [budget EXCEPT ![c] = budget'[c]]
             /\ budget'[c] \in Nat
             /\ spawn[c] = "idle"
  <2>1. /\ budget' = [budget EXCEPT ![c] = Smaller(ChildBudget, Available(ParentOf[c]))]
        /\ Available(ParentOf[c]) > 0 /\ spawn[c] = "idle"
    BY <1>c DEF Reserve, MaySpawn
  <2>2. Available(ParentOf[c]) \in Int
    BY <1>a DEF Available
  <2>3. Smaller(ChildBudget, Available(ParentOf[c])) \in Nat
    BY <1>a, <2>1, <2>2 DEF Smaller
  <2>. QED BY <1>a, <2>1, <2>3
<1>1. ASSUME NEW c \in Children, Spawn(c)
      PROVE  Coherent'
  BY <1>a, <1>c, <1>1 DEF Spawn, Coherent
<1>2. ASSUME NEW c \in Children, SpawnTaskFails(c)
      PROVE  Coherent'
  BY <1>a, <1>c, <1>2 DEF SpawnTaskFails, Coherent, ledger, verdicts
<1>3. ASSUME NEW c \in Children, NEW amount \in 1..ChildBudget,
             Consume(c, amount)
      PROVE  Coherent'
  BY <1>a, <1>3
  DEF Consume, MayConsume, Remaining, Coherent, grants, verdicts
<1>d. ASSUME NEW c \in Children, spawn[c] # "idle", Charged(c) \/ Released(c),
             valid' = [valid EXCEPT ![c] = FALSE],
             \/ spawn' = [spawn EXCEPT ![c] = "draining"]
             \/ spawn' = [spawn EXCEPT ![c] = "charging"],
             \A d \in Children \ {c} : terminal'[d] = terminal[d],
             UNCHANGED <<budget, runner>>
      PROVE  Coherent'
  <2>1. /\ \A d \in Children \ {c} : spent'[d] = spent[d]
        /\ spent'[c] \in {spent[c], budget[c]}
    BY <1>a, <1>d DEF Charged, Released
  <2>. QED BY <1>a, <1>d, <2>1 DEF Coherent
<1>4. ASSUME NEW c \in Children, DeadlineExpires(c)
      PROVE  Coherent'
  <2>1. /\ \/ spawn' = [spawn EXCEPT ![c] = "draining"]
           \/ spawn' = [spawn EXCEPT ![c] = "charging"]
        /\ valid' = [valid EXCEPT ![c] = FALSE] /\ Charged(c)
        /\ spawn[c] # "idle" /\ UNCHANGED <<budget, runner>>
        /\ \A d \in Children \ {c} : terminal'[d] = terminal[d]
    BY <1>a, <1>4 DEF DeadlineExpires, TerminalizeCharging, grants
  <2>. QED BY <1>d, <2>1
<1>5. ASSUME NEW c \in Children, WakeFinished(c)
      PROVE  Coherent'
  <2>1. /\ \/ spawn' = [spawn EXCEPT ![c] = "draining"]
           \/ spawn' = [spawn EXCEPT ![c] = "charging"]
        /\ valid' = [valid EXCEPT ![c] = FALSE] /\ (Charged(c) \/ Released(c))
        /\ spawn[c] # "idle" /\ UNCHANGED <<budget, runner, terminal>>
    BY <1>5 DEF WakeFinished, TerminalizeCharging, grants
  <2>. QED BY <1>d, <2>1
<1>e. ASSUME NEW p \in Parents, BeginCancellation(p),
             UNCHANGED <<budget, runner>>,
             \/ spawn' = spawn
             \/ \E c \in Children : /\ spawn[c] = "cancelling"
                                    /\ spawn' = [spawn EXCEPT ![c] = "draining"]
      PROVE  Coherent'
  <2>. DEFINE ended == {c \in activeChildren[p] : valid[c]}
  <2>1. /\ valid' = [c \in Children |-> valid[c] /\ c \notin ended]
        /\ terminal' = [c \in Children |->
                          IF c \in ended THEN "cancelled" ELSE terminal[c]]
        /\ spent' = spent
    BY <1>e DEF BeginCancellation
  <2>2. ended \subseteq {c \in Children : valid[c]}
    BY DEF SlotsHeld, ChildrenOf
  <2>. HIDE DEF ended
  <2>. QED BY <1>a, <1>e, <2>1, <2>2 DEF Coherent
<1>6. ASSUME NEW c \in Children, CancelFromSpawn(c)
      PROVE  Coherent'
  BY <1>a, <1>e, <1>6 DEF CancelFromSpawn, grants
<1>7. ASSUME NEW p \in Parents, CancelParent(p)
      PROVE  Coherent'
  BY <1>e, <1>7 DEF CancelParent, grants
<1>8. ASSUME NEW c \in Children,
             \/ CallerCancelledWaiting(c) \/ CallerCancelledDraining(c)
             \/ WakeTerminal(c) \/ WakeFinishedCancelled(c)
             \/ SpawnCharged(c) \/ WriteResult(c) \/ SettleResult(c)
             \/ SpawnQuiesced(c)
      PROVE  Coherent'
  <2>1. /\ UNCHANGED <<spent, budget, valid, terminal, runner>>
        /\ spawn[c] # "idle"
        /\ \A d \in Children \ {c} : spawn'[d] = spawn[d]
        /\ spawn'[c] \notin {"idle", "waiting"}
    BY <1>a, <1>8
    DEF CallerCancelledWaiting, CallerCancelledDraining, WakeTerminal,
        WakeFinishedCancelled, SpawnCharged, WriteResult, SettleResult,
        SpawnQuiesced, ledger, grants, verdicts
  <2>. QED BY <2>1 DEF Coherent
<1>9. ASSUME NEW c \in Children, RunnerEnding(c) \/ RunnerResumes(c)
      PROVE  Coherent'
  <2>1. /\ UNCHANGED <<spent, budget, valid, terminal, spawn>>
        /\ runner[c] # "none"
        /\ \A d \in Children \ {c} : runner'[d] = runner[d]
    BY <1>a, <1>9
    DEF RunnerEnding, RunnerResumes, FactoryReturns, FactoryFails, RunnerEnds,
        RunnerCharged, RunnerFinished, End, ledger, grants, verdicts
  <2>. QED BY <2>1 DEF Coherent
<1>10. ASSUME NEW p \in Parents, ParentNext(p), ~CancelParent(p)
       PROVE  Coherent'
  <2>1. UNCHANGED <<spent, budget, valid, terminal, spawn, runner>>
    BY <1>10 DEF ParentNext, RegisterParent, CancelParentReturns,
         FinalizeStarts, FinalizeRemoves, FinalizeFails, ledger, grants, verdicts
  <2>. QED BY <1>b, <2>1
<1>11. CASE UNCHANGED vars
  BY <1>b, <1>11 DEF vars, ledger, grants, verdicts
<1>. QED
  BY <1>1, <1>2, <1>3, <1>4, <1>5, <1>6, <1>7, <1>8, <1>9, <1>10, <1>11
  DEF Next, ChildNext, SpawnResumes

(* A quiescent parent has no spawn call left that could write a result. *)
LEMMA QuiescentIsSettled ==
  ASSUME QuiescenceExact, NEW c \in Children, ParentOf[c] \in Parents,
         quiescent[ParentOf[c]]
  PROVE  spawn[c] \in {"idle", "quiescing", "returned"}
<1>1. Cardinality(Unsettled(ParentOf[c])) = 0
  BY DEF QuiescenceExact
<1>2. Unsettled(ParentOf[c]) = {}
  BY <1>1, UnsettledFinite, FS_EmptySet
<1>. QED BY <1>2 DEF Unsettled, ChildrenOf

(* Every step of the runtime keeps a finalized parent cancelled, quiescent *)
(* and without files, and an unregistered one without a budget.            *)
LEMMA FinalizedStep ==
  ASSUME IInv, LooseTypes', [Next]_vars
  PROVE  FinalizedIsQuiescent' /\ AbsentIsBlank'
<1>a. /\ status \in [Parents -> {"absent", "active", "cancelled"}]
      /\ quiescent \in [Parents -> BOOLEAN]
      /\ finalizer \in [Parents -> {"none", "removing", "done"}]
      /\ limit \in [Parents -> Nat]
      /\ ParentOf \in [Children -> Parents]
      /\ QuiescenceExact /\ FinalizedIsQuiescent /\ AbsentIsBlank
  BY ParentOfAssumption, LimitAssumption DEF IInv, TypeOK, ParentTypes
<1>b. ASSUME UNCHANGED <<status, limit, finalizer>>,
             files' \subseteq files,
             \A p \in Parents : status[p] = "cancelled" /\ quiescent[p]
                                  => quiescent'[p]
      PROVE  FinalizedIsQuiescent' /\ AbsentIsBlank'
  BY <1>a, <1>b DEF FinalizedIsQuiescent, AbsentIsBlank
<1>1. ASSUME NEW c \in Children, Spawn(c) \/ SpawnTaskFails(c)
      PROVE  FinalizedIsQuiescent' /\ AbsentIsBlank'
  <2>1. /\ UNCHANGED <<status, limit, finalizer, files>>
        /\ status[ParentOf[c]] = "active"
        /\ quiescent' = [quiescent EXCEPT ![ParentOf[c]] = FALSE]
    BY <1>1 DEF Spawn, SpawnTaskFails, Reserve, MaySpawn, parentVars, owners
  <2>. QED BY <1>a, <1>b, <2>1
<1>2. ASSUME NEW c \in Children, WriteResult(c)
      PROVE  FinalizedIsQuiescent' /\ AbsentIsBlank'
  <2>1. /\ UNCHANGED <<status, limit, finalizer, quiescent>>
        /\ files' \in {files, files \cup {c}}
        /\ spawn[c] \in {"draining", "persisting"}
    BY <1>2 DEF WriteResult, parentVars, settling
  <2>2. ~quiescent[ParentOf[c]]
    BY <1>a, <2>1, QuiescentIsSettled
  <2>3. finalizer[ParentOf[c]] = "none"
    BY <1>a, <2>2 DEF FinalizedIsQuiescent
  <2>4. \A p \in Parents \ {ParentOf[c]} :
          files' \cap ChildrenOf(p) = files \cap ChildrenOf(p)
    BY <2>1 DEF ChildrenOf
  <2>. QED BY <1>a, <2>1, <2>3, <2>4 DEF FinalizedIsQuiescent, AbsentIsBlank
<1>3. ASSUME NEW c \in Children, SettleResult(c) \/ RunnerFinished(c)
      PROVE  FinalizedIsQuiescent' /\ AbsentIsBlank'
  <2>1. /\ UNCHANGED <<status, limit, finalizer, files>>
        /\ \A p \in Parents : quiescent[p] => quiescent'[p]
    BY <1>a, <1>3
    DEF SettleResult, RunnerFinished, RaiseQuiescence, parentVars, owners
  <2>. QED BY <1>b, <2>1
<1>c. ASSUME NEW p \in Parents, BeginCancellation(p),
             UNCHANGED <<settling, finalizer, files>>
      PROVE  FinalizedIsQuiescent' /\ AbsentIsBlank'
  <2>1. /\ status' = [status EXCEPT ![p] = "cancelled"]
        /\ UNCHANGED <<limit, quiescent, finalizer, files>>
    BY <1>c DEF BeginCancellation, settling
  <2>. QED BY <1>a, <2>1 DEF FinalizedIsQuiescent, AbsentIsBlank
<1>4. ASSUME NEW c \in Children, CancelFromSpawn(c)
      PROVE  FinalizedIsQuiescent' /\ AbsentIsBlank'
  BY <1>a, <1>c, <1>4 DEF CancelFromSpawn, owners
<1>5. ASSUME NEW p \in Parents, CancelParent(p)
      PROVE  FinalizedIsQuiescent' /\ AbsentIsBlank'
  BY <1>c, <1>5 DEF CancelParent
<1>6. ASSUME NEW p \in Parents, RegisterParent(p)
      PROVE  FinalizedIsQuiescent' /\ AbsentIsBlank'
  <2>1. /\ status[p] = "absent"
        /\ status' = [status EXCEPT ![p] = "active"]
        /\ \A q \in Parents \ {p} : limit'[q] = limit[q]
        /\ UNCHANGED <<quiescent, finalizer, files>>
    BY <1>a, <1>6 DEF RegisterParent, settling, owners
  <2>. QED BY <1>a, <2>1 DEF FinalizedIsQuiescent, AbsentIsBlank
<1>7. ASSUME NEW p \in Parents, FinalizeStarts(p)
      PROVE  FinalizedIsQuiescent' /\ AbsentIsBlank'
  <2>1. /\ status[p] = "cancelled" /\ quiescent[p]
        /\ finalizer' = [finalizer EXCEPT ![p] = "removing"]
        /\ UNCHANGED <<status, limit, quiescent, files>>
    BY <1>7 DEF FinalizeStarts, MayFinalize, parentVars, settling
  <2>. QED BY <1>a, <2>1 DEF FinalizedIsQuiescent, AbsentIsBlank
<1>8. ASSUME NEW p \in Parents, FinalizeRemoves(p)
      PROVE  FinalizedIsQuiescent' /\ AbsentIsBlank'
  <2>1. /\ finalizer[p] = "removing"
        /\ finalizer' = [finalizer EXCEPT ![p] = "done"]
        /\ files' = files \ ChildrenOf(p)
        /\ UNCHANGED <<status, limit, quiescent>>
    BY <1>8 DEF FinalizeRemoves, parentVars, settling
  <2>. QED BY <1>a, <2>1 DEF FinalizedIsQuiescent, AbsentIsBlank
<1>9. ASSUME NEW c \in Children,
             \/ CallerCancelledWaiting(c) \/ CallerCancelledDraining(c)
             \/ WakeTerminal(c) \/ DeadlineExpires(c) \/ WakeFinished(c)
             \/ WakeFinishedCancelled(c) \/ SpawnCharged(c) \/ SpawnQuiesced(c)
             \/ RunnerEnding(c) \/ RunnerCharged(c)
             \/ \E amount \in 1..ChildBudget : Consume(c, amount)
      PROVE  FinalizedIsQuiescent' /\ AbsentIsBlank'
  <2>1. UNCHANGED <<status, limit, finalizer, files, quiescent>>
    BY <1>9
    DEF CallerCancelledWaiting, CallerCancelledDraining, WakeTerminal,
        DeadlineExpires, WakeFinished, WakeFinishedCancelled, SpawnCharged,
        SpawnQuiesced, RunnerEnding, FactoryReturns, FactoryFails, RunnerEnds,
        RunnerCharged, Consume, parentVars, settling, owners
  <2>. QED BY <1>b, <2>1
<1>10. ASSUME NEW p \in Parents, CancelParentReturns(p)
       PROVE  FinalizedIsQuiescent' /\ AbsentIsBlank'
  BY <1>b, <1>10 DEF CancelParentReturns, parentVars, settling
<1>11. ASSUME NEW p \in Parents, FinalizeFails(p)
       PROVE  FinalizedIsQuiescent' /\ AbsentIsBlank'
  <2>1. /\ finalizer' = [finalizer EXCEPT ![p] = "none"]
        /\ files' \subseteq files
        /\ UNCHANGED <<status, limit, quiescent>>
    BY <1>11 DEF FinalizeFails, parentVars, settling
  <2>. QED BY <1>a, <2>1 DEF FinalizedIsQuiescent, AbsentIsBlank
<1>12. CASE UNCHANGED vars
  BY <1>b, <1>12 DEF vars, parentVars, settling, owners
<1>. QED
  BY <1>1, <1>2, <1>3, <1>4, <1>5, <1>6, <1>7, <1>8, <1>9, <1>10, <1>11, <1>12
  DEF Next, ChildNext, ParentNext, SpawnResumes, RunnerResumes

(* Every step of the runtime keeps the runners of a cancelled parent out   *)
(* of its accounts.                                                        *)
LEMMA CancelledStep ==
  ASSUME IInv, LooseTypes', [Next]_vars
  PROVE  CancelledIsInvalid'
<1>a. /\ status \in [Parents -> {"absent", "active", "cancelled"}]
      /\ valid \in [Children -> BOOLEAN] /\ valid' \in [Children -> BOOLEAN]
      /\ runner \in [Children -> {"none", "factory", "running", "charging",
                                  "done", "terminated"}]
      /\ ParentOf \in [Children -> Parents]
      /\ SlotsHeld /\ CancelledIsInvalid
  BY ParentOfAssumption
  DEF IInv, TypeOK, LooseTypes, ParentTypes, ChildTypes, TaskTypes
<1>b. ASSUME \A c \in Children :
               /\ RunnerAlive(c)' => RunnerAlive(c)
               /\ valid'[c] => valid[c],
             \A p \in Parents : status'[p] = "cancelled" => status[p] = "cancelled"
      PROVE  CancelledIsInvalid'
  BY <1>a, <1>b DEF CancelledIsInvalid
<1>1. ASSUME NEW c \in Children, Spawn(c)
      PROVE  CancelledIsInvalid'
  <2>1. /\ status[ParentOf[c]] = "active" /\ status' = status
        /\ valid' = [valid EXCEPT ![c] = TRUE]
        /\ runner' = [runner EXCEPT ![c] = "factory"]
    BY <1>1 DEF Spawn, Reserve, MaySpawn, parentVars
  <2>. QED BY <1>a, <2>1 DEF CancelledIsInvalid, RunnerAlive
<1>c. ASSUME NEW p \in Parents, BeginCancellation(p), UNCHANGED runner
      PROVE  CancelledIsInvalid'
  <2>. DEFINE ended == {c \in activeChildren[p] : valid[c]}
  <2>1. /\ valid' = [c \in Children |-> valid[c] /\ c \notin ended]
        /\ status' = [status EXCEPT ![p] = "cancelled"]
    BY <1>c DEF BeginCancellation
  <2>2. \A c \in Children :
          ParentOf[c] = p /\ RunnerAlive(c) /\ valid[c] => c \in ended
    BY <1>a DEF SlotsHeld, ChildrenOf
  <2>. HIDE DEF ended
  <2>. QED BY <1>a, <1>c, <2>1, <2>2 DEF CancelledIsInvalid, RunnerAlive
<1>2. ASSUME NEW c \in Children, CancelFromSpawn(c)
      PROVE  CancelledIsInvalid'
  BY <1>a, <1>c, <1>2 DEF CancelFromSpawn
<1>3. ASSUME NEW p \in Parents, CancelParent(p)
      PROVE  CancelledIsInvalid'
  BY <1>c, <1>3 DEF CancelParent
<1>4. ASSUME NEW c \in Children, SpawnResumes(c), ~CancelFromSpawn(c)
      PROVE  CancelledIsInvalid'
  <2>1. /\ UNCHANGED <<status, runner>>
        /\ valid' = valid \/ valid' = [valid EXCEPT ![c] = FALSE]
    BY <1>4
    DEF SpawnResumes, WakeTerminal, DeadlineExpires, WakeFinished,
        WakeFinishedCancelled, SpawnCharged, WriteResult, SettleResult,
        SpawnQuiesced, TerminalizeCharging, parentVars, verdicts
  <2>. QED BY <1>a, <1>b, <2>1 DEF RunnerAlive
<1>5. ASSUME NEW c \in Children,
             \/ RunnerEnding(c) \/ RunnerResumes(c)
             \/ \E amount \in 1..ChildBudget : Consume(c, amount)
      PROVE  CancelledIsInvalid'
  <2>1. /\ UNCHANGED <<status, valid>>
        /\ RunnerAlive(c)
        /\ \A d \in Children \ {c} : runner'[d] = runner[d]
    BY <1>a, <1>5
    DEF RunnerEnding, RunnerResumes, FactoryReturns, FactoryFails, RunnerEnds,
        RunnerCharged, RunnerFinished, Consume, End, RunnerAlive, parentVars,
        verdicts
  <2>. QED BY <1>b, <2>1 DEF RunnerAlive
<1>6. ASSUME NEW c \in Children,
             \/ SpawnTaskFails(c)
             \/ CallerCancelledWaiting(c) \/ CallerCancelledDraining(c)
      PROVE  CancelledIsInvalid'
  <2>1. UNCHANGED <<status, valid, runner>>
    BY <1>6 DEF SpawnTaskFails, CallerCancelledWaiting,
         CallerCancelledDraining, parentVars, verdicts
  <2>. QED BY <1>b, <2>1 DEF RunnerAlive
<1>7. ASSUME NEW p \in Parents, ParentNext(p), ~CancelParent(p)
      PROVE  CancelledIsInvalid'
  <2>1. /\ UNCHANGED <<valid, runner>>
        /\ status' = status \/ status' = [status EXCEPT ![p] = "active"]
    BY <1>7 DEF ParentNext, RegisterParent, CancelParentReturns,
         FinalizeStarts, FinalizeRemoves, FinalizeFails, parentVars, verdicts
  <2>. QED BY <1>a, <1>b, <2>1 DEF RunnerAlive
<1>8. CASE UNCHANGED vars
  BY <1>b, <1>8 DEF vars, parentVars, verdicts, RunnerAlive
<1>. QED
  BY <1>1, <1>2, <1>3, <1>4, <1>5, <1>6, <1>7, <1>8 DEF Next, ChildNext

-----------------------------------------------------------------------------
(* The inductive invariant *)

(* The runtime begins without parents and children. *)
LEMMA IInvInit ==
  ASSUME Init
  PROVE  IInv
<1>1. TypeOK
  BY LimitAssumption
  DEF Init, TypeOK, ParentTypes, CounterTypes, ChildTypes, TaskTypes,
      SpawnStates
<1>2. BudgetConserved
  BY DEF Init, BudgetConserved
<1>3. ReservationExact
  <2>1. \A p \in Parents : HeldTokens(Holders(p)) = {}
    BY DEF Init, HeldTokens, Tokens, Holders, ChildrenOf
  <2>. QED BY <2>1, FS_EmptySet DEF Init, ReservationExact
<1>4. SlotsHeld
  BY FS_EmptySet, LimitAssumption DEF Init, SlotsHeld, RunnerAlive
<1>5. QuiescenceExact
  <2>1. \A p \in Parents : Unsettled(p) = {}
    BY DEF Init, Unsettled, ChildrenOf
  <2>. QED BY <2>1, FS_EmptySet DEF Init, QuiescenceExact
<1>6. Coherent
  BY DEF Init, Coherent
<1>7. FinalizedIsQuiescent /\ AbsentIsBlank /\ CancelledIsInvalid
  BY ParentOfAssumption
  DEF Init, FinalizedIsQuiescent, AbsentIsBlank, CancelledIsInvalid
<1>. QED BY <1>1, <1>2, <1>3, <1>4, <1>5, <1>6, <1>7 DEF IInv

(* Every step of the runtime keeps the invariant. *)
LEMMA IInvStep ==
  ASSUME IInv, [Next]_vars
  PROVE  IInv'
<1>1. TypeOK /\ SlotsHeld /\ QuiescenceExact /\ Coherent
  BY DEF IInv
<1>2. LooseTypes'
  BY <1>1, TypesStep
<1>3. Accounts'
  BY <1>2, AccountsStep
<1>4. SlotsHeld' /\ QuiescenceExact' /\ Coherent'
  BY <1>1, <1>2, SlotsStep, QuiescenceStep, CoherentStep
<1>5. FinalizedIsQuiescent' /\ AbsentIsBlank' /\ CancelledIsInvalid'
  BY <1>2, FinalizedStep, CancelledStep
<1>6. TypeOK'
  <2>1. \A p \in Parents : reserved'[p] \in Nat
    <3>1. \A p \in Parents : Holders(p)' \in SUBSET Children
      BY DEF Holders, ChildrenOf
    <3>2. \A p \in Parents :
            Cardinality(Tokens(Holders(p)', spent', budget')) \in Nat
      BY <3>1, TokensFinite
    <3>. QED BY <1>3, <3>2 DEF Accounts, ReservationExact, HeldTokens
  <2>2. \A p \in Parents : pendingResults'[p] \in Nat
    <3>1. \A p \in Parents : Unsettled(p)' \in SUBSET Children
      BY DEF Unsettled, ChildrenOf
    <3>2. \A p \in Parents : Cardinality(Unsettled(p)') \in Nat
      BY <3>1, ChildrenAssumption, FS_Subset, FS_CardinalityType
    <3>. QED BY <1>4, <3>2 DEF QuiescenceExact
  <2>3. reserved' \in [Parents -> Nat] /\ pendingResults' \in [Parents -> Nat]
    BY <1>2, <2>1, <2>2 DEF LooseTypes, LooseCounters
  <2>. QED BY <1>2, <2>3 DEF LooseTypes, LooseCounters, TypeOK, CounterTypes
<1>. QED BY <1>3, <1>4, <1>5, <1>6 DEF IInv, Accounts

(* The counters of a parent, its slots and the stages of its children fit  *)
(* each other between any two steps of the runtime's tasks.                *)
THEOREM Inductive == Spec => []IInv
<1>1. Init => IInv
  BY IInvInit
<1>2. IInv /\ [Next]_vars => IInv'
  BY IInvStep
<1>. QED BY <1>1, <1>2, PTL DEF Spec

(* Type correctness: no reservation and no pending result is ever given    *)
(* back twice, so the counters stay natural numbers.                       *)
THEOREM Typed == Spec => []TypeOK
<1>1. IInv => TypeOK
  BY DEF IInv
<1>. QED BY <1>1, Inductive, PTL

(* The shared budget is never over-committed (_reserve_child,              *)
(* _consume_child_budget, _terminalize_child_locked,                       *)
(* _begin_parent_cancellation).                                            *)
THEOREM BudgetIsConserved == Spec => []BudgetConserved
<1>1. IInv => BudgetConserved
  BY DEF IInv
<1>. QED BY <1>1, Inductive, PTL

(* The reserved counter is exactly what the valid children still hold. *)
THEOREM ReservationIsExact == Spec => []ReservationExact
<1>1. IInv => ReservationExact
  BY DEF IInv
<1>. QED BY <1>1, Inductive, PTL

(* The process-wide slots bound the runners that really run. *)
THEOREM SlotsAreHeld == Spec => []SlotsHeld
<1>1. IInv => SlotsHeld
  BY DEF IInv
<1>. QED BY <1>1, Inductive, PTL

(* Quiescence is raised exactly when runners and results are gone. *)
THEOREM QuiescenceIsExact == Spec => []QuiescenceExact
<1>1. IInv => QuiescenceExact
  BY DEF IInv
<1>. QED BY <1>1, Inductive, PTL

(* No late writer survives finalize_parent_artifacts. *)
THEOREM FinalizedIsEmpty == Spec => []FinalizedStaysEmpty
<1>1. IInv => FinalizedStaysEmpty
  <2>. SUFFICES ASSUME IInv, NEW p \in Parents, finalizer[p] # "none"
                PROVE  /\ \A c \in ChildrenOf(p) :
                            spawn[c] \notin {"waiting", "draining", "persisting"}
                       /\ finalizer[p] = "done" => files \cap ChildrenOf(p) = {}
    BY DEF FinalizedStaysEmpty
  <2>1. QuiescenceExact /\ FinalizedIsQuiescent
    BY DEF IInv
  <2>2. quiescent[p] /\ (finalizer[p] = "done" => files \cap ChildrenOf(p) = {})
    BY <2>1 DEF FinalizedIsQuiescent
  <2>3. \A c \in ChildrenOf(p) : spawn[c] \in {"idle", "quiescing", "returned"}
    BY <2>1, <2>2, QuiescentIsSettled DEF ChildrenOf
  <2>. QED BY <2>2, <2>3
<1>. QED BY <1>1, Inductive, PTL

-----------------------------------------------------------------------------
(* What a step may never do *)

(* Only a valid child is charged, and only an idle one is granted tokens. *)
LEMMA ChargedWasValid ==
  ASSUME IInv, [Next]_vars, NEW d \in Children
  PROVE  /\ spent'[d] # spent[d] => valid[d]
         /\ budget'[d] # budget[d] =>
              status[ParentOf[d]] = "active" /\ terminal[d] = "none"
         /\ terminal[d] # "none" =>
              terminal'[d] = terminal[d] /\ ~valid'[d]
<1>. DEFINE Goal == /\ spent'[d] # spent[d] => valid[d]
                    /\ budget'[d] # budget[d] =>
                         status[ParentOf[d]] = "active" /\ terminal[d] = "none"
                    /\ terminal[d] # "none" =>
                         terminal'[d] = terminal[d] /\ ~valid'[d]
<1>a. /\ spent \in [Children -> 0..ChildBudget]
      /\ budget \in [Children -> 0..ChildBudget]
      /\ valid \in [Children -> BOOLEAN]
      /\ terminal \in [Children -> {"none", "timeout", "cancelled"}]
      /\ Coherent /\ SlotsHeld
  BY DEF IInv, TypeOK, ChildTypes
<1>b. valid[d] => terminal[d] = "none"
  BY <1>a DEF Coherent
<1>1. ASSUME NEW c \in Children, Spawn(c)
      PROVE  Goal
  <2>1. /\ terminal[c] = "none" /\ status[ParentOf[c]] = "active"
        /\ spent' = spent /\ terminal' = terminal
        /\ valid' = [valid EXCEPT ![c] = TRUE]
        /\ \A e \in Children \ {c} : budget'[e] = budget[e]
    BY <1>a, <1>1 DEF Spawn, Reserve, MaySpawn, Coherent
  <2>. QED BY <1>a, <1>b, <2>1
<1>2. ASSUME NEW c \in Children, SpawnTaskFails(c)
      PROVE  Goal
  <2>1. /\ terminal[c] = "none" /\ status[ParentOf[c]] = "active"
        /\ spent' = spent /\ terminal' = terminal /\ valid' = valid
        /\ \A e \in Children \ {c} : budget'[e] = budget[e]
    BY <1>a, <1>2
    DEF SpawnTaskFails, Reserve, MaySpawn, Coherent, ledger, verdicts
  <2>. QED BY <1>a, <1>b, <2>1
<1>3. ASSUME NEW c \in Children, NEW amount \in 1..ChildBudget,
             Consume(c, amount)
      PROVE  Goal
  <2>1. /\ valid[c] /\ UNCHANGED <<budget, valid, terminal>>
        /\ \A e \in Children \ {c} : spent'[e] = spent[e]
    BY <1>a, <1>3 DEF Consume, MayConsume, grants, verdicts
  <2>. QED BY <1>b, <2>1
<1>4. ASSUME NEW c \in Children, DeadlineExpires(c) \/ WakeFinished(c)
      PROVE  Goal
  <2>1. /\ valid[c] /\ UNCHANGED budget
        /\ valid' = [valid EXCEPT ![c] = FALSE]
        /\ terminal[c] = "none"
        /\ \A e \in Children \ {c} :
             spent'[e] = spent[e] /\ terminal'[e] = terminal[e]
    BY <1>a, <1>4
    DEF DeadlineExpires, DeadlineMissed, WakeFinished, TerminalizeCharging,
        Charged, Released, Coherent, grants
  <2>. QED BY <1>a, <1>b, <2>1
<1>c. ASSUME NEW p \in Parents, BeginCancellation(p), UNCHANGED budget
      PROVE  Goal
  BY <1>a, <1>b, <1>c DEF BeginCancellation, SlotsHeld
<1>5. ASSUME NEW c \in Children, CancelFromSpawn(c)
      PROVE  Goal
  BY <1>c, <1>5, ParentOfAssumption DEF CancelFromSpawn, grants
<1>6. ASSUME NEW p \in Parents, CancelParent(p)
      PROVE  Goal
  BY <1>c, <1>6 DEF CancelParent, grants
<1>7. ASSUME NEW c \in Children,
             \/ CallerCancelledWaiting(c) \/ CallerCancelledDraining(c)
             \/ WakeTerminal(c) \/ WakeFinishedCancelled(c)
             \/ SpawnCharged(c) \/ WriteResult(c) \/ SettleResult(c)
             \/ SpawnQuiesced(c) \/ RunnerEnding(c) \/ RunnerResumes(c)
      PROVE  Goal
  <2>1. UNCHANGED <<spent, budget, valid, terminal>>
    BY <1>7
    DEF CallerCancelledWaiting, CallerCancelledDraining, WakeTerminal,
        WakeFinishedCancelled, SpawnCharged, WriteResult, SettleResult,
        SpawnQuiesced, RunnerEnding, RunnerResumes, FactoryReturns,
        FactoryFails, RunnerEnds, RunnerCharged, RunnerFinished, ledger,
        grants, verdicts
  <2>. QED BY <1>b, <2>1
<1>8. ASSUME NEW p \in Parents, ParentNext(p), ~CancelParent(p)
      PROVE  Goal
  <2>1. UNCHANGED <<spent, budget, valid, terminal>>
    BY <1>8 DEF ParentNext, RegisterParent, CancelParentReturns,
         FinalizeStarts, FinalizeRemoves, FinalizeFails, ledger, grants, verdicts
  <2>. QED BY <1>b, <2>1
<1>9. CASE UNCHANGED vars
  <2>1. UNCHANGED <<spent, budget, valid, terminal>>
    BY <1>9 DEF vars, ledger, grants, verdicts
  <2>. QED BY <1>b, <2>1
<1>. QED
  BY <1>1, <1>2, <1>3, <1>4, <1>5, <1>6, <1>7, <1>8, <1>9
  DEF Next, ChildNext, SpawnResumes

(* A cancelled parent's runners spend nothing and none are added, even     *)
(* those that swallow their cancellation (_assert_child_active).           *)
THEOREM CancellationStopsSpending == Spec => CancelStopsSpending
<1>1. IInv /\ [Next]_vars =>
        [\A c \in Children : status[ParentOf[c]] = "cancelled" =>
           /\ RunnerAlive(c) => spent'[c] = spent[c]
           /\ budget'[c] = budget[c]]_vars
  <2>. SUFFICES ASSUME IInv, [Next]_vars, NEW c \in Children,
                       status[ParentOf[c]] = "cancelled"
                PROVE  /\ RunnerAlive(c) => spent'[c] = spent[c]
                       /\ budget'[c] = budget[c]
    OBVIOUS
  <2>1. RunnerAlive(c) => ~valid[c]
    BY DEF IInv, CancelledIsInvalid
  <2>. QED BY <2>1, ChargedWasValid
<1>. QED BY <1>1, Inductive, PTL DEF Spec, CancelStopsSpending

(* The deadline and a cancellation race for a child; the first one's       *)
(* verdict stays, and its account is closed with it.                       *)
THEOREM FirstTerminalWins == Spec => TerminalIsFinal
<1>1. IInv /\ [Next]_vars =>
        [\A c \in Children : terminal[c] # "none" =>
           terminal'[c] = terminal[c] /\ spent'[c] = spent[c] /\ ~valid'[c]]_vars
  <2>. SUFFICES ASSUME IInv, [Next]_vars, NEW c \in Children,
                       terminal[c] # "none"
                PROVE  /\ terminal'[c] = terminal[c]
                       /\ spent'[c] = spent[c] /\ ~valid'[c]
    OBVIOUS
  <2>1. ~valid[c]
    BY DEF IInv, Coherent
  <2>. QED BY <2>1, ChargedWasValid
<1>. QED BY <1>1, Inductive, PTL DEF Spec, TerminalIsFinal

-----------------------------------------------------------------------------
(* The books: the ledger of the turn, the consumption of a parent and the  *)
(* results, which stay exact together (BooksInv).                          *)

(* an amount that concerns the parent of c *)
At(p, c, amount) == IF p = ParentOf[c] THEN amount ELSE 0

(* When only child c is charged, the tokens of a parent's children move    *)
(* with it.                                                                *)
LEMMA ChargesMove ==
  ASSUME NEW c \in Children, NEW x \in Amounts, NEW x2 \in Amounts,
         \A d \in Children \ {c} : x2[d] = x[d],
         NEW p \in Parents
  PROVE  Cardinality(Tokens(ChildrenOf(p), Nothing, x2)) =
           Cardinality(Tokens(ChildrenOf(p), Nothing, x)) +
             At(p, c, x2[c] - x[c])
<1>1. Nothing \in Amounts
  BY LimitAssumption DEF Nothing, Amounts
<1>2. x[c] \in Nat /\ x2[c] \in Nat /\ Nothing[c] = 0
  BY LimitAssumption DEF Nothing, Amounts
<1>3. ChildrenOf(p) \in SUBSET Children /\ (c \in ChildrenOf(p) <=> p = ParentOf[c])
  BY DEF ChildrenOf
<1>4. \A d \in ChildrenOf(p) \ {c} : x2[d] = x[d]
  BY <1>3
<1>5. Cardinality(Tokens(ChildrenOf(p), Nothing, x2)) =
        Cardinality(Tokens(ChildrenOf(p), Nothing, x))
          + Share(ChildrenOf(p), c, Nothing, x2)
          - Share(ChildrenOf(p), c, Nothing, x)
  BY <1>1, <1>2, <1>3, <1>4, TokensMoveByShare
<1>6. Cardinality(Tokens(ChildrenOf(p), Nothing, x)) \in Nat
  BY <1>3, TokensFinite
<1>. QED BY <1>2, <1>3, <1>5, <1>6 DEF Share, At

(* The books of consumption and of the turn stay exact when the counters   *)
(* of a parent move with what one of its children was charged and owes.    *)
LEMMA BooksMove ==
  ASSUME TypeOK, TypeOK', TurnLedgerExact, ConsumptionExact,
         NEW c \in Children,
         \A d \in Children \ {c} :
           /\ spent'[d] = spent[d]
           /\ spawnOwes'[d] = spawnOwes[d] /\ runnerOwes'[d] = runnerOwes[d],
         \A p \in Parents :
           /\ consumed'[p] = consumed[p] +
                At(p, c, spent'[c] - spent[c])
           /\ consumed'[p] - turn'[p] = consumed[p] - turn[p] +
                At(p, c, (spawnOwes'[c] - spawnOwes[c])
                           + (runnerOwes'[c] - runnerOwes[c]))
  PROVE  TurnLedgerExact' /\ ConsumptionExact'
<1>1. /\ spent \in Amounts /\ spent' \in Amounts
      /\ spawnOwes \in Amounts /\ spawnOwes' \in Amounts
      /\ runnerOwes \in Amounts /\ runnerOwes' \in Amounts
      /\ consumed \in [Parents -> Nat] /\ consumed' \in [Parents -> Nat]
      /\ turn \in [Parents -> Nat] /\ turn' \in [Parents -> Nat]
  BY DEF TypeOK, ChildTypes, CounterTypes, Amounts
<1>2. \A x \in Amounts : x[c] \in Nat
  BY LimitAssumption DEF Amounts
<1>3. \A p \in Parents, x \in Amounts :
        Cardinality(Tokens(ChildrenOf(p), Nothing, x)) \in Nat
  BY TokensFinite DEF ChildrenOf
<1>a. \A d \in Children \ {c} : spent'[d] = spent[d]
  OBVIOUS
<1>b. \A d \in Children \ {c} : spawnOwes'[d] = spawnOwes[d]
  OBVIOUS
<1>c. \A d \in Children \ {c} : runnerOwes'[d] = runnerOwes[d]
  OBVIOUS
<1>4. ASSUME NEW p \in Parents
      PROVE  consumed'[p] = Cardinality(Tokens(ChildrenOf(p), Nothing, spent'))
  <2>1. Cardinality(Tokens(ChildrenOf(p), Nothing, spent')) =
          Cardinality(Tokens(ChildrenOf(p), Nothing, spent)) +
            At(p, c, spent'[c] - spent[c])
    BY <1>1, <1>a, ChargesMove
  <2>. QED BY <2>1 DEF ConsumptionExact
<1>5. ASSUME NEW p \in Parents
      PROVE  consumed'[p] =
               turn'[p]
                 + Cardinality(Tokens(ChildrenOf(p), Nothing, spawnOwes'))
                 + Cardinality(Tokens(ChildrenOf(p), Nothing, runnerOwes'))
  <2>. DEFINE s == Cardinality(Tokens(ChildrenOf(p), Nothing, spawnOwes))
              r == Cardinality(Tokens(ChildrenOf(p), Nothing, runnerOwes))
  <2>1. Cardinality(Tokens(ChildrenOf(p), Nothing, spawnOwes')) =
          s + At(p, c, spawnOwes'[c] - spawnOwes[c])
    BY <1>1, <1>b, ChargesMove
  <2>2. Cardinality(Tokens(ChildrenOf(p), Nothing, runnerOwes')) =
          r + At(p, c, runnerOwes'[c] - runnerOwes[c])
    BY <1>1, <1>c, ChargesMove
  <2>3. consumed[p] = turn[p] + s + r
    BY DEF TurnLedgerExact, OwedTokens
  <2>4. s \in Nat /\ r \in Nat
    BY <1>1, <1>3
  <2>5. /\ consumed[p] \in Nat /\ consumed'[p] \in Nat
        /\ turn[p] \in Nat /\ turn'[p] \in Nat
        /\ spawnOwes[c] \in Nat /\ spawnOwes'[c] \in Nat
        /\ runnerOwes[c] \in Nat /\ runnerOwes'[c] \in Nat
    BY <1>1, <1>2
  <2>. HIDE DEF s, r
  <2>. QED BY <2>1, <2>2, <2>3, <2>4, <2>5 DEF At
<1>6. (Nothing)' = Nothing
  BY DEF Nothing
<1>. QED BY <1>4, <1>5, <1>6 DEF TurnLedgerExact, ConsumptionExact, OwedTokens

(* Nothing a step leaves alone unsettles the books. *)
LEMMA BooksStay ==
  ASSUME TurnLedgerExact, ConsumptionExact,
         UNCHANGED <<consumed, spent, turn, spawnOwes, runnerOwes>>
  PROVE  TurnLedgerExact' /\ ConsumptionExact'
BY DEF TurnLedgerExact, ConsumptionExact, OwedTokens, Tokens

(* Every step keeps the turn's and the results' books in line with the     *)
(* accounts.                                                               *)
LEMMA BooksStep ==
  ASSUME IInv, TypeOK', TurnLedgerExact, ConsumptionExact, OwedWhileCharging,
         [Next]_vars
  PROVE  TurnLedgerExact' /\ ConsumptionExact'
<1>. DEFINE Goal == TurnLedgerExact' /\ ConsumptionExact'
<1>a. /\ TypeOK /\ Coherent
      /\ spent \in [Children -> Nat] /\ budget \in [Children -> Nat]
      /\ spawnOwes \in [Children -> Nat] /\ runnerOwes \in [Children -> Nat]
      /\ consumed \in [Parents -> Nat] /\ turn \in [Parents -> Nat]
      /\ \A c \in Children : ParentOf[c] \in Parents
  BY LimitAssumption, ParentOfAssumption
  DEF IInv, TypeOK, ChildTypes, CounterTypes
<1>1. ASSUME NEW c \in Children, NEW amount \in 1..ChildBudget,
             Consume(c, amount)
      PROVE  Goal
  <2>1. /\ consumed' = [consumed EXCEPT ![ParentOf[c]] = @ + amount]
        /\ spent' = [spent EXCEPT ![c] = @ + amount]
        /\ runnerOwes' = [runnerOwes EXCEPT ![c] = amount]
        /\ runnerOwes[c] = 0
        /\ UNCHANGED <<turn, spawnOwes>>
    BY <1>1 DEF Consume, OwedWhileCharging
  <2>2. amount \in Nat
    BY LimitAssumption
  <2>. QED BY <1>a, <2>1, <2>2, BooksMove DEF At
<1>2. ASSUME NEW c \in Children, RunnerCharged(c)
      PROVE  Goal
  <2>1. /\ turn' = [turn EXCEPT ![ParentOf[c]] = @ + runnerOwes[c]]
        /\ runnerOwes' = [runnerOwes EXCEPT ![c] = 0]
        /\ UNCHANGED <<consumed, spent, spawnOwes>>
    BY <1>2 DEF RunnerCharged, ledger
  <2>. QED BY <1>a, <2>1, BooksMove DEF At
<1>3. ASSUME NEW c \in Children, SpawnCharged(c)
      PROVE  Goal
  <2>1. /\ turn' = [turn EXCEPT ![ParentOf[c]] = @ + spawnOwes[c]]
        /\ spawnOwes' = [spawnOwes EXCEPT ![c] = 0]
        /\ UNCHANGED <<consumed, spent, runnerOwes>>
    BY <1>3 DEF SpawnCharged, ledger
  <2>. QED BY <1>a, <2>1, BooksMove DEF At
<1>b. ASSUME NEW c \in Children, NEW verdict, spawn[c] = "waiting",
             TerminalizeCharging(c, verdict), UNCHANGED <<turn, runnerOwes>>
      PROVE  Goal
  <2>1. /\ consumed' = [consumed EXCEPT ![ParentOf[c]] = @ + Remaining(c)]
        /\ spent' = [spent EXCEPT ![c] = budget[c]]
        /\ spawnOwes' = [spawnOwes EXCEPT ![c] = Remaining(c)]
        /\ spawnOwes[c] = 0
    BY <1>b DEF TerminalizeCharging, Charged, OwedWhileCharging
  <2>2. Remaining(c) = budget[c] - spent[c] /\ Remaining(c) \in Nat
    BY <1>a DEF Remaining, Coherent
  <2>. QED BY <1>a, <1>b, <2>1, <2>2, BooksMove DEF At
<1>4. ASSUME NEW c \in Children, DeadlineExpires(c)
      PROVE  Goal
  BY <1>b, <1>4 DEF DeadlineExpires
<1>5. ASSUME NEW c \in Children, WakeFinished(c)
      PROVE  Goal
  <2>1. CASE Uncharged(c)
    BY <1>5, <2>1, BooksStay DEF WakeFinished, Released, IInv
  <2>2. CASE ~Uncharged(c)
    BY <1>b, <1>5, <2>2 DEF WakeFinished
  <2>. QED BY <2>1, <2>2
<1>6. ASSUME NEW c \in Children,
             \/ Spawn(c) \/ SpawnTaskFails(c)
             \/ CallerCancelledWaiting(c) \/ CallerCancelledDraining(c)
             \/ WakeTerminal(c) \/ WakeFinishedCancelled(c)
             \/ CancelFromSpawn(c) \/ WriteResult(c) \/ SettleResult(c)
             \/ SpawnQuiesced(c) \/ RunnerEnding(c) \/ RunnerFinished(c)
      PROVE  Goal
  <2>1. UNCHANGED <<consumed, spent, turn, spawnOwes, runnerOwes>>
    BY <1>6
    DEF Spawn, SpawnTaskFails, CallerCancelledWaiting,
        CallerCancelledDraining, WakeTerminal, WakeFinishedCancelled,
        CancelFromSpawn, BeginCancellation, WriteResult, SettleResult,
        SpawnQuiesced, RunnerEnding, FactoryReturns, FactoryFails, RunnerEnds,
        RunnerFinished, ledger, owing
  <2>. QED BY <2>1, BooksStay
<1>7. ASSUME NEW p \in Parents, ParentNext(p)
      PROVE  Goal
  <2>1. UNCHANGED <<consumed, spent, turn, spawnOwes, runnerOwes>>
    BY <1>7 DEF ParentNext, RegisterParent, CancelParent, BeginCancellation,
         CancelParentReturns, FinalizeStarts, FinalizeRemoves, FinalizeFails,
         ledger, owing
  <2>. QED BY <2>1, BooksStay
<1>8. CASE UNCHANGED vars
  BY <1>8, BooksStay DEF vars, ledger, owing
<1>. QED
  BY <1>1, <1>2, <1>3, <1>4, <1>5, <1>6, <1>7, <1>8
  DEF Next, ChildNext, SpawnResumes, RunnerResumes

(* A charge is owed from the step that suspends its task in the budget     *)
(* consumer to the step that resumes it.                                   *)
LEMMA OwedStep ==
  ASSUME IInv, OwedWhileCharging, [Next]_vars
  PROVE  OwedWhileCharging'
<1>a. /\ spawn \in [Children -> SpawnStates]
      /\ runner \in [Children -> {"none", "factory", "running", "charging",
                                  "done", "terminated"}]
      /\ spent \in [Children -> Nat] /\ budget \in [Children -> Nat]
      /\ spawnOwes \in [Children -> Nat] /\ runnerOwes \in [Children -> Nat]
      /\ Coherent
  BY LimitAssumption DEF IInv, TypeOK, ChildTypes, TaskTypes
<1>b. ASSUME NEW c \in Children,
             UNCHANGED <<spawnOwes, runnerOwes>>,
             \A d \in Children \ {c} :
               spawn'[d] = spawn[d] /\ runner'[d] = runner[d],
             spawn[c] = "charging" => spawn'[c] = "charging",
             runner[c] = "charging" => runner'[c] = "charging"
      PROVE  OwedWhileCharging'
  BY <1>b DEF OwedWhileCharging
<1>1. ASSUME NEW c \in Children, NEW amount \in 1..ChildBudget,
             Consume(c, amount)
      PROVE  OwedWhileCharging'
  BY <1>a, <1>1 DEF Consume, OwedWhileCharging
<1>2. ASSUME NEW c \in Children, RunnerCharged(c)
      PROVE  OwedWhileCharging'
  BY <1>a, <1>2 DEF RunnerCharged, OwedWhileCharging
<1>3. ASSUME NEW c \in Children, SpawnCharged(c)
      PROVE  OwedWhileCharging'
  BY <1>a, <1>3 DEF SpawnCharged, OwedWhileCharging
<1>c. ASSUME NEW c \in Children, NEW verdict,
             TerminalizeCharging(c, verdict), UNCHANGED <<runner, runnerOwes>>
      PROVE  OwedWhileCharging'
  <2>1. /\ spawnOwes' = [spawnOwes EXCEPT ![c] = Remaining(c)]
        /\ spawn' = [spawn EXCEPT ![c] =
                       IF Remaining(c) > 0 THEN "charging" ELSE "draining"]
    BY <1>c DEF TerminalizeCharging
  <2>2. Remaining(c) \in Nat
    BY <1>a DEF Remaining, Coherent
  <2>. QED BY <1>a, <1>c, <2>1, <2>2 DEF OwedWhileCharging
<1>4. ASSUME NEW c \in Children, DeadlineExpires(c)
      PROVE  OwedWhileCharging'
  BY <1>c, <1>4 DEF DeadlineExpires
<1>5. ASSUME NEW c \in Children, WakeFinished(c)
      PROVE  OwedWhileCharging'
  <2>1. CASE Uncharged(c)
    BY <1>a, <1>b, <1>5, <2>1 DEF WakeFinished
  <2>2. CASE ~Uncharged(c)
    BY <1>c, <1>5, <2>2 DEF WakeFinished
  <2>. QED BY <2>1, <2>2
<1>6. ASSUME NEW c \in Children,
             \/ Spawn(c) \/ SpawnTaskFails(c)
             \/ CallerCancelledWaiting(c) \/ CallerCancelledDraining(c)
             \/ WakeTerminal(c) \/ WakeFinishedCancelled(c)
             \/ CancelFromSpawn(c) \/ WriteResult(c) \/ SettleResult(c)
             \/ SpawnQuiesced(c)
      PROVE  OwedWhileCharging'
  <2>1. /\ UNCHANGED <<spawnOwes, runnerOwes>>
        /\ spawn[c] # "charging"
        /\ \A d \in Children \ {c} : spawn'[d] = spawn[d]
        /\ \/ runner' = runner
           \/ runner[c] = "none" /\ runner' = [runner EXCEPT ![c] = "factory"]
    BY <1>a, <1>6
    DEF Spawn, SpawnTaskFails, Reserve, Coherent, CallerCancelledWaiting,
        CallerCancelledDraining, WakeTerminal, WakeFinishedCancelled,
        CancelFromSpawn, WriteResult, SettleResult, SpawnQuiesced, owing
  <2>. QED BY <1>a, <1>b, <2>1
<1>7. ASSUME NEW c \in Children, RunnerEnding(c) \/ RunnerFinished(c)
      PROVE  OwedWhileCharging'
  <2>1. /\ UNCHANGED <<spawnOwes, runnerOwes, spawn>>
        /\ runner[c] # "charging"
        /\ \A d \in Children \ {c} : runner'[d] = runner[d]
    BY <1>a, <1>7
    DEF RunnerEnding, FactoryReturns, FactoryFails, RunnerEnds, End,
        RunnerFinished, owing
  <2>. QED BY <1>b, <2>1
<1>8. ASSUME NEW p \in Parents, ParentNext(p)
      PROVE  OwedWhileCharging'
  <2>1. UNCHANGED <<spawnOwes, runnerOwes, spawn, runner>>
    BY <1>8 DEF ParentNext, RegisterParent, CancelParent,
         CancelParentReturns, FinalizeStarts, FinalizeRemoves, FinalizeFails,
         owing
  <2>. QED BY <2>1 DEF OwedWhileCharging
<1>9. CASE UNCHANGED vars
  BY <1>9 DEF vars, owing, OwedWhileCharging
<1>. QED
  BY <1>1, <1>2, <1>3, <1>4, <1>5, <1>6, <1>7, <1>8, <1>9
  DEF Next, ChildNext, SpawnResumes, RunnerResumes

(* Only a spawn call of a registered parent grants tokens. *)
LEMMA GrantedStep ==
  ASSUME IInv, SpawnedIsGranted, [Next]_vars
  PROVE  SpawnedIsGranted'
<1>a. /\ spawn \in [Children -> SpawnStates]
      /\ status \in [Parents -> {"absent", "active", "cancelled"}]
      /\ budget \in [Children -> Nat]
      /\ \A c \in Children : ParentOf[c] \in Parents
  BY LimitAssumption, ParentOfAssumption
  DEF IInv, TypeOK, ParentTypes, ChildTypes, TaskTypes
<1>b. ASSUME NEW c \in Children, spawn[c] # "idle", spawn'[c] # "idle",
             \A d \in Children \ {c} : spawn'[d] = spawn[d],
             UNCHANGED budget,
             \A p \in Parents : status[p] # "absent" => status'[p] # "absent"
      PROVE  SpawnedIsGranted'
  BY <1>a, <1>b DEF SpawnedIsGranted
<1>c. ASSUME UNCHANGED <<budget, spawn>>,
             \A p \in Parents : status[p] # "absent" => status'[p] # "absent"
      PROVE  SpawnedIsGranted'
  BY <1>a, <1>c DEF SpawnedIsGranted
<1>1. ASSUME NEW c \in Children, Spawn(c) \/ SpawnTaskFails(c)
      PROVE  SpawnedIsGranted'
  <2>1. /\ status[ParentOf[c]] = "active" /\ UNCHANGED status
        /\ spawn'[c] # "idle"
        /\ \A d \in Children \ {c} :
             spawn'[d] = spawn[d] /\ budget'[d] = budget[d]
    BY <1>a, <1>1 DEF Spawn, SpawnTaskFails, Reserve, MaySpawn, parentVars
  <2>. QED BY <1>a, <2>1 DEF SpawnedIsGranted
<1>2. ASSUME NEW c \in Children,
             \/ CallerCancelledWaiting(c) \/ CallerCancelledDraining(c)
             \/ SpawnResumes(c)
      PROVE  SpawnedIsGranted'
  <2>1. CASE CancelFromSpawn(c)
    <3>1. /\ spawn[c] = "cancelling" /\ spawn' = [spawn EXCEPT ![c] = "draining"]
          /\ status' = [status EXCEPT ![ParentOf[c]] = "cancelled"]
          /\ UNCHANGED budget
      BY <2>1 DEF CancelFromSpawn, BeginCancellation, grants
    <3>. QED BY <1>a, <1>b, <3>1
  <2>2. CASE ~CancelFromSpawn(c)
    <3>1. /\ spawn[c] # "idle" /\ spawn'[c] # "idle"
          /\ \A d \in Children \ {c} : spawn'[d] = spawn[d]
          /\ UNCHANGED <<budget, status>>
      BY <1>a, <1>2, <2>2
      DEF CallerCancelledWaiting, CallerCancelledDraining, SpawnResumes,
          WakeTerminal, DeadlineExpires, WakeFinished, WakeFinishedCancelled,
          TerminalizeCharging, SpawnCharged, WriteResult, SettleResult,
          SpawnQuiesced, grants, parentVars
    <3>. QED BY <1>b, <3>1
  <2>. QED BY <2>1, <2>2
<1>3. ASSUME NEW c \in Children,
             \/ RunnerEnding(c) \/ RunnerResumes(c)
             \/ \E amount \in 1..ChildBudget : Consume(c, amount)
      PROVE  SpawnedIsGranted'
  <2>1. UNCHANGED <<budget, spawn, status>>
    BY <1>3
    DEF RunnerEnding, RunnerResumes, FactoryReturns, FactoryFails, RunnerEnds,
        RunnerCharged, RunnerFinished, Consume, grants, parentVars
  <2>. QED BY <1>c, <2>1
<1>4. ASSUME NEW p \in Parents, ParentNext(p)
      PROVE  SpawnedIsGranted'
  <2>1. /\ UNCHANGED <<budget, spawn>>
        /\ \/ status' = status
           \/ \E s \in {"active", "cancelled"} :
                status' = [status EXCEPT ![p] = s]
    BY <1>4 DEF ParentNext, RegisterParent, CancelParent, BeginCancellation,
         CancelParentReturns, FinalizeStarts, FinalizeRemoves, FinalizeFails,
         grants, parentVars
  <2>. QED BY <1>a, <1>c, <2>1
<1>5. CASE UNCHANGED vars
  BY <1>c, <1>5 DEF vars, grants, parentVars
<1>. QED
  BY <1>1, <1>2, <1>3, <1>4, <1>5 DEF Next, ChildNext

Settled(c) ==
  /\ terminal[c] = "timeout" => spent[c] = budget[c]
  /\ result[c] # "none" =>
       /\ spawn[c] \notin {"idle", "waiting", "cancelling"}
       /\ valid[c] => ~RunnerAlive(c)
       /\ tokens[c] = spent[c]
       /\ result[c] = "timeout" => spent[c] = budget[c]
  /\ result[c] = "success" =>
       /\ RunnerEnded(c) /\ ~valid[c]
       /\ Succeeded(c) /\ terminal[c] = "none"

(* The two invariants about results, child by child. *)
LEMMA SettledEach ==
  ResultExact /\ DecidedIsSettled <=> \A c \in Children : Settled(c)
BY DEF ResultExact, DecidedIsSettled, Settled

(* No step changes what a result was decided from. *)
LEMMA SettledStep ==
  ASSUME IInv, \A c \in Children : Settled(c), [Next]_vars
  PROVE  \A c \in Children : Settled(c)'
<1>. DEFINE Goal == \A c \in Children : Settled(c)'
<1>a. /\ spawn \in [Children -> SpawnStates]
      /\ runner \in [Children -> {"none", "factory", "running", "charging",
                                  "done", "terminated"}]
      /\ outcome \in [Children -> {"none", "honest", "misreport", "raised",
                                   "factoryError", "cancelled", "unread"}]
      /\ result \in [Children ->
                       {"none", "success", "timeout", "error", "cancelled"}]
      /\ spent \in [Children -> Nat] /\ budget \in [Children -> Nat]
      /\ tokens \in [Children -> Nat]
      /\ valid \in [Children -> BOOLEAN]
      /\ terminal \in [Children -> {"none", "timeout", "cancelled"}]
  BY LimitAssumption DEF IInv, TypeOK, ChildTypes, TaskTypes
<1>b. \A c \in Children :
        /\ spawn[c] = "idle" => /\ ~valid[c] /\ terminal[c] = "none"
                                /\ spent[c] = 0 /\ runner[c] = "none"
        /\ spawn[c] = "waiting" => valid[c] \/ terminal[c] # "none"
        /\ valid[c] => terminal[c] = "none"
  BY DEF IInv, Coherent
<1>c. ASSUME NEW d \in Children,
             UNCHANGED <<spent[d], budget[d], valid[d], terminal[d], result[d],
                         tokens[d], spawn[d], runner[d], outcome[d]>>
      PROVE  Settled(d)'
  BY <1>c DEF Settled, Succeeded, Streamed, RunnerAlive, RunnerEnded
<1>1. ASSUME NEW c \in Children, Spawn(c) \/ SpawnTaskFails(c)
      PROVE  Goal
  <2>1. /\ spawn[c] = "idle" /\ result[c] = "none"
        /\ UNCHANGED <<spent, terminal, outcome>>
        /\ \A d \in Children \ {c} :
             UNCHANGED <<spent[d], budget[d], valid[d], terminal[d], result[d],
                         tokens[d], spawn[d], runner[d], outcome[d]>>
    BY <1>a, <1>1
    DEF Spawn, SpawnTaskFails, Reserve, Decide, results, ledger, verdicts,
        Settled
  <2>2. \/ result'[c] = "none"
        \/ /\ result'[c] = "error" /\ tokens'[c] = 0
           /\ spawn'[c] = "persisting" /\ UNCHANGED <<valid, runner>>
    BY <1>a, <1>1, <2>1
    DEF Spawn, SpawnTaskFails, Decide, results, verdicts
  <2>3. terminal'[c] = "none"
    BY <1>b, <2>1
  <2>4. Settled(c)'
    BY <1>a, <1>b, <2>1, <2>2, <2>3 DEF Settled, RunnerAlive
  <2>. QED BY <1>c, <2>1, <2>4
<1>2. ASSUME NEW c \in Children,
             \/ RunnerEnding(c) \/ RunnerResumes(c)
             \/ \E amount \in 1..ChildBudget : Consume(c, amount)
      PROVE  Goal
  <2>1. /\ UNCHANGED <<budget, valid, terminal, result, tokens, spawn>>
        /\ \A d \in Children \ {c} :
             UNCHANGED <<spent[d], runner[d], outcome[d]>>
    BY <1>a, <1>2
    DEF RunnerEnding, RunnerResumes, FactoryReturns, FactoryFails, RunnerEnds,
        End, RunnerCharged, RunnerFinished, Consume, ledger, grants, verdicts,
        results
  <2>2. \/ /\ RunnerEnded(c) /\ RunnerEnded(c)' /\ UNCHANGED <<spent, outcome>>
           /\ runner[c] = "terminated" => runner'[c] = "terminated"
           /\ RunnerAlive(c)
        \/ ~RunnerEnded(c) /\ RunnerAlive(c) /\ (valid[c] \/ spent' = spent)
    BY <1>a, <1>2
    DEF RunnerEnding, RunnerResumes, FactoryReturns, FactoryFails, RunnerEnds,
        End, RunnerCharged, RunnerFinished, Consume, MayConsume, RunnerEnded,
        RunnerAlive, ledger
  <2>3. Settled(c)'
    BY <1>a, <1>b, <2>1, <2>2 DEF Settled, Succeeded, Streamed
  <2>. QED BY <1>c, <2>1, <2>3
<1>d. ASSUME NEW c \in Children, spawn[c] = "waiting", valid[c],
             valid' = [valid EXCEPT ![c] = FALSE],
             UNCHANGED <<budget, runner, outcome>>,
             NEW verdict \in {"success", "error", "timeout"},
             NEW used, Decide(c, verdict, used), used = spent'[c],
             spent'[c] \in Nat,
             verdict = "timeout" => spent'[c] = budget[c],
             terminal'[c] = "timeout" => spent'[c] = budget[c],
             verdict = "success" => /\ RunnerEnded(c) /\ outcome[c] = "honest"
                                    /\ spent'[c] > 0 /\ terminal'[c] = "none",
             spawn'[c] \notin {"idle", "waiting", "cancelling"},
             \A d \in Children \ {c} :
               UNCHANGED <<spent[d], terminal[d], spawn[d]>>
      PROVE  Goal
  <2>1. /\ result'[c] = verdict /\ tokens'[c] = spent'[c] /\ ~valid'[c]
        /\ \A d \in Children \ {c} :
             UNCHANGED <<result[d], tokens[d], valid[d]>>
    BY <1>a, <1>d DEF Decide
  <2>2. Settled(c)'
    BY <1>d, <2>1 DEF Settled, Succeeded, Streamed, RunnerEnded
  <2>. QED BY <1>c, <1>d, <2>1, <2>2
<1>3. ASSUME NEW c \in Children, DeadlineExpires(c)
      PROVE  Goal
  <2>1. /\ spawn[c] = "waiting" /\ valid[c]
        /\ valid' = [valid EXCEPT ![c] = FALSE]
        /\ UNCHANGED <<budget, runner, outcome>>
        /\ Decide(c, "timeout", budget[c])
        /\ spent' = [spent EXCEPT ![c] = budget[c]]
        /\ terminal' = [terminal EXCEPT ![c] = "timeout"]
        /\ spawn' = [spawn EXCEPT ![c] =
                       IF Remaining(c) > 0 THEN "charging" ELSE "draining"]
    BY <1>b, <1>3 DEF DeadlineExpires, DeadlineMissed, TerminalizeCharging,
         Charged, grants
  <2>. QED BY <1>a, <1>d, <2>1
<1>4. ASSUME NEW c \in Children, WakeFinished(c)
      PROVE  Goal
  <2>1. /\ spawn[c] = "waiting" /\ valid[c] /\ terminal[c] = "none"
        /\ RunnerEnded(c)
        /\ UNCHANGED <<budget, runner, outcome, terminal>>
    BY <1>b, <1>4 DEF WakeFinished, grants
  <2>2. CASE Uncharged(c)
    <3>1. /\ valid' = [valid EXCEPT ![c] = FALSE] /\ UNCHANGED spent
          /\ Decide(c, IF Succeeded(c) THEN "success" ELSE "error", spent[c])
          /\ spawn' = [spawn EXCEPT ![c] = "draining"]
      BY <1>4, <2>2 DEF WakeFinished, Released
    <3>2. CASE Succeeded(c)
      BY <1>a, <1>d, <2>1, <3>1, <3>2 DEF Succeeded, Streamed
    <3>3. CASE ~Succeeded(c)
      BY <1>a, <1>d, <2>1, <3>1, <3>3
    <3>. QED BY <3>2, <3>3
  <2>3. CASE ~Uncharged(c)
    <3>1. /\ valid' = [valid EXCEPT ![c] = FALSE]
          /\ Decide(c, "error", budget[c])
          /\ spent' = [spent EXCEPT ![c] = budget[c]]
          /\ spawn' = [spawn EXCEPT ![c] =
                         IF Remaining(c) > 0 THEN "charging" ELSE "draining"]
      BY <1>4, <2>3 DEF WakeFinished, TerminalizeCharging, Charged
    <3>. QED BY <1>a, <1>d, <2>1, <3>1
  <2>. QED BY <2>2, <2>3
<1>e. ASSUME NEW p \in Parents, BeginCancellation(p),
             UNCHANGED <<budget, runner, outcome>>
      PROVE  /\ UNCHANGED spent
             /\ \A d \in Children :
                  /\ valid'[d] => valid[d] /\ terminal'[d] = terminal[d]
                                  /\ (ParentOf[d] = p => ~RunnerAlive(d))
                  /\ \/ terminal'[d] = terminal[d]
                     \/ valid[d] /\ ~valid'[d] /\ terminal'[d] = "cancelled"
  <2>1. \A d \in Children :
          d \in activeChildren[p] <=> RunnerAlive(d) /\ ParentOf[d] = p
    BY DEF IInv, SlotsHeld, ChildrenOf
  <2>. QED BY <1>a, <1>e, <2>1 DEF BeginCancellation
<1>5. ASSUME NEW c \in Children, CancelFromSpawn(c)
      PROVE  Goal
  <2>1. /\ spawn[c] = "cancelling"
        /\ BeginCancellation(ParentOf[c]) /\ ParentOf[c] \in Parents
        /\ UNCHANGED <<budget, runner, outcome>>
        /\ Decide(c, SignalStatus(terminal'[c]), spent[c])
        /\ spawn' = [spawn EXCEPT ![c] = "draining"]
    BY <1>5, ParentOfAssumption DEF CancelFromSpawn, grants
  <2>2. /\ result'[c] = SignalStatus(terminal'[c]) /\ tokens'[c] = spent[c]
        /\ spawn'[c] = "draining"
        /\ \A d \in Children \ {c} :
             UNCHANGED <<result[d], tokens[d], spawn[d]>>
    BY <1>a, <2>1 DEF Decide
  <2>3. /\ result'[c] \in {"timeout", "cancelled"}
        /\ result'[c] = "timeout" => terminal'[c] = "timeout"
    BY <2>2 DEF SignalStatus
  <2>4. Settled(c)'
    BY <1>e, <2>1, <2>2, <2>3 DEF Settled, RunnerAlive
  <2>5. \A d \in Children \ {c} : Settled(d)'
    BY <1>e, <2>1, <2>2
    DEF Settled, Succeeded, Streamed, RunnerAlive, RunnerEnded
  <2>. QED BY <2>4, <2>5
<1>6. ASSUME NEW p \in Parents, CancelParent(p)
      PROVE  Goal
  BY <1>e, <1>6
  DEF CancelParent, grants, results, Settled, Succeeded, Streamed,
      RunnerAlive, RunnerEnded
<1>7. ASSUME NEW c \in Children, WakeTerminal(c)
      PROVE  Goal
  <2>1. /\ spawn[c] = "waiting" /\ terminal[c] # "none" /\ ~valid[c]
        /\ UNCHANGED <<spent, budget, valid, terminal, runner, outcome>>
        /\ result'[c] = SignalStatus(terminal[c]) /\ tokens'[c] = spent[c]
        /\ spawn'[c] = "draining"
        /\ \A d \in Children \ {c} :
             UNCHANGED <<result[d], tokens[d], spawn[d]>>
    BY <1>a, <1>b, <1>7 DEF WakeTerminal, Decide, ledger, grants, verdicts
  <2>2. /\ result'[c] \in {"timeout", "cancelled"}
        /\ result'[c] = "timeout" => terminal[c] = "timeout"
    BY <2>1 DEF SignalStatus
  <2>3. Settled(c)'
    BY <2>1, <2>2 DEF Settled
  <2>. QED BY <1>c, <2>1, <2>3
<1>8. ASSUME NEW c \in Children,
             \/ CallerCancelledWaiting(c) \/ CallerCancelledDraining(c)
             \/ WakeFinishedCancelled(c) \/ SpawnCharged(c) \/ WriteResult(c)
             \/ SettleResult(c) \/ SpawnQuiesced(c)
      PROVE  Goal
  <2>1. /\ UNCHANGED <<spent, budget, valid, terminal, result, tokens, runner,
                       outcome>>
        /\ \/ spawn[c] = "waiting"
           \/ spawn'[c] \notin {"idle", "waiting", "cancelling"}
        /\ \A d \in Children \ {c} : UNCHANGED spawn[d]
    BY <1>a, <1>8
    DEF CallerCancelledWaiting, CallerCancelledDraining,
        WakeFinishedCancelled, SpawnCharged, WriteResult, SettleResult,
        SpawnQuiesced, ledger, grants, verdicts, results
  <2>2. Settled(c)'
    BY <1>a, <2>1
    DEF Settled, Succeeded, Streamed, RunnerAlive, RunnerEnded
  <2>. QED BY <1>c, <2>1, <2>2
<1>9. ASSUME NEW p \in Parents, ParentNext(p), ~CancelParent(p)
      PROVE  Goal
  <2>1. UNCHANGED <<spent, budget, valid, terminal, result, tokens, spawn,
                    runner, outcome>>
    BY <1>9 DEF ParentNext, RegisterParent, CancelParentReturns,
         FinalizeStarts, FinalizeRemoves, FinalizeFails, ledger, grants,
         verdicts, results
  <2>. QED BY <1>c, <2>1
<1>10. CASE UNCHANGED vars
  BY <1>c, <1>10 DEF vars, ledger, grants, verdicts, results
<1>. QED
  BY <1>1, <1>2, <1>3, <1>4, <1>5, <1>6, <1>7, <1>8, <1>9, <1>10
  DEF Next, ChildNext, SpawnResumes

(* Nothing is booked in the beginning. *)
LEMMA BooksInit ==
  ASSUME Init
  PROVE  BooksInv
<1>1. IInv
  BY IInvInit
<1>2. TurnLedgerExact /\ ConsumptionExact
  <2>1. spent = Nothing /\ spawnOwes = Nothing /\ runnerOwes = Nothing
    BY DEF Init, Nothing
  <2>2. \A p \in Parents : Cardinality(Tokens(ChildrenOf(p), Nothing, Nothing)) = 0
    <3>1. \A p \in Parents : Tokens(ChildrenOf(p), Nothing, Nothing) = {}
      BY LimitAssumption DEF Tokens, Nothing, ChildrenOf
    <3>. QED BY <3>1, FS_EmptySet
  <2>3. \A p \in Parents : consumed[p] = 0 /\ turn[p] = 0
    BY DEF Init
  <2>. QED BY <2>1, <2>2, <2>3
       DEF TurnLedgerExact, ConsumptionExact, OwedTokens
<1>3. ResultExact /\ DecidedIsSettled /\ OwedWhileCharging /\ SpawnedIsGranted
  BY DEF Init, ResultExact, DecidedIsSettled, OwedWhileCharging,
         SpawnedIsGranted
<1>. QED BY <1>1, <1>2, <1>3 DEF BooksInv

(* Every step keeps both invariants together. *)
LEMMA BooksInvStep ==
  ASSUME BooksInv, [Next]_vars
  PROVE  BooksInv'
<1>1. IInv /\ IInv'
  BY IInvStep DEF BooksInv
<1>2. TypeOK'
  BY <1>1 DEF IInv
<1>3. TurnLedgerExact' /\ ConsumptionExact'
  BY <1>1, <1>2, BooksStep DEF BooksInv
<1>4. OwedWhileCharging' /\ SpawnedIsGranted'
  BY <1>1, OwedStep, GrantedStep DEF BooksInv
<1>5. ResultExact' /\ DecidedIsSettled'
  <2>1. \A c \in Children : Settled(c)
    BY SettledEach DEF BooksInv
  <2>2. \A c \in Children : Settled(c)'
    BY <1>1, <2>1, SettledStep
  <2>. QED BY <2>2 DEF ResultExact, DecidedIsSettled, Settled
<1>. QED BY <1>1, <1>3, <1>4, <1>5 DEF BooksInv

(* Whatever the interleaving of charges, forwarded usage, timeouts and     *)
(* cancellations: the consumption of a parent, the turn's ledger and each  *)
(* child's result are kept in step by _consume_child_budget and            *)
(* _terminalize_child_locked.                                              *)
THEOREM BooksInductive == Spec => []BooksInv
<1>1. Init => BooksInv
  BY BooksInit
<1>2. BooksInv /\ [Next]_vars => BooksInv'
  BY BooksInvStep
<1>. QED BY <1>1, <1>2, PTL DEF Spec

(* The ledger of the turn is behind the parent's account by exactly the    *)
(* charges under way (_consume_child_budget, _terminalize_child).           *)
THEOREM TurnLedgerIsExact == Spec => []TurnLedgerExact
<1>1. BooksInv => TurnLedgerExact
  BY DEF BooksInv
<1>. QED BY <1>1, BooksInductive, PTL

(* The SubAgentResult of a spawn call agrees with the accounts for good    *)
(* (spawn_sub_agent, _runner_result, _terminal_signal_result).             *)
THEOREM ResultIsExact == Spec => []ResultExact
<1>1. BooksInv => ResultExact
  BY DEF BooksInv
<1>. QED BY <1>1, BooksInductive, PTL

-----------------------------------------------------------------------------
(* The accounts of BudgetLedger *)

(* The ledger counts with the same cardinality. *)
LEMMA LedgerCounts ==
  ASSUME NEW S
  PROVE  Ledger!Cardinality(S) = Cardinality(S)
BY DEF Ledger!Cardinality, Cardinality

(* What the abstract account has taken is consumed or reserved. *)
LEMMA FreeIsAvailable ==
  ASSUME BooksInv, NEW p \in Parents
  PROVE  Ledger!Free(p) = Available(p)
<1>. DEFINE level == [c \in Children |-> spent[c] + HeldBy(c)]
            S == ChildrenOf(p)
<1>1. /\ TypeOK /\ Coherent /\ ReservationExact /\ ConsumptionExact
      /\ spent \in Amounts /\ budget \in Amounts /\ Nothing \in Amounts
      /\ valid \in [Children -> BOOLEAN]
  BY LimitAssumption DEF BooksInv, IInv, TypeOK, ChildTypes, Amounts, Nothing
<1>2. \A c \in Children :
        /\ spent[c] \in Nat /\ budget[c] \in Nat /\ spent[c] <= budget[c]
        /\ budget[c] <= ChildBudget
        /\ HeldBy(c) = IF valid[c] THEN budget[c] - spent[c] ELSE 0
  BY <1>1, LimitAssumption DEF Amounts, Coherent, HeldBy, Remaining
<1>3. \A c \in Children :
        /\ level[c] = IF valid[c] THEN budget[c] ELSE spent[c]
        /\ level[c] \in 0..ChildBudget
  BY <1>2, LimitAssumption
<1>4. level \in Amounts
  BY <1>3 DEF Amounts
<1>5. Ledger!Taken(p) = Tokens(S, Nothing, level)
  <2>1. Ledger!Taken(p) =
          {t \in S \X (1..ChildBudget) :
             t[2] <= spent[t[1]] + HeldBy(t[1])}
    BY DEF Ledger!Taken, Ledger!ChildrenOf, ChildrenOf
  <2>2. \A t \in S \X (1..ChildBudget) :
          /\ level[t[1]] = spent[t[1]] + HeldBy(t[1])
          /\ Nothing[t[1]] < t[2]
    BY LimitAssumption DEF ChildrenOf, Nothing
  <2>. HIDE DEF level
  <2>. QED BY <2>1, <2>2 DEF Tokens
<1>6. S \in SUBSET Children /\ Holders(p) \in SUBSET S
  BY DEF Holders, ChildrenOf
<1>7. Tokens(S, spent, level) = HeldTokens(Holders(p))
  <2>1. \A c \in S : level[c] = IF c \in Holders(p) THEN budget[c] ELSE spent[c]
    BY <1>3, <1>6 DEF Holders
  <2>2. \A c \in S : spent[c] \in Nat
    BY <1>2, <1>6
  <2>. HIDE DEF level, S
  <2>3. \A t \in S \X (1..ChildBudget) :
          spent[t[1]] < t[2] /\ t[2] <= level[t[1]] =>
            t[1] \in Holders(p)
    BY <2>1, <2>2, LimitAssumption
  <2>. QED BY <1>6, <2>1, <2>3 DEF Tokens, HeldTokens
<1>8. Cardinality(Tokens(S, Nothing, level)) =
        Cardinality(Tokens(S, Nothing, spent))
          + Cardinality(Tokens(S, spent, level))
  <2>1. \A c \in S : Nothing[c] <= spent[c] /\ spent[c] <= level[c]
    BY <1>2, <1>3, <1>6 DEF Nothing
  <2>. HIDE DEF level, S
  <2>. QED BY <1>1, <1>4, <1>6, <2>1, TokensStacked
<1>9. /\ consumed[p] = Cardinality(Tokens(S, Nothing, spent))
      /\ reserved[p] = Cardinality(Tokens(S, spent, level))
      /\ consumed[p] \in Nat /\ reserved[p] \in Nat /\ limit[p] \in Nat
  BY <1>1, <1>7, LimitAssumption
  DEF ConsumptionExact, ReservationExact, TypeOK, CounterTypes, ParentTypes
<1>. HIDE DEF level, S
<1>10. Ledger!Free(p) = limit[p] - Cardinality(Tokens(S, Nothing, level))
  BY <1>5, LedgerCounts DEF Ledger!Free
<1>. QED BY <1>8, <1>9, <1>10 DEF Available

(* The runtime begins with an empty ledger. *)
LEMMA LedgerInit ==
  ASSUME Init
  PROVE  Ledger!Init
<1>1. AccountState = [p \in Parents |-> "absent"]
  BY DEF Init, AccountState
<1>2. [c \in Children |-> HeldBy(c)] = [c \in Children |-> 0]
  BY DEF Init, HeldBy
<1>3. {c \in Children : budget[c] > 0} = {}
  BY DEF Init
<1>. QED BY <1>1, <1>2, <1>3 DEF Init, Ledger!Init

(* A step that keeps the accounts is none of the ledger's. *)
LEMMA LedgerStutters ==
  ASSUME UNCHANGED <<status, limit, spent, budget, valid>>
  PROVE  UNCHANGED Ledger!vars
<1>1. UNCHANGED AccountState
  BY DEF AccountState
<1>2. \A c \in Children : HeldBy(c)' = HeldBy(c)
  BY DEF HeldBy, Remaining
<1>. QED BY <1>1, <1>2 DEF Ledger!vars

(* Cancelling a parent closes its account. *)
LEMMA CancellationCloses ==
  ASSUME IInv, NEW p \in Parents, status[p] # "absent",
         BeginCancellation(p), UNCHANGED budget
  PROVE  Ledger!Close(p)
<1>. DEFINE ended == {c \in activeChildren[p] : valid[c]}
<1>1. /\ valid \in [Children -> BOOLEAN]
      /\ status \in [Parents -> {"absent", "active", "cancelled"}]
      /\ SlotsHeld
  BY DEF IInv, TypeOK, ChildTypes, ParentTypes
<1>2. /\ status' = [status EXCEPT ![p] = "cancelled"]
      /\ valid' = [c \in Children |-> valid[c] /\ c \notin ended]
      /\ UNCHANGED <<limit, spent, budget>>
  BY DEF BeginCancellation
<1>3. ended \in SUBSET ChildrenOf(p)
  BY <1>1 DEF SlotsHeld
<1>. HIDE DEF ended
<1>4. AccountState[p] # "absent"
  BY <1>1 DEF AccountState
<1>5. AccountState' = [AccountState EXCEPT ![p] = "closed"]
  BY <1>1, <1>2 DEF AccountState
<1>6. \A c \in Children : HeldBy(c)' = IF c \in ended THEN 0 ELSE HeldBy(c)
  BY <1>1, <1>2 DEF HeldBy, Remaining
<1>7. [c \in Children |-> HeldBy(c)]' =
        [c \in Children |->
           IF c \in ended THEN 0 ELSE [d \in Children |-> HeldBy(d)][c]]
  BY <1>6
<1>8. ended \in SUBSET Ledger!ChildrenOf(p)
  BY <1>3 DEF ChildrenOf, Ledger!ChildrenOf
<1>. QED BY <1>2, <1>4, <1>5, <1>7, <1>8 DEF Ledger!Close

(* Every step of the runtime is a step of the ledger, or none. *)
LEMMA LedgerStep ==
  ASSUME BooksInv, BooksInv', [Next]_vars
  PROVE  [Ledger!Next]_(Ledger!vars)
<1>. DEFINE Goal == [Ledger!Next]_(Ledger!vars)
            held == [c \in Children |-> HeldBy(c)]
<1>a. /\ IInv /\ Coherent /\ SpawnedIsGranted
      /\ status \in [Parents -> {"absent", "active", "cancelled"}]
      /\ spent \in [Children -> Nat] /\ budget \in [Children -> 0..ChildBudget]
      /\ budget \in [Children -> Nat]
      /\ limit \in [Parents -> 0..MaxBudget]
      /\ valid \in [Children -> BOOLEAN]
      /\ \A c \in Children : ParentOf[c] \in Parents
  BY LimitAssumption, ParentOfAssumption
  DEF BooksInv, IInv, TypeOK, ParentTypes, ChildTypes
<1>b. \A c \in Children : valid[c] => Remaining(c) \in 0..ChildBudget
  BY <1>a, LimitAssumption DEF Coherent, Remaining
<1>1. ASSUME NEW p \in Parents, RegisterParent(p)
      PROVE  Goal
  <2>1. PICK b \in 1..MaxBudget : limit' = [limit EXCEPT ![p] = b]
    BY <1>1 DEF RegisterParent
  <2>2. /\ status[p] = "absent" /\ status' = [status EXCEPT ![p] = "active"]
        /\ UNCHANGED <<spent, budget, valid>>
    BY <1>1 DEF RegisterParent, ledger, grants, verdicts
  <2>3. /\ AccountState[p] = "absent"
        /\ AccountState' = [AccountState EXCEPT ![p] = "open"]
    BY <1>a, <2>2 DEF AccountState
  <2>4. UNCHANGED held
    BY <2>2 DEF HeldBy, Remaining
  <2>5. Ledger!Open(p, b)
    BY <2>1, <2>2, <2>3, <2>4 DEF Ledger!Open
  <2>. QED BY <2>5 DEF Ledger!Next
<1>c. ASSUME NEW c \in Children, Reserve(c), UNCHANGED <<status, limit, spent>>,
             NEW g \in {0, Smaller(ChildBudget, Available(ParentOf[c]))},
             held' = [held EXCEPT ![c] = g]
      PROVE  Goal
  <2>. DEFINE p == ParentOf[c]
  <2>1. /\ status[p] = "active" /\ Available(p) > 0 /\ p \in Parents
        /\ budget[c] = 0
        /\ budget' = [budget EXCEPT ![c] = Smaller(ChildBudget, Available(p))]
    BY <1>a, <1>c DEF Reserve, MaySpawn, SpawnedIsGranted
  <2>2. Ledger!Free(p) = Available(p)
    BY <2>1, FreeIsAvailable
  <2>3. Smaller(ChildBudget, Available(p)) > 0
    BY <2>1, LimitAssumption DEF Smaller
  <2>4. /\ c \notin {d \in Children : budget[d] > 0}
        /\ {d \in Children : budget[d] > 0}' =
             {d \in Children : budget[d] > 0} \cup {c}
    BY <1>a, <2>1, <2>3
  <2>5. AccountState[p] = "open" /\ UNCHANGED AccountState
    BY <1>c, <2>1 DEF AccountState
  <2>6. g \in {0, Ledger!Smaller(ChildBudget, Ledger!Free(p))}
    BY <1>c, <2>2 DEF Smaller, Ledger!Smaller
  <2>7. Ledger!Grant(c)
    BY <1>c, <2>1, <2>2, <2>4, <2>5, <2>6 DEF Ledger!Grant
  <2>. QED BY <2>7 DEF Ledger!Next
<1>2. ASSUME NEW c \in Children, Spawn(c)
      PROVE  Goal
  <2>. DEFINE g == Smaller(ChildBudget, Available(ParentOf[c]))
  <2>1. /\ Reserve(c) /\ UNCHANGED <<status, limit, spent>>
        /\ budget' = [budget EXCEPT ![c] = g]
        /\ valid' = [valid EXCEPT ![c] = TRUE]
        /\ spent[c] = 0
    BY <1>a, <1>2 DEF Spawn, Reserve, Coherent, parentVars
  <2>2. g = budget'[c] /\ g \in Nat
    <3>1. budget' \in [Children -> Nat]
      BY LimitAssumption DEF BooksInv, IInv, TypeOK, ChildTypes
    <3>. QED BY <1>a, <2>1, <3>1
  <2>. HIDE DEF g
  <2>3. \A d \in Children : HeldBy(d)' = IF d = c THEN g ELSE HeldBy(d)
    BY <1>a, <2>1, <2>2 DEF HeldBy, Remaining
  <2>4. held' = [held EXCEPT ![c] = g]
    BY <2>3
  <2>. QED BY <1>c, <2>1, <2>4 DEF g
<1>3. ASSUME NEW c \in Children, SpawnTaskFails(c)
      PROVE  Goal
  <2>1. /\ Reserve(c) /\ UNCHANGED <<status, limit, spent, valid>>
        /\ ~valid[c]
        /\ \A d \in Children \ {c} : budget'[d] = budget[d]
    BY <1>a, <1>3
    DEF SpawnTaskFails, Reserve, Coherent, parentVars, ledger, verdicts
  <2>2. \A d \in Children : HeldBy(d)' = IF d = c THEN 0 ELSE HeldBy(d)
    BY <1>a, <2>1 DEF HeldBy, Remaining
  <2>3. held' = [held EXCEPT ![c] = 0]
    BY <2>2
  <2>. QED BY <1>c, <2>1, <2>3
<1>d. ASSUME NEW c \in Children, NEW amount \in 1..ChildBudget,
             amount <= HeldBy(c),
             \A d \in Children :
               HeldBy(d)' = IF d = c THEN HeldBy(c) - amount ELSE HeldBy(d),
             spent' = [spent EXCEPT ![c] = @ + amount],
             UNCHANGED <<status, limit, budget>>
      PROVE  Goal
  <2>1. held' = [held EXCEPT ![c] = @ - amount] /\ held[c] = HeldBy(c)
    BY <1>d
  <2>2. UNCHANGED AccountState
    BY <1>d DEF AccountState
  <2>3. Ledger!Spend(c, amount)
    BY <1>d, <2>1, <2>2 DEF Ledger!Spend
  <2>. QED BY <2>3 DEF Ledger!Next
<1>4. ASSUME NEW c \in Children, NEW amount \in 1..ChildBudget,
             Consume(c, amount)
      PROVE  Goal
  <2>1. /\ valid[c] /\ amount <= Remaining(c)
        /\ spent' = [spent EXCEPT ![c] = @ + amount]
        /\ UNCHANGED <<status, limit, budget, valid>>
    BY <1>4 DEF Consume, MayConsume, parentVars, grants, verdicts
  <2>2. \A d \in Children :
          HeldBy(d)' = IF d = c THEN HeldBy(c) - amount ELSE HeldBy(d)
    BY <1>a, <2>1 DEF HeldBy, Remaining
  <2>3. amount <= HeldBy(c)
    BY <2>1 DEF HeldBy
  <2>. QED BY <1>d, <2>1, <2>2, <2>3
<1>e. ASSUME NEW c \in Children, valid[c], Charged(c),
             valid' = [valid EXCEPT ![c] = FALSE],
             UNCHANGED <<status, limit, budget>>
      PROVE  Goal
  <2>1. /\ spent' = [spent EXCEPT ![c] = budget[c]]
        /\ Remaining(c) \in 0..ChildBudget /\ HeldBy(c) = Remaining(c)
    BY <1>b, <1>e DEF Charged, HeldBy
  <2>2. \A d \in Children : HeldBy(d)' = IF d = c THEN 0 ELSE HeldBy(d)
    BY <1>a, <1>e, <2>1 DEF HeldBy, Remaining
  <2>3. CASE Remaining(c) = 0
    <3>1. spent' = spent
      BY <1>a, <2>1, <2>3 DEF Remaining
    <3>2. UNCHANGED held
      BY <2>1, <2>2, <2>3
    <3>3. UNCHANGED AccountState
      BY <1>e DEF AccountState
    <3>. QED BY <1>e, <3>1, <3>2, <3>3 DEF Ledger!vars
  <2>4. CASE Remaining(c) # 0
    <3>1. Remaining(c) \in 1..ChildBudget
      BY <2>1, <2>4, LimitAssumption
    <3>2. spent' = [spent EXCEPT ![c] = @ + Remaining(c)]
      <4>1. spent[c] + Remaining(c) = budget[c]
        BY <1>a DEF Remaining
      <4>. QED BY <2>1, <4>1
    <3>3. \A d \in Children :
            HeldBy(d)' = IF d = c THEN HeldBy(c) - Remaining(c) ELSE HeldBy(d)
      BY <2>1, <2>2, LimitAssumption
    <3>4. Remaining(c) <= HeldBy(c)
      BY <2>1, LimitAssumption
    <3>. QED BY <1>d, <1>e, <3>1, <3>2, <3>3, <3>4
  <2>. QED BY <2>3, <2>4
<1>5. ASSUME NEW c \in Children, DeadlineExpires(c)
      PROVE  Goal
  <2>1. valid[c]
    BY <1>a, <1>5 DEF DeadlineExpires, DeadlineMissed, Coherent
  <2>. QED BY <1>e, <1>5, <2>1
       DEF DeadlineExpires, TerminalizeCharging, grants, parentVars
<1>6. ASSUME NEW c \in Children, WakeFinished(c)
      PROVE  Goal
  <2>1. valid[c] /\ UNCHANGED <<status, limit, budget>>
    BY <1>a, <1>6 DEF WakeFinished, Coherent, grants, parentVars
  <2>2. CASE Uncharged(c)
    <3>1. UNCHANGED spent /\ valid' = [valid EXCEPT ![c] = FALSE]
      BY <1>6, <2>2 DEF WakeFinished, Released
    <3>2. \A d \in Children : HeldBy(d)' = IF d = c THEN 0 ELSE HeldBy(d)
      BY <1>a, <2>1, <3>1 DEF HeldBy, Remaining
    <3>3. held' = [held EXCEPT ![c] = 0]
      BY <3>2
    <3>4. UNCHANGED AccountState
      BY <2>1 DEF AccountState
    <3>5. Ledger!Return(c)
      BY <2>1, <3>1, <3>3, <3>4 DEF Ledger!Return
    <3>. QED BY <3>5 DEF Ledger!Next
  <2>3. CASE ~Uncharged(c)
    BY <1>e, <1>6, <2>1, <2>3 DEF WakeFinished, TerminalizeCharging
  <2>. QED BY <2>2, <2>3
<1>7. ASSUME NEW c \in Children, CancelFromSpawn(c)
      PROVE  Goal
  <2>1. /\ BeginCancellation(ParentOf[c]) /\ UNCHANGED budget
        /\ ParentOf[c] \in Parents /\ status[ParentOf[c]] # "absent"
    BY <1>a, <1>7 DEF CancelFromSpawn, SpawnedIsGranted, grants
  <2>2. Ledger!Close(ParentOf[c])
    BY <1>a, <2>1, CancellationCloses
  <2>. QED BY <2>1, <2>2 DEF Ledger!Next
<1>8. ASSUME NEW p \in Parents, CancelParent(p)
      PROVE  Goal
  <2>1. Ledger!Close(p)
    BY <1>a, <1>8, CancellationCloses DEF CancelParent, grants
  <2>. QED BY <2>1 DEF Ledger!Next
<1>9. ASSUME NEW c \in Children,
             \/ CallerCancelledWaiting(c) \/ CallerCancelledDraining(c)
             \/ WakeTerminal(c) \/ WakeFinishedCancelled(c)
             \/ SpawnCharged(c) \/ WriteResult(c) \/ SettleResult(c)
             \/ SpawnQuiesced(c) \/ RunnerEnding(c) \/ RunnerResumes(c)
      PROVE  Goal
  <2>1. UNCHANGED <<status, limit, spent, budget, valid>>
    BY <1>9
    DEF CallerCancelledWaiting, CallerCancelledDraining, WakeTerminal,
        WakeFinishedCancelled, SpawnCharged, WriteResult, SettleResult,
        SpawnQuiesced, RunnerEnding, RunnerResumes, FactoryReturns,
        FactoryFails, RunnerEnds, RunnerCharged, RunnerFinished, parentVars,
        ledger, grants, verdicts
  <2>. QED BY <2>1, LedgerStutters
<1>10. ASSUME NEW p \in Parents,
              ParentNext(p), ~CancelParent(p), ~RegisterParent(p)
       PROVE  Goal
  <2>1. UNCHANGED <<status, limit, spent, budget, valid>>
    BY <1>10 DEF ParentNext, CancelParentReturns, FinalizeStarts,
         FinalizeRemoves, FinalizeFails, parentVars, ledger, grants, verdicts
  <2>. QED BY <2>1, LedgerStutters
<1>11. CASE UNCHANGED vars
  BY <1>11, LedgerStutters DEF vars, parentVars, ledger, grants, verdicts
<1>. QED
  BY <1>1, <1>2, <1>3, <1>4, <1>5, <1>6, <1>7, <1>8, <1>9, <1>10, <1>11
  DEF Next, ChildNext, ParentNext, SpawnResumes

(* The flags and counters of the runtime, its tasks, deadlines and         *)
(* cancellations implement the accounts of BudgetLedger (_ParentState,     *)
(* _ChildState).                                                           *)
THEOREM RuntimeImplementsLedger == Spec => LedgerSpec
<1>1. Init => Ledger!Init
  BY LedgerInit
<1>2. BooksInv /\ BooksInv' /\ [Next]_vars => [Ledger!Next]_(Ledger!vars)
  BY LedgerStep
<1>. QED BY <1>1, <1>2, BooksInductive, PTL DEF Spec, LedgerSpec, Ledger!Spec
=============================================================================
