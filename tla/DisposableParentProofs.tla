----------------------- MODULE DisposableParentProofs -----------------------
(***************************************************************************)
(* Proofs about DisposableParent, for any number of runs, slots and        *)
(* records: the backend reports as deleted only what is gone, no more      *)
(* parents run than there are slots, a live run has its record, and        *)
(* nothing of a run happens after its cancellation was answered.           *)
(***************************************************************************)
EXTENDS DisposableParent, SequenceTheorems, FiniteSetTheorems, TLAPS

Live == {r \in Runs : lifecycle[r] \in {"creating", "running", "cleaning"}}

(* Every live run holds a slot, from its admission to after its end. *)
SlotsInv ==
  /\ IsFiniteSet(slots) /\ Cardinality(slots) <= MaxSlots
  /\ Live \subseteq slots
  /\ \A r \in slots : lifecycle[r] # "none"

(* Only runs that are over are among the completed, which are all that is  *)
(* pruned.                                                                 *)
RecordsInv ==
  /\ Live \subseteq records
  /\ Range(completed) \subseteq Runs
  /\ \A r \in Range(completed) : Done(r)

(* A run is admitted once; proof of its deletion comes with its end.       *)
ProofInv ==
  \A r \in Runs :
    /\ caller[r] = "idle" => request[r] = "none"
    /\ lifecycle[r] # "none" => request[r] = "arrived"
    /\ proof[r] = "deleted" => container[r] = "gone" /\ Done(r)

(* Whoever is told of a deletion is told what the proof says. *)
ToldInv ==
  \A r \in Runs :
    /\ control[r] \in {"deleted", "cleanup_failed"} =>
         Done(r) /\ control[r] = proof[r]
    /\ caller[r] = "deleted" => proof[r] = "deleted"

Inv == TypeOK /\ SlotsInv /\ RecordsInv /\ ProofInv /\ ToldInv

-----------------------------------------------------------------------------
(* The records of completed runs *)

(* Pruning by time keeps a suffix. *)
LEMMA UnexpiredIsSuffix ==
  ASSUME TypeOK, NEW kept \in Unexpired
  PROVE  /\ kept \in Seq(Runs) /\ Len(kept) <= MaxRecords
         /\ Range(kept) \subseteq Range(completed)
<1>1. PICK n \in 1..Len(completed) + 1 : kept = SubSeq(completed, n, Len(completed))
  BY DEF Unexpired
<1>2. /\ completed \in Seq(Runs) /\ Len(completed) <= MaxRecords
      /\ Len(completed) \in Nat /\ DOMAIN completed = 1..Len(completed)
  BY LenProperties DEF TypeOK
<1>3. n \in Int /\ Len(completed) \in Int /\ n >= 1 /\ n <= Len(completed) + 1
  BY <1>2
<1>4. \A i \in n..Len(completed) : completed[i] \in Runs
  BY <1>2, <1>3, ElementOfSeq
<1>5. /\ kept \in Seq(Runs)
      /\ Len(kept) = IF n <= Len(completed) THEN Len(completed) - n + 1 ELSE 0
      /\ \A i \in 1..(Len(completed) - n + 1) : kept[i] = completed[n + i - 1]
  BY <1>1, <1>3, <1>4, SubSeqProperties
<1>6. Len(kept) = Len(completed) - n + 1
  BY <1>2, <1>3, <1>5
<1>7. Len(kept) <= MaxRecords
  BY <1>2, <1>3, <1>6, LimitAssumption
<1>8. ASSUME NEW i \in DOMAIN kept PROVE kept[i] \in Range(completed)
  <2>1. i \in 1..(Len(completed) - n + 1)
    BY <1>5, <1>6, <1>8, LenProperties
  <2>2. n + i - 1 \in 1..Len(completed)
    BY <1>2, <1>3, <2>1
  <2>. QED BY <1>2, <1>5, <2>1, <2>2 DEF Range
<1>. QED BY <1>5, <1>7, <1>8 DEF Range

(* One more completed run pushes out at most the oldest. *)
LEMMA PrunedHasRoom ==
  ASSUME NEW kept \in Seq(Runs), Len(kept) <= MaxRecords, NEW r \in Runs
  PROVE  /\ Pruned(Append(kept, r)) \in Seq(Runs)
         /\ Len(Pruned(Append(kept, r))) <= MaxRecords
         /\ Range(Pruned(Append(kept, r))) \subseteq Range(kept) \cup {r}
<1>. DEFINE s == Append(kept, r)
<1>1. /\ s \in Seq(Runs) /\ s # <<>> /\ Len(s) = Len(kept) + 1
      /\ \A i \in 1..Len(kept) : s[i] = kept[i]
      /\ s[Len(kept) + 1] = r
  BY AppendProperties
<1>2. /\ Len(kept) \in Nat /\ DOMAIN kept = 1..Len(kept)
      /\ Len(s) \in Nat /\ DOMAIN s = 1..Len(s)
  BY <1>1, LenProperties
<1>3. Range(s) \subseteq Range(kept) \cup {r}
  <2>. SUFFICES ASSUME NEW i \in DOMAIN s PROVE s[i] \in Range(kept) \cup {r}
    BY DEF Range
  <2>1. i \in 1..Len(kept) \/ i = Len(kept) + 1
    BY <1>1, <1>2
  <2>. QED BY <1>1, <1>2, <2>1 DEF Range
<1>4. CASE Len(s) > MaxRecords
  <2>1. Pruned(s) = Tail(s)
    BY <1>4 DEF Pruned
  <2>2. /\ Tail(s) \in Seq(Runs) /\ Len(Tail(s)) = Len(s) - 1
        /\ \A i \in 1..Len(Tail(s)) : Tail(s)[i] = s[i + 1]
    BY <1>1, HeadTailProperties
  <2>3. Len(Tail(s)) \in Nat /\ DOMAIN Tail(s) = 1..Len(Tail(s))
    BY <2>2, LenProperties
  <2>4. Len(Tail(s)) <= MaxRecords
    BY <1>1, <1>2, <2>2, LimitAssumption
  <2>5. Range(Tail(s)) \subseteq Range(s)
    <3>. SUFFICES ASSUME NEW i \in DOMAIN Tail(s) PROVE Tail(s)[i] \in Range(s)
      BY DEF Range
    <3>1. i + 1 \in DOMAIN s
      BY <1>2, <2>2, <2>3
    <3>. QED BY <2>2, <2>3, <3>1 DEF Range
  <2>. QED BY <1>3, <2>1, <2>2, <2>4, <2>5
<1>5. CASE ~(Len(s) > MaxRecords)
  <2>1. Pruned(s) = s
    BY <1>5 DEF Pruned
  <2>2. Len(s) <= MaxRecords
    BY <1>2, <1>5, LimitAssumption
  <2>. QED BY <1>1, <1>3, <2>1, <2>2
<1>. QED BY <1>4, <1>5

(* What the end of a run does to the records. *)
LEMMA CompletePrunes ==
  ASSUME TypeOK, NEW r \in Runs, NEW how, NEW e, Complete(r, how, e)
  PROVE  /\ completed' \in Seq(Runs) /\ Len(completed') <= MaxRecords
         /\ Range(completed') \subseteq Range(completed) \cup {r}
         /\ records \ Range(completed) \subseteq records'
         /\ records' \subseteq records
<1>1. PICK kept \in Unexpired : PrunedTo(Pruned(Append(kept, r)))
  BY DEF Complete
<1>2. /\ kept \in Seq(Runs) /\ Len(kept) <= MaxRecords
      /\ Range(kept) \subseteq Range(completed)
  BY UnexpiredIsSuffix
<1>3. completed' = Pruned(Append(kept, r))
  BY <1>1 DEF PrunedTo
<1>4. /\ completed' \in Seq(Runs) /\ Len(completed') <= MaxRecords
      /\ Range(completed') \subseteq Range(kept) \cup {r}
  BY <1>2, <1>3, PrunedHasRoom
<1>. QED BY <1>1, <1>2, <1>4 DEF PrunedTo

-----------------------------------------------------------------------------
(* The slots *)

(* No run is admitted and no slot taken. *)
LEMMA SlotsKept ==
  ASSUME TypeOK, SlotsInv, slots' = slots, Live' \subseteq Live,
         \A r \in Runs : lifecycle[r] # "none" => lifecycle'[r] # "none"
  PROVE  SlotsInv'
BY DEF SlotsInv, TypeOK

-----------------------------------------------------------------------------
(* The steps *)

(* The pruner wakes. *)
LEMMA PrunerWakesKeeps ==
  ASSUME Inv, PrunerWakes
  PROVE  Inv'
<1>. USE DEF Inv, TypeOK, Evidence, Done, proxy, client, PrunerWakes
<1>1. TypeOK'
  <2>1. PICK kept \in Unexpired : PrunedTo(kept)
    OBVIOUS
  <2>2. completed' \in Seq(Runs) /\ Len(completed') <= MaxRecords
    BY <2>1, UnexpiredIsSuffix DEF PrunedTo
  <2>. QED BY <2>1, <2>2 DEF PrunedTo
<1>2. SlotsInv'
  BY SlotsKept DEF Live
<1>3. RecordsInv'
  <2>1. PICK kept \in Unexpired : PrunedTo(kept)
    OBVIOUS
  <2>2. Range(completed') \subseteq Range(completed)
    BY <2>1, UnexpiredIsSuffix DEF PrunedTo
  <2>3. records \ Range(completed) \subseteq records'
    BY <2>1 DEF PrunedTo
  <2>. QED BY <2>2, <2>3 DEF RecordsInv, Live
<1>4. ProofInv'
  BY DEF ProofInv
<1>5. ToldInv'
  BY DEF ToldInv
<1>. QED BY <1>1, <1>2, <1>3, <1>4, <1>5

(* The execute request arrives. *)
LEMMA ArrivesKeeps ==
  ASSUME Inv, NEW r \in Runs, Arrives(r)
  PROVE  Inv'
<1>. USE DEF Inv, TypeOK, Evidence, Done, proxy, client, Arrives, Refuse
<1>1. TypeOK'
  <2>1. CASE ~HasSlot
    BY <2>1
  <2>2. CASE HasSlot
    <3>1. PICK kept \in Unexpired : completed' = kept /\ records' \subseteq Runs
      BY <2>2 DEF Admit
    <3>2. completed' \in Seq(Runs) /\ Len(completed') <= MaxRecords
      BY <3>1, UnexpiredIsSuffix
    <3>. QED BY <2>2, <3>1, <3>2 DEF Admit
  <2>. QED BY <2>1, <2>2
<1>2. SlotsInv'
  <2>1. CASE ~HasSlot
    BY <2>1, SlotsKept DEF Live
  <2>2. CASE HasSlot
    <3>1. /\ slots' = slots \cup {r} /\ Live' \subseteq Live \cup {r}
          /\ lifecycle' = [lifecycle EXCEPT ![r] = "creating"]
      BY <2>2 DEF Admit, Live
    <3>2. IsFiniteSet(slots) /\ Cardinality(slots) \in Nat
      BY FS_CardinalityType DEF SlotsInv
    <3>3. /\ IsFiniteSet(slots \cup {r})
          /\ Cardinality(slots \cup {r}) =
               IF r \in slots THEN Cardinality(slots) ELSE Cardinality(slots) + 1
      BY <3>2, FS_AddElement
    <3>4. Cardinality(slots \cup {r}) <= MaxSlots
      BY <2>2, <3>2, <3>3, LimitAssumption DEF HasSlot
    <3>. QED BY <3>1, <3>3, <3>4 DEF SlotsInv
  <2>. QED BY <2>1, <2>2
<1>3. RecordsInv'
  <2>1. CASE ~HasSlot
    BY <2>1 DEF RecordsInv, Live
  <2>2. CASE HasSlot
    <3>1. PICK kept \in Unexpired :
            /\ completed' = kept
            /\ records' = (records \ (Range(completed) \ Range(kept))) \cup {r}
      BY <2>2 DEF Admit
    <3>2. Range(completed') \subseteq Range(completed)
      BY <3>1, UnexpiredIsSuffix
    <3>3. lifecycle[r] = "none"
      BY DEF ProofInv
    <3>4. lifecycle' = [lifecycle EXCEPT ![r] = "creating"]
      BY <2>2 DEF Admit
    <3>. QED BY <3>1, <3>2, <3>3, <3>4 DEF RecordsInv, Live
  <2>. QED BY <2>1, <2>2
<1>4. ProofInv'
  <2>1. CASE ~HasSlot
    BY <2>1 DEF ProofInv
  <2>2. CASE HasSlot
    <3>1. /\ lifecycle' = [lifecycle EXCEPT ![r] = "creating"]
          /\ UNCHANGED <<proof, container, caller>>
      BY <2>2 DEF Admit
    <3>. QED BY <3>1 DEF ProofInv
  <2>. QED BY <2>1, <2>2
<1>5. ToldInv'
  <2>1. CASE ~HasSlot
    BY <2>1 DEF ToldInv
  <2>2. CASE HasSlot
    <3>1. /\ lifecycle' = [lifecycle EXCEPT ![r] = "creating"]
          /\ UNCHANGED <<proof, control, caller>>
      BY <2>2 DEF Admit
    <3>. QED BY <3>1 DEF ToldInv, ProofInv
  <2>. QED BY <2>1, <2>2
<1>. QED BY <1>1, <1>2, <1>3, <1>4, <1>5

(* The container is created. *)
LEMMA CreateSucceedsKeeps ==
  ASSUME Inv, NEW r \in Runs, CreateSucceeds(r)
  PROVE  Inv'
<1>. USE DEF Inv, TypeOK, Evidence, Done, proxy, client, CreateSucceeds
<1>1. TypeOK'
  OBVIOUS
<1>2. SlotsInv'
  BY SlotsKept DEF Live
<1>3. RecordsInv'
  BY DEF RecordsInv, Live
<1>4. ProofInv'
  BY DEF ProofInv
<1>5. ToldInv'
  BY DEF ToldInv
<1>. QED BY <1>1, <1>2, <1>3, <1>4, <1>5

(* Its creation fails. *)
LEMMA CreateFailsKeeps ==
  ASSUME Inv, NEW r \in Runs, CreateFails(r)
  PROVE  Inv'
<1>. USE DEF Inv, TypeOK, Evidence, Done, proxy, client, CreateFails
<1>1. TypeOK'
  <2>1. Complete(r, "raised", "none")
    OBVIOUS
  <2>2. /\ completed' \in Seq(Runs) /\ Len(completed') <= MaxRecords
        /\ records' \subseteq records
    BY <2>1, CompletePrunes
  <2>. QED BY <2>1, <2>2 DEF Complete, Removed
<1>2. SlotsInv'
  <2>1. Complete(r, "raised", "none")
    OBVIOUS
  <2>2. lifecycle'[r] \in {"returned", "raised"}
    BY <2>1 DEF Complete
  <2>. QED BY <2>1, <2>2, SlotsKept DEF Complete, Live
<1>3. RecordsInv'
  <2>1. Complete(r, "raised", "none")
    OBVIOUS
  <2>2. /\ Range(completed') \subseteq Range(completed) \cup {r}
        /\ records \ Range(completed) \subseteq records'
    BY <2>1, CompletePrunes
  <2>3. lifecycle'[r] \in {"returned", "raised"}
    BY <2>1 DEF Complete
  <2>4. \A q \in Runs \ {r} : lifecycle'[q] = lifecycle[q]
    BY <2>1 DEF Complete
  <2>. QED BY <2>2, <2>3, <2>4 DEF RecordsInv, Live
<1>4. ProofInv'
  <2>1. Complete(r, "raised", "none")
    OBVIOUS
  <2>. QED BY <2>1 DEF ProofInv, Complete, Removed
<1>5. ToldInv'
  <2>1. Complete(r, "raised", "none")
    OBVIOUS
  <2>. QED BY <2>1 DEF ToldInv, ProofInv, Complete
<1>. QED BY <1>1, <1>2, <1>3, <1>4, <1>5

(* The script ends. *)
LEMMA ScriptEndsKeeps ==
  ASSUME Inv, NEW r \in Runs, ScriptEnds(r)
  PROVE  Inv'
<1>. USE DEF Inv, TypeOK, Evidence, Done, proxy, client, ScriptEnds
<1>1. TypeOK'
  OBVIOUS
<1>2. SlotsInv'
  BY SlotsKept DEF Live
<1>3. RecordsInv'
  BY DEF RecordsInv, Live
<1>4. ProofInv'
  BY DEF ProofInv
<1>5. ToldInv'
  BY DEF ToldInv
<1>. QED BY <1>1, <1>2, <1>3, <1>4, <1>5

(* The cleanup ends. *)
LEMMA CleanupEndsKeeps ==
  ASSUME Inv, NEW r \in Runs, CleanupEnds(r)
  PROVE  Inv'
<1>. USE DEF Inv, TypeOK, Evidence, Done, proxy, client, CleanupEnds
<1>1. TypeOK'
  <2>1. PICK e \in Evidence :
          /\ Complete(r, IF Returns(r, e) THEN "returned" ELSE "raised", e)
          /\ \E left \in Removed(e) :
               container' = [container EXCEPT ![r] = left]
    OBVIOUS
  <2>2. /\ completed' \in Seq(Runs) /\ Len(completed') <= MaxRecords
        /\ records' \subseteq records
    BY <2>1, CompletePrunes
  <2>. QED BY <2>1, <2>2 DEF Complete, Removed
<1>2. SlotsInv'
  <2>1. PICK e \in Evidence :
          /\ Complete(r, IF Returns(r, e) THEN "returned" ELSE "raised", e)
          /\ \E left \in Removed(e) :
               container' = [container EXCEPT ![r] = left]
    OBVIOUS
  <2>2. lifecycle'[r] \in {"returned", "raised"}
    BY <2>1 DEF Complete
  <2>. QED BY <2>1, <2>2, SlotsKept DEF Complete, Live
<1>3. RecordsInv'
  <2>1. PICK e \in Evidence :
          /\ Complete(r, IF Returns(r, e) THEN "returned" ELSE "raised", e)
          /\ \E left \in Removed(e) :
               container' = [container EXCEPT ![r] = left]
    OBVIOUS
  <2>2. /\ Range(completed') \subseteq Range(completed) \cup {r}
        /\ records \ Range(completed) \subseteq records'
    BY <2>1, CompletePrunes
  <2>3. lifecycle'[r] \in {"returned", "raised"}
    BY <2>1 DEF Complete
  <2>4. \A q \in Runs \ {r} : lifecycle'[q] = lifecycle[q]
    BY <2>1 DEF Complete
  <2>. QED BY <2>2, <2>3, <2>4 DEF RecordsInv, Live
<1>4. ProofInv'
  <2>1. PICK e \in Evidence :
          /\ Complete(r, IF Returns(r, e) THEN "returned" ELSE "raised", e)
          /\ \E left \in Removed(e) :
               container' = [container EXCEPT ![r] = left]
    OBVIOUS
  <2>. QED BY <2>1 DEF ProofInv, Complete, Removed
<1>5. ToldInv'
  <2>1. PICK e \in Evidence :
          /\ Complete(r, IF Returns(r, e) THEN "returned" ELSE "raised", e)
          /\ \E left \in Removed(e) :
               container' = [container EXCEPT ![r] = left]
    OBVIOUS
  <2>. QED BY <2>1 DEF ToldInv, ProofInv, Complete
<1>. QED BY <1>1, <1>2, <1>3, <1>4, <1>5

(* The execute handler returns. *)
LEMMA HandlerReturnsKeeps ==
  ASSUME Inv, NEW r \in Runs, HandlerReturns(r)
  PROVE  Inv'
<1>. USE DEF Inv, TypeOK, Evidence, Done, proxy, client, HandlerReturns,
         Believes
<1>1. TypeOK'
  OBVIOUS
<1>2. SlotsInv'
  <2>1. slots' = slots \ {r} /\ lifecycle' = lifecycle
    OBVIOUS
  <2>2. IsFiniteSet(slots') /\ Cardinality(slots') <= Cardinality(slots)
    BY <2>1, FS_Subset DEF SlotsInv
  <2>3. Cardinality(slots') <= MaxSlots
    BY <2>2, FS_CardinalityType, LimitAssumption DEF SlotsInv
  <2>. QED BY <2>1, <2>2, <2>3 DEF SlotsInv, Live
<1>3. RecordsInv'
  BY DEF RecordsInv, Live
<1>4. ProofInv'
  BY DEF ProofInv
<1>5. ToldInv'
  BY DEF ToldInv
<1>. QED BY <1>1, <1>2, <1>3, <1>4, <1>5

(* The cancel request arrives. *)
LEMMA CancelArrivesKeeps ==
  ASSUME Inv, NEW r \in Runs, CancelArrives(r)
  PROVE  Inv'
<1>. USE DEF Inv, TypeOK, Evidence, Done, proxy, client, CancelArrives, Reply
<1>1. TypeOK'
  OBVIOUS
<1>2. SlotsInv'
  BY SlotsKept DEF Live
<1>3. RecordsInv'
  BY DEF RecordsInv, Live
<1>4. ProofInv'
  BY DEF ProofInv
<1>5. ToldInv'
  BY DEF ToldInv
<1>. QED BY <1>1, <1>2, <1>3, <1>4, <1>5

(* It interrupts the run. *)
LEMMA InterruptsKeeps ==
  ASSUME Inv, NEW r \in Runs, Interrupts(r)
  PROVE  Inv'
<1>. USE DEF Inv, TypeOK, Evidence, Done, proxy, client, Interrupts, Reply
<1>1. TypeOK'
  OBVIOUS
<1>2. SlotsInv'
  BY SlotsKept DEF Live
<1>3. RecordsInv'
  BY DEF RecordsInv, Live
<1>4. ProofInv'
  BY DEF ProofInv
<1>5. ToldInv'
  BY DEF ToldInv
<1>. QED BY <1>1, <1>2, <1>3, <1>4, <1>5

(* It is answered. *)
LEMMA CancelAnswersKeeps ==
  ASSUME Inv, NEW r \in Runs, CancelAnswers(r)
  PROVE  Inv'
<1>. USE DEF Inv, TypeOK, Evidence, Done, proxy, client, CancelAnswers, Reply
<1>1. TypeOK'
  OBVIOUS
<1>2. SlotsInv'
  BY SlotsKept DEF Live
<1>3. RecordsInv'
  BY DEF RecordsInv, Live
<1>4. ProofInv'
  BY DEF ProofInv
<1>5. ToldInv'
  BY DEF ToldInv
<1>. QED BY <1>1, <1>2, <1>3, <1>4, <1>5

(* The backend executes. *)
LEMMA CallsKeeps ==
  ASSUME Inv, NEW r \in Runs, Calls(r)
  PROVE  Inv'
<1>. USE DEF Inv, TypeOK, Evidence, Done, proxy, client, Calls
<1>1. TypeOK'
  OBVIOUS
<1>2. SlotsInv'
  BY SlotsKept DEF Live
<1>3. RecordsInv'
  BY DEF RecordsInv, Live
<1>4. ProofInv'
  BY DEF ProofInv
<1>5. ToldInv'
  BY DEF ToldInv
<1>. QED BY <1>1, <1>2, <1>3, <1>4, <1>5

(* Its caller is cancelled. *)
LEMMA CallerCancelledKeeps ==
  ASSUME Inv, NEW r \in Runs, CallerCancelled(r)
  PROVE  Inv'
<1>. USE DEF Inv, TypeOK, Evidence, Done, proxy, client, CallerCancelled
<1>1. TypeOK'
  OBVIOUS
<1>2. SlotsInv'
  BY SlotsKept DEF Live
<1>3. RecordsInv'
  BY DEF RecordsInv, Live
<1>4. ProofInv'
  BY DEF ProofInv
<1>5. ToldInv'
  BY DEF ToldInv
<1>. QED BY <1>1, <1>2, <1>3, <1>4, <1>5

(* The call fails. *)
LEMMA CallFailsKeeps ==
  ASSUME Inv, NEW r \in Runs, CallFails(r)
  PROVE  Inv'
<1>. USE DEF Inv, TypeOK, Evidence, Done, proxy, client, CallFails
<1>1. TypeOK'
  OBVIOUS
<1>2. SlotsInv'
  BY SlotsKept DEF Live
<1>3. RecordsInv'
  BY DEF RecordsInv, Live
<1>4. ProofInv'
  BY DEF ProofInv
<1>5. ToldInv'
  BY DEF ToldInv
<1>. QED BY <1>1, <1>2, <1>3, <1>4, <1>5

(* The request is lost. *)
LEMMA RequestLostKeeps ==
  ASSUME Inv, NEW r \in Runs, RequestLost(r)
  PROVE  Inv'
<1>. USE DEF Inv, TypeOK, Evidence, Done, proxy, client, RequestLost
<1>1. TypeOK'
  OBVIOUS
<1>2. SlotsInv'
  BY SlotsKept DEF Live
<1>3. RecordsInv'
  BY DEF RecordsInv, Live
<1>4. ProofInv'
  BY DEF ProofInv
<1>5. ToldInv'
  BY DEF ToldInv
<1>. QED BY <1>1, <1>2, <1>3, <1>4, <1>5

(* The backend sees the answer to its cancel request. *)
LEMMA CancelAnsweredKeeps ==
  ASSUME Inv, NEW r \in Runs, CancelAnswered(r)
  PROVE  Inv'
<1>. USE DEF Inv, TypeOK, Evidence, Done, proxy, client, CancelAnswered
<1>1. TypeOK'
  OBVIOUS
<1>2. SlotsInv'
  BY SlotsKept DEF Live
<1>3. RecordsInv'
  BY DEF RecordsInv, Live
<1>4. ProofInv'
  BY DEF ProofInv
<1>5. ToldInv'
  BY DEF ToldInv
<1>. QED BY <1>1, <1>2, <1>3, <1>4, <1>5

(* It sees the status. *)
LEMMA ConfirmsKeeps ==
  ASSUME Inv, NEW r \in Runs, Confirms(r)
  PROVE  Inv'
<1>. USE DEF Inv, TypeOK, Evidence, Done, proxy, client, Confirms, Believes,
         StatusOf
<1>1. TypeOK'
  OBVIOUS
<1>2. SlotsInv'
  BY SlotsKept DEF Live
<1>3. RecordsInv'
  BY DEF RecordsInv, Live
<1>4. ProofInv'
  BY DEF ProofInv
<1>5. ToldInv'
  BY DEF ToldInv
<1>. QED BY <1>1, <1>2, <1>3, <1>4, <1>5

(* It sees neither. *)
LEMMA ControlFailsKeeps ==
  ASSUME Inv, NEW r \in Runs, ControlFails(r)
  PROVE  Inv'
<1>. USE DEF Inv, TypeOK, Evidence, Done, proxy, client, ControlFails
<1>1. TypeOK'
  OBVIOUS
<1>2. SlotsInv'
  BY SlotsKept DEF Live
<1>3. RecordsInv'
  BY DEF RecordsInv, Live
<1>4. ProofInv'
  BY DEF ProofInv
<1>5. ToldInv'
  BY DEF ToldInv
<1>. QED BY <1>1, <1>2, <1>3, <1>4, <1>5

(* The invariant is inductive. *)
LEMMA InvStep == Inv /\ [Next]_vars => Inv'
<1>1. ASSUME Inv, UNCHANGED vars PROVE Inv'
  BY <1>1 DEF vars, proxy, client, Inv, TypeOK, SlotsInv, Live, RecordsInv,
              ProofInv, ToldInv, Done
<1>2. ASSUME Inv, NEW r \in Runs, RunNext(r) PROVE Inv'
  BY <1>2, ArrivesKeeps, CreateSucceedsKeeps, CreateFailsKeeps,
     ScriptEndsKeeps, CleanupEndsKeeps, HandlerReturnsKeeps,
     CancelArrivesKeeps, InterruptsKeeps, CancelAnswersKeeps, CallsKeeps,
     CallerCancelledKeeps, CallFailsKeeps, RequestLostKeeps,
     CancelAnsweredKeeps, ConfirmsKeeps, ControlFailsKeeps
     DEF RunNext, LifecycleNext, ControlNext, CallerNext
<1>. QED BY <1>1, <1>2, PrunerWakesKeeps DEF Next

(* The invariant holds in every state.                                    *)
LEMMA InvHolds == Spec => []Inv
<1>1. ASSUME Init PROVE Inv
  <2>. USE <1>1 DEF Init
  <2>1. TypeOK
    BY EmptySeq, LimitAssumption DEF TypeOK, Evidence
  <2>2. SlotsInv
    BY FS_EmptySet, LimitAssumption DEF SlotsInv, Live
  <2>3. Range(completed) = {}
    BY DEF Range
  <2>4. RecordsInv /\ ProofInv /\ ToldInv
    BY <2>3 DEF RecordsInv, ProofInv, ToldInv, Live
  <2>. QED BY <2>1, <2>2, <2>4 DEF Inv
<1>. QED BY <1>1, InvStep, PTL DEF Spec

-----------------------------------------------------------------------------

(* The variables keep their types. *)
THEOREM Typed == Spec => []TypeOK
<1>1. Inv => TypeOK
  BY DEF Inv
<1>. QED BY <1>1, InvHolds, PTL

(* However requests and answers are lost and overtake each other, a parent *)
(* is reported as deleted only when its container is gone for good.        *)
THEOREM ReportedIsGone == Spec => []DeletedIsGone
<1>1. Inv => DeletedIsGone
  BY DEF Inv, ToldInv, ProofInv, DeletedIsGone
<1>. QED BY <1>1, InvHolds, PTL

(* A cancelled caller or handler does not let one run too many in. *)
THEOREM SlotsBoundParents == Spec => []ParentsBounded
<1>1. ASSUME Inv PROVE ParentsBounded
  <2>1. IsFiniteSet(slots) /\ Live \in SUBSET slots /\ Cardinality(slots) <= MaxSlots
    BY <1>1 DEF Inv, SlotsInv
  <2>2. IsFiniteSet(Live) /\ Cardinality(Live) <= Cardinality(slots)
    BY <2>1, FS_Subset
  <2>3. Cardinality(Live) <= MaxSlots
    BY <2>1, <2>2, FS_CardinalityType, LimitAssumption
  <2>. QED BY <2>3 DEF ParentsBounded, Live
<1>. QED BY <1>1, InvHolds, PTL

(* However many runs complete, pruning never touches a live one. *)
THEOREM LiveRunsAreRecorded == Spec => []LiveIsRecorded
<1>1. Inv => LiveIsRecorded
  BY DEF Inv, TypeOK, RecordsInv, Live, Done, LiveIsRecorded
<1>. QED BY <1>1, InvHolds, PTL

(* A cancel request is answered with evidence only after the end, and      *)
(* nothing happens to the run or its container after its end.              *)
THEOREM AnsweredIsOver == Spec => CancelledIsOver
<1>1. Inv /\ [Next]_vars =>
        [\A r \in Runs :
           control[r] \in {"deleted", "cleanup_failed"} =>
             lifecycle'[r] = lifecycle[r] /\ container'[r] = container[r]]_vars
  <2>. SUFFICES ASSUME Inv, [Next]_vars, NEW r \in Runs,
                       control[r] \in {"deleted", "cleanup_failed"}
                PROVE  lifecycle'[r] = lifecycle[r] /\ container'[r] = container[r]
    OBVIOUS
  <2>. DEFINE Goal == lifecycle'[r] = lifecycle[r] /\ container'[r] = container[r]
  <2>. USE DEF Inv, TypeOK
  <2>1. lifecycle[r] \in {"returned", "raised"} /\ request[r] = "arrived"
    BY DEF ToldInv, ProofInv, Done
  <2>2. ASSUME NEW q \in Runs, LifecycleNext(q) PROVE Goal
    <3>1. q # r
      BY <2>1, <2>2 DEF LifecycleNext, CreateSucceeds, CreateFails, ScriptEnds,
                        CleanupEnds
    <3>. QED BY <2>2, <3>1 DEF LifecycleNext, CreateSucceeds, CreateFails,
                               ScriptEnds, CleanupEnds, Complete
  <2>3. ASSUME NEW q \in Runs, Arrives(q) PROVE Goal
    <3>1. q # r
      BY <2>1, <2>3 DEF Arrives
    <3>. QED BY <2>3, <3>1 DEF Arrives, Admit, Refuse, proxy
  <2>4. CASE UNCHANGED <<lifecycle, container>>
    BY <2>4
  <2>5. ASSUME NEW q \in Runs, HandlerReturns(q) \/ ControlNext(q)
        PROVE  Goal
    BY <2>4, <2>5 DEF HandlerReturns, ControlNext, CancelArrives, Interrupts,
                      CancelAnswers, proxy
  <2>6. ASSUME NEW q \in Runs,
               Calls(q) \/ CallerCancelled(q) \/ CallFails(q) \/ RequestLost(q)
                 \/ CallerNext(q)
        PROVE  Goal
    BY <2>4, <2>6 DEF Calls, CallerCancelled, CallFails, RequestLost,
                      CallerNext, CancelAnswered, Confirms, ControlFails, proxy
  <2>7. CASE PrunerWakes \/ UNCHANGED vars
    BY <2>4, <2>7 DEF PrunerWakes, vars, proxy
  <2>. QED BY <2>2, <2>3, <2>5, <2>6, <2>7 DEF Next, RunNext
<1>. QED BY <1>1, InvHolds, PTL DEF Spec, CancelledIsOver
=============================================================================
