-------------------------- MODULE DisposableParent --------------------------
(***************************************************************************)
(* The sandbox container a parent script runs in, created for one run and  *)
(* always deleted: the proxy's /parent-runs endpoints                      *)
(* (sandbox-proxy/main.py) and the backend's side of the conversation with *)
(* them (backend/app/core/sandbox/manager.py).                             *)
(*                                                                         *)
(* For each run the proxy has the execute handler, the lifecycle task that *)
(* creates, executes and deletes, and at most one cancel handler; Docker   *)
(* is called in worker threads.  The backend's caller believes that the    *)
(* container is gone only when the proxy shows proof of it.  The two talk  *)
(* over HTTP: requests are lost and time out, and a cancel request can     *)
(* overtake the execute request it is to cancel.                           *)
(*                                                                         *)
(* One action is the code of one task between two suspension points; a     *)
(* Docker call is one step with the resumption of the task that awaits it. *)
(***************************************************************************)
EXTENDS Integers, Sequences, FiniteSets, SequencesExt

CONSTANTS
  Runs,       \* run ids, fresh uuids
  MaxSlots,   \* DISPOSABLE_PARENT_MAX_CONCURRENCY
  MaxRecords  \* PARENT_RUN_STATUS_MAX_RECORDS

ASSUME LimitAssumption == MaxSlots \in Nat \ {0} /\ MaxRecords \in Nat \ {0}

VARIABLES
  slots,           \* runs that hold _disposable_parent_slots
  records,         \* runs in _parent_runs
  completed,       \* those with a completed_at, the oldest first
  cancelRequested, \* runs with state.cancel_requested
  attached,        \* runs with state.container
  lifecycle,       \* where the lifecycle task of each run is
  failed,          \* runs with an execution_error
  proof,           \* what state.result says of the deletion
  container,       \* the container, as Docker knows it
  request,         \* the execute request of each run
  control,         \* the cancel request of each run
  caller           \* the backend's caller of each run

proxy  == <<slots, records, completed, cancelRequested, attached, lifecycle,
            failed, proof, container>>
client == <<request, control, caller>>
vars   == <<proxy, client>>

(* state.done; the task has returned its result or raised *)
Done(r) == lifecycle[r] \in {"returned", "raised"}

(* A terminal status or result carries proof, a failed cleanup, or is an   *)
(* error without either.                                                   *)
Evidence == {"deleted", "cleanup_failed", "none"}

-----------------------------------------------------------------------------
(* Retention of the records of completed runs *)

(* Those over the limit go, the oldest first.  Pruned after each addition, *)
(* it is at most one.                                                      *)
Pruned(s) == IF Len(s) > MaxRecords THEN Tail(s) ELSE s

PrunedToCompleted(kept) == \* mutant: keeps completed runs only
  /\ completed' = kept
  /\ records' = Range(kept)

PrunedTo(kept) ==
  /\ completed' = kept
  /\ records' = records \ (Range(completed) \ Range(kept))

(* The records whose time is over go when a run starts, ends, or the       *)
(* pruner wakes.                                                           *)
Unexpired == {SubSeq(completed, n, Len(completed)) : n \in 1..Len(completed) + 1}

PrunerWakes ==
  /\ \E kept \in Unexpired : kept # completed /\ PrunedTo(kept)
  /\ UNCHANGED <<slots, cancelRequested, attached, lifecycle, failed, proof,
                 container, client>>

-----------------------------------------------------------------------------
(* The proxy: execution *)

(* The execute handler starts.  A caller that is no longer there does not  *)
(* see what it is answered.                                                *)
Refuse(r) ==
  /\ caller' = [caller EXCEPT ![r] = IF @ = "executing" THEN "annotating" ELSE @]
  /\ UNCHANGED <<proxy, control>>

Admit(r) ==
  /\ slots' = slots \cup {r}
  /\ lifecycle' = [lifecycle EXCEPT ![r] = "creating"]
  /\ \E kept \in Unexpired :
       /\ completed' = kept
       /\ records' = (records \ (Range(completed) \ Range(kept))) \cup {r}
  /\ UNCHANGED <<cancelRequested, attached, failed, proof, container, control,
                 caller>>

HasSlot == Cardinality(slots) < MaxSlots

Arrives(r) ==
  /\ request[r] = "travelling"
  /\ request' = [request EXCEPT ![r] = "arrived"]
  /\ IF HasSlot THEN Admit(r) ELSE Refuse(r)

(* the lifecycle task ends with the evidence e *)
Complete(r, how, e) ==
  /\ lifecycle' = [lifecycle EXCEPT ![r] = how]
  /\ proof' = [proof EXCEPT ![r] = e]
  /\ attached' = attached \ {r}
  /\ \E kept \in Unexpired : PrunedTo(Pruned(Append(kept, r)))

CreateSucceeds(r) ==
  /\ lifecycle[r] = "creating"
  /\ container' = [container EXCEPT ![r] = "up"]
  /\ attached' = attached \cup {r}
  /\ IF r \in cancelRequested
       THEN /\ failed' = failed \cup {r}
            /\ lifecycle' = [lifecycle EXCEPT ![r] = "cleaning"]
       ELSE /\ lifecycle' = [lifecycle EXCEPT ![r] = "running"]
            /\ UNCHANGED failed
  /\ UNCHANGED <<slots, records, completed, cancelRequested, proof, client>>

CreateFails(r) ==
  /\ lifecycle[r] = "creating"
  /\ Complete(r, "raised", "none")
  /\ failed' = failed \cup {r}
  /\ UNCHANGED <<slots, cancelRequested, container, client>>

(* The script ends, its container stops under it, or it says too much. *)
ScriptEnds(r) ==
  /\ lifecycle[r] = "running"
  /\ lifecycle' = [lifecycle EXCEPT ![r] = "cleaning"]
  /\ failed' \in {failed, failed \cup {r}}
  /\ UNCHANGED <<slots, records, completed, cancelRequested, attached, proof,
                 container, client>>

(* The container is removed at once, removed after other attempts or not   *)
(* at all; or listing what is left fails.                                  *)
Removed(e) == IF e = "deleted" THEN {"gone"} ELSE {"gone", "up"}

Returns(r, e) == e = "deleted" /\ (r \notin failed \/ r \in cancelRequested)

CleanupEnds(r) ==
  /\ lifecycle[r] = "cleaning"
  /\ \E e \in Evidence :
       /\ Complete(r, IF Returns(r, e) THEN "returned" ELSE "raised", e)
       /\ \E left \in Removed(e) : container' = [container EXCEPT ![r] = left]
  /\ UNCHANGED <<slots, cancelRequested, failed, client>>

BelievesAll(e) == \* mutant: any answer but an error confirms the deletion
  IF e = "none" THEN "unconfirmed" ELSE "deleted"

(* what the backend makes of the evidence it is shown *)
Believes(e) == IF e = "deleted" THEN "deleted" ELSE "unconfirmed"

HandlerReturnsOnSuccess(r) == \* mutant: a failed run keeps its slot
  /\ r \in slots
  /\ lifecycle[r] = "returned"
  /\ slots' = slots \ {r}
  /\ caller' = [caller EXCEPT ![r] =
                  IF @ = "executing" THEN Believes(proof[r]) ELSE @]
  /\ UNCHANGED <<records, completed, cancelRequested, attached, lifecycle,
                 failed, proof, container, request, control>>

HandlerReturnsInterrupted(r) == \* mutant: a cancelled handler does not wait
  /\ r \in slots
  /\ slots' = slots \ {r}
  /\ UNCHANGED <<records, completed, cancelRequested, attached, lifecycle,
                 failed, proof, container, client>>

(* The execute handler does not return, cancelled or not, before the       *)
(* lifecycle is over.                                                      *)
HandlerReturns(r) ==
  /\ r \in slots
  /\ Done(r)
  /\ slots' = slots \ {r}
  /\ caller' = [caller EXCEPT ![r] =
                  CASE @ # "executing" -> @
                    [] lifecycle[r] = "returned" -> Believes(proof[r])
                    [] OTHER -> "annotating"]
  /\ UNCHANGED <<records, completed, cancelRequested, attached, lifecycle,
                 failed, proof, container, request, control>>

-----------------------------------------------------------------------------
(* The proxy: control *)

Reply(r, e) == control' = [control EXCEPT ![r] = e]

CancelArrives(r) ==
  /\ control[r] = "travelling"
  /\ IF r \in records
       THEN /\ cancelRequested' = cancelRequested \cup {r}
            /\ Reply(r, IF r \in attached /\ ~Done(r)
                          THEN "interrupting" ELSE "waiting")
       ELSE /\ Reply(r, "none")
            /\ UNCHANGED cancelRequested
  /\ UNCHANGED <<slots, records, completed, attached, lifecycle, failed, proof,
                 container, request, caller>>

(* The thread looks the container up only when it runs.  By then the run   *)
(* may be over and its state compacted: the attempt to stop None fails, and *)
(* so does the attempt to log that.  Stopping a container makes its script *)
(* end, which it may do at any time.                                       *)
Interrupts(r) ==
  /\ control[r] = "interrupting"
  /\ Reply(r, IF r \in attached THEN "waiting" ELSE "none")
  /\ UNCHANGED <<proxy, request, caller>>

CancelAnswersEarly(r) == \* mutant: without a container yet, it is deleted
  /\ control[r] = "waiting"
  /\ Done(r) \/ r \notin attached
  /\ Reply(r, IF Done(r) THEN proof[r] ELSE "deleted")
  /\ UNCHANGED <<proxy, request, caller>>

CancelAnswers(r) ==
  /\ control[r] = "waiting"
  /\ Done(r)
  /\ Reply(r, proof[r])
  /\ UNCHANGED <<proxy, request, caller>>

StatusOf(r) == IF r \in records /\ Done(r) THEN proof[r] ELSE "none"

-----------------------------------------------------------------------------
(* The backend *)

Calls(r) ==
  /\ caller[r] = "idle"
  /\ caller' = [caller EXCEPT ![r] = "executing"]
  /\ request' = [request EXCEPT ![r] = "travelling"]
  /\ UNCHANGED <<proxy, control>>

(* The turn is cancelled: the connection is closed and the run cancelled,  *)
(* in a task that further cancellations do not reach.                      *)
CallerCancelled(r) ==
  /\ caller[r] = "executing"
  /\ caller' = [caller EXCEPT ![r] = "cancelling"]
  /\ control' = [control EXCEPT ![r] = "travelling"]
  /\ UNCHANGED <<proxy, request>>

(* The client's timeout is over or the connection breaks. *)
CallFails(r) ==
  /\ caller[r] = "executing"
  /\ caller' = [caller EXCEPT ![r] = "annotating"]
  /\ UNCHANGED <<proxy, request, control>>

(* A request whose connection is closed before it was read is not served. *)
RequestLost(r) ==
  /\ request[r] = "travelling"
  /\ caller[r] \notin {"idle", "executing"}
  /\ request' = [request EXCEPT ![r] = "lost"]
  /\ UNCHANGED <<proxy, control, caller>>

CancelAnswered(r) ==
  /\ caller[r] = "cancelling"
  /\ control[r] \in Evidence
  /\ caller' = [caller EXCEPT ![r] =
                  IF control[r] = "deleted" THEN "confirming" ELSE "unconfirmed"]
  /\ UNCHANGED <<proxy, request, control>>

(* The status request, after a failed execution or a cancellation. *)
Confirms(r) ==
  /\ caller[r] \in {"annotating", "confirming"}
  /\ caller' = [caller EXCEPT ![r] = Believes(StatusOf(r))]
  /\ UNCHANGED <<proxy, request, control>>

(* A control request fails or times out; the wait for the status after a   *)
(* failed execution ends with a cancellation too.                          *)
ControlFails(r) ==
  /\ caller[r] \in {"annotating", "cancelling", "confirming"}
  /\ caller' = [caller EXCEPT ![r] = "unconfirmed"]
  /\ control' = [control EXCEPT ![r] = IF @ = "travelling" THEN "lost" ELSE @]
  /\ UNCHANGED <<proxy, request>>

-----------------------------------------------------------------------------
Init ==
  /\ slots = {}
  /\ records = {}
  /\ completed = <<>>
  /\ cancelRequested = {}
  /\ attached = {}
  /\ lifecycle = [r \in Runs |-> "none"]
  /\ failed = {}
  /\ proof = [r \in Runs |-> "none"]
  /\ container = [r \in Runs |-> "none"]
  /\ request = [r \in Runs |-> "none"]
  /\ control = [r \in Runs |-> "idle"]
  /\ caller = [r \in Runs |-> "idle"]

LifecycleNext(r) ==
  \/ CreateSucceeds(r) \/ CreateFails(r)
  \/ ScriptEnds(r)
  \/ CleanupEnds(r)

ControlNext(r) == CancelArrives(r) \/ Interrupts(r) \/ CancelAnswers(r)

CallerNext(r) ==
  \/ CancelAnswered(r)
  \/ Confirms(r)
  \/ ControlFails(r)

RunNext(r) ==
  \/ Arrives(r) \/ LifecycleNext(r) \/ HandlerReturns(r)
  \/ ControlNext(r)
  \/ Calls(r) \/ CallerCancelled(r) \/ CallFails(r) \/ RequestLost(r)
  \/ CallerNext(r)

Next == PrunerWakes \/ \E r \in Runs : RunNext(r)

Spec == Init /\ [][Next]_vars

(* Docker calls return, scripts run under timeout(1), handlers and tasks   *)
(* are resumed.                                                            *)
Fairness ==
  \A r \in Runs :
    /\ WF_vars(LifecycleNext(r))
    /\ WF_vars(HandlerReturns(r))

FairSpec == Spec /\ Fairness

-----------------------------------------------------------------------------
(* Invariants *)

(* Type correctness. *)
TypeOK ==
  /\ slots \subseteq Runs /\ records \subseteq Runs
  /\ completed \in Seq(Runs) /\ Len(completed) <= MaxRecords
  /\ cancelRequested \subseteq Runs /\ attached \subseteq Runs
  /\ lifecycle \in [Runs -> {"none", "creating", "running", "cleaning",
                             "returned", "raised"}]
  /\ failed \subseteq Runs
  /\ proof \in [Runs -> Evidence]
  /\ container \in [Runs -> {"none", "up", "gone"}]
  /\ request \in [Runs -> {"none", "travelling", "arrived", "lost"}]
  /\ control \in [Runs -> {"idle", "travelling", "interrupting", "waiting",
                           "lost"} \cup Evidence]
  /\ caller \in [Runs -> {"idle", "executing", "annotating", "cancelling",
                          "confirming", "deleted", "unconfirmed"}]

(* The backend tells its user that a parent is deleted only when it is,    *)
(* and no container of that run can come into being any more: whichever    *)
(* way its request, its cancellation and the proxy's cleanup interleave.   *)
DeletedIsGone ==
  \A r \in Runs :
    caller[r] = "deleted" => container[r] = "gone" /\ Done(r)

(* The proxy runs no more parents at a time than it has slots, cancelled   *)
(* callers and handlers included.                                          *)
ParentsBounded ==
  Cardinality({r \in Runs : lifecycle[r] \in {"creating", "running", "cleaning"}})
    <= MaxSlots

(* A run that is not over can always be cancelled and asked after: it has  *)
(* its record however many others have come and gone.                      *)
LiveIsRecorded ==
  \A r \in Runs : lifecycle[r] # "none" /\ ~Done(r) => r \in records

(* Action properties *)

(* An answered cancel request was the last of the run: nothing of it       *)
(* starts, runs or is created after it.                                    *)
CancelledIsOver ==
  [][\A r \in Runs :
       control[r] \in {"deleted", "cleanup_failed"} =>
         lifecycle'[r] = lifecycle[r] /\ container'[r] = container[r]]_vars

(* Liveness *)

(* Every admitted run ends and gives its slot back, whatever became of its *)
(* caller, so that MaxSlots failures do not close the service.             *)
SlotsReturn == \A r \in Runs : r \in slots ~> (r \notin slots /\ Done(r))

(* Not kept by the code (README, section 7).                               *)
(* "Best-effort interruption; lifecycle cleanup remains authoritative."    *)
(* (sandbox-proxy/main.py:878): a cancel request of a run that ended with  *)
(* proof of its deletion is answered with that proof.                      *)
CleanupDecides ==
  \A r \in Runs :
    r \in cancelRequested /\ proof[r] = "deleted" => control[r] # "none"
=============================================================================
