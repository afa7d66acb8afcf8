---------------------------- MODULE CodeAsAction ----------------------------
(***************************************************************************)
(* One code_as_action call of a turn: stream_code_as_action                *)
(* (backend/app/core/agent/code_executor.py) composes a sub-agent runtime, *)
(* a control authority and a disposable parent for one script, and takes   *)
(* the three down again in a long finally clause.                          *)
(*                                                                         *)
(* The runtime's accounts are those of BudgetLedger, which SubAgentRuntime *)
(* implements; the authority is reduced to its open socket and its close,  *)
(* the disposable parent to what its caller learns of the container.  The  *)
(* actions of a turn come one after the other and are numbered.            *)
(*                                                                         *)
(* One action is the code of one task between two suspension points.  The  *)
(* task of the turn suspends at the locations named by `at'; where its     *)
(* cancellation strikes there is Struck's business.                        *)
(***************************************************************************)
EXTENDS Integers, FiniteSets

CONSTANTS
  Actions,     \* the numbers of the code_as_action calls of a turn
  Children,    \* sub-agents, fresh run ids
  ParentOf,    \* the action each of them would be spawned by
  ChildBudget, \* the runtime's child_budget
  MaxTokens    \* MAX_TOKENS_PER_TURN

ASSUME ActionAssumption ==
  /\ ParentOf \in [Children -> Actions]
  /\ Actions \subseteq Nat
  /\ IsFiniteSet(Children)
  /\ ChildBudget \in Nat \ {0} /\ MaxTokens \in Nat \ {0}

VARIABLES
  at,          \* where stream_code_as_action is
  action,      \* the number of the action in progress or ended last
  parentTask,  \* the task of execute_disposable_parent
  listening,   \* serve_run's socket is open and its capability valid
  quiesced,    \* runtime_quiesced
  finalized,   \* artifacts_finalized
  closed,      \* authority.aclose has succeeded
  parentError, \* parent_error is set
  raised,      \* what is propagating: "nothing", "failure", "cancellation"
  consumed,    \* _TurnBudget.consumed
  child,       \* where each child's runner is
  spawner,     \* where the spawn_sub_agent call of each child is
  box,         \* each child's own sandbox container
  refused,     \* children a charge of whom the turn refused
  doomed,      \* children ended by their deadline or a cancellation
  account, funds, charged, held, granted \* the runtime's, see BudgetLedger

ledger == <<account, funds, charged, held, granted>>
runners == <<child, spawner, box, refused>>
boxes  == <<runners, doomed>>
script == <<at, action, parentTask, listening, quiesced, finalized, closed,
            parentError, raised>>
actionVars == <<script, consumed, boxes, ledger>>

Ledger == INSTANCE BudgetLedger WITH Parents <- Actions, MaxBudget <- MaxTokens

Remaining == MaxTokens - consumed

Mine    == {c \in Children : ParentOf[c] = action}
Alive   == {c \in Children : child[c] \notin {"unborn", "ended"}}

(* The results still to be written; that of a call that was torn down      *)
(* between the end of its wait and the write never is.                     *)
Pending == {c \in Children : spawner[c] \notin {"none", "done"}}

(* The parent's container may still exist once its task is done. *)
ParentDone == parentTask \notin {"none", "running", "killed"}

-----------------------------------------------------------------------------
(* Where the call goes on, with `what' propagating *)

Goto(l, what) == at' = l /\ raised' = what

(* out of serve_run; its cleanup revokes the capability first *)
Leave(what) == Goto("leaving", what) /\ listening' = FALSE

(* A parent that could not be deleted after its cancellation is reported   *)
(* last, in place of what was propagating.                                 *)
End(what) ==
  Goto("over", IF parentTask = "unclean" THEN "failure" ELSE what)

FinalizeLate(what) ==
  IF finalized THEN Goto("closing", what) ELSE Goto("finalizingLate", what)

(* cancel_parent closes the account and cancels the children whose runners *)
(* have not ended, who lose what they hold                                 *)
Tombstone ==
  /\ Ledger!Close(action)
  /\ held' = [c \in Children |-> IF c \in Alive \cap Mine THEN 0 ELSE held[c]]
  /\ doomed' = doomed \cup (Alive \cap Mine)

AfterKillSkipping(what) == \* mutant: takes the runtime for quiesced
  FinalizeLate(what) /\ UNCHANGED <<doomed, ledger>>

AfterKill(what) ==
  IF quiesced
    THEN FinalizeLate(what) /\ UNCHANGED <<doomed, ledger>>
    ELSE Goto("cancellingLate", what) /\ Tombstone

(* the finally clause up to its first wait *)
Finally(what) ==
  IF parentTask = "running"
    THEN /\ Goto("killing", what)
         /\ parentTask' = "killed"
         /\ UNCHANGED <<doomed, ledger>>
    ELSE AfterKill(what) /\ UNCHANGED parentTask

QuiescentAfterChild == \* mutant: only the end of a child sets the event
  Mine \cap granted # {} /\ Mine \cap (Alive \cup Pending) = {}

(* no runner is listed and no result is pending *)
Quiescent == Mine \cap (Alive \cup Pending) = {}

-----------------------------------------------------------------------------
(* The call *)

BudgetUnshared == MaxTokens \* mutant: a whole turn's budget for each action

(* what the action may spend: what the turn has left *)
BudgetOfAction == Remaining

(* A call is refused when nothing of the turn's budget is left. *)
Begin ==
  /\ at \in {"idle", "over"}
  /\ action + 1 \in Actions
  /\ action' = action + 1
  /\ parentTask' = "none"
  /\ quiesced' = FALSE
  /\ finalized' = FALSE
  /\ closed' = FALSE
  /\ parentError' = FALSE
  /\ IF Remaining <= 0
       THEN Goto("over", "failure") /\ UNCHANGED ledger
       ELSE Goto("starting", "nothing") /\ Ledger!Open(action', BudgetOfAction)
  /\ UNCHANGED <<listening, consumed, boxes>>

(* serve_run opens its socket and the parent is started *)
SocketOpens ==
  /\ at = "starting"
  /\ Goto("polling", raised)
  /\ listening' = TRUE
  /\ parentTask' = "running"
  /\ UNCHANGED <<action, quiesced, finalized, closed, parentError, consumed,
                 boxes, ledger>>

SocketFails ==
  /\ at = "starting"
  /\ Leave("failure")
  /\ UNCHANGED <<action, parentTask, quiesced, finalized, closed, parentError,
                 consumed, boxes, ledger>>

(* The loop forwards the children's events until the parent is done; then  *)
(* the runtime is cancelled, whether the script succeeded or not.          *)
LoopEnds ==
  /\ at = "polling"
  /\ ParentDone
  /\ parentError' = (parentTask # "ok")
  /\ Goto("cancelling", IF parentError' THEN "failure" ELSE "nothing")
  /\ Tombstone
  /\ UNCHANGED <<action, parentTask, listening, quiesced, finalized, closed,
                 consumed, runners>>

RuntimeStops ==
  /\ at = "cancelling"
  /\ Quiescent
  /\ quiesced' = TRUE
  /\ Goto("finalizing", raised)
  /\ UNCHANGED <<action, parentTask, listening, finalized, closed, parentError,
                 consumed, boxes, ledger>>

(* _finalize_artifact_events reads and removes the files of the children,  *)
(* or raises at one that resists.                                         *)
FilesRemoved == finalized' = TRUE

Finalize ==
  /\ at = "finalizing"
  /\ \/ FilesRemoved /\ Leave(raised)
     \/ UNCHANGED finalized /\ Leave("failure")
  /\ UNCHANGED <<action, parentTask, quiesced, closed, parentError, consumed,
                 boxes, ledger>>

(* The cleanup of serve_run ends, or fails to remove the socket or its     *)
(* directory; the failure replaces what was propagating.                   *)
RunCleaned ==
  /\ at = "leaving"
  /\ \E what \in {raised, "failure"} : Finally(what)
  /\ UNCHANGED <<action, listening, quiesced, finalized, closed, parentError,
                 consumed, runners>>

ParentKilled ==
  /\ at = "killing"
  /\ ParentDone
  /\ AfterKill(raised)
  /\ UNCHANGED <<action, parentTask, listening, quiesced, finalized, closed,
                 parentError, consumed, runners>>

RuntimeStopsLate ==
  /\ at = "cancellingLate"
  /\ Quiescent
  /\ FinalizeLate(raised)
  /\ UNCHANGED <<action, parentTask, listening, quiesced, finalized, closed,
                 parentError, consumed, boxes, ledger>>

CleanupFailsSilently(where) == \* mutant: every failure is only noted
  IF where = "closing" THEN End(raised) ELSE Goto("closing", raised)

(* A cleanup step failed.  The script's own error only gets a note of it;  *)
(* without one the failure ends the call, and the steps after it.          *)
CleanupFails(where) ==
  IF ~parentError THEN Goto("over", "failure")
  ELSE IF where = "closing" THEN End(raised)
  ELSE Goto("closing", raised)

FinalizedLate ==
  /\ at = "finalizingLate"
  /\ \/ FilesRemoved /\ Goto("closing", raised)
     \/ UNCHANGED finalized /\ CleanupFails(at)
  /\ UNCHANGED <<action, parentTask, listening, quiesced, closed, parentError,
                 consumed, boxes, ledger>>

(* aclose gives up on a handler that has outlived the grace period *)
AuthorityCloses ==
  /\ at = "closing"
  /\ \/ closed' = TRUE /\ End(raised)
     \/ /\ Mine \cap granted # {}
        /\ UNCHANGED closed
        /\ CleanupFails(at)
  /\ UNCHANGED <<action, parentTask, listening, quiesced, finalized,
                 parentError, consumed, boxes, ledger>>

CallNext ==
  \/ SocketOpens \/ SocketFails \/ LoopEnds \/ RuntimeStops \/ Finalize
  \/ RunCleaned \/ ParentKilled \/ RuntimeStopsLate \/ FinalizedLate
  \/ AuthorityCloses

(* The task of the turn is cancelled while the call waits.  Waits for the  *)
(* runtime, its files and the deleted parent swallow the cancellation, and *)
(* so does asyncio.wait_for (of Python 3.10) when an event of a child is   *)
(* there already; the cleanup of serve_run raises it when it is through.   *)
Struck ==
  /\ \/ at = "starting" /\ Leave("cancellation")
     \/ at = "polling" /\ Leave("cancellation")
     \/ at = "polling" /\ Mine \cap granted # {} /\ UNCHANGED script
     \/ at = "leaving" /\ Leave("cancellation")
     \/ at = "closing" /\ ~parentError /\ Goto("over", "cancellation")
                       /\ UNCHANGED listening
     \/ at = "closing" /\ parentError /\ End(raised) /\ UNCHANGED listening
     \/ /\ at \in {"cancelling", "finalizing", "killing", "cancellingLate",
                   "finalizingLate"}
        /\ UNCHANGED script
  /\ UNCHANGED <<action, parentTask, quiesced, finalized, closed, parentError,
                 consumed, boxes, ledger>>

-----------------------------------------------------------------------------
(* The disposable parent and the children *)

(* The parent's task ends: with proof that its container is gone, or with  *)
(* an error; once cancelled, with that proof or with the failure to get it.*)
ParentEnds ==
  /\ \/ parentTask = "running" /\ parentTask' \in {"ok", "failed"}
     \/ parentTask = "killed" /\ parentTask' \in {"stopped", "unclean"}
  /\ UNCHANGED <<at, action, listening, quiesced, finalized, closed,
                 parentError, raised, consumed, boxes, ledger>>

(* The script asks for a child and the runtime grants it tokens. *)
Spawn(c) ==
  /\ listening
  /\ c \in Mine
  /\ child[c] = "unborn"
  /\ Ledger!Grant(c)
  /\ held'[c] > 0
  /\ child' = [child EXCEPT ![c] = "allocating"]
  /\ spawner' = [spawner EXCEPT ![c] = "waiting"]
  /\ UNCHANGED <<script, consumed, box, refused, doomed>>

(* A charge is booked by the runtime and forwarded to the turn, which      *)
(* raises when it has less left.  Neither the runner nor the spawn call    *)
(* goes on before it is; SubAgentRuntime takes the two apart.              *)
Refuses(amount) == amount > Remaining

Charge(c, amount) ==
  /\ Ledger!Spend(c, amount)
  /\ \/ /\ ~Refuses(amount)
        /\ consumed' = consumed + amount
        /\ UNCHANGED refused
     \/ /\ Refuses(amount)
        /\ refused' = refused \cup {c}
        /\ UNCHANGED consumed

(* A child cancelled meanwhile waits for its container, to recycle it. *)
Allocated(c) ==
  /\ box' = [box EXCEPT ![c] = "held"]
  /\ child' = [child EXCEPT ![c] = IF c \in doomed THEN "closing" ELSE "running"]

(* The proxy has no container to give or cannot be reached, or its answer  *)
(* is lost or late: whether it granted one, which then nobody gives back,  *)
(* is not known.                                                           *)
AllocationFails(c) ==
  /\ box' = [box EXCEPT ![c] = "unknown"]
  /\ child' = [child EXCEPT ![c] = "ended"]

Allocates(c) ==
  /\ child[c] = "allocating"
  /\ Allocated(c) \/ AllocationFails(c)
  /\ UNCHANGED <<script, consumed, spawner, refused, doomed, ledger>>

(* One token from the child's model; refused, it ends the child's run. *)
Think(c) ==
  /\ child[c] = "running"
  /\ c \notin doomed
  /\ held[c] > 0
  /\ Charge(c, 1)
  /\ child' = IF Refuses(1) THEN [child EXCEPT ![c] = "closing"] ELSE child
  /\ UNCHANGED <<script, spawner, box, doomed>>

(* The child's run ends, by itself or cancelled. *)
RunEnds(c) ==
  /\ child[c] = "running"
  /\ child' = [child EXCEPT ![c] = "closing"]
  /\ UNCHANGED <<script, consumed, spawner, box, refused, doomed, ledger>>

(* The child's container is given back, if need be through cancellations,  *)
(* or the proxy refuses to recycle it or cannot be reached.  With that the *)
(* runner ends and is unlisted.                                            *)
Recycles(c) ==
  /\ child[c] = "closing"
  /\ \E b \in {"returned", "unreturned"} : box' = [box EXCEPT ![c] = b]
  /\ child' = [child EXCEPT ![c] = "ended"]
  /\ UNCHANGED <<script, consumed, spawner, refused, doomed, ledger>>

-----------------------------------------------------------------------------
(* The spawn_sub_agent calls, in tasks of their own *)

(* The wait of the call is over. *)
Settled(c) == spawner' = [spawner EXCEPT ![c] = "settled"]

(* The child is charged with all it holds.  An error of the turn leaves    *)
(* the call before its result is written.                                  *)
Forfeit(c) ==
  /\ Charge(c, held[c])
  /\ IF Refuses(held[c])
       THEN spawner' = [spawner EXCEPT ![c] = "torn"]
       ELSE Settled(c)

(* the deadline of the child *)
Deadline(c) ==
  /\ spawner[c] = "waiting"
  /\ c \in Alive \ doomed
  /\ Forfeit(c)
  /\ doomed' = IF Refuses(held[c]) THEN doomed ELSE doomed \cup {c}
  /\ UNCHANGED <<script, child, box>>

(* The call learns that its child was cancelled, or takes the result of    *)
(* the runner: what is left of a success is returned, a failure forfeits.  *)
Settles(c) ==
  /\ spawner[c] = "waiting"
  /\ \/ /\ c \in doomed
        /\ Settled(c)
        /\ UNCHANGED <<consumed, refused, ledger>>
     \/ /\ c \notin doomed
        /\ child[c] = "ended"
        /\ \/ /\ box[c] = "returned"
              /\ Settled(c)
              /\ Ledger!Return(c)
              /\ UNCHANGED <<consumed, refused>>
           \/ Forfeit(c)
  /\ UNCHANGED <<script, child, box, doomed>>

(* The result is written, or cannot be; it is pending no more. *)
Persists(c) ==
  /\ spawner[c] = "settled"
  /\ spawner' = [spawner EXCEPT ![c] = "done"]
  /\ UNCHANGED <<script, consumed, child, box, refused, doomed, ledger>>

(* The handler's timeout or the revocation of the run cancels a call.      *)
(* Waiting, it cancels the whole parent; past its wait, it is torn down.   *)
CallerCancelled(c) ==
  /\ c \in Mine
  /\ \/ spawner[c] = "waiting" /\ Tombstone /\ Settled(c)
     \/ /\ spawner[c] = "settled"
        /\ spawner' = [spawner EXCEPT ![c] = "torn"]
        /\ UNCHANGED <<doomed, ledger>>
  /\ UNCHANGED <<script, consumed, child, box, refused>>

ChildNext(c) ==
  \/ Spawn(c) \/ Allocates(c) \/ Think(c) \/ RunEnds(c) \/ Recycles(c)
  \/ Deadline(c) \/ Settles(c) \/ Persists(c) \/ CallerCancelled(c)

Environment == ParentEnds \/ \E c \in Children : ChildNext(c)

CallInit ==
  /\ at = "idle"
  /\ action = 0
  /\ parentTask = "none"
  /\ listening = FALSE
  /\ quiesced = FALSE
  /\ finalized = FALSE
  /\ closed = FALSE
  /\ parentError = FALSE
  /\ raised = "nothing"
  /\ consumed = 0
  /\ child = [c \in Children |-> "unborn"]
  /\ spawner = [c \in Children |-> "none"]
  /\ box = [c \in Children |-> "none"]
  /\ refused = {}
  /\ doomed = {}
  /\ Ledger!Init
=============================================================================
