-------------------------- MODULE SubAgentRuntime --------------------------
(***************************************************************************)
(* The lifecycle owner of temporary sub-agents:                            *)
(* backend/app/core/agent/subagents.py.                                    *)
(*                                                                         *)
(* A parent run registers with a token budget and spawns children.  Each   *)
(* child is two asyncio tasks: the spawn call that waits for it and the    *)
(* runner task that does its work.  They meet in the parent's accounting,  *)
(* in the process-wide slots and in the results written to disk, while the *)
(* deadline, a cancellation of the parent and a cancellation of the caller *)
(* may arrive between any two steps.                                       *)
(*                                                                         *)
(* One action is the code between two suspension points of one task.  The  *)
(* parent's asyncio.Lock is never held across an await, so taking it does  *)
(* not suspend and the locked regions are part of the action around them.  *)
(* Awaits wrapped in _await_authoritative_completion swallow every         *)
(* cancellation: a task in such an await has no cancellation action.       *)
(***************************************************************************)
EXTENDS Integers, FiniteSets

CONSTANTS
  Parents,      \* parent run ids
  Children,     \* run ids (uuid4) a spawn call may draw
  ParentOf,     \* the parent whose spawn call draws a run id
  MaxActive,    \* MAX_ACTIVE_SUB_AGENTS
  ChildBudget,  \* the child_budget the runtime is constructed with
  MaxBudget     \* bound: the largest budget a parent registers with

ASSUME ParentOfAssumption == ParentOf \in [Children -> Parents]
ASSUME ChildrenAssumption == IsFiniteSet(Children)
ASSUME LimitAssumption ==
  /\ MaxActive \in Nat
  /\ ChildBudget \in Nat \ {0}
  /\ MaxBudget \in Nat

ChildrenOf(p) == {c \in Children : ParentOf[c] = p}

VARIABLES
  (* One _ParentState per parent run. *)
  status,         \* "absent", "active" (valid) or "cancelled" (tombstoned)
  limit,          \* budget_limit
  consumed,       \* tokens charged to the parent
  reserved,       \* tokens set aside for its children
  pendingResults, \* spawn calls whose result is not settled yet
  activeChildren, \* children whose runner task has not terminated
  quiescent,      \* the quiescent event
  (* One _ChildState per child. *)
  budget,         \* budget_limit of the child
  spent,          \* consumed
  valid,
  terminal,       \* terminal_status: "none", "timeout" or "cancelled"
  (* The two tasks of a child. *)
  spawn,          \* where the spawn call is suspended
  callerCancelled,\* caller_cancelled_parent
  result,         \* status of the SubAgentResult
  tokens,         \* tokens_used of the SubAgentResult
  runner,         \* where the runner task is suspended
  outcome,        \* how the runner task ended
  cancelSent,     \* task.cancel() was called on the runner before it ended
  (* Shared by all runtimes of the process. *)
  slots,          \* _GLOBAL_ACTIVE_CHILDREN
  (* The ledger of the parent's turn, and charges on their way to it. *)
  turn,           \* _TurnBudget.consumed since the parent registered
  spawnOwes, runnerOwes,
  (* Cancellation of the parent by its owner, and its artifacts. *)
  canceller,      \* cancel_parent: "none", "waiting" or "done"
  finalizer,      \* finalize_parent_artifacts: "none", "removing", "done"
  files           \* children whose result file is on disk

parentVars == <<status, limit>>
ledger     == <<consumed, reserved, spent>>
grants     == <<budget>>
verdicts   == <<valid, terminal>>
settling   == <<pendingResults, quiescent>>
activity   == <<activeChildren, slots>>
results    == <<callerCancelled, result, tokens>>
owing      == <<turn, spawnOwes, runnerOwes>>
owners     == <<canceller, finalizer, files>>

vars == <<parentVars, ledger, grants, verdicts, settling, activity, spawn,
          results, runner, outcome, cancelSent, owing, owners>>

-----------------------------------------------------------------------------
(* Budget arithmetic *)

Smaller(a, b) == IF a <= b THEN a ELSE b

(* The tokens of the children in S, numbered within each child's grant,    *)
(* that lie above lo and not above hi.                                     *)
Tokens(S, lo, hi) ==
  {t \in S \X (1..ChildBudget) : lo[t[1]] < t[2] /\ t[2] <= hi[t[1]]}

HeldTokens(S) == Tokens(S, spent, budget)

Remaining(c) == budget[c] - spent[c]

AvailableUnreserved(p) == limit[p] - consumed[p] \* mutant: counts no grants

Available(p) == limit[p] - consumed[p] - reserved[p]

(* budget is charged and released only while a child is valid *)
Charged(c) ==
  /\ consumed' = [consumed EXCEPT ![ParentOf[c]] = @ + Remaining(c)]
  /\ reserved' = [reserved EXCEPT ![ParentOf[c]] = @ - Remaining(c)]
  /\ spent' = [spent EXCEPT ![c] = budget[c]]

ReleasedNothing(c) == UNCHANGED ledger \* mutant

Released(c) ==
  /\ reserved' = [reserved EXCEPT ![ParentOf[c]] = @ - Remaining(c)]
  /\ UNCHANGED <<consumed, spent>>

RunnerAlive(c) == runner[c] \notin {"none", "terminated"}
RunnerEnded(c) == runner[c] \in {"done", "terminated"}

CancelRunnersRunning(S) == \* mutant: skips a child still in its factory
  cancelSent' = [c \in Children |->
    cancelSent[c] \/ (c \in S /\ runner[c] = "running")]

CancelRunners(S) ==
  cancelSent' = [c \in Children |->
    cancelSent[c] \/ (c \in S /\ RunnerAlive(c) /\ ~RunnerEnded(c))]

(* Quiescence is raised by whoever leaves last. *)
RaiseOnLastResult(p, active, pending) == \* mutant: ignores stubborn runners
  quiescent' = [quiescent EXCEPT ![p] = @ \/ pending = 0]

RaiseQuiescence(p, active, pending) ==
  quiescent' = [quiescent EXCEPT ![p] = @ \/ (active = {} /\ pending = 0)]

Decide(c, verdict, used) ==
  /\ result' = [result EXCEPT ![c] = verdict]
  /\ tokens' = [tokens EXCEPT ![c] = used]

(* _terminal_signal_result *)
SignalStatus(t) == IF t = "timeout" THEN "timeout" ELSE "cancelled"

-----------------------------------------------------------------------------
(* Registering and spawning *)

RegisterParent(p) ==
  /\ status[p] = "absent"
  /\ \E b \in 1..MaxBudget : limit' = [limit EXCEPT ![p] = b]
  /\ status' = [status EXCEPT ![p] = "active"]
  /\ UNCHANGED <<ledger, grants, verdicts, settling, activity, spawn, results,
                 runner, outcome, cancelSent, owing, owners>>

MaySpawnOneMore(p) == \* mutant: off by one
  status[p] = "active" /\ Available(p) > 0 /\ Cardinality(slots) <= MaxActive

MaySpawnTombstoned(p) == \* mutant: does not ask whether the parent is valid
  Available(p) > 0 /\ Cardinality(slots) < MaxActive

(* the parent is valid, it has budget left, and a slot is free *)
MaySpawn(p) ==
  status[p] = "active" /\ Available(p) > 0 /\ Cardinality(slots) < MaxActive

(* _reserve_child: the grant is the child budget or all that is left *)
Reserve(c) ==
  LET p == ParentOf[c]
      g == Smaller(ChildBudget, Available(p))
  IN /\ spawn[c] = "idle"
     /\ MaySpawn(p)
     /\ budget' = [budget EXCEPT ![c] = g]
     /\ pendingResults' = [pendingResults EXCEPT ![p] = @ + 1]
     /\ quiescent' = [quiescent EXCEPT ![p] = FALSE]

Spawn(c) ==
  /\ Reserve(c)
  /\ reserved' = [reserved EXCEPT ![ParentOf[c]] =
                    @ + Smaller(ChildBudget, Available(ParentOf[c]))]
  /\ valid' = [valid EXCEPT ![c] = TRUE]
  /\ slots' = slots \cup {c}
  /\ activeChildren' = [activeChildren EXCEPT ![ParentOf[c]] = @ \cup {c}]
  /\ spawn' = [spawn EXCEPT ![c] = "waiting"]
  /\ runner' = [runner EXCEPT ![c] = "factory"]
  /\ UNCHANGED <<parentVars, consumed, spent, terminal, results, outcome,
                 cancelSent, owing, owners>>

(* asyncio.create_task raises: the reservation, the slot and the place     *)
(* among the active children are given back before anything is awaited.    *)
SpawnTaskFails(c) ==
  /\ Reserve(c)
  /\ Decide(c, "error", 0)
  /\ spawn' = [spawn EXCEPT ![c] = "persisting"]
  /\ UNCHANGED <<parentVars, ledger, verdicts, activity, callerCancelled,
                 runner, outcome, cancelSent, owing, owners>>

-----------------------------------------------------------------------------
(* The runner task *)

(* The task ends; nobody reads the outcome of a child that is terminal.    *)
End(c, how) ==
  /\ runner' = [runner EXCEPT ![c] = "done"]
  /\ outcome' = [outcome EXCEPT ![c] =
                   IF terminal[c] = "none" THEN how ELSE "unread"]
  /\ cancelSent' = [cancelSent EXCEPT ![c] = FALSE]

(* _assert_child_active stands between the factory and the runner; a       *)
(* cancellation is raised once the factory's thread is done.               *)
FactoryReturns(c) ==
  /\ runner[c] = "factory"
  /\ IF valid[c] /\ ~cancelSent[c]
       THEN /\ runner' = [runner EXCEPT ![c] = "running"]
            /\ UNCHANGED <<outcome, cancelSent>>
       ELSE End(c, IF cancelSent[c] THEN "cancelled" ELSE "raised")
  /\ UNCHANGED <<parentVars, ledger, grants, verdicts, settling, activity,
                 spawn, results, owing, owners>>

FactoryFails(c) ==
  /\ runner[c] = "factory"
  /\ End(c, "factoryError")
  /\ UNCHANGED <<parentVars, ledger, grants, verdicts, settling, activity,
                 spawn, results, owing, owners>>

ConsumeInvalid(c, amount) == amount <= Remaining(c) \* mutant

MayConsume(c, amount) == valid[c] /\ amount <= Remaining(c)

(* _consume_child_budget up to its await of the parent's budget consumer *)
Consume(c, amount) ==
  /\ runner[c] = "running"
  /\ MayConsume(c, amount)
  /\ reserved' = [reserved EXCEPT ![ParentOf[c]] = @ - amount]
  /\ consumed' = [consumed EXCEPT ![ParentOf[c]] = @ + amount]
  /\ spent' = [spent EXCEPT ![c] = @ + amount]
  /\ runnerOwes' = [runnerOwes EXCEPT ![c] = amount]
  /\ runner' = [runner EXCEPT ![c] = "charging"]
  /\ UNCHANGED <<parentVars, grants, verdicts, settling, activity, spawn,
                 results, outcome, cancelSent, turn, spawnOwes, owners>>

RunnerCharged(c) ==
  /\ runner[c] = "charging"
  /\ turn' = [turn EXCEPT ![ParentOf[c]] = @ + runnerOwes[c]]
  /\ runnerOwes' = [runnerOwes EXCEPT ![c] = 0]
  /\ runner' = [runner EXCEPT ![c] = "running"]
  /\ UNCHANGED <<parentVars, ledger, grants, verdicts, settling, activity,
                 spawn, results, outcome, cancelSent, spawnOwes, owners>>

(* A runner reports the tokens it consumed ("honest") or another number,   *)
(* raises, or leaves with CancelledError, of its own or because it was     *)
(* cancelled.  One that swallows its cancellation ends in any of these     *)
(* ways.                                                                   *)
RunnerEnds(c, how) ==
  /\ runner[c] = "running"
  /\ End(c, how)
  /\ UNCHANGED <<parentVars, ledger, grants, verdicts, settling, activity,
                 spawn, results, owing, owners>>

(* The done callback runs one turn of the event loop after the task ends. *)
RunnerFinished(c) ==
  LET p == ParentOf[c]
      left == activeChildren[p] \ {c}
  IN /\ runner[c] = "done"
     /\ runner' = [runner EXCEPT ![c] = "terminated"]
     /\ activeChildren' = [activeChildren EXCEPT ![p] = left]
     /\ slots' = slots \ {c}
     /\ RaiseQuiescence(p, left, pendingResults[p])
     /\ UNCHANGED <<parentVars, ledger, grants, verdicts, pendingResults,
                    spawn, results, outcome, cancelSent, owing, owners>>

-----------------------------------------------------------------------------
(* Cancelling a parent *)

(* _begin_parent_cancellation: children whose runner already terminated    *)
(* are no longer among activeChildren and are left as they are.            *)
BeginCancellation(p) ==
  LET ended == {c \in activeChildren[p] : valid[c]}
  IN /\ status' = [status EXCEPT ![p] = "cancelled"]
     /\ valid' = [c \in Children |-> valid[c] /\ c \notin ended]
     /\ terminal' = [c \in Children |->
                       IF c \in ended THEN "cancelled" ELSE terminal[c]]
     /\ reserved' = [reserved EXCEPT ![p] =
                       @ - Cardinality(HeldTokens(ended))]
     /\ CancelRunners(activeChildren[p])
     /\ UNCHANGED <<limit, consumed, spent>>

CancelParent(p) ==
  /\ status[p] # "absent"
  /\ canceller[p] = "none"
  /\ BeginCancellation(p)
  /\ canceller' = [canceller EXCEPT ![p] = "waiting"]
  /\ UNCHANGED <<grants, settling, activity, spawn, results, runner, outcome,
                 owing, finalizer, files>>

CancelParentReturns(p) ==
  /\ canceller[p] = "waiting"
  /\ quiescent[p]
  /\ canceller' = [canceller EXCEPT ![p] = "done"]
  /\ UNCHANGED <<parentVars, ledger, grants, verdicts, settling, activity,
                 spawn, results, runner, outcome, cancelSent, owing, finalizer,
                 files>>

(* The task that awaits spawn_sub_agent is cancelled.  While the spawn     *)
(* call waits for its child this turns into a cancellation of the parent;  *)
(* in the gather of the finally clause it escapes from the call, which     *)
(* then never settles its result.                                          *)
CallerCancelledWaiting(c) ==
  /\ spawn[c] = "waiting"
  /\ spawn' = [spawn EXCEPT ![c] = "cancelling"]
  /\ UNCHANGED <<parentVars, ledger, grants, verdicts, settling, activity,
                 results, runner, outcome, cancelSent, owing, owners>>

CallerCancelledDraining(c) ==
  /\ spawn[c] = "draining"
  /\ spawn' = [spawn EXCEPT ![c] = "aborted"]
  /\ UNCHANGED <<parentVars, ledger, grants, verdicts, settling, activity,
                 results, runner, outcome, cancelSent, owing, owners>>

(* the except CancelledError clause of spawn_sub_agent *)
CancelFromSpawn(c) ==
  /\ spawn[c] = "cancelling"
  /\ BeginCancellation(ParentOf[c])
  /\ callerCancelled' = [callerCancelled EXCEPT ![c] = TRUE]
  /\ Decide(c, SignalStatus(terminal'[c]), spent[c])
  /\ spawn' = [spawn EXCEPT ![c] = "draining"]
  /\ UNCHANGED <<grants, settling, activity, runner, outcome, owing, owners>>

-----------------------------------------------------------------------------
(* The spawn call after its wait *)

WakeTerminal(c) ==
  /\ spawn[c] = "waiting"
  /\ terminal[c] # "none"
  /\ Decide(c, SignalStatus(terminal[c]), spent[c])
  /\ spawn' = [spawn EXCEPT ![c] = "draining"]
  /\ UNCHANGED <<parentVars, ledger, grants, verdicts, settling, activity,
                 callerCancelled, runner, outcome, cancelSent, owing, owners>>

(* Invalidate the child, charge what it still holds to the parent, and     *)
(* suspend in the parent's budget consumer when there was anything left.   *)
TerminalizeUnforwarded(c, verdict) == \* mutant: charges the parent alone
  /\ valid' = [valid EXCEPT ![c] = FALSE]
  /\ Charged(c)
  /\ Decide(c, verdict, budget[c])
  /\ spawn' = [spawn EXCEPT ![c] = "draining"]
  /\ UNCHANGED spawnOwes

TerminalizeCharging(c, verdict) ==
  /\ valid' = [valid EXCEPT ![c] = FALSE]
  /\ Charged(c)
  /\ Decide(c, verdict, budget[c])
  /\ spawnOwes' = [spawnOwes EXCEPT ![c] = Remaining(c)]
  /\ spawn' = [spawn EXCEPT ![c] =
                 IF Remaining(c) > 0 THEN "charging" ELSE "draining"]

DeadlineMissedAnyway(c) == ~RunnerEnded(c) \* mutant: ignores a cancellation

DeadlineMissedRunning(c) == \* mutant: no deadline while the factory works
  terminal[c] = "none" /\ runner[c] = "running"

DeadlineMissed(c) == terminal[c] = "none" /\ ~RunnerEnded(c)

DeadlineExpires(c) ==
  /\ spawn[c] = "waiting"
  /\ DeadlineMissed(c)
  /\ terminal' = [terminal EXCEPT ![c] = "timeout"]
  /\ TerminalizeCharging(c, "timeout")
  /\ IF Remaining(c) > 0 THEN UNCHANGED cancelSent ELSE CancelRunners({c})
  /\ UNCHANGED <<parentVars, grants, settling, activity, callerCancelled,
                 runner, outcome, turn, runnerOwes, owners>>

(* The branches of _runner_result.  A runner that never streamed any       *)
(* tokens is an error however it reports.                                  *)
Streamed(c) == spent[c] > 0

Succeeded(c) == outcome[c] = "honest" /\ Streamed(c)

Uncharged(c) == \/ outcome[c] \in {"honest", "misreport"} /\ Streamed(c)
                \/ outcome[c] = "factoryError"

WakeFinished(c) ==
  /\ spawn[c] = "waiting"
  /\ terminal[c] = "none"
  /\ RunnerEnded(c)
  /\ outcome[c] # "cancelled"
  /\ IF Uncharged(c)
       THEN /\ valid' = [valid EXCEPT ![c] = FALSE]
            /\ Released(c)
            /\ Decide(c, IF Succeeded(c) THEN "success" ELSE "error", spent[c])
            /\ spawn' = [spawn EXCEPT ![c] = "draining"]
            /\ UNCHANGED spawnOwes
       ELSE TerminalizeCharging(c, "error")
  /\ UNCHANGED <<parentVars, grants, terminal, settling, activity,
                 callerCancelled, runner, outcome, cancelSent, turn,
                 runnerOwes, owners>>

(* runner_task.result() raises CancelledError, which except Exception does *)
(* not catch                                                               *)
WakeFinishedCancelled(c) ==
  /\ spawn[c] = "waiting"
  /\ terminal[c] = "none"
  /\ RunnerEnded(c)
  /\ outcome[c] = "cancelled"
  /\ spawn' = [spawn EXCEPT ![c] = "cancelling"]
  /\ UNCHANGED <<parentVars, ledger, grants, verdicts, settling, activity,
                 results, runner, outcome, cancelSent, owing, owners>>

(* The turn ledger has the terminal charge; only now is the runner of a    *)
(* child that ran into its deadline cancelled.                             *)
SpawnCharged(c) ==
  /\ spawn[c] = "charging"
  /\ turn' = [turn EXCEPT ![ParentOf[c]] = @ + spawnOwes[c]]
  /\ spawnOwes' = [spawnOwes EXCEPT ![c] = 0]
  /\ CancelRunners(IF result[c] = "timeout" THEN {c} ELSE {})
  /\ spawn' = [spawn EXCEPT ![c] = "draining"]
  /\ UNCHANGED <<parentVars, ledger, grants, verdicts, settling, activity,
                 results, runner, outcome, runnerOwes, owners>>

(* The gather completes and _persist_result writes the result in a thread, *)
(* out of reach of cancellations; it may fail before the final rename.     *)
WriteResult(c) ==
  /\ spawn[c] \in {"draining", "persisting"}
  /\ files' \in {files, files \cup {c}}
  /\ spawn' = [spawn EXCEPT ![c] = "settling"]
  /\ UNCHANGED <<parentVars, ledger, grants, verdicts, settling, activity,
                 results, runner, outcome, cancelSent, owing, canceller,
                 finalizer>>

SettleResult(c) ==
  LET p == ParentOf[c]
  IN /\ spawn[c] = "settling"
     /\ pendingResults' = [pendingResults EXCEPT ![p] = @ - 1]
     /\ RaiseQuiescence(p, activeChildren[p], pendingResults[p] - 1)
     /\ spawn' = [spawn EXCEPT ![c] =
                    IF callerCancelled[c] THEN "quiescing" ELSE "returned"]
     /\ UNCHANGED <<parentVars, ledger, grants, verdicts, activity, results,
                    runner, outcome, cancelSent, owing, owners>>

SpawnQuiesced(c) ==
  /\ spawn[c] = "quiescing"
  /\ quiescent[ParentOf[c]]
  /\ spawn' = [spawn EXCEPT ![c] = "returned"]
  /\ UNCHANGED <<parentVars, ledger, grants, verdicts, settling, activity,
                 results, runner, outcome, cancelSent, owing, owners>>

-----------------------------------------------------------------------------
(* finalize_parent_artifacts: refused while the parent is valid, waits for *)
(* quiescence, then reads and removes the results in a thread.             *)
MayFinalizeAtOnce(p) == status[p] = "cancelled" \* mutant: does not wait

MayFinalize(p) == status[p] = "cancelled" /\ quiescent[p]

FinalizeStarts(p) ==
  /\ MayFinalize(p)
  /\ finalizer[p] = "none"
  /\ finalizer' = [finalizer EXCEPT ![p] = "removing"]
  /\ UNCHANGED <<parentVars, ledger, grants, verdicts, settling, activity,
                 spawn, results, runner, outcome, cancelSent, owing, canceller,
                 files>>

FinalizeRemoves(p) ==
  /\ finalizer[p] = "removing"
  /\ finalizer' = [finalizer EXCEPT ![p] = "done"]
  /\ files' = files \ ChildrenOf(p)
  /\ UNCHANGED <<parentVars, ledger, grants, verdicts, settling, activity,
                 spawn, results, runner, outcome, cancelSent, owing, canceller>>

(* A result that cannot be read, or an entry that cannot be removed, ends  *)
(* it early; it may be called again.                                       *)
FinalizeFails(p) ==
  /\ finalizer[p] = "removing"
  /\ finalizer' = [finalizer EXCEPT ![p] = "none"]
  /\ \E S \in SUBSET ChildrenOf(p) : files' = files \ S
  /\ UNCHANGED <<parentVars, ledger, grants, verdicts, settling, activity,
                 spawn, results, runner, outcome, cancelSent, owing, canceller>>

-----------------------------------------------------------------------------
Init ==
  /\ status = [p \in Parents |-> "absent"]
  /\ limit = [p \in Parents |-> 0]
  /\ consumed = [p \in Parents |-> 0]
  /\ reserved = [p \in Parents |-> 0]
  /\ pendingResults = [p \in Parents |-> 0]
  /\ activeChildren = [p \in Parents |-> {}]
  /\ quiescent = [p \in Parents |-> TRUE]
  /\ budget = [c \in Children |-> 0]
  /\ spent = [c \in Children |-> 0]
  /\ valid = [c \in Children |-> FALSE]
  /\ terminal = [c \in Children |-> "none"]
  /\ spawn = [c \in Children |-> "idle"]
  /\ callerCancelled = [c \in Children |-> FALSE]
  /\ result = [c \in Children |-> "none"]
  /\ tokens = [c \in Children |-> 0]
  /\ runner = [c \in Children |-> "none"]
  /\ outcome = [c \in Children |-> "none"]
  /\ cancelSent = [c \in Children |-> FALSE]
  /\ slots = {}
  /\ turn = [p \in Parents |-> 0]
  /\ spawnOwes = [c \in Children |-> 0]
  /\ runnerOwes = [c \in Children |-> 0]
  /\ canceller = [p \in Parents |-> "none"]
  /\ finalizer = [p \in Parents |-> "none"]
  /\ files = {}

(* What the event loop does by itself: finished awaits are resumed and the *)
(* deadline timer fires.                                                   *)
SpawnResumes(c) ==
  \/ WakeTerminal(c)
  \/ DeadlineExpires(c)
  \/ WakeFinished(c)
  \/ WakeFinishedCancelled(c)
  \/ CancelFromSpawn(c)
  \/ SpawnCharged(c)
  \/ WriteResult(c)
  \/ SettleResult(c)
  \/ SpawnQuiesced(c)

RunnerEnding(c) ==
  \/ FactoryReturns(c)
  \/ FactoryFails(c)
  \/ \E how \in {"honest", "misreport", "raised", "cancelled"} :
       RunnerEnds(c, how)

RunnerResumes(c) == RunnerCharged(c) \/ RunnerFinished(c)

ChildNext(c) ==
  \/ Spawn(c)
  \/ SpawnTaskFails(c)
  \/ CallerCancelledWaiting(c)
  \/ CallerCancelledDraining(c)
  \/ SpawnResumes(c)
  \/ RunnerEnding(c)
  \/ RunnerResumes(c)
  \/ \E amount \in 1..ChildBudget : Consume(c, amount)

ParentNext(p) ==
  \/ RegisterParent(p)
  \/ CancelParent(p)
  \/ CancelParentReturns(p)
  \/ FinalizeStarts(p)
  \/ FinalizeRemoves(p)
  \/ FinalizeFails(p)

Next == (\E c \in Children : ChildNext(c)) \/ (\E p \in Parents : ParentNext(p))

Spec == Init /\ [][Next]_vars

(* The event loop resumes every task that can run, and the deadline timer  *)
(* fires.  A runner need not end by itself; once cancelled it does, since  *)
(* runners are cooperative (SubAgentRunner): one that lost the             *)
(* cancellation to the await of its budget consumer is refused its next    *)
(* charge.  Nothing obliges anyone to spawn, to cancel or to finalize.     *)
Fairness ==
  /\ \A c \in Children : /\ WF_vars(SpawnResumes(c))
                         /\ WF_vars(cancelSent[c] /\ RunnerEnding(c))
                         /\ WF_vars(RunnerResumes(c))
  /\ \A p \in Parents : /\ WF_vars(CancelParentReturns(p))
                        /\ WF_vars(FinalizeRemoves(p) \/ FinalizeFails(p))

FairSpec == Spec /\ Fairness

-----------------------------------------------------------------------------
(* Invariants *)

SpawnStates ==
  {"idle", "waiting", "cancelling", "charging", "draining", "persisting",
   "settling", "quiescing", "returned", "aborted"}

ParentTypes ==
  /\ status \in [Parents -> {"absent", "active", "cancelled"}]
  /\ limit \in [Parents -> 0..MaxBudget]
  /\ activeChildren \in [Parents -> SUBSET Children]
  /\ quiescent \in [Parents -> BOOLEAN]
  /\ canceller \in [Parents -> {"none", "waiting", "done"}]
  /\ finalizer \in [Parents -> {"none", "removing", "done"}]

CounterTypes ==
  /\ consumed \in [Parents -> Nat]
  /\ reserved \in [Parents -> Nat]
  /\ pendingResults \in [Parents -> Nat]
  /\ turn \in [Parents -> Nat]

ChildTypes ==
  /\ budget \in [Children -> 0..ChildBudget]
  /\ spent \in [Children -> 0..ChildBudget]
  /\ valid \in [Children -> BOOLEAN]
  /\ terminal \in [Children -> {"none", "timeout", "cancelled"}]
  /\ spawnOwes \in [Children -> 0..ChildBudget]
  /\ runnerOwes \in [Children -> 0..ChildBudget]
  /\ tokens \in [Children -> 0..ChildBudget]

TaskTypes ==
  /\ spawn \in [Children -> SpawnStates]
  /\ callerCancelled \in [Children -> BOOLEAN]
  /\ result \in [Children ->
                   {"none", "success", "timeout", "error", "cancelled"}]
  /\ runner \in [Children -> {"none", "factory", "running", "charging",
                              "done", "terminated"}]
  /\ outcome \in [Children -> {"none", "honest", "misreport", "raised",
                               "factoryError", "cancelled", "unread"}]
  /\ cancelSent \in [Children -> BOOLEAN]
  /\ slots \in SUBSET Children
  /\ files \in SUBSET Children

(* Type correctness; that the counters stay natural numbers says that no   *)
(* reservation and no pending result is given back twice.                  *)
TypeOK == ParentTypes /\ CounterTypes /\ ChildTypes /\ TaskTypes

(* The parent's shared budget is never over-committed: what children       *)
(* consumed and what is set aside for them never exceeds the budget it     *)
(* registered with, however spends, deadlines, failures and cancellations  *)
(* interleave.                                                             *)
BudgetConserved == \A p \in Parents : consumed[p] + reserved[p] <= limit[p]

(* The reserved counter is exactly the tokens the valid children of the    *)
(* parent still hold: no terminal path releases a reservation twice, or    *)
(* loses one without charging it.                                          *)
Holders(p) == {c \in ChildrenOf(p) : valid[c]}

ReservationExact ==
  \A p \in Parents : reserved[p] = Cardinality(HeldTokens(Holders(p)))

(* The turn's ledger is charged late, by whichever task made the charge,   *)
(* yet each charge reaches it once: it is behind the parent's account by   *)
(* exactly the charges under way, so the consumer that would reject a      *)
(* charge (and lose a result with it) never has a reason to.               *)
Nothing == [c \in Children |-> 0]

OwedTokens(p, owes) == Tokens(ChildrenOf(p), Nothing, owes)

TurnLedgerExact ==
  \A p \in Parents :
    consumed[p] = turn[p] + Cardinality(OwedTokens(p, spawnOwes))
                          + Cardinality(OwedTokens(p, runnerOwes))

(* The process-wide slots bound the runners that really run: a child that  *)
(* timed out or was cancelled keeps its slot until its runner terminates,  *)
(* and the parent's active children are the ones holding slots.            *)
SlotsHeld ==
  /\ Cardinality(slots) <= MaxActive
  /\ slots = {c \in Children : RunnerAlive(c)}
  /\ \A p \in Parents : activeChildren[p] = slots \cap ChildrenOf(p)

(* Quiescence is raised exactly when the last runner has terminated and    *)
(* the last spawn call has settled its result, in whichever order they do. *)
Unsettled(p) ==
  {c \in ChildrenOf(p) :
     spawn[c] \notin {"idle", "quiescing", "returned"}}

QuiescenceExact ==
  \A p \in Parents :
    /\ pendingResults[p] = Cardinality(Unsettled(p))
    /\ quiescent[p] = (activeChildren[p] = {} /\ pendingResults[p] = 0)

(* Once finalize_parent_artifacts has begun, no late writer is left that   *)
(* could put a result back: the parent's run directory stays removed.      *)
FinalizedStaysEmpty ==
  \A p \in Parents : finalizer[p] # "none" =>
    /\ \A c \in ChildrenOf(p) :
         spawn[c] \notin {"waiting", "draining", "persisting"}
    /\ finalizer[p] = "done" => files \cap ChildrenOf(p) = {}

(* The result a caller gets agrees with the accounts for good: it reports  *)
(* the tokens its child was charged in the end, a timeout pays the whole   *)
(* grant, and only a runner that streamed and reported its tokens          *)
(* truthfully succeeds.                                                    *)
ResultExact ==
  \A c \in Children : result[c] # "none" =>
    /\ tokens[c] = spent[c]
    /\ result[c] = "timeout" => spent[c] = budget[c]
    /\ result[c] = "success" => Succeeded(c) /\ terminal[c] = "none"

(* The strengthening that makes the invariants above inductive. *)

(* How a child's ledger, verdict and tasks go together. *)
Coherent ==
  \A c \in Children :
    /\ spent[c] <= budget[c]
    /\ spawn[c] = "idle" =>
         /\ ~valid[c] /\ terminal[c] = "none"
         /\ spent[c] = 0 /\ runner[c] = "none"
    /\ spawn[c] = "waiting" => valid[c] \/ terminal[c] # "none"
    /\ valid[c] => terminal[c] = "none"

FinalizedIsQuiescent ==
  \A p \in Parents : finalizer[p] # "none" =>
    /\ status[p] = "cancelled" /\ quiescent[p]
    /\ finalizer[p] = "done" => files \cap ChildrenOf(p) = {}

(* A parent has no budget before it registers. *)
AbsentIsBlank == \A p \in Parents : status[p] = "absent" => limit[p] = 0

(* A cancellation reaches every runner that has not terminated. *)
CancelledIsInvalid ==
  \A c \in Children :
    status[ParentOf[c]] = "cancelled" /\ RunnerAlive(c) => ~valid[c]

IInv ==
  /\ TypeOK /\ BudgetConserved /\ ReservationExact
  /\ SlotsHeld /\ QuiescenceExact /\ Coherent
  /\ FinalizedIsQuiescent /\ AbsentIsBlank /\ CancelledIsInvalid

(* What makes the ledger of the turn and the results inductive, too. *)

(* A charge is under way only while its task is in the budget consumer. *)
OwedWhileCharging ==
  \A c \in Children :
    /\ spawnOwes[c] # 0 => spawn[c] = "charging"
    /\ runnerOwes[c] # 0 => runner[c] = "charging"

(* The consumption of a parent is what its children were charged. *)
ConsumptionExact ==
  \A p \in Parents :
    consumed[p] = Cardinality(Tokens(ChildrenOf(p), Nothing, spent))

(* Tokens are granted by the spawn call, of a parent that registered. *)
SpawnedIsGranted ==
  \A c \in Children :
    IF spawn[c] = "idle" THEN budget[c] = 0 ELSE status[ParentOf[c]] # "absent"

(* No task is left that could charge a child whose result is decided. *)
DecidedIsSettled ==
  \A c \in Children :
    /\ terminal[c] = "timeout" => spent[c] = budget[c]
    /\ result[c] # "none" =>
         /\ spawn[c] \notin {"idle", "waiting", "cancelling"}
         /\ valid[c] => ~RunnerAlive(c)
    /\ result[c] = "success" => RunnerEnded(c) /\ ~valid[c]

BooksInv ==
  /\ IInv
  /\ TurnLedgerExact /\ ConsumptionExact /\ ResultExact
  /\ OwedWhileCharging /\ SpawnedIsGranted /\ DecidedIsSettled

(* The counters and flags of the runtime implement the accounts of         *)
(* BudgetLedger: every grant, spend, penalty, release and cancellation is  *)
(* one step of it on the tokens of the valid children, or leaves it alone. *)
AccountState ==
  [p \in Parents |-> CASE status[p] = "absent" -> "absent"
                      [] status[p] = "active" -> "open"
                      [] status[p] = "cancelled" -> "closed"]

HeldBy(c) == IF valid[c] THEN Remaining(c) ELSE 0

Ledger == INSTANCE BudgetLedger WITH
  account <- AccountState,
  funds   <- limit,
  charged <- spent,
  held    <- [c \in Children |-> HeldBy(c)],
  granted <- {c \in Children : budget[c] > 0}

LedgerSpec == Ledger!Spec

(* Action properties *)

(* Cancelling a parent is authoritative: from then on none of its runners  *)
(* spends, even one that swallows its cancellation, and no child is added. *)
CancelStopsSpending ==
  [][\A c \in Children : status[ParentOf[c]] = "cancelled" =>
       /\ RunnerAlive(c) => spent'[c] = spent[c]
       /\ budget'[c] = budget[c]]_vars

(* The deadline and a cancellation both terminalize a child; the first one *)
(* wins and the account of the child is closed with it.                    *)
TerminalIsFinal ==
  [][\A c \in Children : terminal[c] # "none" =>
       terminal'[c] = terminal[c] /\ spent'[c] = spent[c] /\ ~valid'[c]]_vars

(* Liveness, under FairSpec *)

SomeAborted(p) == \E c \in ChildrenOf(p) : spawn[c] = "aborted"

(* A cancelled parent becomes quiescent, unless a spawn call of its was    *)
(* torn down in its finally clause before it settled its result.           *)
CancelQuiesces ==
  \A p \in Parents :
    status[p] = "cancelled" ~> (quiescent[p] \/ SomeAborted(p))

(* Every spawn call ends, with a result or, if the result could not be     *)
(* written, by raising: the deadline bounds the wait and no sibling can    *)
(* block it, with the same exception.                                      *)
SpawnReturns ==
  \A c \in Children :
    spawn[c] = "waiting" ~> (spawn[c] = "returned" \/ SomeAborted(ParentOf[c]))

(* Not kept by the code (README, section 7).                               *)
(* What the tests say of every cancellation: the reservation of a parent   *)
(* that was cancelled and is quiescent is released in full                 *)
(* (tests/test_subagents.py:1015).                                         *)
CancelledHoldsNothing ==
  \A p \in Parents :
    status[p] = "cancelled" /\ quiescent[p] => reserved[p] = 0

(* Cancelling a parent waits for its runners and results and then returns  *)
(* (cancel_parent); repeated cancellation of a caller cannot interrupt the *)
(* cleanup (tests/test_subagents.py:1108).                                 *)
CancelReturns ==
  \A p \in Parents : canceller[p] = "waiting" ~> canceller[p] = "done"
=============================================================================
