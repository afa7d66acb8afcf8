----------------------------- MODULE AgentTurn -----------------------------
(***************************************************************************)
(* One turn of the agent: the ReAct loop of run_agent                      *)
(* (backend/app/core/agent/engine.py) in the task that                     *)
(* build_chat_stream_response starts for it and cancels when the client    *)
(* disconnects, with the code_as_action calls of CodeAsAction in it.       *)
(*                                                                         *)
(* The turn and all children of its actions spend from one budget.  The    *)
(* loop suspends while it reads the model's stream and while a tool runs;  *)
(* between two calls of a batch it does not, and cannot be cancelled.      *)
(***************************************************************************)
EXTENDS CodeAsAction, Sequences

CONSTANTS
  MaxIterations, \* MAX_ITERATIONS
  MaxErrors,     \* MAX_CONSECUTIVE_ERRORS
  MaxCalls,      \* bound: the tool calls of one answer
  MaxCancels     \* bound: the cancellations of the turn's task

ASSUME LoopAssumption ==
  /\ MaxIterations \in Nat /\ MaxErrors \in Nat
  /\ MaxCalls \in Nat /\ MaxCancels \in Nat

VARIABLES
  pc,        \* "batch", "model", "tool", "script" or "over"
  iteration, \* the iterations begun
  errors,    \* consecutive_errors
  calls,     \* the calls of tool_calls_buffer still to come
  cancels,   \* how often the task was cancelled
  outcome    \* how the turn ended

loop == <<pc, iteration, errors, calls, outcome>>
vars == <<loop, cancels, actionVars>>

(* What the loop makes of a call: an unauthorized name or invalid          *)
(* arguments, a tool to be confirmed first, code_as_action, another tool.  *)
Kinds == {"rejected", "destructive", "script", "other"}

Scripts(batch) == Cardinality({n \in DOMAIN batch : batch[n] = "script"})

(* The calls of one answer; a turn has no more scripts than Actions. *)
Batches ==
  {b \in UNION {[1..n -> Kinds] : n \in 0..MaxCalls} :
     \A a \in 1..Scripts(b) : action + a \in Actions}

Over(how) == pc' = "over" /\ outcome' = how

-----------------------------------------------------------------------------
(* The loop *)

(* Out of the loop when the budget is spent, the breaker is open or the    *)
(* iterations are used up; else the model is called.                       *)
Exhausted ==
  \/ consumed >= MaxTokens
  \/ errors >= MaxErrors
  \/ iteration >= MaxIterations

NextIteration ==
  /\ pc = "batch"
  /\ calls = << >>
  /\ IF Exhausted
       THEN Over("done") /\ UNCHANGED iteration
       ELSE /\ pc' = "model"
            /\ iteration' = iteration + 1
            /\ UNCHANGED outcome
  /\ UNCHANGED <<errors, calls, cancels, actionVars>>

(* The stream ends after n deltas, a token each, with a batch of calls or  *)
(* none.                                                                   *)
Answers ==
  /\ pc = "model"
  /\ \E b \in Batches, n \in 0..MaxCalls :
       /\ n >= Len(b) /\ n <= Remaining
       /\ consumed' = consumed + n
       /\ calls' = b
       /\ IF b = << >> THEN Over("done") ELSE pc' = "batch" /\ UNCHANGED outcome
  /\ UNCHANGED <<iteration, errors, cancels, script, boxes, ledger>>

(* The gateway fails, or a delta exceeds the turn's budget: the exception  *)
(* ends the turn.                                                          *)
StreamFails ==
  /\ pc = "model"
  /\ \E n \in 0..MaxCalls : n <= Remaining /\ consumed' = consumed + n
  /\ Over("failed")
  /\ UNCHANGED <<iteration, errors, calls, cancels, script, boxes, ledger>>

(* The first of the calls left is taken. *)
Take(kind) ==
  /\ pc = "batch"
  /\ calls # << >>
  /\ Head(calls) = kind
  /\ calls' = Tail(calls)
  /\ UNCHANGED <<iteration, cancels>>

Reject ==
  /\ Take("rejected")
  /\ errors' = errors + 1
  /\ UNCHANGED <<pc, outcome, actionVars>>

(* The rest of the batch is dropped; the user is asked. *)
AskUser ==
  /\ Take("destructive")
  /\ Over("confirm")
  /\ UNCHANGED <<errors, actionVars>>

StartTool ==
  /\ Take("other")
  /\ pc' = "tool"
  /\ UNCHANGED <<errors, outcome, actionVars>>

StartScript ==
  /\ Take("script")
  /\ Begin
  /\ pc' = "script"
  /\ UNCHANGED <<errors, outcome>>

ToolReturns ==
  /\ pc = "tool"
  /\ errors' \in {0, errors + 1}
  /\ pc' = "batch"
  /\ UNCHANGED <<iteration, calls, cancels, outcome, actionVars>>

(* stream_code_as_action is through: a result, a tool error, or the end of *)
(* the cancelled turn.                                                     *)
ScriptReturns ==
  /\ pc = "script"
  /\ at = "over"
  /\ IF raised = "cancellation"
       THEN Over("cancelled") /\ UNCHANGED errors
       ELSE /\ errors' = IF raised = "nothing" THEN 0 ELSE errors + 1
            /\ pc' = "batch"
            /\ UNCHANGED outcome
  /\ UNCHANGED <<iteration, calls, cancels, actionVars>>

LoopNext ==
  \/ NextIteration \/ Answers \/ StreamFails \/ Reject \/ AskUser
  \/ StartTool \/ StartScript \/ ToolReturns \/ ScriptReturns

(* generate() finds the client gone and cancels the turn's task; the       *)
(* server may cancel it again while generate() waits for it.               *)
Cancel ==
  /\ cancels < MaxCancels
  /\ cancels' = cancels + 1
  /\ \/ /\ pc \in {"model", "tool"}
        /\ Over("cancelled")
        /\ UNCHANGED <<iteration, errors, calls, actionVars>>
     \/ /\ pc = "script"
        /\ at # "over"
        /\ Struck
        /\ UNCHANGED loop

-----------------------------------------------------------------------------

Init ==
  /\ pc = "batch"
  /\ iteration = 0
  /\ errors = 0
  /\ calls = << >>
  /\ cancels = 0
  /\ outcome = "none"
  /\ CallInit

Next ==
  \/ LoopNext
  \/ Cancel
  \/ (CallNext \/ Environment) /\ UNCHANGED <<loop, cancels>>

Spec == Init /\ [][Next]_vars

(* What brings a child to its end. *)
ChildEnds(c) ==
  \/ Allocates(c)
  \/ c \in doomed /\ RunEnds(c)
  \/ Recycles(c) \/ Deadline(c) \/ Settles(c) \/ Persists(c)

(* A call runs on when it can; its parent, its containers and the writing  *)
(* of results come to an end, being bounded by timeouts, and so does a     *)
(* cancelled child, which the deadline makes of a slow one.  Nothing else  *)
(* is bounded: no model, no tool, and nobody has to spawn or to cancel.    *)
Fairness ==
  /\ WF_vars(ScriptReturns)
  /\ WF_vars(CallNext /\ UNCHANGED <<loop, cancels>>)
  /\ WF_vars(ParentEnds /\ UNCHANGED <<loop, cancels>>)
  /\ \A c \in Children :
       WF_vars(ChildEnds(c) /\ UNCHANGED <<loop, cancels>>)

FairSpec == Spec /\ Fairness

-----------------------------------------------------------------------------
(* Types *)

LoopTypes ==
  /\ pc \in {"batch", "model", "tool", "script", "over"}
  /\ iteration \in 0..MaxIterations
  /\ errors \in Nat
  /\ calls \in Seq(Kinds)
  /\ cancels \in 0..MaxCancels
  /\ outcome \in {"none", "done", "confirm", "failed", "cancelled"}

CallTypes ==
  /\ at \in {"idle", "starting", "polling", "cancelling", "finalizing",
             "leaving", "killing", "cancellingLate", "finalizingLate",
             "closing", "over"}
  /\ action \in Actions \cup {0}
  /\ parentTask \in {"none", "running", "killed", "ok", "failed", "stopped",
                     "unclean"}
  /\ listening \in BOOLEAN /\ quiesced \in BOOLEAN /\ finalized \in BOOLEAN
  /\ closed \in BOOLEAN /\ parentError \in BOOLEAN
  /\ raised \in {"nothing", "failure", "cancellation"}

BoxTypes ==
  /\ child \in [Children -> {"unborn", "allocating", "running", "closing",
                             "ended"}]
  /\ spawner \in [Children -> {"none", "waiting", "settled", "done", "torn"}]
  /\ box \in [Children -> {"none", "unknown", "held", "returned",
                         "unreturned"}]
  /\ refused \subseteq Children
  /\ doomed \subseteq Children

AccountTypes ==
  /\ consumed \in Nat
  /\ account \in [Actions -> {"absent", "open", "closed"}]
  /\ funds \in [Actions -> Nat]
  /\ charged \in [Children -> Nat] /\ held \in [Children -> Nat]
  /\ granted \subseteq Children

(* Every variable has its type. *)
TypeOK == LoopTypes /\ CallTypes /\ BoxTypes /\ AccountTypes

-----------------------------------------------------------------------------
(* Safety *)

(* Nothing of an action outlives its call: when the loop is back, whatever *)
(* way the call ended, the parent's task is done, no socket is open, no    *)
(* child runs or may be spawned, no result is still to be written (it      *)
(* would come after the removal of the files), and no child has ended with *)
(* a container it knew of and did not try to give back.                    *)
NothingOutlivesAction ==
  pc # "script" =>
    /\ parentTask \notin {"running", "killed"}
    /\ ~listening
    /\ Alive = {} /\ Pending = {}
    /\ \A c \in Children : box[c] # "held"
    /\ \A a \in Actions : account[a] # "open"

(* The turn never refuses a charge that the runtime of an action forwards  *)
(* to it: the error would leave the spawn call before its result is        *)
(* written, and the turn would wait for that result for ever.  It cannot   *)
(* because what the children of an action are granted, keep, return and    *)
(* forfeit always fits into what the turn had left when the action began.  *)
ChargesAccepted == refused = {}

(* A script whose result is given to the model without an error left       *)
(* nothing behind: its container is gone, its runtime quiet, its files     *)
(* removed and its authority closed.                                       *)
SuccessIsClean ==
  at = "over" /\ raised = "nothing" =>
    parentTask = "ok" /\ quiesced /\ finalized /\ closed

(* The strengthening that makes the invariants above inductive. *)

(* What may still be going on depends on how far the call has come. *)
Located ==
  /\ pc # "script" => at \in {"idle", "over"}
  /\ listening => at \in {"polling", "cancelling", "finalizing"}
  /\ parentTask = "running" => at \in {"polling", "leaving"}
  /\ parentTask = "killed" => at = "killing"
  /\ Alive \cup Pending # {} =>
       /\ at \in {"starting", "polling", "cancelling", "leaving", "killing",
                  "cancellingLate"}
       /\ ~quiesced
  /\ \A a \in Actions : account[a] = "open" =>
       /\ a = action /\ ~quiesced
       /\ at \in {"starting", "polling", "leaving", "killing"}

(* A child lives during its own action only, and one that may still be     *)
(* charged has a spawn call that waits for it.                             *)
ChildrenInTurn ==
  \A c \in Children :
    /\ c \in Alive \cup Pending => ParentOf[c] = action
    /\ c \in Alive /\ held[c] # 0 => spawner[c] = "waiting"
    /\ c \in doomed => held[c] = 0
    /\ box[c] = "held" => child[c] \in {"running", "closing"}
    /\ charged[c] + held[c] <= ChildBudget
    /\ c \notin granted => /\ charged[c] = 0 /\ held[c] = 0
                           /\ c \notin Alive \cup Pending \cup doomed
    /\ account[ParentOf[c]] = "absent" => c \notin granted

(* What children may still be charged with and the open account may still  *)
(* grant is covered by what the turn has left.                             *)
Chargeable == [c \in Children |-> IF spawner[c] = "waiting" THEN held[c] ELSE 0]

HeldTokens == {t \in Children \X (1..ChildBudget) : t[2] <= Chargeable[t[1]]}

BudgetCovered ==
  /\ consumed + Cardinality(HeldTokens) <= MaxTokens
  /\ \A a \in Actions : account[a] = "open" =>
       consumed + Cardinality(HeldTokens) + Ledger!Free(a) <= MaxTokens

(* A call with nothing to report has left behind what it came through. *)
SucceedingIsClean ==
  /\ parentError => raised # "nothing"
  /\ raised = "nothing" =>
       /\ at \notin {"killing", "cancellingLate", "finalizingLate"}
       /\ at \in {"cancelling", "finalizing", "leaving", "closing", "over"} =>
            parentTask = "ok"
       /\ at \in {"finalizing", "leaving", "closing", "over"} => quiesced
       /\ at \in {"leaving", "closing", "over"} => finalized
       /\ at = "over" => closed

IInv ==
  /\ TypeOK
  /\ Located /\ ChildrenInTurn /\ BudgetCovered /\ SucceedingIsClean
  /\ ChargesAccepted

(* Every code_as_action call ends, whatever is cancelled and whatever of   *)
(* its cleanup fails, except where one of its spawn calls was torn down.   *)
ScriptEnds == pc = "script" ~> pc # "script" \/ \E c \in Children : spawner[c] = "torn"

(* Not kept by the code (README, section 7).                               *)
(* A cancelled turn calls no model and no tool any more.                   *)
CancelledTurnStops ==
  [][cancels > 0 /\ pc = "batch" => pc' \notin {"model", "tool", "script"}]_vars
=============================================================================
