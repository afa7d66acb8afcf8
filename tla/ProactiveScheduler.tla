------------------------- MODULE ProactiveScheduler -------------------------
(***************************************************************************)
(* The table of proactive tasks (backend/app/core/proactive/scheduler.py): *)
(* one JSON value in Redis, which the API process changes by reading all   *)
(* of it and writing all of it back, and which the worker reads each       *)
(* minute to enqueue the tasks that are due, and again to run one.         *)
(*                                                                         *)
(* Both processes keep a copy of the table in a module variable that their *)
(* coroutines share.  A coroutine clears the copy, waits for its GET, and  *)
(* merges the answer into whatever the copy holds by then.  Commands of    *)
(* two coroutines travel on connections of their own, so that Redis serves *)
(* them in any order and the answers come back in any order.               *)
(*                                                                         *)
(* Redis fails at times; a failed GET counts as an empty table and a       *)
(* failed SET as done.  The processes crash and restart; ARQ runs what a   *)
(* crash interrupted again.                                                *)
(***************************************************************************)
EXTENDS Integers, FiniteSets

CONSTANTS
  Requests,    \* the API's requests, each made once
  Tasks,       \* task ids, fresh uuids
  Minutes,     \* bound: the minutes, 1..n
  MaxDue,      \* bound: tasks due in the same minute
  MaxFaults    \* bound: failed commands and crashes of either process

ASSUME SchedulerAssumption ==
  /\ Tasks # {} /\ Minutes \subseteq Nat \ {0}
  /\ MaxDue \in Nat /\ MaxFaults \in Nat

Jobs == Tasks \X Minutes
Processes == {"api", "worker"}

VARIABLES
  store,    \* the tasks of ARQ_REDIS_KEY
  table,    \* _tasks of each process
  op,       \* what each request is: "schedule", "cancel" or "list"
  arg,      \* the task of each schedule or cancel
  reqAt,    \* where each request is
  reqGot,   \* the answer of its GET
  payload,  \* what its SET will write
  reply,    \* what it answered
  minute,   \* the current minute
  tickAt,   \* where check_scheduled_tasks is
  tickFor,  \* the minute it took for its run_key
  tickGot, due,
  jobAt,    \* where ARQ and execute_proactive_task have each job
  jobGot,
  ran,      \* how often each job has started the agent
  rerun,    \* how often a crash interrupted each job
  faults,
  recent,   \* history: tasks in Redis since the overlapping reads began
  tainted   \* history: requests that ran beside another one or read nothing

api    == <<op, arg, reqAt, reqGot, payload, reply>>
tick   == <<tickAt, tickFor, tickGot, due>>
job    == <<jobAt, jobGot, ran, rerun>>
vars   == <<store, table, api, minute, tick, job, faults, recent, tainted>>

Reading(x) == x \in {"loading", "loaded"}

InFlight == {r \in Requests : reqAt[r] \notin {"idle", "done"}}

(* Some coroutine of the process is between its clear and its merge. *)
Busy(p) ==
  IF p = "api" THEN \E r \in Requests : Reading(reqAt[r])
  ELSE Reading(tickAt) \/ \E j \in Jobs : Reading(jobAt[j])

-----------------------------------------------------------------------------
(* _refresh_tasks_from_redis: clear, then wait, then merge *)

ClearedKept(p) == table[p] \* mutant: refreshes by merging only

Cleared(p) == {}

Clear(p) ==
  /\ table' = [table EXCEPT ![p] = Cleared(p)]
  /\ recent' = [recent EXCEPT ![p] = IF Busy(p) THEN @ ELSE store]

(* The last read in progress of the process is over. *)
Settle(p) == recent' = [recent EXCEPT ![p] = IF Busy(p)' THEN @ ELSE {}]

Merged(p, got) == table[p] \cup got

(* the tasks a GET finds; a failed one finds none *)
Served(got) ==
  \/ got = store /\ UNCHANGED faults
  \/ got = {} /\ faults < MaxFaults /\ faults' = faults + 1

-----------------------------------------------------------------------------
(* The API process *)

Known == {arg[r] : r \in {q \in Requests : op[q] = "schedule"}}

(* A request comes in: a new task, the deletion of one that was answered   *)
(* to a client, or a list (or the deletion of another tenant's task, which *)
(* reads and finds nothing of its own).                                    *)
Arrive(r) ==
  /\ reqAt[r] = "idle"
  /\ reqAt' = [reqAt EXCEPT ![r] = "loading"]
  /\ \E t \in Tasks :
       \/ /\ t \notin Known
          /\ op' = [op EXCEPT ![r] = "schedule"]
          /\ arg' = [arg EXCEPT ![r] = t]
       \/ /\ \E q \in Requests : /\ op[q] = "schedule" /\ arg[q] = t
                                 /\ reply[q] = "ok"
          /\ op' = [op EXCEPT ![r] = "cancel"]
          /\ arg' = [arg EXCEPT ![r] = t]
       \/ op' = [op EXCEPT ![r] = "list"] /\ UNCHANGED arg
  /\ Clear("api")
  /\ tainted' = tainted \cup (IF InFlight = {} THEN {} ELSE InFlight \cup {r})
  /\ UNCHANGED <<store, reqGot, payload, reply, minute, tick, job, faults>>

RequestServed(r) ==
  /\ reqAt[r] = "loading"
  /\ reqAt' = [reqAt EXCEPT ![r] = "loaded"]
  /\ \E got \in {store, {}} :
       /\ Served(got)
       /\ reqGot' = [reqGot EXCEPT ![r] = got]
  /\ tainted' = IF faults' # faults THEN tainted \cup {r} ELSE tainted
  /\ UNCHANGED <<store, table, op, arg, payload, reply, minute, tick, job, recent>>

(* The request merges what it read and changes the copy; the whole copy is *)
(* what it then writes.                                                    *)
Save(r, tasks) ==
  /\ table' = [table EXCEPT !["api"] = tasks]
  /\ payload' = [payload EXCEPT ![r] = tasks]
  /\ reqAt' = [reqAt EXCEPT ![r] = "saving"]
  /\ UNCHANGED reply

Answer(r, what, tasks) ==
  /\ table' = [table EXCEPT !["api"] = tasks]
  /\ reply' = [reply EXCEPT ![r] = what]
  /\ reqAt' = [reqAt EXCEPT ![r] = "done"]
  /\ UNCHANGED payload

RequestResumes(r) ==
  LET now == Merged("api", reqGot[r])
  IN /\ reqAt[r] = "loaded"
     /\ \/ op[r] = "schedule" /\ Save(r, now \cup {arg[r]})
        \/ op[r] = "cancel" /\ arg[r] \in now /\ Save(r, now \ {arg[r]})
        \/ op[r] = "cancel" /\ arg[r] \notin now /\ Answer(r, "missing", now)
        \/ op[r] = "list" /\ Answer(r, "ok", now)
     /\ reqGot' = [reqGot EXCEPT ![r] = {}]
     /\ UNCHANGED <<store, op, arg, minute, tick, job, faults, tainted>>
     /\ Settle("api")

(* The SET is served, or fails before or after its effect; the client is   *)
(* told of success in any case.                                            *)
RequestSaves(r) ==
  /\ reqAt[r] = "saving"
  /\ \/ store' = payload[r] /\ UNCHANGED faults
     \/ /\ store' \in {store, payload[r]}
        /\ faults < MaxFaults /\ faults' = faults + 1
  /\ recent' = [p \in Processes |->
                  IF Busy(p) THEN recent[p] \cup store' ELSE {}]
  /\ reply' = [reply EXCEPT ![r] = "ok"]
  /\ reqAt' = [reqAt EXCEPT ![r] = "done"]
  /\ payload' = [payload EXCEPT ![r] = {}]
  /\ UNCHANGED <<table, op, arg, reqGot, minute, tick, job, tainted>>

ApiNext ==
  \E r \in Requests :
    Arrive(r) \/ RequestServed(r) \/ RequestResumes(r) \/ RequestSaves(r)

-----------------------------------------------------------------------------
(* The worker: check_scheduled_tasks, once a minute *)

MinutePasses ==
  /\ minute + 1 \in Minutes
  /\ tickAt = "done"
  /\ minute' = minute + 1
  /\ tickAt' = "idle"
  /\ UNCHANGED <<store, table, api, tickFor, tickGot, due, job, faults, recent,
                 tainted>>

TickStarts ==
  /\ tickAt = "idle"
  /\ tickAt' = "loading"
  /\ tickFor' = minute
  /\ Clear("worker")
  /\ UNCHANGED <<store, api, minute, tickGot, due, job, faults, tainted>>

TickServed ==
  /\ tickAt = "loading"
  /\ tickAt' = "loaded"
  /\ \E got \in {store, {}} : Served(got) /\ tickGot' = got
  /\ UNCHANGED <<store, table, api, minute, tickFor, due, job, recent,
                 tainted>>

(* Some of the tasks are enabled and due. *)
TickResumes ==
  /\ tickAt = "loaded"
  /\ LET now == Merged("worker", tickGot)
     IN /\ table' = [table EXCEPT !["worker"] = now]
        /\ due' \in {d \in SUBSET now : Cardinality(d) <= MaxDue}
  /\ tickAt' = "enqueueing"
  /\ tickGot' = {}
  /\ UNCHANGED <<store, api, minute, tickFor, job, faults, tainted>>
  /\ Settle("worker")

EnqueueAgain(j) == \* mutant: without a job id of the task and the minute
  jobAt[j] \in {"none", "finished"}

(* ARQ refuses an id that is queued, in progress, or has left a result. *)
MayEnqueue(j) == jobAt[j] = "none"

Enqueue(t) ==
  /\ tickAt = "enqueueing"
  /\ t \in due
  /\ due' = due \ {t}
  /\ LET j == <<t, tickFor>>
     IN jobAt' = IF MayEnqueue(j) THEN [jobAt EXCEPT ![j] = "queued"] ELSE jobAt
  /\ UNCHANGED <<store, table, api, minute, tickAt, tickFor, tickGot, jobGot,
                 ran, rerun, faults, recent, tainted>>

(* All are enqueued, or Redis fails and the others of this minute are not. *)
TickEnds ==
  /\ tickAt = "enqueueing"
  /\ \/ due = {} /\ UNCHANGED faults
     \/ due # {} /\ faults < MaxFaults /\ faults' = faults + 1
  /\ due' = {}
  /\ tickAt' = "done"
  /\ UNCHANGED <<store, table, api, minute, tickFor, tickGot, job,
                 recent, tainted>>

-----------------------------------------------------------------------------
(* The worker: execute_proactive_task *)

JobStarts(j) ==
  /\ jobAt[j] = "queued"
  /\ jobAt' = [jobAt EXCEPT ![j] = "loading"]
  /\ Clear("worker")
  /\ UNCHANGED <<store, api, minute, tick, jobGot, ran, rerun, faults, tainted>>

JobServed(j) ==
  /\ jobAt[j] = "loading"
  /\ jobAt' = [jobAt EXCEPT ![j] = "loaded"]
  /\ \E got \in {store, {}} :
       Served(got) /\ jobGot' = [jobGot EXCEPT ![j] = got]
  /\ UNCHANGED <<store, table, api, minute, tick, ran, rerun, recent,
                 tainted>>

(* _record_task_run: what became of the job goes to a log that is only     *)
(* shown; when that fails the job ends all the same.                       *)
Finish(j) == jobAt' = [jobAt EXCEPT ![j] = "finished"]

(* The agent runs if the task is there and its channel is configured;      *)
(* otherwise the job ends with an error record.                            *)
JobResumes(j) ==
  /\ jobAt[j] = "loaded"
  /\ LET now == Merged("worker", jobGot[j])
     IN /\ table' = [table EXCEPT !["worker"] = now]
        /\ \/ /\ j[1] \in now
              /\ jobAt' = [jobAt EXCEPT ![j] = "running"]
              /\ ran' = [ran EXCEPT ![j] = @ + 1]
           \/ Finish(j) /\ UNCHANGED ran
  /\ jobGot' = [jobGot EXCEPT ![j] = {}]
  /\ UNCHANGED <<store, api, minute, tick, rerun, faults, tainted>>
  /\ Settle("worker")

(* The agent's answer is delivered and recorded, or ARQ's timeout ends the *)
(* job without a record.                                                   *)
JobEnds(j) ==
  /\ jobAt[j] = "running"
  /\ Finish(j)
  /\ UNCHANGED <<store, table, api, minute, tick, jobGot, ran, rerun, faults,
                 recent, tainted>>

WorkerNext ==
  \/ MinutePasses \/ TickStarts \/ TickServed \/ TickResumes \/ TickEnds
  \/ \E t \in Tasks : Enqueue(t)
  \/ \E j \in Jobs : JobStarts(j) \/ JobServed(j) \/ JobResumes(j) \/ JobEnds(j)

-----------------------------------------------------------------------------
(* Crashes *)

Started == {j \in Jobs : jobAt[j] \in {"loading", "loaded", "running"}}

(* ARQ runs the jobs that were in progress again, the minute's check too. *)
WorkerCrashes ==
  /\ faults < MaxFaults
  /\ faults' = faults + 1
  /\ table' = [table EXCEPT !["worker"] = {}]
  /\ jobAt' = [j \in Jobs |-> IF j \in Started THEN "queued" ELSE jobAt[j]]
  /\ rerun' = [j \in Jobs |-> rerun[j] + IF j \in Started THEN 1 ELSE 0]
  /\ tickAt' = IF tickAt = "done" THEN tickAt ELSE "idle"
  /\ due' = {} /\ tickGot' = {}
  /\ jobGot' = [j \in Jobs |-> {}]
  /\ recent' = [recent EXCEPT !["worker"] = {}]
  /\ UNCHANGED <<store, api, minute, tickFor, ran, tainted>>

(* The requests in flight break off. *)
ApiCrashes ==
  /\ faults < MaxFaults
  /\ InFlight # {}
  /\ faults' = faults + 1
  /\ table' = [table EXCEPT !["api"] = {}]
  /\ reqAt' = [r \in Requests |-> IF r \in InFlight THEN "done" ELSE reqAt[r]]
  /\ reqGot' = [r \in Requests |-> {}]
  /\ payload' = [r \in Requests |-> {}]
  /\ recent' = [recent EXCEPT !["api"] = {}]
  /\ UNCHANGED <<store, op, arg, reply, minute, tick, job, tainted>>

-----------------------------------------------------------------------------

Init ==
  /\ store = {}
  /\ table = [p \in Processes |-> {}]
  /\ op = [r \in Requests |-> "none"]
  /\ arg = [r \in Requests |-> CHOOSE t \in Tasks : TRUE]
  /\ reqAt = [r \in Requests |-> "idle"]
  /\ reqGot = [r \in Requests |-> {}]
  /\ payload = [r \in Requests |-> {}]
  /\ reply = [r \in Requests |-> "none"]
  /\ minute = 1
  /\ tickAt = "idle" /\ tickFor = 1 /\ tickGot = {} /\ due = {}
  /\ jobAt = [j \in Jobs |-> "none"]
  /\ jobGot = [j \in Jobs |-> {}]
  /\ ran = [j \in Jobs |-> 0]
  /\ rerun = [j \in Jobs |-> 0]
  /\ faults = 0
  /\ recent = [p \in Processes |-> {}]
  /\ tainted = {}

Next == ApiNext \/ WorkerNext \/ WorkerCrashes \/ ApiCrashes

Spec == Init /\ [][Next]_vars

-----------------------------------------------------------------------------

(* Every variable has its type. *)
TypeOK ==
  /\ store \subseteq Tasks
  /\ table \in [Processes -> SUBSET Tasks]
  /\ op \in [Requests -> {"none", "schedule", "cancel", "list"}]
  /\ arg \in [Requests -> Tasks]
  /\ reqAt \in [Requests -> {"idle", "loading", "loaded", "saving", "done"}]
  /\ reqGot \in [Requests -> SUBSET Tasks]
  /\ payload \in [Requests -> SUBSET Tasks]
  /\ reply \in [Requests -> {"none", "ok", "missing"}]
  /\ minute \in Nat
  /\ tickAt \in {"idle", "loading", "loaded", "enqueueing", "done"}
  /\ tickFor \in Nat /\ tickGot \subseteq Tasks /\ due \subseteq Tasks
  /\ jobAt \in [Jobs -> {"none", "queued", "loading", "loaded", "running",
                         "finished"}]
  /\ jobGot \in [Jobs -> SUBSET Tasks]
  /\ ran \in [Jobs -> Nat] /\ rerun \in [Jobs -> Nat]
  /\ faults \in 0..MaxFaults
  /\ recent \in [Processes -> SUBSET Tasks]
  /\ tainted \subseteq Requests

(* The worker acts on recent tasks only: one it enqueues or runs was in     *)
(* Redis at some time since the first of its reads that overlap began.  A   *)
(* task deleted before is left alone, although the coroutines clear and     *)
(* fill the shared copy under each other.                                   *)
WorkerActsOnRecent ==
  [][\A t \in Tasks :
       \/ t \in due' \ due
       \/ \E m \in Minutes : ran'[<<t, m>>] > ran[<<t, m>>]
       => t \in recent["worker"]]_vars

(* A request that ran alone and read what Redis has changes the table by   *)
(* its own task and nothing else: the tasks of others are lost, or come    *)
(* back, only by requests that overlap or by a failed read.  A SET that    *)
(* failed changes nothing, and loses the task its own request scheduled.   *)
SavesItsOwnTask ==
  [][\A r \in Requests \ tainted :
       reqAt[r] = "saving" /\ store' # store /\ reply'[r] # reply[r] =>
         store' = IF op[r] = "schedule" THEN store \cup {arg[r]}
                  ELSE store \ {arg[r]}]_vars

(* A task is run at most once for each minute, and once more for each time *)
(* the worker crashed while it ran.                                        *)
OneRunPerMinute == \A j \in Jobs : ran[j] <= 1 + rerun[j]

(* Not kept by the code (README, section 7).                               *)
(* A task whose deletion was answered with success is not in Redis any     *)
(* more.                                                                   *)
DeletedStaysDeleted ==
  \A r \in Requests :
    op[r] = "cancel" /\ reply[r] = "ok" => arg[r] \notin store
=============================================================================
