---------------------- MODULE ProactiveSchedulerProofs ----------------------
(***************************************************************************)
(* Proofs about ProactiveScheduler, for any number of requests, tasks,     *)
(* minutes, crashes and failed commands: the worker acts on recent tasks,  *)
(* a request alone changes its own task only, and a task runs once a       *)
(* minute.                                                                 *)
(***************************************************************************)
EXTENDS ProactiveScheduler, TLAPS

(* A job that has not resumed since it was queued has run at most as often *)
(* as it was interrupted.                                                  *)
RunsInv ==
  \A j \in Jobs :
    /\ ran[j] <= 1 + rerun[j]
    /\ jobAt[j] \in {"none", "queued", "loading", "loaded"} =>
         ran[j] <= rerun[j]

(* While reads of the worker overlap, all they can merge is recent: what   *)
(* Redis has, the copy they share, and the answers on their way.           *)
RecentInv ==
  Busy("worker") =>
    /\ store \cup table["worker"] \subseteq recent["worker"]
    /\ tickAt = "loaded" => tickGot \subseteq recent["worker"]
    /\ \A j \in Jobs : jobAt[j] = "loaded" => jobGot[j] \subseteq recent["worker"]

(* what a request that runs alone makes of the table *)
Expected(r) ==
  IF op[r] = "schedule" THEN store \cup {arg[r]} ELSE store \ {arg[r]}

(* A request that runs alone starts from an empty copy, merges what Redis  *)
(* has into it, and writes that with its own task put in or taken out.     *)
AloneInv ==
  \A r \in InFlight \ tainted :
    /\ InFlight = {r}
    /\ Reading(reqAt[r]) => table["api"] = {}
    /\ reqAt[r] = "loaded" => reqGot[r] = store
    /\ reqAt[r] = "saving" => payload[r] = Expected(r)

Inv == TypeOK /\ RunsInv /\ RecentInv /\ AloneInv

-----------------------------------------------------------------------------
(* The steps *)

(* A request comes in. *)
LEMMA ArriveKeeps ==
  ASSUME Inv, NEW r \in Requests, Arrive(r)
  PROVE  Inv'
<1>. USE SchedulerAssumption DEF Inv, TypeOK, Processes, api, tick, job,
         Arrive, Clear, Cleared, Busy, Reading
<1>1. TypeOK'
  BY DEF InFlight
<1>2. RunsInv'
  BY DEF RunsInv
<1>3. RecentInv'
  BY DEF RecentInv, Busy, Reading
<1>4. AloneInv'
  BY DEF AloneInv, InFlight, Reading, Expected
<1>. QED BY <1>1, <1>2, <1>3, <1>4

(* The GET of a request is served. *)
LEMMA RequestServedKeeps ==
  ASSUME Inv, NEW r \in Requests, RequestServed(r)
  PROVE  Inv'
<1>. USE SchedulerAssumption DEF Inv, TypeOK, Processes, api, tick, job,
         RequestServed, Served
<1>1. TypeOK'
  OBVIOUS
<1>2. RunsInv'
  BY DEF RunsInv
<1>3. RecentInv'
  BY DEF RecentInv, Busy, Reading
<1>4. AloneInv'
  BY DEF AloneInv, InFlight, Reading, Expected
<1>. QED BY <1>1, <1>2, <1>3, <1>4

(* A request merges the answer. *)
LEMMA RequestResumesKeeps ==
  ASSUME Inv, NEW r \in Requests, RequestResumes(r)
  PROVE  Inv'
<1>. USE SchedulerAssumption DEF Inv, TypeOK, Processes, api, tick, job,
         RequestResumes, Save, Answer, Merged, Settle, Busy, Reading
<1>1. TypeOK'
  OBVIOUS
<1>2. RunsInv'
  BY DEF RunsInv
<1>3. RecentInv'
  BY DEF RecentInv, Busy, Reading
<1>4. AloneInv'
  <2>1. InFlight' \subseteq InFlight /\ tainted' = tainted /\ r \in InFlight
    BY DEF InFlight
  <2>2. ASSUME NEW q \in InFlight' \ tainted PROVE q = r
    BY <2>1, <2>2 DEF AloneInv
  <2>3. ASSUME r \notin tainted, reqAt'[r] = "saving"
        PROVE  payload'[r] = Expected(r)
    BY <2>1, <2>3, ZenonT(30) DEF AloneInv, Reading, Expected
  <2>4. ~Reading(reqAt'[r]) /\ store' = store /\ op' = op /\ arg' = arg
    BY DEF Reading
  <2>. QED
    BY <2>1, <2>2, <2>3, <2>4, ZenonT(40)
       DEF AloneInv, InFlight, Reading, Expected
<1>. QED BY <1>1, <1>2, <1>3, <1>4

(* The SET of a request is served. *)
LEMMA RequestSavesKeeps ==
  ASSUME Inv, NEW r \in Requests, RequestSaves(r)
  PROVE  Inv'
<1>. USE SchedulerAssumption DEF Inv, TypeOK, Processes, api, tick, job,
         RequestSaves, Busy, Reading
<1>1. TypeOK'
  OBVIOUS
<1>2. RunsInv'
  BY DEF RunsInv
<1>3. RecentInv'
  BY DEF RecentInv, Busy, Reading
<1>4. AloneInv'
  BY DEF AloneInv, InFlight, Reading, Expected
<1>. QED BY <1>1, <1>2, <1>3, <1>4

(* A minute passes. *)
LEMMA MinutePassesKeeps ==
  ASSUME Inv, MinutePasses
  PROVE  Inv'
<1>. USE SchedulerAssumption DEF Inv, TypeOK, Processes, api, tick, job,
         MinutePasses
<1>1. TypeOK'
  OBVIOUS
<1>2. RunsInv'
  BY DEF RunsInv
<1>3. RecentInv'
  BY DEF RecentInv, Busy, Reading
<1>4. AloneInv'
  BY DEF AloneInv, InFlight, Reading, Expected
<1>. QED BY <1>1, <1>2, <1>3, <1>4

(* The check of the minute starts. *)
LEMMA TickStartsKeeps ==
  ASSUME Inv, TickStarts
  PROVE  Inv'
<1>. USE SchedulerAssumption DEF Inv, TypeOK, Processes, api, tick, job,
         TickStarts, Clear, Cleared, Busy, Reading
<1>1. TypeOK'
  OBVIOUS
<1>2. RunsInv'
  BY DEF RunsInv
<1>3. RecentInv'
  BY DEF RecentInv, Busy, Reading
<1>4. AloneInv'
  BY DEF AloneInv, InFlight, Reading, Expected
<1>. QED BY <1>1, <1>2, <1>3, <1>4

(* Its GET is served. *)
LEMMA TickServedKeeps ==
  ASSUME Inv, TickServed
  PROVE  Inv'
<1>. USE SchedulerAssumption DEF Inv, TypeOK, Processes, api, tick, job,
         TickServed, Served
<1>1. TypeOK'
  OBVIOUS
<1>2. RunsInv'
  BY DEF RunsInv
<1>3. RecentInv'
  BY DEF RecentInv, Busy, Reading
<1>4. AloneInv'
  BY DEF AloneInv, InFlight, Reading, Expected
<1>. QED BY <1>1, <1>2, <1>3, <1>4

(* It takes the tasks that are due. *)
LEMMA TickResumesKeeps ==
  ASSUME Inv, TickResumes
  PROVE  Inv'
<1>. USE SchedulerAssumption DEF Inv, TypeOK, Processes, api, tick, job,
         TickResumes, Merged, Settle, Busy, Reading
<1>1. TypeOK'
  OBVIOUS
<1>2. RunsInv'
  BY DEF RunsInv
<1>3. RecentInv'
  BY DEF RecentInv, Busy, Reading
<1>4. AloneInv'
  BY DEF AloneInv, InFlight, Reading, Expected
<1>. QED BY <1>1, <1>2, <1>3, <1>4

(* It enqueues one. *)
LEMMA EnqueueKeeps ==
  ASSUME Inv, NEW t \in Tasks, Enqueue(t)
  PROVE  Inv'
<1>. USE SchedulerAssumption DEF Inv, TypeOK, Processes, api, tick, job,
         Enqueue, MayEnqueue
<1>1. TypeOK'
  OBVIOUS
<1>2. RunsInv'
  BY DEF RunsInv
<1>3. RecentInv'
  BY DEF RecentInv, Busy, Reading
<1>4. AloneInv'
  BY DEF AloneInv, InFlight, Reading, Expected
<1>. QED BY <1>1, <1>2, <1>3, <1>4

(* The check ends. *)
LEMMA TickEndsKeeps ==
  ASSUME Inv, TickEnds
  PROVE  Inv'
<1>. USE SchedulerAssumption DEF Inv, TypeOK, Processes, api, tick, job,
         TickEnds
<1>1. TypeOK'
  OBVIOUS
<1>2. RunsInv'
  BY DEF RunsInv
<1>3. RecentInv'
  BY DEF RecentInv, Busy, Reading
<1>4. AloneInv'
  BY DEF AloneInv, InFlight, Reading, Expected
<1>. QED BY <1>1, <1>2, <1>3, <1>4

(* A job starts. *)
LEMMA JobStartsKeeps ==
  ASSUME Inv, NEW j \in Jobs, JobStarts(j)
  PROVE  Inv'
<1>. USE SchedulerAssumption DEF Inv, TypeOK, Processes, api, tick, job,
         JobStarts, Clear, Cleared, Busy, Reading
<1>1. TypeOK'
  OBVIOUS
<1>2. RunsInv'
  BY DEF RunsInv
<1>3. RecentInv'
  BY DEF RecentInv, Busy, Reading
<1>4. AloneInv'
  BY DEF AloneInv, InFlight, Reading, Expected
<1>. QED BY <1>1, <1>2, <1>3, <1>4

(* Its GET is served. *)
LEMMA JobServedKeeps ==
  ASSUME Inv, NEW j \in Jobs, JobServed(j)
  PROVE  Inv'
<1>. USE SchedulerAssumption DEF Inv, TypeOK, Processes, api, tick, job,
         JobServed, Served
<1>1. TypeOK'
  OBVIOUS
<1>2. RunsInv'
  BY DEF RunsInv
<1>3. RecentInv'
  BY DEF RecentInv, Busy, Reading
<1>4. AloneInv'
  BY DEF AloneInv, InFlight, Reading, Expected
<1>. QED BY <1>1, <1>2, <1>3, <1>4

(* It runs its task or ends. *)
LEMMA JobResumesKeeps ==
  ASSUME Inv, NEW j \in Jobs, JobResumes(j)
  PROVE  Inv'
<1>. USE SchedulerAssumption DEF Inv, TypeOK, Processes, api, tick, job,
         JobResumes, Finish, Merged, Settle, Busy, Reading
<1>1. TypeOK'
  OBVIOUS
<1>2. RunsInv'
  BY DEF RunsInv
<1>3. RecentInv'
  BY DEF RecentInv, Busy, Reading
<1>4. AloneInv'
  BY DEF AloneInv, InFlight, Reading, Expected
<1>. QED BY <1>1, <1>2, <1>3, <1>4

(* The agent is done. *)
LEMMA JobEndsKeeps ==
  ASSUME Inv, NEW j \in Jobs, JobEnds(j)
  PROVE  Inv'
<1>. USE SchedulerAssumption DEF Inv, TypeOK, Processes, api, tick, job,
         JobEnds, Finish
<1>1. TypeOK'
  OBVIOUS
<1>2. RunsInv'
  BY DEF RunsInv
<1>3. RecentInv'
  BY DEF RecentInv, Busy, Reading
<1>4. AloneInv'
  BY DEF AloneInv, InFlight, Reading, Expected
<1>. QED BY <1>1, <1>2, <1>3, <1>4

(* The worker crashes. *)
LEMMA WorkerCrashesKeeps ==
  ASSUME Inv, WorkerCrashes
  PROVE  Inv'
<1>. USE SchedulerAssumption DEF Inv, TypeOK, Processes, api, tick, job,
         WorkerCrashes
<1>1. TypeOK'
  OBVIOUS
<1>2. RunsInv'
  BY DEF RunsInv
<1>3. RecentInv'
  BY DEF RecentInv, Busy, Reading, Started
<1>4. AloneInv'
  BY DEF AloneInv, InFlight, Reading, Expected
<1>. QED BY <1>1, <1>2, <1>3, <1>4

(* The API process crashes. *)
LEMMA ApiCrashesKeeps ==
  ASSUME Inv, ApiCrashes
  PROVE  Inv'
<1>. USE SchedulerAssumption DEF Inv, TypeOK, Processes, api, tick, job,
         ApiCrashes
<1>1. TypeOK'
  OBVIOUS
<1>2. RunsInv'
  BY DEF RunsInv
<1>3. RecentInv'
  BY DEF RecentInv, Busy, Reading
<1>4. AloneInv'
  BY DEF AloneInv, InFlight, Reading, Expected
<1>. QED BY <1>1, <1>2, <1>3, <1>4

(* The invariant is inductive. *)
LEMMA InvStep == Inv /\ [Next]_vars => Inv'
<1>1. ASSUME Inv, UNCHANGED vars PROVE Inv'
  BY <1>1 DEF vars, api, tick, job, Inv, TypeOK, RunsInv, RecentInv, Busy,
              Reading, AloneInv, InFlight, Expected
<1>. QED
  BY <1>1, ArriveKeeps, RequestServedKeeps, RequestResumesKeeps,
     RequestSavesKeeps, MinutePassesKeeps, TickStartsKeeps, TickServedKeeps,
     TickResumesKeeps, EnqueueKeeps, TickEndsKeeps, JobStartsKeeps,
     JobServedKeeps, JobResumesKeeps, JobEndsKeeps, WorkerCrashesKeeps,
     ApiCrashesKeeps DEF Next, ApiNext, WorkerNext

(* The invariant holds in every state.                                    *)
LEMMA InvHolds == Spec => []Inv
<1>1. ASSUME Init PROVE Inv
  <2>. USE <1>1, SchedulerAssumption DEF Init
  <2>1. TypeOK
    BY DEF TypeOK, Jobs, Processes
  <2>2. RunsInv /\ RecentInv /\ AloneInv
    BY DEF RunsInv, RecentInv, Busy, Reading, AloneInv, InFlight
  <2>. QED BY <2>1, <2>2 DEF Inv
<1>. QED BY <1>1, InvStep, PTL DEF Spec

-----------------------------------------------------------------------------

(* The variables keep their types. *)
THEOREM Typed == Spec => []TypeOK
<1>1. Inv => TypeOK
  BY DEF Inv
<1>. QED BY <1>1, InvHolds, PTL

(* However often the worker crashes and whatever ARQ runs again, no task   *)
(* runs more than once a minute but for the runs a crash broke off.        *)
THEOREM RunsOncePerMinute == Spec => []OneRunPerMinute
<1>1. Inv => OneRunPerMinute
  BY DEF Inv, TypeOK, RunsInv, OneRunPerMinute
<1>. QED BY <1>1, InvHolds, PTL

(* Only TickResumes adds to the tasks that are due, and only JobResumes    *)
(* runs one: both take it from what they have merged, which is recent.     *)
LEMMA StartsRecent ==
  ASSUME Inv, [Next]_vars
  PROVE  /\ due' \ due \subseteq recent["worker"]
         /\ \A j \in Jobs : ran'[j] # ran[j] => j[1] \in recent["worker"]
<1>. USE DEF Inv, TypeOK
<1>. DEFINE Goal == /\ due' \ due \subseteq recent["worker"]
                   /\ \A j \in Jobs : ran'[j] # ran[j] => j[1] \in recent["worker"]
<1>1. CASE TickResumes
  BY <1>1 DEF TickResumes, job, Merged, RecentInv, Busy, Reading
<1>2. ASSUME NEW j \in Jobs, JobResumes(j) PROVE Goal
  BY <1>2 DEF JobResumes, Finish, tick, Merged, RecentInv, Busy, Reading
<1>3. CASE ApiNext \/ ApiCrashes \/ UNCHANGED vars
  BY <1>3 DEF ApiNext, Arrive, RequestServed, RequestResumes, RequestSaves,
              ApiCrashes, vars, tick, job
<1>4. CASE WorkerCrashes \/ MinutePasses \/ TickStarts \/ TickServed \/ TickEnds
  BY <1>4 DEF WorkerCrashes, MinutePasses, TickStarts, TickServed, TickEnds,
              tick, job
<1>5. ASSUME NEW t \in Tasks, Enqueue(t) PROVE Goal
  BY <1>5 DEF Enqueue
<1>6. ASSUME NEW j \in Jobs, JobStarts(j) \/ JobServed(j) \/ JobEnds(j)
      PROVE  Goal
  BY <1>6 DEF JobStarts, JobServed, JobEnds, tick
<1>. QED
  BY <1>1, <1>2, <1>3, <1>4, <1>5, <1>6 DEF Next, WorkerNext

(* However many coroutines share the copy and clear it under each other,   *)
(* none of the worker acts on a task that was deleted before they read.    *)
THEOREM ActsOnRecent == Spec => WorkerActsOnRecent
<1>1. Inv /\ [Next]_vars =>
        [\A t \in Tasks :
           \/ t \in due' \ due
           \/ \E m \in Minutes : ran'[<<t, m>>] > ran[<<t, m>>]
           => t \in recent["worker"]]_vars
  <2>. SUFFICES ASSUME Inv, [Next]_vars, NEW t \in Tasks,
                       NEW m \in Minutes, ran'[<<t, m>>] > ran[<<t, m>>]
                PROVE  t \in recent["worker"]
    BY StartsRecent
  <2>1. <<t, m>> \in Jobs /\ <<t, m>>[1] = t
    BY DEF Jobs
  <2>2. ran[<<t, m>>] \in Nat
    BY <2>1 DEF Inv, TypeOK
  <2>3. ran'[<<t, m>>] # ran[<<t, m>>]
    BY <2>2
  <2>. QED BY <2>1, <2>3, StartsRecent
<1>. QED BY <1>1, InvHolds, PTL DEF Spec, WorkerActsOnRecent

(* Only a request that has been served its SET answers with the table      *)
(* changed; if it ran alone, what it wrote is what it should have.         *)
THEOREM ChangesItsOwnTask == Spec => SavesItsOwnTask
<1>. DEFINE Act == \A r \in Requests \ tainted :
       reqAt[r] = "saving" /\ store' # store /\ reply'[r] # reply[r] =>
         store' = IF op[r] = "schedule" THEN store \cup {arg[r]}
                  ELSE store \ {arg[r]}
<1>1. Inv /\ [Next]_vars => [Act]_vars
  <2>. SUFFICES ASSUME Inv, [Next]_vars, NEW r \in Requests \ tainted,
                       reqAt[r] = "saving", store' # store
                PROVE  store' = Expected(r)
    BY DEF Expected
  <2>1. PICK q \in Requests : RequestSaves(q)
    BY DEF Next, ApiNext, WorkerNext, Arrive, RequestServed, RequestResumes,
           MinutePasses, TickStarts, TickServed, TickResumes, Enqueue, TickEnds,
           JobStarts, JobServed, JobResumes, JobEnds, WorkerCrashes, ApiCrashes,
           vars
  <2>2. store' = payload[q] /\ reqAt[q] = "saving"
    BY <2>1 DEF RequestSaves
  <2>3. q = r
    BY <2>2 DEF Inv, AloneInv, InFlight
  <2>. QED BY <2>2, <2>3 DEF Inv, AloneInv, InFlight
<1>. QED BY <1>1, InvHolds, PTL DEF Spec, SavesItsOwnTask
=============================================================================
