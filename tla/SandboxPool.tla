---------------------------- MODULE SandboxPool ----------------------------
(***************************************************************************)
(* The pool of sandbox containers of the proxy (sandbox-proxy/main.py):    *)
(* allocate, execute, recycle and the health endpoint that reconciles,     *)
(* trims and warms the pool.                                               *)
(*                                                                         *)
(* The pool's books are four variables that the handlers change between    *)
(* Docker calls in worker threads.  Only warming, reconciling and          *)
(* returning a recycled container hold the maintenance lock; allocating    *)
(* and replacing do not.                                                   *)
(*                                                                         *)
(* One action is the code of one handler between two suspension points; a  *)
(* Docker call is one step with the resumption of the handler that awaits  *)
(* it, but for a creation, which checks the limit when its thread starts,  *)
(* and an execution, which its client need not wait for.                   *)
(* Docker may fail to create, check, clean or remove a container at any    *)
(* time; one it refuses to remove stays in the books, and counts.          *)
(***************************************************************************)
EXTENDS Integers, Sequences, FiniteSets, SequencesExt

CONSTANTS
  Clients,          \* clients; each holds at most one container
  Checks,           \* requests to the health endpoint
  Containers,       \* container ids
  PoolMin, PoolMax, \* SANDBOX_POOL_MIN, SANDBOX_POOL_MAX
  None

Tasks == Clients \cup Checks

ASSUME LimitAssumption ==
  PoolMin \in Nat /\ PoolMax \in Nat \ {0} /\ PoolMin <= PoolMax
ASSUME NoneAssumption == None \notin Containers \cup Tasks
ASSUME TasksAssumption ==
  Clients # {} /\ Clients \cap Checks = {} /\ IsFiniteSet(Tasks)

VARIABLES
  objects,  \* keys of _container_objects and _container_meta
  pool,     \* the queue _pool
  pooled,   \* _pooled_ids
  expired,  \* containers of which _is_expired holds
  used,     \* containers with remains of a client in /workspace
  stuck,    \* history: containers Docker refused to remove, let go of since
  overtaken, \* history: containers with a script at work when their last
             \* cleanup began, and in which none was begun since
  lock,     \* the task that holds _pool_maintenance_lock, or None
  pc,       \* where each handler is suspended
  at,       \* the container it is about, or None
  creating, \* tasks whose thread is past the limit check
  needed,   \* how many containers a task has yet to warm
  todo,     \* containers a health check has yet to reconcile
  script    \* the container a client's execution is at work in, or None

books == <<objects, pool, pooled, expired, used, stuck, overtaken>>
tasks == <<lock, pc, at, creating, needed, todo>>
vars  == <<books, tasks, script>>

(* Docker's ids are never taken again; here one is when nothing refers to  *)
(* it any more.                                                            *)
Forgotten ==
  Containers \ (objects \cup ToSet(pool) \cup {at[t] : t \in Tasks}
                 \cup {script[t] : t \in Clients}
                 \cup UNION {todo[t] : t \in Checks})

Target == PoolMin \* _idle_pool_target, as PoolMin <= PoolMax

Goto(t, where) == pc' = [pc EXCEPT ![t] = where]
Drop(t) == at' = [at EXCEPT ![t] = None]
Leave(t) == Goto(t, "idle") /\ Drop(t)

-----------------------------------------------------------------------------
(* The books *)

(* _remove_container: Docker removes S and refuses to remove refused, for  *)
(* which the call raises; the queue keeps the entries                      *)
Removal(S, refused) ==
  /\ objects' = objects \ S
  /\ expired' = expired \ S
  /\ used' = used \ S
  /\ overtaken' = overtaken \ S
  /\ stuck' = (stuck \ S) \cup refused

(* a removal that succeeds, and _forget_container_reference *)
Forget(S) == Removal(S, {})

Refused(c) == c \in objects /\ Removal({}, {c})

(* _compact_pool: what is left of the queue, each entry once, in its order *)
Kept == ToSet(pool) \cap objects \cap pooled

Before(c, d) ==
  \E i \in DOMAIN pool : pool[i] = c /\ \A j \in 1..i : pool[j] # d

InOrder(s) == \A i, j \in DOMAIN s : i < j => Before(s[i], s[j])

Compacted == CHOOSE s \in SetToSeqs(Kept) : InOrder(s)

IdleInQueue(queue) == \* mutant: the set beside the queue is not updated
  pool' = queue /\ UNCHANGED pooled

Idle(queue) == pool' = queue /\ pooled' = ToSet(queue)

(* a new container becomes idle, or is removed if the pool is full *)
AddNew(c) ==
  /\ UNCHANGED <<expired, used, overtaken>>
  /\ IF Cardinality(pooled) >= PoolMax
       THEN /\ \/ UNCHANGED <<objects, stuck>>
               \/ objects' = objects \cup {c} /\ stuck' = stuck \cup {c}
            /\ UNCHANGED <<pool, pooled>>
       ELSE /\ objects' = objects \cup {c}
            /\ pool' = Append(pool, c)
            /\ pooled' = pooled \cup {c}
            /\ UNCHANGED stuck

(* lifetime, number of executions, or an execution that timed out or whose *)
(* client went away *)
Expires(c) ==
  /\ c \in objects \ expired
  /\ expired' = expired \cup {c}
  /\ UNCHANGED <<objects, pool, pooled, used, stuck, overtaken, tasks, script>>

-----------------------------------------------------------------------------
(* Allocating *)

(* The first n entries leave the queue; those of them that are expired are *)
(* removed, and so is gone, which failed its health check.                 *)
Drain(n, gone, refused) ==
  LET taken == {pool[i] : i \in 1..n}
  IN /\ pool' = SubSeq(pool, n + 1, Len(pool))
     /\ pooled' = pooled \ (taken \cup gone)
     /\ Removal((gone \cup (taken \cap expired)) \ refused, refused)

(* The queue is drained up to a container that is known and not expired, or *)
(* to one that Docker refuses to remove, at which the handler fails.        *)
TakeIdle(t, gone) ==
  LET usable(i) == pool[i] \in objects \ (expired \cup gone)
  IN \/ /\ \A i \in DOMAIN pool : ~usable(i)
        /\ Drain(Len(pool), gone, {})
        /\ Goto(t, "allocating") /\ Drop(t)
     \/ \E n \in DOMAIN pool :
          /\ \A i \in 1..n - 1 : ~usable(i)
          /\ \/ /\ usable(n)
                /\ Drain(n, gone, {})
                /\ Goto(t, "pinging") /\ at' = [at EXCEPT ![t] = pool[n]]
             \/ /\ pool[n] \in expired \ gone
                /\ Drain(n, gone, {pool[n]})
                /\ Leave(t)

Allocate(t) ==
  /\ pc[t] = "idle"
  /\ TakeIdle(t, {})
  /\ UNCHANGED <<lock, creating, needed, todo, script>>

(* The handler fails if a health check removed the container meanwhile. *)
PingSucceeds(t) ==
  /\ pc[t] = "pinging"
  /\ IF at[t] \in objects THEN Goto(t, "warm") /\ UNCHANGED at ELSE Leave(t)
  /\ UNCHANGED <<books, lock, creating, needed, todo, script>>

PingFails(t) ==
  /\ pc[t] = "pinging"
  /\ \/ TakeIdle(t, {at[t]})
     \/ Refused(at[t]) /\ Leave(t) /\ UNCHANGED <<pool, pooled>>
  /\ UNCHANGED <<lock, creating, needed, todo, script>>

-----------------------------------------------------------------------------
(* Creating: for an allocation, for the pool, as a replacement *)

AwaitsContainer(t) == pc[t] \in {"allocating", "warming", "replacing"}

WithinLimit == Cardinality(objects) < PoolMax

CreateStarts(t) ==
  /\ AwaitsContainer(t)
  /\ t \notin creating
  /\ WithinLimit
  /\ creating' = creating \cup {t}
  /\ UNCHANGED <<books, lock, pc, at, needed, todo, script>>

WarmedKeepsLock(t) == \* mutant: the lock is not released
  /\ needed' = [needed EXCEPT ![t] = 0]
  /\ Goto(t, IF t \in Clients THEN "holding" ELSE "idle")
  /\ UNCHANGED lock

(* The handler that warmed the pool answers its client. *)
Warmed(t) ==
  /\ needed' = [needed EXCEPT ![t] = 0]
  /\ lock' = None
  /\ Goto(t, IF t \in Clients THEN "holding" ELSE "idle")

OneLess(t) ==
  IF needed[t] = 1
    THEN Warmed(t)
    ELSE /\ needed' = [needed EXCEPT ![t] = @ - 1]
         /\ UNCHANGED <<lock, pc>>

CreateSucceeds(t) ==
  \E c \in Forgotten :
    /\ t \in creating
    /\ creating' = creating \ {t}
    /\ CASE pc[t] = "allocating" ->
              /\ objects' = objects \cup {c}
              /\ at' = [at EXCEPT ![t] = c]
              /\ Goto(t, "warm")
              /\ UNCHANGED <<pool, pooled, expired, used, stuck, overtaken,
                             lock, needed>>
         [] pc[t] = "warming" ->
              AddNew(c) /\ OneLess(t) /\ UNCHANGED at
         [] pc[t] = "replacing" ->
              AddNew(c) /\ Leave(t) /\ UNCHANGED <<lock, needed>>
    /\ UNCHANGED <<todo, script>>

(* over the limit, or Docker's failure *)
CreateFails(t) ==
  /\ AwaitsContainer(t)
  /\ t \in creating \/ ~WithinLimit
  /\ creating' = creating \ {t}
  /\ IF pc[t] = "warming"
       THEN OneLess(t) /\ UNCHANGED at
       ELSE Leave(t) /\ UNCHANGED <<lock, needed>>
  /\ UNCHANGED <<books, todo, script>>

(* _warm_pool, with the lock; how many are needed is decided once *)
Warm(t) ==
  LET missing == PoolMin - Cardinality(objects)
  IN /\ pc[t] = "warm"
     /\ lock = None
     /\ Idle(Compacted)
     /\ IF missing > 0
          THEN /\ lock' = t
               /\ needed' = [needed EXCEPT ![t] = missing]
               /\ Goto(t, "warming")
          ELSE Warmed(t)
     /\ UNCHANGED <<objects, expired, used, stuck, overtaken, at, creating, todo,
                    script>>

-----------------------------------------------------------------------------
(* Executing and recycling *)

(* what an execution of a client leaves in its container, if it is there *)
Leaves(t) == used' = used \cup ({script[t]} \cap objects)

(* A thread writes the script, and another one runs it. *)
Execute(t) ==
  /\ pc[t] = "holding"
  /\ at[t] \in objects
  /\ script[t] = None \* bound: one execution of each client at a time
  /\ script' = [script EXCEPT ![t] = at[t]]
  /\ overtaken' = overtaken \ {at[t]}
  /\ Goto(t, "executing")
  /\ UNCHANGED <<objects, pool, pooled, expired, used, stuck,
                 lock, at, creating, needed, todo>>

(* The script is written, or writes; whoever asked for it may be gone. *)
ScriptWorks(t) ==
  /\ script[t] # None
  /\ Leaves(t)
  /\ UNCHANGED <<objects, pool, pooled, expired, stuck, overtaken, tasks, script>>

(* It is through, or could not be written or started. *)
ScriptEnds(t) ==
  /\ script[t] # None
  /\ script' = [script EXCEPT ![t] = None]
  /\ IF pc[t] = "executing" THEN Goto(t, "holding") ELSE UNCHANGED pc
  /\ UNCHANGED <<books, lock, at, creating, needed, todo>>

(* The stream stays silent for too long.  The container is unhealthy, and  *)
(* the script may still run in it.                                         *)
TimesOut(t) ==
  /\ pc[t] = "executing"
  /\ expired' = expired \cup ({script[t]} \cap objects)
  /\ Goto(t, "holding")
  /\ UNCHANGED <<objects, pool, pooled, used, stuck, overtaken,
                 lock, at, creating, needed, todo, script>>

(* The client is cancelled or loses the connection.  The script goes on;   *)
(* the container is unhealthy once the stream is found broken, if it is.   *)
Abandons(t) ==
  /\ pc[t] = "executing"
  /\ Goto(t, "holding")
  /\ UNCHANGED <<books, lock, at, creating, needed, todo, script>>

AtWork == {script[t] : t \in Clients} \ {None}

Recycle(t) ==
  LET c == at[t]
  IN /\ pc[t] = "holding"
     /\ \/ /\ c \notin objects \/ c \in pooled
           /\ Leave(t)
           /\ UNCHANGED books
        \/ /\ c \in objects \ pooled
           /\ c \in expired
           /\ \/ Forget({c}) /\ Goto(t, "replacing") /\ Drop(t)
              \/ Refused(c) /\ Leave(t)
           /\ UNCHANGED <<pool, pooled>>
        \/ /\ c \in objects \ (pooled \cup expired)
           /\ Goto(t, "cleaning")
           /\ overtaken' = (overtaken \ {c}) \cup ({c} \cap AtWork)
           /\ UNCHANGED <<objects, pool, pooled, expired, used, stuck, at>>
     /\ UNCHANGED <<lock, creating, needed, todo, script>>

CleanReportsOnly(t) == \* mutant: a failed cleanup is only logged
  /\ pc[t] = "cleaning"
  /\ Goto(t, "returning")
  /\ UNCHANGED <<books, lock, at, creating, needed, todo, script>>

CleanFails(t) ==
  /\ pc[t] = "cleaning"
  /\ \/ Forget({at[t]}) /\ Goto(t, "replacing") /\ Drop(t)
     \/ Refused(at[t]) /\ Leave(t)
  /\ UNCHANGED <<pool, pooled, lock, creating, needed, todo, script>>

(* The handler fails if a health check removed the container meanwhile. *)
CleanSucceeds(t) ==
  /\ pc[t] = "cleaning"
  /\ used' = used \ {at[t]}
  /\ IF at[t] \in objects
       THEN Goto(t, "returning") /\ UNCHANGED at
       ELSE Leave(t)
  /\ UNCHANGED <<objects, pool, pooled, expired, stuck, overtaken,
                 lock, creating, needed, todo, script>>

ReturnSurplus(t) == \* mutant: a surplus container is not removed
  /\ pc[t] = "returning"
  /\ lock = None
  /\ Leave(t)
  /\ Idle(IF Len(Compacted) >= Target \/ at[t] \notin objects
            THEN Compacted ELSE Append(Compacted, at[t]))
  /\ UNCHANGED <<objects, expired, used, stuck, overtaken,
                 lock, creating, needed, todo, script>>

(* _return_recycled_container, with the lock *)
Return(t) ==
  LET c == at[t]
  IN /\ pc[t] = "returning"
     /\ lock = None
     /\ Leave(t)
     /\ IF Len(Compacted) >= Target
          THEN (Forget({c}) \/ Refused(c)) /\ Idle(Compacted)
          ELSE /\ UNCHANGED <<objects, expired, used, stuck, overtaken>>
               /\ Idle(IF c \in objects \ ToSet(Compacted)
                         THEN Append(Compacted, c) ELSE Compacted)
     /\ UNCHANGED <<lock, creating, needed, todo, script>>

-----------------------------------------------------------------------------
(* The health endpoint *)

(* _reconcile_pool_state, once it has the lock *)
Check(k) ==
  /\ pc[k] = "idle"
  /\ lock = None
  /\ lock' = k
  /\ Idle(Compacted)
  /\ todo' = [todo EXCEPT ![k] = objects]
  /\ Goto(k, "reconciling")
  /\ UNCHANGED <<objects, expired, used, stuck, overtaken, at, creating, needed,
                 script>>

(* A container is healthy, or is forgotten because Docker has lost it or   *)
(* it does not answer, whoever has it.                                     *)
ReconcileOne(k, c) ==
  /\ pc[k] = "reconciling"
  /\ c \in todo[k]
  /\ todo' = [todo EXCEPT ![k] = @ \ {c}]
  /\ \/ UNCHANGED books
     \/ Forget({c}) /\ pooled' = pooled \ {c} /\ UNCHANGED pool
  /\ UNCHANGED <<lock, pc, at, creating, needed, script>>

(* Docker does not say whether a container exists: the request fails. *)
ReconcileFails(k) ==
  /\ pc[k] = "reconciling"
  /\ todo[k] # {}
  /\ todo' = [todo EXCEPT ![k] = {}]
  /\ lock' = None
  /\ Goto(k, "idle")
  /\ UNCHANGED <<books, at, creating, needed, script>>

(* Surplus idle containers are removed, or at least not idle any more. *)
ReconcileEnds(k) ==
  LET idle == Compacted
      surplus == IF Len(idle) > Target THEN Len(idle) - Target ELSE 0
      gone == ToSet(SubSeq(idle, 1, surplus))
  IN /\ pc[k] = "reconciling"
     /\ todo[k] = {}
     /\ \E refused \in SUBSET gone : Removal(gone \ refused, refused)
     /\ Idle(SubSeq(idle, surplus + 1, Len(idle)))
     /\ lock' = None
     /\ Goto(k, "warm")
     /\ UNCHANGED <<at, creating, needed, todo, script>>

-----------------------------------------------------------------------------
(* The process starts: containers of an earlier one are removed, and the   *)
(* pool is warmed before the first request, as far as Docker creates.      *)
WarmStart ==
  /\ \E n \in 0..PoolMin : pool \in [1..n -> Containers]
  /\ \A i, j \in DOMAIN pool : pool[i] = pool[j] => i = j
  /\ objects = ToSet(pool) /\ pooled = ToSet(pool)
  /\ expired = {} /\ used = {} /\ stuck = {} /\ overtaken = {}

Init ==
  /\ WarmStart
  /\ lock = None
  /\ pc = [t \in Tasks |-> "idle"]
  /\ at = [t \in Tasks |-> None]
  /\ creating = {}
  /\ needed = [t \in Tasks |-> 0]
  /\ todo = [k \in Checks |-> {}]
  /\ script = [t \in Clients |-> None]

Resumes(t) ==
  \/ CreateStarts(t) \/ CreateSucceeds(t) \/ CreateFails(t)
  \/ PingSucceeds(t) \/ PingFails(t)
  \/ CleanSucceeds(t) \/ CleanFails(t)
  \/ Warm(t)
  \/ t \in Clients /\ (ScriptWorks(t) \/ ScriptEnds(t) \/ TimesOut(t) \/ Return(t))
  \/ t \in Checks /\ (ReconcileFails(t) \/ ReconcileEnds(t))
  \/ t \in Checks /\ \E c \in Containers : ReconcileOne(t, c)

Requests(t) ==
  \/ t \in Clients /\ (Allocate(t) \/ Execute(t) \/ Abandons(t) \/ Recycle(t))
  \/ t \in Checks /\ Check(t)

Next ==
  \/ \E t \in Tasks : Requests(t) \/ Resumes(t)
  \/ \E c \in Containers : Expires(c)

Spec == Init /\ [][Next]_vars

-----------------------------------------------------------------------------
(* Invariants *)

(* Type correctness. *)
TypeOK ==
  /\ objects \subseteq Containers /\ pooled \subseteq Containers
  /\ pool \in Seq(Containers)
  /\ expired \subseteq objects /\ used \subseteq objects
  /\ stuck \subseteq objects /\ overtaken \subseteq objects
  /\ lock \in Tasks \cup {None}
  /\ pc \in [Tasks -> {"idle", "pinging", "allocating", "warm", "warming",
                       "holding", "executing", "cleaning", "returning", "replacing",
                       "reconciling"}]
  /\ at \in [Tasks -> Containers \cup {None}]
  /\ creating \subseteq {t \in Tasks : AwaitsContainer(t)}
  /\ needed \in [Tasks -> 0..PoolMin]
  /\ todo \in [Checks -> SUBSET Containers]
  /\ script \in [Clients -> Containers \cup {None}]

(* The queue and the set beside it agree, though both are changed by       *)
(* handlers that do not hold the lock: what is idle is in the queue once,  *)
(* and allocate, which trusts the queue, takes nothing that is not idle.   *)
QueueIsIdle ==
  LET entries(c) == {i \in DOMAIN pool : pool[i] = c}
  IN /\ pooled \subseteq objects
     /\ \A c \in objects :
          Cardinality(entries(c)) = IF c \in pooled THEN 1 ELSE 0

(* Two clients never share a container, and none is lost to the pool while *)
(* it counts against its limit, except where Docker refused to remove it:  *)
(* every other one has one owner, the idle queue or a request, and one     *)
(* that was refused has none for ever, so that nobody is given it.         *)
OwnedOnce ==
  /\ stuck \cap pooled = {}
  /\ \A c \in objects :
       LET owners == {t \in Tasks : at[t] = c}
       IN IF c \in pooled \cup stuck
            THEN owners = {} ELSE Cardinality(owners) = 1

(* A container with the remains of a script, or a script still at work *)
Unclean == used \cup AtWork

Granted(t) == pc[t] \in {"pinging", "warm", "warming"} /\ at[t] \in objects

(* A client gets a container without anything of the client before, and no *)
(* script of it at work there: idle ones are clean, whatever happened to   *)
(* executions and cleanups.  The exception is a container whose client had *)
(* stopped waiting for its script and recycled it under the script.        *)
GrantedClean ==
  /\ pooled \cap Unclean \subseteq overtaken
  /\ \A t \in Clients : Granted(t) /\ at[t] \in Unclean => at[t] \in overtaken

(* Whoever holds the maintenance lock is at work on the pool and will give *)
(* it back, though creations, checks and removals under it fail.           *)
LockHeldAtWork ==
  lock # None => pc[lock] \in {"warming", "reconciling"}

(* The limit is checked before a creation and the container counted after  *)
(* it: it is passed, but only by creations that began together, and never  *)
(* by more than one for each other task at work.                           *)
LimitPassedTogether ==
  Cardinality(objects) + Cardinality(creating) < PoolMax + Cardinality(Tasks)

(* Not kept by the code (README, section 7).                               *)
(* "assert sandbox_health["total_containers"] <= settings.sandbox_pool_max"*)
(* (backend/scripts/production_boundary_probe.py:168): the pool's limit    *)
(* bounds the containers there are.                                        *)
LimitKept == Cardinality(objects) <= PoolMax

(* Not kept by the code (README, section 7).                               *)
(* "Clean /workspace and return the container to the idle pool."           *)
(* (sandbox-proxy/main.py:1027): what is granted is clean.                 *)
GrantedAlwaysClean ==
  \A t \in Clients : Granted(t) => at[t] \notin Unclean

=============================================================================
