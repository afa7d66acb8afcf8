------------------------ MODULE CapabilityAuthority ------------------------
(***************************************************************************)
(* The owner of sub-agent permissions and of the run-scoped control socket *)
(* a sandboxed parent spawns its children through:                         *)
(* backend/app/core/agent/subagent_control.py.                             *)
(*                                                                         *)
(* Each connection is an asyncio task (_handle_client) that reads one      *)
(* request, checks the capability in it and awaits the spawn handler, a    *)
(* second task.  A handler may ignore its cancellation: whoever gives up   *)
(* on it leaves it to a reaper task of its parent, which keeps cancelling  *)
(* until it is gone.  The run's cleanup and aclose cancel handlers beside  *)
(* the clients that wait for them.                                         *)
(*                                                                         *)
(* One action is the code between two suspension points of one task.  A    *)
(* parent run id is a fresh uuid (code_executor.py), so a parent is        *)
(* activated, issued its one capability and served at most once.           *)
(***************************************************************************)
EXTENDS Integers, FiniteSets

CONSTANTS
  Parents,    \* (tenant, parent run) scopes
  Clients,    \* connections; each has at most one handler task
  ParentOf,   \* the parent whose socket a client connects to
  MaxPerRun,  \* max_connections_per_run
  MaxGlobal   \* max_connections_global

ASSUME ParentOfAssumption == ParentOf \in [Clients -> Parents]
ASSUME ClientsAssumption == IsFiniteSet(Clients)
ASSUME LimitAssumption ==
  MaxPerRun \in Nat \ {0} /\ MaxGlobal \in Nat /\ MaxPerRun <= MaxGlobal

None == "nobody"

VARIABLES
  closed,        \* _closed
  active,        \* _active_parents
  capable,       \* parents with a token in _capabilities that is not expired
  connections,   \* _connections_by_parent
  allConnections,\* _active_connections
  clients,       \* _clients_by_parent
  handlers,      \* _handlers_by_parent, by the client of the handler
  reaper,        \* parents with a task in _reapers_by_parent
  client,        \* where each client task is suspended
  interrupted,   \* task.cancel() is pending on the client task
  response,      \* what the client is being answered
  handler,       \* "none", "running", or how the handler task ended
  asked,         \* the handler task was asked to end
  server,        \* where serve_run of each parent is suspended
  closer,        \* where aclose is suspended
  toCancel,      \* parents aclose has not cancelled the handlers of yet
  snapshot       \* handlers it gives their grace period now

permissions == <<closed, active, capable>>
sockets     == <<connections, allConnections, clients>>
tasks       == <<handlers, reaper, handler, asked>>
dialogue    == <<client, interrupted, response>>
closing     == <<closer, toCancel, snapshot>>

vars == <<permissions, sockets, tasks, dialogue, server, closing>>

(* How a handler ends, and what a client is answered: the result or one of *)
(* the errors, which no property tells apart.                              *)
Endings == {"result", "failed"}

ClientsOf(p) == {c \in Clients : ParentOf[c] = p}

Running(c) == handler[c] = "running"
Ended(c) == handler[c] \notin {"none", "running"}

(* clients between _reserve_connection and _release_connection *)
Connected(c) == client[c] \in {"reading", "waiting", "givingUp"}

Answer(c, r) ==
  /\ client' = [client EXCEPT ![c] = "answering"]
  /\ response' = [response EXCEPT ![c] = r]

LessOne(n) == IF n > 0 THEN n - 1 ELSE 0

ReleaseOwn(c) == \* mutant: leaves the count over all parents alone
  /\ connections' = [connections EXCEPT ![ParentOf[c]] = LessOne(@)]
  /\ UNCHANGED <<allConnections, clients>>

Release(c) ==
  /\ connections' = [connections EXCEPT ![ParentOf[c]] = LessOne(@)]
  /\ allConnections' = LessOne(allConnections)
  /\ UNCHANGED clients

-----------------------------------------------------------------------------
(* Permissions *)

Activate(p) ==
  /\ ~closed
  /\ server[p] = "none"
  /\ p \notin active
  /\ active' = active \cup {p}
  /\ UNCHANGED <<closed, capable, sockets, tasks, dialogue, server, closing>>

Issue(p) ==
  /\ ~closed
  /\ server[p] = "none"
  /\ p \in active \ capable
  /\ capable' = capable \cup {p}
  /\ UNCHANGED <<closed, active, sockets, tasks, dialogue, server, closing>>

Expire(p) ==
  /\ p \in capable
  /\ capable' = capable \ {p}
  /\ UNCHANGED <<closed, active, sockets, tasks, dialogue, server, closing>>

(* _authorize, for the capability of parent q on the socket of c's parent *)
Authorized(c, q) ==
  /\ ~closed
  /\ q = ParentOf[c]
  /\ q \in active \cap capable

-----------------------------------------------------------------------------
(* Reapers *)

Abandon(p) == UNCHANGED reaper \* mutant: leaves the handler to itself

EnsureReaper(p) == reaper' = reaper \cup {p}

(* A handler a client or a cleanup is done with is forgotten once it has   *)
(* ended, and left to the reaper otherwise.                                *)
Forsake(p, S) ==
  /\ handlers' = [handlers EXCEPT ![p] = {c \in @ : c \notin S \/ ~Ended(c)}]
  /\ IF handlers'[p] # {} THEN EnsureReaper(p) ELSE UNCHANGED reaper

ReapOnce(p) == \* mutant: cancels what is left once and ends
  /\ p \in reaper
  /\ handlers' = [handlers EXCEPT ![p] = {c \in @ : ~Ended(c)}]
  /\ asked' = [c \in Clients |-> asked[c] \/ c \in handlers'[p]]
  /\ reaper' = reaper \ {p}
  /\ UNCHANGED <<permissions, sockets, handler, dialogue, server, closing>>

(* one round of _reap_handlers *)
Reap(p) ==
  LET left == {c \in handlers[p] : ~Ended(c)}
  IN /\ p \in reaper
     /\ handlers' = [handlers EXCEPT ![p] = left]
     /\ asked' = [c \in Clients |-> asked[c] \/ c \in left]
     /\ reaper' = IF left = {} THEN reaper \ {p} ELSE reaper
     /\ UNCHANGED <<permissions, sockets, handler, dialogue, server, closing>>

-----------------------------------------------------------------------------
(* Clients *)

(* The listening socket accepts; the client's task is yet to start. *)
Accept(c) ==
  /\ server[ParentOf[c]] \in {"serving", "revoking"}
  /\ client[c] = "idle"
  /\ client' = [client EXCEPT ![c] = "accepted"]
  /\ UNCHANGED <<permissions, sockets, tasks, interrupted, response, server,
                 closing>>

HasRoomOneMore(p) == \* mutant: one connection too many
  allConnections <= MaxGlobal /\ connections[p] <= MaxPerRun

HasRoom(p) == allConnections < MaxGlobal /\ connections[p] < MaxPerRun

ClientStarts(c) ==
  LET p == ParentOf[c]
  IN /\ client[c] = "accepted"
     /\ clients' = [clients EXCEPT ![p] = @ \cup {c}]
     /\ IF HasRoom(p)
          THEN /\ connections' = [connections EXCEPT ![p] = @ + 1]
               /\ allConnections' = allConnections + 1
               /\ client' = [client EXCEPT ![c] = "reading"]
               /\ UNCHANGED response
          ELSE /\ Answer(c, "failed")
               /\ UNCHANGED <<connections, allConnections>>
     /\ UNCHANGED <<permissions, tasks, interrupted, server, closing>>

(* no request in time, or one that is not acceptable *)
ReadFails(c) ==
  /\ client[c] = "reading"
  /\ ~interrupted[c]
  /\ Answer(c, "failed")
  /\ Release(c)
  /\ UNCHANGED <<permissions, tasks, interrupted, server, closing>>

(* A request with the capability of parent q, or with none, is authorized  *)
(* and its handler started without an await in between.                    *)
Request(c, q) ==
  /\ client[c] = "reading"
  /\ ~interrupted[c]
  /\ IF Authorized(c, q)
       THEN /\ client' = [client EXCEPT ![c] = "waiting"]
            /\ handler' = [handler EXCEPT ![c] = "running"]
            /\ handlers' = [handlers EXCEPT ![q] = @ \cup {c}]
            /\ UNCHANGED <<sockets, response>>
       ELSE /\ Answer(c, "failed")
            /\ Release(c)
            /\ UNCHANGED <<handler, handlers>>
  /\ UNCHANGED <<permissions, reaper, asked, interrupted, server, closing>>

(* A handler may end in any way at any time; it may ignore that it was     *)
(* asked to, or answer it with a result.                                   *)
HandlerEnds(c, how) ==
  /\ Running(c)
  /\ handler' = [handler EXCEPT ![c] = how]
  /\ UNCHANGED <<permissions, sockets, handlers, reaper, asked, dialogue,
                 server, closing>>

VerdictUnchecked(c) == handler[c] \* mutant: delivers after a revocation

Verdict(c) ==
  IF handler[c] = "result" /\ ParentOf[c] \notin active
    THEN "failed" ELSE handler[c]

HandlerAnswers(c) ==
  /\ client[c] = "waiting"
  /\ ~interrupted[c]
  /\ Ended(c)
  /\ Answer(c, Verdict(c))
  /\ handlers' = [handlers EXCEPT ![ParentOf[c]] = @ \ {c}]
  /\ Release(c)
  /\ UNCHANGED <<permissions, reaper, handler, asked, interrupted, server,
                 closing>>

(* handler_timeout_seconds is over: the handler is cancelled, repeatedly,  *)
(* for the grace period *)
HandlerTimesOut(c) ==
  /\ client[c] = "waiting"
  /\ ~interrupted[c]
  /\ Running(c)
  /\ client' = [client EXCEPT ![c] = "givingUp"]
  /\ asked' = [asked EXCEPT ![c] = TRUE]
  /\ UNCHANGED <<permissions, sockets, handlers, reaper, handler, interrupted,
                 response, server, closing>>

GivesUp(c) ==
  /\ client[c] = "givingUp"
  /\ ~interrupted[c]
  /\ Answer(c, "failed")
  /\ Forsake(ParentOf[c], {c})
  /\ Release(c)
  /\ UNCHANGED <<permissions, handler, asked, interrupted, server, closing>>

(* wait_for prefers a result that is there to the cancellation *)
LateVerdict(c) ==
  IF client[c] = "waiting" /\ Ended(c) THEN {Verdict(c)} ELSE {}

(* The cleanup of the run cancelled the client task.  A handler it waited  *)
(* for is left behind; a client that answers or that has not reserved a    *)
(* connection just ends.                                                   *)
ClientInterrupted(c) ==
  /\ interrupted[c]
  /\ interrupted' = [interrupted EXCEPT ![c] = FALSE]
  /\ IF Connected(c)
       THEN /\ \E r \in {"failed"} \cup LateVerdict(c) : Answer(c, r)
            /\ IF client[c] = "reading"
                 THEN UNCHANGED <<handlers, reaper>>
                 ELSE Forsake(ParentOf[c], {c})
            /\ Release(c)
       ELSE /\ client' = [client EXCEPT ![c] = "gone"]
            /\ clients' = [clients EXCEPT ![ParentOf[c]] = @ \ {c}]
            /\ response' = [response EXCEPT ![c] = "none"]
            /\ UNCHANGED <<handlers, reaper, connections, allConnections>>
  /\ UNCHANGED <<permissions, handler, asked, server, closing>>

Answered(c) ==
  /\ client[c] = "answering"
  /\ ~interrupted[c]
  /\ client' = [client EXCEPT ![c] = "gone"]
  /\ clients' = [clients EXCEPT ![ParentOf[c]] = @ \ {c}]
  /\ response' = [response EXCEPT ![c] = "none"]
  /\ UNCHANGED <<permissions, connections, allConnections, tasks, interrupted,
                 server, closing>>

-----------------------------------------------------------------------------
(* Serving a run *)

Serve(p) ==
  /\ ~closed
  /\ p \in active
  /\ server[p] = "none"
  /\ server' = [server EXCEPT ![p] = "serving"]
  /\ UNCHANGED <<permissions, sockets, tasks, dialogue, closing>>

(* revoke_parent, up to the end of the grace period of _cancel_handlers;   *)
(* the cleanup runs in a task of its own that no cancellation reaches      *)
CleanupStarts(p) ==
  /\ server[p] = "serving"
  /\ active' = active \ {p}
  /\ capable' = capable \ {p}
  /\ asked' = [c \in Clients |->
                 asked[c] \/ (c \in handlers[p] /\ Running(c))]
  /\ server' = [server EXCEPT ![p] = "revoking"]
  /\ UNCHANGED <<closed, sockets, handlers, reaper, handler, dialogue, closing>>

(* Then the socket is closed, which does not wait for open connections,    *)
(* and the clients get a grace period to end.                              *)
Unfinished(p) == {c \in clients[p] : client[c] # "gone"}

CleanupDrains(p) ==
  /\ server[p] = "revoking"
  /\ Forsake(p, handlers[p])
  /\ server' = [server EXCEPT ![p] =
                  IF Unfinished(p) = {} THEN "done" ELSE "draining"]
  /\ clients' = [clients EXCEPT ![p] = Unfinished(p)]
  /\ UNCHANGED <<permissions, connections, allConnections, handler, asked,
                 dialogue, closing>>

CleanupInterrupts(p) ==
  /\ server[p] = "draining"
  /\ interrupted' = [c \in Clients |->
                       interrupted[c] \/ (c \in Unfinished(p))]
  /\ server' = [server EXCEPT ![p] = "interrupting"]
  /\ UNCHANGED <<permissions, sockets, tasks, client, response, closing>>

CleanupEnds(p) ==
  /\ \/ server[p] = "draining" /\ Unfinished(p) = {}
     \/ server[p] = "interrupting"
  /\ clients' = [clients EXCEPT ![p] = {}]
  /\ server' = [server EXCEPT ![p] = "done"]
  /\ UNCHANGED <<permissions, connections, allConnections, tasks, dialogue,
                 closing>>

-----------------------------------------------------------------------------
(* aclose: cancel every parent's handlers, wait for the reapers, and close *)
(* only if nothing is left.                                                *)

CancelNext(left) ==
  LET todo == {p \in left : handlers[p] # {}}
  IN \/ /\ todo = {}
        /\ closer' = "reaping"
        /\ toCancel' = {}
        /\ snapshot' = {}
        /\ UNCHANGED asked
     \/ \E p \in todo :
          /\ closer' = "waiting"
          /\ toCancel' = todo \ {p}
          /\ snapshot' = handlers[p]
          /\ asked' = [c \in Clients |->
                         asked[c] \/ (c \in handlers[p] /\ Running(c))]

CloseStarts ==
  /\ ~closed
  /\ closer \in {"none", "failed"}
  /\ CancelNext(Parents)
  /\ UNCHANGED <<permissions, sockets, handlers, reaper, handler, dialogue,
                 server>>

(* the grace period of the handlers of one parent is over *)
CloseForsakes(p) ==
  /\ closer = "waiting"
  /\ snapshot \subseteq ClientsOf(p)
  /\ Forsake(p, snapshot)
  /\ CancelNext(toCancel)
  /\ UNCHANGED <<permissions, sockets, handler, dialogue, server>>

(* whoever awaits aclose is cancelled *)
CloseInterrupted ==
  /\ closer \in {"waiting", "reaping"}
  /\ closer' = "failed"
  /\ toCancel' = {}
  /\ snapshot' = {}
  /\ UNCHANGED <<permissions, sockets, tasks, dialogue, server>>

NothingTracked == \* mutant: forgets the reapers
  \A p \in Parents : \A c \in handlers[p] : Ended(c)

NothingLeft ==
  /\ reaper = {}
  /\ \A p \in Parents : \A c \in handlers[p] : Ended(c)

CloseEnds ==
  /\ closer = "reaping"
  /\ handlers' = [p \in Parents |-> {c \in handlers[p] : ~Ended(c)}]
  /\ reaper' = reaper \cup {p \in Parents : handlers'[p] # {}}
  /\ IF NothingLeft
       THEN /\ closed' = TRUE
            /\ active' = {}
            /\ capable' = {}
            /\ closer' = "none"
       ELSE /\ closer' = "failed"
            /\ UNCHANGED <<closed, active, capable>>
  /\ UNCHANGED <<sockets, handler, asked, dialogue, server, toCancel,
                 snapshot>>

-----------------------------------------------------------------------------
Init ==
  /\ closed = FALSE
  /\ active = {}
  /\ capable = {}
  /\ connections = [p \in Parents |-> 0]
  /\ allConnections = 0
  /\ clients = [p \in Parents |-> {}]
  /\ handlers = [p \in Parents |-> {}]
  /\ reaper = {}
  /\ client = [c \in Clients |-> "idle"]
  /\ interrupted = [c \in Clients |-> FALSE]
  /\ response = [c \in Clients |-> "none"]
  /\ handler = [c \in Clients |-> "none"]
  /\ asked = [c \in Clients |-> FALSE]
  /\ server = [p \in Parents |-> "none"]
  /\ closer = "none"
  /\ toCancel = {}
  /\ snapshot = {}

(* what the event loop does by itself: timeouts fire, tasks are resumed *)
ClientResumes(c) ==
  \/ ClientStarts(c)
  \/ ReadFails(c)
  \/ \E q \in Parents \cup {None} : Request(c, q)
  \/ HandlerAnswers(c)
  \/ HandlerTimesOut(c)
  \/ GivesUp(c)
  \/ ClientInterrupted(c)
  \/ Answered(c)

ClientNext(c) ==
  \/ Accept(c)
  \/ ClientResumes(c)
  \/ \E how \in Endings : HandlerEnds(c, how)

CleanupResumes(p) == CleanupDrains(p) \/ CleanupInterrupts(p) \/ CleanupEnds(p)

ParentNext(p) ==
  \/ Activate(p) \/ Issue(p) \/ Expire(p)
  \/ Serve(p) \/ CleanupStarts(p) \/ CleanupResumes(p)
  \/ Reap(p)
  \/ CloseForsakes(p)

Next ==
  \/ \E c \in Clients : ClientNext(c)
  \/ \E p \in Parents : ParentNext(p)
  \/ CloseStarts \/ CloseInterrupted \/ CloseEnds

Spec == Init /\ [][Next]_vars

(* Timers fire and tasks are resumed.  A handler need not end by itself;   *)
(* one that was asked to does so at some time, since the spawn handler     *)
(* answers a cancellation with the end of its run (code_executor.py).      *)
Fairness ==
  /\ \A c \in Clients :
       /\ WF_vars(ClientResumes(c))
       /\ WF_vars(asked[c] /\ \E how \in Endings : HandlerEnds(c, how))
  /\ \A p \in Parents : WF_vars(Reap(p)) /\ WF_vars(CleanupResumes(p))

FairSpec == Spec /\ Fairness

-----------------------------------------------------------------------------
(* Invariants *)

(* Type correctness.  A handler is tracked under the parent its capability *)
(* was issued for, so that this says that no capability works on another   *)
(* parent's socket.                                                        *)
TypeOK ==
  /\ closed \in BOOLEAN
  /\ active \subseteq Parents /\ capable \subseteq Parents
  /\ reaper \subseteq Parents
  /\ connections \in [Parents -> Nat] /\ allConnections \in Nat
  /\ clients \in [Parents -> SUBSET Clients]
  /\ handlers \in [Parents -> SUBSET Clients]
  /\ \A p \in Parents :
       clients[p] \subseteq ClientsOf(p) /\ handlers[p] \subseteq ClientsOf(p)
  /\ client \in [Clients -> {"idle", "accepted", "reading", "waiting",
                             "givingUp", "answering", "gone"}]
  /\ interrupted \in [Clients -> BOOLEAN]
  /\ response \in [Clients -> {"none"} \cup Endings]
  /\ handler \in [Clients -> {"none", "running"} \cup Endings]
  /\ asked \in [Clients -> BOOLEAN]
  /\ server \in [Parents -> {"none", "serving", "revoking", "draining",
                             "interrupting", "done"}]
  /\ closer \in {"none", "waiting", "reaping", "failed"}
  /\ toCancel \subseteq Parents /\ snapshot \subseteq Clients

(* The counts that enforce the limits are exact, whichever way a client    *)
(* ends: rejected, answered, timed out, interrupted.                       *)
ConnectionsExact ==
  /\ \A p \in Parents :
       /\ connections[p] = Cardinality({c \in ClientsOf(p) : Connected(c)})
       /\ connections[p] <= MaxPerRun
  /\ allConnections = Cardinality({c \in Clients : Connected(c)})
  /\ allConnections <= MaxGlobal

(* Cancellation leaves no orphan: a handler that still runs is tracked,    *)
(* and a client waits for it, or a reaper or a cleanup that will hand it   *)
(* to the reaper is after it.                                              *)
HandlersOwned ==
  \A c \in Clients : Running(c) =>
    /\ c \in handlers[ParentOf[c]]
    /\ \/ client[c] \in {"waiting", "givingUp"}
       \/ ParentOf[c] \in reaper
       \/ server[ParentOf[c]] = "revoking"

(* A closed authority is quiet: no handler and no reaper runs any more,    *)
(* though connections may still be open and handlers may have been started *)
(* while it was closing.                                                   *)
ClosedIsQuiet ==
  closed => reaper = {} /\ \A c \in Clients : ~Running(c)

(* Action properties *)

(* Once the cleanup of a run has revoked it, its clients get nothing: no   *)
(* handler is started for them and none of them is answered with a result, *)
(* be its handler already done.                                            *)
RevokedGetsNothing ==
  [][\A c \in Clients : server[ParentOf[c]] \notin {"none", "serving"} =>
       /\ Running(c)' => Running(c)
       /\ response'[c] = "result" => response[c] = "result"]_vars

(* Liveness *)

(* Every handler is ended and forgotten, even when its client gave up on   *)
(* it, was interrupted, or the authority failed to close.                  *)
HandlersEnd ==
  \A c \in Clients : Running(c) ~> c \notin handlers[ParentOf[c]]
=============================================================================
