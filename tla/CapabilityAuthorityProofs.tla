--------------------- MODULE CapabilityAuthorityProofs ---------------------
(***************************************************************************)
(* Proofs about CapabilityAuthority, for any number of parents and         *)
(* connections and any limits: the connection counts are exact, every      *)
(* handler has an owner, a revoked run gets nothing, and a closed          *)
(* authority is quiet.                                                     *)
(***************************************************************************)
EXTENDS CapabilityAuthority, FiniteSetTheorems, TLAPS

(* A client has no handler before its request is authorized. *)
Unserved ==
  \A c \in Clients :
    client[c] \in {"idle", "accepted", "reading"} => handler[c] = "none"

(* A closed authority tracks no handler either, so that nothing that ends  *)
(* late starts a reaper again.                                             *)
Quiet ==
  closed =>
    /\ reaper = {} /\ \A p \in Parents : handlers[p] = {}
    /\ \A c \in Clients : ~Running(c)

(* The cleanup of a run has taken its permission. *)
Revoked == \A p \in active : server[p] \in {"none", "serving"}

Inv ==
  /\ TypeOK /\ ConnectionsExact
  /\ Unserved /\ HandlersOwned
  /\ Quiet /\ Revoked

-----------------------------------------------------------------------------
(* The counts *)

ConnectedTo(p) == {c \in ClientsOf(p) : Connected(c)}
AllConnected == {c \in Clients : Connected(c)}

(* Finitely many connections are open. *)
LEMMA ConnectedFinite ==
  ASSUME NEW p
  PROVE  /\ IsFiniteSet(ConnectedTo(p)) /\ Cardinality(ConnectedTo(p)) \in Nat
         /\ IsFiniteSet(AllConnected) /\ Cardinality(AllConnected) \in Nat
<1>1. ConnectedTo(p) \in SUBSET Clients /\ AllConnected \in SUBSET Clients
  BY DEF ConnectedTo, ClientsOf, AllConnected
<1>. QED BY <1>1, ClientsAssumption, FS_Subset, FS_CardinalityType

(* No client reserves or releases a connection. *)
LEMMA CountsSame ==
  ASSUME ConnectionsExact, UNCHANGED <<connections, allConnections>>,
         \A c \in Clients : Connected(c)' <=> Connected(c)
  PROVE  ConnectionsExact'
<1>1. \A p \in Parents : {c \in ClientsOf(p) : Connected(c)}' =
                         {c \in ClientsOf(p) : Connected(c)}
  BY DEF ClientsOf
<1>2. {c \in Clients : Connected(c)}' = {c \in Clients : Connected(c)}
  OBVIOUS
<1>. QED BY <1>1, <1>2 DEF ConnectionsExact

(* A client reserves a connection. *)
LEMMA CountsMore ==
  ASSUME TypeOK, ConnectionsExact, NEW c \in Clients, HasRoom(ParentOf[c]),
         ~Connected(c), Connected(c)',
         \A d \in Clients \ {c} : Connected(d)' <=> Connected(d),
         connections' = [connections EXCEPT ![ParentOf[c]] = @ + 1],
         allConnections' = allConnections + 1
  PROVE  ConnectionsExact'
<1>. DEFINE p == ParentOf[c]
<1>0. p \in Parents
  BY ParentOfAssumption
<1>1. ConnectedTo(p)' = ConnectedTo(p) \cup {c} /\ c \notin ConnectedTo(p)
  BY DEF ConnectedTo, ClientsOf
<1>2. AllConnected' = AllConnected \cup {c} /\ c \notin AllConnected
  BY DEF AllConnected
<1>3. ASSUME NEW q \in Parents \ {p} PROVE ConnectedTo(q)' = ConnectedTo(q)
  BY DEF ConnectedTo, ClientsOf
<1>4. Cardinality(ConnectedTo(p)') = Cardinality(ConnectedTo(p)) + 1
  BY <1>1, ConnectedFinite, FS_AddElement
<1>5. Cardinality(AllConnected') = Cardinality(AllConnected) + 1
  BY <1>2, ConnectedFinite, FS_AddElement
<1>6. /\ connections[p] = Cardinality(ConnectedTo(p))
      /\ allConnections = Cardinality(AllConnected)
  BY <1>0 DEF ConnectionsExact, ConnectedTo, AllConnected
<1>7. /\ connections'[p] = connections[p] + 1
      /\ \A q \in Parents \ {p} : connections'[q] = connections[q]
  BY <1>0 DEF TypeOK
<1>8. connections[p] \in Nat /\ allConnections \in Nat
  BY <1>0 DEF TypeOK
<1>9. connections'[p] <= MaxPerRun /\ allConnections' <= MaxGlobal
  BY <1>7, <1>8, LimitAssumption DEF HasRoom
<1>10. ASSUME NEW q \in Parents
       PROVE  /\ connections'[q] = Cardinality(ConnectedTo(q)')
              /\ connections'[q] <= MaxPerRun
  <2>1. CASE q = p
    BY <1>4, <1>6, <1>7, <1>9, <2>1
  <2>2. CASE q # p
    BY <1>3, <1>7, <2>2 DEF ConnectionsExact, ConnectedTo
  <2>. QED BY <2>1, <2>2
<1>. QED
  BY <1>5, <1>6, <1>9, <1>10 DEF ConnectionsExact, ConnectedTo, AllConnected

(* A client releases its connection: the count it takes one from is not 0. *)
LEMMA CountsLess ==
  ASSUME TypeOK, ConnectionsExact, NEW c \in Clients, Release(c),
         Connected(c), ~Connected(c)',
         \A d \in Clients \ {c} : Connected(d)' <=> Connected(d)
  PROVE  ConnectionsExact'
<1>. DEFINE p == ParentOf[c]
<1>0. p \in Parents
  BY ParentOfAssumption
<1>1. ConnectedTo(p)' = ConnectedTo(p) \ {c} /\ c \in ConnectedTo(p)
  BY DEF ConnectedTo, ClientsOf
<1>2. AllConnected' = AllConnected \ {c} /\ c \in AllConnected
  BY DEF AllConnected
<1>3. ASSUME NEW q \in Parents \ {p} PROVE ConnectedTo(q)' = ConnectedTo(q)
  BY DEF ConnectedTo, ClientsOf
<1>4. Cardinality(ConnectedTo(p)') = Cardinality(ConnectedTo(p)) - 1
  BY <1>1, ConnectedFinite, FS_RemoveElement
<1>5. Cardinality(AllConnected') = Cardinality(AllConnected) - 1
  BY <1>2, ConnectedFinite, FS_RemoveElement
<1>6. /\ connections[p] = Cardinality(ConnectedTo(p))
      /\ allConnections = Cardinality(AllConnected)
      /\ connections[p] <= MaxPerRun /\ allConnections <= MaxGlobal
  BY <1>0 DEF ConnectionsExact, ConnectedTo, AllConnected
<1>7. connections[p] # 0 /\ allConnections # 0
  BY <1>1, <1>2, <1>6, ConnectedFinite, FS_EmptySet
<1>8. connections[p] \in Nat /\ allConnections \in Nat
  BY <1>0 DEF TypeOK
<1>9. /\ connections'[p] = connections[p] - 1
      /\ allConnections' = allConnections - 1
      /\ \A q \in Parents \ {p} : connections'[q] = connections[q]
  BY <1>0, <1>7, <1>8 DEF TypeOK, Release, LessOne
<1>10. ASSUME NEW q \in Parents
       PROVE  /\ connections'[q] = Cardinality(ConnectedTo(q)')
              /\ connections'[q] <= MaxPerRun
  <2>1. CASE q = p
    BY <1>4, <1>6, <1>8, <1>9, <2>1, LimitAssumption
  <2>2. CASE q # p
    BY <1>3, <1>9, <2>2 DEF ConnectionsExact, ConnectedTo
  <2>. QED BY <2>1, <2>2
<1>11. allConnections' <= MaxGlobal
  BY <1>6, <1>8, <1>9, LimitAssumption
<1>. QED
  BY <1>5, <1>6, <1>9, <1>10, <1>11
     DEF ConnectionsExact, ConnectedTo, AllConnected

-----------------------------------------------------------------------------
(* The steps *)

(* A release leaves the counts natural numbers. *)
LEMMA ReleaseTyped ==
  ASSUME TypeOK, NEW c \in Clients, Release(c)
  PROVE  connections' \in [Parents -> Nat] /\ allConnections' \in Nat
<1>1. \A n \in Nat : LessOne(n) \in Nat
  BY DEF LessOne
<1>2. connections[ParentOf[c]] \in Nat
  BY ParentOfAssumption DEF TypeOK
<1>. QED BY <1>1, <1>2 DEF TypeOK, Release

(* A closed authority has nothing to leave to a reaper. *)
LEMMA QuietForsake ==
  ASSUME TypeOK, Quiet, closed, NEW p \in Parents, NEW S, Forsake(p, S)
  PROVE  reaper' = {} /\ \A q \in Parents : handlers'[q] = {}
<1>1. \A q \in Parents : handlers'[q] \subseteq handlers[q]
  BY DEF Forsake, TypeOK
<1>2. \A q \in Parents : handlers'[q] = {}
  BY <1>1 DEF Quiet
<1>. QED BY <1>2 DEF Forsake, Quiet

(* A parent is activated. *)
LEMMA ActivateKeeps ==
  ASSUME Inv, NEW p \in Parents, Activate(p)
  PROVE  Inv'
<1>. USE ParentOfAssumption DEF Inv, TypeOK, ClientsOf, permissions, sockets,
         tasks, dialogue, closing, Activate
<1>1. TypeOK'
  OBVIOUS
<1>2. ConnectionsExact'
  BY CountsSame DEF Connected
<1>3. Unserved'
  BY DEF Unserved
<1>4. HandlersOwned'
  BY DEF HandlersOwned, Running
<1>5. Quiet'
  BY DEF Quiet, Running
<1>6. Revoked'
  BY DEF Revoked
<1>. QED BY <1>1, <1>2, <1>3, <1>4, <1>5, <1>6

(* Its capability is issued. *)
LEMMA IssueKeeps ==
  ASSUME Inv, NEW p \in Parents, Issue(p)
  PROVE  Inv'
<1>. USE ParentOfAssumption DEF Inv, TypeOK, ClientsOf, permissions, sockets,
         tasks, dialogue, closing, Issue
<1>1. TypeOK'
  OBVIOUS
<1>2. ConnectionsExact'
  BY CountsSame DEF Connected
<1>3. Unserved'
  BY DEF Unserved
<1>4. HandlersOwned'
  BY DEF HandlersOwned, Running
<1>5. Quiet'
  BY DEF Quiet, Running
<1>6. Revoked'
  BY DEF Revoked
<1>. QED BY <1>1, <1>2, <1>3, <1>4, <1>5, <1>6

(* Its capability expires. *)
LEMMA ExpireKeeps ==
  ASSUME Inv, NEW p \in Parents, Expire(p)
  PROVE  Inv'
<1>. USE ParentOfAssumption DEF Inv, TypeOK, ClientsOf, permissions, sockets,
         tasks, dialogue, closing, Expire
<1>1. TypeOK'
  OBVIOUS
<1>2. ConnectionsExact'
  BY CountsSame DEF Connected
<1>3. Unserved'
  BY DEF Unserved
<1>4. HandlersOwned'
  BY DEF HandlersOwned, Running
<1>5. Quiet'
  BY DEF Quiet, Running
<1>6. Revoked'
  BY DEF Revoked
<1>. QED BY <1>1, <1>2, <1>3, <1>4, <1>5, <1>6

(* A reaper goes round. *)
LEMMA ReapKeeps ==
  ASSUME Inv, NEW p \in Parents, Reap(p)
  PROVE  Inv'
<1>. USE ParentOfAssumption DEF Inv, TypeOK, ClientsOf, permissions, sockets,
         tasks, dialogue, closing, Reap, Ended
<1>1. TypeOK'
  OBVIOUS
<1>2. ConnectionsExact'
  BY CountsSame DEF Connected
<1>3. Unserved'
  BY DEF Unserved
<1>4. HandlersOwned'
  BY DEF HandlersOwned, Running
<1>5. Quiet'
  BY DEF Quiet, Running
<1>6. Revoked'
  BY DEF Revoked
<1>. QED BY <1>1, <1>2, <1>3, <1>4, <1>5, <1>6

(* A connection is accepted. *)
LEMMA AcceptKeeps ==
  ASSUME Inv, NEW c \in Clients, Accept(c)
  PROVE  Inv'
<1>. USE ParentOfAssumption DEF Inv, TypeOK, ClientsOf, permissions, sockets,
         tasks, dialogue, closing, Accept
<1>1. TypeOK'
  OBVIOUS
<1>2. ConnectionsExact'
  BY CountsSame DEF Connected
<1>3. Unserved'
  BY DEF Unserved
<1>4. HandlersOwned'
  BY DEF HandlersOwned, Running
<1>5. Quiet'
  BY DEF Quiet, Running
<1>6. Revoked'
  BY DEF Revoked
<1>. QED BY <1>1, <1>2, <1>3, <1>4, <1>5, <1>6

(* A client reserves a connection or is refused. *)
LEMMA ClientStartsKeeps ==
  ASSUME Inv, NEW c \in Clients, ClientStarts(c)
  PROVE  Inv'
<1>. USE ParentOfAssumption DEF Inv, TypeOK, ClientsOf, permissions, sockets,
         tasks, dialogue, closing, ClientStarts, Answer
<1>1. TypeOK'
  BY SMTT(30) DEF Endings
<1>2. ConnectionsExact'
  <2>1. CASE HasRoom(ParentOf[c])
    <3>1. ~Connected(c) /\ Connected(c)'
      BY <2>1 DEF Connected
    <3>2. \A d \in Clients \ {c} : Connected(d)' <=> Connected(d)
      BY <2>1 DEF Connected
    <3>. QED BY <2>1, <3>1, <3>2, CountsMore
  <2>2. CASE ~HasRoom(ParentOf[c])
    <3>1. \A d \in Clients : Connected(d)' <=> Connected(d)
      BY <2>2 DEF Connected
    <3>. QED BY <2>2, <3>1, CountsSame
  <2>. QED BY <2>1, <2>2
<1>3. Unserved'
  BY DEF Unserved
<1>4. HandlersOwned'
  BY DEF HandlersOwned, Running
<1>5. Quiet'
  BY DEF Quiet, Running
<1>6. Revoked'
  BY DEF Revoked
<1>. QED BY <1>1, <1>2, <1>3, <1>4, <1>5, <1>6

(* A client sends no acceptable request. *)
LEMMA ReadFailsKeeps ==
  ASSUME Inv, NEW c \in Clients, ReadFails(c)
  PROVE  Inv'
<1>. USE ParentOfAssumption DEF Inv, TypeOK, ClientsOf, permissions, sockets,
         tasks, dialogue, closing, ReadFails, Answer
<1>1. TypeOK'
  <2>1. connections' \in [Parents -> Nat] /\ allConnections' \in Nat
    BY ReleaseTyped
  <2>2. clients' = clients
    BY DEF Release
  <2>. QED BY <2>1, <2>2 DEF Endings
<1>2. ConnectionsExact'
  <2>1. Connected(c) /\ ~Connected(c)'
    BY DEF Connected
  <2>2. \A d \in Clients \ {c} : Connected(d)' <=> Connected(d)
    BY DEF Connected
  <2>. QED BY <2>1, <2>2, CountsLess
<1>3. Unserved'
  BY DEF Unserved
<1>4. HandlersOwned'
  BY DEF HandlersOwned, Running
<1>5. Quiet'
  BY DEF Quiet, Running
<1>6. Revoked'
  BY DEF Revoked
<1>. QED BY <1>1, <1>2, <1>3, <1>4, <1>5, <1>6

(* A request is authorized or refused. *)
LEMMA RequestKeeps ==
  ASSUME Inv, NEW c \in Clients, NEW q \in Parents \cup {None}, Request(c, q)
  PROVE  Inv'
<1>. USE ParentOfAssumption DEF Inv, TypeOK, ClientsOf, permissions, sockets,
         tasks, dialogue, closing, Request, Authorized, Answer
<1>1. TypeOK'
  <2>1. CASE Authorized(c, q)
    <3>1. handler' \in [Clients -> {"none", "running"} \cup Endings]
      BY <2>1
    <3>2. /\ handlers' \in [Parents -> SUBSET Clients]
          /\ \A p \in Parents : handlers'[p] \subseteq ClientsOf(p)
      BY <2>1, SMTT(30)
    <3>. QED BY <2>1, <3>1, <3>2
  <2>2. CASE ~Authorized(c, q)
    <3>1. connections' \in [Parents -> Nat] /\ allConnections' \in Nat
      BY <2>2, ReleaseTyped
    <3>2. clients' = clients
      BY <2>2 DEF Release
    <3>3. response' \in [Clients -> {"none"} \cup Endings]
      BY <2>2 DEF Endings
    <3>. QED BY <2>2, <3>1, <3>2, <3>3
  <2>. QED BY <2>1, <2>2
<1>2. ConnectionsExact'
  <2>1. CASE Authorized(c, q)
    <3>1. \A d \in Clients : Connected(d)' <=> Connected(d)
      BY <2>1 DEF Connected
    <3>. QED BY <2>1, <3>1, CountsSame
  <2>2. CASE ~Authorized(c, q)
    <3>1. Connected(c) /\ ~Connected(c)'
      BY <2>2 DEF Connected
    <3>2. \A d \in Clients \ {c} : Connected(d)' <=> Connected(d)
      BY <2>2 DEF Connected
    <3>. QED BY <2>2, <3>1, <3>2, CountsLess
  <2>. QED BY <2>1, <2>2
<1>3. Unserved'
  BY DEF Unserved
<1>4. HandlersOwned'
  BY DEF HandlersOwned, Running
<1>5. Quiet'
  BY DEF Quiet, Running
<1>6. Revoked'
  BY DEF Revoked
<1>. QED BY <1>1, <1>2, <1>3, <1>4, <1>5, <1>6

(* A handler ends. *)
LEMMA HandlerEndsKeeps ==
  ASSUME Inv, NEW c \in Clients, NEW how \in Endings, HandlerEnds(c, how)
  PROVE  Inv'
<1>. USE ParentOfAssumption DEF Inv, TypeOK, ClientsOf, permissions, sockets,
         tasks, dialogue, closing, HandlerEnds
<1>1. TypeOK'
  BY DEF Endings
<1>2. ConnectionsExact'
  BY CountsSame DEF Connected
<1>3. Unserved'
  BY DEF Unserved, Running
<1>4. HandlersOwned'
  BY DEF HandlersOwned, Running
<1>5. Quiet'
  BY DEF Quiet, Running
<1>6. Revoked'
  BY DEF Revoked
<1>. QED BY <1>1, <1>2, <1>3, <1>4, <1>5, <1>6

(* A client is answered. *)
LEMMA HandlerAnswersKeeps ==
  ASSUME Inv, NEW c \in Clients, HandlerAnswers(c)
  PROVE  Inv'
<1>. USE ParentOfAssumption DEF Inv, TypeOK, ClientsOf, permissions, sockets,
         tasks, dialogue, closing, HandlerAnswers, Answer
<1>1. TypeOK'
  <2>1. connections' \in [Parents -> Nat] /\ allConnections' \in Nat
    BY ReleaseTyped
  <2>2. clients' = clients
    BY DEF Release
  <2>3. response' \in [Clients -> {"none"} \cup Endings]
    BY DEF Verdict, Ended, Endings
  <2>4. /\ handlers' \in [Parents -> SUBSET Clients]
        /\ \A p \in Parents : handlers'[p] \subseteq ClientsOf(p)
    OBVIOUS
  <2>. QED BY <2>1, <2>2, <2>3, <2>4
<1>2. ConnectionsExact'
  <2>1. Connected(c) /\ ~Connected(c)'
    BY DEF Connected
  <2>2. \A d \in Clients \ {c} : Connected(d)' <=> Connected(d)
    BY DEF Connected
  <2>. QED BY <2>1, <2>2, CountsLess
<1>3. Unserved'
  BY DEF Unserved, Ended
<1>4. HandlersOwned'
  BY DEF HandlersOwned, Running, Ended
<1>5. Quiet'
  BY DEF Quiet, Running, Ended
<1>6. Revoked'
  BY DEF Revoked, Ended
<1>. QED BY <1>1, <1>2, <1>3, <1>4, <1>5, <1>6

(* A handler times out. *)
LEMMA HandlerTimesOutKeeps ==
  ASSUME Inv, NEW c \in Clients, HandlerTimesOut(c)
  PROVE  Inv'
<1>. USE ParentOfAssumption DEF Inv, TypeOK, ClientsOf, permissions, sockets,
         tasks, dialogue, closing, HandlerTimesOut
<1>1. TypeOK'
  OBVIOUS
<1>2. ConnectionsExact'
  BY CountsSame DEF Connected
<1>3. Unserved'
  BY DEF Unserved
<1>4. HandlersOwned'
  BY DEF HandlersOwned, Running
<1>5. Quiet'
  BY DEF Quiet, Running
<1>6. Revoked'
  BY DEF Revoked
<1>. QED BY <1>1, <1>2, <1>3, <1>4, <1>5, <1>6

(* A client gives up on its handler. *)
LEMMA GivesUpKeeps ==
  ASSUME Inv, NEW c \in Clients, GivesUp(c)
  PROVE  Inv'
<1>. USE ParentOfAssumption DEF Inv, TypeOK, ClientsOf, permissions, sockets,
         tasks, dialogue, closing, GivesUp, Answer
<1>1. TypeOK'
  <2>1. connections' \in [Parents -> Nat] /\ allConnections' \in Nat
    BY ReleaseTyped
  <2>2. clients' = clients
    BY DEF Release
  <2>3. response' \in [Clients -> {"none"} \cup Endings]
    BY DEF Endings
  <2>4. handlers' =
          [handlers EXCEPT ![ParentOf[c]] = {d \in @ : d # c \/ ~Ended(d)}]
    BY DEF Forsake
  <2>5. handlers' \in [Parents -> SUBSET Clients]
    BY <2>4
  <2>6. reaper' \in {reaper, reaper \cup {ParentOf[c]}}
    BY DEF Forsake, EnsureReaper
  <2>7. \A p \in Parents : handlers'[p] \subseteq handlers[p]
    BY <2>4
  <2>. QED BY <2>1, <2>2, <2>3, <2>5, <2>6, <2>7
<1>2. ConnectionsExact'
  <2>1. Connected(c) /\ ~Connected(c)'
    BY DEF Connected
  <2>2. \A d \in Clients \ {c} : Connected(d)' <=> Connected(d)
    BY DEF Connected
  <2>. QED BY <2>1, <2>2, CountsLess
<1>3. Unserved'
  BY DEF Unserved, Forsake, EnsureReaper, Ended
<1>4. HandlersOwned'
  BY DEF HandlersOwned, Running, Forsake, EnsureReaper, Ended
<1>5. Quiet'
  <2>. SUFFICES ASSUME closed PROVE Quiet'
    BY DEF Quiet
  <2>1. reaper' = {} /\ \A q \in Parents : handlers'[q] = {}
    BY QuietForsake
  <2>. QED BY <2>1 DEF Quiet, Running
<1>6. Revoked'
  BY DEF Revoked, Forsake, EnsureReaper, Ended
<1>. QED BY <1>1, <1>2, <1>3, <1>4, <1>5, <1>6

(* A client is interrupted. *)
LEMMA ClientInterruptedKeeps ==
  ASSUME Inv, NEW c \in Clients, ClientInterrupted(c)
  PROVE  Inv'
<1>. USE ParentOfAssumption DEF Inv, TypeOK, ClientsOf, permissions, sockets,
         tasks, dialogue, closing, ClientInterrupted, Answer
<1>1. TypeOK'
  <2>1. CASE Connected(c)
    <3>1. connections' \in [Parents -> Nat] /\ allConnections' \in Nat
      BY <2>1, ReleaseTyped
    <3>2. clients' = clients
      BY <2>1 DEF Release
    <3>3. response' \in [Clients -> {"none"} \cup Endings]
      BY <2>1 DEF LateVerdict, Verdict, Ended, Endings
    <3>. QED BY <2>1, <3>1, <3>2, <3>3 DEF Forsake, EnsureReaper
  <2>2. CASE ~Connected(c)
    <3>1. interrupted' \in [Clients -> BOOLEAN]
      OBVIOUS
    <3>2. /\ clients' \in [Parents -> SUBSET Clients]
          /\ \A p \in Parents : clients'[p] \subseteq ClientsOf(p)
      BY <2>2, SMTT(30)
    <3>. QED BY <2>2, <3>1, <3>2
  <2>. QED BY <2>1, <2>2
<1>2. ConnectionsExact'
  <2>1. \A d \in Clients \ {c} : Connected(d)' <=> Connected(d)
    BY DEF Connected
  <2>2. CASE Connected(c)
    <3>1. ~Connected(c)'
      BY <2>2 DEF Connected
    <3>. QED BY <2>1, <2>2, <3>1, CountsLess
  <2>3. CASE ~Connected(c)
    <3>1. ~Connected(c)'
      BY <2>3 DEF Connected
    <3>. QED BY <2>1, <2>3, <3>1, CountsSame
  <2>. QED BY <2>2, <2>3
<1>3. Unserved'
  BY DEF Unserved, Forsake, EnsureReaper, Ended
<1>4. HandlersOwned'
  <2>1. UNCHANGED <<handler, server>>
    OBVIOUS
  <2>2. \A d \in Clients \ {c} : client'[d] = client[d]
    OBVIOUS
  <2>3. CASE client[c] \in {"waiting", "givingUp"}
    <3>1. Forsake(ParentOf[c], {c})
      BY <2>3 DEF Connected
    <3>. QED BY <2>1, <2>2, <3>1
             DEF HandlersOwned, Running, Forsake, EnsureReaper, Ended
  <2>4. CASE client[c] \notin {"waiting", "givingUp"}
    <3>1. UNCHANGED <<handlers, reaper>>
      BY <2>4 DEF Connected
    <3>. QED BY <2>1, <2>2, <2>4, <3>1 DEF HandlersOwned, Running
  <2>. QED BY <2>3, <2>4
<1>5. Quiet'
  <2>. SUFFICES ASSUME closed PROVE Quiet'
    BY DEF Quiet
  <2>1. reaper' = {} /\ \A q \in Parents : handlers'[q] = {}
    <3>1. CASE UNCHANGED <<handlers, reaper>>
      BY <3>1 DEF Quiet
    <3>2. CASE Forsake(ParentOf[c], {c})
      BY <3>2, QuietForsake
    <3>. QED BY <3>1, <3>2
  <2>. QED BY <2>1 DEF Quiet, Running
<1>6. Revoked'
  BY DEF Revoked, Forsake, EnsureReaper, Ended
<1>. QED BY <1>1, <1>2, <1>3, <1>4, <1>5, <1>6

(* A client is gone. *)
LEMMA AnsweredKeeps ==
  ASSUME Inv, NEW c \in Clients, Answered(c)
  PROVE  Inv'
<1>. USE ParentOfAssumption DEF Inv, TypeOK, ClientsOf, permissions, sockets,
         tasks, dialogue, closing, Answered
<1>1. TypeOK'
  BY ZenonT(30)
<1>2. ConnectionsExact'
  BY CountsSame DEF Connected
<1>3. Unserved'
  BY DEF Unserved
<1>4. HandlersOwned'
  BY DEF HandlersOwned, Running
<1>5. Quiet'
  BY DEF Quiet, Running
<1>6. Revoked'
  BY DEF Revoked
<1>. QED BY <1>1, <1>2, <1>3, <1>4, <1>5, <1>6

(* A run is served. *)
LEMMA ServeKeeps ==
  ASSUME Inv, NEW p \in Parents, Serve(p)
  PROVE  Inv'
<1>. USE ParentOfAssumption DEF Inv, TypeOK, ClientsOf, permissions, sockets,
         tasks, dialogue, closing, Serve
<1>1. TypeOK'
  OBVIOUS
<1>2. ConnectionsExact'
  BY CountsSame DEF Connected
<1>3. Unserved'
  BY DEF Unserved
<1>4. HandlersOwned'
  BY DEF HandlersOwned, Running
<1>5. Quiet'
  BY DEF Quiet, Running
<1>6. Revoked'
  BY DEF Revoked
<1>. QED BY <1>1, <1>2, <1>3, <1>4, <1>5, <1>6

(* Its cleanup revokes it. *)
LEMMA CleanupStartsKeeps ==
  ASSUME Inv, NEW p \in Parents, CleanupStarts(p)
  PROVE  Inv'
<1>. USE ParentOfAssumption DEF Inv, TypeOK, ClientsOf, permissions, sockets,
         tasks, dialogue, closing, CleanupStarts
<1>1. TypeOK'
  OBVIOUS
<1>2. ConnectionsExact'
  BY CountsSame DEF Connected
<1>3. Unserved'
  BY DEF Unserved
<1>4. HandlersOwned'
  BY DEF HandlersOwned, Running
<1>5. Quiet'
  BY DEF Quiet, Running
<1>6. Revoked'
  BY DEF Revoked
<1>. QED BY <1>1, <1>2, <1>3, <1>4, <1>5, <1>6

(* Its handlers are left to the reaper. *)
LEMMA CleanupDrainsKeeps ==
  ASSUME Inv, NEW p \in Parents, CleanupDrains(p)
  PROVE  Inv'
<1>. USE ParentOfAssumption DEF Inv, TypeOK, ClientsOf, permissions, sockets,
         tasks, dialogue, closing, CleanupDrains, Forsake, EnsureReaper, Ended,
         Unfinished
<1>1. TypeOK'
  OBVIOUS
<1>2. ConnectionsExact'
  BY CountsSame DEF Connected
<1>3. Unserved'
  BY DEF Unserved
<1>4. HandlersOwned'
  BY DEF HandlersOwned, Running
<1>5. Quiet'
  BY DEF Quiet, Running
<1>6. Revoked'
  BY DEF Revoked
<1>. QED BY <1>1, <1>2, <1>3, <1>4, <1>5, <1>6

(* Its clients are interrupted. *)
LEMMA CleanupInterruptsKeeps ==
  ASSUME Inv, NEW p \in Parents, CleanupInterrupts(p)
  PROVE  Inv'
<1>. USE ParentOfAssumption DEF Inv, TypeOK, ClientsOf, permissions, sockets,
         tasks, dialogue, closing, CleanupInterrupts, Unfinished
<1>1. TypeOK'
  OBVIOUS
<1>2. ConnectionsExact'
  BY CountsSame DEF Connected
<1>3. Unserved'
  BY DEF Unserved
<1>4. HandlersOwned'
  BY DEF HandlersOwned, Running
<1>5. Quiet'
  BY DEF Quiet, Running
<1>6. Revoked'
  BY DEF Revoked
<1>. QED BY <1>1, <1>2, <1>3, <1>4, <1>5, <1>6

(* Its cleanup ends. *)
LEMMA CleanupEndsKeeps ==
  ASSUME Inv, NEW p \in Parents, CleanupEnds(p)
  PROVE  Inv'
<1>. USE ParentOfAssumption DEF Inv, TypeOK, ClientsOf, permissions, sockets,
         tasks, dialogue, closing, CleanupEnds
<1>1. TypeOK'
  OBVIOUS
<1>2. ConnectionsExact'
  BY CountsSame DEF Connected
<1>3. Unserved'
  BY DEF Unserved
<1>4. HandlersOwned'
  BY DEF HandlersOwned, Running
<1>5. Quiet'
  BY DEF Quiet, Running
<1>6. Revoked'
  BY DEF Revoked
<1>. QED BY <1>1, <1>2, <1>3, <1>4, <1>5, <1>6

(* The authority starts to close. *)
LEMMA CloseStartsKeeps ==
  ASSUME Inv, CloseStarts
  PROVE  Inv'
<1>. USE ParentOfAssumption DEF Inv, TypeOK, ClientsOf, permissions, sockets,
         tasks, dialogue, closing, CloseStarts, CancelNext
<1>1. TypeOK'
  <2>1. asked' \in [Clients -> BOOLEAN]
    <3>1. CASE UNCHANGED asked
      BY <3>1
    <3>2. ASSUME NEW p \in Parents,
                 asked' = [c \in Clients |->
                             asked[c] \/ (c \in handlers[p] /\ Running(c))]
          PROVE  asked' \in [Clients -> BOOLEAN]
      BY <3>2, Zenon
    <3>. QED BY <3>1, <3>2
  <2>2. toCancel' \subseteq Parents /\ snapshot' \subseteq Clients
    OBVIOUS
  <2>3. closer' \in {"none", "waiting", "reaping", "failed"}
    OBVIOUS
  <2>. QED BY <2>1, <2>2, <2>3
<1>2. ConnectionsExact'
  BY CountsSame DEF Connected
<1>3. Unserved'
  BY DEF Unserved
<1>4. HandlersOwned'
  BY DEF HandlersOwned, Running
<1>5. Quiet'
  BY DEF Quiet, Running
<1>6. Revoked'
  BY DEF Revoked
<1>. QED BY <1>1, <1>2, <1>3, <1>4, <1>5, <1>6

(* It leaves the handlers of a parent to the reaper. *)
LEMMA CloseForsakesKeeps ==
  ASSUME Inv, NEW p \in Parents, CloseForsakes(p)
  PROVE  Inv'
<1>. USE ParentOfAssumption DEF Inv, TypeOK, ClientsOf, permissions, sockets,
         tasks, dialogue, closing, CloseForsakes, CancelNext, Forsake,
         EnsureReaper, Ended
<1>1. TypeOK'
  <2>1. asked' \in [Clients -> BOOLEAN]
    <3>1. CASE UNCHANGED asked
      BY <3>1
    <3>2. ASSUME NEW q \in Parents,
                 asked' = [c \in Clients |->
                             asked[c] \/ (c \in handlers[q] /\ Running(c))]
          PROVE  asked' \in [Clients -> BOOLEAN]
      BY <3>2, Zenon
    <3>. QED BY <3>1, <3>2
  <2>2. toCancel' \subseteq Parents /\ snapshot' \subseteq Clients
    OBVIOUS
  <2>3. closer' \in {"none", "waiting", "reaping", "failed"}
    OBVIOUS
  <2>. QED BY <2>1, <2>2, <2>3
<1>2. ConnectionsExact'
  BY CountsSame DEF Connected
<1>3. Unserved'
  BY DEF Unserved
<1>4. HandlersOwned'
  BY DEF HandlersOwned, Running
<1>5. Quiet'
  BY DEF Quiet, Running
<1>6. Revoked'
  BY DEF Revoked
<1>. QED BY <1>1, <1>2, <1>3, <1>4, <1>5, <1>6

(* Its closing is interrupted. *)
LEMMA CloseInterruptedKeeps ==
  ASSUME Inv, CloseInterrupted
  PROVE  Inv'
<1>. USE ParentOfAssumption DEF Inv, TypeOK, ClientsOf, permissions, sockets,
         tasks, dialogue, closing, CloseInterrupted
<1>1. TypeOK'
  OBVIOUS
<1>2. ConnectionsExact'
  BY CountsSame DEF Connected
<1>3. Unserved'
  BY DEF Unserved
<1>4. HandlersOwned'
  BY DEF HandlersOwned, Running
<1>5. Quiet'
  BY DEF Quiet, Running
<1>6. Revoked'
  BY DEF Revoked
<1>. QED BY <1>1, <1>2, <1>3, <1>4, <1>5, <1>6

(* It closes, or fails to. *)
LEMMA CloseEndsKeeps ==
  ASSUME Inv, CloseEnds
  PROVE  Inv'
<1>. USE ParentOfAssumption DEF Inv, TypeOK, ClientsOf, permissions, sockets,
         tasks, dialogue, closing, CloseEnds, Ended
<1>1. TypeOK'
  OBVIOUS
<1>2. ConnectionsExact'
  BY CountsSame DEF Connected
<1>3. Unserved'
  BY DEF Unserved
<1>4. HandlersOwned'
  BY DEF HandlersOwned, Running
<1>5. Quiet'
  <2>1. CASE NothingLeft
    <3>1. \A c \in Clients : ~Running(c)
      BY <2>1 DEF NothingLeft, HandlersOwned, Running, Ended
    <3>2. \A p \in Parents : handlers'[p] = {}
      BY <2>1 DEF NothingLeft, Ended
    <3>3. reaper' = {}
      BY <2>1, <3>2 DEF NothingLeft
    <3>. QED BY <3>1, <3>2, <3>3 DEF Quiet, Running
  <2>2. CASE ~NothingLeft
    <3>1. ~closed
      BY <2>2 DEF NothingLeft, Quiet
    <3>. QED BY <2>2, <3>1 DEF Quiet
  <2>. QED BY <2>1, <2>2
<1>6. Revoked'
  BY DEF Revoked
<1>. QED BY <1>1, <1>2, <1>3, <1>4, <1>5, <1>6

(* The invariant is inductive. *)
LEMMA InvStep == Inv /\ [Next]_vars => Inv'
<1>1. ASSUME Inv, UNCHANGED vars PROVE Inv'
  <2>. USE <1>1 DEF vars, permissions, sockets, tasks, dialogue, closing, Inv
  <2>1. TypeOK'
    BY DEF TypeOK, ClientsOf
  <2>2. ConnectionsExact'
    BY CountsSame DEF Connected
  <2>. QED BY <2>1, <2>2 DEF Unserved, HandlersOwned, Running, Quiet, Revoked
<1>2. ASSUME Inv, NEW c \in Clients, ClientNext(c) PROVE Inv'
  BY <1>2, AcceptKeeps, ClientStartsKeeps, ReadFailsKeeps, RequestKeeps,
     HandlerEndsKeeps, HandlerAnswersKeeps, HandlerTimesOutKeeps, GivesUpKeeps,
     ClientInterruptedKeeps, AnsweredKeeps DEF ClientNext, ClientResumes
<1>3. ASSUME Inv, NEW p \in Parents, ParentNext(p) PROVE Inv'
  BY <1>3, ActivateKeeps, IssueKeeps, ExpireKeeps, ServeKeeps,
     CleanupStartsKeeps, CleanupDrainsKeeps, CleanupInterruptsKeeps,
     CleanupEndsKeeps, ReapKeeps, CloseForsakesKeeps
     DEF ParentNext, CleanupResumes
<1>. QED
  BY <1>1, <1>2, <1>3, CloseStartsKeeps, CloseInterruptedKeeps, CloseEndsKeeps
     DEF Next

(* The invariant holds in every state.                                    *)
LEMMA InvHolds == Spec => []Inv
<1>1. ASSUME Init PROVE Inv
  <2>. USE <1>1 DEF Init
  <2>1. TypeOK
    BY DEF TypeOK, ClientsOf
  <2>2. ConnectionsExact
    <3>1. \A p \in Parents : {c \in ClientsOf(p) : Connected(c)} = {}
      BY DEF Connected, ClientsOf
    <3>2. {c \in Clients : Connected(c)} = {}
      BY DEF Connected
    <3>3. 0 <= MaxPerRun /\ 0 <= MaxGlobal
      BY LimitAssumption
    <3>. QED BY <3>1, <3>2, <3>3, FS_EmptySet DEF ConnectionsExact
  <2>3. Unserved /\ HandlersOwned /\ Quiet /\ Revoked
    BY DEF Unserved, HandlersOwned, Running, Quiet, Revoked
  <2>. QED BY <2>1, <2>2, <2>3 DEF Inv
<1>. QED BY <1>1, InvStep, PTL DEF Spec

-----------------------------------------------------------------------------

(* The variables keep their types; a handler stays with the parent its     *)
(* capability was issued for.                                              *)
THEOREM Typed == Spec => []TypeOK
<1>1. Inv => TypeOK
  BY DEF Inv
<1>. QED BY <1>1, InvHolds, PTL

(* Whichever way its clients end, the counts of a run and of all runs are  *)
(* those of the clients connected, and within their limits.                *)
THEOREM CountsAreExact == Spec => []ConnectionsExact
<1>1. Inv => ConnectionsExact
  BY DEF Inv
<1>. QED BY <1>1, InvHolds, PTL

(* No handler that runs is left without somebody who will end it. *)
THEOREM HandlersAreOwned == Spec => []HandlersOwned
<1>1. Inv => HandlersOwned
  BY DEF Inv
<1>. QED BY <1>1, InvHolds, PTL

(* aclose succeeds only when nothing is left, and nothing starts after. *)
THEOREM ClosedStaysQuiet == Spec => []ClosedIsQuiet
<1>1. Inv => ClosedIsQuiet
  BY DEF Inv, Quiet, ClosedIsQuiet
<1>. QED BY <1>1, InvHolds, PTL

(* Only Request starts a handler and only a client that has waited for one *)
(* is answered with its result: both ask for the permission the cleanup    *)
(* has taken.                                                              *)
THEOREM RevokedIsRefused == Spec => RevokedGetsNothing
<1>1. Inv /\ [Next]_vars =>
        [\A c \in Clients : server[ParentOf[c]] \notin {"none", "serving"} =>
           /\ Running(c)' => Running(c)
           /\ response'[c] = "result" => response[c] = "result"]_vars
  <2>. SUFFICES ASSUME Inv, [Next]_vars, NEW c \in Clients,
                       server[ParentOf[c]] \notin {"none", "serving"}
                PROVE  /\ handler'[c] = "running" => handler[c] = "running"
                       /\ response'[c] = "result" => response[c] = "result"
    BY DEF Running
  <2>. DEFINE Goal == /\ handler'[c] = "running" => handler[c] = "running"
                      /\ response'[c] = "result" => response[c] = "result"
  <2>. SUFFICES Goal
    OBVIOUS
  <2>. USE DEF Inv, TypeOK, Running
  <2>1. ParentOf[c] \notin active
    BY ParentOfAssumption DEF Revoked
  <2>2. CASE UNCHANGED <<handler, response>>
    BY <2>2
  <2>3. ASSUME NEW d \in Clients, ClientNext(d) PROVE Goal
    <3>1. ASSUME NEW q \in Parents \cup {None}, Request(d, q) PROVE Goal
      BY <2>1, <3>1 DEF Request, Authorized, Answer
    <3>2. CASE HandlerAnswers(d)
      BY <2>1, <3>2 DEF HandlerAnswers, Verdict, Answer
    <3>3. CASE ClientInterrupted(d)
      BY <2>1, <3>3 DEF ClientInterrupted, LateVerdict, Verdict, Answer
    <3>4. CASE ClientStarts(d) \/ ReadFails(d) \/ GivesUp(d) \/ Answered(d)
      BY <3>4 DEF ClientStarts, ReadFails, GivesUp, Answered, Answer, tasks
    <3>5. CASE Accept(d) \/ HandlerTimesOut(d)
      BY <3>5, <2>2 DEF Accept, HandlerTimesOut, tasks
    <3>6. ASSUME NEW how \in Endings, HandlerEnds(d, how) PROVE Goal
      BY <3>6 DEF HandlerEnds, dialogue
    <3>. QED
      BY <2>3, <3>1, <3>2, <3>3, <3>4, <3>5, <3>6 DEF ClientNext, ClientResumes
  <2>4. ASSUME NEW p \in Parents, ParentNext(p) PROVE Goal
    BY <2>2, <2>4
       DEF ParentNext, CleanupResumes, Activate, Issue, Expire, Serve,
           CleanupStarts, CleanupDrains, CleanupInterrupts, CleanupEnds, Reap,
           CloseForsakes, tasks, dialogue
  <2>5. CASE CloseStarts \/ CloseInterrupted \/ CloseEnds \/ UNCHANGED vars
    BY <2>2, <2>5 DEF CloseStarts, CloseInterrupted, CloseEnds, vars, tasks,
                      dialogue
  <2>. HIDE DEF Goal
  <2>. QED BY <2>3, <2>4, <2>5 DEF Next
<1>. QED BY <1>1, InvHolds, PTL DEF Spec, RevokedGetsNothing
=============================================================================
