----------------------- MODULE ToolConfirmationProofs -----------------------
(***************************************************************************)
(* Proofs about ToolConfirmation for every set of calls, turns and         *)
(* answers.                                                                *)
(*                                                                         *)
(* The inductive invariant has a part about the rows and the answers       *)
(* (ServerInv), which does not look at the page, a part about the page and *)
(* what is under way to it (PageInv), and a part about the messages that   *)
(* tell of the rows (NotesInv).  What each action does to the one is       *)
(* independent of what it does to the other.                               *)
(***************************************************************************)
EXTENDS ToolConfirmation, SequenceTheorems, TLAPS

(* Calls that have a row. *)
Raised == {c \in Calls : status[c] # "none"}

(* Answers that have, or had, the row to themselves. *)
Winners == {r \in Confirms : stage[r] \in {"committed", "ready"} \/ r \in ran}

ServerTypes ==
  /\ status \in [Calls -> {"none", "pending"} \cup Resolved]
  /\ late \subseteq Raised
  /\ stage \in [Streams -> Active \cup {"unused", "ended"}]
  /\ asked \in [Confirms -> [call : Calls \cup {NoCall}, decision : Decisions]]
  /\ ran \subseteq Confirms /\ sentLate \subseteq Confirms

(* How the stage of an answer, its decision and its row go together. *)
Consistent(r) ==
  /\ stage[r] # "unused" => asked[r].call \in Calls
  /\ stage[r] = "unused" => r \notin sentLate
  /\ stage[r] \in {"unused", "arrived", "found", "claimed", "committed", "ready"}
       => r \notin ran
  /\ stage[r] = "arrived" /\ r \in sentLate => asked[r].call \in late
  /\ stage[r] \in {"found", "claimed", "committed", "ready"}
       /\ asked[r].decision = "approve"
       => r \notin sentLate
  /\ r \in ran => /\ r \notin sentLate /\ asked[r].decision = "approve"
                  /\ asked[r].call \in Calls
  /\ stage[r] = "claimed" => status[asked[r].call] = "pending"
  /\ r \in Winners => status[asked[r].call] = StatusOf[asked[r].decision]

(* One answer at a time updates a row, and one has done so for good. *)
Exclusive ==
  \A q, r \in Confirms : q # r /\ asked[q].call = asked[r].call =>
    /\ ~(stage[q] = "claimed" /\ stage[r] = "claimed")
    /\ ~(q \in Winners /\ r \in Winners)

ServerInv ==
  /\ ServerTypes
  /\ \A r \in Confirms : Consistent(r)
  /\ Exclusive

(* What may be under way to the page when the calls in R have rows. *)
Messages(R) ==
  [kind : {"tool_result", "error", "done", "broken"}, call : {NoCall}]
    \cup [kind : {"confirmation_required"}, call : R]

PageInv ==
  /\ events \in [Streams -> Seq(Messages(Raised))]
  /\ \A s \in Streams : s \notin attached => events[s] = <<>>
  /\ attached \subseteq {s \in Streams : stage[s] # "unused"}
  /\ card \in Raised \cup {NoCall}
  /\ open \subseteq Calls
  /\ archived \in BOOLEAN /\ busy \in BOOLEAN

(* Every row has the message that asks, no message says of an answer what  *)
(* the row does not, and an answer that gets to its tool has been noted.   *)
NotesInv ==
  /\ notes \subseteq [call : Raised, confirmation : {"pending"} \cup Resolved]
  /\ \A c \in Raised : Message(c, "pending") \in notes
  /\ \A n \in notes : n.confirmation \in {"pending", status[n.call]}
  /\ \A r \in Confirms : stage[r] = "ready" \/ r \in ran => Resolution(r) \in notes

IInv == ServerInv /\ PageInv

-----------------------------------------------------------------------------
(* A decision resolves a row, and only an approval approves it. *)
LEMMA StatusOfDecision ==
  /\ StatusOf \in [Decisions -> Resolved]
  /\ StatusOf["approve"] = "approved"
BY DEF StatusOf, Decisions, Resolved

-----------------------------------------------------------------------------
(* The rows and the answers *)

(* A step that moves one stream and no row: a turn to anywhere, an answer  *)
(* to its end or from the tool to the agent.                               *)
LEMMA StageMoves ==
  ASSUME ServerInv, NEW s \in Streams, NEW to \in Active \cup {"ended"},
         stage' = [stage EXCEPT ![s] = to],
         UNCHANGED <<status, late, asked, ran, sentLate>>,
         s \in Turns \/ to = "ended" \/ (stage[s] = "executing" /\ to = "agent"),
         s \in Confirms => stage[s] # "unused"
  PROVE  ServerInv'
<1>1. ServerTypes'
  BY DEF ServerInv, ServerTypes, Raised
<1>2. \A r \in Confirms : r # s => stage'[r] = stage[r]
  BY DEF ServerInv, ServerTypes, Streams
<1>3. s \in Confirms => stage'[s] \in {"ended", "agent"}
  BY StreamAssumption DEF ServerInv, ServerTypes
<1>4. ASSUME NEW r \in Confirms PROVE Consistent(r)'
  BY <1>2, <1>3, <1>4 DEF ServerInv, Consistent, Winners
<1>5. Exclusive'
  BY <1>2, <1>3 DEF ServerInv, Exclusive, Winners
<1>. QED BY <1>1, <1>4, <1>5 DEF ServerInv

(* A client sends an answer. *)
LEMMA AskedForStep ==
  ASSUME ServerInv, NEW r \in Confirms, NEW c \in Calls, NEW d \in Decisions,
         AskedFor(r, c, d)
  PROVE  ServerInv'
<1>a. /\ stage[r] = "unused"
      /\ stage' = [stage EXCEPT ![r] = "arrived"]
      /\ asked' = [asked EXCEPT ![r] = [call |-> c, decision |-> d]]
      /\ sentLate' = IF c \in late THEN sentLate \cup {r} ELSE sentLate
      /\ UNCHANGED <<status, late, ran>>
  BY DEF AskedFor, Goto, records
<1>1. ServerTypes'
  BY <1>a DEF ServerInv, ServerTypes, Raised, Active, Streams
<1>2. /\ stage'[r] = "arrived" /\ r \notin ran /\ r \notin sentLate
      /\ asked'[r] = [call |-> c, decision |-> d]
      /\ \A q \in Confirms \ {r} : stage'[q] = stage[q] /\ asked'[q] = asked[q]
      /\ \A q \in Confirms \ {r} : q \in sentLate' <=> q \in sentLate
  BY <1>a DEF ServerInv, ServerTypes, Streams, Consistent
<1>3. r \in sentLate' => c \in late
  BY <1>a, <1>2
<1>4. ASSUME NEW q \in Confirms PROVE Consistent(q)'
  BY <1>a, <1>2, <1>3, <1>4 DEF ServerInv, Consistent, Winners
<1>5. Exclusive'
  BY <1>a, <1>2 DEF ServerInv, Exclusive, Winners
<1>. QED BY <1>1, <1>4, <1>5 DEF ServerInv

(* The pending row and the clock are read.  An answer sent late finds its  *)
(* call late, so that it is no approval any more.                          *)
LEMMA SelectStep ==
  ASSUME ServerInv, NEW r \in Confirms, Select(r)
  PROVE  ServerInv'
<1>1. CASE ~Owned \/ status[asked[r].call] # "pending"
  <2>1. /\ stage' = [stage EXCEPT ![r] = "ended"] /\ stage[r] = "arrived"
        /\ UNCHANGED <<status, late, asked, ran, sentLate>>
    BY <1>1 DEF Select, Refuse, EndWith, Goto, records
  <2>. QED BY <2>1, StageMoves DEF Streams
<1>2. CASE ~(~Owned \/ status[asked[r].call] # "pending")
  <2>a. /\ stage[r] = "arrived"
        /\ stage' = [stage EXCEPT ![r] = "found"]
        /\ asked' = [asked EXCEPT ![r].decision = InTime(r)]
        /\ UNCHANGED <<status, late, ran, sentLate>>
    BY <1>2 DEF Select, Goto, records
  <2>b. InTime(r) \in Decisions
    BY DEF InTime, Decisions, ServerInv, ServerTypes
  <2>1. ServerTypes'
    BY <2>a, <2>b DEF ServerInv, ServerTypes, Raised, Active, Streams
  <2>2. /\ stage'[r] = "found" /\ r \notin ran
        /\ asked'[r].call = asked[r].call /\ asked'[r].decision = InTime(r)
        /\ \A q \in Confirms \ {r} : stage'[q] = stage[q] /\ asked'[q] = asked[q]
    BY <2>a DEF ServerInv, ServerTypes, Streams, Consistent
  <2>3. r \in sentLate => InTime(r) # "approve"
    BY <2>a DEF ServerInv, Consistent, InTime
  <2>4. ASSUME NEW q \in Confirms PROVE Consistent(q)'
    BY <2>a, <2>2, <2>3, <2>4 DEF ServerInv, Consistent, Winners
  <2>5. Exclusive'
    BY <2>a, <2>2 DEF ServerInv, Exclusive, Winners
  <2>. QED BY <2>1, <2>4, <2>5 DEF ServerInv
<1>. QED BY <1>1, <1>2

(* The conditional update: the row lock keeps others out. *)
LEMMA ClaimStep ==
  ASSUME ServerInv, NEW r \in Confirms, Claim(r)
  PROVE  ServerInv'
<1>1. CASE ~Claimable(r)
  <2>1. /\ stage' = [stage EXCEPT ![r] = "ended"] /\ stage[r] = "found"
        /\ UNCHANGED <<status, late, asked, ran, sentLate>>
    BY <1>1 DEF Claim, Refuse, EndWith, Goto, records
  <2>. QED BY <2>1, StageMoves DEF Streams
<1>2. CASE Claimable(r)
  <2>a. /\ stage[r] = "found" /\ status[asked[r].call] = "pending"
        /\ \A q \in Confirms : ~(stage[q] = "claimed" /\ asked[q].call = asked[r].call)
        /\ stage' = [stage EXCEPT ![r] = "claimed"]
        /\ UNCHANGED <<status, late, asked, ran, sentLate>>
    BY <1>2 DEF Claim, Claimable, RowLocked, Goto, records
  <2>1. ServerTypes'
    BY <2>a DEF ServerInv, ServerTypes, Raised, Active, Streams
  <2>2. /\ stage'[r] = "claimed" /\ r \notin ran
        /\ \A q \in Confirms \ {r} : stage'[q] = stage[q]
    BY <2>a DEF ServerInv, ServerTypes, Streams, Consistent
  <2>4. ASSUME NEW q \in Confirms PROVE Consistent(q)'
    BY <2>a, <2>2, <2>4 DEF ServerInv, Consistent, Winners
  <2>5. Exclusive'
    BY <2>a, <2>2 DEF ServerInv, Exclusive, Winners
  <2>. QED BY <2>1, <2>4, <2>5 DEF ServerInv
<1>. QED BY <1>1, <1>2

(* The commit: the row was pending, so that nobody has won it before. *)
LEMMA CommitStep ==
  ASSUME ServerInv, NEW r \in Confirms, CommitClaim(r)
  PROVE  ServerInv' /\ Raised' = Raised
<1>. DEFINE c == asked[r].call
            to == StatusOf[asked[r].decision]
<1>a. /\ stage[r] = "claimed"
      /\ status' = [status EXCEPT ![c] = to]
      /\ stage' = [stage EXCEPT ![r] = "committed"]
      /\ UNCHANGED <<late, asked, ran, sentLate>>
  BY DEF CommitClaim, Goto
<1>b. c \in Calls /\ status[c] = "pending" /\ r \notin ran
  BY <1>a DEF ServerInv, Consistent
<1>c. to \in Resolved
  BY StatusOfDecision DEF ServerInv, ServerTypes
<1>. HIDE DEF to, c
<1>d. /\ status'[c] = to
      /\ \A e \in Calls \ {c} : status'[e] = status[e]
      /\ stage'[r] = "committed"
      /\ \A q \in Confirms \ {r} : stage'[q] = stage[q]
  BY <1>a, <1>b DEF ServerInv, ServerTypes, Streams
<1>e. status[c] # "none" /\ status'[c] # "none"
  BY <1>b, <1>c, <1>d DEF Resolved
<1>f. Raised' = Raised
  BY <1>d, <1>e DEF Raised
<1>1. ServerTypes'
  <2>1. status' \in [Calls -> {"none", "pending"} \cup Resolved]
    BY <1>a, <1>b, <1>c DEF ServerInv, ServerTypes
  <2>2. stage' \in [Streams -> Active \cup {"unused", "ended"}]
    BY <1>a DEF ServerInv, ServerTypes, Active, Streaming
  <2>. QED BY <1>a, <1>f, <2>1, <2>2 DEF ServerInv, ServerTypes
<1>2. \A q \in Confirms \ {r} : asked[q].call = c =>
        q \notin Winners /\ stage[q] # "claimed"
  <2>. SUFFICES ASSUME NEW q \in Confirms \ {r}, asked[q].call = c
                PROVE  q \notin Winners /\ stage[q] # "claimed"
    OBVIOUS
  <2>1. StatusOf[asked[q].decision] \in Resolved
    BY StatusOfDecision DEF ServerInv, ServerTypes
  <2>2. q \notin Winners
    BY <1>b, <2>1 DEF ServerInv, Consistent, Resolved
  <2>3. stage[q] # "claimed"
    BY <1>a DEF ServerInv, Exclusive, c
  <2>. QED BY <2>2, <2>3
<1>3. \A q \in Confirms : q # r => (q \in Winners' <=> q \in Winners)
  BY <1>a, <1>d DEF Winners
<1>4. ASSUME NEW q \in Confirms PROVE Consistent(q)'
  <2>1. CASE q = r
    BY <1>a, <1>b, <1>d, <2>1 DEF ServerInv, Consistent, Winners, c, to
  <2>2. CASE q # r
    <3>1. q \in Winners => asked[q].call \in Calls
      BY DEF ServerInv, Consistent, Winners
    <3>2. q \in Winners' => status'[asked[q].call] = StatusOf[asked[q].decision]
      BY <1>2, <1>3, <1>d, <2>2, <3>1 DEF ServerInv, Consistent
    <3>3. stage[q] = "claimed" => status'[asked[q].call] = "pending"
      BY <1>2, <1>d, <2>2 DEF ServerInv, Consistent
    <3>. QED BY <1>a, <1>d, <2>2, <3>2, <3>3 DEF ServerInv, Consistent
  <2>. QED BY <2>1, <2>2
<1>5. Exclusive'
  BY <1>2, <1>3, <1>a, <1>d DEF ServerInv, Exclusive, c
<1>. QED BY <1>1, <1>4, <1>5, <1>f DEF ServerInv

(* The answer is added to the conversation. *)
LEMMA NoteStep ==
  ASSUME ServerInv, NEW r \in Confirms, NoteResolution(r)
  PROVE  ServerInv'
<1>a. /\ stage[r] = "committed"
      /\ stage' = [stage EXCEPT ![r] = "ready"]
      /\ UNCHANGED <<status, late, asked, ran, sentLate>>
  BY DEF NoteResolution, Goto
<1>1. ServerTypes'
  BY <1>a DEF ServerInv, ServerTypes, Raised, Active, Streaming, Streams
<1>2. /\ stage'[r] = "ready" /\ r \notin ran
      /\ \A q \in Confirms \ {r} : stage'[q] = stage[q]
  BY <1>a DEF ServerInv, ServerTypes, Streams, Consistent
<1>3. \A q \in Confirms : q \in Winners' <=> q \in Winners
  BY <1>a, <1>2 DEF Winners
<1>4. ASSUME NEW q \in Confirms PROVE Consistent(q)'
  BY <1>a, <1>2, <1>3, <1>4 DEF ServerInv, Consistent
<1>5. Exclusive'
  BY <1>a, <1>2, <1>3 DEF ServerInv, Exclusive
<1>. QED BY <1>1, <1>4, <1>5 DEF ServerInv

(* The stream of a claimed answer starts. *)
LEMMA StartStreamStep ==
  ASSUME ServerInv, NEW r \in Confirms, StartStream(r)
  PROVE  ServerInv'
<1>1. CASE ~RunsTool(r)
  <2>1. /\ stage' = [stage EXCEPT ![r] = "ended"] /\ stage[r] = "ready"
        /\ UNCHANGED <<status, late, asked, ran, sentLate>>
    BY <1>1 DEF StartStream, EndWith, Goto, records
  <2>. QED BY <2>1, StageMoves DEF Streams
<1>2. CASE RunsTool(r)
  <2>a. /\ stage[r] = "ready" /\ asked[r].decision = "approve"
        /\ stage' = [stage EXCEPT ![r] = "executing"]
        /\ ran' = ran \cup {r}
        /\ UNCHANGED <<status, late, asked, sentLate>>
    BY <1>2 DEF StartStream, RunsTool, Goto, records
  <2>1. ServerTypes'
    BY <2>a DEF ServerInv, ServerTypes, Raised, Active, Streaming, Streams
  <2>2. /\ stage'[r] = "executing"
        /\ \A q \in Confirms \ {r} : stage'[q] = stage[q]
        /\ \A q \in Confirms \ {r} : q \in ran' <=> q \in ran
    BY <2>a DEF ServerInv, ServerTypes, Streams
  <2>3. \A q \in Confirms : q \in Winners' <=> q \in Winners
    BY <2>a, <2>2 DEF Winners
  <2>4. ASSUME NEW q \in Confirms PROVE Consistent(q)'
    BY <2>a, <2>2, <2>3, <2>4 DEF ServerInv, Consistent, Winners
  <2>5. Exclusive'
    BY <2>a, <2>2, <2>3 DEF ServerInv, Exclusive
  <2>. QED BY <2>1, <2>4, <2>5 DEF ServerInv
<1>. QED BY <1>1, <1>2

(* An agent stops at a call that has no row yet. *)
LEMMA AgentStopsStep ==
  ASSUME ServerInv, NEW s \in Streams, NEW c \in Calls, AgentStopsAt(s, c)
  PROVE  ServerInv' /\ Raised' = Raised \cup {c}
<1>a. /\ stage[s] = "agent" /\ status[c] = "none"
      /\ status' = [status EXCEPT ![c] = "pending"]
      /\ stage' = [stage EXCEPT ![s] = "ended"]
      /\ UNCHANGED <<late, asked, ran, sentLate>>
  BY DEF AgentStopsAt, EndWith, Goto
<1>b. /\ status'[c] = "pending"
      /\ \A e \in Calls \ {c} : status'[e] = status[e]
      /\ stage'[s] = "ended"
      /\ \A q \in Confirms : q # s => stage'[q] = stage[q]
  BY <1>a DEF ServerInv, ServerTypes, Streams
<1>c. Raised' = Raised \cup {c}
  BY <1>a, <1>b DEF Raised
<1>1. ServerTypes'
  BY <1>a, <1>c DEF ServerInv, ServerTypes, Active, Streaming
<1>2. \A q \in Confirms : q \in Winners' <=> q \in Winners
  BY <1>a, <1>b DEF Winners
<1>3. \A q \in Confirms : q \in Winners \/ stage[q] = "claimed" =>
        asked[q].call \in Calls /\ asked[q].call # c
  <2>1. \A q \in Confirms : StatusOf[asked[q].decision] # "none"
    BY StatusOfDecision DEF ServerInv, ServerTypes, Resolved
  <2>. QED BY <1>a, <2>1 DEF ServerInv, Consistent, Winners
<1>4. ASSUME NEW q \in Confirms PROVE Consistent(q)'
  BY <1>a, <1>b, <1>2, <1>3, <1>4 DEF ServerInv, Consistent
<1>5. Exclusive'
  BY <1>a, <1>b, <1>2 DEF ServerInv, Exclusive
<1>. QED BY <1>1, <1>4, <1>5, <1>c DEF ServerInv

-----------------------------------------------------------------------------
(* The page *)

(* Rows are never deleted, and what was sent about a row stays valid. *)
LEMMA MessagesGrow ==
  ASSUME NEW R, NEW S, R \subseteq S
  PROVE  Seq(Messages(R)) \subseteq Seq(Messages(S))
<1>. SUFFICES ASSUME NEW es \in Seq(Messages(R)) PROVE es \in Seq(Messages(S))
  OBVIOUS
<1>1. Messages(R) \subseteq Messages(S)
  BY DEF Messages
<1>. QED BY <1>1, SeqMonotonic

(* The events the server makes. *)
LEMMA ServerMessages ==
  ASSUME NEW R
  PROVE  /\ <<Broken>> \in Seq(Messages(R))
         /\ <<Event("tool_result")>> \in Seq(Messages(R))
         /\ <<Event("done")>> \in Seq(Messages(R))
         /\ <<Event("error")>> \in Seq(Messages(R))
         /\ <<Public("tool_result")>> \in Seq(Messages(R))
         /\ <<Public("tool_error")>> \in Seq(Messages(R))
         /\ \A s : Endings(s) \subseteq Seq(Messages(R))
         /\ \A c \in R : <<Required(c), Event("done")>> \in Seq(Messages(R))
<1>1. /\ Event("tool_result") \in Messages(R) /\ Event("done") \in Messages(R)
      /\ Event("error") \in Messages(R) /\ Broken \in Messages(R)
      /\ \A c \in R : Required(c) \in Messages(R)
  BY DEF Messages, Event, Broken, Required
<1>2. \A s : Endings(s) \subseteq Seq(Messages(R))
  <2>1. /\ <<Event("done")>> \in Seq(Messages(R))
        /\ <<Event("error")>> \in Seq(Messages(R))
        /\ <<Event("error"), Event("done")>> \in Seq(Messages(R))
        /\ <<Event("done"), Broken>> \in Seq(Messages(R))
    BY <1>1
  <2>2. Public("done") = Event("done") /\ Public("error") = Event("error")
    BY DEF Public
  <2>. QED BY <2>1, <2>2, Zenon DEF Endings
<1>3. /\ Public("tool_result") = Event("tool_result")
      /\ Public("tool_error") = Event("tool_result")
  BY DEF Public
<1>. QED BY <1>1, <1>2, <1>3

(* A step of the server that sends nothing, or what the rows allow. *)
LEMMA PageKept ==
  ASSUME PageInv, NEW s \in Streams, NEW es \in Seq(Messages(Raised')),
         Sent(s, es) \/ UNCHANGED events,
         Raised \subseteq Raised',
         \A q \in Streams : stage[q] # "unused" => stage'[q] # "unused",
         archived' \in BOOLEAN,
         UNCHANGED <<attached, card, busy, open>>
  PROVE  PageInv'
<1>1. events \in [Streams -> Seq(Messages(Raised'))]
  BY MessagesGrow DEF PageInv
<1>2. events[s] \o es \in Seq(Messages(Raised'))
  BY <1>1
<1>3. events' \in [Streams -> Seq(Messages(Raised'))]
  BY <1>1, <1>2 DEF Sent
<1>4. \A q \in Streams : q \notin attached => events'[q] = <<>>
  BY <1>1 DEF Sent, PageInv
<1>. QED BY <1>3, <1>4 DEF PageInv

(* A stream that goes on is still a stream that has begun. *)
LEMMA GoesOn ==
  ASSUME ServerTypes, NEW s \in Streams, NEW to, to # "unused",
         stage' = [stage EXCEPT ![s] = to]
  PROVE  \A q \in Streams : stage[q] # "unused" => stage'[q] # "unused"
BY DEF ServerTypes

(* The handler of a stream ends, with or without the client's knowledge, or *)
(* goes from the tool to the agent.                                         *)
LEMMA StreamStep ==
  ASSUME IInv, NEW s \in Streams, NEW to \in Active \cup {"ended"},
         Goto(s, to),
         NEW es \in Seq(Messages(Raised)), Sent(s, es) \/ UNCHANGED events,
         s \in Turns \/ to = "ended" \/ (stage[s] = "executing" /\ to = "agent"),
         stage[s] # "unused",
         UNCHANGED <<records, asked, ran, sentLate, page>>
  PROVE  IInv'
<1>1. /\ stage' = [stage EXCEPT ![s] = to]
      /\ UNCHANGED <<status, late, archived, asked, ran, sentLate>>
      /\ UNCHANGED <<attached, card, busy, open>>
  BY DEF Goto, records, page
<1>2. ServerInv'
  BY <1>1, StageMoves DEF IInv
<1>3. Raised' = Raised
  BY <1>1 DEF Raised
<1>4. to # "unused"
  BY DEF Active, Streaming
<1>5. PageInv'
  <2>1. \A q \in Streams : stage[q] # "unused" => stage'[q] # "unused"
    BY <1>1, <1>4, GoesOn DEF IInv, ServerInv
  <2>. QED BY <1>1, <1>3, <2>1, PageKept DEF IInv, PageInv
<1>. QED BY <1>2, <1>5 DEF IInv

-----------------------------------------------------------------------------
(* The actions *)

(* The actions of the clients. *)
LEMMA ClientsStep ==
  ASSUME IInv, Clients
  PROVE  IInv'
<1>. USE DEF IInv
<1>1. ASSUME NEW t \in Turns, SendMessage(t)
      PROVE  IInv'
  <2>a. /\ stage[t] = "unused" /\ stage' = [stage EXCEPT ![t] = "arrived"]
        /\ attached' = attached \cup {t}
        /\ busy' = TRUE /\ card' = NoCall /\ open' = {}
        /\ UNCHANGED <<status, late, archived, asked, ran, sentLate, events>>
    BY <1>1 DEF SendMessage, Goto, records
  <2>b. t \in Streams /\ t \notin Confirms
    BY StreamAssumption DEF Streams
  <2>1. ServerInv'
    BY <2>a, <2>b, StageMoves DEF Active
  <2>2. Raised' = Raised
    BY <2>a DEF Raised
  <2>3. \A q \in Streams : stage[q] # "unused" => stage'[q] # "unused"
    BY <2>a, <2>b, GoesOn DEF ServerInv
  <2>4. stage'[t] # "unused"
    BY <2>a, <2>b DEF ServerInv, ServerTypes
  <2>. QED BY <2>a, <2>b, <2>1, <2>2, <2>3, <2>4 DEF PageInv
<1>2. ASSUME NEW r \in Confirms, NEW d \in Decisions, RespondToConfirmation(r, d)
      PROVE  IInv'
  <2>a. /\ card \in Calls /\ AskedFor(r, card, d)
        /\ attached' = attached \cup {r}
        /\ open' = open \ {card} /\ busy' = TRUE
        /\ card' \in {card, NoCall}
    BY <1>2 DEF RespondToConfirmation, MayPress, PageInv, Raised
  <2>b. /\ stage[r] = "unused" /\ stage' = [stage EXCEPT ![r] = "arrived"]
        /\ UNCHANGED <<status, archived, events>>
    BY <2>a DEF AskedFor, Goto, records
  <2>1. ServerInv'
    BY <2>a, AskedForStep
  <2>2. Raised' = Raised
    BY <2>b DEF Raised
  <2>3. /\ \A q \in Streams : stage[q] # "unused" => stage'[q] # "unused"
        /\ stage'[r] # "unused" /\ r \in Streams
    BY <2>b DEF ServerInv, ServerTypes, Streams
  <2>. QED BY <2>a, <2>b, <2>1, <2>2, <2>3 DEF PageInv
<1>3. ASSUME NEW r \in Confirms, NEW c \in Calls, NEW d \in Decisions,
             OtherResponds(r, c, d)
      PROVE  IInv'
  <2>a. AskedFor(r, c, d) /\ UNCHANGED <<attached, card, busy, open>>
    BY <1>3 DEF OtherResponds, page
  <2>b. /\ stage' = [stage EXCEPT ![r] = "arrived"]
        /\ UNCHANGED <<status, archived, events>>
    BY <2>a DEF AskedFor, Goto, records
  <2>1. ServerInv'
    BY <2>a, AskedForStep
  <2>2. Raised' = Raised
    BY <2>b DEF Raised
  <2>3. \A q \in Streams : stage[q] # "unused" => stage'[q] # "unused"
    BY <2>b DEF ServerInv, ServerTypes, Streams
  <2>. QED BY <2>a, <2>b, <2>1, <2>2, <2>3 DEF PageInv
<1>4. ASSUME Reload
      PROVE  IInv'
  <2>1. /\ attached' = {} /\ card' = NoCall /\ busy' = FALSE /\ open' = {}
        /\ events' = [s \in Streams |-> <<>>]
        /\ UNCHANGED <<status, late, archived, stage, asked, ran, sentLate>>
    BY <1>4 DEF Reload, records, handler
  <2>2. ServerInv' /\ Raised' = Raised
    BY <2>1 DEF ServerInv, ServerTypes, Consistent, Exclusive, Winners, Raised
  <2>3. <<>> \in Seq(Messages(Raised'))
    OBVIOUS
  <2>. QED BY <2>1, <2>2, <2>3 DEF PageInv
<1>5. ASSUME Archive
      PROVE  IInv'
  <2>1. /\ archived' = TRUE
        /\ UNCHANGED <<status, late, stage, asked, ran, sentLate, events>>
        /\ UNCHANGED <<attached, card, busy, open>>
    BY <1>5 DEF Archive, handler, page
  <2>2. ServerInv' /\ Raised' = Raised
    BY <2>1 DEF ServerInv, ServerTypes, Consistent, Exclusive, Winners, Raised
  <2>. QED BY <2>1, <2>2 DEF PageInv
<1>. QED BY <1>1, <1>2, <1>3, <1>4, <1>5 DEF Clients

(* The page takes an event, or loses the stream. *)
LEMMA ReaderStep ==
  ASSUME IInv, NEW s \in Streams, Deliver(s) \/ LoseConnection(s)
  PROVE  IInv'
<1>. USE DEF IInv
<1>1. UNCHANGED <<status, late, archived, stage, asked, ran, sentLate>>
  BY DEF Deliver, LoseConnection, records, handler
<1>2. ServerInv' /\ Raised' = Raised
  BY <1>1 DEF ServerInv, ServerTypes, Consistent, Exclusive, Winners, Raised
<1>3. CASE Deliver(s)
  <2>a. /\ events[s] # <<>> /\ s \in attached /\ attached' = attached
        /\ events' = [events EXCEPT ![s] = Tail(events[s])]
        /\ Callback(s, Head(events[s])) \/ UNCHANGED <<card, busy, open>>
    BY <1>3 DEF Deliver
  <2>b. events[s] \in Seq(Messages(Raised))
    BY DEF PageInv
  <2>c. Head(events[s]) \in Messages(Raised) /\ Tail(events[s]) \in Seq(Messages(Raised))
    BY <2>a, <2>b
  <2>. DEFINE e == Head(events[s])
  <2>1. ASSUME Callback(s, e)
        PROVE  card' \in Raised \cup {NoCall} /\ busy' \in BOOLEAN /\ open' \subseteq Calls
    <3>. HIDE DEF e
    <3>1. e \in Messages(Raised)
      BY <2>c DEF e
    <3>2. CASE e.kind = "confirmation_required"
      <4>1. e.call \in Raised
        BY <3>1, <3>2 DEF Messages
      <4>2. OnConfirmationRequired(e.call)
        BY <2>1, <3>2 DEF Callback
      <4>. QED BY <4>1, <4>2 DEF OnConfirmationRequired, PageInv, Raised
    <3>3. CASE e.kind = "tool_result"
      BY <2>1, <3>3 DEF Callback, OnToolResult, PageInv
    <3>4. CASE e.kind = "error"
      BY <2>1, <3>4 DEF Callback, OnError, PageInv
    <3>5. CASE e.kind \in {"done", "broken"}
      BY <2>1, <3>5 DEF Callback, OnBroken, OnDone, CardAfter, PageInv
    <3>. QED BY <3>1, <3>2, <3>3, <3>4, <3>5 DEF Messages
  <2>2. card' \in Raised \cup {NoCall} /\ busy' \in BOOLEAN /\ open' \subseteq Calls
    BY <2>a, <2>1 DEF PageInv
  <2>. QED BY <1>1, <1>2, <2>a, <2>c, <2>2 DEF PageInv
<1>4. CASE LoseConnection(s)
  <2>1. /\ attached' = attached \ {s} /\ events' = [events EXCEPT ![s] = <<>>]
        /\ card' \in {card, NoCall} /\ busy' = FALSE /\ open' = open
    BY <1>4 DEF LoseConnection, OnBroken, OnDone, CardAfter
  <2>2. <<>> \in Seq(Messages(Raised))
    OBVIOUS
  <2>. QED BY <1>1, <1>2, <2>1, <2>2 DEF PageInv
<1>. QED BY <1>3, <1>4

(* The handler of an answer, until its agent is resumed. *)
LEMMA ConfirmStepKeeps ==
  ASSUME IInv, NEW r \in Confirms, ConfirmStep(r)
  PROVE  IInv'
<1>. USE DEF IInv
<1>a. r \in Streams /\ <<>> \in Seq(Messages(Raised'))
  BY DEF Streams
(* A step to another stage that sends nothing. *)
<1>b. ASSUME ServerInv', Raised' = Raised,
             NEW to \in Active, Goto(r, to),
             UNCHANGED <<archived, events, attached, card, busy, open>>
      PROVE  IInv'
  <2>1. to # "unused"
    BY DEF Active, Streaming
  <2>2. \A q \in Streams : stage[q] # "unused" => stage'[q] # "unused"
    BY <1>a, <1>b, <2>1, GoesOn DEF Goto, ServerInv
  <2>. QED BY <1>a, <1>b, <2>2, PageKept DEF PageInv
(* A step that ends the stream. *)
<1>c. ASSUME stage[r] # "unused", NEW es \in Seq(Messages(Raised)), EndWith(r, es),
             UNCHANGED <<records, asked, ran, sentLate, page>>
      PROVE  IInv'
  BY <1>a, <1>c, StreamStep DEF EndWith
<1>1. CASE Select(r)
  <2>1. ServerInv'
    BY <1>1, SelectStep
  <2>2. CASE ~Owned \/ status[asked[r].call] # "pending"
    BY <1>1, <1>c, <2>2, ServerMessages DEF Select, Refuse
  <2>3. CASE ~(~Owned \/ status[asked[r].call] # "pending")
    <3>1. Goto(r, "found") /\ UNCHANGED <<status, archived, events, attached, card, busy, open>>
      BY <1>1, <2>3 DEF Select, records, page
    <3>. QED BY <1>b, <2>1, <3>1 DEF Raised, Active
  <2>. QED BY <2>2, <2>3
<1>2. CASE Claim(r)
  <2>1. ServerInv'
    BY <1>2, ClaimStep
  <2>2. CASE ~Claimable(r)
    BY <1>2, <1>c, <2>2, ServerMessages DEF Claim, Refuse
  <2>3. CASE Claimable(r)
    <3>1. Goto(r, "claimed") /\ UNCHANGED <<status, archived, events, attached, card, busy, open>>
      BY <1>2, <2>3 DEF Claim, records, page
    <3>. QED BY <1>b, <2>1, <3>1 DEF Raised, Active
  <2>. QED BY <2>2, <2>3
<1>3. CASE CommitClaim(r)
  <2>1. Goto(r, "committed") /\ UNCHANGED <<archived, events, attached, card, busy, open>>
    BY <1>3 DEF CommitClaim, page
  <2>. QED BY <1>3, <1>b, <2>1, CommitStep DEF Active
<1>6. CASE NoteResolution(r)
  <2>1. /\ Goto(r, "ready")
        /\ UNCHANGED <<status, archived, events, attached, card, busy, open>>
    BY <1>6 DEF NoteResolution, page
  <2>2. Raised' = Raised
    BY <2>1 DEF Raised
  <2>. QED BY <1>6, <1>b, <2>1, <2>2, NoteStep DEF Active, Streaming
<1>4. CASE StartStream(r)
  <2>1. ServerInv'
    BY <1>4, StartStreamStep
  <2>2. CASE ~RunsTool(r)
    BY <1>4, <1>c, <2>2, ServerMessages DEF StartStream
  <2>3. CASE RunsTool(r)
    <3>1. Goto(r, "executing") /\ UNCHANGED <<status, archived, events, attached, card, busy, open>>
      BY <1>4, <2>3 DEF StartStream, records, page
    <3>. QED BY <1>b, <2>1, <3>1 DEF Raised, Active, Streaming
  <2>. QED BY <2>2, <2>3
<1>5. CASE ToolReturns(r)
  <2>1. CASE EndWith(r, <<Event("error")>>)
    BY <1>5, <1>c, <2>1, ServerMessages DEF ToolReturns
  <2>2. CASE Goto(r, "agent") /\ Sent(r, <<Event("tool_result")>>)
    <3>1. "agent" \in Active \cup {"ended"} /\ stage[r] = "executing"
      BY <1>5 DEF ToolReturns, Active, Streaming
    <3>. QED BY <1>5, <1>a, <2>2, <3>1, ServerMessages, StreamStep DEF ToolReturns
  <2>. QED BY <1>5, <2>1, <2>2 DEF ToolReturns
<1>. QED BY <1>1, <1>2, <1>3, <1>4, <1>5, <1>6 DEF ConfirmStep

(* The handler of any stream. *)
LEMMA AgentStep ==
  ASSUME IInv, NEW s \in Streams, Abandon(s) \/ Stop(s) \/ AgentStop(s)
  PROVE  IInv'
<1>. USE DEF IInv
<1>a. stage[s] \in Active
  BY DEF Abandon, Stop, AgentStop, AgentEnds, AgentStopsAt, Active, Streaming
<1>b. stage[s] # "unused"
  BY <1>a DEF Active, Streaming
<1>1. CASE Abandon(s)
  <2>1. <<>> \in Seq(Messages(Raised))
    OBVIOUS
  <2>. QED BY <1>1, <1>b, <2>1, StreamStep DEF Abandon
<1>2. CASE Stop(s)
  BY <1>2, <1>b, ServerMessages, StreamStep DEF Stop, EndWith
<1>3. CASE AgentEnds(s)
  <2>1. PICK es \in Endings(s) : EndWith(s, es)
    BY <1>3 DEF AgentEnds
  <2>2. es \in Seq(Messages(Raised))
    BY <2>1, ServerMessages
  <2>. QED BY <1>3, <1>b, <2>1, <2>2, StreamStep DEF AgentEnds, EndWith
<1>4. ASSUME NEW c \in Calls, AgentStopsAt(s, c)
      PROVE  IInv'
  <2>1. ServerInv' /\ Raised' = Raised \cup {c}
    BY <1>4, AgentStopsStep
  <2>2. <<Required(c), Event("done")>> \in Seq(Messages(Raised'))
    BY <2>1, ServerMessages
  <2>3. /\ Sent(s, <<Required(c), Event("done")>>)
        /\ stage' = [stage EXCEPT ![s] = "ended"]
        /\ UNCHANGED <<archived, attached, card, busy, open>>
    BY <1>4 DEF AgentStopsAt, EndWith, Goto, page
  <2>4. \A q \in Streams : stage[q] # "unused" => stage'[q] # "unused"
    BY <2>3, GoesOn DEF ServerInv
  <2>5. PageInv'
    BY <2>1, <2>2, <2>3, <2>4, PageKept DEF PageInv
  <2>. QED BY <2>1, <2>5
<1>. QED BY <1>1, <1>2, <1>3, <1>4 DEF AgentStop

(* The initial state, and every step. *)
LEMMA IInvInit == Init => IInv
<1>. SUFFICES ASSUME Init PROVE IInv
  OBVIOUS
<1>1. ServerInv
  BY DEF Init, ServerInv, ServerTypes, Consistent, Exclusive, Winners, Raised,
         Decisions, Streams
<1>2. <<>> \in Seq(Messages(Raised))
  OBVIOUS
<1>3. PageInv
  BY <1>2 DEF Init, PageInv
<1>. QED BY <1>1, <1>3 DEF IInv

(* Every step keeps both parts of the invariant. *)
LEMMA IInvStep == IInv /\ [Next]_vars => IInv'
<1>. SUFFICES ASSUME IInv, [Next]_vars PROVE IInv'
  OBVIOUS
<1>1. CASE Clients
  BY <1>1, ClientsStep
<1>2. ASSUME NEW s \in Streams, Deliver(s) \/ LoseConnection(s)
      PROVE  IInv'
  BY <1>2, ReaderStep
<1>3. ASSUME NEW s \in Streams, Abandon(s) \/ Stop(s) \/ AgentStop(s)
      PROVE  IInv'
  BY <1>3, AgentStep
<1>4. ASSUME NEW r \in Confirms, ConfirmStep(r)
      PROVE  IInv'
  BY <1>4, ConfirmStepKeeps
<1>5. ASSUME NEW r \in Confirms, AgentCallsTool(r)
      PROVE  IInv'
  <2>0. PICK type \in {"tool_result", "tool_error"} : Sent(r, <<Public(type)>>)
    BY <1>5 DEF AgentCallsTool
  <2>1. /\ Sent(r, <<Public(type)>>) /\ r \in Streams
        /\ UNCHANGED <<status, late, archived, stage, asked, ran, sentLate>>
        /\ UNCHANGED <<attached, card, busy, open>>
    BY <1>5, <2>0 DEF AgentCallsTool, records, handler, page, Streams
  <2>2. ServerInv' /\ Raised' = Raised
    BY <2>1 DEF IInv, ServerInv, ServerTypes, Consistent, Exclusive, Winners, Raised
  <2>3. PageInv'
    BY <2>1, <2>2, PageKept, ServerMessages DEF IInv, PageInv
  <2>. QED BY <2>2, <2>3 DEF IInv
<1>6. ASSUME NEW t \in Turns, StartTurn(t)
      PROVE  IInv'
  <2>1. t \in Streams /\ stage[t] # "unused" /\ "agent" \in Active
    BY <1>6 DEF StartTurn, Streams, Active, Streaming
  <2>2. <<Broken>> \in Seq(Messages(Raised))
    BY ServerMessages
  <2>3. CASE ~Owned
    BY <1>6, <2>1, <2>2, <2>3, StreamStep DEF StartTurn, EndWith
  <2>4. CASE Owned
    BY <1>6, <2>1, <2>2, <2>4, StreamStep DEF StartTurn
  <2>. QED BY <2>3, <2>4
<1>7. ASSUME NEW c \in Calls, Expire(c)
      PROVE  IInv'
  <2>1. /\ status[c] # "none" /\ late' = late \cup {c}
        /\ UNCHANGED <<status, archived, stage, asked, ran, sentLate, events>>
        /\ UNCHANGED <<attached, card, busy, open>>
    BY <1>7 DEF Expire, handler, page
  <2>2. ServerInv' /\ Raised' = Raised
    BY <2>1 DEF IInv, ServerInv, ServerTypes, Consistent, Exclusive, Winners, Raised
  <2>. QED BY <2>1, <2>2 DEF IInv, PageInv
<1>8. CASE UNCHANGED vars
  BY <1>8 DEF vars, records, handler, page, IInv, ServerInv, PageInv, ServerTypes,
              Consistent, Exclusive, Winners, Raised
<1>. QED
  BY <1>1, <1>2, <1>3, <1>4, <1>5, <1>6, <1>7, <1>8 DEF Next

-----------------------------------------------------------------------------
(* The messages *)

(* Answers that have been noted. *)
Noted == {r \in Confirms : stage[r] = "ready" \/ r \in ran}

(* A step that writes no row and no message and brings no answer nearer to *)
(* its tool than it was.                                                   *)
LEMMA NotesStay ==
  ASSUME NotesInv, UNCHANGED <<status, notes>>,
         \A r \in Confirms : r \in Noted' => r \in Noted /\ asked'[r] = asked[r]
  PROVE  NotesInv'
<1>1. Raised' = Raised
  BY DEF Raised
<1>2. \A r \in Confirms : r \in Noted' => Resolution(r)' \in notes'
  BY DEF NotesInv, Noted, Resolution
<1>. QED BY <1>1, <1>2 DEF NotesInv, Noted

(* A stream moves elsewhere than to its tool. *)
LEMMA NotesMove ==
  ASSUME IInv, NotesInv, NEW s \in Streams, NEW to, to # "ready", Goto(s, to),
         UNCHANGED <<status, notes, asked, ran>>
  PROVE  NotesInv'
<1>1. \A r \in Confirms : r \in Noted' => r \in Noted
  BY DEF Noted, Goto, IInv, ServerInv, ServerTypes, Streams
<1>. QED BY <1>1, NotesStay

(* An answer that has not been noted is sent, or is found to be late. *)
LEMMA NotesAsked ==
  ASSUME IInv, NotesInv, NEW r \in Confirms, NEW to, to # "ready", Goto(r, to),
         stage[r] \in {"unused", "arrived"}, NEW new,
         asked' = [asked EXCEPT ![r] = new], UNCHANGED <<status, notes, ran>>
  PROVE  NotesInv'
<1>1. r \notin ran
  BY DEF IInv, ServerInv, Consistent
<1>2. \A q \in Confirms : q \in Noted' => q \in Noted /\ q # r
  BY <1>1 DEF Noted, Goto, IInv, ServerInv, ServerTypes, Streams
<1>3. \A q \in Confirms : q # r => asked'[q] = asked[q]
  BY DEF IInv, ServerInv, ServerTypes
<1>. QED BY <1>2, <1>3, NotesStay

(* The row of a claim is committed: what was noted of it only asked. *)
LEMMA NotesCommit ==
  ASSUME IInv, NotesInv, NEW r \in Confirms, CommitClaim(r)
  PROVE  NotesInv'
<1>a. /\ stage[r] = "claimed"
      /\ status' = [status EXCEPT ![asked[r].call] = StatusOf[asked[r].decision]]
      /\ stage' = [stage EXCEPT ![r] = "committed"]
      /\ UNCHANGED <<notes, asked, ran>>
  BY DEF CommitClaim, Goto
<1>1. Raised' = Raised
  BY CommitStep DEF IInv
<1>2. status[asked[r].call] = "pending"
  BY <1>a DEF IInv, ServerInv, Consistent
<1>3. \A n \in notes : n.confirmation \in {"pending", status'[n.call]}
  <2>. SUFFICES ASSUME NEW n \in notes
                PROVE  n.confirmation \in {"pending", status'[n.call]}
    OBVIOUS
  <2>1. n.call \in Calls
    BY DEF NotesInv, Raised
  <2>2. CASE n.call = asked[r].call
    BY <1>2, <2>2 DEF NotesInv
  <2>3. CASE n.call # asked[r].call
    BY <1>a, <2>1, <2>3 DEF NotesInv, IInv, ServerInv, ServerTypes
  <2>. QED BY <2>2, <2>3
<1>4. \A q \in Confirms : q \in Noted' => Resolution(q)' \in notes'
  BY <1>a DEF NotesInv, Noted, Resolution, IInv, ServerInv, ServerTypes, Streams
<1>. QED BY <1>a, <1>1, <1>3, <1>4 DEF NotesInv, Noted

(* The answer is noted, as its row has it. *)
LEMMA NotesResolution ==
  ASSUME IInv, NotesInv, NEW r \in Confirms, NoteResolution(r)
  PROVE  NotesInv'
<1>a. /\ stage[r] = "committed"
      /\ notes' = notes \cup {Resolution(r)}
      /\ stage' = [stage EXCEPT ![r] = "ready"]
      /\ UNCHANGED <<status, asked, ran>>
  BY DEF NoteResolution, Goto
<1>b. /\ asked[r].call \in Calls
      /\ status[asked[r].call] = StatusOf[asked[r].decision]
      /\ StatusOf[asked[r].decision] \in Resolved
  BY <1>a, StatusOfDecision
     DEF IInv, ServerInv, ServerTypes, Consistent, Winners
<1>1. Raised' = Raised
  BY <1>a DEF Raised
<1>2. /\ Resolution(r).call \in Raised
      /\ Resolution(r).confirmation = status[Resolution(r).call]
      /\ Resolution(r) \in [call : Raised, confirmation : {"pending"} \cup Resolved]
  BY <1>b DEF Resolution, Message, Raised, Resolved
<1>3. \A n \in notes' : n.confirmation \in {"pending", status'[n.call]}
  BY <1>a, <1>2 DEF NotesInv
<1>4. \A q \in Confirms : q \in Noted' => Resolution(q)' \in notes'
  <2>1. \A q \in Confirms : Resolution(q)' = Resolution(q)
    BY <1>a DEF Resolution
  <2>2. \A q \in Confirms : q \in Noted' => q \in Noted \/ q = r
    BY <1>a DEF Noted, IInv, ServerInv, ServerTypes, Streams
  <2>. QED BY <1>a, <2>1, <2>2 DEF NotesInv, Noted
<1>. QED BY <1>a, <1>1, <1>2, <1>3, <1>4 DEF NotesInv, Noted

(* A row is made with the message that asks. *)
LEMMA NotesRequired ==
  ASSUME IInv, NotesInv, NEW s \in Streams, NEW c \in Calls, AgentStopsAt(s, c)
  PROVE  NotesInv'
<1>a. /\ status[c] = "none"
      /\ status' = [status EXCEPT ![c] = "pending"]
      /\ notes' = notes \cup {Message(c, "pending")}
      /\ stage' = [stage EXCEPT ![s] = "ended"]
      /\ UNCHANGED <<asked, ran>>
  BY DEF AgentStopsAt, EndWith, Goto
<1>1. Raised' = Raised \cup {c}
  BY AgentStopsStep DEF IInv
<1>2. /\ Message(c, "pending").call = c
      /\ Message(c, "pending").confirmation = "pending"
      /\ Message(c, "pending")
           \in [call : Raised', confirmation : {"pending"} \cup Resolved]
  BY <1>1 DEF Message
<1>3. \A n \in notes : n.call \in Calls /\ n.call # c
  BY <1>a DEF NotesInv, Raised
<1>4. \A n \in notes' : n.confirmation \in {"pending", status'[n.call]}
  BY <1>a, <1>2, <1>3 DEF NotesInv, IInv, ServerInv, ServerTypes
<1>5. \A q \in Confirms : q \in Noted' => q \in Noted
  BY <1>a DEF Noted, IInv, ServerInv, ServerTypes, Streams
<1>6. \A q \in Confirms : q \in Noted' => Resolution(q)' \in notes'
  BY <1>a, <1>5 DEF NotesInv, Noted, Resolution
<1>7. notes' \subseteq [call : Raised', confirmation : {"pending"} \cup Resolved]
  BY <1>a, <1>1, <1>2 DEF NotesInv
<1>. QED BY <1>a, <1>1, <1>4, <1>6, <1>7 DEF NotesInv, Noted

(* Every step keeps the messages in agreement with the rows. *)
LEMMA NotesStep == IInv /\ NotesInv /\ [Next]_vars => NotesInv'
<1>. SUFFICES ASSUME IInv, NotesInv, [Next]_vars PROVE NotesInv'
  OBVIOUS
<1>1. ASSUME UNCHANGED <<status, notes, stage, asked, ran>>
      PROVE  NotesInv'
  BY <1>1, NotesStay DEF Noted
<1>2. CASE Clients
  <2>1. ASSUME NEW t \in Turns, SendMessage(t) PROVE NotesInv'
    BY <2>1, NotesMove DEF SendMessage, records, Streams
  <2>2. ASSUME NEW r \in Confirms, NEW c, NEW d, AskedFor(r, c, d)
        PROVE  NotesInv'
    BY <2>2, NotesAsked DEF AskedFor, records
  <2>3. CASE Reload \/ Archive
    BY <1>1, <2>3 DEF Reload, Archive, records, handler
  <2>. QED BY <1>2, <2>1, <2>2, <2>3 DEF Clients, RespondToConfirmation, OtherResponds
<1>3. ASSUME NEW s \in Streams, Deliver(s) \/ LoseConnection(s) PROVE NotesInv'
  BY <1>1, <1>3 DEF Deliver, LoseConnection, records, handler
<1>4. ASSUME NEW s \in Streams, Abandon(s) \/ Stop(s) \/ AgentStop(s) PROVE NotesInv'
  BY <1>4, NotesMove, NotesRequired
     DEF Abandon, Stop, AgentStop, AgentEnds, EndWith, records
<1>5. ASSUME NEW r \in Confirms, ConfirmStep(r) PROVE NotesInv'
  <2>. r \in Streams
    BY DEF Streams
  <2>1. CASE Select(r)
    <3>1. CASE ~Owned \/ status[asked[r].call] # "pending"
      BY <2>1, <3>1, NotesMove DEF Select, Refuse, EndWith, records
    <3>2. CASE ~(~Owned \/ status[asked[r].call] # "pending")
      BY <2>1, <3>2, NotesAsked DEF Select, records
    <3>. QED BY <3>1, <3>2
  <2>2. CASE Claim(r)
    BY <2>2, NotesMove DEF Claim, Refuse, EndWith, records
  <2>3. CASE CommitClaim(r)
    BY <2>3, NotesCommit
  <2>4. CASE NoteResolution(r)
    BY <2>4, NotesResolution
  <2>5. CASE StartStream(r)
    <3>1. CASE ~RunsTool(r)
      BY <2>5, <3>1, NotesMove DEF StartStream, EndWith, records
    <3>2. CASE RunsTool(r)
      <4>1. /\ stage[r] = "ready" /\ stage' = [stage EXCEPT ![r] = "executing"]
            /\ ran' = ran \cup {r} /\ UNCHANGED <<status, notes, asked>>
        BY <2>5, <3>2 DEF StartStream, Goto, records
      <4>2. \A q \in Confirms : q \in Noted' => q \in Noted
        BY <4>1 DEF Noted, IInv, ServerInv, ServerTypes
      <4>. QED BY <4>1, <4>2, NotesStay
    <3>. QED BY <3>1, <3>2
  <2>6. CASE ToolReturns(r)
    BY <2>6, NotesMove DEF ToolReturns, EndWith, records
  <2>. QED BY <1>5, <2>1, <2>2, <2>3, <2>4, <2>5, <2>6 DEF ConfirmStep
<1>6. ASSUME NEW r \in Confirms, AgentCallsTool(r) PROVE NotesInv'
  BY <1>1, <1>6 DEF AgentCallsTool, records, handler
<1>7. ASSUME NEW t \in Turns, StartTurn(t) PROVE NotesInv'
  BY <1>7, NotesMove DEF StartTurn, EndWith, records, Streams
<1>8. ASSUME NEW c \in Calls, Expire(c) PROVE NotesInv'
  BY <1>1, <1>8 DEF Expire, handler
<1>9. CASE UNCHANGED vars
  BY <1>1, <1>9 DEF vars, records, handler
<1>. QED
  BY <1>2, <1>3, <1>4, <1>5, <1>6, <1>7, <1>8, <1>9 DEF Next

-----------------------------------------------------------------------------
(* Theorems *)

(* IInv holds in every reachable state. *)
THEOREM Inductive == Spec => []IInv
BY IInvInit, IInvStep, PTL DEF Spec

(* The messages agree with the rows in every reachable state. *)
LEMMA NotesHold == Spec => []NotesInv
<1>1. Init => NotesInv
  BY DEF Init, NotesInv, Raised, Streams
<1>. QED BY <1>1, NotesStep, Inductive, PTL DEF Spec

(* Every variable keeps its type. *)
THEOREM Typed == Spec => []TypeOK
<1>1. IInv /\ NotesInv => TypeOK
  BY DEF IInv, ServerInv, ServerTypes, PageInv, NotesInv, Raised, TypeOK
<1>. QED BY <1>1, Inductive, NotesHold, PTL

(* The messages of the conversation and its rows, which two transactions   *)
(* write, never contradict one another, and no tool runs before the        *)
(* conversation says that it was approved.                                 *)
THEOREM MessagesAgree == Spec => []NotesAgree
<1>1. IInv /\ NotesInv => NotesAgree
  <2>. SUFFICES ASSUME IInv, NotesInv PROVE NotesAgree
    OBVIOUS
  <2>1. ASSUME NEW r \in ran
        PROVE  Message(asked[r].call, "approved") \in notes
    <3>1. r \in Confirms /\ asked[r].decision = "approve"
      BY DEF IInv, ServerInv, ServerTypes, Consistent
    <3>. QED BY <3>1, StatusOfDecision DEF NotesInv, Resolution
  <2>. QED BY <2>1 DEF NotesInv, NotesAgree, Raised
<1>. QED BY <1>1, Inductive, NotesHold, PTL

(* However many answers to a call arrive, from however many clients, and   *)
(* whatever breaks, the tool is started at most once, and only if the row  *)
(* says approved (claim_confirmation).                                     *)
THEOREM RunsAtMostOnce == Spec => []RunsOnce
<1>1. IInv => RunsOnce
  <2>. SUFFICES ASSUME IInv, NEW r \in ran
                PROVE  /\ status[asked[r].call] = "approved"
                       /\ \A q \in ran : asked[q].call = asked[r].call => q = r
    BY DEF RunsOnce
  <2>1. ran \subseteq Confirms /\ ran \subseteq Winners
    BY DEF IInv, ServerInv, ServerTypes, Winners
  <2>2. status[asked[r].call] = "approved"
    BY <2>1, StatusOfDecision DEF IInv, ServerInv, Consistent
  <2>3. \A q \in ran : asked[q].call = asked[r].call => q = r
    BY <2>1 DEF IInv, ServerInv, Exclusive
  <2>. QED BY <2>2, <2>3
<1>. QED BY <1>1, Inductive, PTL

(* An answer sent after the call's time is over does not run the tool.     *)
THEOREM LateAnswersDoNotRun == Spec => []LateNeverRuns
<1>1. IInv => LateNeverRuns
  BY DEF IInv, ServerInv, ServerTypes, Consistent, LateNeverRuns
<1>. QED BY <1>1, Inductive, PTL

(* The page never shows a card for which the server has no row, whatever   *)
(* events of however many streams are still under way.                     *)
THEOREM CardsHaveRows == Spec => []CardHasRow
<1>1. IInv => CardHasRow
  BY DEF IInv, PageInv, Raised, CardHasRow
<1>. QED BY <1>1, Inductive, PTL

(* Only the commit of a claim and an agent that stops write a row. *)
LEMMA RowWriters ==
  ASSUME [Next]_vars
  PROVE  \/ status' = status
         \/ \E r \in Confirms : CommitClaim(r)
         \/ \E s \in Streams, c \in Calls : AgentStopsAt(s, c)
<1>1. Clients => status' = status
  BY DEF Clients, SendMessage, RespondToConfirmation, OtherResponds, AskedFor,
         Reload, Archive, records
<1>2. ASSUME NEW s \in Streams
      PROVE  Deliver(s) \/ LoseConnection(s) \/ Abandon(s) \/ Stop(s) \/ AgentEnds(s)
               => status' = status
  BY DEF Deliver, LoseConnection, Abandon, Stop, AgentEnds, records
<1>3. ASSUME NEW r \in Confirms,
             \/ Select(r) \/ Claim(r) \/ NoteResolution(r) \/ StartStream(r)
             \/ ToolReturns(r) \/ AgentCallsTool(r)
      PROVE  status' = status
  BY <1>3 DEF Select, Claim, Refuse, NoteResolution, StartStream, ToolReturns,
              AgentCallsTool, records
<1>4. ASSUME NEW t \in Turns
      PROVE  StartTurn(t) => status' = status
  BY DEF StartTurn, records
<1>5. ASSUME NEW c \in Calls
      PROVE  Expire(c) => status' = status
  BY DEF Expire
<1>6. UNCHANGED vars => status' = status
  BY DEF vars, records
<1>7. ASSUME NEW r \in Confirms, ConfirmStep(r) \/ AgentCallsTool(r)
      PROVE  status' = status \/ CommitClaim(r)
  BY <1>3, <1>7 DEF ConfirmStep
<1>8. ASSUME NEW s \in Streams,
             Deliver(s) \/ LoseConnection(s) \/ Abandon(s) \/ Stop(s) \/ AgentStop(s)
      PROVE  status' = status \/ \E c \in Calls : AgentStopsAt(s, c)
  BY <1>2, <1>8 DEF AgentStop
<1>. QED
  BY <1>1, <1>4, <1>5, <1>6, <1>7, <1>8, Zenon DEF Next

(* A resolved row is never written again: the first answer to be committed *)
(* stands, however many had read the row as pending before.                *)
THEOREM RowsAreFinal == Spec => AnswerIsFinal
<1>. DEFINE Final == \A c \in Calls : status[c] \in Resolved => status'[c] = status[c]
<1>1. IInv /\ [Next]_vars => [Final]_vars
  <2>. SUFFICES ASSUME IInv, [Next]_vars PROVE Final
    OBVIOUS
  <2>1. CASE status' = status
    BY <2>1
  <2>2. ASSUME NEW r \in Confirms, CommitClaim(r)
        PROVE  Final
    <3>1. status[asked[r].call] = "pending"
      BY <2>2 DEF CommitClaim, IInv, ServerInv, Consistent
    <3>. QED BY <2>2, <3>1 DEF CommitClaim, IInv, ServerInv, ServerTypes, Resolved
  <2>3. ASSUME NEW s \in Streams, NEW d \in Calls, AgentStopsAt(s, d)
        PROVE  Final
    BY <2>3 DEF AgentStopsAt, IInv, ServerInv, ServerTypes, Resolved
  <2>. QED BY <2>1, <2>2, <2>3, RowWriters
<1>. QED BY <1>1, Inductive, PTL DEF Spec, AnswerIsFinal

=============================================================================
