-------------------------- MODULE ToolConfirmation --------------------------
(***************************************************************************)
(* The confirmation of destructive tool calls in one conversation.  The    *)
(* agent stops at such a call; the server records it as pending            *)
(* (backend/app/services/conversation_stream_service.py) and streams the   *)
(* request to the page, which shows a card                                 *)
(* (frontend/src/stores/chat-store.ts).  The answer to the card is a       *)
(* request of its own: it claims the record, runs the tool and resumes the *)
(* agent, which may stop at another call.                                  *)
(*                                                                         *)
(* A turn and an answer are both a stream: a handler on the server, a      *)
(* queue of events under way, and the callbacks on the page.  The streams  *)
(* of one page overlap, and clients other than the page (another page, a   *)
(* retry, a script) answer the same calls.  A connection may break and the *)
(* server may stop at any point.                                           *)
(*                                                                         *)
(* One action is the code between two awaits, or one callback.  Texts,     *)
(* arguments and artifacts are left out, and of the messages stored those  *)
(* that are not about a confirmation.                                      *)
(***************************************************************************)
EXTENDS Integers, Sequences, FiniteSets

CONSTANTS
  Calls,     \* tool_call_ids of destructive calls, unique per conversation
  Turns,     \* the streams of POST /chat
  Confirms,  \* the streams of POST /confirm
  NoCall,    \* no card
  Backlog    \* bound: tool results a resumed agent has under way

ASSUME StreamAssumption ==
  /\ Turns \cap Confirms = {} /\ NoCall \notin Calls
  /\ Backlog \in Nat

VARIABLES
  status,    \* committed status of each tool_confirmations row
  late,      \* calls whose timeout_s has passed
  archived,  \* the conversation is archived
  notes,     \* messages of the conversation about a confirmation
  stage,     \* where the handler of each stream is
  asked,     \* the call and the decision each answer is about
  ran,       \* answers that have started execute_confirmed_tool
  sentLate,  \* history: answers sent when their call was late
  events,    \* events of each stream under way to the page
  attached,  \* streams the page reads
  card,      \* pendingConfirmations of the conversation
  busy,      \* isStreaming
  open       \* history: calls the page was told of, neither answered nor dropped

records == <<status, late, archived, notes>>
handler == <<stage, asked, ran>>
page    == <<attached, card, busy, open>>
vars    == <<records, handler, sentLate, events, page>>

Streams   == Turns \cup Confirms
Decisions == {"approve", "deny", "timeout"}
Resolved  == {"approved", "denied", "timeout"}

StatusOf == [d \in Decisions |-> CASE d = "approve" -> "approved"
                                   [] d = "deny"    -> "denied"
                                   [] d = "timeout" -> "timeout"]

Event(kind) == [kind |-> kind, call |-> NoCall]
Required(c) == [kind |-> "confirmation_required", call |-> c]
(* The response ends in an error status, or breaks: the reader throws.     *)
Broken == Event("broken")

(* Nothing reaches a client that is not the page, or is no longer there.   *)
Sent(s, es) == events' = IF s \in attached THEN [events EXCEPT ![s] = @ \o es]
                                           ELSE events
Goto(s, to) == stage' = [stage EXCEPT ![s] = to]
EndWith(s, es) == Goto(s, "ended") /\ Sent(s, es)

Streaming == {"ready", "executing", "agent"}
Active    == {"arrived", "found", "claimed", "committed"} \cup Streaming

(* _get_owned_conversation *)
Owned == ~archived

(* build_confirmation_message: what the agent reads of the call later *)
Message(c, confirmation) == [call |-> c, confirmation |-> confirmation]

(* public_agent_event: a tool that fails has a result as well.  An event   *)
(* that changes no card (text, a call, the sandbox's) is left out.         *)
Public(type) == Event(IF type = "tool_error" THEN "tool_result" ELSE type)

-----------------------------------------------------------------------------
(* The page *)

(* The input is disabled while the page streams.                           *)
SendMessage(t) ==
  /\ ~busy /\ stage[t] = "unused"
  /\ Goto(t, "arrived")
  /\ attached' = attached \cup {t}
  /\ busy' = TRUE /\ card' = NoCall /\ open' = {}
  /\ UNCHANGED <<records, asked, ran, sentLate, events>>

(* The buttons of the card, and the effect that denies when the time is    *)
(* over; both wait until the page does not stream.  The page has the event *)
(* after the row was created, so that its time ends after the row's.       *)
MayPress(d) ==
  /\ ~busy /\ card # NoCall
  /\ d = "timeout" => card \in late

AskedFor(r, c, d) ==
  /\ stage[r] = "unused"
  /\ Goto(r, "arrived")
  /\ asked' = [asked EXCEPT ![r] = [call |-> c, decision |-> d]]
  /\ sentLate' = IF c \in late THEN sentLate \cup {r} ELSE sentLate
  /\ UNCHANGED <<records, ran, events>>

RespondToConfirmation(r, d) ==
  /\ MayPress(d)
  /\ AskedFor(r, card, d)
  /\ attached' = attached \cup {r}
  /\ open' = open \ {card}
  /\ busy' = TRUE
  /\ card' = IF d = "approve" THEN card ELSE NoCall

(* Any other client of the same user.                                      *)
OtherResponds(r, c, d) ==
  /\ status[c] # "none"
  /\ AskedFor(r, c, d)
  /\ UNCHANGED page

OnConfirmationRequired(c) == card' = c /\ busy' = FALSE /\ open' = open \cup {c}

OnToolResult == card' = NoCall /\ UNCHANGED <<busy, open>>

OnError == busy' = FALSE /\ UNCHANGED <<card, open>>

(* The end of an answer clears the card; the end of a turn keeps it.       *)
CardAfter(s) == IF s \in Confirms THEN NoCall ELSE card

OnDone(s) == busy' = FALSE /\ card' = CardAfter(s) /\ UNCHANGED open

OnBroken(s) == OnDone(s)

Callback(s, e) ==
  CASE e.kind = "confirmation_required" -> OnConfirmationRequired(e.call)
    [] e.kind = "tool_result"           -> OnToolResult
    [] e.kind = "error"                 -> OnError
    [] e.kind = "done"                  -> OnDone(s)
    [] e.kind = "broken"                -> OnBroken(s)

(* The reader hands the next event to its callback.  It forgets the name   *)
(* of an event whose name and data arrive in two pieces, and skips it.     *)
Deliver(s) ==
  /\ s \in attached /\ events[s] # <<>>
  /\ events' = [events EXCEPT ![s] = Tail(@)]
  /\ \/ Callback(s, Head(events[s]))
     \/ Head(events[s]) # Broken /\ UNCHANGED <<card, busy, open>>
  /\ UNCHANGED <<records, handler, sentLate, attached>>

(* The connection of a stream breaks; the handler learns of it later.      *)
LoseConnection(s) ==
  /\ s \in attached /\ (stage[s] # "ended" \/ events[s] # <<>>)
  /\ attached' = attached \ {s}
  /\ events' = [events EXCEPT ![s] = <<>>]
  /\ OnBroken(s)
  /\ UNCHANGED <<records, handler, sentLate>>

(* A new page restores the conversation but not its card.                  *)
Reload ==
  /\ attached' = {} /\ card' = NoCall /\ busy' = FALSE /\ open' = {}
  /\ events' = [s \in Streams |-> <<>>]
  /\ UNCHANGED <<records, handler, sentLate>>

-----------------------------------------------------------------------------
(* The server: the rows *)

Expire(c) ==
  /\ status[c] # "none" /\ c \notin late
  /\ late' = late \cup {c}
  /\ UNCHANGED <<status, archived, notes, handler, sentLate, events, page>>

(* DELETE of the conversation by another client of the same user.          *)
Archive ==
  /\ Owned /\ archived' = TRUE
  /\ UNCHANGED <<status, late, notes, handler, sentLate, events, page>>

-----------------------------------------------------------------------------
(* The server: claiming a row *)

Refuse(r) == EndWith(r, <<Broken>>) /\ UNCHANGED <<records, asked, ran>>

InTimeAlways(r) == asked[r].decision \* mutant: an approval is never late

(* An approval that comes late is a timeout.                               *)
InTime(r) ==
  IF asked[r].decision = "approve" /\ asked[r].call \in late
  THEN "timeout" ELSE asked[r].decision

(* The conversation and the pending row are read; the clock is read with   *)
(* the row.                                                                *)
Select(r) ==
  /\ stage[r] = "arrived"
  /\ IF ~Owned \/ status[asked[r].call] # "pending"
     THEN Refuse(r)
     ELSE /\ Goto(r, "found")
          /\ asked' = [asked EXCEPT ![r].decision = InTime(r)]
          /\ UNCHANGED <<records, ran, events>>
  /\ UNCHANGED <<sentLate, page>>

ClaimableById(r) == TRUE \* mutant: the update matches the row by id only

(* The conditional UPDATE.                                                 *)
Claimable(r) == status[asked[r].call] = "pending"

(* It waits for the transaction that has updated the row.                  *)
RowLocked(r) == \E q \in Confirms : stage[q] = "claimed" /\ asked[q].call = asked[r].call

Claim(r) ==
  /\ stage[r] = "found" /\ ~RowLocked(r)
  /\ IF Claimable(r)
     THEN Goto(r, "claimed") /\ UNCHANGED <<records, asked, ran, events>>
     ELSE Refuse(r)
  /\ UNCHANGED <<sentLate, page>>

(* The claim is committed before anything else is done for the answer.     *)
CommitClaim(r) ==
  /\ stage[r] = "claimed"
  /\ status' = [status EXCEPT ![asked[r].call] = StatusOf[asked[r].decision]]
  /\ Goto(r, "committed")
  /\ UNCHANGED <<late, archived, notes, asked, ran, sentLate, events, page>>

Resolution(r) == Message(asked[r].call, StatusOf[asked[r].decision])

(* A second transaction adds the answer to the conversation.               *)
NoteResolution(r) ==
  /\ stage[r] = "committed"
  /\ notes' = notes \cup {Resolution(r)}
  /\ Goto(r, "ready")
  /\ UNCHANGED <<status, late, archived, asked, ran, sentLate, events, page>>

-----------------------------------------------------------------------------
(* The server: the streams *)

RunsToolAlways(r) == asked[r].decision # "deny" \* mutant: a timeout runs the tool

RunsTool(r) == asked[r].decision = "approve"

(* A denial or a timeout ends the stream: the agent is not resumed.        *)
StartStream(r) ==
  /\ stage[r] = "ready"
  /\ IF RunsTool(r)
     THEN /\ Goto(r, "executing") /\ ran' = ran \cup {r}
          /\ UNCHANGED events
     ELSE EndWith(r, <<Event("done")>>) /\ UNCHANGED ran
  /\ UNCHANGED <<records, asked, sentLate, page>>

ToolReturns(r) ==
  /\ stage[r] = "executing"
  /\ \/ Goto(r, "agent") /\ Sent(r, <<Event("tool_result")>>)
     \/ EndWith(r, <<Event("error")>>)
  /\ UNCHANGED <<records, asked, ran, sentLate, page>>

(* The handler of a turn starts the agent.                                 *)
StartTurn(t) ==
  /\ stage[t] = "arrived"
  /\ IF Owned THEN Goto(t, "agent") /\ UNCHANGED events ELSE EndWith(t, <<Broken>>)
  /\ UNCHANGED <<records, asked, ran, sentLate, page>>

(* A call that needs no confirmation, in a resumed agent.  The page clears *)
(* the card at its result or error; in a turn it clears only the call's    *)
(* own.                                                                    *)
AgentCallsTool(r) ==
  /\ stage[r] = "agent" /\ r \in attached
  /\ Len(events[r]) < Backlog
  /\ \E type \in {"tool_result", "tool_error"} : Sent(r, <<Public(type)>>)
  /\ UNCHANGED <<records, handler, sentLate, page>>

AgentStopsUnsaved(s, c) == \* mutant: the event is sent, the row is not committed
  /\ stage[s] = "agent" /\ status[c] = "none"
  /\ EndWith(s, <<Required(c), Event("done")>>)
  /\ UNCHANGED <<records, asked, ran, sentLate, page>>

(* A destructive call: the row and its message are committed, then the     *)
(* event is sent; the agent gives up the rest of its calls and is done.    *)
AgentStopsAt(s, c) ==
  /\ stage[s] = "agent" /\ status[c] = "none"
  /\ status' = [status EXCEPT ![c] = "pending"]
  /\ notes' = notes \cup {Message(c, "pending")}
  /\ EndWith(s, <<Required(c), Event("done")>>)
  /\ UNCHANGED <<late, archived, asked, ran, sentLate, page>>

(* The answer is complete, or the model, or storing a row, fails.  A turn  *)
(* is followed by done in every case.                                      *)
Endings(s) ==
  IF s \in Turns
  THEN {<<Event("done")>>, <<Public("error"), Event("done")>>, <<Event("done"), Broken>>}
  ELSE {<<Public("done")>>, <<Public("error")>>}

AgentEnds(s) ==
  /\ stage[s] = "agent"
  /\ \E es \in Endings(s) : EndWith(s, es)
  /\ UNCHANGED <<records, asked, ran, sentLate, page>>

(* The server has noticed that nobody reads the response.                  *)
Abandon(s) ==
  /\ s \notin attached /\ stage[s] \in Streaming
  /\ Goto(s, "ended")
  /\ UNCHANGED <<records, asked, ran, sentLate, events, page>>

(* The server stops, or the request fails before it: an open transaction   *)
(* is rolled back.                                                         *)
Stop(s) ==
  /\ stage[s] \in Active
  /\ EndWith(s, <<Broken>>)
  /\ UNCHANGED <<records, asked, ran, sentLate, page>>

-----------------------------------------------------------------------------
Init ==
  /\ status = [c \in Calls |-> "none"]
  /\ late = {} /\ archived = FALSE /\ notes = {}
  /\ stage = [s \in Streams |-> "unused"]
  /\ asked = [r \in Confirms |-> [call |-> NoCall, decision |-> "deny"]]
  /\ ran = {} /\ sentLate = {}
  /\ events = [s \in Streams |-> <<>>]
  /\ attached = {} /\ card = NoCall /\ busy = FALSE /\ open = {}

ConfirmStep(r) ==
  \/ Select(r) \/ Claim(r) \/ CommitClaim(r) \/ NoteResolution(r)
  \/ StartStream(r) \/ ToolReturns(r)

AgentStop(s) == AgentEnds(s) \/ \E c \in Calls : AgentStopsAt(s, c)

Clients ==
  \/ \E t \in Turns : SendMessage(t)
  \/ \E r \in Confirms, d \in Decisions :
       RespondToConfirmation(r, d) \/ \E c \in Calls : OtherResponds(r, c, d)
  \/ Reload
  \/ Archive

Next ==
  \/ Clients
  \/ \E s \in Streams : Deliver(s) \/ LoseConnection(s) \/ Abandon(s) \/ Stop(s) \/ AgentStop(s)
  \/ \E r \in Confirms : ConfirmStep(r) \/ AgentCallsTool(r)
  \/ \E t \in Turns : StartTurn(t)
  \/ \E c \in Calls : Expire(c)

Spec == Init /\ [][Next]_vars

-----------------------------------------------------------------------------
(* Properties *)

TypeOK ==
  /\ status \in [Calls -> {"none", "pending"} \cup Resolved]
  /\ late \subseteq {c \in Calls : status[c] # "none"}
  /\ archived \in BOOLEAN /\ busy \in BOOLEAN
  /\ notes \subseteq [call : Calls, confirmation : {"pending"} \cup Resolved]
  /\ stage \in [Streams -> Active \cup {"unused", "ended"}]
  /\ asked \in [Confirms -> [call : Calls \cup {NoCall}, decision : Decisions]]
  /\ ran \subseteq Confirms /\ sentLate \subseteq Confirms
  /\ \A s \in Streams : s \notin attached => events[s] = <<>>
  /\ attached \subseteq {s \in Streams : stage[s] # "unused"}
  /\ card \in Calls \cup {NoCall} /\ open \subseteq Calls

(* However many answers to a call arrive, and whatever breaks, the tool is *)
(* started at most once, and only if the row says approved.                *)
RunsOnce ==
  \A r \in ran :
    /\ status[asked[r].call] = "approved"
    /\ \A q \in ran : asked[q].call = asked[r].call => q = r

(* An answer that the client sends after the time of the call is over does *)
(* not run the tool, whatever it says.                                     *)
LateNeverRuns == ran \cap sentLate = {}

(* The conversation tells what the rows say: every row has the message     *)
(* that asks for it, a message of an answer says what the row does, and no *)
(* tool runs before the message that it was approved is there.             *)
NotesAgree ==
  /\ \A c \in Calls : status[c] # "none" => Message(c, "pending") \in notes
  /\ \A n \in notes : n.confirmation \in {"pending", status[n.call]}
  /\ \A r \in ran : Message(asked[r].call, "approved") \in notes

(* A row that is resolved stays as it is: two answers that both have read  *)
(* it as pending do not overwrite one another.                             *)
AnswerIsFinal ==
  [][\A c \in Calls : status[c] \in Resolved => status'[c] = status[c]]_vars

(* The page never shows a card for which the server has no row.            *)
CardHasRow == card # NoCall => status[card] # "none"

(* A call the page was told of is on its card until the user answers it or *)
(* goes on.                                                                *)
CardIsShown == \A c \in open : card = c

=============================================================================
