--------------------------- MODULE EventDelivery ---------------------------
(***************************************************************************)
(* How an event goes from a probe to the master: sendEvent of                *)
(* agent/lib/app.js, addEvents of relay/lib/events.js and of                 *)
(* master/lib/events.js, and RelayClient.sendEvents between them, with the    *)
(* retries of the agent around those of the relay; and the events the relay   *)
(* sends on its own account (sendOperatorEvent).                             *)
(*                                                                          *)
(* The agent sends each event by itself.  The relay's handler of one request *)
(* gives the event its uuid and time.  A connection may break: the client is  *)
(* told at once, the server goes on.  Processing at the master (module       *)
(* Alarms) is one step here, taken with its answer.                          *)
(***************************************************************************)
EXTENDS Integers, FiniteSets

CONSTANTS
  Events,      \* events of probes
  Foreign,     \* those whose user does not own the zone they come from
  Own,         \* events of the relay for the operator
  Retries,     \* failAfter of the agent and of the relay's handler: 5
  OwnRetries,  \* failAfter of sendOperatorEvent: 20
  MaxTroubles  \* bound: broken connections, errors of the master, relay exits

ASSUME EventDeliveryAssumption ==
  /\ Foreign \subseteq Events /\ Own \cap Events = {}
  /\ Retries \in Nat /\ OwnRetries \in Nat /\ MaxTroubles \in Nat

VARIABLES
  agent,      \* the agent's sendEvent
  relay,      \* the relay's handler, or its sendOperatorEvent
  requests,   \* requests on their way to the master: handler and try
  processed,  \* history: how often processEvent has done its work
  troubles    \* troubles so far

vars == <<agent, relay, requests, processed, troubles>>

All == Events \cup Own
Off == [pc |-> "off", nth |-> 0, fails |-> 0, old |-> FALSE]
Limit(e) == IF e \in Own THEN OwnRetries ELSE Retries

TypeOK ==
  /\ agent \in [Events -> [pc: {"new", "asking", "waiting", "accepted", "failed"},
                           fails: 0..Retries]]
  /\ \A e \in All : relay[e] \in [pc: {"off", "asking", "waiting", "hung", "over"},
                                  nth: 0..(Retries + 1), fails: 0..Limit(e), old: BOOLEAN]
  /\ \A e \in All : \A r \in requests[e] : r[1] <= relay[e].nth /\ r[2] \in 0..Limit(e)
  /\ \A e \in All : relay[e].pc \in {"asking", "waiting"} => e \notin Foreign
  /\ troubles \in 0..MaxTroubles

Init ==
  /\ agent = [e \in Events |-> [pc |-> "new", fails |-> 0]]
  /\ relay = [e \in All |-> Off]
  /\ requests = [e \in All |-> {}]
  /\ processed = [e \in All |-> 0]
  /\ troubles = 0

Trouble == troubles < MaxTroubles /\ troubles' = troubles + 1

----------------------------------------------------------------------------
\* What a client makes of an answer

Answers == {"202", "4xx", "5xx", "broken"}
\* Only a statusCode of 500 or more is retried, at most Retries times.
AgentTold(e, answer) ==
  IF e \notin Events \/ agent[e].pc # "asking" THEN agent
  ELSE [agent EXCEPT ![e] =
    CASE answer = "202" -> [@ EXCEPT !.pc = "accepted"]
      [] answer = "5xx" /\ @.fails < Retries ->
             [pc |-> "waiting", fails |-> agent[e].fails + 1]
      [] OTHER -> [@ EXCEPT !.pc = "failed"]]
\* The relay's handler is done.  An error that is no HTTP error becomes a 500.
Finish(e, answer) ==
  /\ relay' = [relay EXCEPT ![e].pc = IF e \in Own THEN "over" ELSE "off"]
  /\ agent' = AgentTold(e, IF answer = "broken" THEN "5xx" ELSE answer)
\* The handler retries what the agent would; sendOperatorEvent any error.
Retried(e, answer) ==
  \/ answer = "5xx"
  \/ e \in Own /\ answer # "202"
RelayTold(e, answer) ==
  IF Retried(e, answer) /\ relay[e].fails < Limit(e)
  THEN /\ relay' = [relay EXCEPT ![e].pc = "waiting", ![e].fails = @ + 1]
       /\ agent' = agent
  ELSE Finish(e, answer)

----------------------------------------------------------------------------
\* The agent

RequestBug(e, from) ==  \* mutant: events of other users are relayed
  /\ agent[e].pc = from
  /\ agent' = [agent EXCEPT ![e].pc = "asking"]
  /\ LET nth == relay[e].nth + 1 IN
     /\ relay' = [relay EXCEPT ![e] = [Off EXCEPT !.pc = "asking", !.nth = nth]]
     /\ requests' = [requests EXCEPT ![e] = @ \cup {<<nth, 0>>}]
  /\ UNCHANGED <<processed, troubles>>
\* A request to the relay, which starts a handler.  An event of another user is
\* dropped; when none is left the handler ends without an answer.
Request(e, from) ==
  /\ agent[e].pc = from
  /\ agent' = [agent EXCEPT ![e].pc = "asking"]
  /\ LET nth == relay[e].nth + 1 IN
     IF e \in Foreign
     THEN /\ relay' = [relay EXCEPT ![e] = [Off EXCEPT !.pc = "hung", !.nth = nth]]
          /\ UNCHANGED requests
     ELSE /\ relay' = [relay EXCEPT ![e] = [Off EXCEPT !.pc = "asking", !.nth = nth]]
          /\ requests' = [requests EXCEPT ![e] = @ \cup {<<nth, 0>>}]
  /\ UNCHANGED <<processed, troubles>>
SendEvent(e) == Request(e, "new")
AgentRetries(e) == Request(e, "waiting")
\* The connection to the relay breaks; the handler goes on.
AgentLoses(e) ==
  /\ agent[e].pc = "asking" /\ Trouble
  /\ agent' = AgentTold(e, "broken")
  /\ UNCHANGED <<relay, requests, processed>>

----------------------------------------------------------------------------
\* The relay

SendOperatorEvent(e) ==
  /\ e \in Own /\ relay[e].pc = "off"
  /\ relay' = [relay EXCEPT ![e].pc = "asking", ![e].nth = 1]
  /\ requests' = [requests EXCEPT ![e] = @ \cup {<<1, 0>>}]
  /\ UNCHANGED <<agent, processed, troubles>>
RelayRetriesBug(e) ==  \* mutant: too late for a try, and for an answer
  /\ relay[e].pc = "waiting"
  /\ ~(relay[e].old /\ e \in Events)
  /\ relay' = [relay EXCEPT ![e].pc = "asking"]
  /\ requests' = [requests EXCEPT ![e] = @ \cup {<<relay[e].nth, relay[e].fails>>}]
  /\ UNCHANGED <<agent, processed, troubles>>
\* The next try, unless MAX_ELAPSED is over: then a 502.
RelayRetries(e) ==
  /\ relay[e].pc = "waiting"
  /\ IF relay[e].old /\ e \in Events
     THEN Finish(e, "5xx") /\ UNCHANGED requests
     ELSE /\ relay' = [relay EXCEPT ![e].pc = "asking"]
          /\ requests' = [requests EXCEPT ![e] = @ \cup {<<relay[e].nth, relay[e].fails>>}]
          /\ agent' = agent
  /\ UNCHANGED <<processed, troubles>>
\* The connection to the master breaks, before or after the request came in.
RelayLoses(e) ==
  /\ relay[e].pc = "asking" /\ Trouble
  /\ RelayTold(e, "broken")
  /\ requests' \in {requests, [requests EXCEPT ![e] = @ \ {<<relay[e].nth, relay[e].fails>>}]}
  /\ UNCHANGED processed
\* Five minutes since the handler began.
Ages(e) ==
  /\ relay[e].pc \in {"asking", "waiting"} /\ ~relay[e].old
  /\ relay' = [relay EXCEPT ![e].old = TRUE]
  /\ UNCHANGED <<agent, requests, processed, troubles>>
RelayExits ==
  /\ Trouble
  /\ relay' = [e \in All |-> [relay[e] EXCEPT !.pc = IF e \in Own /\ @ # "off" THEN "over"
                                                     ELSE "off"]]
  /\ agent' = [e \in Events |-> AgentTold(e, "broken")[e]]
  /\ UNCHANGED <<requests, processed>>

----------------------------------------------------------------------------
\* The master

\* The request the handler waits for, and its answer.
Answer(e, r, answer) ==
  /\ requests' = [requests EXCEPT ![e] = @ \ {r}]
  /\ IF relay[e].pc = "asking" /\ r = <<relay[e].nth, relay[e].fails>>
     THEN RelayTold(e, answer) ELSE UNCHANGED <<agent, relay>>
\* An event more than five minutes old is dropped with a 422.
IsOld(e, r) == IF r[1] = relay[e].nth THEN {relay[e].old} ELSE BOOLEAN
Process(e) ==
  \E r \in requests[e] :
    /\ e \in Events /\ FALSE \in IsOld(e, r)
    /\ Answer(e, r, "202")
    /\ processed' = [processed EXCEPT ![e] = @ + 1]
    /\ UNCHANGED troubles
DropOldEventBug(e) ==  \* mutant: what is dropped is accepted
  \E r \in requests[e] :
    /\ e \in Events /\ TRUE \in IsOld(e, r)
    /\ Answer(e, r, "202") /\ UNCHANGED <<processed, troubles>>
DropOldEvent(e) ==
  \E r \in requests[e] :
    /\ e \in Events /\ TRUE \in IsOld(e, r)
    /\ Answer(e, r, "4xx") /\ UNCHANGED <<processed, troubles>>
\* A user, a probe or a listed alarm that is not there (any more) is a 4xx.
RefuseEvent(e) ==
  \E r \in requests[e] :
    /\ e \in Events
    /\ Answer(e, r, "4xx") /\ UNCHANGED <<processed, troubles>>
\* Any other error, before or after the alarm was made, is a 5xx.
ProcessFails(e) ==
  \E r \in requests[e] :
    /\ e \in Events /\ Trouble
    /\ Answer(e, r, "5xx")
    /\ \E done \in 0..1 : processed' = [processed EXCEPT ![e] = @ + done]
\* processEvent knows no events of type "operator".
RefuseOperatorEvent(e) ==
  \E r \in requests[e] :
    /\ e \in Own
    /\ Answer(e, r, "5xx") /\ UNCHANGED <<processed, troubles>>
Master(e) ==
  \/ Process(e) \/ DropOldEvent(e) \/ RefuseEvent(e)
  \/ ProcessFails(e) \/ RefuseOperatorEvent(e)

Next ==
  \/ \E e \in Events : SendEvent(e) \/ AgentRetries(e) \/ AgentLoses(e)
  \/ \E e \in All : \/ SendOperatorEvent(e) \/ RelayRetries(e) \/ RelayLoses(e)
                    \/ Ages(e) \/ Master(e)
  \/ RelayExits

Spec == Init /\ [][Next]_vars
\* Timers fire, and the master answers.
FairSpec ==
  /\ Spec
  /\ \A e \in Events : WF_vars(AgentRetries(e))
  /\ \A e \in All : WF_vars(RelayRetries(e)) /\ WF_vars(Master(e))

----------------------------------------------------------------------------
\* Properties

\* However the tries of two clients, one inside the other, and the errors of the
\* master come together: what the agent takes for delivered was processed; and an
\* event is processed again, which may be a second alarm, only after a broken
\* connection or an error, as the nested retries add nothing of their own.
DeliveredOnceOrTrouble ==
  /\ \A e \in Events : agent[e].pc = "accepted" => processed[e] > 0
  /\ \A e \in All : processed[e] <= 1 + troubles

\* Each sendEvent ends, so that its probe's events do not pile up in the agent.
\* Excepted is an event the relay drops: its request gets no answer at all.
SendsEnd ==
  \A e \in Events \ Foreign : agent[e].pc = "asking" ~> agent[e].pc \in {"accepted", "failed"}

\* sendOperatorEvent: "Send an event to the admin/operator (typically for a runtime
\* problem)."  The master refuses each of them.
OperatorIsTold == \A e \in Own : relay[e].pc = "asking" ~> processed[e] > 0
=============================================================================
