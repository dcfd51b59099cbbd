------------------------ MODULE EventDeliveryProofs ------------------------
(***************************************************************************)
(* However often two clients retry, one inside the other: what the agent    *)
(* takes for delivered was processed, and each time an event is processed    *)
(* again there was a trouble more.                                          *)
(***************************************************************************)
EXTENDS EventDelivery, FiniteSetTheorems, TLAPS

USE EventDeliveryAssumption

AgentPC == {"new", "asking", "waiting", "accepted", "failed"}
RelayPC == {"off", "asking", "waiting", "hung", "over"}

Shape ==
  /\ agent \in [Events -> [pc: AgentPC, fails: 0..Retries]]
  /\ relay \in [All -> [pc: RelayPC, nth: Nat, fails: Nat, old: BOOLEAN]]
  /\ requests \in [All -> SUBSET (Nat \X Nat)]
  /\ processed \in [All -> Nat]
  /\ troubles \in 0..MaxTroubles

\* A handler of the relay for each try of the agent, a request for each of the
\* handler's, and no handler's count beyond its limit.
Counted(e) ==
  /\ relay[e].fails <= Limit(e)
  /\ e \in Own => relay[e].nth <= 1
  /\ e \in Events =>
       relay[e].nth = agent[e].fails + (IF agent[e].pc \in {"new", "waiting"} THEN 0 ELSE 1)
  /\ \A r \in requests[e] : r[1] <= relay[e].nth /\ r[2] <= Limit(e)
  /\ e \in Foreign => relay[e].pc \notin {"asking", "waiting"}
  /\ e \in Own /\ relay[e].pc = "off" => relay[e].nth = 0 /\ relay[e].fails = 0

\* The requests that may still be sent without another trouble.
AgentToSend(e) == IF e \in Events /\ agent[e].pc \in {"new", "waiting"} THEN 1 ELSE 0
RelayToSend(e) ==
  IF relay[e].pc = "waiting" \/ (e \in Own /\ relay[e].pc = "off") THEN 1 ELSE 0
\* Each time an event was or can yet be processed is paid for: the first one is
\* free, any other costs a trouble.
PaidFor(e) ==
  /\ IsFiniteSet(requests[e])
  /\ processed[e] + Cardinality(requests[e]) + AgentToSend(e) + RelayToSend(e) <= 1 + troubles
AcceptedIsDone(e) == e \in Events /\ agent[e].pc = "accepted" => processed[e] > 0

Good(e) == Counted(e) /\ PaidFor(e) /\ AcceptedIsDone(e)
DeliveryInv == Shape /\ \A e \in All : Good(e)

-----------------------------------------------------------------------------
(* What the pieces of an action do *)

\* One event is changed by most actions: it is enough to look at that one.
LEMMA OthersStayGood ==
  ASSUME DeliveryInv, Shape', troubles' >= troubles, NEW e \in All,
         \A x \in All \ {e} :
           /\ x \in Events => agent'[x] = agent[x]
           /\ relay'[x] = relay[x] /\ requests'[x] = requests[x]
           /\ processed'[x] = processed[x],
         Good(e)'
  PROVE  DeliveryInv'
<1>1. SUFFICES ASSUME NEW x \in All, x # e PROVE Good(x)'
  BY DEF DeliveryInv
<1>2. Good(x)
  BY DEF DeliveryInv
<1>3. Counted(x)'
  BY <1>1, <1>2 DEF Good, Counted, Limit
<1>4. PaidFor(x)'
  <2>1. Cardinality(requests[x]) \in Nat
    BY <1>2, FS_CardinalityType DEF Good, PaidFor
  <2>2. requests'[x] = requests[x] /\ AgentToSend(x)' = AgentToSend(x) /\ RelayToSend(x)' = RelayToSend(x)
    BY <1>1 DEF AgentToSend, RelayToSend
  <2>3. processed[x] \in Nat /\ AgentToSend(x) \in Nat /\ RelayToSend(x) \in Nat
        /\ troubles \in Nat /\ troubles' \in Nat
    BY DEF DeliveryInv, Shape, AgentToSend, RelayToSend
  <2>4. QED
    BY <1>1, <1>2, <2>1, <2>2, <2>3 DEF Good, PaidFor
<1>5. AcceptedIsDone(x)'
  BY <1>1, <1>2 DEF Good, AcceptedIsDone
<1>6. QED
  BY <1>3, <1>4, <1>5 DEF Good

\* What an answer makes of the agent: it is done, or one more failure and a try to come.
LEMMA AgentIsTold ==
  ASSUME DeliveryInv, NEW e \in All, NEW answer \in Answers, agent' = AgentTold(e, answer)
  PROVE  /\ agent' \in [Events -> [pc: AgentPC, fails: 0..Retries]]
         /\ \A x \in Events \ {e} : agent'[x] = agent[x]
         /\ e \in Events =>
              \/ agent'[e] = agent[e]
              \/ /\ agent[e].pc = "asking" /\ agent'[e].fails = agent[e].fails
                 /\ agent'[e].pc = "accepted" /\ answer = "202"
              \/ /\ agent[e].pc = "asking" /\ agent'[e].fails = agent[e].fails
                 /\ agent'[e].pc = "failed"
              \/ /\ agent[e].pc = "asking" /\ agent'[e].fails = agent[e].fails + 1
                 /\ agent'[e].pc = "waiting" /\ answer = "5xx"
<1>1. CASE e \notin Events \/ agent[e].pc # "asking"
  BY <1>1 DEF AgentTold, DeliveryInv, Shape
<1>2. CASE e \in Events /\ agent[e].pc = "asking"
  <2>1. agent[e] \in [pc: AgentPC, fails: 0..Retries]
    BY <1>2 DEF DeliveryInv, Shape
  <2>2. CASE answer = "202"
    <3> DEFINE w == [agent[e] EXCEPT !.pc = "accepted"]
    <3>1. w \in [pc: AgentPC, fails: 0..Retries] /\ w.pc = "accepted" /\ w.fails = agent[e].fails
      BY <2>1, <2>2 DEF AgentPC
    <3>2. agent' = [agent EXCEPT ![e] = w]
      BY <1>2, <2>2 DEF AgentTold
    <3> HIDE DEF w
    <3>3. QED
      BY <1>2, <2>2, <3>1, <3>2 DEF DeliveryInv, Shape
  <2>3. CASE answer = "5xx" /\ agent[e].fails < Retries
    <3> DEFINE w == [pc |-> "waiting", fails |-> agent[e].fails + 1]
    <3>1. agent[e].fails \in 0..Retries /\ agent[e].fails + 1 \in 0..Retries
      BY <2>1, <2>3
    <3>2. w \in [pc: AgentPC, fails: 0..Retries] /\ w.pc = "waiting" /\ w.fails = agent[e].fails + 1
      BY <3>1 DEF AgentPC
    <3>3. agent' = [agent EXCEPT ![e] = w]
      BY <1>2, <2>3 DEF AgentTold
    <3> HIDE DEF w
    <3>4. QED
      BY <1>2, <2>3, <3>2, <3>3 DEF DeliveryInv, Shape
  <2>4. CASE answer # "202" /\ ~(answer = "5xx" /\ agent[e].fails < Retries)
    <3> DEFINE w == [agent[e] EXCEPT !.pc = "failed"]
    <3>1. w \in [pc: AgentPC, fails: 0..Retries] /\ w.pc = "failed" /\ w.fails = agent[e].fails
      BY <2>1, <2>4 DEF AgentPC
    <3>2. agent' = [agent EXCEPT ![e] = w]
      BY <1>2, <2>4 DEF AgentTold
    <3> HIDE DEF w
    <3>3. QED
      BY <1>2, <2>4, <3>1, <3>2 DEF DeliveryInv, Shape
  <2>5. QED
    BY <2>2, <2>3, <2>4
<1>3. QED
  BY <1>1, <1>2

\* What an answer does to the two clients of e, which lets them send at most `cost`
\* requests more, and if `ok` may make the agent take e for delivered.
Told(e, cost, ok) ==
  /\ agent' \in [Events -> [pc: AgentPC, fails: 0..Retries]]
  /\ relay' \in [All -> [pc: RelayPC, nth: Nat, fails: Nat, old: BOOLEAN]]
  /\ \A x \in All \ {e} : relay'[x] = relay[x] /\ (x \in Events => agent'[x] = agent[x])
  /\ AgentToSend(e)' + RelayToSend(e)' <= AgentToSend(e) + RelayToSend(e) + cost
  /\ relay'[e].nth >= relay[e].nth /\ relay'[e].fails <= Limit(e)
  /\ e \in Own => relay'[e].nth <= 1
  /\ e \in Events =>
       relay'[e].nth = agent'[e].fails + (IF agent'[e].pc \in {"new", "waiting"} THEN 0 ELSE 1)
  /\ relay'[e].pc \in {"asking", "waiting"} => e \notin Foreign
  /\ e \in Own /\ relay'[e].pc = "off" => relay'[e].nth = 0 /\ relay'[e].fails = 0
  /\ e \in Events /\ agent'[e].pc = "accepted" => ok \/ agent[e].pc = "accepted"

Cost(answer) == IF answer \in {"5xx", "broken"} THEN 1 ELSE 0

LEMMA RelayType ==
  ASSUME DeliveryInv, NEW e \in All
  PROVE  /\ relay[e] \in [pc: RelayPC, nth: Nat, fails: Nat, old: BOOLEAN]
         /\ Limit(e) \in Nat
         /\ e \in Events => agent[e] \in [pc: AgentPC, fails: 0..Retries] /\ e \notin Own
  BY DEF DeliveryInv, Shape, Limit

LEMMA NobodyIsTold ==
  ASSUME DeliveryInv, NEW e \in All, NEW answer \in Answers, agent' = agent, relay' = relay
  PROVE  Told(e, Cost(answer), answer = "202")
<1>1. AgentToSend(e)' = AgentToSend(e) /\ RelayToSend(e)' = RelayToSend(e)
      /\ AgentToSend(e) \in Nat /\ RelayToSend(e) \in Nat
  BY DEF AgentToSend, RelayToSend
<1>2. Counted(e)
  BY DEF DeliveryInv, Good
<1>3. Cost(answer) \in 0..1
  BY DEF Cost
<1>4. QED
  BY <1>1, <1>2, <1>3 DEF Told, DeliveryInv, Shape, Counted

\* The relay's handler of e ends, or the agent hears of a broken connection.
LEMMA AgentHears ==
  ASSUME DeliveryInv, NEW e \in All, NEW answer \in Answers, NEW pc \in RelayPC,
         relay' = [relay EXCEPT ![e].pc = pc],
         agent' = AgentTold(e, answer),
         pc \in {"asking", "waiting"} => pc = relay[e].pc,
         pc = "off" => e \notin Own \/ relay[e].pc = "off"
  PROVE  Told(e, IF answer = "5xx" /\ ~(relay[e].pc = "waiting" /\ pc # "waiting") THEN 1 ELSE 0, answer = "202")
<1> DEFINE old == relay[e]
           new == [old EXCEPT !.pc = pc]
           cost == IF answer = "5xx" /\ ~(relay[e].pc = "waiting" /\ pc # "waiting") THEN 1 ELSE 0
<1>1. old \in [pc: RelayPC, nth: Nat, fails: Nat, old: BOOLEAN]
  BY RelayType
<1>2. relay' = [relay EXCEPT ![e] = new]
  OBVIOUS
<1>3. /\ new \in [pc: RelayPC, nth: Nat, fails: Nat, old: BOOLEAN]
      /\ new.pc = pc /\ new.nth = old.nth /\ new.fails = old.fails
  BY <1>1
<1>4. /\ relay' \in [All -> [pc: RelayPC, nth: Nat, fails: Nat, old: BOOLEAN]]
      /\ \A x \in All \ {e} : relay'[x] = relay[x]
      /\ relay'[e].pc = pc /\ relay'[e].nth = relay[e].nth /\ relay'[e].fails = relay[e].fails
  BY <1>2, <1>3 DEF DeliveryInv, Shape
<1>5. Counted(e)
  BY DEF DeliveryInv, Good
<1>6. /\ agent' \in [Events -> [pc: AgentPC, fails: 0..Retries]]
      /\ \A x \in Events \ {e} : agent'[x] = agent[x]
      /\ e \in Events =>
           \/ agent'[e] = agent[e]
           \/ /\ agent[e].pc = "asking" /\ agent'[e].fails = agent[e].fails
              /\ agent'[e].pc = "accepted" /\ answer = "202"
           \/ /\ agent[e].pc = "asking" /\ agent'[e].fails = agent[e].fails
              /\ agent'[e].pc = "failed"
           \/ /\ agent[e].pc = "asking" /\ agent'[e].fails = agent[e].fails + 1
              /\ agent'[e].pc = "waiting" /\ answer = "5xx"
  BY AgentIsTold
<1>7. e \in Events => agent[e].fails \in Nat
  BY RelayType
<1>8. AgentToSend(e)' + RelayToSend(e)' <= AgentToSend(e) + RelayToSend(e) + cost
  BY <1>4, <1>6 DEF AgentToSend, RelayToSend
<1>9. e \in Events =>
        relay'[e].nth = agent'[e].fails + (IF agent'[e].pc \in {"new", "waiting"} THEN 0 ELSE 1)
  BY <1>4, <1>5, <1>6, <1>7 DEF Counted
<1>10. QED
  BY <1>4, <1>5, <1>6, <1>8, <1>9 DEF Told, Counted

\* What RelayTold does to a handler that waits for an answer.
LEMMA RelayIsTold ==
  ASSUME DeliveryInv, NEW e \in All, NEW answer \in Answers, relay[e].pc = "asking",
         e \in Own => answer # "4xx", RelayTold(e, answer)
  PROVE  Told(e, Cost(answer), answer = "202")
<1>1. CASE Retried(e, answer) /\ relay[e].fails < Limit(e)
  <2> DEFINE old == relay[e]
             new == [old EXCEPT !.pc = "waiting", !.fails = relay[e].fails + 1]
  <2>1. /\ old \in [pc: RelayPC, nth: Nat, fails: Nat, old: BOOLEAN] /\ Limit(e) \in Nat
        /\ relay[e].fails + 1 \in Nat /\ relay[e].fails + 1 <= Limit(e)
    BY <1>1, RelayType
  <2>2. agent' = agent /\ relay' = [relay EXCEPT ![e] = new]
    BY <1>1 DEF RelayTold
  <2>3. /\ new \in [pc: RelayPC, nth: Nat, fails: Nat, old: BOOLEAN]
        /\ new.pc = "waiting" /\ new.nth = relay[e].nth /\ new.fails = relay[e].fails + 1
    BY <2>1 DEF RelayPC
  <2>4. /\ relay' \in [All -> [pc: RelayPC, nth: Nat, fails: Nat, old: BOOLEAN]]
        /\ \A x \in All \ {e} : relay'[x] = relay[x]
        /\ relay'[e].pc = "waiting" /\ relay'[e].nth = relay[e].nth
        /\ relay'[e].fails = relay[e].fails + 1
    BY <2>2, <2>3 DEF DeliveryInv, Shape
  <2>5. Counted(e)
    BY DEF DeliveryInv, Good
  <2>6. Cost(answer) = 1
    BY <1>1 DEF Cost, Retried, Answers
  <2>7. AgentToSend(e)' + RelayToSend(e)' <= AgentToSend(e) + RelayToSend(e) + Cost(answer)
    BY <2>2, <2>4, <2>6 DEF AgentToSend, RelayToSend
  <2>8. QED
    BY <2>1, <2>2, <2>4, <2>5, <2>7 DEF Told, Counted, DeliveryInv, Shape
<1>2. CASE ~(Retried(e, answer) /\ relay[e].fails < Limit(e))
  <2> DEFINE pc == IF e \in Own THEN "over" ELSE "off"
             heard == IF answer = "broken" THEN "5xx" ELSE answer
  <2>1. relay' = [relay EXCEPT ![e].pc = pc] /\ agent' = AgentTold(e, heard)
    BY <1>2 DEF RelayTold, Finish
  <2>2. pc \in RelayPC /\ heard \in Answers /\ (pc = "off" => e \notin Own)
        /\ pc \notin {"asking", "waiting"}
    BY DEF RelayPC, Answers
  <2>3. Cost(answer) = (IF heard = "5xx" THEN 1 ELSE 0) /\ (heard = "202" <=> answer = "202")
    BY DEF Cost, Answers
  <2> HIDE DEF pc, heard
  <2>4. Told(e, IF heard = "5xx" /\ ~(relay[e].pc = "waiting" /\ pc # "waiting") THEN 1 ELSE 0, heard = "202")
    BY <2>1, <2>2, AgentHears
  <2>5. QED
    BY <2>3, <2>4
<1>3. QED
  BY <1>1, <1>2

\* The sum that PaidFor bounds, when e is told something, `R` of its requests are left,
\* `done` of them was processed, and there were `trouble` troubles more.
LEMMA ToldIsGood ==
  ASSUME DeliveryInv, NEW e \in All, NEW cost \in Nat, NEW ok \in BOOLEAN,
         NEW R \in SUBSET requests[e], NEW done \in 0..1, NEW trouble \in 0..1,
         Told(e, cost, ok), requests' = [requests EXCEPT ![e] = R],
         processed' = [processed EXCEPT ![e] = @ + done],
         troubles' = troubles + trouble, troubles' <= MaxTroubles,
         done + cost + Cardinality(R) <= Cardinality(requests[e]) + trouble,
         ok => done = 1
  PROVE  DeliveryInv'
<1>1. Good(e) /\ IsFiniteSet(requests[e]) /\ Cardinality(requests[e]) \in Nat
  BY FS_CardinalityType DEF DeliveryInv, Good, PaidFor
<1>2. IsFiniteSet(R) /\ Cardinality(R) \in Nat
  BY <1>1, FS_Subset, FS_CardinalityType
<1>3. /\ requests' \in [All -> SUBSET (Nat \X Nat)] /\ requests'[e] = R
      /\ \A x \in All \ {e} : requests'[x] = requests[x]
  BY DEF DeliveryInv, Shape
<1>4. /\ processed' \in [All -> Nat] /\ processed'[e] = processed[e] + done
      /\ processed[e] \in Nat /\ \A x \in All \ {e} : processed'[x] = processed[x]
  BY DEF DeliveryInv, Shape
<1>5. troubles \in Nat /\ troubles' \in 0..MaxTroubles /\ troubles' >= troubles
  BY DEF DeliveryInv, Shape
<1>6. Shape'
  BY <1>3, <1>4, <1>5 DEF Shape, Told
<1>7. Counted(e)'
  <2>1. relay[e].nth \in Nat /\ relay'[e].nth \in Nat /\ relay'[e].nth >= relay[e].nth
    BY RelayType DEF Told
  <2>2. \A r \in R : r[1] \in Nat /\ r[1] <= relay[e].nth /\ r[2] <= Limit(e)
    BY <1>1 DEF DeliveryInv, Shape, Good, Counted
  <2>3. QED
    BY <1>1, <1>3, <2>1, <2>2 DEF Good, Counted, Told, Limit
<1>8. PaidFor(e)'
  <2>1. /\ AgentToSend(e) \in Nat /\ RelayToSend(e) \in Nat
        /\ AgentToSend(e)' \in Nat /\ RelayToSend(e)' \in Nat
    BY DEF AgentToSend, RelayToSend
  <2>2. processed[e] + Cardinality(requests[e]) + AgentToSend(e) + RelayToSend(e) <= 1 + troubles
    BY <1>1 DEF Good, PaidFor
  <2>3. AgentToSend(e)' + RelayToSend(e)' <= AgentToSend(e) + RelayToSend(e) + cost
    BY DEF Told
  <2>4. processed'[e] + Cardinality(requests'[e]) + AgentToSend(e)' + RelayToSend(e)' <= 1 + troubles'
    BY <1>1, <1>2, <1>3, <1>4, <1>5, <2>1, <2>2, <2>3
  <2>5. QED
    BY <1>2, <1>3, <2>4 DEF PaidFor
<1>9. AcceptedIsDone(e)'
  BY <1>1, <1>4 DEF Good, AcceptedIsDone, Told
<1>10. QED
  BY <1>3, <1>4, <1>5, <1>6, <1>7, <1>8, <1>9, OthersStayGood DEF Good, Told

\* The client of a request: the one that waits for its answer, or nobody any more.
LEMMA AnswerTells ==
  ASSUME DeliveryInv, NEW e \in All, NEW r \in requests[e], NEW answer \in Answers,
         e \in Own => answer # "4xx", Answer(e, r, answer)
  PROVE  /\ Told(e, Cost(answer), answer = "202")
         /\ requests' = [requests EXCEPT ![e] = requests[e] \ {r}]
         /\ Cardinality(requests[e] \ {r}) + 1 = Cardinality(requests[e])
<1>1. Told(e, Cost(answer), answer = "202")
  BY RelayIsTold, NobodyIsTold DEF Answer
<1>2. IsFiniteSet(requests[e]) /\ Cardinality(requests[e]) \in Nat
  BY FS_CardinalityType DEF DeliveryInv, Good, PaidFor
<1>3. Cardinality(requests[e] \ {r}) = Cardinality(requests[e]) - 1
  BY <1>2, FS_RemoveElement
<1>4. QED
  BY <1>1, <1>2, <1>3 DEF Answer

-----------------------------------------------------------------------------
(* The master *)

LEMMA TroubleCounts ==
  DeliveryInv /\ Trouble => troubles' = troubles + 1 /\ troubles' <= MaxTroubles
  BY DEF DeliveryInv, Shape, Trouble

LEMMA SameTroubles ==
  DeliveryInv /\ troubles' = troubles => troubles' = troubles + 0 /\ troubles' <= MaxTroubles
  BY DEF DeliveryInv, Shape

LEMMA SameProcessed ==
  ASSUME DeliveryInv, NEW e \in All, processed' = processed
  PROVE  processed' = [processed EXCEPT ![e] = @ + 0]
  BY DEF DeliveryInv, Shape

LEMMA ProcessKeeps ==
  ASSUME DeliveryInv, NEW e \in All, Process(e) PROVE DeliveryInv'
<1>1. PICK r \in requests[e] : /\ Answer(e, r, "202") /\ troubles' = troubles
                               /\ processed' = [processed EXCEPT ![e] = @ + 1]
  BY DEF Process
<1>2. "202" \in Answers /\ Cost("202") = 0
  BY DEF Answers, Cost
<1>3. /\ Told(e, Cost("202"), "202" = "202")
      /\ requests' = [requests EXCEPT ![e] = requests[e] \ {r}]
      /\ Cardinality(requests[e] \ {r}) + 1 = Cardinality(requests[e])
  BY <1>1, <1>2, AnswerTells
<1>4. Cardinality(requests[e] \ {r}) \in Nat /\ Cardinality(requests[e]) \in Nat
  BY FS_CardinalityType, FS_RemoveElement DEF DeliveryInv, Good, PaidFor
<1>5. Told(e, 0, TRUE)
  BY <1>2, <1>3
<1> DEFINE R == requests[e] \ {r}
<1>6. /\ R \in SUBSET requests[e] /\ requests' = [requests EXCEPT ![e] = R]
      /\ processed' = [processed EXCEPT ![e] = @ + 1]
      /\ troubles' = troubles + 0 /\ troubles' <= MaxTroubles
      /\ 1 + 0 + Cardinality(R) <= Cardinality(requests[e]) + 0
  BY <1>1, <1>3, <1>4, SameTroubles
<1>7. 0 \in Nat /\ TRUE \in BOOLEAN /\ 1 \in 0..1 /\ 0 \in 0..1 /\ (TRUE => 1 = 1)
  OBVIOUS
<1> HIDE DEF R
<1>8. QED
  BY <1>5, <1>6, <1>7, ToldIsGood

LEMMA DropKeeps ==
  ASSUME DeliveryInv, NEW e \in All, DropOldEvent(e) \/ RefuseEvent(e) PROVE DeliveryInv'
<1>1. PICK r \in requests[e] : /\ Answer(e, r, "4xx") /\ troubles' = troubles
                               /\ processed' = processed /\ e \in Events
  BY DEF DropOldEvent, RefuseEvent
<1>2. "4xx" \in Answers /\ Cost("4xx") = 0 /\ e \notin Own
  BY <1>1 DEF Answers, Cost
<1>3. /\ Told(e, Cost("4xx"), "4xx" = "202")
      /\ requests' = [requests EXCEPT ![e] = requests[e] \ {r}]
      /\ Cardinality(requests[e] \ {r}) + 1 = Cardinality(requests[e])
  BY <1>1, <1>2, AnswerTells
<1>4. Cardinality(requests[e] \ {r}) \in Nat /\ Cardinality(requests[e]) \in Nat
  BY FS_CardinalityType, FS_RemoveElement DEF DeliveryInv, Good, PaidFor
<1>5. Told(e, 0, FALSE)
  BY <1>2, <1>3
<1> DEFINE R == requests[e] \ {r}
<1>6. /\ R \in SUBSET requests[e] /\ requests' = [requests EXCEPT ![e] = R]
      /\ processed' = [processed EXCEPT ![e] = @ + 0]
      /\ troubles' = troubles + 0 /\ troubles' <= MaxTroubles
      /\ 0 + 0 + Cardinality(R) <= Cardinality(requests[e]) + 0
  BY <1>1, <1>3, <1>4, SameTroubles, SameProcessed
<1>7. 0 \in Nat /\ FALSE \in BOOLEAN /\ 0 \in 0..1 /\ 0 \in 0..1 /\ (FALSE => 0 = 1)
  OBVIOUS
<1> HIDE DEF R
<1>8. QED
  BY <1>5, <1>6, <1>7, ToldIsGood

LEMMA FailKeeps ==
  ASSUME DeliveryInv, NEW e \in All, ProcessFails(e) PROVE DeliveryInv'
<1>1. PICK r \in requests[e], done \in 0..1 :
        Answer(e, r, "5xx") /\ Trouble /\ processed' = [processed EXCEPT ![e] = @ + done]
  BY DEF ProcessFails
<1>2. "5xx" \in Answers /\ Cost("5xx") = 1
  BY DEF Answers, Cost
<1>3. /\ Told(e, Cost("5xx"), "5xx" = "202")
      /\ requests' = [requests EXCEPT ![e] = requests[e] \ {r}]
      /\ Cardinality(requests[e] \ {r}) + 1 = Cardinality(requests[e])
  BY <1>1, <1>2, AnswerTells
<1>4. Cardinality(requests[e] \ {r}) \in Nat /\ Cardinality(requests[e]) \in Nat
  BY FS_CardinalityType, FS_RemoveElement DEF DeliveryInv, Good, PaidFor
<1>5. Told(e, 1, FALSE)
  BY <1>2, <1>3
<1> DEFINE R == requests[e] \ {r}
<1>6. /\ R \in SUBSET requests[e] /\ requests' = [requests EXCEPT ![e] = R]
      /\ processed' = [processed EXCEPT ![e] = @ + done]
      /\ troubles' = troubles + 1 /\ troubles' <= MaxTroubles
      /\ done + 1 + Cardinality(R) <= Cardinality(requests[e]) + 1
  BY <1>1, <1>3, <1>4, TroubleCounts
<1>7. 1 \in Nat /\ FALSE \in BOOLEAN /\ done \in 0..1 /\ 1 \in 0..1 /\ (FALSE => done = 1)
  OBVIOUS
<1> HIDE DEF R
<1>8. QED
  BY <1>5, <1>6, <1>7, ToldIsGood

LEMMA RefuseKeeps ==
  ASSUME DeliveryInv, NEW e \in All, RefuseOperatorEvent(e) PROVE DeliveryInv'
<1>1. PICK r \in requests[e] : /\ Answer(e, r, "5xx") /\ troubles' = troubles
                               /\ processed' = processed
  BY DEF RefuseOperatorEvent
<1>2. "5xx" \in Answers /\ Cost("5xx") = 1
  BY DEF Answers, Cost
<1>3. /\ Told(e, Cost("5xx"), "5xx" = "202")
      /\ requests' = [requests EXCEPT ![e] = requests[e] \ {r}]
      /\ Cardinality(requests[e] \ {r}) + 1 = Cardinality(requests[e])
  BY <1>1, <1>2, AnswerTells
<1>4. Cardinality(requests[e] \ {r}) \in Nat /\ Cardinality(requests[e]) \in Nat
  BY FS_CardinalityType, FS_RemoveElement DEF DeliveryInv, Good, PaidFor
<1>5. Told(e, 1, FALSE)
  BY <1>2, <1>3
<1> DEFINE R == requests[e] \ {r}
<1>6. /\ R \in SUBSET requests[e] /\ requests' = [requests EXCEPT ![e] = R]
      /\ processed' = [processed EXCEPT ![e] = @ + 0]
      /\ troubles' = troubles + 0 /\ troubles' <= MaxTroubles
      /\ 0 + 1 + Cardinality(R) <= Cardinality(requests[e]) + 0
  BY <1>1, <1>3, <1>4, SameTroubles, SameProcessed
<1>7. 1 \in Nat /\ FALSE \in BOOLEAN /\ 0 \in 0..1 /\ 0 \in 0..1 /\ (FALSE => 0 = 1)
  OBVIOUS
<1> HIDE DEF R
<1>8. QED
  BY <1>5, <1>6, <1>7, ToldIsGood


-----------------------------------------------------------------------------
(* The agent and the relay *)

\* One of the requests to send was sent.
LEMMA SentIsGood ==
  ASSUME DeliveryInv, NEW e \in All, NEW r \in Nat \X Nat,
         agent' \in [Events -> [pc: AgentPC, fails: 0..Retries]],
         relay' \in [All -> [pc: RelayPC, nth: Nat, fails: Nat, old: BOOLEAN]],
         \A x \in All \ {e} : relay'[x] = relay[x] /\ (x \in Events => agent'[x] = agent[x]),
         requests' = [requests EXCEPT ![e] = @ \cup {r}],
         processed' = processed, troubles' = troubles,
         AgentToSend(e)' + RelayToSend(e)' + 1 <= AgentToSend(e) + RelayToSend(e),
         Counted(e)', e \in Events /\ agent'[e].pc = "accepted" => agent[e].pc = "accepted"
  PROVE  DeliveryInv'
<1>1. Good(e) /\ IsFiniteSet(requests[e]) /\ Cardinality(requests[e]) \in Nat
  BY FS_CardinalityType DEF DeliveryInv, Good, PaidFor
<1>2. /\ requests' \in [All -> SUBSET (Nat \X Nat)] /\ requests'[e] = requests[e] \cup {r}
      /\ \A x \in All \ {e} : requests'[x] = requests[x]
  BY DEF DeliveryInv, Shape
<1>3. Shape'
  BY <1>2 DEF DeliveryInv, Shape
<1>4. PaidFor(e)'
  <2>1. /\ IsFiniteSet(requests[e] \cup {r})
        /\ Cardinality(requests[e] \cup {r}) \in Nat
        /\ Cardinality(requests[e] \cup {r}) <= Cardinality(requests[e]) + 1
    <3>1. /\ IsFiniteSet(requests[e] \cup {r})
          /\ Cardinality(requests[e] \cup {r}) =
               IF r \in requests[e] THEN Cardinality(requests[e]) ELSE Cardinality(requests[e]) + 1
      BY <1>1, FS_AddElement
    <3>2. QED
      BY <1>1, <3>1
  <2>2. /\ AgentToSend(e) \in Nat /\ RelayToSend(e) \in Nat
        /\ AgentToSend(e)' \in Nat /\ RelayToSend(e)' \in Nat
        /\ processed[e] \in Nat /\ troubles \in Nat
    BY DEF AgentToSend, RelayToSend, DeliveryInv, Shape
  <2>3. processed[e] + Cardinality(requests[e]) + AgentToSend(e) + RelayToSend(e) <= 1 + troubles
    BY <1>1 DEF Good, PaidFor
  <2>4. processed'[e] + Cardinality(requests'[e]) + AgentToSend(e)' + RelayToSend(e)' <= 1 + troubles'
    BY <1>1, <1>2, <2>1, <2>2, <2>3
  <2>5. QED
    BY <1>2, <2>1, <2>4 DEF PaidFor
<1>5. AcceptedIsDone(e)'
  BY <1>1 DEF Good, AcceptedIsDone
<1>6. troubles' >= troubles
  BY DEF DeliveryInv, Shape
<1>7. QED
  BY <1>2, <1>3, <1>4, <1>5, <1>6, OthersStayGood DEF Good

LEMMA RequestKeeps ==
  ASSUME DeliveryInv, NEW e \in Events, NEW from \in {"new", "waiting"}, Request(e, from)
  PROVE  DeliveryInv'
<1> DEFINE nth == relay[e].nth + 1
           a == [agent[e] EXCEPT !.pc = "asking"]
           h(pc) == [Off EXCEPT !.pc = pc, !.nth = nth]
<1>1. /\ agent[e] \in [pc: AgentPC, fails: 0..Retries] /\ agent[e].fails \in Nat
      /\ e \notin Own /\ e \in All /\ relay[e].nth \in Nat /\ nth \in Nat
  BY RelayType DEF All
<1>2. Counted(e) /\ relay[e].nth = agent[e].fails
  BY <1>1 DEF Request, DeliveryInv, Good, Counted
<1>3. /\ agent' = [agent EXCEPT ![e] = a]
      /\ a \in [pc: AgentPC, fails: 0..Retries] /\ a.pc = "asking" /\ a.fails = agent[e].fails
  BY <1>1 DEF Request, AgentPC
<1>4. /\ agent' \in [Events -> [pc: AgentPC, fails: 0..Retries]]
      /\ \A x \in Events \ {e} : agent'[x] = agent[x]
      /\ agent'[e].pc = "asking" /\ agent'[e].fails = agent[e].fails
  BY <1>3 DEF DeliveryInv, Shape
<1>5. \A pc \in RelayPC :
        /\ h(pc) \in [pc: RelayPC, nth: Nat, fails: Nat, old: BOOLEAN]
        /\ h(pc).pc = pc /\ h(pc).nth = nth /\ h(pc).fails = 0
  BY <1>1 DEF Off, RelayPC
<1>6. AgentToSend(e) = 1 /\ AgentToSend(e)' = 0 /\ RelayToSend(e) \in Nat
  BY <1>4 DEF AgentToSend, RelayToSend, Request
<1>7. Limit(e) = Retries
  BY <1>1 DEF Limit
<1>8. CASE e \in Foreign
  <2>1. relay' = [relay EXCEPT ![e] = h("hung")] /\ requests' = requests
    BY <1>8 DEF Request
  <2> HIDE DEF h, nth
  <2>2. /\ relay' \in [All -> [pc: RelayPC, nth: Nat, fails: Nat, old: BOOLEAN]]
        /\ \A x \in All \ {e} : relay'[x] = relay[x]
        /\ relay'[e].pc = "hung" /\ relay'[e].nth = nth /\ relay'[e].fails = 0
    BY <1>1, <1>5, <2>1 DEF DeliveryInv, Shape, RelayPC
  <2>3. RelayToSend(e)' = 0
    BY <1>1, <2>2 DEF RelayToSend
  <2>4. Told(e, 0, FALSE)
    BY <1>1, <1>2, <1>4, <1>6, <1>7, <2>2, <2>3 DEF Told, nth, Counted
  <2> DEFINE R == requests[e]
  <2>5. /\ R \in SUBSET requests[e] /\ requests' = [requests EXCEPT ![e] = R]
        /\ processed' = [processed EXCEPT ![e] = @ + 0]
        /\ troubles' = troubles + 0 /\ troubles' <= MaxTroubles
        /\ 0 + 0 + Cardinality(R) <= Cardinality(requests[e]) + 0
    <3>1. Cardinality(requests[e]) \in Nat
      BY <1>1, FS_CardinalityType DEF DeliveryInv, Good, PaidFor
    <3>2. processed' = processed /\ troubles' = troubles
      BY DEF Request
    <3>3. QED
      BY <1>1, <2>1, <3>1, <3>2, SameTroubles, SameProcessed DEF DeliveryInv, Shape
  <2>6. 0 \in Nat /\ FALSE \in BOOLEAN /\ 0 \in 0..1 /\ (FALSE => 0 = 1)
    OBVIOUS
  <2> HIDE DEF R
  <2>7. QED
    BY <1>1, <2>4, <2>5, <2>6, ToldIsGood
<1>9. CASE e \notin Foreign
  <2> DEFINE r == <<nth, 0>>
  <2>1. /\ relay' = [relay EXCEPT ![e] = h("asking")]
        /\ requests' = [requests EXCEPT ![e] = @ \cup {r}]
        /\ processed' = processed /\ troubles' = troubles
    BY <1>9 DEF Request
  <2> HIDE DEF h, nth
  <2>2. /\ relay' \in [All -> [pc: RelayPC, nth: Nat, fails: Nat, old: BOOLEAN]]
        /\ \A x \in All \ {e} : relay'[x] = relay[x]
        /\ relay'[e].pc = "asking" /\ relay'[e].nth = nth /\ relay'[e].fails = 0
    BY <1>1, <1>5, <2>1 DEF DeliveryInv, Shape, RelayPC
  <2>3. RelayToSend(e)' = 0
    BY <1>1, <2>2 DEF RelayToSend
  <2>4. Counted(e)'
    <3>1. \A x \in requests'[e] : x[1] <= nth /\ x[2] <= Limit(e)
      <4>1. requests'[e] = requests[e] \cup {r} /\ requests[e] \subseteq Nat \X Nat
        BY <1>1, <2>1 DEF DeliveryInv, Shape
      <4>2. \A x \in requests[e] : x[1] <= relay[e].nth /\ x[2] <= Limit(e) /\ x[1] \in Nat
        BY <1>2, <4>1 DEF Counted
      <4>3. r[1] <= nth /\ r[2] <= Limit(e)
        BY <1>1, <1>7
      <4>4. QED
        BY <1>1, <4>1, <4>2, <4>3 DEF nth
    <3>2. Limit(e)' = Limit(e)
      BY DEF Limit
    <3>3. QED
      BY <1>1, <1>2, <1>4, <1>7, <1>9, <2>2, <3>1, <3>2 DEF Counted, nth
  <2>5. r \in Nat \X Nat
    BY <1>1
  <2> HIDE DEF r
  <2>6. AgentToSend(e)' + RelayToSend(e)' + 1 <= AgentToSend(e) + RelayToSend(e)
    BY <1>6, <2>3
  <2>7. QED
    BY <1>1, <1>4, <2>1, <2>2, <2>4, <2>5, <2>6, SentIsGood
<1>10. QED
  BY <1>8, <1>9

\* A request of the handler that is at its next try.
LEMMA TryKeeps ==
  ASSUME DeliveryInv, NEW e \in All, NEW n \in Nat, e \notin Foreign,
         RelayToSend(e) = 1, n = relay[e].nth \/ (e \in Own /\ n = 1),
         agent' = agent, processed' = processed, troubles' = troubles,
         relay' = [relay EXCEPT ![e].pc = "asking", ![e].nth = n],
         requests' = [requests EXCEPT ![e] = @ \cup {<<n, relay[e].fails>>}]
  PROVE  DeliveryInv'
<1> DEFINE new == [relay[e] EXCEPT !.pc = "asking", !.nth = n]
           r == <<n, relay[e].fails>>
<1>1. Counted(e) /\ relay[e] \in [pc: RelayPC, nth: Nat, fails: Nat, old: BOOLEAN]
      /\ Limit(e) \in Nat
  BY RelayType DEF DeliveryInv, Good
<1>2. /\ new \in [pc: RelayPC, nth: Nat, fails: Nat, old: BOOLEAN]
      /\ new.pc = "asking" /\ new.nth = n /\ new.fails = relay[e].fails
  BY <1>1 DEF RelayPC
<1>3. relay' = [relay EXCEPT ![e] = new]
  OBVIOUS
<1> HIDE DEF new
<1>4. /\ relay' \in [All -> [pc: RelayPC, nth: Nat, fails: Nat, old: BOOLEAN]]
      /\ \A x \in All \ {e} : relay'[x] = relay[x]
      /\ relay'[e].pc = "asking" /\ relay'[e].nth = n /\ relay'[e].fails = relay[e].fails
  BY <1>2, <1>3 DEF DeliveryInv, Shape
<1>5. n >= relay[e].nth /\ r \in Nat \X Nat
  BY <1>1 DEF Counted
<1>6. Counted(e)'
  <2>1. requests'[e] = requests[e] \cup {r} /\ requests[e] \subseteq Nat \X Nat
    BY DEF DeliveryInv, Shape
  <2>2. \A x \in requests'[e] : x[1] <= n /\ x[2] <= Limit(e)
    BY <1>1, <1>5, <2>1 DEF Counted
  <2>3. e \in Events => n = relay[e].nth
    BY DEF All
  <2>4. Limit(e)' = Limit(e)
    BY DEF Limit
  <2>5. QED
    BY <1>1, <1>4, <2>2, <2>3, <2>4 DEF Counted
<1>7. AgentToSend(e)' = AgentToSend(e) /\ AgentToSend(e) \in Nat /\ RelayToSend(e)' = 0
  BY <1>4 DEF AgentToSend, RelayToSend
<1>8. AgentToSend(e)' + RelayToSend(e)' + 1 <= AgentToSend(e) + RelayToSend(e)
  BY <1>7
<1>9. agent' \in [Events -> [pc: AgentPC, fails: 0..Retries]]
  BY DEF DeliveryInv, Shape
<1>10. requests' = [requests EXCEPT ![e] = @ \cup {r}]
  OBVIOUS
<1> HIDE DEF r
<1>11. QED
  BY <1>4, <1>5, <1>6, <1>8, <1>9, <1>10, SentIsGood

LEMMA SendOperatorEventKeeps ==
  ASSUME DeliveryInv, NEW e \in All, SendOperatorEvent(e) PROVE DeliveryInv'
<1>1. Counted(e) /\ relay[e] \in [pc: RelayPC, nth: Nat, fails: Nat, old: BOOLEAN]
  BY RelayType DEF DeliveryInv, Good
<1>2. /\ e \in Own /\ relay[e].pc = "off" /\ RelayToSend(e) = 1 /\ e \notin Foreign
      /\ agent' = agent /\ processed' = processed /\ troubles' = troubles
      /\ relay' = [relay EXCEPT ![e].pc = "asking", ![e].nth = 1]
  BY RelayType DEF SendOperatorEvent, RelayToSend
<1>3. relay[e].fails = 0
  BY <1>1, <1>2 DEF Counted
<1>4. requests' = [requests EXCEPT ![e] = @ \cup {<<1, relay[e].fails>>}]
  BY <1>3 DEF SendOperatorEvent
<1>5. 1 \in Nat
  OBVIOUS
<1>6. QED
  BY <1>2, <1>4, <1>5, TryKeeps

LEMMA RelayRetriesKeeps ==
  ASSUME DeliveryInv, NEW e \in All, RelayRetries(e) PROVE DeliveryInv'
<1>1. CASE relay[e].old /\ e \in Events
  <2>1. e \notin Own /\ relay[e].pc = "waiting" /\ "5xx" \in Answers /\ "off" \in RelayPC
    BY <1>1, RelayType DEF RelayRetries, Answers, RelayPC
  <2>2. relay' = [relay EXCEPT ![e].pc = "off"] /\ agent' = AgentTold(e, "5xx")
    BY <1>1, <2>1 DEF RelayRetries, Finish
  <2>3. Told(e, 0, FALSE)
    <3>1. Told(e, IF "5xx" = "5xx" /\ ~(relay[e].pc = "waiting" /\ "off" # "waiting") THEN 1 ELSE 0,
               "5xx" = "202")
      BY <2>1, <2>2, AgentHears
    <3>2. QED
      BY <2>1, <3>1
  <2> DEFINE R == requests[e]
  <2>4. /\ R \in SUBSET requests[e] /\ requests' = [requests EXCEPT ![e] = R]
        /\ processed' = [processed EXCEPT ![e] = @ + 0]
        /\ troubles' = troubles + 0 /\ troubles' <= MaxTroubles
        /\ 0 + 0 + Cardinality(R) <= Cardinality(requests[e]) + 0
    <3>1. Cardinality(requests[e]) \in Nat
      BY FS_CardinalityType DEF DeliveryInv, Good, PaidFor
    <3>2. processed' = processed /\ troubles' = troubles /\ requests' = requests
      BY <1>1 DEF RelayRetries
    <3>3. QED
      BY <3>1, <3>2, SameTroubles, SameProcessed DEF DeliveryInv, Shape
  <2>5. 0 \in Nat /\ FALSE \in BOOLEAN /\ 0 \in 0..1 /\ (FALSE => 0 = 1)
    OBVIOUS
  <2> HIDE DEF R
  <2>6. QED
    BY <2>3, <2>4, <2>5, ToldIsGood
<1>2. CASE ~(relay[e].old /\ e \in Events)
  <2> DEFINE n == relay[e].nth
  <2>1. /\ relay[e] \in [pc: RelayPC, nth: Nat, fails: Nat, old: BOOLEAN] /\ n \in Nat
        /\ relay[e].pc = "waiting" /\ e \notin Foreign /\ RelayToSend(e) = 1
    BY RelayType DEF RelayRetries, RelayToSend, DeliveryInv, Good, Counted
  <2>2. /\ agent' = agent /\ processed' = processed /\ troubles' = troubles
        /\ relay' = [relay EXCEPT ![e].pc = "asking"]
        /\ requests' = [requests EXCEPT ![e] = @ \cup {<<n, relay[e].fails>>}]
    BY <1>2 DEF RelayRetries
  <2>3. relay' = [relay EXCEPT ![e].pc = "asking", ![e].nth = n]
    BY <2>1, <2>2 DEF DeliveryInv, Shape
  <2> HIDE DEF n
  <2>4. n = relay[e].nth
    BY DEF n
  <2>5. QED
    BY <2>1, <2>2, <2>3, <2>4, TryKeeps
<1>3. QED
  BY <1>1, <1>2

LEMMA AgentLosesKeeps ==
  ASSUME DeliveryInv, NEW e \in Events, AgentLoses(e) PROVE DeliveryInv'
<1> DEFINE R == requests[e]
           pc == relay[e].pc
<1>1. /\ e \in All /\ "broken" \in Answers /\ pc \in RelayPC
      /\ agent' = AgentTold(e, "broken") /\ processed' = processed /\ requests' = requests
  BY RelayType DEF AgentLoses, Answers, All
<1>2. relay' = [relay EXCEPT ![e].pc = pc]
  BY <1>1 DEF AgentLoses, DeliveryInv, Shape
<1>3. Told(e, 0, FALSE)
  <2>1. Told(e, IF "broken" = "5xx" /\ ~(relay[e].pc = "waiting" /\ pc # "waiting") THEN 1 ELSE 0,
             "broken" = "202")
    BY <1>1, <1>2, AgentHears
  <2>2. QED
    BY <2>1
<1>4. /\ R \in SUBSET requests[e] /\ requests' = [requests EXCEPT ![e] = R]
      /\ processed' = [processed EXCEPT ![e] = @ + 0]
      /\ troubles' = troubles + 1 /\ troubles' <= MaxTroubles
      /\ 0 + 0 + Cardinality(R) <= Cardinality(requests[e]) + 1
  <2>1. Cardinality(requests[e]) \in Nat
    BY <1>1, FS_CardinalityType DEF DeliveryInv, Good, PaidFor
  <2>2. Trouble
    BY DEF AgentLoses
  <2>3. QED
    BY <1>1, <2>1, <2>2, TroubleCounts, SameProcessed DEF DeliveryInv, Shape
<1>5. 0 \in Nat /\ FALSE \in BOOLEAN /\ 0 \in 0..1 /\ 1 \in 0..1 /\ (FALSE => 0 = 1)
  OBVIOUS
<1> HIDE DEF R, pc
<1>6. QED
  BY <1>1, <1>3, <1>4, <1>5, ToldIsGood

LEMMA RelayLosesKeeps ==
  ASSUME DeliveryInv, NEW e \in All, RelayLoses(e) PROVE DeliveryInv'
<1>1. /\ relay[e].pc = "asking" /\ RelayTold(e, "broken") /\ "broken" \in Answers
      /\ Trouble /\ processed' = processed /\ Cost("broken") = 1
  BY DEF RelayLoses, Answers, Cost
<1>2. Told(e, 1, FALSE)
  <2>1. Told(e, Cost("broken"), "broken" = "202")
    BY <1>1, RelayIsTold
  <2>2. QED
    BY <1>1, <2>1
<1>3. PICK R \in SUBSET requests[e] : requests' = [requests EXCEPT ![e] = R]
  BY DEF RelayLoses, DeliveryInv, Shape
<1>4. /\ processed' = [processed EXCEPT ![e] = @ + 0]
      /\ troubles' = troubles + 1 /\ troubles' <= MaxTroubles
      /\ 0 + 1 + Cardinality(R) <= Cardinality(requests[e]) + 1
  <2>1. IsFiniteSet(requests[e]) /\ Cardinality(requests[e]) \in Nat
    BY FS_CardinalityType DEF DeliveryInv, Good, PaidFor
  <2>2. Cardinality(R) \in Nat /\ Cardinality(R) <= Cardinality(requests[e])
    BY <2>1, FS_Subset, FS_CardinalityType
  <2>3. QED
    BY <1>1, <2>1, <2>2, TroubleCounts, SameProcessed
<1>5. 1 \in Nat /\ FALSE \in BOOLEAN /\ 0 \in 0..1 /\ 1 \in 0..1 /\ (FALSE => 0 = 1)
  OBVIOUS
<1>6. QED
  BY <1>2, <1>3, <1>4, <1>5, ToldIsGood

LEMMA AgesKeeps ==
  ASSUME DeliveryInv, NEW e \in All, Ages(e) PROVE DeliveryInv'
<1>1. relay[e] \in [pc: RelayPC, nth: Nat, fails: Nat, old: BOOLEAN]
  BY RelayType
<1>2. /\ relay' \in [All -> [pc: RelayPC, nth: Nat, fails: Nat, old: BOOLEAN]]
      /\ \A x \in All : relay'[x].pc = relay[x].pc /\ relay'[x].nth = relay[x].nth
                        /\ relay'[x].fails = relay[x].fails
  BY <1>1 DEF Ages, DeliveryInv, Shape
<1>3. agent' = agent /\ requests' = requests /\ processed' = processed /\ troubles' = troubles
  BY DEF Ages
<1>4. \A x \in All : Good(x)'
  BY <1>2, <1>3 DEF DeliveryInv, Good, Counted, PaidFor, AcceptedIsDone, AgentToSend, RelayToSend, Limit
<1>5. QED
  BY <1>2, <1>3, <1>4 DEF DeliveryInv, Shape

LEMMA RelayExitsKeeps ==
  ASSUME DeliveryInv, RelayExits PROVE DeliveryInv'
<1> DEFINE pc(e) == IF e \in Own /\ relay[e].pc # "off" THEN "over" ELSE "off"
<1>1. requests' = requests /\ processed' = processed /\ troubles' = troubles + 1
      /\ troubles' \in 0..MaxTroubles /\ troubles \in Nat
  BY TroubleCounts DEF RelayExits, DeliveryInv, Shape
<1>2. relay' = [e \in All |-> [relay[e] EXCEPT !.pc = pc(e)]]
  BY DEF RelayExits
<1>3. /\ relay' \in [All -> [pc: RelayPC, nth: Nat, fails: Nat, old: BOOLEAN]]
      /\ \A e \in All : relay'[e].pc = pc(e) /\ relay'[e].nth = relay[e].nth
                        /\ relay'[e].fails = relay[e].fails
  BY <1>2 DEF DeliveryInv, Shape, RelayPC
<1>4. \A e \in Events :
        /\ agent'[e] \in [pc: AgentPC, fails: 0..Retries] /\ agent'[e].fails = agent[e].fails
        /\ agent'[e].pc = IF agent[e].pc = "asking" THEN "failed" ELSE agent[e].pc
  <2>1. SUFFICES ASSUME NEW e \in Events
                 PROVE /\ agent'[e] \in [pc: AgentPC, fails: 0..Retries]
                       /\ agent'[e].fails = agent[e].fails
                       /\ agent'[e].pc = IF agent[e].pc = "asking" THEN "failed" ELSE agent[e].pc
    OBVIOUS
  <2>2. agent[e] \in [pc: AgentPC, fails: 0..Retries] /\ agent'[e] = AgentTold(e, "broken")[e]
    BY DEF RelayExits, DeliveryInv, Shape
  <2>3. CASE agent[e].pc = "asking"
    <3>1. AgentTold(e, "broken") = [agent EXCEPT ![e] = [@ EXCEPT !.pc = "failed"]]
      BY <2>3 DEF AgentTold
    <3>2. agent'[e] = [agent[e] EXCEPT !.pc = "failed"]
      BY <2>2, <3>1 DEF DeliveryInv, Shape
    <3>3. QED
      BY <2>2, <2>3, <3>2 DEF AgentPC
  <2>4. CASE agent[e].pc # "asking"
    BY <2>2, <2>4 DEF AgentTold
  <2>5. QED
    BY <2>3, <2>4
<1>5. agent' \in [Events -> [pc: AgentPC, fails: 0..Retries]]
  BY <1>4 DEF RelayExits
<1>6. ASSUME NEW e \in All PROVE Good(e)'
  <2>1. Good(e)
    BY DEF DeliveryInv
  <2>2. Counted(e)'
    <3>1. relay'[e].pc \notin {"asking", "waiting"}
      BY <1>3
    <3>2. e \in Own /\ relay'[e].pc = "off" => relay[e].pc = "off"
      BY <1>3
    <3>3. QED
      BY <1>1, <1>3, <1>4, <2>1, <3>1, <3>2 DEF Good, Counted, Limit
  <2>3. AgentToSend(e)' <= AgentToSend(e) /\ RelayToSend(e)' <= RelayToSend(e)
        /\ AgentToSend(e)' \in Nat /\ RelayToSend(e)' \in Nat
        /\ AgentToSend(e) \in Nat /\ RelayToSend(e) \in Nat
    BY <1>3, <1>4 DEF AgentToSend, RelayToSend
  <2>4. PaidFor(e)'
    <3>1. Cardinality(requests[e]) \in Nat /\ processed[e] \in Nat
      BY <2>1, FS_CardinalityType DEF DeliveryInv, Shape, Good, PaidFor
    <3>2. QED
      BY <1>1, <2>1, <2>3, <3>1 DEF Good, PaidFor
  <2>5. AcceptedIsDone(e)'
    BY <1>1, <1>4, <2>1 DEF Good, AcceptedIsDone
  <2>6. QED
    BY <2>2, <2>4, <2>5 DEF Good
<1>7. QED
  BY <1>1, <1>3, <1>5, <1>6 DEF DeliveryInv, Shape

-----------------------------------------------------------------------------
(* The theorems *)

LEMMA DeliveryStarts == Init => DeliveryInv
<1>1. SUFFICES ASSUME Init PROVE DeliveryInv
  OBVIOUS
<1>2. Shape
  <2>1. [pc |-> "new", fails |-> 0] \in [pc: AgentPC, fails: 0..Retries]
    BY DEF AgentPC
  <2>2. Off \in [pc: RelayPC, nth: Nat, fails: Nat, old: BOOLEAN]
    BY DEF Off, RelayPC
  <2>3. {} \in SUBSET (Nat \X Nat) /\ 0 \in Nat /\ 0 \in 0..MaxTroubles
    OBVIOUS
  <2> HIDE DEF Off
  <2>4. QED
    BY <1>1, <2>1, <2>2, <2>3 DEF Init, Shape
<1>3. ASSUME NEW e \in All PROVE Good(e)
  <2>1. relay[e] = Off /\ requests[e] = {} /\ processed[e] = 0 /\ troubles = 0
        /\ (e \in Events => agent[e].pc = "new" /\ agent[e].fails = 0)
    BY <1>1 DEF Init, All
  <2>2. IsFiniteSet({}) /\ Cardinality({}) = 0
    BY FS_EmptySet
  <2>3. Counted(e)
    BY <2>1 DEF Counted, Limit, Off
  <2>4. PaidFor(e)
    <3>1. AgentToSend(e) + RelayToSend(e) <= 1
      BY <2>1 DEF AgentToSend, RelayToSend, Off
    <3>2. AgentToSend(e) \in Nat /\ RelayToSend(e) \in Nat
      BY DEF AgentToSend, RelayToSend
    <3>3. QED
      BY <2>1, <2>2, <3>1, <3>2 DEF PaidFor
  <2>5. QED
    BY <2>1, <2>3, <2>4 DEF Good, AcceptedIsDone
<1>4. QED
  BY <1>2, <1>3 DEF DeliveryInv

LEMMA DeliveryStep == DeliveryInv /\ [Next]_vars => DeliveryInv'
<1>1. SUFFICES ASSUME DeliveryInv, [Next]_vars PROVE DeliveryInv'
  OBVIOUS
<1>2. ASSUME NEW e \in Events, SendEvent(e) \/ AgentRetries(e) PROVE DeliveryInv'
  <2>1. PICK from \in {"new", "waiting"} : Request(e, from)
    BY <1>2 DEF SendEvent, AgentRetries
  <2>2. QED
    BY <1>1, <2>1, RequestKeeps
<1>3. ASSUME NEW e \in Events, AgentLoses(e) PROVE DeliveryInv'
  BY <1>1, <1>3, AgentLosesKeeps
<1>4. ASSUME NEW e \in All, SendOperatorEvent(e) \/ RelayRetries(e) \/ RelayLoses(e) \/ Ages(e)
      PROVE DeliveryInv'
  BY <1>1, <1>4, SendOperatorEventKeeps, RelayRetriesKeeps, RelayLosesKeeps, AgesKeeps
<1>5. ASSUME NEW e \in All, Master(e) PROVE DeliveryInv'
  BY <1>1, <1>5, ProcessKeeps, DropKeeps, FailKeeps, RefuseKeeps DEF Master
<1>6. CASE RelayExits
  BY <1>1, <1>6, RelayExitsKeeps
<1>7. CASE UNCHANGED vars
  BY <1>1, <1>7 DEF vars, DeliveryInv, Shape, Good, Counted, PaidFor, AcceptedIsDone,
     AgentToSend, RelayToSend, Limit
<1>8. QED
  BY <1>1, <1>2, <1>3, <1>4, <1>5, <1>6, <1>7 DEF Next

\* However many times two clients retry, one inside the other, and whatever breaks:
\* what the agent takes for delivered was processed, and an event is processed again
\* only after a broken connection, an error or an exit.
THEOREM DeliveredOnce == Spec => []DeliveredOnceOrTrouble
<1>1. DeliveryInv => DeliveredOnceOrTrouble
  <2>1. SUFFICES ASSUME DeliveryInv PROVE DeliveredOnceOrTrouble
    OBVIOUS
  <2>2. ASSUME NEW e \in All PROVE processed[e] <= 1 + troubles
    <3>1. Good(e) /\ processed[e] \in Nat /\ troubles \in Nat
      BY <2>1 DEF DeliveryInv, Shape
    <3>2. Cardinality(requests[e]) \in Nat
      BY <3>1, FS_CardinalityType DEF Good, PaidFor
    <3>3. AgentToSend(e) \in Nat /\ RelayToSend(e) \in Nat
      BY DEF AgentToSend, RelayToSend
    <3>4. QED
      BY <3>1, <3>2, <3>3 DEF Good, PaidFor
  <2>3. \A e \in Events : agent[e].pc = "accepted" => processed[e] > 0
    BY <2>1 DEF DeliveryInv, Good, AcceptedIsDone, All
  <2>4. QED
    BY <2>2, <2>3 DEF DeliveredOnceOrTrouble
<1>2. QED
  BY <1>1, DeliveryStarts, DeliveryStep, PTL DEF Spec

\* Type correctness of EventDelivery; in particular, neither client tries more often
\* than it may, and the relay never waits for an answer to an event of another user.
THEOREM TypeCorrect == Spec => []TypeOK
<1>1. DeliveryInv => TypeOK
  <2>1. SUFFICES ASSUME DeliveryInv PROVE TypeOK
    OBVIOUS
  <2>2. ASSUME NEW e \in All
        PROVE  /\ relay[e] \in [pc: RelayPC, nth: 0..(Retries + 1), fails: 0..Limit(e), old: BOOLEAN]
               /\ \A r \in requests[e] : r[1] <= relay[e].nth /\ r[2] \in 0..Limit(e)
               /\ relay[e].pc \in {"asking", "waiting"} => e \notin Foreign
    <3>1. Counted(e) /\ relay[e] \in [pc: RelayPC, nth: Nat, fails: Nat, old: BOOLEAN]
          /\ requests[e] \subseteq Nat \X Nat /\ Limit(e) \in Nat
      BY <2>1, RelayType DEF DeliveryInv, Shape, Good
    <3>2. relay[e].nth <= Retries + 1
      <4>1. e \in Events => agent[e].fails \in 0..Retries
        BY <2>1 DEF DeliveryInv, Shape
      <4>2. QED
        BY <3>1, <4>1 DEF Counted, All
    <3>3. QED
      BY <3>1, <3>2 DEF Counted
  <2>3. QED
    BY <2>1, <2>2 DEF TypeOK, DeliveryInv, Shape, AgentPC, RelayPC
<1>2. QED
  BY <1>1, DeliveryStarts, DeliveryStep, PTL DEF Spec
============================================================================
