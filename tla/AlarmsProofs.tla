---------------------------- MODULE AlarmsProofs ----------------------------
(* Theorems about Alarms and their proofs, for every value of its constants. *)
EXTENDS Alarms, WellFoundedInduction, TLAPS

-----------------------------------------------------------------------------
(* Type correctness *)

\* The pieces every action is made of preserve the types of what they change.
LEMMA ReplyType ==
  ASSUME TypeOK, NEW e \in Events, NEW a \in Answer, Reply(e, a)
  PROVE  /\ pc' \in [Events -> EventPC]
         /\ work' \in [Events -> Work]
<1> DEFINE w == [work[e] EXCEPT !.answer = a]
<1>1. w \in Work
  BY DEF TypeOK, Work
<1>2. work' = [work EXCEPT ![e] = w]
  BY DEF Reply
<1> HIDE DEF w
<1>3. QED
  BY <1>1, <1>2 DEF Reply, Goto, TypeOK, EventPC

LEMMA GotoType ==
  ASSUME TypeOK, NEW e \in Events, NEW l \in EventPC, Goto(e, l)
  PROVE  pc' \in [Events -> EventPC]
  BY DEF TypeOK, Goto

LEMMA FailsType == TypeOK /\ Fails => errors' \in 0..MaxErrors
  BY AlarmsAssumption DEF TypeOK, Fails

LEMMA NoHashType == NoHash \in AlarmHash
<1>1. NoTime \in Time
  BY AlarmsAssumption DEF Time, NoTime
<1>2. QED
  BY <1>1 DEF NoHash, AlarmHash

LEMMA PartialType == [NoHash EXCEPT !.state = "partial"] \in AlarmHash
<1>1. \A h \in AlarmHash : [h EXCEPT !.state = "partial"] \in AlarmHash
  BY DEF AlarmHash
<1>2. QED
  BY <1>1, NoHashType

LEMMA SetFieldType ==
  ASSUME TypeOK, NEW id \in AlarmId, NEW h \in AlarmHash
  PROVE  SetField(id, h) \in [AlarmId -> AlarmHash]
  BY PartialType DEF TypeOK, SetField

LEMMA AssociationType ==
  ASSUME NEW p \in Probes PROVE Association(p) \in Associations
  BY DEF Associations

\* Only a handler that knows its probe and drew an id stores an alarm.
LEMMA StoreAlarmType ==
  ASSUME TypeOK, NEW e \in Events, work[e].alarm \in AlarmId,
         work[e].probe \in Probes, StoreAlarm(e)
  PROVE  /\ index' \in SUBSET AlarmId
         /\ store' \in [AlarmId -> AlarmHash]
<1>1. [NoHash EXCEPT !.state = "whole", !.assoc = Association(work[e].probe)]
        \in AlarmHash
  BY NoHashType, AssociationType DEF AlarmHash
<1>2. QED
  BY <1>1 DEF StoreAlarm, TypeOK

LEMMA InitType == Init => TypeOK
<1>1. NoWork \in Work
  BY AlarmsAssumption DEF NoWork, Work, Time, NoTime, NoAlarm, Answer
<1>2. QED
  BY <1>1, NoHashType, AlarmsAssumption
  DEF Init, TypeOK, LocalsSet, TargetSet, Request, EventPC, NoAlarm, Holding

\* The arrival of events.
LEMMA ArrivalWork ==
  ASSUME TypeOK, NEW p \in Probes, NEW c \in BOOLEAN, NEW t \in 1..now
  PROVE  /\ Arrival(p, c, t) \in Work
         /\ Arrival(p, c, t).probe = p /\ Arrival(p, c, t).time = t
         /\ Arrival(p, c, t).time # NoTime
         /\ Arrival(p, c, t).alarm = NoAlarm
         /\ Arrival(p, c, t).earlier = {d \in Events : pc[d] = "done"}
         /\ ~Arrival(p, c, t).notified /\ ~Arrival(p, c, t).emptied
         /\ ~Arrival(p, c, t).changed
         /\ Arrival(p, c, t).listed = {}
         /\ Arrival(p, c, t).answer # "notFound"
<1>1. t \in Time /\ t # NoTime
  BY AlarmsAssumption DEF TypeOK, Time, NoTime
<1>2. NoWork \in Work
  BY AlarmsAssumption DEF NoWork, Work, Time, NoTime, NoAlarm, Answer
<1>3. QED
  BY <1>1, <1>2 DEF Arrival, Work, Answer, NoWork

LEMMA ArrivalType ==
  ASSUME TypeOK, NEW e \in Events, Receive(e)
  PROVE  TypeOK'
<1>1. PICK p \in Probes, c \in BOOLEAN, t \in 1..now :
        /\ work' = [work EXCEPT ![e] = Arrival(p, c, t)]
        /\ Goto(e, IF now - t > DropSkew THEN "done" ELSE "lookup")
  BY DEF Receive
<1>2. Arrival(p, c, t) \in Work /\ Arrival(p, c, t).probe = p
  BY ArrivalWork
<1>3. work' \in [Events -> Work] /\ pc' \in [Events -> EventPC]
  BY <1>1, <1>2 DEF TypeOK, Goto, EventPC
<1>4. /\ work'[e].probe \in Probes /\ pc'[e] \notin Holding
      /\ \A d \in Events \ {e} : work'[d] = work[d] /\ pc'[d] = pc[d]
  BY <1>1, <1>2 DEF TypeOK, Goto, Holding
<1>5. QED
  BY <1>3, <1>4 DEF Receive, TypeOK, redisVars, LocalsSet, TargetSet

\* What the handler of an event starts with.
LEMMA ReceiveLocals ==
  ASSUME TypeOK, NEW e \in Events, Receive(e)
  PROVE  /\ \A d \in Events \ {e} : pc'[d] = pc[d] /\ work'[d] = work[d]
         /\ pc[e] = "idle" /\ pc'[e] \in {"lookup", "done"}
         /\ work'[e].time # NoTime /\ work'[e].alarm = NoAlarm
         /\ work'[e].earlier = {d \in Events : pc[d] = "done"}
         /\ ~work'[e].notified /\ ~work'[e].emptied /\ ~work'[e].changed
         /\ work'[e].listed = {} /\ work'[e].answer # "notFound"
         /\ UNCHANGED <<redisVars, req, errors>>
<1>1. PICK p \in Probes, c \in BOOLEAN, t \in 1..now :
        /\ work' = [work EXCEPT ![e] = Arrival(p, c, t)]
        /\ Goto(e, IF now - t > DropSkew THEN "done" ELSE "lookup")
  BY DEF Receive
<1>2. work'[e] = Arrival(p, c, t)
  BY <1>1 DEF TypeOK
<1>3. QED
  BY <1>1, <1>2, ArrivalWork DEF Receive, Goto, TypeOK

\* What a handler's own step has to show about its locals.
LEMMA LocalsType ==
  ASSUME TypeOK, NEW e \in Events, pc[e] # "idle",
         pc' \in [Events -> EventPC], work' \in [Events -> Work],
         work'[e].probe = work[e].probe,
         pc'[e] \in Holding => work'[e].alarm \in AlarmId,
         \A d \in Events \ {e} : work'[d] = work[d] /\ pc'[d] = pc[d]
  PROVE  LocalsSet'
  BY DEF TypeOK, LocalsSet

\* The steps of a handler until it has chosen its alarm.
LEMMA ChooseType ==
  ASSUME TypeOK, NEW e \in Events,
         \/ Lookup(e) \/ ListAlarms(e) \/ GetAlarmsNotFound(e) \/ GetAlarmsRelated(e)
         \/ GetAlarmsUnrelated(e) \/ IncrId(e) \/ SaveAlarm(e)
  PROVE  TypeOK'
<1> USE DEF Goto, Reply
<1> DEFINE Others == \A d \in Events \ {e} : work'[d] = work[d] /\ pc'[d] = pc[d]
           Locals == /\ work'[e].probe = work[e].probe
                     /\ pc'[e] \in Holding => work'[e].alarm \in AlarmId
<1>1. CASE Lookup(e)
  <2>1. errors' \in 0..MaxErrors
    BY <1>1, FailsType DEF Lookup, TypeOK
  <2>2. work' \in [Events -> Work] /\ pc' \in [Events -> EventPC]
    BY <1>1 DEF Lookup, TypeOK, Work, EventPC
  <2>3. Others /\ Locals /\ pc[e] # "idle"
    BY <1>1 DEF Lookup, TypeOK, Work, Holding
  <2>4. QED
    BY <1>1, <2>1, <2>2, <2>3, LocalsType DEF Lookup, TypeOK, redisVars, TargetSet
<1>2. CASE ListAlarms(e)
  <2>1. work' \in [Events -> Work] /\ pc' \in [Events -> EventPC]
    BY <1>2 DEF ListAlarms, TypeOK, Work, EventPC
  <2>2. Others /\ Locals /\ pc[e] # "idle"
    BY <1>2 DEF ListAlarms, TypeOK, Work, Holding
  <2>3. QED
    BY <1>2, <2>1, <2>2, LocalsType DEF ListAlarms, TypeOK, redisVars, TargetSet
<1>3. CASE GetAlarmsNotFound(e)
  <2>1. work' \in [Events -> Work] /\ pc' \in [Events -> EventPC]
    BY <1>3, ReplyType DEF GetAlarmsNotFound, Answer
  <2>2. Others /\ Locals /\ pc[e] # "idle"
    BY <1>3 DEF GetAlarmsNotFound, TypeOK, Work, Holding
  <2>3. QED
    BY <1>3, <2>1, <2>2, LocalsType DEF GetAlarmsNotFound, TypeOK, redisVars, TargetSet
<1>4. CASE GetAlarmsRelated(e)
  <2>1. PICK a \in Related(e) :
          work' = [work EXCEPT ![e] = [@ EXCEPT !.alarm = a,
                                                !.muted = store[a].suppressed]]
    BY <1>4 DEF GetAlarmsRelated
  <2>2. a \in AlarmId /\ store[a].suppressed \in BOOLEAN
    BY DEF Related, MostRecent, Candidates, TypeOK, Work, AlarmHash
  <2> DEFINE w == [work[e] EXCEPT !.alarm = a, !.muted = store[a].suppressed]
  <2>3. w \in Work /\ w.alarm = a /\ w.probe = work[e].probe
    <3>1. \A v \in Work : LET u == [v EXCEPT !.alarm = a, !.muted = store[a].suppressed]
                         IN  u \in Work /\ u.alarm = a /\ u.probe = v.probe
      BY <2>2 DEF Work
    <3>2. QED
      BY <3>1 DEF TypeOK
  <2> HIDE DEF w
  <2>4. work' = [work EXCEPT ![e] = w]
    BY <2>1 DEF w
  <2>5. work' \in [Events -> Work] /\ pc' \in [Events -> EventPC]
    BY <1>4, <2>3, <2>4 DEF GetAlarmsRelated, TypeOK, EventPC
  <2>6. Others /\ Locals /\ pc[e] # "idle"
    BY <1>4, <2>2, <2>3, <2>4 DEF GetAlarmsRelated, TypeOK
  <2>7. QED
    BY <1>4, <2>5, <2>6, LocalsType DEF GetAlarmsRelated, TypeOK, redisVars, TargetSet
<1>5. CASE GetAlarmsUnrelated(e)
  <2>1. work' \in [Events -> Work] /\ pc' \in [Events -> EventPC]
    <3>1. CASE work[e].clear
      BY <1>5, <3>1, ReplyType DEF GetAlarmsUnrelated, Answer
    <3>2. CASE ~work[e].clear
      BY <1>5, <3>2 DEF GetAlarmsUnrelated, TypeOK, EventPC
    <3>3. QED
      BY <3>1, <3>2
  <2>2. Others /\ Locals /\ pc[e] # "idle"
    BY <1>5 DEF GetAlarmsUnrelated, TypeOK, Work, Holding
  <2>3. QED
    BY <1>5, <2>1, <2>2, LocalsType DEF GetAlarmsUnrelated, TypeOK, redisVars, TargetSet
<1>6. CASE IncrId(e)
  <2>1. counter + 1 \in AlarmId /\ counter' \in 0..MaxAlarms
    BY <1>6, AlarmsAssumption DEF IncrId, NextId, TypeOK, AlarmId
  <2> DEFINE w == [work[e] EXCEPT !.alarm = counter + 1]
  <2>a. w \in Work
    BY <2>1 DEF TypeOK, Work
  <2>b. work' = [work EXCEPT ![e] = w]
    BY <1>6 DEF IncrId, NextId
  <2> HIDE DEF w
  <2>2. work' \in [Events -> Work] /\ pc' \in [Events -> EventPC]
    BY <1>6, <2>a, <2>b DEF IncrId, TypeOK, EventPC
  <2>3. Others /\ Locals /\ pc[e] # "idle"
    BY <1>6, <2>1 DEF IncrId, NextId, TypeOK, Work
  <2>4. QED
    BY <1>6, <2>1, <2>2, <2>3, LocalsType DEF IncrId, TypeOK, TargetSet
<1>7. CASE SaveAlarm(e)
  <2>1. index' \in SUBSET AlarmId /\ store' \in [AlarmId -> AlarmHash]
    BY <1>7, StoreAlarmType DEF SaveAlarm, TypeOK, LocalsSet, Holding
  <2>2. pc' \in [Events -> EventPC]
    BY <1>7, GotoType DEF SaveAlarm, EventPC
  <2>3. Others /\ Locals /\ pc[e] # "idle"
    BY <1>7 DEF SaveAlarm, TypeOK, LocalsSet, Holding
  <2>4. QED
    BY <1>7, <2>1, <2>2, <2>3, LocalsType DEF SaveAlarm, TypeOK, TargetSet
<1>8. QED
  BY <1>1, <1>2, <1>3, <1>4, <1>5, <1>6, <1>7

\* What a handler writes to its alarm.
LEMMA ApplyEventType ==
  ASSUME TypeOK, NEW e \in Events, pc[e] \in Holding, ApplyEvent(e)
  PROVE  /\ store' \in [AlarmId -> AlarmHash]
         /\ faults' \in [AlarmId -> SUBSET Probes]
         /\ maintFaults' \in [AlarmId -> SUBSET Probes]
<1>1. work[e].alarm \in AlarmId /\ work[e].time \in Time /\ work[e].probe \in Probes
  BY DEF TypeOK, LocalsSet, Holding, Work
<1>2. [store[work[e].alarm] EXCEPT !.timeLastEvent = work[e].time] \in AlarmHash
  BY <1>1 DEF TypeOK, AlarmHash
<1>3. store' \in [AlarmId -> AlarmHash]
  BY <1>1, <1>2, SetFieldType DEF ApplyEvent
<1>4. faults' \in [AlarmId -> SUBSET Probes]
  BY <1>1 DEF ApplyEvent, FaultsAfter, TypeOK
<1>5. maintFaults' \in [AlarmId -> SUBSET Probes]
  BY <1>1 DEF ApplyEvent, MaintFaultsAfter, TypeOK
<1>6. QED
  BY <1>3, <1>4, <1>5

LEMMA CloseAlarmType ==
  ASSUME TypeOK, NEW e \in Events, pc[e] \in Holding, CloseAlarm(e)
  PROVE  store' \in [AlarmId -> AlarmHash]
<1>1. /\ work[e].alarm \in AlarmId
      /\ [store[work[e].alarm] EXCEPT !.closed = TRUE] \in AlarmHash
  <2>1. work[e].alarm \in AlarmId
    BY DEF TypeOK, LocalsSet
  <2>2. store[work[e].alarm] \in AlarmHash
    BY <2>1 DEF TypeOK
  <2>3. QED
    BY <2>1, <2>2 DEF AlarmHash
<1>2. QED
  BY <1>1, SetFieldType DEF CloseAlarm

LEMMA AnnounceType ==
  ASSUME TypeOK, NEW e \in Events, NEW a \in Answer, Announce(e, a)
  PROVE  /\ pc' \in [Events -> EventPC] /\ pc'[e] = "done"
         /\ work' \in [Events -> Work] /\ work'[e].probe = work[e].probe
         /\ \A d \in Events \ {e} : work'[d] = work[d] /\ pc'[d] = pc[d]
<1> DEFINE w == [work[e] EXCEPT !.notified = work[e].changed /\ ~work[e].muted,
                                !.answer = a]
<1>1. w \in Work /\ w.probe = work[e].probe
  BY DEF TypeOK, Work
<1> HIDE DEF w
<1>2. work' = [work EXCEPT ![e] = w]
  BY DEF w, Announce
<1>3. QED
  BY <1>1, <1>2 DEF Announce, Goto, TypeOK, EventPC

\* The steps of a handler that has its alarm.
LEMMA HandleType ==
  ASSUME TypeOK, NEW e \in Events, CheckMaint(e) \/ Update(e) \/ Settle(e)
  PROVE  TypeOK'
<1> DEFINE Others == \A d \in Events \ {e} : work'[d] = work[d] /\ pc'[d] = pc[d]
           Locals == /\ work'[e].probe = work[e].probe
                     /\ pc'[e] \in Holding => work'[e].alarm \in AlarmId
<1>1. CASE CheckMaint(e)
  <2>1. PICK m \in BOOLEAN : work' = [work EXCEPT ![e].maint = m]
    BY <1>1, AlarmsAssumption DEF CheckMaint
  <2> DEFINE w == [work[e] EXCEPT !.maint = m]
  <2>2. w \in Work /\ w.probe = work[e].probe /\ w.alarm = work[e].alarm
    BY DEF TypeOK, Work
  <2>3. work' = [work EXCEPT ![e] = w]
    BY <2>1 DEF w
  <2> HIDE DEF w
  <2>4. work' \in [Events -> Work] /\ pc' \in [Events -> EventPC]
    BY <1>1, <2>2, <2>3 DEF CheckMaint, TypeOK, EventPC, Goto
  <2>5. Others /\ Locals /\ pc[e] # "idle"
    BY <1>1, <2>2, <2>3 DEF CheckMaint, TypeOK, LocalsSet, Goto, Holding
  <2>6. QED
    BY <1>1, <2>4, <2>5, LocalsType DEF CheckMaint, TypeOK, redisVars, TargetSet
<1>2. CASE Update(e)
  <2>1. pc[e] \in Holding /\ pc[e] # "idle" /\ ApplyEvent(e)
    BY <1>2 DEF Update, Holding
  <2> DEFINE w == [work[e] EXCEPT
                     !.changed = (faults'[work[e].alarm] # faults[work[e].alarm]),
                     !.emptied = Emptied(e)]
  <2>2. /\ w \in Work
        /\ w.probe = work[e].probe /\ w.alarm = work[e].alarm
    <3>1. \A v \in Work, x, y \in BOOLEAN :
            LET u == [v EXCEPT !.changed = x, !.emptied = y]
            IN  u \in Work /\ u.probe = v.probe /\ u.alarm = v.alarm
      BY DEF Work
    <3>2. /\ (faults'[work[e].alarm] # faults[work[e].alarm]) \in BOOLEAN
          /\ Emptied(e) \in BOOLEAN /\ work[e] \in Work
      BY DEF Emptied, TypeOK
    <3>3. QED
      BY <3>1, <3>2
  <2>3. work' = [work EXCEPT ![e] = w]
    BY <1>2 DEF Update
  <2> HIDE DEF w
  <2>4. work' \in [Events -> Work] /\ pc' \in [Events -> EventPC]
    BY <1>2, <2>2, <2>3 DEF Update, TypeOK, EventPC, Goto
  <2>5. Others /\ Locals
    BY <1>2, <2>1, <2>2, <2>3 DEF Update, TypeOK, LocalsSet, Goto
  <2>6. QED
    BY <1>2, <2>1, <2>4, <2>5, ApplyEventType, LocalsType DEF Update, TypeOK, TargetSet
<1>3. CASE Settle(e)
  <2>1. pc[e] \in Holding /\ pc[e] # "idle" /\ Announce(e, "ok") /\ "ok" \in Answer
    BY <1>3 DEF Settle, Holding, Answer
  <2>2. store' \in [AlarmId -> AlarmHash]
    BY <1>3, <2>1, CloseAlarmType DEF Settle, TypeOK
  <2>3. QED
    BY <1>3, <2>1, <2>2, AnnounceType, LocalsType DEF Settle, TypeOK, TargetSet, Holding
<1>4. QED
  BY <1>1, <1>2, <1>3

\* The failures of a handler.
LEMMA FailureType ==
  ASSUME TypeOK, NEW e \in Events, HandlerFails(e)
  PROVE  TypeOK'
<1>1. errors' \in 0..MaxErrors
  BY FailsType DEF HandlerFails, CommandFails, IncrReplyLost, SaveReplyLost,
                   UpdateFails, CloseFails
<1>2. "error" \in Answer /\ "done" \notin Holding /\ \A l \in Holding : l # "idle"
  BY DEF Answer, Holding
<1> DEFINE HandlersOK ==
             /\ pc' \in [Events -> EventPC]
             /\ work' \in [Events -> Work]
             /\ LocalsSet'
<1>3. ASSUME Reply(e, "error"), pc[e] # "idle" PROVE HandlersOK
  <2>1. pc' \in [Events -> EventPC] /\ work' \in [Events -> Work]
    BY <1>2, <1>3, ReplyType
  <2>2. /\ pc'[e] = "done" /\ work'[e].probe = work[e].probe
        /\ \A d \in Events \ {e} : work'[d] = work[d] /\ pc'[d] = pc[d]
    BY <1>3 DEF Reply, Goto, TypeOK, Work
  <2>3. QED
    BY <1>2, <1>3, <2>1, <2>2, LocalsType
<1>4. CASE CommandFails(e)
  <2>1. HandlersOK
    <3>1. Reply(e, "error") /\ pc[e] # "idle"
      BY <1>4 DEF CommandFails
    <3>2. QED
      BY <1>3, <3>1
  <2>2. QED
    BY <1>1, <1>4, <2>1 DEF CommandFails, TypeOK, redisVars, TargetSet
<1>5. CASE IncrReplyLost(e)
  <2>1. counter' \in 0..MaxAlarms
    BY <1>5, AlarmsAssumption DEF IncrReplyLost, TypeOK
  <2>2. HandlersOK
    <3>1. Reply(e, "error") /\ pc[e] # "idle"
      BY <1>5 DEF IncrReplyLost
    <3>2. QED
      BY <1>3, <3>1
  <2>3. QED
    BY <1>1, <1>5, <2>1, <2>2 DEF IncrReplyLost, TypeOK, TargetSet
<1>6. CASE SaveReplyLost(e)
  <2>1. index' \in SUBSET AlarmId /\ store' \in [AlarmId -> AlarmHash]
    BY <1>6, StoreAlarmType DEF SaveReplyLost, TypeOK, LocalsSet, Holding
  <2>2. HandlersOK
    <3>1. Reply(e, "error") /\ pc[e] # "idle"
      BY <1>6 DEF SaveReplyLost
    <3>2. QED
      BY <1>3, <3>1
  <2>3. QED
    BY <1>1, <1>6, <2>1, <2>2 DEF SaveReplyLost, TypeOK, TargetSet
<1>7. CASE UpdateFails(e)
  <2>1. pc[e] \in Holding
    BY <1>7 DEF UpdateFails, Holding
  <2>2. /\ store' \in [AlarmId -> AlarmHash]
        /\ faults' \in [AlarmId -> SUBSET Probes]
        /\ maintFaults' \in [AlarmId -> SUBSET Probes]
    BY <1>7, <2>1, ApplyEventType DEF UpdateFails, TypeOK
  <2> DEFINE w == [work[e] EXCEPT !.notified = ~work[e].muted, !.answer = "error"]
  <2>3. w \in Work /\ w.probe = work[e].probe
    BY <1>2 DEF TypeOK, Work
  <2>4. work' = [work EXCEPT ![e] = w]
    BY <1>7 DEF UpdateFails
  <2> HIDE DEF w
  <2>5. /\ work' \in [Events -> Work] /\ pc' \in [Events -> EventPC]
        /\ pc'[e] = "done" /\ work'[e].probe = work[e].probe
        /\ \A d \in Events \ {e} : work'[d] = work[d] /\ pc'[d] = pc[d]
    BY <1>7, <2>3, <2>4 DEF UpdateFails, Goto, TypeOK, EventPC
  <2>6. QED
    BY <1>1, <1>2, <1>7, <2>1, <2>2, <2>5, LocalsType DEF UpdateFails, TypeOK, TargetSet
<1>8. CASE CloseFails(e)
  <2>1. pc[e] \in Holding /\ Announce(e, "error")
    BY <1>8 DEF CloseFails, Holding
  <2>2. store' \in [AlarmId -> AlarmHash]
    BY <1>8, <2>1, CloseAlarmType DEF CloseFails, TypeOK
  <2>3. QED
    BY <1>1, <1>2, <1>8, <2>1, <2>2, AnnounceType, LocalsType DEF CloseFails, TypeOK, TargetSet
<1>9. QED
  BY <1>4, <1>5, <1>6, <1>7, <1>8 DEF HandlerFails

\* The alarms API.
LEMMA RequestType ==
  ASSUME TypeOK, NEW r \in Requests,
         BeginRequest(r) \/ RequestStep(r) \/ RequestFails(r)
  PROVE  TypeOK'
<1>1. CASE BeginRequest(r)
  <2> DEFINE st(op, id) == IF Whole(id) THEN IF op = "get" THEN 200 ELSE 0
                           ELSE IF Exists(id) /\ id <= counter THEN 410 ELSE 404
  <2>1. PICK op \in Operations, id \in AlarmId :
          req' = [req EXCEPT ![r] =
            [pc |-> IF st(op, id) = 0 THEN "act" ELSE "done",
             op |-> op, id |-> id, status |-> st(op, id)]]
    BY <1>1 DEF BeginRequest
  <2> DEFINE status == st(op, id)
  <2>2. status \in {0, 200, 404, 410}
    OBVIOUS
  <2> HIDE DEF status
  <2>3. req' = [req EXCEPT ![r] =
            [pc |-> IF status = 0 THEN "act" ELSE "done",
             op |-> op, id |-> id, status |-> status]]
    BY <2>1 DEF status
  <2>4. /\ req' \in [Requests -> Request]
        /\ TargetSet'
    BY <2>2, <2>3, AlarmsAssumption DEF TypeOK, TargetSet, Request
  <2>5. QED
    BY <1>1, <2>4 DEF BeginRequest, TypeOK, redisVars, LocalsSet
<1>2. ASSUME NEW status \in {200, 500}, RequestDone(r, status)
      PROVE  /\ req' \in [Requests -> Request]
             /\ TargetSet'
  <2> DEFINE p == [req[r] EXCEPT !.pc = "done"]
             q == [p EXCEPT !.status = status]
  <2>1. q \in Request /\ q.pc = "done"
    <3>1. p \in Request /\ p.pc = "done"
      BY DEF TypeOK, Request
    <3> HIDE DEF p
    <3>2. QED
      BY <3>1 DEF Request
  <2>2. req' = [req EXCEPT ![r] = q]
    BY <1>2 DEF RequestDone
  <2> HIDE DEF p, q
  <2>3. QED
    BY <2>1, <2>2 DEF TypeOK, TargetSet
<1>3. ASSUME Answered(r)
      PROVE  /\ req' \in [Requests -> Request]
             /\ TargetSet'
             /\ errors' \in 0..MaxErrors
  BY <1>2, <1>3, FailsType DEF Answered, TypeOK
<1>4. CASE SetAlarm(r)
  <2> DEFINE id == req[r].id
             h(c, s) == [store[id] EXCEPT !.closed = c, !.suppressed = s]
  <2>1. PICK c \in BOOLEAN, s \in BOOLEAN : store' = SetField(id, h(c, s))
    <3>1. id \in AlarmId
      BY <1>4 DEF SetAlarm, TypeOK, TargetSet
    <3>2. store[id].closed \in BOOLEAN /\ store[id].suppressed \in BOOLEAN
      BY <3>1 DEF TypeOK, AlarmHash
    <3>3. QED
      BY <1>4, <3>2 DEF SetAlarm
  <2>2. id \in AlarmId /\ h(c, s) \in AlarmHash
    <3>1. id \in AlarmId /\ store[id] \in AlarmHash
      BY <1>4 DEF SetAlarm, TypeOK, TargetSet
    <3>2. QED
      BY <3>1 DEF AlarmHash
  <2>3. store' \in [AlarmId -> AlarmHash]
    BY <2>1, <2>2, SetFieldType
  <2>4. QED
    BY <1>3, <1>4, <2>3 DEF SetAlarm, TypeOK, LocalsSet
<1>5. CASE DeleteAlarm(r)
  <2>1. /\ store' \in [AlarmId -> AlarmHash] /\ index' \in SUBSET AlarmId
        /\ faults' \in [AlarmId -> SUBSET Probes]
        /\ maintFaults' \in [AlarmId -> SUBSET Probes]
    BY <1>5, NoHashType DEF DeleteAlarm, Unlist, TypeOK
  <2>2. QED
    BY <1>3, <1>5, <2>1 DEF DeleteAlarm, TypeOK, LocalsSet
<1>6. CASE RequestFails(r)
  BY <1>2, <1>6, FailsType DEF RequestFails, TypeOK, redisVars, LocalsSet
<1>7. QED
  BY <1>1, <1>4, <1>5, <1>6 DEF RequestStep

LEMMA StepType == TypeOK /\ [Next]_vars => TypeOK'
<1> SUFFICES ASSUME TypeOK, [Next]_vars PROVE TypeOK'
  OBVIOUS
<1>1. CASE Tick
  BY <1>1, AlarmsAssumption DEF Tick, TypeOK, redisVars, LocalsSet, TargetSet
<1>2. ASSUME NEW e \in Events, Receive(e) \/ HandlerStep(e) \/ HandlerFails(e)
      PROVE  TypeOK'
  BY <1>2, ArrivalType, ChooseType, HandleType, FailureType DEF HandlerStep
<1>3. ASSUME NEW r \in Requests,
             BeginRequest(r) \/ RequestStep(r) \/ RequestFails(r)
      PROVE  TypeOK'
  BY <1>3, RequestType
<1>4. CASE UNCHANGED vars
  BY <1>4 DEF vars, redisVars, TypeOK, LocalsSet, TargetSet
<1>5. QED
  BY <1>1, <1>2, <1>3, <1>4 DEF Next

\* Every variable keeps its type, and a handler's locals are set where it uses
\* them, in every instance of the alarm store.
THEOREM TypeCorrect == Spec => []TypeOK
BY InitType, StepType, PTL DEF Spec


-----------------------------------------------------------------------------
(***************************************************************************)
(* The alarm store is sound for every number of probes, events, API calls   *)
(* and failures: StoreInv is inductive, and what Alarms states of ids,      *)
(* listed alarms and faults follows from it.                                *)
(*                                                                          *)
(* The steps are of three kinds.  Some read redis or nothing (ReadKeeps),   *)
(* some write an alarm that was stored before (WriteKeeps), and the rest    *)
(* draw an id or store the alarm of a new one.                              *)
(***************************************************************************)

-----------------------------------------------------------------------------
(* The first and the second kind of step *)

\* A handler that went on knows what it needs of the alarms it now refers to.
KnowsItsAlarm(e) ==
  /\ pc'[e] # "save"
  /\ pc'[e] \in Chosen =>
       /\ ~NotYetStored(work'[e].alarm)
       /\ Whole(work'[e].alarm) =>
            store[work'[e].alarm].assoc = Association(work'[e].probe)
  /\ pc'[e] = "get" => \A id \in work'[e].listed : ~NotYetStored(id)
  /\ work'[e].answer = "notFound" =>
       /\ pc'[e] = "done"
       /\ \E id \in work'[e].listed : id \notin index /\ ~NotYetStored(id)

LEMMA ReadKeeps ==
  ASSUME TypeOK, TypeOK', StoreInv, UNCHANGED redisVars,
         \A e \in Events : \/ pc'[e] = pc[e] /\ work'[e] = work[e]
                           \/ KnowsItsAlarm(e),
         \A r \in Requests :
           req'[r].pc = "act" => ~NotYetStored(req'[r].id)
  PROVE  StoreInv'
<1>1. \A id : NotYetStored(id)' => NotYetStored(id)
  BY DEF NotYetStored, InCreation, Creating, KnowsItsAlarm, redisVars
<1>2. FreshIdsUnknown'
  BY <1>1 DEF StoreInv, FreshIdsUnknown, KnowsItsAlarm, NotYetStored, InCreation,
              Creating, redisVars, Chosen
<1>3. FreshIdsUnused'
  BY <1>1 DEF StoreInv, FreshIdsUnused, KnowsItsAlarm, redisVars, Exists,
              Outstanding, Creating
<1>4. AlarmIsForProbe'
  BY DEF StoreInv, AlarmIsForProbe, KnowsItsAlarm, redisVars, Whole
<1>5. NotFoundMeansDeleted'
  BY <1>1 DEF StoreInv, NotFoundMeansDeleted, KnowsItsAlarm, redisVars
<1>6. IndexedAlarmsAreWhole' /\ FaultsBelongToAlarm'
  BY DEF StoreInv, IndexedAlarmsAreWhole, FaultsBelongToAlarm, redisVars, Whole,
         Outstanding
<1>7. QED
  BY <1>2, <1>3, <1>4, <1>5, <1>6 DEF StoreInv

\* An alarm that was stored is written, or removed, by somebody who knows it.
LEMMA WriteKeeps ==
  ASSUME TypeOK, TypeOK', StoreInv, NEW id \in AlarmId, ~NotYetStored(id),
         counter' = counter, index' \subseteq index,
         \A x \in AlarmId \ {id} : /\ store'[x] = store[x]
                                   /\ faults'[x] = faults[x]
                                   /\ maintFaults'[x] = maintFaults[x],
         Whole(id)' => /\ Whole(id)
                       /\ store'[id].assoc = store[id].assoc
                       /\ \A p \in Outstanding(id)' :
                            Association(p) = store[id].assoc,
         id \in index' => Whole(id)',
         \A e \in Events :
           \/ pc'[e] = pc[e] /\ work'[e] = work[e]
           \/ /\ pc[e] \in Chosen /\ pc'[e] \in {"settle", "done"}
              /\ work'[e].alarm = work[e].alarm
              /\ work'[e].probe = work[e].probe
              /\ work'[e].answer # "notFound",
         \A r \in Requests : req'[r].pc = "act" => req'[r] = req[r]
  PROVE  StoreInv'
<1>1. \A x : NotYetStored(x)' <=> NotYetStored(x)
  BY DEF NotYetStored, InCreation, Creating, Chosen
<1>2. FreshIdsUnknown'
  BY <1>1 DEF StoreInv, FreshIdsUnknown, Chosen
<1>3. FreshIdsUnused'
  BY <1>1 DEF StoreInv, FreshIdsUnused, Exists, Outstanding, Creating, Chosen
<1>4. AlarmIsForProbe'
  BY DEF StoreInv, AlarmIsForProbe, Whole, Chosen, TypeOK, LocalsSet, Holding
<1>5. NotFoundMeansDeleted'
  BY <1>1 DEF StoreInv, NotFoundMeansDeleted, Chosen
<1>6. IndexedAlarmsAreWhole' /\ FaultsBelongToAlarm'
  BY DEF StoreInv, IndexedAlarmsAreWhole, FaultsBelongToAlarm, Whole, Outstanding,
         TypeOK
<1>7. QED
  BY <1>2, <1>3, <1>4, <1>5, <1>6 DEF StoreInv

-----------------------------------------------------------------------------
(* The third kind of step: createAlarm *)

\* HINCRBY draws an id nobody has had, whether or not its reply arrives.
LEMMA DrawKeeps ==
  ASSUME TypeOK, TypeOK', StoreInv, NEW e \in Events,
         IncrId(e) \/ IncrReplyLost(e)
  PROVE  StoreInv'
<1>1. /\ pc[e] = "incr"
      /\ counter < MaxAlarms /\ counter' = counter + 1
      /\ UNCHANGED <<index, store, faults, maintFaults, req>>
      /\ \/ pc'[e] = "save" /\ work'[e].alarm = counter'
         \/ pc'[e] = "done"
      /\ work'[e].answer \in {work[e].answer, "error"}
      /\ \A d \in Events \ {e} : pc'[d] = pc[d] /\ work'[d] = work[d]
  <2>1. CASE IncrId(e)
    BY <2>1 DEF IncrId, NextId, Goto, TypeOK, Work
  <2>2. CASE IncrReplyLost(e)
    BY <2>2 DEF IncrReplyLost, Goto, Reply, TypeOK, Work
  <2>3. QED
    BY <2>1, <2>2
<1>2. \A id \in AlarmId : NotYetStored(id)' => NotYetStored(id)
  BY <1>1 DEF NotYetStored, InCreation, Creating, TypeOK, AlarmId
<1>3. FreshIdsUnknown'
  <2>1. \A d \in Events : pc'[d] = "save" => work'[d].alarm <= counter'
    BY <1>1 DEF StoreInv, FreshIdsUnknown, TypeOK, LocalsSet, Holding, AlarmId
  <2>2. \A d \in Events : pc'[d] \in Chosen => ~NotYetStored(work[d].alarm)'
    BY <1>1, <1>2 DEF StoreInv, FreshIdsUnknown, Chosen, TypeOK, LocalsSet, Holding
  <2>3. \A d \in Events : pc'[d] = "get" =>
          \A id \in work'[d].listed : ~NotYetStored(id)'
    BY <1>1, <1>2 DEF StoreInv, FreshIdsUnknown, TypeOK, Work
  <2>4. \A r \in Requests : req'[r].pc = "act" => ~NotYetStored(req[r].id)'
    BY <1>1, <1>2 DEF StoreInv, FreshIdsUnknown, TypeOK, TargetSet
  <2>5. QED
    BY <1>1, <2>1, <2>2, <2>3, <2>4 DEF FreshIdsUnknown
<1>4. FreshIdsUnused'
  <2>1. \A d \in Events \ {e} : Creating(d)' => work'[d].alarm < counter'
    BY <1>1 DEF StoreInv, FreshIdsUnknown, Creating, TypeOK, AlarmId, LocalsSet,
                Holding
  <2>2. QED
    BY <1>1, <1>2, <2>1
    DEF StoreInv, FreshIdsUnused, Exists, Outstanding, Creating, TypeOK
<1>5. AlarmIsForProbe'
  BY <1>1 DEF StoreInv, AlarmIsForProbe, Whole, Chosen
<1>6. NotFoundMeansDeleted'
  BY <1>1, <1>2 DEF StoreInv, NotFoundMeansDeleted, TypeOK, Work
<1>7. IndexedAlarmsAreWhole' /\ FaultsBelongToAlarm'
  BY <1>1 DEF StoreInv, IndexedAlarmsAreWhole, FaultsBelongToAlarm, Whole,
              Outstanding
<1>8. QED
  BY <1>3, <1>4, <1>5, <1>6, <1>7 DEF StoreInv

\* The EXEC stores the alarm under an id that only this handler knows.
LEMMA SaveKeeps ==
  ASSUME TypeOK, TypeOK', StoreInv, NEW e \in Events,
         SaveAlarm(e) \/ SaveReplyLost(e)
  PROVE  StoreInv'
<1> DEFINE id == work[e].alarm
<1>1. /\ pc[e] = "save" /\ id \in AlarmId /\ NotYetStored(id)
      /\ StoreAlarm(e)
      /\ UNCHANGED <<counter, faults, maintFaults, req>>
      /\ pc'[e] \in {"maint", "done"}
      /\ work'[e].alarm = id /\ work'[e].probe = work[e].probe
      /\ work'[e].answer \in {work[e].answer, "error"}
      /\ \A d \in Events \ {e} : pc'[d] = pc[d] /\ work'[d] = work[d]
  BY DEF SaveAlarm, SaveReplyLost, Goto, Reply, TypeOK, Work, LocalsSet, Holding,
         NotYetStored, InCreation, Creating
<1>2. \A x : NotYetStored(x)' => NotYetStored(x) /\ x # id
  <2>1. \A d \in Events : Creating(d)' => d # e /\ Creating(d)
    BY <1>1 DEF Creating
  <2>2. id <= counter
    BY <1>1 DEF StoreInv, FreshIdsUnknown
  <2>3. QED
    BY <1>1, <2>1, <2>2
    DEF NotYetStored, InCreation, StoreInv, FreshIdsUnused, Creating, AlarmId,
        TypeOK
<1>3. /\ Whole(id)' /\ id \in index'
      /\ store'[id].assoc = Association(work[e].probe)
      /\ \A x \in AlarmId \ {id} : store'[x] = store[x]
      /\ index' = index \cup {id}
  BY <1>1 DEF StoreAlarm, Whole, TypeOK, NoHash
<1>4. FreshIdsUnknown'
  <2>1. \A d \in Events : pc'[d] \in Chosen => ~NotYetStored(work[d].alarm)'
    BY <1>1, <1>2 DEF StoreInv, FreshIdsUnknown, Chosen
  <2>2. QED
    BY <1>1, <1>2, <2>1 DEF StoreInv, FreshIdsUnknown
<1>5. FreshIdsUnused'
  BY <1>1, <1>2, <1>3
  DEF StoreInv, FreshIdsUnused, Exists, Outstanding, Creating
<1>6. AlarmIsForProbe'
  <2>1. \A d \in Events \ {e} : pc[d] \in Chosen =>
          work[d].alarm \in AlarmId \ {id}
    BY <1>1 DEF StoreInv, FreshIdsUnknown, Chosen, TypeOK, LocalsSet, Holding
  <2>2. QED
    BY <1>1, <1>3, <2>1 DEF StoreInv, AlarmIsForProbe, Whole
<1>7. NotFoundMeansDeleted'
  <2>1. ASSUME NEW d \in Events, work'[d].answer = "notFound"
        PROVE  /\ pc'[d] = "done"
               /\ \E x \in work'[d].listed : x \notin index' /\ ~NotYetStored(x)'
    <3>1. d # e
      BY <1>1, <2>1 DEF StoreInv, NotFoundMeansDeleted
    <3>2. PICK x \in work[d].listed : x \notin index /\ ~NotYetStored(x)
      BY <1>1, <2>1, <3>1 DEF StoreInv, NotFoundMeansDeleted
    <3>3. QED
      BY <1>1, <1>2, <1>3, <2>1, <3>1, <3>2 DEF StoreInv, NotFoundMeansDeleted
  <2>2. QED
    BY <2>1 DEF NotFoundMeansDeleted
<1>8. IndexedAlarmsAreWhole' /\ FaultsBelongToAlarm'
  <2>1. Outstanding(id)' = {}
    BY <1>1 DEF StoreInv, FreshIdsUnused, Outstanding
  <2>2. QED
    BY <1>1, <1>3, <2>1 DEF StoreInv, IndexedAlarmsAreWhole, FaultsBelongToAlarm,
                            Whole, Outstanding, TypeOK
<1>9. QED
  BY <1>4, <1>5, <1>6, <1>7, <1>8 DEF StoreInv

-----------------------------------------------------------------------------
(* Every step *)

\* The steps of a handler that only read.
LEMMA HandlerReadKeeps ==
  ASSUME TypeOK, TypeOK', StoreInv, NEW e \in Events,
         \/ Receive(e) \/ Lookup(e)
         \/ ListAlarms(e) \/ GetAlarmsNotFound(e) \/ GetAlarmsRelated(e)
         \/ GetAlarmsUnrelated(e) \/ CheckMaint(e) \/ CommandFails(e)
  PROVE  StoreInv'
<1> USE DEF Goto, Reply
<1>1. UNCHANGED redisVars /\ UNCHANGED req
  BY DEF Receive, Lookup, ListAlarms, GetAlarmsNotFound, GetAlarmsRelated,
         GetAlarmsUnrelated, CheckMaint, CommandFails
<1>2. \A d \in Events \ {e} : pc'[d] = pc[d] /\ work'[d] = work[d]
  BY DEF Receive, Lookup, ListAlarms, GetAlarmsNotFound, GetAlarmsRelated,
         GetAlarmsUnrelated, CheckMaint, CommandFails, TypeOK
<1>3. pc[e] # "done" => work[e].answer # "notFound"
  BY DEF StoreInv, NotFoundMeansDeleted
<1>4. KnowsItsAlarm(e)
  <2>1. CASE Receive(e)
    BY <2>1, ReceiveLocals DEF KnowsItsAlarm, Chosen
  <2>2. CASE Lookup(e)
    BY <1>3, <2>2 DEF Lookup, KnowsItsAlarm, TypeOK, Chosen, Work
  <2>3. CASE ListAlarms(e)
    <3>1. \A id \in index : ~NotYetStored(id)
      BY DEF StoreInv, FreshIdsUnused, TypeOK
    <3>2. QED
      BY <1>3, <2>3, <3>1 DEF ListAlarms, KnowsItsAlarm, TypeOK, Chosen, Work
  <2>4. CASE GetAlarmsNotFound(e)
    <3>1. PICK id \in work[e].listed : ~Exists(id)
      BY <2>4 DEF GetAlarmsNotFound
    <3>2. id \notin index /\ ~NotYetStored(id)
      BY <2>4, <3>1 DEF GetAlarmsNotFound, StoreInv, IndexedAlarmsAreWhole,
                        FreshIdsUnknown, Exists, Whole
    <3>3. QED
      BY <2>4, <3>1, <3>2 DEF GetAlarmsNotFound, KnowsItsAlarm, TypeOK, Chosen, Work
  <2>5. CASE GetAlarmsRelated(e)
    <3>1. PICK a \in Related(e) :
            work' = [work EXCEPT ![e] = [@ EXCEPT !.alarm = a,
                                                  !.muted = store[a].suppressed]]
      BY <2>5 DEF GetAlarmsRelated
    <3>2. /\ a \in work[e].listed
          /\ store[a].assoc = Association(work[e].probe)
      BY <3>1 DEF Related, MostRecent, Candidates
    <3>3. /\ work'[e].alarm = a /\ work'[e].probe = work[e].probe
          /\ work'[e].answer = work[e].answer
      BY <3>1 DEF TypeOK, Work
    <3>4. QED
      BY <1>3, <2>5, <3>2, <3>3
      DEF GetAlarmsRelated, KnowsItsAlarm, TypeOK, StoreInv, FreshIdsUnknown
  <2>6. CASE GetAlarmsUnrelated(e)
    BY <1>3, <2>6 DEF GetAlarmsUnrelated, KnowsItsAlarm, TypeOK, Chosen, Work
  <2>7. CASE CheckMaint(e)
    BY <1>3, <2>7 DEF CheckMaint, KnowsItsAlarm, TypeOK, Chosen, Work, StoreInv,
                      FreshIdsUnknown, AlarmIsForProbe
  <2>8. CASE CommandFails(e)
    BY <2>8 DEF CommandFails, KnowsItsAlarm, TypeOK, Chosen, Work
  <2>9. QED
    BY <2>1, <2>2, <2>3, <2>4, <2>5, <2>6, <2>7, <2>8
<1>5. \A r \in Requests : req'[r].pc = "act" => ~NotYetStored(req'[r].id)
  BY <1>1 DEF StoreInv, FreshIdsUnknown
<1>6. QED
  BY <1>1, <1>2, <1>4, <1>5, ReadKeeps

\* HSET keeps what StoreInv says of a hash, and never makes one whole.
LEMMA SetFieldKeeps ==
  ASSUME TypeOK, NEW id \in AlarmId, NEW h \in AlarmHash,
         h.state = store[id].state, h.assoc = store[id].assoc,
         store' = SetField(id, h)
  PROVE  /\ \A x \in AlarmId \ {id} : store'[x] = store[x]
         /\ Whole(id)' => Whole(id) /\ store'[id].assoc = store[id].assoc
         /\ Whole(id) => Whole(id)'
<1>1. [NoHash EXCEPT !.state = "partial"].state = "partial"
  BY DEF NoHash
<1>2. QED
  BY <1>1 DEF SetField, Whole, TypeOK

\* The steps of a handler that write its alarm.
LEMMA HandlerWriteKeeps ==
  ASSUME TypeOK, TypeOK', StoreInv, NEW e \in Events,
         Update(e) \/ Settle(e) \/ UpdateFails(e) \/ CloseFails(e)
  PROVE  StoreInv'
<1> PICK id : id = work[e].alarm
  OBVIOUS
<1>1. /\ pc[e] \in Chosen /\ pc'[e] \in {"settle", "done"}
      /\ \A d \in Events \ {e} : pc'[d] = pc[d] /\ work'[d] = work[d]
      /\ counter' = counter /\ index' = index /\ req' = req
  BY DEF Update, Settle, UpdateFails, CloseFails, Announce, Goto, TypeOK, Chosen
<1>2. /\ work'[e].alarm = id /\ work'[e].probe = work[e].probe
      /\ work'[e].answer # "notFound"
  <2>1. work[e].answer # "notFound" /\ work[e] \in Work
    BY <1>1 DEF StoreInv, NotFoundMeansDeleted, Chosen, TypeOK
  <2>2. CASE Update(e)
    BY <2>1, <2>2 DEF Update, TypeOK, Work
  <2>3. CASE Settle(e)
    BY <2>1, <2>3 DEF Settle, Announce, TypeOK, Work
  <2>4. CASE UpdateFails(e)
    BY <2>1, <2>4 DEF UpdateFails, TypeOK, Work
  <2>5. CASE CloseFails(e)
    BY <2>1, <2>5 DEF CloseFails, Announce, TypeOK, Work
  <2>6. QED
    BY <2>2, <2>3, <2>4, <2>5
<1>3. /\ id \in AlarmId /\ work[e].probe \in Probes /\ ~NotYetStored(id)
      /\ Whole(id) => store[id].assoc = Association(work[e].probe)
  BY <1>1 DEF TypeOK, LocalsSet, Holding, Chosen, StoreInv, FreshIdsUnknown,
              AlarmIsForProbe
<1>4. /\ \A x \in AlarmId \ {id} : /\ store'[x] = store[x]
                                   /\ faults'[x] = faults[x]
                                   /\ maintFaults'[x] = maintFaults[x]
      /\ Whole(id)' => Whole(id) /\ store'[id].assoc = store[id].assoc
      /\ Whole(id) => Whole(id)'
      /\ Outstanding(id)' \subseteq Outstanding(id) \cup {work[e].probe}
  <2>1. CASE ApplyEvent(e)
    <3>1. /\ \A x \in AlarmId \ {id} : /\ faults'[x] = faults[x]
                                       /\ maintFaults'[x] = maintFaults[x]
          /\ Outstanding(id)' \subseteq Outstanding(id) \cup {work[e].probe}
      BY <1>3, <2>1 DEF ApplyEvent, FaultsAfter, MaintFaultsAfter, Outstanding, TypeOK
    <3> DEFINE h == [store[id] EXCEPT !.timeLastEvent = work[e].time]
    <3>2. /\ h \in AlarmHash /\ h.state = store[id].state
          /\ h.assoc = store[id].assoc /\ store' = SetField(id, h)
      <4>1. store[id] \in AlarmHash /\ work[e].time \in Time
        BY <1>3 DEF TypeOK, Work
      <4>2. QED
        BY <2>1, <4>1 DEF ApplyEvent, AlarmHash
    <3> HIDE DEF h
    <3>3. QED
      BY <1>3, <3>1, <3>2, SetFieldKeeps
  <2>2. CASE CloseAlarm(e) /\ UNCHANGED <<faults, maintFaults>>
    <3> DEFINE h == [store[id] EXCEPT !.closed = TRUE]
    <3>1. /\ h \in AlarmHash /\ h.state = store[id].state
          /\ h.assoc = store[id].assoc /\ store' = SetField(id, h)
      <4>1. store[id] \in AlarmHash
        BY <1>3 DEF TypeOK
      <4>2. QED
        BY <2>2, <4>1 DEF CloseAlarm, AlarmHash
    <3> HIDE DEF h
    <3>2. QED
      BY <1>3, <2>2, <3>1, SetFieldKeeps DEF Outstanding
  <2>3. CASE UNCHANGED <<store, faults, maintFaults>>
    BY <2>3 DEF Whole, Outstanding
  <2>4. QED
    BY <2>1, <2>2, <2>3 DEF Update, Settle, UpdateFails, CloseFails
<1>5. Whole(id)' => \A p \in Outstanding(id)' : Association(p) = store[id].assoc
  BY <1>3, <1>4 DEF StoreInv, FaultsBelongToAlarm
<1>6. id \in index' => Whole(id)'
  BY <1>1, <1>4 DEF StoreInv, IndexedAlarmsAreWhole
<1>7. QED
  BY <1>1, <1>2, <1>3, <1>4, <1>5, <1>6, WriteKeeps

\* The alarms API.
LEMMA RequestKeeps ==
  ASSUME TypeOK, TypeOK', StoreInv, NEW r \in Requests,
         BeginRequest(r) \/ RequestStep(r) \/ RequestFails(r)
  PROVE  StoreInv'
<1>1. ASSUME BeginRequest(r) \/ RequestFails(r) PROVE StoreInv'
  <2>1. /\ UNCHANGED redisVars /\ UNCHANGED <<pc, work>>
        /\ \A s \in Requests \ {r} : req'[s] = req[s]
    BY <1>1 DEF BeginRequest, RequestFails, RequestDone, TypeOK
  <2>2. req'[r].pc = "act" => ~NotYetStored(req'[r].id)
    <3>1. CASE BeginRequest(r)
      <4>1. PICK op \in Operations, id \in AlarmId :
              /\ req'[r].id = id
              /\ req'[r].pc = "act" => Whole(id)
        BY <3>1 DEF BeginRequest, TypeOK
      <4>2. QED
        BY <4>1 DEF StoreInv, FreshIdsUnused, Whole, Exists
    <3>2. CASE RequestFails(r)
      BY <3>2 DEF RequestFails, RequestDone, TypeOK, Request
    <3>3. QED
      BY <1>1, <3>1, <3>2
  <2>3. \A s \in Requests : req'[s].pc = "act" => ~NotYetStored(req'[s].id)
    BY <2>1, <2>2 DEF StoreInv, FreshIdsUnknown
  <2>4. QED
    BY <2>1, <2>3, ReadKeeps
<1> PICK id : id = req[r].id
  OBVIOUS
<1>2. ASSUME RequestStep(r)
      PROVE  /\ req[r].pc = "act" /\ req'[r].pc = "done"
             /\ \A s \in Requests \ {r} : req'[s] = req[s]
             /\ id \in AlarmId /\ ~NotYetStored(id)
             /\ counter' = counter /\ UNCHANGED <<pc, work>>
  <2>1. req[r].pc = "act" /\ counter' = counter /\ UNCHANGED <<pc, work>> /\ Answered(r)
    BY <1>2 DEF RequestStep, SetAlarm, DeleteAlarm
  <2>2. id \in AlarmId /\ ~NotYetStored(id)
    BY <2>1 DEF TypeOK, TargetSet, StoreInv, FreshIdsUnknown
  <2>3. req'[r].pc = "done" /\ \A s \in Requests \ {r} : req'[s] = req[s]
    <3>1. ASSUME NEW status, RequestDone(r, status)
          PROVE  req'[r].pc = "done" /\ \A s \in Requests \ {r} : req'[s] = req[s]
      BY <3>1 DEF RequestDone, TypeOK, Request
    <3>2. QED
      BY <2>1, <3>1 DEF Answered
  <2>4. QED
    BY <2>1, <2>2, <2>3
<1>3. CASE SetAlarm(r)
  <2>1. /\ RequestStep(r)
        /\ UNCHANGED <<index, faults, maintFaults>>
    BY <1>3 DEF SetAlarm, RequestStep
  <2>2. /\ \A x \in AlarmId \ {id} : store'[x] = store[x]
        /\ Whole(id)' => Whole(id) /\ store'[id].assoc = store[id].assoc
        /\ Whole(id) => Whole(id)'
    <3> DEFINE h(c, s) == [store[id] EXCEPT !.closed = c, !.suppressed = s]
    <3>1. store[id] \in AlarmHash
      BY <1>2, <2>1 DEF TypeOK
    <3>2. PICK c \in BOOLEAN, s \in BOOLEAN : store' = SetField(id, h(c, s))
      <4>1. store[id].closed \in BOOLEAN /\ store[id].suppressed \in BOOLEAN
        BY <3>1 DEF AlarmHash
      <4>2. QED
        BY <1>3, <4>1 DEF SetAlarm
    <3>3. /\ h(c, s) \in AlarmHash /\ h(c, s).state = store[id].state
          /\ h(c, s).assoc = store[id].assoc
      BY <3>1 DEF AlarmHash
    <3> HIDE DEF h
    <3>4. QED
      BY <1>2, <2>1, <3>2, <3>3, SetFieldKeeps
  <2>3. Whole(id)' => \A p \in Outstanding(id)' : Association(p) = store[id].assoc
    BY <1>2, <2>1, <2>2 DEF StoreInv, FaultsBelongToAlarm, Outstanding
  <2>4. id \in index' => Whole(id)'
    BY <2>1, <2>2 DEF StoreInv, IndexedAlarmsAreWhole
  <2>5. QED
    BY <1>2, <2>1, <2>2, <2>3, <2>4, WriteKeeps
<1>4. CASE DeleteAlarm(r)
  <2>1. RequestStep(r)
    BY <1>4 DEF RequestStep
  <2>2. /\ \A x \in AlarmId \ {id} : /\ store'[x] = store[x]
                                     /\ faults'[x] = faults[x]
                                     /\ maintFaults'[x] = maintFaults[x]
        /\ index' = index \ {id}
        /\ ~Whole(id)'
    BY <1>2, <1>4, <2>1 DEF DeleteAlarm, Unlist, Whole, NoHash, TypeOK
  <2>3. QED
    BY <1>2, <2>1, <2>2, WriteKeeps
<1>5. QED
  BY <1>1, <1>3, <1>4 DEF RequestStep

LEMMA InitStore == Init => StoreInv
BY DEF Init, StoreInv, FreshIdsUnknown, FreshIdsUnused, AlarmIsForProbe,
       NotFoundMeansDeleted, IndexedAlarmsAreWhole, FaultsBelongToAlarm, Chosen,
       NotYetStored, InCreation, Creating, Exists, Whole, NoHash, NoWork, Outstanding

LEMMA StepStore == TypeOK /\ TypeOK' /\ StoreInv /\ [Next]_vars => StoreInv'
<1> SUFFICES ASSUME TypeOK, TypeOK', StoreInv, [Next]_vars PROVE StoreInv'
  OBVIOUS
<1>1. ASSUME Tick \/ UNCHANGED vars PROVE StoreInv'
  <2>1. UNCHANGED redisVars /\ UNCHANGED <<pc, work, req>>
    BY <1>1 DEF Tick, vars, redisVars
  <2>2. \A r \in Requests : req'[r].pc = "act" => ~NotYetStored(req'[r].id)
    BY <2>1 DEF StoreInv, FreshIdsUnknown
  <2>3. QED
    BY <2>1, <2>2, ReadKeeps
<1>2. ASSUME NEW e \in Events, Receive(e) \/ HandlerStep(e) \/ HandlerFails(e)
      PROVE  StoreInv'
  BY <1>2, HandlerReadKeeps, HandlerWriteKeeps, DrawKeeps, SaveKeeps
  DEF HandlerStep, HandlerFails
<1>3. ASSUME NEW r \in Requests,
             BeginRequest(r) \/ RequestStep(r) \/ RequestFails(r)
      PROVE  StoreInv'
  BY <1>3, RequestKeeps
<1>4. QED
  BY <1>1, <1>2, <1>3 DEF Next

\* The store is sound in every instance: StoreInv is an invariant.
THEOREM StoreIsSound == Spec => []StoreInv
BY InitType, StepType, InitStore, StepStore, PTL DEF Spec

-----------------------------------------------------------------------------
(* What follows from it *)

\* createAlarm never writes over an alarm that exists or is being created.
THEOREM CreateIsSafe == Spec => []SaveFindsFreeKey
<1>1. TypeOK /\ StoreInv => SaveFindsFreeKey
  BY DEF StoreInv, FreshIdsUnused, SaveFindsFreeKey, NotYetStored, InCreation,
         TypeOK, LocalsSet, Creating, Holding
<1>2. QED
  BY <1>1, TypeCorrect, StoreIsSound, PTL

\* The API never lists an id whose hash is missing or incomplete.
THEOREM IndexIsSound == Spec => []IndexedAlarmsAreWhole
<1>1. StoreInv => IndexedAlarmsAreWhole
  BY DEF StoreInv
<1>2. QED
  BY <1>1, StoreIsSound, PTL

\* No event lands on the alarm of another probe or group.
THEOREM FaultsAreTheirs == Spec => []FaultsBelongToAlarm
<1>1. StoreInv => FaultsBelongToAlarm
  BY DEF StoreInv
<1>2. QED
  BY <1>1, StoreIsSound, PTL

\* Only a deletion between the two reads makes an event fail with "not found".
THEOREM LookupFailsOnDelete == Spec => []FilterFailsOnlyOnDelete
<1>1. StoreInv => FilterFailsOnlyOnDelete
  BY DEF StoreInv, NotFoundMeansDeleted, FilterFailsOnlyOnDelete, NotYetStored
<1>2. QED
  BY <1>1, StoreIsSound, PTL

\* Steps add to alarms:USER only the id of an alarm being created.
LEMMA IndexGrows ==
  ASSUME TypeOK, [Next]_vars, NEW id \in index', id \notin index
  PROVE  InCreation(id)
<1>1. ASSUME NEW e \in Events, SaveAlarm(e) \/ SaveReplyLost(e)
      PROVE  InCreation(id)
  BY <1>1 DEF SaveAlarm, SaveReplyLost, StoreAlarm, InCreation, Creating
<1>2. ASSUME NEW r \in Requests, DeleteAlarm(r) PROVE id \in index
  BY <1>2 DEF DeleteAlarm, Unlist
<1>3. CASE index' = index
  BY <1>3
<1>4. QED
  BY <1>1, <1>2, <1>3
  DEF Next, vars, redisVars, Tick, HandlerStep, HandlerFails, RequestStep, Receive,
      Lookup, ListAlarms, GetAlarmsNotFound, GetAlarmsRelated, GetAlarmsUnrelated,
      IncrId, CheckMaint, Update, Settle, CommandFails, IncrReplyLost, UpdateFails,
      CloseFails, BeginRequest, SetAlarm, RequestFails

\* An alarm is being created only after its id was drawn.
LEMMA CreationIsDrawn ==
  ASSUME TypeOK, [Next]_vars, NEW e \in Events, pc'[e] = "save"
  PROVE  \/ pc[e] = "save" /\ work'[e] = work[e]
         \/ work'[e].alarm = counter + 1
<1> USE DEF Goto, Reply, TypeOK
<1>1. ASSUME NEW d \in Events, IncrId(d)
      PROVE  \/ pc[e] = "save" /\ work'[e] = work[e]
             \/ work'[e].alarm = counter + 1
  <2>1. work[d] \in Work
    OBVIOUS
  <2>2. QED
    BY <1>1, <2>1 DEF IncrId, NextId, Work
<1>2. ASSUME NEW d \in Events, Receive(d) \/ HandlerStep(d), ~IncrId(d)
      PROVE  pc[e] = "save" /\ work'[e] = work[e]
  <2>1. pc'[d] # "save" /\ \A c \in Events \ {d} : pc'[c] = pc[c] /\ work'[c] = work[c]
    BY <1>2
    DEF HandlerStep, Receive, Lookup, ListAlarms, GetAlarmsNotFound,
        GetAlarmsRelated, GetAlarmsUnrelated, SaveAlarm, CheckMaint, Update, Settle,
        Announce
  <2>2. QED
    BY <2>1
<1>3. ASSUME NEW d \in Events, HandlerFails(d)
      PROVE  pc[e] = "save" /\ work'[e] = work[e]
  BY <1>3 DEF HandlerFails, CommandFails, IncrReplyLost, SaveReplyLost, UpdateFails,
              CloseFails, Announce
<1>4. CASE UNCHANGED <<pc, work>>
  BY <1>4
<1>5. QED
  BY <1>1, <1>2, <1>3, <1>4
  DEF Next, vars, Tick, RequestStep, BeginRequest, SetAlarm, DeleteAlarm, RequestFails

\* A deleted alarm never returns to the list.
THEOREM DeletedForGood == Spec => NoRelisting
<1>1. TypeOK /\ [Next]_vars =>
        [\A id \in 1..counter :
           id \notin index /\ ~InCreation(id) =>
             id \notin index' /\ ~InCreation(id)']_vars
  BY IndexGrows, CreationIsDrawn DEF InCreation, Creating, TypeOK
<1>2. QED
  BY <1>1, TypeCorrect, PTL DEF Spec, NoRelisting

-----------------------------------------------------------------------------
(* What a step leaves of the handlers' locals *)

\* A handler changes its own locals only, and keeps those of the event.
OwnLocals(e) ==
  /\ \A d \in Events \ {e} : pc'[d] = pc[d] /\ work'[d] = work[d]
  /\ pc[e] \notin {"idle", "done"} /\ pc'[e] # "idle"
  /\ work'[e].probe = work[e].probe /\ work'[e].clear = work[e].clear
  /\ work'[e].time = work[e].time /\ work'[e].earlier = work[e].earlier
  /\ req' = req

LEMMA HandlerLocals ==
  ASSUME TypeOK, NEW e \in Events, HandlerStep(e) \/ HandlerFails(e)
  PROVE  OwnLocals(e)
<1> USE DEF Goto, Reply, OwnLocals, TypeOK, Work
<1>1. CASE Lookup(e)
  BY <1>1 DEF Lookup
<1>2. CASE ListAlarms(e)
  BY <1>2 DEF ListAlarms
<1>3. CASE GetAlarmsNotFound(e)
  BY <1>3 DEF GetAlarmsNotFound
<1>4. CASE GetAlarmsRelated(e)
  BY <1>4 DEF GetAlarmsRelated
<1>5. CASE GetAlarmsUnrelated(e)
  BY <1>5 DEF GetAlarmsUnrelated
<1>6. CASE IncrId(e)
  BY <1>6 DEF IncrId, NextId
<1>7. CASE SaveAlarm(e)
  BY <1>7 DEF SaveAlarm
<1>8. CASE CheckMaint(e)
  BY <1>8 DEF CheckMaint
<1>9. CASE Update(e)
  BY <1>9 DEF Update
<1>10. CASE Settle(e)
  BY <1>10 DEF Settle, Announce
<1>11. CASE CommandFails(e)
  BY <1>11 DEF CommandFails
<1>12. CASE IncrReplyLost(e)
  BY <1>12 DEF IncrReplyLost
<1>13. CASE SaveReplyLost(e)
  BY <1>13 DEF SaveReplyLost
<1>14. CASE UpdateFails(e)
  BY <1>14 DEF UpdateFails
<1>15. CASE CloseFails(e)
  BY <1>15 DEF CloseFails, Announce
<1>16. QED
  BY <1>1, <1>2, <1>3, <1>4, <1>5, <1>6, <1>7, <1>8, <1>9, <1>10, <1>11, <1>12,
     <1>13, <1>14, <1>15 DEF HandlerStep, HandlerFails

-----------------------------------------------------------------------------
(* Maintenance *)

\* Until its end a handler has notified nobody, and it has not counted a fault it
\* recorded as one in maintenance.
Silent(e) ==
  /\ pc[e] # "done" => ~work[e].notified
  /\ pc[e] = "settle" /\ work[e].maint /\ ~work[e].clear => ~work[e].changed
  /\ work[e].notified /\ work[e].maint /\ ~work[e].clear =>
       work[e].answer = "error"

LEMMA UpdateIsSilent ==
  ASSUME TypeOK, NEW e \in Events, Update(e)
  PROVE  /\ work'[e].notified = work[e].notified
         /\ work'[e].maint /\ ~work'[e].clear => ~work'[e].changed
<1>1. work[e].alarm \in AlarmId /\ work[e] \in Work
  BY DEF Update, TypeOK, LocalsSet, Holding
<1>2. work[e].maint /\ ~work[e].clear =>
        faults'[work[e].alarm] = faults[work[e].alarm]
  BY <1>1 DEF Update, ApplyEvent, FaultsAfter, TypeOK
<1> DEFINE w == [work[e] EXCEPT
                   !.changed = (faults'[work[e].alarm] # faults[work[e].alarm]),
                   !.emptied = Emptied(e)]
<1>3. /\ w.notified = work[e].notified /\ w.maint = work[e].maint
      /\ w.clear = work[e].clear
      /\ w.changed = (faults'[work[e].alarm] # faults[work[e].alarm])
  BY <1>1 DEF Work
<1>4. work' = [work EXCEPT ![e] = w]
  BY DEF Update
<1> HIDE DEF w
<1>5. work'[e] = w
  BY <1>4 DEF TypeOK
<1>6. QED
  BY <1>2, <1>3, <1>5

LEMMA StepSilent ==
  ASSUME TypeOK, [Next]_vars, \A e \in Events : Silent(e)
  PROVE  \A e \in Events : Silent(e)'
<1> USE DEF Goto, Reply, TypeOK
<1>1. ASSUME NEW e \in Events, Receive(e)
      PROVE  Silent(e)'
  BY <1>1, ReceiveLocals DEF Silent
<1>2. ASSUME NEW e \in Events, HandlerStep(e) \/ HandlerFails(e)
      PROVE  Silent(e)'
  <2>1. work[e] \in Work /\ ~work[e].notified
    BY <1>2, HandlerLocals DEF OwnLocals, Silent
  <2>2. CASE Update(e)
    BY <2>1, <2>2, UpdateIsSilent DEF Silent, Update
  <2>3. CASE Settle(e)
    BY <2>1, <2>3 DEF Settle, Announce, Silent, Work
  <2>4. CASE CloseFails(e)
    BY <2>1, <2>4 DEF CloseFails, Announce, Silent, Work
  <2>5. CASE UpdateFails(e)
    BY <2>1, <2>5 DEF UpdateFails, Silent, Work
  <2>6. ASSUME \/ Lookup(e) \/ ListAlarms(e) \/ GetAlarmsNotFound(e)
               \/ GetAlarmsUnrelated(e) \/ IncrId(e) \/ SaveAlarm(e)
               \/ CommandFails(e) \/ IncrReplyLost(e) \/ SaveReplyLost(e)
        PROVE  Silent(e)'
    <3>1. work'[e].notified = work[e].notified /\ pc'[e] # "settle"
      BY <2>1, <2>6 DEF Lookup, ListAlarms, GetAlarmsNotFound, GetAlarmsUnrelated,
        IncrId, NextId, SaveAlarm, CommandFails, IncrReplyLost, SaveReplyLost, Work
    <3>2. QED
      BY <2>1, <3>1 DEF Silent
  <2>7. CASE GetAlarmsRelated(e)
    <3>1. pc'[e] # "settle" /\ work'[e].notified = work[e].notified
      BY <2>1, <2>7 DEF GetAlarmsRelated
    <3>2. QED
      BY <2>1, <3>1 DEF Silent
  <2>8. CASE CheckMaint(e)
    <3>1. pc'[e] # "settle" /\ work'[e].notified = work[e].notified
      BY <2>1, <2>8 DEF CheckMaint
    <3>2. QED
      BY <2>1, <3>1 DEF Silent
  <2>9. QED
    BY <1>2, <2>2, <2>3, <2>4, <2>5, <2>6, <2>7, <2>8 DEF HandlerStep, HandlerFails
<1>3. CASE UNCHANGED <<pc, work>>
  BY <1>3 DEF Silent
<1>4. ASSUME NEW e \in Events, Receive(e) \/ HandlerStep(e) \/ HandlerFails(e)
      PROVE  \A d \in Events : Silent(d)'
  BY <1>1, <1>2, <1>4, ReceiveLocals, HandlerLocals DEF OwnLocals, Silent
<1>5. QED
  BY <1>3, <1>4
  DEF Next, vars, Tick, RequestStep, BeginRequest, SetAlarm, DeleteAlarm, RequestFails

\* A fault event inside a maintenance window notifies nobody unless redis failed.
THEOREM MaintenanceIsSilent == Spec => []MaintFaultIsSilent
<1> DEFINE Inv == \A e \in Events : Silent(e)
<1>1. Init => Inv
  BY DEF Init, Silent, NoWork
<1>2. TypeOK /\ Inv /\ [Next]_vars => Inv'
  BY StepSilent
<1>3. Inv => MaintFaultIsSilent
  BY DEF Silent, MaintFaultIsSilent
<1>4. QED
  BY <1>1, <1>2, <1>3, TypeCorrect, PTL DEF Spec

-----------------------------------------------------------------------------
(* What a step writes *)

\* handleEvent's MULTI/EXEC touches one alarm, and only stamps its hash.
LEMMA ApplyWrites ==
  ASSUME TypeOK, NEW e \in Events, pc[e] = "update", ApplyEvent(e),
         NEW id, id = work[e].alarm
  PROVE  /\ id \in AlarmId
         /\ \A x \in AlarmId \ {id} :
              store'[x] = store[x] /\ Outstanding(x)' = Outstanding(x)
         /\ Outstanding(id)' = IF work[e].clear
                               THEN Outstanding(id) \ {work[e].probe}
                               ELSE Outstanding(id) \cup {work[e].probe}
         /\ Emptied(e) <=> work[e].clear /\ Outstanding(id)' = {}
         /\ Whole(id)' <=> Whole(id)
         /\ Whole(id) => /\ store'[id].timeLastEvent = work[e].time
                         /\ store'[id].closed = store[id].closed
                         /\ store'[id].assoc = store[id].assoc
<1>1. id \in AlarmId /\ work[e] \in Work /\ store[id] \in AlarmHash
  BY DEF TypeOK, LocalsSet, Holding
<1>2. /\ \A x \in AlarmId \ {id} : /\ faults'[x] = faults[x]
                                   /\ maintFaults'[x] = maintFaults[x]
                                   /\ store'[x] = store[x]
      /\ faults'[id] = FaultsAfter(e)[id]
      /\ maintFaults'[id] = MaintFaultsAfter(e)[id]
  BY <1>1 DEF ApplyEvent, FaultsAfter, MaintFaultsAfter, SetField, TypeOK
<1>3. /\ Outstanding(id)' = IF work[e].clear
                            THEN Outstanding(id) \ {work[e].probe}
                            ELSE Outstanding(id) \cup {work[e].probe}
      /\ Emptied(e) <=> work[e].clear /\ Outstanding(id)' = {}
  BY <1>1, <1>2 DEF Outstanding, FaultsAfter, MaintFaultsAfter, Emptied, TypeOK
<1>4. CASE Whole(id)
  <2>1. store'[id] = [store[id] EXCEPT !.timeLastEvent = work[e].time]
    BY <1>1, <1>4 DEF ApplyEvent, SetField, TypeOK
  <2>2. QED
    BY <1>1, <1>2, <1>3, <1>4, <2>1 DEF AlarmHash, Whole, Outstanding
<1>5. CASE ~Whole(id)
  <2>1. ~Whole(id)'
    BY <1>1, <1>5 DEF ApplyEvent, SetField, TypeOK, NoHash, Whole
  <2>2. QED
    BY <1>1, <1>2, <1>3, <1>5, <2>1 DEF Outstanding
<1>6. QED
  BY <1>4, <1>5

LEMMA UpdateWrites ==
  ASSUME TypeOK, NEW e \in Events, Update(e)
  PROVE  /\ index' = index /\ counter' = counter
         /\ pc[e] = "update" /\ pc'[e] = "settle" /\ ApplyEvent(e)
         /\ work'[e].alarm = work[e].alarm /\ work'[e].emptied = Emptied(e)
<1>1. work[e].alarm \in AlarmId /\ work[e] \in Work
  BY DEF Update, TypeOK, LocalsSet, Holding
<1>2. work'[e].alarm = work[e].alarm /\ work'[e].emptied = Emptied(e)
  BY <1>1 DEF Update, TypeOK, Work
<1>3. QED
  BY <1>2 DEF Update, Goto, TypeOK

\* Its second command closes the alarm.
LEMMA CloseWrites ==
  ASSUME TypeOK, NEW e \in Events, pc[e] = "settle", CloseAlarm(e),
         NEW id, id = work[e].alarm
  PROVE  /\ id \in AlarmId
         /\ \A x \in AlarmId \ {id} : store'[x] = store[x]
         /\ Whole(id)' <=> Whole(id)
         /\ Whole(id) => /\ store'[id].timeLastEvent = store[id].timeLastEvent
                         /\ store'[id].closed
                         /\ store'[id].assoc = store[id].assoc
<1>1. id \in AlarmId /\ store[id] \in AlarmHash
  BY DEF TypeOK, LocalsSet, Holding
<1>2. CASE Whole(id)
  <2>1. store' = [store EXCEPT ![id] = [store[id] EXCEPT !.closed = TRUE]]
    BY <1>1, <1>2 DEF CloseAlarm, SetField
  <2>2. QED
    BY <1>1, <1>2, <2>1 DEF AlarmHash, Whole, TypeOK
<1>3. CASE ~Whole(id)
  <2>1. (\A x \in AlarmId \ {id} : store'[x] = store[x]) /\ ~Whole(id)'
    BY <1>1, <1>3 DEF CloseAlarm, SetField, TypeOK, NoHash, Whole
  <2>2. QED
    BY <1>1, <1>3, <2>1
<1>4. QED
  BY <1>2, <1>3

LEMMA SettleWrites ==
  ASSUME TypeOK, NEW e \in Events, Settle(e)
  PROVE  /\ index' = index /\ counter' = counter
         /\ pc[e] = "settle" /\ pc'[e] = "done"
         /\ \A x \in AlarmId : Outstanding(x)' = Outstanding(x)
         /\ IF work[e].emptied THEN CloseAlarm(e) ELSE store' = store
  BY DEF Settle, Announce, Goto, TypeOK, Outstanding

\* createAlarm stores a new, open alarm.
LEMMA StoreWrites ==
  ASSUME TypeOK, NEW e \in Events, pc[e] = "save", StoreAlarm(e),
         NEW id, id = work[e].alarm
  PROVE  /\ id \in AlarmId /\ index' = index \cup {id}
         /\ \A x \in AlarmId \ {id} : store'[x] = store[x]
         /\ Open(id)' /\ store'[id].timeLastEvent = NoTime
         /\ store'[id].assoc = Association(work[e].probe)
  BY DEF StoreAlarm, TypeOK, LocalsSet, Holding, Open, Whole, NoHash

LEMMA SaveWrites ==
  ASSUME TypeOK, NEW e \in Events, SaveAlarm(e)
  PROVE  /\ counter' = counter /\ pc[e] = "save" /\ pc'[e] = "maint"
         /\ work' = work /\ StoreAlarm(e)
         /\ \A x \in AlarmId : Outstanding(x)' = Outstanding(x)
  BY DEF SaveAlarm, Goto, TypeOK, Outstanding

\* The alarms API sets a field of an alarm, ...
LEMMA SetAlarmWrites ==
  ASSUME TypeOK, NEW r \in Requests, SetAlarm(r), NEW id, id = req[r].id
  PROVE  /\ id \in AlarmId /\ index' = index /\ counter' = counter
         /\ \A x \in AlarmId \ {id} : store'[x] = store[x]
         /\ \A x \in AlarmId : Outstanding(x)' = Outstanding(x)
         /\ Whole(id)' <=> Whole(id)
         /\ Whole(id) => /\ store'[id].timeLastEvent = store[id].timeLastEvent
                         /\ store'[id].closed = IF req[r].op = "close" THEN TRUE
                                                ELSE IF req[r].op = "reopen" THEN FALSE
                                                ELSE store[id].closed
                         /\ store'[id].assoc = store[id].assoc
<1>1. id \in AlarmId /\ store[id] \in AlarmHash
  BY DEF SetAlarm, TypeOK, TargetSet
<1>2. /\ index' = index /\ counter' = counter
      /\ \A x \in AlarmId : Outstanding(x)' = Outstanding(x)
  BY DEF SetAlarm, Outstanding
<1>3. CASE Whole(id)
  BY <1>1, <1>2, <1>3 DEF SetAlarm, SetField, AlarmHash, Whole, TypeOK
<1>4. CASE ~Whole(id)
  BY <1>1, <1>2, <1>4 DEF SetAlarm, SetField, NoHash, Whole, TypeOK
<1>5. QED
  BY <1>3, <1>4

\* ... or removes it.
LEMMA DeleteWrites ==
  ASSUME TypeOK, NEW r \in Requests, DeleteAlarm(r), NEW id, id = req[r].id
  PROVE  /\ id \in AlarmId /\ index' = index \ {id} /\ counter' = counter
         /\ \A x \in AlarmId \ {id} :
              store'[x] = store[x] /\ Outstanding(x)' = Outstanding(x)
         /\ ~Whole(id)'
BY DEF DeleteAlarm, Unlist, TypeOK, TargetSet, NoHash, Whole, Outstanding

-----------------------------------------------------------------------------
(* Tending: who will close an alarm *)

NoReopen == \A r \in Requests : req[r].op # "reopen"
InHand(id) ==
  \E e \in Events : pc[e] \in {"maint", "update"} /\ work[e].alarm = id
Closing(id) ==
  \E e \in Events : pc[e] = "settle" /\ work[e].emptied /\ work[e].alarm = id
Tended(id) ==
  Whole(id) =>
    /\ store[id].timeLastEvent = NoTime => InHand(id)
    /\ NoReopen /\ ~store[id].closed /\ Outstanding(id) = {} =>
         store[id].timeLastEvent = NoTime \/ Closing(id)

\* Without failures every open alarm is tended; an event has a time, and an API
\* call that has not come in is no "reopen".
TendInv ==
  /\ \A e \in Events : pc[e] # "idle" => work[e].time # NoTime
  /\ \A r \in Requests : req[r].pc = "idle" => req[r].op = "get"
  /\ errors = 0 => \A id \in AlarmId : Tended(id)

\* A step that does not write an alarm, or only to close it.
LEMMA TendedUntouched ==
  ASSUME NEW id \in AlarmId, Tended(id), NoReopen' => NoReopen,
         InHand(id) => InHand(id)', Closing(id) => Closing(id)',
         store'[id] = store[id], Outstanding(id)' = Outstanding(id)
  PROVE  Tended(id)'
BY DEF Tended, Whole

LEMMA HandlerTends ==
  ASSUME TypeOK, TendInv, NEW e \in Events, HandlerStep(e),
         NEW id \in AlarmId, Tended(id)
  PROVE  Tended(id)'
<1> USE DEF Goto, Reply
<1>1. OwnLocals(e)
  BY HandlerLocals
<1>2. NoReopen' => NoReopen
  BY <1>1 DEF OwnLocals, NoReopen
<1>3. CASE /\ pc[e] \notin {"maint", "update", "settle"} \/ work[e].alarm # id
           /\ store'[id] = store[id] /\ Outstanding(id)' = Outstanding(id)
  BY <1>1, <1>2, <1>3, TendedUntouched DEF OwnLocals, InHand, Closing
<1>4. CASE \/ Lookup(e) \/ ListAlarms(e) \/ GetAlarmsNotFound(e)
           \/ GetAlarmsRelated(e) \/ GetAlarmsUnrelated(e) \/ IncrId(e)
  BY <1>3, <1>4 DEF Lookup, ListAlarms, GetAlarmsNotFound, GetAlarmsRelated,
     GetAlarmsUnrelated, IncrId, redisVars, Outstanding
<1>5. CASE SaveAlarm(e)
  <2>1. CASE work[e].alarm = id
    BY <1>5, <2>1, SaveWrites, StoreWrites DEF InHand, Tended
  <2>2. CASE work[e].alarm # id
    BY <1>3, <1>5, <2>2, SaveWrites, StoreWrites
  <2>3. QED
    BY <2>1, <2>2
<1>6. CASE CheckMaint(e)
  <2>1. /\ pc[e] = "maint" /\ pc'[e] = "update" /\ work'[e].alarm = work[e].alarm
        /\ store' = store /\ Outstanding(id)' = Outstanding(id)
    BY <1>6 DEF CheckMaint, TypeOK, Work, redisVars, Outstanding
  <2>2. QED
    BY <1>1, <1>2, <2>1, TendedUntouched DEF OwnLocals, InHand, Closing
<1>7. CASE Update(e)
  <2>1. work[e].time # NoTime
    BY <1>1 DEF OwnLocals, TendInv
  <2>2. CASE work[e].alarm # id
    BY <1>3, <1>7, <2>2, UpdateWrites, ApplyWrites
  <2>3. CASE work[e].alarm = id /\ Whole(id)'
    <3>1. store'[id].timeLastEvent # NoTime
      BY <1>7, <2>1, <2>3, UpdateWrites, ApplyWrites
    <3>2. Outstanding(id)' = {} => Emptied(e)
      <4>1. /\ Emptied(e) <=> work[e].clear /\ Outstanding(id)' = {}
            /\ ~work[e].clear =>
                 Outstanding(id)' = Outstanding(id) \cup {work[e].probe}
        BY <1>7, <2>3, UpdateWrites, ApplyWrites
      <4>2. QED
        BY <4>1
    <3>a. Emptied(e) => Closing(id)'
      BY <1>7, <2>3, UpdateWrites DEF Closing
    <3>3. QED
      BY <3>1, <3>2, <3>a DEF Tended
  <2>4. CASE ~Whole(id)'
    BY <2>4 DEF Tended
  <2>5. QED
    BY <2>2, <2>3, <2>4
<1>8. CASE Settle(e)
  <2>1. CASE work[e].alarm # id
    BY <1>3, <1>8, <2>1, SettleWrites, CloseWrites
  <2>2. CASE work[e].alarm = id
    <3>1. InHand(id) => InHand(id)'
      BY <1>1, <1>8, SettleWrites DEF OwnLocals, InHand
    <3>2. work[e].emptied \/ (Closing(id) => Closing(id)')
      BY <1>1, <1>8, SettleWrites DEF OwnLocals, Closing
    <3>3. Outstanding(id)' = Outstanding(id)
      BY <1>8, SettleWrites
    <3>4. CASE work[e].emptied
      <4>1. /\ Whole(id)' => Whole(id)
            /\ Whole(id) => /\ store'[id].closed
                            /\ store'[id].timeLastEvent = store[id].timeLastEvent
        BY <1>8, <2>2, <3>4, SettleWrites, CloseWrites
      <4>2. QED
        BY <1>2, <3>1, <4>1 DEF Tended
    <3>5. CASE ~work[e].emptied
      BY <1>2, <1>8, <3>1, <3>2, <3>3, <3>5, SettleWrites, TendedUntouched
    <3>6. QED
      BY <3>4, <3>5
  <2>3. QED
    BY <2>1, <2>2
<1>9. QED
  BY <1>4, <1>5, <1>6, <1>7, <1>8 DEF HandlerStep

LEMMA DoneRequest ==
  ASSUME TypeOK, NEW r \in Requests, NEW status, RequestDone(r, status)
  PROVE  /\ \A s \in Requests \ {r} : req'[s] = req[s]
         /\ req'[r].pc = "done" /\ req'[r].op = req[r].op
         /\ req'[r].id = req[r].id
<1>1. req[r] \in Request
  BY DEF TypeOK
<1>2. req'[r] = [req[r] EXCEPT !.pc = "done", !.status = status]
  BY DEF RequestDone, TypeOK
<1>3. QED
  BY <1>1, <1>2 DEF RequestDone, TypeOK, Request

LEMMA RequestTends ==
  ASSUME TypeOK, TendInv, NEW r \in Requests, RequestStep(r),
         NEW id \in AlarmId, Tended(id)
  PROVE  Tended(id)'
<1>1. /\ req[r].pc = "act" /\ UNCHANGED <<pc, work>>
      /\ \A s \in Requests : req'[s].op = req[s].op
      /\ req[r].id \in AlarmId
  <2>1. req[r].pc = "act" /\ UNCHANGED <<pc, work>> /\ Answered(r)
    BY DEF RequestStep, SetAlarm, DeleteAlarm
  <2>2. \A s \in Requests : req'[s].op = req[s].op
    BY <2>1, DoneRequest DEF Answered
  <2>3. QED
    BY <2>1, <2>2 DEF TypeOK, TargetSet
<1>2. /\ NoReopen' <=> NoReopen
      /\ InHand(id)' <=> InHand(id)
      /\ Closing(id)' <=> Closing(id)
  BY <1>1 DEF NoReopen, InHand, Closing
<1>3. CASE SetAlarm(r)
  <2>1. CASE req[r].id # id
    <3>1. store'[id] = store[id] /\ Outstanding(id)' = Outstanding(id)
      <4>1. \A x \in AlarmId \ {req[r].id} : store'[x] = store[x]
        BY <1>3, SetAlarmWrites
      <4>2. \A x \in AlarmId : Outstanding(x)' = Outstanding(x)
        BY <1>3, SetAlarmWrites
      <4>3. QED
        BY <2>1, <4>1, <4>2
    <3>2. QED
      BY <1>2, <3>1, TendedUntouched
  <2>2. CASE req[r].id = id
    BY <1>2, <1>3, <2>2, SetAlarmWrites DEF Tended, NoReopen
  <2>3. QED
    BY <2>1, <2>2
<1>4. CASE DeleteAlarm(r)
  <2>1. CASE req[r].id # id
    BY <1>2, <1>4, <2>1, DeleteWrites, TendedUntouched
  <2>2. CASE req[r].id = id
    BY <1>4, <2>2, DeleteWrites DEF Tended
  <2>3. QED
    BY <2>1, <2>2
<1>5. QED
  BY <1>3, <1>4 DEF RequestStep

LEMMA StepTends == TypeOK /\ TendInv /\ [Next]_vars => TendInv'
<1> SUFFICES ASSUME TypeOK, TendInv, [Next]_vars PROVE TendInv'
  OBVIOUS
<1>1. ASSUME NEW e \in Events, Receive(e)
      PROVE  TendInv'
  <2>1. \A id \in AlarmId : Tended(id) => Tended(id)'
    <3> TAKE id \in AlarmId
    <3>1. /\ NoReopen' <=> NoReopen
          /\ store'[id] = store[id] /\ Outstanding(id)' = Outstanding(id)
      BY <1>1 DEF Receive, redisVars, NoReopen, Outstanding
    <3>2. (InHand(id) => InHand(id)') /\ (Closing(id) => Closing(id)')
      BY <1>1, ReceiveLocals DEF InHand, Closing
    <3>3. QED
      BY <3>1, <3>2, TendedUntouched
  <2>2. QED
    BY <1>1, <2>1, ReceiveLocals DEF TendInv
<1>2. ASSUME NEW e \in Events, HandlerStep(e) \/ HandlerFails(e)
      PROVE  TendInv'
  <2>1. OwnLocals(e)
    BY <1>2, HandlerLocals
  <2>2. errors' = 0 => HandlerStep(e) /\ errors = 0
    <3>1. HandlerFails(e) => Fails
      BY DEF HandlerFails, CommandFails, IncrReplyLost, SaveReplyLost, UpdateFails,
             CloseFails
    <3>2. HandlerStep(e) => errors' = errors \/ Fails
      BY DEF HandlerStep, Lookup, ListAlarms, GetAlarmsNotFound, GetAlarmsRelated,
             GetAlarmsUnrelated, IncrId, SaveAlarm, CheckMaint, Update, Settle
    <3>3. Fails => errors' # 0
      BY DEF Fails, TypeOK
    <3>4. QED
      BY <1>2, <3>1, <3>2, <3>3
  <2>3. QED
    BY <2>1, <2>2, HandlerTends DEF OwnLocals, TendInv
<1>3. ASSUME NEW r \in Requests, BeginRequest(r) \/ RequestFails(r)
      PROVE  TendInv'
  <2>1. /\ UNCHANGED redisVars /\ UNCHANGED <<pc, work>>
        /\ errors' = 0 => errors = 0
    BY <1>3 DEF BeginRequest, RequestFails, Fails, TypeOK
  <2>2. /\ \A s \in Requests \ {r} : req'[s] = req[s]
        /\ req'[r].pc # "idle"
        /\ req[r].op # "reopen" \/ req'[r].op = "reopen"
    <3>1. CASE BeginRequest(r)
      <4>1. req[r].op = "get"
        BY <3>1 DEF BeginRequest, TendInv
      <4>2. /\ \A s \in Requests \ {r} : req'[s] = req[s]
            /\ req'[r].pc # "idle"
        BY <3>1 DEF BeginRequest, TypeOK
      <4>3. QED
        BY <4>1, <4>2
    <3>2. CASE RequestFails(r)
      BY <3>2, DoneRequest DEF RequestFails
    <3>3. QED
      BY <1>3, <3>1, <3>2
  <2>3. NoReopen' => NoReopen
    BY <2>2 DEF NoReopen
  <2>4. \A id \in AlarmId : Tended(id) => Tended(id)'
    BY <2>1, <2>3, TendedUntouched DEF redisVars, InHand, Closing, Outstanding
  <2>5. QED
    BY <2>1, <2>2, <2>4 DEF TendInv
<1>4. ASSUME NEW r \in Requests, RequestStep(r)
      PROVE  TendInv'
  <2>1. UNCHANGED <<pc, work>> /\ Answered(r)
    BY <1>4 DEF RequestStep, SetAlarm, DeleteAlarm
  <2>2. /\ \A s \in Requests \ {r} : req'[s] = req[s]
        /\ req'[r].pc # "idle"
        /\ errors' = 0 => errors = 0
    BY <2>1, DoneRequest DEF Answered, Fails, TypeOK
  <2>3. QED
    BY <1>4, <2>1, <2>2, RequestTends DEF TendInv
<1>5. ASSUME Tick \/ UNCHANGED vars PROVE TendInv'
  <2>1. UNCHANGED redisVars /\ UNCHANGED <<pc, work, req, errors>>
    BY <1>5 DEF Tick, vars
  <2>2. QED
    BY <2>1 DEF TendInv, Tended, redisVars, NoReopen, InHand, Closing, Outstanding,
       Whole
<1>6. QED
  BY <1>1, <1>2, <1>3, <1>4, <1>5 DEF Next

LEMMA InitTends == Init => TendInv
BY DEF Init, TendInv, Tended, Whole, NoHash

\* Without failures, no alarm stays open that nobody will ever close.
THEOREM OpenAlarmsAreClosed == Spec => []OpenAlarmsAreTended
<1>1. TendInv => OpenAlarmsAreTended
  BY DEF TendInv, Tended, OpenAlarmsAreTended, EmptyAlarmIsInHand,
         OpenAlarmHasFaultOrCloser, InHand, Closing, NoReopen, Open
<1>2. QED
  BY <1>1, InitTends, StepTends, TypeCorrect, PTL DEF Spec

-----------------------------------------------------------------------------
(* How a step moves the handlers and the API calls *)

\* Only these actions change what a handler listed, its alarm and what it found.
LEMMA ChoiceLocals ==
  ASSUME TypeOK, NEW e \in Events, HandlerStep(e) \/ HandlerFails(e)
  PROVE  /\ ListAlarms(e) \/ work'[e].listed = work[e].listed
         /\ GetAlarmsRelated(e) \/ IncrId(e) \/ work'[e].alarm = work[e].alarm
         /\ Update(e) \/ work'[e].emptied = work[e].emptied
<1> USE DEF Goto, Reply, TypeOK, Work
<1>1. CASE Lookup(e)
  BY <1>1 DEF Lookup
<1>2. CASE ListAlarms(e)
  BY <1>2 DEF ListAlarms
<1>3. CASE GetAlarmsNotFound(e)
  BY <1>3 DEF GetAlarmsNotFound
<1>4. CASE GetAlarmsRelated(e)
  BY <1>4 DEF GetAlarmsRelated
<1>5. CASE GetAlarmsUnrelated(e)
  BY <1>5 DEF GetAlarmsUnrelated
<1>6. CASE IncrId(e)
  BY <1>6 DEF IncrId, NextId
<1>7. CASE SaveAlarm(e)
  BY <1>7 DEF SaveAlarm
<1>8. CASE CheckMaint(e)
  BY <1>8 DEF CheckMaint
<1>9. CASE Update(e)
  BY <1>9 DEF Update
<1>10. CASE Settle(e)
  BY <1>10 DEF Settle, Announce
<1>11. CASE CommandFails(e)
  BY <1>11 DEF CommandFails
<1>12. CASE IncrReplyLost(e)
  BY <1>12 DEF IncrReplyLost
<1>13. CASE SaveReplyLost(e)
  BY <1>13 DEF SaveReplyLost
<1>14. CASE UpdateFails(e)
  BY <1>14 DEF UpdateFails
<1>15. CASE CloseFails(e)
  BY <1>15 DEF CloseFails, Announce
<1>16. QED
  BY <1>1, <1>2, <1>3, <1>4, <1>5, <1>6, <1>7, <1>8, <1>9, <1>10, <1>11, <1>12,
     <1>13, <1>14, <1>15 DEF HandlerStep, HandlerFails

\* Where a handler goes.
LEMMA NextCommand ==
  ASSUME TypeOK, NEW e \in Events, HandlerStep(e) \/ HandlerFails(e)
  PROVE  \/ Lookup(e) /\ pc[e] = "lookup" /\ pc'[e] \in {"list", "incr"}
         \/ ListAlarms(e) /\ pc[e] = "list" /\ pc'[e] = "get"
         \/ GetAlarmsRelated(e) /\ pc[e] = "get" /\ pc'[e] = "maint"
         \/ GetAlarmsUnrelated(e) /\ pc[e] = "get" /\ pc'[e] = "incr"
         \/ IncrId(e) /\ pc[e] = "incr" /\ pc'[e] = "save"
         \/ SaveAlarm(e) /\ pc[e] = "save" /\ pc'[e] = "maint"
         \/ CheckMaint(e) /\ pc[e] = "maint" /\ pc'[e] = "update"
         \/ Update(e) /\ pc[e] = "update" /\ pc'[e] = "settle"
         \/ pc'[e] = "done"
<1> USE DEF Goto, Reply, TypeOK
<1>1. CASE Lookup(e)
  BY <1>1 DEF Lookup
<1>2. CASE ListAlarms(e)
  BY <1>2 DEF ListAlarms
<1>3. CASE GetAlarmsNotFound(e)
  BY <1>3 DEF GetAlarmsNotFound
<1>4. CASE GetAlarmsRelated(e)
  BY <1>4 DEF GetAlarmsRelated
<1>5. CASE GetAlarmsUnrelated(e)
  BY <1>5 DEF GetAlarmsUnrelated
<1>6. CASE IncrId(e)
  BY <1>6 DEF IncrId
<1>7. CASE SaveAlarm(e)
  BY <1>7 DEF SaveAlarm
<1>8. CASE CheckMaint(e)
  BY <1>8 DEF CheckMaint
<1>9. CASE Update(e)
  BY <1>9 DEF Update
<1>10. CASE Settle(e)
  BY <1>10 DEF Settle, Announce
<1>11. CASE CommandFails(e)
  BY <1>11 DEF CommandFails
<1>12. CASE IncrReplyLost(e)
  BY <1>12 DEF IncrReplyLost
<1>13. CASE SaveReplyLost(e)
  BY <1>13 DEF SaveReplyLost
<1>14. CASE UpdateFails(e)
  BY <1>14 DEF UpdateFails
<1>15. CASE CloseFails(e)
  BY <1>15 DEF CloseFails, Announce
<1>16. QED
  BY <1>1, <1>2, <1>3, <1>4, <1>5, <1>6, <1>7, <1>8, <1>9, <1>10, <1>11, <1>12,
     <1>13, <1>14, <1>15 DEF HandlerStep, HandlerFails

LEMMA BeginLocals ==
  ASSUME TypeOK, NEW r \in Requests, BeginRequest(r)
  PROVE  /\ UNCHANGED <<now, redisVars, pc, work, errors>> /\ req[r].pc = "idle"
         /\ \A s \in Requests \ {r} : req'[s] = req[s]
  BY DEF BeginRequest, TypeOK

LEMMA RequestLocals ==
  ASSUME TypeOK, NEW r \in Requests, RequestStep(r)
  PROVE  /\ UNCHANGED <<pc, work>> /\ req[r].pc = "act"
         /\ req'[r].pc = "done" /\ req'[r].op = req[r].op /\ req'[r].id = req[r].id
         /\ \A s \in Requests \ {r} : req'[s] = req[s]
<1>1. UNCHANGED <<pc, work>> /\ req[r].pc = "act" /\ Answered(r)
  BY DEF RequestStep, SetAlarm, DeleteAlarm
<1>2. QED
  BY <1>1, DoneRequest DEF Answered

\* Every step is one handler's, one API call's, or changes neither kind.
Moved(e) == /\ \A d \in Events \ {e} : pc'[d] = pc[d] /\ work'[d] = work[d]
            /\ req' = req
LEMMA WhoMoves ==
  ASSUME TypeOK, [Next]_vars
  PROVE  \/ UNCHANGED <<redisVars, pc, work, req>>
         \/ \E e \in Events : Receive(e) /\ Moved(e)
         \/ \E e \in Events : (HandlerStep(e) \/ HandlerFails(e)) /\ Moved(e)
         \/ \E r \in Requests :
              /\ BeginRequest(r) \/ RequestStep(r) \/ RequestFails(r)
              /\ UNCHANGED <<pc, work>>
<1>1. Tick \/ UNCHANGED vars => UNCHANGED <<redisVars, pc, work, req>>
  BY DEF Tick, vars
<1>2. ASSUME NEW e \in Events, Receive(e) PROVE Moved(e)
  BY <1>2, ReceiveLocals DEF Moved
<1>3. ASSUME NEW e \in Events, HandlerStep(e) \/ HandlerFails(e) PROVE Moved(e)
  BY <1>3, HandlerLocals DEF Moved, OwnLocals
<1>4. ASSUME NEW r \in Requests, BeginRequest(r) \/ RequestStep(r) \/ RequestFails(r)
      PROVE  UNCHANGED <<pc, work>>
  BY <1>4, BeginLocals, RequestLocals DEF RequestFails
<1>5. QED
  BY <1>1, <1>2, <1>3, <1>4 DEF Next

-----------------------------------------------------------------------------
(* What a step does to one alarm *)

UserCalled(op, id) == \E r \in Requests : req[r].op = op /\ req[r].id = id

\* An alarm is born open, without an event, from a creator; then only an event
\* stamps it or adds a fault, a user reopens it, a clear or a user closes it.
AlarmMoves(id) ==
  /\ Whole(id)' /\ ~Whole(id) =>
       /\ Open(id)' /\ id \in index' /\ store'[id].timeLastEvent = NoTime
       /\ \E e \in Events :
            /\ pc[e] = "save" /\ work[e].alarm = id
            /\ store'[id].assoc = Association(work[e].probe)
  /\ Whole(id)' /\ Whole(id) =>
       /\ store'[id].assoc = store[id].assoc
       /\ id \in index => id \in index'
       /\ \/ store'[id].timeLastEvent = store[id].timeLastEvent
          \/ \E e \in Events :
               /\ pc[e] = "update" /\ work[e].alarm = id
               /\ store'[id].timeLastEvent = work[e].time
       /\ store[id].closed => store'[id].closed \/ UserCalled("reopen", id)
       /\ store'[id].closed => \/ store[id].closed \/ UserCalled("close", id)
                               \/ Closing(id)
  /\ \A p \in Outstanding(id)' :
       \/ p \in Outstanding(id)
       \/ \E e \in Events : /\ pc[e] = "update" /\ work[e].alarm = id
                            /\ work[e].probe = p /\ ~work[e].clear

LEMMA Untouched ==
  ASSUME NEW id \in AlarmId, store'[id] = store[id],
         \A p \in Outstanding(id)' : p \in Outstanding(id),
         id \in index => id \in index'
  PROVE  AlarmMoves(id)
  BY DEF AlarmMoves, Whole

LEMMA HandlerMoves ==
  ASSUME TypeOK, StoreInv, NEW e \in Events, HandlerStep(e) \/ HandlerFails(e),
         NEW id \in AlarmId
  PROVE  AlarmMoves(id)
<1>1. ASSUME pc[e] = "update", ApplyEvent(e), index' = index PROVE AlarmMoves(id)
  <2>1. CASE work[e].alarm # id
    BY <1>1, <2>1, ApplyWrites, Untouched
  <2>2. CASE work[e].alarm = id
    <3>1. /\ Whole(id)' <=> Whole(id)
          /\ Outstanding(id)' = IF work[e].clear
                                THEN Outstanding(id) \ {work[e].probe}
                                ELSE Outstanding(id) \cup {work[e].probe}
          /\ Whole(id) => /\ store'[id].timeLastEvent = work[e].time
                          /\ store'[id].closed = store[id].closed
                          /\ store'[id].assoc = store[id].assoc
      BY <1>1, <2>2, ApplyWrites
    <3>2. QED
      BY <1>1, <2>2, <3>1 DEF AlarmMoves
  <2>3. QED
    BY <2>1, <2>2
<1>2. ASSUME pc[e] = "settle", work[e].emptied, CloseAlarm(e), index' = index,
             Outstanding(id)' = Outstanding(id)
      PROVE  AlarmMoves(id)
  <2>1. CASE work[e].alarm # id
    BY <1>2, <2>1, CloseWrites, Untouched
  <2>2. CASE work[e].alarm = id
    BY <1>2, <2>2, CloseWrites DEF AlarmMoves, Closing
  <2>3. QED
    BY <2>1, <2>2
<1>3. ASSUME pc[e] = "save", StoreAlarm(e), Outstanding(id)' = Outstanding(id)
      PROVE  AlarmMoves(id)
  <2>1. CASE work[e].alarm # id
    BY <1>3, <2>1, StoreWrites, Untouched
  <2>2. CASE work[e].alarm = id
    <3>1. ~Whole(id)
      BY <1>3, <2>2 DEF StoreInv, FreshIdsUnused, NotYetStored, InCreation, Creating,
                        Exists, Whole
    <3>2. QED
      BY <1>3, <2>2, <3>1, StoreWrites DEF AlarmMoves
  <2>3. QED
    BY <2>1, <2>2
<1>4. CASE store' = store /\ index' = index /\ Outstanding(id)' = Outstanding(id)
  BY <1>4, Untouched
<1>5. CASE Update(e)
  BY <1>1, <1>5, UpdateWrites
<1>6. CASE UpdateFails(e)
  BY <1>1, <1>4, <1>6 DEF UpdateFails, Outstanding
<1>7. CASE Settle(e)
  BY <1>2, <1>4, <1>7, SettleWrites
<1>8. CASE CloseFails(e)
  BY <1>2, <1>4, <1>8 DEF CloseFails, Outstanding
<1>9. CASE SaveAlarm(e)
  BY <1>3, <1>9, SaveWrites
<1>10. CASE SaveReplyLost(e)
  BY <1>3, <1>10 DEF SaveReplyLost, Outstanding
<1>11. QED
  BY <1>4, <1>5, <1>6, <1>7, <1>8, <1>9, <1>10
  DEF HandlerStep, HandlerFails, Lookup, ListAlarms, GetAlarmsNotFound, GetAlarmsRelated,
      GetAlarmsUnrelated, IncrId, CheckMaint, CommandFails, IncrReplyLost, redisVars,
      Outstanding

LEMMA RequestMoves ==
  ASSUME TypeOK, NEW r \in Requests, RequestStep(r), NEW id \in AlarmId
  PROVE  AlarmMoves(id)
<1>1. CASE SetAlarm(r)
  <2>1. CASE req[r].id # id
    <3>1. /\ \A x \in AlarmId \ {req[r].id} : store'[x] = store[x]
          /\ \A x \in AlarmId : Outstanding(x)' = Outstanding(x)
          /\ index' = index
      BY <1>1, SetAlarmWrites
    <3>2. QED
      BY <2>1, <3>1, Untouched
  <2>2. CASE req[r].id = id
    <3>1. /\ index' = index /\ Outstanding(id)' = Outstanding(id)
          /\ Whole(id)' <=> Whole(id)
          /\ Whole(id) => /\ store'[id].timeLastEvent = store[id].timeLastEvent
                          /\ store'[id].closed = IF req[r].op = "close" THEN TRUE
                                                 ELSE IF req[r].op = "reopen" THEN FALSE
                                                 ELSE store[id].closed
                          /\ store'[id].assoc = store[id].assoc
      BY <1>1, <2>2, SetAlarmWrites
    <3>2. CASE req[r].op = "close"
      BY <2>2, <3>1, <3>2 DEF AlarmMoves, UserCalled
    <3>3. CASE req[r].op = "reopen"
      BY <2>2, <3>1, <3>3 DEF AlarmMoves, UserCalled
    <3>4. CASE req[r].op \notin {"close", "reopen"}
      BY <2>2, <3>1, <3>4 DEF AlarmMoves
    <3>5. QED
      BY <3>2, <3>3, <3>4
  <2>3. QED
    BY <2>1, <2>2
<1>2. CASE DeleteAlarm(r)
  <2>1. CASE req[r].id # id
    BY <1>2, <2>1, DeleteWrites, Untouched
  <2>2. CASE req[r].id = id
    <3>1. ~Whole(id)' /\ Outstanding(id)' = {}
      BY <1>2, <2>2 DEF DeleteAlarm, TypeOK, NoHash, Whole, Outstanding
    <3>2. QED
      BY <3>1 DEF AlarmMoves
  <2>3. QED
    BY <2>1, <2>2
<1>3. QED
  BY <1>1, <1>2 DEF RequestStep

LEMMA StepMoves ==
  ASSUME TypeOK, StoreInv, [Next]_vars, NEW id \in AlarmId
  PROVE  AlarmMoves(id)
<1>1. UNCHANGED redisVars => AlarmMoves(id)
  BY Untouched DEF redisVars, Outstanding
<1>2. QED
  BY <1>1, WhoMoves, HandlerMoves, RequestMoves, ReceiveLocals, BeginLocals
  DEF RequestFails

-----------------------------------------------------------------------------
(* What holds of every handler *)

Maker(e) == work[e].alarm # NoAlarm /\ work[e].alarm \notin work[e].listed
\* It gets its alarm at the end of its search, knows only ids that were drawn, and
\* finds an alarm emptied only by its own update; the events it calls earlier were
\* answered.
HandOK(e) ==
  /\ pc[e] \in {"idle", "lookup", "list", "get", "incr"} => work[e].alarm = NoAlarm
  /\ work[e].alarm <= counter /\ \A id \in work[e].listed : id <= counter
  /\ pc[e] = "save" => Maker(e)
  /\ work[e].emptied => pc[e] \in {"settle", "done"}
  /\ \A d \in work[e].earlier : pc[d] = "done"
\* No alarm has two makers.
Hands ==
  /\ \A e \in Events : HandOK(e)
  /\ \A d, e \in Events :
       Maker(d) /\ Maker(e) /\ work[d].alarm = work[e].alarm => d = e

\* The three steps that fill what a handler listed and its alarm.
LEMMA Picks ==
  ASSUME TypeOK, NEW e \in Events
  PROVE  /\ ListAlarms(e) => work'[e].listed = index /\ redisVars' = redisVars
         /\ GetAlarmsRelated(e) => /\ work'[e].alarm \in Related(e)
                                   /\ work'[e].listed = work[e].listed
                                   /\ redisVars' = redisVars
         /\ IncrId(e) => /\ work'[e].alarm = counter + 1 /\ counter' = counter + 1
                         /\ work'[e].listed = work[e].listed
<1>1. ListAlarms(e) => work'[e].listed = index /\ redisVars' = redisVars
  BY DEF ListAlarms, TypeOK, Work, redisVars
<1>2. ASSUME GetAlarmsRelated(e)
      PROVE  /\ work'[e].alarm \in Related(e) /\ work'[e].listed = work[e].listed
             /\ redisVars' = redisVars
  <2>1. PICK a \in Related(e) :
          work' = [work EXCEPT ![e] = [@ EXCEPT !.alarm = a,
                                                !.muted = store[a].suppressed]]
    BY <1>2 DEF GetAlarmsRelated
  <2>2. work[e] \in Work
    BY DEF TypeOK
  <2>3. work'[e].alarm = a /\ work'[e].listed = work[e].listed
    BY <2>1, <2>2 DEF TypeOK, Work
  <2>4. QED
    BY <1>2, <2>3 DEF GetAlarmsRelated, redisVars
<1>3. IncrId(e) => /\ work'[e].alarm = counter + 1 /\ counter' = counter + 1
                   /\ work'[e].listed = work[e].listed
  BY DEF IncrId, NextId, TypeOK, Work
<1>4. QED
  BY <1>1, <1>2, <1>3

LEMMA RelatedIsListed ==
  ASSUME NEW e \in Events, NEW id \in Related(e)
  PROVE  /\ id \in work[e].listed /\ Open(id) /\ store[id].timeLastEvent # NoTime
         /\ store[id].assoc = Association(work[e].probe)
  BY DEF Related, MostRecent, Candidates, Open

LEMMA CounterGrows ==
  ASSUME TypeOK, [Next]_vars
  PROVE  counter' = counter \/ counter' = counter + 1
  BY DEF Next, vars, redisVars, Tick, HandlerStep, HandlerFails, RequestStep, Receive,
      Lookup, ListAlarms, GetAlarmsNotFound, GetAlarmsRelated, GetAlarmsUnrelated,
      IncrId, NextId, SaveAlarm, CheckMaint, Update, Settle, CommandFails, IncrReplyLost,
      SaveReplyLost, UpdateFails, CloseFails, BeginRequest, SetAlarm, DeleteAlarm,
      RequestFails

LEMMA StepHand ==
  ASSUME TypeOK, StoreInv, Hands, [Next]_vars, NEW e \in Events,
         HandlerStep(e) \/ HandlerFails(e)
  PROVE  HandOK(e)'
<1>1. HandOK(e) /\ work[e] \in Work /\ counter \in Nat /\ work'[e].earlier = work[e].earlier
  BY HandlerLocals DEF OwnLocals, Hands, TypeOK
<1>2. \A id \in index : id <= counter
  BY DEF StoreInv, FreshIdsUnused, NotYetStored, TypeOK, AlarmId
<1>3. \A d \in work[e].earlier : pc'[d] = "done"
  BY <1>1, HandlerLocals DEF OwnLocals, HandOK, TypeOK, Work
<1>4. \A id \in work'[e].listed : id <= counter'
  <2>1. work'[e].listed = index \/ work'[e].listed = work[e].listed
    BY Picks, ChoiceLocals
  <2>2. \A id \in work'[e].listed : id <= counter /\ id \in Int
    BY <1>1, <1>2, <2>1 DEF HandOK, TypeOK, Work, AlarmId
  <2>3. QED
    BY <1>1, <2>2, CounterGrows
<1>5. work'[e].alarm <= counter'
  <2>1. CASE GetAlarmsRelated(e)
    <3>1. work'[e].alarm \in work[e].listed
      BY <2>1, Picks, RelatedIsListed
    <3>2. work'[e].alarm <= counter /\ work'[e].alarm \in Int
      BY <1>1, <3>1 DEF HandOK, Work, AlarmId
    <3>3. QED
      BY <1>1, <3>2, CounterGrows
  <2>2. CASE IncrId(e)
    BY <1>1, <2>2, Picks
  <2>3. CASE work'[e].alarm = work[e].alarm
    <3>1. work[e].alarm <= counter /\ work[e].alarm \in Int
      BY <1>1 DEF HandOK, Work, AlarmId, NoAlarm
    <3>2. QED
      BY <1>1, <2>3, <3>1, CounterGrows
  <2>4. QED
    BY <2>1, <2>2, <2>3, ChoiceLocals
<1>6. pc'[e] = "save" => Maker(e)'
  <2>1. ASSUME IncrId(e) PROVE Maker(e)'
    <3>1. counter + 1 # NoAlarm /\ counter + 1 \notin work[e].listed
      BY <1>1 DEF HandOK, NoAlarm
    <3>2. QED
      BY <2>1, <3>1, Picks DEF Maker
  <2>2. QED
    BY <2>1, NextCommand
<1>7. pc'[e] \in {"idle", "lookup", "list", "get", "incr"} => work'[e].alarm = NoAlarm
  <2>1. ASSUME pc'[e] \in {"idle", "lookup", "list", "get", "incr"}
        PROVE  /\ pc[e] \in {"lookup", "list", "get"}
               /\ ~GetAlarmsRelated(e) /\ ~IncrId(e)
    BY <2>1, NextCommand, HandlerLocals DEF OwnLocals, IncrId, GetAlarmsRelated, Goto, TypeOK
  <2>2. QED
    BY <1>1, <2>1, ChoiceLocals DEF HandOK
<1>8. work'[e].emptied => pc'[e] \in {"settle", "done"}
  <2>1. CASE Update(e)
    BY <2>1, UpdateWrites
  <2>2. CASE ~Update(e)
    <3>1. pc[e] = "settle" => pc'[e] = "done"
      BY NextCommand
    <3>2. QED
      BY <1>1, <2>2, <3>1, ChoiceLocals, HandlerLocals DEF HandOK, OwnLocals
  <2>3. QED
    BY <2>1, <2>2
<1>9. QED
  BY <1>1, <1>3, <1>4, <1>5, <1>6, <1>7, <1>8 DEF HandOK

LEMMA StepHands ==
  ASSUME TypeOK, StoreInv, Hands, [Next]_vars
  PROVE  Hands'
<1>1. ASSUME NEW e \in Events, pc'[e] = pc[e], work'[e] = work[e],
             \A d \in Events : pc[d] = "done" => pc'[d] = "done"
      PROVE  HandOK(e)'
  <2>1. /\ HandOK(e) /\ counter \in Nat /\ work[e] \in Work
        /\ counter' = counter \/ counter' = counter + 1
    BY CounterGrows DEF Hands, TypeOK
  <2>2. work[e].alarm \in Int /\ work[e].earlier \subseteq Events
        /\ \A id \in work[e].listed : id \in Int
    BY <2>1 DEF Work, AlarmId, NoAlarm
  <2>3. QED
    BY <1>1, <2>1, <2>2 DEF HandOK, Maker
<1>2. CASE UNCHANGED <<pc, work>>
  <2>1. \A e \in Events : HandOK(e)'
    BY <1>1, <1>2
  <2>2. QED
    BY <1>2, <2>1 DEF Hands, Maker
<1>3. ASSUME NEW e \in Events, Receive(e) PROVE Hands'
  <2>1. \A d \in Events : pc[d] = "done" => pc'[d] = "done"
    BY <1>3, ReceiveLocals
  <2>2. HandOK(e)'
    <3>1. counter' \in Nat /\ NoAlarm <= counter'
      BY <1>3 DEF Receive, redisVars, TypeOK, NoAlarm
    <3>2. \A d \in work'[e].earlier : pc'[d] = "done"
      BY <1>3, <2>1, ReceiveLocals
    <3>3. QED
      BY <1>3, <3>1, <3>2, ReceiveLocals DEF HandOK
  <2>3. \A d \in Events : HandOK(d)'
    BY <1>1, <1>3, <2>1, <2>2, ReceiveLocals
  <2>4. ~Maker(e)' /\ \A d \in Events \ {e} : work'[d] = work[d]
    BY <1>3, ReceiveLocals DEF Maker
  <2>5. QED
    BY <2>3, <2>4 DEF Hands, Maker
<1>4. ASSUME NEW e \in Events, HandlerStep(e) \/ HandlerFails(e) PROVE Hands'
  <2>1. OwnLocals(e)
    BY <1>4, HandlerLocals
  <2>2. \A d \in Events : HandOK(d)'
    BY <1>1, <1>4, <2>1, StepHand DEF OwnLocals
  <2>3. \/ ~Maker(e)'
        \/ Maker(e) /\ work'[e].alarm = work[e].alarm
        \/ \A d \in Events : work[d].alarm # work'[e].alarm
    <3>1. CASE ListAlarms(e)
      <4>1. work'[e].alarm = NoAlarm
        <5>1. work[e].alarm = NoAlarm /\ pc[e] = "list"
          BY <3>1 DEF ListAlarms, Hands, HandOK
        <5>2. QED
          BY <1>4, <3>1, <5>1, ChoiceLocals DEF ListAlarms, IncrId, GetAlarmsRelated
      <4>2. QED
        BY <4>1 DEF Maker
    <3>2. CASE GetAlarmsRelated(e)
      BY <3>2, Picks, RelatedIsListed DEF Maker
    <3>3. CASE IncrId(e)
      <4>1. \A d \in Events : work[d].alarm # counter + 1
        BY DEF Hands, HandOK, TypeOK
      <4>2. QED
        BY <3>3, <4>1, Picks
    <3>4. QED
      BY <1>4, <3>1, <3>2, <3>3, ChoiceLocals DEF Maker
  <2>4. \A d \in Events \ {e} : work'[d] = work[d]
    BY <2>1 DEF OwnLocals
  <2>5. QED
    BY <2>2, <2>3, <2>4 DEF Hands, Maker
<1>5. QED
  BY <1>2, <1>3, <1>4, WhoMoves

LEMMA InitHands == Init => Hands
  BY DEF Init, Hands, HandOK, Maker, NoWork, NoAlarm

-----------------------------------------------------------------------------
(* What a step keeps of the handlers and the API calls *)

\* An event keeps what it is, a handler that has its alarm keeps it.
LEMMA EventKept ==
  ASSUME TypeOK, Hands, [Next]_vars, NEW e \in Events, pc[e] # "idle"
  PROVE  /\ work'[e].probe = work[e].probe /\ work'[e].clear = work[e].clear
         /\ work'[e].time = work[e].time /\ work'[e].earlier = work[e].earlier
         /\ pc[e] = "done" => pc'[e] = "done" /\ work'[e] = work[e]
         /\ work[e].alarm # NoAlarm => /\ work'[e].alarm = work[e].alarm
                                       /\ work'[e].listed = work[e].listed
         /\ work[e].emptied => work'[e].emptied
<1>1. CASE pc'[e] = pc[e] /\ work'[e] = work[e]
  BY <1>1
<1>2. CASE HandlerStep(e) \/ HandlerFails(e)
  <2>1. OwnLocals(e)
    BY <1>2, HandlerLocals
  <2>2. /\ ListAlarms(e) => pc[e] = "list"
        /\ GetAlarmsRelated(e) => pc[e] = "get"
        /\ IncrId(e) => pc[e] = "incr"
        /\ Update(e) => pc[e] = "update"
    BY DEF ListAlarms, GetAlarmsRelated, IncrId, Update
  <2>3. work[e].alarm # NoAlarm => pc[e] \notin {"list", "get", "incr"}
    BY DEF Hands, HandOK
  <2>4. work[e].emptied => pc[e] # "update"
    BY DEF Hands, HandOK
  <2>5. QED
    BY <1>2, <2>1, <2>2, <2>3, <2>4, ChoiceLocals DEF OwnLocals
<1>3. ASSUME NEW d \in Events, Receive(d) PROVE d # e
  BY <1>3, ReceiveLocals
<1>4. QED
  BY <1>1, <1>2, <1>3, WhoMoves DEF Moved

\* A user's call keeps its operation and its alarm.
LEMMA CallKept ==
  ASSUME TypeOK, TendInv, [Next]_vars, NEW op \in {"close", "reopen"}, NEW id \in AlarmId,
         UserCalled(op, id)
  PROVE  UserCalled(op, id)'
<1>1. PICK r \in Requests : req[r].op = op /\ req[r].id = id
  BY DEF UserCalled
<1>2. req[r].pc # "idle"
  BY <1>1 DEF TendInv
<1>3. req'[r].op = req[r].op /\ req'[r].id = req[r].id
  <2>1. ASSUME NEW s \in Requests, BeginRequest(s) PROVE req'[r] = req[r]
    BY <1>2, <2>1, BeginLocals
  <2>2. ASSUME NEW s \in Requests, RequestFails(s)
        PROVE  req'[r].op = req[r].op /\ req'[r].id = req[r].id
    BY <2>2, DoneRequest DEF RequestFails
  <2>3. ASSUME NEW s \in Requests, RequestStep(s)
        PROVE  req'[r].op = req[r].op /\ req'[r].id = req[r].id
    BY <2>3, RequestLocals
  <2>4. ASSUME NEW d \in Events, Receive(d) PROVE req' = req
    BY <2>4, ReceiveLocals
  <2>5. QED
    BY <2>1, <2>2, <2>3, <2>4, WhoMoves DEF Moved
<1>4. QED
  BY <1>1, <1>3 DEF UserCalled

\* An id that was not drawn has no alarm.
LEMMA DrawnFirst ==
  ASSUME TypeOK, StoreInv, NEW id \in AlarmId, Whole(id)
  PROVE  id <= counter /\ ~InCreation(id)
  BY DEF StoreInv, FreshIdsUnused, NotYetStored, Exists, Whole, TypeOK, AlarmId

\* A handler that has a new alarm of its own, or a new alarm at all.
LEMMA NewMaker ==
  ASSUME TypeOK, StoreInv, Hands, [Next]_vars, NEW e \in Events,
         NEW id \in AlarmId, work'[e].alarm = id, Whole(id) \/ Whole(id)'
  PROVE  /\ \/ work'[e].alarm = work[e].alarm
            \/ GetAlarmsRelated(e) /\ ~Maker(e)'
         /\ Maker(e)' => Maker(e) /\ work'[e].alarm = work[e].alarm
<1>1. pc[e] = "idle" => work'[e].alarm = NoAlarm
  <2>1. ASSUME NEW d \in Events, Receive(d), pc[e] = "idle" PROVE work'[e].alarm = NoAlarm
    <3>1. work[e].alarm = NoAlarm
      BY <2>1 DEF Hands, HandOK
    <3>2. QED
      BY <2>1, <3>1, ReceiveLocals
  <2>2. ASSUME NEW d \in Events, HandlerStep(d) \/ HandlerFails(d), pc[e] = "idle"
        PROVE  work'[e] = work[e]
    BY <2>2, HandlerLocals DEF OwnLocals
  <2>3. pc[e] = "idle" => work[e].alarm = NoAlarm
    BY DEF Hands, HandOK
  <2>4. QED
    BY <2>1, <2>2, <2>3, WhoMoves
<1>2. pc[e] # "idle"
  BY <1>1 DEF NoAlarm, AlarmId
<1>3. CASE work[e].alarm # NoAlarm
  BY <1>2, <1>3, EventKept DEF Maker
<1>4. CASE work[e].alarm = NoAlarm
  <2>1. work'[e].alarm # work[e].alarm
    BY <1>4 DEF NoAlarm, AlarmId
  <2>2. HandlerStep(e) \/ HandlerFails(e)
    BY <1>2, <2>1, WhoMoves, ReceiveLocals DEF Moved
  <2>3. CASE IncrId(e)
    <3>1. work'[e].alarm = counter + 1 /\ store' = store /\ counter \in Nat
      BY <2>3, Picks DEF IncrId, TypeOK
    <3>2. ~Whole(id) /\ ~Whole(id)'
      <4>1. ~Whole(id)
        BY <3>1, DrawnFirst
      <4>2. QED
        BY <3>1, <4>1 DEF Whole
    <3>3. QED
      BY <3>2
  <2>4. CASE GetAlarmsRelated(e)
    BY <2>4, Picks, RelatedIsListed DEF Maker
  <2>5. QED
    BY <2>1, <2>2, <2>3, <2>4, ChoiceLocals
<1>5. QED
  BY <1>3, <1>4

\* An alarm that had no event yet is in the hands of its maker only.
LEMMA InHandSince ==
  ASSUME TypeOK, Hands, [Next]_vars, NEW e \in Events, pc'[e] \in {"maint", "update"}
  PROVE  \/ pc[e] \in {"maint", "update"}
         \/ GetAlarmsRelated(e)
         \/ pc[e] = "save" /\ Maker(e)
<1>1. ASSUME NEW d \in Events, Receive(d) PROVE pc'[e] = pc[e]
  BY <1>1, ReceiveLocals
<1>2. pc[e] = "save" => Maker(e)
  BY DEF Hands, HandOK
<1>3. QED
  BY <1>1, <1>2, WhoMoves, NextCommand DEF Moved

-----------------------------------------------------------------------------
(* One open alarm *)

\* A stored alarm is listed and stands for its maker's probe; the time on it is that
\* of an event it got, and until it got one only its maker has it in hand.
Life(id) ==
  Whole(id) =>
    /\ id \in index
    /\ store[id].timeLastEvent # NoTime =>
         \E x \in Events : work[x].alarm = id /\ work[x].time = store[id].timeLastEvent
    /\ store[id].timeLastEvent = NoTime =>
         \A x \in Events :
           pc[x] \in {"maint", "update"} /\ work[x].alarm = id => Maker(x)
    /\ \A x \in Events :
         Maker(x) /\ work[x].alarm = id =>
           store[id].assoc = Association(work[x].probe)

LEMMA BirthLife ==
  ASSUME TypeOK, StoreInv, TendInv, Hands, [Next]_vars, NEW id \in AlarmId, ~Whole(id)
  PROVE  Life(id)'
<1> SUFFICES ASSUME Whole(id)' PROVE Life(id)'
  BY DEF Life
<1>1. id \in index' /\ store'[id].timeLastEvent = NoTime
  BY StepMoves DEF AlarmMoves
<1>2. PICK m \in Events : /\ pc[m] = "save" /\ work[m].alarm = id
                          /\ store'[id].assoc = Association(work[m].probe)
  BY StepMoves DEF AlarmMoves
<1>3. Maker(m)
  BY <1>2 DEF Hands, HandOK
<1>4. ASSUME NEW x \in Events, pc'[x] \in {"maint", "update"}, work'[x].alarm = id
      PROVE  Maker(x)'
  <2>1. /\ work[x].alarm = id
        /\ pc[x] \in {"maint", "update"} \/ (pc[x] = "save" /\ Maker(x))
    <3>1. ~GetAlarmsRelated(x)
      <4>1. GetAlarmsRelated(x) => Open(id)
        BY <1>4, Picks, RelatedIsListed
      <4>2. QED
        BY <4>1 DEF Open
    <3>2. QED
      BY <1>4, <3>1, NewMaker, InHandSince
  <2>2. pc[x] \notin {"maint", "update"}
    BY <1>2, <2>1 DEF StoreInv, FreshIdsUnknown, Chosen, NotYetStored, InCreation, Creating
  <2>3. QED
    BY <2>1, <2>2, EventKept DEF Maker
<1>5. ASSUME NEW x \in Events, Maker(x)', work'[x].alarm = id
      PROVE  store'[id].assoc = Association(work'[x].probe)
  <2>1. Maker(x) /\ work[x].alarm = id
    BY <1>5, NewMaker
  <2>2. x = m
    BY <1>2, <1>3, <2>1 DEF Hands
  <2>3. QED
    BY <1>2, <2>2, EventKept
<1>6. QED
  BY <1>1, <1>4, <1>5 DEF Life

LEMMA StepLife ==
  ASSUME TypeOK, StoreInv, TendInv, Hands, [Next]_vars, NEW id \in AlarmId, Life(id)
  PROVE  Life(id)'
<1> SUFFICES ASSUME Whole(id)', Whole(id) PROVE Life(id)'
  BY BirthLife DEF Life
<1>1. /\ id \in index' /\ store'[id].assoc = store[id].assoc
      /\ \/ store'[id].timeLastEvent = store[id].timeLastEvent
         \/ \E e \in Events :
              /\ pc[e] = "update" /\ work[e].alarm = id
              /\ store'[id].timeLastEvent = work[e].time
  BY StepMoves DEF AlarmMoves, Life
<1>2. ASSUME NEW x \in Events, work[x].alarm = id
      PROVE  /\ pc[x] # "idle" /\ work'[x].alarm = id /\ work'[x].time = work[x].time
             /\ work'[x].listed = work[x].listed /\ work'[x].probe = work[x].probe
  <2>1. pc[x] # "idle" /\ work[x].alarm # NoAlarm
    BY <1>2 DEF Hands, HandOK, AlarmId, NoAlarm
  <2>2. QED
    BY <1>2, <2>1, EventKept
<1>3. store'[id].timeLastEvent # NoTime =>
        \E x \in Events : work'[x].alarm = id /\ work'[x].time = store'[id].timeLastEvent
  BY <1>1, <1>2 DEF Life
<1>4. ASSUME store'[id].timeLastEvent = NoTime, NEW x \in Events,
             pc'[x] \in {"maint", "update"}, work'[x].alarm = id
      PROVE  Maker(x)'
  <2>1. store[id].timeLastEvent = NoTime
    BY <1>1, <1>4 DEF TendInv
  <2>2. ~GetAlarmsRelated(x)
    <3>1. GetAlarmsRelated(x) => store[id].timeLastEvent # NoTime
      BY <1>4, Picks, RelatedIsListed
    <3>2. QED
      BY <2>1, <3>1
  <2>3. work[x].alarm = id /\ Maker(x)
    BY <1>4, <2>1, <2>2, NewMaker, InHandSince DEF Life
  <2>4. QED
    BY <1>2, <2>3 DEF Maker
<1>5. ASSUME NEW x \in Events, Maker(x)', work'[x].alarm = id
      PROVE  store'[id].assoc = Association(work'[x].probe)
  <2>1. Maker(x) /\ work[x].alarm = id
    BY <1>5, NewMaker
  <2>2. QED
    BY <1>1, <1>2, <2>1 DEF Life
<1>6. QED
  BY <1>1, <1>3, <1>4, <1>5 DEF Life

-----------------------------------------------------------------------------
(* Why an event passes over an open alarm *)

LEMMA LeastOf ==
  ASSUME NEW S, S \subseteq Nat, S # {}
  PROVE  \E x \in S : \A y \in S : x <= y
<1> DEFINE R == OpToRel(<, Nat)
<1>1. IsWellFoundedOn(R, Nat)
  BY NatLessThanWellFounded
<1>2. \A x, y \in Nat : x < y => <<x, y>> \in R
  BY DEF OpToRel
<1> HIDE DEF R
<1>3. PICK x \in S : \A y \in S : ~(<<y, x>> \in R)
  BY <1>1, WFMin
<1>4. ASSUME NEW y \in S PROVE x <= y
  <2>1. x \in Nat /\ y \in Nat
    BY <1>3, <1>4
  <2>2. ~(y < x)
    BY <1>2, <1>3, <2>1
  <2>3. QED
    BY <2>1, <2>2
<1>5. QED
  BY <1>4

\* chooseRelatedAlarm always has a first candidate, if it has any.
LEMMA SomeMostRecent ==
  ASSUME TypeOK, NEW e \in Events, Candidates(e) # {}
  PROVE  MostRecent(e) # {}
<1> DEFINE Age(a) == MaxTime - store[a].timeLastEvent
           S == {Age(a) : a \in Candidates(e)}
<1>1. ASSUME NEW a \in Candidates(e)
      PROVE  store[a].timeLastEvent \in 0..MaxTime /\ MaxTime \in Nat
  BY AlarmsAssumption DEF Candidates, TypeOK, Work, AlarmHash, Time
<1>2. S \subseteq Nat /\ S # {}
  BY <1>1
<1>3. PICK x \in S : \A y \in S : x <= y
  <2> HIDE DEF S
  <2>1. QED
    BY <1>2, LeastOf
<1>4. PICK a \in Candidates(e) : x = Age(a)
  BY <1>3
<1>5. ASSUME NEW b \in Candidates(e)
      PROVE  store[b].timeLastEvent <= store[a].timeLastEvent
  <2>1. Age(b) \in S
    OBVIOUS
  <2>2. Age(a) <= Age(b)
    BY <1>3, <1>4, <2>1
  <2>3. QED
    BY <1>1, <1>4, <1>5, <2>2
<1>6. QED
  BY <1>4, <1>5 DEF MostRecent

\* An event that found no related alarm passes over each it had listed.
LEMMA UnrelatedPasses ==
  ASSUME TypeOK, NEW e \in Events, Related(e) = {}, ~work[e].clear,
         NEW id \in work[e].listed, Life(id), Whole(id),
         store[id].assoc = Association(work[e].probe)
  PROVE  store[id].closed \/ Passes(e, id)
<1> SUFFICES ASSUME ~store[id].closed, store[id].timeLastEvent # NoTime
             PROVE  Passes(e, id)
  BY DEF Passes
<1>1. id \in Candidates(e)
  BY DEF Candidates
<1>2. PICK a \in MostRecent(e) : TRUE
  BY <1>1, SomeMostRecent
<1>3. /\ a \in AlarmId /\ id \in AlarmId
      /\ store[id].timeLastEvent <= store[a].timeLastEvent
  BY <1>1, <1>2 DEF MostRecent, Candidates, TypeOK, Work
<1>4. /\ store[a].timeLastEvent \in Nat /\ store[id].timeLastEvent \in Nat
      /\ work[e].time \in Nat
  BY <1>3 DEF TypeOK, AlarmHash, Work, Time
<1>5. work[e].time - store[a].timeLastEvent >= NewAlarmGap
  BY <1>2, <1>3, <1>4, AlarmsAssumption DEF Related, NoTime
<1>6. work[e].time - store[id].timeLastEvent >= NewAlarmGap
  BY <1>3, <1>4, <1>5, AlarmsAssumption
<1>7. PICK x \in Events : work[x].alarm = id /\ work[x].time = store[id].timeLastEvent
  BY DEF Life
<1>8. QED
  BY <1>6, <1>7 DEF Passes

\* If the event an alarm was made for was answered when e came, e lists that alarm,
\* and has a reason to make another.
PassedOver(d, e) ==
  LET id == work[d].alarm
  IN  /\ d \in work[e].earlier /\ Maker(d) /\ Whole(id)
      /\ store[id].assoc = Association(work[e].probe)
      => /\ pc[e] = "get" => id \in work[e].listed
         /\ pc[e] = "incr" \/ Maker(e) => store[id].closed \/ Passes(e, id)

LEMMA PassesOn ==
  ASSUME TypeOK, StoreInv, TendInv, Hands, [Next]_vars,
         NEW d \in Events, NEW e \in Events, NEW id \in AlarmId,
         Life(id), Maker(d), work[d].alarm = id, pc[d] = "done", pc[e] # "idle",
         Whole(id), Whole(id)', store[id].closed \/ Passes(e, id)
  PROVE  store'[id].closed \/ Passes(e, id)'
<1>1. UserCalled("reopen", id) => Passes(e, id)'
  BY CallKept DEF UserCalled, Passes
<1>2. store[id].closed => store'[id].closed \/ UserCalled("reopen", id)
  BY StepMoves DEF AlarmMoves
<1>3. /\ work'[e].probe = work[e].probe /\ work'[e].time = work[e].time
  BY EventKept
<1>4. store[id].timeLastEvent = NoTime => store'[id].timeLastEvent = NoTime
  <2>1. ASSUME NEW x \in Events, pc[x] = "update", work[x].alarm = id,
               store[id].timeLastEvent = NoTime
        PROVE  FALSE
    <3>1. Maker(x)
      BY <2>1 DEF Life
    <3>2. x = d
      BY <2>1, <3>1 DEF Hands
    <3>3. QED
      BY <2>1, <3>2
  <2>2. QED
    BY <2>1, StepMoves DEF AlarmMoves
<1>5. ASSUME NEW x \in Events, work[x].alarm = id
      PROVE  work'[x].alarm = id /\ work'[x].time = work[x].time
  <2>1. pc[x] # "idle" /\ work[x].alarm # NoAlarm
    BY <1>5 DEF Hands, HandOK, AlarmId, NoAlarm
  <2>2. QED
    BY <1>5, <2>1, EventKept
<1>6. QED
  <2>1. CASE work[e].probe \notin GroupEvents
    BY <1>3, <2>1 DEF Passes
  <2>2. CASE store[id].timeLastEvent = NoTime
    BY <1>4, <2>2 DEF Passes
  <2>3. ASSUME NEW x \in Events,
               work[x].alarm = id /\ work[e].time - work[x].time >= NewAlarmGap
        PROVE  Passes(e, id)'
    BY <1>3, <1>5, <2>3 DEF Passes
  <2>4. QED
    BY <1>1, <1>2, <2>1, <2>2, <2>3 DEF Passes, UserCalled

LEMMA StepPassedOver ==
  ASSUME TypeOK, StoreInv, TendInv, Hands, [Next]_vars, \A id \in AlarmId : Life(id),
         NEW d \in Events, NEW e \in Events, PassedOver(d, e)
  PROVE  PassedOver(d, e)'
<1> PICK id : id = work'[d].alarm
  OBVIOUS
<1> SUFFICES ASSUME d \in work'[e].earlier, Maker(d)', Whole(id)',
                    store'[id].assoc = Association(work'[e].probe)
             PROVE  /\ pc'[e] = "get" => id \in work'[e].listed
                    /\ pc'[e] = "incr" \/ Maker(e)' => store'[id].closed \/ Passes(e, id)'
  BY DEF PassedOver, Whole, Passes
<1>1. CASE pc[e] = "idle"
  <2>1. pc'[e] \in {"idle", "lookup", "done"} /\ work'[e].alarm = NoAlarm
    <3>1. work[e].alarm = NoAlarm
      BY <1>1 DEF Hands, HandOK
    <3>2. ASSUME NEW x \in Events, Receive(x)
          PROVE  pc'[e] \in {"idle", "lookup", "done"} /\ work'[e].alarm = NoAlarm
      BY <1>1, <3>1, <3>2, ReceiveLocals
    <3>3. ASSUME NEW x \in Events, HandlerStep(x) \/ HandlerFails(x)
          PROVE  pc'[e] = "idle" /\ work'[e].alarm = NoAlarm
      BY <1>1, <3>1, <3>3, HandlerLocals DEF OwnLocals
    <3>4. QED
      BY <1>1, <3>1, <3>2, <3>3, WhoMoves
  <2>2. QED
    BY <2>1 DEF Maker
<1>2. CASE pc[e] # "idle"
  <2>1. work'[e].earlier = work[e].earlier /\ work'[e].probe = work[e].probe
    BY <1>2, EventKept
  <2>2. pc[d] = "done"
    BY <2>1 DEF Hands, HandOK
  <2>3. work'[d] = work[d] /\ Maker(d) /\ work[d].alarm = id
    BY <2>2, EventKept DEF Maker
  <2>4. id \in AlarmId
    BY <2>3 DEF Maker, TypeOK, Work
  <2>5. Whole(id)
    <3>1. ASSUME NEW m \in Events, pc[m] = "save", work[m].alarm = id PROVE FALSE
      BY <2>2, <2>3, <3>1 DEF Hands, HandOK
    <3>2. QED
      BY <2>4, <3>1, StepMoves DEF AlarmMoves
  <2>6. store[id].assoc = Association(work[e].probe) /\ Life(id)
    BY <2>1, <2>4, <2>5, StepMoves DEF AlarmMoves
  <2>7. /\ pc[e] = "get" => id \in work[e].listed
        /\ pc[e] = "incr" \/ Maker(e) => store[id].closed \/ Passes(e, id)
    BY <2>1, <2>3, <2>5, <2>6 DEF PassedOver
  <2>8. pc'[e] = "get" => id \in work'[e].listed
    <3>1. pc'[e] = "get" => ListAlarms(e) \/ (pc[e] = "get" /\ work'[e] = work[e])
      BY <1>2, WhoMoves, NextCommand, ReceiveLocals DEF Moved
    <3>2. ListAlarms(e) => id \in work'[e].listed
      BY <2>5, <2>6, Picks DEF Life
    <3>3. QED
      BY <2>7, <3>1, <3>2
  <2>9. ASSUME pc'[e] = "incr" \/ Maker(e)'
        PROVE  store[id].closed \/ Passes(e, id)
    <3>1. CASE pc[e] = "incr" \/ Maker(e)
      BY <2>7, <3>1
    <3>2. CASE pc[e] # "incr" /\ ~Maker(e)
      <4>1. HandlerStep(e) \/ HandlerFails(e)
        BY <1>2, <2>9, <3>2, WhoMoves, ReceiveLocals DEF Moved, Maker
      <4>2. ~Maker(e)'
        <5>1. CASE ListAlarms(e)
          <6>1. work[e].alarm = NoAlarm /\ pc[e] = "list"
            BY <5>1 DEF ListAlarms, Hands, HandOK
          <6>2. work'[e].alarm = NoAlarm
            BY <4>1, <5>1, <6>1, ChoiceLocals DEF ListAlarms, IncrId, GetAlarmsRelated
          <6>3. QED
            BY <6>2 DEF Maker
        <5>2. CASE GetAlarmsRelated(e)
          BY <5>2, Picks, RelatedIsListed DEF Maker
        <5>3. ~IncrId(e)
          BY <3>2 DEF IncrId
        <5>4. QED
          BY <3>2, <4>1, <5>1, <5>2, <5>3, ChoiceLocals DEF Maker
      <4>3. CASE Lookup(e)
        <5>1. work[e].probe \notin GroupEvents
          BY <2>9, <4>2, <4>3 DEF Lookup, Goto, TypeOK
        <5>2. QED
          BY <5>1 DEF Passes
      <4>4. CASE GetAlarmsUnrelated(e)
        <5>1. Related(e) = {} /\ ~work[e].clear /\ pc[e] = "get"
          BY <2>9, <4>2, <4>4 DEF GetAlarmsUnrelated, Reply, Goto, TypeOK
        <5>2. QED
          BY <2>5, <2>6, <2>7, <5>1, UnrelatedPasses
      <4>5. QED
        BY <2>9, <4>1, <4>2, <4>3, <4>4, NextCommand
    <3>3. QED
      BY <3>1, <3>2
  <2>10. pc'[e] = "incr" \/ Maker(e)' => store'[id].closed \/ Passes(e, id)'
    BY <1>2, <2>2, <2>3, <2>4, <2>5, <2>6, <2>9, PassesOn
  <2>11. QED
    BY <2>8, <2>10
<1>3. QED
  BY <1>1, <1>2

\* A probe or group gets a second open alarm only if it may pass over the first, or
\* from an event that came before the event the first was made for was answered: for
\* every interleaving of events, API calls and failures.
THEOREM OneAlarmIsOpen == Spec => []OneOpenAlarm
<1> DEFINE Lives == \A id \in AlarmId : Life(id)
           Passed == \A d, e \in Events : PassedOver(d, e)
           Inv == StoreInv /\ TendInv /\ Hands /\ Lives /\ Passed
<1>1. Init => Inv
  <2>1. Init => Lives
    BY DEF Init, Life, Whole, NoHash
  <2>2. Init => Passed
    BY DEF Init, PassedOver, Whole, NoHash, NoWork
  <2>3. QED
    BY <2>1, <2>2, InitStore, InitTends, InitHands
<1>2. TypeOK /\ TypeOK' /\ Inv /\ [Next]_vars => Inv'
  <2> SUFFICES ASSUME TypeOK, TypeOK', Inv, [Next]_vars PROVE Inv'
    OBVIOUS
  <2>1. Lives'
    BY StepLife
  <2>2. Passed'
    BY StepPassedOver
  <2>3. QED
    BY <2>1, <2>2, StepStore, StepTends, StepHands
<1>3. TypeOK /\ Inv => OneOpenAlarm
  <2> SUFFICES ASSUME TypeOK, Inv,
                      NEW a \in AlarmId, NEW b \in AlarmId, NEW d \in Events, NEW e \in Events,
                      a # b, Open(a), Open(b), store[a].assoc = store[b].assoc,
                      Made(d, a), Made(e, b), ~Overlap(d, e)
               PROVE  Passes(d, b) \/ Passes(e, a)
    BY DEF OneOpenAlarm
  <2>1. /\ Maker(d) /\ Maker(e) /\ work[d].alarm = a /\ work[e].alarm = b
    BY DEF Made, Maker, AlarmId, NoAlarm
  <2>2. /\ store[a].assoc = Association(work[d].probe)
        /\ store[b].assoc = Association(work[e].probe)
        /\ Whole(a) /\ Whole(b) /\ ~store[a].closed /\ ~store[b].closed
    BY <2>1 DEF Open, Life
  <2>3. CASE d \in work[e].earlier
    BY <2>1, <2>2, <2>3 DEF PassedOver
  <2>4. CASE e \in work[d].earlier
    BY <2>1, <2>2, <2>4 DEF PassedOver
  <2>5. QED
    BY <2>3, <2>4 DEF Overlap
<1>4. QED
  BY <1>1, <1>2, <1>3, TypeCorrect, PTL DEF Spec

-----------------------------------------------------------------------------
(* Faults of a closed alarm *)

\* Each fault of an alarm that a clear found empty is of an event that was not
\* answered when the clear came.
LateFault(c, id) ==
  work[c].emptied /\ work[c].alarm = id =>
    \A p \in Outstanding(id) :
      \E e \in Events : /\ work[e].alarm = id /\ work[e].probe = p
                        /\ ~work[e].clear /\ e \notin work[c].earlier
\* A closed alarm, unless users closed it, was closed by a clear that was not answered
\* when any event of that alarm came.
ClosedByClear(id) ==
  Whole(id) /\ store[id].closed /\ ~UserCalled("close", id) =>
    \E c \in Events : /\ work[c].alarm = id /\ work[c].emptied
                      /\ \A e \in Events : work[e].alarm = id => c \notin work[e].earlier

\* The handler that found its alarm empty keeps that alarm.
LEMMA EmptiedKept ==
  ASSUME TypeOK, Hands, [Next]_vars, NEW c \in Events, work[c].emptied
  PROVE  /\ pc[c] \in {"settle", "done"}
         /\ work'[c].emptied /\ work'[c].alarm = work[c].alarm
         /\ work'[c].earlier = work[c].earlier
<1>1. pc[c] \in {"settle", "done"}
  BY DEF Hands, HandOK
<1>2. pc[c] = "settle" => work[c].alarm # NoAlarm
  BY DEF TypeOK, LocalsSet, Holding, AlarmId, NoAlarm
<1>3. QED
  BY <1>1, <1>2, EventKept

LEMMA StepLateFault ==
  ASSUME TypeOK, StoreInv, TendInv, Hands, [Next]_vars, NEW c \in Events,
         NEW id \in AlarmId, LateFault(c, id)
  PROVE  LateFault(c, id)'
<1> SUFFICES ASSUME work'[c].emptied, work'[c].alarm = id, NEW p \in Outstanding(id)'
             PROVE  \E e \in Events : /\ work'[e].alarm = id /\ work'[e].probe = p
                                      /\ ~work'[e].clear /\ e \notin work'[c].earlier
  BY DEF LateFault
<1>1. ASSUME NEW e \in Events, work[e].alarm = id
      PROVE  /\ work'[e].alarm = id /\ work'[e].probe = work[e].probe
             /\ work'[e].clear = work[e].clear
  <2>1. pc[e] # "idle" /\ work[e].alarm # NoAlarm
    BY <1>1 DEF Hands, HandOK, AlarmId, NoAlarm
  <2>2. QED
    BY <1>1, <2>1, EventKept
<1>2. CASE work[c].emptied
  <2>1. work[c].alarm = id /\ work'[c].earlier = work[c].earlier
    BY <1>2, EmptiedKept
  <2>2. \E e \in Events : /\ work[e].alarm = id /\ work[e].probe = p
                          /\ ~work[e].clear /\ e \notin work[c].earlier
    <3>1. CASE p \in Outstanding(id)
      BY <1>2, <2>1, <3>1 DEF LateFault
    <3>2. CASE p \notin Outstanding(id)
      <4>1. PICK e \in Events : /\ pc[e] = "update" /\ work[e].alarm = id
                                /\ work[e].probe = p /\ ~work[e].clear
        BY <3>2, StepMoves DEF AlarmMoves
      <4>2. e \notin work[c].earlier
        BY <4>1 DEF Hands, HandOK
      <4>3. QED
        BY <4>1, <4>2
    <3>3. QED
      BY <3>1, <3>2
  <2>3. QED
    BY <1>1, <2>1, <2>2
<1>3. CASE ~work[c].emptied
  <2>1. Update(c)
    BY <1>3, WhoMoves, ReceiveLocals, ChoiceLocals DEF Moved
  <2>2. Emptied(c) /\ work[c].alarm = id /\ pc[c] = "update" /\ ApplyEvent(c)
    BY <2>1, UpdateWrites
  <2>3. Outstanding(id)' = {}
    BY <2>2, ApplyWrites
  <2>4. QED
    BY <2>3
<1>4. QED
  BY <1>2, <1>3

LEMMA StepClosed ==
  ASSUME TypeOK, StoreInv, TendInv, Hands, [Next]_vars, NEW id \in AlarmId,
         ClosedByClear(id)
  PROVE  ClosedByClear(id)'
<1> SUFFICES ASSUME Whole(id)', store'[id].closed, ~UserCalled("close", id)'
             PROVE  \E c \in Events :
                      /\ work'[c].alarm = id /\ work'[c].emptied
                      /\ \A e \in Events : work'[e].alarm = id => c \notin work'[e].earlier
  BY DEF ClosedByClear
<1>1. ~UserCalled("close", id)
  BY CallKept
<1>2. Whole(id)
  <2>1. ~Open(id)'
    BY DEF Open
  <2>2. QED
    BY <2>1, StepMoves DEF AlarmMoves
<1>3. ASSUME NEW e \in Events, work'[e].alarm = id
      PROVE  \/ work[e].alarm = id /\ pc[e] # "idle" /\ work'[e].earlier = work[e].earlier
             \/ ~store[id].closed /\ pc[e] = "get" /\ work'[e].earlier = work[e].earlier
  <2>1. CASE work[e].alarm = id
    <3>1. pc[e] # "idle"
      BY <2>1 DEF Hands, HandOK, AlarmId, NoAlarm
    <3>2. QED
      BY <2>1, <3>1, EventKept
  <2>2. CASE work[e].alarm # id
    <3>1. GetAlarmsRelated(e)
      BY <1>2, <1>3, <2>2, NewMaker
    <3>2. Open(id) /\ pc[e] = "get"
      BY <1>3, <3>1, Picks, RelatedIsListed DEF GetAlarmsRelated
    <3>3. QED
      BY <3>2, EventKept DEF Open
  <2>3. QED
    BY <2>1, <2>2
<1>4. CASE store[id].closed
  <2>1. PICK c \in Events :
          /\ work[c].alarm = id /\ work[c].emptied
          /\ \A e \in Events : work[e].alarm = id => c \notin work[e].earlier
    BY <1>1, <1>2, <1>4 DEF ClosedByClear
  <2>2. \A e \in Events : work'[e].alarm = id => c \notin work'[e].earlier
    BY <1>3, <1>4, <2>1
  <2>3. QED
    BY <2>1, <2>2, EmptiedKept
<1>5. CASE ~store[id].closed
  <2>1. PICK c \in Events : pc[c] = "settle" /\ work[c].emptied /\ work[c].alarm = id
    BY <1>1, <1>2, <1>5, StepMoves DEF AlarmMoves, Closing
  <2>2. \A e \in Events : c \notin work[e].earlier
    BY <2>1 DEF Hands, HandOK
  <2>3. \A e \in Events : work'[e].alarm = id => c \notin work'[e].earlier
    BY <1>3, <2>2
  <2>4. QED
    BY <2>1, <2>3, EmptiedKept
<1>6. QED
  BY <1>4, <1>5

\* Unless users closed it, a closed alarm was closed after a clear that left it without
\* faults, and every fault it has now came while that clear was handled.
THEOREM LateFaults == Spec => []LateFaultsOverlap
<1> DEFINE Late == \A c \in Events, id \in AlarmId : LateFault(c, id)
           Closed == \A id \in AlarmId : ClosedByClear(id)
           Inv == StoreInv /\ TendInv /\ Hands /\ Late /\ Closed
<1>1. Init => Inv
  <2>1. Init => Late /\ Closed
    BY DEF Init, LateFault, ClosedByClear, Whole, NoHash, NoWork
  <2>2. QED
    BY <2>1, InitStore, InitTends, InitHands
<1>2. TypeOK /\ TypeOK' /\ Inv /\ [Next]_vars => Inv'
  <2> SUFFICES ASSUME TypeOK, TypeOK', Inv, [Next]_vars PROVE Inv'
    OBVIOUS
  <2>1. Late' /\ Closed'
    BY StepLateFault, StepClosed
  <2>2. QED
    BY <2>1, StepStore, StepTends, StepHands
<1>3. Inv => LateFaultsOverlap
  <2> SUFFICES ASSUME Inv, NEW id \in AlarmId, Whole(id), store[id].closed,
                      \A r \in Requests : ~(req[r].op = "close" /\ req[r].id = id)
               PROVE  \E c \in Events :
                        /\ work[c].alarm = id /\ work[c].emptied
                        /\ \A p \in Outstanding(id) :
                             \E e \in Events :
                               /\ work[e].alarm = id /\ work[e].probe = p
                               /\ ~work[e].clear /\ Overlap(c, e)
    BY DEF LateFaultsOverlap
  <2>1. PICK c \in Events :
          /\ work[c].alarm = id /\ work[c].emptied
          /\ \A e \in Events : work[e].alarm = id => c \notin work[e].earlier
    BY DEF ClosedByClear, UserCalled
  <2>2. QED
    BY <2>1 DEF LateFault, Overlap
<1>4. QED
  BY <1>1, <1>2, <1>3, TypeCorrect, PTL DEF Spec

-----------------------------------------------------------------------------
(* The store implements AlarmBook *)

\* An alarm's entry in the book.
Entry(id) == [state |-> BookState(id),
              faults |-> IF Whole(id) THEN Outstanding(id) ELSE {}]

LEMMA EntryInBook ==
  ASSUME NEW id \in AlarmId
  PROVE  /\ BookOfStore[id] = Entry(id)
         /\ BookOfStore[id].state = BookState(id)
         /\ Whole(id) => BookOfStore[id].faults = Outstanding(id)
         /\ Book!Seen(id) <=> Whole(id)
         /\ Open(id) => BookOfStore[id].state = "open"
         /\ ~Whole(id) /\ NotYetStored(id) => BookOfStore[id].state = "none"
<1>1. BookOfStore[id] = Entry(id)
  BY DEF BookOfStore, Entry
<1>2. QED
  BY <1>1 DEF Entry, BookState, Open, Book!Seen

\* A step that changes at most one alarm makes at most one entry.
LEMMA EnterBook ==
  ASSUME NEW id \in AlarmId, NEW s, NEW F,
         \A x \in AlarmId \ {id} : Entry(x)' = Entry(x),
         Entry(id)' = [state |-> s, faults |-> F]
  PROVE  Book!Enter(id, s, F)
<1>1. BookOfStore = [x \in AlarmId |-> Entry(x)]
  BY DEF BookOfStore, Entry
<1>2. BookOfStore' = [x \in AlarmId |-> Entry(x)']
  BY DEF BookOfStore, Entry
<1> HIDE DEF BookOfStore, Entry
<1>3. QED
  BY <1>1, <1>2 DEF Book!Enter

LEMMA SameBook ==
  ASSUME \A x \in AlarmId : Entry(x)' = Entry(x)
  PROVE  UNCHANGED BookOfStore
<1>1. BookOfStore = [x \in AlarmId |-> Entry(x)]
  BY DEF BookOfStore, Entry
<1>2. BookOfStore' = [x \in AlarmId |-> Entry(x)']
  BY DEF BookOfStore, Entry
<1>3. QED
  BY <1>1, <1>2

LEMMA ChangeBook ==
  ASSUME NEW id \in AlarmId, NEW s, NEW F,
         \A x \in AlarmId \ {id} : Entry(x)' = Entry(x),
         Whole(id) => Entry(id)' = [state |-> s, faults |-> F],
         ~Whole(id) => Entry(id)' = Entry(id)
  PROVE  Book!Change(id, s, F)
<1>1. CASE Whole(id)
  BY <1>1, EnterBook, EntryInBook DEF Book!Change
<1>2. CASE ~Whole(id)
  <2>1. UNCHANGED BookOfStore
    BY <1>2, SameBook
  <2>2. QED
    BY <1>2, <2>1, EntryInBook DEF Book!Change
<1>3. QED
  BY <1>1, <1>2

\* The entry of an alarm that is not touched.
LEMMA EntryKept ==
  ASSUME NEW id \in AlarmId, store'[id] = store[id],
         Outstanding(id)' = Outstanding(id),
         NotYetStored(id)' <=> NotYetStored(id)
  PROVE  Entry(id)' = Entry(id)
<1>1. Whole(id)' <=> Whole(id)
  BY DEF Whole
<1>2. BookState(id)' = BookState(id)
  BY <1>1 DEF BookState
<1>3. QED
  BY <1>1, <1>2 DEF Entry

LEMMA NoEntryKept ==
  ASSUME NEW id \in AlarmId, ~Whole(id), ~Whole(id)',
         NotYetStored(id)' <=> NotYetStored(id)
  PROVE  Entry(id)' = Entry(id)
<1>1. BookState(id)' = BookState(id)
  BY DEF BookState
<1>2. QED
  BY <1>1 DEF Entry

\* A step of a handler that is not creating an alarm.
LEMMA YetKept ==
  ASSUME NEW e \in Events, \A d \in Events \ {e} : pc'[d] = pc[d] /\ work'[d] = work[d],
         counter' = counter, pc[e] # "save", pc'[e] # "save", NEW id
  PROVE  NotYetStored(id)' <=> NotYetStored(id)
  BY DEF NotYetStored, InCreation, Creating

\* What a handler holds in hand.
Held == [e \in Events |-> HandOf(e)]

LEMMA HandTurns ==
  ASSUME NEW e \in Events, NEW stage, NEW id,
         \A d \in Events \ {e} : pc'[d] = pc[d] /\ work'[d] = work[d],
         HandOf(e)' = Hand(stage, id)
  PROVE  Book!Turn(e, stage, id)
<1>1. \A d \in Events \ {e} : HandOf(d)' = HandOf(d)
  BY DEF HandOf
<1>2. Held' = [Held EXCEPT ![e] = Hand(stage, id)]
  <2>1. Held = [d \in Events |-> HandOf(d)] /\ Held' = [d \in Events |-> HandOf(d)']
    BY DEF Held
  <2> HIDE DEF Held, HandOf
  <2>2. QED
    BY <1>1, <2>1
<1>3. QED
  BY <1>2 DEF Book!Turn, Held, Hand

LEMMA SameHands ==
  ASSUME \A d \in Events : HandOf(d)' = HandOf(d)
  PROVE  UNCHANGED Held
<1>1. Held = [d \in Events |-> HandOf(d)] /\ Held' = [d \in Events |-> HandOf(d)']
  BY DEF Held
<1>2. QED
  BY <1>1

LEMMA HeldBy ==
  ASSUME NEW e \in Events, NEW stage, NEW id, HandOf(e) = Hand(stage, id)
  PROVE  Held[e].stage = stage /\ Held[e].alarm = id
<1>1. Held[e] = Hand(stage, id)
  BY DEF Held
<1>2. QED
  BY <1>1 DEF Hand

InBook == Book!BookNext \/ UNCHANGED <<BookOfStore, Held>>

-----------------------------------------------------------------------------
(* Each step is a step of the book or none *)

\* A handler that ends with nothing done, but for an id it may have drawn.
LEMMA GivesUp ==
  ASSUME NEW e \in Events, \A d \in Events \ {e} : pc'[d] = pc[d] /\ work'[d] = work[d],
         HandOf(e).stage # "over", HandOf(e)' = Hand("over", NoAlarm),
         \/ UNCHANGED BookOfStore
         \/ \E id \in AlarmId : /\ ~Whole(id) /\ NotYetStored(id)
                               /\ Book!Enter(id, "gone", {})
  PROVE  InBook
<1>1. Book!Ends(e)
  BY HandTurns DEF Book!Ends
<1>2. Held[e].stage # "over"
  BY DEF Held
<1>3. Book!GiveUp(e)
  BY <1>1, <1>2, EntryInBook DEF Book!GiveUp, Held
<1>4. QED
  BY <1>3 DEF InBook, Book!BookNext

\* A step of a handler that writes nothing leaves the book as it is.
LEMMA ReadInBook ==
  ASSUME NEW e \in Events, \A d \in Events \ {e} : pc'[d] = pc[d] /\ work'[d] = work[d],
         UNCHANGED redisVars, pc[e] # "save", pc'[e] # "save"
  PROVE  UNCHANGED BookOfStore
<1>1. \A x \in AlarmId : NotYetStored(x)' <=> NotYetStored(x)
  BY YetKept DEF redisVars
<1>2. QED
  BY <1>1, EntryKept, SameBook DEF redisVars, Outstanding

LEMMA BindInBook ==
  ASSUME TypeOK, NEW e \in Events, GetAlarmsRelated(e)
  PROVE  InBook
<1> PICK id : id = work'[e].alarm
  OBVIOUS
<1>1. /\ \A d \in Events \ {e} : pc'[d] = pc[d] /\ work'[d] = work[d]
      /\ pc[e] = "get" /\ pc'[e] = "maint"
  BY HandlerLocals DEF HandlerStep, OwnLocals, GetAlarmsRelated, Goto, TypeOK
<1>2. id \in AlarmId /\ Open(id)
  BY Picks, RelatedIsListed DEF TypeOK, Work
<1>3. UNCHANGED BookOfStore
  BY <1>1, Picks, ReadInBook
<1>4. Book!Turn(e, "bound", id)
  BY <1>1, HandTurns DEF HandOf
<1>5. Held[e].stage = "free"
  <2>1. HandOf(e) = Hand("free", NoAlarm)
    BY <1>1 DEF HandOf
  <2>2. QED
    BY <2>1, HeldBy
<1>6. Book!Bind(e, id)
  BY <1>2, <1>3, <1>4, <1>5, EntryInBook DEF Book!Bind, Held
<1>7. QED
  BY <1>2, <1>6 DEF InBook, Book!BookNext

LEMMA StartInBook ==
  ASSUME TypeOK, StoreInv, NEW e \in Events, SaveAlarm(e) \/ SaveReplyLost(e)
  PROVE  InBook
<1> PICK id : id = work[e].alarm
  OBVIOUS
<1>1. /\ \A d \in Events \ {e} : pc'[d] = pc[d] /\ work'[d] = work[d]
      /\ pc[e] = "save" /\ StoreAlarm(e) /\ counter' = counter
      /\ UNCHANGED <<faults, maintFaults>>
  BY HandlerLocals DEF HandlerStep, HandlerFails, OwnLocals, SaveAlarm, SaveReplyLost
<1>2. /\ id \in AlarmId /\ NotYetStored(id) /\ ~Whole(id) /\ Outstanding(id) = {}
  BY <1>1 DEF NotYetStored, InCreation, Creating, StoreInv, FreshIdsUnused, Exists, Whole,
              TypeOK, LocalsSet, Holding
<1>3. \A x \in AlarmId \ {id} : Entry(x)' = Entry(x)
  <2>1. \/ pc'[e] # "save"
        \/ work'[e].alarm = id
    BY <1>1 DEF SaveAlarm, SaveReplyLost, Goto, Reply, TypeOK
  <2>2. pc'[e] # "save"
    BY DEF SaveAlarm, SaveReplyLost, Goto, Reply, TypeOK
  <2>3. \A x \in AlarmId \ {id} : NotYetStored(x)' <=> NotYetStored(x)
    BY <1>1, <2>2 DEF NotYetStored, InCreation, Creating
  <2>4. \A x \in AlarmId \ {id} : store'[x] = store[x] /\ Outstanding(x)' = Outstanding(x)
    BY <1>1, StoreWrites DEF Outstanding
  <2>5. QED
    BY <2>3, <2>4, EntryKept
<1>4. Entry(id)' = [state |-> "open", faults |-> {}]
  <2>1. Open(id)' /\ Outstanding(id)' = {}
    BY <1>1, <1>2, StoreWrites DEF Outstanding
  <2>2. QED
    BY <2>1 DEF Entry, BookState, Open
<1>5. Book!Enter(id, "open", {})
  BY <1>2, <1>3, <1>4, EnterBook
<1>6. Book!Turn(e, "bound", id) \/ Book!Ends(e)
  <2>1. CASE SaveAlarm(e)
    <3>1. HandOf(e)' = Hand("bound", id)
      BY <2>1, SaveWrites DEF HandOf
    <3>2. QED
      BY <1>1, <3>1, HandTurns
  <2>2. CASE SaveReplyLost(e)
    <3>1. pc'[e] = "done"
      BY <2>2 DEF SaveReplyLost, Reply, Goto, TypeOK
    <3>2. HandOf(e)' = Hand("over", NoAlarm)
      BY <3>1 DEF HandOf
    <3>3. QED
      BY <1>1, <3>2, HandTurns DEF Book!Ends
  <2>3. QED
    BY <2>1, <2>2
<1>7. Held[e].stage = "free"
  <2>1. HandOf(e) = Hand("free", NoAlarm)
    BY <1>1 DEF HandOf
  <2>2. QED
    BY <2>1, HeldBy
<1>8. Book!Start(e, id)
  BY <1>2, <1>5, <1>6, <1>7, EntryInBook DEF Book!Start, Held
<1>9. QED
  BY <1>2, <1>8 DEF InBook, Book!BookNext

\* The MULTI/EXEC of handleEvent raises or clears one fault of the handler's alarm.
LEMMA ApplyInBook ==
  ASSUME TypeOK, TypeOK', NEW e \in Events, pc[e] = "update", ApplyEvent(e),
         \A d \in Events \ {e} : pc'[d] = pc[d] /\ work'[d] = work[d],
         counter' = counter,
         \/ HandOf(e)' = Hand("over", NoAlarm)
         \/ Emptied(e) /\ HandOf(e)' = Hand("closing", work[e].alarm),
         pc'[e] # "save"
  PROVE  InBook
<1> PICK id, p : id = work[e].alarm /\ p = work[e].probe
  OBVIOUS
<1>1. id \in AlarmId /\ p \in Probes
  BY DEF TypeOK, LocalsSet, Holding
<1>2. \A x \in AlarmId : NotYetStored(x)' <=> NotYetStored(x)
  BY YetKept
<1>3. \A x \in AlarmId \ {id} : Entry(x)' = Entry(x)
  BY <1>2, ApplyWrites, EntryKept
<1>4. /\ Whole(id)' <=> Whole(id)
      /\ Outstanding(id)' = IF work[e].clear THEN Outstanding(id) \ {p}
                            ELSE Outstanding(id) \cup {p}
      /\ Emptied(e) <=> work[e].clear /\ Outstanding(id)' = {}
      /\ Whole(id) => store'[id].closed = store[id].closed
  BY ApplyWrites
<1>5. Whole(id) => Entry(id)' = [state |-> BookState(id), faults |-> Outstanding(id)']
  <2>1. Whole(id) => BookState(id)' = BookState(id)
    BY <1>4 DEF BookState
  <2>2. QED
    BY <1>4, <2>1 DEF Entry
<1>6. ~Whole(id) => Entry(id)' = Entry(id)
  BY <1>1, <1>2, <1>4, NoEntryKept
<1>7. Book!Bound(e, id)
  <2>1. HandOf(e) = Hand("bound", id)
    BY DEF HandOf
  <2>2. Held[e].stage = "bound" /\ Held[e].alarm = id
    BY <2>1, HeldBy
  <2>3. QED
    BY <2>2 DEF Book!Bound, Held
<1>8. CASE ~work[e].clear
  <2>1. Whole(id) => Outstanding(id)' = BookOfStore[id].faults \cup {p}
    BY <1>1, <1>4, <1>8, EntryInBook
  <2>2. Whole(id) => Entry(id)' = [state |-> BookOfStore[id].state,
                                   faults |-> BookOfStore[id].faults \cup {p}]
    BY <1>1, <1>5, <2>1, EntryInBook
  <2>3. Book!Change(id, BookOfStore[id].state, BookOfStore[id].faults \cup {p})
    <3> PICK s, F : s = BookOfStore[id].state /\ F = BookOfStore[id].faults \cup {p}
      OBVIOUS
    <3>1. Book!Change(id, s, F)
      BY <1>1, <1>3, <1>6, <2>2, ChangeBook
    <3>2. QED
      BY <3>1
  <2>4. Book!Ends(e)
    BY <1>4, <1>8, HandTurns DEF Book!Ends
  <2>5. Book!Raise(e, id, p)
    BY <1>7, <2>3, <2>4 DEF Book!Raise
  <2>6. QED
    BY <1>1, <2>5 DEF InBook, Book!BookNext
<1>9. CASE work[e].clear
  <2> DEFINE left == BookOfStore[id].faults \ {p}
  <2>1. Whole(id) => Outstanding(id)' = left
    BY <1>1, <1>4, <1>9, EntryInBook
  <2>2. Whole(id) => Entry(id)' = [state |-> BookOfStore[id].state, faults |-> left]
    BY <1>1, <1>5, <2>1, EntryInBook
  <2>3. Book!Change(id, BookOfStore[id].state, left)
    <3> PICK s, F : s = BookOfStore[id].state /\ F = left
      OBVIOUS
    <3>1. Book!Change(id, s, F)
      BY <1>1, <1>3, <1>6, <2>2, ChangeBook
    <3>2. QED
      BY <3>1
  <2>4. \/ (Book!Seen(id) => left = {}) /\ Book!Turn(e, "closing", id)
        \/ Book!Ends(e)
    <3>1. CASE HandOf(e)' = Hand("over", NoAlarm)
      BY <3>1, HandTurns DEF Book!Ends
    <3>2. CASE Emptied(e) /\ HandOf(e)' = Hand("closing", id)
      <4>1. Book!Seen(id) => left = {}
        BY <1>1, <1>4, <2>1, <3>2, EntryInBook
      <4>2. Book!Turn(e, "closing", id)
        BY <3>2, HandTurns
      <4>3. QED
        BY <4>1, <4>2
    <3>3. QED
      BY <3>1, <3>2
  <2>5. Book!Clear(e, id, p)
    BY <1>7, <2>3, <2>4 DEF Book!Clear
  <2>6. QED
    BY <1>1, <2>5 DEF InBook, Book!BookNext
<1>10. QED
  BY <1>8, <1>9

\* Its second command closes the alarm, if it still is one.
LEMMA CloseInBook ==
  ASSUME TypeOK, NEW e \in Events, pc[e] = "settle", work[e].emptied, CloseAlarm(e),
         \A d \in Events \ {e} : pc'[d] = pc[d] /\ work'[d] = work[d],
         pc'[e] = "done", UNCHANGED <<counter, faults, maintFaults>>
  PROVE  InBook
<1> PICK id : id = work[e].alarm
  OBVIOUS
<1>1. \A x \in AlarmId : /\ NotYetStored(x)' <=> NotYetStored(x)
                         /\ Outstanding(x)' = Outstanding(x)
  BY YetKept DEF Outstanding
<1>2. /\ id \in AlarmId
      /\ \A x \in AlarmId \ {id} : store'[x] = store[x]
      /\ Whole(id)' <=> Whole(id)
      /\ Whole(id) => store'[id].closed
  BY CloseWrites
<1>3. \A x \in AlarmId \ {id} : Entry(x)' = Entry(x)
  BY <1>1, <1>2, EntryKept
<1>4. Whole(id) => Entry(id)' = [state |-> "closed", faults |-> BookOfStore[id].faults]
  <2>1. Whole(id) => BookState(id)' = "closed"
    BY <1>2 DEF BookState
  <2>2. QED
    BY <1>1, <1>2, <2>1, EntryInBook DEF Entry
<1>5. ~Whole(id) => Entry(id)' = Entry(id)
  BY <1>1, <1>2, NoEntryKept
<1>6. Book!Change(id, "closed", BookOfStore[id].faults)
  <2> PICK F : F = BookOfStore[id].faults
    OBVIOUS
  <2>1. Book!Change(id, "closed", F)
    BY <1>2, <1>3, <1>4, <1>5, ChangeBook
  <2>2. QED
    BY <2>1
<1>7. Book!Ends(e)
  BY HandTurns DEF Book!Ends, HandOf
<1>8. Held[e].stage = "closing" /\ Held[e].alarm = id
  <2>1. HandOf(e) = Hand("closing", id)
    BY DEF HandOf
  <2>2. QED
    BY <2>1, HeldBy
<1>9. Book!CloseEmptied(e, id)
  BY <1>6, <1>7, <1>8 DEF Book!CloseEmptied, Held
<1>10. QED
  BY <1>2, <1>9 DEF InBook, Book!BookNext

\* An id that was drawn for a handler that then fails is lost.
LEMMA LosesId ==
  ASSUME TypeOK, StoreInv, NEW e \in Events,
         \/ IncrReplyLost(e)
         \/ CommandFails(e) /\ pc[e] = "save"
  PROVE  InBook
<1> PICK id : id = IF pc[e] = "save" THEN work[e].alarm ELSE counter + 1
  OBVIOUS
<1>1. /\ \A d \in Events \ {e} : pc'[d] = pc[d] /\ work'[d] = work[d]
      /\ pc[e] \in {"incr", "save"}
  BY HandlerLocals DEF HandlerFails, OwnLocals, IncrReplyLost
<1>2. /\ pc'[e] = "done" /\ UNCHANGED <<index, store, faults, maintFaults>>
      /\ counter' = IF pc[e] = "save" THEN counter ELSE counter + 1
      /\ pc[e] = "incr" => counter < MaxAlarms
  BY DEF IncrReplyLost, CommandFails, redisVars, Reply, Goto, TypeOK
<1>3. id \in AlarmId /\ counter \in Nat
  BY <1>1, <1>2, AlarmsAssumption DEF TypeOK, LocalsSet, Holding, AlarmId
<1>4. NotYetStored(id) /\ ~Whole(id)
  <2>1. NotYetStored(id)
    BY <1>1, <1>3 DEF NotYetStored, InCreation, Creating
  <2>2. QED
    BY <1>3, <2>1 DEF StoreInv, FreshIdsUnused, Exists, Whole
<1>5. ~NotYetStored(id)'
  <2>1. \A d \in Events : pc[d] = "save" => work[d].alarm <= counter
    BY DEF StoreInv, FreshIdsUnknown
  <2>2. ASSUME NEW d \in Events \ {e}, pc[d] = "save" PROVE work[d].alarm # id
    <3>1. CASE pc[e] = "save"
      BY <2>2, <3>1 DEF StoreInv, FreshIdsUnused, Creating
    <3>2. CASE pc[e] = "incr"
      BY <1>3, <2>1, <2>2, <3>2
    <3>3. QED
      BY <1>1, <3>1, <3>2
  <2>3. ~InCreation(id)'
    BY <1>1, <1>2, <2>2 DEF InCreation, Creating
  <2>4. id <= counter'
    BY <1>1, <1>2, <1>3, <2>1
  <2>5. QED
    BY <1>2, <1>3, <2>3, <2>4 DEF NotYetStored, AlarmId
<1>6. Entry(id)' = [state |-> "gone", faults |-> {}]
  <2>1. ~Whole(id)'
    BY <1>2, <1>4 DEF Whole
  <2>2. QED
    BY <1>5, <2>1 DEF Entry, BookState
<1>7. \A x \in AlarmId \ {id} : Entry(x)' = Entry(x)
  <2>1. \A x \in AlarmId \ {id} : NotYetStored(x)' <=> NotYetStored(x)
    BY <1>1, <1>2, <1>3 DEF NotYetStored, InCreation, Creating, AlarmId
  <2>2. QED
    BY <1>2, <2>1, EntryKept DEF Outstanding
<1>8. Book!Enter(id, "gone", {})
  BY <1>3, <1>6, <1>7, EnterBook
<1>9. HandOf(e).stage # "over" /\ HandOf(e)' = Hand("over", NoAlarm)
  BY <1>1, <1>2 DEF HandOf, Hand
<1>10. QED
  BY <1>1, <1>3, <1>4, <1>8, <1>9, GivesUp

\* Every step of a handler.
LEMMA HandlerInBook ==
  ASSUME TypeOK, TypeOK', StoreInv, NEW e \in Events, HandlerStep(e) \/ HandlerFails(e)
  PROVE  InBook
<1>1. /\ \A d \in Events \ {e} : pc'[d] = pc[d] /\ work'[d] = work[d]
      /\ pc[e] \notin {"idle", "done"}
  BY HandlerLocals DEF OwnLocals
<1>2. ASSUME HandOf(e)' = HandOf(e), UNCHANGED BookOfStore PROVE InBook
  <2>1. \A d \in Events : HandOf(d)' = HandOf(d)
    BY <1>1, <1>2 DEF HandOf
  <2>2. QED
    BY <1>2, <2>1, SameHands DEF InBook
<1>3. ASSUME UNCHANGED BookOfStore, HandOf(e).stage # "over", pc'[e] = "done" PROVE InBook
  <2>1. HandOf(e)' = Hand("over", NoAlarm)
    BY <1>3 DEF HandOf
  <2>2. QED
    BY <1>1, <1>3, <2>1, GivesUp
<1>4. pc[e] # "settle" => HandOf(e).stage # "over"
  <2>1. pc[e] # "settle" => HandOf(e) \in {Hand("bound", work[e].alarm), Hand("free", NoAlarm)}
    BY <1>1 DEF HandOf
  <2>2. QED
    BY <2>1 DEF Hand
<1>5. CASE Lookup(e) \/ ListAlarms(e)
  <2>1. /\ pc[e] \in {"lookup", "list"} /\ pc'[e] \in {"list", "get", "incr"}
        /\ UNCHANGED redisVars
    BY <1>5 DEF Lookup, ListAlarms, Goto, TypeOK, redisVars
  <2>2. HandOf(e)' = HandOf(e)
    BY <2>1 DEF HandOf
  <2>3. QED
    BY <1>1, <1>2, <2>1, <2>2, ReadInBook
<1>6. CASE GetAlarmsNotFound(e) \/ GetAlarmsUnrelated(e)
  <2>1. /\ pc[e] = "get" /\ pc'[e] \in {"incr", "done"} /\ UNCHANGED redisVars
    BY <1>6 DEF GetAlarmsNotFound, GetAlarmsUnrelated, Reply, Goto, TypeOK, redisVars
  <2>2. UNCHANGED BookOfStore
    BY <1>1, <2>1, ReadInBook
  <2>3. pc'[e] = "incr" => HandOf(e)' = HandOf(e)
    BY <2>1 DEF HandOf
  <2>4. QED
    BY <1>2, <1>3, <1>4, <2>1, <2>2, <2>3
<1>7. CASE IncrId(e)
  <2>1. /\ pc[e] = "incr" /\ pc'[e] = "save" /\ work'[e].alarm = counter + 1
        /\ counter' = counter + 1 /\ UNCHANGED <<store, faults, maintFaults>>
    BY <1>7 DEF IncrId, NextId, Goto, TypeOK, Work
  <2>2. \A x \in AlarmId : NotYetStored(x)' <=> NotYetStored(x)
    BY <1>1, <2>1 DEF NotYetStored, InCreation, Creating, TypeOK, AlarmId
  <2>3. UNCHANGED BookOfStore
    BY <2>1, <2>2, EntryKept, SameBook DEF Outstanding
  <2>4. HandOf(e)' = HandOf(e)
    BY <2>1 DEF HandOf
  <2>5. QED
    BY <1>2, <2>3, <2>4
<1>8. CASE CheckMaint(e)
  <2>1. /\ pc[e] = "maint" /\ pc'[e] = "update" /\ work'[e].alarm = work[e].alarm
        /\ UNCHANGED redisVars
    <3>1. pc[e] = "maint" /\ pc'[e] = "update" /\ UNCHANGED redisVars
      BY <1>8 DEF CheckMaint, Goto, TypeOK, redisVars
    <3>2. work'[e].alarm = work[e].alarm
      BY <1>8, <3>1, ChoiceLocals DEF HandlerStep, GetAlarmsRelated, IncrId
    <3>3. QED
      BY <3>1, <3>2
  <2>2. HandOf(e)' = HandOf(e)
    BY <2>1 DEF HandOf
  <2>3. QED
    BY <1>1, <1>2, <2>1, <2>2, ReadInBook
<1>9. CASE Update(e)
  <2>1. /\ pc[e] = "update" /\ pc'[e] = "settle" /\ ApplyEvent(e) /\ counter' = counter
        /\ work'[e].alarm = work[e].alarm /\ work'[e].emptied = Emptied(e)
    BY <1>9, UpdateWrites
  <2>2. \/ HandOf(e)' = Hand("over", NoAlarm)
        \/ Emptied(e) /\ HandOf(e)' = Hand("closing", work[e].alarm)
    BY <2>1 DEF HandOf
  <2>3. QED
    BY <1>1, <2>1, <2>2, ApplyInBook
<1>10. CASE UpdateFails(e)
  <2>1. /\ pc[e] = "update" /\ pc'[e] = "done" /\ counter' = counter
        /\ ApplyEvent(e) \/ UNCHANGED <<store, faults, maintFaults>>
    BY <1>10 DEF UpdateFails, Goto, TypeOK
  <2>2. HandOf(e)' = Hand("over", NoAlarm)
    BY <2>1 DEF HandOf
  <2>3. CASE ApplyEvent(e)
    BY <1>1, <2>1, <2>2, <2>3, ApplyInBook
  <2>4. CASE UNCHANGED <<store, faults, maintFaults>>
    <3>1. UNCHANGED redisVars
      BY <1>10, <2>4 DEF UpdateFails, redisVars
    <3>2. UNCHANGED BookOfStore
      BY <1>1, <2>1, <3>1, ReadInBook
    <3>3. QED
      BY <1>3, <1>4, <2>1, <3>2
  <2>5. QED
    BY <2>1, <2>3, <2>4
<1>11. CASE Settle(e) \/ CloseFails(e)
  <2>1. /\ pc[e] = "settle" /\ pc'[e] = "done"
        /\ UNCHANGED <<counter, index, faults, maintFaults>>
        /\ CloseFails(e) => work[e].emptied
        /\ (work[e].emptied /\ CloseAlarm(e)) \/ UNCHANGED store
        /\ Settle(e) /\ work[e].emptied => CloseAlarm(e)
    BY <1>11 DEF Settle, CloseFails, Announce, Goto, TypeOK
  <2>2. CASE work[e].emptied /\ CloseAlarm(e)
    BY <1>1, <2>1, <2>2, CloseInBook
  <2>3. CASE UNCHANGED store /\ ~(work[e].emptied /\ CloseAlarm(e))
    <3>1. UNCHANGED BookOfStore
      <4>1. UNCHANGED redisVars
        BY <2>1, <2>3 DEF redisVars
      <4>2. QED
        BY <1>1, <2>1, <4>1, ReadInBook
    <3>2. CASE work[e].emptied
      <4>1. HandOf(e) = Hand("closing", work[e].alarm)
        BY <2>1, <3>2 DEF HandOf
      <4>2. QED
        BY <1>3, <2>1, <3>1, <4>1 DEF Hand
    <3>3. CASE ~work[e].emptied
      <4>1. HandOf(e)' = HandOf(e)
        BY <2>1, <3>3 DEF HandOf
      <4>2. QED
        BY <1>2, <3>1, <4>1
    <3>4. QED
      BY <3>2, <3>3
  <2>4. QED
    BY <2>1, <2>2, <2>3
<1>12. CASE CommandFails(e)
  <2>1. CASE pc[e] = "save"
    BY <1>12, <2>1, LosesId
  <2>2. CASE pc[e] # "save"
    <3>1. pc[e] # "settle" /\ pc'[e] = "done" /\ UNCHANGED redisVars
      BY <1>12 DEF CommandFails, Reply, Goto, TypeOK
    <3>2. UNCHANGED BookOfStore
      BY <1>1, <2>2, <3>1, ReadInBook
    <3>3. QED
      BY <1>3, <1>4, <3>1, <3>2
  <2>3. QED
    BY <2>1, <2>2
<1>13. QED
  BY <1>5, <1>6, <1>7, <1>8, <1>9, <1>10, <1>11, <1>12, BindInBook, StartInBook, LosesId
  DEF HandlerStep, HandlerFails

\* An API call closes, reopens or removes its alarm in one step.
LEMMA RequestInBook ==
  ASSUME TypeOK, TypeOK', StoreInv, NEW r \in Requests, RequestStep(r)
  PROVE  InBook
<1> PICK id : id = req[r].id
  OBVIOUS
<1>1. UNCHANGED <<pc, work>> /\ req[r].pc = "act" /\ id \in AlarmId /\ counter' = counter
  BY RequestLocals DEF TypeOK, TargetSet, RequestStep, SetAlarm, DeleteAlarm
<1>2. UNCHANGED Held
  BY <1>1, SameHands DEF HandOf
<1>3. \A x \in AlarmId : NotYetStored(x)' <=> NotYetStored(x)
  BY <1>1 DEF NotYetStored, InCreation, Creating
<1>4. ~NotYetStored(id)
  BY <1>1 DEF StoreInv, FreshIdsUnknown
<1>5. CASE SetAlarm(r)
  <2>1. /\ \A x \in AlarmId \ {id} : store'[x] = store[x]
        /\ \A x \in AlarmId : Outstanding(x)' = Outstanding(x)
        /\ Whole(id)' <=> Whole(id)
        /\ Whole(id) => store'[id].closed = IF req[r].op = "close" THEN TRUE
                                            ELSE IF req[r].op = "reopen" THEN FALSE
                                            ELSE store[id].closed
    BY <1>5, SetAlarmWrites
  <2>2. \A x \in AlarmId \ {id} : Entry(x)' = Entry(x)
    BY <1>3, <2>1, EntryKept
  <2>3. ~Whole(id) => Entry(id)' = Entry(id)
    BY <1>1, <1>3, <2>1, NoEntryKept
  <2>4. Whole(id) => Entry(id)' = [state |-> IF store'[id].closed THEN "closed" ELSE "open",
                                   faults |-> BookOfStore[id].faults]
    <3>1. Whole(id) => BookState(id)' = IF store'[id].closed THEN "closed" ELSE "open"
      BY <2>1 DEF BookState
    <3>2. QED
      BY <1>1, <2>1, <3>1, EntryInBook DEF Entry
  <2> PICK F : F = BookOfStore[id].faults
    OBVIOUS
  <2>5. CASE req[r].op = "close"
    <3>1. Whole(id) => Entry(id)' = [state |-> "closed", faults |-> F]
      BY <2>1, <2>4, <2>5
    <3>2. Book!Change(id, "closed", F)
      BY <1>1, <2>2, <2>3, <3>1, ChangeBook
    <3>3. QED
      BY <1>1, <1>2, <3>2 DEF InBook, Book!BookNext, Book!Close, Held
  <2>6. CASE req[r].op = "reopen" /\ Whole(id)
    <3>1. Entry(id)' = [state |-> "open", faults |-> F]
      BY <2>1, <2>4, <2>6
    <3>2. Book!Enter(id, "open", F)
      BY <1>1, <2>2, <3>1, EnterBook
    <3>3. QED
      BY <1>1, <1>2, <2>6, <3>2, EntryInBook DEF InBook, Book!BookNext, Book!Reopen, Held
  <2>7. CASE ~Whole(id) \/ req[r].op \notin {"close", "reopen"}
    <3>1. Entry(id)' = Entry(id)
      <4>1. Whole(id) => store'[id].closed = store[id].closed
        BY <2>1, <2>7
      <4>2. Whole(id) => BookState(id)' = BookState(id)
        BY <2>1, <4>1 DEF BookState
      <4>3. Whole(id) => Entry(id)' = Entry(id)
        BY <1>1, <2>1, <4>2 DEF Entry
      <4>4. QED
        BY <2>3, <4>3
    <3>2. QED
      BY <1>2, <2>2, <3>1, SameBook DEF InBook
  <2>8. QED
    BY <2>5, <2>6, <2>7
<1>6. CASE DeleteAlarm(r)
  <2>1. ~Whole(id)' /\ \A x \in AlarmId \ {id} : store'[x] = store[x]
                                                 /\ Outstanding(x)' = Outstanding(x)
    BY <1>6, DeleteWrites
  <2>2. \A x \in AlarmId \ {id} : Entry(x)' = Entry(x)
    BY <1>3, <2>1, EntryKept
  <2>3. Whole(id) => Entry(id)' = [state |-> "gone", faults |-> {}]
    BY <1>1, <1>3, <1>4, <2>1 DEF Entry, BookState
  <2>4. ~Whole(id) => Entry(id)' = Entry(id)
    BY <1>1, <1>3, <2>1, NoEntryKept
  <2>5. Book!Change(id, "gone", {})
    BY <1>1, <2>2, <2>3, <2>4, ChangeBook
  <2>6. QED
    BY <1>1, <1>2, <2>5 DEF InBook, Book!BookNext, Book!Remove, Held
<1>7. QED
  BY <1>5, <1>6 DEF RequestStep

LEMMA StepInBook ==
  ASSUME TypeOK, TypeOK', StoreInv, [Next]_vars
  PROVE  InBook
<1>1. ASSUME UNCHANGED redisVars, UNCHANGED <<pc, work>> PROVE InBook
  <2>1. \A x \in AlarmId : NotYetStored(x)' <=> NotYetStored(x)
    BY <1>1 DEF NotYetStored, InCreation, Creating, redisVars
  <2>2. UNCHANGED BookOfStore
    BY <1>1, <2>1, EntryKept, SameBook DEF redisVars, Outstanding
  <2>3. UNCHANGED Held
    BY <1>1, SameHands DEF HandOf
  <2>4. QED
    BY <2>2, <2>3 DEF InBook
<1>2. ASSUME NEW e \in Events, Receive(e) PROVE InBook
  <2>1. /\ \A d \in Events \ {e} : pc'[d] = pc[d] /\ work'[d] = work[d]
        /\ pc[e] = "idle" /\ pc'[e] \in {"lookup", "done"} /\ UNCHANGED redisVars
    BY <1>2, ReceiveLocals
  <2>2. UNCHANGED BookOfStore
    BY <2>1, ReadInBook
  <2>3. CASE pc'[e] = "lookup"
    <3>1. \A d \in Events : HandOf(d)' = HandOf(d)
      BY <2>1, <2>3 DEF HandOf
    <3>2. QED
      BY <2>2, <3>1, SameHands DEF InBook
  <2>4. CASE pc'[e] = "done"
    <3>1. HandOf(e) = Hand("free", NoAlarm) /\ HandOf(e)' = Hand("over", NoAlarm)
      BY <2>1, <2>4 DEF HandOf
    <3>2. HandOf(e).stage # "over"
      BY <3>1 DEF Hand
    <3>3. QED
      BY <2>1, <2>2, <3>1, <3>2, GivesUp
  <2>5. QED
    BY <2>1, <2>3, <2>4
<1>3. ASSUME NEW r \in Requests, BeginRequest(r) \/ RequestFails(r) PROVE InBook
  BY <1>1, <1>3, BeginLocals DEF RequestFails
<1>4. QED
  BY <1>1, <1>2, <1>3, HandlerInBook, RequestInBook, WhoMoves

\* However events, API calls and failures overlap, every step of the store is one of
\* the book's or leaves it unchanged: an event is bound to an alarm that is open at that
\* moment and acts on it once, only a clear that left the alarm without faults closes
\* it, and what was deleted never comes back.
THEOREM StoreKeepsBook == Spec => KeepsBook
<1>1. Init => Book!BookInit
  <2> SUFFICES ASSUME Init PROVE Book!BookInit
    OBVIOUS
  <2>1. \A id \in AlarmId : Entry(id) = [state |-> "none", faults |-> {}]
    <3> TAKE id \in AlarmId
    <3>1. ~Whole(id) /\ NotYetStored(id)
      BY AlarmsAssumption DEF Init, Whole, NoHash, NotYetStored, AlarmId
    <3>2. QED
      BY <3>1 DEF Entry, BookState
  <2>2. BookOfStore = [id \in AlarmId |-> Entry(id)]
    BY DEF BookOfStore, Entry
  <2>3. \A e \in Events : HandOf(e) = Hand("free", NoAlarm)
    BY DEF Init, HandOf
  <2>4. BookOfStore = [id \in AlarmId |-> [state |-> "none", faults |-> {}]]
    BY <2>1, <2>2
  <2>5. [e \in Events |-> HandOf(e)] = [e \in Events |-> [stage |-> "free", alarm |-> NoAlarm]]
    BY <2>3 DEF Hand
  <2>6. QED
    BY <2>4, <2>5 DEF Book!BookInit
<1>2. TypeOK /\ TypeOK' /\ StoreInv /\ [Next]_vars
        => [Book!BookNext]_<<BookOfStore, [e \in Events |-> HandOf(e)]>>
  BY StepInBook DEF InBook, Held
<1>3. QED
  BY <1>1, <1>2, StoreIsSound, TypeCorrect, PTL DEF Spec, KeepsBook, Book!BookSpec
=============================================================================
