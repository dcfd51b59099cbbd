------------------------------- MODULE Alarms -------------------------------
(***************************************************************************)
(* The alarm store of one user in the Amon master: the redis keys           *)
(* 'alarmIds', 'alarms:USER', 'alarm:USER:ID', 'faults:USER:ID' and         *)
(* 'maintFaults:USER:ID', the handlers of POST /events that read and write  *)
(* them (App.processEvent, App.getOrCreateAlarm, Alarm.handleEvent) and the *)
(* handlers of the /pub/:user/alarms API.                                   *)
(*                                                                          *)
(* The master is one Node process: a handler runs without interruption from *)
(* one redis reply to its next redis command, and any other handler may run *)
(* while it waits.  One action below is therefore one redis command (or one *)
(* MULTI/EXEC) together with the code that decided to send it.  All keys    *)
(* hold the user's UUID, so users do not interact and one user is modelled. *)
(***************************************************************************)
EXTENDS Integers, FiniteSets

CONSTANTS
  Events,        \* deliveries of an event to POST /events, each used once
  Requests,      \* calls of the alarms API, each used once
  Probes,        \* the user's probes
  GroupOf,       \* GroupOf[p]: the probe's `group`, or None
  GroupEvents,   \* the probes whose `groupEvents` is not false
  None,          \* an absent probe or group
  Operations,    \* the API operations tried in this instance
  MaintAnswers,  \* what isEventInMaintenance may answer in this instance
  DropSkew,      \* EVENT_DROP_SKEW_MS
  NewAlarmGap,   \* NEW_ALARM_GAP
  MaxTime,       \* bound: the clock stops here
  MaxAlarms,     \* bound: ids handed out
  MaxErrors      \* bound: redis and UFDS failures

ASSUME AlarmsAssumption ==
  /\ None \notin Probes
  /\ GroupEvents \subseteq Probes
  /\ DOMAIN GroupOf = Probes
  /\ \A p \in Probes : GroupOf[p] \notin Probes
  /\ Operations \subseteq
       {"get", "close", "reopen", "suppress", "unsuppress", "delete"}
  /\ MaintAnswers \subseteq BOOLEAN
  /\ DropSkew \in Nat /\ NewAlarmGap \in Nat
  /\ MaxTime \in Nat \ {0} /\ MaxAlarms \in Nat
  /\ MaxErrors \in Nat

VARIABLES
  now,         \* Date.now()
  counter,     \* redis hash field alarmIds[USER]
  index,       \* redis set 'alarms:USER'
  store,       \* redis hashes 'alarm:USER:ID'
  faults,      \* redis hashes 'faults:USER:ID', by the probe of the fault id
  maintFaults, \* redis hashes 'maintFaults:USER:ID'
  pc,          \* per event: the command its handler sends next
  work,        \* per event: the handler's local variables
  req,         \* per API call: the handler's state
  errors       \* failures so far

redisVars == <<counter, index, store, faults, maintFaults>>
vars == <<now, redisVars, pc, work, req, errors>>

AlarmId == 1..MaxAlarms
NoAlarm == 0
Time == 0..MaxTime
NoTime == 0

\* An alarm belongs to the probe's group if there is one, else to the probe.
Association(p) == IF GroupOf[p] = None THEN p ELSE GroupOf[p]
Associations == {Association(p) : p \in Probes}

\* A hash without `id` and `user` is what HSET leaves when the key was gone.
AlarmHash == [state: {"absent", "partial", "whole"},
              assoc: Associations \cup {None},
              closed: BOOLEAN, suppressed: BOOLEAN, timeLastEvent: Time]
NoHash == [state |-> "absent", assoc |-> None, closed |-> FALSE,
           suppressed |-> FALSE, timeLastEvent |-> NoTime]
Exists(id) == store[id].state # "absent"
Whole(id) == store[id].state = "whole"

EventPC == {"idle", "lookup", "list", "get", "incr", "save", "maint",
            "update", "settle", "done"}
Holding == {"save", "maint", "update", "settle"}  \* it has an alarm id
Answer == {"none", "ok", "tooOld", "notFound", "error"}
Work == [probe: Probes \cup {None}, clear: BOOLEAN, time: Time,
         listed: SUBSET AlarmId, alarm: AlarmId \cup {NoAlarm},
         muted: BOOLEAN, maint: BOOLEAN, changed: BOOLEAN, emptied: BOOLEAN,
         notified: BOOLEAN, answer: Answer,
         earlier: SUBSET Events]  \* history: the events answered when it came
NoWork == [probe |-> None, clear |-> FALSE, time |-> NoTime,
           listed |-> {}, alarm |-> NoAlarm,
           muted |-> FALSE, maint |-> FALSE, changed |-> FALSE,
           emptied |-> FALSE, notified |-> FALSE, answer |-> "none",
           earlier |-> {}]
Request == [pc: {"idle", "act", "done"},
            op: {"get", "close", "reopen", "suppress", "unsuppress", "delete"},
            id: AlarmId \cup {NoAlarm}, status: {0, 200, 404, 410, 500}]

\* A handler's locals are set where it uses them.
LocalsSet ==
  \A e \in Events : /\ pc[e] # "idle" => work[e].probe \in Probes
                    /\ pc[e] \in Holding => work[e].alarm \in AlarmId
TargetSet == \A r \in Requests : req[r].pc = "act" => req[r].id \in AlarmId

TypeOK ==
  /\ now \in 1..MaxTime
  /\ counter \in 0..MaxAlarms
  /\ index \in SUBSET AlarmId
  /\ store \in [AlarmId -> AlarmHash]
  /\ faults \in [AlarmId -> SUBSET Probes]
  /\ maintFaults \in [AlarmId -> SUBSET Probes]
  /\ pc \in [Events -> EventPC]
  /\ work \in [Events -> Work]
  /\ req \in [Requests -> Request]
  /\ errors \in 0..MaxErrors
  /\ LocalsSet
  /\ TargetSet

Init ==
  /\ now = 1
  /\ counter = 0
  /\ index = {}
  /\ store = [id \in AlarmId |-> NoHash]
  /\ faults = [id \in AlarmId |-> {}]
  /\ maintFaults = [id \in AlarmId |-> {}]
  /\ pc = [e \in Events |-> "idle"]
  /\ work = [e \in Events |-> NoWork]
  /\ req = [r \in Requests |->
              [pc |-> "idle", op |-> "get", id |-> NoAlarm, status |-> 0]]
  /\ errors = 0

-----------------------------------------------------------------------------
(* Helpers *)

Active == {e \in Events : pc[e] \notin {"idle", "done"}}
Acting == {r \in Requests : req[r].pc = "act"}

Fails == errors < MaxErrors /\ errors' = errors + 1
Goto(e, next) == pc' = [pc EXCEPT ![e] = next]
Reply(e, answer) == /\ Goto(e, "done")
                    /\ work' = [work EXCEPT ![e].answer = answer]

\* HSET/HMSET of a field: a key that is gone comes back as a partial hash.
SetField(id, hash) ==
  [store EXCEPT ![id] = IF Whole(id) THEN hash
                        ELSE [NoHash EXCEPT !.state = "partial"]]

\* Mutant: any open alarm will do.
CandidatesOfAnyoneBug(e) ==
  {id \in work[e].listed : Whole(id) /\ ~store[id].closed}
\* Mutant: closed alarms are candidates too.
CandidatesClosedBug(e) ==
  {id \in work[e].listed : /\ Whole(id)
                           /\ store[id].assoc = Association(work[e].probe)}
\* Alarm.filter: the listed alarms of this association that are open.
Candidates(e) ==
  {id \in work[e].listed : /\ Whole(id)
                           /\ ~store[id].closed
                           /\ store[id].assoc = Association(work[e].probe)}
\* chooseRelatedAlarm: the candidates that may sort first ...
MostRecent(e) ==
  {a \in Candidates(e) : \A b \in Candidates(e) :
     store[b].timeLastEvent <= store[a].timeLastEvent}
\* Mutant: only a clear that comes soon enough is related to an alarm.
RelatedBug(e) ==
  {a \in MostRecent(e) : /\ store[a].timeLastEvent # NoTime
                         /\ work[e].clear
                         /\ work[e].time - store[a].timeLastEvent < NewAlarmGap}
\* ... and those of them the event is related to.
Related(e) ==
  {a \in MostRecent(e) :
     /\ store[a].timeLastEvent # NoTime
     /\ \/ work[e].clear
        \/ work[e].time - store[a].timeLastEvent < NewAlarmGap}

-----------------------------------------------------------------------------
(* POST /events *)

Tick == /\ now < MaxTime
        /\ now' = now + 1
        /\ UNCHANGED <<redisVars, pc, work, req, errors>>

\* An event arrives; one older than DropSkew is refused (EventTooOldError).
Arrival(p, c, t) ==
  [NoWork EXCEPT !.probe = p, !.clear = c, !.time = t,
                 !.earlier = {d \in Events : pc[d] = "done"},
                 !.answer = IF now - t > DropSkew THEN "tooOld" ELSE "none"]
Receive(e) ==
  /\ pc[e] = "idle"
  /\ \E p \in Probes, c \in BOOLEAN, t \in 1..now :
       /\ work' = [work EXCEPT ![e] = Arrival(p, c, t)]
       /\ Goto(e, IF now - t > DropSkew THEN "done" ELSE "lookup")
  /\ UNCHANGED <<now, redisVars, req, errors>>

\* The user, the probe and its group are read from UFDS.  That the group cannot be
\* read is ignored.  A probe with groupEvents = false always gets an alarm of its
\* own; otherwise a related alarm is looked for.
Lookup(e) ==
  /\ pc[e] = "lookup"
  /\ errors' = errors \/ (GroupOf[work[e].probe] # None /\ Fails)
  /\ Goto(e, IF work[e].probe \in GroupEvents THEN "list" ELSE "incr")
  /\ UNCHANGED <<now, redisVars, work, req>>

\* Mutant: every id drawn so far is taken for an alarm.
ListAlarmsBug(e) ==
  /\ pc[e] = "list"
  /\ work' = [work EXCEPT ![e].listed = 1..counter]
  /\ Goto(e, "get")
  /\ UNCHANGED <<now, redisVars, req, errors>>
\* SMEMBERS alarms:USER
ListAlarms(e) ==
  /\ pc[e] = "list"
  /\ work' = [work EXCEPT ![e].listed = index]
  /\ Goto(e, "get")
  /\ UNCHANGED <<now, redisVars, req, errors>>

\* Alarm.get of every listed id, pipelined.  One missing hash fails them all.
GetAlarmsNotFound(e) ==
  /\ pc[e] = "get"
  /\ \E id \in work[e].listed : ~Exists(id)
  /\ Reply(e, "notFound")
  /\ UNCHANGED <<now, redisVars, req, errors>>

GetAlarmsRelated(e) ==
  /\ pc[e] = "get"
  /\ \A id \in work[e].listed : Exists(id)
  /\ \E a \in Related(e) :
       work' = [work EXCEPT ![e] = [@ EXCEPT !.alarm = a,
                                             !.muted = store[a].suppressed]]
  /\ Goto(e, "maint")
  /\ UNCHANGED <<now, redisVars, req, errors>>

\* No related alarm: a clear is dropped, a fault gets a new alarm.
GetAlarmsUnrelated(e) ==
  /\ pc[e] = "get"
  /\ \A id \in work[e].listed : Exists(id)
  /\ Related(e) = {}
  /\ IF work[e].clear THEN Reply(e, "ok")
                      ELSE Goto(e, "incr") /\ UNCHANGED work
  /\ UNCHANGED <<now, redisVars, req, errors>>

\* Mutant: the new id is not handed on.
NextIdUnsetBug(e) == counter < MaxAlarms /\ counter' = counter + 1 /\ UNCHANGED work
\* Mutant: ids follow the number of alarms listed.
NextIdFromListBug(e) ==
  LET n == Cardinality(index) + 1
  IN  /\ n <= MaxAlarms
      /\ counter' = IF n > counter THEN n ELSE counter
      /\ work' = [work EXCEPT ![e].alarm = n]
\* createAlarm: HINCRBY alarmIds
NextId(e) == /\ counter < MaxAlarms
             /\ counter' = counter + 1
             /\ work' = [work EXCEPT ![e].alarm = counter + 1]
IncrId(e) ==
  /\ pc[e] = "incr"
  /\ NextId(e)
  /\ Goto(e, "save")
  /\ UNCHANGED <<now, index, store, faults, maintFaults, req, errors>>

\* createAlarm: MULTI SADD, HMSET EXEC
StoreAlarm(e) ==
  /\ index' = index \cup {work[e].alarm}
  /\ store' = [store EXCEPT ![work[e].alarm] =
       [NoHash EXCEPT !.state = "whole",
                      !.assoc = Association(work[e].probe)]]
SaveAlarm(e) ==
  /\ pc[e] = "save"
  /\ StoreAlarm(e)
  /\ Goto(e, "maint")
  /\ UNCHANGED <<now, counter, faults, maintFaults, work, req, errors>>

\* isEventInMaintenance (its windows are the subject of module Maintenances)
CheckMaint(e) ==
  /\ pc[e] = "maint"
  /\ \E m \in MaintAnswers : work' = [work EXCEPT ![e].maint = m]
  /\ Goto(e, "update")
  /\ UNCHANGED <<now, redisVars, req, errors>>

\* handleEvent: one MULTI/EXEC that counts the faults, stamps the alarm,
\* moves the event's fault and counts again.
FaultsAfter(e) ==
  LET w == work[e]
  IN  [faults EXCEPT ![w.alarm] = IF w.clear THEN @ \ {w.probe}
                                  ELSE IF w.maint THEN @ ELSE @ \cup {w.probe}]
MaintFaultsAfter(e) ==
  LET w == work[e]
  IN  [maintFaults EXCEPT ![w.alarm] =
         IF w.clear THEN @ \ {w.probe}
         ELSE IF w.maint THEN @ \cup {w.probe} ELSE @]
ApplyEvent(e) ==
  LET id == work[e].alarm
  IN  /\ store' = SetField(id, [store[id] EXCEPT !.timeLastEvent = work[e].time])
      /\ faults' = FaultsAfter(e)
      /\ maintFaults' = MaintFaultsAfter(e)
\* Mutant: the counts taken before the clear decide.
EmptiedBug(e) == /\ work[e].clear
                 /\ faults[work[e].alarm] = {}
                 /\ maintFaults[work[e].alarm] = {}
\* Mutant: faults in maintenance do not keep an alarm open.
EmptiedRealBug(e) == work[e].clear /\ FaultsAfter(e)[work[e].alarm] = {}
Emptied(e) == /\ work[e].clear
              /\ FaultsAfter(e)[work[e].alarm] = {}
              /\ MaintFaultsAfter(e)[work[e].alarm] = {}
\* Its replies: whether the number of real faults changed, and whether a clear
\* left no fault of either kind.
Update(e) ==
  /\ pc[e] = "update"
  /\ ApplyEvent(e)
  /\ LET id == work[e].alarm
     IN  work' = [work EXCEPT ![e] = [@ EXCEPT
                    !.changed = (faults'[id] # faults[id]),
                    !.emptied = Emptied(e)]]
  /\ Goto(e, "settle")
  /\ UNCHANGED <<now, counter, index, req, errors>>

CloseAlarm(e) ==
  LET id == work[e].alarm
  IN  store' = SetField(id, [store[id] EXCEPT !.closed = TRUE])
\* Mutant: only the end of an alarm is announced.
AnnounceBug(e, answer) ==
  /\ work' = [work EXCEPT ![e] = [@ EXCEPT
                 !.notified = work[e].emptied /\ ~work[e].muted,
                 !.answer = answer]]
  /\ Goto(e, "done")
Announce(e, answer) ==
  /\ work' = [work EXCEPT ![e] = [@ EXCEPT
                 !.notified = work[e].changed /\ ~work[e].muted,
                 !.answer = answer]]
  /\ Goto(e, "done")
\* handleEvent, reply of the EXEC: a second command closes an emptied alarm,
\* and contacts are notified unless the copy read earlier was suppressed.
Settle(e) ==
  /\ pc[e] = "settle"
  /\ IF work[e].emptied THEN CloseAlarm(e) ELSE UNCHANGED store
  /\ Announce(e, "ok")
  /\ UNCHANGED <<now, counter, index, faults, maintFaults, req, errors>>

-----------------------------------------------------------------------------
(* Failures of a command: it was not executed, or its reply was lost *)

\* A failed UFDS lookup, redis read or redis write before any effect.
CommandFails(e) ==
  /\ pc[e] \in {"lookup", "list", "get", "incr", "save", "maint"}
  /\ Fails
  /\ Reply(e, "error")
  /\ UNCHANGED <<now, redisVars, req>>

\* HINCRBY was executed: the id is lost.
IncrReplyLost(e) ==
  /\ pc[e] = "incr"
  /\ counter < MaxAlarms /\ counter' = counter + 1
  /\ Fails
  /\ Reply(e, "error")
  /\ UNCHANGED <<now, index, store, faults, maintFaults, req>>

\* The alarm was stored: it stays without its event.
SaveReplyLost(e) ==
  /\ pc[e] = "save"
  /\ StoreAlarm(e)
  /\ Fails
  /\ Reply(e, "error")
  /\ UNCHANGED <<now, counter, faults, maintFaults, req>>

\* handleEvent's EXEC failed (executed or not): answer the error, notify anyway.
UpdateFails(e) ==
  /\ pc[e] = "update"
  /\ ApplyEvent(e) \/ UNCHANGED <<store, faults, maintFaults>>
  /\ Fails
  /\ work' = [work EXCEPT ![e] = [@ EXCEPT !.notified = ~work[e].muted,
                                          !.answer = "error"]]
  /\ Goto(e, "done")
  /\ UNCHANGED <<now, counter, index, req>>

\* The closing HMSET failed (executed or not): the notification is sent.
CloseFails(e) ==
  /\ pc[e] = "settle" /\ work[e].emptied
  /\ Fails
  /\ CloseAlarm(e) \/ UNCHANGED store
  /\ Announce(e, "error")
  /\ UNCHANGED <<now, counter, index, faults, maintFaults, req>>

-----------------------------------------------------------------------------
(* The alarms API *)

\* reqGetAlarm: Alarm.get; a hash that makes no alarm is told by its id to be
\* expunged (410) or unknown (404), a missing hash is always 404.
BeginRequest(r) ==
  /\ req[r].pc = "idle"
  /\ \E op \in Operations, id \in AlarmId :
       LET status == IF Whole(id) THEN IF op = "get" THEN 200 ELSE 0
                     ELSE IF Exists(id) /\ id <= counter THEN 410 ELSE 404
       IN  req' = [req EXCEPT ![r] =
             [pc |-> IF status = 0 THEN "act" ELSE "done",
              op |-> op, id |-> id, status |-> status]]
  /\ UNCHANGED <<now, redisVars, pc, work, errors>>

RequestDone(r, status) ==
  req' = [req EXCEPT ![r] = [@ EXCEPT !.pc = "done", !.status = status]]
\* The command was executed; its reply may be lost.
Answered(r) ==
  \/ RequestDone(r, 200) /\ errors' = errors
  \/ RequestDone(r, 500) /\ Fails

\* apiCloseAlarm, apiReopenAlarm, apiSuppress..., apiUnsuppress...: set a field
\* of the hash, whether or not it is still there.
SetAlarm(r) ==
  /\ req[r].pc = "act" /\ req[r].op # "delete"
  /\ LET id == req[r].id
         op == req[r].op
     IN  store' = SetField(id, [store[id] EXCEPT
           !.closed = IF op = "close" THEN TRUE
                      ELSE IF op = "reopen" THEN FALSE ELSE @,
           !.suppressed = IF op = "suppress" THEN TRUE
                          ELSE IF op = "unsuppress" THEN FALSE ELSE @])
  /\ Answered(r)
  /\ UNCHANGED <<now, counter, index, faults, maintFaults, pc, work>>

\* Mutant: the SREM is missing.
UnlistBug(id) == index' = index
Unlist(id) == index' = index \ {id}
\* apiDeleteAlarm: MULTI SREM, DEL, DEL, DEL EXEC
DeleteAlarm(r) ==
  /\ req[r].pc = "act" /\ req[r].op = "delete"
  /\ LET id == req[r].id
     IN  /\ Unlist(id)
         /\ store' = [store EXCEPT ![id] = NoHash]
         /\ faults' = [faults EXCEPT ![id] = {}]
         /\ maintFaults' = [maintFaults EXCEPT ![id] = {}]
  /\ Answered(r)
  /\ UNCHANGED <<now, counter, pc, work>>

\* The alarm could not be read, or the command was not executed.
RequestFails(r) ==
  /\ req[r].pc # "done"
  /\ Fails
  /\ RequestDone(r, 500)
  /\ UNCHANGED <<now, redisVars, pc, work>>

-----------------------------------------------------------------------------
\* The steps a running handler takes once redis and UFDS answer.
HandlerStep(e) ==
  \/ Lookup(e) \/ ListAlarms(e)
  \/ GetAlarmsNotFound(e) \/ GetAlarmsRelated(e) \/ GetAlarmsUnrelated(e)
  \/ IncrId(e) \/ SaveAlarm(e) \/ CheckMaint(e) \/ Update(e) \/ Settle(e)
HandlerFails(e) ==
  \/ CommandFails(e) \/ IncrReplyLost(e) \/ SaveReplyLost(e)
  \/ UpdateFails(e) \/ CloseFails(e)
RequestStep(r) == SetAlarm(r) \/ DeleteAlarm(r)

Next ==
  \/ Tick
  \/ \E e \in Events : Receive(e) \/ HandlerStep(e) \/ HandlerFails(e)
  \/ \E r \in Requests : BeginRequest(r) \/ RequestStep(r) \/ RequestFails(r)

Spec == Init /\ [][Next]_vars

\* redis and UFDS answer every command, so a handler that started goes on.
FairSpec == /\ Spec
            /\ \A e \in Events : WF_vars(HandlerStep(e))
            /\ \A r \in Requests : WF_vars(RequestStep(r))
-----------------------------------------------------------------------------
(* Safety *)

Creating(e) == pc[e] = "save"
InCreation(id) == \E e \in Events : Creating(e) /\ work[e].alarm = id
Outstanding(id) == faults[id] \cup maintFaults[id]
Open(id) == Whole(id) /\ ~store[id].closed
Quiet == Active = {} /\ Acting = {}

\* createAlarm never writes over another alarm: the id it drew from alarmIds is
\* held by no other creator, is not listed, and its key is still unused.
SaveFindsFreeKey ==
  \A e \in Events : Creating(e) =>
    /\ work[e].alarm \notin index
    /\ ~Exists(work[e].alarm)
    /\ \A d \in Events \ {e} : Creating(d) => work[d].alarm # work[e].alarm

\* Every id in alarms:USER has a complete hash, however the handlers that
\* write fields without checking the key interleave with deletions.
IndexedAlarmsAreWhole == \A id \in index : Whole(id)

\* An id that left alarms:USER never returns to it and is never drawn again: what
\* events and API calls write to a deleted alarm is not listed or matched.
NoRelisting ==
  [][\A id \in 1..counter : id \notin index /\ ~InCreation(id) =>
       id \notin index' /\ ~InCreation(id)']_vars

\* An event is refused because "alarm not found" only if an alarm it listed
\* was deleted between SMEMBERS and the HGETALLs.
FilterFailsOnlyOnDelete ==
  \A e \in Events : work[e].answer = "notFound" =>
    \E id \in work[e].listed : id \notin index /\ ~InCreation(id)

\* The faults of an alarm are those of the probes it stands for: no event
\* lands on the alarm of another probe or group.
FaultsBelongToAlarm ==
  \A id \in AlarmId : Whole(id) =>
    \A p \in Outstanding(id) : Association(p) = store[id].assoc

\* A fault event inside a maintenance window notifies nobody, unless redis
\* failed: another handler's update never shows up in its two counts.
MaintFaultIsSilent ==
  \A e \in Events :
    work[e].notified /\ work[e].maint /\ ~work[e].clear => work[e].answer = "error"

\* An alarm that has had no event is in the hands of the handler that made it:
\* without failures no alarm stays open for ever because no event relates to it.
EmptyAlarmIsInHand ==
  errors = 0 =>
    \A id \in AlarmId : Whole(id) /\ store[id].timeLastEvent = NoTime =>
      \E e \in Events : pc[e] \in {"maint", "update"} /\ work[e].alarm = id

\* An open alarm has outstanding faults or a handler about to close it: without
\* failures and reopening no fault-free alarm is left open.
OpenAlarmHasFaultOrCloser ==
  errors = 0 /\ (\A r \in Requests : req[r].op # "reopen") =>
    \A id \in AlarmId :
      Open(id) /\ store[id].timeLastEvent # NoTime /\ Outstanding(id) = {} =>
        \E e \in Events : /\ pc[e] = "settle"
                          /\ work[e].emptied
                          /\ work[e].alarm = id

\* So no alarm stays open with nobody who will ever close it.
OpenAlarmsAreTended == EmptyAlarmIsInHand /\ OpenAlarmHasFaultOrCloser

Made(e, id) == work[e].alarm = id /\ id \notin work[e].listed
Overlap(d, e) == d \notin work[e].earlier /\ e \notin work[d].earlier

\* Why an event may pass over an open alarm: its probe always gets an alarm of its
\* own, the alarm never got the event it was made for, an event of it was
\* NewAlarmGap ago, or a user reopened it.
Passes(e, id) ==
  \/ work[e].probe \notin GroupEvents
  \/ store[id].timeLastEvent = NoTime
  \/ \E x \in Events :
       work[x].alarm = id /\ work[e].time - work[x].time >= NewAlarmGap
  \/ \E r \in Requests : req[r].op = "reopen" /\ req[r].id = id
\* A probe or group gets a second open alarm only if it may pass over the first, or
\* from an event that came before the event the first was made for was answered.
OneOpenAlarm ==
  \A a, b \in AlarmId : \A d, e \in Events :
    /\ a # b /\ Open(a) /\ Open(b) /\ store[a].assoc = store[b].assoc
    /\ Made(d, a) /\ Made(e, b)
    => Passes(d, b) \/ Passes(e, a) \/ Overlap(d, e)

\* Unless users closed it, a closed alarm was closed after a clear that left it
\* without faults, and every fault it has now came while that clear was handled.
LateFaultsOverlap ==
  \A id \in AlarmId :
    /\ Whole(id) /\ store[id].closed
    /\ \A r \in Requests : ~(req[r].op = "close" /\ req[r].id = id)
    => \E c \in Events :
         /\ work[c].alarm = id /\ work[c].emptied
         /\ \A p \in Outstanding(id) :
              \E e \in Events : /\ work[e].alarm = id /\ work[e].probe = p
                               /\ ~work[e].clear /\ Overlap(c, e)

-----------------------------------------------------------------------------
(* Why these hold: the invariant that every step preserves *)

Chosen == {"maint", "update", "settle"}  \* the handler's alarm was stored
NotYetStored(id) == id > counter \/ InCreation(id)

\* Only its creator knows an id that is not stored yet.
FreshIdsUnknown ==
  /\ \A e \in Events :
       /\ pc[e] = "save" => work[e].alarm <= counter
       /\ pc[e] \in Chosen => ~NotYetStored(work[e].alarm)
       /\ pc[e] = "get" => \A id \in work[e].listed : ~NotYetStored(id)
  /\ \A r \in Requests : req[r].pc = "act" => ~NotYetStored(req[r].id)
\* Its keys are still unused and no two creators have the same.
FreshIdsUnused ==
  /\ \A id \in AlarmId : NotYetStored(id) =>
       id \notin index /\ ~Exists(id) /\ Outstanding(id) = {}
  /\ \A d, e \in Events :
       Creating(d) /\ Creating(e) /\ work[d].alarm = work[e].alarm => d = e
\* A handler's alarm, unless it was deleted, stands for the handler's probe.
AlarmIsForProbe ==
  \A e \in Events : pc[e] \in Chosen /\ Whole(work[e].alarm) =>
    store[work[e].alarm].assoc = Association(work[e].probe)
\* An event answered "notFound" had listed an alarm that is gone for good.
NotFoundMeansDeleted ==
  \A e \in Events : work[e].answer = "notFound" =>
    /\ pc[e] = "done"
    /\ \E id \in work[e].listed : id \notin index /\ ~NotYetStored(id)
\* Ids are drawn once, and what was deleted stays out of every later step: the
\* store is sound under any interleaving of events, API calls and failures.
StoreInv ==
  /\ FreshIdsUnknown /\ FreshIdsUnused
  /\ AlarmIsForProbe /\ NotFoundMeansDeleted
  /\ IndexedAlarmsAreWhole /\ FaultsBelongToAlarm

-----------------------------------------------------------------------------
(* The store keeps the promise of AlarmBook *)

BookState(id) ==
  IF Whole(id) THEN IF store[id].closed THEN "closed" ELSE "open"
  ELSE IF NotYetStored(id) THEN "none" ELSE "gone"
BookOfStore ==
  [id \in AlarmId |->
     [state |-> BookState(id), faults |-> IF Whole(id) THEN Outstanding(id) ELSE {}]]
Hand(stage, id) == [stage |-> stage, alarm |-> id]
HandOf(e) ==
  IF pc[e] \in {"maint", "update"} THEN Hand("bound", work[e].alarm)
  ELSE IF pc[e] = "settle" /\ work[e].emptied THEN Hand("closing", work[e].alarm)
  ELSE IF pc[e] \in {"settle", "done"} THEN Hand("over", NoAlarm)
  ELSE Hand("free", NoAlarm)

Book == INSTANCE AlarmBook WITH
          AlarmIds <- AlarmId, Handlers <- Events, Faults <- Probes, None <- NoAlarm,
          book <- BookOfStore, hand <- [e \in Events |-> HandOf(e)]

\* However events, API calls and failures overlap, an event is bound to an alarm
\* that is open at that moment and acts on it once; only a clear that left the alarm
\* without faults closes it; what was deleted never comes back.
KeepsBook == Book!BookSpec

-----------------------------------------------------------------------------
(* Liveness *)

\* A change in the number of real faults of an alarm that was not suppressed
\* when it was read is announced to the contacts.
ChangeAnnounced ==
  \A e \in Events : work[e].changed /\ ~work[e].muted ~> work[e].notified

-----------------------------------------------------------------------------
(* What the documentation says, and the code does not do *)

\* docs/index.md:146: events of all probes in a group are grouped under a
\* single alarm.  Two events that look for an alarm before either has updated
\* one create two.
GroupedUnderOneAlarm ==
  Quiet => \A a, b \in AlarmId :
    Open(a) /\ Open(b) /\ store[a].assoc = store[b].assoc => a = b

\* docs/index.md:191: an open alarm is the state of a failing probe.  A fault
\* recorded between a clear's EXEC and its closing HMSET is left on a closed
\* alarm.
FailingProbeHasOpenAlarm ==
  Quiet => \A id \in AlarmId : Whole(id) /\ Outstanding(id) # {} => Open(id)
=============================================================================
