---------------------------- MODULE AgentProofs ----------------------------
(***************************************************************************)
(* However the updates of an agent overlap and fail, every probe has the     *)
(* instance it should, and the two files are the cache when they should be.  *)
(***************************************************************************)
EXTENDS Agent, TLAPS

USE AgentAssumption

UpdateRecord == [pc: {"head", "get", "answered", "data", "md5"}, force: BOOLEAN, with: Values]

Stored ==
  /\ relay \in Lists /\ up \in BOOLEAN /\ mixed \in BOOLEAN
  /\ probeDataCache \in {None} \cup Lists
  /\ probeDataCacheMD5 \in Values
  /\ file \in [data: Values, md5: Values]
  /\ spent \in [changes: 0..MaxChanges, troubles: 0..MaxTroubles]

\* What was answered is a list; an agent that is down has no updates.
Updates ==
  /\ update \in [Polls -> {Idle} \cup UpdateRecord]
  /\ \A u \in Polls : update[u].pc = "answered" => update[u].with \in Lists
  /\ ~up => \A u \in Polls : update[u] = Idle

Running ==
  /\ probeFromUuid \in [Probes -> {None} \cup Data]
  /\ instances \in [Probes -> 0..1]
  /\ zwatcher \in {"none", "watching", "deaf"} /\ fresh \in BOOLEAN
  /\ \A p \in Probes : instances[p] = IF IsInstance(probeFromUuid[p]) THEN 1 ELSE 0
  /\ zwatcher \in IF NeedZoneEvents(probeFromUuid) THEN {"watching", "deaf"} ELSE {"none"}

\* An update that changes the cache saves it before it ends, and what runs once it has
\* ended is the cache of that moment.
Current ==
  /\ ~up => fresh
  /\ ~fresh /\ Saving = {} => probeFromUuid = Wanted(probeDataCache)

\* Between the first and the last byte of a save its update, the only one to save,
\* has the cache to write, and has written its list when it comes to the md5.
Saved ==
  ~mixed =>
    /\ \A u, v \in Saving : u = v
    /\ file.data \in {None} \cup Lists
    /\ Saving = {} => /\ file.data = file.md5
                      /\ up => file.data = probeDataCache /\ file.md5 = probeDataCacheMD5
    /\ \A u \in Saving :
         /\ probeDataCacheMD5 = probeDataCache /\ update[u].with = probeDataCache
         /\ update[u].pc = "md5" => file.data = probeDataCache

AgentInv == Stored /\ Updates /\ Running /\ Current /\ Saved

LEMMA IdleOrRecord ==
  /\ Idle.pc = "idle"
  /\ \A r \in UpdateRecord : r.pc # "idle" /\ r.with \in Values
BY DEF Idle, UpdateRecord

-----------------------------------------------------------------------------
(* The end of an update *)

LEMMA TodosKeep ==
  ASSUME Running, NEW list \in [Probes -> {None} \cup Data], HandleProbeTodos(list),
         fresh' = FALSE
  PROVE  Running'
<1>1. \A p \in Probes : instances[p] = IF IsInstance(probeFromUuid[p]) THEN 1 ELSE 0
  BY DEF Running
<1>2. probeFromUuid' = list /\ zwatcher' = WatcherFor(list)
  BY DEF HandleProbeTodos
<1>3. instances' \in [Probes -> 0..1]
      /\ \A p \in Probes : instances'[p] = IF IsInstance(list[p]) THEN 1 ELSE 0
  <2>1. ASSUME NEW p \in Probes
        PROVE  instances'[p] = IF IsInstance(list[p]) THEN 1 ELSE 0
    <3>1. instances'[p] =
            IF list[p] = probeFromUuid[p] THEN instances[p]
            ELSE (IF IsInstance(probeFromUuid[p]) THEN instances[p] - 1 ELSE instances[p])
                 + (IF IsInstance(list[p]) THEN 1 ELSE 0)
      BY DEF HandleProbeTodos
    <3>2. instances[p] = IF IsInstance(probeFromUuid[p]) THEN 1 ELSE 0
      BY <1>1
    <3>3. CASE list[p] = probeFromUuid[p]
      BY <3>1, <3>2, <3>3
    <3>4. CASE list[p] # probeFromUuid[p]
      BY <3>1, <3>2, <3>4
    <3>5. QED
      BY <3>3, <3>4
  <2>2. instances' = [p \in Probes |-> instances'[p]]
    BY DEF HandleProbeTodos
  <2>3. QED
    BY <2>1, <2>2
<1>4. zwatcher' \in {"none", "watching", "deaf"}
      /\ zwatcher' \in IF NeedZoneEvents(list) THEN {"watching", "deaf"} ELSE {"none"}
  BY <1>2 DEF WatcherFor, Running
<1>5. QED
  BY <1>2, <1>3, <1>4 DEF Running, NeedZoneEvents

LEMMA EndKeeps ==
  ASSUME AgentInv, NEW u \in Polls, update[u].pc # "idle", UpdateProbes(u, probeDataCache),
         UNCHANGED <<up, cache>>
  PROVE  /\ Running' /\ Updates' /\ Current'
         /\ Saving' = Saving \ {u}
         /\ \A v \in Polls \ {u} : update'[v] = update[v]
<1>1. update' = [update EXCEPT ![u] = Idle]
  BY DEF UpdateProbes
<1>2. Updates'
  BY <1>1, IdleOrRecord DEF AgentInv, Updates
<1>3. \A v \in Polls \ {u} : update'[v] = update[v]
  BY <1>1 DEF AgentInv, Updates
<1>4. Saving' = Saving \ {u}
  BY <1>1, <1>3, IdleOrRecord DEF AgentInv, Updates, Saving
<1>5. Running'
  <2> DEFINE list == Wanted(probeDataCache)
  <2>1. list \in [Probes -> {None} \cup Data]
    BY DEF AgentInv, Stored, Wanted
  <2>2. HandleProbeTodos(list) /\ fresh' = FALSE
    BY DEF UpdateProbes
  <2> HIDE DEF list
  <2>3. QED
    BY <2>1, <2>2, TodosKeep DEF AgentInv
<1>6. Current'
  <2>1. up /\ up' = up /\ probeDataCache' = probeDataCache
    BY IdleOrRecord DEF cache, AgentInv, Updates
  <2>2. probeFromUuid' = Wanted(probeDataCache)
    BY DEF UpdateProbes, HandleProbeTodos
  <2>3. QED
    BY <2>1, <2>2 DEF Current, Wanted
<1>7. QED
  BY <1>2, <1>3, <1>4, <1>5, <1>6

-----------------------------------------------------------------------------
(* Updates that begin, ask and are answered *)

LEMMA RunningUnchanged == ASSUME Running, UNCHANGED running PROVE Running'
BY DEF Running, running

\* An update that neither saves nor is over goes on, and saves not yet.
LEMMA AskingKeeps ==
  ASSUME AgentInv, NEW u \in Polls, update[u].pc \notin {"data", "md5"},
         NEW r \in {Idle} \cup UpdateRecord, update' = [update EXCEPT ![u] = r],
         r.pc \notin {"data", "md5"}, r.pc = "answered" => r.with \in Lists, up,
         UNCHANGED <<up, cache, file, running, mixed>>
  PROVE  Running' /\ Updates' /\ Current' /\ Saved'
<1>1. Updates' /\ Running'
  BY RunningUnchanged DEF AgentInv, Updates
<1>2. Saving' = Saving /\ \A v \in Saving : update'[v] = update[v]
  BY DEF AgentInv, Updates, Saving
<1>3. Saved'
  BY <1>2 DEF AgentInv, Saved, cache
<1>4. Current'
  BY <1>2 DEF AgentInv, Current, cache, running, Wanted
<1>5. QED
  BY <1>1, <1>3, <1>4

LEMMA Beginning ==
  ASSUME NEW force \in BOOLEAN, Begin(force)
  PROVE  \E u \in Polls : \E r \in UpdateRecord :
           update[u] = Idle /\ r.pc = "head" /\ update' = [update EXCEPT ![u] = r]
<1>1. Free \in Polls /\ update[Free] = Idle
  BY DEF Begin, Free
<1> DEFINE r == [pc |-> "head", force |-> force, with |-> None]
<1>2. r \in UpdateRecord /\ r.pc = "head"
  BY DEF UpdateRecord, Values
<1>3. update' = [update EXCEPT ![Free] = r]
  BY DEF Begin
<1> HIDE DEF r
<1>4. QED
  BY <1>1, <1>2, <1>3

LEMMA StartKeeps ==
  ASSUME AgentInv, Start PROVE AgentInv'
<1>1. /\ ~up /\ up' = TRUE /\ LoadProbeDataCacheSync
      /\ UNCHANGED <<relay, file, running, mixed, spent>>
  BY DEF Start
<1>2. PICK u \in Polls, r \in UpdateRecord :
        update[u] = Idle /\ r.pc = "head" /\ update' = [update EXCEPT ![u] = r]
  BY Beginning DEF Start
<1>3. \A v \in Polls : update[v] = Idle
  BY <1>1 DEF AgentInv, Updates
<1>4. Saving = {} /\ Saving' = {}
  BY <1>2, <1>3, IdleOrRecord DEF AgentInv, Updates, Saving
<1>5. Updates'
  BY <1>1, <1>2 DEF AgentInv, Updates
<1>6. Running'
  BY <1>1, RunningUnchanged DEF AgentInv
<1>7. Stored'
  BY <1>1 DEF AgentInv, Stored, LoadProbeDataCacheSync, Values
<1>8. Saved'
  <2>1. SUFFICES ASSUME ~mixed
                 PROVE  /\ file.data \in {None} \cup Lists /\ file.data = file.md5
                        /\ file.data = probeDataCache' /\ file.md5 = probeDataCacheMD5'
    BY <1>1, <1>4 DEF Saved
  <2>2. file.data \in {None} \cup Lists /\ file.data = file.md5
    BY <1>4, <2>1 DEF AgentInv, Saved
  <2>3. QED
    BY <1>1, <2>2 DEF LoadProbeDataCacheSync
<1>9. Current'
  BY <1>1 DEF AgentInv, Running, Current, running
<1>10. QED
  BY <1>5, <1>6, <1>7, <1>8, <1>9 DEF AgentInv

LEMMA PollKeeps ==
  ASSUME AgentInv, Poll PROVE AgentInv'
<1>1. up /\ UNCHANGED <<relay, up, cache, file, running, mixed, spent>>
  BY DEF Poll
<1>2. PICK u \in Polls, r \in UpdateRecord :
        update[u] = Idle /\ r.pc = "head" /\ update' = [update EXCEPT ![u] = r]
  BY Beginning DEF Poll
<1>3. Running' /\ Updates' /\ Current' /\ Saved'
  BY <1>1, <1>2, IdleOrRecord, AskingKeeps
<1>4. Stored'
  BY <1>1 DEF AgentInv, Stored, cache
<1>5. QED
  BY <1>3, <1>4 DEF AgentInv

\* An update under way: the agent is up.
LEMMA UnderWay ==
  ASSUME AgentInv, NEW u \in Polls, update[u].pc # "idle"
  PROVE  up /\ update[u] \in UpdateRecord
BY IdleOrRecord DEF AgentInv, Updates

\* The update is over, with the cache as it is, and it was not saving.
LEMMA EndOfAskingKeeps ==
  ASSUME AgentInv, NEW u \in Polls, update[u].pc \in {"head", "get"},
         UpdateProbes(u, probeDataCache), UNCHANGED <<up, cache, file, mixed>>
  PROVE  Running' /\ Updates' /\ Current' /\ Saved'
<1>1. /\ Running' /\ Updates' /\ Current' /\ Saving' = Saving \ {u}
      /\ \A v \in Polls \ {u} : update'[v] = update[v]
  BY EndKeeps
<1>2. Saving' = Saving /\ \A v \in Saving : update'[v] = update[v]
  BY <1>1 DEF Saving
<1>3. Saved'
  BY <1>2 DEF AgentInv, Saved, cache
<1>4. QED
  BY <1>1, <1>3

LEMMA HeadAnswerKeeps ==
  ASSUME AgentInv, NEW u \in Polls, HeadAnswer(u) PROVE AgentInv'
<1>1. update[u].pc = "head" /\ UNCHANGED <<relay, up, cache, file, mixed, spent>>
  BY DEF HeadAnswer
<1>2. Stored'
  BY <1>1 DEF AgentInv, Stored, cache
<1>3. CASE UpdateProbes(u, probeDataCache)
  BY <1>1, <1>2, <1>3, EndOfAskingKeeps DEF AgentInv
<1>4. CASE update' = [update EXCEPT ![u].pc = "get"] /\ UNCHANGED running
  <2> DEFINE r == [update[u] EXCEPT !.pc = "get"]
  <2>1. up /\ update[u] \in UpdateRecord
    BY <1>1, UnderWay
  <2>2. r \in UpdateRecord /\ r.pc = "get"
    BY <2>1 DEF UpdateRecord
  <2>3. update' = [update EXCEPT ![u] = r]
    BY <1>4
  <2> HIDE DEF r
  <2>4. Running' /\ Updates' /\ Current' /\ Saved'
    BY <1>1, <2>1, <2>2, <2>3, <1>4, AskingKeeps
  <2>5. QED
    BY <1>2, <2>4 DEF AgentInv
<1>5. QED
  BY <1>3, <1>4 DEF HeadAnswer

LEMMA RelayAnswersKeeps ==
  ASSUME AgentInv, NEW u \in Polls, RelayAnswers(u) PROVE AgentInv'
<1>1. update[u].pc = "get" /\ UNCHANGED <<relay, up, cache, file, running, mixed, spent>>
  BY DEF RelayAnswers
<1> DEFINE r == [update[u] EXCEPT !.pc = "answered", !.with = relay]
<1>2. up /\ update[u] \in UpdateRecord
  BY <1>1, UnderWay
<1>3. r \in UpdateRecord /\ r.pc = "answered" /\ r.with \in Lists
  BY <1>2 DEF UpdateRecord, AgentInv, Stored, Values
<1>4. update' = [update EXCEPT ![u] = r]
  BY DEF RelayAnswers
<1> HIDE DEF r
<1>5. Running' /\ Updates' /\ Current' /\ Saved'
  BY <1>1, <1>2, <1>3, <1>4, AskingKeeps
<1>6. QED
  BY <1>1, <1>5 DEF AgentInv, Stored, cache

LEMMA TroubleType ==
  ASSUME Stored, Trouble
  PROVE  spent' \in [changes: 0..MaxChanges, troubles: 0..MaxTroubles]
BY DEF Stored, Trouble

LEMMA RequestsFailKeeps ==
  ASSUME AgentInv, NEW u \in Polls, RequestFails(u) \/ AnswerBreaksOff(u) PROVE AgentInv'
<1>1. Stored'
  BY TroubleType DEF AgentInv, Stored, RequestFails, AnswerBreaksOff, cache
<1>2. CASE RequestFails(u)
  BY <1>1, <1>2, EndOfAskingKeeps DEF RequestFails, AgentInv
<1>3. CASE AnswerBreaksOff(u)
  <2>1. /\ update[u].pc \in {"head", "get", "answered"}
        /\ update' = [update EXCEPT ![u] = Idle]
        /\ UNCHANGED <<up, cache, file, running, mixed>>
    BY <1>3 DEF AnswerBreaksOff
  <2>2. up
    BY <2>1, UnderWay
  <2>3. Running' /\ Updates' /\ Current' /\ Saved'
    BY <2>1, <2>2, IdleOrRecord, AskingKeeps
  <2>4. QED
    BY <1>1, <2>3 DEF AgentInv
<1>4. QED
  BY <1>2, <1>3

-----------------------------------------------------------------------------
(* Saves *)

LEMMA ReceiveProbesKeeps ==
  ASSUME AgentInv, NEW u \in Polls, ReceiveProbes(u) PROVE AgentInv'
<1>1. /\ update[u].pc = "answered"
      /\ probeDataCache' = update[u].with /\ probeDataCacheMD5' = update[u].with
      /\ update' = [update EXCEPT ![u].pc = "data"]
      /\ mixed' = (mixed \/ Saving # {})
      /\ UNCHANGED <<relay, up, file, running, spent>>
  BY DEF ReceiveProbes
<1>2. up /\ update[u] \in UpdateRecord /\ update[u].with \in Lists
  BY <1>1, UnderWay DEF AgentInv, Updates
<1> DEFINE r == [update[u] EXCEPT !.pc = "data"]
<1>3. r \in UpdateRecord /\ r.pc = "data" /\ r.with = update[u].with
  BY <1>2 DEF UpdateRecord
<1>4. update' = [update EXCEPT ![u] = r]
  BY <1>1
<1> HIDE DEF r
<1>5. Updates'
  BY <1>1, <1>2, <1>3, <1>4 DEF AgentInv, Updates
<1>6. Stored'
  <2>1. mixed' \in BOOLEAN
    BY <1>1
  <2>2. QED
    BY <1>1, <1>2, <2>1 DEF AgentInv, Stored, Values
<1>7. Saved'
  <2>1. SUFFICES ASSUME ~mixed, Saving = {} PROVE Saved'
    BY <1>1 DEF Saved
  <2>2. Saving' = {u} /\ update'[u] = r
    BY <1>3, <1>4, <2>1 DEF AgentInv, Updates, Saving
  <2>3. file.data \in {None} \cup Lists
    BY <2>1 DEF AgentInv, Saved
  <2>4. QED
    BY <1>1, <1>3, <2>2, <2>3 DEF Saved
<1>8. Current'
  <2>1. u \in Saving'
    BY <1>3, <1>4 DEF AgentInv, Updates, Saving
  <2>2. QED
    BY <1>1, <1>2, <2>1 DEF Current
<1>9. QED
  BY <1>1, <1>5, <1>6, <1>7, <1>8, RunningUnchanged DEF AgentInv

\* Of the files, one save alone writes what it has to.
LEMMA WrittenAlone ==
  ASSUME AgentInv, NEW u \in Polls, NEW pc \in {"data", "md5"}, update[u].pc = pc,
         NEW old \in Values, NEW t \in Written(u, pc, old)
  PROVE  t \in Values /\ (~mixed => t = update[u].with /\ Saving = {u})
<1>1. update[u] \in UpdateRecord
  BY UnderWay
<1>2. t \in Values
  BY <1>1 DEF Written, UpdateRecord, Values
<1>3. ASSUME ~mixed PROVE Saving = {u}
  BY <1>3 DEF AgentInv, Saved, Saving
<1>4. ASSUME ~mixed PROVE t = update[u].with
  <2>1. {v \in Polls \ {u} : update[v].pc = pc} = {}
    BY <1>3, <1>4 DEF Saving
  <2>2. QED
    BY <1>4, <2>1 DEF Written
<1>5. QED
  BY <1>2, <1>3, <1>4

LEMMA SaveDataKeeps ==
  ASSUME AgentInv, NEW u \in Polls, SaveData(u) PROVE AgentInv'
<1>1. PICK t \in Written(u, "data", file.data) : file' = [file EXCEPT !.data = t]
  BY DEF SaveData
<1>2. /\ update[u].pc = "data"
      /\ update' = [update EXCEPT ![u].pc = "md5", ![u].with = probeDataCacheMD5]
      /\ UNCHANGED <<relay, up, cache, running, mixed, spent>>
  BY DEF SaveData
<1>3. file \in [data: Values, md5: Values]
  BY DEF AgentInv, Stored
<1>4. t \in Values /\ (~mixed => t = update[u].with /\ Saving = {u})
  BY <1>1, <1>2, <1>3, WrittenAlone
<1>5. file' \in [data: Values, md5: Values] /\ file'.data = t
  BY <1>1, <1>3, <1>4
<1>6. up /\ update[u] \in UpdateRecord
  BY <1>2, UnderWay
<1> DEFINE r == [update[u] EXCEPT !.pc = "md5", !.with = probeDataCacheMD5]
<1>7. r \in UpdateRecord /\ r.pc = "md5" /\ r.with = probeDataCacheMD5
  BY <1>6 DEF UpdateRecord, AgentInv, Stored
<1>8. update' = [update EXCEPT ![u] = r]
  BY <1>2
<1> HIDE DEF r
<1>9. Updates'
  <2>1. up' /\ r \in UpdateRecord /\ r.pc # "answered"
    BY <1>2, <1>6, <1>7
  <2>2. QED
    BY <1>8, <2>1 DEF AgentInv, Updates
<1>10. Stored'
  BY <1>2, <1>5 DEF AgentInv, Stored, cache
<1>11. Saved'
  <2>1. SUFFICES ASSUME ~mixed PROVE Saved'
    BY <1>2 DEF Saved
  <2>2. /\ probeDataCacheMD5 = probeDataCache /\ update[u].with = probeDataCache
        /\ t = update[u].with /\ Saving = {u}
    BY <1>4, <2>1 DEF AgentInv, Saved
  <2>3. Saving' = {u} /\ update'[u] = r
    BY <1>7, <1>8, <2>2 DEF AgentInv, Updates, Saving
  <2>4. probeDataCache \in {None} \cup Lists
    BY DEF AgentInv, Stored
  <2>5. QED
    BY <1>2, <1>5, <1>7, <2>2, <2>3, <2>4 DEF Saved, cache
<1>12. Current'
  <2>1. u \in Saving'
    BY <1>7, <1>8 DEF AgentInv, Updates, Saving
  <2>2. QED
    BY <1>2, <1>6, <2>1 DEF Current
<1>13. QED
  BY <1>2, <1>9, <1>10, <1>11, <1>12, RunningUnchanged DEF AgentInv

LEMMA SaveMD5Keeps ==
  ASSUME AgentInv, NEW u \in Polls, SaveMD5(u) PROVE AgentInv'
<1>1. PICK t \in Written(u, "md5", file.md5) : file' = [file EXCEPT !.md5 = t]
  BY DEF SaveMD5
<1>2. /\ update[u].pc = "md5" /\ UpdateProbes(u, probeDataCache)
      /\ UNCHANGED <<relay, up, cache, mixed, spent>>
  BY DEF SaveMD5
<1>3. file \in [data: Values, md5: Values]
  BY DEF AgentInv, Stored
<1>4. t \in Values /\ (~mixed => t = update[u].with /\ Saving = {u})
  BY <1>1, <1>2, <1>3, WrittenAlone
<1>5. file' \in [data: Values, md5: Values] /\ file'.data = file.data /\ file'.md5 = t
  BY <1>1, <1>3, <1>4
<1>6. Running' /\ Updates' /\ Current' /\ Saving' = Saving \ {u}
  BY <1>2, EndKeeps
<1>7. Stored'
  BY <1>2, <1>5 DEF AgentInv, Stored, cache
<1>8. Saved'
  <2>1. SUFFICES ASSUME ~mixed PROVE Saved'
    BY <1>2 DEF Saved
  <2>2. /\ probeDataCacheMD5 = probeDataCache /\ update[u].with = probeDataCache
        /\ t = update[u].with /\ file.data = probeDataCache /\ Saving = {u}
        /\ file.data \in {None} \cup Lists
    BY <1>2, <1>4, <2>1 DEF AgentInv, Saved
  <2>3. Saving' = {}
    BY <1>6, <2>2
  <2>4. QED
    BY <1>2, <1>5, <2>2, <2>3 DEF Saved, cache
<1>9. QED
  BY <1>6, <1>7, <1>8 DEF AgentInv

LEMMA SaveFailsKeeps ==
  ASSUME AgentInv, NEW u \in Polls, SaveFails(u) PROVE AgentInv'
<1>1. /\ update[u].pc \in {"data", "md5"} /\ UpdateProbes(u, probeDataCache)
      /\ mixed' = TRUE /\ Trouble /\ UNCHANGED <<relay, up, cache>>
  BY DEF SaveFails, Saving
<1>2. file' \in [data: Values, md5: Values]
  <2>1. PICK t \in {Torn, file[update[u].pc]} : file' = [file EXCEPT ![update[u].pc] = t]
    BY DEF SaveFails
  <2>2. file \in [data: Values, md5: Values] /\ Torn \in Values
    BY DEF AgentInv, Stored, Values
  <2>3. CASE update[u].pc = "data"
    BY <2>1, <2>2, <2>3
  <2>4. CASE update[u].pc = "md5"
    BY <2>1, <2>2, <2>4
  <2>5. QED
    BY <1>1, <2>3, <2>4
<1>3. Running' /\ Updates' /\ Current'
  BY <1>1, EndKeeps
<1>4. Stored'
  BY <1>1, <1>2, TroubleType DEF AgentInv, Stored, cache
<1>5. Saved'
  BY <1>1 DEF Saved
<1>6. QED
  BY <1>3, <1>4, <1>5 DEF AgentInv

-----------------------------------------------------------------------------
(* The relay, the child, the process *)

LEMMA UpdatesUnchanged ==
  ASSUME AgentInv, UNCHANGED <<up, cache, file, update, mixed>>
  PROVE  Updates' /\ Saved'
<1>1. Updates'
  BY DEF AgentInv, Updates
<1>2. Saving' = Saving
  BY DEF Saving
<1>3. Saved'
  BY <1>2 DEF AgentInv, Saved, cache
<1>4. QED
  BY <1>1, <1>3

LEMMA OthersKeep ==
  ASSUME AgentInv, ChangeProbes \/ WatcherExits PROVE AgentInv'
<1>1. UNCHANGED <<up, cache, file, update, mixed>>
  BY DEF ChangeProbes, WatcherExits
<1>2. Stored'
  BY TroubleType DEF ChangeProbes, WatcherExits, AgentInv, Stored, cache
<1>3. Running'
  BY RunningUnchanged DEF ChangeProbes, WatcherExits, AgentInv, Running
<1>4. Current'
  BY <1>1 DEF ChangeProbes, WatcherExits, AgentInv, Current, Saving, running, cache, Wanted
<1>5. QED
  BY <1>1, <1>2, <1>3, <1>4, UpdatesUnchanged DEF AgentInv

LEMMA ExitKeeps ==
  ASSUME AgentInv, Exit PROVE AgentInv'
<1>1. PICK d \in BOOLEAN, m \in BOOLEAN :
        /\ d => \E u \in Polls : update[u].pc = "data"
        /\ m => \E u \in Polls : update[u].pc = "md5"
        /\ file' = [data |-> IF d THEN Torn ELSE file.data, md5 |-> IF m THEN Torn ELSE file.md5]
  BY DEF Exit
<1>2. /\ up' = FALSE /\ mixed' = (mixed \/ Saving # {}) /\ update' = [u \in Polls |-> Idle]
      /\ probeDataCache' = None /\ probeDataCacheMD5' = None
      /\ probeFromUuid' = NoProbes /\ instances' = [p \in Probes |-> 0] /\ zwatcher' = "none"
      /\ fresh' = TRUE /\ Trouble /\ relay' = relay
  BY DEF Exit
<1>3. Saving' = {} /\ Updates'
  BY <1>2, IdleOrRecord DEF Saving, Updates
<1>4. Running' /\ Current'
  BY <1>2 DEF Running, Current, NeedZoneEvents, NoProbes, IsInstance
<1>5. Stored'
  <2>1. file' \in [data: Values, md5: Values]
    BY <1>1 DEF AgentInv, Stored, Values
  <2>2. mixed' \in BOOLEAN /\ None \in Values
    BY <1>2 DEF Values
  <2>3. QED
    BY <1>2, <2>1, <2>2, TroubleType DEF AgentInv, Stored
<1>6. Saved'
  <2>1. SUFFICES ASSUME ~mixed, Saving = {} PROVE Saved'
    BY <1>2 DEF Saved
  <2>2. ~d /\ ~m
    BY <1>1, <2>1 DEF Saving
  <2>3. file.data \in {None} \cup Lists /\ file.data = file.md5
    BY <2>1 DEF AgentInv, Saved
  <2>4. QED
    BY <1>1, <1>2, <1>3, <2>2, <2>3 DEF Saved
<1>7. QED
  BY <1>3, <1>4, <1>5, <1>6 DEF AgentInv

-----------------------------------------------------------------------------
(* The theorems *)

LEMMA InitAgent == Init => AgentInv
<1>1. SUFFICES ASSUME Init PROVE AgentInv
  OBVIOUS
<1>2. Saving = {} /\ Updates
  BY <1>1, IdleOrRecord DEF Init, Saving, Updates
<1>3. Running /\ Current
  BY <1>1 DEF Init, Running, Current, NeedZoneEvents, NoProbes, IsInstance
<1>4. Stored
  <2>1. file \in [data: Values, md5: Values]
    BY <1>1 DEF Init, Values
  <2>2. spent \in [changes: 0..MaxChanges, troubles: 0..MaxTroubles]
    BY <1>1 DEF Init
  <2>3. /\ relay \in Lists /\ up \in BOOLEAN /\ mixed \in BOOLEAN
        /\ probeDataCache \in {None} \cup Lists /\ probeDataCacheMD5 \in Values
    BY <1>1 DEF Init, Values
  <2>4. QED
    BY <2>1, <2>2, <2>3 DEF Stored
<1>5. Saved
  BY <1>1, <1>2 DEF Init, Saved
<1>6. QED
  BY <1>2, <1>3, <1>4, <1>5 DEF AgentInv

LEMMA NextKeepsAgent == AgentInv /\ [Next]_vars => AgentInv'
<1>1. SUFFICES ASSUME AgentInv, [Next]_vars PROVE AgentInv'
  OBVIOUS
<1>2. CASE Start \/ Poll
  BY <1>1, <1>2, StartKeeps, PollKeeps
<1>3. ASSUME NEW u \in Polls, Answer(u) PROVE AgentInv'
  BY <1>1, <1>3, HeadAnswerKeeps, RelayAnswersKeeps, ReceiveProbesKeeps DEF Answer
<1>4. ASSUME NEW u \in Polls, Save(u) PROVE AgentInv'
  BY <1>1, <1>4, SaveDataKeeps, SaveMD5Keeps DEF Save
<1>5. ASSUME NEW u \in Polls, RequestFails(u) \/ AnswerBreaksOff(u) \/ SaveFails(u)
      PROVE  AgentInv'
  BY <1>1, <1>5, RequestsFailKeeps, SaveFailsKeeps
<1>6. CASE ChangeProbes \/ WatcherExits \/ Exit
  BY <1>1, <1>6, OthersKeep, ExitKeeps
<1>7. CASE UNCHANGED vars
  BY <1>1, <1>7, UpdatesUnchanged, RunningUnchanged
     DEF vars, AgentInv, Stored, Current, Saving, Wanted, cache, running
<1>8. QED
  BY <1>1, <1>2, <1>3, <1>4, <1>5, <1>6, <1>7 DEF Next

\* Whatever updates overlap, fail or follow a failed one (agent/lib/app.js,
\* updateProbes), a probe has one started instance, or none when none can be made;
\* what runs is the cache once an update has ended and no save is under way; and a
\* ZoneEventWatcher is kept exactly as long as an instance needs one, though not one
\* that hears: it is kept even when its child has exited.
THEOREM InstancesInHand == Spec => []InstancesAreInHand
<1>1. AgentInv => InstancesAreInHand
  BY DEF AgentInv, Running, Current, InstancesAreInHand
<1>2. QED
  BY <1>1, InitAgent, NextKeepsAgent, PTL DEF Spec

\* Unless updates overlapped or a save was cut short, the files of the cache are the
\* cache when nothing is being saved, and each other's when the agent is down
\* (agent/lib/app.js, saveProbeDataCache).
THEOREM FilesAreTheCache == Spec => []SavedIsTheCache
<1>1. AgentInv => SavedIsTheCache
  BY DEF AgentInv, Saved, SavedIsTheCache
<1>2. QED
  BY <1>1, InitAgent, NextKeepsAgent, PTL DEF Spec

\* The agent's variables keep their types: a file may be torn, the cache never.
THEOREM TypeCorrect == Spec => []TypeOK
<1>1. AgentInv => TypeOK
  BY DEF AgentInv, Stored, Updates, Running, UpdateRecord, TypeOK
<1>2. QED
  BY <1>1, InitAgent, NextKeepsAgent, PTL DEF Spec
=============================================================================
