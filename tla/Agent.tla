------------------------------- MODULE Agent -------------------------------
(***************************************************************************)
(* The probes of an agent (agent/lib/app.js): the poll of the relay, the     *)
(* cache of its answer in memory and in two files, and updateProbes, which    *)
(* stops and starts probe instances until they are those of the cache.        *)
(*                                                                          *)
(* The agent is one Node process and what updateProbes does with an answer is  *)
(* one step.  Polls come from a timer that does not look whether the last one  *)
(* is over.  The md5 of a list of probes stands for that list: an md5 is the    *)
(* list it was made from.  What an instance does once it runs is in Plugins.  *)
(***************************************************************************)
EXTENDS Integers, FiniteSets

CONSTANTS
  Probes,      \* uuids of probes
  Data,        \* what a probe can be configured to do
  MachineUp,   \* the data of probes of type machine-up
  Bad,         \* the data no instance can be made from
  Lists,       \* what the relay can have for this agent, the empty list among it
  None,        \* no such probe, no value
  Torn,        \* a file that was not written to its end
  Polls,       \* bound: updates at a time
  MaxChanges,  \* bound: changes at the relay
  MaxTroubles  \* bound: requests and writes that fail, exits of a process

NoProbes == [p \in Probes |-> None]

ASSUME AgentAssumption ==
  /\ None \notin Data /\ MachineUp \subseteq Data /\ Bad \subseteq Data
  /\ Lists \subseteq [Probes -> Data \cup {None}] /\ NoProbes \in Lists
  /\ Torn \notin {None} \cup Lists
  /\ MaxChanges \in Nat /\ MaxTroubles \in Nat

VARIABLES
  relay,          \* the list the relay answers with
  up,             \* the agent runs
  probeDataCache, probeDataCacheMD5,
  file,           \* probeData.json and probeData.json.content-md5
  update,         \* the updates that are under way
  probeFromUuid,  \* the data each probe was last made from
  instances,      \* how many instances of a probe were started and not stopped
  zwatcher,       \* "none", "watching", or "deaf": its child is gone
  fresh,          \* history: no update has ended since the agent started
  mixed,          \* history: updates overlapped or failed to save
  spent           \* changes and troubles so far

vars == <<relay, up, probeDataCache, probeDataCacheMD5, file, update, probeFromUuid,
          instances, zwatcher, fresh, mixed, spent>>
cache == <<probeDataCache, probeDataCacheMD5>>
running == <<probeFromUuid, instances, zwatcher, fresh>>

Idle == [pc |-> "idle"]
\* A list, no list, or what a broken file is read as.
Values == {None, Torn} \cup Lists

TypeOK ==
  /\ relay \in Lists /\ up \in BOOLEAN /\ fresh \in BOOLEAN /\ mixed \in BOOLEAN
  /\ probeDataCache \in {None} \cup Lists
  /\ probeDataCacheMD5 \in Values
  /\ file \in [data: Values, md5: Values]
  /\ \A u \in Polls :
       update[u] = Idle \/ update[u] \in
         [pc: {"head", "get", "answered", "data", "md5"}, force: BOOLEAN, with: Values]
  /\ \A p \in Probes : probeFromUuid[p] \in {None} \cup Data /\ instances[p] \in 0..1
  /\ zwatcher \in {"none", "watching", "deaf"}
  /\ spent \in [changes: 0..MaxChanges, troubles: 0..MaxTroubles]

\* An agent that was never started, on a machine whose relay runs.
Init ==
  /\ relay \in Lists
  /\ up = FALSE
  /\ probeDataCache = None /\ probeDataCacheMD5 = None
  /\ file = [data |-> None, md5 |-> None]
  /\ update = [u \in Polls |-> Idle]
  /\ probeFromUuid = NoProbes
  /\ instances = [p \in Probes |-> 0]
  /\ zwatcher = "none"
  /\ fresh = TRUE /\ mixed = FALSE
  /\ spent = [changes |-> 0, troubles |-> 0]

Trouble == spent.troubles < MaxTroubles /\ spent' = [spent EXCEPT !.troubles = @ + 1]

----------------------------------------------------------------------------
\* updateProbes, from the answer of getProbeData on

\* What a list is turned into: a ProbeError keeps its data like an instance.
IsInstance(d) == d \notin Bad \cup {None}

\* onProbesUpdated, for the probes there are now.  It makes a watcher when there is
\* none, whether or not the child of the one there is still runs.
NeedZoneEvents(probes) == \E p \in Probes : probes[p] \in MachineUp \ Bad
WatcherFor(probes) ==
  IF ~NeedZoneEvents(probes) THEN "none"
  ELSE IF zwatcher = "none" THEN "watching" ELSE zwatcher

HandleProbeTodosBug(list) ==  \* mutant: an update starts a probe before it stops it
  /\ probeFromUuid' = list
  /\ instances' = [p \in Probes |->
       IF list[p] = probeFromUuid[p] THEN instances[p]
       ELSE IF list[p] = None THEN 0
       ELSE instances[p] + (IF IsInstance(list[p]) THEN 1 ELSE 0)]
  /\ zwatcher' = WatcherFor(list)
\* Delete what is not in the list, make what is new, do both for what differs.
HandleProbeTodos(list) ==
  /\ probeFromUuid' = list
  /\ instances' = [p \in Probes |->
       IF list[p] = probeFromUuid[p] THEN instances[p]
       ELSE LET stopped == IF IsInstance(probeFromUuid[p]) THEN instances[p] - 1
                           ELSE instances[p]
            IN stopped + (IF IsInstance(list[p]) THEN 1 ELSE 0)]
  /\ zwatcher' = WatcherFor(list)

\* The end of an update: it works on the cache, whatever it asked for, and on
\* no probes when there is no cache.
Wanted(list) == IF list = None THEN NoProbes ELSE list
UpdateProbes(u, list) ==
  /\ HandleProbeTodos(Wanted(list))
  /\ fresh' = FALSE
  /\ update' = [update EXCEPT ![u] = Idle]

----------------------------------------------------------------------------
\* The start and the poll

\* loadProbeDataCacheSync: JSON that does not parse is an empty list, whatever
\* its md5 file says.
LoadProbeDataCacheSync ==
  /\ probeDataCache' = IF file.data = Torn THEN NoProbes ELSE file.data
  /\ probeDataCacheMD5' = file.md5

Free == CHOOSE u \in Polls : update[u] = Idle
Begin(force) ==
  /\ \E u \in Polls : update[u] = Idle
  /\ update' = [update EXCEPT ![Free] = [pc |-> "head", force |-> force, with |-> None]]

\* start; the service manager starts an agent that is down.
Start ==
  /\ ~up /\ up' = TRUE
  /\ LoadProbeDataCacheSync
  /\ Begin(TRUE)
  /\ UNCHANGED <<relay, file, running, mixed, spent>>

\* The timer, every `poll` seconds.
Poll ==
  /\ up
  /\ Begin(FALSE)
  /\ UNCHANGED <<relay, up, cache, file, running, mixed, spent>>

----------------------------------------------------------------------------
\* getProbeData and saveProbeDataCache

HeadAnswerBug(u) ==  \* mutant: no change, nothing to update
  /\ update[u].pc = "head"
  /\ update' = [update EXCEPT ![u] =
       IF ~update[u].force /\ relay = probeDataCacheMD5 THEN Idle ELSE [@ EXCEPT !.pc = "get"]]
  /\ UNCHANGED <<relay, up, cache, file, running, mixed, spent>>
\* agentProbesMD5: the same md5 means no change.
HeadAnswer(u) ==
  /\ update[u].pc = "head"
  /\ IF ~update[u].force /\ relay = probeDataCacheMD5
     THEN UpdateProbes(u, probeDataCache)
     ELSE update' = [update EXCEPT ![u].pc = "get"] /\ UNCHANGED running
  /\ UNCHANGED <<relay, up, cache, file, mixed, spent>>

\* A HEAD or GET fails: on with the cache.
RequestFails(u) ==
  /\ update[u].pc \in {"head", "get"}
  /\ UpdateProbes(u, probeDataCache)
  /\ Trouble
  /\ UNCHANGED <<relay, up, cache, file, mixed>>

\* An answer that breaks off calls nothing: the update ends there.
AnswerBreaksOff(u) ==
  /\ update[u].pc \in {"head", "get", "answered"}
  /\ update' = [update EXCEPT ![u] = Idle]
  /\ Trouble
  /\ UNCHANGED <<relay, up, cache, file, running, mixed>>

\* The relay's answer to agentProbes, which may be overtaken by that to a later one.
RelayAnswers(u) ==
  /\ update[u].pc = "get"
  /\ update' = [update EXCEPT ![u].pc = "answered", ![u].with = relay]
  /\ UNCHANGED <<relay, up, cache, file, running, mixed, spent>>

Saving == {u \in Polls : update[u].pc \in {"data", "md5"}}
\* The list and its md5 are the cache at once; its file is written meanwhile.
ReceiveProbes(u) ==
  /\ update[u].pc = "answered"
  /\ probeDataCache' = update[u].with /\ probeDataCacheMD5' = update[u].with
  /\ update' = [update EXCEPT ![u].pc = "data"]
  /\ mixed' = (mixed \/ Saving # {})
  /\ UNCHANGED <<relay, up, file, running, spent>>

\* What a file holds when one of its writers is done.  Of several, any may have
\* been last, and a long text may be left with the start of a short one.
Written(u, pc, old) ==
  LET others == {v \in Polls \ {u} : update[v].pc = pc} IN
  {update[u].with} \cup (IF others # {} THEN {Torn}
                         ELSE IF mixed THEN {Torn, old} ELSE {})
SaveDataBug(u) ==  \* mutant: the md5 file is left as it was
  /\ update[u].pc = "data"
  /\ \E t \in Written(u, "data", file.data) : file' = [file EXCEPT !.data = t]
  /\ UpdateProbes(u, probeDataCache)
  /\ UNCHANGED <<relay, up, cache, mixed, spent>>
\* The data file is written; the md5 is that of the cache by now.
SaveData(u) ==
  /\ update[u].pc = "data"
  /\ \E t \in Written(u, "data", file.data) : file' = [file EXCEPT !.data = t]
  /\ update' = [update EXCEPT ![u].pc = "md5", ![u].with = probeDataCacheMD5]
  /\ UNCHANGED <<relay, up, cache, running, mixed, spent>>
SaveMD5(u) ==
  /\ update[u].pc = "md5"
  /\ \E t \in Written(u, "md5", file.md5) : file' = [file EXCEPT !.md5 = t]
  /\ UpdateProbes(u, probeDataCache)
  /\ UNCHANGED <<relay, up, cache, mixed, spent>>

SaveFailsBug(u) ==  \* mutant: the update ends with the write that failed
  /\ u \in Saving
  /\ \E t \in {Torn, file[update[u].pc]} : file' = [file EXCEPT ![update[u].pc] = t]
  /\ update' = [update EXCEPT ![u] = Idle]
  /\ mixed' = TRUE
  /\ Trouble
  /\ UNCHANGED <<relay, up, cache, running>>
\* A write fails, before or after it emptied the file: on without it.
SaveFails(u) ==
  /\ u \in Saving
  /\ \E t \in {Torn, file[update[u].pc]} : file' = [file EXCEPT ![update[u].pc] = t]
  /\ UpdateProbes(u, probeDataCache)
  /\ mixed' = TRUE
  /\ Trouble
  /\ UNCHANGED <<relay, up, cache>>

----------------------------------------------------------------------------
\* The relay, the child `zoneevent`, the process

ChangeProbes ==
  /\ spent.changes < MaxChanges /\ spent' = [spent EXCEPT !.changes = @ + 1]
  /\ relay' \in Lists \ {relay}
  /\ UNCHANGED <<up, cache, file, update, running, mixed>>

\* The child exits of itself: the watcher says so in the log and stays.
WatcherExits ==
  /\ zwatcher = "watching" /\ zwatcher' = "deaf"
  /\ Trouble
  /\ UNCHANGED <<relay, up, cache, file, update, probeFromUuid, instances, fresh, mixed>>

\* The agent goes down: killed, or by an exception of a probe's start or of a
\* stopped watcher's last broken line.  A file may be caught half written.
Exit ==
  /\ up /\ up' = FALSE
  /\ \E d, m \in BOOLEAN :
       /\ d => \E u \in Polls : update[u].pc = "data"
       /\ m => \E u \in Polls : update[u].pc = "md5"
       /\ file' = [data |-> IF d THEN Torn ELSE file.data, md5 |-> IF m THEN Torn ELSE file.md5]
  /\ mixed' = (mixed \/ Saving # {})
  /\ update' = [u \in Polls |-> Idle]
  /\ probeDataCache' = None /\ probeDataCacheMD5' = None
  /\ probeFromUuid' = NoProbes /\ instances' = [p \in Probes |-> 0] /\ zwatcher' = "none"
  /\ fresh' = TRUE
  /\ Trouble
  /\ UNCHANGED relay

Answer(u) == HeadAnswer(u) \/ RelayAnswers(u) \/ ReceiveProbes(u)
Save(u) == SaveData(u) \/ SaveMD5(u)
Next ==
  \/ Start \/ Poll
  \/ \E u \in Polls : Answer(u) \/ Save(u)
  \/ \E u \in Polls : RequestFails(u) \/ AnswerBreaksOff(u) \/ SaveFails(u)
  \/ ChangeProbes \/ WatcherExits \/ Exit

Spec == Init /\ [][Next]_vars

\* The service manager starts the agent, the timer goes on, requests are answered
\* and writes end.
Fairness ==
  /\ WF_vars(Start) /\ WF_vars(Poll)
  /\ \A u \in Polls : WF_vars(Answer(u)) /\ WF_vars(Save(u))
FairSpec == Spec /\ Fairness

----------------------------------------------------------------------------
\* Properties

\* Every probe has exactly one started instance, or none when none can be made; once
\* an update has ended and no save is under way, they are those of the cache, in
\* whatever order overlapping and failing updates came and ended; and there is a
\* ZoneEventWatcher exactly when an instance needs one.  That it hears anything is not
\* said: one whose child has exited stays, and no other is made in its place.
InstancesAreInHand ==
  /\ \A p \in Probes : instances[p] = IF IsInstance(probeFromUuid[p]) THEN 1 ELSE 0
  /\ up /\ ~fresh /\ Saving = {} => probeFromUuid = Wanted(probeDataCache)
  /\ zwatcher \in IF NeedZoneEvents(probeFromUuid) THEN {"watching", "deaf"} ELSE {"none"}

\* "Start/stop zoneevent watcher as necessary" (agent/lib/app.js:384) might be read as
\* this, which does not hold: a watcher whose child has exited is never replaced.
ZoneEventsAreHeard == NeedZoneEvents(probeFromUuid) => zwatcher = "watching"

\* An agent that is started while its relay is away goes on with the last list it
\* got: unless updates overlapped or a save was cut short or failed, the two files are the
\* cache whenever no save is under way, and each other's.
SavedIsTheCache ==
  ~mixed /\ Saving = {} => /\ file.data = file.md5
                           /\ up => file.data = probeDataCache /\ file.md5 = probeDataCacheMD5

\* Files of different lists, loaded by an agent that then fails to ask, whose md5 has
\* become right: no poll gets the list.
Misled == probeDataCacheMD5 = relay /\ probeDataCache # relay

\* Through failed and overlapping polls, answers out of order, failed saves and
\* restarts, the probes become those of the relay and stay them, but for Misled.
Converges == <>[](up /\ probeFromUuid = relay) \/ <>[]Misled
=============================================================================
