----------------------------- MODULE RelaySync -----------------------------
(***************************************************************************)
(* How the Amon relay keeps its copy of the agents' probes: updateAgentProbes *)
(* of relay/main.js, run by the poll and by the admin API's syncprobes;      *)
(* writeAgentProbes and the two caches of a zone's App in relay/lib/app.js.   *)
(*                                                                          *)
(* `Global` is the server's own agent.  An App gives its agent the probes    *)
(* of the agent's guest file, and the global App those of the host files of   *)
(* all zones as well.  A version stands for a file's content, and what the    *)
(* master has for an agent, a version for each file, for its Content-MD5.    *)
(*                                                                          *)
(* The relay is one Node process: a step is one callback.  A call to the     *)
(* master is taken with its answer.  The operations that asyncForEach starts  *)
(* together are taken together, with the callback that ends them all, unless  *)
(* one fails or the relay dies: then any part of them was done.  Files are    *)
(* read some time before the cache they go into is filled.  A file that is    *)
(* cut off is like no file: the old one has been renamed before, and a reader *)
(* skips what it cannot parse.                                               *)
(***************************************************************************)
EXTENDS Integers, FiniteSets

CONSTANTS
  Global,      \* the compute node's agent
  Zones,       \* the agents of its zones
  Versions,    \* versions of the content of a file
  First,       \* the master's probes for every agent at first
  Fresh,       \* agents whose probes were never fetched
  Poll,        \* the loop of startUpdateAgentProbesPolling
  Asking,      \* agents that ask for their probes
  Syncs,       \* syncprobes requests to the admin API, each used once
  None,        \* no file, nothing cached
  MaxChanges,  \* bound: changes of the probes on the master
  Changed,     \* what changes, and to what: pairs of an agent and its probes
  MaxTroubles  \* bound: syncprobes requests, zones that come and go, restarts of the
               \* relay, calls and file operations that fail

Agents == {Global} \cup Zones
Updaters == {Poll} \cup Syncs
Files == {"guest", "host", "md5"}
Probes == [guest: Versions, host: Versions]

ASSUME RelaySyncAssumption ==
  /\ Global \notin Zones /\ Poll \notin Syncs
  /\ None \notin Versions \cup Agents
  /\ \A p \in Probes : p # None
  /\ First \in Probes /\ Fresh \subseteq Agents /\ Asking \subseteq Agents
  /\ Changed \subseteq Agents \X Probes
  /\ MaxChanges \in Nat /\ MaxTroubles \in Nat

VARIABLES
  master,    \* the probes the master has for each agent
  zoneApps,  \* the agents that have an App
  born,      \* which of an agent's Apps that is
  upstream,  \* its upstreamAgentProbesMD5
  down,      \* its downstreamAgentProbes
  loading,   \* Apps whose start has yet to read the md5 file
  files,     \* the agents' files
  baks,      \* their .bak files
  loose,     \* file operations under way that nobody waits for
  upd,       \* per updater: where it is
  reader,    \* per App: getDownstreamAgentProbes under way
  seen,      \* history: what the master has had
  spoiled,   \* history: agents whose files may be torn, or md5 come back
  dirty,     \* history: caches that hold what was read too early
  spent      \* changes and troubles so far

vars == <<master, zoneApps, born, upstream, down, loading, files, baks, loose, upd,
          reader, seen, spoiled, dirty, spent>>

NoFiles == [f \in Files |-> None]
Resting == [pc |-> "idle", todo |-> {}, agent |-> Global, born |-> 0,
            md5 |-> None, data |-> First, saved |-> {}, oldHost |-> None]
\* nextOne: on to the zones `todo`.
NextOne(u, todo) == [upd EXCEPT ![u] = [Resting EXCEPT !.pc = "next", !.todo = todo]]
NoReader == [on |-> FALSE, got |-> {}, passed |-> FALSE]
Stages == {"backup", "write", "clean", "restore"}
\* The files whose probes an App's agent runs.
Sources(a) ==
  IF a = Global
  THEN {<<Global, "guest">>, <<Global, "host">>} \cup (zoneApps \ {Global}) \X {"host"}
  ELSE {<<a, "guest">>}
Found(src) ==
  IF files[src[1]][src[2]] = None THEN {}
  ELSE {<<src[1], src[2], files[src[1]][src[2]]>>}
Gathered(a) == UNION {Found(src) : src \in Sources(a)}

TypeOK ==
  /\ master \in [Agents -> Probes]
  /\ zoneApps \in SUBSET Agents
  /\ born \in [Agents -> 0..MaxTroubles]
  /\ upstream \in [Agents -> {None} \cup Probes]
  /\ \A a \in Agents :
       /\ down[a] = None \/ down[a] \subseteq Agents \X {"guest", "host"} \X Versions
       /\ a \notin zoneApps => /\ upstream[a] = None /\ down[a] = None
                               /\ a \notin loading /\ ~reader[a].on
       /\ files[a].guest \in {None} \cup Versions
       /\ files[a].host \in {None} \cup Versions
       /\ files[a].md5 \in {None} \cup Probes
       /\ DOMAIN baks[a] = Files
       /\ reader[a].got \subseteq Agents \X {"guest", "host"} \X Versions
  /\ loading \subseteq Agents
  /\ \A o \in loose :
       /\ o.stage \in Stages /\ o.agent \in Agents /\ o.file \in Files
       /\ o.stage = "write" <=> o.val # None
  /\ \A u \in Updaters :
       /\ upd[u].pc \in {"idle", "next", "head", "get", "done"} \cup Stages
       /\ upd[u].saved \subseteq Files
       /\ upd[u].pc \in {"clean", "restore"} => upd[u].saved # {}
  /\ spoiled \subseteq Agents /\ dirty \subseteq Agents
  /\ \A a \in Agents : seen[a] \subseteq Probes

\* The relay is up, and every App has started.
Init ==
  /\ master = [a \in Agents |-> First]
  /\ zoneApps = Agents
  /\ born = [a \in Agents |-> 0]
  /\ upstream = [a \in Agents |-> IF a \in Fresh THEN None ELSE First]
  /\ down = [a \in Agents |-> None]
  /\ loading = {}
  /\ files = [a \in Agents |-> IF a \in Fresh THEN NoFiles
                               ELSE [guest |-> First.guest, host |-> First.host,
                                     md5 |-> First]]
  /\ baks = [a \in Agents |-> NoFiles]
  /\ loose = {}
  /\ upd = [u \in Updaters |-> Resting]
  /\ reader = [a \in Agents |-> NoReader]
  /\ seen = [a \in Agents |-> {First}]
  /\ spoiled = {} /\ dirty = {}
  /\ spent = [changes |-> 0, troubles |-> 0]

Trouble == spent.troubles < MaxTroubles /\ spent' = [spent EXCEPT !.troubles = @ + 1]
App == <<zoneApps, born>>
Ghosts == <<seen, spoiled, dirty>>

----------------------------------------------------------------------------
\* updateAgentProbes

\* The poll's timer fires, or an operator posts syncprobes.
Begin(u) ==
  /\ upd[u].pc = "idle"
  /\ upd' = NextOne(u, zoneApps)
  /\ IF u = Poll THEN spent' = spent ELSE Trouble
  /\ UNCHANGED <<master, App, upstream, down, loading, files, baks, loose, reader, Ghosts>>

\* delayThenUpdateForOneZone; an App may be gone by then.  Within its 50 to 500 ms
\* the operations left behind are over: the one assumption on time.
NextZone(u) ==
  /\ upd[u].pc = "next" /\ loose = {}
  /\ \E a \in upd[u].todo :
       upd' = IF a \notin zoneApps THEN NextOne(u, upd[u].todo \ {a})
              ELSE [upd EXCEPT ![u].todo = @ \ {a}, ![u].agent = a, ![u].born = born[a],
                               ![u].pc = "head"]
  /\ UNCHANGED <<master, App, upstream, down, loading, files, baks, loose, reader,
                 Ghosts, spent>>
\* All zones done: the poll sets its timer again, the admin API answers 202.
EndRoundBug(u) ==  \* mutant: the poll's timer is not set again
  /\ upd[u].pc = "next" /\ upd[u].todo = {}
  /\ upd' = [upd EXCEPT ![u] = [Resting EXCEPT !.pc = "done"]]
  /\ UNCHANGED <<master, App, upstream, down, loading, files, baks, loose, reader,
                 Ghosts, spent>>
EndRound(u) ==
  /\ upd[u].pc = "next" /\ upd[u].todo = {}
  /\ upd' = [upd EXCEPT ![u] = [Resting EXCEPT !.pc = IF u = Poll THEN "idle" ELSE "done"]]
  /\ UNCHANGED <<master, App, upstream, down, loading, files, baks, loose, reader,
                 Ghosts, spent>>

\* The App an updater was started on, which its closures go on with.
SameAppBug(u) == TRUE  \* mutant: the agent's App, whichever it is
SameApp(u) == upd[u].agent \in zoneApps /\ born[upd[u].agent] = upd[u].born
HeadAgentProbes(u) ==
  LET a == upd[u].agent IN
  /\ upd[u].pc = "head"
  /\ upd' = IF SameApp(u) /\ upstream[a] = master[a] THEN NextOne(u, upd[u].todo)
            ELSE [upd EXCEPT ![u].md5 = master[a], ![u].pc = "get"]
  /\ UNCHANGED <<master, App, upstream, down, loading, files, baks, loose, reader,
                 Ghosts, spent>>
\* ECONNREFUSED ends the round, any other error this zone's turn.
HeadFails(u) ==
  /\ upd[u].pc = "head" /\ Trouble
  /\ upd' = NextOne(u, upd[u].todo) \/ upd' = NextOne(u, {})
  /\ UNCHANGED <<master, App, upstream, down, loading, files, baks, loose, reader, Ghosts>>

\* What the write of a file stores.
Content(u, f) ==
  CASE f = "md5" -> upd[u].md5 [] f = "guest" -> upd[u].data.guest
    [] f = "host" -> upd[u].data.host
\* Some operation on an agent's files is under way.
Busy(a) ==
  \/ \E u \in Updaters : upd[u].agent = a /\ upd[u].pc \in Stages
  \/ \E o \in loose : o.agent = a
\* The probes come with an md5 of their own; writeAgentProbes gets HEAD's.
ListAgentProbes(u) ==
  LET a == upd[u].agent IN
  /\ upd[u].pc = "get"
  /\ upd' = [upd EXCEPT ![u].data = master[a], ![u].pc = "backup"]
  /\ spoiled' = IF Busy(a) THEN spoiled \cup {a} ELSE spoiled
  /\ UNCHANGED <<master, App, upstream, down, loading, files, baks, loose, reader, seen,
                 dirty, spent>>
ListFailsBug(u) ==  \* mutant: the md5 is taken though the probes did not come
  /\ upd[u].pc = "get" /\ Trouble
  /\ upd' = NextOne(u, upd[u].todo)
  /\ upstream' = [upstream EXCEPT ![upd[u].agent] = IF SameApp(u) THEN upd[u].md5 ELSE @]
  /\ UNCHANGED <<master, App, down, loading, files, baks, loose, reader, Ghosts>>
ListFails(u) ==
  /\ upd[u].pc = "get" /\ Trouble
  /\ upd' = NextOne(u, upd[u].todo)
  /\ UNCHANGED <<master, App, upstream, down, loading, files, baks, loose, reader, Ghosts>>

----------------------------------------------------------------------------
\* writeAgentProbes

\* The operations of a stage, and all that are under way.
StageOps(u) ==
  {[stage |-> upd[u].pc, agent |-> upd[u].agent, file |-> f,
    val |-> IF upd[u].pc = "write" THEN Content(u, f) ELSE None] :
     f \in IF upd[u].pc \in {"clean", "restore"} THEN upd[u].saved ELSE Files}
AllOps == loose \cup UNION {StageOps(u) : u \in {v \in Updaters : upd[v].pc \in Stages}}
\* A .bak file to unlink or to rename back is there, unless another writer took it.
Possible(o) == o.stage \in {"clean", "restore"} => baks[o.agent][o.file] # None
\* What the files are after the operations S, at most one of a file.
Hits(S, a, f) == {o \in S : o.agent = a /\ o.file = f}
Result(o) ==
  CASE o.stage = "backup" -> None
    [] o.stage = "write" -> o.val
    [] o.stage = "restore" -> baks[o.agent][o.file]
    [] o.stage = "clean" -> files[o.agent][o.file]
FilesAfter(S) ==
  [a \in Agents |-> [f \in Files |->
     IF Hits(S, a, f) = {} THEN files[a][f] ELSE Result(CHOOSE o \in Hits(S, a, f) : TRUE)]]
BaksAfter(S) ==
  [a \in Agents |-> [f \in Files |->
     IF \E o \in Hits(S, a, f) : o.stage \in {"clean", "restore"} THEN None
     ELSE IF \E o \in Hits(S, a, f) : o.stage = "backup" /\ files[a][f] # None
     THEN files[a][f] ELSE baks[a][f]]]
\* The Apps that read an agent's files; those that do so now.
Readers(a) == {a, Global}
Passes(a) == [b \in Agents |-> IF b \in Readers(a) /\ reader[b].on
                               THEN [reader[b] EXCEPT !.passed = TRUE] ELSE reader[b]]
Perform(u, S) ==
  /\ files' = FilesAfter(S) /\ baks' = BaksAfter(S)
  /\ reader' = Passes(upd[u].agent)
  /\ UNCHANGED <<master, App, loading, seen>>
Whole(u, stage) ==
  /\ upd[u].pc = stage /\ \A o \in StageOps(u) : Possible(o)
  /\ Perform(u, StageOps(u))
  /\ UNCHANGED <<loose, spoiled, spent>>

\* backup: what is there is renamed, and the host file's md5 kept.
Backup(u) ==
  LET old == files[upd[u].agent] IN
  /\ Whole(u, "backup")
  /\ upd' = [upd EXCEPT ![u].saved = {f \in Files : old[f] # None},
                        ![u].oldHost = old.host, ![u].pc = "write"]
  /\ UNCHANGED <<upstream, down, dirty>>

\* nextOne, after the global App's cache if the host's probes changed.
InvalidatedBug(u) ==  \* mutant: the first host probes are no change
  IF upd[u].oldHost \notin {None, upd[u].data.host} THEN {Global} ELSE {}
Invalidated(u) == IF upd[u].oldHost # upd[u].data.host THEN {Global} ELSE {}
Forgotten(S) == [b \in Agents |-> IF b \in S THEN None ELSE down[b]]
\* write, and the App's two caches.
Mine(u) == IF SameApp(u) THEN {upd[u].agent} ELSE {}
Write(u) ==
  LET gone == Mine(u) \cup IF upd[u].saved = {} THEN Invalidated(u) ELSE {} IN
  /\ Whole(u, "write")
  /\ upstream' = [a \in Agents |-> IF a \in Mine(u) THEN upd[u].md5 ELSE upstream[a]]
  /\ down' = Forgotten(gone)
  /\ dirty' = (dirty \ gone) \cup ({upd[u].agent} \ gone)
  /\ upd' = IF upd[u].saved = {} THEN NextOne(u, upd[u].todo)
            ELSE [upd EXCEPT ![u].pc = "clean"]
Clean(u) ==
  /\ Whole(u, "clean")
  /\ upd' = NextOne(u, upd[u].todo)
  /\ down' = Forgotten(Invalidated(u))
  /\ dirty' = dirty \ Invalidated(u)
  /\ UNCHANGED upstream
Restore(u) ==
  /\ Whole(u, "restore")
  /\ upd' = NextOne(u, upd[u].todo)
  /\ dirty' = dirty \cup Readers(upd[u].agent)
  /\ UNCHANGED <<upstream, down>>

\* An operation fails, by itself or because its file is gone.  asyncForEach calls
\* back at once; those beside it that are not done go on, and nobody waits for them.
\* A failed write restores what was saved; any failure is logged and left.  It spoils
\* the files of an App that has what was fetched: another updater was faster.
StageFails(u) ==
  /\ upd[u].pc \in Stages
  /\ \E o \in StageOps(u) : \E done \in SUBSET (StageOps(u) \ {o}) :
       /\ \A x \in done : Possible(x)
       /\ IF Possible(o) THEN Trouble ELSE spent' = spent
       /\ Perform(u, done)
       /\ loose' = loose \cup (StageOps(u) \ (done \cup {o}))
  /\ upd' = IF upd[u].pc = "write" /\ upd[u].saved # {}
            THEN [upd EXCEPT ![u].pc = "restore"] ELSE NextOne(u, upd[u].todo)
  /\ dirty' = dirty \cup Readers(upd[u].agent)
  /\ spoiled' = IF /\ upd[u].pc # "clean"
                   /\ upstream[upd[u].agent] \in {upd[u].md5, upd[u].data}
                THEN spoiled \cup {upd[u].agent} ELSE spoiled
  /\ UNCHANGED <<upstream, down>>
LooseEnds(o) ==
  /\ o \in loose /\ loose' = loose \ {o}
  /\ \E S \in {{}, {o}} : /\ S # {} <=> Possible(o)
                         /\ files' = FilesAfter(S) /\ baks' = BaksAfter(S)
  /\ reader' = Passes(o.agent)
  /\ dirty' = dirty \cup Readers(o.agent)
  /\ UNCHANGED <<master, App, upstream, down, loading, upd, seen, spoiled, spent>>

----------------------------------------------------------------------------
\* An App: start, and what its agent asks for.

\* loadCache.  It takes the md5 for the files', whatever they hold.
Torn(a) ==
  files[a].md5 # None /\ files[a].md5 # [guest |-> files[a].guest, host |-> files[a].host]
LoadCache(a) ==
  /\ a \in loading
  /\ loading' = loading \ {a}
  /\ upstream' = [upstream EXCEPT ![a] = files[a].md5]
  /\ spoiled' = IF Busy(a) \/ Torn(a) THEN spoiled \cup {a} ELSE spoiled
  /\ UNCHANGED <<master, App, down, files, baks, loose, upd, reader, seen, dirty, spent>>

\* getDownstreamAgentProbes, for a HEAD or a GET that the cache cannot answer.
Moving(a) == \E src \in Sources(a) : Busy(src[1])
AskDownstream(a) ==
  /\ a \in zoneApps \cap Asking /\ down[a] = None /\ ~reader[a].on
  /\ reader' = [reader EXCEPT ![a] = [on |-> TRUE, got |-> Gathered(a),
                                      passed |-> Moving(a)]]
  /\ UNCHANGED <<master, App, upstream, down, loading, files, baks, loose, upd, Ghosts, spent>>
FillDownstream(a) ==
  /\ reader[a].on
  /\ down' = [down EXCEPT ![a] = reader[a].got]
  /\ dirty' = IF reader[a].passed THEN dirty \cup {a} ELSE dirty
  /\ reader' = [reader EXCEPT ![a] = NoReader]
  /\ UNCHANGED <<master, App, upstream, loading, files, baks, loose, upd, seen, spoiled, spent>>

----------------------------------------------------------------------------
\* The world.

ChangeProbes(a, p) ==
  /\ spent.changes < MaxChanges /\ p # master[a]
  /\ spent' = [spent EXCEPT !.changes = @ + 1]
  /\ master' = [master EXCEPT ![a] = p]
  /\ seen' = [seen EXCEPT ![a] = @ \cup {p}]
  /\ spoiled' = IF p \in seen[a] THEN spoiled \cup {a} ELSE spoiled
  /\ UNCHANGED <<App, upstream, down, loading, files, baks, loose, upd, reader, dirty>>

\* zoneUp, zoneDown and updateZoneApps: another App, or none.
Forget(a) ==
  /\ upstream' = [upstream EXCEPT ![a] = None]
  /\ down' = [down EXCEPT ![a] = None]
RemoveApp(z) ==
  /\ z \in zoneApps /\ Trouble /\ Forget(z)
  /\ zoneApps' = zoneApps \ {z}
  /\ loading' = loading \ {z}
  /\ reader' = [reader EXCEPT ![z] = NoReader, ![Global].passed = reader[Global].on]
  /\ dirty' = (dirty \ {z}) \cup {Global}
  /\ UNCHANGED <<master, born, files, baks, loose, upd, seen, spoiled>>
CreateApp(z) ==
  /\ Trouble /\ Forget(z)
  /\ zoneApps' = zoneApps \cup {z}
  /\ born' = [born EXCEPT ![z] = @ + 1]
  /\ loading' = loading \cup {z}
  /\ reader' = [reader EXCEPT ![z] = NoReader, ![Global].passed = reader[Global].on]
  /\ dirty' = (dirty \ {z}) \cup {Global}
  /\ UNCHANGED <<master, files, baks, loose, upd, seen, spoiled>>

\* The relay dies and SMF starts it again.  A .bak file is never looked at.
Restart ==
  /\ Trouble
  /\ zoneApps' = Agents
  /\ born' = [a \in Agents |-> born[a] + 1]
  /\ upstream' = [a \in Agents |-> None]
  /\ down' = [a \in Agents |-> None]
  /\ loading' = Agents
  /\ loose' = {}
  /\ \E S \in SUBSET {o \in AllOps : Possible(o)} :
       /\ \A o, x \in S : o.agent = x.agent /\ o.file = x.file => o = x
       /\ files' = FilesAfter(S)
  /\ baks' = [a \in Agents |-> NoFiles]
  /\ upd' = [u \in Updaters |-> IF u = Poll \/ upd[u].pc = "idle" THEN Resting
                                ELSE [Resting EXCEPT !.pc = "done"]]
  /\ reader' = [a \in Agents |-> NoReader]
  /\ dirty' = {}
  /\ UNCHANGED <<master, seen, spoiled>>

Update(u) ==
  NextZone(u) \/ EndRound(u) \/ HeadAgentProbes(u) \/ HeadFails(u)
  \/ ListAgentProbes(u) \/ ListFails(u)
  \/ Backup(u) \/ Write(u) \/ Clean(u) \/ Restore(u) \/ StageFails(u)
Next ==
  \/ \E u \in Updaters : Begin(u) \/ Update(u)
  \/ \E o \in loose : LooseEnds(o)
  \/ \E a \in Agents : \/ LoadCache(a) \/ AskDownstream(a) \/ FillDownstream(a)
  \/ \E c \in Changed : ChangeProbes(c[1], c[2])
  \/ \E z \in Zones : RemoveApp(z) \/ CreateApp(z)
  \/ Restart

Spec == Init /\ [][Next]_vars
\* The poll's timer fires, calls and file operations end, an App starts.
FairSpec ==
  /\ Spec
  /\ WF_vars(Begin(Poll))
  /\ \A u \in Updaters : WF_vars(Update(u))
  /\ WF_vars(\E o \in loose : LooseEnds(o))
  /\ \A a \in Agents : WF_vars(LoadCache(a))

----------------------------------------------------------------------------
\* Properties

HoldsFiles(a) == files[a].guest = master[a].guest /\ files[a].host = master[a].host

\* When a round would find that an agent's md5 is the master's and fetch nothing,
\* the agent's files are the master's probes: whatever failed on the way, and
\* though the md5 is HEAD's and the probes are the later GET's.  Excepted are the
\* agents whose files another writer or a crash mixed, and those whose probes the
\* master had before.
NoUpdateMeansCurrent ==
  \A a \in zoneApps \ (loading \cup spoiled) :
    upstream[a] = master[a] /\ ~Busy(a) => HoldsFiles(a)

\* What an App answers from its cache is what the files say, once no file it reads
\* is being written: every write invalidates the caches of all that read it.
\* Excepted are the caches filled with what was read before, those of an App that
\* the writer does not know, and those left by an operation that failed.
CleanDownstreamIsCurrent ==
  \A a \in zoneApps \ dirty :
    down[a] # None /\ ~Moving(a) => down[a] = Gathered(a)

\* Once nothing changes or fails any more the relay has the master's probes for
\* every agent, with the same exceptions.
Converges == <>[](\A a \in zoneApps \ spoiled : HoldsFiles(a))

\* The usage text on the data directory: "This is all cache data, i.e. can be
\* restored."  But a relay that died while it wrote may have left the new md5 file
\* beside files that are not, and takes it for theirs.
DataIsRestorable ==
  \A a \in zoneApps \ loading : upstream[a] = master[a] /\ ~Busy(a) => HoldsFiles(a)
============================================================================
