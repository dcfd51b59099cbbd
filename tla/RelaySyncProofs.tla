-------------------------- MODULE RelaySyncProofs --------------------------
(* Theorems about RelaySync and their proofs, for every value of its constants. *)
EXTENDS RelaySync, TLAPS

USE RelaySyncAssumption

----------------------------------------------------------------------------
(* Type correctness *)

\* What a file may hold.
Slot(f) == IF f = "md5" THEN {None} \cup Probes ELSE {None} \cup Versions
FilesTyped(h) == h = [f \in Files |-> h[f]] /\ \A f \in Files : h[f] \in Slot(f)
OpTyped(o) ==
  /\ o.stage \in Stages /\ o.agent \in Agents /\ o.file \in Files
  /\ o.val \in Slot(o.file) /\ (o.stage = "write" <=> o.val # None)
Sourced == Agents \X {"guest", "host"} \X Versions
Updater ==
  [pc: {"idle", "next", "head", "get", "done"} \cup Stages, todo: SUBSET Agents,
   agent: Agents, born: 0..MaxTroubles, md5: {None} \cup Probes, data: Probes,
   saved: SUBSET Files, oldHost: {None} \cup Versions]
UpdaterTyped(w) ==
  /\ w \in Updater
  /\ w.pc \in {"get"} \cup Stages => w.md5 \in Probes
  /\ w.pc \in {"clean", "restore"} => w.saved # {}
AppTyped(a) ==
  /\ down[a] = None \/ down[a] \subseteq Sourced
  /\ a \notin zoneApps => /\ upstream[a] = None /\ down[a] = None
                          /\ a \notin loading /\ ~reader[a].on
ReaderTyped(w) ==
  w \in [on: BOOLEAN, got: SUBSET Sourced, passed: BOOLEAN]

\* TypeOK, and the types of what it leaves open.
WorldTyped ==
  /\ master \in [Agents -> Probes]
  /\ seen \in [Agents -> SUBSET Probes]
  /\ spoiled \subseteq Agents /\ dirty \subseteq Agents
AppsTyped ==
  /\ zoneApps \in SUBSET Agents /\ loading \subseteq Agents
  /\ upstream \in [Agents -> {None} \cup Probes]
  /\ down = [a \in Agents |-> down[a]]
  /\ reader = [a \in Agents |-> reader[a]]
  /\ \A a \in Agents : AppTyped(a) /\ ReaderTyped(reader[a])
DiskTyped ==
  /\ files = [a \in Agents |-> files[a]] /\ \A a \in Agents : FilesTyped(files[a])
  /\ baks = [a \in Agents |-> baks[a]] /\ \A a \in Agents : FilesTyped(baks[a])
LooseTyped == \A o \in loose : OpTyped(o)
UpdTyped == upd \in [Updaters -> Updater] /\ \A u \in Updaters : UpdaterTyped(upd[u])
SpentTyped ==
  /\ spent \in [changes: 0..MaxChanges, troubles: 0..MaxTroubles]
  /\ born \in [Agents -> 0..MaxTroubles]
  /\ \A a \in Agents : born[a] <= spent.troubles
TypeInv ==
  WorldTyped /\ AppsTyped /\ DiskTyped /\ LooseTyped /\ UpdTyped /\ SpentTyped

LEMMA TypeInvSuffices == TypeInv => TypeOK
<1> SUFFICES ASSUME TypeInv PROVE TypeOK
  OBVIOUS
<1> USE DEF TypeInv
<1>1. \A a \in Agents :
        /\ down[a] = None \/ down[a] \subseteq Agents \X {"guest", "host"} \X Versions
        /\ a \notin zoneApps => /\ upstream[a] = None /\ down[a] = None
                                /\ a \notin loading /\ ~reader[a].on
        /\ reader[a].got \subseteq Agents \X {"guest", "host"} \X Versions
  BY DEF AppsTyped, AppTyped, ReaderTyped, Sourced
<1>2. \A a \in Agents : /\ files[a].guest \in {None} \cup Versions
                        /\ files[a].host \in {None} \cup Versions
                        /\ files[a].md5 \in {None} \cup Probes
                        /\ DOMAIN baks[a] = Files
  BY DEF DiskTyped, FilesTyped, Slot, Files
<1>3. \A o \in loose :
        /\ o.stage \in Stages /\ o.agent \in Agents /\ o.file \in Files
        /\ o.stage = "write" <=> o.val # None
  BY DEF LooseTyped, OpTyped
<1>4. \A u \in Updaters :
        /\ upd[u].pc \in {"idle", "next", "head", "get", "done"} \cup Stages
        /\ upd[u].saved \subseteq Files
        /\ upd[u].pc \in {"clean", "restore"} => upd[u].saved # {}
  BY DEF UpdTyped, UpdaterTyped, Updater
<1>5. QED
  BY <1>1, <1>2, <1>3, <1>4 DEF WorldTyped, AppsTyped, SpentTyped, TypeOK

LEMMA RestingTyped == UpdaterTyped(Resting)
BY DEF UpdaterTyped, Updater, Resting, Stages, Agents, Probes

LEMMA InitTyped == Init => TypeInv
<1> SUFFICES ASSUME Init PROVE TypeInv
  OBVIOUS
<1>1. First # None /\ First \in Probes /\ First.guest \in Versions
      /\ First.host \in Versions /\ None \notin Versions
  BY DEF Probes
<1>2. WorldTyped /\ SpentTyped
  BY <1>1 DEF Init, WorldTyped, SpentTyped
<1>3. \A a \in Agents : FilesTyped(files[a]) /\ FilesTyped(baks[a])
  BY <1>1 DEF Init, FilesTyped, NoFiles, Files, Slot
<1>4. DiskTyped /\ LooseTyped
  BY <1>3 DEF Init, DiskTyped, LooseTyped
<1>5. AppsTyped
  BY <1>1 DEF Init, AppsTyped, AppTyped, ReaderTyped, NoReader
<1>6. UpdTyped
  BY RestingTyped DEF Init, UpdTyped, UpdaterTyped
<1>7. QED
  BY <1>2, <1>4, <1>5, <1>6 DEF TypeInv

----------------------------------------------------------------------------
(* The pieces of a step *)

LEMMA TroubleTyped ==
  ASSUME SpentTyped, Trouble
  PROVE  /\ spent' \in [changes: 0..MaxChanges, troubles: 0..MaxTroubles]
         /\ spent'.troubles = spent.troubles + 1 /\ spent'.changes = spent.changes
         /\ born' = born => SpentTyped'
<1>1. /\ spent.troubles \in 0..MaxTroubles /\ spent.changes \in 0..MaxChanges
      /\ spent.troubles < MaxTroubles
      /\ spent' = [spent EXCEPT !.troubles = spent.troubles + 1]
  BY DEF SpentTyped, Trouble
<1>2. spent.troubles + 1 \in 0..MaxTroubles
  BY <1>1
<1>3. QED
  BY <1>1, <1>2 DEF SpentTyped

LEMMA UpdStepTyped ==
  ASSUME UpdTyped, NEW u \in Updaters, NEW w, UpdaterTyped(w),
         upd' = [upd EXCEPT ![u] = w]
  PROVE  UpdTyped'
BY DEF UpdTyped, UpdaterTyped

LEMMA NextOneTyped ==
  ASSUME UpdTyped, NEW u \in Updaters, NEW todo \in SUBSET Agents,
         upd' = NextOne(u, todo)
  PROVE  UpdTyped'
<1> DEFINE w == [Resting EXCEPT !.pc = "next", !.todo = todo]
<1>1. UpdaterTyped(w)
  <2>1. Resting \in Updater
    BY RestingTyped DEF UpdaterTyped
  <2>2. w \in Updater /\ w.pc = "next"
    BY <2>1 DEF Updater
  <2>3. QED
    BY <2>2 DEF UpdaterTyped, Stages
<1>2. upd' = [upd EXCEPT ![u] = w]
  BY DEF NextOne
<1> HIDE DEF w
<1>3. QED
  BY <1>1, <1>2, UpdStepTyped

LEMMA StageOpsTyped ==
  ASSUME UpdTyped, NEW u \in Updaters, upd[u].pc \in Stages, NEW o \in StageOps(u)
  PROVE  /\ OpTyped(o) /\ o.agent = upd[u].agent /\ o.stage = upd[u].pc
         /\ o.stage = "write" => o.val = Content(u, o.file)
<1>1. UpdaterTyped(upd[u]) /\ upd[u] \in Updater
  BY DEF UpdTyped, UpdaterTyped
<1>2. \A f \in Files : Content(u, f) \in Slot(f) /\ Content(u, f) # None
  BY <1>1 DEF UpdaterTyped, Updater, Content, Slot, Files, Probes
<1>3. PICK f \in Files :
        o = [stage |-> upd[u].pc, agent |-> upd[u].agent, file |-> f,
             val |-> IF upd[u].pc = "write" THEN Content(u, f) ELSE None]
  <2>1. upd[u].saved \subseteq Files
    BY <1>1 DEF Updater
  <2>2. QED
    BY <2>1 DEF StageOps
<1>4. None \in Slot(f)
  BY DEF Slot
<1>5. upd[u].agent \in Agents
  BY <1>1 DEF Updater
<1>6. QED
  BY <1>2, <1>3, <1>4, <1>5 DEF OpTyped

\* What a file operation leaves.
LEMMA FilesAfterTyped ==
  ASSUME DiskTyped, NEW S, \A o \in S : OpTyped(o), NEW a \in Agents
  PROVE  FilesTyped(FilesAfter(S)[a]) /\ FilesTyped(BaksAfter(S)[a])
<1>1. FilesTyped(files[a]) /\ FilesTyped(baks[a])
  BY DEF DiskTyped
<1>2. ASSUME NEW o \in S PROVE Result(o) \in Slot(o.file)
  <2>1. OpTyped(o)
    BY <1>2
  <2>2. FilesTyped(files[o.agent]) /\ FilesTyped(baks[o.agent])
    BY <2>1 DEF OpTyped, DiskTyped
  <2>3. None \in Slot(o.file)
    BY DEF Slot
  <2>4. QED
    BY <2>1, <2>2, <2>3 DEF Result, OpTyped, FilesTyped, Stages
<1>3. \A f \in Files : FilesAfter(S)[a][f] \in Slot(f)
  <2> TAKE f \in Files
  <2>1. CASE Hits(S, a, f) = {}
    BY <1>1, <2>1 DEF FilesAfter, FilesTyped
  <2>2. CASE Hits(S, a, f) # {}
    <3> DEFINE o == CHOOSE o \in Hits(S, a, f) : TRUE
    <3>1. o \in S /\ o.file = f
      BY <2>2 DEF Hits
    <3>2. FilesAfter(S)[a][f] = Result(o)
      BY <2>2 DEF FilesAfter
    <3> HIDE DEF o
    <3>3. QED
      BY <1>2, <3>1, <3>2
  <2>3. QED
    BY <2>1, <2>2
<1>4. \A f \in Files : BaksAfter(S)[a][f] \in Slot(f)
  BY <1>1 DEF BaksAfter, FilesTyped, Slot
<1>5. QED
  BY <1>3, <1>4 DEF FilesAfter, BaksAfter, FilesTyped

LEMMA DiskStepTyped ==
  ASSUME DiskTyped, NEW S, \A o \in S : OpTyped(o),
         files' = FilesAfter(S), baks' = BaksAfter(S)
  PROVE  DiskTyped'
<1>1. \A a \in Agents : FilesTyped(files'[a]) /\ FilesTyped(baks'[a])
  BY FilesAfterTyped
<1>2. /\ files' = [a \in Agents |-> files'[a]]
      /\ baks' = [a \in Agents |-> baks'[a]]
  BY DEF FilesAfter, BaksAfter
<1>3. QED
  BY <1>1, <1>2 DEF DiskTyped, FilesTyped

\* A reader that is told of a write; a cache that is filled or dropped.
LEMMA PassesTyped ==
  ASSUME AppsTyped, NEW b, reader' = Passes(b)
  PROVE  /\ reader' = [a \in Agents |-> reader'[a]]
         /\ \A a \in Agents : /\ ReaderTyped(reader'[a])
                              /\ reader'[a].on = reader[a].on
                              /\ reader'[a].got = reader[a].got
                              /\ reader[a].on /\ a \in Readers(b) => reader'[a].passed
                              /\ a \notin Readers(b) => reader'[a] = reader[a]
<1>1. \A a \in Agents : ReaderTyped(reader[a])
  BY DEF AppsTyped
<1>2. QED
  BY <1>1 DEF Passes, ReaderTyped

----------------------------------------------------------------------------
(* Each step *)

LEMMA BeginTyped ==
  ASSUME TypeInv, NEW u \in Updaters, Begin(u)
  PROVE  TypeInv'
<1>1. UpdTyped'
  BY NextOneTyped DEF Begin, TypeInv, AppsTyped
<1>2. SpentTyped'
  BY TroubleTyped DEF Begin, TypeInv, SpentTyped, App
<1>3. QED
  BY <1>1, <1>2 DEF Begin, TypeInv, WorldTyped, AppsTyped, AppTyped, DiskTyped,
     LooseTyped, App, Ghosts

LEMMA RoundTyped ==
  ASSUME TypeInv, NEW u \in Updaters, NextZone(u) \/ EndRound(u)
  PROVE  TypeInv'
<1>1. upd[u] \in Updater /\ UpdaterTyped(upd[u])
  BY DEF TypeInv, UpdTyped
<1>2. UpdTyped'
  <2>1. CASE NextZone(u)
    <3>1. PICK a \in upd[u].todo :
            upd' = IF a \notin zoneApps THEN NextOne(u, upd[u].todo \ {a})
                   ELSE [upd EXCEPT ![u].todo = @ \ {a}, ![u].agent = a,
                                    ![u].born = born[a], ![u].pc = "head"]
      BY <2>1 DEF NextZone
    <3>2. a \in Agents /\ upd[u].todo \ {a} \in SUBSET Agents
      BY <1>1 DEF Updater
    <3>3. CASE a \notin zoneApps
      BY <3>1, <3>2, <3>3, NextOneTyped DEF TypeInv
    <3>4. CASE a \in zoneApps
      <4> DEFINE w == [upd[u] EXCEPT !.todo = upd[u].todo \ {a}, !.agent = a,
                                     !.born = born[a], !.pc = "head"]
      <4>1. w \in Updater /\ w.pc = "head"
        BY <1>1, <3>2 DEF Updater, TypeInv, SpentTyped
      <4>2. UpdaterTyped(w)
        BY <4>1 DEF UpdaterTyped, Stages
      <4>3. upd' = [upd EXCEPT ![u] = w]
        BY <1>1, <3>1, <3>4 DEF TypeInv, UpdTyped
      <4> HIDE DEF w
      <4>4. QED
        BY <4>2, <4>3, UpdStepTyped DEF TypeInv
    <3>5. QED
      BY <3>3, <3>4
  <2>2. CASE EndRound(u)
    <3> DEFINE w == [Resting EXCEPT !.pc = IF u = Poll THEN "idle" ELSE "done"]
    <3>1. Resting \in Updater
      BY RestingTyped DEF UpdaterTyped
    <3>2. w \in Updater /\ w.pc \in {"idle", "done"}
      BY <3>1 DEF Updater
    <3>3. UpdaterTyped(w)
      BY <3>2 DEF UpdaterTyped, Stages
    <3>4. upd' = [upd EXCEPT ![u] = w]
      BY <2>2 DEF EndRound
    <3> HIDE DEF w
    <3>5. QED
      BY <3>3, <3>4, UpdStepTyped DEF TypeInv
  <2>3. QED
    BY <2>1, <2>2
<1>3. QED
  BY <1>2 DEF NextZone, EndRound, TypeInv, WorldTyped, AppsTyped, AppTyped, DiskTyped,
     LooseTyped, SpentTyped, App, Ghosts

LEMMA FetchTyped ==
  ASSUME TypeInv, NEW u \in Updaters,
         HeadAgentProbes(u) \/ HeadFails(u) \/ ListAgentProbes(u) \/ ListFails(u)
  PROVE  TypeInv'
<1>1. /\ upd[u] \in Updater /\ UpdaterTyped(upd[u]) /\ upd[u].agent \in Agents
      /\ upd[u].todo \in SUBSET Agents /\ {} \in SUBSET Agents
      /\ master[upd[u].agent] \in Probes
  BY DEF TypeInv, UpdTyped, Updater, WorldTyped
<1>2. UpdTyped'
  <2>1. CASE HeadAgentProbes(u)
    <3> DEFINE w == [upd[u] EXCEPT !.md5 = master[upd[u].agent], !.pc = "get"]
    <3>1. w \in Updater /\ w.pc = "get" /\ w.md5 \in Probes
      BY <1>1 DEF Updater
    <3>2. UpdaterTyped(w)
      BY <3>1 DEF UpdaterTyped
    <3>3. \/ upd' = NextOne(u, upd[u].todo)
          \/ upd' = [upd EXCEPT ![u] = w]
      BY <1>1, <2>1 DEF HeadAgentProbes, TypeInv, UpdTyped
    <3> HIDE DEF w
    <3>4. QED
      BY <1>1, <3>2, <3>3, UpdStepTyped, NextOneTyped DEF TypeInv
  <2>2. CASE ListAgentProbes(u)
    <3> DEFINE w == [upd[u] EXCEPT !.data = master[upd[u].agent], !.pc = "backup"]
    <3>1. w \in Updater /\ w.pc = "backup" /\ w.md5 \in Probes
      BY <1>1, <2>2 DEF Updater, UpdaterTyped, ListAgentProbes, Stages
    <3>2. UpdaterTyped(w)
      BY <3>1 DEF UpdaterTyped
    <3>3. upd' = [upd EXCEPT ![u] = w]
      BY <1>1, <2>2 DEF ListAgentProbes, TypeInv, UpdTyped
    <3> HIDE DEF w
    <3>4. QED
      BY <3>2, <3>3, UpdStepTyped DEF TypeInv
  <2>3. CASE HeadFails(u) \/ ListFails(u)
    BY <1>1, <2>3, NextOneTyped DEF HeadFails, ListFails, TypeInv
  <2>4. QED
    BY <2>1, <2>2, <2>3
<1>3. SpentTyped'
  BY TroubleTyped DEF HeadAgentProbes, HeadFails, ListAgentProbes, ListFails, TypeInv,
     SpentTyped, App
<1>4. WorldTyped'
  BY <1>1 DEF HeadAgentProbes, HeadFails, ListAgentProbes, ListFails, TypeInv,
     WorldTyped, Ghosts
<1>5. QED
  BY <1>2, <1>3, <1>4 DEF HeadAgentProbes, HeadFails, ListAgentProbes, ListFails,
     TypeInv, AppsTyped, AppTyped, DiskTyped, LooseTyped, App, Ghosts

LEMMA AppsStepTyped ==
  ASSUME AppsTyped, NEW b, reader' = Passes(b),
         zoneApps' = zoneApps, loading' = loading,
         upstream' \in [Agents -> {None} \cup Probes],
         \A a \in Agents \ zoneApps : upstream'[a] = upstream[a],
         down' = [a \in Agents |-> down'[a]],
         \A a \in Agents : down'[a] \in {None, down[a]}
  PROVE  AppsTyped'
<1>1. /\ reader' = [a \in Agents |-> reader'[a]]
      /\ \A a \in Agents : ReaderTyped(reader'[a]) /\ reader'[a].on = reader[a].on
  BY PassesTyped
<1>2. \A a \in Agents : AppTyped(a)'
  BY <1>1 DEF AppsTyped, AppTyped
<1>3. QED
  BY <1>1, <1>2 DEF AppsTyped, ReaderTyped

\* The stages of writeAgentProbes that succeed.
LEMMA WriteTyped ==
  ASSUME TypeInv, NEW u \in Updaters, Backup(u) \/ Write(u) \/ Clean(u) \/ Restore(u)
  PROVE  TypeInv'
<1> DEFINE a == upd[u].agent
<1>1. /\ upd[u] \in Updater /\ UpdaterTyped(upd[u]) /\ a \in Agents
      /\ upd[u].todo \in SUBSET Agents /\ upd[u].pc \in Stages
      /\ upd[u].md5 \in Probes /\ FilesTyped(files[a])
  BY DEF TypeInv, UpdTyped, UpdaterTyped, Updater, Backup, Write, Clean, Restore, Whole,
     Stages, DiskTyped
<1>2. /\ Perform(u, StageOps(u)) /\ UNCHANGED <<loose, spoiled, spent>>
  BY DEF Backup, Write, Clean, Restore, Whole
<1>3. DiskTyped'
  BY <1>1, <1>2, StageOpsTyped, DiskStepTyped DEF Perform, TypeInv
<1>4. LooseTyped'
  BY <1>2 DEF LooseTyped, TypeInv
<1>5. SpentTyped'
  BY <1>2 DEF SpentTyped, TypeInv, Perform, App
<1>6. UpdTyped'
  <2>1. CASE Backup(u)
    <3> DEFINE w == [upd[u] EXCEPT !.saved = {f \in Files : files[a][f] # None},
                                   !.oldHost = files[a].host, !.pc = "write"]
    <3>1. files[a].host \in {None} \cup Versions
      BY <1>1 DEF FilesTyped, Slot, Files
    <3>2. w \in Updater /\ w.pc = "write" /\ w.md5 \in Probes
      BY <1>1, <3>1 DEF Updater, Stages
    <3>3. UpdaterTyped(w)
      BY <3>2 DEF UpdaterTyped
    <3>4. upd' = [upd EXCEPT ![u] = w]
      BY <1>1, <2>1 DEF Backup, TypeInv, UpdTyped
    <3> HIDE DEF w
    <3>5. QED
      BY <3>3, <3>4, UpdStepTyped DEF TypeInv
  <2>2. CASE Write(u) /\ upd[u].saved # {}
    <3> DEFINE w == [upd[u] EXCEPT !.pc = "clean"]
    <3>1. w \in Updater /\ w.pc = "clean" /\ w.md5 \in Probes /\ w.saved # {}
      BY <1>1, <2>2 DEF Updater, Stages
    <3>2. UpdaterTyped(w)
      BY <3>1 DEF UpdaterTyped
    <3>3. upd' = [upd EXCEPT ![u] = w]
      BY <1>1, <2>2 DEF Write, TypeInv, UpdTyped
    <3> HIDE DEF w
    <3>4. QED
      BY <3>2, <3>3, UpdStepTyped DEF TypeInv
  <2>3. CASE upd' = NextOne(u, upd[u].todo)
    BY <1>1, <2>3, NextOneTyped DEF TypeInv
  <2>4. QED
    BY <2>1, <2>2, <2>3 DEF Write, Clean, Restore
<1>7. dirty' \subseteq Agents
  <2>1. /\ dirty \subseteq Agents
        /\ Readers(a) \subseteq Agents
    BY <1>1 DEF TypeInv, WorldTyped, Readers, Agents
  <2>2. QED
    BY <1>1, <2>1 DEF Backup, Write, Clean, Restore
<1>8. WorldTyped'
  BY <1>2, <1>7 DEF WorldTyped, TypeInv, Perform
<1>9. AppsTyped'
  <2>1. /\ upstream' \in [Agents -> {None} \cup Probes]
        /\ \A b \in Agents \ zoneApps : upstream'[b] = upstream[b]
    <3>1. CASE Write(u)
      BY <1>1, <3>1 DEF Write, TypeInv, AppsTyped, Mine, SameApp
    <3>2. CASE upstream' = upstream
      BY <3>2 DEF TypeInv, AppsTyped
    <3>3. QED
      BY <3>1, <3>2 DEF Backup, Clean, Restore
  <2>2. /\ down' = [b \in Agents |-> down'[b]]
        /\ \A b \in Agents : down'[b] \in {None, down[b]}
    <3>1. ASSUME NEW G, down' = Forgotten(G) PROVE <2>2
      BY <3>1 DEF Forgotten
    <3>2. CASE down' = down
      BY <3>2 DEF TypeInv, AppsTyped
    <3>3. QED
      BY <3>1, <3>2 DEF Backup, Write, Clean, Restore
  <2>3. QED
    BY <1>2, <2>1, <2>2, AppsStepTyped DEF TypeInv, Perform, App
<1>10. QED
  BY <1>3, <1>4, <1>5, <1>6, <1>8, <1>9 DEF TypeInv

\* A stage that fails, and what is left of it.
LEMMA FailTyped ==
  ASSUME TypeInv, NEW u \in Updaters, StageFails(u)
  PROVE  TypeInv'
<1> DEFINE a == upd[u].agent
<1>1. /\ upd[u] \in Updater /\ UpdaterTyped(upd[u]) /\ a \in Agents
      /\ upd[u].todo \in SUBSET Agents /\ upd[u].pc \in Stages
      /\ upd[u].md5 \in Probes
  BY DEF TypeInv, UpdTyped, UpdaterTyped, Updater, StageFails, Stages
<1>2. PICK o \in StageOps(u), done \in SUBSET StageOps(u) :
        /\ IF Possible(o) THEN Trouble ELSE spent' = spent
        /\ Perform(u, done)
        /\ loose' = loose \cup (StageOps(u) \ (done \cup {o}))
  BY DEF StageFails
<1>3. \A x \in StageOps(u) : OpTyped(x)
  BY <1>1, StageOpsTyped DEF TypeInv
<1>4. DiskTyped'
  BY <1>2, <1>3, DiskStepTyped DEF Perform, TypeInv
<1>5. LooseTyped'
  BY <1>2, <1>3 DEF LooseTyped, TypeInv, OpTyped
<1>6. SpentTyped'
  BY <1>2, TroubleTyped DEF SpentTyped, TypeInv, Perform, App
<1>7. UpdTyped'
  <2>1. CASE upd[u].pc = "write" /\ upd[u].saved # {}
    <3> DEFINE w == [upd[u] EXCEPT !.pc = "restore"]
    <3>1. w \in Updater /\ w.pc = "restore" /\ w.md5 \in Probes /\ w.saved # {}
      BY <1>1, <2>1 DEF Updater, Stages
    <3>2. UpdaterTyped(w)
      BY <3>1 DEF UpdaterTyped
    <3>3. upd' = [upd EXCEPT ![u] = w]
      BY <1>1, <2>1 DEF StageFails, TypeInv, UpdTyped
    <3> HIDE DEF w
    <3>4. QED
      BY <3>2, <3>3, UpdStepTyped DEF TypeInv
  <2>2. CASE ~(upd[u].pc = "write" /\ upd[u].saved # {})
    BY <1>1, <2>2, NextOneTyped DEF StageFails, TypeInv
  <2>3. QED
    BY <2>1, <2>2
<1>8. WorldTyped'
  BY <1>1, <1>2 DEF StageFails, WorldTyped, TypeInv, Perform, Readers, Agents
<1>9. AppsTyped'
  BY <1>2, AppsStepTyped DEF StageFails, TypeInv, AppsTyped, Perform, App
<1>10. QED
  BY <1>4, <1>5, <1>6, <1>7, <1>8, <1>9 DEF TypeInv

LEMMA LooseEndsTyped ==
  ASSUME TypeInv, NEW o \in loose, LooseEnds(o)
  PROVE  TypeInv'
<1>1. OpTyped(o)
  BY DEF TypeInv, LooseTyped
<1>2. PICK S \in {{}, {o}} : files' = FilesAfter(S) /\ baks' = BaksAfter(S)
  BY DEF LooseEnds
<1>3. DiskTyped'
  BY <1>1, <1>2, DiskStepTyped DEF TypeInv
<1>4. LooseTyped' /\ UpdTyped' /\ SpentTyped'
  BY DEF LooseEnds, TypeInv, LooseTyped, OpTyped, UpdTyped, UpdaterTyped, SpentTyped, App
<1>5. WorldTyped'
  BY <1>1 DEF LooseEnds, TypeInv, WorldTyped, Readers, OpTyped, Agents
<1>6. AppsTyped'
  BY AppsStepTyped DEF LooseEnds, TypeInv, AppsTyped, App
<1>7. QED
  BY <1>3, <1>4, <1>5, <1>6 DEF TypeInv

\* What an App reads.
LEMMA GatheredTyped ==
  ASSUME TypeInv, NEW a \in Agents
  PROVE  Gathered(a) \in SUBSET Sourced
<1>1. \A src \in Sources(a) : src \in Agents \X {"guest", "host"}
  BY DEF Sources, TypeInv, AppsTyped, Agents
<1>2. ASSUME NEW b \in Agents, NEW f \in {"guest", "host"}
      PROVE  files[b][f] \in {None} \cup Versions
  BY <1>2 DEF TypeInv, DiskTyped, FilesTyped, Slot, Files
<1>3. ASSUME NEW src \in Sources(a) PROVE Found(src) \subseteq Sourced
  BY <1>1, <1>2, <1>3 DEF Found, Sourced
<1>4. QED
  BY <1>3 DEF Gathered

LEMMA CacheTyped ==
  ASSUME TypeInv, NEW a \in Agents,
         LoadCache(a) \/ AskDownstream(a) \/ FillDownstream(a)
  PROVE  TypeInv'
<1>1. DiskTyped' /\ LooseTyped' /\ UpdTyped' /\ SpentTyped'
  <2>1. UNCHANGED <<files, baks, loose, upd, spent, born>>
    BY DEF LoadCache, AskDownstream, FillDownstream, App
  <2>2. DiskTyped' /\ LooseTyped'
    BY <2>1 DEF TypeInv, DiskTyped, FilesTyped, LooseTyped, OpTyped
  <2>3. UpdTyped' /\ SpentTyped'
    BY <2>1 DEF TypeInv, UpdTyped, UpdaterTyped, SpentTyped
  <2>4. QED
    BY <2>2, <2>3
<1>2. WorldTyped'
  BY DEF LoadCache, AskDownstream, FillDownstream, TypeInv, WorldTyped, Ghosts
<1>3. AppsTyped'
  <2>1. CASE LoadCache(a)
    <3>1. files[a].md5 \in {None} \cup Probes
      BY DEF TypeInv, DiskTyped, FilesTyped, Slot, Files
    <3>2. QED
      BY <2>1, <3>1 DEF LoadCache, App, TypeInv, AppsTyped, AppTyped, ReaderTyped
  <2>2. CASE AskDownstream(a)
    <3> DEFINE w == [on |-> TRUE, got |-> Gathered(a), passed |-> Moving(a)]
    <3>1. ReaderTyped(w)
      BY GatheredTyped DEF ReaderTyped, Moving
    <3>2. a \in zoneApps /\ reader' = [reader EXCEPT ![a] = w]
      BY <2>2 DEF AskDownstream
    <3> HIDE DEF w
    <3>3. \A b \in Agents : ReaderTyped(reader'[b]) /\ (b # a => reader'[b] = reader[b])
      BY <3>1, <3>2 DEF TypeInv, AppsTyped
    <3>4. QED
      BY <2>2, <3>2, <3>3 DEF AskDownstream, App, TypeInv, AppsTyped, AppTyped,
         ReaderTyped
  <2>3. CASE FillDownstream(a)
    <3>1. ReaderTyped(reader[a]) /\ ReaderTyped(NoReader) /\ a \in zoneApps
      BY <2>3 DEF FillDownstream, TypeInv, AppsTyped, AppTyped, NoReader, ReaderTyped
    <3>2. QED
      BY <2>3, <3>1 DEF FillDownstream, App, TypeInv, AppsTyped, AppTyped, ReaderTyped,
         NoReader
  <2>4. QED
    BY <2>1, <2>2, <2>3
<1>4. QED
  BY <1>1, <1>2, <1>3 DEF TypeInv

\* The probes on the master change; zones come and go; the relay restarts.
LEMMA ChangeTyped ==
  ASSUME TypeInv, NEW c \in Changed, ChangeProbes(c[1], c[2])
  PROVE  TypeInv'
<1>1. c[1] \in Agents /\ c[2] \in Probes
  OBVIOUS
<1>2. WorldTyped'
  BY <1>1 DEF ChangeProbes, TypeInv, WorldTyped
<1>3. SpentTyped'
  <2>1. /\ spent.troubles \in 0..MaxTroubles /\ spent.changes \in 0..MaxChanges
        /\ spent.changes < MaxChanges
        /\ spent' = [spent EXCEPT !.changes = spent.changes + 1]
    BY DEF TypeInv, SpentTyped, ChangeProbes
  <2>2. spent.changes + 1 \in 0..MaxChanges
    BY <2>1
  <2>3. QED
    BY <2>1, <2>2 DEF TypeInv, SpentTyped, ChangeProbes, App
<1>4. UNCHANGED <<zoneApps, upstream, down, loading, files, baks, loose, upd, reader>>
  BY DEF ChangeProbes, App
<1>5. AppsTyped' /\ DiskTyped' /\ LooseTyped'
  BY <1>4 DEF TypeInv, AppsTyped, AppTyped, ReaderTyped, DiskTyped, FilesTyped,
     LooseTyped, OpTyped
<1>6. UpdTyped'
  BY <1>4 DEF TypeInv, UpdTyped, UpdaterTyped
<1>7. QED
  BY <1>2, <1>3, <1>5, <1>6 DEF TypeInv

LEMMA ZoneTyped ==
  ASSUME TypeInv, NEW z \in Zones, RemoveApp(z) \/ CreateApp(z)
  PROVE  TypeInv'
<1>1. z \in Agents /\ z # Global /\ Global \in Agents
  BY DEF Agents
<1>2. UNCHANGED <<master, files, baks, loose, upd, seen, spoiled>> /\ Trouble /\ Forget(z)
  BY DEF RemoveApp, CreateApp
<1>3. DiskTyped' /\ LooseTyped'
  BY <1>2 DEF TypeInv, DiskTyped, FilesTyped, LooseTyped, OpTyped
<1>4. UpdTyped'
  BY <1>2 DEF TypeInv, UpdTyped, UpdaterTyped
<1>5. WorldTyped'
  BY <1>1, <1>2 DEF TypeInv, WorldTyped, RemoveApp, CreateApp
<1>6. SpentTyped'
  <2>1. /\ spent' \in [changes: 0..MaxChanges, troubles: 0..MaxTroubles]
        /\ spent'.troubles = spent.troubles + 1
        /\ spent.troubles \in 0..MaxTroubles /\ spent'.troubles \in 0..MaxTroubles
    BY <1>2, TroubleTyped DEF TypeInv, SpentTyped
  <2>2. /\ born' \in [Agents -> 0..MaxTroubles]
        /\ \A a \in Agents : born'[a] <= born[a] + 1
    <3>1. CASE born' = born
      BY <3>1 DEF TypeInv, SpentTyped
    <3>2. CASE born' = [born EXCEPT ![z] = @ + 1]
      <4>1. born[z] \in 0..MaxTroubles /\ born[z] <= spent.troubles
        BY <1>1 DEF TypeInv, SpentTyped
      <4>2. born[z] + 1 \in 0..MaxTroubles
        BY <2>1, <4>1
      <4>3. QED
        BY <1>1, <3>2, <4>2 DEF TypeInv, SpentTyped
    <3>3. QED
      BY <3>1, <3>2 DEF RemoveApp, CreateApp
  <2>3. \A a \in Agents : born'[a] <= spent'.troubles
    BY <2>1, <2>2 DEF TypeInv, SpentTyped
  <2>4. QED
    BY <2>1, <2>2, <2>3 DEF SpentTyped
<1>7. AppsTyped'
  <2>1. /\ upstream' \in [Agents -> {None} \cup Probes]
        /\ down' = [a \in Agents |-> down'[a]]
        /\ upstream'[z] = None /\ down'[z] = None
        /\ \A a \in Agents \ {z} : upstream'[a] = upstream[a] /\ down'[a] = down[a]
    BY <1>1, <1>2 DEF Forget, TypeInv, AppsTyped
  <2>2. ReaderTyped(NoReader) /\ ReaderTyped(reader[Global])
    BY <1>1 DEF ReaderTyped, NoReader, TypeInv, AppsTyped
  <2>3. reader' = [reader EXCEPT ![z] = NoReader, ![Global].passed = reader[Global].on]
    BY DEF RemoveApp, CreateApp
  <2> DEFINE w == [reader[Global] EXCEPT !.passed = reader[Global].on]
  <2>4. ReaderTyped(w) /\ w.on = reader[Global].on
    BY <2>2 DEF ReaderTyped
  <2>5. reader' = [a \in Agents |-> IF a = Global THEN w
                                    ELSE IF a = z THEN NoReader ELSE reader[a]]
    BY <1>1, <2>3 DEF TypeInv, AppsTyped
  <2> HIDE DEF w
  <2>6. /\ reader' = [a \in Agents |-> reader'[a]]
        /\ \A a \in Agents : ReaderTyped(reader'[a])
        /\ ~reader'[z].on /\ \A a \in Agents \ {z} : reader'[a].on = reader[a].on
    BY <1>1, <2>2, <2>4, <2>5 DEF TypeInv, AppsTyped, NoReader
  <2>7. \A a \in Agents : ReaderTyped(reader[a])'
    BY <2>6 DEF ReaderTyped
  <2>8. \A a \in Agents : AppTyped(a)'
    BY <1>1, <2>1, <2>6 DEF TypeInv, AppsTyped, AppTyped, RemoveApp, CreateApp
  <2>9. QED
    BY <1>1, <2>1, <2>6, <2>7, <2>8 DEF TypeInv, AppsTyped, RemoveApp, CreateApp
<1>8. QED
  BY <1>3, <1>4, <1>5, <1>6, <1>7 DEF TypeInv

LEMMA RestartTyped ==
  ASSUME TypeInv, Restart
  PROVE  TypeInv'
<1>1. PICK S \in SUBSET AllOps : files' = FilesAfter(S)
  BY DEF Restart
<1>2. \A o \in AllOps : OpTyped(o)
  BY StageOpsTyped DEF AllOps, TypeInv, LooseTyped
<1>3. \A a \in Agents : FilesTyped(files'[a])
  BY <1>1, <1>2, FilesAfterTyped DEF TypeInv
<1>4. FilesTyped(NoFiles)
  BY DEF FilesTyped, NoFiles, Slot
<1>5. DiskTyped'
  <2>1. files' = [a \in Agents |-> files'[a]]
    BY <1>1 DEF FilesAfter
  <2>2. baks' = [a \in Agents |-> NoFiles]
    BY DEF Restart
  <2>3. QED
    BY <1>3, <1>4, <2>1, <2>2 DEF DiskTyped, FilesTyped
<1>6. LooseTyped'
  BY DEF Restart, LooseTyped
<1>7. UpdTyped'
  <2> DEFINE w == [Resting EXCEPT !.pc = "done"]
  <2>1. Resting \in Updater
    BY RestingTyped DEF UpdaterTyped
  <2>2. w \in Updater /\ w.pc = "done"
    BY <2>1 DEF Updater
  <2>3. UpdaterTyped(w)
    BY <2>2 DEF UpdaterTyped, Stages
  <2>4. upd' = [u \in Updaters |-> IF u = Poll \/ upd[u].pc = "idle" THEN Resting ELSE w]
    BY DEF Restart
  <2> HIDE DEF w
  <2>5. QED
    BY <2>1, <2>2, <2>3, <2>4, RestingTyped DEF UpdTyped, UpdaterTyped
<1>8. WorldTyped'
  BY DEF Restart, TypeInv, WorldTyped
<1>9. SpentTyped'
  <2>1. /\ spent' \in [changes: 0..MaxChanges, troubles: 0..MaxTroubles]
        /\ spent'.troubles = spent.troubles + 1
        /\ spent.troubles \in 0..MaxTroubles /\ spent'.troubles \in 0..MaxTroubles
    BY TroubleTyped DEF Restart, TypeInv, SpentTyped
  <2>2. \A a \in Agents : born[a] \in 0..MaxTroubles /\ born[a] <= spent.troubles
    BY DEF TypeInv, SpentTyped
  <2>3. born' = [a \in Agents |-> born[a] + 1]
    BY DEF Restart
  <2>4. \A a \in Agents : /\ born'[a] = born[a] + 1
                          /\ born'[a] \in 0..MaxTroubles /\ born'[a] <= spent'.troubles
    BY <2>1, <2>2, <2>3
  <2>5. QED
    BY <2>1, <2>3, <2>4 DEF SpentTyped
<1>10. AppsTyped'
  BY DEF Restart, AppsTyped, AppTyped, ReaderTyped, NoReader, Agents
<1>11. QED
  BY <1>5, <1>6, <1>7, <1>8, <1>9, <1>10 DEF TypeInv

LEMMA StepTyped == TypeInv /\ [Next]_vars => TypeInv'
<1> SUFFICES ASSUME TypeInv, [Next]_vars PROVE TypeInv'
  OBVIOUS
<1>1. ASSUME NEW u \in Updaters, Begin(u) \/ Update(u) PROVE TypeInv'
  BY <1>1, BeginTyped, RoundTyped, FetchTyped, WriteTyped, FailTyped DEF Update
<1>2. ASSUME NEW o \in loose, LooseEnds(o) PROVE TypeInv'
  BY <1>2, LooseEndsTyped
<1>3. ASSUME NEW a \in Agents, LoadCache(a) \/ AskDownstream(a) \/ FillDownstream(a)
      PROVE  TypeInv'
  BY <1>3, CacheTyped
<1>4. ASSUME NEW c \in Changed, ChangeProbes(c[1], c[2]) PROVE TypeInv'
  BY <1>4, ChangeTyped
<1>5. ASSUME NEW z \in Zones, RemoveApp(z) \/ CreateApp(z) PROVE TypeInv'
  BY <1>5, ZoneTyped
<1>6. CASE Restart
  BY <1>6, RestartTyped
<1>7. CASE UNCHANGED vars
  <2>1. WorldTyped' /\ AppsTyped' /\ SpentTyped'
    BY <1>7 DEF vars, TypeInv, WorldTyped, AppsTyped, AppTyped, ReaderTyped, SpentTyped
  <2>2. DiskTyped' /\ LooseTyped'
    BY <1>7 DEF vars, TypeInv, DiskTyped, FilesTyped, LooseTyped, OpTyped
  <2>3. UpdTyped'
    BY <1>7 DEF vars, TypeInv, UpdTyped, UpdaterTyped
  <2>4. QED
    BY <2>1, <2>2, <2>3 DEF TypeInv
<1>8. QED
  BY <1>1, <1>2, <1>3, <1>4, <1>5, <1>6, <1>7 DEF Next

\* Every variable keeps its type: a file holds what belongs into it, an operation
\* that writes has something to write, an agent without an App has no cache.
THEOREM TypeCorrect == Spec => []TypeOK
<1>1. Spec => []TypeInv
  BY InitTyped, StepTyped, PTL DEF Spec
<1>2. QED
  BY <1>1, TypeInvSuffices, PTL

----------------------------------------------------------------------------
(* An md5 that says there is no update: NoUpdateMeansCurrent *)

At(u, a, stages) == upd[u].agent = a /\ upd[u].pc \in stages
\* Every md5 about, in memory, on disk or on its way there, is one the master had.
\* So a change to something new differs from all of them.
KnownVal(o, a) == o.agent = a /\ o.stage = "write" /\ o.file = "md5" => o.val \in seen[a]
Known(a) ==
  /\ master[a] \in seen[a]
  /\ upstream[a] \in {None} \cup seen[a]
  /\ files[a].md5 \in {None} \cup seen[a]
  /\ baks[a].md5 \in {None} \cup seen[a]
  /\ \A u \in Updaters : At(u, a, {"get"} \cup Stages) => upd[u].md5 \in seen[a]
  /\ \A o \in loose : KnownVal(o, a)
\* One updater at a time has an agent's files, and nothing else is under way there
\* but what failed beside it.
OneWriter(a) ==
  \A u \in Updaters : At(u, a, Stages) =>
    /\ \A v \in Updaters : At(v, a, Stages) => v = u
    /\ upd[u].pc # "restore" => \A o \in loose : o.agent # a
\* It writes the master's probes, unless the next round will see an update.
WritesMasters(a) ==
  \A u \in Updaters : At(u, a, Stages) =>
    (master[a] \in {upstream[a], upd[u].md5} => upd[u].data = master[a])
\* What is half done or being undone will be seen as out of date.
TornIsStale(a) ==
  \/ \E u \in Updaters : At(u, a, {"restore"})
  \/ \E o \in loose : o.agent = a /\ o.stage # "clean"
  => upstream[a] # master[a]
Current(a) ==
  upstream[a] = master[a] /\ (\A u \in Updaters : ~At(u, a, {"backup", "write"}))
    => HoldsFiles(a)
Sound(a) == OneWriter(a) /\ WritesMasters(a) /\ TornIsStale(a) /\ Current(a)
AgentInv(a) == Known(a) /\ (a \notin spoiled => Sound(a))
SyncInv == \A a \in Agents : AgentInv(a)

LEMMA InitInSync == Init => SyncInv
<1> SUFFICES ASSUME Init, NEW a \in Agents PROVE AgentInv(a)
  BY DEF SyncInv
<1>1. \A u \in Updaters : upd[u].pc = "idle"
  BY DEF Init, Resting
<1>2. Known(a)
  BY <1>1 DEF Init, Known, At, NoFiles, Files, Stages
<1>3. Sound(a)
  BY <1>1 DEF Init, Sound, OneWriter, WritesMasters, TornIsStale, Current, At, Stages,
     HoldsFiles, Files, NoFiles, Probes
<1>4. QED
  BY <1>2, <1>3 DEF AgentInv

LEMMA InSyncSuffices == TypeInv /\ SyncInv => NoUpdateMeansCurrent
BY DEF TypeInv, AppsTyped, SyncInv, AgentInv, Sound, Current, NoUpdateMeansCurrent, Busy,
   At, Stages

----------------------------------------------------------------------------
(* Operations and the files of an agent *)

\* Operations on the files of others leave an agent's alone.
LEMMA OthersFiles ==
  ASSUME DiskTyped, NEW S, NEW a \in Agents, \A o \in S : o.agent # a
  PROVE  FilesAfter(S)[a] = files[a] /\ BaksAfter(S)[a] = baks[a]
<1>1. \A f \in Files : Hits(S, a, f) = {}
  BY DEF Hits
<1>2. /\ files[a] = [f \in Files |-> files[a][f]]
      /\ baks[a] = [f \in Files |-> baks[a][f]]
  BY DEF DiskTyped, FilesTyped
<1>3. QED
  BY <1>1, <1>2 DEF FilesAfter, BaksAfter

\* Unlinking .bak files changes no file.
LEMMA CleansNoFile ==
  ASSUME DiskTyped, NEW S, NEW a \in Agents, \A o \in S : o.agent = a => o.stage = "clean"
  PROVE  FilesAfter(S)[a] = files[a]
<1>1. ASSUME NEW f \in Files PROVE FilesAfter(S)[a][f] = files[a][f]
  <2>1. CASE Hits(S, a, f) = {}
    BY <2>1 DEF FilesAfter
  <2>2. CASE Hits(S, a, f) # {}
    <3> DEFINE o == CHOOSE o \in Hits(S, a, f) : TRUE
    <3>1. o \in S /\ o.agent = a /\ o.file = f
      BY <2>2 DEF Hits
    <3>2. FilesAfter(S)[a][f] = Result(o)
      BY <2>2 DEF FilesAfter
    <3> HIDE DEF o
    <3>3. QED
      BY <3>1, <3>2 DEF Result
  <2>3. QED
    BY <2>1, <2>2
<1>2. files[a] = [f \in Files |-> files[a][f]]
  BY DEF DiskTyped, FilesTyped
<1>3. QED
  BY <1>1, <1>2 DEF FilesAfter

\* The write stage leaves all three files as they were fetched.
LEMMA WritesContent ==
  ASSUME UpdTyped, NEW u \in Updaters, upd[u].pc = "write", NEW f \in Files
  PROVE  FilesAfter(StageOps(u))[upd[u].agent][f] = Content(u, f)
<1> DEFINE a == upd[u].agent
           o == [stage |-> "write", agent |-> a, file |-> f, val |-> Content(u, f)]
<1>1. a \in Agents
  BY DEF UpdTyped, Updater
<1>2. Hits(StageOps(u), a, f) = {o}
  BY DEF Hits, StageOps
<1>3. (CHOOSE x \in {o} : TRUE) = o
  OBVIOUS
<1>4. FilesAfter(StageOps(u))[a][f] = Result(o)
  BY <1>1, <1>2, <1>3 DEF FilesAfter
<1>5. QED
  BY <1>4 DEF Result

\* No operation brings up an md5 that the master never had.
LEMMA KnownAfter ==
  ASSUME DiskTyped, NEW a \in Agents, Known(a), NEW S,
         \A o \in S : OpTyped(o) /\ KnownVal(o, a)
  PROVE  /\ FilesAfter(S)[a].md5 \in {None} \cup seen[a]
         /\ BaksAfter(S)[a].md5 \in {None} \cup seen[a]
<1>1. files[a].md5 \in {None} \cup seen[a] /\ baks[a].md5 \in {None} \cup seen[a]
  BY DEF Known
<1>2. FilesAfter(S)[a].md5 \in {None} \cup seen[a]
  <2>1. CASE Hits(S, a, "md5") = {}
    BY <1>1, <2>1 DEF FilesAfter, Files
  <2>2. CASE Hits(S, a, "md5") # {}
    <3> DEFINE o == CHOOSE o \in Hits(S, a, "md5") : TRUE
    <3>1. o \in S /\ o.agent = a /\ o.file = "md5"
      BY <2>2 DEF Hits
    <3>2. FilesAfter(S)[a].md5 = Result(o)
      BY <2>2 DEF FilesAfter, Files
    <3> HIDE DEF o
    <3>3. KnownVal(o, a) /\ o.stage \in Stages
      BY <3>1 DEF OpTyped
    <3>4. QED
      BY <1>1, <3>1, <3>2, <3>3 DEF Result, KnownVal, Stages
  <2>3. QED
    BY <2>1, <2>2
<1>3. BaksAfter(S)[a].md5 \in {None} \cup seen[a]
  BY <1>1 DEF BaksAfter, Files
<1>4. QED
  BY <1>2, <1>3

\* What an updater writes to the md5 file is what HEAD gave it.
LEMMA StageOpsKnown ==
  ASSUME UpdTyped, NEW a \in Agents, Known(a), NEW u \in Updaters, upd[u].pc \in Stages
  PROVE  \A o \in StageOps(u) : OpTyped(o) /\ KnownVal(o, a)
<1> TAKE o \in StageOps(u)
<1>1. /\ OpTyped(o) /\ o.agent = upd[u].agent
      /\ o.stage = "write" => o.val = Content(u, o.file)
  BY StageOpsTyped
<1>2. upd[u].agent = a => upd[u].md5 \in seen[a]
  BY DEF Known, At
<1>3. Content(u, "md5") = upd[u].md5
  BY DEF Content
<1>4. QED
  BY <1>1, <1>2, <1>3 DEF KnownVal

----------------------------------------------------------------------------
(* Steps *)

\* A step that leaves an agent's updaters where they are or takes them off, and its
\* files alone unless they are seen as out of date, leaves the agent sound.
LEMMA Undisturbed ==
  ASSUME NEW a \in Agents, AgentInv(a), master[a] # None,
         master'[a] = master[a], seen'[a] = seen[a], a \in spoiled => a \in spoiled',
         upstream'[a] \in {None, upstream[a]},
         files'[a].md5 \in {None} \cup seen[a],
         baks'[a].md5 \in {None} \cup seen[a],
         a \in spoiled \/ upstream[a] # master[a] \/ files'[a] = files[a],
         \A o \in loose' : o.agent = a => o \in loose,
         \A u \in Updaters : At(u, a, Stages)' =>
           /\ At(u, a, Stages) /\ upd'[u].pc = upd[u].pc
           /\ upd'[u].md5 = upd[u].md5 /\ upd'[u].data = upd[u].data,
         \A u \in Updaters : At(u, a, {"get"})' => upd'[u].md5 \in seen[a],
         \A u \in Updaters : At(u, a, {"backup", "write"}) => At(u, a, {"backup", "write"})'
  PROVE  AgentInv(a)'
<1>1. Known(a)'
  <2>1. \A u \in Updaters : At(u, a, {"get"} \cup Stages)' => upd'[u].md5 \in seen[a]
    BY DEF AgentInv, Known, At
  <2>2. \A o \in loose' : KnownVal(o, a)'
    BY DEF AgentInv, Known, KnownVal
  <2>3. QED
    BY <2>1, <2>2 DEF AgentInv, Known
<1>2. ASSUME Sound(a), a \notin spoiled PROVE Sound(a)'
  <2>1. OneWriter(a)'
    BY <1>2 DEF Sound, OneWriter, At
  <2>2. WritesMasters(a)'
    BY <1>2 DEF Sound, WritesMasters, At
  <2>3. TornIsStale(a)'
    BY <1>2 DEF Sound, TornIsStale, At, Stages
  <2>4. Current(a)'
    <3>1. CASE upstream'[a] = master'[a]
      <4>1. upstream[a] = master[a] /\ files'[a] = files[a]
        BY <1>2, <3>1
      <4>2. QED
        BY <1>2, <4>1 DEF Sound, Current, HoldsFiles
    <3>2. QED
      BY <3>1 DEF Current
  <2>5. QED
    BY <2>1, <2>2, <2>3, <2>4 DEF Sound
<1>3. QED
  BY <1>1, <1>2 DEF AgentInv

\* Another updater's step is none of an agent's business.
LEMMA Elsewhere ==
  ASSUME TypeInv, NEW a \in Agents, AgentInv(a), NEW u \in Updaters, upd[u].agent # a,
         master'[a] = master[a], seen'[a] = seen[a], a \in spoiled => a \in spoiled',
         upstream'[a] = upstream[a], files'[a] = files[a], baks'[a] = baks[a],
         \A o \in loose' : o.agent = a => o \in loose,
         upd'[u].agent = a => upd'[u].pc \notin {"get"} \cup Stages,
         \A v \in Updaters \ {u} : upd'[v] = upd[v]
  PROVE  AgentInv(a)'
<1>1. /\ files[a].md5 \in {None} \cup seen[a] /\ baks[a].md5 \in {None} \cup seen[a]
      /\ master[a] # None
      /\ \A v \in Updaters : At(v, a, {"get"}) => upd[v].md5 \in seen[a]
  BY DEF AgentInv, Known, At, TypeInv, WorldTyped
<1>2. \A v \in Updaters : /\ At(v, a, Stages)' => upd'[v] = upd[v]
                          /\ At(v, a, {"get"})' => upd'[v] = upd[v]
                          /\ At(v, a, {"backup", "write"}) => upd'[v] = upd[v]
  BY DEF At
<1>3. QED
  BY <1>1, <1>2, Undisturbed DEF At

LEMMA UpdMoves ==
  ASSUME UpdTyped, NEW u \in Updaters
  PROVE  /\ \A w : upd' = [upd EXCEPT ![u] = w] =>
                     upd'[u] = w /\ \A v \in Updaters \ {u} : upd'[v] = upd[v]
         /\ \A todo : upd' = NextOne(u, todo) =>
                     /\ upd'[u].pc = "next" /\ upd'[u].agent = Global
                     /\ \A v \in Updaters \ {u} : upd'[v] = upd[v]
BY DEF UpdTyped, NextOne, Resting

\* Where the updaters are after a step of a round that ends no stage.
LEMMA RoundMoves ==
  ASSUME TypeInv, NEW u \in Updaters,
         \/ Begin(u) \/ NextZone(u) \/ EndRound(u)
         \/ HeadAgentProbes(u) \/ HeadFails(u) \/ ListFails(u)
  PROVE  /\ \A v \in Updaters \ {u} : upd'[v] = upd[v]
         /\ \/ upd'[u].pc \in {"idle", "next", "head", "done"}
            \/ /\ upd'[u].pc = "get" /\ upd'[u].agent = upd[u].agent
               /\ upd'[u].md5 = master[upd[u].agent]
<1>0. upd[u] \in Updater
  BY DEF TypeInv, UpdTyped
<1>1. CASE NextZone(u)
  <2>1. PICK b \in upd[u].todo :
          upd' = IF b \notin zoneApps THEN NextOne(u, upd[u].todo \ {b})
                 ELSE [upd EXCEPT ![u].todo = @ \ {b}, ![u].agent = b,
                                  ![u].born = born[b], ![u].pc = "head"]
    BY <1>1 DEF NextZone
  <2>2. QED
    BY <1>0, <2>1, UpdMoves DEF TypeInv, UpdTyped, Updater
<1>2. CASE HeadAgentProbes(u)
  <2> DEFINE w == [upd[u] EXCEPT !.md5 = master[upd[u].agent], !.pc = "get"]
  <2>1. w.pc = "get" /\ w.agent = upd[u].agent /\ w.md5 = master[upd[u].agent]
    BY <1>0 DEF Updater
  <2>2. upd' = NextOne(u, upd[u].todo) \/ upd' = [upd EXCEPT ![u] = w]
    BY <1>2 DEF HeadAgentProbes, TypeInv, UpdTyped
  <2> HIDE DEF w
  <2>3. QED
    BY <2>1, <2>2, UpdMoves DEF TypeInv
<1>3. CASE EndRound(u)
  BY <1>3, UpdMoves DEF EndRound, TypeInv, Resting
<1>4. CASE Begin(u) \/ HeadFails(u) \/ ListFails(u)
  BY <1>4, UpdMoves DEF Begin, HeadFails, ListFails, TypeInv
<1>5. QED
  BY <1>1, <1>2, <1>3, <1>4

\* And after a stage that goes through, or fails.
LEMMA StageMoves ==
  ASSUME TypeInv, NEW u \in Updaters, NEW b \in Agents, b = upd[u].agent,
         Backup(u) \/ Write(u) \/ Clean(u) \/ Restore(u)
  PROVE  /\ \A v \in Updaters \ {u} : upd'[v] = upd[v]
         /\ \/ upd[u].pc # "backup" /\ upd'[u].pc = "next"
            \/ /\ upd'[u].agent = b
               /\ upd'[u].md5 = upd[u].md5 /\ upd'[u].data = upd[u].data
               /\ \/ /\ Backup(u) /\ upd[u].pc = "backup" /\ upd'[u].pc = "write"
                     /\ upd'[u].oldHost = files[b].host
                  \/ /\ Write(u) /\ upd[u].pc = "write" /\ upd'[u].pc = "clean"
                     /\ upd'[u].oldHost = upd[u].oldHost /\ upd[u].saved # {}
<1>0. upd[u] \in Updater
  BY DEF TypeInv, UpdTyped
<1>1. CASE Backup(u)
  <2> DEFINE w == [upd[u] EXCEPT !.saved = {f \in Files : files[b][f] # None},
                                 !.oldHost = files[b].host, !.pc = "write"]
  <2>1. w.agent = b /\ w.md5 = upd[u].md5 /\ w.data = upd[u].data /\ w.pc = "write"
        /\ w.oldHost = files[b].host
    BY <1>0 DEF Updater
  <2>2. upd' = [upd EXCEPT ![u] = w]
    BY <1>1 DEF Backup, TypeInv, UpdTyped
  <2> HIDE DEF w
  <2>3. QED
    BY <1>1, <2>1, <2>2, UpdMoves DEF Backup, Whole, TypeInv
<1>2. CASE Write(u) /\ upd[u].saved # {}
  <2> DEFINE w == [upd[u] EXCEPT !.pc = "clean"]
  <2>1. w.agent = b /\ w.md5 = upd[u].md5 /\ w.data = upd[u].data /\ w.pc = "clean"
        /\ w.oldHost = upd[u].oldHost
    BY <1>0 DEF Updater
  <2>2. upd' = [upd EXCEPT ![u] = w]
    BY <1>2 DEF Write, TypeInv, UpdTyped
  <2> HIDE DEF w
  <2>3. QED
    BY <1>2, <2>1, <2>2, UpdMoves DEF Write, Whole, TypeInv
<1>3. CASE upd[u].pc # "backup" /\ upd' = NextOne(u, upd[u].todo)
  BY <1>3, UpdMoves DEF TypeInv
<1>4. QED
  BY <1>1, <1>2, <1>3 DEF Write, Clean, Restore, Whole

LEMMA FailMoves ==
  ASSUME TypeInv, NEW u \in Updaters, NEW b \in Agents, b = upd[u].agent, StageFails(u)
  PROVE  /\ \A v \in Updaters \ {u} : upd'[v] = upd[v]
         /\ \/ upd'[u].pc = "next"
            \/ /\ upd[u].pc = "write" /\ upd'[u].pc = "restore"
               /\ upd'[u].agent = b /\ upd'[u].md5 = upd[u].md5 /\ upd'[u].data = upd[u].data
<1>0. upd[u] \in Updater
  BY DEF TypeInv, UpdTyped
<1>1. CASE upd[u].pc = "write" /\ upd[u].saved # {}
  <2> DEFINE w == [upd[u] EXCEPT !.pc = "restore"]
  <2>1. w.agent = b /\ w.md5 = upd[u].md5 /\ w.data = upd[u].data /\ w.pc = "restore"
    BY <1>0 DEF Updater
  <2>2. upd' = [upd EXCEPT ![u] = w]
    BY <1>1 DEF StageFails, TypeInv, UpdTyped
  <2> HIDE DEF w
  <2>3. upd'[u] = w /\ \A v \in Updaters \ {u} : upd'[v] = upd[v]
    BY <2>2 DEF TypeInv, UpdTyped
  <2>4. QED
    BY <1>1, <2>1, <2>3
<1>2. CASE ~(upd[u].pc = "write" /\ upd[u].saved # {})
  BY <1>2, UpdMoves DEF StageFails, TypeInv
<1>3. QED
  BY <1>1, <1>2

\* A round begins, goes on or ends; a call fails; HEAD's answer.
LEMMA RoundInSync ==
  ASSUME TypeInv, SyncInv, NEW u \in Updaters,
         \/ Begin(u) \/ NextZone(u) \/ EndRound(u)
         \/ HeadAgentProbes(u) \/ HeadFails(u) \/ ListFails(u)
  PROVE  SyncInv'
<1> SUFFICES ASSUME NEW a \in Agents PROVE AgentInv(a)'
  BY DEF SyncInv
<1>1. /\ UNCHANGED <<master, seen, spoiled, upstream, files, baks, loose>>
      /\ upd[u].pc \in {"idle", "next", "head", "get"}
  BY DEF Begin, NextZone, EndRound, HeadAgentProbes, HeadFails, ListFails, Ghosts
<1>2. AgentInv(a) /\ Known(a) /\ master[a] # None /\ upd[u] \in Updater
  BY DEF SyncInv, AgentInv, TypeInv, WorldTyped, UpdTyped
<1>3. /\ \A v \in Updaters \ {u} : upd'[v] = upd[v]
      /\ \/ upd'[u].pc \in {"idle", "next", "head", "done"}
         \/ /\ upd'[u].pc = "get" /\ upd'[u].agent = upd[u].agent
            /\ upd'[u].md5 = master[upd[u].agent]
  BY RoundMoves
<1>4. /\ \A v \in Updaters : At(v, a, Stages)' => upd'[v] = upd[v]
      /\ \A v \in Updaters : At(v, a, {"backup", "write"}) => upd'[v] = upd[v]
      /\ \A v \in Updaters : At(v, a, {"get"})' => upd'[v].md5 \in seen[a]
  BY <1>1, <1>2, <1>3 DEF At, Stages, Known
<1>5. /\ files'[a].md5 \in {None} \cup seen[a] /\ baks'[a].md5 \in {None} \cup seen[a]
      /\ files'[a] = files[a]
  BY <1>1, <1>2 DEF Known
<1>6. QED
  BY <1>1, <1>2, <1>4, <1>5, Undisturbed DEF At

\* The probes come: what is written is what the master has, now.
LEMMA ListInSync ==
  ASSUME TypeInv, SyncInv, NEW u \in Updaters, ListAgentProbes(u)
  PROVE  SyncInv'
<1> PICK b \in Agents : b = upd[u].agent
  BY DEF TypeInv, UpdTyped, Updater
<1> SUFFICES ASSUME NEW a \in Agents PROVE AgentInv(a)'
  BY DEF SyncInv
<1>1. /\ UNCHANGED <<master, seen, upstream, files, baks, loose>> /\ upd[u].pc = "get"
      /\ spoiled' = IF Busy(b) THEN spoiled \cup {b} ELSE spoiled
  BY DEF ListAgentProbes
<1>2. AgentInv(a) /\ Known(a) /\ upd[u] \in Updater
  BY DEF SyncInv, AgentInv, TypeInv, UpdTyped
<1>3. /\ upd'[u] = [upd[u] EXCEPT !.data = master[b], !.pc = "backup"]
      /\ \A v \in Updaters \ {u} : upd'[v] = upd[v]
  BY <1>2 DEF ListAgentProbes, TypeInv, UpdTyped
<1>4. /\ upd'[u].pc = "backup" /\ upd'[u].agent = b /\ upd'[u].md5 = upd[u].md5
      /\ upd'[u].data = master[b]
  BY <1>2, <1>3 DEF Updater
<1>5. CASE a # b
  BY <1>1, <1>2, <1>3, <1>4, <1>5, Elsewhere
<1>6. CASE a = b
  <2>1. Known(a)'
    <3>1. \A v \in Updaters : At(v, a, {"get"} \cup Stages)' => upd'[v].md5 \in seen[a]
      BY <1>1, <1>2, <1>3, <1>4, <1>6 DEF Known, At
    <3>2. \A o \in loose' : KnownVal(o, a)'
      BY <1>1, <1>2 DEF Known, KnownVal
    <3>3. QED
      BY <1>1, <1>2, <3>1, <3>2 DEF Known
  <2>2. ASSUME ~Busy(a) PROVE Sound(a)'
    <3>1. /\ \A v \in Updaters : At(v, a, Stages)' => v = u
          /\ \A o \in loose' : o.agent # a
          /\ At(u, a, {"backup", "write"})'
      BY <1>1, <1>3, <1>4, <1>6, <2>2 DEF Busy, At
    <3>2. OneWriter(a)' /\ Current(a)'
      BY <3>1 DEF OneWriter, Current
    <3>3. TornIsStale(a)'
      BY <1>4, <3>1 DEF TornIsStale, At, Stages
    <3>4. WritesMasters(a)'
      BY <1>1, <1>4, <1>6, <3>1 DEF WritesMasters
    <3>5. QED
      BY <3>2, <3>3, <3>4 DEF Sound
  <2>3. QED
    BY <1>1, <1>6, <2>1, <2>2 DEF AgentInv
<1>7. QED
  BY <1>5, <1>6

\* A stage that goes through: its operations hit the agent's files only.
LEMMA StageInSync ==
  ASSUME TypeInv, SyncInv, NEW u \in Updaters,
         Backup(u) \/ Write(u) \/ Clean(u) \/ Restore(u)
  PROVE  SyncInv'
<1> PICK b \in Agents : b = upd[u].agent
  BY DEF TypeInv, UpdTyped, Updater
<1> SUFFICES ASSUME NEW a \in Agents PROVE AgentInv(a)'
  BY DEF SyncInv
<1>1. /\ files' = FilesAfter(StageOps(u)) /\ baks' = BaksAfter(StageOps(u))
      /\ UNCHANGED <<master, seen, loose, spoiled>>
      /\ upd[u].pc \in Stages
  BY DEF Backup, Write, Clean, Restore, Whole, Perform, Stages
<1>2. AgentInv(a) /\ Known(a) /\ upd[u] \in Updater /\ master[a] # None
  BY DEF SyncInv, AgentInv, TypeInv, UpdTyped, WorldTyped
<1>3. \A o \in StageOps(u) : OpTyped(o) /\ o.agent = b /\ o.stage = upd[u].pc
  BY <1>1, StageOpsTyped DEF TypeInv
<1>4. \A v \in Updaters \ {u} : upd'[v] = upd[v]
  BY StageMoves
<1>5. /\ files'[a].md5 \in {None} \cup seen[a] /\ baks'[a].md5 \in {None} \cup seen[a]
  BY <1>1, <1>2, StageOpsKnown, KnownAfter DEF TypeInv
<1>6. \/ upd[u].pc # "backup" /\ upd'[u].pc = "next"
      \/ /\ upd'[u].agent = b /\ upd'[u].md5 = upd[u].md5 /\ upd'[u].data = upd[u].data
         /\ \/ Backup(u) /\ upd[u].pc = "backup" /\ upd'[u].pc = "write"
            \/ Write(u) /\ upd[u].pc = "write" /\ upd'[u].pc = "clean"
  BY StageMoves
<1>7. \A v \in Updaters : At(v, a, Stages)' =>
        /\ At(v, a, Stages)
        /\ upd'[v].md5 = upd[v].md5 /\ upd'[v].data = upd[v].data
        /\ upd'[v].pc = "restore" => upd[v].pc = "restore" /\ v # u
  BY <1>1, <1>4, <1>6 DEF At, Stages
<1>8. \A v \in Updaters : At(v, a, {"get"})' => upd'[v].md5 \in seen[a]
  BY <1>2, <1>4, <1>6 DEF At, Known
<1>9. CASE a # b
  <2>1. files'[a] = files[a] /\ baks'[a] = baks[a]
    BY <1>1, <1>3, <1>9, OthersFiles DEF TypeInv
  <2>2. upstream'[a] = upstream[a]
    BY <1>9 DEF Backup, Write, Clean, Restore, Mine, TypeInv, AppsTyped
  <2>3. upd'[u].agent = a => upd'[u].pc \notin {"get"} \cup Stages
    BY <1>6, <1>9 DEF Stages
  <2>4. QED
    BY <1>1, <1>2, <1>4, <1>9, <2>1, <2>2, <2>3, Elsewhere
<1>10. CASE a = b /\ (Clean(u) \/ Restore(u))
  <2>1. At(u, a, Stages) /\ upstream' = upstream /\ upd'[u].pc = "next"
    BY <1>1, <1>6, <1>10 DEF At, Clean, Restore, Whole
  <2>2. a \in spoiled \/ upstream[a] # master[a] \/ files'[a] = files[a]
    <3>1. CASE Clean(u)
      BY <1>1, <1>3, <3>1, CleansNoFile DEF Clean, Whole, TypeInv
    <3>2. CASE Restore(u)
      BY <1>2, <1>10, <3>2 DEF Restore, Whole, At, AgentInv, Sound, TornIsStale
    <3>3. QED
      BY <1>10, <3>1, <3>2
  <2>3. \A v \in Updaters : v # u => upd'[v] = upd[v]
    BY <1>4
  <2>4. \A v \in Updaters : /\ At(v, a, Stages)' => v # u
                            /\ At(v, a, {"backup", "write"}) => v # u
    BY <1>10, <2>1 DEF At, Stages, Clean, Restore, Whole
  <2>5. QED
    BY <1>1, <1>2, <1>5, <1>8, <2>1, <2>2, <2>3, <2>4, Undisturbed DEF At
<1>11. CASE a = b /\ (Backup(u) \/ Write(u))
  <2>1. At(u, a, Stages) /\ upd[u].pc \in {"backup", "write"}
    BY <1>1, <1>11 DEF At, Backup, Write, Whole
  <2>2. upstream'[a] \in {upstream[a], upd[u].md5} /\ upd[u].md5 \in seen[a]
    BY <1>2, <1>11, <2>1 DEF Backup, Write, Known, At, TypeInv, AppsTyped
  <2>3. Known(a)'
    <3>1. \A v \in Updaters : At(v, a, {"get"} \cup Stages)' => upd'[v].md5 \in seen[a]
      BY <1>2, <1>7, <1>8 DEF Known, At
    <3>2. \A o \in loose' : KnownVal(o, a)'
      BY <1>1, <1>2 DEF Known, KnownVal
    <3>3. QED
      BY <1>1, <1>2, <1>5, <2>2, <3>1, <3>2 DEF Known
  <2>4. ASSUME a \notin spoiled PROVE Sound(a)'
    <3>1. Sound(a)
      BY <1>2, <2>4 DEF AgentInv
    <3>2. /\ \A v \in Updaters : At(v, a, Stages) => v = u
          /\ \A o \in loose : o.agent # a
      BY <2>1, <3>1 DEF Sound, OneWriter
    <3>3. OneWriter(a)'
      BY <1>1, <1>7, <3>2 DEF OneWriter
    <3>4. TornIsStale(a)'
      BY <1>1, <1>7, <3>2 DEF TornIsStale, At, Stages
    <3>5. master[a] \in {upstream[a], upd[u].md5} => upd[u].data = master[a]
      BY <2>1, <3>1 DEF Sound, WritesMasters
    <3>6. WritesMasters(a)'
      BY <1>1, <1>7, <2>2, <3>2, <3>5 DEF WritesMasters
    <3>7. Current(a)'
      <4>1. CASE Backup(u)
        BY <1>6, <1>11, <4>1 DEF Current, At, Backup, Whole
      <4>2. CASE Write(u)
        <5>1. /\ files'[a]["guest"] = upd[u].data.guest
              /\ files'[a]["host"] = upd[u].data.host
          BY <1>1, <1>11, <4>2, WritesContent DEF Write, Whole, Content, Files, TypeInv
        <5>2. QED
          BY <1>1, <2>2, <3>5, <5>1 DEF Current, HoldsFiles
      <4>3. QED
        BY <1>11, <4>1, <4>2
    <3>8. QED
      BY <3>3, <3>4, <3>6, <3>7 DEF Sound
  <2>5. QED
    BY <1>1, <2>3, <2>4 DEF AgentInv
<1>12. QED
  BY <1>9, <1>10, <1>11

\* A stage that fails: what was not done goes on, and the agent will be seen as out
\* of date, or only .bak files are left over, or it is spoiled.
LEMMA FailInSync ==
  ASSUME TypeInv, SyncInv, NEW u \in Updaters, StageFails(u)
  PROVE  SyncInv'
<1> PICK b \in Agents : b = upd[u].agent
  BY DEF TypeInv, UpdTyped, Updater
<1> SUFFICES ASSUME NEW a \in Agents PROVE AgentInv(a)'
  BY DEF SyncInv
<1>1. PICK o \in StageOps(u), done \in SUBSET StageOps(u) :
        /\ Perform(u, done)
        /\ loose' = loose \cup (StageOps(u) \ (done \cup {o}))
  BY DEF StageFails
<1>2. /\ files' = FilesAfter(done) /\ baks' = BaksAfter(done)
      /\ UNCHANGED <<master, seen, upstream>> /\ upd[u].pc \in Stages
      /\ spoiled' = IF upd[u].pc # "clean" /\ upstream[b] \in {upd[u].md5, upd[u].data}
                    THEN spoiled \cup {b} ELSE spoiled
  BY <1>1 DEF StageFails, Perform
<1>3. AgentInv(a) /\ Known(a) /\ upd[u] \in Updater /\ master[a] # None
  BY DEF SyncInv, AgentInv, TypeInv, UpdTyped, WorldTyped
<1>4. \A x \in StageOps(u) : /\ OpTyped(x) /\ x.agent = b /\ x.stage = upd[u].pc
                             /\ KnownVal(x, a)
  BY <1>2, <1>3, StageOpsTyped, StageOpsKnown DEF TypeInv
<1>5. \A v \in Updaters \ {u} : upd'[v] = upd[v]
  BY FailMoves
<1>6. /\ files'[a].md5 \in {None} \cup seen[a] /\ baks'[a].md5 \in {None} \cup seen[a]
  BY <1>2, <1>3, <1>4, KnownAfter DEF TypeInv
<1>7. \/ upd'[u].pc = "next"
      \/ /\ upd[u].pc = "write" /\ upd'[u].pc = "restore"
         /\ upd'[u].agent = b /\ upd'[u].md5 = upd[u].md5 /\ upd'[u].data = upd[u].data
  BY FailMoves
<1>8. CASE a # b
  <2>1. files'[a] = files[a] /\ baks'[a] = baks[a]
    BY <1>2, <1>4, <1>8, OthersFiles DEF TypeInv
  <2>2. \A x \in loose' : x.agent = a => x \in loose
    BY <1>1, <1>4, <1>8
  <2>3. QED
    BY <1>2, <1>3, <1>5, <1>7, <1>8, <2>1, <2>2, Elsewhere DEF Stages
<1>9. CASE a = b
  <2>1. At(u, a, Stages)
    BY <1>2, <1>9 DEF At
  <2>2. /\ \A v \in Updaters : At(v, a, {"get"} \cup Stages)' =>
             At(v, a, {"get"} \cup Stages) /\ upd'[v].md5 = upd[v].md5
        /\ \A v \in Updaters : At(v, a, Stages)' =>
             /\ At(v, a, Stages) /\ upd'[v].md5 = upd[v].md5
             /\ upd'[v].data = upd[v].data
    BY <1>2, <1>5, <1>7, <1>9 DEF At, Stages
  <2>3. Known(a)'
    <3>1. \A v \in Updaters : At(v, a, {"get"} \cup Stages)' => upd'[v].md5 \in seen[a]
      BY <1>3, <2>2 DEF Known
    <3>2. \A x \in loose' : KnownVal(x, a)'
      BY <1>1, <1>2, <1>3, <1>4 DEF Known, KnownVal
    <3>3. QED
      BY <1>2, <1>3, <1>6, <3>1, <3>2 DEF Known
  <2>4. ASSUME a \notin spoiled' PROVE Sound(a)'
    <3>1. /\ Sound(a)
          /\ upd[u].pc = "clean" \/ upstream[a] \notin {upd[u].md5, upd[u].data}
      BY <1>2, <1>3, <1>9, <2>4 DEF AgentInv
    <3>2. \A v \in Updaters : At(v, a, Stages) => v = u
      BY <2>1, <3>1 DEF Sound, OneWriter
    <3>3. OneWriter(a)'
      BY <1>7, <2>2, <3>2 DEF OneWriter, At, Stages
    <3>4. master[a] \in {upstream[a], upd[u].md5} => upd[u].data = master[a]
      BY <2>1, <3>1 DEF Sound, WritesMasters
    <3>5. WritesMasters(a)'
      BY <1>2, <2>2, <3>2, <3>4 DEF WritesMasters
    <3>6. CASE upd[u].pc = "clean"
      <4>1. upd'[u].pc = "next" /\ \A x \in loose' : x.agent = a => x.stage = "clean"
        BY <1>1, <1>4, <1>7, <2>1, <3>1, <3>6 DEF Sound, OneWriter
      <4>2. TornIsStale(a)'
        BY <2>2, <3>2, <4>1 DEF TornIsStale, At, Stages
      <4>3. files'[a] = files[a]
        BY <1>2, <1>4, <3>6, CleansNoFile DEF TypeInv
      <4>4. \A v \in Updaters : ~At(v, a, {"backup", "write"})
        BY <3>2, <3>6 DEF At, Stages
      <4>5. Current(a)'
        BY <1>2, <3>1, <4>3, <4>4 DEF Sound, Current, HoldsFiles
      <4>6. QED
        BY <3>3, <3>5, <4>2, <4>5 DEF Sound
    <3>7. CASE upd[u].pc # "clean"
      <4>1. upstream[a] # master[a]
        BY <3>1, <3>4, <3>7
      <4>2. QED
        BY <1>2, <3>3, <3>5, <4>1 DEF Sound, TornIsStale, Current
    <3>8. QED
      BY <3>6, <3>7
  <2>5. QED
    BY <2>3, <2>4 DEF AgentInv
<1>10. QED
  BY <1>8, <1>9

\* What goes on beside a failed operation.
LEMMA LooseInSync ==
  ASSUME TypeInv, SyncInv, NEW o \in loose, LooseEnds(o)
  PROVE  SyncInv'
<1> SUFFICES ASSUME NEW a \in Agents PROVE AgentInv(a)'
  BY DEF SyncInv
<1>1. PICK S \in {{}, {o}} : files' = FilesAfter(S) /\ baks' = BaksAfter(S)
  BY DEF LooseEnds
<1>2. UNCHANGED <<master, seen, upstream, upd, spoiled>> /\ loose' = loose \ {o}
  BY DEF LooseEnds
<1>3. AgentInv(a) /\ Known(a) /\ master[a] # None /\ OpTyped(o) /\ KnownVal(o, a)
  BY DEF SyncInv, AgentInv, Known, TypeInv, LooseTyped, WorldTyped
<1>4. /\ files'[a].md5 \in {None} \cup seen[a] /\ baks'[a].md5 \in {None} \cup seen[a]
  BY <1>1, <1>3, KnownAfter DEF TypeInv
<1>5. a \in spoiled \/ upstream[a] # master[a] \/ files'[a] = files[a]
  <2>1. CASE o.agent = a => o.stage = "clean"
    BY <1>1, <2>1, CleansNoFile DEF TypeInv
  <2>2. CASE o.agent = a /\ o.stage # "clean"
    BY <1>3, <2>2 DEF AgentInv, Sound, TornIsStale
  <2>3. QED
    BY <2>1, <2>2
<1>6. \A v \in Updaters : At(v, a, {"get"}) => upd[v].md5 \in seen[a]
  BY <1>3 DEF Known, At
<1>7. QED
  BY <1>2, <1>3, <1>4, <1>5, <1>6, Undisturbed DEF At

\* Zones come and go, a cache is read or filled, an App's start.
LEMMA AppInSync ==
  ASSUME TypeInv, SyncInv,
         \/ \E z \in Zones : RemoveApp(z) \/ CreateApp(z)
         \/ \E b \in Agents : AskDownstream(b) \/ FillDownstream(b) \/ LoadCache(b)
         \/ UNCHANGED vars
  PROVE  SyncInv'
<1> SUFFICES ASSUME NEW a \in Agents PROVE AgentInv(a)'
  BY DEF SyncInv
<1>1. UNCHANGED <<master, seen, upd, files, baks, loose>>
  BY DEF RemoveApp, CreateApp, AskDownstream, FillDownstream, LoadCache, Ghosts, vars
<1>2. /\ AgentInv(a) /\ Known(a) /\ master[a] # None
      /\ files[a].md5 \in {None} \cup seen[a] /\ baks[a].md5 \in {None} \cup seen[a]
      /\ \A v \in Updaters : At(v, a, {"get"}) => upd[v].md5 \in seen[a]
  BY DEF SyncInv, AgentInv, TypeInv, WorldTyped, Known, At
<1>3. CASE upstream'[a] \in {None, upstream[a]} /\ (a \in spoiled => a \in spoiled')
  BY <1>1, <1>2, <1>3, Undisturbed DEF At
<1>4. CASE LoadCache(a)
  <2>1. upstream'[a] = files[a].md5
    BY <1>4 DEF LoadCache, TypeInv, AppsTyped
  <2>2. Known(a)'
    <3>1. \A v \in Updaters : At(v, a, {"get"} \cup Stages)' => upd'[v].md5 \in seen[a]
      BY <1>1, <1>2 DEF Known, At
    <3>2. \A o \in loose' : KnownVal(o, a)'
      BY <1>1, <1>2 DEF Known, KnownVal
    <3>3. QED
      BY <1>1, <1>2, <2>1, <3>1, <3>2 DEF Known
  <2>3. ASSUME ~Busy(a), ~Torn(a) PROVE Sound(a)'
    <3>1. \A v \in Updaters : ~At(v, a, Stages)'
      BY <1>1, <2>3 DEF Busy, At
    <3>2. \A o \in loose' : o.agent # a
      BY <1>1, <2>3 DEF Busy
    <3>3. OneWriter(a)' /\ WritesMasters(a)' /\ TornIsStale(a)'
      BY <3>1, <3>2 DEF OneWriter, WritesMasters, TornIsStale, At, Stages
    <3>4. Current(a)'
      BY <1>1, <1>2, <2>1, <2>3 DEF Current, HoldsFiles, Torn
    <3>5. QED
      BY <3>3, <3>4 DEF Sound
  <2>4. QED
    BY <1>4, <2>2, <2>3 DEF AgentInv, LoadCache
<1>5. CASE ~LoadCache(a)
  <2>1. upstream'[a] \in {None, upstream[a]}
    BY <1>5 DEF RemoveApp, CreateApp, Forget, AskDownstream, FillDownstream, LoadCache,
       Ghosts, vars, TypeInv, AppsTyped
  <2>2. a \in spoiled => a \in spoiled'
    BY DEF RemoveApp, CreateApp, AskDownstream, FillDownstream, LoadCache, Ghosts, vars
  <2>3. QED
    BY <1>3, <2>1, <2>2
<1>6. QED
  BY <1>4, <1>5

\* The master's probes change, to something it never had unless the agent is spoiled.
LEMMA ChangeInSync ==
  ASSUME TypeInv, SyncInv, NEW c \in Changed, ChangeProbes(c[1], c[2])
  PROVE  SyncInv'
<1> SUFFICES ASSUME NEW a \in Agents PROVE AgentInv(a)'
  BY DEF SyncInv
<1> PICK b \in Agents, p \in Probes : b = c[1] /\ p = c[2]
  OBVIOUS
<1>1. /\ UNCHANGED <<upstream, upd, files, baks, loose>>
      /\ master' = [master EXCEPT ![b] = p]
      /\ seen' = [seen EXCEPT ![b] = seen[b] \cup {p}]
      /\ spoiled' = IF p \in seen[b] THEN spoiled \cup {b} ELSE spoiled
  BY DEF ChangeProbes, TypeInv, WorldTyped
<1>2. /\ AgentInv(a) /\ Known(a) /\ master[a] # None /\ p # None
      /\ files[a].md5 \in {None} \cup seen[a] /\ baks[a].md5 \in {None} \cup seen[a]
      /\ \A v \in Updaters : At(v, a, {"get"}) => upd[v].md5 \in seen[a]
  BY DEF SyncInv, AgentInv, TypeInv, WorldTyped, Known, At
<1>3. CASE a # b
  <2>1. master'[a] = master[a] /\ seen'[a] = seen[a]
    BY <1>1, <1>3 DEF TypeInv, WorldTyped
  <2>2. QED
    BY <1>1, <1>2, <1>3, <2>1, Undisturbed DEF At
<1>4. CASE a = b
  <2>1. master'[a] = p /\ seen'[a] = seen[a] \cup {p}
    BY <1>1, <1>4 DEF TypeInv, WorldTyped
  <2>2. Known(a)'
    <3>1. \A v \in Updaters : At(v, a, {"get"} \cup Stages)' => upd'[v].md5 \in seen'[a]
      BY <1>1, <1>2, <2>1 DEF Known, At
    <3>2. \A o \in loose' : KnownVal(o, a)'
      BY <1>1, <1>2, <2>1 DEF Known, KnownVal
    <3>3. QED
      BY <1>1, <1>2, <2>1, <3>1, <3>2 DEF Known
  <2>3. ASSUME a \notin spoiled' PROVE Sound(a)'
    <3>1. p \notin seen[a] /\ Sound(a)
      BY <1>1, <1>2, <1>4, <2>3 DEF AgentInv
    <3>2. /\ upstream'[a] # master'[a]
          /\ \A u \in Updaters : At(u, a, Stages)' => upd'[u].md5 # master'[a]
      BY <1>1, <1>2, <2>1, <3>1 DEF Known, At
    <3>3. OneWriter(a)'
      BY <1>1, <3>1 DEF Sound, OneWriter, At
    <3>4. QED
      BY <3>2, <3>3 DEF Sound, WritesMasters, TornIsStale, Current
  <2>4. QED
    BY <2>2, <2>3 DEF AgentInv
<1>5. QED
  BY <1>3, <1>4

\* A relay that starts again knows no md5.
LEMMA RestartInSync ==
  ASSUME TypeInv, SyncInv, Restart
  PROVE  SyncInv'
<1> SUFFICES ASSUME NEW a \in Agents PROVE AgentInv(a)'
  BY DEF SyncInv
<1>1. PICK S \in SUBSET AllOps : files' = FilesAfter(S)
  BY DEF Restart
<1>2. AgentInv(a) /\ Known(a) /\ master[a] # None
  BY DEF SyncInv, AgentInv, TypeInv, WorldTyped
<1>3. \A o \in AllOps : OpTyped(o) /\ KnownVal(o, a)
  BY <1>2, StageOpsKnown DEF AllOps, Known, TypeInv, LooseTyped
<1>4. files'[a].md5 \in {None} \cup seen[a]
  BY <1>1, <1>2, <1>3, KnownAfter DEF TypeInv
<1>5. /\ UNCHANGED <<master, seen, spoiled>> /\ loose' = {}
      /\ upstream'[a] = None /\ baks'[a].md5 = None
      /\ \A u \in Updaters : upd'[u].pc \in {"idle", "done"}
  BY DEF Restart, NoFiles, Files, Resting
<1>6. \A u \in Updaters : ~At(u, a, {"get"} \cup Stages)'
  BY <1>5 DEF At, Stages
<1>7. QED
  BY <1>2, <1>4, <1>5, <1>6 DEF AgentInv, Known, Sound, OneWriter, WritesMasters,
     TornIsStale, Current, At, Stages

LEMMA StepInSync == TypeInv /\ SyncInv /\ [Next]_vars => SyncInv'
<1> SUFFICES ASSUME TypeInv, SyncInv, [Next]_vars PROVE SyncInv'
  OBVIOUS
<1>1. ASSUME NEW u \in Updaters, Begin(u) \/ Update(u) PROVE SyncInv'
  BY <1>1, RoundInSync, ListInSync, StageInSync, FailInSync DEF Update
<1>2. ASSUME NEW o \in loose, LooseEnds(o) PROVE SyncInv'
  BY <1>2, LooseInSync
<1>3. ASSUME NEW c \in Changed, ChangeProbes(c[1], c[2]) PROVE SyncInv'
  BY <1>3, ChangeInSync
<1>4. CASE Restart
  BY <1>4, RestartInSync
<1>5. QED
  BY <1>1, <1>2, <1>3, <1>4, AppInSync DEF Next

\* When the relay would see no update for an agent, it has the master's probes.
THEOREM NoUpdateIsCurrent == Spec => []NoUpdateMeansCurrent
<1>1. Init => TypeInv /\ SyncInv
  BY InitTyped, InitInSync
<1>2. TypeInv /\ SyncInv /\ [Next]_vars => (TypeInv /\ SyncInv)'
  BY StepTyped, StepInSync
<1>3. Spec => [](TypeInv /\ SyncInv)
  BY <1>1, <1>2, PTL DEF Spec
<1>4. QED
  BY <1>3, InSyncSuffices, PTL

----------------------------------------------------------------------------
(* What is answered from a cache: CleanDownstreamIsCurrent *)

NoWriter(a) == \A src \in Sources(a) : \A u \in Updaters : ~At(u, src[1], {"write"})
\* What a reader holds that no write has passed is still what the files say.
ReadRight(a) ==
  reader[a].on /\ ~reader[a].passed => reader[a].got = Gathered(a) /\ NoWriter(a)
\* A zone's cache is, or the writer that has renamed the files away will drop it.
ZoneRight(z) ==
  z \notin dirty /\ down[z] # None =>
    down[z] = Gathered(z) \/ \E u \in Updaters : At(u, z, {"write"})
\* The zones whose host files the global App reads.
Sourcing == zoneApps \ {Global}
\* Between its backup and the end of its turn an updater holds what the host file
\* was, and drops the global App's cache if it wrote another.
Pending(u) ==
  \/ At(u, Global, {"write"})
  \/ \E b \in Sourcing : At(u, b, {"write", "clean"}) /\ upd[u].oldHost # upd[u].data.host
\* What the global App's cache should show: the files, or what an updater has renamed
\* away and is about to put back as it was.
Shows(b, f, h) ==
  \/ b = Global /\ files[Global][f] = h
  \/ b \in Sourcing /\ f = "host" /\ files[b].host = h
  \/ /\ b \in Sourcing /\ f = "host"
     /\ \E u \in Updaters : At(u, b, {"write"}) /\ upd[u].oldHost = h
Consistent ==
  /\ \A u \in Updaters, b \in Sourcing : At(u, b, {"write"}) =>
       files[b].host = None /\ \A v \in Updaters : At(v, b, {"write"}) => v = u
  /\ \A b \in Agents, f \in {"guest", "host"}, h \in Versions :
       <<b, f, h>> \in down[Global] <=> Shows(b, f, h)
GlobalRight ==
  Global \notin dirty /\ down[Global] # None =>
    (\E u \in Updaters : Pending(u)) \/ Consistent
CacheInv ==
  /\ \A z \in Zones : ReadRight(z) /\ ZoneRight(z)
  /\ ReadRight(Global) /\ GlobalRight

LEMMA InitInCache == Init => CacheInv
BY DEF Init, CacheInv, ReadRight, ZoneRight, GlobalRight, NoReader, Agents

LEMMA InGathered ==
  ASSUME TypeInv, NEW a \in Agents
  PROVE  \A b \in Agents, f \in {"guest", "host"}, h \in Versions :
           <<b, f, h>> \in Gathered(a) <=> <<b, f>> \in Sources(a) /\ files[b][f] = h
<1> TAKE b \in Agents, f \in {"guest", "host"}, h \in Versions
<1>1. ASSUME <<b, f, h>> \in Gathered(a)
      PROVE  <<b, f>> \in Sources(a) /\ files[b][f] = h
  <2>1. PICK src \in Sources(a) : <<b, f, h>> \in Found(src)
    BY <1>1 DEF Gathered
  <2>2. src \in Agents \X {"guest", "host"}
    BY DEF Sources, TypeInv, AppsTyped, Agents
  <2>3. <<b, f, h>> = <<src[1], src[2], files[src[1]][src[2]]>>
    BY <2>1 DEF Found
  <2>4. src = <<b, f>> /\ files[b][f] = h
    BY <2>2, <2>3
  <2>5. QED
    BY <2>4
<1>2. ASSUME <<b, f>> \in Sources(a), files[b][f] = h
      PROVE  <<b, f, h>> \in Gathered(a)
  <2>1. <<b, f, h>> \in Found(<<b, f>>)
    BY <1>2 DEF Found
  <2>2. QED
    BY <1>2, <2>1 DEF Gathered
<1>3. QED
  BY <1>1, <1>2

LEMMA InCacheSuffices == TypeInv /\ CacheInv => CleanDownstreamIsCurrent
<1> SUFFICES ASSUME TypeInv, CacheInv, NEW a \in zoneApps \ dirty,
                    down[a] # None, ~Moving(a)
             PROVE  down[a] = Gathered(a)
  BY DEF CleanDownstreamIsCurrent
<1>1. a \in Agents
  BY DEF TypeInv, AppsTyped
<1>2. CASE a \in Zones
  <2>1. \A u \in Updaters : ~At(u, a, {"write"})
    BY <1>1, <1>2 DEF Moving, Sources, Busy, At, Stages
  <2>2. QED
    BY <1>2, <2>1 DEF CacheInv, ZoneRight
<1>3. CASE a = Global
  <2>1. <<Global, "guest">> \in Sources(Global)
        /\ \A b \in Sourcing : <<b, "host">> \in Sources(Global)
    BY DEF Sources, Sourcing
  <2>2. \A u \in Updaters :
          ~At(u, Global, Stages) /\ \A b \in Sourcing : ~At(u, b, Stages)
    BY <1>3, <2>1 DEF Moving, Busy, At
  <2>3. \A u \in Updaters : ~Pending(u)
    BY <2>2 DEF Pending, At, Stages
  <2>4. Consistent
    BY <1>3, <2>3 DEF CacheInv, GlobalRight
  <2>5. \A b \in Agents, f \in {"guest", "host"}, h \in Versions :
          <<b, f, h>> \in down[a] <=> <<b, f, h>> \in Gathered(a)
    <3> TAKE b \in Agents, f \in {"guest", "host"}, h \in Versions
    <3>1. <<b, f, h>> \in down[a] <=>
            \/ b = Global /\ files[Global][f] = h
            \/ b \in Sourcing /\ f = "host" /\ files[b].host = h
      BY <1>3, <2>2, <2>4 DEF Consistent, Shows, At, Stages
    <3>2. <<b, f>> \in Sources(Global) <=> b = Global \/ (b \in Sourcing /\ f = "host")
      BY DEF Sources, Sourcing
    <3>3. QED
      BY <1>1, <1>3, <3>1, <3>2, InGathered
  <2>6. down[a] \subseteq Sourced /\ Gathered(a) \subseteq Sourced
    BY <1>1, GatheredTyped DEF TypeInv, AppsTyped, AppTyped
  <2>7. ASSUME NEW x \in Sourced PROVE x \in down[a] <=> x \in Gathered(a)
    <3>1. PICK b \in Agents, f \in {"guest", "host"}, h \in Versions : x = <<b, f, h>>
      BY DEF Sourced
    <3>2. QED
      BY <2>5, <3>1
  <2>8. QED
    BY <2>6, <2>7
<1>4. QED
  BY <1>1, <1>2, <1>3 DEF Agents

----------------------------------------------------------------------------
(* Caches, step by step *)

\* A zone whose files and writers stay has its cache right, or none.
LEMMA ZoneStays ==
  ASSUME NEW z \in Zones, ReadRight(z), ZoneRight(z), files'[z] = files[z],
         \A u \in Updaters : At(u, z, {"write"})' <=> At(u, z, {"write"}),
         \/ reader'[z] = reader[z] \/ ~reader'[z].on \/ reader'[z].passed
         \/ reader'[z].got = Gathered(z) /\ NoWriter(z),
         \/ z \in dirty' \/ down'[z] = None
         \/ z \notin dirty /\ down'[z] = down[z]
         \/ down'[z] = Gathered(z)
  PROVE  ReadRight(z)' /\ ZoneRight(z)'
<1>1. z # Global
  OBVIOUS
<1>2. Gathered(z)' = Gathered(z) /\ Sources(z)' = {<<z, "guest">>}
      /\ Sources(z) = {<<z, "guest">>}
  BY <1>1 DEF Gathered, Sources, Found
<1>3. NoWriter(z) => NoWriter(z)'
  BY <1>2 DEF NoWriter
<1>4. QED
  BY <1>2, <1>3 DEF ReadRight, ZoneRight

\* A step that touches no file and no writer.
LEMMA Quiet ==
  ASSUME TypeInv, CacheInv, zoneApps' = zoneApps, files' = files,
         \A u \in Updaters : {upd[u].pc, upd'[u].pc} \cap {"write", "clean"} # {} =>
                               upd'[u] = upd[u],
         \A a \in Agents :
           \/ reader'[a] = reader[a] \/ ~reader'[a].on \/ reader'[a].passed
           \/ reader'[a].got = Gathered(a) /\ NoWriter(a),
         \A a \in Agents :
           \/ a \in dirty' \/ down'[a] = None
           \/ a \notin dirty /\ down'[a] = down[a]
           \/ down'[a] = Gathered(a) /\ NoWriter(a)
  PROVE  CacheInv'
<1>1. \A u \in Updaters : \A a :
        /\ At(u, a, {"write"})' <=> At(u, a, {"write"})
        /\ At(u, a, {"write", "clean"})' <=> At(u, a, {"write", "clean"})
        /\ At(u, a, {"write"}) \/ At(u, a, {"write", "clean"}) => upd'[u] = upd[u]
  BY DEF At
<1>2. \A z \in Zones : ReadRight(z)' /\ ZoneRight(z)'
  BY <1>1, ZoneStays DEF CacheInv, Agents
<1>3. Global \in Agents
  BY DEF Agents
<1>4. ReadRight(Global)'
  <2>1. Sources(Global)' = Sources(Global) /\ Gathered(Global)' = Gathered(Global)
    BY DEF Sources, Gathered, Found
  <2>2. NoWriter(Global) => NoWriter(Global)'
    BY <1>1, <2>1 DEF NoWriter
  <2>3. QED
    BY <1>3, <2>1, <2>2 DEF CacheInv, ReadRight
<1>5. GlobalRight'
  <2>0. \A b \in Agents, f \in {"guest", "host"}, h \in Versions :
          <<b, f, h>> \in Gathered(Global) <=>
            <<b, f>> \in Sources(Global) /\ files[b][f] = h
    BY <1>3, InGathered
  <2>1. SUFFICES ASSUME Global \notin dirty', down'[Global] # None
                 PROVE  (\E u \in Updaters : Pending(u)') \/ Consistent'
    BY DEF GlobalRight
  <2>2. CASE Global \notin dirty /\ down'[Global] = down[Global]
    <3>1. CASE \E u \in Updaters : Pending(u)
      <4>1. PICK u \in Updaters : Pending(u)
        BY <3>1
      <4>2. Pending(u)'
        BY <1>1, <4>1 DEF Pending, Sourcing, At
      <4>3. QED
        BY <4>2
    <3>2. CASE Consistent
      <4>1. \A b, f, h : Shows(b, f, h)' <=> Shows(b, f, h)
        BY <1>1 DEF Shows, Sourcing
      <4>2. QED
        BY <1>1, <2>2, <3>2, <4>1 DEF Consistent, Sourcing
    <3>3. QED
      BY <2>1, <2>2, <3>1, <3>2 DEF CacheInv, GlobalRight
  <2>3. CASE down'[Global] = Gathered(Global) /\ NoWriter(Global)
    <3>1. \A b \in Sourcing : <<b, "host">> \in Sources(Global)
      BY DEF Sources, Sourcing
    <3>2. \A u \in Updaters, b \in Sourcing : ~At(u, b, {"write"})
      BY <2>3, <3>1 DEF NoWriter
    <3>3. \A b \in Agents, f \in {"guest", "host"}, h \in Versions :
            <<b, f, h>> \in down'[Global] <=> Shows(b, f, h)'
      <4> TAKE b \in Agents, f \in {"guest", "host"}, h \in Versions
      <4>1. <<b, f>> \in Sources(Global) <=> b = Global \/ (b \in Sourcing /\ f = "host")
        BY DEF Sources, Sourcing
      <4>2. <<b, f, h>> \in Gathered(Global) <=>
              <<b, f>> \in Sources(Global) /\ files[b][f] = h
        BY <2>0
      <4>3. QED
        BY <1>1, <2>3, <3>2, <4>1, <4>2 DEF Shows, Sourcing
    <3>4. QED
      BY <1>1, <3>2, <3>3 DEF Consistent, Sourcing
  <2>4. QED
    BY <1>3, <2>1, <2>2, <2>3
<1>6. QED
  BY <1>2, <1>4, <1>5 DEF CacheInv

\* Operations that failed or are left over: whoever reads the files knows.
LEMMA Disturbed ==
  ASSUME TypeInv, CacheInv, NEW b \in Agents, reader' = Passes(b), down' = down,
         dirty' = dirty \cup Readers(b),
         \A a \in Agents \ {b} : files'[a] = files[a],
         \A u \in Updaters : \A a \in Agents \ {b} :
           At(u, a, {"write"})' <=> At(u, a, {"write"})
  PROVE  CacheInv'
<1>1. \A a \in Readers(b) : ReadRight(a)' /\ a \in dirty'
  BY PassesTyped DEF TypeInv, ReadRight, Readers, Agents
<1>2. ASSUME NEW z \in Zones PROVE ReadRight(z)' /\ ZoneRight(z)'
  <2>1. CASE z = b
    BY <1>1, <2>1 DEF Readers, ZoneRight
  <2>2. CASE z # b
    <3>1. z \in Agents \ {b} /\ reader'[z] = reader[z] /\ z \notin Readers(b)
      BY <2>2, PassesTyped DEF TypeInv, Readers, Agents
    <3>2. QED
      BY <3>1, ZoneStays DEF CacheInv
  <2>3. QED
    BY <2>1, <2>2
<1>3. ReadRight(Global)' /\ GlobalRight'
  BY <1>1 DEF Readers, GlobalRight
<1>4. QED
  BY <1>2, <1>3 DEF CacheInv

\* A round begins, goes on or ends; calls fail or are answered; an App starts; the
\* master's probes change.
LEMMA RoundInCache ==
  ASSUME TypeInv, CacheInv,
         \/ \E u \in Updaters :
              \/ Begin(u) \/ NextZone(u) \/ EndRound(u)
              \/ HeadAgentProbes(u) \/ HeadFails(u) \/ ListFails(u) \/ ListAgentProbes(u)
         \/ \E a \in Agents : LoadCache(a)
         \/ \E c \in Changed : ChangeProbes(c[1], c[2])
         \/ UNCHANGED vars
  PROVE  CacheInv'
<1>1. UNCHANGED <<zoneApps, files, reader, down, dirty>>
  BY DEF Begin, NextZone, EndRound, HeadAgentProbes, HeadFails, ListFails, Ghosts,
     ListAgentProbes, LoadCache, ChangeProbes, App, vars
<1>2. \A u \in Updaters : {upd[u].pc, upd'[u].pc} \cap {"write", "clean"} # {} =>
                            upd'[u] = upd[u]
  <2>1. ASSUME NEW u \in Updaters,
               \/ Begin(u) \/ NextZone(u) \/ EndRound(u)
               \/ HeadAgentProbes(u) \/ HeadFails(u) \/ ListFails(u)
        PROVE  <1>2
    <3>1. upd[u].pc \in {"idle", "next", "head", "get"}
      BY <2>1 DEF Begin, NextZone, EndRound, HeadAgentProbes, HeadFails, ListFails
    <3>2. QED
      BY <2>1, <3>1, RoundMoves
  <2>2. ASSUME NEW u \in Updaters, ListAgentProbes(u) PROVE <1>2
    <3>1. upd[u] \in Updater
      BY DEF TypeInv, UpdTyped
    <3>2. upd[u].pc = "get" /\ upd'[u].pc = "backup"
          /\ \A v \in Updaters \ {u} : upd'[v] = upd[v]
      BY <2>2, <3>1 DEF ListAgentProbes, TypeInv, UpdTyped, Updater
    <3>3. QED
      BY <3>2
  <2>3. CASE upd' = upd
    BY <2>3
  <2>4. QED
    BY <2>1, <2>2, <2>3 DEF LoadCache, ChangeProbes, vars
<1>3. QED
  BY <1>1, <1>2, Quiet

\* An App reads, and fills its cache.
LEMMA AskInCache ==
  ASSUME TypeInv, CacheInv, NEW a \in Agents, AskDownstream(a)
  PROVE  CacheInv'
<1>1. /\ UNCHANGED <<zoneApps, files, upd, down, dirty>>
      /\ reader' = [reader EXCEPT ![a] = [on |-> TRUE, got |-> Gathered(a),
                                          passed |-> Moving(a)]]
  BY DEF AskDownstream, App, Ghosts
<1>2. ~Moving(a) => NoWriter(a)
  BY DEF Moving, NoWriter, Busy, At, Stages
<1>3. \A b \in Agents : \/ reader'[b] = reader[b]
                        \/ reader'[b].passed \/ (reader'[b].got = Gathered(b) /\ NoWriter(b))
  BY <1>1, <1>2 DEF TypeInv, AppsTyped
<1>4. QED
  BY <1>1, <1>3, Quiet

LEMMA FillInCache ==
  ASSUME TypeInv, CacheInv, NEW a \in Agents, FillDownstream(a)
  PROVE  CacheInv'
<1>1. /\ UNCHANGED <<zoneApps, files, upd>> /\ reader[a].on
      /\ down' = [down EXCEPT ![a] = reader[a].got]
      /\ dirty' = IF reader[a].passed THEN dirty \cup {a} ELSE dirty
      /\ reader' = [reader EXCEPT ![a] = NoReader]
  BY DEF FillDownstream, App
<1>2. \A b \in Agents : reader'[b] = reader[b] \/ ~reader'[b].on
  BY <1>1 DEF TypeInv, AppsTyped, NoReader
<1>3. reader[a].passed \/ (reader[a].got = Gathered(a) /\ NoWriter(a))
  BY <1>1 DEF CacheInv, ReadRight, Agents
<1>4. \A b \in Agents :
        \/ b \in dirty' \/ down'[b] = None
        \/ b \notin dirty /\ down'[b] = down[b]
        \/ down'[b] = Gathered(b) /\ NoWriter(b)
  BY <1>1, <1>3 DEF TypeInv, AppsTyped
<1>5. QED
  BY <1>1, <1>2, <1>4, Quiet

\* What goes on beside a failed operation, and the failure itself.
LEMMA LooseInCache ==
  ASSUME TypeInv, CacheInv, NEW o \in loose, LooseEnds(o)
  PROVE  CacheInv'
<1> PICK b \in Agents : b = o.agent
  BY DEF TypeInv, LooseTyped, OpTyped
<1>1. PICK S \in {{}, {o}} : files' = FilesAfter(S)
  BY DEF LooseEnds
<1>2. \A a \in Agents \ {b} : files'[a] = files[a]
  BY <1>1, OthersFiles DEF TypeInv
<1>3. UNCHANGED upd
  BY DEF LooseEnds
<1>4. QED
  BY <1>2, <1>3, Disturbed DEF LooseEnds, At

LEMMA FailInCache ==
  ASSUME TypeInv, CacheInv, NEW u \in Updaters, StageFails(u)
  PROVE  CacheInv'
<1> PICK b \in Agents : b = upd[u].agent
  BY DEF TypeInv, UpdTyped, Updater
<1>1. PICK done \in SUBSET StageOps(u) : Perform(u, done)
  BY DEF StageFails
<1>2. \A o \in StageOps(u) : o.agent = b
  BY DEF StageOps
<1>3. \A a \in Agents \ {b} : files'[a] = files[a]
  BY <1>1, <1>2, OthersFiles DEF Perform, TypeInv
<1>4. \A v \in Updaters : \A a \in Agents \ {b} :
        At(v, a, {"write"})' <=> At(v, a, {"write"})
  BY FailMoves DEF At
<1>5. reader' = Passes(b) /\ down' = down /\ dirty' = dirty \cup Readers(b)
  BY <1>1 DEF StageFails, Perform
<1>6. QED
  BY <1>3, <1>4, <1>5, Disturbed

LEMMA RestoreInCache ==
  ASSUME TypeInv, CacheInv, NEW u \in Updaters, Restore(u)
  PROVE  CacheInv'
<1> PICK b \in Agents : b = upd[u].agent
  BY DEF TypeInv, UpdTyped, Updater
<1>1. Perform(u, StageOps(u)) /\ upd[u].pc = "restore"
  BY DEF Restore, Whole
<1>2. \A o \in StageOps(u) : o.agent = b
  BY DEF StageOps
<1>3. \A a \in Agents \ {b} : files'[a] = files[a]
  BY <1>1, <1>2, OthersFiles DEF Perform, TypeInv
<1>4. \A v \in Updaters : \A a \in Agents \ {b} :
        At(v, a, {"write"})' <=> At(v, a, {"write"})
  BY <1>1, StageMoves DEF At
<1>5. reader' = Passes(b) /\ down' = down /\ dirty' = dirty \cup Readers(b)
  BY <1>1 DEF Restore, Perform
<1>6. QED
  BY <1>3, <1>4, <1>5, Disturbed

\* Another App, or none; a relay that starts again.
LEMMA ZoneInCache ==
  ASSUME TypeInv, CacheInv, NEW z \in Zones, RemoveApp(z) \/ CreateApp(z)
  PROVE  CacheInv'
<1>1. z \in Agents /\ z # Global /\ Global \in Agents
  BY DEF Agents
<1>2. /\ UNCHANGED <<files, upd>>
      /\ down' = [down EXCEPT ![z] = None]
      /\ reader' = [reader EXCEPT ![z] = NoReader, ![Global].passed = reader[Global].on]
      /\ dirty' = (dirty \ {z}) \cup {Global}
  BY DEF RemoveApp, CreateApp, Forget
<1>3. /\ \A a \in Agents \ {z, Global} : reader'[a] = reader[a] /\ down'[a] = down[a]
      /\ reader'[z] = NoReader /\ down'[z] = None
      /\ ReaderTyped(reader[Global]) /\ reader'[Global] =
           [reader[Global] EXCEPT !.passed = reader[Global].on]
  BY <1>1, <1>2 DEF TypeInv, AppsTyped
<1>4. ASSUME NEW a \in Zones PROVE ReadRight(a)' /\ ZoneRight(a)'
  <2>1. a \in Agents /\ a # Global
    BY DEF Agents
  <2>2. CASE a = z
    BY <1>3, <2>2 DEF ReadRight, ZoneRight, NoReader
  <2>3. CASE a # z
    <3>1. /\ reader'[a] = reader[a] /\ files'[a] = files[a]
          /\ a \in dirty' \/ (a \notin dirty /\ down'[a] = down[a])
      BY <1>2, <1>3, <2>1, <2>3
    <3>2. \A u \in Updaters : At(u, a, {"write"})' <=> At(u, a, {"write"})
      BY <1>2 DEF At
    <3>3. QED
      BY <3>1, <3>2, ZoneStays DEF CacheInv
  <2>4. QED
    BY <2>2, <2>3
<1>5. ReadRight(Global)' /\ GlobalRight'
  BY <1>2, <1>3 DEF ReadRight, GlobalRight, ReaderTyped
<1>6. QED
  BY <1>4, <1>5 DEF CacheInv

LEMMA RestartInCache == Restart => CacheInv'
BY DEF Restart, CacheInv, ReadRight, ZoneRight, GlobalRight, NoReader, Agents

\* The stages of a writer that gets through.
LEMMA BackedUp ==
  ASSUME DiskTyped, UpdTyped, NEW u \in Updaters, upd[u].pc = "backup", NEW f \in Files
  PROVE  FilesAfter(StageOps(u))[upd[u].agent][f] = None
<1> DEFINE a == upd[u].agent
           o == [stage |-> "backup", agent |-> a, file |-> f, val |-> None]
<1>1. a \in Agents
  BY DEF UpdTyped, Updater
<1>2. Hits(StageOps(u), a, f) = {o}
  BY DEF Hits, StageOps
<1>3. (CHOOSE x \in {o} : TRUE) = o
  OBVIOUS
<1>4. FilesAfter(StageOps(u))[a][f] = Result(o)
  BY <1>1, <1>2, <1>3 DEF FilesAfter
<1>5. QED
  BY <1>4 DEF Result

\* A zone's cache, and what any stage does to caches.
LEMMA StageInZones ==
  ASSUME TypeInv, CacheInv, NEW u \in Updaters, NEW b \in Agents, b = upd[u].agent,
         Backup(u) \/ Write(u) \/ Clean(u)
  PROVE  /\ \A z \in Zones : ReadRight(z)' /\ ZoneRight(z)'
         /\ ReadRight(Global)'
         /\ \A a \in Agents : \/ a \in dirty' \/ down'[a] = None
                              \/ a \notin dirty /\ down'[a] = down[a]
<1>1. /\ files' = FilesAfter(StageOps(u)) /\ reader' = Passes(b)
      /\ upd[u].pc \in Stages
  BY DEF Backup, Write, Clean, Whole, Perform, Stages
<1>2. \A o \in StageOps(u) : o.agent = b /\ o.stage = upd[u].pc
  BY DEF StageOps
<1>3. \A a \in Agents : \/ a \in dirty' \/ down'[a] = None
                        \/ a \notin dirty /\ down'[a] = down[a]
  BY DEF Backup, Write, Clean, Forgotten, TypeInv, AppsTyped
<1>4. \A a \in Readers(b) : ReadRight(a)'
  BY <1>1, PassesTyped DEF TypeInv, ReadRight, Readers, Agents
<1>5. ASSUME NEW z \in Zones PROVE ReadRight(z)' /\ ZoneRight(z)'
  <2>1. z \in Agents /\ z # Global
    BY DEF Agents
  <2>2. CASE z # b
    <3>1. reader'[z] = reader[z] /\ files'[z] = files[z]
      <4>1. z \notin Readers(b) /\ \A o \in StageOps(u) : o.agent # z
        BY <1>2, <2>1, <2>2 DEF Readers
      <4>2. reader'[z] = reader[z]
        BY <1>1, <2>1, <4>1, PassesTyped DEF TypeInv
      <4>3. files'[z] = files[z]
        BY <1>1, <2>1, <4>1, OthersFiles DEF TypeInv
      <4>4. QED
        BY <4>2, <4>3
    <3>2. \A v \in Updaters : At(v, z, {"write"})' <=> At(v, z, {"write"})
      BY <2>2, StageMoves DEF At
    <3>3. QED
      BY <1>3, <2>1, <3>1, <3>2, ZoneStays DEF CacheInv
  <2>3. CASE z = b /\ Clean(u)
    <3>1. files'[z] = files[z]
      BY <1>1, <1>2, <2>1, <2>3, CleansNoFile DEF Clean, Whole, TypeInv
    <3>2. \A v \in Updaters : At(v, z, {"write"})' <=> At(v, z, {"write"})
      BY <2>3, StageMoves DEF At, Clean, Whole
    <3>3. reader'[z] = reader[z] \/ ~reader'[z].on \/ reader'[z].passed
      BY <1>1, <2>1, <2>3, PassesTyped DEF TypeInv, Readers
    <3>4. QED
      BY <1>3, <2>1, <3>1, <3>2, <3>3, ZoneStays DEF CacheInv
  <2>4. CASE z = b /\ Backup(u)
    <3>1. At(u, z, {"write"})'
      BY <2>4, StageMoves DEF At, Backup, Whole
    <3>2. QED
      BY <1>4, <2>4, <3>1 DEF Readers, ZoneRight
  <2>5. CASE z = b /\ Write(u)
    <3>1. z \in dirty' \/ down'[z] = None
      BY <2>1, <2>5 DEF Write, Forgotten
    <3>2. QED
      BY <1>4, <2>5, <3>1 DEF Readers, ZoneRight
  <2>6. QED
    BY <2>2, <2>3, <2>4, <2>5
<1>6. QED
  BY <1>3, <1>4, <1>5 DEF Readers

\* The global App's: an updater that waits to drop it goes on waiting, or drops it.
LEMMA OthersPending ==
  ASSUME NEW u \in Updaters, \A v \in Updaters \ {u} : upd'[v] = upd[v],
         zoneApps' = zoneApps, ~Pending(u)
  PROVE  (\E v \in Updaters : Pending(v)) => \E v \in Updaters : Pending(v)'
<1> SUFFICES ASSUME NEW v \in Updaters, Pending(v) PROVE Pending(v)'
  OBVIOUS
<1>1. upd'[v] = upd[v]
  OBVIOUS
<1>2. QED
  BY <1>1 DEF Pending, Sourcing, At

LEMMA BackupInCache ==
  ASSUME TypeInv, CacheInv, NEW u \in Updaters, Backup(u)
  PROVE  CacheInv'
<1> PICK b \in Agents : b = upd[u].agent
  BY DEF TypeInv, UpdTyped, Updater
<1>1. /\ files' = FilesAfter(StageOps(u)) /\ UNCHANGED <<zoneApps, down, dirty>>
      /\ upd[u].pc = "backup"
  BY DEF Backup, Whole, Perform, App
<1>2. /\ \A v \in Updaters \ {u} : upd'[v] = upd[v]
      /\ upd'[u].agent = b /\ upd'[u].pc = "write" /\ upd'[u].data = upd[u].data
      /\ upd'[u].oldHost = files[b].host
  BY <1>1, StageMoves
<1>3. /\ \A o \in StageOps(u) : o.agent = b
      /\ \A a \in Agents \ {b} : files'[a] = files[a]
      /\ files'[b].host = None
  <2>1. \A o \in StageOps(u) : o.agent = b
    BY DEF StageOps
  <2>2. files'[b]["host"] = None
    BY <1>1, BackedUp DEF TypeInv, Files
  <2>3. QED
    BY <1>1, <2>1, <2>2, OthersFiles DEF TypeInv
<1>4. upd[u].data.host \in Versions
  BY DEF TypeInv, UpdTyped, Updater, Probes
<1>5. ~Pending(u)
  BY <1>1 DEF Pending, At
<1>6. ASSUME Global \notin dirty', down'[Global] # None
      PROVE  (\E v \in Updaters : Pending(v)') \/ Consistent'
  <2>1. CASE \E v \in Updaters : Pending(v)
    BY <1>1, <1>2, <1>5, <2>1, OthersPending
  <2>2. CASE b = Global \/ (b \in Sourcing /\ files[b].host # upd[u].data.host)
    <3>1. Pending(u)'
      BY <1>1, <1>2, <2>2 DEF Pending, Sourcing, At
    <3>2. QED
      BY <3>1
  <2>3. CASE Consistent /\ b # Global /\ b \notin Sourcing
    <3>1. \A a \in Sourcing \cup {Global} : files'[a] = files[a]
      BY <1>3, <2>3 DEF Sourcing, TypeInv, AppsTyped, Agents
    <3>2. \A v \in Updaters, a \in Sourcing :
            /\ At(v, a, {"write"})' <=> At(v, a, {"write"})
            /\ At(v, a, {"write"}) => upd'[v] = upd[v]
      BY <1>1, <1>2, <2>3 DEF At
    <3>3. \A a, f, h : Shows(a, f, h)' <=> Shows(a, f, h)
      BY <1>1, <3>1, <3>2 DEF Shows, Sourcing
    <3>4. QED
      BY <1>1, <2>3, <3>1, <3>2, <3>3 DEF Consistent, Sourcing
  <2>4. CASE Consistent /\ b \in Sourcing /\ files[b].host = upd[u].data.host
    <3>1. \A v \in Updaters : ~At(v, b, {"write"})
      BY <1>4, <2>4 DEF Consistent
    <3>2. \A v \in Updaters, a \in Sourcing :
            /\ a # b => /\ At(v, a, {"write"})' <=> At(v, a, {"write"})
                        /\ At(v, a, {"write"}) => upd'[v] = upd[v]
            /\ At(v, b, {"write"})' <=> v = u
      BY <1>1, <1>2, <3>1 DEF At
    <3>3. \A a \in Agents \ {b} : files'[a] = files[a]
      BY <1>3
    <3>4. \A v \in Updaters, a \in Sourcing : At(v, a, {"write"})' =>
            files'[a].host = None /\ \A w \in Updaters : At(w, a, {"write"})' => w = v
      BY <1>3, <2>4, <3>2, <3>3 DEF Consistent, Sourcing, TypeInv, AppsTyped
    <3>5. \A a \in Agents, f \in {"guest", "host"}, h \in Versions :
            Shows(a, f, h)' <=> Shows(a, f, h)
      <4> TAKE a \in Agents, f \in {"guest", "host"}, h \in Versions
      <4>1. CASE a # b
        BY <1>1, <2>4, <3>2, <3>3, <4>1 DEF Shows, Sourcing, Agents
      <4>2. CASE a = b
        <5>1. Shows(b, f, h) <=> f = "host" /\ files[b].host = h
          BY <2>4, <3>1 DEF Shows, Sourcing
        <5>2. Shows(b, f, h)' <=> f = "host" /\ upd'[u].oldHost = h
          BY <1>1, <1>3, <2>4, <3>2 DEF Shows, Sourcing
        <5>3. QED
          BY <1>2, <4>2, <5>1, <5>2
      <4>3. QED
        BY <4>1, <4>2
    <3>6. QED
      BY <1>1, <2>4, <3>4, <3>5 DEF Consistent, Sourcing
  <2>5. QED
    BY <1>1, <1>6, <2>1, <2>2, <2>3, <2>4 DEF CacheInv, GlobalRight
<1>7. QED
  BY <1>6, StageInZones DEF CacheInv, GlobalRight

LEMMA WriteInCache ==
  ASSUME TypeInv, CacheInv, NEW u \in Updaters, Write(u)
  PROVE  CacheInv'
<1> PICK b \in Agents : b = upd[u].agent
  BY DEF TypeInv, UpdTyped, Updater
<1>1. /\ files' = FilesAfter(StageOps(u)) /\ UNCHANGED zoneApps
      /\ upd[u].pc = "write"
  BY DEF Write, Whole, Perform, App
<1>2. /\ \A v \in Updaters \ {u} : upd'[v] = upd[v]
      /\ \/ upd'[u].pc = "next"
         \/ /\ upd'[u].agent = b /\ upd'[u].pc = "clean" /\ upd'[u].data = upd[u].data
            /\ upd'[u].oldHost = upd[u].oldHost
      /\ upd[u].saved # {} => upd'[u].pc = "clean"
  <2>1. upd[u].saved # {} => upd'[u].pc = "clean"
    <3>1. upd[u] \in Updater
      BY DEF TypeInv, UpdTyped
    <3>2. QED
      BY <3>1 DEF Write, TypeInv, UpdTyped, Updater
  <2>2. QED
    BY <1>1, <2>1, StageMoves
<1>3. /\ \A a \in Agents \ {b} : files'[a] = files[a]
      /\ files'[b].host = upd[u].data.host
  <2>1. \A o \in StageOps(u) : o.agent = b
    BY DEF StageOps
  <2>2. files'[b]["host"] = upd[u].data.host
    BY <1>1, WritesContent DEF TypeInv, Files, Content
  <2>3. QED
    BY <1>1, <2>1, <2>2, OthersFiles DEF TypeInv
<1>4. upd[u].data.host \in Versions
  BY DEF TypeInv, UpdTyped, Updater, Probes
<1>5. /\ \A a \in Agents : \/ a \in dirty' \/ down'[a] = None
                           \/ a \notin dirty /\ down'[a] = down[a]
      /\ Global \in Agents
  BY StageInZones DEF Agents
<1>6. ASSUME Global \notin dirty', down'[Global] # None
      PROVE  (\E v \in Updaters : Pending(v)') \/ Consistent'
  <2>1. Global \notin dirty /\ down'[Global] = down[Global]
    BY <1>5, <1>6
  <2>2. /\ b # Global
        /\ upd[u].saved = {} => upd[u].oldHost = upd[u].data.host
    BY <1>5, <1>6 DEF Write, Forgotten, Invalidated
  <2>3. CASE Pending(u)
    <3>1. Pending(u)'
      BY <1>1, <1>2, <2>2, <2>3 DEF Pending, Sourcing, At
    <3>2. QED
      BY <3>1
  <2>4. CASE ~Pending(u) /\ \E v \in Updaters : Pending(v)
    BY <1>1, <1>2, <2>4, OthersPending
  <2>5. CASE Consistent /\ ~Pending(u)
    <3>1. \A v \in Updaters, a \in Sourcing :
            /\ a # b => /\ At(v, a, {"write"})' <=> At(v, a, {"write"})
                        /\ At(v, a, {"write"}) => upd'[v] = upd[v]
            /\ b \in Sourcing => ~At(v, b, {"write"})'
      BY <1>1, <1>2, <2>5 DEF At, Consistent
    <3>2. \A v \in Updaters, a \in Sourcing : At(v, a, {"write"})' =>
            files'[a].host = None /\ \A w \in Updaters : At(w, a, {"write"})' => w = v
      BY <1>3, <2>5, <3>1 DEF Consistent, Sourcing, TypeInv, AppsTyped
    <3>3. \A a \in Agents, f \in {"guest", "host"}, h \in Versions :
            Shows(a, f, h)' <=> Shows(a, f, h)
      <4> TAKE a \in Agents, f \in {"guest", "host"}, h \in Versions
      <4>1. CASE a # b
        BY <1>1, <1>3, <2>2, <3>1, <4>1 DEF Shows, Sourcing, Agents
      <4>2. CASE a = b /\ b \in Sourcing
        <5>1. At(u, b, {"write"}) /\ upd[u].oldHost = upd[u].data.host
          BY <1>1, <2>5, <4>2 DEF At, Pending
        <5>2. files[b].host = None /\ \A v \in Updaters : At(v, b, {"write"}) => v = u
          BY <2>5, <4>2, <5>1 DEF Consistent
        <5>3. h # None
          OBVIOUS
        <5>4. Shows(b, f, h) <=> f = "host" /\ upd[u].oldHost = h
          BY <2>2, <4>2, <5>1, <5>2, <5>3 DEF Shows
        <5>5. Shows(b, f, h)' <=> f = "host" /\ upd[u].data.host = h
          BY <1>1, <1>3, <2>2, <3>1, <4>2 DEF Shows, Sourcing
        <5>6. QED
          BY <4>2, <5>1, <5>4, <5>5
      <4>3. CASE a = b /\ b \notin Sourcing
        BY <1>1, <2>2, <4>3 DEF Shows, Sourcing
      <4>4. QED
        BY <4>1, <4>2, <4>3
    <3>4. QED
      BY <1>1, <2>1, <2>5, <3>2, <3>3 DEF Consistent, Sourcing
  <2>6. QED
    BY <1>6, <2>1, <2>3, <2>4, <2>5 DEF CacheInv, GlobalRight
<1>7. QED
  BY <1>6, StageInZones DEF CacheInv, GlobalRight

LEMMA CleanInCache ==
  ASSUME TypeInv, CacheInv, NEW u \in Updaters, Clean(u)
  PROVE  CacheInv'
<1> PICK b \in Agents : b = upd[u].agent
  BY DEF TypeInv, UpdTyped, Updater
<1>1. /\ files' = FilesAfter(StageOps(u)) /\ UNCHANGED zoneApps
      /\ upd[u].pc = "clean"
  BY DEF Clean, Whole, Perform, App
<1>2. /\ \A v \in Updaters \ {u} : upd'[v] = upd[v]
      /\ upd'[u].pc = "next"
  BY <1>1, StageMoves
<1>3. files' = files
  <2>1. \A o \in StageOps(u) : o.stage = "clean"
    BY <1>1 DEF StageOps
  <2>2. \A a \in Agents : files'[a] = files[a]
    BY <1>1, <2>1, CleansNoFile DEF TypeInv
  <2>3. files' = [a \in Agents |-> files'[a]] /\ files = [a \in Agents |-> files[a]]
    BY <1>1 DEF FilesAfter, TypeInv, DiskTyped
  <2>4. QED
    BY <2>2, <2>3
<1>4. /\ \A a \in Agents : \/ a \in dirty' \/ down'[a] = None
                           \/ a \notin dirty /\ down'[a] = down[a]
      /\ Global \in Agents
  BY StageInZones DEF Agents
<1>5. ASSUME Global \notin dirty', down'[Global] # None
      PROVE  (\E v \in Updaters : Pending(v)') \/ Consistent'
  <2>1. Global \notin dirty /\ down'[Global] = down[Global]
    BY <1>4, <1>5
  <2>2. ~Pending(u)
    BY <1>1, <1>4, <1>5 DEF Clean, Forgotten, Invalidated, Pending, At
  <2>3. CASE \E v \in Updaters : Pending(v)
    BY <1>1, <1>2, <2>2, <2>3, OthersPending
  <2>4. CASE Consistent
    <3>1. \A v \in Updaters, a \in Sourcing :
            /\ At(v, a, {"write"})' <=> At(v, a, {"write"})
            /\ At(v, a, {"write"}) => upd'[v] = upd[v]
      BY <1>1, <1>2 DEF At
    <3>2. \A a, f, h : Shows(a, f, h)' <=> Shows(a, f, h)
      BY <1>1, <1>3, <3>1 DEF Shows, Sourcing
    <3>3. QED
      BY <1>1, <1>3, <2>1, <2>4, <3>1, <3>2 DEF Consistent, Sourcing
  <2>5. QED
    BY <2>1, <2>3, <2>4, <1>5 DEF CacheInv, GlobalRight
<1>6. QED
  BY <1>5, StageInZones DEF CacheInv, GlobalRight

LEMMA StepInCache == TypeInv /\ CacheInv /\ [Next]_vars => CacheInv'
<1> SUFFICES ASSUME TypeInv, CacheInv, [Next]_vars PROVE CacheInv'
  OBVIOUS
<1>1. ASSUME NEW u \in Updaters, Begin(u) \/ Update(u) PROVE CacheInv'
  BY <1>1, RoundInCache, BackupInCache, WriteInCache, CleanInCache, RestoreInCache,
     FailInCache DEF Update
<1>2. ASSUME NEW o \in loose, LooseEnds(o) PROVE CacheInv'
  BY <1>2, LooseInCache
<1>3. ASSUME NEW a \in Agents, LoadCache(a) \/ AskDownstream(a) \/ FillDownstream(a)
      PROVE  CacheInv'
  BY <1>3, RoundInCache, AskInCache, FillInCache
<1>4. ASSUME NEW c \in Changed, ChangeProbes(c[1], c[2]) PROVE CacheInv'
  BY <1>4, RoundInCache
<1>5. ASSUME NEW z \in Zones, RemoveApp(z) \/ CreateApp(z) PROVE CacheInv'
  BY <1>5, ZoneInCache
<1>6. CASE Restart \/ UNCHANGED vars
  BY <1>6, RestartInCache, RoundInCache
<1>7. QED
  BY <1>1, <1>2, <1>3, <1>4, <1>5, <1>6 DEF Next

\* What an agent is told from its App's cache is what the files say.
THEOREM CacheIsCurrent == Spec => []CleanDownstreamIsCurrent
<1>1. Init => TypeInv /\ CacheInv
  BY InitTyped, InitInCache
<1>2. TypeInv /\ CacheInv /\ [Next]_vars => (TypeInv /\ CacheInv)'
  BY StepTyped, StepInCache
<1>3. Spec => [](TypeInv /\ CacheInv)
  BY <1>1, <1>2, PTL DEF Spec
<1>4. QED
  BY <1>3, InCacheSuffices, PTL
====
