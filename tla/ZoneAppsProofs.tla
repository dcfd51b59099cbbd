--------------------------- MODULE ZoneAppsProofs ---------------------------
(***************************************************************************)
(* No App of the relay is lost: one that nobody closed is its zone's App,    *)
(* for any number of zones, Apps, zone events and failures.                  *)
(***************************************************************************)
EXTENDS ZoneApps, FiniteSetTheorems, FunctionTheorems, TLAPS

USE ZoneAppsAssumption

AppRecord == [pc: Awaits \cup Ended, zone: Zones, closed: BOOLEAN,
              isZoneRunning: BOOLEAN, fd: BOOLEAN]

Shape ==
  /\ zone \in [Zones -> {"absent", "down", "ready", "running", "halting"}]
  /\ watching \in BOOLEAN
  /\ events \in Seq({"up", "down"} \X Zones)
  /\ zoneApps \in [Zones -> Slots \cup {None}]
  /\ app \in [Slots -> {NoApp} \cup AppRecord]
  /\ heal \in [pc: {"rest", "list", "listed", "exited"}, old: SUBSET Zones,
               actual: SUBSET Zones]
  /\ failed \subseteq Zones
  /\ spent \in [turns: 0..MaxTurns, troubles: 0..MaxTroubles]

\* The App in zoneApps exists, is its zone's and was not closed: so it never frees
\* itself when its start ends.
ListedAppsAreOpen ==
  \A z \in Zones : zoneApps[z] # None =>
    app[zoneApps[z]].pc # "free" /\ app[zoneApps[z]].zone = z /\ ~app[zoneApps[z]].closed

AppsInv == Shape /\ ListedAppsAreOpen /\ OpenAppsAreListed

LEMMA NoAppOrApp ==
  ASSUME NEW a \in {NoApp} \cup AppRecord
  PROVE  /\ a.pc = "free" <=> a = NoApp
         /\ a.pc # "free" => a \in AppRecord
<1>1. NoApp.pc = "free"
  BY DEF NoApp
<1>2. a \in AppRecord => a.pc # "free"
  BY DEF AppRecord, Awaits, Ended
<1>3. QED
  BY <1>1, <1>2

-----------------------------------------------------------------------------
(* An App's start *)

\* The App of a slot goes on as it is, or frees itself, having been closed.
LEMMA GoingOnKeeps ==
  ASSUME AppsInv, NEW s \in Slots, NEW b \in {NoApp} \cup AppRecord,
         app[s].pc # "free", app' = [app EXCEPT ![s] = b], zoneApps' = zoneApps,
         \/ app[s].closed /\ b = NoApp
         \/ b \in AppRecord /\ b.zone = app[s].zone /\ b.closed = app[s].closed
  PROVE  /\ app' \in [Slots -> {NoApp} \cup AppRecord]
         /\ ListedAppsAreOpen' /\ OpenAppsAreListed'
<1>1. app' \in [Slots -> {NoApp} \cup AppRecord] /\ app'[s] = b
      /\ \A t \in Slots \ {s} : app'[t] = app[t]
  BY DEF AppsInv, Shape
<1>2. NoApp.pc = "free" /\ (b \in AppRecord => b.pc # "free")
  BY DEF NoApp, AppRecord, Awaits, Ended
<1>3. ListedAppsAreOpen'
  <2>1. SUFFICES ASSUME NEW z \in Zones, zoneApps[z] # None
                 PROVE /\ app'[zoneApps[z]].pc # "free" /\ app'[zoneApps[z]].zone = z
                       /\ ~app'[zoneApps[z]].closed
    BY DEF ListedAppsAreOpen
  <2>2. zoneApps[z] \in Slots
    BY <2>1 DEF AppsInv, Shape
  <2>3. app[zoneApps[z]].pc # "free" /\ app[zoneApps[z]].zone = z /\ ~app[zoneApps[z]].closed
    BY <2>1 DEF AppsInv, ListedAppsAreOpen
  <2>4. QED
    BY <1>1, <1>2, <2>2, <2>3
<1>4. OpenAppsAreListed'
  BY <1>1, <1>2 DEF AppsInv, OpenAppsAreListed
<1>5. QED
  BY <1>1, <1>3, <1>4

LEMMA AfterType ==
  ASSUME NEW a \in AppRecord, NEW pc \in Awaits \cup Ended
  PROVE  \/ a.closed /\ After(a, pc) = NoApp
         \/ /\ After(a, pc) \in AppRecord /\ After(a, pc).zone = a.zone
            /\ After(a, pc).closed = a.closed
<1>1. CASE a.closed
  BY <1>1 DEF After
<1>2. CASE ~a.closed
  <2> DEFINE to == IF pc = "wait" /\ ~a.isZoneRunning THEN "idle" ELSE pc
  <2>1. to \in Awaits \cup Ended /\ After(a, pc) = [a EXCEPT !.pc = to]
    BY <1>2 DEF After, Ended
  <2> HIDE DEF to
  <2>2. QED
    BY <2>1 DEF AppRecord
<1>3. QED
  BY <1>1, <1>2

LEMMA StartKeeps ==
  ASSUME AppsInv, NEW s \in Slots, Start(s) PROVE AppsInv'
<1>1. app[s] \in {NoApp} \cup AppRecord /\ NoApp.pc = "free"
  BY DEF AppsInv, Shape, NoApp
<1>2. ASSUME NEW from \in Awaits, NEW to \in Awaits \cup Ended, Goes(s, from, to)
      PROVE  AppsInv'
  <2>1. app[s].pc = from /\ app[s].pc # "free"
    BY <1>2 DEF Goes, Awaits
  <2>2. app[s] \in AppRecord
    BY <1>1, <2>1
  <2> DEFINE b == After(app[s], to)
  <2>3. \/ app[s].closed /\ b = NoApp
        \/ b \in AppRecord /\ b.zone = app[s].zone /\ b.closed = app[s].closed
    BY <1>2, <2>2, AfterType
  <2>4. app' = [app EXCEPT ![s] = b] /\ zoneApps' = zoneApps
    BY <1>2 DEF Goes
  <2> HIDE DEF b
  <2>5. app' \in [Slots -> {NoApp} \cup AppRecord] /\ ListedAppsAreOpen' /\ OpenAppsAreListed'
    BY <2>1, <2>3, <2>4, GoingOnKeeps
  <2>6. QED
    BY <1>2, <2>5 DEF Goes, AppsInv, Shape
<1>3. CASE LoadCache(s) \/ RetrieveOwnerAndAlias(s) \/ WaitForMultiUser(s) \/ Listen(s)
  <2>1. {"cache", "machine", "wait", "opened"} \subseteq Awaits
        /\ {"machine", "wait", "zsock", "served"} \subseteq Awaits \cup Ended
    BY DEF Awaits, Ended
  <2>2. QED
    BY <1>2, <1>3, <2>1 DEF LoadCache, RetrieveOwnerAndAlias, WaitForMultiUser, Listen
<1>4. CASE OpenZsock(s)
  <2> DEFINE b == [app[s] EXCEPT !.pc = "opened", !.fd = TRUE]
  <2>1. app[s].pc # "free" /\ app[s] \in AppRecord
    BY <1>1, <1>4 DEF OpenZsock
  <2>2. b \in AppRecord /\ b.zone = app[s].zone /\ b.closed = app[s].closed
    BY <2>1 DEF AppRecord, Awaits
  <2>3. app' = [app EXCEPT ![s] = b] /\ zoneApps' = zoneApps
    BY <1>4 DEF OpenZsock
  <2> HIDE DEF b
  <2>4. app' \in [Slots -> {NoApp} \cup AppRecord] /\ ListedAppsAreOpen' /\ OpenAppsAreListed'
    BY <2>1, <2>2, <2>3, GoingOnKeeps
  <2>5. QED
    BY <1>4, <2>4 DEF OpenZsock, AppsInv, Shape
<1>5. CASE StartFails(s)
  <2> DEFINE b == IF app[s].closed THEN NoApp ELSE [app[s] EXCEPT !.pc = "failed"]
  <2>1. app[s].pc # "free" /\ app[s] \in AppRecord
    BY <1>1, <1>5 DEF StartFails
  <2>2. \/ app[s].closed /\ b = NoApp
        \/ b \in AppRecord /\ b.zone = app[s].zone /\ b.closed = app[s].closed
    BY <2>1 DEF AppRecord, Ended
  <2>3. app' = [app EXCEPT ![s] = b] /\ zoneApps' = zoneApps
    BY <1>5 DEF StartFails
  <2> HIDE DEF b
  <2>4. app' \in [Slots -> {NoApp} \cup AppRecord] /\ ListedAppsAreOpen' /\ OpenAppsAreListed'
    BY <2>1, <2>2, <2>3, GoingOnKeeps
  <2>5. failed' \subseteq Zones
    BY <1>5, <2>1 DEF StartFails, AppsInv, Shape, AppRecord
  <2>6. spent' \in [turns: 0..MaxTurns, troubles: 0..MaxTroubles]
    BY <1>5 DEF StartFails, Trouble, AppsInv, Shape
  <2>7. QED
    BY <1>5, <2>4, <2>5, <2>6 DEF StartFails, AppsInv, Shape
<1>6. QED
  BY <1>3, <1>4, <1>5 DEF Start

-----------------------------------------------------------------------------
(* Apps that are made and closed *)

\* There are slots enough for new Apps when there are at least as many as Apps.
LEMMA Injects ==
  ASSUME NEW A, NEW B, IsFiniteSet(A), IsFiniteSet(B), Cardinality(A) <= Cardinality(B)
  PROVE  \E f \in [A -> B] : \A y, z \in A : f[y] = f[z] => y = z
<1> DEFINE K == 1..Cardinality(A)
           L == 1..Cardinality(B)
<1>1. /\ Cardinality(A) \in Nat /\ ExistsBijection(K, A)
      /\ Cardinality(B) \in Nat /\ ExistsBijection(L, B)
  BY FS_CardinalityType
<1>2. K \subseteq L
  BY <1>1
<1> HIDE DEF K, L
<1>3. ExistsBijection(A, K)
  BY <1>1, Fun_ExistsBijSymmetric
<1>4. PICK g \in Bijection(A, K) : TRUE
  BY <1>3, Fun_ExistsBij
<1>5. PICK h \in Bijection(L, B) : TRUE
  BY <1>1, Fun_ExistsBij
<1>6. g \in [A -> K] /\ \A a, b \in A : g[a] = g[b] => a = b
  BY <1>4, Fun_BijectionProperties
<1>7. h \in [L -> B] /\ \A a, b \in L : h[a] = h[b] => a = b
  BY <1>5, Fun_BijectionProperties
<1> DEFINE f == [a \in A |-> h[g[a]]]
<1>8. \A a \in A : g[a] \in L
  BY <1>2, <1>6
<1>9. f \in [A -> B] /\ \A y, z \in A : f[y] = f[z] => y = z
  BY <1>6, <1>7, <1>8
<1>10. QED
  BY <1>9

LEMMA NewAppType ==
  ASSUME AppsInv, NEW z \in Zones
  PROVE  NewApp(z) \in AppRecord /\ NewApp(z).zone = z /\ ~NewApp(z).closed
  BY DEF NewApp, AppRecord, Awaits

LEMMA MadeType ==
  ASSUME AppsInv, NEW z \in Zones, NEW D
  PROVE  /\ Made(z, D) \in AppRecord /\ Made(z, D).zone = z /\ Made(z, D).pc # "free"
         /\ Made(z, D).closed <=> z \in D
<1>1. NewApp(z).pc \in Awaits /\ NewApp(z) \in AppRecord
  BY NewAppType DEF NewApp, Awaits
<1>2. Closed(NewApp(z)) = [NewApp(z) EXCEPT !.closed = TRUE]
  BY <1>1 DEF Closed
<1>3. Made(z, D) \in AppRecord /\ Made(z, D).zone = z /\ (Made(z, D).closed <=> z \in D)
  BY <1>1, <1>2, NewAppType DEF Made, AppRecord
<1>4. QED
  BY <1>3 DEF AppRecord, Awaits, Ended

LEMMA ClosedType ==
  ASSUME NEW a \in AppRecord
  PROVE  \/ Closed(a) = NoApp
         \/ Closed(a) \in AppRecord /\ Closed(a).zone = a.zone /\ Closed(a).closed
  BY DEF Closed, AppRecord

\* Every zone that gets a new App has no App, or one that is closed.
LEMMA ReplaceKeeps ==
  ASSUME AppsInv, NEW Z \in SUBSET Zones, NEW N \in SUBSET Zones, NEW D \in SUBSET N,
         Replace(Z, N, D),
         \A z \in N : z \in Z \/ zoneApps[z] = None
  PROVE  /\ zoneApps' \in [Zones -> Slots \cup {None}]
         /\ app' \in [Slots -> {NoApp} \cup AppRecord]
         /\ failed' \subseteq Zones
         /\ ListedAppsAreOpen' /\ OpenAppsAreListed'
<1>1. IsFiniteSet(N) /\ IsFiniteSet(Free)
  <2>1. Free \subseteq Slots
    BY DEF Free
  <2>2. QED
    BY <2>1, FS_Subset
<1> DEFINE Fits(f) == \A y, z \in N : f[y] = f[z] => y = z
           new == CHOOSE f \in [N -> Free] : Fits(f)
<1>2. new \in [N -> Free] /\ Fits(new)
  <2>1. \E f \in [N -> Free] : Fits(f)
    BY <1>1, Injects DEF Replace
  <2>2. QED
    BY <2>1
<1>3. /\ zoneApps' = [z \in Zones |-> IF z \in N \ D THEN new[z]
                                      ELSE IF z \in Z \cup D THEN None ELSE zoneApps[z]]
      /\ app' = [s \in Slots |->
           IF \E z \in N : new[z] = s THEN Made(CHOOSE z \in N : new[z] = s, D)
           ELSE IF \E z \in Z : zoneApps[z] = s THEN Closed(app[s]) ELSE app[s]]
      /\ failed' = failed \ N
  BY DEF Replace
<1> HIDE DEF new
<1>4. \A z \in N : new[z] \in Slots /\ app[new[z]] = NoApp /\ app[new[z]].pc = "free"
  <2>1. ASSUME NEW z \in N PROVE new[z] \in Slots /\ app[new[z]].pc = "free"
    BY <1>2 DEF Free
  <2>2. QED
    BY <2>1, NoAppOrApp DEF AppsInv, Shape
<1>5. \A z \in N : app'[new[z]] = Made(z, D)
  <2>1. SUFFICES ASSUME NEW z \in N PROVE app'[new[z]] = Made(z, D)
    OBVIOUS
  <2>2. (CHOOSE y \in N : new[y] = new[z]) = z
    BY <1>2
  <2>3. QED
    BY <1>3, <1>4, <2>2
<1>6. \A s \in Slots : (\E z \in N : new[z] = s) \/ (\E z \in Z : zoneApps[z] = s)
                       \/ app'[s] = app[s]
  BY <1>3
<1>7. \A z \in Z \cup N : \A s \in Slots :
        zoneApps[z] = s => app[s] \in AppRecord /\ app[s].zone = z /\ app'[s] = Closed(app[s])
  <2>1. SUFFICES ASSUME NEW z \in Z \cup N, NEW s \in Slots, zoneApps[z] = s
                 PROVE app[s] \in AppRecord /\ app[s].zone = z /\ app'[s] = Closed(app[s])
    OBVIOUS
  <2>2. app[s].pc # "free" /\ app[s].zone = z /\ z \in Z
    BY <2>1 DEF AppsInv, ListedAppsAreOpen
  <2>3. app[s] \in AppRecord
    BY <2>2, NoAppOrApp DEF AppsInv, Shape
  <2>4. ~\E y \in N : new[y] = s
    BY <1>4, <2>2
  <2>5. QED
    BY <1>3, <2>1, <2>2, <2>3, <2>4
<1>8. app' \in [Slots -> {NoApp} \cup AppRecord]
  <2>1. ASSUME NEW s \in Slots PROVE app'[s] \in {NoApp} \cup AppRecord
    <3>1. CASE \E z \in N : new[z] = s
      BY <1>5, <3>1, MadeType
    <3>2. CASE \E z \in Z : zoneApps[z] = s
      BY <1>7, <3>2, ClosedType
    <3>3. CASE app'[s] = app[s]
      BY <3>3 DEF AppsInv, Shape
    <3>4. QED
      BY <1>6, <3>1, <3>2, <3>3
  <2>2. QED
    BY <1>3, <2>1
<1>9. zoneApps' \in [Zones -> Slots \cup {None}]
  <2>1. ASSUME NEW z \in Zones PROVE zoneApps'[z] \in Slots \cup {None}
    BY <1>3, <1>4 DEF AppsInv, Shape
  <2>2. QED
    BY <1>3, <2>1
<1>10. ListedAppsAreOpen'
  <2>1. SUFFICES ASSUME NEW z \in Zones, zoneApps'[z] # None
                 PROVE /\ app'[zoneApps'[z]].pc # "free" /\ app'[zoneApps'[z]].zone = z
                       /\ ~app'[zoneApps'[z]].closed
    BY DEF ListedAppsAreOpen
  <2>2. CASE z \in N
    <3>1. z \notin D /\ app'[zoneApps'[z]] = Made(z, D)
      BY <1>3, <1>5, <2>1, <2>2
    <3>2. QED
      BY <3>1, MadeType
  <2>3. CASE z \notin N
    <3>1. z \notin Z /\ zoneApps'[z] = zoneApps[z]
      BY <1>3, <2>1, <2>3
    <3> DEFINE s == zoneApps[z]
    <3>2. s \in Slots /\ app[s].pc # "free" /\ app[s].zone = z /\ ~app[s].closed
      BY <2>1, <3>1 DEF AppsInv, Shape, ListedAppsAreOpen
    <3>3. ~(\E y \in N : new[y] = s) /\ ~(\E y \in Z : zoneApps[y] = s)
      BY <1>4, <1>7, <3>1, <3>2
    <3>4. QED
      BY <1>6, <3>1, <3>2, <3>3
  <2>4. QED
    BY <2>2, <2>3
<1>11. OpenAppsAreListed'
  <2>1. SUFFICES ASSUME NEW s \in Slots, app'[s].pc # "free", ~app'[s].closed
                 PROVE zoneApps'[app'[s].zone] = s
    BY DEF OpenAppsAreListed
  <2>2. CASE \E z \in N : new[z] = s
    BY <1>3, <1>5, <2>1, <2>2, MadeType
  <2>3. CASE \E z \in Z : zoneApps[z] = s
    <3>1. Closed(app[s]) = NoApp \/ Closed(app[s]).closed
      BY <1>7, <2>3, ClosedType
    <3>2. QED
      BY <1>7, <2>1, <2>3, <3>1 DEF NoApp
  <2>4. CASE ~(\E z \in N : new[z] = s) /\ ~(\E z \in Z : zoneApps[z] = s)
    <3>1. app'[s] = app[s] /\ app[s] \in AppRecord
      BY <1>6, <2>1, <2>4, NoAppOrApp DEF AppsInv, Shape
    <3> DEFINE z == app[s].zone
    <3>2. z \in Zones /\ zoneApps[z] = s
      BY <2>1, <3>1 DEF AppsInv, OpenAppsAreListed, AppRecord
    <3>3. z \notin Z /\ z \notin N
      BY <2>4, <3>2
    <3>4. QED
      BY <1>3, <3>1, <3>2, <3>3
  <2>5. QED
    BY <2>2, <2>3, <2>4
<1>12. QED
  BY <1>3, <1>8, <1>9, <1>10, <1>11 DEF AppsInv, Shape

-----------------------------------------------------------------------------
(* The handlers of zone events, updateZoneApps, the zones *)

LEMMA EventsType ==
  ASSUME Shape, events # <<>>
  PROVE  Head(events)[2] \in Zones /\ Tail(events) \in Seq({"up", "down"} \X Zones)
<1> DEFINE E == {"up", "down"} \X Zones
<1>1. events \in Seq(E)
  BY DEF Shape
<1>2. \A e \in E : e[2] \in Zones
  OBVIOUS
<1> HIDE DEF E
<1>3. Head(events) \in E /\ Tail(events) \in Seq(E)
  BY <1>1
<1>4. QED
  BY <1>2, <1>3 DEF E

LEMMA HandlersKeep ==
  ASSUME AppsInv, HandleZoneUp \/ HandleZoneDown PROVE AppsInv'
<1> DEFINE z == Head(events)[2]
<1>1. z \in Zones /\ Tail(events) \in Seq({"up", "down"} \X Zones)
  BY EventsType DEF AppsInv, HandleZoneUp, HandleZoneDown, Deliver
<1>2. events' = Tail(events) /\ UNCHANGED <<zone, watching, heal, spent>>
  BY DEF HandleZoneUp, HandleZoneDown, Deliver
<1>3. PICK N \in {{}, {z}} : Replace({z}, N, {})
  BY DEF HandleZoneUp, HandleZoneDown
<1> HIDE DEF z
<1>4. {z} \in SUBSET Zones /\ N \in SUBSET Zones /\ {} \in SUBSET N /\ \A y \in N : y \in {z}
  BY <1>1
<1>5. /\ zoneApps' \in [Zones -> Slots \cup {None}]
      /\ app' \in [Slots -> {NoApp} \cup AppRecord]
      /\ failed' \subseteq Zones
      /\ ListedAppsAreOpen' /\ OpenAppsAreListed'
  BY <1>3, <1>4, ReplaceKeeps
<1>6. QED
  BY <1>1, <1>2, <1>5 DEF AppsInv, Shape

LEMMA UpdateZoneAppsKeeps ==
  ASSUME AppsInv, UpdateZoneApps PROVE AppsInv'
<1> DEFINE missing  == {z \in heal.actual : zoneApps[z] = None}
           recycled == {z \in heal.actual \ missing :
                          ~app[zoneApps[z]].isZoneRunning /\ zone[z] = "running"}
           obsolete == {z \in heal.old \ heal.actual : zoneApps[z] # None}
           dropped  == heal.old \cap missing
<1>1. heal.actual \subseteq Zones /\ heal.old \subseteq Zones
  BY DEF AppsInv, Shape
<1> DEFINE gone == recycled \cup obsolete
           made == missing \cup recycled
<1>2. /\ gone \in SUBSET Zones /\ made \in SUBSET Zones
      /\ dropped \in SUBSET made
      /\ \A z \in made : z \in gone \/ zoneApps[z] = None
  BY <1>1
<1>3. Replace(gone, made, dropped)
      /\ heal' = NoHeal /\ UNCHANGED <<zone, watching, events, spent>>
  BY DEF UpdateZoneApps
<1> HIDE DEF missing, recycled, obsolete, dropped, gone, made
<1>4. /\ zoneApps' \in [Zones -> Slots \cup {None}]
      /\ app' \in [Slots -> {NoApp} \cup AppRecord]
      /\ failed' \subseteq Zones
      /\ ListedAppsAreOpen' /\ OpenAppsAreListed'
  BY <1>2, <1>3, ReplaceKeeps
<1>5. QED
  BY <1>3, <1>4 DEF AppsInv, Shape, NoHeal

\* The Apps stay as they are while updateZoneApps lists them or the zones change.
LEMMA AppsUnchanged ==
  ASSUME AppsInv, UNCHANGED <<zoneApps, app>>
  PROVE  /\ zoneApps' \in [Zones -> Slots \cup {None}]
         /\ app' \in [Slots -> {NoApp} \cup AppRecord]
         /\ ListedAppsAreOpen' /\ OpenAppsAreListed'
BY DEF AppsInv, Shape, ListedAppsAreOpen, OpenAppsAreListed

LEMMA ListsKeep ==
  ASSUME AppsInv, Watch \/ SelfHeal \/ ListAllZones \/ Restart PROVE AppsInv'
<1>1. UNCHANGED <<zone, events, zoneApps, app, failed, spent>>
  BY DEF Watch, SelfHeal, ListAllZones, Restart
<1>2. watching' \in BOOLEAN
  BY DEF Watch, SelfHeal, ListAllZones, Restart, AppsInv, Shape
<1>3. heal' \in [pc: {"rest", "list", "listed", "exited"}, old: SUBSET Zones,
                 actual: SUBSET Zones]
  <2> DEFINE H == [pc: {"rest", "list", "listed", "exited"}, old: SUBSET Zones,
                   actual: SUBSET Zones]
  <2>1. heal \in H /\ Existing \subseteq Zones
    BY DEF AppsInv, Shape, Existing
  <2>2. CASE Watch
    BY <2>1, <2>2 DEF Watch
  <2>3. CASE SelfHeal
    BY <2>3 DEF SelfHeal, NoHeal
  <2>4. CASE ListAllZones
    BY <2>1, <2>4 DEF ListAllZones
  <2>5. CASE Restart
    BY <2>5 DEF Restart, NoHeal
  <2>6. QED
    BY <2>2, <2>3, <2>4, <2>5
<1>4. QED
  BY <1>1, <1>2, <1>3, AppsUnchanged DEF AppsInv, Shape

LEMMA ExitKeeps ==
  ASSUME AppsInv, Exit PROVE AppsInv'
<1>1. /\ zoneApps' = [z \in Zones |-> None] /\ app' = [s \in Slots |-> NoApp]
      /\ events' = <<>> /\ watching' = FALSE /\ heal' = [NoHeal EXCEPT !.pc = "exited"]
      /\ UNCHANGED <<zone, failed>>
  BY DEF Exit
<1>2. ListedAppsAreOpen' /\ OpenAppsAreListed'
  BY <1>1 DEF ListedAppsAreOpen, OpenAppsAreListed, NoApp
<1>3. spent' \in [turns: 0..MaxTurns, troubles: 0..MaxTroubles]
  BY DEF Exit, Trouble, AppsInv, Shape
<1>4. heal' \in [pc: {"rest", "list", "listed", "exited"}, old: SUBSET Zones,
                 actual: SUBSET Zones]
  BY <1>1 DEF NoHeal
<1>5. events' \in Seq({"up", "down"} \X Zones)
  BY <1>1
<1>6. QED
  BY <1>1, <1>2, <1>3, <1>4, <1>5 DEF AppsInv, Shape

LEMMA ZoneKeeps ==
  ASSUME AppsInv, NEW z \in Zones,
         CreateZone(z) \/ Boot(z) \/ Run(z) \/ Halt(z) \/ GoDown(z) \/ Destroy(z)
  PROVE  AppsInv'
<1>1. PICK from, to, event :
        /\ to \in {"absent", "down", "ready", "running", "halting"}
        /\ event \in {"none", "up", "down"} /\ Becomes(z, from, to, event)
  BY DEF CreateZone, Boot, Run, Halt, GoDown, Destroy
<1>2. /\ zone' \in [Zones -> {"absent", "down", "ready", "running", "halting"}]
      /\ UNCHANGED <<watching, zoneApps, app, heal, failed>>
  BY <1>1 DEF Becomes, AppsInv, Shape
<1>3. events' \in Seq({"up", "down"} \X Zones)
  <2> DEFINE E == {"up", "down"} \X Zones
  <2>1. events \in Seq(E) /\ (event # "none" => <<event, z>> \in E)
    BY <1>1 DEF AppsInv, Shape
  <2> HIDE DEF E
  <2>2. events' = events \/ (event # "none" /\ events' = Append(events, <<event, z>>))
    BY <1>1 DEF Becomes
  <2>3. events' \in Seq(E)
    <3>1. ASSUME NEW q \in Seq(E), NEW e \in E PROVE Append(q, e) \in Seq(E)
      OBVIOUS
    <3>2. QED
      BY <2>1, <2>2, <3>1
  <2>4. QED
    BY <2>3 DEF E
<1>4. spent' \in [turns: 0..MaxTurns, troubles: 0..MaxTroubles]
  BY DEF CreateZone, Boot, Run, Halt, GoDown, Destroy, Turn, AppsInv, Shape
<1>5. QED
  BY <1>2, <1>3, <1>4, AppsUnchanged DEF AppsInv, Shape

-----------------------------------------------------------------------------
(* The theorems *)

LEMMA InitApps == Init => AppsInv
<1>1. SUFFICES ASSUME Init PROVE AppsInv
  OBVIOUS
<1>2. ListedAppsAreOpen /\ OpenAppsAreListed
  BY <1>1 DEF Init, ListedAppsAreOpen, OpenAppsAreListed, NoApp
<1>3. Shape
  <2>1. zone \in [Zones -> {"absent", "down", "ready", "running", "halting"}]
    BY <1>1 DEF Init
  <2>2. events \in Seq({"up", "down"} \X Zones)
    BY <1>1 DEF Init
  <2>3. heal \in [pc: {"rest", "list", "listed", "exited"}, old: SUBSET Zones,
                  actual: SUBSET Zones]
    BY <1>1 DEF Init, NoHeal
  <2>4. app \in [Slots -> {NoApp} \cup AppRecord]
    BY <1>1 DEF Init
  <2>5. zoneApps \in [Zones -> Slots \cup {None}]
    BY <1>1 DEF Init
  <2>6. spent \in [turns: 0..MaxTurns, troubles: 0..MaxTroubles]
    BY <1>1 DEF Init
  <2>7. watching \in BOOLEAN /\ failed \subseteq Zones
    BY <1>1 DEF Init
  <2>8. QED
    BY <2>1, <2>2, <2>3, <2>4, <2>5, <2>6, <2>7 DEF Shape
<1>4. QED
  BY <1>2, <1>3 DEF AppsInv

LEMMA NextKeepsApps == AppsInv /\ [Next]_vars => AppsInv'
<1>1. SUFFICES ASSUME AppsInv, [Next]_vars PROVE AppsInv'
  OBVIOUS
<1>2. ASSUME NEW s \in Slots, Start(s) PROVE AppsInv'
  BY <1>1, <1>2, StartKeeps
<1>3. CASE HandleZoneUp \/ HandleZoneDown
  BY <1>1, <1>3, HandlersKeep
<1>4. CASE UpdateZoneApps
  BY <1>1, <1>4, UpdateZoneAppsKeeps
<1>5. CASE Watch \/ SelfHeal \/ ListAllZones \/ Restart
  BY <1>1, <1>5, ListsKeep
<1>6. CASE Exit
  BY <1>1, <1>6, ExitKeeps
<1>7. ASSUME NEW z \in Zones,
             CreateZone(z) \/ Boot(z) \/ Run(z) \/ Halt(z) \/ GoDown(z) \/ Destroy(z)
      PROVE  AppsInv'
  BY <1>1, <1>7, ZoneKeeps
<1>8. CASE UNCHANGED vars
  BY <1>1, <1>8, AppsUnchanged DEF vars, AppsInv, Shape
<1>9. QED
  BY <1>1, <1>2, <1>3, <1>4, <1>5, <1>6, <1>7, <1>8 DEF Next

\* An App that nobody closed is its zone's App, whatever zone events, runs of
\* updateZoneApps and ends of start come between (relay/main.js, lib/app.js): none
\* keeps its zsock, and so its zone from halting, because it was forgotten.
THEOREM NoAppIsLost == Spec => []OpenAppsAreListed
<1>1. AppsInv => OpenAppsAreListed
  BY DEF AppsInv
<1>2. QED
  BY <1>1, InitApps, NextKeepsApps, PTL DEF Spec

\* The variables of the relay's zone apps keep their types; an App in zoneApps
\* exists and is its zone's.
THEOREM TypeCorrect == Spec => []TypeOK
<1>1. AppsInv => TypeOK
  BY DEF AppsInv, Shape, ListedAppsAreOpen, AppRecord, TypeOK
<1>2. QED
  BY <1>1, InitApps, NextKeepsApps, PTL DEF Spec
=============================================================================
