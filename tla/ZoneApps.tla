------------------------------ MODULE ZoneApps ------------------------------
(***************************************************************************)
(* The relay's `zoneApps`: an App for each zone, with a zsock into the zone  *)
(* while that runs.  Zone events (zoneeventwatcher.js), updateZoneApps at    *)
(* startup and every five minutes (main.js), and start and close of an App   *)
(* (lib/app.js) all work on it.  The global zone's App, which is made once    *)
(* and listens on a socket of its own, is left out.                          *)
(*                                                                          *)
(* The relay is one Node process: a step is one callback, or what a command   *)
(* or the kernel does meanwhile.  A zone event is delivered some time after    *)
(* the change, in order, but is lost while `zoneevent` is being started.      *)
(* "An open file in a zone prevents it from shutting down": a halting zone     *)
(* waits for every zsock.                                                    *)
(***************************************************************************)
EXTENDS Integers, Sequences, FiniteSets

CONSTANTS
  Zones,        \* the zones there can be on the server
  Slots,        \* bound: Apps that exist at a time
  None,         \* no App
  MaxTurns,     \* bound: zones created, booted, halted, destroyed
  MaxTroubles   \* bound: commands that fail, exits of the relay

ASSUME ZoneAppsAssumption ==
  /\ None \notin Slots /\ IsFiniteSet(Slots) /\ IsFiniteSet(Zones)
  /\ MaxTurns \in Nat /\ MaxTroubles \in Nat

VARIABLES
  zone,      \* the state of each zone
  watching,  \* the child `zoneevent` runs and sees what happens
  events,    \* zone events on their way
  zoneApps,  \* the App of each zone
  app,       \* the Apps
  heal,      \* updateZoneApps: where it is
  failed,    \* history: zones whose App's start failed since they booted
  spent      \* turns and troubles so far

vars == <<zone, watching, events, zoneApps, app, heal, failed, spent>>

NoApp == [pc |-> "free"]
\* `pc` is the callback that start awaits.  "served" is a zsock that listens,
\* "idle" a zone that does not run.
Awaits == {"cache", "machine", "wait", "zsock", "opened"}
Ended == {"served", "idle", "failed"}
Existing == {z \in Zones : zone[z] # "absent"}
NoHeal == [pc |-> "rest", old |-> {}, actual |-> {}]

TypeOK ==
  /\ zone \in [Zones -> {"absent", "down", "ready", "running", "halting"}]
  /\ watching \in BOOLEAN
  /\ events \in Seq({"up", "down"} \X Zones)
  /\ zoneApps \in [Zones -> Slots \cup {None}]
  /\ \A s \in Slots :
       app[s] = NoApp \/ app[s] \in [pc: Awaits \cup Ended, zone: Zones, closed: BOOLEAN,
                                     isZoneRunning: BOOLEAN, fd: BOOLEAN]
  /\ \A z \in Zones : zoneApps[z] # None =>
       /\ app[zoneApps[z]].pc # "free"
       /\ app[zoneApps[z]].zone = z
  /\ heal \in [pc: {"rest", "list", "listed", "exited"}, old: SUBSET Zones,
               actual: SUBSET Zones]
  /\ failed \subseteq Zones
  /\ spent \in [turns: 0..MaxTurns, troubles: 0..MaxTroubles]

\* The relay starts, on a server whose zones are down or running.
Init ==
  /\ zone \in [Zones -> {"absent", "down", "running"}]
  /\ watching = FALSE
  /\ events = <<>>
  /\ zoneApps = [z \in Zones |-> None]
  /\ app = [s \in Slots |-> NoApp]
  /\ heal = [NoHeal EXCEPT !.pc = "list"]
  /\ failed = {}
  /\ spent = [turns |-> 0, troubles |-> 0]

Trouble == spent.troubles < MaxTroubles /\ spent' = [spent EXCEPT !.troubles = @ + 1]
Turn == spent.turns < MaxTurns /\ spent' = [spent EXCEPT !.turns = @ + 1]
Up == heal.pc # "exited"

----------------------------------------------------------------------------
\* App: the constructor, close and start

NewApp(z) == [pc |-> "cache", zone |-> z, closed |-> FALSE,
              isZoneRunning |-> (zone[z] = "running"), fd |-> FALSE]
\* close: without a handle the server has nothing to close yet.
Closed(a) ==
  IF a.pc \in Awaits THEN [a EXCEPT !.closed = TRUE]
  ELSE NoApp
Made(z, D) == IF z \in D THEN Closed(NewApp(z)) ELSE NewApp(z)
Free == {s \in Slots : app[s].pc = "free"}

ReplaceBug(Z, N, D) ==  \* mutant: an App that is replaced is not closed
  /\ Cardinality(N) <= Cardinality(Free)
  /\ LET new == CHOOSE f \in [N -> Free] : \A y, z \in N : f[y] = f[z] => y = z IN
    /\ zoneApps' = [z \in Zones |-> IF z \in N \ D THEN new[z]
                                    ELSE IF z \in Z \cup D THEN None ELSE zoneApps[z]]
    /\ app' = [s \in Slots |->
         IF \E z \in N : new[z] = s THEN Made(CHOOSE z \in N : new[z] = s, D)
         ELSE IF \E z \in Z \ N : zoneApps[z] = s THEN Closed(app[s]) ELSE app[s]]
    /\ failed' = failed \ N
\* The Apps of Z are closed and forgotten, those of N made in free slots and started;
\* of these, those of D are closed and forgotten before their start gets anywhere.
Replace(Z, N, D) ==
  /\ Cardinality(N) <= Cardinality(Free)
  /\ LET new == CHOOSE f \in [N -> Free] : \A y, z \in N : f[y] = f[z] => y = z IN
    /\ zoneApps' = [z \in Zones |-> IF z \in N \ D THEN new[z]
                                    ELSE IF z \in Z \cup D THEN None ELSE zoneApps[z]]
    /\ app' = [s \in Slots |->
         IF \E z \in N : new[z] = s THEN Made(CHOOSE z \in N : new[z] = s, D)
         ELSE IF \E z \in Z : zoneApps[z] = s THEN Closed(app[s]) ELSE app[s]]
    /\ failed' = failed \ N

AfterBug(a, pc) ==  \* mutant: start does not look at `closed` at its end
  IF a.closed /\ a.pc # "opened" THEN NoApp
  ELSE [a EXCEPT !.pc = IF pc = "wait" /\ ~a.isZoneRunning THEN "idle" ELSE pc]
\* Where start goes on from a callback.  A closed App skips what is left and is
\* closed again; one whose zone did not run has no zsock to open.
After(a, pc) ==
  IF a.closed THEN NoApp
  ELSE [a EXCEPT !.pc = IF pc = "wait" /\ ~a.isZoneRunning THEN "idle" ELSE pc]
Goes(s, from, to) ==
  /\ app[s].pc = from
  /\ app' = [app EXCEPT ![s] = After(app[s], to)]
  /\ UNCHANGED <<zone, watching, events, zoneApps, heal, failed, spent>>
LoadCache(s) == Goes(s, "cache", "machine")
\* retrieveOwner and retrieveAgentAlias, both of which ask for the zone's VM.
RetrieveOwnerAndAlias(s) == Goes(s, "machine", "wait") /\ zone[app[s].zone] # "absent"
\* It first looks after at least 5 s; `zoneevent` is at work by then.
WaitForMultiUser(s) ==
  Goes(s, "wait", "zsock") /\ zone[app[s].zone] = "running" /\ watching
\* createZoneSocket opens the zsock; its callback listens on it.
OpenZsock(s) ==
  /\ app[s].pc = "zsock" /\ zone[app[s].zone] = "running"
  /\ app' = [app EXCEPT ![s].pc = "opened", ![s].fd = TRUE]
  /\ UNCHANGED <<zone, watching, events, zoneApps, heal, failed, spent>>
Listen(s) == Goes(s, "opened", "served")

\* A step fails, of itself or for the zone's state; wait after five minutes.  An
\* event for the operator is all that comes of it.
StartFails(s) ==
  LET z == app[s].zone IN
  /\ app[s].pc \in {"machine", "wait", "zsock"}
  /\ \/ app[s].pc = "machine" /\ zone[z] = "absent" /\ spent' = spent
     \/ app[s].pc \in {"wait", "zsock"} /\ zone[z] # "running" /\ spent' = spent
     \/ Trouble
  /\ app' = [app EXCEPT ![s] = IF @.closed THEN NoApp ELSE [@ EXCEPT !.pc = "failed"]]
  /\ failed' = IF app[s].closed THEN failed ELSE failed \cup {z}
  /\ UNCHANGED <<zone, watching, events, zoneApps, heal>>
Start(s) ==
  \/ LoadCache(s) \/ RetrieveOwnerAndAlias(s) \/ WaitForMultiUser(s) \/ OpenZsock(s)
  \/ Listen(s) \/ StartFails(s)

----------------------------------------------------------------------------
\* ZoneEventWatcher and the handlers of its events

Watch ==
  /\ Up /\ ~watching /\ watching' = TRUE
  /\ UNCHANGED <<zone, events, zoneApps, app, heal, failed, spent>>
Deliver(kind) ==
  /\ events # <<>> /\ Head(events)[1] = kind
  /\ events' = Tail(events)
  /\ UNCHANGED <<zone, watching, heal, spent>>
HandleZoneUp == LET z == Head(events)[2] IN Deliver("up") /\ Replace({z}, {z}, {})
HandleZoneDownBug ==  \* mutant: the closed App stays in zoneApps
  LET z == Head(events)[2] IN
  /\ Deliver("down")
  /\ app' = [s \in Slots |-> IF zoneApps[z] = s THEN Closed(app[s]) ELSE app[s]]
  /\ UNCHANGED <<zoneApps, failed>>
HandleZoneDown == LET z == Head(events)[2] IN Deliver("down") /\ Replace({z}, {}, {})

----------------------------------------------------------------------------
\* updateZoneApps

\* At startup, and every five minutes: the Apps there are, then the list of zones.
SelfHeal ==
  /\ heal.pc = "rest"
  /\ heal' = [NoHeal EXCEPT !.pc = "list", !.old = {z \in Zones : zoneApps[z] # None}]
  /\ UNCHANGED <<zone, watching, events, zoneApps, app, failed, spent>>
ListAllZones ==
  /\ heal.pc = "list"
  /\ heal' = [heal EXCEPT !.pc = "listed", !.actual = Existing]
  /\ UNCHANGED <<zone, watching, events, zoneApps, app, failed, spent>>
\* Zones without an App get one, Apps made while their zone did not run are
\* made again, and those whose zone was not listed go.  The name of a zone that got
\* one is not struck from `existingZonenamesMap`: when it had an App before the list
\* and a zoneDown took that meanwhile, the new one goes as if it were obsolete.
UpdateZoneAppsBug ==  \* mutant: Apps made while their zone did not run stay
  LET missing  == {z \in heal.actual : zoneApps[z] = None}
      obsolete == {z \in heal.old \ heal.actual : zoneApps[z] # None} IN
  /\ heal.pc = "listed"
  /\ Replace(obsolete, missing, heal.old \cap missing)
  /\ heal' = NoHeal
  /\ UNCHANGED <<zone, watching, events, spent>>
UpdateZoneApps ==
  LET missing  == {z \in heal.actual : zoneApps[z] = None}
      recycled == {z \in heal.actual \ missing :
                     ~app[zoneApps[z]].isZoneRunning /\ zone[z] = "running"}
      obsolete == {z \in heal.old \ heal.actual : zoneApps[z] # None} IN
  /\ heal.pc = "listed"
  /\ Replace(recycled \cup obsolete, missing \cup recycled, heal.old \cap missing)
  /\ heal' = NoHeal
  /\ UNCHANGED <<zone, watching, events, spent>>

\* A failed list, an error or the end of `zoneevent`, a crash: the relay is gone, its
\* zsocks with it, and SMF starts it again.
Exit ==
  /\ Up /\ Trouble
  /\ heal' = [NoHeal EXCEPT !.pc = "exited"]
  /\ zoneApps' = [z \in Zones |-> None]
  /\ app' = [s \in Slots |-> NoApp]
  /\ events' = <<>> /\ watching' = FALSE
  /\ UNCHANGED <<zone, failed>>
Restart ==
  /\ heal.pc = "exited"
  /\ heal' = [NoHeal EXCEPT !.pc = "list"]
  /\ UNCHANGED <<zone, watching, events, zoneApps, app, failed, spent>>

----------------------------------------------------------------------------
\* The zones

Becomes(z, from, to, event) ==
  /\ zone[z] = from
  /\ zone' = [zone EXCEPT ![z] = to]
  /\ events' = IF event = "none" \/ ~watching THEN events ELSE Append(events, <<event, z>>)
  /\ UNCHANGED <<watching, zoneApps, app, heal, failed>>
CreateZone(z) == Turn /\ Becomes(z, "absent", "down", "none")
Boot(z) == Turn /\ Becomes(z, "down", "ready", "none")
Run(z) == Becomes(z, "ready", "running", "up") /\ UNCHANGED spent
Halt(z) == Turn /\ Becomes(z, "running", "halting", "down")
GoDown(z) ==
  /\ \A s \in Slots : app[s].pc # "free" /\ app[s].zone = z => ~app[s].fd
  /\ Becomes(z, "halting", "down", "none") /\ UNCHANGED spent
Destroy(z) == Turn /\ Becomes(z, "down", "absent", "none")

Next ==
  \/ \E s \in Slots : Start(s)
  \/ Watch \/ HandleZoneUp \/ HandleZoneDown
  \/ SelfHeal \/ ListAllZones \/ UpdateZoneApps
  \/ Exit \/ Restart
  \/ \E z \in Zones : CreateZone(z) \/ Boot(z) \/ Run(z) \/ Halt(z) \/ GoDown(z) \/ Destroy(z)

Spec == Init /\ [][Next]_vars
\* Callbacks come, events are delivered, the interval fires, SMF restarts the relay;
\* a zone that boots runs, and one that nothing holds goes down.
FairSpec ==
  /\ Spec
  /\ \A s \in Slots : WF_vars(Start(s))
  /\ WF_vars(Watch) /\ WF_vars(HandleZoneUp \/ HandleZoneDown)
  /\ WF_vars(SelfHeal \/ ListAllZones \/ UpdateZoneApps)
  /\ WF_vars(Restart)
  /\ \A z \in Zones : WF_vars(Run(z)) /\ WF_vars(GoDown(z))

----------------------------------------------------------------------------
\* Properties

\* An App that nobody closed is its zone's App: one that was replaced or dropped
\* without a close would keep its zsock for as long as the relay runs.
OpenAppsAreListed ==
  \A s \in Slots : app[s].pc # "free" /\ ~app[s].closed => zoneApps[app[s].zone] = s

\* A zone that halts goes down: whatever the Apps of the zone are doing, no zsock
\* stays open in it (the head of zoneeventwatcher.js).
ZonesGoDown == \A z \in Zones : zone[z] = "halting" ~> zone[z] # "halting"

\* An App that listens is a socket the zone's agent can reach: unless start failed,
\* a zone that runs on gets one.
Served(z) == zoneApps[z] # None /\ app[zoneApps[z]].pc = "served"
RunningZonesAreServed ==
  \A z \in Zones :
    zone[z] = "running" ~> Served(z) \/ zone[z] # "running" \/ z \in failed
=============================================================================
