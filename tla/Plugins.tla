------------------------------ MODULE Plugins ------------------------------
(***************************************************************************)
(* One probe instance of the agent and its target (plugins/lib): start,       *)
(* stop, the checks it makes with timers, child processes and requests, and   *)
(* the count of failed checks, which its `period` timer resets.               *)
(*                                                                          *)
(* A step is one callback.  Time is counted in intervals between checks.  A    *)
(* check finds what the target is at its end.  Nothing limits the time of ping, *)
(* df and svcs, and an http request may take longer than the interval, so their *)
(* checks may overlap.  cmd kills its command after a limit that is taken to be *)
(* below the interval, as it is by default.                                   *)
(***************************************************************************)
EXTENDS Integers, Sequences

CONSTANTS
  Types,       \* the types of probe to look at
  Threshold, Interval, Period,
  MaxChecks,   \* bound: checks under way at a time
  MaxLate,     \* bound: requests that timed out and are still open
  MaxTurns,    \* bound: changes of the target
  MaxTroubles  \* bound: children and commands that fail, exits of the agent

Counting == {"icmp", "http", "cmd", "log-scan"}
ASSUME PluginsAssumption ==
  /\ Types \subseteq Counting \cup {"disk-usage", "machine-up"}
  /\ Threshold \in Nat \ {0} /\ Interval \in Nat \ {0} /\ Period \in Nat \ {0}
  /\ MaxChecks \in Nat \ {0} /\ MaxLate \in Nat /\ MaxTurns \in Nat /\ MaxTroubles \in Nat

VARIABLES
  type,     \* of the probe
  bodyMatch,  \* http: the sense of config.bodyMatch
  state,    \* "new", "on" from start to stop, "off" after that
  target,   \* what a check of it finds
  count,    \* _count
  timer,    \* what is left of the interval, path retry or runner timer and of the period's
  open,     \* checks that are being made, and requests that timed out
  child,    \* log-scan: svcs, tail; machine-up: the app's zoneevent
  zone,     \* zone events on their way
  event,    \* what the last step emitted
  told,     \* history: the last event
  missed,   \* history: the zone changed unseen since the last start
  astray,   \* history: stop came while a command or svcs was under way
  spent     \* turns and troubles so far

vars == <<type, bodyMatch, state, target, count, timer, open, child, zone, event, told,
          missed, astray, spent>>

\* A timer is a number of ticks, or Unset.
Unset == -1
Timers == [check: {Unset} \cup 0..Interval, period: {Unset} \cup 0..Period]
NoTimers == [check |-> Unset, period |-> Unset]
NoChecks == [made |-> 0, late |-> 0]
Open == [made: 0..MaxChecks, late: 0..MaxLate]
Kinds == {"none", "fault", "clear"}

\* `ok`: it is reached in time, exits with 0, has room, runs, logs no match.  An http
\* target also answers with the pattern of bodyMatch in the body, or refuses.
Senses == {"none", "plain", "invert"}
Targets == [ok: BOOLEAN, found: BOOLEAN, refuses: BOOLEAN]
TargetsOf(t, sense) ==
  {a \in Targets : /\ a.found => sense # "none"
                   /\ a.refuses => t = "http" /\ ~a.ok /\ ~a.found}
Healthy ==
  /\ target.ok
  /\ bodyMatch = "plain" => target.found
  /\ bodyMatch = "invert" => ~target.found

TypeOK ==
  /\ type \in Types /\ bodyMatch \in Senses /\ state \in {"new", "on", "off"}
  /\ target \in Targets
  /\ count \in 0..(Threshold + 2)
  /\ timer \in Timers
  /\ open \in Open
  /\ child \in {"none", "svcs", "tail", "starting", "watching", "dead"}
  /\ zone \in Seq(BOOLEAN)
  /\ event \in Kinds /\ told \in Kinds
  /\ missed \in BOOLEAN /\ astray \in BOOLEAN
  /\ spent \in [turns: 0..MaxTurns, troubles: 0..MaxTroubles]

Init ==
  /\ type \in Types /\ state = "new"
  /\ bodyMatch \in IF type = "http" THEN Senses ELSE {"none"}
  /\ target \in TargetsOf(type, bodyMatch)
  /\ count = 0
  /\ timer = NoTimers /\ open = NoChecks /\ child = "none" /\ zone = <<>>
  /\ event = "none" /\ told = "none" /\ missed = FALSE /\ astray = FALSE
  /\ spent = [turns |-> 0, troubles |-> 0]

Trouble == spent.troubles < MaxTroubles /\ spent' = [spent EXCEPT !.troubles = @ + 1]
Capped(n) == IF n > Threshold + 2 THEN Threshold + 2 ELSE n
config == <<type, bodyMatch>>
flags == <<missed, astray>>

----------------------------------------------------------------------------
\* emitEvent, and the count

Silent == event' = "none" /\ told' = told
Emit(kind) == event' = kind /\ told' = kind

\* A failed check is counted, then an event tells of it from the threshold on.
\* http emits or counts: it takes one more.
Failed ==
  IF type = "http"
  THEN IF count >= Threshold
       THEN Emit("fault") /\ count' = count
       ELSE Silent /\ count' = count + 1
  ELSE /\ count' = Capped(count + 1)
       /\ IF count + 1 >= Threshold THEN Emit("fault") ELSE Silent
Passed == Silent /\ UNCHANGED count

----------------------------------------------------------------------------
\* start and stop

\* The child `zoneevent` of the agent is started once there is a machine-up probe.
Begun ==
  CASE type \in {"icmp", "http"} ->
         /\ timer' = [check |-> Interval, period |-> Period]
         /\ Silent /\ UNCHANGED <<open, child>>
    [] type = "disk-usage" ->
         /\ timer' = [timer EXCEPT !.check = Interval]
         /\ Silent /\ UNCHANGED <<open, child>>
    [] type = "cmd" ->
         /\ timer' = [timer EXCEPT !.period = Period]
         /\ open' = [open EXCEPT !.made = 1]
         /\ Silent /\ UNCHANGED child
    [] type = "log-scan" ->
         /\ child' = "svcs"
         /\ Silent /\ UNCHANGED <<timer, open>>
    [] type = "machine-up" ->
         /\ child' = "starting"
         /\ Emit(IF Healthy THEN "clear" ELSE "fault") /\ UNCHANGED <<timer, open>>
\* start, and runCmd or getPathsAndStart at the next tick.
Start ==
  /\ state = "new" /\ state' = "on"
  /\ Begun
  /\ missed' = FALSE
  /\ UNCHANGED <<config, target, count, zone, astray, spent>>

StopBug ==  \* mutant: the timer between two checks goes on
  /\ state = "on" /\ state' = "off"
  /\ timer' = [timer EXCEPT !.period = Unset]
  /\ child' = IF type = "log-scan" /\ child = "svcs" THEN "svcs" ELSE "none"
  /\ zone' = <<>>
  /\ open' = IF type = "log-scan" THEN NoChecks ELSE open
  /\ astray' = ((type = "cmd" /\ open.made > 0) \/ child = "svcs")
  /\ Silent
  /\ UNCHANGED <<config, target, count, missed, spent>>
\* stop clears the timers there are, kills tail, whose chunks are ignored, and removes
\* the listeners.  A command, request or svcs that is under way goes on.
Stop ==
  /\ state = "on" /\ state' = "off"
  /\ timer' = NoTimers
  /\ child' = IF type = "log-scan" /\ child = "svcs" THEN "svcs" ELSE "none"
  /\ zone' = <<>>
  /\ open' = IF type = "log-scan" THEN NoChecks ELSE open
  /\ astray' = ((type = "cmd" /\ open.made > 0) \/ child = "svcs")
  /\ Silent
  /\ UNCHANGED <<config, target, count, missed, spent>>

\* The agent exits: all of a probe is in memory.  It is started anew.
Restarted ==
  /\ state # "new" /\ state' = IF state = "on" THEN "new" ELSE "off"
  /\ count' = 0 /\ timer' = NoTimers /\ open' = NoChecks
  /\ child' = "none" /\ zone' = <<>>
  /\ Silent
  /\ UNCHANGED <<config, target, flags>>
Exit == Restarted /\ Trouble

----------------------------------------------------------------------------
\* Timers

Less(n) == IF n = Unset THEN Unset ELSE n - 1
\* One interval's part goes by: no timer is due, no command runs, and what tail wrote
\* has been read.  The logs of a failing target get a match each time.
Tick ==
  /\ \E t \in {timer.check, timer.period} : t # Unset
  /\ timer.check # 0 /\ timer.period # 0
  /\ type \in {"cmd", "log-scan"} => open.made = 0
  /\ timer' = [check |-> Less(timer.check), period |-> Less(timer.period)]
  /\ open' = IF child = "tail" /\ ~Healthy THEN [open EXCEPT !.made = 1] ELSE open
  /\ Silent
  /\ UNCHANGED <<config, state, target, count, child, zone, flags, spent>>

\* resetCounter
ResetCounter ==
  /\ timer.period = 0
  /\ timer' = [timer EXCEPT !.period = Period]
  /\ count' = 0
  /\ Silent
  /\ UNCHANGED <<config, state, target, open, child, zone, flags, spent>>

CheckBug ==  \* mutant: the next check is an interval and a tick away
  /\ timer.check = 0
  /\ timer' = [timer EXCEPT !.check = IF type = "log-scan" THEN Unset ELSE Interval + 1]
  /\ IF type = "log-scan"
     THEN child' = "svcs" /\ open' = open
     ELSE /\ open.made < MaxChecks /\ child' = child
          /\ open' = [open EXCEPT !.made = @ + 1]
  /\ Silent
  /\ UNCHANGED <<config, state, target, count, zone, flags, spent>>
\* doPing, doRequest, checkThreshold, runCmd; or the path retry of a log-scan
Check ==
  /\ timer.check = 0
  /\ timer' = [timer EXCEPT !.check = IF type \in {"cmd", "log-scan"} THEN Unset ELSE Interval]
  /\ IF type = "log-scan"
     THEN child' = "svcs" /\ open' = open
     ELSE /\ open.made < MaxChecks /\ child' = child
          /\ open' = [open EXCEPT !.made = @ + 1]
  /\ Silent
  /\ UNCHANGED <<config, state, target, count, zone, flags, spent>>

----------------------------------------------------------------------------
\* The ends of checks

Finished == open.made > 0 /\ open' = [open EXCEPT !.made = @ - 1]

PingEnds ==
  /\ type = "icmp" /\ Finished
  /\ IF Healthy THEN Passed ELSE Failed
  /\ UNCHANGED <<config, state, target, timer, child, zone, flags, spent>>

\* A request that is refused has no "error" listener, and `matches` of a body without
\* the pattern is null, of which http.js takes the length: both throw.
Throws ==
  /\ type = "http"
  /\ target.refuses \/ (bodyMatch # "none" /\ ~target.found)
\* The end of an answer: its status, its time and its body are looked at.
AnswerEnds ==
  /\ type = "http" /\ ~Throws /\ Finished
  /\ IF Healthy THEN Passed ELSE Failed
  /\ UNCHANGED <<config, state, target, timer, child, zone, flags, spent>>
\* It throws, before it counts: nothing catches this and the agent exits.
AnswerThrows ==
  /\ Throws /\ open.made > 0
  /\ Restarted /\ UNCHANGED spent

\* exec calls back: another run after the interval, stopped or not.
CmdEndsBug ==  \* mutant: only a passing command is run again
  /\ type = "cmd" /\ Finished
  /\ IF Healthy THEN Passed ELSE Failed
  /\ timer' = [timer EXCEPT !.check = IF Healthy THEN Interval ELSE Unset]
  /\ UNCHANGED <<config, state, target, child, zone, flags, spent>>
CmdEnds ==
  /\ type = "cmd" /\ Finished
  /\ IF Healthy THEN Passed ELSE Failed
  /\ timer' = [timer EXCEPT !.check = Interval]
  /\ UNCHANGED <<config, state, target, child, zone, flags, spent>>

\* df calls back: every check emits what it found.
DfEnds ==
  /\ type = "disk-usage" /\ Finished
  /\ Emit(IF Healthy THEN "clear" ELSE "fault")
  /\ UNCHANGED <<config, state, target, count, timer, child, zone, flags, spent>>
DfFails ==
  /\ type = "disk-usage" /\ Finished
  /\ Passed /\ Trouble
  /\ UNCHANGED <<config, state, target, timer, child, zone, flags>>

\* A request times out and counts, but is not aborted.
RequestTimesOut ==
  /\ type = "http" /\ open.made > 0 /\ ~target.ok /\ ~target.refuses
  /\ open.late < MaxLate
  /\ open' = [made |-> open.made - 1, late |-> open.late + 1]
  /\ Failed
  /\ UNCHANGED <<config, state, target, timer, child, zone, flags, spent>>
\* Its answer counts once more, whatever it says, if it can be read.
LateAnswer ==
  /\ type = "http" /\ open.late > 0 /\ ~Throws
  /\ open' = [open EXCEPT !.late = @ - 1]
  /\ Failed
  /\ UNCHANGED <<config, state, target, timer, child, zone, flags, spent>>

LateAnswerThrows ==
  /\ Throws /\ open.late > 0
  /\ Restarted /\ UNCHANGED spent

----------------------------------------------------------------------------
\* log-scan and bunyan-log-scan

\* svcs names the log files: tail is started, on a stopped probe too.
GotPaths ==
  /\ type = "log-scan" /\ child = "svcs"
  /\ child' = "tail"
  /\ timer' = [timer EXCEPT !.period = Period]
  /\ state' = state
  /\ Passed
  /\ UNCHANGED <<config, target, open, zone, flags, spent>>
PathsFail ==
  /\ type = "log-scan" /\ child = "svcs"
  /\ child' = "none" /\ timer' = [timer EXCEPT !.check = Interval]
  /\ Passed /\ Trouble
  /\ UNCHANGED <<config, state, target, open, zone, flags>>
\* A chunk with a match.
ChunkMatches ==
  /\ child = "tail" /\ Finished
  /\ Failed
  /\ UNCHANGED <<config, state, target, timer, child, zone, flags, spent>>
TailExits ==
  /\ type = "log-scan" /\ child = "tail" /\ state = "on"
  /\ child' = "dead" /\ timer' = NoTimers /\ open' = NoChecks
  /\ Passed /\ Trouble
  /\ UNCHANGED <<config, state, target, zone, flags>>

----------------------------------------------------------------------------
\* machine-up

Listening ==
  /\ child = "starting" /\ child' = "watching"
  /\ Passed
  /\ UNCHANGED <<config, state, target, timer, open, zone, flags, spent>>
HandleZoneEventBug ==  \* mutant: only a zone that goes down is told
  /\ zone # <<>> /\ zone' = Tail(zone)
  /\ IF Head(zone) THEN Silent ELSE Emit("fault")
  /\ UNCHANGED <<config, state, target, count, timer, open, child, flags, spent>>
\* _handleZoneUp and _handleZoneDown
HandleZoneEvent ==
  /\ zone # <<>> /\ zone' = Tail(zone)
  /\ Emit(IF Head(zone) THEN "clear" ELSE "fault")
  /\ UNCHANGED <<config, state, target, count, timer, open, child, flags, spent>>
WatcherExits ==
  /\ child = "watching" /\ child' = "dead"
  /\ Passed /\ Trouble
  /\ UNCHANGED <<config, state, target, timer, open, zone, flags>>

\* The target changes; zoneevent sees a zone that does.
Turn ==
  /\ spent.turns < MaxTurns /\ spent' = [spent EXCEPT !.turns = @ + 1]
  /\ \E a \in TargetsOf(type, bodyMatch) \ {target} :
       /\ target' = a
       /\ zone' = IF child = "watching" THEN Append(zone, a.ok) ELSE zone
  /\ missed' = (missed \/ (type = "machine-up" /\ child # "watching"))
  /\ Passed
  /\ UNCHANGED <<config, state, timer, open, child, astray>>

CheckEnds == PingEnds \/ AnswerEnds \/ AnswerThrows \/ CmdEnds \/ DfEnds \/ RequestTimesOut
Next ==
  \/ Start \/ Stop \/ Exit
  \/ Tick \/ ResetCounter \/ Check
  \/ CheckEnds \/ DfFails \/ LateAnswer \/ LateAnswerThrows
  \/ GotPaths \/ PathsFail \/ ChunkMatches \/ TailExits
  \/ Listening \/ HandleZoneEvent \/ WatcherExits
  \/ Turn

Spec == Init /\ [][Next]_vars

Fairness ==
  /\ WF_vars(Start) /\ WF_vars(Tick) /\ WF_vars(ResetCounter) /\ WF_vars(Check)
  /\ WF_vars(CheckEnds) /\ WF_vars(GotPaths) /\ WF_vars(ChunkMatches)
  /\ WF_vars(Listening) /\ WF_vars(HandleZoneEvent)
FairSpec == Spec /\ Fairness

----------------------------------------------------------------------------
\* Properties

\* After stop nothing is begun and nothing is told but by a request, ping or df that
\* was under way; only a cmd or log-scan that stop found between two callbacks
\* goes on.
StopIsFinal ==
  [][state = "off" /\ ~astray =>
       /\ open'.made <= open.made /\ open'.made + open'.late <= open.made + open.late
       /\ event' # "none" => open # NoChecks]_vars

\* While the target of a probe that is not stopped fails, faults are told of time and
\* again, whatever failed before and however checks overlap, unless its tail has gone
\* or what an http check finds ends the agent.
FailingTargetAlarms ==
  \/ []<>(state = "off" \/ Healthy \/ type = "machine-up" \/ child = "dead" \/ Throws)
  \/ []<>(event = "fault")

\* docs/index.md:1682 says of http: "A given bodyMatch means that this probe will fire
\* if the response body does **not** match the given pattern."
BodyMatchFires ==
  \/ []<>(state = "off" \/ ~(bodyMatch = "plain" /\ target.ok /\ ~target.found))
  \/ []<>(event = "fault")

\* The last event of a machine-up or disk-usage probe comes to be the state of its target,
\* unless a zone changed while nothing watched it.
ToldIsCurrent ==
  type \in {"machine-up", "disk-usage"} =>
    \/ []<>(state # "on" \/ missed)
    \/ <>[](told = IF Healthy THEN "clear" ELSE "fault")
=============================================================================
