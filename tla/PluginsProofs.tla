--------------------------- MODULE PluginsProofs ---------------------------
(***************************************************************************)
(* Whatever a probe was doing when it was stopped, but for a command or svcs  *)
(* it was waiting for, it begins nothing any more.                            *)
(***************************************************************************)
EXTENDS Plugins, TLAPS

USE PluginsAssumption

\* A probe that was stopped has no timer, no child to hear of and no zone event on its
\* way, and no check of the kinds that begin another one at their end.
Quiet ==
  state = "off" /\ ~astray =>
    /\ timer = NoTimers /\ child = "none" /\ zone = <<>>
    /\ type \in {"cmd", "log-scan"} => open.made = 0

PluginsInv == TypeOK /\ Quiet

-----------------------------------------------------------------------------
(* What the steps have in common *)

LEMMA TroubleType ==
  ASSUME TypeOK, Trouble
  PROVE  spent' \in [turns: 0..MaxTurns, troubles: 0..MaxTroubles]
<1>1. spent \in [turns: 0..MaxTurns, troubles: 0..MaxTroubles]
  BY DEF TypeOK
<1>2. QED
  BY <1>1 DEF Trouble

LEMMA EventType ==
  ASSUME TypeOK, Silent \/ Emit("fault") \/ Emit("clear")
  PROVE  event' \in Kinds /\ told' \in Kinds
BY DEF TypeOK, Silent, Emit, Kinds

LEMMA PassedType ==
  ASSUME TypeOK, Passed
  PROVE  count' \in 0..(Threshold + 2) /\ event' \in Kinds /\ told' \in Kinds /\ event' = "none"
BY EventType DEF TypeOK, Passed, Silent

LEMMA FailedType ==
  ASSUME TypeOK, Failed
  PROVE  count' \in 0..(Threshold + 2) /\ event' \in Kinds /\ told' \in Kinds
<1>1. Silent \/ Emit("fault")
  BY DEF Failed
<1>2. count \in 0..(Threshold + 2)
  BY DEF TypeOK
<1>3. count' = count \/ (count < Threshold /\ count' = count + 1) \/ count' = Capped(count + 1)
  BY <1>2 DEF Failed
<1>4. count' \in 0..(Threshold + 2)
  BY <1>2, <1>3 DEF Capped
<1>5. QED
  BY <1>1, <1>4, EventType

LEMMA FinishedType ==
  ASSUME TypeOK, Finished
  PROVE  /\ open' \in Open /\ open'.made = open.made - 1 /\ open'.late = open.late
         /\ open.made > 0
<1>1. MaxChecks \in Nat
  BY PluginsAssumption
<1>2. open \in Open /\ open.made > 0 /\ open' = [open EXCEPT !.made = open.made - 1]
  BY DEF TypeOK, Finished
<1>3. open.made - 1 \in 0..MaxChecks
  BY <1>1, <1>2 DEF Open
<1>4. QED
  BY <1>2, <1>3 DEF Open

\* A set timer that fires again in time.
LEMMA TimerType ==
  /\ NoTimers \in Timers
  /\ \A t \in Timers : /\ [t EXCEPT !.check = Interval] \in Timers
                       /\ [t EXCEPT !.check = Unset] \in Timers
                       /\ [t EXCEPT !.period = Period] \in Timers
                       /\ t.check \in {Unset} \cup 0..Interval
                       /\ t.period \in {Unset} \cup 0..Period
BY DEF Timers, NoTimers, Unset

LEMMA NoChecksType == NoChecks \in Open /\ NoChecks.made = 0
BY DEF NoChecks, Open

LEMMA RestartedType ==
  ASSUME TypeOK, Restarted, spent' \in [turns: 0..MaxTurns, troubles: 0..MaxTroubles]
  PROVE  TypeOK'
<1>1. /\ UNCHANGED <<type, bodyMatch, target, missed, astray>> /\ Silent
      /\ state' \in {"new", "off"} /\ count' = 0 /\ timer' = NoTimers
      /\ open' = NoChecks /\ child' = "none" /\ zone' = <<>>
  BY DEF Restarted, config, flags
<1>2. timer' \in Timers /\ zone' \in Seq(BOOLEAN) /\ count' \in 0..(Threshold + 2)
      /\ open' \in Open
  BY <1>1, TimerType, NoChecksType
<1>3. QED
  BY <1>1, <1>2, EventType DEF TypeOK

-----------------------------------------------------------------------------
(* Types *)

LEMMA StartType == ASSUME TypeOK, Start PROVE TypeOK'
<1>1. /\ UNCHANGED <<type, bodyMatch, target, count, zone, astray, spent>>
      /\ state' = "on" /\ missed' = FALSE /\ Begun
  BY DEF Start, config
<1>2. timer \in Timers /\ open \in Open
  BY DEF TypeOK
<1>3. type \in Counting \cup {"disk-usage", "machine-up"}
  BY DEF TypeOK
<1>4. timer' \in Timers
  <2>1. \/ timer' = [check |-> Interval, period |-> Period]
        \/ timer' = [timer EXCEPT !.check = Interval]
        \/ timer' = [timer EXCEPT !.period = Period]
        \/ timer' = timer
    BY <1>1, <1>3 DEF Begun, Counting
  <2>2. [check |-> Interval, period |-> Period] \in Timers
    BY DEF Timers
  <2>3. QED
    BY <1>2, <2>1, <2>2, TimerType
<1>5. open' \in Open
  <2>1. open' = [open EXCEPT !.made = 1] \/ open' = open
    BY <1>1, <1>3 DEF Begun, Counting
  <2>2. QED
    BY <1>2, <2>1 DEF Open
<1>6. child' \in {"none", "svcs", "tail", "starting", "watching", "dead"}
      /\ (Silent \/ Emit("fault") \/ Emit("clear"))
  BY <1>1, <1>3 DEF Begun, Counting, TypeOK
<1>7. QED
  BY <1>1, <1>4, <1>5, <1>6, EventType DEF TypeOK

LEMMA StopType == ASSUME TypeOK, Stop PROVE TypeOK'
<1>1. /\ UNCHANGED <<type, bodyMatch, target, count, missed, spent>>
      /\ state' = "off" /\ timer' = NoTimers /\ zone' = <<>> /\ Silent
      /\ open' = (IF type = "log-scan" THEN NoChecks ELSE open)
      /\ child' \in {"svcs", "none"}
      /\ astray' \in BOOLEAN
  BY DEF Stop, config
<1>2. timer' \in Timers /\ zone' \in Seq(BOOLEAN)
  BY <1>1, TimerType
<1>3. open' \in Open
  BY <1>1, NoChecksType DEF TypeOK
<1>4. QED
  BY <1>1, <1>2, <1>3, EventType DEF TypeOK

LEMMA ExitType ==
  ASSUME TypeOK, Exit \/ AnswerThrows \/ LateAnswerThrows PROVE TypeOK'
<1>1. Restarted /\ (Trouble \/ spent' = spent)
  BY DEF Exit, AnswerThrows, LateAnswerThrows
<1>2. spent' \in [turns: 0..MaxTurns, troubles: 0..MaxTroubles]
  BY <1>1, TroubleType DEF TypeOK
<1>3. QED
  BY <1>1, <1>2, RestartedType

LEMMA TimersType == ASSUME TypeOK, Tick \/ ResetCounter \/ Check PROVE TypeOK'
<1>1. /\ UNCHANGED <<type, bodyMatch, state, target, zone, missed, astray, spent>> /\ Silent
      /\ count' = count \/ count' = 0
  BY DEF Tick, ResetCounter, Check, config, flags
<1>2. timer \in Timers /\ open \in Open
  BY DEF TypeOK
<1>3. timer' \in Timers
  <2>1. CASE Tick
    <3>1. timer' = [check |-> Less(timer.check), period |-> Less(timer.period)]
          /\ timer.check # 0 /\ timer.period # 0
      BY <2>1 DEF Tick
    <3>2. Less(timer.check) \in {Unset} \cup 0..Interval
          /\ Less(timer.period) \in {Unset} \cup 0..Period
      <4>1. timer.check \in {Unset} \cup 0..Interval /\ timer.period \in {Unset} \cup 0..Period
        BY <1>2, TimerType
      <4>2. QED
        BY <3>1, <4>1 DEF Less, Unset
    <3>3. QED
      BY <3>1, <3>2 DEF Timers
  <2>2. CASE ResetCounter
    BY <1>2, <2>2, TimerType DEF ResetCounter
  <2>3. CASE Check
    BY <1>2, <2>3, TimerType DEF Check
  <2>4. QED
    BY <2>1, <2>2, <2>3
<1>4. open' \in Open
  BY <1>2 DEF Tick, ResetCounter, Check, Open
<1>5. child' \in {child, "svcs"}
  BY DEF Tick, ResetCounter, Check
<1>6. count' \in 0..(Threshold + 2)
  BY <1>1 DEF TypeOK
<1>7. QED
  BY <1>1, <1>3, <1>4, <1>5, <1>6, EventType DEF TypeOK

\* The end of a check, a chunk or an answer: the count and what is open change.
LEMMA CheckEndsType ==
  ASSUME TypeOK, UNCHANGED <<type, bodyMatch, state, target, child, zone, missed, astray>>,
         timer' \in Timers, spent' = spent \/ Trouble,
         open' \in Open,
         count' \in 0..(Threshold + 2), event' \in Kinds, told' \in Kinds
  PROVE  TypeOK'
<1>1. spent' \in [turns: 0..MaxTurns, troubles: 0..MaxTroubles]
  BY TroubleType DEF TypeOK
<1>2. QED
  BY <1>1 DEF TypeOK

LEMMA ChecksType ==
  ASSUME TypeOK, PingEnds \/ AnswerEnds \/ CmdEnds \/ DfEnds \/ RequestTimesOut \/ DfFails
                 \/ LateAnswer \/ ChunkMatches
  PROVE  TypeOK'
<1>1. timer \in Timers /\ open \in Open /\ count \in 0..(Threshold + 2)
  BY DEF TypeOK
<1>2. CASE PingEnds \/ AnswerEnds \/ ChunkMatches
  <2>1. /\ UNCHANGED <<type, bodyMatch, state, target, timer, child, zone, missed, astray, spent>>
        /\ Finished /\ (Passed \/ Failed)
    BY <1>2 DEF PingEnds, AnswerEnds, ChunkMatches, config, flags
  <2>2. QED
    BY <1>1, <2>1, FinishedType, PassedType, FailedType, CheckEndsType
<1>3. CASE CmdEnds
  <2>1. /\ UNCHANGED <<type, bodyMatch, state, target, child, zone, missed, astray, spent>>
        /\ Finished /\ (Passed \/ Failed) /\ timer' \in Timers
    BY <1>1, <1>3, TimerType DEF CmdEnds, config, flags
  <2>2. QED
    BY <2>1, FinishedType, PassedType, FailedType, CheckEndsType
<1>4. CASE DfEnds
  <2>1. /\ UNCHANGED <<type, bodyMatch, state, target, count, timer, child, zone, missed, astray, spent>>
        /\ Finished /\ (Emit("fault") \/ Emit("clear"))
    BY <1>4 DEF DfEnds, config, flags
  <2>2. QED
    BY <1>1, <2>1, FinishedType, EventType, CheckEndsType
<1>5. CASE DfFails
  <2>1. /\ UNCHANGED <<type, bodyMatch, state, target, timer, child, zone, missed, astray>>
        /\ Finished /\ Passed /\ Trouble
    BY <1>5 DEF DfFails, config, flags
  <2>2. QED
    BY <1>1, <2>1, FinishedType, PassedType, CheckEndsType
<1>6. CASE RequestTimesOut \/ LateAnswer
  <2>1. /\ UNCHANGED <<type, bodyMatch, state, target, timer, child, zone, missed, astray, spent>>
        /\ Failed
    BY <1>6 DEF RequestTimesOut, LateAnswer, config, flags
  <2>2. open' \in Open
    BY <1>1, <1>6 DEF RequestTimesOut, LateAnswer, Open
  <2>3. QED
    BY <1>1, <2>1, <2>2, FailedType, CheckEndsType
<1>7. QED
  BY <1>2, <1>3, <1>4, <1>5, <1>6

\* What a child is found to do, and the target.
LEMMA ChildrenType ==
  ASSUME TypeOK, GotPaths \/ PathsFail \/ TailExits \/ Listening \/ HandleZoneEvent
                 \/ WatcherExits \/ Turn
  PROVE  TypeOK'
<1>1. /\ timer \in Timers /\ open \in Open /\ zone \in Seq(BOOLEAN)
      /\ count \in 0..(Threshold + 2)
  BY DEF TypeOK
<1>2. CASE GotPaths \/ PathsFail \/ TailExits \/ Listening \/ WatcherExits
  <2>1. /\ UNCHANGED <<type, bodyMatch, state, target, zone, missed, astray>> /\ Passed
        /\ spent' = spent \/ Trouble
        /\ child' \in {"none", "tail", "dead", "watching"}
        /\ open' = open \/ open' = NoChecks
    BY <1>2 DEF GotPaths, PathsFail, TailExits, Listening, WatcherExits, config, flags
  <2>2. timer' \in Timers
    BY <1>1, <1>2, TimerType DEF GotPaths, PathsFail, TailExits, Listening, WatcherExits
  <2>3. spent' \in [turns: 0..MaxTurns, troubles: 0..MaxTroubles]
    BY <2>1, TroubleType DEF TypeOK
  <2>4. open' \in Open
    BY <1>1, <2>1, NoChecksType
  <2>5. QED
    BY <2>1, <2>2, <2>3, <2>4, PassedType DEF TypeOK
<1>3. CASE HandleZoneEvent
  <2>1. /\ UNCHANGED <<type, bodyMatch, state, target, count, timer, open, child, missed, astray, spent>>
        /\ zone # <<>> /\ zone' = Tail(zone) /\ (Emit("fault") \/ Emit("clear"))
    BY <1>3 DEF HandleZoneEvent, config, flags
  <2>2. zone' \in Seq(BOOLEAN)
    BY <1>1, <2>1
  <2>3. QED
    BY <2>1, <2>2, EventType DEF TypeOK
<1>4. CASE Turn
  <2>1. /\ UNCHANGED <<type, bodyMatch, state, timer, open, child, astray>> /\ Passed
        /\ missed' \in BOOLEAN
        /\ target' \in Targets
        /\ zone' = zone \/ \E ok \in BOOLEAN : zone' = Append(zone, ok)
    BY <1>4 DEF Turn, TargetsOf, Targets, config
  <2>2. zone' \in Seq(BOOLEAN)
    BY <1>1, <2>1
  <2>3. spent' \in [turns: 0..MaxTurns, troubles: 0..MaxTroubles]
    <3>1. spent \in [turns: 0..MaxTurns, troubles: 0..MaxTroubles]
      BY DEF TypeOK
    <3>2. QED
      BY <1>4, <3>1 DEF Turn
  <2>4. QED
    BY <2>1, <2>2, <2>3, PassedType DEF TypeOK
<1>5. QED
  BY <1>2, <1>3, <1>4

-----------------------------------------------------------------------------
(* A probe that was stopped *)

StopStep ==
  state = "off" /\ ~astray =>
    /\ open'.made <= open.made /\ open'.made + open'.late <= open.made + open.late
    /\ event' # "none" => open # NoChecks

\* A step of a probe that was not stopped, or was stopped in between.
LEMMA NotStopped ==
  ASSUME ~(state = "off" /\ ~astray), state' = state, astray' = astray
  PROVE  Quiet' /\ StopStep
BY DEF Quiet, StopStep

LEMMA StartStopExitQuiet ==
  ASSUME PluginsInv, Start \/ Stop \/ Exit \/ AnswerThrows \/ LateAnswerThrows
  PROVE  Quiet' /\ StopStep
<1>1. open \in Open
  BY DEF PluginsInv, TypeOK
<1>2. CASE Start
  BY <1>2 DEF Start, Quiet, StopStep
<1>3. CASE Stop
  <2>1. state = "on" /\ StopStep
    BY <1>3 DEF Stop, StopStep
  <2>2. ASSUME ~astray' PROVE /\ timer' = NoTimers /\ child' = "none" /\ zone' = <<>>
                              /\ type' \in {"cmd", "log-scan"} => open'.made = 0
    <3>1. child # "svcs" /\ ~(type = "cmd" /\ open.made > 0)
      BY <1>3, <2>2 DEF Stop
    <3>2. QED
      BY <1>1, <1>3, <3>1, NoChecksType DEF Stop, Open, config
  <2>3. QED
    BY <2>1, <2>2 DEF Quiet
<1>4. CASE Exit \/ AnswerThrows \/ LateAnswerThrows
  <2>1. timer' = NoTimers /\ child' = "none" /\ zone' = <<>> /\ open' = NoChecks /\ event' = "none"
    BY <1>4 DEF Exit, AnswerThrows, LateAnswerThrows, Restarted, Silent
  <2>2. open'.made = 0 /\ open'.late = 0
    BY <2>1 DEF NoChecks
  <2>3. QED
    BY <1>1, <2>1, <2>2 DEF Quiet, StopStep, Open
<1>5. QED
  BY <1>2, <1>3, <1>4

\* No timer is due and no child has anything to say.
LEMMA NothingDue ==
  ASSUME PluginsInv, state = "off", ~astray
  PROVE  ~(Tick \/ ResetCounter \/ Check \/ CmdEnds \/ GotPaths \/ PathsFail \/ ChunkMatches
           \/ TailExits \/ Listening \/ HandleZoneEvent \/ WatcherExits)
<1>1. /\ timer.check = Unset /\ timer.period = Unset /\ child = "none" /\ zone = <<>>
      /\ type \in {"cmd", "log-scan"} => open.made = 0
  BY DEF PluginsInv, Quiet, NoTimers
<1>2. ~(Tick \/ ResetCounter \/ Check)
  BY <1>1 DEF Tick, ResetCounter, Check, Unset
<1>3. ~CmdEnds
  BY <1>1 DEF CmdEnds, Finished
<1>4. ~(GotPaths \/ PathsFail \/ ChunkMatches \/ TailExits \/ Listening \/ WatcherExits)
  BY <1>1 DEF GotPaths, PathsFail, ChunkMatches, TailExits, Listening, WatcherExits
<1>5. ~HandleZoneEvent
  BY <1>1 DEF HandleZoneEvent
<1>6. QED
  BY <1>2, <1>3, <1>4, <1>5

\* A ping, a df or a request that was under way ends, or the target changes.
LEMMA EndsQuiet ==
  ASSUME PluginsInv, state = "off", ~astray,
         PingEnds \/ AnswerEnds \/ DfEnds \/ DfFails \/ RequestTimesOut \/ LateAnswer \/ Turn
  PROVE  Quiet' /\ StopStep
<1>1. open \in Open
  BY DEF PluginsInv, TypeOK
<1>2. CASE PingEnds \/ AnswerEnds \/ DfEnds \/ DfFails
  <2>1. /\ UNCHANGED <<type, bodyMatch, state, timer, child, zone, astray>>
        /\ Finished
    BY <1>2 DEF PingEnds, AnswerEnds, DfEnds, DfFails, config, flags
  <2>2. /\ open'.made = open.made - 1 /\ open'.late = open.late /\ open.made > 0
        /\ open # NoChecks
    BY <2>1, FinishedType, NoChecksType DEF PluginsInv
  <2>3. type \notin {"cmd", "log-scan"}
    BY <1>2 DEF PingEnds, AnswerEnds, DfEnds, DfFails
  <2>4. QED
    BY <1>1, <2>1, <2>2, <2>3 DEF PluginsInv, Quiet, StopStep, Open
<1>3. CASE RequestTimesOut \/ LateAnswer
  <2>1. /\ UNCHANGED <<type, bodyMatch, state, timer, child, zone, astray>> /\ type = "http"
    BY <1>3 DEF RequestTimesOut, LateAnswer, config, flags
  <2>2. /\ open'.made <= open.made /\ open'.made + open'.late <= open.made + open.late
        /\ open.made + open.late > 0
    BY <1>1, <1>3 DEF RequestTimesOut, LateAnswer, Open
  <2>3. open # NoChecks
    BY <2>2 DEF NoChecks
  <2>4. QED
    BY <2>1, <2>2, <2>3 DEF PluginsInv, Quiet, StopStep
<1>4. CASE Turn
  <2>1. UNCHANGED <<type, bodyMatch, state, timer, open, child, astray>> /\ event' = "none"
    BY <1>4 DEF Turn, config, Passed, Silent
  <2>2. zone' = zone
    BY <1>4 DEF PluginsInv, Quiet, Turn
  <2>3. QED
    BY <1>1, <2>1, <2>2 DEF PluginsInv, Quiet, StopStep, Open
<1>5. QED
  BY <1>2, <1>3, <1>4

-----------------------------------------------------------------------------
(* The theorems *)

LEMMA InitPlugins == Init => PluginsInv
<1>1. SUFFICES ASSUME Init PROVE PluginsInv
  OBVIOUS
<1>2. /\ timer \in Timers /\ zone \in Seq(BOOLEAN) /\ count \in 0..(Threshold + 2)
      /\ open \in Open
  BY <1>1, TimerType, NoChecksType DEF Init
<1>3. event \in Kinds /\ told \in Kinds
  BY <1>1 DEF Init, Kinds
<1>4. spent \in [turns: 0..MaxTurns, troubles: 0..MaxTroubles]
  BY <1>1 DEF Init
<1>5. bodyMatch \in Senses /\ target \in Targets
  BY <1>1 DEF Init, Senses, TargetsOf
<1>6. TypeOK /\ Quiet
  BY <1>1, <1>2, <1>3, <1>4, <1>5 DEF Init, TypeOK, Quiet
<1>7. QED
  BY <1>6 DEF PluginsInv

LEMMA NextKeepsType == ASSUME TypeOK, Next PROVE TypeOK'
BY StartType, StopType, ExitType, TimersType, ChecksType, ChildrenType DEF Next, CheckEnds

LEMMA NextKeepsQuiet == ASSUME PluginsInv, Next PROVE Quiet' /\ StopStep
<1> DEFINE Ends == PingEnds \/ AnswerEnds \/ CmdEnds \/ DfEnds \/ RequestTimesOut
           Begins == Start \/ Stop \/ Exit \/ AnswerThrows \/ LateAnswerThrows
<1>1. CASE Begins
  BY <1>1, StartStopExitQuiet
<1>2. CASE ~Begins
  <2>1. state' = state /\ astray' = astray
    <3>1. CASE Tick \/ ResetCounter \/ Check \/ Ends \/ DfFails \/ LateAnswer
      BY <3>1 DEF Tick, ResetCounter, Check, PingEnds, AnswerEnds, CmdEnds, DfEnds,
                  RequestTimesOut, DfFails, LateAnswer, config, flags
    <3>2. CASE GotPaths \/ PathsFail \/ ChunkMatches \/ TailExits \/ Listening
               \/ HandleZoneEvent \/ WatcherExits \/ Turn
      BY <3>2 DEF GotPaths, PathsFail, ChunkMatches, TailExits, Listening, HandleZoneEvent,
                  WatcherExits, Turn, config, flags
    <3>3. QED
      BY <1>2, <3>1, <3>2 DEF Next, CheckEnds
  <2>2. CASE state = "off" /\ ~astray
    BY <1>2, <2>2, NothingDue, EndsQuiet DEF Next, CheckEnds
  <2>3. CASE ~(state = "off" /\ ~astray)
    BY <2>1, <2>3, NotStopped
  <2>4. QED
    BY <2>2, <2>3
<1>3. QED
  BY <1>1, <1>2

LEMMA StepKeepsPlugins == PluginsInv /\ [Next]_vars => PluginsInv' /\ [StopStep]_vars
<1>1. SUFFICES ASSUME PluginsInv, [Next]_vars PROVE PluginsInv' /\ [StopStep]_vars
  OBVIOUS
<1>2. CASE Next
  BY <1>1, <1>2, NextKeepsType, NextKeepsQuiet DEF PluginsInv
<1>3. CASE UNCHANGED vars
  BY <1>1, <1>3 DEF vars, PluginsInv, TypeOK, Quiet
<1>4. QED
  BY <1>1, <1>2, <1>3

\* After stop (plugins/lib) a probe begins no check, and tells of nothing but what a
\* ping, df or request that was under way finds; a cmd or log-scan is the exception
\* when stop comes between two of its callbacks.
THEOREM StoppedIsStopped == Spec => StopIsFinal
<1>1. PluginsInv /\ [Next]_vars => [StopStep]_vars
  BY StepKeepsPlugins
<1>2. Spec => [][StopStep]_vars
  BY <1>1, InitPlugins, StepKeepsPlugins, PTL DEF Spec
<1>3. QED
  BY <1>2 DEF StopIsFinal, StopStep

\* The variables of a probe instance keep their types: its count stays in bounds.
THEOREM TypeCorrect == Spec => []TypeOK
<1>1. PluginsInv => TypeOK
  BY DEF PluginsInv
<1>2. QED
  BY <1>1, InitPlugins, StepKeepsPlugins, PTL DEF Spec
=============================================================================
