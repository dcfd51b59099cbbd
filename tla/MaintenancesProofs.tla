-------------------------- MODULE MaintenancesProofs --------------------------
(***************************************************************************)
(* What TLAPS proves about Maintenances: the types, ids that are used once, *)
(* windows that last until their end, a next end that stays watched, and a *)
(* check that misses no window.                                          *)
(***************************************************************************)
EXTENDS Maintenances, TLAPS

USE MaintenancesAssumption

-----------------------------------------------------------------------------
(* The queue *)

\* The queue after the oldest command was answered and `cmds` were sent.
LEMMA ThenQueue ==
  ASSUME queue \in Seq(Command), queue # <<>>,
         NEW cmds \in Seq(Command), Then(cmds)
  PROVE  /\ queue' \in Seq(Command)
         /\ \A i \in DOMAIN queue' :
              \/ i + 1 \in DOMAIN queue /\ queue'[i] = queue[i + 1]
              \/ \E j \in DOMAIN cmds : /\ i = Len(queue) - 1 + j
                                        /\ queue'[i] = cmds[j]
  BY DEF Then

\* The queue after `cmds` were sent.
LEMMA SendQueue ==
  ASSUME queue \in Seq(Command), NEW cmds \in Seq(Command), Send(cmds)
  PROVE  /\ queue' \in Seq(Command)
         /\ \A i \in DOMAIN queue' :
              \/ i \in DOMAIN queue /\ queue'[i] = queue[i]
              \/ \E j \in DOMAIN cmds : /\ i = Len(queue) + j
                                        /\ queue'[i] = cmds[j]
  BY DEF Send

\* What a sequence of commands was given still holds after a step that keeps the
\* calls, if it holds of what the step sends.
LEMMA ArgumentsKeep ==
  ASSUME TypeOK, NEW cmds \in Seq(Command),
         (queue # <<>> /\ Then(cmds)) \/ Send(cmds),
         \A c \in Calls : call[c].pc # "idle" =>
           call'[c].pc # "idle" /\ call'[c].window = call[c].window,
         \A j \in DOMAIN cmds : ArgumentsOf(cmds[j])'
  PROVE  /\ queue' \in Seq(Command)
         /\ \A i \in DOMAIN queue' : ArgumentsOf(queue[i])'
<1>1. queue' \in Seq(Command)
  BY ThenQueue, SendQueue DEF TypeOK
<1>2. ASSUME NEW i \in DOMAIN queue' PROVE ArgumentsOf(queue[i])'
  <2>1. \/ \E k \in DOMAIN queue : queue'[i] = queue[k]
        \/ \E j \in DOMAIN cmds : queue'[i] = cmds[j]
    <3>1. queue \in Seq(Command)
      BY DEF TypeOK
    <3>2. CASE queue # <<>> /\ Then(cmds)
      <4>1. \A k \in DOMAIN queue' :
              \/ k + 1 \in DOMAIN queue /\ queue'[k] = queue[k + 1]
              \/ \E j \in DOMAIN cmds : queue'[k] = cmds[j]
        BY <3>1, <3>2, ThenQueue
      <4>2. QED
        BY <4>1
    <3>3. CASE Send(cmds)
      BY <3>1, <3>3, SendQueue
    <3>4. QED
      BY <3>2, <3>3
  <2>2. ASSUME NEW k \in DOMAIN queue, queue'[i] = queue[k]
        PROVE  ArgumentsOf(queue[i])'
    <3>1. queue[k] \in Command /\ ArgumentsOf(queue[k])
      BY DEF TypeOK, ArgumentsSet
    <3>2. QED
      BY <2>2, <3>1 DEF ArgumentsOf, Command
  <2>3. ASSUME NEW j \in DOMAIN cmds, queue'[i] = cmds[j]
        PROVE  ArgumentsOf(queue[i])'
    BY <2>3 DEF ArgumentsOf
  <2>4. QED
    BY <2>1, <2>2, <2>3
<1>3. QED
  BY <1>1, <1>2

\* What redis runs keeps the types.
LEMMA RunType ==
  ASSUME TypeOK, queue # <<>>, Run, Runs /\ Cmd.op = "incr" => counter < MaxWindows
  PROVE  counter' \in 0..MaxWindows /\ windows' \in [Id -> Windows \cup {None}]
<1>1. Cmd \in Command /\ ArgumentsOf(Cmd)
  <2>1. 1 \in DOMAIN queue /\ Cmd = queue[1]
    BY DEF TypeOK, Cmd
  <2>2. QED
    BY <2>1 DEF TypeOK, ArgumentsSet
<1>2. counter' \in 0..MaxWindows
  BY DEF TypeOK, Run
<1>3. Cmd.op = "store" => call[Cmd.by].window \in Windows
  BY <1>1 DEF ArgumentsOf
<1>4. windows' \in [Id -> Windows \cup {None}]
  BY <1>1, <1>3 DEF TypeOK, Run, Command
<1>5. QED
  BY <1>2, <1>4

TimersFit(ts) == /\ ts \in [Slot -> Timer]
                 /\ \A s \in Slot : ts[s].kind = "expire" => ts[s].id \in Id

\* setTimeout keeps the types.
LEMMA ArmType ==
  ASSUME NEW ts, TimersFit(ts), NEW s \in Slot, NEW kind \in {"expire", "retry"},
         NEW at \in Nat, NEW id \in Id \cup {NoId}, kind = "expire" => id \in Id,
         Arm(ts, s, kind, at, id)
  PROVE  TimersFit(timers')
  BY DEF TimersFit, Arm, Timer

LEMMA RescheduleType ==
  ASSUME NEW ts, TimersFit(ts), now \in Nat, RescheduleLater(ts)
  PROVE  TimersFit(timers')
<1>1. PICK s \in Slot : Arm(ts, s, "retry", now + RetryWait, NoId)
  BY DEF RescheduleLater
<1>2. now + RetryWait \in Nat
  OBVIOUS
<1>3. QED
  BY <1>1, <1>2, ArmType

\* Clearing the timeout keeps the types.
LEMMA ClearType ==
  ASSUME TypeOK, ClearTimeout
  PROVE  TimersFit(timers') /\ tracked' \in Slot \cup {NoSlot}
  BY DEF TypeOK, ArgumentsSet, TimersFit, ClearTimeout, Timer, Off

\* The oldest command is well-formed.
LEMMA CmdType == ASSUME TypeOK, queue # <<>> PROVE Cmd \in Command /\ ArgumentsOf(Cmd)
<1>1. 1 \in DOMAIN queue /\ Cmd = queue[1]
  BY DEF TypeOK, Cmd
<1>2. QED
  BY <1>1 DEF TypeOK, ArgumentsSet

\* What scheduleNextMaintenanceExpiry sends is well-formed.
LEMMA NextEndType ==
  ASSUME NEW n \in Nat
  PROVE  /\ NextEndQueries(n) \in Seq(Command)
         /\ \A j \in DOMAIN NextEndQueries(n) :
              NextEndQueries(n)[j] = Sent("head", Reaper, NoId)
<1>1. Sent("head", Reaper, NoId) \in Command
  BY DEF Sent, Command
<1>2. QED
  BY <1>1 DEF NextEndQueries

LEMMA HeadsFit ==
  ASSUME NEW cmds \in Seq(Command),
         \A j \in DOMAIN cmds : cmds[j] = Sent("head", Reaper, NoId)
  PROVE  \A j \in DOMAIN cmds : ArgumentsOf(cmds[j])'
  BY DEF Sent, ArgumentsOf, MaintenancesAssumption

-----------------------------------------------------------------------------
(* The steps of a call *)

CallsKeep == \A c \in Calls : call[c].pc # "idle" =>
               call'[c].pc # "idle" /\ call'[c].window = call[c].window

LEMMA AskType ==
  ASSUME NEW k \in {"create", "get", "delete", "listAll", "check"},
         NEW id \in Id \cup {NoId}, NEW w \in Windows \cup {None},
         NEW e \in Events \cup {None}
  PROVE  /\ Ask(k, id, w, e) \in Call
         /\ Ask(k, id, w, e).kind = k /\ Ask(k, id, w, e).id = id
         /\ Ask(k, id, w, e).window = w
  BY DEF Ask, Call

LEMMA AskedType ==
  ASSUME NEW q \in Asked
  PROVE  /\ q \in Call
         /\ q.kind = "create" => q.window \in Windows
         /\ q.kind \in {"get", "delete"} => q.id \in Id
<1>1. CASE \E w \in Windows : q = Ask("create", NoId, w, None)
  BY <1>1, AskType
<1>2. CASE \E k \in {"get", "delete"}, id \in Id : q = Ask(k, id, None, None)
  BY <1>2, AskType
<1>3. CASE q = Ask("listAll", NoId, None, None)
  BY <1>3, AskType
<1>4. CASE \E e \in Events : q = Ask("check", NoId, None, e)
  BY <1>4, AskType
<1>5. QED
  BY <1>1, <1>2, <1>3, <1>4 DEF Asked

LEMMA BeginType == ASSUME TypeOK, NEW c \in Calls, Begin(c) PROVE TypeOK'
<1>1. PICK q \in Asked :
        IF redis = "up"
        THEN /\ call' = [call EXCEPT ![c] = [q EXCEPT !.pc = "busy", !.before = Stored]]
             /\ Send(<<Sent(FirstCommand(q.kind), c, q.id)>>)
        ELSE /\ call' = [call EXCEPT ![c] = [q EXCEPT !.pc = "done", !.status = 500]]
             /\ UNCHANGED queue
  BY DEF Begin
<1>2. /\ q \in Call
      /\ q.kind = "create" => q.window \in Windows
      /\ q.kind \in {"get", "delete"} => q.id \in Id
  BY AskedType
<1>3. call' \in [Calls -> Call] /\ CallsKeep
  <2>1. PICK r : r = IF redis = "up" THEN [q EXCEPT !.pc = "busy", !.before = Stored]
                     ELSE [q EXCEPT !.pc = "done", !.status = 500]
    OBVIOUS
  <2>2. Stored \in SUBSET Id
    BY DEF Stored
  <2>3. r \in Call
    <3> DEFINE busy == [q EXCEPT !.pc = "busy"]
               done == [q EXCEPT !.pc = "done"]
    <3>1. busy \in Call /\ done \in Call
      BY <1>2 DEF Call
    <3>2. r = IF redis = "up" THEN [busy EXCEPT !.before = Stored]
              ELSE [done EXCEPT !.status = 500]
      BY <2>1
    <3> HIDE DEF busy, done
    <3>3. QED
      BY <2>2, <3>1, <3>2 DEF Call
  <2>4. call' = [call EXCEPT ![c] = r]
    BY <1>1, <2>1
  <2>5. QED
    BY <2>3, <2>4 DEF TypeOK, Begin, CallsKeep
<1>4. /\ queue' \in Seq(Command)
      /\ \A i \in DOMAIN queue' : ArgumentsOf(queue[i])'
  <2>1. CASE redis = "up"
    <3>1. PICK cmd : cmd = Sent(FirstCommand(q.kind), c, q.id)
      OBVIOUS
    <3>2. FirstCommand(q.kind) = IF q.kind = "create" THEN "incr"
                                 ELSE IF q.kind \in {"get", "delete"} THEN "get"
                                 ELSE "list"
      BY <1>2 DEF FirstCommand, Call
    <3>3. q.id \in Id \cup {NoId}
      BY <1>2 DEF Call
    <3>4. cmd \in Command
      BY <3>1, <3>2, <3>3 DEF Sent, Command
    <3>5. PICK cmds : cmds = <<cmd>>
      OBVIOUS
    <3>6. cmds \in Seq(Command)
      BY <3>4, <3>5
    <3>7. call'[c].window = q.window /\ call'[c].pc = "busy"
      <4> DEFINE r == [q EXCEPT !.pc = "busy", !.before = Stored]
      <4>1. r.window = q.window /\ r.pc = "busy"
        BY <1>2 DEF Call
      <4>2. call' = [call EXCEPT ![c] = r]
        BY <1>1, <2>1
      <4> HIDE DEF r
      <4>3. QED
        BY <4>1, <4>2 DEF TypeOK
    <3>8. c # Reaper
      BY DEF MaintenancesAssumption
    <3>9. ArgumentsOf(cmd)'
      BY <1>2, <3>1, <3>2, <3>7, <3>8 DEF Sent, ArgumentsOf
    <3>10. \A j \in DOMAIN cmds : ArgumentsOf(cmds[j])'
      BY <3>5, <3>9
    <3>11. Send(cmds)
      BY <1>1, <2>1, <3>1, <3>5
    <3>12. QED
      BY <1>3, <3>6, <3>10, <3>11, ArgumentsKeep DEF CallsKeep
  <2>2. CASE redis # "up"
    <3>1. queue' = queue
      BY <1>1, <2>2
    <3>2. \A i \in DOMAIN queue : queue[i] \in Command /\ ArgumentsOf(queue[i])
      BY DEF TypeOK, ArgumentsSet
    <3>3. QED
      BY <1>3, <3>1, <3>2 DEF TypeOK, ArgumentsOf, CallsKeep, Command
  <2>3. QED
    BY <2>1, <2>2
<1>5. QED
  BY <1>3, <1>4 DEF TypeOK, Begin, ArgumentsSet

\* A handler that goes on or ends keeps the calls well-formed.
LEMMA CallUpdate ==
  ASSUME TypeOK, NEW c \in Calls, NEW r \in Call, r.pc # "idle",
         r.window = call[c].window, call' = [call EXCEPT ![c] = r]
  PROVE  call' \in [Calls -> Call] /\ CallsKeep
  BY DEF TypeOK, CallsKeep

Statuses == {0, 200, 204, 404, 410, 500}

LEMMA DoneType ==
  ASSUME NEW old \in Call, NEW status \in Statuses
  PROVE  \E new \in Call : /\ new = [old EXCEPT !.pc = "done", !.status = status]
                           /\ new.pc = "done" /\ new.window = old.window
                           /\ new.kind = old.kind /\ new.id = old.id
<1> DEFINE done == [old EXCEPT !.pc = "done"]
           new == [done EXCEPT !.status = status]
<1>1. /\ done \in Call /\ done.pc = "done" /\ done.window = old.window
      /\ done.kind = old.kind /\ done.id = old.id
  BY DEF Call
<1>2. /\ new \in Call /\ new.pc = "done" /\ new.window = old.window
      /\ new.kind = old.kind /\ new.id = old.id
  <2> HIDE DEF done
  <2>1. QED
    BY <1>1 DEF Call, Statuses
<1>3. new = [old EXCEPT !.pc = "done", !.status = status]
  OBVIOUS
<1> HIDE DEF new
<1>4. QED
  BY <1>2, <1>3

LEMMA FinishType ==
  ASSUME TypeOK, NEW c \in Calls, NEW status \in Statuses,
         Finish(c, status)
  PROVE  call' \in [Calls -> Call] /\ CallsKeep
<1>1. PICK old \in Call : old = call[c]
  BY DEF TypeOK
<1>2. PICK r \in Call : /\ r = [old EXCEPT !.pc = "done", !.status = status]
                        /\ r.pc = "done" /\ r.window = old.window
                        /\ r.kind = old.kind /\ r.id = old.id
  BY DoneType
<1>3. call' = [call EXCEPT ![c] = r]
  BY <1>1, <1>2 DEF Finish
<1>4. QED
  BY <1>1, <1>2, <1>3, CallUpdate

LEMMA OneSent ==
  ASSUME NEW cmd \in Command, ArgumentsOf(cmd)', NEW cmds, cmds = <<cmd>>
  PROVE  cmds \in Seq(Command) /\ \A j \in DOMAIN cmds : ArgumentsOf(cmds[j])'
<1>1. cmds \in Seq(Command) /\ DOMAIN cmds = {1} /\ cmds[1] = cmd
  OBVIOUS
<1>2. QED
  BY <1>1

\* What an answer leaves alone, and the one that sets a timeout.
OnlyEarly == UNCHANGED <<now, redis, started, errors>> /\ early' \subseteq Id

\* An answer keeps the types if what its callback writes does.
LEMMA ReplyType ==
  ASSUME TypeOK, queue # <<>>, Run, Runs /\ Cmd.op = "incr" => counter < MaxWindows,
         UNCHANGED others \/ OnlyEarly, NEW cmds \in Seq(Command), Then(cmds),
         \A j \in DOMAIN cmds : ArgumentsOf(cmds[j])',
         call' \in [Calls -> Call], CallsKeep,
         TimersFit(timers'), tracked' \in Slot \cup {NoSlot}
  PROVE  TypeOK'
<1>1. counter' \in 0..MaxWindows /\ windows' \in [Id -> Windows \cup {None}]
  BY RunType
<1>2. queue' \in Seq(Command) /\ \A i \in DOMAIN queue' : ArgumentsOf(queue[i])'
  BY ArgumentsKeep DEF CallsKeep
<1>3. QED
  BY <1>1, <1>2 DEF TypeOK, ArgumentsSet, TimersFit, others, OnlyEarly

LEMMA TimeoutsKept ==
  ASSUME TypeOK, UNCHANGED timeouts
  PROVE  TimersFit(timers') /\ tracked' \in Slot \cup {NoSlot}
  BY DEF TypeOK, ArgumentsSet, TimersFit, timeouts

LEMMA CallsKept ==
  ASSUME TypeOK, UNCHANGED call
  PROVE  call' \in [Calls -> Call] /\ CallsKeep
  BY DEF TypeOK, CallsKeep

LEMMA NextEndFits ==
  ASSUME NEW n \in Nat, NEW cmds, cmds = NextEndQueries(n)
  PROVE  cmds \in Seq(Command) /\ \A j \in DOMAIN cmds : ArgumentsOf(cmds[j])'
<1>1. cmds \in Seq(Command) /\ \A j \in DOMAIN cmds : cmds[j] = Sent("head", Reaper, NoId)
  BY NextEndType
<1>2. QED
  BY <1>1, HeadsFit

-----------------------------------------------------------------------------
(* The answers to a call *)

\* Nothing follows.
LEMMA NothingType ==
  ASSUME TypeOK, queue # <<>>, Run, Runs /\ Cmd.op = "incr" => counter < MaxWindows,
         UNCHANGED others, UNCHANGED timeouts,
         call' \in [Calls -> Call], CallsKeep, Then(<<>>)
  PROVE  TypeOK'
<1>1. PICK cmds : cmds = << >>
  OBVIOUS
<1>2. cmds \in Seq(Command) /\ \A j \in DOMAIN cmds : ArgumentsOf(cmds[j])'
  <2>1. cmds \in Seq(Command) /\ DOMAIN cmds = {}
    BY <1>1
  <2>2. QED
    BY <2>1
<1>3. TimersFit(timers') /\ tracked' \in Slot \cup {NoSlot}
  BY TimeoutsKept
<1>4. Then(cmds)
  BY <1>1
<1>5. QED
  BY <1>2, <1>3, <1>4, ReplyType

\* A call ends and nothing follows.
LEMMA EndType ==
  ASSUME TypeOK, queue # <<>>, Run, Runs /\ Cmd.op = "incr" => counter < MaxWindows,
         UNCHANGED others, UNCHANGED timeouts, NEW c \in Calls,
         NEW status \in Statuses, Finish(c, status), Then(<<>>)
  PROVE  TypeOK'
<1>1. call' \in [Calls -> Call] /\ CallsKeep
  BY FinishType
<1>2. QED
  BY <1>1, NothingType

LEMMA IncrType == ASSUME TypeOK, IncrReply PROVE TypeOK'
<1>1. queue # <<>> /\ Cmd.op = "incr" /\ Run /\ (Runs => counter < MaxWindows)
  BY DEF IncrReply, Answers
<1>2. PICK c \in Calls : c = Cmd.by
  BY <1>1, CmdType DEF ArgumentsOf
<1>3. call[c].pc # "idle" /\ call[c].window \in Windows /\ call[c] \in Call /\ c # Reaper
  BY <1>1, <1>2, CmdType DEF ArgumentsOf, TypeOK, MaintenancesAssumption
<1>4. CASE Failed
  <2>1. Finish(c, 500) /\ Then(<<>>) /\ UNCHANGED others /\ UNCHANGED timeouts
    BY <1>2, <1>4 DEF IncrReply
  <2>2. QED
    BY <1>1, <2>1, EndType DEF Statuses
<1>5. CASE ~Failed
  <2>1. PICK id : id = counter + 1
    OBVIOUS
  <2>2. id \in Id
    <3>1. Runs
      BY <1>1, <1>5, CmdType DEF Failed, Runs, Command
    <3>2. QED
      BY <1>1, <2>1, <3>1 DEF TypeOK, Id
  <2>3. call' \in [Calls -> Call] /\ CallsKeep
    <3> DEFINE r == [call[c] EXCEPT !.id = id]
    <3>1. r \in Call /\ r.pc = call[c].pc /\ r.window = call[c].window
      BY <1>3, <2>2 DEF Call
    <3>2. call' = [call EXCEPT ![c] = r]
      BY <1>2, <1>5, <2>1 DEF IncrReply, DrawnId
    <3> HIDE DEF r
    <3>3. QED
      BY <1>3, <3>1, <3>2, CallUpdate
  <2>4. PICK cmd : cmd = Sent("store", c, id)
    OBVIOUS
  <2>5. cmd \in Command /\ cmd.op = "store" /\ cmd.by = c /\ cmd.id = id
    BY <2>2, <2>4 DEF Sent, Command
  <2>6. call'[c].pc # "idle" /\ call'[c].window \in Windows
    BY <1>3, <2>3 DEF CallsKeep
  <2>7. ArgumentsOf(cmd)'
    BY <2>2, <2>5, <2>6 DEF ArgumentsOf
  <2>8. PICK cmds : cmds = <<cmd>>
    OBVIOUS
  <2>9. Then(cmds) /\ UNCHANGED others /\ UNCHANGED timeouts
    BY <1>2, <1>5, <2>1, <2>4, <2>8 DEF IncrReply, DrawnId
  <2>10. QED
    BY <1>1, <2>3, <2>5, <2>7, <2>8, <2>9, OneSent, TimeoutsKept, ReplyType
<1>6. QED
  BY <1>4, <1>5

\* The two answers that end a call and have the next end scheduled.
LEMMA EndsType ==
  ASSUME TypeOK, queue # <<>>, Cmd.op \in {"store", "remove"}, Run, Cmd.by \in Calls,
         NEW status \in Statuses, UNCHANGED others,
         IF Failed THEN Finish(Cmd.by, 500) /\ Then(<<>>) /\ UNCHANGED timeouts
         ELSE Finish(Cmd.by, status) /\ Then(NextEndQueries(1)) /\ ClearTimeout
  PROVE  TypeOK'
<1>1. CASE Failed
  BY <1>1, EndType DEF Statuses
<1>2. CASE ~Failed
  <2>1. PICK cmds : cmds = NextEndQueries(1)
    OBVIOUS
  <2>2. cmds \in Seq(Command) /\ \A j \in DOMAIN cmds : ArgumentsOf(cmds[j])'
    BY <2>1, NextEndFits
  <2>3. call' \in [Calls -> Call] /\ CallsKeep
    BY <1>2, FinishType
  <2>4. TimersFit(timers') /\ tracked' \in Slot \cup {NoSlot}
    BY <1>2, ClearType
  <2>5. Then(cmds)
    BY <1>2, <2>1
  <2>6. ~(Runs /\ Cmd.op = "incr")
    OBVIOUS
  <2>7. QED
    BY <2>2, <2>3, <2>4, <2>5, <2>6, ReplyType
<1>3. QED
  BY <1>1, <1>2

LEMMA StoreType == ASSUME TypeOK, StoreReply PROVE TypeOK'
<1>1. Cmd.by \in Calls
  BY CmdType DEF StoreReply, Answers, ArgumentsOf
<1>2. QED
  BY <1>1, EndsType DEF StoreReply, Answers, Statuses

LEMMA RemoveType == ASSUME TypeOK, RemoveReply PROVE TypeOK'
  BY EndsType DEF RemoveReply, Answers, Statuses

\* One command follows, and the call goes on.
LEMMA GoesOnType ==
  ASSUME TypeOK, queue # <<>>, Cmd.op # "incr", Run, UNCHANGED others, UNCHANGED timeouts,
         Cmd.by \in Calls, NEW op \in {"expunge", "remove", "curr", "fetch"},
         NEW id \in Id \cup {NoId}, op = "remove" => id \in Id,
         call' \in [Calls -> Call], CallsKeep,
         Then(<<Sent(op, Cmd.by, id)>>)
  PROVE  TypeOK'
<1>1. PICK c \in Calls : c = Cmd.by
  OBVIOUS
<1>2. call[c].pc # "idle" /\ c # Reaper
  BY <1>1, CmdType DEF ArgumentsOf, MaintenancesAssumption
<1>3. PICK cmd : cmd = Sent(op, c, id)
  OBVIOUS
<1>4. cmd \in Command /\ cmd.op = op /\ cmd.by = c /\ cmd.id = id
  BY <1>3 DEF Sent, Command
<1>5. ArgumentsOf(cmd)'
  BY <1>2, <1>4 DEF ArgumentsOf, CallsKeep
<1>6. PICK cmds : cmds = <<cmd>>
  OBVIOUS
<1>7. Then(cmds)
  BY <1>1, <1>3, <1>6
<1>8. QED
  BY <1>4, <1>5, <1>6, <1>7, OneSent, TimeoutsKept, ReplyType

LEMMA GetType == ASSUME TypeOK, GetReply PROVE TypeOK'
<1>1. /\ queue # <<>> /\ Cmd.op = "get" /\ Run /\ Cmd.by \in Calls /\ Cmd.id \in Id
      /\ UNCHANGED others /\ UNCHANGED timeouts
  BY CmdType DEF GetReply, Answers, ArgumentsOf
<1>2. CASE Failed
  <2>1. Finish(Cmd.by, 500) /\ Then(<<>>)
    BY <1>2 DEF GetReply
  <2>2. QED
    BY <1>1, <2>1, EndType DEF Statuses
<1>3. CASE ~Failed /\ Cmd.id \notin Stored
  BY <1>1, <1>3, CallsKept, GoesOnType DEF GetReply
<1>4. CASE ~Failed /\ Cmd.id \in Stored /\ call[Cmd.by].kind = "get"
  <2>1. Finish(Cmd.by, 200) /\ Then(<<>>)
    BY <1>4 DEF GetReply
  <2>2. QED
    BY <1>1, <2>1, EndType DEF Statuses
<1>5. CASE ~Failed /\ Cmd.id \in Stored /\ call[Cmd.by].kind # "get"
  BY <1>1, <1>5, CallsKept, GoesOnType DEF GetReply
<1>6. QED
  BY <1>2, <1>3, <1>4, <1>5

LEMMA CurrType == ASSUME TypeOK, CurrReply PROVE TypeOK'
<1>1. queue # <<>> /\ Cmd.op = "curr" /\ Run /\ UNCHANGED others /\ UNCHANGED timeouts
  BY DEF CurrReply, Answers
<1>2. Cmd.by \in Calls
  BY <1>1, CmdType DEF ArgumentsOf
<1>3. PICK status : status = IF Failed THEN 500 ELSE IF Cmd.id <= counter THEN 410 ELSE 404
  OBVIOUS
<1>4. status \in Statuses
  BY <1>3 DEF Statuses
<1>5. Finish(Cmd.by, status) /\ Then(<<>>)
  BY <1>3 DEF CurrReply
<1>6. QED
  BY <1>1, <1>2, <1>4, <1>5, EndType

LEMMA ExpungeType == ASSUME TypeOK, ExpungeReply PROVE TypeOK'
<1>1. /\ queue # <<>> /\ Cmd.op = "expunge" /\ Run /\ Cmd.by \in Calls
      /\ UNCHANGED others /\ UNCHANGED timeouts
  BY DEF ExpungeReply, Answers
<1>2. Cmd.id \in Id \cup {NoId} /\ call[Cmd.by] \in Call
  BY <1>1, CmdType DEF Command, TypeOK
<1>3. PICK c \in Calls : c = Cmd.by
  BY <1>1
<1>4. CASE Failed
  <2>1. Finish(Cmd.by, 500) /\ Then(<<>>)
    BY <1>4 DEF ExpungeReply
  <2>2. QED
    BY <1>1, <2>1, EndType DEF Statuses
<1>5. CASE ~Failed /\ call[c].kind = "check"
  <2>1. Finish(Cmd.by, 200) /\ Then(<<>>)
    BY <1>3, <1>5 DEF ExpungeReply
  <2>2. QED
    BY <1>1, <2>1, EndType DEF Statuses
<1>6. CASE ~Failed /\ call[c].kind \in {"get", "delete"}
  <2>1. call' \in [Calls -> Call] /\ CallsKeep
    <3> DEFINE r == [call[c] EXCEPT !.pc = "busy"]
    <3>1. r \in Call /\ r.pc # "idle" /\ r.window = call[c].window
      BY <1>2, <1>3 DEF Call
    <3>2. call' = [call EXCEPT ![c] = r]
      BY <1>3, <1>6 DEF ExpungeReply
    <3> HIDE DEF r
    <3>3. QED
      BY <3>1, <3>2, CallUpdate
  <2>2. Then(<<Sent("curr", Cmd.by, Cmd.id)>>)
    BY <1>3, <1>6 DEF ExpungeReply
  <2>3. QED
    BY <1>1, <1>2, <2>1, <2>2, GoesOnType
<1>7. CASE ~Failed /\ call[c].kind \notin {"get", "delete", "check"}
  <2>1. call' \in [Calls -> Call] /\ CallsKeep
    <3> DEFINE r == [call[c] EXCEPT !.pc = "hung"]
    <3>1. r \in Call /\ r.pc # "idle" /\ r.window = call[c].window
      BY <1>2, <1>3 DEF Call
    <3>2. call' = [call EXCEPT ![c] = r]
      BY <1>3, <1>7 DEF ExpungeReply
    <3> HIDE DEF r
    <3>3. QED
      BY <3>1, <3>2, CallUpdate
  <2>2. Then(<<>>)
    BY <1>3, <1>7 DEF ExpungeReply
  <2>3. QED
    BY <1>1, <2>1, <2>2, NothingType
<1>8. QED
  BY <1>4, <1>5, <1>6, <1>7

LEMMA ListType == ASSUME TypeOK, ListReply PROVE TypeOK'
<1>1. queue # <<>> /\ Cmd.op = "list" /\ Run /\ UNCHANGED others /\ UNCHANGED timeouts
  BY DEF ListReply, Answers
<1>2. PICK c \in Calls : c = Cmd.by
  BY <1>1, CmdType DEF ArgumentsOf
<1>3. call[c] \in Call /\ call[c].pc # "idle" /\ c # Reaper
  BY <1>2, CmdType, <1>1 DEF TypeOK, ArgumentsOf, MaintenancesAssumption
<1>4. CASE Failed
  <2>1. Finish(c, 500) /\ Then(<<>>)
    BY <1>2, <1>4 DEF ListReply
  <2>2. QED
    BY <1>1, <2>1, EndType DEF Statuses
<1>5. CASE ~Failed /\ Stored = {}
  <2>1. Finish(c, 200) /\ Then(<<>>)
    BY <1>2, <1>5 DEF ListReply
  <2>2. QED
    BY <1>1, <2>1, EndType DEF Statuses
<1>6. CASE ~Failed /\ Stored # {}
  <2>1. call' \in [Calls -> Call] /\ CallsKeep
    <3> DEFINE r == [call[c] EXCEPT !.ids = Stored]
    <3>1. Stored \in SUBSET Id
      BY DEF Stored
    <3>2. r \in Call /\ r.pc # "idle" /\ r.window = call[c].window
      BY <1>3, <3>1 DEF Call
    <3>3. call' = [call EXCEPT ![c] = r]
      BY <1>2, <1>6 DEF ListReply
    <3> HIDE DEF r
    <3>4. QED
      BY <3>2, <3>3, CallUpdate
  <2>2. Then(<<Sent("fetch", Cmd.by, NoId)>>)
    BY <1>6 DEF ListReply
  <2>3. QED
    BY <1>1, <1>2, <2>1, <2>2, GoesOnType
<1>7. QED
  BY <1>4, <1>5, <1>6

LEMMA FetchType == ASSUME TypeOK, FetchReply PROVE TypeOK'
<1>1. queue # <<>> /\ Cmd.op = "fetch" /\ Run /\ UNCHANGED others /\ UNCHANGED timeouts
  BY DEF FetchReply, Answers
<1>2. PICK c \in Calls : c = Cmd.by
  BY <1>1, CmdType DEF ArgumentsOf
<1>3. call[c] \in Call /\ call[c].pc # "idle"
  BY <1>1, <1>2, CmdType DEF TypeOK, ArgumentsOf, MaintenancesAssumption
<1> DEFINE found == call[c].ids \cap Stored
           verdict == call[c].kind = "check" /\ InMaintenance(found, call[c].event)
           whole == found = call[c].ids
<1>4. CASE Failed
  <2>1. Finish(c, 500)
    BY <1>2, <1>4 DEF FetchReply, Finish
  <2>2. Then(<<>>)
    BY <1>2, <1>4 DEF FetchReply
  <2>3. QED
    BY <1>1, <2>1, <2>2, EndType DEF Statuses
<1>5. CASE ~Failed
  <2>1. PICK pc \in {"busy", "done"}, status \in {0, 200}, v \in BOOLEAN :
          call' = [call EXCEPT ![c] =
                    [call[c] EXCEPT !.verdict = v, !.pc = pc, !.status = status]]
    <3>1. PICK v \in BOOLEAN : v = verdict
      OBVIOUS
    <3>2. PICK pc \in {"busy", "done"} : pc = IF whole THEN "done" ELSE "busy"
      OBVIOUS
    <3>3. PICK status \in {0, 200} : status = IF whole THEN 200 ELSE 0
      OBVIOUS
    <3>4. call' = [call EXCEPT ![c] =
                    [call[c] EXCEPT !.verdict = v, !.pc = pc, !.status = status]]
      BY <1>2, <1>5, <3>1, <3>2, <3>3 DEF FetchReply
    <3>5. QED
      BY <3>4
  <2>2. call' \in [Calls -> Call] /\ CallsKeep
    <3> DEFINE r == [call[c] EXCEPT !.verdict = v, !.pc = pc, !.status = status]
    <3>1. r \in Call /\ r.pc # "idle" /\ r.window = call[c].window
      <4> DEFINE r1 == [call[c] EXCEPT !.verdict = v]
                 r2 == [r1 EXCEPT !.pc = pc]
                 r3 == [r2 EXCEPT !.status = status]
      <4>1. r1 \in Call /\ r1.window = call[c].window
        BY <1>3 DEF Call
      <4>2. r2 \in Call /\ r2.pc = pc /\ r2.window = call[c].window
        <5> HIDE DEF r1
        <5>1. QED
          BY <4>1 DEF Call
      <4>3. r3 \in Call /\ r3.pc = pc /\ r3.window = call[c].window
        <5> HIDE DEF r2
        <5>1. QED
          BY <4>2 DEF Call
      <4>4. r = r3
        OBVIOUS
      <4> HIDE DEF r, r3
      <4>5. QED
        BY <4>3, <4>4
    <3>2. call' = [call EXCEPT ![c] = r]
      BY <2>1
    <3> HIDE DEF r
    <3>3. QED
      BY <3>1, <3>2, CallUpdate
  <2>3. CASE whole
    <3>1. Then(<<>>)
      BY <1>2, <1>5, <2>3 DEF FetchReply
    <3>2. QED
      BY <1>1, <2>2, <3>1, NothingType
  <2>4. CASE ~whole
    <3>1. Then(<<Sent("expunge", Cmd.by, NoId)>>)
      BY <1>2, <1>5, <2>4 DEF FetchReply
    <3>2. QED
      BY <1>1, <1>2, <2>2, <3>1, GoesOnType
  <2>5. QED
    BY <2>3, <2>4
<1>6. QED
  BY <1>4, <1>5

-----------------------------------------------------------------------------
(* The answers to the reaper *)

LEMMA ExpiresInType ==
  ASSUME TypeOK, NEW id \in Stored
  PROVE  now + ExpiresIn(id) \in Nat
<1>1. windows[id] \in Windows
  BY DEF Stored, TypeOK
<1>2. windows[id].end \in Nat /\ now \in Nat
  BY <1>1 DEF TypeOK, Time, MaintenancesAssumption
<1>3. QED
  BY <1>2 DEF ExpiresIn, TooLong, Wait, MaintenancesAssumption

LEMMA HeadType == ASSUME TypeOK, HeadReply PROVE TypeOK'
<1>1. queue # <<>> /\ Cmd.op = "head" /\ Run /\ Then(<<>>) /\ OnlyEarly /\ UNCHANGED call
  BY DEF HeadReply, Answers, OnlyEarly, TypeOK, Stored
<1>2. TimersFit(timers) /\ tracked \in Slot \cup {NoSlot} /\ now \in Nat
  BY DEF TypeOK, ArgumentsSet, TimersFit, Time, MaintenancesAssumption
<1>3. TimersFit(timers') /\ tracked' \in Slot \cup {NoSlot}
  <2>1. CASE Failed
    BY <1>2, <2>1, RescheduleType DEF HeadReply
  <2>2. CASE ~Failed /\ Stored = {}
    BY <2>2, TimeoutsKept DEF HeadReply
  <2>3. CASE ~Failed /\ Stored # {}
    <3>1. PICK id \in Stored, s \in Slot :
            /\ Arm(timers, s, "expire", now + ExpiresIn(id), id)
            /\ tracked' = s
      BY <2>3 DEF HeadReply
    <3>2. id \in Id
      BY DEF Stored
    <3>3. PICK at \in Nat : at = now + ExpiresIn(id)
      BY ExpiresInType
    <3>4. Arm(timers, s, "expire", at, id)
      BY <3>1, <3>3
    <3>5. TimersFit(timers')
      BY <1>2, <3>2, <3>4, ArmType
    <3>6. QED
      BY <3>1, <3>5
  <2>4. QED
    BY <2>1, <2>2, <2>3
<1>4. call' \in [Calls -> Call] /\ CallsKeep
  BY <1>1, CallsKept
<1>5. PICK cmds : cmds = << >>
  OBVIOUS
<1>6. cmds \in Seq(Command) /\ \A j \in DOMAIN cmds : ArgumentsOf(cmds[j])'
  <2>1. cmds \in Seq(Command) /\ DOMAIN cmds = {}
    BY <1>5
  <2>2. QED
    BY <2>1
<1>7. Then(cmds)
  BY <1>1, <1>5
<1>8. QED
  BY <1>1, <1>3, <1>4, <1>6, <1>7, ReplyType

LEMMA RetryLaterType ==
  ASSUME TypeOK, RescheduleLater(timers), UNCHANGED tracked
  PROVE  TimersFit(timers') /\ tracked' \in Slot \cup {NoSlot}
<1>1. TimersFit(timers) /\ tracked \in Slot \cup {NoSlot} /\ now \in Nat
  BY DEF TypeOK, ArgumentsSet, TimersFit, Time, MaintenancesAssumption
<1>2. QED
  BY <1>1, RescheduleType

LEMMA ReaperGetType == ASSUME TypeOK, ReaperGetReply PROVE TypeOK'
<1>1. /\ queue # <<>> /\ Cmd.op = "get" /\ Cmd.by = Reaper /\ Run
      /\ UNCHANGED others /\ UNCHANGED tracked /\ UNCHANGED call
  BY DEF ReaperGetReply, Answers
<1>2. PICK id \in Id : id = Cmd.id
  BY <1>1, CmdType DEF ArgumentsOf
<1>3. call' \in [Calls -> Call] /\ CallsKeep
  BY <1>1, CallsKept
<1>4. CASE Failed
  <2>1. TimersFit(timers') /\ tracked' \in Slot \cup {NoSlot}
    BY <1>1, <1>4, RetryLaterType DEF ReaperGetReply
  <2>2. PICK cmds : cmds = << >>
    OBVIOUS
  <2>3. cmds \in Seq(Command) /\ \A j \in DOMAIN cmds : ArgumentsOf(cmds[j])'
    <3>1. cmds \in Seq(Command) /\ DOMAIN cmds = {}
      BY <2>2
    <3>2. QED
      BY <3>1
  <2>4. Then(cmds)
    BY <1>4, <2>2 DEF ReaperGetReply
  <2>5. QED
    BY <1>1, <1>3, <2>1, <2>3, <2>4, ReplyType
<1>5. CASE ~Failed
  <2>1. PICK op \in {"remove", "expunge"} : op = IF id \in Stored THEN "remove" ELSE "expunge"
    OBVIOUS
  <2>2. PICK cmd : cmd = Sent(op, Reaper, id)
    OBVIOUS
  <2>3. cmd \in Command /\ cmd.op = op /\ cmd.by = Reaper /\ cmd.id = id
    BY <2>2 DEF Sent, Command
  <2>4. ArgumentsOf(cmd)'
    BY <2>3 DEF ArgumentsOf, MaintenancesAssumption
  <2>5. PICK cmds : cmds = <<cmd>>
    OBVIOUS
  <2>6. Then(cmds) /\ UNCHANGED timeouts
    BY <1>1, <1>2, <1>5, <2>1, <2>2, <2>5 DEF ReaperGetReply, timeouts
  <2>7. QED
    BY <1>1, <1>3, <2>3, <2>4, <2>5, <2>6, OneSent, TimeoutsKept, ReplyType
<1>6. QED
  BY <1>4, <1>5

\* The timeout is cleared and the next end asked for.
LEMMA ScheduleType ==
  ASSUME TypeOK, queue # <<>>, Cmd.op # "incr", Run, UNCHANGED others, UNCHANGED call,
         NEW n \in Nat, ClearTimeout, Then(NextEndQueries(n))
  PROVE  TypeOK'
<1>1. PICK cmds : cmds = NextEndQueries(n)
  OBVIOUS
<1>2. cmds \in Seq(Command) /\ \A j \in DOMAIN cmds : ArgumentsOf(cmds[j])'
  BY <1>1, NextEndFits
<1>3. Then(cmds)
  BY <1>1
<1>4. call' \in [Calls -> Call] /\ CallsKeep
  BY CallsKept
<1>5. TimersFit(timers') /\ tracked' \in Slot \cup {NoSlot}
  BY ClearType
<1>6. QED
  BY <1>2, <1>3, <1>4, <1>5, ReplyType

LEMMA ReaperExpungeType == ASSUME TypeOK, ReaperExpungeReply PROVE TypeOK'
<1>1. /\ queue # <<>> /\ Cmd.op = "expunge" /\ Run /\ UNCHANGED others /\ UNCHANGED call
  BY DEF ReaperExpungeReply, Answers
<1>2. CASE Failed
  <2>1. TimersFit(timers') /\ tracked' \in Slot \cup {NoSlot}
    BY <1>2, RetryLaterType DEF ReaperExpungeReply
  <2>2. PICK cmds : cmds = << >>
    OBVIOUS
  <2>3. cmds \in Seq(Command) /\ \A j \in DOMAIN cmds : ArgumentsOf(cmds[j])'
    <3>1. cmds \in Seq(Command) /\ DOMAIN cmds = {}
      BY <2>2
    <3>2. QED
      BY <3>1
  <2>4. Then(cmds)
    BY <1>2, <2>2 DEF ReaperExpungeReply
  <2>5. call' \in [Calls -> Call] /\ CallsKeep
    BY <1>1, CallsKept
  <2>6. QED
    BY <1>1, <2>1, <2>3, <2>4, <2>5, ReplyType
<1>3. CASE ~Failed
  BY <1>1, <1>3, ScheduleType DEF ReaperExpungeReply
<1>4. QED
  BY <1>2, <1>3

LEMMA ReaperRemoveType == ASSUME TypeOK, ReaperRemoveReply PROVE TypeOK'
<1>1. /\ queue # <<>> /\ Cmd.op = "remove" /\ Run /\ UNCHANGED others /\ UNCHANGED call
      /\ ClearTimeout
  BY DEF ReaperRemoveReply, Answers
<1>2. PICK n \in Nat : n = IF Failed THEN 1 ELSE 2
  OBVIOUS
<1>3. Then(NextEndQueries(n))
  BY <1>2 DEF ReaperRemoveReply
<1>4. QED
  BY <1>1, <1>3, ScheduleType

LEMMA OrphanType == ASSUME TypeOK, Orphan PROVE TypeOK'
<1>1. call' \in [Calls -> Call] /\ CallsKeep
  BY CallsKept DEF Orphan
<1>2. QED
  BY <1>1, NothingType DEF Orphan

-----------------------------------------------------------------------------
(* The timers *)

LEMMA QueueKept ==
  ASSUME TypeOK, UNCHANGED queue, CallsKeep
  PROVE  /\ queue' \in Seq(Command)
         /\ \A i \in DOMAIN queue' : ArgumentsOf(queue[i])'
<1>1. \A i \in DOMAIN queue : queue[i] \in Command /\ ArgumentsOf(queue[i])
  BY DEF TypeOK, ArgumentsSet
<1>2. QED
  BY <1>1 DEF TypeOK, ArgumentsOf, CallsKeep, Command

LEMMA ExpireType == ASSUME TypeOK, NEW s \in Slot, Expire(s) PROVE TypeOK'
<1> DEFINE ts == [timers EXCEPT ![s] = Off]
<1>1. TimersFit(ts)
  BY DEF TypeOK, ArgumentsSet, TimersFit, Off, Timer
<1>2. /\ UNCHANGED others /\ UNCHANGED counter /\ UNCHANGED windows /\ UNCHANGED call
      /\ tracked' \in Slot \cup {NoSlot}
  BY DEF Expire, TypeOK
<1>3. call' \in [Calls -> Call] /\ CallsKeep
  BY <1>2, CallsKept
<1>4. TimersFit(timers') /\ queue' \in Seq(Command)
      /\ \A i \in DOMAIN queue' : ArgumentsOf(queue[i])'
  <2>1. CASE redis = "up"
    <3>1. PICK id \in Id : id = timers[s].id
      BY DEF Expire, TypeOK, ArgumentsSet
    <3>2. PICK cmd : cmd = Sent("get", Reaper, id)
      OBVIOUS
    <3>3. cmd \in Command /\ cmd.op = "get" /\ cmd.by = Reaper /\ cmd.id = id
      BY <3>2 DEF Sent, Command
    <3>4. ArgumentsOf(cmd)'
      BY <3>3 DEF ArgumentsOf, MaintenancesAssumption
    <3>5. PICK cmds : cmds = <<cmd>>
      OBVIOUS
    <3>6. cmds \in Seq(Command) /\ \A j \in DOMAIN cmds : ArgumentsOf(cmds[j])'
      BY <3>3, <3>4, <3>5, OneSent
    <3>7. Send(cmds) /\ timers' = ts
      BY <2>1, <3>1, <3>2, <3>5 DEF Expire
    <3>8. QED
      BY <1>1, <1>3, <3>6, <3>7, ArgumentsKeep DEF CallsKeep
  <2>2. CASE redis # "up"
    <3>1. RescheduleLater(ts) /\ UNCHANGED queue
      BY <2>2 DEF Expire
    <3>2. now \in Nat
      BY DEF TypeOK, Time, MaintenancesAssumption
    <3>3. TimersFit(timers')
      <4> HIDE DEF ts
      <4>1. QED
        BY <1>1, <3>1, <3>2, RescheduleType
    <3>4. QED
      BY <1>3, <3>1, <3>3, QueueKept
  <2>3. QED
    BY <2>1, <2>2
<1>5. QED
  BY <1>2, <1>3, <1>4 DEF TypeOK, ArgumentsSet, TimersFit, others

LEMMA AsksType ==
  ASSUME TypeOK, CallsKeep, Send(NextEndQueries(1))
  PROVE  /\ queue' \in Seq(Command)
         /\ \A i \in DOMAIN queue' : ArgumentsOf(queue[i])'
<1>1. PICK cmds : cmds = NextEndQueries(1)
  OBVIOUS
<1>2. cmds \in Seq(Command) /\ \A j \in DOMAIN cmds : ArgumentsOf(cmds[j])'
  BY <1>1, NextEndFits
<1>3. Send(cmds)
  BY <1>1
<1>4. QED
  BY <1>2, <1>3, ArgumentsKeep DEF CallsKeep

LEMMA RetryType == ASSUME TypeOK, NEW s \in Slot, Retry(s) PROVE TypeOK'
<1>1. /\ UNCHANGED others /\ UNCHANGED counter /\ UNCHANGED windows /\ UNCHANGED call
      /\ tracked' = NoSlot /\ Send(NextEndQueries(1))
  BY DEF Retry
<1>2. call' \in [Calls -> Call] /\ CallsKeep
  BY <1>1, CallsKept
<1>3. queue' \in Seq(Command) /\ \A i \in DOMAIN queue' : ArgumentsOf(queue[i])'
  BY <1>1, <1>2, AsksType
<1>4. TimersFit(timers')
  <2> DEFINE ts == [timers EXCEPT ![s] = Off]
  <2>1. TimersFit(timers)
    BY DEF TypeOK, ArgumentsSet, TimersFit
  <2>2. \A t \in Slot : \A any : TimersFit(any) => TimersFit([any EXCEPT ![t] = Off])
    BY DEF TimersFit, Off, Timer
  <2>3. timers' = IF tracked = NoSlot THEN ts ELSE [ts EXCEPT ![tracked] = Off]
    BY DEF Retry
  <2>4. tracked \in Slot \cup {NoSlot}
    BY DEF TypeOK
  <2> HIDE DEF ts
  <2>5. TimersFit(ts)
    BY <2>1, <2>2 DEF ts
  <2>6. QED
    BY <2>2, <2>3, <2>4, <2>5
<1>5. QED
  BY <1>1, <1>2, <1>3, <1>4 DEF TypeOK, ArgumentsSet, TimersFit, others

-----------------------------------------------------------------------------
(* Failures, restarts and time *)

\* Commands only meet another fate, or are forgotten.
FatesOnly == /\ queue' \in Seq(Command)
             /\ \A i \in DOMAIN queue' :
                  /\ i \in DOMAIN queue
                  /\ queue'[i].op = queue[i].op /\ queue'[i].by = queue[i].by
                  /\ queue'[i].id = queue[i].id

\* Then they are still well-formed.
LEMMA FatesType ==
  ASSUME TypeOK, CallsKeep, FatesOnly
  PROVE  \A i \in DOMAIN queue' : ArgumentsOf(queue[i])'
<1>1. \A i \in DOMAIN queue : queue[i] \in Command /\ ArgumentsOf(queue[i])
  BY DEF TypeOK, ArgumentsSet
<1>2. QED
  BY <1>1 DEF FatesOnly, ArgumentsOf, CallsKeep, Command

LEMMA RefuseFates == ASSUME TypeOK, Refuse PROVE FatesOnly
<1>1. queue # <<>> /\ queue \in Seq(Command)
  BY DEF TypeOK, Refuse
<1>2. PICK cmd : cmd = [queue[1] EXCEPT !.fate = "refused"]
  OBVIOUS
<1>3. queue[1] \in Command
  BY <1>1
<1>4. /\ cmd \in Command /\ cmd.op = queue[1].op /\ cmd.by = queue[1].by
      /\ cmd.id = queue[1].id
  BY <1>2, <1>3 DEF Command
<1>5. queue' = [queue EXCEPT ![1] = cmd]
  BY <1>2 DEF Refuse
<1>6. QED
  BY <1>1, <1>4, <1>5 DEF FatesOnly

LEMMA LoseRedisFates == ASSUME TypeOK, LoseRedis PROVE FatesOnly
<1>1. PICK k \in 0..Len(queue) :
        queue' = [i \in DOMAIN queue |->
          IF queue[i].fate # "sent" THEN queue[i]
          ELSE [queue[i] EXCEPT !.fate = IF i <= k THEN "lost" ELSE "refused"]]
  BY DEF LoseRedis
<1>2. queue \in Seq(Command)
  BY DEF TypeOK
<1>3. ASSUME NEW i \in DOMAIN queue
      PROVE  /\ queue'[i] \in Command
             /\ queue'[i].op = queue[i].op /\ queue'[i].by = queue[i].by
             /\ queue'[i].id = queue[i].id
  <2>1. queue[i] \in Command
    BY <1>2
  <2>2. PICK fate \in {"lost", "refused"} : fate = IF i <= k THEN "lost" ELSE "refused"
    OBVIOUS
  <2>3. PICK new : new = [queue[i] EXCEPT !.fate = fate]
    OBVIOUS
  <2>4. new \in Command /\ new.op = queue[i].op /\ new.by = queue[i].by /\ new.id = queue[i].id
    BY <2>1, <2>3 DEF Command
  <2>5. queue'[i] = IF queue[i].fate # "sent" THEN queue[i] ELSE new
    BY <1>1, <2>2, <2>3
  <2>6. QED
    BY <2>1, <2>4, <2>5
<1>4. DOMAIN queue' = 1..Len(queue) /\ Len(queue) \in Nat /\ DOMAIN queue = 1..Len(queue)
  BY <1>1, <1>2
<1>5. queue' \in Seq(Command)
  <2>1. queue' = [i \in 1..Len(queue) |-> queue'[i]]
    BY <1>1, <1>2
  <2>2. QED
    BY <1>2, <1>3, <1>4, <2>1
<1>6. QED
  BY <1>3, <1>4, <1>5 DEF FatesOnly

LEMMA CrashFates == ASSUME TypeOK, Crash PROVE FatesOnly
<1>1. PICK k \in 0..Len(queue) :
        queue' = [i \in 1..k |-> [queue[i] EXCEPT !.fate =
                    IF @ \in {"refused", "void"} THEN "void" ELSE "orphan"]]
  BY DEF Crash
<1>2. queue \in Seq(Command)
  BY DEF TypeOK
<1>3. k \in Nat /\ DOMAIN queue' = 1..k /\ 1..k \subseteq DOMAIN queue
  BY <1>1, <1>2
<1>4. ASSUME NEW i \in 1..k
      PROVE  /\ queue'[i] \in Command
             /\ queue'[i].op = queue[i].op /\ queue'[i].by = queue[i].by
             /\ queue'[i].id = queue[i].id
  <2>1. queue[i] \in Command
    BY <1>2, <1>3
  <2>2. PICK fate \in {"void", "orphan"} :
          fate = IF queue[i].fate \in {"refused", "void"} THEN "void" ELSE "orphan"
    OBVIOUS
  <2>3. PICK new : new = [queue[i] EXCEPT !.fate = fate]
    OBVIOUS
  <2>4. new \in Command /\ new.op = queue[i].op /\ new.by = queue[i].by /\ new.id = queue[i].id
    BY <2>1, <2>3 DEF Command
  <2>5. queue'[i] = new
    BY <1>1, <2>2, <2>3
  <2>6. QED
    BY <2>4, <2>5
<1>5. queue' \in Seq(Command)
  <2>1. queue' = [i \in 1..k |-> queue'[i]]
    BY <1>1
  <2>2. QED
    BY <1>3, <1>4, <2>1
<1>6. QED
  BY <1>3, <1>4, <1>5 DEF FatesOnly

LEMMA FailsType == ASSUME TypeOK, NEW f, Fails(f) PROVE errors' \in 0..MaxErrors
<1>1. errors < MaxErrors /\ errors' = errors + 1
  BY DEF Fails
<1>2. QED
  BY <1>1 DEF TypeOK, MaintenancesAssumption

LEMMA RefuseType == ASSUME TypeOK, Refuse PROVE TypeOK'
<1>1. CallsKeep /\ call' \in [Calls -> Call]
  BY CallsKept DEF Refuse
<1>2. FatesOnly /\ \A i \in DOMAIN queue' : ArgumentsOf(queue[i])'
  BY <1>1, RefuseFates, FatesType
<1>3. errors' \in 0..MaxErrors
  BY FailsType DEF Refuse
<1>4. QED
  BY <1>1, <1>2, <1>3 DEF TypeOK, ArgumentsSet, FatesOnly, Refuse, timeouts

LEMMA LoseRedisType == ASSUME TypeOK, LoseRedis PROVE TypeOK'
<1>1. CallsKeep /\ call' \in [Calls -> Call]
  BY CallsKept DEF LoseRedis
<1>2. FatesOnly /\ \A i \in DOMAIN queue' : ArgumentsOf(queue[i])'
  BY <1>1, LoseRedisFates, FatesType
<1>3. errors' \in 0..MaxErrors
  BY FailsType DEF LoseRedis
<1>4. QED
  BY <1>1, <1>2, <1>3 DEF TypeOK, ArgumentsSet, FatesOnly, LoseRedis, timeouts

LEMMA CrashType == ASSUME TypeOK, Crash PROVE TypeOK'
<1>1. call' \in [Calls -> Call] /\ CallsKeep
  <2>1. ASSUME NEW c \in Calls
        PROVE  /\ call'[c] \in Call /\ call'[c].window = call[c].window
               /\ call[c].pc # "idle" => call'[c].pc # "idle"
    <3>1. PICK old \in Call : old = call[c]
      BY DEF TypeOK
    <3>2. PICK status \in Statuses : status = 500
      BY DEF Statuses
    <3>3. PICK new \in Call : /\ new = [old EXCEPT !.pc = "done", !.status = status]
                              /\ new.pc = "done" /\ new.window = old.window
                              /\ new.kind = old.kind /\ new.id = old.id
      BY DoneType
    <3>4. call'[c] = IF old.pc \in {"busy", "hung"} THEN new ELSE old
      BY <3>1, <3>2, <3>3 DEF Crash
    <3>5. QED
      BY <3>1, <3>3, <3>4
  <2>2. call' = [c \in Calls |-> call'[c]]
    BY DEF Crash
  <2>3. QED
    BY <2>1, <2>2 DEF CallsKeep
<1>2. FatesOnly /\ \A i \in DOMAIN queue' : ArgumentsOf(queue[i])'
  BY <1>1, CrashFates, FatesType
<1>3. timers' \in [Slot -> Timer] /\ \A s \in Slot : timers'[s].kind = "off"
  BY DEF Crash, Off, Timer
<1>4. errors' \in 0..MaxErrors
  BY FailsType DEF Crash
<1>5. QED
  BY <1>1, <1>2, <1>3, <1>4 DEF TypeOK, ArgumentsSet, FatesOnly, Crash

LEMMA StartupType == ASSUME TypeOK, Startup PROVE TypeOK'
<1>1. call' \in [Calls -> Call] /\ CallsKeep
  BY CallsKept DEF Startup
<1>2. queue' \in Seq(Command) /\ \A i \in DOMAIN queue' : ArgumentsOf(queue[i])'
  BY <1>1, AsksType DEF Startup
<1>3. QED
  BY <1>1, <1>2 DEF TypeOK, ArgumentsSet, Startup, timeouts

\* Steps that leave the queue and the calls alone.
LEMMA QuietType ==
  ASSUME TypeOK, UNCHANGED <<counter, windows, queue, timers, tracked, call, started, errors,
                                  early>>,
         now' \in Time, redis' \in {"up", "down"}
  PROVE  TypeOK'
<1>1. CallsKeep
  BY CallsKept
<1>2. \A i \in DOMAIN queue' : ArgumentsOf(queue[i])'
  BY <1>1, QueueKept
<1>3. QED
  BY <1>2 DEF TypeOK, ArgumentsSet

-----------------------------------------------------------------------------
(* The theorem *)

LEMMA InitType == ASSUME Init PROVE TypeOK
<1>1. NoCall \in Call
  BY DEF NoCall, Ask, Call
<1>2. counter \in 0..MaxWindows /\ errors \in 0..MaxErrors /\ now \in Time
  BY DEF Init, Time, MaintenancesAssumption
<1>3. queue \in Seq(Command) /\ DOMAIN queue = {}
  BY DEF Init
<1>4. timers \in [Slot -> Timer] /\ \A s \in Slot : timers[s].kind # "expire"
  BY DEF Init, Off, Timer
<1>5. QED
  BY <1>1, <1>2, <1>3, <1>4 DEF Init, TypeOK, ArgumentsSet

LEMMA StepType == ASSUME TypeOK, [Next]_vars PROVE TypeOK'
<1>1. CASE \E c \in Calls : Begin(c)
  BY <1>1, BeginType
<1>2. CASE Reply
  BY <1>2, IncrType, StoreType, GetType, ExpungeType, CurrType, RemoveType, ListType,
     FetchType, HeadType, ReaperGetType, ReaperExpungeType, ReaperRemoveType, OrphanType
     DEF Reply
<1>3. CASE \E s \in Slot : TimerFires(s)
  BY <1>3, ExpireType, RetryType DEF TimerFires
<1>4. CASE Refuse \/ LoseRedis \/ Crash \/ Startup
  BY <1>4, RefuseType, LoseRedisType, CrashType, StartupType
<1>5. CASE Connect
  BY <1>5, QuietType DEF Connect, timeouts, TypeOK
<1>6. CASE Tick
  <2>1. now' \in Time /\ redis' \in {"up", "down"}
    BY <1>6 DEF Tick, TypeOK, Time, MaintenancesAssumption
  <2>2. QED
    BY <1>6, <2>1, QuietType DEF Tick, timeouts
<1>7. CASE UNCHANGED vars
  BY <1>7, QuietType DEF vars, TypeOK
<1>8. QED
  BY <1>1, <1>2, <1>3, <1>4, <1>5, <1>6, <1>7 DEF Next

\* Type correctness, with what every command and timeout was given: a window is
\* only stored under an id that was drawn, for a call that names one.
THEOREM TypeCorrect == Spec => []TypeOK
<1>1. Init => TypeOK
  BY InitType
<1>2. TypeOK /\ [Next]_vars => TypeOK'
  BY StepType
<1>3. QED
  BY <1>1, <1>2, PTL DEF Spec

-----------------------------------------------------------------------------
(***************************************************************************)
(* Two promises about maintenance windows: a new window never overwrites *)
(* another, and none is removed before its end unless somebody asks.     *)
(***************************************************************************)

\* Ids are drawn in order and stored once.
IdsAreUsedOnce ==
  /\ \A id \in Stored : id <= counter
  /\ \A i \in Queued("store") : queue[i].id <= counter
  /\ NewWindowIsNew

-----------------------------------------------------------------------------
(* What a step does to the queue *)

NoStores(cmds) == \A j \in DOMAIN cmds : cmds[j].op # "store"

\* The oldest command is answered; a store is only sent for an id just drawn.
Answered(cmds) ==
  /\ queue # <<>> /\ Run /\ Then(cmds)
  /\ \/ NoStores(cmds)
     \/ /\ Cmd.op = "incr" /\ Runs /\ Len(cmds) = 1
        /\ cmds[1].id = counter + 1

Asks(cmds) ==
  Send(cmds) /\ NoStores(cmds) /\ UNCHANGED counter /\ UNCHANGED windows

FatesChange == FatesOnly /\ UNCHANGED counter /\ UNCHANGED windows

LEMMA NoneSent == << >> \in Seq(Command) /\ NoStores(<< >>)
  BY DEF NoStores

LEMMA OtherSent ==
  ASSUME NEW op \in {"get", "expunge", "remove", "head", "list", "fetch", "curr", "incr"},
         NEW by \in Calls \cup {Reaper}, NEW id \in Id \cup {NoId}, NEW cmds,
         cmds = <<Sent(op, by, id)>>
  PROVE  cmds \in Seq(Command) /\ NoStores(cmds)
<1>1. PICK cmd : cmd = Sent(op, by, id)
  OBVIOUS
<1>2. cmd \in Command /\ cmd.op # "store"
  BY <1>1 DEF Sent, Command
<1>3. cmds = <<cmd>>
  BY <1>1
<1>4. cmds \in Seq(Command) /\ DOMAIN cmds = {1} /\ cmds[1] = cmd
  BY <1>2, <1>3
<1>5. QED
  BY <1>2, <1>4 DEF NoStores

LEMMA HeadsSent ==
  ASSUME NEW n \in Nat, NEW cmds, cmds = NextEndQueries(n)
  PROVE  cmds \in Seq(Command) /\ NoStores(cmds)
<1>1. Sent("head", Reaper, NoId).op = "head"
  BY DEF Sent
<1>2. QED
  BY <1>1, NextEndType DEF NoStores

-----------------------------------------------------------------------------
(* The queue keeps what makes ids unique *)

LEMMA QueuedIds ==
  ASSUME TypeOK
  PROVE  \A i \in Queued("store") : queue[i].id \in Int
<1>1. \A i \in DOMAIN queue : queue[i] \in Command
  BY DEF TypeOK
<1>2. \A cmd \in Command : cmd.id \in Int
  BY DEF Command, Id, NoId, MaintenancesAssumption
<1>3. QED
  BY <1>1, <1>2 DEF Queued

\* The stores under way after an answer.
LEMMA AnsweredStores ==
  ASSUME TypeOK, NEW cmds \in Seq(Command), Answered(cmds), NEW i \in Queued("store")'
  PROVE  /\ i \in Nat \ {0}
         /\ \/ i + 1 \in Queued("store") /\ queue'[i] = queue[i + 1]
            \/ /\ Cmd.op = "incr" /\ Runs /\ i = Len(queue)
               /\ queue'[i].id = counter + 1
<1>1. queue \in Seq(Command) /\ queue # <<>>
  BY DEF TypeOK, Answered
<1>2. i \in DOMAIN queue' /\ queue'[i].op = "store" /\ queue' \in Seq(Command)
  BY <1>1, ThenQueue DEF Queued, Answered
<1>3. \/ i + 1 \in DOMAIN queue /\ queue'[i] = queue[i + 1]
      \/ \E j \in DOMAIN cmds : i = Len(queue) - 1 + j /\ queue'[i] = cmds[j]
  BY <1>1, <1>2, ThenQueue DEF Answered
<1>4. ASSUME NEW j \in DOMAIN cmds, i = Len(queue) - 1 + j, queue'[i] = cmds[j]
      PROVE  Cmd.op = "incr" /\ Runs /\ i = Len(queue) /\ queue'[i].id = counter + 1
  <2>1. ~NoStores(cmds)
    BY <1>2, <1>4 DEF NoStores
  <2>2. Cmd.op = "incr" /\ Runs /\ Len(cmds) = 1 /\ cmds[1].id = counter + 1
    BY <2>1 DEF Answered
  <2>3. j = 1
    BY <2>2
  <2>4. QED
    BY <1>1, <1>4, <2>2, <2>3
<1>5. i + 1 \in DOMAIN queue /\ queue'[i] = queue[i + 1] => i + 1 \in Queued("store")
  BY <1>2 DEF Queued
<1>6. QED
  BY <1>2, <1>3, <1>4, <1>5

LEMMA AsksStores ==
  ASSUME TypeOK, NEW cmds \in Seq(Command), Asks(cmds)
  PROVE  \A i \in Queued("store")' : i \in Queued("store") /\ queue'[i] = queue[i]
<1>1. queue \in Seq(Command) /\ Send(cmds)
  BY DEF TypeOK, Asks
<1>2. ASSUME NEW i \in Queued("store")'
      PROVE  i \in Queued("store") /\ queue'[i] = queue[i]
  <2>1. i \in DOMAIN queue' /\ queue'[i].op = "store"
    BY DEF Queued
  <2>2. \/ i \in DOMAIN queue /\ queue'[i] = queue[i]
        \/ \E j \in DOMAIN cmds : queue'[i] = cmds[j]
    BY <1>1, <2>1, SendQueue
  <2>3. QED
    BY <2>1, <2>2 DEF Asks, NoStores, Queued
<1>3. QED
  BY <1>2

LEMMA AnsweredFresh ==
  ASSUME TypeOK, IdsAreUsedOnce, NEW cmds \in Seq(Command), Answered(cmds)
  PROVE  IdsAreUsedOnce'
<1>1. /\ queue \in Seq(Command) /\ queue # <<>>
      /\ Cmd = queue[1] /\ 1 \in DOMAIN queue /\ Cmd \in Command
  BY DEF TypeOK, Answered, Cmd
<1>2. counter \in Nat /\ counter' \in Nat /\ counter <= counter'
  BY DEF TypeOK, Answered, Run, MaintenancesAssumption
<1>4. windows \in [Id -> Windows \cup {None}]
  BY DEF TypeOK
<1>5. \A id \in Stored' :
        \/ id \in Stored
        \/ Runs /\ Cmd.op = "store" /\ id = Cmd.id
  BY <1>4 DEF Answered, Run, Stored
<1>6. \A id \in Stored' : id <= counter'
  <2>1. Cmd.op = "store" => Cmd.id <= counter
    BY <1>1 DEF IdsAreUsedOnce, Queued
  <2>2. \A id \in Stored : id <= counter /\ id \in Nat
    BY DEF IdsAreUsedOnce, Stored, Id
  <2>3. Cmd.id \in Nat
    BY <1>1 DEF Command, Id, NoId
  <2>4. QED
    BY <1>2, <1>5, <2>1, <2>2, <2>3
<1>7. ASSUME NEW i \in Queued("store")'
      PROVE  /\ i \in Nat \ {0}
             /\ \/ i + 1 \in Queued("store") /\ queue'[i] = queue[i + 1]
                \/ /\ Cmd.op = "incr" /\ Runs /\ i = Len(queue)
                   /\ queue'[i].id = counter + 1
  BY AnsweredStores
<1>8. ASSUME NEW i \in Queued("store")'
      PROVE  queue'[i].id <= counter' /\ queue'[i].id \notin Stored'
  <2>1. CASE i + 1 \in Queued("store") /\ queue'[i] = queue[i + 1]
    <3>1. queue[i + 1].id <= counter /\ queue[i + 1].id \notin Stored
      BY <2>1 DEF IdsAreUsedOnce, NewWindowIsNew
    <3>2. Cmd.op = "store" => Cmd.id # queue[i + 1].id
      <4>1. ASSUME Cmd.op = "store" PROVE 1 \in Queued("store") \ {i + 1}
        <5>1. 1 \in Queued("store")
          BY <1>1, <4>1 DEF Queued
        <5>2. i \in Nat \ {0}
          BY <1>7
        <5>3. QED
          BY <5>1, <5>2
      <4>2. QED
        BY <1>1, <2>1, <4>1 DEF IdsAreUsedOnce, NewWindowIsNew
    <3>3. queue[i + 1].id \in Int
      BY <2>1, QueuedIds
    <3>4. QED
      BY <1>2, <1>5, <2>1, <3>1, <3>2, <3>3
  <2>2. CASE Cmd.op = "incr" /\ Runs /\ queue'[i].id = counter + 1
    <3>1. counter' = counter + 1
      BY <2>2 DEF Answered, Run
    <3>2. counter + 1 \notin Stored
      BY <1>2 DEF IdsAreUsedOnce
    <3>3. QED
      BY <1>2, <1>5, <2>2, <3>1, <3>2
  <2>3. QED
    BY <1>7, <2>1, <2>2
<1>9. ASSUME NEW i \in Queued("store")', NEW j \in Queued("store")', i # j
      PROVE  queue'[j].id # queue'[i].id
  <2>1. \A k \in Queued("store") : queue[k].id <= counter /\ queue[k].id \in Int
    BY QueuedIds DEF IdsAreUsedOnce
  <2>2. i \in Nat /\ j \in Nat
    BY <1>7
  <2>3. CASE /\ i + 1 \in Queued("store") /\ queue'[i] = queue[i + 1]
             /\ j + 1 \in Queued("store") /\ queue'[j] = queue[j + 1]
    <3>1. i + 1 # j + 1
      BY <1>9, <2>2
    <3>2. QED
      BY <2>3, <3>1 DEF IdsAreUsedOnce, NewWindowIsNew
  <2>4. QED
    BY <1>2, <1>7, <1>9, <2>1, <2>3
<1>10. QED
  BY <1>6, <1>8, <1>9 DEF IdsAreUsedOnce, NewWindowIsNew

LEMMA AsksFresh ==
  ASSUME TypeOK, IdsAreUsedOnce, NEW cmds \in Seq(Command), Asks(cmds)
  PROVE  IdsAreUsedOnce'
<1>1. queue \in Seq(Command) /\ Send(cmds) /\ UNCHANGED counter /\ UNCHANGED windows
  BY DEF TypeOK, Asks
<1>2. Stored' = Stored
  BY <1>1 DEF Stored
<1>3. \A i \in Queued("store")' : i \in Queued("store") /\ queue'[i] = queue[i]
  BY AsksStores
<1>4. QED
  BY <1>1, <1>2, <1>3 DEF IdsAreUsedOnce, NewWindowIsNew

LEMMA FatesFresh == ASSUME TypeOK, IdsAreUsedOnce, FatesChange PROVE IdsAreUsedOnce'
<1>1. Stored' = Stored
  BY DEF FatesChange, Stored
<1>2. \A i \in Queued("store")' : i \in Queued("store") /\ queue'[i].id = queue[i].id
  BY DEF FatesChange, FatesOnly, Queued
<1>3. QED
  BY <1>1, <1>2 DEF IdsAreUsedOnce, NewWindowIsNew, FatesChange

-----------------------------------------------------------------------------
(* Every step is one of these *)

Fresh == \/ \E cmds \in Seq(Command) : Answered(cmds) \/ Asks(cmds)
         \/ FatesChange

LEMMA FreshStep == ASSUME TypeOK, IdsAreUsedOnce, Fresh PROVE IdsAreUsedOnce'
  BY AnsweredFresh, AsksFresh, FatesFresh DEF Fresh

LEMMA NothingFresh == ASSUME TypeOK, queue # <<>>, Run, Then(<<>>) PROVE Fresh
<1>1. PICK cmds : cmds = << >>
  OBVIOUS
<1>2. cmds \in Seq(Command) /\ NoStores(cmds)
  BY <1>1, NoneSent
<1>3. Then(cmds)
  BY <1>1
<1>4. QED
  BY <1>2, <1>3 DEF Fresh, Answered

LEMMA HeadsFresh ==
  ASSUME TypeOK, queue # <<>>, Run, NEW n \in Nat, Then(NextEndQueries(n))
  PROVE  Fresh
<1>1. PICK cmds : cmds = NextEndQueries(n)
  OBVIOUS
<1>2. cmds \in Seq(Command) /\ NoStores(cmds)
  BY <1>1, HeadsSent
<1>3. Then(cmds)
  BY <1>1
<1>4. QED
  BY <1>2, <1>3 DEF Fresh, Answered

LEMMA OneFresh ==
  ASSUME TypeOK, queue # <<>>, Run,
         NEW op \in {"get", "expunge", "remove", "head", "list", "fetch", "curr", "incr"},
         NEW by \in Calls \cup {Reaper}, NEW id \in Id \cup {NoId},
         Then(<<Sent(op, by, id)>>)
  PROVE  Fresh
<1>1. PICK cmds : cmds = <<Sent(op, by, id)>>
  OBVIOUS
<1>2. cmds \in Seq(Command) /\ NoStores(cmds)
  BY <1>1, OtherSent
<1>3. Then(cmds)
  BY <1>1
<1>4. QED
  BY <1>2, <1>3 DEF Fresh, Answered

LEMMA CmdFields ==
  ASSUME TypeOK, queue # <<>>
  PROVE  /\ Cmd.by \in Calls \cup {Reaper} /\ Cmd.id \in Id \cup {NoId}
         /\ Cmd.op \in {"store", "get", "remove"} => Cmd.id \in Id
         /\ Cmd.op \in {"incr", "store", "list", "fetch", "curr"} => Cmd.by \in Calls
  BY CmdType DEF Command, ArgumentsOf

LEMMA IncrFresh == ASSUME TypeOK, IncrReply PROVE Fresh
<1>1. queue # <<>> /\ Cmd.op = "incr" /\ Run /\ (Runs => counter < MaxWindows)
  BY DEF IncrReply, Answers
<1>2. PICK c \in Calls : c = Cmd.by
  BY <1>1, CmdFields
<1>3. CASE Failed
  BY <1>1, <1>3, NothingFresh DEF IncrReply
<1>4. CASE ~Failed
  <2>1. Runs
    BY <1>1, <1>4, CmdType DEF Failed, Runs, Command
  <2>2. PICK id \in Id : id = counter + 1
    BY <1>1, <2>1 DEF TypeOK, Id
  <2>3. PICK cmd : cmd = Sent("store", c, id)
    OBVIOUS
  <2>4. cmd \in Command /\ cmd.id = id
    BY <2>3 DEF Sent, Command
  <2>5. PICK cmds : cmds = <<cmd>>
    OBVIOUS
  <2>6. cmds \in Seq(Command) /\ Len(cmds) = 1 /\ cmds[1].id = counter + 1
    BY <2>2, <2>4, <2>5
  <2>7. Then(cmds)
    BY <1>2, <1>4, <2>2, <2>3, <2>5 DEF IncrReply, DrawnId
  <2>8. QED
    BY <1>1, <2>1, <2>6, <2>7 DEF Fresh, Answered
<1>5. QED
  BY <1>3, <1>4

LEMMA EndsFresh == ASSUME TypeOK, StoreReply \/ RemoveReply PROVE Fresh
<1>1. queue # <<>> /\ Run /\ (Then(<<>>) \/ Then(NextEndQueries(1)))
  BY DEF StoreReply, RemoveReply, Answers
<1>2. QED
  BY <1>1, NothingFresh, HeadsFresh

LEMMA GetFresh == ASSUME TypeOK, GetReply \/ ReaperGetReply PROVE Fresh
<1>1. queue # <<>> /\ Run
  BY DEF GetReply, ReaperGetReply, Answers
<1>2. Cmd.by \in Calls \cup {Reaper} /\ Cmd.id \in Id \cup {NoId}
  BY <1>1, CmdFields
<1>3. \/ Then(<<>>)
      \/ Then(<<Sent("expunge", Cmd.by, Cmd.id)>>)
      \/ Then(<<Sent("remove", Cmd.by, Cmd.id)>>)
  <2>1. CASE GetReply
    BY <2>1 DEF GetReply
  <2>2. CASE ReaperGetReply
    BY <2>2 DEF ReaperGetReply
  <2>3. QED
    BY <2>1, <2>2
<1>4. QED
  BY <1>1, <1>2, <1>3, NothingFresh, OneFresh

LEMMA OtherRepliesFresh ==
  ASSUME TypeOK, \/ ExpungeReply \/ CurrReply \/ ListReply \/ FetchReply \/ HeadReply
                 \/ ReaperExpungeReply \/ ReaperRemoveReply \/ Orphan
  PROVE  Fresh
<1>1. CASE ExpungeReply
  <2>1. queue # <<>> /\ Run /\ (Then(<<>>) \/ Then(<<Sent("curr", Cmd.by, Cmd.id)>>))
    BY <1>1 DEF ExpungeReply, Answers
  <2>2. QED
    BY <2>1, CmdFields, NothingFresh, OneFresh
<1>2. CASE CurrReply
  BY <1>2, NothingFresh DEF CurrReply, Answers
<1>3. CASE ListReply
  <2>1. queue # <<>> /\ Run /\ (Then(<<>>) \/ Then(<<Sent("fetch", Cmd.by, NoId)>>))
    BY <1>3 DEF ListReply, Answers
  <2>2. QED
    BY <2>1, CmdFields, NothingFresh, OneFresh
<1>4. CASE FetchReply
  <2>1. queue # <<>> /\ Run /\ (Then(<<>>) \/ Then(<<Sent("expunge", Cmd.by, NoId)>>))
    BY <1>4 DEF FetchReply, Answers
  <2>2. QED
    BY <2>1, CmdFields, NothingFresh, OneFresh
<1>5. CASE HeadReply
  BY <1>5, NothingFresh DEF HeadReply, Answers
<1>6. CASE ReaperExpungeReply
  <2>1. queue # <<>> /\ Run /\ (Then(<<>>) \/ Then(NextEndQueries(1)))
    BY <1>6 DEF ReaperExpungeReply, Answers
  <2>2. QED
    BY <2>1, NothingFresh, HeadsFresh
<1>7. CASE ReaperRemoveReply
  <2>1. queue # <<>> /\ Run
    BY <1>7 DEF ReaperRemoveReply, Answers
  <2>2. PICK n \in Nat : n = IF Failed THEN 1 ELSE 2
    OBVIOUS
  <2>3. Then(NextEndQueries(n))
    BY <1>7, <2>2 DEF ReaperRemoveReply
  <2>4. QED
    BY <2>1, <2>3, HeadsFresh
<1>8. CASE Orphan
  BY <1>8, NothingFresh DEF Orphan
<1>9. QED
  BY <1>1, <1>2, <1>3, <1>4, <1>5, <1>6, <1>7, <1>8

\* The queue is left alone.
LEMMA QuietFresh ==
  ASSUME TypeOK, UNCHANGED queue, UNCHANGED counter, UNCHANGED windows
  PROVE  Fresh
  BY DEF TypeOK, Fresh, FatesChange, FatesOnly

LEMMA AskOneFresh ==
  ASSUME TypeOK, UNCHANGED counter, UNCHANGED windows,
         NEW op \in {"get", "expunge", "remove", "head", "list", "fetch", "curr", "incr"},
         NEW by \in Calls \cup {Reaper}, NEW id \in Id \cup {NoId},
         Send(<<Sent(op, by, id)>>)
  PROVE  Fresh
<1>1. PICK cmds : cmds = <<Sent(op, by, id)>>
  OBVIOUS
<1>2. cmds \in Seq(Command) /\ NoStores(cmds)
  BY <1>1, OtherSent
<1>3. Send(cmds)
  BY <1>1
<1>4. QED
  BY <1>2, <1>3 DEF Fresh, Asks

LEMMA AskNextFresh ==
  ASSUME TypeOK, UNCHANGED counter, UNCHANGED windows, Send(NextEndQueries(1))
  PROVE  Fresh
<1>1. PICK cmds : cmds = NextEndQueries(1)
  OBVIOUS
<1>2. cmds \in Seq(Command) /\ NoStores(cmds)
  BY <1>1, HeadsSent
<1>3. Send(cmds)
  BY <1>1
<1>4. QED
  BY <1>2, <1>3 DEF Fresh, Asks

LEMMA BeginFresh == ASSUME TypeOK, NEW c \in Calls, Begin(c) PROVE Fresh
<1>1. PICK q \in Asked :
        IF redis = "up" THEN Send(<<Sent(FirstCommand(q.kind), c, q.id)>>)
        ELSE UNCHANGED queue
  BY DEF Begin
<1>2. q \in Call
  BY AskedType
<1>3. q.id \in Id \cup {NoId} /\ FirstCommand(q.kind) \in {"incr", "get", "list"}
  BY <1>2 DEF Call, FirstCommand
<1>4. UNCHANGED counter /\ UNCHANGED windows
  BY DEF Begin
<1>5. PICK op \in {"incr", "get", "list"} : op = FirstCommand(q.kind)
  BY <1>3
<1>6. CASE redis = "up"
  <2>1. Send(<<Sent(op, c, q.id)>>)
    BY <1>1, <1>5, <1>6
  <2>2. QED
    BY <1>3, <1>4, <2>1, AskOneFresh
<1>7. CASE redis # "up"
  BY <1>1, <1>4, <1>7, QuietFresh
<1>8. QED
  BY <1>6, <1>7

LEMMA TimerFresh == ASSUME TypeOK, NEW s \in Slot, TimerFires(s) PROVE Fresh
<1>1. CASE Expire(s)
  <2>1. timers[s].id \in Id \cup {NoId}
    BY DEF TypeOK, Timer
  <2>2. UNCHANGED counter /\ UNCHANGED windows
    BY <1>1 DEF Expire
  <2>3. Send(<<Sent("get", Reaper, timers[s].id)>>) \/ UNCHANGED queue
    BY <1>1 DEF Expire
  <2>4. QED
    BY <2>1, <2>2, <2>3, AskOneFresh, QuietFresh
<1>2. CASE Retry(s)
  BY <1>2, AskNextFresh DEF Retry
<1>3. QED
  BY <1>1, <1>2 DEF TimerFires

LEMMA FailureFresh ==
  ASSUME TypeOK, Refuse \/ LoseRedis \/ Crash
  PROVE  Fresh
<1>1. FatesOnly
  BY RefuseFates, LoseRedisFates, CrashFates
<1>2. UNCHANGED counter /\ UNCHANGED windows
  BY DEF Refuse, LoseRedis, Crash
<1>3. QED
  BY <1>1, <1>2 DEF Fresh, FatesChange

LEMMA StepFresh == ASSUME TypeOK, [Next]_vars PROVE Fresh
<1>1. CASE \E c \in Calls : Begin(c)
  BY <1>1, BeginFresh
<1>2. CASE Reply
  BY <1>2, IncrFresh, EndsFresh, GetFresh, OtherRepliesFresh DEF Reply
<1>3. CASE \E s \in Slot : TimerFires(s)
  BY <1>3, TimerFresh
<1>4. CASE Refuse \/ LoseRedis \/ Crash
  BY <1>4, FailureFresh
<1>5. CASE Startup
  BY <1>5, AskNextFresh DEF Startup
<1>6. CASE Connect \/ Tick \/ UNCHANGED vars
  BY <1>6, QuietFresh DEF Connect, Tick, vars
<1>7. QED
  BY <1>1, <1>2, <1>3, <1>4, <1>5, <1>6 DEF Next

LEMMA InitFresh == ASSUME Init PROVE IdsAreUsedOnce
  BY DEF Init, IdsAreUsedOnce, NewWindowIsNew, Stored, Queued

\* createMaintenance never writes over a window, whatever fails: the id it drew
\* (HINCRBY maintenanceIds) is not stored and no other creator has it.
THEOREM IdsAreSafe == Spec => []NewWindowIsNew
<1>1. Init => TypeOK /\ IdsAreUsedOnce
  BY InitType, InitFresh
<1>2. TypeOK /\ IdsAreUsedOnce /\ [Next]_vars => TypeOK' /\ IdsAreUsedOnce'
  BY StepType, StepFresh, FreshStep
<1>3. IdsAreUsedOnce => NewWindowIsNew
  BY DEF IdsAreUsedOnce
<1>4. QED
  BY <1>1, <1>2, <1>3, PTL DEF Spec

-----------------------------------------------------------------------------
(* Ids that were drawn                                                     *)

\* The id was drawn, and its window was stored or never will be.
Settled(id) ==
  /\ id \in Id /\ id <= counter
  /\ \A i \in Queued("store") : queue[i].id # id

Takes(cmds) == (queue # <<>> /\ Then(cmds)) \/ Send(cmds)

\* A settled id stays so, and its window is at most removed.
LEMMA SettledStays ==
  ASSUME TypeOK, IdsAreUsedOnce, Fresh, NEW id, Settled(id)
  PROVE  /\ Settled(id)'
         /\ id \in Stored' => id \in Stored /\ windows'[id] = windows[id]
<1>1. ASSUME NEW cmds \in Seq(Command), Answered(cmds)
      PROVE  /\ Settled(id)'
             /\ id \in Stored' => id \in Stored /\ windows'[id] = windows[id]
  <2>1. /\ queue \in Seq(Command) /\ queue # <<>> /\ Run
        /\ Cmd = queue[1] /\ 1 \in DOMAIN queue
    BY <1>1 DEF TypeOK, Answered, Cmd
  <2>2. counter \in Nat /\ counter' \in Nat /\ counter <= counter' /\ id \in Nat
    BY <2>1 DEF TypeOK, Run, Settled, Id, MaintenancesAssumption
  <2>3. Cmd.op = "store" => Cmd.id # id
    BY <2>1 DEF Settled, Queued
  <2>4. id \in Stored' => id \in Stored /\ windows'[id] = windows[id]
    BY <2>1, <2>3 DEF Run, Stored, TypeOK
  <2>5. ASSUME NEW i \in Queued("store")' PROVE queue'[i].id # id
    <3>1. \/ i + 1 \in Queued("store") /\ queue'[i] = queue[i + 1]
          \/ queue'[i].id = counter + 1
      BY <1>1, AnsweredStores
    <3>2. QED
      BY <2>2, <3>1 DEF Settled
  <2>6. QED
    BY <2>2, <2>4, <2>5 DEF Settled
<1>2. ASSUME NEW cmds \in Seq(Command), Asks(cmds)
      PROVE  /\ Settled(id)'
             /\ id \in Stored' => id \in Stored /\ windows'[id] = windows[id]
  <2>1. \A i \in Queued("store")' : i \in Queued("store") /\ queue'[i] = queue[i]
    BY <1>2, AsksStores
  <2>2. UNCHANGED counter /\ UNCHANGED windows
    BY <1>2 DEF Asks
  <2>3. QED
    BY <2>1, <2>2 DEF Settled, Stored
<1>3. CASE FatesChange
  BY <1>3 DEF FatesChange, FatesOnly, Settled, Queued, Stored
<1>4. QED
  BY <1>1, <1>2, <1>3 DEF Fresh

-----------------------------------------------------------------------------
(***************************************************************************)
(* The reaper: as long as nothing fails, it never loses the next end.    *)
(***************************************************************************)

\* The command's answer sets the next timeout or asks for it.
Schedules(cmd) == cmd.op \in {"head", "store", "remove"} \/ cmd.by = Reaper
Watches(t, m) == t.kind = "expire" /\ (t.at <= m.end \/ t.at <= now + MinWait)
Scheduled == \E i \in DOMAIN queue : Schedules(queue[i])
Watched == \A id \in Stored : \E s \in Slot : Watches(timers[s], windows[id])
\* As long as nothing failed, there is a client of redis as soon as there is anything
\* to do, all commands run, and no timeout is one of rescheduleLater.
NoTrouble ==
  /\ \A i \in DOMAIN queue : queue[i].fate = "sent"
  /\ \A s \in Slot : timers[s].kind # "retry"
  /\ redis # "up" => queue = <<>> /\ timers = [s \in Slot |-> Off]
WatchInv == errors = 0 => NoTrouble /\ (Scheduled \/ Watched)

LEMMA WatchIsWatched == WatchInv => NextEndIsWatched
  BY DEF WatchInv, NextEndIsWatched, Scheduled, Watched, Schedules, Watches, WillSchedule

LEMMA InitWatch == Init => WatchInv
  BY DEF Init, WatchInv, NoTrouble, Watched, Stored, Off

\* An answer after which `cmds` are sent: either the end of the next window is asked
\* for again, or nothing is new and the command was not to see to it, or timeouts are.
LEMMA ReplyWatch ==
  ASSUME TypeOK, WatchInv, errors = 0, queue # <<>>, Run, UNCHANGED others \/ OnlyEarly,
         NEW cmds \in Seq(Command), Then(cmds),
         \A j \in DOMAIN cmds : cmds[j].fate = "sent",
         \A s \in Slot : timers'[s].kind # "retry",
         \/ \E j \in DOMAIN cmds : Schedules(cmds[j])
         \/ ~Schedules(Cmd) /\ UNCHANGED timers
         \/ Watched'
  PROVE  WatchInv'
<1>1. queue \in Seq(Command) /\ queue # <<>> /\ redis = "up" /\ redis' = "up"
  BY DEF TypeOK, WatchInv, NoTrouble, others, OnlyEarly
<1>2. queue' = Tail(queue) \o cmds /\ Cmd = queue[1]
  BY <1>1 DEF Then, Cmd
<1>3. /\ \A i \in DOMAIN queue' : queue'[i].fate = "sent"
  <2>1. \A i \in DOMAIN queue : queue[i].fate = "sent"
    BY DEF WatchInv, NoTrouble
  <2>2. \A i \in DOMAIN queue' :
          \/ i + 1 \in DOMAIN queue /\ queue'[i] = queue[i + 1]
          \/ \E j \in DOMAIN cmds : queue'[i] = cmds[j]
    BY <1>1, ThenQueue
  <2>3. QED
    BY <2>1, <2>2
<1>4. NoTrouble'
  BY <1>1, <1>3 DEF NoTrouble
<1>5. CASE \E j \in DOMAIN cmds : Schedules(cmds[j])
  <2>1. PICK j \in DOMAIN cmds : Schedules(cmds[j])
    BY <1>5
  <2>2. PICK i : i = Len(queue) - 1 + j
    OBVIOUS
  <2>3. i \in DOMAIN queue' /\ queue'[i] = cmds[j]
    BY <1>1, <1>2, <2>2
  <2>4. Scheduled'
    BY <2>1, <2>3 DEF Scheduled, Schedules
  <2>5. QED
    BY <1>4, <2>4 DEF WatchInv
<1>6. CASE ~Schedules(Cmd) /\ UNCHANGED timers
  <2>1. CASE Scheduled
    <3>1. PICK i \in DOMAIN queue : Schedules(queue[i])
      BY <2>1 DEF Scheduled
    <3>2. i # 1
      BY <1>2, <1>6, <3>1
    <3>3. i - 1 \in DOMAIN queue' /\ queue'[i - 1] = queue[i]
      BY <1>1, <1>2, <3>2
    <3>4. Scheduled'
      BY <3>1, <3>3 DEF Scheduled, Schedules
    <3>5. QED
      BY <1>4, <3>4 DEF WatchInv
  <2>2. CASE Watched
    <3>1. Cmd.op # "store" /\ UNCHANGED <<now, timers>>
      BY <1>6 DEF Schedules, others, OnlyEarly
    <3>2. \A id \in Stored' : id \in Stored /\ windows'[id] = windows[id]
      BY <3>1 DEF Run, Stored, TypeOK
    <3>3. Watched'
      BY <2>2, <3>1, <3>2 DEF Watched, Watches
    <3>4. QED
      BY <1>4, <3>3 DEF WatchInv
  <2>3. QED
    BY <2>1, <2>2 DEF WatchInv
<1>7. CASE Watched'
  BY <1>4, <1>7 DEF WatchInv
<1>8. QED
  BY <1>5, <1>6, <1>7

LEMMA NoneSentWatch ==
  ASSUME NEW cmds, cmds = << >>
  PROVE  cmds \in Seq(Command) /\ \A j \in DOMAIN cmds : cmds[j].fate = "sent"
<1>1. DOMAIN cmds = {}
  OBVIOUS
<1>2. QED
  BY <1>1

LEMMA OneSentWatch ==
  ASSUME NEW op, NEW by, NEW id, Sent(op, by, id) \in Command,
         NEW cmds, cmds = <<Sent(op, by, id)>>
  PROVE  /\ cmds \in Seq(Command) /\ \A j \in DOMAIN cmds : cmds[j].fate = "sent"
         /\ by = Reaper \/ op = "remove" => \E j \in DOMAIN cmds : Schedules(cmds[j])
<1>1. PICK cmd : cmd = Sent(op, by, id)
  OBVIOUS
<1>2. cmd.fate = "sent" /\ cmd.op = op /\ cmd.by = by
  BY <1>1 DEF Sent
<1>3. cmds \in Seq(Command) /\ DOMAIN cmds = {1} /\ cmds[1] = cmd
  BY <1>1
<1>4. QED
  BY <1>2, <1>3 DEF Schedules

LEMMA HeadsSentWatch ==
  ASSUME redis = "up", NEW n \in Nat \ {0}, NEW cmds, cmds = NextEndQueries(n)
  PROVE  /\ cmds \in Seq(Command) /\ \A j \in DOMAIN cmds : cmds[j].fate = "sent"
         /\ \E j \in DOMAIN cmds : Schedules(cmds[j])
<1>1. PICK cmd : cmd = Sent("head", Reaper, NoId)
  OBVIOUS
<1>2. cmd.fate = "sent" /\ cmd.op = "head" /\ cmd \in Command
  BY <1>1 DEF Sent, Command
<1>3. cmds = [i \in 1..n |-> cmd]
  BY <1>1 DEF NextEndQueries
<1>4. cmds \in Seq(Command) /\ DOMAIN cmds = 1..n /\ \A j \in 1..n : cmds[j] = cmd
  BY <1>2, <1>3
<1>5. 1 \in DOMAIN cmds
  BY <1>4
<1>6. QED
  BY <1>2, <1>4, <1>5 DEF Schedules

\* What is known when a command is answered and nothing failed yet.
LEMMA Untroubled ==
  ASSUME TypeOK, WatchInv, errors = 0, queue # <<>>
  PROVE  /\ redis = "up" /\ ~Failed /\ Runs /\ Cmd.fate = "sent"
         /\ \A s \in Slot : timers[s].kind # "retry"
<1>1. 1 \in DOMAIN queue /\ Cmd = queue[1]
  BY DEF TypeOK, Cmd
<1>2. QED
  BY <1>1 DEF WatchInv, NoTrouble, Failed, Runs

\* Answers after which the reaper schedules.
LEMMA ScheduleWatch ==
  ASSUME TypeOK, WatchInv, errors = 0,
         StoreReply \/ RemoveReply \/ ReaperExpungeReply \/ ReaperRemoveReply
  PROVE  WatchInv'
<1>1. queue # <<>> /\ Run /\ UNCHANGED others
  BY DEF StoreReply, RemoveReply, ReaperExpungeReply, ReaperRemoveReply, Answers
<1>2. redis = "up" /\ ~Failed /\ \A s \in Slot : timers[s].kind # "retry"
  BY <1>1, Untroubled
<1>3. ClearTimeout /\ \E n \in {1, 2} : Then(NextEndQueries(n))
  BY <1>2 DEF StoreReply, RemoveReply, ReaperExpungeReply, ReaperRemoveReply
<1>4. PICK n, cmds : /\ n \in Nat \ {0}
                     /\ cmds = NextEndQueries(n) /\ Then(cmds)
  BY <1>3
<1>5. /\ cmds \in Seq(Command) /\ \A j \in DOMAIN cmds : cmds[j].fate = "sent"
      /\ \E j \in DOMAIN cmds : Schedules(cmds[j])
  BY <1>2, <1>4, HeadsSentWatch
<1>6. \A s \in Slot : timers'[s].kind # "retry"
  BY <1>2, <1>3 DEF ClearTimeout, TypeOK, Off
<1>7. QED
  BY <1>1, <1>4, <1>5, <1>6, ReplyWatch

\* Answers that neither concern the reaper nor store or remove a window.
LEMMA CallReplyWatch ==
  ASSUME TypeOK, WatchInv, errors = 0,
         IncrReply \/ GetReply \/ ExpungeReply \/ CurrReply \/ ListReply \/ FetchReply
  PROVE  WatchInv'
<1>1. queue # <<>> /\ Run /\ UNCHANGED others /\ UNCHANGED timers
  BY DEF IncrReply, GetReply, ExpungeReply, CurrReply, ListReply, FetchReply, Answers, timeouts
<1>2. ~Failed /\ Runs /\ (\A s \in Slot : timers[s].kind # "retry")
      /\ Cmd.by \in Calls \cup {Reaper} /\ Cmd.id \in Id \cup {NoId}
      /\ (Cmd.op \in {"incr", "list", "fetch", "curr"} => Cmd.by \in Calls)
  BY <1>1, Untroubled, CmdFields
<1>3. Cmd.by \in Calls /\ Cmd.op \in {"incr", "get", "expunge", "curr", "list", "fetch"}
  BY <1>2 DEF IncrReply, GetReply, ExpungeReply, CurrReply, ListReply, FetchReply, Answers
<1>4. ~Schedules(Cmd)
  BY <1>3 DEF Schedules
<1>5. \/ Then(<<>>)
      \/ \E op \in {"store", "expunge", "remove", "curr", "fetch"}, id \in Id \cup {NoId} :
           Then(<<Sent(op, Cmd.by, id)>>)
  <2>1. CASE IncrReply
    <3>1. DrawnId \in Id
      BY <1>2, <2>1 DEF IncrReply, DrawnId, Id, TypeOK
    <3>2. QED
      BY <1>2, <2>1, <3>1 DEF IncrReply
  <2>2. CASE GetReply
    BY <1>2, <2>2 DEF GetReply
  <2>3. CASE ExpungeReply
    BY <1>2, <2>3 DEF ExpungeReply
  <2>4. CASE CurrReply \/ ListReply
    BY <1>2, <2>4 DEF CurrReply, ListReply, NoId
  <2>5. CASE FetchReply
    BY <1>2, <2>5 DEF FetchReply, NoId
  <2>6. QED
    BY <2>1, <2>2, <2>3, <2>4, <2>5, Zenon
<1>6. PICK cmds : /\ cmds \in Seq(Command) /\ Then(cmds)
                  /\ \A j \in DOMAIN cmds : cmds[j].fate = "sent"
  <2>1. CASE Then(<<>>)
    BY <2>1, NoneSentWatch
  <2>2. ASSUME NEW op \in {"store", "expunge", "remove", "curr", "fetch"},
               NEW id \in Id \cup {NoId}, Then(<<Sent(op, Cmd.by, id)>>)
        PROVE  \E cmds : /\ cmds \in Seq(Command) /\ Then(cmds)
                         /\ \A j \in DOMAIN cmds : cmds[j].fate = "sent"
    <3>1. PICK by, cmds : by = Cmd.by /\ cmds = <<Sent(op, by, id)>>
      OBVIOUS
    <3>2. Sent(op, by, id) \in Command
      BY <1>3, <3>1 DEF Sent, Command
    <3>3. cmds \in Seq(Command) /\ \A j \in DOMAIN cmds : cmds[j].fate = "sent"
      BY <3>1, <3>2, OneSentWatch
    <3>4. QED
      BY <2>2, <3>1, <3>3
  <2>3. QED
    BY <1>5, <2>1, <2>2
<1>7. QED
  BY <1>1, <1>2, <1>4, <1>6, ReplyWatch

\* The timeout that is set is due by the end of the first window, so by every end.
LEMMA HeadWatch ==
  ASSUME TypeOK, WatchInv, errors = 0, HeadReply
  PROVE  WatchInv'
<1>1. /\ queue # <<>> /\ Run /\ OnlyEarly /\ Then(<<>>) /\ Cmd.op = "head"
  BY DEF HeadReply, Answers, OnlyEarly, TypeOK, Stored
<1>2. ~Failed /\ \A s \in Slot : timers[s].kind # "retry"
  BY <1>1, Untroubled
<1>3. UNCHANGED windows /\ UNCHANGED now /\ Stored' = Stored
  BY <1>1 DEF Run, OnlyEarly, Stored
<1>4. (\A s \in Slot : timers'[s].kind # "retry") /\ Watched'
  <2>1. CASE Stored = {}
    BY <1>2, <1>3, <2>1 DEF HeadReply, timeouts, Watched
  <2>2. CASE Stored # {}
    <3>1. PICK id \in Stored, s \in Slot :
            EndsFirst(id) /\ Arm(timers, s, "expire", now + ExpiresIn(id), id)
      BY <1>2, <2>2 DEF HeadReply
    <3>2. PICK at : at = now + ExpiresIn(id)
      OBVIOUS
    <3>3. /\ timers \in [Slot -> Timer]
          /\ timers' = [timers EXCEPT ![s] = [kind |-> "expire", at |-> at, id |-> id]]
      BY <3>1, <3>2 DEF Arm, TypeOK
    <3>4. timers'[s].kind = "expire" /\ timers'[s].at = at
      BY <3>3
    <3>5. \A x \in Stored : windows[x].end \in Nat /\ now \in Nat
      BY DEF Stored, TypeOK, Time
    <3>6. at <= windows[id].end \/ at <= now + MinWait
      BY <3>2, <3>5 DEF ExpiresIn, TooLong, Wait, MaintenancesAssumption
    <3>7. ASSUME NEW x \in Stored PROVE Watches(timers[s], windows[x])'
      <4>1. windows[id].end <= windows[x].end
        BY <3>1 DEF EndsFirst
      <4>2. at \in Int /\ windows[x].end \in Int /\ windows[id].end \in Int
        BY <3>2, <3>5 DEF ExpiresIn, TooLong, Wait, MaintenancesAssumption
      <4>3. at <= windows[x].end \/ at <= now + MinWait
        BY <3>5, <3>6, <4>1, <4>2
      <4>4. QED
        BY <1>3, <3>4, <4>3 DEF Watches
    <3>8. \A t \in Slot : timers'[t].kind # "retry"
      BY <1>2, <3>3
    <3>9. QED
      BY <1>3, <3>7, <3>8 DEF Watched
  <2>3. QED
    BY <2>1, <2>2
<1>5. PICK cmds : cmds = << >>
  OBVIOUS
<1>6. QED
  BY <1>1, <1>4, <1>5, NoneSentWatch, ReplyWatch

LEMMA ReaperGetWatch ==
  ASSUME TypeOK, WatchInv, errors = 0, ReaperGetReply
  PROVE  WatchInv'
<1>1. /\ queue # <<>> /\ Run /\ UNCHANGED others /\ Cmd.op = "get"
  BY DEF ReaperGetReply, Answers
<1>2. ~Failed /\ (\A s \in Slot : timers[s].kind # "retry") /\ Cmd.id \in Id
  BY <1>1, Untroubled, CmdFields
<1>3. PICK op, id, cmds :
        /\ op \in {"remove", "expunge"} /\ id = Cmd.id
        /\ cmds = <<Sent(op, Reaper, id)>> /\ Then(cmds) /\ UNCHANGED timers
  BY <1>2 DEF ReaperGetReply
<1>4. Sent(op, Reaper, id) \in Command
  BY <1>2, <1>3 DEF Sent, Command
<1>5. /\ cmds \in Seq(Command) /\ \A j \in DOMAIN cmds : cmds[j].fate = "sent"
      /\ \E j \in DOMAIN cmds : Schedules(cmds[j])
  BY <1>3, <1>4, OneSentWatch
<1>6. QED
  BY <1>1, <1>2, <1>3, <1>5, ReplyWatch

\* Commands are sent outside of answers: either the reaper's are among them or the
\* timeouts stay.
LEMMA SendWatch ==
  ASSUME TypeOK, WatchInv, errors = 0, redis = "up", UNCHANGED <<redis, now, errors, windows>>,
         NEW cmds \in Seq(Command), Send(cmds),
         \A j \in DOMAIN cmds : cmds[j].fate = "sent",
         \A s \in Slot : timers'[s].kind # "retry",
         UNCHANGED timers \/ \E j \in DOMAIN cmds : Schedules(cmds[j])
  PROVE  WatchInv'
<1>1. queue \in Seq(Command) /\ queue' = queue \o cmds
  BY DEF TypeOK, Send
<1>2. NoTrouble'
  <2>1. \A i \in DOMAIN queue' : queue'[i].fate = "sent"
    BY <1>1, SendQueue DEF WatchInv, NoTrouble
  <2>2. QED
    BY <2>1 DEF NoTrouble
<1>3. CASE UNCHANGED timers
  <2>1. Scheduled => Scheduled'
    <3> SUFFICES ASSUME NEW i \in DOMAIN queue, Schedules(queue[i]) PROVE Scheduled'
      BY DEF Scheduled
    <3>1. i \in DOMAIN queue' /\ queue'[i] = queue[i]
      BY <1>1
    <3>2. QED
      BY <3>1 DEF Scheduled, Schedules
  <2>2. Watched => Watched'
    BY <1>3 DEF Watched, Watches, Stored
  <2>3. QED
    BY <1>2, <2>1, <2>2 DEF WatchInv
<1>4. CASE \E j \in DOMAIN cmds : Schedules(cmds[j])
  <2>1. PICK j \in DOMAIN cmds : Schedules(cmds[j])
    BY <1>4
  <2>2. PICK i : i = Len(queue) + j
    OBVIOUS
  <2>3. i \in DOMAIN queue' /\ queue'[i] = cmds[j]
    BY <1>1, <2>2
  <2>4. QED
    BY <1>2, <2>1, <2>3 DEF WatchInv, Scheduled, Schedules
<1>5. QED
  BY <1>3, <1>4

\* With no command sent, or nothing at all done.
LEMMA QuietWatch ==
  ASSUME TypeOK, WatchInv, errors = 0, UNCHANGED <<errors, windows, queue, timers>>,
         now' \in Nat, now <= now', redis' = redis \/ redis' = "up"
  PROVE  WatchInv'
<1>1. NoTrouble' /\ (Scheduled => Scheduled')
  BY DEF WatchInv, NoTrouble, Scheduled, Schedules
<1>2. ASSUME Watched PROVE Watched'
  <2>1. now \in Nat /\ MinWait \in Nat /\ \A s \in Slot : timers[s].at \in Nat
    BY DEF TypeOK, Timer, Time
  <2>2. \A s \in Slot : \A m : Watches(timers[s], m) => Watches(timers[s], m)'
    BY <2>1 DEF Watches
  <2>3. QED
    BY <1>2, <2>2 DEF Watched, Stored, Watches
<1>3. QED
  BY <1>1, <1>2 DEF WatchInv

LEMMA BeginWatch ==
  ASSUME TypeOK, WatchInv, errors = 0, NEW c \in Calls, Begin(c)
  PROVE  WatchInv'
<1>1. UNCHANGED <<now, redis, windows, timers, errors>>
      /\ \A s \in Slot : timers[s].kind # "retry"
  BY DEF Begin, WatchInv, NoTrouble
<1>2. PICK q \in Asked : IF redis = "up" THEN Send(<<Sent(FirstCommand(q.kind), c, q.id)>>)
                         ELSE UNCHANGED queue
  BY DEF Begin
<1>3. CASE redis = "up"
  <2>1. q \in Call
    BY AskedType
  <2>2. PICK op, id, cmds : op = FirstCommand(q.kind) /\ id = q.id /\ cmds = <<Sent(op, c, id)>>
    OBVIOUS
  <2>3. Sent(op, c, id) \in Command
    BY <2>1, <2>2 DEF Sent, Command, Call, FirstCommand
  <2>4. cmds \in Seq(Command) /\ \A j \in DOMAIN cmds : cmds[j].fate = "sent"
    BY <2>2, <2>3, OneSentWatch
  <2>5. QED
    BY <1>1, <1>2, <1>3, <2>2, <2>4, SendWatch
<1>4. CASE redis # "up"
  BY <1>1, <1>2, <1>4, QuietWatch DEF TypeOK, Time
<1>5. QED
  BY <1>3, <1>4

LEMMA TimerWatch ==
  ASSUME TypeOK, WatchInv, errors = 0, NEW s \in Slot, TimerFires(s)
  PROVE  WatchInv'
<1>1. /\ timers \in [Slot -> Timer]
      /\ \A t \in Slot : timers[t].kind # "retry"
  BY DEF WatchInv, NoTrouble, TypeOK
<1>2. timers[s].kind = "expire" /\ Expire(s) /\ timers[s].id \in Id
  BY <1>1 DEF TimerFires, Retry, Expire, TypeOK, ArgumentsSet
<1>3. redis = "up"
  BY <1>2 DEF WatchInv, NoTrouble, Off
<1>4. PICK id, cmds : id = timers[s].id /\ cmds = <<Sent("get", Reaper, id)>>
  OBVIOUS
<1>5. Send(cmds) /\ timers' = [timers EXCEPT ![s] = Off]
      /\ UNCHANGED <<redis, now, errors, windows>>
  BY <1>2, <1>3, <1>4 DEF Expire, others
<1>6. Sent("get", Reaper, id) \in Command
  BY <1>2, <1>4 DEF Sent, Command
<1>7. /\ cmds \in Seq(Command) /\ \A j \in DOMAIN cmds : cmds[j].fate = "sent"
      /\ \E j \in DOMAIN cmds : Schedules(cmds[j])
  BY <1>4, <1>6, OneSentWatch
<1>8. \A t \in Slot : timers'[t].kind # "retry"
  BY <1>1, <1>5 DEF Off
<1>9. QED
  BY <1>3, <1>5, <1>7, <1>8, SendWatch

LEMMA StartupWatch ==
  ASSUME TypeOK, WatchInv, errors = 0, Startup
  PROVE  WatchInv'
<1>1. UNCHANGED <<now, redis, windows, timers, errors>> /\ Send(NextEndQueries(1))
      /\ \A s \in Slot : timers[s].kind # "retry"
  BY DEF Startup, WatchInv, NoTrouble, timeouts
<1>2. CASE redis = "up"
  <2>1. PICK n, cmds : n = 1 /\ cmds = NextEndQueries(n)
    OBVIOUS
  <2>2. /\ cmds \in Seq(Command) /\ \A j \in DOMAIN cmds : cmds[j].fate = "sent"
    BY <1>2, <2>1, HeadsSentWatch
  <2>3. QED
    BY <1>1, <1>2, <2>1, <2>2, SendWatch
<1>3. CASE redis # "up"
  <2>1. UNCHANGED queue
    BY <1>1, <1>3 DEF Send, NextEndQueries, WatchInv, NoTrouble
  <2>2. QED
    BY <1>1, <2>1, QuietWatch DEF TypeOK, Time
<1>4. QED
  BY <1>2, <1>3

LEMMA StepWatch == TypeOK /\ WatchInv /\ [Next]_vars => WatchInv'
<1> SUFFICES ASSUME TypeOK, WatchInv, [Next]_vars PROVE WatchInv'
  OBVIOUS
<1>1. CASE errors # 0
  <2>1. CASE Reply
    <3>1. UNCHANGED others \/ UNCHANGED errors
      BY <2>1 DEF Reply, IncrReply, StoreReply, GetReply, ExpungeReply, CurrReply, RemoveReply,
         ListReply, FetchReply, HeadReply, ReaperGetReply, ReaperExpungeReply,
         ReaperRemoveReply, Orphan
    <3>2. QED
      BY <1>1, <3>1 DEF others, WatchInv
  <2>2. CASE Refuse \/ LoseRedis \/ Crash
    <3>1. \E f : Fails(f)
      BY <2>2 DEF Refuse, LoseRedis, Crash
    <3>2. errors' = errors + 1 /\ errors \in Nat
      BY <3>1 DEF Fails, TypeOK
    <3>3. QED
      BY <3>2 DEF WatchInv
  <2>3. CASE (\E c \in Calls : Begin(c)) \/ (\E s \in Slot : TimerFires(s))
             \/ Connect \/ Startup \/ Tick \/ UNCHANGED vars
    <3>1. UNCHANGED errors
      BY <2>3 DEF Begin, TimerFires, Expire, Retry, Connect, Startup, Tick, others, vars
    <3>2. QED
      BY <1>1, <3>1 DEF WatchInv
  <2>4. QED
    BY <2>1, <2>2, <2>3 DEF Next
<1>2. CASE errors = 0
  <2>1. ASSUME NEW c \in Calls, Begin(c) PROVE WatchInv'
    BY <1>2, <2>1, BeginWatch
  <2>2. CASE Reply
    <3>1. CASE Orphan
      BY <1>2, <3>1, Untroubled DEF Orphan
    <3>2. QED
      BY <1>2, <2>2, <3>1, ScheduleWatch, CallReplyWatch, HeadWatch, ReaperGetWatch DEF Reply
  <2>3. ASSUME NEW s \in Slot, TimerFires(s) PROVE WatchInv'
    BY <1>2, <2>3, TimerWatch
  <2>4. CASE Refuse \/ LoseRedis \/ Crash
    BY <1>2, <2>4 DEF Refuse, LoseRedis, Crash, Fails, WatchInv
  <2>5. CASE Startup
    BY <1>2, <2>5, StartupWatch
  <2>6. CASE Connect \/ Tick \/ UNCHANGED vars
    BY <1>2, <2>6, QuietWatch DEF Connect, Tick, vars, timeouts, TypeOK, Time
  <2>7. QED
    BY <2>1, <2>2, <2>3, <2>4, <2>5, <2>6 DEF Next
<1>3. QED
  BY <1>1, <1>2

\* However creations, deletions and expiries interleave, as long as nothing fails the
\* end of every window has a timeout that is due by then or at most MAX_REAPER_FREQ
\* from now, or a command is under way whose answer sets one.
THEOREM NextEndStaysWatched == Spec => []NextEndIsWatched
<1>1. Init => TypeOK /\ WatchInv
  BY InitType, InitWatch
<1>2. TypeOK /\ WatchInv /\ [Next]_vars => (TypeOK /\ WatchInv)'
  BY StepType, StepWatch
<1>3. QED
  BY <1>1, <1>2, WatchIsWatched, PTL DEF Spec

-----------------------------------------------------------------------------
(***************************************************************************)
(* The check made for an event: a window that was there when it began and *)
(* is there when it ends has been looked at.                                 *)
(***************************************************************************)

\* No window of those that were there when the check began covers its event.
Unseen(c) ==
  \A id \in call[c].before \cap Stored : ~Covers(windows[id], call[c].event)

\* What a command says of the call that sent it.
Silent(cmd) ==
  cmd.by \in Calls =>
    /\ cmd.op \in {"incr", "store"} => call[cmd.by].kind = "create"
    /\ cmd.op = "get" => call[cmd.by].kind \in {"get", "delete"}
    /\ cmd.op = "fetch" => call[cmd.by].before \cap Stored \subseteq call[cmd.by].ids
    /\ cmd.op = "expunge" /\ call[cmd.by].kind = "check" /\ ~call[cmd.by].verdict =>
         Unseen(cmd.by)
AreSilent == \A i \in DOMAIN queue : Silent(queue[i])

\* A check that is not answered has no status; the windows it began with are stored
\* or gone for good.
Known(c) ==
  /\ call[c].kind = "check" /\ call[c].pc = "busy" => call[c].status = 0
  /\ \A id \in call[c].before : Settled(id)
AllKnown == \A c \in Calls : Known(c)

SilenceInv == TypeOK /\ IdsAreUsedOnce /\ AllKnown /\ AreSilent

-----------------------------------------------------------------------------
(* What a step does to a call *)

GoesOn(c) ==
  /\ call'[c].kind = call[c].kind /\ call'[c].event = call[c].event
  /\ call'[c].before = call[c].before
  /\ call'[c].ids = call[c].ids \/ Stored' \subseteq call'[c].ids
  /\ call[c].kind = "check" =>
       call'[c].verdict = call[c].verdict \/ call'[c].verdict \/ Unseen(c)'
  /\ call[c].kind = "check" /\ call'[c].pc = "busy" => call'[c].status = 0
  /\ /\ call[c].kind = "check" /\ call[c].pc = "busy"
     /\ call'[c].status = 200 /\ ~call'[c].verdict
     => Unseen(c)
Starts(c) ==
  /\ call'[c].before \subseteq Stored
  /\ call'[c].pc = "busy" => call'[c].status = 0
Moves == \A c \in Calls : IF call[c].pc = "idle"
                          THEN call'[c] = call[c] \/ Starts(c) ELSE GoesOn(c)

LEMMA SameGoesOn ==
  ASSUME NEW c, Known(c), call'[c] = call[c]
  PROVE  GoesOn(c)
  BY DEF GoesOn, Known

LEMMA CallsSame == ASSUME AllKnown, UNCHANGED call PROVE Moves
  BY SameGoesOn DEF Moves, AllKnown

LEMMA OneGoesOn ==
  ASSUME TypeOK, AllKnown, NEW c \in Calls, NEW r, call' = [call EXCEPT ![c] = r],
         GoesOn(c), call[c].pc # "idle"
  PROVE  Moves
<1>1. \A x \in Calls : x # c => call'[x] = call[x]
  BY DEF TypeOK
<1>2. \A x \in Calls : x # c => GoesOn(x)
  BY <1>1, SameGoesOn DEF AllKnown
<1>3. QED
  BY <1>1, <1>2 DEF Moves

LEMMA KnownStays ==
  ASSUME TypeOK, IdsAreUsedOnce, AllKnown, Fresh, Moves
  PROVE  AllKnown'
<1>1. ASSUME NEW c \in Calls, GoesOn(c) \/ call'[c] = call[c] PROVE Known(c)'
  <2>1. Known(c)
    BY DEF AllKnown
  <2>2. /\ call'[c].kind = "check" /\ call'[c].pc = "busy" => call'[c].status = 0
        /\ call'[c].before = call[c].before
    BY <1>1, <2>1 DEF GoesOn, Known
  <2>3. \A id \in call[c].before : Settled(id)'
    BY <2>1, SettledStays DEF Known
  <2>4. QED
    BY <2>2, <2>3 DEF Known
<1>2. ASSUME NEW c \in Calls, Starts(c) PROVE Known(c)'
  <2>1. \A id \in Stored : Settled(id)
    BY DEF Settled, IdsAreUsedOnce, NewWindowIsNew, Stored
  <2>2. \A id \in Stored : Settled(id)'
    BY <2>1, SettledStays
  <2>3. QED
    BY <1>2, <2>2 DEF Starts, Known
<1>3. QED
  BY <1>1, <1>2 DEF Moves, AllKnown

\* What is unseen stays so, because no window appears among the old ones.
LEMMA UnseenStays ==
  ASSUME TypeOK, IdsAreUsedOnce, Fresh, NEW c \in Calls, Known(c), Unseen(c),
         call'[c].event = call[c].event, call'[c].before = call[c].before
  PROVE  Unseen(c)'
<1>1. ASSUME NEW id \in call[c].before, id \in Stored'
      PROVE  id \in Stored /\ windows'[id] = windows[id]
  BY <1>1, SettledStays DEF Known
<1>2. QED
  BY <1>1 DEF Unseen

LEMMA SilentStays ==
  ASSUME TypeOK, IdsAreUsedOnce, AllKnown, Fresh, Moves,
         NEW cmd \in Command, ArgumentsOf(cmd), Silent(cmd)
  PROVE  Silent(cmd)'
<1> SUFFICES ASSUME cmd.by \in Calls PROVE Silent(cmd)'
  BY DEF Silent
<1>1. PICK c \in Calls : c = cmd.by
  OBVIOUS
<1>2. call[c].pc # "idle" /\ GoesOn(c) /\ Known(c)
  BY <1>1 DEF ArgumentsOf, Moves, AllKnown
<1>3. ASSUME call[c].before \cap Stored \subseteq call[c].ids
      PROVE  call'[c].before \cap Stored' \subseteq call'[c].ids
  <2>1. \A id \in call[c].before : id \in Stored' => id \in Stored
    BY <1>2, SettledStays DEF Known
  <2>2. QED
    BY <1>2, <1>3, <2>1 DEF GoesOn
<1>4. ASSUME call[c].kind = "check",
             ~call[c].verdict => Unseen(c), ~call'[c].verdict
      PROVE  Unseen(c)'
  <2>1. CASE ~call[c].verdict
    BY <1>2, <1>4, <2>1, UnseenStays DEF GoesOn
  <2>2. CASE call[c].verdict
    BY <1>2, <1>4, <2>2 DEF GoesOn
  <2>3. QED
    BY <2>1, <2>2
<1>5. call'[c].kind = call[c].kind
  BY <1>2 DEF GoesOn
<1>6. QED
  BY <1>1, <1>3, <1>4, <1>5 DEF Silent

-----------------------------------------------------------------------------
(* What a step sends *)

\* Every command was there or is one of those sent.
LEMMA TakenCommands ==
  ASSUME TypeOK, NEW cmds \in Seq(Command), Takes(cmds), NEW i \in DOMAIN queue'
  PROVE  \/ \E k \in DOMAIN queue : queue'[i] = queue[k]
         \/ \E j \in DOMAIN cmds : queue'[i] = cmds[j]
<1>1. queue \in Seq(Command)
  BY DEF TypeOK
<1>2. CASE queue # <<>> /\ Then(cmds)
  <2>1. \A k \in DOMAIN queue' :
          \/ k + 1 \in DOMAIN queue /\ queue'[k] = queue[k + 1]
          \/ \E j \in DOMAIN cmds : queue'[k] = cmds[j]
    BY <1>1, <1>2, ThenQueue
  <2>2. QED
    BY <2>1
<1>3. CASE Send(cmds)
  BY <1>1, <1>3, SendQueue
<1>4. QED
  BY <1>2, <1>3 DEF Takes

Going == Fresh /\ Moves

LEMMA SilentCommands ==
  ASSUME SilenceInv, Going, NEW cmds \in Seq(Command), Takes(cmds),
         \A j \in DOMAIN cmds : Silent(cmds[j])'
  PROVE  AreSilent'
<1>1. ASSUME NEW i \in DOMAIN queue' PROVE Silent(queue[i])'
  <2>1. \/ \E k \in DOMAIN queue : queue'[i] = queue[k]
        \/ \E j \in DOMAIN cmds : queue'[i] = cmds[j]
    BY TakenCommands DEF SilenceInv
  <2>2. ASSUME NEW k \in DOMAIN queue, queue'[i] = queue[k]
        PROVE  Silent(queue[i])'
    <3>1. PICK cmd \in Command : cmd = queue[k]
      BY DEF SilenceInv, TypeOK
    <3>2. ArgumentsOf(cmd) /\ Silent(cmd)
      BY <3>1 DEF SilenceInv, TypeOK, ArgumentsSet, AreSilent
    <3>3. Silent(cmd)'
      BY <3>2, SilentStays DEF SilenceInv, Going
    <3>4. QED
      BY <2>2, <3>1, <3>3
  <2>3. ASSUME NEW j \in DOMAIN cmds, queue'[i] = cmds[j]
        PROVE  Silent(queue[i])'
    BY <2>3
  <2>4. QED
    BY <2>1, <2>2, <2>3
<1>2. QED
  BY <1>1 DEF AreSilent

LEMMA SilentFates == ASSUME SilenceInv, Going, FatesOnly PROVE AreSilent'
<1>1. ASSUME NEW i \in DOMAIN queue' PROVE Silent(queue[i])'
  <2>1. i \in DOMAIN queue /\ queue \in Seq(Command)
    BY DEF FatesOnly, SilenceInv, TypeOK
  <2>2. PICK cmd \in Command : cmd = queue[i]
    BY <2>1
  <2>3. ArgumentsOf(cmd) /\ Silent(cmd)
    BY <2>1, <2>2 DEF SilenceInv, TypeOK, ArgumentsSet, AreSilent
  <2>4. Silent(cmd)'
    BY <2>3, SilentStays DEF SilenceInv, Going
  <2>5. queue'[i].op = cmd.op /\ queue'[i].by = cmd.by
    BY <2>2 DEF FatesOnly
  <2>6. QED
    BY <2>4, <2>5 DEF Silent
<1>2. QED
  BY <1>1 DEF AreSilent

LEMMA SilentQuiet == ASSUME SilenceInv, Going, UNCHANGED queue PROVE AreSilent'
<1>1. FatesOnly
  BY DEF FatesOnly, SilenceInv, TypeOK
<1>2. QED
  BY <1>1, SilentFates

LEMMA SilentNone == ASSUME SilenceInv, Going, Takes(<<>>) PROVE AreSilent'
<1>1. PICK cmds : cmds = << >>
  OBVIOUS
<1>2. cmds \in Seq(Command) /\ DOMAIN cmds = {} /\ Takes(cmds)
  BY <1>1
<1>3. QED
  BY <1>2, SilentCommands

LEMMA SilentHeads ==
  ASSUME SilenceInv, Going, NEW n \in Nat, Takes(NextEndQueries(n))
  PROVE  AreSilent'
<1>1. PICK cmds : cmds = NextEndQueries(n)
  OBVIOUS
<1>2. cmds \in Seq(Command) /\ \A j \in DOMAIN cmds : cmds[j] = Sent("head", Reaper, NoId)
  BY <1>1, NextEndType
<1>3. \A j \in DOMAIN cmds : Silent(cmds[j])'
  BY <1>2 DEF Silent, Sent, MaintenancesAssumption
<1>4. Takes(cmds)
  BY <1>1
<1>5. QED
  BY <1>2, <1>3, <1>4, SilentCommands

\* One command: of the reaper, or one that says what is so of its call.
LEMMA SilentOne ==
  ASSUME SilenceInv, Going,
         NEW op \in {"incr", "store", "get", "expunge", "remove", "list", "fetch", "curr"},
         NEW by \in Calls \cup {Reaper}, NEW id \in Id \cup {NoId},
         Takes(<<Sent(op, by, id)>>),
         by \in Calls =>
           /\ op \in {"incr", "store"} => call'[by].kind = "create"
           /\ op = "get" => call'[by].kind \in {"get", "delete"}
           /\ op = "fetch" => Stored' \subseteq call'[by].ids
           /\ op = "expunge" /\ call'[by].kind = "check" /\ ~call'[by].verdict => Unseen(by)'
  PROVE  AreSilent'
<1>1. PICK cmd : cmd = Sent(op, by, id)
  OBVIOUS
<1>2. cmd \in Command /\ cmd.op = op /\ cmd.by = by
  BY <1>1 DEF Sent, Command
<1>3. Silent(cmd)'
  BY <1>2 DEF Silent
<1>4. PICK cmds : cmds = <<cmd>>
  OBVIOUS
<1>5. cmds \in Seq(Command) /\ DOMAIN cmds = {1} /\ cmds[1] = cmd
  BY <1>2, <1>4
<1>6. \A j \in DOMAIN cmds : Silent(cmds[j])'
  BY <1>3, <1>5
<1>7. Takes(cmds)
  BY <1>1, <1>4
<1>8. QED
  BY <1>5, <1>6, <1>7, SilentCommands

-----------------------------------------------------------------------------
(* The steps, one by one *)

\* The same call, but answered.
SameButDone(new, old, status) ==
  /\ new.pc = "done" /\ new.status = status
  /\ new.kind = old.kind /\ new.event = old.event /\ new.before = old.before
  /\ new.ids = old.ids /\ new.verdict = old.verdict

LEMMA DoneFields ==
  ASSUME NEW old \in Call, NEW status \in Statuses
  PROVE  SameButDone([old EXCEPT !.pc = "done", !.status = status], old, status)
<1> DEFINE done == [old EXCEPT !.pc = "done"]
           new == [done EXCEPT !.status = status]
<1>1. /\ DOMAIN done = DOMAIN old /\ done.pc = "done"
      /\ done.kind = old.kind /\ done.event = old.event /\ done.before = old.before
      /\ done.ids = old.ids /\ done.verdict = old.verdict
  BY DEF Call
<1>2. {"pc", "status", "kind", "event", "before", "ids", "verdict"} \subseteq DOMAIN old
  BY DEF Call
<1>3. /\ new.pc = "done" /\ new.status = status
      /\ new.kind = old.kind /\ new.event = old.event /\ new.before = old.before
      /\ new.ids = old.ids /\ new.verdict = old.verdict
  <2> HIDE DEF done
  <2>1. QED
    BY <1>1, <1>2
<1>4. new = [old EXCEPT !.pc = "done", !.status = status]
  OBVIOUS
<1> HIDE DEF new
<1>5. SameButDone(new, old, status)
  BY <1>3 DEF SameButDone
<1>6. QED
  BY <1>4, <1>5

\* A call is answered; a check says that its event is out of maintenance only if
\* nothing is unseen.
LEMMA FinishMoves ==
  ASSUME TypeOK, AllKnown, NEW c \in Calls, call[c].pc # "idle",
         NEW status \in Statuses, Finish(c, status),
         call[c].kind = "check" /\ status = 200 /\ ~call[c].verdict => Unseen(c)
  PROVE  Moves
<1>1. PICK old \in Call : old = call[c]
  BY DEF TypeOK
<1>2. PICK new : new = [old EXCEPT !.pc = "done", !.status = status]
  OBVIOUS
<1>3. call' = [call EXCEPT ![c] = new]
  BY <1>1, <1>2 DEF Finish
<1>4. call'[c] = new
  BY <1>3 DEF TypeOK
<1>5. SameButDone(new, old, status)
  BY <1>2, DoneFields
<1>6. GoesOn(c)
  BY <1>1, <1>4, <1>5 DEF GoesOn, SameButDone
<1>7. QED
  BY <1>3, <1>6, OneGoesOn

\* A call goes on with other values of what its check does not read.
LEMMA OtherMoves ==
  ASSUME TypeOK, AllKnown, NEW c \in Calls, call[c].pc # "idle", call[c].kind # "check",
         NEW r, call' = [call EXCEPT ![c] = r],
         r.kind = call[c].kind, r.event = call[c].event, r.before = call[c].before,
         r.ids = call[c].ids, r.verdict = call[c].verdict
  PROVE  Moves
<1>1. call'[c] = r
  BY DEF TypeOK
<1>2. GoesOn(c)
  BY <1>1 DEF GoesOn
<1>3. QED
  BY <1>2, OneGoesOn

LEMMA CmdSilent ==
  ASSUME SilenceInv, queue # <<>>
  PROVE  /\ Silent(Cmd)
         /\ Cmd.by \in Calls => call[Cmd.by] \in Call /\ call[Cmd.by].pc # "idle"
<1>1. 1 \in DOMAIN queue /\ Cmd = queue[1]
  BY DEF SilenceInv, TypeOK, Cmd
<1>2. QED
  BY <1>1, CmdType DEF SilenceInv, AreSilent, TypeOK, ArgumentsOf

LEMMA IncrSilent ==
  ASSUME SilenceInv, Fresh, IncrReply
  PROVE  Moves /\ AreSilent'
<1>1. /\ queue # <<>> /\ Cmd.op = "incr" /\ Run /\ (Runs => counter < MaxWindows)
      /\ TypeOK /\ AllKnown
  BY DEF IncrReply, Answers, SilenceInv
<1>2. PICK c \in Calls : c = Cmd.by
  BY <1>1, CmdFields
<1>3. call[c].kind = "create" /\ call[c] \in Call /\ call[c].pc # "idle"
  BY <1>1, <1>2, CmdSilent DEF Silent
<1>4. CASE Failed
  <2>1. Finish(c, 500) /\ Then(<<>>)
    BY <1>2, <1>4 DEF IncrReply
  <2>2. Moves
    BY <1>1, <1>3, <2>1, FinishMoves DEF Statuses
  <2>3. Going /\ Takes(<<>>)
    BY <1>1, <2>1, <2>2 DEF Going, Takes
  <2>4. QED
    BY <2>2, <2>3, SilentNone
<1>5. CASE ~Failed
  <2>1. Runs
    BY <1>1, <1>5, CmdType DEF Failed, Runs, Command
  <2>2. PICK id \in Id : id = counter + 1
    BY <1>1, <2>1 DEF TypeOK, Id
  <2>3. Moves /\ call'[c].kind = "create"
    <3> DEFINE r == [call[c] EXCEPT !.id = id]
    <3>1. /\ r.kind = call[c].kind /\ r.event = call[c].event
          /\ r.before = call[c].before /\ r.ids = call[c].ids
          /\ r.verdict = call[c].verdict
      BY <1>3 DEF Call
    <3>2. call' = [call EXCEPT ![c] = r]
      BY <1>2, <1>5, <2>2 DEF IncrReply, DrawnId
    <3> HIDE DEF r
    <3>3. Moves
      BY <1>1, <1>3, <3>1, <3>2, OtherMoves
    <3>4. QED
      BY <1>1, <1>3, <3>1, <3>2, <3>3 DEF TypeOK
  <2>4. Then(<<Sent("store", c, id)>>)
    BY <1>2, <1>5, <2>2 DEF IncrReply, DrawnId
  <2>5. Going /\ Takes(<<Sent("store", c, id)>>)
    BY <1>1, <2>3, <2>4 DEF Going, Takes
  <2>6. QED
    BY <2>3, <2>5, SilentOne
<1>6. QED
  BY <1>4, <1>5

LEMMA EndsSilent ==
  ASSUME SilenceInv, Fresh, StoreReply \/ RemoveReply
  PROVE  Moves /\ AreSilent'
<1>1. queue # <<>> /\ Cmd.by \in Calls /\ TypeOK /\ AllKnown
  BY CmdFields DEF StoreReply, RemoveReply, Answers, SilenceInv
<1>2. PICK c \in Calls : c = Cmd.by
  BY <1>1
<1>3. call[c].pc # "idle" /\ (StoreReply => call[c].kind = "create")
  BY <1>1, <1>2, CmdSilent DEF Silent, StoreReply, Answers
<1>4. PICK status \in Statuses : Finish(c, status) /\ (status = 200 => StoreReply)
  BY <1>2 DEF StoreReply, RemoveReply, Statuses
<1>5. Moves
  BY <1>1, <1>3, <1>4, FinishMoves
<1>6. Then(<<>>) \/ Then(NextEndQueries(1))
  BY DEF StoreReply, RemoveReply
<1>7. Going /\ (Takes(<<>>) \/ Takes(NextEndQueries(1)))
  BY <1>1, <1>5, <1>6 DEF Going, Takes
<1>8. QED
  BY <1>5, <1>7, SilentNone, SilentHeads

LEMMA GetSilent ==
  ASSUME SilenceInv, Fresh, GetReply
  PROVE  Moves /\ AreSilent'
<1>1. /\ queue # <<>> /\ Cmd.op = "get" /\ Cmd.by \in Calls /\ Cmd.id \in Id
      /\ TypeOK /\ AllKnown
  BY CmdFields DEF GetReply, Answers, SilenceInv
<1>2. PICK c \in Calls, id \in Id : c = Cmd.by /\ id = Cmd.id
  BY <1>1
<1>3. call[c].kind \in {"get", "delete"} /\ call[c].pc # "idle"
  BY <1>1, <1>2, CmdSilent DEF Silent
<1>4. \/ Then(<<>>) /\ (Finish(c, 500) \/ Finish(c, 200))
      \/ \E op \in {"expunge", "remove"} : Then(<<Sent(op, c, id)>>) /\ UNCHANGED call
  BY <1>2 DEF GetReply
<1>5. CASE Then(<<>>) /\ (Finish(c, 500) \/ Finish(c, 200))
  <2>1. Moves
    BY <1>1, <1>3, <1>5, FinishMoves DEF Statuses
  <2>2. Going /\ Takes(<<>>)
    BY <1>1, <1>5, <2>1 DEF Going, Takes
  <2>3. QED
    BY <2>1, <2>2, SilentNone
<1>6. ASSUME NEW op \in {"expunge", "remove"},
             Then(<<Sent(op, c, id)>>), UNCHANGED call
      PROVE  Moves /\ AreSilent'
  <2>1. Moves
    BY <1>1, <1>6, CallsSame
  <2>2. Going /\ Takes(<<Sent(op, c, id)>>)
    BY <1>1, <1>6, <2>1 DEF Going, Takes
  <2>3. call'[c].kind # "check"
    BY <1>3, <1>6
  <2>4. QED
    BY <2>1, <2>2, <2>3, SilentOne
<1>7. QED
  BY <1>4, <1>5, <1>6

LEMMA ExpungeSilent ==
  ASSUME SilenceInv, Fresh, ExpungeReply
  PROVE  Moves /\ AreSilent'
<1>1. queue # <<>> /\ Cmd.op = "expunge" /\ Cmd.by \in Calls /\ TypeOK /\ AllKnown
      /\ Cmd.id \in Id \cup {NoId}
  BY CmdFields DEF ExpungeReply, Answers, SilenceInv
<1>2. PICK c \in Calls, id \in Id \cup {NoId} : c = Cmd.by /\ id = Cmd.id
  BY <1>1
<1>3. /\ call[c].kind = "check" /\ ~call[c].verdict => Unseen(c)
      /\ call[c].pc # "idle" /\ call[c] \in Call
  BY <1>1, <1>2, CmdSilent DEF Silent
<1>4. Moves
  <2>1. CASE Finish(c, 500) \/ Finish(c, 200)
    BY <1>1, <1>3, <2>1, FinishMoves DEF Statuses
  <2>2. ASSUME NEW pc, call' = [call EXCEPT ![c].pc = pc], call[c].kind # "check"
        PROVE  Moves
    <3> DEFINE r == [call[c] EXCEPT !.pc = pc]
    <3>1. /\ r.kind = call[c].kind /\ r.event = call[c].event
          /\ r.before = call[c].before /\ r.ids = call[c].ids
          /\ r.verdict = call[c].verdict
      BY <1>3 DEF Call
    <3>2. call' = [call EXCEPT ![c] = r]
      BY <2>2
    <3> HIDE DEF r
    <3>3. QED
      BY <1>1, <1>3, <2>2, <3>1, <3>2, OtherMoves
  <2>3. \/ Finish(c, 500) \/ Finish(c, 200)
        \/ \E pc : call' = [call EXCEPT ![c].pc = pc] /\ call[c].kind # "check"
    BY <1>2 DEF ExpungeReply
  <2>4. QED
    BY <2>1, <2>2, <2>3
<1>5. Then(<<>>) \/ Then(<<Sent("curr", c, id)>>)
  BY <1>2 DEF ExpungeReply
<1>6. Going /\ (Takes(<<>>) \/ Takes(<<Sent("curr", c, id)>>))
  BY <1>1, <1>4, <1>5 DEF Going, Takes
<1>7. QED
  BY <1>4, <1>6, SilentNone, SilentOne

LEMMA CurrSilent ==
  ASSUME SilenceInv, Fresh, CurrReply
  PROVE  Moves /\ AreSilent'
<1>1. queue # <<>> /\ Cmd.by \in Calls /\ TypeOK /\ AllKnown /\ Then(<<>>)
  BY CmdFields DEF CurrReply, Answers, SilenceInv
<1>2. PICK status \in Statuses : Finish(Cmd.by, status) /\ status # 200
  BY DEF CurrReply, Statuses
<1>3. Moves
  BY <1>1, <1>2, CmdSilent, FinishMoves
<1>4. Going /\ Takes(<<>>)
  BY <1>1, <1>3 DEF Going, Takes
<1>5. QED
  BY <1>3, <1>4, SilentNone

LEMMA ListSilent ==
  ASSUME SilenceInv, Fresh, ListReply
  PROVE  Moves /\ AreSilent'
<1>1. /\ queue # <<>> /\ Cmd.op = "list" /\ Run /\ Cmd.by \in Calls
      /\ TypeOK /\ AllKnown
  BY CmdFields DEF ListReply, Answers, SilenceInv
<1>2. PICK c \in Calls : c = Cmd.by
  BY <1>1
<1>3. call[c].pc # "idle" /\ call[c] \in Call
  BY <1>1, <1>2, CmdSilent
<1>4. Stored' = Stored
  BY <1>1 DEF Run, Stored
<1>5. \/ Then(<<>>) /\ (Finish(c, 500) \/ (Stored = {} /\ Finish(c, 200)))
      \/ /\ Then(<<Sent("fetch", c, NoId)>>)
         /\ call' = [call EXCEPT ![c].ids = Stored]
  BY <1>2 DEF ListReply
<1>6. CASE Then(<<>>) /\ (Finish(c, 500) \/ (Stored = {} /\ Finish(c, 200)))
  <2>1. Stored = {} => Unseen(c)
    BY DEF Unseen
  <2>2. Moves
    BY <1>1, <1>3, <1>6, <2>1, FinishMoves DEF Statuses
  <2>3. Going /\ Takes(<<>>)
    BY <1>1, <1>6, <2>2 DEF Going, Takes
  <2>4. QED
    BY <2>2, <2>3, SilentNone
<1>7. CASE /\ Then(<<Sent("fetch", c, NoId)>>)
           /\ call' = [call EXCEPT ![c].ids = Stored]
  <2>1. Moves /\ call'[c].ids = Stored
    <3> DEFINE r == [call[c] EXCEPT !.ids = Stored]
    <3>1. /\ r.kind = call[c].kind /\ r.event = call[c].event
          /\ r.before = call[c].before /\ r.ids = Stored
          /\ r.verdict = call[c].verdict
          /\ r.pc = call[c].pc /\ r.status = call[c].status
      BY <1>3 DEF Call
    <3>2. call' = [call EXCEPT ![c] = r]
      BY <1>7
    <3> HIDE DEF r
    <3>3. call'[c] = r
      BY <1>1, <3>2 DEF TypeOK
    <3>4. Known(c)
      BY <1>1 DEF AllKnown
    <3>5. GoesOn(c)
      BY <1>4, <3>1, <3>3, <3>4 DEF GoesOn, Known
    <3>6. QED
      BY <1>1, <1>3, <3>1, <3>2, <3>3, <3>5, OneGoesOn
  <2>2. Going /\ Takes(<<Sent("fetch", c, NoId)>>)
    BY <1>1, <1>7, <2>1 DEF Going, Takes
  <2>3. Stored' \subseteq call'[c].ids
    BY <1>4, <2>1
  <2>4. QED
    BY <2>1, <2>2, <2>3, SilentOne
<1>8. QED
  BY <1>5, <1>6, <1>7

\* The same call, its hashes read.
SameButRead(new, old, verdict, pc, status) ==
  /\ new.verdict = verdict /\ new.pc = pc /\ new.status = status
  /\ new.kind = old.kind /\ new.event = old.event /\ new.before = old.before
  /\ new.ids = old.ids

LEMMA FetchFields ==
  ASSUME NEW old \in Call, NEW verdict \in BOOLEAN, NEW pc, NEW status
  PROVE  SameButRead([old EXCEPT !.verdict = verdict, !.pc = pc, !.status = status],
                     old, verdict, pc, status)
<1> DEFINE r1 == [old EXCEPT !.verdict = verdict]
           r2 == [r1 EXCEPT !.pc = pc]
<1>1. {"pc", "status", "kind", "event", "before", "ids", "verdict"} \subseteq DOMAIN old
  BY DEF Call
<1>2. /\ DOMAIN r1 = DOMAIN old
      /\ r1.kind = old.kind /\ r1.event = old.event /\ r1.before = old.before
      /\ r1.ids = old.ids /\ r1.verdict = verdict
  BY <1>1
<1> DEFINE new == [r2 EXCEPT !.status = status]
<1>3. new = [old EXCEPT !.verdict = verdict, !.pc = pc, !.status = status]
  OBVIOUS
<1> HIDE DEF r1
<1>4. /\ DOMAIN r2 = DOMAIN old
      /\ r2.kind = old.kind /\ r2.event = old.event /\ r2.before = old.before
      /\ r2.ids = old.ids /\ r2.verdict = verdict /\ r2.pc = pc
  BY <1>1, <1>2
<1> HIDE DEF r2
<1>5. SameButRead(new, old, verdict, pc, status)
  BY <1>1, <1>4 DEF SameButRead
<1> HIDE DEF new
<1>6. QED
  BY <1>3, <1>5

\* What the hashes tell: a check that finds no window covering its event has looked
\* at all that were there when it began.
LEMMA FetchSilent ==
  ASSUME SilenceInv, Fresh, FetchReply
  PROVE  Moves /\ AreSilent'
<1>1. /\ queue # <<>> /\ Cmd.op = "fetch" /\ Run /\ Cmd.by \in Calls
      /\ TypeOK /\ AllKnown
  BY CmdFields DEF FetchReply, Answers, SilenceInv
<1>2. PICK c \in Calls : c = Cmd.by
  BY <1>1
<1>3. /\ call[c].before \cap Stored \subseteq call[c].ids
      /\ call[c].pc # "idle" /\ call[c] \in Call
  BY <1>1, <1>2, CmdSilent DEF Silent
<1>4. UNCHANGED windows
  BY <1>1 DEF Run
<1> DEFINE found == call[c].ids \cap Stored
           verdict == call[c].kind = "check" /\ InMaintenance(found, call[c].event)
           whole == found = call[c].ids
<1>5. call[c].kind = "check" /\ ~verdict => Unseen(c)
  BY <1>3 DEF InMaintenance, Unseen
<1>6. CASE Failed
  <2>1. Finish(c, 500) /\ Then(<<>>)
    BY <1>2, <1>6 DEF FetchReply, Finish
  <2>2. Moves
    BY <1>1, <1>3, <2>1, FinishMoves DEF Statuses
  <2>3. Going /\ Takes(<<>>)
    BY <1>1, <2>1, <2>2 DEF Going, Takes
  <2>4. QED
    BY <2>2, <2>3, SilentNone
<1>7. CASE ~Failed
  <2>1. PICK v \in BOOLEAN : v = verdict
    BY Zenon DEF InMaintenance
  <2>2. PICK pc, status : /\ pc = (IF whole THEN "done" ELSE "busy")
                          /\ status = (IF whole THEN 200 ELSE 0)
    OBVIOUS
  <2>3. PICK old \in Call : old = call[c]
    BY <1>3
  <2>4. PICK new : new = [old EXCEPT !.verdict = v, !.pc = pc, !.status = status]
    OBVIOUS
  <2>5. call' = [call EXCEPT ![c] = new]
    BY <1>2, <1>7, <2>1, <2>2, <2>3, <2>4 DEF FetchReply
  <2>6. /\ new.kind = old.kind /\ new.event = old.event /\ new.before = old.before
        /\ new.ids = old.ids /\ new.pc = pc /\ new.status = status
        /\ new.verdict = v
    BY <2>4, FetchFields DEF SameButRead
  <2>7. call'[c] = new
    BY <1>1, <2>5 DEF TypeOK
  <2>8. call[c].kind = "check" /\ ~v => Unseen(c)
    BY <1>5, <2>1
  <2>9. Unseen(c) => Unseen(c)'
    <3>1. call'[c].before = call[c].before /\ call'[c].event = call[c].event
      BY <2>3, <2>6, <2>7
    <3>2. QED
      BY <1>4, <3>1 DEF Unseen, Stored
  <2>10. Then(<<>>) \/ (Then(<<Sent("expunge", c, NoId)>>) /\ ~whole)
    BY <1>2 DEF FetchReply
  <2>11. Moves
    <3>1. pc = "busy" => status = 0
      BY <2>2
    <3>2. call'[c].kind = call[c].kind /\ call'[c].event = call[c].event
          /\ call'[c].before = call[c].before /\ call'[c].ids = call[c].ids
          /\ call'[c].pc = pc /\ call'[c].status = status /\ call'[c].verdict = v
      BY <2>3, <2>6, <2>7
    <3>3. call[c].kind = "check" => v \/ Unseen(c)'
      BY <2>8, <2>9
    <3>4. GoesOn(c)
      BY <2>8, <3>1, <3>2, <3>3 DEF GoesOn
    <3>5. QED
      BY <1>1, <1>3, <2>5, <3>4, OneGoesOn
  <2>12. Going /\ (Takes(<<>>) \/ Takes(<<Sent("expunge", c, NoId)>>))
    BY <1>1, <2>10, <2>11 DEF Going, Takes
  <2>13. call'[c].kind = "check" /\ ~call'[c].verdict => Unseen(c)'
    BY <2>3, <2>6, <2>7, <2>8, <2>9
  <2>14. QED
    BY <2>11, <2>12, <2>13, SilentNone, SilentOne DEF MaintenancesAssumption
<1>8. QED
  BY <1>6, <1>7

\* Orphans and the reaper's answers.
LEMMA ReaperSilent ==
  ASSUME SilenceInv, Fresh,
         \/ Orphan \/ HeadReply \/ ReaperGetReply \/ ReaperExpungeReply
         \/ ReaperRemoveReply
  PROVE  Moves /\ AreSilent'
<1>1. queue # <<>> /\ UNCHANGED call /\ AllKnown /\ TypeOK
  BY DEF Orphan, HeadReply, ReaperGetReply, ReaperExpungeReply, ReaperRemoveReply,
     Answers, SilenceInv
<1>2. Moves
  BY <1>1, CallsSame
<1>3. \/ Then(<<>>) \/ Then(NextEndQueries(1)) \/ Then(NextEndQueries(2))
      \/ Cmd.id \in Id
         /\ \E op \in {"expunge", "remove"} : Then(<<Sent(op, Reaper, Cmd.id)>>)
  BY <1>1, CmdFields DEF Orphan, HeadReply, ReaperGetReply, ReaperExpungeReply,
     ReaperRemoveReply, Answers
<1>4. Going
  BY <1>2 DEF Going
<1>5. CASE Then(<<>>) \/ Then(NextEndQueries(1)) \/ Then(NextEndQueries(2))
  <2>1. Takes(<<>>) \/ Takes(NextEndQueries(1)) \/ Takes(NextEndQueries(2))
    BY <1>1, <1>5 DEF Takes
  <2>2. QED
    BY <1>2, <1>4, <2>1, SilentNone, SilentHeads
<1>6. ASSUME NEW op \in {"expunge", "remove"}, NEW id \in Id,
             Then(<<Sent(op, Reaper, id)>>)
      PROVE  Moves /\ AreSilent'
  <2>1. Takes(<<Sent(op, Reaper, id)>>)
    BY <1>1, <1>6 DEF Takes
  <2>2. QED
    BY <1>2, <1>4, <2>1, SilentOne DEF MaintenancesAssumption
<1>7. QED
  BY <1>3, <1>5, <1>6

LEMMA TimerSilent ==
  ASSUME SilenceInv, Fresh, NEW s \in Slot, TimerFires(s)
  PROVE  Moves /\ AreSilent'
<1>1. UNCHANGED call /\ AllKnown /\ TypeOK
  BY DEF TimerFires, Expire, Retry, SilenceInv
<1>2. Moves /\ Going
  BY <1>1, CallsSame DEF Going
<1>3. CASE Expire(s)
  <2>1. PICK id \in Id : id = timers[s].id
    BY <1>1, <1>3 DEF Expire, TypeOK, ArgumentsSet
  <2>2. UNCHANGED queue \/ Takes(<<Sent("get", Reaper, id)>>)
    BY <1>3, <2>1 DEF Expire, Takes
  <2>3. QED
    BY <1>2, <2>2, SilentQuiet, SilentOne DEF MaintenancesAssumption
<1>4. CASE Retry(s)
  <2>1. Takes(NextEndQueries(1))
    BY <1>4 DEF Retry, Takes
  <2>2. QED
    BY <1>2, <2>1, SilentHeads
<1>5. QED
  BY <1>3, <1>4 DEF TimerFires

LEMMA FailureSilent ==
  ASSUME SilenceInv, Fresh, Refuse \/ LoseRedis \/ Crash
  PROVE  Moves /\ AreSilent'
<1>1. TypeOK /\ AllKnown
  BY DEF SilenceInv
<1>2. FatesOnly
  BY <1>1, RefuseFates, LoseRedisFates, CrashFates
<1>3. Moves
  <2>1. CASE UNCHANGED call
    BY <1>1, <2>1, CallsSame
  <2>2. CASE Crash
    <3>1. ASSUME NEW c \in Calls, call[c].pc # "idle", call'[c] # call[c]
          PROVE  GoesOn(c)
      <4>1. PICK old \in Call, status \in Statuses : old = call[c] /\ status = 500
        BY <1>1 DEF TypeOK, Statuses
      <4>2. PICK new : new = [old EXCEPT !.pc = "done", !.status = status]
        OBVIOUS
      <4>3. SameButDone(new, old, status)
        BY <4>2, DoneFields
      <4>4. call'[c] = new
        BY <2>2, <3>1, <4>1, <4>2 DEF Crash
      <4>5. QED
        BY <4>1, <4>3, <4>4 DEF GoesOn, SameButDone
    <3>2. ASSUME NEW c \in Calls, call'[c] = call[c] PROVE GoesOn(c)
      BY <1>1, <3>2, SameGoesOn DEF AllKnown
    <3>3. \A c \in Calls : call[c].pc = "idle" => call'[c] = call[c]
      BY <2>2 DEF Crash
    <3>4. QED
      BY <3>1, <3>2, <3>3 DEF Moves
  <2>3. QED
    BY <2>1, <2>2 DEF Refuse, LoseRedis
<1>4. QED
  BY <1>2, <1>3, SilentFates DEF Going

LEMMA QuietSilent ==
  ASSUME SilenceInv, Fresh, Connect \/ Tick \/ Startup \/ UNCHANGED vars
  PROVE  Moves /\ AreSilent'
<1>1. UNCHANGED call /\ AllKnown /\ (UNCHANGED queue \/ Takes(NextEndQueries(1)))
  BY DEF Connect, Tick, Startup, vars, Takes, SilenceInv
<1>2. Moves /\ Going
  BY <1>1, CallsSame DEF Going
<1>3. QED
  BY <1>1, <1>2, SilentQuiet, SilentHeads

LEMMA AskFields ==
  ASSUME NEW q \in Asked
  PROVE  q.before = {} /\ q.status = 0
  BY DEF Asked, Ask

LEMMA BeginSilent ==
  ASSUME SilenceInv, Fresh, NEW c \in Calls, Begin(c)
  PROVE  Moves /\ AreSilent'
<1>1. PICK q \in Asked :
        IF redis = "up"
        THEN /\ call' = [call EXCEPT ![c] = [q EXCEPT !.pc = "busy", !.before = Stored]]
             /\ Send(<<Sent(FirstCommand(q.kind), c, q.id)>>)
        ELSE /\ call' = [call EXCEPT ![c] = [q EXCEPT !.pc = "done", !.status = 500]]
             /\ UNCHANGED queue
  BY DEF Begin
<1>2. q \in Call /\ q.before = {} /\ q.status = 0
  BY AskedType, AskFields
<1>3. /\ TypeOK /\ AllKnown /\ call[c].pc = "idle"
      /\ \A x \in Calls : x # c => call'[x] = call[x]
  BY DEF SilenceInv, TypeOK, Begin
<1>4. \A x \in Calls : x # c => GoesOn(x)
  BY <1>3, SameGoesOn DEF AllKnown
<1>5. CASE redis = "up"
  <2> DEFINE busy == [q EXCEPT !.pc = "busy"]
             r == [busy EXCEPT !.before = Stored]
  <2>1. busy.kind = q.kind /\ busy.status = 0 /\ DOMAIN busy = DOMAIN q
    BY <1>2 DEF Call
  <2>2. {"before", "status", "kind"} \subseteq DOMAIN q
    BY <1>2 DEF Call
  <2>3. call' = [call EXCEPT ![c] = r]
    BY <1>1, <1>5
  <2>4. r.kind = q.kind /\ r.status = 0 /\ r.before = Stored
    <3> HIDE DEF busy
    <3>1. QED
      BY <2>1, <2>2
  <2> HIDE DEF r
  <2>5. call'[c] = r
    BY <1>3, <2>3 DEF TypeOK
  <2>6. Moves
    BY <1>3, <1>4, <2>4, <2>5 DEF Moves, Starts
  <2>7. PICK op \in {"incr", "get", "list"} :
          /\ op = FirstCommand(q.kind)
          /\ op = "incr" => q.kind = "create"
          /\ op = "get" => q.kind \in {"get", "delete"}
    BY <1>2 DEF FirstCommand, Call
  <2>8. PICK id \in Id \cup {NoId} : id = q.id
    BY <1>2 DEF Call
  <2>9. Going /\ Takes(<<Sent(op, c, id)>>)
    BY <1>1, <1>5, <2>6, <2>7, <2>8 DEF Going, Takes
  <2>10. call'[c].kind = q.kind
    BY <2>4, <2>5
  <2>11. QED
    BY <2>6, <2>7, <2>9, <2>10, SilentOne
<1>6. CASE redis # "up"
  <2>1. PICK status \in Statuses : status = 500
    BY DEF Statuses
  <2>2. PICK r : r = [q EXCEPT !.pc = "done", !.status = status]
    OBVIOUS
  <2>3. SameButDone(r, q, status)
    BY <1>2, <2>2, DoneFields
  <2>4. call'[c] = r /\ UNCHANGED queue
    BY <1>1, <1>3, <1>6, <2>1, <2>2 DEF TypeOK
  <2>5. Starts(c)
    BY <1>2, <2>3, <2>4 DEF Starts, SameButDone
  <2>6. Moves
    BY <1>3, <1>4, <2>5 DEF Moves
  <2>7. QED
    BY <2>4, <2>6, SilentQuiet DEF Going
<1>7. QED
  BY <1>5, <1>6

-----------------------------------------------------------------------------
(* The theorem *)

LEMMA StepMoves ==
  ASSUME SilenceInv, [Next]_vars
  PROVE  Fresh /\ Moves /\ AreSilent'
<1>1. Fresh
  BY StepFresh DEF SilenceInv
<1>2. CASE \E c \in Calls : Begin(c)
  BY <1>1, <1>2, BeginSilent
<1>3. CASE Reply
  BY <1>1, <1>3, IncrSilent, EndsSilent, GetSilent, ExpungeSilent, CurrSilent,
     ListSilent, FetchSilent, ReaperSilent DEF Reply
<1>4. CASE \E s \in Slot : TimerFires(s)
  BY <1>1, <1>4, TimerSilent
<1>5. CASE Refuse \/ LoseRedis \/ Crash
  BY <1>1, <1>5, FailureSilent
<1>6. CASE Connect \/ Tick \/ Startup \/ UNCHANGED vars
  BY <1>1, <1>6, QuietSilent
<1>7. QED
  BY <1>2, <1>3, <1>4, <1>5, <1>6 DEF Next

LEMMA StepSilence == ASSUME SilenceInv, [Next]_vars PROVE SilenceInv'
  BY StepMoves, StepType, FreshStep, KnownStays DEF SilenceInv

LEMMA InitSilence == ASSUME Init PROVE SilenceInv
<1>1. TypeOK /\ IdsAreUsedOnce
  BY InitType, InitFresh
<1>2. AllKnown
  BY DEF Init, AllKnown, Known, NoCall, Ask
<1>3. AreSilent
  BY DEF Init, AreSilent
<1>4. QED
  BY <1>1, <1>2, <1>3 DEF SilenceInv

\* An event is found out of maintenance only if no window covers it that was there
\* when its check began and still is when it ends: what was created, removed or
\* expired between the list of the ids and the read of their hashes, what redis
\* answered in what order, and any failure, make no difference.
THEOREM WindowsSilence == Spec => WindowSilencesEvents
<1>1. SilenceInv /\ [Next]_vars =>
        [\A c \in Calls :
           /\ call[c].kind = "check" /\ call[c].pc = "busy"
           /\ call'[c].status = 200 /\ ~call'[c].verdict
           => \A id \in call[c].before \cap Stored :
                ~Covers(windows[id], call[c].event)]_vars
  <2> SUFFICES ASSUME SilenceInv, [Next]_vars, NEW c \in Calls,
                      call[c].kind = "check", call[c].pc = "busy",
                      call'[c].status = 200, ~call'[c].verdict
               PROVE  \A id \in call[c].before \cap Stored :
                        ~Covers(windows[id], call[c].event)
    OBVIOUS
  <2>1. GoesOn(c)
    BY StepMoves DEF Moves
  <2>2. QED
    BY <2>1 DEF GoesOn, Unseen
<1>2. Init => SilenceInv
  BY InitSilence
<1>3. SilenceInv /\ [Next]_vars => SilenceInv'
  BY StepSilence
<1>4. QED
  BY <1>1, <1>2, <1>3, PTL DEF Spec, WindowSilencesEvents
-----------------------------------------------------------------------------
(***************************************************************************)
(* A window lasts until its end.                                           *)
(***************************************************************************)

EndsBy(id, t) == id \in Stored /\ id \notin early => windows[id].end <= t

\* No timeout comes before the end of its window, but for one too far away.
TimersWait ==
  \A s \in Slot : timers[s].kind = "expire" =>
    Settled(timers[s].id) /\ EndsBy(timers[s].id, timers[s].at)
EarlyGrows == early \subseteq early'

\* The reaper removes only what has ended or was too far away for a timeout.  A call
\* removes what it shall delete, and a request that gets a window expunges only what
\* was not stored yet when it came, or is gone.
ReaperIsLate(cmd) ==
  cmd.by = Reaper /\ cmd.op \in {"get", "expunge", "remove"} =>
    Settled(cmd.id) /\ EndsBy(cmd.id, now)
CallsAsked(cmd) ==
  cmd.by \in Calls =>
    /\ cmd.op \in {"incr", "store"} => call[cmd.by].kind = "create"
    /\ \/ cmd.op \in {"get", "remove"}
       \/ cmd.op = "expunge" /\ cmd.id # NoId
       => call[cmd.by].kind \in {"get", "delete"} /\ call[cmd.by].id = cmd.id
    /\ cmd.op = "remove" => call[cmd.by].kind = "delete"
    /\ /\ cmd.op = "expunge" /\ cmd.id # NoId
       /\ call[cmd.by].kind = "get" /\ cmd.id \in call[cmd.by].before
       => cmd.id \notin Stored
Safe(cmd) == ReaperIsLate(cmd) /\ CallsAsked(cmd)
CommandsAreSafe == \A i \in DOMAIN queue : Safe(queue[i])

LastsInv == SilenceInv /\ TimersWait /\ CommandsAreSafe

LEMMA EndsStays ==
  ASSUME TypeOK, IdsAreUsedOnce, Fresh, EarlyGrows, NEW id, Settled(id), NEW t, EndsBy(id, t)
  PROVE  EndsBy(id, t)'
  BY SettledStays DEF EndsBy, EarlyGrows

\* Timeouts that are only set by rescheduleLater or cleared.
TimersOld == \A s \in Slot : timers'[s].kind = "expire" => timers'[s] = timers[s]

LEMMA TimersStay ==
  ASSUME TypeOK, IdsAreUsedOnce, Fresh, EarlyGrows, TimersWait, TimersOld
  PROVE  TimersWait'
<1>1. ASSUME NEW s \in Slot, timers'[s].kind = "expire"
      PROVE  Settled(timers[s].id)' /\ EndsBy(timers[s].id, timers[s].at)'
  <2>1. PICK t : t = timers[s]
    OBVIOUS
  <2>2. timers'[s] = t
    BY <1>1, <2>1 DEF TimersOld
  <2>3. PICK id, at : id = t.id /\ at = t.at
    OBVIOUS
  <2>4. Settled(id) /\ EndsBy(id, at)
    BY <1>1, <2>1, <2>2, <2>3 DEF TimersWait
  <2>5. Settled(id)' /\ EndsBy(id, at)'
    BY <2>4, SettledStays, EndsStays
  <2>6. QED
    BY <2>2, <2>3, <2>5
<1>2. QED
  BY <1>1 DEF TimersWait

\* What a call is about does not change, but for the id of a new window.
KindsKeep ==
  \A c \in Calls : call[c].pc # "idle" =>
    /\ call'[c].kind = call[c].kind
    /\ call[c].kind # "create" => call'[c].id = call[c].id

LEMMA SafeStays ==
  ASSUME TypeOK, IdsAreUsedOnce, AllKnown, Fresh, Moves, EarlyGrows, KindsKeep,
         now' \in Nat, now <= now',
         NEW cmd \in Command, ArgumentsOf(cmd), Safe(cmd)
  PROVE  Safe(cmd)'
<1>1. ReaperIsLate(cmd)'
  <2>1. ASSUME cmd.by = Reaper, cmd.op \in {"get", "expunge", "remove"}
        PROVE  Settled(cmd.id)' /\ EndsBy(cmd.id, now)'
    <3>1. Settled(cmd.id) /\ EndsBy(cmd.id, now)
      BY <2>1 DEF Safe, ReaperIsLate
    <3>2. Settled(cmd.id)'
          /\ (cmd.id \in Stored' => cmd.id \in Stored /\ windows'[cmd.id] = windows[cmd.id])
      BY <3>1, SettledStays
    <3>3. cmd.id \in Stored => windows[cmd.id].end \in Nat
      BY DEF Stored, TypeOK, MaintenancesAssumption
    <3>4. now \in Nat
      BY DEF TypeOK, Time, MaintenancesAssumption
    <3>5. QED
      BY <3>1, <3>2, <3>3, <3>4 DEF EndsBy, EarlyGrows
  <2>2. QED
    BY <2>1 DEF ReaperIsLate
<1>2. CallsAsked(cmd)'
  <2> SUFFICES ASSUME cmd.by \in Calls PROVE CallsAsked(cmd)'
    BY DEF CallsAsked
  <2>1. call[cmd.by].pc # "idle" /\ CallsAsked(cmd)
    BY DEF ArgumentsOf, Safe
  <2>2. /\ call'[cmd.by].kind = call[cmd.by].kind
        /\ call[cmd.by].kind # "create" => call'[cmd.by].id = call[cmd.by].id
        /\ call'[cmd.by].before = call[cmd.by].before
    BY <2>1 DEF KindsKeep, Moves, GoesOn
  <2>3. cmd.id \in call[cmd.by].before /\ cmd.id \notin Stored => cmd.id \notin Stored'
    BY SettledStays DEF AllKnown, Known
  <2>4. QED
    BY <2>1, <2>2, <2>3 DEF CallsAsked
<1>3. QED
  BY <1>1, <1>2 DEF Safe

LEMMA CommandsStay ==
  ASSUME TypeOK, IdsAreUsedOnce, AllKnown, CommandsAreSafe, Fresh, Moves, EarlyGrows, KindsKeep,
         now' \in Nat, now <= now', NEW cmds \in Seq(Command),
         (queue # <<>> /\ Then(cmds)) \/ Send(cmds),
         \A j \in DOMAIN cmds : Safe(cmds[j])'
  PROVE  CommandsAreSafe'
<1>1. queue \in Seq(Command)
  BY DEF TypeOK
<1>2. ASSUME NEW i \in DOMAIN queue' PROVE Safe(queue[i])'
  <2>1. \/ \E k \in DOMAIN queue : queue'[i] = queue[k]
        \/ \E j \in DOMAIN cmds : queue'[i] = cmds[j]
    <3>1. CASE queue # <<>> /\ Then(cmds)
      <4>1. \A k \in DOMAIN queue' :
              \/ k + 1 \in DOMAIN queue /\ queue'[k] = queue[k + 1]
              \/ \E j \in DOMAIN cmds : queue'[k] = cmds[j]
        BY <1>1, <3>1, ThenQueue
      <4>2. QED
        BY <4>1
    <3>2. CASE Send(cmds)
      BY <1>1, <3>2, SendQueue
    <3>3. QED
      BY <3>1, <3>2
  <2>2. ASSUME NEW k \in DOMAIN queue, queue'[i] = queue[k]
        PROVE  Safe(queue[i])'
    <3>1. PICK cmd \in Command : cmd = queue[k]
      BY <1>1
    <3>2. ArgumentsOf(cmd) /\ Safe(cmd)
      BY <3>1 DEF TypeOK, ArgumentsSet, CommandsAreSafe
    <3>3. Safe(cmd)'
      BY <3>2, SafeStays
    <3>4. QED
      BY <2>2, <3>1, <3>3
  <2>3. ASSUME NEW j \in DOMAIN cmds, queue'[i] = cmds[j]
        PROVE  Safe(queue[i])'
    BY <2>3
  <2>4. QED
    BY <2>1, <2>2, <2>3
<1>3. QED
  BY <1>2 DEF CommandsAreSafe

LEMMA FatesStay ==
  ASSUME TypeOK, IdsAreUsedOnce, AllKnown, CommandsAreSafe, Fresh, Moves, EarlyGrows, KindsKeep, FatesOnly,
         now' \in Nat, now <= now'
  PROVE  CommandsAreSafe'
<1>1. ASSUME NEW i \in DOMAIN queue' PROVE Safe(queue[i])'
  <2>1. i \in DOMAIN queue /\ queue \in Seq(Command)
    BY DEF FatesOnly, TypeOK
  <2>2. PICK cmd \in Command : cmd = queue[i]
    BY <2>1
  <2>3. ArgumentsOf(cmd) /\ Safe(cmd)
    BY <2>1, <2>2 DEF TypeOK, ArgumentsSet, CommandsAreSafe
  <2>4. Safe(cmd)'
    BY <2>3, SafeStays
  <2>5. queue'[i].op = cmd.op /\ queue'[i].by = cmd.by /\ queue'[i].id = cmd.id
    BY <2>2 DEF FatesOnly
  <2>6. QED
    BY <2>4, <2>5 DEF Safe, ReaperIsLate, CallsAsked
<1>2. QED
  BY <1>1 DEF CommandsAreSafe

-----------------------------------------------------------------------------
(* What the steps send *)

Stays ==
  /\ Fresh /\ Moves /\ EarlyGrows /\ KindsKeep
  /\ now' \in Nat /\ now <= now'

LEMMA NothingSafe == ASSUME LastsInv, Stays, Takes(<<>>) PROVE CommandsAreSafe'
<1>1. PICK cmds : cmds = << >>
  OBVIOUS
<1>2. cmds \in Seq(Command) /\ DOMAIN cmds = {}
  BY <1>1
<1>3. (queue # <<>> /\ Then(cmds)) \/ Send(cmds)
  BY <1>1 DEF Takes
<1>4. QED
  BY <1>2, <1>3, CommandsStay DEF LastsInv, SilenceInv, Stays

LEMMA HeadsSafe ==
  ASSUME LastsInv, Stays, NEW n \in Nat, Takes(NextEndQueries(n))
  PROVE  CommandsAreSafe'
<1>1. PICK cmds : cmds = NextEndQueries(n)
  OBVIOUS
<1>2. cmds \in Seq(Command) /\ \A j \in DOMAIN cmds : cmds[j] = Sent("head", Reaper, NoId)
  BY <1>1, NextEndType
<1>3. \A j \in DOMAIN cmds : Safe(cmds[j])'
  BY <1>2 DEF Safe, ReaperIsLate, CallsAsked, Sent, MaintenancesAssumption
<1>4. (queue # <<>> /\ Then(cmds)) \/ Send(cmds)
  BY <1>1 DEF Takes
<1>5. QED
  BY <1>2, <1>3, <1>4, CommandsStay DEF LastsInv, SilenceInv, Stays

LEMMA OneSafe ==
  ASSUME LastsInv, Stays, NEW cmd \in Command, Safe(cmd)', Takes(<<cmd>>)
  PROVE  CommandsAreSafe'
<1>1. PICK cmds : cmds = <<cmd>>
  OBVIOUS
<1>2. cmds \in Seq(Command) /\ DOMAIN cmds = {1} /\ cmds[1] = cmd
  BY <1>1
<1>3. \A j \in DOMAIN cmds : Safe(cmds[j])'
  BY <1>2
<1>4. (queue # <<>> /\ Then(cmds)) \/ Send(cmds)
  BY <1>1 DEF Takes
<1>5. QED
  BY <1>2, <1>3, <1>4, CommandsStay DEF LastsInv, SilenceInv, Stays

\* Commands that remove nothing.
LEMMA HarmlessSafe ==
  ASSUME LastsInv, Stays, NEW op \in {"list", "fetch", "curr", "expunge"},
         NEW by \in Calls, NEW id \in Id \cup {NoId}, op = "expunge" => id = NoId,
         Takes(<<Sent(op, by, id)>>)
  PROVE  CommandsAreSafe'
<1>1. PICK cmd : cmd = Sent(op, by, id)
  OBVIOUS
<1>2. cmd \in Command /\ cmd.op = op /\ cmd.by = by /\ cmd.id = id
  BY <1>1 DEF Sent, Command
<1>3. Safe(cmd)'
  BY <1>2 DEF Safe, ReaperIsLate, CallsAsked, MaintenancesAssumption
<1>4. Takes(<<cmd>>)
  BY <1>1
<1>5. QED
  BY <1>2, <1>3, <1>4, OneSafe

LEMMA QuietSafe == ASSUME LastsInv, Stays, UNCHANGED queue PROVE CommandsAreSafe'
<1>1. FatesOnly
  BY DEF FatesOnly, LastsInv, SilenceInv, TypeOK
<1>2. QED
  BY <1>1, FatesStay DEF LastsInv, SilenceInv, Stays

LEMMA SameTime == ASSUME LastsInv, UNCHANGED now PROVE now' \in Nat /\ now <= now'
  BY DEF LastsInv, SilenceInv, TypeOK, Time, MaintenancesAssumption

LEMMA KindsKept == ASSUME UNCHANGED call PROVE KindsKeep
  BY DEF KindsKeep

LEMMA KindUpdate ==
  ASSUME TypeOK, NEW c \in Calls, NEW r, call' = [call EXCEPT ![c] = r],
         r.kind = call[c].kind, r.id = call[c].id \/ call[c].kind = "create"
  PROVE  KindsKeep
  BY DEF TypeOK, KindsKeep

LEMMA FinishKinds ==
  ASSUME TypeOK, NEW c \in Calls, NEW status \in Statuses, Finish(c, status)
  PROVE  KindsKeep
<1>1. PICK old \in Call : old = call[c]
  BY DEF TypeOK
<1>2. PICK r \in Call : /\ r = [old EXCEPT !.pc = "done", !.status = status]
                        /\ r.pc = "done" /\ r.window = old.window
                        /\ r.kind = old.kind /\ r.id = old.id
  BY DoneType
<1>3. call' = [call EXCEPT ![c] = r]
  BY <1>1, <1>2 DEF Finish
<1>4. QED
  BY <1>1, <1>2, <1>3, KindUpdate

LEMMA RetryOld ==
  ASSUME LastsInv, NEW ts \in [Slot -> Timer],
         \A s \in Slot : ts[s].kind = "expire" => ts[s] = timers[s], RescheduleLater(ts)
  PROVE  TimersOld
  BY DEF RescheduleLater, Arm, TimersOld

LEMMA ClearOld == ASSUME LastsInv, ClearTimeout PROVE TimersOld
  BY DEF LastsInv, SilenceInv, TypeOK, ClearTimeout, TimersOld, Off

LEMMA KeptOld == ASSUME UNCHANGED timers PROVE TimersOld
  BY DEF TimersOld

-----------------------------------------------------------------------------
(* The steps, one by one *)

LEMMA OldTimers == ASSUME LastsInv, Fresh, Moves, EarlyGrows, TimersOld PROVE TimersWait'
  BY TimersStay DEF LastsInv, SilenceInv

LEMMA BeginLasts ==
  ASSUME LastsInv, Fresh, Moves, EarlyGrows, NEW c \in Calls, Begin(c)
  PROVE  TimersWait' /\ CommandsAreSafe'
<1>1. PICK q \in Asked :
        /\ q.kind \in Kinds
        /\ IF redis = "up"
           THEN /\ call' = [call EXCEPT ![c] = [q EXCEPT !.pc = "busy", !.before = Stored]]
                /\ Send(<<Sent(FirstCommand(q.kind), c, q.id)>>)
           ELSE UNCHANGED queue
  BY DEF Begin
<1>2. q \in Call
  BY AskedType
<1>3. q.id \in Id \cup {NoId}
  BY <1>2 DEF Call
<1>4. FirstCommand(q.kind) = IF q.kind = "create" THEN "incr"
                             ELSE IF q.kind \in {"get", "delete"} THEN "get" ELSE "list"
  BY <1>2 DEF FirstCommand, Call
<1>5. TypeOK /\ \A x \in Calls : x # c => call'[x] = call[x]
  BY DEF LastsInv, SilenceInv, TypeOK, Begin
<1>6. KindsKeep
  BY <1>5 DEF KindsKeep, Begin
<1>7. Stays
  BY <1>6, SameTime DEF Begin, Stays
<1>8. TimersWait'
  BY OldTimers, KeptOld DEF Begin
<1>9. CASE redis = "up"
  <2>1. call'[c].kind = q.kind /\ call'[c].id = q.id
    <3> DEFINE r == [q EXCEPT !.pc = "busy", !.before = Stored]
    <3>1. r.kind = q.kind /\ r.id = q.id
      BY <1>2 DEF Call
    <3>2. call' = [call EXCEPT ![c] = r]
      BY <1>1, <1>9
    <3> HIDE DEF r
    <3>3. QED
      BY <1>5, <3>1, <3>2 DEF TypeOK
  <2>2. PICK op \in {"incr", "get", "list"} : op = FirstCommand(q.kind)
    BY <1>4
  <2>3. PICK cmd : cmd = Sent(op, c, q.id)
    OBVIOUS
  <2>4. cmd \in Command /\ cmd.op = op /\ cmd.by = c /\ cmd.id = q.id
    BY <1>3, <2>3 DEF Sent, Command
  <2>5. Safe(cmd)'
    <3>1. op = "incr" => q.kind = "create"
      BY <1>4, <2>2
    <3>2. op = "get" => q.kind \in {"get", "delete"}
      BY <1>4, <2>2
    <3>3. QED
      BY <2>1, <2>4, <3>1, <3>2 DEF Safe, ReaperIsLate, CallsAsked, MaintenancesAssumption
  <2>6. Takes(<<cmd>>)
    BY <1>1, <1>9, <2>2, <2>3 DEF Takes
  <2>7. QED
    BY <1>7, <1>8, <2>4, <2>5, <2>6, OneSafe
<1>10. CASE redis # "up"
  BY <1>1, <1>7, <1>8, <1>10, QuietSafe
<1>11. QED
  BY <1>9, <1>10

LEMMA CmdSafe ==
  ASSUME LastsInv, queue # <<>>
  PROVE  /\ Safe(Cmd)
         /\ Cmd.by \in Calls => call[Cmd.by] \in Call /\ call[Cmd.by].pc # "idle"
<1>1. 1 \in DOMAIN queue /\ Cmd = queue[1]
  BY DEF LastsInv, SilenceInv, TypeOK, Cmd
<1>2. QED
  BY <1>1, CmdType DEF LastsInv, SilenceInv, CommandsAreSafe, TypeOK, ArgumentsOf

LEMMA IncrLasts ==
  ASSUME LastsInv, Fresh, Moves, EarlyGrows, IncrReply
  PROVE  TimersWait' /\ CommandsAreSafe'
<1>1. /\ queue # <<>> /\ Cmd.op = "incr" /\ Run /\ (Runs => counter < MaxWindows)
      /\ UNCHANGED now /\ UNCHANGED timers /\ TypeOK
  BY DEF IncrReply, Answers, others, timeouts, LastsInv, SilenceInv
<1>2. PICK c \in Calls : c = Cmd.by
  BY <1>1, CmdFields
<1>3. call[c].kind = "create" /\ call[c] \in Call
  BY <1>1, <1>2, CmdSafe DEF Safe, CallsAsked
<1>4. TimersWait'
  BY <1>1, OldTimers, KeptOld
<1>5. CASE Failed
  <2>1. Finish(c, 500) /\ Then(<<>>)
    BY <1>2, <1>5 DEF IncrReply
  <2>2. KindsKeep
    BY <1>1, <2>1, FinishKinds DEF Statuses
  <2>3. Stays /\ Takes(<<>>)
    BY <1>1, <2>1, <2>2, SameTime DEF Stays, Takes
  <2>4. QED
    BY <1>4, <2>3, NothingSafe
<1>6. CASE ~Failed
  <2>1. Runs
    BY <1>1, <1>6, CmdType DEF Failed, Runs, Command
  <2>2. PICK id \in Id : id = counter + 1
    BY <1>1, <2>1 DEF TypeOK, Id
  <2>3. KindsKeep /\ call'[c].kind = "create"
    <3> DEFINE r == [call[c] EXCEPT !.id = id]
    <3>1. r.kind = call[c].kind
      BY <1>3 DEF Call
    <3>2. call' = [call EXCEPT ![c] = r]
      BY <1>2, <1>6, <2>2 DEF IncrReply, DrawnId
    <3> HIDE DEF r
    <3>3. QED
      BY <1>1, <1>3, <3>1, <3>2, KindUpdate DEF TypeOK
  <2>4. PICK cmd : cmd = Sent("store", c, id)
    OBVIOUS
  <2>5. cmd \in Command /\ cmd.op = "store" /\ cmd.by = c /\ cmd.id = id
    BY <2>4 DEF Sent, Command
  <2>6. Safe(cmd)'
    BY <2>3, <2>5 DEF Safe, ReaperIsLate, CallsAsked
  <2>7. Then(<<cmd>>)
    BY <1>2, <1>6, <2>2, <2>4 DEF IncrReply, DrawnId
  <2>8. Stays /\ Takes(<<cmd>>)
    BY <1>1, <2>3, <2>7, SameTime DEF Stays, Takes
  <2>9. QED
    BY <1>4, <2>5, <2>6, <2>8, OneSafe
<1>7. QED
  BY <1>5, <1>6

LEMMA EndsLasts ==
  ASSUME LastsInv, Fresh, Moves, EarlyGrows, StoreReply \/ RemoveReply
  PROVE  TimersWait' /\ CommandsAreSafe'
<1>1. /\ queue # <<>> /\ Cmd.by \in Calls /\ UNCHANGED now /\ TypeOK
      /\ (Finish(Cmd.by, 500) \/ Finish(Cmd.by, 200) \/ Finish(Cmd.by, 204))
  BY CmdFields DEF StoreReply, RemoveReply, Answers, others, LastsInv, SilenceInv
<1>2. \/ Then(<<>>) /\ UNCHANGED timeouts
      \/ Then(NextEndQueries(1)) /\ ClearTimeout
  BY DEF StoreReply, RemoveReply
<1>3. KindsKeep
  BY <1>1, FinishKinds DEF Statuses
<1>4. Stays
  BY <1>1, <1>3, SameTime DEF Stays
<1>5. TimersOld
  BY <1>2, KeptOld, ClearOld DEF timeouts
<1>6. Takes(<<>>) \/ Takes(NextEndQueries(1))
  BY <1>1, <1>2 DEF Takes
<1>7. QED
  BY <1>4, <1>5, <1>6, OldTimers, NothingSafe, HeadsSafe

LEMMA GetLasts ==
  ASSUME LastsInv, Fresh, Moves, EarlyGrows, GetReply
  PROVE  TimersWait' /\ CommandsAreSafe'
<1>1. /\ queue # <<>> /\ Cmd.op = "get" /\ Cmd.by \in Calls /\ Cmd.id \in Id
      /\ UNCHANGED now /\ UNCHANGED timers /\ TypeOK
  BY CmdFields DEF GetReply, Answers, others, timeouts, LastsInv, SilenceInv
<1>2. PICK c \in Calls, id \in Id : c = Cmd.by /\ id = Cmd.id
  BY <1>1
<1>3. call[c].kind \in {"get", "delete"} /\ call[c].id = id /\ call[c].pc # "idle"
  BY <1>1, <1>2, CmdSafe DEF Safe, CallsAsked
<1>4. TimersWait'
  BY <1>1, OldTimers, KeptOld
<1>5. CASE Failed
  <2>1. Finish(c, 500) /\ Then(<<>>)
    BY <1>2, <1>5 DEF GetReply
  <2>2. KindsKeep
    BY <1>1, <2>1, FinishKinds DEF Statuses
  <2>3. Stays /\ Takes(<<>>)
    BY <1>1, <2>1, <2>2, SameTime DEF Stays, Takes
  <2>4. QED
    BY <1>4, <2>3, NothingSafe
<1>6. CASE ~Failed /\ (id \notin Stored \/ call[c].kind = "delete")
  <2>1. PICK op \in {"expunge", "remove"} :
          /\ Then(<<Sent(op, c, id)>>) /\ UNCHANGED call
          /\ op = "remove" => call[c].kind = "delete"
          /\ op = "expunge" => id \notin Stored
    BY <1>2, <1>3, <1>6 DEF GetReply
  <2>2. PICK cmd : cmd = Sent(op, c, id)
    OBVIOUS
  <2>3. cmd \in Command /\ cmd.op = op /\ cmd.by = c /\ cmd.id = id
    BY <2>2 DEF Sent, Command
  <2>4. Safe(cmd)'
    <3>1. id \in call[c].before /\ id \notin Stored => id \notin Stored'
      BY SettledStays DEF LastsInv, SilenceInv, AllKnown, Known
    <3>2. QED
      BY <1>3, <2>1, <2>3, <3>1 DEF Safe, ReaperIsLate, CallsAsked, MaintenancesAssumption
  <2>5. Stays /\ Takes(<<cmd>>)
    BY <1>1, <2>1, <2>2, KindsKept, SameTime DEF Stays, Takes
  <2>6. QED
    BY <1>4, <2>3, <2>4, <2>5, OneSafe
<1>7. CASE ~Failed /\ id \in Stored /\ call[c].kind # "delete"
  <2>1. Finish(c, 200) /\ Then(<<>>)
    BY <1>2, <1>3, <1>7 DEF GetReply
  <2>2. KindsKeep
    BY <1>1, <2>1, FinishKinds DEF Statuses
  <2>3. Stays /\ Takes(<<>>)
    BY <1>1, <2>1, <2>2, SameTime DEF Stays, Takes
  <2>4. QED
    BY <1>4, <2>3, NothingSafe
<1>8. QED
  BY <1>5, <1>6, <1>7

LEMMA ReaperGetLasts ==
  ASSUME LastsInv, Fresh, Moves, EarlyGrows, ReaperGetReply
  PROVE  TimersWait' /\ CommandsAreSafe'
<1>1. /\ queue # <<>> /\ Cmd.op = "get" /\ Cmd.by = Reaper /\ Cmd.id \in Id
      /\ UNCHANGED now /\ UNCHANGED call /\ TypeOK
  BY CmdFields DEF ReaperGetReply, Answers, others, LastsInv, SilenceInv
<1>2. PICK id \in Id : id = Cmd.id
  BY <1>1
<1>3. Settled(id) /\ EndsBy(id, now)
  BY <1>1, <1>2, CmdSafe DEF Safe, ReaperIsLate
<1>4. Stays
  BY <1>1, KindsKept, SameTime DEF Stays
<1>5. CASE Failed
  <2>1. RescheduleLater(timers) /\ Then(<<>>)
    BY <1>5 DEF ReaperGetReply
  <2>2. TimersOld
    BY <1>1, <2>1, RetryOld DEF TypeOK
  <2>3. Takes(<<>>)
    BY <1>1, <2>1 DEF Takes
  <2>4. QED
    BY <1>4, <2>2, <2>3, OldTimers, NothingSafe
<1>6. CASE ~Failed
  <2>1. PICK op \in {"expunge", "remove"} :
          Then(<<Sent(op, Reaper, id)>>) /\ UNCHANGED timers
    BY <1>2, <1>6 DEF ReaperGetReply
  <2>2. PICK cmd : cmd = Sent(op, Reaper, id)
    OBVIOUS
  <2>3. cmd \in Command /\ cmd.op = op /\ cmd.by = Reaper /\ cmd.id = id
    BY <2>2 DEF Sent, Command
  <2>4. Safe(cmd)'
    <3>1. Settled(id)' /\ EndsBy(id, now)'
      <4>1. PICK t : t = now
        OBVIOUS
      <4>2. EndsBy(id, t)'
        BY <1>3, <4>1, EndsStays DEF LastsInv, SilenceInv
      <4>3. now' = t
        BY <1>1, <4>1
      <4>4. QED
        BY <1>3, <4>2, <4>3, SettledStays DEF LastsInv, SilenceInv, EndsBy
    <3>2. QED
      BY <2>3, <3>1 DEF Safe, ReaperIsLate, CallsAsked, MaintenancesAssumption
  <2>5. Takes(<<cmd>>)
    BY <1>1, <2>1, <2>2 DEF Takes
  <2>6. TimersWait'
    BY <2>1, OldTimers, KeptOld
  <2>7. QED
    BY <1>4, <2>3, <2>4, <2>5, <2>6, OneSafe
<1>7. QED
  BY <1>5, <1>6

\* The answers that at most make their call go on with a harmless command.
LEMMA HarmlessReply ==
  ASSUME LastsInv, Fresh, Moves, EarlyGrows, queue # <<>>, UNCHANGED now, UNCHANGED timers, KindsKeep,
         \/ Then(<<>>)
         \/ /\ Cmd.by \in Calls
            /\ \/ Then(<<Sent("curr", Cmd.by, Cmd.id)>>)
               \/ Then(<<Sent("fetch", Cmd.by, NoId)>>)
               \/ Then(<<Sent("expunge", Cmd.by, NoId)>>)
  PROVE  TimersWait' /\ CommandsAreSafe'
<1>1. Stays
  BY SameTime DEF Stays
<1>2. Cmd.id \in Id \cup {NoId}
  BY CmdFields DEF LastsInv, SilenceInv
<1>3. \/ Takes(<<>>)
      \/ /\ Cmd.by \in Calls
         /\ \/ Takes(<<Sent("curr", Cmd.by, Cmd.id)>>)
            \/ Takes(<<Sent("fetch", Cmd.by, NoId)>>)
            \/ Takes(<<Sent("expunge", Cmd.by, NoId)>>)
  BY DEF Takes
<1>4. CommandsAreSafe'
  BY <1>1, <1>2, <1>3, NothingSafe, HarmlessSafe
<1>5. QED
  BY <1>4, OldTimers, KeptOld

LEMMA ExpungeLasts ==
  ASSUME LastsInv, Fresh, Moves, EarlyGrows, ExpungeReply
  PROVE  TimersWait' /\ CommandsAreSafe'
<1>1. /\ queue # <<>> /\ Cmd.by \in Calls /\ UNCHANGED now /\ UNCHANGED timers /\ TypeOK
  BY DEF ExpungeReply, Answers, others, timeouts, LastsInv, SilenceInv
<1>2. PICK c \in Calls : c = Cmd.by
  BY <1>1
<1>3. KindsKeep
  <2>1. CASE Finish(c, 500) \/ Finish(c, 200)
    BY <1>1, <2>1, FinishKinds DEF Statuses
  <2>2. ASSUME NEW pc \in {"busy", "hung"}, call' = [call EXCEPT ![c].pc = pc]
        PROVE  KindsKeep
    <3> DEFINE r == [call[c] EXCEPT !.pc = pc]
    <3>1. r.kind = call[c].kind /\ r.id = call[c].id
      BY <1>1 DEF TypeOK, Call
    <3>2. call' = [call EXCEPT ![c] = r]
      BY <2>2
    <3> HIDE DEF r
    <3>3. QED
      BY <1>1, <3>1, <3>2, KindUpdate
  <2>3. \/ Finish(c, 500) \/ Finish(c, 200)
        \/ \E pc \in {"busy", "hung"} : call' = [call EXCEPT ![c].pc = pc]
    BY <1>2 DEF ExpungeReply
  <2>4. QED
    BY <2>1, <2>2, <2>3
<1>4. Then(<<>>) \/ Then(<<Sent("curr", Cmd.by, Cmd.id)>>)
  BY DEF ExpungeReply
<1>5. QED
  BY <1>1, <1>3, <1>4, HarmlessReply

LEMMA CurrLasts ==
  ASSUME LastsInv, Fresh, Moves, EarlyGrows, CurrReply
  PROVE  TimersWait' /\ CommandsAreSafe'
<1>1. /\ queue # <<>> /\ Cmd.by \in Calls /\ UNCHANGED now /\ UNCHANGED timers /\ TypeOK
      /\ Then(<<>>)
  BY CmdFields DEF CurrReply, Answers, others, timeouts, LastsInv, SilenceInv
<1>2. PICK status \in Statuses : Finish(Cmd.by, status)
  BY DEF CurrReply, Statuses
<1>3. KindsKeep
  BY <1>1, <1>2, FinishKinds
<1>4. QED
  BY <1>1, <1>3, HarmlessReply

LEMMA ListLasts ==
  ASSUME LastsInv, Fresh, Moves, EarlyGrows, ListReply
  PROVE  TimersWait' /\ CommandsAreSafe'
<1>1. /\ queue # <<>> /\ Cmd.by \in Calls /\ UNCHANGED now /\ UNCHANGED timers /\ TypeOK
  BY CmdFields DEF ListReply, Answers, others, timeouts, LastsInv, SilenceInv
<1>2. PICK c \in Calls : c = Cmd.by
  BY <1>1
<1>3. KindsKeep
  <2>1. CASE Finish(c, 500) \/ Finish(c, 200)
    BY <1>1, <2>1, FinishKinds DEF Statuses
  <2>2. CASE call' = [call EXCEPT ![c].ids = Stored]
    <3> DEFINE r == [call[c] EXCEPT !.ids = Stored]
    <3>1. r.kind = call[c].kind /\ r.id = call[c].id
      BY <1>1 DEF TypeOK, Call
    <3>2. call' = [call EXCEPT ![c] = r]
      BY <2>2
    <3> HIDE DEF r
    <3>3. QED
      BY <1>1, <3>1, <3>2, KindUpdate
  <2>3. QED
    BY <1>2, <2>1, <2>2 DEF ListReply
<1>4. Then(<<>>) \/ Then(<<Sent("fetch", Cmd.by, NoId)>>)
  BY DEF ListReply
<1>5. QED
  BY <1>1, <1>3, <1>4, HarmlessReply

LEMMA FetchLasts ==
  ASSUME LastsInv, Fresh, Moves, EarlyGrows, FetchReply
  PROVE  TimersWait' /\ CommandsAreSafe'
<1>1. /\ queue # <<>> /\ Cmd.by \in Calls /\ UNCHANGED now /\ UNCHANGED timers /\ TypeOK
  BY CmdFields DEF FetchReply, Answers, others, timeouts, LastsInv, SilenceInv
<1>2. PICK c \in Calls : c = Cmd.by
  BY <1>1
<1> DEFINE found == call[c].ids \cap Stored
           verdict == call[c].kind = "check" /\ InMaintenance(found, call[c].event)
           whole == found = call[c].ids
<1>3. KindsKeep
  <2>1. PICK old \in Call : old = call[c]
    BY <1>1 DEF TypeOK
  <2>2. CASE Failed
    <3>1. Finish(c, 500)
      BY <1>2, <2>2 DEF FetchReply, Finish
    <3>2. QED
      BY <1>1, <3>1, FinishKinds DEF Statuses
  <2>3. CASE ~Failed
    <3>1. PICK v : v = verdict
      OBVIOUS
    <3>2. PICK pc : pc = IF whole THEN "done" ELSE "busy"
      OBVIOUS
    <3>3. PICK status : status = IF whole THEN 200 ELSE 0
      OBVIOUS
    <3> DEFINE r1 == [call[c] EXCEPT !.verdict = v]
               r2 == [r1 EXCEPT !.pc = pc]
               r3 == [r2 EXCEPT !.status = status]
    <3>4. r1.kind = call[c].kind /\ r1.id = call[c].id /\ DOMAIN r1 = DOMAIN call[c]
      BY <2>1 DEF Call
    <3>5. r2.kind = call[c].kind /\ r2.id = call[c].id /\ DOMAIN r2 = DOMAIN call[c]
      <4> HIDE DEF r1
      <4>1. "kind" \in DOMAIN call[c] /\ "id" \in DOMAIN call[c]
        BY <2>1 DEF Call
      <4>2. QED
        BY <3>4, <4>1
    <3>6. r3.kind = call[c].kind /\ r3.id = call[c].id
      <4> HIDE DEF r2
      <4>1. "kind" \in DOMAIN call[c] /\ "id" \in DOMAIN call[c]
        BY <2>1 DEF Call
      <4>2. QED
        BY <3>5, <4>1
    <3>7. call' = [call EXCEPT ![c] = r3]
      BY <1>2, <2>3, <3>1, <3>2, <3>3 DEF FetchReply
    <3> HIDE DEF r3
    <3>8. QED
      BY <1>1, <3>6, <3>7, KindUpdate
  <2>4. QED
    BY <2>2, <2>3
<1>4. Then(<<>>) \/ Then(<<Sent("expunge", Cmd.by, NoId)>>)
  BY DEF FetchReply
<1>5. QED
  BY <1>1, <1>3, <1>4, HarmlessReply

\* The reaper's other answers.
LEMMA OrphanLasts ==
  ASSUME LastsInv, Fresh, Moves, EarlyGrows, Orphan
  PROVE  TimersWait' /\ CommandsAreSafe'
<1>1. queue # <<>> /\ UNCHANGED now /\ UNCHANGED timers /\ UNCHANGED call /\ Then(<<>>)
  BY DEF Orphan, others, timeouts
<1>2. QED
  BY <1>1, KindsKept, HarmlessReply

LEMMA ScheduleLasts ==
  ASSUME LastsInv, Fresh, Moves, EarlyGrows, ReaperExpungeReply \/ ReaperRemoveReply
  PROVE  TimersWait' /\ CommandsAreSafe'
<1>1. queue # <<>> /\ UNCHANGED now /\ UNCHANGED call
  BY DEF ReaperExpungeReply, ReaperRemoveReply, Answers, others
<1>2. Stays
  BY <1>1, KindsKept, SameTime DEF Stays
<1>3. TimersOld
  <2>1. RescheduleLater(timers) \/ ClearTimeout
    BY DEF ReaperExpungeReply, ReaperRemoveReply
  <2>2. timers \in [Slot -> Timer]
    BY DEF LastsInv, SilenceInv, TypeOK
  <2>3. QED
    BY <2>1, <2>2, RetryOld, ClearOld
<1>4. Then(<<>>) \/ Then(NextEndQueries(1)) \/ Then(NextEndQueries(2))
  BY DEF ReaperExpungeReply, ReaperRemoveReply
<1>5. Takes(<<>>) \/ Takes(NextEndQueries(1)) \/ Takes(NextEndQueries(2))
  BY <1>1, <1>4 DEF Takes
<1>6. QED
  BY <1>2, <1>3, <1>5, OldTimers, NothingSafe, HeadsSafe

\* The timeout for a window is not due before its end, but for a wait too long.
LEMMA ExpiresAfterEnd ==
  ASSUME LastsInv, NEW id \in Stored, ~TooLong(id)
  PROVE  windows[id].end <= now + ExpiresIn(id)
<1>1. windows[id] \in Windows /\ now \in Nat
  BY DEF Stored, LastsInv, SilenceInv, TypeOK, Time, MaintenancesAssumption
<1>2. windows[id].end \in Nat /\ MinWait \in Nat
  BY <1>1 DEF MaintenancesAssumption
<1>3. windows[id].end <= now + Wait(id)
  BY <1>1, <1>2 DEF Wait
<1>4. QED
  BY <1>3 DEF ExpiresIn

LEMMA HeadLasts ==
  ASSUME LastsInv, Fresh, Moves, EarlyGrows, HeadReply
  PROVE  TimersWait' /\ CommandsAreSafe'
<1>1. queue # <<>> /\ Then(<<>>) /\ UNCHANGED now /\ UNCHANGED call
  BY DEF HeadReply, Answers, others
<1>2. Stays /\ Takes(<<>>)
  BY <1>1, KindsKept, SameTime DEF Stays, Takes
<1>3. CommandsAreSafe'
  BY <1>2, NothingSafe
<1>4. TimersWait'
  <2>1. CASE Failed \/ Stored = {}
    <3>1. RescheduleLater(timers) \/ UNCHANGED timers
      BY <2>1 DEF HeadReply, timeouts
    <3>2. timers \in [Slot -> Timer]
      BY DEF LastsInv, SilenceInv, TypeOK
    <3>3. QED
      BY <3>1, <3>2, RetryOld, KeptOld, OldTimers
  <2>2. CASE ~Failed /\ Stored # {}
    <3>1. PICK id \in Stored, s \in Slot :
            /\ Arm(timers, s, "expire", now + ExpiresIn(id), id)
            /\ TooLong(id) => id \in early'
      BY <2>2 DEF HeadReply
    <3>2. PICK at : at = now + ExpiresIn(id)
      OBVIOUS
    <3>3. Settled(id) /\ Settled(id)'
      <4>1. Settled(id)
        BY DEF LastsInv, SilenceInv, IdsAreUsedOnce, NewWindowIsNew, Settled, Stored
      <4>2. QED
        BY <4>1, SettledStays DEF LastsInv, SilenceInv
    <3>4. EndsBy(id, at)'
      <4>1. CASE TooLong(id)
        BY <3>1, <4>1 DEF EndsBy
      <4>2. CASE ~TooLong(id)
        <5>1. EndsBy(id, at)
          BY <3>2, <4>2, ExpiresAfterEnd DEF EndsBy
        <5>2. QED
          BY <3>3, <5>1, EndsStays DEF LastsInv, SilenceInv
      <4>3. QED
        BY <4>1, <4>2
    <3>5. ASSUME NEW x \in Slot, timers'[x].kind = "expire"
          PROVE  Settled(timers[x].id)' /\ EndsBy(timers[x].id, timers[x].at)'
      <4>1. timers \in [Slot -> Timer]
        BY DEF LastsInv, SilenceInv, TypeOK
      <4>2. CASE x = s
        <5>1. timers'[x].id = id /\ timers'[x].at = at
          BY <3>1, <3>2, <4>1, <4>2 DEF Arm
        <5>2. QED
          BY <3>3, <3>4, <5>1
      <4>3. CASE x # s
        <5>1. PICK t : t = timers[x]
          OBVIOUS
        <5>2. timers'[x] = t
          BY <3>1, <4>1, <4>3, <5>1 DEF Arm
        <5>3. PICK i, a : i = t.id /\ a = t.at
          OBVIOUS
        <5>4. Settled(i) /\ EndsBy(i, a)
          BY <3>5, <5>1, <5>2, <5>3 DEF LastsInv, SilenceInv, TimersWait
        <5>5. Settled(i)' /\ EndsBy(i, a)'
          BY <5>4, SettledStays, EndsStays DEF LastsInv, SilenceInv
        <5>6. QED
          BY <5>2, <5>3, <5>5
      <4>4. QED
        BY <4>2, <4>3
    <3>6. QED
      BY <3>5 DEF TimersWait
  <2>3. QED
    BY <2>1, <2>2
<1>5. QED
  BY <1>3, <1>4

LEMMA ExpireLasts ==
  ASSUME LastsInv, Fresh, Moves, EarlyGrows, NEW s \in Slot, Expire(s)
  PROVE  TimersWait' /\ CommandsAreSafe'
<1>1. /\ timers \in [Slot -> Timer] /\ timers[s].kind = "expire" /\ Due(s)
      /\ UNCHANGED now /\ UNCHANGED call /\ UNCHANGED windows
  BY DEF Expire, LastsInv, SilenceInv, TypeOK, others
<1>2. Stays
  BY <1>1, KindsKept, SameTime DEF Stays
<1> DEFINE ts == [timers EXCEPT ![s] = Off]
<1>3. /\ ts \in [Slot -> Timer]
      /\ \A t \in Slot : ts[t].kind = "expire" => ts[t] = timers[t]
  BY <1>1 DEF Off, Timer
<1>4. CASE redis = "up"
  <2>1. PICK id : id = timers[s].id
    OBVIOUS
  <2>2. id \in Id /\ Settled(id) /\ EndsBy(id, timers[s].at)
    BY <1>1, <2>1 DEF LastsInv, SilenceInv, TimersWait, Settled
  <2>3. EndsBy(id, now)
    <3>1. id \in Stored => windows[id] \in Windows
      BY DEF Stored, LastsInv, SilenceInv, TypeOK
    <3>2. timers[s].at \in Nat /\ now \in Nat
      BY <1>1 DEF Timer, LastsInv, SilenceInv, TypeOK, Time, MaintenancesAssumption
    <3>3. id \in Stored => windows[id].end \in Nat /\ windows[id].end <= MaxTime
      BY <3>1 DEF MaintenancesAssumption
    <3>4. QED
      BY <1>1, <2>2, <3>2, <3>3 DEF Due, EndsBy, MaintenancesAssumption
  <2>4. PICK cmd : cmd = Sent("get", Reaper, id)
    OBVIOUS
  <2>5. cmd \in Command /\ cmd.op = "get" /\ cmd.by = Reaper /\ cmd.id = id
    BY <2>2, <2>4 DEF Sent, Command
  <2>6. Safe(cmd)'
    <3>1. PICK t : t = now
      OBVIOUS
    <3>2. Settled(id)' /\ EndsBy(id, t)'
      BY <2>2, <2>3, <3>1, SettledStays, EndsStays DEF LastsInv, SilenceInv
    <3>3. now' = t
      BY <1>1, <3>1
    <3>4. QED
      BY <2>5, <3>2, <3>3
      DEF Safe, ReaperIsLate, CallsAsked, EndsBy, MaintenancesAssumption
  <2>7. Takes(<<cmd>>) /\ timers' = ts
    BY <1>4, <2>1, <2>4 DEF Expire, Takes
  <2>8. TimersOld
    BY <1>3, <2>7 DEF TimersOld
  <2>9. QED
    BY <1>2, <2>5, <2>6, <2>7, <2>8, OneSafe, OldTimers
<1>5. CASE redis # "up"
  <2>1. RescheduleLater(ts) /\ UNCHANGED queue
    BY <1>5 DEF Expire
  <2>2. TimersOld
    <3> HIDE DEF ts
    <3>1. QED
      BY <1>3, <2>1, RetryOld
  <2>3. QED
    BY <1>2, <2>1, <2>2, OldTimers, QuietSafe
<1>6. QED
  BY <1>4, <1>5

LEMMA RetryLasts ==
  ASSUME LastsInv, Fresh, Moves, EarlyGrows, NEW s \in Slot, Retry(s)
  PROVE  TimersWait' /\ CommandsAreSafe'
<1>1. UNCHANGED now /\ UNCHANGED call /\ Send(NextEndQueries(1))
  BY DEF Retry, others
<1>2. Stays /\ Takes(NextEndQueries(1))
  BY <1>1, KindsKept, SameTime DEF Stays, Takes
<1>3. TimersOld
  <2>1. timers \in [Slot -> Timer] /\ tracked \in Slot \cup {NoSlot}
    BY DEF LastsInv, SilenceInv, TypeOK
  <2>2. QED
    BY <2>1 DEF Retry, TimersOld, Off
<1>4. QED
  BY <1>2, <1>3, OldTimers, HeadsSafe

LEMMA FailureLasts ==
  ASSUME LastsInv, Fresh, Moves, EarlyGrows, Refuse \/ LoseRedis \/ Crash
  PROVE  TimersWait' /\ CommandsAreSafe'
<1>1. TypeOK /\ UNCHANGED now
  BY DEF LastsInv, SilenceInv, Refuse, LoseRedis, Crash
<1>2. FatesOnly
  BY <1>1, RefuseFates, LoseRedisFates, CrashFates
<1>3. TimersOld
  <2>1. CASE UNCHANGED timers
    BY <2>1, KeptOld
  <2>2. CASE Crash
    BY <2>2 DEF Crash, TimersOld, Off
  <2>3. QED
    BY <2>1, <2>2 DEF Refuse, LoseRedis, timeouts
<1>4. KindsKeep
  <2>1. CASE UNCHANGED call
    BY <2>1, KindsKept
  <2>2. CASE Crash
    <3>1. ASSUME NEW c \in Calls
          PROVE  call'[c].kind = call[c].kind /\ call'[c].id = call[c].id
      <4>1. PICK old \in Call : old = call[c]
        BY <1>1 DEF TypeOK
      <4>2. PICK status \in Statuses : status = 500
        BY DEF Statuses
      <4>3. PICK new \in Call : /\ new = [old EXCEPT !.pc = "done", !.status = status]
                                /\ new.pc = "done" /\ new.window = old.window
                                /\ new.kind = old.kind /\ new.id = old.id
        BY DoneType
      <4>4. call'[c] = IF old.pc \in {"busy", "hung"} THEN new ELSE old
        BY <2>2, <4>1, <4>2, <4>3 DEF Crash
      <4>5. QED
        BY <4>1, <4>3, <4>4
    <3>2. QED
      BY <3>1 DEF KindsKeep
  <2>3. QED
    BY <2>1, <2>2 DEF Refuse, LoseRedis
<1>5. now' \in Nat /\ now <= now'
  BY <1>1, SameTime
<1>6. QED
  BY <1>2, <1>3, <1>4, <1>5, OldTimers, FatesStay DEF LastsInv, SilenceInv

LEMMA QuietLasts ==
  ASSUME LastsInv, Fresh, Moves, EarlyGrows, UNCHANGED queue, UNCHANGED timers, UNCHANGED call,
         now' \in Nat, now <= now'
  PROVE  TimersWait' /\ CommandsAreSafe'
  BY KindsKept, KeptOld, OldTimers, QuietSafe DEF Stays

LEMMA StartupLasts ==
  ASSUME LastsInv, Fresh, Moves, EarlyGrows, Startup
  PROVE  TimersWait' /\ CommandsAreSafe'
<1>1. UNCHANGED now /\ UNCHANGED call /\ UNCHANGED timers /\ Send(NextEndQueries(1))
  BY DEF Startup, timeouts
<1>2. Stays /\ Takes(NextEndQueries(1))
  BY <1>1, KindsKept, SameTime DEF Stays, Takes
<1>3. QED
  BY <1>1, <1>2, KeptOld, OldTimers, HeadsSafe

LEMMA TickLasts ==
  ASSUME LastsInv, Fresh, Moves, EarlyGrows, Connect \/ Tick \/ UNCHANGED vars
  PROVE  TimersWait' /\ CommandsAreSafe'
<1>1. now' \in Nat /\ now <= now'
  BY DEF LastsInv, SilenceInv, TypeOK, Time, Connect, Tick, vars, MaintenancesAssumption
<1>2. QED
  BY <1>1, QuietLasts DEF Connect, Tick, vars, timeouts

-----------------------------------------------------------------------------
(* The theorem *)

LEMMA StepEarly == ASSUME TypeOK, [Next]_vars PROVE EarlyGrows
<1>1. CASE Reply
  <2>1. CASE HeadReply
    BY <2>1 DEF HeadReply, EarlyGrows
  <2>2. CASE UNCHANGED others
    BY <2>2 DEF others, EarlyGrows
  <2>3. HeadReply \/ UNCHANGED others
    BY <1>1 DEF Reply, IncrReply, StoreReply, GetReply, ExpungeReply, CurrReply, RemoveReply,
       ListReply, FetchReply, ReaperGetReply, ReaperExpungeReply, ReaperRemoveReply, Orphan
  <2>4. QED
    BY <2>1, <2>2, <2>3
<1>2. CASE ~Reply
  BY <1>2 DEF Next, Begin, TimerFires, Expire, Retry, Refuse, LoseRedis, Connect, Crash,
     Startup, Tick, others, vars, EarlyGrows
<1>3. QED
  BY <1>1, <1>2

LEMMA StepLasts ==
  ASSUME LastsInv, [Next]_vars
  PROVE  LastsInv'
<1>1. Fresh /\ Moves /\ EarlyGrows /\ SilenceInv'
  BY StepMoves, StepSilence, StepEarly DEF LastsInv, SilenceInv
<1>2. TimersWait' /\ CommandsAreSafe'
  <2>1. CASE \E c \in Calls : Begin(c)
    BY <1>1, <2>1, BeginLasts
  <2>2. CASE Reply
    BY <1>1, <2>2, IncrLasts, EndsLasts, GetLasts, ReaperGetLasts, ExpungeLasts, CurrLasts,
       ListLasts, FetchLasts, OrphanLasts, ScheduleLasts, HeadLasts DEF Reply
  <2>3. CASE \E s \in Slot : TimerFires(s)
    BY <1>1, <2>3, ExpireLasts, RetryLasts DEF TimerFires
  <2>4. CASE Refuse \/ LoseRedis \/ Crash \/ Startup
    BY <1>1, <2>4, FailureLasts, StartupLasts
  <2>5. CASE Connect \/ Tick \/ UNCHANGED vars
    BY <1>1, <2>5, TickLasts
  <2>6. QED
    BY <2>1, <2>2, <2>3, <2>4, <2>5 DEF Next
<1>3. QED
  BY <1>1, <1>2 DEF LastsInv, SilenceInv

LEMMA InitLasts == ASSUME Init PROVE LastsInv
<1>1. SilenceInv
  BY InitSilence
<1>2. TimersWait /\ CommandsAreSafe
  BY DEF Init, TimersWait, CommandsAreSafe, Off
<1>3. QED
  BY <1>1, <1>2 DEF LastsInv, SilenceInv

\* Only the command being answered removes a window.
LEMMA RemovedByCommand ==
  ASSUME LastsInv, Fresh, NEW id \in Stored, id \notin Stored'
  PROVE  /\ queue # <<>> /\ Cmd.op \in {"remove", "expunge"}
         /\ Cmd.id = id /\ id # NoId
<1>1. id \in Id /\ windows \in [Id -> Windows \cup {None}] /\ windows[id] # None
  BY DEF Stored, LastsInv, SilenceInv, TypeOK
<1>2. id # NoId
  BY <1>1 DEF Id, NoId, MaintenancesAssumption
<1>3. windows'[id] = None
  BY <1>1 DEF Stored
<1>4. PICK cmds \in Seq(Command) : Answered(cmds)
  BY <1>1, <1>3 DEF Fresh, Asks, FatesChange
<1>5. queue # <<>> /\ Run
  BY <1>4 DEF Answered
<1>6. Cmd.op = "store" => call[Cmd.by].window \in Windows
  BY <1>5, CmdType DEF LastsInv, SilenceInv, ArgumentsOf
<1>7. QED
  BY <1>1, <1>2, <1>3, <1>5, <1>6 DEF Run, MaintenancesAssumption

\* The reaper and the API remove a window before its end only for a request to delete
\* it, for a request that got it before it was stored, or after a timeout for it that
\* setTimeout cannot make, whatever redis and the master do in between, however many
\* timeouts are forgotten, and whatever fails.
THEOREM WindowsLast == Spec => LastsUntilEndOrDelete
<1>1. LastsInv /\ [Next]_vars =>
        [\A id \in Stored : id \notin Stored' =>
           \/ windows[id].end <= now
           \/ DeleteAsked(id) \/ GotTooSoon(id) \/ id \in early]_vars
  <2> SUFFICES ASSUME LastsInv, [Next]_vars, NEW id \in Stored, id \notin Stored'
               PROVE  \/ windows[id].end <= now
                      \/ DeleteAsked(id) \/ GotTooSoon(id) \/ id \in early
    OBVIOUS
  <2>1. queue # <<>> /\ Cmd.op \in {"remove", "expunge"} /\ Cmd.id = id /\ id # NoId
    BY StepFresh, RemovedByCommand DEF LastsInv, SilenceInv
  <2>2. Safe(Cmd) /\ Cmd.by \in Calls \cup {Reaper}
    BY <2>1, CmdSafe, CmdFields DEF LastsInv, SilenceInv
  <2>3. QED
    BY <2>1, <2>2 DEF Safe, ReaperIsLate, CallsAsked, EndsBy, DeleteAsked, GotTooSoon
<1>2. Init => LastsInv
  BY InitLasts
<1>3. LastsInv /\ [Next]_vars => LastsInv'
  BY StepLasts
<1>4. QED
  BY <1>1, <1>2, <1>3, PTL DEF Spec, LastsUntilEndOrDelete
=============================================================================
