---------------------------- MODULE Maintenances ----------------------------
(***************************************************************************)
(* Maintenance windows of the Amon master: the API of                       *)
(* master/lib/maintenances.js, the check made for every event, and the      *)
(* reaper that removes a window at its end.                                 *)
(*                                                                          *)
(* The master is one Node process with one redis connection.  `queue` holds *)
(* the commands sent and not answered, oldest first.  Redis runs them in    *)
(* that order and answers in that order, so a command is run together with  *)
(* its callback, at its answer: no step of redis can see the difference,    *)
(* the queue being the only way to it.  A MULTI/EXEC is one command, and so *)
(* are the pipelined Maintenance.gets of a list.                            *)
(*                                                                          *)
(* The hash, the user's set of ids and 'maintenancesByEnd' are written in   *)
(* one MULTI always, and are one variable.  The reaper does not tell users  *)
(* apart, so all windows are of one user here.  Times are ticks since some   *)
(* moment before the master started.  A request whose options are refused   *)
(* (TypeError) changes nothing and is left out.                             *)
(***************************************************************************)
EXTENDS Integers, Sequences, FiniteSets

CONSTANTS
  Calls,       \* API calls and event checks, each used once
  Kinds,       \* the kinds of call tried in this instance
  Windows,     \* the windows users ask for
  Events,      \* the events checked
  None,        \* no window, no event, or an event's missing group or machine
  Reaper,      \* the owner of the reaper's commands
  MinWait,     \* MAX_REAPER_FREQ, in ticks
  RetryWait,   \* the five minutes of rescheduleLater, in ticks
  TimeoutMax,  \* Node's TIMEOUT_MAX: a longer timeout fires at once
  MaxTime,     \* bound: the clock stops here, and then every timer is due
  MaxWindows,  \* bound: ids handed out
  MaxTimers,   \* bound: timers pending
  Failures,    \* the kinds of failure tried in this instance
  MaxErrors    \* bound: failures of redis and restarts of the master

ASSUME MaintenancesAssumption ==
  /\ Reaper \notin Calls
  /\ Kinds \subseteq {"create", "get", "delete", "listAll", "check"}
  /\ Failures \subseteq {"refuse", "lose", "crash"}
  /\ MinWait \in Nat /\ RetryWait \in Nat /\ TimeoutMax \in Nat
  /\ MinWait <= TimeoutMax
  /\ MaxTime \in Nat \ {0} /\ MaxWindows \in Nat /\ MaxTimers \in Nat
  /\ MaxErrors \in Nat
  /\ None \notin Windows /\ None \notin Events
  /\ \A w \in Windows :
       /\ w.start \in Nat /\ w.end \in 1..MaxTime
       /\ w.kind \in {"all", "probes", "probeGroups", "machines"}
       /\ None \notin w.of
  /\ \A e \in Events : e.time \in Nat

VARIABLES
  now,      \* Date.now()
  redis,    \* whether RedisReconnector has a client: "up" or "down"
  counter,  \* redis hash field maintenanceIds[USER]
  windows,  \* the windows stored in redis
  queue,    \* commands sent to redis and not answered
  timers,   \* pending setTimeouts
  tracked,  \* the module's `expiryTimeout`, 0 if it has none
  call,     \* per call: its handler's state
  started,  \* the master ran startMaintenanceExpiry
  errors,   \* failures so far
  early     \* history: windows that a timeout beyond TimeoutMax was asked for

vars == <<now, redis, counter, windows, queue, timers, tracked, call, started,
          errors, early>>

Id == 1..MaxWindows
NoId == 0
Slot == 1..MaxTimers
NoSlot == 0
Time == 0..MaxTime

Off == [kind |-> "off", at |-> 0, id |-> NoId]
Timer == [kind: {"off", "expire", "retry"}, at: Nat, id: Id \cup {NoId}]
\* "lost": run, but the answer is an error; "refused": not run.  Of a master that
\* died, "orphan": run, and "void": not run.
Command == [op: {"incr", "store", "get", "expunge", "remove", "head", "list",
                 "fetch", "curr"},
            by: Calls \cup {Reaper}, id: Id \cup {NoId},
            fate: {"sent", "lost", "refused", "orphan", "void"}]
\* A "hung" call will never be answered: its handler has returned.
Call == [pc: {"idle", "busy", "hung", "done"},
         kind: {"create", "get", "delete", "listAll", "check"},
         id: Id \cup {NoId}, window: Windows \cup {None},
         event: Events \cup {None}, ids: SUBSET Id, before: SUBSET Id,
         verdict: BOOLEAN, status: {0, 200, 204, 404, 410, 500}]
Ask(kind, id, window, event) ==
  [pc |-> "idle", kind |-> kind, id |-> id, window |-> window, event |-> event,
   ids |-> {}, before |-> {}, verdict |-> FALSE, status |-> 0]
NoCall == Ask("get", NoId, None, None)

Stored == {id \in Id : windows[id] # None}
Queued(op) == {i \in DOMAIN queue : queue[i].op = op}

\* What a command and a timeout were given by the code that made them.
ArgumentsOf(cmd) ==
  /\ cmd.op \in {"store", "get", "remove"} => cmd.id \in Id
  /\ cmd.op \in {"incr", "store", "list", "fetch", "curr"} => cmd.by \in Calls
  /\ cmd.op \in {"incr", "store"} => call[cmd.by].window \in Windows
  /\ cmd.op = "head" => cmd.by = Reaper
  /\ cmd.by \in Calls => call[cmd.by].pc # "idle"
ArgumentsSet ==
  /\ \A i \in DOMAIN queue : ArgumentsOf(queue[i])
  /\ \A s \in Slot : timers[s].kind = "expire" => timers[s].id \in Id

TypeOK ==
  /\ now \in Time
  /\ redis \in {"up", "down"}
  /\ counter \in 0..MaxWindows
  /\ windows \in [Id -> Windows \cup {None}]
  /\ queue \in Seq(Command)
  /\ timers \in [Slot -> Timer]
  /\ tracked \in Slot \cup {NoSlot}
  /\ call \in [Calls -> Call]
  /\ started \in BOOLEAN
  /\ errors \in 0..MaxErrors
  /\ early \subseteq Id
  /\ ArgumentsSet

Init ==
  /\ now = 1
  /\ redis = "down"
  /\ counter = 0
  /\ windows = [id \in Id |-> None]
  /\ queue = <<>>
  /\ timers = [s \in Slot |-> Off]
  /\ tracked = NoSlot
  /\ call = [c \in Calls |-> NoCall]
  /\ started = FALSE
  /\ errors = 0
  /\ early = {}

-----------------------------------------------------------------------------
(* Events and windows *)

\* isEventInMaintenance: an event at the very start of a window is outside it.
InScope(m, e) == m.kind = "all" \/ e[m.kind] \in m.of
Covers(m, e) == m.start < e.time /\ e.time < m.end /\ InScope(m, e)
\* Mutant: the windows of machines are forgotten.
InMaintenanceBug(ids, e) ==
  \E id \in ids : Covers(windows[id], e) /\ windows[id].kind # "machines"
InMaintenance(ids, e) == \E id \in ids : Covers(windows[id], e)

-----------------------------------------------------------------------------
(* Commands and timers *)

Sent(op, by, id) == [op |-> op, by |-> by, id |-> id, fate |-> "sent"]
Send(cmds) == queue' = queue \o cmds
Cmd == Head(queue)
Answers(op) == queue # <<>> /\ Cmd.op = op /\ Cmd.fate \notin {"orphan", "void"}
Failed == Cmd.fate # "sent"
\* The command at the head is answered and its callback sends `cmds`.
Then(cmds) == queue' = Tail(queue) \o cmds

\* What redis does for it.
Runs == Cmd.fate \notin {"refused", "void"}
Run == /\ counter' = IF Runs /\ Cmd.op = "incr" THEN counter + 1 ELSE counter
       /\ windows' = IF Runs /\ Cmd.op = "store"
                     THEN [windows EXCEPT ![Cmd.id] = call[Cmd.by].window]
                     ELSE IF Runs /\ Cmd.op \in {"remove", "expunge"} /\ Cmd.id # NoId
                     THEN [windows EXCEPT ![Cmd.id] = None]
                     ELSE windows

Finish(c, status) == call' = [call EXCEPT ![c] = [@ EXCEPT !.pc = "done",
                                                           !.status = status]]
\* setTimeout among the timers ts, in the lowest free slot.
Arm(ts, s, kind, at, id) ==
  /\ ts[s] = Off
  /\ \A t \in Slot : t < s => ts[t] # Off
  /\ timers' = [ts EXCEPT ![s] = [kind |-> kind, at |-> at, id |-> id]]
RescheduleLater(ts) == \E s \in Slot : Arm(ts, s, "retry", now + RetryWait, NoId)

\* scheduleNextMaintenanceExpiry, called n times in a row by one callback: the
\* pending timeout is cleared, then redis is asked for the next end.  Without a
\* redis client nothing more happens.
ClearTimeout ==
  /\ timers' = IF tracked = NoSlot THEN timers
               ELSE [timers EXCEPT ![tracked] = Off]
  /\ tracked' = NoSlot
\* Mutant: an expired window does not schedule the next one.
NextEndQueriesBug(n) ==
  IF redis = "up" /\ n = 1 THEN <<Sent("head", Reaper, NoId)>> ELSE <<>>
NextEndQueries(n) ==
  IF redis = "up" THEN [i \in 1..n |-> Sent("head", Reaper, NoId)] ELSE <<>>

-----------------------------------------------------------------------------
(* The API and the check made for an event *)

\* What may be asked now.
Asked ==
  {Ask("create", NoId, w, None) : w \in Windows}
  \cup {Ask(k, id, None, None) : k \in {"get", "delete"}, id \in Id}
  \cup {Ask("listAll", NoId, None, None)}
  \cup {Ask("check", NoId, None, e) : e \in {e \in Events : e.time <= now}}
FirstCommand(k) == CASE k = "create" -> "incr"
                     [] k \in {"get", "delete"} -> "get"
                     [] k \in {"listAll", "check"} -> "list"
\* A request arrives; without a redis client it is refused.
Begin(c) ==
  /\ call[c].pc = "idle" /\ started
  /\ \E q \in {q \in Asked : q.kind \in Kinds} :
       IF redis = "up"
       THEN /\ call' = [call EXCEPT ![c] = [q EXCEPT !.pc = "busy", !.before = Stored]]
            /\ Send(<<Sent(FirstCommand(q.kind), c, q.id)>>)
       ELSE /\ call' = [call EXCEPT ![c] = [q EXCEPT !.pc = "done", !.status = 500]]
            /\ UNCHANGED queue
  /\ UNCHANGED <<now, redis, counter, windows, timers, tracked, started, errors, early>>

others == <<now, redis, started, errors, early>>
timeouts == <<timers, tracked>>

\* Mutant: the value before the HINCRBY is used.
DrawnIdBug == counter
\* Mutant: ids follow the number of windows.
DrawnIdFromStoredBug == Cardinality(Stored) + 1
DrawnId == counter + 1
\* createMaintenance: HINCRBY maintenanceIds, ...
IncrReply ==
  /\ Answers("incr") /\ (Runs => counter < MaxWindows)
  /\ Run
  /\ IF Failed THEN Finish(Cmd.by, 500) /\ Then(<<>>)
     ELSE /\ call' = [call EXCEPT ![Cmd.by].id = DrawnId]
          /\ Then(<<Sent("store", Cmd.by, DrawnId)>>)
  /\ UNCHANGED <<others, timeouts>>

\* ... then MULTI SADD ZADD HMSET EXEC.
StoreReply ==
  /\ Answers("store")
  /\ Run
  /\ IF Failed THEN Finish(Cmd.by, 500) /\ Then(<<>>) /\ UNCHANGED timeouts
     ELSE Finish(Cmd.by, 200) /\ Then(NextEndQueries(1)) /\ ClearTimeout
  /\ UNCHANGED others

\* Maintenance.get for a request: a missing hash is expunged (assert-plus 0.1.5
\* takes null for an object, the constructor then throws).
GetReply ==
  /\ Answers("get") /\ Cmd.by \in Calls
  /\ Run
  /\ IF Failed THEN Finish(Cmd.by, 500) /\ Then(<<>>)
     ELSE IF Cmd.id \notin Stored
     THEN Then(<<Sent("expunge", Cmd.by, Cmd.id)>>) /\ UNCHANGED call
     ELSE IF call[Cmd.by].kind = "get" THEN Finish(Cmd.by, 200) /\ Then(<<>>)
     ELSE Then(<<Sent("remove", Cmd.by, Cmd.id)>>) /\ UNCHANGED call
  /\ UNCHANGED <<others, timeouts>>

\* For a request that names a window redis is then asked for the last id drawn.
\* A list of all windows ends without an answer when one of them was missing.
ExpungeReply ==
  /\ Answers("expunge") /\ Cmd.by \in Calls
  /\ Run
  /\ LET c == Cmd.by
         named == call[c].kind \in {"get", "delete"}
     IN  /\ IF Failed THEN Finish(c, 500)
            ELSE IF call[c].kind = "check" THEN Finish(c, 200)
            ELSE call' = [call EXCEPT ![c].pc = IF named THEN "busy" ELSE "hung"]
         /\ Then(IF ~Failed /\ named THEN <<Sent("curr", c, Cmd.id)>> ELSE <<>>)
  /\ UNCHANGED <<others, timeouts>>

\* reqGetMaintenanceWindow, HGET maintenanceIds: 410 if the id was handed out.
CurrReply ==
  /\ Answers("curr")
  /\ Run
  /\ Finish(Cmd.by, IF Failed THEN 500 ELSE IF Cmd.id <= counter THEN 410 ELSE 404)
  /\ Then(<<>>)
  /\ UNCHANGED <<others, timeouts>>

\* deleteMaintenance for a request.
RemoveReply ==
  /\ Answers("remove") /\ Cmd.by \in Calls
  /\ Run
  /\ IF Failed THEN Finish(Cmd.by, 500) /\ Then(<<>>) /\ UNCHANGED timeouts
     ELSE Finish(Cmd.by, 204) /\ Then(NextEndQueries(1)) /\ ClearTimeout
  /\ UNCHANGED others

\* The ids of all windows (ZRANGE maintenancesByEnd) or of the user's (SMEMBERS).
ListReply ==
  /\ Answers("list")
  /\ Run
  /\ IF Failed THEN Finish(Cmd.by, 500) /\ Then(<<>>)
     ELSE IF Stored = {} THEN Finish(Cmd.by, 200) /\ Then(<<>>)
     ELSE /\ call' = [call EXCEPT ![Cmd.by].ids = Stored]
          /\ Then(<<Sent("fetch", Cmd.by, NoId)>>)
  /\ UNCHANGED <<others, timeouts>>

\* Their hashes.  An event is in maintenance if one of the windows covers it.
FetchReply ==
  /\ Answers("fetch")
  /\ Run
  /\ LET c == Cmd.by
         found == call[c].ids \cap Stored
         verdict == call[c].kind = "check" /\ InMaintenance(found, call[c].event)
         whole == found = call[c].ids
     IN  /\ call' = [call EXCEPT ![c] =
              IF Failed THEN [@ EXCEPT !.pc = "done", !.status = 500]
              ELSE [@ EXCEPT !.verdict = verdict,
                             !.pc = IF whole THEN "done" ELSE "busy",
                             !.status = IF whole THEN 200 ELSE 0]]
         /\ Then(IF Failed \/ whole THEN <<>> ELSE <<Sent("expunge", c, NoId)>>)
  /\ UNCHANGED <<others, timeouts>>

-----------------------------------------------------------------------------
(* The reaper *)

\* Mutant: the window that ends last comes first.
EndsFirstBug(id) == \A x \in Stored : windows[x].end <= windows[id].end
EndsFirst(id) == \A x \in Stored : windows[id].end <= windows[x].end
\* Mutant: the reaper just comes back after the shortest wait.
ExpiresInBug(id) == MinWait
\* How long until its end, but no less than MinWait; more than TimeoutMax is no
\* wait at all to setTimeout.
Wait(id) == LET left == windows[id].end - now
            IN  IF left > MinWait THEN left ELSE MinWait
TooLong(id) == Wait(id) > TimeoutMax
ExpiresIn(id) == IF TooLong(id) THEN 0 ELSE Wait(id)
\* ZRANGE maintenancesByEnd 0 0: a timeout is set for the first end.  A timeout
\* that another answer set in the meantime stays pending, but is forgotten.
HeadReply ==
  /\ Answers("head")
  /\ Run
  /\ Then(<<>>)
  /\ IF Failed THEN RescheduleLater(timers) /\ UNCHANGED <<tracked, early>>
     ELSE IF Stored = {} THEN UNCHANGED <<timeouts, early>>
     ELSE \E id \in Stored, s \in Slot :
            /\ EndsFirst(id)
            /\ Arm(timers, s, "expire", now + ExpiresIn(id), id)
            /\ tracked' = s
            /\ early' = IF TooLong(id) THEN early \cup {id} ELSE early
  /\ UNCHANGED <<now, redis, started, errors, call>>

\* The timeout: Maintenance.get of the window it was set for.
Due(s) == timers[s].at <= now \/ now = MaxTime
Expire(s) ==
  /\ timers[s].kind = "expire" /\ Due(s)
  /\ tracked' = IF tracked = s THEN NoSlot ELSE tracked
  /\ LET ts == [timers EXCEPT ![s] = Off]
     IN  IF redis = "up"
         THEN timers' = ts /\ Send(<<Sent("get", Reaper, timers[s].id)>>)
         ELSE RescheduleLater(ts) /\ UNCHANGED queue
  /\ UNCHANGED <<others, counter, windows, call>>

\* The timeout of rescheduleLater.
Retry(s) ==
  /\ timers[s].kind = "retry" /\ Due(s)
  /\ timers' = IF tracked = NoSlot THEN [timers EXCEPT ![s] = Off]
               ELSE [timers EXCEPT ![s] = Off, ![tracked] = Off]
  /\ tracked' = NoSlot
  /\ Send(NextEndQueries(1))
  /\ UNCHANGED <<others, counter, windows, call>>

ReaperGetReply ==
  /\ Answers("get") /\ Cmd.by = Reaper
  /\ Run
  /\ IF Failed THEN RescheduleLater(timers) /\ Then(<<>>)
     ELSE /\ UNCHANGED timers
          /\ Then(<<Sent(IF Cmd.id \in Stored THEN "remove" ELSE "expunge",
                         Reaper, Cmd.id)>>)
  /\ UNCHANGED <<others, tracked, call>>

\* The window no longer exists.
ReaperExpungeReply ==
  /\ Answers("expunge") /\ Cmd.by = Reaper
  /\ Run
  /\ IF Failed THEN RescheduleLater(timers) /\ UNCHANGED tracked /\ Then(<<>>)
     ELSE ClearTimeout /\ Then(NextEndQueries(1))
  /\ UNCHANGED <<others, call>>

\* deleteMaintenance schedules the next end after handleMaintenanceEnd, and its
\* callback does so again; after an error only the callback does.
ReaperRemoveReply ==
  /\ Answers("remove") /\ Cmd.by = Reaper
  /\ Run
  /\ ClearTimeout
  /\ Then(NextEndQueries(IF Failed THEN 1 ELSE 2))
  /\ UNCHANGED <<others, call>>

-----------------------------------------------------------------------------
(* Failures, restarts and time *)

Fails(f) == f \in Failures /\ errors < MaxErrors /\ errors' = errors + 1

\* Redis answers one command with an error.
Refuse ==
  /\ queue # <<>> /\ Cmd.fate = "sent"
  /\ Fails("refuse")
  /\ queue' = [queue EXCEPT ![1].fate = "refused"]
  /\ UNCHANGED <<now, redis, counter, windows, timeouts, call, started, early>>

\* The connection ends: the client is dropped, then every command pending is
\* answered with an error.  The first k of them were run.
LoseRedis ==
  /\ redis = "up"
  /\ Fails("lose")
  /\ redis' = "down"
  /\ \E k \in 0..Len(queue) :
       queue' = [i \in DOMAIN queue |->
         IF queue[i].fate # "sent" THEN queue[i]
         ELSE [queue[i] EXCEPT !.fate = IF i <= k THEN "lost" ELSE "refused"]]
  /\ UNCHANGED <<now, counter, windows, timeouts, call, started, early>>

\* The reconnect loop succeeds, after the pending commands were answered.
Connect ==
  /\ redis = "down" /\ queue = <<>>
  /\ redis' = "up"
  /\ UNCHANGED <<now, counter, windows, queue, timeouts, call, started, errors, early>>

\* The master dies; the first k pending commands were run.
Crash ==
  /\ started
  /\ Fails("crash")
  /\ redis' = "down" /\ started' = FALSE
  /\ \E k \in 0..Len(queue) :
       queue' = [i \in 1..k |-> [queue[i] EXCEPT !.fate =
                   IF @ \in {"refused", "void"} THEN "void" ELSE "orphan"]]
  /\ timers' = [s \in Slot |-> Off] /\ tracked' = NoSlot
  /\ call' = [c \in Calls |-> IF call[c].pc \in {"busy", "hung"}
                              THEN [call[c] EXCEPT !.pc = "done", !.status = 500]
                              ELSE call[c]]
  /\ UNCHANGED <<now, counter, windows, early>>
Orphan ==
  /\ queue # <<>> /\ Cmd.fate \in {"orphan", "void"}
  /\ Runs /\ Cmd.op = "incr" => counter < MaxWindows
  /\ Run
  /\ Then(<<>>)
  /\ UNCHANGED <<others, timeouts, call>>

\* startMaintenanceExpiry, as soon as the server listens: the redis connection
\* may or may not be there.
Startup ==
  /\ ~started
  /\ started' = TRUE
  /\ Send(NextEndQueries(1))
  /\ UNCHANGED <<now, redis, counter, windows, timeouts, call, errors, early>>

Tick ==
  /\ now < MaxTime
  /\ now' = now + 1
  /\ UNCHANGED <<redis, counter, windows, queue, timeouts, call, started, errors, early>>

-----------------------------------------------------------------------------
Reply ==
  \/ IncrReply \/ StoreReply \/ GetReply \/ ExpungeReply \/ CurrReply \/ RemoveReply
  \/ ListReply \/ FetchReply
  \/ HeadReply \/ ReaperGetReply \/ ReaperExpungeReply \/ ReaperRemoveReply
  \/ Orphan
TimerFires(s) == Expire(s) \/ Retry(s)

Next ==
  \/ \E c \in Calls : Begin(c)
  \/ Reply
  \/ \E s \in Slot : TimerFires(s)
  \/ Refuse \/ LoseRedis \/ Connect \/ Crash \/ Startup \/ Tick

Spec == Init /\ [][Next]_vars

\* Redis answers, Node runs the timers that are due, the reconnect loop goes on
\* until it connects, and time passes.
FairSpec == /\ Spec
            /\ WF_vars(Reply) /\ WF_vars(Connect) /\ WF_vars(Startup) /\ WF_vars(Tick)
            /\ \A s \in Slot : WF_vars(TimerFires(s))

-----------------------------------------------------------------------------
(* Safety *)

\* Commands whose answer asks redis for the next end.
WillSchedule(i) ==
  \/ queue[i].op \in {"head", "store", "remove"}
  \/ queue[i].by = Reaper

\* createMaintenance never writes over a window: the id it drew is not stored
\* and no other creator has it.
NewWindowIsNew ==
  \A i \in Queued("store") :
    /\ queue[i].id \notin Stored
    /\ \A j \in Queued("store") \ {i} : queue[j].id # queue[i].id

\* Without failures some timeout is due by the end of every window, or a command
\* is under way that will set one: however creations, deletions and expiries
\* interleave, clearing a timeout never loses the next end.
NextEndIsWatched ==
  errors = 0 => \A id \in Stored :
    \/ \E s \in Slot : /\ timers[s].kind = "expire"
                      /\ \/ timers[s].at <= windows[id].end
                         \/ timers[s].at <= now + MinWait
    \/ \E i \in DOMAIN queue : WillSchedule(i)

\* A window goes before its end only if a request shall delete it, or, as nobody
\* wants, if a request got it by its id before it was stored, which expunges it, or
\* if its end was once too far away for setTimeout: whatever timeouts were
\* forgotten, failed or lost, the reaper is not early otherwise.
DeleteAsked(id) == \E c \in Calls : call[c].kind = "delete" /\ call[c].id = id
GotTooSoon(id) ==
  \E c \in Calls : call[c].kind = "get" /\ call[c].id = id /\ id \notin call[c].before
LastsUntilEndOrDelete ==
  [][\A id \in Stored : id \notin Stored' =>
       \/ windows[id].end <= now
       \/ DeleteAsked(id) \/ GotTooSoon(id) \/ id \in early]_vars

\* An event is out of maintenance only if no window covers it that was there
\* when its check began and still is when it ends.
WindowSilencesEvents ==
  [][\A c \in Calls :
       /\ call[c].kind = "check" /\ call[c].pc = "busy"
       /\ call'[c].status = 200 /\ ~call'[c].verdict
       => \A id \in call[c].before \cap Stored : ~Covers(windows[id], call[c].event)]_vars

-----------------------------------------------------------------------------
(* Liveness *)

\* Without failures every window is removed in the end.
WindowsExpire ==
  \A id \in Id : id \in Stored /\ errors = 0 ~> id \notin Stored \/ errors > 0

-----------------------------------------------------------------------------
(* What the comments say, and the code does not do *)

\* docs/index.md:1034: a list of all windows returns an array.  When a window ends
\* before its hash is read, it returns nothing, ever.
ListAllAnswered ==
  \A c \in Calls :
    call[c].pc = "busy" /\ call[c].kind = "listAll" ~> call[c].pc = "done"

\* master/lib/maintenances.js:773: while there are windows the reaper worries
\* about re-scheduling itself.  It stops when there is no redis client.
ReaperGoesOn ==
  started /\ redis = "up" /\ queue = <<>> /\ Stored # {} =>
    \E s \in Slot : timers[s] # Off

\* master/lib/maintenances.js:770: one timeout expires the next window.  Queries
\* that overlap, as two creations make them and every expiry does, set one each,
\* and all but the last are forgotten.
OneExpiryTimeout ==
  \A s, t \in Slot : timers[s].kind = "expire" /\ timers[t].kind = "expire" => s = t
=============================================================================
