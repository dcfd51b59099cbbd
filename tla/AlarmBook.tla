------------------------------ MODULE AlarmBook ------------------------------
(***************************************************************************)
(* What the alarm store promises, however events and API calls overlap and  *)
(* whatever fails.  The handler of an event is bound to an alarm that is    *)
(* open, or to one that it starts; later it raises or clears one fault of   *)
(* that alarm, once, whatever happened to the alarm since; a clear that     *)
(* left the alarm without faults may close it, later again.  Users close,   *)
(* reopen and remove alarms at any time, and a removed alarm is never seen  *)
(* again.                                                                   *)
(***************************************************************************)
CONSTANTS AlarmIds, Handlers, Faults, None

VARIABLES book,  \* per alarm: its state and its faults
          hand   \* per handler: what it will still do, and to which alarm

States == {"none", "open", "closed", "gone"}
BookTypeOK ==
  /\ book \in [AlarmIds -> [state: States, faults: SUBSET Faults]]
  /\ hand \in [Handlers -> [stage: {"free", "bound", "closing", "over"},
                            alarm: AlarmIds \cup {None}]]

BookInit ==
  /\ book = [id \in AlarmIds |-> [state |-> "none", faults |-> {}]]
  /\ hand = [h \in Handlers |-> [stage |-> "free", alarm |-> None]]

Seen(id) == book[id].state \in {"open", "closed"}
Enter(id, state, left) ==
  book' = [book EXCEPT ![id] = [state |-> state, faults |-> left]]
Change(id, state, left) == IF Seen(id) THEN Enter(id, state, left) ELSE UNCHANGED book
Turn(h, stage, id) == hand' = [hand EXCEPT ![h] = [stage |-> stage, alarm |-> id]]
Ends(h) == Turn(h, "over", None)

Bind(h, id) == /\ hand[h].stage = "free" /\ book[id].state = "open"
               /\ Turn(h, "bound", id) /\ UNCHANGED book
\* If it fails the alarm may stay without its event.
Start(h, id) == /\ hand[h].stage = "free" /\ book[id].state = "none"
                /\ Enter(id, "open", {})
                /\ Turn(h, "bound", id) \/ Ends(h)
Bound(h, id) == hand[h].stage = "bound" /\ hand[h].alarm = id
Raise(h, id, f) == /\ Bound(h, id)
                   /\ Change(id, book[id].state, book[id].faults \cup {f})
                   /\ Ends(h)
Clear(h, id, f) == /\ Bound(h, id)
                   /\ LET left == book[id].faults \ {f}
                      IN  /\ Change(id, book[id].state, left)
                          /\ \/ (Seen(id) => left = {}) /\ Turn(h, "closing", id)
                             \/ Ends(h)
CloseEmptied(h, id) == /\ hand[h].stage = "closing" /\ hand[h].alarm = id
                       /\ Change(id, "closed", book[id].faults)
                       /\ Ends(h)
\* It needs no alarm, or fails.  The alarm it was about to start is never used then.
GiveUp(h) ==
  /\ hand[h].stage # "over" /\ Ends(h)
  /\ \/ UNCHANGED book
     \/ \E id \in AlarmIds : book[id].state = "none" /\ Enter(id, "gone", {})

Close(id) == Change(id, "closed", book[id].faults) /\ UNCHANGED hand
Reopen(id) == Seen(id) /\ Enter(id, "open", book[id].faults) /\ UNCHANGED hand
Remove(id) == Change(id, "gone", {}) /\ UNCHANGED hand

BookNext ==
  \/ \E h \in Handlers :
       \/ GiveUp(h)
       \/ \E id \in AlarmIds :
            \/ Bind(h, id) \/ Start(h, id) \/ CloseEmptied(h, id)
            \/ \E f \in Faults : Raise(h, id, f) \/ Clear(h, id, f)
  \/ \E id \in AlarmIds : Close(id) \/ Reopen(id) \/ Remove(id)

BookSpec == BookInit /\ [][BookNext]_<<book, hand>>
=============================================================================
