------------------------------ MODULE TimerSpec ------------------------------
(***************************************************************************)
(* What the timer manager (src/utils/timer_mgr.cpp) promises its user,     *)
(* without clocks, queue order or the sleeping of the timer thread.  A     *)
(* timer fires at most once, and may be cancelled while it is armed.       *)
(* Firing and delivering are two steps: the manager takes the timer out of *)
(* its queue and frees the identifier under its own lock, and calls the    *)
(* observer only after it has released that lock.                          *)
(***************************************************************************)
EXTENDS TimerIds

VARIABLES
  open,    \* the manager has been started and not yet stopped
  armed,   \* the timers in the queue
  firing   \* the timer taken from the queue whose observer is being called

vars == <<open, armed, firing>>

Init == open = FALSE /\ armed = {} /\ firing = NoItem

Open == ~open /\ open' = TRUE /\ UNCHANGED <<armed, firing>>

Arm(type) ==
  /\ open
  /\ armed' = SetTimer(armed, type)
  /\ UNCHANGED <<open, firing>>

Cancel(id) ==
  /\ armed' = KillTimer(armed, id)
  /\ UNCHANGED <<open, firing>>

Fire ==
  /\ open /\ firing = NoItem
  /\ \E t \in armed : firing' = t /\ armed' = armed \ {t}
  /\ UNCHANGED open

Deliver == firing # NoItem /\ firing' = NoItem /\ UNCHANGED <<open, armed>>

\* Stopping forgets the armed timers, and never overtakes an observer call.
Close ==
  /\ open /\ firing = NoItem
  /\ open' = FALSE /\ armed' = {}
  /\ UNCHANGED firing

Next ==
  \/ Open \/ Fire \/ Deliver \/ Close
  \/ \E type \in Types : Arm(type)
  \/ \E id \in Ids : Cancel(id)

Spec == Init /\ [][Next]_vars
=============================================================================
