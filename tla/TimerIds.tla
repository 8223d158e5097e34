------------------------------ MODULE TimerIds -------------------------------
(***************************************************************************)
(* Timers as a user of src/utils/timer_mgr.cpp sees them: an armed timer   *)
(* is an identifier and the type it was set for.  The operators are the    *)
(* effect of the manager's calls on the set of armed timers; where that    *)
(* set is kept, and when a timer fires, is left to the modules that use    *)
(* them.                                                                   *)
(***************************************************************************)
EXTENDS Naturals

CONSTANTS
  MaxTimerNum,   \* number of identifiers of the allocator
  INVALID_ID,    \* what SetTimer returns instead of an identifier
  Types          \* what a timer can be set for

ASSUME TimerConstants == INVALID_ID \in Nat /\ MaxTimerNum \in 1 .. INVALID_ID

Ids == 0 .. MaxTimerNum - 1

Item == [timerId : Ids, type : Types]

NoItem == [timerId |-> INVALID_ID, type |-> "none"]

FreeIds(items) == {i \in Ids : \A t \in items : t.timerId # i}

\* IdAllocator::AllocId: the lowest free identifier, INVALID_ID when all are taken.
AllocId(items) ==
  IF FreeIds(items) = {} THEN INVALID_ID
  ELSE CHOOSE i \in FreeIds(items) : \A j \in FreeIds(items) : i <= j

\* KillTimer: the timer armed under this identifier goes, if there is one.
KillTimer(items, id) == {t \in items : t.timerId # id}

\* SetTimer: one more armed timer, unless no identifier is free.
SetTimer(items, type) ==
  IF AllocId(items) = INVALID_ID THEN items
  ELSE items \cup {[timerId |-> AllocId(items), type |-> type]}
=============================================================================
