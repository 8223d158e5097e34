------------------------------ MODULE TimerMgr -------------------------------
(***************************************************************************)
(* src/utils/timer_mgr.cpp with src/utils/id_allocator.cpp: a queue of     *)
(* timers sorted by target time, and one thread that sleeps until the      *)
(* first of them is due.  Every action is one critical section of          *)
(* timeMutex_, except that the thread calls the observer outside it.  The  *)
(* user's calls are serialised by the user (ModuleStates calls under       *)
(* msgHandleMutex_, UpdateEngineController under updateEngineMutex_), so   *)
(* there is one caller; ResetTimer is the one call with several critical   *)
(* sections, and Stop joins the thread between its two.                    *)
(***************************************************************************)
EXTENDS TimerIds, Sequences, SequencesExt

CONSTANTS
  Delays,    \* the delays timers are set with
  MaxTime    \* bound on the clock

ASSUME MgrConstants == Delays \subseteq Nat \ {0} /\ MaxTime \in Nat

VARIABLES
  status,      \* status_: "init", "started" or "to_quit"
  itemQueue,   \* itemQueue_, with the target time of every timer
  idFlags,     \* IdAllocator::idFlags
  thread,      \* the timer thread: "none", "ready", "wait" or "callback"
  wakeAt,      \* end of the current wait_for, or Forever for a plain wait
  item,        \* the thread's local copy of the timer it took
  call,        \* the user's call in progress: <<>> or its remaining sections
  now          \* CLOCK_MONOTONIC

vars == <<status, itemQueue, idFlags, thread, wakeAt, item, call, now>>

Forever == MaxTime + 1

Due(delay) == now + delay

Init ==
  /\ status = "init" /\ itemQueue = <<>>
  /\ idFlags = [i \in Ids |-> FALSE]
  /\ thread = "none" /\ wakeAt = Forever /\ item = NoItem
  /\ call = <<>> /\ now = 0

\* Mutant: nobody wakes the thread.
Mut_Notify == UNCHANGED thread

\* cv_.notify_one and notify_all: the thread, if it sleeps, runs again.
Notify == thread' = IF thread = "wait" THEN "ready" ELSE thread

\* Mutant: the number of queued timers serves as the next identifier.
Mut_FirstFree == {Len(itemQueue)}

\* IdAllocator::AllocId: the lowest identifier whose flag is not set.
FirstFree == {i \in Ids : ~idFlags[i] /\ \A j \in Ids : j < i => idFlags[j]}

Start ==
  /\ call = <<>> /\ status = "init" /\ thread = "none"
  /\ status' = "started" /\ thread' = "ready"
  /\ UNCHANGED <<itemQueue, idFlags, wakeAt, item, call, now>>

\* The first half of Stop; the caller then waits in Join.
Stop ==
  /\ call = <<>> /\ status = "started"
  /\ status' = "to_quit" /\ Notify
  /\ call' = <<"join">>
  /\ UNCHANGED <<itemQueue, idFlags, wakeAt, item, now>>

\* Mutant: Clear without having joined the thread.
Mut_Clear ==
  /\ call = <<"join">>
  /\ itemQueue' = <<>> /\ idFlags' = [i \in Ids |-> FALSE]
  /\ status' = "init" /\ call' = <<>>
  /\ UNCHANGED <<thread, wakeAt, item, now>>

\* Join returns once the thread has left Run, and Clear forgets everything.
Clear ==
  /\ call = <<"join">> /\ thread = "none"
  /\ itemQueue' = <<>> /\ idFlags' = [i \in Ids |-> FALSE]
  /\ status' = "init" /\ call' = <<>>
  /\ UNCHANGED <<thread, wakeAt, item, now>>

\* Mutant: new timers go to the end of the queue.
Mut_InsertPos(due) == 1 + Len(itemQueue)

\* Where SetTimer inserts: before the first timer that is not due earlier.
InsertPos(due) ==
  1 + Len(SelectSeq(itemQueue, LAMBDA it : it.tgtUs < due))

\* The body of SetTimer for a started manager.
DoSetTimer(type, delay) ==
  \/ /\ FirstFree = {}
     /\ UNCHANGED <<itemQueue, idFlags, thread>>
  \/ \E id \in FirstFree :
       /\ idFlags' = [idFlags EXCEPT ![id] = TRUE]
       /\ itemQueue' = InsertAt(itemQueue, InsertPos(Due(delay)),
            [timerId |-> id, type |-> type, tgtUs |-> Due(delay)])
       /\ IF InsertPos(Due(delay)) = 1 THEN Notify ELSE UNCHANGED thread

\* SetTimer; not started: INVALID_ID and no change.
SetTimerCall(type, delay) ==
  /\ call = <<>> /\ status = "started" /\ Due(delay) <= MaxTime
  /\ DoSetTimer(type, delay)
  /\ UNCHANGED <<status, wakeAt, item, call, now>>

\* Mutant: the identifier of a killed timer is not given back.
Mut_DoKillTimer(id) ==
  /\ itemQueue' = SelectSeq(itemQueue, LAMBDA it : it.timerId # id)
  /\ UNCHANGED idFlags

\* The critical section of KillTimer.
DoKillTimer(id) ==
  /\ itemQueue' = SelectSeq(itemQueue, LAMBDA it : it.timerId # id)
  /\ idFlags' = [idFlags EXCEPT
       ![id] = @ /\ ~\E k \in DOMAIN itemQueue : itemQueue[k].timerId = id]

KillTimerCall(id) ==
  /\ call = <<>>
  /\ DoKillTimer(id)
  /\ UNCHANGED <<status, thread, wakeAt, item, call, now>>

\* ResetTimer, first section: a lone timer gets its new target time in place;
\* a lone timer under another identifier ends the call with INVALID_ID.
ResetTimer(id, type, delay) ==
  /\ call = <<>> /\ Due(delay) <= MaxTime
  /\ IF Len(itemQueue) = 1
       THEN /\ call' = <<>>
            /\ IF itemQueue[1].timerId = id
                 THEN itemQueue' = [itemQueue EXCEPT ![1].tgtUs = Due(delay)] /\ Notify
                 ELSE UNCHANGED <<itemQueue, thread>>
       ELSE call' = <<"kill", id, type, delay>> /\ UNCHANGED <<itemQueue, thread>>
  /\ UNCHANGED <<status, idFlags, wakeAt, item, now>>

\* ResetTimer otherwise: KillTimer, and then SetTimer with a section each.
ResetKill ==
  /\ call # <<>> /\ Head(call) = "kill"
  /\ DoKillTimer(call[2])
  /\ call' = [call EXCEPT ![1] = "set"]
  /\ UNCHANGED <<status, thread, wakeAt, item, now>>

ResetSet ==
  /\ call # <<>> /\ Head(call) = "set"
  /\ call' = <<>>
  /\ IF status = "started"
       THEN DoSetTimer(call[3], call[4])
       ELSE UNCHANGED <<itemQueue, idFlags, thread>>
  /\ UNCHANGED <<status, wakeAt, item, now>>

\* One turn of the loop of Run under timeMutex_: leave, sleep, or take the first timer.
Run ==
  /\ thread = "ready"
  /\ \/ /\ status # "started"
        /\ thread' = "none"
        /\ UNCHANGED <<itemQueue, idFlags, wakeAt, item>>
     \/ /\ status = "started" /\ itemQueue = <<>>
        /\ thread' = "wait" /\ wakeAt' = Forever
        /\ UNCHANGED <<itemQueue, idFlags, item>>
     \/ /\ status = "started" /\ itemQueue # <<>> /\ now < Head(itemQueue).tgtUs
        /\ thread' = "wait" /\ wakeAt' = Head(itemQueue).tgtUs
        /\ UNCHANGED <<itemQueue, idFlags, item>>
     \/ /\ status = "started" /\ itemQueue # <<>> /\ now >= Head(itemQueue).tgtUs
        /\ item' = [timerId |-> Head(itemQueue).timerId, type |-> Head(itemQueue).type]
        /\ idFlags' = [idFlags EXCEPT ![Head(itemQueue).timerId] = FALSE]
        /\ itemQueue' = Tail(itemQueue)
        /\ thread' = "callback"
        /\ UNCHANGED wakeAt
  /\ UNCHANGED <<status, call, now>>

\* The observer's OnTimerEvent has returned.
CallbackDone ==
  /\ thread = "callback"
  /\ thread' = "ready" /\ item' = NoItem
  /\ UNCHANGED <<status, itemQueue, idFlags, wakeAt, call, now>>

\* The wait ends because its time has come, or for no reason at all.
TimeUp ==
  /\ thread = "wait" /\ wakeAt <= now
  /\ thread' = "ready"
  /\ UNCHANGED <<status, itemQueue, idFlags, wakeAt, item, call, now>>

SpuriousWakeup ==
  /\ thread = "wait" /\ now < wakeAt
  /\ thread' = "ready"
  /\ UNCHANGED <<status, itemQueue, idFlags, wakeAt, item, call, now>>

\* The clock; near its bound it waits for a reset in progress.
Tick ==
  /\ now < MaxTime /\ now' = now + 1
  /\ Len(call) = 4 => now' + call[4] <= MaxTime
  /\ UNCHANGED <<status, itemQueue, idFlags, thread, wakeAt, item, call>>

User ==
  \/ Start \/ Stop \/ Clear \/ ResetKill \/ ResetSet
  \/ \E type \in Types, delay \in Delays : SetTimerCall(type, delay)
  \/ \E id \in Ids : KillTimerCall(id)
  \/ \E id \in Ids, type \in Types, delay \in Delays : ResetTimer(id, type, delay)

Next == User \/ Run \/ CallbackDone \/ TimeUp \/ SpuriousWakeup \/ Tick

\* The timer thread, the clock and a call once begun make progress; nobody has
\* to set, reset, kill or stop.  (Strong fairness only because of the bound in Tick.)
Fairness ==
  /\ WF_vars(Run) /\ WF_vars(CallbackDone) /\ WF_vars(TimeUp) /\ SF_vars(Tick)
  /\ WF_vars(Clear) /\ WF_vars(ResetKill) /\ WF_vars(ResetSet)

Spec == Init /\ [][Next]_vars /\ Fairness

-----------------------------------------------------------------------------

\* Every variable of the manager has its type.
TypeOK ==
  /\ status \in {"init", "started", "to_quit"}
  /\ itemQueue \in Seq([timerId : Ids, type : Types, tgtUs : 0 .. MaxTime])
  /\ idFlags \in [Ids -> BOOLEAN]
  /\ thread \in {"none", "ready", "wait", "callback"}
  /\ wakeAt \in 0 .. Forever
  /\ item \in Item \cup {NoItem}
  /\ now \in 0 .. MaxTime

\* An identifier is taken exactly while one queued timer has it: KillTimer, the
\* reset path and the thread give back what AllocId handed out, and never twice.
IdsMatchQueue ==
  /\ \A i \in Ids :
       idFlags[i] <=> \E k \in DOMAIN itemQueue : itemQueue[k].timerId = i
  /\ \A k, l \in DOMAIN itemQueue :
       itemQueue[k].timerId = itemQueue[l].timerId => k = l

\* The thread never sleeps past a due time: SetTimer wakes it when the new timer
\* comes first, so neither an insertion, a kill nor a reset made while it sleeps
\* leaves it waiting for something later than the first timer.
NeverOversleeps ==
  thread = "wait" /\ itemQueue # <<>> => wakeAt <= Head(itemQueue).tgtUs

\* Run looks at the front only; no later timer may be due before it.
QueueSorted ==
  \A k, l \in DOMAIN itemQueue : k < l => itemQueue[k].tgtUs <= itemQueue[l].tgtUs

\* After Stop has returned the thread is gone and no observer call is running or
\* still to come.
QuietOnceStopped ==
  status = "init" => thread = "none" /\ item = NoItem /\ itemQueue = <<>>

\* Run gives every queued timer its turn: it fires unless it is killed, reset or
\* dropped by Stop first.
TimersGoOff ==
  \A i \in Ids : idFlags[i] ~> ~idFlags[i]

\* Stop comes to an end, even when it meets a sleeping thread or one that is in
\* an observer call.
StopReturns == (call = <<"join">>) ~> (status = "init")

Timer == INSTANCE TimerSpec WITH
  open <- status # "init",
  armed <- {[timerId |-> itemQueue[k].timerId, type |-> itemQueue[k].type] :
              k \in DOMAIN itemQueue},
  firing <- item

\* The manager keeps its promise to its user: queue order, sleeping and the split
\* critical sections of ResetTimer and Stop are invisible in TimerSpec.
ImplementsTimerSpec == Timer!Spec
=============================================================================
