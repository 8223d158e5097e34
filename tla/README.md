# Specifications of the intelligent voice framework

TLA+ models of the intelligent voice system ability (`src/`): what its threads
do to each other's state, what they may never do, and what must eventually
happen.  TLC checks the models on small instances; TLAPS proves the central
invariants for every value of the constants.

## The system

| Part | Code | State | Runs on |
|---|---|---|---|
| Service manager | `services/intell_voice_service/server/sa/intell_voice_service_manager.cpp` | task queue, switches, detectors, unloading | `ServMgrThread`, one task at a time |
| Engine manager, arbitration | `services/intell_voice_engine/server/manager/` | the engines that exist | caller's thread, mostly `ServMgrThread` |
| Update controller, strategies, update engine | `.../server/update/` | strategy, retries, timer, running engine | `ServMgrThread`, a thread per commit, a timer thread |
| Enroll, implicit-enroll engine | `.../server/enroll/`, `.../server/implicit/` | adapter, audio, callbacks | client threads, own task thread |
| Wake-up engine: facade, phone, headset, glasses, only-first | `.../server/wakeup/` | state machine, adapter, audio, listener | client threads, task thread, timer thread, audio thread |
| Device manager | `.../server/base/engine_device_manager.cpp` | registered devices, active device | audio and client threads, one detached thread per refresh |
| Trigger helper, connector, store | `services/intell_voice_trigger/server/` | models, their recognition, suspending conditions | client threads, HDI callbacks, system events |
| Utilities | `utils/` | timers, queues, state machines, identifiers | timer thread, task threads |
| Client library and bindings | `frameworks/` | handles, callbacks | the application |

A detection by the trigger starts the wake-up engine, which recognises the
phrase with the HDI service, tells the application, and hands it the recorded
audio.  Enrolment and update write the wake-up model; they exclude each other
and release the wake-up engine while they run.

What makes it hard: a timer that has been taken from its queue is handled later,
when the state it was set for may be gone; identifiers of timers are reused at
once; results of the HDI wait in task queues while sessions end and begin;
replaced and released engines report after their successors have started;
requests arrive in every state; a step of several can fail half-way.

## Modules

| Module | Models | Checked by |
|---|---|---|
| `TimerIds` | identifiers and items of timers, shared by the others | |
| `TimerSpec` | what a user of the timer manager may rely on | `timer_mgr` (refinement) |
| `TimerMgr` | `utils/timer_mgr.cpp` with its thread, lock and condition variable | `timer_mgr` |
| `WakeupEngineImpl` | phone wake-up engine, its state machine, timers, task queue, audio thread and listener | `wakeup_engine` |
| `WakeupEngineProofs` | proofs about `WakeupEngineImpl` | |
| `WakeupFacade` | the facade clients talk to, the engines of phone, headset and glasses behind it, and the device manager | `wakeup_facade`, `device_manager`, `facade_follows` |
| `WakeupFacadeProofs` | proofs about `WakeupFacade` | |
| `UpdateController` | update of the wake-up model, with the service manager's tasks that drive it | `update_controller`, `clone_answered` |

### TimerMgr

State: `itemQueue_` in order, the identifiers in use, `status_`, a clock, what the
timer thread is doing (asleep until a time or for ever, running a callback, gone)
and the calls of `Stop` and `ResetTimer` that are half done.  Each locked section is
an action; `ResetTimer` is three, because it drops the lock before `KillTimer` and
`SetTimer`.  `wait_for` may end by notification, by time or spuriously.
`TimerSpec` has only the set of armed timers and the one being delivered; the
refinement maps the queue to its set.  Users of timers (`WakeupEngineImpl`,
`UpdateController`) are written against `TimerSpec`'s operators.

Fairness: the thread runs, a callback returns, a begun call goes on, and time
passes (strongly, because the clock is bounded).

### WakeupEngineImpl

`ModuleStates::HandleMsg` holds the state lock for a whole message, so one message
is one action: the guard is the row of `InitStates`, the effects are the handler's
and those of `ToState`.  Beside the callers' messages there are the timer thread
(take a timer, then later deliver it), the HDI (events enter the task queue, or
are dropped when it is full), the task thread (deliver one) and the audio thread
(one frame).  Data is abstracted: a frame is a number, a result carries the number
of its session, the client is a caller identifier.

Left out because they change no modelled state: `SET_PARAM`, `GET_PARAM`,
`GET_WAKEUP_PCM`, reports and uploads.  `Stop` and `Detach` of the HDI adapter and the
stop of a microphone record (`RecordPermissionPrivacy`) are assumed effective, as the
code ignores their results: `privacy` holds the tokens whose use was recorded as begun
and not since as ended.  `asr` is what the engine last did to the echo and noise mode;
"left" stands for a call that set nothing, because an audio manager is missing or another
recognition app records.  The channels of one frame are kept together, and the shutdown
of `AudioSource` is one step.

Fairness: the task thread and the timer thread run.  In `READ_CAPTURER` every successful
read resets the timer, so its timeout is only owed once no audio is left
(`NoMoreAudio`), and nothing makes the audio run out.

### WakeupFacade

`WakeupEngineImplFacade` holds `deviceMutex_` for a whole call and an engine its state
lock for a whole message, so a call, a timeout or a result is one action; the engine's
`ToState` tells the facade within it (`PhoneMoves`, `OtherMoves`, `OnStateChange`).
The phone's engine is `WakeupEngineImpl` reduced to its states, with timeouts and
results in every state that accepts them.  The device manager changes its list in one
action, refreshes the active device in another (a detached thread per change) and
calls the facade in a third, because the call is made after unlocking.  A device
carries the number of its registration: the code compares pointers, so a device that
registers again is another device.

Histories and undefined values: `processType_` of the phone's engine is not
initialised, so `CreateEngine` chooses it; `misled` marks behaviours in which such a
value was taken for another device's type, and `strayed` wake-up sessions of the phone
during which the active device changed (commands of a whisper session go to the phone
whatever the device).  The properties say `~misled` or `~strayed` where the code really
loses step: nothing is shown of those behaviours.  `closing` says that the last detection
asked the service manager to close the wake-up source.  `dry` holds the engines in
`READ_CAPTURER` that have no more audio for their client.

A device has a MAC of its own, never the phone's, and may be of any type but `PHONE` (the
code lets one register; the phone's engine would serve it, as it serves a headset whose
engine cannot be initialised).  For the type `GLASSES` the facade has no engine: `CreateEngineImpl` fails, so
no facade is created while such a device is active, and one that exists keeps the phone's
engine or has none.  A refresh between registering the
facade's callback and reading the active device in `Init` would only repeat a call.
The task queues of headset and glasses, their audio data and the host of the headset
are not modelled.

Fairness: the timer threads of the engines run.  As in `WakeupEngineImpl`, the timeout of
`READ_CAPTURER` is owed only once the audio has ended (`AudioEnds`, which may never
happen), because each successful read puts it off.

### UpdateController

`ServMgrThread` runs tasks one by one, and a request has no effect before its task
runs; so a request is an action that may happen whenever the thread is between two
tasks, and the queue holds only tasks the system posts itself: the report of an
update engine, the retry after a timer, the whisper update after an enrolment.  The
one task that makes two calls with a state in between (a completed update, then the
whisper update) keeps the second in `rest`.  The commit of the HDI comes on its own
thread at any time while the engine is attached, or at once inside `Init`.

`committed`, `accepted`, `told` and `misnamed` are history variables.  `misnamed`
marks updates whose engine carries another name than the strategy in charge: the
report of such an engine is ignored, and the run `clone_answered` shows what
follows from that.  Refusals while the service unloads are requests that do not
happen; switching detection on and unloading after an update belong to the planned
service-manager module; implicit enrolment is not part of this model; the queue of
2048 tasks is taken as never full.

Fairness: `ServMgrThread` and the timer thread run, and the HDI commits while an
engine stays attached (the code has no timeout for it).  Nothing is asked of clients.

## Runs

| Run | Bounds | Shows |
|---|---|---|
| `timer_mgr` | see `TimerMgr.cfg` | the queue stays sorted and in step with the identifiers; the thread never sleeps past a deadline; after `Stop` nothing fires; timers go off, `Stop` returns; `TimerSpec` is implemented |
| `wakeup_engine` | see `WakeupEngineImpl.cfg` | privacy record, audio, adapter and timeouts follow the state; results are neither lost nor repeated nor reordered; recognition and the wait for a client end; once no audio is left the microphone record is closed |
| `wakeup_facade` | 1 device beside the phone, of any type, 3 changes, 1 engine | unless `misled` or `strayed`: one session at a time, the facade is in step with its engines, commands reach the session; callbacks survive replaced engines; read thread and adapter follow the state; a detection of the phone is answered; a process ends unless its client still gets audio |
| `device_manager` | 2 devices, 5 changes, no engine | once the refreshes have run, the active device plays the audio or is the last registered |
| `facade_follows` | 1 device, 3 changes | **violated**: the facade may stay with a device that is not active |
| `update_controller` | 2 `wakeupInfo`, 2 retries, 4 requests | enrolment and update exclude each other; an idle controller holds nothing; retries are bounded; an update under way waits for something that will come; clone clients are told once, and of success only if the HDI committed; a cleared version is not saved again by the update that was running; updates end |
| `clone_answered` | 2 requests | **violated**: an accepted enrolment with wake-up files may never be answered |

Two timers and identifiers suffice to make identifiers collide and the queue have an
order; two sessions let an event of the first arrive in the second; two frames, of which the
first read takes one, leave a part of the buffer for the next; four requests let
an update be started, taken over or replaced, cleared and started again; two retries
separate the first, the last and the one in between.  In `wakeup_facade` three changes let
a device register, become active and lose its place, so that a session of either kind
is interrupted and two refreshes overlap; the second device of `device_manager` makes
the order of the list matter.

## Proofs

TLAPS proves, for every value of the constants:

| Theorem | Says |
|---|---|
| `WakeupEngineProofs!TypeCorrect` | `[]TypeOK` |
| `WakeupEngineProofs!MicrophoneRecordSafe` | the privacy record is open exactly while a client reads |
| `WakeupEngineProofs!AudioSafe` | audio source and buffers live exactly as long as a session, and none that turned the echo mode on ends without `SetParamOnAudioStop` |
| `WakeupEngineProofs!AdapterSafe` | the HDI adapter follows the state |
| `WakeupEngineProofs!TimeoutAlwaysPending` | every session state has exactly its own timeout pending |
| `WakeupEngineProofs!RecognitionSafe` | a recognised wake-up is told or kept until its session ends |
| `WakeupFacadeProofs!OneSessionAtATime` | `~misled`: phone and other device never in session together |
| `WakeupFacadeProofs!FacadeAlwaysInStep` | `~misled`: the facade believes what is true of its engines |
| `WakeupFacadeProofs!CommandsArrive` | `~misled`, and `~strayed` for the phone: `GetCurrentImpl` is the engine in session |
| `WakeupFacadeProofs!CallbackSafe` | every engine has the callback saved last |
| `WakeupFacadeProofs!OtherAlwaysInStep` | read thread and adapter of headset and glasses follow the state |

The assumptions are those the modules name: `TimerConstants` (`INVALID_ID` is a natural
number, `MaxTimerNum` lies in `1 .. INVALID_ID`), `EngineConstants` (the timeouts are the
three of the engine, the bounds are natural numbers, `NoToken` is no client) and
`FacadeConstants` ("PHONE" is no MAC of a device, "none" no callback, the bounds are
natural numbers).

`WakeupEngineProofs`.  `Inv` is `TypeOK /\ Core /\ TimeoutPending`; `Core` joins the
types of the engine's variables with the four invariants on microphone, audio, adapter
and recognition.  They are proved together because a handler's guard is a state, and
each needs what the others say of that state: ending a session, for instance, closes
the record of the client that was reading.  The machinery of `ToState` and of resetting
a timer is treated once (`ToStateArms`, `ResetArms`), then there is one lemma per
handler.

`WakeupFacadeProofs`.  `FacadeInStep` says that the facade's view is that of the engine
in session.  It is preserved because types tell engines apart: `Told` adds that a phone
in session has set its type, and `Pointed` that there is another engine exactly when
the facade points to it.  `OneSession` follows at the one place where a session begins:
behind `ProcessCheck` the view is idle, so by `FacadeInStep` no engine is in session.
(Timeouts run without `deviceMutex_`, but they only end sessions; only a detection
begins one, and it holds the lock from `ProcessCheck` to the start.)
`PhoneStep` and `OtherStep` treat any change of state of one engine; the other lemmas
reduce each call to them.

Only model-checked: liveness (TLAPS has no fairness), the refinement of `TimerSpec`,
everything about `TimerMgr` and `UpdateController`, the order of told results, and
what depends on the list of devices (`ActiveDeviceChosen`, `DetectionAnswered`), whose
`SelectSeq` would need induction over sequences.

## Findings

* `clone_answered`: an enrolment with wake-up files that was accepted may never be
  answered, when the engine commits before it knows its parameter, when a second
  enrolment with other files takes the engine over, or when user data is cleared.
* `facade_follows`: a refresh of the active device picks under the lock and tells after
  it.  Two refreshes tell in either order, and the facade can stay with the older device
  until the next change.

## Not modelled

Marshalling (stubs and proxies), argument conversion of the JavaScript and ArkTS
bindings, encryption and files, statistics and uploads: input and output without state
of their own that others depend on.  `MessageQueue` and `MsgHandleThread` are no longer
used by the service.  The hazards without a property in `PROJECT.json` belong to the
parts below.

## Plan

1. `ServiceManager`: switches, detectors, start and stop of detection, unloading and
   idling, with the service's lifecycle; composed with an abstract engine manager.  To
   check: a switch that is on has its detector running or being started, unloading
   never meets a request half-way, `ServMgrThread` never waits for itself.
2. `EngineManager`: creation, arbitration and release of all engines, death of a client
   and of the HDI host.
3. `TriggerHelper` and connector: models, start and stop of recognition under
   telephony, audio and power conditions, restart after the host dies; an abstract
   specification ("recognition runs iff it is wanted and permitted") it refines.
4. `TaskExecutor` with `QueueUtil`: waiting callers, clearing, stopping; then the task
   queues in the other modules refer to it.
5. `ImplicitEnroll` and `EnrollEngine`, with the audio source's shutdown; the
   only-first engine.
6. Client library: loading of the service, its death, and the callbacks of bindings.
7. Proofs: `UpdateController` (exclusion of engines, bounded retries, nothing left
   behind when idle), `TimerMgr` (queue and identifiers agree; steps refine
   `TimerSpec`), the safety invariants of the modules above.
