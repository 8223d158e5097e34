-------------------------- MODULE WakeupEngineImpl ---------------------------
(***************************************************************************)
(* The wake-up engine of the phone,                                        *)
(* src/services/intell_voice_engine/server/wakeup/wakeup_engine_impl.cpp,  *)
(* on top of its state machine (src/utils/state_manager.cpp), its timers,  *)
(* its task thread, its audio source and its client listener.              *)
(*                                                                         *)
(* Four threads meet here: the caller (a client of the service, or a       *)
(* detection of the trigger), the timer thread, the task thread that       *)
(* carries events of the HDI adapter, and the thread of the audio source.  *)
(* A message is handled under msgHandleMutex_, so HandleMsg is one action; *)
(* between taking an expired timer, or receiving an HDI event, and         *)
(* handling it lies a moment in which any other message may come first.    *)
(***************************************************************************)
EXTENDS TimerIds, Sequences

CONSTANTS
  Tokens,        \* access tokens of the clients that read audio
  NoToken,       \* callerTokenId_ before the first client
  MaxTaskNum,    \* capacity of the task queue (MAX_WAKEUP_TASK_NUM)
  MaxFrames,     \* capacity of the audio buffer queue
  FrameCnt,      \* frames the first read of a session may take (FRAME_CNT)
  MaxSessions    \* bound: how many times recognition is started

ASSUME EngineConstants ==
  /\ Types = {"RECOGNIZING_TIMEOUT", "RECOGNIZE_COMPLETE_TIMEOUT", "READ_CAPTURER_TIMEOUT"}
  /\ MaxTaskNum \in Nat /\ MaxFrames \in Nat /\ FrameCnt \in Nat
  /\ MaxSessions \in Nat
  /\ NoToken \notin Tokens

VARIABLES
  \* ModuleStates and TimerMgr
  state,          \* currState_
  timerId,        \* StateActions::timerId of every state
  armed, firing,  \* see TimerSpec
  \* the HDI adapter
  adapter,        \* adapter_: "none", "created", "attached" or "started"
  initDue,        \* an INIT_DONE event is still to come from the attached adapter
  resultDue,      \* the recognition whose RECOGNIZE_COMPLETE may still come (0: none)
  tasks,          \* the queue of the task thread
  \* audio
  source,         \* audioSource_ is set
  reading,        \* the thread of the audio source is delivering
  frames,         \* audio in the buffer queue of WakeupSourceProcess
  readBufferPCM,  \* the next read takes several buffered frames at once
  stopCb,         \* wakeupSourceStopCallback_ is registered
  asr,            \* echo and noise mode as last set: "bypass", "on", or "left" alone
  \* the client
  callerTokenId,  \* whom the microphone use is recorded for
  privacy,        \* tokens recorded as using the microphone and not since as done
  cb,             \* a client callback is registered with the listener
  historyEvent,   \* the result kept for the next callback (0: none)
  \* history
  session,        \* number of recognitions started
  result,         \* the last result the engine accepted (0: none)
  told            \* the results clients have received, in order

machine == <<state, timerId, armed>>
hdi     == <<adapter, initDue, resultDue>>
audio   == <<source, reading, frames, readBufferPCM, asr>>
client  == <<callerTokenId, privacy>>
notice  == <<cb, historyEvent, told>>
count   == <<session, result>>
vars    == <<machine, firing, hdi, tasks, audio, stopCb, client, notice, count>>

States ==
  {"IDLE", "INITIALIZING", "INITIALIZED", "RECOGNIZING", "RECOGNIZED", "READ_CAPTURER"}

\* Mutant: the timeout of RECOGNIZED is registered with the wrong message.
Mut_TimeoutOf ==
  [s \in {"RECOGNIZING", "RECOGNIZED", "READ_CAPTURER"} |->
     IF s = "READ_CAPTURER" THEN "READ_CAPTURER_TIMEOUT" ELSE "RECOGNIZING_TIMEOUT"]

\* WaitUntil of InitStates: the states with a time limit and its message.
TimeoutOf ==
  [s \in {"RECOGNIZING", "RECOGNIZED", "READ_CAPTURER"} |->
     CASE s = "RECOGNIZING" -> "RECOGNIZING_TIMEOUT"
       [] s = "RECOGNIZED" -> "RECOGNIZE_COMPLETE_TIMEOUT"
       [] s = "READ_CAPTURER" -> "READ_CAPTURER_TIMEOUT"]

TimedStates == DOMAIN TimeoutOf

Events ==
  [msg : {"INIT_DONE"}, ok : BOOLEAN, session : {0}]
    \cup [msg : {"RECOGNIZE_COMPLETE"}, ok : BOOLEAN, session : 1 .. MaxSessions]

Init ==
  /\ state = "IDLE" /\ timerId = [s \in States |-> INVALID_ID]
  /\ armed = {} /\ firing = NoItem
  /\ adapter = "none" /\ initDue = FALSE /\ resultDue = 0 /\ tasks = <<>>
  /\ source = FALSE /\ reading = FALSE /\ frames = 0 /\ readBufferPCM = FALSE
  /\ stopCb = FALSE /\ asr = "bypass"
  /\ callerTokenId = NoToken /\ privacy = {}
  /\ cb = FALSE /\ historyEvent = 0 /\ told = <<>>
  /\ session = 0 /\ result = 0

-----------------------------------------------------------------------------
(* The state machine.                                                      *)

\* Mutant: the timer of the state that is left keeps running.
Mut_ToState(next) ==
  /\ state' = next
  /\ IF next \in TimedStates
       THEN /\ armed' = SetTimer(armed, TimeoutOf[next])
            /\ timerId' = [timerId EXCEPT ![next] = AllocId(armed)]
       ELSE UNCHANGED <<armed, timerId>>

\* ModuleStates::ToState: kill the timer of the state that is left, arm that of the next one.
ToState(next) ==
  LET left == KillTimer(armed, timerId[state])
  IN  /\ state' = next
      /\ IF next \in TimedStates
           THEN /\ armed' = SetTimer(left, TimeoutOf[next])
                /\ timerId' = [timerId EXCEPT ![state] = INVALID_ID, ![next] = AllocId(left)]
           ELSE /\ armed' = left
                /\ timerId' = [timerId EXCEPT ![state] = INVALID_ID]

\* Mutant: the timer is killed and not set again.
Mut_ResetTimerDelay ==
  /\ UNCHANGED state
  /\ armed' = KillTimer(armed, timerId[state])
  /\ timerId' = [timerId EXCEPT ![state] = INVALID_ID]

\* ModuleStates::ResetTimerDelay with TimerMgr::ResetTimer: a lone timer keeps its
\* identifier and gets a new target time; otherwise kill and set.
ResetTimerDelay ==
  LET left == KillTimer(armed, timerId[state])
  IN  /\ UNCHANGED state
      /\ IF timerId[state] = INVALID_ID \/ state \notin TimedStates
           THEN UNCHANGED <<armed, timerId>>
           ELSE IF \E t \in armed : armed = {t}
           THEN /\ UNCHANGED armed
                /\ timerId' = [timerId EXCEPT ![state] =
                     IF \E t \in armed : t.timerId = @ THEN @ ELSE INVALID_ID]
           ELSE /\ armed' = SetTimer(left, TimeoutOf[state])
                /\ timerId' = [timerId EXCEPT ![state] = AllocId(left)]

\* InitStates: the states in which a message has a handler.
ActsIn ==
  [INIT |-> {"IDLE"}, RESET_ADAPTER |-> {"IDLE"},
   INIT_DONE |-> {"INITIALIZING"},
   START_RECOGNIZE |-> {"INITIALIZED"},
   RECOGNIZING_TIMEOUT |-> {"RECOGNIZING"}, STOP_RECOGNIZE |-> {"RECOGNIZING"},
   RECOGNIZE_COMPLETE |-> {"RECOGNIZING"},
   RECOGNIZE_COMPLETE_TIMEOUT |-> {"RECOGNIZED"}, START_CAPTURER |-> {"RECOGNIZED"},
   READ_CAPTURER_TIMEOUT |-> {"READ_CAPTURER"}, READ |-> {"READ_CAPTURER"},
   STOP_CAPTURER |-> {"READ_CAPTURER"},
   RELEASE |-> States \ {"IDLE"}]

\* StateActions::Handle: without a handler the message is dropped.
Handles(msg) == state \in ActsIn[msg]

-----------------------------------------------------------------------------
(* What the handlers have in common.                                       *)

\* The mode is left alone without the audio managers.
SetParamOnAudioStart == asr' \in {"on", "left"}

\* The mode is left alone without the audio managers, and while another recognition
\* app records.
SetParamOnAudioStop == asr' \in {"bypass", "left"}

\* Mutant: the buffers are not released with the source.
Mut_StopAudioSource ==
  IF source
    THEN /\ source' = FALSE /\ reading' = FALSE
         /\ SetParamOnAudioStop
         /\ UNCHANGED <<readBufferPCM, frames>>
    ELSE UNCHANGED audio

StopAudioSource ==
  IF source
    THEN /\ source' = FALSE /\ reading' = FALSE /\ frames' = 0
         /\ SetParamOnAudioStop
         /\ UNCHANGED readBufferPCM
    ELSE UNCHANGED audio

\* Mutant: the adapter is not told to stop.
Mut_StopAdapter == UNCHANGED hdi

\* EngineUtil::Stop; a result the adapter has already produced may still arrive.
StopAdapter ==
  /\ adapter' = IF adapter = "started" THEN "attached" ELSE adapter
  /\ UNCHANGED <<initDue, resultDue>>

\* Mutant: the record is closed for any session that ends, and only then.
Mut_StopPrivacy ==
  privacy' = IF state = "RECOGNIZED" THEN privacy \ {callerTokenId} ELSE privacy

\* RecordPermissionPrivacy(STOP) if this session had recorded its start; the code does
\* not look at the answer of the privacy service.
StopPrivacy ==
  privacy' = IF state = "READ_CAPTURER" THEN privacy \ {callerTokenId} ELSE privacy

\* Mutant: without a callback the result is dropped.
Mut_NotifyDrops(res) ==
  IF cb THEN told' = Append(told, res) /\ historyEvent' = 0
        ELSE UNCHANGED <<told, historyEvent>>

\* Mutant: a result already told is kept as well.
Mut_NotifyKeeps(res) ==
  /\ told' = IF cb THEN Append(told, res) ELSE told
  /\ historyEvent' = res

\* WakeupAdapterListener::Notify: tell the client, or keep the result for the next one.
Notify(res) ==
  IF cb THEN told' = Append(told, res) /\ historyEvent' = 0
        ELSE historyEvent' = res /\ UNCHANGED told

\* Mutant: a full buffer queue takes another frame.
Mut_Buffered == frames + 1

\* QueueUtil::Push without waiting: a full buffer queue drops the frame.
Buffered == IF frames < MaxFrames THEN frames + 1 ELSE frames

-----------------------------------------------------------------------------
(* The handlers: everything but the queue a message came from.             *)

\* HandleInit: adapter, callback, parameters, attach.  A failed attach leaves the
\* adapter in place.
HandleInit ==
  /\ Handles("INIT")
  /\ \/ adapter' = "none" /\ UNCHANGED <<machine, initDue>>
     \/ adapter' = "created" /\ UNCHANGED <<machine, initDue>>
     \/ adapter' = "attached" /\ initDue' = TRUE /\ ToState("INITIALIZING")
  /\ UNCHANGED <<resultDue, audio, stopCb, client, notice, count>>

\* HandleResetAdapter: the same, but a failed attach releases the adapter.
HandleResetAdapter ==
  /\ Handles("RESET_ADAPTER")
  /\ \/ adapter' = "none" /\ UNCHANGED <<machine, initDue>>
     \/ adapter' = "attached" /\ initDue' = TRUE /\ ToState("INITIALIZING")
  /\ UNCHANGED <<resultDue, audio, stopCb, client, notice, count>>

HandleInitDone(ok) ==
  /\ Handles("INIT_DONE")
  /\ IF ok THEN ToState("INITIALIZED") ELSE UNCHANGED machine
  /\ UNCHANGED <<hdi, audio, stopCb, client, notice, count>>

\* HandleSetListener: a new callback first gets the result kept for it.
HandleSetListener(isSet) ==
  /\ cb' = isSet
  /\ IF isSet /\ historyEvent # 0
       THEN told' = Append(told, historyEvent) /\ historyEvent' = 0
       ELSE UNCHANGED <<told, historyEvent>>
  /\ UNCHANGED <<machine, hdi, audio, stopCb, client, count>>

\* HandleStart: the adapter, then the close callback, then the audio source; what
\* was started is stopped again when a later part fails.
HandleStart(proximal) ==
  /\ Handles("START_RECOGNIZE")
  /\ session < MaxSessions
  /\ readBufferPCM' = ~proximal
  /\ \/ /\ UNCHANGED <<machine, hdi, stopCb, source, reading, frames, asr, session>>
     \/ /\ stopCb' = TRUE
        /\ SetParamOnAudioStop /\ frames' = 0
        /\ UNCHANGED <<machine, hdi, source, reading, session>>
     \/ /\ stopCb' = TRUE
        /\ adapter' = "started" /\ resultDue' = session + 1 /\ UNCHANGED initDue
        /\ source' = TRUE /\ reading' = TRUE /\ frames' = 0
        /\ SetParamOnAudioStart
        /\ session' = session + 1
        /\ ToState("RECOGNIZING")
  /\ UNCHANGED <<client, notice, result>>

\* HandleStop and HandleRecognizingTimeout.
HandleStop ==
  /\ StopAudioSource
  /\ StopAdapter
  /\ ToState("INITIALIZED")
  /\ UNCHANGED <<stopCb, client, notice, count>>

HandleRecognizeComplete(ok, res) ==
  /\ Handles("RECOGNIZE_COMPLETE")
  /\ Notify(res) /\ result' = res
  /\ IF ok THEN ToState("RECOGNIZED") /\ UNCHANGED audio
           ELSE ToState("INITIALIZED") /\ StopAudioSource
  /\ StopAdapter
  /\ UNCHANGED <<stopCb, client, cb, session>>

\* HandleStartCapturer: permission, then the privacy record, which may be refused.
HandleStartCapturer(token) ==
  /\ Handles("START_CAPTURER")
  /\ callerTokenId' = token
  /\ \/ privacy' = privacy \cup {token} /\ ToState("READ_CAPTURER")
     \/ UNCHANGED <<privacy, machine>>
  /\ UNCHANGED <<hdi, audio, stopCb, notice, count>>

\* ReadBufferedData with PopLen: at most FrameCnt frames, or the few there are.
AddMultiFrame == IF frames > FrameCnt THEN frames - FrameCnt ELSE 0

\* HandleRead: a read that returns data gives the client another ten seconds.
HandleRead ==
  /\ Handles("READ")
  /\ \/ readBufferPCM /\ readBufferPCM' = FALSE /\ frames' = AddMultiFrame
     \/ ~readBufferPCM /\ frames > 0 /\ frames' = frames - 1 /\ UNCHANGED readBufferPCM
  /\ ResetTimerDelay
  /\ UNCHANGED <<source, reading, asr, hdi, stopCb, client, notice, count>>

\* A read over several channels fails when one of them does not exist or stays
\* empty; what the earlier ones gave is gone and the timer is not touched.
HandleReadFails ==
  /\ Handles("READ")
  /\ \/ readBufferPCM /\ readBufferPCM' = FALSE /\ frames' = AddMultiFrame
     \/ ~readBufferPCM /\ frames > 0 /\ frames' = frames - 1 /\ UNCHANGED readBufferPCM
  /\ UNCHANGED <<source, reading, asr, machine, hdi, stopCb, client, notice, count>>

\* HandleStopCapturer, for the client and for the two timeouts.
HandleStopCapturer ==
  /\ StopAudioSource
  /\ StopAdapter
  /\ historyEvent' = 0
  /\ StopPrivacy
  /\ ToState("INITIALIZED")
  /\ UNCHANGED <<stopCb, callerTokenId, cb, told, count>>

\* HandleRelease, for RELEASE and RELEASE_ADAPTER.
HandleRelease ==
  /\ Handles("RELEASE")
  /\ stopCb' = FALSE
  /\ StopAudioSource
  /\ StopPrivacy
  /\ adapter' = "none" /\ initDue' = FALSE /\ resultDue' = 0
  /\ ToState("IDLE")
  /\ UNCHANGED <<callerTokenId, notice, count>>

-----------------------------------------------------------------------------
(* The threads.                                                            *)

\* Calls of the client and detections of the trigger.
Call ==
  /\ \/ HandleInit \/ HandleResetAdapter \/ HandleRelease
     \/ \E isSet \in BOOLEAN : HandleSetListener(isSet)
     \/ \E proximal \in BOOLEAN : HandleStart(proximal)
     \/ Handles("STOP_RECOGNIZE") /\ HandleStop
     \/ \E token \in Tokens : HandleStartCapturer(token)
     \/ HandleRead \/ HandleReadFails
     \/ Handles("STOP_CAPTURER") /\ HandleStopCapturer
  /\ UNCHANGED <<firing, tasks>>

\* TimerMgr::Run takes the expired timer; the state machine still has its identifier.
TimerRun ==
  /\ firing = NoItem
  /\ \E t \in armed : firing' = t /\ armed' = armed \ {t}
  /\ UNCHANGED <<state, timerId, hdi, tasks, audio, stopCb, client, notice, count>>

\* ModuleStates::OnTimerEvent, later: whatever state the engine is in by now.
OnTimerEvent ==
  /\ firing # NoItem
  /\ firing' = NoItem
  /\ IF Handles(firing.type)
       THEN IF firing.type = "RECOGNIZING_TIMEOUT" THEN HandleStop ELSE HandleStopCapturer
       ELSE UNCHANGED <<machine, hdi, audio, stopCb, client, notice, count>>
  /\ UNCHANGED tasks

\* AddAsyncTask without waiting: a full queue drops the event.
Push(event) == tasks' = IF Len(tasks) < MaxTaskNum THEN Append(tasks, event) ELSE tasks

\* OnWakeupEvent, called by the HDI service.
OnWakeupEvent ==
  /\ \/ /\ initDue /\ initDue' = FALSE
        /\ \E ok \in BOOLEAN : Push([msg |-> "INIT_DONE", ok |-> ok, session |-> 0])
        /\ UNCHANGED resultDue
     \/ /\ resultDue # 0 /\ resultDue' = 0
        /\ \E ok \in BOOLEAN :
             Push([msg |-> "RECOGNIZE_COMPLETE", ok |-> ok, session |-> resultDue])
        /\ UNCHANGED initDue
  /\ UNCHANGED <<machine, firing, adapter, audio, stopCb, client, notice, count>>

\* The task thread: OnInitDone and OnWakeupRecognition.
RunTask ==
  /\ tasks # <<>>
  /\ tasks' = Tail(tasks)
  /\ LET e == Head(tasks)
     IN  IF ~Handles(e.msg)
           THEN UNCHANGED <<machine, hdi, audio, stopCb, client, notice, count>>
           ELSE \/ e.msg = "INIT_DONE" /\ HandleInitDone(e.ok)
                \/ e.msg = "RECOGNIZE_COMPLETE" /\ HandleRecognizeComplete(e.ok, e.session)
  /\ UNCHANGED firing

\* AudioSource::Run: one buffer into the queue (dropped when full), or the end of
\* the loop after a failed read of the capturer.
Capture ==
  /\ reading
  /\ \/ frames' = Buffered /\ UNCHANGED reading
     \/ reading' = FALSE /\ UNCHANGED frames
  /\ UNCHANGED <<machine, firing, hdi, tasks, source, readBufferPCM, asr>>
  /\ UNCHANGED <<stopCb, client, notice, count>>

Next == Call \/ TimerRun \/ OnTimerEvent \/ OnWakeupEvent \/ RunTask \/ Capture

\* Only a successful read can put a timer off, and it needs audio.
NoMoreAudio == ~reading /\ frames = 0 /\ ~readBufferPCM

\* The timer thread and the task thread run; nothing is asked of clients, of the
\* HDI service or of the audio source.
Fairness ==
  /\ WF_vars(TimerRun /\ (state # "READ_CAPTURER" \/ NoMoreAudio))
  /\ WF_vars(OnTimerEvent)
  /\ WF_vars(RunTask)

Spec == Init /\ [][Next]_vars /\ Fairness

-----------------------------------------------------------------------------
(* Properties.                                                             *)

InSession == state \in {"RECOGNIZING", "RECOGNIZED", "READ_CAPTURER"}

\* Every variable of the engine has its type.
TypeOK ==
  /\ state \in States /\ timerId \in [States -> Ids \cup {INVALID_ID}]
  /\ armed \subseteq Item /\ firing \in Item \cup {NoItem}
  /\ adapter \in {"none", "created", "attached", "started"}
  /\ initDue \in BOOLEAN /\ resultDue \in 0 .. MaxSessions
  /\ tasks \in Seq(Events)
  /\ source \in BOOLEAN /\ reading \in BOOLEAN /\ frames \in 0 .. MaxFrames
  /\ readBufferPCM \in BOOLEAN /\ stopCb \in BOOLEAN /\ asr \in {"bypass", "on", "left"}
  /\ callerTokenId \in Tokens \cup {NoToken} /\ privacy \subseteq Tokens
  /\ cb \in BOOLEAN /\ historyEvent \in 0 .. MaxSessions /\ told \in Seq(1 .. MaxSessions)
  /\ session \in 0 .. MaxSessions /\ result \in 0 .. MaxSessions

\* The microphone is recorded as in use exactly while a client reads, and for that
\* client: whichever of StopCapturer, timeout, release or a late event ends the session,
\* the stop of the use HandleStartCapturer recorded is recorded too, for the same token.
MicrophoneRecordMatchesReading ==
  privacy = IF state = "READ_CAPTURER" THEN {callerTokenId} ELSE {}

\* The audio source and its buffers live exactly as long as a session, however it comes
\* to end (stop, timeout, failed result, release), and no session that has turned the
\* echo mode on ends without SetParamOnAudioStop.
AudioLivesWithSession ==
  /\ source <=> InSession
  /\ reading \/ frames > 0 \/ asr = "on" => source

\* The adapter runs exactly while recognising, exists in every state but IDLE, and
\* the close callback is registered whenever audio could be closed under us.
AdapterMatchesState ==
  /\ adapter = "started" <=> state = "RECOGNIZING"
  /\ state # "IDLE" => adapter \in {"attached", "started"}
  /\ InSession => stopCb
  /\ stopCb => state \notin {"IDLE", "INITIALIZING"}

\* No session state is ever without its timeout: either its timer is armed, under
\* the identifier the state remembers, or it has just been taken by the timer
\* thread and is about to be handled.  No other timer is armed, so none is lost
\* by a kill with a stale identifier or survives the state it belongs to.
TimeoutPending ==
  IF state \in TimedStates
    THEN \/ armed = {[timerId |-> timerId[state], type |-> TimeoutOf[state]]}
         \/ armed = {} /\ firing.type = TimeoutOf[state]
    ELSE armed = {}

\* A recognised wake-up is not lost before its session ends: HandleRecognizeComplete
\* has told the client, or the listener keeps the result for the next callback.
RecognitionNotLost ==
  state \in {"RECOGNIZED", "READ_CAPTURER"} =>
    historyEvent = result \/ \E k \in DOMAIN told : told[k] = result

\* Clients get each result at most once and never an older one after a newer one,
\* although results are kept, replayed by SetCallback and delivered late.
ResultsToldInOrder ==
  \A j, k \in DOMAIN told : j < k => told[j] < told[k]

\* Recognition and the wait for a client come to an end by their timeouts, even if
\* neither the HDI service nor a client ever says anything again.
SessionEnds ==
  state \in {"RECOGNIZING", "RECOGNIZED"} ~> state \notin {"RECOGNIZING", "RECOGNIZED"}

\* Once no audio is left for a client that reads, its microphone record is closed: the
\* timeout comes, though the reads before put it off.
MicrophoneGivenBack ==
  (state = "READ_CAPTURER" /\ NoMoreAudio) ~> privacy = {}
=============================================================================
