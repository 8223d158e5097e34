-------------------------- MODULE UpdateController ---------------------------
(***************************************************************************)
(* Updating the wake-up model:                                             *)
(* update/controller/update_engine_controller.cpp, the three strategies,   *)
(* update/update_engine.cpp, the arbitration of the engine manager and the *)
(* tasks of the service manager that call them (all under                  *)
(* src/services/).                                                         *)
(*                                                                         *)
(* One thread, ServMgrThread, runs the tasks of the service manager in     *)
(* order.  A client's request has no effect before its task runs, so the   *)
(* queue below holds only the tasks the system gives itself; a request     *)
(* simply takes its turn between two of them.  Beside it run the thread    *)
(* that reports the HDI's commit, and the timer thread.                    *)
(***************************************************************************)
EXTENDS TimerIds, Sequences

CONSTANTS
  CloneInfos,   \* wakeupInfo of clone requests
  RetryTimes,   \* SILENCE_UPDATE_RETRY_TIMES and WHISPER_UPDATE_RETRY_TIMES
  MaxRequests   \* bound: number of requests from outside

\* A clone request without wakeupInfo is refused, and wakeupInfo is a JSON text.
ASSUME UpdateConstants ==
  /\ Types = {"UPDATE_RETRY"} /\ RetryTimes \in Nat /\ MaxRequests \in Nat
  /\ {"", "WhisperVprUpdate"} \cap CloneInfos = {}

VARIABLES
  tasks,            \* queue of ServMgrThread
  rest,             \* the call still to make in the task being run
  engine,           \* the update engine in engines_, or NoEngine; its param is the
                    \* param_ its report carries
  enroll,           \* an enroll engine is in engines_
  enrollResult,     \* result of the last enrolment
  isUpdating,       \* isUpdating_
  strategy,         \* updateStrategy_, with curPriority_ and retryTimesLimit_
  timerId,          \* timerId_
  retryTimes,       \* retryTimes_
  isForceReleased,  \* isForceReleased_
  open, armed, firing,  \* the controller's TimerMgr, see TimerSpec
  version,          \* saved wake-up version: "none", "old" or "current"
  whisperVpr,       \* KEY_WHISPER_VPR: "", "true" or "false"
  whisperConfig,    \* WHISPER_VPR_CONFIG_PATH exists
  requests,         \* number of requests so far
  misnamed,         \* an engine of the update under way bore another name than the
                    \* strategy then in charge
  accepted,         \* wakeupInfo of the accepted clone requests, in order
  committed,        \* the params the HDI has reported a successful commit for
  told              \* results clone clients have received, in order

engines == <<engine, enroll, enrollResult>>
control == <<isUpdating, strategy, timerId, retryTimes, isForceReleased>>
timer   == <<open, armed, firing>>
saved   == <<version, whisperVpr, whisperConfig>>
history == <<requests, misnamed, accepted, committed, told>>
vars    == <<tasks, rest, engines, control, timer, saved, history>>

NoEngine   == [param |-> "", result |-> "NONE"]
NoStrategy == [kind |-> "NONE", param |-> "", clone |-> 0]

Params == CloneInfos \cup {"", "WhisperVprUpdate"}

\* GetUpdatePriority and GetRetryTimes of the strategies.
Priority == [NONE |-> 0, CLONE |-> 2, SILENCE |-> 3, WHISPER |-> 4]
Limit    == [NONE |-> 0, CLONE |-> 0, SILENCE |-> RetryTimes, WHISPER |-> RetryTimes]

Clone(info) == [kind |-> "CLONE", param |-> info, clone |-> Len(accepted) + 1]
Silence     == [kind |-> "SILENCE", param |-> "", clone |-> 0]
Whisper     == [kind |-> "WHISPER", param |-> "WhisperVprUpdate", clone |-> 0]

Complete(result, param) == [msg |-> "COMPLETE", result |-> result, param |-> param]
Retry                   == [msg |-> "RETRY", result |-> "", param |-> ""]
WhisperTask             == [msg |-> "WHISPER", result |-> "", param |-> ""]

Init ==
  /\ tasks = <<>> /\ rest = "nothing"
  /\ engine = NoEngine /\ enroll = FALSE /\ enrollResult = FALSE
  /\ isUpdating = FALSE /\ strategy = NoStrategy /\ timerId = INVALID_ID
  /\ retryTimes = 0 /\ isForceReleased = FALSE
  /\ open = FALSE /\ armed = {} /\ firing = NoItem
  /\ version \in {"none", "old"} /\ whisperVpr \in {"", "false"}
  /\ whisperConfig \in BOOLEAN
  /\ requests = 0 /\ misnamed = FALSE /\ accepted = <<>> /\ committed = {} /\ told = <<>>

-----------------------------------------------------------------------------
(* What the procedures of the controller have in common.                   *)

\* UpdateRestrain: a clone needs an empty version, a silent update an old one
\* and a backup of the enrolment, which only the HDI knows about.
MayUpdate(kind) ==
  CASE kind = "CLONE"   -> version = "none"
    [] kind = "SILENCE" -> version = "old"
    [] OTHER            -> TRUE

MayBeRestrained(kind) ==
  CASE kind = "CLONE"   -> version # "none"
    [] kind = "SILENCE" -> TRUE
    [] OTHER            -> FALSE

\* Mutant: Detach reports what it has, whatever that is.
Mut_Detached == <<Complete(engine.result, engine.param)>>

\* UpdateEngine::Detach: an engine without a commit still reports, once.
Detached ==
  IF engine.result = "DEFAULT" THEN <<Complete("DEFAULT", engine.param)>> ELSE <<>>

\* TimerMgr::Stop joins the timer thread, which first ends the callback it is in.
JoinedRetry == IF firing # NoItem THEN <<Retry>> ELSE <<>>

\* Mutant: the timer survives.
Mut_StopTimer == UNCHANGED timer

StopTimer == open' = FALSE /\ armed' = {} /\ firing' = NoItem

ClearRetryState ==
  /\ retryTimes' = 0 /\ timerId' = INVALID_ID /\ strategy' = NoStrategy
  /\ isUpdating' = FALSE /\ misnamed' = FALSE

\* SaveWakeupVesion saves nothing when the version file cannot be read.
SaveVersion(result) ==
  version' \in IF result = "SUCCESS" THEN {version, "current"} ELSE {version}

\* Mutant: an enroll engine does not keep the update engine away.
Mut_CreateUpdateEngine(old, queue, param) ==
  \/ old # NoEngine /\ engine' = old /\ tasks' = queue /\ UNCHANGED version
  \/ /\ old = NoEngine
     /\ engine' = [param |-> param, result |-> "DEFAULT"]
     /\ tasks' = queue /\ UNCHANGED version

\* CreateUpdateEngine: refused beside an enroll engine; an update engine that
\* exists is taken as it is, whatever it was made for.  UpdateEngine::Init sets
\* param_ only after Attach, so a commit that comes at once is reported without it.
CreateUpdateEngine(old, queue, param) ==
  /\ ~enroll
  /\ \/ old # NoEngine /\ engine' = old /\ tasks' = queue /\ UNCHANGED version
     \/ /\ old = NoEngine
        /\ engine' = [param |-> param, result |-> "DEFAULT"]
        /\ tasks' = queue /\ UNCHANGED version
     \/ /\ old = NoEngine
        /\ \E result \in {"SUCCESS", "FAIL"} :
             /\ engine' = [param |-> "", result |-> result]
             /\ tasks' = Append(queue, Complete(result, ""))
             /\ SaveVersion(result)

\* A new engine cannot be created or attached.
CreationFails(old) == enroll \/ old = NoEngine

\* Mutant: a finished clone is told twice when it is the last one.
Mut_Tell(s, result) ==
  told' = IF s.kind = "CLONE"
            THEN told \o <<[clone |-> s.clone, result |-> result],
                           [clone |-> s.clone, result |-> result]>>
            ELSE told

\* OnUpdateCompleteCallback as far as it reaches a client.
Tell(s, result) ==
  told' = IF s.kind = "CLONE"
            THEN Append(told, [clone |-> s.clone, result |-> result]) ELSE told

-----------------------------------------------------------------------------
(* CreateUpdateEngineUntilTime.                                            *)

Refused(s) ==
  /\ \/ MayBeRestrained(s.kind)
     \/ MayUpdate(s.kind) /\ isUpdating /\ Priority[strategy.kind] > Priority[s.kind]
  /\ UNCHANGED <<tasks, engine, control, timer, version, misnamed, accepted, committed, told>>

\* Mutant: the flag of the last ForceRelease stays.
Mut_Accept(s) ==
  /\ isUpdating' = TRUE /\ strategy' = s /\ UNCHANGED isForceReleased
  /\ accepted' = IF s.kind = "CLONE" THEN Append(accepted, s.param) ELSE accepted

Accept(s) ==
  /\ isUpdating' = TRUE /\ strategy' = s /\ isForceReleased' = FALSE
  /\ accepted' = IF s.kind = "CLONE" THEN Append(accepted, s.param) ELSE accepted

\* No update is running, or one of the same priority goes on under the new strategy.
Started(s) ==
  /\ MayUpdate(s.kind)
  /\ ~isUpdating \/ Priority[strategy.kind] = Priority[s.kind]
  /\ CreateUpdateEngine(engine, tasks, s.param)
  /\ Accept(s)
  /\ open' = (open \/ retryTimes < Limit[s.kind])
  /\ misnamed' = (misnamed \/ engine'.param # s.param)
  /\ UNCHANGED <<timerId, retryTimes, armed, firing, committed, told>>

StartFails(s) ==
  /\ MayUpdate(s.kind)
  /\ ~isUpdating \/ Priority[strategy.kind] = Priority[s.kind]
  /\ CreationFails(engine)
  /\ UNCHANGED <<tasks, engine, control, timer, version, misnamed, accepted, committed, told>>

\* A running update of lower priority is ended first.
Preempts(s) ==
  MayUpdate(s.kind) /\ isUpdating /\ Priority[strategy.kind] < Priority[s.kind]

StartedInstead(s) ==
  /\ Preempts(s)
  /\ Tell(strategy, "CONCURRENT")
  /\ CreateUpdateEngine(NoEngine, tasks \o Detached \o JoinedRetry, s.param)
  /\ Accept(s)
  /\ misnamed' = (engine'.param # s.param)
  /\ retryTimes' = 0 /\ timerId' = INVALID_ID
  /\ open' = (0 < Limit[s.kind]) /\ armed' = {} /\ firing' = NoItem
  /\ UNCHANGED committed

StartInsteadFails(s) ==
  /\ Preempts(s)
  /\ Tell(strategy, "CONCURRENT")
  /\ CreationFails(NoEngine)
  /\ engine' = NoEngine /\ tasks' = tasks \o Detached \o JoinedRetry
  /\ ClearRetryState /\ StopTimer
  /\ UNCHANGED <<isForceReleased, version, accepted, committed>>

Succeeds(s) == Started(s) \/ StartedInstead(s)
Fails(s)    == Refused(s) \/ StartFails(s) \/ StartInsteadFails(s)

-----------------------------------------------------------------------------
(* Requests from outside, each a task of its own.                          *)

Request == rest = "nothing" /\ requests < MaxRequests /\ requests' = requests + 1

\* HandleSilenceUpdate: the whisper update if there is nothing to do silently.
HandleSilenceUpdate ==
  /\ Request
  /\ \/ Succeeds(Silence) /\ UNCHANGED rest
     \/ /\ Fails(Silence)
        /\ rest' = IF whisperConfig /\ whisperVpr = "false" THEN "whisper" ELSE "nothing"
  /\ UNCHANGED <<enroll, enrollResult, whisperVpr, whisperConfig>>

HandleCloneUpdate(info) ==
  /\ Request
  /\ Succeeds(Clone(info)) \/ Fails(Clone(info))
  /\ UNCHANGED <<rest, enroll, enrollResult, whisperVpr, whisperConfig>>

ForceRelease ==
  IF ~isUpdating THEN UNCHANGED <<engine, tasks, control, timer, misnamed>>
  ELSE /\ ClearRetryState /\ StopTimer
       /\ engine' = NoEngine /\ tasks' = tasks \o Detached \o JoinedRetry
       /\ isForceReleased' = TRUE

\* ClearUserData: ForceRelease, then the saved keys go.
ClearUserData ==
  /\ Request /\ ForceRelease
  /\ version' = "none" /\ whisperVpr' = ""
  /\ UNCHANGED <<rest, enroll, enrollResult, whisperConfig, accepted, committed, told>>

\* CreateEngine(ENROLL): HandleReplace detaches the update engine, and the
\* controller hears of it only through the report of Detach.
CreateEnrollEngine ==
  /\ Request
  /\ engine' = NoEngine /\ tasks' = tasks \o Detached
  /\ \/ enroll /\ UNCHANGED <<enroll, enrollResult>>
     \/ ~enroll /\ enroll' \in BOOLEAN /\ enrollResult' = FALSE
  /\ UNCHANGED <<rest, control, timer, saved, misnamed, accepted, committed, told>>

\* ReleaseEngine(ENROLL), whether or not there is one; Detach saves the version of
\* a successful enrolment.
ReleaseEnrollEngine ==
  /\ Request
  /\ enroll' = FALSE
  /\ SaveVersion(IF enroll /\ enrollResult THEN "SUCCESS" ELSE "FAIL")
  /\ tasks' = IF enrollResult /\ whisperConfig THEN Append(tasks, WhisperTask) ELSE tasks
  /\ UNCHANGED <<rest, engine, enrollResult, control, timer, whisperVpr, whisperConfig>>
  /\ UNCHANGED <<misnamed, accepted, committed, told>>

-----------------------------------------------------------------------------
(* The tasks the system gives itself.                                      *)

\* UpdateCompleteProc after ForceRelease: a late report only drops the version.
CompleteAfterRelease(t) ==
  /\ isForceReleased
  /\ version' = "none"
  /\ tasks' = Tail(tasks)
  /\ UNCHANGED <<rest, engine, control, timer, whisperVpr, misnamed, told>>

\* Mutant: the report of any engine counts.
Mut_Concerns(t) == strategy # NoStrategy

Concerns(t) == strategy # NoStrategy /\ t.param = strategy.param

CompleteOfAnother(t) ==
  /\ ~isForceReleased /\ ~Concerns(t)
  /\ tasks' = Tail(tasks)
  /\ UNCHANGED <<rest, engine, control, timer, version, whisperVpr, misnamed, told>>

\* StopUpdateTimer
Killed == IF timerId = INVALID_ID THEN armed ELSE KillTimer(armed, timerId)

\* Mutant: one retry more than the limit.
Mut_RetriesLeft == retryTimes <= Limit[strategy.kind]

RetriesLeft == retryTimes < Limit[strategy.kind]

\* Mutant: the retry is planned without a timer.
Mut_CompleteRetry(t) ==
  /\ ~isForceReleased /\ Concerns(t)
  /\ t.result # "SUCCESS" /\ RetriesLeft /\ MayUpdate(strategy.kind)
  /\ open /\ AllocId(Killed) # INVALID_ID
  /\ timerId' = AllocId(Killed) /\ armed' = Killed
  /\ retryTimes' = retryTimes + 1
  /\ engine' = NoEngine /\ tasks' = Tail(tasks) \o Detached
  /\ UNCHANGED <<rest, isUpdating, strategy, isForceReleased, open, firing>>
  /\ UNCHANGED <<version, whisperVpr, misnamed, told>>

\* The update failed and may be tried again: StartUpdateTimer, 30 seconds.
CompleteRetry(t) ==
  /\ ~isForceReleased /\ Concerns(t)
  /\ t.result # "SUCCESS" /\ RetriesLeft /\ MayUpdate(strategy.kind)
  /\ open /\ AllocId(Killed) # INVALID_ID
  /\ timerId' = AllocId(Killed) /\ armed' = SetTimer(Killed, "UPDATE_RETRY")
  /\ retryTimes' = retryTimes + 1
  /\ engine' = NoEngine /\ tasks' = Tail(tasks) \o Detached
  /\ UNCHANGED <<rest, isUpdating, strategy, isForceReleased, open, firing>>
  /\ UNCHANGED <<version, whisperVpr, misnamed, told>>

\* The update is over: tell the client, forget the strategy, and in the same task
\* enrol the whisper model anew if the device has one.
CompleteLast(t) ==
  /\ ~isForceReleased /\ Concerns(t)
  /\ \/ t.result = "SUCCESS" \/ ~RetriesLeft \/ MayBeRestrained(strategy.kind)
     \/ ~open \/ AllocId(Killed) = INVALID_ID
  /\ Tell(strategy, IF t.result = "SUCCESS" THEN "SUCCESS" ELSE "FAIL")
  /\ whisperVpr' = IF strategy.kind # "WHISPER" THEN whisperVpr
                   ELSE IF t.result = "SUCCESS" THEN "true" ELSE "false"
  /\ ClearRetryState /\ StopTimer
  /\ engine' = NoEngine /\ tasks' = Tail(tasks) \o JoinedRetry \o Detached
  /\ rest' = IF ~enroll /\ whisperConfig /\ t.param # Whisper.param
               THEN "whisper" ELSE "nothing"
  /\ UNCHANGED <<isForceReleased, version>>

HandleUpdateComplete ==
  /\ tasks # <<>> /\ Head(tasks).msg = "COMPLETE"
  /\ LET t == Head(tasks)
     IN  \/ CompleteAfterRelease(t) \/ CompleteOfAnother(t)
         \/ CompleteRetry(t) \/ CompleteLast(t)
  /\ UNCHANGED <<enroll, enrollResult, whisperConfig, requests, accepted, committed>>

\* UpdateRetryProc
RetryAfterRelease ==
  /\ isForceReleased
  /\ tasks' = Tail(tasks)
  /\ UNCHANGED <<engine, control, timer, version, misnamed>>

RetryStarts ==
  /\ ~isForceReleased /\ strategy # NoStrategy /\ MayUpdate(strategy.kind)
  /\ CreateUpdateEngine(engine, Tail(tasks), strategy.param)
  /\ misnamed' = (misnamed \/ engine'.param # strategy.param)
  /\ timerId' = INVALID_ID
  /\ UNCHANGED <<isUpdating, strategy, retryTimes, isForceReleased, timer>>

\* Nothing left to update, or no engine to be had: the update ends untold.
RetryEnds ==
  /\ ~isForceReleased
  /\ \/ strategy = NoStrategy \/ MayBeRestrained(strategy.kind)
     \/ CreationFails(engine)
  /\ ClearRetryState /\ StopTimer
  /\ engine' = NoEngine /\ tasks' = Tail(tasks) \o Detached \o JoinedRetry
  /\ UNCHANGED <<isForceReleased, version>>

HandleUpdateRetry ==
  /\ tasks # <<>> /\ Head(tasks).msg = "RETRY"
  /\ RetryAfterRelease \/ RetryStarts \/ RetryEnds
  /\ UNCHANGED <<rest, enroll, enrollResult, whisperVpr, whisperConfig>>
  /\ UNCHANGED <<requests, accepted, committed, told>>

\* HandleWhisperVprUpdate after an enrolment.
HandleWhisperVprUpdate ==
  /\ tasks # <<>> /\ Head(tasks) = WhisperTask
  /\ tasks' = Tail(tasks) /\ rest' = "whisper"
  /\ UNCHANGED <<engines, control, timer, saved, history>>

\* WhisperVprUpdate, the last call of three of the tasks.
WhisperVprUpdate ==
  /\ rest = "whisper" /\ rest' = "nothing"
  /\ Succeeds(Whisper) \/ Fails(Whisper)
  /\ UNCHANGED <<enroll, enrollResult, whisperVpr, whisperConfig, requests>>

RunTask ==
  \/ WhisperVprUpdate
  \/ rest = "nothing" /\ (HandleUpdateComplete \/ HandleUpdateRetry \/ HandleWhisperVprUpdate)

-----------------------------------------------------------------------------
(* The other threads.                                                      *)

\* Mutant: a commit on its way while the engine is detached still saves the version.
Mut_OnCommitEnrollComplete(result) ==
  /\ engine.result \in {"DEFAULT", "NONE"}
  /\ engine' = IF engine = NoEngine THEN engine ELSE [engine EXCEPT !.result = result]
  /\ SaveVersion(result)
  /\ committed' = IF result = "SUCCESS" THEN committed \cup {engine.param} ELSE committed
  /\ tasks' = IF engine = NoEngine THEN tasks ELSE Append(tasks, Complete(result, engine.param))
  /\ UNCHANGED <<rest, enroll, enrollResult, control, timer, whisperVpr, whisperConfig>>
  /\ UNCHANGED <<requests, misnamed, accepted, told>>

\* OnUpdateEvent and OnCommitEnrollComplete, on a thread of their own; nothing is saved
\* or reported once Detach has taken the adapter away.
OnCommitEnrollComplete(result) ==
  /\ engine.result = "DEFAULT"
  /\ engine' = [engine EXCEPT !.result = result]
  /\ SaveVersion(result)
  /\ committed' = IF result = "SUCCESS" THEN committed \cup {engine.param} ELSE committed
  /\ tasks' = Append(tasks, Complete(result, engine.param))
  /\ UNCHANGED <<rest, enroll, enrollResult, control, timer, whisperVpr, whisperConfig>>
  /\ UNCHANGED <<requests, misnamed, accepted, told>>

Commit == \E result \in {"SUCCESS", "FAIL"} : OnCommitEnrollComplete(result)

\* EnrollEngine::OnEnrollEvent: the enroll engine commits, too.
EnrollCommit ==
  /\ enroll
  /\ enrollResult' \in BOOLEAN
  /\ UNCHANGED <<tasks, rest, engine, enroll, control, timer, saved, history>>

TimerRun ==
  /\ firing = NoItem
  /\ \E t \in armed : firing' = t /\ armed' = armed \ {t}
  /\ UNCHANGED <<tasks, rest, engines, control, open, saved, history>>

OnTimerEvent ==
  /\ firing # NoItem /\ firing' = NoItem
  /\ tasks' = Append(tasks, Retry)
  /\ UNCHANGED <<rest, engines, control, open, armed, saved, history>>

Next ==
  \/ HandleSilenceUpdate \/ ClearUserData \/ CreateEnrollEngine \/ ReleaseEnrollEngine
  \/ \E info \in CloneInfos : HandleCloneUpdate(info)
  \/ RunTask \/ Commit \/ EnrollCommit \/ TimerRun \/ OnTimerEvent

\* ServMgrThread and the timer thread run, and the HDI answers an attached update
\* engine; nothing is asked of the clients.
Fairness == WF_vars(RunTask) /\ WF_vars(Commit) /\ WF_vars(TimerRun) /\ WF_vars(OnTimerEvent)

Spec == Init /\ [][Next]_vars /\ Fairness

-----------------------------------------------------------------------------
(* Properties.                                                             *)

Kinds   == {"CLONE", "SILENCE", "WHISPER"}
Results == {"DEFAULT", "SUCCESS", "FAIL"}

\* Every variable of the update machinery has its type.
TypeOK ==
  /\ tasks \in Seq([msg : {"COMPLETE", "RETRY", "WHISPER"},
                    result : Results \cup {""}, param : Params])
  /\ rest \in {"nothing", "whisper"}
  /\ engine \in [param : Params, result : Results] \cup {NoEngine}
  /\ enroll \in BOOLEAN /\ enrollResult \in BOOLEAN /\ isUpdating \in BOOLEAN
  /\ strategy \in [kind : Kinds, param : Params, clone : Nat] \cup {NoStrategy}
  /\ timerId \in Ids \cup {INVALID_ID} /\ retryTimes \in Nat
  /\ isForceReleased \in BOOLEAN
  /\ open \in BOOLEAN /\ armed \subseteq Item /\ firing \in Item \cup {NoItem}
  /\ version \in {"none", "old", "current"} /\ whisperVpr \in {"", "true", "false"}
  /\ whisperConfig \in BOOLEAN /\ requests \in 0 .. MaxRequests 
  /\ misnamed \in BOOLEAN /\ accepted \in Seq(CloneInfos) /\ committed \subseteq Params
  /\ told \in Seq([clone : Nat, result : {"SUCCESS", "FAIL", "CONCURRENT"}])

\* Enrolling and updating write the same model: the arbitration of the engine
\* manager never lets both engines exist, whether a request, a retry or the whisper
\* update after a completion asks for the update engine.
OneHeavyEngine == ~(enroll /\ engine # NoEngine)

\* When no update is under way nothing of one is left behind: no engine, no
\* strategy, no timer that would start it again.
QuietWhenIdle ==
  ~isUpdating =>
    /\ engine = NoEngine /\ strategy = NoStrategy /\ retryTimes = 0
    /\ armed = {} /\ firing = NoItem

\* After ClearUserData has force-released an update, no late report, late retry or
\* whisper update of it starts another, until a new request is accepted.
ForceReleaseIsFinal == isForceReleased => ~isUpdating /\ engine = NoEngine

\* After ClearUserData has force-released an update, neither its commit nor a report or
\* retry of it saves a version again for the model that is gone: until the next request
\* is accepted only an enrolment does, when its engine is released.
ClearedVersionStaysAway ==
  [][isForceReleased /\ isForceReleased' =>
       version' \in {version, "none"} \/ (enroll /\ ~enroll')]_vars

\* A failing update is retried at most as often as its strategy allows.
RetriesBounded == retryTimes <= Limit[strategy.kind]

\* An update under way never waits for nothing.  Unless an engine was misnamed,
\* something is still to come that moves the update on: the commit of its engine,
\* the report of that commit, a retry timer or the task of a retry.
UpdateNotForgotten ==
  isUpdating /\ ~misnamed =>
    \/ engine.result = "DEFAULT"
    \/ armed # {} \/ firing # NoItem
    \/ \E k \in DOMAIN tasks :
         \/ tasks[k].msg = "RETRY"
         \/ tasks[k].msg = "COMPLETE" /\ Concerns(tasks[k])

\* A clone client is told how its request ended at most once, whether the update
\* completes, is replaced by a more important one or is retried.
ToldOnce ==
  \A j, k \in DOMAIN told : told[j].clone = told[k].clone => j = k

\* A clone client is told of success only if the HDI committed a model for its
\* wakeupInfo: no report of a silent or whisper update, or of another clone, is
\* taken for its own.
SuccessIsReal ==
  \A k \in DOMAIN told :
    told[k].result = "SUCCESS" => accepted[told[k].clone] \in committed

\* An update comes to an end: its retries are used up, or it succeeds, or it gives
\* way (unless an engine was misnamed).
UpdateEnds == isUpdating ~> (~isUpdating \/ misnamed)

\* A clone request that was accepted gets an answer.
CloneAnswered ==
  \A n \in 1 .. MaxRequests : Len(accepted) >= n ~> \E k \in DOMAIN told : told[k].clone = n
=============================================================================
