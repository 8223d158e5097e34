------------------------- MODULE WakeupEngineProofs --------------------------
(***************************************************************************)
(* The resources of the wake-up engine follow its state, for every number  *)
(* of clients, sessions, queued events, buffers and timer identifiers.     *)
(***************************************************************************)
EXTENDS WakeupEngineImpl, TLAPS

\* Taking and giving back identifiers: an empty queue has a free identifier.
LEMMA AllocFromEmpty == AllocId({}) \in Ids /\ AllocId({}) # INVALID_ID
<1>1. FreeIds({}) = Ids
  BY DEF FreeIds
<1>2. 0 \in Ids /\ \A j \in Ids : 0 <= j
  BY TimerConstants DEF Ids
<1>3. AllocId({}) \in Ids
  BY <1>1, <1>2 DEF AllocId
<1>4. INVALID_ID \notin Ids
  BY TimerConstants DEF Ids
<1> QED
  BY <1>3, <1>4

\* Arming a timer when none is armed leaves exactly that one.
LEMMA SetFromEmpty ==
  ASSUME NEW type
  PROVE  SetTimer({}, type) = {[timerId |-> AllocId({}), type |-> type]}
BY AllocFromEmpty DEF SetTimer

\* The time limits have the types the timers are declared with.
LEMMA TimeoutTypes ==
  /\ TimedStates = {"RECOGNIZING", "RECOGNIZED", "READ_CAPTURER"}
  /\ \A s \in TimedStates : TimeoutOf[s] \in Types
  /\ TimeoutOf["RECOGNIZING"] = "RECOGNIZING_TIMEOUT"
  /\ TimeoutOf["RECOGNIZED"] = "RECOGNIZE_COMPLETE_TIMEOUT"
  /\ TimeoutOf["READ_CAPTURER"] = "READ_CAPTURER_TIMEOUT"
BY EngineConstants DEF TimedStates, TimeoutOf

MachineOK ==
  /\ state \in States
  /\ timerId \in [States -> Ids \cup {INVALID_ID}]
  /\ armed \subseteq Item
  /\ TimeoutPending

\* Entering a state kills what was armed and arms the new state's timer, if any.
LEMMA ToStateArms ==
  ASSUME MachineOK, NEW next \in States, ToState(next)
  PROVE  /\ state' = next
         /\ timerId' \in [States -> Ids \cup {INVALID_ID}]
         /\ armed' \subseteq Item
         /\ TimeoutPending'
<1> DEFINE left == KillTimer(armed, timerId[state])
<1>1. left = {}
  BY DEF MachineOK, TimeoutPending, KillTimer
<1>2. state' = next
  BY DEF ToState
<1>3. CASE next \in TimedStates
  <2>1. armed' = {[timerId |-> AllocId({}), type |-> TimeoutOf[next]]}
    BY <1>1, <1>3, SetFromEmpty DEF ToState
  <2>2. timerId' = [timerId EXCEPT ![state] = INVALID_ID, ![next] = AllocId({})]
    BY <1>1, <1>3 DEF ToState
  <2>3. timerId' \in [States -> Ids \cup {INVALID_ID}] /\ timerId'[next] = AllocId({})
    BY <2>2, AllocFromEmpty DEF MachineOK
  <2>4. armed' \subseteq Item
    BY <2>1, <1>3, AllocFromEmpty, TimeoutTypes DEF Item
  <2> QED
    BY <1>2, <1>3, <2>1, <2>3, <2>4 DEF TimeoutPending, TimedStates, TimeoutOf
<1>4. CASE next \notin TimedStates
  <2>1. armed' = {} /\ timerId' = [timerId EXCEPT ![state] = INVALID_ID]
    BY <1>1, <1>4 DEF ToState
  <2> QED
    BY <1>2, <1>4, <2>1 DEF MachineOK, TimeoutPending, TimedStates, TimeoutOf
<1> QED
  BY <1>3, <1>4

-----------------------------------------------------------------------------
(* The handlers.  Core is what they establish whatever thread calls them;  *)
(* the timer part of the invariant also depends on the timer being fired.  *)

AudioTypes ==
  /\ source \in BOOLEAN /\ reading \in BOOLEAN /\ frames \in 0 .. MaxFrames
  /\ readBufferPCM \in BOOLEAN /\ asr \in {"bypass", "on", "left"}

EngineTypes ==
  /\ state \in States /\ timerId \in [States -> Ids \cup {INVALID_ID}]
  /\ armed \subseteq Item
  /\ adapter \in {"none", "created", "attached", "started"}
  /\ initDue \in BOOLEAN /\ resultDue \in 0 .. MaxSessions
  /\ AudioTypes /\ stopCb \in BOOLEAN
  /\ callerTokenId \in Tokens \cup {NoToken} /\ privacy \subseteq Tokens
  /\ cb \in BOOLEAN /\ historyEvent \in 0 .. MaxSessions /\ told \in Seq(1 .. MaxSessions)
  /\ session \in 0 .. MaxSessions /\ result \in 0 .. MaxSessions

Core ==
  /\ EngineTypes
  /\ MicrophoneRecordMatchesReading
  /\ AudioLivesWithSession
  /\ AdapterMatchesState
  /\ RecognitionNotLost

\* A handler leaves the machine alone or takes it to a state with its timer armed.
MachineStep == UNCHANGED machine \/ (TimeoutPending' /\ armed' \subseteq Item)

Inv == TypeOK /\ Core /\ TimeoutPending

\* HandleInit and HandleResetAdapter, succeeding or failing at any of their parts.
LEMMA StepInit ==
  ASSUME Inv, HandleInit \/ HandleResetAdapter
  PROVE  Core' /\ MachineStep
<1> USE DEF Inv, Core
<1>1. CASE UNCHANGED machine
  <2> USE <1>1 DEF machine, audio, client, notice, count
  <2>1. state = "IDLE"
    BY DEF HandleInit, HandleResetAdapter, Handles, ActsIn
  <2>2. EngineTypes'
    BY DEF HandleInit, HandleResetAdapter, EngineTypes, AudioTypes
  <2>3. MicrophoneRecordMatchesReading' /\ AudioLivesWithSession' /\ RecognitionNotLost'
    BY DEF HandleInit, HandleResetAdapter, MicrophoneRecordMatchesReading,
      AudioLivesWithSession, InSession, RecognitionNotLost
  <2>4. AdapterMatchesState'
    BY <2>1 DEF HandleInit, HandleResetAdapter, AdapterMatchesState, InSession
  <2> QED
    BY <2>2, <2>3, <2>4 DEF MachineStep
<1>2. CASE ToState("INITIALIZING")
  <2> USE DEF machine, audio, client, notice, count
  <2>1. state = "IDLE"
    BY DEF HandleInit, HandleResetAdapter, Handles, ActsIn
  <2>2. /\ state' = "INITIALIZING" /\ timerId' \in [States -> Ids \cup {INVALID_ID}]
        /\ armed' \subseteq Item /\ TimeoutPending'
    BY <1>2, ToStateArms DEF MachineOK, EngineTypes, States
  <2>3. adapter' = "attached" /\ initDue' = TRUE
    BY <2>1, <2>2 DEF HandleInit, HandleResetAdapter
  <2>4. EngineTypes'
    BY <2>2, <2>3 DEF HandleInit, HandleResetAdapter, EngineTypes, AudioTypes, States
  <2>5. MicrophoneRecordMatchesReading' /\ AudioLivesWithSession' /\ RecognitionNotLost'
    BY <2>1, <2>2 DEF HandleInit, HandleResetAdapter, MicrophoneRecordMatchesReading,
      AudioLivesWithSession, InSession, RecognitionNotLost
  <2>6. AdapterMatchesState'
    BY <2>1, <2>2, <2>3 DEF HandleInit, HandleResetAdapter, AdapterMatchesState, InSession
  <2> QED
    BY <2>2, <2>4, <2>5, <2>6 DEF MachineStep
<1> QED
  BY <1>1, <1>2 DEF HandleInit, HandleResetAdapter

\* HandleInitDone, for a good and for a failed answer of the adapter.
LEMMA StepInitDone ==
  ASSUME Inv, NEW ok \in BOOLEAN, HandleInitDone(ok)
  PROVE  Core' /\ MachineStep
<1> USE DEF Inv, Core, machine, hdi, audio, client, notice, count
<1>1. state = "INITIALIZING"
  BY DEF HandleInitDone, Handles, ActsIn
<1>2. CASE ok
  <2>1. /\ state' = "INITIALIZED" /\ timerId' \in [States -> Ids \cup {INVALID_ID}]
        /\ armed' \subseteq Item /\ TimeoutPending'
    BY <1>2, ToStateArms DEF HandleInitDone, MachineOK, EngineTypes, States
  <2>2. EngineTypes'
    BY <2>1 DEF HandleInitDone, EngineTypes, AudioTypes, States
  <2>3. MicrophoneRecordMatchesReading' /\ AudioLivesWithSession' /\ RecognitionNotLost'
    BY <1>1, <2>1 DEF HandleInitDone, MicrophoneRecordMatchesReading,
      AudioLivesWithSession, InSession, RecognitionNotLost
  <2>4. AdapterMatchesState'
    BY <1>1, <2>1 DEF HandleInitDone, AdapterMatchesState, InSession
  <2> QED
    BY <2>1, <2>2, <2>3, <2>4 DEF MachineStep
<1>3. CASE ~ok
  BY <1>3 DEF HandleInitDone, EngineTypes, AudioTypes, MicrophoneRecordMatchesReading,
    AudioLivesWithSession, AdapterMatchesState, InSession, RecognitionNotLost, MachineStep
<1> QED
  BY <1>2, <1>3

\* HandleSetListener moves at most the kept result to the client.
LEMMA StepSetListener ==
  ASSUME Inv, NEW isSet \in BOOLEAN, HandleSetListener(isSet)
  PROVE  Core' /\ MachineStep
<1> USE DEF Inv, Core, machine, hdi, audio, client, notice, count
<1>1. EngineTypes'
  <2>1. told' \in Seq(1 .. MaxSessions) /\ historyEvent' \in 0 .. MaxSessions
    <3>1. CASE isSet /\ historyEvent # 0
      <4>1. historyEvent \in 1 .. MaxSessions
        BY <3>1, EngineConstants DEF EngineTypes
      <4>2. told' = Append(told, historyEvent) /\ historyEvent' = 0
        BY <3>1 DEF HandleSetListener
      <4>3. told \in Seq(1 .. MaxSessions)
        BY DEF EngineTypes
      <4>4. told' \in Seq(1 .. MaxSessions)
        BY <4>1, <4>2, <4>3
      <4> QED
        BY <4>2, <4>4, EngineConstants
    <3>2. CASE ~(isSet /\ historyEvent # 0)
      BY <3>2 DEF HandleSetListener, EngineTypes
    <3> QED
      BY <3>1, <3>2
  <2> QED
    BY <2>1 DEF HandleSetListener, EngineTypes, AudioTypes
<1>2. MicrophoneRecordMatchesReading' /\ AudioLivesWithSession' /\ AdapterMatchesState'
  BY DEF HandleSetListener, MicrophoneRecordMatchesReading, AudioLivesWithSession,
    AdapterMatchesState, InSession
<1>3. RecognitionNotLost'
  <2>1. CASE isSet /\ historyEvent # 0
    <3>1. told' = Append(told, historyEvent) /\ UNCHANGED <<state, result>>
      BY <2>1 DEF HandleSetListener
    <3>2. /\ told'[Len(told) + 1] = historyEvent /\ Len(told) + 1 \in DOMAIN told'
          /\ \A k \in DOMAIN told : k \in DOMAIN told' /\ told'[k] = told[k]
      BY <3>1 DEF EngineTypes
    <3> QED
      BY <3>1, <3>2 DEF RecognitionNotLost
  <2>2. CASE ~(isSet /\ historyEvent # 0)
    BY <2>2 DEF HandleSetListener, RecognitionNotLost
  <2> QED
    BY <2>1, <2>2
<1> QED
  BY <1>1, <1>2, <1>3 DEF HandleSetListener, MachineStep

\* HandleStart, failing before or after the audio source or succeeding.
LEMMA StepStart ==
  ASSUME Inv, NEW proximal \in BOOLEAN, HandleStart(proximal)
  PROVE  Core' /\ MachineStep
<1> USE DEF Inv, Core, machine, hdi, audio, client, notice, count
<1>1. state = "INITIALIZED" /\ session + 1 \in 1 .. MaxSessions
  BY EngineConstants DEF HandleStart, Handles, ActsIn, EngineTypes
<1>2. ~source /\ ~reading /\ adapter = "attached"
  BY <1>1 DEF AudioLivesWithSession, AdapterMatchesState, InSession, EngineTypes, AudioTypes
<1>3. CASE UNCHANGED machine /\ UNCHANGED hdi
  <2>1. EngineTypes'
    <3>1. readBufferPCM' \in BOOLEAN
      BY DEF HandleStart
    <3>2. stopCb' \in BOOLEAN
      BY <1>2, <1>3 DEF HandleStart, EngineTypes, AudioTypes
    <3>4. frames' \in 0 .. MaxFrames
      BY <1>2, <1>3, EngineConstants DEF HandleStart, EngineTypes, AudioTypes
    <3>5. asr' \in {"bypass", "on", "left"}
      BY <1>2, <1>3 DEF HandleStart, EngineTypes, AudioTypes, SetParamOnAudioStop
    <3>3. UNCHANGED <<source, reading, session, result>>
      BY <1>2, <1>3 DEF HandleStart
    <3> QED
      BY <1>3, <3>1, <3>2, <3>3, <3>4, <3>5 DEF HandleStart, EngineTypes, AudioTypes
  <2>2. MicrophoneRecordMatchesReading' /\ RecognitionNotLost'
    BY <1>3 DEF HandleStart, MicrophoneRecordMatchesReading, RecognitionNotLost
  <2>3. AudioLivesWithSession' /\ AdapterMatchesState'
    BY <1>1, <1>2, <1>3 DEF HandleStart, AudioLivesWithSession, AdapterMatchesState,
      InSession, SetParamOnAudioStop, EngineTypes
  <2> QED
    BY <1>3, <2>1, <2>2, <2>3 DEF MachineStep
<1>4. CASE ToState("RECOGNIZING") /\ adapter' = "started"
  <2>1. /\ state' = "RECOGNIZING" /\ timerId' \in [States -> Ids \cup {INVALID_ID}]
        /\ armed' \subseteq Item /\ TimeoutPending'
    BY <1>4, ToStateArms DEF MachineOK, EngineTypes, States
  <2>2. /\ stopCb' = TRUE /\ source' = TRUE /\ reading' = TRUE /\ frames' = 0
        /\ asr' \in {"on", "left"} /\ session' = session + 1 /\ resultDue' = session + 1
        /\ UNCHANGED initDue
    BY <1>1, <1>2, <1>4, <2>1 DEF HandleStart, SetParamOnAudioStart
  <2>3. EngineTypes'
    BY <1>1, <1>4, <2>1, <2>2, EngineConstants DEF HandleStart, EngineTypes, AudioTypes, States
  <2>4. MicrophoneRecordMatchesReading' /\ RecognitionNotLost'
    BY <1>1, <2>1 DEF HandleStart, MicrophoneRecordMatchesReading, RecognitionNotLost
  <2>5. AudioLivesWithSession' /\ AdapterMatchesState'
    BY <1>4, <2>1, <2>2 DEF AudioLivesWithSession, AdapterMatchesState, InSession
  <2> QED
    BY <2>1, <2>3, <2>4, <2>5 DEF MachineStep
<1> QED
  BY <1>3, <1>4 DEF HandleStart

\* The parts that all ways of ending a session share.
LEMMA AudioStops ==
  ASSUME Core, StopAudioSource
  PROVE  /\ source' = FALSE /\ reading' = FALSE /\ frames' = 0 /\ asr' \in {"bypass", "left"}
         /\ AudioTypes'
<1>1. /\ source' = FALSE /\ reading' = FALSE /\ frames' = 0 /\ asr' \in {"bypass", "left"}
      /\ readBufferPCM' = readBufferPCM
  <2>1. CASE source
    BY <2>1 DEF StopAudioSource, SetParamOnAudioStop
  <2>2. CASE ~source
    BY <2>2 DEF StopAudioSource, audio, Core, EngineTypes, AudioTypes, AudioLivesWithSession
  <2> QED
    BY <2>1, <2>2
<1>2. frames' \in 0 .. MaxFrames
  BY <1>1, EngineConstants
<1>3. source' \in BOOLEAN /\ reading' \in BOOLEAN /\ readBufferPCM' \in BOOLEAN
  BY <1>1 DEF Core, EngineTypes, AudioTypes
<1> QED
  BY <1>1, <1>2, <1>3 DEF AudioTypes

\* EngineUtil::Stop leaves no adapter running.
LEMMA AdapterStops ==
  ASSUME Core, state # "IDLE", StopAdapter
  PROVE  adapter' = "attached" /\ UNCHANGED <<initDue, resultDue>>
BY DEF Core, AdapterMatchesState, StopAdapter

\* Leaving a session closes the record that HandleStartCapturer opened.
LEMMA MicrophoneStops ==
  ASSUME Core, StopPrivacy
  PROVE  privacy' = {}
BY DEF Core, MicrophoneRecordMatchesReading, StopPrivacy

\* HandleStop and HandleRecognizingTimeout end a recognition in INITIALIZED.
LEMMA StepStop ==
  ASSUME Inv, state = "RECOGNIZING", HandleStop
  PROVE  Core' /\ MachineStep
<1> USE DEF Inv, machine, client, notice, count
<1>1. /\ state' = "INITIALIZED" /\ timerId' \in [States -> Ids \cup {INVALID_ID}]
      /\ armed' \subseteq Item /\ TimeoutPending'
  BY ToStateArms DEF HandleStop, MachineOK, Core, EngineTypes, States
<1>2. /\ source' = FALSE /\ reading' = FALSE /\ frames' = 0 /\ asr' \in {"bypass", "left"}
      /\ AudioTypes'
  BY AudioStops DEF HandleStop
<1>3. adapter' = "attached" /\ UNCHANGED <<initDue, resultDue>>
  BY AdapterStops DEF HandleStop
<1>4. EngineTypes'
  BY <1>1, <1>2, <1>3, EngineConstants DEF HandleStop, Core, EngineTypes, States
<1>5. MicrophoneRecordMatchesReading' /\ RecognitionNotLost'
  BY <1>1 DEF HandleStop, Core, MicrophoneRecordMatchesReading, RecognitionNotLost
<1>6. AudioLivesWithSession' /\ AdapterMatchesState'
  BY <1>1, <1>2, <1>3 DEF HandleStop, Core, AudioLivesWithSession, AdapterMatchesState, InSession
<1> QED
  BY <1>1, <1>4, <1>5, <1>6 DEF Core, MachineStep

\* HandleStopCapturer ends a session in INITIALIZED.
LEMMA StepStopCapturer ==
  ASSUME Inv, state \in {"RECOGNIZED", "READ_CAPTURER"}, HandleStopCapturer
  PROVE  Core' /\ MachineStep
<1> USE DEF Inv, machine, client, notice, count
<1>1. /\ state' = "INITIALIZED" /\ timerId' \in [States -> Ids \cup {INVALID_ID}]
      /\ armed' \subseteq Item /\ TimeoutPending'
  BY ToStateArms DEF HandleStopCapturer, MachineOK, Core, EngineTypes, States
<1>2. /\ source' = FALSE /\ reading' = FALSE /\ frames' = 0 /\ asr' \in {"bypass", "left"}
      /\ AudioTypes'
  BY AudioStops DEF HandleStopCapturer
<1>3. adapter' = "attached" /\ UNCHANGED <<initDue, resultDue>>
  BY AdapterStops DEF HandleStopCapturer
<1>4. privacy' = {}
  BY MicrophoneStops DEF HandleStopCapturer
<1>5. EngineTypes'
  BY <1>1, <1>2, <1>3, <1>4, EngineConstants DEF HandleStopCapturer, Core, EngineTypes, States
<1>6. MicrophoneRecordMatchesReading' /\ RecognitionNotLost'
  BY <1>1, <1>4 DEF MicrophoneRecordMatchesReading, RecognitionNotLost
<1>7. AudioLivesWithSession' /\ AdapterMatchesState'
  BY <1>1, <1>2, <1>3 DEF HandleStopCapturer, Core, AudioLivesWithSession,
    AdapterMatchesState, InSession
<1> QED
  BY <1>1, <1>5, <1>6, <1>7 DEF Core, MachineStep

\* HandleRelease gives everything back, whatever state it meets.
LEMMA StepRelease ==
  ASSUME Inv, HandleRelease
  PROVE  Core' /\ MachineStep
<1> USE DEF Inv, machine, notice, count
<1>1. /\ state' = "IDLE" /\ timerId' \in [States -> Ids \cup {INVALID_ID}]
      /\ armed' \subseteq Item /\ TimeoutPending'
  BY ToStateArms DEF HandleRelease, MachineOK, Core, EngineTypes, States
<1>2. /\ source' = FALSE /\ reading' = FALSE /\ frames' = 0 /\ asr' \in {"bypass", "left"}
      /\ AudioTypes'
  BY AudioStops DEF HandleRelease
<1>3. privacy' = {}
  BY MicrophoneStops DEF HandleRelease
<1>4. EngineTypes'
  <2>1. stopCb' \in BOOLEAN /\ initDue' \in BOOLEAN
    BY DEF HandleRelease
  <2>2. adapter' = "none" /\ resultDue' \in 0 .. MaxSessions
    BY EngineConstants DEF HandleRelease
  <2> QED
    BY <1>1, <1>2, <1>3, <2>1, <2>2 DEF HandleRelease, Core, EngineTypes, States
<1>5. MicrophoneRecordMatchesReading' /\ RecognitionNotLost'
  BY <1>1, <1>3 DEF MicrophoneRecordMatchesReading, RecognitionNotLost
<1>6. AudioLivesWithSession' /\ AdapterMatchesState'
  BY <1>1, <1>2 DEF HandleRelease, AudioLivesWithSession, AdapterMatchesState, InSession
<1> QED
  BY <1>1, <1>4, <1>5, <1>6 DEF Core, MachineStep

\* HandleRecognizeComplete tells or keeps the result of the recognition.
LEMMA StepRecognizeComplete ==
  ASSUME Inv, NEW ok \in BOOLEAN, NEW res \in 1 .. MaxSessions, HandleRecognizeComplete(ok, res)
  PROVE  Core' /\ MachineStep
<1> USE DEF Inv, machine, client, notice, count
<1>1. state = "RECOGNIZING" /\ Core
  BY DEF HandleRecognizeComplete, Handles, ActsIn
<1>2. /\ state' = IF ok THEN "RECOGNIZED" ELSE "INITIALIZED"
      /\ timerId' \in [States -> Ids \cup {INVALID_ID}]
      /\ armed' \subseteq Item /\ TimeoutPending'
  BY ToStateArms DEF HandleRecognizeComplete, MachineOK, Core, EngineTypes, States
<1>3. adapter' = "attached" /\ UNCHANGED <<initDue, resultDue>>
  BY <1>1, AdapterStops DEF HandleRecognizeComplete
<1>4. /\ told' \in Seq(1 .. MaxSessions) /\ historyEvent' \in 0 .. MaxSessions
      /\ historyEvent' = res \/ \E k \in DOMAIN told' : told'[k] = res
  <2>0. told \in Seq(1 .. MaxSessions)
    BY <1>1 DEF Core, EngineTypes
  <2>1. CASE cb
    <3>1. told' = Append(told, res) /\ historyEvent' = 0
      BY <2>1 DEF HandleRecognizeComplete, Notify
    <3>2. told' \in Seq(1 .. MaxSessions)
      BY <2>0, <3>1
    <3>3. Len(told) + 1 \in DOMAIN told' /\ told'[Len(told) + 1] = res
      BY <2>0, <3>1
    <3> QED
      BY <3>1, <3>2, <3>3, EngineConstants
  <2>2. CASE ~cb
    BY <2>0, <2>2, EngineConstants DEF HandleRecognizeComplete, Notify
  <2> QED
    BY <2>1, <2>2
<1>5. result' = res /\ UNCHANGED <<stopCb, callerTokenId, privacy, cb, session>>
  BY DEF HandleRecognizeComplete
<1>6. CASE ok
  <2>1. UNCHANGED <<source, reading, frames, readBufferPCM, asr>>
    BY <1>6 DEF HandleRecognizeComplete, audio
  <2>2. EngineTypes'
    BY <1>1, <1>2, <1>3, <1>4, <1>5, <1>6, <2>1, EngineConstants DEF Core, EngineTypes, AudioTypes, States
  <2>3. MicrophoneRecordMatchesReading' /\ RecognitionNotLost'
    BY <1>1, <1>2, <1>4, <1>5, <1>6 DEF Core, MicrophoneRecordMatchesReading, RecognitionNotLost
  <2>4. AudioLivesWithSession' /\ AdapterMatchesState'
    BY <1>1, <1>2, <1>3, <1>5, <1>6, <2>1 DEF Core, AudioLivesWithSession,
      AdapterMatchesState, InSession
  <2> QED
    BY <1>2, <2>2, <2>3, <2>4 DEF Core, MachineStep
<1>7. CASE ~ok
  <2>1. /\ source' = FALSE /\ reading' = FALSE /\ frames' = 0 /\ asr' \in {"bypass", "left"}
        /\ AudioTypes'
    BY <1>1, <1>7, AudioStops DEF HandleRecognizeComplete
  <2>2. EngineTypes'
    BY <1>1, <1>2, <1>3, <1>4, <1>5, <1>7, <2>1, EngineConstants DEF Core, EngineTypes, States
  <2>3. MicrophoneRecordMatchesReading' /\ RecognitionNotLost'
    BY <1>1, <1>2, <1>4, <1>5, <1>7 DEF Core, MicrophoneRecordMatchesReading, RecognitionNotLost
  <2>4. AudioLivesWithSession' /\ AdapterMatchesState'
    BY <1>1, <1>2, <1>3, <1>5, <1>7, <2>1 DEF Core, AudioLivesWithSession,
      AdapterMatchesState, InSession
  <2> QED
    BY <1>2, <2>2, <2>3, <2>4 DEF Core, MachineStep
<1> QED
  BY <1>6, <1>7

\* HandleStartCapturer opens the record and enters READ_CAPTURER, or fails.
LEMMA StepStartCapturer ==
  ASSUME Inv, NEW token \in Tokens, HandleStartCapturer(token)
  PROVE  Core' /\ MachineStep
<1> USE DEF Inv, machine, hdi, audio, notice, count
<1>1. state = "RECOGNIZED" /\ privacy = {}
  BY DEF HandleStartCapturer, Handles, ActsIn, Core, MicrophoneRecordMatchesReading
<1>2. CASE UNCHANGED <<privacy, machine>>
  <2>1. EngineTypes'
    BY <1>2 DEF HandleStartCapturer, Core, EngineTypes, AudioTypes
  <2>2. MicrophoneRecordMatchesReading' /\ RecognitionNotLost'
    BY <1>1, <1>2 DEF HandleStartCapturer, Core, MicrophoneRecordMatchesReading,
      RecognitionNotLost
  <2>3. AudioLivesWithSession' /\ AdapterMatchesState'
    BY <1>2 DEF HandleStartCapturer, Core, AudioLivesWithSession, AdapterMatchesState, InSession
  <2> QED
    BY <1>2, <2>1, <2>2, <2>3 DEF Core, MachineStep
<1>3. CASE privacy' = privacy \cup {token} /\ ToState("READ_CAPTURER")
  <2>1. /\ state' = "READ_CAPTURER" /\ timerId' \in [States -> Ids \cup {INVALID_ID}]
        /\ armed' \subseteq Item /\ TimeoutPending'
    BY <1>3, ToStateArms DEF MachineOK, Core, EngineTypes, States
  <2>2. EngineTypes'
    BY <1>3, <2>1 DEF HandleStartCapturer, Core, EngineTypes, AudioTypes, States
  <2>3. MicrophoneRecordMatchesReading' /\ RecognitionNotLost'
    BY <1>1, <1>3, <2>1 DEF HandleStartCapturer, Core, MicrophoneRecordMatchesReading,
      RecognitionNotLost
  <2>4. AudioLivesWithSession' /\ AdapterMatchesState'
    BY <1>1, <2>1 DEF HandleStartCapturer, Core, AudioLivesWithSession, AdapterMatchesState,
      InSession
  <2> QED
    BY <2>1, <2>2, <2>3, <2>4 DEF Core, MachineStep
<1> QED
  BY <1>2, <1>3 DEF HandleStartCapturer

\* A reset keeps the one armed timer, or replaces the one that is just firing.
LEMMA ResetArms ==
  ASSUME MachineOK, ResetTimerDelay
  PROVE  /\ state' = state
         /\ timerId' \in [States -> Ids \cup {INVALID_ID}]
         /\ armed' \subseteq Item
         /\ UNCHANGED <<armed, timerId>> \/ TimeoutPending'
<1>1. state' = state
  BY DEF ResetTimerDelay
<1>2. CASE timerId[state] = INVALID_ID \/ state \notin TimedStates
  BY <1>1, <1>2 DEF ResetTimerDelay, MachineOK
<1>3. CASE ~(timerId[state] = INVALID_ID \/ state \notin TimedStates)
  <2>1. CASE armed = {[timerId |-> timerId[state], type |-> TimeoutOf[state]]}
    <3>1. \E t \in armed : armed = {t} /\ t.timerId = timerId[state]
      BY <2>1
    <3>2. armed' = armed /\ timerId' = [timerId EXCEPT ![state] = timerId[state]]
      BY <1>3, <3>1 DEF ResetTimerDelay
    <3>3. timerId' = timerId
      BY <3>2 DEF MachineOK
    <3> QED
      BY <1>1, <3>2, <3>3 DEF MachineOK
  <2>2. CASE armed = {}
    <3>1. KillTimer(armed, timerId[state]) = {}
      BY <2>2 DEF KillTimer
    <3>2. /\ armed' = SetTimer({}, TimeoutOf[state])
          /\ timerId' = [timerId EXCEPT ![state] = AllocId({})]
      BY <1>3, <2>2, <3>1 DEF ResetTimerDelay
    <3>3. armed' = {[timerId |-> AllocId({}), type |-> TimeoutOf[state]]}
      BY <3>2, SetFromEmpty
    <3>4. timerId' \in [States -> Ids \cup {INVALID_ID}] /\ timerId'[state] = AllocId({})
      BY <3>2, AllocFromEmpty DEF MachineOK
    <3>5. armed' \subseteq Item
      BY <1>3, <3>3, AllocFromEmpty, TimeoutTypes DEF Item
    <3>6. TimeoutPending'
      BY <1>1, <1>3, <3>3, <3>4 DEF TimeoutPending, TimedStates, TimeoutOf
    <3> QED
      BY <1>1, <3>4, <3>5, <3>6
  <2> QED
    BY <1>3, <2>1, <2>2 DEF MachineOK, TimeoutPending
<1> QED
  BY <1>2, <1>3

\* HandleRead, which puts the time limit off, and a read that fails half way.
LEMMA StepRead ==
  ASSUME Inv, HandleRead \/ HandleReadFails
  PROVE  Core' /\ MachineStep
<1> USE DEF Inv, machine, hdi, client, notice, count
<1>1. state = "READ_CAPTURER" /\ Core
  BY DEF HandleRead, HandleReadFails, Handles, ActsIn
<1>2. /\ state' = state /\ timerId' \in [States -> Ids \cup {INVALID_ID}]
      /\ armed' \subseteq Item
      /\ UNCHANGED <<armed, timerId>> \/ TimeoutPending'
  <2>1. CASE HandleRead
    BY <1>1, <2>1, ResetArms DEF HandleRead, MachineOK, Core, EngineTypes
  <2>2. CASE HandleReadFails
    BY <1>1, <2>2 DEF HandleReadFails, Core, EngineTypes
  <2> QED
    BY <2>1, <2>2
<1>3. /\ UNCHANGED <<source, reading, asr, adapter, initDue, resultDue, stopCb>>
      /\ UNCHANGED <<callerTokenId, privacy, cb, historyEvent, told, session, result>>
  BY DEF HandleRead, HandleReadFails
<1>4. frames' \in 0 .. MaxFrames
  BY <1>1, EngineConstants
  DEF HandleRead, HandleReadFails, AddMultiFrame, Core, EngineTypes, AudioTypes
<1>5. readBufferPCM' \in BOOLEAN
  BY <1>1 DEF HandleRead, HandleReadFails, Core, EngineTypes, AudioTypes
<1>6. EngineTypes'
  BY <1>1, <1>2, <1>3, <1>4, <1>5 DEF Core, EngineTypes, AudioTypes
<1>7. MicrophoneRecordMatchesReading' /\ RecognitionNotLost'
  BY <1>1, <1>2, <1>3 DEF Core, MicrophoneRecordMatchesReading, RecognitionNotLost
<1>8. AudioLivesWithSession' /\ AdapterMatchesState'
  BY <1>1, <1>2, <1>3 DEF Core, AudioLivesWithSession, AdapterMatchesState, InSession
<1> QED
  BY <1>2, <1>6, <1>7, <1>8 DEF Core, MachineStep

-----------------------------------------------------------------------------
(* The threads, and the theorem.                                           *)

\* The queue and the firing timer have their types.
QueueTypes == tasks \in Seq(Events) /\ firing \in Item \cup {NoItem}

\* The invariant in the parts the steps establish separately.
LEMMA InvSplits ==
  /\ Inv <=> QueueTypes /\ Core /\ TimeoutPending
  /\ Inv' <=> QueueTypes' /\ Core' /\ TimeoutPending'
BY DEF Inv, TypeOK, QueueTypes, Core, EngineTypes, AudioTypes

\* A timeout that is still wanted keeps its place when the machine does not move.
LEMMA TimeoutStays ==
  ASSUME TimeoutPending, MachineStep, UNCHANGED firing
  PROVE  TimeoutPending'
BY DEF TimeoutPending, MachineStep, machine, TimedStates, TimeoutOf

\* The engine as it is constructed satisfies the invariant.
LEMMA InitInv == Init => Inv
<1> SUFFICES ASSUME Init PROVE QueueTypes /\ Core /\ TimeoutPending
  BY InvSplits
<1> USE DEF Init
<1>1. QueueTypes
  BY DEF QueueTypes
<1>2. AudioTypes
  <2>1. frames \in 0 .. MaxFrames
    BY EngineConstants
  <2>2. source \in BOOLEAN /\ reading \in BOOLEAN /\ readBufferPCM \in BOOLEAN
    BY Zenon
  <2>3. asr \in {"bypass", "on", "left"}
    OBVIOUS
  <2> QED
    BY <2>1, <2>2, <2>3 DEF AudioTypes
<1>3. EngineTypes
  <2>1. initDue \in BOOLEAN /\ stopCb \in BOOLEAN /\ cb \in BOOLEAN
    BY Zenon
  <2>2. /\ resultDue \in 0 .. MaxSessions /\ historyEvent \in 0 .. MaxSessions
        /\ session \in 0 .. MaxSessions /\ result \in 0 .. MaxSessions
    BY EngineConstants
  <2>3. state \in States /\ timerId \in [States -> Ids \cup {INVALID_ID}] /\ armed \subseteq Item
    BY DEF States
  <2>4. callerTokenId \in Tokens \cup {NoToken} /\ privacy \subseteq Tokens
    OBVIOUS
  <2>5. told \in Seq(1 .. MaxSessions) /\ adapter \in {"none", "created", "attached", "started"}
    OBVIOUS
  <2> QED
    BY <1>2, <2>1, <2>2, <2>3, <2>4, <2>5 DEF EngineTypes
<1>4. Core
  BY <1>3 DEF Core, MicrophoneRecordMatchesReading, AudioLivesWithSession, InSession,
    AdapterMatchesState, RecognitionNotLost
<1>5. TimeoutPending
  BY DEF TimeoutPending, TimedStates, TimeoutOf
<1> QED
  BY <1>1, <1>4, <1>5

\* Every step of every thread preserves the invariant.
LEMMA NextInv == Inv /\ [Next]_vars => Inv'
<1> SUFFICES ASSUME Inv, [Next]_vars PROVE Inv'
  OBVIOUS
<1>0. QueueTypes /\ Core /\ TimeoutPending
  BY InvSplits
<1>1. CASE Call
  <2>1. Core' /\ MachineStep
    <3>1. CASE Handles("STOP_RECOGNIZE") /\ HandleStop
      BY <3>1, StepStop DEF Handles, ActsIn
    <3>2. CASE Handles("STOP_CAPTURER") /\ HandleStopCapturer
      BY <3>2, StepStopCapturer DEF Handles, ActsIn
    <3> QED
      BY <1>1, <3>1, <3>2, StepInit, StepRelease, StepSetListener, StepStart,
        StepStartCapturer, StepRead DEF Call
  <2>2. QueueTypes' /\ UNCHANGED firing
    BY <1>0, <1>1 DEF Call, QueueTypes
  <2> QED
    BY <1>0, <2>1, <2>2, TimeoutStays, InvSplits
<1>2. CASE TimerRun
  <2>1. PICK t \in armed : firing' = t /\ armed' = armed \ {t}
    BY <1>2 DEF TimerRun
  <2>2. /\ UNCHANGED <<state, timerId, adapter, initDue, resultDue, tasks, stopCb>>
        /\ UNCHANGED <<source, reading, frames, readBufferPCM, asr, callerTokenId, privacy>>
        /\ UNCHANGED <<cb, historyEvent, told, session, result>>
    BY <1>2 DEF TimerRun, hdi, audio, client, notice, count
  <2>3. QueueTypes'
    BY <1>0, <2>1, <2>2 DEF QueueTypes, Core, EngineTypes
  <2>4. Core'
    BY <1>0, <2>1, <2>2 DEF Core, EngineTypes, AudioTypes, MicrophoneRecordMatchesReading,
      AudioLivesWithSession, AdapterMatchesState, RecognitionNotLost, InSession
  <2>5. TimeoutPending'
    <3>1. armed = {[timerId |-> timerId[state], type |-> TimeoutOf[state]]} /\ state \in TimedStates
      BY <1>0, <2>1 DEF TimeoutPending
    <3>2. armed' = {} /\ firing'.type = TimeoutOf[state]
      BY <2>1, <3>1
    <3> QED
      BY <2>2, <3>1, <3>2 DEF TimeoutPending, TimedStates, TimeoutOf
  <2> QED
    BY <2>3, <2>4, <2>5, InvSplits
<1>3. CASE OnTimerEvent
  <2>1. QueueTypes' /\ firing \in Item
    BY <1>0, <1>3 DEF OnTimerEvent, QueueTypes
  <2>2. firing.type \in Types
    BY <2>1 DEF Item
  <2>3. CASE Handles(firing.type)
    <3>1. CASE firing.type = "RECOGNIZING_TIMEOUT"
      <4>1. HandleStop /\ state = "RECOGNIZING"
        BY <1>3, <2>3, <3>1 DEF OnTimerEvent, Handles, ActsIn
      <4>2. Core' /\ MachineStep /\ state' # state
        BY <4>1, StepStop DEF HandleStop, ToState
      <4> QED
        BY <2>1, <4>2, InvSplits DEF MachineStep, machine
    <3>2. CASE firing.type # "RECOGNIZING_TIMEOUT"
      <4>1. HandleStopCapturer /\ state \in {"RECOGNIZED", "READ_CAPTURER"}
        BY <1>3, <2>2, <2>3, <3>2, EngineConstants DEF OnTimerEvent, Handles, ActsIn
      <4>2. Core' /\ MachineStep /\ state' # state
        BY <4>1, StepStopCapturer DEF HandleStopCapturer, ToState
      <4> QED
        BY <2>1, <4>2, InvSplits DEF MachineStep, machine
    <3> QED
      BY <3>1, <3>2
  <2>4. CASE ~Handles(firing.type)
    <3>1. /\ UNCHANGED <<state, timerId, armed, adapter, initDue, resultDue, stopCb>>
          /\ UNCHANGED <<source, reading, frames, readBufferPCM, asr, callerTokenId, privacy>>
          /\ UNCHANGED <<cb, historyEvent, told, session, result>>
      BY <1>3, <2>4 DEF OnTimerEvent, machine, hdi, audio, client, notice, count
    <3>2. Core'
      BY <1>0, <3>1 DEF Core, EngineTypes, AudioTypes, MicrophoneRecordMatchesReading,
        AudioLivesWithSession, AdapterMatchesState, RecognitionNotLost, InSession
    <3>3. state \in TimedStates => firing.type # TimeoutOf[state]
      BY <2>4, TimeoutTypes DEF Handles, ActsIn
    <3>4. TimeoutPending'
      BY <1>0, <3>1, <3>3 DEF TimeoutPending, TimedStates, TimeoutOf
    <3> QED
      BY <2>1, <3>2, <3>4, InvSplits
  <2> QED
    BY <2>3, <2>4
<1>4. CASE OnWakeupEvent
  <2>1. /\ UNCHANGED <<state, timerId, armed, firing, adapter, stopCb>>
        /\ UNCHANGED <<source, reading, frames, readBufferPCM, asr, callerTokenId, privacy>>
        /\ UNCHANGED <<cb, historyEvent, told, session, result>>
    BY <1>4 DEF OnWakeupEvent, machine, audio, client, notice, count
  <2>2. initDue' \in BOOLEAN
    BY <1>0, <1>4 DEF OnWakeupEvent, Core, EngineTypes
  <2>3. resultDue' \in 0 .. MaxSessions
    BY <1>0, <1>4, EngineConstants DEF OnWakeupEvent, Core, EngineTypes
  <2>4. \E e \in Events : Push(e)
    <3>1. resultDue # 0 => resultDue \in 1 .. MaxSessions
      BY <1>0, EngineConstants DEF Core, EngineTypes
    <3> QED
      BY <1>4, <3>1 DEF OnWakeupEvent, Events
  <2>5. QueueTypes'
    BY <1>0, <2>1, <2>4 DEF Push, QueueTypes
  <2>6. Core'
    BY <1>0, <2>1, <2>2, <2>3 DEF Core, EngineTypes, AudioTypes,
      MicrophoneRecordMatchesReading, AudioLivesWithSession, AdapterMatchesState,
      RecognitionNotLost, InSession
  <2>7. TimeoutPending'
    BY <1>0, <2>1 DEF TimeoutPending, TimedStates, TimeoutOf
  <2> QED
    BY <2>5, <2>6, <2>7, InvSplits
<1>5. CASE RunTask
  <2> DEFINE e == Head(tasks)
  <2>1. e \in Events /\ tasks' \in Seq(Events)
    BY <1>0, <1>5 DEF RunTask, QueueTypes
  <2>2. QueueTypes' /\ UNCHANGED firing
    BY <1>0, <1>5, <2>1 DEF RunTask, QueueTypes
  <2>3. CASE ~Handles(e.msg)
    <3>1. /\ UNCHANGED <<state, timerId, armed, adapter, initDue, resultDue, stopCb>>
          /\ UNCHANGED <<source, reading, frames, readBufferPCM, asr, callerTokenId, privacy>>
          /\ UNCHANGED <<cb, historyEvent, told, session, result>>
      BY <1>5, <2>3 DEF RunTask, machine, hdi, audio, client, notice, count
    <3>2. Core'
      BY <1>0, <3>1 DEF Core, EngineTypes, AudioTypes, MicrophoneRecordMatchesReading,
        AudioLivesWithSession, AdapterMatchesState, RecognitionNotLost, InSession
    <3>3. MachineStep
      BY <3>1 DEF MachineStep, machine
    <3> QED
      BY <1>0, <2>2, <3>2, <3>3, TimeoutStays, InvSplits
  <2>4. CASE Handles(e.msg) /\ e.msg = "INIT_DONE" /\ HandleInitDone(e.ok)
    <3>1. e.ok \in BOOLEAN
      BY <2>1 DEF Events
    <3>2. Core' /\ MachineStep
      BY <2>4, <3>1, StepInitDone
    <3> QED
      BY <1>0, <2>2, <3>2, TimeoutStays, InvSplits
  <2>5. CASE /\ Handles(e.msg) /\ e.msg = "RECOGNIZE_COMPLETE"
             /\ HandleRecognizeComplete(e.ok, e.session)
    <3>1. e.ok \in BOOLEAN /\ e.session \in 1 .. MaxSessions
      BY <2>1, <2>5 DEF Events
    <3>2. Core' /\ MachineStep
      BY <2>5, <3>1, StepRecognizeComplete
    <3> QED
      BY <1>0, <2>2, <3>2, TimeoutStays, InvSplits
  <2> QED
    BY <1>5, <2>3, <2>4, <2>5 DEF RunTask
<1>6. CASE Capture
  <2>1. /\ UNCHANGED <<state, timerId, armed, firing, adapter, initDue, resultDue, tasks>>
        /\ UNCHANGED <<stopCb, source, readBufferPCM, asr, callerTokenId, privacy>>
        /\ UNCHANGED <<cb, historyEvent, told, session, result>>
    BY <1>6 DEF Capture, machine, hdi, client, notice, count
  <2>2. source
    BY <1>0, <1>6 DEF Capture, Core, AudioLivesWithSession
  <2>3. frames' \in 0 .. MaxFrames
    <3>1. frames \in 0 .. MaxFrames
      BY <1>0 DEF Core, EngineTypes, AudioTypes
    <3>2. Buffered \in 0 .. MaxFrames
      BY <3>1, EngineConstants DEF Buffered
    <3> QED
      BY <1>6, <3>1, <3>2 DEF Capture
  <2>4. reading' \in BOOLEAN
    BY <1>0, <1>6 DEF Capture, Core, EngineTypes, AudioTypes
  <2>5. EngineTypes'
    BY <1>0, <2>1, <2>3, <2>4 DEF Core, EngineTypes, AudioTypes
  <2>6. AudioLivesWithSession'
    BY <1>0, <2>1, <2>2 DEF Core, AudioLivesWithSession, InSession
  <2>7. MicrophoneRecordMatchesReading' /\ AdapterMatchesState' /\ RecognitionNotLost'
    BY <1>0, <2>1 DEF Core, MicrophoneRecordMatchesReading, AdapterMatchesState,
      RecognitionNotLost, InSession
  <2>8. QueueTypes' /\ TimeoutPending'
    BY <1>0, <2>1 DEF QueueTypes, TimeoutPending, TimedStates, TimeoutOf
  <2> QED
    BY <2>5, <2>6, <2>7, <2>8, InvSplits DEF Core
<1>7. CASE UNCHANGED vars
  <2>1. /\ UNCHANGED <<state, timerId, armed, firing, adapter, initDue, resultDue, tasks>>
        /\ UNCHANGED <<source, reading, frames, readBufferPCM, asr, stopCb>>
        /\ UNCHANGED <<callerTokenId, privacy, cb, historyEvent, told, session, result>>
    BY <1>7 DEF vars, machine, hdi, audio, client, notice, count
  <2>2. Core'
    BY <1>0, <2>1 DEF Core, EngineTypes, AudioTypes, MicrophoneRecordMatchesReading,
      AudioLivesWithSession, AdapterMatchesState, RecognitionNotLost, InSession
  <2>3. QueueTypes' /\ TimeoutPending'
    BY <1>0, <2>1 DEF QueueTypes, TimeoutPending, TimedStates, TimeoutOf
  <2> QED
    BY <2>2, <2>3, InvSplits
<1> QED
  BY <1>1, <1>2, <1>3, <1>4, <1>5, <1>6, <1>7 DEF Next

\* The inductive invariant holds in every behaviour of the engine.
THEOREM EngineInvariant == Spec => []Inv
BY InitInv, NextInv, PTL DEF Spec

\* Every variable keeps its type whatever the threads do.
THEOREM TypeCorrect == Spec => []TypeOK
<1>1. Inv => TypeOK
  BY DEF Inv
<1> QED
  BY <1>1, EngineInvariant, PTL

\* The microphone record is open exactly while a client of the session reads.
THEOREM MicrophoneRecordSafe == Spec => []MicrophoneRecordMatchesReading
<1>1. Inv => MicrophoneRecordMatchesReading
  BY DEF Inv, Core
<1> QED
  BY <1>1, EngineInvariant, PTL

\* Audio source and buffers live exactly as long as a session, and no session that turned
\* the echo mode on ends without SetParamOnAudioStop.
THEOREM AudioSafe == Spec => []AudioLivesWithSession
<1>1. Inv => AudioLivesWithSession
  BY DEF Inv, Core
<1> QED
  BY <1>1, EngineInvariant, PTL

\* The adapter runs exactly while the engine recognises.
THEOREM AdapterSafe == Spec => []AdapterMatchesState
<1>1. Inv => AdapterMatchesState
  BY DEF Inv, Core
<1> QED
  BY <1>1, EngineInvariant, PTL

\* No state with a time limit is ever left without its timeout.
THEOREM TimeoutAlwaysPending == Spec => []TimeoutPending
<1>1. Inv => TimeoutPending
  BY DEF Inv
<1> QED
  BY <1>1, EngineInvariant, PTL

\* A recognised wake-up has been told to a client or is kept for one.
THEOREM RecognitionSafe == Spec => []RecognitionNotLost
<1>1. Inv => RecognitionNotLost
  BY DEF Inv, Core
<1> QED
  BY <1>1, EngineInvariant, PTL
=============================================================================
