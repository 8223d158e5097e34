---------------------------- MODULE WakeupFacade -----------------------------
(***************************************************************************)
(* The wake-up engine as its clients see it: WakeupEngineImplFacade in     *)
(* front of the phone's engine and of the headset's or the glasses'        *)
(* engine, and EngineDeviceManager, which decides which device is active   *)
(* (src/services/intell_voice_engine/server/: wakeup/wakeup_engine.cpp,    *)
(* wakeup/wakeup_engine_impl_facade.cpp, wakeup/headset/, wakeup/glasses/, *)
(* base/engine_device_manager.cpp).                                        *)
(*                                                                         *)
(* deviceMutex_ is held for a whole call of the facade and the state lock  *)
(* of an engine for a whole message, so a call is one action.  A refresh   *)
(* of the active device runs on a thread of its own, and so does the call  *)
(* that tells the facade: two actions with anything in between.            *)
(*                                                                         *)
(* The phone's engine is WakeupEngineImpl reduced to its states; timeouts  *)
(* and reports of the HDI may come in any state that accepts them, which   *)
(* includes late ones.                                                     *)
(***************************************************************************)
EXTENDS Naturals, SequencesExt

CONSTANTS
  Macs,         \* MAC addresses of headsets and glasses
  Callbacks,    \* callbacks of clients
  MaxChanges,   \* bound: changes of the registered devices and of the audio device
  MaxEngines    \* bound: wake-up engines created one after the other

ASSUME FacadeConstants ==
  /\ "PHONE" \notin Macs /\ "none" \notin Callbacks
  /\ MaxChanges \in Nat /\ MaxEngines \in Nat

VARIABLES
  devices,      \* deviceList_
  audioMac,     \* audioMacAddress_
  active,       \* wakeupDevice_ of the device manager
  changes,      \* number of changes so far; numbers the registrations
  refreshes,    \* threads of RefreshActiveDevice that have not begun
  deliveries,   \* callbacks such threads still have to call
  engineNo,     \* number of wake-up engines so far
  facade,       \* deviceChangeCbId_ of the engine that exists, or 0
  device,       \* wakeupDevice_ of the facade
  wakeupImpl,   \* what wakeupImpl_ points to
  callback,     \* callback_
  cur,          \* curState_ and curProcess_
  phone,        \* defaultImpl_ and wispherImpl_
  other,        \* the engine of a headset or of glasses
  closing,      \* the last detection had the wake-up source closed
  dry,          \* engines in READ_CAPTURER whose client gets no more audio
  strayed,      \* the active device changed during a wake-up session of the phone
  misled        \* a process type nobody had set changed cur

manager == <<devices, audioMac, active, changes, refreshes, deliveries>>
front   == <<engineNo, facade, device, wakeupImpl, callback>>
history == <<strayed, misled>>
vars    == <<manager, front, cur, phone, other, closing, dry, history>>

\* The kinds of devices that have an engine of their own; GLASSES may register too.
Kinds     == {"HEADSET", "AI_GLASSES"}
Devices   == Kinds \cup {"GLASSES"}
Processes == {"IDLE", "WAKEUP_PHONE", "WAKEUP_HEADSET", "WAKEUP_GLASSES", "WISPHER_PHONE"}

\* The states above INITIALIZED.
Session   == {"RECOGNIZING", "RECOGNIZED", "READ_CAPTURER"}
States    == {"IDLE", "INITIALIZING", "INITIALIZED"} \cup Session

DefaultDevice == [no |-> 0, mac |-> "PHONE", kind |-> "PHONE"]
Device        == [no : 1 .. MaxChanges, mac : Macs, kind : Devices] \cup {DefaultDevice}

NoOther == [kind |-> "none", state |-> "IDLE", adapter |-> "none", reading |-> FALSE,
            callback |-> "none"]
NoPhone == [state |-> "IDLE", type |-> "IDLE", typeSet |-> FALSE, callback |-> "none"]
NoCur   == [state |-> "IDLE", process |-> "IDLE"]

Init ==
  /\ devices = <<DefaultDevice>> /\ audioMac = "PHONE" /\ active = DefaultDevice
  /\ changes = 0 /\ refreshes = 0 /\ deliveries = <<>>
  /\ engineNo = 0 /\ facade = 0 /\ device = DefaultDevice
  /\ wakeupImpl = "null" /\ callback = "none"
  /\ cur = NoCur /\ phone = NoPhone /\ other = NoOther
  /\ closing = FALSE /\ dry = {} /\ strayed = FALSE /\ misled = FALSE

-----------------------------------------------------------------------------
(* EngineDeviceManager.                                                    *)

\* Every change ends in RefreshActiveDevice, which starts a thread.
Change ==
  /\ changes < MaxChanges /\ changes' = changes + 1
  /\ refreshes' = refreshes + 1
  /\ UNCHANGED <<active, deliveries, front, cur, phone, other, closing, dry, history>>

\* A device that registers again is a new entry at the end of the list.
RegisterDevice(mac, kind) ==
  /\ Change
  /\ devices' = Append(SelectSeq(devices, LAMBDA d : d.mac # mac),
                       [no |-> changes', mac |-> mac, kind |-> kind])
  /\ UNCHANGED audioMac

DeregisterDevice(mac) ==
  /\ Change
  /\ devices' = SelectSeq(devices, LAMBDA d : d.mac # mac)
  /\ UNCHANGED audioMac

\* The service of a kind of devices, or the headset's HDI host, died.
RemoveByServiceName(kind) ==
  /\ Change
  /\ devices' = SelectSeq(devices, LAMBDA d : d.kind # kind)
  /\ UNCHANGED audioMac

UpdateAudioDevice(mac) ==
  /\ Change
  /\ audioMac' = mac
  /\ UNCHANGED devices

\* Mutant: the first registered device wins, not the last.
Mut_RefreshWakeupDevice ==
  IF \E k \in DOMAIN devices : devices[k].mac = audioMac
    THEN devices[CHOOSE k \in DOMAIN devices : devices[k].mac = audioMac]
    ELSE IF devices # <<>> THEN Head(devices) ELSE DefaultDevice

\* The device that plays the audio if it is registered, else the last registered.
RefreshWakeupDevice ==
  IF \E k \in DOMAIN devices : devices[k].mac = audioMac
    THEN devices[CHOOSE k \in DOMAIN devices : devices[k].mac = audioMac]
    ELSE IF devices # <<>> THEN Last(devices) ELSE DefaultDevice

NotifyCallbacksIfChanged ==
  /\ refreshes > 0 /\ refreshes' = refreshes - 1
  /\ active' = RefreshWakeupDevice
  /\ deliveries' = IF active' # active /\ facade # 0
                     THEN Append(deliveries, [to |-> facade, device |-> active'])
                     ELSE deliveries
  /\ UNCHANGED <<devices, audioMac, changes, front, cur, phone, other,
                 closing, dry, history>>

-----------------------------------------------------------------------------
(* The facade's view of the engines.                                       *)

TypeOf(kind) == IF kind = "HEADSET" THEN "WAKEUP_HEADSET" ELSE "WAKEUP_GLASSES"

\* Mutant: any engine moves the process and ends it.
Mut_OnStateChange(c, next, type) ==
  LET Concerned == type # "IDLE" /\ (c.state \in Session \/ next \in Session)
  IN  IF ~Concerned THEN c
      ELSE IF next \in Session THEN [state |-> next, process |-> type] ELSE NoCur

\* OnStateChange: a process is entered with the first session and moved and left by
\* its own engine only.
OnStateChange(c, next, type) ==
  LET Concerned == /\ type # "IDLE"
                   /\ IF c.state \in Session THEN c.process = type ELSE next \in Session
  IN  IF ~Concerned THEN c
      ELSE IF next \in Session THEN [state |-> next, process |-> type] ELSE NoCur

\* HandleMsg ends in ToState, which tells the facade, when the state changes.
PhoneMoves(c, next) ==
  IF next = phone.state THEN c ELSE OnStateChange(c, next, phone.type)

OtherMoves(c, next) ==
  IF next = other.state THEN c ELSE OnStateChange(c, next, TypeOf(other.kind))

\* What the phone's engine tells before anybody has set its processType_.
Misleading(c, next) == ~phone.typeSet /\ PhoneMoves(c, next) # c

PhoneTo(next) ==
  /\ phone' = [phone EXCEPT !.state = next]
  /\ cur' = PhoneMoves(cur, next)
  /\ strayed' = (strayed /\ next \in Session)
  /\ misled' = (misled \/ Misleading(cur, next))
  /\ dry' = dry \ {"default"} /\ UNCHANGED other

OtherTo(next, adapter, reading) ==
  /\ other' = [other EXCEPT !.state = next, !.adapter = adapter, !.reading = reading]
  /\ cur' = OtherMoves(cur, next)
  /\ dry' = dry \ {"other"} /\ UNCHANGED <<phone, history>>

\* HandleRelease of the two engines: StopAudioSource, and the adapter goes.
Released(o) == [o EXCEPT !.state = "IDLE", !.adapter = "none", !.reading = FALSE]

\* HandleResetAdapter of the two engines.
Reset(o) ==
  IF o.kind = "HEADSET" THEN [o EXCEPT !.state = "INITIALIZING", !.adapter = "attached"]
                        ELSE [o EXCEPT !.state = "INITIALIZED"]

\* Mutant: a new engine starts without the client's callback.
Mut_CreateEngineImpl(d, cb) ==
  \/ d.kind = "PHONE" /\ wakeupImpl' = "default" /\ other' = NoOther
  \/ /\ d.kind = "HEADSET"
     /\ \/ wakeupImpl' \in {"default", "null"} /\ other' = NoOther
        \/ /\ wakeupImpl' = "other"
           /\ other' = [kind |-> "HEADSET", state |-> "INITIALIZING", adapter |-> "attached",
                        reading |-> FALSE, callback |-> "none"]
  \/ /\ d.kind = "AI_GLASSES" /\ wakeupImpl' = "other"
     /\ other' = [kind |-> "AI_GLASSES", state |-> "INITIALIZED", adapter |-> "none",
                  reading |-> FALSE, callback |-> "none"]
  \/ /\ d.kind = "GLASSES" /\ wakeupImpl' = (IF wakeupImpl = "default" THEN "default" ELSE "null")
     /\ other' = NoOther

\* CreateEngineImpl: no headset's engine without its host; the phone's engine
\* stands in for one that cannot be initialised.  GLASSES have no engine: the error
\* leaves what ReleaseEngineImpl, called before, has left.
CreateEngineImpl(d, cb) ==
  \/ d.kind = "PHONE" /\ wakeupImpl' = "default" /\ other' = NoOther
  \/ /\ d.kind = "HEADSET"
     /\ \/ wakeupImpl' \in {"default", "null"} /\ other' = NoOther
        \/ /\ wakeupImpl' = "other"
           /\ other' = [kind |-> "HEADSET", state |-> "INITIALIZING", adapter |-> "attached",
                        reading |-> FALSE, callback |-> cb]
  \/ /\ d.kind = "AI_GLASSES" /\ wakeupImpl' = "other"
     /\ other' = [kind |-> "AI_GLASSES", state |-> "INITIALIZED", adapter |-> "none",
                  reading |-> FALSE, callback |-> cb]
  \/ /\ d.kind = "GLASSES" /\ wakeupImpl' = (IF wakeupImpl = "default" THEN "default" ELSE "null")
     /\ other' = NoOther

-----------------------------------------------------------------------------
(* The life of the engine and its devices.                                 *)

\* What an uninitialised processType_ may hold.  Before the first detection no process
\* is the phone's, so that its own types do what IDLE does.
UnsetTypes == {"IDLE", "WAKEUP_HEADSET", "WAKEUP_GLASSES"}

\* Init, which fails with GLASSES.  processType_ of the phone's engine is not initialised.
CreateEngine ==
  /\ facade = 0 /\ engineNo < MaxEngines /\ active.kind # "GLASSES"
  /\ engineNo' = engineNo + 1 /\ facade' = engineNo'
  /\ device' = active /\ CreateEngineImpl(active, "none")
  /\ \E type \in UnsetTypes :
       phone' = [state |-> "INITIALIZING", type |-> type, typeSet |-> FALSE,
                 callback |-> "none"]
  /\ UNCHANGED <<manager, callback, cur, closing, dry, history>>

\* Mutant: the pointer to the device's engine survives the engine.
Mut_ReleaseEngine ==
  /\ facade # 0 /\ facade' = 0
  /\ callback' = "none" /\ device' = DefaultDevice
  /\ cur' = NoCur /\ phone' = NoPhone /\ other' = NoOther
  /\ dry' = {} /\ strayed' = FALSE /\ misled' = FALSE
  /\ UNCHANGED <<manager, engineNo, wakeupImpl, closing>>

\* Detach, and the destructor when the engine manager drops the engine.
ReleaseEngine ==
  /\ facade # 0 /\ facade' = 0
  /\ wakeupImpl' = "null" /\ callback' = "none" /\ device' = DefaultDevice
  /\ cur' = NoCur /\ phone' = NoPhone /\ other' = NoOther
  /\ dry' = {} /\ strayed' = FALSE /\ misled' = FALSE
  /\ UNCHANGED <<manager, engineNo, closing>>

\* UpdateWakeupEngineImpl, called by a refresh thread unless the engine is gone:
\* the old device's engine is destroyed whatever it is doing.
UpdateWakeupEngineImpl(k) ==
  /\ deliveries' = RemoveAt(deliveries, k)
  /\ IF facade = 0 \/ deliveries[k].to # facade
       THEN UNCHANGED <<device, wakeupImpl, cur, other, dry, strayed>>
       ELSE /\ device' = deliveries[k].device
            /\ CreateEngineImpl(device', callback)
            /\ cur' = OtherMoves(cur, "IDLE") /\ dry' = dry \ {"other"}
            /\ strayed' = \/ strayed
                          \/ phone.state \in Session /\ phone.type # "WISPHER_PHONE"
  /\ UNCHANGED <<devices, audioMac, active, changes, refreshes>>
  /\ UNCHANGED <<engineNo, facade, callback, phone, closing, misled>>

SaveCallback(cb) ==
  /\ facade # 0
  /\ callback' = cb
  /\ phone' = [phone EXCEPT !.callback = cb]
  /\ other' = IF wakeupImpl = "other" THEN [other EXCEPT !.callback = cb] ELSE other
  /\ UNCHANGED <<manager, engineNo, facade, device, wakeupImpl, cur, closing, dry, history>>

\* RELEASE and RELEASE_ADAPTER go to both engines.
Release ==
  /\ facade # 0
  /\ phone' = [phone EXCEPT !.state = "IDLE"] /\ other' = Released(other)
  /\ cur' = OtherMoves(PhoneMoves(cur, "IDLE"), "IDLE")
  /\ dry' = {} /\ strayed' = FALSE /\ misled' = (misled \/ Misleading(cur, "IDLE"))
  /\ UNCHANGED <<manager, front, closing>>

\* RESET_ADAPTER goes to both engines, each handles it in IDLE only and may fail.
ResetAdapter ==
  /\ facade # 0
  /\ phone' \in {phone} \cup
       (IF phone.state = "IDLE" THEN {[phone EXCEPT !.state = "INITIALIZING"]} ELSE {})
  /\ other' \in {other} \cup
       (IF other.kind # "none" /\ other.state = "IDLE" THEN {Reset(other)} ELSE {})
  /\ cur' = OtherMoves(PhoneMoves(cur, phone'.state), other'.state)
  /\ misled' = (misled \/ Misleading(cur, phone'.state))
  /\ UNCHANGED <<manager, front, closing, dry, strayed>>

-----------------------------------------------------------------------------
(* Detections.                                                             *)

\* Mutant: a detection is let through while a process is under way.
Mut_ProcessCheck == TRUE

ProcessCheck == cur.state \notin Session

\* OnTriggerDetected of the phone's engine, which closes the wake-up source when
\* it cannot start.
PhoneStarts(type) ==
  LET told == [phone EXCEPT !.type = type, !.typeSet = TRUE]
  IN  /\ \/ /\ phone.state = "INITIALIZED"
            /\ phone' = [told EXCEPT !.state = "RECOGNIZING"]
            /\ cur' = OnStateChange(cur, "RECOGNIZING", type)
            /\ closing' = FALSE
         \/ phone' = told /\ UNCHANGED cur /\ closing' = TRUE
      /\ UNCHANGED <<other, dry, history>>

\* HandleStart of a headset's engine fails when its adapter does.
HeadsetStart ==
  \/ OtherTo("RECOGNIZING", "started", TRUE)
  \/ UNCHANGED <<other, cur, phone, dry, history>>

\* HandleStart of glasses, which may do without the second stage.
GlassesStart == OtherTo("RECOGNIZING", "none", FALSE) \/ OtherTo("RECOGNIZED", "none", TRUE)

\* OnTriggerDetected of a headset's or glasses' engine.
OtherStarts ==
  /\ \/ other.state = "INITIALIZED" /\ other.kind = "HEADSET" /\ HeadsetStart
     \/ other.state = "INITIALIZED" /\ other.kind = "AI_GLASSES" /\ GlassesStart
     \/ other.state # "INITIALIZED" /\ UNCHANGED <<other, cur, phone, dry, history>>
  /\ closing' = FALSE

\* Mutant: a refused detection leaves the wake-up source open.
Mut_Refuse(mac) == closing' = FALSE /\ UNCHANGED <<phone, other, cur, dry, history>>

Refuse(mac) == closing' = (mac = "PHONE") /\ UNCHANGED <<phone, other, cur, dry, history>>

\* OnDetected: the phone heard the wake-up phrase, or a whisper.
OnWispherDetected ==
  /\ facade # 0
  /\ IF ProcessCheck THEN PhoneStarts("WISPHER_PHONE") ELSE Refuse("PHONE")
  /\ UNCHANGED <<manager, front>>

\* OnDetected for the phone, NotifyDeviceWakeupEvent for other devices.
OnWakeupDetected(mac) ==
  /\ facade # 0
  /\ IF ~ProcessCheck \/ mac # device.mac THEN Refuse(mac)
     ELSE \/ wakeupImpl = "default" /\ PhoneStarts("WAKEUP_PHONE")
          \/ wakeupImpl = "other" /\ OtherStarts
          \/ wakeupImpl = "null" /\ closing' = FALSE /\ UNCHANGED <<phone, other, cur, dry, history>>
  /\ UNCHANGED <<manager, front>>

-----------------------------------------------------------------------------
(* Commands of the client, which go to the current engine.                 *)

\* Mutant: the phone's engine is current only if the active device is the phone.
Mut_GetCurrentImpl == wakeupImpl

GetCurrentImpl == IF cur.process = "WISPHER_PHONE" THEN "default" ELSE wakeupImpl

\* Mutant: the headset's audio goes on.
Mut_SessionStopped(o) == [o EXCEPT !.adapter = IF @ = "started" THEN "attached" ELSE @]

\* StopAudioSource and EngineUtil::Stop
SessionStopped(o) ==
  [o EXCEPT !.reading = FALSE, !.adapter = IF @ = "started" THEN "attached" ELSE @]

OtherEnds ==
  OtherTo("INITIALIZED", SessionStopped(other).adapter, SessionStopped(other).reading)

\* STOP_RECOGNIZE and STOP_CAPTURER
Stop(state) ==
  /\ \/ GetCurrentImpl = "default" /\ phone.state = state /\ PhoneTo("INITIALIZED")
     \/ GetCurrentImpl = "other" /\ other.state = state /\ OtherEnds
  /\ UNCHANGED <<manager, front, closing>>

StartCapturer ==
  /\ \/ /\ GetCurrentImpl = "default" /\ phone.state = "RECOGNIZED"
        /\ PhoneTo("READ_CAPTURER")
     \/ /\ GetCurrentImpl = "other" /\ other.state = "RECOGNIZED"
        /\ OtherTo("READ_CAPTURER", other.adapter, other.reading)
  /\ UNCHANGED <<manager, front, closing>>

-----------------------------------------------------------------------------
(* Task and timer threads of the engines.                                  *)

\* Only the phone and the headset wait for their HDI; a failure changes nothing.
OnInitDone ==
  /\ \/ phone.state = "INITIALIZING" /\ PhoneTo("INITIALIZED")
     \/ other.state = "INITIALIZING" /\ OtherTo("INITIALIZED", other.adapter, FALSE)
  /\ UNCHANGED <<manager, front, closing>>

OnWakeupRecognition ==
  /\ \/ phone.state = "RECOGNIZING" /\ (PhoneTo("RECOGNIZED") \/ PhoneTo("INITIALIZED"))
     \/ /\ other.state = "RECOGNIZING"
        /\ OtherTo("RECOGNIZED", SessionStopped(other).adapter, TRUE) \/ OtherEnds
  /\ UNCHANGED <<manager, front, closing>>

\* A read thread has come to the end of its stream, or the phone's capturer delivers
\* nothing more, and the queue is empty, or nobody calls READ: HandleRead does not get
\* to ResetTimerDelay again.
AudioEnds(impl) ==
  /\ \/ impl = "default" /\ phone.state = "READ_CAPTURER"
     \/ impl = "other" /\ other.state = "READ_CAPTURER"
  /\ dry' = dry \cup {impl}
  /\ UNCHANGED <<manager, front, cur, phone, other, closing, history>>

PhoneTimeout ==
  /\ phone.state \in Session /\ PhoneTo("INITIALIZED")
  /\ UNCHANGED <<manager, front, closing>>

\* Mutant: reading has no timeout.
Mut_OtherTimeout ==
  /\ other.state \in Session \ {"READ_CAPTURER"} /\ OtherEnds
  /\ UNCHANGED <<manager, front, closing>>

OtherTimeout ==
  /\ other.state \in Session /\ OtherEnds
  /\ UNCHANGED <<manager, front, closing>>

Detection ==
  OnWispherDetected \/ \E mac \in Macs \cup {"PHONE"} : OnWakeupDetected(mac)

DeviceChange ==
  \/ \E mac \in Macs, kind \in Devices : RegisterDevice(mac, kind)
  \/ \E mac \in Macs \cup {"PHONE"} : DeregisterDevice(mac) \/ UpdateAudioDevice(mac)
  \/ \E kind \in Devices : RemoveByServiceName(kind)
  \/ NotifyCallbacksIfChanged
  \/ \E k \in DOMAIN deliveries : UpdateWakeupEngineImpl(k)

EngineStep ==
  \/ CreateEngine \/ ReleaseEngine \/ Release \/ ResetAdapter
  \/ \E cb \in Callbacks \cup {"none"} : SaveCallback(cb)
  \/ \E state \in {"RECOGNIZING", "READ_CAPTURER"} : Stop(state)
  \/ StartCapturer \/ OnInitDone \/ OnWakeupRecognition \/ PhoneTimeout \/ OtherTimeout
  \/ \E impl \in {"default", "other"} : AudioEnds(impl)

Next == Detection \/ DeviceChange \/ EngineStep

\* The timer threads run.  Every read that returns data resets the timer of
\* READ_CAPTURER, so nothing is owed to that timeout before the audio has ended, and
\* nothing makes the audio end.
Fairness ==
  /\ WF_vars(PhoneTimeout /\ (phone.state = "READ_CAPTURER" => "default" \in dry))
  /\ WF_vars(OtherTimeout /\ (other.state = "READ_CAPTURER" => "other" \in dry))

Spec == Init /\ [][Next]_vars /\ Fairness

-----------------------------------------------------------------------------
(* Properties.                                                             *)

\* Every variable of the facade and of the device manager has its type.
TypeOK ==
  /\ devices \in Seq(Device) /\ audioMac \in Macs \cup {"PHONE"} /\ active \in Device
  /\ changes \in 0 .. MaxChanges /\ refreshes \in 0 .. MaxChanges
  /\ deliveries \in Seq([to : 1 .. MaxEngines, device : Device])
  /\ engineNo \in 0 .. MaxEngines /\ facade \in {0, engineNo} /\ device \in Device
  /\ wakeupImpl \in {"null", "default", "other"} /\ callback \in Callbacks \cup {"none"}
  /\ cur \in [state : {"IDLE"} \cup Session, process : Processes]
  /\ phone \in [state : States, type : Processes, typeSet : BOOLEAN,
                callback : Callbacks \cup {"none"}]
  /\ other \in [kind : Kinds \cup {"none"}, state : States,
                adapter : {"none", "attached", "started"}, reading : BOOLEAN,
                callback : Callbacks \cup {"none"}]
  /\ (other.kind # "none") = (wakeupImpl = "other")
  /\ dry \subseteq {"default", "other"}
  /\ closing \in BOOLEAN /\ strayed \in BOOLEAN /\ misled \in BOOLEAN

\* The phone and another device are never in a session at the same time, although
\* each engine only knows its own state (unless an unset processType_ misled the
\* facade).
OneSession == ~misled => ~(phone.state \in Session /\ other.state \in Session)

\* curState_ and curProcess_ are those of the engine in session, and idle when there
\* is none, through timeouts, device changes, releases and resets.
FacadeInStep ==
  ~misled =>
    /\ phone.state \in Session => cur = [state |-> phone.state, process |-> phone.type]
    /\ other.state \in Session => cur = [state |-> other.state, process |-> TypeOf(other.kind)]
    /\ phone.state \notin Session /\ other.state \notin Session => cur = NoCur

\* While an engine is in session the client's commands reach that engine, unless
\* the active device changed during a wake-up session of the phone.
CommandsReachSession ==
  /\ phone.state \in Session /\ ~strayed /\ ~misled => GetCurrentImpl = "default"
  /\ other.state \in Session /\ ~misled => GetCurrentImpl = "other"

\* Whichever engine is created or replaced when, it has the callback the client
\* saved last: SaveCallback and CreateEngineImpl share the work.
CallbackCarriedOver ==
  facade # 0 => /\ phone.callback = callback
                /\ other.kind # "none" => other.callback = callback

\* The read thread and the adapter of a headset or of glasses follow its state:
\* nothing reads or recognises outside a session.
OtherInStep ==
  /\ other.reading <=> \/ other.state \in {"RECOGNIZED", "READ_CAPTURER"}
                       \/ other.kind = "HEADSET" /\ other.state = "RECOGNIZING"
  /\ other.adapter = IF other.kind # "HEADSET" \/ other.state = "IDLE" THEN "none"
                     ELSE IF other.state = "RECOGNIZING" THEN "started" ELSE "attached"

\* Once every refresh has run, the active device is the one that plays the audio if
\* it is registered, else the one registered last.
ActiveDeviceChosen ==
  refreshes = 0 =>
    IF devices = <<>> THEN active = DefaultDevice
    ELSE /\ active \in Range(devices)
         /\ \/ active.mac = audioMac
            \/ \A d \in Range(devices) : d.mac # audioMac /\ d.no <= active.no

\* A detection by the phone starts its engine or has the wake-up source closed, so
\* that detection can begin again.
DetectionAnswered ==
  [][OnWispherDetected \/ OnWakeupDetected("PHONE") =>
       closing' \/ (phone.state \notin Session /\ phone'.state \in Session)]_vars

\* The engine a process runs on.
EngineOf(process) ==
  IF process \in {"WAKEUP_PHONE", "WISPHER_PHONE"} THEN "default" ELSE "other"

\* A process comes to an end by its timeouts, whatever the devices do and whether or not
\* the client ever calls, or gets to READ_CAPTURER with a client that still gets audio,
\* each read of which puts the timeout off.
ProcessEnds ==
  cur.process # "IDLE" ~>
    \/ cur.process = "IDLE"
    \/ cur.state = "READ_CAPTURER" /\ EngineOf(cur.process) \notin dry

\* Once every refresh has run and told the facade, the facade works with the active
\* device.
FacadeFollowsDevice ==
  facade # 0 /\ refreshes = 0 /\ deliveries = <<>> => device.mac = active.mac
=============================================================================
