------------------------- MODULE WakeupFacadeProofs --------------------------
(***************************************************************************)
(* For any number of devices, callbacks, changes and engines: one session  *)
(* at a time, a facade in step with its engines, commands that reach the   *)
(* session, a callback that no replacement of an engine loses.             *)
(***************************************************************************)
EXTENDS WakeupFacade, TLAPS

Phones  == [state : States, type : Processes, typeSet : BOOLEAN,
            callback : Callbacks \cup {"none"}]
Others  == [kind : Kinds \cup {"none"}, state : States,
            adapter : {"none", "attached", "started"}, reading : BOOLEAN,
            callback : Callbacks \cup {"none"}]
Courses == [state : {"IDLE"} \cup Session, process : Processes]

Types ==
  /\ phone \in Phones /\ other \in Others /\ cur \in Courses
  /\ wakeupImpl \in {"null", "default", "other"} /\ callback \in Callbacks \cup {"none"}
  /\ strayed \in BOOLEAN /\ misled \in BOOLEAN /\ engineNo \in Nat

\* An engine in session has said whose process it is, and the phone's wake-up process
\* runs while the phone is the facade's engine.
Told ==
  /\ phone.state \in Session => phone.typeSet
  /\ phone.typeSet => phone.type \in {"WAKEUP_PHONE", "WISPHER_PHONE"}
  /\ phone.state \in Session /\ ~strayed /\ phone.type = "WAKEUP_PHONE"
       => wakeupImpl = "default"

\* There is another engine exactly while the facade points to it.
Pointed ==
  /\ (other.kind # "none") <=> (wakeupImpl = "other")
  /\ other.kind = "none" => other.state = "IDLE"
  /\ facade = 0 => /\ callback = "none" /\ wakeupImpl = "null"
                   /\ phone = NoPhone /\ other = NoOther /\ cur = NoCur

Inv ==
  /\ Types /\ Told /\ Pointed
  /\ OneSession /\ FacadeInStep /\ CallbackCarriedOver /\ OtherInStep

\* Inv speaks of these variables only.
seen == <<engineNo, facade, wakeupImpl, callback, cur, phone, other, history>>

-----------------------------------------------------------------------------
\* OnStateChange case by case: nothing for no type, enter, leave, go on.
LEMMA Changes ==
  ASSUME NEW c \in Courses, NEW next \in States, NEW type \in Processes
  PROVE  /\ OnStateChange(c, next, type) \in Courses
         /\ type = "IDLE" => OnStateChange(c, next, type) = c
         /\ c.state \notin Session /\ next \notin Session =>
              OnStateChange(c, next, type) = c
         /\ type # "IDLE" /\ (c.state \in Session => c.process = type) /\ next \in Session =>
              OnStateChange(c, next, type) = [state |-> next, process |-> type]
         /\ type # "IDLE" /\ c.state \in Session /\ c.process = type /\ next \notin Session =>
              OnStateChange(c, next, type) = NoCur
         /\ c.state \in Session /\ c.process # type => OnStateChange(c, next, type) = c
BY DEF Courses, OnStateChange, NoCur, Processes

\* What a state change of the phone's engine does to the facade's view.
LEMMA PhoneStep ==
  ASSUME Inv, NEW next \in States, next \in Session => phone.state \in Session,
         PhoneTo(next), UNCHANGED <<engineNo, facade, wakeupImpl, callback>>, facade # 0
  PROVE  Inv'
<1> USE DEF Inv, PhoneTo, history
<1>1. Types'
  <2>1. phone' \in Phones /\ other' \in Others
    BY DEF Types, Phones
  <2>2. phone.type \in Processes
    BY DEF Types, Phones
  <2>3. cur' \in Courses
    BY <2>2, Changes DEF Types, PhoneMoves
  <2>4. strayed' \in BOOLEAN /\ misled' \in BOOLEAN
    BY DEF Misleading
  <2> QED
    BY <2>1, <2>3, <2>4 DEF Types
<1>2. Told'
  BY DEF Types, Phones, Told
<1>3. Pointed'
  BY DEF Types, Others, Pointed
<1>4. OneSession'
  BY DEF Types, Phones, OneSession
<1>5. FacadeInStep'
  <2> SUFFICES ASSUME ~misled'
               PROVE  /\ next \in Session => cur' = [state |-> next, process |-> phone.type]
                      /\ other.state \in Session => cur' = [state |-> other.state,
                                                            process |-> TypeOf(other.kind)]
                      /\ next \notin Session /\ other.state \notin Session => cur' = NoCur
    BY DEF FacadeInStep, Types, Phones
  <2>1. ~misled /\ ~Misleading(cur, next)
    OBVIOUS
  <2>2. cur \in Courses /\ phone.type \in Processes /\ phone.state \in States
    BY DEF Types, Phones
  <2>3. CASE phone.state \in Session
    <3>1. other.state \notin Session /\ cur = [state |-> phone.state, process |-> phone.type]
      BY <2>1, <2>3 DEF OneSession, FacadeInStep
    <3>2. phone.type # "IDLE"
      BY <2>3 DEF Told
    <3>3. next # phone.state => cur' = OnStateChange(cur, next, phone.type)
      BY DEF PhoneMoves
    <3>4. next = phone.state => cur' = cur
      BY DEF PhoneMoves
    <3> QED
      BY <2>2, <2>3, <3>1, <3>2, <3>3, <3>4, Changes
  <2>4. CASE phone.state \notin Session
    <3>1. cur' = cur
      <4>1. CASE ~phone.typeSet
        BY <2>1, <4>1 DEF Misleading
      <4>2. CASE phone.typeSet
        <5>1. cur.state \in Session => cur.process # phone.type
          BY <2>1, <2>4, <4>2 DEF FacadeInStep, Told, TypeOf, NoCur, Session
        <5> QED
          BY <2>2, <2>4, <5>1, Changes DEF PhoneMoves
      <4> QED
        BY <4>1, <4>2
    <3> QED
      BY <2>1, <2>4, <3>1 DEF FacadeInStep
  <2> QED
    BY <2>3, <2>4
<1>6. CallbackCarriedOver' /\ OtherInStep'
  BY DEF Types, Phones, CallbackCarriedOver, OtherInStep
<1> QED
  BY <1>1, <1>2, <1>3, <1>4, <1>5, <1>6

\* What a state change of a headset's or glasses' engine does to the facade's view,
\* when the facade lets no session begin during another.
LEMMA OtherStep ==
  ASSUME Inv, other.kind # "none", facade # 0, NEW next \in States,
         NEW adapter \in {"none", "attached", "started"}, NEW reading \in BOOLEAN,
         next \in Session => other.state \in Session \/ cur.state \notin Session,
         reading <=> \/ next \in {"RECOGNIZED", "READ_CAPTURER"}
                     \/ other.kind = "HEADSET" /\ next = "RECOGNIZING",
         adapter = IF other.kind # "HEADSET" \/ next = "IDLE" THEN "none"
                   ELSE IF next = "RECOGNIZING" THEN "started" ELSE "attached",
         OtherTo(next, adapter, reading), UNCHANGED <<engineNo, facade, wakeupImpl, callback>>
  PROVE  Inv'
<1> USE DEF Inv, OtherTo, history
<1>0. /\ other'.state = next /\ other'.kind = other.kind /\ other'.callback = other.callback
      /\ other'.adapter = adapter /\ other'.reading = reading /\ other' \in Others
  BY DEF Types, Others
<1>a. /\ cur \in Courses /\ TypeOf(other.kind) \in Processes /\ other.state \in States
      /\ TypeOf(other.kind) \notin {"IDLE", "WAKEUP_PHONE", "WISPHER_PHONE"}
  BY DEF Types, Others, TypeOf, Processes
<1>b. /\ next # other.state => cur' = OnStateChange(cur, next, TypeOf(other.kind))
      /\ next = other.state => cur' = cur
  BY DEF OtherMoves
<1>1. Types'
  <2>1. cur' \in Courses
    BY <1>a, <1>b, Changes
  <2> QED
    BY <2>1, <1>0 DEF Types
<1>2. Told' /\ Pointed'
  BY <1>0 DEF Told, Pointed
<1>3. ~misled => (phone.state \in Session => next \notin Session)
  BY DEF OneSession, FacadeInStep
<1>4. OneSession'
  BY <1>0, <1>3 DEF OneSession
<1>5. FacadeInStep'
  <2> SUFFICES ASSUME ~misled
               PROVE  /\ phone.state \in Session =>
                           cur' = [state |-> phone.state, process |-> phone.type]
                      /\ next \in Session => cur' = [state |-> next,
                                                      process |-> TypeOf(other.kind)]
                      /\ phone.state \notin Session /\ next \notin Session => cur' = NoCur
    BY <1>0 DEF FacadeInStep
  <2>1. CASE phone.state \in Session
    <3>1. next \notin Session /\ cur = [state |-> phone.state, process |-> phone.type]
      BY <1>3, <2>1 DEF FacadeInStep
    <3>2. cur.process # TypeOf(other.kind) /\ cur.state \in Session
      BY <3>1, <1>a, <2>1 DEF Told
    <3> QED
      BY <3>1, <3>2, <2>1, <1>a, <1>b, Changes
  <2>2. CASE phone.state \notin Session /\ other.state \in Session
    <3>1. cur = [state |-> other.state, process |-> TypeOf(other.kind)]
      BY <2>2 DEF FacadeInStep
    <3> QED
      BY <3>1, <2>2, <1>a, <1>b, Changes
  <2>3. CASE phone.state \notin Session /\ other.state \notin Session
    <3>1. cur = NoCur
      BY <2>3 DEF FacadeInStep
    <3>2. cur.state \notin Session
      BY <3>1 DEF NoCur, Session
    <3> QED
      BY <3>1, <3>2, <2>3, <1>a, <1>b, Changes
  <2> QED
    BY <2>1, <2>2, <2>3
<1>6. CallbackCarriedOver' /\ OtherInStep'
  BY <1>0 DEF CallbackCarriedOver, OtherInStep
<1> QED
  BY <1>1, <1>2, <1>4, <1>5, <1>6

\* An engine outside a session that stays outside does not change the facade's view.
LEMMA QuietEngines ==
  ASSUME Inv, ~misled, NEW next \in States, next \notin Session
  PROVE  /\ phone.state \notin Session /\ ~Misleading(cur, next) => PhoneMoves(cur, next) = cur
         /\ other.state \notin Session => OtherMoves(cur, next) = cur
<1> USE DEF Inv
<1>1. cur \in Courses /\ phone.type \in Processes /\ TypeOf(other.kind) \in Processes
  BY DEF Types, Phones, TypeOf, Processes
<1>2. ASSUME phone.state \notin Session, ~Misleading(cur, next)
      PROVE  PhoneMoves(cur, next) = cur
  <2>1. CASE ~phone.typeSet
    BY <1>2, <2>1 DEF Misleading
  <2>2. CASE phone.typeSet
    <3>1. cur.state \in Session => cur.process # phone.type
      BY <1>2, <2>2 DEF FacadeInStep, Told, TypeOf, NoCur, Session
    <3> QED
      BY <1>1, <3>1, Changes DEF PhoneMoves
  <2> QED
    BY <2>1, <2>2
<1>3. ASSUME other.state \notin Session
      PROVE  OtherMoves(cur, next) = cur
  <2>1. cur.state \in Session => cur.process # TypeOf(other.kind)
    BY <1>3 DEF FacadeInStep, Told, TypeOf, NoCur, Session
  <2> QED
    BY <1>1, <2>1, Changes DEF OtherMoves
<1> QED
  BY <1>2, <1>3

\* The facade's view keeps its type.
LEMMA ViewTyped ==
  ASSUME Inv, NEW c \in Courses, NEW next \in States
  PROVE  PhoneMoves(c, next) \in Courses /\ OtherMoves(c, next) \in Courses
<1>1. phone.type \in Processes /\ TypeOf(other.kind) \in Processes
  BY DEF Inv, Types, Phones, TypeOf, Processes
<1> QED
  BY <1>1, Changes DEF PhoneMoves, OtherMoves

\* CreateEngineImpl leaves an engine outside a session, with the callback it was given.
LEMMA Created ==
  ASSUME NEW d, NEW cb \in Callbacks \cup {"none"}, CreateEngineImpl(d, cb)
  PROVE  /\ wakeupImpl' \in {"null", "default", "other"} /\ other' \in Others
         /\ (other'.kind # "none") <=> (wakeupImpl' = "other")
         /\ other'.kind = "none" => other'.state = "IDLE"
         /\ other'.state \notin Session /\ OtherInStep'
         /\ other'.kind # "none" => other'.callback = cb
<1> USE DEF Others, States, Session, Kinds, OtherInStep
<1>1. CASE wakeupImpl' \in {"default", "null"} /\ other' = NoOther
  BY <1>1 DEF NoOther
<1>2. CASE /\ wakeupImpl' = "other"
           /\ other' = [kind |-> "HEADSET", state |-> "INITIALIZING", adapter |-> "attached",
                        reading |-> FALSE, callback |-> cb]
  BY <1>2
<1>3. CASE /\ wakeupImpl' = "other"
           /\ other' = [kind |-> "AI_GLASSES", state |-> "INITIALIZED", adapter |-> "none",
                        reading |-> FALSE, callback |-> cb]
  BY <1>3
<1> QED
  BY <1>1, <1>2, <1>3 DEF CreateEngineImpl

LEMMA StepCreate ==
  ASSUME Inv, CreateEngine
  PROVE  Inv'
<1> USE DEF Inv, CreateEngine, history
<1>1. PICK type \in UnsetTypes :
        phone' = [state |-> "INITIALIZING", type |-> type, typeSet |-> FALSE, callback |-> "none"]
  OBVIOUS
<1>2. /\ phone' \in Phones /\ phone'.state \notin Session /\ ~phone'.typeSet
      /\ phone'.callback = "none"
  BY <1>1 DEF Phones, UnsetTypes, States, Session, Processes
<1>3. /\ wakeupImpl' \in {"null", "default", "other"} /\ other' \in Others
      /\ (other'.kind # "none") <=> (wakeupImpl' = "other")
      /\ other'.kind = "none" => other'.state = "IDLE"
      /\ other'.state \notin Session /\ OtherInStep'
      /\ other'.kind # "none" => other'.callback = "none"
  BY Created
<1>4. callback' = "none" /\ cur' = NoCur /\ cur' \in Courses
  BY DEF Pointed, Types
<1>5. facade' # 0 /\ engineNo' \in Nat
  BY DEF Types
<1> QED
  BY <1>2, <1>3, <1>4, <1>5 DEF Types, Told, Pointed, OneSession, FacadeInStep, CallbackCarriedOver

LEMMA StepReleaseEngine ==
  ASSUME Inv, ReleaseEngine
  PROVE  Inv'
<1> USE DEF Inv, ReleaseEngine
<1>1. phone' \in Phones /\ other' \in Others /\ cur' \in Courses
  BY DEF NoPhone, NoOther, NoCur, Phones, Others, Courses, States, Processes
<1>2. /\ phone'.state \notin Session /\ ~phone'.typeSet
      /\ other'.kind = "none" /\ other'.state = "IDLE" /\ other'.state \notin Session
      /\ ~other'.reading /\ other'.adapter = "none"
  BY DEF NoPhone, NoOther, Session
<1>3. engineNo' \in Nat
  BY DEF Types
<1> QED
  BY <1>1, <1>2, <1>3 DEF Types, Told, Pointed, OneSession, FacadeInStep, CallbackCarriedOver, OtherInStep

LEMMA StepSaveCallback ==
  ASSUME Inv, NEW cb \in Callbacks \cup {"none"}, SaveCallback(cb)
  PROVE  Inv'
<1> USE DEF Inv, SaveCallback, history
<1>1. /\ phone' \in Phones /\ phone'.callback = cb /\ phone'.state = phone.state
      /\ phone'.type = phone.type /\ phone'.typeSet = phone.typeSet
  BY DEF Types, Phones
<1>2. /\ other' \in Others /\ (other.kind # "none" => other'.callback = cb)
      /\ other'.kind = other.kind /\ other'.state = other.state
      /\ other'.reading = other.reading /\ other'.adapter = other.adapter
  BY DEF Types, Others, Pointed
<1> QED
  BY <1>1, <1>2 DEF Types, Told, Pointed, OneSession, FacadeInStep, CallbackCarriedOver, OtherInStep

LEMMA StepUpdate ==
  ASSUME Inv, NEW k, UpdateWakeupEngineImpl(k)
  PROVE  Inv'
<1> USE DEF Inv, UpdateWakeupEngineImpl
<1>1. CASE facade = 0 \/ deliveries[k].to # facade
  BY <1>1 DEF Types, Told, Pointed, OneSession, FacadeInStep, CallbackCarriedOver, OtherInStep
<1>2. CASE ~(facade = 0 \/ deliveries[k].to # facade)
  <2>0. /\ CreateEngineImpl(device', callback) /\ cur' = OtherMoves(cur, "IDLE")
        /\ strayed' = \/ strayed
                      \/ phone.state \in Session /\ phone.type # "WISPHER_PHONE"
    BY <1>2
  <2>1. /\ wakeupImpl' \in {"null", "default", "other"} /\ other' \in Others
        /\ (other'.kind # "none") <=> (wakeupImpl' = "other")
        /\ other'.kind = "none" => other'.state = "IDLE"
        /\ other'.state \notin Session /\ OtherInStep'
        /\ other'.kind # "none" => other'.callback = callback
    BY <2>0, Created DEF Types
  <2>2. cur' \in Courses
    BY <2>0, ViewTyped DEF Types, States
  <2>3. /\ phone.state \in Session /\ phone.type = "WAKEUP_PHONE" => strayed'
        /\ strayed' \in BOOLEAN
    BY <2>0 DEF Types
  <2>4. FacadeInStep'
    <3> SUFFICES ASSUME ~misled
                 PROVE  /\ phone.state \in Session =>
                             cur' = [state |-> phone.state, process |-> phone.type]
                        /\ phone.state \notin Session => cur' = NoCur
      BY <2>1 DEF FacadeInStep
    <3>1. CASE other.state \in Session
      <4>1. phone.state \notin Session /\ cur = [state |-> other.state, process |-> TypeOf(other.kind)]
        BY <3>1 DEF OneSession, FacadeInStep
      <4>2. /\ cur \in Courses /\ TypeOf(other.kind) \in Processes /\ TypeOf(other.kind) # "IDLE"
            /\ "IDLE" \in States /\ "IDLE" \notin Session
        BY DEF Types, TypeOf, Processes, States, Session
      <4>3. cur' = NoCur
        BY <2>0, <3>1, <4>1, <4>2, Changes DEF OtherMoves
      <4> QED
        BY <4>1, <4>3
    <3>2. CASE other.state \notin Session
      <4>1. cur' = cur
        BY <2>0, <3>2, QuietEngines DEF States, Session
      <4> QED
        BY <3>2, <4>1 DEF FacadeInStep
    <3> QED
      BY <3>1, <3>2
  <2> QED
    BY <1>2, <2>1, <2>2, <2>3, <2>4 DEF Types, Told, Pointed, OneSession, CallbackCarriedOver
<1> QED
  BY <1>1, <1>2

LEMMA StepRelease ==
  ASSUME Inv, Release
  PROVE  Inv'
<1> USE DEF Inv, Release, front
<1> DEFINE c == PhoneMoves(cur, "IDLE")
<1>0. "IDLE" \in States /\ "IDLE" \notin Session
  BY DEF States, Session
<1>1. /\ phone' \in Phones /\ phone'.state = "IDLE" /\ phone'.type = phone.type
      /\ phone'.typeSet = phone.typeSet /\ phone'.callback = phone.callback
  BY <1>0 DEF Types, Phones
<1>2. /\ other' \in Others /\ other'.state = "IDLE" /\ other'.kind = other.kind
      /\ other'.adapter = "none" /\ ~other'.reading /\ other'.callback = other.callback
  BY <1>0 DEF Types, Others, Released
<1>3. c \in Courses /\ cur' \in Courses
  BY <1>0, ViewTyped DEF Types
<1>4. strayed' \in BOOLEAN /\ misled' \in BOOLEAN
  BY DEF Misleading
<1>5. ~misled' => cur' = NoCur
  <2> SUFFICES ASSUME ~misled' PROVE cur' = NoCur
    OBVIOUS
  <2>0. ~misled /\ ~Misleading(cur, "IDLE")
    OBVIOUS
  <2>1. /\ cur \in Courses /\ phone.type \in Processes /\ TypeOf(other.kind) \in Processes
        /\ TypeOf(other.kind) # "IDLE" /\ NoCur \in Courses /\ NoCur.state \notin Session
    BY DEF Types, Phones, TypeOf, Processes, NoCur, Courses, Session
  <2>2. CASE phone.state \in Session
    <3>1. cur = [state |-> phone.state, process |-> phone.type] /\ phone.type # "IDLE"
      BY <2>0, <2>2 DEF FacadeInStep, Told
    <3>2. c = NoCur
      BY <1>0, <2>1, <2>2, <3>1, Changes DEF PhoneMoves
    <3> QED
      BY <1>0, <2>1, <3>2, Changes DEF OtherMoves
  <2>3. CASE phone.state \notin Session /\ other.state \in Session
    <3>1. c = cur /\ cur = [state |-> other.state, process |-> TypeOf(other.kind)]
      BY <1>0, <2>0, <2>3, QuietEngines DEF FacadeInStep
    <3> QED
      BY <1>0, <2>1, <2>3, <3>1, Changes DEF OtherMoves
  <2>4. CASE phone.state \notin Session /\ other.state \notin Session
    <3>1. c = cur /\ cur = NoCur /\ OtherMoves(cur, "IDLE") = cur
      BY <1>0, <2>0, <2>4, QuietEngines DEF FacadeInStep
    <3> QED
      BY <3>1
  <2> QED
    BY <2>2, <2>3, <2>4
<1>6. facade' # 0
  OBVIOUS
<1> QED
  BY <1>0, <1>1, <1>2, <1>3, <1>4, <1>5, <1>6
  DEF Types, Told, Pointed, OneSession, FacadeInStep, CallbackCarriedOver, OtherInStep

LEMMA StepReset ==
  ASSUME Inv, ResetAdapter
  PROVE  Inv'
<1> USE DEF Inv, ResetAdapter, front
<1>1. /\ phone' \in Phones /\ phone'.type = phone.type
      /\ phone'.typeSet = phone.typeSet /\ phone'.callback = phone.callback
      /\ \/ phone'.state = phone.state
         \/ phone.state \notin Session /\ phone'.state \notin Session
  BY DEF Types, Phones, States, Session
<1>2. /\ other' \in Others /\ other'.kind = other.kind /\ other'.callback = other.callback
      /\ \/ other' = other
         \/ /\ other.state \notin Session /\ other'.state \notin Session
            /\ other.kind # "none" /\ OtherInStep'
  BY DEF Types, Others, Reset, States, Session, Kinds, OtherInStep
<1>3. phone'.state \in States /\ other'.state \in States
  BY <1>1, <1>2 DEF Phones, Others
<1>4. cur' \in Courses
  BY <1>3, ViewTyped DEF Types
<1>5. misled' \in BOOLEAN
  BY DEF Misleading
<1>6. ~misled' => cur' = cur
  <2> SUFFICES ASSUME ~misled' PROVE cur' = cur
    OBVIOUS
  <2>0. ~misled /\ ~Misleading(cur, phone'.state)
    OBVIOUS
  <2>1. PhoneMoves(cur, phone'.state) = cur
    BY <1>1, <1>3, <2>0, QuietEngines DEF PhoneMoves
  <2>2. OtherMoves(cur, other'.state) = cur
    BY <1>2, <1>3, <2>0, QuietEngines DEF OtherMoves
  <2> QED
    BY <2>1, <2>2
<1>7. OtherInStep'
  BY <1>2 DEF OtherInStep
<1>8. misled => misled'
  OBVIOUS
<1> QED
  BY <1>1, <1>2, <1>4, <1>5, <1>6, <1>7, <1>8
  DEF Types, Told, Pointed, OneSession, FacadeInStep, CallbackCarriedOver

\* An engine in a state other than IDLE exists, and so does the facade.
LEMMA Exists ==
  ASSUME Inv
  PROVE  /\ phone.state # "IDLE" => facade # 0
         /\ other.state # "IDLE" => facade # 0 /\ other.kind # "none"
BY DEF Inv, Pointed, NoPhone, NoOther

LEMMA StepPhoneStarts ==
  ASSUME Inv, facade # 0, ProcessCheck, NEW type \in {"WAKEUP_PHONE", "WISPHER_PHONE"},
         type = "WAKEUP_PHONE" => wakeupImpl = "default",
         PhoneStarts(type), UNCHANGED front
  PROVE  Inv'
<1> USE DEF Inv, ProcessCheck, front, history
<1>0. type \in Processes /\ type # "IDLE" /\ "RECOGNIZING" \in States /\ "RECOGNIZING" \in Session
  BY DEF Processes, States, Session
<1>1. ~misled => phone.state \notin Session /\ other.state \notin Session
  BY DEF FacadeInStep
<1>2. UNCHANGED <<other, strayed, misled>>
  BY DEF PhoneStarts
<1>3. CASE /\ phone' = [phone EXCEPT !.type = type, !.typeSet = TRUE, !.state = "RECOGNIZING"]
           /\ cur' = OnStateChange(cur, "RECOGNIZING", type)
  <2>1. /\ phone' \in Phones /\ phone'.type = type /\ phone'.typeSet
        /\ phone'.callback = phone.callback /\ phone'.state = "RECOGNIZING"
    BY <1>0, <1>3 DEF Types, Phones
  <2>2. cur' = [state |-> "RECOGNIZING", process |-> type] /\ cur' \in Courses
    BY <1>0, <1>3, Changes DEF Types
  <2> QED
    BY <1>0, <1>1, <1>2, <2>1, <2>2
    DEF Types, Told, Pointed, OneSession, FacadeInStep, CallbackCarriedOver, OtherInStep
<1>4. CASE phone' = [phone EXCEPT !.type = type, !.typeSet = TRUE] /\ UNCHANGED cur
  <2>1. /\ phone' \in Phones /\ phone'.type = type /\ phone'.typeSet
        /\ phone'.callback = phone.callback /\ phone'.state = phone.state
    BY <1>0, <1>4 DEF Types, Phones
  <2> QED
    BY <1>1, <1>2, <1>4, <2>1
    DEF Types, Told, Pointed, OneSession, FacadeInStep, CallbackCarriedOver, OtherInStep
<1> QED
  BY <1>3, <1>4 DEF PhoneStarts

\* Inv is about seen.
LEMMA Unseen ==
  ASSUME Inv, UNCHANGED seen
  PROVE  Inv'
BY DEF Inv, seen, history, Types, Told, Pointed, OneSession, FacadeInStep, CallbackCarriedOver, OtherInStep

LEMMA StepOtherStarts ==
  ASSUME Inv, facade # 0, ProcessCheck, wakeupImpl = "other", OtherStarts, UNCHANGED front
  PROVE  Inv'
<1> USE DEF ProcessCheck, front
<1>0. /\ other.kind # "none" /\ {"RECOGNIZING", "RECOGNIZED"} \subseteq States
      /\ TRUE \in BOOLEAN /\ FALSE \in BOOLEAN
  BY DEF Inv, Pointed, States, Session
<1>1. CASE other.kind = "HEADSET" /\ OtherTo("RECOGNIZING", "started", TRUE)
  BY <1>0, <1>1, OtherStep
<1>2. CASE other.kind = "AI_GLASSES" /\ OtherTo("RECOGNIZING", "none", FALSE)
  BY <1>0, <1>2, OtherStep
<1>3. CASE other.kind = "AI_GLASSES" /\ OtherTo("RECOGNIZED", "none", TRUE)
  BY <1>0, <1>3, OtherStep
<1>4. CASE UNCHANGED <<other, cur, phone, history>>
  BY <1>4, Unseen DEF seen
<1> QED
  BY <1>1, <1>2, <1>3, <1>4 DEF OtherStarts, HeadsetStart, GlassesStart

LEMMA StepDetection ==
  ASSUME Inv, Detection
  PROVE  Inv'
<1>1. ASSUME OnWispherDetected PROVE Inv'
  <2>1. CASE ProcessCheck
    BY <1>1, <2>1, StepPhoneStarts DEF OnWispherDetected
  <2>2. CASE ~ProcessCheck
    BY <1>1, <2>2, Unseen DEF OnWispherDetected, Refuse, seen, front
  <2> QED
    BY <2>1, <2>2
<1>2. ASSUME NEW mac, OnWakeupDetected(mac) PROVE Inv'
  <2>1. CASE ~ProcessCheck \/ mac # device.mac
    BY <1>2, <2>1, Unseen DEF OnWakeupDetected, Refuse, seen, front
  <2>2. CASE ProcessCheck /\ wakeupImpl = "default" /\ PhoneStarts("WAKEUP_PHONE")
    BY <1>2, <2>2, StepPhoneStarts DEF OnWakeupDetected
  <2>3. CASE ProcessCheck /\ wakeupImpl = "other" /\ OtherStarts
    BY <1>2, <2>3, StepOtherStarts DEF OnWakeupDetected
  <2>4. CASE UNCHANGED <<phone, other, cur, history>>
    BY <1>2, <2>4, Unseen DEF OnWakeupDetected, seen, front
  <2> QED
    BY <1>2, <2>1, <2>2, <2>3, <2>4 DEF OnWakeupDetected
<1> QED
  BY <1>1, <1>2 DEF Detection

\* A session of a headset or of glasses ends.
LEMMA OtherEnded ==
  ASSUME Inv, other.state \in Session, OtherEnds, UNCHANGED front
  PROVE  Inv'
<1>1. facade # 0 /\ other.kind # "none"
  BY Exists DEF Session
<1>2. /\ SessionStopped(other).reading = FALSE
      /\ SessionStopped(other).adapter = IF other.kind # "HEADSET" THEN "none" ELSE "attached"
  BY DEF Inv, Types, Others, OtherInStep, SessionStopped, Session
<1>3. "INITIALIZED" \in States /\ "INITIALIZED" \notin Session
  BY DEF States, Session
<1> QED
  BY <1>1, <1>2, <1>3, OtherStep DEF OtherEnds, front

LEMMA StepEngines ==
  ASSUME Inv, \/ \E state \in {"RECOGNIZING", "READ_CAPTURER"} : Stop(state)
              \/ StartCapturer \/ OnInitDone \/ OnWakeupRecognition
              \/ PhoneTimeout \/ OtherTimeout
              \/ \E impl \in {"default", "other"} : AudioEnds(impl)
  PROVE  Inv'
<1>0. /\ {"INITIALIZED", "RECOGNIZED", "READ_CAPTURER"} \subseteq States
      /\ Session = {"RECOGNIZING", "RECOGNIZED", "READ_CAPTURER"}
  BY DEF States, Session
<1> USE DEF front
<1>1. ASSUME NEW state \in {"RECOGNIZING", "READ_CAPTURER"}, Stop(state) PROVE Inv'
  <2>1. CASE phone.state = state /\ PhoneTo("INITIALIZED")
    BY <1>0, <1>1, <2>1, Exists, PhoneStep DEF Stop
  <2>2. CASE other.state = state /\ OtherEnds
    BY <1>0, <1>1, <2>2, OtherEnded DEF Stop
  <2> QED
    BY <1>1, <2>1, <2>2 DEF Stop
<1>2. ASSUME StartCapturer PROVE Inv'
  <2>1. CASE phone.state = "RECOGNIZED" /\ PhoneTo("READ_CAPTURER")
    BY <1>0, <1>2, <2>1, Exists, PhoneStep DEF StartCapturer
  <2>2. CASE other.state = "RECOGNIZED" /\ OtherTo("READ_CAPTURER", other.adapter, other.reading)
    <3>1. /\ other.reading = TRUE
          /\ other.adapter = IF other.kind # "HEADSET" THEN "none" ELSE "attached"
      BY <2>2 DEF Inv, Types, Others, OtherInStep
    <3> QED
      BY <1>0, <1>2, <2>2, <3>1, Exists, OtherStep DEF StartCapturer
  <2> QED
    BY <1>2, <2>1, <2>2 DEF StartCapturer
<1>3. ASSUME OnInitDone PROVE Inv'
  <2>1. CASE phone.state = "INITIALIZING" /\ PhoneTo("INITIALIZED")
    BY <1>0, <1>3, <2>1, Exists, PhoneStep DEF OnInitDone
  <2>2. CASE other.state = "INITIALIZING" /\ OtherTo("INITIALIZED", other.adapter, FALSE)
    <3>1. other.adapter = IF other.kind # "HEADSET" THEN "none" ELSE "attached"
      BY <2>2 DEF Inv, OtherInStep
    <3> QED
      BY <1>0, <1>3, <2>2, <3>1, Exists, OtherStep DEF OnInitDone
  <2> QED
    BY <1>3, <2>1, <2>2 DEF OnInitDone
<1>4. ASSUME OnWakeupRecognition PROVE Inv'
  <2>1. CASE phone.state = "RECOGNIZING" /\ PhoneTo("RECOGNIZED")
    BY <1>0, <1>4, <2>1, Exists, PhoneStep DEF OnWakeupRecognition
  <2>2. CASE phone.state = "RECOGNIZING" /\ PhoneTo("INITIALIZED")
    BY <1>0, <1>4, <2>2, Exists, PhoneStep DEF OnWakeupRecognition
  <2>3. CASE /\ other.state = "RECOGNIZING"
             /\ OtherTo("RECOGNIZED", SessionStopped(other).adapter, TRUE)
    <3>1. SessionStopped(other).adapter = IF other.kind # "HEADSET" THEN "none" ELSE "attached"
      BY <2>3 DEF Inv, Types, Others, OtherInStep, SessionStopped
    <3> QED
      BY <1>0, <1>4, <2>3, <3>1, Exists, OtherStep DEF OnWakeupRecognition
  <2>4. CASE other.state = "RECOGNIZING" /\ OtherEnds
    BY <1>0, <1>4, <2>4, OtherEnded DEF OnWakeupRecognition
  <2> QED
    BY <1>4, <2>1, <2>2, <2>3, <2>4 DEF OnWakeupRecognition
<1>5. ASSUME PhoneTimeout PROVE Inv'
  BY <1>0, <1>5, Exists, PhoneStep DEF PhoneTimeout
<1>6. ASSUME OtherTimeout PROVE Inv'
  BY <1>6, OtherEnded DEF OtherTimeout
<1>7. ASSUME NEW impl, AudioEnds(impl) PROVE Inv'
  BY <1>7, Unseen DEF AudioEnds, seen
<1> QED
  BY <1>1, <1>2, <1>3, <1>4, <1>5, <1>6, <1>7

-----------------------------------------------------------------------------
LEMMA InitInv == Init => Inv
<1> SUFFICES ASSUME Init PROVE Inv
  OBVIOUS
<1>1. Types
  BY DEF Init, Types, NoPhone, NoOther, NoCur, Phones, Others, Courses, States, Session, Processes
<1> QED
  BY <1>1 DEF Init, Inv, Told, Pointed, OneSession, FacadeInStep, CallbackCarriedOver, OtherInStep,
     NoPhone, NoOther, NoCur, Session

LEMMA NextInv == Inv /\ [Next]_vars => Inv'
<1> SUFFICES ASSUME Inv, [Next]_vars PROVE Inv'
  OBVIOUS
<1>1. CASE Detection
  BY <1>1, StepDetection
<1>2. CASE DeviceChange
  <2>1. ASSUME UNCHANGED <<front, cur, phone, other, history>> PROVE Inv'
    BY <2>1, Unseen DEF seen, front
  <2>2. ASSUME NEW k \in DOMAIN deliveries, UpdateWakeupEngineImpl(k) PROVE Inv'
    BY <2>2, StepUpdate
  <2> QED
    BY <1>2, <2>1, <2>2 DEF DeviceChange, RegisterDevice, DeregisterDevice, UpdateAudioDevice,
       RemoveByServiceName, NotifyCallbacksIfChanged, Change
<1>3. CASE EngineStep
  BY <1>3, StepCreate, StepReleaseEngine, StepRelease, StepReset, StepSaveCallback, StepEngines
  DEF EngineStep
<1>4. CASE UNCHANGED vars
  BY <1>4, Unseen DEF vars, seen, front, history
<1> QED
  BY <1>1, <1>2, <1>3, <1>4 DEF Next

\* The inductive invariant holds in every behaviour of the facade and its engines.
THEOREM FacadeInvariant == Spec => []Inv
BY InitInv, NextInv, PTL DEF Spec

\* Phone and headset or glasses never hold a session at the same time: ProcessCheck
\* is enough, because every session begins under deviceMutex_ and tells the facade.
THEOREM OneSessionAtATime == Spec => []OneSession
<1>1. Inv => OneSession
  BY DEF Inv
<1> QED
  BY <1>1, FacadeInvariant, PTL

\* curState_ and curProcess_ follow the engine in session through every timeout,
\* result, reset, release and change of device.
THEOREM FacadeAlwaysInStep == Spec => []FacadeInStep
<1>1. Inv => FacadeInStep
  BY DEF Inv
<1> QED
  BY <1>1, FacadeInvariant, PTL

\* GetCurrentImpl is the engine in session.
THEOREM CommandsArrive == Spec => []CommandsReachSession
<1>1. Inv => CommandsReachSession
  <2> SUFFICES ASSUME Inv PROVE CommandsReachSession
    OBVIOUS
  <2> USE DEF Inv
  <2>1. ASSUME phone.state \in Session, ~strayed, ~misled
        PROVE  GetCurrentImpl = "default"
    BY <2>1 DEF FacadeInStep, Told, GetCurrentImpl
  <2>2. ASSUME other.state \in Session, ~misled
        PROVE  GetCurrentImpl = "other"
    BY <2>2 DEF FacadeInStep, Pointed, Session, GetCurrentImpl, TypeOf
  <2> QED
    BY <2>1, <2>2 DEF CommandsReachSession
<1> QED
  BY <1>1, FacadeInvariant, PTL

\* SaveCallback and CreateEngineImpl together never leave an engine with an older
\* callback.
THEOREM CallbackSafe == Spec => []CallbackCarriedOver
<1>1. Inv => CallbackCarriedOver
  BY DEF Inv
<1> QED
  BY <1>1, FacadeInvariant, PTL

\* Read thread and adapter of a headset or of glasses follow its state.
THEOREM OtherAlwaysInStep == Spec => []OtherInStep
<1>1. Inv => OtherInStep
  BY DEF Inv
<1> QED
  BY <1>1, FacadeInvariant, PTL
=============================================================================
