SPECIFICATION Spec
CONSTANTS
  MaxTimerNum = 2
  INVALID_ID = 65535
  Types = {"RECOGNIZING_TIMEOUT", "RECOGNIZE_COMPLETE_TIMEOUT", "READ_CAPTURER_TIMEOUT"}
  Tokens = {t1, t2}
  NoToken = NoToken
  MaxTaskNum = 2
  MaxFrames = 2
  FrameCnt = 1
  MaxSessions = 2
INVARIANTS
  TypeOK
  MicrophoneRecordMatchesReading
  AudioLivesWithSession
  AdapterMatchesState
  TimeoutPending
  RecognitionNotLost
  ResultsToldInOrder
PROPERTIES
  SessionEnds
  MicrophoneGivenBack
