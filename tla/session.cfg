SPECIFICATION HSpec
CONSTANTS
  Turns = {t1, t2}
  Hanger = {"reader"}
  SlowSender = {"run", "consumer", "watchdog", t1, t2}
  Adversity = {"backlog", "silent answer", "slow finish"}
  PromptAfter = 1
  HangupAfter = 2
  MaxInbox = 2
SYMMETRY TurnSymmetry
CONSTRAINT Unstrained
INVARIANTS
  OneVoice
  Attended
  QuietAfterFinish
  AnswersRecorded
  SavedComplete
CHECK_DEADLOCK FALSE
