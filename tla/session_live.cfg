SPECIFICATION FairSpec
CONSTANTS
  Turns = {t1}
  Hanger = {"reader"}
  SlowSender = {"watchdog"}
  Adversity = {"slow finish", "silent answer"}
  PromptAfter = 2
  HangupAfter = 1
  MaxInbox = 1
ACTION_CONSTRAINT SlowApart
PROPERTIES
  CallerLeaves
  KeepsPromise
CHECK_DEADLOCK FALSE
