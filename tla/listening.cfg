SPECIFICATION Spec
CONSTANTS
  SilenceFrames = 2
  MinSpeechFrames = 2
  MaxFrames = 4
  PreRollFrames = 1
  BargeFrames = 2
  PromptAfter = 4
  en = en
  hi = hi
  bn = bn
  fr = fr
  None = None
  Languages = {en, hi, bn, fr}
  Order <- MCOrder
  Namings <- MCNamings
  Voices = {en, hi, bn}
  Confirmed = {en, hi}
  Default = hi
  English = en
  SwitchAfter = 2
  DriftAfter = 2
  MaxDrifts = 2
  MaxAttempts = 1
INVARIANTS
  WholeUtterances
  VoiceSpeaks
  DriftsBounded
PROPERTIES
  BargeInSustained
  Outvoted
