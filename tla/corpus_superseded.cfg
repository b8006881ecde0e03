SPECIFICATION FairSpec
CONSTANTS
  None = None
  Docs = {"fees"}
  Texts <- MCTexts
  Legacy = {}
  Widths = {"w1", "w2"}
  First = "w1"
  Reloads = 0
  Edits = 2
  Troubles = 0
  Batch = 1
  Probes <- MCProbes
  Target = 6
  Overlap = 2
  Least = 3
  Enough = 5
PROPERTY SupersededGoes
CHECK_DEADLOCK FALSE
