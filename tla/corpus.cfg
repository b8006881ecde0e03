SPECIFICATION FairSpec
CONSTANTS
  None = None
  Docs = {"fees", "dates"}
  Texts <- MCLong
  Legacy = {"dates"}
  Widths = {"w1", "w2"}
  First = "w1"
  Reloads = 2
  Edits = 2
  Troubles = 1
  Batch = 1
  Probes <- MCProbes
  Target = 6
  Overlap = 2
  Least = 3
  Enough = 5
INVARIANTS
  CollectionsSound
  WithdrawnIsOut
  PassagesTell
PROPERTIES
  CorpusFollows
  OldIsLeft
CHECK_DEADLOCK FALSE
