SPECIFICATION Spec
CONSTANTS
  r1 = r1
  r2 = r2
  Edited = {"openai_api_key", "embedding_model", "rag_top_k"}
  Values = {"env", "new"}
  Mask = "mask"
  Baseline = "env"
  Requests = {r1, r2}
  Calls = {"c1"}
  Faults = {"start", "write", "crash"}
SYMMETRY RequestSymmetry
INVARIANTS
  ProvidersKept
  SavesTakeEffect
  CallsUndisturbed
CHECK_DEADLOCK FALSE
