-------------------------- MODULE KnowledgePromise --------------------------
(***************************************************************************)
(* What the knowledge base promises operators, who change its documents,   *)
(* and agents, who answer from the index: no document is overwritten but   *)
(* by an upload, nor forgotten while it can still be found, and whatever   *)
(* comes into the index is the text the database has at that moment, in    *)
(* the place of any other.                                                 *)
(***************************************************************************)

CONSTANTS
  Docs,
  Uploads,  \* the texts operators upload
  Old       \* the documents indexed before the database kept any
VARIABLES
  row,      \* each document: "unknown", "deleted" or its text
  shown     \* the texts of which each has passages in the index

Init ==
  /\ row = [d \in Docs |-> "unknown"]
  /\ shown = [d \in Docs |-> IF d \in Old THEN {"legacy"} ELSE {}]

\* An operator's text is kept before it can be found.
Save(d) ==
  /\ \E t \in Uploads : row' = [row EXCEPT ![d] = t]
  /\ UNCHANGED shown

\* What was found in the index is kept, of a document nobody has told of.
Adopt(d) ==
  /\ row[d] = "unknown"
  /\ row' = [row EXCEPT ![d] = "recovered"]
  /\ UNCHANGED shown

\* A document is forgotten when it can no longer be found.
Forget(d) ==
  /\ row[d] # "unknown" /\ shown[d] = {}
  /\ row' = [row EXCEPT ![d] = "deleted"]
  /\ UNCHANGED shown

\* It cannot be found while its text is exchanged, ...
Hide(d) ==
  /\ shown' = [shown EXCEPT ![d] = {}]
  /\ UNCHANGED row

\* ... and then it is, by that text alone.
Show(d) ==
  /\ row[d] \notin {"unknown", "deleted"} /\ shown[d] \subseteq {row[d]}
  /\ shown' = [shown EXCEPT ![d] = {row[d]}]
  /\ UNCHANGED row

\* The index is lost.
Lose ==
  /\ shown' = [d \in Docs |-> {}]
  /\ UNCHANGED row

Next ==
  \/ \E d \in Docs : Save(d) \/ Adopt(d) \/ Forget(d) \/ Hide(d) \/ Show(d)
  \/ Lose

Spec == Init /\ [][Next]_<<row, shown>>
=============================================================================
