----------------------------- MODULE Knowledge -----------------------------
(***************************************************************************)
(* The documents the agents answer from: the copies the database keeps     *)
(* (vaani/db/knowledge.py, KnowledgeRepository), the index callers are     *)
(* answered from (vaani/rag/store.py) and the code that keeps the second   *)
(* equal to the first (vaani/rag/retriever.py, Retriever).                 *)
(*                                                                         *)
(* Operators upload, delete and rename documents while a reconciliation    *)
(* runs, and each of them awaits the database and the index between its    *)
(* steps; the lock of the repository guards every change.  The index may   *)
(* be unreachable at any step, may come back empty, and the process may    *)
(* crash.                                                                  *)
(***************************************************************************)
EXTENDS Naturals, FiniteSets

CONSTANTS
  Docs,       \* (namespace, source) names
  Uploads,    \* the texts operators upload
  Legacy,     \* the documents indexed before the database kept copies
  Parts,      \* the batches of 64 chunks a document is indexed in
  Requests,   \* what operators ask for, one change each
  Syncers,    \* the tasks that reconcile: the healer, a settings save
  Troubles    \* bound on outages, losses of the index and crashes

ASSUME LegacyAssumption == Legacy \subseteq Docs
ASSUME BoundsAssumption == Parts \in Nat \ {0} /\ Troubles \in Nat
ASSUME NamesAssumption ==
  /\ Requests \cap Syncers = {} /\ "free" \notin Requests \cup Syncers
  /\ Uploads \cap {"unknown", "deleted", "legacy", "recovered"} = {}

\* What the database holds of a document, and what the chunks of one are from:
\* a text uploaded, one reassembled from the index, or one indexed without a hash.
Text == Uploads \cup {"recovered"}
Chunk == (Text \cup {"legacy"}) \X (1..Parts)

VARIABLES
  row,       \* each document in the database: "unknown", "deleted" or its text
  index,     \* each document's chunks in the index
  up,        \* the store can be reached
  made,      \* and has the collection that ensure() makes
  ready,     \* Retriever._ready
  troubles,  \* how many there were
  lock,      \* KnowledgeRepository.lock: "free" or its holder
  pc,        \* where each task is
  job,       \* the document a task is at, the text it indexes, the part it is at,
             \* and the name a rename has still to delete
  todo,      \* the documents a reconciliation has still to go through
  found,     \* what its inventory of the index found of each document
  torn       \* history: the documents whose indexing was broken off between batches

tasks == <<lock, pc, job, todo, found>>
vars  == <<row, index, up, made, ready, troubles, tasks, torn>>

Process == Requests \cup Syncers

NoJob == [doc |-> "none", text |-> "none", part |-> 0, old |-> "none"]

Init ==
  /\ row = [d \in Docs |-> "unknown"]
  /\ index = [d \in Docs |-> IF d \in Legacy THEN {"legacy"} \X (1..Parts) ELSE {}]
  /\ up = TRUE /\ made = (Legacy # {}) /\ ready = FALSE /\ troubles = 0
  /\ lock = "free"
  /\ pc = [p \in Process |-> "idle"]
  /\ job = [p \in Process |-> NoJob]
  /\ todo = [p \in Syncers |-> {}]
  /\ found = [p \in Syncers |-> [d \in Docs |-> {}]]
  /\ torn = {}

\* The documents of which a task has stored some batches and not the last.
Between(p) == {d \in Docs : pc[p] = "write" /\ job[p].part > 1 /\ job[p].doc = d}

\* The hashes inventory() reports, told apart by the text they are of.
Hashes(d) == {c[1] : c \in index[d]}

Goes(p, at)  == pc' = [pc EXCEPT ![p] = at]
Takes(p)     == lock = "free" /\ lock' = p
Frees(p)     == lock' = "free"
Indexes(d, chunks) == index' = [index EXCEPT ![d] = chunks]

\* The store does what it is asked; without the collection it refuses.
Answers == up /\ made

-----------------------------------------------------------------------------
(* _index(), which an upload and a reconciliation share, under the lock.   *)

\* Where a task goes on when its document is indexed or it has failed.
After(p) == IF p \in Requests THEN "done" ELSE "repairing"

\* delete_source() of the store.
Clear(p) ==
  /\ pc[p] = "clear" /\ Answers
  /\ Indexes(job[p].doc, {})
  /\ Goes(p, "write")
  /\ torn' = torn \ {job[p].doc}
  /\ UNCHANGED <<row, up, made, ready, troubles, lock, job, todo, found>>

\* One batch of chunks is embedded and stored.  After the last, a rename goes on
\* to delete the old name.
Write(p) ==
  /\ pc[p] = "write" /\ Answers
  /\ Indexes(job[p].doc, index[job[p].doc] \cup {<<job[p].text, job[p].part>>})
  /\ \/ /\ job[p].part < Parts
        /\ job' = [job EXCEPT ![p].part = @ + 1]
        /\ UNCHANGED <<lock, pc>>
     \/ /\ job[p].part = Parts
        /\ Frees(p)
        /\ IF job[p].old = "none"
           THEN Goes(p, After(p)) /\ UNCHANGED job
           ELSE /\ Goes(p, "unindex")
                /\ job' = [job EXCEPT ![p].doc = job[p].old, ![p].old = "none"]
  /\ UNCHANGED <<row, up, made, ready, troubles, todo, found, torn>>

\* The store cannot be reached or refuses: the error ends the request or the pass, and
\* leaves the lock.
Fails(p) ==
  /\ \/ ~Answers /\ pc[p] \in {"clear", "write", "unindex", "remove", "list", "adopting", "survey"}
     \/ ~up /\ pc[p] = "ensure"
  /\ pc[p] = "unindex" => lock = "free"
  /\ Goes(p, IF p \in Requests THEN "done" ELSE "idle")
  /\ lock' = IF lock = p THEN "free" ELSE lock
  /\ torn' = torn \cup Between(p)
  /\ UNCHANGED <<row, index, up, made, ready, troubles, job, todo, found>>

-----------------------------------------------------------------------------
(* What operators ask for.                                                 *)

\* index_text(): the document is saved before it is indexed.
Upload(r, d, t, old) ==
  /\ pc[r] = "idle" /\ Takes(r)
  /\ row' = [row EXCEPT ![d] = t]
  /\ job' = [job EXCEPT ![r] = [doc |-> d, text |-> t, part |-> 1, old |-> old]]
  /\ Goes(r, "clear")
  /\ UNCHANGED <<index, up, made, ready, troubles, todo, found, torn>>

\* edit_document() under a new name, refused while the index was never reached.
Rename(r, d, new, t) ==
  /\ new # d /\ ready
  /\ Upload(r, new, t, d)

AsksDelete(r, d) ==
  /\ pc[r] = "idle"
  /\ row[d] # "unknown" \/ index[d] # {}
  /\ job' = [job EXCEPT ![r] = [NoJob EXCEPT !.doc = d]]
  /\ Goes(r, "unindex")
  /\ UNCHANGED <<row, index, up, made, ready, troubles, lock, todo, found, torn>>

\* delete_source(): the index first, then the database.
Unindex(r) ==
  /\ pc[r] = "unindex" /\ Answers /\ Takes(r)
  /\ Indexes(job[r].doc, {})
  /\ Goes(r, "forget")
  /\ torn' = torn \ {job[r].doc}
  /\ UNCHANGED <<row, up, made, ready, troubles, job, todo, found>>

\* The tombstone, of a document the database knows.
Forget(r) ==
  /\ pc[r] = "forget"
  /\ row' = [row EXCEPT ![job[r].doc] = IF @ = "unknown" THEN @ ELSE "deleted"]
  /\ Frees(r) /\ Goes(r, "done")
  /\ UNCHANGED <<index, up, made, ready, troubles, job, todo, found, torn>>

RequestStep(r) ==
  \/ \E d \in Docs, t \in Uploads : Upload(r, d, t, "none")
  \/ \E d, new \in Docs, t \in Uploads : Rename(r, d, new, t)
  \/ \E d \in Docs : AsksDelete(r, d)
  \/ Unindex(r) \/ Forget(r)

-----------------------------------------------------------------------------
(* A reconciliation: start() when the index was never reached, and sync(). *)

Begins(p) ==
  /\ pc[p] = "idle"
  /\ Goes(p, IF ready THEN "known" ELSE "ensure")
  /\ UNCHANGED <<row, index, up, made, ready, troubles, lock, job, todo, found, torn>>

Ensure(p) ==
  /\ pc[p] = "ensure" /\ up
  /\ made' = TRUE /\ ready' = TRUE
  /\ Goes(p, "known")
  /\ UNCHANGED <<row, index, up, troubles, lock, job, todo, found, torn>>

\* backfill(): what the database knows,
ReadKnown(p) ==
  /\ pc[p] = "known"
  /\ todo' = [todo EXCEPT ![p] = {d \in Docs : row[d] = "unknown"}]
  /\ Goes(p, "list")
  /\ UNCHANGED <<row, index, up, made, ready, troubles, lock, job, found, torn>>

\* what the index holds besides,
ListIndex(p) ==
  /\ pc[p] = "list" /\ Answers
  /\ todo' = [todo EXCEPT ![p] = {d \in @ : index[d] # {}}]
  /\ Goes(p, "adopting")
  /\ UNCHANGED <<row, index, up, made, ready, troubles, lock, job, found, torn>>

\* and, one after the other, the chunks of each,
Export(p) ==
  /\ pc[p] = "adopting" /\ Answers
  /\ \E d \in todo[p] :
       /\ todo' = [todo EXCEPT ![p] = @ \ {d}]
       /\ IF index[d] = {}
          THEN UNCHANGED <<pc, job>>
          ELSE Goes(p, "adopt") /\ job' = [job EXCEPT ![p] = [NoJob EXCEPT !.doc = d]]
  /\ UNCHANGED <<row, index, up, made, ready, troubles, lock, found, torn>>

\* Mutant: what was recovered is saved as an upload is.
AdoptAnyway(p) ==
  /\ pc[p] = "adopt" /\ lock = "free"
  /\ row' = [row EXCEPT ![job[p].doc] = "recovered"]
  /\ Goes(p, "adopting")
  /\ UNCHANGED <<index, up, made, ready, troubles, lock, job, todo, found, torn>>

\* adopted under the lock, unless the database has come to know it.
Adopt(p) ==
  /\ pc[p] = "adopt" /\ lock = "free"
  /\ row' = [row EXCEPT ![job[p].doc] = IF @ = "unknown" THEN "recovered" ELSE @]
  /\ Goes(p, "adopting")
  /\ UNCHANGED <<index, up, made, ready, troubles, lock, job, todo, found, torn>>

Adopted(p) ==
  /\ pc[p] = "adopting" /\ todo[p] = {}
  /\ Goes(p, "survey")
  /\ UNCHANGED <<row, index, up, made, ready, troubles, lock, job, todo, found, torn>>

\* sync(): what the index holds now,
Survey(p) ==
  /\ pc[p] = "survey" /\ Answers
  /\ found' = [found EXCEPT ![p] = [d \in Docs |-> Hashes(d)]]
  /\ Goes(p, "compare")
  /\ UNCHANGED <<row, index, up, made, ready, troubles, lock, job, todo, torn>>

\* Mutant: whatever is in the index counts as current.
PresentIsCurrent(p, d) ==
  \/ row[d] \in Text /\ found[p][d] # {}
  \/ row[d] = "deleted" /\ found[p][d] = {}

Current(p, d) ==
  \/ row[d] \in Text /\ found[p][d] = {row[d]}
  \/ row[d] = "deleted" /\ found[p][d] = {}

\* and in which documents it differs from the database,
Compare(p) ==
  /\ pc[p] = "compare"
  /\ todo' = [todo EXCEPT ![p] = {d \in Docs : row[d] # "unknown" /\ ~Current(p, d)}]
  /\ Goes(p, "repairing")
  /\ UNCHANGED <<row, index, up, made, ready, troubles, lock, job, found, torn>>

\* Mutant: a pass indexes what it saw, without asking the database again.
RepairUnread(p) ==
  /\ pc[p] = "repairing"
  /\ \E d \in todo[p] :
       /\ todo' = [todo EXCEPT ![p] = @ \ {d}]
       /\ Takes(p)
       /\ Goes(p, "clear")
       /\ job' = [job EXCEPT ![p] = [doc |-> d, part |-> 1, old |-> "none",
                                     text |-> IF row[d] \in Text THEN row[d] ELSE "recovered"]]
  /\ UNCHANGED <<row, index, up, made, ready, troubles, found, torn>>

\* each of which it reads again under the lock: a live document is indexed, a
\* deleted one that the index held is removed.
Repair(p) ==
  /\ pc[p] = "repairing"
  /\ \E d \in todo[p] :
       /\ todo' = [todo EXCEPT ![p] = @ \ {d}]
       /\ \/ /\ row[d] \in Text
             /\ Takes(p) /\ Goes(p, "clear")
             /\ job' = [job EXCEPT ![p] = [doc |-> d, text |-> row[d], part |-> 1, old |-> "none"]]
          \/ /\ row[d] \notin Text /\ found[p][d] # {}
             /\ Takes(p) /\ Goes(p, "remove")
             /\ job' = [job EXCEPT ![p] = [NoJob EXCEPT !.doc = d]]
          \/ /\ row[d] \notin Text /\ found[p][d] = {}
             /\ lock = "free" /\ UNCHANGED <<lock, pc, job>>
  /\ UNCHANGED <<row, index, up, made, ready, troubles, found, torn>>

Remove(p) ==
  /\ pc[p] = "remove" /\ Answers
  /\ Indexes(job[p].doc, {})
  /\ Frees(p) /\ Goes(p, "repairing")
  /\ torn' = torn \ {job[p].doc}
  /\ UNCHANGED <<row, up, made, ready, troubles, job, todo, found>>

\* The pass is over, until the next one.
Repaired(p) ==
  /\ pc[p] = "repairing" /\ todo[p] = {}
  /\ Goes(p, "idle")
  /\ UNCHANGED <<row, index, up, made, ready, troubles, lock, job, todo, found, torn>>

SyncStep(p) ==
  \/ Begins(p) \/ Ensure(p) \/ ReadKnown(p) \/ ListIndex(p) \/ Export(p) \/ Adopt(p)
  \/ Adopted(p) \/ Survey(p) \/ Compare(p) \/ Repair(p) \/ Remove(p) \/ Repaired(p)

TaskStep(p) == Clear(p) \/ Write(p) \/ Fails(p)

-----------------------------------------------------------------------------
(* The index and the process.                                              *)

Trouble == troubles < Troubles /\ troubles' = troubles + 1

GoesDown ==
  /\ Trouble /\ up
  /\ up' = FALSE
  /\ UNCHANGED <<row, index, made, ready, tasks, torn>>

ComesBack ==
  /\ ~up
  /\ up' = TRUE
  /\ UNCHANGED <<row, index, made, ready, troubles, tasks, torn>>

\* The index is lost: emptied, or a fresh store is put in its place, without even
\* the collection.
IsLost ==
  /\ Trouble /\ made
  /\ index' = [d \in Docs |-> {}]
  /\ made' \in BOOLEAN
  /\ torn' = UNION {Between(p) : p \in Process}
  /\ UNCHANGED <<row, up, ready, tasks>>

\* The process is started again; what it was doing is left half done.
Crash ==
  /\ Trouble
  /\ ready' = FALSE /\ lock' = "free"
  /\ pc' = [p \in Process |-> IF p \in Syncers \/ pc[p] = "idle" THEN "idle" ELSE "done"]
  /\ torn' = torn \cup UNION {Between(p) : p \in Process}
  /\ UNCHANGED <<row, index, up, made, job, todo, found>>

Next ==
  \/ \E r \in Requests : RequestStep(r)
  \/ \E p \in Syncers : SyncStep(p)
  \/ \E p \in Process : TaskStep(p)
  \/ GoesDown \/ ComesBack \/ IsLost \/ Crash

Spec == Init /\ [][Next]_vars

\* An outage ends, and the tasks go on; the lock is asyncio's, which is fair.
\* Nobody need ask for anything.
FairSpec ==
  /\ Spec /\ WF_vars(ComesBack)
  /\ \A p \in Syncers : SF_vars(SyncStep(p)) /\ WF_vars(TaskStep(p))
  /\ \A r \in Requests : WF_vars(TaskStep(r)) /\ SF_vars(Unindex(r)) /\ WF_vars(Forget(r))

-----------------------------------------------------------------------------
At == {"idle", "clear", "write", "unindex", "forget", "done", "ensure", "known", "list",
       "adopting", "adopt", "survey", "compare", "repairing", "remove"}

TypeOK ==
  /\ row \in [Docs -> Text \cup {"unknown", "deleted"}]
  /\ index \in [Docs -> SUBSET Chunk]
  /\ up \in BOOLEAN /\ made \in BOOLEAN /\ ready \in BOOLEAN /\ troubles \in 0..Troubles
  /\ lock \in Process \cup {"free"}
  /\ pc \in [Process -> At]
  /\ job \in [Process -> [doc : Docs \cup {"none"}, text : Text \cup {"none"},
                          part : 0..Parts, old : Docs \cup {"none"}]]
  /\ todo \in [Syncers -> SUBSET Docs]
  /\ found \in [Syncers -> [Docs -> SUBSET (Text \cup {"legacy"})]]
  /\ torn \subseteq Docs

\* "The superseded text stays searchable beside its replacement": it does not,
\* whoever indexes a document while another does, fails at it or repeats it.
OneVersion == \A d \in Docs : Cardinality(Hashes(d)) <= 1

\* "A delete landing mid-pass must win over the snapshot this pass started
\* from, or a withdrawn document gets indexed again": what the database knows
\* to be deleted is nowhere in the index, however far a pass had come.
WithdrawnIsOut == \A d \in Docs : row[d] = "deleted" => index[d] = {}

\* Of a document that nobody is indexing, the index holds every batch or none, unless
\* an outage, a crash or the loss of the index broke its indexing off between two.
Writes(p, d) == pc[p] = "write" /\ job[p].doc = d
HeldWhole == \A d \in Docs \ torn :
  (\A p \in Process : ~Writes(p, d)) => \/ index[d] = {}
                                       \/ \E c \in index[d] : index[d] = {c[1]} \X (1..Parts)

\* What can be found of a document is one version of it, of a withdrawn one nothing,
\* and of one nobody is indexing all of it, but for the batches a failure took; at every
\* step of whoever indexes, withdraws, renames or reconciles it.
IndexHonest == OneVersion /\ WithdrawnIsOut /\ HeldWhole

\* The texts by which a document can be found are those of its passages.
Promise == INSTANCE KnowledgePromise WITH
             shown <- [d \in Docs |-> Hashes(d)], Old <- Legacy

\* Operators and agents see no more than they are promised (KnowledgePromise): "a name
\* the database already knows - live, or deleted - is never overwritten from an index
\* copy", and what is indexed is what the database has at that very step, whatever the
\* pass or the request that indexes it has read before.
DocumentsAsPromised == Promise!Spec

\* "The index is a cache that sync() can always rebuild": when operators and
\* troubles have ceased, the index comes to hold every batch of every live document,
\* in the version the database keeps, and nothing else.  Two losses remain: of a
\* document whose indexing was broken off between two batches there may be only
\* some, which the next pass takes for all of it; and a collection that vanishes
\* under a retriever that was ready is not made again.
Whole(d) == index[d] = {row[d]} \X (1..Parts)
IndexFollows == <>[]
  IF made
  THEN \A d \in Docs :
         /\ row[d] \in Text => Hashes(d) = {row[d]} /\ (d \notin torn => Whole(d))
         /\ row[d] \notin Text => index[d] = {}
  ELSE ready

\* What operators are told of an upload whose indexing fails, and what an outage between
\* two batches refutes: "The document is saved, but the knowledge index cannot be
\* reached right now. It will become searchable automatically once the index is back"
\* (api/routes.py:416-419): parts of it are not.
SearchableOnceBack == <>[](made => \A d \in Docs : row[d] \in Text => Whole(d))

\* What sync() says of itself, and what the loss of the collection under a retriever that
\* was ready refutes: "an index that was lost - a hosted cluster suspended, a fresh empty
\* one put in its place - fills itself back in without anyone re-uploading"
\* (rag/retriever.py:135-137).
FillsItselfIn == <>[](\A d \in Docs : row[d] \in Text => index[d] # {})
=============================================================================
