-------------------------- MODULE KnowledgeProofs --------------------------
(***************************************************************************)
(* Theorems about Knowledge, for any documents, texts, number of batches,  *)
(* operators and reconciliations at once, outages and crashes; and about   *)
(* Console, for any accounts, organisations, numbers, agents, calls and    *)
(* requests at once.                                                       *)
(***************************************************************************)
EXTENDS Knowledge, Console, FiniteSetTheorems, TLAPS

\* The steps at which a task holds the lock.
Locked == {"clear", "write", "forget", "remove"}

\* A task that is at a document has one, and one that indexes has a text of it.
Placed == \A p \in Process :
  /\ pc[p] \in Locked \cup {"unindex", "adopt"} => job[p].doc \in Docs
  /\ pc[p] \in {"clear", "write"} => job[p].text \in Text /\ job[p].part \in 1..Parts

\* Only the holder of the lock is at a step that needs it; what it indexes is
\* the text the database has, on an index it has emptied.
Holds == \A p \in Process :
  /\ pc[p] \in Locked => lock = p
  /\ pc[p] \in {"clear", "write"} => row[job[p].doc] = job[p].text
  /\ pc[p] = "write" => \A c \in index[job[p].doc] : c[1] = job[p].text
  /\ pc[p] = "forget" => index[job[p].doc] = {}

Same == \A d \in Docs : \A c, e \in index[d] : c[1] = e[1]

KInv == TypeOK /\ Placed /\ Holds /\ Same /\ WithdrawnIsOut

Rest == Placed /\ Holds /\ Same /\ WithdrawnIsOut

LEMMA TextNames == "unknown" \notin Text /\ "deleted" \notin Text /\ "legacy" \notin Text
BY NamesAssumption DEF Text

LEMMA FreeNames == "free" \notin Process
BY NamesAssumption DEF Process

-----------------------------------------------------------------------------
(* Types.                                                                  *)

JobType == [doc : Docs \cup {"none"}, text : Text \cup {"none"},
            part : 0..Parts, old : Docs \cup {"none"}]

LEMMA NoJobType == ASSUME NEW d \in Docs \cup {"none"} PROVE [NoJob EXCEPT !.doc = d] \in JobType
BY BoundsAssumption DEF NoJob, JobType

\* The step of a task that sets its job keeps the jobs' types.
LEMMA JobTypes ==
  ASSUME TypeOK, NEW p \in Process, NEW j \in JobType, job' = [job EXCEPT ![p] = j]
  PROVE  job' \in [Process -> JobType]
BY DEF TypeOK, JobType

LEMMA GoesType ==
  ASSUME TypeOK, NEW p \in Process, NEW at \in At, Goes(p, at)
  PROVE  pc' \in [Process -> At]
BY DEF TypeOK, Goes

LEMMA IndexType ==
  ASSUME TypeOK, NEW d \in Docs, NEW chunks \in SUBSET Chunk, Indexes(d, chunks)
  PROVE  index' \in [Docs -> SUBSET Chunk]
BY DEF TypeOK, Indexes

LEMMA WriteTypes ==
  ASSUME KInv, NEW p \in Process, Write(p)
  PROVE  TypeOK'
<1>1. /\ pc[p] = "write" /\ job[p].doc \in Docs /\ job[p].text \in Text /\ job[p].part \in 1..Parts
      /\ job[p] \in JobType
  BY DEF Write, KInv, Placed, Locked, TypeOK, JobType
<1>2. index' \in [Docs -> SUBSET Chunk]
  <2>1. <<job[p].text, job[p].part>> \in Chunk
    BY <1>1 DEF Chunk
  <2>2. index[job[p].doc] \cup {<<job[p].text, job[p].part>>} \in SUBSET Chunk
    BY <1>1, <2>1 DEF KInv, TypeOK
  <2> QED BY <1>1, <2>2, IndexType DEF Write, KInv
<1>3. /\ job' \in [Process -> JobType] /\ pc' \in [Process -> At] /\ lock' \in Process \cup {"free"}
  <2>1. CASE job[p].part < Parts /\ job' = [job EXCEPT ![p].part = @ + 1] /\ UNCHANGED <<lock, pc>>
    <3>1. [job[p] EXCEPT !.part = @ + 1] \in JobType
      BY <1>1, <2>1, BoundsAssumption DEF JobType
    <3>2. job' = [job EXCEPT ![p] = [job[p] EXCEPT !.part = @ + 1]]
      BY <2>1
    <3>3. job' \in [Process -> JobType]
      BY <3>1, <3>2, JobTypes DEF KInv
    <3> QED BY <2>1, <3>3 DEF KInv, TypeOK
  <2>2. CASE Frees(p) /\ Goes(p, After(p)) /\ UNCHANGED job
    BY <2>2 DEF Frees, Goes, After, At, KInv, TypeOK, JobType
  <2>3. CASE /\ Frees(p) /\ Goes(p, "unindex")
             /\ job' = [job EXCEPT ![p].doc = job[p].old, ![p].old = "none"]
    <3>1. [job[p] EXCEPT !.doc = job[p].old, !.old = "none"] \in JobType
      BY <1>1 DEF JobType
    <3>2. job' = [job EXCEPT ![p] = [job[p] EXCEPT !.doc = job[p].old, !.old = "none"]]
      BY <2>3
    <3>3. job' \in [Process -> JobType]
      BY <3>1, <3>2, JobTypes DEF KInv
    <3> QED BY <2>3, <3>3 DEF Frees, Goes, At, KInv, TypeOK
  <2> QED BY <2>1, <2>2, <2>3 DEF Write
<1> QED
  BY <1>2, <1>3 DEF Write, KInv, TypeOK, JobType

LEMMA RequestTypes ==
  ASSUME KInv, NEW r \in Requests, RequestStep(r)
  PROVE  TypeOK'
<1> r \in Process
  BY DEF Process
<1>1. ASSUME NEW d \in Docs, NEW t \in Uploads, NEW old \in Docs \cup {"none"}, Upload(r, d, t, old)
      PROVE  TypeOK'
  <2>1. [doc |-> d, text |-> t, part |-> 1, old |-> old] \in JobType
    BY BoundsAssumption DEF JobType, Text
  <2>2. job' \in [Process -> JobType]
    BY <1>1, <2>1, JobTypes DEF Upload, KInv
  <2>3. pc' \in [Process -> At]
    BY <1>1, GoesType DEF Upload, KInv, At
  <2> QED BY <1>1, <2>2, <2>3 DEF Upload, Takes, KInv, TypeOK, JobType, Text
<1>2. ASSUME NEW d \in Docs, AsksDelete(r, d) PROVE TypeOK'
  <2>1. job' \in [Process -> JobType]
    BY <1>2, NoJobType, JobTypes DEF AsksDelete, KInv
  <2>2. pc' \in [Process -> At]
    BY <1>2, GoesType DEF AsksDelete, KInv, At
  <2> QED BY <1>2, <2>1, <2>2 DEF AsksDelete, KInv, TypeOK, JobType
<1>3. CASE Unindex(r)
  <2>1. job[r].doc \in Docs
    BY <1>3 DEF Unindex, KInv, Placed
  <2>2. index' \in [Docs -> SUBSET Chunk]
    BY <1>3, <2>1, IndexType DEF Unindex, KInv
  <2>3. pc' \in [Process -> At]
    BY <1>3, GoesType DEF Unindex, KInv, At
  <2> QED BY <1>3, <2>2, <2>3 DEF Unindex, Takes, KInv, TypeOK, JobType
<1>4. CASE Forget(r)
  <2>1. pc' \in [Process -> At]
    BY <1>4, GoesType DEF Forget, KInv, At
  <2> QED BY <1>4, <2>1 DEF Forget, Frees, KInv, TypeOK
<1> QED
  BY <1>1, <1>2, <1>3, <1>4 DEF RequestStep, Rename

LEMMA SyncTypes ==
  ASSUME KInv, NEW p \in Syncers, SyncStep(p)
  PROVE  TypeOK'
<1> p \in Process
  BY DEF Process
<1> USE DEF KInv
<1>1. CASE Begins(p) \/ Ensure(p) \/ Adopted(p) \/ Repaired(p)
  <2>1. pc' \in [Process -> At]
    BY <1>1, GoesType DEF Begins, Ensure, Adopted, Repaired, At
  <2> QED BY <1>1, <2>1 DEF Begins, Ensure, Adopted, Repaired, TypeOK
<1>2. CASE ReadKnown(p) \/ ListIndex(p) \/ Compare(p)
  <2>1. pc' \in [Process -> At]
    BY <1>2, GoesType DEF ReadKnown, ListIndex, Compare, At
  <2>2. todo' \in [Syncers -> SUBSET Docs]
    BY <1>2 DEF ReadKnown, ListIndex, Compare, TypeOK
  <2> QED BY <1>2, <2>1, <2>2 DEF ReadKnown, ListIndex, Compare, TypeOK
<1>3. CASE Export(p)
  <2>1. PICK d \in todo[p] :
          /\ todo' = [todo EXCEPT ![p] = @ \ {d}]
          /\ IF index[d] = {}
             THEN UNCHANGED <<pc, job>>
             ELSE Goes(p, "adopt") /\ job' = [job EXCEPT ![p] = [NoJob EXCEPT !.doc = d]]
    BY <1>3 DEF Export
  <2>2. d \in Docs /\ todo' \in [Syncers -> SUBSET Docs]
    BY <2>1 DEF TypeOK
  <2>3. pc' \in [Process -> At] /\ job' \in [Process -> JobType]
    BY <2>1, <2>2, NoJobType, JobTypes, GoesType DEF At, TypeOK, JobType
  <2> QED BY <1>3, <2>2, <2>3 DEF Export, TypeOK, JobType
<1>4. CASE Adopt(p)
  <2>1. pc' \in [Process -> At]
    BY <1>4, GoesType DEF Adopt, At
  <2> QED BY <1>4, <2>1 DEF Adopt, TypeOK, Text
<1>5. CASE Survey(p)
  <2>1. pc' \in [Process -> At]
    BY <1>5, GoesType DEF Survey, At
  <2>2. \A d \in Docs : Hashes(d) \subseteq Text \cup {"legacy"}
    BY DEF TypeOK, Hashes, Chunk
  <2>3. found' \in [Syncers -> [Docs -> SUBSET (Text \cup {"legacy"})]]
    BY <1>5, <2>2 DEF Survey, TypeOK
  <2> QED BY <1>5, <2>1, <2>3 DEF Survey, TypeOK
<1>6. CASE Repair(p)
  <2>1. PICK d \in todo[p] :
          /\ todo' = [todo EXCEPT ![p] = @ \ {d}]
          /\ \/ /\ row[d] \in Text
                /\ Takes(p) /\ Goes(p, "clear")
                /\ job' = [job EXCEPT ![p] = [doc |-> d, text |-> row[d], part |-> 1, old |-> "none"]]
             \/ /\ Takes(p) /\ Goes(p, "remove")
                /\ job' = [job EXCEPT ![p] = [NoJob EXCEPT !.doc = d]]
             \/ UNCHANGED <<lock, pc, job>>
    BY <1>6 DEF Repair
  <2>2. d \in Docs /\ todo' \in [Syncers -> SUBSET Docs]
    BY <2>1 DEF TypeOK
  <2>3. row[d] \in Text => [doc |-> d, text |-> row[d], part |-> 1, old |-> "none"] \in JobType
    BY <2>2, BoundsAssumption DEF JobType
  <2>4. pc' \in [Process -> At] /\ lock' \in Process \cup {"free"}
    BY <2>1, GoesType DEF At, TypeOK, Takes
  <2>5. job' \in [Process -> JobType]
    BY <2>1, <2>2, <2>3, NoJobType, JobTypes DEF TypeOK, JobType
  <2> QED BY <1>6, <2>2, <2>4, <2>5 DEF Repair, TypeOK, JobType
<1>7. CASE Remove(p)
  <2>1. job[p].doc \in Docs
    BY <1>7 DEF Remove, Placed, Locked
  <2>2. index' \in [Docs -> SUBSET Chunk]
    BY <1>7, <2>1, IndexType DEF Remove
  <2>3. pc' \in [Process -> At]
    BY <1>7, GoesType DEF Remove, At
  <2> QED BY <1>7, <2>2, <2>3 DEF Remove, Frees, TypeOK
<1> QED
  BY <1>1, <1>2, <1>3, <1>4, <1>5, <1>6, <1>7 DEF SyncStep

LEMMA OtherTypes ==
  ASSUME KInv, \/ \E p \in Process : Clear(p) \/ Fails(p)
               \/ GoesDown \/ ComesBack \/ IsLost \/ Crash \/ UNCHANGED vars
  PROVE  TypeOK'
<1> USE DEF KInv, tasks, vars
<1>1. ASSUME NEW p \in Process, Clear(p) PROVE TypeOK'
  <2>1. job[p].doc \in Docs
    BY <1>1 DEF Clear, Placed, Locked
  <2>2. index' \in [Docs -> SUBSET Chunk]
    BY <1>1, <2>1, IndexType DEF Clear
  <2>3. pc' \in [Process -> At]
    BY <1>1, GoesType DEF Clear, At
  <2> QED BY <1>1, <2>2, <2>3 DEF Clear, TypeOK
<1>2. ASSUME NEW p \in Process, Fails(p) PROVE TypeOK'
  <2>1. pc' \in [Process -> At]
    BY <1>2, GoesType DEF Fails, At
  <2>2. torn' \subseteq Docs
    BY <1>2 DEF Fails, Between, TypeOK
  <2> QED BY <1>2, <2>1, <2>2 DEF Fails, TypeOK
<1> DEFINE Counted == troubles' \in 0..Troubles
<1>3. CASE GoesDown \/ IsLost \/ Crash
  <2>1. troubles \in 0..Troubles /\ troubles < Troubles /\ troubles' = troubles + 1
    BY <1>3 DEF GoesDown, IsLost, Crash, Trouble, TypeOK
  <2>2. Counted
    BY <2>1, BoundsAssumption
  <2> HIDE DEF Counted
  <2>3. up' \in BOOLEAN
    BY <1>3 DEF GoesDown, IsLost, Crash, TypeOK
  <2>4. ready' \in BOOLEAN /\ made' \in BOOLEAN
    BY <1>3 DEF GoesDown, IsLost, Crash, TypeOK
  <2>5. index' \in [Docs -> SUBSET Chunk]
    BY <1>3 DEF GoesDown, IsLost, Crash, TypeOK
  <2>6. pc' \in [Process -> At] /\ lock' \in Process \cup {"free"}
    BY <1>3 DEF GoesDown, IsLost, Crash, TypeOK, At
  <2>7. UNCHANGED <<row, job, todo, found>>
    BY <1>3 DEF GoesDown, IsLost, Crash
  <2>8. torn' \subseteq Docs
    BY <1>3 DEF GoesDown, IsLost, Crash, Between, TypeOK
  <2> QED BY <2>2, <2>3, <2>4, <2>5, <2>6, <2>7, <2>8 DEF TypeOK, Counted
<1>4. CASE ComesBack
  <2>1. up' \in BOOLEAN
    BY <1>4 DEF ComesBack
  <2> QED BY <1>4, <2>1 DEF ComesBack, TypeOK
<1>5. CASE UNCHANGED vars
  BY <1>5 DEF TypeOK
<1> QED
  BY <1>1, <1>2, <1>3, <1>4, <1>5

-----------------------------------------------------------------------------
(* What the lock is for.                                                   *)

\* A step that changes neither the database nor the index, and takes its task to
\* a point at which it needs no lock.
LEMMA TaskLeaves ==
  ASSUME KInv, NEW p \in Process, UNCHANGED <<row, index>>,
         \A q \in Process \ {p} : pc'[q] = pc[q] /\ job'[q] = job[q],
         pc'[p] \notin Locked,
         pc'[p] \in {"unindex", "adopt"} => job'[p].doc \in Docs,
         lock' = lock \/ lock = p
  PROVE  Rest'
<1>1. Placed'
  BY DEF KInv, Placed, Locked
<1>2. Holds'
  BY DEF KInv, Holds, Locked
<1> QED
  BY <1>1, <1>2 DEF KInv, Rest, Same, WithdrawnIsOut

\* A task that takes the lock finds no other at a step that needs it.
LEMMA NobodyElse ==
  ASSUME KInv, NEW p \in Process, lock \in {"free", p}, NEW q \in Process \ {p}
  PROVE  pc[q] \notin Locked
BY FreeNames DEF KInv, Holds

\* A task with the lock that changes one document of the index or the database:
\* what matters is what it leaves there.
LEMMA TaskChanges ==
  ASSUME KInv, NEW p \in Process, lock \in {"free", p}, NEW d \in Docs,
         \A q \in Process \ {p} : pc'[q] = pc[q] /\ job'[q] = job[q],
         \A e \in Docs \ {d} : row'[e] = row[e] /\ index'[e] = index[e],
         \A c, e \in index'[d] : c[1] = e[1],
         row'[d] = "deleted" => index'[d] = {},
         pc'[p] \in Locked \cup {"unindex", "adopt"} => job'[p].doc \in Docs,
         pc'[p] \in {"clear", "write"} =>
           /\ job'[p].text \in Text /\ job'[p].part \in 1..Parts
           /\ row'[job'[p].doc] = job'[p].text,
         pc'[p] \in Locked => lock' = p,
         pc'[p] = "write" => \A c \in index'[job'[p].doc] : c[1] = job'[p].text,
         pc'[p] = "forget" => index'[job'[p].doc] = {}
  PROVE  Rest'
<1>1. \A q \in Process \ {p} : pc'[q] \notin Locked
  BY NobodyElse
<1>2. Placed'
  BY <1>1 DEF KInv, Placed, Locked
<1>3. Holds'
  BY <1>1 DEF Holds, Locked
<1>4. Same'
  BY DEF KInv, Same
<1>5. WithdrawnIsOut'
  BY DEF KInv, WithdrawnIsOut
<1> QED
  BY <1>2, <1>3, <1>4, <1>5 DEF Rest

LEMMA RequestRest ==
  ASSUME KInv, NEW r \in Requests, RequestStep(r)
  PROVE  Rest'
<1> r \in Process
  BY DEF Process
<1> USE DEF KInv, Locked, Goes, Takes, Frees, Indexes
<1>0. /\ row \in [Docs -> Text \cup {"unknown", "deleted"}] /\ index \in [Docs -> SUBSET Chunk]
      /\ pc \in [Process -> At] /\ job \in [Process -> JobType]
  BY DEF TypeOK, JobType
<1>1. ASSUME NEW d \in Docs, NEW t \in Uploads, NEW old \in Docs \cup {"none"}, Upload(r, d, t, old)
      PROVE  Rest'
  <2>1. /\ lock = "free" /\ lock' = r /\ UNCHANGED index
        /\ row' = [row EXCEPT ![d] = t] /\ pc' = [pc EXCEPT ![r] = "clear"]
        /\ job' = [job EXCEPT ![r] = [doc |-> d, text |-> t, part |-> 1, old |-> old]]
    BY <1>1 DEF Upload
  <2>2. job'[r] = [doc |-> d, text |-> t, part |-> 1, old |-> old] /\ pc'[r] = "clear" /\ row'[d] = t
    BY <1>0, <2>1
  <2>3. t \in Text /\ t # "deleted" /\ 1 \in 1..Parts
    BY TextNames, BoundsAssumption DEF Text
  <2>4. \A c, e \in index'[d] : c[1] = e[1]
    BY <2>1 DEF Same
  <2>5. \A q \in Process \ {r} : pc'[q] = pc[q] /\ job'[q] = job[q]
    BY <1>0, <2>1
  <2>6. \A e \in Docs \ {d} : row'[e] = row[e] /\ index'[e] = index[e]
    BY <1>0, <2>1
  <2> QED BY <2>1, <2>2, <2>3, <2>4, <2>5, <2>6, TaskChanges
<1>2. ASSUME NEW d \in Docs, AsksDelete(r, d) PROVE Rest'
  <2>1. /\ UNCHANGED <<row, index, lock>> /\ pc' = [pc EXCEPT ![r] = "unindex"]
        /\ job' = [job EXCEPT ![r] = [NoJob EXCEPT !.doc = d]]
    BY <1>2 DEF AsksDelete
  <2>2. pc'[r] = "unindex" /\ job'[r].doc = d
        /\ \A q \in Process \ {r} : pc'[q] = pc[q] /\ job'[q] = job[q]
    BY <1>0, <2>1 DEF NoJob
  <2> QED BY <2>1, <2>2, TaskLeaves
<1>3. CASE Unindex(r)
  <2>1. /\ lock = "free" /\ lock' = r /\ UNCHANGED <<row, job>> /\ job[r].doc \in Docs
        /\ pc' = [pc EXCEPT ![r] = "forget"] /\ index' = [index EXCEPT ![job[r].doc] = {}]
    BY <1>3 DEF Unindex, Placed
  <2>2. pc'[r] = "forget" /\ index'[job[r].doc] = {}
        /\ \A q \in Process \ {r} : pc'[q] = pc[q] /\ job'[q] = job[q]
        /\ \A e \in Docs \ {job[r].doc} : row'[e] = row[e] /\ index'[e] = index[e]
    BY <1>0, <2>1
  <2> QED BY <2>1, <2>2, TaskChanges
<1>4. CASE Forget(r)
  <2>1. /\ lock = r /\ UNCHANGED <<index, job>> /\ job[r].doc \in Docs /\ index[job[r].doc] = {}
    BY <1>4 DEF Forget, Placed, Holds
  <2>2. /\ pc'[r] = "done" /\ \A q \in Process \ {r} : pc'[q] = pc[q] /\ job'[q] = job[q]
        /\ \A e \in Docs \ {job[r].doc} : row'[e] = row[e] /\ index'[e] = index[e]
    BY <1>0, <1>4, <2>1 DEF Forget
  <2> QED BY <2>1, <2>2, TaskChanges
<1> QED
  BY <1>1, <1>2, <1>3, <1>4 DEF RequestStep, Rename

LEMMA TaskRest ==
  ASSUME KInv, NEW p \in Process, TaskStep(p)
  PROVE  Rest'
<1> USE DEF KInv, Locked, Goes, Frees, Indexes
<1>0. /\ row \in [Docs -> Text \cup {"unknown", "deleted"}] /\ index \in [Docs -> SUBSET Chunk]
      /\ pc \in [Process -> At] /\ job \in [Process -> JobType]
  BY DEF TypeOK, JobType
<1>1. CASE Clear(p)
  <2>1. /\ lock = p /\ job[p].doc \in Docs /\ job[p].text \in Text /\ job[p].part \in 1..Parts
        /\ row[job[p].doc] = job[p].text
        /\ UNCHANGED <<row, lock, job>> /\ pc' = [pc EXCEPT ![p] = "write"]
        /\ index' = [index EXCEPT ![job[p].doc] = {}]
    BY <1>1 DEF Clear, Placed, Holds
  <2>2. pc'[p] = "write" /\ index'[job[p].doc] = {}
        /\ \A q \in Process \ {p} : pc'[q] = pc[q] /\ job'[q] = job[q]
        /\ \A e \in Docs \ {job[p].doc} : row'[e] = row[e] /\ index'[e] = index[e]
    BY <1>0, <2>1
  <2> QED BY <2>1, <2>2, TaskChanges
<1>2. CASE Write(p)
  <2> DEFINE d == job[p].doc
             t == job[p].text
  <2>1. /\ lock = p /\ d \in Docs /\ t \in Text /\ job[p].part \in 1..Parts
        /\ row[d] = t /\ \A c \in index[d] : c[1] = t
        /\ pc[p] = "write" /\ UNCHANGED row
        /\ index' = [index EXCEPT ![d] = index[d] \cup {<<t, job[p].part>>}]
    BY <1>2 DEF Write, Placed, Holds
  <2>2. /\ index'[d] = index[d] \cup {<<t, job[p].part>>}
        /\ \A e \in Docs \ {d} : row'[e] = row[e] /\ index'[e] = index[e]
    BY <1>0, <2>1
  <2>3. \A c \in index'[d] : c[1] = t
    BY <2>1, <2>2
  <2>4. row'[d] # "deleted"
    BY <2>1, TextNames
  <2>5. \A q \in Process \ {p} : pc'[q] = pc[q] /\ job'[q] = job[q]
    BY <1>0, <1>2 DEF Write
  <2>6. CASE /\ job[p].part < Parts /\ job' = [job EXCEPT ![p].part = @ + 1]
             /\ UNCHANGED <<lock, pc>>
    <3>1. job'[p].doc = d /\ job'[p].text = t /\ job'[p].part = job[p].part + 1
      BY <1>0, <2>6 DEF JobType
    <3>2. job'[p].part \in 1..Parts
      BY <2>1, <2>6, <3>1, BoundsAssumption
    <3> HIDE DEF d, t
    <3> QED BY <2>1, <2>2, <2>3, <2>4, <2>5, <2>6, <3>1, <3>2, TaskChanges
  <2>7. CASE job[p].part = Parts /\ Frees(p) /\ Goes(p, After(p)) /\ UNCHANGED job
    <3>1. pc'[p] \in {"done", "repairing"}
      BY <1>0, <2>7 DEF After
    <3> HIDE DEF d, t
    <3> QED BY <2>1, <2>2, <2>3, <2>4, <2>5, <3>1, TaskChanges
  <2>8. CASE /\ job[p].old # "none" /\ Frees(p) /\ Goes(p, "unindex")
             /\ job' = [job EXCEPT ![p].doc = job[p].old, ![p].old = "none"]
    <3>1. pc'[p] = "unindex" /\ job'[p].doc = job[p].old /\ job[p].old \in Docs
      BY <1>0, <2>8 DEF JobType
    <3> HIDE DEF d, t
    <3> QED BY <2>1, <2>2, <2>3, <2>4, <2>5, <3>1, TaskChanges
  <2> QED BY <1>2, <2>6, <2>7, <2>8 DEF Write
<1>3. CASE Fails(p)
  <2>1. /\ UNCHANGED <<row, index, job>> /\ (lock' = lock \/ lock = p)
        /\ pc'[p] \in {"done", "idle"} /\ \A q \in Process \ {p} : pc'[q] = pc[q]
    BY <1>0, <1>3 DEF Fails
  <2>2. UNCHANGED <<row, index>> /\ \A q \in Process \ {p} : pc'[q] = pc[q] /\ job'[q] = job[q]
    BY <2>1
  <2>3. pc'[p] \notin Locked /\ (pc'[p] \in {"unindex", "adopt"} => job'[p].doc \in Docs)
    BY <2>1
  <2> QED BY <2>1, <2>2, <2>3, TaskLeaves
<1> QED
  BY <1>1, <1>2, <1>3 DEF TaskStep

LEMMA SyncRest ==
  ASSUME KInv, NEW p \in Syncers, SyncStep(p)
  PROVE  Rest'
<1> p \in Process
  BY DEF Process
<1> USE DEF KInv, Locked, Goes, Takes, Frees, Indexes
<1>0. /\ row \in [Docs -> Text \cup {"unknown", "deleted"}] /\ index \in [Docs -> SUBSET Chunk]
      /\ pc \in [Process -> At] /\ job \in [Process -> JobType] /\ todo \in [Syncers -> SUBSET Docs]
  BY DEF TypeOK, JobType
<1>1. CASE \/ Begins(p) \/ Ensure(p) \/ ReadKnown(p) \/ ListIndex(p) \/ Adopted(p)
           \/ Survey(p) \/ Compare(p) \/ Repaired(p)
  <2>1. /\ UNCHANGED <<row, index, job, lock>> /\ pc'[p] \notin Locked \cup {"unindex", "adopt"}
        /\ \A q \in Process \ {p} : pc'[q] = pc[q]
    BY <1>0, <1>1 DEF Begins, Ensure, ReadKnown, ListIndex, Adopted, Survey, Compare, Repaired
  <2> QED BY <2>1, TaskLeaves
<1>2. CASE Export(p)
  <2>1. PICK d \in todo[p] :
             \/ UNCHANGED <<pc, job>>
             \/ /\ pc' = [pc EXCEPT ![p] = "adopt"]
                /\ job' = [job EXCEPT ![p] = [NoJob EXCEPT !.doc = d]]
    BY <1>2 DEF Export
  <2>2. d \in Docs /\ pc[p] = "adopting" /\ UNCHANGED <<row, index, lock>>
    BY <1>0, <1>2 DEF Export
  <2>3. /\ pc'[p] \notin Locked
        /\ pc'[p] \in {"unindex", "adopt"} => job'[p].doc \in Docs
        /\ \A q \in Process \ {p} : pc'[q] = pc[q] /\ job'[q] = job[q]
    BY <1>0, <2>1, <2>2 DEF NoJob
  <2>4. UNCHANGED <<row, index>> /\ lock' = lock
    BY <2>2
  <2> QED BY <2>3, <2>4, TaskLeaves
<1>3. CASE Adopt(p)
  <2> DEFINE d == job[p].doc
  <2>1. /\ lock = "free" /\ d \in Docs /\ UNCHANGED <<index, job, lock>>
        /\ pc' = [pc EXCEPT ![p] = "adopting"]
        /\ row' = [row EXCEPT ![d] = IF @ = "unknown" THEN "recovered" ELSE @]
    BY <1>3 DEF Adopt, Placed
  <2>2. /\ pc'[p] = "adopting" /\ \A q \in Process \ {p} : pc'[q] = pc[q] /\ job'[q] = job[q]
        /\ \A e \in Docs \ {d} : row'[e] = row[e] /\ index'[e] = index[e]
        /\ row'[d] = "deleted" => row[d] = "deleted"
    BY <1>0, <2>1
  <2>3. /\ \A c, e \in index'[d] : c[1] = e[1]
        /\ row'[d] = "deleted" => index'[d] = {}
    BY <2>1, <2>2 DEF Same, WithdrawnIsOut
  <2> HIDE DEF d
  <2> QED BY <2>1, <2>2, <2>3, TaskChanges
<1>4. CASE Repair(p)
  <2>1. PICK d \in todo[p] :
             \/ /\ row[d] \in Text /\ Takes(p) /\ Goes(p, "clear")
                /\ job' = [job EXCEPT ![p] = [doc |-> d, text |-> row[d], part |-> 1, old |-> "none"]]
             \/ /\ Takes(p) /\ Goes(p, "remove")
                /\ job' = [job EXCEPT ![p] = [NoJob EXCEPT !.doc = d]]
             \/ UNCHANGED <<lock, pc, job>>
    BY <1>4 DEF Repair
  <2>2. d \in Docs /\ pc[p] = "repairing" /\ UNCHANGED <<row, index>>
    BY <1>0, <1>4 DEF Repair
  <2>3. CASE UNCHANGED <<lock, pc, job>>
    BY <2>2, <2>3, TaskLeaves
  <2>4. (\A c, e \in index'[d] : c[1] = e[1]) /\ (row'[d] = "deleted" => index'[d] = {})
    BY <2>2 DEF Same, WithdrawnIsOut
  <2>5. CASE /\ row[d] \in Text /\ Takes(p) /\ Goes(p, "clear")
             /\ job' = [job EXCEPT ![p] = [doc |-> d, text |-> row[d], part |-> 1, old |-> "none"]]
    <3>1. /\ pc'[p] = "clear" /\ job'[p] = [doc |-> d, text |-> row[d], part |-> 1, old |-> "none"]
          /\ \A q \in Process \ {p} : pc'[q] = pc[q] /\ job'[q] = job[q]
      BY <1>0, <2>5
    <3>2. 1 \in 1..Parts
      BY BoundsAssumption
    <3> QED BY <2>2, <2>4, <2>5, <3>1, <3>2, TaskChanges
  <2>6. CASE /\ Takes(p) /\ Goes(p, "remove")
             /\ job' = [job EXCEPT ![p] = [NoJob EXCEPT !.doc = d]]
    <3>1. /\ pc'[p] = "remove" /\ job'[p].doc = d
          /\ \A q \in Process \ {p} : pc'[q] = pc[q] /\ job'[q] = job[q]
      BY <1>0, <2>6 DEF NoJob
    <3> QED BY <2>2, <2>4, <2>6, <3>1, TaskChanges
  <2> QED BY <2>1, <2>3, <2>5, <2>6
<1>5. CASE Remove(p)
  <2>1. /\ lock = p /\ job[p].doc \in Docs /\ UNCHANGED <<row, job>>
        /\ pc' = [pc EXCEPT ![p] = "repairing"] /\ index' = [index EXCEPT ![job[p].doc] = {}]
    BY <1>5 DEF Remove, Placed, Holds
  <2>2. pc'[p] = "repairing" /\ index'[job[p].doc] = {}
        /\ \A q \in Process \ {p} : pc'[q] = pc[q] /\ job'[q] = job[q]
        /\ \A e \in Docs \ {job[p].doc} : row'[e] = row[e] /\ index'[e] = index[e]
    BY <1>0, <2>1
  <2> QED BY <2>1, <2>2, TaskChanges
<1> QED
  BY <1>1, <1>2, <1>3, <1>4, <1>5 DEF SyncStep

LEMMA OtherRest ==
  ASSUME KInv, GoesDown \/ ComesBack \/ IsLost \/ Crash \/ UNCHANGED vars
  PROVE  Rest'
<1> USE DEF KInv, tasks, vars
<1>1. CASE GoesDown \/ ComesBack \/ UNCHANGED vars
  <2>1. UNCHANGED <<row, index, lock, pc, job>>
    BY <1>1 DEF GoesDown, ComesBack
  <2> QED BY <2>1 DEF Rest, Placed, Holds, Same, WithdrawnIsOut
<1>2. CASE IsLost
  <2>1. UNCHANGED <<row, lock, pc, job>> /\ \A d \in Docs : index'[d] = {}
    BY <1>2 DEF IsLost
  <2> QED BY <2>1 DEF Rest, Placed, Holds, Same, WithdrawnIsOut, Locked
<1>3. CASE Crash
  <2>1. UNCHANGED <<row, index, job>> /\ \A p \in Process : pc'[p] \in {"idle", "done"}
    BY <1>3 DEF Crash
  <2> QED BY <2>1 DEF Rest, Placed, Holds, Same, WithdrawnIsOut, Locked
<1> QED
  BY <1>1, <1>2, <1>3

LEMMA KInvAlways == Spec => []KInv
<1>1. Init => KInv
  <2> SUFFICES ASSUME Init PROVE KInv
    OBVIOUS
  <2>1. \A d \in Docs : index[d] \in {{}, {"legacy"} \X (1..Parts)}
    BY DEF Init
  <2>2. TypeOK
    <3>1. \A d \in Docs : index[d] \in SUBSET Chunk
      BY <2>1 DEF Chunk
    <3>2. index \in [Docs -> SUBSET Chunk]
      BY <3>1 DEF Init
    <3>3. NoJob \in JobType
      BY BoundsAssumption DEF NoJob, JobType
    <3>4. job \in [Process -> JobType]
      BY <3>3 DEF Init
    <3>5. troubles \in 0..Troubles
      BY BoundsAssumption DEF Init
    <3>6. /\ row \in [Docs -> Text \cup {"unknown", "deleted"}] /\ pc \in [Process -> At]
          /\ todo \in [Syncers -> SUBSET Docs]
          /\ found \in [Syncers -> [Docs -> SUBSET (Text \cup {"legacy"})]]
      BY DEF Init, At
    <3>7. up \in BOOLEAN /\ made \in BOOLEAN /\ ready \in BOOLEAN /\ lock \in Process \cup {"free"}
      BY DEF Init
    <3>8. torn \subseteq Docs
      BY DEF Init
    <3> QED BY <3>2, <3>4, <3>5, <3>6, <3>7, <3>8 DEF TypeOK, JobType
  <2>3. Placed /\ Holds
    BY DEF Init, Placed, Holds, Locked
  <2>4. Same /\ WithdrawnIsOut
    BY <2>1 DEF Init, Same, WithdrawnIsOut
  <2> QED BY <2>2, <2>3, <2>4 DEF KInv
<1>2. KInv /\ [Next]_vars => KInv'
  <2> SUFFICES ASSUME KInv, [Next]_vars PROVE KInv'
    OBVIOUS
  <2>1. TypeOK'
    BY WriteTypes, RequestTypes, SyncTypes, OtherTypes DEF Next, TaskStep
  <2>2. Rest'
    BY RequestRest, SyncRest, TaskRest, OtherRest DEF Next
  <2> QED BY <2>1, <2>2 DEF KInv, Rest
<1> QED
  BY <1>1, <1>2, PTL DEF Spec

-----------------------------------------------------------------------------
(* What a document is held of.                                             *)

\* Whoever indexes a document has stored the batches before the one it is at; of the
\* others all is there or nothing.
Filled ==
  /\ \A p \in Process : pc[p] = "clear" => job[p].part = 1
  /\ \A d \in Docs \ torn, p \in Process :
       Writes(p, d) => index[d] = {job[p].text} \X (1..(job[p].part - 1))
  /\ HeldWhole

LEMMA NoBatches == \A t : {t} \X (1..(1 - 1)) = {}
OBVIOUS

\* A step that leaves the index alone, and whoever is writing at it.
LEMMA FilledStays ==
  ASSUME Filled, UNCHANGED <<index, torn>>,
         \A q \in Process : pc'[q] = "clear" => job'[q].part = 1,
         \A q \in Process : /\ pc'[q] = "write" <=> pc[q] = "write"
                            /\ pc[q] = "write" => job'[q] = job[q]
  PROVE  Filled'
<1>1. \A d \in Docs, q \in Process : Writes(q, d)' <=> Writes(q, d)
  BY DEF Writes
<1>2. HeldWhole'
  BY <1>1 DEF Filled, HeldWhole
<1>3. ASSUME NEW d \in Docs \ torn', NEW q \in Process, Writes(q, d)'
      PROVE  index'[d] = {job'[q].text} \X (1..(job'[q].part - 1))
  <2>1. job'[q] = job[q] /\ Writes(q, d) /\ d \in Docs \ torn
    BY <1>1, <1>3 DEF Writes
  <2> QED BY <2>1 DEF Filled
<1> QED BY <1>2, <1>3 DEF Filled

\* A task with the lock empties a document.
LEMMA FilledEmpties ==
  ASSUME KInv, Filled, NEW p \in Process, lock \in {"free", p},
         NEW d \in Docs, index' = [index EXCEPT ![d] = {}], torn' = torn \ {d},
         \A q \in Process \ {p} : pc'[q] = pc[q] /\ job'[q] = job[q],
         pc[p] # "write", pc'[p] # "clear",
         pc'[p] = "write" => job'[p].part = 1 /\ job'[p].doc = d
  PROVE  Filled'
<1>0. /\ index'[d] = {} /\ \A e \in Docs \ {d} : index'[e] = index[e]
  BY DEF KInv, TypeOK
<1>1. \A q \in Process \ {p} : pc'[q] # "write" /\ pc[q] # "write" /\ pc'[q] # "clear"
  BY NobodyElse DEF Locked
<1>2. ASSUME NEW e \in Docs \ torn', NEW q \in Process, Writes(q, e)'
      PROVE  index'[e] = {job'[q].text} \X (1..(job'[q].part - 1))
  <2>1. q = p /\ e = d /\ job'[q].part = 1
    BY <1>1, <1>2 DEF Writes
  <2> QED BY <1>0, <2>1, NoBatches
<1>3. ASSUME NEW e \in Docs \ torn', e # d
      PROVE  \/ index'[e] = {}
             \/ \E c \in index'[e] : index'[e] = {c[1]} \X (1..Parts)
  <2>1. e \in Docs \ torn /\ index'[e] = index[e]
    BY <1>0, <1>3
  <2>2. \A q \in Process : ~Writes(q, e)
    BY <1>1 DEF Writes
  <2> QED BY <2>1, <2>2 DEF Filled, HeldWhole
<1> QED BY <1>0, <1>1, <1>2, <1>3 DEF Filled, HeldWhole

\* One batch more is stored.
LEMMA FilledWrites ==
  ASSUME KInv, Filled, NEW p \in Process, Write(p)
  PROVE  Filled'
<1> DEFINE d == job[p].doc
           t == job[p].text
           k == job[p].part
<1>1. /\ pc[p] = "write" /\ lock = p /\ d \in Docs /\ t \in Text /\ k \in 1..Parts
      /\ index' = [index EXCEPT ![d] = @ \cup {<<t, k>>}] /\ torn' = torn
  BY DEF Write, Indexes, KInv, Placed, Holds, Locked
<1>2. index'[d] = index[d] \cup {<<t, k>>} /\ \A e \in Docs \ {d} : index'[e] = index[e]
  <2> HIDE DEF d, t, k
  <2> QED BY <1>1 DEF KInv, TypeOK
<1>3. \A q \in Process \ {p} : pc'[q] = pc[q] /\ job'[q] = job[q] /\ pc[q] \notin {"write", "clear"}
  <2>1. \A q \in Process \ {p} : pc'[q] = pc[q] /\ job'[q] = job[q]
    BY DEF Write, Goes, KInv, TypeOK
  <2> QED BY <1>1, <2>1, NobodyElse DEF Locked
<1>4. k \in Nat /\ k >= 1 /\ Parts \in Nat
  BY <1>1, BoundsAssumption
<1>5. d \notin torn => index'[d] = {t} \X (1..k)
  <2>1. ASSUME d \notin torn PROVE index[d] = {t} \X (1..(k - 1))
    BY <1>1, <2>1 DEF Filled, Writes
  <2>2. 1..k = (1..(k - 1)) \cup {k}
    BY <1>4
  <2>3. {t} \X (1..k) = ({t} \X (1..(k - 1))) \cup {<<t, k>>}
    <3> HIDE DEF t, k
    <3> QED BY <2>2
  <2> HIDE DEF d, t, k
  <2> QED BY <1>2, <2>1, <2>3
<1>6. \/ /\ k < Parts /\ pc'[p] = "write" /\ job'[p].doc = d /\ job'[p].text = t
         /\ job'[p].part = k + 1
      \/ k = Parts /\ pc'[p] \notin {"write", "clear"}
  <2>1. CASE k < Parts /\ job' = [job EXCEPT ![p].part = @ + 1] /\ UNCHANGED <<lock, pc>>
    BY <1>1, <2>1 DEF KInv, TypeOK
  <2>2. CASE k = Parts /\ Goes(p, After(p))
    BY <1>1, <2>2 DEF KInv, TypeOK, Goes, After
  <2>3. CASE k = Parts /\ Goes(p, "unindex")
    BY <1>1, <2>3 DEF KInv, TypeOK, Goes
  <2> QED BY <2>1, <2>2, <2>3 DEF Write
<1>7. \A e \in Docs \ {d}, q \in Process : ~Writes(q, e) /\ ~Writes(q, e)'
  BY <1>1, <1>3, <1>6 DEF Writes
<1>8. ASSUME NEW e \in Docs \ torn', NEW q \in Process, Writes(q, e)'
      PROVE  index'[e] = {job'[q].text} \X (1..(job'[q].part - 1))
  <2>1. q = p /\ e = d /\ job'[q].text = t /\ job'[q].part = k + 1
    BY <1>3, <1>6, <1>7, <1>8 DEF Writes
  <2>2. (k + 1) - 1 = k
    BY <1>4
  <2> HIDE DEF d, t, k
  <2> QED BY <1>1, <1>5, <2>1, <2>2
<1>9. ASSUME NEW e \in Docs \ torn', \A q \in Process : ~Writes(q, e)'
      PROVE  \/ index'[e] = {}
             \/ \E c \in index'[e] : index'[e] = {c[1]} \X (1..Parts)
  <2>1. CASE e # d
    <3>1. e \in Docs \ torn /\ index'[e] = index[e] /\ \A q \in Process : ~Writes(q, e)
      BY <1>1, <1>2, <1>7, <2>1
    <3> QED BY <3>1 DEF Filled, HeldWhole
  <2>2. CASE e = d
    <3>1. k = Parts
      BY <1>6, <1>9, <2>2 DEF Writes
    <3>2. <<t, k>> \in index'[d] /\ <<t, k>>[1] = t /\ index'[d] = {t} \X (1..Parts)
      BY <1>1, <1>2, <1>5, <1>9, <2>2, <3>1
    <3> HIDE DEF d, t, k
    <3> QED BY <2>2, <3>2
  <2> QED BY <2>1, <2>2
<1>10. \A q \in Process : pc'[q] # "clear"
  BY <1>3, <1>6
<1> HIDE DEF d, t, k
<1> QED BY <1>8, <1>9, <1>10 DEF Filled, HeldWhole

\* Tasks are broken off: what they had begun is torn, unless nothing of it is there.
LEMMA FilledBreaks ==
  ASSUME KInv, Filled, NEW S \in SUBSET Process, UNCHANGED job,
         \/ UNCHANGED index /\ torn' = torn \cup UNION {Between(p) : p \in S}
         \/ (\A d \in Docs : index'[d] = {}) /\ torn' = UNION {Between(p) : p \in Process},
         \A q \in Process \ S : pc'[q] = pc[q],
         \A q \in S : pc'[q] \notin {"write", "clear"}
  PROVE  Filled'
<1>1. \A q \in Process : job[q].part \in Nat /\ (pc[q] = "write" => job[q].part >= 1)
  BY BoundsAssumption DEF KInv, TypeOK, Placed
<1>2. ASSUME NEW d \in Docs \ torn', NEW q \in Process, Writes(q, d), d \notin Between(q)
      PROVE  {job[q].text} \X (1..(job[q].part - 1)) = {}
  <2>1. job[q].part = 1
    BY <1>1, <1>2 DEF Writes, Between
  <2> QED BY <2>1, NoBatches
<1>3. ASSUME NEW d \in Docs \ torn', NEW q \in Process, Writes(q, d)'
      PROVE  index'[d] = {job'[q].text} \X (1..(job'[q].part - 1))
  <2>1. Writes(q, d) /\ q \notin S
    BY <1>3 DEF Writes
  <2>2. CASE UNCHANGED index /\ torn' = torn \cup UNION {Between(p) : p \in S}
    BY <1>3, <2>1, <2>2 DEF Filled
  <2>3. CASE (\A e \in Docs : index'[e] = {}) /\ torn' = UNION {Between(p) : p \in Process}
    BY <1>2, <1>3, <2>1, <2>3
  <2> QED BY <2>2, <2>3
<1>4. ASSUME NEW d \in Docs \ torn', \A q \in Process : ~Writes(q, d)', index'[d] # {}
      PROVE  \E c \in index'[d] : index'[d] = {c[1]} \X (1..Parts)
  <2>1. UNCHANGED index /\ torn' = torn \cup UNION {Between(p) : p \in S}
    BY <1>4
  <2>2. CASE \A q \in Process : ~Writes(q, d)
    BY <1>4, <2>1, <2>2 DEF Filled, HeldWhole
  <2>3. ASSUME NEW q \in Process, Writes(q, d) PROVE FALSE
    <3>1. q \in S
      BY <1>4, <2>3 DEF Writes
    <3>2. d \notin Between(q) /\ d \notin torn
      BY <1>4, <2>1, <3>1
    <3> QED BY <1>2, <1>4, <2>1, <2>3, <3>2 DEF Filled
  <2> QED BY <2>2, <2>3
<1>5. \A q \in Process : pc'[q] = "clear" => job'[q].part = 1
  BY DEF Filled
<1> QED BY <1>3, <1>4, <1>5 DEF Filled, HeldWhole

LEMMA FilledKept ==
  ASSUME KInv, Filled, [Next]_vars
  PROVE  Filled'
<1>0. /\ Requests \subseteq Process /\ Syncers \subseteq Process
      /\ pc \in [Process -> At] /\ job \in [Process -> JobType]
  BY DEF Process, KInv, TypeOK, JobType
<1>1. CASE UNCHANGED vars
  BY <1>1, FilledStays DEF vars, tasks, Filled
<1>2. ASSUME NEW r \in Requests, RequestStep(r) PROVE Filled'
  <2>0. r \in Process
    BY <1>0
  <2>1. ASSUME NEW d \in Docs, NEW t \in Uploads, NEW old, Upload(r, d, t, old) PROVE Filled'
    <3>1. /\ UNCHANGED <<index, torn>> /\ pc[r] = "idle"
          /\ pc'[r] = "clear" /\ job'[r].part = 1
          /\ \A q \in Process \ {r} : pc'[q] = pc[q] /\ job'[q] = job[q]
      BY <1>0, <2>0, <2>1 DEF Upload, Goes
    <3> QED BY <3>1, FilledStays DEF Filled
  <2>2. CASE (\E d \in Docs : AsksDelete(r, d)) \/ Forget(r)
    <3>1. /\ UNCHANGED <<index, torn>> /\ pc[r] # "write" /\ pc'[r] \notin {"write", "clear"}
          /\ \A q \in Process \ {r} : pc'[q] = pc[q] /\ job'[q] = job[q]
      BY <1>0, <2>0, <2>2 DEF AsksDelete, Forget, Goes
    <3> QED BY <3>1, FilledStays DEF Filled
  <2>3. CASE Unindex(r)
    <3>1. /\ lock = "free" /\ job[r].doc \in Docs /\ torn' = torn \ {job[r].doc}
          /\ index' = [index EXCEPT ![job[r].doc] = {}]
          /\ pc[r] = "unindex" /\ pc'[r] = "forget"
          /\ \A q \in Process \ {r} : pc'[q] = pc[q] /\ job'[q] = job[q]
      BY <1>0, <2>0, <2>3 DEF Unindex, Takes, Goes, Indexes, KInv, Placed
    <3> QED BY <2>0, <3>1, FilledEmpties
  <2> QED BY <1>2, <2>1, <2>2, <2>3 DEF RequestStep, Rename
<1>3. ASSUME NEW p \in Syncers, SyncStep(p) PROVE Filled'
  <2>0. p \in Process
    BY <1>0
  <2>1. CASE \/ Begins(p) \/ Ensure(p) \/ ReadKnown(p) \/ ListIndex(p) \/ Export(p)
             \/ Adopt(p) \/ Adopted(p) \/ Survey(p) \/ Compare(p) \/ Repaired(p)
    <3>1. /\ UNCHANGED <<index, torn>> /\ pc[p] # "write" /\ pc'[p] \notin {"write", "clear"}
          /\ \A q \in Process \ {p} : pc'[q] = pc[q] /\ job'[q] = job[q]
      BY <1>0, <2>0, <2>1 DEF Begins, Ensure, ReadKnown, ListIndex, Export, Adopt, Adopted,
                              Survey, Compare, Repaired, Goes
    <3> QED BY <3>1, FilledStays DEF Filled
  <2>2. CASE Repair(p)
    <3>1. /\ UNCHANGED <<index, torn>> /\ pc[p] # "write" /\ pc'[p] # "write"
          /\ pc'[p] = "clear" => job'[p].part = 1
          /\ \A q \in Process \ {p} : pc'[q] = pc[q] /\ job'[q] = job[q]
      BY <1>0, <2>0, <2>2 DEF Repair, Goes
    <3> QED BY <3>1, FilledStays DEF Filled
  <2>3. CASE Remove(p)
    <3>1. /\ lock = p /\ job[p].doc \in Docs /\ torn' = torn \ {job[p].doc}
          /\ index' = [index EXCEPT ![job[p].doc] = {}]
          /\ pc[p] = "remove" /\ pc'[p] = "repairing"
          /\ \A q \in Process \ {p} : pc'[q] = pc[q] /\ job'[q] = job[q]
      BY <1>0, <2>0, <2>3 DEF Remove, Goes, Indexes, KInv, Placed, Holds, Locked
    <3> QED BY <2>0, <3>1, FilledEmpties
  <2> QED BY <1>3, <2>1, <2>2, <2>3 DEF SyncStep
<1>4. ASSUME NEW p \in Process, Clear(p) PROVE Filled'
  <2>1. /\ lock = p /\ job[p].doc \in Docs /\ torn' = torn \ {job[p].doc}
        /\ index' = [index EXCEPT ![job[p].doc] = {}]
        /\ pc[p] = "clear" /\ pc'[p] = "write" /\ job' = job /\ job[p].part = 1
        /\ \A q \in Process \ {p} : pc'[q] = pc[q]
    BY <1>0, <1>4 DEF Clear, Goes, Indexes, KInv, Placed, Holds, Locked, Filled
  <2> QED BY <2>1, FilledEmpties
<1>5. ASSUME NEW p \in Process, Fails(p) PROVE Filled'
  <2>1. /\ UNCHANGED <<index, job>> /\ torn' = torn \cup Between(p)
        /\ pc'[p] \in {"done", "idle"} /\ \A q \in Process \ {p} : pc'[q] = pc[q]
    BY <1>0, <1>5 DEF Fails, Goes
  <2>2. {p} \in SUBSET Process /\ UNION {Between(q) : q \in {p}} = Between(p)
    OBVIOUS
  <2> QED BY <2>1, <2>2, FilledBreaks
<1>6. CASE GoesDown \/ ComesBack
  BY <1>6, FilledStays DEF GoesDown, ComesBack, tasks, Filled
<1>7. CASE IsLost
  <2>1. /\ UNCHANGED <<pc, job>> /\ \A d \in Docs : index'[d] = {}
        /\ torn' = UNION {Between(p) : p \in Process}
    BY <1>7 DEF IsLost, tasks
  <2>2. {} \in SUBSET Process
    OBVIOUS
  <2> QED BY <2>1, <2>2, FilledBreaks
<1>8. CASE Crash
  <2>1. /\ UNCHANGED <<index, job>> /\ torn' = torn \cup UNION {Between(p) : p \in Process}
        /\ \A q \in Process : pc'[q] \in {"idle", "done"}
    BY <1>8 DEF Crash
  <2>2. Process \in SUBSET Process
    OBVIOUS
  <2> QED BY <2>1, <2>2, FilledBreaks
<1> QED BY <1>1, <1>2, <1>3, <1>4, <1>5, <1>6, <1>7, <1>8, FilledWrites DEF Next, TaskStep

\* What is held of a document that nobody is indexing is all of it, unless its indexing
\* was broken off between two batches (_index embeds and stores 64 chunks at a time).
THEOREM DocumentsAreWhole == Spec => []HeldWhole
<1>1. Init => Filled
  <2> SUFFICES ASSUME Init PROVE Filled
    OBVIOUS
  <2>1. ASSUME NEW d \in Docs, index[d] # {}
        PROVE  \E c \in index[d] : index[d] = {c[1]} \X (1..Parts)
    <3>1. index[d] = {"legacy"} \X (1..Parts)
      BY <2>1 DEF Init
    <3>2. \A c \in index[d] : c[1] = "legacy"
      BY <3>1
    <3> QED BY <2>1, <3>1, <3>2
  <2> QED BY <2>1 DEF Init, Filled, HeldWhole, Writes
<1>2. KInv /\ Filled /\ [Next]_vars => Filled'
  BY FilledKept
<1>3. Filled => HeldWhole
  BY DEF Filled
<1> QED BY <1>1, <1>2, <1>3, KInvAlways, PTL DEF Spec

\* The store of documents and its index keep their types.
THEOREM KnowledgeTyped == Spec => []TypeOK
<1>1. KInv => TypeOK
  BY DEF KInv
<1> QED
  BY <1>1, KInvAlways, PTL

\* A withdrawn document is nowhere in the index, whoever is uploading, renaming
\* or reconciling at the time and wherever they were interrupted.
THEOREM WithdrawnStaysOut == Spec => []WithdrawnIsOut
<1>1. KInv => WithdrawnIsOut
  BY DEF KInv
<1> QED
  BY <1>1, KInvAlways, PTL

\* No document is in the index in two versions at once.
THEOREM OneVersionAlways == Spec => []OneVersion
<1>1. ASSUME KInv, NEW d \in Docs PROVE Cardinality(Hashes(d)) <= 1
  <2>1. \A x, y \in Hashes(d) : x = y
    BY <1>1 DEF KInv, Same, Hashes
  <2>2. CASE Hashes(d) = {}
    BY <2>2, FS_EmptySet
  <2>3. CASE Hashes(d) # {}
    <3>1. PICK x \in Hashes(d) : TRUE
      BY <2>3
    <3>2. Hashes(d) = {x}
      BY <2>1, <3>1
    <3>3. Cardinality({x}) = 1
      BY FS_Singleton
    <3> QED BY <3>2, <3>3
  <2> QED BY <2>2, <2>3
<1>2. KInv => OneVersion
  BY <1>1 DEF OneVersion
<1> QED
  BY <1>2, KInvAlways, PTL

\* So what can be found of a document is one version of it, of a withdrawn one nothing
\* and of one nobody is indexing all of it but for the batches a failure took, whoever
\* indexes, withdraws, renames or reconciles it at the time.
THEOREM IndexIsHonest == Spec => []IndexHonest
  BY OneVersionAlways, WithdrawnStaysOut, DocumentsAreWhole, PTL DEF IndexHonest

-----------------------------------------------------------------------------
(* What the documents promise. *)

\* The texts by which a document can be found, as KnowledgePromise has them.
Shown == [d \in Docs |-> Hashes(d)]

LEMMA ShownNext ==
  ASSUME TypeOK, NEW d \in Docs, NEW chunks, Indexes(d, chunks)
  PROVE  Shown' = [Shown EXCEPT ![d] = {c[1] : c \in chunks}]
<1>1. index'[d] = chunks /\ \A e \in Docs \ {d} : index'[e] = index[e]
  BY DEF Indexes, TypeOK
<1>2. Hashes(d)' = {c[1] : c \in chunks} /\ \A e \in Docs \ {d} : Hashes(e)' = Hashes(e)
  BY <1>1 DEF Hashes
<1> QED BY <1>2 DEF Shown

LEMMA ShownSame ==
  ASSUME index' = index
  PROVE  Shown' = Shown
BY DEF Shown, Hashes

\* The step of a task that empties a document hides it.
LEMMA EmptiedHides ==
  ASSUME TypeOK, NEW d \in Docs, Indexes(d, {}), row' = row
  PROVE  Promise!Hide(d)
<1>1. Shown' = [Shown EXCEPT ![d] = {}]
  BY ShownNext
<1> QED BY <1>1 DEF Shown, Promise!Hide

LEMMA WriteShows ==
  ASSUME KInv, NEW p \in Process, Write(p)
  PROVE  Promise!Show(job[p].doc)
<1> DEFINE d == job[p].doc
           t == job[p].text
<1>1. /\ pc[p] = "write" /\ row' = row
      /\ Indexes(d, index[d] \cup {<<t, job[p].part>>})
  BY DEF Write
<1>2. d \in Docs /\ t \in Text /\ row[d] = t /\ \A c \in index[d] : c[1] = t
  BY <1>1 DEF KInv, Placed, Holds, Locked
<1>3. Shown' = [Shown EXCEPT ![d] = {c[1] : c \in index[d] \cup {<<t, job[p].part>>}}]
  BY <1>1, <1>2, ShownNext DEF KInv
<1>4. {c[1] : c \in index[d] \cup {<<t, job[p].part>>}} = {t}
  <2>1. <<t, job[p].part>>[1] = t
    OBVIOUS
  <2> HIDE DEF d, t
  <2> QED BY <1>2, <2>1
<1>5. Shown[d] \subseteq {row[d]}
  BY <1>2 DEF Shown, Hashes
<1>6. row[d] \notin {"unknown", "deleted"}
  BY <1>2, TextNames
<1> HIDE DEF d
<1>7. Promise!Show(d)
  BY <1>1, <1>2, <1>3, <1>4, <1>5, <1>6 DEF Promise!Show, Shown
<1> QED BY <1>7 DEF d

LEMMA PromiseStep ==
  ASSUME KInv, [Next]_vars
  PROVE  [Promise!Next]_<<row, Shown>>
<1>0. TypeOK /\ Placed /\ Holds
  BY DEF KInv
<1>1. ASSUME NEW r \in Requests, NEW d \in Docs, NEW t \in Uploads, NEW old, Upload(r, d, t, old)
      PROVE  Promise!Save(d)
  BY <1>1, ShownSame DEF Upload, Promise!Save, Shown
<1>2. ASSUME NEW r \in Requests, RequestStep(r)
      PROVE  Promise!Next \/ UNCHANGED <<row, Shown>>
  <2> r \in Process
    BY DEF Process
  <2>1. CASE \E d \in Docs, t \in Uploads : Upload(r, d, t, "none")
    BY <1>1, <2>1 DEF Promise!Next
  <2>2. CASE \E d, new \in Docs, t \in Uploads : Rename(r, d, new, t)
    BY <1>1, <2>2 DEF Rename, Promise!Next
  <2>3. CASE \E d \in Docs : AsksDelete(r, d)
    BY <2>3, ShownSame DEF AsksDelete
  <2>4. CASE Unindex(r)
    <3>1. job[r].doc \in Docs
      BY <1>0, <2>4 DEF Unindex, Placed
    <3> QED BY <1>0, <2>4, <3>1, EmptiedHides DEF Unindex, Promise!Next
  <2>5. CASE Forget(r)
    <3> DEFINE d == job[r].doc
    <3>1. d \in Docs /\ index[d] = {} /\ index' = index
      BY <1>0, <2>5 DEF Forget, Placed, Holds, Locked
    <3>2. Shown[d] = {}
      BY <3>1 DEF Shown, Hashes
    <3>3. row \in [Docs -> Text \cup {"unknown", "deleted"}]
          /\ row' = [row EXCEPT ![d] = IF @ = "unknown" THEN @ ELSE "deleted"]
      BY <1>0, <2>5 DEF Forget, TypeOK
    <3>4. CASE row[d] = "unknown"
      <4> HIDE DEF d
      <4>1. row' = row
        BY <3>1, <3>3, <3>4
      <4> QED BY <3>1, <4>1, ShownSame
    <3>5. CASE row[d] # "unknown"
      <4> HIDE DEF d
      <4>1. row' = [row EXCEPT ![d] = "deleted"]
        BY <3>1, <3>3, <3>5
      <4>2. Promise!Forget(d)
        BY <3>1, <3>2, <3>5, <4>1, ShownSame DEF Promise!Forget, Shown
      <4> QED BY <3>1, <4>2 DEF Promise!Next
    <3> QED BY <3>4, <3>5
  <2> QED BY <1>2, <2>1, <2>2, <2>3, <2>4, <2>5 DEF RequestStep
<1>3. ASSUME NEW p \in Syncers, SyncStep(p)
      PROVE  Promise!Next \/ UNCHANGED <<row, Shown>>
  <2> p \in Process
    BY DEF Process
  <2>1. CASE Adopt(p)
    <3> DEFINE d == job[p].doc
    <3>1. d \in Docs /\ index' = index
      BY <1>0, <2>1 DEF Adopt, Placed
    <3>2. row \in [Docs -> Text \cup {"unknown", "deleted"}]
          /\ row' = [row EXCEPT ![d] = IF @ = "unknown" THEN "recovered" ELSE @]
      BY <1>0, <2>1 DEF Adopt, TypeOK
    <3>3. CASE row[d] = "unknown"
      <4> HIDE DEF d
      <4>1. row' = [row EXCEPT ![d] = "recovered"]
        BY <3>1, <3>2, <3>3
      <4>2. Promise!Adopt(d)
        BY <3>1, <3>3, <4>1, ShownSame DEF Promise!Adopt, Shown
      <4> QED BY <3>1, <4>2 DEF Promise!Next
    <3>4. CASE row[d] # "unknown"
      <4> HIDE DEF d
      <4>1. row' = row
        BY <3>1, <3>2, <3>4
      <4> QED BY <3>1, <4>1, ShownSame
    <3> QED BY <3>3, <3>4
  <2>2. CASE Remove(p)
    <3>1. job[p].doc \in Docs
      BY <1>0, <2>2 DEF Remove, Placed, Locked
    <3> QED BY <1>0, <2>2, <3>1, EmptiedHides DEF Remove, Promise!Next
  <2>3. CASE ~Adopt(p) /\ ~Remove(p)
    <3>1. row' = row /\ index' = index
      BY <1>3, <2>3 DEF SyncStep, Begins, Ensure, ReadKnown, ListIndex, Export, Adopted, Survey,
                        Compare, Repair, Repaired
    <3> QED BY <3>1, ShownSame
  <2> QED BY <2>1, <2>2, <2>3
<1>4. ASSUME NEW p \in Process, TaskStep(p)
      PROVE  Promise!Next \/ UNCHANGED <<row, Shown>>
  <2>1. CASE Clear(p)
    <3>1. job[p].doc \in Docs
      BY <1>0, <2>1 DEF Clear, Placed, Locked
    <3> QED BY <1>0, <2>1, <3>1, EmptiedHides DEF Clear, Promise!Next
  <2>2. CASE Write(p)
    <3>1. job[p].doc \in Docs
      BY <1>0, <2>2 DEF Write, Placed, Locked
    <3> QED BY <2>2, <3>1, WriteShows DEF Promise!Next
  <2>3. CASE Fails(p)
    BY <2>3, ShownSame DEF Fails
  <2> QED BY <1>4, <2>1, <2>2, <2>3 DEF TaskStep
<1>5. CASE IsLost
  <2>1. row' = row /\ index' = [d \in Docs |-> {}]
    BY <1>5 DEF IsLost
  <2>2. Shown' = [d \in Docs |-> {}]
    BY <2>1 DEF Shown, Hashes
  <2> QED BY <2>1, <2>2 DEF Shown, Promise!Lose, Promise!Next
<1>6. CASE GoesDown \/ ComesBack \/ Crash \/ UNCHANGED vars
  <2>1. row' = row /\ index' = index
    BY <1>6 DEF GoesDown, ComesBack, Crash, vars
  <2> QED BY <2>1, ShownSame
<1> QED BY <1>2, <1>3, <1>4, <1>5, <1>6 DEF Next

LEMMA PromiseInit ==
  ASSUME Init
  PROVE  Promise!Init
<1>1. \A d \in Docs : Hashes(d) = IF d \in Legacy THEN {"legacy"} ELSE {}
  <2> SUFFICES ASSUME NEW d \in Docs
               PROVE  Hashes(d) = IF d \in Legacy THEN {"legacy"} ELSE {}
    OBVIOUS
  <2>1. index[d] = IF d \in Legacy THEN {"legacy"} \X (1..Parts) ELSE {}
    BY DEF Init
  <2>2. <<"legacy", 1>> \in {"legacy"} \X (1..Parts)
    BY BoundsAssumption
  <2>3. CASE d \in Legacy
    <3>1. \A c \in index[d] : c[1] = "legacy"
      BY <2>1, <2>3
    <3>2. <<"legacy", 1>> \in index[d] /\ <<"legacy", 1>>[1] = "legacy"
      BY <2>1, <2>2, <2>3
    <3> QED BY <2>3, <3>1, <3>2 DEF Hashes
  <2>4. CASE d \notin Legacy
    BY <2>1, <2>4 DEF Hashes
  <2> QED BY <2>3, <2>4
<1>2. row = [d \in Docs |-> "unknown"]
  BY DEF Init
<1> QED BY <1>1, <1>2 DEF Promise!Init

\* The documents and their index do what they promise operators and agents, whoever
\* uploads, renames, deletes, adopts and reconciles at once and whatever fails: nothing
\* but an upload overwrites, nothing that can be found is forgotten, and nothing but what
\* the database has is put where it can be found (index_text, delete_source, sync).
THEOREM KnowledgePromiseIsKept == Spec => DocumentsAsPromised
<1>1. KInv /\ [Next]_vars => [Promise!Next]_<<row, Shown>>
  BY PromiseStep
<1>2. Init => Promise!Init
  BY PromiseInit
<1> QED
  BY <1>1, <1>2, KInvAlways, PTL DEF Spec, DocumentsAsPromised, Promise!Spec, Shown

-----------------------------------------------------------------------------
(* What the console's requests carry. *)

\* What an account, a number or an agent belongs to.
Home == Orgs \cup {None}

\* By kind, what a request carries while it waits.
NewUserAsk == [at : {"create user"}, by : Accounts,
               arg : [user : Users, role : Role, org : Home]]
UserAsk == [at : {"read user", "set role", "check last", "set active"}, by : Accounts,
            arg : [user : Users, role : Role \cup {None}, active : BOOLEAN \cup {None},
                   seen : Accounts]]
NewOrgAsk == [at : {"create org"}, by : Accounts, arg : [org : Orgs]]
OrgAsk == [at : {"patch org"}, by : Accounts, arg : [org : Orgs, active : BOOLEAN]]
FreeAsk == [at : {"free did"}, by : Accounts, arg : [did : Dids]]
MapAsk == [at : {"check did", "map did"}, by : Accounts,
           arg : [did : Dids, org : Orgs, agent : Agents, active : BOOLEAN]]
DropAsk == [at : {"check removal", "remove agent", "forget agent"}, by : Accounts,
            arg : [agent : Agents]]
AgentAsk == [at : {"check agent", "save agent", "apply agent"}, by : Accounts,
             arg : [agent : Agents, home : Home, new : Profiles]]

\* A request that has not begun, or has ended.
RestAsk == {Idle, Done}

\* A request, wherever it is.
Ask == RestAsk \cup NewUserAsk \cup UserAsk \cup NewOrgAsk \cup OrgAsk \cup FreeAsk
         \cup MapAsk \cup DropAsk \cup AgentAsk

\* A request that has found its account has an account.
Found == \A j \in Jobs :
  request[j].at \in {"set role", "check last", "set active"} => Exists(request[j].arg.user)

\* One that sets whether an account is active was asked to.
Decided == \A j \in Jobs : request[j].at = "set active" => request[j].arg.active \in BOOLEAN

\* Every request is one of these.
Asked == request \in [Jobs -> Ask] /\ Found /\ Decided

\* What a request carries follows from the step it is at.
LEMMA Asks ==
  ASSUME NEW r \in Ask
  PROVE  /\ r.at = "create user" => r \in NewUserAsk
         /\ r.at \in {"read user", "set role", "check last", "set active"} => r \in UserAsk
         /\ r.at = "create org" => r \in NewOrgAsk
         /\ r.at = "patch org" => r \in OrgAsk
         /\ r.at = "free did" => r \in FreeAsk
         /\ r.at \in {"check did", "map did"} => r \in MapAsk
         /\ r.at \in {"check removal", "remove agent", "forget agent"} => r \in DropAsk
         /\ r.at \in {"check agent", "save agent", "apply agent"} => r \in AgentAsk
<1>1. r \in RestAsk => r.at \in {"idle", "done"}
  BY DEF RestAsk, Idle, Done
<1>2. r \in NewUserAsk => r.at = "create user"
  BY DEF NewUserAsk
<1>3. r \in UserAsk => r.at \in {"read user", "set role", "check last", "set active"}
  BY DEF UserAsk
<1>4. /\ r \in NewOrgAsk => r.at = "create org"
      /\ r \in OrgAsk => r.at = "patch org"
      /\ r \in FreeAsk => r.at = "free did"
  BY DEF NewOrgAsk, OrgAsk, FreeAsk
<1>5. r \in MapAsk => r.at \in {"check did", "map did"}
  BY DEF MapAsk
<1>6. r \in DropAsk => r.at \in {"check removal", "remove agent", "forget agent"}
  BY DEF DropAsk
<1>7. r \in AgentAsk => r.at \in {"check agent", "save agent", "apply agent"}
  BY DEF AgentAsk
<1> QED BY <1>1, <1>2, <1>3, <1>4, <1>5, <1>6, <1>7 DEF Ask

\* A request taken elsewhere, with what it carries, and the others left alone.
LEMMA Taken ==
  ASSUME Asked, NEW j \in Jobs, NEW r \in Ask, request' = [request EXCEPT ![j] = r]
  PROVE  /\ request' \in [Jobs -> Ask]
         /\ request'[j] = r
         /\ \A k \in Jobs \ {j} : request'[k] = request[k]
BY DEF Asked

\* A request that goes on keeps what it carries.
LEMMA MovesOn ==
  ASSUME Asked, NEW j \in Jobs, NEW at, Move(j, at), [request[j] EXCEPT !.at = at] \in Ask
  PROVE  /\ request' \in [Jobs -> Ask]
         /\ request'[j] = [request[j] EXCEPT !.at = at]
         /\ \A k \in Jobs \ {j} : request'[k] = request[k]
BY DEF Asked, Move

\* A request that ends carries nothing any more.
LEMMA Ends ==
  ASSUME Asked, NEW j \in Jobs, End(j)
  PROVE  /\ request' \in [Jobs -> Ask]
         /\ request'[j] = Done
         /\ \A k \in Jobs \ {j} : request'[k] = request[k]
<1>1. Done \in Ask
  BY DEF Ask, RestAsk
<1> QED BY <1>1 DEF Asked, End

\* The guard knows a caller by an account.
LEMMA CallerTyped ==
  ASSUME ConsoleTypeOK, NEW u \in Users \cup {Machine}
  PROVE  Caller(u) \in Accounts
<1>1. CASE u = Machine
  BY <1>1 DEF Caller, Accounts, Role
<1>2. CASE u \in Users
  BY <1>2, AccountsAssumption DEF Caller, ConsoleTypeOK, AccountsTypeOK
<1> QED BY <1>1, <1>2

-----------------------------------------------------------------------------
(* Types, action by action. *)

\* A step of one request leaves the others where they are.
Later(j) == \A k \in Jobs \ {j} : request'[k] = request[k]

\* An account once made is there for good.
Lasting == \A u \in Users : Exists(u) => Exists(u)'

\* A step that takes one request on keeps what all of them carry.
LEMMA AskedStep ==
  ASSUME Asked, Lasting, NEW j \in Jobs, request' \in [Jobs -> Ask], Later(j),
         request'[j].at \in {"set role", "check last", "set active"} =>
           Exists(request[j].arg.user)',
         request'[j].at = "set active" => request'[j].arg.active \in BOOLEAN
  PROVE  Asked'
<1>1. Found'
  <2> SUFFICES ASSUME NEW k \in Jobs, request'[k].at \in {"set role", "check last", "set active"}
               PROVE  Exists(request[k].arg.user)'
    BY DEF Found
  <2>1. CASE k = j
    BY <2>1
  <2>2. CASE k # j
    <3>1. request'[k] = request[k] /\ request[k] \in Ask
      BY <2>2 DEF Later, Asked
    <3>2. request[k] \in UserAsk
      BY <3>1, Asks
    <3>3. request[k].arg.user \in Users /\ Exists(request[k].arg.user)
      BY <3>1, <3>2 DEF Asked, Found, UserAsk
    <3> QED BY <3>1, <3>3 DEF Lasting
  <2> QED BY <2>1, <2>2
<1>2. Decided'
  BY DEF Decided, Asked, Later
<1> QED BY <1>1, <1>2 DEF Asked

\* Signing in and out, and a session that ends.
LEMMA SignsTyped ==
  ASSUME ConsoleTypeOK, Asked, NEW u \in Users, SignIn(u) \/ SignInEnds(u) \/ SessionEnds(u),
         UNCHANGED tenancy
  PROVE  ConsoleTypeOK' /\ Asked'
<1>1. account' = account /\ request' = request /\ loose' = loose
  BY DEF SignIn, SignInEnds, SessionEnds
<1>2. Asked'
  BY <1>1 DEF Asked, Found, Decided, Exists
<1>3. NumbersTypeOK'
  BY DEF tenancy, NumbersTypeOK, ConsoleTypeOK
<1>4. AccountsTypeOK'
  BY <1>1 DEF SignIn, SignInEnds, SessionEnds, AccountsTypeOK, ConsoleTypeOK
<1> QED BY <1>2, <1>3, <1>4 DEF ConsoleTypeOK

\* A request that is admitted.
LEMMA NewsTyped ==
  ASSUME ConsoleTypeOK, Asked, UNCHANGED <<people, tenancy>>, NEW j \in Jobs,
         NEW r \in NewUserAsk \cup NewOrgAsk \cup OrgAsk \cup FreeAsk \cup MapAsk \cup DropAsk
                   \cup AgentAsk \cup {a \in UserAsk : a.at = "read user"},
         request' = [request EXCEPT ![j] = r]
  PROVE  ConsoleTypeOK' /\ Asked'
<1>1. ConsoleTypeOK'
  BY DEF people, tenancy, ConsoleTypeOK, AccountsTypeOK, NumbersTypeOK
<1>2. r \in Ask
  BY DEF Ask
<1>3. r.at \notin {"set role", "check last", "set active"}
  BY DEF NewUserAsk, NewOrgAsk, OrgAsk, FreeAsk, MapAsk, DropAsk, AgentAsk
<1>4. Asked'
  BY <1>2, <1>3, Taken, AskedStep DEF people, Lasting, Exists, Later
<1> QED BY <1>1, <1>4

\* Whatever is asked for carries what its handler needs.
LEMMA AskTyped ==
  ASSUME ConsoleTypeOK, Asked, NEW j \in Jobs, NEW by \in Users \cup {Machine},
         \/ (AskCreateUser(j, by) \/ AskUpdateUser(j, by)) /\ UNCHANGED tenancy
         \/ AskOrganisation(j, by) \/ AskNumber(j, by) \/ AskAgent(j, by)
  PROVE  ConsoleTypeOK' /\ Asked'
<1>0. UNCHANGED <<people, tenancy>>
  BY DEF AskCreateUser, AskUpdateUser, AskOrganisation, AskNumber, AskAgent
<1>1. Absent \in Accounts /\ Gone \in Profiles /\ Granted \subseteq Role /\ None \in Home
  BY AccountsAssumption DEF Accounts, Profiles, Home
<1> PICK c \in Accounts : c = Caller(by)
  BY CallerTyped
<1>2. CASE AskCreateUser(j, by)
  <2>1. PICK u \in Users, role \in Granted, o \in Home :
          LET home == IF Unrestricted(Caller(by)) THEN o ELSE Caller(by).org IN
            Admit(j, by, "users", "create user", [user |-> u, role |-> role, org |-> home])
    BY <1>2 DEF AskCreateUser, Home
  <2> DEFINE home == IF Unrestricted(Caller(by)) THEN o ELSE Caller(by).org
  <2>3. home \in Home
    BY CallerTyped DEF Accounts, Absent, Home
  <2>4. PICK h \in Home :
          Admit(j, by, "users", "create user", [user |-> u, role |-> role, org |-> h])
    BY <2>1, <2>3
  <2>5. request' = [request EXCEPT ![j] =
            [at |-> "create user", by |-> c, arg |-> [user |-> u, role |-> role, org |-> h]]]
    BY <2>4 DEF Admit
  <2>6. [at |-> "create user", by |-> c, arg |-> [user |-> u, role |-> role, org |-> h]] \in NewUserAsk
    BY <1>1 DEF NewUserAsk
  <2> QED BY <1>0, <2>5, <2>6, NewsTyped
<1>3. CASE AskUpdateUser(j, by)
  <2>1. PICK u \in Users, role \in Granted \cup {None}, active \in BOOLEAN \cup {None} :
          Admit(j, by, "users", "read user",
                [user |-> u, role |-> role, active |-> active, seen |-> Absent])
    BY <1>3 DEF AskUpdateUser
  <2> DEFINE arg == [user |-> u, role |-> role, active |-> active, seen |-> Absent]
  <2>2. request' = [request EXCEPT ![j] = [at |-> "read user", by |-> c, arg |-> arg]]
    BY <2>1 DEF Admit
  <2>3. [at |-> "read user", by |-> c, arg |-> arg] \in UserAsk
    BY <1>1, <2>2 DEF UserAsk
  <2> QED BY <1>0, <2>2, <2>3, NewsTyped
<1>4. CASE AskOrganisation(j, by)
  <2>1. PICK o \in Orgs :
          \/ Admit(j, by, "tenants", "create org", [org |-> o])
          \/ \E active \in BOOLEAN :
               Admit(j, by, "tenants", "patch org", [org |-> o, active |-> active])
    BY <1>4 DEF AskOrganisation
  <2>2. CASE Admit(j, by, "tenants", "create org", [org |-> o])
    <3>1. request' = [request EXCEPT ![j] =
               [at |-> "create org", by |-> c, arg |-> [org |-> o]]]
      BY <2>2 DEF Admit
    <3>2. [at |-> "create org", by |-> c, arg |-> [org |-> o]] \in NewOrgAsk
      BY <3>1 DEF NewOrgAsk
    <3> QED BY <1>0, <3>1, <3>2, NewsTyped
  <2>3. CASE \E active \in BOOLEAN :
               Admit(j, by, "tenants", "patch org", [org |-> o, active |-> active])
    <3>1. PICK active \in BOOLEAN :
            Admit(j, by, "tenants", "patch org", [org |-> o, active |-> active])
      BY <2>3
    <3>2. request' = [request EXCEPT ![j] =
               [at |-> "patch org", by |-> c, arg |-> [org |-> o, active |-> active]]]
      BY <3>1 DEF Admit
    <3>3. [at |-> "patch org", by |-> c, arg |-> [org |-> o, active |-> active]] \in OrgAsk
      BY <3>2 DEF OrgAsk
    <3> QED BY <1>0, <3>2, <3>3, NewsTyped
  <2> QED BY <2>1, <2>2, <2>3
<1>5. CASE AskNumber(j, by)
  <2>1. PICK n \in Dids :
          \/ Admit(j, by, "tenants", "free did", [did |-> n])
          \/ \E o \in Orgs, a \in Agents, active \in BOOLEAN :
               Admit(j, by, "tenants", "check did",
                     [did |-> n, org |-> o, agent |-> a, active |-> active])
    BY <1>5 DEF AskNumber
  <2>2. CASE Admit(j, by, "tenants", "free did", [did |-> n])
    <3>1. request' = [request EXCEPT ![j] =
               [at |-> "free did", by |-> c, arg |-> [did |-> n]]]
      BY <2>2 DEF Admit
    <3>2. [at |-> "free did", by |-> c, arg |-> [did |-> n]] \in FreeAsk
      BY <3>1 DEF FreeAsk
    <3> QED BY <1>0, <3>1, <3>2, NewsTyped
  <2>3. CASE \E o \in Orgs, a \in Agents, active \in BOOLEAN :
               Admit(j, by, "tenants", "check did",
                     [did |-> n, org |-> o, agent |-> a, active |-> active])
    <3>1. PICK o \in Orgs, a \in Agents, active \in BOOLEAN :
            Admit(j, by, "tenants", "check did",
                  [did |-> n, org |-> o, agent |-> a, active |-> active])
      BY <2>3
    <3> DEFINE arg == [did |-> n, org |-> o, agent |-> a, active |-> active]
    <3>2. request' = [request EXCEPT ![j] = [at |-> "check did", by |-> c, arg |-> arg]]
      BY <3>1 DEF Admit
    <3>3. [at |-> "check did", by |-> c, arg |-> arg] \in MapAsk
      BY <3>2 DEF MapAsk
    <3> QED BY <1>0, <3>2, <3>3, NewsTyped
  <2> QED BY <2>1, <2>2, <2>3
<1>6. CASE AskAgent(j, by)
  <2>1. PICK a \in Agents :
          \/ Admit(j, by, "agents", "check removal", [agent |-> a])
          \/ \E o \in Home :
               Admit(j, by, "agents", "check agent", [agent |-> a, home |-> o, new |-> Gone])
    BY <1>6 DEF AskAgent, Home
  <2>2. CASE Admit(j, by, "agents", "check removal", [agent |-> a])
    <3>1. request' = [request EXCEPT ![j] =
               [at |-> "check removal", by |-> c, arg |-> [agent |-> a]]]
      BY <2>2 DEF Admit
    <3>2. [at |-> "check removal", by |-> c, arg |-> [agent |-> a]] \in DropAsk
      BY <3>1 DEF DropAsk
    <3> QED BY <1>0, <3>1, <3>2, NewsTyped
  <2>3. CASE \E o \in Home :
               Admit(j, by, "agents", "check agent", [agent |-> a, home |-> o, new |-> Gone])
    <3>1. PICK o \in Home :
            Admit(j, by, "agents", "check agent", [agent |-> a, home |-> o, new |-> Gone])
      BY <2>3
    <3> DEFINE arg == [agent |-> a, home |-> o, new |-> Gone]
    <3>2. request' = [request EXCEPT ![j] = [at |-> "check agent", by |-> c, arg |-> arg]]
      BY <3>1 DEF Admit
    <3>3. [at |-> "check agent", by |-> c, arg |-> arg] \in AgentAsk
      BY <1>1, <3>2 DEF AgentAsk
    <3> QED BY <1>0, <3>2, <3>3, NewsTyped
  <2> QED BY <2>1, <2>2, <2>3
<1> QED BY <1>2, <1>3, <1>4, <1>5, <1>6

\* The command line's first administrator.
LEMMA FirstAdminTyped ==
  ASSUME ConsoleTypeOK, Asked, NEW j \in Jobs, AskFirstAdmin(j), UNCHANGED tenancy
  PROVE  ConsoleTypeOK' /\ Asked'
<1>1. PICK u \in Users :
        request' = [request EXCEPT ![j] =
          [at |-> "create user", by |-> Caller(Machine),
           arg |-> [user |-> u, role |-> "platform_admin", org |-> None]]]
  BY DEF AskFirstAdmin
<1> DEFINE c == [role |-> "platform_admin", org |-> None, active |-> TRUE]
<1>2. Caller(Machine) = c /\ c \in Accounts
  BY DEF Caller, Accounts, Role
<1> HIDE DEF c
<1>3. [at |-> "create user", by |-> c,
       arg |-> [user |-> u, role |-> "platform_admin", org |-> None]] \in NewUserAsk
  BY <1>2 DEF NewUserAsk, Role, Home
<1>4. UNCHANGED <<people, tenancy>>
  BY DEF AskFirstAdmin
<1> QED BY <1>1, <1>2, <1>3, <1>4, NewsTyped

\* A step that only ends a request, or takes it where nothing more is asked of it.
LEMMA EndsAsked ==
  ASSUME Asked, Lasting, NEW j \in Jobs, End(j)
  PROVE  Asked'
<1>1. request'[j] = Done /\ Done.at = "done"
  BY Ends DEF Done
<1> QED BY <1>1, Ends, AskedStep DEF Later

\* A step that takes a request where it needs no account found before.
LEMMA MovesAsked ==
  ASSUME Asked, Lasting, NEW j \in Jobs, NEW at, Move(j, at),
         [request[j] EXCEPT !.at = at] \in Ask,
         at \notin {"set role", "check last", "set active"}
  PROVE  Asked'
<1>1. request[j] \in Ask
  BY DEF Asked
<1>2. \A r \in Ask : [r EXCEPT !.at = at].at = at
  BY DEF Ask, RestAsk, Idle, Done, NewUserAsk, UserAsk, NewOrgAsk, OrgAsk, FreeAsk, MapAsk,
         DropAsk, AgentAsk
<1>3. request'[j].at = at
  BY <1>1, <1>2, MovesOn
<1> QED BY <1>3, MovesOn, AskedStep DEF Later

\* A new account is one, and no other changes.
LEMMA CreateUserTyped ==
  ASSUME ConsoleTypeOK, Asked, NEW j \in Jobs, CreateUser(j), UNCHANGED tenancy
  PROVE  ConsoleTypeOK' /\ Asked'
<1> DEFINE a == request[j].arg
           new == [role |-> a.role, org |-> a.org, active |-> TRUE]
<1>1. request[j] \in NewUserAsk
  BY Asks DEF Asked, CreateUser
<1>2. a.user \in Users /\ new \in Accounts /\ new # Absent
  BY <1>1, AccountsAssumption DEF NewUserAsk, Accounts, Home, Absent
<1>3. \/ account' = account
      \/ account' = [account EXCEPT ![a.user] = new]
  BY DEF CreateUser
<1> HIDE DEF new
<1>4. Lasting /\ account' \in [Users -> Accounts]
  BY <1>2, <1>3 DEF Lasting, Exists, ConsoleTypeOK, AccountsTypeOK
<1>5. Asked'
  BY <1>4, EndsAsked DEF CreateUser
<1> QED BY <1>4, <1>5 DEF ConsoleTypeOK, AccountsTypeOK, NumbersTypeOK, CreateUser, tenancy

\* The account that is read exists.
LEMMA ReadUserTyped ==
  ASSUME ConsoleTypeOK, Asked, NEW j \in Jobs, ReadUser(j), UNCHANGED tenancy
  PROVE  ConsoleTypeOK' /\ Asked'
<1>1. ConsoleTypeOK' /\ Lasting /\ account' = account
  BY DEF ReadUser, people, tenancy, ConsoleTypeOK, AccountsTypeOK, NumbersTypeOK, Lasting, Exists
<1>2. CASE End(j)
  BY <1>1, <1>2, EndsAsked
<1>3. CASE ~End(j)
  <2> DEFINE a == request[j].arg
             r == [request[j] EXCEPT !.at = "set role", !.arg.seen = account[a.user]]
  <2>1. request[j] \in UserAsk
    BY Asks DEF Asked, ReadUser
  <2>2. a.user \in Users /\ account[a.user] \in Accounts /\ Exists(a.user)
    BY <1>3, <2>1 DEF UserAsk, ConsoleTypeOK, AccountsTypeOK, ReadUser
  <2>3. r \in UserAsk /\ r.at = "set role" /\ r.arg.user = a.user
    BY <2>1, <2>2 DEF UserAsk
  <2>4. request' = [request EXCEPT ![j] = r]
    BY <1>3 DEF ReadUser, Asked
  <2> HIDE DEF r
  <2>5. request'[j] = r /\ request' \in [Jobs -> Ask] /\ Later(j)
    BY <2>3, <2>4 DEF Asked, Later, Ask
  <2>6. request'[j].at = "set role" /\ Exists(request[j].arg.user)'
    BY <1>1, <2>2, <2>3, <2>5 DEF Exists
  <2> QED BY <1>1, <2>5, <2>6, AskedStep
<1> QED BY <1>2, <1>3

\* The role that is set is a role.
LEMMA SetRoleTyped ==
  ASSUME ConsoleTypeOK, Asked, NEW j \in Jobs, SetRole(j), UNCHANGED tenancy
  PROVE  ConsoleTypeOK' /\ Asked'
<1> DEFINE a == request[j].arg
           r == [request[j] EXCEPT !.at = "check last"]
<1>1. request[j] \in UserAsk /\ request' = [request EXCEPT ![j] = r]
  BY Asks DEF Asked, SetRole, Move
<1>2. a.user \in Users /\ Exists(a.user)
  BY <1>1 DEF UserAsk, SetRole, Asked, Found
<1>3. account[a.user] \in Accounts /\ account[a.user] # Absent
  BY <1>2 DEF ConsoleTypeOK, AccountsTypeOK, Exists
<1>4. account' \in [Users -> Accounts] /\ Lasting
  <2>1. CASE account' = account
    BY <2>1 DEF ConsoleTypeOK, AccountsTypeOK, Lasting, Exists
  <2>2. CASE a.role \in Role /\ account' = [account EXCEPT ![a.user].role = a.role]
    <3> DEFINE new == [account[a.user] EXCEPT !.role = a.role]
    <3>1. new \in Accounts /\ new # Absent
      BY <1>3, <2>2, AccountsAssumption DEF Accounts, Absent
    <3>2. account' = [account EXCEPT ![a.user] = new]
      BY <2>2
    <3> HIDE DEF new
    <3> QED BY <1>2, <3>1, <3>2 DEF ConsoleTypeOK, AccountsTypeOK, Lasting, Exists
  <2> QED BY <1>1, <2>1, <2>2 DEF SetRole, UserAsk
<1>5. r \in UserAsk /\ r.at = "check last" /\ r.arg.user = a.user
  BY <1>1 DEF UserAsk
<1>6. Asked'
  <2> HIDE DEF r
  <2>1. request'[j] = r /\ request' \in [Jobs -> Ask] /\ Later(j)
    BY <1>1, <1>5 DEF Asked, Later, Ask
  <2>2. request'[j].at = "check last" /\ Exists(request[j].arg.user)'
    BY <1>2, <1>4, <1>5, <2>1 DEF Exists, Lasting
  <2> QED BY <1>4, <2>1, <2>2, AskedStep
<1>7. loose' \in BOOLEAN
  BY DEF SetRole, ConsoleTypeOK, AccountsTypeOK
<1> QED BY <1>4, <1>6, <1>7 DEF ConsoleTypeOK, AccountsTypeOK, NumbersTypeOK, SetRole, tenancy

\* A request that goes on to the suspension was asked for one, or for its end.
LEMMA CheckLastTyped ==
  ASSUME ConsoleTypeOK, Asked, NEW j \in Jobs, CheckLast(j), UNCHANGED tenancy
  PROVE  ConsoleTypeOK' /\ Asked'
<1>1. ConsoleTypeOK' /\ Lasting /\ account' = account
  BY DEF CheckLast, people, tenancy, ConsoleTypeOK, AccountsTypeOK, NumbersTypeOK, Lasting, Exists
<1>2. CASE End(j)
  BY <1>1, <1>2, EndsAsked
<1>3. CASE ~End(j)
  <2> DEFINE a == request[j].arg
             r == [request[j] EXCEPT !.at = "set active"]
  <2>1. request[j] \in UserAsk /\ request' = [request EXCEPT ![j] = r]
    BY <1>3, Asks DEF Asked, CheckLast, Move
  <2>2. a.user \in Users /\ Exists(a.user)
    BY <2>1 DEF UserAsk, CheckLast, Asked, Found
  <2>3. a.active # None
    BY <1>3 DEF CheckLast
  <2>4. /\ r \in UserAsk /\ r.at = "set active" /\ r.arg.user = a.user
        /\ r.arg.active = a.active
    BY <2>1 DEF UserAsk
  <2>5. a.active \in BOOLEAN
    BY <2>1, <2>3 DEF UserAsk
  <2> HIDE DEF r
  <2>6. request'[j] = r /\ request' \in [Jobs -> Ask] /\ Later(j)
    BY <2>1, <2>4 DEF Asked, Later, Ask
  <2>7. /\ request'[j].at = "set active" /\ Exists(request[j].arg.user)'
        /\ request'[j].arg.active \in BOOLEAN
    BY <1>1, <2>2, <2>4, <2>5, <2>6 DEF Exists
  <2> QED BY <1>1, <2>6, <2>7, AskedStep
<1> QED BY <1>2, <1>3

\* A suspended account is still there.
LEMMA SetActiveTyped ==
  ASSUME ConsoleTypeOK, Asked, NEW j \in Jobs, SetActive(j), UNCHANGED tenancy
  PROVE  ConsoleTypeOK' /\ Asked'
<1> DEFINE a == request[j].arg
           new == [account[a.user] EXCEPT !.active = a.active]
<1>1. request[j] \in UserAsk /\ a.active \in BOOLEAN
  BY Asks DEF Asked, SetActive, Decided
<1>2. a.user \in Users /\ Exists(a.user)
  BY <1>1 DEF UserAsk, SetActive, Asked, Found
<1>3. account[a.user] \in Accounts /\ account[a.user] # Absent
  BY <1>2 DEF ConsoleTypeOK, AccountsTypeOK, Exists
<1>4. new \in Accounts /\ new # Absent
  BY <1>1, <1>3, AccountsAssumption DEF Accounts, Absent
<1>5. account' = [account EXCEPT ![a.user] = new]
  BY DEF SetActive
<1> HIDE DEF new
<1>6. account' \in [Users -> Accounts] /\ Lasting
  BY <1>2, <1>4, <1>5 DEF ConsoleTypeOK, AccountsTypeOK, Lasting, Exists
<1>7. Asked'
  BY <1>6, EndsAsked DEF SetActive
<1>8. loose' \in BOOLEAN
  BY DEF SetActive, ConsoleTypeOK, AccountsTypeOK
<1> QED BY <1>6, <1>7, <1>8 DEF ConsoleTypeOK, AccountsTypeOK, NumbersTypeOK, SetActive, tenancy

\* A step of the tenancy leaves the accounts.
LEMMA PeopleTyped ==
  ASSUME ConsoleTypeOK, UNCHANGED people
  PROVE  AccountsTypeOK' /\ Lasting
BY DEF people, ConsoleTypeOK, AccountsTypeOK, Lasting, Exists

\* Organisations come, are suspended and return.
LEMMA OrganisationsTyped ==
  ASSUME ConsoleTypeOK, Asked, NEW j \in Jobs, CreateOrganisation(j) \/ PatchOrganisation(j)
  PROVE  ConsoleTypeOK' /\ Asked'
<1>1. UNCHANGED people /\ End(j)
  BY DEF CreateOrganisation, PatchOrganisation
<1>2. org' \in [Orgs -> {"absent", "active", "suspended"}]
  BY DEF CreateOrganisation, PatchOrganisation, ConsoleTypeOK, NumbersTypeOK
<1>3. NumbersTypeOK'
  BY <1>2 DEF CreateOrganisation, PatchOrganisation, ConsoleTypeOK, NumbersTypeOK
<1> QED BY <1>1, <1>3, PeopleTyped, EndsAsked DEF ConsoleTypeOK

\* Numbers are checked, mapped and freed.
LEMMA NumberStepsTyped ==
  ASSUME ConsoleTypeOK, Asked, NEW j \in Jobs, CheckNumber(j) \/ MapNumber(j) \/ FreeNumber(j)
  PROVE  ConsoleTypeOK' /\ Asked'
<1> DEFINE a == request[j].arg
<1>1. UNCHANGED people
  BY DEF CheckNumber, MapNumber, FreeNumber
<1>2. CASE CheckNumber(j)
  <2>1. NumbersTypeOK'
    BY <1>2 DEF CheckNumber, tenancy, ConsoleTypeOK, NumbersTypeOK
  <2>2. request[j] \in MapAsk
    BY <1>2, Asks DEF Asked, CheckNumber
  <2>3. [request[j] EXCEPT !.at = "map did"] \in Ask
    BY <2>2 DEF MapAsk, Ask
  <2>4. Asked'
    BY <1>1, <1>2, <2>3, PeopleTyped, EndsAsked, MovesAsked DEF CheckNumber
  <2> QED BY <1>1, <2>1, <2>4, PeopleTyped DEF ConsoleTypeOK
<1>3. CASE MapNumber(j)
  <2>1. request[j] \in MapAsk
    BY <1>3, Asks DEF Asked, MapNumber
  <2>2. [org |-> a.org, agent |-> a.agent, active |-> a.active]
          \in [org : Orgs \cup {None}, agent : Agents, active : BOOLEAN]
    BY <2>1 DEF MapAsk
  <2>3. did' \in [Dids -> [org : Orgs \cup {None}, agent : Agents, active : BOOLEAN]]
    BY <1>3, <2>2 DEF MapNumber, ConsoleTypeOK, NumbersTypeOK
  <2>4. NumbersTypeOK'
    BY <1>3, <2>3 DEF MapNumber, ConsoleTypeOK, NumbersTypeOK
  <2> QED BY <1>1, <1>3, <2>4, PeopleTyped, EndsAsked DEF ConsoleTypeOK, MapNumber
<1>4. CASE FreeNumber(j)
  <2>1. Unmapped \in [org : Orgs \cup {None}, agent : Agents, active : BOOLEAN]
    BY NumbersAssumption DEF Unmapped
  <2>2. did' \in [Dids -> [org : Orgs \cup {None}, agent : Agents, active : BOOLEAN]]
    BY <1>4, <2>1 DEF FreeNumber, ConsoleTypeOK, NumbersTypeOK
  <2>3. NumbersTypeOK'
    BY <1>4, <2>2 DEF FreeNumber, ConsoleTypeOK, NumbersTypeOK
  <2> QED BY <1>1, <1>4, <2>3, PeopleTyped, EndsAsked DEF ConsoleTypeOK, FreeNumber
<1> QED BY <1>2, <1>3, <1>4

\* Whose an agent becomes is an organisation, or nobody.
LEMMA OwnerTyped ==
  ASSUME NEW p \in Profiles, NEW by \in Accounts, NEW home \in Home
  PROVE  Owner(p, by, home) \in Home
BY DEF Owner, Profiles, Accounts, Absent, Gone, BuiltIn, Home

\* The profile that will be saved belongs to an organisation or to nobody.
LEMMA CheckAgentTyped ==
  ASSUME ConsoleTypeOK, Asked, NEW j \in Jobs, CheckAgent(j)
  PROVE  ConsoleTypeOK' /\ Asked'
<1> DEFINE a == request[j].arg
           new == [owner |-> Owner(profile[a.agent], request[j].by, a.home), by |-> j]
           r == [request[j] EXCEPT !.at = "save agent", !.arg.new = new]
<1>1. UNCHANGED people
  BY DEF CheckAgent
<1>2. request[j] \in AgentAsk
  BY Asks DEF Asked, CheckAgent
<1>3. a.agent \in Agents /\ a.home \in Home /\ request[j].by \in Accounts
  BY <1>2 DEF AgentAsk
<1>4. NumbersTypeOK'
  BY <1>3 DEF CheckAgent, ConsoleTypeOK, NumbersTypeOK
<1>5. CASE End(j)
  BY <1>1, <1>4, <1>5, PeopleTyped, EndsAsked DEF ConsoleTypeOK
<1>6. CASE ~End(j)
  <2>1. profile[a.agent] \in Profiles
    BY <1>3 DEF ConsoleTypeOK, NumbersTypeOK
  <2>2. new \in Profiles
    BY <1>3, <2>1, OwnerTyped DEF Profiles, Home
  <2>3. request' = [request EXCEPT ![j] = r]
    BY <1>6 DEF CheckAgent, Asked
  <2> HIDE DEF new
  <2>4. r \in AgentAsk /\ r.at = "save agent"
    BY <1>2, <2>2 DEF AgentAsk
  <2> HIDE DEF r
  <2>5. request'[j] = r /\ request' \in [Jobs -> Ask] /\ Later(j)
    BY <2>3, <2>4 DEF Asked, Later, Ask
  <2>6. Asked'
    BY <1>1, <2>4, <2>5, AskedStep, PeopleTyped
  <2> QED BY <1>1, <1>4, <2>6, PeopleTyped DEF ConsoleTypeOK
<1> QED BY <1>5, <1>6

\* Profiles are saved and removed in the database.
LEMMA SavesTyped ==
  ASSUME ConsoleTypeOK, Asked, NEW j \in Jobs, SaveAgent(j) \/ RemoveAgent(j) \/ CheckRemoval(j)
  PROVE  ConsoleTypeOK' /\ Asked'
<1> DEFINE a == request[j].arg
<1>1. UNCHANGED people
  BY DEF SaveAgent, RemoveAgent, CheckRemoval
<1>2. CASE SaveAgent(j)
  <2>1. request[j] \in AgentAsk
    BY <1>2, Asks DEF Asked, SaveAgent
  <2>2. stored' \in [Agents -> Profiles] /\ mishaps' \subseteq Mishaps
    BY <1>2, <2>1 DEF SaveAgent, AgentAsk, ConsoleTypeOK, NumbersTypeOK
  <2>3. NumbersTypeOK'
    BY <1>2, <2>2 DEF SaveAgent, ConsoleTypeOK, NumbersTypeOK
  <2>4. [request[j] EXCEPT !.at = "apply agent"] \in Ask
    BY <2>1 DEF AgentAsk, Ask
  <2>5. Asked'
    BY <1>1, <1>2, <2>4, PeopleTyped, EndsAsked, MovesAsked DEF SaveAgent
  <2> QED BY <1>1, <2>3, <2>5, PeopleTyped DEF ConsoleTypeOK
<1>3. CASE RemoveAgent(j)
  <2>1. request[j] \in DropAsk
    BY <1>3, Asks DEF Asked, RemoveAgent
  <2>2. stored' \in [Agents -> Profiles]
    BY <1>3 DEF RemoveAgent, Profiles, ConsoleTypeOK, NumbersTypeOK
  <2>3. NumbersTypeOK'
    BY <1>3, <2>2 DEF RemoveAgent, ConsoleTypeOK, NumbersTypeOK
  <2>4. [request[j] EXCEPT !.at = "forget agent"] \in Ask
    BY <2>1 DEF DropAsk, Ask
  <2>5. Asked'
    BY <1>1, <1>3, <2>4, PeopleTyped, EndsAsked, MovesAsked DEF RemoveAgent
  <2> QED BY <1>1, <2>3, <2>5, PeopleTyped DEF ConsoleTypeOK
<1>4. CASE CheckRemoval(j)
  <2>1. request[j] \in DropAsk
    BY <1>4, Asks DEF Asked, CheckRemoval
  <2>2. NumbersTypeOK'
    BY <1>4, <2>1 DEF CheckRemoval, DropAsk, ConsoleTypeOK, NumbersTypeOK
  <2>3. [request[j] EXCEPT !.at = "remove agent"] \in Ask
    BY <2>1 DEF DropAsk, Ask
  <2>4. Asked'
    BY <1>1, <1>4, <2>3, PeopleTyped, EndsAsked, MovesAsked DEF CheckRemoval
  <2> QED BY <1>1, <2>2, <2>4, PeopleTyped DEF ConsoleTypeOK
<1> QED BY <1>2, <1>3, <1>4

\* Profiles are applied and removed in memory.
LEMMA AppliesTyped ==
  ASSUME ConsoleTypeOK, Asked, NEW j \in Jobs, ApplyAgent(j) \/ ForgetAgent(j)
  PROVE  ConsoleTypeOK' /\ Asked'
<1> DEFINE a == request[j].arg
<1>1. UNCHANGED people /\ End(j)
  BY DEF ApplyAgent, ForgetAgent
<1>2. PICK p \in Profiles : Serve(a.agent, p) /\ a.agent \in Agents
  <2>1. CASE ApplyAgent(j)
    <3>1. request[j] \in AgentAsk
      BY <2>1, Asks DEF Asked, ApplyAgent
    <3> QED BY <2>1, <3>1 DEF ApplyAgent, AgentAsk
  <2>2. CASE ForgetAgent(j)
    <3>1. request[j] \in DropAsk
      BY <2>2, Asks DEF Asked, ForgetAgent
    <3>2. Gone \in Profiles
      BY DEF Profiles
    <3> QED BY <2>2, <3>1, <3>2 DEF ForgetAgent, DropAsk
  <2> QED BY <2>1, <2>2
<1>3. profile' \in [Agents -> Profiles] /\ moved' \subseteq Agents
  BY <1>2 DEF Serve, ConsoleTypeOK, NumbersTypeOK
<1>4. NumbersTypeOK'
  BY <1>3 DEF ApplyAgent, ForgetAgent, ConsoleTypeOK, NumbersTypeOK
<1> QED BY <1>1, <1>4, PeopleTyped, EndsAsked DEF ConsoleTypeOK

\* What a boot loads is profiles.
LEMMA LoadedTyped ==
  ASSUME NEW kept \in [Agents -> Profiles]
  PROVE  Loaded(kept) \in [Agents -> Profiles]
BY DEF Loaded, Profiles

\* A call is resolved and answered.
LEMMA CallsTypedHere ==
  ASSUME ConsoleTypeOK, Asked, NEW c \in Callers, Resolve(c) \/ Answer(c)
  PROVE  ConsoleTypeOK' /\ Asked'
<1> DEFINE Ring == [at : {"none", "resolved", "answered"}, org : Orgs \cup {None},
                    agent : Agents, owner : Orgs \cup {None}]
<1>1. UNCHANGED people /\ request' = request
  BY DEF Resolve, Answer
<1>2. Asked'
  BY <1>1 DEF Asked, Found, Decided, Exists, people
<1>3. ring' \in [Callers -> Ring]
  <2>1. CASE Resolve(c)
    <3>1. PICK n \in Dids :
            ring' = [ring EXCEPT ![c] =
              [at |-> "resolved", owner |-> None,
               org |-> IF InService(n) THEN did[n].org ELSE None,
               agent |-> IF InService(n) THEN did[n].agent ELSE "default"]]
      BY <2>1 DEF Resolve
    <3>2. did[n].org \in Orgs \cup {None} /\ did[n].agent \in Agents
      BY DEF ConsoleTypeOK, NumbersTypeOK
    <3> QED BY <3>1, <3>2, NumbersAssumption DEF ConsoleTypeOK, NumbersTypeOK
  <2>2. CASE Answer(c)
    <3> DEFINE r == ring[c]
               b == [r EXCEPT !.at = "answered", !.owner = Answering(r.agent).owner,
                              !.agent = IF profile[@] = Gone THEN "default" ELSE @]
    <3>1. r \in Ring
      BY DEF ConsoleTypeOK, NumbersTypeOK
    <3>2. Answering(r.agent) \in Profiles
      BY <3>1, NumbersAssumption DEF Answering, ConsoleTypeOK, NumbersTypeOK
    <3>3. Answering(r.agent).owner \in Orgs \cup {None}
      BY <3>2 DEF Profiles, Gone, BuiltIn
    <3>4. b \in Ring
      BY <3>1, <3>3, NumbersAssumption
    <3>5. ring' = [ring EXCEPT ![c] = b]
      BY <2>2 DEF Answer, ConsoleTypeOK, NumbersTypeOK
    <3> HIDE DEF b
    <3> QED BY <3>4, <3>5 DEF ConsoleTypeOK, NumbersTypeOK
  <2> QED BY <2>1, <2>2
<1>4. NumbersTypeOK'
  BY <1>3 DEF Resolve, Answer, ConsoleTypeOK, NumbersTypeOK
<1> QED BY <1>1, <1>2, <1>4, PeopleTyped DEF ConsoleTypeOK

\* The process dies and its copies are loaded again.
LEMMA RestartTyped ==
  ASSUME ConsoleTypeOK, Asked, Restart
  PROVE  ConsoleTypeOK' /\ Asked'
<1>1. /\ account' = account /\ cookie' = cookie /\ loose' = loose
      /\ signing' = [u \in Users |-> None]
      /\ request' = [j \in Jobs |-> IF request[j] = Idle THEN Idle ELSE Done]
      /\ profile' = Loaded(stored) /\ mishaps' = {} /\ crossed' = {}
      /\ moved' = moved \cup {a \in Agents : Moves(a, Loaded(stored)[a])}
      /\ UNCHANGED <<org, did, stored, ring>>
  BY DEF Restart
<1>2. AccountsTypeOK'
  BY <1>1 DEF ConsoleTypeOK, AccountsTypeOK
<1>3. profile' \in [Agents -> Profiles]
  BY <1>1, LoadedTyped DEF ConsoleTypeOK, NumbersTypeOK
<1>4. NumbersTypeOK'
  BY <1>1, <1>3 DEF ConsoleTypeOK, NumbersTypeOK
<1>5. \A j \in Jobs : request'[j] \in Ask /\ request'[j].at \in {"idle", "done"}
  BY <1>1 DEF Ask, RestAsk, Idle, Done
<1>6. Asked'
  BY <1>1, <1>5 DEF Asked, Found, Decided
<1> QED BY <1>2, <1>4, <1>6 DEF ConsoleTypeOK

-----------------------------------------------------------------------------
(* Where a step takes a request. *)

\* The steps a request begins at.
FirstSteps == {"create user", "read user", "create org", "patch org", "free did", "check did",
           "check removal", "check agent"}

\* Where a step takes a request.
Arrives(j, at) == Later(j) /\ request'[j].at = at

\* What Move and End do to a request.
LEMMA Arriving ==
  ASSUME Asked, NEW j \in Jobs, NEW at
  PROVE  /\ Move(j, at) => Arrives(j, at) /\ request'[j].arg = request[j].arg
         /\ End(j) => Arrives(j, "done")
<1>1. request[j] \in Ask
  BY DEF Asked
<1>2. \A r \in Ask : [r EXCEPT !.at = at].at = at
  BY DEF Ask, RestAsk, Idle, Done, NewUserAsk, UserAsk, NewOrgAsk, OrgAsk, FreeAsk, MapAsk,
         DropAsk, AgentAsk
<1>3. ASSUME Move(j, at) PROVE Arrives(j, at) /\ request'[j].arg = request[j].arg
  <2>1. /\ request'[j] = [request[j] EXCEPT !.at = at]
        /\ \A k \in Jobs \ {j} : request'[k] = request[k]
    BY <1>3 DEF Move, Asked
  <2>2. [request[j] EXCEPT !.at = at].arg = request[j].arg
    OBVIOUS
  <2> QED BY <1>1, <1>2, <2>1, <2>2 DEF Arrives, Later
<1>4. ASSUME End(j) PROVE Arrives(j, "done")
  BY <1>4, Ends DEF Arrives, Later, Done
<1> QED BY <1>3, <1>4

\* A request that is admitted begins, and nothing else changes.
AskSome(j, by) ==
  \/ (AskCreateUser(j, by) \/ AskUpdateUser(j, by) \/ AskFirstAdmin(j)) /\ UNCHANGED tenancy
  \/ AskOrganisation(j, by) \/ AskNumber(j, by) \/ AskAgent(j, by)

\* It begins at one of the first steps.
LEMMA Beginning ==
  ASSUME ConsoleTypeOK, Asked, NEW j \in Jobs, NEW by \in Users \cup {Machine}, AskSome(j, by)
  PROVE  /\ UNCHANGED <<people, tenancy>> /\ request[j] = Idle
         /\ \E at \in FirstSteps : Arrives(j, at)
<1>1. UNCHANGED <<people, tenancy>>
  BY DEF AskSome, AskCreateUser, AskUpdateUser, AskFirstAdmin, AskOrganisation, AskNumber, AskAgent
<1>2. \A u, area, at, arg : Admit(j, u, area, at, arg) => Arrives(j, at) /\ request[j] = Idle
  BY DEF Admit, Arrives, Later, Asked
<1>3. CASE AskCreateUser(j, by)
  <2>1. /\ request[j] = Idle
        /\ \E u \in Users, role \in Granted, o \in Orgs \cup {None} :
             LET home == IF Unrestricted(Caller(by)) THEN o ELSE Caller(by).org IN
               request' = [request EXCEPT ![j] =
                 [at |-> "create user", by |-> Caller(by),
                  arg |-> [user |-> u, role |-> role, org |-> home]]]
    BY <1>3 DEF AskCreateUser, Admit
  <2>2. PICK c, a : request' = [request EXCEPT ![j] = [at |-> "create user", by |-> c, arg |-> a]]
    BY <2>1
  <2>3. Arrives(j, "create user")
    BY <2>2 DEF Arrives, Later, Asked
  <2> QED BY <1>1, <2>1, <2>3 DEF FirstSteps
<1>4. CASE AskFirstAdmin(j)
  <2>1. PICK c, a : request' = [request EXCEPT ![j] = [at |-> "create user", by |-> c, arg |-> a]]
    BY <1>4 DEF AskFirstAdmin
  <2>2. Arrives(j, "create user")
    BY <2>1 DEF Arrives, Later, Asked
  <2> QED BY <1>1, <1>4, <2>2 DEF FirstSteps, AskFirstAdmin
<1>5. CASE AskUpdateUser(j, by)
  BY <1>1, <1>2, <1>5 DEF AskUpdateUser, FirstSteps
<1>6. CASE AskOrganisation(j, by)
  BY <1>1, <1>2, <1>6 DEF AskOrganisation, FirstSteps
<1>7. CASE AskNumber(j, by)
  BY <1>1, <1>2, <1>7 DEF AskNumber, FirstSteps
<1>8. CASE AskAgent(j, by)
  BY <1>1, <1>2, <1>8 DEF AskAgent, FirstSteps
<1> QED BY <1>3, <1>4, <1>5, <1>6, <1>7, <1>8 DEF AskSome

-----------------------------------------------------------------------------
(* The last administrator. *)

\* Whether an account's role is that of a platform administrator.
IsAdmin(r) == r.role = "platform_admin"

\* Of a request about an account: what it has seen of it still holds of its role, and
\* one about to suspend an administrator leaves another.
AdminKept == ~loose => \A j \in Jobs :
  /\ request[j].at \in {"set role", "check last", "set active"} =>
       (IsAdmin(request[j].arg.seen) <=> IsAdmin(account[request[j].arg.user]))
  /\ request[j].at = "set active" /\ ~request[j].arg.active /\ IsAdmin(request[j].arg.seen) =>
       Admins \ {request[j].arg.user} # {}

\* A step that leaves the accounts, and the requests about them.
LEMMA AdminQuiet ==
  ASSUME AdminKept, UNCHANGED <<account, loose>>,
         \A k \in Jobs : request'[k].at \in {"set role", "check last", "set active"} =>
           request'[k] = request[k]
  PROVE  AdminKept'
BY DEF AdminKept, Admins

\* A step that leaves the accounts and takes a request elsewhere.
LEMMA AdminElsewhere ==
  ASSUME AdminKept, UNCHANGED <<account, loose>>, NEW j \in Jobs, NEW at, Arrives(j, at),
         at \notin {"set role", "check last", "set active"}
  PROVE  AdminKept'
BY AdminQuiet DEF Arrives, Later

\* A new account takes no administrator away.
LEMMA CreateUserAdmin ==
  ASSUME ConsoleTypeOK, Asked, AdminKept, NEW j \in Jobs, CreateUser(j)
  PROVE  AdminKept' /\ Admins \subseteq Admins'
<1> DEFINE a == request[j].arg
           new == [role |-> a.role, org |-> a.org, active |-> TRUE]
<1>1. Arrives(j, "done")
  BY Arriving DEF CreateUser
<1>2. \A u \in Users : Exists(u) => account'[u] = account[u]
  BY DEF CreateUser, ConsoleTypeOK, AccountsTypeOK
<1>3. Admins \subseteq Admins'
  BY <1>2 DEF Admins, Exists, Absent
<1>4. ASSUME NEW k \in Jobs, request'[k].at \in {"set role", "check last", "set active"}
      PROVE  /\ request'[k] = request[k] /\ request[k].arg.user \in Users
             /\ account'[request[k].arg.user] = account[request[k].arg.user]
  <2>1. request'[k] = request[k]
    BY <1>1, <1>4 DEF Arrives, Later
  <2>2. request[k] \in UserAsk /\ Exists(request[k].arg.user)
    BY <1>4, <2>1, Asks DEF Asked, Found
  <2> QED BY <1>2, <2>1, <2>2 DEF UserAsk
<1>5. loose' = loose
  BY DEF CreateUser
<1> QED BY <1>3, <1>4, <1>5 DEF AdminKept

\* What is read holds as it is read.
LEMMA ReadUserAdmin ==
  ASSUME ConsoleTypeOK, Asked, AdminKept, NEW j \in Jobs, ReadUser(j)
  PROVE  AdminKept'
<1>0. UNCHANGED <<account, loose>>
  BY DEF ReadUser, people
<1>1. CASE End(j)
  BY <1>0, <1>1, Arriving, AdminElsewhere
<1>2. CASE ~End(j)
  <2> DEFINE a == request[j].arg
             r == [request[j] EXCEPT !.at = "set role", !.arg.seen = account[a.user]]
  <2>1. request[j] \in UserAsk
    BY Asks DEF Asked, ReadUser
  <2>2. account[a.user] \in Accounts
    BY <2>1 DEF UserAsk, ConsoleTypeOK, AccountsTypeOK
  <2>3. r.at = "set role" /\ r.arg.user = a.user /\ r.arg.seen = account[a.user]
    BY <2>1, <2>2 DEF UserAsk
  <2>4. request' = [request EXCEPT ![j] = r]
    BY <1>2 DEF ReadUser, Asked
  <2> HIDE DEF r
  <2>5. request'[j] = r /\ \A k \in Jobs \ {j} : request'[k] = request[k]
    BY <2>4 DEF Asked
  <2> QED BY <1>0, <2>3, <2>5 DEF AdminKept, Admins
<1> QED BY <1>1, <1>2

\* A role that makes and unmakes no administrator leaves the administrators.
LEMMA SetRoleAdmin ==
  ASSUME ConsoleTypeOK, Asked, AdminKept, NEW j \in Jobs, SetRole(j)
  PROVE  AdminKept' /\ (~loose' => Admins' = Admins)
<1> DEFINE a == request[j].arg
<1>1. Arrives(j, "check last") /\ request'[j].arg = a
  BY Arriving DEF SetRole
<1>2. request[j] \in UserAsk /\ a.user \in Users
  <2>1. request[j] \in UserAsk
    BY Asks DEF Asked, SetRole
  <2> QED BY <2>1 DEF UserAsk
<1>3. ASSUME ~loose'
      PROVE  /\ ~loose
             /\ \A u \in Users : /\ IsAdmin(account[u])' <=> IsAdmin(account[u])
                                 /\ account'[u].active = account[u].active
  <2>1. CASE account' = account /\ loose' = loose
    BY <1>3, <2>1 DEF IsAdmin
  <2>2. CASE /\ account' = [account EXCEPT ![a.user].role = a.role]
             /\ loose' = (loose \/ "platform_admin" \in {a.role, account[a.user].role})
    <3>1. ~loose /\ a.role # "platform_admin" /\ account[a.user].role # "platform_admin"
      BY <1>3, <2>2
    <3>2. account[a.user] \in Accounts
      BY <1>2 DEF ConsoleTypeOK, AccountsTypeOK
    <3> DEFINE new == [account[a.user] EXCEPT !.role = a.role]
    <3>3. new.role = a.role /\ new.active = account[a.user].active
      BY <3>2 DEF Accounts, Absent
    <3>4. account' = [account EXCEPT ![a.user] = new]
      BY <2>2
    <3> HIDE DEF new
    <3>5. \A u \in Users : account'[u] = IF u = a.user THEN new ELSE account[u]
      BY <3>4 DEF ConsoleTypeOK, AccountsTypeOK
    <3> QED BY <3>1, <3>3, <3>5 DEF IsAdmin
  <2> QED BY <2>1, <2>2 DEF SetRole
<1>4. ~loose' => Admins' = Admins
  BY <1>3 DEF Admins, IsAdmin
<1>5. AdminKept'
  <2> SUFFICES ASSUME ~loose', NEW k \in Jobs
               PROVE  /\ request'[k].at \in {"set role", "check last", "set active"} =>
                           (IsAdmin(request'[k].arg.seen) <=> IsAdmin(account'[request'[k].arg.user]))
                      /\ request'[k].at = "set active" /\ ~request'[k].arg.active
                           /\ IsAdmin(request'[k].arg.seen) =>
                             Admins' \ {request'[k].arg.user} # {}
    BY DEF AdminKept
  <2>1. \A u \in Users : IsAdmin(account'[u]) <=> IsAdmin(account[u])
    BY <1>3 DEF IsAdmin
  <2>2. CASE k = j
    <3>1. request[j].at = "set role"
      BY DEF SetRole
    <3> QED BY <1>1, <1>2, <1>3, <2>1, <2>2, <3>1 DEF AdminKept, Arrives
  <2>3. CASE k # j
    <3>1. request'[k] = request[k] /\ request[k] \in Ask
      BY <1>1, <2>3 DEF Arrives, Later, Asked
    <3>2. request[k].at \in {"set role", "check last", "set active"} => request[k].arg.user \in Users
      BY <3>1, Asks DEF UserAsk
    <3> QED BY <1>3, <1>4, <2>1, <3>1, <3>2 DEF AdminKept
  <2> QED BY <2>2, <2>3
<1> QED BY <1>4, <1>5

\* What passes the check leaves another administrator.
LEMMA CheckLastAdmin ==
  ASSUME ConsoleTypeOK, Asked, AdminKept, NEW j \in Jobs, CheckLast(j)
  PROVE  AdminKept'
<1>0. UNCHANGED <<account, loose>>
  BY DEF CheckLast, people
<1>1. CASE End(j)
  BY <1>0, <1>1, Arriving, AdminElsewhere
<1>2. CASE ~End(j)
  <2>1. Arrives(j, "set active") /\ request'[j].arg = request[j].arg
    BY <1>2, Arriving DEF CheckLast
  <2>2. request[j].at = "check last" /\ ~(~request[j].arg.active /\ IsLast(request[j].arg))
    BY <1>2 DEF CheckLast
  <2> QED BY <1>0, <2>1, <2>2 DEF AdminKept, Admins, Arrives, Later, IsLast, IsAdmin
<1> QED BY <1>1, <1>2

\* The suspension finds what the check found, unless two crossed.
LEMMA SetActiveAdmin ==
  ASSUME ConsoleTypeOK, Asked, AdminKept, NEW j \in Jobs, SetActive(j)
  PROVE  AdminKept' /\ (~loose' /\ Admins # {} => Admins' # {})
<1> DEFINE a == request[j].arg
           new == [account[a.user] EXCEPT !.active = a.active]
<1>1. Arrives(j, "done")
  BY Arriving DEF SetActive
<1>2. a.user \in Users /\ a.active \in BOOLEAN
  <2>1. request[j] \in UserAsk /\ request[j].at = "set active"
    BY Asks DEF Asked, SetActive
  <2> QED BY <2>1 DEF UserAsk, Asked, Decided
<1>3. new.role = account[a.user].role /\ new.active = a.active
  <2>1. account[a.user] \in Accounts
    BY <1>2 DEF ConsoleTypeOK, AccountsTypeOK
  <2> QED BY <2>1 DEF Accounts, Absent
<1>4. account' = [account EXCEPT ![a.user] = new]
  BY DEF SetActive
<1> HIDE DEF new
<1>5. \A u \in Users : account'[u] = IF u = a.user THEN new ELSE account[u]
  BY <1>4 DEF ConsoleTypeOK, AccountsTypeOK
<1>6. \A u \in Users : IsAdmin(account'[u]) <=> IsAdmin(account[u])
  BY <1>3, <1>5 DEF IsAdmin
<1>7. ~loose' => ~loose /\ \A k \in Jobs \ {j} : ~(request[k].at = "set active" /\ ~request[k].arg.active)
  BY DEF SetActive
<1>8. AdminKept'
  <2> SUFFICES ASSUME ~loose', NEW k \in Jobs
               PROVE  /\ request'[k].at \in {"set role", "check last", "set active"} =>
                           (IsAdmin(request'[k].arg.seen) <=> IsAdmin(account'[request'[k].arg.user]))
                      /\ ~(request'[k].at = "set active" /\ ~request'[k].arg.active)
    BY DEF AdminKept
  <2>1. CASE k = j
    BY <1>1, <2>1 DEF Arrives
  <2>2. CASE k # j
    <3>1. request'[k] = request[k] /\ request[k] \in Ask
      BY <1>1, <2>2 DEF Arrives, Later, Asked
    <3>2. request[k].at \in {"set role", "check last", "set active"} => request[k].arg.user \in Users
      BY <3>1, Asks DEF UserAsk
    <3> QED BY <1>6, <1>7, <2>2, <3>1, <3>2 DEF AdminKept
  <2> QED BY <2>1, <2>2
<1>9. ASSUME ~loose', Admins # {} PROVE Admins' # {}
  <2>0. Admins = {u \in Users : IsAdmin(account[u]) /\ account[u].active}
    BY DEF Admins, IsAdmin
  <2>1. Admins' = {u \in Users : IsAdmin(account'[u]) /\ account'[u].active}
    BY DEF Admins, IsAdmin
  <2>2. CASE a.active
    BY <1>3, <1>5, <1>6, <1>9, <2>0, <2>1, <2>2
  <2>3. CASE ~a.active
    <3>1. Admins \ {a.user} \subseteq Admins'
      BY <1>5, <1>6, <2>0, <2>1
    <3>2. CASE IsAdmin(account[a.user])
      <4>1. request[j].at = "set active" /\ ~loose
        BY <1>7, <1>9 DEF SetActive
      <4>2. Admins \ {a.user} # {}
        BY <2>3, <3>2, <4>1 DEF AdminKept
      <4> QED BY <3>1, <4>2
    <3>3. CASE ~IsAdmin(account[a.user])
      BY <1>9, <2>0, <3>1, <3>3
    <3> QED BY <3>2, <3>3
  <2> QED BY <1>2, <2>2, <2>3
<1> QED BY <1>8, <1>9

-----------------------------------------------------------------------------
(* Who answers. *)

\* An agent serves an organisation, or went to another owner since.
Fits(owner, o) == owner \in {None, o}
Serves(a, o) == a \in moved \/ (profile[a] # Gone /\ Fits(profile[a].owner, o))

\* What was checked of an agent holds of it until it is mapped, while it is mapped and
\* until the call it was resolved for is answered; the default is nobody's.
OwnKept ==
  /\ Serves("default", None)
  /\ \A n \in Dids : did[n].org # None => Serves(did[n].agent, did[n].org)
  /\ \A j \in Jobs : request[j].at = "map did" => Serves(request[j].arg.agent, request[j].arg.org)
  /\ \A c \in Callers : ring[c].org # None =>
       /\ ring[c].at = "resolved" => Serves(ring[c].agent, ring[c].org)
       /\ ring[c].at = "answered" =>
            ring[c].agent \in moved \/ Fits(ring[c].owner, ring[c].org)

\* What is served changes only as the history of moves records.
Steady ==
  /\ moved \subseteq moved'
  /\ \A a \in Agents : a \notin moved' /\ profile[a] # Gone =>
       profile'[a] # Gone /\ profile'[a].owner = profile[a].owner

\* What an agent serves it keeps serving while it stays where it is.
LEMMA Served ==
  ASSUME Steady, NEW a \in Agents, NEW o, Serves(a, o)
  PROVE  Serves(a, o)'
BY DEF Steady, Serves

\* A step that leaves the numbers, the calls and the numbers' requests.
LEMMA OwnQuiet ==
  ASSUME ConsoleTypeOK, Asked, OwnKept, Steady, UNCHANGED <<did, ring>>,
         \A k \in Jobs : request'[k].at = "map did" => request'[k] = request[k]
  PROVE  OwnKept'
<1>1. \A a \in Agents : \A o : Serves(a, o) => Serves(a, o)'
  BY Served
<1>2. /\ "default" \in Agents
      /\ \A n \in Dids : did[n].agent \in Agents
      /\ \A c \in Callers : ring[c].agent \in Agents
  BY NumbersAssumption DEF ConsoleTypeOK, NumbersTypeOK
<1>3. \A k \in Jobs : request[k].at = "map did" => request[k].arg.agent \in Agents
  <2> SUFFICES ASSUME NEW k \in Jobs, request[k].at = "map did"
               PROVE  request[k].arg.agent \in Agents
    OBVIOUS
  <2>1. request[k] \in MapAsk
    BY Asks DEF Asked
  <2> QED BY <2>1 DEF MapAsk
<1>4. Serves("default", None)'
  BY <1>1, <1>2 DEF OwnKept
<1>5. \A n \in Dids : did'[n].org # None => Serves(did[n].agent, did[n].org)'
  BY <1>1, <1>2 DEF OwnKept
<1>6. \A k \in Jobs : request'[k].at = "map did" =>
        Serves(request[k].arg.agent, request[k].arg.org)'
  <2> SUFFICES ASSUME NEW k \in Jobs, request'[k].at = "map did"
               PROVE  Serves(request[k].arg.agent, request[k].arg.org)'
    OBVIOUS
  <2>1. request'[k] = request[k]
    OBVIOUS
  <2>2. PICK a \in Agents, o \in {request[k].arg.org} : a = request[k].arg.agent
    BY <1>3, <2>1
  <2>3. Serves(a, o)'
    BY <1>1, <2>1, <2>2 DEF OwnKept
  <2> QED BY <2>1, <2>2, <2>3 DEF Serves
<1>7. \A c \in Callers : ring[c].org # None =>
        /\ ring[c].at = "resolved" => Serves(ring[c].agent, ring[c].org)'
        /\ ring[c].at = "answered" =>
             ring[c].agent \in moved' \/ Fits(ring[c].owner, ring[c].org)
  BY <1>1, <1>2 DEF OwnKept, Steady
<1> QED BY <1>4, <1>5, <1>6, <1>7 DEF OwnKept

\* A step that takes a request elsewhere than to the mapping of a number.
LEMMA OwnElsewhere ==
  ASSUME ConsoleTypeOK, Asked, OwnKept, Steady, UNCHANGED <<did, ring>>,
         NEW j \in Jobs, NEW at, Arrives(j, at), at # "map did"
  PROVE  OwnKept'
BY OwnQuiet DEF Arrives, Later

\* A step that leaves what is served.
LEMMA Unmoved ==
  ASSUME UNCHANGED <<moved, profile>>
  PROVE  Steady
BY DEF Steady

\* The check of a number looks at the agent that will answer it.
LEMMA CheckNumberOwn ==
  ASSUME ConsoleTypeOK, Asked, OwnKept, NEW j \in Jobs, CheckNumber(j)
  PROVE  OwnKept'
<1>1. Steady /\ UNCHANGED <<did, ring, moved, profile>>
  BY Unmoved DEF CheckNumber, tenancy
<1>2. CASE End(j)
  BY <1>1, <1>2, Arriving, OwnElsewhere
<1>3. CASE ~End(j)
  <2>1. Arrives(j, "map did") /\ request'[j].arg = request[j].arg
    BY <1>3, Arriving DEF CheckNumber
  <2>2. MayAnswer(profile[request[j].arg.agent], request[j].arg.org)
    BY <1>3 DEF CheckNumber
  <2>3. \A a, o : Serves(a, o) => Serves(a, o)'
    BY <1>1 DEF Serves
  <2>4. \A k \in Jobs : request'[k].at = "map did" =>
          Serves(request'[k].arg.agent, request'[k].arg.org)
    BY <2>1, <2>2 DEF Arrives, Later, OwnKept, MayAnswer, Serves, Fits
  <2> QED BY <1>1, <2>4 DEF OwnKept, Serves
<1> QED BY <1>2, <1>3

\* What is mapped was checked, and still holds of the agent.
LEMMA MapsOwn ==
  ASSUME ConsoleTypeOK, Asked, OwnKept, NEW j \in Jobs, MapNumber(j) \/ FreeNumber(j)
  PROVE  OwnKept'
<1> DEFINE a == request[j].arg
<1>1. UNCHANGED <<ring, moved, profile>> /\ Arrives(j, "done")
  BY Arriving DEF MapNumber, FreeNumber
<1>2. CASE MapNumber(j)
  <2>1. \A n \in Dids : did'[n].org # None => Serves(did'[n].agent, did'[n].org)
    <3>1. Serves(a.agent, a.org)
      BY <1>2 DEF OwnKept, MapNumber
    <3>2. did' = [did EXCEPT ![a.did] = [org |-> a.org, agent |-> a.agent, active |-> a.active]]
      BY <1>2 DEF MapNumber
    <3>3. \A n \in Dids : \/ did'[n] = did[n]
                          \/ did'[n].org = a.org /\ did'[n].agent = a.agent
      BY <3>2 DEF ConsoleTypeOK, NumbersTypeOK
    <3> QED BY <3>1, <3>3 DEF OwnKept
  <2> QED BY <1>1, <2>1 DEF OwnKept, Serves, Arrives, Later
<1>3. CASE FreeNumber(j)
  <2>1. \A n \in Dids : did'[n].org # None => Serves(did'[n].agent, did'[n].org)
    BY <1>3 DEF FreeNumber, Unmapped, OwnKept, ConsoleTypeOK, NumbersTypeOK
  <2> QED BY <1>1, <2>1 DEF OwnKept, Serves, Arrives, Later
<1> QED BY <1>2, <1>3

\* An agent taken away or given another owner is recorded.
LEMMA AppliesSteady ==
  ASSUME ConsoleTypeOK, NEW a, NEW p, Serve(a, p)
  PROVE  Steady
BY DEF Serve, Moves, Steady, ConsoleTypeOK, NumbersTypeOK

\* A call goes by the mapping, and by the agent or the default that is nobody's.
LEMMA CallsOwn ==
  ASSUME ConsoleTypeOK, Asked, OwnKept, NEW c \in Callers, Resolve(c) \/ Answer(c)
  PROVE  OwnKept'
<1>1. UNCHANGED <<did, request, moved, profile>>
  BY DEF Resolve, Answer
<1>2. \A d \in Callers : ring'[d].org # None =>
        /\ ring'[d].at = "resolved" => Serves(ring'[d].agent, ring'[d].org)
        /\ ring'[d].at = "answered" =>
             ring'[d].agent \in moved \/ Fits(ring'[d].owner, ring'[d].org)
  <2>1. CASE Resolve(c)
    <3>1. PICK n \in Dids :
            ring' = [ring EXCEPT ![c] =
              [at |-> "resolved", owner |-> None,
               org |-> IF InService(n) THEN did[n].org ELSE None,
               agent |-> IF InService(n) THEN did[n].agent ELSE "default"]]
      BY <2>1 DEF Resolve
    <3>2. \A d \in Callers \ {c} : ring'[d] = ring[d]
      BY <3>1 DEF ConsoleTypeOK, NumbersTypeOK
    <3>3. /\ ring'[c].at = "resolved"
          /\ ring'[c].org # None => ring'[c].org = did[n].org /\ ring'[c].agent = did[n].agent
      BY <3>1 DEF ConsoleTypeOK, NumbersTypeOK
    <3> QED BY <3>2, <3>3 DEF OwnKept
  <2>2. CASE Answer(c)
    <3> DEFINE r == ring[c]
               b == [r EXCEPT !.at = "answered", !.owner = Answering(r.agent).owner,
                              !.agent = IF profile[@] = Gone THEN "default" ELSE @]
    <3>1. r.at = "resolved" /\ r \in [at : {"none", "resolved", "answered"},
                   org : Orgs \cup {None}, agent : Agents, owner : Orgs \cup {None}]
      BY <2>2 DEF Answer, ConsoleTypeOK, NumbersTypeOK
    <3>2. /\ b.at = "answered" /\ b.org = r.org /\ b.owner = Answering(r.agent).owner
          /\ b.agent = IF profile[r.agent] = Gone THEN "default" ELSE r.agent
      BY <3>1
    <3>3. ring' = [ring EXCEPT ![c] = b]
      BY <2>2 DEF Answer, ConsoleTypeOK, NumbersTypeOK
    <3> HIDE DEF b
    <3>4. ring'[c] = b /\ \A d \in Callers \ {c} : ring'[d] = ring[d]
      BY <3>3 DEF ConsoleTypeOK, NumbersTypeOK
    <3>5. r.org # None => b.agent \in moved \/ Fits(b.owner, b.org)
      <4>1. CASE profile[r.agent] = Gone
        BY <3>2, <4>1 DEF OwnKept, Serves, Fits, Answering
      <4>2. CASE profile[r.agent] # Gone
        BY <3>1, <3>2, <4>2 DEF OwnKept, Serves, Answering
      <4> QED BY <4>1, <4>2
    <3> QED BY <3>2, <3>4, <3>5 DEF OwnKept
  <2> QED BY <2>1, <2>2
<1> QED BY <1>1, <1>2 DEF OwnKept, Serves

\* A boot records the agents it takes away or finds with another owner.
LEMMA RestartOwn ==
  ASSUME ConsoleTypeOK, Asked, OwnKept, Restart
  PROVE  OwnKept'
<1>1. /\ request' = [j \in Jobs |-> IF request[j] = Idle THEN Idle ELSE Done]
      /\ profile' = Loaded(stored) /\ UNCHANGED <<did, ring>>
      /\ moved' = moved \cup {a \in Agents : Moves(a, Loaded(stored)[a])}
  BY DEF Restart
<1>2. Steady
  BY <1>1 DEF Steady, Moves
<1>3. \A k \in Jobs : request'[k].at # "map did"
  BY <1>1 DEF Idle, Done
<1> QED BY <1>1, <1>2, <1>3, OwnQuiet

-----------------------------------------------------------------------------
(* What is served and what is saved. *)

\* The steps between the check of an agent and the end of its change.
Changing == {"save agent", "apply agent", "remove agent", "forget agent"}
Changes(j, a) == request[j].at \in Changing /\ request[j].arg.agent = a

\* A change under way of an agent that no other crosses finds in the database what it
\* saved there, and what it is to serve can be loaded again.
SavedJob(j) ==
  /\ request[j].at \in {"save agent", "apply agent"} => request[j].arg.new # Gone
  /\ request[j].at \in {"remove agent", "forget agent"} => request[j].arg.agent # "default"
  /\ request[j].at \in {"apply agent", "forget agent"} /\ request[j].arg.agent \notin crossed =>
       stored[request[j].arg.agent] =
         IF request[j].at = "forget agent" THEN Gone ELSE request[j].arg.new

\* The invariant of the saved and the served.
SavedKept ==
  /\ \A a \in Agents \ crossed : \A j, k \in Jobs : Changes(j, a) /\ Changes(k, a) => j = k
  /\ \A j \in Jobs : SavedJob(j)
  /\ AgentsAsSaved

\* A request that changes an agent names one.
LEMMA ChangesTyped ==
  ASSUME Asked, NEW j \in Jobs, request[j].at \in Changing
  PROVE  request[j].arg.agent \in Agents
<1>1. request[j] \in AgentAsk \cup DropAsk
  BY Asks DEF Asked, Changing
<1> QED BY <1>1 DEF AgentAsk, DropAsk

\* A step that leaves the profiles and the changes of them.
LEMMA SavedQuiet ==
  ASSUME SavedKept, UNCHANGED <<stored, profile, crossed>>,
         \A k \in Jobs : \/ request'[k] = request[k]
                         \/ /\ request'[k].at \notin Changing
                            /\ request[k].at \notin {"apply agent", "forget agent"}
  PROVE  SavedKept'
<1>1. \A k \in Jobs, a \in Agents : Changes(k, a)' => Changes(k, a)
  BY DEF Changes
<1>2. \A a \in Agents \ crossed' : \A j, k \in Jobs : Changes(j, a)' /\ Changes(k, a)' => j = k
  BY <1>1 DEF SavedKept
<1>3. \A k \in Jobs : SavedJob(k)'
  BY DEF SavedKept, SavedJob, Changing
<1>4. AgentsAsSaved'
  BY DEF SavedKept, AgentsAsSaved, Changing
<1> QED BY <1>2, <1>3, <1>4 DEF SavedKept

\* A step that takes a request that is at no change elsewhere.
LEMMA SavedElsewhere ==
  ASSUME SavedKept, UNCHANGED <<stored, profile, crossed>>, NEW j \in Jobs, NEW at,
         Arrives(j, at), at \notin Changing,
         request[j].at \notin {"apply agent", "forget agent"}
  PROVE  SavedKept'
BY SavedQuiet DEF Arrives, Later

\* A change begins: its rivals are recorded.
LEMMA ChecksSaved ==
  ASSUME ConsoleTypeOK, Asked, SavedKept, NEW j \in Jobs, CheckAgent(j) \/ CheckRemoval(j)
  PROVE  SavedKept'
<1> DEFINE a == request[j].arg.agent
<1>1. UNCHANGED <<stored, profile>> /\ request[j].at \in {"check agent", "check removal"}
  BY DEF CheckAgent, CheckRemoval
<1>2. CASE End(j) /\ UNCHANGED crossed
  BY <1>1, <1>2, Arriving, SavedElsewhere DEF Changing
<1>3. CASE ~(End(j) /\ UNCHANGED crossed)
  <2>1. crossed' = IF Rivals(j, a) THEN crossed \cup {a} ELSE crossed
    BY <1>3 DEF CheckAgent, CheckRemoval
  <2>2. /\ Later(j) /\ request'[j].at \in {"save agent", "remove agent"}
        /\ request'[j].arg.agent = a
        /\ request'[j].at = "save agent" => request'[j].arg.new # Gone
        /\ request'[j].at = "remove agent" => a # "default"
    <3>1. CASE CheckAgent(j)
      <4> DEFINE new == [owner |-> Owner(profile[a], request[j].by, request[j].arg.home), by |-> j]
                 r == [request[j] EXCEPT !.at = "save agent", !.arg.new = new]
      <4>1. request[j] \in AgentAsk
        BY <3>1, Asks DEF Asked, CheckAgent
      <4>2. new # Gone
        BY NumbersAssumption DEF Gone
      <4>3. request' = [request EXCEPT ![j] = r]
        BY <1>3, <3>1 DEF CheckAgent, Asked
      <4> HIDE DEF new
      <4>4. r.at = "save agent" /\ r.arg.agent = a /\ r.arg.new = new
        BY <4>1 DEF AgentAsk
      <4> HIDE DEF r
      <4>5. request'[j] = r /\ Later(j)
        BY <4>3 DEF Asked, Later
      <4> QED BY <4>2, <4>4, <4>5
    <3>2. CASE CheckRemoval(j)
      <4>1. Move(j, "remove agent") /\ a # "default"
        BY <1>3, <3>2 DEF CheckRemoval
      <4>2. Arrives(j, "remove agent") /\ request'[j].arg = request[j].arg
        BY <4>1, Arriving
      <4> QED BY <4>1, <4>2 DEF Arrives
    <3> QED BY <3>1, <3>2
  <2>3. \A k \in Jobs \ {j} : \A b : Changes(k, b)' <=> Changes(k, b)
    BY <2>2 DEF Later, Changes
  <2>4. \A b : Changes(j, b)' => b = a
    BY <2>2 DEF Changes
  <2>5. \A b \in Agents \ crossed' : \A i, k \in Jobs : Changes(i, b)' /\ Changes(k, b)' => i = k
    <3>1. \A k \in Jobs \ {j} : a \notin crossed' => ~Changes(k, a)
      BY <2>1 DEF Rivals, Changes, Changing
    <3> QED BY <2>1, <2>3, <2>4, <3>1 DEF SavedKept
  <2>6. crossed \subseteq crossed'
    BY <2>1
  <2>7. \A k \in Jobs : SavedJob(k)'
    BY <1>1, <2>2, <2>6 DEF SavedKept, SavedJob, Later
  <2>8. AgentsAsSaved'
    BY <1>1, <2>2, <2>6 DEF SavedKept, AgentsAsSaved, Later
  <2> QED BY <2>5, <2>7, <2>8 DEF SavedKept
<1> QED BY <1>2, <1>3

\* A change that goes on, saved or not.
LEMMA StoresSaved ==
  ASSUME ConsoleTypeOK, Asked, SavedKept, NEW j \in Jobs, SaveAgent(j) \/ RemoveAgent(j)
  PROVE  SavedKept'
<1> DEFINE a == request[j].arg.agent
<1>1. UNCHANGED <<profile, crossed>> /\ request[j].at \in {"save agent", "remove agent"}
  BY DEF SaveAgent, RemoveAgent
<1>2. CASE End(j) /\ UNCHANGED stored
  BY <1>1, <1>2, Arriving, SavedElsewhere DEF Changing
<1>3. CASE ~(End(j) /\ UNCHANGED stored)
  <2>1. /\ a \in Agents /\ Changes(j, a)
        /\ \A k \in Jobs \ {j} : a \notin crossed => ~Changes(k, a)
    BY <1>1, ChangesTyped DEF Changes, Changing, SavedKept
  <2>2. /\ Later(j) /\ request'[j].arg = request[j].arg
        /\ \/ request'[j].at = "apply agent" /\ stored'[a] = request[j].arg.new
              /\ request[j].at = "save agent"
           \/ request'[j].at = "forget agent" /\ stored'[a] = Gone /\ request[j].at = "remove agent"
        /\ \A b \in Agents \ {a} : stored'[b] = stored[b]
    <3>1. CASE SaveAgent(j)
      <4>1. Move(j, "apply agent") /\ stored' = [stored EXCEPT ![a] = request[j].arg.new]
        BY <1>3, <3>1 DEF SaveAgent
      <4> QED BY <2>1, <3>1, <4>1, Arriving DEF SaveAgent, Arrives, ConsoleTypeOK, NumbersTypeOK
    <3>2. CASE RemoveAgent(j)
      <4>1. Move(j, "forget agent") /\ stored' = [stored EXCEPT ![a] = Gone]
        BY <1>3, <3>2 DEF RemoveAgent
      <4>2. request'[j].at = "forget agent" /\ request'[j].arg = request[j].arg /\ Later(j)
        BY <4>1, Arriving DEF Arrives
      <4>3. request[j].at = "remove agent"
        BY <3>2 DEF RemoveAgent
      <4> QED BY <2>1, <4>1, <4>2, <4>3 DEF ConsoleTypeOK, NumbersTypeOK
    <3> QED BY <3>1, <3>2
  <2>3. \A b \in Agents \ crossed' : \A i, k \in Jobs : Changes(i, b)' /\ Changes(k, b)' => i = k
    <3>1. \A k \in Jobs : \A b : Changes(k, b)' => Changes(k, b)
      BY <1>1, <2>2 DEF Changes, Changing, Later
    <3> QED BY <1>1, <3>1 DEF SavedKept
  <2>4. SavedJob(j)'
    BY <1>1, <2>2 DEF SavedKept, SavedJob
  <2>5. ASSUME NEW k \in Jobs \ {j} PROVE SavedJob(k)'
    <3>1. request'[k] = request[k]
      BY <2>2 DEF Later
    <3>2. SavedJob(k)
      BY DEF SavedKept
    <3>3. CASE request[k].at \in {"apply agent", "forget agent"} /\ request[k].arg.agent \notin crossed
      <4>1. request[k].arg.agent \in Agents /\ request[k].arg.agent # a
        BY <2>1, <3>3, ChangesTyped DEF Changes, Changing
      <4> QED BY <1>1, <2>2, <3>1, <3>2, <4>1 DEF SavedJob
    <3>4. CASE ~(request[k].at \in {"apply agent", "forget agent"} /\ request[k].arg.agent \notin crossed)
      BY <1>1, <3>1, <3>2, <3>4 DEF SavedJob
    <3> QED BY <3>3, <3>4
  <2>6. AgentsAsSaved'
    <3> SUFFICES ASSUME NEW b \in Agents \ crossed,
                        \A k \in Jobs : request'[k].at \in {"apply agent", "forget agent"} =>
                          request'[k].arg.agent # b
                 PROVE  profile[b] = Loaded(stored')[b]
      BY <1>1 DEF AgentsAsSaved, Loaded
    <3>1. b # a
      BY <2>2
    <3>2. \A k \in Jobs : request[k].at \in {"apply agent", "forget agent"} =>
            request[k].arg.agent # b
      BY <1>1, <2>2 DEF Later
    <3>3. profile[b] = Loaded(stored)[b]
      BY <3>2 DEF SavedKept, AgentsAsSaved
    <3> QED BY <2>2, <3>1, <3>3 DEF Loaded
  <2> QED BY <2>3, <2>4, <2>5, <2>6 DEF SavedKept
<1> QED BY <1>2, <1>3

\* A change ends with what it saved in memory.
LEMMA AppliesSaved ==
  ASSUME ConsoleTypeOK, Asked, SavedKept, NEW j \in Jobs, ApplyAgent(j) \/ ForgetAgent(j)
  PROVE  SavedKept'
<1> DEFINE a == request[j].arg.agent
<1>1. /\ UNCHANGED <<stored, crossed>> /\ request[j].at \in {"apply agent", "forget agent"}
      /\ Later(j) /\ request'[j].at = "done"
  BY Arriving DEF ApplyAgent, ForgetAgent, Arrives
<1>2. /\ a \in Agents /\ Changes(j, a)
  BY <1>1, ChangesTyped DEF Changes, Changing
<1>3. /\ \A b \in Agents \ {a} : profile'[b] = profile[b]
      /\ profile'[a] = IF request[j].at = "forget agent" THEN Gone ELSE request[j].arg.new
  BY <1>1, <1>2 DEF ApplyAgent, ForgetAgent, Serve, ConsoleTypeOK, NumbersTypeOK
<1>4. \A b \in Agents \ crossed' : \A i, k \in Jobs : Changes(i, b)' /\ Changes(k, b)' => i = k
  <2>1. \A k \in Jobs : \A b : Changes(k, b)' => Changes(k, b)
    BY <1>1 DEF Changes, Changing, Later
  <2> QED BY <1>1, <2>1 DEF SavedKept
<1>5. \A k \in Jobs : SavedJob(k)'
  BY <1>1 DEF SavedKept, SavedJob, Later
<1>6. a \notin crossed => profile'[a] = Loaded(stored)[a]
  BY <1>1, <1>2, <1>3 DEF SavedKept, SavedJob, Loaded
<1>7. AgentsAsSaved'
  <2> SUFFICES ASSUME NEW b \in Agents \ crossed,
                      \A k \in Jobs : request'[k].at \in {"apply agent", "forget agent"} =>
                        request'[k].arg.agent # b
               PROVE  profile'[b] = Loaded(stored)[b]
    BY <1>1 DEF AgentsAsSaved
  <2>1. CASE b = a
    BY <1>6, <2>1
  <2>2. CASE b # a
    <3>1. \A k \in Jobs : request[k].at \in {"apply agent", "forget agent"} =>
            request[k].arg.agent # b
      BY <1>1, <2>2 DEF Later
    <3>2. profile[b] = Loaded(stored)[b]
      BY <3>1 DEF SavedKept, AgentsAsSaved
    <3> QED BY <1>3, <2>2, <3>2
  <2> QED BY <2>1, <2>2
<1> QED BY <1>4, <1>5, <1>7 DEF SavedKept

\* A boot serves what is saved.
LEMMA RestartSaved ==
  ASSUME ConsoleTypeOK, Asked, Restart
  PROVE  SavedKept'
<1>1. /\ request' = [j \in Jobs |-> IF request[j] = Idle THEN Idle ELSE Done]
      /\ profile' = Loaded(stored) /\ stored' = stored
  BY DEF Restart
<1>2. \A k \in Jobs : request'[k].at \in {"idle", "done"}
  BY <1>1 DEF Idle, Done
<1>3. \A k \in Jobs : SavedJob(k)' /\ \A b : ~Changes(k, b)'
  BY <1>2 DEF SavedJob, Changes, Changing
<1>4. AgentsAsSaved'
  BY <1>1 DEF AgentsAsSaved
<1> QED BY <1>3, <1>4 DEF SavedKept

-----------------------------------------------------------------------------
(* What holds of the console. *)

\* The inductive invariant: what requests carry, what those about accounts have seen,
\* what those about numbers have checked, and what those about agents have saved.
ConsoleInv == ConsoleTypeOK /\ Asked /\ AdminKept /\ OwnKept /\ SavedKept

\* It holds at the start.
LEMMA ConsoleStart ==
  ASSUME ConsoleInit
  PROVE  ConsoleInv
<1>1. /\ request = [j \in Jobs |-> Idle]
      /\ AccountsInit /\ NumbersInit
  BY DEF ConsoleInit
<1>2. \A j \in Jobs : request[j] \in Ask /\ request[j].at = "idle"
  BY <1>1 DEF Ask, RestAsk, Idle
<1>3. Asked
  BY <1>1, <1>2 DEF Asked, Found, Decided
<1>4. AccountsTypeOK
  <2>1. \A r \in {"platform_admin", "org_admin"}, o \in Orgs \cup {None} :
          [role |-> r, org |-> o, active |-> TRUE] \in Accounts
    BY DEF Accounts, Role
  <2>2. \A u \in Users : account[u] \in Accounts
    <3> SUFFICES ASSUME NEW u \in Users, account[u] # Absent PROVE account[u] \in Accounts
      BY DEF Accounts
    <3>1. PICK r \in {"platform_admin", "org_admin"}, o \in Orgs \cup {None} :
            account[u] = [role |-> r, org |-> o, active |-> TRUE]
      BY <1>1 DEF AccountsInit
    <3> QED BY <2>1, <3>1
  <2>3. account \in [Users -> Accounts]
    BY <1>1, <2>2 DEF AccountsInit
  <2> QED BY <1>1, <2>3 DEF AccountsInit, AccountsTypeOK
<1>5. stored \in [Agents -> Profiles] /\ stored["default"] = Gone /\ profile = Loaded(stored)
  <2>1. {Gone} \cup [owner : Orgs \cup {None}, by : {"earlier"}] \subseteq Profiles
    BY DEF Profiles
  <2> QED BY <1>1, <2>1 DEF NumbersInit
<1>6. profile \in [Agents -> Profiles]
  BY <1>5, LoadedTyped
<1>7. NumbersTypeOK
  <2>1. Unmapped \in [org : Orgs \cup {None}, agent : Agents, active : BOOLEAN]
    BY NumbersAssumption DEF Unmapped
  <2>2. org \in [Orgs -> {"absent", "active", "suspended"}]
    BY <1>1 DEF NumbersInit
  <2>3. ring \in [Callers -> [at : {"none", "resolved", "answered"}, org : Orgs \cup {None},
                              agent : Agents, owner : Orgs \cup {None}]]
    BY <1>1, NumbersAssumption DEF NumbersInit
  <2> QED BY <1>1, <1>5, <1>6, <2>1, <2>2, <2>3 DEF NumbersInit, NumbersTypeOK
<1>8. AdminKept
  BY <1>2 DEF AdminKept
<1>9. OwnKept
  <2>1. profile["default"] = BuiltIn
    BY <1>5, NumbersAssumption DEF Loaded
  <2>2. BuiltIn # Gone /\ BuiltIn.owner = None
    BY DEF BuiltIn, Gone
  <2>3. \A n \in Dids : did[n].org = None
    BY <1>1 DEF NumbersInit, Unmapped
  <2>4. \A c \in Callers : ring[c].org = None
    BY <1>1 DEF NumbersInit
  <2> QED BY <1>2, <2>1, <2>2, <2>3, <2>4 DEF OwnKept, Serves, Fits
<1>10. SavedKept
  BY <1>2, <1>5 DEF SavedKept, SavedJob, Changes, Changing, AgentsAsSaved
<1> QED BY <1>3, <1>4, <1>7, <1>8, <1>9, <1>10 DEF ConsoleInv, ConsoleTypeOK

\* The types, step by step.
LEMMA ConsoleStepTyped ==
  ConsoleTypeOK /\ Asked /\ [ConsoleNext]_consoleVars => ConsoleTypeOK' /\ Asked'
<1> SUFFICES ASSUME ConsoleTypeOK, Asked, [ConsoleNext]_consoleVars
             PROVE  ConsoleTypeOK' /\ Asked'
  OBVIOUS
<1>1. CASE UNCHANGED consoleVars
  BY <1>1 DEF consoleVars, people, tenancy, ConsoleTypeOK, AccountsTypeOK, NumbersTypeOK,
              Asked, Found, Decided, Exists
<1>2. CASE AccountsNext /\ UNCHANGED tenancy
  BY <1>2, SignsTyped, AskTyped, FirstAdminTyped, CreateUserTyped, ReadUserTyped, SetRoleTyped,
     CheckLastTyped, SetActiveTyped DEF AccountsNext
<1>3. CASE NumbersNext
  BY <1>3, AskTyped, OrganisationsTyped, NumberStepsTyped, CheckAgentTyped, SavesTyped,
     AppliesTyped, CallsTypedHere, RestartTyped DEF NumbersNext
<1> QED BY <1>1, <1>2, <1>3 DEF ConsoleNext

\* A step that begins a request, or only ends one the invariants say nothing of.
LEMMA OtherSteps ==
  ASSUME ConsoleTypeOK, Asked, AdminKept, OwnKept, SavedKept, NEW j \in Jobs,
         \/ \E by \in Users \cup {Machine} : AskSome(j, by)
         \/ CreateOrganisation(j) \/ PatchOrganisation(j)
  PROVE  AdminKept' /\ OwnKept' /\ SavedKept' /\ UNCHANGED <<account, loose>>
<1>1. PICK at \in FirstSteps \cup {"done"} :
        /\ Arrives(j, at) /\ request[j].at \in {"idle", "create org", "patch org"}
        /\ UNCHANGED <<account, loose, did, ring, moved, profile, stored, crossed>>
  <2>1. CASE \E by \in Users \cup {Machine} : AskSome(j, by)
    <3>1. PICK by \in Users \cup {Machine} : AskSome(j, by)
      BY <2>1
    <3>2. /\ UNCHANGED <<people, tenancy>> /\ request[j] = Idle
          /\ \E at \in FirstSteps : Arrives(j, at)
      BY <3>1, Beginning
    <3> QED BY <3>2 DEF Idle, people, tenancy
  <2>2. CASE CreateOrganisation(j) \/ PatchOrganisation(j)
    BY <2>2, Arriving DEF CreateOrganisation, PatchOrganisation, people
  <2> QED BY <2>1, <2>2
<1>2. at \notin {"set role", "check last", "set active"} /\ at # "map did" /\ at \notin Changing
  BY DEF FirstSteps, Changing
<1> QED BY <1>1, <1>2, AdminElsewhere, OwnElsewhere, SavedElsewhere, Unmoved

\* The steps of a request about an account leave the tenancy, and the others' steps.
LEMMA AccountSteps ==
  ASSUME ConsoleTypeOK, Asked, OwnKept, SavedKept, NEW j \in Jobs, UNCHANGED tenancy,
         CreateUser(j) \/ ReadUser(j) \/ SetRole(j) \/ CheckLast(j) \/ SetActive(j)
  PROVE  OwnKept' /\ SavedKept'
<1>1. UNCHANGED <<did, ring, moved, profile, stored, crossed>>
  BY DEF tenancy
<1>2. \E at \in {"done", "set role", "check last", "set active"} : Arrives(j, at)
  <2>1. CASE ReadUser(j) /\ ~End(j)
    <3> DEFINE r == [request[j] EXCEPT !.at = "set role", !.arg.seen = account[request[j].arg.user]]
    <3>1. request[j] \in UserAsk
      BY <2>1, Asks DEF Asked, ReadUser
    <3>2. r.at = "set role"
      BY <3>1 DEF UserAsk
    <3>3. request' = [request EXCEPT ![j] = r]
      BY <2>1 DEF ReadUser, Asked
    <3> HIDE DEF r
    <3> QED BY <3>2, <3>3 DEF Arrives, Later, Asked
  <2>2. CASE ~(ReadUser(j) /\ ~End(j))
    BY <2>2, Arriving DEF CreateUser, SetRole, CheckLast, SetActive
  <2> QED BY <2>1, <2>2
<1>3. request[j].at \in {"create user", "read user", "set role", "check last", "set active"}
  BY DEF CreateUser, ReadUser, SetRole, CheckLast, SetActive
<1> QED BY <1>1, <1>2, <1>3, OwnElsewhere, SavedElsewhere, Unmoved DEF Changing

\* The steps of a request about a number or an agent leave the accounts.
LEMMA TenancySteps ==
  ASSUME ConsoleTypeOK, Asked, AdminKept, NEW j \in Jobs,
         \/ CheckNumber(j) \/ MapNumber(j) \/ FreeNumber(j)
         \/ CheckAgent(j) \/ SaveAgent(j) \/ ApplyAgent(j)
         \/ CheckRemoval(j) \/ RemoveAgent(j) \/ ForgetAgent(j)
  PROVE  /\ AdminKept' /\ UNCHANGED <<account, loose>>
         /\ \E at \in {"done", "map did", "save agent", "apply agent", "remove agent",
                       "forget agent"} : Arrives(j, at)
<1>1. UNCHANGED <<account, loose>>
  BY DEF CheckNumber, MapNumber, FreeNumber, CheckAgent, SaveAgent, ApplyAgent, CheckRemoval,
         RemoveAgent, ForgetAgent, people
<1>2. \E at \in {"done", "map did", "save agent", "apply agent", "remove agent",
                 "forget agent"} : Arrives(j, at)
  <2>1. CASE CheckAgent(j) /\ ~End(j)
    <3> DEFINE new == [owner |-> Owner(profile[request[j].arg.agent], request[j].by,
                                       request[j].arg.home), by |-> j]
               r == [request[j] EXCEPT !.at = "save agent", !.arg.new = new]
    <3>1. request[j] \in AgentAsk
      BY <2>1, Asks DEF Asked, CheckAgent
    <3>2. r.at = "save agent"
      BY <3>1 DEF AgentAsk
    <3>3. request' = [request EXCEPT ![j] = r]
      BY <2>1 DEF CheckAgent, Asked
    <3> HIDE DEF r
    <3> QED BY <3>2, <3>3 DEF Arrives, Later, Asked
  <2>2. CASE ~(CheckAgent(j) /\ ~End(j))
    BY <2>2, Arriving DEF CheckNumber, MapNumber, FreeNumber, SaveAgent, ApplyAgent,
         CheckRemoval, RemoveAgent, ForgetAgent
  <2> QED BY <2>1, <2>2
<1> QED BY <1>1, <1>2, AdminElsewhere

\* The steps of a request about a number leave what is saved, and those of one about
\* an agent serve it as the history of moves records.
LEMMA NumberSteps ==
  ASSUME ConsoleTypeOK, Asked, SavedKept, NEW j \in Jobs,
         CheckNumber(j) \/ MapNumber(j) \/ FreeNumber(j)
  PROVE  SavedKept'
<1>1. UNCHANGED <<stored, profile, crossed>>
  BY DEF CheckNumber, MapNumber, FreeNumber, tenancy
<1>2. Arrives(j, "done") \/ Arrives(j, "map did")
  BY Arriving DEF CheckNumber, MapNumber, FreeNumber
<1>3. request[j].at \in {"check did", "map did", "free did"}
  BY DEF CheckNumber, MapNumber, FreeNumber
<1> QED BY <1>1, <1>2, <1>3, SavedElsewhere DEF Changing

\* A change of an agent takes it away only where that is recorded.
LEMMA AgentSteps ==
  ASSUME ConsoleTypeOK, Asked, AdminKept, OwnKept, NEW j \in Jobs,
         \/ CheckAgent(j) \/ SaveAgent(j) \/ ApplyAgent(j)
         \/ CheckRemoval(j) \/ RemoveAgent(j) \/ ForgetAgent(j)
  PROVE  OwnKept'
<1>1. UNCHANGED <<did, ring>>
  BY DEF CheckAgent, SaveAgent, ApplyAgent, CheckRemoval, RemoveAgent, ForgetAgent
<1>2. Steady
  <2>1. CASE ApplyAgent(j) \/ ForgetAgent(j)
    BY <2>1, AppliesSteady DEF ApplyAgent, ForgetAgent
  <2>2. CASE CheckAgent(j) \/ SaveAgent(j) \/ CheckRemoval(j) \/ RemoveAgent(j)
    BY <2>2, Unmoved DEF CheckAgent, SaveAgent, CheckRemoval, RemoveAgent
  <2> QED BY <2>1, <2>2
<1>3. \A k \in Jobs : request'[k].at = "map did" => request'[k] = request[k]
  <2>1. \E at \in {"done", "save agent", "apply agent", "remove agent", "forget agent"} :
          Arrives(j, at)
    <3>1. CASE CheckAgent(j) /\ ~End(j)
      <4>1. PICK at \in {"done", "map did", "save agent", "apply agent", "remove agent",
                         "forget agent"} : Arrives(j, at)
        BY <3>1, TenancySteps
      <4>2. at # "map did"
        <5> DEFINE new == [owner |-> Owner(profile[request[j].arg.agent], request[j].by,
                                           request[j].arg.home), by |-> j]
                   r == [request[j] EXCEPT !.at = "save agent", !.arg.new = new]
        <5>1. request[j] \in AgentAsk
          BY <3>1, Asks DEF Asked, CheckAgent
        <5>2. r.at = "save agent"
          BY <5>1 DEF AgentAsk
        <5>3. request' = [request EXCEPT ![j] = r]
          BY <3>1 DEF CheckAgent, Asked
        <5> HIDE DEF r
        <5> QED BY <4>1, <5>2, <5>3 DEF Arrives, Asked
      <4> QED BY <4>1, <4>2
    <3>2. CASE ~(CheckAgent(j) /\ ~End(j))
      BY <3>2, Arriving DEF SaveAgent, ApplyAgent, CheckRemoval, RemoveAgent, ForgetAgent
    <3> QED BY <3>1, <3>2
  <2> QED BY <2>1 DEF Arrives, Later
<1> QED BY <1>1, <1>2, <1>3, OwnQuiet

\* It is inductive.
LEMMA ConsoleStep ==
  ConsoleInv /\ [ConsoleNext]_consoleVars => ConsoleInv'
<1> SUFFICES ASSUME ConsoleInv, [ConsoleNext]_consoleVars PROVE ConsoleInv'
  OBVIOUS
<1>0. ConsoleTypeOK /\ Asked /\ AdminKept /\ OwnKept /\ SavedKept
  BY DEF ConsoleInv
<1>1. ConsoleTypeOK' /\ Asked'
  BY <1>0, ConsoleStepTyped
<1>2. CASE UNCHANGED consoleVars
  <2>1. UNCHANGED <<account, loose, request, did, ring, moved, profile, stored, crossed>>
    BY <1>2 DEF consoleVars, people, tenancy
  <2> QED BY <1>0, <1>1, <2>1, AdminQuiet, OwnQuiet, SavedQuiet, Unmoved DEF ConsoleInv
<1>3. CASE \E u \in Users : (SignIn(u) \/ SignInEnds(u) \/ SessionEnds(u)) /\ UNCHANGED tenancy
  <2>1. UNCHANGED <<account, loose, request, did, ring, moved, profile, stored, crossed>>
    BY <1>3 DEF SignIn, SignInEnds, SessionEnds, tenancy
  <2> QED BY <1>0, <1>1, <2>1, AdminQuiet, OwnQuiet, SavedQuiet, Unmoved DEF ConsoleInv
<1>4. ASSUME NEW j \in Jobs,
             \/ \E by \in Users \cup {Machine} : AskSome(j, by)
             \/ CreateOrganisation(j) \/ PatchOrganisation(j)
      PROVE  ConsoleInv'
  BY <1>0, <1>1, <1>4, OtherSteps DEF ConsoleInv
<1>5. ASSUME NEW j \in Jobs, UNCHANGED tenancy,
             CreateUser(j) \/ ReadUser(j) \/ SetRole(j) \/ CheckLast(j) \/ SetActive(j)
      PROVE  ConsoleInv'
  BY <1>0, <1>1, <1>5, AccountSteps, CreateUserAdmin, ReadUserAdmin, SetRoleAdmin,
     CheckLastAdmin, SetActiveAdmin DEF ConsoleInv
<1>6. ASSUME NEW j \in Jobs, CheckNumber(j) \/ MapNumber(j) \/ FreeNumber(j)
      PROVE  ConsoleInv'
  BY <1>0, <1>1, <1>6, TenancySteps, NumberSteps, CheckNumberOwn, MapsOwn DEF ConsoleInv
<1>7. ASSUME NEW j \in Jobs,
             \/ CheckAgent(j) \/ SaveAgent(j) \/ ApplyAgent(j)
             \/ CheckRemoval(j) \/ RemoveAgent(j) \/ ForgetAgent(j)
      PROVE  ConsoleInv'
  BY <1>0, <1>1, <1>7, TenancySteps, AgentSteps, ChecksSaved, StoresSaved, AppliesSaved
     DEF ConsoleInv
<1>8. ASSUME NEW c \in Callers, Resolve(c) \/ Answer(c)
      PROVE  ConsoleInv'
  <2>1. UNCHANGED <<account, loose, request, profile, stored, crossed>>
    BY <1>8 DEF Resolve, Answer, people
  <2> QED BY <1>0, <1>1, <1>8, <2>1, CallsOwn, AdminQuiet, SavedQuiet DEF ConsoleInv
<1>9. CASE Restart
  <2>1. UNCHANGED <<account, loose>> /\ \A k \in Jobs : request'[k].at \in {"idle", "done"}
    BY <1>9 DEF Restart, Idle, Done
  <2>2. AdminKept'
    BY <1>0, <2>1, AdminQuiet
  <2> QED BY <1>0, <1>1, <1>9, <2>2, RestartOwn, RestartSaved DEF ConsoleInv
<1> QED
  BY <1>2, <1>3, <1>4, <1>5, <1>6, <1>7, <1>8, <1>9
     DEF ConsoleNext, AccountsNext, NumbersNext, AskSome

\* The console's requests keep the invariant, however many meet.
THEOREM ConsoleKept == ConsoleSpec => []ConsoleInv
<1> QED BY ConsoleStart, ConsoleStep, PTL DEF ConsoleSpec

\* Accounts, numbers, agents and calls keep their types.
THEOREM ConsoleTyped == ConsoleSpec => []ConsoleTypeOK
<1>1. ConsoleInv => ConsoleTypeOK
  BY DEF ConsoleInv
<1> QED BY <1>1, ConsoleKept, PTL

\* A number, and a call attributed to its organisation, is answered by its own agent or by
\* nobody's, unless the agent was given another home since.
THEOREM OwnAgentAnswersAlways == ConsoleSpec => []OwnAgentAnswers
<1>1. ConsoleInv => OwnAgentAnswers
  BY DEF ConsoleInv, OwnKept, Serves, Fits, OwnAgentAnswers
<1> QED BY <1>1, ConsoleKept, PTL

\* What the process serves is what a boot would load, for every agent nobody is changing
\* and no two requests changed at once.
THEOREM AgentsServedAsSaved == ConsoleSpec => []AgentsAsSaved
<1>1. ConsoleInv => AgentsAsSaved
  BY DEF ConsoleInv, SavedKept
<1> QED BY <1>1, ConsoleKept, PTL

\* No step leaves the console without a platform administrator, unless the role was given
\* or taken, or two suspensions crossed.
THEOREM AdminRemains == ConsoleSpec => AnAdminRemains
<1>1. ConsoleInv /\ [ConsoleNext]_consoleVars =>
        [Admins # {} /\ ~loose' => Admins' # {}]_<<account, loose>>
  <2> SUFFICES ASSUME ConsoleTypeOK, Asked, AdminKept, OwnKept, SavedKept,
                      [ConsoleNext]_consoleVars, Admins # {}, ~loose',
                      ~UNCHANGED <<account, loose>>
               PROVE  Admins' # {}
    BY DEF ConsoleInv
  <2>1. CASE \E j \in Jobs : CreateUser(j) \/ SetRole(j) \/ SetActive(j)
    BY <2>1, CreateUserAdmin, SetRoleAdmin, SetActiveAdmin
  <2>2. ~UNCHANGED consoleVars
    BY DEF consoleVars, people
  <2>3. \A u \in Users : ~SignIn(u) /\ ~SignInEnds(u) /\ ~SessionEnds(u)
    BY DEF SignIn, SignInEnds, SessionEnds
  <2>4. \A j \in Jobs :
          /\ \A by \in Users \cup {Machine} : ~AskSome(j, by)
          /\ ~CreateOrganisation(j) /\ ~PatchOrganisation(j)
    BY OtherSteps
  <2>5. \A j \in Jobs : ~ReadUser(j) /\ ~CheckLast(j)
    BY DEF ReadUser, CheckLast, people
  <2>6. \A j \in Jobs :
          /\ ~CheckNumber(j) /\ ~MapNumber(j) /\ ~FreeNumber(j)
          /\ ~CheckAgent(j) /\ ~SaveAgent(j) /\ ~ApplyAgent(j)
          /\ ~CheckRemoval(j) /\ ~RemoveAgent(j) /\ ~ForgetAgent(j)
    BY TenancySteps
  <2>7. \A c \in Callers : ~Resolve(c) /\ ~Answer(c)
    BY DEF Resolve, Answer, people
  <2>8. ~Restart
    BY DEF Restart
  <2>9. CASE AccountsNext /\ UNCHANGED tenancy
    <3>1. Machine \in Users \cup {Machine}
      OBVIOUS
    <3> QED BY <2>1, <2>3, <2>4, <2>5, <2>9, <3>1 DEF AccountsNext, AskSome
  <2>10. CASE NumbersNext
    BY <2>4, <2>6, <2>7, <2>8, <2>10 DEF NumbersNext, AskSome
  <2> QED BY <2>2, <2>9, <2>10 DEF ConsoleNext
<1> QED BY <1>1, ConsoleKept, PTL DEF ConsoleSpec, AnAdminRemains
=============================================================================
