-------------------------- MODULE CallStoreProofs --------------------------
(***************************************************************************)
(* Theorems about CallStore, for any calls, any length of queue and batch, *)
(* either kind of database, and whatever goes wrong.                       *)
(***************************************************************************)
EXTENDS CallStore, SequenceTheorems, TLAPS

\* What stands in a queue when rows join it.
LEMMA ItemsJoin ==
  ASSUME NEW S, NEW q \in Seq(S), NEW r \in Seq(S)
  PROVE  Items(q \o r) = Items(q) \cup Items(r) /\ Len(q \o r) = Len(q) + Len(r)
<1>1. q \o r \in Seq(S) /\ Len(q \o r) = Len(q) + Len(r)
      /\ \A i \in 1..(Len(q) + Len(r)) : (q \o r)[i] = IF i <= Len(q) THEN q[i] ELSE r[i - Len(q)]
  BY ConcatProperties
<1>2. Len(q) \in Nat /\ Len(r) \in Nat
  BY LenProperties
<1>3. ASSUME NEW x \in Items(q \o r) PROVE x \in Items(q) \cup Items(r)
  <2>1. PICK i \in 1..(Len(q) + Len(r)) : x = (q \o r)[i]
    BY <1>1 DEF Items
  <2>2. CASE i <= Len(q)
    BY <1>1, <1>2, <2>1, <2>2 DEF Items
  <2>3. CASE ~(i <= Len(q))
    <3>1. i - Len(q) \in 1..Len(r) /\ x = r[i - Len(q)]
      BY <1>1, <1>2, <2>1, <2>3
    <3> QED BY <3>1 DEF Items
  <2> QED BY <2>2, <2>3
<1>4. ASSUME NEW x \in Items(q) PROVE x \in Items(q \o r)
  <2>1. PICK i \in 1..Len(q) : x = q[i]
    BY DEF Items
  <2>2. i \in 1..Len(q \o r) /\ x = (q \o r)[i]
    BY <1>1, <1>2, <2>1
  <2> QED BY <2>2 DEF Items
<1>5. ASSUME NEW x \in Items(r) PROVE x \in Items(q \o r)
  <2>1. PICK i \in 1..Len(r) : x = r[i]
    BY DEF Items
  <2>2. Len(q) + i \in 1..Len(q \o r) /\ x = (q \o r)[Len(q) + i]
    BY <1>1, <1>2, <2>1
  <2> QED BY <2>2 DEF Items
<1> QED
  BY <1>1, <1>3, <1>4, <1>5

\* A queue is what is taken from its front and what stays behind.
LEMMA ItemsSplit ==
  ASSUME NEW S, NEW q \in Seq(S), NEW n \in 0..Len(q)
  PROVE  /\ SubSeq(q, 1, n) \in Seq(S) /\ SubSeq(q, n + 1, Len(q)) \in Seq(S)
         /\ Items(q) = Items(SubSeq(q, 1, n)) \cup Items(SubSeq(q, n + 1, Len(q)))
         /\ Len(q) = Len(SubSeq(q, 1, n)) + Len(SubSeq(q, n + 1, Len(q)))
<1> DEFINE a == SubSeq(q, 1, n)
           b == SubSeq(q, n + 1, Len(q))
<1>1. Len(q) \in Nat /\ n \in Nat /\ \A i \in 1..Len(q) : q[i] \in S
  BY LenProperties, ElementOfSeq
<1>2. a \in Seq(S) /\ Len(a) = n /\ b \in Seq(S) /\ Len(b) = Len(q) - n
  BY <1>1, SubSeqProperties
<1>3. q = a \o b
  <2>1. a \o b \in Seq(S) /\ Len(a \o b) = Len(q)
        /\ \A i \in 1..Len(q) : (a \o b)[i] = IF i <= n THEN a[i] ELSE b[i - n]
    <3> HIDE DEF a, b
    <3> QED BY <1>1, <1>2, ConcatProperties
  <2>2. ASSUME NEW i \in 1..Len(q) PROVE (a \o b)[i] = q[i]
    <3>1. CASE i <= n
      <4>1. a[i] = q[i]
        BY <1>1, <3>1, SubSeqProperties
      <4> QED BY <2>1, <3>1, <4>1
    <3>2. CASE ~(i <= n)
      <4>1. i - n \in 1..(Len(q) - n)
        BY <1>1, <3>2
      <4>2. b[i - n] = q[(n + 1) + (i - n) - 1]
        BY <1>1, <4>1, SubSeqProperties
      <4>3. (n + 1) + (i - n) - 1 = i
        BY <1>1
      <4> QED BY <2>1, <3>2, <4>2, <4>3
    <3> QED BY <3>1, <3>2
  <2> QED BY <2>1, <2>2, SeqEqual
<1>4. Items(q) = Items(a) \cup Items(b)
  BY <1>2, <1>3, ItemsJoin
<1>5. Len(q) = Len(a) + Len(b)
  <2> HIDE DEF a, b
  <2> QED BY <1>1, <1>2
<1> QED
  BY <1>2, <1>4, <1>5

\* An empty queue holds nothing.
LEMMA ItemsNone ==
  ASSUME NEW S, NEW q \in Seq(S), Len(q) = 0
  PROVE  Items(q) = {}
BY DEF Items

\* A queue that a row joins holds what it held and the row; two rows join one by one.
LEMMA ItemsAppend ==
  ASSUME NEW S, NEW q \in Seq(S), NEW x \in S
  PROVE  Items(Append(q, x)) = Items(q) \cup {x}
<1>1. /\ Len(q) \in Nat /\ Len(Append(q, x)) = Len(q) + 1
      /\ \A k \in 1..Len(q) : Append(q, x)[k] = q[k]
      /\ Append(q, x)[Len(q) + 1] = x
  BY AppendProperties, LenProperties
<1>2. 1..(Len(q) + 1) = 1..Len(q) \cup {Len(q) + 1}
  BY <1>1
<1> QED BY <1>1, <1>2 DEF Items

LEMMA AppendTwo ==
  ASSUME NEW S, NEW q \in Seq(S), NEW x \in S, NEW y \in S
  PROVE  q \o <<x, y>> = Append(Append(q, x), y)
<1>1. Append(q, x) \in Seq(S) /\ Append(q, x) = q \o <<x>>
  BY AppendProperties, AppendIsConcat
<1>2. Append(Append(q, x), y) = (q \o <<x>>) \o <<y>>
  BY <1>1, AppendIsConcat
<1>3. (q \o <<x>>) \o <<y>> = q \o (<<x>> \o <<y>>)
  BY ConcatAssociative
<1>4. <<x>> \o <<y>> = <<x, y>>
  <2>1. <<x>> \in Seq(S) /\ <<y>> \in Seq(S) /\ <<x, y>> \in Seq(S)
        /\ Len(<<x>>) = 1 /\ Len(<<y>>) = 1 /\ Len(<<x, y>>) = 2
    OBVIOUS
  <2> DEFINE a == <<x>>
             b == <<y>>
  <2> HIDE DEF a, b
  <2>2. a \o b \in Seq(S) /\ Len(a \o b) = 2
        /\ \A i \in 1..2 : (a \o b)[i] = IF i <= 1 THEN a[i] ELSE b[i - 1]
    BY <2>1, ConcatProperties DEF a, b
  <2>3. \A i \in 1..2 : (a \o b)[i] = <<x, y>>[i]
    BY <2>2 DEF a, b
  <2> DEFINE c == <<x, y>>
  <2>4. c \in Seq(S) /\ Len(c) = 2 /\ \A i \in 1..2 : (a \o b)[i] = c[i]
    BY <2>1, <2>3
  <2> HIDE DEF c
  <2>5. a \o b = c
    BY <2>2, <2>4, SeqEqual
  <2> QED BY <2>5 DEF a, b, c
<1> QED BY <1>2, <1>3, <1>4

-----------------------------------------------------------------------------
(* Type correctness, with the count of unfinished rows it rests on.        *)

Accounted == unfinished = Len(queue) + Len(batch)

Typed == TypeOK /\ Accounted

\* The rows of an exchange are rows.
LEMMA RowTypes ==
  ASSUME NEW c \in Calls, NEW n \in 0..Exchanges, n < Exchanges
  PROVE  /\ Row(c, 2 * n) \in TurnRow /\ Row(c, 2 * n + 1) \in TurnRow
         /\ Said(c, n + 1) = Said(c, n) \cup {Row(c, 2 * n), Row(c, 2 * n + 1)}
<1>1. Exchanges \in Nat /\ n \in Nat
  BY ExchangesAssumption
<1>2. 2 * n \in 0..(2 * Exchanges) /\ 2 * n + 1 \in 0..(2 * Exchanges)
  BY <1>1
<1>3. {j \in 0..(2 * Exchanges) : j < 2 * (n + 1)}
        = {j \in 0..(2 * Exchanges) : j < 2 * n} \cup {2 * n, 2 * n + 1}
  BY <1>1, <1>2
<1> QED
  BY <1>2, <1>3 DEF Row, TurnRow, Said

LEMMA QueueTypes ==
  ASSUME Typed
  PROVE  Len(queue) \in Nat /\ Len(batch) \in Nat
         /\ Items(queue) \subseteq TurnRow /\ Items(batch) \subseteq TurnRow
BY ElementOfSeq, LenProperties DEF Typed, TypeOK, Items

\* A call queues the rows of an exchange, or loses them.
LEMMA AppendTyped ==
  ASSUME Typed, NEW c \in Calls, AppendTurns(c)
  PROVE  /\ Typed'
         /\ Said(c, said'[c]) \subseteq Said(c, said[c]) \cup Items(queue') \cup missing'
         /\ Items(queue) \subseteq Items(queue') /\ missing \subseteq missing'
<1> DEFINE x == Row(c, 2 * said[c])
           y == Row(c, 2 * said[c] + 1)
<1>1. said[c] \in 0..Exchanges /\ said[c] < Exchanges /\ said'[c] = said[c] + 1
      /\ said' \in [Calls -> 0..Exchanges]
  BY ExchangesAssumption DEF AppendTurns, Typed, TypeOK
<1>2. x \in TurnRow /\ y \in TurnRow /\ Said(c, said'[c]) = Said(c, said[c]) \cup {x, y}
  BY <1>1, RowTypes
<1>3. queue \in Seq(TurnRow) /\ missing \subseteq TurnRow /\ unfinished \in Nat
      /\ unfinished = Len(queue) + Len(batch) /\ batch' = batch
  BY DEF AppendTurns, Typed, TypeOK, Accounted
<1>4. Len(queue) \in Nat /\ Len(batch) \in Nat
  BY QueueTypes
<1> HIDE DEF x, y
<1>5. /\ queue' \in Seq(TurnRow) /\ missing' \subseteq TurnRow /\ unfinished' \in Nat /\ Accounted'
      /\ {x, y} \subseteq Items(queue') \cup missing'
      /\ Items(queue) \subseteq Items(queue') /\ missing \subseteq missing'
  <2>1. CASE queue' = queue \o <<x, y>> /\ unfinished' = unfinished + 2 /\ missing' = missing
    <3>1. <<x, y>> \in Seq(TurnRow) /\ Len(<<x, y>>) = 2 /\ Items(<<x, y>>) = {x, y}
      BY <1>2 DEF Items
    <3> DEFINE added == <<x, y>>
    <3> HIDE DEF added
    <3>2. Items(queue \o added) = Items(queue) \cup Items(added)
          /\ Len(queue \o added) = Len(queue) + Len(added)
      BY <1>3, <3>1, ItemsJoin DEF added
    <3>3. queue \o added \in Seq(TurnRow)
      BY <1>3, <3>1, ConcatProperties DEF added
    <3>4. queue' = queue \o added /\ Len(added) = 2 /\ Items(added) = {x, y}
      BY <2>1, <3>1 DEF added
    <3>5. Items(queue') = Items(queue) \cup {x, y} /\ Len(queue') = Len(queue) + 2
      BY <3>2, <3>4
    <3>6. Accounted'
      BY <1>3, <1>4, <2>1, <3>5 DEF Accounted
    <3>7. queue' \in Seq(TurnRow) /\ missing' \subseteq TurnRow /\ unfinished' \in Nat
      BY <1>3, <2>1, <3>3, <3>4
    <3> QED BY <2>1, <3>5, <3>6, <3>7
  <2>2. CASE queue' = Append(queue, x) /\ unfinished' = unfinished + 1 /\ missing' = missing \cup {y}
    <3>1. <<x>> \in Seq(TurnRow) /\ Len(<<x>>) = 1 /\ Items(<<x>>) = {x}
      BY <1>2 DEF Items
    <3> DEFINE added == <<x>>
    <3> HIDE DEF added
    <3>2. Items(queue \o added) = Items(queue) \cup Items(added)
          /\ Len(queue \o added) = Len(queue) + Len(added)
      BY <1>3, <3>1, ItemsJoin DEF added
    <3>3. queue' \in Seq(TurnRow)
      BY <1>2, <1>3, <2>2, AppendProperties
    <3>4. queue' = queue \o added /\ Len(added) = 1 /\ Items(added) = {x}
      BY <1>2, <1>3, <2>2, <3>1, AppendIsConcat DEF added
    <3>5. Items(queue') = Items(queue) \cup {x} /\ Len(queue') = Len(queue) + 1
      BY <3>2, <3>4
    <3>6. Accounted'
      BY <1>3, <1>4, <2>2, <3>5 DEF Accounted
    <3> QED BY <1>2, <1>3, <2>2, <3>3, <3>5, <3>6
  <2>3. CASE queue' = queue /\ unfinished' = unfinished /\ missing' = missing \cup {x, y}
    BY <1>2, <1>3, <2>3 DEF Accounted
  <2> QED BY <2>1, <2>2, <2>3 DEF AppendTurns, x, y
<1> QED
  BY <1>1, <1>2, <1>3, <1>5 DEF AppendTurns, Typed, TypeOK

\* The writer moves rows from the queue to its batch.
LEMMA TakesTyped ==
  ASSUME Typed, WriterTakes
  PROVE  /\ Typed'
         /\ Items(queue') \cup Items(batch') = Items(queue) \cup Items(batch)
<1> DEFINE n == Least(Len(queue), BatchMax)
<1>1. queue \in Seq(TurnRow) /\ Len(queue) \in Nat /\ batch = <<>>
  BY QueueTypes DEF WriterTakes, Typed, TypeOK
<1>2. n \in 0..Len(queue)
  BY <1>1, BoundsAssumption DEF Least
<1>3. batch' = SubSeq(queue, 1, n) /\ queue' = SubSeq(queue, n + 1, Len(queue))
  BY DEF WriterTakes
<1> HIDE DEF n
<1>4. /\ batch' \in Seq(TurnRow) /\ queue' \in Seq(TurnRow)
      /\ Items(queue) = Items(batch') \cup Items(queue')
      /\ Len(queue) = Len(batch') + Len(queue')
  BY <1>1, <1>2, <1>3, ItemsSplit
<1>5. Items(batch) = {} /\ Len(batch) = 0
  BY <1>1 DEF Items
<1>6. Accounted'
  <2>1. Len(batch') \in Nat /\ Len(queue') \in Nat
    BY <1>4, LenProperties
  <2>2. unfinished = Len(queue) /\ unfinished' = unfinished
    BY <1>1, <1>5 DEF Typed, Accounted, WriterTakes
  <2> QED BY <1>4, <2>1, <2>2 DEF Accounted
<1> QED
  BY <1>4, <1>5, <1>6 DEF Typed, TypeOK, WriterTakes

LEMMA DoneTyped ==
  ASSUME Typed, BatchDone, queue' = queue
  PROVE  /\ Accounted' /\ batch' = <<>> /\ unfinished' \in Nat /\ stage' \in [Calls -> Stage]
         /\ process' \in Process
<1>1. Len(queue) \in Nat /\ Len(batch) \in Nat /\ unfinished = Len(queue) + Len(batch)
  BY QueueTypes DEF Typed, Accounted
<1>2. batch' = <<>> /\ unfinished' = unfinished - Len(batch) /\ Len(batch') = 0
  BY DEF BatchDone
<1>3. unfinished' = Len(queue)
  BY <1>1, <1>2
<1> QED
  BY <1>1, <1>2, <1>3 DEF BatchDone, Typed, TypeOK, Accounted, Stage, Process

LEMMA NextTyped == Typed /\ [Next]_vars => Typed'
<1> SUFFICES ASSUME Typed, [Next]_vars
             PROVE  Typed'
  OBVIOUS
<1>1. ASSUME NEW c \in Calls, CallStep(c) PROVE Typed'
  <2>1. CASE AppendTurns(c)
    BY <2>1, AppendTyped
  <2>2. CASE CallConnects(c)
    BY <2>2 DEF CallConnects, Typed, TypeOK, Accounted, Stage
  <2>3. CASE CreateCall(c)
    BY <2>3 DEF CreateCall, Typed, TypeOK, Accounted, Stage
  <2>4. CASE FinishCall(c)
    BY <2>4 DEF FinishCall, Typed, TypeOK, Accounted, Stage
  <2>5. CASE CompleteRow(c)
    BY <2>5 DEF CompleteRow, Typed, TypeOK, Accounted, Stage
  <2>6. CASE CutShort(c)
    BY <2>6 DEF CutShort, Typed, TypeOK, Accounted, Stage
  <2>7. CASE GrowsOld(c)
    BY <2>7 DEF GrowsOld, Typed, TypeOK, Accounted
  <2> QED BY <1>1, <2>1, <2>2, <2>3, <2>4, <2>5, <2>6, <2>7 DEF CallStep
<1>2. CASE WriterTakes
  BY <1>2, TakesTyped
<1>3. CASE WriterCommits
  <2>1. BatchDone /\ queue' = queue
    BY <1>3 DEF WriterCommits
  <2>2. Accounted' /\ batch' \in Seq(TurnRow) /\ unfinished' \in Nat /\ stage' \in [Calls -> Stage]
        /\ process' \in Process
    BY <2>1, DoneTyped
  <2> QED BY <1>3, <2>2, QueueTypes DEF WriterCommits, Typed, TypeOK
<1>4. CASE WriterFails
  <2>1. BatchDone /\ queue' = queue
    BY <1>4 DEF WriterFails
  <2>2. Accounted' /\ batch' \in Seq(TurnRow) /\ unfinished' \in Nat /\ stage' \in [Calls -> Stage]
        /\ process' \in Process
    BY <2>1, DoneTyped
  <2> QED BY <1>4, <2>2, QueueTypes DEF WriterFails, Typed, TypeOK
<1>5. CASE Purge
  BY <1>5 DEF Purge, Typed, TypeOK, Accounted
<1>6. CASE Close
  BY <1>6 DEF Close, Typed, TypeOK, Accounted, Process
<1>7. CASE WriterStops \/ Crash
  <2>1. Gone
    BY <1>7 DEF WriterStops, Crash
  <2> QED BY <2>1 DEF Gone, Typed, TypeOK, Accounted, Process, Stage
<1>8. CASE Restart
  BY <1>8 DEF Restart, Typed, TypeOK, Accounted, Process
<1>9. CASE UNCHANGED vars
  BY <1>9 DEF vars, Typed, TypeOK, Accounted
<1> QED
  BY <1>1, <1>2, <1>3, <1>4, <1>5, <1>6, <1>7, <1>8, <1>9 DEF Next, WriterStep

\* The store keeps its types; in particular the count that flush() waits on is
\* never negative, whatever the writer's transactions do.
THEOREM StoreTyped == Spec => []TypeOK
<1>1. Init => Typed
  BY ExchangesAssumption DEF Init, Typed, TypeOK, Accounted, Stage, Process
<1>2. Typed /\ [Next]_vars => Typed'
  BY NextTyped
<1>3. Typed => TypeOK
  BY DEF Typed
<1> QED
  BY <1>1, <1>2, <1>3, PTL DEF Spec

-----------------------------------------------------------------------------
(* A completed call has its conversation.                                  *)

\* A call that has not begun has said nothing.
Silent == \A c \in Calls : stage[c] \in {"idle", "creating"} => said[c] = 0

\* What a call said is written, lost, or still on its way.
Kept == \A c \in Calls : stage[c] \in {"live", "flushing"} =>
  Said(c, said[c]) \subseteq turns \cup missing \cup Items(queue) \cup Items(batch)

\* A call whose flush has returned waits for nothing any more.
Settled == \A c \in Calls : stage[c] = "flushed" => Said(c, said[c]) \subseteq turns \cup missing

\* Only a call that is over has its row completed or is swept.
Finished == \A c \in Calls : rows[c] = "complete" \/ c \in old => stage[c] \in Over

StoreInv == Typed /\ Silent /\ Kept /\ Settled /\ Finished /\ CompleteHasTurns

LEMMA SaidNothing == ASSUME NEW c \in Calls PROVE Said(c, 0) = {}
BY ExchangesAssumption DEF Said

\* A flush that finds nothing unfinished finds nothing on its way.
LEMMA NothingUnfinished ==
  ASSUME Typed, unfinished = Len(batch)
  PROVE  Items(queue) = {}
<1>1. Len(queue) = 0
  BY QueueTypes DEF Typed, Accounted
<1> QED
  BY <1>1 DEF Items

\* The writer's batch is done with, written or lost.
LEMMA DoneKeeps ==
  ASSUME StoreInv, BatchDone,
         turns \cup missing \cup Items(batch) \subseteq turns' \cup missing',
         UNCHANGED <<said, queue, rows, old>>
  PROVE  (Silent /\ Kept /\ Settled /\ Finished /\ CompleteHasTurns)'
<1>1. \A c \in Calls : \/ stage'[c] = stage[c]
                       \/ stage[c] = "flushing" /\ stage'[c] = "flushed" /\ unfinished = Len(batch)
  BY DEF BatchDone, StoreInv, Typed, TypeOK
<1>2. \A c \in Calls : stage'[c] = "flushed" => Said(c, said[c]) \subseteq turns' \cup missing'
  <2> SUFFICES ASSUME NEW c \in Calls, stage'[c] = "flushed"
               PROVE  Said(c, said[c]) \subseteq turns' \cup missing'
    OBVIOUS
  <2>1. CASE stage[c] = "flushed"
    BY <2>1 DEF StoreInv, Settled
  <2>2. CASE stage[c] = "flushing" /\ unfinished = Len(batch)
    <3>1. Items(queue) = {}
      BY <2>2, NothingUnfinished DEF StoreInv
    <3> QED BY <2>2, <3>1 DEF StoreInv, Kept
  <2> QED BY <1>1, <2>1, <2>2
<1>3. Silent'
  BY <1>1 DEF StoreInv, Silent
<1>4. Kept'
  BY <1>1 DEF StoreInv, Kept
<1>5. Settled'
  BY <1>2 DEF Settled
<1>6. Finished'
  BY <1>1 DEF StoreInv, Finished, Over
<1>7. CompleteHasTurns'
  BY DEF StoreInv, CompleteHasTurns
<1> QED
  BY <1>3, <1>4, <1>5, <1>6, <1>7

\* A call's own steps keep what it said, and that of the others.
LEMMA CallKeeps ==
  ASSUME StoreInv, NEW d \in Calls, CallStep(d)
  PROVE  (Silent /\ Kept /\ Settled /\ Finished /\ CompleteHasTurns)'
<1> USE DEF Over
<1>1. stage \in [Calls -> Stage] /\ said \in [Calls -> 0..Exchanges]
      /\ rows \in [Calls -> {"none", "open", "complete"}]
  BY DEF StoreInv, Typed, TypeOK
<1>2. CASE AppendTurns(d)
  <2>1. /\ Said(d, said'[d]) \subseteq Said(d, said[d]) \cup Items(queue') \cup missing'
        /\ Items(queue) \subseteq Items(queue') /\ missing \subseteq missing'
    BY <1>2, AppendTyped DEF StoreInv
  <2>2. /\ stage[d] = "live" /\ UNCHANGED <<stage, batch, rows, turns, old>>
        /\ \A c \in Calls \ {d} : said'[c] = said[c]
    BY <1>1, <1>2 DEF AppendTurns
  <2>3. Silent' /\ Finished'
    BY <2>2 DEF StoreInv, Silent, Finished
  <2>4. Kept'
    BY <2>1, <2>2 DEF StoreInv, Kept
  <2>5. Settled'
    BY <2>1, <2>2 DEF StoreInv, Settled
  <2>6. rows[d] # "complete"
    BY <2>2 DEF StoreInv, Finished
  <2>7. CompleteHasTurns'
    BY <2>1, <2>2, <2>6 DEF StoreInv, CompleteHasTurns
  <2> QED BY <2>3, <2>4, <2>5, <2>7
<1>3. CASE CallConnects(d) \/ CreateCall(d)
  <2>1. /\ stage[d] \in {"idle", "creating"} /\ stage'[d] \in {"creating", "live"}
        /\ rows'[d] # "complete" \/ rows'[d] = rows[d]
        /\ \A c \in Calls \ {d} : stage'[c] = stage[c] /\ rows'[c] = rows[c]
        /\ UNCHANGED <<said, queue, batch, turns, missing, old>>
    BY <1>1, <1>3 DEF CallConnects, CreateCall
  <2>2. said[d] = 0 /\ Said(d, said[d]) = {}
    BY <2>1, SaidNothing DEF StoreInv, Silent
  <2>3. rows[d] # "complete" /\ d \notin old
    BY <2>1 DEF StoreInv, Finished
  <2>4. Silent' /\ Finished'
    BY <2>1, <2>2, <2>3 DEF StoreInv, Silent, Finished
  <2>5. Kept'
    BY <2>1, <2>2 DEF StoreInv, Kept
  <2>6. Settled' /\ CompleteHasTurns'
    BY <2>1, <2>3 DEF StoreInv, Settled, CompleteHasTurns
  <2> QED BY <2>4, <2>5, <2>6
<1>4. CASE FinishCall(d)
  <2>1. /\ stage[d] = "live" /\ stage'[d] = IF unfinished = 0 THEN "flushed" ELSE "flushing"
        /\ \A c \in Calls \ {d} : stage'[c] = stage[c]
        /\ UNCHANGED <<said, queue, batch, rows, turns, missing, old>>
    BY <1>1, <1>4 DEF FinishCall
  <2>2. unfinished = 0 => Items(queue) = {} /\ Items(batch) = {}
    <3>1. unfinished = 0 => Len(queue) = 0 /\ Len(batch) = 0
      BY QueueTypes DEF StoreInv, Typed, Accounted
    <3> QED BY <3>1 DEF Items
  <2>3. rows[d] # "complete" /\ d \notin old
    BY <2>1 DEF StoreInv, Finished
  <2>4. Silent' /\ Finished' /\ CompleteHasTurns'
    BY <2>1, <2>3 DEF StoreInv, Silent, Finished, CompleteHasTurns
  <2>5. Kept'
    BY <2>1 DEF StoreInv, Kept
  <2>6. Settled'
    BY <2>1, <2>2 DEF StoreInv, Settled, Kept
  <2> QED BY <2>4, <2>5, <2>6
<1>5. CASE CompleteRow(d)
  <2>1. /\ stage[d] = "flushed" /\ stage'[d] \in Over
        /\ \A c \in Calls \ {d} : stage'[c] = stage[c] /\ rows'[c] = rows[c]
        /\ UNCHANGED <<said, queue, batch, turns, missing, old>>
    BY <1>1, <1>5 DEF CompleteRow
  <2>2. Silent' /\ Finished'
    BY <2>1 DEF StoreInv, Silent, Finished
  <2>3. Kept' /\ Settled'
    BY <2>1 DEF StoreInv, Kept, Settled
  <2>4. CompleteHasTurns'
    BY <2>1 DEF StoreInv, Settled, CompleteHasTurns
  <2> QED BY <2>2, <2>3, <2>4
<1>6. CASE CutShort(d)
  <2>1. /\ stage[d] \notin Over /\ stage'[d] = "lost"
        /\ \A c \in Calls \ {d} : stage'[c] = stage[c]
        /\ UNCHANGED <<said, queue, batch, rows, turns, missing, old>>
    BY <1>1, <1>6 DEF CutShort
  <2>2. Silent' /\ Finished' /\ CompleteHasTurns'
    BY <2>1 DEF StoreInv, Silent, Finished, CompleteHasTurns
  <2>3. Kept' /\ Settled'
    BY <2>1 DEF StoreInv, Kept, Settled
  <2> QED BY <2>2, <2>3
<1>7. CASE GrowsOld(d)
  <2>1. stage[d] \in Over /\ old' = old \cup {d}
        /\ UNCHANGED <<stage, said, queue, batch, rows, turns, missing>>
    BY <1>7 DEF GrowsOld
  <2> QED BY <2>1 DEF StoreInv, Silent, Kept, Settled, Finished, CompleteHasTurns
<1> QED
  BY <1>2, <1>3, <1>4, <1>5, <1>6, <1>7 DEF CallStep

LEMMA StoreInvNext == StoreInv /\ [Next]_vars => StoreInv'
<1> SUFFICES ASSUME StoreInv, [Next]_vars
             PROVE  StoreInv'
  OBVIOUS
<1>1. Typed'
  BY NextTyped DEF StoreInv
<1> SUFFICES (Silent /\ Kept /\ Settled /\ Finished /\ CompleteHasTurns)'
  BY <1>1 DEF StoreInv
<1>2. ASSUME NEW c \in Calls, CallStep(c)
      PROVE  (Silent /\ Kept /\ Settled /\ Finished /\ CompleteHasTurns)'
  BY <1>2, CallKeeps
<1>3. CASE WriterTakes
  <2>1. Items(queue') \cup Items(batch') = Items(queue) \cup Items(batch)
    BY <1>3, TakesTyped DEF StoreInv
  <2>2. UNCHANGED <<stage, said, rows, turns, missing, old>>
    BY <1>3 DEF WriterTakes
  <2>3. Kept'
    BY <2>1, <2>2 DEF StoreInv, Kept
  <2> QED BY <2>2, <2>3 DEF StoreInv, Silent, Settled, Finished, CompleteHasTurns
<1>4. CASE WriterCommits \/ WriterFails
  <2>1. /\ BatchDone /\ UNCHANGED <<said, queue, rows, old>>
        /\ turns \cup missing \cup Items(batch) \subseteq turns' \cup missing'
    BY <1>4 DEF WriterCommits, WriterFails
  <2> QED BY <2>1, DoneKeeps
<1>5. CASE Purge
  <2>1. /\ \A c \in Calls : c \notin Stale => Said(c, said[c]) \cap turns \subseteq turns'
        /\ \A c \in Calls : rows'[c] = IF c \in Stale THEN "none" ELSE rows[c]
        /\ UNCHANGED <<stage, said, queue, batch, missing, old>>
    BY <1>5 DEF Purge, Said, Row
  <2>2. \A c \in Calls : c \in Stale => stage[c] \in Over
    BY DEF StoreInv, Finished, Stale
  <2>3. Silent' /\ Finished'
    BY <2>1 DEF StoreInv, Silent, Finished
  <2>4. Kept'
    BY <2>1, <2>2 DEF StoreInv, Kept, Over
  <2>5. Settled'
    BY <2>1, <2>2 DEF StoreInv, Settled, Over
  <2>6. CompleteHasTurns'
    BY <2>1 DEF StoreInv, CompleteHasTurns
  <2> QED BY <2>3, <2>4, <2>5, <2>6
<1>6. CASE WriterStops \/ Crash
  <2>1. Gone
    BY <1>6 DEF WriterStops, Crash
  <2>2. /\ UNCHANGED <<said, rows, turns, missing, old>>
        /\ \A c \in Calls : stage'[c] = IF stage[c] \in {"idle"} \cup Over THEN stage[c] ELSE "lost"
    BY <2>1 DEF Gone
  <2>3. Silent' /\ Kept' /\ Settled'
    BY <2>2 DEF StoreInv, Silent, Kept, Settled, Over
  <2> QED BY <2>2, <2>3 DEF StoreInv, Finished, CompleteHasTurns, Over
<1>7. CASE Close \/ Restart \/ UNCHANGED vars
  <2>1. UNCHANGED <<stage, said, queue, batch, rows, turns, missing, old>>
    BY <1>7 DEF Close, Restart, vars
  <2> QED BY <2>1 DEF StoreInv, Silent, Kept, Settled, Finished, CompleteHasTurns
<1> QED
  BY <1>2, <1>3, <1>4, <1>5, <1>6, <1>7 DEF Next, WriterStep

\* A completed call has its conversation, however many calls share the queue,
\* however small it is, and whatever fails: flush() waits for the count of the
\* rows on their way, and that count is exact.
THEOREM CompleteCallsHaveTurns == Spec => []CompleteHasTurns
<1>1. Init => StoreInv
  <2>1. Init => Typed
    BY ExchangesAssumption DEF Init, Typed, TypeOK, Accounted, Stage, Process
  <2>2. Init => Silent /\ Kept /\ Settled /\ Finished /\ CompleteHasTurns
    BY DEF Init, Silent, Kept, Settled, Finished, CompleteHasTurns
  <2> QED BY <2>1, <2>2 DEF StoreInv
<1>2. StoreInv /\ [Next]_vars => StoreInv'
  BY StoreInvNext
<1>3. StoreInv => CompleteHasTurns
  BY DEF StoreInv
<1> QED
  BY <1>1, <1>2, <1>3, PTL DEF Spec

-----------------------------------------------------------------------------
(* What is stored of a conversation has no holes.                          *)

\* The rows that stand before place p.
Ahead(q, p) == {q[k] : k \in 1..(p - 1)}

\* Every row in q has its predecessors in the conversation before it or in base.
InTurn(q, base) ==
  \A p \in 1..Len(q), c \in Calls, i, j \in 0..(2 * Exchanges) :
    q[p] = Row(c, j) /\ i < j => Row(c, i) \in Ahead(q, p) \cup base

\* Nothing of a call past retention is on its way.
OldIsWritten == \A c \in old : \A r \in Items(queue) \cup Items(batch) : r[1] # c

OrderInv ==
  /\ InTurn(batch, turns \cup missing)
  /\ InTurn(queue, turns \cup missing \cup Items(batch))
  /\ OldIsWritten
  /\ StoredInOrder

LEMMA AheadIsIn ==
  ASSUME NEW S, NEW q \in Seq(S), NEW p \in 1..Len(q)
  PROVE  Ahead(q, p) \subseteq Items(q)
<1>1. Len(q) \in Nat
  BY LenProperties
<1> QED BY <1>1 DEF Ahead, Items

\* Two rows are the same only when call and place are.
LEMMA RowsDiffer ==
  ASSUME NEW c, NEW d, NEW i, NEW j, Row(c, i) = Row(d, j)
  PROVE  c = d /\ i = j
BY DEF Row

\* A row joins a queue in its turn when what comes before it is known.
LEMMA JoinsInTurn ==
  ASSUME NEW q \in Seq(TurnRow), NEW base, InTurn(q, base), NEW d \in Calls, NEW m \in 0..(2 * Exchanges),
         \A i \in 0..(2 * Exchanges) : i < m => Row(d, i) \in Items(q) \cup base
  PROVE  InTurn(Append(q, Row(d, m)), base)
<1> DEFINE r == Append(q, Row(d, m))
<1>1. /\ Len(q) \in Nat /\ Len(r) = Len(q) + 1
      /\ \A k \in 1..Len(q) : r[k] = q[k]
      /\ r[Len(q) + 1] = Row(d, m)
  <2>1. Row(d, m) \in TurnRow
    BY DEF Row, TurnRow
  <2> QED BY <2>1, AppendProperties, LenProperties
<1> HIDE DEF r
<1>2. SUFFICES ASSUME NEW p \in 1..(Len(q) + 1), NEW c \in Calls,
                      NEW i \in 0..(2 * Exchanges), NEW j \in 0..(2 * Exchanges),
                      r[p] = Row(c, j), i < j
               PROVE  Row(c, i) \in Ahead(r, p) \cup base
  BY <1>1 DEF InTurn, r
<1>3. CASE p \in 1..Len(q)
  <2>1. q[p] = Row(c, j)
    BY <1>1, <1>2, <1>3
  <2>2. Ahead(r, p) = Ahead(q, p)
    BY <1>1, <1>3 DEF Ahead
  <2> QED BY <1>2, <1>3, <2>1, <2>2 DEF InTurn
<1>4. CASE p = Len(q) + 1
  <2>1. c = d /\ j = m
    BY <1>1, <1>2, <1>4, RowsDiffer
  <2>2. Ahead(r, p) = Items(q)
    BY <1>1, <1>4 DEF Ahead, Items
  <2> QED BY <1>2, <2>1, <2>2
<1> QED BY <1>1, <1>3, <1>4

\* What is known may grow.
LEMMA InTurnGrows ==
  ASSUME NEW q, NEW base, NEW more, InTurn(q, base), base \subseteq more
  PROVE  InTurn(q, more)
BY DEF InTurn

\* Both parts of a queue that is split are in their turn.
LEMMA SplitInTurn ==
  ASSUME NEW q \in Seq(TurnRow), NEW base, InTurn(q, base), NEW n \in 0..Len(q)
  PROVE  /\ InTurn(SubSeq(q, 1, n), base)
         /\ InTurn(SubSeq(q, n + 1, Len(q)), base \cup Items(SubSeq(q, 1, n)))
<1> DEFINE a == SubSeq(q, 1, n)
           b == SubSeq(q, n + 1, Len(q))
<1>1. Len(q) \in Nat /\ n \in Nat /\ \A i \in 1..Len(q) : q[i] \in TurnRow
  BY LenProperties, ElementOfSeq
<1>2. /\ Len(a) = n /\ Len(b) = Len(q) - n
      /\ \A k \in 1..n : a[k] = q[k]
      /\ \A k \in 1..(Len(q) - n) : b[k] = q[n + k]
  <2>1. Len(a) = n /\ \A k \in 1..n : a[k] = q[1 + k - 1]
    BY <1>1, SubSeqProperties
  <2>2. Len(b) = Len(q) - n /\ \A k \in 1..(Len(q) - n) : b[k] = q[(n + 1) + k - 1]
    BY <1>1, SubSeqProperties
  <2>3. \A k \in Nat : 1 + k - 1 = k /\ (n + 1) + k - 1 = n + k
    BY <1>1
  <2> HIDE DEF a, b
  <2> QED BY <1>1, <2>1, <2>2, <2>3
<1> HIDE DEF a, b
<1>3. InTurn(a, base)
  <2> SUFFICES ASSUME NEW p \in 1..n, NEW c \in Calls,
                      NEW i \in 0..(2 * Exchanges), NEW j \in 0..(2 * Exchanges),
                      a[p] = Row(c, j), i < j
               PROVE  Row(c, i) \in Ahead(a, p) \cup base
    BY <1>2 DEF InTurn
  <2>1. p \in 1..Len(q) /\ q[p] = Row(c, j)
    BY <1>1, <1>2
  <2>2. Ahead(a, p) = Ahead(q, p)
    BY <1>1, <1>2 DEF Ahead
  <2> QED BY <2>1, <2>2 DEF InTurn
<1>4. InTurn(b, base \cup Items(a))
  <2> SUFFICES ASSUME NEW p \in 1..(Len(q) - n), NEW c \in Calls,
                      NEW i \in 0..(2 * Exchanges), NEW j \in 0..(2 * Exchanges),
                      b[p] = Row(c, j), i < j
               PROVE  Row(c, i) \in Ahead(b, p) \cup (base \cup Items(a))
    BY <1>2 DEF InTurn
  <2>1. n + p \in 1..Len(q) /\ q[n + p] = Row(c, j)
    <3>1. b[p] = q[n + p]
      BY <1>2
    <3>2. n + p \in 1..Len(q)
      BY <1>1
    <3> QED BY <3>1, <3>2
  <2>2. ASSUME NEW k \in 1..(n + p - 1) PROVE q[k] \in Ahead(b, p) \cup Items(a)
    <3>1. CASE k <= n
      BY <1>1, <1>2, <3>1 DEF Items
    <3>2. CASE k > n
      <4>1. k - n \in 1..(p - 1) /\ k - n \in 1..(Len(q) - n) /\ n + (k - n) = k
        BY <1>1, <3>2
      <4>2. b[k - n] = q[k]
        BY <1>2, <4>1
      <4> QED BY <4>1, <4>2 DEF Ahead
    <3> QED BY <1>1, <3>1, <3>2
  <2>3. Row(c, i) \in Ahead(q, n + p) \cup base
    BY <2>1 DEF InTurn
  <2> QED BY <2>2, <2>3 DEF Ahead
<1> QED BY <1>3, <1>4 DEF a, b

\* A call queues its rows behind all it said before.
LEMMA AppendInOrder ==
  ASSUME StoreInv, OrderInv, NEW d \in Calls, AppendTurns(d)
  PROVE  OrderInv'
<1> DEFINE m == 2 * said[d]
           base == turns \cup missing \cup Items(batch)
           with == turns \cup missing' \cup Items(batch)
<1>1. /\ m \in 0..(2 * Exchanges) /\ m + 1 \in 0..(2 * Exchanges)
      /\ stage[d] = "live" /\ UNCHANGED <<stage, batch, rows, turns, old>>
      /\ queue \in Seq(TurnRow) /\ batch \in Seq(TurnRow)
  BY ExchangesAssumption DEF AppendTurns, StoreInv, Typed, TypeOK
<1>2. Row(d, m) \in TurnRow /\ Row(d, m + 1) \in TurnRow
  BY <1>1 DEF Row, TurnRow
<1>3. \A i \in 0..(2 * Exchanges) : i < m => Row(d, i) \in Items(queue) \cup base
  BY <1>1 DEF StoreInv, Kept, Said
<1>4. d \notin old
  BY <1>1 DEF StoreInv, Finished, Over
<1>5. \/ /\ queue' = queue \o <<Row(d, m), Row(d, m + 1)>> /\ missing' = missing
      \/ /\ queue' = Append(queue, Row(d, m)) /\ missing' = missing \cup {Row(d, m + 1)}
      \/ /\ queue' = queue /\ missing' = missing \cup {Row(d, m), Row(d, m + 1)}
  BY DEF AppendTurns
<1> DEFINE one == Append(queue, Row(d, m))
           two == Append(one, Row(d, m + 1))
<1>6. /\ one \in Seq(TurnRow) /\ Items(one) = Items(queue) \cup {Row(d, m)}
      /\ InTurn(one, base)
  <2>1. one \in Seq(TurnRow)
    BY <1>1, <1>2, AppendProperties
  <2>2. Items(one) = Items(queue) \cup {Row(d, m)}
    BY <1>1, <1>2, ItemsAppend
  <2>3. InTurn(queue, base)
    BY DEF OrderInv
  <2> HIDE DEF base, m
  <2>4. InTurn(one, base)
    BY <1>1, <1>3, <2>3, JoinsInTurn
  <2> QED BY <2>1, <2>2, <2>4
<1>7. /\ Items(two) = Items(one) \cup {Row(d, m + 1)}
      /\ InTurn(two, base)
  <2>1. \A i \in 0..(2 * Exchanges) : i < m + 1 => Row(d, i) \in Items(one) \cup base
    <3> HIDE DEF one, base
    <3>1. \A i \in 0..(2 * Exchanges) : i < m + 1 => i < m \/ i = m
      BY <1>1
    <3> QED BY <1>3, <1>6, <3>1
  <2> HIDE DEF one, base
  <2>2. Items(two) = Items(one) \cup {Row(d, m + 1)}
    BY <1>2, <1>6, ItemsAppend
  <2> DEFINE k == m + 1
  <2>3. k \in 0..(2 * Exchanges) /\ \A i \in 0..(2 * Exchanges) : i < k => Row(d, i) \in Items(one) \cup base
    BY <1>1, <2>1
  <2>4. two = Append(one, Row(d, k))
    OBVIOUS
  <2> HIDE DEF k, two
  <2>5. InTurn(two, base)
    BY <1>6, <2>3, <2>4, JoinsInTurn
  <2> QED BY <2>2, <2>5
<1>8. queue \o <<Row(d, m), Row(d, m + 1)>> = two
  <2> HIDE DEF m
  <2> QED BY <1>1, <1>2, AppendTwo
<1>9. \/ queue' = two \/ queue' = one \/ queue' = queue
  BY <1>5, <1>8
<1>10. missing \subseteq missing' /\ base \subseteq with
  BY <1>5
<1>11. InTurn(queue', with)
  <2>1. InTurn(queue', base)
    <3> HIDE DEF one, two, base
    <3>1. InTurn(queue, base)
      BY DEF OrderInv, base
    <3> QED BY <1>6, <1>7, <1>9, <3>1
  <2> HIDE DEF base, with
  <2> QED BY <1>10, <2>1, InTurnGrows
<1>12. InTurn(batch', turns' \cup missing')
  <2>1. batch' = batch /\ turns \cup missing \subseteq turns' \cup missing'
    BY <1>1, <1>10
  <2>2. InTurn(batch, turns \cup missing)
    BY DEF OrderInv
  <2> QED BY <2>1, <2>2, InTurnGrows
<1>13. OldIsWritten'
  <2>1. Items(queue') \subseteq Items(queue) \cup {Row(d, m), Row(d, m + 1)}
    <3> HIDE DEF one, two
    <3> QED BY <1>6, <1>7, <1>9
  <2>2. Row(d, m)[1] = d /\ Row(d, m + 1)[1] = d
    BY DEF Row
  <2> QED BY <1>1, <1>4, <2>1, <2>2 DEF OrderInv, OldIsWritten
<1>14. StoredInOrder'
  BY <1>1, <1>10 DEF OrderInv, StoredInOrder
<1> QED BY <1>1, <1>11, <1>12, <1>13, <1>14 DEF OrderInv

LEMMA OrderNext == StoreInv /\ OrderInv /\ [Next]_vars => OrderInv'
<1> SUFFICES ASSUME StoreInv, OrderInv, [Next]_vars
             PROVE  OrderInv'
  OBVIOUS
<1>1. queue \in Seq(TurnRow) /\ batch \in Seq(TurnRow)
  BY DEF StoreInv, Typed, TypeOK
<1>2. ASSUME UNCHANGED <<queue, batch, turns, missing, old>> PROVE OrderInv'
  BY <1>2 DEF OrderInv, InTurn, Ahead, OldIsWritten, StoredInOrder, Items
<1>3. ASSUME NEW c \in Calls, CallStep(c) PROVE OrderInv'
  <2>1. CASE AppendTurns(c)
    BY <2>1, AppendInOrder
  <2>2. CASE GrowsOld(c)
    <3>1. /\ UNCHANGED <<queue, batch, turns, missing>> /\ old' = old \cup {c}
          /\ \A r \in Items(queue) \cup Items(batch) : r[1] # c
      BY <2>2 DEF GrowsOld
    <3> QED BY <3>1 DEF OrderInv, InTurn, Ahead, OldIsWritten, StoredInOrder, Items
  <2>3. CASE CallConnects(c) \/ CreateCall(c) \/ FinishCall(c) \/ CompleteRow(c) \/ CutShort(c)
    BY <1>2, <2>3 DEF CallConnects, CreateCall, FinishCall, CompleteRow, CutShort
  <2> QED BY <1>3, <2>1, <2>2, <2>3 DEF CallStep
<1>4. CASE WriterTakes
  <2> DEFINE n == Least(Len(queue), BatchMax)
  <2>1. n \in 0..Len(queue) /\ batch = <<>> /\ Items(batch) = {}
    BY <1>1, <1>4, LenProperties, BoundsAssumption DEF WriterTakes, Least, Items
  <2>2. /\ batch' = SubSeq(queue, 1, n) /\ queue' = SubSeq(queue, n + 1, Len(queue))
        /\ UNCHANGED <<turns, missing, old>>
    BY <1>4 DEF WriterTakes
  <2> HIDE DEF n
  <2>3. InTurn(queue, turns \cup missing)
    <3>1. turns \cup missing \cup Items(batch) = turns \cup missing
      BY <2>1
    <3> QED BY <3>1 DEF OrderInv
  <2>4. InTurn(batch', turns' \cup missing')
    BY <1>1, <2>1, <2>2, <2>3, SplitInTurn
  <2>5. InTurn(queue', turns' \cup missing' \cup Items(batch'))
    BY <1>1, <2>1, <2>2, <2>3, SplitInTurn
  <2>6. OldIsWritten'
    BY <1>4, <2>2, TakesTyped DEF StoreInv, OrderInv, OldIsWritten
  <2>7. StoredInOrder'
    BY <2>2 DEF OrderInv, StoredInOrder
  <2> QED BY <2>4, <2>5, <2>6, <2>7 DEF OrderInv
<1>5. CASE WriterCommits \/ WriterFails
  <2>1. /\ batch' = <<>> /\ queue' = queue /\ old' = old
        /\ \/ turns' = turns \cup Items(batch) /\ missing' = missing
           \/ turns' = turns /\ missing' = missing \cup Items(batch)
    BY <1>5 DEF WriterCommits, WriterFails, BatchDone
  <2>2. Items(batch') = {} /\ InTurn(batch', turns' \cup missing')
    BY <2>1 DEF InTurn, Items
  <2>3. turns' \cup missing' \cup Items(batch') = turns \cup missing \cup Items(batch)
    BY <2>1, <2>2
  <2>4. InTurn(queue', turns' \cup missing' \cup Items(batch'))
    BY <2>1, <2>3 DEF OrderInv
  <2>5. OldIsWritten'
    BY <2>1, <2>2 DEF OrderInv, OldIsWritten
  <2>6. StoredInOrder'
    <3> SUFFICES ASSUME NEW c \in Calls, NEW i \in 0..(2 * Exchanges), NEW j \in 0..(2 * Exchanges),
                        i < j, Row(c, j) \in turns'
                 PROVE  Row(c, i) \in turns' \cup missing'
      BY DEF StoredInOrder
    <3>1. CASE Row(c, j) \in turns
      BY <2>1, <3>1 DEF OrderInv, StoredInOrder
    <3>2. CASE Row(c, j) \in Items(batch)
      <4>1. PICK p \in 1..Len(batch) : batch[p] = Row(c, j)
        BY <3>2 DEF Items
      <4>2. Row(c, i) \in Ahead(batch, p) \cup turns \cup missing
        BY <4>1 DEF OrderInv, InTurn
      <4>3. Ahead(batch, p) \subseteq Items(batch)
        BY <1>1, AheadIsIn
      <4> QED BY <2>1, <4>2, <4>3
    <3> QED BY <2>1, <3>1, <3>2
  <2> QED BY <2>2, <2>4, <2>5, <2>6 DEF OrderInv
<1>6. CASE Purge
  <2>1. /\ turns' = {r \in turns : r[1] \notin Stale}
        /\ UNCHANGED <<queue, batch, missing, old>> /\ Stale \subseteq old
    BY <1>6 DEF Purge, Stale
  <2>2. \A r \in Items(queue) \cup Items(batch) : r[1] \notin Stale
    BY <2>1 DEF OrderInv, OldIsWritten
  <2>3. \A c \in Calls, i \in 0..(2 * Exchanges) :
          c \notin Stale /\ Row(c, i) \in turns => Row(c, i) \in turns'
    BY <2>1 DEF Row
  <2>4. ASSUME NEW c \in Calls, NEW j, Row(c, j) \in Items(queue) \cup Items(batch)
        PROVE  c \notin Stale
    BY <2>2, <2>4 DEF Row
  <2>5. InTurn(batch', turns' \cup missing')
    BY <2>1, <2>3, <2>4 DEF OrderInv, InTurn, Items, Ahead
  <2>6. InTurn(queue', turns' \cup missing' \cup Items(batch'))
    BY <2>1, <2>3, <2>4 DEF OrderInv, InTurn, Items, Ahead
  <2>7. OldIsWritten'
    BY <2>1 DEF OrderInv, OldIsWritten, Items
  <2>8. StoredInOrder'
    <3> SUFFICES ASSUME NEW c \in Calls, NEW i \in 0..(2 * Exchanges), NEW j \in 0..(2 * Exchanges),
                        i < j, Row(c, j) \in turns'
                 PROVE  Row(c, i) \in turns' \cup missing'
      BY DEF StoredInOrder
    <3>1. c \notin Stale /\ Row(c, j) \in turns
      BY <2>1 DEF Row
    <3>2. Row(c, i) \in turns \cup missing
      BY <3>1 DEF OrderInv, StoredInOrder
    <3> QED BY <2>1, <2>3, <3>1, <3>2
  <2> QED BY <2>5, <2>6, <2>7, <2>8 DEF OrderInv
<1>7. CASE WriterStops \/ Crash
  <2>1. queue' = <<>> /\ batch' = <<>> /\ UNCHANGED <<turns, missing, old>>
    BY <1>7 DEF WriterStops, Crash, Gone
  <2> QED BY <2>1 DEF OrderInv, InTurn, OldIsWritten, StoredInOrder, Items
<1>8. CASE Close \/ Restart \/ UNCHANGED vars
  BY <1>2, <1>8 DEF Close, Restart, vars
<1> QED BY <1>3, <1>4, <1>5, <1>6, <1>7, <1>8 DEF Next, WriterStep

\* What is stored of a conversation is a beginning of it but for the rows known to be
\* missing, whatever the length of queue and batch, on either kind of database, and
\* wherever a call was cut short, a batch failed or the process crashed.
THEOREM StoredAreBeginnings == Spec => []StoredInOrder
<1>1. Init => StoreInv /\ OrderInv
  <2>1. Init => Typed
    BY ExchangesAssumption DEF Init, Typed, TypeOK, Accounted, Stage, Process
  <2>2. Init => Silent /\ Kept /\ Settled /\ Finished /\ CompleteHasTurns
    BY DEF Init, Silent, Kept, Settled, Finished, CompleteHasTurns
  <2>3. Init => OrderInv
    BY DEF Init, OrderInv, InTurn, OldIsWritten, StoredInOrder, Items
  <2> QED BY <2>1, <2>2, <2>3 DEF StoreInv
<1>2. StoreInv /\ OrderInv /\ [Next]_vars => (StoreInv /\ OrderInv)'
  BY StoreInvNext, OrderNext
<1>3. OrderInv => StoredInOrder
  BY DEF OrderInv
<1> QED
  BY <1>1, <1>2, <1>3, PTL DEF Spec

\* So what the database has of a conversation is a beginning of it, and all of it once
\* the call is completed, but for the rows known to be missing.
THEOREM StoredIsWhole == Spec => []StoredWhole
  BY CompleteCallsHaveTurns, StoredAreBeginnings, PTL DEF StoredWhole

-----------------------------------------------------------------------------
(* A completed call. *)

\* The rows that are on their way to the database.
Coming == Items(queue) \cup Items(batch)

\* Of a call whose flush has returned, or whose row is completed, nothing is on its way.
Landed == \A c \in Calls : stage[c] = "flushed" \/ rows[c] = "complete" =>
  \A r \in Coming : r[1] # c

\* An exchange puts no other call's rows on their way.
LEMMA AppendsOwn ==
  ASSUME Typed, NEW c \in Calls, AppendTurns(c)
  PROVE  \A r \in Items(queue') : r \in Items(queue) \/ r[1] = c
<1> DEFINE x == Row(c, 2 * said[c])
           y == Row(c, 2 * said[c] + 1)
<1>1. said[c] \in 0..Exchanges /\ said[c] < Exchanges
  BY ExchangesAssumption DEF AppendTurns, Typed, TypeOK
<1>2. x \in TurnRow /\ y \in TurnRow /\ x[1] = c /\ y[1] = c
  BY <1>1, RowTypes DEF Row
<1>3. queue \in Seq(TurnRow)
  BY DEF Typed, TypeOK
<1> HIDE DEF x, y
<1>4. CASE queue' = queue \o <<x, y>>
  <2>1. <<x, y>> \in Seq(TurnRow) /\ Items(<<x, y>>) = {x, y}
    BY <1>2 DEF Items
  <2> DEFINE added == <<x, y>>
  <2> HIDE DEF added
  <2>2. Items(queue \o added) = Items(queue) \cup Items(added)
    BY <1>3, <2>1, ItemsJoin DEF added
  <2>3. queue' = queue \o added /\ Items(added) = {x, y}
    BY <1>4, <2>1 DEF added
  <2> QED BY <1>2, <2>2, <2>3
<1>5. CASE queue' = Append(queue, x)
  <2>1. <<x>> \in Seq(TurnRow) /\ Items(<<x>>) = {x}
    BY <1>2 DEF Items
  <2> DEFINE added == <<x>>
  <2> HIDE DEF added
  <2>2. Items(queue \o added) = Items(queue) \cup Items(added)
    BY <1>3, <2>1, ItemsJoin DEF added
  <2>3. queue' = queue \o added /\ Items(added) = {x}
    BY <1>2, <1>3, <1>5, <2>1, AppendIsConcat DEF added
  <2> QED BY <1>2, <2>2, <2>3
<1>6. CASE queue' = queue
  BY <1>6
<1> QED BY <1>4, <1>5, <1>6 DEF AppendTurns, x, y

LEMMA LandedNext == StoreInv /\ Landed /\ [Next]_vars => Landed'
<1> SUFFICES ASSUME StoreInv, Landed, [Next]_vars PROVE Landed'
  OBVIOUS
<1>0. /\ Typed /\ Finished /\ stage \in [Calls -> Stage]
      /\ rows \in [Calls -> {"none", "open", "complete"}]
  BY DEF StoreInv, Typed, TypeOK
<1>1. ASSUME NEW d \in Calls, CallStep(d)
      PROVE  Landed'
  <2>1. CASE AppendTurns(d)
    <3>1. /\ stage[d] = "live" /\ UNCHANGED <<stage, batch, rows>>
          /\ \A r \in Items(queue') : r \in Items(queue) \/ r[1] = d
      BY <1>0, <2>1, AppendsOwn DEF AppendTurns
    <3>2. rows[d] # "complete"
      BY <1>0, <3>1 DEF Finished, Over
    <3> QED BY <3>1, <3>2 DEF Landed, Coming
  <2>2. CASE CallConnects(d) \/ CreateCall(d) \/ CutShort(d) \/ GrowsOld(d)
    <3>1. /\ UNCHANGED <<queue, batch>>
          /\ \A c \in Calls : /\ stage'[c] = "flushed" => stage[c] = "flushed"
                              /\ rows'[c] = "complete" => rows[c] = "complete"
      BY <1>0, <2>2 DEF CallConnects, CreateCall, CutShort, GrowsOld
    <3> QED BY <3>1 DEF Landed, Coming
  <2>3. CASE FinishCall(d)
    <3>1. /\ UNCHANGED <<queue, batch, rows>> /\ stage[d] = "live"
          /\ stage'[d] = "flushed" => unfinished = 0
          /\ \A c \in Calls \ {d} : stage'[c] = stage[c]
      BY <1>0, <2>3 DEF FinishCall
    <3>2. unfinished = 0 => Coming = {}
      <4>1. unfinished = 0 => Len(queue) = 0 /\ Len(batch) = 0
        BY <1>0, QueueTypes DEF Typed, Accounted
      <4> QED BY <4>1 DEF Items, Coming
    <3>3. Coming' = Coming
      BY <3>1 DEF Coming, Items
    <3> QED BY <3>1, <3>2, <3>3 DEF Landed
  <2>4. CASE CompleteRow(d)
    <3>1. /\ UNCHANGED <<queue, batch>> /\ stage[d] = "flushed"
          /\ \A c \in Calls \ {d} : stage'[c] = stage[c] /\ rows'[c] = rows[c]
      BY <1>0, <2>4 DEF CompleteRow
    <3> QED BY <3>1 DEF Landed, Coming
  <2> QED BY <1>1, <2>1, <2>2, <2>3, <2>4 DEF CallStep
<1>2. CASE WriterTakes
  <2>1. Coming' = Coming
    BY <1>0, <1>2, TakesTyped DEF Coming
  <2>2. UNCHANGED <<stage, rows>>
    BY <1>2 DEF WriterTakes
  <2> QED BY <2>1, <2>2 DEF Landed
<1>3. CASE WriterCommits \/ WriterFails
  <2>1. BatchDone /\ UNCHANGED <<queue, rows>>
    BY <1>3 DEF WriterCommits, WriterFails
  <2>2. \A c \in Calls : stage'[c] = "flushed" => stage[c] = "flushed" \/ unfinished = Len(batch)
    BY <1>0, <2>1 DEF BatchDone
  <2>3. Items(batch') = {}
    BY <2>1 DEF BatchDone, Items
  <2>4. unfinished = Len(batch) => Items(queue) = {}
    BY <1>0, NothingUnfinished
  <2>5. Coming' = Items(queue)
    BY <2>1, <2>3 DEF Coming
  <2>6. Items(queue) \subseteq Coming
    BY DEF Coming
  <2> QED BY <2>1, <2>2, <2>4, <2>5, <2>6 DEF Landed
<1>4. CASE Purge
  <2>1. /\ UNCHANGED <<stage, queue, batch>>
        /\ \A c \in Calls : rows'[c] = "complete" => rows[c] = "complete"
    BY <1>0, <1>4 DEF Purge
  <2> QED BY <2>1 DEF Landed, Coming
<1>5. CASE WriterStops \/ Crash
  <2>1. queue' = <<>> /\ batch' = <<>>
    BY <1>5 DEF WriterStops, Crash, Gone
  <2> QED BY <2>1 DEF Landed, Coming, Items
<1>6. CASE Close \/ Restart \/ UNCHANGED vars
  <2>1. UNCHANGED <<stage, rows, queue, batch>>
    BY <1>6 DEF Close, Restart, vars
  <2> QED BY <2>1 DEF Landed, Coming
<1> QED
  BY <1>1, <1>2, <1>3, <1>4, <1>5, <1>6 DEF Next, WriterStep

\* A completed call, before a step and after it.
Final == \A c \in Calls : rows[c] = "complete" =>
  \/ rows'[c] = "complete" /\ Stored(c)' = Stored(c)
  \/ rows'[c] = "none" /\ Stored(c)' = {}

LEMMA FinalStep ==
  ASSUME StoreInv, Landed, [Next]_vars
  PROVE  Final
<1>0. /\ Finished /\ stage \in [Calls -> Stage]
      /\ rows \in [Calls -> {"none", "open", "complete"}]
  BY DEF StoreInv, Typed, TypeOK
<1>1. ASSUME turns' = turns, \A c \in Calls : rows[c] = "complete" => rows'[c] = "complete"
      PROVE  Final
  BY <1>1 DEF Final, Stored
<1>2. ASSUME NEW d \in Calls, CallStep(d)
      PROVE  Final
  <2>1. CASE CreateCall(d)
    <3>1. stage[d] = "creating" /\ turns' = turns
          /\ \A c \in Calls \ {d} : rows'[c] = rows[c]
      BY <1>0, <2>1 DEF CreateCall
    <3>2. rows[d] # "complete"
      BY <1>0, <3>1 DEF Finished, Over
    <3> QED BY <1>1, <3>1, <3>2
  <2>2. CASE ~CreateCall(d)
    <3>1. turns' = turns
      BY <1>2, <2>2 DEF CallStep, CallConnects, AppendTurns, FinishCall, CompleteRow, CutShort, GrowsOld
    <3>2. \A c \in Calls : rows[c] = "complete" => rows'[c] = "complete"
      BY <1>0, <1>2, <2>2 DEF CallStep, CallConnects, AppendTurns, FinishCall, CompleteRow, CutShort,
                              GrowsOld
    <3> QED BY <1>1, <3>1, <3>2
  <2> QED BY <2>1, <2>2
<1>3. CASE WriterTakes \/ WriterFails
  BY <1>1, <1>3 DEF WriterTakes, WriterFails
<1>4. CASE WriterCommits
  <2>1. rows' = rows /\ turns' = turns \cup Items(batch)
    BY <1>4 DEF WriterCommits
  <2>2. ASSUME NEW c \in Calls, rows[c] = "complete"
        PROVE  Stored(c)' = Stored(c)
    <3>1. \A r \in Items(batch) : r[1] # c
      BY <2>2 DEF Landed, Coming
    <3> QED BY <2>1, <3>1 DEF Stored
  <2> QED BY <2>1, <2>2 DEF Final
<1>5. CASE Purge
  <2>1. /\ turns' = {r \in turns : r[1] \notin Stale}
        /\ \A c \in Calls : rows'[c] = IF c \in Stale THEN "none" ELSE rows[c]
    BY <1>5 DEF Purge
  <2>2. ASSUME NEW c \in Calls, c \in Stale
        PROVE  Stored(c)' = {}
    BY <2>1, <2>2 DEF Stored
  <2>3. ASSUME NEW c \in Calls, c \notin Stale
        PROVE  Stored(c)' = Stored(c)
    BY <2>1, <2>3 DEF Stored
  <2> QED BY <2>1, <2>2, <2>3 DEF Final
<1>6. CASE Close \/ WriterStops \/ Crash \/ Restart \/ UNCHANGED vars
  BY <1>1, <1>6 DEF Close, WriterStops, Crash, Gone, Restart, vars
<1> QED
  BY <1>2, <1>3, <1>4, <1>5, <1>6 DEF Next, WriterStep

\* What is stored of a completed call is what there will ever be of it, until a sweep takes
\* all of it at once: whoever shares the queue, whatever fails, and however often the
\* process is started again (finish_call, flush, _drain, purge_older_than).
THEOREM CompletedCallsAreFinal == Spec => CompleteIsFinal
<1>1. Init => StoreInv /\ Landed
  <2>1. Init => Typed
    BY ExchangesAssumption DEF Init, Typed, TypeOK, Accounted, Stage, Process
  <2>2. Init => Silent /\ Kept /\ Settled /\ Finished /\ CompleteHasTurns
    BY DEF Init, Silent, Kept, Settled, Finished, CompleteHasTurns
  <2>3. Init => Landed
    BY DEF Init, Landed
  <2> QED BY <2>1, <2>2, <2>3 DEF StoreInv
<1>2. StoreInv /\ Landed /\ [Next]_vars => (StoreInv /\ Landed)'
  BY StoreInvNext, LandedNext
<1>3. StoreInv /\ Landed /\ [Next]_vars => [Final]_vars
  BY FinalStep
<1>4. [][Final]_vars => CompleteIsFinal
  BY PTL DEF Final, CompleteIsFinal
<1> QED
  BY <1>1, <1>2, <1>3, <1>4, PTL DEF Spec
=============================================================================
