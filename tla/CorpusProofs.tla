---------------------------- MODULE CorpusProofs ----------------------------
(***************************************************************************)
(* Theorems about Corpus, for any documents, texts, widths, exchanges,     *)
(* changes and troubles, and about the passages Chunking makes, for any    *)
(* text and any sizes.                                                     *)
(***************************************************************************)
EXTENDS Corpus, SequenceTheorems, WellFoundedInduction, TLAPS

LEMMA OtherIsOther ==
  ASSUME NEW r \in Retriever
  PROVE  Other(r) \in Retriever /\ Other(r) # r
BY DEF Retriever, Other

LEMMA IndexableHeld == Indexable \subseteq Held
BY DEF Indexable, Held

-----------------------------------------------------------------------------
(* Types. *)

Steps == {"off", "idle", "ensure", "adopt", "switch", "backfill", "survey", "repair"}
Collection == [width : Widths \cup {None}, holds : [Docs -> Held \cup {None}],
               torn : SUBSET Docs]
Retrieval == [width : Widths, at : Name, ready : BOOLEAN, synced : BOOLEAN,
              blind : BOOLEAN, step : Steps, todo : SUBSET Docs]
Question == [kind : {"upload", "delete"}, doc : Docs, text : Upload \cup {None},
             to : Retriever, half : BOOLEAN]
Recorded == Upload \cup {"recovered", "unknown", "deleted"}

\* An upload has a text.
Asking == ask # None /\ ask.kind = "upload" => ask.text \in Upload

Typed == TypeOK /\ Asking

LEMMA MadeType ==
  ASSUME coll \in [Name -> Collection], NEW n \in Name, NEW w \in Widths
  PROVE  Made(n, w) \in [Name -> Collection]
BY DEF Made, Collection

LEMMA KeptType ==
  ASSUME coll \in [Name -> Collection], NEW n \in Name, NEW d \in Docs,
         NEW t \in Held \cup {None}, NEW torn \in SUBSET Docs
  PROVE  Kept(n, d, t, torn) \in [Name -> Collection]
<1> DEFINE c == [coll EXCEPT ![n].holds[d] = t]
<1>1. c \in [Name -> Collection]
  BY DEF Collection
<1>2. [c EXCEPT ![n].torn = torn] \in [Name -> Collection]
  <2> HIDE DEF c
  <2> QED BY <1>1 DEF Collection
<1> QED BY <1>2 DEF Kept

LEMMA WholeType ==
  ASSUME coll \in [Name -> Collection], NEW n \in Name, NEW d \in Docs,
         NEW t \in Held \cup {None}
  PROVE  Whole(n, d, t) \in [Name -> Collection]
<1>1. coll[n].torn \ {d} \in SUBSET Docs
  BY DEF Collection
<1> QED BY <1>1, KeptType DEF Whole

LEMMA IndexedType ==
  ASSUME coll \in [Name -> Collection], NEW n \in Name, NEW d \in Docs, NEW t
  PROVE  Indexed(n, d, t) \in [Name -> Collection]
BY IndexableHeld, WholeType DEF Indexed

LEMMA ClearedType ==
  ASSUME coll \in [Name -> Collection], NEW n \in Name, NEW d \in Docs
  PROVE  Cleared(n, d) \in [Name -> Collection]
BY WholeType DEF Cleared

LEMMA BrokenOffType ==
  ASSUME coll \in [Name -> Collection], NEW r \in Retriever, retr[r].at \in Name,
         NEW d \in Docs, NEW t, NEW c \in BrokenOff(r, d, t)
  PROVE  c \in [Name -> Collection]
<1>1. CASE c = coll \/ c = Cleared(retr[r].at, d)
  BY <1>1, ClearedType
<1>2. CASE t \in Indexable /\ c = Kept(retr[r].at, d, t, coll[retr[r].at].torn \cup {d})
  <2>1. coll[retr[r].at].torn \cup {d} \in SUBSET Docs
    BY DEF Collection
  <2> QED BY <1>2, <2>1, IndexableHeld, KeptType
<1> QED BY <1>1, <1>2 DEF BrokenOff

LEMMA HalfRepairedType ==
  ASSUME coll \in [Name -> Collection], NEW r \in Retriever, retr[r].at \in Name,
         retr[r].todo \subseteq Docs, NEW c \in HalfRepaired(r)
  PROVE  c \in [Name -> Collection]
<1>1. PICK d \in retr[r].todo :
        c \in (IF Live(d) THEN BrokenOff(r, d, row[d]) ELSE {coll, Cleared(retr[r].at, d)})
  BY DEF HalfRepaired
<1> QED BY <1>1, BrokenOffType, ClearedType

\* Whoever was half way through a document when the process died.
LEMMA CrashBreaksOff ==
  ASSUME Crash
  PROVE  \/ coll' = coll
         \/ \E r \in Retriever : coll' \in HalfRepaired(r)
         \/ Asked("upload", TRUE) /\ coll' \in BrokenOff(ask.to, ask.doc, ask.text)
<1> DEFINE U == {HalfRepaired(r) : r \in Retriever}
           V == IF Asked("upload", TRUE) THEN BrokenOff(ask.to, ask.doc, ask.text) ELSE {}
<1>1. coll' \in {coll} \cup (UNION U) \cup V
  BY Zenon DEF Crash
<1>2. ASSUME coll' \in UNION U
      PROVE  \E r \in Retriever : coll' \in HalfRepaired(r)
  <2>1. PICK S \in U : coll' \in S
    BY <1>2
  <2> QED BY <2>1
<1>3. ASSUME coll' \in V
      PROVE  Asked("upload", TRUE) /\ coll' \in BrokenOff(ask.to, ask.doc, ask.text)
  BY <1>3, Zenon
<1>4. coll' = coll \/ coll' \in UNION U \/ coll' \in V
  <2> HIDE DEF U, V
  <2> QED BY <1>1, Zenon
<1> HIDE DEF U, V
<1> QED BY <1>2, <1>3, <1>4, Zenon

LEMMA FreshType ==
  ASSUME NEW w \in Widths
  PROVE  Fresh(w) \in Retrieval /\ Off \in Retrieval
BY CorpusAssumption DEF Fresh, Off, Retrieval, Steps, Name

\* A retriever changed in one respect is one still.
LEMMA RetrievalUpdates ==
  ASSUME NEW f \in [Retriever -> Retrieval], NEW r \in Retriever
  PROVE  /\ \A n \in Name : [f EXCEPT ![r].at = n] \in [Retriever -> Retrieval]
         /\ \A s \in Steps : [f EXCEPT ![r].step = s] \in [Retriever -> Retrieval]
         /\ \A t \in SUBSET Docs : [f EXCEPT ![r].todo = t] \in [Retriever -> Retrieval]
         /\ [f EXCEPT ![r].ready = TRUE] \in [Retriever -> Retrieval]
         /\ [f EXCEPT ![r].blind = TRUE] \in [Retriever -> Retrieval]
         /\ [f EXCEPT ![r].synced = TRUE] \in [Retriever -> Retrieval]
         /\ \A R \in Retrieval : [f EXCEPT ![r] = R] \in [Retriever -> Retrieval]
BY DEF Retrieval

LEMMA TypedInit == Init => Typed
<1> SUFFICES ASSUME Init PROVE Typed
  OBVIOUS
<1>1. row \in [Docs -> Recorded]
  BY DEF Init, Recorded
<1>2. coll \in [Name -> Collection]
  BY CorpusAssumption DEF Init, Collection, Held
<1>3. retr \in [Retriever -> Retrieval]
  BY FreshType, CorpusAssumption DEF Init, Retriever
<1>4. /\ inforce \in Retriever /\ next \in Retriever \cup {None} /\ saved \in Widths
      /\ up \in BOOLEAN /\ raced \subseteq Docs
      /\ ask \in {None} \cup Question /\ Asking
  BY CorpusAssumption DEF Init, Retriever, Asking
<1>5. reloads \in 0 .. Reloads /\ edits \in 0 .. Edits /\ troubles \in 0 .. Troubles
  BY CorpusAssumption DEF Init
<1> QED
  BY <1>1, <1>2, <1>3, <1>4, <1>5 DEF Typed, TypeOK, Recorded, Collection, Retrieval, Steps, Question

Reconciling(r) ==
  \/ Ensure(r) \/ EnsureUnread(r) \/ Adopts(r) \/ Switches(r) \/ Backfills(r) \/ Surveys(r)
  \/ \E d \in Docs : Repairs(r, d) \/ Refused(r, d)
  \/ Repaired(r) \/ Fails(r)

\* The state's parts, by the names the lemmas use.
LEMMA TypedParts ==
  Typed <=>
    /\ row \in [Docs -> Recorded] /\ coll \in [Name -> Collection]
    /\ retr \in [Retriever -> Retrieval]
    /\ inforce \in Retriever /\ next \in Retriever \cup {None} /\ saved \in Widths
    /\ up \in BOOLEAN /\ raced \subseteq Docs
    /\ ask \in {None} \cup Question /\ Asking
    /\ reloads \in 0 .. Reloads /\ edits \in 0 .. Edits /\ troubles \in 0 .. Troubles
BY DEF Typed, TypeOK, Recorded, Collection, Retrieval, Steps, Question

LEMMA TypedPartsNext ==
  Typed' <=>
    /\ row' \in [Docs -> Recorded] /\ coll' \in [Name -> Collection]
    /\ retr' \in [Retriever -> Retrieval]
    /\ inforce' \in Retriever /\ next' \in Retriever \cup {None} /\ saved' \in Widths
    /\ up' \in BOOLEAN /\ raced' \subseteq Docs
    /\ ask' \in {None} \cup Question /\ Asking'
    /\ reloads' \in 0 .. Reloads /\ edits' \in 0 .. Edits /\ troubles' \in 0 .. Troubles
BY DEF Typed, TypeOK, Recorded, Collection, Retrieval, Steps, Question

LEMMA TypedNext == Typed /\ [Next]_vars => Typed'
<1> SUFFICES ASSUME Typed, [Next]_vars PROVE Typed'
  OBVIOUS
<1>0. /\ row \in [Docs -> Recorded] /\ coll \in [Name -> Collection]
      /\ retr \in [Retriever -> Retrieval]
      /\ inforce \in Retriever /\ next \in Retriever \cup {None} /\ saved \in Widths
      /\ up \in BOOLEAN /\ raced \subseteq Docs
      /\ ask \in {None} \cup Question /\ Asking
      /\ reloads \in 0 .. Reloads /\ edits \in 0 .. Edits /\ troubles \in 0 .. Troubles
  BY TypedParts
<1>1. ASSUME NEW r \in Retriever, NEW s \in Steps, Goes(r, s)
      PROVE  retr' \in [Retriever -> Retrieval]
  BY <1>0, <1>1 DEF Goes, Retrieval
<1>2. ASSUME NEW r \in Retriever, NEW n \in Name, Started(r, n)
      PROVE  retr' \in [Retriever -> Retrieval]
  <2> DEFINE f == [retr EXCEPT ![r].at = n]
             g == [f EXCEPT ![r].ready = TRUE]
             h == [g EXCEPT ![r].step = "backfill"]
  <2>1. f \in [Retriever -> Retrieval]
    BY <1>0, RetrievalUpdates
  <2>2. g \in [Retriever -> Retrieval]
    <3> HIDE DEF f
    <3> QED BY <2>1, RetrievalUpdates
  <2>3. h \in [Retriever -> Retrieval]
    <3> HIDE DEF g
    <3> QED BY <2>2, RetrievalUpdates DEF Steps
  <2> QED BY <1>2, <2>3 DEF Started
<1>3. ASSUME NEW n \in Name, Adoption(n)
      PROVE  row' \in [Docs -> Recorded]
  BY <1>0, <1>3 DEF Adoption, Recorded
<1>4. ASSUME NEW r \in Retriever
      PROVE  /\ retr[r].at \in Name /\ retr[r].width \in Widths /\ retr[r].width \in Name
             /\ retr[r].todo \subseteq Docs
  BY <1>0 DEF Retrieval, Name
<1>5. CASE Begins
  BY <1>0, <1>1, <1>5, TypedPartsNext DEF Begins, bounds, Steps, Asking
<1>6. ASSUME NEW r \in Retriever, Ensure(r)
      PROVE  Typed'
  <2>1. CASE /\ coll[retr[r].at].width \in {None, retr[r].width}
             /\ coll' = Made(retr[r].at, retr[r].width)
             /\ Started(r, retr[r].at)
    BY <1>0, <1>2, <1>4, <1>6, <2>1, MadeType, TypedPartsNext DEF Ensure, bounds, Asking
  <2>2. CASE Exists(retr[r].width) /\ Started(r, retr[r].width) /\ UNCHANGED coll
    BY <1>0, <1>2, <1>4, <1>6, <2>2, TypedPartsNext DEF Ensure, bounds, Asking
  <2>3. CASE Goes(r, "adopt") /\ UNCHANGED coll
    BY <1>0, <1>1, <1>6, <2>3, TypedPartsNext DEF Ensure, bounds, Asking, Steps
  <2> QED BY <1>6, <2>1, <2>2, <2>3 DEF Ensure
<1>7. ASSUME NEW r \in Retriever, Adopts(r) \/ Backfills(r)
      PROVE  Typed'
  BY <1>0, <1>1, <1>3, <1>4, <1>7, TypedPartsNext
     DEF Adopts, Backfills, bounds, Asking, Steps
<1>8. ASSUME NEW r \in Retriever, Switches(r)
      PROVE  Typed'
  BY <1>0, <1>2, <1>4, <1>8, MadeType, TypedPartsNext DEF Switches, bounds, Asking
<1>9. ASSUME NEW r \in Retriever, Surveys(r)
      PROVE  Typed'
  <2>1. retr' \in [Retriever -> Retrieval]
    <3> DEFINE f == [retr EXCEPT ![r].step = "repair"]
               t == {d \in Docs : Stale(retr[r].at, d)}
    <3>1. f \in [Retriever -> Retrieval]
      BY <1>0, RetrievalUpdates DEF Steps
    <3>2. [f EXCEPT ![r].todo = t] \in [Retriever -> Retrieval]
      <4> HIDE DEF f
      <4> QED BY <3>1, RetrievalUpdates
    <3> QED BY <1>9, <3>2 DEF Surveys
  <2> QED BY <1>0, <1>9, <2>1, TypedPartsNext DEF Surveys, bounds, Asking
<1>10. ASSUME NEW r \in Retriever, NEW d \in Docs, Repairs(r, d)
       PROVE  Typed'
  <2>1. retr' \in [Retriever -> Retrieval]
    BY <1>0, <1>10 DEF Repairs, Retrieval
  <2>2. coll' \in [Name -> Collection]
    BY <1>0, <1>4, <1>10, IndexedType, ClearedType DEF Repairs
  <2> QED BY <1>0, <1>10, <2>1, <2>2, TypedPartsNext DEF Repairs, bounds, Asking
<1>11. ASSUME NEW r \in Retriever, Repaired(r)
       PROVE  Typed'
  <2>1. retr' \in [Retriever -> Retrieval]
    <3> DEFINE s == IF r = inforce THEN "idle" ELSE "off"
               f == [retr EXCEPT ![r].step = s]
    <3>1. f \in [Retriever -> Retrieval]
      BY <1>0, RetrievalUpdates DEF Steps
    <3>2. [f EXCEPT ![r].synced = TRUE] \in [Retriever -> Retrieval]
      <4> HIDE DEF f
      <4> QED BY <3>1, RetrievalUpdates
    <3> QED BY <1>11, <3>2 DEF Repaired
  <2> QED BY <1>0, <1>11, <2>1, TypedPartsNext DEF Repaired, bounds, Asking
<1>12. ASSUME NEW r \in Retriever, Ends(r)
       PROVE  /\ retr' \in [Retriever -> Retrieval] /\ next' \in Retriever \cup {None}
              /\ saved' \in Widths /\ raced' \subseteq Docs
  <2>1. retr' \in [Retriever -> Retrieval]
    <3>1. CASE r = inforce
      <4> DEFINE n == IF retr[r].step = "switch" THEN retr[r].width ELSE retr[r].at
                 R == [retr[r] EXCEPT !.step = "idle", !.todo = {}, !.at = n]
      <4>1. R \in Retrieval
        <5>1. n \in Name
          BY <1>4
        <5>2. retr[r] \in Retrieval
          BY <1>0
        <5> DEFINE f == [retr[r] EXCEPT !.step = "idle"]
                   g == [f EXCEPT !.todo = {}]
        <5>3. f \in Retrieval
          BY <5>2 DEF Retrieval, Steps
        <5>4. g \in Retrieval
          <6> HIDE DEF f
          <6> QED BY <5>3 DEF Retrieval
        <5>5. [g EXCEPT !.at = n] \in Retrieval
          <6> HIDE DEF g, n
          <6> QED BY <5>1, <5>4 DEF Retrieval
        <5>6. R = [g EXCEPT !.at = n]
          BY <5>2, Zenon DEF Retrieval
        <5> HIDE DEF R, g, n
        <5> QED BY <5>5, <5>6
      <4>2. retr' = [retr EXCEPT ![r] = R]
        BY <1>12, <3>1 DEF Ends
      <4> HIDE DEF R
      <4> QED BY <1>0, <4>1, <4>2, RetrievalUpdates
    <3>2. CASE r # inforce
      BY <1>0, <1>12, <3>2, FreshType DEF Ends
    <3> QED BY <3>1, <3>2
  <2> QED BY <1>0, <1>4, <1>12, <2>1, CorpusAssumption DEF Ends
<1>23. ASSUME NEW r \in Retriever, Fails(r)
       PROVE  Typed'
  <2>1. coll' \in [Name -> Collection]
    BY <1>0, <1>4, <1>23, HalfRepairedType DEF Fails
  <2> QED BY <1>0, <1>12, <1>23, <2>1, TypedPartsNext DEF Fails, bounds, Asking
<1>24. ASSUME NEW r \in Retriever, NEW d \in Docs, Refused(r, d)
       PROVE  Typed'
  <2>1. coll' \in [Name -> Collection]
    BY <1>0, <1>4, <1>24, ClearedType DEF Refused
  <2> QED BY <1>0, <1>12, <1>24, <2>1, TypedPartsNext DEF Refused, bounds, Asking
<1>25. ASSUME NEW r \in Retriever, EnsureUnread(r)
       PROVE  Typed'
  <2>1. retr' \in [Retriever -> Retrieval]
    <3> DEFINE f == [retr EXCEPT ![r].ready = TRUE]
               g == [f EXCEPT ![r].blind = TRUE]
               h == [g EXCEPT ![r].step = "backfill"]
    <3>1. f \in [Retriever -> Retrieval]
      BY <1>0, RetrievalUpdates
    <3>2. g \in [Retriever -> Retrieval]
      <4> HIDE DEF f
      <4> QED BY <3>1, RetrievalUpdates
    <3>3. h \in [Retriever -> Retrieval]
      <4> HIDE DEF g
      <4> QED BY <3>2, RetrievalUpdates DEF Steps
    <3> QED BY <1>25, <3>3 DEF EnsureUnread
  <2>2. troubles' \in 0 .. Troubles
    BY <1>0, <1>25, CorpusAssumption DEF EnsureUnread, Trouble
  <2> QED BY <1>0, <1>25, <2>1, <2>2, TypedPartsNext DEF EnsureUnread, Asking
<1>13. ASSUME NEW r \in Retriever, Swaps(r)
       PROVE  Typed'
  <2>1. retr' \in [Retriever -> Retrieval]
    <3>1. \A s \in Retriever : retr'[s] \in Retrieval
      <4> SUFFICES ASSUME NEW s \in Retriever PROVE retr'[s] \in Retrieval
        OBVIOUS
      <4>1. retr[s] \in Retrieval
        BY <1>0
      <4>2. CASE s # r /\ s # inforce
        BY <1>0, <1>13, <4>1, <4>2 DEF Swaps
      <4>3. CASE s = r /\ s # inforce
        BY <1>0, <1>13, <4>1, <4>3 DEF Swaps, Retrieval, Steps
      <4>4. CASE s # r /\ s = inforce
        BY <1>0, <1>13, <4>1, <4>4 DEF Swaps, Retrieval, Steps
      <4>5. CASE s = r /\ s = inforce
        BY <1>0, <1>13, <4>1, <4>5 DEF Swaps, Retrieval, Steps
      <4> QED BY <4>2, <4>3, <4>4, <4>5
    <3>2. retr' = [s \in Retriever |-> retr'[s]]
      BY <1>0, <1>13 DEF Swaps
    <3> QED BY <3>1, <3>2
  <2> QED BY <1>0, <1>4, <1>13, <2>1, TypedPartsNext DEF Swaps, bounds, Asking
<1>14. ASSUME NEW w \in Widths, Reload(w)
       PROVE  Typed'
  <2>1. retr' \in [Retriever -> Retrieval] /\ next' \in Retriever \cup {None}
    <3>1. CASE w = retr[inforce].width
      BY <1>0, <1>14, <3>1 DEF Reload
    <3>2. CASE w # retr[inforce].width
      BY <1>0, <1>14, <3>2, FreshType, OtherIsOther DEF Reload
    <3> QED BY <3>1, <3>2
  <2>2. reloads' \in 0 .. Reloads
    BY <1>0, <1>14, CorpusAssumption DEF Reload
  <2> QED BY <1>0, <1>14, <2>1, <2>2, OtherIsOther, TypedPartsNext DEF Reload, Asking
<1>15. ASSUME NEW d \in Docs, Asks("delete", d, None) \/ \E t \in Upload : Asks("upload", d, t)
       PROVE  Typed'
  <2>1. ask' \in {None} \cup Question /\ Asking'
    <3>1. PICK k \in {"upload", "delete"}, t \in Upload \cup {None} :
            Asks(k, d, t) /\ (k = "upload" => t \in Upload)
      BY <1>15
    <3>2. ask' = [kind |-> k, doc |-> d, text |-> t, to |-> inforce, half |-> FALSE]
      BY <3>1 DEF Asks
    <3>3. ask' \in Question
      BY <1>0, <3>2 DEF Question
    <3> QED BY <3>1, <3>2, <3>3 DEF Asking
  <2>2. edits' \in 0 .. Edits
    BY <1>0, <1>15, CorpusAssumption DEF Asks
  <2> QED BY <1>0, <1>15, <2>1, <2>2, TypedPartsNext DEF Asks
<1>16. CASE Saves
  <2>1. ask \in Question /\ ask.text \in Upload
    BY <1>0, <1>16 DEF Saves, Asked, Asking
  <2>2. ask' \in Question /\ Asking'
    BY <1>16, <2>1 DEF Saves, Question, Asking
  <2> QED BY <1>0, <1>16, <2>1, <2>2, TypedPartsNext DEF Saves, Races, Question, Recorded, bounds
<1>17. CASE Indexes
  <2>1. ask \in Question
    BY <1>0, <1>17 DEF Indexes, Asked
  <2>2. retr[ask.to].at \in Name /\ ask.doc \in Docs
    BY <1>4, <2>1 DEF Question
  <2>3. coll' \in [Name -> Collection]
    <3>1. CASE coll' = Indexed(retr[ask.to].at, ask.doc, ask.text)
      BY <1>0, <2>2, <3>1, IndexedType
    <3>2. CASE coll' \in BrokenOff(ask.to, ask.doc, ask.text)
      BY <1>0, <2>1, <2>2, <3>2, BrokenOffType DEF Question
    <3> QED BY <1>17, <3>1, <3>2 DEF Indexes
  <2> QED BY <1>0, <1>17, <2>2, <2>3, TypedPartsNext DEF Indexes, Races, bounds, Asking
<1>18. CASE Unindexes
  <2>1. ask \in Question
    BY <1>0, <1>18 DEF Unindexes, Asked
  <2>2. retr[ask.to].at \in Name /\ ask.doc \in Docs
    BY <1>4, <2>1 DEF Question
  <2>3. coll' \in [Name -> Collection]
    BY <1>0, <1>18, <2>2, ClearedType DEF Unindexes
  <2>4. ask' \in {None} \cup Question /\ Asking'
    <3>1. CASE ask' = None
      BY <3>1 DEF Asking
    <3>2. CASE ask' = [ask EXCEPT !.half = TRUE]
      <4>1. ask' \in Question
        BY <2>1, <3>2 DEF Question
      <4>2. ask'.kind = "delete"
        BY <1>18, <2>1, <3>2 DEF Unindexes, Asked, Question
      <4> QED BY <4>1, <4>2 DEF Asking
    <3> QED BY <1>18, <3>1, <3>2 DEF Unindexes
  <2> QED BY <1>0, <1>18, <2>2, <2>3, <2>4, TypedPartsNext DEF Unindexes, Races, bounds
<1>19. CASE Forgets
  <2>1. ask \in Question
    BY <1>0, <1>19 DEF Forgets, Asked
  <2> QED BY <1>0, <1>19, <2>1, TypedPartsNext DEF Forgets, Races, bounds, Asking, Question, Recorded
<1>20. CASE GoesDown \/ ComesBack
  <2>1. up' \in BOOLEAN
    BY <1>20 DEF GoesDown, ComesBack
  <2>2. troubles' \in 0 .. Troubles
    BY <1>0, <1>20, CorpusAssumption DEF GoesDown, ComesBack, Trouble, bounds
  <2> QED BY <1>0, <1>20, <2>1, <2>2, TypedPartsNext DEF GoesDown, ComesBack, bounds, Asking
<1>21. CASE Crash
  <2>1. retr' \in [Retriever -> Retrieval]
    BY <1>0, <1>21, FreshType DEF Crash, Retriever
  <2>2. coll' \in [Name -> Collection]
    <3>1. CASE coll' = coll
      BY <1>0, <3>1
    <3>2. ASSUME NEW r \in Retriever, coll' \in HalfRepaired(r)
          PROVE  coll' \in [Name -> Collection]
      BY <1>0, <1>4, <3>2, HalfRepairedType
    <3>3. CASE Asked("upload", TRUE) /\ coll' \in BrokenOff(ask.to, ask.doc, ask.text)
      <4>1. ask \in Question
        BY <1>0, <3>3 DEF Asked
      <4> QED BY <1>0, <1>4, <3>3, <4>1, BrokenOffType DEF Question
    <3> QED BY <1>21, <3>1, <3>2, <3>3, CrashBreaksOff
  <2>3. troubles' \in 0 .. Troubles
    BY <1>0, <1>21, CorpusAssumption DEF Crash, Trouble
  <2>4. /\ row' = row /\ saved' = saved /\ up' = up /\ reloads' = reloads /\ edits' = edits
        /\ inforce' = "r1" /\ next' = None /\ ask' = None /\ raced' = {}
    BY <1>21 DEF Crash
  <2> HIDE <1>21
  <2> QED BY <1>0, <2>1, <2>2, <2>3, <2>4, TypedPartsNext DEF Asking, Retriever
<1>22. CASE UNCHANGED vars
  BY <1>0, <1>22, TypedPartsNext DEF vars, bounds, Asking
<1> QED
  BY <1>5, <1>6, <1>7, <1>8, <1>9, <1>10, <1>11, <1>12, <1>13, <1>14, <1>15, <1>16, <1>17,
     <1>18, <1>19, <1>20, <1>21, <1>22, <1>23, <1>24, <1>25 DEF Next, Pass, Answers

LEMMA TypedAlways == Spec => []Typed
<1> QED BY TypedInit, TypedNext, PTL DEF Spec

\* The state keeps its types, for any documents, texts, widths and bounds.
THEOREM CorpusTyped == Spec => []TypeOK
<1>1. Typed => TypeOK
  BY DEF Typed
<1> QED BY <1>1, TypedAlways, PTL

-----------------------------------------------------------------------------
(* What is written where.  A collection is filled only with what the database has, *)
(* and not while a delete is half done.                                            *)

\* A document that was uploaded is in the database while it is being indexed.
Uploaded ==
  ask # None /\ ask.kind = "upload" /\ ask.half => row[ask.doc] = ask.text

HalfDeleted == ask # None /\ ask.kind = "delete" /\ ask.half

LEMMA TextsAreLive == \A t \in Upload : t \notin {"unknown", "deleted"}
BY CorpusAssumption

LEMMA UploadedInit == Init => Uploaded
BY DEF Init, Uploaded

LEMMA UploadedNext == Typed /\ Uploaded /\ [Next]_vars => Uploaded'
<1> SUFFICES ASSUME Typed, Uploaded, [Next]_vars PROVE Uploaded'
  OBVIOUS
<1>0. row \in [Docs -> Recorded] /\ ask \in {None} \cup Question
  BY TypedParts
<1>1. CASE row' = row /\ ask' = ask
  BY <1>1 DEF Uploaded
<1>2. ASSUME NEW r \in Retriever, Adopts(r) \/ Backfills(r)
      PROVE  Uploaded'
  BY <1>2 DEF Adopts, Backfills, Unlocked, Uploaded
<1>3. ASSUME NEW k, NEW d \in Docs, NEW t, Asks(k, d, t)
      PROVE  Uploaded'
  BY <1>3 DEF Asks, Uploaded
<1>4. CASE Saves
  <2>1. ask \in Question
    BY <1>0, <1>4 DEF Saves, Asked
  <2>2. row'[ask.doc] = ask.text /\ ask'.doc = ask.doc /\ ask'.text = ask.text
    BY <1>0, <1>4, <2>1 DEF Saves, Question
  <2> QED BY <2>2 DEF Uploaded
<1>5. CASE Unindexes
  <2>1. ask \in Question /\ ask.kind = "delete"
    BY <1>0, <1>5 DEF Unindexes, Asked
  <2>2. ask' = None \/ ask'.kind = "delete"
    BY <1>5, <2>1 DEF Unindexes, Question
  <2> QED BY <2>2 DEF Uploaded
<1>6. CASE Indexes \/ Forgets \/ Crash
  BY <1>6 DEF Indexes, Forgets, Crash, Uploaded
<1> QED
  BY <1>1, <1>2, <1>3, <1>4, <1>5, <1>6
     DEF Next, Pass, Answers, vars, bounds, Begins, Ensure, EnsureUnread, Switches, Surveys, Repairs, Refused,
         Repaired, Fails, Swaps, Reload, GoesDown, ComesBack

\* What a repair or an indexing makes of the collections, however far it comes: of one of
\* them, and of one document it holds.
Rewritten(c, n, d, t) ==
  /\ \A m \in Name : c[m].width = coll[m].width /\ (m # n => c[m] = coll[m])
  /\ \A m \in Name, e \in Docs :
       c[m].holds[e] \in {coll[m].holds[e]} \cup (IF e = d THEN {None, t} ELSE {})

LEMMA KeptRewrites ==
  ASSUME Typed, NEW n \in Name, NEW d \in Docs, NEW t, NEW torn
  PROVE  /\ Rewritten(Kept(n, d, t, torn), n, d, t)
         /\ Kept(n, d, t, torn)[n].holds[d] = t
<1> DEFINE f == [coll EXCEPT ![n].holds[d] = t]
<1>1. coll \in [Name -> Collection]
  BY TypedParts
<1>2. /\ f[n].width = coll[n].width /\ f[n].holds = [coll[n].holds EXCEPT ![d] = t]
      /\ \A m \in Name : m # n => f[m] = coll[m]
      /\ DOMAIN f = Name /\ f[n] = [coll[n] EXCEPT !.holds[d] = t]
  BY <1>1 DEF Collection
<1>3. Kept(n, d, t, torn) = [f EXCEPT ![n].torn = torn]
  BY Zenon DEF Kept
<1>4. coll[n].holds \in [Docs -> Held \cup {None}]
  BY <1>1 DEF Collection
<1>5. f[n] = [width |-> coll[n].width, holds |-> [coll[n].holds EXCEPT ![d] = t],
             torn |-> coll[n].torn]
  BY <1>1, <1>2 DEF Collection
<1> HIDE DEF f
<1>6. /\ Kept(n, d, t, torn)[n].width = coll[n].width
      /\ Kept(n, d, t, torn)[n].holds = [coll[n].holds EXCEPT ![d] = t]
      /\ \A m \in Name : m # n => Kept(n, d, t, torn)[m] = coll[m]
  BY <1>2, <1>3, <1>5
<1> QED BY <1>4, <1>6 DEF Rewritten

LEMMA ClearedRewrites ==
  ASSUME Typed, NEW n \in Name, NEW d \in Docs
  PROVE  Rewritten(Cleared(n, d), n, d, None) /\ Cleared(n, d)[n].holds[d] = None
BY KeptRewrites DEF Cleared, Whole

LEMMA IndexedRewrites ==
  ASSUME Typed, NEW n \in Name, NEW d \in Docs, NEW t
  PROVE  Indexed(n, d, t) = coll \/ Rewritten(Indexed(n, d, t), n, d, t)
BY KeptRewrites DEF Indexed, Whole

LEMMA BrokenOffRewrites ==
  ASSUME Typed, NEW r \in Retriever, retr[r].at \in Name, NEW d \in Docs, NEW t,
         NEW c \in BrokenOff(r, d, t)
  PROVE  \/ c = coll
         \/ Rewritten(c, retr[r].at, d, None)
         \/ Rewritten(c, retr[r].at, d, t) /\ Fits(r)
<1>1. CASE c = Cleared(retr[r].at, d)
  BY <1>1, ClearedRewrites
<1>2. CASE c = Kept(retr[r].at, d, t, coll[retr[r].at].torn \cup {d}) /\ Fits(r)
  BY <1>2, KeptRewrites
<1> QED BY <1>1, <1>2 DEF BrokenOff

LEMMA HalfRepairedRewrites ==
  ASSUME Typed, NEW r \in Retriever, NEW c \in HalfRepaired(r)
  PROVE  /\ retr[r].step = "repair" /\ Unlocked /\ retr[r].at \in Name
         /\ \/ c = coll
            \/ \E d \in Docs : Rewritten(c, retr[r].at, d, None)
            \/ \E d \in Docs : Live(d) /\ Rewritten(c, retr[r].at, d, row[d])
<1>0. retr[r].at \in Name /\ retr[r].todo \subseteq Docs
  BY TypedParts DEF Retrieval
<1>1. /\ retr[r].step = "repair" /\ Unlocked
      /\ \E d \in retr[r].todo :
           c \in (IF Live(d) THEN BrokenOff(r, d, row[d]) ELSE {coll, Cleared(retr[r].at, d)})
  BY DEF HalfRepaired
<1>2. PICK d \in Docs :
        c \in (IF Live(d) THEN BrokenOff(r, d, row[d]) ELSE {coll, Cleared(retr[r].at, d)})
  BY <1>0, <1>1
<1>3. CASE Live(d)
  BY <1>0, <1>1, <1>2, <1>3, BrokenOffRewrites
<1>4. CASE ~Live(d)
  BY <1>0, <1>1, <1>2, <1>4, ClearedRewrites
<1> QED BY <1>3, <1>4

MakesNone == \A r \in Retriever : ~Ensure(r) /\ ~Switches(r)

\* A step that makes no collection takes a document out of one, or puts in what the
\* database has while no delete is half done.
LEMMA StepRewrites ==
  ASSUME Typed, Uploaded, [Next]_vars, MakesNone
  PROVE  \/ coll' = coll
         \/ \E n \in Name, d \in Docs : Rewritten(coll', n, d, None)
         \/ \E n \in Name, d \in Docs :
              Rewritten(coll', n, d, row[d]) /\ Live(d) /\ row' = row /\ ~HalfDeleted
<1> DEFINE Writing ==
      \/ coll' = coll
      \/ \E n \in Name, d \in Docs : Rewritten(coll', n, d, None)
      \/ \E n \in Name, d \in Docs :
           Rewritten(coll', n, d, row[d]) /\ Live(d) /\ row' = row /\ ~HalfDeleted
<1> SUFFICES Writing
  OBVIOUS
<1>0. /\ retr \in [Retriever -> Retrieval] /\ ask \in {None} \cup Question /\ Asking
  BY TypedParts
<1>1. \A r \in Retriever : retr[r].at \in Name
  BY <1>0 DEF Retrieval
<1>2. ASSUME NEW r \in Retriever, NEW d \in Docs, Repairs(r, d)
      PROVE  Writing
  <2>1. row' = row /\ ~HalfDeleted
    BY <1>2 DEF Repairs, Unlocked, HalfDeleted
  <2>2. CASE Live(d)
    <3>1. coll' = Indexed(retr[r].at, d, row[d])
      BY <1>2, <2>2 DEF Repairs
    <3> QED BY <1>1, <2>1, <2>2, <3>1, IndexedRewrites
  <2>3. CASE ~Live(d)
    <3>1. coll' = Cleared(retr[r].at, d)
      BY <1>2, <2>3 DEF Repairs
    <3> QED BY <1>1, <3>1, ClearedRewrites
  <2> QED BY <2>2, <2>3
<1>3. ASSUME NEW r \in Retriever, coll' \in HalfRepaired(r), row' = row
      PROVE  Writing
  <2>1. ~HalfDeleted
    BY <1>3, HalfRepairedRewrites DEF Unlocked, HalfDeleted
  <2> QED BY <1>3, <2>1, HalfRepairedRewrites
<1>4. ASSUME NEW r \in Retriever, NEW d \in Docs, Refused(r, d)
      PROVE  Writing
  BY <1>1, <1>4, ClearedRewrites DEF Refused
<1>5. CASE Asked("upload", TRUE) /\ row' = row
            /\ coll' \in {Indexed(retr[ask.to].at, ask.doc, ask.text)}
                          \cup BrokenOff(ask.to, ask.doc, ask.text)
  <2>1. ask \in Question /\ ask.kind = "upload" /\ row[ask.doc] = ask.text
    BY <1>0, <1>5 DEF Asked, Uploaded
  <2>2. ask.text \in Upload /\ ask.doc \in Docs /\ ask.to \in Retriever
    <3>1. ask # None
      BY <1>5 DEF Asked
    <3>2. ask.text \in Upload
      BY <1>0, <2>1, <3>1 DEF Asking
    <3> QED BY <2>1, <3>2 DEF Question
  <2>3. Live(ask.doc) /\ ~HalfDeleted
    BY <2>1, <2>2, TextsAreLive DEF Live, HalfDeleted
  <2>4. CASE coll' = Indexed(retr[ask.to].at, ask.doc, ask.text)
    BY <1>1, <1>5, <2>1, <2>2, <2>3, <2>4, IndexedRewrites
  <2>5. CASE coll' \in BrokenOff(ask.to, ask.doc, ask.text)
    BY <1>1, <1>5, <2>1, <2>2, <2>3, <2>5, BrokenOffRewrites
  <2> QED BY <1>5, <2>4, <2>5
<1>6. CASE Unindexes
  <2>1. ask \in Question
    BY <1>0, <1>6 DEF Unindexes, Asked
  <2>2. ask.doc \in Docs /\ retr[ask.to].at \in Name
    BY <1>1, <2>1 DEF Question
  <2> QED BY <1>6, <2>2, ClearedRewrites DEF Unindexes
<1>7. CASE coll' = coll
  BY <1>7
<1>8. CASE Indexes
  BY <1>5, <1>8 DEF Indexes
<1>9. ASSUME NEW r \in Retriever, Fails(r)
      PROVE  Writing
  BY <1>3, <1>9 DEF Fails
<1>10. CASE Crash
  <2>1. row' = row
    BY <1>10 DEF Crash
  <2>2. CASE coll' = coll
    BY <2>2
  <2>3. ASSUME NEW r \in Retriever, coll' \in HalfRepaired(r)
        PROVE  Writing
    BY <1>3, <2>1, <2>3
  <2>4. CASE Asked("upload", TRUE) /\ coll' \in BrokenOff(ask.to, ask.doc, ask.text)
    BY <1>5, <2>1, <2>4
  <2> HIDE DEF Writing
  <2> QED BY <1>10, <2>2, <2>3, <2>4, CrashBreaksOff, Zenon
<1>11. CASE \/ Begins \/ \E w \in Widths : Reload(w)
            \/ \E d \in Docs : Asks("delete", d, None) \/ \E t \in Upload : Asks("upload", d, t)
            \/ Saves \/ Forgets \/ GoesDown \/ ComesBack \/ UNCHANGED vars
  BY <1>7, <1>11 DEF Begins, Reload, Asks, Saves, Forgets, GoesDown, ComesBack, vars
<1>12. ASSUME NEW r \in Retriever, Pass(r)
       PROVE  Writing
  <2>1. CASE EnsureUnread(r) \/ Adopts(r) \/ Backfills(r) \/ Surveys(r) \/ Repaired(r) \/ Swaps(r)
    BY <1>7, <2>1 DEF EnsureUnread, Adopts, Backfills, Surveys, Repaired, Swaps
  <2> HIDE DEF Writing
  <2> QED BY <1>2, <1>4, <1>9, <1>12, <2>1 DEF Pass, MakesNone
<1> HIDE DEF Writing
<1> QED
  BY <1>6, <1>7, <1>8, <1>10, <1>11, <1>12, Zenon DEF Next, Answers

LEMMA WidthsStay ==
  ASSUME Typed, Uploaded, [Next]_vars, MakesNone,
         NEW n \in Name
  PROVE  coll'[n].width = coll[n].width
BY StepRewrites DEF Rewritten

LEMMA MadeHolds ==
  ASSUME Typed, NEW n \in Name, NEW w \in Widths
  PROVE  \A m \in Name, e \in Docs : Made(n, w)[m].holds[e] = Holds(m, e)
<1>1. coll \in [Name -> Collection]
  BY TypedParts
<1> QED BY <1>1 DEF Made, Collection, Holds

\* What the end of a start or of a pass makes of the retrievers.
LEMMA EndsKeeps ==
  ASSUME Typed, NEW r \in Retriever, Ends(r)
  PROVE  /\ \A s \in Retriever : s # r => retr'[s] = retr[s]
         /\ r # inforce => retr'[r] = Off
         /\ r = inforce =>
              /\ retr'[r].ready = retr[r].ready /\ retr'[r].blind = retr[r].blind
              /\ retr'[r].synced = retr[r].synced
              /\ retr'[r].width = retr[r].width /\ retr'[r].step = "idle"
              /\ retr'[r].at = IF retr[r].step = "switch" THEN retr[r].width ELSE retr[r].at
<1>1. retr \in [Retriever -> Retrieval]
  BY TypedParts
<1> QED BY <1>1 DEF Ends, Retrieval

\* Of the steps of a retriever, those that end one.
LEMMA Ending ==
  ASSUME NEW r \in Retriever, Fails(r) \/ \E d \in Docs : Refused(r, d)
  PROVE  /\ Ends(r) /\ inforce' = inforce /\ ask' = ask /\ row' = row
         /\ retr[r].step # "off" /\ retr[r].step # "idle"
BY DEF Fails, Refused

-----------------------------------------------------------------------------
(* Widths.  A collection keeps the width it was made with, a retriever that is     *)
(* ready is past the steps that look for one, and it took none without reading its *)
(* width, or it is blind.                                                          *)

Looking == {"ensure", "adopt", "switch"}

Fitting ==
  /\ \A w \in Widths : coll[w].width \in {None, w}
  /\ \A r \in Retriever :
       /\ retr[r].at \in {"base", retr[r].width}
       /\ retr[r].ready => /\ ~retr[r].blind => coll[retr[r].at].width = retr[r].width
                           /\ retr[r].step \notin Looking

\* Steps that change neither a width nor what a retriever goes by, unless they take
\* it back to the start.
LEMMA FittingKept ==
  ASSUME Typed, Fitting,
         \A n \in Name : coll'[n].width = coll[n].width,
         \A r \in Retriever :
           \/ ~retr'[r].ready /\ retr'[r].at \in {"base", retr'[r].width}
           \/ /\ retr[r].ready /\ retr'[r].at = retr[r].at /\ retr'[r].width = retr[r].width
              /\ retr'[r].blind = retr[r].blind /\ retr'[r].step \notin Looking
           \/ /\ retr'[r].blind /\ retr'[r].at \in {"base", retr'[r].width}
              /\ retr'[r].step \notin Looking
  PROVE  Fitting'
<1>1. \A r \in Retriever : retr[r].at \in Name
  BY TypedParts DEF Retrieval
<1>2. \A w \in Widths : coll'[w].width \in {None, w}
  BY DEF Fitting, Name
<1>3. ASSUME NEW r \in Retriever
      PROVE  /\ retr'[r].at \in {"base", retr'[r].width}
             /\ retr'[r].ready => /\ ~retr'[r].blind => coll'[retr'[r].at].width = retr'[r].width
                                  /\ retr'[r].step \notin Looking
  BY <1>1 DEF Fitting
<1> QED BY <1>2, <1>3 DEF Fitting

\* A retriever that finds, or makes, a collection of its width.
LEMMA FittingStarted ==
  ASSUME Typed, Fitting, NEW r \in Retriever, NEW n \in {"base", retr[r].width}, Started(r, n),
         \A m \in Name : coll[m].width # None => coll'[m].width = coll[m].width,
         \A w \in Widths : coll'[w].width \in {None, w},
         coll'[n].width = retr[r].width
  PROVE  Fitting'
<1>1. /\ retr \in [Retriever -> Retrieval] /\ coll \in [Name -> Collection]
  BY TypedParts
<1>2. ASSUME NEW s \in Retriever, s # r
      PROVE  retr'[s] = retr[s]
  BY <1>1, <1>2 DEF Started
<1>3. retr'[r].at = n /\ retr'[r].width = retr[r].width /\ retr'[r].step \notin Looking
  BY <1>1 DEF Started, Retrieval, Looking
<1>4. \A s \in Retriever : retr'[s].at \in {"base", retr'[s].width}
  BY <1>2, <1>3 DEF Fitting
<1>5. ASSUME NEW s \in Retriever, retr'[s].ready
      PROVE  /\ ~retr'[s].blind => coll'[retr'[s].at].width = retr'[s].width
             /\ retr'[s].step \notin Looking
  <2>1. CASE s = r
    BY <1>3, <2>1
  <2>2. CASE s # r
    <3>1. /\ ~retr[s].blind => coll[retr[s].at].width = retr[s].width
          /\ retr[s].step \notin Looking
      BY <1>2, <1>5, <2>2 DEF Fitting
    <3>2. retr[s].at \in Name /\ retr[s].width # None
      BY <1>1, CorpusAssumption DEF Retrieval
    <3> QED BY <1>2, <2>2, <3>1, <3>2
  <2> QED BY <2>1, <2>2
<1> QED BY <1>4, <1>5 DEF Fitting

LEMMA FreshStart ==
  ASSUME NEW w
  PROVE  /\ Fresh(w).at = "base" /\ ~Fresh(w).ready /\ Fresh(w).step = "ensure"
         /\ ~Fresh(w).synced
         /\ Off.at = "base" /\ ~Off.ready /\ Off.step = "off" /\ ~Off.synced
BY DEF Fresh, Off

LEMMA FittingInit == Init => Fitting
<1> SUFFICES ASSUME Init PROVE Fitting
  OBVIOUS
<1>1. \A w \in Widths : coll[w].width \in {None, w}
  BY CorpusAssumption DEF Init, Name
<1>2. \A r \in Retriever : retr[r] = Fresh(First) \/ retr[r] = Off
  BY DEF Init, Retriever
<1>3. \A r \in Retriever : retr[r].at = "base" /\ ~retr[r].ready
  BY <1>2, FreshStart
<1> QED BY <1>1, <1>3 DEF Fitting

LEMMA FittingNext == Typed /\ Uploaded /\ Fitting /\ [Next]_vars => Fitting'
<1> SUFFICES ASSUME Typed, Uploaded, Fitting, [Next]_vars PROVE Fitting'
  OBVIOUS
<1>0. /\ retr \in [Retriever -> Retrieval] /\ coll \in [Name -> Collection]
      /\ inforce \in Retriever /\ ask \in {None} \cup Question
  BY TypedParts
<1>1. ASSUME NEW r \in Retriever
      PROVE  /\ retr[r].at \in Name /\ retr[r].width \in Widths /\ retr[r].width \in Name
             /\ retr[r].width # None /\ retr[r].todo \subseteq Docs
  BY <1>0, CorpusAssumption DEF Retrieval, Name
<1>2. ASSUME NEW n \in Name, NEW w \in Widths,
             coll[n].width \in {None, w}, n \in Widths => n = w
      PROVE  /\ \A m \in Name : coll[m].width # None => Made(n, w)[m].width = coll[m].width
             /\ \A v \in Widths : Made(n, w)[v].width \in {None, v}
             /\ Made(n, w)[n].width = w
  BY <1>0, <1>2 DEF Made, Exists, Fitting, Collection, Name
<1>3. CASE Begins
  BY <1>0, <1>1, <1>3, FittingKept DEF Begins, Goes, Fitting, Looking, Retrieval
<1>4. ASSUME NEW r \in Retriever, Ensure(r)
      PROVE  Fitting'
  <2>0. ~retr[r].ready
    BY <1>4 DEF Ensure, Fitting, Looking
  <2>1. CASE /\ coll[retr[r].at].width \in {None, retr[r].width}
             /\ coll' = Made(retr[r].at, retr[r].width)
             /\ Started(r, retr[r].at)
    <3>1. /\ retr[r].at \in {"base", retr[r].width}
          /\ retr[r].at \in Widths => retr[r].at = retr[r].width
      BY CorpusAssumption DEF Fitting
    <3> QED BY <1>1, <1>2, <2>1, <3>1, FittingStarted
  <2>2. CASE Exists(retr[r].width) /\ Started(r, retr[r].width) /\ UNCHANGED coll
    <3>1. coll[retr[r].width].width = retr[r].width
      BY <1>1, <2>2 DEF Fitting, Exists
    <3> QED BY <1>1, <2>2, <3>1, FittingStarted DEF Fitting
  <2>3. CASE Goes(r, "adopt") /\ UNCHANGED coll
    BY <1>0, <2>0, <2>3, FittingKept DEF Goes, Fitting, Retrieval
  <2> QED BY <1>4, <2>1, <2>2, <2>3 DEF Ensure
<1>5. ASSUME NEW r \in Retriever, Adopts(r) \/ Backfills(r)
      PROVE  Fitting'
  BY <1>0, <1>5, FittingKept DEF Adopts, Backfills, Goes, Fitting, Retrieval, Looking
<1>6. ASSUME NEW r \in Retriever, Switches(r)
      PROVE  Fitting'
  BY <1>0, <1>1, <1>2, <1>6, FittingStarted DEF Switches, Fitting
<1>7. ASSUME NEW r \in Retriever, Surveys(r)
      PROVE  Fitting'
  BY <1>0, <1>7, FittingKept DEF Surveys, Fitting, Retrieval, Looking
<1>8. ASSUME NEW r \in Retriever, NEW d \in Docs, Repairs(r, d)
      PROVE  MakesNone => Fitting'
  <2> SUFFICES ASSUME MakesNone PROVE Fitting'
    OBVIOUS
  <2>1. \A n \in Name : coll'[n].width = coll[n].width
    BY WidthsStay
  <2>2. \A s \in Retriever : /\ retr'[s].ready = retr[s].ready /\ retr'[s].at = retr[s].at
                            /\ retr'[s].width = retr[s].width /\ retr'[s].blind = retr[s].blind /\ retr'[s].step = retr[s].step
    BY <1>0, <1>8 DEF Repairs, Retrieval
  <2> QED BY <2>1, <2>2, FittingKept DEF Fitting
<1>9. ASSUME NEW r \in Retriever, Repaired(r)
      PROVE  Fitting'
  <2>1. \A s \in Retriever : /\ retr'[s].ready = retr[s].ready /\ retr'[s].at = retr[s].at
                            /\ retr'[s].width = retr[s].width /\ retr'[s].blind = retr[s].blind
                            /\ retr'[s].step \in {retr[s].step, "idle", "off"}
    BY <1>0, <1>9 DEF Repaired, Retrieval
  <2> QED BY <1>9, <2>1, FittingKept DEF Repaired, Fitting, Looking
<1>10. ASSUME NEW r \in Retriever, Fails(r) \/ \E d \in Docs : Refused(r, d)
       PROVE  MakesNone => Fitting'
  <2> SUFFICES ASSUME MakesNone PROVE Fitting'
    OBVIOUS
  <2>1. \A n \in Name : coll'[n].width = coll[n].width
    BY WidthsStay
  <2>2. Ends(r)
    BY <1>10, Ending
  <2>3. CASE r # inforce
    <3>1. retr'[r] = Off
      BY <2>2, <2>3, EndsKeeps
    <3> QED BY <2>1, <2>2, <3>1, EndsKeeps, FreshStart, FittingKept DEF Fitting
  <2>4. CASE r = inforce /\ retr[r].step = "switch"
    <3>1. ~retr'[r].ready /\ retr'[r].at = retr'[r].width
      BY <2>2, <2>4, EndsKeeps DEF Fitting, Looking
    <3> QED BY <2>1, <2>2, <3>1, EndsKeeps, FittingKept DEF Fitting
  <2>5. CASE r = inforce /\ retr[r].step # "switch"
    <3>1. /\ retr'[r].ready = retr[r].ready /\ retr'[r].at = retr[r].at
          /\ retr'[r].blind = retr[r].blind
          /\ retr'[r].width = retr[r].width /\ retr'[r].step = "idle"
      BY <2>2, <2>5, EndsKeeps
    <3> QED BY <2>1, <2>2, <3>1, EndsKeeps, FittingKept DEF Fitting, Looking
  <2> QED BY <2>3, <2>4, <2>5
<1>18. ASSUME NEW r \in Retriever, EnsureUnread(r)
       PROVE  Fitting'
  <2>1. \A s \in Retriever : s # r => retr'[s] = retr[s]
    BY <1>0, <1>18 DEF EnsureUnread
  <2>2. /\ retr'[r].blind /\ retr'[r].at = retr[r].at /\ retr'[r].width = retr[r].width
        /\ retr'[r].step = "backfill"
    BY <1>0, <1>18 DEF EnsureUnread, Retrieval
  <2>3. coll' = coll
    BY <1>18 DEF EnsureUnread
  <2> QED BY <2>1, <2>2, <2>3, FittingKept DEF Fitting, Looking
<1>11. ASSUME NEW r \in Retriever, Swaps(r)
       PROVE  Fitting'
  <2>1. \A s \in Retriever : /\ retr'[s].ready = retr[s].ready /\ retr'[s].at = retr[s].at
                            /\ retr'[s].width = retr[s].width /\ retr'[s].blind = retr[s].blind
                            /\ retr'[s].step \in {retr[s].step, "idle", "off"}
    BY <1>0, <1>11 DEF Swaps, Retrieval
  <2> QED BY <1>11, <2>1, FittingKept DEF Swaps, Fitting, Looking
<1>12. ASSUME NEW w \in Widths, Reload(w)
       PROVE  Fitting'
  <2>1. \A s \in Retriever : retr'[s] = retr[s] \/ retr'[s] = Fresh(w)
    BY <1>0, <1>12, OtherIsOther DEF Reload
  <2> QED BY <1>12, <2>1, FreshStart, FittingKept DEF Reload, Fitting
<1>13. ASSUME NEW k, NEW d \in Docs, NEW t, Asks(k, d, t)
       PROVE  Fitting'
  BY <1>13, FittingKept DEF Asks, Fitting
<1>14. ASSUME Answers
       PROVE  MakesNone => Fitting'
  <2>1. MakesNone => \A n \in Name : coll'[n].width = coll[n].width
    BY WidthsStay
  <2>2. retr' = retr
    BY <1>14 DEF Answers, Saves, Indexes, Unindexes, Forgets
  <2>3. MakesNone => Fitting'
    BY <2>1, <2>2, FittingKept DEF Fitting
  <2> QED BY <2>3
<1>15. CASE GoesDown \/ ComesBack
  BY <1>15, FittingKept DEF GoesDown, ComesBack, Fitting
<1>16. ASSUME Crash
       PROVE  MakesNone => Fitting'
  <2>1. MakesNone => \A n \in Name : coll'[n].width = coll[n].width
    BY WidthsStay
  <2>2. \A s \in Retriever : retr'[s].at = "base" /\ ~retr'[s].ready
    BY <1>16, FreshStart DEF Crash, Retriever
  <2> QED BY <2>1, <2>2, FittingKept
<1>17. CASE UNCHANGED vars
  BY <1>17 DEF vars, Fitting
<1>19. CASE ~MakesNone
  BY <1>4, <1>6, <1>19 DEF MakesNone
<1> QED
  BY <1>3, <1>4, <1>5, <1>6, <1>7, <1>8, <1>9, <1>10, <1>11, <1>12, <1>13, <1>14, <1>15, <1>16,
     <1>17, <1>18, <1>19 DEF Next, Pass

\* Whatever fails or crashes while the width is looked for, a retriever that answers
\* searches vectors of its own embedder's width, unless it could not read the width of
\* the collection it is at and took it as it was.
THEOREM WidthsAreServed == Spec => []ServesItsWidth
<1>1. Typed /\ Fitting => ServesItsWidth
  BY TypedParts DEF Fitting, ServesItsWidth
<1> QED
  BY <1>1, FittingInit, FittingNext, UploadedInit, UploadedNext, TypedAlways, PTL DEF Spec

LEMMA HoldsChange ==
  ASSUME Typed, Uploaded, [Next]_vars, NEW n \in Name, NEW d \in Docs
  PROVE  \/ Holds(n, d)' \in {Holds(n, d), None}
         \/ Live(d) /\ row'[d] = row[d] /\ ~HalfDeleted
<1>1. ASSUME NEW r \in Retriever, Ensure(r) \/ Switches(r)
      PROVE  Holds(n, d)' = Holds(n, d)
  <2>1. retr[r].at \in Name /\ retr[r].width \in Name /\ retr[r].width \in Widths
    BY TypedParts DEF Retrieval, Name
  <2> QED BY <1>1, <2>1, MadeHolds DEF Ensure, Switches, Holds
<1>2. CASE MakesNone
  <2>1. CASE coll' = coll
    BY <2>1 DEF Holds
  <2>2. ASSUME NEW m \in Name, NEW e \in Docs, Rewritten(coll', m, e, None)
        PROVE  Holds(n, d)' \in {Holds(n, d), None}
    BY <2>2 DEF Rewritten, Holds
  <2>3. ASSUME NEW m \in Name, NEW e \in Docs, Rewritten(coll', m, e, row[e]),
               Live(e), row' = row, ~HalfDeleted
        PROVE  \/ Holds(n, d)' \in {Holds(n, d), None}
               \/ Live(d) /\ row'[d] = row[d] /\ ~HalfDeleted
    BY <2>3 DEF Rewritten, Holds
  <2> QED BY <1>2, <2>1, <2>2, <2>3, StepRewrites
<1> QED BY <1>1, <1>2 DEF MakesNone

LEMMA RowChange ==
  ASSUME Typed, [Next]_vars, NEW d \in Docs
  PROVE  /\ row'[d] = "unknown" => row[d] = "unknown"
         /\ row'[d] = "deleted" => row[d] = "deleted" \/ (Forgets /\ d = ask.doc)
<1>0. row \in [Docs -> Recorded] /\ ask \in {None} \cup Question /\ Asking
  BY TypedParts
<1>1. CASE row' = row
  BY <1>1
<1>2. ASSUME NEW r \in Retriever, Adopts(r) \/ Backfills(r)
      PROVE  row'[d] = row[d] \/ row'[d] = "recovered"
  BY <1>2 DEF Adopts, Backfills, Adoption
<1>3. CASE Saves
  <2>1. ask \in Question /\ ask.text \in Upload
    BY <1>0, <1>3 DEF Saves, Asked, Asking
  <2>2. row'[d] = row[d] \/ row'[d] = ask.text
    BY <1>0, <1>3 DEF Saves
  <2> QED BY <2>1, <2>2, TextsAreLive
<1>4. CASE Forgets
  <2>1. \/ row'[d] = row[d]
        \/ d = ask.doc /\ row'[d] = IF row[d] = "unknown" THEN row[d] ELSE "deleted"
    BY <1>0, <1>4 DEF Forgets
  <2> QED BY <1>4, <2>1
<1> QED
  BY <1>1, <1>2, <1>3, <1>4
     DEF Next, Pass, Answers, vars, Begins, Ensure, EnsureUnread, Switches, Surveys, Repairs,
         Refused, Repaired, Fails, Swaps, Reload, Asks, Indexes, Unindexes, GoesDown, ComesBack,
         Crash

-----------------------------------------------------------------------------
(* Adoption.  As long as a document is known to an old index alone, there is no *)
(* other collection and nobody is about to make one.                            *)

Adopted == \A d \in Docs, n \in Name : row[d] = "unknown" => Holds(n, d) = None
Early ==
  /\ \A w \in Widths : ~Exists(w)
  /\ \A w \in Widths, d \in Docs : row[d] = "unknown" => Holds(w, d) = None
  /\ \A r \in Retriever : retr[r].at = "base" /\ retr[r].step # "switch"
Adopting == Adopted \/ Early

LEMMA AdoptingInit == Init => Adopting
<1> SUFFICES ASSUME Init PROVE Early
  BY DEF Adopting
<1>1. \A w \in Widths : coll[w].width = None /\ \A d \in Docs : Holds(w, d) = None
  BY CorpusAssumption DEF Init, Name, Holds
<1>2. \A r \in Retriever : retr[r] = Fresh(First) \/ retr[r] = Off
  BY DEF Init, Retriever
<1> QED BY <1>1, <1>2, FreshStart DEF Early, Exists

LEMMA AdoptedNext ==
  ASSUME Typed, Uploaded, Adopted, [Next]_vars
  PROVE  Adopted'
<1> SUFFICES ASSUME NEW d \in Docs, NEW n \in Name, row'[d] = "unknown"
             PROVE  Holds(n, d)' = None
  BY DEF Adopted
<1>1. row[d] = "unknown" /\ Holds(n, d) = None
  BY RowChange DEF Adopted
<1> QED BY <1>1, HoldsChange DEF Live

\* The steps that make no collection leave a retriever where it is.
LEMMA EarlyKept ==
  ASSUME Typed, Uploaded, Early, [Next]_vars,
         \A n \in Name : coll'[n].width = coll[n].width,
         \A r \in Retriever : retr'[r].at = "base" /\ retr'[r].step # "switch"
  PROVE  Early'
<1>1. \A w \in Widths : ~Exists(w)'
  BY DEF Early, Exists, Name
<1>2. ASSUME NEW w \in Widths, NEW d \in Docs, row'[d] = "unknown"
      PROVE  Holds(w, d)' = None
  <2>1. row[d] = "unknown" /\ Holds(w, d) = None /\ w \in Name
    BY <1>2, RowChange DEF Early, Name
  <2> QED BY <2>1, HoldsChange DEF Live
<1> QED BY <1>1, <1>2 DEF Early

LEMMA EarlyNext == Typed /\ Uploaded /\ Early /\ [Next]_vars => Adopting'
<1> SUFFICES ASSUME Typed, Uploaded, Early, [Next]_vars PROVE Adopting'
  OBVIOUS
<1>0. /\ retr \in [Retriever -> Retrieval] /\ coll \in [Name -> Collection]
      /\ inforce \in Retriever /\ ask \in {None} \cup Question
  BY TypedParts
<1>1. \A r \in Retriever : /\ retr[r].at = "base" /\ retr[r].at \in Name
                           /\ retr[r].width \in Widths /\ retr[r].todo \subseteq Docs
                           /\ retr[r].step # "switch"
  BY <1>0 DEF Early, Retrieval
<1>2. CASE Begins
  <2>1. \A r \in Retriever : retr'[r].at = "base" /\ retr'[r].step # "switch"
    BY <1>0, <1>1, <1>2 DEF Begins, Goes, Retrieval
  <2> QED BY <1>2, <2>1, EarlyKept DEF Begins, Adopting
<1>3. ASSUME NEW r \in Retriever, Ensure(r)
      PROVE  Adopting'
  <2>1. ~Exists(retr[r].width)
    BY <1>1 DEF Early
  <2>2. \A s \in Retriever : retr'[s].at = "base" /\ retr'[s].step # "switch"
    BY <1>0, <1>1, <1>3, <2>1 DEF Ensure, Started, Goes, Retrieval
  <2>3. \A w \in Widths : coll'[w] = coll[w]
    BY <1>0, <1>1, <1>3, CorpusAssumption DEF Ensure, Made, Name
  <2>4. row' = row
    BY <1>3 DEF Ensure
  <2>5. Early'
    BY <2>2, <2>3, <2>4 DEF Early, Exists, Holds
  <2> QED BY <2>5 DEF Adopting
<1>4. ASSUME NEW r \in Retriever, Adopts(r) \/ Backfills(r)
      PROVE  Adopting'
  <2>1. Adoption("base") /\ coll' = coll
    BY <1>1, <1>4 DEF Adopts, Backfills
  <2>2. ASSUME NEW d \in Docs, NEW n \in Name, row'[d] = "unknown"
        PROVE  Holds(n, d)' = None
    <3>1. row[d] = "unknown" /\ Holds("base", d) = None
      BY <2>1, <2>2 DEF Adoption
    <3> QED BY <2>1, <3>1 DEF Early, Name, Holds
  <2> QED BY <2>2 DEF Adopting, Adopted
<1>5. ASSUME NEW r \in Retriever
      PROVE  ~Switches(r)
  BY <1>1 DEF Switches
<1>6. ASSUME NEW r \in Retriever, Surveys(r)
      PROVE  Adopting'
  <2>1. \A s \in Retriever : retr'[s].at = "base" /\ retr'[s].step # "switch"
    BY <1>0, <1>1, <1>6 DEF Surveys, Retrieval
  <2> QED BY <1>6, <2>1, EarlyKept DEF Surveys, Adopting
<1>7. ASSUME NEW r \in Retriever, NEW d \in Docs, Repairs(r, d)
      PROVE  MakesNone => Adopting'
  <2>1. \A s \in Retriever : retr'[s].at = "base" /\ retr'[s].step # "switch"
    BY <1>0, <1>1, <1>7 DEF Repairs, Retrieval
  <2> QED BY <2>1, WidthsStay, EarlyKept DEF Adopting
<1>8. ASSUME NEW r \in Retriever, Repaired(r) \/ Swaps(r)
      PROVE  Adopting'
  <2>1. \A s \in Retriever : retr'[s].at = "base" /\ retr'[s].step # "switch"
    BY <1>0, <1>1, <1>8 DEF Repaired, Swaps, Retrieval
  <2> QED BY <1>8, <2>1, EarlyKept DEF Repaired, Swaps, Adopting
<1>9. ASSUME NEW r \in Retriever, Fails(r) \/ \E d \in Docs : Refused(r, d)
      PROVE  MakesNone => Adopting'
  <2>1. Ends(r)
    BY <1>9, Ending
  <2>2. CASE r # inforce
    <3>1. \A s \in Retriever : retr'[s].at = "base" /\ retr'[s].step # "switch"
      BY <1>1, <2>1, <2>2, EndsKeeps, FreshStart
    <3> QED BY <3>1, WidthsStay, EarlyKept DEF Adopting
  <2>3. CASE r = inforce
    <3>1. \A s \in Retriever : retr'[s].at = "base" /\ retr'[s].step # "switch"
      BY <1>1, <2>1, <2>3, EndsKeeps
    <3> QED BY <3>1, WidthsStay, EarlyKept DEF Adopting
  <2> QED BY <2>2, <2>3
<1>10. ASSUME NEW w \in Widths, Reload(w)
       PROVE  Adopting'
  <2>1. \A s \in Retriever : retr'[s] = retr[s] \/ retr'[s] = Fresh(w)
    BY <1>0, <1>10, OtherIsOther DEF Reload
  <2> QED BY <1>1, <1>10, <2>1, FreshStart, EarlyKept DEF Reload, Adopting
<1>11. ASSUME Answers
       PROVE  MakesNone => Adopting'
  <2>1. retr' = retr
    BY <1>11 DEF Answers, Saves, Indexes, Unindexes, Forgets
  <2> QED BY <1>1, <2>1, WidthsStay, EarlyKept DEF Adopting
<1>12. CASE retr' = retr /\ coll' = coll
  BY <1>1, <1>12, EarlyKept DEF Adopting
<1>13. ASSUME Crash
       PROVE  MakesNone => Adopting'
  <2>1. \A s \in Retriever : retr'[s] = Fresh(saved) \/ retr'[s] = Off
    BY <1>13 DEF Crash, Retriever
  <2>2. \A s \in Retriever : retr'[s].at = "base" /\ retr'[s].step # "switch"
    BY <2>1, FreshStart
  <2> QED BY <2>2, WidthsStay, EarlyKept DEF Adopting
<1>14. ASSUME NEW r \in Retriever, EnsureUnread(r)
       PROVE  Adopting'
  <2>1. \A s \in Retriever : retr'[s].at = "base" /\ retr'[s].step # "switch"
    BY <1>0, <1>1, <1>14 DEF EnsureUnread, Retrieval
  <2> QED BY <1>14, <2>1, EarlyKept DEF EnsureUnread, Adopting
<1>15. CASE ~MakesNone
  BY <1>3, <1>5, <1>15 DEF MakesNone
<1> QED
  BY <1>2, <1>3, <1>4, <1>5, <1>6, <1>7, <1>8, <1>9, <1>10, <1>11, <1>12, <1>13, <1>14,
     <1>15
     DEF Next, Pass, vars, Asks, GoesDown, ComesBack

\* Only what the first collection holds may be known to no database, and no other
\* collection is made before it has been adopted, wherever the move breaks off.
THEOREM NothingIsStranded == Spec => []NothingStranded
<1>1. Typed /\ Uploaded /\ Adopting /\ [Next]_vars => Adopting'
  BY AdoptedNext, EarlyNext DEF Adopting
<1>2. Typed /\ Adopting => NothingStranded
  BY DEF Adopting, Adopted, Early, NothingStranded, Name
<1> QED
  BY <1>1, <1>2, AdoptingInit, UploadedInit, UploadedNext, TypedAlways, PTL DEF Spec

\* So a move to another embedder, wherever it breaks off, leaves callers a collection
\* that can answer them, if its width could be read, and no document behind in another.
THEOREM CollectionsAreSound == Spec => []CollectionsSound
  BY WidthsAreServed, NothingIsStranded, PTL DEF CollectionsSound

-----------------------------------------------------------------------------
(* Withdrawal.  A retriever that has surveyed its collection knows of whatever was  *)
(* withdrawn before; what is withdrawn later is taken out of its collection first,  *)
(* or is noted as raced.                                                            *)

Reconciled(r) == retr[r].synced \/ retr[r].step = "repair"
Out(r) == \A d \in Docs \ (raced \cup retr[r].todo) :
            row[d] = "deleted" => Holds(retr[r].at, d) = None

Found == \A r \in Retriever :
  retr[r].synced \/ retr[r].step \in {"backfill", "survey", "repair"} => retr[r].ready
Purged == \A r \in Retriever : r \in {inforce, next} /\ Reconciled(r) => Out(r)
Halved ==
  HalfDeleted =>
    (retr[ask.to].synced \/ retr[ask.to].step \in {"survey", "repair"}
       => Holds(retr[ask.to].at, ask.doc) = None)
Withdrawing == Found /\ Purged /\ Halved

WithdrawalInv == Typed /\ Uploaded /\ Fitting /\ Withdrawing

LEMMA WithdrawingInit == Init => Withdrawing
<1> SUFFICES ASSUME Init PROVE Withdrawing
  OBVIOUS
<1>1. \A r \in Retriever : retr[r] = Fresh(First) \/ retr[r] = Off
  BY DEF Init, Retriever
<1>2. Found /\ Purged
  BY <1>1, FreshStart DEF Found, Purged, Reconciled
<1>3. Halved
  BY DEF Init, Halved, HalfDeleted
<1> QED BY <1>2, <1>3 DEF Withdrawing

\* A retriever that stays reconciled where it is has what was withdrawn out of its
\* collection, but for what becomes raced or was in its list.
LEMMA OutKept ==
  ASSUME WithdrawalInv, [Next]_vars, ~Forgets, NEW r \in Retriever, Out(r),
         retr'[r].at = retr[r].at,
         raced \cup retr[r].todo \subseteq raced' \cup retr'[r].todo
  PROVE  Out(r)'
<1> SUFFICES ASSUME NEW d \in Docs, d \notin raced' \cup retr'[r].todo, row'[d] = "deleted"
             PROVE  coll'[retr'[r].at].holds[d] = None
  BY DEF Out, Holds
<1>1. row[d] = "deleted"
  BY RowChange DEF WithdrawalInv
<1>2. Holds(retr[r].at, d) = None
  BY <1>1 DEF Out
<1>3. retr[r].at \in Name
  BY TypedParts DEF WithdrawalInv, Retrieval
<1>5. ~Live(d)
  BY <1>1 DEF Live
<1>6. \A n \in Name : Holds(n, d)' \in {Holds(n, d), None}
  BY <1>5, HoldsChange DEF WithdrawalInv
<1>7. \A n \in Name : coll'[n].holds[d] \in {coll[n].holds[d], None}
  BY <1>6 DEF Holds
<1> QED BY <1>2, <1>3, <1>7 DEF Holds

\* While a delete is half done, nothing is put where it has begun.
LEMMA HalvedKept ==
  ASSUME WithdrawalInv, [Next]_vars, ask' = ask,
         HalfDeleted =>
           \/ retr'[ask.to].at = retr[ask.to].at
              /\ (retr'[ask.to].synced \/ retr'[ask.to].step \in {"survey", "repair"}
                    => retr[ask.to].synced \/ retr[ask.to].step \in {"survey", "repair"})
           \/ ~retr'[ask.to].synced /\ retr'[ask.to].step \notin {"survey", "repair"}
  PROVE  Halved'
<1> SUFFICES ASSUME HalfDeleted, 
                    retr'[ask.to].synced \/ retr'[ask.to].step \in {"survey", "repair"}
             PROVE  coll'[retr'[ask.to].at].holds[ask.doc] = None
  BY DEF Halved, HalfDeleted, Holds
<1>1. ask \in Question
  BY TypedParts DEF WithdrawalInv, HalfDeleted
<1>2. retr[ask.to].at \in Name /\ ask.doc \in Docs
  BY <1>1, TypedParts DEF WithdrawalInv, Question, Retrieval
<1>3. retr'[ask.to].at = retr[ask.to].at /\ coll[retr[ask.to].at].holds[ask.doc] = None
  BY DEF WithdrawalInv, Withdrawing, Halved, Holds
<1>4. \A n \in Name : Holds(n, ask.doc)' \in {Holds(n, ask.doc), None}
  <2>1. ASSUME NEW n \in Name, NEW d \in Docs
        PROVE  Holds(n, d)' \in {Holds(n, d), None}
    BY HoldsChange DEF WithdrawalInv
  <2>2. \A n \in Name, d \in Docs : coll'[n].holds[d] \in {coll[n].holds[d], None}
    BY <2>1 DEF Holds
  <2> QED BY <1>2, <2>2 DEF Holds
<1>5. \A n \in Name : coll'[n].holds[ask.doc] \in {coll[n].holds[ask.doc], None}
  BY <1>4 DEF Holds
<1> QED BY <1>2, <1>3, <1>5

LEMMA WithdrawingNext == WithdrawalInv /\ [Next]_vars => Withdrawing'
<1> SUFFICES ASSUME WithdrawalInv, [Next]_vars PROVE Withdrawing'
  OBVIOUS
<1>0. /\ retr \in [Retriever -> Retrieval] /\ coll \in [Name -> Collection]
      /\ inforce \in Retriever /\ next \in Retriever \cup {None}
      /\ ask \in {None} \cup Question /\ raced \subseteq Docs
      /\ Typed /\ Found /\ Purged /\ Halved
  BY TypedParts DEF WithdrawalInv, Withdrawing
<1>1. ASSUME NEW r \in Retriever
      PROVE  /\ retr[r].at \in Name /\ retr[r].width \in Widths /\ retr[r].todo \subseteq Docs
             /\ retr[r].synced => retr[r].ready
             /\ retr[r].ready => retr[r].step \notin Looking
  BY <1>0 DEF Found, WithdrawalInv, Fitting, Retrieval
\* Where no delete is finished, a retriever that was reconciled stays so in place, or
\* is not reconciled any more, or is found to be.
<1>2. ASSUME ~Forgets,
             \A r \in Retriever : r \in {inforce', next'} /\ Reconciled(r)' =>
               \/ /\ r \in {inforce, next} /\ Reconciled(r)
                  /\ retr'[r].at = retr[r].at
                  /\ raced \cup retr[r].todo \subseteq raced' \cup retr'[r].todo
               \/ Out(r)'
      PROVE  Purged'
  BY <1>0, <1>2, OutKept DEF Purged
<1>3. ASSUME ~Forgets, inforce' = inforce, next' = next, raced' = raced,
             \A r \in Retriever : retr'[r] = retr[r]
      PROVE  Purged'
  BY <1>2, <1>3 DEF Reconciled
<1>4. CASE Begins
  <2>1. \A r \in Retriever :
          /\ retr'[r].at = retr[r].at /\ retr'[r].todo = retr[r].todo
          /\ retr'[r].synced = retr[r].synced /\ retr'[r].ready = retr[r].ready
          /\ \/ retr'[r].step = retr[r].step
             \/ retr'[r].step = "ensure" /\ ~retr[r].ready
             \/ retr'[r].step = "backfill" /\ retr[r].ready
    BY <1>0, <1>4 DEF Begins, Goes, Retrieval
  <2>2. Found'
    BY <1>0, <2>1 DEF Found
  <2>3. Purged'
    <3>1. inforce' = inforce /\ next' = next /\ raced' = raced /\ ask' = ask
      BY <1>4 DEF Begins
    <3>2. ~Forgets
      BY <3>1 DEF Forgets, Asked
    <3> QED BY <1>2, <2>1, <3>1, <3>2 DEF Reconciled
  <2>4. Halved'
    BY <1>0, <1>4, <2>1, HalvedKept DEF Begins, Question, HalfDeleted
  <2> QED BY <2>2, <2>3, <2>4 DEF Withdrawing
<1>5. ASSUME NEW r \in Retriever, Ensure(r) \/ EnsureUnread(r) \/ Switches(r)
      PROVE  Withdrawing'
  <2>1. ~retr[r].ready /\ ~retr[r].synced
    BY <1>1, <1>5 DEF Ensure, EnsureUnread, Switches, Looking
  <2>2. \A s \in Retriever : s # r => retr'[s] = retr[s]
    BY <1>0, <1>5 DEF Ensure, EnsureUnread, Switches, Started, Goes
  <2>3. /\ ~retr'[r].synced /\ retr'[r].step \in {"backfill", "adopt"}
        /\ retr'[r].step = "backfill" => retr'[r].ready
    BY <1>0, <1>5, <2>1 DEF Ensure, EnsureUnread, Switches, Started, Goes, Retrieval
  <2>4. /\ inforce' = inforce /\ next' = next /\ raced' = raced /\ ask' = ask
    BY <1>5 DEF Ensure, EnsureUnread, Switches, Forgets, Asked
  <2>5. ~Forgets
    BY <2>4 DEF Forgets, Asked
  <2>6. Found'
    BY <1>0, <2>2, <2>3 DEF Found
  <2>7. Purged'
    BY <1>2, <2>2, <2>3, <2>4, <2>5 DEF Reconciled
  <2>8. Halved'
    BY <1>0, <2>2, <2>3, <2>4, HalvedKept DEF Question, HalfDeleted
  <2> QED BY <2>6, <2>7, <2>8 DEF Withdrawing
<1>6. ASSUME NEW r \in Retriever, Adopts(r) \/ Backfills(r)
      PROVE  Withdrawing'
  <2>1. \A s \in Retriever : s # r => retr'[s] = retr[s]
    BY <1>0, <1>6 DEF Adopts, Backfills, Goes
  <2>2. /\ retr'[r].at = retr[r].at /\ retr'[r].todo = retr[r].todo
        /\ retr'[r].synced = retr[r].synced /\ retr'[r].ready = retr[r].ready
        /\ \/ retr'[r].step = "switch"
           \/ retr[r].step = "backfill" /\ retr'[r].step = "survey"
    BY <1>0, <1>6 DEF Adopts, Backfills, Goes, Retrieval
  <2>3. /\ inforce' = inforce /\ next' = next /\ raced' = raced /\ ask' = ask /\ ~HalfDeleted
    BY <1>6 DEF Adopts, Backfills, Unlocked, HalfDeleted
  <2>4. ~Forgets
    BY <2>3 DEF Forgets, Asked, HalfDeleted
  <2>5. Found'
    BY <1>0, <2>1, <2>2 DEF Found
  <2>6. Purged'
    BY <1>2, <2>1, <2>2, <2>3, <2>4 DEF Reconciled
  <2>7. Halved'
    BY <2>3 DEF Halved, HalfDeleted
  <2> QED BY <2>5, <2>6, <2>7 DEF Withdrawing
<1>7. ASSUME NEW r \in Retriever, Surveys(r)
      PROVE  Withdrawing'
  <2>1. \A s \in Retriever : s # r => retr'[s] = retr[s]
    BY <1>0, <1>7 DEF Surveys
  <2>2. /\ retr'[r].at = retr[r].at /\ retr'[r].synced = retr[r].synced
        /\ retr'[r].ready = retr[r].ready
        /\ retr[r].step = "survey" /\ retr'[r].step = "repair"
        /\ retr'[r].todo = {d \in Docs : Stale(retr[r].at, d)}
    BY <1>0, <1>7 DEF Surveys, Retrieval
  <2>3. /\ inforce' = inforce /\ next' = next /\ ask' = ask /\ row' = row /\ coll' = coll
        /\ raced' = raced \/ (r = inforce /\ next = None)
    BY <1>7 DEF Surveys
  <2>4. ~Forgets
    BY <1>7 DEF Surveys, Forgets, Asked, vars
  <2>5. Found'
    BY <1>0, <2>1, <2>2 DEF Found
  <2>6. Out(r)'
    BY <2>2, <2>3 DEF Out, Stale, Holds
  <2>7. Purged'
    <3>1. CASE raced' = raced
      BY <1>2, <2>1, <2>3, <2>4, <2>6, <3>1 DEF Reconciled
    <3>2. CASE r = inforce /\ next = None
      BY <2>3, <2>6, <3>2, CorpusAssumption DEF Purged
    <3> QED BY <2>3, <3>1, <3>2
  <2>8. Halved'
    BY <1>0, <2>1, <2>2, <2>3, HalvedKept DEF Question, HalfDeleted
  <2> QED BY <2>5, <2>7, <2>8 DEF Withdrawing
<1>8. ASSUME NEW r \in Retriever, NEW d \in Docs, Repairs(r, d)
      PROVE  Withdrawing'
  <2>1. \A s \in Retriever : s # r => retr'[s] = retr[s]
    BY <1>0, <1>8 DEF Repairs
  <2>2. /\ retr'[r].at = retr[r].at /\ retr'[r].synced = retr[r].synced
        /\ retr'[r].ready = retr[r].ready /\ retr[r].step = "repair"
        /\ retr'[r].step = retr[r].step /\ retr'[r].todo = retr[r].todo \ {d}
    BY <1>0, <1>8 DEF Repairs, Retrieval
  <2>3. /\ inforce' = inforce /\ next' = next /\ ask' = ask /\ row' = row /\ raced' = raced
        /\ ~HalfDeleted
    BY <1>8 DEF Repairs, Unlocked, HalfDeleted
  <2>4. ~Forgets
    BY <2>3 DEF Forgets, Asked, HalfDeleted
  <2>5. Found'
    BY <1>0, <2>1, <2>2 DEF Found
  <2>6. ASSUME r \in {inforce, next}
        PROVE  Out(r)'
    <3> SUFFICES ASSUME NEW e \in Docs, e \notin raced \cup (retr[r].todo \ {d}), row[e] = "deleted"
                 PROVE  coll'[retr[r].at].holds[e] = None
      BY <2>2, <2>3 DEF Out, Holds
    <3>1. CASE e = d
      <4>1. coll' = Cleared(retr[r].at, d)
        BY <1>8, <3>1 DEF Repairs, Live
      <4> QED BY <1>0, <1>1, <3>1, <4>1, ClearedRewrites
    <3>2. CASE e # d
      <4>1. Holds(retr[r].at, e) = None
        BY <1>0, <2>2, <2>6, <3>2 DEF Purged, Reconciled, Out
      <4>2. ~Live(e)
        BY DEF Live
      <4>3. Holds(retr[r].at, e)' \in {Holds(retr[r].at, e), None}
        <5>1. ASSUME NEW n \in Name
              PROVE  Holds(n, e)' \in {Holds(n, e), None}
          BY <4>2, HoldsChange DEF WithdrawalInv
        <5>2. \A n \in Name : coll'[n].holds[e] \in {coll[n].holds[e], None}
          BY <5>1 DEF Holds
        <5> QED BY <1>1, <2>2, <5>2 DEF Holds
      <4> QED BY <2>2, <4>1, <4>3 DEF Holds
    <3> QED BY <3>1, <3>2
  <2>7. Purged'
    BY <1>2, <2>1, <2>3, <2>4, <2>6 DEF Reconciled
  <2>8. Halved'
    BY <2>3 DEF Halved, HalfDeleted
  <2> QED BY <2>5, <2>7, <2>8 DEF Withdrawing
<1>9. ASSUME NEW r \in Retriever, Repaired(r)
      PROVE  Withdrawing'
  <2>1. \A s \in Retriever : s # r => retr'[s] = retr[s]
    BY <1>0, <1>9 DEF Repaired
  <2>2. /\ retr'[r].at = retr[r].at /\ retr'[r].todo = retr[r].todo
        /\ retr'[r].ready = retr[r].ready /\ retr[r].step = "repair"
        /\ retr'[r].step \in {"idle", "off"}
    BY <1>0, <1>9 DEF Repaired, Done, Retrieval
  <2>3. inforce' = inforce /\ next' = next /\ ask' = ask /\ raced' = raced
    BY <1>9 DEF Repaired
  <2>4. ~Forgets
    BY <2>3 DEF Forgets, Asked
  <2>5. Found'
    BY <1>0, <2>1, <2>2 DEF Found
  <2>6. Purged'
    BY <1>2, <2>1, <2>2, <2>3, <2>4 DEF Reconciled
  <2>7. Halved'
    BY <1>0, <2>1, <2>2, <2>3, HalvedKept DEF Question, HalfDeleted
  <2> QED BY <2>5, <2>6, <2>7 DEF Withdrawing
<1>10. ASSUME NEW r \in Retriever, Fails(r) \/ \E d \in Docs : Refused(r, d)
       PROVE  Withdrawing'
  <2>0. Ends(r)
    BY <1>10, Ending
  <2>1. \A s \in Retriever : s # r => retr'[s] = retr[s]
    BY <1>0, <2>0, EndsKeeps DEF WithdrawalInv
  <2>2. inforce' = inforce /\ ask' = ask /\ next' \in {next, None} /\ raced \subseteq raced'
    BY <1>10, <2>0, Ending DEF Ends
  <2>3. ~Forgets
    BY <2>2 DEF Forgets, Asked
  <2>4. CASE r = inforce
    <3>1. /\ retr'[r].synced = retr[r].synced /\ retr'[r].ready = retr[r].ready
          /\ retr'[r].step = "idle"
          /\ retr[r].step # "switch" => retr'[r].at = retr[r].at
          /\ raced' = raced \cup retr[r].todo
      BY <2>0, <2>4, EndsKeeps DEF Ends, WithdrawalInv
    <3>2. retr[r].synced => retr[r].step # "switch"
      BY <1>1 DEF Looking
    <3>3. Found'
      BY <1>0, <2>1, <3>1 DEF Found
    <3>4. Purged'
      BY <1>2, <2>1, <2>2, <2>3, <3>1, <3>2, CorpusAssumption DEF Reconciled
    <3>5. Halved'
      BY <1>0, <2>1, <2>2, <3>1, <3>2, HalvedKept DEF Question, HalfDeleted
    <3> QED BY <3>3, <3>4, <3>5 DEF Withdrawing
  <2>5. CASE r # inforce
    <3>1. retr'[r] = Off /\ next' # r
      BY <1>0, <2>0, <2>5, EndsKeeps, CorpusAssumption DEF Ends, WithdrawalInv
    <3>2. Found'
      BY <1>0, <2>1, <3>1, FreshStart DEF Found
    <3>3. Purged'
      BY <1>2, <2>1, <2>2, <2>3, <2>5, <3>1, FreshStart, CorpusAssumption DEF Reconciled
    <3>4. Halved'
      BY <1>0, <2>1, <2>2, <3>1, FreshStart, HalvedKept DEF Question, HalfDeleted
    <3> QED BY <3>2, <3>3, <3>4 DEF Withdrawing
  <2> QED BY <2>4, <2>5
<1>11. ASSUME NEW r \in Retriever, Swaps(r)
       PROVE  Withdrawing'
  <2>1. /\ r = next /\ retr[r].step = "repair" /\ inforce' = r /\ next' = None
        /\ ask' = ask /\ raced' = raced
    BY <1>11 DEF Swaps, Done
  <2>2. \A s \in Retriever :
          /\ retr'[s].at = retr[s].at /\ retr'[s].todo = retr[s].todo
          /\ retr'[s].ready = retr[s].ready
    BY <1>0, <1>11 DEF Swaps, Retrieval
  <2>3. \A s \in Retriever : s # r =>
          /\ retr'[s].synced = retr[s].synced
          /\ retr'[s].step \in {retr[s].step, "off"}
    BY <1>0, <1>11 DEF Swaps, Retrieval
  <2>4. retr'[r].step \in {"idle", "off"}
    BY <1>0, <1>11 DEF Swaps, Retrieval
  <2>5. ~Forgets
    BY <2>1 DEF Forgets, Asked
  <2>6. Found'
    BY <1>0, <2>1, <2>2, <2>3, <2>4 DEF Found
  <2>7. Purged'
    BY <1>0, <1>2, <2>1, <2>2, <2>5, CorpusAssumption DEF Reconciled
  <2>8. Halved'
    BY <1>0, <2>1, <2>2, <2>3, <2>4, HalvedKept DEF Question, HalfDeleted
  <2> QED BY <2>6, <2>7, <2>8 DEF Withdrawing
<1>12. ASSUME NEW w \in Widths, Reload(w)
       PROVE  Withdrawing'
  <2>1. CASE w = retr[inforce].width
    <3>1. /\ retr' = retr /\ next' = next /\ inforce' = inforce /\ ask' = ask
          /\ raced' = raced /\ coll' = coll
      BY <1>12, <2>1 DEF Reload
    <3>2. ~Forgets
      BY <3>1 DEF Forgets, Asked
    <3> QED BY <1>0, <1>3, <3>1, <3>2 DEF Withdrawing, Found, Halved, HalfDeleted, Holds
  <2> SUFFICES ASSUME w # retr[inforce].width PROVE Withdrawing'
    BY <2>1
  <2>8. PICK r \in Retriever : /\ r = Other(inforce) /\ retr' = [retr EXCEPT ![r] = Fresh(w)]
                               /\ next' = r
    BY <1>0, <1>12, OtherIsOther DEF Reload
  <2>2. /\ retr'[r] = Fresh(w) /\ \A s \in Retriever : s # r => retr'[s] = retr[s]
    BY <1>0, <2>8
  <2>3. inforce' = inforce /\ ask' = ask /\ raced' = raced
    BY <1>12 DEF Reload
  <2>4. ~Forgets
    BY <2>3 DEF Forgets, Asked
  <2>5. Found'
    BY <1>0, <2>2, FreshStart DEF Found
  <2>6. Purged'
    BY <1>2, <2>8, <2>2, <2>3, <2>4, FreshStart DEF Reconciled
  <2>7. Halved'
    BY <1>0, <2>2, <2>3, FreshStart, HalvedKept DEF Question, HalfDeleted
  <2> QED BY <2>5, <2>6, <2>7 DEF Withdrawing
<1>13. ASSUME NEW k, NEW d \in Docs, NEW t, Asks(k, d, t)
       PROVE  Withdrawing'
  <2>1. /\ retr' = retr /\ inforce' = inforce /\ next' = next /\ raced' = raced /\ ask = None
        /\ ~ask'.half
    BY <1>13 DEF Asks
  <2>2. ~Forgets
    BY <2>1 DEF Forgets, Asked
  <2>3. Halved'
    BY <2>1 DEF Halved, HalfDeleted
  <2> QED BY <1>0, <1>3, <2>1, <2>2, <2>3 DEF Withdrawing, Found
<1>14. CASE Saves \/ Indexes
  <2>1. /\ retr' = retr /\ inforce' = inforce /\ next' = next /\ raced \subseteq raced'
        /\ ask # None /\ ask.kind = "upload"
    BY <1>14 DEF Saves, Indexes, Asked, Races
  <2>2. ~Forgets
    BY <2>1 DEF Forgets, Asked
  <2>3. Purged'
    BY <1>2, <2>1, <2>2 DEF Reconciled
  <2>4. ask' = None \/ ask'.kind = "upload"
    BY <1>0, <1>14, <2>1 DEF Saves, Indexes, Question
  <2>5. Halved'
    BY <2>4 DEF Halved, HalfDeleted
  <2> QED BY <1>0, <2>1, <2>3, <2>5 DEF Withdrawing, Found
<1>15. CASE Unindexes
  <2>1. /\ retr' = retr /\ inforce' = inforce /\ next' = next /\ raced \subseteq raced'
        /\ ask \in Question /\ ~ask.half
    BY <1>0, <1>15 DEF Unindexes, Asked, Races, Question
  <2>2. ~Forgets
    BY <2>1 DEF Forgets, Asked
  <2>3. Purged'
    BY <1>2, <2>1, <2>2 DEF Reconciled
  <2>4. Halved'
    <3>1. CASE ask' = None
      BY <3>1 DEF Halved, HalfDeleted
    <3>2. CASE ask' = [ask EXCEPT !.half = TRUE] /\ coll' = Cleared(retr[ask.to].at, ask.doc)
      <4>1. ask'.to = ask.to /\ ask'.doc = ask.doc /\ ask.doc \in Docs /\ ask.to \in Retriever
        BY <2>1, <3>2 DEF Question
      <4>2. coll'[retr[ask.to].at].holds[ask.doc] = None
        BY <1>0, <1>1, <3>2, <4>1, ClearedRewrites
      <4> QED BY <2>1, <4>1, <4>2 DEF Halved, Holds
    <3> QED BY <1>15, <3>1, <3>2 DEF Unindexes
  <2> QED BY <1>0, <2>1, <2>3, <2>4 DEF Withdrawing, Found
<1>16. CASE Forgets
  <2>1. /\ retr' = retr /\ coll' = coll /\ inforce' = inforce /\ next' = next /\ ask' = None
        /\ raced' = IF next # None \/ ask.to # inforce THEN raced \cup {ask.doc} ELSE raced
        /\ HalfDeleted /\ ask \in Question
    BY <1>0, <1>16 DEF Forgets, Races, Asked, HalfDeleted
  <2>2. ASSUME NEW r \in Retriever, r \in {inforce, next}, Reconciled(r),
               NEW d \in Docs, d \notin raced' \cup retr[r].todo, row'[d] = "deleted"
        PROVE  Holds(retr[r].at, d) = None
    <3>1. CASE row[d] = "deleted"
      BY <1>0, <2>1, <2>2, <3>1 DEF Purged, Out
    <3>2. CASE row[d] # "deleted"
      <4>1. d = ask.doc
        BY <1>0, <2>2, <3>2, RowChange
      <4>2. next = None /\ ask.to = inforce /\ r = inforce
        BY <1>0, <2>1, <2>2, <4>1, CorpusAssumption
      <4> QED BY <1>0, <2>1, <2>2, <4>1, <4>2 DEF Halved, Reconciled
    <3> QED BY <3>1, <3>2
  <2>3. Purged'
    BY <2>1, <2>2 DEF Purged, Reconciled, Out, Holds
  <2> QED BY <1>0, <2>1, <2>3 DEF Withdrawing, Found, Halved, HalfDeleted
<1>17. CASE GoesDown \/ ComesBack \/ UNCHANGED vars
  <2>1. /\ retr' = retr /\ inforce' = inforce /\ next' = next /\ raced' = raced
        /\ ask' = ask /\ coll' = coll
    BY <1>17 DEF GoesDown, ComesBack, vars, bounds
  <2>2. ~Forgets
    BY <2>1 DEF Forgets, Asked
  <2> QED BY <1>0, <1>3, <2>1, <2>2 DEF Withdrawing, Found, Halved, HalfDeleted, Holds
<1>18. CASE Crash
  <2>1. \A r \in Retriever : retr'[r] = Fresh(saved) \/ retr'[r] = Off
    BY <1>18 DEF Crash, Retriever
  <2>2. Found' /\ Purged'
    BY <2>1, FreshStart DEF Found, Purged, Reconciled
  <2>3. Halved'
    BY <1>18 DEF Crash, Halved, HalfDeleted
  <2> QED BY <2>2, <2>3 DEF Withdrawing
<1> QED
  BY <1>4, <1>5, <1>6, <1>7, <1>8, <1>9, <1>10, <1>11, <1>12, <1>13, <1>14, <1>15, <1>16, <1>17,
     <1>18 DEF Next, Pass, Answers

\* A withdrawn document is out of the index in force once that was reconciled, but for
\* those of the moves, for any documents and any number of moves, changes and troubles.
THEOREM WithdrawnFromCorpus == Spec => []WithdrawnIsOut
<1>1. Init => WithdrawalInv
  BY TypedInit, UploadedInit, FittingInit, WithdrawingInit DEF WithdrawalInv
<1>2. WithdrawalInv /\ [Next]_vars => WithdrawalInv'
  BY TypedNext, UploadedNext, FittingNext, WithdrawingNext DEF WithdrawalInv
<1>3. WithdrawalInv => WithdrawnIsOut
  BY TypedParts DEF WithdrawalInv, Withdrawing, Purged, Out, Reconciled, WithdrawnIsOut
<1> QED BY <1>1, <1>2, <1>3, PTL DEF Spec

-----------------------------------------------------------------------------
(* What the move leaves alone. *)

Filling == {"backfill", "survey", "repair"}

\* A retriever beside the one in force has another width for as long as it does
\* anything, and what fills its collection is ready.
Beside ==
  \A r \in Retriever :
    /\ r # inforce /\ retr[r].step # "off" => retr[r].width # retr[inforce].width
    /\ retr[r].step \in Filling => retr[r].ready

LEMMA BesideInit == Init => Beside
<1> SUFFICES ASSUME Init PROVE Beside
  OBVIOUS
<1>1. /\ retr["r1"] = Fresh(First) /\ retr["r2"] = Off /\ inforce = "r1"
      /\ Fresh(First).step = "ensure" /\ Off.step = "off"
  BY FreshStart DEF Init
<1> QED BY <1>1 DEF Beside, Retriever, Filling

\* What most steps do to each retriever: it keeps its width and does not begin, and what
\* fills its collection is ready; or it is gone.
Keeping(r) ==
  \/ retr'[r] = Off /\ r # inforce
  \/ /\ retr'[r].width = retr[r].width
     /\ r # inforce => (retr[r].step = "off" => retr'[r].step = "off")
     /\ retr'[r].step \in Filling => retr'[r].ready

LEMMA KeepingSame ==
  ASSUME Beside, NEW r \in Retriever, retr'[r] = retr[r]
  PROVE  Keeping(r)
BY DEF Beside, Keeping

LEMMA BesideKept ==
  ASSUME Beside, inforce \in Retriever, inforce' = inforce,
         \A r \in Retriever : Keeping(r)
  PROVE  Beside'
<1>1. Off.step = "off" /\ "off" \notin Filling
  BY FreshStart DEF Filling
<1>2. retr'[inforce'].width = retr[inforce].width
  BY DEF Beside, Keeping
<1>3. ASSUME NEW r \in Retriever
      PROVE  /\ r # inforce' /\ retr'[r].step # "off" => retr'[r].width # retr'[inforce'].width
             /\ retr'[r].step \in Filling => retr'[r].ready
  <2>1. CASE retr'[r] = Off /\ r # inforce
    <3>1. retr'[r].step = "off"
      BY <1>1, <2>1
    <3> QED BY <1>1, <3>1
  <2>2. CASE ~(retr'[r] = Off /\ r # inforce)
    <3>1. /\ retr'[r].width = retr[r].width
          /\ r # inforce => (retr[r].step = "off" => retr'[r].step = "off")
          /\ retr'[r].step \in Filling => retr'[r].ready
      BY <2>2 DEF Keeping
    <3>2. r # inforce /\ retr[r].step # "off" => retr[r].width # retr[inforce].width
      BY DEF Beside
    <3> QED BY <1>2, <3>1, <3>2
  <2> QED BY <2>1, <2>2
<1> QED BY <1>3 DEF Beside

LEMMA BesideNext == Typed /\ Beside /\ [Next]_vars => Beside'
<1> SUFFICES ASSUME Typed, Beside, [Next]_vars PROVE Beside'
  OBVIOUS
<1>0. /\ retr \in [Retriever -> Retrieval] /\ inforce \in Retriever
      /\ next \in Retriever \cup {None}
  BY TypedParts DEF Typed, TypeOK
<1>1. CASE \/ GoesDown \/ ComesBack \/ Answers \/ UNCHANGED vars
           \/ \E d \in Docs : Asks("delete", d, None)
           \/ \E d \in Docs, t \in Upload : Asks("upload", d, t)
  <2>1. UNCHANGED <<retr, inforce>>
    BY <1>1 DEF GoesDown, ComesBack, Answers, Saves, Indexes, Unindexes, Forgets, Asks, vars
  <2>2. \A s \in Retriever : Keeping(s)
    BY <2>1 DEF Keeping, Beside
  <2> QED BY <1>0, <2>1, <2>2, BesideKept
<1>2. CASE Begins
  <2>1. /\ inforce' = inforce /\ retr[inforce].step = "idle"
        /\ Goes(inforce, IF retr[inforce].ready THEN "backfill" ELSE "ensure")
    BY <1>2 DEF Begins
  <2>2. \A r \in Retriever : /\ retr'[r].width = retr[r].width /\ (retr'[r].ready <=> retr[r].ready)
                             /\ r # inforce => retr'[r].step = retr[r].step
    BY <1>0, <2>1 DEF Goes, Retrieval
  <2>3. retr'[inforce].step = IF retr[inforce].ready THEN "backfill" ELSE "ensure"
    BY <1>0, <2>1 DEF Goes, Retrieval
  <2>4. retr'[inforce].step \in Filling => retr'[inforce].ready
    <3>1. CASE retr[inforce].ready
      BY <1>0, <2>2, <3>1
    <3>2. CASE ~retr[inforce].ready
      BY <2>3, <3>2 DEF Filling
    <3> QED BY <3>1, <3>2
  <2>5. \A s \in Retriever : s # inforce => (retr'[s].step \in Filling => retr'[s].ready)
    BY <2>2 DEF Beside
  <2>6. \A s \in Retriever : Keeping(s)
    BY <2>2, <2>4, <2>5 DEF Keeping
  <2> QED BY <1>0, <2>1, <2>6, BesideKept
<1>3. ASSUME NEW r \in Retriever, NEW n, retr[r].step # "off", Started(r, n), inforce' = inforce
      PROVE  Beside'
  <2>1. \A s \in Retriever : /\ retr'[s].width = retr[s].width
                             /\ s # r => retr'[s] = retr[s]
                             /\ retr'[r].ready /\ retr'[r].step # "off"
    BY <1>0, <1>3 DEF Started, Retrieval
  <2>2. \A s \in Retriever : Keeping(s)
    <3>1. Keeping(r)
      BY <1>3, <2>1 DEF Keeping
    <3> QED BY <2>1, <3>1, KeepingSame
  <2> QED BY <1>0, <1>3, <2>2, BesideKept
<1>4. ASSUME NEW r \in Retriever, NEW p \in {"adopt", "switch", "survey"}, retr[r].step # "off", Goes(r, p),
             p = "survey" => retr[r].step = "backfill", inforce' = inforce
      PROVE  Beside'
  <2>1. \A s \in Retriever : /\ retr'[s].width = retr[s].width
                             /\ s # r => retr'[s] = retr[s]
                             /\ (retr'[r].ready <=> retr[r].ready) /\ retr'[r].step = p
    BY <1>0, <1>4 DEF Goes, Retrieval
  <2>2. p = "survey" => retr[r].ready
    BY <1>4 DEF Beside, Filling
  <2>3. retr'[r].step \in Filling => retr'[r].ready
    <3>1. CASE p = "survey"
      BY <2>1, <2>2, <3>1
    <3>2. CASE p # "survey"
      <4>1. p \notin Filling
        BY <1>4, <3>2 DEF Filling
      <4> QED BY <2>1, <4>1
    <3> QED BY <3>1, <3>2
  <2>4. \A s \in Retriever : Keeping(s)
    <3>1. Keeping(r)
      BY <1>4, <2>1, <2>3 DEF Keeping
    <3> QED BY <2>1, <3>1, KeepingSame
  <2> QED BY <1>0, <1>4, <2>4, BesideKept
<1>5. ASSUME NEW r \in Retriever, Ensure(r) \/ Switches(r) \/ Adopts(r) \/ Backfills(r)
      PROVE  Beside'
  <2>1. CASE Ensure(r)
    <3>1. /\ retr[r].step # "off" /\ inforce' = inforce
          /\ (\E n : Started(r, n)) \/ Goes(r, "adopt")
      BY <2>1 DEF Ensure
    <3> QED BY <1>3, <1>4, <3>1
  <2>2. CASE Switches(r)
    BY <1>3, <2>2 DEF Switches
  <2>3. CASE Adopts(r)
    <3>1. retr[r].step # "off" /\ Goes(r, "switch") /\ inforce' = inforce
      BY <2>3 DEF Adopts
    <3> QED BY <1>4, <3>1
  <2>4. CASE Backfills(r)
    <3>1. retr[r].step = "backfill" /\ Goes(r, "survey") /\ inforce' = inforce
      BY <2>4 DEF Backfills
    <3> QED BY <1>4, <3>1
  <2> QED BY <1>5, <2>1, <2>2, <2>3, <2>4
<1>6. ASSUME NEW r \in Retriever, Surveys(r) \/ \E d \in Docs : Repairs(r, d)
      PROVE  Beside'
  <2>1. retr[r].step \in {"survey", "repair"} /\ inforce' = inforce
    BY <1>6 DEF Surveys, Repairs
  <2>2. \A s \in Retriever : /\ retr'[s].width = retr[s].width
                             /\ s # r => retr'[s] = retr[s]
                             /\ (retr'[r].ready <=> retr[r].ready) /\ retr'[r].step = "repair"
    BY <1>0, <1>6 DEF Surveys, Repairs, Retrieval
  <2>3. retr[r].ready
    BY <2>1 DEF Beside, Filling
  <2>4. \A s \in Retriever : Keeping(s)
    <3>1. Keeping(r)
      BY <2>1, <2>2, <2>3 DEF Keeping
    <3> QED BY <2>2, <3>1, KeepingSame
  <2> QED BY <1>0, <2>1, <2>4, BesideKept
<1>7. ASSUME NEW r \in Retriever, Repaired(r)
      PROVE  Beside'
  <2>1. retr[r].step = "repair" /\ inforce' = inforce
    BY <1>7 DEF Repaired, Done
  <2>2. \A s \in Retriever : /\ retr'[s].width = retr[s].width
                             /\ s # r => retr'[s] = retr[s]
                             /\ retr'[r].step \notin Filling
    BY <1>0, <1>7 DEF Repaired, Retrieval, Filling
  <2>3. \A s \in Retriever : Keeping(s)
    <3>1. Keeping(r)
      BY <2>1, <2>2 DEF Keeping
    <3> QED BY <2>2, <3>1, KeepingSame
  <2> QED BY <1>0, <2>1, <2>3, BesideKept
<1>8. ASSUME NEW r \in Retriever, Fails(r) \/ \E d \in Docs : Refused(r, d)
      PROVE  Beside'
  <2>1. Ends(r) /\ retr[r].step # "off" /\ inforce' = inforce
    BY <1>8, Ending
  <2>2. \A s \in Retriever : s # r => retr'[s] = retr[s]
    BY <2>1, EndsKeeps
  <2>3. CASE r # inforce
    <3>1. Keeping(r)
      BY <2>1, <2>3, EndsKeeps DEF Keeping
    <3>2. \A s \in Retriever : Keeping(s)
      BY <2>2, <3>1, KeepingSame
    <3> QED BY <1>0, <2>1, <3>2, BesideKept
  <2>4. CASE r = inforce
    <3>1. retr'[r].width = retr[r].width /\ retr'[r].step = "idle"
      BY <2>1, <2>4, EndsKeeps
    <3>2. Keeping(r)
      BY <2>4, <3>1 DEF Keeping, Filling
    <3>3. \A s \in Retriever : Keeping(s)
      BY <2>2, <3>2, KeepingSame
    <3> QED BY <1>0, <2>1, <3>3, BesideKept
  <2> QED BY <2>3, <2>4
<1>9. ASSUME NEW r \in Retriever, Swaps(r)
      PROVE  Beside'
  <2>1. /\ retr[r].step = "repair" /\ inforce' = r
        /\ retr' = [retr EXCEPT
             ![r].step = "idle", ![r].synced = TRUE,
             ![inforce].step = IF @ = "idle" THEN "off" ELSE @]
    BY <1>9 DEF Swaps, Done
  <2>2. \A s \in Retriever : retr'[s].width = retr[s].width /\ (retr'[s].ready <=> retr[s].ready)
    BY <1>0, <2>1 DEF Retrieval
  <2>3. \A s \in Retriever : s # r => retr'[s].step \in {retr[s].step, "off"}
    BY <1>0, <2>1 DEF Retrieval
  <2>4. retr'[r].step \in {"idle", "off"}
    BY <1>0, <2>1 DEF Retrieval
  <2>5. CASE r = inforce
    <3>1. \A s \in Retriever : s # inforce /\ retr'[s].step # "off" => retr'[s].width # retr'[inforce].width
      BY <1>0, <2>2, <2>3, <2>5 DEF Beside
    <3>2. \A s \in Retriever : retr'[s].step \in Filling => retr'[s].ready
      BY <2>2, <2>3, <2>4 DEF Beside, Filling
    <3> QED BY <2>1, <2>5, <3>1, <3>2 DEF Beside
  <2>6. CASE r # inforce
    <3>1. retr[r].width # retr[inforce].width
      BY <2>1, <2>6 DEF Beside
    <3>2. \A s \in Retriever : s = r \/ s = inforce
      BY <1>0, <2>6 DEF Retriever
    <3>3. \A s \in Retriever : s # r => retr'[s].width # retr'[inforce'].width
      BY <2>1, <2>2, <3>1, <3>2
    <3>4. \A s \in Retriever : retr'[s].step \in Filling => retr'[s].ready
      BY <2>2, <2>3, <2>4 DEF Beside, Filling
    <3> QED BY <2>1, <3>3, <3>4 DEF Beside
  <2> QED BY <2>5, <2>6
<1>10. ASSUME NEW w \in Widths, Reload(w)
       PROVE  Beside'
  <2> DEFINE r == Other(inforce)
  <2>1. inforce' = inforce
    BY <1>10 DEF Reload
  <2>2. r \in Retriever /\ r # inforce
    BY <1>0, OtherIsOther
  <2>3. CASE w = retr[inforce].width
    BY <1>10, <2>1, <2>3 DEF Reload, Beside
  <2>4. CASE w # retr[inforce].width
    <3>1. retr' = [retr EXCEPT ![r] = Fresh(w)]
      BY <1>10, <2>4 DEF Reload
    <3> HIDE DEF r
    <3>2. retr'[r] = Fresh(w) /\ \A s \in Retriever : s # r => retr'[s] = retr[s]
      BY <1>0, <2>2, <3>1
    <3>3. Fresh(w).width = w /\ Fresh(w).step \notin Filling
      BY DEF Fresh, Off, Filling
    <3> QED BY <1>0, <2>1, <2>2, <2>4, <3>2, <3>3 DEF Beside
  <2> QED BY <2>3, <2>4
<1>11. CASE Crash
  <2>1. /\ retr'["r1"] = Fresh(saved) /\ retr'["r2"] = Off /\ inforce' = "r1"
        /\ \A s \in Retriever : s # "r1" => s = "r2"
    BY <1>11 DEF Crash, Retriever
  <2>2. Fresh(saved).step = "ensure" /\ Off.step = "off"
    BY FreshStart
  <2>3. \A s \in Retriever : retr'[s].step \notin Filling /\ (s # "r1" => retr'[s].step = "off")
    BY <2>1, <2>2 DEF Filling
  <2> QED BY <2>1, <2>3 DEF Beside
<1>12. ASSUME NEW r \in Retriever, EnsureUnread(r)
       PROVE  Beside'
  <2>1. /\ retr[r].step = "ensure" /\ inforce' = inforce
        /\ \A s \in Retriever : s # r => retr'[s] = retr[s]
    BY <1>0, <1>12 DEF EnsureUnread
  <2>2. retr'[r].width = retr[r].width /\ retr'[r].ready
    BY <1>0, <1>12 DEF EnsureUnread, Retrieval
  <2>3. Keeping(r)
    BY <2>1, <2>2 DEF Keeping
  <2>4. \A s \in Retriever : Keeping(s)
    BY <2>1, <2>3, KeepingSame
  <2> QED BY <1>0, <2>1, <2>4, BesideKept
<1> QED
  BY <1>1, <1>2, <1>5, <1>6, <1>7, <1>8, <1>9, <1>10, <1>11, <1>12 DEF Next, Pass

\* What a retriever beside the one in force does to the index callers are answered from,
\* when both know the width of the collection they are at.
LeavesIndex == \A r \in Retriever \ {inforce} :
  Pass(r) /\ retr[inforce].ready /\ Sighted(r) /\ Sighted(inforce) =>
    coll'[retr[inforce].at] = coll[retr[inforce].at]

LEMMA IndexLeft ==
  ASSUME Typed, Fitting, Beside
  PROVE  LeavesIndex
<1> SUFFICES ASSUME NEW r \in Retriever, r # inforce, Pass(r), retr[inforce].ready,
                    ~retr[r].blind, ~retr[inforce].blind
             PROVE  coll'[retr[inforce].at] = coll[retr[inforce].at]
  BY DEF LeavesIndex, Sighted
<1> DEFINE m == retr[inforce].at
<1>0. /\ retr \in [Retriever -> Retrieval] /\ coll \in [Name -> Collection] /\ inforce \in Retriever
  BY TypedParts
<1>1. m \in Name /\ coll[m].width = retr[inforce].width /\ coll[m].width # None
  <2>1. retr[inforce].at \in Name /\ retr[inforce].width \in Widths
    BY <1>0 DEF Retrieval
  <2> QED BY <1>0, <2>1, CorpusAssumption DEF Fitting
<1> HIDE DEF m
<1>2. \A n, w : Made(n, w)[m] = coll[m]
  BY <1>0, <1>1 DEF Made, Exists
<1>3. retr[r].step \in Filling => retr[r].at # m /\ retr[r].at \in Name
  <2> SUFFICES ASSUME retr[r].step \in Filling PROVE retr[r].at # m /\ retr[r].at \in Name
    OBVIOUS
  <2>1. retr[r].ready /\ retr[r].width # retr[inforce].width
    BY DEF Beside, Filling
  <2>2. coll[retr[r].at].width = retr[r].width
    BY <2>1 DEF Fitting
  <2>3. retr[r].at \in Name
    BY <1>0 DEF Retrieval
  <2> QED BY <1>1, <2>1, <2>2, <2>3
<1>4. ASSUME NEW n \in Name, NEW d \in Docs, NEW t, n # m, Rewritten(coll', n, d, t)
      PROVE  coll'[m] = coll[m]
  BY <1>1, <1>4 DEF Rewritten
<1>5. CASE Ensure(r)
  BY <1>2, <1>5 DEF Ensure, m
<1>6. CASE Switches(r)
  BY <1>2, <1>6 DEF Switches, m
<1>7. ASSUME NEW d \in Docs, Repairs(r, d) \/ Refused(r, d)
      PROVE  coll'[m] = coll[m]
  <2>1. retr[r].at # m /\ retr[r].at \in Name
    BY <1>3, <1>7 DEF Repairs, Refused, Filling
  <2>2. coll' \in {Indexed(retr[r].at, d, row[d]), Cleared(retr[r].at, d)}
    BY <1>7 DEF Repairs, Refused
  <2> QED BY <1>4, <2>1, <2>2, IndexedRewrites, ClearedRewrites
<1>8. CASE Fails(r)
  <2>1. CASE coll' = coll
    BY <2>1
  <2>2. CASE coll' \in HalfRepaired(r)
    <3>1. retr[r].at # m
      BY <1>3, <2>2, HalfRepairedRewrites DEF Filling
    <3> QED BY <1>4, <2>2, <3>1, HalfRepairedRewrites DEF m
  <2> QED BY <1>8, <2>1, <2>2 DEF Fails
<1>9. CASE EnsureUnread(r) \/ Adopts(r) \/ Backfills(r) \/ Surveys(r) \/ Repaired(r) \/ Swaps(r)
  BY <1>9 DEF EnsureUnread, Adopts, Backfills, Surveys, Repaired, Swaps
<1> QED BY <1>5, <1>6, <1>7, <1>8, <1>9 DEF Pass, m

\* The index callers are answered from is left as it was by whatever retriever is built
\* beside it or was replaced (start, _rebuild, sync), however a move fails or crashes,
\* as long as both could read the width of the collection they are at.
THEOREM OldIndexIsLeft == Spec => OldIsLeft
<1>1. Init => Typed /\ Uploaded /\ Fitting /\ Beside
  BY TypedInit, UploadedInit, FittingInit, BesideInit
<1>2. Typed /\ Uploaded /\ Fitting /\ Beside /\ [Next]_vars =>
        (Typed /\ Uploaded /\ Fitting /\ Beside)'
  BY TypedNext, UploadedNext, FittingNext, BesideNext
<1>3. Typed /\ Fitting /\ Beside => LeavesIndex
  BY IndexLeft
<1>4. [][LeavesIndex]_vars => OldIsLeft
  BY PTL DEF LeavesIndex, OldIsLeft
<1> QED
  BY <1>1, <1>2, <1>3, <1>4, PTL DEF Spec

-----------------------------------------------------------------------------
\* What chunk_text makes of a text.  The recursions of Packed and of FlattenSeq are taken
\* as functions that satisfy their equation, and followed up to the least place where
\* what is claimed of them would fail.

\* Naturals have a least one among them: induction is by the least counterexample.
LEMMA LeastNatural ==
  ASSUME NEW T \in SUBSET Nat, T # {}
  PROVE  \E x \in T : \A y \in T : x <= y
<1> DEFINE R == OpToRel(<, Nat)
<1>1. IsWellFoundedOn(R, Nat)
  BY NatLessThanWellFounded, Zenon
<1>2. PICK x \in T : \A y \in T : <<y, x>> \notin R
  <2> HIDE DEF R
  <2> QED BY <1>1, WFMin, Zenon
<1>3. \A y \in T : ~(y < x)
  BY <1>2, Zenon DEF OpToRel
<1> QED BY <1>3

\* What packing has made of the first units.
Packing(f, units, gap, lap, m) ==
  f = [n \in 0 .. m |-> IF n = 0 THEN [done |-> <<>>, buf |-> Blank]
                        ELSE Pack(f[n - 1], units[n], gap, lap)]

\* The recursion of Packed has a solution.
LEMMA PackingExists ==
  ASSUME NEW units, NEW gap, NEW lap, NEW N \in Nat
  PROVE  \E f : Packing(f, units, gap, lap, N)
<1> DEFINE T == {m \in 0 .. N : ~\E f : Packing(f, units, gap, lap, m)}
<1> SUFFICES ASSUME T # {} PROVE FALSE
  <2>1. N \in 0 .. N
    OBVIOUS
  <2> QED BY <2>1, Zenon
<1>1. PICK m \in T : \A k \in T : m <= k
  <2>1. T \in SUBSET Nat
    OBVIOUS
  <2> HIDE DEF T
  <2> QED BY <2>1, LeastNatural
<1>2. m # 0
  <2> DEFINE f == [n \in 0 .. 0 |-> [done |-> <<>>, buf |-> Blank]]
  <2>1. Packing(f, units, gap, lap, 0)
    BY DEF Packing
  <2> QED BY <2>1
<1>3. m - 1 \in 0 .. N /\ m - 1 \notin T
  BY <1>1, <1>2
<1>4. PICK g : Packing(g, units, gap, lap, m - 1)
  BY <1>3
<1> DEFINE f == [n \in 0 .. m |-> IF n = m THEN Pack(g[m - 1], units[m], gap, lap) ELSE g[n]]
<1>5. \A n \in 0 .. m - 1 : f[n] = g[n]
  BY <1>1
<1>6. f[m] = Pack(f[m - 1], units[m], gap, lap)
  BY <1>1, <1>2, <1>5
<1>7. \A n \in 0 .. m - 1 : f[n] = IF n = 0 THEN [done |-> <<>>, buf |-> Blank]
                                     ELSE Pack(f[n - 1], units[n], gap, lap)
  <2> SUFFICES ASSUME NEW n \in 0 .. m - 1
               PROVE  f[n] = IF n = 0 THEN [done |-> <<>>, buf |-> Blank]
                             ELSE Pack(f[n - 1], units[n], gap, lap)
    OBVIOUS
  <2>1. g[n] = IF n = 0 THEN [done |-> <<>>, buf |-> Blank] ELSE Pack(g[n - 1], units[n], gap, lap)
    BY <1>4 DEF Packing
  <2>2. f[n] = g[n] /\ (n # 0 => f[n - 1] = g[n - 1])
    BY <1>5
  <2> QED BY <2>1, <2>2
<1>8. Packing(f, units, gap, lap, m)
  <2>1. \A n \in 0 .. m : f[n] = IF n = 0 THEN [done |-> <<>>, buf |-> Blank]
                                  ELSE Pack(f[n - 1], units[n], gap, lap)
    <3> HIDE DEF f
    <3>1. \A n \in 0 .. m : n = m \/ n \in 0 .. m - 1
      BY <1>1
    <3> QED BY <1>2, <1>6, <1>7, <3>1, Zenon
  <2> DEFINE h == [n \in 0 .. m |-> IF n = 0 THEN [done |-> <<>>, buf |-> Blank]
                                    ELSE Pack(f[n - 1], units[n], gap, lap)]
  <2>2. f = h
    <3>1. \A n \in 0 .. m : f[n] = h[n]
      BY <2>1
    <3>2. h = [n \in 0 .. m |-> h[n]] /\ f = [n \in 0 .. m |-> f[n]]
      OBVIOUS
    <3> HIDE DEF h, f
    <3>3. [n \in 0 .. m |-> f[n]] = [n \in 0 .. m |-> h[n]]
      BY <3>1
    <3> QED BY <3>2, <3>3
  <2> QED BY <2>2 DEF Packing
<1> QED BY <1>1, <1>8

\* Packed takes the last of what packing makes.
LEMMA PackedIs ==
  ASSUME NEW units, Len(units) \in Nat, NEW gap, NEW lap
  PROVE  \E f : /\ Packing(f, units, gap, lap, Len(units))
                /\ Packed(units, gap, lap) =
                     IF f[Len(units)].buf.size > 0
                     THEN Append(f[Len(units)].done, f[Len(units)].buf) ELSE f[Len(units)].done
<1> DEFINE N == Len(units)
           packed == CHOOSE f : f = [n \in 0 .. N |->
                       IF n = 0 THEN [done |-> <<>>, buf |-> Blank]
                       ELSE Pack(f[n - 1], units[n], gap, lap)]
<1>1. Packing(packed, units, gap, lap, N)
  <2>1. \E f : f = [n \in 0 .. N |-> IF n = 0 THEN [done |-> <<>>, buf |-> Blank]
                       ELSE Pack(f[n - 1], units[n], gap, lap)]
    <3>1. PICK f : Packing(f, units, gap, lap, N)
      BY PackingExists
    <3> QED BY <3>1, Zenon DEF Packing
  <2> QED BY <2>1, Zenon DEF Packing
<1>2. Packed(units, gap, lap) = IF packed[N].buf.size > 0
                     THEN Append(packed[N].done, packed[N].buf) ELSE packed[N].done
  BY Zenon DEF Packed
<1> HIDE DEF packed
<1> QED BY <1>1, <1>2

\* The first of seqs, one after the other.
Flattening(f, seqs, m) ==
  f = [i \in 1 .. m |-> IF i = 1 THEN seqs[i] ELSE f[i - 1] \o seqs[i]]

\* The recursion of FlattenSeq has a solution.
LEMMA FlatteningExists ==
  ASSUME NEW seqs, NEW N \in Nat
  PROVE  \E f : Flattening(f, seqs, N)
<1> DEFINE T == {m \in 0 .. N : ~\E f : Flattening(f, seqs, m)}
<1> SUFFICES ASSUME T # {} PROVE FALSE
  <2>1. N \in 0 .. N
    OBVIOUS
  <2> QED BY <2>1, Zenon
<1>1. PICK m \in T : \A k \in T : m <= k
  <2>1. T \in SUBSET Nat
    OBVIOUS
  <2> HIDE DEF T
  <2> QED BY <2>1, LeastNatural
<1>2. m # 0
  <2> DEFINE f == [i \in 1 .. 0 |-> seqs[i]]
  <2>1. Flattening(f, seqs, 0)
    BY DEF Flattening
  <2> QED BY <2>1
<1>3. m - 1 \in 0 .. N /\ m - 1 \notin T
  BY <1>1, <1>2
<1>4. PICK g : Flattening(g, seqs, m - 1)
  BY <1>3
<1>m. m \in Nat
  OBVIOUS
<1> DEFINE f == [i \in 1 .. m |-> IF i # m THEN g[i] ELSE IF m = 1 THEN seqs[i] ELSE g[m - 1] \o seqs[m]]
           h == [i \in 1 .. m |-> IF i = 1 THEN seqs[i] ELSE f[i - 1] \o seqs[i]]
<1>5. \A i \in 1 .. m - 1 : f[i] = g[i]
  BY <1>1
<1>6. f[m] = h[m]
  BY <1>1, <1>2, <1>5
<1>7. ASSUME NEW i \in 1 .. m - 1
      PROVE  f[i] = h[i]
  <2>1. g[i] = IF i = 1 THEN seqs[i] ELSE g[i - 1] \o seqs[i]
    BY <1>4 DEF Flattening
  <2>2. f[i] = g[i] /\ (i # 1 => f[i - 1] = g[i - 1])
    BY <1>5
  <2> QED BY <2>1, <2>2
<1>8. \A i \in 1 .. m : f[i] = h[i]
  <2>1. 1 .. m = (1 .. m - 1) \cup {m}
    BY <1>m, <1>2
  <2> HIDE DEF f, h
  <2> QED BY <2>1, <1>6, <1>7
<1>9. h = [i \in 1 .. m |-> h[i]] /\ f = [i \in 1 .. m |-> f[i]]
  OBVIOUS
<1>10. f = h
  <2> HIDE DEF h, f
  <2>1. [i \in 1 .. m |-> f[i]] = [i \in 1 .. m |-> h[i]]
    BY <1>8
  <2> QED BY <1>9, <2>1
<1>11. Flattening(f, seqs, m)
  BY <1>10, Zenon DEF Flattening
<1> QED BY <1>1, <1>11, Zenon

\* What a sequence holds, joined to another or added to.
LEMMA JoinedSet ==
  ASSUME NEW S, NEW s \in Seq(S), NEW t \in Seq(S)
  PROVE  ToSet(s \o t) = ToSet(s) \cup ToSet(t)
<1>1. /\ Len(s) \in Nat /\ Len(t) \in Nat /\ s \o t \in Seq(S)
      /\ Len(s \o t) = Len(s) + Len(t)
      /\ DOMAIN s = 1 .. Len(s) /\ DOMAIN t = 1 .. Len(t) /\ DOMAIN (s \o t) = 1 .. Len(s) + Len(t)
  BY LenProperties, ConcatProperties
<1>2. \A i \in 1 .. Len(s) + Len(t) : (s \o t)[i] = IF i <= Len(s) THEN s[i] ELSE t[i - Len(s)]
  BY ConcatProperties
<1>3. ASSUME NEW x \in ToSet(s \o t)
      PROVE  x \in ToSet(s) \cup ToSet(t)
  <2>1. PICK i \in 1 .. Len(s) + Len(t) : x = (s \o t)[i]
    BY <1>1, <1>3 DEF ToSet
  <2>2. CASE i <= Len(s)
    BY <2>1, <2>2, <1>1, <1>2 DEF ToSet
  <2>3. CASE ~(i <= Len(s))
    <3>1. i - Len(s) \in 1 .. Len(t) /\ x = t[i - Len(s)]
      BY <2>1, <2>3, <1>1, <1>2
    <3> QED BY <3>1, <1>1 DEF ToSet
  <2> QED BY <2>2, <2>3
<1>4. ASSUME NEW x \in ToSet(s)
      PROVE  x \in ToSet(s \o t)
  <2>1. PICK i \in 1 .. Len(s) : x = s[i]
    BY <1>1, <1>4 DEF ToSet
  <2>2. i \in 1 .. Len(s) + Len(t) /\ x = (s \o t)[i]
    BY <2>1, <1>1, <1>2
  <2> QED BY <2>2, <1>1 DEF ToSet
<1>5. ASSUME NEW x \in ToSet(t)
      PROVE  x \in ToSet(s \o t)
  <2>1. PICK i \in 1 .. Len(t) : x = t[i]
    BY <1>1, <1>5 DEF ToSet
  <2>2. /\ Len(s) + i \in 1 .. Len(s) + Len(t) /\ ~(Len(s) + i <= Len(s))
        /\ (Len(s) + i) - Len(s) = i
    BY <2>1, <1>1
  <2>3. x = (s \o t)[Len(s) + i]
    BY <2>1, <2>2, <1>2
  <2> QED BY <2>2, <2>3, <1>1 DEF ToSet
<1> QED BY <1>3, <1>4, <1>5

\* What a sequence holds once one is appended to it.
LEMMA AppendedSet ==
  ASSUME NEW S, NEW s \in Seq(S), NEW e \in S
  PROVE  ToSet(Append(s, e)) = ToSet(s) \cup {e}
<1>1. /\ Len(s) \in Nat /\ Append(s, e) \in Seq(S) /\ Len(Append(s, e)) = Len(s) + 1
      /\ DOMAIN s = 1 .. Len(s) /\ DOMAIN Append(s, e) = 1 .. Len(s) + 1
      /\ \A i \in 1 .. Len(s) : Append(s, e)[i] = s[i]
      /\ Append(s, e)[Len(s) + 1] = e
  BY LenProperties, AppendProperties
<1>2. 1 .. Len(s) + 1 = (1 .. Len(s)) \cup {Len(s) + 1}
  BY <1>1
<1> QED BY <1>1, <1>2 DEF ToSet

\* FlattenSeq holds what its sequences hold, and nothing else.
LEMMA Flattened ==
  ASSUME NEW S, NEW seqs \in Seq(Seq(S))
  PROVE  /\ FlattenSeq(seqs) \in Seq(S)
         /\ ToSet(FlattenSeq(seqs)) = UNION {ToSet(seqs[i]) : i \in 1 .. Len(seqs)}
<1> DEFINE N == Len(seqs)
<1>n. N \in Nat /\ \A i \in 1 .. N : seqs[i] \in Seq(S)
  BY LenProperties, ElementOfSeq
<1>1. CASE N = 0
  <2>1. seqs = <<>>
    BY <1>1, EmptySeq
  <2>2. FlattenSeq(seqs) = <<>>
    BY <1>1, <2>1, Zenon DEF FlattenSeq
  <2> QED BY <1>1, <2>2 DEF ToSet
<1>2. CASE N # 0
  <2> DEFINE flatten == CHOOSE f : f = [i \in 1 .. N |->
                          IF i = 1 THEN seqs[i] ELSE f[i - 1] \o seqs[i]]
  <2>1. Flattening(flatten, seqs, N)
    <3>1. \E f : f = [i \in 1 .. N |-> IF i = 1 THEN seqs[i] ELSE f[i - 1] \o seqs[i]]
      <4>1. PICK f : Flattening(f, seqs, N)
        BY <1>n, FlatteningExists
      <4> QED BY <4>1, Zenon DEF Flattening
    <3> QED BY <3>1, Zenon DEF Flattening
  <2>2. FlattenSeq(seqs) = flatten[N]
    BY <1>2, Zenon DEF FlattenSeq
  <2> HIDE DEF flatten
  <2>3. \A i \in 1 .. N : flatten[i] = IF i = 1 THEN seqs[i] ELSE flatten[i - 1] \o seqs[i]
    BY <2>1, Zenon DEF Flattening
  <2> DEFINE Good(m) == /\ flatten[m] \in Seq(S)
                        /\ ToSet(flatten[m]) = UNION {ToSet(seqs[i]) : i \in 1 .. m}
             T == {m \in 1 .. N : ~Good(m)}
  <2>4. T = {}
    <3> SUFFICES ASSUME T # {} PROVE FALSE
      OBVIOUS
    <3>1. PICK m \in T : \A k \in T : m <= k
      <4>1. T \in SUBSET Nat
        OBVIOUS
      <4> HIDE DEF T
      <4> QED BY <4>1, LeastNatural
    <3>2. m \in 1 .. N /\ ~Good(m)
      OBVIOUS
    <3>3. CASE m = 1
      <4>1. flatten[1] = seqs[1]
        BY <2>3, <3>2, <3>3
      <4>2. 1 .. 1 = {1}
        OBVIOUS
      <4> QED BY <4>1, <4>2, <3>2, <3>3, <1>n
    <3>4. CASE m # 1
      <4>1. m - 1 \in 1 .. N /\ Good(m - 1)
        <5>1. m - 1 \in 1 .. N /\ ~(m <= m - 1)
          BY <1>n, <3>2, <3>4
        <5>2. m - 1 \notin T
          <6> HIDE DEF T
          <6> QED BY <5>1, <3>1
        <5> QED BY <5>1, <5>2
      <4>2. flatten[m] = flatten[m - 1] \o seqs[m]
        BY <2>3, <3>2, <3>4
      <4>3. flatten[m] \in Seq(S)
        BY <4>1, <4>2, <3>2, <1>n, ConcatProperties
      <4>4. ToSet(flatten[m]) = ToSet(flatten[m - 1]) \cup ToSet(seqs[m])
        BY <4>1, <4>2, <3>2, <1>n, JoinedSet
      <4>5. 1 .. m = (1 .. m - 1) \cup {m}
        BY <3>2
      <4> QED BY <4>1, <4>3, <4>4, <4>5, <3>2
    <3> QED BY <3>3, <3>4
  <2>5. Good(N)
    <3>1. N \in 1 .. N
      BY <1>2, <1>n
    <3>2. N \notin T
      <4> HIDE DEF T
      <4> QED BY <2>4
    <3> HIDE DEF Good
    <3> QED BY <3>1, <3>2
  <2> QED BY <2>2, <2>5
<1> QED BY <1>1, <1>2

\* A run of a text: it is no smaller than what it holds, and no longer than bound, but for
\* a sentence that is longer itself and has no other beside it.
Span(text) == [size : Nat, holds : Seq(Places(text)), tail : SUBSET Places(text)]
Sized(text, u, bound) ==
  /\ u \in Span(text)
  /\ \A s \in ToSet(u.holds) : text[s[1]][s[2]].size <= u.size
  /\ u.size > 0 => u.holds # <<>>
  /\ u.size <= bound \/ (Len(u.holds) = 1 /\ text[u.holds[1][1]][u.holds[1][2]].size > Target)

\* What packing keeps.
Sound(text, acc, bound) ==
  /\ acc \in [done : Seq(Span(text)), buf : Span(text)]
  /\ \A r \in ToSet(acc.done) : r.size > 0 /\ Sized(text, r, bound)
  /\ Sized(text, acc.buf, bound)

\* A place is held by what packing has made so far.
Has(acc, s) == s \in ToSet(acc.buf.holds) \/ \E r \in ToSet(acc.done) : s \in ToSet(r.holds)

\* The bound is wide enough for two that are joined, and for one and the overlap.
Wide(bound, gap, lap) ==
  /\ bound \in Nat /\ gap \in Nat \ {0} /\ lap \in Nat
  /\ Target + gap <= bound + 1
  /\ lap # 0 => Target + lap + 1 <= bound

\* What is a place in a text.
LEMMA PlaceParts ==
  ASSUME NEW text \in Text, NEW s \in Places(text)
  PROVE  /\ s[1] \in 1 .. Len(text) /\ s[2] \in 1 .. Len(text[s[1]]) /\ s = <<s[1], s[2]>>
         /\ text[s[1]][s[2]] \in Sentence
<1>1. PICK i \in 1 .. Len(text) : s \in {<<i, j>> : j \in 1 .. Len(text[i])}
  BY DEF Places
<1>2. PICK j \in 1 .. Len(text[i]) : s = <<i, j>>
  BY <1>1
<1>3. text[i] \in Seq(Sentence)
  BY ElementOfSeq DEF Text
<1>4. text[i][j] \in Sentence
  BY <1>3, ElementOfSeq
<1> QED BY <1>1, <1>2, <1>4

\* The set of a sequence is of its elements' type, and empty if the sequence is.
LEMMA SetOfSeq ==
  ASSUME NEW S, NEW s \in Seq(S)
  PROVE  /\ ToSet(s) \subseteq S
         /\ s = <<>> => ToSet(s) = {}
         /\ \A i \in 1 .. Len(s) : s[i] \in ToSet(s)
<1>1. DOMAIN s = 1 .. Len(s)
  BY LenProperties
<1> QED BY <1>1, ElementOfSeq DEF ToSet

\* A unit joined to a run that has room fits, and loses nothing that has any size.
LEMMA JoinFits ==
  ASSUME NEW text \in Text, NEW bound, NEW gap, NEW lap, Wide(bound, gap, lap),
         NEW buf, NEW u, Sized(text, buf, bound), Sized(text, u, Target),
         buf.size = 0 \/ buf.size + u.size + 1 <= Target
  PROVE  /\ Sized(text, Join(buf, u, gap), bound)
         /\ \A s \in ToSet(u.holds) : s \in ToSet(Join(buf, u, gap).holds)
         /\ \A s \in ToSet(buf.holds) : text[s[1]][s[2]].size > 0 => s \in ToSet(Join(buf, u, gap).holds)
<1>t. Target \in Nat /\ bound \in Nat /\ Target <= bound
  BY ChunkingAssumption DEF Wide
<1>b. /\ buf \in Span(text) /\ u \in Span(text)
      /\ buf.size \in Nat /\ buf.holds \in Seq(Places(text))
      /\ u.size \in Nat /\ u.holds \in Seq(Places(text))
  BY DEF Sized, Span
<1>s. \A s \in ToSet(buf.holds) \cup ToSet(u.holds) : text[s[1]][s[2]].size \in Nat
  <2> SUFFICES ASSUME NEW s \in ToSet(buf.holds) \cup ToSet(u.holds) PROVE text[s[1]][s[2]].size \in Nat
    OBVIOUS
  <2>1. s \in Places(text)
    BY <1>b, SetOfSeq
  <2> QED BY <2>1, PlaceParts DEF Sentence
<1>1. CASE buf.size = 0
  <2>1. Join(buf, u, gap) = u
    BY <1>1 DEF Join
  <2>2. Sized(text, u, bound)
    BY <1>t, <1>b DEF Sized
  <2>3. \A s \in ToSet(buf.holds) : ~(text[s[1]][s[2]].size > 0)
    BY <1>1, <1>s DEF Sized
  <2> QED BY <2>1, <2>2, <2>3
<1>2. CASE buf.size # 0
  <2> DEFINE j == [buf EXCEPT !.size = @ + gap + u.size, !.holds = @ \o u.holds]
  <2>1. Join(buf, u, gap) = j
    BY <1>2 DEF Join
  <2>2. /\ j \in Span(text) /\ j.size = buf.size + gap + u.size /\ j.holds = buf.holds \o u.holds
    <3>1. buf.size + gap + u.size \in Nat
      BY <1>b DEF Wide
    <3>2. buf.holds \o u.holds \in Seq(Places(text))
      BY <1>b, ConcatProperties
    <3> QED BY <1>b, <3>1, <3>2 DEF Span
  <2>3. ToSet(j.holds) = ToSet(buf.holds) \cup ToSet(u.holds)
    BY <1>b, <2>2, JoinedSet
  <2>4. \A s \in ToSet(j.holds) : text[s[1]][s[2]].size <= j.size
    <3> SUFFICES ASSUME NEW s \in ToSet(j.holds) PROVE text[s[1]][s[2]].size <= j.size
      OBVIOUS
    <3>1. text[s[1]][s[2]].size \in Nat
      BY <1>s, <2>3
    <3>2. text[s[1]][s[2]].size <= buf.size \/ text[s[1]][s[2]].size <= u.size
      BY <2>3 DEF Sized
    <3>3. j.size \in Nat /\ buf.size <= j.size /\ u.size <= j.size
      BY <1>b, <2>2 DEF Wide
    <3> HIDE DEF j
    <3> QED BY <1>b, <3>1, <3>2, <3>3
  <2>5. j.holds # <<>>
    <3>1. buf.holds # <<>>
      BY <1>2, <1>b DEF Sized
    <3> QED BY <1>b, <2>2, <3>1, ConcatEqualIffEmpty
  <2>6. j.size <= bound
    BY <1>2, <1>b, <1>t, <2>2 DEF Wide
  <2> HIDE DEF j
  <2> QED BY <2>1, <2>2, <2>3, <2>4, <2>5, <2>6 DEF Sized
<1> QED BY <1>1, <1>2

\* A unit that begins a run fits with the overlap before it.
LEMMA RestartFits ==
  ASSUME NEW text \in Text, NEW bound, NEW gap, NEW lap, Wide(bound, gap, lap),
         NEW buf, NEW u, Sized(text, buf, bound), Sized(text, u, Target), buf.size > 0, u.holds # <<>>
  PROVE  /\ Sized(text, Restart(buf, u, lap), bound)
         /\ Restart(buf, u, lap).holds = u.holds
<1>t. Target \in Nat /\ bound \in Nat /\ Target <= bound /\ lap \in Nat
  BY ChunkingAssumption DEF Wide
<1>b. /\ u \in Span(text) /\ buf.size \in Nat /\ buf.holds \in Seq(Places(text)) /\ buf.holds # <<>>
      /\ u.size \in Nat /\ u.holds \in Seq(Places(text))
  BY DEF Sized, Span
<1>s. \A s \in ToSet(u.holds) : text[s[1]][s[2]].size \in Nat
  <2> SUFFICES ASSUME NEW s \in ToSet(u.holds) PROVE text[s[1]][s[2]].size \in Nat
    OBVIOUS
  <2>1. s \in Places(text)
    BY <1>b, SetOfSeq
  <2> QED BY <2>1, PlaceParts DEF Sentence
<1>1. CASE lap = 0
  BY <1>1, <1>t, <1>b DEF Restart, Sized
<1>2. CASE lap # 0
  <2> DEFINE k == IF buf.size < lap THEN buf.size ELSE lap
             j == [size |-> k + 1 + u.size, holds |-> u.holds, tail |-> {Last(buf.holds)}]
  <2>1. Restart(buf, u, lap) = j
    BY <1>2 DEF Restart
  <2>2. k \in Nat /\ k <= lap
    BY <1>t, <1>b
  <2>3. Last(buf.holds) \in Places(text)
    <3>1. Len(buf.holds) \in 1 .. Len(buf.holds)
      BY <1>b, EmptySeq
    <3> QED BY <1>b, <3>1, ElementOfSeq DEF Last
  <2> HIDE DEF k
  <2>4. j \in Span(text) /\ j.size = k + 1 + u.size /\ j.holds = u.holds
    BY <1>b, <2>2, <2>3 DEF Span
  <2> HIDE DEF j
  <2>5. \A s \in ToSet(j.holds) : text[s[1]][s[2]].size <= j.size
    <3> SUFFICES ASSUME NEW s \in ToSet(u.holds) PROVE text[s[1]][s[2]].size <= j.size
      BY <2>4
    <3>1. text[s[1]][s[2]].size \in Nat /\ text[s[1]][s[2]].size <= u.size
      BY <1>s DEF Sized
    <3> QED BY <1>b, <2>2, <2>4, <3>1
  <2>6. j.size <= bound \/ (Len(u.holds) = 1 /\ text[u.holds[1][1]][u.holds[1][2]].size > Target)
    <3>1. CASE u.size <= Target
      BY <3>1, <1>2, <1>b, <1>t, <2>2, <2>4 DEF Wide
    <3>2. CASE ~(u.size <= Target)
      BY <3>2 DEF Sized
    <3> QED BY <3>1, <3>2
  <2>7. j.holds # <<>>
    BY <2>4
  <2> QED BY <2>1, <2>4, <2>5, <2>6, <2>7 DEF Sized
<1> QED BY <1>1, <1>2

\* A unit more keeps what packing keeps, and loses nothing that has any size.
LEMMA PackFits ==
  ASSUME NEW text \in Text, NEW bound, NEW gap, NEW lap, Wide(bound, gap, lap),
         NEW acc, NEW u, Sound(text, acc, bound), Sized(text, u, Target), u.holds # <<>>
  PROVE  /\ Sound(text, Pack(acc, u, gap, lap), bound)
         /\ \A s \in ToSet(u.holds) : Has(Pack(acc, u, gap, lap), s)
         /\ \A s \in Places(text) : text[s[1]][s[2]].size > 0 /\ Has(acc, s) => Has(Pack(acc, u, gap, lap), s)
<1> DEFINE new == Pack(acc, u, gap, lap)
<1>a. /\ acc = [done |-> acc.done, buf |-> acc.buf]
      /\ acc.done \in Seq(Span(text)) /\ acc.buf \in Span(text)
      /\ Sized(text, acc.buf, bound) /\ \A r \in ToSet(acc.done) : r.size > 0 /\ Sized(text, r, bound)
  BY DEF Sound
<1>b. acc.buf.size \in Nat /\ u.size \in Nat /\ Target \in Nat
  BY <1>a, ChunkingAssumption DEF Sized, Span
<1>1. CASE acc.buf.size > 0 /\ acc.buf.size + u.size + 1 > Target
  <2> DEFINE r == Restart(acc.buf, u, lap)
             d == Append(acc.done, acc.buf)
  <2>1. new = [done |-> d, buf |-> r]
    BY <1>1 DEF Pack
  <2>2. Sized(text, r, bound) /\ r.holds = u.holds
    BY <1>1, <1>a, RestartFits
  <2>3. ToSet(d) = ToSet(acc.done) \cup {acc.buf} /\ d \in Seq(Span(text))
    BY <1>a, AppendedSet, AppendProperties
  <2> HIDE DEF r, d
  <2>4. new.done = d /\ new.buf = r
    BY <2>1
  <2>5. Sound(text, new, bound)
    BY <1>1, <1>a, <2>1, <2>2, <2>3, <2>4 DEF Sound, Sized
  <2>6. \A s \in ToSet(u.holds) : Has(new, s)
    BY <2>2, <2>4 DEF Has
  <2>7. \A s \in Places(text) : Has(acc, s) => Has(new, s)
    BY <2>3, <2>4 DEF Has
  <2> QED BY <2>5, <2>6, <2>7
<1>2. CASE ~(acc.buf.size > 0 /\ acc.buf.size + u.size + 1 > Target)
  <2> DEFINE j == Join(acc.buf, u, gap)
  <2>1. new = [acc EXCEPT !.buf = j]
    BY <1>2, Zenon DEF Pack
  <2>2. acc.buf.size = 0 \/ acc.buf.size + u.size + 1 <= Target
    BY <1>2, <1>b
  <2>3. /\ Sized(text, j, bound)
        /\ \A s \in ToSet(u.holds) : s \in ToSet(j.holds)
        /\ \A s \in ToSet(acc.buf.holds) : text[s[1]][s[2]].size > 0 => s \in ToSet(j.holds)
    BY <1>a, <2>2, JoinFits
  <2> HIDE DEF j
  <2>4. new = [done |-> acc.done, buf |-> j] /\ new.done = acc.done /\ new.buf = j
    BY <1>a, <2>1
  <2> HIDE DEF new
  <2>5. Sound(text, new, bound)
    BY <1>a, <2>3, <2>4 DEF Sound, Sized
  <2>6. \A s \in ToSet(u.holds) : Has(new, s)
    BY <2>3, <2>4 DEF Has
  <2>7. \A s \in Places(text) : text[s[1]][s[2]].size > 0 /\ Has(acc, s) => Has(new, s)
    BY <2>3, <2>4 DEF Has
  <2> QED BY <2>5, <2>6, <2>7 DEF new
<1> QED BY <1>1, <1>2

\* The runs that fitting units make fit, and hold whatever these hold that has any size.
LEMMA PackedFits ==
  ASSUME NEW text \in Text, NEW bound, NEW gap, NEW lap, Wide(bound, gap, lap),
         NEW units \in Seq(Span(text)),
         \A u \in ToSet(units) : Sized(text, u, Target) /\ u.holds # <<>>
  PROVE  /\ Packed(units, gap, lap) \in Seq(Span(text))
         /\ \A r \in ToSet(Packed(units, gap, lap)) : r.size > 0 /\ Sized(text, r, bound)
         /\ \A s \in Places(text), u \in ToSet(units) :
              text[s[1]][s[2]].size > 0 /\ s \in ToSet(u.holds) =>
                \E r \in ToSet(Packed(units, gap, lap)) : s \in ToSet(r.holds)
<1> DEFINE N == Len(units)
           Big(s) == text[s[1]][s[2]].size > 0
           P == Packed(units, gap, lap)
<1>1. N \in Nat /\ DOMAIN units = 1 .. N
  BY LenProperties
<1>2. PICK f : /\ Packing(f, units, gap, lap, N)
               /\ P = IF f[N].buf.size > 0 THEN Append(f[N].done, f[N].buf) ELSE f[N].done
  BY <1>1, PackedIs
<1>3. \A n \in 0 .. N : f[n] = IF n = 0 THEN [done |-> <<>>, buf |-> Blank]
                               ELSE Pack(f[n - 1], units[n], gap, lap)
  BY <1>2, Zenon DEF Packing
<1> HIDE DEF P
<1> DEFINE Good(n) == /\ Sound(text, f[n], bound)
                      /\ \A m \in 1 .. n : \A s \in ToSet(units[m].holds) :
                           s \in Places(text) /\ Big(s) => Has(f[n], s)
           T == {n \in 0 .. N : ~Good(n)}
<1>4. Good(0)
  <2>1. f[0] = [done |-> <<>>, buf |-> Blank]
    BY <1>1, <1>3
  <2>2. Blank \in Span(text) /\ Blank.size = 0 /\ Blank.holds = <<>>
    BY EmptySeq DEF Blank, Span
  <2>3. ToSet(<<>>) = {} /\ <<>> \in Seq(Span(text))
    BY SetOfSeq, EmptySeq
  <2>4. Sized(text, Blank, bound)
    BY <2>2, <2>3 DEF Sized, Wide
  <2>5. Sound(text, f[0], bound)
    BY <2>1, <2>2, <2>3, <2>4 DEF Sound
  <2> QED BY <2>5
<1>5. ASSUME NEW n \in 1 .. N, Good(n - 1)
      PROVE  Good(n)
  <2>1. f[n] = Pack(f[n - 1], units[n], gap, lap)
    BY <1>3
  <2>2. Sized(text, units[n], Target) /\ units[n].holds # <<>>
    BY <1>1 DEF ToSet
  <2>3. /\ Sound(text, f[n], bound)
        /\ \A s \in ToSet(units[n].holds) : Has(f[n], s)
        /\ \A s \in Places(text) : Big(s) /\ Has(f[n - 1], s) => Has(f[n], s)
    BY <1>5, <2>1, <2>2, PackFits
  <2>4. ASSUME NEW m \in 1 .. n, NEW s \in ToSet(units[m].holds), s \in Places(text), Big(s)
        PROVE  Has(f[n], s)
    <3>1. CASE m = n
      BY <3>1, <2>3, <2>4
    <3>2. CASE m # n
      <4>1. m \in 1 .. n - 1
        BY <3>2
      <4> QED BY <4>1, <1>5, <2>3, <2>4
    <3> QED BY <3>1, <3>2
  <2> QED BY <2>3, <2>4
<1>6. T = {}
  <2> SUFFICES ASSUME T # {} PROVE FALSE
    OBVIOUS
  <2>1. PICK n \in T : \A k \in T : n <= k
    <3>1. T \in SUBSET Nat
      OBVIOUS
    <3> HIDE DEF T
    <3> QED BY <3>1, LeastNatural
  <2>2. n \in 0 .. N /\ ~Good(n)
    OBVIOUS
  <2> HIDE DEF Good
  <2>3. n # 0
    BY <1>4, <2>2
  <2>4. n \in 1 .. N /\ n - 1 \in 0 .. N /\ ~(n <= n - 1)
    BY <1>1, <2>2, <2>3
  <2>5. n - 1 \notin T
    <3> HIDE DEF T
    <3> QED BY <2>1, <2>4
  <2>6. Good(n - 1)
    BY <2>4, <2>5
  <2> QED BY <1>5, <2>2, <2>4, <2>6
<1>7. Good(N)
  <2>1. N \in 0 .. N
    BY <1>1
  <2>2. N \notin T
    <3> HIDE DEF T
    <3> QED BY <1>6
  <2> HIDE DEF Good
  <2> QED BY <2>1, <2>2
<1> DEFINE e == f[N]
<1>8. /\ e.done \in Seq(Span(text)) /\ e.buf \in Span(text)
      /\ Sized(text, e.buf, bound) /\ \A r \in ToSet(e.done) : r.size > 0 /\ Sized(text, r, bound)
      /\ \A m \in 1 .. N : \A s \in ToSet(units[m].holds) : s \in Places(text) /\ Big(s) => Has(e, s)
  BY <1>7 DEF Sound
<1>9. P = IF e.buf.size > 0 THEN Append(e.done, e.buf) ELSE e.done
  BY <1>2
<1> HIDE DEF e, Good, T
<1>10. ASSUME NEW s \in Places(text), NEW u \in ToSet(units), Big(s), s \in ToSet(u.holds)
       PROVE  Has(e, s)
  <2>1. PICK m \in 1 .. N : u = units[m]
    BY <1>1, <1>10 DEF ToSet
  <2> QED BY <1>8, <1>10, <2>1
<1>11. CASE e.buf.size > 0
  <2>1. P \in Seq(Span(text)) /\ ToSet(P) = ToSet(e.done) \cup {e.buf}
    BY <1>11, <1>8, <1>9, AppendedSet, AppendProperties
  <2>2. \A r \in ToSet(P) : r.size > 0 /\ Sized(text, r, bound)
    BY <1>11, <1>8, <2>1
  <2>3. \A s : Has(e, s) => \E r \in ToSet(P) : s \in ToSet(r.holds)
    BY <2>1 DEF Has
  <2> HIDE DEF Big
  <2> QED BY <1>10, <2>1, <2>2, <2>3 DEF P, Big
<1>12. CASE ~(e.buf.size > 0)
  <2>1. P = e.done
    BY <1>12, <1>9
  <2>2. \A s \in Places(text) : Big(s) /\ Has(e, s) => \E r \in ToSet(P) : s \in ToSet(r.holds)
    <3> SUFFICES ASSUME NEW s \in Places(text), Big(s), s \in ToSet(e.buf.holds) PROVE FALSE
      BY <2>1 DEF Has
    <3>1. text[s[1]][s[2]].size <= e.buf.size
      BY <1>8 DEF Sized
    <3>2. e.buf.size \in Nat /\ text[s[1]][s[2]].size \in Nat
      BY <1>8, PlaceParts DEF Span, Sentence
    <3> QED BY <1>12, <3>1, <3>2
  <2> QED BY <1>8, <1>10, <2>1, <2>2 DEF P
<1> QED BY <1>11, <1>12

\* A paragraph's sentences are runs of one each, of their own size.
LEMMA SentencesFit ==
  ASSUME NEW text \in Text, NEW i \in 1 .. Len(text)
  PROVE  /\ Sentences(text, i) \in Seq(Span(text))
         /\ \A u \in ToSet(Sentences(text, i)) : Sized(text, u, Target) /\ u.holds # <<>>
         /\ \A j \in 1 .. Len(text[i]) :
              \E u \in ToSet(Sentences(text, i)) : <<i, j>> \in ToSet(u.holds)
<1> DEFINE n == Len(text[i])
           one(j) == [size |-> text[i][j].size, holds |-> <<<<i, j>>>>, tail |-> {}]
           ss == [j \in 1 .. n |-> one(j)]
<1>1. text[i] \in Seq(Sentence) /\ n \in Nat
  BY ElementOfSeq, LenProperties DEF Text
<1>2. ASSUME NEW j \in 1 .. n
      PROVE  /\ one(j) \in Span(text) /\ one(j).holds = <<<<i, j>>>> /\ one(j).size = text[i][j].size
             /\ ToSet(one(j).holds) = {<<i, j>>}
             /\ Sized(text, one(j), Target)
  <2>1. <<i, j>> \in Places(text)
    BY DEF Places
  <2>2. text[i][j].size \in Nat
    <3>1. text[i][j] \in Sentence
      BY <1>1, ElementOfSeq
    <3> QED BY <3>1 DEF Sentence
  <2>3. <<<<i, j>>>> \in Seq(Places(text)) /\ Len(<<<<i, j>>>>) = 1 /\ <<<<i, j>>>>[1] = <<i, j>>
    BY <2>1
  <2>4. ToSet(<<<<i, j>>>>) = {<<i, j>>}
    BY <2>3 DEF ToSet
  <2>5. one(j) \in Span(text)
    BY <2>2, <2>3 DEF Span
  <2>6. Target \in Nat
    BY ChunkingAssumption
  <2>7. one(j).size <= Target \/ text[i][j].size > Target
    BY <2>2, <2>6
  <2> QED BY <2>2, <2>3, <2>4, <2>5, <2>7 DEF Sized
<1>3. Sentences(text, i) = ss
  BY Zenon DEF Sentences
<1> HIDE DEF one
<1>4. ss \in Seq(Span(text)) /\ DOMAIN ss = 1 .. n /\ \A j \in 1 .. n : ss[j] = one(j)
  BY <1>1, <1>2
<1> HIDE DEF ss
<1>5. \A u \in ToSet(ss) : Sized(text, u, Target) /\ u.holds # <<>>
  <2> SUFFICES ASSUME NEW j \in 1 .. n PROVE Sized(text, one(j), Target) /\ one(j).holds # <<>>
    BY <1>4 DEF ToSet
  <2> QED BY <1>2
<1>6. ASSUME NEW j \in 1 .. n
      PROVE  \E u \in ToSet(ss) : <<i, j>> \in ToSet(u.holds)
  <2>1. one(j) \in ToSet(ss)
    BY <1>4 DEF ToSet
  <2> QED BY <1>2, <2>1
<1> QED BY <1>3, <1>4, <1>5, <1>6

\* The units of a paragraph fit, and hold each of its sentences that has any size.
LEMMA ParagraphFits ==
  ASSUME NEW text \in Text, NEW i \in 1 .. Len(text)
  PROVE  /\ UnitsOf(text, i) \in Seq(Span(text))
         /\ \A u \in ToSet(UnitsOf(text, i)) : Sized(text, u, Target) /\ u.holds # <<>>
         /\ \A j \in 1 .. Len(text[i]) : text[i][j].size > 0 =>
              \E u \in ToSet(UnitsOf(text, i)) : <<i, j>> \in ToSet(u.holds)
<1>1. Wide(Target, 1, 0)
  BY ChunkingAssumption DEF Wide
<1>2. /\ Sentences(text, i) \in Seq(Span(text))
      /\ \A u \in ToSet(Sentences(text, i)) : Sized(text, u, Target) /\ u.holds # <<>>
      /\ \A j \in 1 .. Len(text[i]) :
           \E u \in ToSet(Sentences(text, i)) : <<i, j>> \in ToSet(u.holds)
  BY SentencesFit
<1>3. /\ UnitsOf(text, i) \in Seq(Span(text))
      /\ \A r \in ToSet(UnitsOf(text, i)) : r.size > 0 /\ Sized(text, r, Target)
      /\ \A s \in Places(text), u \in ToSet(Sentences(text, i)) :
           text[s[1]][s[2]].size > 0 /\ s \in ToSet(u.holds) =>
             \E r \in ToSet(UnitsOf(text, i)) : s \in ToSet(r.holds)
  BY <1>1, <1>2, PackedFits DEF UnitsOf
<1>4. \A u \in ToSet(UnitsOf(text, i)) : u.holds # <<>>
  BY <1>3 DEF Sized
<1>5. ASSUME NEW j \in 1 .. Len(text[i]), text[i][j].size > 0
      PROVE  \E u \in ToSet(UnitsOf(text, i)) : <<i, j>> \in ToSet(u.holds)
  <2> DEFINE s == <<i, j>>
  <2>1. s \in Places(text) /\ s[1] = i /\ s[2] = j
    BY DEF Places
  <2>2. PICK u \in ToSet(Sentences(text, i)) : s \in ToSet(u.holds)
    BY <1>2
  <2> HIDE DEF s
  <2>3. \E r \in ToSet(UnitsOf(text, i)) : s \in ToSet(r.holds)
    BY <1>3, <1>5, <2>1, <2>2
  <2> QED BY <2>3 DEF s
<1> QED BY <1>3, <1>4, <1>5

\* So do the units of a text.
LEMMA UnitsFit ==
  ASSUME NEW text \in Text
  PROVE  /\ Units(text) \in Seq(Span(text))
         /\ \A u \in ToSet(Units(text)) : Sized(text, u, Target) /\ u.holds # <<>>
         /\ \A s \in Places(text) : text[s[1]][s[2]].size > 0 =>
              \E u \in ToSet(Units(text)) : s \in ToSet(u.holds)
<1> DEFINE n == Len(text)
           us == [i \in 1 .. n |-> UnitsOf(text, i)]
<1>1. n \in Nat
  BY LenProperties DEF Text
<1>2. us \in Seq(Seq(Span(text))) /\ Len(us) = n /\ \A i \in 1 .. n : us[i] = UnitsOf(text, i)
  BY <1>1, ParagraphFits
<1>3. Units(text) = FlattenSeq(us)
  BY Zenon DEF Units
<1> HIDE DEF us
<1>4. /\ Units(text) \in Seq(Span(text))
      /\ ToSet(Units(text)) = UNION {ToSet(us[i]) : i \in 1 .. n}
  BY <1>2, <1>3, Flattened
<1>5. ASSUME NEW u \in ToSet(Units(text))
      PROVE  Sized(text, u, Target) /\ u.holds # <<>>
  <2>1. PICK i \in 1 .. n : u \in ToSet(UnitsOf(text, i))
    BY <1>2, <1>4
  <2> QED BY <2>1, ParagraphFits
<1>6. ASSUME NEW s \in Places(text), text[s[1]][s[2]].size > 0
      PROVE  \E u \in ToSet(Units(text)) : s \in ToSet(u.holds)
  <2>1. s[1] \in 1 .. n /\ s[2] \in 1 .. Len(text[s[1]]) /\ s = <<s[1], s[2]>>
    BY PlaceParts
  <2>2. PICK u \in ToSet(UnitsOf(text, s[1])) : s \in ToSet(u.holds)
    BY <1>6, <2>1, ParagraphFits
  <2>3. u \in ToSet(Units(text))
    BY <1>2, <1>4, <2>1
  <2> QED BY <2>2, <2>3
<1> QED BY <1>4, <1>5, <1>6

\* Whatever a text says is whole in one of its passages, and none of them is too long
\* (chunk_text), for any text and any sizes of passages, overlaps and floors.
THEOREM ChunksTell ==
  \A text \in Text : SentencesKept(text) /\ PassagesShort(text)
<1> SUFFICES ASSUME NEW text \in Text PROVE SentencesKept(text) /\ PassagesShort(text)
  OBVIOUS
<1> DEFINE all == Packed(Units(text), 2, Overlap)
           bound == Target + 1 + Overlap
<1>1. Wide(bound, 2, Overlap)
  BY ChunkingAssumption DEF Wide
<1>2. /\ all \in Seq(Span(text))
      /\ \A r \in ToSet(all) : r.size > 0 /\ Sized(text, r, bound)
      /\ \A s \in Places(text), u \in ToSet(Units(text)) :
           text[s[1]][s[2]].size > 0 /\ s \in ToSet(u.holds) =>
             \E r \in ToSet(all) : s \in ToSet(r.holds)
  <2> HIDE DEF bound
  <2> QED BY <1>1, UnitsFit, PackedFits
<1>3. Passages(text) = {p \in ToSet(all) : Substantive(text, p, Len(all))}
  BY Zenon DEF Passages
<1> HIDE DEF all
<1>4. SentencesKept(text)
  <2> SUFFICES ASSUME NEW s \in Places(text), Telling(text[s[1]][s[2]])
               PROVE  \E p \in Passages(text) : s \in ToSet(p.holds)
    BY DEF SentencesKept
  <2> DEFINE it == text[s[1]][s[2]]
  <2>1. it.size \in Nat /\ it.size >= Least /\ it.words /\ it.ended /\ it.size > 0
    BY PlaceParts, ChunkingAssumption DEF Telling, Sentence
  <2>2. PICK u \in ToSet(Units(text)) : s \in ToSet(u.holds)
    BY <2>1, UnitsFit
  <2>3. PICK p \in ToSet(all) : s \in ToSet(p.holds)
    BY <1>2, <2>1, <2>2
  <2>4. p.size \in Nat /\ it.size <= p.size
    BY <1>2, <2>3 DEF Sized, Span
  <2>5. p.size >= Least
    BY <2>1, <2>4, ChunkingAssumption
  <2> DEFINE In == {text[x[1]][x[2]] : x \in ToSet(p.holds) \cup p.tail}
  <2>6. it \in In
    BY <2>3
  <2>7. (\E x \in In : x.words) /\ (\E x \in In : x.ended)
    <3> HIDE DEF it, In
    <3> QED BY <2>1, <2>6
  <2>8. Substantive(text, p, Len(all))
    BY <2>5, <2>7, Zenon DEF Substantive
  <2> QED BY <1>3, <2>3, <2>8
<1>5. PassagesShort(text)
  <2> SUFFICES ASSUME NEW p \in Passages(text)
               PROVE  \/ p.size <= bound
                      \/ Len(p.holds) = 1 /\ text[p.holds[1][1]][p.holds[1][2]].size > Target
    BY DEF PassagesShort
  <2>1. p \in ToSet(all)
    BY <1>3
  <2>2. Sized(text, p, bound)
    <3> HIDE DEF bound
    <3> QED BY <1>2, <2>1
  <2> QED BY <2>2 DEF Sized
<1> QED BY <1>4, <1>5

\* A document that is answered from is found by whatever it says, for any texts and however
\* it came into the index (index_text, start, _rebuild).
THEOREM PassagesAlwaysTell == Spec => []PassagesTell
<1>1. PassagesTell
  <2>1. \A text \in Text : SentencesKept(text) /\ PassagesShort(text)
    BY ChunksTell, Zenon
  <2>2. /\ \A t \in Upload : Texts[t] \in Text
        /\ \A text \in Probes : text \in Text
    BY TextsAssumption
  <2>3. ProbesTell
    BY <2>1, <2>2, Zenon DEF ProbesTell
  <2> QED BY <2>1, <2>2, <2>3, Zenon DEF PassagesTell
<1> QED BY <1>1, PTL
=============================================================================
