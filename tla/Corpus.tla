------------------------------- MODULE Corpus -------------------------------
(***************************************************************************)
(* The index while its embedder is exchanged (vaani/rag/store.py,          *)
(* QdrantVectorStore; vaani/rag/retriever.py, start and _rebuild;          *)
(* vaani/core/registry.py, reload).  Vectors of one width live in a        *)
(* collection of that width: the configured one, or one beside it.  A      *)
(* retriever of another width is built, filled from the database and put   *)
(* in force, while the one in force is still written to and repaired.      *)
(* How one pass interleaves with changes in one collection is the subject  *)
(* of Knowledge: here what it does to a document is one step.              *)
(***************************************************************************)
EXTENDS Chunking

CONSTANTS
  None,
  Docs,      \* (namespace, source) names
  Texts,     \* what operators upload, by name
  Legacy,    \* the documents the first collection held before the database kept any
  Widths,    \* the widths embedders produce
  First,     \* the one the deployment began with
  Reloads,   \* bound: exchanges
  Edits,     \* bound: changes operators ask for
  Troubles,  \* bound: outages and crashes
  Batch,     \* the passages that are embedded and stored at a time (64)
  Probes     \* the texts the chunks of which are checked

Upload == DOMAIN Texts

\* A text without passages leaves nothing in the index.
Indexable == {"recovered"} \cup {t \in Upload : Passages(Texts[t]) # {}}

\* One that is indexed in several batches; so may be one reassembled from an index.
Long == {"recovered"} \cup {t \in Upload : Cardinality(Passages(Texts[t])) > Batch}

Retriever == {"r1", "r2"}
Other(r) == CHOOSE s \in Retriever : s # r
Name == {"base"} \cup Widths

ASSUME TextsAssumption == Texts \in [Upload -> Text] /\ Probes \subseteq Text
ASSUME CorpusAssumption ==
  /\ Legacy \subseteq Docs /\ First \in Widths
  /\ "base" \notin Widths /\ None \notin Widths \cup Retriever
  /\ Upload \cap {"unknown", "deleted", "recovered", "legacy", None} = {}
  /\ Reloads \in Nat /\ Edits \in Nat /\ Troubles \in Nat /\ Batch \in Nat

VARIABLES
  row,      \* each document in the database: "unknown", "deleted" or its text
  coll,     \* the collections: their width, what they hold of each document, and, as
            \* history, of which they hold some batches only
  retr,     \* the retrievers: the width wanted, the collection they are at, whether
            \* they are ready and were reconciled, their step, what they have to repair,
            \* and, as history, whether they took a collection of another width
            \* because they could not read it
  inforce,  \* the one callers are answered from
  next,     \* the one a settings save builds beside it
  saved,    \* the width in the saved settings
  up,       \* the store can be reached
  ask,      \* what an operator waits for, and whether its first half is done
  raced,    \* the documents changed while a retriever was exchanged that no survey
            \* and repair has seen since
  reloads, edits, troubles

bounds == <<reloads, edits, troubles>>
vars == <<row, coll, retr, inforce, next, saved, up, ask, raced, bounds>>

Off == [width |-> First, at |-> "base", ready |-> FALSE, synced |-> FALSE, blind |-> FALSE,
        step |-> "off", todo |-> {}]
Fresh(w) == [Off EXCEPT !.width = w, !.step = "ensure"]

\* A deployment from before the database kept documents, or a new one.
Init ==
  /\ row = [d \in Docs |-> "unknown"]
  /\ coll = [n \in Name |->
       [width |-> IF n = "base" /\ Legacy # {} THEN First ELSE None,
        holds |-> [d \in Docs |-> IF n = "base" /\ d \in Legacy THEN "legacy" ELSE None],
        torn |-> {}]]
  /\ retr = [r1 |-> Fresh(First), r2 |-> Off]
  /\ inforce = "r1" /\ next = None /\ saved = First
  /\ up = TRUE /\ ask = None /\ raced = {}
  /\ reloads = 0 /\ edits = 0 /\ troubles = 0

Exists(n) == coll[n].width # None
Holds(n, d) == coll[n].holds[d]
Made(n, w) == IF Exists(n) THEN coll ELSE [coll EXCEPT ![n].width = w]
Live(d) == row[d] \notin {"unknown", "deleted"}

\* The lock that every change of a document takes is free.
Unlocked == ask # None => ~ask.half

\* The vectors of a retriever fit the collection it is at; the store refuses others.
Fits(r) == coll[retr[r].at].width = retr[r].width

Trouble == troubles < Troubles /\ troubles' = troubles + 1

Goes(r, step) == retr' = [retr EXCEPT ![r].step = step]

-----------------------------------------------------------------------------
(* start(), and the passes of the healer. *)

\* The healer finishes a start that failed, or begins a pass.
Begins ==
  /\ retr[inforce].step = "idle"
  /\ Goes(inforce, IF retr[inforce].ready THEN "backfill" ELSE "ensure")
  /\ UNCHANGED <<row, coll, inforce, next, saved, up, ask, raced, bounds>>

Started(r, n) ==
  retr' = [retr EXCEPT ![r].at = n, ![r].ready = TRUE, ![r].step = "backfill"]

\* ensure(): the collection it is at, made if need be, if that has the width; the one
\* made for the width earlier; or else the index is to be rebuilt.
Ensure(r) ==
  LET n == retr[r].at
      w == retr[r].width
  IN
  /\ retr[r].step = "ensure" /\ up
  /\ \/ /\ coll[n].width \in {None, w}
        /\ coll' = Made(n, w)
        /\ Started(r, n)
     \/ /\ coll[n].width \notin {None, w}
        /\ IF Exists(w) THEN Started(r, w) ELSE Goes(r, "adopt")
        /\ UNCHANGED coll
  /\ UNCHANGED <<row, inforce, next, saved, up, ask, raced, bounds>>

\* ensure(), where the width of the collection cannot be read: "unreadable is not a
\* reason to refuse to start", and the collection is taken as it is.  To one of the
\* right width it makes no difference.
EnsureUnread(r) ==
  /\ retr[r].step = "ensure" /\ up /\ Exists(retr[r].at) /\ ~Fits(r) /\ Trouble
  /\ retr' = [retr EXCEPT ![r].ready = TRUE, ![r].blind = TRUE, ![r].step = "backfill"]
  /\ UNCHANGED <<row, coll, inforce, next, saved, up, ask, raced, reloads, edits>>

\* backfill(): what only this collection knows goes into the database.
Adoption(n) ==
  row' = [d \in Docs |->
    IF row[d] = "unknown" /\ Holds(n, d) # None THEN "recovered" ELSE row[d]]

\* Mutant: the index moves without it.
SkipsAdoption(r) ==
  /\ retr[r].step = "adopt"
  /\ Goes(r, "switch")
  /\ UNCHANGED <<row, coll, inforce, next, saved, up, ask, raced, bounds>>
\* _rebuild(): from the old collection, which is left as it is.
Adopts(r) ==
  /\ retr[r].step = "adopt" /\ up /\ Unlocked
  /\ Adoption(retr[r].at)
  /\ Goes(r, "switch")
  /\ UNCHANGED <<coll, inforce, next, saved, up, ask, raced, bounds>>

\* Mutant: the collection it is at is dropped and made again.
SwitchesInPlace(r) ==
  /\ retr[r].step = "switch" /\ up
  /\ coll' = [coll EXCEPT ![retr[r].at] =
                [width |-> retr[r].width, holds |-> [d \in Docs |-> None], torn |-> {}]]
  /\ Started(r, retr[r].at)
  /\ UNCHANGED <<row, inforce, next, saved, up, ask, raced, bounds>>
\* switch_width()
Switches(r) ==
  LET w == retr[r].width IN
  /\ retr[r].step = "switch" /\ up
  /\ coll' = Made(w, w)
  /\ Started(r, w)
  /\ UNCHANGED <<row, inforce, next, saved, up, ask, raced, bounds>>

\* sync(): it adopts, ...
Backfills(r) ==
  /\ retr[r].step = "backfill" /\ up /\ Unlocked
  /\ Adoption(retr[r].at)
  /\ Goes(r, "survey")
  /\ UNCHANGED <<coll, inforce, next, saved, up, ask, raced, bounds>>

\* Mutant: what is indexed is current.
StaleIfAbsent(n, d) == Live(d) /\ Holds(n, d) = None
Stale(n, d) ==
  \/ Live(d) /\ Holds(n, d) # row[d]
  \/ row[d] = "deleted" /\ Holds(n, d) # None

\* ... compares ...
Surveys(r) ==
  /\ retr[r].step = "survey" /\ up
  /\ retr' = [retr EXCEPT ![r].step = "repair",
                          ![r].todo = {d \in Docs : Stale(retr[r].at, d)}]
  /\ raced' = IF r = inforce /\ next = None THEN {} ELSE raced
  /\ UNCHANGED <<row, coll, inforce, next, saved, up, ask, bounds>>

\* _index() clears what is indexed of each source among the chunks: nothing, when the
\* text has no passage.  Then it embeds and stores them, a batch at a time.
Kept(n, d, t, torn) == [coll EXCEPT ![n].holds[d] = t, ![n].torn = torn]
Whole(n, d, t) == Kept(n, d, t, coll[n].torn \ {d})
Cleared(n, d) == Whole(n, d, None)
Indexed(n, d, t) == IF t \in Indexable THEN Whole(n, d, t) ELSE coll

\* Where a retriever's indexing may break off: before it began, when the document is
\* cleared, or between two batches.
BrokenOff(r, d, t) ==
  LET n == retr[r].at IN
  {coll} \cup (IF t \in Indexable /\ Exists(n) THEN {Cleared(n, d)} ELSE {})
         \cup (IF t \in Indexable \cap Long /\ Fits(r)
               THEN {Kept(n, d, t, coll[n].torn \cup {d})} ELSE {})

\* Mutant: only live documents are looked after.
RepairsLive(r, d) ==
  /\ retr[r].step = "repair" /\ d \in retr[r].todo
  /\ up /\ Unlocked
  /\ retr' = [retr EXCEPT ![r].todo = @ \ {d}]
  /\ coll' = IF Live(d) THEN Indexed(retr[r].at, d, row[d]) ELSE coll
  /\ UNCHANGED <<row, inforce, next, saved, up, ask, raced, bounds>>
\* ... and repairs, each document as the database has it by then.
Repairs(r, d) ==
  /\ retr[r].step = "repair" /\ d \in retr[r].todo
  /\ up /\ Unlocked
  /\ Fits(r) \/ ~Live(d) \/ row[d] \notin Indexable
  /\ retr' = [retr EXCEPT ![r].todo = @ \ {d}]
  /\ coll' = IF Live(d) THEN Indexed(retr[r].at, d, row[d]) ELSE Cleared(retr[r].at, d)
  /\ UNCHANGED <<row, inforce, next, saved, up, ask, raced, bounds>>

Done(r) == retr[r].step = "repair" /\ retr[r].todo = {}

\* A pass is over, of the retriever in force or of one it has replaced.
Repaired(r) ==
  /\ Done(r) /\ r # next
  /\ retr' = [retr EXCEPT ![r].step = IF r = inforce THEN "idle" ELSE "off",
                          ![r].synced = TRUE]
  /\ UNCHANGED <<row, coll, inforce, next, saved, up, ask, raced, bounds>>

\* The start or the pass ends, and with it the settings save that waits for it: what it
\* had changed falls back to the environment's.
Ends(r) ==
  /\ retr' = [retr EXCEPT
       ![r] = IF r = inforce
                THEN [@ EXCEPT !.step = "idle", !.todo = {},
                               !.at = IF retr[r].step = "switch" THEN retr[r].width ELSE retr[r].at]
                ELSE Off]
  /\ next' = IF r = next THEN None ELSE next
  /\ saved' = IF r = next THEN First ELSE saved
  /\ raced' = IF r = inforce THEN raced \cup retr[r].todo ELSE raced

\* What a repair that is broken off leaves behind.
HalfRepaired(r) ==
  IF retr[r].step = "repair" /\ Unlocked
  THEN UNION {IF Live(d) THEN BrokenOff(r, d, row[d]) ELSE {coll, Cleared(retr[r].at, d)} :
              d \in retr[r].todo}
  ELSE {}

\* The store is unreachable, perhaps since a document was cleared to be indexed anew or
\* since some of its batches were stored.
Fails(r) ==
  /\ ~up /\ retr[r].step \notin {"idle", "off"} /\ ~Done(r)
  /\ coll' \in {coll} \cup HalfRepaired(r)
  /\ Ends(r)
  /\ UNCHANGED <<row, inforce, up, ask, bounds>>

\* The store refuses vectors of another width, when the document has been cleared.
Refused(r, d) ==
  /\ retr[r].step = "repair" /\ d \in retr[r].todo
  /\ up /\ Unlocked
  /\ ~Fits(r) /\ Live(d) /\ row[d] \in Indexable
  /\ coll' = Cleared(retr[r].at, d)
  /\ Ends(r)
  /\ UNCHANGED <<row, inforce, up, ask, bounds>>

-----------------------------------------------------------------------------
(* A settings save that changes the embedder (Services.reload). *)

\* The file is written first; what runs is rebuilt if it is of another width.
Reload(w) ==
  /\ reloads < Reloads /\ next = None /\ w # saved
  /\ saved' = w
  /\ IF w = retr[inforce].width
     THEN UNCHANGED <<retr, next>>
     ELSE LET r == Other(inforce) IN
          /\ retr[r].step = "off" /\ (ask # None => ask.to # r)
          /\ retr' = [retr EXCEPT ![r] = Fresh(w)]
          /\ next' = r
  /\ reloads' = reloads + 1
  /\ UNCHANGED <<row, coll, inforce, up, ask, raced, edits, troubles>>

\* Built and filled, it is put in force.
Swaps(r) ==
  /\ r = next /\ Done(r)
  /\ inforce' = r /\ next' = None
  /\ retr' = [retr EXCEPT
       ![r].step = "idle", ![r].synced = TRUE,
       ![inforce].step = IF @ = "idle" THEN "off" ELSE @]
  /\ UNCHANGED <<row, coll, saved, up, ask, raced, bounds>>

-----------------------------------------------------------------------------
(* What operators ask for, of the retriever in force when they ask. *)

Asks(kind, d, t) ==
  /\ ask = None /\ edits < Edits
  /\ kind = "delete" => Live(d) \/ Holds(retr[inforce].at, d) # None
  /\ ask' = [kind |-> kind, doc |-> d, text |-> t, to |-> inforce, half |-> FALSE]
  /\ edits' = edits + 1
  /\ UNCHANGED <<row, coll, retr, inforce, next, saved, up, raced, reloads, troubles>>

Asked(kind, half) == ask # None /\ ask.kind = kind /\ ask.half = half

Races == raced' = IF next # None \/ ask.to # inforce THEN raced \cup {ask.doc} ELSE raced

\* index_text(): saved first, ...
Saves ==
  /\ Asked("upload", FALSE)
  /\ row' = [row EXCEPT ![ask.doc] = ask.text]
  /\ ask' = [ask EXCEPT !.half = TRUE]
  /\ Races
  /\ UNCHANGED <<coll, retr, inforce, next, saved, up, bounds>>

\* ... then indexed, where the collection has the width.  It is cleared before that
\* shows, and before the store can fail.
Indexes ==
  /\ Asked("upload", TRUE)
  /\ \/ /\ up /\ Fits(ask.to)
        /\ coll' = Indexed(retr[ask.to].at, ask.doc, ask.text)
     \/ /\ ~up \/ ~Fits(ask.to)
        /\ coll' \in BrokenOff(ask.to, ask.doc, ask.text)
  /\ ask' = None
  /\ Races
  /\ UNCHANGED <<row, retr, inforce, next, saved, up, bounds>>

\* delete_source(): out of the index first, or not at all, ...
Unindexes ==
  LET n == retr[ask.to].at IN
  /\ Asked("delete", FALSE)
  /\ \/ /\ up /\ Exists(n)
        /\ coll' = Cleared(n, ask.doc)
        /\ ask' = [ask EXCEPT !.half = TRUE]
     \/ /\ ~up \/ ~Exists(n)
        /\ ask' = None
        /\ UNCHANGED coll
  /\ Races
  /\ UNCHANGED <<row, retr, inforce, next, saved, up, bounds>>

\* ... then of the database, but for its name.
Forgets ==
  /\ Asked("delete", TRUE)
  /\ row' = [row EXCEPT ![ask.doc] = IF @ = "unknown" THEN @ ELSE "deleted"]
  /\ ask' = None
  /\ Races
  /\ UNCHANGED <<coll, retr, inforce, next, saved, up, bounds>>

-----------------------------------------------------------------------------
GoesDown ==
  /\ Trouble /\ up
  /\ up' = FALSE
  /\ UNCHANGED <<row, coll, retr, inforce, next, saved, ask, raced, reloads, edits>>

ComesBack ==
  /\ ~up
  /\ up' = TRUE
  /\ UNCHANGED <<row, coll, retr, inforce, next, saved, ask, raced, bounds>>

\* The process is started again, with the settings as saved; whoever had the lock may
\* have been half way through a document.
Crash ==
  /\ Trouble
  /\ coll' \in {coll} \cup (UNION {HalfRepaired(r) : r \in Retriever})
              \cup (IF Asked("upload", TRUE) THEN BrokenOff(ask.to, ask.doc, ask.text) ELSE {})
  /\ retr' = [r1 |-> Fresh(saved), r2 |-> Off]
  /\ inforce' = "r1" /\ next' = None
  /\ ask' = None /\ raced' = {}
  /\ UNCHANGED <<row, saved, up, reloads, edits>>

Pass(r) ==
  \/ Ensure(r) \/ EnsureUnread(r) \/ Adopts(r) \/ Switches(r) \/ Backfills(r) \/ Surveys(r)
  \/ \E d \in Docs : Repairs(r, d) \/ Refused(r, d)
  \/ Repaired(r) \/ Fails(r) \/ Swaps(r)

Answers == Saves \/ Indexes \/ Unindexes \/ Forgets

Next ==
  \/ Begins \/ \E r \in Retriever : Pass(r)
  \/ \E w \in Widths : Reload(w)
  \/ \E d \in Docs : Asks("delete", d, None) \/ \E t \in Upload : Asks("upload", d, t)
  \/ Answers
  \/ GoesDown \/ ComesBack \/ Crash

Spec == Init /\ [][Next]_vars

\* Outages end, the healer comes round, and the tasks go on.
FairSpec ==
  /\ Spec /\ WF_vars(ComesBack) /\ WF_vars(Begins) /\ WF_vars(Answers)
  /\ \A r \in Retriever : WF_vars(Pass(r))

-----------------------------------------------------------------------------
Held == Upload \cup {"recovered", "legacy"}

TypeOK ==
  /\ row \in [Docs -> Upload \cup {"recovered", "unknown", "deleted"}]
  /\ coll \in [Name -> [width : Widths \cup {None}, holds : [Docs -> Held \cup {None}],
                        torn : SUBSET Docs]]
  /\ retr \in [Retriever -> [width : Widths, at : Name, ready : BOOLEAN, synced : BOOLEAN,
       blind : BOOLEAN, step : {"off", "idle", "ensure", "adopt", "switch", "backfill", "survey", "repair"},
       todo : SUBSET Docs]]
  /\ inforce \in Retriever /\ next \in Retriever \cup {None} /\ saved \in Widths
  /\ up \in BOOLEAN /\ raced \subseteq Docs
  /\ ask \in {None} \cup [kind : {"upload", "delete"}, doc : Docs, text : Upload \cup {None},
                          to : Retriever, half : BOOLEAN]
  /\ reloads \in 0 .. Reloads /\ edits \in 0 .. Edits /\ troubles \in 0 .. Troubles

\* A retriever that answers searches a collection of its embedder's width, whatever
\* failed or crashed while it was looking for one: with another, "every upsert and
\* every search failed at the API", which nobody can tell from an empty index.  Not so
\* one that could not read the width of the collection, and took it as it was.
ServesItsWidth == LET r == retr[inforce] IN r.ready /\ ~r.blind => coll[r.at].width = r.width

\* "Anything only the old collection holds is copied into the database first": there is
\* no second collection while a document is known to the first alone.
NothingStranded ==
  \A d \in Docs, n \in Name : row[d] = "unknown" /\ Holds(n, d) # None =>
    n = "base" /\ \A w \in Widths : ~Exists(w)

\* However far a move to another embedder came, the collection callers are answered
\* from can answer, and no document was left behind in another.
CollectionsSound == ServesItsWidth /\ NothingStranded

\* "A deleted document stays deleted when an old index is read again": reconciled once,
\* the index in force holds no document that was deleted, but for those that were
\* changed while a retriever was exchanged, and these no longer than to the next pass.
WithdrawnIsOut ==
  LET r == retr[inforce] IN
  r.synced => \A d \in Docs \ (raced \cup r.todo) : row[d] = "deleted" => Holds(r.at, d) = None

\* "The old collection is left exactly as it was: the retriever being replaced may still
\* be serving calls from it": while the index callers are answered from is ready, no
\* other retriever changes it, be it built beside it or replaced with a pass under way,
\* unless one of the two took its collection without having read its width.
Sighted(r) == ~retr[r].blind
OldIsLeft ==
  [][\A r \in Retriever \ {inforce} :
       Pass(r) /\ retr[inforce].ready /\ Sighted(r) /\ Sighted(inforce) =>
         coll'[retr[inforce].at] = coll[retr[inforce].at]]_vars

\* "A fact split across a boundary is still retrievable": a document that was uploaded
\* and is answered from is found by whatever it says.  Each telling sentence of its text,
\* as of any of Probes it might have had, is whole in one of its passages, and these
\* are short; unless only some of its batches were stored.
ProbesTell == \A text \in Probes : SentencesKept(text) /\ PassagesShort(text)
PassagesTell ==
  \A d \in Docs \ coll[retr[inforce].at].torn : LET t == Holds(retr[inforce].at, d) IN
    t \in Upload => SentencesKept(Texts[t]) /\ PassagesShort(Texts[t]) /\ ProbesTell

\* When exchanges, changes and troubles have ceased, the index in force comes to hold
\* each live document that has a passage in the version the database has, and no deleted
\* one, if its width is the retriever's.  Of a document whose indexing was broken off
\* between two batches that may be some of them, which every pass takes for all.
CorpusFollows ==
  <>[](Fits(inforce) => \A d \in Docs :
         /\ Live(d) /\ row[d] \in Indexable => Holds(retr[inforce].at, d) = row[d]
         /\ row[d] = "deleted" => Holds(retr[inforce].at, d) = None)

-----------------------------------------------------------------------------
(* What the repository says of the index and the code does not do. *)

\* "A source name is the document, so indexing it again means it was corrected":
\* in the end no superseded text is searchable.
SupersededGoes ==
  <>[](\A d \in Docs : Live(d) => Holds(retr[inforce].at, d) \in {row[d], None})

\* What _rebuild() says of an exchange, without the exception OldIsLeft makes: "The old
\* collection is left exactly as it was" (rag/retriever.py:215-217).  Where the width of
\* the collection could not be read there is no _rebuild: the retriever that is built
\* repairs the collection in force, that is, it clears documents the store then refuses.
OldIsNeverTouched ==
  [][\A r \in Retriever \ {inforce} :
       Pass(r) /\ retr[inforce].ready =>
         coll'[retr[inforce].at] = coll[retr[inforce].at]]_vars
=============================================================================
