------------------------------ MODULE Chunking ------------------------------
(***************************************************************************)
(* How a document becomes the passages it is searched by                   *)
(* (vaani/rag/chunking.py, chunk_text).  A text is a sequence of           *)
(* paragraphs, a paragraph a sequence of sentences, and of a sentence only *)
(* its size is kept, whether it has letters and whether it is terminated.  *)
(* The whitespace that strip() may take off a passage is not counted.      *)
(***************************************************************************)
EXTENDS Naturals, Sequences, SequencesExt

CONSTANTS
  Target,   \* target_chars
  Overlap,  \* overlap_chars
  Least,    \* the size below which a passage is furniture (12)
  Enough    \* the size from which one among others is text (40)

ASSUME ChunkingAssumption ==
  Target \in Nat \ {0} /\ Overlap \in Nat /\ Least \in Nat \ {0} /\ Enough \in Nat

\* A run of text: its size, the sentences it has whole, as <<paragraph, place>>, and
\* the one, if any, whose end it begins with.
Blank == [size |-> 0, holds |-> <<>>, tail |-> {}]

Join(buf, unit, gap) ==
  IF buf.size = 0 THEN unit
  ELSE [buf EXCEPT !.size = @ + gap + unit.size, !.holds = @ \o unit.holds]

\* Mutant: only the tail of the run before goes on.
RestartTailOnly(buf, unit, lap) ==
  IF lap = 0 THEN unit
  ELSE [size |-> IF buf.size < lap THEN buf.size ELSE lap, holds |-> <<>>, tail |-> {Last(buf.holds)}]
\* The last characters of a run begin the next, if they are to overlap.
Restart(buf, unit, lap) ==
  IF lap = 0 THEN unit
  ELSE [size  |-> (IF buf.size < lap THEN buf.size ELSE lap) + 1 + unit.size,
        holds |-> unit.holds,
        tail  |-> {Last(buf.holds)}]

\* A unit joins the run being filled if it fits; if not, that run is done.
Pack(acc, unit, gap, lap) ==
  IF acc.buf.size > 0 /\ acc.buf.size + unit.size + 1 > Target
    THEN [done |-> Append(acc.done, acc.buf), buf |-> Restart(acc.buf, unit, lap)]
    ELSE [acc EXCEPT !.buf = Join(@, unit, gap)]

\* The runs that units make in their order.
Packed(units, gap, lap) ==
  LET packed[n \in 0 .. Len(units)] ==
        IF n = 0 THEN [done |-> <<>>, buf |-> Blank]
        ELSE Pack(packed[n - 1], units[n], gap, lap)
      end == packed[Len(units)]
  IN IF end.buf.size > 0 THEN Append(end.done, end.buf) ELSE end.done

Sentences(text, i) ==
  [j \in 1 .. Len(text[i]) |->
     [size |-> text[i][j].size, holds |-> <<<<i, j>>>>, tail |-> {}]]

\* A paragraph that fits is one unit, which is what its sentences are packed into; any
\* other is packed by its sentences as well.
UnitsOf(text, i) == Packed(Sentences(text, i), 1, 0)

Units(text) == FlattenSeq([i \in 1 .. Len(text) |-> UnitsOf(text, i)])

\* Page furniture is left out: what is very short or has no letters, and among other
\* passages what is shortish and has no sentence.
Substantive(text, passage, total) ==
  LET In == {text[s[1]][s[2]] : s \in ToSet(passage.holds) \cup passage.tail} IN
  /\ passage.size >= Least
  /\ \E s \in In : s.words
  /\ total = 1 \/ passage.size >= Enough \/ \E s \in In : s.ended

Passages(text) ==
  LET all == Packed(Units(text), 2, Overlap)
  IN {p \in ToSet(all) : Substantive(text, p, Len(all))}

-----------------------------------------------------------------------------
\* The texts there are.
Sentence == [size : Nat, words : BOOLEAN, ended : BOOLEAN]
Text == Seq(Seq(Sentence))

\* A sentence a caller may ask about, as against a heading or a number.
Telling(s) == s.size >= Least /\ s.words /\ s.ended

Places(text) == UNION {{<<i, j>> : j \in 1 .. Len(text[i])} : i \in 1 .. Len(text)}

\* Every such sentence is whole in some passage.
SentencesKept(text) ==
  \A s \in Places(text) : Telling(text[s[1]][s[2]]) =>
    \E p \in Passages(text) : s \in ToSet(p.holds)

\* No passage is longer than the size and the overlap allow, but for a sentence that
\* is longer itself and has no other beside it.
PassagesShort(text) ==
  \A p \in Passages(text) :
    \/ p.size <= Target + 1 + Overlap
    \/ Len(p.holds) = 1 /\ text[p.holds[1][1]][p.holds[1][2]].size > Target
=============================================================================
