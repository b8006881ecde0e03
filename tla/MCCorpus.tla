------------------------------ MODULE MCCorpus ------------------------------
EXTENDS Corpus

Says(n) == [size |-> n, words |-> TRUE, ended |-> TRUE]
Heading(n) == [size |-> n, words |-> TRUE, ended |-> FALSE]
Number == [size |-> 2, words |-> FALSE, ended |-> FALSE]

\* A text of two passages, and one that is too short to have any.
MCTexts == [long |-> <<<<Says(4)>>, <<Says(5)>>>>, short |-> <<<<Says(2)>>>>]

MCLong == [long |-> MCTexts.long]

\* Every text of at most two paragraphs of at most two sentences: short, middling, as
\* long as a passage and longer.
Paragraphs ==
  LET S == {Says(n) : n \in {2, 3, 4, 6, 8}} \cup {Heading(n) : n \in {2, 4}} \cup {Number}
  IN {<<s>> : s \in S} \cup {<<s, t>> : s, t \in S}
MCProbes == {<<p>> : p \in Paragraphs} \cup {<<p, q>> : p, q \in Paragraphs}
=============================================================================
