---------------------------- MODULE MCWordCount ----------------------------
(***************************************************************************)
(* Instances of WordCount for TLC.                                         *)
(***************************************************************************)
EXTENDS WordCount

CONSTANTS w1, w2

TwoWorkers == {w1, w2}

\* The first worker serves two of three ports.
ThreePorts == <<w1, w2, w1>>

A == 65  a == 97  b == 98  sp == 32  d0 == 48  d1 == 49

\* Texts of more than a chunk with one letter: words of every length at every
\* place, up to the pair with the most '1's a chunk can give.
OneLetterTexts ==
    {t \in [1..10 -> {a, sp}] : t[10] = a /\ \A k \in 1..9 : t[k] = a \/ t[k+1] = a}

\* Texts made of pieces: several words, both cases, digits, long words.
Pieces == {<<b, sp>>, <<b, A, sp, a>>, <<d1, sp, b, sp, b>>, <<d0, d0, d1>>,
           <<a, b, a, b, a, b>>}

ComposedTexts == {FlattenSeq(t) : t \in [1..3 -> Pieces]}

AllTexts == {<<>>} \cup OneLetterTexts \cup ComposedTexts
=============================================================================
