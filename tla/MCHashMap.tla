----------------------------- MODULE MCHashMap -----------------------------
(* Two small tables and two words, one of them in two spellings.           *)
EXTENDS HashMap, TLC

CONSTANTS x, y, the, The, of

\* One table has the default number of buckets, 2, the other a single one,
\* which the words share.
MCLower == (the :> the) @@ (The :> the) @@ (of :> of)
MCHash  == (the :> 0) @@ (The :> 0) @@ (of :> 1)
MCSizes == (x :> {0}) @@ (y :> {1})
=============================================================================
