--------------------------- MODULE WordCountText ---------------------------
(***************************************************************************)
(* The texts of the distributed word count: how the distributor cuts the   *)
(* input file into chunks and the map results into reduce payloads, how a  *)
(* worker counts and formats words, and what is printed in the end.        *)
(* Every C string is a sequence of bytes (naturals) without its final NUL; *)
(* a table of counts (HashMap, entry_t[]) is a bag of words.               *)
(***************************************************************************)
EXTENDS Integers, SequencesExt

CONSTANTS MAX_MSG_LEN,     \* size of a message buffer (1500)
          CHUNK_MAX_SIZE,  \* bytes of text in a chunk (1497)
          MAX_WORD         \* letters kept of a word (sizeof(word) - 1 = 255)

HEADER_LEN == 6                                \* type and three digits
PAYLOAD_MAX == MAX_MSG_LEN - HEADER_LEN - 1    \* of a reduce request

\* The sizes of the code: a chunk fills a message that has a type of three
\* bytes, and the pair that one chunk can give for one word (its letters and
\* one '1' for each occurrence, which costs its letters and a separator) fits
\* a reduce payload.  Both hold for 1500, 1497 and 255.
ASSUME SizeAssumption ==
    /\ {MAX_MSG_LEN, CHUNK_MAX_SIZE, MAX_WORD} \subseteq Nat \ {0}
    /\ CHUNK_MAX_SIZE = MAX_MSG_LEN - 3
    /\ \A l \in 1..MAX_WORD : l + (CHUNK_MAX_SIZE \div (l + 1)) <= PAYLOAD_MAX

-----------------------------------------------------------------------------
(* Bytes *)

Letters == (65..90) \cup (97..122)
Digits  == 48..57
One     == 49                                  \* '1'

tolower_ascii(c) == IF c \in 65..90 THEN c + 32 ELSE c

\* The last index of the run of bytes in C that starts at s[i]; i-1 if none.
RunEnd(s, i, C) == Min({k \in i..Len(s) : s[k] \notin C} \cup {Len(s) + 1}) - 1

\* Where the maximal runs of letters begin.
WordStarts(s) ==
    {i \in DOMAIN s : s[i] \in Letters /\ (i = 1 \/ s[i-1] \notin Letters)}

LettersAt(s, i) == SubSeq(s, i, RunEnd(s, i, Letters))

\* A word as the workers store it: lower case, cut to the size of the buffer.
WordAt(s, i) ==
    LET w == LettersAt(s, i)
    IN  [k \in 1..Min({Len(w), MAX_WORD}) |-> tolower_ascii(w[k])]

\* The run of bytes in C that follows the letters at s[i].
SuffixAt(s, i, C) ==
    LET e == RunEnd(s, i, Letters) + 1 IN SubSeq(s, e, RunEnd(s, e, C))

\* The table after a set of calls hm_put_inc(hm, word, delta).
hm_put_inc(calls) ==
    [w \in {c.word : c \in calls} |->
        MapThenSumSet(LAMBDA c : c.delta, {c \in calls : c.word = w})]

-----------------------------------------------------------------------------
(* Counting: what a text, a map result and a reduce result hold *)

wc_tokenize_and_count(text) ==
    hm_put_inc({[at |-> i, word |-> WordAt(text, i), delta |-> 1] : i \in WordStarts(text)})

\* Only a word that is followed by '1's counts.
wc_from_map_format(payload) ==
    LET Ones(i) == SuffixAt(payload, i, {One})
    IN  hm_put_inc({[at |-> i, word |-> WordAt(payload, i), delta |-> Len(Ones(i))] :
                        i \in {j \in WordStarts(payload) : Ones(j) # <<>>}})

Number(digits) ==
    FoldLeft(LAMBDA v, d : 10 * v + (d - 48), 0, digits)

\* The words that a decimal count follows.
Entries(reduce_data) ==
    LET Digs(i) == SuffixAt(reduce_data, i, Digits)
    IN  {[at |-> i, word |-> LettersAt(reduce_data, i), delta |-> Number(Digs(i))] :
            i \in {j \in WordStarts(reduce_data) : Digs(j) # <<>>}}

\* A count of a word met before is not added to it.
combine_first(reduce_data) ==
    hm_put_inc({e \in Entries(reduce_data) :
                    \A f \in Entries(reduce_data) : f.word = e.word => e.at <= f.at})

\* The words and counts that combine_and_print() sums up.
combine(reduce_data) == hm_put_inc(Entries(reduce_data))

-----------------------------------------------------------------------------
(* Formatting: the replies of a worker *)

Decimal[n \in Nat] ==
    IF n < 10 THEN <<48 + n>> ELSE Append(Decimal[n \div 10], 48 + (n % 10))

\* A comma after every pair.
map_entry_separated(word, count) == word \o [k \in 1..count |-> One] \o <<44>>

map_entry(word, count)    == word \o [k \in 1..count |-> One]
reduce_entry(word, count) == word \o Decimal[count]

Bytes(entries, k) == FlattenSeq(SubSeq(entries, 1, k))

\* The entries that fit msg_len bytes with the final NUL.  The first one that
\* does not sets the overflow flag, and all after it are left out as well.
Format(entries, msg_len) ==
    LET Fits(k) == Len(Bytes(entries, k)) + 1 <= msg_len
    IN  IF msg_len <= 1 THEN <<>>
        ELSE Bytes(entries, Max({k \in 0..Len(entries) : Fits(k)}))

\* The words in the order in which they are visited: it depends on their hashes
\* and on the order of insertion, and may be any.
hm_foreach(hm) == SetToSeqs(DOMAIN hm)

wc_to_map_format(hm, msg_len) ==
    {Format(entries, msg_len) :
        entries \in {[k \in DOMAIN o |-> map_entry(o[k], hm[o[k]])] : o \in hm_foreach(hm)}}

wc_to_reduce_format(hm, msg_len) ==
    {Format(entries, msg_len) :
        entries \in {[k \in DOMAIN o |-> reduce_entry(o[k], hm[o[k]])] : o \in hm_foreach(hm)}}

-----------------------------------------------------------------------------
(* Cutting: chunks of the file and payloads of reduce requests *)

\* The chunk ends before its last separator.
ChunkLength_before_separator(text, at) ==
    LET room == Min({CHUNK_MAX_SIZE, Len(text) - at})
        safe == {k \in 1..room : text[at + k] \notin Letters}
    IN  IF room = CHUNK_MAX_SIZE /\ safe # {} THEN Max(safe) - 1 ELSE room

\* The chunk is not cut back to a separator.
ChunkLength_anywhere(text, at) == Min({CHUNK_MAX_SIZE, Len(text) - at})

\* Number of bytes chunker_next() returns when `at' bytes have been read: a
\* full chunk ends after its last separator, if it has one.
ChunkLength(text, at) ==
    LET room == Min({CHUNK_MAX_SIZE, Len(text) - at})
        safe == {k \in 1..room : text[at + k] \notin Letters}
    IN  IF room = CHUNK_MAX_SIZE /\ safe # {} THEN Max(safe) ELSE room

\* A digit before the cut is enough.
find_safe_split_in_pair(data, max_len) ==
    LET safe == {i \in 1..max_len : data[i] \in Digits}
    IN  IF safe = {} THEN max_len ELSE Max(safe)

\* The last place, at most max_len, where a digit is followed by a letter.
find_safe_split(data, max_len) ==
    LET safe == {i \in 1..max_len : data[i] \in Digits /\ data[i+1] \in Letters}
    IN  IF safe = {} THEN max_len ELSE Max(safe)

ReduceLength(data) ==
    IF Len(data) > PAYLOAD_MAX THEN find_safe_split(data, PAYLOAD_MAX)
                               ELSE Len(data)

\* snprintf(msg, MAX_MSG_LEN, "map%s", ...): what it keeps of the payload.
Truncated(payload) == SubSeq(payload, 1, Min({Len(payload), MAX_MSG_LEN - 4}))

-----------------------------------------------------------------------------
(* The result *)

\* strcmp(v, w) < 0
Precedes(v, w) ==
    LET differ == {k \in 1..Min({Len(v), Len(w)}) : v[k] # w[k]}
    IN  IF differ = {} THEN Len(v) < Len(w)
        ELSE v[Min(differ)] < w[Min(differ)]

\* The lines printed: by count, the largest first, then by word.
Lines(counts) ==
    LET words == DOMAIN counts
        Before(v, w) == \/ counts[v] > counts[w]
                        \/ counts[v] = counts[w] /\ Precedes(v, w)
        nth(k) == CHOOSE w \in words : Cardinality({v \in words : Before(v, w)}) = k - 1
    IN  [k \in 1..Cardinality(words) |-> [word |-> nth(k), count |-> counts[nth(k)]]]
=============================================================================
