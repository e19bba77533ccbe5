----------------------------- MODULE TcpFraming -----------------------------
(***************************************************************************)
(* How the plain TCP server finds and judges a message at the front of its *)
(* buffer.  A byte stream is a sequence of symbols: CR and LF, one symbol  *)
(* for the text of a line, and one for each other byte of a payload.       *)
(***************************************************************************)
EXTENDS Integers, Sequences, FiniteSetsExt

CONSTANTS
    Request,      \* Request[l]: what start line l asks for, [method, dir, name]
    Headers,      \* lines "key: value"
    Length,       \* Length[l]: the number after "Content-Length:" in line l
    NUL,          \* the byte 0
    HEADER_BLOCK  \* how far Content-Length is looked for (4095)

CR == "CR"
LF == "LF"

\* Where the empty line that ends the headers begins; 0 if there is none.
find_crlfcrlf(buf) ==
    LET found == {i \in 1 .. Len(buf) - 3 : SubSeq(buf, i, i + 3) = <<CR, LF, CR, LF>>}
    IN  IF found = {} THEN 0 ELSE Min(found)

header_len(buf) == find_crlfcrlf(buf) + 3

\* strstr() finds the first line with "Content-Length:", whatever line it is.
content_length(buf) ==
    LET announced == {i \in 1 .. Min({header_len(buf), HEADER_BLOCK}) : buf[i] \in DOMAIN Length}
    IN  IF announced = {} THEN 0 ELSE Length[buf[Min(announced)]]

\* What has not arrived of the payload is not waited for.
total_len_arrived(buf) == Min({header_len(buf) + content_length(buf), Len(buf)})

total_len(buf) == header_len(buf) + content_length(buf)

Complete(buf) == find_crlfcrlf(buf) # 0 /\ total_len(buf) <= Len(buf)

BadRequest == [method |-> "malformed", dir |-> "", name |-> ""]
Other      == [method |-> "other", dir |-> "", name |-> ""]

\* What message m asks for.  What is left of an earlier payload in front of the
\* method makes it another method, in front of a header another header.
check_first_line(m) ==
    LET ends  == {i \in 1 .. find_crlfcrlf(m) : m[i] = CR /\ m[i + 1] = LF}
        first == Min(ends)
    IN  IF \/ first = 1
           \/ m[first - 1] \notin DOMAIN Request
           \/ \E i \in ends \ {first} : m[i - 1] \notin Headers
        THEN BadRequest
        ELSE IF first > 2 THEN Other ELSE Request[m[1]]

\* A C string: what follows the first NUL is lost.
CString(s) == SubSeq(s, 1, Min({i \in DOMAIN s : s[i] = NUL} \cup {Len(s) + 1}) - 1)

\* get_body() and my_strdup(): the payload of m as it is stored.
get_body(m) == CString(SubSeq(m, header_len(m) + 1, Len(m)))
=============================================================================
