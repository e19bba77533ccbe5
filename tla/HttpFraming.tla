---------------------------- MODULE HttpFraming ----------------------------
(***************************************************************************)
(* parse_request() and the request loop of handle_connection() on a window *)
(* of received bytes.  A byte stream is a sequence of symbols: CR and LF,  *)
(* "b" for a payload byte, and one symbol for the text of a line:          *)
(*   "GET"   a request line;             "PUT"   a request line with PUT   *)
(*   "bad"   a line without the separator its place asks for               *)
(*   "hdr"   a header of no interest;    "len"   Content-Length: 1         *)
(*   "conn"  Connection: followed by a space and any value, "close" too    *)
(*   "close" Connection:close, without the space                           *)
(***************************************************************************)
EXTENDS Integers, Sequences

CR == "CR"
LF == "LF"
Symbols == {CR, LF, "b", "GET", "PUT", "bad", "hdr", "len", "conn", "close"}

\* Where the first '\r' at or after i is; 0 if there is none.
FirstCR(w, i) ==
    LET S == {j \in i .. Len(w) : w[j] = CR}
    IN  IF S = {} THEN 0 ELSE CHOOSE j \in S : \A k \in S : j <= k

\* memstr() finds a line end at j, or, since it does not step over a '\r'
\* that is not followed by '\n', never returns.
Loops(w, j) == j # 0 /\ ~(j < Len(w) /\ w[j + 1] = LF)

Outcome(verdict, next, n, close) ==
    [verdict |-> verdict, \* "request", "incomplete" (0), "malformed" (-1), "loops"
     next    |-> next,    \* position after the headers
     length  |-> n,       \* payload length
     close   |-> close]   \* process_packet() ends the connection

\* parse_request_line(): the line has the two spaces of a request line, even
\* when stray payload bytes stand before it.
IsRequestLine(w, i, e) == \E j \in i .. e - 1 : w[j] \in {"GET", "PUT"}

\* parse_header(): the line has a colon.
IsHeader(w, i) == w[i] \in {"hdr", "len", "conn", "close"}

\* Whether a request closes that begins with this header line, if its later
\* ones do: the first Connection header is the one that counts (get_header()).
Closes(line, later) == line = "conn" \/ (line # "close" /\ later)

\* The header lines of the request, from position i of window w on.
HeadersOf(w) ==
    LET headers[i \in 1 .. Len(w) + 1] ==
        LET e == FirstCR(w, i) IN
        IF Loops(w, e) THEN Outcome("loops", i, 0, FALSE)
        ELSE IF e = 0 THEN Outcome("incomplete", i, 0, FALSE)
        ELSE IF e = i THEN Outcome("request", i + 2, 0, FALSE)
        ELSE IF ~IsHeader(w, i) THEN Outcome("malformed", i, 0, FALSE)
        ELSE LET rest == headers[e + 2] IN
             [rest EXCEPT !.length = IF w[i] = "len" THEN 1 ELSE @,
                          !.close  = Closes(w[i], @)]
    IN headers

\* The request that starts at position i.  The check that a PUT has a
\* Content-Length reads request->method before it is set, and never fires.
parse_request(w, i) ==
    LET e == FirstCR(w, i) IN
    IF Loops(w, e) THEN Outcome("loops", i, 0, FALSE)
    ELSE IF e = 0 THEN Outcome("incomplete", i, 0, FALSE)
    ELSE IF ~IsRequestLine(w, i, e) THEN Outcome("malformed", i, 0, FALSE)
    ELSE LET r == HeadersOf(w)[e + 2] IN
         IF r.verdict = "request" /\ r.next + r.length > Len(w) + 1
         THEN Outcome("incomplete", i, 0, FALSE)
         ELSE r

\* The loop of handle_connection(): requests are answered from the front of
\* window w, which starts at position `base` of the client's stream, until one
\* is incomplete, malformed or closes.  An answer is the position in the stream
\* up to which it has consumed, and whether it is a 400.
AnswerWindow(w, base) ==
    LET from[i \in 1 .. Len(w) + 1] ==
        LET r == parse_request(w, i)
            end == r.next + r.length
        IN
        CASE r.verdict = "loops"      -> [state |-> "loops", left |-> i, answers |-> <<>>]
          [] r.verdict = "incomplete" -> [state |-> "open", left |-> i, answers |-> <<>>]
          [] r.verdict = "malformed"  ->
                 [state |-> "closed", left |-> i,
                  answers |-> <<[upto |-> base + i - 1, bad |-> TRUE]>>]
          [] OTHER ->
                 LET first == [upto |-> base + end - 1, bad |-> FALSE] IN
                 IF r.close
                 THEN [state |-> "closed", left |-> end, answers |-> <<first>>]
                 ELSE [from[end] EXCEPT !.answers = <<first>> \o @]
    IN from[1]
=============================================================================
