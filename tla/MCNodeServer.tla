---------------------------- MODULE MCNodeServer ----------------------------
(* Clients and streams for TLC.                                            *)
EXTENDS NodeServer, TLC

CONSTANTS a, b

EOL == <<CR, LF>>
Put == <<"PUT">> \o EOL \o <<"len">> \o EOL \o EOL \o <<"b">>

\* a's PUT just fits into the buffer, the one behind it does not.  b's first
\* request ends the connection, or its payload, announced nowhere, makes the
\* line behind it malformed.
PipelinedStreams ==
    (a :> { Put \o <<"PUT">> \o EOL \o <<"hdr">> \o Tail(Put) })
    @@ (b :> { <<"GET">> \o EOL \o <<"conn">> \o EOL \o EOL \o <<"bad">> \o EOL,
               <<"PUT">> \o EOL \o EOL \o <<"b", "bad">> \o EOL })

\* b's payload becomes part of its next request line.
ClosingStreams ==
    (a :> { <<"GET">> \o EOL \o <<"conn">> \o EOL \o EOL \o <<"GET">> })
    @@ (b :> { <<"PUT">> \o EOL \o EOL \o <<"b", "GET">> \o EOL })
=============================================================================
