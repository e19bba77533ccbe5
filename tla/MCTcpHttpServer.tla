-------------------------- MODULE MCTcpHttpServer --------------------------
(* Two clients with their messages for TLC.                                *)
EXTENDS TcpHttpServer, TLC

CONSTANTS a, b

Asks(method, dir, name) == [method |-> method, dir |-> dir, name |-> name]

MCRequest ==
    ("PUTf" :> Asks("PUT", "dynamic", "f")) @@ ("GETf" :> Asks("GET", "dynamic", "f"))
    @@ ("DELf" :> Asks("DELETE", "dynamic", "f")) @@ ("PUTg" :> Asks("PUT", "dynamic", "g"))
    @@ ("GET/" :> Asks("GET", "dynamic", "")) @@ ("GETs" :> Asks("GET", "static", "s"))
    @@ ("PUTs" :> Asks("PUT", "static", "s")) @@ ("POST" :> Other)

MCLength == ("len2" :> 2) @@ ("len3" :> 3)

EOL == <<CR, LF>>
Line(l) == <<l>> \o EOL
Bare(l) == Line(l) \o EOL
With(l, h, payload) == Line(l) \o Line(h) \o EOL \o payload

\* The PUT of a fills the buffer, and its payload looks like the end of a header.
Full == << With("PUTf", "len2", EOL), Bare("GETf") >>

\* In front of a PUT that is one byte longer than the buffer.
Overlong == << Bare("GETs"), With("PUTf", "len3", <<"v", "v", "v">>) >>

\* With a malformed header, or with a payload that is cut at the NUL.
Malformed == << With("PUTg", "bad", <<>>), Bare("DELf") >>
Cut       == << With("PUTg", "len2", <<"v", NUL>>), Bare("DELf") >>
Refused   == << Bare("PUTs"), Bare("POST") >>

MCScripts == { (a :> Full) @@ (b :> Cut), (a :> Malformed) @@ (b :> Cut),
               (a :> Overlong) @@ (b :> Refused) }

ASSUME MessagesAreFramed == FramedMessages

\* While b waits for its turn, or keeps a waiting, how its data comes matters less.
MCMaxSegments == (a :> 2) @@ (b :> 1)
=============================================================================
