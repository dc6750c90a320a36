---------------------------- MODULE MCHttpRelay ----------------------------
(* Bodies of every framing, below, at and above the capture limit, whole   *)
(* and broken in every way the relay distinguishes.                        *)
EXTENDS HttpRelay

MCRequestBodies ==
    {Body("empty", <<>>, "none"), Body("empty", <<>>, "extra"),
     Body("length", <<3>>, "none"), Body("length", <<2>>, "extra"),
     Body("length", <<2>>, "cut"), Body("chunked", <<1, 2>>, "none"),
     Body("chunked", <<2>>, "extra"), Body("invalid", <<1>>, "none")}

MCResponseBodies ==
    {Body("empty", <<>>, "none"), Body("length", <<>>, "none"),
     Body("length", <<3>>, "none"), Body("length", <<2>>, "cut"),
     Body("eof", <<2, 1>>, "none"), Body("invalid", <<1>>, "none"),
     Body("chunked", <<2>>, "none"), Body("chunked", <<1, 2>>, "trailer"),
     Body("chunked", <<2>>, "extra"), Body("chunked", <<1>>, "cut")}
    \cup {Body("chunked", <<1>>, f) :
             f \in {"bad_size", "bad_end", "long_size", "long_trailer"}}

MCTunnels == {<<>>, <<"text", "close">>, <<"ping", "text">>}
=============================================================================
