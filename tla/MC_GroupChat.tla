---------------------------- MODULE MC_GroupChat ----------------------------
(* A small instance of GroupChat for TLC. *)
EXTENDS GroupChat, TLC

CONSTANTS n1, n2, u1, u2, u3

\* A ping, noise of a client, and a message in a channel that one device reads.
Authors == u1 :> Outside @@ u2 :> n1 @@ u3 :> Outside
Both(i, j) == n1 :> i @@ n2 :> j
Heard == u1 :> Both(1, 1) @@ u2 :> Both(2, 0) @@ u3 :> Both(1, 1)
Texts == u1 :> << <<"ann">>, <<"!ping">> >> @@ u3 :> << <<"eve">>, <<"!ping">> >>
Words == {"ann", "bot", "eve", "!ping", "pong", "path"}
Channels == u1 :> "public" @@ u2 :> "public" @@ u3 :> "private"

\* No bot serves the private channel; the first bot's name looks like a ping.
Keys == n1 :> {"public"} @@ n2 :> {"public", "private"}
Served == n1 :> {"public"} @@ n2 :> {"public"}
Names == n1 :> << <<"bot">>, <<"!ping">> >> @@ n2 :> << <<"bot">> >>
=============================================================================
