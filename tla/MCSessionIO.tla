---------------------------- MODULE MCSessionIO ----------------------------
(***************************************************************************)
(* Instances of SessionIO: buffers of a few bytes, so that every split of  *)
(* a line, a terminator and a buffer happens.                              *)
(***************************************************************************)
EXTENDS SessionIO

x == <<"x">>
dot == <<".">>
LongReply == [i \in 1..(BUFFSIZE - 1) |-> "x"]

MCReplies == {LongReply}
MCListings == {<<x>>}
MCMessages == {<<>>, <<dot, <<>>, dot \o x>>}
MCDrafts == {[header |-> <<<<"B", "x">>, <<" ", "x">>, x>>, body |-> <<dot \o dot, x>>]}
=============================================================================
