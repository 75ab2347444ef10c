------------------------------- MODULE MCSessions -------------------------------
(* Requests of a line and an empty line, an answer with two names, and one *)
(* that is not OK.                                                         *)
EXTENDS Sessions, TLC

CONSTANTS c1, c2

MCReader == Client \X {"own", "other"}
MCByte == {"introduce", "friends", "garbage", "200", "404", "b", "c", "o", NL, CR}
MCRequests == (c1 :> {<<"introduce", NL, CR, NL>>}) @@
              (c2 :> {<<"friends", NL, CR, NL>>, <<"garbage", NL>>})
MCAnswers == {
    [bytes |-> <<"200", NL, CR, NL, "b", "o", NL, "c", NL>>, names |-> {<<"b", "o">>, <<"c">>}],
    [bytes |-> <<"404", NL>>, names |-> {}]}
\* A line that ends headers, or the status of an earlier answer: what is read as
\* if it had come just now.
MCStale == {Copied(s, Uninitialised) : s \in {<<CR, NL>>, <<"200", NL>>}}
=============================================================================
