---------------------------- MODULE MCIrcLines ----------------------------
(* An instance of IrcLines for TLC. *)
EXTENDS IrcLines

(* Every text of one to three tokens, those the parser looks for included. *)
ShortTexts == UNION {[1..n -> {" ", ":", "@", ";", "=", "!", "PING"}] : n \in 1..3}

Tag(v) == [key |-> <<"color">>, value |-> v]
SomeTags == {<<>>, <<Tag(<<"red">>)>>, <<Tag(<<>>)>>, <<Tag(<<"=", ":", "x">>), Tag(<<>>)>>}
=============================================================================
