------------------------------ MODULE IrcLines ------------------------------
(***************************************************************************)
(* The chat client with the lines it reads: IrcChat passes kinds of        *)
(* messages around, and this module says which lines of Twitch each kind   *)
(* stands for, so that the parser and the state machine can be related.    *)
(***************************************************************************)
EXTENDS IrcChat, IrcParser

CONSTANTS
  Texts,    \* the texts of chat messages, as sequences of tokens
  TagLists  \* the tags Twitch may put before a line

(* No key of a tag holds an equals sign, and Twitch escapes the semicolons *)
(* and the spaces of its values.                                           *)
ASSUME LinesAssumption ==
  /\ Texts \subseteq Seq(STRING)
  /\ TagLists \subseteq Seq([key : Seq(STRING \ {"=", " "}), value : Seq(STRING \ {";", " "})])

Me      == <<"me", "!", "me", "@", "me.tmi.twitch.tv">>
Channel == <<"channel">>
FromServer(line) == <<":", "tmi.twitch.tv", " ">> \o line

(* The lines of each kind, in the form the tests of parser.go give them.   *)
Lines ==
  [ping     |-> {<<"PING", " ", ":", "tmi.twitch.tv">>},
   ack      |-> {FromServer(<<"CAP", " ", "*", " ", "ACK", " ", ":", "twitch.tv/tags">>)},
   welcome  |-> {FromServer(<<"376", " ", "me", " ", ":", ">">>)},
   failed   |-> {FromServer(<<"NOTICE", " ", "*", " ", ":", "Login", " ", "authentication",
                              " ", "failed">>)},
   improper |-> {FromServer(<<"NOTICE", " ", "*", " ", ":", "Improperly", " ", "formatted",
                              " ", "auth">>)},
   joined   |-> {<<":">> \o Me \o <<" ", "JOIN", " ", "#">> \o Channel},
   system   |-> {FromServer(<<"001", " ", "me", " ", ":", "Welcome">>),
                 FromServer(<<"CAP", " ", "*", " ", "NAK", " ", ":", "twitch.tv/tags">>),
                 FromServer(<<"USERSTATE", " ", "#">> \o Channel),
                 FromServer(<<"NOTICE", " ", "#">> \o Channel \o <<" ", ":", "slow">>),
                 <<":", "bob", "!", "bob", " ", "JOIN", " ", "#">> \o Channel}]

(* Tags as they are written before a line. The test of an empty last tag
   gives a line with badges=prmium/1 and asserts premium/1 of it
   (parser_test.go:93, 103): the other tests and the code agree on the value
   that the line has, which is the one modelled. *)
Tagged(tags, line) ==
  LET one(i) == tags[i].key \o <<"=">> \o tags[i].value
      all    == FlattenSeq([i \in DOMAIN tags |-> IF i = 1 THEN one(i) ELSE <<";">> \o one(i)])
  IN IF tags = <<>> THEN line ELSE <<"@">> \o all \o <<" ">> \o line

ChatLine(text) ==
  <<":", "bob", "!", "bob", " ", "PRIVMSG", " ", "#">> \o Channel \o <<" ", ":">> \o text

(* A chat line comes out of the parser as the message that was sent. *)
ChatUnderstood ==
  \A tags \in TagLists, text \in Texts :
    LET m == parseIRCv3(Tagged(tags, ChatLine(text))) IN
      /\ listenContext(m) = "chat"
      /\ chatMessage(m) = [sender |-> <<"bob">>, channel |-> Channel, trailer |-> text,
                           tags |-> tags]

(* Every other line is taken for the kind it is of. *)
KindUnderstood(kind) ==
  \A tags \in TagLists, line \in Lines[kind] :
    LET m == parseIRCv3(Tagged(tags, line))
        h == listenContext(m)
    IN IF h = "reply" THEN answer(m, Me, Channel) = kind ELSE h = kind

Understood ==
  [kind \in DOMAIN Lines \cup {"chat"} |->
     IF kind = "chat" THEN ChatUnderstood ELSE KindUnderstood(kind)]

(* Every line a listener handles is taken for what Twitch sent, whatever   *)
(* tags precede it; the text of a chat message may hold any of the         *)
(* characters the parser looks for, and arrives as it was typed, from the  *)
(* one who typed it.  No text makes a chat line an answer the service      *)
(* waits for, or the other way round.                                      *)
LinesUnderstood == \A k \in Conns : lmsg[k] # NoMsg => Understood[lmsg[k].kind]
=============================================================================
