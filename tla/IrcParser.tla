----------------------------- MODULE IrcParser -----------------------------
(***************************************************************************)
(* twitch/irc/parser.go and the way listenContext and the waiting loops of *)
(* twitch/irc/connection.go take a parsed line.  A line is a sequence of   *)
(* tokens: the characters the code looks for (space : @ = ; ! #) are       *)
(* tokens of their own, and what is between two of them is one token.      *)
(***************************************************************************)
EXTENDS Naturals, Sequences, SequencesExt

(* strings.IndexRune, from position p on; 0 where there is none. *)
IndexFrom(s, c, p) == SelectInSubSeq(s, p, Len(s), LAMBDA t : t = c)
Index(s, c) == IndexFrom(s, c, 1)

(* What is before the first c (all of it if there is none), and after it. *)
Before(s, c) == IF Index(s, c) = 0 THEN s ELSE SubSeq(s, 1, Index(s, c) - 1)
After(s, c)  == SubSeq(s, Index(s, c) + 1, Len(s))

(* parseTags: key=value, separated by semicolons; both may be empty. *)
parseTags(msg) ==
  LET from[p \in 1..Len(msg) + 2] ==
        IF p > Len(msg) THEN [ok |-> TRUE, list |-> <<>>]
        ELSE LET eq   == IndexFrom(msg, "=", p)
                 next == IndexFrom(msg, ";", eq + 1)
                 semi == IF next = 0 THEN Len(msg) + 1 ELSE next
             IN IF eq = 0 THEN [ok |-> FALSE, list |-> <<>>]
                ELSE [ok   |-> from[semi + 1].ok,
                      list |-> <<[key   |-> SubSeq(msg, p, eq - 1),
                                  value |-> SubSeq(msg, eq + 1, semi - 1)]>>
                                 \o from[semi + 1].list]
  IN from[1]

(* Broken variant: a parameter that starts with a colon ends at a space.   *)
argumentsWithoutTrailer(msg) ==
  LET from[p \in 1..Len(msg) + 1] ==
        IF p > Len(msg) THEN <<>>
        ELSE LET spc   == IndexFrom(msg, " ", p)
                 first == IF msg[p] = ":" THEN p + 1 ELSE p
             IN IF spc = 0 THEN <<SubSeq(msg, first, Len(msg))>>
                ELSE <<SubSeq(msg, first, spc - 1)>> \o from[spc + 1]
  IN from[1]

(* The last loop of parseIRCv3: a colon starts the trailer, which may hold *)
(* anything, and every other argument ends at a space.                     *)
arguments(msg) ==
  LET from[p \in 1..Len(msg) + 1] ==
        IF p > Len(msg) THEN <<>>
        ELSE LET spc == IndexFrom(msg, " ", p)
             IN IF msg[p] = ":" THEN <<SubSeq(msg, p + 1, Len(msg))>>
                ELSE IF spc = 0 THEN <<SubSeq(msg, p, Len(msg))>>
                ELSE <<SubSeq(msg, p, spc - 1)>> \o from[spc + 1]
  IN from[1]

(* parseIRCv3: [@tags ] [:prefix ] command [ arguments]. *)
parseIRCv3(msg) ==
  LET starts(s, c) == s # <<>> /\ s[1] = c
      tagged   == starts(msg, "@")
      tags     == parseTags(IF tagged THEN Tail(Before(msg, " ")) ELSE <<>>)
      body     == IF tagged THEN After(msg, " ") ELSE msg
      prefixed == starts(body, ":")
      command  == IF prefixed THEN After(body, " ") ELSE body
      params   == Index(command, " ") # 0
  IN [ok     |-> /\ tagged => Index(msg, " ") # 0 /\ tags.ok
                 /\ body # <<>>
                 /\ prefixed => Index(body, " ") # 0
                 /\ command # <<>>
                 /\ params => After(command, " ") # <<>>,
      tags   |-> tags.list,
      prefix |-> IF prefixed THEN Tail(Before(body, " ")) ELSE <<>>,
      name   |-> Before(command, " "),
      args   |-> IF params THEN arguments(After(command, " ")) ELSE <<>>]

(* The trailer of a message is the last of its arguments. *)
trailer(m) == IF m.args = <<>> THEN <<>> ELSE Last(m.args)

(* listenContext: what becomes of a line.  "reply" is any message that     *)
(* goes to the internal channels alone.                                    *)
listenContext(m) ==
  CASE ~m.ok -> "skipped"
    [] /\ m.name = <<"NOTICE">> /\ Len(m.args) > 1
       /\ m.args[2] = <<"Improperly", " ", "formatted", " ", "auth">> -> "improper"
    [] m.name = <<"PING">> ->
         IF m.args = <<>> \/ m.args[1] = <<>> THEN "badping" ELSE "ping"
    [] m.name = <<"PRIVMSG">> ->
         IF Len(m.args) < 2 \/ Len(m.args[1]) < 2 \/ Index(m.prefix, "!") = 0
         THEN "skipped" ELSE "chat"
    [] m.name = <<"JOIN">> /\ m.args = <<>> -> "skipped"
    [] OTHER -> "reply"

(* The Message a chat line becomes. *)
chatMessage(m) ==
  [sender |-> Before(m.prefix, "!"), channel |-> Tail(m.args[1]), trailer |-> trailer(m),
   tags |-> m.tags]

(* waitForCaps, waitForAuthentication and JoinContext: which of the        *)
(* answers they wait for a message is, for a client with this prefix.      *)
answer(m, prefix, channel) ==
  CASE m.name = <<"CAP">> /\ Len(m.args) > 1 /\ m.args[2] = <<"ACK">> -> "ack"
    [] m.name = <<"376">> -> "welcome"
    [] m.name = <<"NOTICE">> /\ Index(trailer(m), "failed") # 0 -> "failed"
    [] m.name = <<"JOIN">> /\ m.prefix = prefix /\ m.args[1] = <<"#">> \o channel -> "joined"
    [] OTHER -> "system"
=============================================================================
