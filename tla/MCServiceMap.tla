---------------------------- MODULE MCServiceMap ----------------------------
(* What peers send in the small instances, on both sides of each size and  *)
(* each condition that the services test.                                  *)
EXTENDS ServiceMap

(* FTP: small directories, so that a few changes fill the buffer. *)
MCPaths == {<<>>, <<"/", "a">>, <<"b", "b">>}
MCHome == <<"/", "v", "h">>
MCParent == <<"/", "v">>

(* MySQL: the sequence byte, the command, the first byte of a query and    *)
(* that of the name are reached or not.                                    *)
MCMySqlSizes == {3, 5, 6, 36, 37}

(* SMTP: each command, an empty line, a NUL, the dot, a text that is not   *)
(* kept once the mail is nearly full, a line longer than the buffer, and   *)
(* credentials of which the encodings end with each padding.               *)
MCCredentials ==
  {[user |-> <<117>>, password |-> <<112, 119>>], [user |-> <<117, 118>>, password |-> <<112, 119, 255>>]}
MCSmtpLines ==
  UNION {{Base64Encode(c.user), Base64Encode(c.password)} : c \in MCCredentials}
    \cup {IF Len(c.user) = 1 THEN <<"AUTH PLAIN", SP>> \o PlainText(c) ELSE PlainText(c) :
             c \in MCCredentials}
    \cup {<<v>> : v \in {"EHLO", "AUTH LOGIN", "AUTH PLAIN", "DATA", "QUIT", "."}}
    \cup {<<>>, <<"a", NUL, "b">>, [i \in 1 .. 16 |-> IF i = 16 THEN "." ELSE "a"]}

(* Redis: words of one and two letters, so that a cut may fall in one; a   *)
(* QUIT, an AUTH, an empty line; a line and an array beyond the limits,    *)
(* with too many arguments and one that is too long; and NULs enough to    *)
(* fill the buffer.                                                        *)
Word(a) == <<Byte(a)>>
MCRedisAuth == Word("u")
MCRedisClosers == {Word("q")}
MCRedisSends ==
  {[form |-> "inline", argv |-> v] :
     v \in {<<>>, <<Word("q")>>, <<Word("a") \o Word("b")>>}}
    \cup {[form |-> "array", argv |-> <<Word("u"), Word("a")>>]}
MCRedisOddSends ==
  LET long == <<Word("a") \o Word("b") \o Word("c"), Word("a"), Word("a")>>
  IN  MCRedisSends \cup {[form |-> f, argv |-> long] : f \in {"inline", "array"}}
        \cup {[form |-> "nuls"]}

(* PostgreSQL and QuestDB: lists with the user first, second, as a value   *)
(* and not at all; the same cut short at every place; and a list that      *)
(* fills the buffer and does not end its last string.                      *)
MCLists ==
  {<<>>, <<<<USER, "u">>>>, <<<<"db", USER>>, <<"db", "u">>>>, <<<<"db", "d">>, <<USER, "u">>>>,
   <<<<"db", USER>>, <<USER, "u">>>>}
MCBodies ==
  UNION {{SubSeq(Parameters(l), 1, n) : n \in 0 .. Len(Parameters(l))} : l \in MCLists}
    \cup {<<NUL>>, <<USER, NUL, "u", "v", "w", NUL>>,
          <<"db", NUL, "d", NUL, "a", NUL, USER, NUL, "u">>}
MCLeftovers == {<<>>, <<"x">>, <<"x", "y">>}
MCPasswords == {<<NUL>>, <<"m", NUL>>, <<"m", "d", "5", NUL>>}
Message1(type, sql) == [type |-> type, sql |-> sql]
MCQuestSegments ==
  {<<Message1("Q", <<v, "t", NUL>>)>> : v \in {"SELECT", "DROP"}}
    \cup {<<Message1("Q", <<"other", CR, LF, NUL>>)>>, <<Message1("Q", <<NUL>>)>>,
          <<Message1("P", <<"SELECT", NUL>>)>>, <<Message1("S", <<>>)>>, <<Message1("X", <<>>)>>,
          <<Message1("P", <<"SELECT", NUL>>), Message1("S", <<>>)>>,
          <<Message1("Q", <<"SELECT", NUL>>), Message1("X", <<>>)>>}

(* POP3 and IMAP: whole lines, two lines in a segment, a part of a line.   *)
Line(s) == s \o <<CR, LF>>
MCPop3Segments ==
  {Line(s) : s \in {<<>>, <<"USER", "u">>, <<"USER", "v", "v", "v", "v">>, <<"USER">>,
                    <<"PASS", "p">>, <<"PASS">>, <<"CAPA">>, <<"NOOP">>, <<"STAT">>, <<"QUIT">>}}
    \cup {Line(<<"USER", "u">>) \o Line(<<"PASS", "p">>), <<"U">>}
MCImapWords == {<<>>, <<"u">>, <<"p", "p", "p", "p">>, <<"p", SP, "p">>}
MCLogins ==
  UNION {{<<"LOGIN">> \o u \o <<SP>> \o p : u \in Written(user), p \in Written(password)} :
           user \in MCImapWords, password \in MCImapWords}
MCImapSegments ==
  {Line(<<"t", SP>> \o c) :
     c \in MCLogins \cup {<<"LOGIN">>, <<"LOGIN", "u">>, <<"LOGIN", QUOTE, "u">>,
                          <<"LOGIN", "u", SP, QUOTE, "p">>, <<"AUTHENTICATE">>,
                          <<"NOOP">>, <<"LOGOUT">>, <<>>}}
    \cup {Line(<<"t", "t", "t", SP, "NOOP">>), Line(<<"LOGOUT">>), Line(<<"a">>), Line(<<>>),
          Line(<<"t", SP, "LOGIN", "u", SP, "p">>) \o Line(<<"t", SP, "LOGOUT">>)}

(* DNS: names of up to three labels, queries for an address, for the zone  *)
(* and for something else, of a size that leaves room for an answer or     *)
(* not, with and without a length, cut short; and bodies of any bytes.     *)
MCQuestions ==
  [labels : {<<<<97>>>>, <<<<97, 98>>, <<99>>>>, <<<<97>>, <<98, 99, 100>>>>,
             <<<<97, 97, 97, 97>>, <<98, 98>>>>},
   type : {1, 2, 252}]
MCHeader == [i \in 1 .. 12 |-> IF i = 6 THEN 1 ELSE 0]
MCQueries == {MCHeader \o Question(q) : q \in MCQuestions}
MCDnsSegments ==
  LET whole == MCQueries \cup {OnTcp(msg) : msg \in MCQueries}
      any == {MCHeader \o body : body \in BoundedSeq({0, 1, 2, 192, 252}, 4)}
      room == {MCHeader \o [i \in 1 .. n |-> IF i % 2 = 1 THEN 1 ELSE 97] \o <<0, 0, 1>> : n \in {6, 8}}
  IN  whole \cup any \cup room \cup {OnTcp(msg) : msg \in any}
        \cup UNION {{SubSeq(s, 1, n) : n \in 1 .. Len(s)} : s \in whole}
=============================================================================
