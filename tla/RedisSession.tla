---------------------------- MODULE RedisSession ----------------------------
(***************************************************************************)
(* A session of the Redis service, src/src/service/redis_honeypot.c: the   *)
(* receive buffer, the parsers of RESP arrays and of inline commands, and  *)
(* what is recorded and answered.                                          *)
(*                                                                         *)
(* The buffer holds bytes: a letter, a blank, CR, LF, NUL; the "*" or "$"  *)
(* of a header and its digits count as one byte, which keeps its number.   *)
(* A letter is the same in both cases, as the names of commands are.       *)
(* TCP may cut the bytes of the peer anywhere.                             *)
(***************************************************************************)
EXTENDS Session

CONSTANTS
  RedisSize,      \* REDIS_RECV_BUFFER_SIZE, 4096
  RedisMaxArgs,   \* REDIS_MAX_ARGS, 32
  RedisArgSize,   \* REDIS_MAX_ARG_LEN, 1024
  RedisAuth,      \* the name of AUTH
  RedisClosers,   \* the names of SHUTDOWN and QUIT
  RedisSends,     \* what a peer may send: commands, inline or as an array, or NULs
  RedisMaxSends,  \* bound of the model: of these, in a session
  RedisMaxBatch,  \* bound of the model: of these, in a segment
  RedisMaxRecvs   \* bound of the model: segments of a session

ASSUME RedisAssumption ==
  /\ RedisSize \in Nat /\ RedisSize > 2
  /\ {RedisMaxArgs, RedisArgSize} \subseteq Nat \ {0}
  /\ RedisAuth \notin RedisClosers
  /\ {RedisMaxSends, RedisMaxBatch, RedisMaxRecvs} \subseteq Nat

(* The bytes, as tuples: those of a header carry a number. *)
Byte(c) == <<c>>
Header(c, n) == <<c, n>>
Number(b) == IF Len(b) = 2 THEN b[2] ELSE 0
RedisEol == <<Byte(CR), Byte(LF)>>

(* local: recv_buf up to its NUL and buf_used; the bytes sent and not yet  *)
(* received; the number of segments; the history of what was sent, whether *)
(* the segments are whole commands so far, and whether the peer is gone.   *)
RedisInit ==
  Begins("recv", [mem |-> <<>>, used |-> 0, todo |-> <<>>, recvs |-> 0,
                  sent |-> <<>>, whole |-> TRUE, gone |-> FALSE])
----------------------------------------------------------------------------
(* What a peer sends, and its bytes. *)
InlineBytes(argv) ==
  FlattenSeq([i \in DOMAIN argv |-> IF i = 1 THEN argv[i] ELSE <<Byte(SP)>> \o argv[i]]) \o RedisEol
ArrayBytes(argv) ==
  <<Header("*", Len(argv))>> \o RedisEol \o
  FlattenSeq([i \in DOMAIN argv |->
                <<Header("$", Len(argv[i]))>> \o RedisEol \o argv[i] \o RedisEol])
SendBytes(c) ==
  CASE c.form = "inline" -> InlineBytes(c.argv)
    [] c.form = "array" -> ArrayBytes(c.argv)
    [] c.form = "nuls" -> [i \in 1 .. RedisSize - 1 |-> Byte(NUL)]
----------------------------------------------------------------------------
(* Mutated forms, for mutation testing only: a buffer reset too late,      *)
(* arguments without a limit.                                              *)
ResetLate(used) == IF used >= RedisSize THEN 0 ELSE used
AnyNumber(argc) == argc > 0
----------------------------------------------------------------------------
(* strstr for CR LF and for LF in the buffer from place i on: it stops at  *)
(* a NUL, and not at buf_used.  0 if there is none.                        *)
StrEnd(m, i) ==
  LET nuls == {j \in i .. Len(m) : m[j] = Byte(NUL)} IN IF nuls = {} THEN Len(m) ELSE Min(nuls) - 1
FindCrlf(m, i) ==
  LET at == {j \in i .. StrEnd(m, i) - 1 : m[j] = Byte(CR) /\ m[j + 1] = Byte(LF)}
  IN  IF at = {} THEN 0 ELSE Min(at)
FindLf(m, i) ==
  LET at == {j \in i .. StrEnd(m, i) : m[j] = Byte(LF)} IN IF at = {} THEN 0 ELSE Min(at)

ArgString(s) == Cut(SubSeq(s, 1, StrEnd(s, 1)), RedisArgSize)

(* What a parser returns: a command without arguments is no command. *)
Parsed(argv, consumed) == [argv |-> argv, consumed |-> consumed]
Nothing == Parsed(<<>>, 0)

(* The loop of redis_parse_resp_array: the first i arguments, and the      *)
(* place behind them, 0 when one of them is not there.                     *)
ArrayArgs(m, used, start, argc) ==
  LET arg[i \in 0 .. argc] ==
        IF i = 0 THEN [at |-> start, argv |-> <<>>]
        ELSE LET p == arg[i - 1].at
                 eol == FindCrlf(m, p + 1)
                 n == Number(m[p])
                 text == eol + 2
                 whole == /\ p # 0 /\ p <= used
                          /\ Head(m[p]) = "$"
                          /\ eol # 0 /\ eol <= used
                          /\ n \in Nat
                          /\ text + n + 2 <= used + 1
                          /\ SubSeq(m, text + n, text + n + 1) = RedisEol
             IN  IF whole
                 THEN [at |-> text + n + 2,
                       argv |-> Append(arg[i - 1].argv, ArgString(SubSeq(m, text, text + n - 1)))]
                 ELSE [at |-> 0, argv |-> <<>>]
  IN  arg[argc]

(* The number of arguments that redis_parse_resp_array takes. *)
ArgsFit(argc) == argc \in 1 .. RedisMaxArgs

(* redis_parse_resp_array *)
RespArray(m, used) ==
  LET eol == FindCrlf(m, 1)
      argc == Number(m[1])
      args == ArrayArgs(m, used, eol + 2, argc)
  IN  IF \/ Head(m[1]) # "*" \/ eol = 0 \/ eol > used
         \/ ~ArgsFit(argc) \/ args.at = 0
      THEN Nothing ELSE Parsed(args.argv, args.at - 1)

(* The words of a line, by strtok_r. *)
WordsOf(line) ==
  LET step(words, b) ==
        IF b = Byte(SP) THEN Append(words, <<>>)
        ELSE [words EXCEPT ![Len(words)] = Append(@, b)]
      words == SelectSeq(FoldLeft(step, <<<<>>>>, SubSeq(line, 1, StrEnd(line, 1))),
                         LAMBDA w : w # <<>>)
  IN  [i \in 1 .. Min({Len(words), RedisMaxArgs}) |-> Cut(words[i], RedisArgSize)]

(* What an inline command of which the line ends before eol consumes: the  *)
(* line end is counted as far as it is in the buffer, or, behind an empty  *)
(* line, in any case.                                                      *)
InlineConsumed(m, used, eol) ==
  IF eol = 1 THEN (IF m[1] = Byte(CR) THEN 2 ELSE 1)
  ELSE IF eol > used THEN eol - 1
  ELSE IF m[eol] = Byte(CR) /\ eol < used /\ m[eol + 1] = Byte(LF) THEN eol + 1 ELSE eol

(* redis_parse_inline: up to CR LF, or else LF, or else all of the buffer. *)
Inline(m, used) ==
  LET eol == CASE FindCrlf(m, 1) # 0 -> FindCrlf(m, 1)
               [] FindCrlf(m, 1) = 0 /\ FindLf(m, 1) # 0 -> FindLf(m, 1)
               [] OTHER -> IF m[used] # Byte(NUL) THEN used + 1 ELSE 0
  IN  IF eol = 0 THEN Nothing
      ELSE Parsed(WordsOf(SubSeq(m, 1, eol - 1)), InlineConsumed(m, used, eol))

(* An array if it is one, all of it; anything else is an inline command.   *)
RedisParsed(m, used) ==
  LET array == RespArray(m, used) IN IF array.consumed # 0 THEN array ELSE Inline(m, used)

(* What redis_dispatch_command records of a command. *)
RedisEvents(argv) ==
  IF argv[1] = RedisAuth /\ Len(argv) >= 2
  THEN <<<<"COMMAND", argv>>, <<"AUTH_FAILURE", argv[2]>>>> ELSE <<<<"COMMAND", argv>>>>

(* Its reply, which depends on the name, and for the subcommands on the    *)
(* arguments; and does it end the session?                                 *)
RedisReply(argv) == argv
RedisCloses(argv) == argv # <<>> /\ argv[1] \in RedisClosers

(* The buffer after memmove: what is behind the bytes moved stays, without *)
(* a NUL in front of it.                                                   *)
Moved(m, used, consumed) ==
  [i \in DOMAIN m |-> IF i + consumed <= used THEN m[i + consumed] ELSE m[i]]

(* buf_used before recv. *)
ResetIfFull(used) == IF used >= RedisSize - 1 THEN 0 ELSE used
----------------------------------------------------------------------------
(* recv: the peer sends more, and TCP delivers what fits, or a part of it  *)
(* that ends in the last thing sent.  No room is the end of the session,   *)
(* as recv returns 0.                                                      *)
RedisRecv ==
  LET l == local
      used == ResetIfFull(l.used)
      room == RedisSize - 1 - used
  IN  /\ pc = "recv"
      /\ l.recvs < RedisMaxRecvs
      /\ \E more \in BoundedSeq(RedisSends, RedisMaxBatch) :
           LET bytes == l.todo \o FlattenSeq([i \in DOMAIN more |-> SendBytes(more[i])])
               last == IF more = <<>> THEN Len(bytes) ELSE Len(SendBytes(Last(more)))
           IN  /\ Len(l.sent) + Len(more) <= RedisMaxSends
               /\ \E k \in 0 .. room :
                    /\ k <= Len(bytes)
                    /\ k = room \/ k > Len(bytes) - last
                    /\ bytes # <<>> /\ (room # 0 => k # 0)
                    /\ LET mem == SubSeq(l.mem, 1, used) \o SubSeq(bytes, 1, k)
                       IN  local' = [l EXCEPT !.mem = mem,
                                              !.used = Len(mem),
                                              !.recvs = @ + 1,
                                              !.todo = SubSeq(bytes, k + 1, Len(bytes)),
                                              !.sent = @ \o more,
                                              !.whole = @ /\ k = Len(bytes)
                                                        /\ \A i \in DOMAIN more : more[i].form # "nuls"]
      /\ pc' = IF room = 0 THEN "end" ELSE "parse"
      /\ UNCHANGED <<audit, replies, closes>>

(* One turn of the loop over the buffer. *)
RedisParse ==
  LET l == local
      cmd == RedisParsed(l.mem, l.used)
      left == IF cmd.consumed < l.used THEN l.used - cmd.consumed ELSE 0
  IN  /\ pc = "parse"
      /\ \/ /\ cmd.consumed = 0
            /\ pc' = "recv"
            /\ UNCHANGED <<local, audit, replies>>
         \/ /\ cmd.consumed # 0
            /\ local' = [l EXCEPT !.used = left,
                                  !.mem = IF left = 0 THEN <<>> ELSE Moved(@, l.used, cmd.consumed)]
            /\ \/ /\ cmd.argv = <<>>
                  /\ UNCHANGED <<audit, replies>>
               \/ /\ cmd.argv # <<>>
                  /\ audit' = audit \o RedisEvents(cmd.argv)
                  /\ replies' = Append(replies, RedisReply(cmd.argv))
            /\ pc' = IF RedisCloses(cmd.argv) THEN "end"
                     ELSE IF left = 0 THEN "recv" ELSE "parse"
      /\ UNCHANGED closes

RedisPeerGone ==
  /\ pc = "recv"
  /\ local' = [local EXCEPT !.gone = TRUE]
  /\ pc' = "end"
  /\ UNCHANGED <<audit, replies, closes>>

RedisNext == RedisRecv \/ RedisParse \/ RedisPeerGone \/ EndSession
----------------------------------------------------------------------------
(* The commands that are in what a peer sends.  An argument counts up to   *)
(* its room, an inline command up to its last room for arguments.  An      *)
(* array of more arguments than there is room for is no command, and the   *)
(* inline parser gets it: each of its lines is a command then.             *)
InRoom(argv) ==
  [i \in 1 .. Min({Len(argv), RedisMaxArgs}) |-> Cut(argv[i], RedisArgSize)]
ArrayLines(argv) ==
  <<<<<<Header("*", Len(argv))>>>>>> \o
  FlattenSeq([i \in DOMAIN argv |->
                <<<<<<Header("$", Len(argv[i]))>>>>, <<Cut(argv[i], RedisArgSize)>>>>])
MeantBy(c) ==
  CASE c.form = "nuls" \/ (c.form = "inline" /\ c.argv = <<>>) -> <<>>
    [] c.form = "array" /\ Len(c.argv) > RedisMaxArgs -> ArrayLines(c.argv)
    [] OTHER -> <<InRoom(c.argv)>>

(* Those of a session, up to the first that ends it; and those recorded. *)
RedisMeant ==
  LET all == FlattenSeq([i \in DOMAIN local.sent |-> MeantBy(local.sent[i])])
      closer == SelectInSeq(all, RedisCloses)
  IN  IF closer = 0 THEN all ELSE SubSeq(all, 1, closer)
RedisTaken == LET events == EventsOf("COMMAND") IN [i \in DOMAIN events |-> events[i][2]]

(* As long as TCP cuts no command and the peer sends no NUL, the service   *)
(* records what was sent, in both forms and however many commands come in  *)
(* a segment, in order, and answers each once; at the next recv none is    *)
(* left over.  A command within the limits is recorded as it was sent.     *)
(* One beyond them is not: the line parser drops what there is no room     *)
(* for, arguments are cut, and an array of too many arguments is recorded  *)
(* line by line, its headers as well; but that is all of the harm, and the *)
(* commands behind it are recorded and answered as before.                 *)
RedisRecordsAll ==
  service = "redis" /\ local.whole =>
    /\ IsPrefix(RedisTaken, RedisMeant)
    /\ pc \in {"recv", "end"} => RedisTaken = RedisMeant
    /\ Len(replies) = Len(RedisTaken)

(* Only QUIT, SHUTDOWN and the peer's leaving end a session: the buffer    *)
(* never fills up so that recv is asked for no bytes, whatever is sent.    *)
RedisEndsOnRequest ==
  service = "redis" /\ pc = "end" =>
    local.gone \/ \E i \in DOMAIN replies : RedisCloses(replies[i])

(* redis_honeypot.c, 607: the loop takes the complete commands in the      *)
(* buffer.  So a peer's commands are those in the trail, however TCP cuts  *)
(* them.                                                                   *)
RedisCompleteOnly == service = "redis" => IsPrefix(RedisTaken, RedisMeant)
=============================================================================
