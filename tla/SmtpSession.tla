---------------------------- MODULE SmtpSession ----------------------------
(***************************************************************************)
(* A session of the SMTP service, src/src/service/smtp_honeypot.c: lines   *)
(* read byte by byte, the commands, the AUTH dialogues, the mail, and the  *)
(* Base64 decoder.  The service records nothing in the audit trail.        *)
(*                                                                         *)
(* A line is a sequence of bytes; the verb of a command, with its blank,   *)
(* counts as one.  Since recv is called for one byte at a time, it makes   *)
(* no difference how TCP cuts the lines.  What is decoded are numbers.     *)
(***************************************************************************)
EXTENDS Session

CONSTANTS
  SmtpBufSize,      \* SMTP_BUF_SIZE, 4096
  SmtpDataMax,      \* SMTP_DATA_MAX, 65536
  SmtpLines,        \* the lines a peer may send, without their CR LF
  SmtpMaxLines,     \* bound of the model: lines of a session
  SmtpCredentials   \* the pairs of user name and password of peers

(* A byte of a string: any but NUL. *)
Character == 1 .. 255

ASSUME SmtpAssumption ==
  /\ SmtpBufSize \in Nat /\ SmtpBufSize > 3
  /\ SmtpDataMax \in Nat /\ SmtpDataMax > 2
  /\ SmtpMaxLines \in Nat /\ SmtpLines \subseteq Seq(STRING)
  /\ \A x \in SmtpLines : \A i \in 2 .. Len(x) : ~(x[i - 1] = CR /\ x[i] = LF)
  /\ SmtpCredentials \subseteq [user : Seq(Character), password : Seq(Character)]

(* The commands that are answered with a fixed code and do nothing else. *)
SmtpFixed == [EHLO |-> 250, MAIL |-> 250, RCPT |-> 250, VRFY |-> 252, RSET |-> 250]

Base64Digits ==
  <<"A", "B", "C", "D", "E", "F", "G", "H", "I", "J", "K", "L", "M", "N", "O", "P",
    "Q", "R", "S", "T", "U", "V", "W", "X", "Y", "Z", "a", "b", "c", "d", "e", "f",
    "g", "h", "i", "j", "k", "l", "m", "n", "o", "p", "q", "r", "s", "t", "u", "v",
    "w", "x", "y", "z", "0", "1", "2", "3", "4", "5", "6", "7", "8", "9", "+", "/">>

(* local: the bytes of a line that the last read has left; data_len;       *)
(* username; the histories of the lines sent, of the credentials captured  *)
(* with the text they came in, and whether all is as the peer means it: no *)
(* line was longer than the buffer, no send or recv has failed inside a    *)
(* dialogue.                                                               *)
SmtpInit ==
  /\ pc = "banner"
  /\ local = [rest |-> <<>>, mail |-> 0, user |-> <<>>,
              sent |-> <<>>, captured |-> {}, intact |-> TRUE]
  /\ audit = <<>>
  /\ replies = <<>>
  /\ closes = 0
----------------------------------------------------------------------------
(* Mutated forms, for mutation testing only: a mail that may fill its      *)
(* buffer, a password behind the last NUL, which may be of the padding.    *)
DataRoomToTheEnd(len, n) == len + n < SmtpDataMax
LastPart(bytes) ==
  LET nul == SelectLastInSeq(bytes, LAMBDA b : b = 0)
  IN  [user |-> StringAt(bytes, SelectInSeq(bytes, LAMBDA b : b = 0) + 1),
       password |-> StringAt(bytes, nul + 1)]
----------------------------------------------------------------------------
(* base64_decode: a digit is its place in the alphabet, "=" and what is no *)
(* digit are zero.  The g-th four of them give a number of 24 bits, and    *)
(* one byte less than there are digits in the group.                       *)
Sextet(c) ==
  LET at == SelectInSeq(Base64Digits, LAMBDA d : d = c) IN IF at = 0 THEN 0 ELSE at - 1
GroupSize(digits, g) == Min({4, Len(digits) - 4 * (g - 1)}) - 1
GroupBytes(digits, g) ==
  LET at(j) == IF 4 * (g - 1) + j > Len(digits) THEN 0 ELSE Sextet(digits[4 * (g - 1) + j])
      triple == ((at(1) * 64 + at(2)) * 64 + at(3)) * 64 + at(4)
  IN  SubSeq(<<triple \div 65536, (triple \div 256) % 256, triple % 256>>, 1, GroupSize(digits, g))

(* The decoded bytes: there is always room, they are fewer than the        *)
(* digits, and the buffers are of the same size.                           *)
Base64Decode(text) ==
  LET digits == FlattenSeq([i \in 1 .. Len(text) |->
                             IF text[i] \in {CR, LF, SP} THEN <<>> ELSE <<text[i]>>])
  IN  FlattenSeq([g \in 1 .. (Len(digits) + 3) \div 4 |-> GroupBytes(digits, g)])

(* smtp_handle_auth_plain: the strings behind the first NUL and the next.  *)
PlainParts(bytes) ==
  LET first == SelectInSeq(bytes, LAMBDA b : b = 0)
      user == IF first = 0 THEN <<>> ELSE StringAt(bytes, first + 1)
      second == first + Len(user) + 1
  IN  [user |-> user,
       password |-> IF first = 0 \/ second > Len(bytes) THEN <<>> ELSE StringAt(bytes, second + 1)]

Capture(l, text, pair) == [l EXCEPT !.captured = @ \cup {[text |-> text, pair |-> pair]}]
----------------------------------------------------------------------------
(* smtp_recv_line, of these bytes: the line without its CR LF, or as much  *)
(* as fits into the buffer; the bytes it has read.                         *)
LineRead(bytes) ==
  LET ends == {i \in 2 .. Min({Len(bytes), SmtpBufSize - 1}) : bytes[i - 1] = CR /\ bytes[i] = LF}
  IN  IF ends # {} THEN [line |-> SubSeq(bytes, 1, Min(ends) - 2), read |-> Min(ends)]
      ELSE [line |-> Cut(bytes, SmtpBufSize), read |-> SmtpBufSize - 1]
IsReadable(bytes) ==
  \/ Len(bytes) >= SmtpBufSize - 1
  \/ \E i \in 2 .. Len(bytes) : bytes[i - 1] = CR /\ bytes[i] = LF

(* The lines that may be read next, and local after that: what is left of  *)
(* the last one, or else one more from the peer.                           *)
AfterRead(l, bytes) == [l EXCEPT !.rest = SubSeq(bytes, LineRead(bytes).read + 1, Len(bytes))]
Reads ==
  IF IsReadable(local.rest)
  THEN {[line |-> CString(LineRead(local.rest).line), then |-> AfterRead(local, local.rest)]}
  ELSE {LET bytes == local.rest \o new \o <<CR, LF>>
            l == [local EXCEPT !.sent = Append(@, new),
                               !.intact = @ /\ Len(new) + 2 <= SmtpBufSize - 1]
        IN  [line |-> CString(LineRead(bytes).line), then |-> AfterRead(l, bytes)] :
          new \in {x \in SmtpLines : Len(local.sent) < SmtpMaxLines}}

(* A reply, with the number of lines sent by then. *)
Reply(code, l) == replies' = Append(replies, <<code, Len(l.sent)>>)
Stays == UNCHANGED <<audit, closes>>

(* A send fails inside a dialogue: back to the commands. *)
SendFails(l) ==
  /\ local' = [l EXCEPT !.intact = FALSE]
  /\ pc' = "command"
  /\ UNCHANGED replies
----------------------------------------------------------------------------
SmtpBanner ==
  /\ pc = "banner"
  /\ \/ pc' = "command" /\ Reply(220, local)
     \/ pc' = "close" /\ UNCHANGED replies
  /\ UNCHANGED local /\ Stays

(* The loop of run_smtp_service: empty lines are passed over. *)
SmtpCode(verb) ==
  CASE verb \in DOMAIN SmtpFixed -> SmtpFixed[verb]
    [] verb = "QUIT" -> 221
    [] OTHER -> 502
SmtpSimple ==
  /\ pc = "command"
  /\ \E r \in Reads :
       LET line == StripCrlf(r.line)
           verb == IF line = <<>> THEN "" ELSE Head(line)
       IN  /\ verb \notin {"AUTH LOGIN", "AUTH PLAIN", "DATA"}
           /\ local' = r.then
           /\ \/ line = <<>> /\ UNCHANGED replies
              \/ line # <<>> /\ Reply(SmtpCode(verb), r.then)
           /\ pc' = IF verb = "QUIT" THEN "close" ELSE "command"
  /\ Stays

(* A command that begins a dialogue: the challenge is sent. *)
BeginDialogue(verb, code, place) ==
  /\ pc = "command"
  /\ \E r \in Reads :
       /\ StripCrlf(r.line) # <<>> /\ Head(StripCrlf(r.line)) = verb
       /\ verb = "AUTH PLAIN" => \A i \in 2 .. Len(StripCrlf(r.line)) : StripCrlf(r.line)[i] = SP
       /\ \/ /\ Reply(code, r.then)
             /\ local' = [r.then EXCEPT !.mail = 0]
             /\ pc' = place
          \/ SendFails(r.then)
  /\ Stays

(* smtp_handle_auth_login *)
SmtpLogin == BeginDialogue("AUTH LOGIN", 334, "user")
SmtpUser ==
  /\ pc = "user"
  /\ \E r \in Reads :
       \/ /\ local' = [r.then EXCEPT !.user = StripCrlf(r.line)]
          /\ Reply(334, r.then)
          /\ pc' = "password"
       \/ SendFails(r.then)
  /\ Stays
SmtpPassword ==
  /\ pc = "password"
  /\ \E r \in Reads :
       LET text == StripCrlf(r.line)
       IN  /\ local' = Capture(r.then, <<local.user, text>>,
                               [user |-> StringAt(Base64Decode(local.user), 1),
                                password |-> StringAt(Base64Decode(text), 1)])
           /\ Reply(535, r.then)
           /\ pc' = "command"
  /\ Stays

(* smtp_handle_auth_plain, with the text in the command or in a line of    *)
(* its own.                                                                *)
SmtpPlain == BeginDialogue("AUTH PLAIN", 334, "plain")
SmtpPlainText ==
  /\ \E r \in Reads :
       LET line == StripCrlf(r.line)
           blanks == SelectInSeq(Tail(line), LAMBDA c : c # SP)
           text == IF pc = "plain" THEN line ELSE SubSeq(Tail(line), blanks, Len(line) - 1)
       IN  /\ \/ pc = "plain"
              \/ pc = "command" /\ line # <<>> /\ Head(line) = "AUTH PLAIN" /\ blanks # 0
           /\ local' = Capture(r.then, <<text>>, PlainParts(Base64Decode(text)))
           /\ Reply(535, r.then)
           /\ pc' = "command"
  /\ Stays

(* smtp_handle_data: a line is kept if there is room for it and a NUL; the *)
(* dot ends the mail, and so would a full buffer.                          *)
DataRoom(len, n) == len + n + 2 < SmtpDataMax
SmtpData == BeginDialogue("DATA", 354, "data")
SmtpDataLine ==
  /\ pc = "data"
  /\ \E r \in Reads :
       LET dot == r.line = <<".">>
           len == IF ~dot /\ DataRoom(local.mail, Len(r.line))
                  THEN local.mail + Len(r.line) + 1 ELSE local.mail
           ends == dot \/ len >= SmtpDataMax - 1
       IN  /\ local' = [r.then EXCEPT !.mail = len]
           /\ \/ ends /\ pc' = "command" /\ Reply(250, r.then)
              \/ ~ends /\ pc' = "data" /\ UNCHANGED replies
  /\ Stays

(* recv fails: the session ends, or the dialogue, and then the commands    *)
(* are read on.                                                            *)
SmtpRecvFails ==
  /\ \/ pc = "command" /\ pc' = "close" /\ UNCHANGED local
     \/ /\ pc \in {"user", "password", "plain", "data"}
        /\ pc' = "command"
        /\ local' = [local EXCEPT !.intact = FALSE]
  /\ UNCHANGED replies /\ Stays

SmtpClose ==
  /\ pc = "close"
  /\ closes' = CloseSocket
  /\ pc' = "ended"
  /\ UNCHANGED <<local, audit, replies>>

SmtpNext ==
  \/ SmtpBanner \/ SmtpSimple
  \/ SmtpLogin \/ SmtpUser \/ SmtpPassword
  \/ SmtpPlain \/ SmtpPlainText
  \/ SmtpData \/ SmtpDataLine
  \/ SmtpRecvFails \/ SmtpClose
----------------------------------------------------------------------------
(* RFC 4648: three bytes as four digits, padded with "=". *)
Base64Encode(bytes) ==
  LET byte(i) == IF i > Len(bytes) THEN 0 ELSE bytes[i]
      group(g) ==
        LET triple == (byte(3 * g - 2) * 256 + byte(3 * g - 1)) * 256 + byte(3 * g)
            digit(n) == Base64Digits[((triple \div n) % 64) + 1]
            n == Len(bytes) - 3 * (g - 1)
        IN  <<digit(262144), digit(4096),
              IF n = 1 THEN "=" ELSE digit(64), IF n <= 2 THEN "=" ELSE digit(1)>>
  IN  FlattenSeq([g \in 1 .. (Len(bytes) + 2) \div 3 |-> group(g)])

PlainText(c) == Base64Encode(<<0>> \o c.user \o <<0>> \o c.password)

(* The credentials captured are those the peer has encoded, in both        *)
(* mechanisms, whatever the padding at their end.                          *)
SmtpCapturesMeant ==
  service = "smtp" => \A got \in local.captured : \A c \in SmtpCredentials :
    got.text \in {<<PlainText(c)>>, <<Base64Encode(c.user), Base64Encode(c.password)>>}
      => got.pair = c

(* The dialogue stays in step while lines fit into the buffer: each reply  *)
(* belongs to one line, the mail is answered at its first dot, however     *)
(* much of it there was no room for, and no line of a mail is ever taken   *)
(* for a command.  A line counts as the C string it is; the lines of reply *)
(* i are those since the reply before, the last ones are still open.       *)
SmtpInStep ==
  LET lines(i) == (IF i = 1 THEN 1 ELSE replies[i - 1][2] + 1) ..
                  (IF i > Len(replies) THEN Len(local.sent) ELSE replies[i][2])
      asked(i) == IF i = 1 THEN 0 ELSE replies[i - 1][1]
      dots(i) == {p \in lines(i) : CString(local.sent[p]) = <<".">>}
      texts(i) == {p \in lines(i) : StripCrlf(CString(local.sent[p])) # <<>>}
      open == Len(replies) + 1
  IN  service = "smtp" /\ local.intact =>
        /\ \A i \in 2 .. Len(replies) :
             LET last == {replies[i][2]}
             IN  CASE asked(i) = 354 -> dots(i) = last /\ replies[i][1] = 250
                   [] asked(i) = 334 -> lines(i) = last /\ replies[i][1] \in {334, 535}
                   [] OTHER -> texts(i) = last
        /\ IF asked(open) = 354 THEN dots(open) = {} ELSE texts(open) = {}
=============================================================================
