--------------------------- MODULE TelnetSession ---------------------------
(***************************************************************************)
(* A session of the Telnet service, src/src/service/telnet_honeypot.c:     *)
(* the login dialogue, the shell, the filter for Telnet commands, and what *)
(* the session leaves in the audit trail.                                  *)
(*                                                                         *)
(* The service takes what one recv returns as one line.  The peer's input  *)
(* is modelled as the items it means to send: a byte of text, or a Telnet  *)
(* command.  Encode gives their bytes, StripIac is the code's filter.  A   *)
(* recv may stop anywhere, within a command too; what is left of the       *)
(* command is the first that the next recv returns.                        *)
(***************************************************************************)
EXTENDS Integers, SequencesExt

CONSTANTS
  MaxAuth,      \* TELNET_MAX_AUTH_ATTEMPTS, 2
  LineSize,     \* TELNET_CMD_BUFFER_SIZE, the bytes of a line and its NUL
  NameSize,     \* sizeof(username), 256
  RecvSize,     \* TELNET_RECV_BUFFER_SIZE, 4096
  Exits,        \* the lines telnet_fake_response answers with NULL
  Inputs,       \* the sequences of whole items one recv may return
  MaxCommands   \* bound of the model: the commands given to the shell

ASSUME TelnetAssumption ==
  /\ MaxAuth \in Nat \ {0}
  /\ LineSize \in Nat \ {0}
  /\ NameSize \in Nat \ {0}
  /\ RecvSize \in Nat \ {0}
  /\ <<>> \notin Exits
  /\ Inputs \subseteq Seq(STRING \ {"IAC"})   \* RFC 854: an IAC of the text is escaped
  /\ MaxCommands \in Nat

VARIABLES
  pc,         \* where the handler thread is
  attempts,   \* auth_attempts
  user,       \* username, which lasts for one turn of the loop
  line,       \* line_buf
  read,       \* history: what the last recv returned, see Segments
  echoOff,    \* the peer was told not to echo what is typed
  audit,      \* the kinds of the events recorded, in order
  fdOpen

vars == <<pc, attempts, user, line, read, echoOff, audit, fdOpen>>

(* The bytes the filter tells apart: the commands by their RFC 854 names,  *)
(* OPT an option code, a a letter.                                         *)
Option == {"WILL", "WONT", "DO", "DONT"}
Escape == "IAC"
----------------------------------------------------------------------------
(* The items a peer sends, and their bytes. *)
Bytes(item) ==
  CASE item = "negotiate" -> <<"IAC", "WILL", "OPT">>
    [] item = "subnegotiate" -> <<"IAC", "SB", "OPT", "IAC", "SE">>
    [] item = "nop" -> <<"IAC", "NOP">>
    [] item = "escaped" -> <<"IAC", "IAC">>
    [] OTHER -> <<item>>

(* The text it means by them: a command is none. *)
Meaning(item) ==
  CASE item \in {"negotiate", "subnegotiate", "nop"} -> <<>>
    [] item = "escaped" -> <<"IAC">>
    [] OTHER -> <<item>>

(* All the parts one after the other. *)
Joined(parts) ==
  LET from[i \in 1 .. Len(parts) + 1] ==
        IF i > Len(parts) THEN <<>> ELSE parts[i] \o from[i + 1]
  IN  from[1]

Encode(items) == Joined([i \in 1 .. Len(items) |-> Bytes(items[i])])
Text(items) == Joined([i \in 1 .. Len(items) |-> Meaning(items[i])])

(* What a recv may have got, and left, of the item it stops in: nothing    *)
(* between two items, else the two parts of a command.                     *)
Commands == {"negotiate", "subnegotiate", "nop", "escaped"}
Stops ==
  {[got |-> <<>>, left |-> <<>>]} \cup
  UNION {{[got |-> SubSeq(Bytes(c), 1, k), left |-> SubSeq(Bytes(c), k + 1, Len(Bytes(c)))] :
            k \in 1 .. Len(Bytes(c)) - 1} : c \in Commands}

(* What a recv may return when rest is left of a command: a part of rest;  *)
(* or rest, whole items and a part of another.  At most sizeof(raw) - 1    *)
(* bytes are asked for, and 0 bytes are the end.                           *)
PartOf(rest, k) ==
  [start |-> "within", items |-> <<>>, got |-> <<>>,
   left |-> SubSeq(rest, k + 1, Len(rest)), bytes |-> SubSeq(rest, 1, k)]
WithItems(rest, items, stop) ==
  [start |-> IF rest = <<>> THEN "between" ELSE "within", items |-> items,
   got |-> stop.got, left |-> stop.left, bytes |-> rest \o Encode(items) \o stop.got]
Fits(seg) == seg.bytes # <<>> /\ Len(seg.bytes) <= RecvSize - 1
Segments(rest) ==
  {seg \in {PartOf(rest, k) : k \in 1 .. Len(rest) - 1} : Fits(seg)} \cup
  {seg \in {WithItems(rest, items, stop) : items \in Inputs, stop \in Stops} : Fits(seg)}
----------------------------------------------------------------------------
(* Mutated forms, for mutation testing only: a command taken to be two     *)
(* bytes long, an attempt counted twice.                                   *)
CommandOfTwo(src, i) ==
  IF src[i] # "IAC" \/ i = Len(src) THEN 1 ELSE 2
CountTwice(n) == n + 2
----------------------------------------------------------------------------
(* What fits into a buffer of that size, before the NUL. *)
Cut(s, size) == SubSeq(s, 1, Min({Len(s), size - 1}))

(* telnet_strip_iac, at place i of src: how many bytes the step of the     *)
(* loop takes.                                                             *)
StepLength(src, i) ==
  IF src[i] # Escape \/ i = Len(src) THEN 1
  ELSE CASE src[i + 1] = "SB" ->
              LET ends == {j \in i + 2 .. Len(src) - 1 : src[j] = Escape /\ src[j + 1] = "SE"}
              IN  IF ends = {} THEN Len(src) - i + 1 ELSE Min(ends) + 2 - i
         [] src[i + 1] \in Option -> 3
         [] OTHER -> 2

(* And what it writes. *)
StepOutput(src, i) ==
  IF src[i] # Escape \/ i = Len(src) THEN <<src[i]>>
  ELSE IF src[i + 1] = Escape THEN <<Escape>> ELSE <<>>

(* The loop: src and what it wrote so far, from place i on. *)
StripIac(src) ==
  LET loop[i \in 1 .. Len(src) + 3] ==
        IF i > Len(src) THEN <<>>
        ELSE StepOutput(src, i) \o loop[i + StepLength(src, i)]
  IN  IF src = <<>> THEN <<>>
      ELSE Cut(loop[1], LineSize)

(* The line is a C string: it ends at the first NUL, and telnet_strip_crlf *)
(* takes every CR and LF off its end.                                      *)
CString(s) ==
  LET nul == SelectInSeq(s, LAMBDA b : b = "NUL") IN IF nul = 0 THEN s ELSE SubSeq(s, 1, nul - 1)
StripCrlf(s) ==
  SubSeq(s, 1, SelectLastInSeq(s, LAMBDA b : b \notin {"CR", "LF"}))

(* telnet_read_line, when recv returned bytes. *)
ReadLine(raw) == StripCrlf(CString(StripIac(raw)))

(* The echo after the password was read, whether or not the peer is gone:  *)
(* WONT ECHO is sent before the result is tested.                          *)
EchoAfterPassword == FALSE

NextAttempt(n) == n + 1

(* What the shell records of a line: nothing of an empty one. *)
CommandEvent(text) == IF text = <<>> THEN <<>> ELSE <<"COMMAND">>
----------------------------------------------------------------------------
(* The connection event, then the banner and the first prompt. *)
Init ==
  /\ pc = "username"
  /\ attempts = 0
  /\ user = <<>>
  /\ line = <<>>
  /\ read = [start |-> "between", items |-> <<>>, got |-> <<>>, left |-> <<>>, bytes |-> <<>>]
  /\ echoOff = FALSE
  /\ audit = <<"CONNECT">>
  /\ fdOpen = TRUE

(* The user name is read; IAC WILL ECHO and the password prompt are sent. *)
ReadUser(seg) ==
  /\ pc = "username"
  /\ line' = ReadLine(seg.bytes)
  /\ read' = seg
  /\ user' = Cut(line', NameSize)
  /\ echoOff' = TRUE
  /\ pc' = "password"
  /\ UNCHANGED <<attempts, audit, fdOpen>>

(* The password is read and the pair recorded, always as a failure; after  *)
(* the last attempt the peer is let in, before that it is asked again.     *)
ReadPassword(seg) ==
  /\ pc = "password"
  /\ line' = ReadLine(seg.bytes)
  /\ read' = seg
  /\ user' = <<>>
  /\ echoOff' = EchoAfterPassword
  /\ audit' = Append(audit, "AUTH_FAILURE")
  /\ attempts' = NextAttempt(attempts)
  /\ pc' = IF attempts' >= MaxAuth THEN "shell" ELSE "username"
  /\ UNCHANGED fdOpen

(* A line of the shell: an empty one is passed over, the others are        *)
(* recorded and answered, and exit or logout ends the session.             *)
ReadCommand(seg) ==
  /\ pc = "shell"
  /\ Len(audit) < MaxAuth + 1 + MaxCommands
  /\ line' = ReadLine(seg.bytes)
  /\ read' = seg
  /\ audit' = audit \o CommandEvent(line')
  /\ pc' = IF line' \in Exits THEN "end" ELSE "shell"
  /\ UNCHANGED <<attempts, user, echoOff, fdOpen>>

(* recv returns 0 or an error, wherever the session is. *)
PeerGone ==
  /\ pc \in {"username", "password", "shell"}
  /\ echoOff' = IF pc = "password" THEN EchoAfterPassword ELSE echoOff
  /\ pc' = "end"
  /\ user' = <<>>
  /\ UNCHANGED <<attempts, line, read, audit, fdOpen>>

(* session_end *)
EndSession ==
  /\ pc = "end"
  /\ audit' = Append(audit, "DISCONNECT")
  /\ fdOpen' = FALSE
  /\ pc' = "closed"
  /\ UNCHANGED <<attempts, user, line, read, echoOff>>

Closed == pc = "closed" /\ UNCHANGED vars

Next ==
  \/ \E seg \in Segments(read.left) : ReadUser(seg) \/ ReadPassword(seg) \/ ReadCommand(seg)
  \/ PeerGone
  \/ EndSession
  \/ Closed

Spec == Init /\ [][Next]_vars
----------------------------------------------------------------------------
(* The one byte of a command that the filter takes for text: an IAC that   *)
(* is the last byte received.                                              *)
Shown(got) == IF got = <<Escape>> THEN got ELSE <<>>

(* A recv that begins between two items gives a line that holds the text   *)
(* its peer meant and nothing of the commands around it, cut at the size   *)
(* of the buffer, at a NUL and at the line end, and no sooner: the filter  *)
(* never loses its place in the bytes.  It may stop within a command,      *)
(* negotiation or unfinished subnegotiation: nothing of it is shown but an *)
(* IAC that came last.                                                     *)
LineIsText ==
  LET all == Text(read.items) \o Shown(read.got)
      text == SubSeq(all, 1, Min({Len(all), LineSize - 1}))
  IN  read.start = "between" =>
      /\ IsPrefix(line, text)
      /\ \A i \in 1 .. Len(line) : line[i] # "NUL"
      /\ line # <<>> => Last(line) \notin {"CR", "LF"}
      /\ \A j \in Len(line) + 1 .. Len(text) :
           (\A i \in Len(line) + 1 .. j : text[i] # "NUL") => text[j] \in {"CR", "LF"}

(* The places in the trail of the events of a kind. *)
OfKind(e) == {i \in DOMAIN audit : audit[i] = e}

(* The trail of a session: connect, then each pair as a failure, then      *)
(* commands, then disconnect; every attempt that was answered is there,    *)
(* and at most MaxAuth are taken.  The peer is told not to echo exactly    *)
(* while its password is awaited: it gets its echo back even when it goes  *)
(* away in the middle of the dialogue.                                     *)
DialogueInStep ==
  /\ OfKind("CONNECT") = {1}
  /\ OfKind("AUTH_FAILURE") = 2 .. attempts + 1
  /\ OfKind("DISCONNECT") = IF pc = "closed" THEN {Len(audit)} ELSE {}
  /\ OfKind("COMMAND") = DOMAIN audit \ UNION {OfKind(e) : e \in {"CONNECT", "AUTH_FAILURE", "DISCONNECT"}}
  /\ attempts <= MaxAuth
  /\ echoOff <=> pc = "password"
=============================================================================
