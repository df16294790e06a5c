--------------------------- MODULE MailboxSession ---------------------------
(***************************************************************************)
(* Sessions of the POP3 and of the IMAP service,                           *)
(* src/src/service/pop3_honeypot.c and imap_honeypot.c.  Both take what    *)
(* one recv returns for one command: a segment may be a line, a part of    *)
(* one, or several.                                                        *)
(*                                                                         *)
(* A segment is a sequence of bytes; the verb of a command, with its       *)
(* blank, counts as one, so that LOGIN only comes behind a tag.  Commands  *)
(* are told apart as far as the service does something else for them than  *)
(* to answer with a fixed text.                                            *)
(***************************************************************************)
EXTENDS Session

CONSTANTS
  Pop3Segments,   \* what recv may return
  ImapSegments,
  NameSize,       \* sizeof(username), sizeof(password), 256
  TagSize,        \* sizeof(tag), 64
  ImapWords,      \* the names and passwords of peers
  Pop3Max,        \* bounds of the model: segments of a session
  ImapMax

ASSUME MailboxAssumption ==
  /\ {NameSize, TagSize} \subseteq Nat \ {0}
  /\ {Pop3Max, ImapMax} \subseteq Nat
  /\ Pop3Segments \cup ImapSegments \cup ImapWords \subseteq Seq(STRING)
  /\ \A s \in Pop3Segments \cup ImapSegments : s # <<>>
  /\ \A w \in ImapWords : "QUOTE" \notin Range(w)
  /\ \A s \in ImapSegments : \A i \in DOMAIN s : s[i] = "LOGIN" => SP \in Range(SubSeq(s, 1, i - 1))

QUOTE == "QUOTE"

(* local: the segments received, and username of POP3. *)
Pop3Init == Begins("pop3", [received |-> 0, user |-> <<>>])
ImapInit == Begins("imap", [received |-> 0])
----------------------------------------------------------------------------
(* Mutated forms, for mutation testing only: a name that outlives its      *)
(* password, a password of which the quotes are kept.                      *)
KeepName(user) == user
RestOfLine(text) == Cut(text, NameSize)
----------------------------------------------------------------------------
(* The text of a segment, after recv and strip_crlf. *)
TextOf(segment) == StripCrlf(CString(segment))

(* Its first byte, which is the NUL of an empty text. *)
FirstByte(text) == IF text = <<>> THEN NUL ELSE Head(text)

(* PASS clears the name. *)
NameAfterPass(user) == <<>>

(* The loop of run_pop3_service: the command is recorded, and for PASS the *)
(* pair too.  STLS, STAT and the like are answered like unknown commands.  *)
Pop3Recv(segment) ==
  LET text == TextOf(segment)
      verb == FirstByte(text)
      command == <<"COMMAND", text>>
      arg == SubSeq(text, 2, Len(text))
  IN  /\ pc = "pop3"
      /\ local.received < Pop3Max
      /\ local' = [local EXCEPT
           !.received = @ + 1,
           !.user = CASE verb = "USER" -> Cut(arg, NameSize)
                      [] verb = "PASS" -> NameAfterPass(@)
                      [] OTHER -> @]
      /\ audit' = audit \o (IF verb = "PASS"
                            THEN <<command, <<"AUTH_FAILURE", local.user, arg>>>>
                            ELSE <<command>>)
      /\ replies' = Append(replies, IF verb \in {"USER", "CAPA", "QUIT", "NOOP"} THEN "+OK" ELSE "-ERR")
      /\ pc' = IF verb = "QUIT" THEN "end" ELSE "pop3"
      /\ UNCHANGED closes

Pop3Next == (\E s \in Pop3Segments : Pop3Recv(s)) \/ PeerGone({"pop3"}) \/ EndSession
----------------------------------------------------------------------------
FirstOf(b, s) == SelectInSeq(s, LAMBDA x : x = b)
From(s, i) == SubSeq(s, i, Len(s))
NoBlanks(s) == From(s, SelectInSeq(Append(s, NUL), LAMBDA x : x # SP))

(* The string in quotes at the beginning of s, and what follows; without   *)
(* the second quote there is none.                                         *)
Quoted(s) ==
  LET end == FirstOf(QUOTE, Tail(s)) IN IF end = 0 THEN <<>> ELSE SubSeq(s, 2, end)
QuotedEnds(s) == FirstOf(QUOTE, Tail(s)) # 0
StartsQuoted(s) == s # <<>> /\ Head(s) = QUOTE

PasswordOf(text) ==
  IF StartsQuoted(text) THEN Cut(Quoted(text), NameSize) ELSE Cut(text, NameSize)

(* imap_parse_login_args: a name without its end leaves both strings       *)
(* empty.                                                                  *)
LoginArgs(args) ==
  LET quoted == StartsQuoted(args)
      blank == FirstOf(SP, args)
      whole == IF quoted THEN QuotedEnds(args) ELSE blank # 0
      user == IF quoted THEN Quoted(args) ELSE SubSeq(args, 1, blank - 1)
      rest == IF quoted THEN NoBlanks(From(args, Len(user) + 3)) ELSE From(args, blank + 1)
  IN  IF whole THEN <<Cut(user, NameSize), PasswordOf(rest)>> ELSE <<<<>>, <<>>>>

(* The tag of a command, "*" for one without a blank, and the command.     *)
TagOf(text) == IF FirstOf(SP, text) = 0 THEN <<"*">> ELSE Cut(SubSeq(text, 1, FirstOf(SP, text) - 1), TagSize)
CommandOf(text) == From(text, FirstOf(SP, text) + 1)

(* The loop of run_imap_service.  AUTHENTICATE is refused like LOGIN, and  *)
(* not recorded as an attempt.                                             *)
ImapRecv(segment) ==
  LET text == TextOf(segment)
      cmd == CommandOf(text)
      verb == FirstByte(cmd)
      command == <<"COMMAND", text>>
  IN  /\ pc = "imap"
      /\ local.received < ImapMax
      /\ local' = [local EXCEPT !.received = @ + 1]
      /\ audit' = audit \o (IF verb = "LOGIN"
                            THEN <<command, <<"AUTH_FAILURE">> \o LoginArgs(Tail(cmd))>>
                            ELSE <<command>>)
      /\ replies' = Append(replies, <<TagOf(text),
                                      CASE verb \in {"LOGIN", "AUTHENTICATE"} -> "NO"
                                        [] verb \in {"CAPABILITY", "LOGOUT", "NOOP"} -> "OK"
                                        [] OTHER -> "BAD">>)
      /\ pc' = IF verb = "LOGOUT" THEN "end" ELSE "imap"
      /\ UNCHANGED closes

ImapNext == (\E s \in ImapSegments : ImapRecv(s)) \/ PeerGone({"imap"}) \/ EndSession
----------------------------------------------------------------------------
(* The place of the last command of a trail that is one of these, or 0. *)
LastCommand(trail, verbs) ==
  SelectLastInSeq(trail, LAMBDA e : e[1] = "COMMAND" /\ e[2] # <<>> /\ Head(e[2]) \in verbs)

(* POP3, where a segment is a command: a password is recorded with the     *)
(* name of the last segment that begins with USER, cut at the size of its  *)
(* buffer, if no segment with PASS came after that one, and with no name   *)
(* otherwise.  So a peer that sends a line at a time never has the halves  *)
(* of two attempts joined.  One that sends USER and PASS in one segment    *)
(* does: all of it behind USER is the name, the attempt is not recorded,   *)
(* and the next PASS is recorded with that name.                           *)
Pop3PairsHalves ==
  \A i \in DOMAIN audit : service = "pop3" /\ audit[i][1] = "AUTH_FAILURE" =>
    LET last == LastCommand(SubSeq(audit, 1, i - 2), {"USER", "PASS"})
        name == IF last # 0 /\ Head(audit[last][2]) = "USER" THEN Tail(audit[last][2]) ELSE <<>>
    IN  /\ audit[i - 1][1] = "COMMAND" /\ Head(audit[i - 1][2]) = "PASS"
        /\ audit[i][2] = SubSeq(name, 1, Min({Len(name), NameSize - 1}))
        /\ audit[i][3] = Tail(audit[i - 1][2])

(* How a peer writes an argument of LOGIN: in quotes, or, when it is not   *)
(* empty and has no blank in it, as it is.                                 *)
Written(word) ==
  {<<QUOTE>> \o word \o <<QUOTE>>} \cup {w \in {word} : w # <<>> /\ SP \notin Range(w)}

(* IMAP: what is recorded of a LOGIN are the name and the password of the  *)
(* peer, cut at the size of their buffers, in quotes or not.               *)
ImapLoginAsMeant ==
  \A i \in DOMAIN audit : service = "imap" /\ audit[i][1] = "AUTH_FAILURE" =>
    \A user, password \in ImapWords : \A u \in Written(user), p \in Written(password) :
      CommandOf(audit[i - 1][2]) = <<"LOGIN">> \o u \o <<SP>> \o p
        => Tail(audit[i]) = <<Cut(user, NameSize), Cut(password, NameSize)>>
=============================================================================
