----------------------------- MODULE ServiceMap -----------------------------
(***************************************************************************)
(* service_map of src/src/service/dispatcher.c, and the call of a service  *)
(* by connection_handler: the service of the port runs the session to its  *)
(* end.  HTTP, Telnet and SSH have specifications of their own,            *)
(* HttpService, TelnetSession and SshSession; the others are here.         *)
(***************************************************************************)
EXTENDS FtpSession, SmtpSession, MySqlSession, RedisSession, PgSession, MailboxSession, DnsSession

CONSTANT Services   \* the services of the ports that peers connect to

ASSUME ServicesAssumption ==
  Services \subseteq {"ftp", "smtp", "mysql", "redis", "postgresql", "pop3", "imap", "dns", "questdb"}

(* The service is called with the connection. *)
Init ==
  /\ service \in Services
  /\ CASE service = "ftp" -> FtpInit
       [] service = "smtp" -> SmtpInit
       [] service = "mysql" -> MySqlInit
       [] service = "redis" -> RedisInit
       [] service \in {"postgresql", "questdb"} -> PgInit
       [] service = "pop3" -> Pop3Init
       [] service = "imap" -> ImapInit
       [] service = "dns" -> DnsInit

ServiceStep ==
  \/ service = "ftp" /\ FtpNext
  \/ service = "smtp" /\ SmtpNext
  \/ service = "mysql" /\ MySqlNext
  \/ service = "redis" /\ RedisNext
  \/ service = "postgresql" /\ PgNext
  \/ service = "pop3" /\ Pop3Next
  \/ service = "imap" /\ ImapNext
  \/ service = "dns" /\ DnsNext
  \/ service = "questdb" /\ QuestNext

Ended == pc = "ended" /\ UNCHANGED session

Next == (ServiceStep /\ UNCHANGED service) \/ Ended

Spec == Init /\ [][Next]_session
----------------------------------------------------------------------------
(* What connection_handler relies on, in every service: on every way out   *)
(* the descriptor is closed, once, and not before.  And what a reader of   *)
(* the trail may rely on: seven services record one connection, first, and *)
(* one disconnection, last, however the session ends.  Not so the others:  *)
(* SMTP records nothing at all, and MySQL no end of a session without a    *)
(* login.                                                                  *)
SessionAccounted ==
  LET kinds == [i \in DOMAIN audit |-> audit[i][1]]
      noLogin == service = "mysql" /\ \A i \in DOMAIN kinds : kinds[i] # "AUTH_FAILURE"
  IN  /\ closes = IF pc \in {"record", "ended"} THEN 1 ELSE 0
      /\ IF service = "smtp" THEN audit = <<>>
         ELSE /\ {i \in DOMAIN kinds : kinds[i] = "CONNECT"} = {1}
              /\ {i \in DOMAIN kinds : kinds[i] = "DISCONNECT"} =
                   IF pc = "ended" /\ ~noLogin THEN {Len(kinds)} ELSE {}

(* Whatever peers send, and however much of it, nothing is written past    *)
(* the end of a buffer, or read past it: FTP's directory, absolute in any  *)
(* case, SMTP's mail and Redis' receive buffer leave room for their NUL,   *)
(* and a DNS reply fits into its buffer and is copied from inside the      *)
(* other one; of bytes that the peer has not sent it holds no more than    *)
(* the two of a class that is missing.  PostgreSQL and QuestDB read the    *)
(* name of the user inside the buffer, but for one case that the code does *)
(* not test: a start-up message that does not end its last string and      *)
(* comes within the size of a name of the end of the buffer.               *)
WithinBuffers ==
  CASE service = "ftp" -> local.cwd # <<>> /\ Head(local.cwd) = "/" /\ Len(local.cwd) < CwdSize
    [] service = "smtp" -> local.mail < SmtpDataMax
    [] service = "redis" -> local.used < RedisSize
    [] service = "dns" -> \A i \in DOMAIN replies :
         LET reply == replies[i][1]
             copied == reply.copied + (IF replies[i][2] THEN 2 ELSE 0)
         IN  /\ reply.size <= DnsBufSize
             /\ copied <= Min({DnsBufSize, Len(local.raw) + 2})
    [] service \in {"postgresql", "questdb"} ->
         \/ UserReads(local.start) <= StartRoom
         \/ Last(local.start) # NUL /\ Len(local.start) > StartRoom - UserSize + 1
    [] OTHER -> TRUE
=============================================================================
