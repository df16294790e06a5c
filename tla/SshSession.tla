---------------------------- MODULE SshSession -----------------------------
(***************************************************************************)
(* A session of the SSH service, run_ssh_service of                        *)
(* src/src/service/ssh_honeypot.c: the set-up with libssh, the password    *)
(* dialogue, the channel, the line editor of the shell, the five ways out, *)
(* and what the session leaves in the audit trail.                         *)
(*                                                                         *)
(* libssh is external: its messages are chosen by the peer and its calls   *)
(* may fail.  From ssh_bind_accept_fd on its socket holds the descriptor;  *)
(* ssh_disconnect, and ssh_free if that was not called, close it then.     *)
(***************************************************************************)
EXTENDS Integers, SequencesExt

CONSTANTS
  MaxAuth,      \* SSH_HONEYPOT_MAX_AUTH_ATTEMPTS, 3
  CmdSize,      \* sizeof(cmd_buf), 1024
  Chars,        \* the characters of a command
  Exits,        \* the commands fake_command_response answers with NULL
  MaxKeys       \* bound of the model: the keys a peer types in the shell

ASSUME SshAssumption ==
  /\ MaxAuth \in Nat \ {0}
  /\ CmdSize \in Nat \ {0}
  /\ <<>> \notin Exits
  /\ Chars \cap {"enter", "erase", "interrupt"} = {}
  /\ MaxKeys \in Nat

VARIABLES
  pc,         \* where the handler thread is
  attempts,   \* auth_attempts
  channel,    \* a channel is open
  cmd,        \* cmd_buf up to cmd_len
  typed,      \* history: the keys typed in the shell
  owned,      \* the socket of the libssh session holds the descriptor
  closes,     \* how often the descriptor was closed
  audit       \* the events recorded, in order

vars == <<pc, attempts, channel, cmd, typed, owned, closes, audit>>

Keys == Chars \cup {"enter", "erase", "interrupt"}
----------------------------------------------------------------------------
(* Mutated forms, for mutation testing only: success one attempt early,    *)
(* a line that ^C leaves, a close of the handler behind that of libssh.    *)
GrantedEarly(n) == n >= MaxAuth - 1
InterruptIgnored(c) == c
ClosedAgain == owned' = FALSE /\ closes' = closes + 2
----------------------------------------------------------------------------
(* The attempt after which the peer is let in. *)
Granted(n) == n >= MaxAuth

(* The event audit_record_auth makes of an attempt. *)
AuthEvent(n) == IF Granted(n) THEN <<"AUTH_SUCCESS">> ELSE <<"AUTH_FAILURE">>

(* The line editor: is there room for a character, the line after ^C. *)
Room(c) == Len(c) < CmdSize - 1
AfterInterrupt(c) == <<>>

(* ssh_disconnect and the ssh_free behind it close what the session holds. *)
LibsshCloses ==
  /\ owned' = FALSE
  /\ closes' = IF owned THEN closes + 1 ELSE closes
----------------------------------------------------------------------------
(* The connection event has been recorded. *)
Init ==
  /\ pc = "new"
  /\ attempts = 0
  /\ channel = FALSE
  /\ cmd = <<>>
  /\ typed = <<>>
  /\ owned = FALSE
  /\ closes = 0
  /\ audit = <<<<"CONNECT">>>>

(* ssh_new, or its failure: the handler closes the descriptor. *)
SessionNew ==
  /\ pc = "new"
  /\ pc' = "bind"
  /\ UNCHANGED <<attempts, channel, cmd, typed, owned, closes, audit>>

SessionNewFails ==
  /\ pc = "new"
  /\ closes' = closes + 1
  /\ pc' = "ended"
  /\ UNCHANGED <<attempts, channel, cmd, typed, owned, audit>>

(* ssh_bind_new, or its failure: the session that ssh_free frees holds no  *)
(* descriptor yet, the handler closes it.                                  *)
BindNew ==
  /\ pc = "bind"
  /\ pc' = "accept"
  /\ UNCHANGED <<attempts, channel, cmd, typed, owned, closes, audit>>

BindNewFails ==
  /\ pc = "bind"
  /\ closes' = closes + 1
  /\ pc' = "ended"
  /\ UNCHANGED <<attempts, channel, cmd, typed, owned, audit>>

(* ssh_bind_accept_fd gives the descriptor to the session. *)
AcceptFd ==
  /\ pc = "accept"
  /\ owned' = TRUE
  /\ pc' = "kex"
  /\ UNCHANGED <<attempts, channel, cmd, typed, closes, audit>>

(* It fails before or after it did so (libssh takes the descriptor and     *)
(* then the host keys): ssh_free closes what the session holds, and the    *)
(* handler closes the descriptor in any case.                              *)
AcceptFdFails ==
  /\ pc = "accept"
  /\ \E taken \in BOOLEAN : closes' = IF taken THEN closes + 2 ELSE closes + 1
  /\ pc' = "ended"
  /\ UNCHANGED <<attempts, channel, cmd, typed, owned, audit>>

(* The key exchange, or its failure. *)
KeyExchange ==
  /\ pc = "kex"
  /\ pc' = "auth"
  /\ UNCHANGED <<attempts, channel, cmd, typed, owned, closes, audit>>

KeyExchangeFails ==
  /\ pc = "kex"
  /\ LibsshCloses
  /\ pc' = "ended"
  /\ UNCHANGED <<attempts, channel, cmd, typed, audit>>

(* A password request: recorded, then answered. *)
Password ==
  /\ pc = "auth"
  /\ attempts' = attempts + 1
  /\ audit' = Append(audit, AuthEvent(attempts'))
  /\ pc' = IF Granted(attempts') THEN "channel"
           ELSE IF attempts' < MaxAuth THEN "auth" ELSE "noauth"
  /\ UNCHANGED <<channel, cmd, typed, owned, closes>>

(* Another request, in one of the two dialogues: answered, not counted. *)
OtherRequest ==
  /\ pc \in {"auth", "channel"}
  /\ UNCHANGED vars

(* ssh_message_get returns NULL: the peer is gone. *)
NoMessage ==
  /\ \/ pc = "auth" /\ pc' = "noauth"
     \/ pc = "channel" /\ pc' = "nochannel"
  /\ UNCHANGED <<attempts, channel, cmd, typed, owned, closes, audit>>

(* Not authenticated, or no shell on a channel: the session is given up. *)
GiveUp ==
  /\ pc \in {"noauth", "nochannel"}
  /\ LibsshCloses
  /\ pc' = "ended"
  /\ UNCHANGED <<attempts, channel, cmd, typed, audit>>

(* A session channel is requested; libssh may fail to open it. *)
OpenChannel ==
  /\ pc = "channel"
  /\ channel' \in BOOLEAN
  /\ UNCHANGED <<pc, attempts, cmd, typed, owned, closes, audit>>

(* A shell is requested on it; the loop ends, and the shell begins. *)
RequestShell ==
  /\ pc = "channel"
  /\ channel
  /\ pc' = "shell"
  /\ UNCHANGED <<attempts, channel, cmd, typed, owned, closes, audit>>
----------------------------------------------------------------------------
(* The shell reads a character. *)
Type(k) ==
  /\ pc = "shell"
  /\ Len(typed) < MaxKeys
  /\ typed' = Append(typed, k)
  /\ \/ /\ k \in Chars
        /\ cmd' = IF Room(cmd) THEN Append(cmd, k) ELSE cmd
     \/ /\ k = "erase"
        /\ cmd' = IF cmd = <<>> THEN cmd ELSE Front(cmd)
     \/ /\ k = "interrupt"
        /\ cmd' = AfterInterrupt(cmd)
  /\ UNCHANGED <<pc, attempts, channel, owned, closes, audit>>

(* CR or LF: a command that is not empty is recorded and answered; exit or *)
(* logout ends the session.                                                *)
Enter ==
  /\ pc = "shell"
  /\ Len(typed) < MaxKeys
  /\ typed' = Append(typed, "enter")
  /\ cmd' = IF cmd \in Exits THEN cmd ELSE <<>>
  /\ audit' = IF cmd = <<>> THEN audit ELSE Append(audit, <<"COMMAND", cmd>>)
  /\ pc' = IF cmd \in Exits THEN "closing" ELSE "shell"
  /\ UNCHANGED <<attempts, channel, owned, closes>>

(* The channel is closed or at its end, or the read fails. *)
ShellEnds ==
  /\ pc = "shell"
  /\ pc' = "closing"
  /\ UNCHANGED <<attempts, channel, cmd, typed, owned, closes, audit>>

(* session_end: ssh_disconnect closes the descriptor. *)
Disconnect ==
  /\ pc = "closing"
  /\ LibsshCloses
  /\ pc' = "record"
  /\ UNCHANGED <<attempts, channel, cmd, typed, audit>>

(* Only then the end is recorded. *)
RecordEnd ==
  /\ pc = "record"
  /\ audit' = Append(audit, <<"DISCONNECT">>)
  /\ pc' = "ended"
  /\ UNCHANGED <<attempts, channel, cmd, typed, owned, closes>>

Ended == pc = "ended" /\ UNCHANGED vars

Next ==
  \/ SessionNew \/ SessionNewFails \/ BindNew \/ BindNewFails
  \/ AcceptFd \/ AcceptFdFails \/ KeyExchange \/ KeyExchangeFails
  \/ Password \/ OtherRequest \/ NoMessage \/ GiveUp
  \/ OpenChannel \/ RequestShell
  \/ (\E k \in Keys : Type(k)) \/ Enter \/ ShellEnds
  \/ Disconnect \/ RecordEnd \/ Ended

Spec == Init /\ [][Next]_vars
----------------------------------------------------------------------------
(* The line a peer sees, by the meaning of the keys and not by the buffer: *)
(* Lines(keys)[i] is what is left of it after i keys.  An enter begins a   *)
(* new line; a full line takes no more characters, an erase makes room     *)
(* again.                                                                  *)
Edit(line, k) ==
  CASE k \in {"enter", "interrupt"} -> <<>>
    [] k = "erase" -> SubSeq(line, 1, Len(line) - 1)
    [] OTHER -> SubSeq(Append(line, k), 1, Min({Len(line) + 1, CmdSize - 1}))
Lines(keys) ==
  LET line[i \in 0 .. Len(keys)] == IF i = 0 THEN <<>> ELSE Edit(line[i - 1], keys[i])
  IN  line

(* The keys that submit a command: the enters on a line that is not empty. *)
Submitted == {i \in DOMAIN typed : typed[i] = "enter" /\ Lines(typed)[i - 1] # <<>>}
PlaceOf(i) == MaxAuth + 1 + Cardinality({j \in Submitted : j <= i})

(* The trail holds every command that was typed, in order and as it was    *)
(* edited, however long it was, and no other: they follow the success, one *)
(* behind the other.  cmd_buf keeps a byte for its NUL.                    *)
CommandsRecorded ==
  /\ {n \in DOMAIN audit : audit[n][1] = "COMMAND"}
       = MaxAuth + 2 .. MaxAuth + 1 + Cardinality(Submitted)
  /\ \A i \in Submitted : audit[PlaceOf(i)] = <<"COMMAND", Lines(typed)[i - 1]>>
  /\ Len(cmd) < CmdSize

(* README.md, 958: a peer is let in at the third attempt.  The shell is    *)
(* reached with exactly one success in the trail, after exactly MaxAuth -  *)
(* 1 failures; so the loop never ends because the attempts ran out.        *)
LoginAtLastAttempt ==
  LET ofKind(e) == {i \in DOMAIN audit : audit[i] = <<e>>}
  IN  /\ pc \in {"channel", "nochannel", "shell", "closing", "record"} =>
           ofKind("AUTH_SUCCESS") = {MaxAuth + 1}
      /\ ofKind("AUTH_FAILURE") = 2 .. Min({attempts, MaxAuth - 1}) + 1
      /\ pc = "noauth" => attempts < MaxAuth

(* Between them the handler and libssh close the descriptor exactly once,  *)
(* whichever call fails and wherever the peer leaves: a second close would *)
(* hit whichever connection has the number by then.  There is one          *)
(* exception, the error path of ssh_bind_accept_fd: where libssh had taken *)
(* the descriptor already, it is closed twice.                             *)
ClosedOnce ==
  /\ pc \notin {"record", "ended"} => closes = 0
  /\ pc \in {"record", "ended"} => closes = 1 \/ (closes = 2 /\ audit = <<<<"CONNECT">>>>)
=============================================================================
