--------------------------- MODULE MySqlSession ----------------------------
(***************************************************************************)
(* A session of the MySQL service, src/src/service/mysql_honeypot.c: the   *)
(* greeting, the login that is always refused, the queries that a peer     *)
(* sends after that, and the audit trail.                                  *)
(*                                                                         *)
(* The service takes what one recv returns as one packet.  Of the receive  *)
(* buffer the model keeps what the code reads: the sequence byte, and the  *)
(* string at the place of the user name.  A packet only overwrites the     *)
(* part of the buffer it reaches.  The texts of packets are left out, and  *)
(* so is the connection number in the greeting.                            *)
(***************************************************************************)
EXTENDS Session

CONSTANTS
  MySqlNames,       \* the strings a packet may have at the place of the name
  MySqlSizes,       \* the sizes of packets
  ByteMod,          \* 256, the modulus of the sequence byte
  MySqlMaxPackets   \* bound of the model: packets after the login

NoNul == "no NUL"
EmptyUser == ""

ASSUME MySqlAssumption ==
  /\ MySqlSizes \subseteq Nat \ {0}
  /\ MySqlNames \cap {EmptyUser, NoNul} = {}
  /\ ByteMod \in Nat \ {0}
  /\ MySqlMaxPackets \in Nat

USERNAME_OFFSET == 36
COM_QUERY == 3
Unknown == "(unknown)"
InBuffer == "in recv_buf"
SeqBytes == 0 .. (ByteMod - 1)

(* A packet: its size, its bytes 3 and 4, what is at the place of the name *)
(* once it is in the buffer; what it does not reach is blank.              *)
MySqlPacket ==
  {p \in [size : MySqlSizes, seq : SeqBytes, cmd : {0, 1, COM_QUERY},
          user : MySqlNames \cup {EmptyUser, NoNul}] :
     /\ p.size <= 3 => p.seq = 0
     /\ p.size <= 4 <=> p.cmd = 0
     /\ p.size <= USERNAME_OFFSET => p.user = EmptyUser}

(* local: recv_buf, its byte 3 and the string at USERNAME_OFFSET; where    *)
(* username points, into recv_buf or to "(unknown)"; the history of the    *)
(* packets, that of the login first.  recv_buf is not initialized: its     *)
(* byte 3 is anything.  The name in it is not read before a packet has put *)
(* one there.                                                              *)
MySqlInit ==
  \E b \in SeqBytes :
    Begins("greet", [buf |-> [seq |-> b, user |-> NoNul], username |-> Unknown, packets |-> <<>>])
----------------------------------------------------------------------------
(* Mutated form, for mutation testing only: a buffer that is blanked       *)
(* before each packet.                                                     *)
ReceivedBlank(b, p) == [seq |-> p.seq, user |-> p.user]
----------------------------------------------------------------------------
(* What recv leaves in the buffer. *)
Received(b, p) ==
  [seq |-> IF p.size > 3 THEN p.seq ELSE b.seq,
   user |-> IF p.size > USERNAME_OFFSET THEN p.user ELSE b.user]

(* mysql_extract_username, and the test of its result: a name is taken if  *)
(* the packet reaches it, it ends in the packet, and it is not empty.      *)
Extracted(p) ==
  IF p.size <= USERNAME_OFFSET \/ p.user \in {NoNul, EmptyUser} THEN Unknown ELSE InBuffer

(* The string username points to when it is read. *)
NameRead(ptr, b) == IF ptr = InBuffer THEN b.user ELSE Unknown

(* mysql_extract_and_log_query: is the packet recorded as a query? *)
IsQuery(p) == p.size > 5 /\ p.cmd = COM_QUERY

(* (uint8_t)(seq + 1) *)
NextSeq(b) == (b + 1) % ByteMod

(* mysql_build_error_packet, as far as the peer can tell it from others. *)
ErrorPacket(n, name) == [seq |-> n, user |-> name]
----------------------------------------------------------------------------
(* The greeting is sent. *)
MySqlGreet ==
  /\ pc = "greet"
  /\ pc' = "login"
  /\ UNCHANGED <<local, audit, replies, closes>>

(* send or the first recv fails: the session is given up, and its end not  *)
(* recorded.                                                               *)
MySqlGiveUp ==
  /\ pc \in {"greet", "login"}
  /\ closes' = CloseSocket
  /\ pc' = "ended"
  /\ UNCHANGED <<local, audit, replies>>

(* The login packet: the name is recorded, and the login refused. *)
MySqlLogin(p) ==
  LET buf == Received(local.buf, p)
      ptr == Extracted(p)
  IN  /\ pc = "login"
      /\ local' = [buf |-> buf, username |-> ptr, packets |-> <<p>>]
      /\ audit' = Append(audit, <<"AUTH_FAILURE", NameRead(ptr, buf)>>)
      /\ replies' = <<ErrorPacket(2, NameRead(ptr, buf))>>
      /\ pc' = "query"
      /\ UNCHANGED closes

(* A packet after that: recorded if it is a query, and refused.  username  *)
(* is read again, from a buffer that recv has overwritten.                 *)
MySqlQuery(p) ==
  LET buf == Received(local.buf, p)
  IN  /\ pc = "query"
      /\ Len(local.packets) <= MySqlMaxPackets
      /\ local' = [local EXCEPT !.buf = buf, !.packets = Append(@, p)]
      /\ audit' = IF IsQuery(p) THEN Append(audit, <<"COMMAND", p>>) ELSE audit
      /\ replies' = Append(replies, ErrorPacket(NextSeq(buf.seq), NameRead(local.username, buf)))
      /\ UNCHANGED <<pc, closes>>

(* The peer is gone, or has sent nothing for three seconds: the descriptor *)
(* is closed, and then the end recorded.                                   *)
MySqlClose ==
  /\ pc = "query"
  /\ closes' = CloseSocket
  /\ pc' = "record"
  /\ UNCHANGED <<local, audit, replies>>
MySqlRecordEnd ==
  /\ pc = "record"
  /\ audit' = Append(audit, <<"DISCONNECT">>)
  /\ pc' = "ended"
  /\ UNCHANGED <<local, replies, closes>>

MySqlNext ==
  \/ MySqlGreet \/ MySqlGiveUp
  \/ \E p \in MySqlPacket : MySqlLogin(p) \/ MySqlQuery(p)
  \/ MySqlClose \/ MySqlRecordEnd
----------------------------------------------------------------------------
(* Every packet is refused, once and in order, and behind the login with   *)
(* the number after its own; a packet too short to have one is answered as *)
(* the last that had.  The name that is recorded is the one the login      *)
(* packet carries, if it holds the whole of it, and "(unknown)" otherwise: *)
(* never what nobody has put into the buffer.  username goes on pointing   *)
(* into the buffer, which later packets overwrite: the refusals name the   *)
(* user recorded for as long as no packet is long enough to reach it.      *)
RefusalsInStep ==
  service = "mysql" /\ local.packets # <<>> =>
    LET login == Head(local.packets)
        sent == IF login.size > USERNAME_OFFSET /\ login.user \in MySqlNames
                THEN login.user ELSE Unknown
    IN  /\ Len(replies) = Len(local.packets)
        /\ {i \in DOMAIN audit : audit[i][1] = "AUTH_FAILURE"} = {2}
        /\ audit[2] = <<"AUTH_FAILURE", sent>>
        /\ \A i \in DOMAIN replies :
             LET last == SelectLastInSeq(SubSeq(local.packets, 1, i), LAMBDA p : p.size > 3)
                 seq == local.packets[last].seq
             IN  /\ i > 1 /\ last # 0 => replies[i].seq = IF seq = ByteMod - 1 THEN 0 ELSE seq + 1
                 /\ (\A j \in 2 .. i : local.packets[j].size <= USERNAME_OFFSET)
                      => replies[i].user = sent
=============================================================================
