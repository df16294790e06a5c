----------------------------- MODULE DnsSession -----------------------------
(***************************************************************************)
(* A session of the DNS service, src/src/service/dns_honeypot.c: one       *)
(* query, with or without the length that DNS over TCP puts in front of    *)
(* it, its name, what is recorded, and the reply.  Bytes are numbers; of   *)
(* the reply the model keeps its kind, its size and how many bytes of the  *)
(* buffer of the query it copies.                                          *)
(***************************************************************************)
EXTENDS Session

CONSTANTS
  DnsBufSize,     \* DNS_RECV_BUFFER_SIZE, 4096
  DnsNameSize,    \* sizeof(domain), 512
  DnsMaxLabels,   \* 128
  DnsSegments,    \* what recv may return
  DnsQuestions    \* the questions of peers: labels and type

(* RFC 1035: a name has labels of 1 to 63 bytes, at most 127 of them, here *)
(* without NULs; the type has 16 bits.                                     *)
NameByte == 1 .. 255
IsQuestion(q) ==
  /\ q.labels \in Seq(Seq(NameByte)) /\ Len(q.labels) <= DnsMaxLabels
  /\ \A i \in 1 .. Len(q.labels) : Len(q.labels[i]) \in 1 .. 63
  /\ q.type \in Nat /\ q.type < 65536

ASSUME DnsAssumption ==
  /\ DnsBufSize \in Nat /\ {DnsNameSize, DnsMaxLabels} \subseteq Nat \ {0}
  /\ DnsSegments \subseteq Seq(0 .. 255)
  /\ \A s \in DnsSegments : Len(s) \in 1 .. DnsBufSize
  /\ \A q \in DnsQuestions : IsQuestion(q)

DNS_HEADER_SIZE == 12
DNS_QTYPE_A == 1
DNS_QTYPE_AXFR == 252
DotByte == 46
AnswerSize == 16
PointerByte == 192

(* local: what was received, for the properties. *)
DnsInit == Begins("dns", [raw |-> <<>>])
----------------------------------------------------------------------------
(* Mutated forms, for mutation testing only: a frame that must be followed *)
(* by a byte.                                                              *)
FramedShort(raw) ==
  Len(raw) >= 2 /\ raw[1] * 256 + raw[2] \in DNS_HEADER_SIZE .. Len(raw) - 3
----------------------------------------------------------------------------
(* Is the message behind a length, all of it? *)
TcpFramed(raw) ==
  Len(raw) >= 2 /\ raw[1] * 256 + raw[2] \in DNS_HEADER_SIZE .. Len(raw) - 2
Message(raw) == IF TcpFramed(raw) THEN SubSeq(raw, 3, raw[1] * 256 + raw[2] + 2) ELSE raw

(* dns_parse_domain_name: the labels and the offset of what is behind the  *)
(* name, which a pointer or the end of the message ends too.               *)
NameFrom(msg, offset) ==
  LET ends(pos) == [ok |-> TRUE, labels |-> <<>>, end |-> pos]
      from[pos \in offset .. Len(msg) + 1] ==
        IF pos >= Len(msg) THEN ends(pos)
        ELSE LET size == msg[pos + 1]
                 next == from[pos + 1 + size]
             IN  CASE size = 0 -> ends(pos + 1)
                   [] size >= PointerByte -> ends(pos + 2)
                   [] size \in 1 .. PointerByte - 1 ->
                        IF pos + 1 + size > Len(msg)
                        THEN [ok |-> FALSE, labels |-> <<>>, end |-> pos]
                        ELSE [next EXCEPT !.labels = <<SubSeq(msg, pos + 2, pos + 1 + size)>> \o @]
  IN  from[offset]

(* The labels with dots between them, as they are written to domain. *)
Dotted(labels) ==
  FlattenSeq([i \in DOMAIN labels |-> IF i = 1 THEN labels[i] ELSE <<DotByte>> \o labels[i]])
DomainText(labels) == StringAt(Cut(Dotted(labels), DnsNameSize), 1)

(* dns_parse_qtype *)
QType(msg, end) == IF end + 2 > Len(msg) THEN 0 ELSE msg[end + 1] * 256 + msg[end + 2]

(* dns_build_servfail copies the query; dns_build_fake_a_response copies   *)
(* it up to the end of the question, if the answer fits behind it.         *)
FitsWithAnswer(end) == end + 4 + AnswerSize <= DnsBufSize
Copy(kind, msg) == [kind |-> kind, copied |-> Len(msg), size |-> Len(msg)]
FakeA(msg, end) ==
  IF FitsWithAnswer(end) THEN [kind |-> "A", copied |-> end + 4, size |-> end + 4 + AnswerSize]
  ELSE Copy("SERVFAIL", msg)

(* A reply is sent behind its length if the query was. *)
DnsSend(reply, raw) == replies' = Append(replies, <<reply, TcpFramed(raw)>>)

(* The message and, if it has one, its name. *)
DnsRecv(raw) ==
  LET msg == Message(raw)
      name == NameFrom(msg, DNS_HEADER_SIZE)
      command == <<"COMMAND", DomainText(name.labels)>>
      type == QType(msg, name.end)
  IN  /\ pc = "dns"
      /\ local' = [raw |-> raw]
      /\ \/ /\ Len(msg) < DNS_HEADER_SIZE
            /\ UNCHANGED <<audit, replies>>
         \/ /\ Len(msg) >= DNS_HEADER_SIZE
            /\ ~name.ok \/ Len(name.labels) > DnsMaxLabels \/ name.end = DNS_HEADER_SIZE
            /\ DnsSend(Copy("SERVFAIL", msg), raw)
            /\ UNCHANGED audit
         \/ /\ Len(msg) >= DNS_HEADER_SIZE
            /\ name.ok /\ Len(name.labels) <= DnsMaxLabels /\ name.end > DNS_HEADER_SIZE
            /\ \/ /\ type = DNS_QTYPE_AXFR
                  /\ audit' = audit \o <<command, <<"EXPLOIT_ATTEMPT", command[2]>>>>
                  /\ DnsSend(Copy("REFUSED", msg), raw)
               \/ /\ type # DNS_QTYPE_AXFR
                  /\ audit' = Append(audit, command)
                  /\ DnsSend(IF type = DNS_QTYPE_A THEN FakeA(msg, name.end)
                             ELSE Copy("SERVFAIL", msg), raw)
      /\ pc' = "end"
      /\ UNCHANGED closes

DnsNext == (\E raw \in DnsSegments : DnsRecv(raw)) \/ PeerGone({"dns"}) \/ EndSession
----------------------------------------------------------------------------
(* RFC 1035: a question, behind a header; RFC 7766: a message on TCP. *)
Question(q) ==
  FlattenSeq([i \in DOMAIN q.labels |-> <<Len(q.labels[i])>> \o q.labels[i]])
    \o <<0, q.type \div 256, q.type % 256, 0, 1>>
OnTcp(msg) == <<Len(msg) \div 256, Len(msg) % 256>> \o msg

(* A query that comes whole, behind its length, is recorded with the name  *)
(* that was asked for, and as an attack just if it asks for the zone; it   *)
(* is answered once, with the address if one was asked for and the answer  *)
(* fits, and behind a length.                                              *)
DnsAnswersAsked ==
  \A q \in DnsQuestions :
    service = "dns" /\ pc = "end" /\ Len(local.raw) > 14
      /\ local.raw = OnTcp(SubSeq(local.raw, 3, 2 + DNS_HEADER_SIZE) \o Question(q)) =>
        LET kinds == [i \in DOMAIN audit |-> audit[i][1]]
            reply == replies[1][1]
        IN  /\ audit[2][2] = Cut(Dotted(q.labels), DnsNameSize)
            /\ kinds = IF q.type = DNS_QTYPE_AXFR THEN <<"CONNECT", "COMMAND", "EXPLOIT_ATTEMPT">>
                       ELSE <<"CONNECT", "COMMAND">>
            /\ Len(replies) = 1 /\ replies[1][2]
            /\ reply.kind = CASE q.type = DNS_QTYPE_AXFR -> "REFUSED"
                              [] q.type = DNS_QTYPE_A /\ Len(local.raw) - 2 + AnswerSize <= DnsBufSize -> "A"
                              [] OTHER -> "SERVFAIL"
=============================================================================
