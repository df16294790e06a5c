-------------------------- MODULE ServiceMap_proof -------------------------
(***************************************************************************)
(* Proofs about the sessions that service_map dispatches to.               *)
(***************************************************************************)
EXTENDS ServiceMap, FiniteSetTheorems, SequenceTheorems, WellFoundedInduction, TLAPS

(***************************************************************************)
(* Sequences.  The trail and the replies of the services hold values of    *)
(* many shapes, so they are only known to be sequences of something.       *)
(***************************************************************************)
IsSeq(s) == \E S : s \in Seq(S)

(* The domain of a sequence. *)
LEMMA SeqShape ==
  ASSUME NEW s, IsSeq(s)
  PROVE  Len(s) \in Nat /\ DOMAIN s = 1 .. Len(s)
  BY DEF IsSeq

(* The empty sequence. *)
LEMMA EmptyIsSeq == IsSeq(<<>>) /\ Len(<<>>) = 0
  <1>1. <<>> \in Seq({0}) OBVIOUS
  <1>2. IsSeq(<<>>) BY <1>1 DEF IsSeq
  <1>3. Len(<<>>) = 0 OBVIOUS
  <1> QED BY <1>2, <1>3

(* A sequence of one. *)
LEMMA OneSeq ==
  ASSUME NEW e
  PROVE  IsSeq(<<e>>) /\ Len(<<e>>) = 1 /\ <<e>>[1] = e
  <1>1. <<e>> \in Seq({e}) OBVIOUS
  <1> QED BY <1>1 DEF IsSeq

(* A sequence of two. *)
LEMMA TwoSeq ==
  ASSUME NEW e, NEW f
  PROVE  IsSeq(<<e, f>>) /\ Len(<<e, f>>) = 2 /\ <<e, f>>[1] = e /\ <<e, f>>[2] = f
  <1>1. <<e, f>> \in Seq({e, f}) OBVIOUS
  <1> QED BY <1>1 DEF IsSeq

(* What Append leaves alone and what it adds. *)
LEMMA AppendShape ==
  ASSUME NEW s, IsSeq(s), NEW e
  PROVE  /\ IsSeq(Append(s, e)) /\ Len(Append(s, e)) = Len(s) + 1
         /\ Append(s, e)[Len(s) + 1] = e
         /\ \A i \in 1 .. Len(s) : Append(s, e)[i] = s[i]
  <1>1. PICK S : s \in Seq(S) BY DEF IsSeq
  <1>2. s \in Seq(S \cup {e}) BY <1>1
  <1>3. Append(s, e) \in Seq(S \cup {e}) BY <1>2
  <1>4. IsSeq(Append(s, e)) BY <1>3 DEF IsSeq
  <1> QED BY <1>2, <1>4

(* What is where in a concatenation. *)
LEMMA ConcatShape ==
  ASSUME NEW s, IsSeq(s), NEW t, IsSeq(t)
  PROVE  /\ IsSeq(s \o t) /\ Len(s \o t) = Len(s) + Len(t)
         /\ \A i \in 1 .. Len(s) : (s \o t)[i] = s[i]
         /\ \A i \in 1 .. Len(t) : (s \o t)[Len(s) + i] = t[i]
  <1>1. PICK S : s \in Seq(S) BY DEF IsSeq
  <1>2. PICK T : t \in Seq(T) BY DEF IsSeq
  <1>3. s \in Seq(S \cup T) /\ t \in Seq(S \cup T) BY <1>1, <1>2
  <1>4. s \o t \in Seq(S \cup T) BY <1>3
  <1>5. IsSeq(s \o t) BY <1>4 DEF IsSeq
  <1> QED BY <1>3, <1>5

(***************************************************************************)
(* Numbers.  The extreme elements of a set, and induction stated with a    *)
(* set in place of a predicate.                                            *)
(***************************************************************************)
LEMMA MinOfNat ==
  ASSUME NEW S, S \subseteq Nat, S # {}
  PROVE  Min(S) \in S /\ \A y \in S : Min(S) <= y
  <1> DEFINE R == OpToRel(<, Nat)
  <1>1. \A x, y \in Nat : x < y => <<x, y>> \in R BY DEF OpToRel
  <1>2. IsWellFoundedOn(R, Nat) BY NatLessThanWellFounded
  <1> HIDE DEF R
  <1>3. PICK x \in S : \A y \in S : ~(<<y, x>> \in R) BY <1>2, WFMin
  <1>4. ASSUME NEW y \in S PROVE x <= y
    <2>1. x \in Nat /\ y \in Nat /\ ~(<<y, x>> \in R) BY <1>3
    <2>2. ~(y < x) BY <1>1, <2>1
    <2> QED BY <2>1, <2>2
  <1> QED BY <1>3, <1>4 DEF Min

(* The greatest element of a bounded set of numbers. *)
LEMMA MaxUpTo ==
  ASSUME NEW n \in Nat, NEW S, S \subseteq 1 .. n, S # {}
  PROVE  Max(S) \in S /\ \A y \in S : y <= Max(S)
  <1> DEFINE T == {n - x : x \in S}
  <1>1. T \subseteq Nat /\ T # {}
    <2>1. \A x \in S : n - x \in Nat OBVIOUS
    <2>2. PICK x \in S : TRUE OBVIOUS
    <2>3. n - x \in T BY <2>2
    <2> QED BY <2>1, <2>3
  <1>2. Min(T) \in T /\ \A y \in T : Min(T) <= y BY <1>1, MinOfNat
  <1>3. PICK x \in S : n - x = Min(T) BY <1>2
  <1>4. ASSUME NEW y \in S PROVE x >= y
    <2>1. n - y \in T OBVIOUS
    <2>2. n - x <= n - y BY <1>2, <1>3, <2>1
    <2>3. x \in Nat /\ y \in Nat OBVIOUS
    <2> QED BY <2>2, <2>3
  <1>5. Max(S) \in S /\ \A y \in S : Max(S) >= y BY <1>3, <1>4 DEF Max
  <1>6. \A y \in S : y \in Nat OBVIOUS
  <1>7. Max(S) \in Nat BY <1>5, <1>6
  <1> QED BY <1>5, <1>6, <1>7

(* Induction over the naturals, for the set of numbers with a property. *)
LEMMA InductionBySet ==
  ASSUME NEW S, S \subseteq Nat, 0 \in S, \A n \in S : n + 1 \in S
  PROVE  S = Nat
  <1> SUFFICES ASSUME Nat \ S # {} PROVE FALSE
    OBVIOUS
  <1> DEFINE m == Min(Nat \ S)
  <1>1. m \in Nat \ S /\ \A y \in Nat \ S : m <= y BY MinOfNat
  <1> HIDE DEF m
  <1>2. m # 0 BY <1>1
  <1>3. m - 1 \in Nat /\ m - 1 < m BY <1>1, <1>2
  <1>4. m - 1 \in S BY <1>1, <1>3
  <1>5. (m - 1) + 1 = m BY <1>1
  <1> QED BY <1>1, <1>4, <1>5
----------------------------------------------------------------------------
(***************************************************************************)
(* The account of a session: what its trail is while it runs, and what its *)
(* last steps do to it.                                                    *)
(***************************************************************************)
Between(e) == e[1] \notin {"CONNECT", "DISCONNECT"}

(* The trail of a session that runs, and of one that is over. *)
OpenTrail(a) ==
  /\ IsSeq(a) /\ Len(a) >= 1
  /\ a[1][1] = "CONNECT"
  /\ \A i \in 2 .. Len(a) : Between(a[i])
OverTrail(a) ==
  /\ IsSeq(a) /\ Len(a) >= 2
  /\ a[1][1] = "CONNECT"
  /\ \A i \in 2 .. Len(a) - 1 : Between(a[i])
  /\ a[Len(a)][1] = "DISCONNECT"

(* MySQL records the end only behind a login. *)
MySqlAccount ==
  /\ pc \in {"greet", "login", "query", "record", "ended"}
  /\ pc \in {"greet", "login"} => audit = <<<<"CONNECT">>>>
  /\ pc \in {"query", "record"} =>
       OpenTrail(audit) /\ Len(audit) >= 2 /\ audit[2][1] = "AUTH_FAILURE"
  /\ pc = "ended" =>
       \/ audit = <<<<"CONNECT">>>>
       \/ OverTrail(audit) /\ Len(audit) >= 3 /\ audit[2][1] = "AUTH_FAILURE"

Account ==
  /\ service \in Services
  /\ closes = IF pc \in {"record", "ended"} THEN 1 ELSE 0
  /\ service = "smtp" => audit = <<>>
  /\ service = "mysql" => MySqlAccount
  /\ service \notin {"smtp", "mysql"} =>
       pc # "record" /\ IF pc = "ended" THEN OverTrail(audit) ELSE OpenTrail(audit)

(* The trail b goes on from a with events of the middle of a session. *)
Grows(a, b) ==
  \/ b = a
  \/ \E e : Between(e) /\ b = Append(a, e)
  \/ \E t : IsSeq(t) /\ (\A i \in 1 .. Len(t) : Between(t[i])) /\ b = a \o t

(* A step inside a session: the descriptor is not touched. *)
Running ==
  /\ pc \notin {"record", "ended"} /\ pc' \notin {"record", "ended"}
  /\ closes' = closes
  /\ Grows(audit, audit')

(* The events that neither begin nor end a trail. *)
LEMMA BetweenKinds ==
  ASSUME NEW x, NEW y
  PROVE  /\ Between(<<"COMMAND", x>>) /\ Between(<<"COMMAND", x, y>>)
         /\ Between(<<"AUTH_FAILURE", x>>) /\ Between(<<"AUTH_SUCCESS", x>>)
         /\ Between(<<"AUTH_FAILURE", x, y>>)
         /\ Between(<<"FILE_MODIFY">>) /\ Between(<<"FILE_ACCESS">>)
         /\ Between(<<"EXPLOIT_ATTEMPT", x>>)
  BY DEF Between

(* Two events at once, or one. *)
LEMMA GrowsByTwo ==
  ASSUME NEW a, NEW e, NEW f, Between(e), Between(f), NEW b, b = a \o <<e, f>> \/ b = a \o <<e>>
  PROVE  Grows(a, b)
  <1>1. IsSeq(<<e, f>>) /\ Len(<<e, f>>) = 2 /\ <<e, f>>[1] = e /\ <<e, f>>[2] = f BY TwoSeq
  <1>2. \A i \in 1 .. 2 : i = 1 \/ i = 2 OBVIOUS
  <1>3. \A i \in 1 .. Len(<<e, f>>) : Between(<<e, f>>[i]) BY <1>1, <1>2
  <1>4. IsSeq(<<e>>) /\ Len(<<e>>) = 1 /\ <<e>>[1] = e BY OneSeq
  <1>5. \A i \in 1 .. Len(<<e>>) : Between(<<e>>[i]) BY <1>4
  <1> QED BY <1>1, <1>3, <1>4, <1>5 DEF Grows

(* An open trail stays open while events of other kinds are added. *)
LEMMA TrailGrows ==
  ASSUME NEW a, OpenTrail(a), NEW b, Grows(a, b)
  PROVE  OpenTrail(b) /\ Len(b) >= Len(a) /\ \A i \in 1 .. Len(a) : b[i] = a[i]
  <1>1. IsSeq(a) /\ Len(a) \in Nat /\ Len(a) >= 1 BY SeqShape DEF OpenTrail
  <1>2. CASE b = a BY <1>1, <1>2
  <1>3. ASSUME NEW e, Between(e), b = Append(a, e)
        PROVE  OpenTrail(b) /\ Len(b) >= Len(a) /\ \A i \in 1 .. Len(a) : b[i] = a[i]
    <2>1. /\ IsSeq(b) /\ Len(b) = Len(a) + 1 /\ b[Len(a) + 1] = e
          /\ \A i \in 1 .. Len(a) : b[i] = a[i]
      BY <1>1, <1>3, AppendShape
    <2>2. \A i \in 2 .. Len(b) : i = Len(a) + 1 \/ i \in 2 .. Len(a) BY <1>1, <2>1
    <2>3. \A i \in 2 .. Len(a) : i \in 1 .. Len(a) /\ Between(a[i]) BY <1>1 DEF OpenTrail
    <2>4. \A i \in 2 .. Len(b) : Between(b[i]) BY <2>1, <2>2, <2>3, <1>3
    <2>5. b[1] = a[1] BY <1>1, <2>1
    <2> QED BY <1>1, <2>1, <2>4, <2>5 DEF OpenTrail
  <1>4. ASSUME NEW t, IsSeq(t), \A i \in 1 .. Len(t) : Between(t[i]), b = a \o t
        PROVE  OpenTrail(b) /\ Len(b) >= Len(a) /\ \A i \in 1 .. Len(a) : b[i] = a[i]
    <2>1. /\ IsSeq(b) /\ Len(b) = Len(a) + Len(t) /\ Len(t) \in Nat
          /\ \A i \in 1 .. Len(a) : b[i] = a[i]
          /\ \A i \in 1 .. Len(t) : b[Len(a) + i] = t[i]
      BY <1>1, <1>4, ConcatShape, SeqShape
    <2>2. ASSUME NEW i \in 2 .. Len(b) PROVE Between(b[i])
      <3>1. CASE i \in 2 .. Len(a)
        <4>1. i \in 1 .. Len(a) /\ Between(a[i]) BY <3>1, <1>1 DEF OpenTrail
        <4> QED BY <4>1, <2>1
      <3>2. CASE i > Len(a)
        <4>1. i - Len(a) \in 1 .. Len(t) /\ Len(a) + (i - Len(a)) = i BY <3>2, <1>1, <2>1
        <4>2. b[i] = t[i - Len(a)] BY <4>1, <2>1
        <4> QED BY <4>1, <4>2, <1>4
      <3>3. i \in 2 .. Len(a) \/ i > Len(a) BY <1>1, <2>1
      <3> QED BY <3>1, <3>2, <3>3
    <2>3. b[1] = a[1] BY <1>1, <2>1
    <2> QED BY <1>1, <2>1, <2>2, <2>3 DEF OpenTrail
  <1> QED BY <1>2, <1>3, <1>4 DEF Grows

(* A disconnection makes an open trail a complete one. *)
LEMMA TrailEnds ==
  ASSUME NEW a, OpenTrail(a)
  PROVE  LET b == Append(a, <<"DISCONNECT">>)
         IN  /\ OverTrail(b) /\ Len(b) = Len(a) + 1
             /\ \A i \in 1 .. Len(a) : b[i] = a[i]
  <1> DEFINE e == <<"DISCONNECT">>
  <1> DEFINE b == Append(a, e)
  <1>1. IsSeq(a) /\ Len(a) \in Nat /\ Len(a) >= 1 BY SeqShape DEF OpenTrail
  <1>2. e[1] = "DISCONNECT" OBVIOUS
  <1> HIDE DEF e
  <1>3. /\ IsSeq(b) /\ Len(b) = Len(a) + 1 /\ b[Len(a) + 1] = e
        /\ \A i \in 1 .. Len(a) : b[i] = a[i]
    BY <1>1, AppendShape
  <1> HIDE DEF b
  <1>4. \A i \in 2 .. Len(b) - 1 : i \in 1 .. Len(a) /\ i \in 2 .. Len(a) BY <1>1, <1>3
  <1>5. \A i \in 2 .. Len(b) - 1 : Between(b[i]) BY <1>3, <1>4 DEF OpenTrail
  <1>6. b[1] = a[1] /\ b[Len(b)] = e BY <1>1, <1>3
  <1>7. Len(b) >= 2 BY <1>1, <1>3
  <1>8. OverTrail(b) BY <1>2, <1>3, <1>5, <1>6, <1>7 DEF OverTrail, OpenTrail
  <1> QED BY <1>3, <1>8 DEF b, e
----------------------------------------------------------------------------
(* Every step of these services is one inside a session or its end. *)
LEMMA FtpMoves == FtpNext => EndSession \/ Running
  <1> SUFFICES ASSUME FtpNext, ~EndSession PROVE Running
    OBVIOUS
  <1>1. ASSUME NEW line PROVE Between(Recorded(line))
    BY BetweenKinds DEF Recorded
  <1>2. ASSUME NEW verbs, NEW codes, NEW sess, Handle(verbs, codes, sess) PROVE Running
    BY <1>1, <1>2 DEF Handle, Running, Grows
  <1>3. ASSUME NEW lines, FtpRecv(lines) PROVE Running
    BY <1>3 DEF FtpRecv, Running, Grows
  <1>4. CASE FtpBatchDone \/ FtpSkipEmpty \/ PeerGone({"recv"})
    BY <1>4 DEF FtpBatchDone, FtpSkipEmpty, PeerGone, Running, Grows
  <1>5. CASE FtpUser BY <1>5, <1>2 DEF FtpUser
  <1>6. CASE FtpPass BY <1>6, <1>2 DEF FtpPass
  <1>7. CASE FtpQuit BY <1>7, <1>2 DEF FtpQuit
  <1>8. CASE FtpRefused BY <1>8, <1>2 DEF FtpRefused
  <1>9. CASE FtpCwd BY <1>9, <1>2 DEF FtpCwd
  <1>10. CASE FtpOther BY <1>10, <1>2 DEF FtpOther
  <1> QED BY <1>3, <1>4, <1>5, <1>6, <1>7, <1>8, <1>9, <1>10 DEF FtpNext

(* A step of Redis ends the session, or records and answers and goes on. *)
LEMMA RedisMoves == RedisNext => EndSession \/ Running
  <1> SUFFICES ASSUME RedisNext, ~EndSession PROVE Running
    OBVIOUS
  <1>1. ASSUME NEW argv, audit' = audit \o RedisEvents(argv) PROVE Grows(audit, audit')
    <2> DEFINE c == <<"COMMAND", argv>>
    <2> DEFINE f == <<"AUTH_FAILURE", argv[2]>>
    <2>1. Between(c) /\ Between(f) BY BetweenKinds
    <2> HIDE DEF c, f
    <2>2. audit' = audit \o <<c, f>> \/ audit' = audit \o <<c>> BY <1>1 DEF RedisEvents, c, f
    <2> QED BY <2>1, <2>2, GrowsByTwo
  <1>2. CASE RedisRecv
    <2>1. pc = "recv" /\ pc' \in {"end", "parse"} /\ UNCHANGED <<audit, closes>> BY <1>2 DEF RedisRecv
    <2> QED BY <2>1 DEF Running, Grows
  <1>3. CASE RedisParse
    <2>1. pc = "parse" /\ pc' \in {"recv", "end", "parse"} /\ closes' = closes BY <1>3 DEF RedisParse
    <2>2. audit' = audit \/ \E argv : audit' = audit \o RedisEvents(argv) BY <1>3 DEF RedisParse
    <2>3. Grows(audit, audit') BY <2>2, <1>1 DEF Grows
    <2> QED BY <2>1, <2>3 DEF Running
  <1>4. CASE RedisPeerGone BY <1>4 DEF RedisPeerGone, Running, Grows
  <1> QED BY <1>2, <1>3, <1>4 DEF RedisNext

(* The same of PostgreSQL. *)
LEMMA PgMoves == PgNext => EndSession \/ Running
  <1> SUFFICES ASSUME PgNext, ~EndSession PROVE Running
    OBVIOUS
  <1>1. ASSUME NEW m, PgStartup(m) \/ PgRestart(m) PROVE Running
    <2>1. /\ pc \in {"startup", "restart"} /\ pc' \in {"end", "restart", "password"}
          /\ UNCHANGED <<audit, closes>>
      BY <1>1 DEF PgStartup, PgRestart, PgGiveUp, AskPassword, Refuse
    <2> QED BY <2>1 DEF Running, Grows
  <1>2. ASSUME NEW text, PgPassword(text) PROVE Running
    <2>1. pc = "password" /\ pc' \in {"end", "query"} /\ closes' = closes BY <1>2 DEF PgPassword
    <2>2. \E x, y : audit' = Append(audit, <<"AUTH_FAILURE", x, y>>) BY <1>2 DEF PgPassword
    <2>3. Grows(audit, audit') BY <2>2, BetweenKinds DEF Grows
    <2> QED BY <2>1, <2>3 DEF Running
  <1>3. CASE PgNoPassword BY <1>3 DEF PgNoPassword, PgGiveUp, Running, Grows
  <1>4. CASE PeerGone({"startup", "restart"}) BY <1>4 DEF PeerGone, Running, Grows
  <1> QED BY <1>1, <1>2, <1>3, <1>4 DEF PgNext

(* The same of QuestDB. *)
LEMMA QuestMoves == QuestNext => EndSession \/ Running
  <1>1. ASSUME NEW s, QuestQuery(s) PROVE Running
    <2>1. pc = "query" /\ pc' \in {"query", "end"} /\ closes' = closes BY <1>1 DEF QuestQuery
    <2>2. audit' = audit \/ \E x : audit' = Append(audit, <<"COMMAND", x>>) BY <1>1 DEF QuestQuery
    <2>3. Grows(audit, audit') BY <2>2, BetweenKinds DEF Grows
    <2> QED BY <2>1, <2>3 DEF Running
  <1>2. PeerGone({"query"}) => Running BY DEF PeerGone, Running, Grows
  <1> QED BY <1>1, <1>2, PgMoves DEF QuestNext

(* The same of POP3. *)
LEMMA Pop3Moves == Pop3Next => EndSession \/ Running
  <1>1. ASSUME NEW s, Pop3Recv(s) PROVE Running
    <2>1. pc = "pop3" /\ pc' \in {"pop3", "end"} /\ closes' = closes BY <1>1 DEF Pop3Recv
    <2>2. \E x, y, z : LET e == <<"COMMAND", x>>  f == <<"AUTH_FAILURE", y, z>>
                       IN  audit' = audit \o <<e, f>> \/ audit' = audit \o <<e>>
      BY <1>1 DEF Pop3Recv
    <2>3. Grows(audit, audit') BY <2>2, BetweenKinds, GrowsByTwo
    <2> QED BY <2>1, <2>3 DEF Running
  <1>2. PeerGone({"pop3"}) => Running BY DEF PeerGone, Running, Grows
  <1> QED BY <1>1, <1>2 DEF Pop3Next

(* The same of IMAP. *)
LEMMA ImapMoves == ImapNext => EndSession \/ Running
  <1>1. ASSUME NEW s, ImapRecv(s) PROVE Running
    <2>1. pc = "imap" /\ pc' \in {"imap", "end"} /\ closes' = closes BY <1>1 DEF ImapRecv
    <2>2. PICK x, y : LET e == <<"COMMAND", x>>  f == <<"AUTH_FAILURE">> \o LoginArgs(y)
                       IN  audit' = audit \o <<e, f>> \/ audit' = audit \o <<e>>
      BY <1>1 DEF ImapRecv
    <2>3. \E u, v : LoginArgs(y) = <<u, v>> BY DEF LoginArgs
    <2>4. IsSeq(LoginArgs(y)) BY <2>3, TwoSeq
    <2>5. Between(<<"AUTH_FAILURE">> \o LoginArgs(y))
      <3> DEFINE kind == <<"AUTH_FAILURE">>
      <3>1. IsSeq(kind) /\ Len(kind) = 1 /\ kind[1] = "AUTH_FAILURE" BY OneSeq
      <3> HIDE DEF kind
      <3>2. (kind \o LoginArgs(y))[1] = "AUTH_FAILURE" BY <3>1, <2>4, ConcatShape
      <3> QED BY <3>2 DEF Between, kind
    <2>6. Grows(audit, audit') BY <2>2, <2>5, BetweenKinds, GrowsByTwo
    <2> QED BY <2>1, <2>6 DEF Running
  <1>2. PeerGone({"imap"}) => Running BY DEF PeerGone, Running, Grows
  <1> QED BY <1>1, <1>2 DEF ImapNext

(* The same of DNS. *)
LEMMA DnsMoves == DnsNext => EndSession \/ Running
  <1>1. ASSUME NEW raw, DnsRecv(raw) PROVE Running
    <2>1. pc = "dns" /\ pc' = "end" /\ closes' = closes BY <1>1 DEF DnsRecv
    <2>2. \/ audit' = audit
          \/ \E x : audit' = Append(audit, <<"COMMAND", x>>)
          \/ \E x, y : audit' = audit \o <<<<"COMMAND", x>>, <<"EXPLOIT_ATTEMPT", y>>>>
      BY <1>1 DEF DnsRecv
    <2>3. ASSUME NEW x, NEW y, audit' = audit \o <<<<"COMMAND", x>>, <<"EXPLOIT_ATTEMPT", y>>>>
          PROVE  Grows(audit, audit')
      BY <2>3, BetweenKinds, GrowsByTwo
    <2>4. Grows(audit, audit') BY <2>2, <2>3, BetweenKinds DEF Grows
    <2> QED BY <2>1, <2>4 DEF Running
  <1>2. PeerGone({"dns"}) => Running BY DEF PeerGone, Running, Grows
  <1> QED BY <1>1, <1>2 DEF DnsNext
----------------------------------------------------------------------------
(* A session that goes on keeps its account. *)
LEMMA AccountRuns ==
  ASSUME Account, Running, UNCHANGED service, service \notin {"smtp", "mysql"}
  PROVE  Account'
  <1>1. OpenTrail(audit) BY DEF Account, Running
  <1>2. OpenTrail(audit') BY <1>1, TrailGrows DEF Running
  <1>3. closes' = 0 /\ pc' \notin {"record", "ended"} /\ service' = service
    BY DEF Account, Running
  <1>4. OpenTrail(audit)' BY <1>2 DEF OpenTrail
  <1> QED BY <1>3, <1>4 DEF Account

(* A session that ends completes its account. *)
LEMMA AccountEnds ==
  ASSUME Account, EndSession, UNCHANGED service, service \notin {"smtp", "mysql"}
  PROVE  Account'
  <1>1. OpenTrail(audit) /\ closes = 0 BY DEF Account, EndSession
  <1>2. OverTrail(audit') BY <1>1, TrailEnds DEF EndSession
  <1>3. closes' = 1 /\ pc' = "ended" /\ service' = service
    BY <1>1 DEF EndSession, CloseSocket
  <1>4. OverTrail(audit)' BY <1>2 DEF OverTrail
  <1> QED BY <1>3, <1>4 DEF Account

(* SMTP keeps its account, without a trail. *)
LEMMA AccountSmtp ==
  ASSUME Account, SmtpNext, UNCHANGED service, service = "smtp"
  PROVE  Account'
  <1>1. audit' = audit
    BY DEF SmtpNext, SmtpBanner, SmtpSimple, SmtpLogin, SmtpUser, SmtpPassword, SmtpPlain,
           SmtpPlainText, SmtpData, SmtpDataLine, SmtpRecvFails, SmtpClose, BeginDialogue, Stays
  <1>2. CASE SmtpClose
    BY <1>1, <1>2 DEF SmtpClose, CloseSocket, Account
  <1>3. CASE ~SmtpClose
    <2>1. /\ closes' = closes
          /\ pc \notin {"record", "ended"} /\ pc' \notin {"record", "ended"}
      BY <1>3 DEF SmtpNext, SmtpBanner, SmtpSimple, SmtpLogin, SmtpUser, SmtpPassword, SmtpPlain,
           SmtpPlainText, SmtpData, SmtpDataLine, SmtpRecvFails, BeginDialogue, SendFails, Stays
    <2> QED BY <1>1, <2>1 DEF Account
  <1> QED BY <1>2, <1>3

(* MySQL keeps its account, which has an end after a login only. *)
LEMMA AccountMySql ==
  ASSUME Account, MySqlNext, UNCHANGED service, service = "mysql"
  PROVE  Account'
  <1>1. MySqlAccount /\ closes = IF pc \in {"record", "ended"} THEN 1 ELSE 0
    BY DEF Account
  <1> SUFFICES MySqlAccount' /\ closes' = IF pc' \in {"record", "ended"} THEN 1 ELSE 0
    BY DEF Account
  <1>2. CASE MySqlGreet
    BY <1>1, <1>2 DEF MySqlGreet, MySqlAccount
  <1>3. CASE MySqlGiveUp
    BY <1>1, <1>3 DEF MySqlGiveUp, MySqlAccount, CloseSocket
  <1>4. ASSUME NEW p, MySqlLogin(p)
        PROVE  MySqlAccount' /\ closes' = IF pc' \in {"record", "ended"} THEN 1 ELSE 0
    <2>1. pc = "login" /\ pc' = "query" /\ closes' = closes BY <1>4 DEF MySqlLogin
    <2>2. PICK x : audit' = Append(audit, <<"AUTH_FAILURE", x>>) BY <1>4 DEF MySqlLogin
    <2> DEFINE e == <<"AUTH_FAILURE", x>>
    <2>3. Between(e) /\ e[1] = "AUTH_FAILURE" BY BetweenKinds
    <2>4. audit = <<<<"CONNECT">>>> BY <1>1, <2>1 DEF MySqlAccount
    <2>5. IsSeq(audit) /\ Len(audit) = 1 /\ audit[1][1] = "CONNECT" BY <2>4, OneSeq
    <2> HIDE DEF e
    <2>6. OpenTrail(audit) BY <2>5 DEF OpenTrail
    <2>7. audit' = Append(audit, e) BY <2>2 DEF e
    <2>8. OpenTrail(audit') BY <2>3, <2>6, <2>7, TrailGrows DEF Grows
    <2>9. Len(audit') = 2 /\ audit'[2] = e
      <3>1. Len(audit') = Len(audit) + 1 /\ audit'[Len(audit) + 1] = e BY <2>5, <2>7, AppendShape
      <3>2. Len(audit) + 1 = 2 BY <2>5
      <3> QED BY <3>1, <3>2
    <2>10. OpenTrail(audit)' /\ Len(audit') >= 2 /\ audit'[2][1] = "AUTH_FAILURE"
      BY <2>3, <2>8, <2>9 DEF OpenTrail
    <2>11. MySqlAccount' BY <2>1, <2>10 DEF MySqlAccount
    <2> QED BY <1>1, <2>1, <2>11
  <1>5. ASSUME NEW p, MySqlQuery(p)
        PROVE  MySqlAccount' /\ closes' = IF pc' \in {"record", "ended"} THEN 1 ELSE 0
    <2>1. pc = "query" /\ pc' = "query" /\ closes' = closes BY <1>5 DEF MySqlQuery
    <2>2. audit' = audit \/ audit' = Append(audit, <<"COMMAND", p>>) BY <1>5 DEF MySqlQuery
    <2>3. Grows(audit, audit') BY <2>2, BetweenKinds DEF Grows
    <2>4. OpenTrail(audit) /\ Len(audit) >= 2 /\ audit[2][1] = "AUTH_FAILURE"
      BY <1>1, <2>1 DEF MySqlAccount
    <2>5. OpenTrail(audit') /\ Len(audit') >= Len(audit) /\ \A i \in 1 .. Len(audit) : audit'[i] = audit[i]
      BY <2>3, <2>4, TrailGrows
    <2>6. Len(audit) \in Nat /\ Len(audit') \in Nat BY <2>4, <2>5, SeqShape DEF OpenTrail
    <2>7. Len(audit') >= 2 /\ audit'[2] = audit[2] BY <2>4, <2>5, <2>6
    <2>8. OpenTrail(audit)' BY <2>5 DEF OpenTrail
    <2>9. MySqlAccount' BY <2>1, <2>4, <2>7, <2>8 DEF MySqlAccount
    <2> QED BY <1>1, <2>1, <2>9
  <1>6. CASE MySqlClose
    <2>1. pc = "query" /\ pc' = "record" /\ audit' = audit /\ closes' = closes + 1
      BY <1>6 DEF MySqlClose, CloseSocket
    <2>2. OpenTrail(audit) /\ Len(audit) >= 2 /\ audit[2][1] = "AUTH_FAILURE"
      BY <1>1, <2>1 DEF MySqlAccount
    <2>3. OpenTrail(audit)' BY <2>1, <2>2 DEF OpenTrail
    <2>4. MySqlAccount' BY <2>1, <2>2, <2>3 DEF MySqlAccount
    <2> QED BY <1>1, <2>1, <2>4
  <1>7. CASE MySqlRecordEnd
    <2>1. /\ pc = "record" /\ pc' = "ended" /\ audit' = Append(audit, <<"DISCONNECT">>)
          /\ closes' = closes
      BY <1>7 DEF MySqlRecordEnd
    <2>2. OpenTrail(audit) /\ Len(audit) >= 2 /\ audit[2][1] = "AUTH_FAILURE"
      BY <1>1, <2>1 DEF MySqlAccount
    <2>3. OverTrail(audit') /\ Len(audit') = Len(audit) + 1 /\ \A i \in 1 .. Len(audit) : audit'[i] = audit[i]
      BY <2>1, <2>2, TrailEnds
    <2>4. Len(audit) \in Nat BY <2>2, SeqShape DEF OpenTrail
    <2>5. Len(audit') >= 3 /\ audit'[2] = audit[2] BY <2>2, <2>3, <2>4
    <2>6. OverTrail(audit)' BY <2>3 DEF OverTrail
    <2>7. MySqlAccount' BY <2>1, <2>2, <2>5, <2>6 DEF MySqlAccount
    <2> QED BY <1>1, <2>1, <2>7
  <1> QED BY <1>2, <1>3, <1>4, <1>5, <1>6, <1>7 DEF MySqlNext

(* Every service begins with its account in order. *)
LEMMA AccountInit == Init => Account
  <1> SUFFICES ASSUME Init PROVE Account
    OBVIOUS
  <1>1. service \in Services BY DEF Init
  <1>2. CASE service = "smtp" BY <1>1, <1>2 DEF Init, SmtpInit, Account
  <1>3. CASE service # "smtp"
    <2>1. /\ audit = <<<<"CONNECT">>>> /\ closes = 0
          /\ pc \notin {"record", "ended"} /\ (service = "mysql" => pc = "greet")
      BY <1>1, <1>3, ServicesAssumption
         DEF Init, ServicesAssumption, FtpInit, MySqlInit, RedisInit, PgInit, Pop3Init, ImapInit,
             DnsInit, Begins
    <2>2. IsSeq(audit) /\ Len(audit) = 1 /\ audit[1][1] = "CONNECT" BY <2>1, OneSeq
    <2>3. OpenTrail(audit) BY <2>2 DEF OpenTrail
    <2> QED BY <1>1, <1>3, <2>1, <2>3 DEF Account, MySqlAccount
  <1> QED BY <1>2, <1>3

(* Each step keeps Account. *)
LEMMA AccountStep ==
  ASSUME Account, [Next]_session
  PROVE  Account'
  <1>1. CASE Ended \/ UNCHANGED session
    <2>1. UNCHANGED session BY <1>1 DEF Ended
    <2>2. UNCHANGED <<service, pc, audit, closes>> BY <2>1 DEF session
    <2>3. OpenTrail(audit)' <=> OpenTrail(audit) BY <2>2 DEF OpenTrail
    <2>4. OverTrail(audit)' <=> OverTrail(audit) BY <2>2 DEF OverTrail
    <2>5. MySqlAccount => MySqlAccount' BY <2>2, <2>3, <2>4 DEF MySqlAccount
    <2> QED BY <2>2, <2>3, <2>4, <2>5 DEF Account
  <1>2. CASE ServiceStep /\ UNCHANGED service
    <2>1. CASE service = "smtp" /\ SmtpNext BY <1>2, <2>1, AccountSmtp
    <2>2. CASE service = "mysql" /\ MySqlNext BY <1>2, <2>2, AccountMySql
    <2>3. CASE service \notin {"smtp", "mysql"} /\ (EndSession \/ Running)
      BY <1>2, <2>3, AccountRuns, AccountEnds
    <2> QED
      BY <1>2, <2>1, <2>2, <2>3, FtpMoves, RedisMoves, PgMoves, QuestMoves, Pop3Moves, ImapMoves,
         DnsMoves
         DEF ServiceStep
  <1> QED BY <1>1, <1>2 DEF Next

(* In each of the nine services the descriptor is closed exactly once, on  *)
(* every way out and not before.  In seven of them the trail of a session  *)
(* has exactly one connection, first, and exactly one disconnection, last, *)
(* once the session is over; in MySQL if there was a login, and without    *)
(* one there is no disconnection; in SMTP the trail is empty.              *)
THEOREM SessionsAccounted == Spec => []SessionAccounted
  <1>1. Account => SessionAccounted
    <2> SUFFICES ASSUME Account PROVE SessionAccounted
      OBVIOUS
    <2> DEFINE kinds == [i \in DOMAIN audit |-> audit[i][1]]
    <2> DEFINE given == service = "mysql" /\ \A i \in DOMAIN kinds : kinds[i] # "AUTH_FAILURE"
    <2>1. CASE service = "smtp" BY <2>1 DEF Account, SessionAccounted
    <2>2. CASE service # "smtp"
      <3>1. ASSUME OpenTrail(audit)
            PROVE  /\ {i \in DOMAIN kinds : kinds[i] = "CONNECT"} = {1}
                   /\ {i \in DOMAIN kinds : kinds[i] = "DISCONNECT"} = {}
        <4>1. DOMAIN kinds = 1 .. Len(audit) /\ Len(audit) \in Nat /\ Len(audit) >= 1
          BY <3>1, SeqShape DEF OpenTrail
        <4>2. \A i \in DOMAIN kinds : kinds[i] = audit[i][1] OBVIOUS
        <4>3. \A i \in DOMAIN kinds : i = 1 \/ i \in 2 .. Len(audit) BY <4>1
        <4> HIDE DEF kinds
        <4>4. \A i \in DOMAIN kinds : IF i = 1 THEN kinds[i] = "CONNECT"
                                      ELSE kinds[i] \notin {"CONNECT", "DISCONNECT"}
          BY <3>1, <4>2, <4>3 DEF OpenTrail, Between
        <4>5. 1 \in DOMAIN kinds BY <4>1
        <4> QED BY <4>4, <4>5
      <3>2. ASSUME OverTrail(audit)
            PROVE  /\ {i \in DOMAIN kinds : kinds[i] = "CONNECT"} = {1}
                   /\ {i \in DOMAIN kinds : kinds[i] = "DISCONNECT"} = {Len(kinds)}
        <4>1. DOMAIN kinds = 1 .. Len(audit) /\ Len(audit) \in Nat /\ Len(audit) >= 2
          BY <3>2, SeqShape DEF OverTrail
        <4>2. \A i \in DOMAIN kinds : kinds[i] = audit[i][1] OBVIOUS
        <4>3. \A i \in DOMAIN kinds : i = 1 \/ i = Len(audit) \/ i \in 2 .. Len(audit) - 1 BY <4>1
        <4>4. Len(kinds) = Len(audit) BY <4>1
        <4> HIDE DEF kinds
        <4>5. \A i \in DOMAIN kinds : CASE i = 1 -> kinds[i] = "CONNECT"
                                        [] i = Len(audit) -> kinds[i] = "DISCONNECT"
                                        [] OTHER -> kinds[i] \notin {"CONNECT", "DISCONNECT"}
          BY <3>2, <4>1, <4>2, <4>3 DEF OverTrail, Between
        <4>6. 1 \in DOMAIN kinds /\ Len(audit) \in DOMAIN kinds /\ Len(audit) # 1
          <5>1. \A n \in Nat : n >= 2 => 1 \in 1 .. n /\ n \in 1 .. n /\ n # 1 OBVIOUS
          <5> QED BY <4>1, <5>1
        <4> QED BY <4>4, <4>5, <4>6
      <3>3. CASE pc = "ended" /\ ~given
        <4>1. OverTrail(audit)
          <5>1. CASE service # "mysql" BY <2>2, <3>3, <5>1 DEF Account
          <5>2. CASE service = "mysql" /\ audit = <<<<"CONNECT">>>>
            <6>1. Len(audit) = 1 /\ audit[1] = <<"CONNECT">> /\ IsSeq(audit) BY <5>2, OneSeq
            <6>2. audit[1][1] = "CONNECT" BY <6>1
            <6>3. DOMAIN audit = 1 .. 1 BY <6>1, SeqShape
            <6>4. \A i \in DOMAIN kinds : i = 1 BY <6>3
            <6>5. \A i \in DOMAIN kinds : kinds[i] # "AUTH_FAILURE" BY <6>2, <6>4
            <6> QED BY <3>3, <5>2, <6>5
          <5> QED BY <3>3, <5>1, <5>2 DEF Account, MySqlAccount
        <4> QED BY <2>2, <3>2, <3>3, <4>1 DEF Account, SessionAccounted
      <3>4. CASE ~(pc = "ended" /\ ~given)
        <4>1. OpenTrail(audit)
          <5>1. CASE service # "mysql" BY <2>2, <3>4, <5>1 DEF Account
          <5>2. ASSUME audit = <<<<"CONNECT">>>> PROVE OpenTrail(audit)
            <6>1. IsSeq(audit) /\ Len(audit) = 1 /\ audit[1][1] = "CONNECT" BY <5>2, OneSeq
            <6> QED BY <6>1 DEF OpenTrail
          <5>3. CASE service = "mysql" /\ OverTrail(audit) /\ Len(audit) >= 3 /\ audit[2][1] = "AUTH_FAILURE" /\ pc = "ended"
            <6>1. 2 \in DOMAIN audit BY <5>3, SeqShape DEF OverTrail
            <6>2. 2 \in DOMAIN kinds /\ kinds[2] = "AUTH_FAILURE" BY <5>3, <6>1
            <6> QED BY <3>4, <5>3, <6>2
          <5> QED BY <5>1, <5>2, <5>3 DEF Account, MySqlAccount
        <4> QED BY <2>2, <3>1, <3>4, <4>1 DEF Account, SessionAccounted
      <3> QED BY <3>3, <3>4
    <2> QED BY <2>1, <2>2
  <1>2. Init => Account BY AccountInit
  <1>3. Account /\ [Next]_session => Account' BY AccountStep
  <1> QED BY <1>1, <1>2, <1>3, PTL DEF Spec
----------------------------------------------------------------------------
(***************************************************************************)
(* FTP: the current directory stays inside its buffer, each line is        *)
(* answered and recorded once, and the trail tells who is logged in.       *)
(***************************************************************************)
PathBytes == STRING \cup {"/", "D", SP}
CwdOK(c) == c \in Seq(PathBytes) /\ c # <<>> /\ Head(c) = "/" /\ Len(c) < CwdSize

FtpLocal ==
  [running : BOOLEAN, batch : Seq(FtpLines), authenticated : BOOLEAN, attempts : Nat,
   username : FtpNames \cup {NoName}, cwd : Seq(PathBytes), taken : Nat]

FtpCounts ==
  /\ local \in FtpLocal
  /\ CwdOK(local.cwd)
  /\ IsSeq(replies) /\ Len(replies) = local.taken
  /\ \A i \in 1 .. Len(replies) : Len(replies[i]) = 1
  /\ local.running \/ \E i \in 1 .. Len(replies) : replies[i] = <<221>>
  /\ Len(audit) = local.taken + (IF pc = "ended" THEN 2 ELSE 1)

(* The minimum of two naturals, as the community modules define it. *)
LEMMA MinOfTwo ==
  ASSUME NEW a \in Nat, NEW b \in Nat
  PROVE  Min({a, b}) \in Nat /\ Min({a, b}) <= a /\ Min({a, b}) <= b /\ Min({a, b}) \in {a, b}
  BY DEF Min

(* What Cut leaves of a string, with room for one byte and the NUL. *)
LEMMA CutFits ==
  ASSUME NEW s, IsSeq(s), NEW size \in Nat, size > 0
  PROVE  /\ IsSeq(Cut(s, size)) /\ Len(Cut(s, size)) < size
         /\ Len(Cut(s, size)) = Min({Len(s), size - 1})
         /\ \A i \in 1 .. Len(Cut(s, size)) : Cut(s, size)[i] = s[i]
  <1> DEFINE n == Min({Len(s), size - 1})
  <1>1. Len(s) \in Nat /\ size - 1 \in Nat BY SeqShape
  <1>2. n \in Nat /\ n <= Len(s) /\ n <= size - 1 BY <1>1, MinOfTwo
  <1> HIDE DEF n
  <1>3. PICK S : s \in Seq(S) BY DEF IsSeq
  <1>4. SubSeq(s, 1, n) \in Seq(S) /\ Len(SubSeq(s, 1, n)) = n BY <1>2, <1>3, SubSeqProperties
  <1>5. \A i \in 1 .. n : SubSeq(s, 1, n)[i] = s[i] BY <1>2, <1>3, SubSeqProperties
  <1>6. IsSeq(SubSeq(s, 1, n)) BY <1>4 DEF IsSeq
  <1>7. Cut(s, size) = SubSeq(s, 1, n) BY DEF Cut, n
  <1>8. n < size BY <1>1, <1>2
  <1>9. n = Min({Len(s), size - 1}) BY DEF n
  <1> QED BY <1>4, <1>5, <1>6, <1>7, <1>8, <1>9

(* The paths of the assumption, among the sequences used here. *)
LEMMA FtpPathsTyped ==
  ASSUME FtpAssumption, NEW p \in {Home, Parent} \cup FtpPaths
  PROVE  p \in Seq(PathBytes)
  <1>1. p \in Seq(STRING) BY DEF FtpAssumption
  <1>2. STRING \subseteq PathBytes BY DEF PathBytes
  <1> QED BY <1>1, <1>2, SeqMonotonic

(* snprintf into the directory keeps it absolute and within its buffer. *)
LEMMA CutPath ==
  ASSUME NEW s \in Seq(PathBytes), s # <<>>, Head(s) = "/", FtpAssumption
  PROVE  CwdOK(Cut(s, CwdSize))
  <1> DEFINE n == Min({Len(s), CwdSize - 1})
  <1>1. Home # <<>> /\ Home \in Seq(PathBytes) /\ Len(Home) < CwdSize /\ CwdSize \in Nat
    BY FtpPathsTyped DEF FtpAssumption
  <1>2. CwdSize \in Nat /\ CwdSize >= 2 BY <1>1
  <1>3. Len(s) \in Nat /\ Len(s) >= 1 /\ CwdSize - 1 \in Nat BY <1>2
  <1>4. n \in Nat /\ n >= 1 /\ n <= Len(s) /\ n <= CwdSize - 1 BY <1>2, <1>3, MinOfTwo, SMTT(40)
  <1> HIDE DEF n
  <1>5. SubSeq(s, 1, n) \in Seq(PathBytes) /\ Len(SubSeq(s, 1, n)) = n /\ SubSeq(s, 1, n)[1] = s[1]
    BY <1>4, SubSeqProperties
  <1>6. CwdOK(SubSeq(s, 1, n)) BY <1>2, <1>4, <1>5 DEF CwdOK
  <1> QED BY <1>6 DEF Cut, n

(* strncat with the room that ftp_handle_cwd works out does so too. *)
LEMMA StrncatFits ==
  ASSUME FtpAssumption, NEW old, CwdOK(old), NEW src \in Seq(PathBytes)
  PROVE  CwdOK(Strncat(old, src, CatRoom(Len(old))))
  <1> DEFINE r == CatRoom(Len(old))
             n == Min({Len(src), r})
             t == SubSeq(src, 1, n)
  <1>1. /\ old \in Seq(PathBytes) /\ old # <<>> /\ Head(old) = "/"
        /\ Len(old) < CwdSize /\ CwdSize \in Nat
    BY DEF CwdOK, FtpAssumption
  <1>2. Len(old) \in Nat /\ Len(src) \in Nat BY <1>1
  <1>3. r \in Nat /\ r + Len(old) < CwdSize BY <1>1, <1>2 DEF CatRoom
  <1> HIDE DEF r
  <1>4. n \in Nat /\ n <= Len(src) /\ n <= r BY <1>2, <1>3, MinOfTwo
  <1> HIDE DEF n
  <1>5. t \in Seq(PathBytes) /\ Len(t) = n BY <1>2, <1>4, SubSeqProperties
  <1>6. Strncat(old, src, r) = old \o t
    <2>1. ~(r < 0) BY <1>3
    <2> QED BY <2>1 DEF Strncat, t, n
  <1> HIDE DEF t
  <1>7. /\ old \o t \in Seq(PathBytes) /\ Len(old \o t) = Len(old) + n
        /\ old \o t # <<>> /\ Head(old \o t) = "/"
    BY <1>1, <1>5, SMTT(40)
  <1>8. Len(old) + n < CwdSize BY <1>1, <1>2, <1>3, <1>4
  <1> QED BY <1>6, <1>7, <1>8 DEF CwdOK, r

(* So do all forms of CWD and CDUP. *)
LEMMA NewCwdFits ==
  ASSUME FtpAssumption, NEW old, CwdOK(old), NEW arg \in Seq(PathBytes)
  PROVE  CwdOK(NewCwd(old, arg))
  <1>1. CASE arg # <<>> /\ Head(arg) = "/" BY <1>1, CutPath DEF NewCwd
  <1>2. CASE ~(arg # <<>> /\ Head(arg) = "/")
    <2> DEFINE slashed == IF old # <<>> /\ Last(old) # "/"
                          THEN Strncat(old, <<"/">>, CatRoom(Len(old))) ELSE old
    <2>1. <<"/">> \in Seq(PathBytes)
      <3>1. "/" \in PathBytes BY DEF PathBytes
      <3> QED BY <3>1
    <2>2. CwdOK(Strncat(old, <<"/">>, CatRoom(Len(old)))) BY <2>1, StrncatFits
    <2>3. CwdOK(slashed) BY <2>2
    <2>4. NewCwd(old, arg) = Strncat(slashed, arg, CatRoom(Len(slashed))) BY <1>2 DEF NewCwd
    <2> HIDE DEF slashed
    <2>5. CwdOK(Strncat(slashed, arg, CatRoom(Len(slashed)))) BY <2>3, StrncatFits
    <2> QED BY <2>4, <2>5
  <1> QED BY <1>1, <1>2

(* The arguments of the lines that have one. *)
LEMMA FtpLineFields ==
  ASSUME NEW l \in FtpLines
  PROVE  /\ l.verb = "USER" => l.name \in FtpNames
         /\ l.verb \in {"CWD", "XCWD"} => l.path \in FtpPaths
  BY DEF FtpLines

(* Once enough attempts were made all succeed, so the limit is not met. *)
LEMMA NeverAtLimit ==
  ASSUME FtpAssumption, NEW n \in Nat
  PROVE  ~AtLimit(n)
  BY DEF FtpAssumption, AtLimit, Granted

(* A line is handled, with this effect on ftp_session_t. *)
LEMMA HandleCounts ==
  ASSUME FtpAssumption, FtpCounts, OpenTrail(audit), NEW verbs, NEW code, NEW sess \in FtpLocal,
         Handle(verbs, <<code>>, sess), CwdOK(sess.cwd),
         sess.batch = local.batch, sess.taken = local.taken, sess.running = local.running,
         GoesOn(Head(local.batch)) \/ code = 221
  PROVE  FtpCounts'
  <1> DEFINE h == Head(local.batch)
  <1>1. local.batch \in Seq(FtpLines) /\ local.batch # <<>> /\ local.taken \in Nat
    BY DEF FtpCounts, FtpLocal, Handle
  <1>2. Tail(local.batch) \in Seq(FtpLines) /\ h \in FtpLines BY <1>1
  <1>3. GoesOn(h) \in BOOLEAN BY DEF GoesOn
  <1>4. /\ local' = [sess EXCEPT !.batch = Tail(@), !.taken = @ + 1, !.running = @ /\ GoesOn(h)]
        /\ pc = "line" /\ pc' = pc
        /\ audit' = Append(audit, Recorded(h)) /\ replies' = Append(replies, <<code>>)
    BY DEF Handle
  <1> HIDE DEF h
  <1>5. /\ local' \in FtpLocal /\ local'.cwd = sess.cwd /\ local'.taken = local.taken + 1
        /\ local'.running = (local.running /\ GoesOn(h))
    <2> DEFINE on == sess.running /\ GoesOn(h)
    <2>1. on \in BOOLEAN OBVIOUS
    <2>2. local' = [sess EXCEPT !.batch = Tail(@), !.taken = @ + 1, !.running = on] BY <1>4
    <2>3. on = (local.running /\ GoesOn(h)) OBVIOUS
    <2> HIDE DEF on
    <2>4. sess.taken + 1 \in Nat /\ Tail(sess.batch) \in Seq(FtpLines) BY <1>1, <1>2
    <2>5. local' \in FtpLocal BY <2>1, <2>2, <2>4 DEF FtpLocal
    <2>6. local'.cwd = sess.cwd /\ local'.taken = sess.taken + 1 /\ local'.running = on
      BY <2>2 DEF FtpLocal
    <2> QED BY <2>3, <2>5, <2>6
  <1>6. IsSeq(replies) /\ Len(replies) \in Nat /\ Len(replies) = local.taken BY SeqShape DEF FtpCounts
  <1> DEFINE r == <<code>>
  <1>7. Len(r) = 1 /\ r = <<code>> OBVIOUS
  <1> HIDE DEF r
  <1>8. /\ IsSeq(replies') /\ Len(replies') = Len(replies) + 1 /\ replies'[Len(replies) + 1] = r
        /\ \A i \in 1 .. Len(replies) : replies'[i] = replies[i]
    <2>1. replies' = Append(replies, r) BY <1>4, <1>7
    <2> QED BY <2>1, <1>6, AppendShape, SMTT(40)
  <1>9. \A i \in 1 .. Len(replies') : Len(replies'[i]) = 1
    <2>1. \A i \in 1 .. Len(replies') : i = Len(replies) + 1 \/ i \in 1 .. Len(replies) BY <1>6, <1>8
    <2>2. \A i \in 1 .. Len(replies) : Len(replies[i]) = 1 BY DEF FtpCounts
    <2> QED BY <2>1, <2>2, <1>7, <1>8, SMTT(40)
  <1>10. local'.running \/ \E i \in 1 .. Len(replies') : replies'[i] = <<221>>
    <2>1. CASE code = 221
      <3>1. Len(replies) + 1 \in 1 .. Len(replies') BY <1>6, <1>8
      <3> QED BY <3>1, <2>1, <1>7, <1>8
    <2>2. CASE GoesOn(h) /\ ~local.running
      <3>1. PICK i \in 1 .. Len(replies) : replies[i] = <<221>> BY <2>2 DEF FtpCounts
      <3>2. i \in 1 .. Len(replies') BY <1>6, <1>8
      <3>3. replies'[i] = <<221>> BY <1>8, <3>1
      <3> QED BY <3>2, <3>3
    <2>3. CASE GoesOn(h) /\ local.running BY <2>3, <1>5
    <2>4. code = 221 \/ (GoesOn(h) /\ ~local.running) \/ (GoesOn(h) /\ local.running) BY DEF h
    <2> QED BY <2>1, <2>2, <2>3, <2>4
  <1>11. Len(audit') = Len(audit) + 1 BY <1>4, AppendShape DEF OpenTrail
  <1>12. Len(audit') = local'.taken + 1 /\ pc' # "ended"
    BY <1>1, <1>4, <1>5, <1>11 DEF FtpCounts
  <1>13. CwdOK(local'.cwd) BY <1>5
  <1>14. Len(replies') = local'.taken BY <1>5, <1>6, <1>8
  <1> QED BY <1>5, <1>8, <1>9, <1>10, <1>12, <1>13, <1>14 DEF FtpCounts, CwdOK

(* FtpCounts holds at the start. *)
LEMMA FtpCountsInit == FtpAssumption /\ FtpInit => FtpCounts
  <1> SUFFICES ASSUME FtpAssumption, FtpInit PROVE FtpCounts
    OBVIOUS
  <1> DEFINE l == [running |-> TRUE, batch |-> <<>>, authenticated |-> FALSE, attempts |-> 0,
                   username |-> NoName, cwd |-> <<"/">>, taken |-> 0]
  <1>1. local = l /\ replies = <<>> /\ pc = "recv" /\ audit = <<<<"CONNECT">>>>
    BY DEF FtpInit, Begins
  <1>2. <<>> \in Seq(FtpLines) /\ <<"/">> \in Seq(PathBytes)
    <2>1. "/" \in PathBytes BY DEF PathBytes
    <2> QED BY <2>1
  <1>3. l \in FtpLocal BY <1>2 DEF FtpLocal
  <1>4. Home # <<>> /\ Home \in Seq(PathBytes) /\ Len(Home) < CwdSize /\ CwdSize \in Nat
    BY FtpPathsTyped DEF FtpAssumption
  <1>5. CwdSize >= 2 BY <1>4
  <1>6. CwdOK(<<"/">>) BY <1>4, <1>5 DEF CwdOK
  <1>7. l.cwd = <<"/">> /\ l.taken = 0 /\ l.running = TRUE OBVIOUS
  <1>8. Len(audit) = 1 BY <1>1
  <1>9. IsSeq(replies) /\ Len(replies) = 0 BY <1>1, EmptyIsSeq
  <1> HIDE DEF l
  <1> QED BY <1>1, <1>3, <1>6, <1>7, <1>8, <1>9 DEF FtpCounts

(* What the lines do to ftp_session_t, apart from what every line does. *)
LEMMA FtpCountsStep ==
  ASSUME FtpAssumption, FtpCounts, pc # "ended" => OpenTrail(audit), FtpNext
  PROVE  FtpCounts'
  <1> DEFINE h == Head(local.batch)
  <1>1. local \in FtpLocal /\ CwdOK(local.cwd) /\ local.attempts \in Nat /\ NextAttempt \in Nat
    BY DEF FtpCounts, FtpLocal, NextAttempt
  <1>2. ASSUME local.batch # <<>> PROVE h \in FtpLines
    BY <1>1, <1>2 DEF FtpLocal
  <1>3. ~AtLimit(NextAttempt) BY <1>1, NeverAtLimit
  <1>4. h.verb # "QUIT" => GoesOn(h) BY <1>3 DEF GoesOn
  <1>5. ASSUME NEW verbs, NEW code, NEW sess \in FtpLocal, Handle(verbs, <<code>>, sess),
               CwdOK(sess.cwd), sess.batch = local.batch, sess.taken = local.taken,
               sess.running = local.running, "QUIT" \notin verbs \/ code = 221
        PROVE  FtpCounts'
    <2>1. pc = "line" /\ h.verb \in verbs BY <1>5 DEF Handle
    <2>2. OpenTrail(audit) BY <2>1
    <2>3. GoesOn(h) \/ code = 221 BY <1>4, <1>5, <2>1
    <2> QED BY <1>5, <2>2, <2>3, HandleCounts
  <1> HIDE DEF h
  <1>6. ASSUME NEW lines \in BoundedSeq(FtpLines, FtpMaxBatch), FtpRecv(lines) PROVE FtpCounts'
    <2>1. lines \in Seq(FtpLines)
      <3>1. FtpMaxBatch \in Nat BY DEF FtpAssumption
      <3>2. PICK m \in 0 .. FtpMaxBatch : lines \in [1 .. m -> FtpLines] BY DEF BoundedSeq, SeqOf
      <3>3. m \in Nat BY <3>1
      <3> QED BY <3>2, <3>3
    <2>2. /\ local' = [local EXCEPT !.batch = lines] /\ pc = "recv" /\ pc' = "line"
          /\ UNCHANGED <<audit, replies>>
      BY <1>6 DEF FtpRecv
    <2>3. /\ local' \in FtpLocal /\ local'.cwd = local.cwd /\ local'.taken = local.taken
          /\ local'.running = local.running
      BY <1>1, <2>1, <2>2 DEF FtpLocal
    <2> QED BY <2>2, <2>3 DEF FtpCounts, CwdOK
  <1>7. CASE FtpBatchDone \/ PeerGone({"recv"})
    <2>1. UNCHANGED <<local, audit, replies>> /\ pc # "ended" /\ pc' # "ended"
      BY <1>7 DEF FtpBatchDone, PeerGone
    <2> QED BY <2>1 DEF FtpCounts, CwdOK
  <1>8. CASE FtpSkipEmpty
    <2>1. /\ local' = [local EXCEPT !.batch = Tail(@)] /\ local.batch # <<>> /\ UNCHANGED <<pc, audit, replies>>
      BY <1>8 DEF FtpSkipEmpty
    <2>2. Tail(local.batch) \in Seq(FtpLines) BY <1>1, <2>1 DEF FtpLocal
    <2>3. /\ local' \in FtpLocal /\ local'.cwd = local.cwd /\ local'.taken = local.taken
          /\ local'.running = local.running
      BY <1>1, <2>1, <2>2 DEF FtpLocal
    <2> QED BY <2>1, <2>3 DEF FtpCounts, CwdOK
  <1>9. CASE FtpUser
    <2> DEFINE sess == [local EXCEPT !.username = h.name, !.authenticated = AfterUser(@)]
    <2>1. Handle({"USER"}, <<331>>, sess) BY <1>9 DEF FtpUser, h
    <2>2. h.name \in FtpNames BY <1>2, <2>1, FtpLineFields DEF Handle, h
    <2>3. /\ sess \in FtpLocal /\ sess.cwd = local.cwd /\ sess.batch = local.batch
          /\ sess.taken = local.taken /\ sess.running = local.running
      BY <1>1, <2>2 DEF FtpLocal, AfterUser
    <2> HIDE DEF sess
    <2>4. CwdOK(sess.cwd) /\ "QUIT" \notin {"USER"} BY <1>1, <2>3
    <2> QED BY <1>5, <2>1, <2>3, <2>4, ZenonT(40)
  <1>10. CASE FtpPass
    <2>1. CASE Handle({"PASS"}, <<230>>, [local EXCEPT !.attempts = NextAttempt,
                                                       !.authenticated = TRUE, !.cwd = Home])
      <3> DEFINE sess == [local EXCEPT !.attempts = NextAttempt, !.authenticated = TRUE, !.cwd = Home]
      <3>1. Home \in Seq(PathBytes) /\ CwdOK(Home) BY FtpPathsTyped DEF FtpAssumption, CwdOK
      <3>2. /\ sess \in FtpLocal /\ sess.cwd = Home /\ sess.batch = local.batch
            /\ sess.taken = local.taken /\ sess.running = local.running
        BY <1>1, <3>1 DEF FtpLocal
      <3>3. Handle({"PASS"}, <<230>>, sess) BY <2>1
      <3> HIDE DEF sess
      <3> QED BY <1>5, <3>1, <3>2, <3>3
    <2>2. CASE Handle({"PASS"}, <<530>>, [local EXCEPT !.attempts = NextAttempt])
      <3> DEFINE sess == [local EXCEPT !.attempts = NextAttempt]
      <3>1. /\ sess \in FtpLocal /\ sess.cwd = local.cwd /\ sess.batch = local.batch
            /\ sess.taken = local.taken /\ sess.running = local.running
        BY <1>1 DEF FtpLocal
      <3>2. Handle({"PASS"}, <<530>>, sess) BY <2>2
      <3>3. CwdOK(sess.cwd) BY <1>1, <3>1
      <3> HIDE DEF sess
      <3>4. OpenTrail(audit) /\ GoesOn(Head(local.batch)) BY <1>4, <3>2 DEF Handle, h
      <3> QED BY <3>1, <3>2, <3>3, <3>4, HandleCounts
    <2> QED BY <1>3, <1>10, <2>1, <2>2 DEF FtpPass
  <1>11. CASE FtpQuit BY <1>1, <1>5, <1>11 DEF FtpQuit
  <1>12. CASE FtpRefused BY <1>1, <1>5, <1>12, ZenonT(40) DEF FtpRefused
  <1>13. CASE FtpOther BY <1>1, <1>5, <1>13, ZenonT(40) DEF FtpOther
  <1>14. CASE FtpCwd
    <2>1. CASE Handle({"CDUP"}, <<250>>, [local EXCEPT !.cwd = Parent])
      <3> DEFINE sess == [local EXCEPT !.cwd = Parent]
      <3>1. Parent \in Seq(PathBytes) /\ CwdOK(Parent) BY FtpPathsTyped DEF FtpAssumption, CwdOK
      <3>2. /\ sess \in FtpLocal /\ sess.cwd = Parent /\ sess.batch = local.batch
            /\ sess.taken = local.taken /\ sess.running = local.running
        BY <1>1, <3>1 DEF FtpLocal
      <3>3. Handle({"CDUP"}, <<250>>, sess) BY <2>1
      <3> HIDE DEF sess
      <3> QED BY <1>5, <3>1, <3>2, <3>3
    <2>2. CASE Handle({"CWD", "XCWD"}, <<250>>, [local EXCEPT !.cwd = NewCwd(@, CwdArgument(h))])
      <3> DEFINE c == NewCwd(local.cwd, CwdArgument(h))
      <3> DEFINE sess == [local EXCEPT !.cwd = c]
      <3>1. h \in FtpLines /\ h.verb \in {"CWD", "XCWD"} BY <1>2, <2>2 DEF Handle, h
      <3>2. h.path \in Seq(PathBytes) BY <3>1, FtpLineFields, FtpPathsTyped
      <3>3. <<"D", SP>> \o h.path \in Seq(PathBytes)
        <4>1. <<"D", SP>> \in Seq(PathBytes)
          <5>1. "D" \in PathBytes /\ SP \in PathBytes BY DEF PathBytes
          <5> QED BY <5>1
        <4> QED BY <3>2, <4>1, ConcatProperties
      <3>4. CwdArgument(h) \in Seq(PathBytes) BY <3>2, <3>3 DEF CwdArgument
      <3>5. CwdOK(c) BY <1>1, <3>4, NewCwdFits
      <3>6. Handle({"CWD", "XCWD"}, <<250>>, sess) BY <2>2
      <3> HIDE DEF c
      <3>7. c \in Seq(PathBytes) BY <3>5 DEF CwdOK
      <3>8. /\ sess \in FtpLocal /\ sess.cwd = c /\ sess.batch = local.batch
            /\ sess.taken = local.taken /\ sess.running = local.running
        BY <1>1, <3>7 DEF FtpLocal
      <3> HIDE DEF sess
      <3> QED BY <1>5, <3>5, <3>6, <3>8
    <2> QED BY <1>14, <2>1, <2>2 DEF FtpCwd, h
  <1>15. CASE EndSession
    <2>1. /\ pc = "end" /\ pc' = "ended" /\ audit' = Append(audit, <<"DISCONNECT">>)
          /\ UNCHANGED <<local, replies>>
      BY <1>15 DEF EndSession
    <2>2. Len(audit') = Len(audit) + 1 BY <2>1, AppendShape DEF OpenTrail
    <2>3. Len(audit') = local'.taken + 2 BY <1>1, <2>1, <2>2, SMTT(40) DEF FtpCounts, FtpLocal
    <2> QED BY <2>1, <2>3 DEF FtpCounts, CwdOK
  <1> QED
    BY <1>6, <1>7, <1>8, <1>9, <1>10, <1>11, <1>12, <1>13, <1>14, <1>15 DEF FtpNext

(* Of the trail a up to its i-th event: where the user names and the       *)
(* logins are, the last of them, the name given last, and what              *)
(* TrailTellsLogin says of the event.                                       *)
IsUser(e) == e[1] = "COMMAND" /\ e[2] = "USER"
IsLogin(e) == e[1] = "AUTH_SUCCESS"
UsersTo(a, i) == {j \in 1 .. i : IsUser(a[j])}
LoginsTo(a, i) == {j \in 1 .. i : IsLogin(a[j])}
LastOf(I) == IF I # {} THEN Max(I) ELSE 0
LoggedIn(a, i) == LastOf(LoginsTo(a, i)) > LastOf(UsersTo(a, i))
NameAt(a, i) == IF LastOf(UsersTo(a, i)) = 0 THEN NoName ELSE a[LastOf(UsersTo(a, i))][3]
Told(a, i) ==
  /\ a[i][1] \in {"FILE_ACCESS", "FILE_MODIFY"} => LoggedIn(a, i)
  /\ a[i][1] \in {"AUTH_SUCCESS", "AUTH_FAILURE"} => a[i][2] = NameAt(a, i)
TrailTells(a, user, auth) ==
  /\ user = NameAt(a, Len(a))
  /\ auth <=> LoggedIn(a, Len(a))
  /\ \A i \in 1 .. Len(a) : Told(a, i)

(* The latest place of a kind, or 0. *)
LEMMA LastOfNat ==
  ASSUME NEW n \in Nat, NEW I, I \subseteq 1 .. n
  PROVE  LastOf(I) \in 0 .. n
  <1>1. CASE I = {} BY <1>1 DEF LastOf
  <1>2. CASE I # {}
    <2>1. Max(I) \in I BY <1>2, MaxUpTo
    <2>2. Max(I) \in 1 .. n BY <2>1
    <2> QED BY <1>2, <2>2 DEF LastOf
  <1> QED BY <1>1, <1>2

(* The last place of a set that n + 1 joins, or does not. *)
LEMMA LastOfNext ==
  ASSUME NEW n \in Nat, NEW I, I \subseteq 1 .. n
  PROVE  LastOf(I \cup {n + 1}) = n + 1
  <1> DEFINE J == I \cup {n + 1}
  <1>1. J \subseteq 1 .. n + 1 /\ J # {} OBVIOUS
  <1>2. n + 1 \in Nat /\ n + 1 \in J OBVIOUS
  <1> HIDE DEF J
  <1>3. Max(J) \in J /\ \A y \in J : y <= Max(J) BY <1>1, <1>2, MaxUpTo
  <1>4. n + 1 <= Max(J) /\ Max(J) \in 1 .. n + 1 BY <1>1, <1>2, <1>3
  <1>5. Max(J) = n + 1 BY <1>4
  <1>6. LastOf(J) = n + 1 BY <1>1, <1>5 DEF LastOf
  <1> QED BY <1>6 DEF J

(* Earlier events are told of as before. *)
LEMMA EarlierTold ==
  ASSUME NEW a, IsSeq(a), NEW e, NEW i \in 0 .. Len(a)
  PROVE  /\ UsersTo(Append(a, e), i) = UsersTo(a, i)
         /\ LoginsTo(Append(a, e), i) = LoginsTo(a, i)
         /\ LoggedIn(Append(a, e), i) = LoggedIn(a, i)
         /\ NameAt(Append(a, e), i) = NameAt(a, i)
  <1> DEFINE b == Append(a, e)
  <1>1. Len(a) \in Nat BY SeqShape
  <1>2. \A j \in 1 .. Len(a) : b[j] = a[j] BY AppendShape
  <1> HIDE DEF b
  <1>3. \A j \in 1 .. i : j \in 1 .. Len(a) BY <1>1
  <1>4. \A j \in 1 .. i : b[j] = a[j] BY <1>2, <1>3
  <1>5. UsersTo(b, i) = UsersTo(a, i) BY <1>4 DEF UsersTo
  <1>6. LoginsTo(b, i) = LoginsTo(a, i) BY <1>4 DEF LoginsTo
  <1>7. LoggedIn(b, i) = LoggedIn(a, i) BY <1>5, <1>6 DEF LoggedIn
  <1> DEFINE u == LastOf(UsersTo(a, i))
  <1>8. u \in 0 .. i
    <2>1. UsersTo(a, i) \subseteq 1 .. i BY DEF UsersTo
    <2>2. i \in Nat BY <1>1
    <2> QED BY <2>1, <2>2, LastOfNat
  <1>9. u # 0 => b[u] = a[u]
    <2> HIDE DEF u
    <2>1. u # 0 => u \in 1 .. i BY <1>1, <1>8
    <2> QED BY <1>4, <2>1
  <1>10. NameAt(b, i) = NameAt(a, i) BY <1>5, <1>9 DEF NameAt
  <1> QED BY <1>5, <1>6, <1>7, <1>10 DEF b

(* The latest USER and login after one more event. *)
LEMMA LatestTold ==
  ASSUME NEW a, IsSeq(a), NEW e
  PROVE  /\ LastOf(UsersTo(Append(a, e), Len(a) + 1)) =
              IF IsUser(e) THEN Len(a) + 1 ELSE LastOf(UsersTo(a, Len(a)))
         /\ LastOf(LoginsTo(Append(a, e), Len(a) + 1)) =
              IF IsLogin(e) THEN Len(a) + 1 ELSE LastOf(LoginsTo(a, Len(a)))
  <1> DEFINE b == Append(a, e)
  <1> DEFINE n == Len(a)
  <1>1. n \in Nat BY SeqShape
  <1>2. (\A j \in 1 .. n : b[j] = a[j]) /\ b[n + 1] = e BY AppendShape
  <1> HIDE DEF b, n
  <1>3. \A j : j \in 1 .. n + 1 <=> j \in 1 .. n \/ j = n + 1 BY <1>1
  <1>4. UsersTo(b, n + 1) = IF IsUser(e) THEN UsersTo(a, n) \cup {n + 1} ELSE UsersTo(a, n)
    BY <1>2, <1>3 DEF UsersTo
  <1>5. LoginsTo(b, n + 1) = IF IsLogin(e) THEN LoginsTo(a, n) \cup {n + 1} ELSE LoginsTo(a, n)
    BY <1>2, <1>3 DEF LoginsTo
  <1>6. UsersTo(a, n) \subseteq 1 .. n /\ LoginsTo(a, n) \subseteq 1 .. n BY DEF UsersTo, LoginsTo
  <1>7. /\ LastOf(UsersTo(a, n) \cup {n + 1}) = n + 1
        /\ LastOf(LoginsTo(a, n) \cup {n + 1}) = n + 1
    BY <1>1, <1>6, LastOfNext
  <1> QED BY <1>4, <1>5, <1>7 DEF b, n

(* A trail that tells who is logged in goes on telling it after an event   *)
(* that agrees with the session's variables.                               *)
LEMMA TrailTellsNext ==
  ASSUME NEW a, IsSeq(a), NEW user, NEW auth \in BOOLEAN, TrailTells(a, user, auth),
         NEW e, NEW user2, NEW auth2 \in BOOLEAN,
         user2 = IF IsUser(e) THEN e[3] ELSE user,
         auth2 = IF IsUser(e) THEN FALSE ELSE IF IsLogin(e) THEN TRUE ELSE auth,
         e[1] \in {"AUTH_SUCCESS", "AUTH_FAILURE"} => e[2] = user,
         e[1] \in {"FILE_ACCESS", "FILE_MODIFY"} => auth
  PROVE  TrailTells(Append(a, e), user2, auth2)
  <1> DEFINE b == Append(a, e)
  <1> DEFINE n == Len(a)
  <1> DEFINE u == LastOf(UsersTo(a, n))
  <1> DEFINE l == LastOf(LoginsTo(a, n))
  <1>1. n \in Nat BY SeqShape
  <1>2. Len(b) = n + 1 /\ (\A i \in 1 .. n : b[i] = a[i]) /\ b[n + 1] = e BY AppendShape
  <1>3. /\ LastOf(UsersTo(b, n + 1)) = IF IsUser(e) THEN n + 1 ELSE u
        /\ LastOf(LoginsTo(b, n + 1)) = IF IsLogin(e) THEN n + 1 ELSE l
    BY LatestTold
  <1>4. u \in 0 .. n /\ l \in 0 .. n
    <2>1. UsersTo(a, n) \subseteq 1 .. n /\ LoginsTo(a, n) \subseteq 1 .. n BY DEF UsersTo, LoginsTo
    <2> QED BY <1>1, <2>1, LastOfNat
  <1>5. \A i \in 1 .. n : Told(b, i)
    <2> SUFFICES ASSUME NEW i \in 1 .. n PROVE Told(b, i)
      OBVIOUS
    <2>1. i \in 0 .. Len(a) BY <1>1
    <2>2. LoggedIn(b, i) = LoggedIn(a, i) /\ NameAt(b, i) = NameAt(a, i) BY <2>1, EarlierTold
    <2>3. b[i] = a[i] BY <1>2
    <2>4. Told(a, i) BY DEF TrailTells
    <2> HIDE DEF b
    <2> QED BY <2>2, <2>3, <2>4 DEF Told
  <1>6. ~(IsUser(e) /\ IsLogin(e)) BY DEF IsUser, IsLogin
  <1>7. user = NameAt(a, n) /\ (auth <=> l > u) BY DEF TrailTells, LoggedIn
  <1> HIDE DEF b
  <1>8. user2 = NameAt(b, n + 1)
    <2>1. CASE IsUser(e)
      <3>1. LastOf(UsersTo(b, n + 1)) = n + 1 /\ n + 1 # 0 BY <1>1, <1>3, <2>1
      <3>2. NameAt(b, n + 1) = b[n + 1][3] BY <3>1 DEF NameAt
      <3> QED BY <1>2, <2>1, <3>2
    <2>2. CASE ~IsUser(e)
      <3>1. LastOf(UsersTo(b, n + 1)) = u BY <1>3, <2>2
      <3>2. u # 0 => b[u] = a[u]
        <4> HIDE DEF u, n
        <4>1. u # 0 => u \in 1 .. n BY <1>1, <1>4
        <4> QED BY <1>2, <4>1
      <3>3. NameAt(b, n + 1) = NameAt(a, n) BY <3>1, <3>2 DEF NameAt
      <3> QED BY <1>7, <2>2, <3>3
    <2> QED BY <2>1, <2>2
  <1>9. auth2 <=> LoggedIn(b, n + 1)
    <2> HIDE DEF u, l, n
    <2>1. CASE IsUser(e) /\ ~IsLogin(e)
      <3>1. LastOf(UsersTo(b, n + 1)) = n + 1 /\ LastOf(LoginsTo(b, n + 1)) = l BY <1>3, <2>1
      <3>2. ~(l > n + 1) BY <1>1, <1>4
      <3>3. auth2 = FALSE BY <2>1
      <3> QED BY <3>1, <3>2, <3>3 DEF LoggedIn
    <2>2. CASE ~IsUser(e) /\ IsLogin(e)
      <3>1. LastOf(UsersTo(b, n + 1)) = u /\ LastOf(LoginsTo(b, n + 1)) = n + 1 BY <1>3, <2>2
      <3>2. n + 1 > u BY <1>1, <1>4
      <3>3. auth2 = TRUE BY <2>2
      <3> QED BY <3>1, <3>2, <3>3 DEF LoggedIn
    <2>3. CASE ~IsUser(e) /\ ~IsLogin(e)
      <3>1. LastOf(UsersTo(b, n + 1)) = u /\ LastOf(LoginsTo(b, n + 1)) = l BY <1>3, <2>3
      <3>2. LoggedIn(b, n + 1) <=> l > u BY <3>1 DEF LoggedIn
      <3>3. auth2 <=> auth BY <2>3
      <3>4. auth <=> l > u BY <1>7
      <3> QED BY <3>2, <3>3, <3>4
    <2>4. (IsUser(e) /\ ~IsLogin(e)) \/ (~IsUser(e) /\ IsLogin(e)) \/ (~IsUser(e) /\ ~IsLogin(e)) BY <1>6
    <2> QED BY <2>1, <2>2, <2>3, <2>4
  <1>10. Told(b, n + 1)
    <2>1. ASSUME e[1] \in {"FILE_ACCESS", "FILE_MODIFY"} PROVE LoggedIn(b, n + 1)
      <3>1. ~IsUser(e) /\ ~IsLogin(e) /\ auth BY <2>1 DEF IsUser, IsLogin
      <3>2. auth2 BY <3>1
      <3> QED BY <3>2, <1>9
    <2>2. ASSUME e[1] \in {"AUTH_SUCCESS", "AUTH_FAILURE"} PROVE e[2] = NameAt(b, n + 1)
      <3>1. ~IsUser(e) /\ e[2] = user BY <2>2 DEF IsUser
      <3> QED BY <3>1, <1>8
    <2> QED BY <1>2, <2>1, <2>2 DEF Told
  <1>11. \A i \in 1 .. Len(b) : Told(b, i)
    <2>1. \A i \in 1 .. Len(b) : i \in 1 .. n \/ i = n + 1 BY <1>1, <1>2
    <2> QED BY <1>5, <1>10, <2>1
  <1>12. TrailTells(b, user2, auth2) BY <1>2, <1>8, <1>9, <1>11 DEF TrailTells
  <1> QED BY <1>12 DEF b

(* What Recorded is, by the verb of the line. *)
LEMMA RecordedAs ==
  ASSUME NEW h \in FtpLines, NEW e, e = Recorded(h)
  PROVE  /\ h.verb = "USER" =>
              IsUser(e) /\ e[3] = h.name /\ e[1] = "COMMAND"
         /\ h.verb = "PASS" =>
              /\ e[2] = local.username
              /\ e[1] = IF Granted(NextAttempt) THEN "AUTH_SUCCESS" ELSE "AUTH_FAILURE"
         /\ h.verb \notin {"USER", "PASS"} =>
              /\ ~IsUser(e) /\ e[1] \in {"COMMAND", "FILE_ACCESS", "FILE_MODIFY"}
              /\ e[1] \in {"FILE_ACCESS", "FILE_MODIFY"} => local.authenticated
  <1>1. CASE h.verb = "PASS"
    <2>1. e = <<IF Granted(NextAttempt) THEN "AUTH_SUCCESS" ELSE "AUTH_FAILURE", local.username>>
      BY <1>1 DEF Recorded
    <2> QED BY <1>1, <2>1
  <1>2. CASE h.verb = "USER"
    <2>1. e = <<"COMMAND", "USER", h.name>> BY <1>2 DEF Recorded
    <2> QED BY <1>2, <2>1 DEF IsUser
  <1>3. CASE h.verb \notin {"USER", "PASS"}
    <2>1. \/ e = <<"FILE_MODIFY">> /\ local.authenticated
          \/ e = <<"FILE_ACCESS">> /\ local.authenticated
          \/ e = <<"COMMAND", h.verb>>
      BY <1>3 DEF Recorded
    <2>2. CASE e = <<"FILE_MODIFY">> /\ local.authenticated BY <1>3, <2>2 DEF IsUser
    <2>3. CASE e = <<"FILE_ACCESS">> /\ local.authenticated BY <1>3, <2>3 DEF IsUser
    <2>4. CASE e = <<"COMMAND", h.verb>> BY <1>3, <2>4 DEF IsUser
    <2> QED BY <2>1, <2>2, <2>3, <2>4
  <1> QED BY <1>1, <1>2, <1>3

FtpTells == TrailTells(audit, local.username, local.authenticated)

(* A line handled as its event says keeps FtpTells. *)
LEMMA HandleTells ==
  ASSUME FtpCounts, FtpTells, OpenTrail(audit), NEW verbs, NEW codes, NEW sess \in FtpLocal,
         Handle(verbs, codes, sess),
         sess.username = IF IsUser(Recorded(Head(local.batch))) THEN Recorded(Head(local.batch))[3]
                         ELSE local.username,
         sess.authenticated = IF IsUser(Recorded(Head(local.batch))) THEN FALSE
                              ELSE IF IsLogin(Recorded(Head(local.batch))) THEN TRUE
                              ELSE local.authenticated
  PROVE  FtpTells'
  <1> DEFINE h == Head(local.batch)
  <1> DEFINE e == Recorded(h)
  <1>1. local.batch \in Seq(FtpLines) /\ local.batch # <<>> BY DEF FtpCounts, FtpLocal, Handle
  <1>2. h \in FtpLines BY <1>1
  <1>3. /\ e[1] \in {"AUTH_SUCCESS", "AUTH_FAILURE"} => e[2] = local.username
        /\ e[1] \in {"FILE_ACCESS", "FILE_MODIFY"} => local.authenticated
    <2> HIDE DEF h
    <2>1. CASE h.verb = "PASS" BY <1>2, <2>1, RecordedAs
    <2>2. CASE h.verb = "USER" BY <1>2, <2>2, RecordedAs
    <2>3. CASE h.verb \notin {"USER", "PASS"} BY <1>2, <2>3, RecordedAs
    <2> QED BY <2>1, <2>2, <2>3
  <1>4. audit' = Append(audit, e) BY DEF Handle
  <1>5. local'.username = sess.username /\ local'.authenticated = sess.authenticated
    <2> DEFINE on == sess.running /\ GoesOn(h)
    <2>1. local' = [sess EXCEPT !.batch = Tail(@), !.taken = @ + 1, !.running = on] BY DEF Handle
    <2> HIDE DEF on
    <2> QED BY <2>1 DEF FtpLocal
  <1>6. sess.authenticated \in BOOLEAN /\ local.authenticated \in BOOLEAN BY DEF FtpLocal, FtpCounts
  <1>7. IsSeq(audit) BY DEF OpenTrail
  <1>8. TrailTells(audit, local.username, local.authenticated) BY DEF FtpTells
  <1> HIDE DEF h
  <1>9. /\ sess.username = IF IsUser(e) THEN e[3] ELSE local.username
        /\ sess.authenticated = IF IsUser(e) THEN FALSE
                                ELSE IF IsLogin(e) THEN TRUE ELSE local.authenticated
    BY DEF h
  <1> HIDE DEF e
  <1>10. TrailTells(Append(audit, e), sess.username, sess.authenticated)
    BY <1>3, <1>6, <1>7, <1>8, <1>9, TrailTellsNext
  <1>11. TrailTells(audit', local'.username, local'.authenticated) BY <1>4, <1>5, <1>10
  <1> QED BY <1>11 DEF FtpTells, TrailTells, Told, LoggedIn, NameAt, LastOf, UsersTo, LoginsTo

(* FtpTells holds at the start. *)
LEMMA FtpTellsInit == FtpAssumption /\ FtpInit => FtpTells
  <1> SUFFICES ASSUME FtpInit PROVE FtpTells
    OBVIOUS
  <1>1. audit = <<<<"CONNECT">>>> /\ local.username = NoName /\ local.authenticated = FALSE
    BY DEF FtpInit, Begins
  <1>2. Len(audit) = 1 /\ audit[1] = <<"CONNECT">> BY <1>1, OneSeq
  <1>3. audit[1][1] = "CONNECT" BY <1>2
  <1>4. \A i \in 1 .. 1 : i = 1 OBVIOUS
  <1>5. UsersTo(audit, 1) = {} /\ LoginsTo(audit, 1) = {}
    BY <1>3, <1>4 DEF UsersTo, LoginsTo, IsUser, IsLogin
  <1>6. LastOf(UsersTo(audit, 1)) = 0 /\ LastOf(LoginsTo(audit, 1)) = 0 BY <1>5 DEF LastOf
  <1>7. ~LoggedIn(audit, 1) /\ NameAt(audit, 1) = NoName BY <1>6 DEF LoggedIn, NameAt
  <1>8. Told(audit, 1) BY <1>3 DEF Told
  <1>9. \A i \in 1 .. Len(audit) : Told(audit, i) BY <1>2, <1>4, <1>8
  <1> QED BY <1>1, <1>2, <1>7, <1>9 DEF FtpTells, TrailTells

(* Each step of FTP keeps FtpTells. *)
LEMMA FtpTellsStep ==
  ASSUME FtpAssumption, FtpCounts, FtpTells, pc # "ended" => OpenTrail(audit), FtpNext
  PROVE  FtpTells'
  <1> DEFINE h == Head(local.batch)
  <1>1. local \in FtpLocal /\ local.attempts \in Nat /\ NextAttempt \in Nat
        /\ local.authenticated \in BOOLEAN
    BY DEF FtpCounts, FtpLocal, NextAttempt
  <1>2. ASSUME local.batch # <<>> PROVE h \in FtpLines
    BY <1>1, <1>2 DEF FtpLocal
  <1> HIDE DEF h
  <1>4. ASSUME UNCHANGED <<local, audit>> PROVE FtpTells'
    BY <1>4 DEF FtpTells, TrailTells, Told, LoggedIn, NameAt, LastOf, UsersTo, LoginsTo
  <1>5. ASSUME NEW lines, FtpRecv(lines) PROVE FtpTells'
    <2>1. local'.username = local.username /\ local'.authenticated = local.authenticated
          /\ audit' = audit
      BY <1>1, <1>5 DEF FtpRecv, FtpLocal
    <2> QED BY <2>1 DEF FtpTells, TrailTells, Told, LoggedIn, NameAt, LastOf, UsersTo, LoginsTo
  <1>6. CASE FtpBatchDone \/ PeerGone({"recv"})
    BY <1>4, <1>6 DEF FtpBatchDone, PeerGone
  <1>7. CASE FtpSkipEmpty
    <2>1. local'.username = local.username /\ local'.authenticated = local.authenticated
          /\ audit' = audit
      BY <1>1, <1>7 DEF FtpSkipEmpty, FtpLocal
    <2> QED BY <2>1 DEF FtpTells, TrailTells, Told, LoggedIn, NameAt, LastOf, UsersTo, LoginsTo
  <1>8. CASE FtpUser
    <2> DEFINE sess == [local EXCEPT !.username = h.name, !.authenticated = AfterUser(@)]
    <2>1. Handle({"USER"}, <<331>>, sess) BY <1>8 DEF FtpUser, h
    <2>2. h \in FtpLines /\ h.verb = "USER" /\ pc = "line" BY <1>2, <2>1 DEF Handle, h
    <2>3. sess \in FtpLocal /\ sess.username = h.name /\ sess.authenticated = FALSE
      BY <1>1, <2>2, FtpLineFields DEF FtpLocal, AfterUser
    <2>4. IsUser(Recorded(h)) /\ Recorded(h)[3] = h.name BY <2>2, RecordedAs
    <2>5. OpenTrail(audit) BY <2>2
    <2> HIDE DEF sess
    <2> QED BY <2>1, <2>3, <2>4, <2>5, HandleTells DEF h
  <1>9. CASE FtpPass
    <2>1. ASSUME NEW codes, NEW sess \in FtpLocal, Handle({"PASS"}, codes, sess),
                 sess.username = local.username,
                 sess.authenticated = IF Granted(NextAttempt) THEN TRUE ELSE local.authenticated
          PROVE  FtpTells'
      <3>1. h \in FtpLines /\ h.verb = "PASS" /\ pc = "line" BY <1>2, <2>1 DEF Handle, h
      <3>2. OpenTrail(audit) BY <3>1
      <3> DEFINE e == Recorded(h)
      <3>3. e[1] = IF Granted(NextAttempt) THEN "AUTH_SUCCESS" ELSE "AUTH_FAILURE"
        BY <3>1, RecordedAs
      <3>4. ~IsUser(e) /\ (IsLogin(e) <=> Granted(NextAttempt)) BY <3>3 DEF IsUser, IsLogin
      <3>5. sess.authenticated = IF IsLogin(e) THEN TRUE ELSE local.authenticated BY <2>1, <3>4
      <3> QED BY <2>1, <3>2, <3>4, <3>5, HandleTells DEF h
    <2>2. CASE /\ Granted(NextAttempt)
               /\ Handle({"PASS"}, <<230>>, [local EXCEPT !.attempts = NextAttempt,
                                                          !.authenticated = TRUE, !.cwd = Home])
      <3> DEFINE sess == [local EXCEPT !.attempts = NextAttempt, !.authenticated = TRUE, !.cwd = Home]
      <3>1. Home \in Seq(PathBytes) BY FtpPathsTyped
      <3>2. sess \in FtpLocal /\ sess.username = local.username /\ sess.authenticated = TRUE
        BY <1>1, <3>1 DEF FtpLocal
      <3>3. Handle({"PASS"}, <<230>>, sess) BY <2>2
      <3> HIDE DEF sess
      <3> QED BY <2>1, <2>2, <3>2, <3>3
    <2>3. ASSUME ~Granted(NextAttempt), NEW codes,
                 Handle({"PASS"}, codes, [local EXCEPT !.attempts = NextAttempt])
          PROVE  FtpTells'
      <3> DEFINE sess == [local EXCEPT !.attempts = NextAttempt]
      <3>2. sess \in FtpLocal /\ sess.username = local.username
            /\ sess.authenticated = local.authenticated
        BY <1>1 DEF FtpLocal
      <3>3. Handle({"PASS"}, codes, sess) BY <2>3
      <3> HIDE DEF sess
      <3> QED BY <2>1, <2>3, <3>2, <3>3
    <2> QED BY <1>9, <2>2, <2>3 DEF FtpPass
  <1>10. CASE FtpQuit \/ FtpRefused \/ FtpOther
    <2>1. ASSUME NEW verbs, NEW codes, Handle(verbs, codes, local), verbs \cap {"USER", "PASS"} = {}
          PROVE  FtpTells'
      <3>2. local.batch # <<>> /\ h.verb \in verbs /\ pc = "line" BY <2>1 DEF Handle, h
      <3>3. h \in FtpLines BY <1>2, <3>2
      <3>4. h.verb \notin {"USER", "PASS"} BY <2>1, <3>2
      <3>5. ~IsUser(Recorded(h)) /\ ~IsLogin(Recorded(h)) BY <3>3, <3>4, RecordedAs DEF IsLogin
      <3>6. OpenTrail(audit) BY <3>2
      <3> QED BY <1>1, <2>1, <3>5, <3>6, HandleTells DEF h
    <2>2. CASE FtpQuit BY <2>1, <2>2 DEF FtpQuit
    <2>3. CASE FtpRefused BY <2>1, <2>3 DEF FtpRefused
    <2>4. CASE FtpOther BY <2>1, <2>4 DEF FtpOther
    <2> QED BY <1>10, <2>2, <2>3, <2>4
  <1>11. CASE FtpCwd
    <2>1. ASSUME NEW verbs, NEW codes, NEW c \in Seq(PathBytes), verbs \cap {"USER", "PASS"} = {},
                 Handle(verbs, codes, [local EXCEPT !.cwd = c])
          PROVE  FtpTells'
      <3> DEFINE sess == [local EXCEPT !.cwd = c]
      <3>1. sess \in FtpLocal /\ sess.username = local.username /\ sess.authenticated = local.authenticated
        BY <1>1, <2>1 DEF FtpLocal
      <3>2. Handle(verbs, codes, sess) BY <2>1
      <3> HIDE DEF sess
      <3>3. local.batch # <<>> /\ h.verb \in verbs /\ pc = "line" BY <3>2 DEF Handle, h
      <3>4. h \in FtpLines BY <1>2, <3>3
      <3>5. h.verb \notin {"USER", "PASS"} BY <2>1, <3>3
      <3>6. ~IsUser(Recorded(h)) /\ ~IsLogin(Recorded(h)) BY <3>4, <3>5, RecordedAs DEF IsLogin
      <3>7. OpenTrail(audit) BY <3>3
      <3> QED BY <3>1, <3>2, <3>6, <3>7, HandleTells DEF h
    <2>2. CASE Handle({"CDUP"}, <<250>>, [local EXCEPT !.cwd = Parent])
      <3>1. Parent \in Seq(PathBytes) BY FtpPathsTyped
      <3> QED BY <2>1, <2>2, <3>1
    <2>3. CASE Handle({"CWD", "XCWD"}, <<250>>, [local EXCEPT !.cwd = NewCwd(@, CwdArgument(h))])
      <3> DEFINE c == NewCwd(local.cwd, CwdArgument(h))
      <3>1. Handle({"CWD", "XCWD"}, <<250>>, [local EXCEPT !.cwd = c]) BY <2>3
      <3> HIDE DEF c
      <3>2. local'.cwd = c BY <1>1, <3>1 DEF Handle, FtpLocal
      <3>3. FtpCounts' BY FtpCountsStep
      <3>4. c \in Seq(PathBytes) BY <3>2, <3>3 DEF FtpCounts, FtpLocal
      <3> QED BY <2>1, <3>1, <3>4
    <2> QED BY <1>11, <2>2, <2>3 DEF FtpCwd, h
  <1>12. CASE EndSession
    <2> DEFINE e == <<"DISCONNECT">>
    <2>1. audit' = Append(audit, e) /\ local' = local /\ pc = "end" BY <1>12 DEF EndSession
    <2>2. e[1] = "DISCONNECT" OBVIOUS
    <2>3. ~IsUser(e) /\ ~IsLogin(e) BY <2>2 DEF IsUser, IsLogin
    <2> HIDE DEF e
    <2>4. IsSeq(audit) BY <2>1 DEF OpenTrail
    <2>5. TrailTells(audit, local.username, local.authenticated) BY DEF FtpTells
    <2>6. TrailTells(Append(audit, e), local.username, local.authenticated)
      BY <1>1, <2>2, <2>3, <2>4, <2>5, TrailTellsNext
    <2>7. TrailTells(audit', local'.username, local'.authenticated) BY <2>1, <2>6
    <2> QED BY <2>7 DEF FtpTells, TrailTells, Told, LoggedIn, NameAt, LastOf, UsersTo, LoginsTo
  <1> QED
    BY <1>5, <1>6, <1>7, <1>8, <1>9, <1>10, <1>11, <1>12 DEF FtpNext

(* What the modules of the proofs say of a trail, in the words of the run. *)
LEMMA TellsLogin ==
  ASSUME IsSeq(audit), FtpTells
  PROVE  TrailTellsLogin
  <1>1. Len(audit) \in Nat /\ DOMAIN audit = 1 .. Len(audit) BY SeqShape
  <1>2. ASSUME NEW t, IsSeq(t)
        PROVE  /\ SelectLastInSeq(t, LAMBDA e : e[1] = "COMMAND" /\ e[2] = "USER") = LastOf(UsersTo(t, Len(t)))
               /\ SelectLastInSeq(t, LAMBDA e : e[1] = "AUTH_SUCCESS") = LastOf(LoginsTo(t, Len(t)))
    BY DEF SelectLastInSeq, LastOf, UsersTo, LoginsTo, IsUser, IsLogin
  <1>3. ASSUME NEW i \in DOMAIN audit
        PROVE  /\ IsSeq(SubSeq(audit, 1, i)) /\ Len(SubSeq(audit, 1, i)) = i
               /\ UsersTo(SubSeq(audit, 1, i), i) = UsersTo(audit, i)
               /\ LoginsTo(SubSeq(audit, 1, i), i) = LoginsTo(audit, i)
    <2> DEFINE t == SubSeq(audit, 1, i)
    <2>1. PICK S : audit \in Seq(S) BY DEF IsSeq
    <2>2. i \in Nat /\ 1 <= i /\ i <= Len(audit) BY <1>1
    <2>3. t \in Seq(S) /\ Len(t) = i /\ \A j \in 1 .. i : t[j] = audit[j]
      BY <2>1, <2>2, SubSeqProperties
    <2> HIDE DEF t
    <2>4. UsersTo(t, i) = UsersTo(audit, i) BY <2>3 DEF UsersTo
    <2>5. LoginsTo(t, i) = LoginsTo(audit, i) BY <2>3 DEF LoginsTo
    <2>6. IsSeq(t) BY <2>3 DEF IsSeq
    <2> QED BY <2>3, <2>4, <2>5, <2>6 DEF t
  <1>4. local.authenticated <=>
          SelectLastInSeq(audit, LAMBDA e : e[1] = "AUTH_SUCCESS") >
          SelectLastInSeq(audit, LAMBDA e : e[1] = "COMMAND" /\ e[2] = "USER")
    BY <1>2 DEF FtpTells, TrailTells, LoggedIn
  <1>5. ASSUME NEW i \in DOMAIN audit
        PROVE  /\ audit[i][1] \in {"FILE_ACCESS", "FILE_MODIFY"} =>
                    SelectLastInSeq(SubSeq(audit, 1, i), LAMBDA e : e[1] = "AUTH_SUCCESS") >
                    SelectLastInSeq(SubSeq(audit, 1, i), LAMBDA e : e[1] = "COMMAND" /\ e[2] = "USER")
               /\ audit[i][1] \in {"AUTH_SUCCESS", "AUTH_FAILURE"} =>
                    audit[i][2] =
                      IF SelectLastInSeq(SubSeq(audit, 1, i), LAMBDA e : e[1] = "COMMAND" /\ e[2] = "USER") = 0
                      THEN NoName
                      ELSE audit[SelectLastInSeq(SubSeq(audit, 1, i),
                                                 LAMBDA e : e[1] = "COMMAND" /\ e[2] = "USER")][3]
    <2>1. Told(audit, i) BY <1>1 DEF FtpTells, TrailTells
    <2>2. /\ SelectLastInSeq(SubSeq(audit, 1, i), LAMBDA e : e[1] = "COMMAND" /\ e[2] = "USER") = LastOf(UsersTo(audit, i))
          /\ SelectLastInSeq(SubSeq(audit, 1, i), LAMBDA e : e[1] = "AUTH_SUCCESS") = LastOf(LoginsTo(audit, i))
      BY <1>2, <1>3
    <2> QED BY <2>1, <2>2 DEF Told, LoggedIn, NameAt
  <1> QED BY <1>4, <1>5 DEF TrailTellsLogin

FtpIInv == Account /\ (service = "ftp" => FtpCounts /\ FtpTells)

(* Of every FTP session: its counts agree and its trail tells who is       *)
(* logged in, whatever commands come in whatever order and segments.       *)
LEMMA FtpInvariance == Spec => []FtpIInv
  <1> USE FtpAssumption
  <1>1. Init => FtpIInv
    <2> SUFFICES ASSUME Init PROVE FtpIInv
      OBVIOUS
    <2>1. Account BY AccountInit
    <2>2. service = "ftp" => FtpInit BY DEF Init
    <2> QED BY <2>1, <2>2, FtpCountsInit, FtpTellsInit DEF FtpIInv
  <1>2. FtpIInv /\ [Next]_session => FtpIInv'
    <2> SUFFICES ASSUME FtpIInv, [Next]_session PROVE FtpIInv'
      OBVIOUS
    <2>1. Account' BY AccountStep DEF FtpIInv
    <2>2. CASE UNCHANGED session
      <3>1. service' = service /\ local' = local /\ audit' = audit /\ replies' = replies /\ pc' = pc
        BY <2>2 DEF session
      <3>2. FtpCounts => FtpCounts' BY <3>1 DEF FtpCounts, CwdOK
      <3>3. FtpTells => FtpTells'
        BY <3>1 DEF FtpTells, TrailTells, Told, LoggedIn, NameAt, LastOf, UsersTo, LoginsTo
      <3> QED BY <2>1, <3>1, <3>2, <3>3 DEF FtpIInv
    <2>3. CASE ServiceStep /\ UNCHANGED service
      <3> SUFFICES ASSUME service = "ftp" PROVE FtpCounts' /\ FtpTells'
        BY <2>1, <2>3 DEF FtpIInv
      <3>1. FtpNext BY <2>3 DEF ServiceStep
      <3>2. FtpCounts /\ FtpTells BY DEF FtpIInv
      <3>3. pc # "ended" => OpenTrail(audit) BY DEF FtpIInv, Account
      <3> QED BY <3>1, <3>2, <3>3, FtpCountsStep, FtpTellsStep
    <2> QED BY <2>2, <2>3 DEF Next, Ended
  <1> QED BY <1>1, <1>2, PTL DEF Spec

(* OneEventOneReply: each line of an FTP session that is not empty is      *)
(* recorded once and answered once, so the limit on attempts of            *)
(* ftp_handle_pass never ends a session.                                   *)
THEOREM FtpAnswersOnce == Spec => []OneEventOneReply
  <1>1. FtpIInv => OneEventOneReply
    <2> SUFFICES ASSUME FtpIInv, service = "ftp" PROVE OneEventOneReply
      BY DEF OneEventOneReply
    <2>1. FtpCounts BY DEF FtpIInv
    <2>2. DOMAIN replies = 1 .. Len(replies) BY <2>1, SeqShape DEF FtpCounts
    <2> QED BY <2>1, <2>2 DEF FtpCounts, OneEventOneReply
  <1> QED BY <1>1, FtpInvariance, PTL

(* TrailTellsLogin: the trail of an FTP session tells who is logged in,    *)
(* files are touched only by a peer that is, and each attempt is recorded  *)
(* with the name given last.                                               *)
THEOREM FtpTrailTellsLogin == Spec => []TrailTellsLogin
  <1>1. FtpIInv => TrailTellsLogin
    <2> SUFFICES ASSUME FtpIInv, service = "ftp" PROVE TrailTellsLogin
      BY DEF TrailTellsLogin
    <2>1. FtpTells BY DEF FtpIInv
    <2>2. IsSeq(audit) BY DEF FtpIInv, Account, OpenTrail, OverTrail
    <2> QED BY <2>1, <2>2, TellsLogin
  <1> QED BY <1>1, FtpInvariance, PTL
----------------------------------------------------------------------------
(***************************************************************************)
(* Redis: the receive buffer never fills up.                               *)
(***************************************************************************)
LEMMA SubSeqShape ==
  ASSUME NEW s, NEW m \in Int, NEW n \in Int
  PROVE  /\ IsSeq(SubSeq(s, m, n)) /\ Len(SubSeq(s, m, n)) = IF m <= n THEN n - m + 1 ELSE 0
         /\ \A i \in 1 .. n - m + 1 : SubSeq(s, m, n)[i] = s[m + i - 1]
  <1> DEFINE S == {s[i] : i \in m .. n}
  <1>1. \A i \in m .. n : s[i] \in S OBVIOUS
  <1> HIDE DEF S
  <1> QED BY <1>1, SubSeqProperties DEF IsSeq

RedisFields == {"mem", "used", "todo", "recvs", "sent", "whole", "gone"}
RedisFits ==
  /\ DOMAIN local = RedisFields
  /\ IsSeq(local.mem) /\ local.used \in Nat /\ local.used < RedisSize
  /\ IsSeq(replies)
  /\ pc \in {"end", "ended"} => local.gone \/ \E i \in 1 .. Len(replies) : RedisCloses(replies[i])

(* strstr finds a place in the buffer, or none. *)
LEMMA FoundNat ==
  ASSUME NEW m, IsSeq(m), NEW i \in Nat, i >= 1
  PROVE  FindCrlf(m, i) \in Nat /\ FindLf(m, i) \in Nat
  <1>1. Len(m) \in Nat BY SeqShape
  <1>2. StrEnd(m, i) \in Int
    <2> DEFINE nuls == {j \in i .. Len(m) : m[j] = Byte(NUL)}
    <2>1. nuls \subseteq Nat BY <1>1
    <2>2. nuls # {} => Min(nuls) \in Nat BY <2>1, MinOfNat
    <2> HIDE DEF nuls
    <2>3. (IF nuls = {} THEN Len(m) ELSE Min(nuls) - 1) \in Int BY <1>1, <2>2
    <2> QED BY <2>3 DEF StrEnd, nuls
  <1>3. FindCrlf(m, i) \in Nat
    <2> DEFINE at == {j \in i .. StrEnd(m, i) - 1 : m[j] = Byte(CR) /\ m[j + 1] = Byte(LF)}
    <2>1. at \subseteq Nat BY <1>2
    <2>2. at # {} => Min(at) \in Nat BY <2>1, MinOfNat
    <2> QED BY <2>2 DEF FindCrlf
  <1>4. FindLf(m, i) \in Nat
    <2> DEFINE at == {j \in i .. StrEnd(m, i) : m[j] = Byte(LF)}
    <2>1. at \subseteq Nat BY <1>2
    <2>2. at # {} => Min(at) \in Nat BY <2>1, MinOfNat
    <2> QED BY <2>2 DEF FindLf
  <1> QED BY <1>3, <1>4

(* What an inline command consumes. *)
LEMMA InlineNat ==
  ASSUME NEW m, IsSeq(m), NEW used \in Nat
  PROVE  Inline(m, used).consumed \in Nat
  <1> DEFINE eol == CASE FindCrlf(m, 1) # 0 -> FindCrlf(m, 1)
                      [] FindCrlf(m, 1) = 0 /\ FindLf(m, 1) # 0 -> FindLf(m, 1)
                      [] OTHER -> IF m[used] # Byte(NUL) THEN used + 1 ELSE 0
  <1>1. FindCrlf(m, 1) \in Nat /\ FindLf(m, 1) \in Nat BY FoundNat
  <1>2. eol \in Nat BY <1>1
  <1> HIDE DEF eol
  <1>3. eol # 0 => InlineConsumed(m, used, eol) \in Nat BY <1>2 DEF InlineConsumed
  <1>4. Inline(m, used) = IF eol = 0 THEN Nothing
                          ELSE Parsed(WordsOf(SubSeq(m, 1, eol - 1)), InlineConsumed(m, used, eol))
    BY DEF Inline, eol
  <1> QED BY <1>3, <1>4 DEF Nothing, Parsed

(* The loop over the arguments of an array, one turn of it. *)
NextArg(m, used, prev) ==
  LET p == prev.at
      eol == FindCrlf(m, p + 1)
      n == Number(m[p])
      text == eol + 2
      whole == /\ p # 0 /\ p <= used
               /\ Head(m[p]) = "$"
               /\ eol # 0 /\ eol <= used
               /\ n \in Nat
               /\ text + n + 2 <= used + 1
               /\ SubSeq(m, text + n, text + n + 1) = RedisEol
  IN  IF whole
      THEN [at |-> text + n + 2,
            argv |-> Append(prev.argv, ArgString(SubSeq(m, text, text + n - 1)))]
      ELSE [at |-> 0, argv |-> <<>>]
FirstArg(start) == [at |-> start, argv |-> <<>>]
IsArgs(m, used, start, n, f) ==
  f = [i \in 0 .. n |-> IF i = 0 THEN FirstArg(start) ELSE NextArg(m, used, f[i - 1])]

(* The function that the loop over the arguments of an array defines       *)
(* exists.                                                                 *)
LEMMA ArgsExist ==
  ASSUME NEW m, NEW used, NEW start, NEW n \in Nat
  PROVE  \E f : IsArgs(m, used, start, n, f)
  <1> DEFINE S == {k \in Nat : \E f : IsArgs(m, used, start, k, f)}
  <1>1. 0 \in S
    <2> DEFINE f == [i \in 0 .. 0 |-> FirstArg(start)]
    <2>1. \A i \in 0 .. 0 : i = 0 OBVIOUS
    <2>2. f = [i \in 0 .. 0 |-> IF i = 0 THEN FirstArg(start) ELSE NextArg(m, used, f[i - 1])]
      BY <2>1
    <2>3. IsArgs(m, used, start, 0, f) BY <2>2 DEF IsArgs
    <2> QED BY <2>3
  <1>2. ASSUME NEW k \in S PROVE k + 1 \in S
    <2>1. PICK f : IsArgs(m, used, start, k, f) OBVIOUS
    <2> DEFINE g == [i \in 0 .. k + 1 |-> IF i <= k THEN f[i] ELSE NextArg(m, used, f[k])]
    <2> DEFINE h == [i \in 0 .. k + 1 |-> IF i = 0 THEN FirstArg(start) ELSE NextArg(m, used, g[i - 1])]
    <2>2. k \in Nat OBVIOUS
    <2>3. \A i \in 0 .. k : f[i] = IF i = 0 THEN FirstArg(start) ELSE NextArg(m, used, f[i - 1])
      BY <2>1 DEF IsArgs
    <2>4. ASSUME NEW i \in 0 .. k + 1 PROVE g[i] = h[i]
      <3>1. CASE i = 0 BY <2>2, <2>3, <3>1
      <3>2. CASE i # 0 /\ i <= k
        <4>1. i \in 0 .. k /\ i - 1 \in 0 .. k + 1 /\ i - 1 <= k BY <2>2, <3>2
        <4>2. g[i] = f[i] /\ g[i - 1] = f[i - 1] BY <3>2, <4>1
        <4>3. h[i] = NextArg(m, used, g[i - 1]) BY <3>2
        <4> HIDE DEF g, h
        <4> QED BY <2>3, <3>2, <4>1, <4>2, <4>3
      <3>3. CASE i = k + 1
        <4>1. i # 0 /\ ~(i <= k) /\ i - 1 = k /\ k \in 0 .. k + 1 /\ k <= k BY <2>2, <3>3
        <4>2. g[i] = NextArg(m, used, f[k]) /\ g[k] = f[k] BY <4>1
        <4>3. h[i] = NextArg(m, used, g[k]) BY <4>1
        <4> HIDE DEF g, h
        <4> QED BY <4>2, <4>3
      <3>4. i = 0 \/ (i # 0 /\ i <= k) \/ i = k + 1 BY <2>2
      <3> QED BY <3>1, <3>2, <3>3, <3>4
    <2>5. g = h BY <2>4
    <2>6. IsArgs(m, used, start, k + 1, g) BY <2>5 DEF IsArgs
    <2> HIDE DEF g, h
    <2>7. k + 1 \in Nat BY <2>2
    <2> QED BY <2>6, <2>7
  <1>3. S \subseteq Nat OBVIOUS
  <1> HIDE DEF S
  <1>4. S = Nat BY <1>1, <1>2, <1>3, InductionBySet
  <1>5. n \in S BY <1>4
  <1> QED BY <1>5 DEF S

(* The parser's place stays a number after one more argument. *)
LEMMA NextArgNat ==
  ASSUME NEW m, IsSeq(m), NEW used \in Nat, NEW prev, prev.at \in Nat
  PROVE  NextArg(m, used, prev).at \in Nat
  <1> DEFINE eol == FindCrlf(m, prev.at + 1)
  <1>1. eol \in Nat BY FoundNat
  <1> DEFINE n == Number(m[prev.at])
  <1> DEFINE e == NextArg(m, used, prev)
  <1> HIDE DEF eol, n
  <1>2. (e.at = eol + 2 + n + 2 /\ n \in Nat) \/ e.at = 0 BY DEF NextArg, eol, n
  <1> QED BY <1>1, <1>2

(* And so after all of them. *)
LEMMA ArrayArgsNat ==
  ASSUME NEW m, IsSeq(m), NEW used \in Nat, NEW start \in Nat, NEW argc \in Nat
  PROVE  ArrayArgs(m, used, start, argc).at \in Nat
  <1> DEFINE f == CHOOSE g : IsArgs(m, used, start, argc, g)
  <1>1. IsArgs(m, used, start, argc, f) BY ArgsExist
  <1>2. ArrayArgs(m, used, start, argc) = f[argc]
    BY DEF ArrayArgs, IsArgs, NextArg, FirstArg
  <1> HIDE DEF f
  <1>3. \A i \in 0 .. argc : f[i] = IF i = 0 THEN FirstArg(start) ELSE NextArg(m, used, f[i - 1])
    BY <1>1 DEF IsArgs
  <1> DEFINE S == {i \in Nat : i <= argc => f[i].at \in Nat}
  <1>4. 0 \in S
    <2>1. f[0] = FirstArg(start) BY <1>3
    <2> QED BY <2>1 DEF FirstArg
  <1>5. ASSUME NEW i \in S PROVE i + 1 \in S
    <2> SUFFICES ASSUME i + 1 <= argc PROVE f[i + 1].at \in Nat
      OBVIOUS
    <2>1. i \in Nat /\ i <= argc /\ i + 1 \in 0 .. argc /\ i + 1 # 0 /\ (i + 1) - 1 = i OBVIOUS
    <2>2. f[i].at \in Nat BY <2>1
    <2>3. f[i + 1] = NextArg(m, used, f[i]) BY <1>3, <2>1
    <2> QED BY <2>2, <2>3, NextArgNat
  <1>6. S \subseteq Nat OBVIOUS
  <1> HIDE DEF S
  <1>7. argc \in S BY <1>4, <1>5, <1>6, InductionBySet
  <1>8. f[argc].at \in Nat BY <1>7 DEF S
  <1> QED BY <1>2, <1>8

(* The bytes consumed are a number, whichever parser takes the command. *)
LEMMA ParsedNat ==
  ASSUME NEW m, IsSeq(m), NEW used \in Nat, RedisAssumption
  PROVE  RedisParsed(m, used).consumed \in Nat
  <1>1. RespArray(m, used).consumed \in Nat
    <2> DEFINE eol == FindCrlf(m, 1)
    <2> DEFINE argc == Number(m[1])
    <2> DEFINE args == ArrayArgs(m, used, eol + 2, argc)
    <2>1. eol \in Nat BY FoundNat
    <2>2. argc \in 1 .. RedisMaxArgs => args.at \in Nat
      <3> HIDE DEF argc, eol
      <3>1. eol + 2 \in Nat BY <2>1
      <3>2. argc \in 1 .. RedisMaxArgs => argc \in Nat BY DEF RedisAssumption
      <3> QED BY <3>1, <3>2, ArrayArgsNat
    <2> HIDE DEF args, argc, eol
    <2>3. \/ RespArray(m, used) = Nothing
          \/ /\ RespArray(m, used) = Parsed(args.argv, args.at - 1)
             /\ argc \in 1 .. RedisMaxArgs /\ args.at # 0
      BY DEF RespArray, ArgsFit, args, argc, eol
    <2>4. Nothing.consumed = 0 BY DEF Nothing, Parsed
    <2>5. Parsed(args.argv, args.at - 1).consumed = args.at - 1 BY DEF Parsed
    <2> QED BY <2>2, <2>3, <2>4, <2>5
  <1>2. Inline(m, used).consumed \in Nat BY InlineNat
  <1> QED BY <1>1, <1>2 DEF RedisParsed

(* RedisFits holds at the start. *)
LEMMA RedisFitsInit == RedisAssumption /\ RedisInit => RedisFits
  <1> SUFFICES ASSUME RedisAssumption, RedisInit PROVE RedisFits
    OBVIOUS
  <1>1. /\ local = [mem |-> <<>>, used |-> 0, todo |-> <<>>, recvs |-> 0,
                    sent |-> <<>>, whole |-> TRUE, gone |-> FALSE]
        /\ replies = <<>> /\ pc = "recv"
    BY DEF RedisInit, Begins
  <1>2. IsSeq(local.mem) /\ IsSeq(replies) BY <1>1, EmptyIsSeq
  <1>3. local.used = 0 /\ DOMAIN local = RedisFields BY <1>1 DEF RedisFields
  <1> QED BY <1>1, <1>2, <1>3 DEF RedisFits, RedisAssumption

(* The session ends on request: so it was, and it stays so. *)
LEMMA RedisFitsStep ==
  ASSUME RedisAssumption, RedisFits, RedisNext
  PROVE  RedisFits'
  <1> DEFINE l == local
  <1>1. DOMAIN l = RedisFields /\ IsSeq(l.mem) /\ l.used \in Nat /\ l.used < RedisSize /\ IsSeq(replies)
    BY DEF RedisFits
  <1>2. RedisSize \in Nat /\ RedisSize > 2 BY DEF RedisAssumption
  <1>3. CASE RedisRecv
    <2> DEFINE used == ResetIfFull(l.used)
    <2> DEFINE room == RedisSize - 1 - used
    <2>1. used \in Nat /\ room \in Nat /\ room # 0 BY <1>1, <1>2 DEF ResetIfFull
    <2>2. PICK more \in BoundedSeq(RedisSends, RedisMaxBatch), k \in 0 .. room :
             LET bytes == l.todo \o FlattenSeq([i \in DOMAIN more |-> SendBytes(more[i])])
                 mem == SubSeq(l.mem, 1, used) \o SubSeq(bytes, 1, k)
             IN  local' = [l EXCEPT !.mem = mem,
                                    !.used = Len(mem),
                                    !.recvs = @ + 1,
                                    !.todo = SubSeq(bytes, k + 1, Len(bytes)),
                                    !.sent = @ \o more,
                                    !.whole = @ /\ k = Len(bytes)
                                              /\ \A i \in DOMAIN more : more[i].form # "nuls"]
      BY <1>3 DEF RedisRecv
    <2> DEFINE bytes == l.todo \o FlattenSeq([i \in DOMAIN more |-> SendBytes(more[i])])
    <2> DEFINE mem == SubSeq(l.mem, 1, used) \o SubSeq(bytes, 1, k)
    <2> DEFINE todo == SubSeq(bytes, k + 1, Len(bytes))
    <2> DEFINE whole == l.whole /\ k = Len(bytes) /\ \A i \in DOMAIN more : more[i].form # "nuls"
    <2>3. local' = [l EXCEPT !.mem = mem, !.used = Len(mem), !.recvs = @ + 1, !.todo = todo,
                             !.sent = @ \o more, !.whole = whole]
      BY <2>2
    <2> HIDE DEF bytes, todo, whole
    <2>4. pc' = "parse" /\ replies' = replies BY <1>3, <2>1 DEF RedisRecv
    <2> HIDE DEF used, room
    <2>5. IsSeq(mem) /\ Len(mem) = used + k
      <3>1. k \in Nat /\ used \in Int BY <2>1
      <3>2. IsSeq(SubSeq(l.mem, 1, used)) /\ Len(SubSeq(l.mem, 1, used)) = used BY <2>1, <3>1, SubSeqShape
      <3>3. IsSeq(SubSeq(bytes, 1, k)) /\ Len(SubSeq(bytes, 1, k)) = k BY <3>1, SubSeqShape
      <3> QED BY <3>2, <3>3, ConcatShape
    <2> HIDE DEF mem
    <2>6. Len(mem) \in Nat /\ Len(mem) < RedisSize BY <1>2, <2>1, <2>2, <2>5 DEF room
    <2>7. DOMAIN local' = RedisFields /\ local'.mem = mem /\ local'.used = Len(mem)
      BY <1>1, <2>3 DEF RedisFields
    <2> QED BY <1>1, <2>4, <2>5, <2>6, <2>7 DEF RedisFits
  <1>4. CASE RedisParse
    <2> DEFINE cmd == RedisParsed(l.mem, l.used)
    <2> DEFINE left == IF cmd.consumed < l.used THEN l.used - cmd.consumed ELSE 0
    <2>1. cmd.consumed \in Nat BY <1>1, ParsedNat
    <2> HIDE DEF cmd
    <2>2. left \in Nat /\ left <= l.used BY <1>1, <2>1
    <2> HIDE DEF left
    <2>3. CASE cmd.consumed = 0
      <3>1. pc' = "recv" /\ UNCHANGED <<local, replies>> BY <1>4, <2>3 DEF RedisParse, cmd
      <3> QED BY <1>1, <3>1 DEF RedisFits
    <2>4. CASE cmd.consumed # 0
      <3>1. /\ local' = [l EXCEPT !.used = left,
                                  !.mem = IF left = 0 THEN <<>> ELSE Moved(l.mem, l.used, cmd.consumed)]
            /\ pc = "parse" /\ pc' \in {"end", "recv", "parse"}
            /\ (pc' = "end" => RedisCloses(cmd.argv))
            /\ \/ cmd.argv = <<>> /\ replies' = replies
               \/ cmd.argv # <<>> /\ replies' = Append(replies, RedisReply(cmd.argv))
        BY <1>4, <2>4 DEF RedisParse, cmd, left
      <3>2. DOMAIN local' = RedisFields /\ local'.used = left
            /\ local'.mem = IF left = 0 THEN <<>> ELSE Moved(l.mem, l.used, cmd.consumed)
        BY <1>1, <3>1 DEF RedisFields
      <3>3. IsSeq(Moved(l.mem, l.used, cmd.consumed))
        <4> DEFINE mv == Moved(l.mem, l.used, cmd.consumed)
        <4>1. DOMAIN mv = 1 .. Len(l.mem) /\ Len(l.mem) \in Nat BY <1>1, SeqShape DEF Moved
        <4>2. mv = [i \in 1 .. Len(l.mem) |-> mv[i]] BY <4>1 DEF Moved
        <4> DEFINE V == {mv[i] : i \in 1 .. Len(l.mem)}
        <4> HIDE DEF mv
        <4>3. \A i \in 1 .. Len(l.mem) : mv[i] \in V OBVIOUS
        <4> HIDE DEF V
        <4>4. mv \in [1 .. Len(l.mem) -> V] BY <4>2, <4>3
        <4>5. mv \in Seq(V) BY <4>1, <4>4
        <4> QED BY <4>5 DEF IsSeq, mv
      <3>4. IsSeq(local'.mem) BY <3>2, <3>3, EmptyIsSeq
      <3>5. local'.used \in Nat /\ local'.used < RedisSize BY <1>1, <1>2, <2>2, <3>2
      <3>6. IsSeq(replies')
        <4>1. IsSeq(Append(replies, RedisReply(cmd.argv))) BY <1>1, AppendShape
        <4> QED BY <1>1, <3>1, <4>1
      <3>7. pc' = "end" => \E i \in 1 .. Len(replies') : RedisCloses(replies'[i])
        <4> SUFFICES ASSUME pc' = "end" PROVE \E i \in 1 .. Len(replies') : RedisCloses(replies'[i])
          OBVIOUS
        <4>1. RedisCloses(cmd.argv) /\ cmd.argv # <<>> BY <3>1 DEF RedisCloses
        <4>2. replies' = Append(replies, cmd.argv) BY <3>1, <4>1 DEF RedisReply
        <4> DEFINE n == Len(replies)
        <4>3. n \in Nat /\ Len(replies') = n + 1 /\ replies'[n + 1] = cmd.argv
          BY <1>1, <4>2, SeqShape, AppendShape
        <4> HIDE DEF n
        <4>4. n + 1 \in 1 .. Len(replies') BY <4>3
        <4> QED BY <4>1, <4>3, <4>4
      <3>8. pc' # "ended" BY <3>1
      <3> QED BY <3>2, <3>4, <3>5, <3>6, <3>7, <3>8 DEF RedisFits
    <2> QED BY <2>3, <2>4
  <1>5. CASE RedisPeerGone
    <2>1. local' = [local EXCEPT !.gone = TRUE] /\ replies' = replies BY <1>5 DEF RedisPeerGone
    <2>2. /\ DOMAIN local' = RedisFields /\ local'.gone = TRUE
          /\ local'.mem = l.mem /\ local'.used = l.used
      BY <1>1, <2>1 DEF RedisFields
    <2> QED BY <1>1, <2>1, <2>2 DEF RedisFits
  <1>6. CASE EndSession
    <2>1. pc = "end" /\ UNCHANGED <<local, replies>> BY <1>6 DEF EndSession
    <2> QED BY <2>1 DEF RedisFits, RedisCloses
  <1> QED BY <1>3, <1>4, <1>5, <1>6 DEF RedisNext

RedisIInv == service = "redis" => RedisFits

(* RedisIInv is an invariant. *)
LEMMA RedisInvariance == Spec => []RedisIInv
  <1> USE RedisAssumption
  <1>1. Init => RedisIInv BY RedisFitsInit DEF Init, RedisIInv
  <1>2. RedisIInv /\ [Next]_session => RedisIInv'
    <2> SUFFICES ASSUME RedisIInv, [Next]_session PROVE RedisIInv'
      OBVIOUS
    <2>1. CASE UNCHANGED session
      BY <2>1 DEF RedisIInv, session, RedisFits, RedisCloses
    <2>2. CASE ServiceStep /\ UNCHANGED service
      <3> SUFFICES ASSUME service = "redis" PROVE RedisFits'
        BY <2>2 DEF RedisIInv
      <3>1. RedisNext BY <2>2 DEF ServiceStep
      <3>2. RedisFits BY DEF RedisIInv
      <3> QED BY <3>1, <3>2, RedisFitsStep
    <2> QED BY <2>1, <2>2 DEF Next, Ended
  <1> QED BY <1>1, <1>2, PTL DEF Spec

(* RedisEndsOnRequest: whatever a peer sends, a Redis session only ends    *)
(* with QUIT, SHUTDOWN or the peer's leaving, since recv is never asked    *)
(* for no bytes.                                                           *)
THEOREM RedisServesOn == Spec => []RedisEndsOnRequest
  <1>1. RedisIInv => RedisEndsOnRequest
    <2> SUFFICES ASSUME RedisIInv, service = "redis", pc = "end"
                 PROVE  local.gone \/ \E i \in DOMAIN replies : RedisCloses(replies[i])
      BY DEF RedisEndsOnRequest
    <2>1. RedisFits BY DEF RedisIInv
    <2>2. DOMAIN replies = 1 .. Len(replies) BY <2>1, SeqShape DEF RedisFits
    <2> QED BY <2>1, <2>2 DEF RedisFits
  <1> QED BY <1>1, RedisInvariance, PTL
----------------------------------------------------------------------------
(***************************************************************************)
(* SMTP: the mail leaves room for its NUL.                                 *)
(***************************************************************************)
SmtpFields == {"rest", "mail", "user", "sent", "captured", "intact"}
SmtpRest(l) == DOMAIN l = SmtpFields /\ IsSeq(l.rest)
SmtpFits == SmtpRest(local) /\ local.mail \in Nat /\ local.mail < SmtpDataMax

(* A string as C reads it has a length. *)
LEMMA CStringSeq ==
  ASSUME NEW s, IsSeq(s)
  PROVE  IsSeq(CString(s)) /\ Len(CString(s)) \in Nat
  <1> DEFINE I == {i \in 1 .. Len(s) : s[i] = NUL}
  <1> DEFINE nul == IF I # {} THEN Min(I) ELSE 0
  <1>1. Len(s) \in Nat BY SeqShape
  <1>2. I \subseteq Nat OBVIOUS
  <1>3. nul \in Nat
    <2> HIDE DEF I
    <2>1. I # {} => Min(I) \in Nat BY <1>2, MinOfNat
    <2> QED BY <2>1
  <1>4. CString(s) = IF nul = 0 THEN s ELSE SubSeq(s, 1, nul - 1) BY DEF CString, SelectInSeq
  <1> HIDE DEF nul
  <1>5. IsSeq(SubSeq(s, 1, nul - 1)) BY <1>3, SubSeqShape
  <1>6. IsSeq(CString(s)) BY <1>4, <1>5
  <1> QED BY <1>6, SeqShape

(* What smtp_recv_line returns, of any bytes. *)
LEMMA LineReadSeq ==
  ASSUME SmtpAssumption, NEW bytes, IsSeq(bytes)
  PROVE  IsSeq(LineRead(bytes).line) /\ LineRead(bytes).read \in Nat
  <1> DEFINE ends == {i \in 2 .. Min({Len(bytes), SmtpBufSize - 1}) : bytes[i - 1] = CR /\ bytes[i] = LF}
  <1>1. SmtpBufSize \in Nat /\ SmtpBufSize > 3 BY DEF SmtpAssumption
  <1>2. Len(bytes) \in Nat /\ SmtpBufSize - 1 \in Nat BY <1>1, SeqShape
  <1>3. Min({Len(bytes), SmtpBufSize - 1}) \in Nat BY <1>2, MinOfTwo
  <1>4. ends \subseteq Nat BY <1>3
  <1> HIDE DEF ends
  <1>5. ends # {} => Min(ends) \in Nat BY <1>4, MinOfNat
  <1>6. LineRead(bytes) = IF ends # {} THEN [line |-> SubSeq(bytes, 1, Min(ends) - 2), read |-> Min(ends)]
                          ELSE [line |-> Cut(bytes, SmtpBufSize), read |-> SmtpBufSize - 1]
    BY DEF LineRead, ends
  <1>7. ASSUME ends # {} PROVE IsSeq(SubSeq(bytes, 1, Min(ends) - 2))
    <2>1. Min(ends) - 2 \in Int /\ 1 \in Int BY <1>5, <1>7
    <2> QED BY <2>1, SubSeqShape
  <1>8. IsSeq(Cut(bytes, SmtpBufSize))
    <2>1. SmtpBufSize \in Nat /\ SmtpBufSize > 0 BY <1>1
    <2> QED BY <2>1, CutFits
  <1> QED BY <1>2, <1>5, <1>6, <1>7, <1>8

(* Reading a line changes nothing of the mail. *)
LEMMA ReadsTyped ==
  ASSUME SmtpAssumption, SmtpFits, NEW r \in Reads
  PROVE  Len(r.line) \in Nat /\ SmtpRest(r.then) /\ r.then.mail = local.mail
  <1>1. ASSUME NEW bytes, IsSeq(bytes), NEW l, DOMAIN l = SmtpFields, l.mail = local.mail,
               r = [line |-> CString(LineRead(bytes).line), then |-> AfterRead(l, bytes)]
        PROVE  Len(r.line) \in Nat /\ SmtpRest(r.then) /\ r.then.mail = local.mail
    <2>1. IsSeq(LineRead(bytes).line) /\ LineRead(bytes).read \in Nat /\ Len(bytes) \in Nat
      BY <1>1, LineReadSeq, SeqShape
    <2>2. Len(CString(LineRead(bytes).line)) \in Nat BY <2>1, CStringSeq
    <2>3. IsSeq(SubSeq(bytes, LineRead(bytes).read + 1, Len(bytes))) BY <2>1, SubSeqShape
    <2>4. r.line = CString(LineRead(bytes).line) /\ r.then = AfterRead(l, bytes) BY <1>1
    <2>5. DOMAIN r.then = SmtpFields /\ r.then.mail = l.mail
          /\ r.then.rest = SubSeq(bytes, LineRead(bytes).read + 1, Len(bytes))
      BY <1>1, <2>4 DEF AfterRead, SmtpFields
    <2> QED BY <1>1, <2>2, <2>3, <2>4, <2>5 DEF SmtpRest
  <1>2. DOMAIN local = SmtpFields /\ IsSeq(local.rest) BY DEF SmtpFits, SmtpRest
  <1>3. CASE IsReadable(local.rest)
    <2>1. r = [line |-> CString(LineRead(local.rest).line), then |-> AfterRead(local, local.rest)]
      BY <1>3 DEF Reads
    <2> QED BY <1>1, <1>2, <2>1
  <1>4. CASE ~IsReadable(local.rest)
    <2> DEFINE grown(new) == local.rest \o new \o <<CR, LF>>
    <2> DEFINE with(new) == [local EXCEPT !.sent = Append(@, new),
                                          !.intact = @ /\ Len(new) + 2 <= SmtpBufSize - 1]
    <2>1. PICK new \in SmtpLines :
             r = [line |-> CString(LineRead(grown(new)).line), then |-> AfterRead(with(new), grown(new))]
      BY <1>4 DEF Reads
    <2>2. IsSeq(new) BY DEF SmtpAssumption, IsSeq
    <2>3. IsSeq(<<CR, LF>>) BY TwoSeq
    <2>4. IsSeq(local.rest \o new) BY <1>2, <2>2, ConcatShape
    <2>5. IsSeq(grown(new)) BY <2>3, <2>4, ConcatShape
    <2>6. DOMAIN with(new) = SmtpFields /\ with(new).mail = local.mail BY <1>2 DEF SmtpFields
    <2> HIDE DEF grown, with
    <2> QED BY <1>1, <2>1, <2>5, <2>6
  <1> QED BY <1>3, <1>4

(* SmtpFits holds at the start. *)
LEMMA SmtpFitsInit == SmtpAssumption /\ SmtpInit => SmtpFits
  <1> SUFFICES ASSUME SmtpAssumption, SmtpInit PROVE SmtpFits
    OBVIOUS
  <1>1. local = [rest |-> <<>>, mail |-> 0, user |-> <<>>,
                 sent |-> <<>>, captured |-> {}, intact |-> TRUE]
    BY DEF SmtpInit
  <1>2. local.rest = <<>> /\ local.mail = 0 /\ DOMAIN local = SmtpFields BY <1>1 DEF SmtpFields
  <1>3. IsSeq(<<>>) BY EmptyIsSeq
  <1>4. 0 \in Nat /\ 0 < SmtpDataMax BY DEF SmtpAssumption
  <1> QED BY <1>2, <1>3, <1>4 DEF SmtpFits, SmtpRest

(* Each step of SMTP keeps SmtpFits: a line is added only where DataRoom   *)
(* has room.                                                               *)
LEMMA SmtpFitsStep ==
  ASSUME SmtpAssumption, SmtpFits, SmtpNext
  PROVE  SmtpFits'
  <1>1. SmtpRest(local) /\ local.mail \in Nat /\ local.mail < SmtpDataMax /\ DOMAIN local = SmtpFields
    BY DEF SmtpFits, SmtpRest
  <1>2. SmtpDataMax \in Nat /\ SmtpDataMax > 2 BY DEF SmtpAssumption
  <1>3. ASSUME SmtpRest(local'), local'.mail \in Nat, local'.mail < SmtpDataMax
        PROVE  SmtpFits'
    BY <1>3 DEF SmtpFits, SmtpRest
  <1>4. ASSUME UNCHANGED local PROVE SmtpFits'
    BY <1>1, <1>4 DEF SmtpFits, SmtpRest
  <1>5. CASE SmtpBanner \/ SmtpClose BY <1>4, <1>5 DEF SmtpBanner, SmtpClose
  <1>6. CASE SmtpSimple
    <2>1. PICK r \in Reads : local' = r.then BY <1>6 DEF SmtpSimple
    <2>2. SmtpRest(r.then) /\ r.then.mail = local.mail BY ReadsTyped
    <2> QED BY <1>1, <1>3, <2>1, <2>2
  <1>7. ASSUME NEW verb, NEW code, NEW place, BeginDialogue(verb, code, place) PROVE SmtpFits'
    <2>1. PICK r \in Reads : \/ local' = [r.then EXCEPT !.mail = 0]
                             \/ local' = [r.then EXCEPT !.intact = FALSE]
      BY <1>7 DEF BeginDialogue, SendFails
    <2>2. SmtpRest(r.then) /\ r.then.mail = local.mail BY ReadsTyped
    <2>3. DOMAIN local' = SmtpFields /\ local'.rest = r.then.rest /\ local'.mail \in {0, r.then.mail}
      BY <2>1, <2>2 DEF SmtpRest, SmtpFields
    <2>4. SmtpRest(local') BY <2>2, <2>3 DEF SmtpRest
    <2>5. local'.mail \in Nat /\ local'.mail < SmtpDataMax BY <1>1, <1>2, <2>2, <2>3
    <2> QED BY <1>3, <2>4, <2>5
  <1>8. CASE SmtpUser
    <2>1. PICK r \in Reads : \/ local' = [r.then EXCEPT !.user = StripCrlf(r.line)]
                             \/ local' = [r.then EXCEPT !.intact = FALSE]
      BY <1>8 DEF SmtpUser, SendFails
    <2>2. SmtpRest(r.then) /\ r.then.mail = local.mail BY ReadsTyped
    <2>3. DOMAIN local' = SmtpFields /\ local'.rest = r.then.rest /\ local'.mail = r.then.mail
      BY <2>1, <2>2 DEF SmtpRest, SmtpFields
    <2>4. SmtpRest(local') BY <2>2, <2>3 DEF SmtpRest
    <2> QED BY <1>1, <1>3, <2>2, <2>3, <2>4
  <1>9. CASE SmtpPassword \/ SmtpPlainText
    <2>1. PICK r \in Reads : \E text, pair : local' = Capture(r.then, text, pair)
      BY <1>9 DEF SmtpPassword, SmtpPlainText
    <2>2. SmtpRest(r.then) /\ r.then.mail = local.mail BY ReadsTyped
    <2>3. DOMAIN local' = SmtpFields /\ local'.rest = r.then.rest /\ local'.mail = r.then.mail
      BY <2>1, <2>2 DEF SmtpRest, SmtpFields, Capture
    <2>4. SmtpRest(local') BY <2>2, <2>3 DEF SmtpRest
    <2> QED BY <1>1, <1>3, <2>2, <2>3, <2>4
  <1>10. CASE SmtpDataLine
    <2> DEFINE len(r) == IF r.line # <<".">> /\ DataRoom(local.mail, Len(r.line))
                         THEN local.mail + Len(r.line) + 1 ELSE local.mail
    <2>1. PICK r \in Reads : local' = [r.then EXCEPT !.mail = len(r)]
      BY <1>10 DEF SmtpDataLine
    <2>2. Len(r.line) \in Nat /\ SmtpRest(r.then) BY ReadsTyped
    <2>3. len(r) \in Nat /\ len(r) < SmtpDataMax BY <1>1, <1>2, <2>2 DEF DataRoom
    <2> HIDE DEF len
    <2>4. DOMAIN local' = SmtpFields /\ local'.rest = r.then.rest /\ local'.mail = len(r)
      BY <2>1, <2>2 DEF SmtpRest, SmtpFields
    <2>5. SmtpRest(local') BY <2>2, <2>4 DEF SmtpRest
    <2> QED BY <1>3, <2>3, <2>4, <2>5
  <1>11. CASE SmtpRecvFails
    <2>1. UNCHANGED local \/ local' = [local EXCEPT !.intact = FALSE] BY <1>11 DEF SmtpRecvFails
    <2>2. CASE local' = [local EXCEPT !.intact = FALSE]
      <3>1. DOMAIN local' = SmtpFields /\ local'.rest = local.rest /\ local'.mail = local.mail
        BY <1>1, <2>2 DEF SmtpFields
      <3>2. SmtpRest(local') BY <1>1, <3>1 DEF SmtpRest
      <3> QED BY <1>1, <1>3, <3>1, <3>2
    <2> QED BY <1>4, <2>1, <2>2
  <1>12. CASE SmtpLogin \/ SmtpPlain \/ SmtpData BY <1>7, <1>12 DEF SmtpLogin, SmtpPlain, SmtpData
  <1> QED BY <1>5, <1>6, <1>8, <1>9, <1>10, <1>11, <1>12 DEF SmtpNext
----------------------------------------------------------------------------
(***************************************************************************)
(* DNS: a reply fits into its buffer.                                      *)
(***************************************************************************)
NameEnds(pos) == [ok |-> TRUE, labels |-> <<>>, end |-> pos]

(* One step of dns_parse_domain_name, from what the next label gives. *)
NameLabel(msg, f, pos, size) ==
  IF pos + 1 + size > Len(msg)
  THEN [ok |-> FALSE, labels |-> <<>>, end |-> pos]
  ELSE [f[pos + 1 + size] EXCEPT !.labels = <<SubSeq(msg, pos + 2, pos + 1 + size)>> \o @]
NameStep(msg, f, pos) ==
  IF pos >= Len(msg) THEN NameEnds(pos)
  ELSE LET size == msg[pos + 1]
       IN  CASE size = 0 -> NameEnds(pos + 1)
             [] size >= PointerByte -> NameEnds(pos + 2)
             [] size \in 1 .. PointerByte - 1 -> NameLabel(msg, f, pos, size)
IsName(msg, offset, f) == f = [pos \in offset .. Len(msg) + 1 |-> NameStep(msg, f, pos)]

(* An element of a sequence. *)
LEMMA ByteOf ==
  ASSUME NEW S, NEW s \in Seq(S), NEW i \in 1 .. Len(s)
  PROVE  s[i] \in S
  OBVIOUS

(* The three kinds of a length byte. *)
LEMMA LengthKinds ==
  ASSUME NEW size \in 0 .. 255, NEW a, NEW b, NEW c
  PROVE  /\ size = 0 \/ size >= PointerByte \/ size \in 1 .. PointerByte - 1
         /\ (CASE size = 0 -> a [] size >= PointerByte -> b [] size \in 1 .. PointerByte - 1 -> c)
              = IF size = 0 THEN a ELSE IF size >= PointerByte THEN b ELSE c
         /\ size \in 1 .. PointerByte - 1 => size # 0 /\ ~(size >= PointerByte)
         /\ size >= PointerByte => size # 0
  BY DEF PointerByte

(* One turn of the loop over the labels of a name. *)
LEMMA NameStepIs ==
  ASSUME NEW msg, NEW f, NEW pos \in Nat, ~(pos >= Len(msg)), msg[pos + 1] \in 0 .. 255
  PROVE  NameStep(msg, f, pos) =
           IF msg[pos + 1] = 0 THEN NameEnds(pos + 1)
           ELSE IF msg[pos + 1] >= PointerByte THEN NameEnds(pos + 2)
           ELSE NameLabel(msg, f, pos, msg[pos + 1])
  <1> DEFINE size == msg[pos + 1]
  <1>1. NameStep(msg, f, pos) = CASE size = 0 -> NameEnds(pos + 1)
                                  [] size >= PointerByte -> NameEnds(pos + 2)
                                  [] size \in 1 .. PointerByte - 1 -> NameLabel(msg, f, pos, size)
    BY DEF NameStep
  <1>2. size \in 0 .. 255 OBVIOUS
  <1> HIDE DEF size
  <1>3. NameStep(msg, f, pos) = IF size = 0 THEN NameEnds(pos + 1)
                                ELSE IF size >= PointerByte THEN NameEnds(pos + 2)
                                ELSE NameLabel(msg, f, pos, size)
    BY <1>1, <1>2, LengthKinds
  <1> QED BY <1>3 DEF size

(* The step at a place only looks behind it. *)
LEMMA NameStepLooksAhead ==
  ASSUME NEW msg \in Seq(0 .. 255), NEW offset \in Nat, NEW f, NEW g,
         NEW pos \in offset .. Len(msg) + 1,
         \A q \in offset .. Len(msg) + 1 : q > pos => f[q] = g[q]
  PROVE  NameStep(msg, f, pos) = NameStep(msg, g, pos)
  <1>1. CASE pos >= Len(msg) BY <1>1 DEF NameStep
  <1>2. CASE ~(pos >= Len(msg))
    <2> DEFINE size == msg[pos + 1]
    <2>1. Len(msg) \in Nat /\ pos \in Nat /\ pos + 1 \in 1 .. Len(msg) BY <1>2
    <2>2. size \in 0 .. 255 BY <2>1, ByteOf
    <2> HIDE DEF size
    <2>3. CASE size = 0 \/ size >= PointerByte BY <1>2, <2>1, <2>2, <2>3, NameStepIs DEF size
    <2>4. CASE pos + 1 + size > Len(msg) /\ ~(size = 0 \/ size >= PointerByte)
      BY <2>4 DEF NameStep, NameLabel, size
    <2>5. CASE ~(pos + 1 + size > Len(msg))
      <3>1. pos + 1 + size \in offset .. Len(msg) + 1 /\ pos + 1 + size > pos BY <2>1, <2>2, <2>5
      <3>2. f[pos + 1 + size] = g[pos + 1 + size] BY <3>1
      <3> QED BY <3>2 DEF NameStep, NameLabel, size
    <2> QED BY <2>3, <2>4, <2>5
  <1> QED BY <1>1, <1>2

(* So the name is defined from the end of the message backwards. *)
LEMMA NameExists ==
  ASSUME NEW msg \in Seq(0 .. 255), NEW offset \in Nat, offset <= Len(msg)
  PROVE  \E f : IsName(msg, offset, f)
  <1> DEFINE L == Len(msg) + 1
  <1> DEFINE D == offset .. L
  <1> DEFINE Done(f, k) == \A pos \in D : pos >= L - k => f[pos] = NameStep(msg, f, pos)
  <1> DEFINE S == {k \in Nat : \E f : f = [pos \in D |-> f[pos]] /\ Done(f, k)}
  <1>1. Len(msg) \in Nat /\ L \in Nat /\ offset <= L OBVIOUS
  <1>2. 0 \in S
    <2> DEFINE f == [pos \in D |-> NameEnds(pos)]
    <2>1. f = [pos \in D |-> f[pos]] OBVIOUS
    <2>2. ASSUME NEW pos \in D, pos >= L - 0 PROVE f[pos] = NameStep(msg, f, pos)
      <3>1. pos >= Len(msg) BY <1>1, <2>2
      <3> QED BY <3>1 DEF NameStep
    <2>3. Done(f, 0) BY <2>2
    <2> HIDE DEF f
    <2> QED BY <2>1, <2>3
  <1>3. ASSUME NEW k \in S PROVE k + 1 \in S
    <2>1. PICK f : f = [pos \in D |-> f[pos]] /\ Done(f, k) OBVIOUS
    <2> DEFINE g == [pos \in D |-> IF pos = L - (k + 1) THEN NameStep(msg, f, pos) ELSE f[pos]]
    <2>2. g = [pos \in D |-> g[pos]] OBVIOUS
    <2>3. k \in Nat OBVIOUS
    <2>4. ASSUME NEW pos \in D, pos >= L - (k + 1) PROVE g[pos] = NameStep(msg, g, pos)
      <3>1. \A q \in offset .. Len(msg) + 1 : q > pos => f[q] = g[q] BY <1>1, <2>3, <2>4
      <3>2. NameStep(msg, f, pos) = NameStep(msg, g, pos)
        <4> HIDE DEF g
        <4> QED BY <3>1, NameStepLooksAhead
      <3>3. CASE pos = L - (k + 1) BY <3>2, <3>3
      <3>4. CASE pos # L - (k + 1)
        <4>1. pos >= L - k BY <1>1, <2>3, <2>4, <3>4
        <4>2. f[pos] = NameStep(msg, f, pos) BY <2>1, <4>1
        <4>3. g[pos] = f[pos] BY <3>4
        <4> HIDE DEF g
        <4> QED BY <3>2, <4>2, <4>3
      <3> QED BY <3>3, <3>4
    <2>5. Done(g, k + 1) BY <2>4
    <2> HIDE DEF g
    <2>6. k + 1 \in Nat BY <2>3
    <2> QED BY <2>2, <2>5, <2>6
  <1>4. S = Nat
    <2>1. S \subseteq Nat OBVIOUS
    <2> HIDE DEF S
    <2> QED BY <1>2, <1>3, <2>1, InductionBySet
  <1>5. L \in S BY <1>1, <1>4
  <1>6. PICK f : f = [pos \in D |-> f[pos]] /\ Done(f, L) BY <1>5
  <1>7. \A pos \in D : pos >= L - L BY <1>1
  <1>8. \A pos \in D : f[pos] = NameStep(msg, f, pos) BY <1>6, <1>7
  <1>9. f = [pos \in D |-> NameStep(msg, f, pos)] BY <1>6, <1>8
  <1> QED BY <1>9 DEF IsName

NameFields == {"ok", "labels", "end"}

(* The end of a name is a number. *)
LEMMA NameEndNat ==
  ASSUME NEW msg \in Seq(0 .. 255), NEW offset \in Nat, offset <= Len(msg)
  PROVE  NameFrom(msg, offset).end \in Nat
  <1> DEFINE L == Len(msg) + 1
  <1> DEFINE f == CHOOSE h : IsName(msg, offset, h)
  <1>1. IsName(msg, offset, f) BY NameExists
  <1>2. NameFrom(msg, offset) = f[offset] BY DEF NameFrom, IsName, NameStep, NameEnds, NameLabel
  <1> HIDE DEF f
  <1>3. Len(msg) \in Nat /\ L \in Nat /\ offset <= L OBVIOUS
  <1>4. \A pos \in offset .. L : f[pos] = NameStep(msg, f, pos) BY <1>1 DEF IsName
  <1> DEFINE Typed(r) == DOMAIN r = NameFields /\ r.end \in Nat
  <1> DEFINE S == {k \in Nat : \A pos \in offset .. L : pos >= L - k => Typed(f[pos])}
  <1>5. \A pos \in Nat : Typed(NameEnds(pos)) BY DEF NameEnds, NameFields
  <1>6. 0 \in S
    <2>1. ASSUME NEW pos \in offset .. L, pos >= L - 0 PROVE Typed(f[pos])
      <3>1. pos >= Len(msg) /\ pos \in Nat BY <1>3, <2>1
      <3>2. f[pos] = NameEnds(pos) BY <1>4, <3>1 DEF NameStep
      <3> QED BY <1>5, <3>1, <3>2
    <2> QED BY <2>1
  <1>7. ASSUME NEW k \in S PROVE k + 1 \in S
    <2>1. k \in Nat OBVIOUS
    <2>2. ASSUME NEW pos \in offset .. L, pos >= L - (k + 1) PROVE Typed(f[pos])
      <3>1. pos \in Nat /\ f[pos] = NameStep(msg, f, pos) BY <1>3, <1>4
      <3>2. CASE pos >= Len(msg) BY <1>5, <3>1, <3>2 DEF NameStep
      <3>3. CASE ~(pos >= Len(msg))
        <4> DEFINE size == msg[pos + 1]
        <4>1. pos + 1 \in 1 .. Len(msg) BY <1>3, <3>1, <3>3
        <4>2. size \in 0 .. 255 BY <4>1, ByteOf
        <4> HIDE DEF size
        <4>3. f[pos] = IF size = 0 THEN NameEnds(pos + 1)
                       ELSE IF size >= PointerByte THEN NameEnds(pos + 2)
                       ELSE NameLabel(msg, f, pos, size)
          <5>1. f[pos] = NameStep(msg, f, pos) BY <3>1
          <5>2. msg[pos + 1] \in 0 .. 255 BY <4>2 DEF size
          <5>3. pos \in Nat BY <3>1
          <5> QED BY <3>3, <5>1, <5>2, <5>3, NameStepIs DEF size
        <4>4. pos + 1 \in Nat /\ pos + 2 \in Nat BY <3>1
        <4>5. Typed(NameEnds(pos + 1)) /\ Typed(NameEnds(pos + 2)) BY <1>5, <4>4
        <4>6. Typed([ok |-> FALSE, labels |-> <<>>, end |-> pos]) BY <3>1 DEF NameFields
        <4>7. ASSUME size # 0, ~(pos + 1 + size > Len(msg)), NEW x
              PROVE  Typed([f[pos + 1 + size] EXCEPT !.labels = x])
          <5> DEFINE next == f[pos + 1 + size]
          <5>1. pos + 1 + size \in offset .. L /\ pos + 1 + size >= L - k
            <6>1. size \in Nat /\ size >= 1 BY <4>2, <4>7
            <6> QED BY <1>3, <2>1, <2>2, <3>1, <4>7, <6>1
          <5>2. Typed(next) BY <5>1
          <5> HIDE DEF next
          <5>3. Typed([next EXCEPT !.labels = x]) BY <5>2 DEF NameFields
          <5> QED BY <5>3 DEF next
        <4> HIDE DEF Typed
        <4>8. size # 0 => Typed(NameLabel(msg, f, pos, size)) BY <4>6, <4>7 DEF NameLabel
        <4> QED BY <4>3, <4>5, <4>8
      <3> QED BY <3>2, <3>3
    <2>3. k + 1 \in Nat BY <2>1
    <2> HIDE DEF Typed
    <2> QED BY <2>2, <2>3
  <1>8. S = Nat
    <2>1. S \subseteq Nat OBVIOUS
    <2> HIDE DEF S
    <2> QED BY <1>6, <1>7, <2>1, InductionBySet
  <1>9. L \in S BY <1>3, <1>8
  <1>10. offset \in offset .. L /\ offset >= L - L BY <1>3
  <1>11. Typed(f[offset]) BY <1>9, <1>10
  <1> QED BY <1>2, <1>11

(* What WithinBuffers says of a reply to the message raw. *)
ReplyFits(r, raw) ==
  LET copied == r[1].copied + (IF r[2] THEN 2 ELSE 0)
  IN  r[1].size <= DnsBufSize /\ copied <= Min({DnsBufSize, Len(raw) + 2})
DnsFits ==
  /\ Len(local.raw) \in Nat
  /\ pc = "dns" => replies = <<>>
  /\ IsSeq(replies) /\ \A i \in 1 .. Len(replies) : ReplyFits(replies[i], local.raw)

(* The message in what was received. *)
LEMMA MessageFits ==
  ASSUME DnsAssumption, NEW raw \in DnsSegments
  PROVE  /\ Message(raw) \in Seq(0 .. 255)
         /\ Len(Message(raw)) \in Nat /\ Len(raw) \in Nat /\ Len(raw) <= DnsBufSize
         /\ Len(Message(raw)) + (IF TcpFramed(raw) THEN 2 ELSE 0) <= Len(raw)
  <1>1. raw \in Seq(0 .. 255) /\ Len(raw) \in 1 .. DnsBufSize /\ DnsBufSize \in Nat BY DEF DnsAssumption
  <1>2. Len(raw) \in Nat /\ Len(raw) <= DnsBufSize BY <1>1
  <1>3. CASE TcpFramed(raw)
    <2> DEFINE n == raw[1] * 256 + raw[2]
    <2>1. n \in DNS_HEADER_SIZE .. Len(raw) - 2 BY <1>3 DEF TcpFramed
    <2> HIDE DEF n
    <2>2. n \in Nat /\ n + 2 <= Len(raw) /\ n >= 12 BY <1>2, <2>1 DEF DNS_HEADER_SIZE
    <2>3. \A i \in 3 .. n + 2 : raw[i] \in 0 .. 255
      <3>1. \A i \in 3 .. n + 2 : i \in 1 .. Len(raw) BY <1>2, <2>2
      <3> QED BY <1>1, <3>1, ByteOf
    <2> DEFINE B == 0 .. 255
    <2> HIDE DEF B
    <2>4. \A i \in 3 .. n + 2 : raw[i] \in B BY <2>3 DEF B
    <2>5. SubSeq(raw, 3, n + 2) \in Seq(B) /\ Len(SubSeq(raw, 3, n + 2)) = n
      <3>1. 3 \in Int /\ n + 2 \in Int /\ 3 <= n + 2 /\ (n + 2) - 3 + 1 = n BY <2>2
      <3> QED BY <2>4, <3>1, SubSeqProperties
    <2>6. Message(raw) = SubSeq(raw, 3, n + 2) BY <1>3 DEF Message, n
    <2>7. Message(raw) \in Seq(0 .. 255) BY <2>5, <2>6 DEF B
    <2> QED BY <1>2, <1>3, <2>2, <2>5, <2>6, <2>7
  <1>4. CASE ~TcpFramed(raw)
    <2>1. Message(raw) = raw BY <1>4 DEF Message
    <2> QED BY <1>1, <1>2, <1>4, <2>1
  <1> QED BY <1>3, <1>4

(* A copy of the message fits, with its length in front of it. *)
LEMMA CopyFits ==
  ASSUME DnsAssumption, NEW raw \in DnsSegments, NEW kind
  PROVE  ReplyFits(<<Copy(kind, Message(raw)), TcpFramed(raw)>>, raw)
  <1> DEFINE n == Len(Message(raw))
  <1> DEFINE plus == IF TcpFramed(raw) THEN 2 ELSE 0
  <1> DEFINE r == <<Copy(kind, Message(raw)), TcpFramed(raw)>>
  <1>1. n \in Nat /\ Len(raw) \in Nat /\ Len(raw) <= DnsBufSize /\ n + plus <= Len(raw) BY MessageFits
  <1>2. plus \in Nat OBVIOUS
  <1>3. r[1].copied = n /\ r[1].size = n /\ r[2] = TcpFramed(raw) BY DEF Copy
  <1>4. r[1].copied + (IF r[2] THEN 2 ELSE 0) = n + plus BY <1>3
  <1> HIDE DEF n, plus, r
  <1>5. DnsBufSize \in Nat /\ Len(raw) + 2 \in Nat BY <1>1 DEF DnsAssumption
  <1>6. Min({DnsBufSize, Len(raw) + 2}) \in {DnsBufSize, Len(raw) + 2} BY <1>5, MinOfTwo
  <1>7. n + plus <= Min({DnsBufSize, Len(raw) + 2}) /\ n <= DnsBufSize BY <1>1, <1>2, <1>5, <1>6
  <1>8. ReplyFits(r, raw) BY <1>3, <1>4, <1>7 DEF ReplyFits
  <1> QED BY <1>8 DEF r

(* The address, when its type was read from the message. *)
LEMMA AnswerFits ==
  ASSUME DnsAssumption, NEW raw \in DnsSegments, NEW end \in Nat,
         QType(Message(raw), end) = DNS_QTYPE_A
  PROVE  ReplyFits(<<FakeA(Message(raw), end), TcpFramed(raw)>>, raw)
  <1>1. CASE ~FitsWithAnswer(end)
    <2>1. FakeA(Message(raw), end) = Copy("SERVFAIL", Message(raw)) BY <1>1 DEF FakeA
    <2> QED BY <2>1, CopyFits
  <1>2. CASE FitsWithAnswer(end)
    <2> DEFINE n == Len(Message(raw))
    <2> DEFINE plus == IF TcpFramed(raw) THEN 2 ELSE 0
    <2> DEFINE r == <<FakeA(Message(raw), end), TcpFramed(raw)>>
    <2>1. n \in Nat /\ Len(raw) \in Nat /\ Len(raw) <= DnsBufSize /\ n + plus <= Len(raw) BY MessageFits
    <2>2. plus \in {0, 2} OBVIOUS
    <2>3. end + 2 <= n BY <2>1 DEF QType, DNS_QTYPE_A
    <2>4. end + 20 <= DnsBufSize BY <1>2 DEF FitsWithAnswer, AnswerSize, DnsAssumption
    <2>5. r[1].copied = end + 4 /\ r[1].size = end + 4 + AnswerSize /\ r[2] = TcpFramed(raw)
      BY <1>2 DEF FakeA
    <2>6. r[1].copied + (IF r[2] THEN 2 ELSE 0) = end + 4 + plus BY <2>5
    <2> HIDE DEF n, plus, r
    <2>7. DnsBufSize \in Nat /\ Len(raw) + 2 \in Nat BY <2>1 DEF DnsAssumption
    <2>8. Min({DnsBufSize, Len(raw) + 2}) \in {DnsBufSize, Len(raw) + 2} BY <2>7, MinOfTwo
    <2>9. end + 4 + plus <= DnsBufSize /\ end + 4 + plus <= Len(raw) + 2 BY <2>1, <2>2, <2>3, <2>4, <2>7
    <2>10. end + 4 + plus <= Min({DnsBufSize, Len(raw) + 2}) BY <2>8, <2>9
    <2>11. end + 4 + AnswerSize <= DnsBufSize BY <2>4, <2>7 DEF AnswerSize
    <2>12. ReplyFits(r, raw) BY <2>5, <2>6, <2>10, <2>11 DEF ReplyFits
    <2> QED BY <2>12 DEF r
  <1> QED BY <1>1, <1>2

(* DnsFits holds at the start. *)
LEMMA DnsFitsInit == DnsInit => DnsFits
  <1> SUFFICES ASSUME DnsInit PROVE DnsFits
    OBVIOUS
  <1>1. local = [raw |-> <<>>] /\ replies = <<>> BY DEF DnsInit, Begins
  <1>2. local.raw = <<>> BY <1>1
  <1>3. IsSeq(<<>>) /\ Len(<<>>) = 0 BY EmptyIsSeq
  <1>4. \A i \in 1 .. 0 : FALSE OBVIOUS
  <1> QED BY <1>1, <1>2, <1>3, <1>4 DEF DnsFits

(* Each step of DNS keeps DnsFits. *)
LEMMA DnsFitsStep ==
  ASSUME DnsAssumption, DnsFits, DnsNext
  PROVE  DnsFits'
  <1>1. ASSUME UNCHANGED <<local, replies>>, pc' # "dns" PROVE DnsFits'
    BY <1>1 DEF DnsFits, ReplyFits
  <1>2. CASE PeerGone({"dns"}) \/ EndSession BY <1>1, <1>2 DEF PeerGone, EndSession
  <1>3. ASSUME NEW raw \in DnsSegments, DnsRecv(raw) PROVE DnsFits'
    <2> DEFINE msg == Message(raw)
    <2> DEFINE name == NameFrom(msg, DNS_HEADER_SIZE)
    <2>1. local' = [raw |-> raw] /\ pc = "dns" /\ pc' = "end" BY <1>3 DEF DnsRecv
    <2>2. replies = <<>> /\ local'.raw = raw BY <2>1 DEF DnsFits
    <2>3. msg \in Seq(0 .. 255) /\ Len(msg) \in Nat /\ Len(raw) \in Nat BY MessageFits
    <2>4. Len(msg) >= DNS_HEADER_SIZE => name.end \in Nat
      <3>1. DNS_HEADER_SIZE \in Nat BY DEF DNS_HEADER_SIZE
      <3> HIDE DEF msg
      <3>2. Len(msg) >= DNS_HEADER_SIZE => DNS_HEADER_SIZE <= Len(msg) BY <2>3, <3>1
      <3> QED BY <2>3, <3>1, <3>2, NameEndNat
    <2>5. ASSUME NEW r, replies' = Append(replies, r), ReplyFits(r, raw) PROVE DnsFits'
      <3>1. IsSeq(<<>>) /\ Len(<<>>) = 0 BY EmptyIsSeq
      <3>2. IsSeq(replies') /\ Len(replies') = 1 /\ replies'[1] = r
        <4>1. replies' = Append(<<>>, r) BY <2>2, <2>5
        <4>2. /\ IsSeq(Append(<<>>, r)) /\ Len(Append(<<>>, r)) = Len(<<>>) + 1
              /\ Append(<<>>, r)[Len(<<>>) + 1] = r
          BY <3>1, AppendShape
        <4>3. Len(<<>>) + 1 = 1 BY <3>1
        <4> QED BY <4>1, <4>2, <4>3
      <3>3. \A i \in 1 .. 1 : i = 1 OBVIOUS
      <3>4. \A i \in 1 .. Len(replies') : ReplyFits(replies'[i], raw) BY <2>5, <3>2, <3>3
      <3>5. \A i \in 1 .. Len(replies') : ReplyFits(replies'[i], local'.raw) BY <2>2, <3>4
      <3> QED BY <2>1, <2>2, <2>3, <3>2, <3>5 DEF DnsFits, ReplyFits
    <2>6. \/ replies' = replies
          \/ \E kind : replies' = Append(replies, <<Copy(kind, msg), TcpFramed(raw)>>)
          \/ /\ Len(msg) >= DNS_HEADER_SIZE /\ QType(msg, name.end) = DNS_QTYPE_A
             /\ replies' = Append(replies, <<FakeA(msg, name.end), TcpFramed(raw)>>)
      BY <1>3 DEF DnsRecv, DnsSend
    <2>7. CASE replies' = replies
      <3>1. IsSeq(<<>>) /\ Len(<<>>) = 0 BY EmptyIsSeq
      <3>2. \A i \in 1 .. 0 : FALSE OBVIOUS
      <3>3. replies' = <<>> BY <2>2, <2>7
      <3> QED BY <2>1, <2>2, <2>3, <3>1, <3>2, <3>3 DEF DnsFits
    <2>8. ASSUME NEW kind, replies' = Append(replies, <<Copy(kind, msg), TcpFramed(raw)>>)
          PROVE  DnsFits'
      BY <2>5, <2>8, CopyFits
    <2>9. CASE /\ Len(msg) >= DNS_HEADER_SIZE /\ QType(msg, name.end) = DNS_QTYPE_A
               /\ replies' = Append(replies, <<FakeA(msg, name.end), TcpFramed(raw)>>)
      BY <2>4, <2>5, <2>9, AnswerFits
    <2> QED BY <2>6, <2>7, <2>8, <2>9
  <1> QED BY <1>2, <1>3 DEF DnsNext
----------------------------------------------------------------------------
(***************************************************************************)
(* MySQL: the refusals answer the packets, and the name recorded is that   *)
(* of the login.                                                           *)
(***************************************************************************)
LEMMA NextInByte ==
  ASSUME NEW M \in Nat, M # 0, NEW b \in 0 .. M - 1
  PROVE  (b + 1) % M = IF b = M - 1 THEN 0 ELSE b + 1
  <1>1. CASE b = M - 1
    <2>1. b + 1 = M BY <1>1
    <2>2. M % M = 0 OBVIOUS
    <2> QED BY <1>1, <2>1, <2>2
  <1>2. CASE b # M - 1
    <2>1. b + 1 \in Nat /\ b + 1 < M BY <1>2
    <2>2. \A x \in Nat : x < M => x % M = x OBVIOUS
    <2> QED BY <1>2, <2>1, <2>2
  <1> QED BY <1>1, <1>2

(* The next sequence byte, without the modulus. *)
LEMMA NextSeqIs ==
  ASSUME MySqlAssumption, NEW b \in SeqBytes
  PROVE  NextSeq(b) = IF b = ByteMod - 1 THEN 0 ELSE b + 1
  <1>1. ByteMod \in Nat /\ ByteMod # 0 BY DEF MySqlAssumption
  <1> QED BY <1>1, NextInByte DEF NextSeq, SeqBytes

(* Of the packets s up to the i-th: where those are that have a number,    *)
(* and whether the name is still that of the login.                        *)
LongTo(s, i) == {j \in 1 .. i : s[j].size > 3}
NoneReaches(s, i) == \A j \in 2 .. i : s[j].size <= USERNAME_OFFSET
SentName(p) == IF p.size > USERNAME_OFFSET /\ p.user \in MySqlNames THEN p.user ELSE Unknown
Refused(s, r, i) ==
  /\ i > 1 /\ LastOf(LongTo(s, i)) # 0 => r[i].seq = NextSeq(s[LastOf(LongTo(s, i))].seq)
  /\ NoneReaches(s, i) => r[i].user = SentName(s[1])

MySqlFields == {"buf", "username", "packets"}
MySqlLoggedIn(s) ==
  /\ IsSeq(audit) /\ Len(audit) >= 2 /\ audit[2] = <<"AUTH_FAILURE", SentName(s[1])>>
  /\ \A i \in 1 .. Len(audit) : audit[i][1] = "AUTH_FAILURE" <=> i = 2
  /\ IsSeq(replies) /\ Len(replies) = Len(s)
  /\ local.username = Extracted(s[1])
  /\ LastOf(LongTo(s, Len(s))) # 0 => local.buf.seq = s[LastOf(LongTo(s, Len(s)))].seq
  /\ s[1].size > USERNAME_OFFSET /\ NoneReaches(s, Len(s)) => local.buf.user = s[1].user
  /\ \A i \in 1 .. Len(s) : Refused(s, replies, i)
MySqlTells ==
  /\ DOMAIN local = MySqlFields
  /\ local.packets \in Seq(MySqlPacket)
  /\ local.buf.seq \in SeqBytes
  /\ pc \in {"greet", "login"} => local.packets = <<>> /\ audit = <<<<"CONNECT">>>>
  /\ pc \in {"query", "record"} => local.packets # <<>>
  /\ local.packets # <<>> => MySqlLoggedIn(local.packets)

(* The fields of a packet. *)
LEMMA PacketTyped ==
  ASSUME MySqlAssumption, NEW p \in MySqlPacket
  PROVE  /\ p.size \in Nat /\ p.seq \in SeqBytes
         /\ p.user \in MySqlNames \cup {EmptyUser, NoNul}
         /\ p.size > USERNAME_OFFSET <=> ~(p.size <= USERNAME_OFFSET)
  <1>1. p.size \in MySqlSizes /\ p.seq \in SeqBytes /\ p.user \in MySqlNames \cup {EmptyUser, NoNul}
    BY DEF MySqlPacket
  <1>2. p.size \in Nat BY <1>1 DEF MySqlAssumption
  <1>3. USERNAME_OFFSET \in Nat BY DEF USERNAME_OFFSET
  <1>4. p.size > USERNAME_OFFSET <=> ~(p.size <= USERNAME_OFFSET) BY <1>2, <1>3
  <1> QED BY <1>1, <1>2, <1>4

(* The name of the login is read as it was sent. *)
LEMMA NameReadIs ==
  ASSUME MySqlAssumption, NEW p \in MySqlPacket, NEW b,
         p.size > USERNAME_OFFSET => b.user = p.user
  PROVE  NameRead(Extracted(p), b) = SentName(p)
  <1>1. p.user \in MySqlNames <=> p.user \notin {NoNul, EmptyUser}
    BY PacketTyped DEF MySqlAssumption
  <1>2. p.size > USERNAME_OFFSET <=> ~(p.size <= USERNAME_OFFSET) BY PacketTyped
  <1>3. InBuffer # Unknown BY DEF InBuffer, Unknown
  <1>4. CASE p.size > USERNAME_OFFSET /\ p.user \in MySqlNames
    <2>1. Extracted(p) = InBuffer BY <1>1, <1>2, <1>4 DEF Extracted
    <2> QED BY <1>4, <2>1 DEF NameRead, SentName
  <1>5. CASE ~(p.size > USERNAME_OFFSET /\ p.user \in MySqlNames)
    <2>1. Extracted(p) = Unknown BY <1>1, <1>2, <1>5 DEF Extracted
    <2> QED BY <1>3, <1>5, <2>1 DEF NameRead, SentName
  <1> QED BY <1>4, <1>5

(* Earlier packets are as they were, and the new one is the last. *)
LEMMA LongNext ==
  ASSUME NEW s, IsSeq(s), NEW p
  PROVE  /\ \A i \in 0 .. Len(s) : LongTo(Append(s, p), i) = LongTo(s, i)
         /\ LastOf(LongTo(Append(s, p), Len(s) + 1)) =
              IF p.size > 3 THEN Len(s) + 1 ELSE LastOf(LongTo(s, Len(s)))
         /\ \A i \in 0 .. Len(s) : LastOf(LongTo(s, i)) \in 0 .. i
  <1> DEFINE t == Append(s, p)
  <1> DEFINE n == Len(s)
  <1>1. n \in Nat BY SeqShape
  <1>2. (\A j \in 1 .. n : t[j] = s[j]) /\ t[n + 1] = p BY AppendShape
  <1> HIDE DEF t, n
  <1>3. ASSUME NEW i \in 0 .. n PROVE LongTo(t, i) = LongTo(s, i)
    <2>1. \A j \in 1 .. i : j \in 1 .. n BY <1>1
    <2> QED BY <1>2, <2>1 DEF LongTo
  <1>4. \A j : j \in 1 .. n + 1 <=> j \in 1 .. n \/ j = n + 1 BY <1>1
  <1>5. LongTo(t, n + 1) = IF p.size > 3 THEN LongTo(s, n) \cup {n + 1} ELSE LongTo(s, n)
    BY <1>2, <1>4 DEF LongTo
  <1>6. LongTo(s, n) \subseteq 1 .. n BY DEF LongTo
  <1>7. LastOf(LongTo(s, n) \cup {n + 1}) = n + 1 BY <1>1, <1>6, LastOfNext
  <1>8. ASSUME NEW i \in 0 .. n PROVE LastOf(LongTo(s, i)) \in 0 .. i
    <2>1. LongTo(s, i) \subseteq 1 .. i /\ i \in Nat BY <1>1 DEF LongTo
    <2> QED BY <2>1, LastOfNat
  <1> QED BY <1>3, <1>5, <1>7, <1>8 DEF t, n

(* MySqlTells holds at the start. *)
LEMMA MySqlTellsInit ==
  ASSUME MySqlInit PROVE MySqlTells
  <1>1. PICK b \in SeqBytes :
          /\ local = [buf |-> [seq |-> b, user |-> NoNul], username |-> Unknown, packets |-> <<>>]
          /\ pc = "greet" /\ audit = <<<<"CONNECT">>>>
    BY DEF MySqlInit, Begins
  <1>2. DOMAIN local = MySqlFields /\ local.packets = <<>> /\ local.buf.seq = b
    BY <1>1 DEF MySqlFields
  <1>3. <<>> \in Seq(MySqlPacket) OBVIOUS
  <1> QED BY <1>1, <1>2, <1>3 DEF MySqlTells

(* recv leaves the number and the name of a packet that reaches them. *)
LEMMA ReceivedIs ==
  ASSUME MySqlAssumption, NEW p \in MySqlPacket, NEW b, b.seq \in SeqBytes
  PROVE  /\ Received(b, p).seq \in SeqBytes
         /\ Received(b, p).seq = IF p.size > 3 THEN p.seq ELSE b.seq
         /\ p.size > USERNAME_OFFSET => Received(b, p).user = p.user
         /\ p.size <= USERNAME_OFFSET => Received(b, p).user = b.user
  BY PacketTyped DEF Received

(* A login packet keeps MySqlTells. *)
LEMMA MySqlLoginTells ==
  ASSUME MySqlAssumption, MySqlTells, NEW p \in MySqlPacket, MySqlLogin(p)
  PROVE  MySqlTells'
  <1> DEFINE buf == Received(local.buf, p)
  <1> DEFINE s == <<p>>
  <1>1. /\ pc = "login" /\ pc' = "query"
        /\ local' = [buf |-> buf, username |-> Extracted(p), packets |-> <<p>>]
        /\ audit' = Append(audit, <<"AUTH_FAILURE", NameRead(Extracted(p), buf)>>)
        /\ replies' = <<ErrorPacket(2, NameRead(Extracted(p), buf))>>
    BY DEF MySqlLogin
  <1>2. audit = <<<<"CONNECT">>>> /\ local.buf.seq \in SeqBytes BY <1>1 DEF MySqlTells
  <1>3. /\ buf.seq \in SeqBytes /\ buf.seq = IF p.size > 3 THEN p.seq ELSE local.buf.seq
        /\ p.size > USERNAME_OFFSET => buf.user = p.user
    BY <1>2, ReceivedIs
  <1> HIDE DEF buf
  <1>4. NameRead(Extracted(p), buf) = SentName(p) BY <1>3, NameReadIs
  <1>5. /\ DOMAIN local' = MySqlFields /\ local'.packets = s /\ local'.buf = buf
        /\ local'.username = Extracted(p)
    BY <1>1 DEF MySqlFields
  <1>6. s \in Seq(MySqlPacket) /\ s # <<>> /\ Len(s) = 1 /\ s[1] = p OBVIOUS
  <1> HIDE DEF s
  <1>7. /\ IsSeq(audit') /\ Len(audit') = 2 /\ audit'[2] = <<"AUTH_FAILURE", SentName(s[1])>>
        /\ audit'[1] = <<"CONNECT">>
    <2> DEFINE e == <<"AUTH_FAILURE", SentName(p)>>
    <2>1. audit' = Append(audit, e) BY <1>1, <1>4
    <2> HIDE DEF e
    <2>2. IsSeq(audit) /\ Len(audit) = 1 /\ audit[1] = <<"CONNECT">> BY <1>2, OneSeq
    <2>3. /\ IsSeq(audit') /\ Len(audit') = Len(audit) + 1 /\ audit'[Len(audit) + 1] = e
          /\ \A i \in 1 .. Len(audit) : audit'[i] = audit[i]
      <3>1. IsSeq(audit) BY <2>2
      <3> QED BY <2>1, <3>1, AppendShape
    <2>4. Len(audit) + 1 = 2 /\ 1 \in 1 .. Len(audit) BY <2>2
    <2> QED BY <1>6, <2>2, <2>3, <2>4 DEF e
  <1>8. \A i \in 1 .. Len(audit') : audit'[i][1] = "AUTH_FAILURE" <=> i = 2
    <2>1. \A i \in 1 .. 2 : i = 1 \/ i = 2 OBVIOUS
    <2>2. audit'[1][1] = "CONNECT" /\ audit'[2][1] = "AUTH_FAILURE" BY <1>7
    <2> QED BY <1>7, <2>1, <2>2
  <1>9. /\ IsSeq(replies') /\ Len(replies') = 1
        /\ replies'[1] = ErrorPacket(2, SentName(p))
    BY <1>1, <1>4, OneSeq
  <1>10. Refused(s, replies', 1)
    <2>1. replies'[1].user = SentName(p) BY <1>9 DEF ErrorPacket
    <2> QED BY <1>6, <2>1 DEF Refused
  <1>11. \A i \in 1 .. Len(s) : Refused(s, replies', i)
    <2>1. \A i \in 1 .. 1 : i = 1 OBVIOUS
    <2> QED BY <1>6, <1>10, <2>1
  <1>12. LastOf(LongTo(s, 1)) # 0 => buf.seq = s[LastOf(LongTo(s, 1))].seq
    <2> SUFFICES ASSUME LastOf(LongTo(s, 1)) # 0 PROVE buf.seq = s[LastOf(LongTo(s, 1))].seq
      OBVIOUS
    <2>1. LongTo(s, 1) # {} BY DEF LastOf
    <2>2. \A j \in 1 .. 1 : j = 1 OBVIOUS
    <2>3. LongTo(s, 1) = {1} /\ p.size > 3 BY <1>6, <2>1, <2>2 DEF LongTo
    <2>4. LastOf({} \cup {0 + 1}) = 0 + 1 BY LastOfNext
    <2>5. LastOf({1}) = 1
      <3>1. {} \cup {0 + 1} = {1} /\ 0 + 1 = 1 OBVIOUS
      <3> QED BY <2>4, <3>1
    <2> QED BY <1>3, <1>6, <2>3, <2>5
  <1>13. MySqlLoggedIn(s)'
    <2>1. Len(audit') >= 2 /\ Len(replies') = Len(s) BY <1>6, <1>7, <1>9
    <2>2. local'.username = Extracted(s[1]) BY <1>5, <1>6
    <2>3. /\ LastOf(LongTo(s, Len(s))) # 0 => local'.buf.seq = s[LastOf(LongTo(s, Len(s)))].seq
          /\ s[1].size > USERNAME_OFFSET => local'.buf.user = s[1].user
      BY <1>3, <1>5, <1>6, <1>12
    <2> QED BY <1>7, <1>8, <1>9, <1>11, <2>1, <2>2, <2>3 DEF MySqlLoggedIn
  <1>14. pc' \notin {"greet", "login"} BY <1>1
  <1>15. MySqlLoggedIn(local.packets)' BY <1>5, <1>13 DEF MySqlLoggedIn
  <1> QED BY <1>3, <1>5, <1>6, <1>14, <1>15 DEF MySqlTells

(* A later packet keeps MySqlTells: it overwrites the name just if it      *)
(* reaches it.                                                             *)
LEMMA MySqlQueryTells ==
  ASSUME MySqlAssumption, MySqlTells, NEW p \in MySqlPacket, MySqlQuery(p)
  PROVE  MySqlTells'
  <1> DEFINE buf == Received(local.buf, p)
  <1> DEFINE s == local.packets
  <1> DEFINE t == Append(s, p)
  <1> DEFINE n == Len(s)
  <1> DEFINE name == NameRead(local.username, buf)
  <1> DEFINE r == ErrorPacket(NextSeq(buf.seq), name)
  <1>1. /\ pc = "query" /\ pc' = pc
        /\ local' = [local EXCEPT !.buf = buf, !.packets = t]
        /\ audit' = IF IsQuery(p) THEN Append(audit, <<"COMMAND", p>>) ELSE audit
        /\ replies' = Append(replies, r)
    BY DEF MySqlQuery
  <1>2. /\ s \in Seq(MySqlPacket) /\ s # <<>> /\ local.buf.seq \in SeqBytes /\ DOMAIN local = MySqlFields
        /\ MySqlLoggedIn(s)
    BY <1>1 DEF MySqlTells
  <1>3. /\ buf.seq \in SeqBytes /\ buf.seq = IF p.size > 3 THEN p.seq ELSE local.buf.seq
        /\ p.size <= USERNAME_OFFSET => buf.user = local.buf.user
    BY <1>2, ReceivedIs
  <1>4. n \in Nat /\ n >= 1 /\ IsSeq(s) BY <1>2 DEF IsSeq
  <1>5. t \in Seq(MySqlPacket) /\ t # <<>> BY <1>2
  <1>6. Len(t) = n + 1 /\ t[n + 1] = p /\ \A i \in 1 .. n : t[i] = s[i] BY <1>4, AppendShape
  <1>7. t[1] = s[1] /\ s[1] \in MySqlPacket BY <1>2, <1>4, <1>6
  <1>8. DOMAIN local' = MySqlFields /\ local'.packets = t /\ local'.buf = buf /\ local'.username = local.username
    BY <1>1, <1>2 DEF MySqlFields
  <1>9. /\ IsSeq(audit) /\ Len(audit) >= 2 /\ audit[2] = <<"AUTH_FAILURE", SentName(s[1])>>
        /\ \A i \in 1 .. Len(audit) : audit[i][1] = "AUTH_FAILURE" <=> i = 2
        /\ IsSeq(replies) /\ Len(replies) = n
        /\ local.username = Extracted(s[1])
    BY <1>2 DEF MySqlLoggedIn
  <1>10. /\ LastOf(LongTo(s, n)) # 0 => local.buf.seq = s[LastOf(LongTo(s, n))].seq
         /\ s[1].size > USERNAME_OFFSET /\ NoneReaches(s, n) => local.buf.user = s[1].user
         /\ \A i \in 1 .. n : Refused(s, replies, i)
    BY <1>2 DEF MySqlLoggedIn
  <1>11. /\ \A i \in 0 .. n : LongTo(t, i) = LongTo(s, i) /\ LastOf(LongTo(s, i)) \in 0 .. i
         /\ LastOf(LongTo(t, n + 1)) = IF p.size > 3 THEN n + 1 ELSE LastOf(LongTo(s, n))
    BY <1>4, LongNext
  <1>12. /\ IsSeq(audit') /\ Len(audit') >= 2 /\ audit'[2] = <<"AUTH_FAILURE", SentName(t[1])>>
         /\ \A i \in 1 .. Len(audit') : audit'[i][1] = "AUTH_FAILURE" <=> i = 2
    <2>1. CASE ~IsQuery(p) BY <1>1, <1>7, <1>9, <2>1
    <2>2. CASE IsQuery(p)
      <3> DEFINE e == <<"COMMAND", p>>
      <3> DEFINE m == Len(audit)
      <3>1. e[1] = "COMMAND" OBVIOUS
      <3>2. audit' = Append(audit, e) BY <1>1, <2>2
      <3> HIDE DEF e
      <3>3. m \in Nat /\ m >= 2 BY <1>9, SeqShape
      <3>4. /\ IsSeq(audit') /\ Len(audit') = m + 1 /\ audit'[m + 1] = e
            /\ \A i \in 1 .. m : audit'[i] = audit[i]
        BY <1>9, <3>2, AppendShape
      <3>5. \A i \in 1 .. m : audit[i][1] = "AUTH_FAILURE" <=> i = 2 BY <1>9
      <3> HIDE DEF m
      <3>6. /\ \A i \in 1 .. m + 1 : i \in 1 .. m \/ i = m + 1
            /\ 2 \in 1 .. m /\ m + 1 # 2 /\ m + 1 >= 2
        BY <3>3
      <3>7. ASSUME NEW i \in 1 .. m + 1 PROVE audit'[i][1] = "AUTH_FAILURE" <=> i = 2
        <4>1. CASE i \in 1 .. m BY <3>4, <3>5, <4>1
        <4>2. CASE i = m + 1 BY <3>1, <3>4, <3>6, <4>2
        <4> QED BY <3>6, <4>1, <4>2
      <3>8. audit'[2] = audit[2] BY <3>4, <3>6
      <3>9. Len(audit') >= 2 BY <3>4, <3>6
      <3>10. \A i \in 1 .. Len(audit') : audit'[i][1] = "AUTH_FAILURE" <=> i = 2 BY <3>4, <3>7
      <3>11. audit'[2] = <<"AUTH_FAILURE", SentName(t[1])>> BY <1>7, <1>9, <3>8
      <3> QED BY <3>4, <3>9, <3>10, <3>11
    <2> QED BY <2>1, <2>2
  <1> HIDE DEF r
  <1>13. /\ IsSeq(replies') /\ Len(replies') = n + 1 /\ replies'[n + 1] = r
         /\ \A i \in 1 .. n : replies'[i] = replies[i]
    BY <1>1, <1>9, AppendShape
  <1> HIDE DEF buf, s, t, n
  <1>14. /\ n + 1 \in Nat /\ n + 1 > 1 /\ n + 1 # 0 /\ n \in 0 .. n
         /\ \A i \in 1 .. n + 1 : i \in 1 .. n \/ i = n + 1
         /\ \A i \in 1 .. n : i \in 0 .. n /\ (\A j \in 0 .. i : j = 0 \/ j \in 1 .. n)
         /\ \A i \in 1 .. n : \A j \in 2 .. i : j \in 1 .. n
    BY <1>4
  <1>15. LastOf(LongTo(t, n + 1)) # 0 => buf.seq = t[LastOf(LongTo(t, n + 1))].seq
    <2>1. CASE p.size > 3 BY <1>3, <1>6, <1>11, <2>1
    <2>2. CASE ~(p.size > 3)
      <3> DEFINE k == LastOf(LongTo(s, n))
      <3>1. LastOf(LongTo(t, n + 1)) = k /\ buf.seq = local.buf.seq BY <1>3, <1>11, <2>2
      <3>2. k \in 0 .. n BY <1>11, <1>14
      <3>3. k # 0 => local.buf.seq = s[k].seq BY <1>10
      <3> HIDE DEF k
      <3>4. k # 0 => k \in 1 .. n BY <1>4, <3>2
      <3>5. k # 0 => t[k] = s[k] BY <1>6, <3>4
      <3> QED BY <3>1, <3>3, <3>5
    <2> QED BY <2>1, <2>2
  <1>16. NoneReaches(t, n + 1) => p.size <= USERNAME_OFFSET /\ NoneReaches(s, n)
    <2>1. n + 1 \in 2 .. n + 1 /\ \A j \in 2 .. n : j \in 2 .. n + 1 /\ j \in 1 .. n BY <1>4
    <2> QED BY <1>6, <2>1 DEF NoneReaches
  <1>17. t[1].size > USERNAME_OFFSET /\ NoneReaches(t, n + 1) => buf.user = t[1].user
    BY <1>3, <1>7, <1>10, <1>16
  <1>18. Refused(t, replies', n + 1)
    <2>1. r.seq = NextSeq(buf.seq) /\ r.user = name BY DEF r, ErrorPacket
    <2>2. NoneReaches(t, n + 1) => name = SentName(t[1])
      <3> SUFFICES ASSUME NoneReaches(t, n + 1) PROVE name = SentName(t[1])
        OBVIOUS
      <3>1. t[1].size > USERNAME_OFFSET => buf.user = t[1].user BY <1>17
      <3>2. local.username = Extracted(t[1]) /\ t[1] \in MySqlPacket BY <1>7, <1>9
      <3> QED BY <3>1, <3>2, NameReadIs
    <2> QED BY <1>13, <1>15, <2>1, <2>2 DEF Refused
  <1>19. ASSUME NEW i \in 1 .. n PROVE Refused(t, replies', i)
    <2>1. Refused(s, replies, i) BY <1>10
    <2>2. LongTo(t, i) = LongTo(s, i) /\ LastOf(LongTo(s, i)) \in 0 .. i BY <1>11, <1>14
    <2>3. replies'[i] = replies[i] BY <1>13
    <2>4. LastOf(LongTo(s, i)) # 0 => t[LastOf(LongTo(s, i))] = s[LastOf(LongTo(s, i))]
      BY <1>6, <1>14, <2>2
    <2>5. NoneReaches(t, i) => NoneReaches(s, i) BY <1>6, <1>14 DEF NoneReaches
    <2> QED BY <1>7, <2>1, <2>2, <2>3, <2>4, <2>5 DEF Refused
  <1>20. \A i \in 1 .. Len(t) : Refused(t, replies', i) BY <1>6, <1>14, <1>18, <1>19
  <1>21. MySqlLoggedIn(local.packets)'
    <2>1. Len(replies') = Len(t) BY <1>6, <1>13
    <2>2. local'.username = Extracted(t[1]) BY <1>7, <1>8, <1>9
    <2>3. /\ LastOf(LongTo(t, Len(t))) # 0 => local'.buf.seq = t[LastOf(LongTo(t, Len(t)))].seq
          /\ t[1].size > USERNAME_OFFSET /\ NoneReaches(t, Len(t)) => local'.buf.user = t[1].user
      BY <1>6, <1>8, <1>15, <1>17
    <2>4. local'.packets = t BY <1>8
    <2> QED BY <1>12, <1>13, <1>20, <2>1, <2>2, <2>3, <2>4 DEF MySqlLoggedIn
  <1>22. pc' \notin {"greet", "login"} BY <1>1
  <1> QED BY <1>3, <1>5, <1>8, <1>21, <1>22 DEF MySqlTells

(* Each step of MySQL keeps MySqlTells. *)
LEMMA MySqlTellsStep ==
  ASSUME MySqlAssumption, MySqlTells, MySqlNext
  PROVE  MySqlTells'
  <1>1. CASE MySqlGreet \/ MySqlGiveUp \/ MySqlClose
    <2>1. /\ UNCHANGED <<local, audit, replies>>
          /\ pc' \in {"greet", "login"} => pc \in {"greet", "login"}
          /\ pc' \in {"query", "record"} => pc \in {"query", "record"}
      BY <1>1 DEF MySqlGreet, MySqlGiveUp, MySqlClose
    <2> QED BY <2>1 DEF MySqlTells, MySqlLoggedIn
  <1>2. CASE MySqlRecordEnd
    <2> DEFINE e == <<"DISCONNECT">>
    <2> DEFINE n == Len(audit)
    <2>1. audit' = Append(audit, e) /\ pc = "record" /\ pc' = "ended" /\ UNCHANGED <<local, replies>>
      BY <1>2 DEF MySqlRecordEnd
    <2>2. e[1] = "DISCONNECT" OBVIOUS
    <2> HIDE DEF e
    <2>3. /\ IsSeq(audit) /\ n >= 2 /\ audit[2] = <<"AUTH_FAILURE", SentName(local.packets[1])>>
          /\ \A i \in 1 .. n : audit[i][1] = "AUTH_FAILURE" <=> i = 2
      BY <2>1 DEF MySqlTells, MySqlLoggedIn
    <2>4. n \in Nat BY <2>3, SeqShape
    <2>5. /\ IsSeq(audit') /\ Len(audit') = n + 1 /\ audit'[n + 1] = e
          /\ \A i \in 1 .. n : audit'[i] = audit[i]
      BY <2>1, <2>3, AppendShape
    <2> HIDE DEF n
    <2>6. /\ \A i \in 1 .. n + 1 : i \in 1 .. n \/ i = n + 1
          /\ 2 \in 1 .. n /\ n + 1 # 2 /\ n + 1 >= 2
      BY <2>3, <2>4
    <2>7. ASSUME NEW i \in 1 .. n + 1 PROVE audit'[i][1] = "AUTH_FAILURE" <=> i = 2
      <3>1. CASE i \in 1 .. n BY <2>3, <2>5, <3>1
      <3>2. CASE i = n + 1 BY <2>2, <2>5, <2>6, <3>2
      <3> QED BY <2>6, <3>1, <3>2
    <2>8. /\ Len(audit') >= 2 /\ audit'[2] = <<"AUTH_FAILURE", SentName(local.packets[1])>>
          /\ \A i \in 1 .. Len(audit') : audit'[i][1] = "AUTH_FAILURE" <=> i = 2
      BY <2>3, <2>5, <2>6, <2>7
    <2> QED BY <2>1, <2>5, <2>8 DEF MySqlTells, MySqlLoggedIn
  <1> QED BY <1>1, <1>2, MySqlLoginTells, MySqlQueryTells DEF MySqlNext

MySqlIInv == service = "mysql" => MySqlTells

(* MySqlIInv is an invariant. *)
LEMMA MySqlInvariance == Spec => []MySqlIInv
  <1> USE MySqlAssumption
  <1>1. Init => MySqlIInv BY MySqlTellsInit DEF Init, MySqlIInv
  <1>2. MySqlIInv /\ [Next]_session => MySqlIInv'
    <2> SUFFICES ASSUME MySqlIInv, [Next]_session PROVE MySqlIInv'
      OBVIOUS
    <2>1. CASE UNCHANGED session
      BY <2>1 DEF MySqlIInv, session, MySqlTells, MySqlLoggedIn
    <2>2. CASE ServiceStep /\ UNCHANGED service
      <3> SUFFICES ASSUME service = "mysql" PROVE MySqlTells'
        BY <2>2 DEF MySqlIInv
      <3>1. MySqlNext BY <2>2 DEF ServiceStep
      <3>2. MySqlTells BY DEF MySqlIInv
      <3> QED BY <3>1, <3>2, MySqlTellsStep
    <2> QED BY <2>1, <2>2 DEF Next, Ended
  <1> QED BY <1>1, <1>2, PTL DEF Spec

(* RefusalsInStep: each packet of a MySQL session is refused, once, with   *)
(* the number after its own; the name recorded is the one the login sent,  *)
(* and the refusals name it until a packet has overwritten it in the       *)
(* buffer.                                                                 *)
THEOREM MySqlRefuses == Spec => []RefusalsInStep
  <1>1. MySqlIInv => RefusalsInStep
    <2> DEFINE s == local.packets
    <2> SUFFICES ASSUME MySqlIInv, service = "mysql", s # <<>> PROVE RefusalsInStep
      BY DEF RefusalsInStep
    <2>1. MySqlTells /\ MySqlLoggedIn(s) /\ s \in Seq(MySqlPacket) BY DEF MySqlIInv, MySqlTells
    <2>2. Head(s) = s[1] /\ SentName(s[1]) = SentName(Head(s)) /\ Len(s) \in Nat BY <2>1
    <2>3. /\ DOMAIN audit = 1 .. Len(audit) /\ Len(audit) \in Nat
          /\ DOMAIN replies = 1 .. Len(s)
      BY <2>1, SeqShape DEF MySqlLoggedIn
    <2>4. {i \in DOMAIN audit : audit[i][1] = "AUTH_FAILURE"} = {2}
      <3>1. 2 \in 1 .. Len(audit) BY <2>1, <2>3 DEF MySqlLoggedIn
      <3>2. \A i \in 1 .. Len(audit) : audit[i][1] = "AUTH_FAILURE" <=> i = 2 BY <2>1 DEF MySqlLoggedIn
      <3> QED BY <2>3, <3>1, <3>2
    <2>5. ASSUME NEW i \in 1 .. Len(s)
          PROVE  SelectLastInSeq(SubSeq(s, 1, i), LAMBDA p : p.size > 3) = LastOf(LongTo(s, i))
      <3> DEFINE t == SubSeq(s, 1, i)
      <3>1. i \in Nat /\ 1 <= i /\ i <= Len(s) BY <2>2
      <3>2. Len(t) = i /\ \A j \in 1 .. i : t[j] = s[j] BY <2>1, <3>1, SubSeqProperties
      <3> HIDE DEF t
      <3>3. {j \in 1 .. Len(t) : t[j].size > 3} = LongTo(s, i) BY <3>2 DEF LongTo
      <3>4. SelectLastInSeq(t, LAMBDA p : p.size > 3) = LastOf(LongTo(s, i))
        BY <3>3 DEF SelectLastInSeq, LastOf
      <3> QED BY <3>4 DEF t
    <2>6. ASSUME NEW i \in 1 .. Len(s)
          PROVE  /\ i > 1 /\ LastOf(LongTo(s, i)) # 0 =>
                      replies[i].seq = IF s[LastOf(LongTo(s, i))].seq = ByteMod - 1 THEN 0
                                       ELSE s[LastOf(LongTo(s, i))].seq + 1
                 /\ (\A j \in 2 .. i : s[j].size <= USERNAME_OFFSET)
                      => replies[i].user = SentName(Head(s))
      <3> DEFINE k == LastOf(LongTo(s, i))
      <3>1. Refused(s, replies, i) BY <2>1 DEF MySqlLoggedIn
      <3>2. k # 0 => s[k].seq \in SeqBytes
        <4>1. LongTo(s, i) \subseteq 1 .. i /\ i \in Nat BY <2>2 DEF LongTo
        <4>2. k \in 0 .. i BY <4>1, LastOfNat
        <4> HIDE DEF k
        <4>3. k # 0 => k \in 1 .. Len(s) BY <2>2, <4>1, <4>2
        <4>4. k # 0 => s[k] \in MySqlPacket BY <2>1, <4>3, ByteOf
        <4> QED BY <4>4, MySqlAssumption, PacketTyped
      <3>3. k # 0 => NextSeq(s[k].seq) = IF s[k].seq = ByteMod - 1 THEN 0 ELSE s[k].seq + 1
        BY <3>2, MySqlAssumption, NextSeqIs
      <3> QED BY <2>2, <3>1, <3>3 DEF Refused, NoneReaches
    <2>7. Len(replies) = Len(s) /\ audit[2] = <<"AUTH_FAILURE", SentName(Head(s))>>
      BY <2>1, <2>2 DEF MySqlLoggedIn
    <2> HIDE DEF s
    <2>8. ASSUME NEW i \in DOMAIN replies
          PROVE  LET last == SelectLastInSeq(SubSeq(s, 1, i), LAMBDA p : p.size > 3)
                     seq == s[last].seq
                 IN  /\ i > 1 /\ last # 0 => replies[i].seq = IF seq = ByteMod - 1 THEN 0 ELSE seq + 1
                     /\ (\A j \in 2 .. i : s[j].size <= USERNAME_OFFSET)
                          => replies[i].user = SentName(Head(s))
      <3>1. i \in 1 .. Len(s) BY <2>3
      <3> QED BY <2>5, <2>6, <3>1
    <2> QED BY <2>4, <2>7, <2>8 DEF RefusalsInStep, SentName, s
  <1> QED BY <1>1, MySqlInvariance, PTL
----------------------------------------------------------------------------
(***************************************************************************)
(* POP3: the pairs of names and passwords.  A half of a pair is a USER or  *)
(* a PASS; the variable of the service is what the last half before makes  *)
(* of it.                                                                  *)
(***************************************************************************)
IsHalf(e) == e[1] = "COMMAND" /\ e[2] # <<>> /\ Head(e[2]) \in {"USER", "PASS"}
HalvesTo(a, i) == {j \in 1 .. i : IsHalf(a[j])}
NameOfHalf(e) == IF Head(e[2]) = "USER" THEN Tail(e[2]) ELSE <<>>
GivenName(a, i) ==
  IF LastOf(HalvesTo(a, i)) # 0 THEN NameOfHalf(a[LastOf(HalvesTo(a, i))]) ELSE <<>>
Paired(a, i) ==
  a[i][1] = "AUTH_FAILURE" =>
    /\ i > 2
    /\ a[i - 1][1] = "COMMAND" /\ Head(a[i - 1][2]) = "PASS"
    /\ a[i][2] = Cut(GivenName(a, i - 2), NameSize)
    /\ a[i][3] = Tail(a[i - 1][2])
HalvesPaired(a, user) ==
  /\ IsSeq(a) /\ Len(a) >= 1
  /\ user = Cut(GivenName(a, Len(a)), NameSize)
  /\ \A i \in 1 .. Len(a) : Paired(a, i)

(* Nothing is left of nothing. *)
LEMMA CutEmpty ==
  ASSUME NEW size \in Nat \ {0} PROVE Cut(<<>>, size) = <<>>
  <1>1. Len(<<>>) = 0 /\ size - 1 \in Nat OBVIOUS
  <1>2. Min({0, size - 1}) \in Nat /\ Min({0, size - 1}) <= 0 BY <1>1, MinOfTwo
  <1>3. Min({0, size - 1}) = 0 BY <1>2
  <1>4. Cut(<<>>, size) = SubSeq(<<>>, 1, 0) BY <1>1, <1>3 DEF Cut
  <1> QED BY <1>4

(* Earlier events are paired as before, and a new one may be the last half. *)
LEMMA HalvesNext ==
  ASSUME NEW a, IsSeq(a), NEW e
  PROVE  /\ \A i \in 0 .. Len(a) : GivenName(Append(a, e), i) = GivenName(a, i)
         /\ GivenName(Append(a, e), Len(a) + 1) =
              IF IsHalf(e) THEN NameOfHalf(e) ELSE GivenName(a, Len(a))
  <1> DEFINE b == Append(a, e)
  <1> DEFINE n == Len(a)
  <1>1. n \in Nat BY SeqShape
  <1>2. (\A j \in 1 .. n : b[j] = a[j]) /\ b[n + 1] = e BY AppendShape
  <1> HIDE DEF b, n
  <1>3. ASSUME NEW i \in 0 .. n
        PROVE  /\ HalvesTo(b, i) = HalvesTo(a, i)
               /\ LastOf(HalvesTo(a, i)) # 0 => b[LastOf(HalvesTo(a, i))] = a[LastOf(HalvesTo(a, i))]
    <2>1. \A j \in 1 .. i : j \in 1 .. n BY <1>1
    <2>2. HalvesTo(b, i) = HalvesTo(a, i) BY <1>2, <2>1 DEF HalvesTo
    <2> DEFINE k == LastOf(HalvesTo(a, i))
    <2>3. HalvesTo(a, i) \subseteq 1 .. i /\ i \in Nat BY <1>1 DEF HalvesTo
    <2>4. k \in 0 .. i BY <2>3, LastOfNat
    <2> HIDE DEF k
    <2>5. k # 0 => k \in 1 .. i BY <2>3, <2>4
    <2>6. k # 0 => b[k] = a[k] BY <1>2, <2>1, <2>5
    <2> QED BY <2>2, <2>6 DEF k
  <1>4. \A i \in 0 .. n : GivenName(b, i) = GivenName(a, i) BY <1>3 DEF GivenName
  <1>5. \A j : j \in 1 .. n + 1 <=> j \in 1 .. n \/ j = n + 1 BY <1>1
  <1>6. HalvesTo(b, n + 1) = IF IsHalf(e) THEN HalvesTo(a, n) \cup {n + 1} ELSE HalvesTo(a, n)
    BY <1>2, <1>5 DEF HalvesTo
  <1>7. HalvesTo(a, n) \subseteq 1 .. n BY DEF HalvesTo
  <1>8. LastOf(HalvesTo(a, n) \cup {n + 1}) = n + 1 /\ n + 1 # 0 BY <1>1, <1>7, LastOfNext
  <1>9. CASE IsHalf(e)
    <2>1. LastOf(HalvesTo(b, n + 1)) = n + 1 BY <1>6, <1>8, <1>9
    <2>2. GivenName(b, n + 1) = NameOfHalf(e) BY <1>2, <1>8, <2>1 DEF GivenName
    <2> QED BY <1>4, <1>9, <2>2 DEF b, n
  <1>10. CASE ~IsHalf(e)
    <2>1. HalvesTo(b, n + 1) = HalvesTo(a, n) BY <1>6, <1>10
    <2>2. n \in 0 .. n BY <1>1
    <2>3. GivenName(b, n + 1) = GivenName(a, n) BY <1>3, <2>1, <2>2 DEF GivenName
    <2> QED BY <1>4, <1>10, <2>3 DEF b, n
  <1> QED BY <1>9, <1>10

(* An event at the end changes no pair before it. *)
LEMMA PairedNext ==
  ASSUME NEW a, IsSeq(a), NEW e, \A i \in 1 .. Len(a) : Paired(a, i)
  PROVE  \A i \in 1 .. Len(a) : Paired(Append(a, e), i)
  <1> DEFINE b == Append(a, e)
  <1>1. Len(a) \in Nat BY SeqShape
  <1>2. \A j \in 1 .. Len(a) : b[j] = a[j] BY AppendShape
  <1>3. \A i \in 0 .. Len(a) : GivenName(b, i) = GivenName(a, i) BY HalvesNext
  <1> HIDE DEF b
  <1>4. ASSUME NEW i \in 1 .. Len(a) PROVE Paired(b, i)
    <2>1. Paired(a, i) /\ b[i] = a[i] BY <1>2
    <2>2. CASE i > 2
      <3>1. i - 1 \in 1 .. Len(a) /\ i - 2 \in 0 .. Len(a) BY <1>1, <2>2
      <3>2. b[i - 1] = a[i - 1] /\ GivenName(b, i - 2) = GivenName(a, i - 2) BY <1>2, <1>3, <3>1
      <3> QED BY <2>1, <2>2, <3>2 DEF Paired
    <2>3. CASE ~(i > 2) BY <2>1, <2>3 DEF Paired
    <2> QED BY <2>2, <2>3
  <1> QED BY <1>4 DEF b

(* One event, not a pair. *)
LEMMA OneEventPairs ==
  ASSUME NEW a, NEW user, HalvesPaired(a, user), NEW e, e[1] # "AUTH_FAILURE"
  PROVE  HalvesPaired(Append(a, e), IF IsHalf(e) THEN Cut(NameOfHalf(e), NameSize) ELSE user)
  <1> DEFINE b == Append(a, e)
  <1> DEFINE n == Len(a)
  <1>1. IsSeq(a) /\ n >= 1 /\ user = Cut(GivenName(a, n), NameSize) BY DEF HalvesPaired
  <1>2. n \in Nat BY <1>1, SeqShape
  <1>3. IsSeq(b) /\ Len(b) = n + 1 /\ b[n + 1] = e BY <1>1, AppendShape
  <1>4. \A i \in 1 .. n : Paired(b, i) BY <1>1, PairedNext DEF HalvesPaired
  <1>5. GivenName(b, n + 1) = IF IsHalf(e) THEN NameOfHalf(e) ELSE GivenName(a, n) BY <1>1, HalvesNext
  <1> HIDE DEF b, n
  <1>6. Paired(b, n + 1) BY <1>3 DEF Paired
  <1>7. \A i \in 1 .. n + 1 : i \in 1 .. n \/ i = n + 1 BY <1>2
  <1>8. \A i \in 1 .. n + 1 : Paired(b, i) BY <1>4, <1>6, <1>7
  <1>9. n + 1 >= 1 BY <1>2
  <1> QED BY <1>1, <1>3, <1>5, <1>8, <1>9 DEF HalvesPaired, b, n

(* A PASS and the pair it makes. *)
LEMMA PairPairs ==
  ASSUME NEW a, NEW user, HalvesPaired(a, user), NEW text, text # <<>>, Head(text) = "PASS",
         NameSize \in Nat \ {0}
  PROVE  HalvesPaired(Append(Append(a, <<"COMMAND", text>>), <<"AUTH_FAILURE", user, Tail(text)>>), <<>>)
  <1> DEFINE c == <<"COMMAND", text>>
  <1> DEFINE f == <<"AUTH_FAILURE", user, Tail(text)>>
  <1> DEFINE b == Append(a, c)
  <1> DEFINE d == Append(b, f)
  <1> DEFINE n == Len(a)
  <1>1. /\ c[1] = "COMMAND" /\ c[2] = text
        /\ f[1] = "AUTH_FAILURE" /\ f[2] = user /\ f[3] = Tail(text)
    OBVIOUS
  <1> HIDE DEF c, f
  <1>2. IsHalf(c) /\ NameOfHalf(c) = <<>> /\ ~IsHalf(f) BY <1>1 DEF IsHalf, NameOfHalf
  <1>3. IsSeq(a) /\ n >= 1 /\ user = Cut(GivenName(a, n), NameSize) BY DEF HalvesPaired
  <1>4. n \in Nat BY <1>3, SeqShape
  <1>5. IsSeq(b) /\ Len(b) = n + 1 /\ b[n + 1] = c BY <1>3, AppendShape
  <1>6. HalvesPaired(b, Cut(<<>>, NameSize)) BY <1>1, <1>2, OneEventPairs
  <1>7. /\ \A i \in 1 .. Len(b) : Paired(b, i)
        /\ GivenName(b, n) = GivenName(a, n)
        /\ Cut(<<>>, NameSize) = Cut(GivenName(b, Len(b)), NameSize)
    <2>1. n \in 0 .. Len(a) BY <1>4
    <2>2. GivenName(b, n) = GivenName(a, n) BY <1>3, <2>1, HalvesNext
    <2> HIDE DEF b
    <2> QED BY <1>6, <2>2 DEF HalvesPaired
  <1> HIDE DEF b, n
  <1>8. /\ IsSeq(d) /\ Len(d) = Len(b) + 1 /\ d[Len(b) + 1] = f
        /\ \A i \in 1 .. Len(b) : d[i] = b[i]
    BY <1>5, AppendShape
  <1>9. /\ \A i \in 0 .. Len(b) : GivenName(d, i) = GivenName(b, i)
        /\ GivenName(d, Len(b) + 1) = GivenName(b, Len(b))
    BY <1>2, <1>5, HalvesNext
  <1>10. \A i \in 1 .. Len(b) : Paired(d, i) BY <1>5, <1>7, PairedNext
  <1> HIDE DEF d
  <1>11. Paired(d, n + 2)
    <2>1. /\ n + 2 > 2 /\ (n + 2) - 1 = n + 1 /\ (n + 2) - 2 = n /\ Len(b) + 1 = n + 2
          /\ n \in 0 .. n + 1 /\ n + 1 \in 1 .. n + 1
      BY <1>3, <1>4, <1>5
    <2>2. d[n + 2] = f /\ d[n + 1] = c BY <1>5, <1>8, <2>1
    <2>3. GivenName(d, n) = GivenName(a, n) BY <1>5, <1>7, <1>9, <2>1
    <2> QED BY <1>1, <1>3, <2>1, <2>2, <2>3 DEF Paired
  <1>12. \A i \in 1 .. n + 2 : i \in 1 .. n + 1 \/ i = n + 2 BY <1>4
  <1>13. Len(d) = n + 2 /\ n + 2 >= 1 BY <1>4, <1>5, <1>8
  <1>14. \A i \in 1 .. Len(d) : Paired(d, i) BY <1>5, <1>10, <1>11, <1>12, <1>13
  <1>15. <<>> = Cut(GivenName(d, Len(d)), NameSize)
    <2>1. Cut(<<>>, NameSize) = <<>> BY CutEmpty
    <2> QED BY <1>7, <1>8, <1>9, <2>1
  <1> QED BY <1>8, <1>13, <1>14, <1>15 DEF HalvesPaired, d, b, c, f

(* A concatenation of one or two, as Append. *)
LEMMA ConcatAppends ==
  ASSUME NEW s, IsSeq(s), NEW e, NEW f
  PROVE  s \o <<e>> = Append(s, e) /\ s \o <<e, f>> = Append(Append(s, e), f)
  <1>1. PICK S : s \in Seq(S) BY DEF IsSeq
  <1> DEFINE T == S \cup {e, f}
  <1>2. s \in Seq(T) /\ e \in T /\ f \in T BY <1>1
  <1> HIDE DEF T
  <1>3. s \o <<e>> = Append(s, e) BY <1>2
  <1>4. s \o <<e, f>> = Append(Append(s, e), f) BY <1>2
  <1> QED BY <1>3, <1>4

(* Tail as a subsequence. *)
LEMMA TailIsRest ==
  ASSUME NEW s, IsSeq(s), s # <<>>
  PROVE  Tail(s) = SubSeq(s, 2, Len(s))
  <1>1. PICK S : s \in Seq(S) BY DEF IsSeq
  <1> QED BY <1>1

(* A segment without its line end is a sequence. *)
LEMMA TextIsSeq ==
  ASSUME MailboxAssumption, NEW segment \in Pop3Segments
  PROVE  IsSeq(TextOf(segment))
  <1>1. segment \in Seq(STRING) BY DEF MailboxAssumption
  <1>2. IsSeq(segment) BY <1>1 DEF IsSeq
  <1> DEFINE s == CString(segment)
  <1>3. IsSeq(s) /\ Len(s) \in Nat BY <1>2, CStringSeq
  <1> HIDE DEF s
  <1> DEFINE I == {i \in 1 .. Len(s) : s[i] \notin {CR, LF}}
  <1>4. I \subseteq 1 .. Len(s) OBVIOUS
  <1>5. StripCrlf(s) = SubSeq(s, 1, LastOf(I)) BY DEF StripCrlf, SelectLastInSeq, LastOf
  <1> HIDE DEF I
  <1>6. LastOf(I) \in 0 .. Len(s) BY <1>3, <1>4, LastOfNat
  <1>7. LastOf(I) \in Int /\ 1 \in Int BY <1>3, <1>6
  <1>8. IsSeq(SubSeq(s, 1, LastOf(I))) BY <1>7, SubSeqShape
  <1> QED BY <1>5, <1>8 DEF TextOf, s

Pop3Tells == DOMAIN local = {"received", "user"} /\ HalvesPaired(audit, local.user)

(* Pop3Tells holds at the start. *)
LEMMA Pop3TellsInit == MailboxAssumption /\ Pop3Init => Pop3Tells
  <1> SUFFICES ASSUME MailboxAssumption, Pop3Init PROVE Pop3Tells
    OBVIOUS
  <1>1. local = [received |-> 0, user |-> <<>>] /\ audit = <<<<"CONNECT">>>> BY DEF Pop3Init, Begins
  <1>2. IsSeq(audit) /\ Len(audit) = 1 /\ audit[1] = <<"CONNECT">> BY <1>1, OneSeq
  <1>3. \A i \in 1 .. 1 : i = 1 OBVIOUS
  <1>4. audit[1][1] = "CONNECT" BY <1>2
  <1>5. HalvesTo(audit, 1) = {} BY <1>3, <1>4 DEF HalvesTo, IsHalf
  <1>6. GivenName(audit, 1) = <<>> BY <1>5 DEF GivenName, LastOf
  <1>7. \A i \in 1 .. 1 : Paired(audit, i) BY <1>3, <1>4 DEF Paired
  <1>8. NameSize \in Nat \ {0} BY DEF MailboxAssumption
  <1>9. Cut(<<>>, NameSize) = <<>> BY <1>8, CutEmpty
  <1>10. DOMAIN local = {"received", "user"} /\ local.user = <<>> BY <1>1
  <1> QED BY <1>2, <1>6, <1>7, <1>9, <1>10 DEF Pop3Tells, HalvesPaired

(* Each step of POP3 keeps Pop3Tells. *)
LEMMA Pop3TellsStep ==
  ASSUME MailboxAssumption, Pop3Tells, Pop3Next \/ UNCHANGED <<local, audit>>
  PROVE  Pop3Tells'
  <1>1. DOMAIN local = {"received", "user"} /\ HalvesPaired(audit, local.user) BY DEF Pop3Tells
  <1>2. IsSeq(audit) BY <1>1 DEF HalvesPaired
  <1>3. SUFFICES DOMAIN local' = {"received", "user"} /\ HalvesPaired(audit', local'.user)
    BY DEF Pop3Tells, HalvesPaired, Paired, GivenName, HalvesTo, LastOf, IsHalf, NameOfHalf, Cut
  <1>4. ASSUME NEW segment \in Pop3Segments, Pop3Recv(segment)
        PROVE  DOMAIN local' = {"received", "user"} /\ HalvesPaired(audit', local'.user)
    <2> DEFINE text == TextOf(segment)
    <2> DEFINE c == <<"COMMAND", text>>
    <2> DEFINE arg == SubSeq(text, 2, Len(text))
    <2> DEFINE verb == FirstByte(text)
    <2>1. IsSeq(text) BY TextIsSeq
    <2>2. /\ local' = [local EXCEPT
                !.received = @ + 1,
                !.user = CASE verb = "USER" -> Cut(arg, NameSize)
                           [] verb = "PASS" -> NameAfterPass(@)
                           [] OTHER -> @]
          /\ audit' = audit \o (IF verb = "PASS" THEN <<c, <<"AUTH_FAILURE", local.user, arg>>>>
                                ELSE <<c>>)
      BY <1>4 DEF Pop3Recv
    <2> HIDE DEF text
    <2>3. verb \in {"USER", "PASS"} => text # <<>> /\ Head(text) = verb /\ arg = Tail(text)
      <3>1. verb \in {"USER", "PASS"} => text # <<>> /\ Head(text) = verb BY DEF FirstByte, NUL
      <3> QED BY <2>1, <3>1, TailIsRest
    <2>4. c[1] = "COMMAND" /\ c[2] = text OBVIOUS
    <2>5. verb \notin {"USER", "PASS"} => text = <<>> \/ Head(text) \notin {"USER", "PASS"}
      BY DEF FirstByte
    <2> HIDE DEF c, arg, verb
    <2>6. /\ DOMAIN local' = {"received", "user"}
          /\ local'.user = CASE verb = "USER" -> Cut(arg, NameSize)
                             [] verb = "PASS" -> NameAfterPass(local.user)
                             [] OTHER -> local.user
      BY <1>1, <2>2
    <2>7. CASE verb = "PASS"
      <3>1. /\ audit' = Append(Append(audit, c), <<"AUTH_FAILURE", local.user, arg>>)
            /\ local'.user = <<>>
        BY <1>2, <2>2, <2>6, <2>7, ConcatAppends DEF NameAfterPass
      <3>2. NameSize \in Nat \ {0} BY DEF MailboxAssumption
      <3>3. text # <<>> /\ Head(text) = "PASS" /\ arg = Tail(text) BY <2>3, <2>7
      <3>4. HalvesPaired(Append(Append(audit, <<"COMMAND", text>>), <<"AUTH_FAILURE", local.user, Tail(text)>>), <<>>)
        BY <1>1, <3>2, <3>3, PairPairs
      <3> QED BY <2>6, <3>1, <3>3, <3>4 DEF c
    <2>8. CASE verb # "PASS"
      <3>1. audit' = Append(audit, c) BY <1>2, <2>2, <2>8, ConcatAppends
      <3>2. HalvesPaired(audit', IF IsHalf(c) THEN Cut(NameOfHalf(c), NameSize) ELSE local.user)
        BY <1>1, <2>4, <3>1, OneEventPairs
      <3>3. CASE verb = "USER"
        <4>1. IsHalf(c) /\ NameOfHalf(c) = arg BY <2>3, <2>4, <3>3 DEF IsHalf, NameOfHalf
        <4> QED BY <2>6, <3>2, <3>3, <4>1
      <3>4. CASE verb # "USER"
        <4>1. ~IsHalf(c) BY <2>4, <2>5, <2>8, <3>4 DEF IsHalf
        <4> QED BY <2>6, <2>8, <3>2, <3>4, <4>1
      <3> QED BY <3>3, <3>4
    <2> QED BY <2>7, <2>8
  <1>5. CASE PeerGone({"pop3"}) BY <1>1, <1>5 DEF PeerGone
  <1>6. CASE EndSession
    <2> DEFINE e == <<"DISCONNECT">>
    <2>1. audit' = Append(audit, e) /\ local' = local BY <1>6 DEF EndSession
    <2>2. e[1] = "DISCONNECT" OBVIOUS
    <2> HIDE DEF e
    <2>3. ~IsHalf(e) /\ e[1] # "AUTH_FAILURE" BY <2>2 DEF IsHalf
    <2>4. HalvesPaired(Append(audit, e), local.user) BY <1>1, <2>3, OneEventPairs
    <2> QED BY <1>1, <2>1, <2>4
  <1>7. CASE UNCHANGED <<local, audit>> BY <1>1, <1>7
  <1> QED BY <1>4, <1>5, <1>6, <1>7 DEF Pop3Next

Pop3IInv == service = "pop3" => Pop3Tells

(* Pop3IInv is an invariant. *)
LEMMA Pop3Invariance == Spec => []Pop3IInv
  <1> USE MailboxAssumption
  <1>1. Init => Pop3IInv BY Pop3TellsInit DEF Init, Pop3IInv
  <1>2. Pop3IInv /\ [Next]_session => Pop3IInv'
    <2> SUFFICES ASSUME Pop3IInv, [Next]_session PROVE Pop3IInv'
      OBVIOUS
    <2>1. CASE UNCHANGED session
      <3>1. UNCHANGED <<service, local, audit>> BY <2>1 DEF session
      <3> QED BY <3>1, Pop3TellsStep DEF Pop3IInv
    <2>2. CASE ServiceStep /\ UNCHANGED service
      <3> SUFFICES ASSUME service = "pop3" PROVE Pop3Tells'
        BY <2>2 DEF Pop3IInv
      <3>1. Pop3Next BY <2>2 DEF ServiceStep
      <3>2. Pop3Tells BY DEF Pop3IInv
      <3> QED BY <3>1, <3>2, Pop3TellsStep
    <2> QED BY <2>1, <2>2 DEF Next, Ended
  <1> QED BY <1>1, <1>2, PTL DEF Spec

(* Pop3PairsHalves: however segments with USER, PASS and other commands    *)
(* follow one another, run_pop3_service records the password of a segment  *)
(* with the name of the last segment with USER, if no segment with PASS    *)
(* came after that, and with none otherwise.                               *)
THEOREM Pop3Pairs == Spec => []Pop3PairsHalves
  <1>1. Pop3IInv => Pop3PairsHalves
    <2> SUFFICES ASSUME Pop3IInv, NEW i \in DOMAIN audit, service = "pop3",
                        audit[i][1] = "AUTH_FAILURE"
                 PROVE  LET last == LastCommand(SubSeq(audit, 1, i - 2), {"USER", "PASS"})
                            name == IF last # 0 /\ Head(audit[last][2]) = "USER"
                                    THEN Tail(audit[last][2]) ELSE <<>>
                        IN  /\ audit[i - 1][1] = "COMMAND" /\ Head(audit[i - 1][2]) = "PASS"
                            /\ audit[i][2] = SubSeq(name, 1, Min({Len(name), NameSize - 1}))
                            /\ audit[i][3] = Tail(audit[i - 1][2])
      BY DEF Pop3PairsHalves
    <2>1. HalvesPaired(audit, local.user) BY DEF Pop3IInv, Pop3Tells
    <2>2. IsSeq(audit) BY <2>1 DEF HalvesPaired
    <2>3. DOMAIN audit = 1 .. Len(audit) /\ Len(audit) \in Nat BY <2>2, SeqShape
    <2>4. Paired(audit, i) /\ i \in 1 .. Len(audit) BY <2>1, <2>3 DEF HalvesPaired
    <2>5. i > 2 BY <2>4 DEF Paired
    <2> DEFINE t == SubSeq(audit, 1, i - 2)
    <2>6. i - 2 \in Int /\ 1 <= i - 2 /\ 1 \in Int /\ (i - 2) - 1 + 1 = i - 2 BY <2>3, <2>4, <2>5
    <2>7. Len(t) = i - 2 /\ \A j \in 1 .. i - 2 : t[j] = audit[1 + j - 1] BY <2>6, SubSeqShape
    <2>8. \A j \in 1 .. i - 2 : 1 + j - 1 = j BY <2>6
    <2> HIDE DEF t
    <2>9. {j \in 1 .. Len(t) : IsHalf(t[j])} = HalvesTo(audit, i - 2) BY <2>7, <2>8 DEF HalvesTo
    <2>10. LastCommand(t, {"USER", "PASS"}) = LastOf(HalvesTo(audit, i - 2))
      BY <2>9 DEF LastCommand, SelectLastInSeq, LastOf, IsHalf
    <2> QED BY <2>4, <2>10 DEF Paired, GivenName, NameOfHalf, Cut, t
  <1> QED BY <1>1, Pop3Invariance, PTL
----------------------------------------------------------------------------
(***************************************************************************)
(* IMAP: imap_parse_login_args finds the two words that the peer has       *)
(* written, in quotes or not.                                              *)
(***************************************************************************)
LEMMA SameSeq ==
  ASSUME NEW s, IsSeq(s), NEW t, IsSeq(t), Len(s) = Len(t), \A i \in 1 .. Len(s) : s[i] = t[i]
  PROVE  s = t
  <1>1. PICK S : s \in Seq(S) BY DEF IsSeq
  <1>2. PICK T : t \in Seq(T) BY DEF IsSeq
  <1> DEFINE U == S \cup T
  <1>3. s \in Seq(U) /\ t \in Seq(U) BY <1>1, <1>2
  <1> HIDE DEF U
  <1> QED BY <1>3, SeqEqual

(* What is where in a tail. *)
LEMMA TailShape ==
  ASSUME NEW s, IsSeq(s), s # <<>>
  PROVE  /\ IsSeq(Tail(s)) /\ Len(s) \in Nat \ {0} /\ Len(Tail(s)) = Len(s) - 1
         /\ \A i \in 1 .. Len(s) - 1 : Tail(s)[i] = s[i + 1]
  <1>1. PICK S : s \in Seq(S) BY DEF IsSeq
  <1>2. Tail(s) \in Seq(S) BY <1>1
  <1> QED BY <1>1, <1>2 DEF IsSeq

(* Three parts, the one in the middle a single byte. *)
LEMMA JoinedShape ==
  ASSUME NEW s, IsSeq(s), NEW t, IsSeq(t), NEW b, NEW j, j = Append(s, b) \o t
  PROVE  /\ IsSeq(j) /\ Len(j) = Len(s) + 1 + Len(t) /\ Len(s) \in Nat /\ Len(t) \in Nat
         /\ \A i \in 1 .. Len(s) : j[i] = s[i]
         /\ j[Len(s) + 1] = b
         /\ \A i \in 1 .. Len(t) : j[Len(s) + 1 + i] = t[i]
  <1> DEFINE h == Append(s, b)
  <1>2. Len(s) \in Nat /\ Len(t) \in Nat BY SeqShape
  <1>4. /\ IsSeq(h) /\ Len(h) = Len(s) + 1
        /\ \A i \in 1 .. Len(s) : h[i] = s[i]
        /\ h[Len(s) + 1] = b
    BY AppendShape
  <1>5. j = h \o t OBVIOUS
  <1> HIDE DEF h
  <1>6. /\ IsSeq(h \o t) /\ Len(h \o t) = Len(h) + Len(t)
        /\ \A i \in 1 .. Len(h) : (h \o t)[i] = h[i]
        /\ \A i \in 1 .. Len(t) : (h \o t)[Len(h) + i] = t[i]
    <2>1. IsSeq(h) BY <1>4
    <2> QED BY <2>1, ConcatShape
  <1>7. Len(s) + 1 \in 1 .. Len(h) /\ \A i \in 1 .. Len(s) : i \in 1 .. Len(h) BY <1>2, <1>4
  <1> QED BY <1>2, <1>4, <1>5, <1>6, <1>7

(* FirstOf is the first place of a byte. *)
LEMMA FirstOfIs ==
  ASSUME NEW s, IsSeq(s), NEW b, NEW k \in 1 .. Len(s), s[k] = b, \A i \in 1 .. k - 1 : s[i] # b
  PROVE  FirstOf(b, s) = k
  <1> DEFINE I == {i \in 1 .. Len(s) : s[i] = b}
  <1>1. Len(s) \in Nat BY SeqShape
  <1>2. k \in I OBVIOUS
  <1>3. FirstOf(b, s) = Min(I) BY <1>2 DEF FirstOf, SelectInSeq
  <1>4. \A i \in I : i \in 1 .. Len(s) /\ s[i] = b OBVIOUS
  <1> HIDE DEF I
  <1>5. I \subseteq Nat /\ I # {} BY <1>2, <1>4
  <1>6. Min(I) \in I /\ \A y \in I : Min(I) <= y BY <1>5, MinOfNat
  <1>7. Min(I) <= k /\ Min(I) \in 1 .. Len(s) /\ s[Min(I)] = b BY <1>2, <1>4, <1>6
  <1>8. ~(Min(I) \in 1 .. k - 1) BY <1>7
  <1> QED BY <1>1, <1>3, <1>7, <1>8

(* The end of a sequence, from a place on. *)
LEMMA FromShape ==
  ASSUME NEW s, IsSeq(s), NEW t, IsSeq(t), NEW k \in Nat \ {0}, Len(s) = k - 1 + Len(t),
         \A i \in 1 .. Len(t) : s[k - 1 + i] = t[i]
  PROVE  From(s, k) = t
  <1>1. Len(s) \in Nat /\ Len(t) \in Nat BY SeqShape
  <1>2. k \in Int /\ Len(s) \in Int /\ Len(s) - k + 1 = Len(t) BY <1>1
  <1> DEFINE f == SubSeq(s, k, Len(s))
  <1>3. /\ IsSeq(f) /\ Len(f) = IF k <= Len(s) THEN Len(s) - k + 1 ELSE 0
        /\ \A i \in 1 .. Len(s) - k + 1 : f[i] = s[k + i - 1]
    BY <1>2, SubSeqShape
  <1> HIDE DEF f
  <1>4. Len(f) = Len(t) BY <1>1, <1>2, <1>3
  <1>5. ASSUME NEW i \in 1 .. Len(f) PROVE f[i] = t[i]
    <2>1. i \in 1 .. Len(t) /\ k + i - 1 = k - 1 + i BY <1>1, <1>4
    <2>2. i \in 1 .. Len(s) - k + 1 BY <1>2, <2>1
    <2>3. f[i] = s[k + i - 1] BY <1>3, <2>2
    <2>4. s[k - 1 + i] = t[i] BY <2>1
    <2> QED BY <2>1, <2>3, <2>4
  <1>6. f = t BY <1>3, <1>4, <1>5, SameSeq
  <1> QED BY <1>6 DEF From, f

(* And its middle. *)
LEMMA MiddleIs ==
  ASSUME NEW s, NEW t, IsSeq(t), NEW k \in Nat \ {0}, \A i \in 1 .. Len(t) : s[k - 1 + i] = t[i]
  PROVE  SubSeq(s, k, k - 1 + Len(t)) = t
  <1>1. Len(t) \in Nat BY SeqShape
  <1> DEFINE n == k - 1 + Len(t)
  <1>2. k \in Int /\ n \in Int /\ n - k + 1 = Len(t) BY <1>1
  <1> HIDE DEF n
  <1> DEFINE f == SubSeq(s, k, n)
  <1>3. /\ IsSeq(f) /\ Len(f) = IF k <= n THEN n - k + 1 ELSE 0
        /\ \A i \in 1 .. n - k + 1 : f[i] = s[k + i - 1]
    BY <1>2, SubSeqShape
  <1> HIDE DEF f
  <1>4. Len(f) = Len(t)
    <2>1. k <= n <=> Len(t) # 0 BY <1>1 DEF n
    <2> QED BY <1>1, <1>2, <1>3, <2>1
  <1>5. ASSUME NEW i \in 1 .. Len(f) PROVE f[i] = t[i]
    <2>1. i \in 1 .. Len(t) /\ k + i - 1 = k - 1 + i BY <1>1, <1>4
    <2>2. i \in 1 .. n - k + 1 BY <1>2, <2>1
    <2>3. f[i] = s[k + i - 1] BY <1>3, <2>2
    <2>4. s[k - 1 + i] = t[i] BY <2>1
    <2> QED BY <2>1, <2>3, <2>4
  <1>6. f = t BY <1>3, <1>4, <1>5, SameSeq
  <1> QED BY <1>6 DEF f, n

(* A word in quotes at the beginning. *)
LEMMA QuotedIs ==
  ASSUME NEW s, IsSeq(s), NEW w, IsSeq(w), Len(s) >= Len(w) + 2,
         s[1] = QUOTE, s[Len(w) + 2] = QUOTE,
         \A i \in 1 .. Len(w) : s[i + 1] = w[i] /\ w[i] # QUOTE
  PROVE  StartsQuoted(s) /\ QuotedEnds(s) /\ Quoted(s) = w
  <1> DEFINE n == Len(w)
  <1>1. n \in Nat /\ Len(s) \in Nat BY SeqShape
  <1>2. s # <<>> BY <1>1, EmptyIsSeq
  <1>3. Head(s) = s[1]
    <2>1. PICK S : s \in Seq(S) BY DEF IsSeq
    <2> QED BY <1>2, <2>1
  <1>4. /\ IsSeq(Tail(s)) /\ Len(Tail(s)) = Len(s) - 1
        /\ \A i \in 1 .. Len(s) - 1 : Tail(s)[i] = s[i + 1]
    BY <1>2, TailShape
  <1>5. FirstOf(QUOTE, Tail(s)) = n + 1
    <2> DEFINE t == Tail(s)
    <2> HIDE DEF t
    <2>1. n + 1 \in 1 .. Len(s) - 1 /\ n + 1 + 1 = n + 2 BY <1>1
    <2>2. t[n + 1] = QUOTE BY <1>4, <2>1 DEF t
    <2>3. ASSUME NEW i \in 1 .. n + 1 - 1 PROVE t[i] # QUOTE
      <3>1. i \in 1 .. n /\ i \in 1 .. Len(s) - 1 BY <1>1, <2>1
      <3>2. t[i] = s[i + 1] BY <1>4, <3>1 DEF t
      <3> QED BY <3>1, <3>2
    <2>4. IsSeq(t) /\ n + 1 \in 1 .. Len(t) BY <1>4, <2>1 DEF t
    <2>5. FirstOf(QUOTE, t) = n + 1 BY <2>2, <2>3, <2>4, FirstOfIs
    <2> QED BY <2>5 DEF t
  <1>6. n + 1 # 0 BY <1>1
  <1>7. SubSeq(s, 2, n + 1) = w
    <2>1. 2 \in Nat \ {0} /\ 2 - 1 + n = n + 1 BY <1>1
    <2>2. \A i \in 1 .. n : 2 - 1 + i = i + 1 BY <1>1
    <2>3. \A i \in 1 .. n : s[2 - 1 + i] = w[i] BY <2>2
    <2>4. SubSeq(s, 2, 2 - 1 + n) = w BY <2>1, <2>3, MiddleIs
    <2> QED BY <2>1, <2>4
  <1> QED BY <1>2, <1>3, <1>5, <1>6, <1>7 DEF StartsQuoted, QuotedEnds, Quoted

(* What a peer writes for a word. *)
InQuotes(w) == <<QUOTE>> \o w \o <<QUOTE>>

(* What is where in a word in quotes. *)
LEMMA InQuotesShape ==
  ASSUME NEW w, IsSeq(w)
  PROVE  /\ IsSeq(InQuotes(w)) /\ Len(InQuotes(w)) = Len(w) + 2 /\ Len(w) \in Nat
         /\ InQuotes(w)[1] = QUOTE /\ InQuotes(w)[Len(w) + 2] = QUOTE
         /\ \A i \in 1 .. Len(w) : InQuotes(w)[i + 1] = w[i]
  <1> DEFINE o == <<QUOTE>>
  <1>1. IsSeq(o) /\ Len(o) = 1 /\ o[1] = QUOTE BY OneSeq
  <1>2. Len(w) \in Nat BY SeqShape
  <1>3. InQuotes(w) = (o \o w) \o <<QUOTE>> BY DEF InQuotes
  <1> HIDE DEF o
  <1> DEFINE h == o \o w
  <1>4. /\ IsSeq(h) /\ Len(h) = Len(o) + Len(w)
        /\ \A i \in 1 .. Len(o) : h[i] = o[i]
        /\ \A i \in 1 .. Len(w) : h[Len(o) + i] = w[i]
    <2>1. IsSeq(o) BY <1>1
    <2> QED BY <2>1, ConcatShape
  <1>5. InQuotes(w) = Append(h, QUOTE) BY <1>3, <1>4, ConcatAppends
  <1> HIDE DEF h
  <1> DEFINE q == Append(h, QUOTE)
  <1>6. /\ IsSeq(q) /\ Len(q) = Len(h) + 1 /\ q[Len(h) + 1] = QUOTE
        /\ \A i \in 1 .. Len(h) : q[i] = h[i]
    BY <1>4, AppendShape
  <1> HIDE DEF q
  <1>7. Len(h) = Len(w) + 1 /\ Len(h) + 1 = Len(w) + 2 /\ 1 \in 1 .. Len(o) /\ 1 \in 1 .. Len(h)
    BY <1>1, <1>2, <1>4
  <1>8. q[1] = QUOTE BY <1>1, <1>4, <1>6, <1>7
  <1>9. ASSUME NEW i \in 1 .. Len(w) PROVE q[i + 1] = w[i]
    <2>1. i + 1 \in 1 .. Len(h) /\ Len(o) + i = i + 1 BY <1>1, <1>2, <1>7
    <2>2. q[i + 1] = h[i + 1] BY <1>6, <2>1
    <2>3. h[Len(o) + i] = w[i] BY <1>4
    <2> QED BY <2>1, <2>2, <2>3
  <1>10. q = InQuotes(w) BY <1>5 DEF q
  <1> QED BY <1>2, <1>6, <1>7, <1>8, <1>9, <1>10

(* The two ways to write a word. *)
LEMMA WrittenIs ==
  ASSUME NEW w, IsSeq(w), NEW u \in Written(w)
  PROVE  \/ u = InQuotes(w)
         \/ u = w /\ w # <<>> /\ \A i \in 1 .. Len(w) : w[i] # SP
  <1>1. DOMAIN w = 1 .. Len(w) BY SeqShape
  <1>2. Written(w) = {InQuotes(w)} \cup {x \in {w} : x # <<>> /\ SP \notin Range(x)}
    BY DEF Written, InQuotes
  <1>3. SP \notin Range(w) => \A i \in DOMAIN w : w[i] # SP BY DEF Range
  <1> QED BY <1>1, <1>2, <1>3

(* A text that does not begin with a quote. *)
LEMMA NotQuoted ==
  ASSUME NEW s, IsSeq(s), s # <<>> => s[1] # QUOTE
  PROVE  ~StartsQuoted(s)
  <1>1. PICK S : s \in Seq(S) BY DEF IsSeq
  <1>2. s # <<>> => Head(s) = s[1] BY <1>1
  <1> QED BY <1>2 DEF StartsQuoted

(* A sequence is empty just if it has no length. *)
LEMMA NotEmpty ==
  ASSUME NEW s, IsSeq(s)
  PROVE  Len(s) \in Nat /\ (s # <<>> <=> Len(s) # 0) /\ (s # <<>> => 1 \in 1 .. Len(s))
  <1>1. PICK S : s \in Seq(S) BY DEF IsSeq
  <1>2. Len(s) \in Nat /\ (s # <<>> <=> Len(s) # 0) BY <1>1
  <1> QED BY <1>2

(* The password parsed is the word that was written, cut to its buffer. *)
LEMMA PasswordIs ==
  ASSUME NEW w, IsSeq(w), \A i \in 1 .. Len(w) : w[i] # QUOTE, NEW p \in Written(w)
  PROVE  /\ PasswordOf(p) = Cut(w, NameSize)
         /\ IsSeq(p) /\ p # <<>> /\ p[1] # SP
  <1>1. CASE p = InQuotes(w)
    <2>1. /\ IsSeq(p) /\ Len(p) = Len(w) + 2 /\ Len(w) \in Nat
          /\ p[1] = QUOTE /\ p[Len(w) + 2] = QUOTE
          /\ \A i \in 1 .. Len(w) : p[i + 1] = w[i]
      BY <1>1, InQuotesShape
    <2>2. Len(p) >= Len(w) + 2 BY <2>1
    <2>3. StartsQuoted(p) /\ Quoted(p) = w BY <2>1, <2>2, QuotedIs
    <2>4. p # <<>> BY <2>3 DEF StartsQuoted
    <2>5. QUOTE # SP BY DEF QUOTE, SP
    <2> QED BY <2>1, <2>3, <2>4, <2>5 DEF PasswordOf
  <1>2. CASE p = w /\ w # <<>> /\ \A i \in 1 .. Len(w) : w[i] # SP
    <2>1. 1 \in 1 .. Len(w) BY <1>2, NotEmpty
    <2>2. w[1] # QUOTE /\ w[1] # SP BY <1>2, <2>1
    <2>3. ~StartsQuoted(w) BY <2>2, NotQuoted
    <2> QED BY <1>2, <2>2, <2>3 DEF PasswordOf
  <1> QED BY <1>1, <1>2, WrittenIs

(* Skipping one blank before an argument. *)
LEMMA NoBlanksIs ==
  ASSUME NEW s, IsSeq(s), NEW p, IsSeq(p), p # <<>>, p[1] # SP,
         Len(s) = 1 + Len(p), s[1] = SP, \A i \in 1 .. Len(p) : s[1 + i] = p[i]
  PROVE  NoBlanks(s) = p
  <1>1. Len(p) \in Nat /\ 1 \in 1 .. Len(p) /\ Len(s) \in Nat BY NotEmpty
  <1> DEFINE t == Append(s, NUL)
  <1>2. /\ IsSeq(t) /\ Len(t) = Len(s) + 1
        /\ \A i \in 1 .. Len(s) : t[i] = s[i]
    BY AppendShape
  <1> HIDE DEF t
  <1>3. 1 \in 1 .. Len(s) /\ 2 \in 1 .. Len(s) /\ 1 + 1 = 2 /\ 2 \in 1 .. Len(t) BY <1>1, <1>2
  <1>4. t[1] = SP /\ t[2] # SP BY <1>1, <1>2, <1>3
  <1> DEFINE I == {i \in 1 .. Len(t) : t[i] # SP}
  <1>5. 2 \in I /\ 1 \notin I /\ I \subseteq Nat BY <1>3, <1>4
  <1>6. SelectInSeq(t, LAMBDA x : x # SP) = Min(I) BY <1>5 DEF SelectInSeq
  <1>7. \A i \in I : i # 0 OBVIOUS
  <1> HIDE DEF I
  <1>8. Min(I) \in I /\ \A y \in I : Min(I) <= y BY <1>5, MinOfNat
  <1>9. Min(I) \in Nat /\ Min(I) <= 2 /\ Min(I) # 1 /\ Min(I) # 0 BY <1>5, <1>7, <1>8
  <1>10. Min(I) = 2 BY <1>9
  <1>11. From(s, 2) = p
    <2>1. 2 \in Nat \ {0} /\ Len(s) = 2 - 1 + Len(p) BY <1>1
    <2>2. \A i \in 1 .. Len(p) : s[2 - 1 + i] = p[i] OBVIOUS
    <2> QED BY <2>1, <2>2, FromShape
  <1> QED BY <1>6, <1>10, <1>11 DEF NoBlanks, t

(* What imap_parse_login_args makes of a name and a password. *)
LEMMA LoginArgsMeant ==
  ASSUME NEW w, IsSeq(w), \A i \in 1 .. Len(w) : w[i] # QUOTE, NEW u \in Written(w),
         NEW x, IsSeq(x), \A i \in 1 .. Len(x) : x[i] # QUOTE, NEW p \in Written(x)
  PROVE  LoginArgs(u \o <<SP>> \o p) = <<Cut(w, NameSize), Cut(x, NameSize)>>
  <1> DEFINE args == u \o <<SP>> \o p
  <1> DEFINE n == Len(u)
  <1>1. PasswordOf(p) = Cut(x, NameSize) /\ IsSeq(p) /\ p # <<>> /\ p[1] # SP BY PasswordIs
  <1>2. IsSeq(u) BY PasswordIs
  <1>3. /\ IsSeq(args) /\ Len(args) = n + 1 + Len(p) /\ n \in Nat /\ Len(p) \in Nat
        /\ \A i \in 1 .. n : args[i] = u[i]
        /\ args[n + 1] = SP
        /\ \A i \in 1 .. Len(p) : args[n + 1 + i] = p[i]
    <2>1. IsSeq(p) BY <1>1
    <2>2. u \o <<SP>> = Append(u, SP) BY <1>2, ConcatAppends
    <2>3. args = Append(u, SP) \o p BY <2>2
    <2> HIDE DEF args
    <2>4. /\ IsSeq(args) /\ Len(args) = Len(u) + 1 + Len(p) /\ Len(u) \in Nat /\ Len(p) \in Nat
          /\ \A i \in 1 .. Len(u) : args[i] = u[i]
          /\ args[Len(u) + 1] = SP
          /\ \A i \in 1 .. Len(p) : args[Len(u) + 1 + i] = p[i]
      <3> DEFINE b == SP
      <3>1. args = Append(u, b) \o p BY <2>3
      <3> HIDE DEF n, b
      <3>2. args[Len(u) + 1] = b BY <1>2, <2>1, <3>1, JoinedShape
      <3>3. \A i \in 1 .. Len(p) : args[Len(u) + 1 + i] = p[i] BY <1>2, <2>1, <3>1, JoinedShape
      <3>4. IsSeq(args) BY <1>2, <2>1, <3>1, JoinedShape
      <3>5. Len(args) = Len(u) + 1 + Len(p) BY <1>2, <2>1, <3>1, JoinedShape
      <3>6. Len(u) \in Nat /\ Len(p) \in Nat BY <1>2, <2>1, SeqShape
      <3>7. \A i \in 1 .. Len(u) : args[i] = u[i] BY <1>2, <2>1, <3>1, JoinedShape
      <3> QED BY <3>2, <3>3, <3>4, <3>5, <3>6, <3>7 DEF b
    <2> QED BY <2>4
  <1> HIDE DEF args
  <1>4. CASE u = InQuotes(w)
    <2>1. /\ n = Len(w) + 2 /\ Len(w) \in Nat
          /\ u[1] = QUOTE /\ u[Len(w) + 2] = QUOTE
          /\ \A i \in 1 .. Len(w) : u[i + 1] = w[i]
      BY <1>4, InQuotesShape
    <2>2. /\ Len(args) >= Len(w) + 2 /\ 1 \in 1 .. n /\ Len(w) + 2 \in 1 .. n
          /\ \A i \in 1 .. Len(w) : i + 1 \in 1 .. n
      BY <1>3, <2>1
    <2>3. args[1] = QUOTE /\ args[Len(w) + 2] = QUOTE BY <1>3, <2>1, <2>2
    <2>4. \A i \in 1 .. Len(w) : args[i + 1] = w[i] /\ w[i] # QUOTE BY <1>3, <2>1, <2>2
    <2>5. StartsQuoted(args) /\ QuotedEnds(args) /\ Quoted(args) = w
      BY <1>3, <2>2, <2>3, <2>4, QuotedIs
    <2> DEFINE o == <<SP>>
    <2>6. IsSeq(o) /\ Len(o) = 1 /\ o[1] = SP BY OneSeq
    <2> HIDE DEF o
    <2> DEFINE s == o \o p
    <2>7. /\ IsSeq(s) /\ Len(s) = Len(o) + Len(p)
          /\ \A i \in 1 .. Len(o) : s[i] = o[i]
          /\ \A i \in 1 .. Len(p) : s[Len(o) + i] = p[i]
      <3>1. IsSeq(o) /\ IsSeq(p) BY <1>1, <2>6
      <3> QED BY <3>1, ConcatShape
    <2> HIDE DEF s
    <2>8. Len(s) = 1 + Len(p) /\ s[1] = SP /\ \A i \in 1 .. Len(p) : s[1 + i] = p[i]
      <3>1. 1 \in 1 .. Len(o) BY <2>6
      <3> QED BY <2>6, <2>7, <3>1
    <2>9. NoBlanks(s) = p BY <1>1, <2>7, <2>8, NoBlanksIs
    <2>10. From(args, Len(w) + 3) = s
      <3> DEFINE k == Len(w) + 3
      <3>1. k \in Nat \ {0} /\ k - 1 = n /\ Len(args) = k - 1 + Len(s) BY <1>3, <2>1, <2>8
      <3>2. ASSUME NEW i \in 1 .. Len(s) PROVE args[k - 1 + i] = s[i]
        <4>1. CASE i = 1 BY <1>3, <2>8, <3>1, <4>1
        <4>2. CASE i # 1
          <5>1. i - 1 \in 1 .. Len(p) /\ n + 1 + (i - 1) = n + i /\ 1 + (i - 1) = i
            BY <1>3, <2>8, <4>2
          <5>2. args[n + 1 + (i - 1)] = p[i - 1] /\ s[1 + (i - 1)] = p[i - 1] BY <1>3, <2>8, <5>1
          <5> QED BY <3>1, <5>1, <5>2
        <4> QED BY <4>1, <4>2
      <3> HIDE DEF k
      <3>3. IsSeq(args) /\ IsSeq(s) /\ k \in Nat \ {0} /\ Len(args) = k - 1 + Len(s) BY <1>3, <2>7, <3>1
      <3>4. From(args, k) = s BY <3>2, <3>3, FromShape
      <3> QED BY <3>4 DEF k
    <2>11. LoginArgs(args) = <<Cut(w, NameSize), PasswordOf(p)>>
      BY <2>5, <2>9, <2>10 DEF LoginArgs
    <2> QED BY <1>1, <2>11 DEF args
  <1>5. CASE u = w /\ w # <<>> /\ \A i \in 1 .. Len(w) : w[i] # SP
    <2>1. 1 \in 1 .. n BY <1>5, NotEmpty
    <2>2. args[1] # QUOTE BY <1>3, <1>5, <2>1
    <2>3. ~StartsQuoted(args) BY <1>3, <2>2, NotQuoted
    <2>4. FirstOf(SP, args) = n + 1
      <3>1. n + 1 \in 1 .. Len(args) /\ n + 1 - 1 = n BY <1>3
      <3>2. \A i \in 1 .. n + 1 - 1 : args[i] # SP BY <1>3, <1>5, <3>1
      <3> QED BY <1>3, <3>1, <3>2, FirstOfIs
    <2>5. SubSeq(args, 1, n) = w
      <3>1. 1 \in Nat \ {0} /\ 1 - 1 + n = n /\ \A i \in 1 .. n : 1 - 1 + i = i BY <1>3
      <3>2. \A i \in 1 .. Len(w) : args[1 - 1 + i] = w[i] BY <1>3, <1>5, <3>1
      <3>3. SubSeq(args, 1, 1 - 1 + Len(w)) = w BY <3>1, <3>2, MiddleIs
      <3> QED BY <1>5, <3>1, <3>3
    <2>6. From(args, n + 1 + 1) = p
      <3> DEFINE k == n + 1 + 1
      <3>1. k \in Nat \ {0} /\ k - 1 = n + 1 /\ Len(args) = k - 1 + Len(p) BY <1>3
      <3>2. \A i \in 1 .. Len(p) : args[k - 1 + i] = p[i] BY <1>3, <3>1
      <3> HIDE DEF k
      <3>3. IsSeq(args) /\ IsSeq(p) /\ k \in Nat \ {0} /\ Len(args) = k - 1 + Len(p) BY <1>1, <1>3, <3>1
      <3>4. From(args, k) = p BY <3>2, <3>3, FromShape
      <3> QED BY <3>4 DEF k
    <2>7. n + 1 # 0 /\ n + 1 - 1 = n BY <1>3
    <2> DEFINE blank == FirstOf(SP, args)
    <2>8. blank # 0 /\ SubSeq(args, 1, blank - 1) = w /\ From(args, blank + 1) = p
      BY <2>4, <2>5, <2>6, <2>7
    <2>9. LoginArgs(args) = IF blank # 0 THEN <<Cut(SubSeq(args, 1, blank - 1), NameSize),
                                                PasswordOf(From(args, blank + 1))>>
                            ELSE <<<<>>, <<>>>>
      BY <2>3 DEF LoginArgs
    <2> HIDE DEF blank
    <2>10. LoginArgs(args) = <<Cut(w, NameSize), PasswordOf(p)>> BY <2>8, <2>9
    <2> QED BY <1>1, <2>10 DEF args
  <1> QED BY <1>4, <1>5, WrittenIs

(* The trail: a LOGIN that is recorded is what imap_parse_login_args made  *)
(* of the command before it.                                               *)
ParsedBefore(a, i) ==
  a[i][1] = "AUTH_FAILURE" => i > 1 /\ Tail(a[i]) = LoginArgs(Tail(CommandOf(a[i - 1][2])))
ImapTold(a) == IsSeq(a) /\ Len(a) >= 1 /\ \A i \in 1 .. Len(a) : ParsedBefore(a, i)

(* A trail stays ImapTold after a failure that names what LOGIN was parsed *)
(* to.                                                                     *)
LEMMA ImapToldNext ==
  ASSUME NEW a, ImapTold(a), NEW e,
         e[1] = "AUTH_FAILURE" => Tail(e) = LoginArgs(Tail(CommandOf(a[Len(a)][2])))
  PROVE  ImapTold(Append(a, e))
  <1> DEFINE b == Append(a, e)
  <1> DEFINE n == Len(a)
  <1>1. IsSeq(a) /\ n \in Nat /\ n >= 1 BY SeqShape DEF ImapTold
  <1>2. IsSeq(b) /\ Len(b) = n + 1 /\ b[n + 1] = e /\ \A i \in 1 .. n : b[i] = a[i]
    BY <1>1, AppendShape
  <1>3. \A i \in 1 .. n : ParsedBefore(a, i) BY DEF ImapTold
  <1>4. e[1] = "AUTH_FAILURE" => Tail(e) = LoginArgs(Tail(CommandOf(a[n][2]))) OBVIOUS
  <1> HIDE DEF b, n
  <1>5. ASSUME NEW i \in 1 .. n PROVE ParsedBefore(b, i)
    <2>1. ParsedBefore(a, i) /\ b[i] = a[i] BY <1>2, <1>3
    <2>2. i > 1 => i - 1 \in 1 .. n BY <1>1
    <2>3. i > 1 => b[i - 1] = a[i - 1] BY <1>2, <2>2
    <2> QED BY <2>1, <2>3 DEF ParsedBefore
  <1>6. ParsedBefore(b, n + 1)
    <2>1. n + 1 > 1 /\ n + 1 - 1 = n /\ n \in 1 .. n BY <1>1
    <2>2. b[n] = a[n] BY <1>2, <2>1
    <2> QED BY <1>2, <1>4, <2>1, <2>2 DEF ParsedBefore
  <1>7. \A i \in 1 .. n + 1 : i \in 1 .. n \/ i = n + 1 BY <1>1
  <1>8. \A i \in 1 .. n + 1 : ParsedBefore(b, i) BY <1>5, <1>6, <1>7
  <1>9. n + 1 >= 1 BY <1>1
  <1>10. ImapTold(b) BY <1>2, <1>8, <1>9 DEF ImapTold
  <1> QED BY <1>10 DEF b

(* Each step of IMAP keeps ImapTold. *)
LEMMA ImapToldStep ==
  ASSUME ImapTold(audit), ImapNext \/ UNCHANGED audit
  PROVE  ImapTold(audit')
  <1>1. IsSeq(audit) BY DEF ImapTold
  <1>2. ASSUME NEW segment, ImapRecv(segment) PROVE ImapTold(audit')
    <2> DEFINE text == TextOf(segment)
    <2> DEFINE c == <<"COMMAND", text>>
    <2> DEFINE r == LoginArgs(Tail(CommandOf(text)))
    <2> DEFINE f == <<"AUTH_FAILURE">> \o r
    <2>1. audit' = audit \o <<c, f>> \/ audit' = audit \o <<c>> BY <1>2 DEF ImapRecv
    <2>2. c[1] = "COMMAND" /\ c[2] = text OBVIOUS
    <2>3. Tail(f) = r
      <3>1. \E u, v : r = <<u, v>> BY DEF LoginArgs
      <3>2. IsSeq(r) BY <3>1, TwoSeq
      <3> DEFINE o == <<"AUTH_FAILURE">>
      <3>3. IsSeq(o) /\ Len(o) = 1 BY OneSeq
      <3> HIDE DEF r, o
      <3>4. /\ IsSeq(o \o r) /\ Len(o \o r) = Len(o) + Len(r)
            /\ \A i \in 1 .. Len(r) : (o \o r)[Len(o) + i] = r[i]
        <4>1. IsSeq(o) BY <3>3
        <4> QED BY <3>2, <4>1, ConcatShape
      <3> DEFINE g == o \o r
      <3> HIDE DEF g
      <3>5. IsSeq(g) /\ Len(g) = 1 + Len(r) /\ \A i \in 1 .. Len(r) : g[1 + i] = r[i]
        BY <3>3, <3>4 DEF g
      <3>6. Len(r) \in Nat /\ Len(g) # 0 BY <3>2, <3>5, SeqShape
      <3>7. g # <<>> BY <3>5, <3>6, EmptyIsSeq
      <3>8. /\ IsSeq(Tail(g)) /\ Len(Tail(g)) = Len(g) - 1
            /\ \A i \in 1 .. Len(g) - 1 : Tail(g)[i] = g[i + 1]
        BY <3>5, <3>7, TailShape
      <3>9. Len(Tail(g)) = Len(r) /\ Len(g) - 1 = Len(r) /\ \A i \in 1 .. Len(r) : i + 1 = 1 + i
        BY <3>5, <3>6, <3>8
      <3>10. \A i \in 1 .. Len(Tail(g)) : Tail(g)[i] = r[i] BY <3>5, <3>8, <3>9
      <3>11. Tail(g) = r BY <3>2, <3>8, <3>9, <3>10, SameSeq
      <3> QED BY <3>11 DEF g, o
    <2> HIDE DEF c, f
    <2>4. ImapTold(Append(audit, c)) BY <2>2, ImapToldNext
    <2>5. audit' = Append(audit, c) \/ audit' = Append(Append(audit, c), f)
      BY <1>1, <2>1, ConcatAppends
    <2>6. ImapTold(Append(Append(audit, c), f))
      <3> DEFINE b == Append(audit, c)
      <3>1. Len(b) = Len(audit) + 1 /\ b[Len(audit) + 1] = c BY <1>1, AppendShape
      <3> HIDE DEF b
      <3>2. b[Len(b)] = c BY <3>1
      <3>3. Tail(f) = LoginArgs(Tail(CommandOf(b[Len(b)][2]))) BY <2>2, <2>3, <3>2
      <3>4. ImapTold(b) BY <2>4 DEF b
      <3>5. ImapTold(Append(b, f)) BY <3>3, <3>4, ImapToldNext
      <3> QED BY <3>5 DEF b
    <2> QED BY <2>4, <2>5, <2>6
  <1>3. CASE PeerGone({"imap"}) BY <1>3 DEF PeerGone
  <1>4. CASE EndSession
    <2> DEFINE e == <<"DISCONNECT">>
    <2>1. audit' = Append(audit, e) BY <1>4 DEF EndSession
    <2>2. e[1] # "AUTH_FAILURE" OBVIOUS
    <2> HIDE DEF e
    <2> QED BY <2>1, <2>2, ImapToldNext
  <1>5. CASE UNCHANGED audit BY <1>5
  <1> QED BY <1>2, <1>3, <1>4, <1>5 DEF ImapNext

ImapIInv == service = "imap" => ImapTold(audit)

(* ImapIInv is an invariant. *)
LEMMA ImapInvariance == Spec => []ImapIInv
  <1>1. Init => ImapIInv
    <2> SUFFICES ASSUME Init, service = "imap" PROVE ImapTold(audit)
      BY DEF ImapIInv
    <2>1. audit = <<<<"CONNECT">>>> BY DEF Init, ImapInit, Begins
    <2>2. IsSeq(audit) /\ Len(audit) = 1 /\ audit[1] = <<"CONNECT">> BY <2>1, OneSeq
    <2>3. audit[1][1] = "CONNECT" /\ \A i \in 1 .. 1 : i = 1 BY <2>2
    <2>4. \A i \in 1 .. 1 : ParsedBefore(audit, i) BY <2>3 DEF ParsedBefore
    <2> QED BY <2>2, <2>4 DEF ImapTold
  <1>2. ImapIInv /\ [Next]_session => ImapIInv'
    <2> SUFFICES ASSUME ImapIInv, [Next]_session, service' = "imap" PROVE ImapTold(audit')
      BY DEF ImapIInv, ImapTold, ParsedBefore
    <2>1. CASE UNCHANGED session
      <3>1. ImapTold(audit) /\ audit' = audit BY <2>1 DEF ImapIInv, session
      <3> QED BY <3>1
    <2>2. CASE ServiceStep /\ UNCHANGED service
      <3>1. ImapNext /\ ImapTold(audit) BY <2>2 DEF ServiceStep, ImapIInv
      <3> QED BY <3>1, ImapToldStep
    <2> QED BY <2>1, <2>2 DEF Next, Ended
  <1> QED BY <1>1, <1>2, PTL DEF Spec

(* ImapLoginAsMeant: of any name and any password, with or without quotes, *)
(* imap_parse_login_args gives the two to the trail.                       *)
THEOREM ImapParsesLogin == Spec => []ImapLoginAsMeant
  <1>1. ImapIInv => ImapLoginAsMeant
    <2> SUFFICES ASSUME ImapIInv, NEW i \in DOMAIN audit, service = "imap",
                        audit[i][1] = "AUTH_FAILURE",
                        NEW user \in ImapWords, NEW password \in ImapWords,
                        NEW u \in Written(user), NEW p \in Written(password),
                        CommandOf(audit[i - 1][2]) = <<"LOGIN">> \o u \o <<SP>> \o p
                 PROVE  Tail(audit[i]) = <<Cut(user, NameSize), Cut(password, NameSize)>>
      BY DEF ImapLoginAsMeant
    <2>1. IsSeq(audit) /\ \A j \in 1 .. Len(audit) : ParsedBefore(audit, j) BY DEF ImapIInv, ImapTold
    <2>2. DOMAIN audit = 1 .. Len(audit) BY <2>1, SeqShape
    <2>3. Tail(audit[i]) = LoginArgs(Tail(CommandOf(audit[i - 1][2]))) BY <2>1, <2>2 DEF ParsedBefore
    <2>4. ASSUME NEW w \in ImapWords PROVE IsSeq(w) /\ \A j \in 1 .. Len(w) : w[j] # QUOTE
      <3>1. w \in Seq(STRING) /\ QUOTE \notin Range(w) BY MailboxAssumption DEF MailboxAssumption, QUOTE
      <3>2. IsSeq(w) BY <3>1 DEF IsSeq
      <3>3. DOMAIN w = 1 .. Len(w) BY <3>2, SeqShape
      <3> QED BY <3>1, <3>2, <3>3 DEF Range
    <2>5. IsSeq(u) /\ IsSeq(p) BY <2>4, PasswordIs
    <2>6. LoginArgs(u \o <<SP>> \o p) = <<Cut(user, NameSize), Cut(password, NameSize)>>
      BY <2>4, LoginArgsMeant
    <2>7. Tail(<<"LOGIN">> \o u \o <<SP>> \o p) = u \o <<SP>> \o p
      <3>1. PICK S : u \in Seq(S) BY <2>5 DEF IsSeq
      <3>2. PICK T : p \in Seq(T) BY <2>5 DEF IsSeq
      <3> DEFINE U == S \cup T \cup {SP, "LOGIN"}
      <3>3. u \in Seq(U) /\ p \in Seq(U) /\ SP \in U /\ "LOGIN" \in U BY <3>1, <3>2
      <3> HIDE DEF U
      <3>4. u \o <<SP>> \o p \in Seq(U) BY <3>3
      <3>5. <<"LOGIN">> \o u \o <<SP>> \o p = <<"LOGIN">> \o (u \o <<SP>> \o p) BY <3>3
      <3> DEFINE rest == u \o <<SP>> \o p
      <3> HIDE DEF rest
      <3>6. rest \in Seq(U) BY <3>4 DEF rest
      <3>7. Tail(<<"LOGIN">> \o rest) = rest BY <3>3, <3>6
      <3> QED BY <3>5, <3>7 DEF rest
    <2> QED BY <2>3, <2>6, <2>7
  <1> QED BY <1>1, ImapInvariance, PTL
----------------------------------------------------------------------------
(***************************************************************************)
(* QuestDB: each query is recorded and answered once.                      *)
(***************************************************************************)

(* A string as C reads it, byte by byte. *)
LEMMA CStringIs ==
  ASSUME NEW s, IsSeq(s)
  PROVE  /\ IsSeq(CString(s)) /\ Len(CString(s)) \in 0 .. Len(s)
         /\ \A i \in 1 .. Len(CString(s)) : CString(s)[i] = s[i] /\ s[i] # NUL
         /\ Len(CString(s)) < Len(s) => s[Len(CString(s)) + 1] = NUL
  <1> DEFINE I == {i \in 1 .. Len(s) : s[i] = NUL}
  <1>1. Len(s) \in Nat BY SeqShape
  <1>2. I \subseteq Nat /\ I \subseteq 1 .. Len(s) OBVIOUS
  <1>3. CString(s) = IF (IF I # {} THEN Min(I) ELSE 0) = 0 THEN s
                     ELSE SubSeq(s, 1, (IF I # {} THEN Min(I) ELSE 0) - 1)
    BY DEF CString, SelectInSeq
  <1>4. \A i \in 1 .. Len(s) : i \in I <=> s[i] = NUL OBVIOUS
  <1> HIDE DEF I
  <1>5. CASE I = {}
    <2>1. CString(s) = s BY <1>3, <1>5
    <2> QED BY <2>1, <1>1, <1>4, <1>5
  <1>6. CASE I # {}
    <2> DEFINE m == Min(I)
    <2>1. m \in I /\ \A y \in I : m <= y BY <1>2, <1>6, MinOfNat
    <2> HIDE DEF m
    <2>2. m \in 1 .. Len(s) BY <1>2, <2>1
    <2>3. CString(s) = SubSeq(s, 1, m - 1) BY <1>3, <1>6, <2>2 DEF m
    <2>4. m - 1 \in Int /\ 1 \in Int /\ m - 1 \in 0 .. Len(s) BY <2>2, <1>1
    <2>5. /\ IsSeq(CString(s)) /\ Len(CString(s)) = IF 1 <= m - 1 THEN (m - 1) - 1 + 1 ELSE 0
          /\ \A i \in 1 .. (m - 1) - 1 + 1 : CString(s)[i] = s[1 + i - 1]
      BY <2>3, <2>4, SubSeqShape
    <2>6. Len(CString(s)) = m - 1 BY <2>5, <2>4, <2>2
    <2>7. ASSUME NEW i \in 1 .. m - 1 PROVE CString(s)[i] = s[i] /\ s[i] # NUL
      <3>1. i \in 1 .. (m - 1) - 1 + 1 /\ 1 + i - 1 = i /\ i \in 1 .. Len(s) /\ i < m
        BY <2>2, <1>1
      <3>2. CString(s)[i] = s[i] BY <2>5, <3>1
      <3>3. i \notin I BY <2>1, <2>2, <3>1
      <3> QED BY <3>1, <3>2, <3>3, <1>4
    <2>8. (m - 1) + 1 = m /\ s[m] = NUL BY <2>1, <2>2, <1>4
    <2> QED BY <2>4, <2>5, <2>6, <2>7, <2>8
  <1> QED BY <1>5, <1>6

(* A string without its line end, byte by byte. *)
LEMMA StripCrlfIs ==
  ASSUME NEW s, IsSeq(s)
  PROVE  /\ IsSeq(StripCrlf(s)) /\ Len(StripCrlf(s)) \in 0 .. Len(s)
         /\ \A i \in 1 .. Len(StripCrlf(s)) : StripCrlf(s)[i] = s[i]
         /\ Len(StripCrlf(s)) > 0 => s[Len(StripCrlf(s))] \notin {CR, LF}
         /\ \A j \in Len(StripCrlf(s)) + 1 .. Len(s) : s[j] \in {CR, LF}
  <1> DEFINE I == {i \in 1 .. Len(s) : s[i] \notin {CR, LF}}
  <1> DEFINE m == LastOf(I)
  <1>1. Len(s) \in Nat BY SeqShape
  <1>2. I \subseteq 1 .. Len(s) OBVIOUS
  <1>3. StripCrlf(s) = SubSeq(s, 1, m) BY DEF StripCrlf, SelectLastInSeq, LastOf
  <1>4. \A i \in 1 .. Len(s) : i \in I <=> s[i] \notin {CR, LF} OBVIOUS
  <1> HIDE DEF I
  <1>5. m \in 0 .. Len(s) BY <1>1, <1>2, LastOfNat
  <1>6. m > 0 => m \in I
    <2>1. I # {} => Max(I) \in I BY <1>1, <1>2, MaxUpTo
    <2> QED BY <2>1 DEF LastOf
  <1>7. \A i \in I : i <= m
    <2>1. I # {} => \A i \in I : i <= Max(I) BY <1>1, <1>2, MaxUpTo
    <2> QED BY <2>1 DEF LastOf
  <1> HIDE DEF m
  <1>8. m \in Int /\ 1 \in Int /\ m - 1 + 1 = m BY <1>1, <1>5
  <1>9. /\ IsSeq(StripCrlf(s)) /\ Len(StripCrlf(s)) = IF 1 <= m THEN m - 1 + 1 ELSE 0
        /\ \A i \in 1 .. m - 1 + 1 : StripCrlf(s)[i] = s[1 + i - 1]
    BY <1>3, <1>8, SubSeqShape
  <1>10. Len(StripCrlf(s)) = m BY <1>5, <1>8, <1>9
  <1>11. \A i \in 1 .. m : StripCrlf(s)[i] = s[i]
    <2>1. \A i \in 1 .. m : 1 + i - 1 = i BY <1>8
    <2> QED BY <2>1, <1>8, <1>9
  <1>12. m > 0 => s[m] \notin {CR, LF} BY <1>4, <1>5, <1>6
  <1>13. \A j \in m + 1 .. Len(s) : s[j] \in {CR, LF}
    <2> SUFFICES ASSUME NEW j \in m + 1 .. Len(s) PROVE s[j] \in {CR, LF}
      OBVIOUS
    <2>1. j \in 1 .. Len(s) /\ ~(j <= m) BY <1>1, <1>5
    <2> QED BY <2>1, <1>4, <1>7
  <1> QED BY <1>5, <1>9, <1>10, <1>11, <1>12, <1>13

(* What run_questdb_service records of a query is its text. *)
LEMMA QueryText ==
  ASSUME NEW sql, IsSeq(sql)
  PROVE  IsTextOf(StripCrlf(CString(sql)), sql)
  <1> DEFINE c == CString(sql)
             t == StripCrlf(c)
  <1>1. /\ IsSeq(c) /\ Len(c) \in 0 .. Len(sql)
        /\ \A i \in 1 .. Len(c) : c[i] = sql[i] /\ sql[i] # NUL
        /\ Len(c) < Len(sql) => sql[Len(c) + 1] = NUL
    BY CStringIs
  <1> HIDE DEF c
  <1>2. /\ IsSeq(t) /\ Len(t) \in 0 .. Len(c)
        /\ \A i \in 1 .. Len(t) : t[i] = c[i]
        /\ Len(t) > 0 => c[Len(t)] \notin {CR, LF}
        /\ \A j \in Len(t) + 1 .. Len(c) : c[j] \in {CR, LF}
    BY <1>1, StripCrlfIs
  <1> HIDE DEF t
  <1>3. Len(sql) \in Nat /\ Len(c) \in Nat /\ Len(t) \in Nat BY <1>1, <1>2, SeqShape
  <1>4. \A i \in 1 .. Len(t) : t[i] = sql[i] /\ t[i] # NUL BY <1>1, <1>2, <1>3
  <1>5. IsPrefix(t, sql)
    <2> DEFINE p == SubSeq(t, 1, Len(t))
               q == SubSeq(sql, 1, Len(t))
    <2>1. Len(t) \in Int /\ 1 \in Int /\ Len(t) - 1 + 1 = Len(t) BY <1>3
    <2>2. /\ IsSeq(p) /\ Len(p) = (IF 1 <= Len(t) THEN Len(t) - 1 + 1 ELSE 0)
          /\ \A i \in 1 .. Len(t) - 1 + 1 : p[i] = t[1 + i - 1]
      BY <2>1, SubSeqShape
    <2>3. /\ IsSeq(q) /\ Len(q) = (IF 1 <= Len(t) THEN Len(t) - 1 + 1 ELSE 0)
          /\ \A i \in 1 .. Len(t) - 1 + 1 : q[i] = sql[1 + i - 1]
      BY <2>1, SubSeqShape
    <2> HIDE DEF p, q
    <2>4. Len(p) = Len(t) /\ Len(q) = Len(t) BY <1>3, <2>2, <2>3
    <2>5. \A i \in 1 .. Len(t) : 1 + i - 1 = i BY <1>3
    <2>6. \A i \in 1 .. Len(p) : p[i] = q[i] BY <1>4, <2>1, <2>2, <2>3, <2>4, <2>5
    <2>7. p = q BY <2>2, <2>3, <2>4, <2>6, SameSeq
    <2>8. Len(t) <= Len(sql) BY <1>1, <1>2, <1>3
    <2> QED BY <2>7, <2>8 DEF IsPrefix, p, q
  <1>6. t # <<>> => Last(t) \notin {CR, LF}
    <2> SUFFICES ASSUME t # <<>> PROVE t[Len(t)] \notin {CR, LF}
      BY DEF Last
    <2>1. Len(t) # 0
      <3>1. Len(t) = 0 => t = <<>> BY <1>2, EmptyIsSeq, SameSeq
      <3> QED BY <3>1
    <2>2. Len(t) > 0 /\ Len(t) \in 1 .. Len(t) BY <2>1, <1>3
    <2> QED BY <2>2, <1>2
  <1>7. ASSUME NEW j \in Len(t) + 1 .. Len(sql), \A i \in Len(t) + 1 .. j : sql[i] # NUL
        PROVE  sql[j] \in {CR, LF}
    <2>1. j <= Len(c)
      <3> SUFFICES ASSUME ~(j <= Len(c)) PROVE FALSE
        OBVIOUS
      <3>1. Len(c) < Len(sql) /\ Len(c) + 1 \in Len(t) + 1 .. j BY <1>1, <1>2, <1>3
      <3> QED BY <3>1, <1>1, <1>7
    <2>2. j \in Len(t) + 1 .. Len(c) /\ j \in 1 .. Len(c) BY <2>1, <1>2, <1>3
    <2> QED BY <2>2, <1>1, <1>2
  <1> QED BY <1>4, <1>5, <1>6, <1>7 DEF IsTextOf, c, t

QueriesIn(s) == {i \in 1 .. Len(s) : Head(s[i]).type = "Q"}
QueryPlace(s, i) == 2 + Cardinality({j \in QueriesIn(s) : j <= i})
ReadyIn(r) == {n \in 1 .. Len(r) : r[n] = "ready"}

(* What the trail a says of the segments s, once the peer has logged in. *)
QuestTold(a, s) ==
  /\ 2 + Cardinality(QueriesIn(s)) <= Len(a)
  /\ \A n \in 1 .. Len(a) : a[n][1] = "COMMAND" <=> n \in 3 .. 2 + Cardinality(QueriesIn(s))
  /\ \A i \in QueriesIn(s) : IsTextOf(a[QueryPlace(s, i)][2], Head(s[i]).sql)

(* A set of places of a sequence has a number of elements. *)
LEMMA PlacesFinite ==
  ASSUME NEW n \in Nat, NEW S, S \subseteq 1 .. n
  PROVE  /\ IsFiniteSet(S) /\ Cardinality(S) \in Nat
         /\ Cardinality(S \cup {n + 1}) = Cardinality(S) + 1
         /\ \A i : Cardinality({j \in S : j <= i}) \in 0 .. Cardinality(S)
  <1>1. IsFiniteSet(1 .. n) BY FS_Interval
  <1>2. IsFiniteSet(S) BY <1>1, FS_Subset
  <1>3. Cardinality(S) \in Nat BY <1>2, FS_CardinalityType
  <1>4. n + 1 \notin S OBVIOUS
  <1>5. Cardinality(S \cup {n + 1}) = Cardinality(S) + 1 BY <1>2, <1>4, FS_AddElement
  <1>6. ASSUME NEW i PROVE Cardinality({j \in S : j <= i}) \in 0 .. Cardinality(S)
    <2> DEFINE P == {j \in S : j <= i}
    <2>1. P \subseteq S OBVIOUS
    <2> HIDE DEF P
    <2>2. IsFiniteSet(P) /\ Cardinality(P) <= Cardinality(S) BY <1>2, <2>1, FS_Subset
    <2>3. Cardinality(P) \in Nat BY <2>2, FS_CardinalityType
    <2> QED BY <2>2, <2>3, <1>3 DEF P
  <1> QED BY <1>2, <1>3, <1>5, <1>6

(* One more segment: a query, or another message. *)
LEMMA QueriesNext ==
  ASSUME NEW s, IsSeq(s), NEW e
  PROVE  /\ Len(s) \in Nat /\ QueriesIn(s) \subseteq 1 .. Len(s) /\ Cardinality(QueriesIn(s)) \in Nat
         /\ Head(e).type # "Q" => QueriesIn(Append(s, e)) = QueriesIn(s)
         /\ Head(e).type = "Q" =>
              /\ QueriesIn(Append(s, e)) = QueriesIn(s) \cup {Len(s) + 1}
              /\ Cardinality(QueriesIn(Append(s, e))) = Cardinality(QueriesIn(s)) + 1
         /\ \A i \in 1 .. Len(s) : Append(s, e)[i] = s[i]
         /\ \A i \in 1 .. Len(s) : QueryPlace(Append(s, e), i) = QueryPlace(s, i)
         /\ QueryPlace(Append(s, e), Len(s) + 1) = 2 + Cardinality(QueriesIn(Append(s, e)))
  <1> DEFINE t == Append(s, e)
             n == Len(s) + 1
  <1>1. Len(s) \in Nat BY SeqShape
  <1>2. QueriesIn(s) \subseteq 1 .. Len(s) BY DEF QueriesIn
  <1>3. Len(t) = n /\ t[n] = e /\ \A i \in 1 .. Len(s) : t[i] = s[i] BY AppendShape
  <1> HIDE DEF t
  <1>4. ASSUME NEW i PROVE i \in QueriesIn(t) <=> i \in QueriesIn(s) \/ (i = n /\ Head(e).type = "Q")
    <2>1. CASE i \in 1 .. Len(s) BY <2>1, <1>1, <1>3 DEF QueriesIn
    <2>2. CASE i = n BY <2>2, <1>1, <1>3 DEF QueriesIn
    <2>3. CASE i \notin 1 .. n BY <2>3, <1>1, <1>3 DEF QueriesIn
    <2> QED BY <2>1, <2>2, <2>3, <1>1
  <1>5. Head(e).type # "Q" => QueriesIn(t) = QueriesIn(s) BY <1>4
  <1>6. Head(e).type = "Q" => QueriesIn(t) = QueriesIn(s) \cup {n} BY <1>4
  <1>7. /\ Cardinality(QueriesIn(s)) \in Nat
        /\ Cardinality(QueriesIn(s) \cup {n}) = Cardinality(QueriesIn(s)) + 1
    BY <1>1, <1>2, PlacesFinite
  <1>8. ASSUME NEW i \in 1 .. Len(s) PROVE QueryPlace(t, i) = QueryPlace(s, i)
    <2>1. ~(n <= i) BY <1>1
    <2>2. {j \in QueriesIn(t) : j <= i} = {j \in QueriesIn(s) : j <= i} BY <1>4, <2>1
    <2> QED BY <2>2 DEF QueryPlace
  <1>9. QueryPlace(t, n) = 2 + Cardinality(QueriesIn(t))
    <2>1. \A j \in QueriesIn(t) : j <= n BY <1>1, <1>3 DEF QueriesIn
    <2>2. {j \in QueriesIn(t) : j <= n} = QueriesIn(t) BY <2>1
    <2> QED BY <2>2 DEF QueryPlace
  <1> QED BY <1>1, <1>2, <1>3, <1>5, <1>6, <1>7, <1>8, <1>9 DEF t

(* The place of a query's event is inside the trail. *)
LEMMA PlaceInside ==
  ASSUME NEW a, IsSeq(a), NEW s, IsSeq(s), 2 + Cardinality(QueriesIn(s)) <= Len(a), NEW i
  PROVE  QueryPlace(s, i) \in 1 .. Len(a)
  <1>1. Len(s) \in Nat /\ Len(a) \in Nat BY SeqShape
  <1>2. QueriesIn(s) \subseteq 1 .. Len(s) BY DEF QueriesIn
  <1>3. /\ Cardinality({j \in QueriesIn(s) : j <= i}) \in 0 .. Cardinality(QueriesIn(s))
        /\ Cardinality(QueriesIn(s)) \in Nat
    BY <1>1, <1>2, PlacesFinite
  <1> QED BY <1>1, <1>3 DEF QueryPlace

(* The query is recorded. *)
LEMMA ToldQuery ==
  ASSUME NEW a, IsSeq(a), NEW s, IsSeq(s), QuestTold(a, s), Len(a) = 2 + Cardinality(QueriesIn(s)),
         NEW e, Head(e).type = "Q", NEW text, IsTextOf(text, Head(e).sql)
  PROVE  /\ QuestTold(Append(a, <<"COMMAND", text>>), Append(s, e))
         /\ Len(Append(a, <<"COMMAND", text>>)) = 2 + Cardinality(QueriesIn(Append(s, e)))
  <1> DEFINE v == <<"COMMAND", text>>
             b == Append(a, v)
             t == Append(s, e)
             c == Cardinality(QueriesIn(s))
  <1>1. v[1] = "COMMAND" /\ v[2] = text OBVIOUS
  <1> HIDE DEF v
  <1>2. Len(b) = Len(a) + 1 /\ b[Len(a) + 1] = v /\ \A i \in 1 .. Len(a) : b[i] = a[i]
    BY AppendShape
  <1> HIDE DEF b
  <1>3. /\ Len(s) \in Nat /\ QueriesIn(s) \subseteq 1 .. Len(s) /\ c \in Nat
        /\ QueriesIn(t) = QueriesIn(s) \cup {Len(s) + 1}
        /\ Cardinality(QueriesIn(t)) = c + 1
        /\ \A i \in 1 .. Len(s) : t[i] = s[i]
        /\ \A i \in 1 .. Len(s) : QueryPlace(t, i) = QueryPlace(s, i)
        /\ QueryPlace(t, Len(s) + 1) = 2 + (c + 1)
    BY QueriesNext
  <1>4. t[Len(s) + 1] = e BY AppendShape
  <1> HIDE DEF t
  <1>5. Len(a) = 2 + c /\ Len(b) = 2 + (c + 1) /\ Len(a) + 1 = 2 + (c + 1) BY <1>2, <1>3
  <1>6. ASSUME NEW n \in 1 .. Len(b) PROVE b[n][1] = "COMMAND" <=> n \in 3 .. 2 + (c + 1)
    <2>1. CASE n = Len(a) + 1
      <3>1. n \in 3 .. 2 + (c + 1) BY <2>1, <1>3, <1>5
      <3> QED BY <2>1, <3>1, <1>1, <1>2
    <2>2. CASE n \in 1 .. Len(a)
      <3>1. b[n][1] = "COMMAND" <=> n \in 3 .. 2 + c BY <2>2, <1>2 DEF QuestTold
      <3>2. n \in 3 .. 2 + c <=> n \in 3 .. 2 + (c + 1) BY <2>2, <1>3, <1>5
      <3> QED BY <3>1, <3>2
    <2> QED BY <2>1, <2>2, <1>3, <1>5
  <1>7. ASSUME NEW i \in QueriesIn(t) PROVE IsTextOf(b[QueryPlace(t, i)][2], Head(t[i]).sql)
    <2>1. CASE i = Len(s) + 1 BY <2>1, <1>1, <1>2, <1>3, <1>4, <1>5
    <2>2. CASE i \in QueriesIn(s)
      <3>1. i \in 1 .. Len(s) BY <2>2, <1>3
      <3>2. QueryPlace(s, i) \in 1 .. Len(a) BY PlaceInside DEF QuestTold
      <3>3. IsTextOf(a[QueryPlace(s, i)][2], Head(s[i]).sql) BY <2>2 DEF QuestTold
      <3> QED BY <3>1, <3>2, <3>3, <1>2, <1>3
    <2> QED BY <2>1, <2>2, <1>3
  <1>8. 2 + (c + 1) <= Len(b) BY <1>3, <1>5
  <1>9. QuestTold(b, t) BY <1>3, <1>6, <1>7, <1>8 DEF QuestTold
  <1> QED BY <1>3, <1>5, <1>9 DEF b, t, v

(* Another message is not recorded. *)
LEMMA ToldOther ==
  ASSUME NEW a, IsSeq(a), NEW s, IsSeq(s), QuestTold(a, s), NEW e, Head(e).type # "Q"
  PROVE  QuestTold(a, Append(s, e)) /\ QueriesIn(Append(s, e)) = QueriesIn(s)
  <1> DEFINE t == Append(s, e)
  <1>1. /\ QueriesIn(s) \subseteq 1 .. Len(s) /\ QueriesIn(t) = QueriesIn(s)
        /\ \A i \in 1 .. Len(s) : t[i] = s[i]
        /\ \A i \in 1 .. Len(s) : QueryPlace(t, i) = QueryPlace(s, i)
    BY QueriesNext
  <1> HIDE DEF t
  <1>2. QuestTold(a, t) BY <1>1 DEF QuestTold
  <1> QED BY <1>1, <1>2 DEF t

(* The end of the session is recorded behind the queries. *)
LEMMA ToldEnd ==
  ASSUME NEW a, IsSeq(a), NEW s, IsSeq(s), QuestTold(a, s), NEW e, e[1] # "COMMAND",
         Len(a) = 2 + Cardinality(QueriesIn(s))
  PROVE  QuestTold(Append(a, e), s)
  <1> DEFINE b == Append(a, e)
             c == Cardinality(QueriesIn(s))
  <1>1. Len(b) = Len(a) + 1 /\ b[Len(a) + 1] = e /\ \A i \in 1 .. Len(a) : b[i] = a[i]
    BY AppendShape
  <1> HIDE DEF b
  <1>2. c \in Nat /\ Len(a) \in Nat BY QueriesNext, SeqShape
  <1>3. ASSUME NEW n \in 1 .. Len(b) PROVE b[n][1] = "COMMAND" <=> n \in 3 .. 2 + c
    <2>1. CASE n = Len(a) + 1
      <3>1. n \notin 3 .. 2 + c BY <2>1, <1>2
      <3> QED BY <2>1, <3>1, <1>1
    <2>2. CASE n \in 1 .. Len(a) BY <2>2, <1>1 DEF QuestTold
    <2> QED BY <2>1, <2>2, <1>1, <1>2
  <1>4. \A i \in QueriesIn(s) : IsTextOf(b[QueryPlace(s, i)][2], Head(s[i]).sql)
    <2> SUFFICES ASSUME NEW i \in QueriesIn(s) PROVE IsTextOf(b[QueryPlace(s, i)][2], Head(s[i]).sql)
      OBVIOUS
    <2>1. QueryPlace(s, i) \in 1 .. Len(a) BY PlaceInside DEF QuestTold
    <2>2. IsTextOf(a[QueryPlace(s, i)][2], Head(s[i]).sql) BY DEF QuestTold
    <2> QED BY <2>1, <2>2, <1>1
  <1>5. 2 + c <= Len(b) BY <1>1, <1>2
  <1>6. QuestTold(b, s) BY <1>3, <1>4, <1>5 DEF QuestTold
  <1> QED BY <1>6 DEF b

(* Replies: the peer is told once, at their end, that it may go on, or it  *)
(* is not told.                                                            *)
LEMMA ReadyNext ==
  ASSUME NEW r, IsSeq(r), NEW t, IsSeq(t), \A i \in 1 .. Len(t) : t[i] = "ready" => i = Len(t)
  PROVE  /\ Len(t) > 0 /\ t[Len(t)] = "ready" =>
              Cardinality(ReadyIn(r \o t)) = Cardinality(ReadyIn(r)) + 1
         /\ Len(t) = 0 \/ t[Len(t)] # "ready" => ReadyIn(r \o t) = ReadyIn(r)
  <1> DEFINE u == r \o t
             n == Len(r)
             m == Len(r) + Len(t)
  <1>1. /\ Len(u) = m /\ \A i \in 1 .. Len(r) : u[i] = r[i]
        /\ \A i \in 1 .. Len(t) : u[Len(r) + i] = t[i]
    BY ConcatShape
  <1> HIDE DEF u
  <1>2. Len(r) \in Nat /\ Len(t) \in Nat BY SeqShape
  <1>3. ASSUME NEW i
        PROVE  i \in ReadyIn(u) <=>
                 i \in ReadyIn(r) \/ (Len(t) > 0 /\ t[Len(t)] = "ready" /\ i = m)
    <2>1. CASE i \in 1 .. Len(r) BY <2>1, <1>1, <1>2 DEF ReadyIn
    <2>2. CASE i \in Len(r) + 1 .. m
      <3> DEFINE k == i - Len(r)
      <3>1. k \in 1 .. Len(t) /\ i = Len(r) + k BY <2>2, <1>2
      <3> HIDE DEF k
      <3>2. u[i] = t[k] BY <3>1, <1>1
      <3>3. i \notin ReadyIn(r) /\ i \in 1 .. m BY <2>2, <1>2 DEF ReadyIn
      <3>4. i = m <=> k = Len(t) BY <3>1, <1>2
      <3>5. Len(t) > 0 BY <3>1, <1>2
      <3>6. i \in ReadyIn(u) <=> t[k] = "ready" BY <3>2, <3>3, <1>1 DEF ReadyIn
      <3> QED BY <3>1, <3>3, <3>4, <3>5, <3>6
    <2>3. CASE i \notin 1 .. m
      <3>1. i \notin ReadyIn(u) /\ i \notin ReadyIn(r) BY <2>3, <1>1, <1>2 DEF ReadyIn
      <3>2. Len(t) > 0 => i # m BY <2>3, <1>2
      <3> QED BY <3>1, <3>2
    <2>4. i \in 1 .. Len(r) \/ i \in Len(r) + 1 .. m \/ i \notin 1 .. m BY <1>2
    <2> QED BY <2>1, <2>2, <2>3, <2>4
  <1>4. ASSUME Len(t) = 0 \/ t[Len(t)] # "ready" PROVE ReadyIn(u) = ReadyIn(r)
    <2>1. ~(Len(t) > 0 /\ t[Len(t)] = "ready") BY <1>2, <1>4
    <2>2. \A i : i \in ReadyIn(u) <=> i \in ReadyIn(r) BY <1>3, <2>1
    <2>3. ReadyIn(u) \subseteq 1 .. m /\ ReadyIn(r) \subseteq 1 .. m
      BY <1>1, <1>2 DEF ReadyIn
    <2> QED BY <2>2, <2>3
  <1>5. ASSUME Len(t) > 0, t[Len(t)] = "ready"
        PROVE  Cardinality(ReadyIn(u)) = Cardinality(ReadyIn(r)) + 1
    <2>1. ReadyIn(u) = ReadyIn(r) \cup {m} BY <1>3, <1>5
    <2>2. ReadyIn(r) \subseteq 1 .. Len(r) BY DEF ReadyIn
    <2>3. IsFiniteSet(ReadyIn(r)) BY <2>2, <1>2, PlacesFinite
    <2>4. m \notin ReadyIn(r) BY <2>2, <1>2, <1>5
    <2> QED BY <2>1, <2>3, <2>4, FS_AddElement
  <1> QED BY <1>4, <1>5 DEF u

(* The peer has not logged in, or has and is in step. *)
QuestTells ==
  /\ DOMAIN local = {"user", "start", "segments"}
  /\ local.segments \in Seq(QuestSegments) /\ IsSeq(audit) /\ IsSeq(replies)
  /\ \/ /\ pc # "query" /\ local.segments = <<>> /\ ReadyIn(replies) = {}
        /\ \A n \in 1 .. Len(audit) : audit[n][1] \notin {"COMMAND", "AUTH_FAILURE"}
        /\ pc # "ended" => Len(audit) = 1
     \/ /\ pc \notin {"startup", "restart", "password"}
        /\ QuestTold(audit, local.segments)
        /\ pc # "ended" => Len(audit) = 2 + Cardinality(QueriesIn(local.segments))
        /\ Cardinality(ReadyIn(replies)) = Cardinality(QueriesIn(local.segments)) + 1

(* QuestTells holds at the start. *)
LEMMA QuestTellsInit == PgInit => QuestTells
  <1> SUFFICES ASSUME PgInit PROVE QuestTells
    OBVIOUS
  <1>1. /\ local = [user |-> <<>>, start |-> <<>>, segments |-> <<>>] /\ pc = "startup"
        /\ audit = <<<<"CONNECT">>>> /\ replies = <<>>
    BY DEF PgInit, Begins
  <1>2. IsSeq(audit) /\ Len(audit) = 1 /\ audit[1] = <<"CONNECT">> BY <1>1, OneSeq
  <1>3. audit[1][1] = "CONNECT" /\ \A i \in 1 .. 1 : i = 1 BY <1>2
  <1>4. DOMAIN local = {"user", "start", "segments"} /\ local.segments = <<>> BY <1>1
  <1>5. <<>> \in Seq(QuestSegments) OBVIOUS
  <1>6. IsSeq(replies) /\ Len(replies) = 0 BY <1>1, EmptyIsSeq
  <1>7. ReadyIn(replies) = {} BY <1>6 DEF ReadyIn
  <1> QED BY <1>1, <1>2, <1>3, <1>4, <1>5, <1>6, <1>7 DEF QuestTells

(* An answer that does not let the peer go on. *)
LEMMA NotReady ==
  ASSUME NEW r, IsSeq(r), NEW x, x # "ready"
  PROVE  IsSeq(Append(r, x)) /\ ReadyIn(Append(r, x)) = ReadyIn(r)
  <1>1. Append(r, x) = r \o <<x>> BY ConcatAppends
  <1>2. IsSeq(<<x>>) /\ Len(<<x>>) = 1 /\ <<x>>[1] = x BY OneSeq
  <1>3. IsSeq(Append(r, x)) BY AppendShape
  <1> DEFINE t == <<x>>
  <1> HIDE DEF t
  <1>4. IsSeq(t) /\ Len(t) = 1 /\ t[1] # "ready" BY <1>2 DEF t
  <1>5. \A i \in 1 .. Len(t) : t[i] = "ready" => i = Len(t) BY <1>4
  <1>6. t[Len(t)] # "ready" BY <1>4
  <1>7. ReadyIn(r \o t) = ReadyIn(r) BY <1>4, <1>5, <1>6, ReadyNext
  <1> QED BY <1>1, <1>3, <1>7 DEF t

(* The start-up, and the ways out of it. *)
LEMMA QuestBegins ==
  ASSUME QuestTells, NEW m, PgStartup(m) \/ PgRestart(m)
  PROVE  QuestTells'
  <1>1. /\ pc \in {"startup", "restart"} /\ pc' \in {"end", "restart", "password"}
        /\ audit' = audit
    BY DEF PgStartup, PgRestart, PgGiveUp, AskPassword, Refuse
  <1>2. \/ replies' = replies
        \/ \E x \in {"md5", "08004", "N"} : replies' = Append(replies, x)
    BY DEF PgStartup, PgRestart, PgGiveUp, AskPassword, Refuse
  <1>3. local' = local \/ \E name : local' = [local EXCEPT !.user = name, !.start = m.body]
    BY DEF PgStartup, PgRestart, PgGiveUp, AskPassword, Refuse
  <1>4. DOMAIN local' = {"user", "start", "segments"} /\ local'.segments = local.segments
    BY <1>3 DEF QuestTells
  <1>5. IsSeq(replies') /\ ReadyIn(replies') = ReadyIn(replies)
    <2>1. ASSUME NEW x \in {"md5", "08004", "N"}, replies' = Append(replies, x)
          PROVE  IsSeq(replies') /\ ReadyIn(replies') = ReadyIn(replies)
      BY <2>1, NotReady DEF QuestTells
    <2> QED BY <1>2, <2>1 DEF QuestTells
  <1>6. /\ local.segments = <<>> /\ ReadyIn(replies) = {} /\ Len(audit) = 1
        /\ \A n \in 1 .. Len(audit) : audit[n][1] \notin {"COMMAND", "AUTH_FAILURE"}
    BY <1>1 DEF QuestTells
  <1>7. IsSeq(audit) /\ local.segments \in Seq(QuestSegments) BY DEF QuestTells
  <1>8. ReadyIn(replies)' = {} BY <1>5, <1>6 DEF ReadyIn
  <1> QED BY <1>1, <1>4, <1>5, <1>6, <1>7, <1>8 DEF QuestTells

(* The login: the peer may go on. *)
LEMMA QuestLogsIn ==
  ASSUME QuestTells, NEW text, PgPassword(text), service = "questdb"
  PROVE  QuestTells'
  <1> DEFINE e == <<"AUTH_FAILURE", local.user, Cut(CString(text), UserSize)>>
  <1>1. /\ pc = "password" /\ pc' = "query" /\ local' = local
        /\ audit' = Append(audit, e) /\ replies' = replies \o QuestWelcome
    BY DEF PgPassword
  <1>2. e[1] = "AUTH_FAILURE" OBVIOUS
  <1> HIDE DEF e
  <1>3. /\ DOMAIN local = {"user", "start", "segments"} /\ local.segments = <<>>
        /\ IsSeq(audit) /\ IsSeq(replies) /\ ReadyIn(replies) = {} /\ Len(audit) = 1
        /\ \A n \in 1 .. Len(audit) : audit[n][1] \notin {"COMMAND", "AUTH_FAILURE"}
        /\ local.segments \in Seq(QuestSegments)
    BY <1>1 DEF QuestTells
  <1>4. /\ IsSeq(audit') /\ Len(audit') = 2 /\ audit'[2] = e /\ audit'[1] = audit[1]
    <2>0. IsSeq(audit) BY <1>3
    <2> DEFINE b == Append(audit, e)
    <2>3. /\ IsSeq(b) /\ Len(b) = Len(audit) + 1 /\ b[Len(audit) + 1] = e
          /\ \A i \in 1 .. Len(audit) : b[i] = audit[i]
      BY <2>0, AppendShape
    <2> HIDE DEF b
    <2>4. audit' = b /\ Len(audit) = 1 BY <1>1, <1>3 DEF b
    <2>1. /\ IsSeq(audit') /\ Len(audit') = 1 + 1 /\ audit'[1 + 1] = e
          /\ \A i \in 1 .. 1 : audit'[i] = audit[i]
      BY <2>3, <2>4
    <2>2. 1 + 1 = 2 /\ 1 \in 1 .. 1 OBVIOUS
    <2> QED BY <2>1, <2>2
  <1>5. \A n \in 1 .. Len(audit') : audit'[n][1] # "COMMAND"
    <2>1. \A n \in 1 .. 2 : n = 1 \/ n = 2 OBVIOUS
    <2>2. audit[1][1] # "COMMAND" BY <1>3
    <2> QED BY <2>1, <2>2, <1>2, <1>4
  <1>6. Len(<<>>) = 0 BY EmptyIsSeq
  <1>7. QueriesIn(<<>>) = {} BY <1>6 DEF QueriesIn
  <1>8. Cardinality(QueriesIn(<<>>)) = 0 BY <1>7, FS_EmptySet
  <1>9. QuestTold(audit', <<>>) /\ Len(audit') = 2 + Cardinality(QueriesIn(<<>>))
    <2>1. 3 .. 2 + 0 = {} OBVIOUS
    <2> QED BY <2>1, <1>4, <1>5, <1>7, <1>8 DEF QuestTold
  <1>10. IsSeq(replies') /\ Cardinality(ReadyIn(replies')) = 1
    <2> DEFINE t == QuestWelcome
    <2>0. Len(t) = 6 BY DEF QuestWelcome
    <2>1. t \in Seq({"authenticated", "status", "ready"}) /\ Len(t) = 6 BY <2>0 DEF QuestWelcome
    <2>2. t[6] = "ready" /\ \A i \in 1 .. 6 : t[i] = "ready" => i = 6 BY DEF QuestWelcome
    <2> HIDE DEF t
    <2>3. IsSeq(t) BY <2>1 DEF IsSeq
    <2>4. Len(t) > 0 /\ t[Len(t)] = "ready" /\ \A i \in 1 .. Len(t) : t[i] = "ready" => i = Len(t)
      BY <2>1, <2>2
    <2>5. Cardinality(ReadyIn(replies \o t)) = Cardinality(ReadyIn(replies)) + 1
      BY <1>3, <2>3, <2>4, ReadyNext
    <2>6. Cardinality(ReadyIn(replies)) = 0 BY <1>3, FS_EmptySet
    <2>7. IsSeq(replies \o t) BY <1>3, <2>3, ConcatShape
    <2> QED BY <2>5, <2>6, <2>7, <1>1 DEF t
  <1>11. local'.segments = <<>> BY <1>1, <1>3
  <1>12. QuestTold(audit, local.segments)' BY <1>9, <1>11 DEF QuestTold, QueriesIn, QueryPlace
  <1>13. Cardinality(ReadyIn(replies))' = Cardinality(QueriesIn(local.segments))' + 1
    <2>1. Cardinality(QueriesIn(local'.segments)) = 0 BY <1>8, <1>11
    <2> QED BY <2>1, <1>10 DEF ReadyIn, QueriesIn
  <1>14. Len(audit') = 2 + Cardinality(QueriesIn(local.segments))' BY <1>9, <1>11 DEF QueriesIn
  <1> QED BY <1>1, <1>3, <1>4, <1>10, <1>11, <1>12, <1>13, <1>14 DEF QuestTells

(* Whichever branch answers a query, it says once, and last, that the peer *)
(* may go on.                                                              *)
LEMMA AnswerEndsReady ==
  ASSUME NEW sql
  PROVE  LET q == QuestAnswer(sql)
         IN  /\ IsSeq(q) /\ Len(q) > 0 /\ q[Len(q)] = "ready"
             /\ \A i \in 1 .. Len(q) : q[i] = "ready" => i = Len(q)
  <1> DEFINE q == QuestAnswer(sql)
  <1>1. q = ResultAnswer \/ q = DropAnswer \/ q = OtherAnswer
    BY DEF QuestAnswer
  <1> HIDE DEF q
  <1>2. CASE q = ResultAnswer
    <2>1. q = <<"rows", "complete", "ready">> BY <1>2 DEF ResultAnswer
    <2>2. /\ q \in Seq({"rows", "complete", "ready"}) /\ Len(q) = 3
          /\ q[1] = "rows" /\ q[2] = "complete" /\ q[3] = "ready"
      BY <2>1
    <2>3. \A i \in 1 .. 3 : i = 1 \/ i = 2 \/ i = 3 OBVIOUS
    <2>4. IsSeq(q) BY <2>2 DEF IsSeq
    <2> QED BY <2>2, <2>3, <2>4 DEF q
  <1>3. ASSUME NEW x, x # "ready", q = <<x, "ready">>
        PROVE  /\ IsSeq(q) /\ Len(q) > 0 /\ q[Len(q)] = "ready"
               /\ \A i \in 1 .. Len(q) : q[i] = "ready" => i = Len(q)
    <2>1. IsSeq(q) /\ Len(q) = 2 /\ q[1] = x /\ q[2] = "ready" BY <1>3, TwoSeq
    <2>2. \A i \in 1 .. 2 : i = 1 \/ i = 2 OBVIOUS
    <2> QED BY <1>3, <2>1, <2>2
  <1>4. CASE q = DropAnswer BY <1>3, <1>4 DEF DropAnswer, q
  <1>5. CASE q = OtherAnswer BY <1>3, <1>5 DEF OtherAnswer, q
  <1> QED BY <1>1, <1>2, <1>4, <1>5

(* A segment of the loop: recorded and answered, if it is a query. *)
LEMMA QuestServes ==
  ASSUME PgAssumption, QuestTells, NEW segment \in QuestSegments, QuestQuery(segment)
  PROVE  QuestTells'
  <1> DEFINE s == local.segments
             t == Append(s, segment)
             type == Head(segment).type
             sql == StripCrlf(CString(Head(segment).sql))
             v == <<"COMMAND", sql>>
  <1>1. /\ pc = "query" /\ pc' \in {"query", "end"}
        /\ local' = [local EXCEPT !.segments = Append(@, segment)]
    BY DEF QuestQuery
  <1>2. /\ type = "Q" => /\ audit' = Append(audit, v)
                         /\ replies' = replies \o QuestAnswer(sql)
        /\ type # "Q" => /\ audit' = audit
                         /\ replies' = replies \/ replies' = Append(replies, "parsed")
    BY DEF QuestQuery
  <1>3. /\ DOMAIN local = {"user", "start", "segments"} /\ s \in Seq(QuestSegments)
        /\ IsSeq(audit) /\ IsSeq(replies) /\ QuestTold(audit, s)
        /\ Len(audit) = 2 + Cardinality(QueriesIn(s))
        /\ Cardinality(ReadyIn(replies)) = Cardinality(QueriesIn(s)) + 1
    BY <1>1 DEF QuestTells
  <1>4. IsSeq(s) BY <1>3 DEF IsSeq
  <1>5. DOMAIN local' = {"user", "start", "segments"} /\ local'.segments = t BY <1>1, <1>3
  <1>6. t \in Seq(QuestSegments) BY <1>3
  <1>7. IsSeq(Head(segment).sql)
    <2>1. segment \in Seq([type : STRING, sql : Seq(STRING)]) /\ segment # <<>>
      BY DEF PgAssumption
    <2> DEFINE M == [type : STRING, sql : Seq(STRING)]
    <2> HIDE DEF M
    <2>4. segment \in Seq(M) BY <2>1 DEF M
    <2>5. Head(segment) \in M BY <2>1, <2>4
    <2>2. Head(segment) \in [type : STRING, sql : Seq(STRING)] BY <2>5 DEF M
    <2>3. Head(segment).sql \in Seq(STRING) BY <2>2
    <2> QED BY <2>3 DEF IsSeq
  <1>8. IsTextOf(sql, Head(segment).sql) BY <1>7, QueryText
  <1>9. ASSUME IsSeq(audit'), IsSeq(replies'), QuestTold(audit', t),
               Len(audit') = 2 + Cardinality(QueriesIn(t)),
               Cardinality(ReadyIn(replies')) = Cardinality(QueriesIn(t)) + 1
        PROVE  QuestTells'
    <2> HIDE DEF t
    <2>1. QuestTold(audit, local.segments)' BY <1>5, <1>9 DEF QuestTold, QueriesIn, QueryPlace
    <2>2. /\ Cardinality(ReadyIn(replies))' = Cardinality(QueriesIn(local.segments))' + 1
          /\ Len(audit') = 2 + Cardinality(QueriesIn(local.segments))'
      BY <1>5, <1>9 DEF QueriesIn, ReadyIn
    <2> QED BY <2>1, <2>2, <1>1, <1>5, <1>6, <1>9 DEF QuestTells
  <1> HIDE DEF sql
  <1>10. CASE type = "Q"
    <2>1. audit' = Append(audit, v) /\ replies' = replies \o QuestAnswer(sql)
      BY <1>2, <1>10
    <2>2. QuestTold(Append(audit, v), t) /\ Len(Append(audit, v)) = 2 + Cardinality(QueriesIn(t))
      BY <1>3, <1>4, <1>8, <1>10, ToldQuery
    <2>3. IsSeq(Append(audit, v)) BY <1>3, AppendShape
    <2>4. Cardinality(QueriesIn(t)) = Cardinality(QueriesIn(s)) + 1 BY <1>4, <1>10, QueriesNext
    <2> DEFINE q == QuestAnswer(sql)
    <2>5. /\ IsSeq(q) /\ Len(q) > 0 /\ q[Len(q)] = "ready"
          /\ \A i \in 1 .. Len(q) : q[i] = "ready" => i = Len(q)
      BY AnswerEndsReady
    <2> HIDE DEF q
    <2>6. IsSeq(replies \o q) /\ Cardinality(ReadyIn(replies \o q)) = Cardinality(ReadyIn(replies)) + 1
      BY <1>3, <2>5, ReadyNext, ConcatShape
    <2>7. replies' = replies \o q BY <2>1 DEF q
    <2>8. Cardinality(ReadyIn(replies')) = Cardinality(QueriesIn(t)) + 1
      BY <1>3, <2>4, <2>6, <2>7
    <2> QED BY <1>9, <2>1, <2>2, <2>3, <2>6, <2>7, <2>8
  <1>11. CASE type # "Q"
    <2>1. audit' = audit /\ (replies' = replies \/ replies' = Append(replies, "parsed"))
      BY <1>2, <1>11
    <2>2. QuestTold(audit, t) /\ QueriesIn(t) = QueriesIn(s) BY <1>3, <1>4, <1>11, ToldOther
    <2>3. IsSeq(replies') /\ ReadyIn(replies') = ReadyIn(replies)
      <3>1. CASE replies' = replies BY <3>1, <1>3
      <3>2. CASE replies' = Append(replies, "parsed")
        <4>1. "parsed" # "ready" /\ IsSeq(replies) BY <1>3
        <4> QED BY <3>2, <4>1, NotReady
      <3> QED BY <2>1, <3>1, <3>2
    <2> QED BY <1>3, <1>9, <2>1, <2>2, <2>3
  <1> QED BY <1>10, <1>11

(* A step of QuestDB keeps QuestTells. *)
LEMMA QuestTellsStep ==
  ASSUME PgAssumption, QuestTells, service = "questdb",
         QuestNext \/ UNCHANGED <<pc, local, audit, replies>>
  PROVE  QuestTells'
  <1>1. ASSUME pc' \in {"end", pc}, pc \notin {"end", "ended"}, UNCHANGED <<local, audit, replies>>
        PROVE  QuestTells'
    BY <1>1 DEF QuestTells, QuestTold, QueriesIn, QueryPlace, ReadyIn
  <1>2. ASSUME NEW m \in Startup, PgStartup(m) \/ PgRestart(m) PROVE QuestTells'
    BY <1>2, QuestBegins
  <1>3. ASSUME NEW text \in PasswordTexts, PgPassword(text) PROVE QuestTells'
    BY <1>3, QuestLogsIn
  <1>4. CASE PgNoPassword BY <1>1, <1>4 DEF PgNoPassword, PgGiveUp
  <1>5. CASE PeerGone({"startup", "restart"}) \/ PeerGone({"query"})
    BY <1>1, <1>5 DEF PeerGone
  <1>6. CASE EndSession
    <2> DEFINE e == <<"DISCONNECT">>
    <2>1. /\ pc = "end" /\ pc' = "ended" /\ audit' = Append(audit, e)
          /\ UNCHANGED <<local, replies>>
      BY <1>6 DEF EndSession
    <2>2. e[1] = "DISCONNECT" OBVIOUS
    <2> HIDE DEF e
    <2>3. IsSeq(audit) /\ IsSeq(local.segments) BY DEF QuestTells, IsSeq
    <2>4. /\ IsSeq(audit') /\ Len(audit') = Len(audit) + 1 /\ audit'[Len(audit) + 1] = e
          /\ \A n \in 1 .. Len(audit) : audit'[n] = audit[n]
      BY <2>1, <2>3, AppendShape
    <2>5. CASE /\ local.segments = <<>> /\ ReadyIn(replies) = {}
               /\ \A n \in 1 .. Len(audit) : audit[n][1] \notin {"COMMAND", "AUTH_FAILURE"}
      <3>1. Len(audit) \in Nat BY <2>3, SeqShape
      <3>2. \A n \in 1 .. Len(audit') : n = Len(audit) + 1 \/ n \in 1 .. Len(audit) BY <3>1, <2>4
      <3>3. \A n \in 1 .. Len(audit') : audit'[n][1] \notin {"COMMAND", "AUTH_FAILURE"}
        BY <3>2, <2>2, <2>4, <2>5
      <3>4. ReadyIn(replies)' = {} BY <2>1, <2>5 DEF ReadyIn
      <3> QED BY <3>3, <3>4, <2>1, <2>4, <2>5 DEF QuestTells
    <2>6. CASE /\ QuestTold(audit, local.segments)
               /\ Len(audit) = 2 + Cardinality(QueriesIn(local.segments))
               /\ Cardinality(ReadyIn(replies)) = Cardinality(QueriesIn(local.segments)) + 1
      <3>1. QuestTold(Append(audit, e), local.segments) BY <2>2, <2>3, <2>6, ToldEnd
      <3>2. QuestTold(audit, local.segments)' BY <3>1, <2>1 DEF QuestTold, QueriesIn, QueryPlace
      <3>3. Cardinality(ReadyIn(replies))' = Cardinality(QueriesIn(local.segments))' + 1
        BY <2>1, <2>6 DEF ReadyIn, QueriesIn
      <3> QED BY <3>2, <3>3, <2>1, <2>4 DEF QuestTells
    <2> QED BY <2>1, <2>5, <2>6 DEF QuestTells
  <1>7. ASSUME NEW s \in QuestSegments, QuestQuery(s) PROVE QuestTells'
    BY <1>7, QuestServes, SMTT(40)
  <1>8. CASE UNCHANGED <<pc, local, audit, replies>>
    BY <1>8 DEF QuestTells, QuestTold, QueriesIn, QueryPlace, ReadyIn
  <1> QED BY <1>2, <1>3, <1>4, <1>5, <1>6, <1>7, <1>8 DEF QuestNext, PgNext

QuestIInv == service = "questdb" => QuestTells

(* QuestIInv is an invariant. *)
LEMMA QuestInvariance == Spec => []QuestIInv
  <1> USE PgAssumption
  <1>1. Init => QuestIInv BY QuestTellsInit DEF Init, QuestIInv
  <1>2. QuestIInv /\ [Next]_session => QuestIInv'
    <2> SUFFICES ASSUME QuestIInv, [Next]_session PROVE QuestIInv'
      OBVIOUS
    <2>1. CASE UNCHANGED session
      <3>1. UNCHANGED <<service, pc, local, audit, replies>> BY <2>1 DEF session
      <3> QED BY <3>1, QuestTellsStep DEF QuestIInv
    <2>2. CASE ServiceStep /\ UNCHANGED service
      <3> SUFFICES ASSUME service = "questdb" PROVE QuestTells'
        BY <2>2 DEF QuestIInv
      <3>1. QuestNext BY <2>2 DEF ServiceStep
      <3>2. QuestTells BY DEF QuestIInv
      <3> QED BY <3>1, <3>2, QuestTellsStep
    <2> QED BY <2>1, <2>2 DEF Next, Ended
  <1> QED BY <1>1, <1>2, PTL DEF Spec

(* QuestInStep: whatever a peer of QuestDB sends, each of its simple       *)
(* queries is in the trail, in order and with the text that                *)
(* run_questdb_service reads of it, and for each of them, and once after   *)
(* the login, it is told exactly once that it may go on; for messages of   *)
(* other types it is told nothing.                                         *)
THEOREM QuestAnswersOnce == Spec => []QuestInStep
  <1>1. QuestIInv => QuestInStep
    <2> SUFFICES ASSUME QuestIInv, service = "questdb" PROVE QuestInStep
      BY DEF QuestInStep
    <2> DEFINE s == local.segments
               Q == QueriesIn(s)
               c == Cardinality(Q)
    <2>1. QuestTells BY DEF QuestIInv
    <2>2. IsSeq(audit) /\ IsSeq(replies) /\ IsSeq(s) BY <2>1 DEF QuestTells, IsSeq
    <2>3. /\ DOMAIN audit = 1 .. Len(audit) /\ DOMAIN replies = 1 .. Len(replies)
          /\ DOMAIN s = 1 .. Len(s) /\ Len(audit) \in Nat
      BY <2>2, SeqShape
    <2>4. /\ Q = {i \in DOMAIN s : Head(s[i]).type = "Q"}
          /\ ReadyIn(replies) = {n \in DOMAIN replies : replies[n] = "ready"}
      BY <2>3 DEF QueriesIn, ReadyIn
    <2>5. c \in Nat BY <2>2, QueriesNext
    <2>6. /\ {n \in DOMAIN audit : audit[n][1] = "COMMAND"} = 3 .. 2 + c
          /\ \A i \in Q : IsTextOf(audit[QueryPlace(s, i)][2], Head(s[i]).sql)
          /\ {n \in DOMAIN audit : audit[n][1] = "AUTH_FAILURE"} # {} =>
                Cardinality(ReadyIn(replies)) = c + 1
      <3>1. CASE /\ s = <<>>
                 /\ \A n \in 1 .. Len(audit) : audit[n][1] \notin {"COMMAND", "AUTH_FAILURE"}
        <4>1. Len(s) = 0 BY <3>1, EmptyIsSeq
        <4>2. Q = {} BY <4>1 DEF QueriesIn
        <4>3. c = 0 BY <4>2, FS_EmptySet
        <4>4. 3 .. 2 + 0 = {} OBVIOUS
        <4>5. {n \in DOMAIN audit : audit[n][1] = "COMMAND"} = {} BY <3>1, <2>3
        <4>6. {n \in DOMAIN audit : audit[n][1] = "AUTH_FAILURE"} = {} BY <3>1, <2>3
        <4> QED BY <4>2, <4>3, <4>4, <4>5, <4>6
      <3>2. CASE QuestTold(audit, s) /\ Cardinality(ReadyIn(replies)) = c + 1
        <4>1. 3 .. 2 + c \subseteq 1 .. Len(audit) BY <3>2, <2>3, <2>5 DEF QuestTold
        <4>2. {n \in DOMAIN audit : audit[n][1] = "COMMAND"} = 3 .. 2 + c
          BY <4>1, <3>2, <2>3 DEF QuestTold
        <4> QED BY <4>2, <3>2 DEF QuestTold
      <3> QED BY <2>1, <3>1, <3>2 DEF QuestTells
    <2> QED BY <2>4, <2>6 DEF QuestInStep, QueryPlace
  <1> QED BY <1>1, QuestInvariance, PTL
----------------------------------------------------------------------------
(***************************************************************************)
(* PostgreSQL and QuestDB: parse_startup_username finds the user among the *)
(* parameters of the start-up message.                                     *)
(***************************************************************************)

IsAhead(n, stop, val, nxt, f) == f = [i \in 1 .. n |-> IF i \in stop THEN val[i] ELSE f[nxt[i]]]

(* A search that goes on only further ahead is defined everywhere. *)
LEMMA AheadExists ==
  ASSUME NEW n \in Nat, NEW stop, NEW val, NEW nxt,
         \A i \in 1 .. n : i \in stop \/ (nxt[i] \in 1 .. n /\ nxt[i] > i)
  PROVE  \E f : IsAhead(n, stop, val, nxt, f)
  <1> DEFINE D == 1 .. n
             Step(f, i) == IF i \in stop THEN val[i] ELSE f[nxt[i]]
             Done(f, k) == \A i \in D : i > n - k => f[i] = Step(f, i)
             S == {k \in Nat : \E f : f = [i \in D |-> f[i]] /\ Done(f, k)}
  <1>1. 0 \in S
    <2> DEFINE f == [i \in D |-> 0]
    <2>1. f = [i \in D |-> f[i]] OBVIOUS
    <2>2. \A i \in D : ~(i > n - 0) OBVIOUS
    <2>3. Done(f, 0) BY <2>2
    <2> HIDE DEF f
    <2> QED BY <2>1, <2>3
  <1>2. ASSUME NEW k \in S PROVE k + 1 \in S
    <2>1. PICK f : f = [i \in D |-> f[i]] /\ Done(f, k) OBVIOUS
    <2> DEFINE g == [i \in D |-> IF i = n - k THEN Step(f, i) ELSE f[i]]
    <2>2. g = [i \in D |-> g[i]] OBVIOUS
    <2>3. k \in Nat OBVIOUS
    <2>4. ASSUME NEW i \in D, i > n - (k + 1) PROVE g[i] = Step(g, i)
      <3>1. \A q \in D : q > i => f[q] = g[q] BY <2>3, <2>4
      <3>2. Step(f, i) = Step(g, i)
        <4> HIDE DEF g
        <4>1. CASE i \in stop BY <4>1
        <4>2. CASE nxt[i] \in 1 .. n /\ nxt[i] > i
          <5>1. f[nxt[i]] = g[nxt[i]] BY <4>2, <3>1
          <5> QED BY <5>1
        <4> QED BY <4>1, <4>2
      <3>3. CASE i = n - k
        <4>1. g[i] = Step(f, i) BY <3>3
        <4> HIDE DEF g
        <4> QED BY <3>2, <4>1
      <3>4. CASE i # n - k
        <4>1. i > n - k BY <2>3, <2>4, <3>4
        <4>2. f[i] = Step(f, i) BY <2>1, <4>1
        <4>3. g[i] = f[i] BY <3>4
        <4> HIDE DEF g
        <4> QED BY <3>2, <4>2, <4>3
      <3> QED BY <3>3, <3>4
    <2>5. Done(g, k + 1) BY <2>4
    <2> HIDE DEF g
    <2>6. k + 1 \in Nat BY <2>3
    <2> QED BY <2>2, <2>5, <2>6
  <1>3. S = Nat
    <2>1. S \subseteq Nat OBVIOUS
    <2> HIDE DEF S
    <2> QED BY <1>1, <1>2, <2>1, InductionBySet
  <1>4. n \in S BY <1>3
  <1>5. PICK f : f = [i \in D |-> f[i]] /\ Done(f, n) BY <1>4
  <1>6. \A i \in D : i > n - n OBVIOUS
  <1>7. \A i \in D : f[i] = Step(f, i) BY <1>5, <1>6
  <1>8. f = [i \in D |-> Step(f, i)] BY <1>5, <1>7
  <1> QED BY <1>8 DEF IsAhead

(* The end of the string at a place of any body. *)
LEMMA EndOfNat ==
  ASSUME NEW body, IsSeq(body), NEW i \in 1 .. Len(body) + 1
  PROVE  EndOf(body, i) \in i .. Len(body) + 1
  <1> DEFINE nuls == {j \in i .. Len(body) : body[j] = NUL}
  <1>1. Len(body) \in Nat BY SeqShape
  <1>2. nuls \subseteq i .. Len(body) /\ nuls \subseteq Nat BY <1>1
  <1>3. EndOf(body, i) = IF nuls = {} THEN Len(body) + 1 ELSE Min(nuls) BY DEF EndOf
  <1> HIDE DEF nuls
  <1>4. nuls # {} => Min(nuls) \in nuls BY <1>2, MinOfNat
  <1>5. Len(body) + 1 \in i .. Len(body) + 1 /\ i .. Len(body) \subseteq i .. Len(body) + 1
    BY <1>1
  <1>6. CASE nuls = {} BY <1>3, <1>5, <1>6
  <1>7. CASE nuls # {} BY <1>2, <1>3, <1>4, <1>5, <1>7
  <1> QED BY <1>6, <1>7

(* Where the place itself, or the next one, is a NUL. *)
LEMMA EndOfNext ==
  ASSUME NEW body, IsSeq(body), NEW i \in 1 .. Len(body), i + 1 <= Len(body),
         body[i] # NUL, body[i + 1] = NUL
  PROVE  EndOf(body, i) = i + 1
  <1> DEFINE nuls == {j \in i .. Len(body) : body[j] = NUL}
  <1>1. Len(body) \in Nat BY SeqShape
  <1>2. nuls \subseteq Nat /\ i + 1 \in nuls /\ \A j \in nuls : j >= i + 1 BY <1>1
  <1>3. EndOf(body, i) = IF nuls = {} THEN Len(body) + 1 ELSE Min(nuls) BY DEF EndOf
  <1> HIDE DEF nuls
  <1>4. Min(nuls) \in nuls /\ \A j \in nuls : Min(nuls) <= j BY <1>2, MinOfNat
  <1>5. Min(nuls) <= i + 1 /\ Min(nuls) >= i + 1 /\ Min(nuls) \in Nat BY <1>2, <1>4
  <1> QED BY <1>1, <1>2, <1>3, <1>5

UserStops(body) ==
  {i \in 1 .. Len(body) + 2 :
     LET v == EndOf(body, i) + 1
     IN  (i >= Len(body) \/ v = i + 1 \/ v > Len(body)) \/ SubSeq(body, i, v - 2) = <<USER>>}
UserFinds(body) ==
  [i \in 1 .. Len(body) + 2 |->
     LET v == EndOf(body, i) + 1
     IN  IF i >= Len(body) \/ v = i + 1 \/ v > Len(body) THEN 0 ELSE v]
UserGoesOn(body) == [i \in 1 .. Len(body) + 2 |-> NextKey(body, EndOf(body, i) + 1)]

(* The loop over the keys, as a function of the place. *)
LEMMA UserPlaceIs ==
  ASSUME NEW body, IsSeq(body)
  PROVE  \E f : /\ UserPlace(body) = f[1]
                /\ \A i \in 1 .. Len(body) + 2 :
                     f[i] = IF i \in UserStops(body) THEN UserFinds(body)[i] ELSE f[UserGoesOn(body)[i]]
  <1> DEFINE n == Len(body) + 2
             stop == UserStops(body)
             val == UserFinds(body)
             nxt == UserGoesOn(body)
             F(f) == [i \in 1 .. n |-> IF i \in stop THEN val[i] ELSE f[nxt[i]]]
             G(f) == [i \in 1 .. n |->
                        LET v == EndOf(body, i) + 1
                        IN  IF i >= Len(body) \/ v = i + 1 \/ v > Len(body) THEN 0
                            ELSE IF SubSeq(body, i, v - 2) = <<USER>> THEN v
                            ELSE f[NextKey(body, v)]]
  <1>1. Len(body) \in Nat /\ n \in Nat BY SeqShape
  <1>2. \A i \in 1 .. n : i \in stop \/ (nxt[i] \in 1 .. n /\ nxt[i] > i)
    <2> SUFFICES ASSUME NEW i \in 1 .. n, i \notin stop PROVE nxt[i] \in 1 .. n /\ nxt[i] > i
      OBVIOUS
    <2> DEFINE v == EndOf(body, i) + 1
    <2>1. ~(i >= Len(body)) /\ ~(v > Len(body)) BY DEF UserStops
    <2>2. i \in 1 .. Len(body) + 1 BY <2>1, <1>1
    <2>3. EndOf(body, i) \in i .. Len(body) + 1 BY <2>2, EndOfNat
    <2>4. v \in 1 .. Len(body) + 1 /\ v > i BY <2>1, <2>2, <2>3, <1>1
    <2>5. EndOf(body, v) \in v .. Len(body) + 1 BY <2>4, EndOfNat
    <2>6. nxt[i] = EndOf(body, v) + 1 BY DEF UserGoesOn, NextKey
    <2> HIDE DEF v
    <2> QED BY <2>2, <2>4, <2>5, <2>6, <1>1
  <1> HIDE DEF n
  <1>3. \E f : IsAhead(n, stop, val, nxt, f)
    <2> HIDE DEF stop, val, nxt
    <2> QED BY <1>1, <1>2, AheadExists
  <1>4. PICK g : g = F(g) BY <1>3 DEF IsAhead
  <1>5. \A f : F(f) = G(f)
    BY DEF UserStops, UserFinds, UserGoesOn, n
  <1>6. UserPlace(body) = (CHOOSE f : f = G(f))[1] BY DEF UserPlace, n
  <1> DEFINE h == CHOOSE f : f = G(f)
  <1>7. h = G(h)
    <2>1. g = G(g) BY <1>4, <1>5
    <2> QED BY <2>1
  <1>8. UserPlace(body) = h[1] BY <1>6
  <1> HIDE DEF h
  <1>9. h = F(h) BY <1>5, <1>7
  <1>10. \A i \in 1 .. n : h[i] = IF i \in stop THEN val[i] ELSE h[nxt[i]] BY <1>9
  <1> QED BY <1>8, <1>10 DEF n

ParameterText == STRING \ {NUL}
FirstUser(list) == {j \in 1 .. Len(list) : list[j][1] = USER}

(* The four bytes of a pair, and the last one. *)
LEMMA ParametersAre ==
  ASSUME NEW list \in Seq(ParameterText \X ParameterText)
  PROVE  LET B == Parameters(list)
         IN  /\ IsSeq(B) /\ Len(B) = 4 * Len(list) + 1
             /\ \A j \in 1 .. Len(list) :
                  /\ B[4 * j - 3] = list[j][1] /\ B[4 * j - 2] = NUL
                  /\ B[4 * j - 1] = list[j][2] /\ B[4 * j] = NUL
                  /\ list[j][1] # NUL /\ list[j][2] # NUL
  <1> DEFINE B == Parameters(list)
             N == 4 * Len(list) + 1
  <1>1. Len(list) \in Nat /\ N \in Nat OBVIOUS
  <1>2. ASSUME NEW j \in 1 .. Len(list)
        PROVE  list[j][1] \in ParameterText /\ list[j][2] \in ParameterText
    <2> DEFINE P == ParameterText \X ParameterText
    <2> HIDE DEF P
    <2>1. list \in Seq(P) BY DEF P
    <2>2. list[j] \in P BY <2>1, ByteOf
    <2>3. \A p \in ParameterText \X ParameterText : p[1] \in ParameterText /\ p[2] \in ParameterText
      OBVIOUS
    <2> QED BY <2>2, <2>3 DEF P
  <1>3. \A n \in 1 .. N : B[n] = IF n % 2 = 0 \/ n = N THEN NUL
                                 ELSE list[(n + 3) \div 4][IF n % 4 = 1 THEN 1 ELSE 2]
    BY DEF Parameters
  <1>4. DOMAIN B = 1 .. N BY DEF Parameters
  <1> DEFINE T == ParameterText \cup {NUL}
  <1>5. B \in Seq(T)
    <2>1. ASSUME NEW n \in 1 .. N PROVE B[n] \in T
      <3>2. CASE n % 2 = 0 \/ n = N BY <3>2, <1>3
      <3>3. CASE ~(n % 2 = 0 \/ n = N)
        <4>1. (n + 3) \div 4 \in 1 .. Len(list) BY <3>3, <1>1
        <4>2. B[n] = list[(n + 3) \div 4][IF n % 4 = 1 THEN 1 ELSE 2] BY <3>3, <1>3
        <4> QED BY <4>1, <4>2, <1>2
      <3> QED BY <3>2, <3>3
    <2>2. B = [n \in 1 .. N |-> B[n]] BY DEF Parameters
    <2> HIDE DEF B, T
    <2>3. B \in [1 .. N -> T] BY <2>1, <2>2
    <2> QED BY <2>3, <1>1
  <1>6. Len(B) = N
    <2> HIDE DEF B
    <2> QED BY <1>1, <1>4, <1>5
  <1> HIDE DEF B
  <1>7. ASSUME NEW j \in 1 .. Len(list)
        PROVE  /\ B[4 * j - 3] = list[j][1] /\ B[4 * j - 2] = NUL
               /\ B[4 * j - 1] = list[j][2] /\ B[4 * j] = NUL
    <2>1. /\ 4 * j - 3 \in 1 .. N /\ (4 * j - 3) % 2 # 0 /\ 4 * j - 3 # N
          /\ ((4 * j - 3) + 3) \div 4 = j /\ (4 * j - 3) % 4 = 1
      BY <1>1
    <2>2. 4 * j - 2 \in 1 .. N /\ (4 * j - 2) % 2 = 0 BY <1>1
    <2>3. /\ 4 * j - 1 \in 1 .. N /\ (4 * j - 1) % 2 # 0 /\ 4 * j - 1 # N
          /\ ((4 * j - 1) + 3) \div 4 = j /\ (4 * j - 1) % 4 # 1
      BY <1>1
    <2>4. 4 * j \in 1 .. N /\ (4 * j) % 2 = 0 BY <1>1
    <2>5. B[4 * j - 3] = list[j][1] BY <1>3, <2>1
    <2>6. B[4 * j - 1] = list[j][2] BY <1>3, <2>3
    <2>7. B[4 * j - 2] = NUL /\ B[4 * j] = NUL BY <1>3, <2>2, <2>4
    <2> QED BY <2>5, <2>6, <2>7
  <1>8. \A j \in 1 .. Len(list) : list[j][1] # NUL /\ list[j][2] # NUL
    BY <1>2 DEF ParameterText
  <1>9. IsSeq(B) BY <1>5 DEF IsSeq
  <1> QED BY <1>6, <1>7, <1>8, <1>9 DEF B

(* A subsequence of one. *)
LEMMA OneByte ==
  ASSUME NEW s, NEW i \in Nat
  PROVE  SubSeq(s, i, i) = <<s[i]>>
  <1> DEFINE t == SubSeq(s, i, i)
  <1>1. /\ IsSeq(t) /\ Len(t) = (IF i <= i THEN i - i + 1 ELSE 0)
        /\ \A k \in 1 .. i - i + 1 : t[k] = s[i + k - 1]
    BY SubSeqShape
  <1> HIDE DEF t
  <1>2. Len(t) = 1 /\ 1 \in 1 .. i - i + 1 /\ i + 1 - 1 = i BY <1>1
  <1>3. t[1] = s[i] BY <1>1, <1>2
  <1>4. IsSeq(<<s[i]>>) /\ Len(<<s[i]>>) = 1 /\ <<s[i]>>[1] = s[i] BY OneSeq
  <1>5. t = <<s[i]>>
    <2>1. \A k \in 1 .. 1 : k = 1 OBVIOUS
    <2>2. \A k \in 1 .. Len(t) : t[k] = <<s[i]>>[k] BY <1>2, <1>3, <1>4, <2>1
    <2> QED BY <1>1, <1>2, <1>4, <2>2, SameSeq
  <1> QED BY <1>5 DEF t

(* One turn of the loop, at a key of the list. *)
LEMMA UserTurn ==
  ASSUME NEW list \in Seq(ParameterText \X ParameterText), NEW j \in 1 .. Len(list)
  PROVE  LET B == Parameters(list)
             i == 4 * j - 3
         IN  /\ i \in 1 .. Len(B) + 2
             /\ i \in UserStops(B) <=> list[j][1] = USER
             /\ UserFinds(B)[i] = 4 * j - 1
             /\ UserGoesOn(B)[i] = 4 * (j + 1) - 3
             /\ EndOf(B, 4 * j - 1) = 4 * j
  <1> DEFINE B == Parameters(list)
             i == 4 * j - 3
  <1>1. /\ IsSeq(B) /\ Len(B) = 4 * Len(list) + 1
        /\ B[i] = list[j][1] /\ B[4 * j - 2] = NUL
        /\ B[4 * j - 1] = list[j][2] /\ B[4 * j] = NUL
        /\ list[j][1] # NUL /\ list[j][2] # NUL
    BY ParametersAre
  <1> HIDE DEF B
  <1>2. Len(list) \in Nat /\ Len(B) \in Nat BY <1>1, SeqShape
  <1>3. /\ i \in 1 .. Len(B) /\ i + 1 = 4 * j - 2 /\ i + 1 <= Len(B) /\ i < Len(B)
        /\ 4 * j - 1 \in 1 .. Len(B) /\ (4 * j - 1) + 1 = 4 * j /\ (4 * j - 1) + 1 <= Len(B)
        /\ i \in Nat /\ 4 * j - 1 \in Nat /\ i \in 1 .. Len(B) + 2
    BY <1>1, <1>2
  <1>4. EndOf(B, i) = 4 * j - 2 BY <1>1, <1>3, EndOfNext
  <1>5. EndOf(B, 4 * j - 1) = 4 * j BY <1>1, <1>3, EndOfNext
  <1>6. EndOf(B, i) + 1 = 4 * j - 1 /\ (4 * j - 1) - 2 = i BY <1>4, <1>2
  <1>7. ~(i >= Len(B) \/ 4 * j - 1 = i + 1 \/ 4 * j - 1 > Len(B)) BY <1>1, <1>2, <1>3
  <1>8. SubSeq(B, i, i) = <<list[j][1]>> BY <1>1, <1>3, OneByte
  <1>9. i \in UserStops(B) <=> list[j][1] = USER
    <2>1. i \in UserStops(B) <=> SubSeq(B, i, i) = <<USER>> BY <1>3, <1>6, <1>7 DEF UserStops
    <2>2. <<list[j][1]>> = <<USER>> <=> list[j][1] = USER OBVIOUS
    <2> QED BY <2>1, <2>2, <1>8
  <1>10. UserFinds(B)[i] = 4 * j - 1 BY <1>3, <1>6, <1>7 DEF UserFinds
  <1>11. UserGoesOn(B)[i] = 4 * (j + 1) - 3
    <2>1. UserGoesOn(B)[i] = EndOf(B, 4 * j - 1) + 1 BY <1>3, <1>6 DEF UserGoesOn, NextKey
    <2>2. 4 * j + 1 = 4 * (j + 1) - 3 OBVIOUS
    <2> QED BY <2>1, <2>2, <1>5
  <1> QED BY <1>3, <1>5, <1>9, <1>10, <1>11 DEF B

(* The name that parse_startup_username finds. *)
LEMMA UserFound ==
  ASSUME NEW list \in Seq(ParameterText \X ParameterText)
  PROVE  UserNames(Parameters(list)) =
           {IF FirstUser(list) = {} THEN <<>>
            ELSE Cut(<<list[Min(FirstUser(list))][2]>>, UserSize)}
  <1> DEFINE B == Parameters(list)
             n == Len(list)
             U == FirstUser(list)
             m == IF U = {} THEN n + 1 ELSE Min(U)
  <1>1. IsSeq(B) /\ Len(B) = 4 * n + 1 BY ParametersAre
  <1>2. n \in Nat OBVIOUS
  <1>3. U \subseteq 1 .. n /\ U \subseteq Nat BY DEF FirstUser
  <1>4. U # {} => Min(U) \in U /\ \A y \in U : Min(U) <= y BY <1>3, MinOfNat
  <1>5. /\ m \in 1 .. n + 1
        /\ \A j \in 1 .. n : j < m => list[j][1] # USER
        /\ U = {} => m = n + 1
        /\ U # {} => m \in 1 .. n /\ list[m][1] = USER
    <2>1. CASE U = {}
      <3>1. m = n + 1 BY <2>1
      <3> HIDE DEF m
      <3> QED BY <2>1, <3>1, <1>2 DEF FirstUser
    <2>2. CASE U # {}
      <3>1. m = Min(U) BY <2>2
      <3> HIDE DEF m
      <3>2. m \in U /\ \A y \in U : m <= y BY <3>1, <2>2, <1>4
      <3>3. m \in 1 .. n /\ list[m][1] = USER BY <3>2 DEF FirstUser
      <3>4. ASSUME NEW j \in 1 .. n, j < m PROVE list[j][1] # USER
        <4>1. ~(m <= j) BY <3>3, <3>4, <1>2
        <4>2. j \notin U BY <4>1, <3>2
        <4> QED BY <4>2 DEF FirstUser
      <3> QED BY <2>2, <3>3, <3>4, <1>2
    <2> QED BY <2>1, <2>2
  <1> HIDE DEF m
  <1>6. PICK f : /\ UserPlace(B) = f[1]
                 /\ \A i \in 1 .. Len(B) + 2 :
                      f[i] = IF i \in UserStops(B) THEN UserFinds(B)[i] ELSE f[UserGoesOn(B)[i]]
    BY <1>1, UserPlaceIs
  <1>7. \A j \in 1 .. n : f[4 * j - 3] = IF list[j][1] = USER THEN 4 * j - 1 ELSE f[4 * (j + 1) - 3]
    <2> SUFFICES ASSUME NEW j \in 1 .. n
                 PROVE  f[4 * j - 3] = IF list[j][1] = USER THEN 4 * j - 1 ELSE f[4 * (j + 1) - 3]
      OBVIOUS
    <2>1. /\ 4 * j - 3 \in 1 .. Len(B) + 2
          /\ 4 * j - 3 \in UserStops(B) <=> list[j][1] = USER
          /\ UserFinds(B)[4 * j - 3] = 4 * j - 1
          /\ UserGoesOn(B)[4 * j - 3] = 4 * (j + 1) - 3
      BY UserTurn
    <2> HIDE DEF B
    <2> QED BY <2>1, <1>6
  <1>8. UserPlace(B) = f[4 * m - 3]
    <2> DEFINE S == {k \in Nat : k < m => f[1] = f[4 * (k + 1) - 3]}
    <2>1. 0 \in S
      <3>1. 4 * (0 + 1) - 3 = 1 OBVIOUS
      <3> QED BY <3>1
    <2>2. ASSUME NEW k \in S PROVE k + 1 \in S
      <3> SUFFICES ASSUME k + 1 < m PROVE f[1] = f[4 * ((k + 1) + 1) - 3]
        OBVIOUS
      <3>1. k < m /\ k + 1 \in 1 .. n BY <1>2, <1>5
      <3>2. list[k + 1][1] # USER BY <3>1, <1>5
      <3>3. f[4 * (k + 1) - 3] = f[4 * ((k + 1) + 1) - 3] BY <3>1, <3>2, <1>7
      <3>4. f[1] = f[4 * (k + 1) - 3] BY <3>1
      <3> QED BY <3>3, <3>4
    <2>3. m - 1 \in S
      <3>1. S \subseteq Nat /\ m - 1 \in Nat BY <1>2, <1>5
      <3> HIDE DEF S
      <3> QED BY <3>1, <2>1, <2>2, InductionBySet
    <2>4. m - 1 < m /\ (m - 1) + 1 = m BY <1>2, <1>5
    <2> QED BY <2>3, <2>4, <1>6
  <1>9. CASE U = {}
    <2> DEFINE i == 4 * m - 3
    <2>1. i = Len(B) /\ i \in 1 .. Len(B) + 2 /\ i >= Len(B) BY <1>1, <1>2, <1>5, <1>9
    <2>2. i \in UserStops(B) /\ UserFinds(B)[i] = 0 BY <2>1 DEF UserStops, UserFinds
    <2>3. UserPlace(B) = 0
      <3> HIDE DEF i, B
      <3>1. UserPlace(B) = f[i] BY <1>8 DEF i
      <3> QED BY <3>1, <2>1, <2>2, <1>6
    <2> HIDE DEF B
    <2>4. UserNames(B) = {<<>>} BY <2>3 DEF UserNames
    <2> QED BY <2>4, <1>9 DEF B
  <1>10. CASE U # {}
    <2> DEFINE v == 4 * m - 1
    <2>1. m \in 1 .. n /\ list[m][1] = USER /\ m = Min(U) BY <1>5, <1>10 DEF m
    <2>2. f[4 * m - 3] = v BY <2>1, <1>7
    <2>3. UserPlace(B) = v BY <2>2, <1>8
    <2>4. EndOf(B, v) = 4 * m BY <2>1, UserTurn
    <2>5. B[v] = list[m][2] BY <2>1, ParametersAre
    <2>6. /\ v # 0 /\ v \in Nat /\ 4 * m <= Len(B) /\ 4 * m - 1 = v BY <2>1, <1>1, <1>2
    <2>7. SubSeq(B, v, v) = <<list[m][2]>> BY <2>5, <2>6, OneByte
    <2> HIDE DEF v, B
    <2>8. UserNames(B) = {Cut(<<list[m][2]>>, UserSize)}
      BY <2>3, <2>4, <2>6, <2>7 DEF UserNames
    <2> QED BY <2>1, <2>8, <1>10 DEF B
  <1> QED BY <1>9, <1>10

(* The name is found in the message that is kept, and recorded with it. *)
UserKept ==
  /\ DOMAIN local = {"user", "start", "segments"} /\ IsSeq(audit)
  /\ local.start \in StartBodies \cup {<<>>}
  /\ pc = "password" => local.user \in UserNames(local.start)
  /\ \A n \in 1 .. Len(audit) : audit[n][1] = "AUTH_FAILURE" =>
       audit[n][2] \in UserNames(local.start) /\ pc \notin {"startup", "restart", "password"}

PgIInv == service \in {"postgresql", "questdb"} => UserKept

(* UserKept holds at the start. *)
LEMMA UserKeptInit == PgInit => UserKept
  <1> SUFFICES ASSUME PgInit PROVE UserKept
    OBVIOUS
  <1>1. /\ local = [user |-> <<>>, start |-> <<>>, segments |-> <<>>] /\ pc = "startup"
        /\ audit = <<<<"CONNECT">>>>
    BY DEF PgInit, Begins
  <1>2. IsSeq(audit) /\ Len(audit) = 1 /\ audit[1] = <<"CONNECT">> BY <1>1, OneSeq
  <1>3. audit[1][1] = "CONNECT" /\ \A i \in 1 .. 1 : i = 1 BY <1>2
  <1>4. DOMAIN local = {"user", "start", "segments"} /\ local.start = <<>> BY <1>1
  <1> QED BY <1>1, <1>2, <1>3, <1>4 DEF UserKept

(* A step that records another kind of event, or none, keeps UserKept. *)
LEMMA UserKeptOn ==
  ASSUME UserKept, DOMAIN local' = {"user", "start", "segments"}, local'.start = local.start,
         pc' # "password" \/ local'.user \in UserNames(local.start),
         pc' \in {"startup", "restart", "password"} => pc \in {"startup", "restart", "password"},
         audit' = audit \/ \E e : e[1] # "AUTH_FAILURE" /\ audit' = Append(audit, e)
  PROVE  UserKept'
  <1>1. IsSeq(audit) /\ Len(audit) \in Nat BY SeqShape DEF UserKept
  <1>2. CASE audit' = audit BY <1>2 DEF UserKept
  <1>3. ASSUME NEW e, e[1] # "AUTH_FAILURE", audit' = Append(audit, e) PROVE UserKept'
    <2>1. /\ IsSeq(audit') /\ Len(audit') = Len(audit) + 1 /\ audit'[Len(audit) + 1] = e
          /\ \A n \in 1 .. Len(audit) : audit'[n] = audit[n]
      BY <1>1, <1>3, AppendShape
    <2>2. \A n \in 1 .. Len(audit') : n = Len(audit) + 1 \/ n \in 1 .. Len(audit) BY <1>1, <2>1
    <2>3. \A n \in 1 .. Len(audit') : audit'[n][1] = "AUTH_FAILURE" =>
            n \in 1 .. Len(audit) /\ audit'[n] = audit[n]
      BY <1>3, <2>1, <2>2
    <2> QED BY <2>1, <2>3 DEF UserKept
  <1> QED BY <1>2, <1>3

(* Each step of the two services keeps UserKept. *)
LEMMA UserKeptStep ==
  ASSUME UserKept, QuestNext \/ UNCHANGED <<pc, local, audit>>
  PROVE  UserKept'
  <1>0. DOMAIN local = {"user", "start", "segments"} /\ IsSeq(audit) BY DEF UserKept
  <1>1. ASSUME NEW m \in Startup, PgStartup(m) \/ PgRestart(m) PROVE UserKept'
    <2>1. /\ pc \in {"startup", "restart"} /\ pc' \in {"end", "restart", "password"}
          /\ audit' = audit
          /\ \/ local' = local /\ pc' # "password"
             \/ \E name \in UserNames(m.body) : local' = [local EXCEPT !.user = name, !.start = m.body]
      BY <1>1 DEF PgStartup, PgRestart, PgGiveUp, AskPassword, Refuse
    <2>2. \A n \in 1 .. Len(audit) : audit[n][1] # "AUTH_FAILURE" BY <2>1 DEF UserKept
    <2>3. CASE local' = local /\ pc' # "password" BY <2>1, <2>2, <2>3, <1>0 DEF UserKept
    <2>4. ASSUME NEW name \in UserNames(m.body), local' = [local EXCEPT !.user = name, !.start = m.body]
          PROVE  UserKept'
      <3>1. DOMAIN local' = {"user", "start", "segments"} /\ local'.user = name /\ local'.start = m.body
        BY <1>0, <2>4
      <3>2. m.body \in StartBodies \cup {<<>>} BY DEF Startup
      <3> QED BY <3>1, <3>2, <1>0, <2>1, <2>2 DEF UserKept
    <2> QED BY <2>1, <2>3, <2>4
  <1>2. ASSUME NEW text \in PasswordTexts, PgPassword(text) PROVE UserKept'
    <2> DEFINE e == <<"AUTH_FAILURE", local.user, Cut(CString(text), UserSize)>>
    <2>1. /\ pc = "password" /\ pc' \in {"end", "query"} /\ local' = local
          /\ audit' = Append(audit, e)
      BY <1>2 DEF PgPassword
    <2>2. e[2] = local.user OBVIOUS
    <2> HIDE DEF e
    <2>3. Len(audit) \in Nat BY <1>0, SeqShape
    <2>4. /\ IsSeq(audit') /\ Len(audit') = Len(audit) + 1 /\ audit'[Len(audit) + 1] = e
          /\ \A n \in 1 .. Len(audit) : audit'[n] = audit[n]
      BY <1>0, <2>1, AppendShape
    <2>5. \A n \in 1 .. Len(audit') : n = Len(audit) + 1 \/ n \in 1 .. Len(audit) BY <2>3, <2>4
    <2>6. local.user \in UserNames(local.start) BY <2>1 DEF UserKept
    <2>7. \A n \in 1 .. Len(audit') :
            audit'[n][1] = "AUTH_FAILURE" => audit'[n][2] \in UserNames(local.start)
      BY <2>2, <2>4, <2>5, <2>6 DEF UserKept
    <2> QED BY <1>0, <2>1, <2>4, <2>7 DEF UserKept
  <1>3. CASE PgNoPassword \/ PeerGone({"startup", "restart"}) \/ PeerGone({"query"})
    <2>1. local' = local /\ audit' = audit /\ pc' = "end"
      BY <1>3 DEF PgNoPassword, PgGiveUp, PeerGone
    <2> QED BY <1>0, <2>1, UserKeptOn
  <1>4. CASE EndSession
    <2>1. local' = local /\ pc' = "ended" /\ audit' = Append(audit, <<"DISCONNECT">>)
      BY <1>4 DEF EndSession
    <2>2. <<"DISCONNECT">>[1] # "AUTH_FAILURE" OBVIOUS
    <2>3. \E e : e[1] # "AUTH_FAILURE" /\ audit' = Append(audit, e) BY <2>1, <2>2
    <2> QED BY <1>0, <2>1, <2>3, UserKeptOn
  <1>5. ASSUME NEW s \in QuestSegments, QuestQuery(s) PROVE UserKept'
    <2>1. /\ pc' \in {"query", "end"} /\ local' = [local EXCEPT !.segments = Append(@, s)]
          /\ audit' = audit \/ \E x : audit' = Append(audit, <<"COMMAND", x>>)
      BY <1>5 DEF QuestQuery
    <2>2. \A x : <<"COMMAND", x>>[1] # "AUTH_FAILURE" OBVIOUS
    <2>3. audit' = audit \/ \E e : e[1] # "AUTH_FAILURE" /\ audit' = Append(audit, e)
      BY <2>1, <2>2
    <2>4. DOMAIN local' = {"user", "start", "segments"} /\ local'.start = local.start
      BY <1>0, <2>1
    <2> QED BY <2>1, <2>3, <2>4, UserKeptOn
  <1>6. CASE UNCHANGED <<pc, local, audit>> BY <1>6 DEF UserKept
  <1> QED BY <1>1, <1>2, <1>3, <1>4, <1>5, <1>6 DEF QuestNext, PgNext

(* PgIInv is an invariant. *)
LEMMA PgInvariance == Spec => []PgIInv
  <1>1. Init => PgIInv
    <2> SUFFICES ASSUME Init, service \in {"postgresql", "questdb"} PROVE UserKept
      BY DEF PgIInv
    <2>1. PgInit BY DEF Init
    <2> QED BY <2>1, UserKeptInit
  <1>2. PgIInv /\ [Next]_session => PgIInv'
    <2> SUFFICES ASSUME PgIInv, [Next]_session PROVE PgIInv'
      OBVIOUS
    <2>1. CASE UNCHANGED session
      <3>1. UNCHANGED <<service, pc, local, audit>> BY <2>1 DEF session
      <3> QED BY <3>1, UserKeptStep DEF PgIInv
    <2>2. CASE ServiceStep /\ UNCHANGED service
      <3> SUFFICES ASSUME service \in {"postgresql", "questdb"} PROVE UserKept'
        BY <2>2 DEF PgIInv
      <3>1. QuestNext BY <2>2 DEF ServiceStep, QuestNext
      <3>2. UserKept BY DEF PgIInv
      <3> QED BY <3>1, <3>2, UserKeptStep
    <2> QED BY <2>1, <2>2 DEF Next, Ended
  <1> QED BY <1>1, <1>2, PTL DEF Spec

(* PgUserAsNamed: of any list of parameters, parse_startup_username gives  *)
(* the value of the first key "user" to the trail, and no other value.     *)
THEOREM PgFindsUser == Spec => []PgUserAsNamed
  <1> USE PgAssumption
  <1>1. PgIInv => PgUserAsNamed
    <2> SUFFICES ASSUME PgIInv, NEW i \in DOMAIN audit, service \in {"postgresql", "questdb"},
                        audit[i][1] = "AUTH_FAILURE",
                        NEW list \in ParameterLists, local.start = Parameters(list)
                 PROVE  LET named == {j \in DOMAIN list : list[j][1] = USER}
                        IN  audit[i][2] = IF named = {} THEN <<>>
                                          ELSE Cut(<<list[Min(named)][2]>>, UserSize)
      BY DEF PgUserAsNamed
    <2>1. UserKept /\ IsSeq(audit) BY DEF PgIInv, UserKept
    <2>2. DOMAIN audit = 1 .. Len(audit) BY <2>1, SeqShape
    <2>3. audit[i][2] \in UserNames(Parameters(list)) BY <2>1, <2>2 DEF UserKept
    <2>4. list \in Seq(ParameterText \X ParameterText) BY DEF PgAssumption, ParameterText
    <2>5. UserNames(Parameters(list)) =
            {IF FirstUser(list) = {} THEN <<>>
             ELSE Cut(<<list[Min(FirstUser(list))][2]>>, UserSize)}
      BY <2>4, UserFound
    <2>6. DOMAIN list = 1 .. Len(list)
      <3>1. IsSeq(list) BY <2>4 DEF IsSeq
      <3> QED BY <3>1, SeqShape
    <2>7. FirstUser(list) = {j \in DOMAIN list : list[j][1] = USER} BY <2>6 DEF FirstUser
    <2> QED BY <2>3, <2>5, <2>7
  <1> QED BY <1>1, PgInvariance, PTL
----------------------------------------------------------------------------
(* The place that the search for the user gives is inside the message. *)
LEMMA UserPlaceInside ==
  ASSUME NEW body, IsSeq(body)
  PROVE  UserPlace(body) \in 0 .. Len(body)
  <1> DEFINE n == Len(body) + 2
             stop == UserStops(body)
             val == UserFinds(body)
             nxt == UserGoesOn(body)
  <1>1. Len(body) \in Nat /\ n \in Nat BY SeqShape
  <1>2. PICK f : /\ UserPlace(body) = f[1]
                 /\ \A i \in 1 .. n : f[i] = IF i \in stop THEN val[i] ELSE f[nxt[i]]
    BY UserPlaceIs
  <1>3. ASSUME NEW i \in 1 .. n, i \in stop PROVE val[i] \in 0 .. Len(body)
    <2> DEFINE v == EndOf(body, i) + 1
    <2>1. val[i] = IF i >= Len(body) \/ v = i + 1 \/ v > Len(body) THEN 0 ELSE v BY DEF UserFinds
    <2>2. CASE val[i] = 0 BY <2>2, <1>1
    <2>3. CASE ~(i >= Len(body)) /\ ~(v > Len(body)) /\ val[i] = v
      <3>1. i \in 1 .. Len(body) + 1 BY <2>3, <1>1
      <3>2. EndOf(body, i) \in i .. Len(body) + 1 BY <3>1, EndOfNat
      <3> QED BY <2>3, <3>1, <3>2, <1>1
    <2> QED BY <2>1, <2>2, <2>3
  <1>4. ASSUME NEW i \in 1 .. n, i \notin stop PROVE nxt[i] \in 1 .. n /\ nxt[i] > i
    <2> DEFINE v == EndOf(body, i) + 1
    <2>1. ~(i >= Len(body)) /\ ~(v > Len(body)) BY <1>4 DEF UserStops
    <2>2. i \in 1 .. Len(body) + 1 BY <2>1, <1>1
    <2>3. EndOf(body, i) \in i .. Len(body) + 1 BY <2>2, EndOfNat
    <2>4. v \in 1 .. Len(body) + 1 /\ v > i BY <2>1, <2>2, <2>3, <1>1
    <2>5. EndOf(body, v) \in v .. Len(body) + 1 BY <2>4, EndOfNat
    <2>6. nxt[i] = EndOf(body, v) + 1 BY DEF UserGoesOn, NextKey
    <2> HIDE DEF v
    <2> QED BY <2>2, <2>4, <2>5, <2>6, <1>1
  <1> HIDE DEF n, stop, val, nxt
  <1> DEFINE S == {k \in Nat : \A i \in 1 .. n : i > n - k => f[i] \in 0 .. Len(body)}
  <1>5. S \subseteq Nat /\ 0 \in S BY <1>1
  <1>6. ASSUME NEW k \in S PROVE k + 1 \in S
    <2>1. k \in Nat /\ \A i \in 1 .. n : i > n - k => f[i] \in 0 .. Len(body) OBVIOUS
    <2>2. ASSUME NEW i \in 1 .. n, i > n - (k + 1) PROVE f[i] \in 0 .. Len(body)
      <3>1. CASE i \in stop BY <1>2, <1>3, <3>1
      <3>2. CASE i \notin stop
        <4>1. nxt[i] \in 1 .. n /\ nxt[i] > i /\ f[i] = f[nxt[i]] BY <1>2, <1>4, <3>2
        <4>2. nxt[i] > n - k BY <2>1, <2>2, <4>1, <1>1
        <4> QED BY <2>1, <4>1, <4>2
      <3> QED BY <3>1, <3>2
    <2> QED BY <2>1, <2>2
  <1> HIDE DEF S
  <1>7. S = Nat BY <1>5, <1>6, InductionBySet
  <1>8. \A i \in 1 .. n : i > n - n => f[i] \in 0 .. Len(body) BY <1>1, <1>7 DEF S
  <1>9. 1 \in 1 .. n /\ 1 > n - n BY <1>1 DEF n
  <1> QED BY <1>2, <1>8, <1>9

(* How far strncpy reads for the name. *)
LEMMA NameReadInside ==
  ASSUME PgAssumption, NEW body \in StartBodies \cup {<<>>}
  PROVE  \/ UserReads(body) <= StartRoom
         \/ Last(body) # NUL /\ Len(body) > StartRoom - UserSize + 1
  <1> DEFINE v == UserPlace(body)
             n == Len(body)
             e == EndOf(body, v)
             most == v + UserSize - 2
  <1>1. IsSeq(body) /\ n <= StartRoom /\ StartRoom \in Nat /\ UserSize \in Nat \ {0}
    <2>1. CASE body = <<>> BY <2>1, EmptyIsSeq DEF PgAssumption
    <2>2. CASE body \in StartBodies BY <2>2 DEF PgAssumption, IsSeq
    <2> QED BY <2>1, <2>2
  <1>2. n \in Nat /\ v \in 0 .. n BY <1>1, SeqShape, UserPlaceInside
  <1>3. UserReads(body) = IF v = 0 THEN 0 ELSE IF e <= n THEN Min({e, most}) ELSE most
    BY DEF UserReads
  <1>4. v # 0 => e \in v .. n + 1
    <2>1. v # 0 => v \in 1 .. n + 1 BY <1>2
    <2> HIDE DEF v
    <2> QED BY <2>1, <1>1, EndOfNat
  <1>5. Last(body) = body[n] BY DEF Last
  <1>6. v # 0 /\ ~(e <= n) => body[n] # NUL
    <2> SUFFICES ASSUME v # 0, ~(e <= n), body[n] = NUL PROVE FALSE
      OBVIOUS
    <2> DEFINE nuls == {j \in v .. n : body[j] = NUL}
    <2>1. n \in nuls /\ nuls \subseteq v .. n /\ nuls \subseteq Nat BY <1>2
    <2>2. e = IF nuls = {} THEN n + 1 ELSE Min(nuls) BY DEF EndOf
    <2> HIDE DEF nuls, v, n, e
    <2>3. Min(nuls) \in nuls BY <2>1, MinOfNat
    <2> QED BY <1>2, <2>1, <2>2, <2>3
  <1> HIDE DEF v, n, e
  <1>7. CASE v = 0 BY <1>1, <1>3, <1>7
  <1>8. CASE v # 0 /\ e <= n
    <2>1. e \in Nat /\ most \in Nat BY <1>1, <1>2, <1>4, <1>8
    <2> HIDE DEF most
    <2>2. Min({e, most}) \in Nat /\ Min({e, most}) <= e BY <2>1, MinOfTwo
    <2> QED BY <1>1, <1>2, <1>3, <1>8, <2>1, <2>2
  <1>9. CASE v # 0 /\ ~(e <= n)
    <2>1. CASE most <= StartRoom BY <1>3, <1>9, <2>1
    <2>2. CASE ~(most <= StartRoom)
      <3>1. n > StartRoom - UserSize + 1 BY <1>1, <1>2, <2>2
      <3> QED BY <1>5, <1>6, <1>9, <3>1 DEF n
    <2> QED BY <2>1, <2>2
  <1> QED BY <1>7, <1>8, <1>9

BufferIInv ==
  /\ FtpIInv /\ RedisIInv /\ PgIInv
  /\ service = "smtp" => SmtpFits
  /\ service = "dns" => DnsFits

(* BufferIInv is an invariant. *)
LEMMA BufferInvariance == Spec => []BufferIInv
  <1> DEFINE I == (service = "smtp" => SmtpFits) /\ (service = "dns" => DnsFits)
  <1>1. Init => I
    BY SmtpAssumption, SmtpFitsInit, DnsFitsInit DEF Init
  <1>2. I /\ [Next]_session => I'
    <2> SUFFICES ASSUME I, [Next]_session PROVE I'
      OBVIOUS
    <2>1. CASE UNCHANGED session
      <3>1. SmtpFits => SmtpFits' BY <2>1 DEF session, SmtpFits, SmtpRest
      <3>2. DnsFits => DnsFits' BY <2>1 DEF session, DnsFits, ReplyFits
      <3> QED BY <2>1, <3>1, <3>2 DEF session
    <2>2. CASE ServiceStep /\ UNCHANGED service
      <3>1. ASSUME service = "smtp" PROVE SmtpFits'
        <4>1. SmtpNext BY <2>2, <3>1 DEF ServiceStep
        <4>2. SmtpFits BY <3>1
        <4> QED BY <4>1, <4>2, SmtpAssumption, SmtpFitsStep
      <3>2. ASSUME service = "dns" PROVE DnsFits'
        <4>1. DnsNext BY <2>2, <3>2 DEF ServiceStep
        <4>2. DnsFits BY <3>2
        <4> QED BY <4>1, <4>2, DnsAssumption, DnsFitsStep
      <3> QED BY <2>2, <3>1, <3>2
    <2> QED BY <2>1, <2>2 DEF Next, Ended
  <1>3. FtpIInv /\ RedisIInv /\ PgIInv /\ I => BufferIInv BY DEF BufferIInv
  <1> HIDE DEF I
  <1>4. Spec => []I BY <1>1, <1>2, PTL DEF Spec
  <1> QED BY <1>3, <1>4, FtpInvariance, RedisInvariance, PgInvariance, PTL

(* WithinBuffers: whatever peers send, and however much of it, the         *)
(* directory of FTP, the mail of SMTP, the receive buffer of Redis and the *)
(* reply of DNS stay inside their buffers; and so does the name that       *)
(* PostgreSQL and QuestDB read, unless a message that nearly fills the     *)
(* buffer does not end its last string.                                    *)
THEOREM BuffersHold == Spec => []WithinBuffers
  <1>1. BufferIInv => WithinBuffers
    <2> SUFFICES ASSUME BufferIInv PROVE WithinBuffers
      OBVIOUS
    <2>1. CASE service = "ftp"
      <3>1. CwdOK(local.cwd) BY <2>1 DEF BufferIInv, FtpIInv, FtpCounts
      <3> QED BY <2>1, <3>1 DEF CwdOK, WithinBuffers
    <2>2. CASE service = "smtp"
      <3>1. local.mail < SmtpDataMax BY <2>2 DEF BufferIInv, SmtpFits
      <3> QED BY <2>2, <3>1 DEF WithinBuffers
    <2>3. CASE service = "redis"
      <3>1. local.used < RedisSize BY <2>3 DEF BufferIInv, RedisIInv, RedisFits
      <3> QED BY <2>3, <3>1 DEF WithinBuffers
    <2>4. CASE service = "dns"
      <3>1. DnsFits BY <2>4 DEF BufferIInv
      <3>2. DOMAIN replies = 1 .. Len(replies) BY <3>1, SeqShape DEF DnsFits
      <3>3. \A i \in DOMAIN replies : ReplyFits(replies[i], local.raw) BY <3>1, <3>2 DEF DnsFits
      <3> QED BY <2>4, <3>3 DEF WithinBuffers, ReplyFits
    <2>5. CASE service \in {"postgresql", "questdb"}
      <3>1. local.start \in StartBodies \cup {<<>>} BY <2>5 DEF BufferIInv, PgIInv, UserKept
      <3>2. \/ UserReads(local.start) <= StartRoom
            \/ Last(local.start) # NUL /\ Len(local.start) > StartRoom - UserSize + 1
        BY <3>1, PgAssumption, NameReadInside
      <3> QED BY <2>5, <3>2 DEF WithinBuffers
    <2>6. CASE service \notin {"ftp", "smtp", "redis", "dns", "postgresql", "questdb"}
      BY <2>6 DEF WithinBuffers
    <2> QED BY <2>1, <2>2, <2>3, <2>4, <2>5, <2>6
  <1> QED BY <1>1, BufferInvariance, PTL
----------------------------------------------------------------------------
(***************************************************************************)
(* SMTP: the dialogue stays in step with the lines.  A reply is kept with  *)
(* the number of lines sent by then, so that the lines it belongs to are   *)
(* those between it and the reply before; the lines behind the last reply  *)
(* are open.                                                               *)
(***************************************************************************)
Dot(x) == CString(x) = <<".">>
Said(x) == StripCrlf(CString(x)) # <<>>
LinesOf(r, i) == r[i - 1][2] + 1 .. r[i][2]
AnsweredAt(r, s, i) ==
  IF r[i - 1][1] = 354
  THEN {p \in LinesOf(r, i) : Dot(s[p])} = {r[i][2]} /\ r[i][1] = 250
  ELSE IF r[i - 1][1] = 334 THEN LinesOf(r, i) = {r[i][2]} /\ r[i][1] \in {334, 535}
  ELSE {p \in LinesOf(r, i) : Said(s[p])} = {r[i][2]}
AllAnswered(r, s) ==
  /\ IsSeq(r) /\ IsSeq(s) /\ Len(r) >= 1
  /\ \A i \in 1 .. Len(r) : r[i][2] \in 0 .. Len(s)
  /\ \A i \in 2 .. Len(r) : AnsweredAt(r, s, i)
OpenOf(r, s) == r[Len(r)][2] + 1 .. Len(s)
Asked(r) == r[Len(r)][1]
NoDot(r, s) == \A p \in OpenOf(r, s) : ~Dot(s[p])
NoneSaid(r, s) == \A p \in OpenOf(r, s) : ~Said(s[p])

(* What is open in the lines t, which are s and x. *)
OneOpen(r, s, x, t) ==
  /\ Len(t) = Len(s) + 1 /\ t[Len(s) + 1] = x
  /\ OpenOf(r, t) = OpenOf(r, s) \cup {Len(s) + 1}
  /\ \A p \in OpenOf(r, s) : t[p] = s[p] /\ p <= Len(s)

(* A line more leaves the answers as they are, and is open. *)
LEMMA LineStaysOpen ==
  ASSUME NEW r, NEW s, AllAnswered(r, s), NEW x
  PROVE  AllAnswered(r, Append(s, x)) /\ OneOpen(r, s, x, Append(s, x))
  <1> DEFINE t == Append(s, x)
  <1>1. /\ IsSeq(t) /\ Len(t) = Len(s) + 1 /\ t[Len(s) + 1] = x
        /\ \A i \in 1 .. Len(s) : t[i] = s[i]
    BY AppendShape DEF AllAnswered
  <1> HIDE DEF t
  <1>2. Len(s) \in Nat /\ Len(r) \in Nat /\ Len(r) >= 1 BY SeqShape DEF AllAnswered
  <1>3. \A i \in 1 .. Len(r) : r[i][2] \in 0 .. Len(s) BY DEF AllAnswered
  <1>4. \A i \in 1 .. Len(r) : r[i][2] \in 0 .. Len(t) BY <1>1, <1>2, <1>3
  <1>5. ASSUME NEW i \in 2 .. Len(r) PROVE AnsweredAt(r, t, i)
    <2>1. i \in 1 .. Len(r) /\ i - 1 \in 1 .. Len(r) BY <1>2
    <2>2. r[i][2] \in 0 .. Len(s) /\ r[i - 1][2] \in 0 .. Len(s) BY <2>1, <1>3
    <2>3. \A p \in LinesOf(r, i) : p \in 1 .. Len(s) BY <2>2, <1>2 DEF LinesOf
    <2>4. \A p \in LinesOf(r, i) : t[p] = s[p] BY <2>3, <1>1
    <2>5. /\ {p \in LinesOf(r, i) : Dot(t[p])} = {p \in LinesOf(r, i) : Dot(s[p])}
          /\ {p \in LinesOf(r, i) : Said(t[p])} = {p \in LinesOf(r, i) : Said(s[p])}
      BY <2>4
    <2>6. AnsweredAt(r, s, i) BY DEF AllAnswered
    <2> QED BY <2>5, <2>6 DEF AnsweredAt
  <1>6. AllAnswered(r, t) BY <1>1, <1>2, <1>4, <1>5 DEF AllAnswered
  <1>7. r[Len(r)][2] \in 0 .. Len(s) BY <1>2, <1>3
  <1>8. \A p \in OpenOf(r, s) : p \in 1 .. Len(s) BY <1>2, <1>7 DEF OpenOf
  <1>9. OpenOf(r, t) = OpenOf(r, s) \cup {Len(s) + 1}
    <2>1. \A n \in 0 .. Len(s) : n + 1 .. Len(s) + 1 = (n + 1 .. Len(s)) \cup {Len(s) + 1} BY <1>2
    <2> QED BY <2>1, <1>1, <1>7 DEF OpenOf
  <1>10. OneOpen(r, s, x, t) BY <1>1, <1>2, <1>8, <1>9 DEF OneOpen
  <1> QED BY <1>6, <1>10 DEF t

(* The lines that are open are answered, by a reply that fits to them. *)
LEMMA ReplyAnswers ==
  ASSUME NEW r, NEW s, AllAnswered(r, s), NEW code,
         IF Asked(r) = 354 THEN {p \in OpenOf(r, s) : Dot(s[p])} = {Len(s)} /\ code = 250
         ELSE IF Asked(r) = 334 THEN OpenOf(r, s) = {Len(s)} /\ code \in {334, 535}
         ELSE {p \in OpenOf(r, s) : Said(s[p])} = {Len(s)}
  PROVE  /\ AllAnswered(Append(r, <<code, Len(s)>>), s)
         /\ Asked(Append(r, <<code, Len(s)>>)) = code
         /\ OpenOf(Append(r, <<code, Len(s)>>), s) = {}
  <1> DEFINE e == <<code, Len(s)>>
             u == Append(r, e)
  <1>1. IsSeq(u) /\ Len(u) = Len(r) + 1 /\ u[Len(r) + 1] = e /\ \A i \in 1 .. Len(r) : u[i] = r[i]
    BY AppendShape DEF AllAnswered
  <1>2. Len(s) \in Nat /\ Len(r) \in Nat /\ Len(r) >= 1 /\ IsSeq(s) BY SeqShape DEF AllAnswered
  <1>3. e[1] = code /\ e[2] = Len(s) OBVIOUS
  <1> HIDE DEF e, u
  <1>4. \A i \in 1 .. Len(u) : i = Len(r) + 1 \/ i \in 1 .. Len(r) BY <1>1, <1>2
  <1>5. Len(s) \in 0 .. Len(s) BY <1>2
  <1>6. \A i \in 1 .. Len(u) : u[i][2] \in 0 .. Len(s)
    BY <1>1, <1>3, <1>4, <1>5 DEF AllAnswered
  <1>7. ASSUME NEW i \in 2 .. Len(u) PROVE AnsweredAt(u, s, i)
    <2>1. CASE i = Len(r) + 1
      <3>1. u[i] = e /\ u[i - 1] = r[Len(r)]
        <4>1. i - 1 = Len(r) /\ Len(r) \in 1 .. Len(r) BY <2>1, <1>2
        <4> QED BY <4>1, <2>1, <1>1
      <3>2. LinesOf(u, i) = OpenOf(r, s) /\ u[i - 1][1] = Asked(r) /\ u[i][2] = Len(s) /\ u[i][1] = code
        BY <3>1, <1>3 DEF LinesOf, OpenOf, Asked
      <3> QED BY <3>2 DEF AnsweredAt
    <2>2. CASE i \in 2 .. Len(r)
      <3>1. i \in 1 .. Len(r) /\ i - 1 \in 1 .. Len(r) BY <2>2, <1>2
      <3>2. u[i] = r[i] /\ u[i - 1] = r[i - 1] BY <3>1, <1>1
      <3>3. AnsweredAt(r, s, i) BY <2>2 DEF AllAnswered
      <3> QED BY <3>2, <3>3 DEF AnsweredAt, LinesOf
    <2>3. i = Len(r) + 1 \/ i \in 2 .. Len(r) BY <1>1, <1>2
    <2> QED BY <2>1, <2>2, <2>3
  <1>8. AllAnswered(u, s) BY <1>1, <1>2, <1>6, <1>7 DEF AllAnswered
  <1>9. u[Len(u)] = e BY <1>1
  <1>10. Asked(u) = code BY <1>3, <1>9 DEF Asked
  <1>11. OpenOf(u, s) = {}
    <2>1. OpenOf(u, s) = Len(s) + 1 .. Len(s) BY <1>3, <1>9 DEF OpenOf
    <2> QED BY <2>1, <1>2
  <1> QED BY <1>8, <1>10, <1>11 DEF u, e

(* A reply that suits a line. *)
Suits(r, s, x, code) ==
  \/ Asked(r) = 354 /\ NoDot(r, s) /\ Dot(x) /\ code = 250
  \/ Asked(r) = 334 /\ OpenOf(r, s) = {} /\ code \in {334, 535}
  \/ Asked(r) \notin {334, 354} /\ NoneSaid(r, s) /\ Said(x)

Settled(r, s, code) == AllAnswered(r, s) /\ Asked(r) = code /\ OpenOf(r, s) = {}

(* A line is answered at once, or else left open. *)
LEMMA LineAnswered ==
  ASSUME NEW r, NEW s, AllAnswered(r, s), NEW x, NEW code,
         Suits(r, s, x, code)
  PROVE  Settled(Append(r, <<code, Len(Append(s, x))>>), Append(s, x), code)
  <1> DEFINE t == Append(s, x)
  <1>1. AllAnswered(r, t) /\ OneOpen(r, s, x, t) BY LineStaysOpen
  <1> HIDE DEF t
  <1>2. NoDot(r, s) /\ Dot(x) => {p \in OpenOf(r, t) : Dot(t[p])} = {Len(t)} BY <1>1 DEF NoDot, OneOpen
  <1>3. NoneSaid(r, s) /\ Said(x) => {p \in OpenOf(r, t) : Said(t[p])} = {Len(t)} BY <1>1 DEF NoneSaid, OneOpen
  <1>4. OpenOf(r, s) = {} => OpenOf(r, t) = {Len(t)} BY <1>1 DEF OneOpen
  <1>5. IF Asked(r) = 354 THEN {p \in OpenOf(r, t) : Dot(t[p])} = {Len(t)} /\ code = 250
        ELSE IF Asked(r) = 334 THEN OpenOf(r, t) = {Len(t)} /\ code \in {334, 535}
        ELSE {p \in OpenOf(r, t) : Said(t[p])} = {Len(t)}
    <2> DEFINE D == {p \in OpenOf(r, t) : Dot(t[p])}
               T == {p \in OpenOf(r, t) : Said(t[p])}
    <2>1. NoDot(r, s) /\ Dot(x) => D = {Len(t)} BY <1>2
    <2>2. NoneSaid(r, s) /\ Said(x) => T = {Len(t)} BY <1>3
    <2> HIDE DEF D, T
    <2>3. IF Asked(r) = 354 THEN D = {Len(t)} /\ code = 250
          ELSE IF Asked(r) = 334 THEN OpenOf(r, t) = {Len(t)} /\ code \in {334, 535}
          ELSE T = {Len(t)}
      BY <2>1, <2>2, <1>4 DEF Suits
    <2> QED BY <2>3 DEF D, T
  <1>6. /\ AllAnswered(Append(r, <<code, Len(t)>>), t)
        /\ Asked(Append(r, <<code, Len(t)>>)) = code
        /\ OpenOf(Append(r, <<code, Len(t)>>), t) = {}
    BY <1>1, <1>5, ReplyAnswers
  <1> QED BY <1>6 DEF t, Settled

(* The lines left open hold no dot, or no text, if the one more holds none. *)
LEMMA LineLeftOpen ==
  ASSUME NEW r, NEW s, AllAnswered(r, s), NEW x
  PROVE  /\ AllAnswered(r, Append(s, x))
         /\ NoDot(r, s) /\ ~Dot(x) => NoDot(r, Append(s, x))
         /\ NoneSaid(r, s) /\ ~Said(x) => NoneSaid(r, Append(s, x))
  <1> DEFINE t == Append(s, x)
  <1>1. AllAnswered(r, t) /\ OneOpen(r, s, x, t) BY LineStaysOpen
  <1> HIDE DEF t
  <1>2. NoDot(r, s) /\ ~Dot(x) => NoDot(r, t) BY <1>1 DEF NoDot, OneOpen
  <1>3. NoneSaid(r, s) /\ ~Said(x) => NoneSaid(r, t) BY <1>1 DEF NoneSaid, OneOpen
  <1> QED BY <1>1, <1>2, <1>3 DEF t

(* A line that fits is read whole, and nothing is left of it. *)
LEMMA LineReadWhole ==
  ASSUME SmtpAssumption, NEW new \in SmtpLines, Len(new) + 2 <= SmtpBufSize - 1,
         NEW bytes, bytes = <<>> \o new \o <<CR, LF>>
  PROVE  /\ LineRead(bytes).line = new
         /\ SubSeq(bytes, LineRead(bytes).read + 1, Len(bytes)) = <<>>
  <1> DEFINE n == Len(new)
             ends == {i \in 2 .. Min({Len(bytes), SmtpBufSize - 1}) : bytes[i - 1] = CR /\ bytes[i] = LF}
  <1>1. new \in Seq(STRING) BY DEF SmtpAssumption
  <1>2. IsSeq(new) /\ n \in Nat BY <1>1 DEF IsSeq
  <1>3. bytes = new \o <<CR, LF>>
    <2>1. <<>> \o new = new BY <1>1
    <2> QED BY <2>1
  <1>4. /\ IsSeq(bytes) /\ Len(bytes) = n + 2
        /\ \A i \in 1 .. n : bytes[i] = new[i]
        /\ bytes[n + 1] = CR /\ bytes[n + 2] = LF
    <2>1. /\ IsSeq(<<CR, LF>>) /\ Len(<<CR, LF>>) = 2
          /\ <<CR, LF>>[1] = CR /\ <<CR, LF>>[2] = LF
      BY TwoSeq
    <2> DEFINE e == <<CR, LF>>
    <2> HIDE DEF e
    <2>2. IsSeq(e) /\ Len(e) = 2 /\ e[1] = CR /\ e[2] = LF /\ bytes = new \o e BY <2>1, <1>3 DEF e
    <2>3. /\ IsSeq(new \o e) /\ Len(new \o e) = Len(new) + Len(e)
          /\ \A i \in 1 .. Len(new) : (new \o e)[i] = new[i]
          /\ \A i \in 1 .. Len(e) : (new \o e)[Len(new) + i] = e[i]
      BY <1>2, <2>2, ConcatShape
    <2>4. 1 \in 1 .. Len(e) /\ 2 \in 1 .. Len(e) BY <2>2
    <2> QED BY <2>2, <2>3, <2>4
  <1>5. SmtpBufSize \in Nat /\ SmtpBufSize > 3 BY DEF SmtpAssumption
  <1>6. Min({Len(bytes), SmtpBufSize - 1}) = n + 2
    <2>1. Len(bytes) \in Nat /\ SmtpBufSize - 1 \in Nat /\ Len(bytes) <= SmtpBufSize - 1
      BY <1>2, <1>4, <1>5
    <2> DEFINE M == {Len(bytes), SmtpBufSize - 1}
    <2>2. M \subseteq Nat /\ M # {} BY <2>1
    <2>3. Min(M) \in M /\ \A y \in M : Min(M) <= y BY <2>2, MinOfNat
    <2> QED BY <2>1, <2>3, <1>4
  <1>7. CR # LF BY DEF CR, LF
  <1>8. ends = {n + 2}
    <2>1. n + 2 \in ends
      <3>1. n + 2 \in 2 .. n + 2 /\ (n + 2) - 1 = n + 1 BY <1>2
      <3> QED BY <3>1, <1>4, <1>6
    <2>2. ASSUME NEW i \in ends, i # n + 2 PROVE FALSE
      <3>1. i \in 2 .. n + 2 /\ bytes[i - 1] = CR /\ bytes[i] = LF BY <1>6, <2>2
      <3>2. CASE i = n + 1 BY <3>1, <3>2, <1>4, <1>7
      <3>3. CASE i \in 2 .. n
        <4>1. i \in 1 .. n /\ i - 1 \in 1 .. n BY <3>3, <1>2
        <4>2. new[i - 1] = CR /\ new[i] = LF BY <4>1, <3>1, <1>4
        <4> QED BY <3>3, <4>2 DEF SmtpAssumption
      <3>4. i = n + 1 \/ i \in 2 .. n
        <4> HIDE DEF ends
        <4> QED BY <3>1, <2>2, <1>2
      <3> QED BY <3>2, <3>3, <3>4
    <2> HIDE DEF ends
    <2> QED BY <2>1, <2>2
  <1>9. Min(ends) = n + 2
    <2> HIDE DEF ends
    <2>1. ends \subseteq Nat /\ ends # {} BY <1>8, <1>2
    <2>2. Min(ends) \in ends BY <2>1, MinOfNat
    <2> QED BY <2>2, <1>8
  <1>10. LineRead(bytes) = [line |-> SubSeq(bytes, 1, Min(ends) - 2), read |-> Min(ends)]
    <2>1. LineRead(bytes) = IF ends # {} THEN [line |-> SubSeq(bytes, 1, Min(ends) - 2), read |-> Min(ends)]
                            ELSE [line |-> Cut(bytes, SmtpBufSize), read |-> SmtpBufSize - 1]
      BY DEF LineRead
    <2> HIDE DEF ends
    <2> QED BY <2>1, <1>8
  <1> HIDE DEF ends
  <1>11. LineRead(bytes).line = SubSeq(bytes, 1, n) /\ LineRead(bytes).read = n + 2
    <2>1. LineRead(bytes).line = SubSeq(bytes, 1, Min(ends) - 2) /\ LineRead(bytes).read = Min(ends)
      <3> DEFINE rec == LineRead(bytes)
                 at == Min(ends)
                 part == SubSeq(bytes, 1, at - 2)
      <3>1. rec = [line |-> part, read |-> at] BY <1>10
      <3> HIDE DEF rec, at, part
      <3>2. rec.line = part /\ rec.read = at BY <3>1
      <3> QED BY <3>2 DEF rec, at, part
    <2>2. Min(ends) - 2 = n BY <1>2, <1>9
    <2> QED BY <2>1, <2>2, <1>9
  <1>12. SubSeq(bytes, 1, n) = new
    <2>1. 1 \in Int /\ n \in Int /\ n - 1 + 1 = n /\ (1 <= n \/ n = 0) BY <1>2
    <2>2. /\ IsSeq(SubSeq(bytes, 1, n))
          /\ Len(SubSeq(bytes, 1, n)) = IF 1 <= n THEN n - 1 + 1 ELSE 0
          /\ \A i \in 1 .. n - 1 + 1 : SubSeq(bytes, 1, n)[i] = bytes[1 + i - 1]
      BY <2>1, <1>4, SubSeqShape
    <2>3. Len(SubSeq(bytes, 1, n)) = n BY <2>1, <2>2
    <2>4. \A i \in 1 .. n : 1 + i - 1 = i BY <2>1
    <2>5. \A i \in 1 .. n : SubSeq(bytes, 1, n)[i] = new[i] BY <2>1, <2>2, <2>4, <1>4
    <2> HIDE DEF n
    <2> QED BY <2>2, <2>3, <2>5, <1>2, SameSeq DEF n
  <1>13. SubSeq(bytes, n + 2 + 1, Len(bytes)) = <<>>
    <2>1. n + 2 + 1 \in Int /\ Len(bytes) \in Int /\ ~(n + 2 + 1 <= Len(bytes)) BY <1>2, <1>4
    <2>2. /\ IsSeq(SubSeq(bytes, n + 2 + 1, Len(bytes)))
          /\ Len(SubSeq(bytes, n + 2 + 1, Len(bytes))) = 0
      BY <2>1, <1>4, SubSeqShape
    <2> DEFINE e == SubSeq(bytes, n + 2 + 1, Len(bytes))
    <2> HIDE DEF e
    <2>3. IsSeq(e) /\ Len(e) = 0 BY <2>2 DEF e
    <2>4. e = <<>> BY <2>3, EmptyIsSeq, SameSeq
    <2> QED BY <2>4 DEF e
  <1> QED BY <1>11, <1>12, <1>13

(* The next line, as long as all is intact: it is one more of the peer's.  *)
LEMMA ReadsIntact ==
  ASSUME SmtpAssumption, DOMAIN local = SmtpFields, local.intact => local.rest = <<>>,
         NEW r \in Reads
  PROVE  /\ DOMAIN r.then = SmtpFields
         /\ r.then.intact => /\ local.intact
                             /\ \E new \in SmtpLines :
                                  /\ r.then.sent = Append(local.sent, new)
                                  /\ r.then.rest = <<>> /\ r.then.mail = local.mail
                                  /\ r.line = CString(new)
  <1>1. CASE IsReadable(local.rest)
    <2>1. r = [line |-> CString(LineRead(local.rest).line), then |-> AfterRead(local, local.rest)]
      BY <1>1 DEF Reads
    <2>2. r.then = AfterRead(local, local.rest) BY <2>1
    <2>3. DOMAIN r.then = SmtpFields /\ r.then.intact = local.intact
      BY <2>2 DEF AfterRead, SmtpFields
    <2>4. ~local.intact
      <3> SUFFICES ASSUME local.intact PROVE FALSE
        OBVIOUS
      <3>1. SmtpBufSize \in Nat /\ SmtpBufSize > 3 BY DEF SmtpAssumption
      <3>2. IsReadable(<<>>) BY <1>1
      <3>3. Len(<<>>) = 0 BY EmptyIsSeq
      <3> QED BY <3>1, <3>2, <3>3 DEF IsReadable
    <2> QED BY <2>3, <2>4
  <1>2. CASE ~IsReadable(local.rest)
    <2> DEFINE grown(new) == local.rest \o new \o <<CR, LF>>
    <2> DEFINE with(new) == [local EXCEPT !.sent = Append(@, new),
                                          !.intact = @ /\ Len(new) + 2 <= SmtpBufSize - 1]
    <2>1. PICK new \in SmtpLines :
             r = [line |-> CString(LineRead(grown(new)).line), then |-> AfterRead(with(new), grown(new))]
      BY <1>2 DEF Reads
    <2>2. /\ DOMAIN with(new) = SmtpFields /\ with(new).mail = local.mail
          /\ with(new).sent = Append(local.sent, new)
          /\ with(new).intact = (local.intact /\ Len(new) + 2 <= SmtpBufSize - 1)
      BY DEF SmtpFields
    <2> HIDE DEF with
    <2>3. r.line = CString(LineRead(grown(new)).line) /\ r.then = AfterRead(with(new), grown(new)) BY <2>1
    <2>4. /\ DOMAIN r.then = SmtpFields /\ r.then.mail = local.mail
          /\ r.then.sent = Append(local.sent, new)
          /\ r.then.intact = with(new).intact
          /\ r.then.rest = SubSeq(grown(new), LineRead(grown(new)).read + 1, Len(grown(new)))
      BY <2>2, <2>3 DEF AfterRead, SmtpFields
    <2>5. ASSUME r.then.intact
          PROVE  local.intact /\ r.then.rest = <<>> /\ r.line = CString(new)
      <3>1. local.intact /\ Len(new) + 2 <= SmtpBufSize - 1 BY <2>2, <2>4, <2>5
      <3>2. grown(new) = <<>> \o new \o <<CR, LF>> BY <3>1
      <3> HIDE DEF grown
      <3>3. /\ LineRead(grown(new)).line = new
            /\ SubSeq(grown(new), LineRead(grown(new)).read + 1, Len(grown(new))) = <<>>
        BY <3>1, <3>2, LineReadWhole
      <3> QED BY <3>1, <3>3, <2>3, <2>4
    <2> QED BY <2>4, <2>5
  <1> QED BY <1>1, <1>2

(* Where the dialogue is, by the last reply and the lines behind it. *)
SmtpFitsIn(code, at) ==
  \/ at \in {"user", "password", "plain"} /\ code = 334
  \/ at = "data" /\ code = 354
  \/ at \in {"command", "close", "ended"} /\ code \notin {334, 354}
SmtpPlace(at, r, s) ==
  \/ r = <<>> /\ s = <<>> /\ at \in {"banner", "close", "ended"}
  \/ /\ AllAnswered(r, s) /\ SmtpFitsIn(Asked(r), at)
     /\ IF at = "data" THEN NoDot(r, s)
        ELSE IF at \in {"user", "password", "plain"} THEN OpenOf(r, s) = {} ELSE NoneSaid(r, s)
SmtpLocal(l) == l.rest = <<>> /\ l.mail \in Nat /\ l.mail < SmtpDataMax - 1
SmtpTells ==
  /\ DOMAIN local = SmtpFields
  /\ local.intact => SmtpLocal(local) /\ SmtpPlace(pc, replies, local.sent)

SuitsAt(at, x, code) ==
  \/ at = "data" /\ Dot(x) /\ code = 250
  \/ at \in {"user", "password", "plain"} /\ code \in {334, 535}
  \/ at = "command" /\ Said(x)

(* A line that is answered where the dialogue is, and one that is passed   *)
(* over.                                                                   *)
LEMMA PlaceAnswers ==
  ASSUME NEW at, NEW r, NEW s, SmtpPlace(at, r, s), NEW x, NEW code, NEW to, SmtpFitsIn(code, to),
         SuitsAt(at, x, code)
  PROVE  SmtpPlace(to, Append(r, <<code, Len(Append(s, x))>>), Append(s, x))
  <1>1. AllAnswered(r, s) /\ SmtpFitsIn(Asked(r), at) BY DEF SmtpPlace, SuitsAt
  <1>2. Suits(r, s, x, code)
    <2>1. CASE at = "data" /\ Dot(x) /\ code = 250
      <3>1. Asked(r) = 354 /\ NoDot(r, s) BY <2>1 DEF SmtpPlace, SmtpFitsIn
      <3> QED BY <2>1, <3>1 DEF Suits
    <2>2. CASE at \in {"user", "password", "plain"} /\ code \in {334, 535}
      <3>1. Asked(r) = 334 /\ OpenOf(r, s) = {} BY <2>2 DEF SmtpPlace, SmtpFitsIn
      <3> QED BY <2>2, <3>1 DEF Suits
    <2>3. CASE at = "command" /\ Said(x)
      <3>1. Asked(r) \notin {334, 354} /\ NoneSaid(r, s) BY <2>3 DEF SmtpPlace, SmtpFitsIn
      <3> QED BY <2>3, <3>1 DEF Suits
    <2> QED BY <2>1, <2>2, <2>3 DEF SuitsAt
  <1> DEFINE t == Append(s, x)
             u == Append(r, <<code, Len(t)>>)
  <1>3. Settled(u, t, code) BY <1>1, <1>2, LineAnswered
  <1> HIDE DEF t, u
  <1>4. SmtpPlace(to, u, t) BY <1>3 DEF Settled, SmtpPlace, NoDot, NoneSaid
  <1> QED BY <1>4 DEF t, u

(* The same of a line without an answer. *)
LEMMA PlacePasses ==
  ASSUME NEW at, NEW r, NEW s, SmtpPlace(at, r, s), NEW x,
         (at = "data" /\ ~Dot(x)) \/ (at = "command" /\ ~Said(x))
  PROVE  SmtpPlace(at, r, Append(s, x))
  <1>1. AllAnswered(r, s) /\ SmtpFitsIn(Asked(r), at) BY DEF SmtpPlace
  <1>2. /\ AllAnswered(r, Append(s, x))
        /\ NoDot(r, s) /\ ~Dot(x) => NoDot(r, Append(s, x))
        /\ NoneSaid(r, s) /\ ~Said(x) => NoneSaid(r, Append(s, x))
    BY <1>1, LineLeftOpen
  <1> DEFINE t == Append(s, x)
  <1> HIDE DEF t
  <1>3. SmtpPlace(at, r, t) BY <1>1, <1>2 DEF SmtpPlace, t
  <1> QED BY <1>3 DEF t

(* SmtpTells holds at the start. *)
LEMMA SmtpTellsInit == SmtpAssumption /\ SmtpInit => SmtpTells
  <1> SUFFICES ASSUME SmtpAssumption, SmtpInit PROVE SmtpTells
    OBVIOUS
  <1>1. local = [rest |-> <<>>, mail |-> 0, user |-> <<>>,
                 sent |-> <<>>, captured |-> {}, intact |-> TRUE]
    BY DEF SmtpInit
  <1>2. DOMAIN local = SmtpFields /\ local.rest = <<>> /\ local.mail = 0 /\ local.sent = <<>>
    BY <1>1 DEF SmtpFields
  <1>3. 0 \in Nat /\ 0 < SmtpDataMax - 1 BY DEF SmtpAssumption
  <1>4. pc = "banner" /\ replies = <<>> BY DEF SmtpInit
  <1> QED BY <1>2, <1>3, <1>4 DEF SmtpTells, SmtpLocal, SmtpPlace

(* Each step of SMTP keeps SmtpTells. *)
LEMMA SmtpTellsStep ==
  ASSUME SmtpAssumption, SmtpTells, SmtpNext \/ UNCHANGED <<pc, local, replies>>
  PROVE  SmtpTells'
  <1>1. /\ DOMAIN local = SmtpFields
        /\ local.intact => SmtpLocal(local) /\ SmtpPlace(pc, replies, local.sent)
        /\ local.intact => local.rest = <<>>
    BY DEF SmtpTells, SmtpLocal
  <1>2. SmtpDataMax \in Nat /\ SmtpDataMax > 2 BY DEF SmtpAssumption
  <1> SUFFICES /\ DOMAIN local' = SmtpFields
               /\ local'.intact => SmtpLocal(local') /\ SmtpPlace(pc', replies', local'.sent)
    BY DEF SmtpTells, SmtpLocal, SmtpPlace
  <1> DEFINE Known(q) ==
        /\ local.intact /\ SmtpLocal(local) /\ SmtpPlace(pc, replies, local.sent)
        /\ \E new \in SmtpLines :
             /\ q.then.sent = Append(local.sent, new)
             /\ q.then.rest = <<>> /\ q.then.mail = local.mail
             /\ q.line = CString(new)
  <1>3. ASSUME NEW q \in Reads
        PROVE  DOMAIN q.then = SmtpFields /\ (q.then.intact => Known(q))
    BY <1>1, ReadsIntact
  <1>4. ASSUME NEW q \in Reads, NEW code, DOMAIN local' = SmtpFields,
               SmtpFitsIn(code, pc'), Reply(code, q.then),
               local'.intact => q.then.intact,
               local'.sent = q.then.sent, local'.rest = q.then.rest,
               local'.mail \in {0, q.then.mail},
               \/ pc = "data" /\ q.line = <<".">> /\ code = 250
               \/ pc \in {"user", "password", "plain"} /\ code \in {334, 535}
               \/ pc = "command" /\ StripCrlf(q.line) # <<>>
        PROVE  local'.intact => SmtpLocal(local') /\ SmtpPlace(pc', replies', local'.sent)
    <2> SUFFICES ASSUME local'.intact
                 PROVE  SmtpLocal(local') /\ SmtpPlace(pc', replies', local'.sent)
      OBVIOUS
    <2>1. Known(q) BY <1>3, <1>4
    <2>2. PICK new \in SmtpLines :
             /\ q.then.sent = Append(local.sent, new)
             /\ q.then.rest = <<>> /\ q.then.mail = local.mail
             /\ q.line = CString(new)
      BY <2>1
    <2>3. SuitsAt(pc, new, code) BY <1>4, <2>2 DEF Dot, Said, SuitsAt
    <2>4. replies' = Append(replies, <<code, Len(Append(local.sent, new))>>) BY <1>4, <2>2 DEF Reply
    <2>5. SmtpPlace(pc', Append(replies, <<code, Len(Append(local.sent, new))>>), Append(local.sent, new))
      BY <1>4, <2>1, <2>3, PlaceAnswers
    <2>6. SmtpLocal(local') BY <1>2, <1>4, <2>1, <2>2 DEF SmtpLocal
    <2> QED BY <1>4, <2>2, <2>4, <2>5, <2>6
  <1>5. ASSUME NEW q \in Reads, DOMAIN local' = SmtpFields,
               UNCHANGED <<pc, replies>>, local'.intact => q.then.intact,
               local'.sent = q.then.sent, local'.rest = q.then.rest,
               q.then.intact => local'.mail \in Nat /\ local'.mail < SmtpDataMax - 1,
               \/ pc = "data" /\ q.line # <<".">>
               \/ pc = "command" /\ StripCrlf(q.line) = <<>>
        PROVE  local'.intact => SmtpLocal(local') /\ SmtpPlace(pc', replies', local'.sent)
    <2> SUFFICES ASSUME local'.intact
                 PROVE  SmtpLocal(local') /\ SmtpPlace(pc', replies', local'.sent)
      OBVIOUS
    <2>1. Known(q) BY <1>3, <1>5
    <2>2. PICK new \in SmtpLines :
             /\ q.then.sent = Append(local.sent, new)
             /\ q.then.rest = <<>> /\ q.line = CString(new)
      BY <2>1
    <2>3. (pc = "data" /\ ~Dot(new)) \/ (pc = "command" /\ ~Said(new))
      BY <1>5, <2>2 DEF Dot, Said
    <2>4. SmtpPlace(pc, replies, Append(local.sent, new)) BY <2>1, <2>3, PlacePasses
    <2>5. SmtpLocal(local') BY <1>5, <2>2 DEF SmtpLocal
    <2> QED BY <1>5, <2>2, <2>4, <2>5
  <1>6. ASSUME NEW q \in Reads, SendFails(q.then)
        PROVE  DOMAIN local' = SmtpFields /\ ~local'.intact
    <2>1. local' = [q.then EXCEPT !.intact = FALSE] BY <1>6 DEF SendFails
    <2> QED BY <2>1, <1>3 DEF SmtpFields
  <1>7. CASE SmtpBanner
    <2>1. local' = local /\ pc = "banner" BY <1>7 DEF SmtpBanner
    <2> SUFFICES ASSUME local.intact PROVE SmtpPlace(pc', replies', local.sent)
      BY <2>1, <1>1
    <2>2. replies = <<>> /\ local.sent = <<>> BY <2>1, <1>1 DEF SmtpPlace, SmtpFitsIn
    <2>3. CASE pc' = "close" /\ UNCHANGED replies BY <2>2, <2>3 DEF SmtpPlace
    <2>4. CASE pc' = "command" /\ Reply(220, local)
      <3>1. Len(local.sent) = 0 BY <2>2, EmptyIsSeq
      <3>2. replies' = <<<<220, 0>>>> BY <2>2, <2>4, <3>1 DEF Reply
      <3> DEFINE e == <<220, 0>>
      <3>3. e[1] = 220 /\ e[2] = 0 OBVIOUS
      <3> HIDE DEF e
      <3>4. IsSeq(<<e>>) /\ Len(<<e>>) = 1 /\ <<e>>[1] = e BY OneSeq
      <3>5. replies' = <<e>> BY <3>2 DEF e
      <3>6. IsSeq(replies') /\ Len(replies') = 1 /\ replies'[1][1] = 220 /\ replies'[1][2] = 0
        BY <3>3, <3>4, <3>5
      <3>7. AllAnswered(replies', local.sent)
        <4>1. IsSeq(local.sent) BY <2>2, EmptyIsSeq
        <4>2. \A i \in 1 .. 1 : i = 1 OBVIOUS
        <4>3. 2 .. 1 = {} /\ 0 \in 0 .. 0 OBVIOUS
        <4> QED BY <3>1, <3>6, <4>1, <4>2, <4>3 DEF AllAnswered
      <3>8. Asked(replies') = 220 /\ OpenOf(replies', local.sent) = {}
        <4>1. 0 + 1 .. 0 = {} OBVIOUS
        <4> QED BY <4>1, <3>1, <3>6 DEF Asked, OpenOf
      <3> QED BY <2>4, <3>7, <3>8 DEF SmtpPlace, SmtpFitsIn, NoneSaid
    <2> QED BY <1>7, <2>3, <2>4 DEF SmtpBanner
  <1>8. CASE SmtpSimple
    <2> DEFINE said(q) == StripCrlf(q.line)
               verb(q) == IF said(q) = <<>> THEN "" ELSE Head(said(q))
               code(q) == SmtpCode(verb(q))
    <2>1. PICK q \in Reads :
             /\ local' = q.then
             /\ \/ said(q) = <<>> /\ UNCHANGED replies
                \/ said(q) # <<>> /\ Reply(code(q), q.then)
             /\ pc' = IF verb(q) = "QUIT" THEN "close" ELSE "command"
      BY <1>8 DEF SmtpSimple
    <2>2. pc = "command" BY <1>8 DEF SmtpSimple
    <2>3. code(q) \notin {334, 354}
      <3> HIDE DEF verb
      <3>1. verb(q) \in DOMAIN SmtpFixed => SmtpFixed[verb(q)] \in {250, 252} BY DEF SmtpFixed
      <3> QED BY <3>1 DEF SmtpCode
    <2>4. DOMAIN local' = SmtpFields BY <2>1, <1>3
    <2>5. CASE said(q) = <<>>
      <3>1. UNCHANGED <<pc, replies>> BY <2>1, <2>2, <2>5
      <3>2. q.then.intact => local'.mail \in Nat /\ local'.mail < SmtpDataMax - 1
        BY <2>1, <1>3 DEF SmtpLocal
      <3> QED BY <1>5, <2>1, <2>2, <2>4, <2>5, <3>1, <3>2
    <2>6. CASE said(q) # <<>>
      <3>1. SmtpFitsIn(code(q), pc') BY <2>1, <2>3 DEF SmtpFitsIn
      <3>2. Reply(code(q), q.then) /\ StripCrlf(q.line) # <<>> BY <2>1, <2>6
      <3> HIDE DEF code
      <3> QED BY <1>4, <2>1, <2>2, <2>4, <3>1, <3>2
    <2> QED BY <2>5, <2>6
  <1>9. ASSUME NEW verb, NEW code, NEW place, SmtpFitsIn(code, place),
               BeginDialogue(verb, code, place)
        PROVE  /\ DOMAIN local' = SmtpFields
               /\ local'.intact => SmtpLocal(local') /\ SmtpPlace(pc', replies', local'.sent)
    <2>1. PICK q \in Reads :
             /\ StripCrlf(q.line) # <<>>
             /\ \/ Reply(code, q.then) /\ local' = [q.then EXCEPT !.mail = 0] /\ pc' = place
                \/ SendFails(q.then)
      BY <1>9 DEF BeginDialogue
    <2>2. pc = "command" BY <1>9 DEF BeginDialogue
    <2>3. CASE Reply(code, q.then) /\ local' = [q.then EXCEPT !.mail = 0] /\ pc' = place
      <3>1. /\ DOMAIN local' = SmtpFields /\ local'.intact = q.then.intact /\ local'.sent = q.then.sent
            /\ local'.rest = q.then.rest /\ local'.mail = 0
        BY <2>3, <1>3 DEF SmtpFields
      <3>2. SmtpFitsIn(code, pc') BY <1>9, <2>3
      <3> QED BY <1>4, <2>1, <2>2, <2>3, <3>1, <3>2
    <2> QED BY <1>6, <2>1, <2>3
  <1>10. CASE SmtpLogin \/ SmtpPlain \/ SmtpData
    <2>1. SmtpFitsIn(334, "user") /\ SmtpFitsIn(334, "plain") /\ SmtpFitsIn(354, "data")
      BY DEF SmtpFitsIn
    <2>2. \/ \E verb : BeginDialogue(verb, 334, "user") \/ BeginDialogue(verb, 334, "plain")
          \/ \E verb : BeginDialogue(verb, 354, "data")
      BY <1>10, Zenon DEF SmtpLogin, SmtpPlain, SmtpData
    <2> QED BY <1>9, <2>1, <2>2
  <1>11. CASE SmtpUser
    <2>1. PICK q \in Reads :
             \/ local' = [q.then EXCEPT !.user = StripCrlf(q.line)] /\ Reply(334, q.then) /\ pc' = "password"
             \/ SendFails(q.then)
      BY <1>11 DEF SmtpUser
    <2>2. CASE local' = [q.then EXCEPT !.user = StripCrlf(q.line)] /\ Reply(334, q.then) /\ pc' = "password"
      <3>1. /\ DOMAIN local' = SmtpFields /\ local'.intact = q.then.intact /\ local'.sent = q.then.sent
            /\ local'.rest = q.then.rest /\ local'.mail = q.then.mail
        BY <2>2, <1>3 DEF SmtpFields
      <3>2. SmtpFitsIn(334, pc') BY <2>2 DEF SmtpFitsIn
      <3>3. pc = "user" BY <1>11 DEF SmtpUser
      <3> QED BY <1>4, <2>2, <3>1, <3>2, <3>3
    <2> QED BY <1>6, <2>1, <2>2
  <1>12. CASE SmtpPassword \/ SmtpPlainText
    <2>1. PICK q \in Reads :
             /\ \E text, pair : local' = Capture(q.then, text, pair)
             /\ Reply(535, q.then) /\ pc' = "command"
             /\ \/ pc \in {"password", "plain"}
                \/ pc = "command" /\ StripCrlf(q.line) # <<>>
      <3>1. CASE SmtpPassword
        <4>1. PICK q \in Reads :
                 /\ local' = Capture(q.then, <<local.user, StripCrlf(q.line)>>,
                                     [user |-> StringAt(Base64Decode(local.user), 1),
                                      password |-> StringAt(Base64Decode(StripCrlf(q.line)), 1)])
                 /\ Reply(535, q.then) /\ pc' = "command"
          BY <3>1 DEF SmtpPassword
        <4>2. pc = "password" BY <3>1 DEF SmtpPassword
        <4> QED BY <4>1, <4>2
      <3>2. CASE SmtpPlainText
        <4> DEFINE said(q) == StripCrlf(q.line)
                   blanks(q) == SelectInSeq(Tail(said(q)), LAMBDA c : c # SP)
                   text(q) == IF pc = "plain" THEN said(q)
                              ELSE SubSeq(Tail(said(q)), blanks(q), Len(said(q)) - 1)
        <4>1. PICK q \in Reads :
                 /\ \/ pc = "plain"
                    \/ pc = "command" /\ said(q) # <<>> /\ Head(said(q)) = "AUTH PLAIN" /\ blanks(q) # 0
                 /\ local' = Capture(q.then, <<text(q)>>, PlainParts(Base64Decode(text(q))))
                 /\ Reply(535, q.then) /\ pc' = "command"
          BY <3>2 DEF SmtpPlainText
        <4> HIDE DEF text, blanks
        <4> QED BY <4>1
      <3> QED BY <1>12, <3>1, <3>2
    <2>2. /\ DOMAIN local' = SmtpFields /\ local'.intact = q.then.intact /\ local'.sent = q.then.sent
          /\ local'.rest = q.then.rest /\ local'.mail = q.then.mail
      BY <2>1, <1>3 DEF SmtpFields, Capture
    <2>3. SmtpFitsIn(535, pc') BY <2>1 DEF SmtpFitsIn
    <2> QED BY <1>4, <2>1, <2>2, <2>3
  <1>13. CASE SmtpDataLine
    <2> DEFINE dot(q) == q.line = <<".">>
               len(q) == IF ~dot(q) /\ DataRoom(local.mail, Len(q.line))
                         THEN local.mail + Len(q.line) + 1 ELSE local.mail
    <2>1. PICK q \in Reads :
             /\ local' = [q.then EXCEPT !.mail = len(q)]
             /\ \/ (dot(q) \/ len(q) >= SmtpDataMax - 1) /\ pc' = "command" /\ Reply(250, q.then)
                \/ ~(dot(q) \/ len(q) >= SmtpDataMax - 1) /\ pc' = "data" /\ UNCHANGED replies
      BY <1>13 DEF SmtpDataLine
    <2>2. pc = "data" BY <1>13 DEF SmtpDataLine
    <2>3. ASSUME q.then.intact
          PROVE  len(q) \in Nat /\ len(q) < SmtpDataMax - 1 /\ (dot(q) => len(q) = q.then.mail)
      <3>1. Known(q) BY <1>3, <2>3
      <3>2. local.mail \in Nat /\ local.mail < SmtpDataMax - 1 /\ q.then.mail = local.mail
        BY <3>1 DEF SmtpLocal
      <3>3. Len(q.line) \in Nat
        <4>1. PICK new \in SmtpLines : q.line = CString(new) BY <3>1
        <4>2. IsSeq(new) BY DEF SmtpAssumption, IsSeq
        <4> QED BY <4>1, <4>2, CStringSeq
      <3> QED BY <1>2, <3>2, <3>3 DEF DataRoom
    <2> HIDE DEF len
    <2>4. /\ DOMAIN local' = SmtpFields /\ local'.intact = q.then.intact /\ local'.sent = q.then.sent
          /\ local'.rest = q.then.rest /\ local'.mail = len(q)
      BY <2>1, <1>3 DEF SmtpFields
    <2> SUFFICES ASSUME q.then.intact
                 PROVE  SmtpLocal(local') /\ SmtpPlace(pc', replies', local'.sent)
      BY <2>4
    <2>5. ~(len(q) >= SmtpDataMax - 1) BY <2>3, <1>2
    <2>6. CASE dot(q)
      <3>1. pc' = "command" /\ Reply(250, q.then) BY <2>1, <2>6
      <3>2. SmtpFitsIn(250, pc') BY <3>1 DEF SmtpFitsIn
      <3>3. local'.mail = q.then.mail BY <2>3, <2>4, <2>6
      <3> QED BY <1>4, <2>2, <2>4, <2>6, <3>1, <3>2, <3>3
    <2>7. CASE ~dot(q)
      <3>1. UNCHANGED <<pc, replies>> BY <2>1, <2>2, <2>5, <2>7
      <3>2. local'.mail \in Nat /\ local'.mail < SmtpDataMax - 1 BY <2>3, <2>4
      <3> QED BY <1>5, <2>2, <2>4, <2>7, <3>1, <3>2
    <2> QED BY <2>6, <2>7
  <1>14. CASE SmtpRecvFails
    <2>1. CASE pc = "command" /\ pc' = "close" /\ UNCHANGED <<local, replies>>
      <3>1. SmtpPlace(pc, replies, local.sent) => SmtpPlace("close", replies, local.sent)
        BY <2>1 DEF SmtpPlace, SmtpFitsIn
      <3> QED BY <1>1, <2>1, <3>1
    <2>2. CASE local' = [local EXCEPT !.intact = FALSE] BY <1>1, <2>2 DEF SmtpFields
    <2> QED BY <1>14, <2>1, <2>2 DEF SmtpRecvFails
  <1>15. CASE SmtpClose
    <2>1. pc = "close" /\ pc' = "ended" /\ UNCHANGED <<local, replies>> BY <1>15 DEF SmtpClose
    <2>2. SmtpPlace(pc, replies, local.sent) => SmtpPlace("ended", replies, local.sent)
      BY <2>1 DEF SmtpPlace, SmtpFitsIn
    <2> QED BY <1>1, <2>1, <2>2
  <1>16. CASE UNCHANGED <<pc, local, replies>> BY <1>1, <1>16
  <1> QED BY <1>7, <1>8, <1>10, <1>11, <1>12, <1>13, <1>14, <1>15, <1>16 DEF SmtpNext
----------------------------------------------------------------------------
SmtpIInv == service = "smtp" => SmtpTells

(* SmtpIInv is an invariant. *)
LEMMA SmtpInvariance == Spec => []SmtpIInv
  <1> USE SmtpAssumption
  <1>1. Init => SmtpIInv BY SmtpTellsInit DEF Init, SmtpIInv
  <1>2. SmtpIInv /\ [Next]_session => SmtpIInv'
    <2> SUFFICES ASSUME SmtpIInv, [Next]_session PROVE SmtpIInv'
      OBVIOUS
    <2>1. CASE UNCHANGED session
      <3>1. UNCHANGED <<service, pc, local, replies>> BY <2>1 DEF session
      <3> QED BY <3>1, SmtpTellsStep DEF SmtpIInv
    <2>2. CASE ServiceStep /\ UNCHANGED service
      <3> SUFFICES ASSUME service = "smtp" PROVE SmtpTells'
        BY <2>2 DEF SmtpIInv
      <3>1. SmtpNext BY <2>2 DEF ServiceStep
      <3>2. SmtpTells BY DEF SmtpIInv
      <3> QED BY <3>1, <3>2, SmtpTellsStep
    <2> QED BY <2>1, <2>2 DEF Next, Ended
  <1> QED BY <1>1, <1>2, PTL DEF Spec

(* SmtpInStep: as long as lines fit and calls succeed, each reply of       *)
(* run_smtp_service belongs to one line, a mail is answered at its first   *)
(* dot whatever its size, and no line of it is taken for a command.        *)
THEOREM SmtpStaysInStep == Spec => []SmtpInStep
  <1>1. SmtpIInv => SmtpInStep
    <2> SUFFICES ASSUME SmtpIInv, service = "smtp", local.intact PROVE SmtpInStep
      BY DEF SmtpInStep
    <2> DEFINE r == replies
               s == local.sent
    <2>1. SmtpPlace(pc, r, s) BY DEF SmtpIInv, SmtpTells
    <2> DEFINE lines(i) == (IF i = 1 THEN 1 ELSE r[i - 1][2] + 1) ..
                           (IF i > Len(r) THEN Len(s) ELSE r[i][2])
               asked(i) == IF i = 1 THEN 0 ELSE r[i - 1][1]
               dots(i) == {p \in lines(i) : CString(s[p]) = <<".">>}
               texts(i) == {p \in lines(i) : StripCrlf(CString(s[p])) # <<>>}
    <2>2. /\ \A i \in 2 .. Len(r) :
               CASE asked(i) = 354 -> dots(i) = {r[i][2]} /\ r[i][1] = 250
                 [] asked(i) = 334 -> lines(i) = {r[i][2]} /\ r[i][1] \in {334, 535}
                 [] OTHER -> texts(i) = {r[i][2]}
          /\ IF asked(Len(r) + 1) = 354 THEN dots(Len(r) + 1) = {} ELSE texts(Len(r) + 1) = {}
      <3>1. CASE r = <<>> /\ s = <<>>
        <4>1. Len(r) = 0 /\ Len(s) = 0 BY <3>1, EmptyIsSeq
        <4>2. 2 .. 0 = {} /\ 1 .. 0 = {} /\ 1 > 0 /\ 0 + 1 = 1 OBVIOUS
        <4>3. lines(1) = {} /\ asked(1) = 0 BY <4>1, <4>2
        <4> HIDE DEF lines, asked
        <4> QED BY <4>1, <4>2, <4>3
      <3>2. CASE AllAnswered(r, s) /\ SmtpFitsIn(Asked(r), pc)
        <4>1. Len(r) \in Nat /\ Len(r) >= 1 BY <3>2, SeqShape DEF AllAnswered
        <4>2. ASSUME NEW i \in 2 .. Len(r)
              PROVE  CASE asked(i) = 354 -> dots(i) = {r[i][2]} /\ r[i][1] = 250
                       [] asked(i) = 334 -> lines(i) = {r[i][2]} /\ r[i][1] \in {334, 535}
                       [] OTHER -> texts(i) = {r[i][2]}
          <5>1. i # 1 /\ ~(i > Len(r)) BY <4>1
          <5>2. lines(i) = LinesOf(r, i) /\ asked(i) = r[i - 1][1] BY <5>1 DEF LinesOf
          <5>3. AnsweredAt(r, s, i) BY <3>2 DEF AllAnswered
          <5> HIDE DEF lines, asked
          <5>4. /\ dots(i) = {p \in LinesOf(r, i) : Dot(s[p])}
                /\ texts(i) = {p \in LinesOf(r, i) : Said(s[p])}
            BY <5>2 DEF Dot, Said
          <5> HIDE DEF dots, texts
          <5> QED BY <5>2, <5>3, <5>4 DEF AnsweredAt
        <4>3. lines(Len(r) + 1) = OpenOf(r, s) /\ asked(Len(r) + 1) = Asked(r)
          <5>1. Len(r) + 1 # 1 /\ Len(r) + 1 > Len(r) /\ (Len(r) + 1) - 1 = Len(r) BY <4>1
          <5> QED BY <5>1 DEF OpenOf, Asked
        <4> HIDE DEF lines, asked
        <4>4. /\ NoDot(r, s) => dots(Len(r) + 1) = {}
              /\ NoneSaid(r, s) => texts(Len(r) + 1) = {}
              /\ OpenOf(r, s) = {} => texts(Len(r) + 1) = {}
          BY <4>3 DEF NoDot, NoneSaid, Dot, Said
        <4> HIDE DEF dots, texts
        <4>5. IF asked(Len(r) + 1) = 354 THEN dots(Len(r) + 1) = {} ELSE texts(Len(r) + 1) = {}
          <5>1. r # <<>> BY <4>1, EmptyIsSeq
          <5> QED BY <5>1, <2>1, <4>3, <4>4 DEF SmtpPlace, SmtpFitsIn
        <4> QED BY <4>2, <4>5
      <3> QED BY <2>1, <3>1, <3>2 DEF SmtpPlace
    <2> QED BY <2>2 DEF SmtpInStep
  <1> QED BY <1>1, SmtpInvariance, PTL
----------------------------------------------------------------------------
(***************************************************************************)
(* DNS: a question is answered as it was asked.  First, what FlattenSeq    *)
(* makes of parts: w[i] is the first i of them, one after the other.       *)
(***************************************************************************)
FlatStep(parts, w, i) == IF i = 1 THEN parts[i] ELSE w[i - 1] \o parts[i]
IsFlat(parts, w) == w = [i \in 1 .. Len(parts) |-> FlatStep(parts, w, i)]

(* Such a function exists. *)
LEMMA FlatExists ==
  ASSUME NEW parts, Len(parts) \in Nat
  PROVE  \E w : IsFlat(parts, w)
  <1> DEFINE n == Len(parts)
             D == 1 .. n
             Done(f, k) == \A i \in D : i <= k => f[i] = FlatStep(parts, f, i)
             S == {k \in Nat : \E f : f = [i \in D |-> f[i]] /\ Done(f, k)}
  <1>1. 0 \in S
    <2> DEFINE f == [i \in D |-> 0]
    <2>1. f = [i \in D |-> f[i]] OBVIOUS
    <2>2. \A i \in D : ~(i <= 0) OBVIOUS
    <2>3. Done(f, 0) BY <2>2
    <2> HIDE DEF f
    <2> QED BY <2>1, <2>3
  <1>2. ASSUME NEW k \in S PROVE k + 1 \in S
    <2>1. PICK f : f = [i \in D |-> f[i]] /\ Done(f, k) OBVIOUS
    <2> DEFINE g == [i \in D |-> IF i = k + 1 THEN FlatStep(parts, f, i) ELSE f[i]]
    <2>2. g = [i \in D |-> g[i]] OBVIOUS
    <2>3. k \in Nat OBVIOUS
    <2>4. ASSUME NEW i \in D, i <= k + 1 PROVE g[i] = FlatStep(parts, g, i)
      <3>1. i # 1 => i - 1 \in D /\ i - 1 # k + 1 BY <2>3, <2>4
      <3>2. i # 1 => g[i - 1] = f[i - 1] BY <3>1
      <3>3. FlatStep(parts, f, i) = FlatStep(parts, g, i)
        <4> HIDE DEF g
        <4> QED BY <3>2 DEF FlatStep
      <3>4. g[i] = FlatStep(parts, f, i)
        <4>1. CASE i = k + 1 BY <4>1
        <4>2. CASE i # k + 1
          <5>1. i <= k BY <2>3, <2>4, <4>2
          <5> QED BY <2>1, <4>2, <5>1
        <4> QED BY <4>1, <4>2
      <3> HIDE DEF g
      <3> QED BY <3>3, <3>4
    <2>5. Done(g, k + 1) BY <2>4
    <2> HIDE DEF g
    <2>6. k + 1 \in Nat BY <2>3
    <2> QED BY <2>2, <2>5, <2>6
  <1>3. S = Nat
    <2>1. S \subseteq Nat OBVIOUS
    <2> HIDE DEF S
    <2> QED BY <1>1, <1>2, <2>1, InductionBySet
  <1>4. n \in S BY <1>3
  <1>5. PICK f : f = [i \in D |-> f[i]] /\ Done(f, n) BY <1>4
  <1>6. \A i \in D : i <= n OBVIOUS
  <1>7. \A i \in D : f[i] = FlatStep(parts, f, i) BY <1>5, <1>6
  <1>8. f = [i \in D |-> FlatStep(parts, f, i)] BY <1>5, <1>7
  <1> QED BY <1>8 DEF IsFlat

(* The parts are in the whole one behind the other, from the places at on. *)
Places(parts, whole, at) ==
  /\ at[1] = 0 /\ at[Len(parts) + 1] = Len(whole)
  /\ \A i \in 1 .. Len(parts) + 1 : at[i] \in Nat
  /\ \A i \in 1 .. Len(parts) :
       /\ at[i + 1] = at[i] + Len(parts[i])
       /\ at[i + 1] <= Len(whole)
       /\ \A j \in 1 .. Len(parts[i]) : whole[at[i] + j] = parts[i][j]

(* FlattenSeq puts them so, if there are any. *)
LEMMA FlattenSome ==
  ASSUME NEW S, NEW parts \in Seq(Seq(S)), parts # <<>>
  PROVE  FlattenSeq(parts) \in Seq(S) /\ \E at : Places(parts, FlattenSeq(parts), at)
  <1> DEFINE n == Len(parts)
             F(f) == [i \in 1 .. n |-> IF i = 1 THEN parts[i] ELSE f[i - 1] \o parts[i]]
             w == CHOOSE f : f = F(f)
  <1>1. n \in Nat /\ n >= 1 /\ 1 \in 1 .. n /\ n \in 1 .. n OBVIOUS
  <1>2. FlattenSeq(parts) = w[n]
    <2>1. n # 0 BY <1>1
    <2> QED BY <2>1 DEF FlattenSeq
  <1>3. w = F(w)
    <2>1. PICK f : IsFlat(parts, f) BY <1>1, FlatExists
    <2>2. f = F(f) BY <2>1 DEF IsFlat, FlatStep
    <2> QED BY <2>2
  <1> HIDE DEF w
  <1>4. \A i \in 1 .. n : parts[i] \in Seq(S) /\ Len(parts[i]) \in Nat
    <2>1. \A i \in 1 .. n : parts[i] \in Seq(S) OBVIOUS
    <2> QED BY <2>1
  <1>5. w[1] = parts[1] /\ \A i \in 1 .. n : i # 1 => w[i] = w[i - 1] \o parts[i] BY <1>1, <1>3
  <1> DEFINE Starts(i, k) == /\ Len(w[i]) <= Len(w[k])
                              /\ \A j \in 1 .. Len(w[i]) : w[k][j] = w[i][j]
             Good(k) == \A i \in 1 .. k : w[i] \in Seq(S) /\ Starts(i, k)
             T == {k \in Nat : k + 1 <= n => Good(k + 1)}
  <1> HIDE DEF n, F
  <1>6. 0 \in T
    <2>1. w[1] \in Seq(S) BY <1>1, <1>4, <1>5
    <2>2. Len(w[1]) \in Nat BY <2>1
    <2>3. Starts(1, 1) BY <2>2
    <2> HIDE DEF Starts
    <2>4. \A i \in 1 .. 1 : i = 1 OBVIOUS
    <2>5. Good(1) BY <2>1, <2>3, <2>4
    <2> HIDE DEF Good
    <2> QED BY <2>5
  <1>7. ASSUME NEW k \in T PROVE k + 1 \in T
    <2>0. k \in Nat /\ (k + 1 <= n => Good(k + 1)) OBVIOUS
    <2> SUFFICES ASSUME k + 1 + 1 <= n PROVE Good(k + 1 + 1)
      <3> HIDE DEF Good
      <3> QED BY <2>0
    <2> DEFINE h == k + 1
               m == k + 1 + 1
    <2>1. h \in 1 .. n /\ m \in 1 .. n /\ m # 1 /\ m - 1 = h /\ h \in 1 .. h BY <1>1, <2>0
    <2>2. Good(h)
      <3> HIDE DEF Good
      <3>1. k + 1 <= n BY <1>1, <2>0
      <3> QED BY <2>0, <3>1
    <2>9. \A i \in 1 .. m : i = m \/ i \in 1 .. h BY <2>0
    <2> HIDE DEF h, m
    <2>3. w[m] = w[h] \o parts[m] BY <1>5, <2>1
    <2>4. w[h] \in Seq(S) /\ parts[m] \in Seq(S) BY <1>4, <2>1, <2>2
    <2>5. /\ w[m] \in Seq(S) /\ Len(w[m]) = Len(w[h]) + Len(parts[m])
          /\ Len(w[h]) \in Nat /\ Len(parts[m]) \in Nat /\ Len(w[m]) \in Nat
          /\ \A j \in 1 .. Len(w[h]) : w[m][j] = w[h][j]
      <3> DEFINE x == w[h]
                 y == parts[m]
      <3>1. x \in Seq(S) /\ y \in Seq(S) /\ w[m] = x \o y BY <2>3, <2>4
      <3> HIDE DEF x, y
      <3>2. /\ x \o y \in Seq(S) /\ Len(x \o y) = Len(x) + Len(y)
            /\ Len(x) \in Nat /\ Len(y) \in Nat /\ Len(x \o y) \in Nat
            /\ \A j \in 1 .. Len(x) : (x \o y)[j] = x[j]
        BY <3>1
      <3> QED BY <3>1, <3>2 DEF x, y
    <2>6. ASSUME NEW i \in 1 .. m PROVE w[i] \in Seq(S) /\ Starts(i, m)
      <3>1. CASE i = m BY <3>1, <2>5
      <3>2. CASE i \in 1 .. h
        <4>1. Starts(i, h) /\ w[i] \in Seq(S) BY <2>2, <3>2
        <4> DEFINE a == Len(w[i])
                   b == Len(w[h])
                   c == Len(w[m])
        <4>2. /\ a \in Nat /\ a <= b /\ b \in Nat /\ c \in Nat
              /\ c = b + Len(parts[m]) /\ Len(parts[m]) \in Nat
          <5>1. a \in Nat BY <4>1
          <5> QED BY <5>1, <4>1, <2>5
        <4>3. a <= c /\ \A j \in 1 .. a : j \in 1 .. b
          <5> HIDE DEF a, b, c
          <5> QED BY <4>2
        <4> QED BY <4>1, <4>3, <2>5
      <3> QED BY <3>1, <3>2, <2>9
    <2>7. Good(m)
      <3> HIDE DEF Starts
      <3> QED BY <2>6
    <2> QED BY <2>7 DEF m
  <1>8. T = Nat
    <2>1. T \subseteq Nat OBVIOUS
    <2> HIDE DEF T
    <2> QED BY <1>6, <1>7, <2>1, InductionBySet
  <1>9. Good(n)
    <2>0. n - 1 \in Nat /\ (n - 1) + 1 = n /\ n <= n BY <1>1
    <2>1. n - 1 \in T BY <2>0, <1>8
    <2> HIDE DEF Good
    <2> QED BY <2>0, <2>1
  <1> DEFINE at == [i \in 1 .. n + 1 |-> IF i = 1 THEN 0 ELSE Len(w[i - 1])]
             Part(i) == /\ at[i] \in Nat /\ at[i + 1] = at[i] + Len(parts[i])
                        /\ at[i + 1] <= Len(w[n])
                        /\ \A j \in 1 .. Len(parts[i]) : w[n][at[i] + j] = parts[i][j]
  <1>10. ASSUME NEW i \in 1 .. n PROVE Part(i)
    <2>1. i + 1 \in 1 .. n + 1 /\ i \in 1 .. n + 1 /\ i + 1 # 1 /\ (i + 1) - 1 = i BY <1>1
    <2>2. at[i + 1] = Len(w[i]) /\ at[i] = IF i = 1 THEN 0 ELSE Len(w[i - 1]) BY <2>1
    <2>3. parts[i] \in Seq(S) /\ w[i] \in Seq(S) /\ Starts(i, n) BY <1>4, <1>9
    <2>4. /\ at[i] \in Nat /\ Len(w[i]) = at[i] + Len(parts[i]) /\ Len(parts[i]) \in Nat
          /\ \A j \in 1 .. Len(parts[i]) : w[i][at[i] + j] = parts[i][j]
      <3>1. CASE i = 1
        <4>1. at[i] = 0 /\ w[i] = parts[i] BY <3>1, <2>2, <1>5
        <4> HIDE DEF at
        <4>2. Len(parts[i]) \in Nat BY <2>3
        <4>3. \A j \in 1 .. Len(parts[i]) : 0 + j = j OBVIOUS
        <4> QED BY <4>1, <4>2, <4>3
      <3>2. CASE i # 1
        <4>1. w[i] = w[i - 1] \o parts[i] /\ at[i] = Len(w[i - 1]) BY <3>2, <2>2, <1>5
        <4>2. i - 1 \in 1 .. n BY <3>2, <1>1
        <4>3. w[i - 1] \in Seq(S) BY <4>2, <1>9
        <4> HIDE DEF at
        <4> DEFINE x == w[i - 1]
                   y == parts[i]
        <4>4. x \in Seq(S) /\ y \in Seq(S) /\ w[i] = x \o y /\ at[i] = Len(x) BY <2>3, <4>1, <4>3
        <4> HIDE DEF x, y
        <4>5. /\ Len(x) \in Nat /\ Len(x \o y) = Len(x) + Len(y) /\ Len(y) \in Nat
              /\ \A j \in 1 .. Len(y) : (x \o y)[Len(x) + j] = y[j]
          BY <4>4
        <4> QED BY <4>4, <4>5 DEF y
      <3> QED BY <3>1, <3>2
    <2> HIDE DEF at
    <2> DEFINE a == at[i]
               p == Len(parts[i])
    <2>5. \A j \in 1 .. p : a + j \in 1 .. a + p
      <3>1. a \in Nat /\ p \in Nat BY <2>4
      <3> HIDE DEF a, p
      <3> QED BY <3>1
    <2>6. \A j \in 1 .. Len(parts[i]) : w[n][at[i] + j] = w[i][at[i] + j] BY <2>3, <2>4, <2>5
    <2> QED BY <2>2, <2>3, <2>4, <2>6
  <1>11. at[1] = 0 /\ at[n + 1] = Len(w[n])
    <2>1. 1 \in 1 .. n + 1 /\ n + 1 \in 1 .. n + 1 /\ n + 1 # 1 /\ (n + 1) - 1 = n BY <1>1
    <2> QED BY <2>1
  <1>12. w[n] \in Seq(S) /\ Len(w[n]) \in Nat BY <1>1, <1>9
  <1>13. ASSUME NEW i \in 1 .. n + 1 PROVE at[i] \in Nat
    <2>1. i \in 1 .. n \/ i = n + 1 BY <1>1
    <2> HIDE DEF at
    <2> QED BY <2>1, <1>10, <1>11, <1>12
  <1> HIDE DEF at
  <1>14. Places(parts, w[n], at) BY <1>10, <1>11, <1>13 DEF Places, n
  <1> QED BY <1>2, <1>12, <1>14

(* And if there are none. *)
LEMMA FlattenPlaces ==
  ASSUME NEW S, NEW parts \in Seq(Seq(S))
  PROVE  FlattenSeq(parts) \in Seq(S) /\ \E at : Places(parts, FlattenSeq(parts), at)
  <1>1. CASE parts # <<>> BY <1>1, FlattenSome
  <1>2. CASE parts = <<>>
    <2>1. Len(<<>>) = 0 /\ <<>> \in Seq(S) OBVIOUS
    <2>2. FlattenSeq(parts) = <<>> BY <1>2, <2>1 DEF FlattenSeq
    <2> DEFINE at == [i \in 1 .. 1 |-> 0]
    <2>3. at[1] = 0 /\ (\A i \in 1 .. 0 + 1 : at[i] = 0) /\ 0 + 1 = 1 OBVIOUS
    <2>4. \A i \in 1 .. 0 : FALSE OBVIOUS
    <2> HIDE DEF at
    <2>5. Places(<<>>, <<>>, at) BY <2>1, <2>3, <2>4 DEF Places
    <2> QED BY <1>2, <2>1, <2>2, <2>5
  <1> QED BY <1>1, <1>2

(* The labels are in the bytes s, each behind its length, at the places at *)
(* and on; a 0 is behind them.                                             *)
LabelsAt(labels, s, at) ==
  /\ \A i \in 1 .. Len(labels) + 1 : at[i] \in Nat /\ at[i] < Len(s)
  /\ \A i \in 1 .. Len(labels) :
       /\ at[i + 1] = at[i] + 1 + Len(labels[i])
       /\ s[at[i] + 1] = Len(labels[i])
       /\ \A j \in 1 .. Len(labels[i]) : s[at[i] + 1 + j] = labels[i][j]
  /\ s[at[Len(labels) + 1] + 1] = 0

IsNamed(labels) ==
  /\ labels \in Seq(Seq(NameByte))
  /\ \A i \in 1 .. Len(labels) : Len(labels[i]) \in 1 .. 63

(* dns_parse_domain_name finds just these labels, and their end. *)
LEMMA NameFound ==
  ASSUME NEW msg \in Seq(0 .. 255), NEW labels, IsNamed(labels), NEW at, LabelsAt(labels, msg, at)
  PROVE  NameFrom(msg, at[1])
           = [ok |-> TRUE, labels |-> labels, end |-> at[Len(labels) + 1] + 1]
  <1> DEFINE n == Len(labels)
             offset == at[1]
             L == Len(msg) + 1
             f == CHOOSE h : IsName(msg, offset, h)
             end == at[n + 1] + 1
  <1>1. n \in Nat /\ 1 \in 1 .. n + 1 /\ n + 1 \in 1 .. n + 1
    <2>1. n \in Nat BY DEF IsNamed
    <2> HIDE DEF n
    <2> QED BY <2>1
  <1>2. \A i \in 1 .. n + 1 : at[i] \in Nat /\ at[i] < Len(msg) BY DEF LabelsAt
  <1>3. offset \in Nat /\ offset <= Len(msg) /\ Len(msg) \in Nat BY <1>1, <1>2
  <1>4. IsName(msg, offset, f) BY <1>3, NameExists
  <1>5. NameFrom(msg, offset) = f[offset] BY DEF NameFrom, IsName, NameStep, NameEnds, NameLabel
  <1> HIDE DEF f
  <1>6. \A pos \in offset .. L : f[pos] = NameStep(msg, f, pos) BY <1>4 DEF IsName
  <1>7. \A i \in 1 .. n : /\ at[i + 1] = at[i] + 1 + Len(labels[i])
                          /\ msg[at[i] + 1] = Len(labels[i])
                          /\ \A j \in 1 .. Len(labels[i]) : msg[at[i] + 1 + j] = labels[i][j]
    BY DEF LabelsAt
  <1>8. \A i \in 1 .. n : labels[i] \in Seq(NameByte) /\ Len(labels[i]) \in 1 .. 63 BY DEF IsNamed
  <1>9. msg[at[n + 1] + 1] = 0 BY DEF LabelsAt
  <1>10. \A i \in 1 .. n + 1 : offset <= at[i]
    <2> DEFINE S == {k \in Nat : k + 1 \in 1 .. n + 1 => offset <= at[k + 1]}
    <2>1. 0 \in S BY <1>3
    <2>2. ASSUME NEW k \in S PROVE k + 1 \in S
      <3> SUFFICES ASSUME k + 1 + 1 \in 1 .. n + 1 PROVE offset <= at[k + 1 + 1]
        OBVIOUS
      <3> DEFINE i == k + 1
      <3>1. k \in Nat /\ i \in 1 .. n /\ i \in 1 .. n + 1 BY <1>1
      <3>2. offset <= at[i] /\ at[i] \in Nat BY <3>1, <1>2
      <3> HIDE DEF i
      <3>3. at[i + 1] = at[i] + 1 + Len(labels[i]) /\ Len(labels[i]) \in 1 .. 63 BY <3>1, <1>7, <1>8
      <3> DEFINE a == at[i]
                 l == Len(labels[i])
                 o == offset
      <3>5. o <= a + 1 + l
        <4>1. a \in Nat /\ l \in 1 .. 63 /\ o \in Nat /\ o <= a BY <3>2, <3>3, <1>3
        <4> HIDE DEF a, l, o
        <4> QED BY <4>1
      <3> QED BY <3>3, <3>5 DEF i
    <2>3. S = Nat
      <3>1. S \subseteq Nat OBVIOUS
      <3> HIDE DEF S
      <3> QED BY <2>1, <2>2, <3>1, InductionBySet
    <2> SUFFICES ASSUME NEW i \in 1 .. n + 1 PROVE offset <= at[i]
      OBVIOUS
    <2>4. i - 1 \in Nat /\ (i - 1) + 1 = i BY <1>1
    <2>5. i - 1 \in S BY <2>3, <2>4
    <2> QED BY <2>4, <2>5
  <1>11. \A i \in 1 .. n + 1 : /\ at[i] \in offset .. L /\ ~(at[i] >= Len(msg)) /\ at[i] \in Nat
                               /\ f[at[i]] = NameStep(msg, f, at[i])
    <2> SUFFICES ASSUME NEW i \in 1 .. n + 1
                 PROVE  /\ at[i] \in offset .. L /\ ~(at[i] >= Len(msg)) /\ at[i] \in Nat
                        /\ f[at[i]] = NameStep(msg, f, at[i])
      OBVIOUS
    <2> DEFINE a == at[i]
    <2>1. a \in Nat /\ a < Len(msg) /\ offset <= a BY <1>2, <1>10
    <2> HIDE DEF a, offset
    <2>2. a \in offset .. L /\ ~(a >= Len(msg)) BY <1>3, <2>1
    <2> QED BY <1>6, <2>1, <2>2 DEF a
  <1> DEFINE Suffix(i) == SubSeq(labels, i, n)
             Rest(i) == [ok |-> TRUE, labels |-> Suffix(i), end |-> end]
  <1>12. f[at[n + 1]] = Rest(n + 1)
    <2> DEFINE p == at[n + 1]
    <2>1. p \in Nat /\ ~(p >= Len(msg)) /\ f[p] = NameStep(msg, f, p) /\ msg[p + 1] = 0
      BY <1>1, <1>9, <1>11
    <2>2. 0 \in 0 .. 255 OBVIOUS
    <2>4. SubSeq(labels, n + 1, n) = <<>> BY <1>1, SubSeqEmpty
    <2> HIDE DEF p
    <2>3. f[p] = NameEnds(p + 1) BY <2>1, <2>2, NameStepIs
    <2> QED BY <2>3, <2>4 DEF NameEnds, p
  <1>13. ASSUME NEW i \in 1 .. n, f[at[i + 1]] = Rest(i + 1) PROVE f[at[i]] = Rest(i)
    <2> DEFINE p == at[i]
               size == Len(labels[i])
    <2>0. i \in 1 .. n + 1 /\ i + 1 \in 1 .. n + 1 BY <1>1
    <2>1. p \in Nat /\ ~(p >= Len(msg)) /\ f[p] = NameStep(msg, f, p) /\ msg[p + 1] = size
      BY <2>0, <1>7, <1>11
    <2>2. size \in 1 .. 63 /\ labels[i] \in Seq(NameByte) BY <1>8
    <2>3. at[i + 1] = p + 1 + size BY <1>7
    <2>4. at[i + 1] \in Nat /\ at[i + 1] < Len(msg) BY <2>0, <1>2
    <2>5. SubSeq(msg, p + 2, p + 1 + size) = labels[i]
      <3> DEFINE t == labels[i]
      <3>1. \A j \in 1 .. size : msg[p + 1 + j] = t[j] BY <1>7
      <3>2. t \in Seq(NameByte) /\ Len(t) = size BY <2>2
      <3> HIDE DEF p, size, t
      <3>3. p + 2 \in Int /\ p + 1 + size \in Int /\ p + 2 <= p + 1 + size
            /\ (p + 1 + size) - (p + 2) + 1 = size
        BY <2>1, <2>2
      <3>4. /\ IsSeq(SubSeq(msg, p + 2, p + 1 + size)) /\ Len(SubSeq(msg, p + 2, p + 1 + size)) = size
            /\ \A j \in 1 .. size : SubSeq(msg, p + 2, p + 1 + size)[j] = msg[(p + 2) + j - 1]
        BY <3>3, SubSeqShape
      <3>5. \A j \in 1 .. size : (p + 2) + j - 1 = p + 1 + j BY <2>1, <2>2
      <3>6. \A j \in 1 .. size : SubSeq(msg, p + 2, p + 1 + size)[j] = t[j] BY <3>1, <3>4, <3>5
      <3>7. IsSeq(t) BY <3>2 DEF IsSeq
      <3> QED BY <3>2, <3>4, <3>6, <3>7, SameSeq DEF t
    <2> HIDE DEF p, size
    <2>6. f[p] = NameLabel(msg, f, p, size)
      <3>1. size \in 0 .. 255 /\ size # 0 /\ ~(size >= PointerByte) BY <2>2 DEF PointerByte
      <3> QED BY <2>1, <3>1, NameStepIs
    <2>7. ~(p + 1 + size > Len(msg))
      <3>1. p + 1 + size \in Nat /\ p + 1 + size < Len(msg) BY <2>3, <2>4
      <3> QED BY <1>3, <3>1
    <2>8. f[p] = [f[p + 1 + size] EXCEPT !.labels = <<labels[i]>> \o @]
      BY <2>5, <2>6, <2>7 DEF NameLabel
    <2>9. f[p + 1 + size] = Rest(i + 1) BY <1>13, <2>3
    <2>10. f[p] = [ok |-> TRUE, labels |-> <<labels[i]>> \o Suffix(i + 1), end |-> end]
      <3> DEFINE r == f[p + 1 + size]
                 yes == TRUE
                 y == Suffix(i + 1)
                 x == labels[i]
      <3>1. r = [ok |-> yes, labels |-> y, end |-> end] BY <2>9
      <3> HIDE DEF end, r, yes, x, y
      <3> DEFINE z == <<x>> \o r.labels
      <3>2. r.labels = y BY <3>1
      <3>3. [r EXCEPT !.labels = z] = [ok |-> yes, labels |-> z, end |-> end]
        <4> HIDE DEF z
        <4> QED BY <3>1
      <3> QED BY <2>8, <3>2, <3>3 DEF r, yes, x, y
    <2>11. Suffix(i) = <<labels[i]>> \o Suffix(i + 1)
      <3>1. labels \in Seq(Seq(NameByte)) /\ i \in 1 .. Len(labels) /\ n \in i .. Len(labels)
        BY <1>1 DEF IsNamed
      <3> QED BY <3>1, SubSeqRecursiveFirst
    <2> QED BY <2>10, <2>11 DEF p
  <1> HIDE DEF Rest
  <1>14. f[at[1]] = Rest(1)
    <2> DEFINE S == {k \in Nat : k <= n => f[at[n + 1 - k]] = Rest(n + 1 - k)}
    <2>1. 0 \in S
      <3>1. n + 1 - 0 = n + 1 BY <1>1
      <3> QED BY <3>1, <1>12
    <2>2. ASSUME NEW k \in S PROVE k + 1 \in S
      <3> SUFFICES ASSUME k + 1 <= n PROVE f[at[n + 1 - (k + 1)]] = Rest(n + 1 - (k + 1))
        OBVIOUS
      <3> DEFINE i == n + 1 - (k + 1)
      <3>1. k \in Nat /\ i \in 1 .. n /\ i + 1 = n + 1 - k /\ k <= n BY <1>1
      <3>2. f[at[i + 1]] = Rest(i + 1)
        <4>1. f[at[n + 1 - k]] = Rest(n + 1 - k) BY <3>1
        <4> QED BY <4>1, <3>1
      <3> HIDE DEF i
      <3>3. f[at[i]] = Rest(i) BY <3>1, <3>2, <1>13
      <3> QED BY <3>3 DEF i
    <2>3. S = Nat
      <3>1. S \subseteq Nat OBVIOUS
      <3> HIDE DEF S
      <3> QED BY <2>1, <2>2, <3>1, InductionBySet
    <2>4. n \in S /\ n <= n /\ n + 1 - n = 1 BY <1>1, <2>3
    <2> QED BY <2>4
  <1>15. Suffix(1) = labels
    <2>1. labels \in Seq(Seq(NameByte)) BY DEF IsNamed
    <2> QED BY <2>1, SubSeqFull
  <1> QED BY <1>5, <1>14, <1>15 DEF Rest

(* The text of a name has no NUL: it is recorded as it is, cut to size. *)
LEMMA DomainWhole ==
  ASSUME DnsAssumption, NEW labels, IsNamed(labels)
  PROVE  DomainText(labels) = Cut(Dotted(labels), DnsNameSize)
  <1> DEFINE n == Len(labels)
             part(i) == IF i = 1 THEN labels[i] ELSE <<DotByte>> \o labels[i]
             parts == [i \in 1 .. n |-> part(i)]
  <1>1. labels \in Seq(Seq(NameByte)) /\ DotByte \in NameByte 
    <2>1. DotByte \in NameByte BY DEF DotByte, NameByte
    <2> QED BY <2>1 DEF IsNamed
  <1>2. n \in Nat /\ DOMAIN labels = 1 .. n BY <1>1
  <1>3. ASSUME NEW i \in 1 .. n PROVE part(i) \in Seq(NameByte)
    <2>1. labels[i] \in Seq(NameByte) BY <1>1
    <2>2. <<DotByte>> \in Seq(NameByte) BY <1>1
    <2> QED BY <2>1, <2>2
  <1>4. parts \in Seq(Seq(NameByte)) BY <1>2, <1>3, IsASeq
  <1>5. Dotted(labels) = FlattenSeq(parts) BY <1>2 DEF Dotted
  <1> DEFINE d == Dotted(labels)
             c == Cut(d, DnsNameSize)
  <1> HIDE DEF parts
  <1>6. d \in Seq(NameByte) BY <1>4, <1>5, FlattenPlaces
  <1>7. DnsNameSize \in Nat /\ DnsNameSize > 0 BY DEF DnsAssumption
  <1> HIDE DEF d
  <1>8. IsSeq(d) BY <1>6 DEF IsSeq
  <1>9. /\ IsSeq(c) /\ Len(c) = Min({Len(d), DnsNameSize - 1})
        /\ \A i \in 1 .. Len(c) : c[i] = d[i]
    <2> HIDE DEF c
    <2>1. c = Cut(d, DnsNameSize) BY DEF c
    <2> QED BY <2>1, <1>7, <1>8, CutFits
  <1>10. Len(d) \in Nat /\ DnsNameSize - 1 \in Nat BY <1>6, <1>7
  <1>11. Len(c) \in Nat /\ Len(c) <= Len(d) BY <1>9, <1>10, MinOfTwo
  <1> HIDE DEF c
  <1>12. \A i \in 1 .. Len(c) : c[i] \in NameByte
    <2>1. \A i \in 1 .. Len(c) : i \in 1 .. Len(d) BY <1>10, <1>11
    <2> QED BY <2>1, <1>6, <1>9, ByteOf
  <1>13. {j \in 1 .. Len(c) : c[j] = 0} = {}
    <2>1. 0 \notin NameByte BY DEF NameByte
    <2> QED BY <2>1, <1>12
  <1>14. StringAt(c, 1) = SubSeq(c, 1, Len(c)) BY <1>13 DEF StringAt
  <1>15. SubSeq(c, 1, Len(c)) = c
    <2>1. PICK T : c \in Seq(T) BY <1>9 DEF IsSeq
    <2> QED BY <2>1, SubSeqFull
  <1> QED BY <1>14, <1>15 DEF DomainText, c, d

Octet == 0 .. 255

(* The message m asks q: the name from place 12 on, and the type behind.   *)
Asks(m, q, at) ==
  /\ m \in Seq(Octet) /\ at[1] = 12 /\ LabelsAt(q.labels, m, at)
  /\ Len(m) = at[Len(q.labels) + 1] + 5
  /\ m[at[Len(q.labels) + 1] + 2] = q.type \div 256
  /\ m[at[Len(q.labels) + 1] + 3] = q.type % 256

(* The bytes of a label behind its length. *)
LEMMA LabelPart ==
  ASSUME NEW B, NEW x \in Seq(B), Len(x) \in B
  PROVE  /\ <<Len(x)>> \o x \in Seq(B) /\ Len(<<Len(x)>> \o x) = Len(x) + 1
         /\ (<<Len(x)>> \o x)[1] = Len(x)
         /\ \A j \in 1 .. Len(x) : (<<Len(x)>> \o x)[j + 1] = x[j]
  <1> DEFINE u == <<Len(x)>>
             l == Len(x)
  <1>1. u \in Seq(B) /\ Len(u) = 1 /\ u[1] = l /\ l \in Nat OBVIOUS
  <1> HIDE DEF u
  <1>2. /\ u \o x \in Seq(B) /\ Len(u \o x) = Len(u) + Len(x)
        /\ \A j \in 1 .. Len(u) : (u \o x)[j] = u[j]
        /\ \A j \in 1 .. Len(x) : (u \o x)[Len(u) + j] = x[j]
    <2>1. u \o x \in Seq(B) BY <1>1, ConcatProperties
    <2>2. IsSeq(u) /\ IsSeq(x) BY <1>1 DEF IsSeq
    <2> QED BY <2>1, <2>2, ConcatShape
  <1>3. 1 \in 1 .. 1 /\ 1 + l = l + 1 /\ \A j \in 1 .. l : j + 1 = 1 + j BY <1>1
  <1> QED BY <1>1, <1>2, <1>3 DEF u

(* So a header and a question are such a message. *)
LEMMA QuestionAsks ==
  ASSUME NEW q, IsQuestion(q), NEW h \in Seq(Octet), Len(h) = 12
  PROVE  \E at : Asks(h \o Question(q), q, at)
  <1> DEFINE labels == q.labels
             n == Len(labels)
             part(i) == <<Len(labels[i])>> \o labels[i]
             parts == [i \in 1 .. n |-> part(i)]
             w == FlattenSeq(parts)
             t == <<0, q.type \div 256, q.type % 256, 0, 1>>
  <1>1. /\ NameByte \subseteq Octet /\ 1 .. 63 \subseteq Octet /\ 0 \in Octet /\ 1 \in Octet /\ h \in Seq(Octet)
        /\ q.type \div 256 \in Octet /\ q.type % 256 \in Octet
    <2>1. NameByte \subseteq Octet /\ 1 .. 63 \subseteq Octet /\ 0 \in Octet /\ 1 \in Octet BY DEF NameByte, Octet
    <2> DEFINE c == q.type
    <2>2. c \in Nat /\ c < 65536 BY DEF IsQuestion
    <2> HIDE DEF c
    <2>3. c \div 256 \in 0 .. 255 /\ c % 256 \in 0 .. 255 BY <2>2
    <2> QED BY <2>1, <2>3 DEF c, Octet
  <1>2. labels \in Seq(Seq(NameByte)) /\ n \in Nat /\ DOMAIN labels = 1 .. n BY DEF IsQuestion
  <1> DEFINE Part(p, x) == /\ p \in Seq(Octet) /\ Len(p) = Len(x) + 1 /\ Len(x) \in Nat /\ p[1] = Len(x)
                           /\ \A j \in 1 .. Len(x) : p[j + 1] = x[j]
  <1>3. ASSUME NEW i \in 1 .. n PROVE part(i) \in Seq(Octet) /\ Part(part(i), labels[i])
    <2> DEFINE x == labels[i]
    <2>1. x \in Seq(NameByte) /\ Len(x) \in 1 .. 63 BY <1>2 DEF IsQuestion
    <2> HIDE DEF x
    <2>2. Len(x) \in Octet /\ Len(x) \in Nat
      <3> DEFINE l == Len(x)
      <3>1. l \in 1 .. 63 BY <2>1
      <3> HIDE DEF l
      <3>2. l \in Octet /\ l \in Nat BY <3>1 DEF Octet
      <3> QED BY <3>2 DEF l
    <2>3. x \in Seq(Octet)
      <3>1. x \in [1 .. Len(x) -> NameByte] BY <2>1, LenProperties
      <3>2. \A j \in 1 .. Len(x) : x[j] \in Octet BY <3>1, <1>1
      <3>3. x = [j \in 1 .. Len(x) |-> x[j]] BY <3>1
      <3>4. [j \in 1 .. Len(x) |-> x[j]] \in Seq(Octet) BY <3>2, <2>2, IsASeq
      <3> QED BY <3>3, <3>4
    <2>4. Part(<<Len(x)>> \o x, x) BY <2>2, <2>3, LabelPart
    <2> QED BY <2>4 DEF x
  <1> HIDE DEF Part
  <1>4. parts \in Seq(Seq(Octet)) /\ Len(parts) = n /\ \A i \in 1 .. n : Part(parts[i], labels[i])
    <2>1. parts \in Seq(Seq(Octet))
      <3> HIDE DEF part, n
      <3> QED BY <1>2, <1>3, IsASeq
    <2>2. \A i \in 1 .. n : parts[i] = part(i) OBVIOUS
    <2>3. DOMAIN parts = 1 .. n OBVIOUS
    <2> HIDE DEF parts, part
    <2>4. DOMAIN parts = 1 .. Len(parts) /\ Len(parts) \in Nat BY <2>1
    <2>5. Len(parts) = n BY <2>3, <2>4, <1>2
    <2> QED BY <2>1, <2>2, <2>5, <1>3
  <1>5. Question(q) = w \o t BY <1>2 DEF Question
  <1> HIDE DEF parts, part
  <1>6. PICK o : Places(parts, w, o) BY <1>4, FlattenPlaces
  <1>7. w \in Seq(Octet) BY <1>4, FlattenPlaces
  <1>8. t \in Seq(Octet) /\ Len(t) = 5 /\ t[1] = 0 /\ t[2] = q.type \div 256 /\ t[3] = q.type % 256
    BY <1>1
  <1> HIDE DEF w, t, labels, n
  <1> DEFINE s == w \o t
             m == h \o s
  <1>9. s \in Seq(Octet) /\ m \in Seq(Octet) /\ Len(w) \in Nat /\ Len(s) \in Nat
    <2>1. s \in Seq(Octet) BY <1>7, <1>8, ConcatProperties
    <2> HIDE DEF s
    <2>2. m \in Seq(Octet) BY <2>1, ConcatProperties
    <2> QED BY <2>1, <2>2, <1>7, LenProperties
  <1>10. /\ Len(s) = Len(w) + 5 /\ \A k \in 1 .. Len(w) : s[k] = w[k]
         /\ \A k \in 1 .. 5 : s[Len(w) + k] = t[k]
    <2>1. IsSeq(w) /\ IsSeq(t) BY <1>7, <1>8 DEF IsSeq
    <2>2. Len(s) = Len(w) + Len(t) /\ (\A k \in 1 .. Len(w) : s[k] = w[k])
          /\ \A k \in 1 .. Len(t) : s[Len(w) + k] = t[k]
      BY <2>1, ConcatShape
    <2> HIDE DEF s
    <2> QED BY <2>2, <1>8
  <1>11. Len(m) = 12 + Len(s) /\ \A k \in 1 .. Len(s) : m[12 + k] = s[k]
    <2>1. IsSeq(h) /\ IsSeq(s) BY <1>9, <1>1 DEF IsSeq
    <2> HIDE DEF s
    <2>2. /\ Len(h \o s) = Len(h) + Len(s)
          /\ \A k \in 1 .. Len(s) : (h \o s)[Len(h) + k] = s[k]
      BY ONLY <2>1, ConcatShape
    <2>3. m = h \o s OBVIOUS
    <2> HIDE DEF m
    <2> QED BY <2>2, <2>3
  <1> HIDE DEF s, m
  <1> DEFINE e == Len(w)
  <1>12. e \in Nat /\ Len(m) = e + 17 /\ (\A k \in 1 .. e : m[12 + k] = w[k])
         /\ (\A k \in 1 .. 5 : m[12 + e + k] = t[k])
    <2>1. e \in Nat /\ Len(s) = e + 5 BY <1>9, <1>10
    <2>2. Len(m) = e + 17
      <3> HIDE DEF e
      <3> QED BY <2>1, <1>11
    <2>3. ASSUME NEW k \in 1 .. e PROVE m[12 + k] = w[k]
      <3>1. k \in 1 .. Len(s)
        <4> HIDE DEF e
        <4> QED BY <2>1
      <3> QED BY <3>1, <1>10, <1>11
    <2>4. ASSUME NEW k \in 1 .. 5 PROVE m[12 + e + k] = t[k]
      <3>1. e + k \in 1 .. Len(s) /\ 12 + (e + k) = 12 + e + k
        <4> HIDE DEF e
        <4> QED BY <2>1
      <3>2. m[12 + (e + k)] = s[e + k] /\ s[e + k] = t[k] BY <3>1, <1>10, <1>11
      <3> QED BY <3>1, <3>2
    <2> QED BY <2>1, <2>2, <2>3, <2>4
  <1> DEFINE at == [i \in 1 .. n + 1 |-> 12 + o[i]]
  <1>13. /\ o[1] = 0 /\ o[n + 1] = e /\ \A i \in 1 .. n + 1 : o[i] \in Nat
         /\ \A i \in 1 .. n : /\ o[i + 1] = o[i] + Len(parts[i]) /\ o[i + 1] <= e
                              /\ \A j \in 1 .. Len(parts[i]) : w[o[i] + j] = parts[i][j]
    BY <1>4, <1>6 DEF Places
  <1> HIDE DEF e
  <1>14. 1 \in 1 .. n + 1 /\ n + 1 \in 1 .. n + 1 BY <1>2
  <1>15. at[1] = 12 /\ at[n + 1] = 12 + e BY <1>13, <1>14
  <1>16. ASSUME NEW i \in 1 .. n
         PROVE  /\ at[i + 1] = at[i] + 1 + Len(labels[i]) /\ m[at[i] + 1] = Len(labels[i])
                /\ \A j \in 1 .. Len(labels[i]) : m[at[i] + 1 + j] = labels[i][j]
                /\ at[i] \in Nat /\ at[i] < Len(m)
    <2> DEFINE a == o[i]
               p == parts[i]
               x == labels[i]
               l == Len(x)
    <2>1. i \in 1 .. n + 1 /\ i + 1 \in 1 .. n + 1 BY <1>2
    <2>2. at[i] = 12 + a /\ at[i + 1] = 12 + o[i + 1] BY <2>1
    <2>3. Part(p, x) BY <1>4
    <2>4. l \in Nat /\ Len(p) = l + 1 /\ p[1] = l /\ \A j \in 1 .. l : p[j + 1] = x[j] BY <2>3 DEF Part
    <2>5. /\ o[i + 1] = a + Len(p) /\ o[i + 1] <= e /\ a \in Nat
          /\ \A j \in 1 .. Len(p) : w[a + j] = p[j]
      BY <1>13, <2>1
    <2> HIDE DEF a, p, x, l, at
    <2>6. o[i + 1] = a + l + 1 /\ a + l + 1 <= e BY <2>4, <2>5
    <2>7. ASSUME NEW j \in 1 .. l + 1 PROVE m[12 + a + j] = p[j]
      <3>1. a + j \in 1 .. e /\ 12 + (a + j) = 12 + a + j /\ j \in 1 .. Len(p)
        BY <2>4, <2>5, <2>6, <1>12
      <3>2. m[12 + (a + j)] = w[a + j] /\ w[a + j] = p[j] BY <3>1, <2>5, <1>12
      <3> QED BY <3>1, <3>2
    <2>8. at[i + 1] = at[i] + 1 + l /\ at[i] \in Nat /\ at[i] < Len(m)
      BY <2>2, <2>4, <2>5, <2>6, <1>12
    <2>9. m[at[i] + 1] = l
      <3>1. 1 \in 1 .. l + 1 BY <2>4
      <3> QED BY <3>1, <2>2, <2>4, <2>7
    <2>10. ASSUME NEW j \in 1 .. l PROVE m[at[i] + 1 + j] = x[j]
      <3>1. j + 1 \in 1 .. l + 1 /\ 12 + a + (j + 1) = (12 + a) + 1 + j BY <2>4, <2>5
      <3>2. m[12 + a + (j + 1)] = p[j + 1] BY <3>1, <2>7
      <3> QED BY <3>1, <3>2, <2>2, <2>4
    <2> QED BY <2>8, <2>9, <2>10 DEF x, l
  <1> HIDE DEF at
  <1>17. \A i \in 1 .. n + 1 : at[i] \in Nat /\ at[i] < Len(m)
    <2>1. \A i \in 1 .. n + 1 : i \in 1 .. n \/ i = n + 1 BY <1>2
    <2>2. 12 + e \in Nat /\ 12 + e < Len(m) BY <1>12
    <2> QED BY <2>1, <2>2, <1>15, <1>16
  <1>18. m[at[n + 1] + 1] = 0 /\ m[at[n + 1] + 2] = q.type \div 256 /\ m[at[n + 1] + 3] = q.type % 256
         /\ Len(m) = at[n + 1] + 5
    <2>1. 1 \in 1 .. 5 /\ 2 \in 1 .. 5 /\ 3 \in 1 .. 5 OBVIOUS
    <2>2. Len(m) = (12 + e) + 5 BY <1>12
    <2> QED BY <2>1, <2>2, <1>8, <1>12, <1>15
  <1>19. LabelsAt(labels, m, at) BY <1>16, <1>17, <1>18 DEF LabelsAt, n
  <1>20. Asks(m, q, at) BY <1>15, <1>18, <1>19, <1>9 DEF Asks, labels, n
  <1> QED BY <1>5, <1>20 DEF m, s

(* What is found in a message that asks q. *)
LEMMA AskedFound ==
  ASSUME NEW m, NEW q, IsQuestion(q), NEW at, Asks(m, q, at)
  PROVE  /\ NameFrom(m, 12) = [ok |-> TRUE, labels |-> q.labels, end |-> Len(m) - 4]
         /\ Len(m) \in Nat /\ Len(m) > 16 /\ QType(m, Len(m) - 4) = q.type
  <1> DEFINE e == at[Len(q.labels) + 1]
             labels == q.labels
  <1>1. m \in Seq(0 .. 255) BY DEF Asks, Octet
  <1>2. IsNamed(labels) /\ Len(labels) \in Nat BY DEF IsQuestion, IsNamed
  <1>3. LabelsAt(labels, m, at) /\ at[1] = 12 /\ Len(m) = e + 5 BY DEF Asks
  <1>4. e \in Nat /\ e >= 12
    <2> DEFINE n == Len(labels)
               S == {k \in Nat : k <= n => at[k + 1] \in Nat /\ at[k + 1] >= 12}
    <2>1. 0 \in S BY <1>3
    <2>2. ASSUME NEW k \in S PROVE k + 1 \in S
      <3> SUFFICES ASSUME k + 1 <= n PROVE at[k + 1 + 1] \in Nat /\ at[k + 1 + 1] >= 12
        OBVIOUS
      <3> DEFINE i == k + 1
                 l == Len(labels[i])
      <3>1. k \in Nat /\ i \in 1 .. n /\ k <= n /\ n \in Nat BY <1>2
      <3>2. at[i + 1] = at[i] + 1 + l /\ l \in Nat
        <4>1. at[i + 1] = at[i] + 1 + l BY <1>3, <3>1 DEF LabelsAt
        <4>2. l \in 1 .. 63 BY <1>2, <3>1 DEF IsNamed
        <4> QED BY <4>1, <4>2
      <3>3. at[i] \in Nat /\ at[i] >= 12 BY <3>1
      <3> HIDE DEF l, i
      <3>4. at[i + 1] \in Nat /\ at[i + 1] >= 12 BY <3>2, <3>3
      <3> QED BY <3>4 DEF i
    <2>3. S = Nat
      <3>1. S \subseteq Nat OBVIOUS
      <3> HIDE DEF S
      <3> QED BY <2>1, <2>2, <3>1, InductionBySet
    <2>4. n \in S /\ n <= n
      <3>1. n \in Nat BY <1>2
      <3> HIDE DEF S, n
      <3> QED BY <3>1, <2>3
    <2> QED BY <2>4
  <1>5. NameFrom(m, at[1]) = [ok |-> TRUE, labels |-> labels, end |-> at[Len(labels) + 1] + 1]
    BY <1>1, <1>2, <1>3, NameFound
  <1>6. m[e + 2] = q.type \div 256 /\ m[e + 3] = q.type % 256 BY DEF Asks
  <1> DEFINE c == q.type
  <1>7. c \in Nat BY DEF IsQuestion
  <1>8. NameFrom(m, 12) = [ok |-> TRUE, labels |-> labels, end |-> e + 1] BY <1>3, <1>5
  <1> HIDE DEF e, c, labels
  <1>9. e + 1 = Len(m) - 4 /\ Len(m) \in Nat /\ Len(m) > 16 BY <1>3, <1>4
  <1>10. (c \div 256) * 256 + (c % 256) = c BY <1>7
  <1>11. QType(m, e + 1) = c
    <2>1. ~((e + 1) + 2 > Len(m)) /\ (e + 1) + 1 = e + 2 /\ (e + 1) + 2 = e + 3 BY <1>3, <1>4
    <2>2. QType(m, e + 1) = m[e + 2] * 256 + m[e + 3] BY <2>1 DEF QType
    <2> QED BY <2>2, <1>6, <1>10 DEF c
  <1> QED BY <1>8, <1>9, <1>11 DEF c, labels

(* What was received is q behind its length. *)
AsksFor(raw, q) ==
  Len(raw) > 14 /\ raw = OnTcp(SubSeq(raw, 3, 2 + DNS_HEADER_SIZE) \o Question(q))

(* Then the length is recognized, and the message is what is behind it. *)
LEMMA FrameFound ==
  ASSUME NEW raw \in Seq(Octet), NEW q, IsQuestion(q), AsksFor(raw, q)
  PROVE  /\ TcpFramed(raw) /\ Len(raw) = Len(Message(raw)) + 2
         /\ \E at : Asks(Message(raw), q, at)
  <1> DEFINE h == SubSeq(raw, 3, 14)
             m == h \o Question(q)
             k == Len(m)
  <1>1. Len(raw) \in Nat /\ Len(raw) > 14 /\ raw = OnTcp(m)
    <2>1. 2 + DNS_HEADER_SIZE = 14 BY DEF DNS_HEADER_SIZE
    <2> QED BY <2>1 DEF AsksFor
  <1>2. h \in Seq(Octet) /\ Len(h) = 12
    <2>1. \A i \in 3 .. 14 : i \in 1 .. Len(raw) BY <1>1
    <2>2. \A i \in 3 .. 14 : raw[i] \in Octet BY <2>1, ByteOf
    <2> QED BY <2>2, SubSeqProperties
  <1> HIDE DEF h
  <1>3. PICK at : Asks(m, q, at) BY <1>2, QuestionAsks
  <1> HIDE DEF m
  <1>4. k \in Nat /\ k > 16 BY <1>3, AskedFound
  <1>5. m \in Seq(Octet) BY <1>3 DEF Asks
  <1> DEFINE u == <<k \div 256, k % 256>>
  <1>6. IsSeq(u) /\ Len(u) = 2 /\ u[1] = k \div 256 /\ u[2] = k % 256 BY TwoSeq
  <1>7. raw = u \o m BY <1>1 DEF OnTcp
  <1>8. IsSeq(m) BY <1>5 DEF IsSeq
  <1> HIDE DEF u
  <1>9. /\ Len(u \o m) = Len(u) + Len(m) /\ \A i \in 1 .. Len(u) : (u \o m)[i] = u[i]
        /\ \A i \in 1 .. Len(m) : (u \o m)[Len(u) + i] = m[i]
    <2>1. IsSeq(u) BY <1>6
    <2> QED BY ONLY <2>1, <1>8, ConcatShape
  <1>10. /\ Len(raw) = k + 2 /\ raw[1] = k \div 256 /\ raw[2] = k % 256
         /\ \A i \in 1 .. k : raw[2 + i] = m[i]
    <2>1. 1 \in 1 .. 2 /\ 2 \in 1 .. 2 /\ 2 + k = k + 2 BY <1>4
    <2> QED BY <2>1, <1>6, <1>7, <1>9
  <1> HIDE DEF k
  <1>11. raw[1] * 256 + raw[2] = k
    <2>1. (k \div 256) * 256 + (k % 256) = k BY <1>4
    <2> QED BY <2>1, <1>10
  <1>12. TcpFramed(raw)
    <2>1. k \in 12 .. Len(raw) - 2 /\ Len(raw) >= 2 BY <1>4, <1>10
    <2> QED BY <2>1, <1>11 DEF TcpFramed, DNS_HEADER_SIZE
  <1>13. Message(raw) = SubSeq(raw, 3, k + 2) BY <1>11, <1>12 DEF Message
  <1>14. SubSeq(raw, 3, k + 2) = m
    <2> DEFINE t == SubSeq(raw, 3, k + 2)
    <2>1. 3 \in Int /\ k + 2 \in Int /\ 3 <= k + 2 /\ (k + 2) - 3 + 1 = k BY <1>4
    <2>2. IsSeq(t) /\ Len(t) = k /\ \A i \in 1 .. k : t[i] = raw[3 + i - 1] BY <2>1, SubSeqShape
    <2>3. \A i \in 1 .. k : 3 + i - 1 = 2 + i BY <1>4
    <2> HIDE DEF t
    <2>4. \A i \in 1 .. k : t[i] = m[i] BY <2>2, <2>3, <1>10
    <2>5. Len(t) = Len(m) BY <2>2 DEF k
    <2>6. t = m BY <2>2, <2>4, <2>5, <1>8, SameSeq
    <2> QED BY <2>6 DEF t
  <1> QED BY <1>3, <1>10, <1>12, <1>13, <1>14 DEF k

(* What DnsAnswersAsked says of a trail a and replies r. *)
ToldOf(q, raw, a, r) ==
  /\ a[2][2] = Cut(Dotted(q.labels), DnsNameSize)
  /\ [i \in DOMAIN a |-> a[i][1]]
       = IF q.type = DNS_QTYPE_AXFR THEN <<"CONNECT", "COMMAND", "EXPLOIT_ATTEMPT">>
         ELSE <<"CONNECT", "COMMAND">>
  /\ Len(r) = 1 /\ r[1][2]
  /\ r[1][1].kind = CASE q.type = DNS_QTYPE_AXFR -> "REFUSED"
                      [] q.type = DNS_QTYPE_A /\ Len(raw) - 2 + AnswerSize <= DnsBufSize -> "A"
                      [] OTHER -> "SERVFAIL"

(* The reply and the events of DnsRecv, from what it found. *)
DnsAnswer(q, m, framed) ==
  LET command == <<"COMMAND", DomainText(q.labels)>>
      end == Len(m) - 4
  IN  \/ /\ q.type = DNS_QTYPE_AXFR
         /\ audit' = audit \o <<command, <<"EXPLOIT_ATTEMPT", command[2]>>>>
         /\ replies' = Append(replies, <<Copy("REFUSED", m), framed>>)
      \/ /\ q.type # DNS_QTYPE_AXFR
         /\ audit' = Append(audit, command)
         /\ replies' = Append(replies, <<IF q.type = DNS_QTYPE_A THEN FakeA(m, end)
                                         ELSE Copy("SERVFAIL", m), framed>>)

(* DnsRecv answers the question that was asked. *)
LEMMA RecvAnswers ==
  ASSUME NEW raw \in Seq(Octet), NEW q, IsQuestion(q), AsksFor(raw, q), DnsRecv(raw)
  PROVE  DnsAnswer(q, Message(raw), TcpFramed(raw))
  <1> DEFINE m == Message(raw)
             name == NameFrom(m, DNS_HEADER_SIZE)
  <1>1. PICK at : Asks(m, q, at) BY FrameFound
  <1>2. /\ name = [ok |-> TRUE, labels |-> q.labels, end |-> Len(m) - 4]
        /\ Len(m) \in Nat /\ Len(m) > 16 /\ QType(m, Len(m) - 4) = q.type
    <2> HIDE DEF m
    <2> QED BY <1>1, AskedFound DEF DNS_HEADER_SIZE
  <1> DEFINE command == <<"COMMAND", DomainText(name.labels)>>
             type == QType(m, name.end)
  <1>3. \/ Len(m) < DNS_HEADER_SIZE
        \/ ~name.ok \/ Len(name.labels) > DnsMaxLabels \/ name.end = DNS_HEADER_SIZE
        \/ /\ type = DNS_QTYPE_AXFR
           /\ audit' = audit \o <<command, <<"EXPLOIT_ATTEMPT", command[2]>>>>
           /\ replies' = Append(replies, <<Copy("REFUSED", m), TcpFramed(raw)>>)
        \/ /\ type # DNS_QTYPE_AXFR
           /\ audit' = Append(audit, command)
           /\ replies' = Append(replies, <<IF type = DNS_QTYPE_A THEN FakeA(m, name.end)
                                           ELSE Copy("SERVFAIL", m), TcpFramed(raw)>>)
    BY DEF DnsRecv, DnsSend
  <1>4. ~(Len(m) < DNS_HEADER_SIZE)
    <2> HIDE DEF m
    <2> QED BY <1>2 DEF DNS_HEADER_SIZE
  <1> HIDE DEF m, name
  <1>5. name.ok /\ name.labels = q.labels /\ name.end = Len(m) - 4 BY <1>2
  <1>6. ~(Len(name.labels) > DnsMaxLabels) /\ name.end # DNS_HEADER_SIZE
    <2>1. Len(q.labels) <= DnsMaxLabels /\ DnsMaxLabels \in Nat /\ Len(q.labels) \in Nat
      BY DnsAssumption DEF IsQuestion
    <2> DEFINE l == Len(q.labels)
    <2>2. ~(l > DnsMaxLabels)
      <3> HIDE DEF l
      <3>1. l <= DnsMaxLabels /\ DnsMaxLabels \in Nat /\ l \in Nat BY <2>1 DEF l
      <3> QED BY <3>1
    <2>3. Len(m) - 4 # DNS_HEADER_SIZE
      <3> DEFINE k == Len(m)
      <3>1. k \in Nat /\ k > 16 BY <1>2
      <3> HIDE DEF k
      <3>2. k - 4 # 12 BY <3>1
      <3> QED BY <3>2 DEF k, DNS_HEADER_SIZE
    <2> QED BY <2>2, <2>3, <1>5
  <1>7. \/ /\ type = DNS_QTYPE_AXFR
           /\ audit' = audit \o <<command, <<"EXPLOIT_ATTEMPT", command[2]>>>>
           /\ replies' = Append(replies, <<Copy("REFUSED", m), TcpFramed(raw)>>)
        \/ /\ type # DNS_QTYPE_AXFR
           /\ audit' = Append(audit, command)
           /\ replies' = Append(replies, <<IF type = DNS_QTYPE_A THEN FakeA(m, name.end)
                                           ELSE Copy("SERVFAIL", m), TcpFramed(raw)>>)
    BY <1>3, <1>4, <1>5, <1>6
  <1>8. type = q.type BY <1>2, <1>5
  <1> QED BY <1>5, <1>7, <1>8 DEF DnsAnswer, m

(* The kinds of the events of a trail of two and of three. *)
LEMMA KindsOf ==
  ASSUME NEW x, NEW y, NEW z
  PROVE  /\ [i \in DOMAIN <<x, y>> |-> <<x, y>>[i][1]] = <<x[1], y[1]>>
         /\ [i \in DOMAIN <<x, y, z>> |-> <<x, y, z>>[i][1]] = <<x[1], y[1], z[1]>>
  OBVIOUS

(* Events added to a trail of one. *)
LEMMA AddedTo ==
  ASSUME NEW x, NEW y, NEW z
  PROVE  Append(<<x>>, y) = <<x, y>> /\ <<x>> \o <<y, z>> = <<x, y, z>>
  <1> DEFINE S == {x, y, z}
  <1>1. x \in S /\ y \in S /\ z \in S OBVIOUS
  <1> HIDE DEF S
  <1>2. <<x>> \in Seq(S) /\ <<x, y>> \in Seq(S) /\ <<x, y, z>> \in Seq(S) BY <1>1
  <1>3. Append(<<x>>, y) = <<x, y>>
    <2>1. Append(<<x>>, y) \in Seq(S) /\ Len(Append(<<x>>, y)) = 2 BY <1>1, <1>2
    <2>2. \A i \in 1 .. 2 : Append(<<x>>, y)[i] = <<x, y>>[i] BY <1>1, <1>2
    <2>3. Len(<<x, y>>) = 2 OBVIOUS
    <2> QED BY <1>2, <2>1, <2>2, <2>3, SeqEqual
  <1>6. Append(<<x, y>>, z) = <<x, y, z>>
    <2>1. Append(<<x, y>>, z) \in Seq(S) /\ Len(Append(<<x, y>>, z)) = 3 BY <1>1, <1>2
    <2>2. \A i \in 1 .. 3 : Append(<<x, y>>, z)[i] = <<x, y, z>>[i] BY <1>1, <1>2
    <2>3. Len(<<x, y, z>>) = 3 OBVIOUS
    <2> QED BY <1>2, <2>1, <2>2, <2>3, SeqEqual
  <1>4. IsSeq(<<x>>) BY OneSeq
  <1>5. <<x>> \o <<y, z>> = Append(Append(<<x>>, y), z) BY <1>4, ConcatAppends
  <1> QED BY <1>3, <1>5, <1>6

(* Which is what DnsAnswersAsked wants. *)
LEMMA AnswerTells ==
  ASSUME NEW raw \in Seq(Octet), NEW q, IsQuestion(q), AsksFor(raw, q), DnsRecv(raw),
         audit = <<<<"CONNECT">>>>, replies = <<>>
  PROVE  ToldOf(q, raw, audit', replies')
  <1> DEFINE m == Message(raw)
             end == Len(m) - 4
             domain == DomainText(q.labels)
             command == <<"COMMAND", domain>>
             attempt == <<"EXPLOIT_ATTEMPT", domain>>
             first == <<"CONNECT">>
             framed == TcpFramed(raw)
  <1>1. framed /\ Len(raw) = Len(m) + 2 /\ \E at : Asks(m, q, at) BY FrameFound
  <1>2. Len(m) \in Nat BY <1>1, AskedFound
  <1>3. domain = Cut(Dotted(q.labels), DnsNameSize)
    <2>1. IsNamed(q.labels) BY DEF IsQuestion, IsNamed
    <2> QED BY <2>1, DnsAssumption, DomainWhole
  <1>4. DnsAnswer(q, m, framed) BY RecvAnswers
  <1> HIDE DEF m, framed, domain
  <1>5. \A r : replies' = Append(replies, <<r, framed>>)
               => Len(replies') = 1 /\ replies'[1][2] /\ replies'[1][1] = r
    <2> SUFFICES ASSUME NEW r, replies' = Append(<<>>, <<r, framed>>)
                 PROVE  Len(replies') = 1 /\ replies'[1][2] /\ replies'[1][1] = r
      OBVIOUS
    <2> DEFINE e == <<r, framed>>
    <2>1. e[1] = r /\ e[2] = framed OBVIOUS
    <2> HIDE DEF e
    <2>2. Append(<<>>, e) = <<e>> OBVIOUS
    <2>3. Len(<<e>>) = 1 /\ <<e>>[1] = e BY OneSeq
    <2>4. replies' = <<e>> BY <2>2 DEF e
    <2>5. e[2] BY <2>1, <1>1 DEF framed
    <2> QED BY <2>1, <2>3, <2>4, <2>5
  <1>6. \A kind : Copy(kind, m).kind = kind BY DEF Copy
  <1>7. FakeA(m, end).kind = IF Len(raw) - 2 + AnswerSize <= DnsBufSize THEN "A" ELSE "SERVFAIL"
    <2> DEFINE k == Len(m)
    <2>1. Len(raw) - 2 = k /\ end + 4 = k
      <3>1. Len(raw) = k + 2 /\ k \in Nat BY <1>1, <1>2
      <3> HIDE DEF k
      <3> QED BY <3>1 DEF k
    <2>2. FitsWithAnswer(end) <=> Len(raw) - 2 + AnswerSize <= DnsBufSize BY <2>1 DEF FitsWithAnswer
    <2> HIDE DEF end
    <2>3. CASE FitsWithAnswer(end) BY <2>2, <2>3 DEF FakeA
    <2>4. CASE ~FitsWithAnswer(end)
      <3>1. FakeA(m, end) = Copy("SERVFAIL", m) BY <2>4 DEF FakeA
      <3> QED BY <2>2, <2>4, <3>1, <1>6
    <2> QED BY <2>3, <2>4
  <1>8. command[1] = "COMMAND" /\ command[2] = domain /\ attempt[1] = "EXPLOIT_ATTEMPT" /\ first[1] = "CONNECT"
    OBVIOUS
  <1>9. CASE q.type = DNS_QTYPE_AXFR
    <2>1. audit' = audit \o <<command, attempt>> /\ replies' = Append(replies, <<Copy("REFUSED", m), framed>>)
      BY <1>4, <1>9, <1>8 DEF DnsAnswer, domain
    <2> HIDE DEF command, attempt, first
    <2>2. audit' = <<first, command, attempt>>
      <3>1. audit' = <<first>> \o <<command, attempt>> BY <2>1 DEF first
      <3> QED BY <3>1, AddedTo
    <2>3. audit'[2] = command BY <2>2
    <2>4. [i \in DOMAIN audit' |-> audit'[i][1]] = <<"CONNECT", "COMMAND", "EXPLOIT_ATTEMPT">>
      BY <1>8, <2>2, KindsOf
    <2>5. Len(replies') = 1 /\ replies'[1][2] /\ replies'[1][1] = Copy("REFUSED", m) BY <2>1, <1>5
    <2>6. replies'[1][1].kind = "REFUSED" BY <2>5, <1>6
    <2>7. audit'[2][2] = Cut(Dotted(q.labels), DnsNameSize) BY <1>3, <1>8, <2>3
    <2>8. (CASE q.type = DNS_QTYPE_AXFR -> "REFUSED"
             [] q.type = DNS_QTYPE_A /\ Len(raw) - 2 + AnswerSize <= DnsBufSize -> "A"
             [] OTHER -> "SERVFAIL") = "REFUSED"
      <3>1. q.type # DNS_QTYPE_A BY <1>9 DEF DNS_QTYPE_A, DNS_QTYPE_AXFR
      <3> QED BY <1>9, <3>1
    <2> QED BY <1>9, <2>4, <2>5, <2>6, <2>7, <2>8 DEF ToldOf
  <1>10. CASE q.type # DNS_QTYPE_AXFR
    <2> DEFINE r == IF q.type = DNS_QTYPE_A THEN FakeA(m, end) ELSE Copy("SERVFAIL", m)
    <2>1. audit' = Append(audit, command) /\ replies' = Append(replies, <<r, framed>>)
      BY <1>4, <1>10 DEF DnsAnswer, domain
    <2> HIDE DEF command, attempt, first
    <2>2. audit' = <<first, command>>
      <3>1. audit' = Append(<<first>>, command) BY <2>1 DEF first
      <3> QED BY <3>1, AddedTo
    <2>3. audit'[2] = command BY <2>2
    <2>4. [i \in DOMAIN audit' |-> audit'[i][1]] = <<"CONNECT", "COMMAND">>
      BY <1>8, <2>2, KindsOf
    <2>5. r.kind = IF q.type = DNS_QTYPE_A /\ Len(raw) - 2 + AnswerSize <= DnsBufSize THEN "A" ELSE "SERVFAIL"
      <3>1. CASE q.type = DNS_QTYPE_A BY <3>1, <1>7
      <3>2. CASE q.type # DNS_QTYPE_A
        <4>1. r = Copy("SERVFAIL", m) BY <3>2
        <4> QED BY <3>2, <4>1, <1>6
      <3> QED BY <3>1, <3>2
    <2> HIDE DEF r
    <2>6. Len(replies') = 1 /\ replies'[1][2] /\ replies'[1][1] = r BY <2>1, <1>5
    <2>7. replies'[1][1].kind = CASE q.type = DNS_QTYPE_AXFR -> "REFUSED"
            [] q.type = DNS_QTYPE_A /\ Len(raw) - 2 + AnswerSize <= DnsBufSize -> "A"
            [] OTHER -> "SERVFAIL"
      BY <1>10, <2>5, <2>6
    <2> QED BY <1>3, <1>8, <1>10, <2>3, <2>4, <2>6, <2>7 DEF ToldOf
  <1> QED BY <1>9, <1>10

(* Nothing is recorded or answered before the query; behind it, what was   *)
(* asked is told.                                                          *)
DnsTells ==
  /\ pc = "dns" => audit = <<<<"CONNECT">>>> /\ replies = <<>> /\ local.raw = <<>>
  /\ pc = "end" => \A q \in DnsQuestions :
       AsksFor(local.raw, q) => ToldOf(q, local.raw, audit, replies)
DnsIInv == service = "dns" => DnsTells

(* DnsTells holds at the start. *)
LEMMA DnsTellsInit == DnsInit => DnsTells
  <1> SUFFICES ASSUME DnsInit PROVE DnsTells
    OBVIOUS
  <1>1. pc = "dns" /\ local = [raw |-> <<>>] /\ audit = <<<<"CONNECT">>>> /\ replies = <<>>
    BY DEF DnsInit, Begins
  <1> QED BY <1>1 DEF DnsTells

(* Each step of DNS keeps DnsTells. *)
LEMMA DnsTellsStep ==
  ASSUME DnsAssumption, DnsTells, DnsNext
  PROVE  DnsTells'
  <1>1. CASE EndSession
    <2>1. pc' = "ended" BY <1>1 DEF EndSession
    <2> QED BY <2>1 DEF DnsTells
  <1>2. CASE PeerGone({"dns"})
    <2>1. pc = "dns" /\ pc' = "end" /\ local' = local BY <1>2 DEF PeerGone
    <2>2. local'.raw = <<>> BY <2>1 DEF DnsTells
    <2>3. ~(Len(<<>>) > 14) OBVIOUS
    <2>4. \A q : ~AsksFor(local'.raw, q) BY <2>2, <2>3 DEF AsksFor
    <2> QED BY <2>1, <2>4 DEF DnsTells
  <1>3. ASSUME NEW raw \in DnsSegments, DnsRecv(raw) PROVE DnsTells'
    <2>1. pc = "dns" /\ pc' = "end" /\ local' = [raw |-> raw] BY <1>3 DEF DnsRecv
    <2>2. local'.raw = raw /\ audit = <<<<"CONNECT">>>> /\ replies = <<>> BY <2>1 DEF DnsTells
    <2>3. raw \in Seq(Octet) /\ \A q \in DnsQuestions : IsQuestion(q) BY DEF DnsAssumption, Octet
    <2>4. \A q \in DnsQuestions : AsksFor(raw, q) => ToldOf(q, raw, audit', replies')
      BY <1>3, <2>2, <2>3, AnswerTells
    <2> QED BY <2>1, <2>2, <2>4 DEF DnsTells
  <1> QED BY <1>1, <1>2, <1>3 DEF DnsNext

(* DnsIInv is an invariant. *)
LEMMA DnsInvariance == Spec => []DnsIInv
  <1>1. Init => DnsIInv BY DnsTellsInit DEF Init, DnsIInv
  <1>2. DnsIInv /\ [Next]_session => DnsIInv'
    <2> SUFFICES ASSUME DnsIInv, [Next]_session PROVE DnsIInv'
      OBVIOUS
    <2>1. CASE UNCHANGED session BY <2>1 DEF session, DnsIInv, DnsTells
    <2>2. CASE ServiceStep /\ UNCHANGED service
      <3> SUFFICES ASSUME service = "dns" PROVE DnsTells'
        BY <2>2 DEF DnsIInv
      <3>1. DnsNext BY <2>2 DEF ServiceStep
      <3> QED BY <3>1, DnsAssumption, DnsTellsStep DEF DnsIInv
    <2> QED BY <2>1, <2>2 DEF Next, Ended
  <1> QED BY <1>1, <1>2, PTL DEF Spec

(* DnsAnswersAsked: a query that comes whole behind its length, with any   *)
(* name of any number of labels that RFC 1035 allows, is recorded with     *)
(* this name, told from an attack by its type, and answered once.          *)
THEOREM DnsAnswersQuestion == Spec => []DnsAnswersAsked
  <1>1. DnsIInv => DnsAnswersAsked
    <2> SUFFICES ASSUME DnsIInv, NEW q \in DnsQuestions, service = "dns", pc = "end",
                        AsksFor(local.raw, q)
                 PROVE  ToldOf(q, local.raw, audit, replies)
      BY DEF DnsAnswersAsked, AsksFor, ToldOf
    <2> QED BY DEF DnsIInv, DnsTells
  <1> QED BY <1>1, DnsInvariance, PTL
----------------------------------------------------------------------------
(***************************************************************************)
(* SMTP: the credentials captured are the ones meant.  First the alphabet: *)
(* its digits are all different, so a digit is found at its own place, and *)
(* the padding is none of them.                                            *)
(***************************************************************************)
Digit(k) == Base64Digits[k + 1]
DigitPlaces == 1 .. 64
Base64Text == {Base64Digits[i] : i \in DigitPlaces} \cup {"="}

LEMMA DigitsDiffer ==
  /\ Len(Base64Digits) = 64
  /\ \A i \in DigitPlaces : Base64Digits[i] \notin {"=", CR, LF, SP}
  /\ \A i, j \in DigitPlaces : Base64Digits[i] = Base64Digits[j] => i = j
  <1>1. Len(Base64Digits) = 64 BY DEF Base64Digits
  <1>2. \A i \in 1 .. 64 : Base64Digits[i] \notin {"=", CR, LF, SP} BY DEF Base64Digits, CR, LF, SP
  <1>3. \A i, j \in 1 .. 64 : Base64Digits[i] = Base64Digits[j] => i = j BY DEF Base64Digits
  <1> QED BY <1>1, <1>2, <1>3, Zenon DEF DigitPlaces

(* The decoder's value of a digit is its place; the padding counts 0. *)
LEMMA SextetIs ==
  /\ \A k \in 0 .. 63 : Digit(k) \in Base64Text /\ Sextet(Digit(k)) = k
  /\ "=" \in Base64Text /\ Sextet("=") = 0
  <1> DEFINE At(c) == {i \in DigitPlaces : Base64Digits[i] = c}
  <1>1. ASSUME NEW c
        PROVE  Sextet(c) = LET at == IF At(c) # {} THEN Min(At(c)) ELSE 0
                           IN  IF at = 0 THEN 0 ELSE at - 1
    BY DigitsDiffer DEF Sextet, SelectInSeq, DigitPlaces
  <1>2. ASSUME NEW k \in 0 .. 63 PROVE Digit(k) \in Base64Text /\ Sextet(Digit(k)) = k
    <2>1. k + 1 \in DigitPlaces /\ k + 1 \in Nat /\ k \in Nat /\ k + 1 # 0 /\ (k + 1) - 1 = k
      BY DEF DigitPlaces
    <2>2. At(Digit(k)) = {k + 1}
      <3>1. ASSUME NEW i \in DigitPlaces PROVE Base64Digits[i] = Digit(k) <=> i = k + 1
        <4>1. \A j \in DigitPlaces : Base64Digits[i] = Base64Digits[j] => i = j BY DigitsDiffer
        <4> QED BY <2>1, <4>1 DEF Digit
      <3> QED BY <2>1, <3>1
    <2> DEFINE A == At(Digit(k))
    <2>3. A # {} /\ A \subseteq Nat BY <2>1, <2>2
    <2>4. Min(A) \in A
      <3> HIDE DEF A
      <3> QED BY <2>3, MinOfNat
    <2>5. Min(A) = k + 1 BY <2>2, <2>4
    <2>6. Sextet(Digit(k)) = IF A # {} THEN (IF Min(A) = 0 THEN 0 ELSE Min(A) - 1) ELSE 0
      <3> HIDE DEF A
      <3>1. Sextet(Digit(k)) = LET at == IF A # {} THEN Min(A) ELSE 0
                               IN  IF at = 0 THEN 0 ELSE at - 1
        BY <1>1 DEF A
      <3> QED BY <3>1
    <2> HIDE DEF A
    <2>7. Sextet(Digit(k)) = k BY <2>1, <2>3, <2>5, <2>6
    <2> QED BY <2>1, <2>7 DEF Digit, Base64Text
  <1>3. At("=") = {} BY DigitsDiffer
  <1>4. Sextet("=") = 0 BY <1>1, <1>3
  <1>5. "=" \in Base64Text BY DEF Base64Text
  <1> QED BY <1>2, <1>4, <1>5

(* Parts of the same length n: part i is behind n * (i - 1) elements. *)
EvenParts(parts, whole, n) ==
  /\ Len(whole) = n * Len(parts)
  /\ \A i \in 1 .. Len(parts) : \A j \in 1 .. n : whole[n * (i - 1) + j] = parts[i][j]

LEMMA EqualParts ==
  ASSUME NEW S, NEW parts \in Seq(Seq(S)), NEW n \in {1, 3, 4},
         \A i \in 1 .. Len(parts) : Len(parts[i]) = n
  PROVE  FlattenSeq(parts) \in Seq(S) /\ EvenParts(parts, FlattenSeq(parts), n)
  <1> DEFINE whole == FlattenSeq(parts)
             m == Len(parts)
  <1>1. whole \in Seq(S) /\ \E at : Places(parts, whole, at) BY FlattenPlaces
  <1>2. PICK at : Places(parts, whole, at) BY <1>1
  <1>3. m \in Nat OBVIOUS
  <1> HIDE DEF whole
  <1>4. /\ at[1] = 0 /\ at[m + 1] = Len(whole)
        /\ \A i \in 1 .. m : at[i + 1] = at[i] + n /\ \A j \in 1 .. n : whole[at[i] + j] = parts[i][j]
    BY <1>2 DEF Places
  <1> HIDE DEF m
  <1> DEFINE T == {k \in Nat : k <= m => at[k + 1] = n * k}
  <1>5. 0 \in T
    <2>1. n * 0 = 0 /\ 0 + 1 = 1 OBVIOUS
    <2> QED BY <2>1, <1>4
  <1>6. ASSUME NEW k \in T PROVE k + 1 \in T
    <2>1. k \in Nat /\ k + 1 \in Nat OBVIOUS
    <2> SUFFICES ASSUME k + 1 <= m PROVE at[k + 1 + 1] = n * (k + 1)
      BY <2>1
    <2>2. k + 1 \in 1 .. m /\ k <= m BY <1>3, <2>1
    <2>3. at[k + 1] = n * k BY <2>2
    <2>4. at[k + 1 + 1] = n * k + n BY <1>4, <2>2, <2>3
    <2>5. n * k + n = n * (k + 1)
      <3>1. CASE n = 1 BY <2>1, <3>1
      <3>2. CASE n = 3 BY <2>1, <3>2
      <3>3. CASE n = 4 BY <2>1, <3>3
      <3> QED BY <3>1, <3>2, <3>3
    <2> QED BY <2>4, <2>5
  <1>7. T = Nat
    <2>1. T \subseteq Nat OBVIOUS
    <2> HIDE DEF T
    <2> QED BY <1>5, <1>6, <2>1, InductionBySet
  <1>8. \A k \in Nat : k <= m => at[k + 1] = n * k BY <1>7
  <1> HIDE DEF T
  <1>9. Len(whole) = n * m BY <1>3, <1>4, <1>8
  <1>10. ASSUME NEW i \in 1 .. m, NEW j \in 1 .. n PROVE whole[n * (i - 1) + j] = parts[i][j]
    <2>1. i - 1 \in Nat /\ i - 1 <= m /\ (i - 1) + 1 = i BY <1>3
    <2>2. at[i] = n * (i - 1) BY <2>1, <1>8
    <2> QED BY <2>2, <1>4
  <1> QED BY <1>1, <1>9, <1>10 DEF whole, m, EvenParts

(* Three bytes as a number of 24 bits, that number as four sextets, and    *)
(* back.                                                                   *)
Sextet1(t) == (t \div 262144) % 64
Sextet2(t) == (t \div 4096) % 64
Sextet3(t) == (t \div 64) % 64
Sextet4(t) == (t \div 1) % 64

IsByte(x) == x \in Nat /\ x < 256
Joined3(x, y, z) == (x * 256 + y) * 256 + z
Joined4(a, b, c, d) == ((a * 64 + b) * 64 + c) * 64 + d
SextetsFit(t) ==
  /\ Sextet1(t) \in 0 .. 63 /\ Sextet2(t) \in 0 .. 63 /\ Sextet3(t) \in 0 .. 63 /\ Sextet4(t) \in 0 .. 63
  /\ Joined4(Sextet1(t), Sextet2(t), Sextet3(t), Sextet4(t)) = t
BytesFit(t, x, y, z) ==
  /\ y = 0 /\ z = 0 => Sextet3(t) = 0
  /\ z = 0 => Sextet4(t) = 0
  /\ t \div 65536 = x /\ (t \div 256) % 256 = y /\ t % 256 = z

LEMMA TripleSextets ==
  ASSUME NEW x, IsByte(x), NEW y, IsByte(y), NEW z, IsByte(z), NEW t, t = Joined3(x, y, z)
  PROVE  SextetsFit(t) /\ BytesFit(t, x, y, z)
  <1>0. /\ x \in Nat /\ x < 256 /\ y \in Nat /\ y < 256 /\ z \in Nat /\ z < 256
        /\ t = (x * 256 + y) * 256 + z
    BY DEF IsByte, Joined3
  <1>1. t \in Nat /\ t < 16777216 BY <1>0
  <1>2. /\ Sextet1(t) \in 0 .. 63 /\ Sextet2(t) \in 0 .. 63
        /\ Sextet3(t) \in 0 .. 63 /\ Sextet4(t) \in 0 .. 63
    BY <1>1 DEF Sextet1, Sextet2, Sextet3, Sextet4
  <1>3. ((Sextet1(t) * 64 + Sextet2(t)) * 64 + Sextet3(t)) * 64 + Sextet4(t) = t
    BY <1>1 DEF Sextet1, Sextet2, Sextet3, Sextet4
  <1>4. y = 0 /\ z = 0 => Sextet3(t) = 0 BY <1>0 DEF Sextet3
  <1>5. z = 0 => Sextet4(t) = 0 BY <1>0 DEF Sextet4
  <1>6. t \div 65536 = x BY <1>0
  <1>7. (t \div 256) % 256 = y BY <1>0
  <1>8. t % 256 = z BY <1>0
  <1> QED BY <1>2, <1>3, <1>4, <1>5, <1>6, <1>7, <1>8 DEF SextetsFit, BytesFit, Joined4

(* Base64Encode, group by group. *)
ByteAt(b, i) == IF i > Len(b) THEN 0 ELSE b[i]
TripleOf(b, g) == Joined3(ByteAt(b, 3 * g - 2), ByteAt(b, 3 * g - 1), ByteAt(b, 3 * g))
GroupText(b, g) ==
  LET t == TripleOf(b, g)
      n == Len(b) - 3 * (g - 1)
  IN  <<Digit(Sextet1(t)), Digit(Sextet2(t)),
        IF n = 1 THEN "=" ELSE Digit(Sextet3(t)), IF n <= 2 THEN "=" ELSE Digit(Sextet4(t))>>
Groups(b) == (Len(b) + 2) \div 3

LEMMA EncodeIs ==
  ASSUME NEW b
  PROVE  Base64Encode(b) = FlattenSeq([g \in 1 .. Groups(b) |-> GroupText(b, g)])
  BY DEF Base64Encode, Groups, GroupText, TripleOf, Joined3, ByteAt, Digit, Sextet1, Sextet2, Sextet3, Sextet4

(* The bytes are octets; those behind the end count 0. *)
IsBytes(b) == \E S : b \in Seq(S) /\ \A x \in S : IsByte(x)

LEMMA ByteAtIs ==
  ASSUME NEW b, IsBytes(b), NEW i \in Nat, i >= 1
  PROVE  IsByte(ByteAt(b, i)) /\ (i > Len(b) => ByteAt(b, i) = 0)
  <1>1. PICK S : b \in Seq(S) /\ \A x \in S : IsByte(x) BY DEF IsBytes
  <1>2. Len(b) \in Nat BY <1>1
  <1>3. CASE i > Len(b) BY <1>3 DEF ByteAt, IsByte
  <1>4. CASE ~(i > Len(b))
    <2>1. i \in 1 .. Len(b) BY <1>2, <1>4
    <2>2. b[i] \in S BY <1>1, <2>1
    <2> QED BY <1>1, <1>4, <2>2 DEF ByteAt
  <1> QED BY <1>3, <1>4

(* The sextets of a group are read back, and give its bytes. *)
LEMMA GroupTextIs ==
  ASSUME NEW b, IsBytes(b), NEW g \in 1 .. Groups(b)
  PROVE  LET t == TripleOf(b, g)
             e == GroupText(b, g)
         IN  /\ e \in Seq(Base64Text) /\ Len(e) = 4
             /\ Joined4(Sextet(e[1]), Sextet(e[2]), Sextet(e[3]), Sextet(e[4])) = t
             /\ BytesFit(t, ByteAt(b, 3 * g - 2), ByteAt(b, 3 * g - 1), ByteAt(b, 3 * g))
  <1> DEFINE t == TripleOf(b, g)
             e == GroupText(b, g)
             n == Len(b) - 3 * (g - 1)
             x == ByteAt(b, 3 * g - 2)
             y == ByteAt(b, 3 * g - 1)
             z == ByteAt(b, 3 * g)
  <1>1. Len(b) \in Nat BY DEF IsBytes
  <1>2. g \in Nat /\ g >= 1 BY <1>1 DEF Groups
  <1>3. /\ IsByte(x) /\ IsByte(y) /\ IsByte(z)
        /\ (n = 1 => y = 0 /\ z = 0) /\ (n <= 2 => z = 0)
    <2>1. /\ 3 * g - 2 \in Nat /\ 3 * g - 2 >= 1 /\ 3 * g - 1 \in Nat /\ 3 * g - 1 >= 1
          /\ 3 * g \in Nat /\ 3 * g >= 1
      BY <1>2
    <2>2. (n = 1 => 3 * g - 1 > Len(b) /\ 3 * g > Len(b)) /\ (n <= 2 => 3 * g > Len(b)) BY <1>1, <1>2
    <2> HIDE DEF n
    <2> QED BY <2>1, <2>2, ByteAtIs
  <1>4. t = Joined3(x, y, z) BY DEF TripleOf
  <1>5. e = <<Digit(Sextet1(t)), Digit(Sextet2(t)),
              IF n = 1 THEN "=" ELSE Digit(Sextet3(t)), IF n <= 2 THEN "=" ELSE Digit(Sextet4(t))>>
    BY DEF GroupText
  <1> HIDE DEF t, e, n, x, y, z
  <1>6. SextetsFit(t) /\ BytesFit(t, x, y, z) BY <1>3, <1>4, TripleSextets
  <1> DEFINE e3 == IF n = 1 THEN "=" ELSE Digit(Sextet3(t))
             e4 == IF n <= 2 THEN "=" ELSE Digit(Sextet4(t))
  <1>7. Digit(Sextet1(t)) \in Base64Text /\ Sextet(Digit(Sextet1(t))) = Sextet1(t)
    BY <1>6, SextetIs DEF SextetsFit
  <1>8. Digit(Sextet2(t)) \in Base64Text /\ Sextet(Digit(Sextet2(t))) = Sextet2(t)
    BY <1>6, SextetIs DEF SextetsFit
  <1>9. e3 \in Base64Text /\ Sextet(e3) = Sextet3(t)
    <2>1. Digit(Sextet3(t)) \in Base64Text /\ Sextet(Digit(Sextet3(t))) = Sextet3(t)
      BY <1>6, SextetIs DEF SextetsFit
    <2>2. n = 1 => Sextet3(t) = 0 BY <1>3, <1>6 DEF BytesFit
    <2> QED BY <2>1, <2>2, SextetIs
  <1>10. e4 \in Base64Text /\ Sextet(e4) = Sextet4(t)
    <2>1. Digit(Sextet4(t)) \in Base64Text /\ Sextet(Digit(Sextet4(t))) = Sextet4(t)
      BY <1>6, SextetIs DEF SextetsFit
    <2>2. n <= 2 => Sextet4(t) = 0 BY <1>3, <1>6 DEF BytesFit
    <2> QED BY <2>1, <2>2, SextetIs
  <1>11. e = <<Digit(Sextet1(t)), Digit(Sextet2(t)), e3, e4>> BY <1>5
  <1> HIDE DEF e3, e4
  <1>12. /\ e \in Seq(Base64Text) /\ Len(e) = 4
         /\ e[1] = Digit(Sextet1(t)) /\ e[2] = Digit(Sextet2(t)) /\ e[3] = e3 /\ e[4] = e4
    BY <1>7, <1>8, <1>9, <1>10, <1>11
  <1>13. Joined4(Sextet(e[1]), Sextet(e[2]), Sextet(e[3]), Sextet(e[4])) = t
    <2>1. Joined4(Sextet1(t), Sextet2(t), Sextet3(t), Sextet4(t)) = t BY <1>6 DEF SextetsFit
    <2> QED BY <2>1, <1>7, <1>8, <1>9, <1>10, <1>12
  <1> QED BY <1>6, <1>12, <1>13 DEF t, e, x, y, z

(* The text of some bytes: four digits for each group, none of them blank. *)
LEMMA EncodedText ==
  ASSUME NEW b, IsBytes(b)
  PROVE  LET text == Base64Encode(b)
         IN  /\ Groups(b) \in Nat /\ text \in Seq(Base64Text) /\ Len(text) = 4 * Groups(b)
             /\ \A g \in 1 .. Groups(b) : \A j \in 1 .. 4 : text[4 * (g - 1) + j] = GroupText(b, g)[j]
  <1> DEFINE n == Groups(b)
             parts == [g \in 1 .. n |-> GroupText(b, g)]
  <1>1. n \in Nat
    <2>1. Len(b) \in Nat BY DEF IsBytes
    <2> QED BY <2>1 DEF Groups
  <1>2. \A g \in 1 .. n : GroupText(b, g) \in Seq(Base64Text) /\ Len(GroupText(b, g)) = 4
    BY GroupTextIs
  <1>3. Base64Encode(b) = FlattenSeq(parts) BY EncodeIs
  <1> HIDE DEF n
  <1>4. parts \in Seq(Seq(Base64Text)) /\ Len(parts) = n BY <1>1, <1>2
  <1>5. \A i \in 1 .. n : parts[i] = GroupText(b, i) OBVIOUS
  <1> HIDE DEF parts
  <1>6. \A i \in 1 .. Len(parts) : Len(parts[i]) = 4 BY <1>2, <1>4, <1>5
  <1>7. FlattenSeq(parts) \in Seq(Base64Text) /\ EvenParts(parts, FlattenSeq(parts), 4)
    BY <1>4, <1>6, EqualParts
  <1> QED BY <1>1, <1>3, <1>4, <1>5, <1>7 DEF n, EvenParts

(* A text without blanks is read as it is. *)
LEMMA NoBlankText ==
  ASSUME NEW text \in Seq(Base64Text)
  PROVE  FlattenSeq([i \in 1 .. Len(text) |->
                       IF text[i] \in {CR, LF, SP} THEN <<>> ELSE <<text[i]>>]) = text
  <1> DEFINE n == Len(text)
             parts == [i \in 1 .. n |-> IF text[i] \in {CR, LF, SP} THEN <<>> ELSE <<text[i]>>]
             whole == FlattenSeq(parts)
  <1>1. n \in Nat /\ \A i \in 1 .. n : text[i] \in Base64Text OBVIOUS
  <1>2. \A c \in Base64Text : c \notin {CR, LF, SP}
    <2>1. "=" \notin {CR, LF, SP} BY DEF CR, LF, SP
    <2>2. \A i \in DigitPlaces : Base64Digits[i] \notin {CR, LF, SP} BY DigitsDiffer
    <2> QED BY <2>1, <2>2 DEF Base64Text
  <1>3. \A i \in 1 .. n : parts[i] = <<text[i]>> BY <1>1, <1>2
  <1>4. parts = [i \in 1 .. n |-> <<text[i]>>] BY <1>1, <1>2
  <1> HIDE DEF parts
  <1> HIDE DEF n
  <1>5. parts \in Seq(Seq(Base64Text)) /\ Len(parts) = n
    <2>1. \A i \in 1 .. n : <<text[i]>> \in Seq(Base64Text) BY <1>1
    <2>2. parts \in [1 .. n -> Seq(Base64Text)] BY <1>4, <2>1
    <2> QED BY <1>1, <2>2
  <1>6. \A i \in 1 .. Len(parts) : Len(parts[i]) = 1 BY <1>3, <1>5, OneSeq
  <1>7. whole \in Seq(Base64Text) /\ EvenParts(parts, whole, 1) BY <1>5, <1>6, EqualParts
  <1> HIDE DEF whole
  <1>8. Len(whole) = n BY <1>1, <1>5, <1>7 DEF EvenParts
  <1>9. ASSUME NEW i \in 1 .. n PROVE whole[i] = text[i]
    <2>1. 1 \in 1 .. 1 /\ 1 * (i - 1) + 1 = i BY <1>1
    <2>2. whole[1 * (i - 1) + 1] = parts[i][1] BY <1>5, <1>7, <2>1 DEF EvenParts
    <2>3. parts[i][1] = text[i] BY <1>3
    <2> QED BY <2>1, <2>2, <2>3
  <1>10. whole = text
    <2>1. IsSeq(whole) /\ IsSeq(text) BY <1>7 DEF IsSeq
    <2>2. Len(whole) = Len(text) BY <1>8 DEF n
    <2>3. \A i \in 1 .. Len(whole) : whole[i] = text[i] BY <1>8, <1>9
    <2> QED BY <2>1, <2>2, <2>3, SameSeq
  <1> QED BY <1>10 DEF whole, parts, n

(* A full group of digits gives three bytes. *)
TripleAt(digits, g) ==
  LET d(j) == Sextet(digits[4 * (g - 1) + j]) IN Joined4(d(1), d(2), d(3), d(4))
ThreeBytes(t) == SubSeq(<<t \div 65536, (t \div 256) % 256, t % 256>>, 1, 3)

LEMMA FullGroup ==
  ASSUME NEW digits, NEW n \in Nat, Len(digits) = 4 * n, NEW g \in 1 .. n
  PROVE  GroupBytes(digits, g) = ThreeBytes(TripleAt(digits, g))
  <1>1. \A j \in 1 .. 4 : ~(4 * (g - 1) + j > Len(digits)) OBVIOUS
  <1>2. 1 \in 1 .. 4 /\ 2 \in 1 .. 4 /\ 3 \in 1 .. 4 /\ 4 \in 1 .. 4 OBVIOUS
  <1>3. GroupSize(digits, g) = 3
    <2> DEFINE k == Len(digits) - 4 * (g - 1)
    <2>1. k \in Nat /\ k >= 4 OBVIOUS
    <2> HIDE DEF k
    <2>2. Min({4, k}) \in {4, k} /\ Min({4, k}) <= 4 BY <2>1, MinOfNat
    <2>3. Min({4, k}) = 4 BY <2>1, <2>2
    <2> QED BY <2>3 DEF GroupSize, k
  <1> QED BY <1>1, <1>2, <1>3 DEF GroupBytes, ThreeBytes, TripleAt, Joined4

(* The decoded bytes are the ones encoded; behind them there are zeros up  *)
(* to a multiple of three.                                                 *)
LEMMA DecodedBytes ==
  ASSUME NEW b, IsBytes(b)
  PROVE  LET bytes == Base64Decode(Base64Encode(b))
         IN  /\ IsSeq(bytes) /\ Len(b) <= Len(bytes)
             /\ \A i \in 1 .. Len(bytes) : bytes[i] = IF i <= Len(b) THEN b[i] ELSE 0
  <1> DEFINE n == Groups(b)
             text == Base64Encode(b)
             parts == [g \in 1 .. n |-> GroupBytes(text, g)]
             bytes == FlattenSeq(parts)
             Triplet(g) == <<ByteAt(b, 3 * g - 2), ByteAt(b, 3 * g - 1), ByteAt(b, 3 * g)>>
  <1>0. Len(b) \in Nat BY DEF IsBytes
  <1>1. /\ n \in Nat /\ text \in Seq(Base64Text) /\ Len(text) = 4 * n
        /\ \A g \in 1 .. n : \A j \in 1 .. 4 : text[4 * (g - 1) + j] = GroupText(b, g)[j]
    BY EncodedText
  <1>2. (Len(text) + 3) \div 4 = n
    <2> HIDE DEF n, text
    <2> QED BY <1>1
  <1>3. Base64Decode(text) = bytes
    <2> HIDE DEF text, n
    <2>1. Base64Decode(text) = FlattenSeq([g \in 1 .. (Len(text) + 3) \div 4 |-> GroupBytes(text, g)])
      BY <1>1, NoBlankText DEF Base64Decode
    <2> QED BY <1>2, <2>1
  <1> HIDE DEF text
  <1>4. ASSUME NEW g \in 1 .. n PROVE GroupBytes(text, g) = Triplet(g) /\ Len(Triplet(g)) = 3
    <2> DEFINE e == GroupText(b, g)
               t == TripleOf(b, g)
               d(j) == Sextet(text[4 * (g - 1) + j])
    <2>1. /\ Joined4(Sextet(e[1]), Sextet(e[2]), Sextet(e[3]), Sextet(e[4])) = t
          /\ BytesFit(t, ByteAt(b, 3 * g - 2), ByteAt(b, 3 * g - 1), ByteAt(b, 3 * g))
      BY GroupTextIs
    <2>2. 1 \in 1 .. 4 /\ 2 \in 1 .. 4 /\ 3 \in 1 .. 4 /\ 4 \in 1 .. 4 OBVIOUS
    <2> HIDE DEF e, t, n
    <2>3. d(1) = Sextet(e[1]) /\ d(2) = Sextet(e[2]) /\ d(3) = Sextet(e[3]) /\ d(4) = Sextet(e[4])
      BY <1>1, <2>2 DEF e
    <2>4. GroupBytes(text, g) = ThreeBytes(TripleAt(text, g)) BY <1>1, FullGroup
    <2>5. TripleAt(text, g) = t
      <3>1. TripleAt(text, g) = Joined4(d(1), d(2), d(3), d(4)) BY DEF TripleAt
      <3> HIDE DEF d
      <3> QED BY <2>1, <2>3, <3>1
    <2> HIDE DEF d
    <2>6. GroupBytes(text, g) = SubSeq(Triplet(g), 1, 3) BY <2>1, <2>4, <2>5 DEF BytesFit, ThreeBytes
    <2>7. SubSeq(Triplet(g), 1, 3) = Triplet(g) /\ Len(Triplet(g)) = 3
      <3> DEFINE x == ByteAt(b, 3 * g - 2)
                 y == ByteAt(b, 3 * g - 1)
                 z == ByteAt(b, 3 * g)
      <3> HIDE DEF x, y, z
      <3> DEFINE s == <<x, y, z>>
      <3>1. s \in Seq({x, y, z}) /\ Len(s) = 3 OBVIOUS
      <3> HIDE DEF s
      <3>2. SubSeq(s, 1, Len(s)) = s BY <3>1, SubSeqFull
      <3> QED BY <3>1, <3>2 DEF x, y, z, s
    <2> QED BY <2>6, <2>7
  <1> HIDE DEF n
  <1>5. \A i \in Nat : i >= 1 => ByteAt(b, i) \in Nat BY ByteAtIs DEF IsByte
  <1>6. parts \in Seq(Seq(Nat)) /\ Len(parts) = n /\ \A g \in 1 .. n : parts[g] = Triplet(g)
    <2>1. ASSUME NEW g \in 1 .. n PROVE Triplet(g) \in Seq(Nat)
      <3>1. /\ 3 * g - 2 \in Nat /\ 3 * g - 2 >= 1 /\ 3 * g - 1 \in Nat /\ 3 * g - 1 >= 1
            /\ 3 * g \in Nat /\ 3 * g >= 1
        BY <1>1
      <3>2. ByteAt(b, 3 * g - 2) \in Nat /\ ByteAt(b, 3 * g - 1) \in Nat /\ ByteAt(b, 3 * g) \in Nat
        BY <1>5, <3>1
      <3> QED BY <3>2
    <2> HIDE DEF Triplet
    <2>2. parts \in [1 .. n -> Seq(Nat)] BY <1>4, <2>1
    <2>3. \A g \in 1 .. n : parts[g] = Triplet(g) BY <1>4
    <2> HIDE DEF parts
    <2> QED BY <1>1, <2>2, <2>3
  <1> HIDE DEF parts
  <1>7. \A g \in 1 .. Len(parts) : Len(parts[g]) = 3
    <2> HIDE DEF Triplet
    <2> QED BY <1>4, <1>6
  <1>8. bytes \in Seq(Nat) /\ EvenParts(parts, bytes, 3) BY <1>6, <1>7, EqualParts
  <1> HIDE DEF bytes
  <1>9. Len(bytes) = 3 * n /\ Len(b) <= 3 * n
    <2>1. Len(bytes) = 3 * n BY <1>6, <1>8 DEF EvenParts
    <2>2. Len(b) <= 3 * n BY <1>0 DEF n, Groups
    <2> QED BY <2>1, <2>2
  <1>10. ASSUME NEW i \in 1 .. 3 * n PROVE bytes[i] = IF i <= Len(b) THEN b[i] ELSE 0
    <2> DEFINE g == ((i - 1) \div 3) + 1
               j == i - 3 * (g - 1)
    <2>1. g \in 1 .. n /\ j \in 1 .. 3 /\ 3 * (g - 1) + j = i BY <1>1
    <2>2. /\ j = 1 => 3 * g - 2 = i
          /\ j = 2 => 3 * g - 1 = i
          /\ j = 3 => 3 * g = i
      BY <1>1
    <2> HIDE DEF g, j
    <2>3. bytes[i] = Triplet(g)[j]
      <3> HIDE DEF Triplet
      <3> QED BY <1>6, <1>8, <2>1 DEF EvenParts
    <2>4. Triplet(g)[j] = ByteAt(b, i)
      <3>1. CASE j = 1 BY <2>2, <3>1
      <3>2. CASE j = 2 BY <2>2, <3>2
      <3>3. CASE j = 3 BY <2>2, <3>3
      <3> QED BY <2>1, <3>1, <3>2, <3>3
    <2>5. i > Len(b) <=> ~(i <= Len(b)) BY <1>0, <1>1
    <2> QED BY <2>3, <2>4, <2>5 DEF ByteAt
  <1> QED BY <1>3, <1>8, <1>9, <1>10 DEF text, IsSeq

(* A string is found where it stands, up to a NUL or the end of the bytes. *)
LEMMA StringFound ==
  ASSUME NEW bytes, IsSeq(bytes), NEW s, IsSeq(s), NEW i \in Nat, i >= 1,
         i + Len(s) <= Len(bytes) + 1,
         \A j \in 1 .. Len(s) : bytes[(i - 1) + j] = s[j] /\ s[j] # 0,
         i + Len(s) <= Len(bytes) => bytes[i + Len(s)] = 0
  PROVE  StringAt(bytes, i) = s
  <1> DEFINE n == Len(bytes)
             l == Len(s)
             ends == {j \in i .. n : bytes[j] = 0}
             to == IF ends = {} THEN n ELSE Min(ends) - 1
  <1>1. n \in Nat /\ l \in Nat BY SeqShape
  <1>2. /\ i + l <= n + 1 /\ (i + l <= n => bytes[i + l] = 0)
        /\ \A j \in 1 .. l : bytes[(i - 1) + j] = s[j] /\ s[j] # 0
    OBVIOUS
  <1>3. StringAt(bytes, i) = SubSeq(bytes, i, to) BY DEF StringAt
  <1> HIDE DEF n, l
  <1>4. \A j \in i .. n : j < i + l => bytes[j] # 0
    <2> TAKE j \in i .. n
    <2> HAVE j < i + l
    <2> DEFINE k == j - (i - 1)
    <2>1. k \in 1 .. l /\ (i - 1) + k = j BY <1>1
    <2> HIDE DEF k
    <2> QED BY <1>2, <2>1
  <1>5. to = i + l - 1
    <2>1. CASE ends = {}
      <3>1. ~(i + l <= n)
        <4> SUFFICES ASSUME i + l <= n PROVE FALSE
          OBVIOUS
        <4>1. i + l \in i .. n BY <1>1
        <4> QED BY <1>2, <2>1, <4>1
      <3> QED BY <1>1, <1>2, <2>1, <3>1
    <2>2. CASE ends # {}
      <3>1. ends \subseteq Nat BY <1>1
      <3>2. Min(ends) \in ends /\ \A y \in ends : Min(ends) <= y
        <4> HIDE DEF ends
        <4> QED BY <2>2, <3>1, MinOfNat
      <3> DEFINE m == Min(ends)
      <3>3. m \in i .. n /\ bytes[m] = 0 BY <3>2
      <3> HIDE DEF m
      <3>4. ~(m < i + l) BY <1>4, <3>3
      <3>5. i + l \in i .. n BY <1>1, <3>3, <3>4
      <3>6. i + l \in ends BY <1>2, <1>1, <3>5
      <3>7. m <= i + l BY <3>2, <3>6 DEF m
      <3>8. m = i + l BY <1>1, <3>3, <3>4, <3>7
      <3>9. to = m - 1 BY <2>2 DEF m
      <3> HIDE DEF to
      <3> QED BY <1>1, <3>8, <3>9
    <2> QED BY <2>1, <2>2
  <1> HIDE DEF to, ends
  <1>6. to \in Int BY <1>1, <1>5
  <1> DEFINE r == SubSeq(bytes, i, to)
  <1>7. /\ IsSeq(r) /\ Len(r) = IF i <= to THEN to - i + 1 ELSE 0
        /\ \A j \in 1 .. to - i + 1 : r[j] = bytes[i + j - 1]
    BY <1>6, SubSeqShape
  <1> HIDE DEF r
  <1>8. Len(r) = l /\ to - i + 1 = l BY <1>1, <1>5, <1>7
  <1>9. ASSUME NEW j \in 1 .. l PROVE r[j] = s[j]
    <2>1. i + j - 1 = (i - 1) + j BY <1>1
    <2> QED BY <1>2, <1>7, <1>8, <2>1
  <1>10. r = s BY <1>7, <1>8, <1>9, SameSeq DEF l
  <1> QED BY <1>3, <1>10 DEF r

(* What is meant by one text is the string itself. *)
LEMMA LoginPartMeant ==
  ASSUME NEW s \in Seq(Character)
  PROVE  StringAt(Base64Decode(Base64Encode(s)), 1) = s
  <1> DEFINE bytes == Base64Decode(Base64Encode(s))
  <1>1. \A x \in Character : IsByte(x) /\ x # 0 BY DEF Character, IsByte
  <1>2. IsBytes(s) BY <1>1 DEF IsBytes
  <1>3. /\ IsSeq(bytes) /\ Len(s) <= Len(bytes)
        /\ \A i \in 1 .. Len(bytes) : bytes[i] = IF i <= Len(s) THEN s[i] ELSE 0
    BY <1>2, DecodedBytes
  <1> HIDE DEF bytes
  <1>4. Len(s) \in Nat /\ Len(bytes) \in Nat /\ IsSeq(s) BY <1>3, SeqShape DEF IsSeq
  <1>5. 1 + Len(s) <= Len(bytes) + 1 BY <1>3, <1>4
  <1>6. ASSUME NEW j \in 1 .. Len(s) PROVE bytes[(1 - 1) + j] = s[j] /\ s[j] # 0
    <2>1. (1 - 1) + j = j /\ j \in 1 .. Len(bytes) /\ j <= Len(s) BY <1>3, <1>4
    <2>2. s[j] \in Character OBVIOUS
    <2> QED BY <1>1, <1>3, <2>1, <2>2
  <1>7. ASSUME 1 + Len(s) <= Len(bytes) PROVE bytes[1 + Len(s)] = 0
    <2>1. 1 + Len(s) \in 1 .. Len(bytes) /\ ~(1 + Len(s) <= Len(s)) BY <1>4, <1>7
    <2> QED BY <1>3, <2>1
  <1>8. StringAt(bytes, 1) = s
    <2>1. 1 \in Nat /\ 1 >= 1 OBVIOUS
    <2> QED BY <1>3, <1>4, <1>5, <1>6, <1>7, <2>1, StringFound
  <1> QED BY <1>8 DEF bytes

(* And of PLAIN, the two strings behind the NULs. *)
LEMMA PlainMeant ==
  ASSUME NEW u \in Seq(Character), NEW p \in Seq(Character)
  PROVE  PlainParts(Base64Decode(Base64Encode(<<0>> \o u \o <<0>> \o p))) = [user |-> u, password |-> p]
  <1> DEFINE nul == <<0>>
             b == nul \o u \o nul \o p
             bytes == Base64Decode(Base64Encode(b))
             k == Len(u)
             l == Len(p)
             n == Len(bytes)
  <1>1. \A x \in Character : IsByte(x) /\ x # 0 BY DEF Character, IsByte
  <1>2. nul \in Seq(Character \cup {0}) /\ Len(nul) = 1 /\ nul[1] = 0 OBVIOUS
  <1> HIDE DEF nul
  <1> DEFINE B == Character \cup {0}
  <1>3. u \in Seq(B) /\ p \in Seq(B) /\ nul \in Seq(B) BY <1>2
  <1>4. \A x \in B : IsByte(x) BY <1>1 DEF IsByte
  <1> HIDE DEF B
  <1>5. b \in Seq(B)
    <2>1. nul \o u \in Seq(B) BY <1>3, ConcatProperties
    <2>2. nul \o u \o nul \in Seq(B) BY <1>3, <2>1, ConcatProperties
    <2> QED BY <1>3, <2>2, ConcatProperties
  <1>6. IsBytes(b) BY <1>4, <1>5 DEF IsBytes
  <1>7. /\ k \in Nat /\ l \in Nat /\ Len(b) = k + l + 2
        /\ b[1] = 0 /\ b[k + 2] = 0
        /\ \A j \in 1 .. k : b[1 + j] = u[j]
        /\ \A j \in 1 .. l : b[(k + 2) + j] = p[j]
    <2> DEFINE c == nul \o u
               d == c \o nul
    <2>1. k \in Nat /\ l \in Nat /\ IsSeq(u) /\ IsSeq(p) /\ IsSeq(nul) BY <1>3 DEF IsSeq
    <2>2. /\ IsSeq(c) /\ Len(c) = k + 1
          /\ c[1] = 0 /\ \A j \in 1 .. k : c[1 + j] = u[j]
      <3>1. /\ IsSeq(nul \o u) /\ Len(nul \o u) = Len(nul) + Len(u)
            /\ \A i \in 1 .. Len(nul) : (nul \o u)[i] = nul[i]
            /\ \A i \in 1 .. Len(u) : (nul \o u)[Len(nul) + i] = u[i]
        BY ONLY <2>1, ConcatShape
      <3>2. Len(nul) + Len(u) = k + 1 /\ 1 \in 1 .. Len(nul) BY <1>2, <2>1
      <3> QED BY <1>2, <3>1, <3>2
    <2> HIDE DEF c
    <2>3. /\ IsSeq(d) /\ Len(d) = k + 2 /\ d[k + 2] = 0
          /\ \A i \in 1 .. k + 1 : d[i] = c[i]
      <3>1. /\ IsSeq(c \o nul) /\ Len(c \o nul) = Len(c) + Len(nul)
            /\ \A i \in 1 .. Len(c) : (c \o nul)[i] = c[i]
            /\ \A i \in 1 .. Len(nul) : (c \o nul)[Len(c) + i] = nul[i]
        <4>1. IsSeq(c) /\ IsSeq(nul) BY <2>1, <2>2
        <4> QED BY ONLY <4>1, ConcatShape
      <3>2. Len(c) + Len(nul) = k + 2 /\ 1 \in 1 .. Len(nul) /\ Len(c) + 1 = k + 2 BY <1>2, <2>1, <2>2
      <3>3. d[k + 2] = nul[1] BY <3>1, <3>2
      <3> QED BY <1>2, <2>2, <3>1, <3>2, <3>3
    <2> HIDE DEF d
    <2>4. /\ Len(d \o p) = (k + 2) + l
          /\ \A i \in 1 .. k + 2 : (d \o p)[i] = d[i]
          /\ \A i \in 1 .. l : (d \o p)[(k + 2) + i] = p[i]
      <3>1. /\ IsSeq(d \o p) /\ Len(d \o p) = Len(d) + Len(p)
            /\ \A i \in 1 .. Len(d) : (d \o p)[i] = d[i]
            /\ \A i \in 1 .. Len(p) : (d \o p)[Len(d) + i] = p[i]
        <4>1. IsSeq(d) /\ IsSeq(p) BY <2>1, <2>3
        <4> QED BY ONLY <4>1, ConcatShape
      <3> QED BY <2>3, <3>1
    <2>5. b = d \o p BY DEF c, d
    <2> HIDE DEF b, k, l
    <2>6. Len(b) = k + l + 2 BY <2>1, <2>4, <2>5
    <2>7. b[1] = 0
      <3>1. 1 \in 1 .. k + 1 /\ 1 \in 1 .. k + 2 BY <2>1
      <3> QED BY <2>2, <2>3, <2>4, <2>5, <3>1
    <2>8. b[k + 2] = 0
      <3>1. k + 2 \in 1 .. k + 2 BY <2>1
      <3> QED BY <2>3, <2>4, <2>5, <3>1
    <2>9. ASSUME NEW j \in 1 .. k PROVE b[1 + j] = u[j]
      <3>1. 1 + j \in 1 .. k + 1 /\ 1 + j \in 1 .. k + 2 BY <2>1
      <3> QED BY <2>2, <2>3, <2>4, <2>5, <3>1
    <2> QED BY <2>1, <2>4, <2>5, <2>6, <2>7, <2>8, <2>9
  <1>8. /\ IsSeq(bytes) /\ Len(b) <= n
        /\ \A i \in 1 .. n : bytes[i] = IF i <= Len(b) THEN b[i] ELSE 0
    BY <1>6, DecodedBytes
  <1>9. n \in Nat BY <1>8, SeqShape
  <1>10. IsSeq(u) /\ IsSeq(p) BY DEF IsSeq
  <1>11. (\A j \in 1 .. k : u[j] # 0) /\ (\A j \in 1 .. l : p[j] # 0)
    <2>1. (\A j \in 1 .. k : u[j] \in Character) /\ (\A j \in 1 .. l : p[j] \in Character) OBVIOUS
    <2> QED BY <1>1, <2>1
  <1> HIDE DEF b, bytes, k, l, n
  <1>12. bytes[1] = 0 /\ bytes[k + 2] = 0 /\ k + l + 2 <= n
    <2>1. /\ 1 \in 1 .. n /\ 1 <= Len(b) /\ k + 2 \in 1 .. n /\ k + 2 <= Len(b) /\ k + l + 2 <= n
      BY <1>7, <1>8, <1>9
    <2> QED BY <1>7, <1>8, <2>1
  <1>13. StringAt(bytes, 2) = u
    <2>1. 2 \in Nat /\ 2 >= 1 OBVIOUS
    <2>2. 2 + Len(u) <= Len(bytes) + 1 /\ bytes[2 + Len(u)] = 0
      <3>1. 2 + k <= n + 1 /\ 2 + k = k + 2 BY <1>7, <1>9, <1>12
      <3> QED BY <1>12, <3>1 DEF k, n
    <2>3. ASSUME NEW j \in 1 .. Len(u) PROVE bytes[(2 - 1) + j] = u[j] /\ u[j] # 0
      <3>0. j \in 1 .. k BY DEF k
      <3>1. (2 - 1) + j = 1 + j /\ 1 + j \in 1 .. n /\ 1 + j <= Len(b) BY <1>7, <1>9, <1>12, <3>0
      <3> QED BY <1>7, <1>8, <1>11, <3>0, <3>1
    <2> QED BY <1>8, <1>10, <2>1, <2>2, <2>3, StringFound
  <1>14. StringAt(bytes, k + 2 + 1) = p
    <2> DEFINE i == k + 2 + 1
    <2>1. i \in Nat /\ i >= 1 BY <1>7
    <2>2. i + Len(p) <= Len(bytes) + 1
      <3>1. i + l <= n + 1 BY <1>7, <1>9, <1>12
      <3> QED BY <3>1 DEF l, n
    <2>3. ASSUME NEW j \in 1 .. Len(p) PROVE bytes[(i - 1) + j] = p[j] /\ p[j] # 0
      <3>0. j \in 1 .. l BY DEF l
      <3>1. (i - 1) + j = (k + 2) + j /\ (k + 2) + j \in 1 .. n /\ (k + 2) + j <= Len(b)
        BY <1>7, <1>9, <1>12, <3>0
      <3> QED BY <1>7, <1>8, <1>11, <3>0, <3>1
    <2>4. ASSUME i + Len(p) <= Len(bytes) PROVE bytes[i + Len(p)] = 0
      <3>0. i + l <= n BY <2>4 DEF l, n
      <3>1. i + l \in 1 .. n /\ ~(i + l <= Len(b)) BY <1>7, <1>9, <3>0
      <3>2. bytes[i + l] = 0 BY <1>8, <3>1
      <3> QED BY <3>2 DEF l
    <2> HIDE DEF i
    <2>5. StringAt(bytes, i) = p BY <1>8, <1>10, <2>1, <2>2, <2>3, <2>4, StringFound
    <2> QED BY <2>5 DEF i
  <1> DEFINE I == {i \in 1 .. n : bytes[i] = 0}
             first == IF I # {} THEN Min(I) ELSE 0
  <1>15. first = 1
    <2>1. 1 \in I BY <1>7, <1>9, <1>12
    <2>2. I \subseteq 1 .. n OBVIOUS
    <2> HIDE DEF I
    <2>3. I \subseteq Nat /\ I # {} BY <1>9, <2>1, <2>2
    <2>4. Min(I) \in I /\ Min(I) <= 1 BY <2>1, <2>3, MinOfNat
    <2> DEFINE m == Min(I)
    <2>5. m \in 1 .. n /\ m <= 1 BY <2>2, <2>4
    <2> HIDE DEF m
    <2>6. m = 1 BY <1>9, <2>5
    <2> QED BY <2>3, <2>6 DEF m
  <1>16. PlainParts(bytes) =
           LET user == IF first = 0 THEN <<>> ELSE StringAt(bytes, first + 1)
               second == first + Len(user) + 1
           IN  [user |-> user,
                password |-> IF first = 0 \/ second > n THEN <<>> ELSE StringAt(bytes, second + 1)]
    BY DEF PlainParts, SelectInSeq, n
  <1> HIDE DEF first
  <1>17. PlainParts(bytes) = [user |-> u, password |-> p]
    <2>1. 1 # 0 /\ 1 + 1 = 2 OBVIOUS
    <2>2. PlainParts(bytes) =
            [user |-> u, password |-> IF 1 + Len(u) + 1 > n THEN <<>> ELSE StringAt(bytes, 1 + Len(u) + 1 + 1)]
      BY <1>13, <1>15, <1>16, <2>1
    <2>3. 1 + Len(u) + 1 = k + 2
      <3>1. 1 + k + 1 = k + 2 BY <1>7
      <3> QED BY <3>1 DEF k
    <2>4. ~(k + 2 > n) BY <1>7, <1>9, <1>12
    <2> QED BY <1>14, <2>2, <2>3, <2>4
  <1> QED BY <1>17 DEF bytes, b, nul

(* Every record holds what was decoded of the text it came in. *)
Decoded(got) ==
  \/ \E text : got = [text |-> <<text>>, pair |-> PlainParts(Base64Decode(text))]
  \/ \E user, text : got = [text |-> <<user, text>>,
                            pair |-> [user |-> StringAt(Base64Decode(user), 1),
                                      password |-> StringAt(Base64Decode(text), 1)]]
AllDecoded(l) == DOMAIN l = SmtpFields /\ \A got \in l.captured : Decoded(got)
CaptureIInv == service = "smtp" => AllDecoded(local)

(* Reading a line captures nothing. *)
LEMMA ReadsKeep ==
  ASSUME AllDecoded(local), NEW r \in Reads
  PROVE  AllDecoded(r.then)
  <1>1. DOMAIN local = SmtpFields BY DEF AllDecoded
  <1>2. ASSUME NEW bytes, NEW l, DOMAIN l = SmtpFields, l.captured = local.captured,
               r.then = AfterRead(l, bytes)
        PROVE  AllDecoded(r.then)
    <2>1. DOMAIN r.then = SmtpFields /\ r.then.captured = local.captured
      BY <1>2 DEF AfterRead, SmtpFields
    <2> QED BY <2>1 DEF AllDecoded
  <1>3. CASE IsReadable(local.rest)
    <2>1. r = [line |-> CString(LineRead(local.rest).line), then |-> AfterRead(local, local.rest)]
      BY <1>3 DEF Reads
    <2>2. r.then = AfterRead(local, local.rest) BY <2>1
    <2> QED BY <1>1, <1>2, <2>2
  <1>4. CASE ~IsReadable(local.rest)
    <2> DEFINE grown(new) == local.rest \o new \o <<CR, LF>>
    <2> DEFINE with(new) == [local EXCEPT !.sent = Append(@, new),
                                          !.intact = @ /\ Len(new) + 2 <= SmtpBufSize - 1]
    <2>1. PICK new \in SmtpLines :
             r = [line |-> CString(LineRead(grown(new)).line), then |-> AfterRead(with(new), grown(new))]
      BY <1>4 DEF Reads
    <2>2. DOMAIN with(new) = SmtpFields /\ with(new).captured = local.captured BY <1>1 DEF SmtpFields
    <2> HIDE DEF grown, with
    <2>3. r.then = AfterRead(with(new), grown(new)) BY <2>1
    <2> QED BY <1>2, <2>2, <2>3
  <1> QED BY <1>3, <1>4

(* Each step of SMTP keeps this: the two that capture decode what they     *)
(* record.                                                                 *)
LEMMA CaptureStep ==
  ASSUME AllDecoded(local), SmtpNext
  PROVE  AllDecoded(local')
  <1>1. ASSUME NEW l, AllDecoded(l), DOMAIN local' = SmtpFields, local'.captured = l.captured
        PROVE  AllDecoded(local')
    BY <1>1 DEF AllDecoded
  <1>2. ASSUME NEW l, AllDecoded(l), NEW text, NEW pair, local' = Capture(l, text, pair),
               Decoded([text |-> text, pair |-> pair])
        PROVE  AllDecoded(local')
    <2>1. /\ DOMAIN local' = SmtpFields
          /\ local'.captured = l.captured \cup {[text |-> text, pair |-> pair]}
      BY <1>2 DEF Capture, AllDecoded, SmtpFields
    <2>2. \A got \in l.captured : Decoded(got) BY <1>2 DEF AllDecoded
    <2> DEFINE new == [text |-> text, pair |-> pair]
    <2>3. Decoded(new) BY <1>2
    <2> HIDE DEF new
    <2>4. \A got \in l.captured \cup {new} : Decoded(got) BY <2>2, <2>3
    <2> QED BY <2>1, <2>4 DEF AllDecoded, new
  <1>3. CASE SmtpBanner \/ SmtpClose BY <1>3 DEF SmtpBanner, SmtpClose
  <1>4. CASE SmtpSimple
    <2>1. PICK r \in Reads : local' = r.then BY <1>4 DEF SmtpSimple
    <2> QED BY <2>1, ReadsKeep
  <1>5. ASSUME NEW verb, NEW code, NEW place, BeginDialogue(verb, code, place)
        PROVE  AllDecoded(local')
    <2>1. PICK r \in Reads : \/ local' = [r.then EXCEPT !.mail = 0]
                             \/ local' = [r.then EXCEPT !.intact = FALSE]
      BY <1>5 DEF BeginDialogue, SendFails
    <2>2. AllDecoded(r.then) BY ReadsKeep
    <2>3. DOMAIN local' = SmtpFields /\ local'.captured = r.then.captured
      BY <2>1, <2>2 DEF AllDecoded, SmtpFields
    <2> QED BY <1>1, <2>2, <2>3
  <1>6. CASE SmtpUser
    <2>1. PICK r \in Reads : \/ local' = [r.then EXCEPT !.user = StripCrlf(r.line)]
                             \/ local' = [r.then EXCEPT !.intact = FALSE]
      BY <1>6 DEF SmtpUser, SendFails
    <2>2. AllDecoded(r.then) BY ReadsKeep
    <2>3. DOMAIN local' = SmtpFields /\ local'.captured = r.then.captured
      BY <2>1, <2>2 DEF AllDecoded, SmtpFields
    <2> QED BY <1>1, <2>2, <2>3
  <1>7. CASE SmtpPassword
    <2>1. PICK r \in Reads :
             local' = Capture(r.then, <<local.user, StripCrlf(r.line)>>,
                              [user |-> StringAt(Base64Decode(local.user), 1),
                               password |-> StringAt(Base64Decode(StripCrlf(r.line)), 1)])
      BY <1>7 DEF SmtpPassword
    <2>2. AllDecoded(r.then) BY ReadsKeep
    <2> DEFINE text == <<local.user, StripCrlf(r.line)>>
               pair == [user |-> StringAt(Base64Decode(local.user), 1),
                        password |-> StringAt(Base64Decode(StripCrlf(r.line)), 1)]
    <2>3. Decoded([text |-> text, pair |-> pair]) BY DEF Decoded
    <2>4. local' = Capture(r.then, text, pair) BY <2>1
    <2> HIDE DEF text, pair
    <2> QED BY <1>2, <2>2, <2>3, <2>4
  <1>8. CASE SmtpPlainText
    <2>1. PICK r \in Reads : \E text : local' = Capture(r.then, <<text>>, PlainParts(Base64Decode(text)))
      BY <1>8 DEF SmtpPlainText
    <2>2. PICK text : local' = Capture(r.then, <<text>>, PlainParts(Base64Decode(text))) BY <2>1
    <2>3. AllDecoded(r.then) BY ReadsKeep
    <2>4. Decoded([text |-> <<text>>, pair |-> PlainParts(Base64Decode(text))]) BY DEF Decoded
    <2> QED BY <1>2, <2>2, <2>3, <2>4
  <1>9. CASE SmtpDataLine
    <2>1. PICK r \in Reads : \E len : local' = [r.then EXCEPT !.mail = len] BY <1>9 DEF SmtpDataLine
    <2>2. AllDecoded(r.then) BY ReadsKeep
    <2>3. DOMAIN local' = SmtpFields /\ local'.captured = r.then.captured
      BY <2>1, <2>2 DEF AllDecoded, SmtpFields
    <2> QED BY <1>1, <2>2, <2>3
  <1>10. CASE SmtpRecvFails
    <2>1. UNCHANGED local \/ local' = [local EXCEPT !.intact = FALSE] BY <1>10 DEF SmtpRecvFails
    <2>2. DOMAIN local' = SmtpFields /\ local'.captured = local.captured
      BY <2>1 DEF AllDecoded, SmtpFields
    <2> QED BY <1>1, <2>2
  <1>11. CASE SmtpLogin \/ SmtpPlain \/ SmtpData BY <1>5, <1>11 DEF SmtpLogin, SmtpPlain, SmtpData
  <1> QED BY <1>3, <1>4, <1>6, <1>7, <1>8, <1>9, <1>10, <1>11 DEF SmtpNext

(* CaptureIInv is an invariant. *)
LEMMA CaptureInvariance == Spec => []CaptureIInv
  <1>1. Init => CaptureIInv
    <2> SUFFICES ASSUME Init, service = "smtp" PROVE AllDecoded(local)
      BY DEF CaptureIInv
    <2>1. local = [rest |-> <<>>, mail |-> 0, user |-> <<>>,
                   sent |-> <<>>, captured |-> {}, intact |-> TRUE]
      BY DEF Init, SmtpInit
    <2>2. DOMAIN local = SmtpFields /\ local.captured = {} BY <2>1 DEF SmtpFields
    <2> QED BY <2>2 DEF AllDecoded
  <1>2. CaptureIInv /\ [Next]_session => CaptureIInv'
    <2> SUFFICES ASSUME CaptureIInv, [Next]_session PROVE CaptureIInv'
      OBVIOUS
    <2>1. CASE UNCHANGED session BY <2>1 DEF session, CaptureIInv
    <2>2. CASE ServiceStep /\ UNCHANGED service
      <3> SUFFICES ASSUME service = "smtp" PROVE AllDecoded(local')
        BY <2>2 DEF CaptureIInv
      <3>1. SmtpNext BY <2>2 DEF ServiceStep
      <3> QED BY <3>1, CaptureStep DEF CaptureIInv
    <2> QED BY <2>1, <2>2 DEF Next, Ended
  <1> QED BY <1>1, <1>2, PTL DEF Spec

(* SmtpCapturesMeant: whatever the user name and the password are, and     *)
(* whichever of the two mechanisms carries them, base64_decode and the     *)
(* handlers of AUTH capture just these, however long the padding is.       *)
THEOREM SmtpCaptures == Spec => []SmtpCapturesMeant
  <1>1. CaptureIInv => SmtpCapturesMeant
    <2> SUFFICES ASSUME CaptureIInv, service = "smtp", NEW got \in local.captured,
                        NEW c \in SmtpCredentials,
                        got.text \in {<<PlainText(c)>>, <<Base64Encode(c.user), Base64Encode(c.password)>>}
                 PROVE  got.pair = c
      BY DEF SmtpCapturesMeant
    <2>1. Decoded(got) BY DEF CaptureIInv, AllDecoded
    <2>2. c \in [user : Seq(Character), password : Seq(Character)] BY SmtpAssumption DEF SmtpAssumption
    <2> DEFINE u == c.user
               p == c.password
    <2>3. u \in Seq(Character) /\ p \in Seq(Character) /\ c = [user |-> u, password |-> p] BY <2>2
    <2> HIDE DEF u, p
    <2>4. got.text = <<PlainText(c)>> \/ got.text = <<Base64Encode(u), Base64Encode(p)>> BY DEF u, p
    <2>5. PlainText(c) = Base64Encode(<<0>> \o u \o <<0>> \o p) BY DEF PlainText, u, p
    <2>6. CASE \E text : got = [text |-> <<text>>, pair |-> PlainParts(Base64Decode(text))]
      <3>1. PICK text : got.text = <<text>> /\ got.pair = PlainParts(Base64Decode(text)) BY <2>6
      <3>2. text = PlainText(c)
        <4>1. <<text>> # <<Base64Encode(u), Base64Encode(p)>>
          <5>1. Len(<<text>>) = 1 /\ Len(<<Base64Encode(u), Base64Encode(p)>>) = 2 BY OneSeq, TwoSeq
          <5> QED BY <5>1
        <4> QED BY <2>4, <3>1, <4>1, OneSeq
      <3> QED BY <2>3, <2>5, <3>1, <3>2, PlainMeant
    <2>7. CASE \E user, text : got = [text |-> <<user, text>>,
                                      pair |-> [user |-> StringAt(Base64Decode(user), 1),
                                                password |-> StringAt(Base64Decode(text), 1)]]
      <3>1. PICK user, text :
               /\ got.text = <<user, text>>
               /\ got.pair = [user |-> StringAt(Base64Decode(user), 1),
                              password |-> StringAt(Base64Decode(text), 1)]
        BY <2>7
      <3>2. user = Base64Encode(u) /\ text = Base64Encode(p)
        <4>1. <<user, text>> # <<PlainText(c)>>
          <5>1. Len(<<PlainText(c)>>) = 1 /\ Len(<<user, text>>) = 2 BY OneSeq, TwoSeq
          <5> QED BY <5>1
        <4> QED BY <2>4, <3>1, <4>1, TwoSeq
      <3>3. StringAt(Base64Decode(user), 1) = u /\ StringAt(Base64Decode(text), 1) = p
        BY <2>3, <3>2, LoginPartMeant
      <3> QED BY <2>3, <3>1, <3>3
    <2> QED BY <2>1, <2>6, <2>7 DEF Decoded
  <1> QED BY <1>1, CaptureInvariance, PTL
=============================================================================
