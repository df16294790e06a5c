----------------------------- MODULE PgSession -----------------------------
(***************************************************************************)
(* Sessions of the PostgreSQL and of the QuestDB service,                  *)
(* src/src/service/postgresql_honeypot.c and questdb_honeypot.c.  Both     *)
(* begin with the start-up message of the PostgreSQL protocol and the      *)
(* request for a password; PostgreSQL then refuses it, QuestDB lets the    *)
(* peer in and answers queries.                                            *)
(*                                                                         *)
(* What one recv returns is taken for one message.  Of a start-up message  *)
(* the model keeps the protocol and the bytes of the parameters, with a    *)
(* name or a value as one byte; of the others their type and their text.   *)
(***************************************************************************)
EXTENDS Session

CONSTANTS
  StartBodies,     \* the parameters of start-up messages, as bytes
  ParameterLists,  \* the lists of pairs of key and value of peers
  Leftovers,       \* the strings that may be in the buffer behind a message
  PasswordTexts,   \* the texts of password messages
  QuestSegments,   \* what recv may return after that: sequences of messages
  StartRoom,       \* the bytes of the buffer for parameters, sizeof(buf) - 8, 4088
  UserSize,        \* sizeof(username), sizeof(password_hash), 256
  QuestMaxRecvs    \* bound of the model: segments after the login

ASSUME PgAssumption ==
  /\ UserSize \in Nat \ {0}
  /\ StartRoom \in Nat
  /\ \A body \in StartBodies : body \in Seq(STRING) /\ Len(body) <= StartRoom
  /\ QuestMaxRecvs \in Nat
  /\ ParameterLists \subseteq Seq((STRING \ {NUL}) \X (STRING \ {NUL}))
  /\ <<>> \notin QuestSegments
  /\ QuestSegments \subseteq Seq([type : STRING, sql : Seq(STRING)])

USER == "user"

(* Start-up messages; one of fewer than 8 bytes is "short". *)
Startup == {[proto |-> "short", body |-> <<>>]}
             \cup [proto : {"SSLRequest", "3.0", "other"}, body : StartBodies]

(* local: username; the histories of the start-up message that named the   *)
(* user, and of the segments after the login.                              *)
PgInit == Begins("startup", [user |-> <<>>, start |-> <<>>, segments |-> <<>>])
----------------------------------------------------------------------------
(* Mutated forms, for mutation testing only: keys and values that are not  *)
(* told apart, the branch of DROP without its ReadyForQuery.               *)
NextKeyEarly(body, v) == v
DeniedOnly == <<"42501">>
----------------------------------------------------------------------------
(* The place of the first NUL at or behind place i, or of the end. *)
EndOf(body, i) ==
  LET nuls == {j \in i .. Len(body) : body[j] = NUL} IN IF nuls = {} THEN Len(body) + 1 ELSE Min(nuls)

(* The place of the key behind the value at v. *)
NextKey(body, v) == EndOf(body, v) + 1

(* The place of the value of the first key "user", in the list of strings  *)
(* from i on; 0 if the list, an empty key or a cut one ends before it.     *)
UserPlace(body) ==
  LET from[i \in 1 .. Len(body) + 2] ==
        LET v == EndOf(body, i) + 1
        IN  IF i >= Len(body) \/ v = i + 1 \/ v > Len(body) THEN 0
            ELSE IF SubSeq(body, i, v - 2) = <<USER>> THEN v
            ELSE from[NextKey(body, v)]
  IN  from[1]

(* parse_startup_username: the names it may find.  A value that the        *)
(* message does not end goes on with what is in the buffer behind it.      *)
UserNames(body) ==
  LET v == UserPlace(body)
      value == SubSeq(body, v, EndOf(body, v) - 1)
  IN  IF v = 0 THEN {<<>>}
      ELSE IF EndOf(body, v) <= Len(body) THEN {Cut(value, UserSize)}
      ELSE {Cut(value \o more, UserSize) : more \in Leftovers}

(* The last byte that its strncpy may read: the NUL, where the message has *)
(* one, or else as many bytes as username has room for.                    *)
UserReads(body) ==
  LET v == UserPlace(body)
      most == v + UserSize - 2
  IN  IF v = 0 THEN 0
      ELSE IF EndOf(body, v) <= Len(body) THEN Min({EndOf(body, v), most}) ELSE most
----------------------------------------------------------------------------
(* A start-up message of the right version: the password is asked for. *)
AskPassword(m) ==
  /\ m.proto = "3.0"
  /\ \E name \in UserNames(m.body) : local' = [local EXCEPT !.user = name, !.start = m.body]
  /\ replies' = Append(replies, "md5")
  /\ pc' = "password"

Refuse(m) ==
  /\ m.proto # "3.0"
  /\ replies' = Append(replies, "08004")
  /\ pc' = "end"
  /\ UNCHANGED local

PgGiveUp == pc' = "end" /\ UNCHANGED <<local, replies>>

(* The first message; SSL is declined, and a second one awaited. *)
PgStartup(m) ==
  /\ pc = "startup"
  /\ \/ m.proto = "short" /\ PgGiveUp
     \/ /\ m.proto = "SSLRequest"
        /\ replies' = Append(replies, "N")
        /\ pc' = "restart"
        /\ UNCHANGED local
     \/ m.proto \notin {"short", "SSLRequest"} /\ (AskPassword(m) \/ Refuse(m))
  /\ UNCHANGED <<audit, closes>>

(* The message after that: it must have parameters. *)
PgRestart(m) ==
  /\ pc = "restart"
  /\ \/ m.body = <<>> /\ PgGiveUp
     \/ m.body # <<>> /\ (AskPassword(m) \/ Refuse(m))
  /\ UNCHANGED <<audit, closes>>

(* QuestDB lets the peer in. *)
QuestWelcome == <<"authenticated", "status", "status", "status", "status", "ready">>

(* The password: recorded as a failure, in both services. *)
PgPassword(text) ==
  /\ pc = "password"
  /\ audit' = Append(audit, <<"AUTH_FAILURE", local.user, Cut(CString(text), UserSize)>>)
  /\ \/ /\ service = "postgresql"
        /\ replies' = Append(replies, "28P01")
        /\ pc' = "end"
     \/ /\ service = "questdb"
        /\ replies' = replies \o QuestWelcome
        /\ pc' = "query"
  /\ UNCHANGED <<local, closes>>

(* Another message instead of it, or none. *)
PgNoPassword == pc = "password" /\ PgGiveUp /\ UNCHANGED <<audit, closes>>

(* The answers to a query.  Each branch sends its own ReadyForQuery: that  *)
(* of SELECT, INSERT, CREATE and SHOW behind an empty result, that of DROP *)
(* and that of anything else behind an error.                              *)
ResultAnswer == <<"rows", "complete", "ready">>
DropAnswer == <<"42501", "ready">>
OtherAnswer == <<"42601", "ready">>
QuestAnswer(sql) ==
  LET verb == IF sql = <<>> THEN NUL ELSE Head(sql)
  IN  CASE verb \in {"SELECT", "INSERT", "CREATE", "SHOW"} -> ResultAnswer
        [] verb = "DROP" -> DropAnswer
        [] OTHER -> OtherAnswer

(* The loop of run_questdb_service: the first message of a segment. *)
QuestQuery(segment) ==
  LET message == Head(segment)
      sql == StripCrlf(CString(message.sql))
  IN  /\ pc = "query"
      /\ Len(local.segments) < QuestMaxRecvs
      /\ local' = [local EXCEPT !.segments = Append(@, segment)]
      /\ \/ /\ message.type = "Q"
            /\ audit' = Append(audit, <<"COMMAND", sql>>)
            /\ replies' = replies \o QuestAnswer(sql)
            /\ UNCHANGED pc
         \/ message.type = "X" /\ pc' = "end" /\ UNCHANGED <<audit, replies>>
         \/ /\ message.type = "P"
            /\ replies' = Append(replies, "parsed")
            /\ UNCHANGED <<audit, pc>>
         \/ message.type \notin {"Q", "X", "P"} /\ UNCHANGED <<audit, replies, pc>>
      /\ UNCHANGED closes

PgNext ==
  \/ \E m \in Startup : PgStartup(m) \/ PgRestart(m)
  \/ \E text \in PasswordTexts : PgPassword(text)
  \/ PgNoPassword
  \/ PeerGone({"startup", "restart"})
  \/ EndSession
QuestNext == PgNext \/ (\E s \in QuestSegments : QuestQuery(s)) \/ PeerGone({"query"})
----------------------------------------------------------------------------
(* The protocol's form of a list of pairs: key, NUL, value, NUL of each,   *)
(* and a NUL behind the last.                                              *)
Parameters(list) ==
  [n \in 1 .. 4 * Len(list) + 1 |->
     IF n % 2 = 0 \/ n = 4 * Len(list) + 1 THEN NUL
     ELSE list[(n + 3) \div 4][IF n % 4 = 1 THEN 1 ELSE 2]]

(* An attempt is recorded with the user that the peer has named, wherever  *)
(* in its parameters, and never with a value of another one; with an empty *)
(* name if it named none.                                                  *)
PgUserAsNamed ==
  \A i \in DOMAIN audit :
    service \in {"postgresql", "questdb"} /\ audit[i][1] = "AUTH_FAILURE" =>
    \A list \in ParameterLists : local.start = Parameters(list) =>
      LET named == {j \in DOMAIN list : list[j][1] = USER}
      IN  audit[i][2] = IF named = {} THEN <<>> ELSE Cut(<<list[Min(named)][2]>>, UserSize)

(* The text of a query: what precedes its NUL, without the CR and LF at    *)
(* the end of that.                                                        *)
IsTextOf(text, sql) ==
  /\ IsPrefix(text, sql)
  /\ \A i \in 1 .. Len(text) : text[i] # NUL
  /\ text # <<>> => Last(text) \notin {CR, LF}
  /\ \A j \in Len(text) + 1 .. Len(sql) :
       (\A i \in Len(text) + 1 .. j : sql[i] # NUL) => sql[j] \in {CR, LF}

(* QuestDB, the simple queries of a peer that sends one message at a time: *)
(* each Q is in the trail, behind the login and in order, and nothing else *)
(* is; and for each Q, and once after the login, the peer is told that it  *)
(* may go on, whichever branch answers it.  The messages of the extended   *)
(* protocol do not count: a Parse is acknowledged and its SQL is not in    *)
(* the trail, and nothing at all answers a Bind, an Execute or a Sync, so  *)
(* a peer that waits for the ReadyForQuery of its Sync waits for ever.     *)
QuestInStep ==
  LET queries == {i \in DOMAIN local.segments : Head(local.segments[i]).type = "Q"}
      place(i) == 2 + Cardinality({j \in queries : j <= i})
      ofKind(k) == {n \in DOMAIN audit : audit[n][1] = k}
  IN  service = "questdb" /\ (\A i \in DOMAIN local.segments : Len(local.segments[i]) = 1) =>
        /\ ofKind("COMMAND") = 3 .. 2 + Cardinality(queries)
        /\ \A i \in queries : IsTextOf(audit[place(i)][2], Head(local.segments[i]).sql)
        /\ ofKind("AUTH_FAILURE") # {} =>
             Cardinality({n \in DOMAIN replies : replies[n] = "ready"}) = Cardinality(queries) + 1
=============================================================================
