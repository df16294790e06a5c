---------------------------- MODULE FtpSession -----------------------------
(***************************************************************************)
(* A session of the FTP service, src/src/service/ftp_honeypot.c: the       *)
(* commands, the login, the current directory, what is recorded in the     *)
(* audit trail and what is answered.                                       *)
(*                                                                         *)
(* One recv may complete any number of command lines, none included: an    *)
(* unfinished line stays in line_buf.  The lines it completes are handled  *)
(* one after the other, those behind a QUIT too.  Paths are sequences of   *)
(* "/" and letters; the texts of the answers are reply codes.              *)
(***************************************************************************)
EXTENDS Session

CONSTANTS
  FtpNames,        \* user names
  FtpPaths,        \* the arguments of CWD
  Home,            \* "/var/www/html"
  Parent,          \* "/var/www"
  CwdSize,         \* sizeof(sess->cwd), 512
  FtpGrantOn,      \* FTP_SUCCEED_ON_ATTEMPT, 2
  FtpMaxAttempts,  \* FTP_MAX_AUTH_ATTEMPTS, 6
  FtpMaxBatch,     \* bound of the model: lines completed by one recv
  FtpMaxLines      \* bound of the model: lines of a session

ASSUME FtpAssumption ==
  /\ CwdSize \in Nat
  /\ \A p \in {Home, Parent} : p # <<>> /\ Head(p) = "/" /\ Len(p) < CwdSize
  /\ {Home, Parent} \cup FtpPaths \subseteq Seq(STRING)
  /\ {FtpGrantOn, FtpMaxAttempts} \subseteq Nat \ {0} /\ FtpGrantOn <= FtpMaxAttempts
  /\ {FtpMaxBatch, FtpMaxLines} \subseteq Nat

NoName == ""

(* Command lines, by what the service tells apart.  "EMPTY" is a bare LF;  *)
(* "OTHER" are the commands that are recorded, answered with a fixed text  *)
(* and change nothing: TYPE, PASV, EPSV, PORT, MKD, RMD, SYST, FEAT, SIZE, *)
(* NOOP, SITE, MDTM, LIST and NLST, PWD, unknown ones, and a line that is  *)
(* only CR.                                                                *)
FtpLines ==
  {[verb |-> "USER", name |-> n] : n \in FtpNames}
    \cup {[verb |-> v, path |-> p] : v \in {"CWD", "XCWD"}, p \in FtpPaths}
    \cup {[verb |-> v] : v \in {"EMPTY", "PASS", "QUIT", "CDUP", "RETR", "STOR", "DELE", "OTHER"}}

(* local: the flag of the recv loop, the lines of this recv still to be    *)
(* handled, ftp_session_t, and the number of lines handled that were not   *)
(* empty.                                                                  *)
FtpInit ==
  Begins("recv", [running |-> TRUE, batch |-> <<>>, authenticated |-> FALSE, attempts |-> 0,
                  username |-> NoName, cwd |-> <<"/">>, taken |-> 0])
----------------------------------------------------------------------------
(* Mutated forms, for mutation testing only: a login that a new user name  *)
(* keeps, a grant that is given once only, the NUL of strncat forgotten.   *)
KeepsLogin(was) == was
GrantedOnce(n) == n = FtpGrantOn
RoomWithNul(len) == CwdSize - len
----------------------------------------------------------------------------
(* strncat appends at most n bytes of src, and a NUL that n does not count. *)
(* n is unsigned: what would be below 0 is no limit.                       *)
Strncat(dst, src, n) == dst \o (IF n < 0 THEN src ELSE SubSeq(src, 1, Min({Len(src), n})))

(* The n that ftp_handle_cwd works out, sizeof(cwd) - strlen(cwd) - 1. *)
CatRoom(len) == CwdSize - len - 1

(* ftp_handle_cwd: an absolute path replaces the directory; a relative one *)
(* is appended to it, with a slash before it if the directory ends in      *)
(* none.                                                                   *)
NewCwd(old, arg) ==
  IF arg # <<>> /\ Head(arg) = "/" THEN Cut(arg, CwdSize)
  ELSE LET slashed == IF old # <<>> /\ Last(old) # "/"
                      THEN Strncat(old, <<"/">>, CatRoom(Len(old))) ELSE old
       IN  Strncat(slashed, arg, CatRoom(Len(slashed)))

(* The argument of a line: ftp_extract_argument skips three characters and *)
(* the blanks behind them, for XCWD too, whose argument begins at its D.   *)
CwdArgument(line) == IF line.verb = "XCWD" THEN <<"D", SP>> \o line.path ELSE line.path

(* ftp_handle_user logs the peer out. *)
AfterUser(was) == FALSE

(* ftp_handle_pass: which attempts succeed. *)
Granted(n) == n >= FtpGrantOn
NextAttempt == local.attempts + 1

(* The event a line is recorded as, one for each line. *)
Recorded(line) ==
  CASE line.verb = "PASS" ->
         <<IF Granted(NextAttempt) THEN "AUTH_SUCCESS" ELSE "AUTH_FAILURE", local.username>>
    [] line.verb \in {"STOR", "DELE"} /\ local.authenticated -> <<"FILE_MODIFY">>
    [] line.verb = "RETR" /\ local.authenticated -> <<"FILE_ACCESS">>
    [] line.verb = "USER" -> <<"COMMAND", "USER", line.name>>
    [] OTHER -> <<"COMMAND", line.verb>>

(* The attempts have run out after the n-th, and it did not log in. *)
AtLimit(n) == n >= FtpMaxAttempts /\ ~(local.authenticated \/ Granted(n))

(* The recv loop goes on after a line, unless it was QUIT or the attempts  *)
(* have run out.                                                           *)
GoesOn(line) ==
  /\ line.verb # "QUIT"
  /\ ~(line.verb = "PASS" /\ AtLimit(NextAttempt))
----------------------------------------------------------------------------
FtpRecv(lines) ==
  /\ pc = "recv"
  /\ local.running
  /\ local.taken + Len(lines) <= FtpMaxLines
  /\ local' = [local EXCEPT !.batch = lines]
  /\ pc' = "line"
  /\ UNCHANGED <<audit, replies, closes>>

FtpBatchDone ==
  /\ pc = "line"
  /\ local.batch = <<>>
  /\ pc' = IF local.running THEN "recv" ELSE "end"
  /\ UNCHANGED <<local, audit, replies, closes>>

FtpSkipEmpty ==
  /\ pc = "line"
  /\ local.batch # <<>> /\ Head(local.batch).verb = "EMPTY"
  /\ local' = [local EXCEPT !.batch = Tail(@)]
  /\ UNCHANGED <<pc, audit, replies, closes>>

(* What every other line does: it is taken, recorded and answered. *)
Handle(verbs, codes, sess) ==
  /\ pc = "line"
  /\ local.batch # <<>> /\ Head(local.batch).verb \in verbs
  /\ local' = [sess EXCEPT !.batch = Tail(@), !.taken = @ + 1,
                           !.running = @ /\ GoesOn(Head(local.batch))]
  /\ audit' = Append(audit, Recorded(Head(local.batch)))
  /\ replies' = Append(replies, codes)
  /\ UNCHANGED <<pc, closes>>

(* ftp_handle_user *)
FtpUser ==
  Handle({"USER"}, <<331>>,
         [local EXCEPT !.username = Head(local.batch).name, !.authenticated = AfterUser(@)])

(* ftp_handle_pass *)
FtpPass ==
  \/ /\ Granted(NextAttempt)
     /\ Handle({"PASS"}, <<230>>, [local EXCEPT !.attempts = NextAttempt,
                                                !.authenticated = TRUE, !.cwd = Home])
  \/ /\ ~Granted(NextAttempt)
     /\ Handle({"PASS"}, IF AtLimit(NextAttempt) THEN <<530, 221>> ELSE <<530>>,
               [local EXCEPT !.attempts = NextAttempt])

FtpQuit == Handle({"QUIT"}, <<221>>, local)

(* Anything else before the login. *)
FtpRefused ==
  /\ ~local.authenticated
  /\ Handle({"CWD", "XCWD", "CDUP", "RETR", "STOR", "DELE", "OTHER"}, <<530>>, local)

(* ftp_handle_cwd, and CDUP, which always goes to the same place. *)
FtpCwd ==
  /\ local.authenticated
  /\ \/ Handle({"CDUP"}, <<250>>, [local EXCEPT !.cwd = Parent])
     \/ Handle({"CWD", "XCWD"}, <<250>>,
               [local EXCEPT !.cwd = NewCwd(@, CwdArgument(Head(local.batch)))])

(* ftp_handle_retr, ftp_handle_dele, ftp_handle_stor and the others, whose *)
(* fixed answers are all counted as 200.                                   *)
FtpOther ==
  /\ local.authenticated
  /\ \/ Handle({"RETR", "DELE"}, <<550>>, local)
     \/ Handle({"STOR"}, <<226>>, local)
     \/ Handle({"OTHER"}, <<200>>, local)

FtpNext ==
  \/ \E lines \in BoundedSeq(FtpLines, FtpMaxBatch) : FtpRecv(lines)
  \/ FtpBatchDone \/ FtpSkipEmpty
  \/ FtpUser \/ FtpPass \/ FtpQuit \/ FtpRefused \/ FtpCwd \/ FtpOther
  \/ PeerGone({"recv"}) \/ EndSession
----------------------------------------------------------------------------
(* The trail tells who is logged in: a peer is, when a success was         *)
(* recorded and no user name since; files are touched only then; and each  *)
(* attempt is recorded with the name given last.                           *)
TrailTellsLogin ==
  LET isUser(e) == e[1] = "COMMAND" /\ e[2] = "USER"
      lastUser(trail) == SelectLastInSeq(trail, isUser)
      lastLogin(trail) == SelectLastInSeq(trail, LAMBDA e : e[1] = "AUTH_SUCCESS")
  IN  service = "ftp" =>
        /\ local.authenticated <=> lastLogin(audit) > lastUser(audit)
        /\ \A i \in DOMAIN audit :
             LET trail == SubSeq(audit, 1, i)
             IN  /\ audit[i][1] \in {"FILE_ACCESS", "FILE_MODIFY"} => lastLogin(trail) > lastUser(trail)
                 /\ audit[i][1] \in {"AUTH_SUCCESS", "AUTH_FAILURE"} =>
                      audit[i][2] = IF lastUser(trail) = 0 THEN NoName ELSE audit[lastUser(trail)][3]

(* Each line that is not empty is recorded once and answered once, the     *)
(* lines behind a QUIT in the same segment too.  So the limit on attempts  *)
(* never ends a session, which would be answered twice: once enough were   *)
(* made, every attempt succeeds, whatever user names came between.         *)
OneEventOneReply ==
  service = "ftp" =>
    /\ Len(replies) = local.taken
    /\ \A i \in DOMAIN replies : Len(replies[i]) = 1
    /\ Len(audit) = local.taken + (IF pc = "ended" THEN 2 ELSE 1)
    /\ ~local.running => \E i \in DOMAIN replies : replies[i] = <<221>>
=============================================================================
