-------------------------- MODULE SshSession_proof -------------------------
(***************************************************************************)
(* Proofs about a session of the SSH service.  Where the handler stands    *)
(* says how many passwords were answered, and that number says what every  *)
(* event of the trail is: place 1 is the connection, 2 .. MaxAuth are      *)
(* refusals, MaxAuth + 1 is the success, and nothing after it is about     *)
(* authentication.                                                         *)
(***************************************************************************)
EXTENDS SshSession, FiniteSetTheorems, NaturalsInduction, TLAPS

Events ==
  {<<"CONNECT">>, <<"AUTH_FAILURE">>, <<"AUTH_SUCCESS">>, <<"DISCONNECT">>}
    \cup {<<"COMMAND", c>> : c \in Seq(Chars)}

Before == {"new", "bind", "accept", "kex", "auth", "noauth"}
Inside == {"channel", "nochannel", "shell", "closing", "record"}

(* The types of the session's state.  cmd_buf keeps the byte its NUL needs *)
(* (CommandsRecorded has that as its second part).                         *)
SshTypeOK ==
  /\ pc \in Before \cup Inside \cup {"ended"}
  /\ attempts \in Nat
  /\ channel \in BOOLEAN
  /\ cmd \in Seq(Chars) /\ Len(cmd) < CmdSize
  /\ typed \in Seq(Keys)
  /\ audit \in Seq(Events)

(* How many attempts there were, by the place the handler has reached. *)
AttemptsByPlace ==
  /\ attempts <= MaxAuth
  /\ pc \in Before => attempts < MaxAuth
  /\ pc \in Inside => attempts = MaxAuth

(* What the trail holds, by the number of attempts: before the last one    *)
(* there is the connection and a refusal for each, nothing else.           *)
TrailByAttempts ==
  /\ attempts < MaxAuth => Len(audit) = attempts + 1
  /\ attempts = MaxAuth => Len(audit) > MaxAuth
  /\ \A i \in DOMAIN audit :
       /\ audit[i] = <<"AUTH_FAILURE">> <=> i \in 2 .. MaxAuth
       /\ audit[i] = <<"AUTH_SUCCESS">> <=> i = MaxAuth + 1

SshIInv == SshTypeOK /\ AttemptsByPlace /\ TrailByAttempts
----------------------------------------------------------------------------
(* Numbers: the least element of a set, and induction stated with a set in *)
(* place of a predicate.                                                   *)
LEMMA MinOfNat ==
  ASSUME NEW S, S \subseteq Nat, S # {}
  PROVE  Min(S) \in S /\ \A y \in S : Min(S) <= y
  <1> DEFINE R == OpToRel(<, Nat)
  <1>1. \A x, y \in Nat : x < y => <<x, y>> \in R BY DEF OpToRel
  <1>2. IsWellFoundedOn(R, Nat) BY NatLessThanWellFounded
  <1> HIDE DEF R
  <1>3. PICK x \in S : \A y \in S : ~(<<y, x>> \in R) BY <1>2, WFMin
  <1>4. ASSUME NEW y \in S PROVE x <= y
    <2>1. x \in Nat /\ y \in Nat /\ ~(<<y, x>> \in R) BY <1>3
    <2>2. ~(y < x) BY <1>1, <2>1
    <2> QED BY <2>1, <2>2
  <1> QED BY <1>3, <1>4 DEF Min

(* Induction over the naturals, for the set of numbers with a property. *)
LEMMA InductionBySet ==
  ASSUME NEW S, S \subseteq Nat, 0 \in S, \A n \in S : n + 1 \in S
  PROVE  S = Nat
  <1> SUFFICES ASSUME Nat \ S # {} PROVE FALSE
    OBVIOUS
  <1> DEFINE m == Min(Nat \ S)
  <1>1. m \in Nat \ S /\ \A y \in Nat \ S : m <= y BY MinOfNat
  <1> HIDE DEF m
  <1>2. m # 0 BY <1>1
  <1>3. m - 1 \in Nat /\ m - 1 < m BY <1>1, <1>2
  <1>4. m - 1 \in S BY <1>1, <1>3
  <1>5. (m - 1) + 1 = m BY <1>1
  <1> QED BY <1>1, <1>4, <1>5
(* The minimum of two naturals, as the community modules define it. *)
LEMMA MinOfTwo ==
  ASSUME NEW a \in Nat, NEW b \in Nat, a <= b
  PROVE  Min({a, b}) = a /\ Min({b, a}) = a
  BY DEF Min

(* The events are told apart by their first entry. *)
LEMMA EventsDiffer ==
  ASSUME NEW c
  PROVE  /\ <<"COMMAND", c>> # <<"AUTH_FAILURE">>
         /\ <<"COMMAND", c>> # <<"AUTH_SUCCESS">>
         /\ <<"DISCONNECT">> # <<"AUTH_FAILURE">>
         /\ <<"DISCONNECT">> # <<"AUTH_SUCCESS">>
         /\ <<"CONNECT">> # <<"AUTH_FAILURE">>
         /\ <<"CONNECT">> # <<"AUTH_SUCCESS">>
         /\ <<"AUTH_FAILURE">> # <<"AUTH_SUCCESS">>
  <1>1. <<"COMMAND", c>>[1] = "COMMAND" OBVIOUS
  <1> QED BY <1>1

(* An event of the shell or of the end of the session, behind the success, *)
(* leaves the reading of the trail as it was.                              *)
LEMMA RecordLater ==
  ASSUME SshAssumption, NEW s \in Seq(Events), NEW e \in Events, Len(s) > MaxAuth,
         e # <<"AUTH_FAILURE">>, e # <<"AUTH_SUCCESS">>,
         \A i \in DOMAIN s : /\ s[i] = <<"AUTH_FAILURE">> <=> i \in 2 .. MaxAuth
                             /\ s[i] = <<"AUTH_SUCCESS">> <=> i = MaxAuth + 1
  PROVE  /\ Append(s, e) \in Seq(Events) /\ Len(Append(s, e)) > MaxAuth
         /\ \A i \in DOMAIN Append(s, e) :
              /\ Append(s, e)[i] = <<"AUTH_FAILURE">> <=> i \in 2 .. MaxAuth
              /\ Append(s, e)[i] = <<"AUTH_SUCCESS">> <=> i = MaxAuth + 1
  <1>1. Append(s, e) \in Seq(Events) /\ Len(Append(s, e)) = Len(s) + 1
    OBVIOUS
  <1>2. ASSUME NEW i \in DOMAIN Append(s, e)
        PROVE  /\ Append(s, e)[i] = <<"AUTH_FAILURE">> <=> i \in 2 .. MaxAuth
               /\ Append(s, e)[i] = <<"AUTH_SUCCESS">> <=> i = MaxAuth + 1
    <2>1. i \in 1 .. Len(s) + 1 BY <1>1
    <2>2. CASE i = Len(s) + 1 BY <2>2 DEF SshAssumption
    <2>3. CASE i \in 1 .. Len(s) BY <2>3 DEF SshAssumption
    <2>4. i = Len(s) + 1 \/ i \in 1 .. Len(s)
      <3>1. Len(s) \in Nat OBVIOUS
      <3> QED BY <2>1, <3>1
    <2> QED BY <2>2, <2>3, <2>4
  <1> QED BY <1>1, <1>2, SMTT(40)

(* The event of an attempt: a refusal while the number is below MaxAuth,   *)
(* the success when it gets there.                                         *)
LEMMA RecordAttempt ==
  ASSUME SshAssumption, NEW s \in Seq(Events), NEW n \in Nat, n < MaxAuth, Len(s) = n + 1,
         \A i \in DOMAIN s : /\ s[i] = <<"AUTH_FAILURE">> <=> i \in 2 .. MaxAuth
                             /\ s[i] = <<"AUTH_SUCCESS">> <=> i = MaxAuth + 1
  PROVE  LET t == Append(s, AuthEvent(n + 1))
         IN  /\ t \in Seq(Events) /\ Len(t) = n + 2
             /\ \A i \in DOMAIN t : /\ t[i] = <<"AUTH_FAILURE">> <=> i \in 2 .. MaxAuth
                                    /\ t[i] = <<"AUTH_SUCCESS">> <=> i = MaxAuth + 1
  <1> DEFINE e == AuthEvent(n + 1)
  <1>1. e \in Events BY DEF AuthEvent, Events
  <1>2. (e = <<"AUTH_FAILURE">> <=> n + 1 < MaxAuth) /\ (e = <<"AUTH_SUCCESS">> <=> n + 1 >= MaxAuth)
    BY EventsDiffer DEF AuthEvent, Granted, SshAssumption
  <1> HIDE DEF e
  <1>3. Append(s, e) \in Seq(Events) /\ Len(Append(s, e)) = n + 2
    BY <1>1
  <1>4. ASSUME NEW i \in DOMAIN Append(s, e)
        PROVE  /\ Append(s, e)[i] = <<"AUTH_FAILURE">> <=> i \in 2 .. MaxAuth
               /\ Append(s, e)[i] = <<"AUTH_SUCCESS">> <=> i = MaxAuth + 1
    <2>1. i \in 1 .. n + 2 BY <1>3
    <2>2. CASE i = n + 2
      <3>1. Append(s, e)[i] = e BY <1>1, <2>2
      <3> QED BY <3>1, <2>2, <1>2 DEF SshAssumption
    <2>3. CASE i \in 1 .. n + 1
      <3>1. i \in DOMAIN s /\ Append(s, e)[i] = s[i] BY <1>1, <2>3
      <3> QED BY <3>1
    <2> QED BY <2>1, <2>2, <2>3
  <1> QED BY <1>3, <1>4 DEF e
----------------------------------------------------------------------------
(* SshIInv holds at the start. *)
LEMMA SshInit == SshAssumption /\ Init => SshIInv
  <1> SUFFICES ASSUME SshAssumption, Init PROVE SshIInv
    OBVIOUS
  <1>1. AttemptsByPlace
    BY DEF Init, AttemptsByPlace, Before, Inside, SshAssumption
  <1>2. SshTypeOK
    <2>1. <<"CONNECT">> \in Events BY DEF Events
    <2>2. audit \in Seq(Events) BY <2>1 DEF Init
    <2>3. cmd \in Seq(Chars) /\ typed \in Seq(Keys) BY DEF Init
    <2>4. Len(cmd) < CmdSize BY DEF Init, SshAssumption
    <2>5. pc \in Before /\ attempts \in Nat /\ channel \in BOOLEAN
      BY DEF Init, Before
    <2> QED BY <2>2, <2>3, <2>4, <2>5 DEF SshTypeOK
  <1>3. TrailByAttempts
    <2>1. audit = <<<<"CONNECT">>>> /\ attempts = 0 BY DEF Init
    <2>2. Len(audit) = 1 /\ DOMAIN audit = {1} /\ audit[1] = <<"CONNECT">> BY <2>1
    <2> QED BY <2>1, <2>2, EventsDiffer DEF TrailByAttempts, SshAssumption
  <1> QED BY <1>1, <1>2, <1>3 DEF SshIInv

(* The steps that record nothing keep what is known of the trail. *)
LEMMA QuietSteps ==
  ASSUME SshAssumption, SshIInv,
         \/ SessionNew \/ SessionNewFails \/ BindNew \/ BindNewFails \/ AcceptFd
         \/ AcceptFdFails \/ KeyExchange \/ KeyExchangeFails \/ OtherRequest \/ NoMessage \/ GiveUp \/ OpenChannel
         \/ RequestShell \/ ShellEnds \/ Disconnect \/ Ended \/ UNCHANGED vars
  PROVE  SshIInv'
  <1> USE DEF SshIInv
  <1>1. audit' = audit /\ attempts' = attempts /\ cmd' = cmd /\ typed' = typed
    BY DEF SessionNew, SessionNewFails, BindNew, BindNewFails, AcceptFd,
                AcceptFdFails, KeyExchange, KeyExchangeFails, OtherRequest, NoMessage, GiveUp, OpenChannel, RequestShell,
           ShellEnds, Disconnect, Ended, vars
  <1>2. TrailByAttempts' BY <1>1 DEF TrailByAttempts
  <1>3. SshTypeOK'
    BY <1>1 DEF SshTypeOK, Before, Inside, SessionNew, SessionNewFails, BindNew, BindNewFails, AcceptFd,
                AcceptFdFails, KeyExchange, KeyExchangeFails, OtherRequest, NoMessage,
                GiveUp, OpenChannel, RequestShell, ShellEnds, Disconnect, Ended, vars
  <1>4. AttemptsByPlace'
    BY <1>1 DEF AttemptsByPlace, Before, Inside, SessionNew, SessionNewFails, BindNew, BindNewFails, AcceptFd,
                AcceptFdFails, KeyExchange, KeyExchangeFails, OtherRequest, NoMessage,
                GiveUp, OpenChannel, RequestShell, ShellEnds, Disconnect, Ended, vars
  <1> QED BY <1>2, <1>3, <1>4

(* An answered password keeps SshIInv. *)
LEMMA PasswordStep ==
  ASSUME SshAssumption, SshIInv, Password
  PROVE  SshIInv'
  <1> USE DEF SshIInv
  <1>1. attempts \in Nat /\ attempts < MaxAuth /\ pc = "auth" /\ attempts' = attempts + 1
    BY DEF Password, SshTypeOK, AttemptsByPlace, Before
  <1>2. /\ audit \in Seq(Events) /\ Len(audit) = attempts + 1
        /\ audit' = Append(audit, AuthEvent(attempts + 1))
    BY <1>1 DEF Password, SshTypeOK, TrailByAttempts
  <1>3. /\ audit' \in Seq(Events) /\ Len(audit') = attempts + 2
        /\ \A i \in DOMAIN audit' : /\ audit'[i] = <<"AUTH_FAILURE">> <=> i \in 2 .. MaxAuth
                                    /\ audit'[i] = <<"AUTH_SUCCESS">> <=> i = MaxAuth + 1
    BY <1>1, <1>2, RecordAttempt, ZenonT(60) DEF TrailByAttempts
  <1>4. TrailByAttempts'
    BY <1>1, <1>3 DEF TrailByAttempts, SshAssumption
  <1>5. /\ attempts' < MaxAuth => pc' = "auth"
        /\ attempts' >= MaxAuth => pc' = "channel"
    BY <1>1 DEF Password, Granted, SshAssumption
  <1>6. (attempts' < MaxAuth /\ pc' = "auth") \/ (attempts' = MaxAuth /\ pc' = "channel")
    BY <1>1, <1>5 DEF SshAssumption
  <1>7. AttemptsByPlace'
    BY <1>1, <1>6 DEF AttemptsByPlace, Before, Inside, SshAssumption
  <1>8. SshTypeOK'
    BY <1>1, <1>3, <1>6 DEF SshTypeOK, Password, Before, Inside
  <1> QED BY <1>4, <1>7, <1>8

(* The keys of the shell: the line stays within cmd_buf. *)
LEMMA TypeStep ==
  ASSUME SshAssumption, SshIInv, NEW k \in Keys, Type(k)
  PROVE  SshIInv'
  <1> USE DEF SshIInv
  <1>1. UNCHANGED <<pc, attempts, channel, owned, closes, audit>> /\ typed' = Append(typed, k)
    BY DEF Type
  <1>2. cmd \in Seq(Chars) /\ Len(cmd) < CmdSize /\ typed \in Seq(Keys)
    BY DEF SshTypeOK
  <1>3. cmd' \in Seq(Chars) /\ Len(cmd') < CmdSize
    <2>1. CASE k \in Chars /\ cmd' = IF Room(cmd) THEN Append(cmd, k) ELSE cmd
      BY <2>1, <1>2 DEF Room, SshAssumption
    <2>2. CASE k = "erase" /\ cmd' = IF cmd = <<>> THEN cmd ELSE Front(cmd)
      BY <2>2, <1>2 DEF Front, SshAssumption
    <2>3. CASE k = "interrupt" /\ cmd' = AfterInterrupt(cmd)
      BY <2>3, <1>2 DEF AfterInterrupt, SshAssumption
    <2> QED BY <2>1, <2>2, <2>3 DEF Type
  <1>4. typed' \in Seq(Keys) BY <1>1, <1>2
  <1>5. SshTypeOK' BY <1>1, <1>3, <1>4 DEF SshTypeOK
  <1>6. TrailByAttempts' BY <1>1 DEF TrailByAttempts
  <1>7. AttemptsByPlace' BY <1>1 DEF AttemptsByPlace
  <1> QED BY <1>5, <1>6, <1>7

(* A submitted line keeps SshIInv. *)
LEMMA EnterStep ==
  ASSUME SshAssumption, SshIInv, Enter
  PROVE  SshIInv'
  <1> USE DEF SshIInv
  <1>1. /\ pc = "shell" /\ pc' \in {"closing", "shell"} /\ UNCHANGED <<attempts, channel, owned, closes>>
        /\ typed' = Append(typed, "enter")
    BY DEF Enter
  <1>2. cmd \in Seq(Chars) /\ Len(cmd) < CmdSize /\ typed \in Seq(Keys) /\ audit \in Seq(Events)
    BY DEF SshTypeOK
  <1>3. attempts = MaxAuth /\ Len(audit) > MaxAuth
    BY <1>1 DEF AttemptsByPlace, TrailByAttempts, Inside
  <1>4. /\ audit' \in Seq(Events) /\ Len(audit') > MaxAuth
        /\ \A i \in DOMAIN audit' : /\ audit'[i] = <<"AUTH_FAILURE">> <=> i \in 2 .. MaxAuth
                                    /\ audit'[i] = <<"AUTH_SUCCESS">> <=> i = MaxAuth + 1
    <2>1. CASE audit' = audit BY <2>1, <1>2, <1>3 DEF TrailByAttempts
    <2>2. CASE audit' = Append(audit, <<"COMMAND", cmd>>)
      <3>1. <<"COMMAND", cmd>> \in Events BY <1>2 DEF Events
      <3>2. <<"COMMAND", cmd>> # <<"AUTH_FAILURE">> /\ <<"COMMAND", cmd>> # <<"AUTH_SUCCESS">>
        BY EventsDiffer
      <3> DEFINE e == <<"COMMAND", cmd>>
      <3> HIDE DEF e
      <3>3. e \in Events /\ e # <<"AUTH_FAILURE">> /\ e # <<"AUTH_SUCCESS">> /\ audit' = Append(audit, e)
        BY <3>1, <3>2, <2>2 DEF e
      <3> QED BY <3>3, <1>2, <1>3, RecordLater DEF TrailByAttempts
    <2> QED BY <2>1, <2>2 DEF Enter
  <1>5. TrailByAttempts' BY <1>1, <1>3, <1>4 DEF TrailByAttempts, SshAssumption
  <1>6. cmd' \in Seq(Chars) /\ Len(cmd') < CmdSize
    BY <1>2 DEF Enter, SshAssumption
  <1>7. typed' \in Seq(Keys) BY <1>1, <1>2 DEF Keys
  <1>8. SshTypeOK' BY <1>1, <1>4, <1>6, <1>7 DEF SshTypeOK, Inside
  <1>9. AttemptsByPlace'
    BY <1>1, <1>3 DEF AttemptsByPlace, Before, Inside, SshAssumption
  <1> QED BY <1>5, <1>8, <1>9

(* The last event keeps SshIInv. *)
LEMMA RecordEndStep ==
  ASSUME SshAssumption, SshIInv, RecordEnd
  PROVE  SshIInv'
  <1> USE DEF SshIInv
  <1>1. /\ pc = "record" /\ pc' = "ended" /\ UNCHANGED <<attempts, channel, cmd, typed, owned, closes>>
        /\ audit' = Append(audit, <<"DISCONNECT">>)
    BY DEF RecordEnd
  <1>2. attempts = MaxAuth /\ Len(audit) > MaxAuth /\ audit \in Seq(Events)
    BY <1>1 DEF AttemptsByPlace, TrailByAttempts, SshTypeOK, Inside
  <1>3. <<"DISCONNECT">> \in Events BY DEF Events
  <1>4. /\ audit' \in Seq(Events) /\ Len(audit') > MaxAuth
        /\ \A i \in DOMAIN audit' : /\ audit'[i] = <<"AUTH_FAILURE">> <=> i \in 2 .. MaxAuth
                                    /\ audit'[i] = <<"AUTH_SUCCESS">> <=> i = MaxAuth + 1
    BY <1>1, <1>2, <1>3, RecordLater, EventsDiffer DEF TrailByAttempts
  <1>5. TrailByAttempts'
    <2>1. attempts' = MaxAuth /\ ~(attempts' < MaxAuth) BY <1>1, <1>2 DEF SshAssumption
    <2> QED BY <2>1, <1>4 DEF TrailByAttempts
  <1>6. SshTypeOK' BY <1>1, <1>4 DEF SshTypeOK
  <1>7. AttemptsByPlace' BY <1>1, <1>2 DEF AttemptsByPlace, Before, Inside, SshAssumption
  <1> QED BY <1>5, <1>6, <1>7

(* What a session of ssh_honeypot.c keeps true at every step of the        *)
(* handler, for every number of attempts and every size of cmd_buf.        *)
THEOREM SshInvariance == Spec => []SshIInv
  <1> USE SshAssumption
  <1>1. Init => SshIInv BY SshInit
  <1>2. SshIInv /\ [Next]_vars => SshIInv'
    <2> SUFFICES ASSUME SshIInv, [Next]_vars PROVE SshIInv'
      OBVIOUS
    <2>1. CASE Password BY <2>1, PasswordStep
    <2>2. ASSUME NEW k \in Keys, Type(k) PROVE SshIInv' BY <2>2, TypeStep
    <2>3. CASE Enter BY <2>3, EnterStep
    <2>4. CASE RecordEnd BY <2>4, RecordEndStep
    <2>5. CASE \/ SessionNew \/ SessionNewFails \/ BindNew \/ BindNewFails \/ AcceptFd
         \/ AcceptFdFails \/ KeyExchange \/ KeyExchangeFails \/ OtherRequest \/ NoMessage \/ GiveUp \/ OpenChannel
               \/ RequestShell \/ ShellEnds \/ Disconnect \/ Ended \/ UNCHANGED vars
      BY <2>5, QuietSteps
    <2> QED BY <2>1, <2>2, <2>3, <2>4, <2>5 DEF Next
  <1> QED BY <1>1, <1>2, PTL DEF Spec

(* A peer of the SSH service is let in at the attempt MaxAuth and at no    *)
(* other: the trail of whoever reaches the shell has exactly one success,  *)
(* behind exactly MaxAuth - 1 refusals, and the dialogue never ends with   *)
(* the attempts used up.                                                   *)
THEOREM SshLoginCorrect == Spec => []LoginAtLastAttempt
  <1> USE SshAssumption
  <1>1. SshIInv => LoginAtLastAttempt
    <2> SUFFICES ASSUME SshIInv PROVE LoginAtLastAttempt
      OBVIOUS
    <2>1. /\ attempts \in Nat /\ attempts <= MaxAuth /\ MaxAuth \in Nat \ {0}
          /\ DOMAIN audit = 1 .. Len(audit) /\ Len(audit) \in Nat
      BY DEF SshIInv, SshTypeOK, AttemptsByPlace, SshAssumption
    <2>2. {i \in DOMAIN audit : audit[i] = <<"AUTH_SUCCESS">>}
            = {i \in 1 .. Len(audit) : i = MaxAuth + 1}
      BY <2>1 DEF SshIInv, TrailByAttempts
    <2>3. {i \in DOMAIN audit : audit[i] = <<"AUTH_FAILURE">>}
            = {i \in 1 .. Len(audit) : i \in 2 .. MaxAuth}
      BY <2>1 DEF SshIInv, TrailByAttempts
    <2>4. pc \in Inside => {i \in DOMAIN audit : audit[i] = <<"AUTH_SUCCESS">>} = {MaxAuth + 1}
      <3> SUFFICES ASSUME pc \in Inside PROVE {i \in 1 .. Len(audit) : i = MaxAuth + 1} = {MaxAuth + 1}
        BY <2>2
      <3>1. Len(audit) > MaxAuth BY DEF SshIInv, AttemptsByPlace, TrailByAttempts
      <3> QED BY <3>1, <2>1
    <2>5. {i \in DOMAIN audit : audit[i] = <<"AUTH_FAILURE">>}
            = 2 .. Min({attempts, MaxAuth - 1}) + 1
      <3>1. CASE attempts < MaxAuth
        <4>1. Len(audit) = attempts + 1 BY <3>1 DEF SshIInv, TrailByAttempts
        <4>2. Min({attempts, MaxAuth - 1}) = attempts BY <3>1, <2>1, MinOfTwo
        <4>3. {i \in 1 .. attempts + 1 : i \in 2 .. MaxAuth} = 2 .. attempts + 1
          BY <3>1, <2>1
        <4> QED BY <2>3, <4>1, <4>2, <4>3
      <3>2. CASE attempts = MaxAuth
        <4>1. Len(audit) > MaxAuth BY <3>2 DEF SshIInv, TrailByAttempts
        <4>2. Min({attempts, MaxAuth - 1}) = MaxAuth - 1 BY <3>2, <2>1, MinOfTwo
        <4>3. {i \in 1 .. Len(audit) : i \in 2 .. MaxAuth} = 2 .. MaxAuth
          BY <4>1, <2>1
        <4>4. (MaxAuth - 1) + 1 = MaxAuth BY <2>1
        <4> QED BY <2>3, <4>2, <4>3, <4>4
      <3>3. attempts < MaxAuth \/ attempts = MaxAuth BY <2>1
      <3> QED BY <3>1, <3>2, <3>3
    <2>6. pc = "noauth" => attempts < MaxAuth BY DEF SshIInv, AttemptsByPlace, Before
    <2> QED BY <2>4, <2>5, <2>6 DEF LoginAtLastAttempt, Inside
  <1> QED BY <1>1, SshInvariance, PTL
----------------------------------------------------------------------------
(***************************************************************************)
(* The commands of the shell.  Lines is a recursive function: it exists    *)
(* and is the only one, so it can be read key by key; cmd_buf is then the  *)
(* line after the last key, and every submitted line is in the trail.      *)
(***************************************************************************)
IsLines(keys, f) ==
  f = [i \in 0 .. Len(keys) |-> IF i = 0 THEN <<>> ELSE Edit(f[i - 1], keys[i])]

(* There is at most one such function. *)
LEMMA LinesUnique ==
  ASSUME NEW s \in Seq(Keys), NEW f, NEW g, IsLines(s, f), IsLines(s, g)
  PROVE  f = g
  <1> DEFINE S == {n \in Nat : n <= Len(s) => f[n] = g[n]}
  <1>1. Len(s) \in Nat OBVIOUS
  <1>2. \A i \in 0 .. Len(s) : /\ f[i] = IF i = 0 THEN <<>> ELSE Edit(f[i - 1], s[i])
                               /\ g[i] = IF i = 0 THEN <<>> ELSE Edit(g[i - 1], s[i])
    BY DEF IsLines
  <1>3. 0 \in S BY <1>1, <1>2
  <1>4. ASSUME NEW n \in S PROVE n + 1 \in S
    <2> SUFFICES ASSUME n + 1 <= Len(s) PROVE f[n + 1] = g[n + 1]
      OBVIOUS
    <2>1. f[n] = g[n] /\ n + 1 \in 0 .. Len(s) /\ n + 1 # 0 /\ (n + 1) - 1 = n BY <1>1
    <2> QED BY <2>1, <1>2
  <1>5. S = Nat
    <2>1. S \subseteq Nat OBVIOUS
    <2> HIDE DEF S
    <2> QED BY <2>1, <1>3, <1>4, InductionBySet
  <1>6. \A i \in 0 .. Len(s) : f[i] = g[i] BY <1>1, <1>5
  <1> QED BY <1>6, <1>1 DEF IsLines

(* A function for s can be extended by a key. *)
LEMMA LinesExtend ==
  ASSUME NEW s \in Seq(Keys), NEW k \in Keys, NEW f, IsLines(s, f)
  PROVE  IsLines(Append(s, k), [i \in 0 .. Len(s) + 1 |->
                                  IF i <= Len(s) THEN f[i] ELSE Edit(f[Len(s)], k)])
  <1> DEFINE t == Append(s, k)
             g == [i \in 0 .. Len(s) + 1 |-> IF i <= Len(s) THEN f[i] ELSE Edit(f[Len(s)], k)]
  <1>1. Len(s) \in Nat /\ Len(t) = Len(s) + 1 /\ t[Len(s) + 1] = k OBVIOUS
  <1>2. \A i \in 1 .. Len(s) : t[i] = s[i] OBVIOUS
  <1>3. \A i \in 0 .. Len(s) : f[i] = IF i = 0 THEN <<>> ELSE Edit(f[i - 1], s[i])
    BY DEF IsLines
  <1>4. ASSUME NEW i \in 0 .. Len(s) + 1
        PROVE  g[i] = IF i = 0 THEN <<>> ELSE Edit(g[i - 1], t[i])
    <2> HIDE DEF t
    <2>1. CASE i = 0 BY <2>1, <1>1, <1>3
    <2>2. CASE i \in 1 .. Len(s)
      <3>1. g[i] = f[i] /\ g[i - 1] = f[i - 1] BY <2>2, <1>1
      <3> QED BY <3>1, <2>2, <1>2, <1>3
    <2>3. CASE i = Len(s) + 1
      <3>1. g[i] = Edit(f[Len(s)], k) BY <2>3, <1>1
      <3>2. i # 0 /\ i - 1 = Len(s) /\ g[i - 1] = f[Len(s)] BY <2>3, <1>1
      <3> QED BY <3>1, <3>2, <2>3, <1>1
    <2> QED BY <2>1, <2>2, <2>3, <1>1
  <1>5. g = [i \in 0 .. Len(t) |-> IF i = 0 THEN <<>> ELSE Edit(g[i - 1], t[i])]
    BY <1>1, <1>4
  <1> QED BY <1>5 DEF IsLines

(* So there is one for every sequence of keys, and Lines is it. *)
LEMMA LinesExist ==
  ASSUME NEW s \in Seq(Keys)
  PROVE  IsLines(s, Lines(s))
  <1> DEFINE S == {n \in Nat : \A t \in Seq(Keys) : Len(t) = n => \E f : IsLines(t, f)}
  <1>1. 0 \in S
    <2> SUFFICES ASSUME NEW t \in Seq(Keys), Len(t) = 0 PROVE \E f : IsLines(t, f)
      OBVIOUS
    <2>1. IsLines(t, [i \in 0 .. 0 |-> <<>>]) BY DEF IsLines
    <2> QED BY <2>1
  <1>2. ASSUME NEW n \in S PROVE n + 1 \in S
    <2> SUFFICES ASSUME NEW t \in Seq(Keys), Len(t) = n + 1 PROVE \E f : IsLines(t, f)
      OBVIOUS
    <2> DEFINE r == SubSeq(t, 1, n)
    <2>1. r \in Seq(Keys) /\ Len(r) = n /\ t[n + 1] \in Keys /\ t = Append(r, t[n + 1])
      OBVIOUS
    <2>2. PICK f : IsLines(r, f) BY <2>1
    <2> HIDE DEF r
    <2> QED BY <2>1, <2>2, LinesExtend
  <1>3. Len(s) \in S
    <2>1. S \subseteq Nat /\ Len(s) \in Nat OBVIOUS
    <2> HIDE DEF S
    <2> QED BY <2>1, <1>1, <1>2, InductionBySet
  <1>4. PICK f : IsLines(s, f) BY <1>3
  <1> QED BY <1>4 DEF Lines, IsLines

(* One more key edits the line it is typed on and leaves the others. *)
LEMMA LinesAppend ==
  ASSUME NEW s \in Seq(Keys), NEW k \in Keys
  PROVE  /\ \A i \in 0 .. Len(s) : Lines(Append(s, k))[i] = Lines(s)[i]
         /\ Lines(Append(s, k))[Len(s) + 1] = Edit(Lines(s)[Len(s)], k)
  <1> DEFINE g == [i \in 0 .. Len(s) + 1 |->
                     IF i <= Len(s) THEN Lines(s)[i] ELSE Edit(Lines(s)[Len(s)], k)]
  <1>1. IsLines(Append(s, k), g) BY LinesExist, LinesExtend
  <1>2. Append(s, k) \in Seq(Keys) OBVIOUS
  <1>3. IsLines(Append(s, k), Lines(Append(s, k))) BY <1>2, LinesExist
  <1>4. Lines(Append(s, k)) = g
    <2> HIDE DEF g
    <2> QED BY <1>1, <1>2, <1>3, LinesUnique
  <1>5. Len(s) \in Nat OBVIOUS
  <1> QED BY <1>4, <1>5

(* No key, no line. *)
LEMMA LinesEmpty == Lines(<<>>)[0] = <<>>
  <1>1. <<>> \in Seq(Keys) /\ Len(<<>>) = 0 OBVIOUS
  <1>2. IsLines(<<>>, Lines(<<>>)) BY <1>1, LinesExist
  <1> QED BY <1>1, <1>2 DEF IsLines

(* What the shell's state says of the keys: before the shell none has been *)
(* typed; in it cmd_buf is the line that Lines tells of.                   *)
LineInBuffer ==
  /\ pc \in Before \cup {"channel", "nochannel"} => typed = <<>> /\ cmd = <<>>
  /\ pc = "shell" => cmd = Lines(typed)[Len(typed)]

(* What the trail says of them: one event for each submitted command, and  *)
(* until the session ends nothing behind the last.                         *)
CommandsByPlace ==
  /\ \A n \in DOMAIN audit :
       audit[n][1] = "COMMAND" <=> n \in MaxAuth + 2 .. MaxAuth + 1 + Cardinality(Submitted)
  /\ \A i \in Submitted : audit[PlaceOf(i)] = <<"COMMAND", Lines(typed)[i - 1]>>
  /\ pc \in Inside => Len(audit) = MaxAuth + 1 + Cardinality(Submitted)
  /\ Len(audit) >= MaxAuth + 1 + Cardinality(Submitted) \/ Submitted = {}

CommandIInv == SshIInv /\ LineInBuffer /\ CommandsByPlace

(* The submitted keys are among those typed: there are finitely many. *)
LEMMA SubmittedFinite ==
  ASSUME typed \in Seq(Keys)
  PROVE  /\ Submitted \subseteq 1 .. Len(typed) /\ Len(typed) \in Nat
         /\ IsFiniteSet(Submitted) /\ Cardinality(Submitted) \in Nat
         /\ \A i : /\ IsFiniteSet({j \in Submitted : j <= i})
                    /\ Cardinality({j \in Submitted : j <= i}) \in 0 .. Cardinality(Submitted)
  <1>1. Len(typed) \in Nat /\ DOMAIN typed = 1 .. Len(typed) OBVIOUS
  <1>2. Submitted \subseteq 1 .. Len(typed) BY <1>1 DEF Submitted
  <1>3. IsFiniteSet(1 .. Len(typed)) BY <1>1, FS_Interval
  <1>4. IsFiniteSet(Submitted) BY <1>2, <1>3, FS_Subset
  <1>5. Cardinality(Submitted) \in Nat BY <1>4, FS_CardinalityType
  <1>6. ASSUME NEW i
        PROVE  /\ IsFiniteSet({j \in Submitted : j <= i})
               /\ Cardinality({j \in Submitted : j <= i}) \in 0 .. Cardinality(Submitted)
    <2> DEFINE P == {j \in Submitted : j <= i}
    <2>1. P \subseteq Submitted OBVIOUS
    <2> HIDE DEF P
    <2>2. IsFiniteSet(P) /\ Cardinality(P) <= Cardinality(Submitted) BY <1>4, <2>1, FS_Subset
    <2>3. Cardinality(P) \in Nat BY <2>2, FS_CardinalityType
    <2> QED BY <2>2, <2>3, <1>5 DEF P
  <1> QED BY <1>1, <1>2, <1>4, <1>5, <1>6

(* An event that is no command, for the readings of the trail below. *)
LEMMA OtherEvents ==
  ASSUME NEW n \in Nat
  PROVE  /\ AuthEvent(n)[1] # "COMMAND" /\ <<"DISCONNECT">>[1] # "COMMAND"
         /\ <<"CONNECT">>[1] # "COMMAND" /\ \A c : <<"COMMAND", c>>[1] = "COMMAND"
  BY DEF AuthEvent

(* A key that submits nothing leaves the commands as they are. *)
LEMMA NotSubmitted ==
  ASSUME typed \in Seq(Keys), NEW k \in Keys, typed' = Append(typed, k),
         k = "enter" => Lines(typed)[Len(typed)] = <<>>
  PROVE  /\ Submitted' = Submitted
         /\ \A i \in Submitted : Lines(typed')[i - 1] = Lines(typed)[i - 1]
  <1>1. /\ Len(typed) \in Nat /\ DOMAIN typed = 1 .. Len(typed)
        /\ DOMAIN typed' = 1 .. Len(typed) + 1
        /\ typed'[Len(typed) + 1] = k /\ \A i \in 1 .. Len(typed) : typed'[i] = typed[i]
    OBVIOUS
  <1>2. \A i \in 0 .. Len(typed) : Lines(typed')[i] = Lines(typed)[i] BY LinesAppend
  <1>3. \A i \in 1 .. Len(typed) + 1 : Lines(typed')[i - 1] = Lines(typed)[i - 1]
    BY <1>1, <1>2
  <1>4. ~(typed'[Len(typed) + 1] = "enter" /\ Lines(typed')[(Len(typed) + 1) - 1] # <<>>)
    BY <1>1, <1>2
  <1>5. Submitted' = {i \in 1 .. Len(typed) + 1 : typed'[i] = "enter" /\ Lines(typed')[i - 1] # <<>>}
    BY <1>1 DEF Submitted
  <1>6. Submitted = {i \in 1 .. Len(typed) : typed[i] = "enter" /\ Lines(typed)[i - 1] # <<>>}
    BY <1>1 DEF Submitted
  <1>7. ASSUME NEW i PROVE i \in Submitted' <=> i \in Submitted
    <2>1. CASE i \in 1 .. Len(typed) BY <2>1, <1>1, <1>3, <1>5, <1>6
    <2>2. CASE i = Len(typed) + 1 BY <2>2, <1>1, <1>4, <1>5, <1>6
    <2>3. CASE i \notin 1 .. Len(typed) + 1 BY <2>3, <1>1, <1>5, <1>6
    <2> QED BY <2>1, <2>2, <2>3, <1>1
  <1> QED BY <1>1, <1>3, <1>6, <1>7

(* An enter on a line that is not empty adds one, behind the others. *)
LEMMA OneSubmitted ==
  ASSUME typed \in Seq(Keys), typed' = Append(typed, "enter"), Lines(typed)[Len(typed)] # <<>>
  PROVE  /\ Submitted' = Submitted \cup {Len(typed) + 1}
         /\ Cardinality(Submitted') = Cardinality(Submitted) + 1
         /\ \A i \in Submitted' : Lines(typed')[i - 1] = Lines(typed)[i - 1]
         /\ \A i \in Submitted : PlaceOf(i)' = PlaceOf(i)
         /\ \A i : i = Len(typed) + 1 => PlaceOf(i)' = MaxAuth + 1 + Cardinality(Submitted')
  <1> DEFINE n == Len(typed) + 1
  <1>0. "enter" \in Keys BY DEF Keys
  <1>1. /\ Len(typed) \in Nat /\ DOMAIN typed = 1 .. Len(typed)
        /\ DOMAIN typed' = 1 .. n
        /\ typed'[n] = "enter" /\ \A i \in 1 .. Len(typed) : typed'[i] = typed[i]
    BY <1>0
  <1>2. \A i \in 0 .. Len(typed) : Lines(typed')[i] = Lines(typed)[i] BY <1>0, LinesAppend
  <1>3. \A i \in 1 .. n : Lines(typed')[i - 1] = Lines(typed)[i - 1]
    BY <1>1, <1>2
  <1>4. typed'[n] = "enter" /\ Lines(typed')[n - 1] # <<>>
    BY <1>1, <1>2
  <1>5. Submitted' = {i \in 1 .. n : typed'[i] = "enter" /\ Lines(typed')[i - 1] # <<>>}
    BY <1>1 DEF Submitted
  <1>6. Submitted = {i \in 1 .. Len(typed) : typed[i] = "enter" /\ Lines(typed)[i - 1] # <<>>}
    BY <1>1 DEF Submitted
  <1>7. Submitted' = Submitted \cup {n}
    <2>1. ASSUME NEW i PROVE i \in Submitted' <=> i \in Submitted \/ i = n
      <3>1. CASE i \in 1 .. Len(typed) BY <3>1, <1>1, <1>3, <1>5, <1>6
      <3>2. CASE i = n BY <3>2, <1>1, <1>4, <1>5
      <3>3. CASE i \notin 1 .. n BY <3>3, <1>1, <1>5, <1>6
      <3> QED BY <3>1, <3>2, <3>3, <1>1
    <2> QED BY <2>1
  <1>8. n \notin Submitted /\ \A i \in Submitted : i < n /\ i \in Nat BY <1>1, <1>6
  <1>9. Cardinality(Submitted') = Cardinality(Submitted) + 1
    BY <1>7, <1>8, SubmittedFinite, FS_AddElement
  <1>10. ASSUME NEW i \in Submitted PROVE PlaceOf(i)' = PlaceOf(i)
    <2>1. {j \in Submitted' : j <= i} = {j \in Submitted : j <= i} BY <1>1, <1>7, <1>8
    <2> QED BY <2>1 DEF PlaceOf
  <1>11. ASSUME NEW i, i = n PROVE PlaceOf(i)' = MaxAuth + 1 + Cardinality(Submitted')
    <2>1. {j \in Submitted' : j <= i} = Submitted' BY <1>1, <1>7, <1>8, <1>11
    <2> QED BY <2>1 DEF PlaceOf
  <1> QED BY <1>1, <1>3, <1>5, <1>7, <1>9, <1>10, <1>11

(* cmd_buf follows the line of the peer: what the handler does with a key  *)
(* is what the key means.                                                  *)
LEMMA BufferFollows ==
  ASSUME SshAssumption, SshIInv, LineInBuffer, NEW k \in Keys, Type(k)
  PROVE  LineInBuffer' /\ k # "enter"
  <1>1. /\ cmd \in Seq(Chars) /\ Len(cmd) < CmdSize /\ typed \in Seq(Keys)
        /\ CmdSize \in Nat \ {0} /\ Len(cmd) \in Nat
    BY DEF SshIInv, SshTypeOK, SshAssumption
  <1>2. pc = "shell" /\ pc' = "shell" /\ typed' = Append(typed, k) /\ k # "enter"
    BY DEF Type, SshAssumption
  <1>3. cmd = Lines(typed)[Len(typed)] BY <1>2 DEF LineInBuffer
  <1>4. Len(typed') = Len(typed) + 1 BY <1>1, <1>2
  <1>5. Lines(typed')[Len(typed')] = Edit(cmd, k) BY <1>1, <1>2, <1>3, <1>4, LinesAppend
  <1>6. cmd' = Edit(cmd, k)
    <2>1. CASE k \in Chars /\ cmd' = IF Room(cmd) THEN Append(cmd, k) ELSE cmd
      <3>1. k \notin {"enter", "interrupt"} /\ k # "erase" BY <2>1 DEF SshAssumption
      <3>2. Edit(cmd, k) = SubSeq(Append(cmd, k), 1, Min({Len(cmd) + 1, CmdSize - 1}))
        BY <3>1 DEF Edit
      <3>3. CASE Room(cmd)
        <4>1. Len(cmd) + 1 <= CmdSize - 1 BY <3>3, <1>1 DEF Room
        <4>2. Min({Len(cmd) + 1, CmdSize - 1}) = Len(cmd) + 1 BY <4>1, <1>1, MinOfTwo
        <4>3. SubSeq(Append(cmd, k), 1, Len(cmd) + 1) = Append(cmd, k) BY <1>1, <2>1
        <4> QED BY <2>1, <3>2, <3>3, <4>2, <4>3
      <3>4. CASE ~Room(cmd)
        <4>1. CmdSize - 1 = Len(cmd) BY <3>4, <1>1 DEF Room
        <4>2. Min({Len(cmd) + 1, CmdSize - 1}) = Len(cmd) BY <4>1, <1>1, MinOfTwo
        <4>3. SubSeq(Append(cmd, k), 1, Len(cmd)) = cmd BY <1>1, <2>1
        <4> QED BY <2>1, <3>2, <3>4, <4>2, <4>3
      <3> QED BY <3>3, <3>4
    <2>2. CASE k = "erase" /\ cmd' = IF cmd = <<>> THEN cmd ELSE Front(cmd)
      <3>1. Edit(cmd, k) = SubSeq(cmd, 1, Len(cmd) - 1) BY <2>2 DEF Edit
      <3>2. cmd = <<>> => SubSeq(cmd, 1, Len(cmd) - 1) = <<>> BY <1>1
      <3> QED BY <2>2, <3>1, <3>2 DEF Front
    <2>3. CASE k = "interrupt" /\ cmd' = AfterInterrupt(cmd)
      BY <2>3 DEF Edit, AfterInterrupt
    <2> QED BY <2>1, <2>2, <2>3 DEF Type
  <1> QED BY <1>2, <1>5, <1>6 DEF LineInBuffer, Before

(* A key of the shell other than enter changes no command. *)
LEMMA TypeCommands ==
  ASSUME SshAssumption, CommandIInv, NEW k \in Keys, Type(k)
  PROVE  LineInBuffer' /\ CommandsByPlace'
  <1>1. LineInBuffer' /\ k # "enter" BY BufferFollows DEF CommandIInv
  <1>2. typed \in Seq(Keys) /\ typed' = Append(typed, k) /\ audit' = audit /\ pc' = pc
    BY DEF Type, CommandIInv, SshIInv, SshTypeOK
  <1>3. /\ Submitted' = Submitted
        /\ \A i \in Submitted : Lines(typed')[i - 1] = Lines(typed)[i - 1]
    BY <1>1, <1>2, NotSubmitted
  <1>4. \A i : PlaceOf(i)' = PlaceOf(i) BY <1>3 DEF PlaceOf
  <1> QED BY <1>1, <1>2, <1>3, <1>4 DEF CommandsByPlace, CommandIInv

(* An enter records the line, if there is one. *)
LEMMA EnterCommands ==
  ASSUME SshAssumption, CommandIInv, Enter
  PROVE  LineInBuffer' /\ CommandsByPlace'
  <1>1. /\ typed \in Seq(Keys) /\ typed' = Append(typed, "enter") /\ audit \in Seq(Events)
        /\ cmd \in Seq(Chars) /\ MaxAuth \in Nat
    BY DEF Enter, CommandIInv, SshIInv, SshTypeOK, SshAssumption
  <1>2. /\ pc = "shell" /\ pc' \in {"shell", "closing"}
        /\ pc' = "shell" => cmd' = <<>>
        /\ cmd = Lines(typed)[Len(typed)]
    BY DEF Enter, CommandIInv, LineInBuffer
  <1>3. Lines(typed')[Len(typed')] = <<>>
    <2>1. "enter" \in Keys BY DEF Keys
    <2>2. Len(typed') = Len(typed) + 1 BY <1>1
    <2>3. Edit(cmd, "enter") = <<>> BY DEF Edit
    <2> QED BY <1>1, <1>2, <2>1, <2>2, <2>3, LinesAppend
  <1>4. LineInBuffer' BY <1>2, <1>3 DEF LineInBuffer, Before
  <1>5. Len(audit) = MaxAuth + 1 + Cardinality(Submitted) /\ Cardinality(Submitted) \in Nat
    BY <1>1, <1>2, SubmittedFinite DEF CommandIInv, CommandsByPlace, Inside
  <1>6. CASE cmd = <<>>
    <2>1. audit' = audit BY <1>6 DEF Enter
    <2>2. "enter" \in Keys BY DEF Keys
    <2>3. /\ Submitted' = Submitted
          /\ \A i \in Submitted : Lines(typed')[i - 1] = Lines(typed)[i - 1]
      BY <1>1, <1>2, <1>6, <2>2, NotSubmitted
    <2>4. \A i : PlaceOf(i)' = PlaceOf(i) BY <2>3 DEF PlaceOf
    <2>5. CommandsByPlace' BY <2>1, <2>3, <2>4, <1>2, <1>5 DEF CommandsByPlace, CommandIInv, Inside
    <2> QED BY <1>4, <2>5
  <1>7. CASE cmd # <<>>
    <2> DEFINE e == <<"COMMAND", cmd>>
               m == Len(audit) + 1
    <2>1. audit' = Append(audit, e) /\ e \in Events BY <1>7, <1>1 DEF Enter, Events
    <2>2. e[1] = "COMMAND" OBVIOUS
    <2>3. /\ Submitted' = Submitted \cup {Len(typed) + 1}
          /\ Cardinality(Submitted') = Cardinality(Submitted) + 1
          /\ \A i \in Submitted' : Lines(typed')[i - 1] = Lines(typed)[i - 1]
          /\ \A i \in Submitted : PlaceOf(i)' = PlaceOf(i)
          /\ \A i : i = Len(typed) + 1 => PlaceOf(i)' = MaxAuth + 1 + Cardinality(Submitted')
      BY <1>1, <1>2, <1>7, OneSubmitted
    <2>5. cmd = Lines(typed)[(Len(typed) + 1) - 1] BY <1>1, <1>2
    <2> HIDE DEF e
    <2>4. /\ Len(audit') = m /\ audit'[m] = e /\ DOMAIN audit' = 1 .. m /\ m \in Nat
          /\ DOMAIN audit = 1 .. Len(audit)
          /\ \A n \in 1 .. Len(audit) : audit'[n] = audit[n]
      BY <1>1, <2>1
    <2>6. m = MaxAuth + 1 + Cardinality(Submitted') BY <1>5, <1>1, <2>3
    <2>7. ASSUME NEW n \in DOMAIN audit'
          PROVE  audit'[n][1] = "COMMAND" <=> n \in MaxAuth + 2 .. MaxAuth + 1 + Cardinality(Submitted')
      <3>1. CASE n = m
        <4>1. n \in MaxAuth + 2 .. MaxAuth + 1 + Cardinality(Submitted')
          BY <3>1, <2>3, <2>6, <1>1, <1>5
        <4> QED BY <3>1, <4>1, <2>2, <2>4
      <3>2. CASE n \in 1 .. Len(audit)
        <4>1. audit'[n][1] = "COMMAND" <=> n \in MaxAuth + 2 .. MaxAuth + 1 + Cardinality(Submitted)
          BY <3>2, <2>4 DEF CommandIInv, CommandsByPlace
        <4>2. n <= MaxAuth + 1 + Cardinality(Submitted) BY <3>2, <1>5
        <4> QED BY <4>1, <4>2, <3>2, <2>3, <1>1, <1>5
      <3> QED BY <3>1, <3>2, <2>4, <1>5, <1>1
    <2>8. ASSUME NEW i \in Submitted'
          PROVE  audit'[PlaceOf(i)'] = <<"COMMAND", Lines(typed')[i - 1]>>
      <3>1. CASE i = Len(typed) + 1
        <4>1. PlaceOf(i)' = m BY <3>1, <2>3, <2>6
        <4>2. Lines(typed')[i - 1] = cmd BY <3>1, <2>3, <2>5
        <4> QED BY <4>1, <4>2, <2>4 DEF e
      <3>2. CASE i \in Submitted
        <4>1. PlaceOf(i) \in 1 .. Len(audit)
          <5>1. Cardinality({j \in Submitted : j <= i}) \in 0 .. Cardinality(Submitted)
            BY <1>1, SubmittedFinite
          <5> QED BY <5>1, <1>1, <1>5 DEF PlaceOf
        <4>2. audit[PlaceOf(i)] = <<"COMMAND", Lines(typed)[i - 1]>>
          BY <3>2 DEF CommandIInv, CommandsByPlace
        <4>3. Lines(typed')[i - 1] = Lines(typed)[i - 1] BY <2>3
        <4>4. PlaceOf(i)' = PlaceOf(i) BY <3>2, <2>3
        <4> QED BY <4>1, <4>2, <4>3, <4>4, <2>4
      <3> QED BY <3>1, <3>2, <2>3
    <2>9. /\ pc' \in Inside => Len(audit') = MaxAuth + 1 + Cardinality(Submitted')
          /\ Len(audit') >= MaxAuth + 1 + Cardinality(Submitted') \/ Submitted' = {}
      BY <2>4, <2>6
    <2>10. CommandsByPlace' BY <2>7, <2>8, <2>9 DEF CommandsByPlace
    <2> QED BY <1>4, <2>10
  <1> QED BY <1>6, <1>7

(* An event that is no command, while no key is typed: the commands stay   *)
(* where they are.                                                         *)
LEMMA OtherRecorded ==
  ASSUME SshAssumption, CommandIInv, NEW e \in Events, e[1] # "COMMAND",
         audit' = Append(audit, e), typed' = typed,
         Submitted = {} \/ pc \in Inside,
         pc' \in Inside => pc \notin Inside /\ Len(audit) = MaxAuth,
         Submitted = {} => Len(audit) <= MaxAuth \/ pc \in Inside
  PROVE  CommandsByPlace'
  <1> DEFINE m == Len(audit) + 1
             c == Cardinality(Submitted)
  <1>1. typed \in Seq(Keys) /\ audit \in Seq(Events) /\ MaxAuth \in Nat /\ c \in Nat
    BY SubmittedFinite DEF CommandIInv, SshIInv, SshTypeOK, SshAssumption
  <1>2. Submitted' = Submitted BY DEF Submitted
  <1>3. \A i : PlaceOf(i)' = PlaceOf(i) BY <1>2 DEF PlaceOf
  <1>4. /\ Len(audit') = m /\ audit'[m] = e /\ DOMAIN audit' = 1 .. m /\ m \in Nat
        /\ DOMAIN audit = 1 .. Len(audit) /\ Len(audit) \in Nat
        /\ \A n \in 1 .. Len(audit) : audit'[n] = audit[n]
    BY <1>1
  <1>5. Submitted = {} => c = 0 BY FS_EmptySet
  <1>6. m \notin MaxAuth + 2 .. MaxAuth + 1 + c
    <2>1. CASE pc \in Inside
      <3>1. Len(audit) = MaxAuth + 1 + c BY <2>1 DEF CommandIInv, CommandsByPlace
      <3> QED BY <3>1, <1>1, SMTT(40)
    <2>2. CASE Submitted = {} BY <2>2, <1>1, <1>5
    <2> QED BY <2>1, <2>2
  <1>7. ASSUME NEW n \in DOMAIN audit'
        PROVE  audit'[n][1] = "COMMAND" <=> n \in MaxAuth + 2 .. MaxAuth + 1 + c
    <2>1. CASE n = m BY <2>1, <1>4, <1>6, ZenonT(60)
    <2>2. CASE n \in 1 .. Len(audit) BY <2>2, <1>4 DEF CommandIInv, CommandsByPlace
    <2>3. n \in 1 .. m BY <1>4
    <2>4. n = m \/ n \in 1 .. Len(audit)
      <3>1. Len(audit) \in Nat BY <1>4
      <3> QED BY <2>3, <3>1, SMTT(40)
    <2> QED BY <2>1, <2>2, <2>4
  <1>8. ASSUME NEW i \in Submitted
        PROVE  audit'[PlaceOf(i)] = <<"COMMAND", Lines(typed)[i - 1]>>
    <2>1. PlaceOf(i) \in 1 .. Len(audit)
      <3>1. Cardinality({j \in Submitted : j <= i}) \in 0 .. c BY <1>1, SubmittedFinite
      <3>2. Len(audit) = MaxAuth + 1 + c BY DEF CommandIInv, CommandsByPlace
      <3> QED BY <3>1, <3>2, <1>1 DEF PlaceOf
    <2> QED BY <2>1, <1>4 DEF CommandIInv, CommandsByPlace
  <1>9. pc' \in Inside => Len(audit') = MaxAuth + 1 + c
    <2> SUFFICES ASSUME pc' \in Inside PROVE Len(audit') = MaxAuth + 1 + c
      OBVIOUS
    <2>1. Submitted = {} /\ Len(audit) = MaxAuth OBVIOUS
    <2> QED BY <2>1, <1>1, <1>4, <1>5
  <1>10. Len(audit') >= MaxAuth + 1 + c \/ Submitted' = {}
    <2>1. Len(audit) >= MaxAuth + 1 + c \/ Submitted = {} BY DEF CommandIInv, CommandsByPlace
    <2>2. Len(audit) >= MaxAuth + 1 + c => Len(audit') >= MaxAuth + 1 + c BY <1>1, <1>4
    <2> QED BY <2>1, <2>2, <1>2
  <1> QED BY <1>2, <1>3, <1>7, <1>8, <1>9, <1>10 DEF CommandsByPlace

(* Until the shell begins there is no command. *)
LEMMA NoneSubmitted ==
  ASSUME typed = <<>>
  PROVE  Submitted = {} /\ Cardinality(Submitted) = 0
  <1>1. Submitted = {} BY DEF Submitted
  <1> QED BY <1>1, FS_EmptySet

(* The commands at the start of the session. *)
LEMMA CommandInit == SshAssumption /\ Init => LineInBuffer /\ CommandsByPlace
  <1> SUFFICES ASSUME SshAssumption, Init PROVE LineInBuffer /\ CommandsByPlace
    OBVIOUS
  <1>1. pc = "new" /\ typed = <<>> /\ cmd = <<>> /\ audit = <<<<"CONNECT">>>> BY DEF Init
  <1>2. Submitted = {} /\ Cardinality(Submitted) = 0 BY <1>1, NoneSubmitted
  <1>3. DOMAIN audit = {1} /\ audit[1][1] # "COMMAND" BY <1>1
  <1>4. MaxAuth \in Nat /\ 1 \notin MaxAuth + 2 .. MaxAuth + 1 + 0 BY DEF SshAssumption
  <1>5. LineInBuffer BY <1>1 DEF LineInBuffer
  <1>6. CommandsByPlace BY <1>1, <1>2, <1>3, <1>4 DEF CommandsByPlace, Inside
  <1> QED BY <1>5, <1>6

(* The steps that record nothing and take no key. *)
LEMMA QuietCommands ==
  ASSUME SshAssumption, CommandIInv,
         \/ SessionNew \/ SessionNewFails \/ BindNew \/ BindNewFails \/ AcceptFd
         \/ AcceptFdFails \/ KeyExchange \/ KeyExchangeFails \/ OtherRequest \/ NoMessage \/ GiveUp \/ OpenChannel
         \/ RequestShell \/ ShellEnds \/ Disconnect \/ Ended \/ UNCHANGED vars
  PROVE  LineInBuffer' /\ CommandsByPlace'
  <1> USE DEF SessionNew, SessionNewFails, BindNew, BindNewFails, AcceptFd,
                AcceptFdFails, KeyExchange, KeyExchangeFails, OtherRequest, NoMessage, GiveUp, OpenChannel, RequestShell,
              ShellEnds, Disconnect, Ended, vars
  <1>1. audit' = audit /\ cmd' = cmd /\ typed' = typed OBVIOUS
  <1>2. Submitted' = Submitted BY <1>1 DEF Submitted
  <1>3. \A i : PlaceOf(i)' = PlaceOf(i) BY <1>2 DEF PlaceOf
  <1>4. pc' \in Inside => pc \in Inside BY DEF Inside
  <1>5. CommandsByPlace' BY <1>1, <1>2, <1>3, <1>4 DEF CommandIInv, CommandsByPlace
  <1>6. pc' \in Before \cup {"channel", "nochannel"} => pc \in Before \cup {"channel", "nochannel"}
    BY DEF Before
  <1>7. pc' = "shell" => pc = "shell" \/ pc = "channel" OBVIOUS
  <1>8. pc' = "shell" => cmd' = Lines(typed')[Len(typed')]
    <2>1. CASE pc = "shell" BY <2>1, <1>1 DEF CommandIInv, LineInBuffer
    <2>2. CASE pc = "channel"
      <3>1. typed = <<>> /\ cmd = <<>> BY <2>2 DEF CommandIInv, LineInBuffer
      <3>2. Len(<<>>) = 0 OBVIOUS
      <3> QED BY <3>1, <3>2, <1>1, LinesEmpty
    <2> QED BY <1>7, <2>1, <2>2
  <1>9. LineInBuffer'
    <2>1. pc' \in Before \cup {"channel", "nochannel"} => typed' = <<>> /\ cmd' = <<>>
      BY <1>1, <1>6 DEF CommandIInv, LineInBuffer
    <2> QED BY <2>1, <1>8 DEF LineInBuffer, Before
  <1> QED BY <1>5, <1>9

(* An answered password, before the shell. *)
LEMMA PasswordCommands ==
  ASSUME SshAssumption, CommandIInv, Password
  PROVE  LineInBuffer' /\ CommandsByPlace'
  <1>1. /\ pc = "auth" /\ attempts \in Nat /\ attempts' = attempts + 1
        /\ UNCHANGED <<cmd, typed>> /\ MaxAuth \in Nat \ {0}
    BY DEF Password, CommandIInv, SshIInv, SshTypeOK, SshAssumption
  <1>2. typed = <<>> /\ cmd = <<>> BY <1>1 DEF CommandIInv, LineInBuffer, Before
  <1>3. Submitted = {} BY <1>2, NoneSubmitted
  <1>4. attempts < MaxAuth /\ Len(audit) = attempts + 1
    BY <1>1 DEF CommandIInv, SshIInv, AttemptsByPlace, TrailByAttempts, Before
  <1> DEFINE e == AuthEvent(attempts + 1)
  <1>5. e \in Events /\ audit' = Append(audit, e) BY <1>1 DEF Password, AuthEvent, Events
  <1>6. e[1] # "COMMAND"
    <2>1. attempts + 1 \in Nat BY <1>1
    <2> QED BY <2>1, OtherEvents
  <1> HIDE DEF e
  <1>7. pc' \in Inside => pc \notin Inside /\ Len(audit) = MaxAuth
    <2> SUFFICES ASSUME pc' \in Inside PROVE Len(audit) = MaxAuth
      BY <1>1 DEF Inside
    <2>1. Granted(attempts + 1) BY <1>1 DEF Password, Inside
    <2> QED BY <2>1, <1>1, <1>4 DEF Granted
  <1>8. Len(audit) <= MaxAuth BY <1>1, <1>4
  <1>9. CommandsByPlace' BY <1>1, <1>3, <1>5, <1>6, <1>7, <1>8, OtherRecorded
  <1>10. pc' # "shell" BY DEF Password
  <1> QED BY <1>1, <1>2, <1>9, <1>10 DEF LineInBuffer

(* The end of the session is recorded behind the commands. *)
LEMMA RecordEndCommands ==
  ASSUME SshAssumption, CommandIInv, RecordEnd
  PROVE  LineInBuffer' /\ CommandsByPlace'
  <1> DEFINE e == <<"DISCONNECT">>
  <1>1. /\ pc = "record" /\ pc' = "ended" /\ UNCHANGED <<cmd, typed>>
        /\ audit' = Append(audit, e)
    BY DEF RecordEnd
  <1>2. e \in Events /\ e[1] # "COMMAND" BY DEF Events
  <1> HIDE DEF e
  <1>3. pc \in Inside /\ pc' \notin Inside BY <1>1 DEF Inside
  <1>4. CommandsByPlace' BY <1>1, <1>2, <1>3, OtherRecorded
  <1> QED BY <1>1, <1>4 DEF LineInBuffer, Before

(* Every command that a peer types in the shell of ssh_honeypot.c is in    *)
(* the trail, as it was edited with erase and ^C and cut at the size of    *)
(* cmd_buf, in order and directly behind the success; nothing else is      *)
(* recorded as a command, and the buffer keeps the byte of its NUL.  For   *)
(* every sequence of keys and every size of the buffer.                    *)
THEOREM SshCommandsCorrect == Spec => []CommandsRecorded
  <1> USE SshAssumption
  <1>1. Init => CommandIInv BY SshInit, CommandInit DEF CommandIInv
  <1>2. CommandIInv /\ SshIInv' /\ [Next]_vars => CommandIInv'
    <2> SUFFICES ASSUME CommandIInv, SshIInv', [Next]_vars PROVE LineInBuffer' /\ CommandsByPlace'
      BY DEF CommandIInv
    <2>1. CASE Password BY <2>1, PasswordCommands
    <2>2. ASSUME NEW k \in Keys, Type(k) PROVE LineInBuffer' /\ CommandsByPlace'
      BY <2>2, TypeCommands
    <2>3. CASE Enter BY <2>3, EnterCommands
    <2>4. CASE RecordEnd BY <2>4, RecordEndCommands
    <2>5. CASE \/ SessionNew \/ SessionNewFails \/ BindNew \/ BindNewFails \/ AcceptFd
         \/ AcceptFdFails \/ KeyExchange \/ KeyExchangeFails \/ OtherRequest \/ NoMessage \/ GiveUp \/ OpenChannel
               \/ RequestShell \/ ShellEnds \/ Disconnect \/ Ended \/ UNCHANGED vars
      BY <2>5, QuietCommands
    <2> QED BY <2>1, <2>2, <2>3, <2>4, <2>5 DEF Next
  <1>3. CommandIInv => CommandsRecorded
    <2> SUFFICES ASSUME CommandIInv PROVE CommandsRecorded
      OBVIOUS
    <2> DEFINE c == Cardinality(Submitted)
               C == MaxAuth + 2 .. MaxAuth + 1 + c
    <2>1. /\ typed \in Seq(Keys) /\ audit \in Seq(Events) /\ MaxAuth \in Nat /\ c \in Nat
          /\ Len(cmd) < CmdSize
      BY SubmittedFinite DEF CommandIInv, SshIInv, SshTypeOK, SshAssumption
    <2>2. DOMAIN audit = 1 .. Len(audit) /\ Len(audit) \in Nat BY <2>1
    <2>3. C \subseteq DOMAIN audit
      <3>1. CASE Submitted = {}
        <4>1. c = 0 BY <3>1, FS_EmptySet
        <4> QED BY <4>1, <2>1
      <3>2. CASE Len(audit) >= MaxAuth + 1 + c BY <3>2, <2>1, <2>2
      <3> QED BY <3>1, <3>2 DEF CommandIInv, CommandsByPlace
    <2>4. {n \in DOMAIN audit : audit[n][1] = "COMMAND"} = C
      BY <2>3 DEF CommandIInv, CommandsByPlace
    <2> QED BY <2>1, <2>4 DEF CommandIInv, CommandsByPlace, CommandsRecorded
  <1> QED BY <1>1, <1>2, <1>3, SshInvariance, PTL DEF Spec
=============================================================================
