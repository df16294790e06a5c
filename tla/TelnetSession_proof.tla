------------------------ MODULE TelnetSession_proof ------------------------
(***************************************************************************)
(* Proofs about a session of the Telnet service.  The trail is read by     *)
(* place: 1 is the connection, 2 .. attempts + 1 are the pairs taken, then *)
(* come commands, and the disconnection is last, in a closed session only. *)
(* The filter for commands is read from the end of the bytes: what it      *)
(* writes from the first byte of an item on is the text from that item on. *)
(***************************************************************************)
EXTENDS TelnetSession, SequenceTheorems, WellFoundedInduction, TLAPS

Kinds == {"CONNECT", "AUTH_FAILURE", "COMMAND", "DISCONNECT"}

(* The types of the state that the dialogue goes by; what is in a line     *)
(* does not matter to it.                                                  *)
TelTypeOK ==
  /\ pc \in {"username", "password", "shell", "end", "closed"}
  /\ attempts \in Nat
  /\ echoOff \in BOOLEAN
  /\ fdOpen \in BOOLEAN
  /\ audit \in Seq(Kinds)

(* How many pairs were taken, by the place the handler has reached. *)
PairsByPlace ==
  /\ attempts <= MaxAuth
  /\ pc \in {"username", "password"} => attempts < MaxAuth
  /\ pc = "shell" => attempts = MaxAuth

(* What each event of a trail s is after n attempts, in a session that is  *)
(* over or not.                                                            *)
ReadByPlace(s, n, over) ==
  /\ Len(s) > n
  /\ n < MaxAuth /\ ~over => Len(s) = n + 1
  /\ \A i \in 1 .. Len(s) :
       /\ s[i] = "CONNECT" <=> i = 1
       /\ s[i] = "AUTH_FAILURE" <=> i \in 2 .. n + 1
       /\ s[i] = "COMMAND" => n = MaxAuth
       /\ s[i] = "DISCONNECT" <=> over /\ i = Len(s)

TelIInv ==
  /\ TelTypeOK
  /\ PairsByPlace
  /\ ReadByPlace(audit, attempts, pc = "closed")
  /\ echoOff <=> pc = "password"
----------------------------------------------------------------------------
(* One more event at the end of a trail. *)
LEMMA OneMore ==
  ASSUME NEW s \in Seq(Kinds), NEW e \in Kinds
  PROVE  /\ Append(s, e) \in Seq(Kinds)
         /\ Len(Append(s, e)) = Len(s) + 1 /\ Len(s) \in Nat
         /\ Append(s, e)[Len(s) + 1] = e
         /\ \A i \in 1 .. Len(s) : Append(s, e)[i] = s[i]
  OBVIOUS

(* The event of an attempt, of a command and of the end. *)
LEMMA RecordPair ==
  ASSUME TelnetAssumption, NEW s \in Seq(Kinds), NEW n \in Nat, n < MaxAuth,
         ReadByPlace(s, n, FALSE)
  PROVE  ReadByPlace(Append(s, "AUTH_FAILURE"), n + 1, FALSE)
  <1> DEFINE t == Append(s, "AUTH_FAILURE")
  <1>1. "AUTH_FAILURE" \in Kinds BY DEF Kinds
  <1>2. /\ Len(t) = Len(s) + 1 /\ Len(s) \in Nat /\ t[Len(s) + 1] = "AUTH_FAILURE"
        /\ \A i \in 1 .. Len(s) : t[i] = s[i]
    BY <1>1, OneMore
  <1>3. Len(s) = n + 1 BY DEF ReadByPlace
  <1> HIDE DEF t
  <1>4. ASSUME NEW i \in 1 .. Len(t)
        PROVE  /\ t[i] = "CONNECT" <=> i = 1
               /\ t[i] = "AUTH_FAILURE" <=> i \in 2 .. (n + 1) + 1
               /\ t[i] = "COMMAND" => n + 1 = MaxAuth
               /\ t[i] # "DISCONNECT"
    <2>1. CASE i = n + 2 BY <2>1, <1>2, <1>3
    <2>2. CASE i \in 1 .. n + 1
      <3>1. t[i] = s[i] /\ i \in 1 .. Len(s) BY <2>2, <1>2, <1>3
      <3>2. /\ s[i] = "CONNECT" <=> i = 1
            /\ s[i] = "AUTH_FAILURE" <=> i \in 2 .. n + 1
            /\ s[i] = "COMMAND" => n = MaxAuth
            /\ s[i] # "DISCONNECT"
        BY <3>1 DEF ReadByPlace
      <3> QED BY <3>1, <3>2, <2>2 DEF TelnetAssumption
    <2> QED BY <2>1, <2>2, <1>2, <1>3
  <1>5. Len(t) = (n + 1) + 1 BY <1>2, <1>3
  <1> QED BY <1>4, <1>5 DEF ReadByPlace, t

(* A command after the last pair keeps the order of the trail. *)
LEMMA RecordCommand ==
  ASSUME TelnetAssumption, NEW s \in Seq(Kinds), ReadByPlace(s, MaxAuth, FALSE)
  PROVE  ReadByPlace(Append(s, "COMMAND"), MaxAuth, FALSE)
  <1> DEFINE t == Append(s, "COMMAND")
  <1>1. "COMMAND" \in Kinds BY DEF Kinds
  <1>2. /\ Len(t) = Len(s) + 1 /\ Len(s) \in Nat /\ t[Len(s) + 1] = "COMMAND"
        /\ \A i \in 1 .. Len(s) : t[i] = s[i]
    BY <1>1, OneMore
  <1>3. MaxAuth \in Nat /\ Len(s) > MaxAuth /\ MaxAuth > 0
    BY DEF ReadByPlace, TelnetAssumption
  <1> HIDE DEF t
  <1>4. ASSUME NEW i \in 1 .. Len(t)
        PROVE  /\ t[i] = "CONNECT" <=> i = 1
               /\ t[i] = "AUTH_FAILURE" <=> i \in 2 .. MaxAuth + 1
               /\ t[i] # "DISCONNECT"
    <2>1. CASE i = Len(s) + 1 BY <2>1, <1>2, <1>3
    <2>2. CASE i \in 1 .. Len(s) BY <2>2, <1>2 DEF ReadByPlace
    <2> QED BY <2>1, <2>2, <1>2
  <1> QED BY <1>2, <1>3, <1>4 DEF ReadByPlace, t

(* The disconnection completes the trail. *)
LEMMA RecordEnd ==
  ASSUME TelnetAssumption, NEW s \in Seq(Kinds), NEW n \in Nat, ReadByPlace(s, n, FALSE)
  PROVE  ReadByPlace(Append(s, "DISCONNECT"), n, TRUE)
  <1> DEFINE t == Append(s, "DISCONNECT")
  <1>1. "DISCONNECT" \in Kinds BY DEF Kinds
  <1>2. /\ Len(t) = Len(s) + 1 /\ Len(s) \in Nat /\ t[Len(s) + 1] = "DISCONNECT"
        /\ \A i \in 1 .. Len(s) : t[i] = s[i]
    BY <1>1, OneMore
  <1>3. Len(s) > n BY DEF ReadByPlace
  <1> HIDE DEF t
  <1>4. ASSUME NEW i \in 1 .. Len(t)
        PROVE  /\ t[i] = "CONNECT" <=> i = 1
               /\ t[i] = "AUTH_FAILURE" <=> i \in 2 .. n + 1
               /\ t[i] = "COMMAND" => n = MaxAuth
               /\ t[i] = "DISCONNECT" <=> i = Len(t)
    <2>1. CASE i = Len(s) + 1 BY <2>1, <1>2, <1>3
    <2>2. CASE i \in 1 .. Len(s)
      <3>1. t[i] = s[i] /\ i # Len(t) BY <2>2, <1>2
      <3>2. /\ s[i] = "CONNECT" <=> i = 1
            /\ s[i] = "AUTH_FAILURE" <=> i \in 2 .. n + 1
            /\ s[i] = "COMMAND" => n = MaxAuth
            /\ s[i] # "DISCONNECT"
        BY <2>2 DEF ReadByPlace
      <3> QED BY <3>1, <3>2
    <2> QED BY <2>1, <2>2, <1>2
  <1> QED BY <1>2, <1>3, <1>4 DEF ReadByPlace, t
----------------------------------------------------------------------------
(* TelIInv holds at the start. *)
LEMMA TelInit == TelnetAssumption /\ Init => TelIInv
  <1> SUFFICES ASSUME TelnetAssumption, Init PROVE TelIInv
    OBVIOUS
  <1>1. audit \in Seq(Kinds) /\ Len(audit) = 1 /\ audit[1] = "CONNECT"
    BY DEF Init, Kinds
  <1>2. TelTypeOK /\ PairsByPlace /\ (echoOff <=> pc = "password")
    <2>1. pc = "username" /\ attempts = 0 /\ echoOff = FALSE /\ fdOpen = TRUE BY DEF Init
    <2>2. TelTypeOK BY <1>1, <2>1 DEF TelTypeOK
    <2>3. PairsByPlace BY <2>1 DEF PairsByPlace, TelnetAssumption
    <2> QED BY <2>1, <2>2, <2>3
  <1>3. ReadByPlace(audit, attempts, pc = "closed")
    <2>1. pc # "closed" /\ attempts = 0 BY DEF Init
    <2>2. ReadByPlace(audit, 0, FALSE)
      <3>1. \A i \in 1 .. Len(audit) : i = 1 /\ audit[i] = "CONNECT" BY <1>1
      <3> QED BY <1>1, <3>1 DEF ReadByPlace
    <2> QED BY <2>1, <2>2 DEF ReadByPlace
  <1> QED BY <1>2, <1>3 DEF TelIInv

(* Each step keeps TelIInv. *)
LEMMA TelStep ==
  ASSUME TelnetAssumption, TelIInv, [Next]_vars
  PROVE  TelIInv'
  <1> USE DEF TelIInv
  <1>1. ASSUME NEW seg \in Segments(read.left), ReadUser(seg) PROVE TelIInv'
    <2>1. UNCHANGED <<attempts, audit, fdOpen>> /\ pc = "username" /\ pc' = "password" /\ echoOff' = TRUE
      BY <1>1 DEF ReadUser
    <2>2. TelTypeOK' /\ PairsByPlace' BY <2>1 DEF TelTypeOK, PairsByPlace
    <2>3. ReadByPlace(audit, attempts, pc = "closed")' BY <2>1 DEF ReadByPlace
    <2> QED BY <2>1, <2>2, <2>3
  <1>2. ASSUME NEW seg \in Segments(read.left), ReadPassword(seg) PROVE TelIInv'
    <2>1. /\ pc = "password" /\ echoOff' = FALSE /\ fdOpen' = fdOpen /\ attempts' = attempts + 1
          /\ audit' = Append(audit, "AUTH_FAILURE")
          /\ pc' = IF attempts' >= MaxAuth THEN "shell" ELSE "username"
      BY <1>2 DEF ReadPassword, EchoAfterPassword, NextAttempt
    <2>2. attempts \in Nat /\ attempts < MaxAuth /\ MaxAuth \in Nat /\ audit \in Seq(Kinds)
      BY <2>1 DEF TelTypeOK, PairsByPlace, TelnetAssumption
    <2>3. ReadByPlace(audit, attempts, FALSE)
      <3>1. (pc = "closed") = FALSE BY <2>1
      <3> QED BY <3>1
    <2>4. ReadByPlace(audit', attempts', FALSE) BY <2>1, <2>2, <2>3, RecordPair
    <2>5. (attempts' = MaxAuth /\ pc' = "shell") \/ (attempts' < MaxAuth /\ pc' = "username")
      BY <2>1, <2>2
    <2>6. PairsByPlace' BY <2>1, <2>2, <2>5 DEF PairsByPlace
    <2>7. audit' \in Seq(Kinds) BY <2>1, <2>2, OneMore DEF Kinds
    <2>8. TelTypeOK'
      <3>1. attempts' \in Nat /\ pc' \in {"shell", "username"} BY <2>1, <2>2, <2>5
      <3>2. echoOff' \in BOOLEAN /\ fdOpen' \in BOOLEAN BY <2>1 DEF TelTypeOK
      <3> QED BY <3>1, <3>2, <2>7 DEF TelTypeOK
    <2>9. ReadByPlace(audit, attempts, pc = "closed")'
      <3>1. (pc = "closed")' = FALSE BY <2>5
      <3> QED BY <2>4, <3>1 DEF ReadByPlace
    <2> QED BY <2>1, <2>5, <2>6, <2>8, <2>9
  <1>3. ASSUME NEW seg \in Segments(read.left), ReadCommand(seg) PROVE TelIInv'
    <2>1. /\ pc = "shell" /\ UNCHANGED <<attempts, echoOff, fdOpen>> /\ pc' \in {"end", "shell"}
          /\ audit' = audit \o CommandEvent(line')
      BY <1>3 DEF ReadCommand
    <2>2. attempts = MaxAuth /\ MaxAuth \in Nat /\ audit \in Seq(Kinds)
      BY <2>1 DEF TelTypeOK, PairsByPlace, TelnetAssumption
    <2>3. ReadByPlace(audit, MaxAuth, FALSE) BY <2>1, <2>2 DEF ReadByPlace
    <2>4. audit' = audit \/ audit' = Append(audit, "COMMAND")
      BY <2>1, <2>2 DEF CommandEvent
    <2>5. ReadByPlace(audit', MaxAuth, FALSE) /\ audit' \in Seq(Kinds)
      BY <2>2, <2>3, <2>4, RecordCommand, OneMore DEF Kinds
    <2>6. ReadByPlace(audit, attempts, pc = "closed")' BY <2>1, <2>2, <2>5 DEF ReadByPlace
    <2>7. PairsByPlace' BY <2>1, <2>2 DEF PairsByPlace
    <2>8. TelTypeOK' BY <2>1, <2>5 DEF TelTypeOK
    <2>9. (echoOff <=> pc = "password")' BY <2>1
    <2> QED BY <2>6, <2>7, <2>8, <2>9
  <1>4. CASE PeerGone
    <2>1. /\ pc # "closed" /\ pc' = "end" /\ UNCHANGED <<attempts, audit, fdOpen>>
          /\ echoOff' = IF pc = "password" THEN FALSE ELSE echoOff
      BY <1>4 DEF PeerGone, EchoAfterPassword
    <2>2. ReadByPlace(audit, attempts, pc = "closed")' BY <2>1 DEF ReadByPlace
    <2>3. echoOff' = FALSE BY <2>1 DEF TelTypeOK
    <2>4. TelTypeOK' BY <2>1, <2>3 DEF TelTypeOK
    <2>5. PairsByPlace' BY <2>1 DEF PairsByPlace
    <2> QED BY <2>1, <2>2, <2>3, <2>4, <2>5
  <1>5. CASE EndSession
    <2>1. /\ pc = "end" /\ pc' = "closed" /\ fdOpen' = FALSE /\ UNCHANGED <<attempts, echoOff>>
          /\ audit' = Append(audit, "DISCONNECT")
      BY <1>5 DEF EndSession
    <2>2. audit \in Seq(Kinds) /\ attempts \in Nat BY DEF TelTypeOK
    <2>3. ReadByPlace(audit, attempts, FALSE) BY <2>1 DEF ReadByPlace
    <2>4. ReadByPlace(audit', attempts', TRUE) BY <2>1, <2>2, <2>3, RecordEnd
    <2>5. ReadByPlace(audit, attempts, pc = "closed")' BY <2>1, <2>4 DEF ReadByPlace
    <2>6. audit' \in Seq(Kinds) BY <2>1, <2>2, OneMore DEF Kinds
    <2>7. TelTypeOK' BY <2>1, <2>6 DEF TelTypeOK
    <2>8. PairsByPlace' BY <2>1 DEF PairsByPlace
    <2> QED BY <2>1, <2>5, <2>7, <2>8
  <1>6. CASE Closed \/ UNCHANGED vars
    <2>1. UNCHANGED vars BY <1>6 DEF Closed
    <2>2. UNCHANGED <<pc, attempts, echoOff, audit, fdOpen>> BY <2>1 DEF vars
    <2>3. TelTypeOK' /\ PairsByPlace' /\ (echoOff <=> pc = "password")'
      BY <2>2 DEF TelTypeOK, PairsByPlace
    <2>4. ReadByPlace(audit, attempts, pc = "closed")' BY <2>2 DEF ReadByPlace
    <2> QED BY <2>3, <2>4
  <1> QED BY <1>1, <1>2, <1>3, <1>4, <1>5, <1>6 DEF Next

(* What a session of telnet_honeypot.c keeps true at every step of its     *)
(* handler, for every limit on attempts, whatever the peer sends.          *)
THEOREM TelnetInvariance == Spec => []TelIInv
  <1> USE TelnetAssumption
  <1>1. Init => TelIInv BY TelInit
  <1>2. TelIInv /\ [Next]_vars => TelIInv' BY TelStep
  <1> QED BY <1>1, <1>2, PTL DEF Spec

(* The Telnet dialogue stays in step with its trail: each pair taken is a  *)
(* failure in the trail and at most MaxAuth are taken, commands come only  *)
(* behind them, the disconnection is last, and the peer's echo is off      *)
(* exactly while its password is awaited.                                  *)
THEOREM TelnetInStep == Spec => []DialogueInStep
  <1> USE TelnetAssumption
  <1>1. TelIInv => DialogueInStep
    <2> SUFFICES ASSUME TelIInv PROVE DialogueInStep
      OBVIOUS
    <2>1. /\ audit \in Seq(Kinds) /\ attempts \in Nat
          /\ DOMAIN audit = 1 .. Len(audit) /\ Len(audit) \in Nat /\ Len(audit) > attempts
      BY DEF TelIInv, TelTypeOK, ReadByPlace
    <2>2. \A i \in DOMAIN audit :
            /\ audit[i] = "CONNECT" <=> i = 1
            /\ audit[i] = "AUTH_FAILURE" <=> i \in 2 .. attempts + 1
            /\ audit[i] = "COMMAND" => attempts = MaxAuth
            /\ audit[i] = "DISCONNECT" <=> pc = "closed" /\ i = Len(audit)
      BY <2>1 DEF TelIInv, ReadByPlace
    <2>3. \A i \in DOMAIN audit : audit[i] \in Kinds BY <2>1
    <2>4. OfKind("CONNECT") = {1} BY <2>1, <2>2 DEF OfKind
    <2>5. OfKind("AUTH_FAILURE") = 2 .. attempts + 1
      <3>1. OfKind("AUTH_FAILURE") = {i \in 1 .. Len(audit) : i \in 2 .. attempts + 1}
        BY <2>1, <2>2 DEF OfKind
      <3>2. {i \in 1 .. Len(audit) : i \in 2 .. attempts + 1} = 2 .. attempts + 1
        BY <2>1
      <3> QED BY <3>1, <3>2
    <2>6. OfKind("COMMAND")
            = DOMAIN audit \ UNION {OfKind(e) : e \in {"CONNECT", "AUTH_FAILURE", "DISCONNECT"}}
      BY <2>3 DEF OfKind, Kinds
    <2>8. OfKind("DISCONNECT") = IF pc = "closed" THEN {Len(audit)} ELSE {}
      BY <2>1, <2>2 DEF OfKind
    <2>9. attempts <= MaxAuth /\ (echoOff <=> pc = "password")
      BY DEF TelIInv, PairsByPlace
    <2> QED BY <2>4, <2>5, <2>6, <2>8, <2>9 DEF DialogueInStep
  <1> QED BY <1>1, TelnetInvariance, PTL
----------------------------------------------------------------------------
(***************************************************************************)
(* The filter.  First numbers and sequences.                               *)
(***************************************************************************)
LEMMA MinOfNat ==
  ASSUME NEW S, S \subseteq Nat, S # {}
  PROVE  Min(S) \in S /\ \A y \in S : Min(S) <= y
  <1> DEFINE R == OpToRel(<, Nat)
  <1>1. \A x, y \in Nat : x < y => <<x, y>> \in R BY DEF OpToRel
  <1>2. IsWellFoundedOn(R, Nat) BY NatLessThanWellFounded
  <1> HIDE DEF R
  <1>3. PICK x \in S : \A y \in S : ~(<<y, x>> \in R) BY <1>2, WFMin
  <1>4. ASSUME NEW y \in S PROVE x <= y
    <2>1. x \in Nat /\ y \in Nat /\ ~(<<y, x>> \in R) BY <1>3
    <2>2. ~(y < x) BY <1>1, <2>1
    <2> QED BY <2>1, <2>2
  <1> QED BY <1>3, <1>4 DEF Min

(* The greatest element of a bounded set of numbers. *)
LEMMA MaxUpTo ==
  ASSUME NEW n \in Nat, NEW S, S \subseteq 1 .. n, S # {}
  PROVE  Max(S) \in S /\ \A y \in S : y <= Max(S)
  <1> DEFINE T == {n - x : x \in S}
  <1>1. T \subseteq Nat /\ T # {}
    <2>1. \A x \in S : n - x \in Nat OBVIOUS
    <2>2. PICK x \in S : TRUE OBVIOUS
    <2>3. n - x \in T BY <2>2
    <2> QED BY <2>1, <2>3
  <1>2. Min(T) \in T /\ \A y \in T : Min(T) <= y BY <1>1, MinOfNat
  <1>3. PICK x \in S : n - x = Min(T) BY <1>2
  <1>4. ASSUME NEW y \in S PROVE x >= y
    <2>1. n - y \in T OBVIOUS
    <2>2. n - x <= n - y BY <1>2, <1>3, <2>1
    <2>3. x \in Nat /\ y \in Nat OBVIOUS
    <2> QED BY <2>2, <2>3
  <1>5. Max(S) \in S /\ \A y \in S : Max(S) >= y BY <1>3, <1>4 DEF Max
  <1>6. \A y \in S : y \in Nat OBVIOUS
  <1>7. Max(S) \in Nat BY <1>5, <1>6
  <1> QED BY <1>5, <1>6, <1>7

(* Induction over the naturals, for the set of numbers with a property. *)
LEMMA InductionBySet ==
  ASSUME NEW S, S \subseteq Nat, 0 \in S, \A n \in S : n + 1 \in S
  PROVE  S = Nat
  <1> SUFFICES ASSUME Nat \ S # {} PROVE FALSE
    OBVIOUS
  <1> DEFINE m == Min(Nat \ S)
  <1>1. m \in Nat \ S /\ \A y \in Nat \ S : m <= y BY MinOfNat
  <1> HIDE DEF m
  <1>2. m # 0 BY <1>1
  <1>3. m - 1 \in Nat /\ m - 1 < m BY <1>1, <1>2
  <1>4. m - 1 \in S BY <1>1, <1>3
  <1>5. (m - 1) + 1 = m BY <1>1
  <1> QED BY <1>1, <1>4, <1>5

(* A loop over places that writes something at each and goes on further    *)
(* ahead, as a function of the place.                                      *)
IsLoop(n, stop, out, nxt, f) ==
  f = [i \in 1 .. n |-> IF i \in stop THEN <<>> ELSE out[i] \o f[nxt[i]]]

(* Such a loop is defined everywhere. *)
LEMMA LoopExists ==
  ASSUME NEW n \in Nat, NEW stop, NEW out, NEW nxt,
         \A i \in 1 .. n : i \in stop \/ (nxt[i] \in 1 .. n /\ nxt[i] > i)
  PROVE  \E f : IsLoop(n, stop, out, nxt, f)
  <1> DEFINE D == 1 .. n
             Step(f, i) == IF i \in stop THEN <<>> ELSE out[i] \o f[nxt[i]]
             Done(f, k) == \A i \in D : i > n - k => f[i] = Step(f, i)
             S == {k \in Nat : \E f : f = [i \in D |-> f[i]] /\ Done(f, k)}
  <1>1. 0 \in S
    <2> DEFINE f == [i \in D |-> 0]
    <2>1. f = [i \in D |-> f[i]] OBVIOUS
    <2>2. \A i \in D : ~(i > n - 0) OBVIOUS
    <2>3. Done(f, 0) BY <2>2
    <2> HIDE DEF f
    <2> QED BY <2>1, <2>3
  <1>2. ASSUME NEW k \in S PROVE k + 1 \in S
    <2>1. PICK f : f = [i \in D |-> f[i]] /\ Done(f, k) OBVIOUS
    <2> DEFINE g == [i \in D |-> IF i = n - k THEN Step(f, i) ELSE f[i]]
    <2>2. g = [i \in D |-> g[i]] OBVIOUS
    <2>3. k \in Nat OBVIOUS
    <2>4. ASSUME NEW i \in D, i > n - (k + 1) PROVE g[i] = Step(g, i)
      <3>1. \A q \in D : q > i => f[q] = g[q] BY <2>3, <2>4
      <3>2. Step(f, i) = Step(g, i)
        <4> HIDE DEF g
        <4>1. CASE i \in stop BY <4>1
        <4>2. CASE nxt[i] \in 1 .. n /\ nxt[i] > i
          <5>1. f[nxt[i]] = g[nxt[i]] BY <4>2, <3>1
          <5> QED BY <5>1
        <4> QED BY <4>1, <4>2
      <3>3. CASE i = n - k
        <4>1. g[i] = Step(f, i) BY <3>3
        <4> HIDE DEF g
        <4> QED BY <3>2, <4>1
      <3>4. CASE i # n - k
        <4>1. i > n - k BY <2>3, <2>4, <3>4
        <4>2. f[i] = Step(f, i) BY <2>1, <4>1
        <4>3. g[i] = f[i] BY <3>4
        <4> HIDE DEF g
        <4> QED BY <3>2, <4>2, <4>3
      <3> QED BY <3>3, <3>4
    <2>5. Done(g, k + 1) BY <2>4
    <2> HIDE DEF g
    <2>6. k + 1 \in Nat BY <2>3
    <2> QED BY <2>2, <2>5, <2>6
  <1>3. S = Nat
    <2>1. S \subseteq Nat OBVIOUS
    <2> HIDE DEF S
    <2> QED BY <1>1, <1>2, <2>1, InductionBySet
  <1>4. n \in S BY <1>3
  <1>5. PICK f : f = [i \in D |-> f[i]] /\ Done(f, n) BY <1>4
  <1>6. \A i \in D : i > n - n OBVIOUS
  <1>7. \A i \in D : f[i] = Step(f, i) BY <1>5, <1>6
  <1>8. f = [i \in D |-> Step(f, i)] BY <1>5, <1>7
  <1> QED BY <1>8 DEF IsLoop

(* The parts from each place on. *)
IsJoin(parts, f) ==
  \A i \in 1 .. Len(parts) + 1 : f[i] = IF i > Len(parts) THEN <<>> ELSE parts[i] \o f[i + 1]

(* Joined is the first value of such a function. *)
LEMMA JoinedIs ==
  ASSUME NEW parts, Len(parts) \in Nat
  PROVE  \E f : Joined(parts) = f[1] /\ IsJoin(parts, f)
  <1> DEFINE n == Len(parts) + 1
             stop == {i \in 1 .. n : i > Len(parts)}
             nxt == [i \in 1 .. n |-> i + 1]
             F(f) == [i \in 1 .. n |-> IF i \in stop THEN <<>> ELSE parts[i] \o f[nxt[i]]]
             G(f) == [i \in 1 .. n |-> IF i > Len(parts) THEN <<>> ELSE parts[i] \o f[i + 1]]
  <1>1. n \in Nat OBVIOUS
  <1>2. \A i \in 1 .. n : i \in stop \/ (nxt[i] \in 1 .. n /\ nxt[i] > i) OBVIOUS
  <1>3. \E f : IsLoop(n, stop, parts, nxt, f)
    <2> HIDE DEF n, stop, nxt
    <2> QED BY <1>1, <1>2, LoopExists
  <1>4. PICK g : g = F(g) BY <1>3 DEF IsLoop
  <1>5. \A f : F(f) = G(f) OBVIOUS
  <1>6. Joined(parts) = (CHOOSE f : f = G(f))[1] BY DEF Joined
  <1> DEFINE h == CHOOSE f : f = G(f)
  <1>7. h = G(h)
    <2>1. g = G(g) BY <1>4, <1>5
    <2> QED BY <2>1
  <1>8. Joined(parts) = h[1] BY <1>6
  <1> HIDE DEF h
  <1>9. \A i \in 1 .. Len(parts) + 1 : h[i] = IF i > Len(parts) THEN <<>> ELSE parts[i] \o h[i + 1]
    BY <1>7
  <1>10. IsJoin(parts, h) BY <1>9 DEF IsJoin
  <1> QED BY <1>8, <1>10

(* What is where in a concatenation. *)
LEMMA ConcatIs ==
  ASSUME NEW S, NEW s \in Seq(S), NEW t \in Seq(S)
  PROVE  /\ s \o t \in Seq(S) /\ Len(s \o t) = Len(s) + Len(t)
         /\ Len(s) \in Nat /\ Len(t) \in Nat
         /\ \A i \in 1 .. Len(s) : (s \o t)[i] = s[i]
         /\ \A i \in 1 .. Len(t) : (s \o t)[Len(s) + i] = t[i]
  OBVIOUS

(* The first part of a sequence. *)
LEMMA FirstPart ==
  ASSUME NEW S, NEW s \in Seq(S), NEW m \in Nat, m <= Len(s)
  PROVE  /\ SubSeq(s, 1, m) \in Seq(S) /\ Len(SubSeq(s, 1, m)) = m
         /\ \A i \in 1 .. m : SubSeq(s, 1, m)[i] = s[i]
  <1>1. CASE m = 0 BY <1>1
  <1>2. CASE m # 0
    <2>1. 1 \in 1 .. Len(s) + 1 /\ m \in 1 - 1 .. Len(s) BY <1>2
    <2>2. \A i \in 1 .. m : i \in 1 .. m - 1 + 1 /\ 1 + i - 1 = i OBVIOUS
    <2> QED BY <2>1, <2>2, <1>2, SubSeqProperties
  <1> QED BY <1>1, <1>2

(* The first bytes of a sequence, one by one. *)
LEMMA FirstFew ==
  ASSUME NEW S, NEW s \in Seq(S)
  PROVE  /\ Len(s) >= 1 => SubSeq(s, 1, 1) = <<s[1]>>
         /\ Len(s) >= 2 => SubSeq(s, 1, 2) = <<s[1], s[2]>>
         /\ Len(s) >= 3 => SubSeq(s, 1, 3) = <<s[1], s[2], s[3]>>
         /\ Len(s) >= 4 => SubSeq(s, 1, 4) = <<s[1], s[2], s[3], s[4]>>
  <1>1. ASSUME NEW q \in Seq(S)
        PROVE  /\ Len(q) = 1 => q = <<q[1]>>
               /\ Len(q) = 2 => q = <<q[1], q[2]>>
               /\ Len(q) = 3 => q = <<q[1], q[2], q[3]>>
               /\ Len(q) = 4 => q = <<q[1], q[2], q[3], q[4]>>
    <2>1. ASSUME Len(q) = 1 PROVE q = <<q[1]>>
      <3>1. q[1] \in S
        BY <2>1
      <3> DEFINE r == <<q[1]>>
      <3>2. r \in Seq(S) /\ Len(r) = 1 /\ r[1] = q[1] BY <3>1
      <3> HIDE DEF r
      <3>3. \A i \in 1 .. Len(q) : q[i] = r[i] BY <2>1, <3>2
      <3>4. q = r BY <2>1, <3>2, <3>3, SeqEqual
      <3> QED BY <3>4 DEF r
    <2>2. ASSUME Len(q) = 2 PROVE q = <<q[1], q[2]>>
      <3>5. \A i \in 1 .. Len(q) : q[i] \in S OBVIOUS
      <3>0. 1 \in 1 .. Len(q) /\ 2 \in 1 .. Len(q) BY <2>2
      <3>1. q[1] \in S /\ q[2] \in S
        BY <3>0, <3>5
      <3> DEFINE r == <<q[1], q[2]>>
      <3>2. r \in Seq(S) /\ Len(r) = 2 /\ r[1] = q[1] /\ r[2] = q[2] BY <3>1
      <3> HIDE DEF r
      <3>3. \A i \in 1 .. Len(q) : q[i] = r[i] BY <2>2, <3>2
      <3>4. q = r BY <2>2, <3>2, <3>3, SeqEqual
      <3> QED BY <3>4 DEF r
    <2>3. ASSUME Len(q) = 3 PROVE q = <<q[1], q[2], q[3]>>
      <3>5. \A i \in 1 .. Len(q) : q[i] \in S OBVIOUS
      <3>0. 1 \in 1 .. Len(q) /\ 2 \in 1 .. Len(q) /\ 3 \in 1 .. Len(q) BY <2>3
      <3>1. q[1] \in S /\ q[2] \in S /\ q[3] \in S
        BY <3>0, <3>5
      <3> DEFINE r == <<q[1], q[2], q[3]>>
      <3>2. r \in Seq(S) /\ Len(r) = 3 /\ r[1] = q[1] /\ r[2] = q[2] /\ r[3] = q[3] BY <3>1
      <3> HIDE DEF r
      <3>3. \A i \in 1 .. Len(q) : q[i] = r[i] BY <2>3, <3>2
      <3>4. q = r BY <2>3, <3>2, <3>3, SeqEqual
      <3> QED BY <3>4 DEF r
    <2>4. ASSUME Len(q) = 4 PROVE q = <<q[1], q[2], q[3], q[4]>>
      <3>5. \A i \in 1 .. Len(q) : q[i] \in S OBVIOUS
      <3>0. 1 \in 1 .. Len(q) /\ 2 \in 1 .. Len(q) /\ 3 \in 1 .. Len(q) /\ 4 \in 1 .. Len(q) BY <2>4
      <3>1. q[1] \in S /\ q[2] \in S /\ q[3] \in S /\ q[4] \in S
        BY <3>0, <3>5
      <3> DEFINE r == <<q[1], q[2], q[3], q[4]>>
      <3>2. r \in Seq(S) /\ Len(r) = 4 /\ r[1] = q[1] /\ r[2] = q[2] /\ r[3] = q[3] /\ r[4] = q[4] BY <3>1
      <3> HIDE DEF r
      <3>3. \A i \in 1 .. Len(q) : q[i] = r[i] BY <2>4, <3>2
      <3>4. q = r BY <2>4, <3>2, <3>3, SeqEqual
      <3> QED BY <3>4 DEF r
    <2> QED BY <2>1, <2>2, <2>3, <2>4
  <1>2. ASSUME NEW m \in Nat, m <= Len(s)
        PROVE  /\ SubSeq(s, 1, m) \in Seq(S) /\ Len(SubSeq(s, 1, m)) = m
               /\ \A i \in 1 .. m : SubSeq(s, 1, m)[i] = s[i]
    BY <1>2, FirstPart
  <1>3. Len(s) \in Nat OBVIOUS
  <1>4. /\ 1 \in 1 .. 1 /\ 1 \in 1 .. 2 /\ 2 \in 1 .. 2
        /\ 1 \in 1 .. 3 /\ 2 \in 1 .. 3 /\ 3 \in 1 .. 3
        /\ 1 \in 1 .. 4 /\ 2 \in 1 .. 4 /\ 3 \in 1 .. 4 /\ 4 \in 1 .. 4
    OBVIOUS
  <1>5. ASSUME Len(s) >= 1 PROVE SubSeq(s, 1, 1) = <<s[1]>>
    <2> DEFINE q == SubSeq(s, 1, 1)
    <2>1. q \in Seq(S) /\ Len(q) = 1 /\ \A i \in 1 .. 1 : q[i] = s[i] BY <1>5, <1>2, <1>3
    <2> HIDE DEF q
    <2>2. q = <<q[1]>> BY <2>1, <1>1
    <2>3. q[1] = s[1] BY <2>1, <1>4
    <2> QED BY <2>2, <2>3 DEF q
  <1>6. ASSUME Len(s) >= 2 PROVE SubSeq(s, 1, 2) = <<s[1], s[2]>>
    <2> DEFINE q == SubSeq(s, 1, 2)
    <2>1. q \in Seq(S) /\ Len(q) = 2 /\ \A i \in 1 .. 2 : q[i] = s[i] BY <1>6, <1>2, <1>3
    <2> HIDE DEF q
    <2>2. q = <<q[1], q[2]>> BY <2>1, <1>1
    <2>3. q[1] = s[1] /\ q[2] = s[2] BY <2>1, <1>4
    <2> QED BY <2>2, <2>3 DEF q
  <1>7. ASSUME Len(s) >= 3 PROVE SubSeq(s, 1, 3) = <<s[1], s[2], s[3]>>
    <2> DEFINE q == SubSeq(s, 1, 3)
    <2>1. q \in Seq(S) /\ Len(q) = 3 /\ \A i \in 1 .. 3 : q[i] = s[i] BY <1>7, <1>2, <1>3
    <2> HIDE DEF q
    <2>2. q = <<q[1], q[2], q[3]>> BY <2>1, <1>1
    <2>3. q[1] = s[1] /\ q[2] = s[2] /\ q[3] = s[3] BY <2>1, <1>4
    <2> QED BY <2>2, <2>3 DEF q
  <1>8. ASSUME Len(s) >= 4 PROVE SubSeq(s, 1, 4) = <<s[1], s[2], s[3], s[4]>>
    <2> DEFINE q == SubSeq(s, 1, 4)
    <2>1. q \in Seq(S) /\ Len(q) = 4 /\ \A i \in 1 .. 4 : q[i] = s[i] BY <1>8, <1>2, <1>3
    <2> HIDE DEF q
    <2>2. q = <<q[1], q[2], q[3], q[4]>> BY <2>1, <1>1
    <2>3. q[1] = s[1] /\ q[2] = s[2] /\ q[3] = s[3] /\ q[4] = s[4] BY <2>1, <1>4
    <2> QED BY <2>2, <2>3 DEF q
  <1> QED BY <1>5, <1>6, <1>7, <1>8

(* Where the parentheses are in a concatenation does not matter. *)
Associates(p, q, r) == (p \o q) \o r = p \o (q \o r)

Item == STRING \ {"IAC"}
Byte == STRING \cup {"IAC", "WILL", "OPT", "SB", "SE", "NOP"}

(* The bytes and the text of one item. *)
LEMMA ItemTyped ==
  ASSUME NEW item \in Item
  PROVE  /\ Bytes(item) \in Seq(Byte) /\ Len(Bytes(item)) \in Nat /\ Len(Bytes(item)) >= 1
         /\ Meaning(item) \in Seq(Byte)
  <1>1. item \in Byte BY DEF Item, Byte
  <1>2. /\ "IAC" \in Byte /\ "WILL" \in Byte /\ "OPT" \in Byte
        /\ "SB" \in Byte /\ "SE" \in Byte /\ "NOP" \in Byte
    BY DEF Byte
  <1> HIDE DEF Item, Byte
  <1>3. CASE item = "negotiate" BY <1>2, <1>3 DEF Bytes, Meaning
  <1>4. CASE item = "subnegotiate" BY <1>2, <1>4 DEF Bytes, Meaning
  <1>5. CASE item = "nop" BY <1>2, <1>5 DEF Bytes, Meaning
  <1>6. CASE item = "escaped" BY <1>2, <1>6 DEF Bytes, Meaning
  <1>7. CASE item \notin {"negotiate", "subnegotiate", "nop", "escaped"}
    BY <1>1, <1>7 DEF Bytes, Meaning
  <1> QED BY <1>3, <1>4, <1>5, <1>6, <1>7

(* Joined sequences of bytes are sequences of bytes. *)
LEMMA JoinTyped ==
  ASSUME NEW parts, NEW n \in Nat, Len(parts) = n, \A i \in 1 .. n : parts[i] \in Seq(Byte),
         NEW f, IsJoin(parts, f)
  PROVE  \A i \in 1 .. n + 1 : f[i] \in Seq(Byte)
  <1> DEFINE S == {k \in Nat : k <= n => f[n + 1 - k] \in Seq(Byte)}
  <1>1. 0 \in S
    <2>1. <<>> \in Seq(Byte) /\ n + 1 - 0 = n + 1 /\ n + 1 \in 1 .. n + 1 /\ n + 1 > n OBVIOUS
    <2>2. f[n + 1] = <<>> BY <2>1 DEF IsJoin
    <2> QED BY <2>1, <2>2
  <1>2. ASSUME NEW k \in S PROVE k + 1 \in S
    <2> SUFFICES ASSUME k + 1 <= n PROVE f[n + 1 - (k + 1)] \in Seq(Byte)
      OBVIOUS
    <2> DEFINE i == n + 1 - (k + 1)
    <2>1. i \in 1 .. n /\ i \in 1 .. n + 1 /\ ~(i > n) /\ i + 1 = n + 1 - k /\ k <= n OBVIOUS
    <2>2. f[i + 1] \in Seq(Byte) BY <2>1
    <2> HIDE DEF i
    <2>3. f[i] = parts[i] \o f[i + 1] BY <2>1 DEF IsJoin
    <2>4. parts[i] \in Seq(Byte) BY <2>1
    <2>5. f[i] \in Seq(Byte) BY <2>2, <2>3, <2>4, ConcatIs
    <2> QED BY <2>5 DEF i
  <1>3. S = Nat
    <2>1. S \subseteq Nat OBVIOUS
    <2> HIDE DEF S
    <2> QED BY <1>1, <1>2, <2>1, InductionBySet
  <1> SUFFICES ASSUME NEW i \in 1 .. n + 1 PROVE f[i] \in Seq(Byte)
    OBVIOUS
  <1>4. n + 1 - i \in Nat /\ n + 1 - i <= n /\ n + 1 - (n + 1 - i) = i OBVIOUS
  <1>5. n + 1 - i \in S BY <1>3, <1>4
  <1> QED BY <1>4, <1>5

(* The bytes of a peer's items. *)
LEMMA EncodeTyped ==
  ASSUME NEW items \in Seq(Item)
  PROVE  Encode(items) \in Seq(Byte)
  <1> DEFINE n == Len(items)
             b == [i \in 1 .. n |-> Bytes(items[i])]
  <1>1. n \in Nat /\ \A i \in 1 .. n : items[i] \in Item OBVIOUS
  <1>2. \A i \in 1 .. n : b[i] \in Seq(Byte) BY <1>1, ItemTyped
  <1>3. b \in Seq({b[i] : i \in 1 .. n}) /\ Len(b) = n BY <1>1
  <1>4. Encode(items) = Joined(b) BY DEF Encode
  <1> HIDE DEF b, n
  <1>5. PICK f : Joined(b) = f[1] /\ IsJoin(b, f) BY <1>1, <1>3, JoinedIs
  <1>6. 1 \in 1 .. n + 1 BY <1>1
  <1>7. \A i \in 1 .. n + 1 : f[i] \in Seq(Byte) BY <1>1, <1>2, <1>3, <1>5, JoinTyped
  <1> QED BY <1>4, <1>5, <1>6, <1>7

(* Where the bytes of an item begin, a step of telnet_strip_iac takes just *)
(* these bytes and writes what they mean.                                  *)
LEMMA StepIs ==
  ASSUME NEW src \in Seq(Byte), NEW item \in Item, NEW p \in Nat, p >= 1,
         p + Len(Bytes(item)) - 1 <= Len(src),
         \A j \in 1 .. Len(Bytes(item)) : src[p + j - 1] = Bytes(item)[j]
  PROVE  StepLength(src, p) = Len(Bytes(item)) /\ StepOutput(src, p) = Meaning(item)
  <1>0. Len(src) \in Nat OBVIOUS
  <1>1. CASE item = "negotiate"
    <2>1. Bytes(item) = <<"IAC", "WILL", "OPT">> /\ Meaning(item) = <<>> BY <1>1 DEF Bytes, Meaning
    <2>2. Len(Bytes(item)) = 3 /\ Bytes(item)[1] = "IAC" /\ Bytes(item)[2] = "WILL" BY <2>1
    <2>3. src[p] = "IAC" /\ src[p + 1] = "WILL" /\ p # Len(src)
      <3>1. p + 1 - 1 = p /\ p + 2 - 1 = p + 1 /\ 1 \in 1 .. 3 /\ 2 \in 1 .. 3 OBVIOUS
      <3>2. p # Len(src) BY <2>2, <1>0
      <3> QED BY <3>1, <3>2, <2>2
    <2> QED BY <2>1, <2>2, <2>3 DEF StepLength, StepOutput, Escape, Option
  <1>2. CASE item = "subnegotiate"
    <2>1. Bytes(item) = <<"IAC", "SB", "OPT", "IAC", "SE">> /\ Meaning(item) = <<>>
      BY <1>2 DEF Bytes, Meaning
    <2>2. /\ Len(Bytes(item)) = 5 /\ Bytes(item)[1] = "IAC" /\ Bytes(item)[2] = "SB"
          /\ Bytes(item)[3] = "OPT" /\ Bytes(item)[4] = "IAC" /\ Bytes(item)[5] = "SE"
      BY <2>1
    <2>3. /\ src[p] = "IAC" /\ src[p + 1] = "SB" /\ src[p + 2] = "OPT" /\ src[p + 3] = "IAC"
          /\ src[p + 4] = "SE" /\ p + 4 <= Len(src)
      <3>1. /\ p + 1 - 1 = p /\ p + 2 - 1 = p + 1 /\ p + 3 - 1 = p + 2 /\ p + 4 - 1 = p + 3
            /\ p + 5 - 1 = p + 4
        OBVIOUS
      <3>2. 1 \in 1 .. 5 /\ 2 \in 1 .. 5 /\ 3 \in 1 .. 5 /\ 4 \in 1 .. 5 /\ 5 \in 1 .. 5 OBVIOUS
      <3>3. p + 4 <= Len(src) BY <2>2, <1>0
      <3> QED BY <3>1, <3>2, <3>3, <2>2
    <2> DEFINE ends == {j \in p + 2 .. Len(src) - 1 : src[j] = Escape /\ src[j + 1] = "SE"}
    <2>4. p + 3 \in ends
      <3>1. p + 3 \in p + 2 .. Len(src) - 1 /\ (p + 3) + 1 = p + 4 BY <2>3, <1>0
      <3> QED BY <3>1, <2>3 DEF Escape
    <2>5. \A j \in ends : j >= p + 3
      <3> SUFFICES ASSUME NEW j \in ends, ~(j >= p + 3) PROVE FALSE
        OBVIOUS
      <3>1. j \in p + 2 .. Len(src) - 1 /\ src[j] = "IAC" BY DEF Escape
      <3>2. j = p + 2 BY <3>1, <1>0
      <3> QED BY <3>1, <3>2, <2>3
    <2>6. ends \subseteq Nat BY <1>0
    <2>7. StepLength(src, p) = IF src[p] # Escape \/ p = Len(src) THEN 1
            ELSE CASE src[p + 1] = "SB" -> IF ends = {} THEN Len(src) - p + 1 ELSE Min(ends) + 2 - p
                   [] src[p + 1] \in Option -> 3
                   [] OTHER -> 2
      BY DEF StepLength
    <2> HIDE DEF ends
    <2>8. Min(ends) = p + 3
      <3>1. Min(ends) \in ends /\ \A y \in ends : Min(ends) <= y BY <2>4, <2>6, MinOfNat
      <3>2. Min(ends) \in Nat /\ Min(ends) <= p + 3 /\ Min(ends) >= p + 3 BY <2>4, <2>5, <2>6, <3>1
      <3> QED BY <3>2
    <2>9. p # Len(src) /\ ends # {} /\ "SB" \notin Option BY <2>3, <2>4, <1>0 DEF Option
    <2>10. StepLength(src, p) = Min(ends) + 2 - p BY <2>3, <2>7, <2>9 DEF Escape
    <2>11. StepLength(src, p) = 5 BY <2>8, <2>10
    <2> QED BY <2>1, <2>2, <2>3, <2>9, <2>11 DEF StepOutput, Escape
  <1>3. CASE item = "nop"
    <2>1. Bytes(item) = <<"IAC", "NOP">> /\ Meaning(item) = <<>> BY <1>3 DEF Bytes, Meaning
    <2>2. Len(Bytes(item)) = 2 /\ Bytes(item)[1] = "IAC" /\ Bytes(item)[2] = "NOP" BY <2>1
    <2>3. src[p] = "IAC" /\ src[p + 1] = "NOP" /\ p # Len(src)
      <3>1. p + 1 - 1 = p /\ p + 2 - 1 = p + 1 /\ 1 \in 1 .. 2 /\ 2 \in 1 .. 2 OBVIOUS
      <3>2. p # Len(src) BY <2>2, <1>0
      <3> QED BY <3>1, <3>2, <2>2
    <2> QED BY <2>1, <2>2, <2>3 DEF StepLength, StepOutput, Escape, Option
  <1>4. CASE item = "escaped"
    <2>1. Bytes(item) = <<"IAC", "IAC">> /\ Meaning(item) = <<"IAC">> BY <1>4 DEF Bytes, Meaning
    <2>2. Len(Bytes(item)) = 2 /\ Bytes(item)[1] = "IAC" /\ Bytes(item)[2] = "IAC" BY <2>1
    <2>3. src[p] = "IAC" /\ src[p + 1] = "IAC" /\ p # Len(src)
      <3>1. p + 1 - 1 = p /\ p + 2 - 1 = p + 1 /\ 1 \in 1 .. 2 /\ 2 \in 1 .. 2 OBVIOUS
      <3>2. p # Len(src) BY <2>2, <1>0
      <3> QED BY <3>1, <3>2, <2>2
    <2> QED BY <2>1, <2>2, <2>3 DEF StepLength, StepOutput, Escape, Option
  <1>5. CASE item \notin {"negotiate", "subnegotiate", "nop", "escaped"}
    <2>1. Bytes(item) = <<item>> /\ Meaning(item) = <<item>> /\ item # "IAC"
      BY <1>5 DEF Bytes, Meaning, Item
    <2>2. Len(Bytes(item)) = 1 /\ Bytes(item)[1] = item BY <2>1
    <2>3. src[p] = item
      <3>1. p + 1 - 1 = p /\ 1 \in 1 .. 1 OBVIOUS
      <3> QED BY <3>1, <2>2
    <2> QED BY <2>1, <2>2, <2>3 DEF StepLength, StepOutput, Escape
  <1> QED BY <1>1, <1>2, <1>3, <1>4, <1>5

(* What a recv may have got of the command it stops in. *)
Begun ==
  {<<>>, <<"IAC">>, <<"IAC", "WILL">>, <<"IAC", "NOP">>, <<"IAC", "SB">>,
   <<"IAC", "SB", "OPT">>, <<"IAC", "SB", "OPT", "IAC">>}

(* Where the bytes end within a command, a step takes all that there is of *)
(* it and writes nothing, but for the IAC that came last.                  *)
LEMMA StepAtEnd ==
  ASSUME NEW src \in Seq(Byte), NEW got \in Begun, got # <<>>, NEW p \in Nat, p >= 1,
         p + Len(got) - 1 = Len(src),
         \A j \in 1 .. Len(got) : src[p + j - 1] = got[j]
  PROVE  StepOutput(src, p) = Shown(got) /\ p + StepLength(src, p) > Len(src)
  <1>0. Len(src) \in Nat OBVIOUS
  <1>1. CASE got = <<"IAC">>
    <2>1. Len(got) = 1 /\ got[1] = "IAC" BY <1>1
    <2>2. src[p] = "IAC" /\ p = Len(src)
      <3>1. p + 1 - 1 = p /\ 1 \in 1 .. 1 OBVIOUS
      <3> QED BY <3>1, <2>1, <1>0
    <2>3. StepLength(src, p) = 1 /\ StepOutput(src, p) = <<"IAC">>
      BY <2>2 DEF StepLength, StepOutput
    <2> QED BY <2>2, <2>3, <1>1 DEF Shown, Escape
  <1>2. CASE got \in {<<"IAC", "WILL">>, <<"IAC", "NOP">>}
    <2>1. Len(got) = 2 /\ got[1] = "IAC" /\ got[2] \in {"WILL", "NOP"} BY <1>2
    <2>2. src[p] = "IAC" /\ src[p + 1] \in {"WILL", "NOP"} /\ p + 1 = Len(src) /\ p # Len(src)
      <3>1. p + 1 - 1 = p /\ p + 2 - 1 = p + 1 /\ 1 \in 1 .. 2 /\ 2 \in 1 .. 2 OBVIOUS
      <3> QED BY <3>1, <2>1, <1>0
    <2>3. StepLength(src, p) \in {2, 3} /\ StepOutput(src, p) = <<>>
      BY <2>2 DEF StepLength, StepOutput, Escape, Option
    <2>4. got # <<"IAC">> BY <2>1
    <2> QED BY <2>2, <2>3, <2>4 DEF Shown, Escape
  <1>3. CASE got \in {<<"IAC", "SB">>, <<"IAC", "SB", "OPT">>, <<"IAC", "SB", "OPT", "IAC">>}
    <2>1. /\ Len(got) \in {2, 3, 4} /\ got[1] = "IAC" /\ got[2] = "SB"
          /\ Len(got) = 4 => got[3] = "OPT"
      <3>1. CASE got = <<"IAC", "SB">> BY <3>1
      <3>2. CASE got = <<"IAC", "SB", "OPT">> BY <3>2
      <3>3. CASE got = <<"IAC", "SB", "OPT", "IAC">> BY <3>3
      <3> QED BY <3>1, <3>2, <3>3, <1>3
    <2>2. /\ src[p] = "IAC" /\ src[p + 1] = "SB" /\ p # Len(src)
          /\ Len(src) = p + 1 \/ Len(src) = p + 2 \/ (Len(src) = p + 3 /\ src[p + 2] = "OPT")
      <3>1. /\ p + 1 - 1 = p /\ p + 2 - 1 = p + 1 /\ p + 3 - 1 = p + 2
            /\ \A k \in {2, 3, 4} : 1 \in 1 .. k /\ 2 \in 1 .. k
            /\ 3 \in 1 .. 4
        OBVIOUS
      <3>2. src[p] = "IAC" /\ src[p + 1] = "SB" /\ (Len(got) = 4 => src[p + 2] = "OPT")
        <4>1. 1 \in 1 .. Len(got) /\ 2 \in 1 .. Len(got) BY <3>1, <2>1
        <4>2. src[p] = "IAC" /\ src[p + 1] = "SB" BY <4>1, <3>1, <2>1
        <4>3. ASSUME Len(got) = 4 PROVE src[p + 2] = "OPT"
          <5>1. 3 \in 1 .. Len(got) BY <4>3
          <5> QED BY <5>1, <3>1, <2>1, <4>3
        <4> QED BY <4>2, <4>3
      <3>3. Len(src) = p + 1 \/ Len(src) = p + 2 \/ (Len(src) = p + 3 /\ Len(got) = 4)
        <4> DEFINE g == Len(got)
        <4>1. g \in {2, 3, 4} /\ p + g - 1 = Len(src) BY <2>1
        <4> HIDE DEF g
        <4>2. Len(src) = p + 1 \/ Len(src) = p + 2 \/ (Len(src) = p + 3 /\ g = 4) BY <4>1, <1>0
        <4> QED BY <4>2 DEF g
      <3> QED BY <3>2, <3>3
    <2> DEFINE ends == {j \in p + 2 .. Len(src) - 1 : src[j] = Escape /\ src[j + 1] = "SE"}
    <2>3. ends = {}
      <3> SUFFICES ASSUME NEW j \in ends PROVE FALSE
        OBVIOUS
      <3>1. j \in p + 2 .. Len(src) - 1 /\ src[j] = "IAC" BY DEF Escape
      <3>2. j = p + 2 /\ Len(src) = p + 3 BY <3>1, <2>2, <1>0
      <3>3. Len(src) # p + 1 /\ Len(src) # p + 2 BY <3>2, <1>0
      <3> QED BY <3>1, <3>2, <3>3, <2>2
    <2>4. StepLength(src, p) = IF src[p] # Escape \/ p = Len(src) THEN 1
            ELSE CASE src[p + 1] = "SB" -> IF ends = {} THEN Len(src) - p + 1 ELSE Min(ends) + 2 - p
                   [] src[p + 1] \in Option -> 3
                   [] OTHER -> 2
      BY DEF StepLength
    <2> HIDE DEF ends
    <2>5. "SB" \notin Option BY DEF Option
    <2>6. StepLength(src, p) = Len(src) - p + 1 BY <2>2, <2>3, <2>4, <2>5 DEF Escape
    <2>7. StepOutput(src, p) = <<>> BY <2>2 DEF StepOutput, Escape
    <2>8. got # <<"IAC">> BY <2>1
    <2> QED BY <2>6, <2>7, <2>8, <1>0 DEF Shown, Escape
  <1> QED BY <1>1, <1>2, <1>3 DEF Begun

(* Of any bytes, a step goes ahead, and not far behind the end. *)
LEMMA StepAhead ==
  ASSUME NEW src \in Seq(Byte), NEW p \in 1 .. Len(src)
  PROVE  p + StepLength(src, p) \in 1 .. Len(src) + 3 /\ p + StepLength(src, p) > p
  <1> DEFINE ends == {j \in p + 2 .. Len(src) - 1 : src[j] = Escape /\ src[j + 1] = "SE"}
  <1>1. Len(src) \in Nat /\ p \in Nat OBVIOUS
  <1>2. ends \subseteq p + 2 .. Len(src) - 1 /\ ends \subseteq Nat BY <1>1
  <1>3. StepLength(src, p) = IF src[p] # Escape \/ p = Len(src) THEN 1
          ELSE CASE src[p + 1] = "SB" -> IF ends = {} THEN Len(src) - p + 1 ELSE Min(ends) + 2 - p
                 [] src[p + 1] \in Option -> 3
                 [] OTHER -> 2
    BY DEF StepLength
  <1> HIDE DEF ends
  <1>4. ends # {} => Min(ends) \in p + 2 .. Len(src) - 1 BY <1>2, MinOfNat
  <1>5. \/ StepLength(src, p) \in {1, 2, 3} \/ StepLength(src, p) = Len(src) - p + 1
        \/ ends # {} /\ StepLength(src, p) = Min(ends) + 2 - p
    <2> HIDE DEF Option
    <2>1. "SB" \notin Option BY DEF Option
    <2> QED BY <1>3, <2>1
  <1> QED BY <1>1, <1>4, <1>5

(* The loop of telnet_strip_iac, as a function of the place. *)
IsFilter(src, f) ==
  \A i \in 1 .. Len(src) + 3 :
    f[i] = IF i > Len(src) THEN <<>> ELSE StepOutput(src, i) \o f[i + StepLength(src, i)]

(* What the loop leaves is its value at the first byte, cut at the buffer. *)
LEMMA StripIacIs ==
  ASSUME NEW src \in Seq(Byte), src # <<>>
  PROVE  \E f : StripIac(src) = Cut(f[1], LineSize) /\ IsFilter(src, f)
  <1> DEFINE n == Len(src) + 3
             stop == {i \in 1 .. n : i > Len(src)}
             out == [i \in 1 .. n |-> StepOutput(src, i)]
             nxt == [i \in 1 .. n |-> i + StepLength(src, i)]
             F(f) == [i \in 1 .. n |-> IF i \in stop THEN <<>> ELSE out[i] \o f[nxt[i]]]
             G(f) == [i \in 1 .. n |-> IF i > Len(src) THEN <<>>
                                       ELSE StepOutput(src, i) \o f[i + StepLength(src, i)]]
  <1>1. n \in Nat /\ Len(src) \in Nat OBVIOUS
  <1>2. ASSUME NEW i \in 1 .. n PROVE i \in stop \/ (nxt[i] \in 1 .. n /\ nxt[i] > i)
    <2>1. CASE i > Len(src) BY <2>1
    <2>2. CASE i \in 1 .. Len(src) BY <2>2, StepAhead
    <2> QED BY <2>1, <2>2, <1>1
  <1>3. \E f : IsLoop(n, stop, out, nxt, f)
    <2> HIDE DEF n, stop, nxt, out
    <2> QED BY <1>1, <1>2, LoopExists
  <1>4. PICK g : g = F(g) BY <1>3 DEF IsLoop
  <1>5. \A f : F(f) = G(f) OBVIOUS
  <1>6. StripIac(src) = Cut((CHOOSE f : f = G(f))[1], LineSize) BY DEF StripIac
  <1> DEFINE h == CHOOSE f : f = G(f)
  <1>7. h = G(h)
    <2>1. g = G(g) BY <1>4, <1>5
    <2> QED BY <2>1
  <1>8. StripIac(src) = Cut(h[1], LineSize) BY <1>6
  <1> HIDE DEF h
  <1>9. \A i \in 1 .. Len(src) + 3 :
          h[i] = IF i > Len(src) THEN <<>> ELSE StepOutput(src, i) \o h[i + StepLength(src, i)]
    BY <1>7
  <1>10. IsFilter(src, h) BY <1>9 DEF IsFilter
  <1> QED BY <1>8, <1>10

(* What telnet_strip_iac leaves of a peer's items, and of the begin of     *)
(* another, is their text, as much of it as fits.                          *)
LEMMA FilterText ==
  ASSUME TelnetAssumption, NEW items \in Seq(Item), NEW got \in Begun,
         Encode(items) \o got # <<>>
  PROVE  /\ StripIac(Encode(items) \o got) = Cut(Text(items) \o Shown(got), LineSize)
         /\ Text(items) \o Shown(got) \in Seq(Byte)
  <1> DEFINE n == Len(items)
             b == [i \in 1 .. n |-> Bytes(items[i])]
             m == [i \in 1 .. n |-> Meaning(items[i])]
  <1>1. n \in Nat OBVIOUS
  <1>2. \A i \in 1 .. n : items[i] \in Item OBVIOUS
  <1>3. \A i \in 1 .. n : /\ b[i] = Bytes(items[i]) /\ m[i] = Meaning(items[i])
                          /\ b[i] \in Seq(Byte) /\ Len(b[i]) \in Nat /\ Len(b[i]) >= 1
                          /\ m[i] \in Seq(Byte)
    BY <1>2, ItemTyped
  <1>4. Len(b) = n /\ Len(m) = n
    <2>1. b \in Seq({b[i] : i \in 1 .. n}) /\ m \in Seq({m[i] : i \in 1 .. n}) BY <1>1
    <2> QED BY <2>1, <1>1
  <1>5. Encode(items) = Joined(b) /\ Text(items) = Joined(m) BY DEF Encode, Text
  <1> HIDE DEF b, m
  <1> DEFINE last == Shown(got)
  <1>a. got \in Seq(Byte) /\ last \in Seq(Byte)
    <2>1. /\ "IAC" \in Byte /\ "WILL" \in Byte /\ "OPT" \in Byte
          /\ "SB" \in Byte /\ "NOP" \in Byte
      BY DEF Byte
    <2> HIDE DEF Byte
    <2>2. /\ <<>> \in Seq(Byte) /\ <<"IAC">> \in Seq(Byte) /\ <<"IAC", "WILL">> \in Seq(Byte)
          /\ <<"IAC", "NOP">> \in Seq(Byte) /\ <<"IAC", "SB">> \in Seq(Byte)
      BY <2>1
    <2>3. <<"IAC", "SB", "OPT">> \in Seq(Byte) BY <2>1
    <2>4. <<"IAC", "SB", "OPT", "IAC">> \in Seq(Byte) BY <2>1
    <2>5. got \in Seq(Byte) BY <2>2, <2>3, <2>4, Zenon DEF Begun
    <2> QED BY <2>2, <2>5 DEF Shown, last
  <1> HIDE DEF last
  <1>6. PICK c : Joined(b) = c[1] /\ IsJoin(b, c) BY <1>1, <1>4, JoinedIs
  <1>7. PICK d : Joined(m) = d[1] /\ IsJoin(m, d) BY <1>1, <1>4, JoinedIs
  <1> DEFINE e == [i \in 1 .. n + 1 |-> c[i] \o got]
             t == [i \in 1 .. n + 1 |-> d[i] \o last]
  <1>b. \A i \in 1 .. n : c[i] = b[i] \o c[i + 1] /\ d[i] = m[i] \o d[i + 1]
    <2>1. \A i \in 1 .. n : i \in 1 .. n + 1 /\ ~(i > n) BY <1>1
    <2> QED BY <2>1, <1>4, <1>6, <1>7 DEF IsJoin
  <1>c. c[n + 1] = <<>> /\ d[n + 1] = <<>>
    <2>1. n + 1 \in 1 .. n + 1 /\ n + 1 > n BY <1>1
    <2> QED BY <2>1, <1>4, <1>6, <1>7 DEF IsJoin
  <1>d. \A i \in 1 .. n + 1 : c[i] \in Seq(Byte) /\ d[i] \in Seq(Byte)
    BY <1>1, <1>3, <1>4, <1>6, <1>7, JoinTyped
  <1>e. \A i \in 1 .. n + 1 : e[i] = c[i] \o got /\ t[i] = d[i] \o last OBVIOUS
  <1> HIDE DEF e, t
  <1>8. e[n + 1] = got /\ t[n + 1] = last
    <2>1. n + 1 \in 1 .. n + 1 BY <1>1
    <2>2. <<>> \o got = got /\ <<>> \o last = last BY <1>a
    <2> QED BY <2>1, <2>2, <1>c, <1>e
  <1>9. \A i \in 1 .. n : e[i] = b[i] \o e[i + 1] /\ t[i] = m[i] \o t[i + 1]
    <2> SUFFICES ASSUME NEW i \in 1 .. n PROVE e[i] = b[i] \o e[i + 1] /\ t[i] = m[i] \o t[i + 1]
      OBVIOUS
    <2>1. i \in 1 .. n + 1 /\ i + 1 \in 1 .. n + 1 BY <1>1
    <2>2. /\ b[i] \in Seq(Byte) /\ c[i + 1] \in Seq(Byte)
          /\ m[i] \in Seq(Byte) /\ d[i + 1] \in Seq(Byte)
      BY <2>1, <1>3, <1>d
    <2> DEFINE u == b[i]
               v == c[i + 1]
               x == m[i]
               y == d[i + 1]
    <2>3. /\ e[i] = (u \o v) \o got /\ e[i + 1] = v \o got
          /\ t[i] = (x \o y) \o last /\ t[i + 1] = y \o last
      BY <2>1, <1>b, <1>e
    <2>4. u \in Seq(Byte) /\ v \in Seq(Byte) /\ x \in Seq(Byte) /\ y \in Seq(Byte) BY <2>2
    <2>7. \A p, q, r \in Seq(Byte) : Associates(p, q, r) BY ConcatAssociative DEF Associates
    <2> HIDE DEF u, v, x, y
    <2>5. Associates(u, v, got) /\ Associates(x, y, last) BY <2>4, <2>7, <1>a
    <2> QED BY <2>3, <2>5 DEF u, x, Associates
  <1> DEFINE From(k) == n + 1 - k
  <1>10. \A k \in Nat : k <= n => From(k) \in 1 .. n + 1 BY <1>1
  <1>11. \A k \in Nat : k + 1 <= n => From(k + 1) \in 1 .. n /\ From(k + 1) + 1 = From(k) /\ k <= n
    BY <1>1
  <1>12. \A i \in 1 .. n + 1 : n + 1 - i \in Nat /\ n + 1 - i <= n /\ From(n + 1 - i) = i BY <1>1
  <1>13. From(0) = n + 1 BY <1>1
  <1> HIDE DEF n, From
  <1>14. \A i \in 1 .. n + 1 : e[i] \in Seq(Byte) /\ t[i] \in Seq(Byte)
    <2>1. \A u, v \in Seq(Byte) : u \o v \in Seq(Byte) BY ConcatIs
    <2> QED BY <2>1, <1>a, <1>d, <1>e, Zenon
  <1> DEFINE src == e[1]
             L == Len(src)
             At(i) == L + 1 - Len(e[i])
  <1>15. 1 \in 1 .. n + 1 /\ src \in Seq(Byte) /\ L \in Nat /\ t[1] \in Seq(Byte) BY <1>1, <1>14
  <1>16. \A i \in 1 .. n : /\ Len(e[i]) = Len(b[i]) + Len(e[i + 1]) /\ Len(e[i + 1]) \in Nat
                           /\ \A j \in 1 .. Len(b[i]) : e[i][j] = b[i][j]
                           /\ \A j \in 1 .. Len(e[i + 1]) : e[i][Len(b[i]) + j] = e[i + 1][j]
    <2> SUFFICES ASSUME NEW i \in 1 .. n
                 PROVE  /\ Len(e[i]) = Len(b[i]) + Len(e[i + 1]) /\ Len(e[i + 1]) \in Nat
                        /\ \A j \in 1 .. Len(b[i]) : e[i][j] = b[i][j]
                        /\ \A j \in 1 .. Len(e[i + 1]) : e[i][Len(b[i]) + j] = e[i + 1][j]
      OBVIOUS
    <2>1. i + 1 \in 1 .. n + 1 BY <1>1
    <2>2. e[i + 1] \in Seq(Byte) /\ b[i] \in Seq(Byte) BY <2>1, <1>3, <1>14
    <2> DEFINE x == b[i]
               y == e[i + 1]
    <2>3. e[i] = x \o y BY <1>9
    <2>5. x \in Seq(Byte) /\ y \in Seq(Byte) BY <2>2
    <2> HIDE DEF x, y
    <2>4. /\ Len(x \o y) = Len(x) + Len(y) /\ Len(y) \in Nat
          /\ \A j \in 1 .. Len(x) : (x \o y)[j] = x[j]
          /\ \A j \in 1 .. Len(y) : (x \o y)[Len(x) + j] = y[j]
      BY <2>5, ConcatIs
    <2> QED BY <2>3, <2>4 DEF x, y
  <1>17. \A i \in 1 .. n + 1 : Len(e[i]) \in 0 .. L /\ \A j \in 1 .. Len(e[i]) : src[At(i) + j - 1] = e[i][j]
    <2> DEFINE Is(i) == Len(e[i]) \in 0 .. L /\ \A j \in 1 .. Len(e[i]) : src[At(i) + j - 1] = e[i][j]
               S == {k \in Nat : k <= n => Is(k + 1)}
    <2>1. 0 \in S
      <3>1. \A j \in 1 .. L : (L + 1 - L) + j - 1 = j BY <1>15
      <3>2. L \in 0 .. L BY <1>15
      <3>3. Is(1) BY <3>1, <3>2
      <3> HIDE DEF Is
      <3> QED BY <3>3
    <2>2. ASSUME NEW k \in S PROVE k + 1 \in S
      <3>0. k \in Nat /\ (k <= n => Is(k + 1)) OBVIOUS
      <3> SUFFICES ASSUME k + 1 <= n PROVE Is((k + 1) + 1)
        <4> HIDE DEF Is
        <4> QED BY <3>0
      <3> DEFINE i == k + 1
      <3>1. k \in Nat /\ i \in 1 .. n /\ k <= n BY <3>0, <1>1
      <3>2. Is(i)
        <4> HIDE DEF Is
        <4> QED BY <3>0, <3>1
      <3> HIDE DEF i
      <3>3. /\ Len(e[i]) = Len(b[i]) + Len(e[i + 1]) /\ Len(e[i + 1]) \in Nat
            /\ \A j \in 1 .. Len(e[i + 1]) : e[i][Len(b[i]) + j] = e[i + 1][j]
            /\ Len(b[i]) \in Nat
        BY <3>1, <1>3, <1>16
      <3> DEFINE x == Len(e[i])
                 y == Len(e[i + 1])
                 z == Len(b[i])
      <3>7. x \in 0 .. L /\ x = z + y /\ y \in Nat /\ z \in Nat /\ L \in Nat BY <3>2, <3>3, <1>15
      <3>4. Len(e[i + 1]) \in 0 .. L
        <4> HIDE DEF x, y, z, L
        <4>1. y \in 0 .. L BY <3>7
        <4> QED BY <4>1 DEF y
      <3>5. ASSUME NEW j \in 1 .. Len(e[i + 1]) PROVE src[At(i + 1) + j - 1] = e[i + 1][j]
        <4>0. j \in 1 .. y /\ j \in Nat OBVIOUS
        <4>1. z + j \in 1 .. x
          <5> HIDE DEF x, y, z, L
          <5> QED BY <3>7, <4>0
        <4>2. src[At(i) + (Len(b[i]) + j) - 1] = e[i][Len(b[i]) + j] BY <3>2, <4>1
        <4>3. At(i) + (Len(b[i]) + j) - 1 = At(i + 1) + j - 1
          <5> HIDE DEF x, y, z, L
          <5>1. (L + 1 - x) + (z + j) - 1 = (L + 1 - y) + j - 1 BY <3>7, <4>0
          <5> QED BY <5>1 DEF x, y, z, L
        <4> QED BY <4>2, <4>3, <3>3
      <3>6. Is(i + 1) BY <3>4, <3>5
      <3> HIDE DEF Is
      <3> QED BY <3>6 DEF i
    <2> HIDE DEF Is
    <2>3. S = Nat
      <3>1. S \subseteq Nat OBVIOUS
      <3> HIDE DEF S
      <3> QED BY <2>1, <2>2, <3>1, InductionBySet
    <2>4. ASSUME NEW i \in 1 .. n + 1 PROVE Is(i)
      <3>1. i - 1 \in Nat /\ i - 1 <= n /\ (i - 1) + 1 = i BY <1>1
      <3>2. i - 1 \in S BY <3>1, <2>3
      <3> QED BY <3>1, <3>2
    <2> QED BY <2>4 DEF Is
  <1>18. Encode(items) \o got = src /\ Text(items) \o Shown(got) = t[1]
    BY <1>5, <1>6, <1>7, <1>15, <1>e DEF last
  <1>20. src # <<>> BY <1>18
  <1>21. StripIac(src) = Cut(t[1], LineSize)
    <2>1. PICK f : StripIac(src) = Cut(f[1], LineSize) /\ IsFilter(src, f) BY <1>15, <1>20, StripIacIs
    <2> HIDE DEF src
    <2> DEFINE S == {k \in Nat : k <= n => f[At(From(k))] = t[From(k)]}
    <2>2. 0 \in S
      <3> DEFINE p == At(n + 1)
                 g == Len(got)
      <3>1. n + 1 \in 1 .. n + 1 BY <1>1
      <3>2. g \in 0 .. L /\ \A j \in 1 .. g : src[p + j - 1] = got[j] BY <3>1, <1>8, <1>17
      <3>3. p = L + 1 - g BY <1>8
      <3>4. CASE got = <<>>
        <4>1. g = 0 BY <3>4
        <4>2. p = L + 1 /\ L + 1 \in 1 .. L + 3 /\ L + 1 > L
          <5> HIDE DEF p, g, L
          <5> QED BY <3>3, <4>1, <1>15
        <4>3. f[L + 1] = <<>> BY <4>2, <2>1 DEF IsFilter
        <4>4. last = <<>> BY <3>4 DEF last, Shown
        <4>5. f[p] = t[n + 1] BY <4>2, <4>3, <4>4, <1>8
        <4> HIDE DEF p
        <4> QED BY <4>5, <1>13 DEF p
      <3>5. CASE got # <<>>
        <4>1. g >= 1 /\ g \in Nat BY <3>5, <1>a
        <4>2. p \in Nat /\ p >= 1 /\ p + g - 1 = L /\ p \in 1 .. L + 3 /\ ~(p > L) /\ p \in 1 .. L
          <5> HIDE DEF p, g, L
          <5> QED BY <3>2, <3>3, <4>1, <1>15
        <4>3. StepOutput(src, p) = last /\ p + StepLength(src, p) > L
          <5> HIDE DEF p
          <5> QED BY <3>2, <3>5, <4>2, <1>15, StepAtEnd DEF last
        <4>4. p + StepLength(src, p) \in 1 .. L + 3 BY <4>2, <1>15, StepAhead
        <4>5. f[p] = StepOutput(src, p) \o f[p + StepLength(src, p)] BY <4>2, <2>1 DEF IsFilter
        <4>6. f[p + StepLength(src, p)] = <<>> BY <4>3, <4>4, <2>1 DEF IsFilter
        <4>7. last \o <<>> = last BY <1>a
        <4>8. f[p] = t[n + 1] BY <4>3, <4>5, <4>6, <4>7, <1>8
        <4> HIDE DEF p
        <4> QED BY <4>8, <1>13 DEF p
      <3> QED BY <3>4, <3>5
    <2>3. ASSUME NEW k \in S PROVE k + 1 \in S
      <3>0. k \in Nat /\ (k <= n => f[At(From(k))] = t[From(k)]) OBVIOUS
      <3> SUFFICES ASSUME k + 1 <= n PROVE f[At(From(k + 1))] = t[From(k + 1)]
        <4> HIDE DEF At
        <4> QED BY <3>0
      <3> DEFINE i == From(k + 1)
                 p == At(i)
      <3>1. i \in 1 .. n /\ i + 1 = From(k) /\ k <= n BY <3>0, <1>11
      <3>2. f[At(i + 1)] = t[i + 1]
        <4> HIDE DEF At, i
        <4> QED BY <3>0, <3>1
      <3> HIDE DEF i
      <3>3. /\ Len(e[i]) = Len(b[i]) + Len(e[i + 1]) /\ Len(e[i + 1]) \in Nat
            /\ \A j \in 1 .. Len(b[i]) : e[i][j] = b[i][j]
            /\ Len(b[i]) \in Nat /\ Len(b[i]) >= 1
        BY <3>1, <1>3, <1>16
      <3>4. i \in 1 .. n + 1 BY <3>1, <1>1
      <3>5. Len(e[i]) \in 0 .. L /\ \A j \in 1 .. Len(e[i]) : src[p + j - 1] = e[i][j]
        BY <3>4, <1>17
      <3>6. p \in Nat /\ p >= 1 /\ p <= L /\ p + Len(b[i]) = At(i + 1) /\ p + Len(b[i]) - 1 <= L
        <4> DEFINE x == Len(e[i])
                   y == Len(e[i + 1])
                   z == Len(b[i])
        <4>1. /\ x \in 0 .. L /\ x = z + y /\ y \in Nat /\ z \in Nat /\ z >= 1 /\ L \in Nat
          BY <3>3, <3>5, <1>15
        <4> HIDE DEF x, y, z, L
        <4>2. /\ L + 1 - x \in Nat /\ L + 1 - x >= 1 /\ L + 1 - x <= L
              /\ (L + 1 - x) + z = L + 1 - y /\ (L + 1 - x) + z - 1 <= L
          BY <4>1
        <4> QED BY <4>2 DEF x, y, z
      <3>7. \A j \in 1 .. Len(b[i]) : j \in 1 .. Len(e[i])
        <4> DEFINE x == Len(e[i])
                   y == Len(e[i + 1])
                   z == Len(b[i])
        <4>1. x = z + y /\ y \in Nat /\ z \in Nat BY <3>3
        <4> HIDE DEF x, y, z
        <4>2. \A j \in 1 .. z : j \in 1 .. x BY <4>1
        <4> QED BY <4>2 DEF x, z
      <3>8. \A j \in 1 .. Len(b[i]) : src[p + j - 1] = b[i][j] BY <3>3, <3>5, <3>7
      <3> HIDE DEF p
      <3>9. b[i] = Bytes(items[i]) /\ m[i] = Meaning(items[i]) /\ items[i] \in Item
        BY <3>1, <1>2, <1>3
      <3>10. StepLength(src, p) = Len(b[i]) /\ StepOutput(src, p) = m[i]
        <4> DEFINE it == items[i]
                   w == Bytes(it)
        <4>1. it \in Item /\ w = b[i] /\ m[i] = Meaning(it) BY <3>9
        <4>2. p + Len(w) - 1 <= Len(src) /\ \A j \in 1 .. Len(w) : src[p + j - 1] = w[j]
          BY <3>6, <3>8, <4>1
        <4>3. StepLength(src, p) = Len(Bytes(it)) /\ StepOutput(src, p) = Meaning(it)
          <5> HIDE DEF it
          <5> QED BY <3>6, <4>1, <4>2, <1>15, StepIs
        <4> QED BY <4>1, <4>3
      <3>11. p \in 1 .. L + 3 /\ ~(p > L) BY <3>6, <1>15
      <3>12. f[p] = StepOutput(src, p) \o f[p + StepLength(src, p)]
        BY <3>11, <2>1 DEF IsFilter
      <3>13. f[p] = m[i] \o t[i + 1] BY <3>2, <3>6, <3>10, <3>12
      <3>14. f[p] = t[i] BY <3>1, <3>13, <1>9
      <3> QED BY <3>14 DEF p, i
    <2>4. S = Nat
      <3>1. S \subseteq Nat OBVIOUS
      <3> HIDE DEF S
      <3> QED BY <2>2, <2>3, <3>1, InductionBySet
    <2>5. f[At(1)] = t[1]
      <3>1. n + 1 - 1 \in Nat /\ n + 1 - 1 <= n /\ From(n + 1 - 1) = 1 BY <1>12, <1>15
      <3>2. n + 1 - 1 \in S BY <3>1, <2>4
      <3> QED BY <3>1, <3>2
    <2>6. At(1) = 1
      <3>1. e[1] = src BY DEF src
      <3>2. Len(e[1]) = L BY <3>1
      <3> QED BY <3>2, <1>15
    <2> QED BY <2>1, <2>5, <2>6
  <1> QED BY <1>15, <1>18, <1>21

(* A string as C reads it, byte by byte. *)
LEMMA CStringIs ==
  ASSUME NEW S, NEW s \in Seq(S)
  PROVE  /\ CString(s) \in Seq(S) /\ Len(CString(s)) \in 0 .. Len(s)
         /\ \A i \in 1 .. Len(CString(s)) : CString(s)[i] = s[i] /\ s[i] # "NUL"
         /\ Len(CString(s)) < Len(s) => s[Len(CString(s)) + 1] = "NUL"
  <1> DEFINE I == {i \in 1 .. Len(s) : s[i] = "NUL"}
  <1>1. Len(s) \in Nat OBVIOUS
  <1>2. I \subseteq Nat /\ I \subseteq 1 .. Len(s) OBVIOUS
  <1>3. CString(s) = IF (IF I # {} THEN Min(I) ELSE 0) = 0 THEN s
                     ELSE SubSeq(s, 1, (IF I # {} THEN Min(I) ELSE 0) - 1)
    BY DEF CString, SelectInSeq
  <1>4. \A i \in 1 .. Len(s) : i \in I <=> s[i] = "NUL" OBVIOUS
  <1> HIDE DEF I
  <1>5. CASE I = {}
    <2>1. CString(s) = s BY <1>3, <1>5
    <2> QED BY <2>1, <1>1, <1>4, <1>5
  <1>6. CASE I # {}
    <2> DEFINE m == Min(I)
    <2>1. m \in I /\ \A y \in I : m <= y BY <1>2, <1>6, MinOfNat
    <2> HIDE DEF m
    <2>2. m \in 1 .. Len(s) BY <1>2, <2>1
    <2>3. CString(s) = SubSeq(s, 1, m - 1) BY <1>3, <1>6, <2>2 DEF m
    <2>4. m - 1 \in Nat /\ m - 1 <= Len(s) /\ m - 1 \in 0 .. Len(s) BY <2>2, <1>1
    <2>5. /\ CString(s) \in Seq(S) /\ Len(CString(s)) = m - 1
          /\ \A i \in 1 .. m - 1 : CString(s)[i] = s[i]
      BY <2>3, <2>4, FirstPart
    <2>6. ASSUME NEW i \in 1 .. m - 1 PROVE s[i] # "NUL"
      <3>1. i \in 1 .. Len(s) /\ i < m BY <2>2, <1>1
      <3>2. i \notin I BY <2>1, <2>2, <3>1
      <3> QED BY <3>1, <3>2, <1>4
    <2>7. (m - 1) + 1 = m /\ s[m] = "NUL" BY <2>1, <2>2, <1>4
    <2> QED BY <2>4, <2>5, <2>6, <2>7
  <1> QED BY <1>5, <1>6

(* A string without its line end, byte by byte. *)
LEMMA StripCrlfIs ==
  ASSUME NEW S, NEW s \in Seq(S)
  PROVE  /\ StripCrlf(s) \in Seq(S) /\ Len(StripCrlf(s)) \in 0 .. Len(s)
         /\ \A i \in 1 .. Len(StripCrlf(s)) : StripCrlf(s)[i] = s[i]
         /\ Len(StripCrlf(s)) > 0 => s[Len(StripCrlf(s))] \notin {"CR", "LF"}
         /\ \A j \in Len(StripCrlf(s)) + 1 .. Len(s) : s[j] \in {"CR", "LF"}
  <1> DEFINE I == {i \in 1 .. Len(s) : s[i] \notin {"CR", "LF"}}
             m == IF I # {} THEN Max(I) ELSE 0
  <1>1. Len(s) \in Nat OBVIOUS
  <1>2. I \subseteq 1 .. Len(s) OBVIOUS
  <1>3. StripCrlf(s) = SubSeq(s, 1, m) BY DEF StripCrlf, SelectLastInSeq
  <1>4. \A i \in 1 .. Len(s) : i \in I <=> s[i] \notin {"CR", "LF"} OBVIOUS
  <1> HIDE DEF I
  <1>5. (m = 0 /\ I = {}) \/ (m \in I /\ \A i \in I : i <= m)
    <2>1. I # {} => Max(I) \in I /\ \A i \in I : i <= Max(I) BY <1>1, <1>2, MaxUpTo
    <2> QED BY <2>1
  <1> HIDE DEF m
  <1>6. m \in Nat /\ m <= Len(s)
    <2>1. m = 0 \/ m \in I BY <1>5
    <2>2. m = 0 \/ m \in 1 .. Len(s) BY <1>2, <2>1
    <2> QED BY <1>1, <2>2
  <1>7. /\ StripCrlf(s) \in Seq(S) /\ Len(StripCrlf(s)) = m
        /\ \A i \in 1 .. m : StripCrlf(s)[i] = s[i]
    BY <1>3, <1>6, FirstPart
  <1>8. m > 0 => s[m] \notin {"CR", "LF"}
    <2> SUFFICES ASSUME m > 0 PROVE s[m] \notin {"CR", "LF"}
      OBVIOUS
    <2>1. m \in I BY <1>5, <1>6
    <2>2. m \in 1 .. Len(s) BY <1>2, <2>1
    <2> QED BY <2>1, <2>2, <1>4
  <1>9. ASSUME NEW j \in m + 1 .. Len(s) PROVE s[j] \in {"CR", "LF"}
    <2>1. j \in 1 .. Len(s) /\ ~(j <= m) BY <1>1, <1>6
    <2>2. j \notin I BY <2>1, <1>5
    <2> QED BY <2>1, <2>2, <1>4
  <1>10. m \in 0 .. Len(s) BY <1>1, <1>6
  <1> QED BY <1>7, <1>8, <1>9, <1>10

(* The line that a text is read as: LineIsText, of any line and text. *)
IsLineOf(l, text) ==
  /\ IsPrefix(l, text)
  /\ \A i \in 1 .. Len(l) : l[i] # "NUL"
  /\ l # <<>> => Last(l) \notin {"CR", "LF"}
  /\ \A j \in Len(l) + 1 .. Len(text) :
       (\A i \in Len(l) + 1 .. j : text[i] # "NUL") => text[j] \in {"CR", "LF"}

(* Of any bytes, the C string without its line end is such a line. *)
LEMMA LineOfText ==
  ASSUME NEW S, NEW text \in Seq(S)
  PROVE  IsLineOf(StripCrlf(CString(text)), text)
  <1> DEFINE c == CString(text)
             l == StripCrlf(c)
  <1>1. /\ c \in Seq(S) /\ Len(c) \in 0 .. Len(text)
        /\ \A i \in 1 .. Len(c) : c[i] = text[i] /\ text[i] # "NUL"
        /\ Len(c) < Len(text) => text[Len(c) + 1] = "NUL"
    BY CStringIs
  <1> HIDE DEF c
  <1>2. /\ l \in Seq(S) /\ Len(l) \in 0 .. Len(c)
        /\ \A i \in 1 .. Len(l) : l[i] = c[i]
        /\ Len(l) > 0 => c[Len(l)] \notin {"CR", "LF"}
        /\ \A j \in Len(l) + 1 .. Len(c) : c[j] \in {"CR", "LF"}
    BY <1>1, StripCrlfIs
  <1> HIDE DEF l
  <1>3. Len(text) \in Nat /\ Len(c) \in Nat /\ Len(l) \in Nat BY <1>1, <1>2
  <1>4. \A i \in 1 .. Len(l) : l[i] = text[i] /\ l[i] # "NUL" BY <1>1, <1>2, <1>3
  <1>5. IsPrefix(l, text)
    <2> DEFINE p == SubSeq(l, 1, Len(l))
               q == SubSeq(text, 1, Len(l))
    <2>1. Len(l) <= Len(text) BY <1>1, <1>2, <1>3
    <2>2. p \in Seq(S) /\ Len(p) = Len(l) /\ \A i \in 1 .. Len(l) : p[i] = l[i] BY <1>2, <1>3, FirstPart
    <2>3. q \in Seq(S) /\ Len(q) = Len(l) /\ \A i \in 1 .. Len(l) : q[i] = text[i]
      BY <1>3, <2>1, FirstPart
    <2> HIDE DEF p, q
    <2>4. \A i \in 1 .. Len(p) : p[i] = q[i] BY <1>4, <2>2, <2>3
    <2>5. p = q BY <2>2, <2>3, <2>4, SeqEqual
    <2> QED BY <2>1, <2>5 DEF IsPrefix, p, q
  <1>6. ASSUME l # <<>> PROVE Last(l) \notin {"CR", "LF"}
    <2>1. Len(l) > 0 /\ Len(l) \in 1 .. Len(l) BY <1>2, <1>3, <1>6
    <2> QED BY <2>1, <1>2 DEF Last
  <1>7. ASSUME NEW j \in Len(l) + 1 .. Len(text), \A i \in Len(l) + 1 .. j : text[i] # "NUL"
        PROVE  text[j] \in {"CR", "LF"}
    <2>1. j <= Len(c)
      <3> SUFFICES ASSUME ~(j <= Len(c)) PROVE FALSE
        OBVIOUS
      <3>1. Len(c) < Len(text) /\ Len(c) + 1 \in Len(l) + 1 .. j BY <1>1, <1>2, <1>3
      <3> QED BY <3>1, <1>1, <1>7
    <2>2. j \in Len(l) + 1 .. Len(c) /\ j \in 1 .. Len(c) BY <2>1, <1>2, <1>3
    <2> QED BY <2>2, <1>1, <1>2
  <1> QED BY <1>4, <1>5, <1>6, <1>7 DEF IsLineOf, c, l

(* telnet_read_line reads the text of its peer. *)
LEMMA ReadLineIs ==
  ASSUME TelnetAssumption, NEW items \in Seq(Item), NEW got \in Begun,
         Encode(items) \o got # <<>>
  PROVE  IsLineOf(ReadLine(Encode(items) \o got), Cut(Text(items) \o Shown(got), LineSize))
  <1> DEFINE all == Text(items) \o Shown(got)
             text == Cut(all, LineSize)
  <1>1. StripIac(Encode(items) \o got) = text /\ all \in Seq(Byte) BY FilterText
  <1>2. text \in Seq(Byte)
    <2> DEFINE M == {Len(all), LineSize - 1}
    <2>1. Len(all) \in Nat /\ LineSize - 1 \in Nat BY <1>1 DEF TelnetAssumption
    <2>2. M \subseteq Nat /\ M # {} BY <2>1
    <2>3. Min(M) \in M /\ \A y \in M : Min(M) <= y BY <2>2, MinOfNat
    <2>4. text = SubSeq(all, 1, Min(M)) BY DEF Cut
    <2>5. Len(all) \in M /\ all \in Seq(Byte) BY <1>1
    <2> HIDE DEF M, all, text
    <2>6. Min(M) \in Nat /\ Min(M) <= Len(all) BY <2>2, <2>3, <2>5
    <2>7. SubSeq(all, 1, Min(M)) \in Seq(Byte) BY <2>5, <2>6, FirstPart
    <2> QED BY <2>4, <2>7
  <1> HIDE DEF text
  <1>3. IsLineOf(StripCrlf(CString(text)), text) BY <1>2, LineOfText
  <1>4. ReadLine(Encode(items) \o got) = StripCrlf(CString(text)) BY <1>1 DEF ReadLine
  <1> QED BY <1>3, <1>4 DEF text

(* What a segment that begins between two items is made of. *)
LEMMA SegmentIs ==
  ASSUME TelnetAssumption, NEW rest, NEW seg \in Segments(rest), seg.start = "between"
  PROVE  /\ seg.items \in Seq(Item) /\ seg.got \in Begun
         /\ seg.bytes = Encode(seg.items) \o seg.got /\ seg.bytes # <<>>
  <1>0. \A k \in 1 .. Len(rest) - 1 : PartOf(rest, k).start = "within" BY DEF PartOf
  <1>1. (\E items \in Inputs, stop \in Stops : seg = WithItems(rest, items, stop)) /\ Fits(seg)
    BY <1>0 DEF Segments
  <1>2. PICK items \in Inputs, stop \in Stops : seg = WithItems(rest, items, stop) BY <1>1
  <1>7. /\ seg.start = (IF rest = <<>> THEN "between" ELSE "within")
        /\ seg.items = items /\ seg.got = stop.got
        /\ seg.bytes = rest \o Encode(items) \o stop.got
    BY <1>2 DEF WithItems
  <1>3. items \in Seq(Item) BY DEF TelnetAssumption, Item
  <1>4. rest = <<>> BY <1>7
  <1>5. stop.got \in Begun
    <2>1. CASE stop = [got |-> <<>>, left |-> <<>>] BY <2>1 DEF Begun
    <2>2. ASSUME NEW c \in Commands, NEW k \in 1 .. Len(Bytes(c)) - 1,
                 stop.got = SubSeq(Bytes(c), 1, k)
          PROVE  stop.got \in Begun
      <3>0. Bytes(c) \in Seq(Byte)
        <4>1. /\ "IAC" \in Byte /\ "WILL" \in Byte /\ "OPT" \in Byte
              /\ "SB" \in Byte /\ "SE" \in Byte /\ "NOP" \in Byte
          BY DEF Byte
        <4> HIDE DEF Byte
        <4>2. CASE c = "negotiate" BY <4>1, <4>2 DEF Bytes
        <4>3. CASE c = "subnegotiate" BY <4>1, <4>3 DEF Bytes
        <4>4. CASE c = "nop" BY <4>1, <4>4 DEF Bytes
        <4>5. CASE c = "escaped" BY <4>1, <4>5 DEF Bytes
        <4> QED BY <4>2, <4>3, <4>4, <4>5 DEF Commands
      <3> DEFINE w == Bytes(c)
      <3>5. /\ Len(w) >= 1 => SubSeq(w, 1, 1) = <<w[1]>>
            /\ Len(w) >= 2 => SubSeq(w, 1, 2) = <<w[1], w[2]>>
            /\ Len(w) >= 3 => SubSeq(w, 1, 3) = <<w[1], w[2], w[3]>>
            /\ Len(w) >= 4 => SubSeq(w, 1, 4) = <<w[1], w[2], w[3], w[4]>>
        <4> HIDE DEF w
        <4>1. w \in Seq(Byte) BY <3>0 DEF w
        <4> QED BY <4>1, FirstFew
      <3>6. k \in 1 .. Len(w) - 1 /\ stop.got = SubSeq(w, 1, k) BY <2>2
      <3>1. CASE c = "negotiate"
        <4>1. w = <<"IAC", "WILL", "OPT">> BY <3>1 DEF Bytes
        <4> HIDE DEF w
        <4>2. Len(w) = 3 /\ w[1] = "IAC" /\ w[2] = "WILL" BY <4>1
        <4>3. (k = 1 /\ stop.got = <<"IAC">>) \/ (k = 2 /\ stop.got = <<"IAC", "WILL">>)
          BY <4>2, <3>5, <3>6
        <4> QED BY <4>3 DEF Begun
      <3>2. CASE c = "subnegotiate"
        <4>1. w = <<"IAC", "SB", "OPT", "IAC", "SE">> BY <3>2 DEF Bytes
        <4> HIDE DEF w
        <4>2. Len(w) = 5 /\ w[1] = "IAC" /\ w[2] = "SB" /\ w[3] = "OPT" /\ w[4] = "IAC" BY <4>1
        <4>3. k = 1 \/ k = 2 \/ k = 3 \/ k = 4 BY <4>2, <3>6
        <4>4. \/ stop.got = <<"IAC">> \/ stop.got = <<"IAC", "SB">>
              \/ stop.got = <<"IAC", "SB", "OPT">> \/ stop.got = <<"IAC", "SB", "OPT", "IAC">>
          BY <4>2, <4>3, <3>5, <3>6
        <4> QED BY <4>4, Zenon DEF Begun
      <3>3. CASE c = "nop" \/ c = "escaped"
        <4>1. w = <<"IAC", "NOP">> \/ w = <<"IAC", "IAC">> BY <3>3 DEF Bytes
        <4> HIDE DEF w
        <4>2. Len(w) = 2 /\ w[1] = "IAC" BY <4>1
        <4>3. k = 1 /\ stop.got = <<"IAC">> BY <4>2, <3>5, <3>6
        <4> QED BY <4>3 DEF Begun
      <3> QED BY <3>1, <3>2, <3>3 DEF Commands
    <2> QED BY <2>1, <2>2 DEF Stops
  <1>6. <<>> \o Encode(items) \o stop.got = Encode(items) \o stop.got
    <2>1. Encode(items) \in Seq(Byte) BY <1>3, EncodeTyped
    <2> QED BY <2>1
  <1> QED BY <1>1, <1>3, <1>4, <1>5, <1>6, <1>7 DEF Fits

(* The line is always what was read of what the peer has last sent, when   *)
(* recv began between two of its items.                                    *)
LineIInv ==
  read.start = "between" => IsLineOf(line, Cut(Text(read.items) \o Shown(read.got), LineSize))

(* LineIsText: whatever Telnet commands a peer sends among its text, and   *)
(* wherever recv stops, in the middle of a command too, the line that      *)
(* telnet_read_line gives to the login and to the shell is the text alone, *)
(* with at most an IAC that came last; provided recv began where one of    *)
(* the peer's items begins.                                                *)
THEOREM TelnetReadsText == Spec => []LineIsText
  <1> USE TelnetAssumption
  <1>1. Init => LineIInv
    <2> SUFFICES ASSUME Init PROVE LineIInv
      OBVIOUS
    <2>1. read.items = <<>> /\ read.got = <<>> /\ line = <<>> BY DEF Init
    <2>2. Text(<<>>) = <<>>
      <3> DEFINE b == [i \in 1 .. Len(<<>>) |-> Meaning(<<>>[i])]
      <3>1. b \in Seq({}) /\ Len(b) = 0
        <4>1. Len(<<>>) = 0 /\ 1 .. 0 = {} OBVIOUS
        <4>2. b = [i \in 1 .. 0 |-> Meaning(<<>>[i])] BY <4>1
        <4> QED BY <4>1, <4>2
      <3>2. Text(<<>>) = Joined(b) BY DEF Text
      <3> HIDE DEF b
      <3>3. PICK f : Joined(b) = f[1] /\ IsJoin(b, f) BY <3>1, JoinedIs
      <3>4. 1 \in 1 .. 0 + 1 /\ 1 > 0 OBVIOUS
      <3>5. f[1] = <<>> BY <3>1, <3>3, <3>4 DEF IsJoin
      <3> QED BY <3>2, <3>3, <3>5
    <2>3. Shown(<<>>) = <<>> /\ <<>> \o <<>> = <<>> BY DEF Shown
    <2>4. Cut(<<>>, LineSize) = <<>>
      <3> DEFINE M == {0, LineSize - 1}
      <3>1. LineSize - 1 \in Nat BY DEF TelnetAssumption
      <3>2. M \subseteq Nat /\ M # {} BY <3>1
      <3>3. Min(M) \in M /\ \A y \in M : Min(M) <= y BY <3>2, MinOfNat
      <3>4. Min(M) = 0 BY <3>1, <3>3
      <3>5. SubSeq(<<>>, 1, 0) = <<>> OBVIOUS
      <3>6. Len(<<>>) = 0 OBVIOUS
      <3> QED BY <3>4, <3>5, <3>6 DEF Cut
    <2>5. IsLineOf(<<>>, <<>>)
      <3>1. Len(<<>>) = 0 /\ 1 .. 0 = {} /\ 0 + 1 .. 0 = {} OBVIOUS
      <3>2. IsPrefix(<<>>, <<>>) BY <3>1 DEF IsPrefix
      <3> QED BY <3>1, <3>2 DEF IsLineOf
    <2> QED BY <2>1, <2>2, <2>3, <2>4, <2>5 DEF LineIInv
  <1>2. LineIInv /\ [Next]_vars => LineIInv'
    <2> SUFFICES ASSUME LineIInv, [Next]_vars PROVE LineIInv'
      OBVIOUS
    <2>1. CASE UNCHANGED <<line, read>> BY <2>1 DEF LineIInv, IsLineOf
    <2>2. ASSUME NEW seg \in Segments(read.left), line' = ReadLine(seg.bytes), read' = seg
          PROVE  LineIInv'
      <3>1. CASE seg.start = "between"
        <4>1. /\ seg.items \in Seq(Item) /\ seg.got \in Begun
              /\ seg.bytes = Encode(seg.items) \o seg.got /\ seg.bytes # <<>>
          BY <3>1, SegmentIs
        <4>2. IsLineOf(line', Cut(Text(seg.items) \o Shown(seg.got), LineSize))
          BY <4>1, <2>2, ReadLineIs
        <4> QED BY <2>2, <4>2 DEF LineIInv, IsLineOf
      <3>2. CASE seg.start # "between" BY <2>2, <3>2 DEF LineIInv
      <3> QED BY <3>1, <3>2
    <2>3. CASE \E seg \in Segments(read.left) : ReadUser(seg) \/ ReadPassword(seg) \/ ReadCommand(seg)
      BY <2>2, <2>3 DEF ReadUser, ReadPassword, ReadCommand
    <2>4. CASE PeerGone \/ EndSession BY <2>1, <2>4 DEF PeerGone, EndSession
    <2>5. CASE Closed \/ UNCHANGED vars BY <2>1, <2>5 DEF Closed, vars
    <2> QED BY <2>3, <2>4, <2>5 DEF Next
  <1>3. LineIInv => LineIsText BY DEF LineIInv, IsLineOf, LineIsText, Cut
  <1> QED BY <1>1, <1>2, <1>3, PTL DEF Spec
=============================================================================
