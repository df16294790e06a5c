-------------------------- MODULE Lifecycle_proof --------------------------
(***************************************************************************)
(* Proofs about Lifecycle, for every number of listeners, connections,     *)
(* descriptors, permits and buckets.                                       *)
(***************************************************************************)
EXTENDS Lifecycle, FiniteSetTheorems, SequenceTheorems, TLAPS

(***************************************************************************)
(* The semaphore, on its own: ConnSemaphore with any number of listeners,  *)
(* connections and permits.                                                *)
(***************************************************************************)

(* Adding a new element to a finite set adds one to its cardinality.       *)
LEMMA CardinalityAdd ==
  ASSUME NEW S, IsFiniteSet(S), NEW x, x \notin S
  PROVE  Cardinality(S \cup {x}) = Cardinality(S) + 1 /\ Cardinality(S) \in Nat
BY FS_AddElement, FS_CardinalityType

(* Removing an element of a finite set takes one from its cardinality.     *)
LEMMA CardinalityRemove ==
  ASSUME NEW S, IsFiniteSet(S), NEW x \in S
  PROVE  Cardinality(S \ {x}) = Cardinality(S) - 1 /\ Cardinality(S) \in Nat
BY FS_RemoveElement, FS_CardinalityType

(* The sets of the semaphore are finite.                                   *)
LEMMA SetsFinite ==
  ASSUME SemTypeOK
  PROVE  /\ IsFiniteSet(asleep) /\ IsFiniteSet(woken) /\ IsFiniteSet(inside)
         /\ Cardinality(woken) \in Nat /\ Cardinality(inside) \in Nat
BY SemaphoreAssumption, FS_Subset, FS_CardinalityType DEF SemTypeOK

(* SemIInv is inductive: what a thread finds when it falls asleep is what  *)
(* release accounts for when it signals.                                   *)
LEMMA SemStep ==
  ASSUME SemIInv, [SemNext]_semVars
  PROVE  SemIInv'
<1> USE SemaphoreAssumption DEF SemIInv
<1>0. /\ IsFiniteSet(asleep) /\ IsFiniteSet(woken) /\ IsFiniteSet(inside)
      /\ Cardinality(woken) \in Nat /\ Cardinality(inside) \in Nat
  BY SetsFinite
<1>1. ASSUME NEW t \in Listeners, NEW c \in Conns, SemAcquire(t, c)
      PROVE  SemIInv'
  <2>1. Cardinality(inside') = Cardinality(inside) + 1
    BY <1>0, <1>1, CardinalityAdd DEF SemAcquire
  <2>. QED
    BY <1>0, <1>1, <2>1 DEF SemAcquire, SemFull, SemTypeOK, ServedWithinMax, NoLostWakeup
<1>2. ASSUME NEW t \in Listeners, NEW c \in Conns, SemResume(t, c)
      PROVE  SemIInv'
  <2>1. Cardinality(inside') = Cardinality(inside) + 1
    BY <1>0, <1>2, CardinalityAdd DEF SemResume
  <2>2. Cardinality(woken') = Cardinality(woken) - 1
    BY <1>0, <1>2, CardinalityRemove DEF SemResume
  <2>. QED
    BY <1>0, <1>2, <2>1, <2>2
       DEF SemResume, SemStillFull, SemFull, SemTypeOK, ServedWithinMax, NoLostWakeup
<1>3. ASSUME NEW t \in Listeners, SemSleep(t)
      PROVE  SemIInv'
  BY <1>0, <1>3 DEF SemSleep, SemFull, SemTypeOK, ServedWithinMax, NoLostWakeup
<1>4. ASSUME NEW t \in Listeners, SemSpuriousWake(t)
      PROVE  SemIInv'
  <2>0. t \notin woken /\ woken' = woken \cup {t}
    BY <1>4 DEF SemSpuriousWake
  <2>1. Cardinality(woken') = Cardinality(woken) + 1
    BY <1>0, <2>0, CardinalityAdd
  <2>. QED
    BY <1>0, <1>4, <2>1 DEF SemSpuriousWake, SemTypeOK, ServedWithinMax, NoLostWakeup
<1>5. ASSUME NEW t \in Listeners, SemSleepAgain(t)
      PROVE  SemIInv'
  <2>1. Cardinality(woken') = Cardinality(woken) - 1
    BY <1>0, <1>5, CardinalityRemove DEF SemSleepAgain
  <2>2. Cardinality(woken) >= 1
    BY <1>0, <1>5, FS_EmptySet DEF SemSleepAgain
  <2>3. MaxConnections - count' <= 0
    BY <1>5 DEF SemSleepAgain, SemStillFull, SemFull, SemTypeOK
  <2>. QED
    BY <1>0, <1>5, <2>1, <2>2, <2>3
       DEF SemSleepAgain, SemTypeOK, ServedWithinMax, NoLostWakeup
<1>6. ASSUME NEW c \in Conns, SemRelease(c)
      PROVE  SemIInv'
  <2>1. Cardinality(inside') = Cardinality(inside) - 1
    BY <1>0, <1>6, CardinalityRemove DEF SemRelease
  <2>2. CASE asleep = {}
    <3>1. asleep' = {} /\ woken' = woken
      BY <1>6, <2>2 DEF SemRelease, AfterSignal
    <3>. QED
      BY <1>0, <1>6, <2>1, <3>1 DEF SemRelease, SemTypeOK, ServedWithinMax, NoLostWakeup
  <2>3. CASE asleep # {}
    <3>1. PICK t \in asleep : asleep' = asleep \ {t}
      BY <1>6, <2>3 DEF SemRelease, AfterSignal
    <3>2. woken' = woken \cup {t}
      BY <1>6, <3>1 DEF SemRelease
    <3>3. Cardinality(woken') = Cardinality(woken) + 1
      BY <1>0, <3>2, CardinalityAdd
    <3>. QED
      BY <1>0, <1>6, <2>1, <2>3, <3>1, <3>2, <3>3
         DEF SemRelease, SemTypeOK, ServedWithinMax, NoLostWakeup
  <2>. QED
    BY <2>2, <2>3
<1>7. CASE UNCHANGED semVars
  BY <1>7 DEF semVars, SemTypeOK, ServedWithinMax, NoLostWakeup
<1>. QED
  BY <1>1, <1>2, <1>3, <1>4, <1>5, <1>6, <1>7 DEF SemNext

(* SemIInv is an invariant of the semaphore.                               *)
THEOREM SemInvariance == SemSpec => []SemIInv
<1>1. SemInit => SemIInv
  BY SemaphoreAssumption, FS_EmptySet
     DEF SemInit, SemIInv, SemTypeOK, ServedWithinMax, NoLostWakeup
<1>2. SemIInv /\ [SemNext]_semVars => SemIInv'
  BY SemStep
<1>. QED
  BY <1>1, <1>2, PTL DEF SemSpec

(* At most max_connections connections are ever served at once.            *)
THEOREM BoundCorrect == SemSpec => []ServedWithinMax
BY SemInvariance, PTL DEF SemIInv

(* conn_semaphore_release never strands a sleeping listener.               *)
THEOREM WakeupCorrect == SemSpec => []NoLostWakeup
BY SemInvariance, PTL DEF SemIInv
----------------------------------------------------------------------------

(***************************************************************************)
(* Facts about the operators of the model.                                 *)
(***************************************************************************)

(* A set of numbers that is not empty has a least element, the one Min     *)
(* chooses.                                                                *)
LEMMA MinOfNat ==
  ASSUME NEW S, S \subseteq Nat, S # {}
  PROVE  Min(S) \in S /\ \A y \in S : Min(S) <= y
<1> DEFINE R == OpToRel(<, Nat)
<1>1. \A x, y \in Nat : x < y => <<x, y>> \in R
  BY DEF OpToRel
<1>2. IsWellFoundedOn(R, Nat)
  BY NatLessThanWellFounded
<1> HIDE DEF R
<1>3. PICK x \in S : \A y \in S : ~(<<y, x>> \in R)
  BY <1>2, WFMin
<1>4. ASSUME NEW y \in S PROVE x <= y
  <2>1. x \in Nat /\ y \in Nat /\ ~(<<y, x>> \in R)
    BY <1>3
  <2>2. ~(y < x)
    BY <1>1, <2>1
  <2>. QED
    BY <2>1, <2>2
<1>. QED
  BY <1>4 DEF Min

(* accept returns a descriptor that is not in use.                         *)
LEMMA FreeFdIsFree ==
  ASSUME NEW f \in FreeFds
  PROVE  f \in Fds /\ f \notin openFds
<1>1. f = Min(Fds \ openFds) /\ Fds \ openFds # {}
  BY DEF FreeFds
<1>. QED
  BY <1>1, MinOfNat, LifecycleAssumption

(* session_table_add leaves a bucket of the old nodes and the new one.     *)
LEMMA PushedBucket ==
  ASSUME NEW S, NEW s \in Seq(S), NEW c \in S
  PROVE  /\ Pushed(s, c) \in Seq(S)
         /\ ToSet(Pushed(s, c)) = ToSet(s) \cup {c}
         /\ (c \notin ToSet(s) /\ \A i, j \in DOMAIN s : s[i] = s[j] => i = j)
              => \A i, j \in DOMAIN Pushed(s, c) : Pushed(s, c)[i] = Pushed(s, c)[j] => i = j
<1> DEFINE t == Pushed(s, c)
<1>1. /\ t \in Seq(S) /\ Len(t) = Len(s) + 1
      /\ t[1] = c /\ \A i \in 1 .. Len(s) : t[i + 1] = s[i]
  BY DEF Pushed
<1>2. DOMAIN s = 1 .. Len(s) /\ DOMAIN t = 1 .. Len(s) + 1 /\ Len(s) \in Nat
  BY <1>1, LenProperties
<1>3. \A i \in 2 .. Len(s) + 1 : i - 1 \in DOMAIN s /\ t[i] = s[i - 1]
  <2>1. ASSUME NEW i \in 2 .. Len(s) + 1 PROVE i - 1 \in 1 .. Len(s) /\ (i - 1) + 1 = i
    BY <1>2
  <2>. QED
    BY <1>1, <1>2, <2>1
<1>4. ToSet(t) = ToSet(s) \cup {c}
  <2> HIDE DEF t
  <2>1. ASSUME NEW x \in ToSet(t) PROVE x \in ToSet(s) \cup {c}
    <3>1. PICK i \in 1 .. Len(s) + 1 : x = t[i]
      BY <1>2 DEF ToSet
    <3>2. CASE i = 1
      BY <1>1, <3>1, <3>2
    <3>3. CASE i \in 2 .. Len(s) + 1
      BY <1>3, <3>1, <3>3 DEF ToSet
    <3>. QED
      BY <1>2, <3>2, <3>3
  <2>2. ASSUME NEW i \in DOMAIN s PROVE s[i] \in ToSet(t)
    BY <1>1, <1>2 DEF ToSet
  <2>3. c \in ToSet(t)
    BY <1>1, <1>2 DEF ToSet
  <2>. QED
    BY <2>1, <2>2, <2>3 DEF ToSet
<1>5. ASSUME c \notin ToSet(s), \A i, j \in DOMAIN s : s[i] = s[j] => i = j,
             NEW i \in DOMAIN t, NEW j \in DOMAIN t, t[i] = t[j]
      PROVE  i = j
  <2> HIDE DEF t
  <2>1. \A k \in 2 .. Len(s) + 1 : t[k] # c
    BY <1>3, <1>5 DEF ToSet
  <2>2. CASE i = 1 \/ j = 1
    BY <1>1, <1>2, <1>5, <2>1, <2>2
  <2>3. CASE i \in 2 .. Len(s) + 1 /\ j \in 2 .. Len(s) + 1
    <3>1. i - 1 = j - 1
      BY <1>3, <1>5, <2>3
    <3>. QED
      BY <3>1, <2>3, <1>2
  <2>. QED
    BY <1>2, <2>2, <2>3
<1>. QED
  BY <1>1, <1>4, <1>5

(* RemoveAt moves the elements after place n one place forward.            *)
LEMMA RemoveAtShifts ==
  ASSUME NEW S, NEW s \in Seq(S), NEW n \in 1 .. Len(s)
  PROVE  /\ RemoveAt(s, n) \in Seq(S) /\ Len(RemoveAt(s, n)) = Len(s) - 1
         /\ \A i \in 1 .. Len(s) - 1 : RemoveAt(s, n)[i] = s[IF i < n THEN i ELSE i + 1]
<1> DEFINE u == SubSeq(s, 1, n - 1)
           v == SubSeq(s, n + 1, Len(s))
<1>1. Len(s) \in Nat /\ \A i \in 1 .. Len(s) : s[i] \in S
  BY LenProperties, ElementOfSeq
<1>2. u \in Seq(S) /\ Len(u) = n - 1 /\ \A i \in 1 .. n - 1 : u[i] = s[i]
  BY <1>1, SubSeqProperties
<1>3. v \in Seq(S) /\ Len(v) = Len(s) - n /\ \A i \in 1 .. Len(s) - n : v[i] = s[n + i]
  <2>1. /\ v \in Seq(S) /\ Len(v) = IF n + 1 <= Len(s) THEN Len(s) - (n + 1) + 1 ELSE 0
        /\ \A i \in 1 .. Len(s) - (n + 1) + 1 : v[i] = s[(n + 1) + i - 1]
    BY <1>1, SubSeqProperties
  <2> HIDE DEF v
  <2>2. /\ Len(s) - (n + 1) + 1 = Len(s) - n
        /\ \A i \in 1 .. Len(s) - n : (n + 1) + i - 1 = n + i
    BY <1>1
  <2>3. Len(v) = Len(s) - n
    <3>1. CASE n + 1 <= Len(s)
      BY <2>1, <2>2, <3>1
    <3>2. CASE ~(n + 1 <= Len(s))
      <4>1. Len(s) - n = 0
        BY <1>1, <3>2
      <4>. QED
        BY <2>1, <3>2, <4>1
    <3>. QED
      BY <3>1, <3>2
  <2>. QED
    BY <2>1, <2>2, <2>3
<1>4. RemoveAt(s, n) = u \o v
  BY DEF RemoveAt
<1> HIDE DEF u, v
<1>5. /\ u \o v \in Seq(S) /\ Len(u \o v) = Len(u) + Len(v)
      /\ \A i \in 1 .. Len(u) + Len(v) : (u \o v)[i] = IF i <= Len(u) THEN u[i] ELSE v[i - Len(u)]
  BY <1>2, <1>3, ConcatProperties
<1>6. ASSUME NEW i \in 1 .. Len(s) - 1
      PROVE  (u \o v)[i] = s[IF i < n THEN i ELSE i + 1]
  <2>1. CASE i < n
    <3>1. i \in 1 .. n - 1 /\ i <= Len(u) /\ i \in 1 .. Len(u) + Len(v)
      BY <1>1, <1>2, <1>3, <2>1
    <3>. QED
      BY <1>2, <1>5, <2>1, <3>1
  <2>2. CASE i >= n
    <3>1. i - (n - 1) \in 1 .. Len(s) - n /\ n + (i - (n - 1)) = i + 1
      BY <1>1, <2>2
    <3>2. (u \o v)[i] = v[i - (n - 1)]
      BY <1>1, <1>2, <1>3, <1>5, <2>2
    <3>. QED
      BY <1>1, <1>3, <2>2, <3>1, <3>2
  <2>3. i < n \/ i >= n
    BY <1>1
  <2>. QED
    BY <2>1, <2>2, <2>3
<1>7. Len(u \o v) = Len(s) - 1
  BY <1>1, <1>2, <1>3, <1>5
<1>. QED
  BY <1>4, <1>5, <1>6, <1>7

(* Taking out place n of a bucket without repetitions takes out one node.  *)
LEMMA CutBucket ==
  ASSUME NEW S, NEW s \in Seq(S), NEW n \in 1 .. Len(s),
         \A i, j \in DOMAIN s : s[i] = s[j] => i = j
  PROVE  /\ RemoveAt(s, n) \in Seq(S)
         /\ ToSet(RemoveAt(s, n)) = ToSet(s) \ {s[n]}
         /\ \A i, j \in DOMAIN RemoveAt(s, n) : RemoveAt(s, n)[i] = RemoveAt(s, n)[j] => i = j
<1> DEFINE t == RemoveAt(s, n)
           From(i) == IF i < n THEN i ELSE i + 1
<1>1. DOMAIN s = 1 .. Len(s) /\ Len(s) \in Nat
  BY LenProperties
<1>2. /\ t \in Seq(S) /\ Len(t) = Len(s) - 1
      /\ \A i \in 1 .. Len(s) - 1 : t[i] = s[From(i)]
  BY RemoveAtShifts
<1>3. DOMAIN t = 1 .. Len(s) - 1
  BY <1>2, LenProperties
<1>4. \A i \in DOMAIN t : From(i) \in DOMAIN s /\ From(i) # n /\ t[i] = s[From(i)]
  BY <1>1, <1>2, <1>3
<1>5. \A i, j \in DOMAIN t : From(i) = From(j) => i = j
  BY <1>1, <1>3
<1>6. \A k \in DOMAIN s : k # n => \E i \in DOMAIN t : From(i) = k
  <2> SUFFICES ASSUME NEW k \in DOMAIN s, k # n PROVE \E i \in DOMAIN t : From(i) = k
    OBVIOUS
  <2>1. CASE k < n
    BY <1>1, <1>3, <2>1
  <2>2. CASE k > n
    <3>1. k - 1 \in DOMAIN t /\ From(k - 1) = k
      BY <1>1, <1>3, <2>2
    <3>. QED
      BY <3>1
  <2>. QED
    BY <1>1, <2>1, <2>2
<1> HIDE DEF t, From
<1>7. ToSet(t) = ToSet(s) \ {s[n]}
  <2>1. ASSUME NEW x \in ToSet(t) PROVE x \in ToSet(s) \ {s[n]}
    BY <1>1, <1>4 DEF ToSet
  <2>2. ASSUME NEW x \in ToSet(s) \ {s[n]} PROVE x \in ToSet(t)
    BY <1>4, <1>6 DEF ToSet
  <2>. QED
    BY <2>1, <2>2
<1>8. \A i, j \in DOMAIN t : t[i] = t[j] => i = j
  BY <1>4, <1>5
<1>. QED
  BY <1>2, <1>7, <1>8 DEF t

(* What session_table_remove finds: the first node with the descriptor, if *)
(* there is one.                                                           *)
LEMMA FirstWithFinds ==
  ASSUME NEW S, NEW s \in Seq(S), NEW f
  PROVE  /\ FirstWith(s, f) \in 0 .. Len(s)
         /\ FirstWith(s, f) # 0 => fd[s[FirstWith(s, f)]] = f
         /\ FirstWith(s, f) = 0 => \A i \in 1 .. Len(s) : fd[s[i]] # f
<1> DEFINE I == {i \in 1 .. Len(s) : fd[s[i]] = f}
<1>1. FirstWith(s, f) = IF I # {} THEN Min(I) ELSE 0
  BY DEF FirstWith, SelectInSeq
<1>2. Len(s) \in Nat /\ I \subseteq Nat
  BY LenProperties
<1>3. I # {} => Min(I) \in I
  BY <1>2, MinOfNat
<1>. QED
  BY <1>1, <1>2, <1>3

(***************************************************************************)
(* The inductive invariant, in the order in which its parts are proved:    *)
(* each part is inductive beside the ones before it.                       *)
(***************************************************************************)

LifeTypeOK ==
  /\ mainPc \in {"spawn", "join", "destroy", "audit", "exited", "crashed"}
  /\ lpc \in [Listeners -> {"none", "setup", "unstarted", "test", "accept", "acquire",
                           "spawn", "giveback", "ended"}]
  /\ lconn \in [Listeners -> Conns \cup {NoConn}]
  /\ cstate \in [Conns -> {"none", "pending", "accepted", "turned", "refused", "started",
                          "serving", "closed", "removed", "done"}]
  /\ fd \in [Conns -> Fds \cup {NoFd}]

(* An accepted connection is in the hands of one listener, which does      *)
(* nothing else until it has passed it on or given back its permit.        *)
Handoff ==
  /\ \A l \in Listeners : lconn[l] # NoConn <=> lpc[l] \in {"acquire", "spawn", "giveback"}
  /\ \A l \in Listeners : lconn[l] # NoConn =>
       cstate[lconn[l]] = IF lpc[l] = "giveback" THEN "turned" ELSE "accepted"
  /\ \A c \in Conns : cstate[c] \in {"accepted", "turned"} => \E l \in Listeners : lconn[l] = c
  /\ \A k, l \in Listeners : lconn[k] # NoConn /\ lconn[k] = lconn[l] => k = l

(* A connection keeps the descriptor accept gave it. *)
FdsGiven ==
  \A c \in Conns : cstate[c] \in {"accepted", "started", "serving", "closed", "removed", "done"}
                    => fd[c] \in Fds

(* Types and Handoff hold after every step. *)
LEMMA HandoffStep ==
  ASSUME LifeTypeOK, Handoff, [Next]_vars
  PROVE  LifeTypeOK' /\ Handoff'
<1> USE LifecycleAssumption DEF LifeTypeOK, Handoff
<1>1. ASSUME NEW l \in Listeners, StartListener(l) \/ ListenerSetup(l) \/ ListenerTest(l)
      PROVE  LifeTypeOK' /\ Handoff'
  BY <1>1 DEF StartListener, ListenerSetup, ListenerTest, netVars
<1>2. ASSUME NEW l \in Listeners, NEW c \in Conns, Accept(l, c)
      PROVE  LifeTypeOK' /\ Handoff'
  <2>1. c # NoConn /\ \A k \in Listeners : lconn[k] # c
    BY <1>2 DEF Accept
  <2>2. PICK f \in Fds : fd' = [fd EXCEPT ![c] = f]
    BY <1>2, FreeFdIsFree DEF Accept
  <2>3. LifeTypeOK'
    BY <1>2, <2>2 DEF Accept
  <2>. QED
    BY <1>2, <2>1, <2>3 DEF Accept
<1>3. ASSUME NEW l \in Listeners, NEW c \in Conns, AcceptFails(l, c)
      PROVE  LifeTypeOK' /\ Handoff'
  <2>1. \A k \in Listeners : lconn[k] # c
    BY <1>3 DEF AcceptFails
  <2>. QED
    BY <1>3, <2>1 DEF AcceptFails
<1>4. ASSUME NEW l \in Listeners, Acquire(l) \/ SpuriousWake(l)
      PROVE  LifeTypeOK' /\ Handoff'
  BY <1>4 DEF Acquire, SpuriousWake, netVars
<1>5. ASSUME NEW l \in Listeners, SpawnHandler(l) \/ SpawnFails(l) \/ GiveBack(l)
      PROVE  LifeTypeOK' /\ Handoff'
  <2>1. CASE SpawnFails(l)
    <3>1. /\ lconn[l] \in Conns /\ lconn' = lconn
          /\ lpc' = [lpc EXCEPT ![l] = "giveback"] /\ UNCHANGED <<mainPc, fd>>
          /\ cstate' = [cstate EXCEPT ![lconn[l]] = "turned"]
      BY <2>1 DEF SpawnFails
    <3>. QED
      BY <2>1, <3>1 DEF SpawnFails
  <2>2. CASE SpawnHandler(l) \/ GiveBack(l)
    <3>1. /\ lconn[l] \in Conns /\ lconn' = [lconn EXCEPT ![l] = NoConn]
          /\ lpc' = [lpc EXCEPT ![l] = "test"] /\ UNCHANGED <<mainPc, fd>>
          /\ \E s \in {"started", "refused"} : cstate' = [cstate EXCEPT ![lconn[l]] = s]
      BY <2>2 DEF SpawnHandler, GiveBack
    <3>2. PICK s \in {"started", "refused"} : cstate' = [cstate EXCEPT ![lconn[l]] = s]
      BY <3>1
    <3>3. LifeTypeOK'
      BY <3>1, <3>2
    <3>4. Handoff'
      BY <3>1, <3>2
    <3>. QED
      BY <3>3, <3>4
  <2>. QED
    BY <1>5, <2>1, <2>2
<1>6. ASSUME NEW c \in Conns, NEW l \in Listeners, Connect(c, l)
      PROVE  LifeTypeOK' /\ Handoff'
  <2>1. \A k \in Listeners : lconn[k] # c
    BY <1>6 DEF Connect
  <2>. QED
    BY <1>6, <2>1 DEF Connect
<1>7. ASSUME NEW c \in Conns, HandlerStep(c)
      PROVE  LifeTypeOK' /\ Handoff'
  <2>1. /\ \E s \in {"serving", "closed", "removed", "done"} : cstate' = [cstate EXCEPT ![c] = s]
        /\ cstate[c] \notin {"accepted", "turned"} /\ UNCHANGED <<mainPc, lpc, lconn, fd>>
    BY <1>7 DEF HandlerStep, HandlerAdd, HandlerClose, HandlerRemove, HandlerRelease
  <2>2. \A k \in Listeners : lconn[k] # c
    BY <2>1
  <2>. QED
    BY <2>1, <2>2
<1>8. ASSUME NEW c \in Conns, CreateFails(c) \/ UseAfterFree(c)
      PROVE  LifeTypeOK' /\ Handoff'
  BY <1>8 DEF CreateFails, UseAfterFree, netVars
<1>9. CASE StopSignal
  BY <1>9 DEF StopSignal, netVars
<1>10. CASE MainStep
  BY <1>10 DEF MainStep, JoinListeners, DestroyTable, MainReturns, netVars
<1>11. CASE UNCHANGED vars
  BY <1>11 DEF vars
<1>. QED
  BY <1>1, <1>2, <1>3, <1>4, <1>5, <1>6, <1>7, <1>8, <1>9, <1>10, <1>11 DEF Next, ListenerStep

(* Whoever closes the descriptor of c, and takes c from the connections    *)
(* whose descriptor is open, leaves the others alone.                      *)
LEMMA CloseOne ==
  ASSUME DescriptorsOwned, NEW c \in Open,
         Open' = Open \ {c}, openFds' = openFds \ {fd[c]}, fd' = fd
  PROVE  DescriptorsOwned'
<1>1. \A d \in Open : d # c => fd[d] # fd[c]
  BY DEF DescriptorsOwned
<1>2. openFds' = {fd[d] : d \in Open \ {c}}
  BY <1>1 DEF DescriptorsOwned
<1>. QED
  BY <1>2 DEF DescriptorsOwned

(* A step that neither opens nor closes anything. *)
LEMMA NoneClosed ==
  ASSUME DescriptorsOwned, Open' = Open, openFds' = openFds, fd' = fd
  PROVE  DescriptorsOwned'
BY DEF DescriptorsOwned

(* FdsGiven and DescriptorsOwned hold after every step. *)
LEMMA DescriptorStep ==
  ASSUME LifeTypeOK, Handoff, FdsGiven, DescriptorsOwned, [Next]_vars
  PROVE  FdsGiven' /\ DescriptorsOwned'
<1> USE LifecycleAssumption
<1>1. ASSUME NEW l \in Listeners, NEW c \in Conns, Accept(l, c)
      PROVE  FdsGiven' /\ DescriptorsOwned'
  <2>1. PICK f \in Fds : /\ fd' = [fd EXCEPT ![c] = f] /\ f \notin openFds
                         /\ openFds' = openFds \cup {f}
    BY <1>1, FreeFdIsFree DEF Accept
  <2>2. cstate[c] = "pending" /\ cstate' = [cstate EXCEPT ![c] = "accepted"]
    BY <1>1 DEF Accept
  <2>3. c \notin Open /\ Open' = Open \cup {c} /\ Open \subseteq Conns
    BY <2>2 DEF Open, LifeTypeOK
  <2>4. fd'[c] = f /\ \A d \in Open : fd'[d] = fd[d] /\ fd[d] \in openFds
    BY <2>1, <2>3 DEF LifeTypeOK, DescriptorsOwned
  <2>5. FdsGiven'
    BY <2>1, <2>2 DEF FdsGiven, LifeTypeOK
  <2>6. DescriptorsOwned'
    BY <2>1, <2>3, <2>4 DEF DescriptorsOwned
  <2>. QED
    BY <2>5, <2>6
<1>2. ASSUME NEW l \in Listeners, SpawnFails(l)
      PROVE  FdsGiven' /\ DescriptorsOwned'
  <2>1. /\ lconn[l] \in Open /\ Open' = Open \ {lconn[l]}
        /\ openFds' = openFds \ {fd[lconn[l]]} /\ fd' = fd
    BY <1>2 DEF SpawnFails, Open, LifeTypeOK, Handoff
  <2>2. FdsGiven'
    BY <1>2, <2>1 DEF SpawnFails, FdsGiven, LifeTypeOK
  <2>. QED
    BY <2>1, <2>2, CloseOne
<1>3. ASSUME NEW c \in Conns, HandlerClose(c)
      PROVE  FdsGiven' /\ DescriptorsOwned'
  <2>1. c \in Open /\ Open' = Open \ {c} /\ openFds' = openFds \ {fd[c]} /\ fd' = fd
    BY <1>3 DEF HandlerClose, Open, LifeTypeOK
  <2>2. FdsGiven'
    BY <1>3 DEF HandlerClose, FdsGiven, LifeTypeOK
  <2>. QED
    BY <2>1, <2>2, CloseOne
<1>4. ASSUME NEW l \in Listeners, NEW c \in Conns, AcceptFails(l, c) \/ Connect(c, l)
      PROVE  FdsGiven' /\ DescriptorsOwned'
  <2>1. /\ Open' = Open /\ openFds' = openFds /\ fd' = fd
        /\ FdsGiven'
    BY <1>4 DEF AcceptFails, Connect, Open, FdsGiven, LifeTypeOK
  <2>. QED
    BY <2>1, NoneClosed
<1>5. ASSUME NEW l \in Listeners, SpawnHandler(l)
      PROVE  FdsGiven' /\ DescriptorsOwned'
  <2>1. lconn[l] \in Conns /\ cstate[lconn[l]] = "accepted"
    BY <1>5 DEF SpawnHandler, LifeTypeOK, Handoff
  <2>2. Open' = Open /\ openFds' = openFds /\ fd' = fd /\ FdsGiven'
    BY <1>5, <2>1 DEF SpawnHandler, Open, FdsGiven, LifeTypeOK
  <2>. QED
    BY <2>2, NoneClosed
<1>11. ASSUME NEW l \in Listeners, GiveBack(l)
       PROVE  FdsGiven' /\ DescriptorsOwned'
  <2>1. lconn[l] \in Conns /\ cstate[lconn[l]] = "turned"
    BY <1>11 DEF GiveBack, LifeTypeOK, Handoff
  <2>2. Open' = Open /\ openFds' = openFds /\ fd' = fd /\ FdsGiven'
    BY <1>11, <2>1 DEF GiveBack, Open, FdsGiven, LifeTypeOK
  <2>. QED
    BY <2>2, NoneClosed
<1>6. ASSUME NEW c \in Conns, HandlerAdd(c) \/ HandlerRemove(c) \/ HandlerRelease(c)
      PROVE  FdsGiven' /\ DescriptorsOwned'
  <2>1. /\ \/ cstate[c] = "started" /\ cstate' = [cstate EXCEPT ![c] = "serving"]
           \/ cstate[c] = "closed" /\ cstate' = [cstate EXCEPT ![c] = "removed"]
           \/ cstate[c] = "removed" /\ cstate' = [cstate EXCEPT ![c] = "done"]
        /\ UNCHANGED <<fd, openFds>>
    BY <1>6 DEF HandlerAdd, HandlerRemove, HandlerRelease
  <2>2. Open' = Open /\ openFds' = openFds /\ fd' = fd /\ FdsGiven'
    BY <2>1 DEF Open, FdsGiven, LifeTypeOK
  <2>. QED
    BY <2>2, NoneClosed
<1>7. ASSUME UNCHANGED netVars
      PROVE  FdsGiven' /\ DescriptorsOwned'
  <2>1. Open' = Open /\ openFds' = openFds /\ fd' = fd /\ FdsGiven'
    BY <1>7 DEF netVars, Open, FdsGiven
  <2>. QED
    BY <2>1, NoneClosed
<1>8. ASSUME NEW l \in Listeners, \/ StartListener(l) \/ ListenerSetup(l) \/ ListenerTest(l)
                                \/ Acquire(l) \/ SpuriousWake(l)
      PROVE  UNCHANGED netVars
  BY <1>8 DEF StartListener, ListenerSetup, ListenerTest, Acquire, SpuriousWake
<1>9. StopSignal \/ MainStep \/ (\E c \in Conns : CreateFails(c) \/ UseAfterFree(c))
        => UNCHANGED netVars
  BY DEF StopSignal, MainStep, JoinListeners, DestroyTable, MainReturns, CreateFails, UseAfterFree
<1>10. UNCHANGED vars => UNCHANGED netVars
  BY DEF vars, netVars
<1>. QED
  BY <1>1, <1>2, <1>3, <1>4, <1>5, <1>6, <1>7, <1>8, <1>9, <1>10, <1>11
     DEF Next, ListenerStep, HandlerStep

(* The permits out are those of Admitted: this holds after every step. *)
LEMMA PermitStep ==
  ASSUME LifeTypeOK, Handoff, inside = Admitted, [Next]_vars
  PROVE  inside' = Admitted'
<1> USE LifecycleAssumption
<1>1. ASSUME NEW l \in Listeners, Acquire(l)
      PROVE  inside' = Admitted'
  <2>1. CASE lpc' = lpc /\ inside' = inside
    BY <1>1, <2>1 DEF Acquire, netVars, Admitted
  <2>2. CASE lpc' = [lpc EXCEPT ![l] = "spawn"] /\ inside' = inside \cup {lconn[l]}
    <3>1. lconn[l] \in Conns
      BY <1>1 DEF Acquire, LifeTypeOK, Handoff
    <3>. QED
      BY <1>1, <2>2, <3>1 DEF Acquire, netVars, Admitted, LifeTypeOK
  <2>. QED
    BY <1>1, <2>1, <2>2 DEF Acquire, SemAcquire, SemResume, SemSleep, SemSleepAgain
<1>2. ASSUME NEW l \in Listeners, SpawnHandler(l)
      PROVE  inside' = Admitted'
  <2>1. lconn[l] \in Conns /\ lconn[l] # NoConn /\ lpc[l] = "spawn"
    BY <1>2 DEF SpawnHandler, LifeTypeOK, Handoff
  <2>2. Admitted' = Admitted
    BY <1>2, <2>1 DEF SpawnHandler, Admitted, LifeTypeOK, Handoff
  <2>. QED
    BY <1>2, <2>2 DEF SpawnHandler, semVars
<1>3. ASSUME NEW l \in Listeners, SpawnFails(l)
      PROVE  inside' = Admitted'
  <2>1. lconn[l] \in Conns /\ lconn[l] # NoConn /\ lpc[l] = "spawn"
    BY <1>3 DEF SpawnFails, LifeTypeOK, Handoff
  <2>2. Admitted' = Admitted
    BY <1>3, <2>1 DEF SpawnFails, Admitted, LifeTypeOK, Handoff
  <2>. QED
    BY <1>3, <2>2 DEF SpawnFails, semVars
<1>10. ASSUME NEW l \in Listeners, GiveBack(l)
       PROVE  inside' = Admitted'
  <2>1. lconn[l] \in Conns /\ lconn[l] # NoConn /\ lpc[l] = "giveback"
    BY <1>10 DEF GiveBack, LifeTypeOK, Handoff
  <2>2. Admitted' = Admitted \ {lconn[l]}
    BY <1>10, <2>1 DEF GiveBack, Admitted, LifeTypeOK, Handoff
  <2>. QED
    BY <1>10, <2>2 DEF GiveBack, SemRelease
<1>4. ASSUME NEW c \in Conns, HandlerRelease(c)
      PROVE  inside' = Admitted'
  <2>1. \A l \in Listeners : lconn[l] # c
    BY <1>4 DEF HandlerRelease, LifeTypeOK, Handoff
  <2>2. Admitted' = Admitted \ {c}
    BY <1>4, <2>1 DEF HandlerRelease, Admitted, LifeTypeOK
  <2>. QED
    BY <1>4, <2>2 DEF HandlerRelease, SemRelease
<1>5. ASSUME NEW l \in Listeners, NEW c \in Conns, Accept(l, c) \/ AcceptFails(l, c) \/ Connect(c, l)
      PROVE  inside' = Admitted'
  <2>1. /\ cstate[c] \in {"none", "pending"} /\ \A k \in Listeners : lconn[k] # c
    BY <1>5 DEF Accept, AcceptFails, Connect, LifeTypeOK, Handoff
  <2>2. Admitted' = Admitted
    BY <1>5, <2>1 DEF Accept, AcceptFails, Connect, Admitted, LifeTypeOK, Handoff
  <2>. QED
    BY <1>5, <2>2 DEF Accept, AcceptFails, Connect, semVars
<1>6. ASSUME NEW c \in Conns, HandlerAdd(c) \/ HandlerClose(c) \/ HandlerRemove(c)
      PROVE  inside' = Admitted'
  <2>1. /\ \/ cstate[c] = "started" /\ cstate' = [cstate EXCEPT ![c] = "serving"]
           \/ cstate[c] = "serving" /\ cstate' = [cstate EXCEPT ![c] = "closed"]
           \/ cstate[c] = "closed" /\ cstate' = [cstate EXCEPT ![c] = "removed"]
        /\ UNCHANGED <<lpc, lconn, inside>>
    BY <1>6 DEF HandlerAdd, HandlerClose, HandlerRemove, semVars
  <2>. QED
    BY <2>1 DEF Admitted, LifeTypeOK
<1>7. ASSUME NEW l \in Listeners, StartListener(l) \/ ListenerSetup(l) \/ ListenerTest(l)
      PROVE  inside' = Admitted'
  BY <1>7 DEF StartListener, ListenerSetup, ListenerTest, netVars, semVars, Admitted, LifeTypeOK
<1>8. CASE StopSignal
  BY <1>8 DEF StopSignal, netVars, semVars, Admitted, LifeTypeOK
<1>9. CASE \/ MainStep \/ UNCHANGED vars
           \/ \E c \in Conns : CreateFails(c) \/ UseAfterFree(c)
           \/ \E l \in Listeners : SpuriousWake(l)
  <2>1. UNCHANGED <<lpc, lconn, cstate, inside>>
    BY <1>9 DEF MainStep, JoinListeners, DestroyTable, MainReturns, CreateFails, UseAfterFree,
                SpuriousWake, SemSpuriousWake, vars, netVars, semVars
  <2>. QED
    BY <2>1 DEF Admitted
<1>. QED
  BY <1>1, <1>2, <1>3, <1>4, <1>5, <1>6, <1>7, <1>8, <1>9, <1>10
     DEF Next, ListenerStep, HandlerStep

(***************************************************************************)
(* The session table.                                                      *)
(***************************************************************************)

(* The connections session_table_add was called for, and those             *)
(* session_table_remove was called for.                                    *)
Entered == {c \in Conns : cstate[c] \in {"serving", "closed", "removed", "done"}}
Left == {c \in Conns : cstate[c] \in {"removed", "done"}}

(* The nodes, and the handlers that are registered, with descriptor f. *)
NodesOf(f) == {c \in Nodes : fd[c] = f}
RegisteredOf(f) == {c \in Registered : fd[c] = f}

TableIInv ==
  /\ table \in [0 .. TableSize - 1 -> Seq(Conns)]
  /\ freed \subseteq Entered
  /\ Nodes \subseteq Entered
  /\ TableBalanced

(* Every descriptor has a bucket. *)
LEMMA HashIsBucket ==
  ASSUME NEW f \in Fds
  PROVE  Hash(f) \in 0 .. TableSize - 1
BY LifecycleAssumption DEF Hash

(* The sets counted by TableBalanced are finite. *)
LEMMA CountsFinite ==
  ASSUME TableIInv
  PROVE  /\ IsFiniteSet(freed) /\ IsFiniteSet(Left)
         /\ \A f : IsFiniteSet(NodesOf(f)) /\ IsFiniteSet(RegisteredOf(f))
<1>1. \A S : S \subseteq Conns => IsFiniteSet(S)
  BY SemaphoreAssumption, FS_Subset
<1>2. freed \subseteq Conns /\ Left \subseteq Conns /\ Nodes \subseteq Conns
  BY DEF TableIInv, Entered, Left
<1>3. \A f : NodesOf(f) \subseteq Conns /\ RegisteredOf(f) \subseteq Conns
  BY <1>2 DEF NodesOf, RegisteredOf, Registered
<1>. QED
  BY <1>1, <1>2, <1>3

(* A node is in some bucket, at some place. *)
LEMMA NodePlace ==
  ASSUME TableIInv, NEW c
  PROVE  /\ c \in Nodes <=> \E h \in 0 .. TableSize - 1 : c \in ToSet(table[h])
         /\ \A h \in 0 .. TableSize - 1 : c \in ToSet(table[h]) => Hash(fd[c]) = h
<1>1. DOMAIN table = 0 .. TableSize - 1
  BY DEF TableIInv
<1>2. \A h \in DOMAIN table : \A i \in DOMAIN table[h] : Hash(fd[table[h][i]]) = h
  BY DEF TableIInv, TableBalanced
<1>. QED
  BY <1>1, <1>2 DEF Nodes, ToSet

(* A step that leaves the table, the objects and the registered handlers   *)
(* as they are.                                                            *)
LEMMA TableQuiet ==
  ASSUME TableIInv, table' = table, freed' = freed,
         Entered' = Entered, Registered' = Registered, Left' = Left,
         \A c \in Entered : fd'[c] = fd[c],
         TableAlive' => TableAlive
  PROVE  TableIInv'
<1>1. Nodes' = Nodes /\ Nodes \subseteq Entered /\ Registered \subseteq Entered
  BY DEF Nodes, TableIInv, Registered, Entered
<1>2. \A f : NodesOf(f)' = NodesOf(f) /\ RegisteredOf(f)' = RegisteredOf(f)
  BY <1>1 DEF NodesOf, RegisteredOf
<1>3. /\ Nodes' \cap freed' = {}
      /\ TableAlive' =>
           /\ \A f \in Fds : Cardinality(NodesOf(f)') = Cardinality(RegisteredOf(f)')
           /\ Cardinality(freed') = Cardinality(Left')
  BY <1>1, <1>2 DEF TableIInv, TableBalanced, NodesOf, RegisteredOf, Left
<1>4. ASSUME NEW h \in DOMAIN table, NEW i \in DOMAIN table[h]
      PROVE  fd'[table[h][i]] = fd[table[h][i]]
  BY <1>1 DEF Nodes, ToSet
<1>5. \A h \in DOMAIN table' : \A i, j \in DOMAIN table'[h] :
        Hash(fd'[table'[h][i]]) = h /\ (table'[h][i] = table'[h][j] => i = j)
  BY <1>4 DEF TableIInv, TableBalanced
<1>6. TableBalanced'
  BY <1>3, <1>5 DEF TableBalanced, NodesOf, RegisteredOf, Left, Hash
<1>. QED
  BY <1>1, <1>6 DEF TableIInv

(* One bucket is replaced: what that does to the nodes, and to their       *)
(* places.                                                                 *)
LEMMA BucketReplaced ==
  ASSUME TableIInv, NEW h \in 0 .. TableSize - 1, NEW b \in Seq(Conns),
         table' = [table EXCEPT ![h] = b], fd' = fd,
         \A c \in ToSet(b) : Hash(fd[c]) = h,
         \A i, j \in DOMAIN b : b[i] = b[j] => i = j
  PROVE  /\ table' \in [0 .. TableSize - 1 -> Seq(Conns)]
         /\ \A k \in DOMAIN table' : \A i, j \in DOMAIN table'[k] :
              Hash(fd'[table'[k][i]]) = k /\ (table'[k][i] = table'[k][j] => i = j)
         /\ \A c : c \in Nodes' <=> IF Hash(fd[c]) = h THEN c \in ToSet(b) ELSE c \in Nodes
<1>1. DOMAIN table = 0 .. TableSize - 1 /\ table' \in [0 .. TableSize - 1 -> Seq(Conns)]
  BY DEF TableIInv
<1>2. /\ DOMAIN table' = DOMAIN table /\ table'[h] = b
      /\ \A k \in DOMAIN table : k # h => table'[k] = table[k]
  BY <1>1 DEF TableIInv
<1>3. ASSUME NEW k \in DOMAIN table', NEW i \in DOMAIN table'[k], NEW j \in DOMAIN table'[k]
      PROVE  Hash(fd'[table'[k][i]]) = k /\ (table'[k][i] = table'[k][j] => i = j)
  <2>1. CASE k = h
    BY <1>2, <2>1 DEF ToSet
  <2>2. CASE k # h
    BY <1>2, <2>2 DEF TableIInv, TableBalanced
  <2>. QED
    BY <2>1, <2>2
<1>4. ASSUME NEW c
      PROVE  c \in Nodes' <=> IF Hash(fd[c]) = h THEN c \in ToSet(b) ELSE c \in Nodes
  <2>1. c \in Nodes' <=> \E k \in DOMAIN table : c \in ToSet(table'[k])
    BY <1>2 DEF Nodes, ToSet
  <2>2. \A k \in DOMAIN table : c \in ToSet(table'[k]) => Hash(fd[c]) = k
    BY <1>1, <1>2, NodePlace
  <2>3. c \in Nodes <=> \E k \in DOMAIN table : c \in ToSet(table[k])
    BY <1>1, NodePlace
  <2>4. \A k \in DOMAIN table : c \in ToSet(table[k]) => Hash(fd[c]) = k
    BY <1>1, NodePlace
  <2>. QED
    BY <1>1, <1>2, <2>1, <2>2, <2>3, <2>4
<1>. QED
  BY <1>1, <1>3, <1>4

(* TableBalanced in the terms of the counting sets. *)
LEMMA BalancedByCounts ==
  TableBalanced <=>
    /\ Nodes \cap freed = {}
    /\ \A h \in DOMAIN table : \A i, j \in DOMAIN table[h] :
         Hash(fd[table[h][i]]) = h /\ (table[h][i] = table[h][j] => i = j)
    /\ TableAlive =>
         /\ \A f \in Fds : Cardinality(NodesOf(f)) = Cardinality(RegisteredOf(f))
         /\ Cardinality(freed) = Cardinality(Left)
BY DEF TableBalanced, NodesOf, RegisteredOf, Left

(* session_table_add: one node more, one registered handler more. *)
LEMMA AddBalanced ==
  ASSUME LifeTypeOK, FdsGiven, TableIInv, NEW c \in Conns, HandlerAdd(c), TableAlive
  PROVE  TableIInv'
<1> DEFINE f == fd[c]
           h == Hash(f)
           b == Pushed(table[h], c)
<1>1. /\ cstate[c] = "started" /\ cstate' = [cstate EXCEPT ![c] = "serving"]
      /\ table' = [table EXCEPT ![h] = b] /\ UNCHANGED <<fd, freed, mainPc>>
  BY DEF HandlerAdd
<1>2. f \in Fds /\ h \in 0 .. TableSize - 1 /\ table[h] \in Seq(Conns)
  BY <1>1, HashIsBucket DEF FdsGiven, TableIInv
<1>3. /\ c \notin Entered /\ Entered' = Entered \cup {c}
      /\ c \notin Registered /\ Registered' = Registered \cup {c} /\ Left' = Left
  BY <1>1 DEF Entered, Registered, Left, LifeTypeOK
<1>4. c \notin Nodes /\ c \notin freed /\ c \notin ToSet(table[h])
  BY <1>2, <1>3, NodePlace DEF TableIInv
<1>5. \A i, j \in DOMAIN table[h] : table[h][i] = table[h][j] => i = j
  BY <1>2 DEF TableIInv, TableBalanced
<1>6. /\ b \in Seq(Conns) /\ ToSet(b) = ToSet(table[h]) \cup {c}
      /\ \A i, j \in DOMAIN b : b[i] = b[j] => i = j
  <2> DEFINE s == table[h]
  <2>1. s \in Seq(Conns) /\ c \notin ToSet(s) /\ \A i, j \in DOMAIN s : s[i] = s[j] => i = j
    BY <1>2, <1>4, <1>5
  <2> HIDE DEF s
  <2>2. /\ Pushed(s, c) \in Seq(Conns) /\ ToSet(Pushed(s, c)) = ToSet(s) \cup {c}
        /\ \A i, j \in DOMAIN Pushed(s, c) : Pushed(s, c)[i] = Pushed(s, c)[j] => i = j
    BY <2>1, PushedBucket
  <2>. QED
    BY <2>2 DEF s
<1>7. \A d \in ToSet(b) : Hash(fd[d]) = h
  BY <1>2, <1>6, NodePlace
<1> HIDE DEF b
<1>8. /\ table' \in [0 .. TableSize - 1 -> Seq(Conns)]
      /\ \A k \in DOMAIN table' : \A i, j \in DOMAIN table'[k] :
           Hash(fd'[table'[k][i]]) = k /\ (table'[k][i] = table'[k][j] => i = j)
      /\ \A d : d \in Nodes' <=> IF Hash(fd[d]) = h THEN d \in ToSet(b) ELSE d \in Nodes
  BY <1>1, <1>2, <1>6, <1>7, BucketReplaced
<1>9. Nodes' = Nodes \cup {c}
  <2>1. ASSUME NEW d PROVE d \in Nodes' <=> d \in Nodes \/ d = c
    BY <1>2, <1>6, <1>8, NodePlace
  <2>. QED
    BY <2>1
<1>10. \A g \in Fds : Cardinality(NodesOf(g)') = Cardinality(RegisteredOf(g)')
  <2> SUFFICES ASSUME NEW g \in Fds
               PROVE  Cardinality(NodesOf(g)') = Cardinality(RegisteredOf(g)')
    OBVIOUS
  <2>1. Cardinality(NodesOf(g)) = Cardinality(RegisteredOf(g))
    BY BalancedByCounts DEF TableIInv
  <2>2. CASE g = f
    <3>1. NodesOf(g)' = NodesOf(g) \cup {c} /\ c \notin NodesOf(g)
      BY <1>1, <1>4, <1>9, <2>2 DEF NodesOf
    <3>2. RegisteredOf(g)' = RegisteredOf(g) \cup {c} /\ c \notin RegisteredOf(g)
      BY <1>1, <1>3, <2>2 DEF RegisteredOf
    <3>. QED
      BY <2>1, <3>1, <3>2, CountsFinite, CardinalityAdd
  <2>3. CASE g # f
    <3>1. NodesOf(g)' = NodesOf(g) /\ RegisteredOf(g)' = RegisteredOf(g)
      BY <1>1, <1>3, <1>9, <2>3 DEF NodesOf, RegisteredOf
    <3>. QED
      BY <2>1, <3>1
  <2>. QED
    BY <2>2, <2>3
<1>11. Cardinality(freed') = Cardinality(Left')
  BY <1>1, <1>3, BalancedByCounts DEF TableIInv
<1>12. Nodes' \cap freed' = {}
  BY <1>1, <1>4, <1>9, BalancedByCounts DEF TableIInv
<1>13. TableBalanced'
  BY <1>8, <1>10, <1>11, <1>12 DEF TableBalanced, NodesOf, RegisteredOf, Left, Hash
<1>. QED
  BY <1>1, <1>3, <1>8, <1>9, <1>13 DEF TableIInv

(* session_table_remove finds a node, perhaps of another connection with   *)
(* the same descriptor: one node less, one registered handler less, one    *)
(* object freed.                                                           *)
LEMMA RemoveBalanced ==
  ASSUME LifeTypeOK, FdsGiven, TableIInv, NEW c \in Conns, HandlerRemove(c), TableAlive
  PROVE  TableIInv'
<1> DEFINE f == fd[c]
           h == Hash(f)
           s == table[h]
           n == FirstWith(s, f)
           d == s[n]
           b == RemoveAt(s, n)
<1>1. /\ cstate[c] = "closed" /\ cstate' = [cstate EXCEPT ![c] = "removed"]
      /\ UNCHANGED <<fd, mainPc>>
      /\ table' = [table EXCEPT ![h] = IF n = 0 THEN s ELSE b]
      /\ freed' = IF n = 0 THEN freed ELSE freed \cup {d}
  BY DEF HandlerRemove, Removed
<1>2. f \in Fds /\ h \in 0 .. TableSize - 1 /\ s \in Seq(Conns)
  BY <1>1, HashIsBucket DEF FdsGiven, TableIInv
<1>3. /\ Entered' = Entered
      /\ c \in Registered /\ Registered' = Registered \ {c}
      /\ c \notin Left /\ Left' = Left \cup {c}
  BY <1>1 DEF Entered, Registered, Left, LifeTypeOK
<1>4. \A i, j \in DOMAIN s : s[i] = s[j] => i = j
  BY <1>2 DEF TableIInv, TableBalanced
<1>5. /\ IsFiniteSet(freed) /\ IsFiniteSet(Left)
      /\ \A g : IsFiniteSet(NodesOf(g)) /\ IsFiniteSet(RegisteredOf(g))
  BY CountsFinite
<1>6. \A g \in Fds : Cardinality(NodesOf(g)) = Cardinality(RegisteredOf(g))
  BY BalancedByCounts DEF TableIInv
<1>7. PICK m \in ToSet(s) : fd[m] = f
  <2>1. c \in RegisteredOf(f)
    BY <1>3 DEF RegisteredOf
  <2>2. RegisteredOf(f) # {} /\ Cardinality(RegisteredOf(f)) # 0
    BY <1>5, <2>1, FS_EmptySet
  <2>3. NodesOf(f) # {}
    BY <1>2, <1>5, <1>6, <2>2, FS_EmptySet
  <2>4. PICK m \in Nodes : fd[m] = f
    BY <2>3 DEF NodesOf
  <2>. QED
    BY <1>2, <2>4, NodePlace
<1>8. n \in 1 .. Len(s) /\ fd[d] = f
  <2>1. DOMAIN s = 1 .. Len(s)
    BY <1>2, LenProperties
  <2>2. PICK i \in 1 .. Len(s) : fd[s[i]] = f
    BY <1>7, <2>1 DEF ToSet
  <2> HIDE DEF s, f
  <2>3. /\ n \in 0 .. Len(s) /\ (n # 0 => fd[s[n]] = f)
        /\ (n = 0 => \A j \in 1 .. Len(s) : fd[s[j]] # f)
    BY <1>2, FirstWithFinds
  <2> HIDE DEF n
  <2>4. n # 0
    BY <2>2, <2>3
  <2>. QED
    BY <2>3, <2>4
<1>9. /\ b \in Seq(Conns) /\ ToSet(b) = ToSet(s) \ {d}
      /\ \A i, j \in DOMAIN b : b[i] = b[j] => i = j
  <2> HIDE DEF s, n
  <2>. QED
    BY <1>2, <1>4, <1>8, CutBucket
<1>10. table' = [table EXCEPT ![h] = b] /\ freed' = freed \cup {d}
  <2>1. n # 0
    BY <1>8
  <2>. QED
    BY <1>1, <2>1
<1>11. d \in ToSet(s) /\ d \in Nodes /\ d \in Entered /\ d \notin freed
  <2>1. d \in ToSet(s)
    BY <1>2, <1>8, LenProperties DEF ToSet
  <2>2. d \in Nodes
    BY <1>2, <2>1, NodePlace
  <2>. QED
    BY <2>1, <2>2, BalancedByCounts DEF TableIInv
<1>12. \A e \in ToSet(b) : Hash(fd[e]) = h
  BY <1>2, <1>9, NodePlace
<1> HIDE DEF b, d, n, s
<1>13. /\ table' \in [0 .. TableSize - 1 -> Seq(Conns)]
       /\ \A k \in DOMAIN table' : \A i, j \in DOMAIN table'[k] :
            Hash(fd'[table'[k][i]]) = k /\ (table'[k][i] = table'[k][j] => i = j)
       /\ \A e : e \in Nodes' <=> IF Hash(fd[e]) = h THEN e \in ToSet(b) ELSE e \in Nodes
  BY <1>1, <1>2, <1>9, <1>10, <1>12, BucketReplaced
<1>14. Nodes' = Nodes \ {d}
  <2>1. ASSUME NEW e PROVE e \in Nodes' <=> e \in Nodes /\ e # d
    <3>1. Hash(fd[e]) = h => (e \in Nodes <=> e \in ToSet(s))
      BY <1>2, NodePlace DEF s
    <3>2. Hash(fd[d]) = h
      BY <1>8
    <3>. QED
      BY <1>9, <1>13, <3>1, <3>2
  <2>. QED
    BY <2>1
<1>15. \A g \in Fds : Cardinality(NodesOf(g)') = Cardinality(RegisteredOf(g)')
  <2> SUFFICES ASSUME NEW g \in Fds
               PROVE  Cardinality(NodesOf(g)') = Cardinality(RegisteredOf(g)')
    OBVIOUS
  <2>1. CASE g = f
    <3>1. NodesOf(g)' = NodesOf(g) \ {d} /\ d \in NodesOf(g)
      BY <1>1, <1>8, <1>11, <1>14, <2>1 DEF NodesOf
    <3>2. RegisteredOf(g)' = RegisteredOf(g) \ {c} /\ c \in RegisteredOf(g)
      BY <1>1, <1>3, <2>1 DEF RegisteredOf
    <3>. QED
      BY <1>5, <1>6, <3>1, <3>2, CardinalityRemove
  <2>2. CASE g # f
    <3>1. NodesOf(g)' = NodesOf(g) /\ RegisteredOf(g)' = RegisteredOf(g)
      BY <1>1, <1>3, <1>8, <1>14, <2>2 DEF NodesOf, RegisteredOf
    <3>. QED
      BY <1>6, <3>1
  <2>. QED
    BY <2>1, <2>2
<1>16. Cardinality(freed') = Cardinality(Left')
  <2>1. Cardinality(freed) = Cardinality(Left)
    BY BalancedByCounts DEF TableIInv
  <2>. QED
    BY <1>3, <1>5, <1>10, <1>11, <2>1, CardinalityAdd
<1>17. Nodes' \cap freed' = {}
  BY <1>10, <1>14, BalancedByCounts DEF TableIInv
<1>18. TableBalanced'
  BY <1>13, <1>15, <1>16, <1>17 DEF TableBalanced, NodesOf, RegisteredOf, Left, Hash
<1>. QED
  BY <1>3, <1>10, <1>11, <1>13, <1>14, <1>18 DEF TableIInv

(* Once main has gone on to destroy the table, handlers that come late do  *)
(* not change it.                                                          *)
LEMMA LateBalanced ==
  ASSUME TableIInv, ~TableAlive, mainPc' = mainPc, UNCHANGED <<table, freed, fd>>,
         Entered \subseteq Entered'
  PROVE  TableIInv'
<1>1. Nodes' = Nodes /\ ~TableAlive'
  BY DEF Nodes, TableAlive
<1>2. TableBalanced'
  BY <1>1 DEF TableIInv, TableBalanced, Hash
<1>. QED
  BY <1>1, <1>2 DEF TableIInv

(* TableIInv holds after every step. *)
LEMMA TableStep ==
  ASSUME LifeTypeOK, Handoff, FdsGiven, TableIInv, [Next]_vars
  PROVE  TableIInv'
<1>1. ASSUME NEW c \in Conns, HandlerAdd(c)
      PROVE  TableIInv'
  <2>1. CASE TableAlive
    BY <1>1, <2>1, AddBalanced
  <2>2. CASE ~TableAlive
    BY <1>1, <2>2, LateBalanced DEF HandlerAdd, Entered, LifeTypeOK
  <2>. QED
    BY <2>1, <2>2
<1>2. ASSUME NEW c \in Conns, HandlerRemove(c)
      PROVE  TableIInv'
  <2>1. CASE TableAlive
    BY <1>2, <2>1, RemoveBalanced
  <2>2. CASE ~TableAlive
    BY <1>2, <2>2, LateBalanced DEF HandlerRemove, Entered, LifeTypeOK
  <2>. QED
    BY <2>1, <2>2
<1>3. CASE DestroyTable
  <2>1. /\ table' = [h \in 0 .. TableSize - 1 |-> <<>>] /\ freed' = freed \cup Nodes
        /\ mainPc' = "audit" /\ cstate' = cstate
    BY <1>3 DEF DestroyTable, TableIInv, netVars
  <2>2. Nodes' = {} /\ ~TableAlive' /\ Entered' = Entered
    BY <2>1 DEF Nodes, ToSet, TableAlive, Entered
  <2>3. table' \in [0 .. TableSize - 1 -> Seq(Conns)]
    BY <2>1
  <2>4. TableBalanced'
    BY <2>1, <2>2 DEF TableBalanced
  <2>. QED
    BY <2>1, <2>2, <2>3, <2>4 DEF TableIInv
<1>4. ASSUME UNCHANGED <<table, freed, fd>>, TableAlive' => TableAlive,
             NEW c \in Conns, NEW s, cstate' = [cstate EXCEPT ![c] = s],
             \/ {cstate[c], s} \cap {"serving", "closed", "removed", "done"} = {}
             \/ {cstate[c], s} = {"serving", "closed"}
             \/ {cstate[c], s} = {"removed", "done"}
      PROVE  TableIInv'
  <2>1. Entered' = Entered /\ Registered' = Registered /\ Left' = Left
    BY <1>4 DEF Entered, Registered, Left, LifeTypeOK
  <2>. QED
    BY <1>4, <2>1, TableQuiet
<1>5. ASSUME NEW l \in Listeners, NEW c \in Conns, Accept(l, c)
      PROVE  TableIInv'
  <2>1. /\ cstate[c] = "pending" /\ cstate' = [cstate EXCEPT ![c] = "accepted"]
        /\ UNCHANGED <<table, freed, mainPc>>
        /\ \A d \in Conns \ {c} : fd'[d] = fd[d]
    BY <1>5 DEF Accept, LifeTypeOK
  <2>2. Entered' = Entered /\ Registered' = Registered /\ Left' = Left /\ c \notin Entered
    BY <2>1 DEF Entered, Registered, Left, LifeTypeOK
  <2>3. (TableAlive' => TableAlive) /\ \A d \in Entered : fd'[d] = fd[d]
    BY <2>1, <2>2 DEF TableAlive, Entered
  <2>. QED
    BY <2>1, <2>2, <2>3, TableQuiet
<1>6. ASSUME NEW l \in Listeners, NEW c \in Conns, AcceptFails(l, c)
      PROVE  TableIInv'
  <2>1. /\ UNCHANGED <<table, freed, fd, mainPc>> /\ cstate[c] = "pending"
        /\ \/ cstate' = [cstate EXCEPT ![c] = "refused"]
           \/ cstate' = [cstate EXCEPT ![c] = "pending"]
    BY <1>6 DEF AcceptFails, LifeTypeOK
  <2>2. TableAlive' => TableAlive
    BY <2>1 DEF TableAlive
  <2>. QED
    BY <2>1, <2>2, <1>4
<1>7. ASSUME NEW c \in Conns, NEW l \in Listeners, Connect(c, l)
      PROVE  TableIInv'
  <2>1. TableAlive' => TableAlive
    BY <1>7 DEF Connect, TableAlive
  <2>. QED
    BY <1>7, <2>1, <1>4 DEF Connect
<1>8. ASSUME NEW l \in Listeners, SpawnHandler(l) \/ SpawnFails(l) \/ GiveBack(l)
      PROVE  TableIInv'
  <2>1. lconn[l] \in Conns /\ cstate[lconn[l]] \in {"accepted", "turned"}
    BY <1>8 DEF SpawnHandler, SpawnFails, GiveBack, LifeTypeOK, Handoff
  <2>2. /\ UNCHANGED <<table, freed, fd, mainPc>>
        /\ \/ cstate' = [cstate EXCEPT ![lconn[l]] = "started"]
           \/ cstate' = [cstate EXCEPT ![lconn[l]] = "turned"]
           \/ cstate' = [cstate EXCEPT ![lconn[l]] = "refused"]
    BY <1>8 DEF SpawnHandler, SpawnFails, GiveBack
  <2>3. TableAlive' => TableAlive
    BY <2>2 DEF TableAlive
  <2>. QED
    BY <2>1, <2>2, <2>3, <1>4
<1>9. ASSUME NEW c \in Conns, HandlerClose(c)
      PROVE  TableIInv'
  <2>1. TableAlive' => TableAlive
    BY <1>9 DEF HandlerClose, TableAlive
  <2>. QED
    BY <1>9, <2>1, <1>4 DEF HandlerClose
<1>10. ASSUME NEW c \in Conns, HandlerRelease(c)
       PROVE  TableIInv'
  <2>1. TableAlive' => TableAlive
    BY <1>10 DEF HandlerRelease, TableAlive
  <2>. QED
    BY <1>10, <2>1, <1>4 DEF HandlerRelease
<1>11. ASSUME UNCHANGED <<table, freed, fd, cstate>>, TableAlive' => TableAlive
       PROVE  TableIInv'
  <2>1. Entered' = Entered /\ Registered' = Registered /\ Left' = Left
    BY <1>11 DEF Entered, Registered, Left
  <2>. QED
    BY <1>11, <2>1, TableQuiet
<1>12. ASSUME NEW l \in Listeners, \/ StartListener(l) \/ ListenerSetup(l) \/ ListenerTest(l)
                                 \/ Acquire(l) \/ SpuriousWake(l)
       PROVE  TableIInv'
  <2>1. UNCHANGED <<table, freed, fd, cstate>> /\ (TableAlive' => TableAlive)
    BY <1>12 DEF StartListener, ListenerSetup, ListenerTest, Acquire, SpuriousWake, netVars,
                 TableAlive
  <2>. QED
    BY <2>1, <1>11
<1>13. CASE StopSignal \/ JoinListeners \/ MainReturns \/ UNCHANGED vars
            \/ \E c \in Conns : CreateFails(c) \/ UseAfterFree(c)
  <2>1. UNCHANGED <<table, freed, fd, cstate>> /\ (TableAlive' => TableAlive)
    BY <1>13 DEF StopSignal, JoinListeners, MainReturns, CreateFails, UseAfterFree, vars, netVars,
                 TableAlive
  <2>. QED
    BY <2>1, <1>11
<1>. QED
  BY <1>1, <1>2, <1>3, <1>5, <1>6, <1>7, <1>8, <1>9, <1>10, <1>12, <1>13
     DEF Next, ListenerStep, HandlerStep, MainStep
----------------------------------------------------------------------------
(***************************************************************************)
(* The invariant of the whole, and what follows from it.                   *)
(***************************************************************************)

LifeIInv ==
  LifeTypeOK /\ Handoff /\ FdsGiven /\ DescriptorsOwned /\ inside = Admitted /\ TableIInv

(* LifeIInv holds at the start. *)
LEMMA LifeInit == Init => LifeIInv
<1> SUFFICES ASSUME Init PROVE LifeIInv
  OBVIOUS
<1> USE LifecycleAssumption DEF Init, SemInit
<1>1. LifeTypeOK /\ Handoff /\ FdsGiven
  BY DEF LifeTypeOK, Handoff, FdsGiven
<1>2. Open = {} /\ Admitted = {} /\ Registered = {} /\ Left = {}
  BY DEF Open, Admitted, Registered, Left
<1>3. DescriptorsOwned
  BY <1>2 DEF DescriptorsOwned
<1>4. Nodes = {} /\ table \in [0 .. TableSize - 1 -> Seq(Conns)]
  BY DEF Nodes, ToSet
<1>5. TableBalanced
  <2>1. \A f : NodesOf(f) = {} /\ RegisteredOf(f) = {}
    BY <1>2, <1>4 DEF NodesOf, RegisteredOf
  <2>2. \A h \in DOMAIN table : DOMAIN table[h] = {}
    BY <1>4
  <2>. QED
    BY <1>2, <1>4, <2>1, <2>2, BalancedByCounts
<1>. QED
  BY <1>1, <1>2, <1>3, <1>4, <1>5 DEF LifeIInv, TableIInv

(* LifeIInv is an invariant of the listeners, the handlers and main.       *)
THEOREM LifeInvariance == Spec => []LifeIInv
<1>1. LifeIInv /\ [Next]_vars => LifeIInv'
  BY HandoffStep, DescriptorStep, PermitStep, TableStep DEF LifeIInv
<1>. QED
  BY LifeInit, <1>1, PTL DEF Spec

(* A step of a listener or a handler is a step of the semaphore or leaves  *)
(* it alone.                                                               *)
LEMMA SemaphoreStep ==
  ASSUME LifeIInv, [Next]_vars
  PROVE  [SemNext]_semVars
<1> USE DEF SemNext
<1>1. ASSUME NEW l \in Listeners, lpc[l] \in {"acquire", "giveback"}
      PROVE  lconn[l] \in Conns
  BY <1>1 DEF LifeIInv, LifeTypeOK, Handoff
<1>2. ASSUME NEW l \in Listeners, Acquire(l)
      PROVE  SemNext
  BY <1>1, <1>2 DEF Acquire
<1>3. ASSUME NEW l \in Listeners, GiveBack(l)
      PROVE  SemNext
  BY <1>1, <1>3 DEF GiveBack
<1>4. ASSUME NEW l \in Listeners, SpuriousWake(l)
      PROVE  SemNext
  BY <1>4 DEF SpuriousWake
<1>5. ASSUME NEW c \in Conns, HandlerRelease(c)
      PROVE  SemNext
  BY <1>5 DEF HandlerRelease
<1>6. ASSUME NEW l \in Listeners, NEW c \in Conns,
             Accept(l, c) \/ AcceptFails(l, c) \/ Connect(c, l)
      PROVE  UNCHANGED semVars
  BY <1>6 DEF Accept, AcceptFails, Connect
<1>7. ASSUME NEW l \in Listeners,
             StartListener(l) \/ ListenerSetup(l) \/ ListenerTest(l)
             \/ SpawnHandler(l) \/ SpawnFails(l)
      PROVE  UNCHANGED semVars
  BY <1>7 DEF StartListener, ListenerSetup, ListenerTest, SpawnHandler, SpawnFails
<1>8. ASSUME NEW c \in Conns,
             \/ HandlerAdd(c) \/ HandlerClose(c) \/ HandlerRemove(c)
             \/ CreateFails(c) \/ UseAfterFree(c)
      PROVE  UNCHANGED semVars
  BY <1>8 DEF HandlerAdd, HandlerClose, HandlerRemove, CreateFails, UseAfterFree
<1>9. StopSignal \/ MainStep \/ UNCHANGED vars => UNCHANGED semVars
  BY DEF StopSignal, MainStep, JoinListeners, DestroyTable, MainReturns, vars, semVars
<1>. QED
  BY <1>2, <1>3, <1>4, <1>5, <1>6, <1>7, <1>8, <1>9 DEF Next, ListenerStep, HandlerStep

(* The calls of listeners and handlers are behaviours of ConnSemaphore, so *)
(* that what is proved of conn_semaphore_t holds in the program.           *)
LEMMA SemaphoreCalls == Spec => SemSpec
<1>1. Init => SemInit
  BY DEF Init
<1>2. LifeIInv /\ [Next]_vars => [SemNext]_semVars
  BY SemaphoreStep
<1>. QED
  BY LifeInvariance, <1>1, <1>2, PTL DEF Spec, SemSpec

(* What is proved of the semaphore holds of the program: no listener       *)
(* sleeps in conn_semaphore_acquire beside a permit nobody will take.      *)
THEOREM ProgramWakeups == Spec => []NoLostWakeup
BY SemaphoreCalls, WakeupCorrect

(* close(fd) in main.c and in the services only ever closes the descriptor *)
(* of the connection at hand, however often descriptors are used again.    *)
THEOREM DescriptorsCorrect == Spec => []DescriptorsOwned
BY LifeInvariance, PTL DEF LifeIInv

(* session_table_remove, which goes by the descriptor, never comes up      *)
(* empty, never frees an object twice and leaves no node behind.           *)
THEOREM TableCorrect == Spec => []TableBalanced
<1>1. LifeIInv => TableBalanced
  BY DEF LifeIInv, TableIInv
<1>. QED
  BY LifeInvariance, <1>1, PTL

(* The connections with a permit are those between acquire and release, so *)
(* no more than max_connections handler threads serve at once.             *)
THEOREM PermitsCorrect == Spec => []PermitsMatchHandlers
<1>1. LifeIInv /\ SemIInv => PermitsMatchHandlers
  BY DEF LifeIInv, SemIInv, PermitsMatchHandlers
<1>2. Spec => []SemIInv
  BY SemaphoreCalls, SemInvariance
<1>. QED
  BY LifeInvariance, <1>1, <1>2, PTL
=============================================================================
