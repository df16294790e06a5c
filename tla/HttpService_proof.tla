------------------------- MODULE HttpService_proof -------------------------
(***************************************************************************)
(* Proofs about HttpService, for all streams and any sizes of its buffers. *)
(***************************************************************************)
EXTENDS HttpService, FiniteSetTheorems, SequenceTheorems, TLAPS

(* Numbers: the least element of a set, and induction stated with a set in *)
(* place of a predicate.                                                   *)
LEMMA MinOfNat ==
  ASSUME NEW S, S \subseteq Nat, S # {}
  PROVE  Min(S) \in S /\ \A y \in S : Min(S) <= y
  <1> DEFINE R == OpToRel(<, Nat)
  <1>1. \A x, y \in Nat : x < y => <<x, y>> \in R BY DEF OpToRel
  <1>2. IsWellFoundedOn(R, Nat) BY NatLessThanWellFounded
  <1> HIDE DEF R
  <1>3. PICK x \in S : \A y \in S : ~(<<y, x>> \in R) BY <1>2, WFMin
  <1>4. ASSUME NEW y \in S PROVE x <= y
    <2>1. x \in Nat /\ y \in Nat /\ ~(<<y, x>> \in R) BY <1>3
    <2>2. ~(y < x) BY <1>1, <2>1
    <2> QED BY <2>1, <2>2
  <1> QED BY <1>3, <1>4 DEF Min

(* Induction over the naturals, for the set of numbers with a property. *)
LEMMA InductionBySet ==
  ASSUME NEW S, S \subseteq Nat, 0 \in S, \A n \in S : n + 1 \in S
  PROVE  S = Nat
  <1> SUFFICES ASSUME Nat \ S # {} PROVE FALSE
    OBVIOUS
  <1> DEFINE m == Min(Nat \ S)
  <1>1. m \in Nat \ S /\ \A y \in Nat \ S : m <= y BY MinOfNat
  <1> HIDE DEF m
  <1>2. m # 0 BY <1>1
  <1>3. m - 1 \in Nat /\ m - 1 < m BY <1>1, <1>2
  <1>4. m - 1 \in S BY <1>1, <1>3
  <1>5. (m - 1) + 1 = m BY <1>1
  <1> QED BY <1>1, <1>4, <1>5
----------------------------------------------------------------------------
(***************************************************************************)
(* The capacity.  Doubling comes to an end, and with room for the data.    *)
(***************************************************************************)
IsDoubled(first, n, f) == f = [k \in 0 .. n |-> IF k = 0 THEN first ELSE f[k - 1] * 2]

(* The function that the doubling loop defines exists, and grows past      *)
(* every number.                                                           *)
LEMMA DoubledExists ==
  ASSUME NEW first \in Nat \ {0}, NEW n \in Nat
  PROVE  \E f : IsDoubled(first, n, f) /\ \A k \in 0 .. n : f[k] \in Nat /\ f[k] > k
  <1> DEFINE Good(k, f) == IsDoubled(first, k, f) /\ \A i \in 0 .. k : f[i] \in Nat /\ f[i] > i
  <1> DEFINE S == {k \in Nat : \E f : Good(k, f)}
  <1>1. 0 \in S
    <2> DEFINE f == [i \in 0 .. 0 |-> first]
    <2>1. \A i \in 0 .. 0 : i = 0 OBVIOUS
    <2>2. f = [i \in 0 .. 0 |-> IF i = 0 THEN first ELSE f[i - 1] * 2] BY <2>1
    <2>3. \A i \in 0 .. 0 : f[i] \in Nat /\ f[i] > i BY <2>1
    <2>4. Good(0, f) BY <2>2, <2>3 DEF IsDoubled
    <2> QED BY <2>4
  <1>2. ASSUME NEW k \in S PROVE k + 1 \in S
    <2>1. PICK f : Good(k, f) OBVIOUS
    <2> DEFINE g == [i \in 0 .. k + 1 |-> IF i <= k THEN f[i] ELSE f[k] * 2]
    <2> DEFINE h == [i \in 0 .. k + 1 |-> IF i = 0 THEN first ELSE g[i - 1] * 2]
    <2>2. k \in Nat OBVIOUS
    <2>3. \A i \in 0 .. k : f[i] = IF i = 0 THEN first ELSE f[i - 1] * 2 BY <2>1 DEF IsDoubled
    <2>4. \A i \in 0 .. k : f[i] \in Nat /\ f[i] > i BY <2>1
    <2>5. ASSUME NEW i \in 0 .. k + 1 PROVE g[i] = h[i] /\ g[i] \in Nat /\ g[i] > i
      <3>1. CASE i = 0
        <4>1. 0 \in 0 .. k /\ 0 <= k BY <2>2
        <4>2. g[0] = f[0] /\ h[0] = first /\ f[0] = first BY <2>2, <2>3, <3>1, <4>1
        <4> HIDE DEF g, h
        <4> QED BY <2>4, <3>1, <4>1, <4>2
      <3>2. CASE i # 0 /\ i <= k
        <4>1. i \in 0 .. k /\ i - 1 \in 0 .. k + 1 /\ i - 1 <= k BY <2>2, <3>2
        <4>2. g[i] = f[i] /\ g[i - 1] = f[i - 1] BY <3>2, <4>1
        <4>3. h[i] = g[i - 1] * 2 BY <3>2
        <4> HIDE DEF g, h
        <4> QED BY <2>3, <2>4, <3>2, <4>1, <4>2, <4>3
      <3>3. CASE i = k + 1
        <4>1. i # 0 /\ ~(i <= k) /\ i - 1 = k /\ k \in 0 .. k + 1 /\ k <= k BY <2>2, <3>3
        <4>2. g[i] = f[k] * 2 /\ g[k] = f[k] BY <4>1
        <4>3. h[i] = g[k] * 2 BY <4>1
        <4>4. f[k] \in Nat /\ f[k] > k BY <2>2, <2>4
        <4> HIDE DEF g, h
        <4>5. f[k] * 2 \in Nat /\ f[k] * 2 > k + 1 BY <2>2, <4>4
        <4> QED BY <3>3, <4>2, <4>3, <4>5
      <3>4. i = 0 \/ (i # 0 /\ i <= k) \/ i = k + 1 BY <2>2
      <3> QED BY <3>1, <3>2, <3>3, <3>4
    <2>6. g = h BY <2>5
    <2>7. IsDoubled(first, k + 1, g) BY <2>6 DEF IsDoubled
    <2> HIDE DEF g, h
    <2>8. Good(k + 1, g) BY <2>5, <2>7
    <2>9. k + 1 \in Nat BY <2>2
    <2> HIDE DEF Good
    <2> QED BY <2>8, <2>9
  <1>3. S \subseteq Nat OBVIOUS
  <1> HIDE DEF S
  <1>4. S = Nat BY <1>1, <1>2, <1>3, InductionBySet
  <1>5. n \in S BY <1>4
  <1> QED BY <1>5 DEF S

(* NewCap gives room for what is needed. *)
LEMMA NewCapFits ==
  ASSUME HttpAssumption, NEW cap \in Nat, NEW need \in Nat
  PROVE  NewCap(cap, need) \in Nat /\ need <= NewCap(cap, need)
  <1> DEFINE first == IF cap = 0 THEN FirstCap ELSE cap * 2
  <1> DEFINE f == CHOOSE g : g = [k \in 0 .. need |-> IF k = 0 THEN first ELSE g[k - 1] * 2]
  <1>1. first \in Nat \ {0} BY DEF HttpAssumption
  <1>2. NewCap(cap, need) = f[Min({k \in 0 .. need : need <= f[k]})] BY DEF NewCap
  <1> HIDE DEF first
  <1>3. PICK g : IsDoubled(first, need, g) /\ \A k \in 0 .. need : g[k] \in Nat /\ g[k] > k
    BY <1>1, DoubledExists
  <1>4. IsDoubled(first, need, f) BY <1>3 DEF IsDoubled
  <1> HIDE DEF f
  <1> DEFINE S == {k \in Nat : k <= need => f[k] = g[k]}
  <1>5. S = Nat
    <2>1. 0 \in S BY <1>3, <1>4 DEF IsDoubled
    <2>2. ASSUME NEW k \in S PROVE k + 1 \in S
      <3>1. CASE k + 1 <= need
        <4>1. k + 1 \in 0 .. need /\ k + 1 # 0 /\ (k + 1) - 1 = k /\ k <= need BY <3>1
        <4>2. f[k + 1] = f[k] * 2 /\ g[k + 1] = g[k] * 2 BY <1>3, <1>4, <4>1 DEF IsDoubled
        <4>3. f[k] = g[k] BY <4>1
        <4> QED BY <4>2, <4>3
      <3>2. CASE ~(k + 1 <= need) BY <3>2
      <3> QED BY <3>1, <3>2
    <2>3. S \subseteq Nat OBVIOUS
    <2> HIDE DEF S
    <2> QED BY <2>1, <2>2, <2>3, InductionBySet
  <1>6. \A k \in 0 .. need : f[k] = g[k] BY <1>5
  <1>7. \A k \in 0 .. need : f[k] \in Nat /\ f[k] > k BY <1>3, <1>6
  <1> DEFINE K == {k \in 0 .. need : need <= f[k]}
  <1>8. need \in K BY <1>7
  <1>9. K \subseteq Nat /\ K # {} BY <1>8
  <1>10. Min(K) \in K BY <1>9, MinOfNat
  <1> QED BY <1>2, <1>7, <1>10
----------------------------------------------------------------------------
(***************************************************************************)
(* The line.  extract_line finds what the peer means by the first line.    *)
(***************************************************************************)
Byte == {"CR", "LF", "x"}
HasLine(s) == \E i \in DOMAIN s : s[i] = "LF"

(* LineEnd finds the first LF, and 0 just when there is none. *)
LEMMA LineEndIs ==
  ASSUME NEW s \in Seq(Byte)
  PROVE  /\ LineEnd(s) = 0 <=> ~HasLine(s)
         /\ LineEnd(s) # 0 =>
              /\ LineEnd(s) \in 1 .. Len(s) /\ s[LineEnd(s)] = "LF"
              /\ \A j \in 1 .. LineEnd(s) - 1 : s[j] # "LF"
  <1> DEFINE I == {i \in 1 .. Len(s) : s[i] = "LF"}
  <1>1. LineEnd(s) = IF I # {} THEN Min(I) ELSE 0 BY DEF LineEnd, SelectInSeq
  <1>2. Len(s) \in Nat /\ DOMAIN s = 1 .. Len(s) OBVIOUS
  <1>3. I # {} <=> HasLine(s) BY <1>2 DEF HasLine
  <1>4. I \subseteq Nat OBVIOUS
  <1>5. CASE I = {} BY <1>1, <1>3, <1>5
  <1>6. CASE I # {}
    <2> DEFINE k == Min(I)
    <2>1. k \in I /\ \A y \in I : k <= y BY <1>4, <1>6, MinOfNat
    <2> HIDE DEF k
    <2>2. k \in 1 .. Len(s) /\ s[k] = "LF" BY <2>1
    <2>3. ASSUME NEW j \in 1 .. k - 1 PROVE s[j] # "LF"
      <3>1. j \in 1 .. Len(s) /\ ~(k <= j) BY <1>2, <2>2
      <3> QED BY <2>1, <3>1
    <2>4. k # 0 BY <2>2
    <2> QED BY <1>1, <1>3, <1>6, <2>2, <2>3, <2>4 DEF k
  <1> QED BY <1>5, <1>6

(* The first n bytes of a sequence. *)
LEMMA Prefix ==
  ASSUME NEW s \in Seq(Byte), NEW n \in 0 .. Len(s)
  PROVE  /\ SubSeq(s, 1, n) \in Seq(Byte) /\ Len(SubSeq(s, 1, n)) = n
         /\ \A i \in 1 .. n : SubSeq(s, 1, n)[i] = s[i]
  <1>1. 1 \in Int /\ n \in Int /\ n \in Nat /\ n - 1 + 1 = n /\ Len(s) \in Nat OBVIOUS
  <1>2. \A i \in 1 .. n : i \in 1 .. Len(s) BY <1>1
  <1>3. \A i \in 1 .. n : s[i] \in Byte BY <1>2
  <1>4. /\ SubSeq(s, 1, n) \in Seq(Byte)
        /\ Len(SubSeq(s, 1, n)) = IF 1 <= n THEN n - 1 + 1 ELSE 0
        /\ \A i \in 1 .. n - 1 + 1 : SubSeq(s, 1, n)[i] = s[1 + i - 1]
    BY <1>1, <1>3, SubSeqProperties
  <1>5. (IF 1 <= n THEN n - 1 + 1 ELSE 0) = n BY <1>1
  <1>6. \A i \in 1 .. n : 1 + i - 1 = i BY <1>1
  <1> QED BY <1>1, <1>4, <1>5, <1>6

(* What extract_line returns is what FirstLine says of the same bytes. *)
LEMMA LineTextIsFirstLine ==
  ASSUME NEW s \in Seq(Byte), HasLine(s)
  PROVE  LineText(s, LineEnd(s)) = FirstLine(s)
  <1> DEFINE k == LineEnd(s)
  <1>1. k \in 1 .. Len(s) /\ s[k] = "LF" /\ \A j \in 1 .. k - 1 : s[j] # "LF" BY LineEndIs
  <1>2. Len(s) \in Nat /\ DOMAIN s = 1 .. Len(s) OBVIOUS
  <1> HIDE DEF k
  <1> DEFINE before == {i \in DOMAIN s : \A j \in 1 .. i : s[j] # "LF"}
  <1> DEFINE line == SubSeq(s, 1, k - 1)
  <1>3. before = 1 .. k - 1
    <2>1. ASSUME NEW i \in before PROVE i \in 1 .. k - 1
      <3>1. i \in 1 .. Len(s) /\ ~(k \in 1 .. i) BY <1>1, <1>2
      <3> QED BY <1>1, <1>2, <3>1
    <2>2. ASSUME NEW i \in 1 .. k - 1 PROVE i \in before
      <3>1. i \in DOMAIN s /\ \A j \in 1 .. i : j \in 1 .. k - 1 BY <1>1, <1>2
      <3> QED BY <1>1, <3>1
    <2> HIDE DEF before
    <2> QED BY <2>1, <2>2
  <1>4. 1 \in Int /\ k - 1 \in Int /\ k - 1 \in Nat /\ k - 1 \in 0 .. Len(s) BY <1>1, <1>2
  <1>5. Cardinality(1 .. k - 1) = k - 1
    <2>1. Cardinality(1 .. k - 1) = IF 1 > k - 1 THEN 0 ELSE (k - 1) - 1 + 1 BY <1>4, FS_Interval
    <2> QED BY <1>4, <2>1
  <1>6. FirstLine(s) = IF line # <<>> /\ Last(line) = "CR" THEN Front(line) ELSE line
    BY <1>3, <1>5 DEF FirstLine
  <1>7. line \in Seq(Byte) /\ Len(line) = k - 1 /\ \A i \in 1 .. k - 1 : line[i] = s[i]
    BY <1>4, Prefix
  <1>8. CASE k = 1
    <2>1. line = <<>> BY <1>7, <1>8
    <2>2. LineText(s, k) = line BY <1>8 DEF LineText
    <2> QED BY <1>6, <2>1, <2>2 DEF k
  <1>9. CASE k > 1
    <2>1. line # <<>> /\ Last(line) = s[k - 1]
      <3>1. k - 1 \in 1 .. k - 1 /\ k - 1 # 0 BY <1>1, <1>2, <1>9
      <3>2. line[k - 1] = s[k - 1] BY <1>7, <3>1
      <3> HIDE DEF line
      <3> QED BY <1>7, <3>1, <3>2 DEF Last
    <2>2. Front(line) = SubSeq(s, 1, k - 2)
      <3>1. (k - 1) - 1 = k - 2 /\ k - 2 \in Nat /\ k - 2 \in 0 .. Len(s) /\ k - 2 \in 0 .. k - 1
        BY <1>1, <1>2, <1>9
      <3>2. Front(line) = SubSeq(line, 1, k - 2)
        <4> HIDE DEF line
        <4> QED BY <1>7, <3>1 DEF Front
      <3>3. /\ SubSeq(s, 1, k - 2) \in Seq(Byte) /\ Len(SubSeq(s, 1, k - 2)) = k - 2
            /\ \A i \in 1 .. k - 2 : SubSeq(s, 1, k - 2)[i] = s[i]
        BY <3>1, Prefix
      <3>4. /\ SubSeq(line, 1, k - 2) \in Seq(Byte) /\ Len(SubSeq(line, 1, k - 2)) = k - 2
            /\ \A i \in 1 .. k - 2 : SubSeq(line, 1, k - 2)[i] = line[i]
        <4> HIDE DEF line
        <4> QED BY <1>7, <3>1, Prefix
      <3>5. \A i \in 1 .. k - 2 : i \in 1 .. k - 1 BY <1>1, <1>2, <3>1
      <3> DEFINE a == SubSeq(s, 1, k - 2)
      <3> DEFINE b == SubSeq(line, 1, k - 2)
      <3>6. \A i \in 1 .. k - 2 : a[i] = b[i] BY <1>7, <3>3, <3>4, <3>5
      <3>7. a \in Seq(Byte) /\ b \in Seq(Byte) /\ Len(a) = k - 2 /\ Len(b) = k - 2 BY <3>3, <3>4
      <3> HIDE DEF a, b
      <3>8. a = b BY <3>6, <3>7
      <3> QED BY <3>2, <3>8 DEF a, b
    <2>3. LineText(s, k) = SubSeq(s, 1, IF s[k - 1] = "CR" THEN k - 2 ELSE k - 1)
      BY <1>9 DEF LineText
    <2>4. CASE s[k - 1] = "CR" BY <1>6, <2>1, <2>2, <2>3, <2>4 DEF k
    <2>5. CASE s[k - 1] # "CR" BY <1>6, <2>1, <2>3, <2>5 DEF k
    <2> QED BY <2>4, <2>5
  <1>10. k = 1 \/ k > 1 BY <1>1, <1>2
  <1> QED BY <1>8, <1>9, <1>10
----------------------------------------------------------------------------
(***************************************************************************)
(* The session.  Until a line is handled the buffer is all that was        *)
(* received, unless memory was lost, and recv is only called again when    *)
(* there is no line in it.                                                 *)
(***************************************************************************)
Got == SubSeq(stream, 1, received)

HttpTypes ==
  /\ stream \in Seq(Byte) /\ received \in 0 .. Len(stream)
  /\ buffer \in Seq(Byte)
  /\ intact \in BOOLEAN

Fits == capacity \in Nat /\ Len(buffer) <= capacity

Fresh == state = "BANNER" /\ lines = <<>> /\ responses = 0 /\ received = 0 /\ buffer = <<>>
Waiting == state = "WAIT_CMD" /\ lines = <<>> /\ responses = 0 /\ (intact => buffer = Got)
Unanswered == Waiting /\ (intact => ~HasLine(Got))
Answered ==
  /\ state = "CLOSE" /\ responses = 1
  /\ intact => HasLine(Got) /\ lines = <<FirstLine(Got)>>

Places ==
  \/ pc = "start" /\ Fresh
  \/ pc = "extract" /\ Waiting
  \/ pc = "recv" /\ Unanswered
  \/ pc = "done" /\ (Unanswered \/ Answered)
  \/ pc = "crashed" /\ Waiting

HttpIInv == HttpTypes /\ Fits /\ Places

(* HttpIInv holds at the start. *)
LEMMA HttpInitIInv == HttpAssumption /\ Init => HttpIInv
  <1> SUFFICES ASSUME HttpAssumption, Init PROVE HttpIInv
    OBVIOUS
  <1>1. stream \in Seq(Byte) BY DEF Init, HttpAssumption, Byte
  <1>2. Len(stream) \in Nat BY <1>1
  <1>3. buffer = <<>> /\ received = 0 /\ capacity = 0 /\ intact = TRUE BY DEF Init
  <1>4. HttpTypes BY <1>1, <1>2, <1>3 DEF HttpTypes
  <1>5. Fits BY <1>3 DEF Fits
  <1>6. Places BY DEF Init, Places, Fresh
  <1> QED BY <1>4, <1>5, <1>6 DEF HttpIInv

(* What has been received, after n bytes more. *)
LEMMA GotGrows ==
  ASSUME HttpTypes, NEW n \in Nat, n <= Len(stream) - received
  PROVE  LET data == SubSeq(stream, received + 1, received + n)
         IN  /\ received + n \in 0 .. Len(stream)
             /\ data \in Seq(Byte) /\ Len(data) = n
             /\ SubSeq(stream, 1, received) \o data = SubSeq(stream, 1, received + n)
  <1> DEFINE r == received
  <1> DEFINE data == SubSeq(stream, r + 1, r + n)
  <1>1. stream \in Seq(Byte) /\ r \in 0 .. Len(stream) /\ Len(stream) \in Nat BY DEF HttpTypes
  <1>2. r \in Nat /\ r + n \in 0 .. Len(stream) BY <1>1
  <1> HIDE DEF r
  <1>3. data \in Seq(Byte) /\ Len(data) = n /\ \A i \in 1 .. n : data[i] = stream[r + i]
    <2>1. r + 1 \in Int /\ r + n \in Int /\ (r + n) - (r + 1) + 1 = n BY <1>2
    <2>2. \A i \in r + 1 .. r + n : i \in 1 .. Len(stream) BY <1>1, <1>2
    <2>3. \A i \in r + 1 .. r + n : stream[i] \in Byte BY <1>1, <2>2
    <2>4. /\ data \in Seq(Byte)
          /\ Len(data) = IF r + 1 <= r + n THEN (r + n) - (r + 1) + 1 ELSE 0
          /\ \A i \in 1 .. (r + n) - (r + 1) + 1 : data[i] = stream[(r + 1) + i - 1]
      BY <2>1, <2>3, SubSeqProperties
    <2> HIDE DEF data
    <2>5. (IF r + 1 <= r + n THEN (r + n) - (r + 1) + 1 ELSE 0) = n BY <1>2
    <2>6. \A i \in 1 .. n : (r + 1) + i - 1 = r + i BY <1>2
    <2> QED BY <2>1, <2>4, <2>5, <2>6
  <1> HIDE DEF data
  <1> DEFINE a == SubSeq(stream, 1, r)
  <1> DEFINE b == SubSeq(stream, 1, r + n)
  <1>4. a \in Seq(Byte) /\ Len(a) = r /\ \A i \in 1 .. r : a[i] = stream[i] BY <1>1, Prefix
  <1>5. b \in Seq(Byte) /\ Len(b) = r + n /\ \A i \in 1 .. r + n : b[i] = stream[i] BY <1>1, <1>2, Prefix
  <1> HIDE DEF a, b
  <1>6. a \o data \in Seq(Byte) /\ Len(a \o data) = r + n BY <1>3, <1>4, SMTT(40)
  <1>7. ASSUME NEW i \in 1 .. r + n PROVE (a \o data)[i] = b[i]
    <2>1. CASE i <= r
      <3>1. i \in 1 .. r BY <1>2, <2>1
      <3>2. (a \o data)[i] = a[i] BY <1>3, <1>4, <3>1
      <3> QED BY <1>4, <1>5, <3>1, <3>2
    <2>2. CASE ~(i <= r)
      <3>1. i - r \in 1 .. n /\ r + (i - r) = i BY <1>2, <2>2
      <3>2. (a \o data)[i] = data[i - r] BY <1>3, <1>4, <2>2, <3>1
      <3>3. data[i - r] = stream[i] BY <1>3, <3>1
      <3> QED BY <1>5, <3>2, <3>3
    <2> QED BY <2>1, <2>2
  <1> DEFINE c == a \o data
  <1>8. c \in Seq(Byte) /\ Len(c) = r + n /\ \A i \in 1 .. r + n : c[i] = b[i] BY <1>6, <1>7
  <1> HIDE DEF c
  <1>9. c = b BY <1>5, <1>8
  <1> QED BY <1>2, <1>3, <1>9 DEF a, b, c, data, r

(* A segment is appended behind all that was received, or lost with the    *)
(* session.                                                                *)
LEMMA RecvIInv ==
  ASSUME HttpAssumption, HttpIInv, NEW n \in 1 .. RecvSize, Recv(n)
  PROVE  HttpIInv'
  <1> DEFINE data == SubSeq(stream, received + 1, received + n)
  <1> DEFINE need == Len(buffer) + n
  <1>1. HttpTypes /\ Fits /\ Unanswered /\ pc = "recv" BY DEF HttpIInv, Places, Recv
  <1>2. n \in Nat /\ n <= Len(stream) - received /\ received' = received + n /\ stream' = stream
    BY DEF Recv, HttpAssumption
  <1>3. /\ received + n \in 0 .. Len(stream)
        /\ data \in Seq(Byte) /\ Len(data) = n
        /\ Got \o data = Got'
    BY <1>1, <1>2, GotGrows DEF Got
  <1> HIDE DEF data
  <1>4. /\ buffer \in Seq(Byte) /\ Len(buffer) \in Nat /\ intact \in BOOLEAN
        /\ stream \in Seq(Byte) /\ capacity \in Nat
        /\ Len(buffer) <= capacity
    BY <1>1 DEF HttpTypes, Fits
  <1>5. need \in Nat BY <1>2, <1>4
  <1>6. buffer \o data \in Seq(Byte) /\ Len(buffer \o data) = need
    <2>1. data \in Seq(Byte) /\ Len(data) = n /\ buffer \in Seq(Byte) BY <1>3, <1>4
    <2>2. buffer \o data \in Seq(Byte) /\ Len(buffer \o data) = Len(buffer) + Len(data) BY <2>1
    <2> QED BY <2>1, <2>2
  <1> HIDE DEF need
  <1>7. pc' = "extract" /\ UNCHANGED <<state, lines, responses>> BY DEF Recv
  <1>8. \/ need <= capacity /\ buffer' = buffer \o data /\ UNCHANGED <<capacity, intact>>
        \/ buffer' = buffer \o data /\ capacity' = NewCap(capacity, need) /\ UNCHANGED intact
        \/ intact' = FALSE /\ UNCHANGED <<buffer, capacity>>
    BY DEF Recv, need, data
  <1>9. HttpTypes' BY <1>2, <1>3, <1>4, <1>6, <1>8 DEF HttpTypes
  <1>10. Fits'
    <2>1. NewCap(capacity, need) \in Nat /\ need <= NewCap(capacity, need) BY <1>4, <1>5, NewCapFits
    <2> QED BY <1>4, <1>6, <1>8, <2>1 DEF Fits
  <1>11. Waiting'
    <2>1. intact' => buffer' = buffer \o data /\ intact BY <1>8
    <2>2. intact => buffer = Got BY <1>1 DEF Unanswered, Waiting
    <2>3. intact' => buffer' = Got' BY <1>3, <2>1, <2>2
    <2> QED BY <1>1, <1>7, <2>3 DEF Unanswered, Waiting
  <1> QED BY <1>7, <1>9, <1>10, <1>11 DEF HttpIInv, Places

(* The line that is handled is the first one received, and it is answered. *)
LEMMA HandleLineIInv ==
  ASSUME HttpIInv, HandleLine
  PROVE  HttpIInv'
  <1> DEFINE i == LineEnd(buffer)
  <1>1. HttpTypes /\ Fits /\ Waiting BY DEF HttpIInv, Places, HandleLine
  <1>2. buffer \in Seq(Byte) /\ Len(buffer) \in Nat /\ capacity \in Nat /\ Len(buffer) <= capacity
    BY <1>1 DEF HttpTypes, Fits
  <1>3. /\ i # 0 /\ lines' = Append(lines, LineText(buffer, i)) /\ buffer' = AfterLine(buffer, i)
        /\ state' = NextState(state) /\ pc' = IF state' = "CLOSE" THEN "done" ELSE "extract"
        /\ responses' = IF Answers(state) THEN responses + 1 ELSE responses
        /\ UNCHANGED <<stream, received, capacity, intact>>
    BY DEF HandleLine
  <1>4. HasLine(buffer) /\ i \in 1 .. Len(buffer) BY <1>2, <1>3, LineEndIs
  <1>5. buffer' \in Seq(Byte) /\ Len(buffer') <= Len(buffer) /\ Len(buffer') \in Nat
    <2> HIDE DEF i
    <2>1. i + 1 \in Int /\ Len(buffer) \in Int BY <1>2, <1>4
    <2>2. \A j \in i + 1 .. Len(buffer) : j \in 1 .. Len(buffer) BY <1>2, <1>4
    <2>3. \A j \in i + 1 .. Len(buffer) : buffer[j] \in Byte BY <1>2, <2>2
    <2>4. /\ buffer' \in Seq(Byte)
          /\ Len(buffer') = IF i + 1 <= Len(buffer) THEN Len(buffer) - (i + 1) + 1 ELSE 0
      BY <1>3, <2>1, <2>3, SubSeqProperties DEF AfterLine
    <2> QED BY <1>2, <1>4, <2>4
  <1>6. state' = "CLOSE" /\ responses' = 1 /\ pc' = "done"
    BY <1>1, <1>3 DEF Waiting, NextState, Answers
  <1>7. HttpTypes' BY <1>1, <1>3, <1>5 DEF HttpTypes
  <1>8. Fits' BY <1>2, <1>3, <1>5 DEF Fits
  <1>9. intact' => HasLine(Got)' /\ lines' = <<FirstLine(Got')>>
    <2> SUFFICES ASSUME intact' PROVE HasLine(Got') /\ lines' = <<FirstLine(Got')>>
      BY DEF HasLine
    <2>1. buffer = Got /\ Got' = Got BY <1>1, <1>3 DEF Waiting, Got
    <2>2. LineText(buffer, i) = FirstLine(buffer) BY <1>2, <1>4, LineTextIsFirstLine
    <2>3. lines' = <<LineText(buffer, i)>> BY <1>1, <1>3 DEF Waiting
    <2> HIDE DEF i
    <2> QED BY <1>4, <2>1, <2>2, <2>3
  <1>10. Answered' BY <1>6, <1>9 DEF Answered, HasLine, FirstLine
  <1> QED BY <1>6, <1>7, <1>8, <1>10 DEF HttpIInv, Places

(* Each step keeps HttpIInv. *)
LEMMA HttpStep ==
  ASSUME HttpAssumption, HttpIInv, [Next]_vars
  PROVE  HttpIInv'
  <1>1. HttpTypes /\ Fits BY DEF HttpIInv
  <1>2. ASSUME UNCHANGED <<stream, received, buffer, capacity>>, intact' \in BOOLEAN
        PROVE  HttpTypes' /\ Fits' /\ Got' = Got
    BY <1>1, <1>2 DEF HttpTypes, Fits, Got
  <1>3. ASSUME UNCHANGED <<stream, received, buffer, intact, state, lines, responses>>
        PROVE  (Waiting => Waiting') /\ (Unanswered => Unanswered') /\ (Answered => Answered')
    BY <1>3 DEF Waiting, Unanswered, Answered, Got, HasLine, FirstLine
  <1>4. CASE Start
    <2>1. Fresh BY <1>4 DEF HttpIInv, Places, Start
    <2>2. /\ UNCHANGED <<stream, received, buffer, capacity, intact, lines>>
          /\ pc' = "recv" /\ state' = "WAIT_CMD" /\ responses' = 0
      BY <1>4, <2>1 DEF Start, Fresh, NextState, Answers
    <2>3. Got' = <<>> /\ ~HasLine(Got)' /\ buffer' = <<>>
      <3>1. received' = 0 /\ buffer' = <<>> BY <2>1, <2>2 DEF Fresh
      <3>2. Got' = SubSeq(stream', 1, 0) BY <3>1 DEF Got
      <3>3. Got' = <<>> BY <3>2, SubSeqEmpty
      <3> QED BY <3>1, <3>3 DEF HasLine
    <2>4. Unanswered' BY <2>1, <2>2, <2>3 DEF Unanswered, Waiting, Fresh
    <2>5. HttpTypes' /\ Fits' BY <1>1, <2>2 DEF HttpTypes, Fits
    <2> QED BY <2>2, <2>4, <2>5 DEF HttpIInv, Places
  <1>5. ASSUME NEW n \in 1 .. RecvSize, Recv(n) PROVE HttpIInv' BY <1>5, RecvIInv
  <1>6. CASE RecvEnds
    <2>1. Unanswered BY <1>6 DEF HttpIInv, Places, RecvEnds
    <2>2. UNCHANGED <<stream, received, buffer, capacity, intact, state, lines, responses>> /\ pc' = "done"
      BY <1>6 DEF RecvEnds
    <2>3. HttpTypes' /\ Fits' BY <1>1, <2>2 DEF HttpTypes, Fits
    <2> QED BY <1>3, <2>1, <2>2, <2>3 DEF HttpIInv, Places
  <1>7. CASE HandleLine BY <1>7, HandleLineIInv
  <1>8. CASE NoLine
    <2>1. Waiting BY <1>8 DEF HttpIInv, Places, NoLine
    <2>2. /\ UNCHANGED <<stream, received, buffer, capacity, state, lines, responses>> /\ pc' = "recv"
          /\ (LineEnd(buffer) = 0 /\ intact' = intact) \/ intact' = FALSE
      BY <1>8 DEF NoLine
    <2>3. HttpTypes' /\ Fits' BY <1>1, <2>2 DEF HttpTypes, Fits
    <2>4. CASE LineEnd(buffer) = 0 /\ intact' = intact
      <3>1. ~HasLine(buffer) BY <1>1, <2>4, LineEndIs DEF HttpTypes
      <3>2. Unanswered BY <2>1, <3>1 DEF Unanswered, Waiting
      <3> QED BY <1>3, <2>2, <2>3, <2>4, <3>2 DEF HttpIInv, Places
    <2>5. CASE intact' = FALSE
      <3>1. Unanswered' BY <2>1, <2>2, <2>5 DEF Unanswered, Waiting
      <3> QED BY <2>2, <2>3, <3>1 DEF HttpIInv, Places
    <2> QED BY <2>2, <2>4, <2>5
  <1>9. ASSUME UNCHANGED <<pc, state, stream, received, buffer, capacity, intact, lines, responses>>
        PROVE  HttpIInv'
    <2>1. HttpTypes' /\ Fits' BY <1>1, <1>9 DEF HttpTypes, Fits
    <2>2. Fresh => Fresh' BY <1>9 DEF Fresh
    <2>3. (Waiting => Waiting') /\ (Unanswered => Unanswered') /\ (Answered => Answered') BY <1>3, <1>9
    <2>4. pc' = pc BY <1>9
    <2> QED BY <2>1, <2>2, <2>3, <2>4 DEF HttpIInv, Places
  <1>10. CASE Close BY <1>9, <1>10 DEF Close
  <1>11. CASE Ended \/ UNCHANGED vars BY <1>9, <1>11 DEF Ended, vars
  <1>12. CASE HandleLineCrashes
    <2>1. Waiting BY <1>12 DEF HttpIInv, Places, HandleLineCrashes
    <2>2. /\ UNCHANGED <<stream, received, buffer, capacity, intact, state, lines, responses>>
          /\ pc' = "crashed"
      BY <1>12 DEF HandleLineCrashes
    <2>3. HttpTypes' /\ Fits' BY <1>1, <2>2 DEF HttpTypes, Fits
    <2> QED BY <1>3, <2>1, <2>2, <2>3 DEF HttpIInv, Places
  <1> QED BY <1>4, <1>5, <1>6, <1>7, <1>8, <1>10, <1>11, <1>12 DEF Next, Service

(* The inductive invariant of a session of run_http_service. *)
THEOREM HttpInvariance == Spec => []HttpIInv
  <1>1. Init => HttpIInv BY HttpAssumption, HttpInitIInv
  <1>2. HttpIInv /\ [Next]_vars => HttpIInv' BY HttpAssumption, HttpStep
  <1> QED BY <1>1, <1>2, PTL DEF Spec

(* FirstLineAnswered: however TCP cuts the stream, run_http_service        *)
(* answers its first line, once, when its LF has come, and nothing else;   *)
(* connection_append_data never writes past the end of the buffer.         *)
THEOREM HttpAnswersFirstLine == Spec => []FirstLineAnswered
  <1>1. HttpIInv => FirstLineAnswered
    <2> SUFFICES ASSUME HttpIInv PROVE FirstLineAnswered
      OBVIOUS
    <2>1. Len(buffer) <= capacity BY DEF HttpIInv, Fits
    <2>2. responses <= 1 /\ (responses = 1 <=> state = "CLOSE")
      BY DEF HttpIInv, Places, Fresh, Waiting, Unanswered, Answered
    <2>3. ASSUME intact, pc \in {"recv", "done"}
          PROVE  IF HasLine(Got) THEN lines = <<FirstLine(Got)>> /\ responses = 1
                 ELSE lines = <<>> /\ responses = 0
      BY <2>3 DEF HttpIInv, Places, Waiting, Unanswered, Answered
    <2> QED BY <2>1, <2>2, <2>3 DEF FirstLineAnswered, HasLine, Got
  <1> QED BY <1>1, HttpInvariance, PTL
=============================================================================
