--------------------------- MODULE HostKey_proof ---------------------------
(***************************************************************************)
(* Proofs about HostKey, for every number of starts and keys and for every *)
(* set of files there may be before the first start.                       *)
(***************************************************************************)
EXTENDS HostKey, TLAPS

KeyTypeOK ==
  /\ dir \in {"absent", "directory", "file"}
  /\ priv \in File /\ pub \in File
  /\ found \in File \X File
  /\ made \in 0 .. MaxKeys
  /\ clean \in BOOLEAN
  /\ pc \in {"start", "look", "checkPriv", "checkPub", "unlinkPriv", "unlinkPub",
             "keygen", "keygen2", "keygen3", "keygen4", "chmod", "ok", "failed"}

(* What each place of start-up knows of the two files. *)
Progress ==
  /\ pc = "checkPub" => priv.mode = "0600" /\ Acceptable(priv, "0600")
  /\ pc = "unlinkPriv" => priv.content # "junk"
  /\ pc = "unlinkPub" => priv = Absent
  /\ pc = "keygen" => priv = Absent /\ pub = Absent
  /\ pc \in {"keygen2", "keygen3"} => priv.key = made /\ pub = Absent
  /\ pc = "keygen2" => priv.content = "head"
  /\ pc = "keygen3" => priv.content = "key"
  /\ pc \in {"keygen4", "chmod"} => priv.content = "key" /\ priv.key = made
  /\ pc \in {"keygen4", "chmod"} => HasData(pub) /\ pub.key = made

(* A start without a failed call that found a whole pair is on the one     *)
(* path that leaves it alone.                                              *)
PairKept ==
  (clean /\ found[1].content = "key" /\ found[2].content = "key")
    => /\ pc \in {"start", "look", "checkPriv", "checkPub", "ok", "failed"}
       /\ priv.content = "key" /\ priv.key = found[1].key
       /\ pub.content = "key" /\ pub.key = found[2].key

KeyIInv ==
  KeyTypeOK /\ OfOnePair(priv, pub) /\ Progress /\ PairKept /\ StartsWithWholePair

(* validate_key_file keeps the content of a file and the key in it. *)
LEMMA RepairedKeeps ==
  ASSUME NEW f \in File, NEW mode \in {"0600", "0644"}
  PROVE  /\ Repaired(f, mode) \in File
         /\ Repaired(f, mode).content = f.content
         /\ Repaired(f, mode).key = f.key
         /\ HasData(f) => Repaired(f, mode).mode = mode
BY DEF Repaired, File, HasData

(* KeyIInv holds when the process is started for the first time. *)
LEMMA KeyInit == Init => KeyIInv
<1> SUFFICES ASSUME Init PROVE KeyIInv
  OBVIOUS
<1> USE HostKeyAssumption
<1>1. Absent \in File /\ ~HasData(Absent)
  BY DEF Absent, File, HasData
<1>2. PICK files \in InitialFiles :
        /\ priv = IF dir = "directory" THEN files[1] ELSE Absent
        /\ pub = IF dir = "directory" THEN files[2] ELSE Absent
  BY DEF Init
<1>3. files \in File \X File /\ OfOnePair(files[1], files[2])
  BY FilesAssumption
<1>4. priv \in File /\ pub \in File /\ OfOnePair(priv, pub)
  BY <1>1, <1>2, <1>3 DEF OfOnePair
<1>. QED
  BY <1>4 DEF Init, KeyIInv, KeyTypeOK, Progress, PairKept, StartsWithWholePair

(* Each step of start-up, a restart among them, keeps KeyIInv. *)
LEMMA KeyStep ==
  ASSUME KeyIInv, [Next]_vars
  PROVE  KeyIInv'
<1> USE HostKeyAssumption DEF KeyIInv
<1>0. /\ Absent \in File /\ ~HasData(Absent) /\ Absent.content = "absent"
      /\ priv \in File /\ pub \in File
  BY DEF Absent, File, HasData, KeyTypeOK
<1>a. /\ Repaired(priv, "0600") \in File
      /\ Repaired(priv, "0600").content = priv.content
      /\ Repaired(priv, "0600").key = priv.key
      /\ HasData(priv) => Repaired(priv, "0600").mode = "0600"
      /\ Repaired(pub, "0644") \in File
      /\ Repaired(pub, "0644").content = pub.content
      /\ Repaired(pub, "0644").key = pub.key
      /\ HasData(pub) => Repaired(pub, "0644").mode = "0644"
  BY <1>0, RepairedKeeps
<1>1. CASE EnsureDirectory
  BY <1>1 DEF EnsureDirectory, KeyTypeOK, OfOnePair, Progress, PairKept, StartsWithWholePair
<1>2. CASE LookForKey
  BY <1>2 DEF LookForKey, KeyExists, HasData, KeyTypeOK, OfOnePair, Progress, PairKept,
              StartsWithWholePair
<1>3. CASE CheckPrivate
  <2>1. /\ priv' \in File /\ priv'.content = priv.content /\ priv'.key = priv.key
        /\ UNCHANGED <<dir, pub, made, found>>
        /\ pc' = "checkPub" => priv'.mode = "0600" /\ Acceptable(priv, "0600")
        /\ pc' \in {"checkPub", "failed"}
    BY <1>0, <1>a, <1>3 DEF CheckPrivate, AfterBadPrivate, Acceptable
  <2>2. clean' = clean \/ clean' = FALSE
    BY <1>3 DEF CheckPrivate
  <2>3. PairKept'
    BY <2>1, <2>2 DEF PairKept
  <2>. QED
    BY <2>1, <2>2, <2>3
       DEF Acceptable, HasData, KeyTypeOK, OfOnePair, Progress, StartsWithWholePair
<1>4. CASE CheckPublic
  <2>1. /\ pub' \in File /\ pub'.content = pub.content /\ pub'.key = pub.key
        /\ UNCHANGED <<dir, priv, made, found>>
        /\ pc' = "ok" => pub'.mode = "0644" /\ HasData(pub)
        /\ pc' \in {"ok", "unlinkPriv"}
    BY <1>0, <1>a, <1>4 DEF CheckPublic, AfterBadPublic, Acceptable
  <2>2. \/ clean' = clean /\ (pc' = "ok" \/ ~HasData(pub))
        \/ clean' = FALSE
    BY <1>4 DEF CheckPublic, AfterBadPublic, Acceptable
  <2>3. PairKept'
    BY <2>1, <2>2 DEF PairKept, HasData
  <2>4. priv.mode = "0600" /\ HasData(priv) /\ priv.content # "junk"
    BY <1>4 DEF CheckPublic, Progress, Acceptable
  <2>. QED
    BY <2>1, <2>2, <2>3, <2>4
       DEF HasData, KeyTypeOK, OfOnePair, Progress, StartsWithWholePair
<1>5. CASE UnlinkPrivate
  BY <1>0, <1>5
     DEF UnlinkPrivate, KeyTypeOK, OfOnePair, Progress, PairKept, StartsWithWholePair
<1>6. CASE UnlinkPublic
  BY <1>0, <1>6
     DEF UnlinkPublic, KeyTypeOK, OfOnePair, Progress, PairKept, StartsWithWholePair
<1>7. CASE Keygen
  BY <1>0, <1>7
     DEF Keygen, File, Absent, HasData, KeyTypeOK, OfOnePair, Progress, PairKept,
         StartsWithWholePair
<1>8. CASE KeygenFails
  BY <1>8 DEF KeygenFails, KeyTypeOK, OfOnePair, Progress, PairKept, StartsWithWholePair
<1>9. CASE SetModes
  <2>1. /\ priv' \in File /\ priv'.content = priv.content /\ priv'.key = priv.key
        /\ pub' \in File /\ pub'.content = pub.content /\ pub'.key = pub.key
        /\ UNCHANGED <<dir, made, found>>
        /\ pc' = "ok" => priv'.mode = "0600" /\ pub'.mode = "0644"
        /\ pc' \in {"ok", "failed"}
    BY <1>0, <1>a, <1>9 DEF SetModes, Acceptable
  <2>2. clean' = clean \/ clean' = FALSE
    BY <1>9 DEF SetModes
  <2>3. priv.content = "key" /\ priv.key = pub.key
    BY <1>9 DEF SetModes, Progress
  <2>4. PairKept'
    BY <2>1, <2>2, <1>9 DEF PairKept, SetModes
  <2>. QED
    BY <2>1, <2>2, <2>3, <2>4
       DEF HasData, KeyTypeOK, OfOnePair, Progress, StartsWithWholePair
<1>10. CASE Restart
  BY <1>10 DEF Restart, KeyTypeOK, OfOnePair, Progress, PairKept, StartsWithWholePair
<1>11. CASE UNCHANGED vars
  BY <1>11 DEF vars, KeyTypeOK, OfOnePair, HasData, Progress, Acceptable, PairKept,
               StartsWithWholePair
<1>. QED
  BY <1>1, <1>2, <1>3, <1>4, <1>5, <1>6, <1>7, <1>8, <1>9, <1>10, <1>11 DEF Next

(* KeyIInv is an invariant of start-up. *)
THEOREM KeyInvariance == Spec => []KeyIInv
<1>1. KeyIInv /\ [Next]_vars => KeyIInv'
  BY KeyStep
<1>. QED
  BY KeyInit, <1>1, PTL DEF Spec

(* The SSH service is only ever started with a whole private key, readable *)
(* by nobody else, and with the public file of its pair, wherever earlier  *)
(* starts were killed.                                                     *)
THEOREM WholePairServed == Spec => []StartsWithWholePair
BY KeyInvariance, PTL DEF KeyIInv

(* ensure_ssh_host_key does not change the identity of the honeypot while  *)
(* the system calls succeed.                                               *)
THEOREM IdentitySafe == Spec => []IdentityKept
<1>1. KeyIInv => IdentityKept
  BY DEF KeyIInv, PairKept, IdentityKept
<1>. QED
  BY KeyInvariance, <1>1, PTL

(* No start removes or overwrites a private file that holds no key.        *)
THEOREM ForeignFileSafe == Spec => ForeignFileKept
<1>1. ASSUME KeyIInv, [Next]_vars
      PROVE  [priv.content = "junk" => priv'.content = "junk" /\ priv'.key = priv.key]_vars
  <2> SUFFICES ASSUME Next, priv.content = "junk"
               PROVE  priv'.content = "junk" /\ priv'.key = priv.key
    BY <1>1
  <2>1. /\ Repaired(priv, "0600").content = priv.content
        /\ Repaired(priv, "0600").key = priv.key
    BY <1>1, RepairedKeeps DEF KeyIInv, KeyTypeOK
  <2>2. pc \notin {"unlinkPriv", "keygen", "keygen2"}
    BY <1>1 DEF KeyIInv, Progress, Absent
  <2>. QED
    BY <2>1, <2>2
       DEF Next, EnsureDirectory, LookForKey, CheckPrivate, CheckPublic, UnlinkPrivate,
           UnlinkPublic, Keygen, KeygenFails, SetModes, Restart
<1>. QED
  BY KeyInvariance, <1>1, PTL DEF Spec, ForeignFileKept
=============================================================================
