------------------------------ MODULE HostKey ------------------------------
(***************************************************************************)
(* The SSH host key at start-up: ensure_key_directory, validate_key_file   *)
(* and ensure_ssh_host_key of src/main.c.  The two key files outlive the   *)
(* process, which may be killed between any two of its steps and started   *)
(* again.                                                                  *)
(*                                                                         *)
(* ssh-keygen is external: it writes the private file and then the public  *)
(* one, each not in one step, and it may fail.  unlink is taken to succeed *)
(* in the service's own directory.                                         *)
(***************************************************************************)
EXTENDS Integers

CONSTANTS
  InitialFiles,  \* the pairs of files there may be before the first start
  MaxKeys        \* bound of the model: the keys ssh-keygen makes

ASSUME HostKeyAssumption == MaxKeys \in Nat

(* A file: what is in it, its permissions, and the key it belongs to.      *)
(* "head" is the beginning of a key, PEM header included; "junk" has no    *)
(* PEM header.                                                             *)
File == [content : {"absent", "empty", "junk", "head", "key"},
         mode : {"0000", "0600", "0644", "0777"}, key : 0 .. MaxKeys]
Absent == [content |-> "absent", mode |-> "0000", key |-> 0]

VARIABLES
  dir,      \* SSH_KEY_DIR: absent, a directory, or something else
  priv,     \* key_path
  pub,      \* key_path.pub
  made,     \* the keys made so far
  pc,       \* where start-up is
  found,    \* history: the two files as this start found them
  clean     \* history: no system call has failed in this start

vars == <<dir, priv, pub, made, pc, found, clean>>

HasData(f) == f.content \notin {"absent", "empty"}

(* No public file beside a private one it does not belong to, or beside    *)
(* one that was cut short: what start-up relies on without looking.        *)
OfOnePair(f, g) ==
  HasData(f) /\ f.content # "junk" /\ HasData(g) => f.content = "key" /\ g.key = f.key

(* The files there are before the first start are no half of two pairs.    *)
ASSUME FilesAssumption ==
  /\ InitialFiles \subseteq File \X File
  /\ \A files \in InitialFiles : OfOnePair(files[1], files[2])
----------------------------------------------------------------------------
(* Mutated forms, for mutation testing only: permissions not repaired, a   *)
(* public file that is not needed, a key that is made anew at every start, *)
(* a private file without a key passed on to generation.                   *)
NotRepaired(f, mode) == f
PublicNotNeeded == "ok"
NeverThere == FALSE
BadPrivateAnew == "unlinkPriv"
----------------------------------------------------------------------------
(* stat(key_path) succeeds and the file is not empty. *)
KeyExists == HasData(priv)

(* validate_key_file: the file can be accepted once its permissions are    *)
(* those expected.  Only the private file is searched for a PEM header.    *)
Acceptable(f, mode) ==
  HasData(f) /\ (mode = "0600" => f.content # "junk")

(* validate_key_file sets the permissions before it reads the file. *)
Repaired(f, mode) == IF HasData(f) THEN [f EXCEPT !.mode = mode] ELSE f

(* Where start-up goes when the private file is not acceptable, and when   *)
(* the public one is not.                                                  *)
AfterBadPrivate == "failed"
AfterBadPublic == "unlinkPriv"
----------------------------------------------------------------------------
Init ==
  /\ dir \in {"absent", "directory", "file"}
  /\ \E files \in InitialFiles :
       /\ priv = IF dir = "directory" THEN files[1] ELSE Absent
       /\ pub = IF dir = "directory" THEN files[2] ELSE Absent
  /\ found = <<priv, pub>>
  /\ made = 0
  /\ pc = "start"
  /\ clean = TRUE

(* ensure_key_directory; mkdir may fail. *)
EnsureDirectory ==
  /\ pc = "start"
  /\ \/ dir = "directory" /\ pc' = "look" /\ UNCHANGED dir
     \/ dir = "file" /\ pc' = "failed" /\ UNCHANGED dir
     \/ dir = "absent" /\ pc' = "look" /\ dir' = "directory"
     \/ dir = "absent" /\ pc' = "failed" /\ UNCHANGED dir
  /\ UNCHANGED <<priv, pub, made, found, clean>>

(* Is there a key? *)
LookForKey ==
  /\ pc = "look"
  /\ pc' = IF KeyExists THEN "checkPriv" ELSE "unlinkPriv"
  /\ UNCHANGED <<dir, priv, pub, made, found, clean>>

(* validate_key_file of the private file; a file that cannot be accepted   *)
(* ends start-up, and so does a chmod or fopen that fails.                 *)
CheckPrivate ==
  /\ pc = "checkPriv"
  /\ \/ /\ priv' = Repaired(priv, "0600")
        /\ pc' = IF Acceptable(priv, "0600") THEN "checkPub" ELSE AfterBadPrivate
        /\ UNCHANGED clean
     \/ /\ priv' \in {priv, Repaired(priv, "0600")}
        /\ pc' = AfterBadPrivate
        /\ clean' = FALSE
  /\ UNCHANGED <<dir, pub, made, found>>

(* validate_key_file of the public file; if it fails, both are made anew. *)
CheckPublic ==
  /\ pc = "checkPub"
  /\ \/ /\ pub' = Repaired(pub, "0644")
        /\ pc' = IF Acceptable(pub, "0644") THEN "ok" ELSE AfterBadPublic
        /\ UNCHANGED clean
     \/ /\ pub' \in {pub, Repaired(pub, "0644")}
        /\ pc' = AfterBadPublic
        /\ clean' = FALSE
  /\ UNCHANGED <<dir, priv, made, found>>

UnlinkPrivate ==
  /\ pc = "unlinkPriv"
  /\ priv' = Absent
  /\ pc' = "unlinkPub"
  /\ UNCHANGED <<dir, pub, made, found, clean>>

UnlinkPublic ==
  /\ pc = "unlinkPub"
  /\ pub' = Absent
  /\ pc' = "keygen"
  /\ UNCHANGED <<dir, priv, made, found, clean>>

(* ssh-keygen: a file is begun, and then finished; private, then public. *)
Keygen ==
  /\ \/ /\ pc = "keygen" /\ made < MaxKeys
        /\ made' = made + 1
        /\ priv' = [content |-> "head", mode |-> "0600", key |-> made']
        /\ pc' = "keygen2" /\ UNCHANGED pub
     \/ /\ pc = "keygen2"
        /\ priv' = [priv EXCEPT !.content = "key"]
        /\ pc' = "keygen3" /\ UNCHANGED <<pub, made>>
     \/ /\ pc = "keygen3"
        /\ pub' = [content |-> "head", mode |-> "0644", key |-> made]
        /\ pc' = "keygen4" /\ UNCHANGED <<priv, made>>
     \/ /\ pc = "keygen4"
        /\ pub' = [pub EXCEPT !.content = "key"]
        /\ pc' = "chmod" /\ UNCHANGED <<priv, made>>
  /\ UNCHANGED <<dir, found, clean>>

(* It fails, anywhere: start-up ends. *)
KeygenFails ==
  /\ pc \in {"keygen", "keygen2", "keygen3", "keygen4"}
  /\ pc' = "failed"
  /\ clean' = FALSE
  /\ UNCHANGED <<dir, priv, pub, made, found>>

(* The two chmod, and validate_key_file of both files. *)
SetModes ==
  /\ pc = "chmod"
  /\ \/ /\ priv' = Repaired(priv, "0600")
        /\ pub' = Repaired(pub, "0644")
        /\ pc' = IF Acceptable(priv, "0600") /\ Acceptable(pub, "0644") THEN "ok" ELSE "failed"
        /\ UNCHANGED clean
     \/ /\ priv' \in {priv, Repaired(priv, "0600")}
        /\ pub' \in {pub, Repaired(pub, "0644")}
        /\ pc' = "failed"
        /\ clean' = FALSE
  /\ UNCHANGED <<dir, made, found>>

(* The process is killed, or has ended, and is started again. *)
Restart ==
  /\ pc # "start"
  /\ pc' = "start"
  /\ found' = <<priv, pub>>
  /\ clean' = TRUE
  /\ UNCHANGED <<dir, priv, pub, made>>

Next ==
  \/ EnsureDirectory \/ LookForKey \/ CheckPrivate \/ CheckPublic
  \/ UnlinkPrivate \/ UnlinkPublic \/ Keygen \/ KeygenFails \/ SetModes
  \/ Restart

Spec == Init /\ [][Next]_vars
----------------------------------------------------------------------------
(* The service starts with a whole private key that nobody else can read   *)
(* and with the public file of the same pair, even after a crash in the    *)
(* middle of ssh-keygen: the public file is written last, and without it   *)
(* both are made anew.  (A public file that a crash cut short is accepted: *)
(* nothing looks into it.)                                                 *)
StartsWithWholePair ==
  pc = "ok" => /\ priv.content = "key" /\ priv.mode = "0600"
               /\ pub.key = priv.key /\ pub.mode = "0644"

(* A key the honeypot is known by is not thrown away: a start that finds a *)
(* private key with its public file, whatever their permissions, keeps     *)
(* both, unless a system call fails in it.                                 *)
IdentityKept ==
  (clean /\ \A i \in 1 .. 2 : found[i].content = "key")
    => /\ priv.content = "key" /\ priv.key = found[1].key
       /\ pub.content = "key" /\ pub.key = found[2].key

(* A private file that holds something that is not a key is left for its   *)
(* owner to look at: no start removes it or overwrites it.                 *)
ForeignFileKept ==
  [][priv.content = "junk" => priv'.content = "junk" /\ priv'.key = priv.key]_vars
=============================================================================
