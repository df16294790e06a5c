----------------------------- MODULE MCHostKey -----------------------------
(* What may be there before the first start: no files, a pair of key 0      *)
(* with any permissions, one without its public file, a private file that   *)
(* is empty or is not a key.                                                *)
EXTENDS HostKey

KeyFile(c, m) == [content |-> c, mode |-> m, key |-> 0]

MCInitialFiles ==
  {<<Absent, Absent>>}
    \cup {<<KeyFile("key", m), KeyFile("key", n)>> : m, n \in {"0600", "0644", "0777"}}
    \cup {<<KeyFile(c, "0600"), p>> : c \in {"empty", "junk", "key"}, p \in {Absent, KeyFile("empty", "0644")}}
=============================================================================
