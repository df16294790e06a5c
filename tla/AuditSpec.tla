----------------------------- MODULE AuditSpec -----------------------------
(***************************************************************************)
(* What the audit trail promises: a bounded FIFO that numbers what it      *)
(* accepts, refuses a record only when it is full, and hands the records   *)
(* on in order, each at most once.  It knows nothing of rings, locks,      *)
(* threads or files.                                                       *)
(***************************************************************************)
EXTENDS Integers, Sequences

CONSTANTS
  Producers,   \* who submits records
  Capacity,    \* how many records can wait
  Calls        \* the numbers a producer gives its records

VARIABLES
  queue,       \* the accepted records, the oldest first
  out,         \* the records handed on
  accepted,    \* how many records were accepted
  refused      \* how many were refused

vars == <<queue, out, accepted, refused>>

Init == queue = <<>> /\ out = <<>> /\ accepted = 0 /\ refused = 0

Accept ==
  /\ Len(queue) < Capacity
  /\ \E p \in Producers, n \in Calls :
       queue' = Append(queue, [seq |-> accepted + 1, src |-> p, call |-> n])
  /\ accepted' = accepted + 1
  /\ UNCHANGED <<out, refused>>

Refuse ==
  /\ Len(queue) = Capacity
  /\ refused' = refused + 1
  /\ UNCHANGED <<queue, out, accepted>>

HandOn ==
  /\ queue # <<>>
  /\ queue' = Tail(queue)
  /\ out' = Append(out, Head(queue))
  /\ UNCHANGED <<accepted, refused>>

Lose ==
  /\ queue # <<>>
  /\ queue' = Tail(queue)
  /\ UNCHANGED <<out, accepted, refused>>

Next == Accept \/ Refuse \/ HandOn \/ Lose

Spec == Init /\ [][Next]_vars
=============================================================================
