------------------------------ MODULE Session ------------------------------
(***************************************************************************)
(* What the sessions of the services have in common: the handler thread's  *)
(* place in run_..._service, the local variables of that function, the     *)
(* events it has recorded, what it has sent, and the calls of close on its *)
(* descriptor.  The modules of the services extend this one and say what   *)
(* local holds; ServiceMap puts them together, and leaves service as it    *)
(* is.  A send whose result the service does not test counts as sent.      *)
(***************************************************************************)
EXTENDS Integers, SequencesExt

VARIABLES
  service,   \* the service of the port the peer has connected to
  pc,        \* where the handler thread is
  local,     \* the local variables of the service, and its histories
  audit,     \* the events recorded, in order
  replies,   \* history: what was sent, in order
  closes     \* the number of times the descriptor was closed

session == <<service, pc, local, audit, replies, closes>>

CR == "CR"
LF == "LF"
SP == "SP"
NUL == "NUL"
----------------------------------------------------------------------------
(* Mutated form, for mutation testing only: the way out without close. *)
LeaveOpen == closes
----------------------------------------------------------------------------
(* A string as C reads it, up to its first NUL; the bytes of it that fit   *)
(* into a buffer of that size; and the string without the CR and LF at its *)
(* end, as the strip_crlf functions leave it.                              *)
CString(s) ==
  LET nul == SelectInSeq(s, LAMBDA b : b = NUL) IN IF nul = 0 THEN s ELSE SubSeq(s, 1, nul - 1)
Cut(s, size) == SubSeq(s, 1, Min({Len(s), size - 1}))
StripCrlf(s) == SubSeq(s, 1, SelectLastInSeq(s, LAMBDA b : b \notin {CR, LF}))

(* The same of bytes that are numbers, from place i on. *)
StringAt(bytes, i) ==
  LET ends == {j \in i .. Len(bytes) : bytes[j] = 0}
  IN  SubSeq(bytes, i, IF ends = {} THEN Len(bytes) ELSE Min(ends) - 1)

(* The events of a trail of one kind. *)
EventsOf(kind) == SelectSeq(audit, LAMBDA e : e[1] = kind)
----------------------------------------------------------------------------
(* The session begins, with the connection recorded. *)
Begins(place, variables) ==
  /\ pc = place
  /\ local = variables
  /\ audit = <<<<"CONNECT">>>>
  /\ replies = <<>>
  /\ closes = 0

(* recv returns 0 or an error, and the service goes to its end. *)
PeerGone(places) ==
  /\ pc \in places
  /\ pc' = "end"
  /\ UNCHANGED <<local, audit, replies, closes>>

(* The close of the descriptor. *)
CloseSocket == closes + 1

(* The end of most services: the disconnection is recorded, then the       *)
(* descriptor closed.                                                      *)
EndSession ==
  /\ pc = "end"
  /\ audit' = Append(audit, <<"DISCONNECT">>)
  /\ closes' = CloseSocket
  /\ pc' = "ended"
  /\ UNCHANGED <<local, replies>>
=============================================================================
