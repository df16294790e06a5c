-------------------------- MODULE MCTelnetSession --------------------------
(* Each recv returns up to MaxItems whole items, and parts of the commands  *)
(* it begins and stops in.                                                  *)
EXTENDS TelnetSession

CONSTANT MaxItems

MCInputs ==
  BoundedSeq({"a", "NUL", "CR", "negotiate", "subnegotiate", "nop", "escaped"}, MaxItems)

(* One line that ends the shell. *)
MCExits == {<<"a", "a">>}
=============================================================================
