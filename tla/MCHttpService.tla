--------------------------- MODULE MCHttpService ---------------------------
(* All streams of up to MaxStream bytes. *)
EXTENDS HttpService

CONSTANT MaxStream

MCStreams == BoundedSeq({"CR", "LF", "x"}, MaxStream)
=============================================================================
