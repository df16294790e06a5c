---------------------------- MODULE MCSshSession ---------------------------
(* Commands over two characters; one of them ends the shell. *)
EXTENDS SshSession

MCExits == {<<"q">>, <<"q", "q">>}
=============================================================================
