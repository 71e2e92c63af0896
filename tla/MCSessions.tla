----------------------------- MODULE MCSessions -----------------------------
(* A request, a mail and a recording, or an FTP connection, or an SFTP      *)
(* connection with two uploads, one into a directory; two pollers.          *)
EXTENDS Transfers

CONSTANTS request, mail, burn, connect, sftp1, up1, up2, p1, p2

MCDirectories == {<<"a">>, <<"a", "b">>}
MCTarget == (up1 :> <<"a", "f">>) @@ (up2 :> <<"f">>)
=============================================================================
