----------------------------- MODULE MCIoBuffer -----------------------------
(* One process beside that of the part, a buffer of two lines.             *)
EXTENDS IoBuffer
MCOthers == {"late"}
=============================================================================
