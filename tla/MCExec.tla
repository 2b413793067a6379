-------------------------------- MODULE MCExec ------------------------------
(* Small instances of ExecStream for TLC: a script that exits 0 or 7, or    *)
(* dies of SIGKILL.                                                         *)
EXTENDS ExecStream

ExitCodes == {0, 7}
SigKill   == 137

=============================================================================
