------------------------------ MODULE MCSetup -------------------------------
(* Small instances of SetupWizard.                                          *)
EXTENDS SetupWizard

CONSTANTS b1, b2

TwoBuckets == {b1, b2}
FirstBucket == b1

=============================================================================
