---------------------------- MODULE MCAutomation ----------------------------
(* Small instances of AutomationDispatch for TLC.                          *)
EXTENDS AutomationDispatch, TLC

CONSTANTS j1, j2, x1, d1, a1, a2
=============================================================================
