---------------------------- MODULE MCQuickstart ----------------------------
(* Small instances of Quickstart.                                          *)
EXTENDS Quickstart
=============================================================================
