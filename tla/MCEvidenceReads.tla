-------------------------- MODULE MCEvidenceReads --------------------------
(* Small instances of EvidenceReads.                                       *)
EXTENDS EvidenceReads
=============================================================================
