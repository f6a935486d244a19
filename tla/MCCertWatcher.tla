--------------------------- MODULE MCCertWatcher ---------------------------
(***************************************************************************)
(* Two rotations of the three files: the second can begin at any point of  *)
(* the reload that the first has caused.                                   *)
(***************************************************************************)
EXTENDS CertWatcher
=============================================================================
