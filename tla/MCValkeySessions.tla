-------------------------- MODULE MCValkeySessions --------------------------
(***************************************************************************)
(* ValkeySessions for model checking.                                      *)
(***************************************************************************)
EXTENDS ValkeySessions, TLC

CONSTANTS s1, s2, s3

MCSessions == {s1, s2, s3}
MCIdle == (s1 :> 0) @@ (s2 :> 1) @@ (s3 :> 1)
MCStuck == {s2}
MCLeft == {s3}
=============================================================================
