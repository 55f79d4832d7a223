-------------------------------- MODULE MCFs ---------------------------------
(* Instances of Fs for TLC.                                                *)
EXTENDS Fs

MCFiles == {<<"a">>}
=============================================================================
