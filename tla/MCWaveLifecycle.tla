--------------------------- MODULE MCWaveLifecycle ---------------------------
(* Small instances of WaveLifecycle for TLC.                                *)
EXTENDS WaveLifecycle, TLC
=============================================================================
