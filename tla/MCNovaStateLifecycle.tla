------------------------- MODULE MCNovaStateLifecycle -------------------------
(***************************************************************************)
(* Small instances of NovaStateLifecycle for TLC.                          *)
(***************************************************************************)
EXTENDS NovaStateLifecycle

CONSTANTS alice, bob  \* model values
==============================================================================
