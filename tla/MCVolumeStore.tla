--------------------------- MODULE MCVolumeStore ---------------------------
(* Model-checking instance of VolumeStore.                                 *)
EXTENDS VolumeStore
=============================================================================
