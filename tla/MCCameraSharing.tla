--------------------------- MODULE MCCameraSharing ---------------------------
(* TLC instances of CameraSharing. *)
EXTENDS CameraSharing, TLC
=============================================================================
