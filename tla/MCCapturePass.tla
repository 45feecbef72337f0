---------------------------- MODULE MCCapturePass ----------------------------
(* The model-checking instance of CapturePass; its values are in the .cfg.    *)
EXTENDS CapturePass
=============================================================================
