------------------------ MODULE MCRecordingRotation -------------------------
(* The instance of RecordingRotation that TLC checks. *)
EXTENDS RecordingRotation
=============================================================================
