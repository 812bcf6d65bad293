---------------------------- MODULE MCFaceAccess ----------------------------
(* Instances of FaceAccess; what varies is in their configurations.        *)
EXTENDS FaceAccess
=============================================================================
