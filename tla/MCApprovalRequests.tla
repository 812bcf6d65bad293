------------------------- MODULE MCApprovalRequests -------------------------
(* Instances of ApprovalRequests; what varies is in their configurations.  *)
EXTENDS ApprovalRequests
=============================================================================
