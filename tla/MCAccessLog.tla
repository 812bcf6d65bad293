---------------------------- MODULE MCAccessLog ----------------------------
(* Instances of AccessLog.                                                 *)
EXTENDS AccessLog

(* A reader that sends strange pictures sends its accesses with their own, *)
(* and the other way round; see the README for the devices that do both.   *)
Kinds ==
  {[brand |-> "intelbras", bare |-> FALSE, stray |-> TRUE],
   [brand |-> "hikvision", bare |-> FALSE, stray |-> TRUE],
   [brand |-> "hikvision", bare |-> TRUE, stray |-> FALSE],
   [brand |-> "camera", bare |-> TRUE, stray |-> FALSE]}

=============================================================================
