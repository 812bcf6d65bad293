------------------------- MODULE MCDeviceSyncQueue -------------------------
(***************************************************************************)
(* Instances of DeviceSyncQueue for TLC.                                   *)
(***************************************************************************)
EXTENDS DeviceSyncQueue, TLC

\* One person synced under one dedupe key, or under the plain and force keys.
OneKey  == [k \in {"plain"} |-> "ana"]
TwoKeys == [k \in {"plain", "force"} |-> "ana"]

\* One loop in each of two processes, or a single loop.
LoopEach == "w1" :> "p1" @@ "w2" :> "p2"
LoopOne  == "w1" :> "p1"
=============================================================================
