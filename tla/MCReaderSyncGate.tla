-------------------------- MODULE MCReaderSyncGate --------------------------
(***************************************************************************)
(* A small instance of ReaderSyncGate.                                     *)
(*                                                                         *)
(* Two jobs sync over three readers each, two at a time, and a third syncs *)
(* with one reader; all three meet at r2.  With a limit of 2 that gives a  *)
(* line of three at one reader, slots that are all taken, and a call that  *)
(* arrives while a freed slot is on its way to a waiter.                   *)
(***************************************************************************)
EXTENDS ReaderSyncGate, TLC

CONSTANTS b1, b2, b3, r1, r2, r3, r4, r5

McItems == (b1 :> <<r1, r2, r3>>) @@ (b2 :> <<r4, r5, r2>>) @@ (b3 :> <<r2>>)
McConcurrency == (b1 :> 2) @@ (b2 :> 2) @@ (b3 :> 1)
=============================================================================
