--------------------------- MODULE ReaderSyncGate ---------------------------
(***************************************************************************)
(* The gate every sync with a device goes through: one at a time for each  *)
(* reader, a ceiling over all readers, both in the memory of one process,  *)
(* and the batches of mapWithConcurrency that feed it.                     *)
(*                                                                         *)
(* JavaScript runs one microtask after the other, in the order in which    *)
(* they were queued, before it looks at the next input or output.  `micro` *)
(* is that queue.  `ticks` counts the promises between the one that is     *)
(* settled and the `await` that goes on: an entry goes round the queue as  *)
(* often.                                                                  *)
(***************************************************************************)
EXTENDS Integers, Sequences, FiniteSets

CONSTANTS
  Reader,       \* keys of readers and cameras
  Batch,        \* calls of mapReadersWithSyncGate, or of Promise.all over the gate
  Items,        \* readers of each batch, in order
  Concurrency,  \* how many items of a batch may be in flight
  Limit,        \* GLOBAL_FACE_SYNC_LIMIT
  None

\* A task is an item of a batch: one call of withReaderSyncGate.
Task == UNION {{b} \X (1..Len(Items[b])) : b \in Batch}
ReaderOf(t) == Items[t[1]][t[2]]

ASSUME GateAssumption ==
  /\ Items \in [Batch -> Seq(Reader)]
  /\ Concurrency \in [Batch -> Nat \ {0}]
  /\ Limit \in Nat \ {0}
  /\ None \notin Task

VARIABLES
  micro,        \* the microtask queue
  pc,           \* where each call of withReaderSyncGate is
  prev,         \* the call whose tail it awaits
  readerTail,   \* the last call made for each reader
  globalActive, \* slots taken
  globalWaiters,\* calls that wait for a slot
  calls,        \* number of calls made so far
  rank,         \* which of them a task's call was
  early,        \* did a sync end before it reached its device
  batch         \* the loops of each batch

lineVars == <<prev, readerTail, calls, rank>>
slotVars == <<globalActive, globalWaiters>>
vars == <<micro, pc, lineVars, slotVars, early, batch>>

Pc == {"new", "behind", "waiting", "holding", "running", "settled", "done"}

Entry == [do : {"next"}, of : Batch, ticks : {0}]
         \cup [do : {"ready"}, of : Task, ticks : 0..3]
         \cup [do : {"wake", "start", "finally"}, of : Task, ticks : {0}]

\* The entry for t that runs after the given number of rounds.
After(ticks, what, t) == [do |-> what, of |-> t, ticks |-> ticks]

TypeOK ==
  /\ micro \in Seq(Entry)
  /\ pc \in [Task -> Pc]
  /\ prev \in [Task -> Task \cup {None}]
  /\ readerTail \in [Reader -> Task \cup {None}]
  /\ globalActive \in Nat
  /\ globalWaiters \in Seq(Task)
  /\ calls \in Nat
  /\ rank \in [Task -> Nat]
  /\ early \in BOOLEAN
  /\ batch \in [Batch -> [started : BOOLEAN, next : Nat \ {0}, loops : Int, failed : BOOLEAN]]

Init ==
  /\ micro = <<>>
  /\ pc = [t \in Task |-> "new"]
  /\ prev = [t \in Task |-> None]
  /\ readerTail = [r \in Reader |-> None]
  /\ globalActive = 0
  /\ globalWaiters = <<>>
  /\ calls = 0
  /\ rank = [t \in Task |-> 0]
  /\ early = FALSE
  /\ batch = [b \in Batch |-> [started |-> FALSE, next |-> 1, loops |-> 0, failed |-> FALSE]]

-----------------------------------------------------------------------------
(* Inputs.  A job asks for its syncs; a device answers.  Both find the      *)
(* microtask queue empty.                                                   *)

\* mapWithConcurrency: its loops begin one after the other.
Begin(b) ==
  LET loops == IF Concurrency[b] < Len(Items[b]) THEN Concurrency[b] ELSE Len(Items[b]) IN
  /\ micro = <<>>
  /\ ~batch[b].started
  /\ micro' = [i \in 1..loops |-> After(0, "next", b)]
  /\ batch' = [batch EXCEPT ![b].started = TRUE, ![b].loops = loops]
  /\ UNCHANGED <<pc, lineVars, slotVars, early>>

\* fn settles after it talked to the device.
Answer(t) ==
  /\ micro = <<>>
  /\ pc[t] = "running"
  /\ pc' = [pc EXCEPT ![t] = "settled"]
  /\ micro' = <<After(0, "finally", t)>>
  /\ UNCHANGED <<lineVars, slotVars, early, batch>>

-----------------------------------------------------------------------------
(* Microtasks: what the entry at the head of the queue does. *)

\* The entry at the head runs `what` of x.
Runs(what, x) == micro # <<>> /\ Head(micro) = After(0, what, x)
Then(s) == micro' = Tail(micro) \o s

\* One more promise is settled on the way to the `await`.
Tick ==
  /\ micro # <<>> /\ Head(micro).ticks > 0
  /\ Then(<<[Head(micro) EXCEPT !.ticks = @ - 1]>>)
  /\ UNCHANGED <<pc, lineVars, slotVars, early, batch>>

\* withReaderSyncGate up to its first await: join the end of the line.  A promise
\* that is settled already goes on after two ticks.
Call(t) ==
  LET r == ReaderOf(t) IN
  /\ pc[t] = "new"
  /\ calls' = calls + 1
  /\ rank' = [rank EXCEPT ![t] = calls + 1]
  /\ prev' = [prev EXCEPT ![t] = readerTail[r]]
  /\ readerTail' = [readerTail EXCEPT ![r] = t]
  /\ pc' = [pc EXCEPT ![t] = IF readerTail[r] = None THEN "waiting" ELSE "behind"]
  /\ Then(IF readerTail[r] = None THEN <<After(1, "ready", t)>> ELSE <<>>)
  /\ UNCHANGED <<slotVars, early>>

\* A loop of a batch takes the next item, or ends.
HasNext(b) == batch[b].next <= Len(Items[b])

TakeItem(b) ==
  /\ Runs("next", b)
  /\ HasNext(b)
  /\ Call(<<b, batch[b].next>>)
  /\ batch' = [batch EXCEPT ![b].next = @ + 1]

EndLoop(b) ==
  /\ Runs("next", b)
  /\ ~HasNext(b)
  /\ batch' = [batch EXCEPT ![b].loops = @ - 1]
  /\ Then(<<>>)
  /\ UNCHANGED <<pc, lineVars, slotVars, early>>

\* Mutant: one slot too many.
SlotIsAlmostFree == globalActive <= Limit

\* acquireGlobalSlot: take a free slot, or join those who wait for one.
SlotIsFree == globalActive < Limit

Acquire(t) ==
  /\ Runs("ready", t)
  /\ SlotIsFree
  /\ globalActive' = globalActive + 1
  /\ pc' = [pc EXCEPT ![t] = "holding"]
  /\ Then(<<After(0, "start", t)>>)
  /\ UNCHANGED <<lineVars, globalWaiters, early, batch>>

WaitForSlot(t) ==
  /\ Runs("ready", t)
  /\ ~SlotIsFree
  /\ globalWaiters' = Append(globalWaiters, t)
  /\ Then(<<>>)
  /\ UNCHANGED <<pc, lineVars, globalActive, early, batch>>

\* Mutant: the slot counts as handed over, though it was given back.
ActiveAsHandedOver == globalActive

\* The call whose turn it is takes the slot, without another look at the count.
ActiveAfterWake == globalActive + 1

Wake(t) ==
  /\ Runs("wake", t)
  /\ globalActive' = ActiveAfterWake
  /\ pc' = [pc EXCEPT ![t] = "holding"]
  /\ Then(<<After(0, "start", t)>>)
  /\ UNCHANGED <<lineVars, globalWaiters, early, batch>>

\* fn begins, and talks to the device ...
StartSync(t) ==
  /\ Runs("start", t)
  /\ pc' = [pc EXCEPT ![t] = "running"]
  /\ Then(<<>>)
  /\ UNCHANGED <<lineVars, slotVars, early, batch>>

\* ... or settles before it does: a password that cannot be deciphered, an image
\* that is missing.
FailEarly(t) ==
  /\ Runs("start", t)
  /\ pc' = [pc EXCEPT ![t] = "settled"]
  /\ early' = TRUE
  /\ Then(<<After(0, "finally", t)>>)
  /\ UNCHANGED <<lineVars, slotVars, batch>>

\* releaseGlobalSlot: free the slot and wake the first of those who wait.
ActiveAfterRelease == IF globalActive > 0 THEN globalActive - 1 ELSE 0
WaitersAfterRelease == IF globalWaiters = <<>> THEN <<>> ELSE Tail(globalWaiters)

Woken == IF globalWaiters = <<>> THEN <<>> ELSE <<After(0, "wake", Head(globalWaiters))>>

Follows(u, t) == pc[u] = "behind" /\ prev[u] = t

\* Mutant: the reader is not released.
FreedByNobody(t) == <<>>

\* releaseReader: the call that awaits the tail of t, four promises away.
Freed(t) ==
  IF \E u \in Task : Follows(u, t)
  THEN <<After(3, "ready", CHOOSE u \in Task : Follows(u, t))>> ELSE <<>>

\* Mutant: the line is forgotten whoever is at its end.
TailAfterAnyone(t) == [readerTail EXCEPT ![ReaderOf(t)] = None]

\* The end of the line at t's reader, once t has left.
TailAfter(t) ==
  LET r == ReaderOf(t) IN
  IF readerTail[r] = t THEN [readerTail EXCEPT ![r] = None] ELSE readerTail

\* The finally block.
LeaveGate(t) ==
  /\ Runs("finally", t)
  /\ globalActive' = ActiveAfterRelease
  /\ globalWaiters' = WaitersAfterRelease
  /\ readerTail' = TailAfter(t)
  /\ pc' = [u \in Task |-> IF u = t THEN "done" ELSE IF Follows(u, t) THEN "waiting" ELSE pc[u]]
  /\ UNCHANGED <<prev, calls, rank, early>>

\* The loop of the batch goes on ...
Release(t) ==
  /\ LeaveGate(t)
  /\ Then(Woken \o Freed(t) \o <<After(0, "next", t[1])>>)
  /\ UNCHANGED batch

\* ... or fn threw, which ends that loop and rejects the promise of the batch;
\* the other loops go on.
ReleaseAndThrow(t) ==
  /\ LeaveGate(t)
  /\ Then(Woken \o Freed(t))
  /\ batch' = [batch EXCEPT ![t[1]].loops = @ - 1, ![t[1]].failed = TRUE]

Microtask ==
  \/ Tick
  \/ \E b \in Batch : TakeItem(b) \/ EndLoop(b)
  \/ \E t \in Task : Acquire(t) \/ WaitForSlot(t) \/ Wake(t)
                     \/ StartSync(t) \/ FailEarly(t) \/ Release(t) \/ ReleaseAndThrow(t)

Next ==
  \/ \E b \in Batch : Begin(b)
  \/ \E t \in Task : Answer(t)
  \/ Microtask

Spec == Init /\ [][Next]_vars

\* Microtasks run; a device answers, or its client gives up after a timeout.
FairSpec == Spec /\ WF_vars(Microtask) /\ \A t \in Task : WF_vars(Answer(t))

-----------------------------------------------------------------------------
(* Properties. *)

\* A call that was made and has not left.
InGate(t) == pc[t] \notin {"new", "done"}
Holding == {t \in Task : pc[t] \in {"holding", "running", "settled"}}

\* The gate keeps the promise of ReaderTickets: at one reader, syncs run one at a
\* time and in the order in which withReaderSyncGate was called.
Tickets == INSTANCE ReaderTickets WITH
  Sync <- Task, Place <- [t \in Task |-> ReaderOf(t)],
  issued <- calls, ticket <- rank,
  inside <- {t \in Task : pc[t] \in {"running", "settled"}},
  gone <- {t \in Task : pc[t] = "done"}
RunsInOrder == Tickets!TicketSpec

\* globalActive counts the calls that hold a slot, no more and no fewer: Math.max(0, ...)
\* never hides a release too many, and no slot is lost by a waiter or by a sync
\* that throws.
SlotsCounted == globalActive = Cardinality(Holding)

\* "Teto agregado de syncs de face em voo": as long as every sync reaches its device,
\* no more than Limit are in flight ...
CeilingUntilEarlyEnd == ~early => globalActive <= Limit

\* ... and whatever happens.
Ceiling == globalActive <= Limit

\* Every call that joined the line gets its turn and leaves.
EveryCallLeaves == \A t \in Task : (rank[t] > 0) ~> (pc[t] = "done")
=============================================================================
