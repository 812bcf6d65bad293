------------------------ MODULE ReaderSyncGateProofs ------------------------
(***************************************************************************)
(* What TLAPS proves of ReaderSyncGate for any batches, readers and limit: *)
(* its syncs run in the order of ReaderTickets, globalActive counts the    *)
(* calls that hold a slot, and stays below the limit as long as no sync    *)
(* ends early.                                                             *)
(*                                                                         *)
(* The argument has three parts.  Consistent says that the microtask queue *)
(* and the line for a slot mention a call once at most, and only with what *)
(* it waits for.  The line of each reader is InLine: a call that others of *)
(* its reader precede awaits one that has not left yet.  CeilingInv says   *)
(* that between a release and the waiter it wakes nothing else runs.       *)
(***************************************************************************)
EXTENDS ReaderSyncGate, SequenceTheorems, FiniteSetTheorems, TLAPS

\* What an entry may say of the call it belongs to.
Fits(e, p) ==
  /\ e.do \in {"ready", "wake"} => p[e.of] = "waiting"
  /\ e.do = "start" => p[e.of] = "holding"
  /\ e.do = "finally" => p[e.of] = "settled"

\* Two entries are not about one call.
Apart(e, f) == e.do = "next" \/ f.do = "next" \/ e.of # f.of

Consistent(q, w, p) ==
  /\ \A i \in 1..Len(q) : Fits(q[i], p)
  /\ \A i, j \in 1..Len(q) : i # j => Apart(q[i], q[j])
  /\ \A i \in 1..Len(w) : p[w[i]] = "waiting"
  /\ \A i, j \in 1..Len(w) : i # j => w[i] # w[j]
  /\ \A i \in 1..Len(q), j \in 1..Len(w) : q[i].do # "next" => q[i].of # w[j]

\* Calls have different ranks, and those that were not made have none.
Ranked ==
  /\ \A t \in Task : (pc[t] = "new" <=> rank[t] = 0) /\ rank[t] <= calls
  /\ \A t, u \in Task : rank[t] = rank[u] /\ rank[t] > 0 => t = u

\* A call that others of its reader precede awaits one that has not left, and that
\* none of them follows.
InLine ==
  \A t, u \in Task :
    ReaderOf(t) = ReaderOf(u) /\ rank[u] > 0 /\ rank[u] < rank[t] /\ pc[u] # "done" =>
      /\ pc[t] = "behind"
      /\ prev[t] \in Task
      /\ ReaderOf(prev[t]) = ReaderOf(t)
      /\ rank[u] <= rank[prev[t]]
      /\ pc[prev[t]] # "done"

\* readerTail is the last call in the line of its reader.
TailIsLast ==
  \A r \in Reader :
    /\ readerTail[r] = None => \A u \in Task : ReaderOf(u) = r => ~InGate(u)
    /\ readerTail[r] # None =>
         /\ ReaderOf(readerTail[r]) = r
         /\ InGate(readerTail[r])
         /\ \A u \in Task : ReaderOf(u) = r /\ InGate(u) => rank[u] <= rank[readerTail[r]]

LineInv == Ranked /\ InLine /\ TailIsLast

SlotInv == IsFiniteSet(Holding) /\ SlotsCounted

\* No entry of q moves the count without a look at it.
Calm(q) == \A i \in 1..Len(q) : q[i].do \notin {"wake", "finally"}

\* As long as no sync ended early: a finally block is alone in the queue, and the
\* waiter that it wakes is the next to run and finds its slot.
CeilingInv ==
  ~early =>
    /\ globalActive <= Limit
    /\ micro # <<>> =>
         /\ Calm(Tail(micro))
         /\ Head(micro).do = "wake" => globalActive < Limit
         /\ Head(micro).do = "finally" => Tail(micro) = <<>>

GateInv == TypeOK /\ Consistent(micro, globalWaiters, pc) /\ LineInv /\ SlotInv /\ CeilingInv

-----------------------------------------------------------------------------
(* Tasks, entries and the queue. *)

\* An item of a batch is a task, and has a reader.
LEMMA Tasks ==
  /\ \A b \in Batch : \A i \in 1..Len(Items[b]) : <<b, i>> \in Task
  /\ \A t \in Task : t[1] \in Batch /\ ReaderOf(t) \in Reader
<1>1. \A b \in Batch : \A i \in 1..Len(Items[b]) : <<b, i>> \in Task
  BY DEF Task
<1>2. \A t \in Task : t[1] \in Batch /\ ReaderOf(t) \in Reader
  <2> TAKE t \in Task
  <2>1. PICK b \in Batch : t \in {b} \X (1..Len(Items[b]))
    BY DEF Task
  <2>2. t[1] = b /\ t[2] \in 1..Len(Items[b])
    BY <2>1
  <2>3. Items[b] \in Seq(Reader)
    BY GateAssumption
  <2>4. Items[b][t[2]] \in Reader
    BY <2>2, <2>3, ElementOfSeq
  <2> QED BY <2>2, <2>4 DEF ReaderOf
<1> QED BY <1>1, <1>2

LEMMA Entries ==
  /\ \A t \in Task : \A n \in 0..3 : After(n, "ready", t) \in Entry
  /\ \A t \in Task : After(0, "wake", t) \in Entry
  /\ \A t \in Task : After(0, "start", t) \in Entry
  /\ \A t \in Task : After(0, "finally", t) \in Entry
  /\ \A b \in Batch : After(0, "next", b) \in Entry
BY DEF After, Entry

\* An entry joins the queue.
LEMMA EntryJoins ==
  ASSUME NEW q \in Seq(Entry), NEW w \in Seq(Task), NEW p, NEW e \in Entry,
         Consistent(q, w, p),
         Fits(e, p),
         \A i \in 1..Len(q) : Apart(q[i], e),
         e.do = "next" \/ \A j \in 1..Len(w) : w[j] # e.of
  PROVE  q \o <<e>> \in Seq(Entry) /\ Consistent(q \o <<e>>, w, p)
<1> DEFINE r == q \o <<e>>
<1>1. <<e>> \in Seq(Entry) /\ Len(<<e>>) = 1 /\ <<e>>[1] = e
  OBVIOUS
<1>2. /\ r \in Seq(Entry)
      /\ Len(r) = Len(q) + 1
      /\ \A i \in 1..Len(q) + 1 : r[i] = IF i <= Len(q) THEN q[i] ELSE <<e>>[i - Len(q)]
  BY <1>1, ConcatProperties
<1>3. Len(q) \in Nat
  OBVIOUS
<1>4. /\ \A i \in 1..Len(q) : r[i] = q[i]
      /\ r[Len(q) + 1] = e
  BY <1>1, <1>2, <1>3
<1>5. \A i \in 1..Len(r) : i \in 1..Len(q) \/ i = Len(q) + 1
  BY <1>2, <1>3
<1> HIDE DEF r
<1>6. \A i \in 1..Len(r) : Fits(r[i], p)
  BY <1>4, <1>5 DEF Consistent
<1>7. \A i, j \in 1..Len(r) : i # j => Apart(r[i], r[j])
  BY <1>4, <1>5 DEF Consistent, Apart
<1>8. \A i \in 1..Len(r), j \in 1..Len(w) : r[i].do # "next" => r[i].of # w[j]
  BY <1>4, <1>5 DEF Consistent
<1>9. Consistent(r, w, p)
  BY <1>6, <1>7, <1>8 DEF Consistent
<1> QED BY <1>2, <1>9 DEF r

\* The entry at the head leaves it, and nothing else is about its call.
LEMMA HeadLeaves ==
  ASSUME NEW q \in Seq(Entry), NEW w \in Seq(Task), NEW p,
         Consistent(q, w, p), q # <<>>
  PROVE  /\ Tail(q) \in Seq(Entry)
         /\ Head(q) \in Entry
         /\ Consistent(Tail(q), w, p)
         /\ Fits(Head(q), p)
         /\ \A i \in 1..Len(Tail(q)) : Apart(Tail(q)[i], Head(q))
         /\ Head(q).do = "next" \/ \A j \in 1..Len(w) : w[j] # Head(q).of
<1> DEFINE r == Tail(q)
<1>1. /\ Head(q) \in Entry /\ r \in Seq(Entry) /\ Len(r) = Len(q) - 1
      /\ \A i \in 1..Len(r) : r[i] = q[i + 1]
  BY HeadTailProperties
<1>2. Len(q) \in Nat \ {0} /\ Head(q) = q[1]
  BY EmptySeq
<1>3. \A i \in 1..Len(r) : i + 1 \in 1..Len(q) /\ i + 1 # 1
  BY <1>1, <1>2
<1> HIDE DEF r
<1>4. \A i \in 1..Len(r) : Fits(r[i], p)
  BY <1>1, <1>3 DEF Consistent
<1>5. \A i, j \in 1..Len(r) : i # j => Apart(r[i], r[j])
  <2> TAKE i, j \in 1..Len(r)
  <2> HAVE i # j
  <2>1. i + 1 # j + 1
    OBVIOUS
  <2>2. Apart(q[i + 1], q[j + 1])
    BY <1>3, <2>1 DEF Consistent
  <2> QED BY <1>1, <2>2
<1>6. \A i \in 1..Len(r), j \in 1..Len(w) : r[i].do # "next" => r[i].of # w[j]
  BY <1>1, <1>3 DEF Consistent
<1>7. Consistent(r, w, p)
  BY <1>4, <1>5, <1>6 DEF Consistent
<1>8. 1 \in 1..Len(q)
  BY <1>2
<1>9. \A i \in 1..Len(r) : Apart(r[i], q[1])
  BY <1>1, <1>3, <1>8 DEF Consistent
<1>10. Fits(q[1], p) /\ (q[1].do = "next" \/ \A j \in 1..Len(w) : w[j] # q[1].of)
  BY <1>8 DEF Consistent
<1> QED BY <1>1, <1>2, <1>7, <1>9, <1>10 DEF r

\* A call that nobody mentions may go anywhere.
LEMMA CallMoves ==
  ASSUME NEW q \in Seq(Entry), NEW w \in Seq(Task), NEW p, NEW n,
         Consistent(q, w, p),
         \A i \in 1..Len(q) : q[i].do # "next" => n[q[i].of] = p[q[i].of],
         \A j \in 1..Len(w) : n[w[j]] = p[w[j]]
  PROVE  Consistent(q, w, n)
<1>1. \A i \in 1..Len(q) : q[i].do = "next" => Fits(q[i], n)
  BY DEF Fits
<1>2. \A i \in 1..Len(q) : q[i].do # "next" => Fits(q[i], n)
  BY DEF Fits, Consistent
<1> QED BY <1>1, <1>2 DEF Consistent

\* The first of those who wait for a slot leaves their line.
LEMMA WaiterLeaves ==
  ASSUME NEW q \in Seq(Entry), NEW w \in Seq(Task), NEW p,
         Consistent(q, w, p), w # <<>>
  PROVE  /\ Tail(w) \in Seq(Task)
         /\ Head(w) \in Task
         /\ p[Head(w)] = "waiting"
         /\ Consistent(q, Tail(w), p)
         /\ \A i \in 1..Len(q) : q[i].do # "next" => q[i].of # Head(w)
         /\ \A j \in 1..Len(Tail(w)) : Tail(w)[j] # Head(w)
<1> DEFINE v == Tail(w)
<1>1. /\ Head(w) \in Task /\ v \in Seq(Task) /\ Len(v) = Len(w) - 1
      /\ \A i \in 1..Len(v) : v[i] = w[i + 1]
  BY HeadTailProperties
<1>2. Len(w) \in Nat \ {0} /\ Head(w) = w[1]
  BY EmptySeq
<1>3. \A i \in 1..Len(v) : i + 1 \in 1..Len(w) /\ i + 1 # 1
  BY <1>1, <1>2
<1> HIDE DEF v
<1>4. 1 \in 1..Len(w)
  BY <1>2
<1>5. \A i \in 1..Len(v) : p[v[i]] = "waiting"
  BY <1>1, <1>3 DEF Consistent
<1>6. \A i, j \in 1..Len(v) : i # j => v[i] # v[j]
  <2> TAKE i, j \in 1..Len(v)
  <2> HAVE i # j
  <2>1. i + 1 # j + 1
    OBVIOUS
  <2> QED BY <1>1, <1>3, <2>1 DEF Consistent
<1>7. \A i \in 1..Len(q), j \in 1..Len(v) : q[i].do # "next" => q[i].of # v[j]
  BY <1>1, <1>3 DEF Consistent
<1>8. Consistent(q, v, p)
  BY <1>5, <1>6, <1>7 DEF Consistent
<1>9. p[w[1]] = "waiting" /\ \A i \in 1..Len(q) : q[i].do # "next" => q[i].of # w[1]
  BY <1>4 DEF Consistent
<1>10. \A j \in 1..Len(v) : v[j] # w[1]
  BY <1>1, <1>3, <1>4 DEF Consistent
<1> QED BY <1>1, <1>2, <1>8, <1>9, <1>10 DEF v

\* A call that nobody mentions joins those who wait for a slot.
LEMMA WaiterJoins ==
  ASSUME NEW q \in Seq(Entry), NEW w \in Seq(Task), NEW p, NEW t \in Task,
         Consistent(q, w, p),
         p[t] = "waiting",
         \A i \in 1..Len(q) : q[i].do # "next" => q[i].of # t,
         \A j \in 1..Len(w) : w[j] # t
  PROVE  Append(w, t) \in Seq(Task) /\ Consistent(q, Append(w, t), p)
<1> DEFINE v == Append(w, t)
<1>1. v \in Seq(Task) /\ Len(v) = Len(w) + 1
  OBVIOUS
<1>2. (\A j \in 1..Len(w) : v[j] = w[j]) /\ v[Len(w) + 1] = t
  OBVIOUS
<1>3. \A i \in 1..Len(v) : i \in 1..Len(w) \/ i = Len(w) + 1
  BY <1>1
<1> HIDE DEF v
<1>4. \A i \in 1..Len(v) : p[v[i]] = "waiting"
  BY <1>2, <1>3 DEF Consistent
<1>5. \A i, j \in 1..Len(v) : i # j => v[i] # v[j]
  BY <1>2, <1>3 DEF Consistent
<1>6. \A i \in 1..Len(q), j \in 1..Len(v) : q[i].do # "next" => q[i].of # v[j]
  BY <1>2, <1>3 DEF Consistent
<1>7. Consistent(q, v, p)
  BY <1>4, <1>5, <1>6 DEF Consistent
<1> QED BY <1>1, <1>7 DEF v

-----------------------------------------------------------------------------
(* The queue, step by step. *)

\* Nobody mentions t.
Unmentioned(t, q, w) ==
  /\ \A i \in 1..Len(q) : q[i].do # "next" => q[i].of # t
  /\ \A j \in 1..Len(w) : w[j] # t

\* When the entry at the head is about t, it is the only one.
LEMMA RunsAlone ==
  ASSUME TypeOK, Consistent(micro, globalWaiters, pc), NEW t \in Task,
         NEW what \in {"ready", "wake", "start", "finally"}, Runs(what, t)
  PROVE  /\ Tail(micro) \in Seq(Entry)
         /\ Consistent(Tail(micro), globalWaiters, pc)
         /\ Unmentioned(t, Tail(micro), globalWaiters)
         /\ what \in {"ready", "wake"} => pc[t] = "waiting"
         /\ what = "start" => pc[t] = "holding"
         /\ what = "finally" => pc[t] = "settled"
<1>1. micro \in Seq(Entry) /\ globalWaiters \in Seq(Task) /\ micro # <<>>
  BY DEF TypeOK, Runs
<1>2. Head(micro).do = what /\ Head(micro).of = t
  BY DEF Runs, After
<1>3. /\ Tail(micro) \in Seq(Entry)
      /\ Consistent(Tail(micro), globalWaiters, pc)
      /\ Fits(Head(micro), pc)
      /\ \A i \in 1..Len(Tail(micro)) : Apart(Tail(micro)[i], Head(micro))
      /\ Head(micro).do = "next" \/ \A j \in 1..Len(globalWaiters) : globalWaiters[j] # Head(micro).of
  BY <1>1, HeadLeaves
<1>4. Unmentioned(t, Tail(micro), globalWaiters)
  BY <1>2, <1>3 DEF Unmentioned, Apart
<1> QED BY <1>2, <1>3, <1>4 DEF Fits

\* A call that is new, behind, running or done is not in the queue, nor in the
\* line for a slot.
LEMMA OthersUnmentioned ==
  ASSUME NEW q, NEW w, NEW p, Consistent(q, w, p), q \in Seq(Entry),
         NEW t \in Task, p[t] \in {"new", "behind", "running", "done"}
  PROVE  Unmentioned(t, q, w)
<1>1. \A i \in 1..Len(q) : q[i] \in Entry
  BY ElementOfSeq
<1>2. \A i \in 1..Len(q) : q[i].do # "next" => q[i].of # t
  BY <1>1 DEF Consistent, Fits, Entry
<1> QED BY <1>2 DEF Consistent, Unmentioned

\* t moves, and nobody mentions it.
LEMMA MoveAlone ==
  ASSUME NEW q \in Seq(Entry), NEW w \in Seq(Task), NEW p \in [Task -> Pc], NEW t \in Task,
         Consistent(q, w, p), Unmentioned(t, q, w), NEW x
  PROVE  Consistent(q, w, [p EXCEPT ![t] = x])
<1> DEFINE n == [p EXCEPT ![t] = x]
<1>1. \A u : u # t => n[u] = p[u]
  OBVIOUS
<1>2. /\ \A i \in 1..Len(q) : q[i].do # "next" => n[q[i].of] = p[q[i].of]
      /\ \A j \in 1..Len(w) : n[w[j]] = p[w[j]]
  BY <1>1 DEF Unmentioned
<1> HIDE DEF n
<1>3. Consistent(q, w, n)
  BY <1>2, CallMoves
<1> QED BY <1>3 DEF n

\* t moves to where the entry that joins the queue says it is.
LEMMA MoveAndJoin ==
  ASSUME NEW q \in Seq(Entry), NEW w \in Seq(Task), NEW p \in [Task -> Pc], NEW t \in Task,
         Consistent(q, w, p), Unmentioned(t, q, w),
         NEW x, NEW e \in Entry, e.of = t,
         Fits(e, [p EXCEPT ![t] = x])
  PROVE  /\ q \o <<e>> \in Seq(Entry)
         /\ Consistent(q \o <<e>>, w, [p EXCEPT ![t] = x])
<1>1. Consistent(q, w, [p EXCEPT ![t] = x])
  BY MoveAlone
<1>2. /\ \A i \in 1..Len(q) : Apart(q[i], e)
      /\ \A j \in 1..Len(w) : w[j] # e.of
  BY DEF Unmentioned, Apart
<1> QED BY <1>1, <1>2, EntryJoins

LEMMA NextJoins ==
  ASSUME NEW q \in Seq(Entry), NEW w \in Seq(Task), NEW p, NEW b \in Batch, Consistent(q, w, p)
  PROVE  /\ q \o <<After(0, "next", b)>> \in Seq(Entry)
         /\ Consistent(q \o <<After(0, "next", b)>>, w, p)
<1>1. After(0, "next", b) \in Entry /\ After(0, "next", b).do = "next"
  BY Entries DEF After
<1>2. Fits(After(0, "next", b), p) /\ \A i \in 1..Len(q) : Apart(q[i], After(0, "next", b))
  BY <1>1 DEF Fits, Apart
<1> QED BY <1>1, <1>2, EntryJoins

QueueOK ==
  /\ micro \in Seq(Entry)
  /\ globalWaiters \in Seq(Task)
  /\ Consistent(micro, globalWaiters, pc)

LEMMA QueueBegin ==
  ASSUME TypeOK, QueueOK, NEW b \in Batch, Begin(b)
  PROVE  QueueOK'
<1> DEFINE loops == IF Concurrency[b] < Len(Items[b]) THEN Concurrency[b] ELSE Len(Items[b])
<1>1. loops \in Nat
  <2>1. Len(Items[b]) \in Nat
    BY GateAssumption
  <2> QED BY <2>1, GateAssumption
<1>2. micro' = [i \in 1..loops |-> After(0, "next", b)] /\ UNCHANGED <<pc, globalWaiters>>
  BY DEF Begin, slotVars
<1> HIDE DEF loops
<1>3. After(0, "next", b) \in Entry
  BY Entries
<1>4. micro' \in Seq(Entry) /\ Len(micro') = loops
  BY <1>1, <1>2, <1>3
<1>5. \A i \in 1..Len(micro') : micro'[i].do = "next"
  BY <1>1, <1>2, <1>4 DEF After
<1>6. Consistent(micro', globalWaiters', pc')
  BY <1>2, <1>5 DEF Consistent, QueueOK, Fits, Apart
<1> QED BY <1>2, <1>4, <1>6 DEF QueueOK

LEMMA QueueAnswer ==
  ASSUME TypeOK, QueueOK, NEW t \in Task, Answer(t)
  PROVE  QueueOK'
<1> DEFINE e == After(0, "finally", t)
<1>1. /\ micro = <<>> /\ pc[t] = "running" /\ micro' = <<e>>
      /\ pc' = [pc EXCEPT ![t] = "settled"] /\ globalWaiters' = globalWaiters
  BY DEF Answer, slotVars
<1>2. Unmentioned(t, micro, globalWaiters)
  BY <1>1, OthersUnmentioned DEF QueueOK
<1>3. e \in Entry /\ e.of = t /\ Fits(e, [pc EXCEPT ![t] = "settled"])
  BY Entries DEF TypeOK, After, Fits
<1>4. pc \in [Task -> Pc]
  BY DEF TypeOK
<1> HIDE DEF e
<1>5. micro \o <<e>> \in Seq(Entry) /\ Consistent(micro \o <<e>>, globalWaiters, pc')
  BY <1>1, <1>2, <1>3, <1>4, MoveAndJoin DEF QueueOK
<1>6. micro \o <<e>> = <<e>>
  BY <1>1, <1>3, ConcatEmptySeq
<1> QED BY <1>1, <1>5, <1>6 DEF QueueOK

LEMMA QueueTick ==
  ASSUME TypeOK, QueueOK, Tick
  PROVE  QueueOK'
<1> DEFINE h == Head(micro)
           e == [h EXCEPT !.ticks = @ - 1]
<1>1. /\ micro # <<>> /\ h.ticks > 0 /\ micro' = Tail(micro) \o <<e>>
      /\ UNCHANGED <<pc, globalWaiters>>
  BY DEF Tick, Then, slotVars
<1>2. /\ Tail(micro) \in Seq(Entry)
      /\ h \in Entry
      /\ Consistent(Tail(micro), globalWaiters, pc)
      /\ Fits(h, pc)
      /\ \A i \in 1..Len(Tail(micro)) : Apart(Tail(micro)[i], h)
      /\ h.do = "next" \/ \A j \in 1..Len(globalWaiters) : globalWaiters[j] # h.of
  BY <1>1, HeadLeaves DEF QueueOK
<1>3. h.do = "ready" /\ h.of \in Task /\ h.ticks \in 0..3
  BY <1>1, <1>2 DEF Entry
<1>4. e = After(h.ticks - 1, "ready", h.of)
  BY <1>2, <1>3 DEF After, Entry
<1>5. e \in Entry /\ e.do = "ready" /\ e.of = h.of
  <2>1. h.ticks - 1 \in 0..3
    BY <1>1, <1>3
  <2> QED BY <2>1, <1>3, <1>4, Entries DEF After
<1> HIDE DEF h, e
<1>6. Fits(e, pc) /\ \A i \in 1..Len(Tail(micro)) : Apart(Tail(micro)[i], e)
  BY <1>2, <1>3, <1>5 DEF Fits, Apart
<1>7. \A j \in 1..Len(globalWaiters) : globalWaiters[j] # e.of
  BY <1>2, <1>3, <1>5
<1>8. micro' \in Seq(Entry) /\ Consistent(micro', globalWaiters, pc)
  BY <1>1, <1>2, <1>5, <1>6, <1>7, EntryJoins DEF QueueOK
<1> QED BY <1>1, <1>8 DEF QueueOK

LEMMA QueueTakeItem ==
  ASSUME TypeOK, QueueOK, NEW b \in Batch, TakeItem(b)
  PROVE  QueueOK'
<1> DEFINE t == <<b, batch[b].next>>
           r == ReaderOf(t)
           x == IF readerTail[r] = None THEN "waiting" ELSE "behind"
           e == After(1, "ready", t)
<1>1. t \in Task
  <2>1. batch[b].next \in 1..Len(Items[b])
    <3>1. Len(Items[b]) \in Nat
      BY GateAssumption
    <3>2. batch[b].next \in Nat \ {0}
      BY DEF TypeOK
    <3> QED BY <3>1, <3>2 DEF TakeItem, HasNext
  <2> QED BY <2>1, Tasks
<1>2. /\ micro # <<>> /\ pc[t] = "new"
      /\ pc' = [pc EXCEPT ![t] = x]
      /\ micro' = Tail(micro) \o (IF readerTail[r] = None THEN <<e>> ELSE <<>>)
      /\ globalWaiters' = globalWaiters
  BY DEF TakeItem, Call, Then, Runs, slotVars
<1>3. /\ Tail(micro) \in Seq(Entry)
      /\ Consistent(Tail(micro), globalWaiters, pc)
  BY <1>2, HeadLeaves DEF QueueOK
<1> HIDE DEF t
<1>4. Unmentioned(t, Tail(micro), globalWaiters)
  BY <1>1, <1>2, <1>3, OthersUnmentioned
<1>5. pc \in [Task -> Pc]
  BY DEF TypeOK
<1>6. CASE readerTail[r] = None
  <2>1. e.do = "ready" /\ e.of = t /\ [pc EXCEPT ![t] = x][t] = "waiting"
    BY <1>1, <1>5, <1>6 DEF After
  <2>2. e \in Entry
    <3>1. 1 \in 0..3
      OBVIOUS
    <3> QED BY <1>1, <3>1, Entries
  <2>3. Fits(e, [pc EXCEPT ![t] = x])
    BY <2>1 DEF Fits
  <2> HIDE DEF e, x
  <2>4. Tail(micro) \o <<e>> \in Seq(Entry) /\ Consistent(Tail(micro) \o <<e>>, globalWaiters, pc')
    BY <1>1, <1>2, <1>3, <1>4, <1>5, <2>1, <2>2, <2>3, MoveAndJoin DEF QueueOK
  <2> QED BY <1>2, <1>6, <2>4 DEF QueueOK
<1>7. CASE readerTail[r] # None
  <2> HIDE DEF x, r, e
  <2>1. Consistent(Tail(micro), globalWaiters, pc')
    BY <1>1, <1>2, <1>3, <1>4, <1>5, MoveAlone DEF QueueOK
  <2>2. micro' = Tail(micro)
    BY <1>2, <1>3, <1>7, ConcatEmptySeq
  <2> QED BY <1>2, <1>3, <2>1, <2>2 DEF QueueOK
<1> QED BY <1>6, <1>7

LEMMA QueueEndLoop ==
  ASSUME TypeOK, QueueOK, NEW b \in Batch, EndLoop(b)
  PROVE  QueueOK'
<1>1. micro # <<>> /\ micro' = Tail(micro) \o <<>> /\ UNCHANGED <<pc, globalWaiters>>
  BY DEF EndLoop, Runs, Then, slotVars
<1>2. /\ Tail(micro) \in Seq(Entry)
      /\ Consistent(Tail(micro), globalWaiters, pc)
  BY <1>1, HeadLeaves DEF QueueOK
<1>3. micro' = Tail(micro)
  BY <1>1, <1>2, ConcatEmptySeq
<1> QED BY <1>1, <1>2, <1>3 DEF QueueOK

\* Acquire, Wake and FailEarly: t moves, and an entry about it joins the queue.
LEMMA QueueGoesOn ==
  ASSUME TypeOK, QueueOK, NEW t \in Task, Acquire(t) \/ Wake(t) \/ FailEarly(t)
  PROVE  QueueOK'
<1> DEFINE x == IF FailEarly(t) THEN "settled" ELSE "holding"
           e == After(0, IF FailEarly(t) THEN "finally" ELSE "start", t)
<1>1. \E what \in {"ready", "wake", "start", "finally"} : Runs(what, t)
  BY DEF Acquire, Wake, FailEarly
<1>2. /\ Tail(micro) \in Seq(Entry)
      /\ Consistent(Tail(micro), globalWaiters, pc)
      /\ Unmentioned(t, Tail(micro), globalWaiters)
  BY <1>1, RunsAlone DEF QueueOK
<1>3. ~FailEarly(t) => Acquire(t) \/ Wake(t)
  OBVIOUS
<1>4. /\ pc' = [pc EXCEPT ![t] = x]
      /\ micro' = Tail(micro) \o <<e>>
      /\ globalWaiters' = globalWaiters
  <2>1. CASE FailEarly(t)
    BY <2>1 DEF FailEarly, Then, slotVars
  <2>2. CASE ~FailEarly(t)
    BY <2>2 DEF Acquire, Wake, Then, slotVars
  <2> QED BY <2>1, <2>2
<1>5. pc \in [Task -> Pc]
  BY DEF TypeOK
<1>6. e \in Entry /\ e.of = t /\ Fits(e, [pc EXCEPT ![t] = x])
  BY <1>5, Entries DEF After, Fits
<1> HIDE DEF e, x
<1>7. micro' \in Seq(Entry) /\ Consistent(micro', globalWaiters, pc')
  BY <1>2, <1>4, <1>5, <1>6, MoveAndJoin DEF QueueOK
<1> QED BY <1>4, <1>7 DEF QueueOK

LEMMA QueueStartSync ==
  ASSUME TypeOK, QueueOK, NEW t \in Task, StartSync(t)
  PROVE  QueueOK'
<1>1. /\ Runs("start", t) /\ pc' = [pc EXCEPT ![t] = "running"]
      /\ micro' = Tail(micro) \o <<>> /\ globalWaiters' = globalWaiters
  BY DEF StartSync, Then, slotVars
<1>2. /\ Tail(micro) \in Seq(Entry)
      /\ Consistent(Tail(micro), globalWaiters, pc)
      /\ Unmentioned(t, Tail(micro), globalWaiters)
  BY <1>1, RunsAlone DEF QueueOK
<1>3. pc \in [Task -> Pc]
  BY DEF TypeOK
<1>4. Consistent(Tail(micro), globalWaiters, pc')
  BY <1>1, <1>2, <1>3, MoveAlone DEF QueueOK
<1>5. micro' = Tail(micro)
  BY <1>1, <1>2, ConcatEmptySeq
<1> QED BY <1>1, <1>2, <1>4, <1>5 DEF QueueOK

LEMMA QueueWaitForSlot ==
  ASSUME TypeOK, QueueOK, NEW t \in Task, WaitForSlot(t)
  PROVE  QueueOK'
<1>1. /\ Runs("ready", t) /\ pc' = pc
      /\ micro' = Tail(micro) \o <<>> /\ globalWaiters' = Append(globalWaiters, t)
  BY DEF WaitForSlot, Then
<1>2. /\ Tail(micro) \in Seq(Entry)
      /\ Consistent(Tail(micro), globalWaiters, pc)
      /\ Unmentioned(t, Tail(micro), globalWaiters)
      /\ pc[t] = "waiting"
  BY <1>1, RunsAlone DEF QueueOK
<1>3. /\ Append(globalWaiters, t) \in Seq(Task)
      /\ Consistent(Tail(micro), Append(globalWaiters, t), pc)
  BY <1>2, WaiterJoins DEF QueueOK, Unmentioned
<1>4. micro' = Tail(micro)
  BY <1>1, <1>2, ConcatEmptySeq
<1> QED BY <1>1, <1>2, <1>3, <1>4 DEF QueueOK

\* The finally block: t leaves, one waiter is woken, the follower is freed.
LEMMA QueueLeaveGate ==
  ASSUME TypeOK, QueueOK, NEW t \in Task, LeaveGate(t)
  PROVE  LET q == Tail(micro) \o Woken \o Freed(t) IN
         /\ Tail(micro) \in Seq(Entry) /\ Woken \in Seq(Entry) /\ Freed(t) \in Seq(Entry)
         /\ globalWaiters' \in Seq(Task)
         /\ q \in Seq(Entry)
         /\ Consistent(q, globalWaiters', pc')
<1> DEFINE q0 == Tail(micro)
           q1 == q0 \o Woken
           q2 == q1 \o Freed(t)
           p1 == [pc EXCEPT ![t] = "done"]
           Turn == CHOOSE u \in Task : Follows(u, t)
<1>1. /\ Runs("finally", t)
      /\ globalWaiters' = WaitersAfterRelease
      /\ pc' = [u \in Task |-> IF u = t THEN "done" ELSE IF Follows(u, t) THEN "waiting" ELSE pc[u]]
  BY DEF LeaveGate
<1>2. /\ q0 \in Seq(Entry)
      /\ Consistent(q0, globalWaiters, pc)
      /\ Unmentioned(t, q0, globalWaiters)
      /\ pc[t] = "settled"
  BY <1>1, RunsAlone DEF QueueOK
<1>3. pc \in [Task -> Pc] /\ globalWaiters \in Seq(Task)
  BY DEF TypeOK
<1>4. Consistent(q0, globalWaiters, p1)
  BY <1>2, <1>3, MoveAlone
<1>5. /\ Woken \in Seq(Entry)
      /\ globalWaiters' \in Seq(Task)
      /\ q1 \in Seq(Entry)
      /\ Consistent(q1, globalWaiters', p1)
  <2> HIDE DEF q0, p1
  <2>1. CASE globalWaiters = <<>>
    <3>1. Woken = <<>> /\ globalWaiters' = globalWaiters
      BY <1>1, <2>1 DEF Woken, WaitersAfterRelease
    <3>2. q1 = q0
      BY <1>2, <3>1, ConcatEmptySeq
    <3> QED BY <1>2, <1>3, <1>4, <3>1, <3>2
  <2>2. CASE globalWaiters # <<>>
    <3> DEFINE w == Head(globalWaiters)
               e == After(0, "wake", w)
    <3>1. Woken = <<e>> /\ globalWaiters' = Tail(globalWaiters)
      BY <1>1, <2>2 DEF Woken, WaitersAfterRelease
    <3>2. /\ Tail(globalWaiters) \in Seq(Task)
          /\ w \in Task
          /\ p1[w] = "waiting"
          /\ Consistent(q0, Tail(globalWaiters), p1)
          /\ \A i \in 1..Len(q0) : q0[i].do # "next" => q0[i].of # w
          /\ \A j \in 1..Len(Tail(globalWaiters)) : Tail(globalWaiters)[j] # w
      BY <1>2, <1>3, <1>4, <2>2, WaiterLeaves
    <3> HIDE DEF w
    <3>3. e \in Entry /\ e.of = w /\ Fits(e, p1)
      BY <3>2, Entries DEF After, Fits
    <3> HIDE DEF e
    <3>4. \A i \in 1..Len(q0) : Apart(q0[i], e)
      BY <3>2, <3>3 DEF Apart
    <3>5. q0 \o <<e>> \in Seq(Entry) /\ Consistent(q0 \o <<e>>, Tail(globalWaiters), p1)
      BY <1>2, <3>2, <3>3, <3>4, EntryJoins
    <3> QED BY <3>1, <3>2, <3>3, <3>5
  <2> QED BY <2>1, <2>2
<1> HIDE DEF q0, q1
<1>6. Consistent(q1, globalWaiters', pc')
  <2>1. \A u \in Task : p1[u] # "behind" => pc'[u] = p1[u]
    BY <1>1, <1>3 DEF Follows
  <2>2. \A i \in 1..Len(q1) : q1[i] \in Entry
    BY <1>5, ElementOfSeq
  <2>3. \A i \in 1..Len(q1) : q1[i].do # "next" => q1[i].of \in Task /\ p1[q1[i].of] # "behind"
    BY <1>5, <2>2 DEF Consistent, Fits, Entry
  <2>4. \A j \in 1..Len(globalWaiters') : globalWaiters'[j] \in Task /\ p1[globalWaiters'[j]] # "behind"
    BY <1>5, ElementOfSeq DEF Consistent
  <2> HIDE DEF p1
  <2>5. \A i \in 1..Len(q1) : q1[i].do # "next" => pc'[q1[i].of] = p1[q1[i].of]
    BY <2>1, <2>3
  <2>6. \A j \in 1..Len(globalWaiters') : pc'[globalWaiters'[j]] = p1[globalWaiters'[j]]
    BY <2>1, <2>4
  <2> QED BY <1>5, <2>5, <2>6, CallMoves
<1>7. Freed(t) \in Seq(Entry) /\ q2 \in Seq(Entry) /\ Consistent(q2, globalWaiters', pc')
  <2>1. CASE ~\E u \in Task : Follows(u, t)
    <3>1. Freed(t) = <<>>
      BY <2>1 DEF Freed
    <3>2. q2 = q1
      BY <1>5, <3>1, ConcatEmptySeq
    <3> QED BY <1>5, <1>6, <3>1, <3>2
  <2>2. CASE \E u \in Task : Follows(u, t)
    <3> DEFINE e == After(3, "ready", Turn)
    <3>1. Freed(t) = <<e>>
      BY <2>2 DEF Freed
    <3>2. Turn \in Task /\ Follows(Turn, t)
      BY <2>2
    <3> HIDE DEF Turn
    <3>3. p1[Turn] = "behind" /\ pc'[Turn] = "waiting"
      BY <1>1, <1>2, <1>3, <3>2 DEF Follows
    <3> HIDE DEF p1
    <3>4. Unmentioned(Turn, q1, globalWaiters')
      BY <1>5, <3>2, <3>3, OthersUnmentioned
    <3>5. e \in Entry /\ e.of = Turn /\ Fits(e, pc')
      <4>1. e.do = "ready" /\ e.of = Turn
        BY DEF After
      <4>2. e \in Entry
        <5>1. 3 \in 0..3
          OBVIOUS
        <5> QED BY <3>2, <5>1, Entries
      <4> QED BY <3>3, <4>1, <4>2 DEF Fits
    <3> HIDE DEF e
    <3>6. /\ \A i \in 1..Len(q1) : Apart(q1[i], e)
          /\ \A j \in 1..Len(globalWaiters') : globalWaiters'[j] # e.of
      BY <3>4, <3>5 DEF Unmentioned, Apart
    <3>7. q1 \o <<e>> \in Seq(Entry) /\ Consistent(q1 \o <<e>>, globalWaiters', pc')
      BY <1>5, <1>6, <3>5, <3>6, EntryJoins
    <3> QED BY <3>1, <3>5, <3>7
  <2> QED BY <2>1, <2>2
<1> QED BY <1>2, <1>5, <1>7 DEF q0, q1

LEMMA QueueRelease ==
  ASSUME TypeOK, QueueOK, NEW t \in Task, Release(t) \/ ReleaseAndThrow(t)
  PROVE  QueueOK'
<1> DEFINE q == Tail(micro) \o Woken \o Freed(t)
           n == <<After(0, "next", t[1])>>
<1>1. LeaveGate(t)
  BY DEF Release, ReleaseAndThrow
<1>2. /\ Tail(micro) \in Seq(Entry) /\ Woken \in Seq(Entry) /\ Freed(t) \in Seq(Entry)
      /\ globalWaiters' \in Seq(Task)
      /\ q \in Seq(Entry)
      /\ Consistent(q, globalWaiters', pc')
  BY <1>1, QueueLeaveGate
<1>3. q = Tail(micro) \o (Woken \o Freed(t))
  BY <1>2, ConcatAssociative
<1>4. CASE ReleaseAndThrow(t)
  <2>1. micro' = Tail(micro) \o (Woken \o Freed(t))
    BY <1>4 DEF ReleaseAndThrow, Then
  <2> QED BY <1>2, <1>3, <2>1 DEF QueueOK
<1>5. CASE Release(t)
  <2>1. micro' = Tail(micro) \o ((Woken \o Freed(t)) \o n)
    BY <1>5 DEF Release, Then
  <2>2. t[1] \in Batch
    BY Tasks
  <2>3. n \in Seq(Entry)
    BY <2>2, Entries
  <2>4. Woken \o Freed(t) \in Seq(Entry)
    BY <1>2, ConcatProperties
  <2> HIDE DEF n, q
  <2>5. micro' = q \o n
    <3> DEFINE m == Woken \o Freed(t)
    <3>1. q = Tail(micro) \o m /\ micro' = Tail(micro) \o (m \o n) /\ m \in Seq(Entry)
      BY <1>3, <2>1, <2>4
    <3> HIDE DEF m
    <3>2. (Tail(micro) \o m) \o n = Tail(micro) \o (m \o n)
      <4>1. Tail(micro) \in Seq(Entry) /\ m \in Seq(Entry) /\ n \in Seq(Entry)
        BY <1>2, <2>3, <3>1
      <4> QED BY <4>1, ConcatAssociative
    <3> QED BY <3>1, <3>2
  <2>6. q \o n \in Seq(Entry) /\ Consistent(q \o n, globalWaiters', pc')
    BY <1>2, <2>2, NextJoins DEF n
  <2> QED BY <1>2, <2>5, <2>6 DEF QueueOK
<1> QED BY <1>4, <1>5

\* Every step keeps the queue consistent.
LEMMA QueueStep ==
  ASSUME TypeOK, QueueOK, [Next]_vars
  PROVE  QueueOK'
<1>1. CASE UNCHANGED vars
  BY <1>1 DEF vars, slotVars, QueueOK
<1>2. ASSUME NEW b \in Batch, Begin(b) \/ TakeItem(b) \/ EndLoop(b) PROVE QueueOK'
  BY <1>2, QueueBegin, QueueTakeItem, QueueEndLoop
<1>3. ASSUME NEW t \in Task, Answer(t) \/ StartSync(t) \/ WaitForSlot(t) PROVE QueueOK'
  BY <1>3, QueueAnswer, QueueStartSync, QueueWaitForSlot
<1>4. ASSUME NEW t \in Task, Acquire(t) \/ Wake(t) \/ FailEarly(t) PROVE QueueOK'
  BY <1>4, QueueGoesOn
<1>5. ASSUME NEW t \in Task, Release(t) \/ ReleaseAndThrow(t) PROVE QueueOK'
  BY <1>5, QueueRelease
<1>6. CASE Tick
  BY <1>6, QueueTick
<1> QED BY <1>1, <1>2, <1>3, <1>4, <1>5, <1>6 DEF Next, Microtask

-----------------------------------------------------------------------------
(* Where a call stands when a step is about it. *)

\* TakeItem is a call of a task that made none before.
LEMMA CallIsTask ==
  ASSUME TypeOK, NEW b \in Batch, TakeItem(b)
  PROVE  \E t \in Task : t[1] = b /\ Call(t)
<1> DEFINE t == <<b, batch[b].next>>
<1>1. Len(Items[b]) \in Nat
  BY GateAssumption
<1>2. batch[b].next \in Nat \ {0}
  BY DEF TypeOK
<1>3. batch[b].next \in 1..Len(Items[b])
  BY <1>1, <1>2 DEF TakeItem, HasNext
<1>4. t \in Task /\ t[1] = b
  BY <1>3, Tasks
<1>5. Call(t)
  BY DEF TakeItem
<1> HIDE DEF t
<1> QED BY <1>4, <1>5

\* A call on its way through the gate: from waiting to settled.
Advance(t) ==
  /\ \/ pc[t] = "waiting" /\ pc' = [pc EXCEPT ![t] = "holding"]
     \/ pc[t] = "holding" /\ pc' = [pc EXCEPT ![t] = "running"]
     \/ pc[t] = "holding" /\ pc' = [pc EXCEPT ![t] = "settled"]
     \/ pc[t] = "running" /\ pc' = [pc EXCEPT ![t] = "settled"]
  /\ UNCHANGED lineVars

LEMMA Advances ==
  ASSUME TypeOK, QueueOK, NEW t \in Task,
         Answer(t) \/ Acquire(t) \/ Wake(t) \/ StartSync(t) \/ FailEarly(t)
  PROVE  Advance(t)
<1>1. CASE Answer(t)
  BY <1>1 DEF Answer, Advance
<1>2. CASE Acquire(t)
  <2>1. Runs("ready", t)
    BY <1>2 DEF Acquire
  <2>2. pc[t] = "waiting"
    BY <2>1, RunsAlone DEF QueueOK
  <2> QED BY <1>2, <2>2 DEF Acquire, Advance
<1>3. CASE Wake(t)
  <2>1. Runs("wake", t)
    BY <1>3 DEF Wake
  <2>2. pc[t] = "waiting"
    BY <2>1, RunsAlone DEF QueueOK
  <2> QED BY <1>3, <2>2 DEF Wake, Advance
<1>4. CASE StartSync(t)
  <2>1. Runs("start", t)
    BY <1>4 DEF StartSync
  <2>2. pc[t] = "holding"
    BY <2>1, RunsAlone DEF QueueOK
  <2> QED BY <1>4, <2>2 DEF StartSync, Advance
<1>5. CASE FailEarly(t)
  <2>1. Runs("start", t)
    BY <1>5 DEF FailEarly
  <2>2. pc[t] = "holding"
    BY <2>1, RunsAlone DEF QueueOK
  <2> QED BY <1>5, <2>2 DEF FailEarly, Advance
<1> QED BY <1>1, <1>2, <1>3, <1>4, <1>5

LEMMA LeaverIsSettled ==
  ASSUME TypeOK, QueueOK, NEW t \in Task, LeaveGate(t)
  PROVE  pc[t] = "settled"
<1>1. Runs("finally", t)
  BY DEF LeaveGate
<1> QED BY <1>1, RunsAlone DEF QueueOK

-----------------------------------------------------------------------------
(* The line of each reader, step by step. *)

\* Who joins the end of the line is last, and awaits the one who was.
LEMMA LineCall ==
  ASSUME TypeOK, LineInv, NEW t \in Task, Call(t)
  PROVE  LineInv'
<1> DEFINE r == ReaderOf(t)
<1>1. /\ pc[t] = "new"
      /\ calls' = calls + 1
      /\ rank' = [rank EXCEPT ![t] = calls + 1]
      /\ prev' = [prev EXCEPT ![t] = readerTail[r]]
      /\ readerTail' = [readerTail EXCEPT ![r] = t]
      /\ pc' = [pc EXCEPT ![t] = IF readerTail[r] = None THEN "waiting" ELSE "behind"]
  BY DEF Call
<1>2. /\ pc \in [Task -> Pc] /\ rank \in [Task -> Nat] /\ prev \in [Task -> Task \cup {None}]
      /\ readerTail \in [Reader -> Task \cup {None}] /\ calls \in Nat
  BY DEF TypeOK
<1>3. r \in Reader /\ None \notin Task
  BY Tasks, GateAssumption
<1>4. /\ pc'[t] = IF readerTail[r] = None THEN "waiting" ELSE "behind"
      /\ rank'[t] = calls + 1
      /\ prev'[t] = readerTail[r]
      /\ readerTail'[r] = t
      /\ \A u \in Task \ {t} : pc'[u] = pc[u] /\ rank'[u] = rank[u] /\ prev'[u] = prev[u]
      /\ \A q \in Reader \ {r} : readerTail'[q] = readerTail[q]
  BY <1>1, <1>2, <1>3
<1>5. \A u \in Task : rank[u] <= calls /\ (pc[u] = "new" <=> rank[u] = 0) /\ rank[u] \in Nat
  BY <1>2 DEF LineInv, Ranked
<1> HIDE DEF r
<1>6. Ranked'
  <2>1. \A u \in Task : (pc'[u] = "new" <=> rank'[u] = 0) /\ rank'[u] <= calls'
    <3> TAKE u \in Task
    <3>1. CASE u = t
      BY <1>1, <1>2, <1>4, <3>1
    <3>2. CASE u # t
      BY <1>1, <1>2, <1>4, <1>5, <3>2
    <3> QED BY <3>1, <3>2
  <2>2. \A u, v \in Task : rank'[u] = rank'[v] /\ rank'[u] > 0 => u = v
    <3> TAKE u, v \in Task
    <3>1. CASE u # t /\ v # t
      BY <1>4, <3>1 DEF LineInv, Ranked
    <3>2. CASE u = t /\ v # t
      BY <1>2, <1>4, <1>5, <3>2
    <3>3. CASE v = t /\ u # t
      BY <1>2, <1>4, <1>5, <3>3
    <3> QED BY <3>1, <3>2, <3>3
  <2> QED BY <2>1, <2>2 DEF Ranked
<1>7. InLine'
  <2> SUFFICES ASSUME NEW v \in Task, NEW u \in Task,
                      ReaderOf(v) = ReaderOf(u), rank'[u] > 0, rank'[u] < rank'[v], pc'[u] # "done"
               PROVE  /\ pc'[v] = "behind"
                      /\ prev'[v] \in Task
                      /\ ReaderOf(prev'[v]) = ReaderOf(v)
                      /\ rank'[u] <= rank'[prev'[v]]
                      /\ pc'[prev'[v]] # "done"
    BY DEF InLine, ReaderOf
  <2>1. u # t
    <3>1. rank'[v] <= calls + 1
      BY <1>2, <1>4, <1>5
    <3> QED BY <1>2, <1>4, <1>5, <3>1
  <2>2. rank'[u] = rank[u] /\ pc'[u] = pc[u] /\ InGate(u)
    BY <1>4, <1>5, <2>1 DEF InGate
  <2>3. CASE v # t
    <3>1. /\ pc[v] = "behind" /\ prev[v] \in Task
          /\ ReaderOf(prev[v]) = ReaderOf(v)
          /\ rank[u] <= rank[prev[v]] /\ pc[prev[v]] # "done"
      BY <1>4, <2>2, <2>3 DEF LineInv, InLine
    <3>2. rank[prev[v]] > 0
      BY <1>5, <2>2, <3>1
    <3>3. prev[v] # t
      BY <1>1, <1>5, <3>1, <3>2
    <3> QED BY <1>4, <2>2, <2>3, <3>1, <3>3
  <2>4. CASE v = t
    <3>1. ReaderOf(u) = r
      BY <2>4 DEF r
    <3>2. readerTail[r] # None
      BY <1>3, <2>2, <3>1 DEF LineInv, TailIsLast
    <3>3. /\ ReaderOf(readerTail[r]) = r
          /\ InGate(readerTail[r])
          /\ rank[u] <= rank[readerTail[r]]
      BY <1>3, <2>2, <3>1, <3>2 DEF LineInv, TailIsLast
    <3>4. readerTail[r] \in Task /\ readerTail[r] # t
      BY <1>1, <1>2, <1>3, <3>2, <3>3 DEF InGate
    <3> QED BY <1>4, <2>2, <2>4, <3>1, <3>2, <3>3, <3>4 DEF InGate
  <2> QED BY <2>3, <2>4
<1>8. TailIsLast'
  <2>1. InGate(t)'
    BY <1>4 DEF InGate
  <2>2. \A u \in Task \ {t} : InGate(u)' <=> InGate(u)
    BY <1>4 DEF InGate
  <2>3. ASSUME NEW q \in Reader \ {r}, readerTail'[q] = None, NEW u \in Task, ReaderOf(u) = q
        PROVE  ~InGate(u)'
    <3>1. u # t
      BY <2>3 DEF r
    <3> QED BY <1>4, <2>2, <2>3, <3>1 DEF LineInv, TailIsLast
  <2>4. ASSUME NEW q \in Reader \ {r}, readerTail'[q] # None
        PROVE  /\ ReaderOf(readerTail'[q]) = q
               /\ InGate(readerTail[q])'
               /\ \A u \in Task : ReaderOf(u) = q /\ InGate(u)' => rank'[u] <= rank'[readerTail'[q]]
    <3>1. readerTail'[q] = readerTail[q] /\ readerTail[q] \in Task
      BY <1>2, <1>4, <2>4
    <3>2. ReaderOf(readerTail[q]) = q /\ InGate(readerTail[q])
      BY <2>4, <3>1 DEF LineInv, TailIsLast
    <3>3. readerTail[q] # t
      BY <2>4, <3>2 DEF r
    <3>4. InGate(readerTail[q])'
      BY <1>4, <3>1, <3>2, <3>3 DEF InGate
    <3>5. \A u \in Task : ReaderOf(u) = q /\ InGate(u)' => rank'[u] <= rank'[readerTail'[q]]
      <4> TAKE u \in Task
      <4> HAVE ReaderOf(u) = q /\ InGate(u)'
      <4>1. u # t
        BY <2>4 DEF r
      <4>2. rank[u] <= rank[readerTail[q]]
        BY <2>2, <2>4, <3>1, <4>1 DEF LineInv, TailIsLast
      <4> QED BY <1>4, <3>1, <3>3, <4>1, <4>2
    <3> QED BY <3>1, <3>2, <3>4, <3>5
  <2>5. /\ readerTail'[r] # None
        /\ ReaderOf(readerTail'[r]) = r
        /\ InGate(readerTail[r])'
        /\ \A u \in Task : ReaderOf(u) = r /\ InGate(u)' => rank'[u] <= rank'[readerTail'[r]]
    <3>1. \A u \in Task : rank'[u] <= rank'[t]
      <4> TAKE u \in Task
      <4>1. CASE u = t
        BY <1>2, <1>4, <4>1
      <4>2. CASE u # t
        BY <1>2, <1>4, <1>5, <4>2
      <4> QED BY <4>1, <4>2
    <3>2. readerTail'[r] = t
      BY <1>4
    <3>3. readerTail'[r] # None
      BY <1>3, <3>2
    <3>4. ReaderOf(readerTail'[r]) = r
      BY <3>2 DEF r
    <3>5. InGate(readerTail[r])'
      BY <1>4, <3>2 DEF InGate
    <3> QED BY <3>1, <3>2, <3>3, <3>4, <3>5
  <2> QED BY <2>3, <2>4, <2>5 DEF TailIsLast, ReaderOf
<1> QED BY <1>6, <1>7, <1>8 DEF LineInv

\* Going on inside the gate leaves the line as it is.
LEMMA LineAdvance ==
  ASSUME TypeOK, LineInv, NEW t \in Task, Advance(t)
  PROVE  LineInv'
<1>1. pc \in [Task -> Pc] /\ rank \in [Task -> Nat] /\ readerTail \in [Reader -> Task \cup {None}]
  BY DEF TypeOK
<1>2. UNCHANGED <<prev, readerTail, calls, rank>>
  BY DEF Advance, lineVars
<1>3. \A u \in Task : /\ pc[u] = "new" <=> pc'[u] = "new"
                      /\ pc[u] = "done" <=> pc'[u] = "done"
                      /\ pc[u] = "behind" <=> pc'[u] = "behind"
  BY <1>1 DEF Advance
<1>4. \A u \in Task : InGate(u) <=> InGate(u)'
  BY <1>3 DEF InGate
<1>5. Ranked'
  BY <1>2, <1>3 DEF LineInv, Ranked
<1>6. InLine'
  BY <1>2, <1>3 DEF LineInv, InLine, ReaderOf
<1>7. TailIsLast'
  <2> SUFFICES ASSUME NEW r \in Reader
               PROVE  /\ readerTail[r] = None => \A u \in Task : ReaderOf(u) = r => ~InGate(u)'
                      /\ readerTail[r] # None =>
                           /\ ReaderOf(readerTail[r]) = r
                           /\ InGate(readerTail[r])'
                           /\ \A u \in Task : ReaderOf(u) = r /\ InGate(u)' => rank[u] <= rank[readerTail[r]]
    BY <1>2 DEF TailIsLast, ReaderOf, InGate
  <2>1. readerTail[r] = None => \A u \in Task : ReaderOf(u) = r => ~InGate(u)'
    BY <1>4 DEF LineInv, TailIsLast
  <2>2. ASSUME readerTail[r] # None
        PROVE  /\ ReaderOf(readerTail[r]) = r
               /\ InGate(readerTail[r])'
               /\ \A u \in Task : ReaderOf(u) = r /\ InGate(u)' => rank[u] <= rank[readerTail[r]]
    <3>1. readerTail[r] \in Task
      BY <1>1, <2>2
    <3>2. InGate(readerTail[r]) => InGate(readerTail[r])'
      BY <1>2, <1>3, <3>1 DEF InGate
    <3> QED BY <1>4, <2>2, <3>2 DEF LineInv, TailIsLast
  <2> QED BY <2>1, <2>2
<1> QED BY <1>5, <1>6, <1>7 DEF LineInv

\* Who leaves was the first in its line, and those behind it move up.
LEMMA LineLeaveGate ==
  ASSUME TypeOK, QueueOK, LineInv, NEW t \in Task, LeaveGate(t)
  PROVE  LineInv'
<1> DEFINE r == ReaderOf(t)
<1>1. /\ pc' = [u \in Task |-> IF u = t THEN "done" ELSE IF Follows(u, t) THEN "waiting" ELSE pc[u]]
      /\ readerTail' = IF readerTail[r] = t THEN [readerTail EXCEPT ![r] = None] ELSE readerTail
      /\ UNCHANGED <<prev, calls, rank>>
  BY DEF LeaveGate, TailAfter
<1>2. /\ pc \in [Task -> Pc] /\ rank \in [Task -> Nat] /\ prev \in [Task -> Task \cup {None}]
      /\ readerTail \in [Reader -> Task \cup {None}]
  BY DEF TypeOK
<1>3. r \in Reader /\ None \notin Task
  BY Tasks, GateAssumption
<1>4. pc[t] = "settled"
  BY LeaverIsSettled
<1> HIDE DEF r
<1>5. \A u \in Task : /\ pc'[u] = "new" <=> pc[u] = "new"
                      /\ pc'[u] = "done" <=> pc[u] = "done" \/ u = t
                      /\ InGate(u)' <=> InGate(u) /\ u # t
  BY <1>1, <1>4 DEF Follows, InGate
\* Nobody in the line came before t.
<1>6. \A u \in Task : ReaderOf(u) = ReaderOf(t) /\ rank[u] > 0 /\ pc[u] # "done" /\ u # t => rank[u] > rank[t]
  <2> TAKE u \in Task
  <2> HAVE ReaderOf(u) = ReaderOf(t) /\ rank[u] > 0 /\ pc[u] # "done" /\ u # t
  <2>1. ~(rank[u] < rank[t])
    BY <1>4 DEF LineInv, InLine
  <2>2. rank[u] # rank[t]
    BY DEF LineInv, Ranked
  <2> QED BY <1>2, <2>1, <2>2
<1>7. Ranked'
  BY <1>1, <1>5 DEF LineInv, Ranked
<1>8. InLine'
  <2> SUFFICES ASSUME NEW v \in Task, NEW u \in Task,
                      ReaderOf(v) = ReaderOf(u), rank[u] > 0, rank[u] < rank[v], pc'[u] # "done"
               PROVE  /\ pc'[v] = "behind"
                      /\ prev[v] \in Task
                      /\ ReaderOf(prev[v]) = ReaderOf(v)
                      /\ rank[u] <= rank[prev[v]]
                      /\ pc'[prev[v]] # "done"
    BY <1>1 DEF InLine, ReaderOf
  <2>1. pc[u] # "done" /\ u # t
    BY <1>5
  <2>2. /\ pc[v] = "behind"
        /\ prev[v] \in Task
        /\ ReaderOf(prev[v]) = ReaderOf(v)
        /\ rank[u] <= rank[prev[v]]
        /\ pc[prev[v]] # "done"
    BY <2>1 DEF LineInv, InLine
  <2>3. prev[v] # t
    BY <1>2, <1>6, <2>1, <2>2
  <2>4. v # t /\ ~Follows(v, t)
    BY <1>4, <2>2, <2>3 DEF Follows
  <2>5. pc'[v] = "behind" /\ pc'[prev[v]] # "done"
    BY <1>1, <1>5, <2>2, <2>3, <2>4
  <2> QED BY <2>2, <2>5
<1>9. TailIsLast'
  <2> SUFFICES ASSUME NEW q \in Reader
               PROVE  /\ readerTail'[q] = None => \A u \in Task : ReaderOf(u) = q => ~InGate(u)'
                      /\ readerTail'[q] # None =>
                           /\ ReaderOf(readerTail'[q]) = q
                           /\ InGate(readerTail[q])'
                           /\ \A u \in Task : ReaderOf(u) = q /\ InGate(u)' => rank[u] <= rank[readerTail'[q]]
    BY <1>1 DEF TailIsLast, ReaderOf, InGate
  <2>1. CASE readerTail[q] = t
    <3>1. q = r
      BY <1>3, <2>1 DEF LineInv, TailIsLast, r
    <3>2. readerTail'[q] = None
      BY <1>1, <1>2, <2>1, <3>1
    <3>3. ASSUME NEW u \in Task, ReaderOf(u) = q, InGate(u)' PROVE FALSE
      <4>1. InGate(u) /\ u # t
        BY <1>5, <3>3
      <4>2. rank[u] <= rank[t]
        BY <1>3, <2>1, <3>3, <4>1 DEF LineInv, TailIsLast
      <4>3. rank[u] > 0 /\ pc[u] # "done"
        BY <1>2, <4>1 DEF LineInv, Ranked, InGate
      <4>4. rank[u] > rank[t]
        BY <1>6, <3>1, <3>3, <4>1, <4>3 DEF r
      <4> QED BY <1>2, <4>2, <4>4
    <3> QED BY <3>2, <3>3
  <2>2. CASE readerTail[q] # t
    <3>1. readerTail'[q] = readerTail[q]
      BY <1>1, <1>2, <2>2
    <3>2. ASSUME readerTail[q] = None PROVE \A u \in Task : ReaderOf(u) = q => ~InGate(u)'
      BY <1>5, <3>2 DEF LineInv, TailIsLast
    <3>3. ASSUME readerTail[q] # None
          PROVE  /\ ReaderOf(readerTail[q]) = q
                 /\ InGate(readerTail[q])'
                 /\ \A u \in Task : ReaderOf(u) = q /\ InGate(u)' => rank[u] <= rank[readerTail[q]]
      <4>1. readerTail[q] \in Task
        BY <1>2, <3>3
      <4>2. /\ ReaderOf(readerTail[q]) = q
            /\ InGate(readerTail[q])
            /\ \A u \in Task : ReaderOf(u) = q /\ InGate(u) => rank[u] <= rank[readerTail[q]]
        BY <3>3 DEF LineInv, TailIsLast
      <4>3. InGate(readerTail[q])'
        BY <1>5, <2>2, <3>1, <4>1, <4>2 DEF InGate
      <4> QED BY <1>5, <4>2, <4>3
    <3> QED BY <3>1, <3>2, <3>3
  <2> QED BY <2>1, <2>2
<1> QED BY <1>7, <1>8, <1>9 DEF LineInv

-----------------------------------------------------------------------------
(* The slots. *)

LEMMA SlotKept ==
  ASSUME SlotInv, Holding' = Holding, globalActive' = globalActive
  PROVE  SlotInv'
BY DEF SlotInv, SlotsCounted

\* Taking a slot counts one call more.
LEMMA SlotTaken ==
  ASSUME TypeOK, QueueOK, SlotInv, NEW t \in Task, Acquire(t) \/ Wake(t)
  PROVE  SlotInv'
<1>1. pc[t] = "waiting"
  <2>1. Runs("ready", t) \/ Runs("wake", t)
    BY DEF Acquire, Wake
  <2> QED BY <2>1, RunsAlone DEF QueueOK
<1>2. pc' = [pc EXCEPT ![t] = "holding"] /\ globalActive' = globalActive + 1
  BY DEF Acquire, Wake, ActiveAfterWake
<1>3. pc \in [Task -> Pc]
  BY DEF TypeOK
<1>4. Holding' = Holding \cup {t} /\ t \notin Holding
  BY <1>1, <1>2, <1>3 DEF Holding
<1>5. IsFiniteSet(Holding) /\ globalActive = Cardinality(Holding)
  BY DEF SlotInv, SlotsCounted
<1>6. IsFiniteSet(Holding \cup {t}) /\ Cardinality(Holding \cup {t}) = Cardinality(Holding) + 1
  BY <1>4, <1>5, FS_AddElement
<1> QED BY <1>2, <1>4, <1>5, <1>6 DEF SlotInv, SlotsCounted

\* Leaving gives it back.
LEMMA SlotFreed ==
  ASSUME TypeOK, QueueOK, SlotInv, NEW t \in Task, LeaveGate(t)
  PROVE  SlotInv'
<1>1. pc[t] = "settled"
  BY LeaverIsSettled
<1>2. /\ pc' = [u \in Task |-> IF u = t THEN "done" ELSE IF Follows(u, t) THEN "waiting" ELSE pc[u]]
      /\ globalActive' = IF globalActive > 0 THEN globalActive - 1 ELSE 0
  BY DEF LeaveGate, ActiveAfterRelease
<1>3. Holding' = Holding \ {t} /\ t \in Holding
  BY <1>1, <1>2 DEF Holding, Follows
<1>4. IsFiniteSet(Holding) /\ globalActive = Cardinality(Holding) /\ globalActive \in Nat
  BY DEF SlotInv, SlotsCounted, TypeOK
<1>5. IsFiniteSet(Holding \ {t}) /\ Cardinality(Holding \ {t}) = Cardinality(Holding) - 1
  BY <1>3, <1>4, FS_RemoveElement
<1>6. globalActive > 0
  <2>1. Holding # {}
    BY <1>3
  <2>2. Cardinality(Holding) # 0
    BY <1>4, <2>1, FS_EmptySet
  <2> QED BY <1>4, <2>2
<1> QED BY <1>2, <1>3, <1>4, <1>5, <1>6 DEF SlotInv, SlotsCounted

-----------------------------------------------------------------------------
(* Types. *)

\* The types of what is neither the queue nor the line for a slot.
RestOK ==
  /\ pc \in [Task -> Pc]
  /\ prev \in [Task -> Task \cup {None}]
  /\ readerTail \in [Reader -> Task \cup {None}]
  /\ globalActive \in Nat
  /\ calls \in Nat
  /\ rank \in [Task -> Nat]
  /\ early \in BOOLEAN

Loops == [started : BOOLEAN, next : Nat \ {0}, loops : Int, failed : BOOLEAN]

LEMMA BatchStep ==
  ASSUME TypeOK, [Next]_vars
  PROVE  batch' \in [Batch -> Loops]
<1>1. batch \in [Batch -> Loops]
  BY DEF TypeOK, Loops
<1>2. ASSUME NEW b \in Batch
      PROVE  /\ \A n \in Int : [batch EXCEPT ![b].started = TRUE, ![b].loops = n] \in [Batch -> Loops]
             /\ [batch EXCEPT ![b].next = @ + 1] \in [Batch -> Loops]
             /\ [batch EXCEPT ![b].loops = @ - 1] \in [Batch -> Loops]
             /\ [batch EXCEPT ![b].loops = @ - 1, ![b].failed = TRUE] \in [Batch -> Loops]
  <2>1. batch[b] \in Loops
    BY <1>1
  <2>2. \A n \in Int : [batch[b] EXCEPT !.started = TRUE, !.loops = n] \in Loops
    BY <2>1 DEF Loops
  <2>3. [batch[b] EXCEPT !.next = batch[b].next + 1] \in Loops
    BY <2>1 DEF Loops
  <2>4. [batch[b] EXCEPT !.loops = batch[b].loops - 1] \in Loops
    BY <2>1 DEF Loops
  <2>5. [batch[b] EXCEPT !.loops = batch[b].loops - 1, !.failed = TRUE] \in Loops
    <3>1. \A l \in Loops : [l EXCEPT !.failed = TRUE] \in Loops
      BY DEF Loops
    <3> QED BY <2>4, <3>1, Zenon
  <2> QED BY <1>1, <2>2, <2>3, <2>4, <2>5
<1>3. ASSUME NEW b \in Batch, Begin(b) PROVE batch' \in [Batch -> Loops]
  <2>1. Len(Items[b]) \in Int /\ Concurrency[b] \in Int
    BY GateAssumption
  <2> QED BY <1>2, <1>3, <2>1 DEF Begin
<1>4. ASSUME NEW b \in Batch, TakeItem(b) \/ EndLoop(b) PROVE batch' \in [Batch -> Loops]
  BY <1>2, <1>4 DEF TakeItem, EndLoop
<1>5. ASSUME NEW t \in Task, ReleaseAndThrow(t) PROVE batch' \in [Batch -> Loops]
  <2>1. t[1] \in Batch
    BY Tasks
  <2> QED BY <1>2, <1>5, <2>1 DEF ReleaseAndThrow
<1>6. ASSUME NEW t \in Task,
             Answer(t) \/ StartSync(t) \/ WaitForSlot(t) \/ Acquire(t) \/ Wake(t) \/ FailEarly(t) \/ Release(t)
      PROVE  batch' = batch
  BY <1>6 DEF Answer, StartSync, WaitForSlot, Acquire, Wake, FailEarly, Release
<1>7. CASE Tick \/ UNCHANGED vars
  BY <1>1, <1>7 DEF Tick, vars
<1> QED BY <1>1, <1>3, <1>4, <1>5, <1>6, <1>7 DEF Next, Microtask

LEMMA RestStep ==
  ASSUME TypeOK, QueueOK, [Next]_vars
  PROVE  RestOK'
<1>1. RestOK /\ None \notin Task
  BY GateAssumption DEF TypeOK, RestOK
<1>2. ASSUME NEW t \in Task, Call(t) PROVE RestOK'
  <2>1. ReaderOf(t) \in Reader
    BY Tasks
  <2> QED BY <1>1, <1>2, <2>1 DEF Call, RestOK, Pc, slotVars
<1>3. ASSUME NEW t \in Task, LeaveGate(t) PROVE RestOK'
  <2>1. ReaderOf(t) \in Reader
    BY Tasks
  <2> QED BY <1>1, <1>3, <2>1 DEF LeaveGate, RestOK, Pc, TailAfter, ActiveAfterRelease
<1>4. ASSUME NEW t \in Task,
             Answer(t) \/ StartSync(t) \/ WaitForSlot(t) \/ Acquire(t) \/ Wake(t) \/ FailEarly(t)
      PROVE  RestOK'
  <2>1. pc' \in [Task -> Pc]
    BY <1>1, <1>4 DEF Answer, StartSync, WaitForSlot, Acquire, Wake, FailEarly, RestOK, Pc
  <2>2. globalActive' \in Nat
    BY <1>1, <1>4 DEF Answer, StartSync, WaitForSlot, Acquire, Wake, FailEarly, RestOK,
                      ActiveAfterWake, slotVars
  <2>3. early' \in BOOLEAN
    BY <1>1, <1>4 DEF Answer, StartSync, WaitForSlot, Acquire, Wake, FailEarly, RestOK
  <2>4. UNCHANGED lineVars
    BY <1>4 DEF Answer, StartSync, WaitForSlot, Acquire, Wake, FailEarly
  <2> QED BY <1>1, <2>1, <2>2, <2>3, <2>4 DEF RestOK, lineVars
<1>5. ASSUME NEW b \in Batch, TakeItem(b) PROVE RestOK'
  BY <1>2, <1>5, CallIsTask
<1>6. ASSUME NEW b \in Batch, Begin(b) \/ EndLoop(b) PROVE RestOK'
  BY <1>1, <1>6 DEF Begin, EndLoop, RestOK, lineVars, slotVars
<1>7. CASE Tick \/ UNCHANGED vars
  BY <1>1, <1>7 DEF Tick, vars, RestOK, lineVars, slotVars
<1>8. ASSUME NEW t \in Task, Release(t) \/ ReleaseAndThrow(t) PROVE RestOK'
  BY <1>3, <1>8 DEF Release, ReleaseAndThrow
<1> QED BY <1>4, <1>5, <1>6, <1>7, <1>8 DEF Next, Microtask

-----------------------------------------------------------------------------
(* The ceiling.  A device answers when the queue is empty, so the finally block of *)
(* that sync is alone in it, and the waiter it wakes takes the slot before any     *)
(* other call looks at the count.  A sync that ends early breaks exactly this.     *)

\* An entry put before a queue is its head, and the queue its tail.
LEMMA Prepended ==
  ASSUME NEW e \in Entry, NEW s \in Seq(Entry)
  PROVE  Head(<<e>> \o s) = e /\ Tail(<<e>> \o s) = s
<1> DEFINE c == <<e>> \o s
<1>1. <<e>> \in Seq(Entry) /\ Len(<<e>>) = 1 /\ <<e>>[1] = e
  OBVIOUS
<1>2. /\ c \in Seq(Entry) /\ Len(c) = 1 + Len(s)
      /\ \A i \in 1..1 + Len(s) : c[i] = IF i <= 1 THEN <<e>>[i] ELSE s[i - 1]
  BY <1>1, ConcatProperties
<1>3. Len(s) \in Nat /\ c # <<>>
  BY <1>2, EmptySeq
<1> HIDE DEF c
<1>4. /\ Head(c) = c[1] /\ Tail(c) \in Seq(Entry) /\ Len(Tail(c)) = Len(s)
      /\ \A i \in 1..Len(s) : Tail(c)[i] = c[i + 1]
  BY <1>2, <1>3, HeadTailProperties
<1>5. c[1] = e
  BY <1>1, <1>2, <1>3
<1>6. \A i \in 1..Len(s) : c[i + 1] = s[i]
  BY <1>2, <1>3
<1>7. Tail(c) = s
  BY <1>4, <1>6, SeqEqual
<1> QED BY <1>4, <1>5, <1>7 DEF c

LEMMA CalmConcat ==
  ASSUME NEW q \in Seq(Entry), NEW r \in Seq(Entry), Calm(q), Calm(r)
  PROVE  q \o r \in Seq(Entry) /\ Calm(q \o r)
<1> DEFINE c == q \o r
<1>1. /\ c \in Seq(Entry) /\ Len(c) = Len(q) + Len(r)
      /\ \A i \in 1..Len(q) + Len(r) : c[i] = IF i <= Len(q) THEN q[i] ELSE r[i - Len(q)]
  BY ConcatProperties
<1>2. Len(q) \in Nat /\ Len(r) \in Nat
  OBVIOUS
<1> HIDE DEF c
<1>3. ASSUME NEW i \in 1..Len(c)
      PROVE  \/ i \in 1..Len(q) /\ c[i] = q[i]
             \/ i - Len(q) \in 1..Len(r) /\ c[i] = r[i - Len(q)]
  BY <1>1, <1>2
<1>4. Calm(c)
  BY <1>3 DEF Calm
<1> QED BY <1>1, <1>4 DEF c

\* One entry that takes its turn, or none.
LEMMA CalmEntry ==
  /\ <<>> \in Seq(Entry) /\ Calm(<<>>)
  /\ \A e \in Entry : e.do \notin {"wake", "finally"} => <<e>> \in Seq(Entry) /\ Calm(<<e>>)
<1>1. <<>> \in Seq(Entry) /\ Len(<<>>) = 0
  OBVIOUS
<1>2. ASSUME NEW e \in Entry, e.do \notin {"wake", "finally"}
      PROVE  <<e>> \in Seq(Entry) /\ Calm(<<e>>)
  <2>1. <<e>> \in Seq(Entry) /\ Len(<<e>>) = 1 /\ <<e>>[1] = e
    OBVIOUS
  <2> QED BY <1>2, <2>1 DEF Calm
<1> QED BY <1>1, <1>2 DEF Calm

\* A queue that is calm leaves the ceiling where it is.
LEMMA CalmIsSafe ==
  ASSUME micro' \in Seq(Entry), Calm(micro'), globalActive' <= Limit
  PROVE  CeilingInv'
<1> SUFFICES ASSUME micro' # <<>>
             PROVE  Calm(Tail(micro')) /\ Head(micro').do \notin {"wake", "finally"}
  BY DEF CeilingInv
<1>1. /\ Tail(micro') \in Seq(Entry) /\ Len(Tail(micro')) = Len(micro') - 1
      /\ \A i \in 1..Len(Tail(micro')) : Tail(micro')[i] = micro'[i + 1]
  BY HeadTailProperties
<1>2. Len(micro') \in Nat \ {0} /\ Head(micro') = micro'[1]
  BY EmptySeq
<1>3. /\ 1 \in 1..Len(micro')
      /\ \A i \in 1..Len(Tail(micro')) : i + 1 \in 1..Len(micro')
  BY <1>1, <1>2
<1> QED BY <1>1, <1>2, <1>3 DEF Calm

\* Most microtasks leave the rest of the queue and add an entry that takes its turn.
LEMMA CeilingGoesOn ==
  ASSUME TypeOK, CeilingInv, micro # <<>>, early' = early,
         NEW s \in Seq(Entry), Calm(s), Then(s), ~early => globalActive' <= Limit
  PROVE  CeilingInv'
<1> SUFFICES ASSUME ~early PROVE CeilingInv'
  BY DEF CeilingInv
<1>1. Tail(micro) \in Seq(Entry) /\ Calm(Tail(micro))
  BY HeadTailProperties DEF TypeOK, CeilingInv
<1>2. micro' \in Seq(Entry) /\ Calm(micro')
  BY <1>1, CalmConcat DEF Then
<1> QED BY <1>2, CalmIsSafe

LEMMA CeilingBegin ==
  ASSUME TypeOK, CeilingInv, NEW b \in Batch, Begin(b)
  PROVE  CeilingInv'
<1> DEFINE loops == IF Concurrency[b] < Len(Items[b]) THEN Concurrency[b] ELSE Len(Items[b])
<1>1. loops \in Nat
  <2>1. Len(Items[b]) \in Nat
    BY GateAssumption
  <2> QED BY <2>1, GateAssumption
<1>2. /\ micro' = [i \in 1..loops |-> After(0, "next", b)]
      /\ early' = early /\ globalActive' = globalActive
  BY DEF Begin, slotVars
<1> HIDE DEF loops
<1>3. After(0, "next", b) \in Entry
  BY Entries
<1>4. micro' \in Seq(Entry) /\ Len(micro') = loops
  BY <1>1, <1>2, <1>3
<1>5. Calm(micro')
  BY <1>1, <1>2, <1>4 DEF Calm, After
<1>6. CASE early
  BY <1>2, <1>6 DEF CeilingInv
<1>7. CASE ~early
  BY <1>2, <1>4, <1>5, <1>7, CalmIsSafe DEF CeilingInv
<1> QED BY <1>6, <1>7

\* A device answers: the finally block of its sync is alone in the queue.
LEMMA CeilingAnswer ==
  ASSUME TypeOK, CeilingInv, NEW t \in Task, Answer(t)
  PROVE  CeilingInv'
<1> DEFINE e == After(0, "finally", t)
<1>1. micro' = <<e>> /\ early' = early /\ globalActive' = globalActive
  BY DEF Answer, slotVars
<1>2. e.do = "finally"
  BY DEF After
<1> HIDE DEF e
<1>3. Head(micro') = e /\ Tail(micro') = <<>>
  BY <1>1
<1>4. Calm(<<>>)
  BY CalmEntry
<1> QED BY <1>1, <1>2, <1>3, <1>4 DEF CeilingInv

\* The waiter that is woken goes first, and the slot is there.
LEMMA CeilingLeaveGate ==
  ASSUME TypeOK, QueueOK, CeilingInv, NEW t \in Task, LeaveGate(t), ~early,
         NEW s \in Seq(Entry), Calm(s), micro' = Tail(micro) \o (Woken \o s)
  PROVE  CeilingInv'
<1>1. micro # <<>> /\ Head(micro).do = "finally"
  BY DEF LeaveGate, Runs, After
<1>2. Tail(micro) = <<>> /\ globalActive <= Limit
  BY <1>1 DEF CeilingInv
<1>3. globalActive' < Limit
  <2>1. globalActive \in Nat /\ Limit \in Nat \ {0}
    BY GateAssumption DEF TypeOK
  <2> QED BY <1>2, <2>1 DEF LeaveGate, ActiveAfterRelease
<1>4. Woken \in Seq(Entry)
  BY QueueLeaveGate
<1>5. Woken \o s \in Seq(Entry)
  BY <1>4, ConcatProperties
<1>6. micro' = Woken \o s
  BY <1>2, <1>5, ConcatEmptySeq
<1>7. globalActive' <= Limit
  BY <1>3, GateAssumption DEF TypeOK, LeaveGate, ActiveAfterRelease
<1>8. CASE globalWaiters = <<>>
  <2>1. micro' = s
    BY <1>6, <1>8, ConcatEmptySeq DEF Woken
  <2> QED BY <1>7, <2>1, CalmIsSafe
<1>9. CASE globalWaiters # <<>>
  <2> DEFINE w == After(0, "wake", Head(globalWaiters))
  <2>1. micro' = <<w>> \o s
    BY <1>6, <1>9 DEF Woken
  <2>2. w.do = "wake"
    BY DEF After
  <2>3. w \in Entry
    <3>1. Head(globalWaiters) \in Task
      BY <1>9, HeadTailProperties DEF TypeOK
    <3> QED BY <3>1, Entries
  <2> HIDE DEF w
  <2>4. Head(micro') = w /\ Tail(micro') = s
    BY <2>1, <2>3, Prepended
  <2> QED BY <1>3, <1>7, <2>2, <2>4 DEF CeilingInv
<1> QED BY <1>8, <1>9

LEMMA CeilingStep ==
  ASSUME TypeOK, QueueOK, CeilingInv, [Next]_vars
  PROVE  CeilingInv'
<1>1. CASE early /\ early'
  BY <1>1 DEF CeilingInv
<1>2. CASE UNCHANGED vars
  BY <1>2 DEF vars, slotVars, CeilingInv
<1>3. ASSUME NEW b \in Batch, Begin(b) PROVE CeilingInv'
  BY <1>3, CeilingBegin
<1>4. ASSUME NEW t \in Task, Answer(t) PROVE CeilingInv'
  BY <1>4, CeilingAnswer
<1>5. CASE Tick
  <2> DEFINE e == [Head(micro) EXCEPT !.ticks = @ - 1]
  <2>1. micro # <<>> /\ Head(micro).ticks > 0 /\ Then(<<e>>) /\ early' = early
    BY <1>5 DEF Tick
  <2>2. globalActive' = globalActive
    BY <1>5 DEF Tick, slotVars
  <2>3. Head(micro) \in Entry
    BY <2>1, HeadTailProperties DEF TypeOK
  <2>4. Head(micro).do = "ready" /\ Head(micro).of \in Task /\ Head(micro).ticks - 1 \in 0..3
    BY <2>1, <2>3 DEF Entry
  <2>5. e = After(Head(micro).ticks - 1, "ready", Head(micro).of)
    BY <2>3, <2>4 DEF After, Entry
  <2>6. e \in Entry /\ e.do = "ready"
    BY <2>4, <2>5, Entries DEF After
  <2> HIDE DEF e
  <2>7. <<e>> \in Seq(Entry) /\ Calm(<<e>>)
    BY <2>6, CalmEntry
  <2> QED BY <2>1, <2>2, <2>7, CeilingGoesOn DEF CeilingInv
<1>6. ASSUME NEW t \in Task, Call(t), micro # <<>> PROVE CeilingInv'
  <2> DEFINE e == After(1, "ready", t)
             s == IF readerTail[ReaderOf(t)] = None THEN <<e>> ELSE <<>>
  <2>1. Then(s) /\ early' = early /\ globalActive' = globalActive
    BY <1>6 DEF Call, slotVars
  <2>2. e \in Entry /\ e.do = "ready"
    <3>1. 1 \in 0..3
      OBVIOUS
    <3> QED BY <3>1, Entries DEF After
  <2> HIDE DEF e
  <2>3. s \in Seq(Entry) /\ Calm(s)
    BY <2>2, CalmEntry
  <2> QED BY <1>6, <2>1, <2>3, CeilingGoesOn DEF CeilingInv
<1>7. ASSUME NEW b \in Batch, TakeItem(b) PROVE CeilingInv'
  <2>1. micro # <<>>
    BY <1>7 DEF TakeItem, Runs
  <2> QED BY <1>6, <1>7, <2>1, CallIsTask
<1>8. ASSUME NEW b \in Batch, EndLoop(b) PROVE CeilingInv'
  <2>1. micro # <<>> /\ Then(<<>>) /\ early' = early /\ globalActive' = globalActive
    BY <1>8 DEF EndLoop, Runs, slotVars
  <2> QED BY <2>1, CalmEntry, CeilingGoesOn DEF CeilingInv
<1>9. ASSUME NEW t \in Task, WaitForSlot(t) \/ StartSync(t) PROVE CeilingInv'
  <2>1. micro # <<>> /\ Then(<<>>) /\ early' = early /\ globalActive' = globalActive
    BY <1>9 DEF WaitForSlot, StartSync, Runs, slotVars
  <2> QED BY <2>1, CalmEntry, CeilingGoesOn DEF CeilingInv
<1>10. ASSUME NEW t \in Task, Acquire(t) \/ Wake(t) PROVE CeilingInv'
  <2> DEFINE e == After(0, "start", t)
  <2>1. micro # <<>> /\ Then(<<e>>) /\ early' = early /\ globalActive' = globalActive + 1
    BY <1>10 DEF Acquire, Wake, Runs, ActiveAfterWake
  <2>2. e \in Entry /\ e.do = "start"
    BY Entries DEF After
  <2> HIDE DEF e
  <2>3. ~early => globalActive < Limit
    <3>1. CASE Acquire(t)
      BY <3>1 DEF Acquire, SlotIsFree
    <3>2. CASE Wake(t)
      <4>1. Head(micro).do = "wake"
        BY <3>2 DEF Wake, Runs, After
      <4> QED BY <2>1, <4>1 DEF CeilingInv
    <3> QED BY <1>10, <3>1, <3>2
  <2>4. ~early => globalActive' <= Limit
    BY <2>1, <2>3, GateAssumption DEF TypeOK
  <2>5. <<e>> \in Seq(Entry) /\ Calm(<<e>>)
    BY <2>2, CalmEntry
  <2> QED BY <2>1, <2>4, <2>5, CeilingGoesOn
<1>11. ASSUME NEW t \in Task, FailEarly(t) PROVE CeilingInv'
  BY <1>11 DEF FailEarly, CeilingInv
<1>12. ASSUME NEW t \in Task, Release(t) \/ ReleaseAndThrow(t), ~early PROVE CeilingInv'
  <2>1. LeaveGate(t)
    BY <1>12 DEF Release, ReleaseAndThrow
  <2>2. Woken \in Seq(Entry) /\ Freed(t) \in Seq(Entry)
    BY <2>1, QueueLeaveGate
  <2>3. Calm(Freed(t))
    <3> DEFINE e == After(3, "ready", CHOOSE u \in Task : Follows(u, t))
    <3>1. e.do = "ready"
      BY DEF After
    <3>2. (\E u \in Task : Follows(u, t)) => e \in Entry
      <4>1. 3 \in 0..3
        OBVIOUS
      <4>2. (\E u \in Task : Follows(u, t)) => (CHOOSE u \in Task : Follows(u, t)) \in Task
        OBVIOUS
      <4> QED BY <4>1, <4>2, Entries
    <3>3. Freed(t) = IF \E u \in Task : Follows(u, t) THEN <<e>> ELSE <<>>
      BY DEF Freed
    <3> HIDE DEF e
    <3> QED BY <3>1, <3>2, <3>3, CalmEntry
  <2> DEFINE n == <<After(0, "next", t[1])>>
             f == Freed(t)
  <2>4. n \in Seq(Entry) /\ Calm(n)
    <3>1. t[1] \in Batch
      BY Tasks
    <3>2. After(0, "next", t[1]) \in Entry /\ After(0, "next", t[1]).do = "next"
      BY <3>1, Entries DEF After
    <3> QED BY <3>2, CalmEntry
  <2>5. \/ micro' = Tail(micro) \o (Woken \o f)
        \/ micro' = Tail(micro) \o ((Woken \o f) \o n)
    BY <1>12 DEF Release, ReleaseAndThrow, Then
  <2> HIDE DEF n, f
  <2>6. f \in Seq(Entry) /\ Calm(f) /\ f \o n \in Seq(Entry) /\ Calm(f \o n)
    BY <2>2, <2>3, <2>4, CalmConcat DEF f
  <2>7. (Woken \o f) \o n = Woken \o (f \o n)
    <3>1. Woken \in Seq(Entry) /\ f \in Seq(Entry) /\ n \in Seq(Entry)
      BY <2>2, <2>4, <2>6
    <3> QED BY <3>1, ConcatAssociative
  <2>8. CASE micro' = Tail(micro) \o (Woken \o f)
    BY <1>12, <2>1, <2>6, <2>8, CeilingLeaveGate
  <2>9. CASE micro' = Tail(micro) \o (Woken \o (f \o n))
    BY <1>12, <2>1, <2>6, <2>9, CeilingLeaveGate
  <2> QED BY <2>5, <2>7, <2>8, <2>9
<1>13. early => early'
  BY DEF Next, Microtask, Begin, Answer, Tick, TakeItem, Call, EndLoop, Acquire, WaitForSlot,
         Wake, StartSync, FailEarly, Release, ReleaseAndThrow, LeaveGate, vars
<1> QED BY <1>1, <1>2, <1>3, <1>4, <1>5, <1>7, <1>8, <1>9, <1>10, <1>11, <1>12, <1>13
       DEF Next, Microtask

-----------------------------------------------------------------------------
(* The inductive invariant. *)

LEMMA InitInv == Init => GateInv
<1> HAVE Init
<1>1. TypeOK
  <2>1. micro \in Seq(Entry) /\ globalWaiters \in Seq(Task)
    BY DEF Init
  <2>2. pc \in [Task -> Pc] /\ rank \in [Task -> Nat] /\ globalActive \in Nat /\ calls \in Nat
    BY DEF Init, Pc
  <2>3. prev \in [Task -> Task \cup {None}] /\ readerTail \in [Reader -> Task \cup {None}]
    BY DEF Init
  <2>4. early \in BOOLEAN
    BY DEF Init
  <2>5. batch \in [Batch -> [started : BOOLEAN, next : Nat \ {0}, loops : Int, failed : BOOLEAN]]
    BY DEF Init
  <2> QED BY <2>1, <2>2, <2>3, <2>4, <2>5 DEF TypeOK
<1>2. Consistent(micro, globalWaiters, pc)
  BY DEF Init, Consistent
<1>3. LineInv
  BY DEF Init, LineInv, Ranked, InLine, TailIsLast, InGate
<1>4. SlotInv
  <2>1. Holding = {}
    BY DEF Init, Holding
  <2> QED BY <2>1, FS_EmptySet DEF Init, SlotInv, SlotsCounted
<1>5. CeilingInv
  BY GateAssumption DEF Init, CeilingInv
<1> QED BY <1>1, <1>2, <1>3, <1>4, <1>5 DEF GateInv

LEMMA LineStep ==
  ASSUME TypeOK, QueueOK, LineInv, [Next]_vars
  PROVE  LineInv'
<1>1. ASSUME NEW b \in Batch, TakeItem(b) PROVE LineInv'
  BY <1>1, CallIsTask, LineCall
<1>2. ASSUME NEW t \in Task, Answer(t) \/ Acquire(t) \/ Wake(t) \/ StartSync(t) \/ FailEarly(t)
      PROVE  LineInv'
  BY <1>2, Advances, LineAdvance
<1>3. ASSUME NEW t \in Task, Release(t) \/ ReleaseAndThrow(t) PROVE LineInv'
  BY <1>3, LineLeaveGate DEF Release, ReleaseAndThrow
<1>4. ASSUME UNCHANGED <<pc, lineVars>> PROVE LineInv'
  BY <1>4 DEF lineVars, LineInv, Ranked, InLine, TailIsLast, InGate, ReaderOf
<1>5. ASSUME NEW b \in Batch, Begin(b) \/ EndLoop(b) PROVE UNCHANGED <<pc, lineVars>>
  BY <1>5 DEF Begin, EndLoop
<1>6. ASSUME NEW t \in Task, WaitForSlot(t) PROVE UNCHANGED <<pc, lineVars>>
  BY <1>6 DEF WaitForSlot
<1>7. ASSUME Tick \/ UNCHANGED vars PROVE UNCHANGED <<pc, lineVars>>
  BY <1>7 DEF Tick, vars, lineVars
<1> QED BY <1>1, <1>2, <1>3, <1>4, <1>5, <1>6, <1>7 DEF Next, Microtask

LEMMA SlotStep ==
  ASSUME TypeOK, QueueOK, SlotInv, [Next]_vars
  PROVE  SlotInv'
<1>1. ASSUME NEW t \in Task, Acquire(t) \/ Wake(t) PROVE SlotInv'
  BY <1>1, SlotTaken
<1>2. ASSUME NEW t \in Task, Release(t) \/ ReleaseAndThrow(t) PROVE SlotInv'
  BY <1>2, SlotFreed DEF Release, ReleaseAndThrow
<1>3. ASSUME NEW t \in Task, Answer(t) \/ StartSync(t) \/ FailEarly(t) PROVE SlotInv'
  <2>1. Advance(t)
    BY <1>3, Advances
  <2>2. globalActive' = globalActive /\ pc' # [pc EXCEPT ![t] = "holding"]
    <3>1. pc'[t] \in {"running", "settled"}
      BY <1>3 DEF Answer, StartSync, FailEarly, TypeOK
    <3> QED BY <1>3, <3>1 DEF Answer, StartSync, FailEarly, slotVars, TypeOK
  <2>3. Holding' = Holding
    BY <2>1, <2>2 DEF Advance, Holding, TypeOK
  <2> QED BY <2>2, <2>3, SlotKept
<1>4. ASSUME NEW t \in Task, Call(t) PROVE SlotInv'
  <2>1. Holding' = Holding /\ globalActive' = globalActive
    BY <1>4 DEF Call, Holding, TypeOK, slotVars
  <2> QED BY <2>1, SlotKept
<1>5. ASSUME NEW b \in Batch, TakeItem(b) PROVE SlotInv'
  BY <1>4, <1>5, CallIsTask
<1>6. ASSUME pc' = pc, globalActive' = globalActive PROVE SlotInv'
  BY <1>6, SlotKept DEF Holding
<1>7. ASSUME NEW b \in Batch, Begin(b) \/ EndLoop(b) PROVE pc' = pc /\ globalActive' = globalActive
  BY <1>7 DEF Begin, EndLoop, slotVars
<1>8. ASSUME NEW t \in Task, WaitForSlot(t) PROVE pc' = pc /\ globalActive' = globalActive
  BY <1>8 DEF WaitForSlot
<1>9. ASSUME Tick \/ UNCHANGED vars PROVE pc' = pc /\ globalActive' = globalActive
  BY <1>9 DEF Tick, vars, slotVars
<1> QED BY <1>1, <1>2, <1>3, <1>5, <1>6, <1>7, <1>8, <1>9 DEF Next, Microtask

LEMMA InvStep == GateInv /\ [Next]_vars => GateInv'
<1> SUFFICES ASSUME GateInv, [Next]_vars PROVE GateInv'
  OBVIOUS
<1>1. TypeOK /\ QueueOK /\ LineInv /\ SlotInv /\ CeilingInv
  BY DEF GateInv, QueueOK, TypeOK
<1>2. QueueOK'
  BY <1>1, QueueStep
<1>3. TypeOK'
  BY <1>1, <1>2, RestStep, BatchStep DEF TypeOK, RestOK, QueueOK, Loops
<1>4. LineInv' /\ SlotInv' /\ CeilingInv'
  BY <1>1, LineStep, SlotStep, CeilingStep
<1> QED BY <1>2, <1>3, <1>4 DEF GateInv, QueueOK

-----------------------------------------------------------------------------
(* The refinement of ReaderTickets. *)

Inside == {t \in Task : pc[t] \in {"running", "settled"}}
Gone == {t \in Task : pc[t] = "done"}

\* A call takes a ticket.
LEMMA MapsToArrive ==
  ASSUME GateInv, NEW t \in Task, Call(t)
  PROVE  Tickets!Arrive(t)
<1>1. pc[t] = "new" /\ rank[t] = 0
  BY DEF Call, GateInv, LineInv, Ranked
<1>2. calls' = calls + 1 /\ rank' = [rank EXCEPT ![t] = calls + 1]
  BY DEF Call
<1>3. Inside' = Inside /\ Gone' = Gone
  BY <1>1 DEF Call, Inside, Gone, GateInv, TypeOK
<1> QED BY <1>1, <1>2, <1>3 DEF Tickets!Arrive, Inside, Gone

\* fn begins when all that came before it at its reader have left.
LEMMA MapsToEnter ==
  ASSUME GateInv, NEW t \in Task, StartSync(t) \/ FailEarly(t)
  PROVE  Tickets!Enter(t)
<1>1. TypeOK /\ QueueOK /\ Ranked /\ InLine
  BY DEF GateInv, LineInv, QueueOK, TypeOK
<1>2. pc[t] = "holding" /\ pc \in [Task -> Pc] /\ rank \in [Task -> Nat]
  <2>1. Runs("start", t)
    BY DEF StartSync, FailEarly
  <2> QED BY <1>1, <2>1, RunsAlone DEF QueueOK, TypeOK
<1>3. \/ pc' = [pc EXCEPT ![t] = "running"]
      \/ pc' = [pc EXCEPT ![t] = "settled"]
  BY DEF StartSync, FailEarly
<1>4. UNCHANGED <<calls, rank>>
  BY DEF StartSync, FailEarly, lineVars
<1>5. rank[t] > 0 /\ t \notin Inside \cup Gone
  BY <1>1, <1>2 DEF Ranked, Inside, Gone
<1>6. \A u \in Task : ReaderOf(u) = ReaderOf(t) /\ rank[u] \in 1..(rank[t] - 1) => u \in Gone
  <2> TAKE u \in Task
  <2> HAVE ReaderOf(u) = ReaderOf(t) /\ rank[u] \in 1..(rank[t] - 1)
  <2>1. rank[u] > 0 /\ rank[u] < rank[t]
    BY <1>2
  <2> QED BY <1>1, <1>2, <2>1 DEF InLine, Gone
<1>7. Inside' = Inside \cup {t} /\ Gone' = Gone
  BY <1>2, <1>3 DEF Inside, Gone
<1> QED BY <1>4, <1>5, <1>6, <1>7 DEF Tickets!Enter, Inside, Gone

\* The finally block ends it.
LEMMA MapsToLeave ==
  ASSUME GateInv, NEW t \in Task, LeaveGate(t)
  PROVE  Tickets!Leave(t)
<1>1. pc[t] = "settled"
  BY LeaverIsSettled DEF GateInv, QueueOK, TypeOK
<1>2. /\ pc' = [u \in Task |-> IF u = t THEN "done" ELSE IF Follows(u, t) THEN "waiting" ELSE pc[u]]
      /\ UNCHANGED <<calls, rank>>
  BY DEF LeaveGate
<1>3. t \in Inside /\ Inside' = Inside \ {t} /\ Gone' = Gone \cup {t}
  BY <1>1, <1>2 DEF Inside, Gone, Follows
<1> QED BY <1>2, <1>3 DEF Tickets!Leave, Inside, Gone

\* Everything else happens inside the gate.
LEMMA MapsToNothing ==
  ASSUME GateInv,
         \/ Tick \/ UNCHANGED vars
         \/ \E b \in Batch : Begin(b) \/ EndLoop(b)
         \/ \E t \in Task : Answer(t) \/ Acquire(t) \/ Wake(t) \/ WaitForSlot(t)
  PROVE  UNCHANGED Tickets!ticketVars
<1>1. TypeOK /\ QueueOK
  BY DEF GateInv, QueueOK, TypeOK
<1>2. ASSUME pc' = pc, UNCHANGED <<calls, rank>> PROVE UNCHANGED Tickets!ticketVars
  BY <1>2 DEF Tickets!ticketVars
<1>3. ASSUME NEW t \in Task, Answer(t) \/ Acquire(t) \/ Wake(t) PROVE UNCHANGED Tickets!ticketVars
  <2>1. Advance(t)
    BY <1>1, <1>3, Advances
  <2>2. UNCHANGED <<calls, rank>>
    BY <2>1 DEF Advance, lineVars
  <2>3. pc \in [Task -> Pc] /\ pc'[t] \in {"holding", "settled"} /\ (pc'[t] = "settled" => pc[t] = "running")
    BY <1>1, <1>3 DEF TypeOK, Answer, Acquire, Wake
  <2>4. Inside' = Inside /\ Gone' = Gone
    BY <2>1, <2>3 DEF Advance, Inside, Gone
  <2> QED BY <2>2, <2>4 DEF Tickets!ticketVars, Inside, Gone
<1>4. ASSUME \/ Tick \/ UNCHANGED vars
             \/ \E b \in Batch : Begin(b) \/ EndLoop(b)
             \/ \E t \in Task : WaitForSlot(t)
      PROVE  pc' = pc /\ UNCHANGED <<calls, rank>>
  BY <1>4 DEF Tick, vars, Begin, EndLoop, WaitForSlot, lineVars
<1> QED BY <1>2, <1>3, <1>4

LEMMA MappedStep == GateInv /\ [Next]_vars => [Tickets!TicketNext]_Tickets!ticketVars
<1> SUFFICES ASSUME GateInv, [Next]_vars
             PROVE  Tickets!TicketNext \/ UNCHANGED Tickets!ticketVars
  BY DEF Tickets!ticketVars
<1>1. TypeOK
  BY DEF GateInv
<1>2. ASSUME NEW b \in Batch, TakeItem(b) PROVE Tickets!TicketNext
  BY <1>1, <1>2, CallIsTask, MapsToArrive DEF Tickets!TicketNext
<1>3. ASSUME NEW t \in Task, StartSync(t) \/ FailEarly(t) PROVE Tickets!TicketNext
  BY <1>3, MapsToEnter DEF Tickets!TicketNext
<1>4. ASSUME NEW t \in Task, Release(t) \/ ReleaseAndThrow(t) PROVE Tickets!TicketNext
  BY <1>4, MapsToLeave DEF Tickets!TicketNext, Release, ReleaseAndThrow
<1> QED BY <1>2, <1>3, <1>4, MapsToNothing DEF Next, Microtask

-----------------------------------------------------------------------------
(* Theorems. *)

\* Whatever the batches, readers, limit and order of answers, the invariant holds.
THEOREM GateIsInvariant == Spec => []GateInv
<1> QED BY InitInv, InvStep, PTL DEF Spec

\* Every reachable state of every instance is well typed.
THEOREM GateTypeCorrect == Spec => []TypeOK
<1>1. GateInv => TypeOK
  BY DEF GateInv
<1> QED BY <1>1, GateIsInvariant, PTL

\* globalActive is the number of calls that hold a slot, at any time.
THEOREM SlotsAreCounted == Spec => []SlotsCounted
<1>1. GateInv => SlotsCounted
  BY DEF GateInv, SlotInv
<1> QED BY <1>1, GateIsInvariant, PTL

\* As long as every sync reaches its device, no more than Limit are in flight: a
\* waiter that is woken takes its slot before any other call can.
THEOREM CeilingHolds == Spec => []CeilingUntilEarlyEnd
<1>1. GateInv => CeilingUntilEarlyEnd
  BY DEF GateInv, CeilingInv, CeilingUntilEarlyEnd
<1> QED BY <1>1, GateIsInvariant, PTL

\* The gate implements ReaderTickets: at every reader, syncs run one at a time and
\* in the order of their calls, whichever of them fail or throw.
THEOREM GateKeepsOrder == Spec => RunsInOrder
<1>1. Init => Tickets!TicketInit
  BY DEF Init, Tickets!TicketInit
<1> QED BY <1>1, GateIsInvariant, MappedStep, PTL DEF Spec, RunsInOrder, Tickets!TicketSpec

\* Two syncs never talk to one reader at the same time.
THEOREM ReadersRunAlone ==
  Spec => [](\A t, u \in Inside : ReaderOf(t) = ReaderOf(u) => t = u)
<1>1. GateInv => \A t, u \in Inside : ReaderOf(t) = ReaderOf(u) => t = u
  <2> SUFFICES ASSUME GateInv, NEW t \in Task, NEW u \in Task,
                      pc[t] \in {"running", "settled"}, pc[u] \in {"running", "settled"},
                      ReaderOf(t) = ReaderOf(u)
               PROVE  t = u
    BY DEF Inside
  <2>1. Ranked /\ InLine /\ rank \in [Task -> Nat]
    BY DEF GateInv, LineInv, TypeOK
  <2>2. ~(rank[u] < rank[t]) /\ ~(rank[t] < rank[u])
    BY <2>1 DEF Ranked, InLine
  <2>3. rank[t] = rank[u] /\ rank[t] > 0
    BY <2>1, <2>2 DEF Ranked
  <2> QED BY <2>1, <2>3 DEF Ranked
<1> QED BY <1>1, GateIsInvariant, PTL

=============================================================================
