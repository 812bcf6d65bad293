--------------------------- MODULE AccessLogProofs ---------------------------
(***************************************************************************)
(* Proofs about AccessLog, for any number of accesses, polls, results and  *)
(* faults: types, that an access is told of once, and that a document      *)
(* never shows the picture of another access, for devices that send either *)
(* accesses without a picture or pictures without an access.               *)
(***************************************************************************)
EXTENDS AccessLog, SequenceTheorems, TLAPS

(* What is on the wire, or waits, has happened.                            *)
WireInv ==
  /\ \A i \in DOMAIN wire : /\ wire[i].of <= happened
                            /\ wire[i].is = "text" => wire[i].of # Stranger
  /\ pend # None => pend <= happened

(* A poll that handles its answer knows where it began and how far it is.  *)
PollIsSound(poll) ==
  /\ poll.todo \subseteq 1 .. happened
  /\ poll.last # None => poll.last <= happened
  /\ poll.pc \in {"handling", "awaiting"} => /\ poll.last \in 1 .. happened
                                             /\ poll.max \in 1 .. happened

PollInv == \A p \in Poll : PollIsSound(polls[p])

(* Of each poll at most one access is on its way, and the poll awaits it.  *)
Awaited(calls) ==
  /\ \A i \in DOMAIN calls : calls[i].from # None => polls[calls[i].from].pc = "awaiting"
  /\ \A i, j \in DOMAIN calls : i # j /\ calls[i].from # None => calls[i].from # calls[j].from

AwaitInv ==
  /\ Awaited(fetching) /\ Awaited(chain)
  /\ \A i \in DOMAIN fetching, j \in DOMAIN chain :
       fetching[i].from # None => fetching[i].from # chain[j].from

(* Only the first call of the chain writes, and it writes something new.   *)
WriterInv == \A i \in DOMAIN chain : chain[i].pc = "writing" => i = 1 /\ chain[i].of \notin seen

(* What was told is known.                                                 *)
ToldInv == \A a \in Access : told[a] \in {0, 1} /\ (told[a] = 1 => a \in seen)

(* The picture of an access follows its data; a strange one follows a      *)
(* picture.                                                                *)
PairInv ==
  \A i \in DOMAIN wire :
    /\ wire[i].is = "image" /\ wire[i].of # Stranger =>
         IF i = 1 THEN pend \in {None, wire[i].of}
         ELSE wire[i - 1].is = "text" /\ wire[i - 1].of = wire[i].of
    /\ wire[i].of = Stranger =>
         /\ device.stray
         /\ IF i = 1 THEN pend = None ELSE wire[i - 1].is = "image"
    /\ device.stray /\ wire[i].is = "text" => i < Len(wire) /\ wire[i + 1].is = "image"

(* Between two accesses nothing waits at a reader that sends strange       *)
(* pictures.                                                               *)
RestInv ==
  /\ link # "open" => wire = <<>>
  /\ device.stray /\ link = "open" /\ wire = <<>> => pend = None
  /\ device.brand = "intelbras" /\ link # "open" => pend = None

OwnPhotos(calls) == \A i \in DOMAIN calls : calls[i].photo \in {calls[i].of, Live, None}

PhotoInv ==
  /\ device.stray => ~ device.bare /\ device.brand # "camera"
  /\ PairInv /\ RestInv /\ OwnPhotos(fetching) /\ OwnPhotos(chain) /\ PhotoIsOwn

-----------------------------------------------------------------------------
(* Sequences.                                                              *)

(* Calls after one more of them, or one less.                              *)
Grown(s, t, e) ==
  /\ Len(t) = Len(s) + 1 /\ t[Len(t)] = e
  /\ \A j \in DOMAIN s : t[j] = s[j]

Skip(i, j) == IF j < i THEN j ELSE j + 1

Shrunk(s, t, i) ==
  /\ Len(t) = Len(s) - 1
  /\ \A j \in DOMAIN t : Skip(i, j) \in DOMAIN s /\ t[j] = s[Skip(i, j)]

LEMMA AppendGrows ==
  ASSUME NEW S, NEW s \in Seq(S), NEW e \in S
  PROVE  Append(s, e) \in Seq(S) /\ Grown(s, Append(s, e), e)
BY AppendProperties, LenProperties DEF Grown

LEMMA RemoveShrinks ==
  ASSUME NEW S, NEW s \in Seq(S), NEW i \in DOMAIN s
  PROVE  RemoveAt(s, i) \in Seq(S) /\ Shrunk(s, RemoveAt(s, i), i)
<1> DEFINE l == SubSeq(s, 1, i - 1)
           r == SubSeq(s, i + 1, Len(s))
<1>1. i \in 1 .. Len(s) /\ Len(s) \in Nat
  BY LenProperties
<1>2. l \in Seq(S) /\ Len(l) = i - 1 /\ \A j \in 1 .. i - 1 : l[j] = s[j]
  BY <1>1, SubSeqProperties
<1>3. r \in Seq(S) /\ Len(r) = Len(s) - i /\ \A j \in 1 .. Len(s) - i : r[j] = s[i + j]
  BY <1>1, SubSeqProperties
<1>8. RemoveAt(s, i) = l \o r
  BY DEF RemoveAt
<1> HIDE DEF l, r
<1>4. l \o r \in Seq(S) /\ Len(l \o r) = Len(s) - 1
  BY <1>1, <1>2, <1>3, ConcatProperties
<1>5. \A j \in 1 .. Len(s) - 1 : (l \o r)[j] = IF j < i THEN l[j] ELSE r[j - (i - 1)]
  BY SMTT(20), <1>1, <1>2, <1>3, ConcatProperties
<1>6. \A j \in 1 .. Len(s) - 1 : (l \o r)[j] = s[Skip(i, j)]
  <2> SUFFICES ASSUME NEW j \in 1 .. Len(s) - 1 PROVE (l \o r)[j] = s[Skip(i, j)]
    OBVIOUS
  <2>1. CASE j < i
    BY <1>1, <1>2, <1>5, <2>1 DEF Skip
  <2>2. CASE ~ j < i
    <3>1. j - (i - 1) \in 1 .. Len(s) - i /\ i + (j - (i - 1)) = j + 1
      BY <1>1, <2>2
    <3> QED
      BY <1>1, <1>3, <1>5, <2>2, <3>1 DEF Skip
  <2> QED
    BY <2>1, <2>2
<1>7. DOMAIN (l \o r) = 1 .. Len(s) - 1 /\ DOMAIN s = 1 .. Len(s)
  BY <1>4, LenProperties
<1>9. \A j \in 1 .. Len(s) - 1 : Skip(i, j) \in 1 .. Len(s)
  BY <1>1 DEF Skip
<1> QED
  BY <1>4, <1>6, <1>7, <1>8, <1>9 DEF Shrunk

LEMMA Doms ==
  ASSUME NEW S, NEW s \in Seq(S) PROVE Len(s) \in Nat /\ DOMAIN s = 1 .. Len(s)
BY LenProperties

-----------------------------------------------------------------------------
(* Types.                                                                  *)

Typed == TypeOK /\ WireInv /\ PollInv /\ AwaitInv

LEMMA HandleIsTyped ==
  ASSUME TypeOK, NEW a \in 1 .. happened, NEW photo \in Picture, NEW p \in Poll \cup {None},
         Handle(a, photo, p)
  PROVE  /\ done' \subseteq 1 .. happened /\ fetching' \in Seq(Fetch)
         /\ Grown(fetching, fetching', [of |-> a, photo |-> photo, from |-> p])
<1>1. [of |-> a, photo |-> photo, from |-> p] \in Fetch
  BY AccessLogAssumption DEF TypeOK, Fetch, Access
<1> QED
  BY <1>1, AppendGrows DEF TypeOK, Handle

LEMMA RecordIsTyped ==
  ASSUME TypeOK, NEW a \in Access, NEW photo \in Picture, NEW p \in Poll \cup {None},
         Record(a, photo, p)
  PROVE  /\ lost' \subseteq Access /\ chain' \in Seq(Call)
         /\ Grown(chain, chain', [of |-> a, photo |-> photo, from |-> p, pc |-> "queued"])
<1>1. [of |-> a, photo |-> photo, from |-> p, pc |-> "queued"] \in Call
  BY DEF Call
<1> QED
  BY <1>1, AppendGrows DEF TypeOK, Record

(* A call that no poll awaits.                                             *)
LEMMA GrownIsAwaited ==
  ASSUME NEW S, NEW s \in Seq(S), NEW t \in Seq(S), NEW e, Grown(s, t, e), e.from = None,
         Awaited(s)
  PROVE  Awaited(t)
<1>1. \A i \in DOMAIN t : i = Len(t) \/ i \in DOMAIN s
  BY Doms DEF Grown
<1> QED
  BY <1>1, Doms DEF Grown, Awaited

LEMMA ShrunkIsAwaited ==
  ASSUME NEW S, NEW s \in Seq(S), NEW t \in Seq(S), NEW i \in DOMAIN s, Shrunk(s, t, i),
         Awaited(s)
  PROVE  Awaited(t)
<1>1. \A j, k \in DOMAIN t : j # k => Skip(i, j) # Skip(i, k)
  BY Doms DEF Skip
<1> QED
  BY <1>1, Doms DEF Shrunk, Awaited

(* What a part of the stream, or the timer, makes of a waiting access.     *)
LEMMA FlushIsTyped ==
  ASSUME Typed, NEW a \in 1 .. happened, NEW photo \in Picture,
         Flush(a, photo) \/ UNCHANGED <<done, fetching, chain, lost>>,
         UNCHANGED <<happened, polls>>
  PROVE  /\ done' \subseteq 1 .. happened /\ fetching' \in Seq(Fetch)
         /\ chain' \in Seq(Call) /\ lost' \subseteq Access /\ AwaitInv'
<1>0. TypeOK /\ AwaitInv /\ a \in Access
  BY AccessLogAssumption DEF Typed, TypeOK, Access
<1>1. CASE Handle(a, photo, None) /\ UNCHANGED <<chain, lost>>
  <2> DEFINE e == [of |-> a, photo |-> photo, from |-> None]
  <2>1. done' \subseteq 1 .. happened /\ fetching' \in Seq(Fetch) /\ Grown(fetching, fetching', e)
    BY <1>0, <1>1, HandleIsTyped
  <2>2. Awaited(fetching')
    BY <1>0, <2>1, GrownIsAwaited DEF AwaitInv, TypeOK
  <2>3. \A i \in DOMAIN fetching' : i \in DOMAIN fetching \/ fetching'[i].from = None
    BY <1>0, <2>1, Doms DEF Grown, TypeOK
  <2>4. AwaitInv'
    BY <1>0, <1>1, <2>1, <2>2, <2>3 DEF AwaitInv, Awaited, Grown
  <2> QED
    BY <1>0, <1>1, <2>1, <2>4 DEF TypeOK
<1>2. CASE Record(a, photo, None) /\ UNCHANGED <<done, fetching>>
  <2> DEFINE e == [of |-> a, photo |-> photo, from |-> None, pc |-> "queued"]
  <2>1. lost' \subseteq Access /\ chain' \in Seq(Call) /\ Grown(chain, chain', e)
    BY <1>0, <1>2, RecordIsTyped
  <2>2. Awaited(chain')
    BY <1>0, <2>1, GrownIsAwaited DEF AwaitInv, TypeOK
  <2>3. \A i \in DOMAIN chain' : i \in DOMAIN chain \/ chain'[i].from = None
    BY <1>0, <2>1, Doms DEF Grown, TypeOK
  <2>4. AwaitInv'
    BY <1>0, <1>2, <2>1, <2>2, <2>3 DEF AwaitInv, Awaited, Grown
  <2> QED
    BY <1>0, <1>2, <2>1, <2>4 DEF TypeOK
<1>3. CASE UNCHANGED <<done, fetching, chain, lost>>
  BY <1>0, <1>3 DEF TypeOK, AwaitInv, Awaited
<1> QED
  BY <1>1, <1>2, <1>3 DEF Flush

LEMMA PartsAre ==
  ASSUME NEW a \in Access, NEW s \in Parts(a)
  PROVE  /\ s \in Seq(Part) /\ Len(s) \in 1 .. 2 /\ s[1] = [is |-> "text", of |-> a]
         /\ Len(s) = 2 => s[2] = [is |-> "image", of |-> a]
         /\ ~ device.bare => Len(s) = 2
<1> DEFINE t == [is |-> "text", of |-> a]
           i == [is |-> "image", of |-> a]
<1>1. t \in Part /\ i \in Part
  BY DEF Part
<1>2. s = <<t, i>> \/ (device.bare /\ s = <<t>>)
  BY DEF Parts
<1>3. CASE s = <<t, i>>
  BY <1>1, <1>3
<1>4. CASE device.bare /\ s = <<t>>
  BY <1>1, <1>4
<1> QED
  BY <1>2, <1>3, <1>4

(* Data, perhaps followed by the picture.                                  *)
OneAccess(s, a) ==
  /\ s \in Seq(Part) /\ Len(s) \in 1 .. 4 /\ s[1].is = "text"
  /\ \A i \in DOMAIN s :
       /\ s[i].of = a
       /\ s[i].is = "image" => i > 1 /\ s[i - 1].is = "text"
       /\ ~ device.bare /\ s[i].is = "text" => i < Len(s) /\ s[i + 1].is = "image"

LEMMA OnceIs == ASSUME NEW a \in Access, NEW s \in Parts(a) PROVE OneAccess(s, a)
<1>1. /\ s \in Seq(Part) /\ Len(s) \in 1 .. 2 /\ s[1] = [is |-> "text", of |-> a]
      /\ Len(s) = 2 => s[2] = [is |-> "image", of |-> a]
      /\ ~ device.bare => Len(s) = 2
  BY PartsAre
<1>2. \A i \in DOMAIN s : i = 1 \/ (i = 2 /\ Len(s) = 2)
  BY <1>1, Doms
<1> HIDE DEF Parts
<1> QED
  BY <1>1, <1>2 DEF OneAccess

LEMMA TwiceIs ==
  ASSUME NEW a \in Access, NEW p \in Seq(Part), NEW q \in Seq(Part), NEW s \in Seq(Part),
         Len(p) \in 1 .. 2, Len(q) \in 1 .. 2, Len(s) = Len(p) + Len(q),
         p[1] = [is |-> "text", of |-> a], q[1] = [is |-> "text", of |-> a],
         Len(p) = 2 => p[2] = [is |-> "image", of |-> a],
         Len(q) = 2 => q[2] = [is |-> "image", of |-> a],
         ~ device.bare => Len(p) = 2 /\ Len(q) = 2,
         \A i \in 1 .. Len(s) : s[i] = IF i <= Len(p) THEN p[i] ELSE q[i - Len(p)]
  PROVE  OneAccess(s, a)
<1>0. Len(s) \in 1 .. 4 /\ DOMAIN s = 1 .. Len(s)
  <2>1. \A m, n \in 1 .. 2 : m + n \in 1 .. 4
    OBVIOUS
  <2> QED
    BY <2>1, Doms
<1>1. CASE Len(p) = 1
  <2>1. /\ s[1] = p[1] /\ s[2] = q[1]
        /\ Len(q) = 2 => s[3] = q[2]
    BY <1>0, <1>1
  <2>2. \A i \in DOMAIN s : i = 1 \/ i = 2 \/ (i = 3 /\ Len(q) = 2)
    BY <1>0, <1>1
  <2> QED
    BY <1>0, <1>1, <2>1, <2>2 DEF OneAccess
<1>2. CASE Len(p) = 2
  <2>1. /\ s[1] = p[1] /\ s[2] = p[2] /\ s[3] = q[1]
        /\ Len(q) = 2 => s[4] = q[2]
    <3>1. \A i \in 1 .. Len(s) : s[i] = IF i <= 2 THEN p[i] ELSE q[i - 2]
      BY <1>2
    <3>2. /\ 1 \in 1 .. Len(s) /\ 2 \in 1 .. Len(s) /\ 3 \in 1 .. Len(s)
          /\ Len(q) = 2 => 4 \in 1 .. Len(s)
      BY <1>2
    <3>3. s[1] = p[1] /\ s[2] = p[2]
      BY <3>1, <3>2
    <3>4. s[3] = q[1]
      BY <3>1, <3>2
    <3>5. Len(q) = 2 => s[4] = q[2]
      BY <3>1, <3>2
    <3> QED
      BY <3>3, <3>4, <3>5
  <2>2. \A i \in DOMAIN s : i = 1 \/ i = 2 \/ i = 3 \/ (i = 4 /\ Len(q) = 2)
    BY <1>0, <1>2
  <2>3. /\ s[1].is = "text" /\ s[1].of = a /\ s[2].is = "image" /\ s[2].of = a
        /\ s[3].is = "text" /\ s[3].of = a
        /\ Len(q) = 2 => s[4].is = "image" /\ s[4].of = a
    BY <1>2, <2>1
  <2>4. 1 < Len(s) /\ (~ device.bare => 3 < Len(s))
    BY <1>2
  <2>5. ASSUME NEW i \in DOMAIN s
        PROVE  /\ s[i].of = a
               /\ s[i].is = "image" => i > 1 /\ s[i - 1].is = "text"
               /\ ~ device.bare /\ s[i].is = "text" => i < Len(s) /\ s[i + 1].is = "image"
    <3>1. CASE i = 1
      BY <2>3, <2>4, <3>1
    <3>2. CASE i = 2
      BY <2>3, <3>2
    <3>3. CASE i = 3
      BY <2>3, <2>4, <3>3
    <3>4. CASE i = 4 /\ Len(q) = 2
      BY <2>3, <3>4
    <3> QED
      BY <2>2, <3>1, <3>2, <3>3, <3>4
  <2> QED
    BY <1>0, <2>3, <2>5 DEF OneAccess
<1> QED
  BY <1>1, <1>2

LEMMA SentIs == ASSUME NEW a \in Access, NEW s \in Sent(a) PROVE OneAccess(s, a)
<1>1. CASE s \in Parts(a)
  BY <1>1, OnceIs
<1>2. CASE \E p, q \in Parts(a) : s = p \o q
  <2>1. PICK p \in Parts(a), q \in Parts(a) : s = p \o q
    BY <1>2
  <2>2. /\ p \in Seq(Part) /\ Len(p) \in 1 .. 2 /\ p[1] = [is |-> "text", of |-> a]
        /\ Len(p) = 2 => p[2] = [is |-> "image", of |-> a]
        /\ ~ device.bare => Len(p) = 2
    BY PartsAre
  <2>3. /\ q \in Seq(Part) /\ Len(q) \in 1 .. 2 /\ q[1] = [is |-> "text", of |-> a]
        /\ Len(q) = 2 => q[2] = [is |-> "image", of |-> a]
        /\ ~ device.bare => Len(q) = 2
    BY PartsAre
  <2>4. /\ s \in Seq(Part) /\ Len(s) = Len(p) + Len(q)
        /\ \A i \in 1 .. Len(p) + Len(q) : s[i] = IF i <= Len(p) THEN p[i] ELSE q[i - Len(p)]
    BY <2>1, <2>2, <2>3, ConcatProperties
  <2> QED
    BY ZenonT(30), <2>2, <2>3, <2>4, TwiceIs
<1> QED
  BY <1>1, <1>2 DEF Sent

LEMMA WireGrows ==
  ASSUME TypeOK, NEW s \in Seq(Part)
  PROVE  /\ wire \o s \in Seq(Part) /\ Len(wire \o s) = Len(wire) + Len(s)
         /\ \A i \in 1 .. Len(wire) : (wire \o s)[i] = wire[i]
         /\ \A i \in 1 .. Len(s) : (wire \o s)[Len(wire) + i] = s[i]
<1>1. wire \in Seq(Part) /\ Len(wire) \in Nat /\ Len(s) \in Nat
  BY LenProperties DEF TypeOK
<1> QED
  BY <1>1, ConcatProperties

LEMMA TypeDevice ==
  ASSUME Typed, Happens \/ Strays \/ TimePasses \/ DoorEvents PROVE Typed'
<1> USE AccessLogAssumption DEF world, stream, pollVars, store
<1>0. TypeOK /\ WireInv /\ PollInv /\ AwaitInv /\ wire \in Seq(Part) /\ happened \in Nat
  BY DEF Typed, TypeOK
<1>1. CASE Happens
  <2>1. happened' = happened + 1 /\ happened' \in Access
    BY <1>0, <1>1 DEF Happens, TypeOK, Access
  <2>2. /\ wire' \in Seq(Part)
        /\ \A i \in DOMAIN wire' : /\ wire'[i].of <= happened'
                                   /\ wire'[i].is = "text" => wire'[i].of # Stranger
    <3>1. CASE wire' = wire
      <4>1. ASSUME NEW i \in DOMAIN wire PROVE wire[i].of \in Nat /\ wire[i].of <= happened
        <5>1. wire[i] \in Part
          BY <1>0, <4>1, Doms
        <5> QED
          BY <1>0, <4>1, <5>1 DEF WireInv, Part, Access, Stranger
      <4> QED
        BY <1>0, <2>1, <3>1, <4>1 DEF WireInv
    <3>2. CASE \E s \in Sent(happened') : wire' = wire \o s
      <4>1. PICK s \in Sent(happened') : wire' = wire \o s
        BY <3>2
      <4>2. s \in Seq(Part) /\ \A i \in DOMAIN s : s[i].of = happened'
        BY <2>1, SentIs DEF OneAccess
      <4>3. /\ wire' \in Seq(Part) /\ Len(wire') = Len(wire) + Len(s)
            /\ \A i \in 1 .. Len(wire) : wire'[i] = wire[i]
            /\ \A i \in 1 .. Len(s) : wire'[Len(wire) + i] = s[i]
        BY <1>0, <4>1, <4>2, WireGrows
      <4>4. ASSUME NEW i \in DOMAIN wire'
            PROVE  wire'[i].of <= happened' /\ (wire'[i].is = "text" => wire'[i].of # Stranger)
        <5>1. CASE i <= Len(wire)
          <6>1. i \in DOMAIN wire /\ wire'[i] = wire[i] /\ wire[i] \in Part
            BY <1>0, <4>3, <5>1, Doms
          <6> QED
            BY <1>0, <2>1, <6>1 DEF WireInv, Part, Access, Stranger
        <5>2. CASE ~ i <= Len(wire)
          <6> DEFINE k == i - Len(wire)
          <6>1. k \in 1 .. Len(s) /\ Len(wire) + k = i
            BY <1>0, <4>2, <4>3, <5>2, Doms
          <6> HIDE DEF k
          <6>2. wire'[i] = s[k] /\ s[k].of = happened'
            BY <4>2, <4>3, <6>1, Doms
          <6> QED
            BY <2>1, <6>2 DEF Access, Stranger
        <5> QED
          BY <5>1, <5>2
      <4> QED
        BY <4>3, <4>4
    <3> QED
      BY <1>1, <3>1, <3>2 DEF Happens
  <2>3. TypeOK'
    BY <1>0, <1>1, <2>1, <2>2 DEF Happens, TypeOK, Access
  <2>4. WireInv'
    BY <1>0, <1>1, <2>1, <2>2 DEF Happens, WireInv, TypeOK, Access
  <2>5. PollInv'
    BY <1>0, <1>1, <2>1 DEF Happens, PollInv, PollIsSound, TypeOK, Access
  <2>6. AwaitInv'
    BY <1>0, <1>1 DEF Happens, AwaitInv, Awaited
  <2> QED
    BY <2>3, <2>4, <2>5, <2>6 DEF Typed
<1>2. CASE Strays
  <2>1. [is |-> "image", of |-> Stranger] \in Part
    BY DEF Part
  <2>2. /\ wire' \in Seq(Part) /\ Grown(wire, wire', [is |-> "image", of |-> Stranger])
    BY <1>0, <1>2, <2>1, AppendGrows DEF Strays
  <2>3. WireInv'
    BY <1>0, <1>2, <2>2, Doms DEF Strays, WireInv, Grown, Stranger
  <2>4. TypeOK'
    BY <1>0, <1>2, <2>2 DEF Strays, Edit, TypeOK
  <2>5. PollInv' /\ AwaitInv'
    BY <1>0, <1>2 DEF Strays, PollInv, PollIsSound, AwaitInv, Awaited
  <2> QED
    BY <2>3, <2>4, <2>5 DEF Typed
<1>3. CASE TimePasses
  <2>1. TypeOK'
    BY <1>0, <1>3 DEF TimePasses, Edit, TypeOK
  <2>2. WireInv' /\ PollInv' /\ AwaitInv'
    BY <1>0, <1>3 DEF TimePasses, WireInv, PollInv, PollIsSound, AwaitInv, Awaited
  <2> QED
    BY <2>1, <2>2 DEF Typed
<1>4. CASE DoorEvents
  <2>1. beyond' \in 0 .. happened
    BY <1>0, <1>4 DEF DoorEvents, TypeOK
  <2>2. TypeOK'
    BY <1>0, <1>4, <2>1 DEF DoorEvents, Edit, TypeOK
  <2>3. WireInv' /\ PollInv' /\ AwaitInv'
    BY <1>0, <1>4 DEF DoorEvents, WireInv, PollInv, PollIsSound, AwaitInv, Awaited
  <2> QED
    BY <2>2, <2>3 DEF Typed
<1> QED
  BY <1>1, <1>2, <1>3, <1>4

LEMMA TailIs ==
  ASSUME NEW S, NEW s \in Seq(S), s # <<>>
  PROVE  /\ 1 \in DOMAIN s /\ Head(s) = s[1] /\ s[1] \in S
         /\ Tail(s) \in Seq(S) /\ Len(Tail(s)) = Len(s) - 1
         /\ \A i \in 1 .. Len(s) - 1 : Tail(s)[i] = s[i + 1]
BY HeadTailProperties, LenProperties, EmptySeq

LEMMA TypeStream == ASSUME Typed, TextPart \/ ImagePart \/ FlushTimer PROVE Typed'
<1> USE AccessLogAssumption DEF world, stream, pollVars, store
<1>0. TypeOK /\ WireInv /\ PollInv /\ AwaitInv /\ wire \in Seq(Part) /\ happened \in Nat
  BY DEF Typed, TypeOK
<1>1. UNCHANGED <<world, link, pollVars, seen, docs, told, edits>>
  BY DEF TextPart, ImagePart, FlushTimer
<1>2. ASSUME wire # <<>>, wire' = Tail(wire)
      PROVE  /\ wire' \in Seq(Part)
             /\ \A i \in DOMAIN wire' : /\ wire'[i].of <= happened
                                        /\ wire'[i].is = "text" => wire'[i].of # Stranger
  <2>1. /\ wire' \in Seq(Part) /\ Len(wire') = Len(wire) - 1
        /\ \A i \in 1 .. Len(wire) - 1 : wire'[i] = wire[i + 1]
    BY <1>0, <1>2, TailIs
  <2> QED
    BY <1>0, <2>1, Doms DEF WireInv
<1>3. ASSUME pend' = None \/ (pend' \in Access /\ pend' <= happened)
      PROVE  pend' \in Access \cup {None} /\ (pend' # None => pend' <= happened)
  BY <1>3
<1>4. ASSUME pend # None, NEW photo \in Picture, Flush(pend, photo)
      PROVE  /\ done' \subseteq 1 .. happened /\ fetching' \in Seq(Fetch)
             /\ chain' \in Seq(Call) /\ lost' \subseteq Access /\ AwaitInv'
  <2>1. pend \in 1 .. happened
    BY <1>0, <1>4 DEF TypeOK, WireInv, Access
  <2> QED
    BY <1>1, <1>4, <2>1, FlushIsTyped
<1>5. ASSUME UNCHANGED <<done, fetching, chain, lost>>
      PROVE  /\ done' \subseteq 1 .. happened /\ fetching' \in Seq(Fetch)
             /\ chain' \in Seq(Call) /\ lost' \subseteq Access /\ AwaitInv'
  BY <1>0, <1>1, <1>5 DEF TypeOK, AwaitInv, Awaited
<1>6. None \in Picture
  BY DEF Picture
<1>7. /\ done' \subseteq 1 .. happened /\ fetching' \in Seq(Fetch)
      /\ chain' \in Seq(Call) /\ lost' \subseteq Access /\ AwaitInv'
  <2>1. CASE TextPart
    BY <1>4, <1>5, <1>6, <2>1 DEF TextPart
  <2>2. CASE ImagePart
    <3>1. Head(wire).of \in Picture
      <4>1. wire # <<>>
        BY <2>2 DEF ImagePart, Arrives
      <4>2. Head(wire) \in Part
        BY <1>0, <4>1, TailIs
      <4> QED
        BY <4>2 DEF Part, Picture
    <3> QED
      BY <1>4, <1>5, <2>2, <3>1 DEF ImagePart
  <2>3. CASE FlushTimer
    BY <1>4, <1>6, <2>3 DEF FlushTimer
  <2> QED
    BY <2>1, <2>2, <2>3
<1>8. /\ wire' \in Seq(Part)
      /\ \A i \in DOMAIN wire' : /\ wire'[i].of <= happened
                                 /\ wire'[i].is = "text" => wire'[i].of # Stranger
  <2>1. CASE TextPart \/ ImagePart
    BY <1>2, <2>1 DEF TextPart, ImagePart, Arrives
  <2>2. CASE FlushTimer
    BY <1>0, <2>2 DEF FlushTimer, WireInv
  <2> QED
    BY <2>1, <2>2
<1>9. pend' = None \/ (pend' \in Access /\ pend' <= happened)
  <2>1. CASE TextPart
    <3>1. wire # <<>> /\ Head(wire).is = "text" /\ pend' = Head(wire).of
      BY <2>1 DEF TextPart, Arrives
    <3>2. 1 \in DOMAIN wire /\ Head(wire) = wire[1] /\ wire[1] \in Part
      BY <1>0, <3>1, TailIs
    <3> QED
      BY <1>0, <3>1, <3>2 DEF WireInv, Part, Stranger
  <2>2. CASE ImagePart \/ FlushTimer
    BY <2>2 DEF ImagePart, FlushTimer
  <2> QED
    BY <2>1, <2>2
<1>10. TypeOK'
  BY <1>0, <1>1, <1>7, <1>8, <1>3, <1>9 DEF TypeOK
<1>11. WireInv' /\ PollInv'
  BY <1>0, <1>1, <1>8, <1>9 DEF WireInv, PollInv, PollIsSound
<1> QED
  BY <1>7, <1>10, <1>11 DEF Typed

LEMMA TypeLink ==
  ASSUME Typed, StreamEnds \/ Subscribes \/ FallsBackToPoll \/ TearsDown PROVE Typed'
<1> USE AccessLogAssumption DEF world, stream, pollVars, store
<1>0. TypeOK /\ WireInv /\ PollInv /\ AwaitInv /\ <<>> \in Seq(Part) /\ DOMAIN <<>> = {}
  BY EmptySeq DEF Typed
<1>1. /\ wire' \in {wire, <<>>} /\ pend' \in {pend, None} /\ link' \in {"open", "poll", "down"}
      /\ cursor' \in {cursor, None} /\ (busy' = busy \/ busy' = FALSE) /\ edits' \in 0 .. MaxEdits
      /\ UNCHANGED <<world, done, polls, fetching, chain, store>>
  <2>1. CASE StreamEnds
    BY <1>0, <2>1 DEF StreamEnds, AtStreamEnd, Edit, TypeOK
  <2>2. CASE Subscribes
    BY <1>0, <2>2 DEF Subscribes, TypeOK
  <2>3. CASE FallsBackToPoll
    BY <1>0, <2>3 DEF FallsBackToPoll, TypeOK
  <2>4. CASE TearsDown
    <3>1. busy' = FALSE /\ UNCHANGED <<world, done, polls, fetching, chain, store>>
      BY <2>4 DEF TearsDown
    <3>2. /\ wire' = <<>> /\ pend' \in {pend, None} /\ link' = "down" /\ cursor' = None
          /\ edits' \in 0 .. MaxEdits
      BY <1>0, <2>4 DEF TearsDown, Edit, TypeOK
    <3> QED
      BY <3>1, <3>2
  <2> QED
    BY <2>1, <2>2, <2>3, <2>4
<1>2. TypeOK'
  BY <1>0, <1>1 DEF TypeOK
<1>3. WireInv'
  BY <1>0, <1>1 DEF WireInv
<1>4. PollInv' /\ AwaitInv'
  BY <1>0, <1>1 DEF PollInv, PollIsSound, AwaitInv, Awaited
<1> QED
  BY <1>2, <1>3, <1>4 DEF Typed

PollRow == [pc : {"idle", "asked", "handling", "awaiting"}, last : Access \cup {None},
            todo : SUBSET Access, max : Access \cup {None}]

(* A poll that awaits nothing moves on.                                    *)
LEMMA PollMoves ==
  ASSUME Typed, NEW p \in Poll, polls[p].pc # "awaiting", NEW row \in PollRow,
         PollIsSound(row), polls' = [polls EXCEPT ![p] = row],
         UNCHANGED <<happened, fetching, chain>>
  PROVE  polls' \in [Poll -> PollRow] /\ PollInv' /\ AwaitInv'
<1>1. polls \in [Poll -> PollRow] /\ PollInv /\ AwaitInv
  BY DEF Typed, TypeOK, PollRow
<1>2. polls' \in [Poll -> PollRow] /\ PollInv'
  BY <1>1 DEF PollInv, PollIsSound
<1>3. \A q \in Poll : polls[q].pc = "awaiting" => polls'[q] = polls[q]
  BY <1>1
<1>4. /\ \A i \in DOMAIN fetching : fetching[i].from # None => fetching[i].from \in Poll
      /\ \A i \in DOMAIN chain : chain[i].from # None => chain[i].from \in Poll
  <2>1. /\ \A i \in DOMAIN fetching : fetching[i] \in Fetch
        /\ \A i \in DOMAIN chain : chain[i] \in Call
    BY Doms DEF Typed, TypeOK
  <2> QED
    BY <2>1 DEF Fetch, Call
<1>5. AwaitInv'
  BY <1>1, <1>3, <1>4 DEF AwaitInv, Awaited
<1> QED
  BY <1>2, <1>5

LEMMA EndsIsSound ==
  ASSUME Typed, NEW p \in Poll, polls[p].pc # "awaiting", Ends(p),
         UNCHANGED <<happened, fetching, chain>>
  PROVE  polls' \in [Poll -> PollRow] /\ PollInv' /\ AwaitInv' /\ busy' = FALSE
<1>1. IdlePoll \in PollRow /\ PollIsSound(IdlePoll)
  BY DEF IdlePoll, PollRow, PollIsSound
<1> QED
  BY <1>1, PollMoves DEF Ends

LEMMA TypePoll ==
  ASSUME Typed, NEW p \in Poll,
         PollAsks(p) \/ PollAnswered(p) \/ PollFails(p) \/ PollHandles(p) \/ PollEnds(p)
  PROVE  Typed'
<1> USE AccessLogAssumption DEF world, stream, pollVars, store
<1>0. /\ TypeOK /\ WireInv /\ PollInv /\ AwaitInv /\ polls \in [Poll -> PollRow]
      /\ happened \in Nat /\ 1 .. happened \subseteq Access
  BY DEF Typed, TypeOK, PollRow, Access
<1>1. UNCHANGED <<world, stream, chain, store, edits>>
  BY DEF PollAsks, PollAnswered, PollFails, PollHandles, PollEnds
<1>2. SUFFICES /\ done' \subseteq 1 .. happened /\ polls' \in [Poll -> PollRow]
               /\ busy' \in BOOLEAN /\ cursor' \in 1 .. happened \cup {None}
               /\ fetching' \in Seq(Fetch) /\ PollInv' /\ AwaitInv'
  <2>1. TypeOK'
    BY <1>0, <1>1, <1>2 DEF TypeOK, PollRow
  <2>2. WireInv'
    BY <1>0, <1>1 DEF WireInv
  <2> QED
    BY <1>2, <2>1, <2>2 DEF Typed
<1>3. CASE PollAsks(p)
  <2> DEFINE row == [polls[p] EXCEPT !.pc = "asked", !.last = cursor]
  <2>1. row \in PollRow /\ PollIsSound(row)
    <3>1. /\ polls[p] \in PollRow /\ polls[p].todo \subseteq 1 .. happened
          /\ cursor \in Access \cup {None} /\ (cursor # None => cursor <= happened)
      BY <1>0 DEF PollInv, PollIsSound, TypeOK, Access
    <3>2. /\ row \in PollRow /\ row.pc = "asked" /\ row.last = cursor
          /\ row.todo = polls[p].todo
      BY <3>1 DEF PollRow
    <3> HIDE DEF row
    <3> QED
      BY <3>1, <3>2 DEF PollIsSound
  <2>2. polls[p].pc # "awaiting" /\ polls' = [polls EXCEPT ![p] = row]
    <3>1. p \in 1 .. p /\ polls[p] \in PollRow
      BY <1>0 DEF Poll
    <3>2. polls[p].pc = "idle"
      BY <1>3, <3>1 DEF PollAsks
    <3> QED
      BY <1>0, <1>3, <3>2 DEF PollAsks, PollRow
  <2>3. polls' \in [Poll -> PollRow] /\ PollInv' /\ AwaitInv'
    BY <1>1, <1>3, <2>1, <2>2, PollMoves DEF PollAsks
  <2> QED
    BY <1>0, <1>3, <2>3 DEF PollAsks, TypeOK
<1>4. CASE PollAnswered(p) /\ Ends(p)
  <2>1. polls[p].pc = "asked" /\ UNCHANGED <<done, fetching>>
    BY <1>4 DEF PollAnswered
  <2>2. polls' \in [Poll -> PollRow] /\ PollInv' /\ AwaitInv' /\ busy' = FALSE
    BY <1>1, <1>4, <2>1, EndsIsSound
  <2>3. cursor' = cursor \/ (cursor' = happened /\ Newest # {})
    BY <1>4 DEF PollAnswered, Ends, IdlePoll
  <2>4. Newest # {} => happened \in 1 .. happened
    BY <1>0 DEF Newest
  <2> QED
    BY <1>0, <2>1, <2>2, <2>3, <2>4 DEF TypeOK
<1>5. CASE PollAnswered(p) /\ ~ Ends(p)
  <2> DEFINE todo == {a \in Newest : a > polls[p].last}
             row  == [polls[p] EXCEPT !.pc = "handling", !.max = polls[p].last, !.todo = todo]
  <2>1. polls[p].pc = "asked" /\ polls[p].last # None /\ polls' = [polls EXCEPT ![p] = row]
    BY <1>0, <1>5 DEF PollAnswered, PollRow
  <2>2. polls[p].last \in 1 .. happened
    BY <1>0, <2>1 DEF PollInv, PollIsSound, PollRow, Access
  <2>3. row \in PollRow /\ PollIsSound(row)
    BY <1>0, <2>2 DEF PollRow, PollInv, PollIsSound, Newest
  <2>4. polls' \in [Poll -> PollRow] /\ PollInv' /\ AwaitInv'
    BY <1>1, <1>5, <2>1, <2>3, PollMoves DEF PollAnswered
  <2> QED
    BY <1>0, <1>5, <2>4 DEF PollAnswered, TypeOK
<1>6. CASE PollFails(p)
  BY <1>0, <1>1, <1>6, EndsIsSound DEF PollFails, TypeOK
<1>7. CASE PollHandles(p)
  <2>1. PICK a \in polls[p].todo :
          \/ /\ Handle(a, None, p)
             /\ polls' = [polls EXCEPT ![p].todo = @ \ {a}, ![p].max = a, ![p].pc = "awaiting"]
          \/ /\ polls' = [polls EXCEPT ![p].todo = @ \ {a}, ![p].max = a]
             /\ UNCHANGED <<done, fetching>>
    BY <1>7 DEF PollHandles
  <2>2. polls[p].pc = "handling" /\ a \in 1 .. happened /\ None \in Picture
    BY <1>0, <1>7 DEF PollHandles, PollInv, PollIsSound, Picture
  <2>3. CASE /\ UNCHANGED <<done, fetching>>
             /\ polls' = [polls EXCEPT ![p].todo = @ \ {a}, ![p].max = a]
    <3> DEFINE row == [polls[p] EXCEPT !.todo = polls[p].todo \ {a}, !.max = a]
    <3>1. row \in PollRow /\ PollIsSound(row)
      BY <1>0, <2>2 DEF PollRow, PollInv, PollIsSound
    <3>2. polls' = [polls EXCEPT ![p] = row]
      BY <1>0, <2>3 DEF PollRow
    <3>3. polls' \in [Poll -> PollRow] /\ PollInv' /\ AwaitInv'
      BY <1>1, <2>2, <2>3, <3>1, <3>2, PollMoves
    <3> QED
      BY <1>0, <1>7, <2>3, <3>3 DEF PollHandles, TypeOK
  <2>4. CASE /\ Handle(a, None, p)
             /\ polls' = [polls EXCEPT ![p].todo = @ \ {a}, ![p].max = a, ![p].pc = "awaiting"]
    <3> DEFINE row == [polls[p] EXCEPT !.todo = polls[p].todo \ {a}, !.max = a, !.pc = "awaiting"]
               e == [of |-> a, photo |-> None, from |-> p]
    <3>1. row \in PollRow /\ PollIsSound(row) /\ row.pc = "awaiting"
      BY <1>0, <2>2 DEF PollRow, PollInv, PollIsSound
    <3>2. polls' = [polls EXCEPT ![p] = row]
      BY <1>0, <2>4 DEF PollRow
    <3> HIDE DEF row
    <3>3. polls' \in [Poll -> PollRow] /\ PollInv'
      BY <1>0, <1>1, <3>1, <3>2 DEF PollInv, PollIsSound
    <3>4. /\ done' \subseteq 1 .. happened /\ fetching' \in Seq(Fetch)
          /\ Grown(fetching, fetching', e)
      BY <1>0, <2>2, <2>4, HandleIsTyped
    <3>5. /\ \A i \in DOMAIN fetching : /\ fetching[i].from # p
                                        /\ fetching[i].from # None => fetching[i].from \in Poll
          /\ \A i \in DOMAIN chain : /\ chain[i].from # p
                                     /\ chain[i].from # None => chain[i].from \in Poll
      <4>1. p # None
        BY DEF Poll
      <4>2. /\ \A i \in DOMAIN fetching : fetching[i] \in Fetch
            /\ \A i \in DOMAIN chain : chain[i] \in Call
        BY <1>0, Doms DEF TypeOK
      <4> QED
        BY <1>0, <2>2, <4>1, <4>2 DEF AwaitInv, Awaited, Fetch, Call
    <3>6. /\ Len(fetching') = Len(fetching) + 1 /\ fetching'[Len(fetching')].from = p
          /\ \A i \in DOMAIN fetching : fetching'[i] = fetching[i]
          /\ \A i \in DOMAIN fetching' : i = Len(fetching') \/ i \in DOMAIN fetching
      BY <1>0, <3>4, Doms DEF Grown, TypeOK
    <3>7. AwaitInv'
      <4>1. polls'[p].pc = "awaiting" /\ \A q \in Poll : q # p => polls'[q] = polls[q]
        BY <1>0, <3>1, <3>2
      <4>2. Awaited(fetching)'
        BY <1>0, <3>5, <3>6, <4>1 DEF AwaitInv, Awaited
      <4>3. Awaited(chain)'
        BY <1>0, <1>1, <3>5, <4>1 DEF AwaitInv, Awaited
      <4>4. \A i \in DOMAIN fetching', j \in DOMAIN chain :
              fetching'[i].from # None => fetching'[i].from # chain[j].from
        BY <1>0, <3>5, <3>6 DEF AwaitInv
      <4> QED
        BY <1>1, <4>2, <4>3, <4>4 DEF AwaitInv
    <3> QED
      BY <1>0, <1>7, <3>3, <3>4, <3>7 DEF PollHandles, TypeOK
  <2> QED
    BY <2>1, <2>3, <2>4
<1>8. CASE PollEnds(p)
  <2>1. polls[p].pc = "handling" /\ Ends(p)
    BY <1>8 DEF PollEnds
  <2>2. polls[p].max \in 1 .. happened
    BY <1>0, <2>1 DEF PollInv, PollIsSound
  <2> QED
    BY <1>0, <1>1, <1>8, <2>1, <2>2, EndsIsSound DEF PollEnds, TypeOK
<1> QED
  BY <1>3, <1>4, <1>5, <1>6, <1>7, <1>8


-----------------------------------------------------------------------------
(* Types: recording.                                                       *)

LEMMA CallsAre ==
  ASSUME TypeOK
  PROVE  /\ \A i \in DOMAIN fetching : fetching[i] \in Fetch
         /\ \A i \in DOMAIN chain : chain[i] \in Call
         /\ DOMAIN chain = 1 .. Len(chain) /\ Len(chain) \in Nat
         /\ DOMAIN fetching = 1 .. Len(fetching) /\ Len(fetching) \in Nat
BY Doms DEF TypeOK

(* The poll that awaits a call goes on when it returns.                    *)
LEMMA LeavesIsTyped ==
  ASSUME Typed, NEW i \in DOMAIN chain, Leaves(i), UNCHANGED <<happened, fetching>>
  PROVE  /\ chain' \in Seq(Call) /\ Shrunk(chain, chain', i)
         /\ polls' \in [Poll -> PollRow] /\ PollInv' /\ AwaitInv'
<1> DEFINE p == chain[i].from
<1>0. /\ TypeOK /\ PollInv /\ AwaitInv /\ polls \in [Poll -> PollRow]
      /\ chain \in Seq(Call) /\ chain[i] \in Call /\ p \in Poll \cup {None}
  <2>1. TypeOK /\ PollInv /\ AwaitInv /\ polls \in [Poll -> PollRow] /\ chain \in Seq(Call)
    BY DEF Typed, TypeOK, PollRow
  <2>2. chain[i] \in Call
    BY <2>1, CallsAre
  <2> QED
    BY <2>1, <2>2 DEF Call
<1>1. chain' \in Seq(Call) /\ Shrunk(chain, chain', i)
  BY <1>0, RemoveShrinks DEF Leaves
<1>2. p # None => polls[p].pc = "awaiting"
  BY <1>0 DEF AwaitInv, Awaited
<1>3. /\ polls' \in [Poll -> PollRow]
      /\ \A q \in Poll : IF q = p THEN /\ polls'[q].pc = "handling"
                                       /\ polls'[q].last = polls[q].last
                                       /\ polls'[q].todo = polls[q].todo
                                       /\ polls'[q].max = polls[q].max
                         ELSE polls'[q] = polls[q]
  <2>1. CASE p = None
    <3>1. polls' = polls
      BY <2>1 DEF Leaves
    <3>2. \A q \in Poll : q # p
      BY <2>1, AccessLogAssumption DEF Poll
    <3> QED
      BY <1>0, <3>1, <3>2
  <2>2. CASE p # None
    <3>1. polls' = [polls EXCEPT ![p] = [polls[p] EXCEPT !.pc = "handling"]] /\ p \in Poll
      BY <1>0, <2>2 DEF Leaves
    <3>2. /\ [polls[p] EXCEPT !.pc = "handling"] \in PollRow
          /\ [polls[p] EXCEPT !.pc = "handling"].pc = "handling"
          /\ [polls[p] EXCEPT !.pc = "handling"].last = polls[p].last
          /\ [polls[p] EXCEPT !.pc = "handling"].todo = polls[p].todo
          /\ [polls[p] EXCEPT !.pc = "handling"].max = polls[p].max
      BY <1>0, <3>1 DEF PollRow
    <3> HIDE DEF p
    <3> QED
      BY <1>0, <3>1, <3>2
  <2> QED
    BY <2>1, <2>2
<1>4. PollInv'
  <2> SUFFICES ASSUME NEW q \in Poll PROVE PollIsSound(polls[q])'
    BY DEF PollInv
  <2>1. PollIsSound(polls[q])
    BY <1>0 DEF PollInv
  <2> QED
    <3>1. CASE q = p
      <4>1. polls[q].pc = "awaiting"
        BY <1>2, <3>1, AccessLogAssumption DEF Poll
      <4>2. /\ polls'[q].last = polls[q].last /\ polls'[q].todo = polls[q].todo
            /\ polls'[q].max = polls[q].max
        BY <1>3, <3>1
      <4> QED
        BY <2>1, <4>1, <4>2 DEF PollIsSound
    <3>2. CASE q # p
      BY <1>3, <2>1, <3>2 DEF PollIsSound
    <3> QED
      BY <3>1, <3>2
<1>5. Awaited(chain)'
  <2>1. \A j \in DOMAIN chain' : Skip(i, j) \in DOMAIN chain /\ chain'[j] = chain[Skip(i, j)]
                                 /\ Skip(i, j) # i
    BY <1>0, <1>1, CallsAre, Doms DEF Shrunk, Skip
  <2>2. \A j \in DOMAIN chain : chain[j].from \in Poll \cup {None}
    BY <1>0, CallsAre DEF Call
  <2>3. \A j \in DOMAIN chain' :
           chain'[j].from # None => polls'[chain'[j].from].pc = "awaiting"
    BY <1>0, <1>3, <2>1, <2>2 DEF AwaitInv, Awaited
  <2>4. \A j, k \in DOMAIN chain' :
          j # k /\ chain'[j].from # None => chain'[j].from # chain'[k].from
    BY <1>0, <1>1, ShrunkIsAwaited DEF AwaitInv, Awaited
  <2> QED
    BY <2>3, <2>4 DEF Awaited
<1>6. Awaited(fetching)'
  <2>1. \A j \in DOMAIN fetching : fetching[j].from \in Poll \cup {None}
    BY <1>0, CallsAre DEF Fetch
  <2> QED
    BY <1>0, <1>3, <2>1 DEF AwaitInv, Awaited
<1>7. \A j \in DOMAIN fetching', k \in DOMAIN chain' :
        fetching'[j].from # None => fetching'[j].from # chain'[k].from
  BY <1>0, <1>1 DEF AwaitInv, Shrunk
<1> QED
  BY <1>1, <1>3, <1>4, <1>5, <1>6, <1>7 DEF AwaitInv

(* Call i begins to write.                                                 *)
LEMMA StartsIsTyped ==
  ASSUME NEW i \in DOMAIN chain, chain \in Seq(Call),
         chain' = [chain EXCEPT ![i].pc = "writing"]
  PROVE  /\ chain' \in Seq(Call) /\ Len(chain') = Len(chain) /\ DOMAIN chain' = DOMAIN chain
         /\ chain'[i].pc = "writing"
         /\ \A j \in DOMAIN chain :
              /\ chain'[j].of = chain[j].of /\ chain'[j].photo = chain[j].photo
              /\ chain'[j].from = chain[j].from /\ (j # i => chain'[j].pc = chain[j].pc)
<1> DEFINE e == [chain[i] EXCEPT !.pc = "writing"]
<1>1. /\ DOMAIN chain = 1 .. Len(chain) /\ chain[i] \in Call
  BY Doms
<1>2. /\ e \in Call /\ e.pc = "writing" /\ e.of = chain[i].of /\ e.photo = chain[i].photo
      /\ e.from = chain[i].from
  BY <1>1 DEF Call
<1> HIDE DEF e
<1>3. chain' = [chain EXCEPT ![i] = e]
  BY DEF e
<1>4. /\ chain' \in Seq(Call) /\ Len(chain') = Len(chain)
      /\ \A j \in 1 .. Len(chain) : chain'[j] = IF j = i THEN e ELSE chain[j]
  BY <1>1, <1>2, <1>3, ExceptSeq
<1> QED
  BY <1>1, <1>2, <1>4, Doms

LEMMA TypeFetched == ASSUME Typed, Fetched PROVE Typed'
<1> USE AccessLogAssumption DEF world, stream, pollVars, store
<1>0. /\ TypeOK /\ WireInv /\ PollInv /\ AwaitInv
      /\ chain \in Seq(Call) /\ fetching \in Seq(Fetch)
  BY DEF Typed, TypeOK
<1>1. PICK i \in DOMAIN fetching, photo \in Picture :
        /\ fetching' = RemoveAt(fetching, i)
        /\ Record(fetching[i].of, photo, fetching[i].from)
        /\ UNCHANGED <<world, stream, done, pollVars, seen, docs, told, edits>>
  BY DEF Fetched
<1> DEFINE c == fetching[i]
           e == [of |-> c.of, photo |-> photo, from |-> c.from, pc |-> "queued"]
<1>2. c.of \in Access /\ c.from \in Poll \cup {None}
  BY <1>0, CallsAre DEF Fetch
<1>3. /\ lost' \subseteq Access /\ chain' \in Seq(Call) /\ Grown(chain, chain', e)
  BY <1>0, <1>1, <1>2, RecordIsTyped
<1>4. fetching' \in Seq(Fetch) /\ Shrunk(fetching, fetching', i)
  BY <1>0, <1>1, RemoveShrinks
<1>5. TypeOK'
  BY <1>0, <1>1, <1>3, <1>4 DEF TypeOK
<1>6. WireInv' /\ PollInv'
  BY <1>0, <1>1 DEF WireInv, PollInv, PollIsSound
<1>7. e.from = c.from
  OBVIOUS
<1> HIDE DEF e
<1>8. /\ \A j \in DOMAIN chain' : j = Len(chain') \/ j \in DOMAIN chain
      /\ chain'[Len(chain')].from = c.from
      /\ \A j \in DOMAIN chain : chain'[j] = chain[j]
      /\ \A j \in DOMAIN fetching' : /\ Skip(i, j) \in DOMAIN fetching /\ Skip(i, j) # i
                                     /\ fetching'[j] = fetching[Skip(i, j)]
  BY <1>0, <1>3, <1>4, <1>7, CallsAre, Doms DEF Grown, Shrunk, Skip
<1>9. Awaited(fetching')
  BY <1>0, <1>4, ShrunkIsAwaited DEF AwaitInv
<1>10. Awaited(chain')
  <2>1. /\ c.from # None => polls[c.from].pc = "awaiting"
        /\ \A k \in DOMAIN chain : c.from # None => c.from # chain[k].from
    BY <1>0 DEF AwaitInv, Awaited
  <2>2. \A j \in DOMAIN chain : /\ chain[j].from # None => polls[chain[j].from].pc = "awaiting"
                                /\ \A k \in DOMAIN chain : j # k /\ chain[j].from # None =>
                                                             chain[j].from # chain[k].from
    BY <1>0 DEF AwaitInv, Awaited
  <2> HIDE DEF c
  <2>3. \A j \in DOMAIN chain' :
          chain'[j].from # None => polls[chain'[j].from].pc = "awaiting"
    BY <1>8, <2>1, <2>2
  <2>4. \A j, k \in DOMAIN chain' :
          j # k /\ chain'[j].from # None => chain'[j].from # chain'[k].from
    BY <1>8, <2>1, <2>2
  <2> QED
    BY <2>3, <2>4 DEF Awaited
<1>11. \A j \in DOMAIN fetching', k \in DOMAIN chain' :
         fetching'[j].from # None => fetching'[j].from # chain'[k].from
  <2> SUFFICES ASSUME NEW j \in DOMAIN fetching', NEW k \in DOMAIN chain',
                      fetching'[j].from # None
               PROVE  fetching'[j].from # chain'[k].from
    OBVIOUS
  <2>1. CASE k = Len(chain')
    BY <1>0, <1>8, <2>1 DEF AwaitInv, Awaited
  <2>2. CASE k \in DOMAIN chain
    BY <1>0, <1>8, <2>2 DEF AwaitInv
  <2> QED
    BY <1>8, <2>1, <2>2
<1>12. AwaitInv'
  BY <1>1, <1>9, <1>10, <1>11 DEF AwaitInv, Awaited
<1> QED
  BY <1>5, <1>6, <1>12 DEF Typed

LEMMA TypePushed == ASSUME Typed, Pushed PROVE Typed'
<1> USE AccessLogAssumption DEF world, stream, pollVars, store
<1>0. /\ TypeOK /\ WireInv /\ PollInv /\ AwaitInv
      /\ chain \in Seq(Call) /\ fetching \in Seq(Fetch)
  BY DEF Typed, TypeOK
<1>a. PICK a \in 1 .. happened : \E photo \in {a, None} : Record(a, photo, None)
  BY DEF Pushed
<1>1. PICK photo \in {a, None} : Record(a, photo, None)
  BY <1>a
<1>2. /\ UNCHANGED <<world, stream, done, pollVars, fetching, seen, docs, told>>
      /\ edits' \in 0 .. MaxEdits
  BY <1>0 DEF Pushed, Edit, TypeOK
<1>3. a \in Access /\ photo \in Picture
  BY <1>0 DEF TypeOK, Access, Picture
<1> DEFINE e == [of |-> a, photo |-> photo, from |-> None, pc |-> "queued"]
<1>4. lost' \subseteq Access /\ chain' \in Seq(Call) /\ Grown(chain, chain', e)
  BY <1>0, <1>1, <1>3, RecordIsTyped
<1>5. Awaited(chain')
  BY <1>0, <1>4, GrownIsAwaited DEF AwaitInv
<1>6. \A j \in DOMAIN chain' : j \in DOMAIN chain \/ chain'[j].from = None
  BY <1>0, <1>4, Doms DEF Grown
<1>7. AwaitInv'
  BY <1>0, <1>2, <1>4, <1>5, <1>6 DEF AwaitInv, Awaited, Grown
<1>8. TypeOK'
  BY <1>0, <1>2, <1>4 DEF TypeOK
<1>9. WireInv' /\ PollInv'
  BY <1>0, <1>2 DEF WireInv, PollInv, PollIsSound
<1> QED
  BY <1>7, <1>8, <1>9 DEF Typed

LEMMA TypeCall == ASSUME Typed, Begins \/ Writes \/ Drops PROVE Typed'
<1> USE AccessLogAssumption DEF world, stream, pollVars, store
<1>0. /\ TypeOK /\ WireInv /\ PollInv /\ AwaitInv
      /\ chain \in Seq(Call) /\ fetching \in Seq(Fetch) /\ polls \in [Poll -> PollRow]
  BY DEF Typed, TypeOK, PollRow
<1>1. UNCHANGED <<world, stream, done, busy, cursor, fetching>>
  BY DEF Begins, Writes, Drops
<1>2. WireInv'
  BY <1>0, <1>1 DEF WireInv
<1>3. SUFFICES /\ chain' \in Seq(Call) /\ polls' \in [Poll -> PollRow] /\ PollInv' /\ AwaitInv'
               /\ seen' \subseteq {a \in Access : docs'[a] # Missing}
               /\ docs' \in [Access -> Picture \cup {Missing}]
               /\ told' \in [Access -> Nat] /\ lost' \subseteq Access /\ edits' \in 0 .. MaxEdits
  <2>1. TypeOK'
    BY <1>0, <1>1, <1>3 DEF TypeOK, PollRow
  <2> QED
    BY <1>2, <1>3, <2>1 DEF Typed
<1>4. CASE Begins
  <2>1. PICK i \in DOMAIN chain :
          \/ Leaves(i)
          \/ chain' = [chain EXCEPT ![i].pc = "writing"] /\ UNCHANGED polls
    BY <1>4 DEF Begins
  <2>2. UNCHANGED <<happened, fetching, store, edits>>
    BY <1>4 DEF Begins
  <2>3. /\ chain' \in Seq(Call) /\ polls' \in [Poll -> PollRow] /\ PollInv' /\ AwaitInv'
    <3>1. CASE Leaves(i)
      BY <2>2, <3>1, LeavesIsTyped
    <3>2. CASE chain' = [chain EXCEPT ![i].pc = "writing"] /\ UNCHANGED polls
      <4>1. /\ chain' \in Seq(Call) /\ DOMAIN chain' = DOMAIN chain
            /\ \A j \in DOMAIN chain : chain'[j].from = chain[j].from
        BY <1>0, <3>2, StartsIsTyped
      <4>2. PollInv' /\ polls' \in [Poll -> PollRow]
        BY <1>0, <2>2, <3>2 DEF PollInv, PollIsSound
      <4>3. AwaitInv'
        BY <1>0, <2>2, <3>2, <4>1 DEF AwaitInv, Awaited
      <4> QED
        BY <4>1, <4>2, <4>3
    <3> QED
      BY <2>1, <3>1, <3>2
  <2> QED
    BY <1>0, <2>2, <2>3 DEF TypeOK
<1>5. CASE Writes
  <2>1. PICK i \in DOMAIN chain, photo \in Picture :
          /\ docs' = [docs EXCEPT ![chain[i].of] = photo]
          /\ seen' = seen \cup {chain[i].of}
          /\ told' = IF chain[i].of <= old /\ Brand # "camera" THEN told
                     ELSE [told EXCEPT ![chain[i].of] = @ + 1]
          /\ Leaves(i)
    BY <1>5 DEF Writes
  <2>2. UNCHANGED <<happened, fetching, lost, edits>>
    BY <1>5 DEF Writes
  <2>3. /\ chain' \in Seq(Call) /\ polls' \in [Poll -> PollRow] /\ PollInv' /\ AwaitInv'
    BY <2>1, <2>2, LeavesIsTyped
  <2>4. chain[i].of \in Access
    BY <1>0, CallsAre DEF Call
  <2>5. /\ docs' \in [Access -> Picture \cup {Missing}]
        /\ seen' \subseteq {a \in Access : docs'[a] # Missing}
    <3>1. photo # Missing
      BY DEF Picture, Access, Stranger
    <3> QED
      BY <1>0, <2>1, <2>4, <3>1 DEF TypeOK
  <2>6. told' \in [Access -> Nat]
    BY <1>0, <2>1, <2>4 DEF TypeOK
  <2> QED
    BY <1>0, <2>2, <2>3, <2>5, <2>6 DEF TypeOK
<1>6. CASE Drops
  <2>1. PICK i \in DOMAIN chain :
          /\ Leaves(i)
          /\ lost' = lost \cup
               ({chain[i].of} \ {a \in Access : Among(chain', a) \/ Among(fetching, a)})
    BY <1>6 DEF Drops
  <2>2. UNCHANGED <<happened, fetching, seen, docs, told>> /\ edits' \in 0 .. MaxEdits
    BY <1>0, <1>6 DEF Drops, Edit, TypeOK
  <2>3. /\ chain' \in Seq(Call) /\ polls' \in [Poll -> PollRow] /\ PollInv' /\ AwaitInv'
    BY <2>1, <2>2, LeavesIsTyped
  <2>4. chain[i].of \in Access
    BY <1>0, CallsAre DEF Call
  <2>5. lost' \subseteq Access
    BY <1>0, <2>1, <2>4 DEF TypeOK
  <2> QED
    BY <1>0, <2>2, <2>3, <2>5 DEF TypeOK
<1> QED
  BY <1>4, <1>5, <1>6


LEMMA TypeInit == ASSUME Init PROVE Typed
<1> USE AccessLogAssumption
<1>1. <<>> \in Seq(Part) /\ <<>> \in Seq(Fetch) /\ <<>> \in Seq(Call) /\ DOMAIN <<>> = {}
  BY EmptySeq
<1>2. TypeOK
  <2>1. polls \in [Poll -> [pc : {"idle", "asked", "handling", "awaiting"},
                            last : Access \cup {None}, todo : SUBSET Access,
                            max : Access \cup {None}]]
    BY DEF Init, IdlePoll
  <2>2. /\ docs \in [Access -> Picture \cup {Missing}] /\ told \in [Access -> Nat]
        /\ seen \subseteq {a \in Access : docs[a] # Missing} /\ lost \subseteq Access
    BY DEF Init
  <2>3. /\ happened \in 0 .. MaxAccesses /\ old \in 0 .. happened /\ edits \in 0 .. MaxEdits
        /\ beyond \in 0 .. happened
        /\ done \subseteq 1 .. happened
        /\ cursor \in 1 .. happened \cup {None} /\ pend \in Access \cup {None}
    BY DEF Init
  <2>5. busy \in BOOLEAN
    BY Zenon DEF Init
  <2>4. device \in Devices /\ wire \in Seq(Part) /\ link \in {"open", "poll", "down"}
        /\ fetching \in Seq(Fetch) /\ chain \in Seq(Call)
    BY <1>1 DEF Init
  <2> QED
    BY <2>1, <2>2, <2>3, <2>4, <2>5 DEF TypeOK
<1>3. WireInv /\ AwaitInv
  BY <1>1 DEF Init, WireInv, AwaitInv, Awaited
<1>4. PollInv
  BY DEF Init, PollInv, PollIsSound, IdlePoll
<1> QED
  BY <1>2, <1>3, <1>4 DEF Typed

LEMMA TypeRestarts == ASSUME Typed, Restarts PROVE Typed'
<1> USE AccessLogAssumption DEF world, stream, pollVars, store
<1>0. TypeOK /\ <<>> \in Seq(Part) /\ <<>> \in Seq(Fetch) /\ <<>> \in Seq(Call) /\ DOMAIN <<>> = {}
  BY EmptySeq DEF Typed
<1>1. /\ lost' = lost \cup {a \in Access : Handed(a)}
      /\ wire' = <<>> /\ link' = "down" /\ pend' = None
      /\ done' = {} /\ polls' = [p \in Poll |-> IdlePoll] /\ busy' = FALSE /\ cursor' = None
      /\ fetching' = <<>> /\ chain' = <<>> /\ seen' = {}
      /\ told' = [a \in Access |-> 0]
      /\ UNCHANGED <<device, happened, old, beyond, docs>>
  BY DEF Restarts
<1>2. edits' \in 0 .. MaxEdits
  BY <1>0 DEF Restarts, Edit, TypeOK
<1>3. polls' \in [Poll -> [pc : {"idle", "asked", "handling", "awaiting"},
                           last : Access \cup {None}, todo : SUBSET Access,
                           max : Access \cup {None}]]
  BY <1>1 DEF IdlePoll
<1>4. TypeOK'
  BY <1>0, <1>1, <1>2, <1>3 DEF TypeOK
<1>5. WireInv' /\ AwaitInv'
  BY <1>0, <1>1 DEF WireInv, AwaitInv, Awaited
<1>6. PollInv'
  BY <1>1 DEF PollInv, PollIsSound, IdlePoll
<1> QED
  BY <1>4, <1>5, <1>6 DEF Typed

LEMMA TypeStep == ASSUME Typed, [Next]_vars PROVE Typed'
<1>1. CASE Happens \/ Strays \/ TimePasses \/ DoorEvents
  BY <1>1, TypeDevice
<1>2. CASE TextPart \/ ImagePart \/ FlushTimer
  BY <1>2, TypeStream
<1>3. CASE StreamEnds \/ Subscribes \/ FallsBackToPoll \/ TearsDown
  BY <1>3, TypeLink
<1>4. CASE \E p \in Poll : \/ PollAsks(p) \/ PollAnswered(p) \/ PollFails(p)
                           \/ PollHandles(p) \/ PollEnds(p)
  BY <1>4, TypePoll
<1>5. CASE Fetched \/ Pushed
  BY <1>5, TypeFetched, TypePushed
<1>6. CASE Begins \/ Writes \/ Drops
  BY <1>6, TypeCall
<1>7. CASE Restarts
  BY <1>7, TypeRestarts
<1>8. CASE UNCHANGED vars
  <2>1. TypeOK'
    BY <1>8 DEF Typed, TypeOK, vars, world, stream, pollVars, store
  <2>2. WireInv' /\ PollInv' /\ AwaitInv'
    BY <1>8 DEF Typed, WireInv, PollInv, PollIsSound, AwaitInv, Awaited, vars, world, stream,
                pollVars, store
  <2> QED
    BY <2>1, <2>2 DEF Typed
<1> QED
  BY <1>1, <1>2, <1>3, <1>4, <1>5, <1>6, <1>7, <1>8 DEF Next

(* Types, and what polls and calls in flight know of each other.           *)
THEOREM AlwaysTyped == Spec => []Typed
<1>1. Init => Typed
  BY TypeInit
<1>2. Typed /\ [Next]_vars => Typed'
  BY TypeStep
<1> QED
  BY <1>1, <1>2, PTL DEF Spec

(* Every reachable state has its types: pictures, polls, calls and what    *)
(* is remembered of an access belong to accesses that happened.            *)
THEOREM AccessTypeCorrect == Spec => []TypeOK
<1>1. Typed => TypeOK
  BY DEF Typed
<1> QED
  BY <1>1, AlwaysTyped, PTL

-----------------------------------------------------------------------------
(* Told at most once.                                                      *)

Once == Typed /\ WriterInv /\ ToldInv

LEMMA RecordWaits ==
  ASSUME Once, NEW a \in Access, NEW photo \in Picture, NEW p \in Poll \cup {None},
         Record(a, photo, p), UNCHANGED seen
  PROVE  WriterInv'
<1> DEFINE e == [of |-> a, photo |-> photo, from |-> p, pc |-> "queued"]
<1>0. TypeOK /\ WriterInv
  BY DEF Once, Typed
<1>1. chain' \in Seq(Call) /\ Grown(chain, chain', e)
  BY <1>0, RecordIsTyped
<1>2. e.pc = "queued"
  OBVIOUS
<1> HIDE DEF e
<1>3. \A j \in DOMAIN chain' : chain'[j].pc = "writing" => j \in DOMAIN chain /\ chain'[j] = chain[j]
  BY <1>0, <1>1, <1>2, CallsAre, Doms DEF Grown
<1> QED
  BY <1>0, <1>3 DEF WriterInv

(* When the first call has left, none writes.                              *)
LEMMA FirstLeaves ==
  ASSUME Once, NEW i \in DOMAIN chain, i = 1, Leaves(i)
  PROVE  \A j \in DOMAIN chain' : chain'[j].pc # "writing"
<1>0. TypeOK /\ WriterInv /\ chain \in Seq(Call)
  BY DEF Once, Typed, TypeOK
<1>1. chain' \in Seq(Call) /\ Shrunk(chain, chain', i)
  BY <1>0, RemoveShrinks DEF Leaves
<1>2. \A j \in DOMAIN chain' : /\ Skip(i, j) \in DOMAIN chain /\ Skip(i, j) # 1
                               /\ chain'[j] = chain[Skip(i, j)]
  BY <1>1, Doms DEF Shrunk, Skip
<1> QED
  BY <1>0, <1>2 DEF WriterInv

LEMMA OnceStep == ASSUME Once, [Next]_vars PROVE Once'
<1> USE DEF world, stream, pollVars, store
<1>0. TypeOK /\ WriterInv /\ ToldInv /\ Typed
  BY DEF Once, Typed
<1>1. Typed'
  BY <1>0, TypeStep
<1>2. ASSUME UNCHANGED <<chain, seen, told>> PROVE WriterInv' /\ ToldInv'
  BY <1>0, <1>2 DEF WriterInv, ToldInv
<1>3. ASSUME UNCHANGED <<seen, told>>, WriterInv' PROVE WriterInv' /\ ToldInv'
  BY <1>0, <1>3 DEF ToldInv
<1>4. ASSUME pend # None, NEW photo \in Picture, Flush(pend, photo), UNCHANGED <<seen, told>>
      PROVE  WriterInv' /\ ToldInv'
  <2>1. CASE UNCHANGED chain
    BY <1>2, <1>4, <2>1
  <2>2. CASE Record(pend, photo, None)
    <3>1. pend \in Access
      BY <1>0, <1>4 DEF TypeOK
    <3> QED
      BY <1>3, <1>4, <2>2, <3>1, RecordWaits
  <2> QED
    BY <1>4, <2>1, <2>2 DEF Flush
<1>5. None \in Picture
  BY DEF Picture
<1>6. WriterInv' /\ ToldInv'
  <2>1. CASE Happens \/ Strays \/ TimePasses \/ DoorEvents \/ StreamEnds \/ Subscribes
             \/ FallsBackToPoll \/ TearsDown \/ UNCHANGED vars
    BY <1>2, <2>1 DEF Happens, Strays, TimePasses, DoorEvents, StreamEnds, Subscribes,
                      FallsBackToPoll, TearsDown, vars
  <2>2. CASE TextPart
    BY <1>2, <1>4, <1>5, <2>2 DEF TextPart
  <2>3. CASE ImagePart
    <3>1. wire \in Seq(Part) /\ wire # <<>>
      BY <1>0, <2>3 DEF ImagePart, Arrives, TypeOK
    <3>2. Head(wire).of \in Picture
      <4>1. Head(wire) \in Part
        BY <3>1, TailIs
      <4> QED
        BY <4>1 DEF Part, Picture
    <3> QED
      BY <1>2, <1>4, <2>3, <3>2 DEF ImagePart
  <2>4. CASE FlushTimer
    BY <1>2, <1>4, <1>5, <2>4 DEF FlushTimer
  <2>5. CASE \E p \in Poll : \/ PollAsks(p) \/ PollAnswered(p) \/ PollFails(p)
                             \/ PollHandles(p) \/ PollEnds(p)
    BY <1>2, <2>5 DEF PollAsks, PollAnswered, PollFails, PollHandles, PollEnds
  <2>6. CASE Fetched
    <3>1. PICK i \in DOMAIN fetching, photo \in Picture :
            Record(fetching[i].of, photo, fetching[i].from) /\ UNCHANGED <<seen, told>>
      BY <2>6 DEF Fetched
    <3>2. fetching[i].of \in Access /\ fetching[i].from \in Poll \cup {None}
      BY <1>0, CallsAre DEF Fetch
    <3> QED
      BY <1>3, <3>1, <3>2, RecordWaits
  <2>7. CASE Pushed
    <3>1. PICK a \in 1 .. happened : \E photo \in {a, None} : Record(a, photo, None)
      BY <2>7 DEF Pushed
    <3>2. PICK photo \in {a, None} : Record(a, photo, None)
      BY <3>1
    <3>3. a \in Access /\ photo \in Picture
      BY <1>0, AccessLogAssumption DEF TypeOK, Access, Picture
    <3>4. UNCHANGED <<seen, told>>
      BY <2>7 DEF Pushed
    <3> QED
      BY <1>3, <3>2, <3>3, <3>4, RecordWaits
  <2>8. CASE Begins
    <3>1. PICK i \in DOMAIN chain :
            /\ i = 1
            /\ IF chain[i].of \in seen THEN Leaves(i)
               ELSE chain' = [chain EXCEPT ![i].pc = "writing"]
      BY <2>8 DEF Begins, IsTurn
    <3>2. UNCHANGED <<seen, told>>
      BY <2>8 DEF Begins
    <3>3. CASE Leaves(i)
      <4>1. WriterInv'
        BY <3>1, <3>3, FirstLeaves DEF WriterInv
      <4> QED
        BY <1>3, <3>2, <4>1
    <3>4. CASE chain[i].of \notin seen /\ chain' = [chain EXCEPT ![i].pc = "writing"]
      <4>1. /\ DOMAIN chain' = DOMAIN chain
            /\ \A j \in DOMAIN chain : /\ chain'[j].of = chain[j].of
                                       /\ j # i => chain'[j].pc = chain[j].pc
        BY <1>0, <3>4, StartsIsTyped DEF TypeOK
      <4>2. WriterInv'
        BY <1>0, <3>1, <3>2, <3>4, <4>1 DEF WriterInv
      <4> QED
        BY <1>3, <3>2, <4>2
    <3> QED
      BY <3>1, <3>3, <3>4
  <2>9. CASE Writes
    <3>1. PICK i \in DOMAIN chain :
            /\ chain[i].pc = "writing" /\ Leaves(i)
            /\ seen' = seen \cup {chain[i].of}
            /\ told' = IF chain[i].of <= old /\ Brand # "camera" THEN told
                       ELSE [told EXCEPT ![chain[i].of] = @ + 1]
      BY <2>9 DEF Writes
    <3>2. i = 1 /\ chain[i].of \notin seen /\ chain[i].of \in Access
      BY <1>0, <3>1, CallsAre DEF WriterInv, Call
    <3>3. WriterInv'
      BY <3>1, <3>2, FirstLeaves DEF WriterInv
    <3>4. told[chain[i].of] = 0 /\ told \in [Access -> Nat]
      BY <1>0, <3>2 DEF ToldInv, TypeOK
    <3>5. ToldInv'
      BY <1>0, <3>1, <3>2, <3>4 DEF ToldInv
    <3> QED
      BY <3>3, <3>5
  <2>10. CASE Drops
    <3>1. PICK i \in DOMAIN chain : chain[i].pc = "writing" /\ Leaves(i)
      BY <2>10 DEF Drops
    <3>2. UNCHANGED <<seen, told>>
      BY <2>10 DEF Drops
    <3>3. i = 1
      BY <1>0, <3>1 DEF WriterInv
    <3>4. WriterInv'
      BY <3>1, <3>3, FirstLeaves DEF WriterInv
    <3> QED
      BY <1>3, <3>2, <3>4
  <2>11. CASE Restarts
    <3>1. chain' = <<>> /\ told' = [a \in Access |-> 0] /\ DOMAIN <<>> = {}
      BY <2>11, EmptySeq DEF Restarts
    <3> QED
      BY <3>1 DEF WriterInv, ToldInv
  <2> QED
    BY <2>1, <2>2, <2>3, <2>4, <2>5, <2>6, <2>7, <2>8, <2>9, <2>10, <2>11 DEF Next
<1> QED
  BY <1>1, <1>6 DEF Once

(* Only the first call of the chain writes, and what was told is known.    *)
THEOREM AlwaysOnce == Spec => []Once
<1>1. Init => Once
  <2> SUFFICES ASSUME Init PROVE Once
    OBVIOUS
  <2>1. chain = <<>> /\ told = [a \in Access |-> 0] /\ DOMAIN <<>> = {}
    BY EmptySeq DEF Init
  <2> QED
    BY <2>1, TypeInit DEF Once, WriterInv, ToldInv
<1>2. Once /\ [Next]_vars => Once'
  BY OnceStep
<1> QED
  BY <1>1, <1>2, PTL DEF Spec

(* However often an access reaches the service, a process tells of it at   *)
(* most once: the calls of a device run one after the other, and each      *)
(* looks at what was recorded before it.                                   *)
THEOREM AccessToldOnce == Spec => []ToldOnce
<1>1. Once => ToldOnce
  BY DEF Once, ToldInv, ToldOnce
<1> QED
  BY <1>1, AlwaysOnce, PTL

-----------------------------------------------------------------------------
(* The picture is the access's own.                                        *)

Own == Typed /\ PhotoInv

LEMMA GrownIsOwn ==
  ASSUME NEW S, NEW s \in Seq(S), NEW t \in Seq(S), NEW e, Grown(s, t, e), OwnPhotos(s),
         e.photo \in {e.of, Live, None}
  PROVE  OwnPhotos(t)
<1>1. \A i \in DOMAIN t : i = Len(t) \/ i \in DOMAIN s
  BY Doms DEF Grown
<1> QED
  BY <1>1, Doms DEF Grown, OwnPhotos

LEMMA ShrunkIsOwn ==
  ASSUME NEW S, NEW s \in Seq(S), NEW t \in Seq(S), NEW i \in DOMAIN s, Shrunk(s, t, i),
         OwnPhotos(s)
  PROVE  OwnPhotos(t)
BY Doms DEF Shrunk, OwnPhotos

LEMMA RecordIsOwn ==
  ASSUME Own, NEW a \in Access, NEW photo \in Picture, NEW p \in Poll \cup {None},
         photo \in {a, Live, None}, Record(a, photo, p)
  PROVE  OwnPhotos(chain')
<1> DEFINE e == [of |-> a, photo |-> photo, from |-> p, pc |-> "queued"]
<1>0. TypeOK /\ OwnPhotos(chain) /\ chain \in Seq(Call)
  BY DEF Own, Typed, PhotoInv, TypeOK
<1>1. chain' \in Seq(Call) /\ Grown(chain, chain', e)
  BY <1>0, RecordIsTyped
<1>2. e.photo \in {e.of, Live, None}
  OBVIOUS
<1> HIDE DEF e
<1> QED
  BY <1>0, <1>1, <1>2, GrownIsOwn

LEMMA HandleIsOwn ==
  ASSUME Own, NEW a \in 1 .. happened, NEW photo \in Picture, NEW p \in Poll \cup {None},
         photo \in {a, Live, None}, Handle(a, photo, p)
  PROVE  OwnPhotos(fetching')
<1> DEFINE e == [of |-> a, photo |-> photo, from |-> p]
<1>0. TypeOK /\ OwnPhotos(fetching) /\ fetching \in Seq(Fetch)
  BY DEF Own, Typed, PhotoInv, TypeOK
<1>1. fetching' \in Seq(Fetch) /\ Grown(fetching, fetching', e)
  BY <1>0, HandleIsTyped
<1>2. e.photo \in {e.of, Live, None}
  OBVIOUS
<1> HIDE DEF e
<1> QED
  BY <1>0, <1>1, <1>2, GrownIsOwn

LEMMA FlushIsOwn ==
  ASSUME Own, NEW photo \in Picture, pend # None, photo \in {pend, Live, None},
         Flush(pend, photo)
  PROVE  OwnPhotos(chain') /\ OwnPhotos(fetching')
<1>0. pend \in 1 .. happened /\ pend \in Access /\ OwnPhotos(chain) /\ OwnPhotos(fetching)
  BY DEF Own, Typed, TypeOK, WireInv, PhotoInv, Access
<1>1. CASE Handle(pend, photo, None) /\ UNCHANGED chain
  BY <1>0, <1>1, HandleIsOwn
<1>2. CASE Record(pend, photo, None) /\ UNCHANGED fetching
  BY <1>0, <1>2, RecordIsOwn
<1>3. CASE UNCHANGED <<chain, fetching>>
  BY <1>0, <1>3
<1> QED
  BY <1>1, <1>2, <1>3 DEF Flush

LEMMA LeavesIsOwn ==
  ASSUME Own, NEW i \in DOMAIN chain, Leaves(i) PROVE OwnPhotos(chain')
<1>0. OwnPhotos(chain) /\ chain \in Seq(Call)
  BY DEF Own, Typed, TypeOK, PhotoInv
<1>1. chain' \in Seq(Call) /\ Shrunk(chain, chain', i)
  BY <1>0, RemoveShrinks DEF Leaves
<1> QED
  BY <1>0, <1>1, ShrunkIsOwn

(* The stream is paired: part i of w, where last waits for a picture.      *)
PairAt(w, last, i) ==
  /\ w[i].is = "image" /\ w[i].of # Stranger =>
       IF i = 1 THEN last \in {None, w[i].of}
       ELSE w[i - 1].is = "text" /\ w[i - 1].of = w[i].of
  /\ w[i].of = Stranger =>
       /\ device.stray
       /\ IF i = 1 THEN last = None ELSE w[i - 1].is = "image"
  /\ device.stray /\ w[i].is = "text" => i < Len(w) /\ w[i + 1].is = "image"

LEMMA PairsAre == PairInv <=> \A i \in DOMAIN wire : PairAt(wire, pend, i)
BY DEF PairInv, PairAt

(* Without what came first.                                                *)
LEMMA TailIsPaired ==
  ASSUME Own, wire # <<>>, wire' = Tail(wire), UNCHANGED device,
         wire[1].is = "text" => pend' = wire[1].of,
         wire[1].is = "image" => pend' = None
  PROVE  PairInv' /\ (device.stray /\ wire[1].is = "text" => wire' # <<>>)
<1>0. wire \in Seq(Part) /\ PairInv
  BY DEF Own, Typed, TypeOK, PhotoInv
<1>1. /\ 1 \in DOMAIN wire /\ wire' \in Seq(Part) /\ Len(wire') = Len(wire) - 1
      /\ \A i \in 1 .. Len(wire) - 1 : wire'[i] = wire[i + 1]
  BY <1>0, TailIs
<1>2. /\ DOMAIN wire = 1 .. Len(wire) /\ DOMAIN wire' = 1 .. Len(wire) - 1 /\ Len(wire) \in Nat
  BY <1>0, <1>1, Doms
<1>3. \A i \in DOMAIN wire : wire[i].is \in {"text", "image"}
  <2>1. \A i \in DOMAIN wire : wire[i] \in Part
    BY <1>0, <1>2
  <2> QED
    BY <2>1 DEF Part
<1>4. ASSUME NEW i \in DOMAIN wire' PROVE PairAt(wire', pend', i)
  <2>1. i + 1 \in DOMAIN wire /\ wire'[i] = wire[i + 1] /\ PairAt(wire, pend, i + 1)
    BY <1>0, <1>1, <1>2, PairsAre
  <2>2. CASE i = 1
    <3>1. wire[2] = wire'[1] /\ PairAt(wire, pend, 2) /\ i + 1 = 2 /\ 2 - 1 = 1 /\ 2 # 1
      BY <2>1, <2>2
    <3>2. device.stray /\ wire[2].is = "text" => 2 < Len(wire) /\ wire[3].is = "image"
      BY <3>1 DEF PairAt
    <3>3. device.stray /\ wire'[1].is = "text" => 1 < Len(wire') /\ wire'[2].is = "image"
      BY <1>1, <1>2, <3>1, <3>2
    <3>4. wire'[1].is = "image" /\ wire'[1].of # Stranger => pend' = wire'[1].of
      BY <3>1 DEF PairAt
    <3>5. wire'[1].of = Stranger => device.stray /\ pend' = None
      BY <1>1, <1>3, <3>1 DEF PairAt
    <3> QED
      BY <2>2, <3>3, <3>4, <3>5 DEF PairAt
  <2>3. CASE i # 1
    <3>1. wire'[i - 1] = wire[i] /\ i + 1 # 1 /\ (i + 1) - 1 = i
      BY <1>1, <1>2, <2>3
    <3>2. device.stray /\ wire[i + 1].is = "text" => i + 1 < Len(wire) /\ wire[(i + 1) + 1].is = "image"
      BY <2>1 DEF PairAt
    <3>3. device.stray /\ wire'[i].is = "text" => i < Len(wire') /\ wire'[i + 1].is = "image"
      BY <1>1, <1>2, <2>1, <3>2
    <3>4. wire'[i].is = "image" /\ wire'[i].of # Stranger =>
            wire'[i - 1].is = "text" /\ wire'[i - 1].of = wire'[i].of
      BY <2>1, <3>1 DEF PairAt
    <3>5. wire'[i].of = Stranger => device.stray /\ wire'[i - 1].is = "image"
      BY <2>1, <3>1 DEF PairAt
    <3> QED
      BY <2>3, <3>3, <3>4, <3>5 DEF PairAt
  <2> QED
    BY <2>2, <2>3
<1>5. PairInv'
  BY <1>4 DEF PairInv, PairAt
<1>6. device.stray /\ wire[1].is = "text" => wire' # <<>>
  <2>0. PairAt(wire, pend, 1)
    BY <1>0, <1>1, PairsAre
  <2>1. device.stray /\ wire[1].is = "text" => 1 < Len(wire)
    BY <2>0 DEF PairAt
  <2> QED
    <3> SUFFICES ASSUME 1 < Len(wire), wire' = <<>> PROVE FALSE
      BY <2>1
    <3>1. Len(wire') = 0
      BY EmptySeq
    <3>2. Len(wire') = Len(wire) - 1 /\ Len(wire) \in Nat
      BY <1>1, <1>2
    <3> QED
      BY <3>1, <3>2
<1> QED
  BY <1>5, <1>6

(* The device sends another access.                                        *)
LEMMA HappensIsPaired == ASSUME Own, Happens PROVE PairInv' /\ RestInv'
<1> USE DEF world, stream, pollVars, store
<1>0. /\ TypeOK /\ PairInv /\ RestInv /\ wire \in Seq(Part)
      /\ device.stray => ~ device.bare
  BY DEF Own, Typed, TypeOK, PhotoInv
<1>1. UNCHANGED <<device, link, pend>>
  BY DEF Happens
<1>2. CASE wire' = wire
  <2>1. link = "open" => FALSE \/ wire = wire'
    BY <1>2
  <2> QED
    BY <1>0, <1>1, <1>2 DEF PairInv, RestInv
<1>3. CASE link = "open" /\ \E s \in Sent(happened') : wire' = wire \o s
  <2>1. PICK s \in Sent(happened') : wire' = wire \o s
    BY <1>3
  <2>2. happened' \in Access
    BY <1>0, AccessLogAssumption DEF Happens, TypeOK, Access
  <2>3. OneAccess(s, happened') /\ s \in Seq(Part)
    BY <2>2, SentIs DEF OneAccess
  <2>4. /\ wire' \in Seq(Part) /\ Len(wire') = Len(wire) + Len(s)
        /\ \A i \in 1 .. Len(wire) : wire'[i] = wire[i]
        /\ \A i \in 1 .. Len(s) : wire'[Len(wire) + i] = s[i]
    BY <1>0, <2>1, <2>3, WireGrows
  <2>5. /\ Len(wire) \in Nat /\ Len(s) \in 1 .. 4 /\ DOMAIN wire = 1 .. Len(wire)
        /\ DOMAIN s = 1 .. Len(s) /\ DOMAIN wire' = 1 .. Len(wire')
    BY <1>0, <2>3, <2>4, Doms DEF OneAccess
  <2>6. ASSUME NEW i \in DOMAIN wire' PROVE PairAt(wire', pend', i)
    <3>1. CASE i <= Len(wire)
      <4>1. i \in DOMAIN wire /\ wire'[i] = wire[i] /\ PairAt(wire, pend, i)
        BY <1>0, <2>4, <2>5, <3>1, PairsAre
      <4>2. i = 1 \/ wire'[i - 1] = wire[i - 1]
        BY <2>4, <2>5, <3>1
      <4>3. device.stray /\ wire'[i].is = "text" => i < Len(wire) /\ wire[i + 1].is = "image"
        BY <4>1 DEF PairAt
      <4>4. device.stray /\ wire'[i].is = "text" => i < Len(wire') /\ wire'[i + 1].is = "image"
        BY <2>4, <2>5, <4>1, <4>3
      <4>5. wire'[i].is = "image" /\ wire'[i].of # Stranger =>
              IF i = 1 THEN pend' \in {None, wire'[i].of}
              ELSE wire'[i - 1].is = "text" /\ wire'[i - 1].of = wire'[i].of
        BY <1>1, <4>1, <4>2 DEF PairAt
      <4>6. wire'[i].of = Stranger =>
              device.stray /\ (IF i = 1 THEN pend' = None ELSE wire'[i - 1].is = "image")
        BY <1>1, <4>1, <4>2 DEF PairAt
      <4> QED
        BY <4>4, <4>5, <4>6 DEF PairAt
    <3>2. CASE ~ i <= Len(wire)
      <4> DEFINE k == i - Len(wire)
      <4>1. k \in 1 .. Len(s) /\ Len(wire) + k = i
        BY <2>4, <2>5, <3>2
      <4>2. k = 1 \/ (k - 1 \in 1 .. Len(s) /\ Len(wire) + (k - 1) = i - 1 /\ i # 1)
        BY <2>5, <4>1
      <4>3. k < Len(s) => /\ k + 1 \in 1 .. Len(s) /\ Len(wire) + (k + 1) = i + 1
                          /\ i < Len(wire')
        BY SMTT(20), <2>4, <2>5, <4>1
      <4> HIDE DEF k
      <4>4. /\ wire'[i] = s[k] /\ s[k].of = happened' /\ s[k].of # Stranger
            /\ s[k].is = "image" => k > 1 /\ s[k - 1].is = "text"
            /\ ~ device.bare /\ s[k].is = "text" => k < Len(s) /\ s[k + 1].is = "image"
        <5>1. k \in DOMAIN s /\ wire'[i] = s[k]
          BY <2>4, <2>5, <4>1
        <5>2. /\ s[k].of = happened'
              /\ s[k].is = "image" => k > 1 /\ s[k - 1].is = "text"
              /\ ~ device.bare /\ s[k].is = "text" => k < Len(s) /\ s[k + 1].is = "image"
          BY <2>3, <5>1 DEF OneAccess
        <5>3. s[k].of # Stranger
          BY <2>2, <5>2, AccessLogAssumption DEF Access, Stranger
        <5> QED
          BY <5>1, <5>2, <5>3
      <4>5. s[k].is = "image" => wire'[i - 1] = s[k - 1] /\ s[k - 1].of = happened' /\ i # 1
        BY <2>3, <2>4, <2>5, <4>1, <4>2, <4>4 DEF OneAccess
      <4>6. k < Len(s) => wire'[i + 1] = s[k + 1] /\ i < Len(wire')
        BY <2>4, <4>3
      <4> QED
        BY <1>0, <4>4, <4>5, <4>6 DEF PairAt
    <3> QED
      BY <3>1, <3>2
  <2>7. PairInv'
    BY <1>1, <2>6 DEF PairInv, PairAt
  <2>8. wire' # <<>>
    <3>1. ASSUME wire' = <<>> PROVE Len(wire') = 0
      BY <3>1
    <3> QED
      BY <2>4, <2>5, <3>1
  <2>9. RestInv'
    BY <1>0, <1>1, <1>3, <2>8 DEF RestInv
  <2> QED
    BY <2>7, <2>9
<1> QED
  BY <1>2, <1>3 DEF Happens

LEMMA StraysIsPaired == ASSUME Own, Strays PROVE PairInv' /\ RestInv'
<1> USE DEF world, stream, pollVars, store
<1> DEFINE e == [is |-> "image", of |-> Stranger]
<1>0. /\ TypeOK /\ PairInv /\ RestInv /\ wire \in Seq(Part)
  BY DEF Own, Typed, TypeOK, PhotoInv
<1>1. UNCHANGED <<device, link, pend>> /\ device.stray /\ link = "open"
  BY DEF Strays
<1>2. e \in Part /\ e.is = "image" /\ e.of = Stranger
  BY DEF Part
<1>3. wire' \in Seq(Part) /\ Grown(wire, wire', e)
  BY <1>0, <1>2, AppendGrows DEF Strays
<1> HIDE DEF e
<1>4. /\ Len(wire) \in Nat /\ DOMAIN wire = 1 .. Len(wire) /\ DOMAIN wire' = 1 .. Len(wire')
      /\ Len(wire') = Len(wire) + 1 /\ wire'[Len(wire')] = e
      /\ \A i \in 1 .. Len(wire) : wire'[i] = wire[i]
  BY <1>0, <1>3, Doms DEF Grown
<1>5. Len(wire) = 0 => pend = None
  <2>1. Len(wire) = 0 => wire = <<>>
    BY <1>0, EmptySeq
  <2> QED
    BY <1>0, <1>1, <2>1 DEF RestInv
<1>6. Len(wire) # 0 => wire[Len(wire)].is = "image"
  <2> SUFFICES ASSUME Len(wire) # 0 PROVE wire[Len(wire)].is = "image"
    OBVIOUS
  <2>1. Len(wire) \in DOMAIN wire
    BY <1>4
  <2>2. PairAt(wire, pend, Len(wire)) /\ wire[Len(wire)] \in Part
    BY <1>0, <1>4, <2>1, PairsAre
  <2>3. wire[Len(wire)].is \in {"text", "image"}
    BY <2>2 DEF Part
  <2> QED
    BY <1>1, <1>4, <2>2, <2>3 DEF PairAt
<1>7. ASSUME NEW i \in DOMAIN wire' PROVE PairAt(wire', pend', i)
  <2>1. CASE i = Len(wire')
    <3>1. i # 1 => wire'[i - 1] = wire[Len(wire)] /\ Len(wire) # 0
      BY <1>4, <2>1
    <3>2. i = 1 => Len(wire) = 0
      BY <1>4, <2>1
    <3> QED
      BY <1>1, <1>2, <1>4, <1>5, <1>6, <2>1, <3>1, <3>2 DEF PairAt
  <2>2. CASE i # Len(wire')
    <3>1. i \in DOMAIN wire /\ wire'[i] = wire[i] /\ PairAt(wire, pend, i)
      BY <1>0, <1>4, <2>2, PairsAre
    <3>2. i = 1 \/ wire'[i - 1] = wire[i - 1]
      BY <1>4, <2>2
    <3>3. i < Len(wire) => wire'[i + 1] = wire[i + 1] /\ i < Len(wire')
      BY <1>4, <2>2
    <3>4. wire'[i].is = "image" /\ wire'[i].of # Stranger =>
            IF i = 1 THEN pend' \in {None, wire'[i].of}
            ELSE wire'[i - 1].is = "text" /\ wire'[i - 1].of = wire'[i].of
      BY <1>1, <3>1, <3>2 DEF PairAt
    <3>5. wire'[i].of = Stranger =>
            device.stray /\ (IF i = 1 THEN pend' = None ELSE wire'[i - 1].is = "image")
      BY <1>1, <3>1, <3>2 DEF PairAt
    <3> QED
      BY <3>1, <3>3, <3>4, <3>5 DEF PairAt
  <2> QED
    BY <2>1, <2>2
<1>8. PairInv'
  BY <1>1, <1>7 DEF PairInv, PairAt
<1>9. wire' # <<>>
  <2>1. ASSUME wire' = <<>> PROVE Len(wire') = 0
    BY <2>1
  <2> QED
    BY <1>4, <2>1
<1> QED
  BY <1>0, <1>1, <1>8, <1>9 DEF RestInv

LEMMA StreamIsOwn == ASSUME Own, TextPart \/ ImagePart \/ FlushTimer PROVE PhotoInv'
<1> USE DEF world, stream, pollVars, store
<1>0. /\ TypeOK /\ WireInv /\ PairInv /\ RestInv /\ wire \in Seq(Part)
      /\ OwnPhotos(chain) /\ OwnPhotos(fetching) /\ PhotoIsOwn
      /\ device.stray => ~ device.bare /\ device.brand # "camera"
  BY DEF Own, Typed, TypeOK, PhotoInv
<1>1. UNCHANGED <<device, link, docs>>
  BY DEF TextPart, ImagePart, FlushTimer
<1>2. None \in Picture
  BY DEF Picture
<1>3. ASSUME UNCHANGED <<chain, fetching>> PROVE OwnPhotos(chain') /\ OwnPhotos(fetching')
  BY <1>0, <1>3
<1>4. wire # <<>> => 1 \in DOMAIN wire /\ Head(wire) = wire[1] /\ wire[1] \in Part
                     /\ PairAt(wire, pend, 1)
  BY <1>0, TailIs, PairsAre
<1>5. link # "open" => wire = <<>>
  BY <1>0 DEF RestInv
<1>6. OwnPhotos(chain') /\ OwnPhotos(fetching') /\ PairInv' /\ RestInv'
  <2>1. CASE TextPart
    <3>1. wire # <<>> /\ wire[1].is = "text" /\ wire' = Tail(wire) /\ pend' = wire[1].of
      BY <1>4, <2>1 DEF TextPart, Arrives
    <3>2. PairInv' /\ (device.stray => wire' # <<>>)
      BY <1>1, <3>1, TailIsPaired
    <3>3. OwnPhotos(chain') /\ OwnPhotos(fetching')
      <4>1. CASE pend # None /\ Flush(pend, None)
        BY <1>2, <4>1, FlushIsOwn
      <4>2. CASE UNCHANGED <<chain, fetching>>
        BY <1>3, <4>2
      <4> QED
        BY <2>1, <4>1, <4>2 DEF TextPart
    <3>4. RestInv'
      BY <1>1, <1>5, <3>1, <3>2 DEF RestInv
    <3> QED
      BY <3>2, <3>3, <3>4
  <2>2. CASE ImagePart
    <3>1. wire # <<>> /\ wire[1].is = "image" /\ wire' = Tail(wire) /\ pend' = None
      BY <1>4, <2>2 DEF ImagePart, Arrives
    <3>2. PairInv'
      BY <1>1, <3>1, TailIsPaired
    <3>3. OwnPhotos(chain') /\ OwnPhotos(fetching')
      <4>1. CASE pend # None /\ Flush(pend, wire[1].of)
        <5>1. wire[1].of \in Picture
          BY <1>4, <3>1 DEF Part, Picture
        <5>2. wire[1].of = pend
          BY <1>4, <3>1, <4>1 DEF PairAt
        <5> QED
          BY <4>1, <5>1, <5>2, FlushIsOwn
      <4>2. CASE UNCHANGED <<chain, fetching>>
        BY <1>3, <4>2
      <4> QED
        BY <1>4, <2>2, <3>1, <4>1, <4>2 DEF ImagePart
    <3>4. RestInv'
      BY <1>1, <1>5, <3>1 DEF RestInv
    <3> QED
      BY <3>2, <3>3, <3>4
  <2>3. CASE FlushTimer
    <3>1. pend # None /\ Flush(pend, None) /\ pend' = None /\ wire' = wire
      BY <2>3 DEF FlushTimer
    <3>2. OwnPhotos(chain') /\ OwnPhotos(fetching')
      BY <1>2, <3>1, FlushIsOwn
    <3>3. PairInv' /\ RestInv'
      BY <1>0, <1>1, <3>1 DEF PairInv, RestInv
    <3> QED
      BY <3>2, <3>3
  <2> QED
    BY <2>1, <2>2, <2>3
<1>7. PhotoIsOwn'
  BY <1>0, <1>1 DEF PhotoIsOwn
<1> QED
  BY <1>0, <1>1, <1>6, <1>7 DEF PhotoInv, OwnPhotos

LEMMA LinkIsOwn ==
  ASSUME Own, StreamEnds \/ Subscribes \/ FallsBackToPoll \/ TearsDown PROVE PhotoInv'
<1> USE DEF world, stream, pollVars, store
<1>0. /\ TypeOK /\ PairInv /\ RestInv /\ wire \in Seq(Part)
      /\ OwnPhotos(chain) /\ OwnPhotos(fetching) /\ PhotoIsOwn /\ device \in Device
      /\ device.stray => ~ device.bare /\ device.brand # "camera"
  BY AccessLogAssumption DEF Own, Typed, TypeOK, PhotoInv
<1>1. UNCHANGED <<device, chain, fetching, docs>>
  BY DEF StreamEnds, Subscribes, FallsBackToPoll, TearsDown
<1>2. wire' = <<>>
  BY <1>0 DEF StreamEnds, Subscribes, FallsBackToPoll, TearsDown, RestInv
<1>3. PairInv'
  <2>1. DOMAIN <<>> = {}
    BY EmptySeq
  <2> QED
    BY <1>2, <2>1 DEF PairInv
<1>4. device.brand \in {"intelbras", "hikvision", "camera"}
  BY <1>0 DEF Device
<1>5. RestInv'
  <2>1. CASE StreamEnds
    BY <1>1, <1>2, <2>1 DEF StreamEnds, AtStreamEnd, Brand, RestInv
  <2>2. CASE Subscribes
    BY <1>0, <1>1, <1>2, <1>4, <2>2 DEF Subscribes, Brand, RestInv
  <2>3. CASE FallsBackToPoll
    BY <1>0, <1>1, <1>2, <2>3 DEF FallsBackToPoll, RestInv
  <2>4. CASE TearsDown
    BY <1>1, <1>2, <2>4 DEF TearsDown, Brand, RestInv
  <2> QED
    BY <2>1, <2>2, <2>3, <2>4
<1> QED
  BY <1>0, <1>1, <1>3, <1>5 DEF PhotoInv, OwnPhotos, PhotoIsOwn

LEMMA OwnStep == ASSUME Own, [Next]_vars PROVE Own'
<1> USE DEF world, stream, pollVars, store
<1>0. /\ Typed /\ TypeOK /\ PairInv /\ RestInv /\ chain \in Seq(Call) /\ fetching \in Seq(Fetch)
      /\ OwnPhotos(chain) /\ OwnPhotos(fetching) /\ PhotoIsOwn
      /\ device.stray => ~ device.bare /\ device.brand # "camera"
  BY DEF Own, Typed, TypeOK, PhotoInv
<1>1. Typed'
  BY <1>0, TypeStep
<1>2. None \in Picture
  BY DEF Picture
<1>3. ASSUME UNCHANGED <<world, stream, docs>>, OwnPhotos(chain'), OwnPhotos(fetching')
      PROVE  PhotoInv'
  BY <1>0, <1>3 DEF PhotoInv, PairInv, RestInv, PhotoIsOwn, OwnPhotos
<1>4. ASSUME UNCHANGED <<world, stream, fetching>>, OwnPhotos(chain'), PhotoIsOwn'
      PROVE  PhotoInv'
  BY <1>0, <1>4 DEF PhotoInv, PairInv, RestInv, OwnPhotos
<1>5. PhotoInv'
  <2>1. CASE Happens \/ Strays
    <3>1. UNCHANGED <<device, chain, fetching, docs>>
      BY <2>1 DEF Happens, Strays
    <3>2. PairInv' /\ RestInv'
      BY <2>1, HappensIsPaired, StraysIsPaired
    <3> QED
      BY <1>0, <3>1, <3>2 DEF PhotoInv, OwnPhotos, PhotoIsOwn
  <2>2. CASE TimePasses \/ DoorEvents \/ UNCHANGED vars
    <3>1. UNCHANGED <<device, wire, link, pend, fetching, chain, docs>>
      BY <2>2 DEF TimePasses, DoorEvents, vars
    <3> QED
      BY <1>0, <3>1 DEF PhotoInv, PairInv, RestInv, PhotoIsOwn, OwnPhotos
  <2>3. CASE TextPart \/ ImagePart \/ FlushTimer
    BY <2>3, StreamIsOwn
  <2>4. CASE StreamEnds \/ Subscribes \/ FallsBackToPoll \/ TearsDown
    BY <2>4, LinkIsOwn
  <2>5. CASE \E p \in Poll : \/ PollAsks(p) \/ PollAnswered(p) \/ PollFails(p)
                             \/ PollHandles(p) \/ PollEnds(p)
    <3>1. UNCHANGED <<world, stream, chain, docs>>
      BY <2>5 DEF PollAsks, PollAnswered, PollFails, PollHandles, PollEnds
    <3>2. CASE UNCHANGED fetching
      BY <1>0, <1>3, <3>1, <3>2
    <3>3. CASE \E p \in Poll, a \in Access : a \in polls[p].todo /\ Handle(a, None, p)
      <4>1. PICK p \in Poll, a \in Access : a \in polls[p].todo /\ Handle(a, None, p)
        BY <3>3
      <4>2. a \in 1 .. happened
        BY <1>0, <4>1 DEF Typed, PollInv, PollIsSound
      <4>3. OwnPhotos(fetching')
        BY <1>2, <4>1, <4>2, HandleIsOwn
      <4> QED
        BY <1>0, <1>3, <3>1, <4>3
    <3>4. \A p \in Poll : polls[p].todo \subseteq Access
      BY <1>0 DEF TypeOK
    <3> QED
      BY ZenonT(30), <2>5, <3>2, <3>3, <3>4
         DEF PollAsks, PollAnswered, PollFails, PollHandles, PollEnds
  <2>6. CASE Fetched
    <3>1. PICK i \in DOMAIN fetching, photo \in Picture :
            /\ photo \in (IF fetching[i].photo = None THEN {fetching[i].of, Live, None}
                          ELSE {fetching[i].photo})
            /\ fetching' = RemoveAt(fetching, i)
            /\ Record(fetching[i].of, photo, fetching[i].from)
            /\ UNCHANGED <<world, stream, docs>>
      BY <2>6 DEF Fetched
    <3>2. fetching[i].of \in Access /\ fetching[i].from \in Poll \cup {None}
      BY <1>0, CallsAre DEF Fetch
    <3>3. photo \in {fetching[i].of, Live, None}
      BY <1>0, <3>1 DEF OwnPhotos
    <3>4. OwnPhotos(chain')
      BY <3>1, <3>2, <3>3, RecordIsOwn
    <3>5. OwnPhotos(fetching')
      <4>1. fetching' \in Seq(Fetch) /\ Shrunk(fetching, fetching', i)
        BY <1>0, <3>1, RemoveShrinks
      <4> QED
        BY <1>0, <4>1, ShrunkIsOwn
    <3> QED
      BY <1>3, <3>1, <3>4, <3>5
  <2>7. CASE Pushed
    <3>1. PICK a \in 1 .. happened : \E photo \in {a, None} : Record(a, photo, None)
      BY <2>7 DEF Pushed
    <3>2. PICK photo \in {a, None} : Record(a, photo, None)
      BY <3>1
    <3>3. a \in Access /\ photo \in Picture
      BY <1>0, AccessLogAssumption DEF TypeOK, Access, Picture
    <3>4. UNCHANGED <<world, stream, fetching, docs>>
      BY <2>7 DEF Pushed
    <3>5. OwnPhotos(chain')
      BY <3>2, <3>3, RecordIsOwn
    <3> QED
      BY <1>0, <1>3, <3>4, <3>5
  <2>8. CASE Begins
    <3>1. PICK i \in DOMAIN chain :
            Leaves(i) \/ chain' = [chain EXCEPT ![i].pc = "writing"]
      BY <2>8 DEF Begins
    <3>2. UNCHANGED <<world, stream, fetching, docs>>
      BY <2>8 DEF Begins
    <3>3. OwnPhotos(chain')
      <4>1. CASE Leaves(i)
        BY <4>1, LeavesIsOwn
      <4>2. CASE chain' = [chain EXCEPT ![i].pc = "writing"]
        <5>1. /\ DOMAIN chain' = DOMAIN chain
              /\ \A j \in DOMAIN chain : /\ chain'[j].of = chain[j].of
                                         /\ chain'[j].photo = chain[j].photo
          BY <1>0, <4>2, StartsIsTyped
        <5> QED
          BY <1>0, <5>1 DEF OwnPhotos
      <4> QED
        BY <3>1, <4>1, <4>2
    <3> QED
      BY <1>0, <1>3, <3>2, <3>3
  <2>9. CASE Writes
    <3>1. PICK i \in DOMAIN chain, photo \in Picture :
            /\ photo \in {chain[i].photo} \cup (IF Brand = "camera" THEN {} ELSE {None})
            /\ docs' = [docs EXCEPT ![chain[i].of] = photo]
            /\ Leaves(i)
      BY <2>9 DEF Writes
    <3>2. UNCHANGED <<world, stream, fetching>>
      BY <2>9 DEF Writes
    <3>3. OwnPhotos(chain')
      BY <3>1, LeavesIsOwn
    <3>4. photo \in {chain[i].of, Live, None} /\ docs \in [Access -> Picture \cup {Missing}]
      BY <1>0, <3>1 DEF OwnPhotos, TypeOK
    <3>5. PhotoIsOwn'
      BY <1>0, <3>1, <3>4 DEF PhotoIsOwn
    <3> QED
      BY <1>4, <3>2, <3>3, <3>5
  <2>10. CASE Drops
    <3>1. PICK i \in DOMAIN chain : Leaves(i)
      BY <2>10 DEF Drops
    <3>2. UNCHANGED <<world, stream, fetching, docs>>
      BY <2>10 DEF Drops
    <3>3. OwnPhotos(chain')
      BY <3>1, LeavesIsOwn
    <3> QED
      BY <1>0, <1>3, <3>2, <3>3
  <2>11. CASE Restarts
    <3>1. /\ chain' = <<>> /\ fetching' = <<>> /\ wire' = <<>> /\ pend' = None /\ link' = "down"
          /\ UNCHANGED <<device, docs>> /\ DOMAIN <<>> = {}
      BY <2>11, EmptySeq DEF Restarts
    <3>2. PairInv' /\ RestInv' /\ OwnPhotos(chain') /\ OwnPhotos(fetching')
      BY <3>1 DEF PairInv, RestInv, OwnPhotos
    <3> QED
      BY <1>0, <3>1, <3>2 DEF PhotoInv, PhotoIsOwn, OwnPhotos
  <2> QED
    BY <2>1, <2>2, <2>3, <2>4, <2>5, <2>6, <2>7, <2>8, <2>9, <2>10, <2>11 DEF Next
<1> QED
  BY <1>1, <1>5 DEF Own

(* The devices that send pictures without an access send every access with *)
(* its picture, and are readers.                                           *)
StraysAreKept == \A d \in Devices : d.stray => ~ d.bare /\ d.brand # "camera"

(* A document never shows the picture of another access: the stream pairs  *)
(* an access with the picture behind it, wherever it breaks off, however   *)
(* the access comes a second time.                                         *)
THEOREM PicturesAreOwn == ASSUME StraysAreKept PROVE Spec => []PhotoIsOwn
<1>1. Init => Own
  <2> SUFFICES ASSUME Init PROVE Own
    OBVIOUS
  <2>1. /\ wire = <<>> /\ chain = <<>> /\ fetching = <<>> /\ pend = None
        /\ docs = [a \in Access |-> Missing] /\ device \in Devices /\ DOMAIN <<>> = {}
    BY EmptySeq DEF Init
  <2> QED
    BY <2>1, TypeInit, StraysAreKept DEF Own, PhotoInv, PairInv, RestInv, OwnPhotos, PhotoIsOwn,
                                         StraysAreKept
<1>2. Own /\ [Next]_vars => Own'
  BY OwnStep
<1>3. Own => PhotoIsOwn
  BY DEF Own, PhotoInv
<1> QED
  BY <1>1, <1>2, <1>3, PTL DEF Spec
=============================================================================
