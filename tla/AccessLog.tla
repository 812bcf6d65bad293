------------------------------ MODULE AccessLog ------------------------------
(***************************************************************************)
(* How the accesses at one device become documents: FaceListenerService    *)
(* and AccessesService for a reader, LprListenerService and                *)
(* LprAccessesService for a camera.  A stream sends an access as a part    *)
(* with its data and a part with its picture, which have to be paired; a   *)
(* Hikvision reader whose stream fails is polled; readers also push, again *)
(* if nobody answered.  Copies of one access therefore meet: it has to be  *)
(* recorded, told once, and with no other person's picture.                *)
(*                                                                         *)
(* Accesses are numbered as they happen; the number stands for the serial  *)
(* number of the device and for the key (correlationId, EventID) that all  *)
(* copies of the access share.                                             *)
(***************************************************************************)
EXTENDS Naturals, Sequences, SequencesExt

CONSTANTS
  Devices,        \* the devices an instance may have: subset of Device
  MaxAccesses,    \* bound: accesses that happen
  MaxResults,     \* maxResults of hikvisionSearchAcsEvents()
  MaxPolls,       \* bound: polls in flight
  MaxEdits,       \* bound: copies, strays, faults and interventions
  None,           \* no picture, no access
  Live,           \* a picture the camera of the reader takes when asked
  Missing         \* no document

(* bare: it sends some accesses without a picture.  stray: it sends        *)
(* pictures of events the service has no use for.                          *)
Device == [brand : {"intelbras", "hikvision", "camera"}, bare : BOOLEAN, stray : BOOLEAN]

ASSUME AccessLogAssumption ==
  /\ Devices \subseteq Device
  /\ MaxAccesses \in Nat /\ MaxResults \in Nat \ {0} /\ MaxPolls \in Nat /\ MaxEdits \in Nat
  /\ None \notin Nat /\ Live \notin Nat /\ Missing \notin Nat \cup {None, Live}

VARIABLES
  device,
  happened,   \* how many accesses there were
  old,        \* those up to this one are older than STALE_EVENT_MS
  beyond,     \* those up to this one are in the answer of no search any more
  wire,       \* parts of the stream on their way
  link,       \* what is listened to: the open stream, the poll, or nothing
  pend,       \* pendingByReader, hikvisionPendingByReader, snapPendingByCamera
  done,       \* processedHikvisionEventKeys
  polls,      \* polls in flight
  busy,       \* hikvisionPollInFlight
  cursor,     \* hikvisionLastSerialByReader
  fetching,   \* resolveHikvisionAccessPhoto() in flight
  chain,      \* persistChains: calls of recordSnapManagerAccess() in flight
  seen,       \* persistedEventKeys
  docs,       \* the picture of the document of each access
  told,       \* history: how often this process has told of each access
  lost,       \* history: accesses whose last copy fell victim to a fault
  edits

stream   == <<wire, link, pend>>
pollVars == <<polls, busy, cursor>>
store    == <<seen, docs, told, lost>>
world    == <<device, happened, old, beyond>>
vars == <<world, stream, done, pollVars, fetching, chain, store, edits>>

Access   == 1 .. MaxAccesses
Poll     == 1 .. MaxPolls
Stranger == 0
Picture  == Access \cup {Stranger, Live, None}
Brand    == device.brand
Part     == [is : {"text", "image"}, of : Access \cup {Stranger}]
Fetch    == [of : Access, photo : Picture, from : Poll \cup {None}]
Call     == [of : Access, photo : Picture, from : Poll \cup {None}, pc : {"queued", "writing"}]

IdlePoll == [pc |-> "idle", last |-> None, todo |-> {}, max |-> None]

TypeOK ==
  /\ device \in Devices
  /\ happened \in 0 .. MaxAccesses /\ old \in 0 .. happened /\ beyond \in 0 .. happened
  /\ wire \in Seq(Part) /\ link \in {"open", "poll", "down"}
  /\ pend \in Access \cup {None}
  /\ done \subseteq 1 .. happened
  /\ polls \in [Poll -> [pc : {"idle", "asked", "handling", "awaiting"},
                         last : Access \cup {None}, todo : SUBSET Access,
                         max : Access \cup {None}]]
  /\ busy \in BOOLEAN /\ cursor \in 1 .. happened \cup {None}
  /\ fetching \in Seq(Fetch) /\ chain \in Seq(Call)
  /\ seen \subseteq {a \in Access : docs[a] # Missing}
  /\ docs \in [Access -> Picture \cup {Missing}]
  /\ told \in [Access -> Nat] /\ lost \subseteq Access
  /\ edits \in 0 .. MaxEdits

Init ==
  /\ device \in Devices
  /\ happened = 0 /\ old = 0 /\ beyond = 0
  /\ wire = <<>> /\ link = "down" /\ pend = None
  /\ done = {} /\ polls = [p \in Poll |-> IdlePoll] /\ busy = FALSE /\ cursor = None
  /\ fetching = <<>> /\ chain = <<>> /\ seen = {}
  /\ docs = [a \in Access |-> Missing] /\ told = [a \in Access |-> 0] /\ lost = {}
  /\ edits = 0

Edit == edits < MaxEdits /\ edits' = edits + 1

-----------------------------------------------------------------------------
(* The device.                                                             *)

Parts(a) ==
  {<<[is |-> "text", of |-> a], [is |-> "image", of |-> a]>>}
    \cup (IF device.bare THEN {<<[is |-> "text", of |-> a]>>} ELSE {})

(* An Intelbras reader sends Start and Pulse of one access.                *)
Sent(a) ==
  Parts(a) \cup (IF Brand = "intelbras"
                 THEN {p \o q : p \in Parts(a), q \in Parts(a)} ELSE {})

Happens ==
  /\ happened < MaxAccesses
  /\ happened' = happened + 1
  /\ IF link = "open" THEN \E s \in Sent(happened') : wire' = wire \o s ELSE wire' = wire
  /\ UNCHANGED <<device, old, beyond, link, pend, done, pollVars, fetching, chain, store, edits>>

Strays ==
  /\ Edit /\ device.stray /\ link = "open"
  /\ wire' = Append(wire, [is |-> "image", of |-> Stranger])
  /\ UNCHANGED <<world, link, pend, done, pollVars, fetching, chain, store>>

(* Five minutes go by: STALE_EVENT_MS, HIKVISION_EVENT_DEDUP_MS.  What was *)
(* old before is older now than the lookbackMs of the poll, ten minutes.   *)
TimePasses ==
  /\ Edit /\ old' = happened /\ done' = {}
  /\ beyond' = IF Brand = "hikvision" /\ old > beyond THEN old ELSE beyond
  /\ UNCHANGED <<device, happened, stream, pollVars, fetching, chain, store>>

(* The search counts every event of major 5 (doors, exit buttons, tampers) *)
(* among its maxResults; what is no access is dropped afterwards.  Only a   *)
(* search that is asked for tells whether there were any.                  *)
DoorEvents ==
  /\ Edit /\ \E p \in Poll : polls[p].pc = "asked"
  /\ beyond' \in beyond + 1 .. happened
  /\ UNCHANGED <<device, happened, old, stream, done, pollVars, fetching, chain, store>>

-----------------------------------------------------------------------------
(* The stream.                                                             *)

(* recordSnapManagerAccess(), recordLprReading(): the call goes to the end *)
(* of the chain of the device.                                             *)
Record(a, photo, p) ==
  /\ chain' = Append(chain, [of |-> a, photo |-> photo, from |-> p, pc |-> "queued"])
  /\ lost' = lost \ {a}

(* handleHikvisionAccessEvent(), up to its first await.                    *)
Handle(a, photo, p) ==
  /\ a \notin done
  /\ done' = done \cup {a}
  /\ fetching' = Append(fetching, [of |-> a, photo |-> photo, from |-> p])

Flush(a, photo) ==
  IF Brand = "hikvision"
  THEN /\ Handle(a, photo, None) \/ (a \in done /\ UNCHANGED <<done, fetching>>)
       /\ UNCHANGED <<chain, lost>>
  ELSE Record(a, photo, None) /\ UNCHANGED <<done, fetching>>

Arrives(kind) ==
  /\ wire # <<>> /\ Head(wire).is = kind
  /\ wire' = Tail(wire)

(* The data of an access waits for its picture.  A Hikvision access that   *)
(* still waits goes without one; the others are given up.                  *)
TextPart ==
  /\ Arrives("text")
  /\ pend' = Head(wire).of
  /\ IF Brand = "hikvision" /\ pend # None
     THEN Flush(pend, None) ELSE UNCHANGED <<done, fetching, chain, lost>>
  /\ UNCHANGED <<world, link, pollVars, seen, docs, told, edits>>

ImagePart ==
  /\ Arrives("image")
  /\ pend' = None
  /\ IF pend # None
     THEN Flush(pend, Head(wire).of) ELSE UNCHANGED <<done, fetching, chain, lost>>
  /\ UNCHANGED <<world, link, pollVars, seen, docs, told, edits>>

(* The timer of 800 ms.                                                    *)
FlushTimer ==
  /\ Brand = "hikvision" /\ pend # None
  /\ Flush(pend, None) /\ pend' = None
  /\ UNCHANGED <<world, wire, link, pollVars, seen, docs, told, edits>>

\* Mutant: the end of the stream leaves the access that waits for its picture.
AtStreamEndKept == pend

(* What of a half received access survives the end of its stream.  A       *)
(* Hikvision reader's is given up by the next subscription.                *)
AtStreamEnd == IF Brand = "intelbras" THEN None ELSE pend

StreamEnds ==
  /\ Edit /\ link = "open"
  /\ link' = "down" /\ wire' = <<>> /\ pend' = AtStreamEnd
  /\ UNCHANGED <<world, done, pollVars, fetching, chain, store>>

Subscribes ==
  /\ link = "down" /\ link' = "open"
  /\ pend' = IF Brand = "hikvision" THEN None ELSE pend
  /\ UNCHANGED <<world, wire, done, pollVars, fetching, chain, store, edits>>

FallsBackToPoll ==
  /\ Brand = "hikvision" /\ link = "down"
  /\ link' = "poll" /\ pend' = None
  /\ UNCHANGED <<world, wire, done, pollVars, fetching, chain, store, edits>>

(* The poll in flight goes on, but frees the next one.                     *)
TearsDown ==
  /\ Edit /\ link # "down"
  /\ link' = "down" /\ wire' = <<>>
  /\ pend' = IF Brand = "camera" THEN pend ELSE None
  /\ cursor' = None /\ busy' = FALSE
  /\ UNCHANGED <<world, done, polls, fetching, chain, store>>

-----------------------------------------------------------------------------
(* The poll.                                                               *)

PollAsks(p) ==
  /\ link = "poll" /\ ~ busy
  /\ \A q \in 1 .. p : (q = p) = (polls[q].pc = "idle")    \* the first free name
  /\ busy' = TRUE
  /\ polls' = [polls EXCEPT ![p].pc = "asked", ![p].last = cursor]
  /\ UNCHANGED <<world, stream, done, cursor, fetching, chain, store, edits>>

Ends(p) ==
  /\ busy' = FALSE
  /\ polls' = [polls EXCEPT ![p] = IdlePoll]

(* hikvisionSearchAcsEvents(): the newest accesses, as far as they are not *)
(* past the window of the search nor crowded out by other events.          *)
Newest == {a \in 1 .. happened : a > beyond /\ happened - a < MaxResults}

(* The first answer only places the cursor.                                *)
PollAnswered(p) ==
  /\ polls[p].pc = "asked"
  /\ IF Newest = {} THEN Ends(p) /\ UNCHANGED cursor
     ELSE IF polls[p].last = None THEN Ends(p) /\ cursor' = happened
     ELSE /\ polls' = [polls EXCEPT ![p].pc = "handling", ![p].max = polls[p].last,
                         ![p].todo = {a \in Newest : a > polls[p].last}]
          /\ UNCHANGED <<busy, cursor>>
  /\ UNCHANGED <<world, stream, done, fetching, chain, store, edits>>

PollFails(p) ==
  /\ polls[p].pc = "asked" /\ Ends(p)
  /\ UNCHANGED <<world, stream, done, cursor, fetching, chain, store, edits>>

(* One access after the other, each awaited.                               *)
PollHandles(p) ==
  /\ polls[p].pc = "handling"
  /\ \E a \in polls[p].todo :
       /\ \A b \in polls[p].todo : a <= b
       /\ \/ /\ Handle(a, None, p)
             /\ polls' = [polls EXCEPT ![p].todo = @ \ {a}, ![p].max = a, ![p].pc = "awaiting"]
          \/ /\ a \in done
             /\ polls' = [polls EXCEPT ![p].todo = @ \ {a}, ![p].max = a]
             /\ UNCHANGED <<done, fetching>>
  /\ UNCHANGED <<world, stream, busy, cursor, chain, store, edits>>

\* Mutant: the cursor moves to what the reader has by now.
PollEndsAtNewest(p) ==
  /\ polls[p].pc = "handling" /\ polls[p].todo = {}
  /\ cursor' = happened
  /\ Ends(p)
  /\ UNCHANGED <<world, stream, done, fetching, chain, store, edits>>

PollEnds(p) ==
  /\ polls[p].pc = "handling" /\ polls[p].todo = {}
  /\ cursor' = IF polls[p].max > polls[p].last THEN polls[p].max ELSE cursor
  /\ Ends(p)
  /\ UNCHANGED <<world, stream, done, fetching, chain, store, edits>>

-----------------------------------------------------------------------------
(* Recording.                                                              *)

(* A copy with no picture fetches the one the event points to, or asks the *)
(* camera of the reader.                                                   *)
Fetched ==
  \E i \in DOMAIN fetching, photo \in Picture :
    LET c == fetching[i] IN
    /\ photo \in (IF c.photo = None THEN {c.of, Live, None} ELSE {c.photo})
    /\ fetching' = RemoveAt(fetching, i)
    /\ Record(c.of, photo, c.from)
    /\ UNCHANGED <<world, stream, done, pollVars, seen, docs, told, edits>>

(* A reader pushes an access, perhaps one it has sent before.              *)
Pushed ==
  /\ Edit /\ Brand # "camera"
  /\ \E a \in 1 .. happened : \E photo \in {a, None} : Record(a, photo, None)
  /\ UNCHANGED <<world, stream, done, pollVars, fetching, seen, docs, told>>

\* Mutant: calls do not wait for the one before them.
IsTurnAlways(i) == TRUE

(* The chain: a call begins when the one before it has returned.           *)
IsTurn(i) == i = 1

(* Call i returns, and with it the handler that awaits it.                 *)
Leaves(i) ==
  /\ chain' = RemoveAt(chain, i)
  /\ polls' = IF chain[i].from = None THEN polls
              ELSE [polls EXCEPT ![chain[i].from].pc = "handling"]

\* Mutant: the key is taken for known before the document is written.
BeginsKnown ==
  \E i \in DOMAIN chain :
    /\ chain[i].pc = "queued" /\ IsTurn(i)
    /\ IF chain[i].of \in seen THEN Leaves(i) /\ seen' = seen
       ELSE chain' = [chain EXCEPT ![i].pc = "writing"] /\ UNCHANGED polls
            /\ seen' = seen \cup {chain[i].of}
    /\ UNCHANGED <<world, stream, done, busy, cursor, fetching, docs, told, lost, edits>>

(* persistSnapManagerAccessOnce(), persistLprReadingOnce(): the look at    *)
(* persistedEventKeys before the first await.                              *)
Begins ==
  \E i \in DOMAIN chain :
    /\ chain[i].pc = "queued" /\ IsTurn(i)
    /\ IF chain[i].of \in seen THEN Leaves(i)
       ELSE chain' = [chain EXCEPT ![i].pc = "writing"] /\ UNCHANGED polls
    /\ UNCHANGED <<world, stream, done, busy, cursor, fetching, store, edits>>

(* The upload may fail: a reader's access is recorded without the picture, *)
(* a camera's is not recorded.  Old accesses are recorded without telling. *)
Writes ==
  \E i \in DOMAIN chain, photo \in Picture :
    LET a == chain[i].of IN
    /\ chain[i].pc = "writing"
    /\ photo \in {chain[i].photo} \cup (IF Brand = "camera" THEN {} ELSE {None})
    /\ docs' = [docs EXCEPT ![a] = photo]
    /\ seen' = seen \cup {a}
    /\ told' = IF a <= old /\ Brand # "camera" THEN told ELSE [told EXCEPT ![a] = @ + 1]
    /\ Leaves(i)
    /\ UNCHANGED <<world, stream, done, busy, cursor, fetching, lost, edits>>

Among(calls, a) == \E i \in DOMAIN calls : calls[i].of = a
Handed(a) == Among(chain, a) \/ Among(fetching, a)

(* Mongo fails; or nobody can say who the refused person is; or a camera's *)
(* picture cannot be uploaded.  The chain goes on with the next call.      *)
Drops ==
  /\ Edit
  /\ \E i \in DOMAIN chain :
       /\ chain[i].pc = "writing"
       /\ Leaves(i)
       /\ lost' = lost \cup ({chain[i].of} \ {a \in Access : Among(chain', a) \/ Among(fetching, a)})
  /\ UNCHANGED <<world, stream, done, busy, cursor, fetching, seen, docs, told>>

(* The process dies and another one takes its place.                       *)
Restarts ==
  /\ Edit
  /\ lost' = lost \cup {a \in Access : Handed(a)}
  /\ wire' = <<>> /\ link' = "down" /\ pend' = None
  /\ done' = {} /\ polls' = [p \in Poll |-> IdlePoll] /\ busy' = FALSE /\ cursor' = None
  /\ fetching' = <<>> /\ chain' = <<>> /\ seen' = {}
  /\ told' = [a \in Access |-> 0]
  /\ UNCHANGED <<world, docs>>

-----------------------------------------------------------------------------
Next ==
  \/ Happens \/ Strays \/ TimePasses \/ DoorEvents
  \/ TextPart \/ ImagePart \/ FlushTimer
  \/ StreamEnds \/ Subscribes \/ FallsBackToPoll \/ TearsDown
  \/ \E p \in Poll : \/ PollAsks(p) \/ PollAnswered(p) \/ PollFails(p)
                     \/ PollHandles(p) \/ PollEnds(p)
  \/ Fetched \/ Pushed \/ Begins \/ Writes \/ Drops \/ Restarts

Spec == Init /\ [][Next]_vars

(* Calls go on; the interval of the poll fires, and of the polls of a      *)
(* reader that is there one is answered.                                   *)
Fairness ==
  /\ WF_vars(Fetched \/ Begins \/ Writes)
  /\ \A p \in Poll : SF_vars(PollAnswered(p)) /\ WF_vars(PollHandles(p) \/ PollEnds(p))
  /\ WF_vars(\E p \in Poll : PollAsks(p))

FairSpec == Spec /\ Fairness

-----------------------------------------------------------------------------
(* Properties.                                                             *)

(* However often an access is sent, by stream, poll and push, a process    *)
(* tells of it (arrivals, presence, alerts) at most once.                  *)
ToldOnce == \A a \in Access : told[a] <= 1

(* The picture of a document shows its own access, or whom the camera of   *)
(* the reader saw when asked for it; never that of another event.          *)
PhotoIsOwn == \A a \in Access : docs[a] \in {Missing, None, Live, a}

(* No poll in flight was asked before a teardown: busy says who is.        *)
NoLeftover == Cardinality({p \in Poll : polls[p].pc # "idle"}) = IF busy THEN 1 ELSE 0

(* An access that the poll is about to find: it came after the cursor, and *)
(* neither ten minutes nor so many events that the answer leaves it out    *)
(* have passed since.                                                      *)
Due(a) ==
  /\ link = "poll" /\ NoLeftover /\ cursor # None
  /\ a \in Newest /\ cursor < a

(* An access that was handed over, or is about to be found, is recorded,   *)
(* unless a fault hits the last copy of it or, while the polls fail, the   *)
(* search stops giving it; in particular a copy that comes after a failure *)
(* is not taken for a repetition, and the cursor passes no access that was *)
(* not handled.                                                            *)
AccessIsRecorded ==
  \A a \in Access :
    /\ Handed(a) ~> docs[a] # Missing \/ (a \in lost /\ ~ Handed(a))
    /\ Due(a) ~> \/ docs[a] # Missing \/ a \in lost \/ a \notin Newest
                 \/ link # "poll" \/ ~ NoLeftover

=============================================================================
