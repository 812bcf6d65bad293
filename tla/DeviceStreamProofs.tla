------------------------- MODULE DeviceStreamProofs -------------------------
(***************************************************************************)
(* Proofs about DeviceStream, for any addresses, calls, thresholds and     *)
(* edits: types, that no stream is given up without being aborted, that an *)
(* outage is marked, as long as passwords can be deciphered that no reader *)
(* is left alone, and under two more conditions that the status shows what *)
(* is used.                                                                *)
(***************************************************************************)
EXTENDS DeviceStream, TLAPS

(* What is open can be aborted.                                            *)
AbortInv == NoLeak /\ (conn.st \in {"opening", "open"} => abortable)

(* Nobody is told of the outage of a camera.                               *)
MarkInv == OutageIsMarked /\ (brand = "camera" => ~ wasUp /\ ~ alarm /\ ~ notified)

(* Passwords that cannot be deciphered are not met.                        *)
SoundInv ==
  "credential" \notin Faults =>
    row.state # "bad" /\ \A c \in Call : call[c] # None => call[c].state # "bad"

TendInv == SoundInv /\ ("credential" \notin Faults => Tended)

(* The types, by what changes together.                                    *)
ConnTyped ==
  /\ conn \in [st : {"none", "ended"} \cup Trying, host : Host \cup {None}]
  /\ stale \subseteq {"aborted", "leaked"}
  /\ abortable \in BOOLEAN

PollTyped ==
  /\ polling \in BOOLEAN /\ fails \in 0 .. Threshold /\ pollFails \in 0 .. Threshold
  /\ busy \in BOOLEAN /\ polls \in 0 .. MaxPolls /\ answered \in 0 .. polls

StatusTyped ==
  /\ status \in {None} \cup Status
  /\ alarm \in BOOLEAN /\ notified \in BOOLEAN /\ wasUp \in BOOLEAN

TimerTyped ==
  /\ timer \in BOOLEAN
  /\ call \in [Call -> Row \cup {None}]
  /\ refresh \in Row \cup {None}
  /\ stagger \in Host \cup {None}

WorldTyped ==
  /\ brand \in Brand /\ row \in Row /\ up \in BOOLEAN /\ booted \in BOOLEAN
  /\ edits \in 0 .. MaxEdits

(* Polls come, are answered and go.                                        *)
LEMMA PollCount ==
  ASSUME NEW n \in 0 .. MaxPolls, NEW a \in 0 .. n
  PROVE  /\ a > 0 => n - 1 \in 0 .. MaxPolls /\ a - 1 \in 0 .. n - 1
         /\ a < n => a + 1 \in 0 .. n /\ n - 1 \in 0 .. MaxPolls /\ a \in 0 .. n - 1
BY DeviceStreamAssumption

LEMMA Types == TypeOK <=> ConnTyped /\ PollTyped /\ StatusTyped /\ TimerTyped /\ WorldTyped
BY DEF TypeOK, ConnTyped, PollTyped, StatusTyped, TimerTyped, WorldTyped

(* What the service keeps of the reader and of the connection.             *)
Kept == ConnTyped /\ PollTyped /\ StatusTyped /\ MarkInv /\ AbortInv

Inv == TypeOK /\ MarkInv /\ AbortInv /\ TendInv

-----------------------------------------------------------------------------
(* Views.                                                                  *)

Views == [connected : BOOLEAN, alarm : BOOLEAN, notified : BOOLEAN, wasUp : BOOLEAN]

(* What a view must say to be shown.                                       *)
Fine(v) ==
  /\ IF v.connected THEN ~ v.alarm /\ ~ v.notified
                    ELSE v.wasUp => v.alarm \/ v.notified
  /\ brand = "camera" => ~ v.wasUp /\ ~ v.alarm /\ ~ v.notified

LEMMA ViewIs ==
  ASSUME StatusTyped, MarkInv
  PROVE  /\ View \in Views /\ (Tracked => Fine(View))
         /\ NewView \in Views /\ Fine(NewView)
<1>1. Tracked => status.connected \in BOOLEAN
  BY DEF StatusTyped, Status, Tracked
<1>2. View \in Views
  BY <1>1 DEF View, Views, StatusTyped
<1>3. /\ View.connected = (Tracked /\ status.connected) /\ View.alarm = alarm
      /\ View.notified = notified /\ View.wasUp = wasUp
  BY DEF View
<1>4. Tracked => Fine(View)
  BY <1>1, <1>3 DEF Fine, MarkInv, OutageIsMarked, StatusTyped
<1>5. /\ NewView \in Views /\ NewView.connected = FALSE /\ NewView.wasUp = FALSE
      /\ NewView.alarm = alarm /\ NewView.notified = notified
  BY <1>2, <1>3 DEF NewView, Views
<1>6. Fine(NewView)
  BY <1>5 DEF Fine, MarkInv
<1> QED
  BY <1>2, <1>4, <1>5, <1>6

LEMMA SeenIs ==
  ASSUME NEW v \in Views, NEW c \in BOOLEAN
  PROVE  Seen(v, c) \in Views /\ (Fine(v) => Fine(Seen(v, c)))
<1>1. CASE brand = "camera"
  <2>1. Seen(v, c) = [v EXCEPT !.connected = c]
    BY <1>1 DEF Seen, CameraSeen
  <2>2. /\ Seen(v, c) \in Views /\ Seen(v, c).connected = c /\ Seen(v, c).alarm = v.alarm
        /\ Seen(v, c).notified = v.notified /\ Seen(v, c).wasUp = v.wasUp
    BY <2>1 DEF Views
  <2> QED
    BY <1>1, <2>2 DEF Fine
<1>2. CASE brand # "camera" /\ c /\ ~ v.connected
  <2>1. Seen(v, c) = [connected |-> TRUE, alarm |-> FALSE, notified |-> FALSE, wasUp |-> TRUE]
    BY <1>2 DEF Seen
  <2>2. Seen(v, c) \in Views
    BY <2>1 DEF Views
  <2>3. /\ Seen(v, c).connected = TRUE /\ Seen(v, c).alarm = FALSE
        /\ Seen(v, c).notified = FALSE
    BY <2>1
  <2> QED
    BY <1>2, <2>2, <2>3 DEF Fine
<1>3. CASE brand # "camera" /\ ~ c /\ v.connected
  <2>1. Seen(v, c) = [v EXCEPT !.connected = FALSE, !.alarm = v.alarm \/ ~ v.notified]
    BY <1>3 DEF Seen
  <2>2. /\ Seen(v, c) \in Views /\ Seen(v, c).connected = FALSE
        /\ Seen(v, c).alarm = (v.alarm \/ ~ v.notified)
        /\ Seen(v, c).notified = v.notified /\ Seen(v, c).wasUp = v.wasUp
    BY <2>1 DEF Views
  <2> QED
    BY <1>3, <2>2 DEF Fine
<1>4. CASE brand # "camera" /\ ~ (c /\ ~ v.connected) /\ ~ (~ c /\ v.connected)
  <2>1. Seen(v, c) = v
    BY <1>4 DEF Seen
  <2> QED
    BY <2>1
<1> QED
  BY <1>1, <1>2, <1>3, <1>4

LEMMA ShowIs ==
  ASSUME StatusTyped, MarkInv, NEW h \in Host \cup {None}, NEW v \in Views,
         h # None => Fine(v), Show(h, v), UNCHANGED brand
  PROVE  /\ StatusTyped' /\ MarkInv'
         /\ Tracked' <=> (Tracked \/ h # None)
<1>1. CASE h # None
  <2>1. /\ status' = [host |-> h, connected |-> v.connected] /\ h \in Host
        /\ alarm' = v.alarm /\ notified' = v.notified /\ wasUp' = v.wasUp
    BY <1>1 DEF Show
  <2>2. v.connected \in BOOLEAN /\ v.alarm \in BOOLEAN /\ v.notified \in BOOLEAN
        /\ v.wasUp \in BOOLEAN
    BY DEF Views
  <2>3. status' \in Status /\ status'.connected = v.connected
    BY <2>1, <2>2 DEF Status
  <2>4. Tracked'
    BY <2>3, DeviceStreamAssumption DEF Tracked
  <2>5. StatusTyped'
    BY <2>1, <2>2, <2>3 DEF StatusTyped
  <2>6. MarkInv'
    BY <1>1, <2>1, <2>3, <2>4 DEF Fine, MarkInv, OutageIsMarked
  <2> QED
    BY <1>1, <2>4, <2>5, <2>6
<1>2. CASE h = None
  <2>1. UNCHANGED <<status, alarm, notified, wasUp>>
    BY <1>2 DEF Show, alarmVars
  <2> QED
    BY <1>2, <2>1 DEF StatusTyped, MarkInv, OutageIsMarked, Tracked
<1> QED
  BY <1>1, <1>2

-----------------------------------------------------------------------------
(* Connections.                                                            *)

LEMMA OutdateIs ==
  ASSUME ConnTyped, PollTyped, AbortInv, Outdate
  PROVE  /\ stale' \subseteq {"aborted", "leaked"} /\ NoLeak'
         /\ polls' \in 0 .. MaxPolls /\ answered' \in 0 .. polls'
BY DEF ConnTyped, PollTyped, AbortInv, Outdate, NoLeak

LEMMA SubscribeIs ==
  ASSUME Kept, NEW h \in Host, NEW shown \in Host \cup {None}, NEW v \in Views,
         shown # None => Fine(v), Subscribe(h, shown, v), UNCHANGED brand
  PROVE  Kept' /\ conn'.st \in Trying
<1>1. conn' = [st |-> IF polling THEN "poll" ELSE "opening", host |-> h]
      /\ abortable' = (~ polling) /\ polling \in BOOLEAN
  BY DEF Subscribe, Kept, PollTyped
<1>2. /\ stale' \subseteq {"aborted", "leaked"} /\ NoLeak'
      /\ polls' \in 0 .. MaxPolls /\ answered' \in 0 .. polls'
  BY OutdateIs DEF Subscribe, Kept
<1>3. ConnTyped' /\ AbortInv' /\ conn'.st \in Trying
  BY <1>1, <1>2 DEF ConnTyped, AbortInv, Trying
<1>4. PollTyped'
  BY <1>2, DeviceStreamAssumption DEF Kept, PollTyped, Subscribe
<1>5. PICK w \in {v, Seen(v, TRUE)} : Show(shown, w)
  BY DEF Subscribe
<1>6. w \in Views /\ (Fine(v) => Fine(w))
  BY <1>5, SeenIs
<1>7. StatusTyped' /\ MarkInv'
  BY <1>5, <1>6, ShowIs DEF Kept
<1> QED
  BY <1>3, <1>4, <1>7 DEF Kept

LEMMA TeardownIs ==
  ASSUME Kept, Teardown PROVE Kept' /\ ~ Tracked' /\ timer' = FALSE
<1>1. /\ stale' \subseteq {"aborted", "leaked"} /\ NoLeak'
      /\ polls' \in 0 .. MaxPolls /\ answered' \in 0 .. polls'
  BY OutdateIs DEF Teardown, Kept
<1>2. ConnTyped' /\ AbortInv'
  BY <1>1 DEF Teardown, NoConn, ConnTyped, AbortInv
<1>3. PollTyped'
  <2>1. 0 \in 0 .. Threshold
    BY DeviceStreamAssumption
  <2>2. polling' = FALSE /\ fails' = 0 /\ pollFails' = 0 /\ busy' = FALSE
    BY DEF Teardown
  <2> QED
    BY <1>1, <2>1, <2>2 DEF PollTyped
<1>4. StatusTyped' /\ MarkInv' /\ ~ Tracked'
  BY DEF Teardown, StatusTyped, MarkInv, OutageIsMarked, Tracked
<1> QED
  BY <1>2, <1>3, <1>4 DEF Kept, Teardown

LEMMA KeptStays ==
  ASSUME Kept, UNCHANGED <<brand, status, connVars, pollVars, alarmVars>>
  PROVE  Kept' /\ (Tracked' <=> Tracked)
BY DEF Kept, connVars, pollVars, alarmVars, ConnTyped, PollTyped, StatusTyped, MarkInv,
       AbortInv, NoLeak, OutageIsMarked, Tracked

-----------------------------------------------------------------------------
(* Steps of the service, one lemma for those that go alike.                *)

LEMMA InvIs ==
  Inv <=> Kept /\ TimerTyped /\ WorldTyped /\ TendInv
BY Types DEF Inv, Kept

LEMMA NextInvIs ==
  ASSUME Kept', TimerTyped', WorldTyped', TendInv'
  PROVE  Inv'
BY DEF Inv, Kept, TypeOK, ConnTyped, PollTyped, StatusTyped, TimerTyped, WorldTyped

(* Another connection is tried.                                            *)
LEMMA BootStep == ASSUME Inv, Boot PROVE Inv'
<1>0. Kept /\ TimerTyped /\ WorldTyped /\ TendInv /\ row.host \in Host /\ None \notin Host
  BY InvIs, DeviceStreamAssumption DEF WorldTyped, Row
<1>1. NewView \in Views /\ Fine(NewView)
  BY <1>0, ViewIs DEF Kept
<1>2. UNCHANGED <<brand, row, up, edits, timer, call, refresh>> /\ booted' = TRUE
  BY DEF Boot, world
<1>3. WorldTyped' /\ SoundInv'
  BY <1>0, <1>2 DEF WorldTyped, TendInv, SoundInv
<1>4. CASE UNCHANGED <<status, connVars, pollVars, alarmVars, stagger>>
  <2>1. Kept' /\ TimerTyped'
    BY <1>0, <1>2, <1>4, KeptStays DEF TimerTyped
  <2>2. Tended' <=> Tended
    BY <1>2, <1>4 DEF Tended, Tracked, connVars
  <2> QED
    BY <1>0, <1>3, <2>1, <2>2, NextInvIs DEF TendInv
<1>5. CASE Subscribe(row.host, row.host, NewView) /\ UNCHANGED stagger
  <2>1. Kept' /\ conn'.st \in Trying
    BY <1>0, <1>1, <1>2, <1>5, SubscribeIs
  <2>2. TimerTyped'
    BY <1>0, <1>2, <1>5 DEF TimerTyped
  <2>3. TendInv'
    BY <1>3, <2>1 DEF TendInv, Tended, Trying
  <2> QED
    BY <1>3, <2>1, <2>2, <2>3, NextInvIs
<1>6. CASE stagger' = row.host /\ Show(row.host, NewView) /\ UNCHANGED <<connVars, pollVars>>
  <2>1. StatusTyped' /\ MarkInv'
    BY <1>0, <1>1, <1>2, <1>6, ShowIs DEF Kept
  <2>2. Kept'
    BY <1>0, <1>6, <2>1 DEF Kept, ConnTyped, PollTyped, AbortInv, NoLeak, connVars, pollVars
  <2>3. TimerTyped'
    BY <1>0, <1>2, <1>6 DEF TimerTyped
  <2>4. TendInv'
    BY <1>0, <1>3, <1>6 DEF TendInv, Tended
  <2> QED
    BY <1>3, <2>2, <2>3, <2>4, NextInvIs
<1> QED
  BY <1>4, <1>5, <1>6 DEF Boot

LEMMA StaggerStep == ASSUME Inv, StaggerFires PROVE Inv'
<1> DEFINE shown == IF Tracked /\ polling THEN status.host
                    ELSE IF Tracked THEN stagger ELSE None
<1>0. Kept /\ TimerTyped /\ WorldTyped /\ TendInv /\ stagger \in Host
  BY InvIs DEF StaggerFires, TimerTyped
<1>1. View \in Views /\ (Tracked => Fine(View))
  BY <1>0, ViewIs DEF Kept
<1>2. UNCHANGED <<brand, row, up, edits, booted, timer, call, refresh>> /\ stagger' = None
      /\ Subscribe(stagger, shown, View)
  BY DEF StaggerFires, world
<1>3. shown \in Host \cup {None} /\ (shown # None => Tracked)
  BY <1>0 DEF Kept, StatusTyped, Status, Tracked
<1> HIDE DEF shown
<1>4. Kept' /\ conn'.st \in Trying
  BY <1>0, <1>1, <1>2, <1>3, SubscribeIs
<1>5. WorldTyped' /\ SoundInv' /\ TimerTyped'
  BY <1>0, <1>2 DEF WorldTyped, TendInv, SoundInv, TimerTyped
<1>6. TendInv'
  BY <1>4, <1>5 DEF TendInv, Tended
<1> QED
  BY <1>4, <1>5, <1>6, NextInvIs

LEMMA RefreshReadStep == ASSUME Inv, RefreshReads PROVE Inv'
<1>0. Kept /\ TimerTyped /\ WorldTyped /\ TendInv
  BY InvIs
<1>1. UNCHANGED <<brand, row, up, edits, booted, status, connVars, timer, call, stagger,
                  pollVars, alarmVars>> /\ refresh' = row
  BY DEF RefreshReads, world
<1>2. Kept' /\ TimerTyped' /\ WorldTyped'
  BY <1>0, <1>1, KeptStays DEF TimerTyped, WorldTyped
<1>3. TendInv'
  BY <1>0, <1>1 DEF TendInv, SoundInv, Tended, Tracked, connVars
<1> QED
  BY <1>2, <1>3, NextInvIs

(* A refresh tears down, tries another connection, or lets things be.      *)
LEMMA RefreshStep == ASSUME Inv, RefreshRuns \/ CameraRefreshRuns PROVE Inv'
<1>0. Kept /\ TimerTyped /\ WorldTyped /\ TendInv /\ refresh.host \in Host
  BY InvIs DEF RefreshRuns, CameraRefreshRuns, TimerTyped, Row
<1>1. /\ View \in Views /\ (Tracked => Fine(View)) /\ NewView \in Views /\ Fine(NewView)
      /\ Seen(View, FALSE) \in Views /\ (Tracked => Fine(Seen(View, FALSE)))
  BY <1>0, ViewIs, SeenIs DEF Kept
<1>2. UNCHANGED <<brand, row, up, edits, booted, call, stagger>> /\ refresh' = None
  BY DEF RefreshRuns, CameraRefreshRuns, world
<1>3. WorldTyped' /\ SoundInv'
  BY <1>0, <1>2 DEF WorldTyped, TendInv, SoundInv
<1>4. CASE Teardown
  <2>1. Kept' /\ ~ Tracked' /\ timer' = FALSE
    BY <1>0, <1>4, TeardownIs
  <2>2. TimerTyped'
    BY <1>0, <1>2, <2>1 DEF TimerTyped
  <2> QED
    BY <1>3, <2>1, <2>2, NextInvIs DEF TendInv, Tended
<1>5. CASE \E v \in Views : /\ Fine(v) /\ Subscribe(refresh.host, refresh.host, v)
                            /\ timer' \in {timer, FALSE}
  <2>1. PICK v \in Views : /\ Fine(v) /\ Subscribe(refresh.host, refresh.host, v)
                           /\ timer' \in {timer, FALSE}
    BY <1>5
  <2>2. Kept' /\ conn'.st \in Trying
    BY <1>0, <1>2, <2>1, SubscribeIs
  <2>3. TimerTyped'
    BY <1>0, <1>2, <2>1 DEF TimerTyped
  <2> QED
    BY <1>3, <2>2, <2>3, NextInvIs DEF TendInv, Tended
<1>6. CASE UNCHANGED <<status, connVars, timer, pollVars, alarmVars>>
  <2>1. Kept' /\ TimerTyped'
    BY <1>0, <1>2, <1>6, KeptStays DEF TimerTyped
  <2>2. Tended' <=> Tended
    BY <1>2, <1>6 DEF Tended, Tracked, connVars
  <2> QED
    BY <1>0, <1>3, <2>1, <2>2, NextInvIs DEF TendInv
<1>7. Teardown \/ (\E v \in Views : /\ Fine(v) /\ Subscribe(refresh.host, refresh.host, v)
                                    /\ timer' \in {timer, FALSE})
        \/ UNCHANGED <<status, connVars, timer, pollVars, alarmVars>>
  <2>1. RowGone => Teardown
    BY DEF RowGone
  <2>2. RowNew => Subscribe(refresh.host, refresh.host, NewView) /\ timer' = timer
    BY DEF RowNew
  <2>3. RowKept => UNCHANGED <<status, connVars, timer, pollVars, alarmVars>>
    BY DEF RowKept
  <2>4. \/ RowGone \/ RowNew \/ RowKept
        \/ /\ Tracked /\ timer' = FALSE
           /\ Subscribe(refresh.host, refresh.host, Seen(View, FALSE))
        \/ /\ Tracked /\ timer' = timer
           /\ Subscribe(refresh.host, refresh.host, View)
    BY DEF RefreshRuns, CameraRefreshRuns, SameHost
  <2> QED
    BY <1>1, <2>1, <2>2, <2>3, <2>4
<1> QED
  BY <1>4, <1>5, <1>6, <1>7

LEMMA TimerStep == ASSUME Inv, NEW c \in Call, TimerFires(c) PROVE Inv'
<1>0. Kept /\ TimerTyped /\ WorldTyped /\ TendInv
  BY InvIs
<1>1. /\ UNCHANGED <<brand, row, up, edits, booted, status, connVars, refresh, stagger,
                     pollVars, alarmVars>>
      /\ timer' = FALSE /\ call' = [call EXCEPT ![c] = row]
  BY DEF TimerFires, world
<1>2. Kept' /\ TimerTyped' /\ WorldTyped'
  BY <1>0, <1>1, KeptStays DEF TimerTyped, WorldTyped
<1>3. call'[c] = row /\ row # None /\ \A d \in Call \ {c} : call'[d] = call[d]
  BY <1>0, <1>1, DeviceStreamAssumption DEF TimerTyped, WorldTyped
<1>4. SoundInv'
  BY <1>0, <1>1, <1>3 DEF TendInv, SoundInv
<1>5. Tended'
  BY <1>3 DEF Tended
<1> QED
  BY <1>2, <1>4, <1>5, NextInvIs DEF TendInv

LEMMA ReconnectStep == ASSUME Inv, NEW c \in Call, Reconnects(c) PROVE Inv'
<1>0. Kept /\ TimerTyped /\ WorldTyped /\ TendInv
  BY InvIs
<1>1. call[c] \in Row /\ call[c].host \in Host /\ call[c].state \in {"ok", "bad", "gone"}
  BY <1>0 DEF Reconnects, TimerTyped, Row
<1>2. /\ UNCHANGED <<brand, row, up, edits, booted, refresh, stagger>>
      /\ call' = [call EXCEPT ![c] = None]
  BY DEF Reconnects, world
<1>3. call' \in [Call -> Row \cup {None}] /\ call'[c] = None
      /\ \A d \in Call \ {c} : call'[d] = call[d]
  BY <1>0, <1>2 DEF TimerTyped
<1>4. WorldTyped' /\ SoundInv'
  BY <1>0, <1>2, <1>3 DEF WorldTyped, TendInv, SoundInv
<1>5. CASE call[c].state = "gone"
  <2>1. Kept' /\ ~ Tracked' /\ timer' = FALSE
    BY <1>0, <1>5, TeardownIs DEF Reconnects
  <2>2. TimerTyped'
    BY <1>0, <1>2, <1>3, <2>1 DEF TimerTyped
  <2> QED
    BY <1>4, <2>1, <2>2, NextInvIs DEF TendInv, Tended
<1>6. CASE call[c].state = "bad"
  <2>1. UNCHANGED <<status, connVars, timer, pollVars, alarmVars>>
    BY <1>6 DEF Reconnects
  <2>2. Kept' /\ TimerTyped'
    BY <1>0, <1>2, <1>3, <2>1, KeptStays DEF TimerTyped
  <2>3. TendInv'
    BY <1>0, <1>4, <1>6 DEF TendInv, SoundInv, Reconnects
  <2> QED
    BY <1>4, <2>2, <2>3, NextInvIs
<1>7. CASE call[c].state = "ok"
  <2>1. PICK v \in {View, NewView} : /\ Subscribe(call[c].host, call[c].host, v)
                                     /\ timer' = FALSE /\ v \in Views /\ Fine(v)
    <3>1. /\ Subscribe(call[c].host, call[c].host, IF Tracked THEN View ELSE NewView)
          /\ timer' = FALSE
      BY <1>7 DEF Reconnects
    <3>2. /\ View \in Views /\ (Tracked => Fine(View))
          /\ NewView \in Views /\ Fine(NewView)
      BY <1>0, ViewIs DEF Kept
    <3> QED
      BY <3>1, <3>2
  <2>2. Kept' /\ conn'.st \in Trying
    BY <1>0, <1>1, <1>2, <2>1, SubscribeIs
  <2>3. TimerTyped'
    BY <1>0, <1>2, <1>3, <2>1 DEF TimerTyped
  <2> QED
    BY <1>4, <2>2, <2>3, NextInvIs DEF TendInv, Tended
<1> QED
  BY <1>1, <1>5, <1>6, <1>7

-----------------------------------------------------------------------------
(* What a callback says of the connection leaves the reader tended.        *)
LEMMA CallbackIs ==
  ASSUME Inv, NEW w \in Views, Tracked => Fine(w),
         Show(IF Tracked THEN status.host ELSE None, w), UNCHANGED brand
  PROVE  StatusTyped' /\ MarkInv' /\ (Tracked' <=> Tracked)
<1>0. Kept
  BY InvIs
<1> DEFINE h == IF Tracked THEN status.host ELSE None
<1>1. h \in Host \cup {None} /\ (h # None => Tracked)
  BY <1>0 DEF Kept, StatusTyped, Status, Tracked
<1>2. Tracked => h # None
  <2>1. Tracked => status.host \in Host
    BY <1>0 DEF Kept, StatusTyped, Status, Tracked
  <2> QED
    BY <2>1, DeviceStreamAssumption
<1> HIDE DEF h
<1>3. StatusTyped' /\ MarkInv' /\ (Tracked' <=> (Tracked \/ h # None))
  BY <1>0, <1>1, ShowIs DEF Kept, h
<1> QED
  BY <1>1, <1>2, <1>3

LEMMA CallbackViews ==
  ASSUME Inv, NEW c \in BOOLEAN
  PROVE  /\ View \in Views /\ (Tracked => Fine(View))
         /\ Seen(View, c) \in Views /\ (Tracked => Fine(Seen(View, c)))
BY InvIs, ViewIs, SeenIs DEF Kept

LEMMA OpenedStep == ASSUME Inv, Opened PROVE Inv'
<1>0. Kept /\ TimerTyped /\ WorldTyped /\ TendInv
  BY InvIs
<1>1. /\ UNCHANGED <<brand, row, up, edits, booted, stale, abortable, timer, call, refresh,
                     stagger, polling, pollFails, busy, polls, answered>>
      /\ conn.st = "opening" /\ conn' = [conn EXCEPT !.st = "open"] /\ fails' = 0
  BY DEF Opened, world
<1>2. StatusTyped' /\ MarkInv'
  BY <1>1, CallbackIs, CallbackViews DEF Opened
<1>3. ConnTyped' /\ AbortInv' /\ conn'.st \in Trying
  BY <1>0, <1>1 DEF Kept, ConnTyped, AbortInv, NoLeak, Trying
<1>4. PollTyped'
  BY <1>0, <1>1, DeviceStreamAssumption DEF Kept, PollTyped
<1>5. TimerTyped' /\ WorldTyped' /\ SoundInv'
  BY <1>0, <1>1 DEF TimerTyped, WorldTyped, TendInv, SoundInv
<1> QED
  BY <1>2, <1>3, <1>4, <1>5, NextInvIs DEF Kept, TendInv, Tended

LEMMA LosesStep == ASSUME Inv, NEW notFound \in BOOLEAN, Loses(notFound) PROVE Inv'
<1>0. Kept /\ TimerTyped /\ WorldTyped /\ TendInv
  BY InvIs
<1>1. UNCHANGED <<brand, row, up, edits, booted, stale, call, refresh, stagger, busy, polls,
                  answered>>
  BY DEF Loses, world
<1>2. WorldTyped' /\ SoundInv'
  BY <1>0, <1>1 DEF WorldTyped, TendInv, SoundInv
<1>3. CASE FallBack
  <2>1. /\ conn' = [conn EXCEPT !.st = "poll"] /\ abortable' = FALSE /\ polling' = TRUE
        /\ fails' = 0 /\ pollFails' = 0 /\ timer' = FALSE
    BY <1>3 DEF FallBack
  <2>2. StatusTyped' /\ MarkInv'
    BY <1>1, <1>3, CallbackIs, CallbackViews DEF FallBack
  <2>3. ConnTyped' /\ AbortInv' /\ conn'.st \in Trying
    BY <1>0, <1>1, <2>1 DEF Kept, ConnTyped, AbortInv, NoLeak, Trying
  <2>4. 0 \in 0 .. Threshold
    BY DeviceStreamAssumption
  <2>5. PollTyped' /\ TimerTyped'
    BY <1>0, <1>1, <2>1, <2>4 DEF Kept, PollTyped, TimerTyped
  <2> QED
    BY <1>2, <2>2, <2>3, <2>5, NextInvIs DEF Kept, TendInv, Tended
<1>4. CASE Retry /\ (brand = "hikvision" => fails + 1 < Threshold)
  <2>1. /\ conn' = [conn EXCEPT !.st = "ended"] /\ timer' = TRUE
        /\ fails' = (IF brand = "hikvision" THEN fails + 1 ELSE fails)
        /\ UNCHANGED <<abortable, polling, pollFails>>
    BY <1>4 DEF Retry
  <2>2. StatusTyped' /\ MarkInv'
    BY <1>1, <1>4, CallbackIs, CallbackViews DEF Retry
  <2>3. ConnTyped' /\ AbortInv'
    BY <1>0, <1>1, <2>1 DEF Kept, ConnTyped, AbortInv, NoLeak, Trying
  <2>4. fails' \in 0 .. Threshold
    BY <1>0, <1>4, <2>1, DeviceStreamAssumption DEF Kept, PollTyped
  <2>5. PollTyped' /\ TimerTyped'
    BY <1>0, <1>1, <2>1, <2>4 DEF Kept, PollTyped, TimerTyped
  <2> QED
    BY <1>2, <2>1, <2>2, <2>3, <2>5, NextInvIs DEF Kept, TendInv, Tended
<1>5. FallBack \/ (Retry /\ (brand = "hikvision" => fails + 1 < Threshold))
  <2>1. fails + 1 \in Nat /\ Threshold \in Nat
    BY <1>0, DeviceStreamAssumption DEF Kept, PollTyped
  <2>2. fails + 1 < Threshold \/ fails + 1 >= Threshold
    BY <2>1
  <2> QED
    BY <2>2 DEF Loses
<1> QED
  BY <1>3, <1>4, <1>5

(* A poll goes on; a stream nobody listens to ends; the alarm rings.       *)
LEMMA QuietStep ==
  ASSUME Inv,
         PollStarts \/ AlarmRings \/ (\E s \in stale : StaleEnds(s))
           \/ PollAnswered \/ PollEnds \/ PollFails
  PROVE  Inv'
<1>0. Kept /\ TimerTyped /\ WorldTyped /\ TendInv
  BY InvIs
<1>1. UNCHANGED <<brand, row, up, edits, booted, conn, abortable, timer, call, refresh, stagger,
                  polling, fails>>
  BY DEF PollStarts, AlarmRings, StaleEnds, PollAnswered, PollEnds, PollFails, world, connVars,
         pollVars
<1>2. TimerTyped' /\ WorldTyped' /\ SoundInv'
  BY <1>0, <1>1 DEF TimerTyped, WorldTyped, TendInv, SoundInv
<1>3. SUFFICES ASSUME TRUE
      PROVE  /\ StatusTyped' /\ MarkInv' /\ (Tracked' => Tracked)
             /\ stale' \subseteq stale /\ PollTyped'
  <2>1. ConnTyped' /\ AbortInv'
    BY <1>0, <1>1, <1>3 DEF Kept, ConnTyped, AbortInv, NoLeak
  <2>2. TendInv'
    BY <1>0, <1>1, <1>2, <1>3 DEF TendInv, Tended
  <2> QED
    BY <1>2, <1>3, <2>1, <2>2, NextInvIs DEF Kept
<1>4. CASE PollStarts \/ PollEnds \/ \E s \in stale : StaleEnds(s)
  <2>1. UNCHANGED <<status, alarm, notified, wasUp, pollFails>> /\ stale' \subseteq stale
    BY <1>4 DEF PollStarts, PollEnds, StaleEnds, alarmVars, connVars, pollVars
  <2>2. busy' \in BOOLEAN /\ polls' \in 0 .. MaxPolls /\ answered' \in 0 .. polls'
    <3>1. /\ polls \in 0 .. MaxPolls /\ MaxPolls \in Nat /\ busy \in BOOLEAN
          /\ answered \in 0 .. polls
      BY <1>0, DeviceStreamAssumption DEF Kept, PollTyped
    <3>2. CASE PollStarts
      BY <3>1, <3>2 DEF PollStarts
    <3>3. CASE PollEnds
      BY <3>1, <3>3, PollCount DEF PollEnds
    <3>4. CASE \E s \in stale : StaleEnds(s)
      BY <3>1, <3>4 DEF StaleEnds, pollVars
    <3> QED
      BY <1>4, <3>2, <3>3, <3>4
  <2> QED
    BY <1>0, <1>1, <2>1, <2>2
       DEF Kept, StatusTyped, MarkInv, OutageIsMarked, Tracked, PollTyped
<1>5. CASE PollAnswered \/ PollFails
  <2>1. /\ stale' = stale /\ polls' \in 0 .. MaxPolls /\ answered' \in 0 .. polls'
        /\ busy' \in BOOLEAN
    <3>1. /\ polls \in 0 .. MaxPolls /\ MaxPolls \in Nat /\ busy \in BOOLEAN
          /\ answered \in 0 .. polls
      BY <1>0, DeviceStreamAssumption DEF Kept, PollTyped
    <3>2. /\ answered < polls /\ stale' = stale
          /\ \/ answered' = answered + 1 /\ polls' = polls /\ busy' = busy
             \/ answered' = answered /\ polls' = polls - 1 /\ busy' = FALSE
      BY <1>5 DEF PollAnswered, PollFails, connVars
    <3> QED
      BY <3>1, <3>2, PollCount
  <2>2. pollFails' \in 0 .. Threshold
    <3>1. \/ pollFails' = 0
          \/ pollFails' = IF pollFails < Threshold THEN pollFails + 1 ELSE pollFails
      BY <1>5 DEF PollAnswered, PollFails
    <3>2. pollFails \in 0 .. Threshold /\ Threshold \in Nat
      BY <1>0, DeviceStreamAssumption DEF Kept, PollTyped
    <3> QED
      BY <3>1, <3>2
  <2>3. PICK w \in {View, Seen(View, TRUE), Seen(View, FALSE)} :
          Show(IF Tracked THEN status.host ELSE None, w)
    BY <1>5 DEF PollAnswered, PollFails
  <2>4. w \in Views /\ (Tracked => Fine(w))
    BY CallbackViews
  <2>5. StatusTyped' /\ MarkInv' /\ (Tracked' <=> Tracked)
    BY <1>1, <2>3, <2>4, CallbackIs
  <2> QED
    BY <1>0, <1>1, <2>1, <2>2, <2>5 DEF Kept, PollTyped
<1>6. CASE AlarmRings
  <2>1. /\ alarm /\ alarm' = FALSE
        /\ notified' = (notified \/ (Tracked /\ ~ status.connected))
        /\ UNCHANGED <<status, wasUp, stale, pollFails, busy, polls, answered>>
    BY <1>6 DEF AlarmRings, connVars, pollVars
  <2>2. Tracked /\ ~ status.connected /\ brand # "camera"
    BY <1>0, <2>1 DEF Kept, MarkInv, OutageIsMarked
  <2>3. StatusTyped' /\ PollTyped'
    BY <1>0, <1>1, <2>1, <2>2 DEF Kept, StatusTyped, PollTyped
  <2>4. MarkInv'
    BY <1>1, <2>1, <2>2 DEF MarkInv, OutageIsMarked, Tracked
  <2> QED
    BY <2>1, <2>3, <2>4 DEF Tracked
<1> QED
  BY <1>4, <1>5, <1>6

LEMMA WorldStep == ASSUME Inv, World PROVE Inv'
<1>0. Kept /\ TimerTyped /\ WorldTyped /\ TendInv
  BY InvIs
<1>1. edits' \in 0 .. MaxEdits
  BY <1>0, DeviceStreamAssumption DEF World, RowChanges, ReaderGoes, Restart, Edit, WorldTyped
<1>2. CASE RowChanges \/ ReaderGoes
  <2>1. /\ UNCHANGED <<brand, booted, status, connVars, timer, call, refresh, stagger, pollVars,
                       alarmVars>>
        /\ row' \in Row /\ up' \in BOOLEAN
        /\ row'.state = "bad" => row.state = "bad" \/ "credential" \in Faults
    BY <1>0, <1>2 DEF RowChanges, ReaderGoes, WorldTyped
  <2>2. Kept' /\ TimerTyped' /\ WorldTyped'
    BY <1>0, <1>1, <2>1, KeptStays DEF TimerTyped, WorldTyped
  <2>3. TendInv'
    BY <1>0, <2>1 DEF TendInv, SoundInv, Tended, Tracked, connVars
  <2> QED
    BY <2>2, <2>3, NextInvIs
<1>3. CASE Restart
  <2>1. ConnTyped' /\ AbortInv'
    BY <1>3 DEF Restart, NoConn, ConnTyped, AbortInv, NoLeak
  <2>2. PollTyped'
    <3>1. 0 \in 0 .. Threshold /\ 0 \in 0 .. MaxPolls /\ 0 \in 0 .. 0
      BY DeviceStreamAssumption
    <3> QED
      BY <1>3, <3>1 DEF Restart, PollTyped
  <2>3. StatusTyped' /\ MarkInv' /\ ~ Tracked'
    BY <1>3 DEF Restart, StatusTyped, MarkInv, OutageIsMarked, Tracked
  <2>4. TimerTyped' /\ WorldTyped'
    BY <1>0, <1>1, <1>3 DEF Restart, NoCall, TimerTyped, WorldTyped
  <2>5. TendInv'
    BY <1>0, <1>3, <2>3 DEF Restart, NoCall, TendInv, SoundInv, Tended
  <2> QED
    BY <2>1, <2>2, <2>3, <2>4, <2>5, NextInvIs DEF Kept
<1> QED
  BY <1>2, <1>3 DEF World

-----------------------------------------------------------------------------
LEMMA InvInit == ASSUME Init PROVE Inv
<1>0. /\ 0 \in 0 .. Threshold /\ 0 \in 0 .. MaxPolls /\ 0 \in 0 .. MaxEdits
      /\ 0 \in 0 .. 0
  BY DeviceStreamAssumption
<1>1. ConnTyped /\ AbortInv
  BY DEF Init, NoConn, ConnTyped, AbortInv, NoLeak
<1>2. PollTyped
  BY <1>0 DEF Init, PollTyped
<1>3. StatusTyped /\ MarkInv /\ ~ Tracked
  BY DEF Init, StatusTyped, MarkInv, OutageIsMarked, Tracked
<1>4. TimerTyped /\ WorldTyped
  BY <1>0 DEF Init, NoCall, TimerTyped, WorldTyped
<1>5. TendInv
  BY <1>3 DEF Init, NoCall, TendInv, SoundInv, Tended
<1> QED
  BY <1>1, <1>2, <1>3, <1>4, <1>5, InvIs DEF Kept

LEMMA InvStep == ASSUME Inv, [Next]_vars PROVE Inv'
<1>1. CASE UNCHANGED vars
  <2>0. Kept /\ TimerTyped /\ WorldTyped /\ TendInv
    BY InvIs
  <2>1. UNCHANGED <<brand, row, up, edits, booted, status, connVars, timer, call, refresh,
                    stagger, pollVars, alarmVars>>
    BY <1>1 DEF vars, world
  <2>2. Kept' /\ TimerTyped' /\ WorldTyped'
    BY <2>0, <2>1, KeptStays DEF TimerTyped, WorldTyped
  <2>3. TendInv'
    BY <2>0, <2>1 DEF TendInv, SoundInv, Tended, Tracked, connVars
  <2> QED
    BY <2>2, <2>3, NextInvIs
<1>2. CASE Reader
  BY <1>2, BootStep, StaggerStep, RefreshReadStep, RefreshStep, TimerStep, ReconnectStep,
     OpenedStep, LosesStep, QuietStep DEF Reader
<1>3. CASE Camera
  BY <1>3, BootStep, RefreshReadStep, RefreshStep, TimerStep, ReconnectStep, OpenedStep,
     LosesStep, QuietStep
     DEF Camera, CameraBoot, CameraRefreshReads, CameraTimerFires, CameraReconnects,
         CameraOpened, CameraLoses, CameraStaleEnds
<1>4. CASE World
  BY <1>4, WorldStep
<1> QED
  BY <1>1, <1>2, <1>3, <1>4 DEF Next

THEOREM AlwaysInv == Spec => []Inv
<1>1. Init => Inv
  BY InvInit
<1>2. Inv /\ [Next]_vars => Inv'
  BY InvStep
<1> QED
  BY <1>1, <1>2, PTL DEF Spec

(* Every reachable state of DeviceStream has its types: the counts of      *)
(* failures stop at the threshold.                                         *)
THEOREM StreamTypeCorrect == Spec => []TypeOK
<1>1. Inv => TypeOK
  BY DEF Inv
<1> QED
  BY <1>1, AlwaysInv, PTL

(* Of a reader that was up and is down, somebody has been told or an alarm *)
(* is about to ring; no alarm is left of a reader that is up, or of one    *)
(* that is not watched any more.                                           *)
THEOREM OutagesAreMarked == Spec => []OutageIsMarked
<1>1. Inv => OutageIsMarked
  BY DEF Inv, MarkInv
<1> QED
  BY <1>1, AlwaysInv, PTL

(* A stream that is given up, by whichever of the timers, reads and        *)
(* callbacks that subscribe again or tear down, is aborted.                *)
THEOREM StreamsAreAborted == Spec => []NoLeak
<1>1. Inv => NoLeak
  BY DEF Inv, AbortInv
<1> QED
  BY <1>1, AlwaysInv, PTL

(* As long as every password can be deciphered, a reader the service       *)
(* believes in is never left alone: a connection is open or tried, or      *)
(* something that will try one is still to come.                           *)
THEOREM ReadersAreTended == ASSUME "credential" \notin Faults PROVE Spec => []Tended
<1>1. Inv => Tended
  BY DEF Inv, TendInv
<1> QED
  BY <1>1, AlwaysInv, PTL

-----------------------------------------------------------------------------
(* What the status shows.  A start that is staggered finds the reader as   *)
(* Boot left it, unless refreshes run before it ("crowd").  A poll left    *)
(* over from before a teardown counts its failure against the connection   *)
(* there is now: fewer of them than the threshold do not darken it.        *)

(* Nothing is under way at the reader.                                     *)
Quiet ==
  /\ conn = NoConn /\ ~ polling /\ ~ timer /\ refresh = None
  /\ \A c \in Call : call[c] = None

StaggerInv ==
  /\ ~ booted => Quiet /\ stagger = None
  /\ "crowd" \notin Faults =>
       (stagger # None => Quiet /\ (Tracked => status.host = stagger))

AddressInv == "crowd" \notin Faults => AddressIsShown

(* Of a reader that is not polled, each failure counted was a poll left    *)
(* over when it was torn down.                                             *)
LeftInv ==
  /\ conn.st = "poll" => polling
  /\ conn.st \in {"opening", "open"} => ~ polling
  /\ ~ polling => pollFails + polls <= MaxPolls

OpenInv == MaxPolls < Threshold => OpenIsShown

ShownInv == StaggerInv /\ AddressInv /\ LeftInv /\ OpenInv

LEMMA Typed ==
  ASSUME Inv
  PROVE  /\ polling \in BOOLEAN /\ pollFails \in Nat /\ polls \in Nat /\ MaxPolls \in Nat
         /\ polls <= MaxPolls /\ Threshold \in Nat
         /\ View \in Views /\ NewView \in Views
         /\ Tracked => status.host \in Host /\ status.connected \in BOOLEAN
         /\ row.host \in Host /\ None \notin Host
         /\ refresh # None => refresh.host \in Host
         /\ stagger # None => stagger \in Host
         /\ \A c \in Call : call[c] # None => call[c].host \in Host
<1>0. Kept /\ TimerTyped /\ WorldTyped
  BY InvIs
<1>1. /\ polling \in BOOLEAN /\ pollFails \in Nat /\ polls \in Nat /\ MaxPolls \in Nat
      /\ polls <= MaxPolls /\ Threshold \in Nat
  BY <1>0, DeviceStreamAssumption DEF Kept, PollTyped
<1>2. View \in Views /\ NewView \in Views
  BY <1>0, ViewIs DEF Kept
<1>3. Tracked => status.host \in Host /\ status.connected \in BOOLEAN
  BY <1>0 DEF Kept, StatusTyped, Status, Tracked
<1>4. row.host \in Host /\ None \notin Host
  BY <1>0, DeviceStreamAssumption DEF WorldTyped, Row
<1>5. /\ refresh # None => refresh.host \in Host
      /\ stagger # None => stagger \in Host
      /\ \A c \in Call : call[c] # None => call[c].host \in Host
  BY <1>0 DEF TimerTyped, Row
<1> QED
  BY <1>1, <1>2, <1>3, <1>4, <1>5

LEMMA SeenConnected ==
  ASSUME NEW v \in Views, NEW c \in BOOLEAN
  PROVE  Seen(v, c) \in Views /\ Seen(v, c).connected = c
<1>1. Seen(v, c) \in Views
  BY SeenIs
<1>2. CASE brand = "camera"
  <2>1. Seen(v, c) = [v EXCEPT !.connected = c]
    BY <1>2 DEF Seen, CameraSeen
  <2> QED
    BY <2>1 DEF Views
<1>3. CASE brand # "camera" /\ c /\ ~ v.connected
  <2>1. Seen(v, c) = [connected |-> TRUE, alarm |-> FALSE, notified |-> FALSE, wasUp |-> TRUE]
    BY <1>3 DEF Seen
  <2>2. Seen(v, c).connected = TRUE
    BY <2>1
  <2>3. c = TRUE
    BY <1>3
  <2> QED
    BY <1>1, <2>2, <2>3
<1>4. CASE brand # "camera" /\ ~ c /\ v.connected
  <2>1. Seen(v, c) = [v EXCEPT !.connected = FALSE, !.alarm = v.alarm \/ ~ v.notified]
    BY <1>4 DEF Seen
  <2> QED
    BY <1>4, <2>1 DEF Views
<1>5. CASE brand # "camera" /\ ~ (c /\ ~ v.connected) /\ ~ (~ c /\ v.connected)
  <2>1. Seen(v, c) = v /\ v.connected \in BOOLEAN
    BY <1>5 DEF Seen, Views
  <2> QED
    BY <1>5, <2>1
<1> QED
  BY <1>1, <1>2, <1>3, <1>4, <1>5

LEMMA ShowSays ==
  ASSUME NEW h \in Host \cup {None}, NEW v \in Views, Show(h, v)
  PROVE  /\ h # None => Tracked' /\ status'.host = h /\ status'.connected = v.connected
         /\ h = None => status' = status
<1>1. CASE h # None
  <2>1. status' = [host |-> h, connected |-> v.connected]
    BY <1>1 DEF Show
  <2>2. status'.host = h /\ status'.connected = v.connected
    BY <2>1
  <2>3. status' # None
    <3>1. v.connected \in BOOLEAN /\ h \in Host
      BY <1>1 DEF Views
    <3> QED
      BY <2>1, <3>1, DeviceStreamAssumption DEF Status
  <2> QED
    BY <1>1, <2>2, <2>3 DEF Tracked
<1>2. CASE h = None
  BY <1>2 DEF Show
<1> QED
  BY <1>1, <1>2

(* A callback changes what is shown of the connection, not its address.    *)
LEMMA CallbackSays ==
  ASSUME Inv, NEW v \in Views, Show(IF Tracked THEN status.host ELSE None, v)
  PROVE  /\ Tracked' <=> Tracked
         /\ Tracked => status'.host = status.host /\ status'.connected = v.connected
<1> DEFINE h == IF Tracked THEN status.host ELSE None
<1>1. h \in Host \cup {None} /\ (Tracked <=> h # None)
  BY Typed
<1> HIDE DEF h
<1>2. /\ h # None => Tracked' /\ status'.host = h /\ status'.connected = v.connected
      /\ h = None => status' = status
  BY <1>1, ShowSays DEF h
<1> QED
  BY <1>1, <1>2 DEF Tracked, h

(* Another connection is tried: it shows nothing yet.                      *)
LEMMA SubscribeSays ==
  ASSUME Inv, ShownInv, NEW h \in Host, NEW shown \in Host \cup {None}, NEW v \in Views,
         Subscribe(h, shown, v)
  PROVE  /\ LeftInv' /\ OpenInv'
         /\ conn'.host = h
         /\ shown # None => Tracked' /\ status'.host = shown
         /\ shown = None => status' = status
<1>0. /\ polling \in BOOLEAN /\ pollFails \in Nat /\ polls \in Nat /\ MaxPolls \in Nat
      /\ polls <= MaxPolls
  BY Typed
<1>1. /\ conn' = [st |-> IF polling THEN "poll" ELSE "opening", host |-> h]
      /\ pollFails' = (IF polling THEN 0 ELSE pollFails) /\ polling' = polling /\ polls' = polls
      /\ Show(shown, IF polling THEN Seen(v, TRUE) ELSE v)
  BY DEF Subscribe, Outdate
<1>2. conn'.host = h /\ conn'.st = (IF polling THEN "poll" ELSE "opening")
  BY <1>1
<1>3. LeftInv'
  BY <1>0, <1>1, <1>2 DEF ShownInv, LeftInv
<1>4. OpenInv'
  BY <1>2 DEF OpenInv, OpenIsShown
<1>5. (IF polling THEN Seen(v, TRUE) ELSE v) \in Views
  BY SeenConnected
<1> QED
  BY <1>1, <1>2, <1>3, <1>4, <1>5, ShowSays

LEMMA TeardownSays ==
  ASSUME Inv, Teardown
  PROVE  AddressInv' /\ LeftInv' /\ OpenInv' /\ ~ Tracked' /\ conn' = NoConn /\ polling' = FALSE
<1>1. /\ conn' = NoConn /\ polling' = FALSE /\ pollFails' = 0 /\ polls' = polls /\ status' = None
  BY DEF Teardown, Outdate
<1>2. polls \in Nat /\ MaxPolls \in Nat /\ polls <= MaxPolls /\ conn'.st = "none"
  BY <1>1, Typed DEF NoConn
<1> QED
  BY <1>1, <1>2 DEF AddressInv, AddressIsShown, LeftInv, OpenInv, OpenIsShown, Tracked

(* Nothing that is shown or used changes.                                  *)
LEMMA StaysSaid ==
  ASSUME ShownInv, UNCHANGED <<status, conn, polling, pollFails, polls>>
  PROVE  AddressInv' /\ LeftInv' /\ OpenInv'
BY DEF ShownInv, AddressInv, AddressIsShown, LeftInv, OpenInv, OpenIsShown, Tracked

(* What goes on at a reader excludes a staggered start.                    *)
LEMMA BusyStagger ==
  ASSUME StaggerInv, ~ Quiet, UNCHANGED <<booted, stagger>>
  PROVE  StaggerInv'
BY DEF StaggerInv

LEMMA QuietStagger ==
  ASSUME StaggerInv, UNCHANGED <<booted, stagger, conn, polling, timer, refresh, call>>,
         Tracked' => Tracked /\ status'.host = status.host
  PROVE  StaggerInv'
BY DEF StaggerInv, Quiet

LEMMA BootShown == ASSUME Inv, ShownInv, Boot PROVE ShownInv'
<1>1. /\ Quiet /\ stagger = None /\ booted' = TRUE /\ UNCHANGED <<timer, call, refresh>>
      /\ row.host \in Host /\ None \notin Host /\ NewView \in Views
  BY Typed DEF Boot, ShownInv, StaggerInv
<1>2. CASE UNCHANGED <<status, connVars, pollVars, alarmVars, stagger>>
  BY <1>1, <1>2, StaysSaid DEF connVars, pollVars, ShownInv, StaggerInv
<1>3. CASE Subscribe(row.host, row.host, NewView) /\ UNCHANGED stagger
  <2>1. LeftInv' /\ OpenInv' /\ conn'.host = row.host /\ status'.host = row.host
    BY <1>1, <1>3, SubscribeSays
  <2> QED
    BY <1>1, <1>3, <2>1 DEF ShownInv, StaggerInv, AddressInv, AddressIsShown
<1>4. CASE stagger' = row.host /\ Show(row.host, NewView) /\ UNCHANGED <<connVars, pollVars>>
  <2>1. UNCHANGED <<conn, polling, pollFails, polls>> /\ status'.host = row.host
    BY <1>1, <1>4, ShowSays DEF connVars, pollVars
  <2>2. Quiet'
    BY <1>1, <2>1 DEF Quiet, NoConn
  <2>3. conn'.st = "none"
    BY <1>1, <2>1 DEF Quiet, NoConn
  <2>4. AddressInv' /\ OpenInv' /\ LeftInv'
    BY <2>1, <2>3 DEF ShownInv, AddressInv, AddressIsShown, Trying, OpenInv, OpenIsShown, LeftInv
  <2> QED
    BY <1>1, <1>4, <2>1, <2>2, <2>4 DEF ShownInv, StaggerInv
<1> QED
  BY <1>2, <1>3, <1>4 DEF Boot

LEMMA StaggerShown == ASSUME Inv, ShownInv, StaggerFires PROVE ShownInv'
<1> DEFINE shown == IF Tracked /\ polling THEN status.host
                    ELSE IF Tracked THEN stagger ELSE None
<1>1. /\ stagger # None /\ stagger' = None /\ Subscribe(stagger, shown, View)
      /\ UNCHANGED <<booted, timer, call, refresh>>
  BY DEF StaggerFires
<1>2. stagger \in Host /\ shown \in Host \cup {None} /\ View \in Views /\ None \notin Host
      /\ (shown = None => ~ Tracked)
  BY <1>1, Typed
<1>3. "crowd" \notin Faults => shown \in {stagger, None}
  BY <1>1 DEF ShownInv, StaggerInv, Quiet
<1> HIDE DEF shown
<1>4. /\ LeftInv' /\ OpenInv' /\ conn'.host = stagger
      /\ shown # None => Tracked' /\ status'.host = shown
      /\ shown = None => status' = status
  BY <1>1, <1>2, SubscribeSays
<1>5. AddressInv'
  BY <1>2, <1>3, <1>4 DEF AddressInv, AddressIsShown, Tracked
<1>6. StaggerInv'
  BY <1>1 DEF ShownInv, StaggerInv
<1> QED
  BY <1>4, <1>5, <1>6 DEF ShownInv

LEMMA RefreshReadShown == ASSUME Inv, ShownInv, RefreshReads PROVE ShownInv'
<1>1. UNCHANGED <<booted, status, conn, polling, pollFails, polls, stagger>>
      /\ booted /\ (stagger = None \/ "crowd" \in Faults)
  BY DEF RefreshReads, connVars, pollVars
<1> QED
  BY <1>1, StaysSaid DEF ShownInv, StaggerInv

LEMMA RefreshShown == ASSUME Inv, ShownInv, RefreshRuns \/ CameraRefreshRuns PROVE ShownInv'
<1>1. refresh # None /\ UNCHANGED <<booted, stagger>> /\ refresh.host \in Host
      /\ View \in Views /\ NewView \in Views /\ Seen(View, FALSE) \in Views /\ None \notin Host
  BY Typed, SeenConnected DEF RefreshRuns, CameraRefreshRuns
<1>2. StaggerInv'
  BY <1>1, BusyStagger DEF Quiet, ShownInv
<1>3. CASE Teardown
  BY <1>2, <1>3, TeardownSays DEF ShownInv
<1>4. ASSUME NEW v \in Views, Subscribe(refresh.host, refresh.host, v) PROVE ShownInv'
  <2>1. LeftInv' /\ OpenInv' /\ conn'.host = refresh.host /\ status'.host = refresh.host
    BY <1>1, <1>4, SubscribeSays
  <2> QED
    BY <1>2, <2>1 DEF ShownInv, AddressInv, AddressIsShown
<1>5. CASE UNCHANGED <<status, connVars, timer, pollVars, alarmVars>>
  BY <1>2, <1>5, StaysSaid DEF connVars, pollVars, ShownInv
<1>6. \/ Teardown \/ UNCHANGED <<status, connVars, timer, pollVars, alarmVars>>
      \/ \E v \in {View, NewView, Seen(View, FALSE)} : Subscribe(refresh.host, refresh.host, v)
  BY DEF RefreshRuns, CameraRefreshRuns, RowGone, RowNew, RowKept
<1> QED
  BY <1>1, <1>3, <1>4, <1>5, <1>6

LEMMA TimerShown == ASSUME Inv, ShownInv, NEW c \in Call, TimerFires(c) PROVE ShownInv'
<1>1. timer /\ UNCHANGED <<booted, status, conn, polling, pollFails, polls, stagger>>
  BY DEF TimerFires, connVars, pollVars
<1> QED
  BY <1>1, StaysSaid, BusyStagger DEF Quiet, ShownInv

LEMMA ReconnectShown == ASSUME Inv, ShownInv, NEW c \in Call, Reconnects(c) PROVE ShownInv'
<1>1. call[c] # None /\ UNCHANGED <<booted, stagger>> /\ call[c].host \in Host
      /\ View \in Views /\ NewView \in Views /\ None \notin Host
  BY Typed DEF Reconnects
<1>2. StaggerInv'
  BY <1>1, BusyStagger DEF Quiet, ShownInv
<1>3. CASE Teardown
  BY <1>2, <1>3, TeardownSays DEF ShownInv
<1>4. ASSUME NEW v \in Views, Subscribe(call[c].host, call[c].host, v) PROVE ShownInv'
  <2>1. LeftInv' /\ OpenInv' /\ conn'.host = call[c].host /\ status'.host = call[c].host
    BY <1>1, <1>4, SubscribeSays
  <2> QED
    BY <1>2, <2>1 DEF ShownInv, AddressInv, AddressIsShown
<1>5. CASE UNCHANGED <<status, connVars, timer, pollVars, alarmVars>>
  BY <1>2, <1>5, StaysSaid DEF connVars, pollVars, ShownInv
<1>6. \/ Teardown \/ UNCHANGED <<status, connVars, timer, pollVars, alarmVars>>
      \/ \E v \in {View, NewView} : Subscribe(call[c].host, call[c].host, v)
  BY DEF Reconnects
<1> QED
  BY <1>1, <1>3, <1>4, <1>5, <1>6

LEMMA OpenedShown == ASSUME Inv, ShownInv, Opened PROVE ShownInv'
<1>1. /\ conn.st = "opening" /\ conn' = [conn EXCEPT !.st = "open"]
      /\ UNCHANGED <<booted, stagger, polling, pollFails, polls>>
      /\ Show(IF Tracked THEN status.host ELSE None, Seen(View, TRUE))
  BY DEF Opened
<1>2. conn'.st = "open" /\ conn'.host = conn.host
  <2>1. conn \in [st : {"none", "ended"} \cup Trying, host : Host \cup {None}]
    BY DEF Inv, TypeOK
  <2> QED
    BY <1>1, <2>1
<1>3. Seen(View, TRUE) \in Views /\ Seen(View, TRUE).connected = TRUE
  BY Typed, SeenConnected
<1>4. /\ Tracked' <=> Tracked
      /\ Tracked => status'.host = status.host /\ status'.connected = TRUE
  BY <1>1, <1>3, CallbackSays
<1>5. StaggerInv'
  BY <1>1, BusyStagger DEF Quiet, NoConn, ShownInv
<1>6. AddressInv' /\ OpenInv'
  BY <1>1, <1>2, <1>4 DEF ShownInv, AddressInv, AddressIsShown, OpenInv, OpenIsShown, Trying
<1>7. LeftInv'
  BY <1>1, <1>2 DEF ShownInv, LeftInv
<1> QED
  BY <1>5, <1>6, <1>7 DEF ShownInv

LEMMA LosesShown == ASSUME Inv, ShownInv, NEW notFound \in BOOLEAN, Loses(notFound) PROVE ShownInv'
<1>1. /\ conn.st \in {"opening", "open"} /\ UNCHANGED <<booted, stagger, polls>>
      /\ Retry \/ FallBack
  BY DEF Loses
<1>2. PICK st \in {"ended", "poll"}, c \in BOOLEAN :
        /\ conn' = [conn EXCEPT !.st = st]
        /\ Show(IF Tracked THEN status.host ELSE None, Seen(View, c))
        /\ st = "poll" => polling' = TRUE
        /\ st = "ended" => UNCHANGED <<polling, pollFails>>
  BY <1>1 DEF Retry, FallBack
<1>3. conn'.st = st /\ conn'.host = conn.host
  <2>1. conn \in [st : {"none", "ended"} \cup Trying, host : Host \cup {None}]
    BY DEF Inv, TypeOK
  <2> QED
    BY <1>2, <2>1
<1>4. Seen(View, c) \in Views
  BY Typed, SeenConnected
<1>5. (Tracked' <=> Tracked) /\ (Tracked => status'.host = status.host)
  BY <1>2, <1>4, CallbackSays
<1>6. StaggerInv'
  BY <1>1, BusyStagger DEF Quiet, NoConn, ShownInv
<1>7. AddressInv' /\ OpenInv'
  BY <1>1, <1>2, <1>3, <1>5
     DEF ShownInv, AddressInv, AddressIsShown, OpenInv, OpenIsShown, Trying
<1>8. LeftInv'
  BY <1>1, <1>2, <1>3 DEF ShownInv, LeftInv
<1> QED
  BY <1>6, <1>7, <1>8 DEF ShownInv

LEMMA PollStartsShown == ASSUME Inv, ShownInv, PollStarts PROVE ShownInv'
<1>1. /\ conn.st = "poll" /\ UNCHANGED <<booted, stagger, status, conn, polling, pollFails>>
  BY DEF PollStarts, connVars
<1>2. StaggerInv'
  BY <1>1, BusyStagger DEF Quiet, NoConn, ShownInv
<1> QED
  BY <1>1, <1>2 DEF ShownInv, AddressInv, AddressIsShown, OpenInv, OpenIsShown, Tracked, LeftInv

(* A poll that fails counts; of a reader with a stream, too few are left.  *)
LEMMA PollGoesOnShown ==
  ASSUME Inv, ShownInv, PollAnswered \/ PollFails PROVE ShownInv'
<1>0. /\ pollFails \in Nat /\ polls \in Nat /\ MaxPolls \in Nat /\ Threshold \in Nat
      /\ polls <= MaxPolls /\ polling \in BOOLEAN /\ View \in Views
  BY Typed
<1>1. /\ UNCHANGED <<booted, stagger, conn, polling, timer, refresh, call>>
      /\ \/ pollFails' = 0 /\ polls' = polls
         \/ /\ polls > 0 /\ polls' = polls - 1
            /\ pollFails' = IF pollFails < Threshold THEN pollFails + 1 ELSE pollFails
  <2>1. answered \in Nat
    BY <1>0 DEF Inv, TypeOK
  <2>2. /\ answered < polls /\ UNCHANGED <<booted, stagger, conn, polling, timer, refresh, call>>
        /\ \/ pollFails' = 0 /\ polls' = polls
           \/ /\ polls' = polls - 1
              /\ pollFails' = IF pollFails < Threshold THEN pollFails + 1 ELSE pollFails
    BY DEF PollAnswered, PollFails, connVars
  <2> QED
    BY <1>0, <2>1, <2>2
<1>2. PICK v \in Views :
        /\ Show(IF Tracked THEN status.host ELSE None, v)
        /\ \/ v.connected = TRUE \/ v = View
           \/ pollFails' >= Threshold
  <2>1. /\ Seen(View, TRUE) \in Views /\ Seen(View, TRUE).connected = TRUE
        /\ Seen(View, FALSE) \in Views
    BY <1>0, SeenConnected
  <2> QED
    BY <1>0, <2>1 DEF PollAnswered, PollFails
<1>3. /\ Tracked' <=> Tracked
      /\ Tracked => status'.host = status.host /\ status'.connected = v.connected
  BY <1>2, CallbackSays
<1>4. StaggerInv'
  BY <1>1, <1>3, QuietStagger DEF ShownInv
<1>5. AddressInv'
  BY <1>1, <1>3 DEF ShownInv, AddressInv, AddressIsShown
<1>6. LeftInv'
  BY <1>0, <1>1 DEF ShownInv, LeftInv
<1>7. OpenInv'
  <2> SUFFICES ASSUME MaxPolls < Threshold, Tracked', conn'.st = "open"
               PROVE  status'.connected
    BY DEF OpenInv, OpenIsShown
  <2>1. ~ polling' /\ pollFails' <= MaxPolls
    BY <1>0, <1>1, <1>6 DEF LeftInv
  <2>2. v.connected = TRUE \/ v = View
    <3>1. pollFails' \in Nat
      BY <1>0, <1>1
    <3> QED
      BY <1>0, <1>2, <2>1, <3>1
  <2>3. Tracked /\ conn.st = "open" /\ status.connected
    BY <1>1, <1>3 DEF ShownInv, OpenInv, OpenIsShown
  <2>4. View.connected = TRUE
    BY <2>3, Typed DEF View
  <2> QED
    BY <1>3, <2>2, <2>3, <2>4
<1> QED
  BY <1>4, <1>5, <1>6, <1>7 DEF ShownInv

(* A poll that ends leaves fewer.                                          *)
LEMMA PollEndsShown == ASSUME Inv, ShownInv, PollEnds PROVE ShownInv'
<1>1. /\ pollFails \in Nat /\ polls \in Nat /\ MaxPolls \in Nat /\ polls <= MaxPolls
      /\ polling \in BOOLEAN
  BY Typed
<1>2. /\ polls' = polls - 1
      /\ UNCHANGED <<booted, stagger, status, conn, polling, pollFails, timer, refresh, call>>
  BY DEF PollEnds, connVars
<1>3. LeftInv'
  BY <1>1, <1>2 DEF ShownInv, LeftInv
<1>4. StaggerInv'
  BY <1>2, QuietStagger DEF ShownInv, Tracked
<1> QED
  BY <1>2, <1>3, <1>4
     DEF ShownInv, AddressInv, AddressIsShown, OpenInv, OpenIsShown, Tracked

LEMMA ShownStep == ASSUME Inv, ShownInv, [Next]_vars PROVE ShownInv'
<1>1. ASSUME UNCHANGED <<booted, status, conn, timer, call, refresh, stagger, polling, pollFails,
                         polls>>
      PROVE  ShownInv'
  BY <1>1, StaysSaid, QuietStagger DEF ShownInv, Tracked
<1>2. ASSUME UNCHANGED vars \/ AlarmRings \/ RowChanges \/ ReaderGoes
             \/ \E s \in stale : StaleEnds(s)
      PROVE  ShownInv'
  BY <1>1, <1>2 DEF vars, AlarmRings, RowChanges, ReaderGoes, StaleEnds, connVars, pollVars
<1>3. CASE Restart
  <2>1. Quiet' /\ stagger' = None /\ ~ Tracked' /\ conn'.st = "none" /\ pollFails' = 0 /\ polls' = 0
    BY <1>3 DEF Restart, Quiet, NoCall, NoConn, Tracked
  <2> QED
    BY <2>1, Typed DEF ShownInv, StaggerInv, AddressInv, AddressIsShown, LeftInv, OpenInv,
                       OpenIsShown
<1>4. CASE Reader
  BY <1>2, <1>4, BootShown, StaggerShown, RefreshReadShown, RefreshShown, TimerShown,
     ReconnectShown, OpenedShown, LosesShown, PollStartsShown, PollGoesOnShown, PollEndsShown
     DEF Reader
<1>5. CASE Camera
  BY <1>2, <1>5, BootShown, RefreshReadShown, RefreshShown, TimerShown, ReconnectShown,
     OpenedShown, LosesShown
     DEF Camera, CameraBoot, CameraRefreshReads, CameraTimerFires, CameraReconnects,
         CameraOpened, CameraLoses, CameraStaleEnds
<1> QED
  BY <1>2, <1>3, <1>4, <1>5 DEF Next, World

THEOREM AlwaysShown == Spec => []ShownInv
<1>1. Init => ShownInv
  BY DeviceStreamAssumption
     DEF Init, NoConn, NoCall, Tracked, ShownInv, StaggerInv, Quiet, AddressInv, AddressIsShown,
         LeftInv, OpenInv, OpenIsShown
<1>2. Inv /\ ShownInv /\ [Next]_vars => ShownInv'
  BY ShownStep
<1> QED
  BY <1>1, <1>2, AlwaysInv, PTL DEF Spec

(* As long as staggered starts are over before the first refresh, the      *)
(* refresh compares the row with the address that is really used.          *)
THEOREM AddressIsTrue == ASSUME "crowd" \notin Faults PROVE Spec => []AddressIsShown
<1>1. ShownInv => AddressIsShown
  BY DEF ShownInv, AddressInv
<1> QED
  BY <1>1, AlwaysShown, PTL

(* As long as staggered starts are over before the first refresh, the      *)
(* address a status shows is the one the connection is made to; and when   *)
(* fewer polls can be left over from before teardowns than failures make   *)
(* an outage, none of them darkens a stream that is open.                  *)
THEOREM StatusIsTrue ==
  ASSUME "crowd" \notin Faults, MaxPolls < Threshold PROVE Spec => []ShownIsUsed
<1>1. ShownInv => ShownIsUsed
  BY DEF ShownInv, AddressInv, OpenInv, ShownIsUsed
<1> QED
  BY <1>1, AlwaysShown, PTL


=============================================================================
