---------------------------- MODULE DeviceStream ----------------------------
(***************************************************************************)
(* FaceListenerService and one reader that is listened to directly, or     *)
(* LprListenerService and one camera: the stream it keeps open (or, for a  *)
(* Hikvision reader whose alertStream fails, the poll it falls back to),   *)
(* the timers and database reads that reconnect it, the refresh that       *)
(* follows the database, and the alarm of a reader that went down.         *)
(*                                                                         *)
(* Between two awaits the service runs alone, so every callback, timer and *)
(* continuation is one action.  A callback compares its generation with    *)
(* the newest one: `conn` is the connection of the newest generation, and  *)
(* `stale` are older streams whose callbacks are still to come.            *)
(***************************************************************************)
EXTENDS Naturals, FiniteSets

CONSTANTS
  Brand,          \* what is listened to: a reader of a brand, or a "camera"
  Host,           \* addresses the reader may have
  Call,           \* bound: calls of subscribeFromDb() in flight
  Threshold,      \* failures that turn a stream into a poll, a poll into an outage
  MaxPolls,       \* bound: polls in flight, those of older generations among them
  MaxEdits,       \* bound: changes of the row and of the reader, restarts
  Faults,         \* what else may happen: subset of Fault
  None

(* "credential": the password of the row becomes undecipherable, and is    *)
(* repaired.  "crowd": there are so many Hikvision readers that staggered  *)
(* starts are still to come when the first refresh runs.                   *)
Fault == {"credential", "crowd"}

Row    == [state : {"ok", "bad", "gone"}, host : Host]
Status == [host : Host, connected : BOOLEAN]

ASSUME DeviceStreamAssumption ==
  /\ Brand \subseteq {"hikvision", "intelbras", "camera"}
  /\ Threshold \in Nat \ {0} /\ MaxPolls \in Nat \ {0} /\ MaxEdits \in Nat
  /\ Faults \subseteq Fault
  /\ None \notin Host /\ None \notin Row /\ None \notin Status

VARIABLES
  brand,      \* of the reader
  row,        \* the row of the reader, as listReadersForEventStream() sees it
  up,         \* the reader answers
  booted,     \* connectAllStreamReaders() has run
  status,     \* statuses: what the service believes of the reader, or None
  conn,       \* the connection of the newest generation
  stale,      \* older streams, aborted or leaked
  abortable,  \* streamAbortByReader holds the controller of conn
  timer,      \* reconnectTimers
  call,       \* the row each subscribeFromDb() in flight has read
  refresh,    \* the row that a refresh in flight has read
  stagger,    \* the address of a staggered start still to come
  polling,    \* hikvisionIntegrationByReader is acsEventPoll
  fails,      \* hikvisionAlertStreamFailCountByReader
  pollFails,  \* hikvisionPollFailCountByReader, up to Threshold
  busy,       \* hikvisionPollInFlight
  polls,      \* how many polls are in flight, of whichever generation ...
  answered,   \* ... and how many of them have their answer
  alarm,      \* offlineNotifyTimers
  notified,   \* offlineNotifiedAt
  wasUp,      \* history: the status has said connected
  edits

world     == <<brand, row, up, edits>>
connVars  == <<conn, stale, abortable>>
pollVars  == <<polling, fails, pollFails, busy, polls, answered>>
alarmVars == <<alarm, notified, wasUp>>
vars == <<world, booted, status, connVars, timer, call, refresh, stagger, pollVars, alarmVars>>

NoCall == [c \in Call |-> None]
NoConn == [st |-> "none", host |-> None]
Trying == {"opening", "open", "poll"}

TypeOK ==
  /\ brand \in Brand /\ row \in Row /\ up \in BOOLEAN /\ booted \in BOOLEAN
  /\ status \in {None} \cup Status
  /\ conn \in [st : {"none", "ended"} \cup Trying, host : Host \cup {None}]
  /\ stale \subseteq {"aborted", "leaked"}
  /\ abortable \in BOOLEAN /\ timer \in BOOLEAN
  /\ call \in [Call -> Row \cup {None}]
  /\ refresh \in Row \cup {None}
  /\ stagger \in Host \cup {None}
  /\ polling \in BOOLEAN /\ fails \in 0 .. Threshold /\ pollFails \in 0 .. Threshold
  /\ busy \in BOOLEAN /\ polls \in 0 .. MaxPolls /\ answered \in 0 .. polls
  /\ alarm \in BOOLEAN /\ notified \in BOOLEAN /\ wasUp \in BOOLEAN
  /\ edits \in 0 .. MaxEdits

Init ==
  /\ brand \in Brand
  /\ row \in Row /\ row.state # "bad"
  /\ up \in BOOLEAN
  /\ edits = 0
  /\ booted = FALSE /\ status = None
  /\ conn = NoConn /\ stale = {} /\ abortable = FALSE
  /\ timer = FALSE /\ call = NoCall /\ refresh = None /\ stagger = None
  /\ polling = FALSE /\ fails = 0 /\ pollFails = 0 /\ busy = FALSE /\ polls = 0 /\ answered = 0
  /\ alarm = FALSE /\ notified = FALSE /\ wasUp = FALSE

-----------------------------------------------------------------------------
(* updateStatus() and the decision about the alarm.                        *)

Tracked == status # None

View == [connected |-> Tracked /\ status.connected,
         alarm |-> alarm, notified |-> notified, wasUp |-> wasUp]

NewView == [View EXCEPT !.connected = FALSE, !.wasUp = FALSE]

(* Nobody is told of the outage of a camera.                               *)
CameraSeen(v, c) == [v EXCEPT !.connected = c]

(* decideOfflineNotifyAction()                                             *)
Seen(v, c) ==
  IF brand = "camera" THEN CameraSeen(v, c)
  ELSE CASE c /\ ~ v.connected -> [connected |-> TRUE, alarm |-> FALSE, notified |-> FALSE,
                                   wasUp |-> TRUE]
         [] ~ c /\ v.connected -> [v EXCEPT !.connected = FALSE,
                                            !.alarm = v.alarm \/ ~ v.notified]
         [] OTHER              -> v

(* The maps of the service after what happened to the view.  A reader that *)
(* has no status, h = None, gets none.                                     *)
Show(h, v) ==
  IF h # None
  THEN /\ status' = [host |-> h, connected |-> v.connected]
       /\ alarm' = v.alarm /\ notified' = v.notified /\ wasUp' = v.wasUp
  ELSE UNCHANGED <<status, alarmVars>>

-----------------------------------------------------------------------------
(* Connections.                                                            *)

(* bumpConnectGeneration(), with abortStream(): callbacks of the stream    *)
(* there was, and the answers of its polls, come later.                    *)
Outdate ==
  /\ stale' = IF conn.st \in {"opening", "open"}
              THEN stale \cup {IF abortable THEN "aborted" ELSE "leaked"} ELSE stale
  /\ UNCHANGED <<polls, answered>>

\* Mutant: the status keeps the address it had.
SubscribeUnshown(h, shown, v) ==
  /\ Outdate
  /\ conn' = [st |-> IF polling THEN "poll" ELSE "opening", host |-> h]
  /\ abortable' = ~ polling
  /\ pollFails' = IF polling THEN 0 ELSE pollFails
  /\ Show(IF Tracked THEN status.host ELSE shown, IF polling THEN Seen(v, TRUE) ELSE v)
  /\ UNCHANGED <<polling, fails, busy>>

(* subscribe() to address h; the status shows `shown` from now on.  A      *)
(* reader that is polled counts as connected at once.                      *)
Subscribe(h, shown, v) ==
  /\ Outdate
  /\ conn' = [st |-> IF polling THEN "poll" ELSE "opening", host |-> h]
  /\ abortable' = ~ polling
  /\ pollFails' = IF polling THEN 0 ELSE pollFails
  /\ Show(shown, IF polling THEN Seen(v, TRUE) ELSE v)
  /\ UNCHANGED <<polling, fails, busy>>

\* Mutant: the timer of the alarm survives its reader.
TeardownRinging ==
  /\ Outdate
  /\ conn' = NoConn /\ abortable' = FALSE /\ timer' = FALSE
  /\ polling' = FALSE /\ fails' = 0 /\ pollFails' = 0 /\ busy' = FALSE
  /\ notified' = FALSE /\ wasUp' = FALSE /\ status' = None
  /\ UNCHANGED alarm

(* teardownReader()                                                        *)
Teardown ==
  /\ Outdate
  /\ conn' = NoConn /\ abortable' = FALSE /\ timer' = FALSE
  /\ polling' = FALSE /\ fails' = 0 /\ pollFails' = 0 /\ busy' = FALSE
  /\ alarm' = FALSE /\ notified' = FALSE /\ wasUp' = FALSE /\ status' = None

(* connectAllStreamReaders(): Hikvision readers start one after the other. *)
(* When it fails, the first refresh finds the readers.                     *)
Boot ==
  /\ ~ booted /\ booted' = TRUE
  /\ \/ /\ UNCHANGED <<status, connVars, pollVars, alarmVars, stagger>>
     \/ /\ row.state = "ok"
        /\ Subscribe(row.host, row.host, NewView)
        /\ UNCHANGED stagger
     \/ /\ row.state = "ok" /\ brand = "hikvision"
        /\ stagger' = row.host
        /\ Show(row.host, NewView)
        /\ UNCHANGED <<connVars, pollVars>>
  /\ UNCHANGED <<world, timer, call, refresh>>

StaggerFires ==
  /\ stagger # None /\ stagger' = None
  /\ Subscribe(stagger, IF Tracked /\ polling THEN status.host
                        ELSE IF Tracked THEN stagger ELSE None, View)
  /\ UNCHANGED <<world, booted, timer, call, refresh>>

-----------------------------------------------------------------------------
(* refreshConnections(), every minute: a database read, then the rest.     *)

RefreshReads ==
  /\ booted /\ refresh = None
  /\ stagger = None \/ "crowd" \in Faults
  /\ refresh' = row
  /\ UNCHANGED <<world, booted, status, connVars, timer, call, stagger, pollVars, alarmVars>>

(* A row that is gone, new, or as it was.                                  *)
RowGone == refresh.state # "ok" /\ Tracked /\ Teardown

RowNew ==
  /\ refresh.state = "ok" /\ ~ Tracked
  /\ Subscribe(refresh.host, refresh.host, NewView)
  /\ UNCHANGED timer

RowKept ==
  /\ (refresh.state = "ok") = Tracked
  /\ UNCHANGED <<status, connVars, timer, pollVars, alarmVars>>

SameHost == Tracked /\ status.host = refresh.host

\* Mutant: a row that moved to another address goes unnoticed.
RefreshStays ==
  /\ brand # "camera"
  /\ refresh # None /\ refresh' = None
  /\ RowGone \/ RowNew \/ RowKept
  /\ UNCHANGED <<world, booted, call, stagger>>

RefreshRuns ==
  /\ brand # "camera"
  /\ refresh # None /\ refresh' = None
  /\ \/ RowGone \/ RowNew
     \/ /\ refresh.state = "ok" /\ Tracked /\ ~ SameHost
        /\ timer' = FALSE
        /\ Subscribe(refresh.host, refresh.host, Seen(View, FALSE))
     \/ /\ refresh.state = "ok" /\ SameHost
        /\ brand = "intelbras" /\ ~ abortable /\ ~ timer
        /\ Subscribe(refresh.host, refresh.host, View)
        /\ UNCHANGED timer
     \/ /\ ~ Tracked \/ (SameHost /\ (brand # "intelbras" \/ abortable \/ timer))
        /\ RowKept
  /\ UNCHANGED <<world, booted, call, stagger>>

(* A camera that moved keeps its timer, and its status until it connects.  *)
CameraRefreshRuns ==
  /\ brand = "camera"
  /\ refresh # None /\ refresh' = None
  /\ \/ RowGone \/ RowNew
     \/ /\ refresh.state = "ok" /\ Tracked /\ ~ SameHost
        /\ Subscribe(refresh.host, refresh.host, View)
        /\ UNCHANGED timer
     \/ (Tracked => SameHost) /\ RowKept
  /\ UNCHANGED <<world, booted, call, stagger>>

-----------------------------------------------------------------------------
(* Reconnection: scheduleReconnect() and subscribeFromDb().                *)

TimerFires(c) ==
  /\ timer /\ timer' = FALSE
  /\ call[c] = None /\ call' = [call EXCEPT ![c] = row]
  /\ UNCHANGED <<world, booted, status, connVars, refresh, stagger, pollVars, alarmVars>>

\* Mutant: the row was found to be gone, and its status stays.
ReconnectsGently(c) ==
  /\ call[c] # None /\ call' = [call EXCEPT ![c] = None]
  /\ \/ /\ call[c].state # "ok"
        /\ UNCHANGED <<status, connVars, timer, pollVars, alarmVars>>
     \/ /\ call[c].state = "ok"
        /\ timer' = FALSE
        /\ Subscribe(call[c].host, call[c].host, IF Tracked THEN View ELSE NewView)
  /\ UNCHANGED <<world, booted, refresh, stagger>>

(* A password that cannot be deciphered ends the chain of reconnections.   *)
Reconnects(c) ==
  /\ call[c] # None /\ call' = [call EXCEPT ![c] = None]
  /\ \/ /\ call[c].state = "gone"
        /\ Teardown
     \/ /\ call[c].state = "bad"
        /\ UNCHANGED <<status, connVars, timer, pollVars, alarmVars>>
     \/ /\ call[c].state = "ok"
        /\ timer' = FALSE
        /\ Subscribe(call[c].host, call[c].host, IF Tracked THEN View ELSE NewView)
  /\ UNCHANGED <<world, booted, refresh, stagger>>

-----------------------------------------------------------------------------
(* Callbacks of a connection.                                              *)

Opened ==
  /\ conn.st = "opening" /\ up
  /\ conn' = [conn EXCEPT !.st = "open"]
  /\ fails' = 0
  /\ Show(IF Tracked THEN status.host ELSE None, Seen(View, TRUE))
  /\ UNCHANGED <<world, booted, stale, abortable, timer, call, refresh, stagger, polling,
                 pollFails, busy, polls, answered>>

(* What a failed or ended stream leads to: another attempt after a while,  *)
(* or, for the alertStream, recordAlertStreamFailure(), the poll.          *)
Retry ==
  /\ conn' = [conn EXCEPT !.st = "ended"]
  /\ fails' = IF brand = "hikvision" THEN fails + 1 ELSE fails
  /\ timer' = TRUE
  /\ Show(IF Tracked THEN status.host ELSE None, Seen(View, FALSE))
  /\ UNCHANGED <<abortable, polling, pollFails>>

FallBack ==
  /\ conn' = [conn EXCEPT !.st = "poll"]
  /\ abortable' = FALSE
  /\ polling' = TRUE /\ fails' = 0 /\ pollFails' = 0
  /\ timer' = FALSE
  /\ Show(IF Tracked THEN status.host ELSE None, Seen(View, TRUE))

\* Mutants: nobody is told; the alertStream is never given up.
LosesSilently(notFound) ==
  /\ conn.st \in {"opening", "open"}
  /\ notFound => up /\ conn.st = "opening" /\ brand = "hikvision"
  /\ conn' = [conn EXCEPT !.st = "ended"]
  /\ timer' = TRUE
  /\ UNCHANGED <<world, booted, status, stale, abortable, call, refresh, stagger, pollVars,
                 alarmVars>>

LosesAgain(notFound) ==
  /\ conn.st \in {"opening", "open"}
  /\ notFound => up /\ conn.st = "opening" /\ brand = "hikvision"
  /\ Retry
  /\ UNCHANGED <<world, booted, stale, call, refresh, stagger, busy, polls, answered>>

(* notFound: the reader has no alertStream (HTTP 404).                     *)
Loses(notFound) ==
  /\ conn.st \in {"opening", "open"}
  /\ notFound => up /\ conn.st = "opening" /\ brand = "hikvision"
  /\ IF brand = "hikvision" /\ (notFound \/ fails + 1 >= Threshold) THEN FallBack ELSE Retry
  /\ UNCHANGED <<world, booted, stale, call, refresh, stagger, busy, polls, answered>>

(* A stream of an older generation ends: its callbacks return at once.     *)
StaleEnds(s) ==
  /\ s \in stale /\ stale' = stale \ {s}
  /\ UNCHANGED <<world, booted, status, conn, abortable, timer, call, refresh, stagger,
                 pollVars, alarmVars>>

PollStarts ==
  /\ conn.st = "poll" /\ ~ busy /\ polls < MaxPolls
  /\ busy' = TRUE /\ polls' = polls + 1
  /\ UNCHANGED <<world, booted, status, connVars, timer, call, refresh, stagger, polling,
                 fails, pollFails, answered, alarmVars>>

(* After its await, a poll does not look at the generation again: with the *)
(* answer the reader counts as up, and the next poll may start when what   *)
(* it tells of has been handled.                                           *)
PollAnswered ==
  /\ answered < polls /\ up
  /\ answered' = answered + 1 /\ pollFails' = 0
  /\ Show(IF Tracked THEN status.host ELSE None, Seen(View, TRUE))
  /\ UNCHANGED <<world, booted, connVars, timer, call, refresh, stagger, polling, fails, busy,
                 polls>>

PollEnds ==
  /\ answered > 0 /\ answered' = answered - 1
  /\ polls' = polls - 1 /\ busy' = FALSE
  /\ UNCHANGED <<world, booted, status, connVars, timer, call, refresh, stagger, polling, fails,
                 pollFails, alarmVars>>

PollFails ==
  /\ answered < polls /\ polls' = polls - 1 /\ busy' = FALSE
  /\ pollFails' = IF pollFails < Threshold THEN pollFails + 1 ELSE pollFails
  /\ Show(IF Tracked THEN status.host ELSE None,
          IF pollFails' >= Threshold THEN Seen(View, FALSE) ELSE View)
  /\ UNCHANGED <<world, booted, connVars, timer, call, refresh, stagger, polling, fails, answered>>

(* emitOfflineIfStillDown()                                                *)
AlarmRings ==
  /\ alarm /\ alarm' = FALSE
  /\ notified' = (notified \/ (Tracked /\ ~ status.connected))
  /\ UNCHANGED <<world, booted, status, connVars, timer, call, refresh, stagger, pollVars, wasUp>>

-----------------------------------------------------------------------------
(* The world.                                                              *)

Edit == edits < MaxEdits /\ edits' = edits + 1

RowChanges ==
  /\ Edit
  /\ row' \in Row /\ row' # row
  /\ row.state = "bad" \/ row'.state = "bad" => "credential" \in Faults
  /\ UNCHANGED <<brand, up, booted, status, connVars, timer, call, refresh, stagger, pollVars, alarmVars>>

ReaderGoes == Edit /\ up' = ~ up /\ UNCHANGED <<brand, row, booted, status, connVars, timer, call,
                                             refresh, stagger, pollVars, alarmVars>>

(* The process dies: of a shutdown, or of a database error that nobody     *)
(* catches in subscribeFromDb().                                           *)
Restart ==
  /\ Edit
  /\ booted' = FALSE /\ status' = None
  /\ conn' = NoConn /\ stale' = {} /\ abortable' = FALSE
  /\ timer' = FALSE /\ call' = NoCall /\ refresh' = None /\ stagger' = None
  /\ polling' = FALSE /\ fails' = 0 /\ pollFails' = 0 /\ busy' = FALSE /\ polls' = 0
  /\ answered' = 0
  /\ alarm' = FALSE /\ notified' = FALSE /\ wasUp' = FALSE
  /\ UNCHANGED <<brand, row, up>>

-----------------------------------------------------------------------------
Reader ==
  /\ brand # "camera"
  /\ \/ Boot \/ StaggerFires \/ RefreshReads \/ RefreshRuns
     \/ \E c \in Call : TimerFires(c) \/ Reconnects(c)
     \/ Opened
     \/ \E notFound \in BOOLEAN : Loses(notFound)
     \/ \E s \in stale : StaleEnds(s)
     \/ PollStarts \/ PollAnswered \/ PollEnds \/ PollFails
     \/ AlarmRings

(* The service of cameras is a twin of the one of Intelbras readers.       *)
CameraBoot          == Boot
CameraRefreshReads  == RefreshReads
CameraTimerFires(c) == TimerFires(c)
CameraReconnects(c) == Reconnects(c)
CameraOpened        == Opened
CameraLoses         == Loses(FALSE)
CameraStaleEnds     == \E s \in stale : StaleEnds(s)

Camera ==
  /\ brand = "camera"
  /\ \/ CameraBoot \/ CameraRefreshReads \/ CameraRefreshRuns
     \/ \E c \in Call : CameraTimerFires(c) \/ CameraReconnects(c)
     \/ CameraOpened \/ CameraLoses \/ CameraStaleEnds

World == RowChanges \/ ReaderGoes \/ Restart

Next == Reader \/ Camera \/ World

Spec == Init /\ [][Next]_vars

(* Timers fire, database reads and polls come back, an attempt to connect  *)
(* succeeds or fails, and the stream of a reader that is down breaks.  Of  *)
(* the attempts at a reader that answers, one succeeds in the end.         *)
Fairness ==
  /\ WF_vars(Boot) /\ WF_vars(StaggerFires)
  /\ WF_vars(RefreshReads) /\ WF_vars(RefreshRuns \/ CameraRefreshRuns)
  /\ \A c \in Call : WF_vars(TimerFires(c)) /\ WF_vars(Reconnects(c))
  /\ WF_vars(conn.st = "opening" /\ (Opened \/ Loses(FALSE)))
  /\ WF_vars(~ up /\ conn.st = "open" /\ Loses(FALSE))
  /\ SF_vars(Opened)
  /\ WF_vars(PollStarts)
  /\ WF_vars(PollAnswered \/ PollEnds \/ PollFails)
  /\ WF_vars(AlarmRings)

FairSpec == Spec /\ Fairness

-----------------------------------------------------------------------------
(* Properties.                                                             *)

(* A stream that was given up is aborted: the service never leaves one     *)
(* open beside the one it listens to.                                      *)
NoLeak == "leaked" \notin stale

(* A reader the service believes in is never left alone: a connection is   *)
(* open or tried, or something that will try one is still to come.         *)
Tended ==
  Tracked =>
    \/ conn.st \in Trying \/ timer \/ stagger # None
    \/ \E c \in Call : call[c] # None

(* The address a status shows is the one the connection is made to, so     *)
(* that the refresh sees when the row has moved away from it ...           *)
AddressIsShown == Tracked /\ conn.st \in Trying => conn.host = status.host

(* ... and what an older connection still has to say does not darken one   *)
(* that is open.                                                           *)
OpenIsShown == Tracked /\ conn.st = "open" => status.connected

ShownIsUsed == AddressIsShown /\ OpenIsShown

(* Of a reader that was up and is down, somebody has been told, or an      *)
(* alarm is about to ring; and no alarm is left of a reader that is up or  *)
(* that is not watched any more.                                           *)
OutageIsMarked ==
  IF Tracked /\ ~ status.connected THEN wasUp => alarm \/ notified
                                    ELSE ~ alarm /\ ~ notified

(* When the edits are over, the service listens to the reader at the       *)
(* address of the row as often as the reader lets it, and to no reader     *)
(* whose row is gone.                                                      *)
FollowsRow ==
  []<>(IF row.state = "ok"
       THEN up => conn.st \in {"open", "poll"} /\ conn.host = row.host
       ELSE ~ Tracked /\ conn.st \notin Trying)

(* A reader that was connected and stops answering is reported, whichever  *)
(* way the service reaches it, unless it comes back first or is given up.  *)
OutageIsTold ==
  (Tracked /\ wasUp /\ ~ up) ~> (notified \/ up \/ ~ Tracked)

=============================================================================
