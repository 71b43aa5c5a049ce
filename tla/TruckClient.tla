------------------------------ MODULE TruckClient ------------------------------
(***************************************************************************)
(* The client in the truck (clients/truck): readings taken at an interval  *)
(* go out on a WebSocket, or into a SQLite table while there is none, and  *)
(* two kinds of call send what the table holds.                            *)
(*                                                                         *)
(* A step is what runs between two awaits or events: a socket event, a     *)
(* timer, a statement on the table.  Alerts, the register message and the  *)
(* client's own pings are left out: they are sent and forgotten.           *)
(***************************************************************************)
EXTENDS Integers, Sequences, FiniteSets

CONSTANTS
  Readings,    \* the readings, numbered in the order they are taken
  Sockets,     \* bound: WebSocket objects alive at a time, closed ones are reused
  Syncs,       \* bound: calls of syncQueuedData at a time
  MaxRetries,  \* retryConfig.maxRetries (10)
  BatchSize,   \* the LIMIT of getUnsynced (50)
  MaxFaults,   \* bound: connections that break, crashes and failed statements
  MaxStarts,   \* bound: starts of the process
  None

ConstantsOK ==
  /\ Readings \subseteq Nat /\ IsFiniteSet(Readings)
  /\ MaxRetries \in Nat /\ BatchSize \in Nat \ {0}
  /\ MaxFaults \in Nat /\ MaxStarts \in Nat
  /\ None \notin Sockets

VARIABLES
  mode,       \* the process: down, up, or where stop() is
  socket,     \* readyState of each WebSocket, and what its close will mean
  ws,         \* WsClient.ws
  connected,  \* WsClient.connected
  retryCount, \* WsClient.retryCount
  retryTimer, \* the timer of scheduleReconnect is running
  timeouts,   \* sockets whose 5 s timer of connect() is running
  awaited,    \* the socket whose connect() start() is waiting for
  collecting, \* start() has set the two intervals
  inserting,  \* readings enqueue() has not yet inserted
  rows,       \* telemetry_queue: the readings, in order of insertion
  synced,     \* ... those with synced = 1
  sync,       \* what each syncQueuedData awaits, and the rows it has read
  wire,       \* copies of each reading sent on each socket and not yet received
  received,   \* copies of each reading the backend has received
  taken,      \* history: readings taken so far
  resent,     \* history: readings read by two overlapping calls, or not marked
  broken, failures, starts

netVars   == <<socket, ws, connected, retryCount, retryTimer, timeouts>>
queueVars == <<inserting, rows, synced>>
flowVars  == <<wire, received>>
vars == <<mode, netVars, awaited, collecting, queueVars, sync, flowVars, taken,
          resent, broken, failures, starts>>

Idle == [at |-> "idle", batch |-> {}]
Nothing == [r \in Readings |-> 0]

Init ==
  /\ mode = "down"
  /\ socket = [s \in Sockets |-> "closed"]
  /\ ws = None /\ connected = FALSE
  /\ retryCount = 0 /\ retryTimer = FALSE /\ timeouts = {}
  /\ awaited = None /\ collecting = FALSE
  /\ inserting = {} /\ rows = <<>> /\ synced = {}
  /\ sync = [c \in Syncs |-> Idle]
  /\ wire = [s \in Sockets |-> Nothing]
  /\ received = Nothing
  /\ taken = {} /\ resent = {}
  /\ broken = 0 /\ failures = 0 /\ starts = 0

-----------------------------------------------------------------------------
(* Helpers *)

Running == mode # "down"
Fault == broken + failures < MaxFaults
Fails == Fault /\ failures' = failures + 1
ConnectionFails == Fault /\ broken' = broken + 1

Unused(s) == socket[s] = "closed" /\ s # ws /\ s \notin timeouts
Live == {s \in Sockets : socket[s] # "closed"}
Busy == {c \in Syncs : sync[c].at # "idle"}

\* WsClient.connect: a new socket becomes this.ws.
Connect(s) ==
  /\ Unused(s)
  /\ socket' = [socket EXCEPT ![s] = "connecting"]
  /\ ws' = s
  /\ timeouts' = timeouts \cup {s}

RetryOnceLess == retryTimer' = (retryCount < MaxRetries - 1)

\* scheduleReconnect: nothing once the attempts are used up.
ScheduleReconnect == retryTimer' = (retryCount < MaxRetries)

\* WsClient.send of some readings: a warning unless the socket is open.
Send(sent) ==
  wire' = IF connected /\ socket[ws] = "open"
          THEN [wire EXCEPT ![ws] = [r \in Readings |-> IF r \in sent THEN @[r] + 1 ELSE @[r]]]
          ELSE wire

\* getUnsynced: the oldest rows that are not marked.
Unsynced == {i \in DOMAIN rows : rows[i] \notin synced}
Batch == {rows[i] : i \in {k \in Unsynced : Cardinality({j \in Unsynced : j < k}) < BatchSize}}

-----------------------------------------------------------------------------
(* Start, stop, crash *)

\* start(): opens the queue and the first connection, and waits for connect().
Start(s) ==
  /\ mode = "down" /\ starts < MaxStarts
  /\ starts' = starts + 1
  /\ mode' = "up"
  /\ Connect(s) /\ awaited' = s
  /\ UNCHANGED <<connected, retryCount, retryTimer, collecting, queueVars, sync, flowVars,
                 taken, resent, broken, failures>>

\* What is left of the process: its table.
Gone ==
  /\ mode' = "down"
  /\ socket' = [s \in Sockets |-> "closed"] /\ wire' = [s \in Sockets |-> Nothing]
  /\ ws' = None /\ connected' = FALSE
  /\ retryCount' = 0 /\ retryTimer' = FALSE /\ timeouts' = {}
  /\ awaited' = None /\ collecting' = FALSE
  /\ inserting' = {}
  /\ sync' = [c \in Syncs |-> Idle]
  /\ resent' = resent \cup UNION {sync[c].batch : c \in Syncs}
  /\ UNCHANGED <<rows, synced, received, taken, failures, starts>>

Crash == Running /\ ConnectionFails /\ Gone

StopKeepsRetrying ==
  /\ mode = "up"
  /\ collecting' = FALSE
  /\ mode' = IF socket[ws] = "closed" THEN "stuck" ELSE "closing"
  /\ socket' = IF socket[ws] = "closed" THEN socket ELSE [socket EXCEPT ![ws] = "closing"]
  /\ UNCHANGED <<ws, connected, retryCount, retryTimer, timeouts, awaited, queueVars, sync, flowVars,
                 taken, resent, broken, failures, starts>>

\* stop(), disconnect(): the intervals and the retry timer are cleared; the socket
\* is asked to close, but the 'close' event of one that has closed never comes.
Stop ==
  /\ mode = "up"
  /\ collecting' = FALSE /\ retryTimer' = FALSE
  /\ mode' = IF socket[ws] = "closed" THEN "stuck" ELSE "closing"
  /\ socket' = IF socket[ws] = "closed" THEN socket ELSE [socket EXCEPT ![ws] = "closing"]
  /\ UNCHANGED <<ws, connected, retryCount, timeouts, awaited, queueVars, sync, flowVars,
                 taken, resent, broken, failures, starts>>

\* stop() has returned and main exits; or nothing is left that would keep the
\* process alive.
Exit ==
  /\ \/ mode = "stopped"
     \/ /\ mode = "stuck"
        /\ ~collecting /\ ~retryTimer /\ timeouts = {} /\ Live = {}
        /\ Busy = {} /\ inserting = {}
  /\ Gone
  /\ UNCHANGED broken

-----------------------------------------------------------------------------
(* Events of the socket, timers *)

\* 'open': also starts a synchronisation.
Open(s, c) ==
  /\ socket[s] = "connecting" /\ c \notin Busy
  /\ socket' = [socket EXCEPT ![s] = "open"]
  /\ connected' = TRUE /\ retryCount' = 0
  /\ sync' = [sync EXCEPT ![c].at = "read"]
  /\ IF awaited = s THEN awaited' = None /\ collecting' = TRUE
     ELSE UNCHANGED <<awaited, collecting>>
  /\ UNCHANGED <<mode, ws, retryTimer, timeouts, queueVars, flowVars, taken, resent,
                 broken, failures, starts>>

\* The backend closes the connection: the socket is closing, and so no longer
\* takes messages, but 'close' has not been emitted.
PeerCloses(s) ==
  /\ socket[s] = "open"
  /\ ConnectionFails
  /\ socket' = [socket EXCEPT ![s] = "closing"]
  /\ UNCHANGED <<mode, ws, connected, retryCount, retryTimer, timeouts, awaited, collecting,
                 queueVars, sync, flowVars, taken, resent, failures, starts>>

\* 'close': what was under way on the socket is lost.
Closed(s) ==
  /\ connected' = FALSE
  /\ socket' = [socket EXCEPT ![s] = "closed"]
  /\ wire' = [wire EXCEPT ![s] = Nothing]
  /\ ScheduleReconnect
  /\ mode' = IF mode = "closing" /\ s = ws THEN "stopped" ELSE mode
  /\ UNCHANGED <<ws, retryCount, timeouts, awaited, collecting, queueVars, sync, received,
                 taken, resent, failures, starts>>

Refused(s) == socket[s] = "connecting" /\ Closed(s) /\ UNCHANGED broken
CloseEnds(s) == socket[s] = "closing" /\ Closed(s) /\ UNCHANGED broken
Breaks(s) ==
  /\ socket[s] = "open"
  /\ ConnectionFails
  /\ Closed(s)

\* The 5 s of a connect() are over: it is rejected, and this.ws closed, if there is
\* no connection by now, its own or a later one.
Timeout(s) ==
  /\ s \in timeouts /\ timeouts' = timeouts \ {s}
  /\ IF connected THEN UNCHANGED <<socket, awaited, collecting>>
     ELSE /\ socket' = IF socket[ws] = "connecting"
                       THEN [socket EXCEPT ![ws] = "closing"] ELSE socket
          /\ IF awaited = s THEN awaited' = None /\ collecting' = TRUE
             ELSE UNCHANGED <<awaited, collecting>>
  /\ UNCHANGED <<mode, ws, connected, retryCount, retryTimer, queueVars, sync, flowVars, taken,
                 resent, broken, failures, starts>>

ReconnectKeepsTimer(s) ==
  /\ retryTimer
  /\ retryCount' = retryCount + 1
  /\ Connect(s)
  /\ UNCHANGED <<mode, connected, retryTimer, awaited, collecting, queueVars, sync, flowVars, taken,
                 resent, broken, failures, starts>>

\* The timer of scheduleReconnect.
Reconnect(s) ==
  /\ retryTimer /\ retryTimer' = FALSE
  /\ retryCount' = retryCount + 1
  /\ Connect(s)
  /\ UNCHANGED <<mode, connected, awaited, collecting, queueVars, sync, flowVars, taken, resent,
                 broken, failures, starts>>

-----------------------------------------------------------------------------
(* Readings *)

\* collectAndSendTelemetry, from the reading on.
Collect(r) ==
  /\ collecting /\ r \notin taken /\ \A q \in Readings \ taken : r <= q
  /\ taken' = taken \cup {r}
  /\ IF connected THEN Send({r}) /\ UNCHANGED inserting
     ELSE inserting' = inserting \cup {r} /\ UNCHANGED wire
  /\ UNCHANGED <<mode, netVars, awaited, collecting, rows, synced, sync, received, resent, broken,
                 failures, starts>>

\* enqueue: the INSERT, which may fail.
Enqueue(r) ==
  /\ r \in inserting /\ inserting' = inserting \ {r}
  /\ rows' = Append(rows, r)
  /\ UNCHANGED <<mode, netVars, awaited, collecting, synced, sync, flowVars, taken, resent, broken,
                 failures, starts>>

EnqueueFails(r) ==
  /\ r \in inserting /\ inserting' = inserting \ {r}
  /\ Fails
  /\ UNCHANGED <<mode, netVars, awaited, collecting, rows, synced, sync, flowVars, taken, resent,
                 broken, starts>>

\* The interval of startOfflineSync.
BeginSync(c) ==
  /\ collecting /\ connected /\ c \notin Busy
  /\ sync' = [sync EXCEPT ![c].at = "read"]
  /\ UNCHANGED <<mode, netVars, awaited, collecting, queueVars, flowVars, taken, resent, broken,
                 failures, starts>>

ReadMarks(c) ==
  /\ sync[c].at = "read"
  /\ sync' = [sync EXCEPT ![c] = IF Batch = {} THEN Idle ELSE [at |-> "send", batch |-> Batch]]
  /\ synced' = synced \cup Batch
  /\ UNCHANGED <<mode, netVars, awaited, collecting, inserting, rows, flowVars, taken, resent,
                 broken, failures, starts>>

\* getUnsynced
ReadRows(c) ==
  /\ sync[c].at = "read"
  /\ sync' = [sync EXCEPT ![c] = IF Batch = {} THEN Idle ELSE [at |-> "send", batch |-> Batch]]
  /\ resent' = resent \cup (Batch \cap UNION {sync[d].batch : d \in Syncs \ {c}})
  /\ UNCHANGED <<mode, netVars, awaited, collecting, queueVars, flowVars, taken, broken, failures,
                 starts>>

\* All rows are sent, connected or not.
SendBatch(c) ==
  /\ sync[c].at = "send"
  /\ Send(sync[c].batch)
  /\ sync' = [sync EXCEPT ![c].at = "mark"]
  /\ UNCHANGED <<mode, netVars, awaited, collecting, queueVars, received, taken, resent, broken,
                 failures, starts>>

\* markSynced
MarkSynced(c) ==
  /\ sync[c].at = "mark"
  /\ synced' = synced \cup sync[c].batch
  /\ sync' = [sync EXCEPT ![c] = Idle]
  /\ UNCHANGED <<mode, netVars, awaited, collecting, inserting, rows, flowVars, taken, resent,
                 broken, failures, starts>>

\* A statement of syncQueuedData fails: logged.
SyncFails(c) ==
  /\ sync[c].at \in {"read", "mark"}
  /\ Fails
  /\ resent' = resent \cup sync[c].batch
  /\ sync' = [sync EXCEPT ![c] = Idle]
  /\ UNCHANGED <<mode, netVars, awaited, collecting, queueVars, flowVars, taken, broken, starts>>

\* The network.
Receive(s, r) ==
  /\ wire[s][r] > 0
  /\ wire' = [wire EXCEPT ![s][r] = @ - 1]
  /\ received' = [received EXCEPT ![r] = @ + 1]
  /\ UNCHANGED <<mode, netVars, awaited, collecting, queueVars, sync, taken, resent, broken, failures,
                 starts>>

-----------------------------------------------------------------------------
SyncSteps(c) == ReadRows(c) \/ SendBatch(c) \/ MarkSynced(c)

Next ==
  \/ Crash \/ Stop \/ Exit
  \/ \E s \in Sockets :
       \/ Start(s) \/ Refused(s) \/ Breaks(s) \/ PeerCloses(s) \/ CloseEnds(s)
       \/ Timeout(s) \/ Reconnect(s)
       \/ \E c \in Syncs : Open(s, c)
       \/ \E r \in Readings : Receive(s, r)
  \/ \E r \in Readings : Collect(r) \/ Enqueue(r) \/ EnqueueFails(r)
  \/ \E c \in Syncs : BeginSync(c) \/ SyncSteps(c) \/ SyncFails(c)

Spec == Init /\ [][Next]_vars

\* Timers fire, statements end, and so does the closing of a socket (ws destroys it
\* after 30 s).  Nothing makes an attempt to connect succeed.
Fairness ==
  /\ \A s \in Sockets : WF_vars(Timeout(s)) /\ WF_vars(CloseEnds(s))
  /\ WF_vars(\E s \in Sockets : Reconnect(s))
  /\ WF_vars(\E r \in Readings : Enqueue(r))
  /\ \A c \in Syncs : WF_vars(SyncSteps(c))
  /\ WF_vars(\E c \in Syncs : BeginSync(c))
  /\ WF_vars(Exit)

FairSpec == Spec /\ Fairness

-----------------------------------------------------------------------------
(* Properties *)

TypeOK ==
  /\ mode \in {"down", "up", "closing", "stuck", "stopped"}
  /\ socket \in [Sockets -> {"closed", "connecting", "open", "closing"}]
  /\ ws \in Sockets \cup {None} /\ awaited \in Sockets \cup {None}
  /\ connected \in BOOLEAN /\ retryTimer \in BOOLEAN /\ collecting \in BOOLEAN
  /\ retryCount \in 0..MaxRetries
  /\ timeouts \subseteq Sockets
  /\ inserting \subseteq Readings /\ rows \in Seq(Readings) /\ synced \subseteq Readings
  /\ sync \in [Syncs -> [at : {"idle", "read", "send", "mark"}, batch : SUBSET Readings]]
  /\ wire \in [Sockets -> [Readings -> Nat]] /\ received \in [Readings -> Nat]
  /\ taken \subseteq Readings /\ resent \subseteq Readings
  /\ broken \in Nat /\ failures \in Nat /\ starts \in 0..MaxStarts

\* There is one connection or one attempt at a time, it is this.ws, and no retry is
\* pending beside it, although every socket schedules a retry and starts a timer
\* of its own that closes whatever socket is current when it fires.
OneConnection ==
  /\ Live \subseteq {ws}
  /\ retryTimer => Live = {}
  /\ connected => Live # {}

Unmarked == {r \in taken : \E i \in DOMAIN rows : rows[i] = r} \ synced
Copies(r) == {s \in Sockets : wire[s][r] > 0}

\* A reading that was taken is with the backend, on its way, or in the table waiting to be sent,
\* unless a connection broke, a statement failed or the client was stopped.  In
\* particular none is lost to connections that are refused or time out.
LostOnlyWithConnection ==
  broken = 0 /\ failures = 0 /\ mode = "up" /\ starts = 1 =>
    \A r \in taken :
      received[r] > 0 \/ Copies(r) # {} \/ r \in inserting \cup Unmarked

\* The backend gets a reading twice only if two calls read its row before either had marked it, or
\* the row was sent and not marked.
TwiceOnlyIfResent == \A r \in Readings : received[r] > 1 => r \in resent

\* stop() ends the process, even when the socket has closed before and the
\* promise of disconnect() is never fulfilled; provided start() had come to
\* its end, which otherwise sets the intervals stop() has cleared.
StopEnds ==
  mode \in {"closing", "stuck", "stopped"} /\ awaited = None /\ ~collecting ~> mode = "down"

\* What waits in the table is sent and marked, unless stop() is called or no
\* attempt to connect is left: a lost connection is followed by another
\* attempt, and the interval goes on syncing.
QueueDrains ==
  collecting /\ Unmarked # {} ~>
    Unmarked = {} \/ mode # "up" \/ ~collecting \/ retryCount = MaxRetries

\* README of the client: it works offline, "graceful handling of connection drops", and the
\* comment on a failed connection at start: "Continue in offline mode".  So once
\* started it takes readings, with or without a connection.
StartsCollecting == mode = "up" ~> collecting \/ mode # "up"
=============================================================================
