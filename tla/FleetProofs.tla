----------------------------- MODULE FleetProofs -----------------------------
(***************************************************************************)
(* Theorems about the fleet, for every number of servers, connections,     *)
(* rooms, messages, readings, sockets and faults: the maps of a server     *)
(* agree, a message is not delivered twice, only silent connections are    *)
(* dropped; the truck has one connection at a time, and accounts for its   *)
(* readings.                                                               *)
(***************************************************************************)
EXTENDS MCFleet, FiniteSetTheorems, TLAPS

-----------------------------------------------------------------------------
(* The servers: the inductive invariant *)

\* Messages are numbered in the order they are sent.
SentOK ==
  \E n \in 0 .. MaxSent :
    /\ DOMAIN sent = 1 .. n
    /\ \A m \in 1 .. n : sent[m] = [from |-> sent[m].from, key |-> sent[m].key, how |-> sent[m].how]
                         /\ sent[m].from \in Servers /\ sent[m].key \in R!Keys
                         /\ sent[m].how \in {"broadcast", "publish"}

\* The copy Redis still has for the server of a connection.
Waiting(c, m) == IF m \in channel[Home[c]] THEN 1 ELSE 0

\* A message that was not sent is nowhere; a published one is waited for once more.
CopiesOK ==
  /\ \A s \in Servers : channel[s] \subseteq DOMAIN sent
  /\ \A c \in Conns, m \in R!Messages :
       m \notin DOMAIN sent => got[c][m] = 0 /\ Waiting(c, m) = 0
  /\ \A c \in Conns, m \in DOMAIN sent :
       got[c][m] + Waiting(c, m) <= IF sent[m].how = "publish" /\ sent[m].from = Home[c] THEN 2 ELSE 1

\* A ping is unanswered for each heartbeat since the last pong, for each miss and for the timer
\* that runs.
SilenceOK ==
  \A c \in Conns :
    /\ ticks[c] <= unanswered[c]
    /\ missed[c] + (IF c \in missTimer THEN 1 ELSE 0) <= unanswered[c]

ServersInv == R!TypeOK /\ R!MapsAgree /\ SentOK /\ CopiesOK /\ SilenceOK

-----------------------------------------------------------------------------
(* The truck: the inductive invariant *)

\* Where the process stands.
ModeOK ==
  /\ mode = "down" =>
       /\ T!Live = {} /\ ~retryTimer /\ ~connected /\ timeouts = {} /\ awaited = None
       /\ ~collecting /\ inserting = {} /\ \A c \in Syncs : sync[c] = T!Idle
  /\ mode # "down" => ws \in Sockets
  /\ retryTimer => retryCount < MaxRetries
  /\ starts = 0 => mode = "down" /\ taken = {} /\ rows = <<>>
  /\ connected => \A s \in Sockets : socket[s] # "connecting"

InRows(r) == \E i \in DOMAIN rows : rows[i] = r

\* Rows are readings that were taken and inserted; those marked or being sent are in the table.
RowsOK ==
  /\ inserting \subseteq taken
  /\ \A r \in Readings : InRows(r) => r \in taken \ inserting
  /\ \A r \in synced : InRows(r)
  /\ \A c \in Syncs : /\ \A r \in sync[c].batch : InRows(r)
                      /\ sync[c].at \notin {"send", "mark"} => sync[c].batch = {}

\* Copies are on the wire of the current socket only, and not before it opens.
WireOK ==
  \A s \in Sockets, r \in Readings :
    /\ socket[s] \in {"closed", "connecting"} => wire[s][r] = 0
    /\ wire[s][r] > 0 => s = ws

OnWire(r) == IF ws \in Sockets THEN wire[ws][r] ELSE 0
Sent(r) == received[r] + OnWire(r)

\* A reading that no two calls have read, and that is not left unmarked, is sent once.
OnceOK ==
  \A r \in Readings \ resent :
    /\ Sent(r) <= 1
    /\ r \notin taken \/ r \in inserting => Sent(r) = 0
    /\ \A c, d \in Syncs : r \in sync[c].batch /\ r \in sync[d].batch => c = d
    /\ InRows(r) /\ r \notin synced /\ (\A c \in Syncs : r \in sync[c].batch => sync[c].at = "send")
         => Sent(r) = 0
    /\ r \in synced => \A c \in Syncs : r \notin sync[c].batch

\* Until something breaks, fails or stops.
Smooth == broken = 0 /\ failures = 0 /\ mode = "up" /\ starts = 1

OnItsWay(r) == received[r] > 0 \/ T!Copies(r) # {}

NoneLostOK ==
  Smooth =>
    /\ \A s \in Sockets : socket[s] # "open" => \A r \in Readings : wire[s][r] = 0
    /\ connected => socket[ws] = "open"
    /\ \A c \in Syncs : /\ sync[c].at # "idle" => connected
                        /\ sync[c].at = "mark" => \A r \in sync[c].batch : OnItsWay(r)
    /\ \A r \in taken : OnItsWay(r) \/ r \in inserting \cup T!Unmarked

\* The types of the connection, and of the readings.
NetTypes ==
  /\ mode \in {"down", "up", "closing", "stuck", "stopped"}
  /\ socket \in [Sockets -> {"closed", "connecting", "open", "closing"}]
  /\ ws \in Sockets \cup {None} /\ awaited \in Sockets \cup {None}
  /\ connected \in BOOLEAN /\ retryTimer \in BOOLEAN /\ collecting \in BOOLEAN
  /\ retryCount \in 0 .. MaxRetries
  /\ timeouts \subseteq Sockets
  /\ broken \in Nat /\ failures \in Nat /\ starts \in 0 .. MaxStarts
DataTypes ==
  /\ inserting \subseteq Readings /\ rows \in Seq(Readings) /\ synced \subseteq Readings
  /\ sync \in [Syncs -> [at : {"idle", "read", "send", "mark"}, batch : SUBSET Readings]]
  /\ wire \in [Sockets -> [Readings -> Nat]] /\ received \in [Readings -> Nat]
  /\ taken \subseteq Readings /\ resent \subseteq Readings

NetInv == NetTypes /\ T!OneConnection /\ ModeOK
DataInv == DataTypes /\ RowsOK /\ WireOK /\ OnceOK /\ NoneLostOK
TruckInv == NetInv /\ DataInv

-----------------------------------------------------------------------------
(* The servers: maps, types and silence *)

LEMMA ServersBounds ==
  /\ Home \in [Conns -> Servers]
  /\ MaxMissed \in Nat \ {0, 1} /\ MaxSent \in Nat /\ MaxDeaths \in Nat
  /\ \A c \in Conns, name \in Names : R!Scoped(c, name) \in R!Keys
BY Bounds DEF R!ConstantsOK, R!Scoped, R!Keys

MapsOK == R!TypeOK /\ R!MapsAgree /\ SilenceOK

LEMMA AttachMaps ==
  ASSUME MapsOK, NEW c \in Conns, R!Attach(c)
  PROVE  MapsOK'
<1>1. R!TypeOK'
  BY DEF MapsOK, R!TypeOK, R!Attach, R!sendVars
<1>2. R!MapsAgree'
  BY DEF MapsOK, R!TypeOK, R!MapsAgree, R!Attach
<1>3. SilenceOK'
  BY DEF MapsOK, SilenceOK, R!Attach
<1>4. QED BY <1>1, <1>2, <1>3 DEF MapsOK

\* What leaves the server's maps takes its rooms, its timer and its misses along.
LEMMA ForgetMaps ==
  ASSUME MapsOK, NEW C \in SUBSET Conns, R!Forget(C),
         tcp' \in [Conns -> {"unused", "open", "ended", "destroyed", "gone"}],
         \A c \in Conns : tcp'[c] = "open" <=> tcp[c] = "open" /\ c \notin C,
         UNCHANGED <<responsive, ticks, got, unanswered>>,
         channel' \in [Servers -> SUBSET R!Messages], deaths' \in 0 .. MaxDeaths
  PROVE  MapsOK'
<1>1. R!TypeOK'
  BY ServersBounds DEF MapsOK, R!TypeOK, R!Forget
<1>2. /\ \A s \in Servers, k \in R!Keys : rooms'[s][k] = rooms[s][k] \ C
      /\ \A c \in Conns : connRooms'[c] = IF c \in C THEN {} ELSE connRooms[c]
      /\ connections' = connections \ C /\ missTimer' = missTimer \ C
      /\ \A c \in Conns : missed'[c] = IF c \in C THEN 0 ELSE missed[c]
  BY DEF R!Forget
<1>3. R!MapsAgree'
  <2>1. ASSUME NEW s \in Servers, NEW k \in R!Keys, NEW c \in Conns
        PROVE  c \in rooms'[s][k] <=> Home[c] = s /\ k \in connRooms'[c]
    BY <1>2 DEF MapsOK, R!MapsAgree
  <2>2. \A c \in Conns : connRooms'[c] # {} \/ c \in missTimer' => c \in connections'
    BY <1>2 DEF MapsOK, R!MapsAgree
  <2>3. connections' = {c \in Conns : tcp'[c] = "open"}
    BY <1>2 DEF MapsOK, R!MapsAgree
  <2>4. QED BY <2>1, <2>2, <2>3 DEF R!MapsAgree
<1>4. SilenceOK'
  BY <1>2, ServersBounds DEF MapsOK, SilenceOK, R!TypeOK
<1>5. QED BY <1>1, <1>3, <1>4 DEF MapsOK

LEMMA JoinMaps ==
  ASSUME MapsOK, NEW c \in Conns, NEW name \in Names, R!Join(c, name) \/ R!Leave(c, name)
  PROVE  MapsOK'
<1>1. PICK key \in R!Keys : key = R!Scoped(c, name)
  BY ServersBounds
<1>2. PICK h \in Servers : h = Home[c]
  BY ServersBounds
<1>3. /\ UNCHANGED <<tcp, responsive, connections, ticks, missed, missTimer, channel, got, unanswered,
                     deaths>>
      /\ tcp[c] = "open"
  BY DEF R!Join, R!Leave, R!sendVars
<1>4. PICK D : /\ D = {c} /\ c \in connections
  BY <1>3 DEF MapsOK, R!MapsAgree
<1>5. CASE R!Join(c, name)
  <2>1. /\ rooms' = [rooms EXCEPT ![h][key] = @ \cup {c}]
        /\ connRooms' = [connRooms EXCEPT ![c] = @ \cup {key}]
    BY <1>1, <1>2, <1>5 DEF R!Join
  <2>2. R!TypeOK'
    BY <1>1, <1>3, <2>1 DEF MapsOK, R!TypeOK
  <2>3. /\ \A s \in Servers, k \in R!Keys :
             rooms'[s][k] = IF s = h /\ k = key THEN rooms[s][k] \cup {c} ELSE rooms[s][k]
        /\ \A d \in Conns : connRooms'[d] = IF d = c THEN connRooms[d] \cup {key} ELSE connRooms[d]
    BY <1>1, <2>1 DEF MapsOK, R!TypeOK
  <2>4. R!MapsAgree'
    <3>1. ASSUME NEW s \in Servers, NEW k \in R!Keys, NEW d \in Conns
          PROVE  d \in rooms'[s][k] <=> Home[d] = s /\ k \in connRooms'[d]
      <4>1. d \in rooms[s][k] <=> Home[d] = s /\ k \in connRooms[d]
        BY DEF MapsOK, R!MapsAgree
      <4>2. CASE d = c
        <5>1. Home[d] = h
          BY <1>2, <4>2
        <5>2. PICK in, out : in = rooms[s][k] /\ out = rooms'[s][k]
          OBVIOUS
        <5>3. CASE s = h /\ k = key
          BY <2>3, <4>2, <5>1, <5>3
        <5>4. CASE ~ (s = h /\ k = key)
          <6>1. out = in
            BY <2>3, <5>2, <5>4
          <6>2. CASE k = key
            BY <4>1, <4>2, <5>1, <5>2, <5>4, <6>1, <6>2
          <6>3. CASE k # key
            BY <2>3, <4>1, <4>2, <5>2, <6>1, <6>3
          <6>4. QED BY <6>2, <6>3
        <5>5. QED BY <5>3, <5>4
      <4>3. CASE d # c
        BY <2>3, <4>1, <4>3
      <4>4. QED BY <4>2, <4>3
    <3>2. \A d \in Conns : connRooms'[d] # {} \/ d \in missTimer' => d \in connections'
      BY <1>3, <1>4, <2>3 DEF MapsOK, R!MapsAgree
    <3>3. connections' = {d \in Conns : tcp'[d] = "open"}
      BY <1>3 DEF MapsOK, R!MapsAgree
    <3>4. QED BY <3>1, <3>2, <3>3 DEF R!MapsAgree
  <2>5. QED BY <1>3, <2>2, <2>4 DEF MapsOK, SilenceOK
<1>6. CASE R!Leave(c, name)
  <2>1. /\ rooms' = [rooms EXCEPT ![h][key] = @ \ {c}]
        /\ connRooms' = [connRooms EXCEPT ![c] = @ \ {key}]
    BY <1>1, <1>2, <1>6 DEF R!Leave
  <2>2. R!TypeOK'
    BY <1>1, <1>3, <2>1 DEF MapsOK, R!TypeOK
  <2>3. /\ \A s \in Servers, k \in R!Keys :
             rooms'[s][k] = IF s = h /\ k = key THEN rooms[s][k] \ {c} ELSE rooms[s][k]
        /\ \A d \in Conns : connRooms'[d] = IF d = c THEN connRooms[d] \ {key} ELSE connRooms[d]
    BY <1>1, <2>1 DEF MapsOK, R!TypeOK
  <2>4. R!MapsAgree'
    <3>1. ASSUME NEW s \in Servers, NEW k \in R!Keys, NEW d \in Conns
          PROVE  d \in rooms'[s][k] <=> Home[d] = s /\ k \in connRooms'[d]
      <4>1. d \in rooms[s][k] <=> Home[d] = s /\ k \in connRooms[d]
        BY DEF MapsOK, R!MapsAgree
      <4>2. CASE d = c
        <5>1. Home[d] = h
          BY <1>2, <4>2
        <5>2. PICK in, out : in = rooms[s][k] /\ out = rooms'[s][k]
          OBVIOUS
        <5>3. CASE s = h /\ k = key
          BY <2>3, <4>2, <5>1, <5>3
        <5>4. CASE ~ (s = h /\ k = key)
          <6>1. out = in
            BY <2>3, <5>2, <5>4
          <6>2. CASE k = key
            BY <4>1, <4>2, <5>1, <5>2, <5>4, <6>1, <6>2
          <6>3. CASE k # key
            BY <2>3, <4>1, <4>2, <5>2, <6>1, <6>3
          <6>4. QED BY <6>2, <6>3
        <5>5. QED BY <5>3, <5>4
      <4>3. CASE d # c
        BY <2>3, <4>1, <4>3
      <4>4. QED BY <4>2, <4>3
    <3>2. \A d \in Conns : connRooms'[d] # {} \/ d \in missTimer' => d \in connections'
      BY <1>3, <1>4, <2>3 DEF MapsOK, R!MapsAgree
    <3>3. connections' = {d \in Conns : tcp'[d] = "open"}
      BY <1>3 DEF MapsOK, R!MapsAgree
    <3>4. QED BY <3>1, <3>2, <3>3 DEF R!MapsAgree
  <2>5. QED BY <1>3, <2>2, <2>4 DEF MapsOK, SilenceOK
<1>7. QED BY <1>5, <1>6

LEMMA CloseMaps ==
  ASSUME MapsOK, NEW c \in Conns, R!CloseFrame(c) \/ R!End(c) \/ R!SocketClosed(c)
  PROVE  MapsOK'
<1>1. /\ R!Forget({c}) /\ UNCHANGED <<responsive, ticks, got, unanswered, channel, deaths>>
      /\ channel \in [Servers -> SUBSET R!Messages] /\ deaths \in 0 .. MaxDeaths
  BY DEF R!CloseFrame, R!End, R!SocketClosed, R!sendVars, MapsOK, R!TypeOK
<1>2. tcp' \in [Conns -> {"unused", "open", "ended", "destroyed", "gone"}]
  BY DEF R!CloseFrame, R!End, R!SocketClosed, R!Destroy, MapsOK, R!TypeOK
<1>3. \A d \in Conns : tcp'[d] = "open" <=> tcp[d] = "open" /\ d \notin {c}
  BY DEF R!CloseFrame, R!End, R!SocketClosed, R!Destroy, MapsOK, R!TypeOK
<1>4. QED BY <1>1, <1>2, <1>3, ForgetMaps

LEMMA ErrorMaps ==
  ASSUME MapsOK, NEW c \in Conns, R!SocketError(c)
  PROVE  MapsOK'
<1>1. PICK Lost \in SUBSET Conns :
        /\ Lost = {d \in Conns : Home[d] = Home[c] /\ tcp[d] # "unused"}
        /\ R!Forget(Lost)
        /\ tcp' = [d \in Conns |-> IF d \in Lost THEN "gone" ELSE tcp[d]]
  BY DEF R!SocketError
<1>2. /\ UNCHANGED <<responsive, ticks, got, unanswered>>
      /\ channel' \in [Servers -> SUBSET R!Messages] /\ deaths' \in 0 .. MaxDeaths
  BY ServersBounds DEF R!SocketError, MapsOK, R!TypeOK
<1>3. /\ tcp' \in [Conns -> {"unused", "open", "ended", "destroyed", "gone"}]
      /\ \A d \in Conns : tcp'[d] = "open" <=> tcp[d] = "open" /\ d \notin Lost
  BY <1>1 DEF MapsOK, R!TypeOK
<1>4. QED BY <1>1, <1>2, <1>3, ForgetMaps

LEMMA SilentMaps ==
  ASSUME MapsOK, NEW c \in Conns, R!GoSilent(c)
  PROVE  MapsOK'
<1>1. UNCHANGED <<tcp, connections, missed, missTimer, rooms, connRooms, ticks, channel, got,
                  unanswered, deaths>>
  BY DEF R!GoSilent, R!mapVars, R!sendVars
<1>2. responsive' \in [Conns -> BOOLEAN]
  BY DEF R!GoSilent, MapsOK, R!TypeOK
<1>3. QED BY <1>1, <1>2 DEF MapsOK, R!TypeOK, R!MapsAgree, SilenceOK

LEMMA PongMaps ==
  ASSUME MapsOK, NEW c \in Conns, R!Pong(c)
  PROVE  MapsOK'
<1>1. R!TypeOK'
  BY ServersBounds DEF R!Pong, R!sendVars, MapsOK, R!TypeOK
<1>2. R!MapsAgree'
  BY DEF R!Pong, MapsOK, R!MapsAgree
<1>3. SilenceOK'
  BY DEF R!Pong, MapsOK, SilenceOK, R!TypeOK
<1>4. QED BY <1>1, <1>2, <1>3 DEF MapsOK

LEMMA MissMaps ==
  ASSUME MapsOK, NEW c \in Conns, R!Miss(c)
  PROVE  MapsOK'
<1>1. c \in missTimer /\ UNCHANGED <<responsive, ticks, channel, got, unanswered, deaths>>
  BY DEF R!Miss, R!sendVars
<1>2. CASE missed[c] + 1 >= MaxMissed
  <2>1. R!Forget({c}) /\ R!Destroy({c})
    BY <1>2 DEF R!Miss
  <2>2. /\ tcp' \in [Conns -> {"unused", "open", "ended", "destroyed", "gone"}]
        /\ \A d \in Conns : tcp'[d] = "open" <=> tcp[d] = "open" /\ d \notin {c}
    BY <2>1 DEF R!Destroy, MapsOK, R!TypeOK
  <2>3. QED BY <1>1, <2>1, <2>2, ForgetMaps DEF MapsOK, R!TypeOK
<1>3. CASE missed[c] + 1 < MaxMissed
  <2>1. /\ missed' = [missed EXCEPT ![c] = missed[c] + 1] /\ missTimer' = missTimer \ {c}
        /\ UNCHANGED <<tcp, connections, rooms, connRooms>>
    BY <1>3, ServersBounds DEF R!Miss, MapsOK, R!TypeOK
  <2>2. missed[c] + 1 \in 0 .. (MaxMissed - 1)
    BY <1>3, ServersBounds DEF MapsOK, R!TypeOK
  <2>3. R!TypeOK'
    BY <1>1, <2>1, <2>2 DEF MapsOK, R!TypeOK
  <2>4. R!MapsAgree'
    BY <2>1 DEF MapsOK, R!MapsAgree
  <2>5. \A d \in Conns : /\ missed'[d] = IF d = c THEN missed[d] + 1 ELSE missed[d]
                         /\ missed[d] \in Nat /\ unanswered[d] \in Nat /\ ticks[d] \in Nat
    BY <2>1, ServersBounds DEF MapsOK, R!TypeOK
  <2>6. SilenceOK'
    BY <1>1, <2>1, <2>5 DEF MapsOK, SilenceOK
  <2>7. QED BY <2>3, <2>4, <2>6 DEF MapsOK
<1>4. QED BY <1>2, <1>3, ServersBounds DEF MapsOK, R!TypeOK

\* A heartbeat drops the late connections of its server, which have let enough pings pass, and
\* pings the others.
LEMMA HeartbeatMaps ==
  ASSUME MapsOK, NEW s \in Servers, R!Heartbeat(s)
  PROVE  /\ MapsOK'
         /\ \A c \in connections \ connections' : unanswered[c] >= MaxMissed - 1
<1>1. PICK late \in SUBSET {c \in R!On(s) : R!Overdue(c)} :
        LET Pinged == R!On(s) \ late
        IN /\ {c \in R!On(s) : ticks[c] >= MaxMissed} \subseteq late
           /\ R!Destroy(late)
           /\ connections' = connections \ late
           /\ missTimer' = (missTimer \ late) \cup Pinged
           /\ R!Counted(late, Pinged)
           /\ rooms' = [t \in Servers |-> [k \in R!Keys |-> rooms[t][k] \ late]]
           /\ connRooms' = [c \in Conns |-> IF c \in late THEN {} ELSE connRooms[c]]
           /\ unanswered' = [c \in Conns |-> IF c \in Pinged /\ unanswered[c] < MaxMissed
                                              THEN unanswered[c] + 1 ELSE unanswered[c]]
  BY DEF R!Heartbeat
<1>2. PICK Pinged : Pinged = R!On(s) \ late
  OBVIOUS
<1>3. /\ late \subseteq connections /\ Pinged \subseteq connections
      /\ connections \subseteq Conns /\ Pinged \cap missTimer = {}
      /\ \A c \in late : ticks[c] >= MaxMissed - 1
      /\ \A c \in Pinged : c \notin late /\ ~ (ticks[c] >= MaxMissed)
  BY <1>1, <1>2 DEF R!On, R!Overdue, MapsOK, R!TypeOK, R!Heartbeat
<1>4. /\ tcp' = [c \in Conns |-> IF c \in late THEN "destroyed" ELSE tcp[c]]
      /\ connections' = connections \ late
      /\ missTimer' = (missTimer \ late) \cup Pinged
      /\ ticks' = [c \in Conns |-> IF c \in Pinged THEN ticks[c] + 1 ELSE ticks[c]]
      /\ missed' = [c \in Conns |-> IF c \in late THEN 0 ELSE missed[c]]
      /\ rooms' = [t \in Servers |-> [k \in R!Keys |-> rooms[t][k] \ late]]
      /\ connRooms' = [c \in Conns |-> IF c \in late THEN {} ELSE connRooms[c]]
      /\ unanswered' = [c \in Conns |-> IF c \in Pinged /\ unanswered[c] < MaxMissed
                                         THEN unanswered[c] + 1 ELSE unanswered[c]]
  BY <1>1, <1>2 DEF R!Destroy, R!Counted
<1>5. UNCHANGED <<responsive, channel, got, deaths>>
  BY DEF R!Heartbeat, R!sendVars
<1>6. \A c \in Conns : /\ ticks[c] \in 0 .. MaxMissed /\ missed[c] \in 0 .. (MaxMissed - 1)
                       /\ unanswered[c] \in 0 .. MaxMissed
                       /\ ticks[c] <= unanswered[c]
                       /\ missed[c] + (IF c \in missTimer THEN 1 ELSE 0) <= unanswered[c]
  BY DEF MapsOK, R!TypeOK, SilenceOK
<1>7. R!TypeOK'
  <2>1. ticks' \in [Conns -> 0 .. MaxMissed]
    BY <1>3, <1>4, <1>6, ServersBounds
  <2>2. missed' \in [Conns -> 0 .. (MaxMissed - 1)]
    BY <1>4, <1>6, ServersBounds
  <2>3. unanswered' \in [Conns -> 0 .. MaxMissed]
    BY <1>4, <1>6, ServersBounds
  <2>4. /\ tcp' \in [Conns -> {"unused", "open", "ended", "destroyed", "gone"}]
        /\ connections' \subseteq Conns /\ missTimer' \subseteq Conns
    BY <1>3, <1>4 DEF MapsOK, R!TypeOK
  <2>5. /\ rooms' \in [Servers -> [R!Keys -> SUBSET Conns]]
        /\ connRooms' \in [Conns -> SUBSET R!Keys]
    BY <1>4 DEF MapsOK, R!TypeOK
  <2>6. QED BY <1>5, <2>1, <2>2, <2>3, <2>4, <2>5 DEF MapsOK, R!TypeOK
<1>8. R!MapsAgree'
  <2>1. ASSUME NEW t \in Servers, NEW k \in R!Keys, NEW c \in Conns
        PROVE  c \in rooms'[t][k] <=> Home[c] = t /\ k \in connRooms'[c]
    BY <1>4 DEF MapsOK, R!MapsAgree
  <2>2. \A c \in Conns : connRooms'[c] # {} \/ c \in missTimer' => c \in connections'
    BY <1>3, <1>4 DEF MapsOK, R!MapsAgree
  <2>3. connections' = {c \in Conns : tcp'[c] = "open"}
    BY <1>4 DEF MapsOK, R!MapsAgree
  <2>4. QED BY <2>1, <2>2, <2>3 DEF R!MapsAgree
<1>9. SilenceOK'
  <2>1. SUFFICES ASSUME NEW c \in Conns
                 PROVE  /\ ticks'[c] <= unanswered'[c]
                        /\ missed'[c] + (IF c \in missTimer' THEN 1 ELSE 0) <= unanswered'[c]
    BY DEF SilenceOK
  <2>2. CASE c \in Pinged
    BY <1>3, <1>4, <1>6, <2>2, ServersBounds
  <2>3. CASE c \notin Pinged
    BY <1>3, <1>4, <1>6, <2>3, ServersBounds
  <2>4. QED BY <2>2, <2>3
<1>10. \A c \in connections \ connections' : unanswered[c] >= MaxMissed - 1
  BY <1>3, <1>4, <1>6, ServersBounds
<1>11. QED BY <1>7, <1>8, <1>9, <1>10 DEF MapsOK

-----------------------------------------------------------------------------
(* The servers: messages *)

MessagesOK == SentOK /\ CopiesOK

LEMMA QuietMessages ==
  ASSUME MessagesOK, got' = got, sent' = sent,
         \A s \in Servers : channel'[s] \subseteq channel[s], R!TypeOK, R!TypeOK'
  PROVE  MessagesOK'
<1>1. SentOK'
  BY DEF MessagesOK, SentOK
<1>2. \A c \in Conns, m \in R!Messages : /\ Waiting(c, m)' \in {0, Waiting(c, m)}
                                         /\ Waiting(c, m) \in {0, 1} /\ got[c][m] \in Nat
  BY ServersBounds DEF Waiting, R!TypeOK
<1>3. \A m \in DOMAIN sent : m \in R!Messages
  BY ServersBounds DEF MessagesOK, SentOK, R!Messages
<1>4. CopiesOK'
  BY <1>2, <1>3 DEF MessagesOK, CopiesOK
<1>5. QED BY <1>1, <1>4 DEF MessagesOK

\* An instance has a name of its own for Cardinality.
LEMMA SameCount == \A S : R!Cardinality(S) = Cardinality(S)
BY DEF R!Cardinality, Cardinality

\* The next message is one that was not sent.
LEMMA NextIsNew ==
  ASSUME SentOK, NEW m \in R!Messages, R!NextMessage(m)
  PROVE  \E n \in 0 .. MaxSent : DOMAIN sent = 1 .. n /\ m = n + 1 /\ m \notin DOMAIN sent
<1>1. PICK n \in 0 .. MaxSent : DOMAIN sent = 1 .. n
  BY DEF SentOK
<1>2. n \in Nat /\ Cardinality(1 .. n) = n
  BY FS_Interval, ServersBounds
<1>3. m = n + 1
  <2>1. Cardinality(DOMAIN sent) = n
    BY <1>1, <1>2
  <2>2. m = Cardinality(DOMAIN sent) + 1
    BY SameCount DEF R!NextMessage
  <2>3. QED BY <2>1, <2>2
<1>4. m \notin 1 .. n
  BY <1>2, <1>3
<1>5. QED BY <1>1, <1>3, <1>4

LEMMA Recorded ==
  ASSUME SentOK, NEW m \in R!Messages, NEW s \in Servers, NEW key \in R!Keys,
         NEW how \in {"broadcast", "publish"}, R!NextMessage(m), R!Record(m, s, key, how)
  PROVE  /\ SentOK'
         /\ m \notin DOMAIN sent /\ DOMAIN sent' = DOMAIN sent \cup {m}
         /\ \A i \in DOMAIN sent : sent'[i] = sent[i]
         /\ sent'[m].from = s /\ sent'[m].key = key /\ sent'[m].how = how
<1>1. PICK n \in 0 .. MaxSent : DOMAIN sent = 1 .. n /\ m = n + 1 /\ m \notin DOMAIN sent
  BY NextIsNew
<1>2. /\ DOMAIN sent' = DOMAIN sent \cup {m}
      /\ \A i \in DOMAIN sent : sent'[i] = sent[i]
      /\ sent'[m] = [from |-> s, key |-> key, how |-> how]
  BY <1>1 DEF R!Record
<1>3. DOMAIN sent' = 1 .. m /\ m \in 0 .. MaxSent
  BY <1>1, <1>2, ServersBounds DEF R!Messages
<1>4. SentOK'
  <2>1. \A i \in 1 .. m : i \in 1 .. n \/ i = m
    BY <1>1, <1>3
  <2>2. \A i \in 1 .. n :
             sent[i] = [from |-> sent[i].from, key |-> sent[i].key, how |-> sent[i].how]
             /\ sent[i].from \in Servers /\ sent[i].key \in R!Keys
             /\ sent[i].how \in {"broadcast", "publish"}
    BY <1>1 DEF SentOK
  <2>3. \A i \in 1 .. m :
             sent'[i] = [from |-> sent'[i].from, key |-> sent'[i].key, how |-> sent'[i].how]
             /\ sent'[i].from \in Servers /\ sent'[i].key \in R!Keys
             /\ sent'[i].how \in {"broadcast", "publish"}
    BY <1>1, <1>2, <2>1, <2>2
  <2>4. QED BY <1>3, <2>3 DEF SentOK
<1>5. QED BY <1>1, <1>2, <1>4

\* A delivery gives one more copy to some connections of its server.
LEMMA Delivered ==
  ASSUME R!TypeOK, R!MapsAgree, NEW s \in Servers, NEW key \in R!Keys, NEW m \in R!Messages,
         R!Deliver(s, key, m)
  PROVE  /\ got' \in [Conns -> [R!Messages -> Nat]]
         /\ \A c \in Conns, i \in R!Messages :
              got'[c][i] = got[c][i]
              \/ (i = m /\ Home[c] = s /\ got'[c][i] = got[c][i] + 1)
<1>1. \A c \in R!Members(s, key) : Home[c] = s
  BY DEF R!Members, R!MapsAgree, R!TypeOK
<1>2. ASSUME NEW c \in Conns
      PROVE  /\ got'[c] \in [R!Messages -> Nat]
             /\ \A i \in R!Messages :
                  got'[c][i] = got[c][i]
                  \/ (i = m /\ Home[c] = s /\ got'[c][i] = got[c][i] + 1)
  BY <1>1 DEF R!Deliver, R!TypeOK
<1>3. QED BY <1>2 DEF R!Deliver

\* broadcastToRoom and publish: a copy here, and one more through Redis where it was published.
LEMMA SendMessages ==
  ASSUME MessagesOK, R!TypeOK, R!MapsAgree, NEW s \in Servers, NEW key \in R!Keys,
         NEW m \in R!Messages, NEW how \in {"broadcast", "publish"},
         R!NextMessage(m), R!Record(m, s, key, how), R!Deliver(s, key, m),
         \/ channel' = channel
         \/ how = "publish" /\ channel' = [t \in Servers |-> channel[t] \cup {m}]
  PROVE  MessagesOK' /\ channel' \in [Servers -> SUBSET R!Messages]
         /\ got' \in [Conns -> [R!Messages -> Nat]]
<1>1. /\ SentOK'
      /\ m \notin DOMAIN sent /\ DOMAIN sent' = DOMAIN sent \cup {m}
      /\ \A i \in DOMAIN sent : sent'[i] = sent[i]
      /\ sent'[m].from = s /\ sent'[m].key = key /\ sent'[m].how = how
  <2>1. SentOK
    BY DEF MessagesOK
  <2>2. QED BY <2>1, Recorded
<1>2. /\ got' \in [Conns -> [R!Messages -> Nat]]
      /\ \A c \in Conns, i \in R!Messages :
           got'[c][i] = got[c][i]
           \/ (i = m /\ Home[c] = s /\ got'[c][i] = got[c][i] + 1)
  BY Delivered
<1>3. channel' \in [Servers -> SUBSET R!Messages]
  BY DEF R!TypeOK
<1>4. \A i \in DOMAIN sent : i \in R!Messages
  BY ServersBounds DEF MessagesOK, SentOK, R!Messages
<1>5. ASSUME NEW c \in Conns, NEW i \in R!Messages
      PROVE  /\ Waiting(c, i)' = Waiting(c, i) \/ (i = m /\ how = "publish" /\ Waiting(c, i)' = 1)
             /\ Waiting(c, i) \in {0, 1} /\ got[c][i] \in Nat
  <2>1. Home[c] \in Servers
    BY ServersBounds
  <2>2. i \in channel'[Home[c]] <=> i \in channel[Home[c]] \/ (i = m /\ channel' # channel)
    BY <2>1 DEF R!TypeOK
  <2>3. QED BY <2>1, <2>2 DEF Waiting, R!TypeOK
<1>6. \A c \in Conns, i \in R!Messages :
           i \notin DOMAIN sent' => got'[c][i] = 0 /\ Waiting(c, i)' = 0
  BY <1>1, <1>2, <1>5 DEF MessagesOK, CopiesOK
<1>7. ASSUME NEW c \in Conns, NEW i \in DOMAIN sent'
      PROVE  got'[c][i] + Waiting(c, i)' <=
               IF sent'[i].how = "publish" /\ sent'[i].from = Home[c] THEN 2 ELSE 1
  <2>1. CASE i = m
    <3>1. got[c][m] = 0 /\ Waiting(c, m) = 0
      BY <1>1 DEF MessagesOK, CopiesOK
    <3>2. /\ got'[c][m] = 0 \/ (Home[c] = s /\ got'[c][m] = 1)
          /\ Waiting(c, m)' = 0 \/ (how = "publish" /\ Waiting(c, m)' = 1)
      BY <1>2, <1>5, <3>1
    <3>3. QED BY <1>1, <2>1, <3>2
  <2>2. CASE i # m
    <3>1. i \in DOMAIN sent /\ i \in R!Messages
      BY <1>1, <1>4, <2>2
    <3>2. got'[c][i] = got[c][i] /\ Waiting(c, i)' = Waiting(c, i) /\ sent'[i] = sent[i]
      BY <1>1, <1>2, <1>5, <2>2, <3>1
    <3>3. QED BY <3>1, <3>2 DEF MessagesOK, CopiesOK
  <2>3. QED BY <2>1, <2>2
<1>8. CopiesOK'
  <2>1. \A t \in Servers : channel'[t] \subseteq DOMAIN sent'
    BY <1>1 DEF MessagesOK, CopiesOK
  <2>2. QED BY <1>6, <1>7, <2>1 DEF CopiesOK
<1>9. QED BY <1>1, <1>2, <1>3, <1>8 DEF MessagesOK

\* 'pmessage': the copy that was waited for.
LEMMA HandMessages ==
  ASSUME MessagesOK, R!TypeOK, R!MapsAgree, NEW s \in Servers, NEW m \in R!Messages,
         R!PMessage(s, m)
  PROVE  MessagesOK' /\ channel' \in [Servers -> SUBSET R!Messages]
         /\ got' \in [Conns -> [R!Messages -> Nat]]
<1>1. m \in channel[s] /\ channel' = [channel EXCEPT ![s] = @ \ {m}] /\ sent' = sent
      /\ R!Deliver(s, sent[m].key, m)
  BY DEF R!PMessage
<1>2. \A i \in DOMAIN sent : i \in R!Messages
  BY ServersBounds DEF MessagesOK, SentOK, R!Messages
<1>3. ASSUME NEW c \in Conns, NEW i \in R!Messages
      PROVE  /\ Waiting(c, i) \in {0, 1} /\ got[c][i] \in Nat
             /\ Waiting(c, i)' = IF i = m /\ Home[c] = s THEN 0 ELSE Waiting(c, i)
             /\ i = m /\ Home[c] = s => Waiting(c, i) = 1
  <2>1. Home[c] \in Servers
    BY ServersBounds
  <2>2. i \in channel'[Home[c]] <=> i \in channel[Home[c]] /\ ~ (i = m /\ Home[c] = s)
    BY <1>1, <2>1 DEF R!TypeOK
  <2>3. QED BY <1>1, <2>1, <2>2 DEF Waiting, R!TypeOK
<1>4. channel' \in [Servers -> SUBSET R!Messages]
  BY <1>1 DEF R!TypeOK
<1>5. CASE m \in DOMAIN sent
  <2>1. sent[m].key \in R!Keys
    BY <1>5 DEF MessagesOK, SentOK
  <2>2. /\ got' \in [Conns -> [R!Messages -> Nat]]
        /\ \A c \in Conns, i \in R!Messages :
             got'[c][i] = got[c][i]
             \/ (i = m /\ Home[c] = s /\ got'[c][i] = got[c][i] + 1)
    BY <1>1, <2>1, Delivered
  <2>3. ASSUME NEW c \in Conns, NEW i \in R!Messages
        PROVE  /\ got'[c][i] + Waiting(c, i)' <= got[c][i] + Waiting(c, i)
               /\ i # m => got'[c][i] = got[c][i] /\ Waiting(c, i)' = Waiting(c, i)
    BY <1>3, <2>2
  <2>4. \A c \in Conns, i \in R!Messages : got'[c][i] \in Nat /\ Waiting(c, i)' \in {0, 1}
    BY <1>3, <2>2
  <2>5. CopiesOK'
    <3>1. \A c \in Conns, i \in R!Messages :
             i \notin DOMAIN sent' => got'[c][i] = 0 /\ Waiting(c, i)' = 0
      BY <1>1, <1>5, <2>3 DEF MessagesOK, CopiesOK
    <3>2. ASSUME NEW c \in Conns, NEW i \in DOMAIN sent'
          PROVE  got'[c][i] + Waiting(c, i)' <=
                   IF sent'[i].how = "publish" /\ sent'[i].from = Home[c] THEN 2 ELSE 1
      <4>1. i \in DOMAIN sent /\ i \in R!Messages /\ sent'[i] = sent[i]
        BY <1>1, <1>2
      <4>2. got[c][i] + Waiting(c, i) <=
              IF sent[i].how = "publish" /\ sent[i].from = Home[c] THEN 2 ELSE 1
        BY <4>1 DEF MessagesOK, CopiesOK
      <4>3. QED BY <1>3, <2>3, <2>4, <4>1, <4>2
    <3>3. \A t \in Servers : channel'[t] \subseteq DOMAIN sent'
      BY <1>1 DEF MessagesOK, CopiesOK, R!TypeOK
    <3>4. QED BY <3>1, <3>2, <3>3 DEF CopiesOK
  <2>6. SentOK'
    BY <1>1 DEF MessagesOK, SentOK
  <2>7. QED BY <1>4, <2>2, <2>5, <2>6 DEF MessagesOK
<1>6. m \in DOMAIN sent
  BY <1>1 DEF MessagesOK, CopiesOK
<1>7. QED BY <1>5, <1>6

-----------------------------------------------------------------------------
(* The servers: every step *)

LEMMA ServersInvParts == ServersInv <=> MapsOK /\ MessagesOK
BY DEF ServersInv, MapsOK, MessagesOK

LEMMA InitServers ==
  ASSUME R!Init
  PROVE  ServersInv
<1>1. R!TypeOK
  BY ServersBounds DEF R!Init, R!TypeOK
<1>2. R!MapsAgree
  BY DEF R!Init, R!MapsAgree
<1>3. SilenceOK
  BY DEF R!Init, SilenceOK
<1>4. DOMAIN sent = 1 .. 0 /\ 0 \in 0 .. MaxSent
  BY ServersBounds DEF R!Init
<1>5. SentOK
  BY <1>4 DEF SentOK
<1>6. CopiesOK
  BY <1>4, ServersBounds DEF R!Init, CopiesOK, Waiting
<1>7. QED BY <1>1, <1>2, <1>3, <1>5, <1>6 DEF ServersInv

\* A step on connections leaves the messages alone, or loses those that Redis still has.
LEMMA ServersStep ==
  ASSUME ServersInv, R!Next
  PROVE  ServersInv'
<1>1. MapsOK /\ MessagesOK
  BY ServersInvParts
<1>2. ASSUME MapsOK', got' = got, sent' = sent, \A s \in Servers : channel'[s] \subseteq channel[s]
      PROVE  ServersInv'
  <2>1. MessagesOK'
    BY <1>1, <1>2, QuietMessages DEF MapsOK
  <2>2. QED BY <1>2, <2>1, ServersInvParts, PTL
<1>3. ASSUME NEW c \in Conns,
             \/ R!Attach(c) \/ R!CloseFrame(c) \/ R!End(c) \/ R!SocketClosed(c)
             \/ R!GoSilent(c) \/ R!Pong(c) \/ R!Miss(c)
             \/ \E name \in Names : R!Join(c, name) \/ R!Leave(c, name)
      PROVE  ServersInv'
  <2>1. UNCHANGED <<channel, got, sent>>
    BY <1>3 DEF R!Attach, R!CloseFrame, R!End, R!SocketClosed, R!GoSilent, R!Pong, R!Miss, R!Join,
                R!Leave, R!sendVars
  <2>2. MapsOK'
    BY <1>1, <1>3, AttachMaps, CloseMaps, SilentMaps, PongMaps, MissMaps, JoinMaps
  <2>3. QED BY <1>2, <2>1, <2>2
<1>4. ASSUME NEW c \in Conns, R!SocketError(c) PROVE ServersInv'
  <2>1. got' = got /\ sent' = sent /\ \A s \in Servers : channel'[s] \subseteq channel[s]
    BY <1>1, <1>4 DEF R!SocketError, MapsOK, R!TypeOK
  <2>2. MapsOK'
    BY <1>1, <1>4, ErrorMaps
  <2>3. QED BY <1>2, <2>1, <2>2
<1>5. ASSUME NEW s \in Servers, R!Heartbeat(s) PROVE ServersInv'
  <2>1. UNCHANGED <<channel, got, sent>>
    BY <1>5 DEF R!Heartbeat, R!sendVars
  <2>2. MapsOK'
    BY <1>1, <1>5, HeartbeatMaps
  <2>3. QED BY <1>2, <2>1, <2>2
<1>6. ASSUME UNCHANGED <<tcp, responsive, R!mapVars, ticks, unanswered, deaths>>,
             channel' \in [Servers -> SUBSET R!Messages],
             got' \in [Conns -> [R!Messages -> Nat]]
      PROVE  MapsOK'
  BY <1>1, <1>6 DEF MapsOK, R!TypeOK, R!MapsAgree, SilenceOK, R!mapVars
<1>7. ASSUME NEW s \in Servers, NEW m \in R!Messages, NEW key \in R!Keys,
             R!Broadcast(s, key, m) \/ R!Publish(s, key, m)
      PROVE  ServersInv'
  <2>1. PICK how \in {"broadcast", "publish"} :
          /\ R!NextMessage(m) /\ R!Record(m, s, key, how) /\ R!Deliver(s, key, m)
          /\ \/ channel' = channel
             \/ how = "publish" /\ channel' = [t \in Servers |-> channel[t] \cup {m}]
    BY <1>7 DEF R!Broadcast, R!Publish
  <2>2. UNCHANGED <<tcp, responsive, R!mapVars, ticks, unanswered, deaths>>
    BY <1>7 DEF R!Broadcast, R!Publish
  <2>3. /\ MessagesOK' /\ channel' \in [Servers -> SUBSET R!Messages]
        /\ got' \in [Conns -> [R!Messages -> Nat]]
    BY <1>1, <2>1, SendMessages DEF MapsOK
  <2>4. QED BY <1>6, <2>2, <2>3, ServersInvParts, PTL
<1>8. ASSUME NEW s \in Servers, NEW m \in R!Messages, R!PMessage(s, m) PROVE ServersInv'
  <2>1. UNCHANGED <<tcp, responsive, R!mapVars, ticks, unanswered, deaths>>
    BY <1>8 DEF R!PMessage
  <2>2. /\ MessagesOK' /\ channel' \in [Servers -> SUBSET R!Messages]
        /\ got' \in [Conns -> [R!Messages -> Nat]]
    BY <1>1, <1>8, HandMessages DEF MapsOK
  <2>3. QED BY <1>6, <2>1, <2>2, ServersInvParts, PTL
<1>9. QED BY <1>3, <1>4, <1>5, <1>7, <1>8 DEF R!Next

LEMMA ServersStutter ==
  ASSUME ServersInv, UNCHANGED realtimeVars
  PROVE  ServersInv'
<1>1. UNCHANGED <<tcp, responsive, connections, ticks, missed, missTimer, rooms, connRooms, channel,
                  got, unanswered, sent, deaths>>
  BY DEF realtimeVars
<1>2. MapsOK /\ MessagesOK
  BY ServersInvParts
<1>3. MapsOK'
  BY <1>1, <1>2 DEF MapsOK, R!TypeOK, R!MapsAgree, SilenceOK
<1>4. MessagesOK'
  BY <1>1, <1>2, <1>3, QuietMessages DEF MapsOK
<1>5. QED BY <1>3, <1>4, ServersInvParts, PTL

\* A copy too many is one of a message published on the subscriber's own server.
LEMMA ServersEcho == ServersInv => R!EchoAtMostOnce
<1>1. SUFFICES ASSUME ServersInv, NEW c \in Conns, NEW m \in DOMAIN sent
               PROVE  got[c][m] <= IF sent[m].how = "publish" /\ sent[m].from = Home[c] THEN 2 ELSE 1
  BY DEF R!EchoAtMostOnce
<1>2. m \in R!Messages
  BY <1>1, ServersBounds DEF ServersInv, SentOK, R!Messages
<1>3. got[c][m] \in Nat /\ Waiting(c, m) \in {0, 1}
  BY <1>1, <1>2 DEF ServersInv, R!TypeOK, Waiting
<1>4. QED BY <1>1, <1>3 DEF ServersInv, CopiesOK

LEMMA DropsSilent ==
  ASSUME ServersInv, NEW c \in Conns, R!Heartbeat(Home[c]) \/ R!Miss(c),
         c \in connections \ connections'
  PROVE  unanswered[c] >= MaxMissed - 1
<1>1. CASE R!Heartbeat(Home[c])
  <2>1. PICK s \in Servers : s = Home[c]
    BY ServersBounds
  <2>2. QED BY <1>1, <2>1, HeartbeatMaps DEF ServersInv, MapsOK
<1>2. CASE R!Miss(c)
  <2>1. c \in missTimer /\ missed[c] + 1 >= MaxMissed
    BY <1>2 DEF R!Miss
  <2>2. missed[c] + 1 <= unanswered[c]
    BY <2>1 DEF ServersInv, SilenceOK
  <2>3. missed[c] \in Nat /\ unanswered[c] \in Nat
    BY ServersBounds DEF ServersInv, R!TypeOK
  <2>4. QED BY <2>1, <2>2, <2>3, ServersBounds
<1>3. QED BY <1>1, <1>2

-----------------------------------------------------------------------------
(* The truck: the connection *)

LEMMA TruckBounds ==
  /\ MaxRetries \in Nat /\ BatchSize \in Nat \ {0} /\ MaxFaults \in Nat /\ MaxStarts \in Nat
  /\ None \notin Sockets /\ Readings \subseteq Nat
BY Bounds DEF T!ConstantsOK

LEMMA TruckTypes == TruckInv => T!TypeOK
BY DEF TruckInv, NetInv, DataInv, NetTypes, DataTypes, T!TypeOK

LEMMA Idling == \A c \in Syncs : sync[c] = T!Idle => sync[c].at = "idle" /\ sync[c].batch = {}
BY DEF T!Idle

LEMMA StartNet ==
  ASSUME NetInv, NEW s \in Sockets, T!Start(s)
  PROVE  NetInv'
<1>1. /\ mode = "down" /\ mode' = "up" /\ starts < MaxStarts /\ starts' = starts + 1
      /\ socket' = [socket EXCEPT ![s] = "connecting"] /\ ws' = s /\ timeouts' = timeouts \cup {s}
      /\ awaited' = s
      /\ UNCHANGED <<connected, retryCount, retryTimer, collecting, sync, inserting, broken, failures>>
  BY DEF T!Start, T!Connect, T!queueVars
<1>2. T!Live = {} /\ ~retryTimer /\ ~connected
  BY <1>1 DEF NetInv, ModeOK
<1>3. NetTypes'
  BY <1>1, TruckBounds DEF NetInv, NetTypes
<1>4. T!Live' = {s}
  BY <1>1, <1>2 DEF T!Live, NetInv, NetTypes
<1>5. T!OneConnection'
  BY <1>1, <1>2, <1>4 DEF T!OneConnection
<1>6. ModeOK'
  BY <1>1, <1>2, TruckBounds DEF ModeOK, NetInv, NetTypes
<1>7. QED BY <1>3, <1>5, <1>6 DEF NetInv

LEMMA ReconnectNet ==
  ASSUME NetInv, NEW s \in Sockets, T!Reconnect(s)
  PROVE  NetInv'
<1>1. /\ retryTimer /\ retryTimer' = FALSE /\ retryCount' = retryCount + 1
      /\ socket' = [socket EXCEPT ![s] = "connecting"] /\ ws' = s /\ timeouts' = timeouts \cup {s}
      /\ UNCHANGED <<mode, connected, awaited, collecting, sync, inserting, rows, taken, broken,
                     failures, starts>>
  BY DEF T!Reconnect, T!Connect, T!queueVars
<1>2. T!Live = {} /\ ~connected /\ mode # "down" /\ retryCount < MaxRetries
  BY <1>1 DEF NetInv, T!OneConnection, ModeOK
<1>3. NetTypes'
  <2>1. mode' \in {"down", "up", "closing", "stuck", "stopped"}
    BY <1>1, <1>2 DEF NetInv, NetTypes
  <2>2. /\ socket' \in [Sockets -> {"closed", "connecting", "open", "closing"}]
        /\ ws' \in Sockets \cup {None} /\ awaited' \in Sockets \cup {None} /\ timeouts' \subseteq Sockets
    BY <1>1, <1>2 DEF NetInv, NetTypes
  <2>3. connected' \in BOOLEAN /\ retryTimer' \in BOOLEAN /\ collecting' \in BOOLEAN
    BY <1>1, <1>2 DEF NetInv, NetTypes
  <2>4. retryCount' \in 0 .. MaxRetries /\ broken' \in Nat /\ failures' \in Nat /\ starts' \in 0 .. MaxStarts
    BY <1>1, <1>2, TruckBounds DEF NetInv, NetTypes
  <2>5. QED BY <2>1, <2>2, <2>3, <2>4 DEF NetTypes
<1>4. T!Live' = {s}
  BY <1>1, <1>2 DEF T!Live, NetInv, NetTypes
<1>5. T!OneConnection'
  BY <1>1, <1>2, <1>4 DEF T!OneConnection
<1>6. ModeOK'
  BY <1>1, <1>2 DEF ModeOK, NetInv
<1>7. QED BY <1>3, <1>5, <1>6 DEF NetInv

LEMMA StopNet ==
  ASSUME NetInv, T!Stop
  PROVE  NetInv'
<1>1. /\ mode = "up" /\ collecting' = FALSE /\ retryTimer' = FALSE
      /\ mode' \in {"stuck", "closing"}
      /\ socket' = IF socket[ws] = "closed" THEN socket ELSE [socket EXCEPT ![ws] = "closing"]
      /\ UNCHANGED <<ws, connected, retryCount, timeouts, awaited, sync, inserting, rows, taken,
                     broken, failures, starts>>
  BY DEF T!Stop, T!queueVars
<1>2. ws \in Sockets
  BY <1>1 DEF NetInv, ModeOK
<1>3. /\ socket' \in [Sockets -> {"closed", "connecting", "open", "closing"}]
      /\ \A s \in Sockets : socket'[s] = "closed" <=> socket[s] = "closed"
      /\ \A s \in Sockets : socket'[s] = "connecting" => socket[s] = "connecting"
  BY <1>1, <1>2 DEF NetInv, NetTypes
<1>4. NetTypes'
  BY <1>1, <1>3 DEF NetInv, NetTypes
<1>5. T!Live' = T!Live
  BY <1>3 DEF T!Live
<1>6. T!OneConnection'
  BY <1>1, <1>5 DEF NetInv, T!OneConnection
<1>7. ModeOK'
  BY <1>1, <1>2, <1>3 DEF ModeOK, NetInv
<1>8. QED BY <1>4, <1>6, <1>7 DEF NetInv

LEMMA GoneNet ==
  ASSUME NetInv, T!Gone, broken' \in Nat
  PROVE  NetInv'
<1>1. /\ mode' = "down" /\ \A s \in Sockets : socket'[s] = "closed"
      /\ socket' \in [Sockets -> {"closed", "connecting", "open", "closing"}]
      /\ ws' = None /\ connected' = FALSE /\ retryCount' = 0 /\ retryTimer' = FALSE /\ timeouts' = {}
      /\ awaited' = None /\ collecting' = FALSE /\ inserting' = {}
      /\ \A c \in Syncs : sync'[c] = T!Idle
      /\ UNCHANGED <<rows, taken, failures, starts>>
  BY DEF T!Gone
<1>2. NetTypes'
  <2>1. mode' \in {"down", "up", "closing", "stuck", "stopped"}
    BY <1>1 DEF NetInv, NetTypes
  <2>2. /\ socket' \in [Sockets -> {"closed", "connecting", "open", "closing"}]
        /\ ws' \in Sockets \cup {None} /\ awaited' \in Sockets \cup {None} /\ timeouts' \subseteq Sockets
    BY <1>1 DEF NetInv, NetTypes
  <2>3. connected' \in BOOLEAN /\ retryTimer' \in BOOLEAN /\ collecting' \in BOOLEAN
    BY <1>1 DEF NetInv, NetTypes
  <2>4. retryCount' \in 0 .. MaxRetries /\ broken' \in Nat /\ failures' \in Nat /\ starts' \in 0 .. MaxStarts
    BY <1>1, TruckBounds DEF NetInv, NetTypes
  <2>5. QED BY <2>1, <2>2, <2>3, <2>4 DEF NetTypes
<1>3. T!Live' = {}
  BY <1>1 DEF T!Live
<1>4. T!OneConnection' /\ ModeOK'
  BY <1>1, <1>3 DEF NetInv, T!OneConnection, ModeOK
<1>5. QED BY <1>2, <1>4 DEF NetInv

\* A socket that is not closed is the current one, and its process runs.
LEMMA Current ==
  ASSUME NetInv, NEW s \in Sockets, socket[s] # "closed"
  PROVE  s = ws /\ mode # "down" /\ ~retryTimer /\ T!Live = {s}
<1>1. s \in T!Live
  BY DEF T!Live
<1>2. QED BY <1>1 DEF NetInv, T!OneConnection, ModeOK

LEMMA OpenNet ==
  ASSUME NetInv, NEW s \in Sockets, NEW c \in Syncs, T!Open(s, c)
  PROVE  NetInv'
<1>1. /\ socket[s] = "connecting" /\ socket' = [socket EXCEPT ![s] = "open"]
      /\ connected' = TRUE /\ retryCount' = 0
      /\ (awaited' = None /\ collecting' = TRUE) \/ UNCHANGED <<awaited, collecting>>
      /\ UNCHANGED <<mode, ws, retryTimer, timeouts, inserting, rows, taken, broken, failures, starts>>
  BY DEF T!Open, T!queueVars
<1>2. s = ws /\ mode # "down" /\ ~retryTimer /\ T!Live = {s}
  BY <1>1, Current
<1>3. NetTypes'
  <2>1. mode' \in {"down", "up", "closing", "stuck", "stopped"}
    BY <1>1 DEF NetInv, NetTypes
  <2>2. /\ socket' \in [Sockets -> {"closed", "connecting", "open", "closing"}]
        /\ ws' \in Sockets \cup {None} /\ awaited' \in Sockets \cup {None} /\ timeouts' \subseteq Sockets
    BY <1>1 DEF NetInv, NetTypes
  <2>3. connected' \in BOOLEAN /\ retryTimer' \in BOOLEAN /\ collecting' \in BOOLEAN
    BY <1>1 DEF NetInv, NetTypes
  <2>4. retryCount' \in 0 .. MaxRetries /\ broken' \in Nat /\ failures' \in Nat /\ starts' \in 0 .. MaxStarts
    BY <1>1, TruckBounds DEF NetInv, NetTypes
  <2>5. QED BY <2>1, <2>2, <2>3, <2>4 DEF NetTypes
<1>4. T!Live' = T!Live /\ \A t \in Sockets : socket'[t] # "connecting"
  BY <1>1, <1>2 DEF T!Live, NetInv, NetTypes
<1>5. T!OneConnection'
  BY <1>1, <1>2, <1>4 DEF T!OneConnection
<1>6. ModeOK'
  BY <1>1, <1>2, <1>4 DEF ModeOK, NetInv
<1>7. QED BY <1>3, <1>5, <1>6 DEF NetInv

LEMMA PeerNet ==
  ASSUME NetInv, NEW s \in Sockets, T!PeerCloses(s)
  PROVE  NetInv'
<1>1. /\ socket[s] = "open" /\ socket' = [socket EXCEPT ![s] = "closing"] /\ broken' = broken + 1
      /\ UNCHANGED <<mode, ws, connected, retryCount, retryTimer, timeouts, awaited, collecting,
                     sync, inserting, rows, taken, failures, starts>>
  BY DEF T!PeerCloses, T!ConnectionFails, T!queueVars
<1>2. NetTypes'
  BY <1>1 DEF NetInv, NetTypes
<1>3. T!Live' = T!Live /\ \A t \in Sockets : socket'[t] = "connecting" => socket[t] = "connecting"
  BY <1>1 DEF T!Live, NetInv, NetTypes
<1>4. T!OneConnection'
  BY <1>1, <1>3 DEF T!OneConnection, NetInv
<1>5. ModeOK'
  BY <1>1, <1>3 DEF ModeOK, NetInv
<1>6. QED BY <1>2, <1>4, <1>5 DEF NetInv

LEMMA ClosedNet ==
  ASSUME NetInv, NEW s \in Sockets, socket[s] # "closed", T!Closed(s), broken' \in Nat
  PROVE  NetInv'
<1>1. /\ connected' = FALSE /\ socket' = [socket EXCEPT ![s] = "closed"]
      /\ retryTimer' = (retryCount < MaxRetries)
      /\ mode' \in {mode, "stopped"}
      /\ UNCHANGED <<ws, retryCount, timeouts, awaited, collecting, sync, inserting, rows, taken,
                     failures, starts>>
  BY DEF T!Closed, T!ScheduleReconnect, T!queueVars
<1>2. s = ws /\ mode # "down" /\ T!Live = {s}
  BY Current
<1>3. NetTypes'
  <2>1. mode' \in {"down", "up", "closing", "stuck", "stopped"}
    BY <1>1 DEF NetInv, NetTypes
  <2>2. /\ socket' \in [Sockets -> {"closed", "connecting", "open", "closing"}]
        /\ ws' \in Sockets \cup {None} /\ awaited' \in Sockets \cup {None} /\ timeouts' \subseteq Sockets
    BY <1>1 DEF NetInv, NetTypes
  <2>3. connected' \in BOOLEAN /\ retryTimer' \in BOOLEAN /\ collecting' \in BOOLEAN
    <3>1. retryCount \in Int /\ MaxRetries \in Int
      BY TruckBounds DEF NetInv, NetTypes
    <3>2. retryTimer' \in BOOLEAN
      <4>1. (retryCount < MaxRetries) \in BOOLEAN
        BY <3>1, SMT
      <4>2. QED BY <1>1, <4>1, Zenon
    <3>3. connected' \in BOOLEAN /\ collecting' \in BOOLEAN
      BY <1>1 DEF NetInv, NetTypes
    <3>4. QED BY <3>2, <3>3
  <2>4. retryCount' \in 0 .. MaxRetries /\ broken' \in Nat /\ failures' \in Nat /\ starts' \in 0 .. MaxStarts
    BY <1>1, TruckBounds DEF NetInv, NetTypes
  <2>5. QED BY <2>1, <2>2, <2>3, <2>4 DEF NetTypes
<1>4. T!Live' = {}
  BY <1>1, <1>2 DEF T!Live, NetInv, NetTypes
<1>5. T!OneConnection'
  BY <1>1, <1>4 DEF T!OneConnection
<1>6. ModeOK'
  BY <1>1, <1>2 DEF ModeOK, NetInv
<1>7. QED BY <1>3, <1>5, <1>6 DEF NetInv

LEMMA TimeoutNet ==
  ASSUME NetInv, NEW s \in Sockets, T!Timeout(s)
  PROVE  NetInv'
<1>1. /\ s \in timeouts /\ timeouts' = timeouts \ {s}
      /\ socket' = socket \/ (~connected /\ socket[ws] = "connecting"
                              /\ socket' = [socket EXCEPT ![ws] = "closing"])
      /\ (awaited' = None /\ collecting' = TRUE) \/ UNCHANGED <<awaited, collecting>>
      /\ UNCHANGED <<mode, ws, connected, retryCount, retryTimer, sync, inserting, rows, taken,
                     broken, failures, starts>>
  BY DEF T!Timeout, T!queueVars
<1>2. mode # "down" /\ ws \in Sockets
  BY <1>1 DEF NetInv, ModeOK
<1>3. /\ socket' \in [Sockets -> {"closed", "connecting", "open", "closing"}]
      /\ \A t \in Sockets : socket'[t] = "closed" <=> socket[t] = "closed"
      /\ \A t \in Sockets : socket'[t] = "connecting" => socket[t] = "connecting"
  BY <1>1, <1>2 DEF NetInv, NetTypes
<1>4. NetTypes'
  BY <1>1, <1>3, TruckBounds DEF NetInv, NetTypes
<1>5. T!Live' = T!Live
  BY <1>3 DEF T!Live
<1>6. T!OneConnection'
  BY <1>1, <1>5 DEF NetInv, T!OneConnection
<1>7. ModeOK'
  BY <1>1, <1>2, <1>3 DEF ModeOK, NetInv
<1>8. QED BY <1>4, <1>6, <1>7 DEF NetInv

\* A step of the running process on its readings leaves the connection alone.
LEMMA ReadingsNet ==
  ASSUME NetInv, mode # "down", UNCHANGED <<mode, T!netVars, awaited, collecting, broken, starts>>,
         failures' \in Nat
  PROVE  NetInv'
<1>1. UNCHANGED <<socket, ws, connected, retryCount, retryTimer, timeouts>>
  BY DEF T!netVars
<1>2. NetTypes'
  BY <1>1 DEF NetInv, NetTypes
<1>3. T!OneConnection'
  BY <1>1 DEF NetInv, T!OneConnection, T!Live
<1>4. ModeOK'
  BY <1>1 DEF NetInv, ModeOK
<1>5. QED BY <1>2, <1>3, <1>4 DEF NetInv

-----------------------------------------------------------------------------
(* The truck: the readings *)

LEMMA WayIs ==
  \A r \in Readings : OnItsWay(r) <=> received[r] > 0 \/ \E s \in Sockets : wire[s][r] > 0
BY DEF OnItsWay, T!Copies

LEMMA UnmarkedIs ==
  \A r \in Readings : r \in T!Unmarked <=> r \in taken /\ InRows(r) /\ r \notin synced
BY DEF T!Unmarked, InRows

\* A copy on the wire is on that of the current socket.
LEMMA WireIs ==
  ASSUME DataInv, NEW r \in Readings
  PROVE  /\ \A s \in Sockets : wire[s][r] \in Nat /\ (s # ws => wire[s][r] = 0)
         /\ received[r] \in Nat /\ OnWire(r) \in Nat
  BY DEF DataInv, DataTypes, WireOK, OnWire

\* Connections come and go, and calls begin, without a reading moving.
Calm ==
  /\ UNCHANGED <<inserting, rows, synced, wire, received, taken, resent>>
  /\ sync' \in [Syncs -> [at : {"idle", "read", "send", "mark"}, batch : SUBSET Readings]]
  /\ \A c \in Syncs : /\ sync'[c].batch = sync[c].batch
                      /\ sync'[c].at = sync[c].at \/ (sync[c].at = "idle" /\ sync'[c].at = "read")
  /\ \A s \in Sockets : socket'[s] \in {"closed", "connecting"} =>
                         \A r \in Readings : wire[s][r] = 0
  /\ ws' = ws \/ \A s \in Sockets, r \in Readings : wire[s][r] = 0
CalmSmooth ==
  Smooth' => /\ Smooth
             /\ \A s \in Sockets : socket'[s] # "open" => \A r \in Readings : wire[s][r] = 0
             /\ connected' => socket'[ws'] = "open"
             /\ \A c \in Syncs : sync'[c].at # "idle" => connected'

LEMMA CalmData ==
  ASSUME DataInv, Calm, CalmSmooth
  PROVE  DataInv'
<1>1. DataTypes'
  BY DEF DataInv, DataTypes, Calm
<1>2. RowsOK'
  BY DEF DataInv, RowsOK, InRows, Calm
<1>3. \A s \in Sockets, r \in Readings : wire[s][r] \in Nat
  BY DEF DataInv, DataTypes, Calm
<1>4. WireOK'
  BY <1>3 DEF DataInv, WireOK, Calm
<1>5. \A r \in Readings : OnWire(r)' = OnWire(r)
  BY <1>3 DEF OnWire, DataInv, WireOK, Calm
<1>6. \A r \in Readings : Sent(r)' = Sent(r)
  BY <1>5 DEF Sent, Calm
<1>7. \A r \in Readings, c \in Syncs : r \in sync[c].batch => sync'[c].at = sync[c].at
  BY DEF DataInv, RowsOK, Calm
<1>8. OnceOK'
  BY <1>6, <1>7 DEF DataInv, OnceOK, InRows, Calm
<1>9. NoneLostOK'
  <2>1. \A r \in Readings : OnItsWay(r)' = OnItsWay(r)
    BY DEF OnItsWay, T!Copies, Calm
  <2>2. T!Unmarked' = T!Unmarked
    BY DEF T!Unmarked, Calm
  <2>3. taken \subseteq Readings /\ \A c \in Syncs : sync[c].batch \subseteq Readings
    BY DEF DataInv, DataTypes, Calm
  <2>4. QED BY <2>1, <2>2, <2>3 DEF DataInv, NoneLostOK, Calm, CalmSmooth
<1>10. QED BY <1>1, <1>2, <1>4, <1>8, <1>9 DEF DataInv

\* The state of one call changes, the rows it holds do not.
LEMMA CallMoves ==
  ASSUME DataInv, NEW c \in Syncs, NEW x \in {"read", "mark"}, sync' = [sync EXCEPT ![c].at = x]
  PROVE  /\ sync' \in [Syncs -> [at : {"idle", "read", "send", "mark"}, batch : SUBSET Readings]]
         /\ \A d \in Syncs : /\ sync'[d].batch = sync[d].batch
                             /\ sync'[d].at = IF d = c THEN x ELSE sync[d].at
BY DEF DataInv, DataTypes

LEMMA StartData ==
  ASSUME NetInv, DataInv, NEW s \in Sockets, T!Start(s)
  PROVE  DataInv'
<1>1. /\ mode = "down" /\ starts' = starts + 1
      /\ UNCHANGED <<inserting, rows, synced, sync, wire, received, taken, resent, connected>>
  BY DEF T!Start, T!queueVars, T!flowVars
<1>2. \A t \in Sockets, r \in Readings : wire[t][r] = 0
  BY <1>1 DEF NetInv, ModeOK, T!Live, DataInv, WireOK
<1>3. ~connected /\ \A c \in Syncs : sync[c] = T!Idle
  BY <1>1 DEF NetInv, ModeOK
<1>4. CASE starts = 0
  <2>1. taken = {} /\ rows = <<>>
    BY <1>4 DEF NetInv, ModeOK
  <2>2. DataTypes' /\ RowsOK' /\ WireOK'
    BY <1>1, <1>2 DEF DataInv, DataTypes, RowsOK, InRows, WireOK
  <2>3. \A r \in Readings : Sent(r)' = Sent(r)
    BY <1>1, <1>2 DEF Sent, OnWire
  <2>4. OnceOK'
    BY <1>1, <2>3 DEF DataInv, OnceOK, InRows
  <2>5. NoneLostOK'
    BY <1>1, <1>2, <1>3, <2>1 DEF NoneLostOK, T!Idle
  <2>6. QED BY <2>2, <2>4, <2>5 DEF DataInv
<1>5. CASE starts # 0
  <2>1. ~Smooth'
    BY <1>1, <1>5 DEF Smooth, NetInv, NetTypes
  <2>2. Calm
    BY <1>1, <1>2 DEF Calm, DataInv, DataTypes
  <2>3. QED BY <2>1, <2>2, CalmData DEF CalmSmooth
<1>6. QED BY <1>4, <1>5

LEMMA ReconnectData ==
  ASSUME NetInv, DataInv, NEW s \in Sockets, T!Reconnect(s)
  PROVE  DataInv'
<1>1. /\ retryTimer
      /\ UNCHANGED <<inserting, rows, synced, sync, wire, received, taken, resent, connected, mode,
                     broken, failures, starts>>
  BY DEF T!Reconnect, T!queueVars, T!flowVars
<1>2. T!Live = {} /\ ~connected
  BY <1>1 DEF NetInv, T!OneConnection
<1>3. \A t \in Sockets, r \in Readings : wire[t][r] = 0
  BY <1>2 DEF T!Live, DataInv, WireOK
<1>4. Smooth' => Smooth /\ \A c \in Syncs : sync[c].at = "idle"
  BY <1>1, <1>2 DEF Smooth, DataInv, NoneLostOK
<1>5. Calm
  BY <1>1, <1>3 DEF Calm, DataInv, DataTypes
<1>6. CalmSmooth
  BY <1>1, <1>2, <1>3, <1>4 DEF CalmSmooth
<1>7. QED BY <1>5, <1>6, CalmData

LEMMA StopData ==
  ASSUME NetInv, DataInv, T!Stop
  PROVE  DataInv'
<1>1. /\ mode = "up" /\ mode' # "up"
      /\ socket' = IF socket[ws] = "closed" THEN socket ELSE [socket EXCEPT ![ws] = "closing"]
      /\ UNCHANGED <<inserting, rows, synced, sync, wire, received, taken, resent, ws>>
  BY DEF T!Stop, T!queueVars, T!flowVars
<1>2. \A s \in Sockets : socket'[s] \in {"closed", "connecting"} => socket[s] = socket'[s]
  BY <1>1 DEF NetInv, NetTypes
<1>3. Calm
  BY <1>1, <1>2 DEF Calm, DataInv, DataTypes, WireOK
<1>4. CalmSmooth
  BY <1>1 DEF CalmSmooth, Smooth
<1>5. QED BY <1>3, <1>4, CalmData

LEMMA PeerData ==
  ASSUME NetInv, DataInv, NEW s \in Sockets, T!PeerCloses(s)
  PROVE  DataInv'
<1>1. /\ broken' = broken + 1 /\ socket' = [socket EXCEPT ![s] = "closing"]
      /\ UNCHANGED <<inserting, rows, synced, sync, wire, received, taken, resent, ws>>
  BY DEF T!PeerCloses, T!ConnectionFails, T!queueVars, T!flowVars
<1>2. \A t \in Sockets : socket'[t] \in {"closed", "connecting"} => socket[t] = socket'[t]
  BY <1>1 DEF NetInv, NetTypes
<1>3. ~Smooth'
  BY <1>1 DEF Smooth, NetInv, NetTypes
<1>4. Calm
  BY <1>1, <1>2 DEF Calm, DataInv, DataTypes, WireOK
<1>5. QED BY <1>3, <1>4, CalmData DEF CalmSmooth

LEMMA TimeoutData ==
  ASSUME NetInv, DataInv, NEW s \in Sockets, T!Timeout(s)
  PROVE  DataInv'
<1>1. /\ socket' = socket \/ (~connected /\ socket[ws] = "connecting"
                              /\ socket' = [socket EXCEPT ![ws] = "closing"])
      /\ UNCHANGED <<inserting, rows, synced, sync, wire, received, taken, resent, ws, connected,
                     mode, broken, failures, starts>>
  BY DEF T!Timeout, T!queueVars, T!flowVars
<1>2. \A t \in Sockets : \/ socket'[t] = socket[t]
                         \/ socket[t] = "connecting" /\ socket'[t] = "closing"
  BY <1>1 DEF NetInv, NetTypes
<1>3. \A t \in Sockets : socket'[t] \in {"closed", "connecting"} =>
                           \A r \in Readings : wire[t][r] = 0
  BY <1>2 DEF DataInv, WireOK
<1>4. \A t \in Sockets : socket[t] = "connecting" => \A r \in Readings : wire[t][r] = 0
  BY DEF DataInv, WireOK
<1>5. CalmSmooth
  BY <1>1, <1>2, <1>4 DEF CalmSmooth, Smooth, DataInv, NoneLostOK
<1>6. Calm
  BY <1>1, <1>3 DEF Calm, DataInv, DataTypes
<1>7. QED BY <1>5, <1>6, CalmData

LEMMA OpenData ==
  ASSUME NetInv, DataInv, NEW s \in Sockets, NEW c \in Syncs, T!Open(s, c)
  PROVE  DataInv'
<1>1. /\ socket[s] = "connecting" /\ sync[c].at = "idle" /\ connected'
      /\ socket' = [socket EXCEPT ![s] = "open"]
      /\ sync' = [sync EXCEPT ![c].at = "read"]
      /\ UNCHANGED <<inserting, rows, synced, wire, received, taken, resent, ws, mode, broken,
                     failures, starts>>
  BY DEF T!Open, T!Busy, T!queueVars, T!flowVars
<1>2. s = ws
  BY <1>1, Current
<1>3. \A t \in Sockets : socket'[t] = IF t = s THEN "open" ELSE socket[t]
  BY <1>1 DEF NetInv, NetTypes
<1>4. \A t \in Sockets : socket'[t] \in {"closed", "connecting"} =>
                           \A r \in Readings : wire[t][r] = 0
  BY <1>3 DEF DataInv, WireOK
<1>5. Smooth' => /\ Smooth
                 /\ \A t \in Sockets : socket'[t] # "open" => \A r \in Readings : wire[t][r] = 0
                 /\ connected' => socket'[ws'] = "open"
  BY <1>1, <1>2, <1>3 DEF Smooth, DataInv, NoneLostOK
<1>6. CalmSmooth
  BY <1>1, <1>5 DEF CalmSmooth
<1>7. Calm
  BY <1>1, <1>4, CallMoves DEF Calm
<1>8. QED BY <1>6, <1>7, CalmData

LEMMA BeginData ==
  ASSUME NetInv, DataInv, NEW c \in Syncs, T!BeginSync(c)
  PROVE  DataInv'
<1>1. /\ sync[c].at = "idle" /\ connected
      /\ sync' = [sync EXCEPT ![c].at = "read"]
      /\ UNCHANGED <<inserting, rows, synced, wire, received, taken, resent, ws, mode, broken,
                     failures, starts, connected, socket>>
  BY DEF T!BeginSync, T!Busy, T!queueVars, T!flowVars, T!netVars
<1>2. \A t \in Sockets : socket'[t] \in {"closed", "connecting"} =>
                           \A r \in Readings : wire[t][r] = 0
  BY <1>1 DEF DataInv, WireOK
<1>3. Smooth' => /\ Smooth
                 /\ \A t \in Sockets : socket'[t] # "open" => \A r \in Readings : wire[t][r] = 0
                 /\ connected' => socket'[ws'] = "open"
  BY <1>1 DEF Smooth, DataInv, NoneLostOK
<1>4. CalmSmooth
  BY <1>1, <1>3 DEF CalmSmooth
<1>5. Calm
  BY <1>1, <1>2, CallMoves DEF Calm
<1>6. QED BY <1>4, <1>5, CalmData

\* What is on the wire of a socket that closes is lost, but nothing was, unless the
\* connection breaks: it was empty where the socket had not been open, and a
\* connection that the other side closes is broken.
LEMMA ClosedData ==
  ASSUME NetInv, DataInv, NEW s \in Sockets, socket[s] # "closed", T!Closed(s),
         (broken' = broken /\ socket[s] # "open") \/ broken' = broken + 1
  PROVE  DataInv'
<1>1. /\ connected' = FALSE /\ socket' = [socket EXCEPT ![s] = "closed"]
      /\ wire' = [wire EXCEPT ![s] = T!Nothing]
      /\ mode' \in {mode, "stopped"}
      /\ UNCHANGED <<ws, inserting, rows, synced, sync, received, taken, resent, failures, starts>>
  BY DEF T!Closed, T!queueVars
<1>2. s = ws
  BY Current
<1>3. /\ wire' \in [Sockets -> [Readings -> Nat]]
      /\ \A t \in Sockets, r \in Readings : wire'[t][r] = IF t = s THEN 0 ELSE wire[t][r]
  BY <1>1 DEF DataInv, DataTypes, T!Nothing
<1>4. \A t \in Sockets : socket'[t] = IF t = s THEN "closed" ELSE socket[t]
  BY <1>1 DEF NetInv, NetTypes
<1>5. DataTypes' /\ RowsOK'
  BY <1>1, <1>3 DEF DataInv, DataTypes, RowsOK, InRows
<1>6. WireOK'
  BY <1>1, <1>3, <1>4 DEF DataInv, WireOK
<1>7. \A r \in Readings : Sent(r) \in Nat /\ Sent(r)' \in Nat /\ Sent(r)' <= Sent(r)
  <2>1. SUFFICES ASSUME NEW r \in Readings
                 PROVE  Sent(r) \in Nat /\ Sent(r)' \in Nat /\ Sent(r)' <= Sent(r)
    OBVIOUS
  <2>2. OnWire(r)' = 0
    BY <1>1, <1>2, <1>3 DEF OnWire
  <2>3. OnWire(r) \in Nat /\ received[r] \in Nat
    BY WireIs
  <2>4. QED BY <1>1, <2>2, <2>3 DEF Sent
<1>8. OnceOK'
  BY <1>1, <1>7 DEF DataInv, OnceOK, InRows
<1>9. ASSUME Smooth' PROVE Smooth /\ socket[s] # "open"
  BY <1>1, <1>9 DEF Smooth, NetInv, NetTypes
<1>10. NoneLostOK'
  <2>1. SUFFICES ASSUME Smooth'
                 PROVE  /\ \A t \in Sockets : socket'[t] # "open" =>
                                                \A r \in Readings : wire'[t][r] = 0
                        /\ \A c \in Syncs : sync'[c].at = "idle"
                        /\ \A r \in taken' : OnItsWay(r)' \/ r \in inserting' \cup T!Unmarked'
    BY <1>1 DEF NoneLostOK
  <2>2. Smooth /\ socket[s] # "open"
    BY <1>9, <2>1
  <2>3. ~connected
    BY <1>2, <2>2 DEF DataInv, NoneLostOK
  <2>4. \A t \in Sockets, r \in Readings : wire'[t][r] = wire[t][r]
    BY <1>3, <2>2 DEF DataInv, NoneLostOK
  <2>5. \A r \in Readings : OnItsWay(r)' = OnItsWay(r)
    BY <1>1, <2>4 DEF OnItsWay, T!Copies
  <2>6. T!Unmarked' = T!Unmarked
    BY <1>1 DEF T!Unmarked
  <2>7. taken \subseteq Readings
    BY DEF DataInv, DataTypes
  <2>8. QED BY <1>1, <1>4, <2>2, <2>3, <2>4, <2>5, <2>6, <2>7 DEF DataInv, NoneLostOK
<1>11. QED BY <1>5, <1>6, <1>8, <1>10 DEF DataInv

LEMMA GoneData ==
  ASSUME NetInv, DataInv, T!Gone
  PROVE  DataInv'
<1>1. /\ mode' = "down" /\ ws' = None /\ inserting' = {}
      /\ wire' \in [Sockets -> [Readings -> Nat]]
      /\ \A s \in Sockets, r \in Readings : wire'[s][r] = 0
      /\ sync' \in [Syncs -> [at : {"idle", "read", "send", "mark"}, batch : SUBSET Readings]]
      /\ \A c \in Syncs : sync'[c].at = "idle" /\ sync'[c].batch = {}
      /\ resent' = resent \cup UNION {sync[c].batch : c \in Syncs}
      /\ UNCHANGED <<rows, synced, received, taken>>
  BY DEF T!Gone, T!Idle, T!Nothing
<1>2. resent' \subseteq Readings
  BY <1>1 DEF DataInv, DataTypes
<1>3. DataTypes'
  BY <1>1, <1>2 DEF DataInv, DataTypes
<1>4. RowsOK'
  BY <1>1 DEF DataInv, RowsOK, InRows
<1>5. WireOK'
  BY <1>1 DEF WireOK
<1>6. \A r \in Readings : Sent(r) \in Nat /\ Sent(r)' \in Nat /\ Sent(r)' <= Sent(r)
  <2>1. SUFFICES ASSUME NEW r \in Readings
                 PROVE  Sent(r) \in Nat /\ Sent(r)' \in Nat /\ Sent(r)' <= Sent(r)
    OBVIOUS
  <2>2. OnWire(r)' = 0
    BY <1>1, TruckBounds DEF OnWire
  <2>3. OnWire(r) \in Nat /\ received[r] \in Nat
    BY WireIs
  <2>4. QED BY <1>1, <2>2, <2>3 DEF Sent
<1>7. \A r \in Readings \ resent' : r \notin resent /\ \A c \in Syncs : r \notin sync[c].batch
  BY <1>1
<1>8. OnceOK'
  BY <1>1, <1>6, <1>7 DEF DataInv, OnceOK, InRows
<1>9. NoneLostOK'
  BY <1>1 DEF NoneLostOK, Smooth
<1>10. QED BY <1>3, <1>4, <1>5, <1>8, <1>9 DEF DataInv

-----------------------------------------------------------------------------
(* The truck: a reading and its rows *)

\* What WsClient.send puts on the wire of the current socket.
LEMMA SendWire ==
  ASSUME DataInv, NEW X \in SUBSET Readings, T!Send(X), connected => ws \in Sockets
  PROVE  /\ wire' \in [Sockets -> [Readings -> Nat]]
         /\ \A s \in Sockets, r \in Readings :
              wire'[s][r] = IF connected /\ socket[ws] = "open" /\ s = ws /\ r \in X
                            THEN wire[s][r] + 1 ELSE wire[s][r]
<1>1. CASE connected /\ socket[ws] = "open"
  <2>1. wire' = [wire EXCEPT ![ws] = [r \in Readings |-> IF r \in X THEN wire[ws][r] + 1
                                                         ELSE wire[ws][r]]]
    BY <1>1 DEF T!Send
  <2>2. QED BY <1>1, <2>1 DEF DataInv, DataTypes
<1>2. CASE ~(connected /\ socket[ws] = "open")
  BY <1>2 DEF T!Send, DataInv, DataTypes
<1>3. QED BY <1>1, <1>2

\* Nothing that was sent is unsent.
LEMMA SendWay ==
  ASSUME DataInv, NEW X \in SUBSET Readings, T!Send(X), connected => ws \in Sockets, received' = received
  PROVE  /\ \A r \in Readings : OnItsWay(r) => OnItsWay(r)'
         /\ connected /\ socket[ws] = "open" => \A r \in X : OnItsWay(r)'
<1>1. \A s \in Sockets, r \in Readings : wire[s][r] \in Nat
  BY DEF DataInv, DataTypes
<1>2. \A r \in Readings : OnItsWay(r)' <=> received[r] > 0 \/ \E s \in Sockets : wire'[s][r] > 0
  BY DEF OnItsWay, T!Copies
<1>3. QED BY <1>1, <1>2, SendWire, WayIs

LEMMA SendSent ==
  ASSUME DataInv, NEW X \in SUBSET Readings, T!Send(X), connected => ws \in Sockets,
         UNCHANGED <<received, ws>>
  PROVE  \A r \in Readings :
           /\ Sent(r) \in Nat
           /\ r \notin X => Sent(r)' = Sent(r)
           /\ r \in X => Sent(r)' \in {Sent(r), Sent(r) + 1}
<1>1. SUFFICES ASSUME NEW r \in Readings
               PROVE  /\ Sent(r) \in Nat
                      /\ r \notin X => Sent(r)' = Sent(r)
                      /\ r \in X => Sent(r)' \in {Sent(r), Sent(r) + 1}
  OBVIOUS
<1>2. OnWire(r) \in Nat /\ received[r] \in Nat
  BY WireIs
<1>3. OnWire(r)' = OnWire(r) \/ (r \in X /\ OnWire(r)' = OnWire(r) + 1)
  BY SendWire DEF OnWire
<1>4. QED BY <1>2, <1>3 DEF Sent

LEMMA CollectData ==
  ASSUME NetInv, DataInv, NEW r \in Readings, T!Collect(r)
  PROVE  DataInv'
<1>1. /\ r \notin taken /\ taken' = taken \cup {r}
      /\ UNCHANGED <<mode, socket, ws, connected, rows, synced, sync, received, resent, broken,
                     failures, starts>>
      /\ inserting' = IF connected THEN inserting ELSE inserting \cup {r}
      /\ (connected /\ T!Send({r})) \/ (~connected /\ wire' = wire)
  BY DEF T!Collect, T!netVars
<1>2. connected => ws \in Sockets
  BY DEF NetInv, ModeOK
<1>3. PICK X \in SUBSET Readings : T!Send(X) /\ X = (IF connected THEN {r} ELSE {})
  <2>1. CASE connected
    BY <1>1, <2>1
  <2>2. CASE ~connected
    <3>1. T!Send({})
      BY <1>1, <2>2 DEF T!Send
    <3>2. QED BY <2>2, <3>1
  <2>3. QED BY <2>1, <2>2
<1>4. /\ wire' \in [Sockets -> [Readings -> Nat]]
      /\ \A s \in Sockets, q \in Readings :
           wire'[s][q] = IF connected /\ socket[ws] = "open" /\ s = ws /\ q \in X
                         THEN wire[s][q] + 1 ELSE wire[s][q]
  BY <1>2, <1>3, SendWire
<1>5. ~InRows(r) /\ r \notin inserting /\ r \notin synced /\ \A c \in Syncs : r \notin sync[c].batch
  BY <1>1 DEF DataInv, RowsOK
<1>6. DataTypes'
  BY <1>1, <1>4 DEF DataInv, DataTypes
<1>7. RowsOK'
  <2>1. inserting' \subseteq taken' /\ inserting \subseteq inserting' /\ inserting' \subseteq inserting \cup {r}
    BY <1>1 DEF DataInv, RowsOK
  <2>2. \A q \in Readings : InRows(q)' <=> InRows(q)
    BY <1>1 DEF InRows
  <2>3. \A q \in Readings : InRows(q) => q \in taken' \ inserting'
    BY <1>1, <1>5, <2>1 DEF DataInv, RowsOK
  <2>4. QED BY <1>1, <2>1, <2>2, <2>3 DEF DataInv, DataTypes, RowsOK
<1>8. WireOK'
  <2>1. socket' = socket /\ ws' = ws
    BY <1>1
  <2>2. ASSUME NEW s \in Sockets, NEW q \in Readings
        PROVE  /\ socket[s] \in {"closed", "connecting"} => wire'[s][q] = 0
               /\ wire'[s][q] > 0 => s = ws
    <3>1. /\ socket[s] \in {"closed", "connecting"} => wire[s][q] = 0
          /\ wire[s][q] > 0 => s = ws
      BY <1>1 DEF DataInv, WireOK
    <3>2. CASE connected /\ socket[ws] = "open" /\ s = ws /\ q \in X
      BY <3>2
    <3>3. CASE ~(connected /\ socket[ws] = "open" /\ s = ws /\ q \in X)
      BY <1>4, <3>1, <3>3
    <3>4. QED BY <3>2, <3>3
  <2>3. QED BY <2>1, <2>2 DEF WireOK
<1>9. \A q \in Readings :
           /\ Sent(q) \in Nat
           /\ q \notin X => Sent(q)' = Sent(q)
           /\ q \in X => Sent(q)' \in {Sent(q), Sent(q) + 1}
  BY <1>1, <1>2, <1>3, SendSent
<1>10. OnceOK'
  <2>1. SUFFICES ASSUME NEW q \in Readings \ resent
                 PROVE  /\ Sent(q)' <= 1
                        /\ q \notin taken' \/ q \in inserting' => Sent(q)' = 0
                        /\ \A c, d \in Syncs : q \in sync[c].batch /\ q \in sync[d].batch => c = d
                        /\ InRows(q) /\ q \notin synced
                             /\ (\A c \in Syncs : q \in sync[c].batch => sync[c].at = "send")
                             => Sent(q)' = 0
                        /\ q \in synced => \A c \in Syncs : q \notin sync[c].batch
    BY <1>1 DEF OnceOK, InRows
  <2>2. CASE q # r
    <3>1. Sent(q)' = Sent(q)
      BY <1>3, <1>9, <2>2
    <3>2. QED BY <1>1, <2>2, <3>1 DEF DataInv, OnceOK
  <2>3. CASE q = r
    <3>1. Sent(r) = 0
      BY <1>1, <2>3 DEF DataInv, OnceOK
    <3>2. Sent(r)' <= 1 /\ (X = {} => Sent(r)' = 0)
      BY <1>9, <3>1
    <3>3. r \in inserting' => X = {}
      BY <1>1, <1>3, <1>5
    <3>4. QED BY <1>1, <1>5, <2>3, <3>2, <3>3
  <2>4. QED BY <2>2, <2>3
<1>11. NoneLostOK'
  <2>1. SUFFICES ASSUME Smooth'
                 PROVE  /\ \A s \in Sockets : socket[s] # "open" => \A q \in Readings : wire'[s][q] = 0
                        /\ connected => socket[ws] = "open"
                        /\ \A c \in Syncs : /\ sync[c].at # "idle" => connected
                                            /\ sync[c].at = "mark" =>
                                                 \A q \in sync[c].batch : OnItsWay(q)'
                        /\ \A q \in taken' : OnItsWay(q)' \/ q \in inserting' \cup T!Unmarked'
    BY <1>1 DEF NoneLostOK
  <2>2. Smooth
    BY <1>1, <2>1 DEF Smooth
  <2>3. /\ \A q \in Readings : OnItsWay(q) => OnItsWay(q)'
        /\ connected /\ socket[ws] = "open" => \A q \in X : OnItsWay(q)'
    BY <1>1, <1>2, <1>3, SendWay
  <2>4. \A q \in Readings : q \in T!Unmarked => q \in T!Unmarked'
    BY <1>1 DEF T!Unmarked
  <2>5. taken \subseteq Readings /\ \A c \in Syncs : sync[c].batch \subseteq Readings
    BY DEF DataInv, DataTypes
  <2>6. OnItsWay(r)' \/ r \in inserting'
    BY <1>1, <1>3, <2>2, <2>3 DEF DataInv, NoneLostOK
  <2>7. \A q \in taken' : OnItsWay(q)' \/ q \in inserting' \cup T!Unmarked'
    BY <1>1, <2>2, <2>3, <2>4, <2>5, <2>6 DEF DataInv, NoneLostOK
  <2>8. \A s \in Sockets : socket[s] # "open" => \A q \in Readings : wire'[s][q] = 0
    BY <1>4, <2>2 DEF DataInv, NoneLostOK
  <2>9. QED BY <2>2, <2>3, <2>5, <2>7, <2>8 DEF DataInv, NoneLostOK
<1>12. QED BY <1>6, <1>7, <1>8, <1>10, <1>11 DEF DataInv

\* Copies sent do not change with the table and its calls.
LEMMA SentStays ==
  ASSUME UNCHANGED <<received, wire, ws>>
  PROVE  /\ \A r \in Readings : Sent(r)' = Sent(r) /\ OnItsWay(r)' = OnItsWay(r)
  BY DEF Sent, OnWire, OnItsWay, T!Copies

LEMMA EnqueueData ==
  ASSUME NetInv, DataInv, NEW r \in Readings, T!Enqueue(r)
  PROVE  DataInv'
<1>1. /\ r \in inserting /\ inserting' = inserting \ {r} /\ rows' = Append(rows, r)
      /\ UNCHANGED <<mode, socket, ws, connected, synced, sync, wire, received, taken, resent, broken,
                     failures, starts>>
  BY DEF T!Enqueue, T!netVars, T!flowVars
<1>2. rows \in Seq(Readings) /\ inserting \subseteq Readings
  BY DEF DataInv, DataTypes
<1>3. rows' \in Seq(Readings) /\ \A q \in Readings : InRows(q)' <=> InRows(q) \/ q = r
  <2>1. /\ rows' \in Seq(Readings) /\ DOMAIN rows' = 1 .. Len(rows) + 1 /\ DOMAIN rows = 1 .. Len(rows)
        /\ rows'[Len(rows) + 1] = r /\ \A i \in DOMAIN rows : rows'[i] = rows[i]
        /\ Len(rows) \in Nat
    BY <1>1, <1>2
  <2>2. QED BY <2>1 DEF InRows
<1>4. DataTypes'
  BY <1>1, <1>2, <1>3 DEF DataInv, DataTypes
<1>5. RowsOK'
  BY <1>1, <1>2, <1>3 DEF DataInv, DataTypes, RowsOK
<1>6. WireOK'
  BY <1>1 DEF DataInv, WireOK
<1>7. r \in taken /\ ~InRows(r) /\ r \notin synced /\ \A c \in Syncs : r \notin sync[c].batch
  BY <1>1, <1>2 DEF DataInv, RowsOK
<1>8. OnceOK'
  BY <1>1, <1>3, <1>7, SentStays DEF DataInv, OnceOK
<1>9. NoneLostOK'
  <2>1. \A q \in Readings : q \in T!Unmarked' <=> q \in T!Unmarked \/ q = r
    <3>1. \A q \in Readings : q \in T!Unmarked' <=> q \in taken' /\ InRows(q)' /\ q \notin synced'
      BY DEF T!Unmarked, InRows
    <3>2. QED BY <1>1, <1>3, <1>7, <3>1, UnmarkedIs
  <2>2. taken \subseteq Readings /\ \A c \in Syncs : sync[c].batch \subseteq Readings
    BY DEF DataInv, DataTypes
  <2>3. Smooth' => Smooth
    BY <1>1 DEF Smooth
  <2>4. QED BY <1>1, <2>1, <2>2, <2>3, SentStays DEF DataInv, NoneLostOK
<1>10. QED BY <1>4, <1>5, <1>6, <1>8, <1>9 DEF DataInv

LEMMA EnqueueFailsData ==
  ASSUME NetInv, DataInv, NEW r \in Readings, T!EnqueueFails(r)
  PROVE  DataInv'
<1>1. /\ inserting' = inserting \ {r} /\ failures' = failures + 1
      /\ UNCHANGED <<mode, socket, ws, connected, rows, synced, sync, wire, received, taken, resent,
                     broken, starts>>
  BY DEF T!EnqueueFails, T!Fails, T!netVars, T!flowVars
<1>2. DataTypes' /\ RowsOK' /\ WireOK'
  BY <1>1 DEF DataInv, DataTypes, RowsOK, InRows, WireOK
<1>3. OnceOK'
  BY <1>1, SentStays DEF DataInv, OnceOK, InRows
<1>4. NoneLostOK'
  BY <1>1 DEF NoneLostOK, Smooth, NetInv, NetTypes
<1>5. QED BY <1>2, <1>3, <1>4 DEF DataInv

\* getUnsynced reads rows that are in the table and not marked.
LEMMA BatchIs ==
  ASSUME DataInv
  PROVE  T!Batch \subseteq Readings /\ \A r \in T!Batch : InRows(r) /\ r \notin synced
<1>1. rows \in Seq(Readings) /\ \A i \in DOMAIN rows : rows[i] \in Readings
  BY DEF DataInv, DataTypes
<1>2. ASSUME NEW r \in T!Batch
      PROVE  \E i \in DOMAIN rows : rows[i] = r /\ rows[i] \notin synced
  BY DEF T!Batch, T!Unsynced
<1>3. QED BY <1>1, <1>2 DEF InRows

LEMMA ReadData ==
  ASSUME NetInv, DataInv, NEW c \in Syncs, T!ReadRows(c)
  PROVE  DataInv'
<1> DEFINE others == UNION {sync[d].batch : d \in Syncs \ {c}}
<1>1. /\ sync[c].at = "read"
      /\ sync' = [sync EXCEPT ![c] = IF T!Batch = {} THEN T!Idle
                                     ELSE [at |-> "send", batch |-> T!Batch]]
      /\ resent' = resent \cup (T!Batch \cap others)
      /\ UNCHANGED <<mode, socket, ws, connected, inserting, rows, synced, wire, received, taken,
                     broken, failures, starts>>
  BY DEF T!ReadRows, T!netVars, T!queueVars, T!flowVars
<1>2. PICK B \in SUBSET Readings : B = T!Batch /\ \A r \in B : InRows(r) /\ r \notin synced
  BY BatchIs
<1>3. /\ sync' \in [Syncs -> [at : {"idle", "read", "send", "mark"}, batch : SUBSET Readings]]
      /\ \A d \in Syncs : IF d = c
                          THEN sync'[d].batch = B /\ sync'[d].at \in {"idle", "send"}
                               /\ (sync'[d].at = "idle" => B = {})
                          ELSE sync'[d] = sync[d]
  BY <1>1, <1>2 DEF T!Idle, DataInv, DataTypes
<1>4. resent' \subseteq Readings /\ \A r \in Readings \ resent' :
        r \notin resent /\ (r \in B => \A d \in Syncs \ {c} : r \notin sync[d].batch)
  BY <1>1, <1>2 DEF DataInv, DataTypes
<1>5. sync[c].batch = {}
  BY <1>1 DEF DataInv, RowsOK
<1>6. DataTypes'
  BY <1>1, <1>3, <1>4 DEF DataInv, DataTypes
<1>7. \A r \in Readings : InRows(r)' <=> InRows(r)
  BY <1>1 DEF InRows
<1>8. RowsOK'
  <2>1. \A d \in Syncs : /\ \A r \in sync'[d].batch : InRows(r)'
                         /\ sync'[d].at \notin {"send", "mark"} => sync'[d].batch = {}
    BY <1>2, <1>3, <1>7 DEF DataInv, DataTypes, RowsOK
  <2>2. QED BY <1>1, <1>7, <2>1 DEF DataInv, DataTypes, RowsOK
<1>9. WireOK'
  BY <1>1 DEF DataInv, WireOK
<1>10. OnceOK'
  <2>1. SUFFICES ASSUME NEW r \in Readings \ resent'
                 PROVE  /\ Sent(r) <= 1
                        /\ r \notin taken \/ r \in inserting => Sent(r) = 0
                        /\ \A d, e \in Syncs : r \in sync'[d].batch /\ r \in sync'[e].batch => d = e
                        /\ InRows(r) /\ r \notin synced
                             /\ (\A d \in Syncs : r \in sync'[d].batch => sync'[d].at = "send")
                             => Sent(r) = 0
                        /\ r \in synced => \A d \in Syncs : r \notin sync'[d].batch
    BY <1>1, <1>7, SentStays DEF OnceOK
  <2>2. /\ r \notin resent /\ r \in Readings
        /\ (r \in B => \A d \in Syncs \ {c} : r \notin sync[d].batch)
    BY <1>4
  <2>3. \A d, e \in Syncs : r \in sync'[d].batch /\ r \in sync'[e].batch => d = e
    BY <1>3, <2>2 DEF DataInv, OnceOK
  <2>4. ASSUME \A d \in Syncs : r \in sync'[d].batch => sync'[d].at = "send"
        PROVE  \A d \in Syncs : r \in sync[d].batch => sync[d].at = "send"
    BY <1>3, <1>5, <2>4
  <2>5. r \in synced => \A d \in Syncs : r \notin sync'[d].batch
    BY <1>2, <1>3, <2>2 DEF DataInv, OnceOK
  <2>6. QED BY <2>2, <2>3, <2>4, <2>5 DEF DataInv, OnceOK
<1>11. NoneLostOK'
  <2>1. T!Unmarked' = T!Unmarked
    BY <1>1 DEF T!Unmarked
  <2>2. Smooth' => Smooth
    BY <1>1 DEF Smooth
  <2>3. taken \subseteq Readings /\ \A d \in Syncs : sync[d].batch \subseteq Readings
    BY DEF DataInv, DataTypes
  <2>4. \A d \in Syncs : /\ sync'[d].at # "idle" => sync[d].at # "idle"
                         /\ sync'[d].at = "mark" => sync'[d] = sync[d]
    BY <1>1, <1>3
  <2>5. QED BY <1>1, <2>1, <2>2, <2>3, <2>4, SentStays DEF DataInv, NoneLostOK
<1>12. QED BY <1>6, <1>8, <1>9, <1>10, <1>11 DEF DataInv

LEMMA SendBatchData ==
  ASSUME NetInv, DataInv, NEW c \in Syncs, T!SendBatch(c)
  PROVE  DataInv'
<1>1. /\ sync[c].at = "send" /\ T!Send(sync[c].batch) /\ sync' = [sync EXCEPT ![c].at = "mark"]
      /\ UNCHANGED <<mode, socket, ws, connected, inserting, rows, synced, received, taken, resent,
                     broken, failures, starts>>
  BY DEF T!SendBatch, T!netVars, T!queueVars
<1>2. PICK X \in SUBSET Readings : X = sync[c].batch /\ T!Send(X)
  BY <1>1 DEF DataInv, DataTypes
<1>3. connected => ws \in Sockets
  BY DEF NetInv, ModeOK
<1>4. /\ sync' \in [Syncs -> [at : {"idle", "read", "send", "mark"}, batch : SUBSET Readings]]
      /\ \A d \in Syncs : /\ sync'[d].batch = sync[d].batch
                          /\ sync'[d].at = IF d = c THEN "mark" ELSE sync[d].at
  BY <1>1, CallMoves
<1>5. /\ wire' \in [Sockets -> [Readings -> Nat]]
      /\ \A s \in Sockets, q \in Readings :
           wire'[s][q] = IF connected /\ socket[ws] = "open" /\ s = ws /\ q \in X
                         THEN wire[s][q] + 1 ELSE wire[s][q]
  BY <1>2, <1>3, SendWire
<1>6. \A r \in Readings : InRows(r)' <=> InRows(r)
  BY <1>1 DEF InRows
<1>7. DataTypes'
  BY <1>1, <1>4, <1>5 DEF DataInv, DataTypes
<1>8. RowsOK'
  <2>1. \A d \in Syncs : /\ \A r \in sync'[d].batch : InRows(r)'
                         /\ sync'[d].at \notin {"send", "mark"} => sync'[d].batch = {}
    BY <1>4, <1>6 DEF DataInv, DataTypes, RowsOK
  <2>2. QED BY <1>1, <1>6, <2>1 DEF DataInv, DataTypes, RowsOK
<1>9. WireOK'
  BY <1>1, <1>5 DEF DataInv, DataTypes, WireOK
<1>10. \A q \in Readings :
           /\ Sent(q) \in Nat
           /\ q \notin X => Sent(q)' = Sent(q)
           /\ q \in X => Sent(q)' \in {Sent(q), Sent(q) + 1}
  BY <1>1, <1>2, <1>3, SendSent
<1>11. OnceOK'
  <2>1. SUFFICES ASSUME NEW r \in Readings \ resent
                 PROVE  /\ Sent(r)' <= 1
                        /\ r \notin taken \/ r \in inserting => Sent(r)' = 0
                        /\ \A d, e \in Syncs : r \in sync'[d].batch /\ r \in sync'[e].batch => d = e
                        /\ InRows(r) /\ r \notin synced
                             /\ (\A d \in Syncs : r \in sync'[d].batch => sync'[d].at = "send")
                             => Sent(r)' = 0
                        /\ r \in synced => \A d \in Syncs : r \notin sync'[d].batch
    BY <1>1, <1>6 DEF OnceOK
  <2>2. CASE r \notin X
    <3>1. Sent(r)' = Sent(r)
      BY <1>10, <2>2
    <3>2. \A d \in Syncs : r \in sync[d].batch => sync'[d].at = sync[d].at
      BY <1>2, <1>4, <2>2
    <3>3. QED BY <1>4, <3>1, <3>2 DEF DataInv, OnceOK
  <2>3. CASE r \in X
    <3>1. InRows(r) /\ r \notin synced
      BY <1>2, <2>3 DEF DataInv, OnceOK, RowsOK
    <3>2. \A d \in Syncs : r \in sync[d].batch => d = c
      BY <1>2, <2>3 DEF DataInv, OnceOK
    <3>3. Sent(r) = 0
      BY <1>1, <3>1, <3>2 DEF DataInv, OnceOK
    <3>4. Sent(r)' <= 1
      BY <1>10, <2>3, <3>3
    <3>5. r \in taken \ inserting
      BY <3>1 DEF DataInv, RowsOK
    <3>6. ~(\A d \in Syncs : r \in sync'[d].batch => sync'[d].at = "send")
      BY <1>2, <1>4, <2>3
    <3>7. QED BY <1>4, <3>1, <3>2, <3>4, <3>5, <3>6
  <2>4. QED BY <2>2, <2>3
<1>12. NoneLostOK'
  <2>1. T!Unmarked' = T!Unmarked
    BY <1>1 DEF T!Unmarked
  <2>2. Smooth' => Smooth
    BY <1>1 DEF Smooth
  <2>3. taken \subseteq Readings /\ \A d \in Syncs : sync[d].batch \subseteq Readings
    BY DEF DataInv, DataTypes
  <2>4. /\ \A q \in Readings : OnItsWay(q) => OnItsWay(q)'
        /\ connected /\ socket[ws] = "open" => \A q \in X : OnItsWay(q)'
    BY <1>1, <1>2, <1>3, SendWay
  <2>5. Smooth => connected /\ socket[ws] = "open"
    BY <1>1 DEF DataInv, NoneLostOK
  <2>6. Smooth => \A s \in Sockets : socket[s] # "open" => \A q \in Readings : wire'[s][q] = 0
    BY <1>5 DEF DataInv, NoneLostOK
  <2>7. Smooth => \A d \in Syncs : sync'[d].at = "mark" => \A r \in sync'[d].batch : OnItsWay(r)'
    BY <1>2, <1>4, <2>3, <2>4, <2>5 DEF DataInv, NoneLostOK
  <2>8. Smooth => \A r \in taken : OnItsWay(r)' \/ r \in inserting \cup T!Unmarked
    BY <2>3, <2>4 DEF DataInv, NoneLostOK
  <2>9. QED BY <1>1, <2>1, <2>2, <2>5, <2>6, <2>7, <2>8 DEF NoneLostOK
<1>13. QED BY <1>7, <1>8, <1>9, <1>11, <1>12 DEF DataInv

\* A call ends: its rows are marked, or were not.
LEMMA CallEnds ==
  ASSUME DataInv, NEW c \in Syncs, sync' = [sync EXCEPT ![c] = T!Idle]
  PROVE  /\ sync' \in [Syncs -> [at : {"idle", "read", "send", "mark"}, batch : SUBSET Readings]]
         /\ \A d \in Syncs : IF d = c THEN sync'[d].at = "idle" /\ sync'[d].batch = {}
                             ELSE sync'[d] = sync[d]
BY DEF DataInv, DataTypes, T!Idle

LEMMA MarkData ==
  ASSUME NetInv, DataInv, NEW c \in Syncs, T!MarkSynced(c)
  PROVE  DataInv'
<1>1. /\ sync[c].at = "mark" /\ synced' = synced \cup sync[c].batch
      /\ sync' = [sync EXCEPT ![c] = T!Idle]
      /\ UNCHANGED <<mode, socket, ws, connected, inserting, rows, wire, received, taken, resent,
                     broken, failures, starts>>
  BY DEF T!MarkSynced, T!netVars, T!flowVars
<1>2. /\ sync' \in [Syncs -> [at : {"idle", "read", "send", "mark"}, batch : SUBSET Readings]]
      /\ \A d \in Syncs : IF d = c THEN sync'[d].at = "idle" /\ sync'[d].batch = {}
                          ELSE sync'[d] = sync[d]
  BY <1>1, CallEnds
<1>3. sync[c].batch \subseteq Readings
  BY DEF DataInv, DataTypes
<1>4. DataTypes'
  BY <1>1, <1>2, <1>3 DEF DataInv, DataTypes
<1>5. \A r \in Readings : InRows(r)' <=> InRows(r)
  BY <1>1 DEF InRows
<1>6. RowsOK'
  <2>1. \A d \in Syncs : /\ \A r \in sync'[d].batch : InRows(r)'
                         /\ sync'[d].at \notin {"send", "mark"} => sync'[d].batch = {}
    BY <1>2, <1>5 DEF DataInv, DataTypes, RowsOK
  <2>2. QED BY <1>1, <1>5, <2>1 DEF DataInv, DataTypes, RowsOK
<1>7. WireOK'
  BY <1>1 DEF DataInv, WireOK
<1>8. OnceOK'
  <2>1. SUFFICES ASSUME NEW r \in Readings \ resent
                 PROVE  /\ Sent(r) <= 1
                        /\ r \notin taken \/ r \in inserting => Sent(r) = 0
                        /\ \A d, e \in Syncs : r \in sync'[d].batch /\ r \in sync'[e].batch => d = e
                        /\ InRows(r) /\ r \notin synced'
                             /\ (\A d \in Syncs : r \in sync'[d].batch => sync'[d].at = "send")
                             => Sent(r) = 0
                        /\ r \in synced' => \A d \in Syncs : r \notin sync'[d].batch
    BY <1>1, <1>5, SentStays DEF OnceOK
  <2>2. \A d, e \in Syncs : r \in sync[d].batch /\ r \in sync[e].batch => d = e
    BY DEF DataInv, OnceOK
  <2>3. \A d \in Syncs : r \in sync'[d].batch => r \in sync[d].batch /\ d # c
    BY <1>2
  <2>4. ASSUME r \notin synced', \A d \in Syncs : r \in sync'[d].batch => sync'[d].at = "send"
        PROVE  \A d \in Syncs : r \in sync[d].batch => sync[d].at = "send"
    BY <1>1, <1>2, <2>4
  <2>5. r \in synced' => \A d \in Syncs : r \notin sync'[d].batch
    BY <1>1, <2>2, <2>3 DEF DataInv, OnceOK
  <2>6. r \in synced => r \in synced'
    BY <1>1
  <2>7. QED BY <2>2, <2>3, <2>4, <2>5, <2>6 DEF DataInv, OnceOK
<1>9. NoneLostOK'
  <2>1. \A r \in Readings : r \in T!Unmarked => r \in T!Unmarked' \/ r \in sync[c].batch
    BY <1>1 DEF T!Unmarked
  <2>2. Smooth' => Smooth
    BY <1>1 DEF Smooth
  <2>3. taken \subseteq Readings /\ \A d \in Syncs : sync[d].batch \subseteq Readings
    BY DEF DataInv, DataTypes
  <2>4. Smooth => \A r \in sync[c].batch : OnItsWay(r)
    BY <1>1 DEF DataInv, NoneLostOK
  <2>5. Smooth => \A r \in taken : OnItsWay(r) \/ r \in inserting \cup T!Unmarked'
    BY <2>1, <2>3, <2>4 DEF DataInv, NoneLostOK
  <2>6. Smooth => \A d \in Syncs : /\ sync'[d].at # "idle" => connected
                                   /\ sync'[d].at = "mark" => \A r \in sync'[d].batch : OnItsWay(r)
    BY <1>2 DEF DataInv, NoneLostOK
  <2>7. /\ \A r \in Readings : OnItsWay(r)' = OnItsWay(r)
        /\ \A d \in Syncs : sync'[d].batch \subseteq Readings
    BY <1>1, <1>2, SentStays
  <2>8. QED BY <1>1, <2>2, <2>3, <2>5, <2>6, <2>7 DEF DataInv, NoneLostOK
<1>10. QED BY <1>4, <1>6, <1>7, <1>8, <1>9 DEF DataInv

LEMMA SyncFailsData ==
  ASSUME NetInv, DataInv, NEW c \in Syncs, T!SyncFails(c)
  PROVE  DataInv'
<1>1. /\ failures' = failures + 1 /\ resent' = resent \cup sync[c].batch
      /\ sync' = [sync EXCEPT ![c] = T!Idle]
      /\ UNCHANGED <<mode, socket, ws, connected, inserting, rows, synced, wire, received, taken,
                     broken, starts>>
  BY DEF T!SyncFails, T!Fails, T!netVars, T!queueVars, T!flowVars
<1>2. /\ sync' \in [Syncs -> [at : {"idle", "read", "send", "mark"}, batch : SUBSET Readings]]
      /\ \A d \in Syncs : IF d = c THEN sync'[d].at = "idle" /\ sync'[d].batch = {}
                          ELSE sync'[d] = sync[d]
  BY <1>1, CallEnds
<1>3. sync[c].batch \subseteq Readings
  BY DEF DataInv, DataTypes
<1>4. DataTypes'
  BY <1>1, <1>2, <1>3 DEF DataInv, DataTypes
<1>5. RowsOK'
  BY <1>1, <1>2 DEF DataInv, RowsOK, InRows
<1>6. WireOK'
  BY <1>1 DEF DataInv, WireOK
<1>7. OnceOK'
  <2>1. \A r \in Readings \ resent' : r \notin resent /\ r \notin sync[c].batch
    BY <1>1
  <2>2. \A r \in Readings \ resent', d \in Syncs :
          /\ r \in sync'[d].batch <=> r \in sync[d].batch
          /\ r \in sync[d].batch => sync'[d].at = sync[d].at
    BY <1>2, <2>1
  <2>3. QED BY <1>1, <2>1, <2>2, SentStays DEF DataInv, OnceOK, InRows
<1>8. NoneLostOK'
  BY <1>1 DEF NoneLostOK, Smooth, NetInv, NetTypes
<1>9. QED BY <1>4, <1>5, <1>6, <1>7, <1>8 DEF DataInv

LEMMA ReceiveData ==
  ASSUME NetInv, DataInv, NEW s \in Sockets, NEW r \in Readings, T!Receive(s, r)
  PROVE  DataInv'
<1>1. /\ wire[s][r] > 0 /\ wire' = [wire EXCEPT ![s][r] = wire[s][r] - 1]
      /\ received' = [received EXCEPT ![r] = received[r] + 1]
      /\ UNCHANGED <<mode, socket, ws, connected, inserting, rows, synced, sync, taken, resent, broken,
                     failures, starts>>
  BY DEF T!Receive, T!netVars, T!queueVars
<1>2. wire \in [Sockets -> [Readings -> Nat]] /\ received \in [Readings -> Nat]
  BY DEF DataInv, DataTypes
<1>3. /\ wire' \in [Sockets -> [Readings -> Nat]] /\ received' \in [Readings -> Nat]
      /\ \A t \in Sockets, q \in Readings :
           wire'[t][q] = IF t = s /\ q = r THEN wire[t][q] - 1 ELSE wire[t][q]
      /\ \A q \in Readings : received'[q] = IF q = r THEN received[q] + 1 ELSE received[q]
  <2>1. \A t \in Sockets, q \in Readings :
           wire'[t][q] = IF t = s /\ q = r THEN wire[t][q] - 1 ELSE wire[t][q]
    BY <1>1, <1>2
  <2>2. \A q \in Readings : received'[q] = IF q = r THEN received[q] + 1 ELSE received[q]
    BY <1>1, <1>2
  <2>3. wire[s][r] - 1 \in Nat /\ received[r] + 1 \in Nat
    BY <1>1, <1>2
  <2>4. [wire[s] EXCEPT ![r] = wire[s][r] - 1] \in [Readings -> Nat]
    BY <1>2, <2>3
  <2>5. QED BY <1>1, <1>2, <2>1, <2>2, <2>3, <2>4
<1>4. s = ws
  BY <1>1 DEF DataInv, WireOK
<1>5. DataTypes' /\ RowsOK'
  BY <1>1, <1>3 DEF DataInv, DataTypes, RowsOK, InRows
<1>6. WireOK'
  BY <1>1, <1>2, <1>3 DEF DataInv, WireOK
<1>7. \A q \in Readings : Sent(q)' = Sent(q)
  <2>1. SUFFICES ASSUME NEW q \in Readings PROVE Sent(q)' = Sent(q)
    OBVIOUS
  <2>2. wire[s][q] \in Nat /\ received[q] \in Nat
    BY <1>2
  <2>3. OnWire(q) = wire[s][q] /\ OnWire(q)' = wire'[s][q]
    BY <1>1, <1>4 DEF OnWire
  <2>4. received'[q] + wire'[s][q] = received[q] + wire[s][q]
    BY <1>3, <2>2
  <2>5. QED BY <2>3, <2>4 DEF Sent
<1>8. OnceOK'
  BY <1>1, <1>7 DEF DataInv, OnceOK, InRows
<1>9. NoneLostOK'
  <2>1. ASSUME NEW q \in Readings, OnItsWay(q) PROVE OnItsWay(q)'
    <3>1. OnItsWay(q)' <=> received'[q] > 0 \/ \E t \in Sockets : wire'[t][q] > 0
      BY DEF OnItsWay, T!Copies
    <3>2. CASE q = r
      <4>1. received'[q] = received[q] + 1 /\ received[q] \in Nat
        BY <1>2, <1>3, <3>2
      <4>2. QED BY <3>1, <4>1
    <3>3. CASE q # r
      <4>1. received'[q] = received[q] /\ \A t \in Sockets : wire'[t][q] = wire[t][q]
        BY <1>3, <3>3
      <4>2. QED BY <2>1, <3>1, <4>1, WayIs
    <3>4. QED BY <3>2, <3>3
  <2>2. T!Unmarked' = T!Unmarked
    BY <1>1 DEF T!Unmarked
  <2>3. Smooth' => Smooth
    BY <1>1 DEF Smooth
  <2>4. taken \subseteq Readings /\ \A d \in Syncs : sync[d].batch \subseteq Readings
    BY DEF DataInv, DataTypes
  <2>5. Smooth => \A t \in Sockets : socket[t] # "open" => \A q \in Readings : wire'[t][q] = 0
    BY <1>1, <1>3 DEF DataInv, NoneLostOK
  <2>6. QED BY <1>1, <2>1, <2>2, <2>3, <2>4, <2>5 DEF DataInv, NoneLostOK
<1>10. QED BY <1>5, <1>6, <1>8, <1>9 DEF DataInv

-----------------------------------------------------------------------------
(* The truck: every step *)

LEMMA InitTruck ==
  ASSUME T!Init
  PROVE  TruckInv
<1>1. NetTypes
  <2>1. retryCount \in 0 .. MaxRetries /\ broken \in Nat /\ failures \in Nat /\ starts \in 0 .. MaxStarts
    BY TruckBounds DEF T!Init
  <2>2. /\ mode \in {"down", "up", "closing", "stuck", "stopped"}
        /\ socket \in [Sockets -> {"closed", "connecting", "open", "closing"}]
        /\ ws \in Sockets \cup {None} /\ awaited \in Sockets \cup {None} /\ timeouts \subseteq Sockets
    BY DEF T!Init
  <2>3. connected \in BOOLEAN /\ retryTimer \in BOOLEAN /\ collecting \in BOOLEAN
    BY DEF T!Init
  <2>4. QED BY <2>1, <2>2, <2>3 DEF NetTypes
<1>2. T!Live = {}
  BY DEF T!Init, T!Live
<1>3. T!OneConnection /\ ModeOK
  BY <1>2 DEF T!Init, T!OneConnection, ModeOK
<1>4. DataTypes
  BY DEF T!Init, DataTypes, T!Idle, T!Nothing
<1>5. ~Smooth
  BY DEF T!Init, Smooth
<1>6. RowsOK /\ WireOK
  BY DEF T!Init, RowsOK, InRows, WireOK, T!Idle, T!Nothing
<1>7. \A r \in Readings : Sent(r) = 0
  BY TruckBounds DEF T!Init, Sent, OnWire, T!Nothing
<1>8. OnceOK
  BY <1>7 DEF T!Init, OnceOK, T!Idle
<1>9. QED BY <1>1, <1>3, <1>4, <1>5, <1>6, <1>8 DEF TruckInv, NetInv, DataInv, NoneLostOK

LEMMA TruckStutter ==
  ASSUME TruckInv, UNCHANGED truckVars
  PROVE  TruckInv'
<1>1. UNCHANGED <<mode, socket, ws, connected, retryCount, retryTimer, timeouts, awaited, collecting,
                  inserting, rows, synced, sync, wire, received, taken, resent, broken, failures,
                  starts>>
  BY DEF truckVars
<1>2. NetInv'
  BY <1>1 DEF TruckInv, NetInv, NetTypes, T!OneConnection, T!Live, ModeOK
<1>3. Calm
  BY <1>1 DEF Calm, TruckInv, DataInv, DataTypes, WireOK
<1>4. CalmSmooth
  BY <1>1 DEF CalmSmooth, Smooth, TruckInv, DataInv, NoneLostOK
<1>5. DataInv'
  BY <1>3, <1>4, CalmData DEF TruckInv
<1>6. QED BY <1>2, <1>5 DEF TruckInv

\* The process runs while it takes or holds readings.
LEMMA Runs ==
  ASSUME NetInv
  PROVE  /\ collecting \/ inserting # {} => mode # "down"
         /\ \A c \in Syncs : sync[c].at # "idle" => mode # "down"
BY Idling DEF NetInv, ModeOK

LEMMA TruckStep ==
  ASSUME TruckInv, T!Next
  PROVE  TruckInv'
<1>1. NetInv /\ DataInv
  BY DEF TruckInv
<1>2. broken \in Nat /\ failures \in Nat
  BY <1>1 DEF NetInv, NetTypes
<1>3. CASE T!Crash \/ T!Exit
  <2>1. T!Gone /\ broken' \in Nat
    BY <1>2, <1>3 DEF T!Crash, T!Exit, T!ConnectionFails
  <2>2. QED BY <1>1, <2>1, GoneNet, GoneData DEF TruckInv
<1>4. CASE T!Stop
  BY <1>1, <1>4, StopNet, StopData DEF TruckInv
<1>5. ASSUME NEW s \in Sockets, T!Start(s) PROVE TruckInv'
  BY <1>1, <1>5, StartNet, StartData DEF TruckInv
<1>6. ASSUME NEW s \in Sockets, T!Refused(s) \/ T!Breaks(s) \/ T!CloseEnds(s) PROVE TruckInv'
  <2>1. /\ socket[s] # "closed" /\ T!Closed(s) /\ broken' \in Nat
        /\ (broken' = broken /\ socket[s] # "open") \/ broken' = broken + 1
    BY <1>2, <1>6 DEF T!Refused, T!Breaks, T!CloseEnds, T!ConnectionFails
  <2>2. NetInv'
    BY <1>1, <2>1, ClosedNet
  <2>3. DataInv'
    BY <1>1, <2>1, ClosedData
  <2>4. QED BY <2>2, <2>3 DEF TruckInv
<1>7. ASSUME NEW s \in Sockets, T!PeerCloses(s) PROVE TruckInv'
  BY <1>1, <1>7, PeerNet, PeerData DEF TruckInv
<1>8. ASSUME NEW s \in Sockets, T!Timeout(s) PROVE TruckInv'
  BY <1>1, <1>8, TimeoutNet, TimeoutData DEF TruckInv
<1>9. ASSUME NEW s \in Sockets, T!Reconnect(s) PROVE TruckInv'
  BY <1>1, <1>9, ReconnectNet, ReconnectData DEF TruckInv
<1>10. ASSUME NEW s \in Sockets, NEW c \in Syncs, T!Open(s, c) PROVE TruckInv'
  BY <1>1, <1>10, OpenNet, OpenData DEF TruckInv
<1>11. ASSUME NEW s \in Sockets, NEW r \in Readings, T!Receive(s, r) PROVE TruckInv'
  <2>1. wire[s][r] # 0 /\ UNCHANGED <<mode, T!netVars, awaited, collecting, broken, starts, failures>>
    BY <1>1, <1>11 DEF T!Receive, DataInv, DataTypes
  <2>2. mode # "down"
    <3>1. socket[s] # "closed"
      BY <1>1, <2>1 DEF DataInv, WireOK
    <3>2. QED BY <1>1, <3>1, Current
  <2>3. NetInv'
    BY <1>1, <1>2, <2>1, <2>2, ReadingsNet
  <2>4. QED BY <1>1, <1>11, <2>3, ReceiveData DEF TruckInv
<1>12. ASSUME NEW r \in Readings, T!Collect(r) \/ T!Enqueue(r) \/ T!EnqueueFails(r) PROVE TruckInv'
  <2>1. /\ UNCHANGED <<mode, T!netVars, awaited, collecting, broken, starts>> /\ failures' \in Nat
        /\ collecting \/ inserting # {}
    BY <1>2, <1>12 DEF T!Collect, T!Enqueue, T!EnqueueFails, T!Fails
  <2>2. NetInv'
    BY <1>1, <2>1, Runs, ReadingsNet
  <2>3. QED BY <1>1, <1>12, <2>2, CollectData, EnqueueData, EnqueueFailsData DEF TruckInv
<1>13. ASSUME NEW c \in Syncs, T!BeginSync(c) \/ T!SyncSteps(c) \/ T!SyncFails(c) PROVE TruckInv'
  <2>1. /\ UNCHANGED <<mode, T!netVars, awaited, collecting, broken, starts>> /\ failures' \in Nat
        /\ collecting \/ sync[c].at # "idle"
    BY <1>2, <1>13 DEF T!BeginSync, T!SyncSteps, T!ReadRows, T!SendBatch, T!MarkSynced, T!SyncFails,
                       T!Fails
  <2>2. NetInv'
    BY <1>1, <2>1, Runs, ReadingsNet
  <2>3. DataInv'
    BY <1>1, <1>13, BeginData, ReadData, SendBatchData, MarkData, SyncFailsData DEF T!SyncSteps
  <2>4. QED BY <2>2, <2>3 DEF TruckInv
<1>14. QED BY <1>3, <1>4, <1>5, <1>6, <1>7, <1>8, <1>9, <1>10, <1>11, <1>12, <1>13 DEF T!Next

-----------------------------------------------------------------------------
(* Theorems *)

FleetInv == ServersInv /\ TruckInv

\* In every reachable state both halves keep their invariant: the part a behaviour is about by its
\* steps, the other because it stays as it begins.
THEOREM FleetInvariant == FairSpec => []FleetInv
<1>1. Init => FleetInv
  BY InitServers, InitTruck DEF Init, FleetInv
<1>2. FleetInv /\ [Next]_<<part, truckVars, realtimeVars>> => FleetInv'
  <2>1. SUFFICES ASSUME FleetInv, [Next]_<<part, truckVars, realtimeVars>>
                 PROVE  FleetInv'
    OBVIOUS
  <2>2. CASE T!Next /\ UNCHANGED realtimeVars
    BY <2>1, <2>2, TruckStep, ServersStutter DEF FleetInv
  <2>3. CASE R!Next /\ UNCHANGED truckVars
    BY <2>1, <2>3, ServersStep, TruckStutter DEF FleetInv
  <2>4. CASE UNCHANGED <<part, truckVars, realtimeVars>>
    BY <2>1, <2>4, ServersStutter, TruckStutter DEF FleetInv
  <2>5. QED BY <2>1, <2>2, <2>3, <2>4 DEF Next
<1>3. QED BY <1>1, <1>2, PTL DEF FairSpec

\* The variables of the client and of the servers keep their types.
THEOREM FleetTypes == FairSpec => []FleetTypeOK
<1>1. FleetInv => FleetTypeOK
  BY TruckTypes DEF FleetInv, FleetTypeOK, ServersInv
<1>2. QED BY <1>1, FleetInvariant, PTL

\* ws-client.ts: one connection or attempt at a time, whatever sockets open, close and time out.
THEOREM OneConnectionAtATime == FairSpec => []OneConnection
<1>1. FleetInv => OneConnection
  BY DEF FleetInv, TruckInv, NetInv, OneConnection
<1>2. QED BY <1>1, FleetInvariant, PTL

\* clients/truck: until a connection breaks, a statement fails or the client is stopped, every
\* reading is with the backend, on its way or waiting in the table; and one arrives twice only if
\* two calls had read its row, or it was sent and not marked.
THEOREM ReadingsStayAccounted == FairSpec => []ReadingsAccountedFor
<1>1. FleetInv => T!LostOnlyWithConnection
  <2>1. SUFFICES ASSUME FleetInv, Smooth, NEW r \in taken
                 PROVE  received[r] > 0 \/ T!Copies(r) # {} \/ r \in inserting \cup T!Unmarked
    BY DEF T!LostOnlyWithConnection, Smooth
  <2>2. QED BY <2>1 DEF FleetInv, TruckInv, DataInv, NoneLostOK, OnItsWay
<1>2. FleetInv => T!TwiceOnlyIfResent
  <2>1. SUFFICES ASSUME FleetInv, NEW r \in Readings \ resent
                 PROVE  ~(received[r] > 1)
    BY DEF T!TwiceOnlyIfResent
  <2>2. DataInv /\ r \in Readings
    BY <2>1 DEF FleetInv, TruckInv
  <2>3. received[r] \in Nat /\ OnWire(r) \in Nat
    BY <2>2, WireIs
  <2>4. received[r] + OnWire(r) <= 1
    BY <2>1, <2>2 DEF DataInv, OnceOK, Sent
  <2>5. QED BY <2>3, <2>4
<1>3. FleetInv => ReadingsAccountedFor
  BY <1>1, <1>2 DEF ReadingsAccountedFor
<1>4. QED BY <1>3, FleetInvariant, PTL

\* core/ws: rooms, connections and timers agree, and a subscriber gets a message once, or once more
\* when it was published on the subscriber's own server.
THEOREM MapsStayInAgreement == FairSpec => []MapsAgree
<1>1. FleetInv => MapsAgree
  BY ServersEcho DEF FleetInv, ServersInv, MapsAgree
<1>2. QED BY <1>1, FleetInvariant, PTL

\* The safety half of DropsTheSilent: the heartbeat and the driver's timer drop a connection only
\* when MaxMissed - 1 pings in a row went unanswered.
DropsOnly ==
  \A c \in Conns : (R!Heartbeat(Home[c]) \/ R!Miss(c)) /\ c \in connections \ connections' =>
                     unanswered[c] >= MaxMissed - 1

\* The heartbeat drops a connection only after pings it did not answer: the safety half of
\* DropsTheSilent, for any number of servers and connections.
THEOREM OnlySilentAreDropped == FairSpec => R!DropsOnlySilent
<1>1. FleetInv /\ [Next]_<<part, truckVars, realtimeVars>> => DropsOnly
  BY DropsSilent DEF FleetInv, DropsOnly
<1>2. FleetInv /\ [Next]_<<part, truckVars, realtimeVars>> => [DropsOnly]_(R!vars)
  BY <1>1
<1>3. R!DropsOnlySilent <=> [][DropsOnly]_(R!vars)
  BY PTL DEF R!DropsOnlySilent, DropsOnly
<1>4. QED BY <1>2, <1>3, FleetInvariant, PTL DEF FairSpec
=============================================================================
