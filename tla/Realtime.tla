------------------------------- MODULE Realtime -------------------------------
(***************************************************************************)
(* The WebSocket servers (core/ws): which connections a server tracks, the *)
(* rooms they are in, the heartbeat that drops them, and the delivery of   *)
(* messages, on this server and through Redis on the others.               *)
(*                                                                         *)
(* An event handler and a timer run to their end, so each is one step.     *)
(* Frames, the handshake and the quality warnings are left out.            *)
(***************************************************************************)
EXTENDS Integers, FiniteSets

CONSTANTS
  Servers,
  Conns,     \* bound: the connections clients ever open
  Home,      \* the server each is opened on
  Org,       \* the organisation of its token
  Names,     \* room names clients ask for, such as shipment:<id>
  MaxMissed, \* MAX_MISSED_PINGS (3)
  MaxSent,   \* bound: messages broadcast
  MaxDeaths  \* bound: server processes that die

ConstantsOK ==
  /\ Home \in [Conns -> Servers]
  /\ MaxMissed \in Nat \ {0, 1} /\ MaxSent \in Nat /\ MaxDeaths \in Nat

VARIABLES
  tcp,        \* TCP side of a connection: unused, open, ended by the peer, destroyed, gone
  responsive, \* the client answers pings
  connections,\* WsServer.connections, lastPong and quality, which have the same keys
  ticks,      \* heartbeats since the last pong
  missed,     \* quality.missedPings
  missTimer,  \* WsServer.pongTimeouts
  rooms,      \* RoomManager.rooms of each server
  connRooms,  \* RoomManager.connRooms; its keys are those of RoomManager.connections
  channel,    \* what each server's Redis subscription has yet to hand over
  got,        \* copies of each message sent to each connection
  unanswered, \* history: pings sent since the client's last pong, counted up to MaxMissed
  sent,       \* history: where each message was sent from, to which room, and how
  deaths

mapVars  == <<connections, missed, missTimer, rooms, connRooms>>
sendVars == <<channel, got, sent>>
vars == <<tcp, responsive, mapVars, ticks, sendVars, unanswered, deaths>>

\* The key of a room: that of a subscription carries the organisation, that of
\* updateDriverLocation does not.
Scoped(c, name) == <<Org[c], name>>
Raw(name) == <<name>>
Keys == {Scoped(c, name) : c \in Conns, name \in Names} \cup {Raw(name) : name \in Names}
Messages == 1..MaxSent

Init ==
  /\ tcp = [c \in Conns |-> "unused"]
  /\ responsive = [c \in Conns |-> TRUE]
  /\ connections = {} /\ missTimer = {}
  /\ ticks = [c \in Conns |-> 0] /\ missed = [c \in Conns |-> 0]
  /\ rooms = [s \in Servers |-> [k \in Keys |-> {}]]
  /\ connRooms = [c \in Conns |-> {}]
  /\ channel = [s \in Servers |-> {}]
  /\ got = [c \in Conns |-> [m \in Messages |-> 0]]
  /\ unanswered = [c \in Conns |-> 0]
  /\ sent = <<>>
  /\ deaths = 0

-----------------------------------------------------------------------------
(* Helpers *)

On(s) == {c \in connections : Home[c] = s}

ForgetKeepRooms(C) ==
  /\ connections' = connections \ C
  /\ missTimer' = missTimer \ C
  /\ missed' = [c \in Conns |-> IF c \in C THEN 0 ELSE missed[c]]
  /\ UNCHANGED <<rooms, connRooms>>

\* Out of every map: the 'close' handler, and both branches of the heartbeat.
Forget(C) ==
  /\ connections' = connections \ C
  /\ missTimer' = missTimer \ C
  /\ missed' = [c \in Conns |-> IF c \in C THEN 0 ELSE missed[c]]
  /\ rooms' = [s \in Servers |-> [k \in Keys |-> rooms[s][k] \ C]]
  /\ connRooms' = [c \in Conns |-> IF c \in C THEN {} ELSE connRooms[c]]

\* WsConnection.close: the socket is destroyed; its 'close' comes later.
Destroy(C) == tcp' = [c \in Conns |-> IF c \in C THEN "destroyed" ELSE tcp[c]]

\* broadcastLocal: every member of the room, once.
Members(s, key) == {c \in rooms[s][key] : tcp[c] = "open"}
Deliver(s, key, m) ==
  got' = [c \in Conns |-> IF c \in Members(s, key) THEN [got[c] EXCEPT ![m] = @ + 1] ELSE got[c]]

-----------------------------------------------------------------------------
(* Connections and rooms *)

\* The 'upgrade' handler.
Attach(c) ==
  /\ tcp[c] = "unused"
  /\ tcp' = [tcp EXCEPT ![c] = "open"]
  /\ connections' = connections \cup {c}
  /\ UNCHANGED <<responsive, ticks, missed, missTimer, rooms, connRooms, sendVars, unanswered, deaths>>

\* A message {action: 'join'}, or ?room= in the URL.
Join(c, name) ==
  /\ tcp[c] = "open" /\ responsive[c]
  /\ rooms' = [rooms EXCEPT ![Home[c]][Scoped(c, name)] = @ \cup {c}]
  /\ connRooms' = [connRooms EXCEPT ![c] = @ \cup {Scoped(c, name)}]
  /\ UNCHANGED <<tcp, responsive, connections, ticks, missed, missTimer, sendVars, unanswered,
                 deaths>>

\* {action: 'leave'}
Leave(c, name) ==
  /\ tcp[c] = "open" /\ responsive[c] /\ Scoped(c, name) \in connRooms[c]
  /\ rooms' = [rooms EXCEPT ![Home[c]][Scoped(c, name)] = @ \ {c}]
  /\ connRooms' = [connRooms EXCEPT ![c] = @ \ {Scoped(c, name)}]
  /\ UNCHANGED <<tcp, responsive, connections, ticks, missed, missTimer, sendVars, unanswered,
                 deaths>>

\* A close frame: 'close' is emitted, then the socket destroyed.
CloseFrame(c) ==
  /\ tcp[c] = "open" /\ responsive[c]
  /\ Forget({c}) /\ Destroy({c})
  /\ UNCHANGED <<responsive, ticks, sendVars, unanswered, deaths>>

\* The peer ends its side: 'close' is emitted, but nobody ends the server's side.
End(c) ==
  /\ tcp[c] = "open" /\ responsive[c]
  /\ Forget({c})
  /\ tcp' = [tcp EXCEPT ![c] = "ended"]
  /\ UNCHANGED <<responsive, ticks, sendVars, unanswered, deaths>>

\* The socket's 'close', once more for the handler of 'close'.
SocketClosed(c) ==
  /\ tcp[c] \in {"ended", "destroyed"}
  /\ Forget({c})
  /\ tcp' = [tcp EXCEPT ![c] = "gone"]
  /\ UNCHANGED <<responsive, ticks, sendVars, unanswered, deaths>>

\* The connection is emitted an 'error' nobody listens for, which ends the process.
SocketError(c) ==
  /\ tcp[c] = "open" /\ deaths < MaxDeaths /\ deaths' = deaths + 1
  /\ LET Lost == {d \in Conns : Home[d] = Home[c] /\ tcp[d] # "unused"}
     IN /\ Forget(Lost)
        /\ tcp' = [d \in Conns |-> IF d \in Lost THEN "gone" ELSE tcp[d]]
  /\ channel' = [channel EXCEPT ![Home[c]] = {}]
  /\ UNCHANGED <<responsive, ticks, got, sent, unanswered>>

-----------------------------------------------------------------------------
(* Heartbeat *)

\* The client, or the network to it, goes silent without closing anything.
GoSilent(c) ==
  /\ tcp[c] = "open" /\ responsive[c]
  /\ responsive' = [responsive EXCEPT ![c] = FALSE]
  /\ UNCHANGED <<tcp, mapVars, ticks, sendVars, unanswered, deaths>>

\* 90 s without a pong have passed at the fourth heartbeat, and by the drift of the
\* timer perhaps at the third.
Overdue(c) == ticks[c] >= MaxMissed - 1

\* A ping is a heartbeat more since the last pong; quality is deleted with the connection.
Counted(late, pinged) ==
  /\ ticks' = [c \in Conns |-> IF c \in pinged THEN ticks[c] + 1 ELSE ticks[c]]
  /\ missed' = [c \in Conns |-> IF c \in late THEN 0 ELSE missed[c]]

\* The interval, once the timers of the one before have fired: connections heard of too
\* long ago are closed, the others get a ping and a timer.
Heartbeat(s) ==
  /\ On(s) # {} /\ On(s) \cap missTimer = {}
  /\ \E late \in SUBSET {c \in On(s) : Overdue(c)} :
       LET Pinged == On(s) \ late
       IN /\ {c \in On(s) : ticks[c] >= MaxMissed} \subseteq late
          /\ Destroy(late)
          /\ connections' = connections \ late
          /\ missTimer' = (missTimer \ late) \cup Pinged
          /\ Counted(late, Pinged)
          /\ rooms' = [t \in Servers |-> [k \in Keys |-> rooms[t][k] \ late]]
          /\ connRooms' = [c \in Conns |-> IF c \in late THEN {} ELSE connRooms[c]]
          /\ unanswered' = [c \in Conns |-> IF c \in Pinged /\ unanswered[c] < MaxMissed
                                             THEN unanswered[c] + 1 ELSE unanswered[c]]
  /\ UNCHANGED <<responsive, sendVars, deaths>>

PongKeepsMisses(c) ==
  /\ tcp[c] = "open" /\ responsive[c] /\ unanswered[c] > 0
  /\ ticks' = [ticks EXCEPT ![c] = 0]
  /\ missTimer' = missTimer \ {c}
  /\ unanswered' = [unanswered EXCEPT ![c] = 0]
  /\ UNCHANGED <<tcp, responsive, connections, missed, rooms, connRooms, sendVars, deaths>>

\* 'pong', in time or not.
Pong(c) ==
  /\ tcp[c] = "open" /\ responsive[c] /\ unanswered[c] > 0
  /\ ticks' = [ticks EXCEPT ![c] = 0]
  /\ missed' = [missed EXCEPT ![c] = 0]
  /\ missTimer' = missTimer \ {c}
  /\ unanswered' = [unanswered EXCEPT ![c] = 0]
  /\ UNCHANGED <<tcp, responsive, connections, rooms, connRooms, sendVars, deaths>>

MissAfterLimit(c) ==
  /\ c \in missTimer
  /\ IF missed[c] >= MaxMissed
     THEN Forget({c}) /\ Destroy({c})
     ELSE /\ missed' = [missed EXCEPT ![c] = @ + 1]
          /\ missTimer' = missTimer \ {c}
          /\ UNCHANGED <<tcp, connections, rooms, connRooms>>
  /\ UNCHANGED <<responsive, ticks, sendVars, unanswered, deaths>>

\* The 10 s after a ping are over.
Miss(c) ==
  /\ c \in missTimer
  /\ IF missed[c] + 1 >= MaxMissed
     THEN Forget({c}) /\ Destroy({c})
     ELSE /\ missed' = [missed EXCEPT ![c] = @ + 1]
          /\ missTimer' = missTimer \ {c}
          /\ UNCHANGED <<tcp, connections, rooms, connRooms>>
  /\ UNCHANGED <<responsive, ticks, sendVars, unanswered, deaths>>

-----------------------------------------------------------------------------
(* Messages *)

NextMessage(m) == m = Cardinality(DOMAIN sent) + 1 /\ m <= MaxSent
Record(m, s, key, how) ==
  sent' = [i \in DOMAIN sent \cup {m} |->
             IF i = m THEN [from |-> s, key |-> key, how |-> how] ELSE sent[i]]

\* broadcastToRoom: the connections of this server.
Broadcast(s, key, m) ==
  /\ NextMessage(m) /\ Record(m, s, key, "broadcast")
  /\ Deliver(s, key, m)
  /\ UNCHANGED <<tcp, responsive, mapVars, ticks, channel, unanswered, deaths>>

\* RoomManager.publish (which nothing calls yet): here and, if Redis takes it, to
\* every server that has this one included.
Publish(s, key, m) ==
  /\ NextMessage(m) /\ Record(m, s, key, "publish")
  /\ Deliver(s, key, m)
  /\ \/ channel' = [t \in Servers |-> channel[t] \cup {m}]
     \/ UNCHANGED channel
  /\ UNCHANGED <<tcp, responsive, mapVars, ticks, unanswered, deaths>>

\* 'pmessage'
PMessage(s, m) ==
  /\ m \in channel[s]
  /\ channel' = [channel EXCEPT ![s] = @ \ {m}]
  /\ Deliver(s, sent[m].key, m)
  /\ UNCHANGED <<tcp, responsive, mapVars, ticks, sent, unanswered, deaths>>

-----------------------------------------------------------------------------
Next ==
  \/ \E c \in Conns :
       \/ Attach(c) \/ CloseFrame(c) \/ End(c) \/ SocketClosed(c) \/ SocketError(c)
       \/ GoSilent(c) \/ Pong(c) \/ Miss(c)
       \/ \E name \in Names : Join(c, name) \/ Leave(c, name)
  \/ \E s \in Servers :
       \/ Heartbeat(s)
       \/ \E m \in Messages :
            \/ \E key \in Keys : Broadcast(s, key, m) \/ Publish(s, key, m)
            \/ PMessage(s, m)

Spec == Init /\ [][Next]_vars

\* The interval and the timers of each server fire.
Fairness ==
  /\ \A s \in Servers : WF_vars(Heartbeat(s))
  /\ \A c \in Conns : WF_vars(Miss(c))

FairSpec == Spec /\ Fairness

-----------------------------------------------------------------------------
(* Properties *)

TypeOK ==
  /\ tcp \in [Conns -> {"unused", "open", "ended", "destroyed", "gone"}]
  /\ responsive \in [Conns -> BOOLEAN]
  /\ connections \subseteq Conns /\ missTimer \subseteq Conns
  /\ ticks \in [Conns -> 0..MaxMissed]
  /\ missed \in [Conns -> 0..(MaxMissed - 1)]
  /\ rooms \in [Servers -> [Keys -> SUBSET Conns]]
  /\ connRooms \in [Conns -> SUBSET Keys]
  /\ channel \in [Servers -> SUBSET Messages]
  /\ got \in [Conns -> [Messages -> Nat]]
  /\ unanswered \in [Conns -> 0..MaxMissed]
  /\ deaths \in 0..MaxDeaths

\* The maps of a server agree at every moment: rooms and connRooms are each other's inverse, a
\* member of a room is a tracked connection of this server whose socket is
\* open, and a timer runs only for a tracked connection, whatever closed the others.
MapsAgree ==
  /\ \A s \in Servers, k \in Keys, c \in Conns :
       c \in rooms[s][k] <=> Home[c] = s /\ k \in connRooms[c]
  /\ \A c \in Conns : connRooms[c] # {} \/ c \in missTimer => c \in connections
  /\ connections = {c \in Conns : tcp[c] = "open"}

\* The heartbeat drops a connection only after two pings it has not answered, three
\* unless the timer drifted: an answer, even a late one, wipes out the misses.
DropsOnlySilent ==
  [][\A c \in Conns :
       (Heartbeat(Home[c]) \/ Miss(c)) /\ c \in connections \ connections' =>
         unanswered[c] >= MaxMissed - 1]_vars

\* A connection whose client has gone silent is dropped, together with its
\* rooms.
SilentIsDropped == \A c \in Conns : ~responsive[c] ~> c \notin connections

\* A message reaches only subscribers of its room, each at most once, but for
\* one published on the subscriber's own server, which its Redis subscription
\* hands over once more.
EchoAtMostOnce ==
  \A c \in Conns, m \in DOMAIN sent :
    got[c][m] <= IF sent[m].how = "publish" /\ sent[m].from = Home[c] THEN 2 ELSE 1
=============================================================================
