--------------------------------- MODULE MCFleet ---------------------------------
(***************************************************************************)
(* The client in a truck and the servers that hold the connections of      *)
(* dashboards and drivers, checked side by side: `part` says which of the  *)
(* two a behaviour is about, and the other stays as it begins.             *)
(***************************************************************************)
EXTENDS Integers, Sequences, FiniteSets, TLC

CONSTANTS Readings, Sockets, Syncs, MaxRetries, BatchSize, MaxFaults, MaxStarts,
          Servers, Conns, Home, Org, Names, MaxMissed, MaxSent, MaxDeaths, None

VARIABLES
  part,
  mode, socket, ws, connected, retryCount, retryTimer, timeouts, awaited, collecting, inserting,
  rows, synced, sync, wire, received, taken, resent, broken, failures, starts,
  tcp, responsive, connections, ticks, missed, missTimer, rooms, connRooms, channel, got,
  unanswered, sent, deaths

\* Values of Home and Org: every connection is on one of the servers, of one organisation.
OneServer == [c \in Conns |-> CHOOSE s \in Servers : TRUE]
OneOrg == [c \in Conns |-> "org"]

T == INSTANCE TruckClient
R == INSTANCE Realtime

ASSUME Bounds == T!ConstantsOK /\ R!ConstantsOK

truckVars == <<mode, socket, ws, connected, retryCount, retryTimer, timeouts, awaited, collecting,
               inserting, rows, synced, sync, wire, received, taken, resent, broken, failures,
               starts>>
realtimeVars == <<tcp, responsive, connections, ticks, missed, missTimer, rooms, connRooms, channel,
                  got, unanswered, sent, deaths>>

Init == part \in {"truck", "realtime"} /\ T!Init /\ R!Init

Next ==
  \/ part = "truck"    /\ T!Next /\ UNCHANGED <<part, realtimeVars>>
  \/ part = "realtime" /\ R!Next /\ UNCHANGED <<part, truckVars>>

\* Where a part begins none of the steps its fairness is about can be taken, so that of the other
\* part asks for nothing.
FairSpec == Init /\ [][Next]_<<part, truckVars, realtimeVars>> /\ T!Fairness /\ R!Fairness

-----------------------------------------------------------------------------

\* The variables of both keep their types.
FleetTypeOK == T!TypeOK /\ R!TypeOK

\* ws-client.ts: there is one connection or attempt at a time, and no retry beside it.
OneConnection == T!OneConnection

\* clients/truck: a reading is lost, or received twice, only in the ways TruckClient names.
ReadingsAccountedFor == T!LostOnlyWithConnection /\ T!TwiceOnlyIfResent

\* TelemetryClient.stop() ends.
StopEnds == T!StopEnds

\* What waits in the truck's queue is sent and marked.
QueueDrains == T!QueueDrains

\* core/ws: the maps of rooms, connections and timers agree; a message reaches a subscriber once.
MapsAgree == R!MapsAgree /\ R!EchoAtMostOnce

\* The heartbeat drops only connections that are silent, and drops every one of them.
DropsTheSilent == R!DropsOnlySilent /\ R!SilentIsDropped
=============================================================================
