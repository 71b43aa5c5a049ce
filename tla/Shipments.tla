------------------------------- MODULE Shipments -------------------------------
(***************************************************************************)
(* One shipment: its row (api/services/shipment.service.ts) and its event  *)
(* log (TrackingLog), written by the requests of api/routes/shipments.ts   *)
(* and drivers.ts in statements of their own.                              *)
(*                                                                         *)
(* Each request records at most one event, so it goes by the name of its   *)
(* append.  The row is never deleted, hence looking it up and the first    *)
(* statement of recordEvent are one step.                                  *)
(***************************************************************************)
EXTENDS TrackingLog

CONSTANT Posted   \* event types clients post

ASSUME KindsOK == Posted \cup {"created", "exception"} \subseteq Kinds

VARIABLES
  row,       \* the row of shipments; None until it is committed
  what,      \* the request each append serves
  handler    \* what the request awaits, or how it ended

shipVars == <<row, what, handler>>
logVars  == vars
allVars  == <<logVars, shipVars>>

\* No statement ever changes status, nor assigns a driver.
NewShipment == [status |-> "pending", exceptionFlag |-> FALSE]
Active == {"in_transit", "out_for_delivery"}

ASSUME NoneIsNoShipment == None \notin [status : {"pending"}, exceptionFlag : BOOLEAN]

ShipInit ==
  /\ Init
  /\ row = None
  /\ what = [a \in Appends |-> None]
  /\ handler = [a \in Appends |-> "none"]

Become(a, step) == handler' = [handler EXCEPT ![a] = step]
Serve(a, request) ==
  /\ handler[a] = "none"
  /\ what' = [what EXCEPT ![a] = request]

-----------------------------------------------------------------------------
\* createShipment: the transaction of the row and its orders.
CreateRow(a) ==
  /\ row = None
  /\ Serve(a, "create") /\ Become(a, "created")
  /\ row' = NewShipment
  /\ UNCHANGED <<logVars>>

\* ... then its first event, outside the transaction.
RecordCreated(a) ==
  /\ handler[a] = "created" /\ Become(a, "recording")
  /\ Start(a, "created")
  /\ UNCHANGED <<row, what>>

\* The process dies between the two.
CreateDies(a) ==
  /\ handler[a] = "created" /\ Become(a, "failed")
  /\ Fails
  /\ UNCHANGED <<log, op, kind, prev, cache, readVars, contended, edited, overtaken, trims,
                 row, what>>

\* POST /:id/events: any type, at any time.
PostEvent(a, type) ==
  /\ row # None
  /\ Serve(a, "event") /\ Become(a, "recording")
  /\ Start(a, type)
  /\ UNCHANGED row

MarkExceptionRowFirst(a) ==
  /\ row # None
  /\ Serve(a, "exception") /\ Become(a, "recording")
  /\ Start(a, "exception")
  /\ row' = [row EXCEPT !.exceptionFlag = TRUE]

\* markException: the event first.
MarkException(a) ==
  /\ row # None
  /\ Serve(a, "exception") /\ Become(a, "recording")
  /\ Start(a, "exception")
  /\ UNCHANGED row

\* updateDriverLocation, for the shipment's driver: the event only if the SELECT finds
\* the shipment active.
UpdateLocation(a) ==
  /\ row # None
  /\ Serve(a, "location")
  /\ IF row.status \in Active
     THEN Start(a, "location_updated") /\ Become(a, "recording")
     ELSE UNCHANGED logVars /\ Become(a, "answered")
  /\ UNCHANGED row

\* recordEvent goes on.
Recording(a) == (Insert(a) \/ WriteHash(a)) /\ UNCHANGED shipVars

\* recordEvent returns, whether or not the cached state could be deleted.
Recorded(a) ==
  /\ Invalidate(a) \/ InvalidateFails(a)
  /\ Become(a, IF what[a] = "exception" THEN "flag" ELSE "answered")
  /\ UNCHANGED <<row, what>>

\* It throws, and so does the service; the row stays as it is.
RecordFails(a) ==
  /\ AppendFails(a) /\ Become(a, "failed")
  /\ UNCHANGED <<row, what>>

FlagInStatus(a) ==
  /\ handler[a] = "flag" /\ Become(a, "answered")
  /\ row' = [status |-> "exception", exceptionFlag |-> TRUE]
  /\ UNCHANGED <<logVars, what>>

\* markException: the UPDATE of the row.
Flag(a) ==
  /\ handler[a] = "flag" /\ Become(a, "answered")
  /\ row' = [row EXCEPT !.exceptionFlag = TRUE]
  /\ UNCHANGED <<logVars, what>>

FlagFails(a) ==
  /\ handler[a] = "flag" /\ Become(a, "failed")
  /\ Fails
  /\ UNCHANGED <<log, op, kind, prev, cache, readVars, contended, edited, overtaken, trims,
                 row, what>>

\* getShipmentState, the cache, and other statements on the log.
Rest ==
  /\ \/ \E r \in Readers : GetCurrentState(r) \/ FillFails(r)
     \/ CacheExpires \/ Trim
     \/ \E i \in Logged, type \in Kinds : Edit(i, type)
     \/ \E i \in Logged : EditStatus(i)
  /\ UNCHANGED shipVars

ShipNext ==
  \/ \E a \in Appends :
       \/ CreateRow(a) \/ RecordCreated(a) \/ CreateDies(a)
       \/ MarkException(a) \/ Flag(a) \/ FlagFails(a)
       \/ UpdateLocation(a)
       \/ Recording(a) \/ Recorded(a) \/ RecordFails(a)
       \/ \E type \in Posted : PostEvent(a, type)
  \/ Rest

ShipSpec == ShipInit /\ [][ShipNext]_allVars

-----------------------------------------------------------------------------
(* Properties *)

ShipTypeOK ==
  /\ TypeOK
  /\ row \in [status : {"pending"}, exceptionFlag : BOOLEAN] \cup {None}
  /\ what \in [Appends -> {None, "create", "event", "exception", "location"}]
  /\ handler \in [Appends -> {"none", "created", "recording", "flag", "answered", "failed"}]

InLog(a) == \E i \in Logged : log[i].id = a

\* Row and log agree, but for a request that is still going on or that failed: the
\* shipment's first event is on record, a shipment is flagged as an exception only if its log
\* says why, and one whose log has an exception reported by markException is flagged.
\* (Retention deletes events, and an 'exception' that is posted as an event flags nothing.)
RowAgreesWithLog ==
  ShipTypeOK /\ \A a \in Appends :
    /\ what[a] = "create" /\ handler[a] = "answered" => InLog(a) \/ trims > 0
    /\ what[a] = "exception" /\ InLog(a) =>
         row.exceptionFlag \/ handler[a] \in {"recording", "flag", "failed"}
    /\ row # None /\ row.exceptionFlag =>
         trims > 0 \/ \E b \in Appends : what[b] = "exception" /\ InLog(b)

\* PRD, line 159: "When a driver's location changes, [...] everyone who needs to know finds
\* out immediately"; line 167: "Live driver GPS tracking".  A location accepted for a
\* shipment whose log says it is in transit should be recorded in that log.
LocationIsTracked ==
  [][\A a \in Appends :
       UpdateLocation(a) /\ Reduced.status = "in_transit" => handler'[a] = "recording"]_allVars
=============================================================================
