------------------------------- MODULE MCServices -------------------------------
(***************************************************************************)
(* The services that share no state with each other, checked side by side: *)
(* `part` says which of them a behaviour is about, and the others stay as  *)
(* they begin.                                                             *)
(***************************************************************************)
EXTENDS Integers, FiniteSets, TLC

CONSTANTS
  Matrices, Padding, Infinity,
  Orders, Warehouses, Skus, Allocations, Upserts, Quantities, Distance, Capacity, MaxFailures,
  Calls, MaxAttempts, MaxTokens, MaxEpochs, MaxAuthFailures,
  Logins, MaxFailed, TicksPerSecond, Expiry, MaxRedisFailures,
  Requests, MaxRequests, Window, MaxTime,
  Subscriptions, Events, Payments, SuspendAt, MaxBillingFailures,
  Executions, Messages, MaxRetries, MaxRedisErrors,
  Sids, Notices, MaxSmsFailures,
  Managers, Keys, Rows, MaxValue,
  None

VARIABLES
  part,
  costMatrix, row, u, v, p, way, minDist, used, j0, loop,
  orders, decisions, allocation, inventory, currentUnits, upsert, crossed, unsynced, orderFailures,
  refreshTokens, resetToken, blacklist, failed, locked, recent, call, epoch, issuedIn, late,
  exchanged, rivals, unrevoked, authFailures,
  attempts, expires, login, clock, blacklisted, loggedOut, seconds, unexpiring, redisFailures,
  time, entries, request, crossing,
  creation, standing, event, delivery, stored, begun, astray,
  retryCount, inWindow, suspended, payment, streak, handled, blurred, billingFailures,
  outer, handler, todo, current, lock, cutShort, pending, failedList, sent, overlap, redisErrors,
  processed, requested, unmatched, logs, smsCall, meeting, lastSent, notice, posted, smsFailures,
  field, latest, rotation, raced, disturbed

H == INSTANCE Hungarian
O == INSTANCE OrderAllocation
A == INSTANCE AuthManager
L == INSTANCE ApiAuth
R == INSTANCE RateLimiter
B == INSTANCE Billing
J == INSTANCE RecurringJobs
T == INSTANCE Twilio
K == INSTANCE KeyRotation

ASSUME Bounds ==
  H!HungarianOK /\ O!OrdersOK /\ A!AuthOK /\ L!ApiAuthOK /\ R!RateOK /\ B!BillingOK /\ J!JobsOK
  /\ T!TwilioOK /\ K!RotationOK

-----------------------------------------------------------------------------
(* The instance *)

SmallMatrices == [1..2 -> [1..3 -> {0, 1, 3}]] \cup [1..3 -> [1..2 -> {0, 1, 3}]]
                 \cup [1..3 -> [1..3 -> {0, 2}]]
Near == CHOOSE w \in Warehouses : TRUE
NearAndFar == [w \in Warehouses |-> IF w = Near THEN 10 ELSE 100]
NearIsSmall == [w \in Warehouses |-> IF w = Near THEN 1 ELSE 0]
Newest == CHOOSE m \in Managers : TRUE
OneHasTheNewest == [m \in Managers |-> IF m = Newest THEN {1, 2, 3} ELSE {1, 2}]

\* Calls, requests, payments, notices and subscriptions are the same model values and alike.
Symmetry == Permutations(Calls)

-----------------------------------------------------------------------------
AnyMatrix == CHOOSE c \in Matrices : TRUE

Parts == {"hungarian", "orders", "auth", "lockout", "rate", "stripe", "payments", "jobs", "calls",
          "notices", "rotation"}

Init ==
  /\ part \in Parts
  /\ H!HungarianInit /\ (part # "hungarian" => costMatrix = AnyMatrix)
  /\ O!OrdersInit /\ A!AuthInit /\ L!ApiAuthInit /\ R!RateInit
  /\ J!JobsInit /\ (part # "jobs" => \A c \in pending : c.retries = 0)
  /\ B!BillingInit /\ T!TwilioInit /\ K!RotationInit

hungarianVars == <<costMatrix, row, u, v, p, way, minDist, used, j0, loop>>
orderVars == <<orders, decisions, allocation, inventory, currentUnits, upsert, crossed, unsynced,
                orderFailures>>
authVars == <<refreshTokens, resetToken, blacklist, failed, locked, recent, call, epoch, issuedIn, late,
              exchanged, rivals, unrevoked, authFailures>>
apiAuthVars == <<attempts, expires, login, clock, blacklisted, loggedOut, seconds, unexpiring,
                redisFailures>>
rateVars == <<time, entries, request, crossing>>
billingVars == <<creation, standing, event, delivery, stored, begun, astray, retryCount, inWindow,
                suspended, payment, streak, handled, blurred, billingFailures>>
jobsVars == <<outer, handler, todo, current, lock, cutShort, pending, failedList, sent, overlap,
              redisErrors>>
twilioVars == <<processed, requested, unmatched, logs, smsCall, meeting, lastSent, notice, posted,
                smsFailures>>
rotationVars == <<field, latest, rotation, raced, disturbed>>

\* What every service but one keeps.
Others(of) ==
  /\ UNCHANGED part
  /\ IF of = "H" THEN TRUE ELSE UNCHANGED hungarianVars
  /\ IF of = "O" THEN TRUE ELSE UNCHANGED orderVars
  /\ IF of = "A" THEN TRUE ELSE UNCHANGED authVars
  /\ IF of = "L" THEN TRUE ELSE UNCHANGED apiAuthVars
  /\ IF of = "R" THEN TRUE ELSE UNCHANGED rateVars
  /\ IF of = "B" THEN TRUE ELSE UNCHANGED billingVars
  /\ IF of = "J" THEN TRUE ELSE UNCHANGED jobsVars
  /\ IF of = "T" THEN TRUE ELSE UNCHANGED twilioVars
  /\ IF of = "K" THEN TRUE ELSE UNCHANGED rotationVars

Next ==
  \/ part = "hungarian" /\ H!HungarianNext /\ Others("H")
  \/ part = "orders"    /\ O!OrdersNext    /\ Others("O")
  \/ part = "auth"      /\ A!AuthNext      /\ Others("A")
  \/ part = "lockout"   /\ L!ApiAuthNext   /\ Others("L")
  \/ part = "rate"      /\ R!RateNext      /\ Others("R")
  \/ part = "stripe"    /\ B!StripeNext    /\ Others("B")
  \/ part = "payments"  /\ B!PaymentNext   /\ Others("B")
  \/ part = "jobs"      /\ J!JobsNext      /\ Others("J")
  \/ part = "calls"     /\ T!CallsNext     /\ Others("T")
  \/ part = "notices"   /\ T!NoticesNext   /\ Others("T")
  \/ part = "rotation"  /\ K!RotationNext  /\ Others("K")

vars == <<part, hungarianVars, orderVars, authVars, apiAuthVars, rateVars, billingVars,
          jobsVars, twilioVars, rotationVars>>

Spec == Init /\ [][Next]_vars

-----------------------------------------------------------------------------

\* The variables of every service keep their types.
ServicesTypeOK ==
  /\ part \in Parts
  /\ part = "hungarian" => H!HungarianTypeOK
  /\ part = "orders" => O!OrdersTypeOK
  /\ part = "auth" => A!AuthTypeOK
  /\ part = "lockout" => L!ApiAuthTypeOK
  /\ part = "rate" => R!RateTypeOK
  /\ part \in {"stripe", "payments"} => B!BillingTypeOK
  /\ part = "jobs" => J!JobsTypeOK
  /\ part \in {"calls", "notices"} => T!TwilioTypeOK
  /\ part = "rotation" => K!RotationTypeOK

\* HungarianSolver: while it runs the potentials fit the costs, and what it returns costs no more
\* than any other assignment.
AssignmentIsOptimal == part = "hungarian" => H!PotentialsFit /\ H!AssignmentOptimal

\* order.service.ts and warehouse.service.ts: the row of an order says what its latest decision
\* says, and current_units is the sum of the inventory, but for the overlaps and failures they name.
OrdersConsistent == part = "orders" => O!LatestDecisionIsTheRow /\ O!UnitsAddUp

\* authentication-manager.ts, jwt.ts: what was revoked stays out, a refresh token is exchanged once,
\* and a token that logged out is refused, but for the races they name.
SessionsEnd ==
  /\ part = "auth" => A!RevokedStaysOut /\ A!ExchangedOnce
  /\ part = "lockout" => L!LoggedOutIsRefused

\* The counters of failed logins and of requests hold, exceeded by what overlaps at most, and
\* a lockout ends.
LimitsHold ==
  /\ part = "auth" => A!AttemptsBounded
  /\ part = "lockout" => L!LockoutEnds /\ L!FailuresBounded
  /\ part = "rate" => R!WindowBounded

\* The Stripe connectors: the stored subscription follows Stripe's events, and failed payments
\* suspend when they should.
BillingFollowsStripe ==
  /\ part = "stripe" => B!StatusFollowsStripe
  /\ part = "payments" => B!SuspendedForFailures

\* jobs/scheduler.ts with sms-processor.ts: one execution at a time in its race; a message sent once.
JobsExcludeEachOther == part = "jobs" => J!OneExecution /\ J!SentOnce

\* Twilio: a reply marked as processed has its request recorded, or matched no delivery;
\* one message an hour to a number.
MessagesLimited ==
  /\ part = "calls" => T!MarkedIsHandled
  /\ part \in {"calls", "notices"} => T!OneAnHour

\* key-rotation.ts: a rotation keeps what is written, and is complete when it ends.
RotationKeepsAll == part = "rotation" => K!WritesKept /\ K!RotationComplete
=============================================================================
