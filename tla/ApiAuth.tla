-------------------------------- MODULE ApiAuth --------------------------------
(***************************************************************************)
(* What the API keeps in Redis about logins (api/services/auth.service.ts, *)
(* core/auth/jwt.ts, middleware.ts): the count of one account's failed     *)
(* logins, and the blacklist entry of one access token that logs out.      *)
(* Redis may be away for any call: every one of them is then passed over.  *)
(***************************************************************************)
EXTENDS Integers, FiniteSets

CONSTANTS
  Logins,         \* bound: logins at a time
  MaxFailed,      \* MAX_FAILED_ATTEMPTS (5)
  TicksPerSecond, \* how finely time is told; Redis and Date.now() count milliseconds
  Expiry,         \* exp of the access token, in seconds from its issue
  MaxRedisFailures \* bound: calls Redis does not answer

ApiAuthOK ==
  /\ MaxFailed \in Nat \ {0} /\ TicksPerSecond \in Nat \ {0}
  /\ Expiry \in Nat /\ MaxRedisFailures \in Nat /\ IsFiniteSet(Logins)

VARIABLES
  attempts,    \* login_attempts:<email>; 0 without a key
  expires,     \* the key has a time to live
  login,       \* what each login awaits
  clock,       \* in ticks
  blacklisted, \* when the blacklist entry expires, in ticks; 0 without one
  loggedOut,   \* history: the token's logout was answered
  seconds,     \* history: the seconds in which it was accepted after that
  unexpiring,  \* history: EXPIRE, or the reply to the INCR before it, was lost
  redisFailures

lockoutVars == <<attempts, expires, login, unexpiring>>
tokenVars   == <<clock, blacklisted, loggedOut, seconds>>
apiAuthVars == <<lockoutVars, tokenVars, redisFailures>>

ApiAuthInit ==
  /\ attempts = 0 /\ expires = FALSE
  /\ login = [c \in Logins |-> "idle"]
  /\ clock = 0 /\ blacklisted = 0 /\ loggedOut = FALSE /\ seconds = {}
  /\ unexpiring = FALSE /\ redisFailures = 0

RedisAway == redisFailures < MaxRedisFailures /\ redisFailures' = redisFailures + 1
Step(c, from, to) == login[c] = from /\ login' = [login EXCEPT ![c] = to]

-----------------------------------------------------------------------------
(* login *)

\* checkLockout: fails open.
CheckLockout(c) ==
  /\ Step(c, "idle", "verify")
  /\ IF attempts >= MaxFailed THEN RedisAway ELSE UNCHANGED redisFailures
  /\ UNCHANGED <<attempts, expires, unexpiring, tokenVars>>

\* The SELECT of the user and the comparison.
Compare(c) ==
  /\ Step(c, "verify", "incr") \/ Step(c, "verify", "clear")
  /\ UNCHANGED <<attempts, expires, unexpiring, tokenVars, redisFailures>>

\* recordFailedAttempt: INCR; the first one goes on to EXPIRE.
IncrAttempts(c) ==
  /\ Step(c, "incr", IF attempts = 0 THEN "expire" ELSE "idle")
  /\ attempts' = attempts + 1
  /\ UNCHANGED <<expires, unexpiring, tokenVars, redisFailures>>

ExpireLater(c) ==
  /\ Step(c, "expire", "idle")
  /\ UNCHANGED <<attempts, expires, unexpiring, tokenVars, redisFailures>>

\* EXPIRE, of whatever key there is by now.
ExpireAttempts(c) ==
  /\ Step(c, "expire", "idle")
  /\ expires' = (attempts > 0)
  /\ UNCHANGED <<attempts, unexpiring, tokenVars, redisFailures>>

\* clearLockout
ClearLockout(c) ==
  /\ Step(c, "clear", "idle")
  /\ attempts' = 0 /\ expires' = FALSE /\ unexpiring' = FALSE
  /\ UNCHANGED <<tokenVars, redisFailures>>

\* Redis does not answer one of these, or the process dies; INCR may have been done.
RecordFails(c) ==
  /\ login[c] \in {"incr", "expire", "clear"}
  /\ RedisAway
  /\ login' = [login EXCEPT ![c] = "idle"]
  /\ attempts' \in {attempts} \cup (IF login[c] = "incr" THEN {attempts + 1} ELSE {})
  /\ unexpiring' = (unexpiring \/ login[c] = "expire" \/ (attempts = 0 /\ attempts' = 1))
  /\ UNCHANGED <<expires, tokenVars>>

\* The 15 minutes from the first failure are over.
AttemptsExpire ==
  /\ expires
  /\ attempts' = 0 /\ expires' = FALSE /\ unexpiring' = FALSE
  /\ UNCHANGED <<login, tokenVars, redisFailures>>

-----------------------------------------------------------------------------
(* An access token *)

Now == clock \div TicksPerSecond

\* verify: exp is compared in whole seconds, and is still good in its own second.
Verified == Now <= Expiry

\* isBlacklisted
Blacklisted == clock < blacklisted

\* authenticate lets a request through.
Accept ==
  /\ Verified /\ (Blacklisted => RedisAway) /\ (~Blacklisted => UNCHANGED redisFailures)
  /\ seconds' = IF loggedOut THEN seconds \cup {Now} ELSE seconds
  /\ UNCHANGED <<lockoutVars, clock, blacklisted, loggedOut>>

BlacklistFor(remaining) ==
  blacklisted' = IF remaining > 0 THEN clock + remaining * TicksPerSecond ELSE blacklisted

\* blacklistToken: the seconds that are left, none in the last one.
Remaining == Expiry - Now

\* POST /logout, itself authenticated: answered even if the SET fails.
LogOut ==
  /\ Verified /\ ~Blacklisted
  /\ loggedOut' = TRUE
  /\ \/ BlacklistFor(Remaining) /\ UNCHANGED redisFailures
     \/ RedisAway /\ UNCHANGED blacklisted
  /\ UNCHANGED <<lockoutVars, clock, seconds>>

Tick ==
  /\ Verified
  /\ clock' = clock + 1
  /\ UNCHANGED <<lockoutVars, blacklisted, loggedOut, seconds, redisFailures>>

ApiAuthNext ==
  \/ \E c \in Logins :
       \/ CheckLockout(c) \/ Compare(c) \/ IncrAttempts(c) \/ ExpireAttempts(c)
       \/ ClearLockout(c) \/ RecordFails(c)
  \/ AttemptsExpire
  \/ Accept \/ LogOut \/ Tick

-----------------------------------------------------------------------------
(* Properties *)

ApiAuthTypeOK ==
  /\ attempts \in Nat /\ expires \in BOOLEAN /\ unexpiring \in BOOLEAN
  /\ login \in [Logins -> {"idle", "verify", "incr", "expire", "clear"}]
  /\ clock \in Nat /\ blacklisted \in Nat /\ loggedOut \in BOOLEAN
  /\ seconds \subseteq 0..Expiry

\* A lockout ends: the counter has a time to live, however failures, successes and the
\* end of an earlier lockout are interleaved, except between the first INCR
\* and its EXPIRE, or when Redis lost one of the two.
LockoutEnds ==
  attempts > 0 /\ ~expires => unexpiring \/ \E c \in Logins : login[c] = "expire"

\* While Redis answers, the counter never exceeds the limit by more than the logins that
\* overlap: each of them has seen it below.
FailuresBounded ==
  redisFailures = 0 => attempts <= MaxFailed - 1 + Cardinality(Logins)

\* After a logout that Redis took, the token is accepted in the second it expires in at most: the
\* blacklist entry is gone, or was not made, a little before verify refuses it.
LoggedOutIsRefused == redisFailures = 0 => seconds \subseteq {Expiry}
=============================================================================
