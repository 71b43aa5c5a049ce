------------------------------ MODULE AuthManager ------------------------------
(***************************************************************************)
(* AuthenticationManager (core/auth/authentication-manager.ts) and one     *)
(* user of it: failed logins and the lock they lead to, the one refresh    *)
(* token a user has, the calls that revoke it.  Calls run concurrently; a  *)
(* step is what runs up to the next await.                                 *)
(*                                                                         *)
(* Tokens are numbered as they are issued: the access and the refresh      *)
(* token of a login or refresh have one number.                            *)
(***************************************************************************)
EXTENDS Integers, FiniteSets

CONSTANTS
  Calls,        \* bound: calls at a time
  MaxAttempts,  \* failures that lock the account (5)
  MaxTokens,    \* bound: tokens issued
  MaxEpochs,    \* bound: logouts and changes of the password
  MaxAuthFailures \* bound: statements that fail

AuthOK ==
  /\ MaxAttempts \in Nat \ {0} /\ MaxTokens \in Nat /\ MaxEpochs \in Nat
  /\ MaxAuthFailures \in Nat /\ IsFiniteSet(Calls)

VARIABLES
  refreshTokens, \* refresh_tokens of the user
  resetToken,    \* there is a valid row in password_reset_tokens
  blacklist,     \* tokenBlacklist
  failed,        \* failedLoginAttempts.get(email).count
  locked,        \* its lockedUntil lies in the future
  recent,        \* rows of login_attempts of the last 15 minutes
  call,          \* what each call awaits, the token it was given, and the epoch it has read
  epoch,         \* history: logouts and changes of the password so far
  issuedIn,      \* history: the epoch in which each token's owner was authenticated
  late,          \* history: tokens stored by a call that a revocation overtook
  exchanged,     \* history: tokens exchanged for new ones, and those exchanged twice
  rivals,        \* history: tokens two overlapping calls had read
  unrevoked,     \* history: a call changed the password and failed before it revoked
  authFailures

tableVars == <<refreshTokens, resetToken>>
lockVars  == <<failed, locked, recent>>
pastVars  == <<epoch, issuedIn, late, exchanged, rivals, unrevoked>>
authVars  == <<tableVars, blacklist, lockVars, call, pastVars, authFailures>>

Ready == [at |-> "idle", token |-> 0, epoch |-> 0]
Issued == 1..Cardinality(DOMAIN issuedIn)

AuthInit ==
  /\ refreshTokens = {} /\ resetToken = FALSE /\ blacklist = {}
  /\ failed = 0 /\ locked = FALSE /\ recent = 0
  /\ call = [c \in Calls |-> Ready]
  /\ epoch = 0 /\ issuedIn = <<>> /\ late = {}
  /\ exchanged = [once |-> {}, twice |-> {}] /\ rivals = {}
  /\ unrevoked = FALSE /\ authFailures = 0

Await(c, step) == call' = [call EXCEPT ![c].at = step]
StatementLost == authFailures < MaxAuthFailures /\ authFailures' = authFailures + 1
End(c) == call' = [call EXCEPT ![c] = Ready]

-----------------------------------------------------------------------------
(* login *)

\* checkBruteForce lets the call through.
Unlocked == ~locked /\ recent < MaxAttempts

CheckBruteForce(c) ==
  /\ call[c].at = "idle" /\ Unlocked
  /\ Await(c, "select")
  /\ UNCHANGED <<tableVars, blacklist, lockVars, pastVars, authFailures>>

\* The SELECT of the user, if there is one, and then the slow comparison.
SelectUser(c) ==
  /\ call[c].at = "select"
  /\ call' = [call EXCEPT ![c].at = "verify", ![c].epoch = epoch]
  /\ UNCHANGED <<tableVars, blacklist, lockVars, pastVars, authFailures>>

PasswordRight(c) ==
  /\ call[c].at = "verify" /\ Await(c, "store")
  /\ failed' = 0 /\ locked' = FALSE
  /\ UNCHANGED <<tableVars, blacklist, recent, pastVars, authFailures>>

\* recordFailedLogin: the count is in memory and is never reset by the lock's end.
\* It is counted up to the limit, beyond which it makes no difference.
PasswordWrong(c) ==
  /\ call[c].at = "verify" /\ Await(c, "insert")
  /\ failed' = IF failed < MaxAttempts THEN failed + 1 ELSE failed
  /\ locked' = (locked \/ failed' >= MaxAttempts)
  /\ UNCHANGED <<tableVars, blacklist, recent, pastVars, authFailures>>

InsertAttempt(c) ==
  /\ call[c].at = "insert" /\ End(c)
  /\ recent' = recent + 1
  /\ UNCHANGED <<tableVars, blacklist, failed, locked, pastVars, authFailures>>

\* storeRefreshToken: the user has one row, whatever it was.
StoreToken(c) ==
  /\ call[c].at = "store" /\ Cardinality(Issued) < MaxTokens
  /\ LET new == Cardinality(Issued) + 1
         old == call[c].token
     IN /\ refreshTokens' = {new}
        /\ issuedIn' = [t \in 1..new |-> IF t = new THEN call[c].epoch ELSE issuedIn[t]]
        /\ late' = IF call[c].epoch < epoch THEN late \cup {new} ELSE late
        /\ exchanged' = IF old = 0 THEN exchanged
                        ELSE [once  |-> exchanged.once \cup {old},
                              twice |-> exchanged.twice \cup ({old} \cap exchanged.once)]
        /\ IF old = 0 THEN End(c) ELSE Await(c, "drop")
  /\ UNCHANGED <<resetToken, blacklist, lockVars, epoch, rivals, unrevoked, authFailures>>

-----------------------------------------------------------------------------
(* refresh *)

\* The token is found (if not, the call throws).
BeginRefresh(c, t) ==
  /\ call[c].at = "idle" /\ t \in refreshTokens
  /\ call' = [call EXCEPT ![c] = [at |-> "store", token |-> t, epoch |-> epoch]]
  /\ rivals' = IF \E d \in Calls : call[d].token = t /\ call[d].at = "store"
               THEN rivals \cup {t} ELSE rivals
  /\ UNCHANGED <<tableVars, blacklist, lockVars, epoch, issuedIn, late, exchanged, unrevoked,
                 authFailures>>

\* ... and after storeRefreshToken the old one deleted.
DropOldToken(c) ==
  /\ call[c].at = "drop" /\ End(c)
  /\ refreshTokens' = refreshTokens \ {call[c].token}
  /\ UNCHANGED <<resetToken, blacklist, lockVars, pastVars, authFailures>>

-----------------------------------------------------------------------------
(* logout, changePassword, resetPassword *)

\* The blacklist is in memory, so it holds the token even if the DELETE fails.
Logout(c, t) ==
  /\ call[c].at = "idle" /\ epoch < MaxEpochs
  /\ blacklist' = blacklist \cup {t}
  /\ epoch' = epoch + 1
  /\ \/ refreshTokens' = {} /\ unrevoked' = FALSE /\ UNCHANGED authFailures
     \/ StatementLost /\ unrevoked' = TRUE /\ UNCHANGED refreshTokens
  /\ UNCHANGED <<resetToken, lockVars, call, issuedIn, late, exchanged, rivals>>

\* changePassword: the old password is right.
BeginChange(c) ==
  /\ call[c].at = "idle"
  /\ Await(c, "change")
  /\ UNCHANGED <<tableVars, blacklist, lockVars, pastVars, authFailures>>

RequestReset(c) ==
  /\ call[c].at = "idle"
  /\ resetToken' = TRUE
  /\ UNCHANGED <<refreshTokens, blacklist, lockVars, call, pastVars, authFailures>>

\* resetPassword: the token is found.
BeginReset(c) ==
  /\ call[c].at = "idle" /\ resetToken
  /\ Await(c, "reset")
  /\ UNCHANGED <<tableVars, blacklist, lockVars, pastVars, authFailures>>

ResetTokenExpires ==
  /\ resetToken /\ resetToken' = FALSE
  /\ UNCHANGED <<refreshTokens, blacklist, lockVars, call, pastVars, authFailures>>

\* The UPDATE of the password.
UpdatePassword(c) ==
  /\ call[c].at \in {"change", "reset"} /\ epoch < MaxEpochs
  /\ epoch' = epoch + 1
  /\ Await(c, IF call[c].at = "reset" THEN "clear" ELSE "revoke")
  /\ UNCHANGED <<tableVars, blacklist, lockVars, issuedIn, late, exchanged, rivals, unrevoked,
                 authFailures>>

ClearResetToken(c) ==
  /\ call[c].at = "clear" /\ Await(c, "revoke")
  /\ resetToken' = FALSE
  /\ UNCHANGED <<refreshTokens, blacklist, lockVars, pastVars, authFailures>>

RevokeNothing(c) ==
  /\ call[c].at = "revoke" /\ End(c)
  /\ UNCHANGED <<tableVars, blacklist, lockVars, pastVars, authFailures>>

\* The DELETE of the user's refresh token.
RevokeTokens(c) ==
  /\ call[c].at = "revoke" /\ End(c)
  /\ refreshTokens' = {} /\ unrevoked' = FALSE
  /\ UNCHANGED <<resetToken, blacklist, lockVars, epoch, issuedIn, late, exchanged, rivals,
                 authFailures>>

-----------------------------------------------------------------------------
\* A statement fails, and the call with it.
AuthCallFails(c) ==
  /\ call[c].at # "idle" /\ End(c)
  /\ StatementLost
  /\ unrevoked' = (unrevoked \/ call[c].at \in {"clear", "revoke"})
  /\ UNCHANGED <<tableVars, blacklist, lockVars, epoch, issuedIn, late, exchanged, rivals>>

LockEnds ==
  /\ locked /\ locked' = FALSE
  /\ UNCHANGED <<tableVars, blacklist, failed, recent, call, pastVars, authFailures>>

AttemptAges ==
  /\ recent > 0 /\ recent' = recent - 1
  /\ UNCHANGED <<tableVars, blacklist, failed, locked, call, pastVars, authFailures>>

AuthNext ==
  \/ \E c \in Calls :
       \/ CheckBruteForce(c) \/ SelectUser(c) \/ PasswordRight(c) \/ PasswordWrong(c)
       \/ InsertAttempt(c) \/ StoreToken(c) \/ DropOldToken(c)
       \/ BeginChange(c) \/ RequestReset(c) \/ BeginReset(c) \/ UpdatePassword(c)
       \/ ClearResetToken(c) \/ RevokeTokens(c) \/ AuthCallFails(c)
       \/ \E t \in Issued : BeginRefresh(c, t) \/ Logout(c, t)
  \/ ResetTokenExpires \/ LockEnds \/ AttemptAges

-----------------------------------------------------------------------------
(* Properties *)

AuthTypeOK ==
  /\ refreshTokens \subseteq Issued /\ blacklist \subseteq Issued /\ late \subseteq Issued
  /\ resetToken \in BOOLEAN /\ locked \in BOOLEAN /\ unrevoked \in BOOLEAN
  /\ failed \in 0..MaxAttempts /\ recent \in Nat /\ epoch \in 0..MaxEpochs
  /\ \A c \in Calls : call[c].token \in Issued \cup {0} /\ call[c].epoch \in 0..epoch

\* A logout or a change of the password ends the session: the token in the table is of a user who
\* was authenticated after it, unless a call it overtook stored its token
\* afterwards, or a call that changed the password has not come to its DELETE.
RevokedStaysOut ==
  \A t \in refreshTokens :
    issuedIn[t] < epoch =>
      t \in late \/ unrevoked \/ \E c \in Calls : call[c].at \in {"clear", "revoke"}

\* A refresh token is exchanged twice only by calls that overlap: rotation holds.
ExchangedOnce == exchanged.twice \subseteq rivals

\* Concurrent logins pass checkBruteForce together, but the failures of 15 minutes never exceed
\* the limit by more than the calls that overlap.
AttemptsBounded == recent <= MaxAttempts - 1 + Cardinality(Calls)
=============================================================================
