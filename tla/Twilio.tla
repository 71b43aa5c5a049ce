--------------------------------- MODULE Twilio ---------------------------------
(***************************************************************************)
(* Short messages to and from one phone number.                            *)
(*  - core/webhooks/webhook-handler.ts and integrations/twilio/            *)
(*    connector.ts: replies, told apart by MessageSid, and what is sent    *)
(*    through sendSms, limited by the rows of sms_logs.                    *)
(*  - integrations/sms/twilio-connector.ts: notifications, limited by a    *)
(*    key in Redis.                                                        *)
(***************************************************************************)
EXTENDS Integers

CONSTANTS
  Sids,     \* the MessageSids of customers' RESCHEDULE replies
  Calls,    \* bound: webhooks and sendSms at a time
  Notices,  \* bound: notifications at a time
  MaxSmsFailures, \* bound: calls of Redis, of the database or of Twilio that fail
  None

TwilioOK == MaxSmsFailures \in Nat /\ None \notin Sids

VARIABLES
  processed, \* webhook-idempotency: the Sids marked
  requested, \* history: the Sids whose reschedule request is in deliveries
  unmatched, \* history: the Sids for which no pending delivery was found
  logs,      \* rows of sms_logs of the last hour, 2 for more
  smsCall,      \* what each call awaits, and the Sid it is for
  meeting,   \* history: two calls overlapped, or one spanned the end of an hour
  lastSent,  \* sms_last_sent: "none", "bare" without a time to live, "hour" with one
  notice,    \* what each notification awaits
  posted,    \* history: messages posted to Twilio under the present key, 2 for more
  smsFailures

callVars   == <<processed, requested, unmatched, logs, smsCall, meeting>>
noticeVars == <<lastSent, notice, posted>>
twilioVars == <<callVars, noticeVars, smsFailures>>

TwilioInit ==
  /\ processed = {} /\ requested = {} /\ unmatched = {} /\ logs = 0 /\ meeting = FALSE
  /\ smsCall = [c \in Calls |-> [at |-> "idle", sid |-> None]]
  /\ lastSent = "none" /\ posted = 0
  /\ notice = [n \in Notices |-> "idle"]
  /\ smsFailures = 0

SmsFails == smsFailures < MaxSmsFailures /\ smsFailures' = smsFailures + 1
OneMore(n) == IF n < 2 THEN n + 1 ELSE 2
Meets == \E c \in Calls : smsCall[c].at # "idle"
Goes(c, from, to) == smsCall[c].at = from /\ smsCall' = [smsCall EXCEPT ![c].at = to]

-----------------------------------------------------------------------------
(* handleTwilioWebhook and sendSms *)

\* isAlreadyProcessed: a Sid that is marked, and read, is answered at once.
Incoming(c, sid) ==
  /\ smsCall[c].at = "idle"
  /\ sid \notin processed
  /\ smsCall' = [smsCall EXCEPT ![c] = [at |-> "find", sid |-> sid]]
  /\ meeting' = (meeting \/ Meets)
  /\ UNCHANGED <<processed, requested, unmatched, logs, noticeVars, smsFailures>>

\* The GET fails: taken for a new one.
IncomingUnread(c, sid) ==
  /\ smsCall[c].at = "idle" /\ sid \in processed
  /\ SmsFails
  /\ smsCall' = [smsCall EXCEPT ![c] = [at |-> "find", sid |-> sid]]
  /\ meeting' = (meeting \/ Meets)
  /\ UNCHANGED <<processed, requested, unmatched, logs, noticeVars>>

\* sendSms for someone else: an ETA, a failed delivery, a driver's route.
Outgoing(c) ==
  /\ smsCall[c].at = "idle"
  /\ smsCall' = [smsCall EXCEPT ![c] = [at |-> "limit", sid |-> None]]
  /\ meeting' = (meeting \/ Meets)
  /\ UNCHANGED <<processed, requested, unmatched, logs, noticeVars, smsFailures>>

\* handleIncomingSms: the SELECT of the pending delivery of the number finds one.
FindDelivery(c) ==
  /\ Goes(c, "find", "ask")
  /\ UNCHANGED <<processed, requested, unmatched, logs, meeting, noticeVars, smsFailures>>

\* It finds none: nothing is requested and nothing sent, and the Sid is marked.
FindNothing(c) ==
  /\ Goes(c, "find", "mark")
  /\ unmatched' = unmatched \cup {smsCall[c].sid}
  /\ UNCHANGED <<processed, requested, logs, meeting, noticeVars, smsFailures>>

\* The UPDATE of the delivery.
RequestReschedule(c) ==
  /\ Goes(c, "ask", "limit")
  /\ requested' = requested \cup {smsCall[c].sid}
  /\ UNCHANGED <<processed, unmatched, logs, meeting, noticeVars, smsFailures>>

After(c) == IF smsCall[c].sid = None THEN "idle" ELSE "mark"

\* A row of the last hour, of a failed one too: nothing is sent.
ReadLogs(c) ==
  /\ Goes(c, "limit", IF logs > 0 THEN After(c) ELSE "log")
  /\ UNCHANGED <<processed, requested, unmatched, logs, meeting, noticeVars, smsFailures>>

\* Sent, which is only logged so far, and recorded.
LogSent(c) ==
  /\ Goes(c, "log", After(c))
  /\ logs' = OneMore(logs)
  /\ UNCHANGED <<processed, requested, unmatched, meeting, noticeVars, smsFailures>>

\* The INSERT fails, with or without effect: a row 'failed', and the error.
LogFailed(c) ==
  /\ Goes(c, "log", "idle")
  /\ SmsFails
  /\ logs' \in {OneMore(logs), OneMore(OneMore(logs))}
  /\ UNCHANGED <<processed, requested, unmatched, meeting, noticeVars>>

\* markProcessed
MarkProcessed(c) ==
  /\ Goes(c, "mark", "idle")
  /\ processed' = processed \cup {smsCall[c].sid}
  /\ UNCHANGED <<requested, unmatched, logs, meeting, noticeVars, smsFailures>>

MarkUnhandled(c) ==
  /\ smsCall[c].at # "idle" /\ smsCall[c].sid # None
  /\ SmsFails
  /\ smsCall' = [smsCall EXCEPT ![c].at = "idle"]
  /\ processed' = processed \cup {smsCall[c].sid}
  /\ UNCHANGED <<requested, unmatched, logs, meeting, noticeVars>>

\* Any other call fails, the UPDATE with or without effect, or the server stops: 500,
\* and nothing is marked.
CallThrows(c) ==
  /\ smsCall[c].at # "idle"
  /\ SmsFails
  /\ smsCall' = [smsCall EXCEPT ![c].at = "idle"]
  /\ requested' \in {requested, IF smsCall[c].at = "ask" THEN requested \cup {smsCall[c].sid}
                                                       ELSE requested}
  /\ UNCHANGED <<processed, unmatched, logs, meeting, noticeVars>>

\* An hour, or a day, after.
LogsAge == /\ logs > 0 /\ logs' = 0
           /\ meeting' = (meeting \/ Meets)
           /\ UNCHANGED <<processed, requested, unmatched, smsCall, noticeVars, smsFailures>>
MarksExpire == /\ processed # {} /\ processed' = {}
               /\ UNCHANGED <<requested, unmatched, logs, smsCall, meeting, noticeVars, smsFailures>>

CallsNext ==
  \/ \E c \in Calls :
       \/ \E sid \in Sids : Incoming(c, sid) \/ IncomingUnread(c, sid)
       \/ Outgoing(c) \/ FindDelivery(c) \/ FindNothing(c) \/ RequestReschedule(c)
       \/ ReadLogs(c) \/ LogSent(c) \/ LogFailed(c)
       \/ MarkProcessed(c) \/ CallThrows(c)
  \/ LogsAge \/ MarksExpire

-----------------------------------------------------------------------------
(* checkAndRecordSmsRateLimit and sendSmsRaw *)

Moves(n, from, to) == notice[n] = from /\ notice' = [notice EXCEPT ![n] = to]

\* SET NX takes; with the key there already the caller returns and sends nothing.
SetIfAbsent(n) ==
  /\ lastSent = "none" /\ Moves(n, "idle", "expire")
  /\ lastSent' = "bare"
  /\ UNCHANGED <<posted, callVars, smsFailures>>

\* EXPIRE
ExpireKey(n) ==
  /\ Moves(n, "expire", "post")
  /\ lastSent' = IF lastSent = "none" THEN "none" ELSE "hour"
  /\ UNCHANGED <<posted, callVars, smsFailures>>

\* Either call fails: the message goes out all the same.
FailOpen(n) ==
  /\ notice[n] \in {"idle", "expire"}
  /\ Moves(n, notice[n], "post")
  /\ SmsFails
  /\ UNCHANGED <<lastSent, posted, callVars>>

\* Twilio takes it.
Post(n) ==
  /\ Moves(n, "post", "idle")
  /\ posted' = OneMore(posted)
  /\ UNCHANGED <<lastSent, callVars, smsFailures>>

\* Twilio refuses: the error is logged, and the key stays.
PostFails(n) ==
  /\ Moves(n, "post", "idle")
  /\ SmsFails
  /\ UNCHANGED <<lastSent, posted, callVars>>

\* An hour later; no call takes an hour.
KeyExpires ==
  /\ lastSent = "hour" /\ \A n \in Notices : notice[n] = "idle"
  /\ lastSent' = "none" /\ posted' = 0
  /\ UNCHANGED <<notice, callVars, smsFailures>>

NoticesNext ==
  \/ \E n \in Notices : SetIfAbsent(n) \/ ExpireKey(n) \/ FailOpen(n) \/ Post(n) \/ PostFails(n)
  \/ KeyExpires

-----------------------------------------------------------------------------
(* Properties *)

TwilioTypeOK ==
  /\ processed \cup requested \cup unmatched \subseteq Sids /\ logs \in 0..2 /\ posted \in 0..2
  /\ \A c \in Calls : smsCall[c].at \in {"find", "ask", "mark"} => smsCall[c].sid \in Sids
  /\ lastSent \in {"none", "bare", "hour"}

\* A reply answered as already processed was handled to the end: its request is recorded,
\* or its number had no pending delivery when it was looked up, in which case the customer
\* is told nothing.  A webhook that failed half way is handled again.
MarkedIsHandled == processed \subseteq requested \cup unmatched

\* One message an hour at most, on either way, unless calls overlapped (the count is read before the
\* row is written) or something failed; and the number that got one can get another
\* one later: its key has a time to live unless the EXPIRE failed.
OneAnHour ==
  /\ ~meeting /\ smsFailures = 0 => logs <= 1
  /\ smsFailures = 0 => posted <= 1 /\ (lastSent = "bare" => \E n \in Notices : notice[n] = "expire")
=============================================================================
