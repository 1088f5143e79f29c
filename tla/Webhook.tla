------------------------------- MODULE Webhook -------------------------------
(***************************************************************************)
(* The EventSub client of twitch/eventsub/webhook: WebhookManager.         *)
(*                                                                         *)
(* Callers run Subscribe, DeleteSubscription and AllSubscriptions on their *)
(* own goroutines and share, without a lock, the application token and its *)
(* expiry.  Twitch calls back on goroutines of the HTTP server: first to   *)
(* verify a new subscription, which is answered if its secret is among the *)
(* pending ones, then with notifications, in any order and again when it   *)
(* got no answer.  A subscription stands for its secret; a token for the   *)
(* answer that carried it and its expiry, in the order of issue; 0 is the  *)
(* empty token.                                                            *)
(***************************************************************************)
EXTENDS Naturals, FiniteSets

CONSTANTS
  Subs,       \* subscriptions somebody may ask for
  Known,      \* those whose type Delegate has a case and a callback for
  Notified,   \* those Twitch has something to notify of
  MaxTokens,  \* bound on the tokens issued
  MaxNotes,   \* bound on the notifications of a subscription
  MaxLost     \* bound on the answers to a callback that get lost

ASSUME WebhookAssumption ==
  /\ {Known, Notified} \subseteq SUBSET Subs
  /\ {MaxTokens, MaxNotes, MaxLost} \subseteq Nat

VARIABLES
  call,       \* where the call about each subscription is
  op,         \* what it is: "subscribe", "delete" or "list"
  got,        \* the token it has just been issued
  bearer,     \* the token in the header of its request
  appToken,   \* WebhookManager.appToken
  expiry,     \* appTokenExpiresAt, as the token it is the expiry of
  issued,     \* number of tokens issued
  lapsed,     \* tokens up to this one are expired
  overlapped, \* history: two refreshes were under way together
  tokenless,  \* history: an answer with status 2xx gave no token
  pending,    \* pendingVerifications
  recorded,   \* history: subscriptions Subscribe has recorded
  created,    \* history: those it has reported as created, returning nil
  answered,   \* history: challenges answered for each subscription
  status,     \* what Twitch thinks of each subscription
  net,        \* callbacks of Twitch under way
  sent,       \* number of notifications sent for each subscription
  acked,      \* notifications answered with 200
  lost,       \* number of answers lost
  seen,       \* WebhookManager.subscriptions
  handled,    \* history: how often each notification reached its callback
  unread,     \* history: notifications whose body could not be read
  garbled     \* history: those Delegate could not decode

callVars   == <<call, op, got, bearer>>
tokenVars  == <<appToken, expiry, issued, lapsed, overlapped, tokenless>>
verifyVars == <<pending, recorded, created, answered>>
serverVars == <<status, net, sent, acked, lost>>
appVars    == <<seen, handled, unread, garbled>>
vars == <<callVars, tokenVars, verifyVars, serverVars, appVars>>

Verify(s)  == [sub |-> s, what |-> "verify", note |-> 0]
Revoke(s)  == [sub |-> s, what |-> "revoke", note |-> 0]
Note(s, n) == [sub |-> s, what |-> "note", note |-> n]

Goto(s, from, to) == call[s] = from /\ call' = [call EXCEPT ![s] = to]

(* The call returns; its locals are gone. *)
Return(s, from) ==
  /\ Goto(s, from, "idle")
  /\ op' = [op EXCEPT ![s] = "list"]
  /\ bearer' = [bearer EXCEPT ![s] = 0]
  /\ got' = got

(* Calls that have fetched a token and not yet stored both of its parts. *)
Refreshing == {s \in Subs : call[s] \in {"token", "expiry"}}

(* An answer to a callback gets lost: Twitch keeps it for another try. *)
AnswerLost == lost < MaxLost /\ lost' = lost + 1 /\ UNCHANGED <<status, net, acked>>

(* Twitch gets the answer to a verification, and looks at it if it still   *)
(* waits for one.                                                          *)
Verdict(s, v) ==
  /\ status' = [status EXCEPT ![s] = IF @ = "pending" THEN v ELSE @]
  /\ net' = net \ {Verify(s)}
  /\ UNCHANGED <<acked, lost>>

-----------------------------------------------------------------------------
(* Broken variants, never part of Next. *)

(* UpdateAccessToken stores the token only. *)
StoreTokenOnly(s) ==
  /\ Goto(s, "token", "header")
  /\ appToken' = got[s]
  /\ UNCHANGED <<op, got, bearer, expiry, issued, lapsed, overlapped, tokenless,
                 verifyVars, serverVars, appVars>>

(* NewAuthdRequest ignores the error of UpdateAccessToken. *)
FetchFailsIgnored(s) ==
  /\ Goto(s, "fetch", "header")
  /\ UNCHANGED <<op, got, bearer, tokenVars, verifyVars, serverVars, appVars>>

(* Subscribe appends to a copy of the slice it has read without the lock. *)
RecordUnlocked(s) ==
  /\ Return(s, "reply")
  /\ pending' = {s}
  /\ recorded' = recorded \cup {s}
  /\ created' = created \cup {s}
  /\ UNCHANGED <<tokenVars, answered, serverVars, appVars>>

(* verifyOrRevokeWebhook answers a challenge and keeps the secret. *)
ChallengeKeeping(s) ==
  /\ Verify(s) \in net
  /\ s \in pending
  /\ answered' = [answered EXCEPT ![s] = @ + 1]
  /\ Verdict(s, "enabled") \/ AnswerLost
  /\ UNCHANGED <<callVars, tokenVars, pending, recorded, created, sent, appVars>>

(* CallbackHandler returns once OnAny has had the notification. *)
DeliverToAnyOnly(s, n) ==
  /\ Note(s, n) \in net
  /\ seen' = seen \cup {s}
  /\ net' = net \ {Note(s, n)}
  /\ acked' = acked \cup {<<s, n>>}
  /\ UNCHANGED <<callVars, tokenVars, verifyVars, status, sent, lost, handled, unread, garbled>>

-----------------------------------------------------------------------------
(* The calls: UpdateAccessToken, NewAuthdRequest and the request itself.   *)

Start(s, o) ==
  /\ Goto(s, "idle", "check")
  /\ o = "subscribe" => status[s] = "none"
  /\ o = "delete" => status[s] \notin {"none", "deleted"}
  /\ op' = [op EXCEPT ![s] = o]
  /\ UNCHANGED <<got, bearer, tokenVars, verifyVars, serverVars, appVars>>

TokenIsFresh(s) ==
  /\ Goto(s, "check", "header")
  /\ expiry > lapsed
  /\ appToken # 0
  /\ UNCHANGED <<op, got, bearer, tokenVars, verifyVars, serverVars, appVars>>

(* What the check saw is not looked at again: by the time the answer is    *)
(* there another call may have stored a fresh token.                       *)
TokenIsStale(s) ==
  /\ Goto(s, "check", "fetch")
  /\ expiry <= lapsed \/ appToken = 0
  /\ UNCHANGED <<op, got, bearer, tokenVars, verifyVars, serverVars, appVars>>

Fetch(s) ==
  /\ Goto(s, "fetch", "token")
  /\ issued < MaxTokens
  /\ issued' = issued + 1
  /\ got' = [got EXCEPT ![s] = issued + 1]
  /\ overlapped' = (overlapped \/ Refreshing # {})
  /\ UNCHANGED <<op, bearer, appToken, expiry, lapsed, tokenless, verifyVars, serverVars,
                 appVars>>

(* An answer that can be decoded and has no access_token, as {} or null:   *)
(* the empty token and its expiry are stored like any other.               *)
FetchEmpty(s) ==
  /\ Goto(s, "fetch", "token")
  /\ got' = [got EXCEPT ![s] = 0]
  /\ overlapped' = (overlapped \/ Refreshing # {})
  /\ tokenless' = TRUE
  /\ UNCHANGED <<op, bearer, appToken, expiry, issued, lapsed, verifyVars, serverVars,
                 appVars>>

FetchFails(s) ==
  /\ Return(s, "fetch")
  /\ UNCHANGED <<tokenVars, verifyVars, serverVars, appVars>>

(* The decoder's error is dropped: whatever token there is will be used. *)
FetchUndecodable(s) ==
  /\ Goto(s, "fetch", "header")
  /\ tokenless' = TRUE
  /\ UNCHANGED <<op, got, bearer, appToken, expiry, issued, lapsed, overlapped, verifyVars,
                 serverVars, appVars>>

(* Two assignments, and no lock. *)
StoreToken(s) ==
  /\ Goto(s, "token", "expiry")
  /\ appToken' = got[s]
  /\ UNCHANGED <<op, got, bearer, expiry, issued, lapsed, overlapped, tokenless,
                 verifyVars, serverVars, appVars>>

StoreExpiry(s) ==
  /\ Goto(s, "expiry", "header")
  /\ expiry' = got[s]
  /\ got' = [got EXCEPT ![s] = 0]
  /\ UNCHANGED <<op, bearer, appToken, issued, lapsed, overlapped, tokenless, verifyVars,
                 serverVars, appVars>>

(* NewAuthdRequest reads the token again. *)
SetHeader(s) ==
  /\ Goto(s, "header", "send")
  /\ bearer' = [bearer EXCEPT ![s] = appToken]
  /\ UNCHANGED <<op, got, tokenVars, verifyVars, serverVars, appVars>>

(* The request fails, or Twitch refuses it or its token. *)
SendFails(s) ==
  /\ Return(s, "send")
  /\ UNCHANGED <<tokenVars, verifyVars, serverVars, appVars>>

SendSubscribe(s) ==
  /\ Goto(s, "send", "reply")
  /\ op[s] = "subscribe"
  /\ bearer[s] > lapsed
  /\ status' = [status EXCEPT ![s] = "pending"]
  /\ net' = net \cup {Verify(s)}
  /\ UNCHANGED <<op, got, bearer, tokenVars, verifyVars, sent, acked, lost, appVars>>

SendDelete(s) ==
  /\ Return(s, "send")
  /\ op[s] = "delete"
  /\ bearer[s] > lapsed
  /\ status' = [status EXCEPT ![s] = "deleted"]
  /\ UNCHANGED <<tokenVars, verifyVars, net, sent, acked, lost, appVars>>

(* AllSubscriptions and GetUser change nothing. *)
SendList(s) ==
  /\ Return(s, "send")
  /\ op[s] = "list"
  /\ bearer[s] > lapsed
  /\ UNCHANGED <<tokenVars, verifyVars, serverVars, appVars>>

(* Subscribe has read the answer. *)
Record(s) ==
  /\ Return(s, "reply")
  /\ pending' = pending \cup {s}
  /\ recorded' = recorded \cup {s}
  /\ created' = created \cup {s}
  /\ UNCHANGED <<tokenVars, answered, serverVars, appVars>>

(* The answer has another status than the pending one: Subscribe returns   *)
(* nil all the same, and the secret is not kept.                           *)
OtherStatus(s) ==
  /\ Return(s, "reply")
  /\ created' = created \cup {s}
  /\ UNCHANGED <<tokenVars, pending, recorded, answered, serverVars, appVars>>

(* The answer is lost or cannot be decoded: Twitch has a subscription the  *)
(* manager does not expect.                                                *)
ReplyFails(s) ==
  /\ Return(s, "reply")
  /\ UNCHANGED <<tokenVars, verifyVars, serverVars, appVars>>

-----------------------------------------------------------------------------
(* CallbackHandler. *)

(* The secret of the callback is pending: it is removed, and the challenge *)
(* is answered.                                                            *)
Challenge(s) ==
  /\ Verify(s) \in net
  /\ s \in pending
  /\ pending' = pending \ {s}
  /\ answered' = [answered EXCEPT ![s] = @ + 1]
  /\ Verdict(s, "enabled") \/ AnswerLost
  /\ UNCHANGED <<callVars, tokenVars, recorded, created, sent, appVars>>

(* 403, not a pending request. *)
Refuse(s) ==
  /\ Verify(s) \in net
  /\ s \notin pending
  /\ Verdict(s, "refused") \/ AnswerLost
  /\ UNCHANGED <<callVars, tokenVars, verifyVars, sent, appVars>>

(* A revocation is answered, and that is all. *)
Revoked(s) ==
  /\ Revoke(s) \in net
  /\ \/ net' = net \ {Revoke(s)} /\ UNCHANGED <<status, acked, lost>>
     \/ AnswerLost
  /\ UNCHANGED <<callVars, tokenVars, verifyVars, sent, appVars>>

(* Handler.Delegate: a type without a case, or a callback, is dropped, and *)
(* so is a notification its type cannot decode.                            *)
Delegate(s, n) ==
  \E decoded \in BOOLEAN :
    /\ handled' = IF decoded /\ s \in Known THEN [handled EXCEPT ![s][n] = @ + 1] ELSE handled
    /\ garbled' = IF decoded THEN garbled ELSE garbled \cup {<<s, n>>}

(* The handler returns, which is answered with 200 whatever it has done.   *)
Answer200(s, n) ==
  /\ \/ /\ net' = net \ {Note(s, n)}
        /\ acked' = acked \cup {<<s, n>>}
        /\ UNCHANGED <<status, lost>>
     \/ AnswerLost
  /\ UNCHANGED <<callVars, tokenVars, verifyVars, sent>>

(* The subscription is stored, and its notification delegated. *)
Deliver(s, n) ==
  /\ Note(s, n) \in net
  /\ seen' = seen \cup {s}
  /\ Delegate(s, n)
  /\ Answer200(s, n)
  /\ UNCHANGED unread

(* The body of a notification cannot be read: a bare return. *)
Unreadable(s, n) ==
  /\ Note(s, n) \in net
  /\ unread' = unread \cup {<<s, n>>}
  /\ Answer200(s, n)
  /\ UNCHANGED <<seen, handled, garbled>>

(* That of a verification or of a revocation cannot: 403, and the secret,  *)
(* if there is one, stays.                                                 *)
Invalid(s) ==
  /\ \/ Verify(s) \in net /\ (Verdict(s, "refused") \/ AnswerLost)
     \/ /\ Revoke(s) \in net
        /\ \/ net' = net \ {Revoke(s)} /\ UNCHANGED <<status, acked, lost>>
           \/ AnswerLost
  /\ UNCHANGED <<callVars, tokenVars, verifyVars, sent, appVars>>

(* A notification that is not JSON: 400, and Twitch keeps it for another   *)
(* try.                                                                    *)
NotJson(s, n) ==
  /\ Note(s, n) \in net
  /\ AnswerLost
  /\ UNCHANGED <<callVars, tokenVars, verifyVars, sent, appVars>>

-----------------------------------------------------------------------------
(* Twitch. *)

Notify(s) ==
  /\ status[s] = "enabled"
  /\ s \in Notified
  /\ sent[s] < MaxNotes
  /\ sent' = [sent EXCEPT ![s] = @ + 1]
  /\ net' = net \cup {Note(s, sent[s] + 1)}
  /\ UNCHANGED <<callVars, tokenVars, verifyVars, status, acked, lost, appVars>>

RevokeSub(s) ==
  /\ status[s] = "enabled"
  /\ status' = [status EXCEPT ![s] = "revoked"]
  /\ net' = net \cup {Revoke(s)}
  /\ UNCHANGED <<callVars, tokenVars, verifyVars, sent, acked, lost, appVars>>

Lapse ==
  /\ lapsed < issued
  /\ lapsed' = lapsed + 1
  /\ UNCHANGED <<callVars, appToken, expiry, issued, overlapped, tokenless, verifyVars,
                 serverVars, appVars>>

-----------------------------------------------------------------------------
Init ==
  /\ call = [s \in Subs |-> "idle"]
  /\ op = [s \in Subs |-> "list"]
  /\ got = [s \in Subs |-> 0]
  /\ bearer = [s \in Subs |-> 0]
  /\ appToken = 0 /\ expiry = 0 /\ issued = 0 /\ lapsed = 0
  /\ overlapped = FALSE /\ tokenless = FALSE
  /\ pending = {} /\ recorded = {} /\ created = {}
  /\ answered = [s \in Subs |-> 0]
  /\ status = [s \in Subs |-> "none"]
  /\ net = {} /\ acked = {} /\ lost = 0
  /\ sent = [s \in Subs |-> 0]
  /\ seen = {} /\ unread = {} /\ garbled = {}
  /\ handled = [s \in Subs |-> [n \in 1..MaxNotes |-> 0]]

CallStep(s) ==
  \/ \E o \in {"subscribe", "delete", "list"} : Start(s, o)
  \/ TokenIsFresh(s) \/ TokenIsStale(s)
  \/ Fetch(s) \/ FetchEmpty(s) \/ FetchFails(s) \/ FetchUndecodable(s)
  \/ StoreToken(s) \/ StoreExpiry(s)
  \/ SetHeader(s)
  \/ SendFails(s) \/ SendSubscribe(s) \/ SendDelete(s) \/ SendList(s)
  \/ Record(s) \/ OtherStatus(s) \/ ReplyFails(s)

CallbackStep(s) ==
  \/ Challenge(s) \/ Refuse(s) \/ Revoked(s) \/ Invalid(s)
  \/ \E n \in 1..MaxNotes : Deliver(s, n) \/ Unreadable(s, n) \/ NotJson(s, n)

Next ==
  \/ \E s \in Subs : CallStep(s) \/ CallbackStep(s) \/ Notify(s) \/ RevokeSub(s)
  \/ Lapse

Spec == Init /\ [][Next]_vars

-----------------------------------------------------------------------------
(* Properties. *)

CallStates == {"idle", "check", "fetch", "token", "expiry", "header", "send", "reply"}
Callbacks == UNION {{Verify(s), Revoke(s)} \cup {Note(s, n) : n \in 1..MaxNotes} : s \in Subs}

(* Every variable has its type. *)
TypeOK ==
  /\ call \in [Subs -> CallStates]
  /\ op \in [Subs -> {"subscribe", "delete", "list"}]
  /\ got \in [Subs -> 0..MaxTokens] /\ bearer \in [Subs -> 0..MaxTokens]
  /\ appToken \in 0..issued /\ expiry \in 0..issued
  /\ issued \in 0..MaxTokens /\ lapsed \in 0..issued
  /\ overlapped \in BOOLEAN /\ tokenless \in BOOLEAN
  /\ pending \subseteq Subs /\ recorded \subseteq Subs /\ created \subseteq Subs
  /\ seen \subseteq Subs
  /\ answered \in [Subs -> Nat]
  /\ status \in [Subs -> {"none", "pending", "enabled", "refused", "revoked", "deleted"}]
  /\ net \subseteq Callbacks
  /\ sent \in [Subs -> 0..MaxNotes]
  /\ acked \subseteq Subs \X (1..MaxNotes)
  /\ lost \in 0..MaxLost
  /\ handled \in [Subs -> [1..MaxNotes -> Nat]]
  /\ unread \subseteq Subs \X (1..MaxNotes) /\ garbled \subseteq Subs \X (1..MaxNotes)

(* Subscribe is exact in one direction: whatever overtakes, is lost or is  *)
(* tried again, Twitch enables a subscription only after Subscribe has     *)
(* recorded it, one challenge is answered for it in all, and its secret is *)
(* used up.                                                                *)
EnabledWasRecorded ==
  \A s \in Subs :
    /\ answered[s] <= 1
    /\ status[s] \in {"enabled", "revoked"} =>
         s \in recorded /\ s \notin pending /\ answered[s] = 1

(* In the other direction it is not: a subscription Subscribe reported as  *)
(* created may still be refused.  There are three ways only: its callback  *)
(* overtook the record or could not be read, and the secret waits for      *)
(* ever; the challenge was answered and the answer lost, and the secret is *)
(* gone when Twitch asks again; or the answer to Subscribe had a status it *)
(* keeps no secret for.                                                    *)
RefusalExplained ==
  \A s \in created :
    status[s] = "refused" => s \in pending \/ answered[s] = 1 \/ s \notin recorded

(* The expiry on record is that of the token on record, unless two calls   *)
(* refreshed it together: the two fields are written one after the other.  *)
TokenHasItsExpiry ==
  (~overlapped /\ Refreshing = {}) => appToken = expiry

(* A request leaves without any token, its own call's or another's, only   *)
(* if the token endpoint has answered a call with 2xx and no token, or     *)
(* nothing that could be decoded: UpdateAccessToken takes both for success.*)
BearerExplained ==
  \A s \in Subs : call[s] \in {"send", "reply"} /\ bearer[s] = 0 => tokenless

(* What was answered with 200 has been handled: Subscriptions names its    *)
(* subscription, and its callback ran, once for each time it was sent.     *)
(* There are two ways out, which Twitch cannot tell from it: a body that   *)
(* could not be read, and a notification its type could not decode.        *)
AckedIsHandled ==
  \A s \in Subs : \A n \in 1..MaxNotes :
    /\ <<s, n>> \in acked => s \in seen \/ <<s, n>> \in unread
    /\ s \in Known => handled[s][n] <= 1 + lost
    /\ <<s, n>> \in acked /\ s \in Known =>
         handled[s][n] >= 1 \/ <<s, n>> \in unread \cup garbled
=============================================================================
