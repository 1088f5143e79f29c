--------------------------- MODULE WebhookProofs ---------------------------
(***************************************************************************)
(* Theorems about Webhook, for any set of subscriptions and any bounds on  *)
(* tokens, notifications and lost answers.                                 *)
(*                                                                         *)
(* Every property has an inductive invariant of its own, which says of     *)
(* each place of a call what is known there: of its subscription and its   *)
(* secret (SecretInv), of the token it is about to store or send           *)
(* (TokenInv), and of each notification how often it may have been handled *)
(* (NoteInv).                                                              *)
(***************************************************************************)
EXTENDS Webhook, TLAPS

(* A token that was issued to a call was issued. *)
TypeInv == TypeOK /\ got \in [Subs -> 0..issued]

LEMMA Bounds == MaxTokens \in Nat /\ MaxNotes \in Nat /\ MaxLost \in Nat
BY WebhookAssumption

LEMMA TypeInit == Init => TypeInv
<1> SUFFICES ASSUME Init
             PROVE  TypeInv
    OBVIOUS
<1>1. got \in [Subs -> 0..MaxTokens] /\ bearer \in [Subs -> 0..MaxTokens]
      BY Bounds DEF Init
<1>2. got \in [Subs -> 0..issued] /\ sent \in [Subs -> 0..MaxNotes]
      BY Bounds DEF Init
<1>3. handled \in [Subs -> [1..MaxNotes -> Nat]] /\ answered \in [Subs -> Nat]
      BY DEF Init
<1>4. call \in [Subs -> CallStates] /\ op \in [Subs -> {"subscribe", "delete", "list"}]
      BY DEF Init, CallStates
<1>5. /\ appToken \in 0..issued /\ expiry \in 0..issued
      /\ issued \in 0..MaxTokens /\ lapsed \in 0..issued /\ lost \in 0..MaxLost
      BY Bounds DEF Init
<1>6. overlapped \in BOOLEAN /\ tokenless \in BOOLEAN
      BY DEF Init
<1>7. /\ pending \subseteq Subs /\ recorded \subseteq Subs /\ created \subseteq Subs
      /\ net \subseteq Callbacks /\ acked \subseteq Subs \X (1..MaxNotes)
      /\ seen \subseteq Subs
      /\ unread \subseteq Subs \X (1..MaxNotes) /\ garbled \subseteq Subs \X (1..MaxNotes)
      BY DEF Init
<1>8. status \in [Subs -> {"none", "pending", "enabled", "refused", "revoked", "deleted"}]
      BY DEF Init
<1>9. QED BY <1>1, <1>2, <1>3, <1>4, <1>5, <1>6, <1>7, <1>8, Zenon DEF TypeInv, TypeOK

(* Where a call goes, and what is left of it when it returns. *)
LEMMA GotoType ==
  ASSUME TypeInv, NEW s \in Subs, NEW from, NEW to \in CallStates, Goto(s, from, to)
  PROVE  call' \in [Subs -> CallStates]
BY DEF TypeInv, TypeOK, Goto

LEMMA ReturnType ==
  ASSUME TypeInv, NEW s \in Subs, NEW from, Return(s, from)
  PROVE  /\ call' \in [Subs -> CallStates]
         /\ op' \in [Subs -> {"subscribe", "delete", "list"}]
         /\ bearer' \in [Subs -> 0..MaxTokens]
         /\ got' = got
<1>1. call' \in [Subs -> CallStates]
      BY GotoType DEF Return, CallStates
<1>2. 0 \in 0..MaxTokens
      BY Bounds
<1>3. QED BY <1>1, <1>2 DEF Return, TypeInv, TypeOK

(* The answers to a callback, lost or not, keep the types of the server.   *)
LEMMA AnswerTypes ==
  ASSUME TypeInv, NEW s \in Subs, NEW v \in {"enabled", "refused"},
         Verdict(s, v) \/ AnswerLost
  PROVE  /\ status' \in [Subs -> {"none", "pending", "enabled", "refused", "revoked", "deleted"}]
         /\ net' \subseteq Callbacks
         /\ acked' = acked
         /\ lost' \in 0..MaxLost
<1>1. CASE Verdict(s, v)
      BY <1>1 DEF Verdict, TypeInv, TypeOK
<1>2. CASE AnswerLost
      BY <1>2, Bounds DEF AnswerLost, TypeInv, TypeOK
<1>3. QED BY <1>1, <1>2

LEMMA CallTypeStep ==
  ASSUME TypeInv, NEW s \in Subs, CallStep(s)
  PROVE  TypeInv'
<1> USE DEF TypeInv, TypeOK
<1>1. ASSUME NEW o \in {"subscribe", "delete", "list"}, Start(s, o)
      PROVE  TypeInv'
      BY <1>1, GotoType DEF Start, CallStates, tokenVars, verifyVars, serverVars, appVars
<1>2. CASE TokenIsFresh(s) \/ TokenIsStale(s)
      BY <1>2, GotoType
      DEF TokenIsFresh, TokenIsStale, CallStates, tokenVars, verifyVars, serverVars, appVars
<1>3. CASE Fetch(s)
  <2>1. call' \in [Subs -> CallStates]
        BY <1>3, GotoType DEF Fetch, CallStates
  <2>2. issued' = issued + 1 /\ issued' \in 0..MaxTokens
        BY <1>3, Bounds DEF Fetch
  <2>3. got' \in [Subs -> 0..issued'] /\ got' \in [Subs -> 0..MaxTokens]
        BY <1>3, <2>2, Bounds DEF Fetch
  <2>4. appToken' \in 0..issued' /\ expiry' \in 0..issued' /\ lapsed' \in 0..issued'
        BY <1>3, <2>2 DEF Fetch
  <2>5. overlapped' \in BOOLEAN /\ tokenless' \in BOOLEAN
        BY <1>3 DEF Fetch
  <2>6. QED BY <1>3, <2>1, <2>2, <2>3, <2>4, <2>5 DEF Fetch, verifyVars, serverVars, appVars
<1>4. CASE FetchFails(s)
      BY <1>4, ReturnType DEF FetchFails, tokenVars, verifyVars, serverVars, appVars
<1>5. CASE FetchUndecodable(s)
      BY <1>5, GotoType DEF FetchUndecodable, CallStates, verifyVars, serverVars, appVars
<1>6. CASE StoreToken(s)
      BY <1>6, GotoType DEF StoreToken, CallStates, verifyVars, serverVars, appVars
<1>7. CASE StoreExpiry(s)
  <2>1. call' \in [Subs -> CallStates]
        BY <1>7, GotoType DEF StoreExpiry, CallStates
  <2>2. got' \in [Subs -> 0..issued'] /\ got' \in [Subs -> 0..MaxTokens] /\ expiry' \in 0..issued'
        BY <1>7, Bounds DEF StoreExpiry
  <2>3. QED BY <1>7, <2>1, <2>2 DEF StoreExpiry, verifyVars, serverVars, appVars
<1>8. CASE SetHeader(s)
  <2>1. bearer' \in [Subs -> 0..MaxTokens]
        BY <1>8, Bounds DEF SetHeader
  <2>2. QED BY <1>8, <2>1, GotoType DEF SetHeader, CallStates, tokenVars, verifyVars, serverVars,
                                         appVars
<1>9. CASE SendFails(s) \/ SendList(s) \/ ReplyFails(s)
      BY <1>9, ReturnType DEF SendFails, SendList, ReplyFails, tokenVars, verifyVars, serverVars,
                              appVars
<1>10. CASE SendSubscribe(s)
  <2>1. Verify(s) \in Callbacks
        BY DEF Callbacks
  <2>2. QED BY <1>10, <2>1, GotoType DEF SendSubscribe, CallStates, tokenVars, verifyVars, appVars
<1>11. CASE SendDelete(s)
      BY <1>11, ReturnType DEF SendDelete, tokenVars, verifyVars, appVars
<1>12. CASE Record(s) \/ OtherStatus(s)
      BY <1>12, ReturnType DEF Record, OtherStatus, tokenVars, serverVars, appVars
<1>13. CASE FetchEmpty(s)
  <2>1. got' \in [Subs -> 0..issued'] /\ got' \in [Subs -> 0..MaxTokens]
        BY <1>13, Bounds DEF FetchEmpty
  <2>2. overlapped' \in BOOLEAN /\ tokenless' \in BOOLEAN
        BY <1>13 DEF FetchEmpty
  <2>3. QED BY <1>13, <2>1, <2>2, GotoType
            DEF FetchEmpty, CallStates, verifyVars, serverVars, appVars
<1>14. QED BY <1>1, <1>2, <1>3, <1>4, <1>5, <1>6, <1>7, <1>8, <1>9, <1>10, <1>11, <1>12, <1>13
           DEF CallStep

LEMMA CallbackTypeStep ==
  ASSUME TypeInv, NEW s \in Subs, CallbackStep(s)
  PROVE  TypeInv'
<1> USE DEF TypeInv, TypeOK
<1>1. CASE Challenge(s)
  <2>1. /\ status' \in [Subs -> {"none", "pending", "enabled", "refused", "revoked", "deleted"}]
        /\ net' \subseteq Callbacks
        /\ acked' = acked
        /\ lost' \in 0..MaxLost
        BY <1>1, AnswerTypes DEF Challenge
  <2>2. answered' \in [Subs -> Nat]
        BY <1>1 DEF Challenge
  <2>3. QED BY <1>1, <2>1, <2>2 DEF Challenge, callVars, tokenVars, appVars
<1>2. CASE Refuse(s)
  <2>1. /\ status' \in [Subs -> {"none", "pending", "enabled", "refused", "revoked", "deleted"}]
        /\ net' \subseteq Callbacks
        /\ acked' = acked
        /\ lost' \in 0..MaxLost
        BY <1>2, AnswerTypes DEF Refuse
  <2>2. QED BY <1>2, <2>1 DEF Refuse, callVars, tokenVars, verifyVars, appVars
<1>3. CASE Revoked(s)
  <2>1. net' \subseteq Callbacks /\ lost' \in 0..MaxLost /\ UNCHANGED <<status, acked>>
        BY <1>3, Bounds DEF Revoked, AnswerLost
  <2>2. QED BY <1>3, <2>1 DEF Revoked, callVars, tokenVars, verifyVars, appVars
<1>4. ASSUME NEW n \in 1..MaxNotes, Deliver(s, n)
      PROVE  TypeInv'
  <2>1. handled' \in [Subs -> [1..MaxNotes -> Nat]]
    <3>1. [handled[s] EXCEPT ![n] = @ + 1] \in [1..MaxNotes -> Nat]
      <4>1. handled[s] \in [1..MaxNotes -> Nat] /\ handled[s][n] \in Nat
            BY <1>4, Zenon
      <4>2. handled[s][n] + 1 \in Nat
            BY <4>1
      <4>3. QED BY <4>1, <4>2, Zenon
    <3>2. [handled EXCEPT ![s] = [handled[s] EXCEPT ![n] = @ + 1]]
            \in [Subs -> [1..MaxNotes -> Nat]]
          BY <3>1, Zenon
    <3>3. QED BY <1>4, <3>2 DEF Deliver, Delegate
  <2>2. net' \subseteq Callbacks /\ acked' \subseteq Subs \X (1..MaxNotes) /\ lost' \in 0..MaxLost
        BY <1>4, Bounds DEF Deliver, Answer200, AnswerLost
  <2>3. status' = status /\ unread' = unread /\ garbled' \subseteq Subs \X (1..MaxNotes)
        BY <1>4 DEF Deliver, Delegate, Answer200, AnswerLost
  <2>4. /\ UNCHANGED <<callVars, tokenVars, verifyVars, sent>> /\ seen' = seen \cup {s}
        BY <1>4 DEF Deliver, Answer200
  <2>5. QED BY <2>1, <2>2, <2>3, <2>4 DEF callVars, tokenVars, verifyVars
<1>5. ASSUME NEW n \in 1..MaxNotes, Unreadable(s, n)
      PROVE  TypeInv'
  <2>1. net' \subseteq Callbacks /\ acked' \subseteq Subs \X (1..MaxNotes) /\ lost' \in 0..MaxLost
        BY <1>5, Bounds DEF Unreadable, Answer200, AnswerLost
  <2>2. status' = status /\ unread' \subseteq Subs \X (1..MaxNotes)
        BY <1>5 DEF Unreadable, Answer200, AnswerLost
  <2>3. UNCHANGED <<callVars, tokenVars, verifyVars, sent, seen, handled, garbled>>
        BY <1>5 DEF Unreadable, Answer200
  <2>4. QED BY <2>1, <2>2, <2>3 DEF callVars, tokenVars, verifyVars
<1>6. CASE Invalid(s)
  <2>1. CASE Verdict(s, "refused") \/ AnswerLost
    <3>1. /\ status' \in [Subs -> {"none", "pending", "enabled", "refused", "revoked", "deleted"}]
          /\ net' \subseteq Callbacks
          /\ acked' = acked
          /\ lost' \in 0..MaxLost
          BY <2>1, AnswerTypes
    <3>2. QED BY <1>6, <3>1 DEF Invalid, callVars, tokenVars, verifyVars, appVars
  <2>2. CASE net' = net \ {Revoke(s)} /\ UNCHANGED <<status, acked, lost>>
        BY <1>6, <2>2 DEF Invalid, callVars, tokenVars, verifyVars, appVars
  <2>3. QED BY <1>6, <2>1, <2>2 DEF Invalid
<1>7. ASSUME NEW n \in 1..MaxNotes, NotJson(s, n)
      PROVE  TypeInv'
  <2>1. lost' \in 0..MaxLost /\ UNCHANGED <<status, net, acked>>
        BY <1>7, Bounds DEF NotJson, AnswerLost
  <2>2. QED BY <1>7, <2>1 DEF NotJson, callVars, tokenVars, verifyVars, appVars
<1>8. QED BY <1>1, <1>2, <1>3, <1>4, <1>5, <1>6, <1>7 DEF CallbackStep

LEMMA TypeStep == TypeInv /\ [Next]_vars => TypeInv'
<1> SUFFICES ASSUME TypeInv, [Next]_vars
             PROVE  TypeInv'
    OBVIOUS
<1>1. ASSUME NEW s \in Subs, Notify(s)
      PROVE  TypeInv'
  <2> USE DEF TypeInv, TypeOK
  <2>1. sent[s] + 1 \in 1..MaxNotes
        BY <1>1, Bounds DEF Notify
  <2>2. Note(s, sent[s] + 1) \in Callbacks
        BY <2>1 DEF Callbacks
  <2>3. sent' \in [Subs -> 0..MaxNotes] /\ net' \subseteq Callbacks
        BY <1>1, <2>1, <2>2 DEF Notify
  <2>4. QED BY <1>1, <2>3 DEF Notify, callVars, tokenVars, verifyVars, appVars
<1>2. ASSUME NEW s \in Subs, RevokeSub(s)
      PROVE  TypeInv'
  <2>1. Revoke(s) \in Callbacks
        BY DEF Callbacks
  <2>2. QED BY <1>2, <2>1 DEF TypeInv, TypeOK, RevokeSub, callVars, tokenVars, verifyVars, appVars
<1>3. CASE Lapse
  <2>1. lapsed' \in 0..issued'
        BY <1>3, Bounds DEF TypeInv, TypeOK, Lapse
  <2>2. UNCHANGED <<callVars, appToken, expiry, issued, overlapped, tokenless, verifyVars,
                    serverVars, appVars>>
        BY <1>3 DEF Lapse
  <2>3. QED BY <2>1, <2>2, Zenon
            DEF TypeInv, TypeOK, Callbacks, callVars, verifyVars, serverVars, appVars
<1>4. CASE UNCHANGED vars
      BY <1>4 DEF TypeInv, TypeOK, Callbacks, vars, callVars, tokenVars, verifyVars, serverVars, appVars
<1>5. QED BY <1>1, <1>2, <1>3, <1>4, CallTypeStep, CallbackTypeStep DEF Next

(* Every variable keeps its type. *)
THEOREM WebhookTypeCorrect == Spec => []TypeOK
<1>1. TypeInv => TypeOK
      BY DEF TypeInv
<1>2. QED BY TypeInit, TypeStep, <1>1, PTL DEF Spec

-----------------------------------------------------------------------------
(* Secrets. *)

(* A secret that was recorded is pending until its challenge is answered,  *)
(* once; before Subscribe has its answer there is none.                    *)
Secret(s) ==
  /\ s \in pending => s \in recorded /\ answered[s] = 0
  /\ s \in recorded => s \in pending \/ answered[s] = 1
  /\ answered[s] # 0 => answered[s] = 1 /\ s \in recorded /\ s \notin pending
  /\ s \in recorded => status[s] # "none"
  /\ call[s] # "idle" /\ op[s] = "subscribe" => s \notin recorded
  /\ call[s] # "idle" /\ op[s] = "delete" => status[s] # "none"
  /\ call[s] = "reply" => status[s] # "none" /\ op[s] = "subscribe"
  /\ status[s] \in {"enabled", "revoked"} => answered[s] = 1

SecretInv == \A s \in Subs : Secret(s)

(* What a step that touches no secret may do to a call. *)
LEMMA SecretKept ==
  ASSUME NEW s \in Subs, Secret(s), UNCHANGED <<pending, recorded, answered>>,
         status'[s] = status[s] \/ (status'[s] = "deleted" /\ status[s] # "none")
           \/ (status'[s] = "revoked" /\ status[s] = "enabled")
           \/ (status'[s] = "refused" /\ status[s] # "none"),
         call'[s] = "reply" => call[s] = "reply" /\ op'[s] = op[s],
         call'[s] # "idle" => \/ call[s] # "idle" /\ op'[s] = op[s]
                              \/ /\ op'[s] = "subscribe" => status[s] = "none"
                                 /\ op'[s] = "delete" => status[s] # "none"
  PROVE  Secret(s)'
BY DEF Secret

LEMMA SecretCallStep ==
  ASSUME TypeInv, SecretInv, NEW s \in Subs, CallStep(s), NEW t \in Subs
  PROVE  Secret(t)'
<1> USE DEF TypeInv, TypeOK
<1>0. Secret(t) /\ Secret(s)
      BY DEF SecretInv
<1>1. CASE UNCHANGED <<pending, recorded, answered>> /\ status' = status /\ Return(s, call[s])
      BY <1>0, <1>1, SecretKept DEF Return, Goto
<1>2. ASSUME UNCHANGED <<pending, recorded, answered>>, status' = status, op' = op,
             NEW to \in CallStates \ {"reply"}, Goto(s, call[s], to), call[s] # "idle"
      PROVE  Secret(t)'
      BY <1>0, <1>2, SecretKept DEF Goto
<1>3. ASSUME NEW o \in {"subscribe", "delete", "list"}, Start(s, o)
      PROVE  Secret(t)'
  <2>1. /\ UNCHANGED <<pending, recorded, answered>> /\ status' = status
        /\ op' = [op EXCEPT ![s] = o] /\ call' = [call EXCEPT ![s] = "check"]
        /\ o = "subscribe" => status[s] = "none"
        /\ o = "delete" => status[s] # "none"
        BY <1>3 DEF Start, Goto, verifyVars, serverVars
  <2>2. CASE t = s
        BY <2>1, <2>2, <1>0, SecretKept
  <2>3. CASE t # s
        BY <2>1, <2>3, <1>0, SecretKept
  <2>4. QED BY <2>2, <2>3
<1>4. CASE FetchFails(s) \/ SendFails(s) \/ SendList(s) \/ ReplyFails(s) \/ OtherStatus(s)
  <2>1. UNCHANGED <<pending, recorded, answered>> /\ status' = status /\ Return(s, call[s])
        BY <1>4 DEF FetchFails, SendFails, SendList, ReplyFails, OtherStatus, Return, Goto,
                    verifyVars, serverVars
  <2>2. QED BY <2>1, <1>1
<1>5. CASE TokenIsFresh(s) \/ FetchUndecodable(s) \/ StoreExpiry(s)
  <2>1. /\ UNCHANGED <<pending, recorded, answered>> /\ status' = status /\ op' = op
        /\ Goto(s, call[s], "header") /\ call[s] # "idle"
        BY <1>5 DEF TokenIsFresh, FetchUndecodable, StoreExpiry, Goto, verifyVars, serverVars
  <2>2. QED BY <2>1, <1>2 DEF CallStates
<1>6. CASE TokenIsStale(s) \/ Fetch(s) \/ FetchEmpty(s) \/ StoreToken(s) \/ SetHeader(s)
  <2>1. /\ UNCHANGED <<pending, recorded, answered>>
        /\ status' = status /\ op' = op /\ call[s] # "idle"
        BY <1>6 DEF TokenIsStale, Fetch, FetchEmpty, StoreToken, SetHeader, Goto, verifyVars,
                    serverVars
  <2>2. PICK to \in {"fetch", "token", "expiry", "send"} : Goto(s, call[s], to)
        BY <1>6 DEF TokenIsStale, Fetch, FetchEmpty, StoreToken, SetHeader, Goto
  <2>3. QED BY <2>1, <2>2, <1>2 DEF CallStates
<1>7. CASE SendSubscribe(s)
  <2>1. /\ call' = [call EXCEPT ![s] = "reply"] /\ call[s] = "send" /\ op[s] = "subscribe"
        /\ op' = op /\ status' = [status EXCEPT ![s] = "pending"]
        /\ UNCHANGED <<pending, recorded, answered>>
        BY <1>7 DEF SendSubscribe, Goto, verifyVars
  <2>2. CASE t = s
        BY <2>1, <2>2, <1>0 DEF Secret
  <2>3. CASE t # s
        BY <2>1, <2>3, <1>0, SecretKept
  <2>4. QED BY <2>2, <2>3
<1>8. CASE SendDelete(s)
  <2>1. /\ Return(s, "send") /\ UNCHANGED <<pending, recorded, answered>>
        /\ status' = [status EXCEPT ![s] = "deleted"] /\ op[s] = "delete"
        BY <1>8 DEF SendDelete, verifyVars
  <2>2. status[s] # "none"
        BY <2>1, <1>0 DEF Secret, Return, Goto
  <2>3. QED BY <2>1, <2>2, <1>0, SecretKept DEF Return, Goto
<1>9. CASE Record(s)
  <2>1. /\ call[s] = "reply" /\ call' = [call EXCEPT ![s] = "idle"]
        /\ op' = [op EXCEPT ![s] = "list"] /\ status' = status /\ answered' = answered
        /\ pending' = pending \cup {s} /\ recorded' = recorded \cup {s}
        BY <1>9 DEF Record, Return, Goto, serverVars
  <2>2. s \notin recorded /\ answered[s] = 0 /\ status[s] # "none"
        BY <2>1, <1>0 DEF Secret
  <2>3. CASE t = s
        BY <2>1, <2>2, <2>3, <1>0 DEF Secret
  <2>4. CASE t # s
        BY <2>1, <2>4, <1>0 DEF Secret
  <2>5. QED BY <2>3, <2>4
<1>10. QED BY <1>3, <1>4, <1>5, <1>6, <1>7, <1>8, <1>9 DEF CallStep

LEMMA SecretCallbackStep ==
  ASSUME TypeInv, SecretInv, NEW s \in Subs, CallbackStep(s), NEW t \in Subs
  PROVE  Secret(t)'
<1> USE DEF TypeInv, TypeOK
<1>0. Secret(t) /\ Secret(s)
      BY DEF SecretInv
<1>1. CASE Challenge(s)
  <2>1. /\ s \in pending /\ pending' = pending \ {s} /\ recorded' = recorded
        /\ answered' = [answered EXCEPT ![s] = @ + 1] /\ UNCHANGED <<call, op>>
        BY <1>1 DEF Challenge, callVars
  <2>2. \/ status' = status
        \/ status' = [status EXCEPT ![s] = "enabled"] /\ status[s] = "pending"
        BY <1>1 DEF Challenge, Verdict, AnswerLost
  <2>3. answered[s] = 0 /\ s \in recorded
        BY <2>1, <1>0 DEF Secret
  <2>4. CASE t = s
        BY <2>1, <2>2, <2>3, <2>4, <1>0 DEF Secret
  <2>5. CASE t # s
        BY <2>1, <2>2, <2>5, <1>0 DEF Secret
  <2>6. QED BY <2>4, <2>5
<1>2. CASE Refuse(s)
  <2>1. UNCHANGED <<call, op>> /\ UNCHANGED <<pending, recorded, answered>>
        BY <1>2 DEF Refuse, callVars, verifyVars
  <2>2. \/ status' = status
        \/ status' = [status EXCEPT ![s] = "refused"] /\ status[s] = "pending"
        BY <1>2 DEF Refuse, Verdict, AnswerLost
  <2>3. QED BY <2>1, <2>2, <1>0, SecretKept
<1>3. CASE Revoked(s) \/ \E n \in 1..MaxNotes : Deliver(s, n) \/ Unreadable(s, n) \/ NotJson(s, n)
  <2>1. UNCHANGED <<call, op>> /\ UNCHANGED <<pending, recorded, answered>> /\ status' = status
        BY <1>3 DEF Revoked, Deliver, Unreadable, NotJson, Answer200, AnswerLost, callVars,
                    verifyVars
  <2>2. QED BY <2>1, <1>0, SecretKept
<1>4. CASE Invalid(s)
  <2>1. UNCHANGED <<call, op>> /\ UNCHANGED <<pending, recorded, answered>>
        BY <1>4 DEF Invalid, callVars, verifyVars
  <2>2. \/ status' = status
        \/ status' = [status EXCEPT ![s] = "refused"] /\ status[s] = "pending"
        BY <1>4 DEF Invalid, Verdict, AnswerLost
  <2>3. QED BY <2>1, <2>2, <1>0, SecretKept
<1>5. QED BY <1>1, <1>2, <1>3, <1>4 DEF CallbackStep

LEMMA SecretStep == TypeInv /\ SecretInv /\ [Next]_vars => SecretInv'
<1> SUFFICES ASSUME TypeInv, SecretInv, [Next]_vars, NEW t \in Subs
             PROVE  Secret(t)'
    BY DEF SecretInv
<1>0. Secret(t)
      BY DEF SecretInv
<1>1. ASSUME NEW s \in Subs, Notify(s) \/ RevokeSub(s)
      PROVE  Secret(t)'
  <2>1. UNCHANGED <<call, op>> /\ UNCHANGED <<pending, recorded, answered>>
        BY <1>1 DEF Notify, RevokeSub, callVars, verifyVars
  <2>2. \/ status' = status
        \/ status' = [status EXCEPT ![s] = "revoked"] /\ status[s] = "enabled"
        BY <1>1 DEF Notify, RevokeSub
  <2>3. QED BY <2>1, <2>2, <1>0, SecretKept DEF TypeInv, TypeOK
<1>2. CASE Lapse \/ UNCHANGED vars
  <2>1. UNCHANGED <<call, op>> /\ UNCHANGED <<pending, recorded, answered>> /\ status' = status
        BY <1>2 DEF Lapse, vars, callVars, verifyVars, serverVars
  <2>2. QED BY <2>1, <1>0, SecretKept
<1>3. QED BY <1>1, <1>2, SecretCallStep, SecretCallbackStep DEF Next

LEMMA SecretInit == Init => SecretInv
BY DEF Init, SecretInv, Secret

(* Twitch enables a subscription only after Subscribe has recorded it, and *)
(* its secret answers one challenge in all, for any number of calls,       *)
(* callbacks and lost answers.                                             *)
THEOREM EnabledCorrect == Spec => []EnabledWasRecorded
<1>1. TypeInv /\ SecretInv => EnabledWasRecorded
      BY DEF TypeInv, TypeOK, SecretInv, Secret, EnabledWasRecorded
<1>2. QED BY TypeInit, TypeStep, SecretInit, SecretStep, <1>1, PTL DEF Spec

(* A subscription that was reported as created is refused in three ways    *)
(* only: its secret is still there, it was spent on an answer that got     *)
(* lost, or it was never kept.                                             *)
THEOREM RefusalCorrect == Spec => []RefusalExplained
<1>1. TypeInv /\ SecretInv => RefusalExplained
      BY DEF TypeInv, TypeOK, SecretInv, Secret, RefusalExplained
<1>2. QED BY TypeInit, TypeStep, SecretInit, SecretStep, <1>1, PTL DEF Spec

-----------------------------------------------------------------------------
(* Tokens. *)

(* One refresh at a time, and where it is decides which of the two fields  *)
(* are those of its answer.                                                *)
InStep ==
  ~overlapped =>
    /\ \A s, t \in Refreshing : s = t
    /\ \A s \in Subs : call[s] = "expiry" => appToken = got[s]
    /\ (\A s \in Subs : call[s] # "expiry") => appToken = expiry

(* A call that has its token to store, or is about to use the one stored.  *)
HasToken ==
  \A s \in Subs :
    /\ call[s] \in {"token", "expiry"} => got[s] # 0 \/ tokenless
    /\ call[s] \in {"expiry", "header"} => appToken # 0 \/ tokenless
    /\ call[s] \in {"send", "reply"} => bearer[s] # 0 \/ tokenless

TokenInv == InStep /\ HasToken

LEMMA TokenInit == Init => TokenInv
BY DEF Init, TokenInv, InStep, HasToken, Refreshing

(* A step that leaves the tokens alone and brings no call to a place where *)
(* it would need one.                                                      *)
LEMMA TokenKept ==
  ASSUME TokenInv, UNCHANGED <<appToken, expiry, got, overlapped, tokenless>>,
         \A t \in Subs : /\ call'[t] \in {"token", "expiry"} <=> call[t] \in {"token", "expiry"}
                         /\ call'[t] = "expiry" <=> call[t] = "expiry"
                         /\ call'[t] = "header" => call[t] = "header" \/ appToken # 0 \/ tokenless
                         /\ call'[t] \in {"send", "reply"} =>
                              bearer'[t] # 0 \/ tokenless
  PROVE  TokenInv'
<1>1. Refreshing' = Refreshing
      BY DEF Refreshing
<1>2. InStep'
      BY <1>1 DEF TokenInv, InStep
<1>3. HasToken'
      BY DEF TokenInv, HasToken
<1>4. QED BY <1>2, <1>3 DEF TokenInv

LEMMA TokenCallStep ==
  ASSUME TypeInv, TokenInv, NEW s \in Subs, CallStep(s)
  PROVE  TokenInv'
<1> USE DEF TypeInv, TypeOK
<1>1. ASSUME NEW from, Return(s, from), from \notin {"token", "expiry"},
             UNCHANGED tokenVars
      PROVE  TokenInv'
      BY <1>1, TokenKept DEF Return, Goto, tokenVars, TokenInv, HasToken
<1>2. ASSUME NEW o \in {"subscribe", "delete", "list"}, Start(s, o)
      PROVE  TokenInv'
      BY <1>2, TokenKept DEF Start, Goto, tokenVars, TokenInv, HasToken
<1>3. CASE TokenIsFresh(s) \/ TokenIsStale(s)
      BY <1>3, TokenKept DEF TokenIsFresh, TokenIsStale, Goto, tokenVars, TokenInv, HasToken
<1>4. CASE Fetch(s) \/ FetchEmpty(s)
  <2>0. PICK g \in 0..issued + 1 :
          /\ got' = [got EXCEPT ![s] = g]
          /\ g # 0 \/ tokenless'
        BY <1>4 DEF Fetch, FetchEmpty
  <2>1. /\ call[s] = "fetch" /\ call' = [call EXCEPT ![s] = "token"]
        /\ overlapped' = (overlapped \/ Refreshing # {})
        /\ tokenless' \/ tokenless' = tokenless
        /\ UNCHANGED <<bearer, appToken, expiry>>
        BY <1>4 DEF Fetch, FetchEmpty, Goto
  <2>2. HasToken'
        BY <2>0, <2>1 DEF TokenInv, HasToken
  <2>3. ASSUME ~overlapped'
        PROVE  /\ \A u, t \in Refreshing' : u = t
               /\ \A t \in Subs : call'[t] # "expiry"
               /\ appToken' = expiry'
    <3>1. ~overlapped /\ Refreshing = {}
          BY <2>1, <2>3
    <3>2. \A t \in Subs : call[t] \notin {"token", "expiry"}
          BY <3>1 DEF Refreshing
    <3>3. \A t \in Subs : call'[t] \in {"token", "expiry"} => t = s
          BY <3>2, <2>1
    <3>4. appToken = expiry
          BY <3>1, <3>2 DEF TokenInv, InStep
    <3>5. QED BY <2>1, <3>2, <3>3, <3>4 DEF Refreshing
  <2>4. InStep'
        BY <2>3 DEF InStep
  <2>5. QED BY <2>2, <2>4 DEF TokenInv
<1>5. CASE FetchFails(s) \/ SendFails(s) \/ SendDelete(s) \/ SendList(s) \/ Record(s)
             \/ OtherStatus(s) \/ ReplyFails(s)
  <2>1. PICK from \in {"fetch", "send", "reply"} : Return(s, from) /\ UNCHANGED tokenVars
        BY <1>5 DEF FetchFails, SendFails, SendDelete, SendList, Record, OtherStatus, ReplyFails
  <2>2. QED BY <2>1, <1>1
<1>6. CASE FetchUndecodable(s)
  <2>1. /\ call[s] = "fetch" /\ call' = [call EXCEPT ![s] = "header"] /\ tokenless'
        /\ UNCHANGED <<got, bearer, appToken, expiry, overlapped>>
        BY <1>6 DEF FetchUndecodable, Goto
  <2>2. Refreshing' = Refreshing
        BY <2>1 DEF Refreshing
  <2>3. \A t \in Subs : call'[t] = "expiry" <=> call[t] = "expiry"
        BY <2>1
  <2>4. InStep'
        BY <2>1, <2>2, <2>3 DEF TokenInv, InStep
  <2>5. HasToken'
        BY <2>1 DEF TokenInv, HasToken
  <2>6. QED BY <2>4, <2>5 DEF TokenInv
<1>7. CASE StoreToken(s)
  <2>1. /\ call[s] = "token" /\ call' = [call EXCEPT ![s] = "expiry"] /\ appToken' = got[s]
        /\ UNCHANGED <<got, bearer, expiry, overlapped, tokenless>>
        BY <1>7 DEF StoreToken, Goto
  <2>2. Refreshing' = Refreshing /\ s \in Refreshing
        BY <2>1 DEF Refreshing
  <2>3. HasToken'
        BY <2>1 DEF TokenInv, HasToken
  <2>4. ASSUME ~overlapped'
        PROVE  /\ \A u, t \in Refreshing' : u = t
               /\ \A t \in Subs : call'[t] = "expiry" => appToken' = got'[t]
    <3>1. \A u, t \in Refreshing : u = t
          BY <2>1, <2>4 DEF TokenInv, InStep
    <3>2. \A t \in Subs : call'[t] = "expiry" => t \in Refreshing'
          BY DEF Refreshing
    <3>3. QED BY <2>1, <2>2, <3>1, <3>2
  <2>5. call'[s] = "expiry"
        BY <2>1
  <2>6. InStep'
        BY <2>4, <2>5 DEF InStep
  <2>7. QED BY <2>3, <2>6 DEF TokenInv
<1>8. CASE StoreExpiry(s)
  <2>1. /\ call[s] = "expiry" /\ call' = [call EXCEPT ![s] = "header"] /\ expiry' = got[s]
        /\ got' = [got EXCEPT ![s] = 0]
        /\ UNCHANGED <<bearer, appToken, overlapped, tokenless>>
        BY <1>8 DEF StoreExpiry, Goto
  <2>2. HasToken'
        BY <2>1 DEF TokenInv, HasToken
  <2>3. ASSUME ~overlapped'
        PROVE  /\ \A u, t \in Refreshing' : u = t
               /\ \A t \in Subs : call'[t] # "expiry"
               /\ appToken' = expiry'
    <3>1. (\A u, t \in Refreshing : u = t) /\ appToken = got[s]
          BY <2>1, <2>3 DEF TokenInv, InStep
    <3>2. s \in Refreshing
          BY <2>1 DEF Refreshing
    <3>3. \A t \in Subs : t # s => call'[t] = call[t] /\ call[t] \notin {"token", "expiry"}
          BY <2>1, <3>1, <3>2 DEF Refreshing
    <3>4. Refreshing' = {} /\ \A t \in Subs : call'[t] # "expiry"
          BY <2>1, <3>3 DEF Refreshing
    <3>5. QED BY <2>1, <3>1, <3>4
  <2>4. InStep'
        BY <2>3 DEF InStep
  <2>5. QED BY <2>2, <2>4 DEF TokenInv
<1>9. CASE SetHeader(s)
      BY <1>9, TokenKept DEF SetHeader, Goto, tokenVars, TokenInv, HasToken
<1>10. CASE SendSubscribe(s)
      BY <1>10, TokenKept DEF SendSubscribe, Goto, tokenVars, TokenInv, HasToken
<1>11. QED BY <1>2, <1>3, <1>4, <1>5, <1>6, <1>7, <1>8, <1>9, <1>10 DEF CallStep

LEMMA TokenStep == TypeInv /\ TokenInv /\ [Next]_vars => TokenInv'
<1> SUFFICES ASSUME TypeInv, TokenInv, [Next]_vars
             PROVE  TokenInv'
    OBVIOUS
<1>1. ASSUME NEW s \in Subs, CallbackStep(s) \/ Notify(s) \/ RevokeSub(s)
      PROVE  TokenInv'
  <2>1. UNCHANGED <<call, got, bearer, appToken, expiry, overlapped, tokenless>>
        BY <1>1 DEF CallbackStep, Challenge, Refuse, Revoked, Invalid, Deliver, Unreadable, NotJson,
                    Answer200, Notify, RevokeSub, callVars, tokenVars
  <2>2. QED BY <2>1, TokenKept DEF TokenInv, HasToken
<1>2. CASE Lapse \/ UNCHANGED vars
  <2>1. UNCHANGED <<call, got, bearer, appToken, expiry, overlapped, tokenless>>
        BY <1>2 DEF Lapse, vars, callVars, tokenVars
  <2>2. QED BY <2>1, TokenKept DEF TokenInv, HasToken
<1>3. QED BY <1>1, <1>2, TokenCallStep DEF Next

(* Unless two calls refreshed the token together, the expiry on record is  *)
(* that of the token on record.                                            *)
THEOREM TokenCorrect == Spec => []TokenHasItsExpiry
<1>1. TokenInv => TokenHasItsExpiry
      BY DEF TokenInv, InStep, TokenHasItsExpiry, Refreshing
<1>2. QED BY TypeInit, TypeStep, TokenInit, TokenStep, <1>1, PTL DEF Spec

(* Unless an answer of the token endpoint gave no token, no request leaves *)
(* without one, whatever other calls do to it.                             *)
THEOREM BearerCorrect == Spec => []BearerExplained
<1>1. TokenInv => BearerExplained
      BY DEF TokenInv, HasToken, BearerExplained
<1>2. QED BY TypeInit, TypeStep, TokenInit, TokenStep, <1>1, PTL DEF Spec

-----------------------------------------------------------------------------
(* Notifications. *)

(* A notification under way was handled once for each answer lost at most, *)
(* one that has arrived once more, and one that was not sent never.        *)
Noted(s, n) ==
  /\ handled[s][n] <= 1 + lost
  /\ Note(s, n) \in net => n <= sent[s] /\ handled[s][n] <= lost
  /\ n > sent[s] => handled[s][n] = 0
  /\ <<s, n>> \in acked =>
       /\ s \in seen \/ <<s, n>> \in unread
       /\ s \in Known => handled[s][n] >= 1 \/ <<s, n>> \in unread \cup garbled

NoteInv == \A s \in Subs : \A n \in 1..MaxNotes : Noted(s, n)

LEMMA NotesDiffer ==
  ASSUME NEW s, NEW t, NEW n, NEW m
  PROVE  /\ Note(s, n) = Note(t, m) => s = t /\ n = m
         /\ Note(s, n) # Verify(t) /\ Note(s, n) # Revoke(t)
BY DEF Note, Verify, Revoke

LEMMA NoteTypes ==
  ASSUME TypeInv, NEW s \in Subs, NEW n \in 1..MaxNotes
  PROVE  /\ handled \in [Subs -> [1..MaxNotes -> Nat]]
         /\ handled[s] \in [1..MaxNotes -> Nat] /\ handled[s][n] \in Nat
         /\ sent \in [Subs -> 0..MaxNotes] /\ sent[s] \in Nat
         /\ lost \in Nat
<1>1. handled \in [Subs -> [1..MaxNotes -> Nat]] /\ sent \in [Subs -> 0..MaxNotes]
      BY Zenon DEF TypeInv, TypeOK
<1>2. handled[s] \in [1..MaxNotes -> Nat]
      BY <1>1, Zenon
<1>3. handled[s][n] \in Nat
      BY <1>2, Zenon
<1>4. sent[s] \in 0..MaxNotes
      BY <1>1, Zenon
<1>5. sent[s] \in Nat
      BY <1>4, Bounds
<1>6. lost \in Nat
      BY Bounds DEF TypeInv, TypeOK
<1>7. QED BY <1>1, <1>2, <1>3, <1>5, <1>6

LEMMA NoteInit == Init => NoteInv
BY Bounds DEF Init, NoteInv, Noted

(* More answers may be lost, fewer callbacks be under way. *)
LEMMA NoteKept ==
  ASSUME TypeInv, TypeInv', NEW s \in Subs, NEW n \in 1..MaxNotes, Noted(s, n),
         Note(s, n) \in net' => Note(s, n) \in net, lost' >= lost,
         UNCHANGED <<sent, acked, seen, handled, unread, garbled>>
  PROVE  Noted(s, n)'
<1>1. handled[s][n] \in Nat /\ lost \in Nat /\ lost' \in Nat /\ sent[s] \in Nat
  <2>1. lost' \in Nat
        BY Bounds DEF TypeInv, TypeOK
  <2>2. QED BY <2>1, NoteTypes
<1>2. QED BY <1>1 DEF Noted

LEMMA NoteStep == TypeInv /\ TypeInv' /\ NoteInv /\ [Next]_vars => NoteInv'
<1> SUFFICES ASSUME TypeInv, TypeInv', NoteInv, [Next]_vars,
                    NEW t \in Subs, NEW m \in 1..MaxNotes
             PROVE  Noted(t, m)'
    BY DEF NoteInv
<1>0. Noted(t, m)
      BY DEF NoteInv
<1>1. lost \in Nat /\ lost' \in Nat
      BY Bounds DEF TypeInv, TypeOK
<1>2. CASE /\ UNCHANGED <<sent, acked, seen, handled, unread, garbled>>
           /\ Note(t, m) \in net' => Note(t, m) \in net
           /\ lost' = lost \/ lost' = lost + 1
      BY <1>0, <1>1, <1>2, NoteKept
<1>3. ASSUME NEW s \in Subs, CallStep(s)
      PROVE  Noted(t, m)'
  <2>1. UNCHANGED <<sent, acked, seen, handled, unread, garbled, lost>>
        BY <1>3 DEF CallStep, Start, TokenIsFresh, TokenIsStale, Fetch, FetchEmpty, FetchFails,
             FetchUndecodable, StoreToken, StoreExpiry, SetHeader, SendFails, SendSubscribe,
             SendDelete, SendList, Record, OtherStatus, ReplyFails, serverVars, appVars
  <2>2. net' = net \/ net' = net \cup {Verify(s)}
        BY <1>3 DEF CallStep, Start, TokenIsFresh, TokenIsStale, Fetch, FetchEmpty, FetchFails,
             FetchUndecodable, StoreToken, StoreExpiry, SetHeader, SendFails, SendSubscribe,
             SendDelete, SendList, Record, OtherStatus, ReplyFails, serverVars
  <2>3. QED BY <2>1, <2>2, <1>2, NotesDiffer
<1>4. ASSUME NEW s \in Subs,
             \/ Challenge(s) \/ Refuse(s) \/ Revoked(s) \/ Invalid(s)
             \/ \E n \in 1..MaxNotes : NotJson(s, n)
      PROVE  Noted(t, m)'
  <2>1. UNCHANGED <<sent, acked, seen, handled, unread, garbled>> /\ net' \subseteq net
        BY <1>4 DEF Challenge, Refuse, Revoked, Invalid, NotJson, Verdict, AnswerLost, appVars
  <2>2. lost' = lost \/ lost' = lost + 1
        BY <1>4 DEF Challenge, Refuse, Revoked, Invalid, NotJson, Verdict, AnswerLost
  <2>3. QED BY <2>1, <2>2, <1>2
<1>5. ASSUME NEW s \in Subs, NEW n \in 1..MaxNotes, Deliver(s, n) \/ Unreadable(s, n)
      PROVE  Noted(t, m)'
  <2>0. PICK k \in {0, 1} :
          /\ handled' = IF k = 1 THEN [handled EXCEPT ![s][n] = @ + 1] ELSE handled
          /\ k = 1 => s \in Known
          /\ k = 0 => s \notin Known \/ <<s, n>> \in unread' \cup garbled'
    <3>1. CASE Deliver(s, n)
      <4>1. PICK decoded \in BOOLEAN :
              /\ handled' = IF decoded /\ s \in Known THEN [handled EXCEPT ![s][n] = @ + 1]
                                                     ELSE handled
              /\ garbled' = IF decoded THEN garbled ELSE garbled \cup {<<s, n>>}
            BY <3>1 DEF Deliver, Delegate
      <4>2. CASE decoded /\ s \in Known
            BY <4>1, <4>2
      <4>3. CASE ~(decoded /\ s \in Known)
            BY <4>1, <4>3
      <4>4. QED BY <4>2, <4>3
    <3>2. CASE Unreadable(s, n)
          BY <3>2 DEF Unreadable
    <3>3. QED BY <1>5, <3>1, <3>2
  <2>1. /\ Note(s, n) \in net /\ sent' = sent
        /\ seen \subseteq seen' /\ unread \subseteq unread' /\ garbled \subseteq garbled'
        /\ s \in seen' \/ <<s, n>> \in unread'
        BY <1>5 DEF Deliver, Delegate, Unreadable, Answer200
  <2>2. \/ /\ net' = net \ {Note(s, n)} /\ acked' = acked \cup {<<s, n>>} /\ lost' = lost
        \/ net' = net /\ acked' = acked /\ lost' = lost + 1
        BY <1>5 DEF Deliver, Unreadable, Answer200, AnswerLost
  <2>3. /\ handled \in [Subs -> [1..MaxNotes -> Nat]] /\ handled[t][m] \in Nat
        /\ handled[s] \in [1..MaxNotes -> Nat] /\ sent[t] \in Nat
        BY NoteTypes
  <2>4. CASE t = s /\ m = n
    <3>1. handled'[t][m] = IF k = 1 THEN handled[t][m] + 1 ELSE handled[t][m]
          BY <2>0, <2>3, <2>4
    <3>2. m <= sent[t] /\ handled[t][m] <= lost
          BY <2>1, <2>4, <1>0 DEF Noted
    <3>3. handled'[t][m] <= 1 + lost' /\ (Note(t, m) \in net' => handled'[t][m] <= lost')
      <4>1. handled'[t][m] <= handled[t][m] + 1
            BY <3>1, <2>3
      <4>2. handled'[t][m] \in Nat
            BY <3>1, <2>3
      <4>3. QED BY <4>1, <4>2, <3>2, <2>2, <2>3, <2>4, <1>1
    <3>4. t \in Known => handled'[t][m] >= 1 \/ <<t, m>> \in unread' \cup garbled'
          BY <3>1, <2>0, <2>3, <2>4
    <3>5. ~(m > sent'[t])
          BY <3>2, <2>1, <2>3
    <3>6. QED BY <3>2, <3>3, <3>4, <3>5, <2>1, <2>4 DEF Noted
  <2>5. CASE ~(t = s /\ m = n)
    <3>1. handled'[t][m] = handled[t][m]
      <4>1. CASE k = 1 /\ t = s
            BY <4>1, <2>0, <2>3, <2>5
      <4>2. CASE k = 1 /\ t # s
            BY <4>2, <2>0, <2>3
      <4>3. CASE k # 1
            BY <4>3, <2>0
      <4>4. QED BY <4>1, <4>2, <4>3
    <3>2. Note(t, m) \in net' => Note(t, m) \in net
          BY <2>2
    <3>3. <<t, m>> \in acked' => <<t, m>> \in acked
          BY <2>2, <2>5
    <3>4. lost' >= lost
          BY <2>2, <1>1
    <3>5. QED BY <3>1, <3>2, <3>3, <3>4, <2>1, <2>3, <1>0, <1>1 DEF Noted
  <2>6. QED BY <2>4, <2>5
<1>6. ASSUME NEW s \in Subs, Notify(s)
      PROVE  Noted(t, m)'
  <2>1. /\ sent' = [sent EXCEPT ![s] = @ + 1] /\ net' = net \cup {Note(s, sent[s] + 1)}
        /\ UNCHANGED <<acked, seen, handled, unread, garbled, lost>>
        BY <1>6 DEF Notify, appVars
  <2>2. sent \in [Subs -> 0..MaxNotes] /\ sent[t] \in Nat /\ handled[t][m] \in Nat
        BY NoteTypes
  <2>3. CASE Note(t, m) \in net' => Note(t, m) \in net
    <3>1. sent'[t] \in Nat /\ sent'[t] >= sent[t]
          BY <2>1, <2>2
    <3>2. QED BY <2>1, <2>2, <2>3, <3>1, <1>0, <1>1 DEF Noted
  <2>4. CASE Note(t, m) = Note(s, sent[s] + 1)
    <3>1. t = s /\ m = sent[t] + 1
          BY <2>4, NotesDiffer
    <3>2. handled[t][m] = 0 /\ sent'[t] = m
          BY <3>1, <2>1, <2>2, <1>0 DEF Noted
    <3>3. QED BY <3>2, <2>1, <2>2, <1>0, <1>1 DEF Noted
  <2>5. QED BY <2>1, <2>3, <2>4
<1>7. CASE (\E s \in Subs : RevokeSub(s)) \/ Lapse \/ UNCHANGED vars
  <2>1. UNCHANGED <<sent, acked, seen, handled, unread, garbled>> /\ lost' = lost
        BY <1>7 DEF RevokeSub, Lapse, vars, serverVars, appVars
  <2>2. Note(t, m) \in net' => Note(t, m) \in net
        BY <1>7, NotesDiffer DEF RevokeSub, Lapse, vars, serverVars
  <2>3. QED BY <2>1, <2>2, <1>2
<1>8. QED BY <1>3, <1>4, <1>5, <1>6, <1>7 DEF Next, CallbackStep

(* What was answered with 200 was handled, unless its body could not be    *)
(* read or its type not decoded, and handled once more than answers were   *)
(* lost at most, for any number of tries.                                  *)
THEOREM AckedCorrect == Spec => []AckedIsHandled
<1>1. TypeInv /\ NoteInv => AckedIsHandled
      BY DEF NoteInv, Noted, AckedIsHandled
<1>2. QED BY TypeInit, TypeStep, NoteInit, NoteStep, <1>1, PTL DEF Spec
=============================================================================
