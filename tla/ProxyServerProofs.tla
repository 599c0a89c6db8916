--------------------------- MODULE ProxyServerProofs ---------------------------
(***************************************************************************)
(* Invariants of the proxy process, for any number of handlers, accounts,  *)
(* maintenance loops and administrators.                                   *)
(*                                                                         *)
(* IInv adds to the properties what the control flow guarantees where a    *)
(* step relies on it: a handler that talks to an upstream has an account,  *)
(* a walk that visits an account has one to visit, and it was started at   *)
(* a message count the store has reached.                                  *)
(*                                                                         *)
(* The action properties follow from IInv and from what a step does to the *)
(* history of an account (HistoryStep, PinStep); two need one thing more:  *)
(* a walk's message count is not behind any account (WalksAhead), and the  *)
(* time of a request is not after the clock (RequestsTimed).               *)
(***************************************************************************)
EXTENDS ProxyServer, AccountPoolProofs

\* The states of a handler in which it has picked an account.
Serving == {"auth", "missing", "adopt", "send", "unsendable", "reauth", "resend"}

GoodRequest(q) ==
  /\ q \in Request
  /\ q.pc \in Serving => q.acct \in AccountIds
  /\ q.pc = "adopt" => q.identity \in Identities

RequestsOK ==
  /\ req \in [Requests -> Request]
  /\ \A r \in Requests : GoodRequest(req[r])

GoodWalk(w) ==
  /\ w \in Refresh
  /\ w.pc \notin {"off", "asked", "snapshot", "load"} => w.todo # << >>
  /\ w.pc \in {"fetch", "reauth", "refetch"} => w.identity \in Identities
  /\ w.messages <= sf.messages

WalksOK ==
  /\ refresh \in [Owners -> Refresh]
  /\ refreshInFlight \in BOOLEAN
  /\ \A o \in Owners : GoodWalk(refresh[o])

GoodAdmin(p) ==
  /\ p \in AdminState
  /\ p.pc # "idle" => p.id \in AccountIds
  /\ p.pc \in {"write", "upsert"} => p.identity \in Identities

AdminsOK ==
  /\ admin \in [Admins -> AdminState]
  /\ \A a \in Admins : GoodAdmin(admin[a])

StoreOK ==
  /\ sf \in StoreFile /\ Consistent(sf)
  /\ homes \in [AccountIds -> Identities \cup {MissingAuth}]
  /\ clock \in Nat

\* A request is in maybeRefreshQuota exactly while the walk it owns is under
\* way, so the end of its walk finds it there.
RefreshOwned ==
  \A r \in Requests : req[r].pc = "refreshing" <=> Underway(refresh[r])

IInv == StoreOK /\ RequestsOK /\ WalksOK /\ AdminsOK /\ OneRefresh /\ RefreshOwned

\* The store after a step is of the right type, consistent, and has counted no
\* message less.
StoreStep == sf' \in StoreFile /\ Consistent(sf') /\ sf'.messages >= sf.messages

\* A step of a request or of a walk adds and removes no account, and pins none.
ServingStep ==
  /\ StoreStep
  /\ Known(sf') = Known(sf)
  /\ sf'.pinned \in {sf.pinned, NoAccount}

-----------------------------------------------------------------------------

LEMMA InPlaceStep ==
  ASSUME StoreOK, InPlace(sf, sf'), sf'.messages >= sf.messages,
         sf'.pinned \in {sf.pinned, NoAccount}
  PROVE  ServingStep
BY InPlaceConsistent DEF StoreOK, StoreStep, ServingStep, InPlace

LEMMA StoreMessages ==
  ASSUME StoreOK
  PROVE  sf.messages \in Nat
BY DEF StoreOK, StoreFile

LEMMA UnchangedStore ==
  ASSUME StoreOK, sf' = sf
  PROVE  ServingStep
BY StoreMessages DEF StoreOK, StoreStep, ServingStep

\* A handler's step replaces its own record.
LEMMA OneRequest ==
  ASSUME RequestsOK, NEW r \in Requests, NEW q, GoodRequest(q),
         req' = [req EXCEPT ![r] = q]
  PROVE  RequestsOK'
BY DEF RequestsOK, GoodRequest

LEMMA IdleGood == GoodRequest(Idle)
BY DEF Idle, NoResponse, Request, Responses, RequestPcs, AllKinds, Answers, GoodRequest, Serving

LEMMA FinishedGood ==
  ASSUME RequestsOK, NEW r \in Requests, NEW response \in Responses
  PROVE  GoodRequest(Finished(r, response))
BY IdleGood DEF RequestsOK, GoodRequest, Request, Finished, RequestPcs, Serving

LEMMA ResponseTypes ==
  /\ Unavailable \in Responses
  /\ \A answer \in Answers, body \in {"open", "buffered", "closed"} :
       Response(answer, body) \in Responses
  /\ Response("gone", "none") \in Responses
  /\ Response("bad-request", "buffered") \in Responses
  /\ Response("bad-gateway", "buffered") \in Responses
  /\ Response("internal-error", "buffered") \in Responses
BY DEF Unavailable, Response, Responses, LocalOutcomes

LEMMA GiveUpGood ==
  ASSUME RequestsOK, NEW r \in Requests
  PROVE  GoodRequest(GiveUp(r))
<1>1. req[r].last \in Responses
  BY DEF RequestsOK, Request
<1> QED
  BY <1>1, ResponseTypes, FinishedGood DEF GiveUp

LEMMA NextAttemptGood ==
  ASSUME RequestsOK, NEW r \in Requests, NEW last \in Responses
  PROVE  GoodRequest(NextAttempt(r, last))
<1>1. CASE req[r].attempt < req[r].max
  <2> DEFINE q == req[r]
             k == q.attempt + 1
             n == [q EXCEPT !.pc = "pick", !.attempt = k, !.acct = NoAccount,
                            !.identity = MissingAuth, !.answer = "none", !.last = last]
  <2>1. NextAttempt(r, last) = n
    BY <1>1 DEF NextAttempt
  <2>2. q \in Request
    BY DEF RequestsOK
  <2>3. k \in Nat
    BY <2>2 DEF Request
  <2> HIDE DEF q, k
  <2>4. n \in Request /\ n.pc = "pick"
    BY <2>2, <2>3 DEF Request, RequestPcs
  <2> QED
    BY <2>1, <2>4 DEF GoodRequest, Serving
<1>2. CASE ~(req[r].attempt < req[r].max)
  BY <1>2, ResponseTypes, FinishedGood DEF NextAttempt
<1> QED
  BY <1>1, <1>2

LEMMA BeginGood ==
  ASSUME StoreOK, RequestsOK, NEW r \in Requests, Begin(r)
  PROVE  RequestsOK'
<1> DEFINE max == IF req[r].kind = "ws" THEN 1 ELSE Larger(1, sf.settings.maxAttempts)
           q == [req[r] EXCEPT !.pc = "pick", !.attempt = 1, !.max = max]
<1>1. max \in Nat
  BY DEF StoreOK, StoreFile, Settings, Larger
<1>2. req' = [req EXCEPT ![r] = q]
  BY DEF Begin
<1> HIDE DEF max
<1>3. req[r] \in Request
  BY DEF RequestsOK
<1>4. q \in Request /\ q.pc = "pick"
  BY <1>1, <1>3 DEF Request, RequestPcs
<1> HIDE DEF q
<1>5. GoodRequest(q)
  BY <1>4 DEF GoodRequest, Serving
<1> QED
  BY <1>2, <1>5, OneRequest

\* A handler comes out of maybeRefreshQuota.
LEMMA BegunGood ==
  ASSUME RequestsOK, NEW r \in Requests
  PROVE  GoodRequest([req[r] EXCEPT !.pc = "begin"])
BY DEF RequestsOK, GoodRequest, Request, RequestPcs, Serving

-----------------------------------------------------------------------------

\* What a step of a handler that serves a request keeps.
LEMMA HandleStep ==
  ASSUME StoreOK, RequestsOK, NEW r \in Requests, Handle(r)
  PROVE  ServingStep /\ RequestsOK' /\ UNCHANGED <<homes, clock>>
<1> DEFINE acct == req[r].acct
           keep == UNCHANGED <<homes, clock>>
<1>1. req[r] \in Request /\ GoodRequest(req[r])
  BY DEF RequestsOK
<1>2. sf \in StoreFile /\ Consistent(sf) /\ clock \in Nat
  BY DEF StoreOK
<1>3. CASE Pick(r)
  <2>1. ServingStep /\ keep
    BY <1>3, UnchangedStore DEF Pick
  <2>2. CASE SelectAccount(sf, req[r].now) = NoSelection
    <3>1. req' = [req EXCEPT ![r] = GiveUp(r)]
      BY <1>3, <2>2 DEF Pick
    <3> QED
      BY <2>1, <3>1, GiveUpGood, OneRequest
  <2>3. CASE SelectAccount(sf, req[r].now) # NoSelection
    <3> DEFINE i == SelectAccount(sf, req[r].now)
               q == [req[r] EXCEPT !.pc = "auth", !.acct = sf.accounts[i].id,
                                   !.identity = sf.accounts[i].identity,
                                   !.backoff = sf.settings.cooldownDefault]
    <3>1. i \in DOMAIN sf.accounts
      BY <1>2, <2>3, StoreIsPool, SelectAccountIsCandidate
      DEF Candidates, HealthyIndexes, EligibleIndexes
    <3> HIDE DEF i
    <3>2. /\ sf.accounts[i].id \in AccountIds /\ sf.accounts[i].identity \in Identities
          /\ sf.settings.cooldownDefault \in Int
      BY <1>2, <3>1, AccountsOfStore DEF StoreFile, Account, Settings
    <3>3. GoodRequest(q)
      BY <1>1, <3>2 DEF GoodRequest, Request, RequestPcs
    <3>4. req' = [req EXCEPT ![r] = q]
      BY <1>3, <2>3 DEF Pick, i
    <3> QED
      BY <2>1, <3>3, <3>4, OneRequest
  <2> QED
    BY <2>1, <2>2, <2>3
<1>4. CASE LoadAuth(r)
  <2> DEFINE found == homes[acct]
  <2> PICK prepared \in Prepared :
        req' = [req EXCEPT ![r] =
                  [@ EXCEPT !.identity = found,
                            !.pc = IF found = MissingAuth THEN "missing"
                                   ELSE IF found # req[r].identity THEN "adopt"
                                   ELSE prepared]]
    BY <1>4 DEF LoadAuth
  <2> DEFINE q == [req[r] EXCEPT !.identity = found,
                                 !.pc = IF found = MissingAuth THEN "missing"
                                        ELSE IF found # req[r].identity THEN "adopt"
                                        ELSE prepared]
  <2>1. acct \in AccountIds
    BY <1>1, <1>4 DEF LoadAuth, GoodRequest, Serving
  <2>2. found \in Identities \cup {MissingAuth}
    BY <2>1 DEF StoreOK
  <2>3. GoodRequest(q)
    BY <1>1, <2>1, <2>2 DEF Prepared, GoodRequest, Request, RequestPcs
  <2>4. req' = [req EXCEPT ![r] = q]
    OBVIOUS
  <2> QED
    BY <1>4, <2>3, <2>4, OneRequest, UnchangedStore DEF LoadAuth
<1>5. CASE DisableMissing(r)
  <2>1. ServingStep
    BY <1>2, <1>5, MarkDisabledInPlace, InPlaceStep, StoreMessages
    DEF DisableMissing, DisabledReasons
  <2> QED
    BY <1>5, <2>1, GiveUpGood, OneRequest DEF DisableMissing
<1>6. CASE AdoptIdentity(r)
  <2> PICK prepared \in Prepared : req' = [req EXCEPT ![r].pc = prepared]
    BY <1>6 DEF AdoptIdentity
  <2> DEFINE q == [req[r] EXCEPT !.pc = prepared]
  <2>1. req[r].identity \in Identities /\ acct \in AccountIds
    BY <1>1, <1>6 DEF AdoptIdentity, GoodRequest, Serving
  <2>2. ServingStep
    BY <1>2, <1>6, <2>1, MarkAuthRecoveredInPlace, InPlaceStep, StoreMessages DEF AdoptIdentity
  <2>3. GoodRequest(q)
    BY <1>1, <2>1 DEF Prepared, GoodRequest, Request, RequestPcs
  <2> QED
    BY <1>6, <2>2, <2>3, OneRequest DEF AdoptIdentity
<1>7. CASE Deliver(r)
  <2>1. PICK answer \in AnswersTo(req[r].kind) :
          /\ sf' = IF answer = "ok" THEN MarkSuccess(sf, acct, req[r].kind = "post") ELSE sf
          /\ Finish(r, Response(answer, "open"))
    BY <1>7 DEF Deliver
  <2>2. answer \in Answers
    BY RequestHandlerAssumption DEF AnswersTo
  <2>3. ServingStep
    BY <1>2, <2>1, MarkSuccessInPlace, InPlaceStep, UnchangedStore
  <2>4. RequestsOK'
    BY <2>1, <2>2, ResponseTypes, FinishedGood, OneRequest DEF Finish
  <2> QED
    BY <1>7, <2>3, <2>4 DEF Deliver
<1>8. CASE BackOff(r)
  <2>1. PICK answer \in UpstreamAnswers, retryAfter \in RetryAfters :
          /\ sf' = MarkCooldown(sf, acct, clock, BackoffSeconds(answer, retryAfter))
          /\ IF req[r].attempt < req[r].max
             THEN Retry(r, Response(answer, "closed"))
             ELSE Finish(r, Response(answer, "open"))
    BY <1>8 DEF BackOff
  <2>2. answer \in Answers /\ BackoffSeconds(answer, retryAfter) \in Int
    BY RequestHandlerAssumption DEF BackoffSeconds
  <2>3. ServingStep
    BY <1>2, <2>1, <2>2, MarkCooldownInPlace, InPlaceStep, StoreMessages
  <2>4. RequestsOK'
    BY <2>1, <2>2, ResponseTypes, FinishedGood, NextAttemptGood, OneRequest DEF Finish, Retry
  <2> QED
    BY <1>8, <2>3, <2>4 DEF BackOff
<1>9. CASE UsageLimit(r)
  <2>1. PICK retryAfter \in RetryAfters :
          sf' = MarkCooldown(sf, acct, clock, Larger(req[r].backoff, retryAfter))
    BY <1>9 DEF UsageLimit
  <2>2. Larger(req[r].backoff, retryAfter) \in Int
    BY <1>1, RequestHandlerAssumption DEF Larger, Request
  <2>3. ServingStep
    BY <1>2, <2>1, <2>2, MarkCooldownInPlace, InPlaceStep, StoreMessages
  <2>4. CASE req[r].attempt < req[r].max
    BY <1>9, <2>3, <2>4, ResponseTypes, NextAttemptGood, OneRequest
    DEF UsageLimit, Retry, Answers
  <2>5. CASE ~(req[r].attempt < req[r].max)
    <3> DEFINE q == [req[r] EXCEPT !.pc = "reauth", !.answer = "usage-limit"]
    <3>1. GoodRequest(q)
      <4>1. GoodRequest(req[r]) /\ req[r].pc \in {"send", "resend"}
        BY <1>1, <1>9 DEF UsageLimit
      <4>2. "reauth" \in RequestPcs /\ "usage-limit" \in Answers
        BY DEF RequestPcs, Answers
      <4>3. q \in Request /\ q.pc = "reauth" /\ q.acct = req[r].acct
            /\ q.identity = req[r].identity
        BY <4>1, <4>2 DEF GoodRequest, Request
      <4> HIDE DEF q
      <4> QED
        BY <4>1, <4>3 DEF GoodRequest, Serving
    <3>2. req' = [req EXCEPT ![r] = q]
      BY <1>1, <1>9, <2>5 DEF UsageLimit
    <3>3. UNCHANGED <<homes, clock>>
      BY <1>9 DEF UsageLimit
    <3> HIDE DEF q
    <3> QED
      BY <1>1, <1>9, <2>3, <3>1, <3>2, <3>3, OneRequest
  <2> QED
    BY <2>4, <2>5
<1>10. CASE Reject(r)
  <2>1. PICK answer \in AnswersTo(req[r].kind) :
          req' = [req EXCEPT ![r] = [req[r] EXCEPT !.pc = "reauth", !.answer = answer]]
    BY <1>10 DEF Reject
  <2>2. answer \in Answers
    BY RequestHandlerAssumption DEF AnswersTo
  <2>3. GoodRequest([req[r] EXCEPT !.pc = "reauth", !.answer = answer])
    BY <1>1, <1>10, <2>2 DEF Reject, GoodRequest, Request, RequestPcs, Serving
  <2> QED
    BY <1>10, <2>1, <2>3, OneRequest, UnchangedStore DEF Reject
<1>11. CASE Renew(r)
  <2>1. acct \in AccountIds /\ req[r].answer \in Answers \cup {"none"}
    BY <1>1, <1>11 DEF Renew, GoodRequest, Serving, Request
  <2>2. homes[acct] \in Identities
    BY <1>11, <2>1 DEF Renew, StoreOK
  <2>3. ServingStep
    BY <1>2, <1>11, <2>2, MarkAuthRecoveredInPlace, InPlaceStep, StoreMessages DEF Renew
  <2>4. CASE req[r].kind = "ws"
    <3>1. Response(req[r].answer, "open") \in Responses
      BY <2>1 DEF Response, Responses
    <3> QED
      BY <1>11, <2>3, <2>4, <3>1, FinishedGood, OneRequest DEF Renew, Finish
  <2>5. CASE req[r].kind # "ws"
    <3> DEFINE q == [req[r] EXCEPT !.pc = "resend", !.answer = "none"]
    <3>1. GoodRequest(q)
      BY <1>1, <2>1 DEF GoodRequest, Request, RequestPcs
    <3>2. req' = [req EXCEPT ![r] = q]
      BY <1>11, <2>5 DEF Renew
    <3> HIDE DEF q
    <3>3. RequestsOK'
      BY <3>1, <3>2, OneRequest
    <3> QED
      BY <1>11, <2>3, <3>3 DEF Renew
  <2> QED
    BY <2>4, <2>5
<1>12. CASE RenewFails(r)
  <2>1. PICK terminal \in BOOLEAN :
          sf' = MarkDisabled(sf, acct,
                             DisabledReason(req[r].answer, terminal /\ req[r].kind # "ws"))
    BY <1>12 DEF RenewFails
  <2>2. ServingStep
    <3>1. \A answer, flag : DisabledReason(answer, flag) \in DisabledReasons
      BY DEF DisabledReason, DisabledReasons
    <3> QED
      BY <1>2, <2>1, <3>1, MarkDisabledInPlace, InPlaceStep, StoreMessages
  <2>3. \A body \in {"open", "buffered"} : Response(req[r].answer, body) \in Responses
    BY <1>1 DEF Request, Response, Responses
  <2>4. RequestsOK'
    BY <1>12, <2>3, FinishedGood, NextAttemptGood, OneRequest DEF RenewFails, Finish, Retry
  <2> QED
    BY <1>12, <2>2, <2>4 DEF RenewFails
<1>13. CASE RejectAgain(r)
  <2>1. PICK answer \in AnswersTo(req[r].kind) :
          /\ sf' = MarkDisabled(sf, acct, DisabledReason(answer, FALSE))
          /\ Retry(r, Response(answer, "open"))
    BY <1>13 DEF RejectAgain
  <2>2. answer \in Answers
    BY RequestHandlerAssumption DEF AnswersTo
  <2>3. ServingStep
    <3> DEFINE reason == DisabledReason(answer, FALSE)
    <3>1. reason \in DisabledReasons
      BY DEF DisabledReason, DisabledReasons
    <3>2. sf' = MarkDisabled(sf, acct, reason)
      BY <2>1
    <3> HIDE DEF reason
    <3> QED
      BY <1>2, <3>1, <3>2, MarkDisabledInPlace, InPlaceStep, StoreMessages
  <2>4. RequestsOK'
    BY <2>1, <2>2, ResponseTypes, NextAttemptGood, OneRequest DEF Retry
  <2> QED
    BY <1>13, <2>3, <2>4 DEF RejectAgain
<1>14. CASE TransportError(r)
  <2>1. req[r].backoff \in Int /\ req[r].last \in Responses
    BY <1>1 DEF Request
  <2>2. ServingStep
    BY <1>2, <1>14, <2>1, MarkCooldownInPlace, InPlaceStep, StoreMessages DEF TransportError
  <2> QED
    BY <1>14, <2>1, <2>2, NextAttemptGood, OneRequest DEF TransportError, Retry
<1>15. CASE Canceled(r)
  BY <1>15, ResponseTypes, FinishedGood, OneRequest, UnchangedStore DEF Canceled, Finish
<1>16. CASE WebsocketError(r)
  <2>1. ServingStep
    BY <1>2, <1>16, MarkCooldownInPlace, InPlaceStep, StoreMessages DEF WebsocketError
  <2> QED
    BY <1>16, <2>1, ResponseTypes, FinishedGood, OneRequest DEF WebsocketError, Finish
<1>17. CASE Return(r)
  BY <1>17, IdleGood, OneRequest, UnchangedStore DEF Return
<1>18. CASE Begin(r)
  BY <1>18, BeginGood, UnchangedStore DEF Begin
<1>19. CASE BodyUnreadable(r)
  BY <1>19, ResponseTypes, FinishedGood, OneRequest, UnchangedStore DEF BodyUnreadable
<1>20. CASE Unsendable(r)
  <2>1. /\ req[r].last \in Responses
        /\ Response("internal-error", "buffered") \in Responses
    BY <1>1, ResponseTypes DEF Request
  <2>2. \/ req' = [req EXCEPT ![r] = Finished(r, Response("internal-error", "buffered"))]
        \/ req' = [req EXCEPT ![r] = NextAttempt(r, req[r].last)]
    BY <1>20 DEF Unsendable, Finish, Retry
  <2>3. RequestsOK'
    BY <2>1, <2>2, FinishedGood, NextAttemptGood, OneRequest
  <2> QED
    BY <1>20, <2>3, UnchangedStore DEF Unsendable
<1> QED
  BY <1>3, <1>4, <1>5, <1>6, <1>7, <1>8, <1>9, <1>10, <1>11, <1>12, <1>13, <1>14, <1>15,
     <1>16, <1>17, <1>18, <1>19, <1>20 DEF Handle

-----------------------------------------------------------------------------

LEMMA WalksKept ==
  ASSUME StoreOK, StoreStep, WalksOK, UNCHANGED <<refresh, refreshInFlight>>
  PROVE  WalksOK'
<1>1. \A o \in Owners : refresh[o].messages \in Nat
  BY DEF WalksOK, Refresh
<1>2. sf.messages \in Nat /\ sf'.messages \in Nat /\ sf'.messages >= sf.messages
  BY DEF StoreOK, StoreStep, StoreFile
<1> QED
  BY <1>1, <1>2 DEF WalksOK, GoodWalk

\* A walk that goes on keeps the flag it holds, one that waits does not get it.
LEMMA WalkGoesOn ==
  ASSUME StoreOK, StoreStep, WalksOK, OneRefresh, RefreshOwned,
         NEW o \in Owners, NEW w, GoodWalk(w), Underway(w) <=> Underway(refresh[o]),
         refresh' = [refresh EXCEPT ![o] = w],
         UNCHANGED <<req, refreshInFlight>>
  PROVE  WalksOK' /\ OneRefresh' /\ RefreshOwned'
<1>1. /\ refresh' \in [Owners -> Refresh]
      /\ \A p \in Owners : refresh'[p] = IF p = o THEN w ELSE refresh[p]
  BY DEF WalksOK, GoodWalk
<1>2. \A p \in Owners : Underway(refresh'[p]) <=> Underway(refresh[p])
  BY <1>1
<1>3. WalksOK'
  <2>1. \A p \in Owners : GoodWalk(refresh'[p]) /\ refresh'[p].messages \in Nat
    BY <1>1 DEF WalksOK, Refresh
  <2>2. sf.messages \in Nat /\ sf'.messages \in Nat /\ sf'.messages >= sf.messages
    BY DEF StoreOK, StoreStep, StoreFile
  <2> QED
    BY <1>1, <2>1, <2>2 DEF WalksOK, GoodWalk
<1>4. OneRefresh'
  BY <1>2 DEF OneRefresh
<1>5. RefreshOwned'
  BY <1>2 DEF RefreshOwned, Owners
<1> QED
  BY <1>3, <1>4, <1>5

LEMMA OffGood ==
  ASSUME StoreOK
  PROVE  GoodWalk(Off) /\ ~Underway(Off)
BY StoreMessages DEF Off, GoodWalk, Underway, Refresh, RefreshPcs

\* A walk that asks for the flag, and one that has just got it.
LEMMA FreshWalk ==
  ASSUME StoreOK, NEW pc \in {"asked", "snapshot"}, NEW now \in Nat,
         NEW w, w = [Off EXCEPT !.pc = pc, !.now = now]
  PROVE  GoodWalk(w) /\ w \in Refresh /\ w.pc = pc
<1>1. Off \in Refresh /\ Off.messages = 0
  BY DEF Off, Refresh, RefreshPcs
<1>2. w \in Refresh /\ w.pc = pc /\ w.messages = 0
  BY <1>1 DEF Refresh, RefreshPcs
<1> QED
  BY <1>2, StoreMessages DEF GoodWalk

\* What the snapshot leaves to visit.
LEMMA WorklistType ==
  ASSUME StoreOK, WalksOK, NEW o \in Owners
  PROVE  Worklist(o) \in Seq(Entry)
<1> DEFINE due(a) == Forced(o) \/ DueForRefresh(a, sf.messages, refresh[o].now)
<1>1. \A i \in DOMAIN sf.accounts :
        sf.accounts[i].id \in AccountIds
        /\ sf.accounts[i].reason \in DisabledReasons \cup {None}
  BY AccountsOfStore DEF StoreOK, Account
<1>2. \A a \in Account : due(a) \in BOOLEAN
  OBVIOUS
<1>3. Worklist(o) \in [1..Len(sf.accounts) -> Entry]
  BY <1>1, <1>2, AccountsOfStore DEF Worklist, Entry, StoreOK
<1> QED
  BY <1>3, AccountsOfStore, SeqOfFunction DEF StoreOK

\* A walk wins the flag.
LEMMA AdmittedStep ==
  ASSUME StoreOK, StoreStep, WalksOK, OneRefresh,
         NEW o \in Owners, NEW now \in Nat, Admitted(o, now)
  PROVE  /\ WalksOK' /\ OneRefresh'
         /\ \A p \in Owners : Underway(refresh'[p]) <=> p = o
         /\ \A p \in Owners : ~Underway(refresh[p])
<1> DEFINE w == [Off EXCEPT !.pc = "snapshot", !.now = now]
<1>1. refresh' = [refresh EXCEPT ![o] = w] /\ refreshInFlight' = TRUE /\ ~refreshInFlight
  BY DEF Admitted
<1>2. sf.messages \in Nat /\ sf'.messages \in Nat /\ sf'.messages >= sf.messages
  BY DEF StoreOK, StoreStep, StoreFile
<1>3. w \in Refresh /\ GoodWalk(w) /\ Underway(w)
  BY FreshWalk DEF Underway
<1> HIDE DEF w
<1>4. \A p \in Owners : ~Underway(refresh[p]) /\ refresh[p] \in Refresh /\ GoodWalk(refresh[p])
  BY <1>1 DEF OneRefresh, WalksOK
<1>5. /\ refresh' \in [Owners -> Refresh]
      /\ \A p \in Owners : refresh'[p] = IF p = o THEN w ELSE refresh[p]
  BY <1>1, <1>3 DEF WalksOK
<1>6. \A p \in Owners : Underway(refresh'[p]) <=> p = o
  BY <1>3, <1>4, <1>5
<1>7. WalksOK'
  <2>1. \A p \in Owners : GoodWalk(refresh'[p]) /\ refresh'[p].messages \in Nat
    BY <1>3, <1>4, <1>5 DEF Refresh
  <2> QED
    BY <1>1, <1>2, <1>5, <2>1 DEF WalksOK, GoodWalk
<1>8. OneRefresh'
  BY <1>1, <1>6 DEF OneRefresh
<1> QED
  BY <1>4, <1>6, <1>7, <1>8

Advanced(o) ==
  [refresh[o] EXCEPT !.pc = "load", !.todo = Tail(@), !.identity = MissingAuth]

LEMMA AdvancedGood ==
  ASSUME WalksOK, NEW o \in Owners, refresh[o].todo # << >>
  PROVE  GoodWalk(Advanced(o)) /\ Underway(Advanced(o))
<1> DEFINE rest == Tail(refresh[o].todo)
<1>1. refresh[o] \in Refresh /\ GoodWalk(refresh[o])
  BY DEF WalksOK
<1>2. rest \in Seq(Entry)
  BY <1>1 DEF Refresh
<1> HIDE DEF rest
<1>3. Advanced(o) = [refresh[o] EXCEPT !.pc = "load", !.todo = rest, !.identity = MissingAuth]
  BY DEF Advanced, rest
<1> QED
  BY <1>1, <1>2, <1>3 DEF GoodWalk, Refresh, RefreshPcs, Underway

\* What a step of a walk keeps.
LEMMA WalkStep ==
  ASSUME StoreOK, RequestsOK, WalksOK, OneRefresh, RefreshOwned, NEW o \in Owners, Walk(o)
  PROVE  /\ ServingStep /\ RequestsOK' /\ WalksOK' /\ OneRefresh' /\ RefreshOwned'
         /\ UNCHANGED <<homes, clock>>
<1> DEFINE id == Current(o).id
<1>1. refresh[o] \in Refresh /\ GoodWalk(refresh[o])
  BY DEF WalksOK
<1>2. sf \in StoreFile /\ Consistent(sf) /\ sf.messages \in Nat
  BY StoreMessages DEF StoreOK
<1>3. refresh[o].todo # << >> => id \in AccountIds
  <2>1. refresh[o].todo \in Seq(Entry)
    BY <1>1 DEF Refresh
  <2>2. refresh[o].todo # << >> => Head(refresh[o].todo) \in Entry
    BY <2>1
  <2> QED
    BY <2>2 DEF Current, Entry
<1>4. ASSUME NextEntry(o), ServingStep, UNCHANGED <<homes, clock, req, refreshInFlight>>,
             Underway(refresh[o]), refresh[o].todo # << >>
      PROVE  /\ RequestsOK' /\ WalksOK' /\ OneRefresh' /\ RefreshOwned'
             /\ UNCHANGED <<homes, clock>>
  <2>1. refresh' = [refresh EXCEPT ![o] = Advanced(o)]
    BY <1>4 DEF NextEntry, Advanced
  <2> QED
    BY <1>4, <2>1, AdvancedGood, WalkGoesOn DEF RequestsOK, ServingStep
<1>5. ASSUME NEW w, GoodWalk(w), Underway(w), refresh' = [refresh EXCEPT ![o] = w],
             ServingStep, UNCHANGED <<homes, clock, req, refreshInFlight>>, Underway(refresh[o])
      PROVE  /\ RequestsOK' /\ WalksOK' /\ OneRefresh' /\ RefreshOwned'
             /\ UNCHANGED <<homes, clock>>
  BY <1>5, WalkGoesOn DEF RequestsOK, ServingStep
<1>6. CASE RefreshSkip(o)
  BY <1>4, <1>6, UnchangedStore DEF RefreshSkip, At, Underway
<1>7. CASE RefreshLoad(o)
  <2> DEFINE found == homes[id]
             w == [refresh[o] EXCEPT !.identity = found,
                     !.pc = IF Current(o).reason = "http-401" THEN "preauth" ELSE "fetch"]
             m == [refresh[o] EXCEPT !.pc = "missing"]
  <2>1. refresh[o].todo # << >> /\ Underway(refresh[o]) /\ refresh[o].pc = "load" /\ ServingStep
        /\ UNCHANGED <<homes, clock, req, refreshInFlight>>
    BY <1>7, UnchangedStore DEF RefreshLoad, At, Underway
  <2>2. found \in Identities \cup {MissingAuth}
    BY <1>3, <2>1 DEF StoreOK
  <2>3. CASE NextEntry(o)
    BY <1>4, <2>1, <2>3
  <2>4. CASE GoTo(o, "missing")
    <3>1. refresh' = [refresh EXCEPT ![o] = m]
      BY <2>4 DEF GoTo
    <3>2. GoodWalk(m) /\ Underway(m)
      BY <1>1, <2>1 DEF GoodWalk, Refresh, RefreshPcs, Underway
    <3> HIDE DEF m
    <3> QED
      BY <1>5, <2>1, <3>1, <3>2
  <2>5. CASE found # MissingAuth /\ refresh' = [refresh EXCEPT ![o] = w]
    <3>1. GoodWalk(w) /\ Underway(w)
      BY <1>1, <2>1, <2>2, <2>5 DEF GoodWalk, Refresh, RefreshPcs, Underway
    <3> HIDE DEF w
    <3> QED
      BY <1>5, <2>1, <2>5, <3>1
  <2>6. \/ NextEntry(o)
        \/ GoTo(o, "missing")
        \/ found # MissingAuth /\ refresh' = [refresh EXCEPT ![o] = w]
    BY <1>7 DEF RefreshLoad
  <2> QED
    BY <2>3, <2>4, <2>5, <2>6
<1>8. CASE RefreshMissing(o)
  <2>1. refresh[o].todo # << >> /\ Underway(refresh[o])
    BY <1>1, <1>8 DEF RefreshMissing, At, GoodWalk, Underway
  <2>2. ServingStep
    <3>1. "missing-auth" \in DisabledReasons
      BY DEF DisabledReasons
    <3> QED
      BY <1>2, <1>8, <3>1, MarkDisabledInPlace, InPlaceStep DEF RefreshMissing
  <2> QED
    BY <1>4, <1>8, <2>1, <2>2 DEF RefreshMissing
<1>9. CASE RefreshRenew(o)
  <2> DEFINE found == homes[id]
             w == [refresh[o] EXCEPT !.identity = found,
                                     !.pc = IF @ = "preauth" THEN "fetch" ELSE "refetch"]
  <2>1. refresh[o].todo # << >> /\ Underway(refresh[o])
    BY <1>1, <1>9 DEF RefreshRenew, At, GoodWalk, Underway
  <2>2. found \in Identities
    BY <1>3, <1>9, <2>1 DEF RefreshRenew, StoreOK
  <2>3. ServingStep
    BY <1>2, <1>9, <2>2, MarkAuthRecoveredInPlace, InPlaceStep DEF RefreshRenew
  <2>4. GoodWalk(w) /\ Underway(w)
    BY <1>1, <2>1, <2>2 DEF GoodWalk, Refresh, RefreshPcs, Underway
  <2>5. refresh' = [refresh EXCEPT ![o] = w]
    BY <1>9 DEF RefreshRenew
  <2> HIDE DEF w
  <2> QED
    BY <1>5, <1>9, <2>1, <2>3, <2>4, <2>5 DEF RefreshRenew
<1>10. CASE RefreshRecord(o)
  <2>1. PICK quota \in Quotas :
          sf' = RecordQuota(sf, id, refresh[o].identity, quota, refresh[o].now,
                            refresh[o].messages)
    BY <1>10 DEF RefreshRecord
  <2>2. refresh[o].todo # << >> /\ Underway(refresh[o]) /\ refresh[o].identity \in Identities
    BY <1>1, <1>10 DEF RefreshRecord, At, GoodWalk, Underway
  <2>3. refresh[o].messages \in 0..sf.messages /\ refresh[o].now \in Nat
    BY <1>1, <1>2 DEF GoodWalk, Refresh
  <2>4. ServingStep
    BY <1>2, <2>1, <2>2, <2>3, ProxyStateAssumption, RecordQuotaInPlace, InPlaceStep
  <2> QED
    BY <1>4, <1>10, <2>2, <2>4 DEF RefreshRecord
<1>11. CASE RefreshRejected(o)
  <2> DEFINE w == [refresh[o] EXCEPT !.pc = "reauth"]
  <2>1. refresh[o].pc = "fetch"
    BY <1>11 DEF RefreshRejected, At
  <2>2. GoodWalk(w) /\ Underway(w)
    BY <1>1, <2>1 DEF GoodWalk, Refresh, RefreshPcs, Underway
  <2>3. refresh' = [refresh EXCEPT ![o] = w]
    BY <1>11 DEF RefreshRejected, GoTo
  <2>4. ServingStep /\ UNCHANGED <<homes, clock, req, refreshInFlight>> /\ Underway(refresh[o])
    BY <1>11, <2>1, UnchangedStore DEF RefreshRejected, Underway
  <2> HIDE DEF w
  <2> QED
    BY <1>5, <2>2, <2>3, <2>4
<1>12. CASE RefreshError(o)
  <2>1. refresh[o].todo # << >> /\ Underway(refresh[o])
    BY <1>1, <1>12 DEF RefreshError, GoodWalk, Underway
  <2> QED
    BY <1>4, <1>12, <2>1, UnchangedStore DEF RefreshError
<1>13. CASE EndRefresh(o)
  <2>1. /\ refreshInFlight' = FALSE /\ refresh' = [refresh EXCEPT ![o] = Off]
        /\ refresh[o].pc = "load" /\ UNCHANGED <<sf, homes, clock>>
        /\ req' = IF o \in Requests THEN [req EXCEPT ![o].pc = "begin"] ELSE req
    BY <1>13 DEF EndRefresh, At
  <2>2. ServingStep
    BY <2>1, UnchangedStore
  <2>3. RequestsOK'
    BY <2>1, BegunGood, OneRequest DEF RequestsOK
  <2>4. \A p \in Owners : refresh'[p] = IF p = o THEN Off ELSE refresh[p]
    BY <2>1 DEF WalksOK
  <2>5. Off \in Refresh /\ GoodWalk(Off) /\ ~Underway(Off)
    BY OffGood DEF GoodWalk
  <2>6. WalksOK'
    BY <2>1, <2>4, <2>5 DEF WalksOK, GoodWalk
  <2>7. \A p \in Owners : ~Underway(refresh'[p])
    <3>1. Underway(refresh[o])
      BY <2>1 DEF Underway
    <3> QED
      BY <2>4, <2>5, <3>1 DEF OneRefresh
  <2>8. OneRefresh'
    BY <2>1, <2>7 DEF OneRefresh
  <2>9. RefreshOwned'
    <3> SUFFICES ASSUME NEW r \in Requests
                 PROVE  req'[r].pc # "refreshing"
      BY <2>7 DEF RefreshOwned, Owners
    <3>1. CASE r = o
      BY <2>1, <3>1 DEF RequestsOK, Request
    <3>2. CASE r # o
      <4>1. ~Underway(refresh[r])
        BY <2>4, <2>7, <3>2 DEF Owners
      <4> QED
        BY <2>1, <3>2, <4>1 DEF RefreshOwned
    <3> QED
      BY <3>1, <3>2
  <2> QED
    BY <2>1, <2>2, <2>3, <2>6, <2>8, <2>9
<1>14. CASE TakeSnapshot(o)
  <2> DEFINE todo == Worklist(o)
             w == [refresh[o] EXCEPT !.pc = "load", !.todo = todo, !.messages = sf.messages]
  <2>1. refresh' = [refresh EXCEPT ![o] = w] /\ Underway(refresh[o])
    BY <1>14 DEF TakeSnapshot, At, Underway
  <2>2. todo \in Seq(Entry)
    BY WorklistType
  <2> HIDE DEF todo
  <2>3. w \in Refresh /\ w.pc = "load" /\ w.messages = sf.messages
    BY <1>1, <1>2, <2>2 DEF Refresh, RefreshPcs
  <2>4. GoodWalk(w) /\ Underway(w)
    BY <1>2, <2>3 DEF GoodWalk, Underway
  <2> HIDE DEF w
  <2> QED
    BY <1>5, <1>14, <2>1, <2>4, UnchangedStore DEF TakeSnapshot
<1>15. CASE StatusRefresh(o)
  <2>1. UNCHANGED <<sf, homes, clock, req>> /\ refresh[o].pc = "asked" /\ ServingStep
    BY <1>15, UnchangedStore DEF StatusRefresh, At
  <2>2. o \notin Requests
    BY <1>15, QuotaRefreshAssumption DEF StatusRefresh
  <2>3. CASE Admitted(o, refresh[o].now)
    <3>1. refresh[o].now \in Nat
      BY <1>1 DEF Refresh
    <3>2. /\ WalksOK' /\ OneRefresh'
          /\ \A p \in Owners : Underway(refresh'[p]) <=> p = o
          /\ \A p \in Owners : ~Underway(refresh[p])
      BY <2>1, <2>3, <3>1, AdmittedStep DEF ServingStep
    <3>3. RefreshOwned'
      BY <2>1, <2>2, <3>2 DEF RefreshOwned, Owners
    <3>4. RequestsOK'
      BY <2>1 DEF RequestsOK
    <3> QED
      BY <2>1, <3>2, <3>3, <3>4
  <2>4. CASE refreshInFlight /\ refresh' = [refresh EXCEPT ![o] = Off] /\ UNCHANGED refreshInFlight
    <3>1. GoodWalk(Off) /\ ~Underway(Off) /\ ~Underway(refresh[o])
      BY <2>1, OffGood DEF Underway
    <3> QED
      BY <2>1, <2>4, <3>1, WalkGoesOn DEF RequestsOK, ServingStep
  <2> QED
    BY <1>15, <2>3, <2>4 DEF StatusRefresh
<1> QED
  BY <1>6, <1>7, <1>8, <1>9, <1>10, <1>11, <1>12, <1>13, <1>14, <1>15 DEF Walk

-----------------------------------------------------------------------------

\* Nobody waits for a walk while serving a request.
LEMMA HandleOutsideRefresh ==
  ASSUME RequestsOK, NEW r \in Requests, Handle(r)
  PROVE  \A q \in Requests : req'[q].pc = "refreshing" <=> req[q].pc = "refreshing"
<1>1. req \in [Requests -> Request]
  BY DEF RequestsOK
<1>2. req[r] \in Request
  BY <1>1
<1>3. \A response : Finished(r, response).pc = "done"
  BY DEF Finished, Idle
<1>4. GiveUp(r).pc = "done"
  BY <1>3 DEF GiveUp
<1>5. \A last : NextAttempt(r, last).pc # "refreshing"
  BY <1>2, <1>3 DEF NextAttempt, Request
<1>6. req[r].pc # "refreshing"
  BY DEF Handle, Pick, LoadAuth, DisableMissing, AdoptIdentity, Unsendable, Deliver, BackOff,
         UsageLimit, Reject, Renew, RenewFails, RejectAgain, TransportError, Canceled, WebsocketError,
         Return, Begin, BodyUnreadable, Waiting
<1>7. req'[r].pc # "refreshing" /\ \A q \in Requests : q # r => req'[q] = req[q]
  <2>1. CASE Pick(r)
    BY <1>1, <1>2, <1>4, <2>1 DEF Pick, Request
  <2>2. CASE LoadAuth(r)
    BY <1>1, <1>2, <2>2 DEF LoadAuth, Prepared, Request
  <2>3. CASE DisableMissing(r)
    BY <1>1, <1>4, <2>3 DEF DisableMissing
  <2>4. CASE AdoptIdentity(r)
    BY <1>1, <1>2, <2>4 DEF AdoptIdentity, Prepared, Request
  <2>5. CASE Deliver(r) \/ BackOff(r) \/ Canceled(r) \/ WebsocketError(r)
    BY <1>1, <1>3, <1>5, <2>5 DEF Deliver, BackOff, Canceled, WebsocketError, Finish, Retry
  <2>6. CASE UsageLimit(r)
    BY <1>1, <1>2, <1>5, <2>6 DEF UsageLimit, Retry, Request
  <2>7. CASE Reject(r)
    BY <1>1, <1>2, <2>7 DEF Reject, Request
  <2>8. CASE Renew(r)
    BY <1>1, <1>2, <1>3, <2>8 DEF Renew, Finish, Request
  <2>9. CASE RenewFails(r) \/ RejectAgain(r) \/ TransportError(r) \/ Unsendable(r)
    BY <1>1, <1>3, <1>5, <2>9 DEF RenewFails, RejectAgain, TransportError, Unsendable,
                                  Finish, Retry
  <2>10. CASE Return(r)
    BY <1>1, <2>10 DEF Return, Idle
  <2>11. CASE Begin(r)
    BY <1>1, <1>2, <2>11 DEF Begin, Request
  <2>12. CASE BodyUnreadable(r)
    BY <1>1, <1>3, <2>12 DEF BodyUnreadable
  <2> QED
    BY <2>1, <2>2, <2>3, <2>4, <2>5, <2>6, <2>7, <2>8, <2>9, <2>10, <2>11, <2>12 DEF Handle
<1> QED
  BY <1>6, <1>7

LEMMA SameRefresh ==
  ASSUME OneRefresh, RefreshOwned, UNCHANGED <<refresh, refreshInFlight>>,
         \A q \in Requests : req'[q].pc = "refreshing" <=> req[q].pc = "refreshing"
  PROVE  OneRefresh' /\ RefreshOwned'
BY DEF OneRefresh, RefreshOwned

-----------------------------------------------------------------------------

\* What a step of an administrator keeps.
LEMMA AdministerStep ==
  ASSUME StoreOK, AdminsOK, NEW a \in Admins, Administer(a)
  PROVE  StoreStep /\ AdminsOK' /\ StoreOK'
<1> DEFINE id == admin[a].id
<1>1. /\ admin \in [Admins -> AdminState] /\ GoodAdmin(admin[a])
      /\ \A b \in Admins : GoodAdmin(admin[b])
  BY DEF AdminsOK
<1>2. /\ sf \in StoreFile /\ Consistent(sf) /\ sf.messages \in Nat /\ clock \in Nat
      /\ homes \in [AccountIds -> Identities \cup {MissingAuth}]
  BY StoreMessages DEF StoreOK
<1>3. ASSUME NEW p, GoodAdmin(p), admin' = [admin EXCEPT ![a] = p]
      PROVE  AdminsOK'
  BY <1>1, <1>3 DEF AdminsOK, GoodAdmin
<1>4. GoodAdmin(AdminIdle)
  BY DEF GoodAdmin, AdminIdle, AdminState, AdminPcs
<1>5. ASSUME StoreStep, homes' \in [AccountIds -> Identities \cup {MissingAuth}], clock' = clock
      PROVE  StoreOK'
  BY <1>2, <1>5 DEF StoreOK, StoreStep
<1>6. CASE RemoveHome(a)
  <2> DEFINE Removed(n) ==
        /\ homes' = [homes EXCEPT ![n] = MissingAuth]
        /\ admin' = [b \in Admins |->
             IF b = a THEN [AdminIdle EXCEPT !.pc = "forget", !.id = n]
             ELSE IF AdminStep(b, "write") /\ admin[b].id = n
             THEN [admin[b] EXCEPT !.pc = "register", !.identity = MissingAuth]
             ELSE admin[b]]
  <2>1. PICK n \in AccountIds :
          Removed(n) \/ (AdminGoTo(a, "forget", n, MissingAuth) /\ UNCHANGED homes)
    BY <1>6 DEF RemoveHome
  <2>2. homes' \in [AccountIds -> Identities \cup {MissingAuth}]
    BY <1>2, <2>1
  <2>3. /\ GoodAdmin([AdminIdle EXCEPT !.pc = "forget", !.id = n])
        /\ GoodAdmin([pc |-> "forget", id |-> n, identity |-> MissingAuth])
    BY DEF GoodAdmin, AdminIdle, AdminState, AdminPcs
  <2>4. ASSUME Removed(n) PROVE AdminsOK'
    <3>1. \A b \in Admins : AdminStep(b, "write")
             => GoodAdmin([admin[b] EXCEPT !.pc = "register", !.identity = MissingAuth])
      BY <1>1 DEF AdminStep, GoodAdmin, AdminState, AdminPcs
    <3>2. \A b \in Admins : GoodAdmin(admin'[b])
      BY <1>1, <2>3, <2>4, <3>1
    <3> QED
      BY <2>4, <3>2 DEF AdminsOK, GoodAdmin
  <2>5. ASSUME AdminGoTo(a, "forget", n, MissingAuth) PROVE AdminsOK'
    BY <1>3, <2>3, <2>5 DEF AdminGoTo
  <2> QED
    BY <1>2, <1>5, <1>6, <2>1, <2>2, <2>4, <2>5, UnchangedStore DEF RemoveHome, ServingStep
<1>7. CASE ForgetAccount(a)
  <2>1. StoreStep
    BY <1>2, <1>7, RemoveConsistent DEF ForgetAccount, StoreStep
  <2> QED
    BY <1>2, <1>3, <1>4, <1>5, <1>7, <2>1 DEF ForgetAccount, AdminDone
<1>8. CASE LookUpPin(a)
  <2>1. PICK n \in Known(sf) : AdminGoTo(a, "pin", n, MissingAuth)
    BY <1>8 DEF LookUpPin
  <2>2. n \in AccountIds
    BY <1>2, AccountsOfStore DEF Known, Account
  <2>3. GoodAdmin([pc |-> "pin", id |-> n, identity |-> MissingAuth])
    BY <2>2 DEF GoodAdmin, AdminState, AdminPcs
  <2> QED
    BY <1>2, <1>3, <1>5, <1>8, <2>1, <2>3, UnchangedStore DEF LookUpPin, AdminGoTo, ServingStep
<1>9. CASE StorePin(a)
  <2>1. id \in AccountIds
    BY <1>1, <1>9 DEF StorePin, AdminStep, GoodAdmin
  <2>2. sf' = [sf EXCEPT !.pinned = id]
    BY <1>9 DEF StorePin
  <2>3. /\ sf' \in StoreFile /\ sf'.accounts = sf.accounts /\ sf'.active = sf.active
        /\ sf'.messages = sf.messages
    BY <1>2, <2>1, <2>2 DEF StoreFile
  <2>4. StoreStep
    BY <1>2, <2>3 DEF StoreStep, Consistent, UniqueIds, ActiveInRange, SyncedInPast
  <2> QED
    BY <1>2, <1>3, <1>4, <1>5, <1>9, <2>4 DEF StorePin, AdminDone
<1>10. CASE Unpin(a)
  <2>1. sf' = [sf EXCEPT !.pinned = NoAccount]
    BY <1>10 DEF Unpin
  <2>2. /\ sf' \in StoreFile /\ sf'.accounts = sf.accounts /\ sf'.active = sf.active
        /\ sf'.messages = sf.messages
    BY <1>2, <2>1 DEF StoreFile
  <2>3. StoreStep
    BY <1>2, <2>2 DEF StoreStep, Consistent, UniqueIds, ActiveInRange, SyncedInPast
  <2> QED
    BY <1>1, <1>2, <1>5, <1>10, <2>3 DEF Unpin, AdminsOK
<1>11. CASE TruncateAuth(a)
  <2>1. PICK n \in AccountIds, identity \in Identities :
          /\ homes' = [homes EXCEPT ![n] = MissingAuth]
          /\ AdminGoTo(a, "write", n, identity)
    BY <1>11 DEF TruncateAuth
  <2>2. GoodAdmin([pc |-> "write", id |-> n, identity |-> identity])
    BY DEF GoodAdmin, AdminState, AdminPcs
  <2> QED
    BY <1>2, <1>3, <1>5, <1>11, <2>1, <2>2, UnchangedStore DEF TruncateAuth, AdminGoTo, ServingStep
<1>12. CASE WriteAuth(a)
  <2>1. id \in AccountIds /\ admin[a].identity \in Identities
    BY <1>1, <1>12 DEF WriteAuth, AdminStep, GoodAdmin
  <2>2. GoodAdmin([pc |-> "register", id |-> id, identity |-> MissingAuth])
    BY <2>1 DEF GoodAdmin, AdminState, AdminPcs
  <2>3. AdminsOK' /\ homes' \in [AccountIds -> Identities \cup {MissingAuth}]
    BY <1>2, <1>3, <1>4, <1>12, <2>1, <2>2 DEF WriteAuth, AdminGoTo, AdminDone
  <2> QED
    BY <1>2, <1>5, <1>12, <2>3, UnchangedStore DEF WriteAuth, ServingStep
<1>13. CASE ReadBack(a)
  <2> DEFINE found == homes[id]
  <2>1. id \in AccountIds
    BY <1>1, <1>13 DEF ReadBack, AdminStep, GoodAdmin
  <2>2. found # MissingAuth
          => GoodAdmin([pc |-> "upsert", id |-> id, identity |-> found])
    BY <1>2, <2>1 DEF GoodAdmin, AdminState, AdminPcs
  <2>3. AdminsOK'
    BY <1>3, <1>4, <1>13, <2>2 DEF ReadBack, AdminGoTo, AdminDone
  <2> QED
    BY <1>2, <1>5, <1>13, <2>3, UnchangedStore DEF ReadBack, ServingStep
<1>14. CASE Register(a)
  <2>1. id \in AccountIds /\ admin[a].identity \in Identities
    BY <1>1, <1>14 DEF Register, AdminStep, GoodAdmin
  <2>2. StoreStep
    BY <1>2, <1>14, <2>1, UpsertConsistent DEF Register, StoreStep
  <2> QED
    BY <1>2, <1>3, <1>4, <1>5, <1>14, <2>2 DEF Register, AdminDone
<1> QED
  BY <1>6, <1>7, <1>8, <1>9, <1>10, <1>11, <1>12, <1>13, <1>14 DEF Administer

LEMMA ReloadStep ==
  ASSUME StoreOK, AdminsOK, ReloadSettings
  PROVE  StoreStep /\ AdminsOK' /\ StoreOK'
<1>1. PICK settings \in SettingsChoices : sf' = [sf EXCEPT !.settings = settings]
  BY DEF ReloadSettings
<1>2. settings \in Settings
  BY ProxyStateAssumption
<1>3. /\ sf' \in StoreFile /\ sf'.accounts = sf.accounts /\ sf'.active = sf.active
      /\ sf'.messages = sf.messages
  BY <1>1, <1>2 DEF StoreOK, StoreFile
<1>4. StoreStep
  BY <1>3, StoreMessages
  DEF StoreStep, StoreOK, Consistent, UniqueIds, ActiveInRange, SyncedInPast
<1> QED
  BY <1>4 DEF ReloadSettings, StoreOK, StoreStep, AdminsOK

-----------------------------------------------------------------------------

LEMMA InitInvariant ==
  ASSUME Init
  PROVE  IInv
<1>1. sf \in StoreFile /\ Consistent(sf)
  BY StoresAssumption DEF Init
<1>2. homes \in [AccountIds -> Identities \cup {MissingAuth}]
  <2>1. \A id \in AccountIds : Indexes(sf, id) # {}
           => sf.accounts[Min(Indexes(sf, id))].identity \in Identities
    BY <1>1, FirstIndex, AccountsOfStore DEF Account
  <2> QED
    BY <2>1 DEF Init
<1>3. StoreOK
  BY <1>1, <1>2 DEF Init, StoreOK
<1>4. RequestsOK
  BY IdleGood DEF Init, RequestsOK, GoodRequest
<1>5. Off \in Refresh /\ GoodWalk(Off) /\ ~Underway(Off)
  BY <1>3, OffGood DEF GoodWalk
<1>6. WalksOK /\ OneRefresh
  BY <1>5 DEF Init, WalksOK, OneRefresh
<1>7. AdminsOK
  BY DEF Init, AdminsOK, GoodAdmin, AdminIdle, AdminState, AdminPcs
<1>8. RefreshOwned
  BY <1>5 DEF Init, RefreshOwned, Idle, Owners
<1> QED
  BY <1>3, <1>4, <1>6, <1>7, <1>8 DEF IInv

\* Every step of the process, or none, keeps the invariant, and no step takes
\* back a counted message.
LEMMA NextInvariant ==
  ASSUME IInv, [Next]_vars
  PROVE  IInv' /\ StoreStep
<1>1. StoreOK /\ RequestsOK /\ WalksOK /\ AdminsOK /\ OneRefresh /\ RefreshOwned
  BY DEF IInv
<1>2. sf \in StoreFile /\ Consistent(sf) /\ sf.messages \in Nat /\ clock \in Nat
  BY <1>1, StoreMessages DEF StoreOK
<1>3. ASSUME StoreStep, UNCHANGED <<homes, clock>>
      PROVE  StoreOK'
  BY <1>1, <1>3 DEF StoreOK, StoreStep
<1>4. ASSUME UNCHANGED admin
      PROVE  AdminsOK'
  BY <1>1, <1>4 DEF AdminsOK
<1>5. CASE Accept
  <2>1. PICK r \in Requests : Arrive(r)
    BY <1>5 DEF Accept
  <2>2. PICK kind \in Kinds :
          req' = [req EXCEPT ![r] = [Idle EXCEPT !.pc = "quota", !.kind = kind, !.now = clock]]
    BY <2>1 DEF Arrive
  <2>3. GoodRequest([Idle EXCEPT !.pc = "quota", !.kind = kind, !.now = clock])
    <3>1. kind \in AllKinds
      BY RequestHandlerAssumption
    <3> QED
      BY <1>2, <3>1, IdleGood DEF GoodRequest, Request, RequestPcs, Serving
  <2>4. StoreStep
    BY <1>1, <1>2, <2>1, ExpireCooldownsInPlace, InPlaceStep DEF Arrive, ServingStep
  <2>5. RequestsOK'
    BY <1>1, <2>2, <2>3, OneRequest
  <2>6. \A q \in Requests : req'[q].pc = "refreshing" <=> req[q].pc = "refreshing"
    BY <1>1, <2>1, <2>2 DEF Arrive, Idle, RequestsOK
  <2> QED
    BY <1>1, <1>3, <1>4, <1>5, <2>1, <2>4, <2>5, <2>6, WalksKept, SameRefresh
    DEF Accept, Arrive, IInv
<1>6. ASSUME NEW r \in Requests, Handling(r)
      PROVE  IInv' /\ StoreStep
  <2>1. CASE Handle(r) /\ UNCHANGED <<refreshInFlight, refresh>>
    BY <1>1, <1>3, <1>4, <1>6, <2>1, HandleStep, HandleOutsideRefresh, WalksKept, SameRefresh
    DEF Handling, IInv, ServingStep
  <2>2. CASE JoinRefresh(r)
    <3> DEFINE q == [req[r] EXCEPT !.pc = "refreshing"]
    <3>1. req' = [req EXCEPT ![r] = q] /\ Admitted(r, req[r].now) /\ UNCHANGED <<sf, homes, clock>>
      BY <2>2 DEF JoinRefresh
    <3>2. GoodRequest(q) /\ req[r].now \in Nat
      BY <1>1, <2>2 DEF JoinRefresh, RequestsOK, GoodRequest, Request, RequestPcs, Serving
    <3>3. \A p \in Requests : req'[p].pc = "refreshing"
                               <=> p = r \/ req[p].pc = "refreshing"
      BY <1>1, <3>1 DEF RequestsOK, Request
    <3> HIDE DEF q
    <3>4. RequestsOK' /\ StoreStep
      BY <1>1, <3>1, <3>2, OneRequest, UnchangedStore DEF ServingStep
    <3>5. /\ WalksOK' /\ OneRefresh'
          /\ \A p \in Owners : Underway(refresh'[p]) <=> p = r
          /\ \A p \in Owners : ~Underway(refresh[p])
      BY <1>1, <3>1, <3>2, <3>4, AdmittedStep DEF Owners
    <3>6. RefreshOwned'
      BY <1>1, <3>3, <3>5 DEF RefreshOwned, Owners
    <3> QED
      BY <1>3, <1>4, <1>6, <3>1, <3>4, <3>5, <3>6 DEF Handling, IInv
  <2>3. CASE SkipRefresh(r)
    <3>1. /\ req' = [req EXCEPT ![r].pc = "begin"] /\ req[r].pc = "quota"
          /\ UNCHANGED <<sf, homes, clock, refreshInFlight, refresh>>
      BY <2>3 DEF SkipRefresh
    <3>2. RequestsOK' /\ StoreStep
      BY <1>1, <3>1, BegunGood, OneRequest, UnchangedStore DEF ServingStep
    <3>4. \A p \in Requests : req'[p].pc = "refreshing" <=> req[p].pc = "refreshing"
      BY <1>1, <3>1 DEF RequestsOK, Request
    <3> QED
      BY <1>1, <1>3, <1>4, <1>6, <3>1, <3>2, <3>4, WalksKept, SameRefresh DEF Handling, IInv
  <2> QED
    BY <1>6, <2>1, <2>2, <2>3 DEF Handling
<1>7. CASE StartWalk
  <2>1. PICK o \in MaintenanceLoops \cup StatusRequests : StartRefresh(o) \/ AskStatus(o)
    BY <1>7 DEF StartWalk
  <2>2. StoreStep /\ UNCHANGED <<homes, clock, req, admin>>
    BY <1>1, <1>2, <1>7, <2>1, ExpireCooldownsInPlace, InPlaceStep, UnchangedStore
    DEF StartRefresh, AskStatus, StartWalk, ServingStep
  <2>3. CASE StartRefresh(o)
    <3>1. /\ WalksOK' /\ OneRefresh'
          /\ \A p \in Owners : Underway(refresh'[p]) <=> p = o
          /\ \A p \in Owners : ~Underway(refresh[p])
      BY <1>1, <1>2, <2>2, <2>3, AdmittedStep DEF StartRefresh, Owners
    <3>2. RefreshOwned'
      BY <1>1, <2>2, <3>1, QuotaRefreshAssumption DEF RefreshOwned, Owners
    <3> QED
      BY <1>1, <1>3, <1>4, <2>2, <3>1, <3>2 DEF IInv, RequestsOK
  <2>4. CASE AskStatus(o)
    <3> DEFINE w == [Off EXCEPT !.pc = "asked", !.now = clock]
    <3>1. /\ refresh' = [refresh EXCEPT ![o] = w] /\ refreshInFlight' = refreshInFlight
          /\ ~Underway(refresh[o]) /\ o \in Owners
      BY <2>1, <2>4 DEF AskStatus, At, Underway, Owners
    <3>2. GoodWalk(w) /\ ~Underway(w)
      BY <1>1, <1>2, FreshWalk DEF Underway
    <3> HIDE DEF w
    <3> QED
      BY <1>1, <1>3, <1>4, <2>2, <3>1, <3>2, WalkGoesOn DEF IInv, RequestsOK
  <2> QED
    BY <2>1, <2>3, <2>4
<1>8. ASSUME NEW o \in Owners, Walking(o)
      PROVE  IInv' /\ StoreStep
  BY <1>1, <1>3, <1>4, <1>8, WalkStep DEF Walking, IInv, ServingStep
<1>9. CASE Configure
  <2>1. StoreStep /\ AdminsOK' /\ StoreOK'
    BY <1>1, <1>9, AdministerStep, ReloadStep DEF Configure
  <2> QED
    BY <1>1, <1>9, <2>1, WalksKept, SameRefresh DEF Configure, IInv, RequestsOK
<1>10. CASE PassTime
  <2>1. StoreStep /\ StoreOK'
    BY <1>1, <1>2, <1>10, UnchangedStore DEF PassTime, Tick, StoreOK, ServingStep
  <2> QED
    BY <1>1, <1>4, <1>10, <2>1, WalksKept, SameRefresh DEF PassTime, IInv, RequestsOK
<1>11. CASE UNCHANGED vars
  <2>1. StoreStep /\ StoreOK'
    BY <1>1, <1>3, <1>11, UnchangedStore DEF vars, ServingStep
  <2> QED
    BY <1>1, <1>4, <1>11, <2>1, WalksKept, SameRefresh DEF vars, IInv, RequestsOK
<1> QED
  BY <1>5, <1>6, <1>7, <1>8, <1>9, <1>10, <1>11 DEF Next

\* The invariant holds in every reachable state.
THEOREM Invariance == Spec => []IInv
<1>1. Init => IInv
  BY InitInvariant
<1>2. IInv /\ [Next]_vars => IInv'
  BY NextInvariant
<1> QED
  BY <1>1, <1>2, PTL DEF Spec

-----------------------------------------------------------------------------

\* Type correctness: no interleaving of handlers, walks and administrators
\* leaves a record with a value the code's types do not have; in particular
\* ActiveIndex is never below the list and no cooldown negative.
THEOREM TypeCorrect == Spec => []TypeOK
<1>1. IInv => TypeOK
  BY DEF IInv, StoreOK, RequestsOK, WalksOK, AdminsOK, TypeOK
<1> QED
  BY <1>1, Invariance, PTL

\* The store stays consistent: unique ids, an active index in the list, and no
\* account synchronized at a message that is yet to come.
THEOREM StoreStaysConsistent == Spec => []StoreConsistent
<1>1. IInv => StoreConsistent
  BY DEF IInv, StoreOK, StoreConsistent
<1> QED
  BY <1>1, Invariance, PTL

\* refreshInFlight admits one quota walk at a time, whoever starts it.
THEOREM AtMostOneRefresh == Spec => []OneRefresh
<1>1. IInv => OneRefresh
  BY DEF IInv
<1> QED
  BY <1>1, Invariance, PTL

-----------------------------------------------------------------------------

\* The pin named an account, or nobody, and still does: or account/pin has just
\* stored an id that the pool does not have any more.
PinNamed ==
  \/ PinnedKnown(sf)'
  \/ \E a \in Admins : /\ AdminStep(a, "pin") /\ admin[a].id \notin Known(sf)
                       /\ sf'.pinned = admin[a].id /\ admin'[a] # admin[a]

\* No step of a request or of a walk takes a pinned account away.
LEMMA PinServed ==
  ASSUME PinnedKnown(sf), ServingStep
  PROVE  PinNamed
BY DEF PinNamed, PinnedKnown, ServingStep

LEMMA PinAdministered ==
  ASSUME IInv, PinnedKnown(sf), NEW a \in Admins, Administer(a)
  PROVE  PinNamed
<1>1. /\ admin \in [Admins -> AdminState] /\ GoodAdmin(admin[a])
      /\ sf \in StoreFile /\ Consistent(sf)
  BY DEF IInv, AdminsOK, StoreOK
<1>2. CASE sf' = sf
  BY <1>2 DEF PinNamed, PinnedKnown
<1>3. CASE ForgetAccount(a)
  BY <1>1, <1>3, RemoveConsistent DEF ForgetAccount, PinNamed, PinnedKnown
<1>4. CASE StorePin(a)
  <2>1. sf'.pinned = admin[a].id /\ sf'.accounts = sf.accounts
    BY <1>1, <1>4 DEF StorePin, StoreFile
  <2>2. admin'[a].pc = "idle" /\ admin[a].pc = "pin"
    BY <1>1, <1>4 DEF StorePin, AdminDone, AdminStep, AdminIdle
  <2> QED
    BY <2>1, <2>2 DEF PinNamed, PinnedKnown, Known, AdminStep
<1>5. CASE Unpin(a)
  BY <1>1, <1>5 DEF Unpin, PinNamed, PinnedKnown, StoreFile
<1>6. CASE Register(a)
  <2>1. admin[a].id \in AccountIds /\ admin[a].identity \in Identities
    BY <1>1, <1>6 DEF Register, AdminStep, GoodAdmin
  <2> QED
    BY <1>1, <1>6, <2>1, UpsertConsistent DEF Register, PinNamed, PinnedKnown
<1> QED
  BY <1>2, <1>3, <1>4, <1>5, <1>6
  DEF Administer, RemoveHome, LookUpPin, TruncateAuth, WriteAuth, ReadBack

LEMMA StepPin ==
  ASSUME IInv, PinnedKnown(sf), [Next]_vars
  PROVE  PinNamed
<1>1. StoreOK /\ RequestsOK /\ WalksOK /\ OneRefresh /\ RefreshOwned
      /\ sf \in StoreFile /\ Consistent(sf) /\ sf.messages \in Nat
  BY StoreMessages DEF IInv, StoreOK
<1>2. CASE sf' = sf \/ sf' = ExpireCooldowns(sf, clock)
  BY <1>1, <1>2, UnchangedStore, ExpireCooldownsInPlace, InPlaceStep, PinServed
<1>3. CASE Accept \/ StartWalk \/ PassTime \/ UNCHANGED vars
  BY <1>2, <1>3
  DEF Accept, Arrive, StartWalk, StartRefresh, AskStatus, PassTime, Tick, vars
<1>4. ASSUME NEW r \in Requests, Handling(r)
      PROVE  PinNamed
  BY <1>1, <1>2, <1>4, HandleStep, PinServed DEF Handling, JoinRefresh, SkipRefresh
<1>5. ASSUME NEW o \in Owners, Walking(o)
      PROVE  PinNamed
  BY <1>1, <1>5, WalkStep, PinServed DEF Walking
<1>6. CASE Configure
  <2>1. CASE ReloadSettings
    <3>1. sf'.accounts = sf.accounts /\ sf'.pinned = sf.pinned
      BY <1>1, <2>1 DEF ReloadSettings, StoreFile
    <3> QED
      BY <3>1 DEF PinNamed, PinnedKnown, Known
  <2> QED
    BY <1>6, <2>1, PinAdministered DEF Configure
<1> QED
  BY <1>3, <1>4, <1>5, <1>6 DEF Next

\* However many administrators work at the same time, the pin comes to name
\* nobody in one way: account/pin stores an id that was removed after it was
\* looked up.  Removals take the pin along, and requests, walks and reloads
\* take no account away.
THEOREM PinLostOnlyByPinning == Spec => PinLost
<1> DEFINE Lost ==
             PinnedKnown(sf) /\ ~PinnedKnown(sf')
             => \E a \in Admins : /\ AdminStep(a, "pin") /\ admin[a].id \notin Known(sf)
                                  /\ sf'.pinned = admin[a].id /\ admin'[a] # admin[a]
<1>1. IInv /\ [Next]_vars => [Lost]_vars
  BY StepPin DEF PinNamed
<1>2. Spec => [][Lost]_vars
  BY <1>1, Invariance, PTL DEF Spec
<1> QED
  BY <1>2 DEF PinLost

-----------------------------------------------------------------------------
(***************************************************************************)
(* What a step does to the history of an account: the cooldown it is in,   *)
(* the message it was synchronized at, whether it is in service, and the   *)
(* pin on it.                                                              *)
(***************************************************************************)

\* A walk that has fetched the usage of an account and is about to record it.
Recording(o) == refresh[o].pc \in {"fetch", "refetch"}

SyncStep(a, b) ==
  \/ b.syncMessages = a.syncMessages
  \/ \E o \in Owners : Recording(o) /\ b.syncMessages = refresh[o].messages

CooldownStep(a, b) ==
  \/ a.cooldown <= clock
  \/ b.cooldown = a.cooldown
  \/ \E r \in Requests : Waiting(r) /\ req[r].acct = a.id /\ req'[r] # req[r]

ServiceStep(a, b) ==
  \/ a.enabled
  \/ ~b.enabled
  \/ \E r \in Requests : Vouching(r) /\ req[r].acct = a.id /\ req'[r] # req[r]
  \/ \E o \in Owners : Visiting(o) /\ Current(o).id = a.id /\ refresh'[o] # refresh[o]
  \/ \E p \in Admins : /\ AdminStep(p, "upsert") /\ admin[p].id = a.id
                       /\ admin'[p] # admin[p]

\* Every account after a step is one from before it, with its history, or is
\* new and has none.
HistoryStep ==
  \A j \in DOMAIN sf'.accounts :
    \/ \E i \in DOMAIN sf.accounts : /\ sf'.accounts[j].id = sf.accounts[i].id
                                     /\ SyncStep(sf.accounts[i], sf'.accounts[j])
                                     /\ CooldownStep(sf.accounts[i], sf'.accounts[j])
                                     /\ ServiceStep(sf.accounts[i], sf'.accounts[j])
    \/ sf'.accounts[j].id \notin Known(sf) /\ sf'.accounts[j].syncMessages = 0

PinStep ==
  \/ sf.pinned \in {NoAccount, sf'.pinned}
  \/ sf'.accounts = sf.accounts
  \/ sf.pinned \notin Known(sf')
  \/ \E i \in DOMAIN sf'.accounts : /\ sf'.accounts[i].id = sf.pinned
                                    /\ sf'.accounts[i].reason \notin {None, "http-403"}

\* A step that leaves the accounts alone.
LEMMA SameAccounts ==
  ASSUME sf'.accounts = sf.accounts
  PROVE  HistoryStep /\ PinStep
BY DEF HistoryStep, PinStep, SyncStep, CooldownStep, ServiceStep

\* An update in place keeps histories if it keeps each account's.
LEMMA InPlaceHistory ==
  ASSUME DOMAIN sf'.accounts = DOMAIN sf.accounts,
         \A i \in DOMAIN sf.accounts : /\ sf'.accounts[i].id = sf.accounts[i].id
                                       /\ SyncStep(sf.accounts[i], sf'.accounts[i])
                                       /\ CooldownStep(sf.accounts[i], sf'.accounts[i])
                                       /\ ServiceStep(sf.accounts[i], sf'.accounts[i])
  PROVE  HistoryStep
BY DEF HistoryStep

\* An account that is disabled keeps its cooldown and its bookkeeping; the pin
\* goes only with the credentials.
LEMMA DisabledHistory ==
  ASSUME StoreOK, NEW id, NEW reason \in DisabledReasons, sf' = MarkDisabled(sf, id, reason)
  PROVE  HistoryStep /\ PinStep
<1>1. sf \in StoreFile
  BY DEF StoreOK
<1>2. CASE Indexes(sf, id) = {}
  BY <1>2, SameAccounts DEF MarkDisabled
<1>3. CASE Indexes(sf, id) # {}
  <2>1. PICK k \in DOMAIN sf.accounts : sf.accounts[k].id = id
    BY <1>3 DEF Indexes
  <2>2. DOMAIN sf'.accounts = DOMAIN sf.accounts
    BY <1>1, <2>1, DisabledAccount
  <2>3. \A i \in DOMAIN sf.accounts : /\ sf'.accounts[i].id = sf.accounts[i].id
                                      /\ sf'.accounts[i].syncMessages = sf.accounts[i].syncMessages
                                      /\ sf'.accounts[i].cooldown = sf.accounts[i].cooldown
                                      /\ sf'.accounts[i].enabled => sf.accounts[i].enabled
    BY <1>1, DisabledAccount
  <2>4. HistoryStep
    BY <2>2, <2>3, InPlaceHistory DEF SyncStep, CooldownStep, ServiceStep
  <2>5. sf'.accounts[k].id = id /\ sf'.accounts[k].reason = reason
    BY <1>1, <2>1, DisabledAccount
  <2>6. sf'.pinned = IF ClearsPin(reason) /\ sf.pinned = id THEN NoAccount ELSE sf.pinned
    BY <1>1, <1>3 DEF MarkDisabled, UpdateAccount, StoreFile
  <2>7. PinStep
    BY <2>1, <2>2, <2>5, <2>6 DEF PinStep, ClearsPin, None
  <2> QED
    BY <2>4, <2>7
<1> QED
  BY <1>2, <1>3

\* An account that recovers is one somebody deals with.
LEMMA RecoveredHistory ==
  ASSUME StoreOK, NEW id, NEW identity \in Identities, sf' = MarkAuthRecovered(sf, id, identity),
         \A a, b : a.id = id => ServiceStep(a, b)
  PROVE  HistoryStep /\ PinStep
<1>1. sf \in StoreFile /\ Consistent(sf)
  BY DEF StoreOK
<1>2. sf'.pinned = sf.pinned
  BY <1>1, MarkAuthRecoveredInPlace
<1>3. DOMAIN sf'.accounts = DOMAIN sf.accounts
  BY <1>1 DEF MarkAuthRecovered, UpdateAccount, StoreFile
<1>4. \A i \in DOMAIN sf.accounts : /\ sf'.accounts[i].id = sf.accounts[i].id
                                    /\ sf'.accounts[i].syncMessages = sf.accounts[i].syncMessages
                                    /\ sf'.accounts[i].cooldown = sf.accounts[i].cooldown
                                    /\ sf.accounts[i].id # id => sf'.accounts[i] = sf.accounts[i]
  BY <1>1, RecoveredAccount
<1>5. \A i \in DOMAIN sf.accounts : ServiceStep(sf.accounts[i], sf'.accounts[i])
  <2>1. \A a : ServiceStep(a, a)
    BY DEF ServiceStep
  <2> QED
    BY <1>4, <2>1
<1> QED
  BY <1>2, <1>3, <1>4, <1>5, InPlaceHistory DEF SyncStep, CooldownStep, PinStep

LEMMA ExpiredHistory ==
  ASSUME StoreOK, sf' = ExpireCooldowns(sf, clock)
  PROVE  HistoryStep /\ PinStep
<1>1. sf \in StoreFile /\ Consistent(sf)
  BY DEF StoreOK
<1>2. sf'.pinned = sf.pinned
  BY <1>1, ExpireCooldownsInPlace
<1>3. DOMAIN sf'.accounts = DOMAIN sf.accounts
  BY <1>1 DEF ExpireCooldowns, StoreFile
<1>4. \A i \in DOMAIN sf.accounts :
        /\ sf'.accounts[i].id = sf.accounts[i].id
        /\ sf'.accounts[i].syncMessages = sf.accounts[i].syncMessages
        /\ \/ sf.accounts[i].cooldown <= clock
           \/ sf'.accounts[i].cooldown = sf.accounts[i].cooldown
        /\ sf'.accounts[i].enabled => sf.accounts[i].enabled
  BY <1>1, ExpiredAccount
<1> QED
  BY <1>2, <1>3, <1>4, InPlaceHistory DEF SyncStep, CooldownStep, ServiceStep, PinStep

\* A request that waits for an answer deals with its account.
LEMMA WaitingVouches == \A r \in Requests : Waiting(r) => Vouching(r)
BY DEF Waiting, Vouching

\* The cooldown of the account a request waits for is the request's to change.
LEMMA CooledHistory ==
  ASSUME StoreOK, NEW r \in Requests, Waiting(r), req'[r] # req[r], NEW seconds \in Int,
         sf' = MarkCooldown(sf, req[r].acct, clock, seconds)
  PROVE  HistoryStep /\ PinStep
<1>1. sf \in StoreFile /\ Consistent(sf) /\ clock \in Nat
  BY DEF StoreOK
<1>2. sf'.pinned = sf.pinned
  BY <1>1, MarkCooldownInPlace
<1>3. DOMAIN sf'.accounts = DOMAIN sf.accounts
  BY <1>1 DEF MarkCooldown, UpdateAccount, StoreFile
<1>4. \A i \in DOMAIN sf.accounts :
        /\ sf'.accounts[i].id = sf.accounts[i].id
        /\ sf'.accounts[i].syncMessages = sf.accounts[i].syncMessages
        /\ sf.accounts[i].id # req[r].acct => sf'.accounts[i] = sf.accounts[i]
  BY <1>1, CooledAccount
<1>5. \A i \in DOMAIN sf.accounts : /\ CooldownStep(sf.accounts[i], sf'.accounts[i])
                                    /\ ServiceStep(sf.accounts[i], sf'.accounts[i])
  BY <1>4, WaitingVouches DEF CooldownStep, ServiceStep
<1> QED
  BY <1>2, <1>3, <1>4, <1>5, InPlaceHistory DEF SyncStep, PinStep

LEMMA ServedHistory ==
  ASSUME StoreOK, NEW r \in Requests, Waiting(r), req'[r] # req[r], NEW counts \in BOOLEAN,
         sf' = MarkSuccess(sf, req[r].acct, counts)
  PROVE  HistoryStep /\ PinStep
<1>1. sf \in StoreFile /\ Consistent(sf)
  BY DEF StoreOK
<1>2. sf'.pinned = sf.pinned
  BY <1>1, MarkSuccessInPlace
<1>3. DOMAIN sf'.accounts = DOMAIN sf.accounts
  BY <1>1 DEF MarkSuccess, UpdateAccount, StoreFile
<1>4. \A i \in DOMAIN sf.accounts :
        /\ sf'.accounts[i].id = sf.accounts[i].id
        /\ sf'.accounts[i].syncMessages = sf.accounts[i].syncMessages
        /\ sf.accounts[i].id # req[r].acct => sf'.accounts[i] = sf.accounts[i]
  BY <1>1, ServedAccount
<1>5. \A i \in DOMAIN sf.accounts : /\ CooldownStep(sf.accounts[i], sf'.accounts[i])
                                    /\ ServiceStep(sf.accounts[i], sf'.accounts[i])
  BY <1>4, WaitingVouches DEF CooldownStep, ServiceStep
<1> QED
  BY <1>2, <1>3, <1>4, <1>5, InPlaceHistory DEF SyncStep, PinStep

LEMMA RecordedHistory ==
  ASSUME StoreOK, WalksOK, NEW o \in Owners, Recording(o), NEW quota \in Quotas, NEW id,
         sf' = RecordQuota(sf, id, refresh[o].identity, quota, refresh[o].now,
                           refresh[o].messages),
         \A a, b : a.id = id => ServiceStep(a, b)
  PROVE  HistoryStep /\ PinStep
<1>1. sf \in StoreFile /\ Consistent(sf)
  BY DEF StoreOK
<1>2. sf'.pinned = sf.pinned
  BY <1>1 DEF RecordQuota, UpdateAccount, StoreFile
<1>3. DOMAIN sf'.accounts = DOMAIN sf.accounts
  BY <1>1 DEF RecordQuota, UpdateAccount, StoreFile
<1>4. \A i \in DOMAIN sf.accounts :
        /\ sf'.accounts[i].id = sf.accounts[i].id
        /\ sf'.accounts[i].cooldown = sf.accounts[i].cooldown
        /\ sf'.accounts[i].syncMessages \in {sf.accounts[i].syncMessages, refresh[o].messages}
        /\ sf.accounts[i].id # id => sf'.accounts[i] = sf.accounts[i]
  BY <1>1, RecordedAccount
<1>5. \A i \in DOMAIN sf.accounts : ServiceStep(sf.accounts[i], sf'.accounts[i])
  <2>1. \A a : ServiceStep(a, a)
    BY DEF ServiceStep
  <2> QED
    BY <1>4, <2>1
<1> QED
  BY <1>2, <1>3, <1>4, <1>5, InPlaceHistory DEF SyncStep, CooldownStep, PinStep

-----------------------------------------------------------------------------

\* A handler changes histories only by the answer it was waiting for.
LEMMA HandleHistory ==
  ASSUME StoreOK, RequestsOK, NEW r \in Requests, Handle(r)
  PROVE  HistoryStep /\ PinStep
<1> DEFINE acct == req[r].acct
<1>1. req[r] \in Request /\ GoodRequest(req[r]) /\ req \in [Requests -> Request]
  BY DEF RequestsOK
<1>2. CASE sf' = sf
  BY <1>2, SameAccounts
<1>3. CASE DisableMissing(r)
  BY <1>3, DisabledHistory DEF DisableMissing, DisabledReasons
<1>4. CASE AdoptIdentity(r)
  <2>1. Vouching(r) /\ req'[r] # req[r]
    BY <1>1, <1>4 DEF AdoptIdentity, Prepared, Vouching, Request
  <2>2. \A a, b : a.id = acct => ServiceStep(a, b)
    BY <2>1 DEF ServiceStep
  <2> QED
    BY <1>1, <1>4, <2>2, RecoveredHistory DEF AdoptIdentity, GoodRequest
<1>5. CASE Renew(r)
  <2>1. homes[acct] \in Identities
    BY <1>1, <1>5 DEF Renew, GoodRequest, Serving, StoreOK
  <2>2. \A response : Finished(r, response).pc = "done"
    BY DEF Finished, Idle
  <2>3. Vouching(r) /\ req'[r] # req[r]
    BY <1>1, <1>5, <2>2 DEF Renew, Finish, Vouching, Request
  <2>4. \A a, b : a.id = acct => ServiceStep(a, b)
    BY <2>3 DEF ServiceStep
  <2> QED
    BY <1>5, <2>1, <2>4, RecoveredHistory DEF Renew
<1>6. CASE RenewFails(r) \/ RejectAgain(r)
  <2>1. \A answer, flag : DisabledReason(answer, flag) \in DisabledReasons
    BY DEF DisabledReason, DisabledReasons
  <2>2. \E answer, flag : sf' = MarkDisabled(sf, acct, DisabledReason(answer, flag))
    BY <1>6 DEF RenewFails, RejectAgain
  <2> QED
    BY <2>1, <2>2, DisabledHistory
<1>7. ASSUME Deliver(r) \/ BackOff(r) \/ UsageLimit(r) \/ TransportError(r) \/ WebsocketError(r)
      PROVE  Waiting(r) /\ req'[r] # req[r]
  <2>1. Waiting(r)
    BY <1>7 DEF Deliver, BackOff, UsageLimit, TransportError, WebsocketError, Waiting
  <2>2. \A response : Finished(r, response).pc = "done"
    BY DEF Finished, Idle
  <2>3. \A last : NextAttempt(r, last).pc \in {"pick", "done"}
    BY <1>1, <2>2 DEF NextAttempt, Request
  <2>4. req'[r].pc \in {"done", "pick", "reauth"}
    BY <1>1, <1>7, <2>2, <2>3
    DEF Deliver, BackOff, UsageLimit, TransportError, WebsocketError, Finish, Retry, Request
  <2> QED
    BY <2>1, <2>4 DEF Waiting
<1>8. CASE Deliver(r)
  <2>1. \/ sf' = sf
        \/ sf' = MarkSuccess(sf, acct, req[r].kind = "post")
    BY <1>8 DEF Deliver
  <2>2. (req[r].kind = "post") \in BOOLEAN
    OBVIOUS
  <2> QED
    BY <1>2, <1>7, <1>8, <2>1, <2>2, ServedHistory
<1>9. CASE BackOff(r)
  <2>1. PICK answer \in UpstreamAnswers, retryAfter \in RetryAfters :
          sf' = MarkCooldown(sf, acct, clock, BackoffSeconds(answer, retryAfter))
    BY <1>9 DEF BackOff
  <2>2. BackoffSeconds(answer, retryAfter) \in Int
    BY RequestHandlerAssumption DEF BackoffSeconds
  <2> QED
    BY <1>7, <1>9, <2>1, <2>2, CooledHistory
<1>10. CASE UsageLimit(r)
  <2>1. PICK retryAfter \in RetryAfters :
          sf' = MarkCooldown(sf, acct, clock, Larger(req[r].backoff, retryAfter))
    BY <1>10 DEF UsageLimit
  <2>2. Larger(req[r].backoff, retryAfter) \in Int
    BY <1>1, RequestHandlerAssumption DEF Larger, Request
  <2> QED
    BY <1>7, <1>10, <2>1, <2>2, CooledHistory
<1>11. CASE TransportError(r)
  BY <1>1, <1>7, <1>11, CooledHistory DEF TransportError, Request
<1>12. CASE WebsocketError(r)
  BY <1>7, <1>12, CooledHistory DEF WebsocketError
<1>13. CASE \/ Begin(r) \/ BodyUnreadable(r) \/ Pick(r) \/ LoadAuth(r) \/ Reject(r)
            \/ Unsendable(r) \/ Canceled(r) \/ Return(r)
  BY <1>2, <1>13 DEF Begin, BodyUnreadable, Pick, LoadAuth, Reject, Unsendable, Canceled, Return
<1> QED
  BY <1>3, <1>4, <1>5, <1>6, <1>8, <1>9, <1>10, <1>11, <1>12, <1>13 DEF Handle

\* A walk changes no cooldown, and synchronizes at its own message count only.
LEMMA WalkHistory ==
  ASSUME StoreOK, WalksOK, NEW o \in Owners, Walk(o)
  PROVE  HistoryStep /\ PinStep
<1>1. refresh[o] \in Refresh /\ GoodWalk(refresh[o])
  BY DEF WalksOK
<1>2. CASE RefreshMissing(o)
  BY <1>2, DisabledHistory DEF RefreshMissing, DisabledReasons
<1>3. CASE RefreshRenew(o)
  <2>4. Visiting(o) /\ refresh'[o] # refresh[o]
    BY <1>1, <1>3 DEF RefreshRenew, At, Visiting, WalksOK, Refresh
  <2>5. \A a, b : a.id = Current(o).id => ServiceStep(a, b)
    BY <2>4 DEF ServiceStep
  <2>1. refresh[o].todo # << >>
    BY <1>1, <1>3 DEF RefreshRenew, At, GoodWalk
  <2>2. Current(o).id \in AccountIds
    <3>1. refresh[o].todo \in Seq(Entry)
      BY <1>1 DEF Refresh
    <3>2. Head(refresh[o].todo) \in Entry
      BY <2>1, <3>1
    <3> QED
      BY <3>2 DEF Current, Entry
  <2>3. homes[Current(o).id] \in Identities
    BY <1>3, <2>2 DEF RefreshRenew, StoreOK
  <2> QED
    BY <1>3, <2>3, <2>5, RecoveredHistory DEF RefreshRenew
<1>4. CASE RefreshRecord(o)
  <2>1. Visiting(o) /\ refresh'[o] # refresh[o]
    BY <1>1, <1>4 DEF RefreshRecord, At, NextEntry, Visiting, WalksOK, Refresh
  <2>2. \A a, b : a.id = Current(o).id => ServiceStep(a, b)
    BY <2>1 DEF ServiceStep
  <2> QED
    BY <1>4, <2>2, RecordedHistory DEF RefreshRecord, At, Recording
<1>5. CASE sf' = sf
  BY <1>5, SameAccounts
<1> QED
  BY <1>2, <1>3, <1>4, <1>5
  DEF Walk, StatusRefresh, TakeSnapshot, RefreshSkip, RefreshLoad, RefreshRejected,
      RefreshError, EndRefresh

\* An administrator removes accounts, adds new ones, and renews the identity
\* of others; none of it touches the history of those that stay.
LEMMA AdministerHistory ==
  ASSUME StoreOK, AdminsOK, NEW a \in Admins, Administer(a)
  PROVE  HistoryStep /\ PinStep
<1>1. sf \in StoreFile /\ Consistent(sf) /\ GoodAdmin(admin[a])
  BY DEF StoreOK, AdminsOK
<1>2. CASE ForgetAccount(a)
  <2> DEFINE id == admin[a].id
  <2>1. sf' = RemoveAccount(sf, id)
    BY <1>2 DEF ForgetAccount
  <2>2. HistoryStep
    BY <2>1, <1>1, LeftAccounts DEF HistoryStep, SyncStep, CooldownStep, ServiceStep
  <2>3. PinStep
    BY <1>1, <2>1, RemoveConsistent DEF PinStep
  <2> QED
    BY <2>2, <2>3
<1>3. CASE Register(a)
  <2> DEFINE id == admin[a].id
             identity == admin[a].identity
  <2>1. sf' = UpsertAccount(sf, id, identity) /\ id \in AccountIds /\ identity \in Identities
    BY <1>1, <1>3 DEF Register, AdminStep, GoodAdmin
  <2>4. \A p, q : p.id = id => ServiceStep(p, q)
    <3>1. AdminStep(a, "upsert") /\ admin'[a] # admin[a]
      BY <1>3 DEF Register, AdminStep, AdminDone, AdminIdle, AdminsOK
    <3> QED
      BY <3>1 DEF ServiceStep
  <2>5. \A p : ServiceStep(p, p)
    BY DEF ServiceStep
  <2> HIDE DEF id, identity
  <2>2. HistoryStep
    BY <2>1, <2>4, <2>5, <1>1, RegisteredAccount DEF HistoryStep, SyncStep, CooldownStep
  <2>3. PinStep
    BY <1>1, <2>1, UpsertConsistent DEF PinStep
  <2> QED
    BY <2>2, <2>3
<1>4. CASE StorePin(a) \/ Unpin(a)
  <2>1. sf'.accounts = sf.accounts
    BY <1>1, <1>4 DEF StorePin, Unpin, StoreFile
  <2> QED
    BY <2>1, SameAccounts
<1>5. CASE sf' = sf
  BY <1>5, SameAccounts
<1> QED
  BY <1>2, <1>3, <1>4, <1>5
  DEF Administer, RemoveHome, LookUpPin, TruncateAuth, WriteAuth, ReadBack

\* Every step of the process, or none.
LEMMA StepHistory ==
  ASSUME IInv, [Next]_vars
  PROVE  HistoryStep /\ PinStep
<1>1. StoreOK /\ RequestsOK /\ WalksOK /\ AdminsOK /\ sf \in StoreFile
  BY DEF IInv, StoreOK
<1>2. CASE sf' = sf \/ sf' = ExpireCooldowns(sf, clock)
  BY <1>1, <1>2, SameAccounts, ExpiredHistory
<1>3. CASE Accept \/ StartWalk \/ PassTime \/ UNCHANGED vars
  BY <1>2, <1>3 DEF Accept, Arrive, StartWalk, StartRefresh, AskStatus, PassTime, Tick, vars
<1>4. ASSUME NEW r \in Requests, Handling(r)
      PROVE  HistoryStep /\ PinStep
  BY <1>1, <1>2, <1>4, HandleHistory DEF Handling, JoinRefresh, SkipRefresh
<1>5. ASSUME NEW o \in Owners, Walking(o)
      PROVE  HistoryStep /\ PinStep
  BY <1>1, <1>5, WalkHistory DEF Walking
<1>6. CASE Configure
  <2>1. CASE ReloadSettings
    <3>1. sf'.accounts = sf.accounts
      BY <1>1, <2>1 DEF ReloadSettings, StoreFile
    <3> QED
      BY <3>1, SameAccounts
  <2> QED
    BY <1>1, <1>6, <2>1, AdministerHistory DEF Configure
<1> QED
  BY <1>3, <1>4, <1>5, <1>6 DEF Next

\* An account before a step, and the same one after it.
LEMMA SurvivorHistory ==
  ASSUME IInv, [Next]_vars, NEW id \in Surviving
  PROVE  /\ AccountOf(sf, id) \in Account /\ AccountOf(sf', id) \in Account
         /\ \E i \in DOMAIN sf.accounts : AccountOf(sf, id) = sf.accounts[i]
         /\ AccountOf(sf, id).id = id
         /\ SyncStep(AccountOf(sf, id), AccountOf(sf', id))
         /\ CooldownStep(AccountOf(sf, id), AccountOf(sf', id))
         /\ ServiceStep(AccountOf(sf, id), AccountOf(sf', id))
<1>1. sf \in StoreFile /\ Consistent(sf) /\ sf' \in StoreFile /\ Consistent(sf')
  BY NextInvariant DEF IInv, StoreOK
<1>2. PICK i \in DOMAIN sf.accounts : sf.accounts[i].id = id
  BY DEF Surviving, Known
<1>3. PICK j \in DOMAIN sf'.accounts : sf'.accounts[j].id = id
  BY DEF Surviving, Known
<1>4. AccountOf(sf, id) = sf.accounts[i] /\ AccountOf(sf', id) = sf'.accounts[j]
  BY <1>1, <1>2, <1>3, FoundAt DEF AccountOf
<1>5. sf.accounts[i] \in Account /\ sf'.accounts[j] \in Account
  BY <1>1, <1>2, <1>3, AccountsOfStore
<1>6. \A k \in DOMAIN sf.accounts : sf.accounts[k].id = id => k = i
  BY <1>1, <1>2 DEF Consistent, UniqueIds
<1>7. HistoryStep
  BY StepHistory
<1>8. /\ SyncStep(sf.accounts[i], sf'.accounts[j]) /\ CooldownStep(sf.accounts[i], sf'.accounts[j])
      /\ ServiceStep(sf.accounts[i], sf'.accounts[j])
  BY <1>2, <1>3, <1>6, <1>7 DEF HistoryStep, Surviving
<1> QED
  BY <1>2, <1>4, <1>5, <1>8

\* A cooldown that is running is cut short by the answer to a request that was
\* sent to the account, and by nothing else: neither the quota walk nor the
\* administrator writes an old one back.
THEOREM CooldownsHonoured == Spec => CooldownHonoured
<1> DEFINE Honoured ==
             \A id \in Surviving :
               \/ AccountOf(sf, id).cooldown <= clock
               \/ AccountOf(sf', id).cooldown >= AccountOf(sf, id).cooldown
               \/ \E r \in Requests : Waiting(r) /\ req[r].acct = id /\ req'[r] # req[r]
<1>1. IInv /\ [Next]_vars => [Honoured]_vars
  <2> SUFFICES ASSUME IInv, [Next]_vars, NEW id \in Surviving
               PROVE  \/ AccountOf(sf, id).cooldown <= clock
                      \/ AccountOf(sf', id).cooldown >= AccountOf(sf, id).cooldown
                      \/ \E r \in Requests : /\ Waiting(r) /\ req[r].acct = id
                                             /\ req'[r] # req[r]
    OBVIOUS
  <2>1. AccountOf(sf, id).id = id /\ AccountOf(sf, id).cooldown \in Nat
    BY SurvivorHistory DEF Account
  <2>2. CooldownStep(AccountOf(sf, id), AccountOf(sf', id))
    BY SurvivorHistory
  <2> QED
    BY <2>1, <2>2 DEF CooldownStep
<1>2. Spec => [][Honoured]_vars
  BY <1>1, Invariance, PTL DEF Spec
<1> QED
  BY <1>2 DEF CooldownHonoured

\* An account out of service comes back by somebody who deals with it: a late
\* write-back of the walk, a request's success and a removal that shifts the
\* list all find the account they mean, whatever happened to the list since.
THEOREM ServiceRestored == Spec => ReturnsToService
<1> DEFINE Returns ==
             \A id \in Surviving :
               \/ AccountOf(sf, id).enabled
               \/ ~AccountOf(sf', id).enabled
               \/ \E r \in Requests : Vouching(r) /\ req[r].acct = id /\ req'[r] # req[r]
               \/ \E o \in Owners : Visiting(o) /\ Current(o).id = id /\ refresh'[o] # refresh[o]
               \/ \E a \in Admins : /\ AdminStep(a, "upsert") /\ admin[a].id = id
                                    /\ admin'[a] # admin[a]
<1>1. IInv /\ [Next]_vars => [Returns]_vars
  <2>1. ASSUME IInv, [Next]_vars, NEW id \in Surviving
        PROVE  /\ AccountOf(sf, id).id = id
               /\ ServiceStep(AccountOf(sf, id), AccountOf(sf', id))
    BY <2>1, SurvivorHistory
  <2> QED
    BY <2>1 DEF ServiceStep
<1>2. Spec => [][Returns]_vars
  BY <1>1, Invariance, PTL DEF Spec
<1> QED
  BY <1>2 DEF ReturnsToService

\* The pin is lost only to the operator, to a removal, or with the credentials
\* of the account: MarkDisabled drops it for a reason other than a 403, and no
\* other update touches it.
THEOREM PinIsKept == Spec => PinKept
<1> DEFINE Kept ==
             sf.pinned \notin {NoAccount, sf'.pinned}
             => \/ sf'.accounts = sf.accounts
                \/ sf.pinned \notin Known(sf')
                \/ AccountOf(sf', sf.pinned).reason \notin {None, "http-403"}
<1>1. IInv /\ [Next]_vars => [Kept]_vars
  <2> SUFFICES ASSUME IInv, [Next]_vars, sf.pinned \notin {NoAccount, sf'.pinned},
                      sf'.accounts # sf.accounts, sf.pinned \in Known(sf')
               PROVE  AccountOf(sf', sf.pinned).reason \notin {None, "http-403"}
    OBVIOUS
  <2>1. sf' \in StoreFile /\ Consistent(sf')
    BY NextInvariant DEF IInv, StoreOK
  <2>2. PinStep
    BY StepHistory
  <2>3. PICK i \in DOMAIN sf'.accounts : /\ sf'.accounts[i].id = sf.pinned
                                         /\ sf'.accounts[i].reason \notin {None, "http-403"}
    BY <2>2 DEF PinStep
  <2> QED
    BY <2>1, <2>3, FoundAt DEF AccountOf
<1>2. Spec => [][Kept]_vars
  BY <1>1, Invariance, PTL DEF Spec
<1> QED
  BY <1>2 DEF PinKept

-----------------------------------------------------------------------------
(***************************************************************************)
(* The message counts of walks.                                            *)
(***************************************************************************)

\* A walk that has taken its snapshot.
Counting(o) == refresh[o].pc \notin {"off", "asked", "snapshot"}

\* A walk's message count is not behind that of any account: the snapshot was
\* not, and nobody else has recorded one since.
WalksAhead ==
  \A o \in Owners : Counting(o) =>
    \A i \in DOMAIN sf.accounts : sf.accounts[i].syncMessages <= refresh[o].messages

\* A walk that visits accounts was doing so before, with the same message
\* count, or takes its snapshot now.
VisitStep(o) ==
  \/ Counting(o) /\ refresh'[o].messages = refresh[o].messages
  \/ sf' = sf /\ refresh'[o].messages = sf.messages

LEMMA VisitsKept ==
  ASSUME WalksOK, NEW o \in Owners, NEW w, refresh' = [refresh EXCEPT ![o] = w],
         w.pc \in {"off", "asked", "snapshot"} \/ VisitStep(o)
  PROVE  \A p \in Owners : Counting(p)' => VisitStep(p)
<1>1. \A p \in Owners : refresh'[p] = IF p = o THEN w ELSE refresh[p]
  BY DEF WalksOK
<1> QED
  BY <1>1 DEF Counting, VisitStep

LEMMA WalkVisits ==
  ASSUME WalksOK, NEW o \in Owners, Walk(o)
  PROVE  \A p \in Owners : Counting(p)' => VisitStep(p)
<1>1. refresh[o] \in Refresh /\ refresh \in [Owners -> Refresh]
  BY DEF WalksOK
<1>2. ASSUME Counting(o), NEW w, refresh' = [refresh EXCEPT ![o] = w],
             w.messages = refresh[o].messages
      PROVE  \A p \in Owners : Counting(p)' => VisitStep(p)
  <2>1. VisitStep(o)
    BY <1>1, <1>2 DEF VisitStep
  <2> QED
    BY <1>2, <2>1, VisitsKept
<1>3. ASSUME Counting(o), NextEntry(o)
      PROVE  \A p \in Owners : Counting(p)' => VisitStep(p)
  <2>1. refresh' = [refresh EXCEPT ![o] = Advanced(o)]
    BY <1>3 DEF NextEntry, Advanced
  <2>2. Advanced(o).messages = refresh[o].messages
    BY <1>1 DEF Advanced, Refresh
  <2> QED
    BY <1>2, <1>3, <2>1, <2>2
<1>4. ASSUME Counting(o), NEW pc, GoTo(o, pc)
      PROVE  \A p \in Owners : Counting(p)' => VisitStep(p)
  <2>1. refresh' = [refresh EXCEPT ![o] = [refresh[o] EXCEPT !.pc = pc]]
    BY <1>4 DEF GoTo
  <2>2. [refresh[o] EXCEPT !.pc = pc].messages = refresh[o].messages
    BY <1>1 DEF Refresh
  <2> QED
    BY <1>2, <1>4, <2>1, <2>2
<1>5. CASE RefreshSkip(o) \/ RefreshMissing(o) \/ RefreshRecord(o) \/ RefreshError(o)
  BY <1>3, <1>5 DEF RefreshSkip, RefreshMissing, RefreshRecord, RefreshError, At, Counting
<1>6. CASE RefreshRejected(o)
  BY <1>4, <1>6 DEF RefreshRejected, At, Counting
<1>7. CASE RefreshLoad(o)
  <2> DEFINE w == [refresh[o] EXCEPT !.identity = homes[Current(o).id],
                     !.pc = IF Current(o).reason = "http-401" THEN "preauth" ELSE "fetch"]
  <2>1. Counting(o)
    BY <1>7 DEF RefreshLoad, At, Counting
  <2>2. w.messages = refresh[o].messages
    BY <1>1 DEF Refresh
  <2>3. \/ NextEntry(o)
        \/ GoTo(o, "missing")
        \/ refresh' = [refresh EXCEPT ![o] = w]
    BY <1>7 DEF RefreshLoad
  <2> HIDE DEF w
  <2> QED
    BY <1>2, <1>3, <1>4, <2>1, <2>2, <2>3
<1>8. CASE RefreshRenew(o)
  <2> DEFINE w == [refresh[o] EXCEPT !.identity = homes[Current(o).id],
                                     !.pc = IF @ = "preauth" THEN "fetch" ELSE "refetch"]
  <2>1. Counting(o)
    BY <1>8 DEF RefreshRenew, At, Counting
  <2>2. w.messages = refresh[o].messages
    BY <1>1 DEF Refresh
  <2>3. refresh' = [refresh EXCEPT ![o] = w]
    BY <1>8 DEF RefreshRenew
  <2> HIDE DEF w
  <2> QED
    BY <1>2, <2>1, <2>2, <2>3
<1>9. CASE EndRefresh(o)
  BY <1>9, VisitsKept DEF EndRefresh, Off
<1>10. CASE TakeSnapshot(o)
  <2> DEFINE w == [refresh[o] EXCEPT !.pc = "load", !.todo = Worklist(o),
                                     !.messages = sf.messages]
  <2>1. refresh' = [refresh EXCEPT ![o] = w] /\ sf' = sf
    BY <1>10 DEF TakeSnapshot
  <2>2. w.messages = sf.messages
    BY <1>1 DEF Refresh
  <2> HIDE DEF w
  <2>3. VisitStep(o)
    BY <1>1, <2>1, <2>2 DEF VisitStep
  <2> QED
    BY <2>1, <2>3, VisitsKept
<1>11. CASE StatusRefresh(o)
  <2> DEFINE w == [Off EXCEPT !.pc = "snapshot", !.now = refresh[o].now]
  <2>1. w.pc = "snapshot" /\ Off.pc = "off"
    BY DEF Off
  <2>2. refresh' = [refresh EXCEPT ![o] = w] \/ refresh' = [refresh EXCEPT ![o] = Off]
    BY <1>11 DEF StatusRefresh, Admitted
  <2> HIDE DEF w
  <2> QED
    BY <2>1, <2>2, VisitsKept
<1> QED
  BY <1>5, <1>6, <1>7, <1>8, <1>9, <1>10, <1>11 DEF Walk

LEMMA StepVisits ==
  ASSUME IInv, [Next]_vars
  PROVE  \A p \in Owners : Counting(p)' => VisitStep(p)
<1>1. WalksOK
  BY DEF IInv
<1>2. ASSUME UNCHANGED refresh
      PROVE  \A p \in Owners : Counting(p)' => VisitStep(p)
  BY <1>2 DEF Counting, VisitStep
<1>3. ASSUME NEW o \in Owners, NEW now, Admitted(o, now)
      PROVE  \A p \in Owners : Counting(p)' => VisitStep(p)
  <2>1. [Off EXCEPT !.pc = "snapshot", !.now = now].pc = "snapshot"
    BY DEF Off
  <2> QED
    BY <1>1, <1>3, <2>1, VisitsKept DEF Admitted
<1>4. CASE Accept \/ Configure \/ PassTime \/ UNCHANGED vars
  BY <1>2, <1>4 DEF Accept, Configure, PassTime, vars
<1>5. ASSUME NEW r \in Requests, Handling(r)
      PROVE  \A p \in Owners : Counting(p)' => VisitStep(p)
  BY <1>2, <1>3, <1>5 DEF Handling, JoinRefresh, SkipRefresh, Owners
<1>6. CASE StartWalk
  <2>1. PICK o \in MaintenanceLoops \cup StatusRequests : StartRefresh(o) \/ AskStatus(o)
    BY <1>6 DEF StartWalk
  <2>2. o \in Owners
    BY DEF Owners
  <2>3. CASE StartRefresh(o)
    BY <1>3, <2>2, <2>3 DEF StartRefresh
  <2>4. CASE AskStatus(o)
    <3>1. [Off EXCEPT !.pc = "asked", !.now = clock].pc = "asked"
      BY DEF Off
    <3> QED
      BY <1>1, <2>2, <2>4, <3>1, VisitsKept DEF AskStatus
  <2> QED
    BY <2>1, <2>3, <2>4
<1>7. ASSUME NEW o \in Owners, Walking(o)
      PROVE  \A p \in Owners : Counting(p)' => VisitStep(p)
  BY <1>1, <1>7, WalkVisits DEF Walking
<1> QED
  BY <1>4, <1>5, <1>6, <1>7 DEF Next

\* Only one walk records, so it stays ahead of what is recorded.
LEMMA NextAhead ==
  ASSUME IInv, WalksAhead, [Next]_vars
  PROVE  WalksAhead'
<1> SUFFICES ASSUME NEW o \in Owners, Counting(o)', NEW j \in DOMAIN sf'.accounts
             PROVE  sf'.accounts[j].syncMessages <= refresh'[o].messages
  BY DEF WalksAhead
<1>1. VisitStep(o)
  BY StepVisits
<1>2. HistoryStep
  BY StepHistory
<1>3. CASE Counting(o) /\ refresh'[o].messages = refresh[o].messages
  <2>1. \A i \in DOMAIN sf.accounts : sf.accounts[i].syncMessages <= refresh[o].messages
    BY <1>3 DEF WalksAhead
  <2>2. \A p \in Owners : Recording(p) => p = o
    BY <1>3 DEF IInv, OneRefresh, Recording, Counting, Underway
  <2>3. refresh[o].messages \in Nat
    BY DEF IInv, WalksOK, Refresh
  <2>4. sf'.accounts[j].syncMessages \in Nat
    <3>1. sf' \in StoreFile
      BY NextInvariant DEF StoreStep
    <3> QED
      BY <3>1, AccountsOfStore DEF Account
  <2> QED
    BY <1>2, <1>3, <2>1, <2>2, <2>3, <2>4 DEF HistoryStep, SyncStep
<1>4. CASE sf' = sf /\ refresh'[o].messages = sf.messages
  BY <1>4 DEF IInv, StoreOK, Consistent, SyncedInPast
<1> QED
  BY <1>1, <1>3, <1>4 DEF VisitStep

\* No late walk takes back what a later one has recorded: while a walk is
\* under way nobody else records, and it began at a message count no
\* account was ahead of.
THEOREM SyncsNeverRewind == Spec => SyncNeverRewinds
<1> DEFINE Onward ==
             \A id \in Surviving :
               AccountOf(sf', id).syncMessages >= AccountOf(sf, id).syncMessages
<1>1. Init => WalksAhead
  BY DEF Init, WalksAhead, Counting, Off
<1>2. IInv /\ WalksAhead /\ [Next]_vars => WalksAhead'
  BY NextAhead
<1>3. IInv /\ WalksAhead /\ [Next]_vars => [Onward]_vars
  <2> SUFFICES ASSUME IInv, WalksAhead, [Next]_vars, NEW id \in Surviving
               PROVE  AccountOf(sf', id).syncMessages >= AccountOf(sf, id).syncMessages
    OBVIOUS
  <2>1. AccountOf(sf, id).syncMessages \in Nat /\ AccountOf(sf', id).syncMessages \in Nat
    BY SurvivorHistory DEF Account
  <2>2. \A o \in Owners : Recording(o) => AccountOf(sf, id).syncMessages <= refresh[o].messages
    BY SurvivorHistory DEF WalksAhead, Counting, Recording
  <2>3. \A o \in Owners : refresh[o].messages \in Nat
    BY DEF IInv, WalksOK, Refresh
  <2>4. SyncStep(AccountOf(sf, id), AccountOf(sf', id))
    BY SurvivorHistory
  <2> QED
    BY <2>1, <2>2, <2>3, <2>4 DEF SyncStep
<1>4. Spec => []WalksAhead
  BY <1>1, <1>2, Invariance, PTL DEF Spec
<1>5. Spec => [][Onward]_vars
  BY <1>3, <1>4, Invariance, PTL DEF Spec
<1> QED
  BY <1>5 DEF SyncNeverRewinds

-----------------------------------------------------------------------------
(***************************************************************************)
(* Attempts.                                                               *)
(***************************************************************************)

\* The time of a request is not after the clock, and before its first attempt
\* it has no account.
GoodTime(q) ==
  /\ q.now <= clock
  /\ q.pc \in {"quota", "refreshing", "begin"} => q.acct = NoAccount

RequestsTimed == \A r \in Requests : GoodTime(req[r])

\* An attempt that was sent and goes on to another leaves its account on cooldown
\* from a time that is not before the request's, or out of service.
Left(r) ==
  /\ req'[r].pc = "pick" /\ req'[r].attempt > req[r].attempt
  /\ req[r].pc # "unsendable"
  /\ req[r].acct \in Known(sf')
  => ~Healthy(AccountOf(sf', req[r].acct), req[r].now)

LEMMA CooledIsLeft ==
  ASSUME StoreOK, StoreStep, RequestsTimed, NEW r \in Requests, req[r].now \in Nat,
         NEW seconds \in Int, sf' = MarkCooldown(sf, req[r].acct, clock, seconds)
  PROVE  Left(r)
<1> SUFFICES ASSUME req[r].acct \in Known(sf')
             PROVE  ~Healthy(AccountOf(sf', req[r].acct), req[r].now)
  BY DEF Left
<1>1. sf \in StoreFile /\ sf' \in StoreFile /\ Consistent(sf') /\ clock \in Nat
  BY DEF StoreOK, StoreStep
<1>2. PICK i \in DOMAIN sf'.accounts : sf'.accounts[i].id = req[r].acct
  BY DEF Known
<1>3. DOMAIN sf'.accounts = DOMAIN sf.accounts
  BY <1>1 DEF MarkCooldown, UpdateAccount, StoreFile
<1>4. sf'.accounts[i].cooldown > clock
  BY <1>1, <1>2, <1>3, CooledAccount
<1>5. AccountOf(sf', req[r].acct) = sf'.accounts[i]
  BY <1>1, <1>2, FoundAt DEF AccountOf
<1>6. req[r].now <= clock /\ sf'.accounts[i].cooldown \in Nat
  BY <1>1, AccountsOfStore DEF RequestsTimed, GoodTime, Account
<1> QED
  BY <1>1, <1>4, <1>5, <1>6 DEF Healthy

LEMMA DisabledIsLeft ==
  ASSUME StoreOK, StoreStep, NEW r \in Requests,
         NEW reason, sf' = MarkDisabled(sf, req[r].acct, reason)
  PROVE  Left(r)
<1> SUFFICES ASSUME req[r].acct \in Known(sf')
             PROVE  ~Healthy(AccountOf(sf', req[r].acct), req[r].now)
  BY DEF Left
<1>1. sf \in StoreFile /\ sf' \in StoreFile /\ Consistent(sf')
  BY DEF StoreOK, StoreStep
<1>2. PICK i \in DOMAIN sf'.accounts : sf'.accounts[i].id = req[r].acct
  BY DEF Known
<1>3. DOMAIN sf'.accounts = DOMAIN sf.accounts
  BY <1>1 DEF MarkDisabled, UpdateAccount, StoreFile
<1>4. ~sf'.accounts[i].enabled
  <2>1. sf.accounts[i].id = req[r].acct
    BY <1>1, <1>2, <1>3, DisabledAccount
  <2> QED
    BY <1>1, <1>3, <2>1, DisabledIsOut
<1>5. AccountOf(sf', req[r].acct) = sf'.accounts[i]
  BY <1>1, <1>2, FoundAt DEF AccountOf
<1> QED
  BY <1>4, <1>5 DEF Healthy

LEMMA TimedRequest ==
  ASSUME RequestsOK, RequestsTimed, NEW r \in Requests, NEW q, GoodTime(q),
         req' = [req EXCEPT ![r] = q], clock' = clock
  PROVE  RequestsTimed'
BY DEF RequestsOK, RequestsTimed, GoodTime

\* What a step of a handler does to its times, and to the account it leaves.
LEMMA HandleLeaves ==
  ASSUME StoreOK, RequestsOK, RequestsTimed, NEW r \in Requests, Handle(r)
  PROVE  RequestsTimed' /\ \A p \in Requests : Left(p)
<1> DEFINE acct == req[r].acct
<1>1. req[r] \in Request /\ req \in [Requests -> Request] /\ req[r].now \in Nat
  BY DEF RequestsOK, Request
<1>2. StoreStep /\ clock' = clock /\ clock \in Nat
  BY HandleStep DEF ServingStep, StoreOK
<1>3. GoodTime(req[r])
  BY DEF RequestsTimed
<1>4. ASSUME NEW q, GoodTime(q), req' = [req EXCEPT ![r] = q], q.pc # "pick" \/ Left(r)
      PROVE  RequestsTimed' /\ \A p \in Requests : Left(p)
  <2>1. \A p \in Requests : p # r => req'[p] = req[p] /\ req[p].attempt \in Nat
    BY <1>1, <1>4 DEF Request
  <2>2. \A p \in Requests : p # r => Left(p)
    BY <2>1 DEF Left
  <2>3. Left(r)
    BY <1>1, <1>4 DEF Left
  <2> QED
    BY <1>2, <1>4, <2>2, <2>3, TimedRequest
<1>5. GoodTime(Idle) /\ Idle.pc # "pick"
  BY <1>2 DEF GoodTime, Idle
<1>6. \A response : GoodTime(Finished(r, response)) /\ Finished(r, response).pc # "pick"
  BY <1>2 DEF GoodTime, Finished, Idle
<1>7. GoodTime(GiveUp(r)) /\ GiveUp(r).pc # "pick"
  BY <1>6 DEF GiveUp
<1>8. \A last : GoodTime(NextAttempt(r, last))
  BY <1>1, <1>3, <1>6 DEF NextAttempt, GoodTime, Request
<1>9. ASSUME Left(r), NEW last, Retry(r, last)
      PROVE  RequestsTimed' /\ \A p \in Requests : Left(p)
  BY <1>4, <1>8, <1>9 DEF Retry
<1>10. ASSUME NEW response, Finish(r, response)
       PROVE  RequestsTimed' /\ \A p \in Requests : Left(p)
  BY <1>4, <1>6, <1>10 DEF Finish
<1>11. CASE Begin(r)
  <2> DEFINE max == IF req[r].kind = "ws" THEN 1 ELSE Larger(1, sf.settings.maxAttempts)
             q == [req[r] EXCEPT !.pc = "pick", !.attempt = 1, !.max = max]
  <2>1. req' = [req EXCEPT ![r] = q]
    BY <1>11 DEF Begin
  <2> HIDE DEF max
  <2>2. GoodTime(q)
    BY <1>1, <1>3 DEF GoodTime, Request
  <2> HIDE DEF q
  <2>3. acct = NoAccount
    BY <1>3, <1>11 DEF Begin, GoodTime
  <2>4. NoAccount \notin Known(sf')
    BY <1>2, AccountsOfStore, NoAccountAssumption DEF StoreStep, Known, Account
  <2>5. Left(r)
    BY <2>3, <2>4 DEF Left
  <2> QED
    BY <1>4, <2>1, <2>2, <2>5
<1>12. CASE Pick(r)
  <2> DEFINE i == SelectAccount(sf, req[r].now)
             q == [req[r] EXCEPT !.pc = "auth", !.acct = sf.accounts[i].id,
                                 !.identity = sf.accounts[i].identity,
                                 !.backoff = sf.settings.cooldownDefault]
  <2>1. req' = [req EXCEPT ![r] = GiveUp(r)] \/ req' = [req EXCEPT ![r] = q]
    BY <1>12 DEF Pick
  <2>2. GoodTime(q) /\ q.pc # "pick"
    BY <1>1, <1>3 DEF GoodTime, Request
  <2> HIDE DEF q
  <2> QED
    BY <1>4, <1>7, <2>1, <2>2
<1>13. CASE LoadAuth(r)
  <2> PICK prepared \in Prepared :
        req' = [req EXCEPT ![r] =
                  [@ EXCEPT !.identity = homes[acct],
                            !.pc = IF homes[acct] = MissingAuth THEN "missing"
                                   ELSE IF homes[acct] # req[r].identity THEN "adopt"
                                   ELSE prepared]]
    BY <1>13 DEF LoadAuth
  <2> DEFINE found == homes[acct]
             pc == IF found = MissingAuth THEN "missing"
                   ELSE IF found # req[r].identity THEN "adopt" ELSE prepared
             q == [req[r] EXCEPT !.identity = found, !.pc = pc]
  <2>1. req' = [req EXCEPT ![r] = q]
    OBVIOUS
  <2>2. pc \in {"missing", "adopt", "send", "unsendable"}
    BY DEF Prepared
  <2> HIDE DEF pc, found
  <2>3. GoodTime(q) /\ q.pc # "pick"
    BY <1>1, <1>3, <2>2 DEF GoodTime, Request
  <2> HIDE DEF q
  <2> QED
    BY <1>4, <2>1, <2>3
<1>14. CASE DisableMissing(r)
  BY <1>4, <1>7, <1>14 DEF DisableMissing
<1>15. ASSUME NEW q, q.pc \in {"send", "reauth", "resend"}, q.now = req[r].now,
              req' = [req EXCEPT ![r] = q]
       PROVE  RequestsTimed' /\ \A p \in Requests : Left(p)
  <2>1. GoodTime(q)
    BY <1>3, <1>15 DEF GoodTime
  <2> QED
    BY <1>4, <1>15, <2>1
<1>16. CASE AdoptIdentity(r)
  <2> PICK prepared \in Prepared : req' = [req EXCEPT ![r].pc = prepared]
    BY <1>16 DEF AdoptIdentity
  <2> DEFINE q == [req[r] EXCEPT !.pc = prepared]
  <2>1. req' = [req EXCEPT ![r] = q]
    OBVIOUS
  <2>2. GoodTime(q) /\ q.pc # "pick"
    BY <1>1, <1>3 DEF Prepared, GoodTime, Request
  <2> HIDE DEF q
  <2> QED
    BY <1>4, <2>1, <2>2
<1>17. \A answer : LET q == [req[r] EXCEPT !.pc = "reauth", !.answer = answer]
                   IN  q.pc = "reauth" /\ q.now = req[r].now
  BY <1>1 DEF Request
<1>18. CASE Deliver(r)
  BY <1>10, <1>18 DEF Deliver
<1>19. CASE BackOff(r)
  <2>1. PICK answer \in UpstreamAnswers, retryAfter \in RetryAfters :
          /\ sf' = MarkCooldown(sf, acct, clock, BackoffSeconds(answer, retryAfter))
          /\ \/ Retry(r, Response(answer, "closed"))
             \/ Finish(r, Response(answer, "open"))
    BY <1>19 DEF BackOff
  <2>2. BackoffSeconds(answer, retryAfter) \in Int
    BY RequestHandlerAssumption DEF BackoffSeconds
  <2>3. Left(r)
    BY <1>1, <1>2, <2>1, <2>2, CooledIsLeft
  <2> QED
    BY <1>9, <1>10, <2>1, <2>3
<1>20. CASE UsageLimit(r)
  <2> DEFINE q == [req[r] EXCEPT !.pc = "reauth", !.answer = "usage-limit"]
  <2>1. PICK retryAfter \in RetryAfters :
          sf' = MarkCooldown(sf, acct, clock, Larger(req[r].backoff, retryAfter))
    BY <1>20 DEF UsageLimit
  <2>2. Larger(req[r].backoff, retryAfter) \in Int
    BY <1>1, RequestHandlerAssumption DEF Larger, Request
  <2>3. Left(r)
    BY <1>1, <1>2, <2>1, <2>2, CooledIsLeft
  <2>4. Retry(r, Response("usage-limit", "buffered")) \/ req' = [req EXCEPT ![r] = q]
    BY <1>20 DEF UsageLimit
  <2> HIDE DEF q
  <2>5. q.pc = "reauth" /\ q.now = req[r].now
    BY <1>17 DEF q
  <2> QED
    BY <1>9, <1>15, <2>3, <2>4, <2>5
<1>21. CASE Reject(r)
  <2>1. PICK answer \in AnswersTo(req[r].kind) :
          req' = [req EXCEPT ![r] = [req[r] EXCEPT !.pc = "reauth", !.answer = answer]]
    BY <1>21 DEF Reject
  <2> DEFINE q == [req[r] EXCEPT !.pc = "reauth", !.answer = answer]
  <2>2. req' = [req EXCEPT ![r] = q]
    BY <2>1
  <2>3. GoodTime(q) /\ q.pc # "pick"
    BY <1>1, <1>3 DEF GoodTime, Request
  <2> HIDE DEF q
  <2> QED
    BY <1>4, <2>2, <2>3
<1>22. CASE Renew(r)
  <2> DEFINE q == [req[r] EXCEPT !.pc = "resend", !.answer = "none"]
  <2>1. Finish(r, Response(req[r].answer, "open")) \/ req' = [req EXCEPT ![r] = q]
    BY <1>22 DEF Renew
  <2>2. q.pc = "resend" /\ q.now = req[r].now
    BY <1>1 DEF Request
  <2> HIDE DEF q
  <2> QED
    BY <1>10, <1>15, <2>1, <2>2
<1>23. CASE RenewFails(r)
  <2>1. Left(r)
    BY <1>2, <1>23, DisabledIsLeft DEF RenewFails
  <2> QED
    BY <1>9, <1>10, <1>23, <2>1 DEF RenewFails
<1>24. CASE RejectAgain(r)
  <2>1. Left(r)
    BY <1>2, <1>24, DisabledIsLeft DEF RejectAgain
  <2> QED
    BY <1>9, <1>24, <2>1 DEF RejectAgain
<1>25. CASE TransportError(r)
  <2>1. Left(r)
    BY <1>1, <1>2, <1>25, CooledIsLeft DEF TransportError, Request
  <2> QED
    BY <1>9, <1>25, <2>1 DEF TransportError
<1>26. CASE BodyUnreadable(r) \/ Canceled(r) \/ WebsocketError(r)
  BY <1>10, <1>26 DEF BodyUnreadable, Canceled, WebsocketError, Finish
<1>27. CASE Return(r)
  BY <1>4, <1>5, <1>27 DEF Return
<1>28. CASE Unsendable(r)
  <2>1. Left(r)
    BY <1>28 DEF Unsendable, Left
  <2> QED
    BY <1>9, <1>10, <1>28, <2>1 DEF Unsendable
<1> QED
  BY <1>11, <1>12, <1>13, <1>14, <1>16, <1>18, <1>19, <1>20, <1>21, <1>22, <1>23, <1>24,
     <1>25, <1>26, <1>27, <1>28 DEF Handle

\* Every step of the process, or none.
LEMMA StepLeaves ==
  ASSUME IInv, RequestsTimed, [Next]_vars
  PROVE  RequestsTimed' /\ \A r \in Requests : Left(r)
<1>1. StoreOK /\ RequestsOK /\ WalksOK /\ clock \in Nat
      /\ req \in [Requests -> Request] /\ \A r \in Requests : req[r] \in Request
  BY DEF IInv, StoreOK, RequestsOK
<1>2. ASSUME UNCHANGED req, clock' = clock \/ clock' = clock + 1
      PROVE  RequestsTimed' /\ \A r \in Requests : Left(r)
  <2>1. \A r \in Requests : req[r].now \in Nat /\ req[r].attempt \in Nat
    BY <1>1 DEF Request
  <2>2. RequestsTimed'
    BY <1>1, <1>2, <2>1 DEF RequestsTimed, GoodTime
  <2> QED
    BY <1>2, <2>1, <2>2 DEF Left
<1>3. ASSUME NEW r \in Requests, NEW q, GoodTime(q), q.pc # "pick",
             req' = [req EXCEPT ![r] = q], clock' = clock
      PROVE  RequestsTimed' /\ \A p \in Requests : Left(p)
  <2>1. \A p \in Requests : /\ req'[p] = IF p = r THEN q ELSE req[p]
                            /\ req[p].attempt \in Nat
    BY <1>1, <1>3 DEF Request
  <2>2. \A p \in Requests : Left(p)
    BY <1>3, <2>1 DEF Left
  <2> QED
    BY <1>1, <1>3, <2>2, TimedRequest
<1>4. ASSUME NEW r \in Requests, NEW pc \in {"begin", "refreshing"},
             req[r].pc \in {"quota", "refreshing"}, req' = [req EXCEPT ![r].pc = pc],
             clock' = clock
      PROVE  RequestsTimed' /\ \A p \in Requests : Left(p)
  <2> DEFINE q == [req[r] EXCEPT !.pc = pc]
  <2>1. req' = [req EXCEPT ![r] = q] /\ q.pc = pc
    BY <1>1, <1>4 DEF Request
  <2>2. GoodTime(q)
    BY <1>1, <1>4 DEF RequestsTimed, GoodTime, Request
  <2> HIDE DEF q
  <2> QED
    BY <1>3, <1>4, <2>1, <2>2
<1>5. CASE Accept
  <2>1. PICK r \in Requests : Arrive(r)
    BY <1>5 DEF Accept
  <2>2. PICK kind \in Kinds :
          req' = [req EXCEPT ![r] = [Idle EXCEPT !.pc = "quota", !.kind = kind, !.now = clock]]
    BY <2>1 DEF Arrive
  <2> DEFINE q == [Idle EXCEPT !.pc = "quota", !.kind = kind, !.now = clock]
  <2>3. GoodTime(q) /\ q.pc # "pick"
    BY <1>1 DEF GoodTime, Idle
  <2>4. req' = [req EXCEPT ![r] = q] /\ clock' = clock
    BY <2>1, <2>2 DEF Arrive
  <2> HIDE DEF q
  <2> QED
    BY <1>3, <2>3, <2>4
<1>6. ASSUME NEW r \in Requests, Handling(r)
      PROVE  RequestsTimed' /\ \A p \in Requests : Left(p)
  <2>1. CASE Handle(r)
    BY <1>1, <2>1, HandleLeaves
  <2>2. CASE JoinRefresh(r) \/ SkipRefresh(r)
    BY <1>4, <2>2 DEF JoinRefresh, SkipRefresh
  <2> QED
    BY <1>6, <2>1, <2>2 DEF Handling
<1>7. CASE StartWalk
  BY <1>2, <1>7 DEF StartWalk, StartRefresh, AskStatus
<1>8. ASSUME NEW o \in Owners, Walking(o)
      PROVE  RequestsTimed' /\ \A p \in Requests : Left(p)
  <2>1. CASE EndRefresh(o) /\ o \in Requests
    <3>1. req[o].pc = "refreshing"
      BY <2>1 DEF EndRefresh, At, Underway, IInv, RefreshOwned
    <3> QED
      BY <1>4, <2>1, <3>1 DEF EndRefresh
  <2>2. CASE UNCHANGED <<req, clock>>
    BY <1>2, <2>2
  <2> QED
    BY <1>8, <2>1, <2>2
    DEF Walking, Walk, StatusRefresh, TakeSnapshot, RefreshSkip, RefreshLoad, RefreshMissing,
        RefreshRenew, RefreshRecord, RefreshRejected, RefreshError, EndRefresh
<1>9. CASE Configure
  <2>1. UNCHANGED <<req, clock>>
    BY <1>9 DEF Configure, ReloadSettings, Administer, RemoveHome, ForgetAccount, LookUpPin,
                StorePin, Unpin, TruncateAuth, WriteAuth, ReadBack, Register
  <2> QED
    BY <1>2, <2>1
<1>10. CASE PassTime \/ UNCHANGED vars
  BY <1>2, <1>10 DEF PassTime, Tick, vars
<1> QED
  BY <1>5, <1>6, <1>7, <1>8, <1>9, <1>10 DEF Next

\* An attempt that was sent and fails leaves an account behind that is not
\* healthy at the request's own time: its cooldown is counted from the clock,
\* which is not behind that time, and lasts a second at least, or the account is
\* out of service.  It is so when the attempt ends; what other actors do to the
\* account before the next pick is theirs to answer for.
THEOREM FailedAccountsLeft == Spec => LeavesFailedAccount
<1> DEFINE AllLeft ==
             \A r \in Requests :
               /\ req'[r].pc = "pick" /\ req'[r].attempt > req[r].attempt
               /\ req[r].pc # "unsendable"
               /\ req[r].acct \in Known(sf')
               => ~Healthy(AccountOf(sf', req[r].acct), req[r].now)
<1>1. Init => RequestsTimed
  BY DEF Init, RequestsTimed, GoodTime, Idle
<1>2. IInv /\ RequestsTimed /\ [Next]_vars => RequestsTimed'
  BY StepLeaves
<1>3. IInv /\ RequestsTimed /\ [Next]_vars => [AllLeft]_vars
  BY StepLeaves DEF Left
<1>4. Spec => []RequestsTimed
  BY <1>1, <1>2, Invariance, PTL DEF Spec
<1>5. Spec => [][AllLeft]_vars
  BY <1>3, <1>4, Invariance, PTL DEF Spec
<1> QED
  BY <1>5 DEF LeavesFailedAccount

=============================================================================
