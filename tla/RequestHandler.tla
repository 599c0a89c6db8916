---------------------------- MODULE RequestHandler ----------------------------
(***************************************************************************)
(* Serving client requests from the local accounts: ServeHTTP, handleHTTP, *)
(* handleHTTPViaPickedAccount and the websocket path of                    *)
(* internal/lb/proxy.go, for a proxy without child proxies.                *)
(*                                                                         *)
(* A handler goroutine goes through                                        *)
(*                                                                         *)
(*   idle -> quota -> begin -> pick -> auth -> send -> [reauth -> resend]  *)
(*                              ^------- next attempt -------'    -> done  *)
(*                                                                         *)
(* and every arrow is one atomic access to the store or one answer from    *)
(* outside.  An answer and the Update it leads to are one step: nothing    *)
(* can influence the answer in between.  The token refresh, which runs     *)
(* under authRefreshMu, is taken as one step: another writer of auth.json  *)
(* while it waits for the token endpoint is not modelled here.             *)
(***************************************************************************)
EXTENDS ProxyState

CONSTANTS Requests,      \* handler goroutines
          Kinds,         \* kinds of request the clients send
          UpstreamAnswers, \* answers the accounts' upstreams give
          RetryAfters,   \* values of the Retry-After header, 0 when absent
          MaxMessages    \* no counted request is accepted beyond this many messages

\* "post": POST .../responses.  "get": any path that is not account-scoped.
\* "ws": a websocket upgrade of .../responses.
AllKinds == {"post", "get", "ws"}

\* What an account's upstream can answer: 2xx, 429, 5xx, 401, 403, 403 with the
\* usage-limit text, anything else (101 Switching Protocols included).
Answers == {"ok", "limited", "broken", "unauthorized", "forbidden", "usage-limit", "other"}

ASSUME RequestHandlerAssumption ==
  /\ Kinds \subseteq AllKinds
  /\ UpstreamAnswers \subseteq Answers
  /\ RetryAfters \subseteq Nat
  /\ MaxMessages \in Nat

VARIABLE req

\* The outcome a client sees that is no upstream answer.
LocalOutcomes == {"unavailable", "bad-request", "bad-gateway", "internal-error", "gone"}

\* An upstream response kept for the client, with the state of its body.
NoResponse     == [answer |-> "none", body |-> "none"]
Response(a, b) == [answer |-> a, body |-> b]
Responses      == [answer : Answers \cup LocalOutcomes \cup {"none"},
                   body : {"open", "buffered", "closed", "none"}]

RequestPcs == {"idle", "quota", "refreshing", "begin", "pick", "auth", "missing",
               "adopt", "send", "unsendable", "reauth", "resend", "done"}

\* What an attempt comes to once the credentials are loaded: it is sent, unless
\* no request can be made from the account's base URL.  Nothing checks that URL
\* before, whether it was registered or came with a reload of config.toml.
Prepared == {"send", "unsendable"}

Request == [pc : RequestPcs, kind : AllKinds, now : Nat, attempt : Nat, max : Nat,
            acct : AccountIds \cup {NoAccount}, identity : Identities \cup {MissingAuth},
            backoff : Int, answer : Answers \cup {"none"}, last : Responses]

Idle == [pc |-> "idle", kind |-> "get", now |-> 0, attempt |-> 0, max |-> 0,
         acct |-> NoAccount, identity |-> MissingAuth, backoff |-> 0,
         answer |-> "none", last |-> NoResponse]

AccountScoped(kind) == kind \in {"post", "ws"}

Retryable(answer) == answer \in {"limited", "broken"}

AuthFailure(answer, kind) ==
  \/ answer = "unauthorized"
  \/ answer \in {"forbidden", "usage-limit"} /\ AccountScoped(kind)

\* A 403 counts as a usage limit on account-scoped paths only.
AnswersTo(kind) ==
  IF AccountScoped(kind) THEN UpstreamAnswers ELSE UpstreamAnswers \ {"usage-limit"}

\* Fault: the reason is not spelled http-<status>.
DisabledAnswer(answer, terminal) ==
  IF answer = "unauthorized" /\ terminal THEN "refresh-token-reused" ELSE answer

DisabledReason(answer, terminal) ==
  IF answer # "unauthorized" THEN "http-403"
  ELSE IF terminal THEN "refresh-token-reused" ELSE "http-401"

BackoffSeconds(answer, retryAfter) ==
  IF retryAfter > 0 THEN retryAfter ELSE IF answer = "limited" THEN 5 ELSE 2

Larger(a, b) == IF a > b THEN a ELSE b

-----------------------------------------------------------------------------

\* The client gets its answer; only that is left of the request.
Finished(r, response) == [Idle EXCEPT !.pc = "done", !.kind = req[r].kind, !.last = response]

Unavailable == Response("unavailable", "buffered")

\* The end of handleHTTP's loop.
GiveUp(r) ==
  Finished(r, IF req[r].last # NoResponse THEN req[r].last ELSE Unavailable)

\* Back to the head of the loop, with the response kept so far.
NextAttempt(r, last) ==
  IF req[r].attempt < req[r].max
  THEN [req[r] EXCEPT !.pc = "pick", !.attempt = @ + 1, !.acct = NoAccount,
                      !.identity = MissingAuth, !.answer = "none", !.last = last]
  ELSE Finished(r, IF last # NoResponse THEN last ELSE Unavailable)

\* A request arrives: its time is taken and expired cooldowns are cleared.
Arrive(r) ==
  /\ req[r].pc = "idle"
  /\ \E kind \in Kinds :
       /\ kind = "post" => sf.messages < MaxMessages
       /\ req' = [req EXCEPT ![r] = [Idle EXCEPT !.pc = "quota", !.kind = kind, !.now = clock]]
  /\ sf' = ExpireCooldowns(sf, clock)
  /\ UNCHANGED <<homes, clock>>

\* The head of handleHTTP: the number of attempts comes from this snapshot.
Begin(r) ==
  /\ req[r].pc = "begin"
  /\ req' = [req EXCEPT ![r] =
       [@ EXCEPT !.pc = "pick", !.attempt = 1,
                 !.max = IF req[r].kind = "ws" THEN 1 ELSE Larger(1, sf.settings.maxAttempts)]]
  /\ UNCHANGED <<sf, homes, clock>>

\* The client broke off while its request was read.
BodyUnreadable(r) ==
  /\ req[r].pc = "begin" /\ req[r].kind # "ws"
  /\ req' = [req EXCEPT ![r] = Finished(r, Response("bad-request", "buffered"))]
  /\ UNCHANGED <<sf, homes, clock>>

\* selectAccount on a snapshot, with the time of the request's arrival.
Pick(r) ==
  /\ req[r].pc = "pick"
  /\ LET i == SelectAccount(sf, req[r].now)
     IN  req' = [req EXCEPT ![r] =
                   IF i = NoSelection THEN GiveUp(r)
                   ELSE [@ EXCEPT !.pc = "auth", !.acct = sf.accounts[i].id,
                                  !.identity = sf.accounts[i].identity,
                                  !.backoff = sf.settings.cooldownDefault]]
  /\ UNCHANGED <<sf, homes, clock>>

\* LoadAuth reads the account's home; req.identity is what the snapshot said.
LoadAuth(r) ==
  /\ req[r].pc = "auth"
  /\ \E prepared \in Prepared :
       LET found == homes[req[r].acct]
       IN  req' = [req EXCEPT ![r] =
                     [@ EXCEPT !.identity = found,
                               !.pc = IF found = MissingAuth THEN "missing"
                                      ELSE IF found # req[r].identity THEN "adopt"
                                      ELSE prepared]]
  /\ UNCHANGED <<sf, homes, clock>>

\* No auth.json: the account leaves service and the request stops trying.
DisableMissing(r) ==
  /\ req[r].pc = "missing"
  /\ sf' = MarkDisabled(sf, req[r].acct, "missing-auth")
  /\ req' = [req EXCEPT ![r] = GiveUp(r)]
  /\ UNCHANGED <<homes, clock>>

\* auth.json belongs to another ChatGPT account than the pool knew.
AdoptIdentity(r) ==
  /\ req[r].pc = "adopt"
  /\ sf' = MarkAuthRecovered(sf, req[r].acct, req[r].identity)
  /\ \E prepared \in Prepared : req' = [req EXCEPT ![r].pc = prepared]
  /\ UNCHANGED <<homes, clock>>

-----------------------------------------------------------------------------

Finish(r, response) == req' = [req EXCEPT ![r] = Finished(r, response)]

Retry(r, last) == req' = [req EXCEPT ![r] = NextAttempt(r, last)]

Waiting(r) == req[r].pc \in {"send", "resend"}

\* No request can be made for the account.  The attempt is spent and the
\* account left as it is, so the next attempt may well pick it again; a
\* websocket client is told at once.  The second request of an attempt is made
\* from the same parts as the first, so it is not made in vain.
Unsendable(r) ==
  /\ req[r].pc = "unsendable"
  /\ IF req[r].kind = "ws"
     THEN Finish(r, Response("internal-error", "buffered"))
     ELSE Retry(r, req[r].last)
  /\ UNCHANGED <<sf, homes, clock>>

\* 2xx, or an answer that says nothing about the account: the client gets it.
Deliver(r) ==
  /\ Waiting(r)
  /\ \E answer \in AnswersTo(req[r].kind) :
       /\ ~Retryable(answer) /\ ~AuthFailure(answer, req[r].kind)
       /\ sf' = IF answer = "ok" THEN MarkSuccess(sf, req[r].acct, req[r].kind = "post") ELSE sf
       /\ Finish(r, Response(answer, "open"))
  /\ UNCHANGED <<homes, clock>>

\* 429 or 5xx: the body is closed before another account is tried, and passed
\* through on the last attempt.
BackOff(r) ==
  /\ Waiting(r)
  /\ \E answer \in {n \in UpstreamAnswers : Retryable(n)}, retryAfter \in RetryAfters :
       /\ sf' = MarkCooldown(sf, req[r].acct, clock, BackoffSeconds(answer, retryAfter))
       /\ IF req[r].attempt < req[r].max
          THEN Retry(r, Response(answer, "closed"))
          ELSE Finish(r, Response(answer, "open"))
  /\ UNCHANGED <<homes, clock>>

\* The usage-limit 403.  On the last attempt the code goes on to treat it as
\* a failed authorization.
UsageLimit(r) ==
  /\ req[r].pc = "send" /\ req[r].kind = "post" /\ "usage-limit" \in UpstreamAnswers
  /\ \E retryAfter \in RetryAfters :
       sf' = MarkCooldown(sf, req[r].acct, clock, Larger(req[r].backoff, retryAfter))
  /\ IF req[r].attempt < req[r].max
     THEN Retry(r, Response("usage-limit", "buffered"))
     ELSE req' = [req EXCEPT ![r].pc = "reauth", ![r].answer = "usage-limit"]
  /\ UNCHANGED <<homes, clock>>

\* 401, or 403 on an account-scoped path: the token is tried to be renewed.
Reject(r) ==
  /\ req[r].pc = "send"
  /\ \E answer \in AnswersTo(req[r].kind) :
       /\ AuthFailure(answer, req[r].kind)
       /\ answer = "usage-limit" => req[r].kind = "ws"
       /\ req' = [req EXCEPT ![r].pc = "reauth", ![r].answer = answer]
  /\ UNCHANGED <<sf, homes, clock>>

\* tryRefreshAccountAuth succeeds: the request is sent once more with the new
\* token.  A websocket client gets the rejection all the same.
Renew(r) ==
  /\ req[r].pc = "reauth"
  /\ homes[req[r].acct] # MissingAuth
  /\ sf' = MarkAuthRecovered(sf, req[r].acct, homes[req[r].acct])
  /\ IF req[r].kind = "ws"
     THEN Finish(r, Response(req[r].answer, "open"))
     ELSE req' = [req EXCEPT ![r].pc = "resend", ![r].answer = "none"]
  /\ UNCHANGED <<homes, clock>>

\* tryRefreshAccountAuth fails; terminal says that the refresh token was used
\* before, which the websocket path does not look at.
RenewFails(r) ==
  /\ req[r].pc = "reauth"
  /\ \E terminal \in BOOLEAN :
       /\ terminal => homes[req[r].acct] # MissingAuth
       /\ sf' = MarkDisabled(sf, req[r].acct,
                             DisabledReason(req[r].answer, terminal /\ req[r].kind # "ws"))
  /\ IF req[r].kind = "ws"
     THEN Finish(r, Response(req[r].answer, "open"))
     ELSE Retry(r, Response(req[r].answer, "buffered"))
  /\ UNCHANGED <<homes, clock>>

\* The renewed token is rejected as well.
RejectAgain(r) ==
  /\ req[r].pc = "resend"
  /\ \E answer \in AnswersTo(req[r].kind) :
       /\ AuthFailure(answer, req[r].kind)
       /\ sf' = MarkDisabled(sf, req[r].acct, DisabledReason(answer, FALSE))
       /\ Retry(r, Response(answer, "open"))
  /\ UNCHANGED <<homes, clock>>

\* No answer from upstream.
TransportError(r) ==
  /\ Waiting(r) /\ req[r].kind # "ws"
  /\ sf' = MarkCooldown(sf, req[r].acct, clock, req[r].backoff)
  /\ Retry(r, req[r].last)
  /\ UNCHANGED <<homes, clock>>

\* The client went away: nothing is held against the account.
Canceled(r) ==
  /\ Waiting(r) /\ req[r].kind # "ws"
  /\ Finish(r, Response("gone", "none"))
  /\ UNCHANGED <<sf, homes, clock>>

\* The reverse proxy's ErrorHandler, which also sees a client that left.
WebsocketError(r) ==
  /\ req[r].pc = "send" /\ req[r].kind = "ws"
  /\ sf' = MarkCooldown(sf, req[r].acct, clock, 2)
  /\ Finish(r, Response("bad-gateway", "buffered"))
  /\ UNCHANGED <<homes, clock>>

\* The handler returns; the goroutine takes another request.
Return(r) ==
  /\ req[r].pc = "done"
  /\ req' = [req EXCEPT ![r] = Idle]
  /\ UNCHANGED <<sf, homes, clock>>

Handle(r) ==
  \/ Begin(r) \/ BodyUnreadable(r)
  \/ Pick(r) \/ LoadAuth(r) \/ DisableMissing(r) \/ AdoptIdentity(r)
  \/ Unsendable(r) \/ Deliver(r) \/ BackOff(r) \/ UsageLimit(r) \/ Reject(r)
  \/ Renew(r) \/ RenewFails(r) \/ RejectAgain(r)
  \/ TransportError(r) \/ Canceled(r) \/ WebsocketError(r)
  \/ Return(r)

=============================================================================
