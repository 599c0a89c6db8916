----------------------------- MODULE ChildProxies -----------------------------
(***************************************************************************)
(* A proxy that routes over its local accounts and over child proxies:     *)
(* internal/lb/child_proxy.go, and the child branches of handleHTTP,       *)
(* handleWebsocket and /status in internal/lb/proxy.go.                    *)
(*                                                                         *)
(* What the proxy knows of a child is a record of childProxyStates.  It is *)
(* read under childProxyMu, used without it, and written by whoever        *)
(* learns something: a status query that ends, a request that was served   *)
(* or that failed.  A worker is a goroutine:                               *)
(*                                                                         *)
(*   idle -> route -> [fetch] -> child or local -> idle                    *)
(*             ^------- next attempt -------'                              *)
(*                                                                         *)
(* The first attempt of a request asks every child for its status, the     *)
(* later ones use what is known.  A route over a local account is          *)
(* RequestHandler's matter; its outcomes are here one step each.           *)
(*                                                                         *)
(* An operator marked "Fault" is a wrong version of the one below it.      *)
(***************************************************************************)
EXTENDS AccountPool

CONSTANTS ChildURLs,      \* proxy.child_proxy_urls, a sequence of route ids
          FailureGrace,   \* childProxyStatusFailureGrace
          Workers,        \* goroutines
          Reports,        \* child -> what it can report
          Backoffs,       \* cooldown seconds of a retryable answer
          Rejections,     \* reasons for which a local account leaves service
          Setups,         \* what the proxy can start with
          MaxTime         \* the clock stops there

Children == {ChildURLs[i] : i \in DOMAIN ChildURLs}

\* "http" and "ws" are client requests, "page" GET /status?refresh=1, "refresh" the
\* refresh in the background; "admin" and "stream" are AdminForward's.
AllTasks == {"http", "ws", "page", "refresh", "admin", "stream"}

\* A store, the work each goroutine can be given, and what bears the name an admin
\* command asks for: a child itself (named), and how many proxies that one request to it
\* can reach, it or its descendants (targets).
Setup == [store : StoreFile, tasks : [Workers -> SUBSET AllTasks],
          named : SUBSET Children, targets : [Children -> Nat]]

\* able: summarizeProxyCapacity finds a target with capacity; score: that capacity in
\* percent, the mean over the child's own targets.
Report == [able : BOOLEAN, score : 0..100]

ASSUME ChildProxiesAssumption ==
  /\ ChildURLs \in Seq(AccountIds)
  /\ \A i, j \in DOMAIN ChildURLs : ChildURLs[i] = ChildURLs[j] => i = j
  /\ FailureGrace \in Nat
  /\ Reports \in [Children -> SUBSET Report]
  /\ Backoffs \subseteq Nat \ {0}
  /\ Rejections \subseteq DisabledReasons
  /\ Setups \subseteq Setup /\ Setups # {}
  /\ \A s \in Setups : /\ Consistent(s.store) /\ Known(s.store) \cap Children = {}
                        /\ \A c \in s.named : s.targets[c] = 1
  /\ Identities # {}
  /\ MaxTime \in Nat \ {0}

VARIABLES sf,         \* the store
          clock,
          states,     \* childProxyStates
          active,     \* activeRouteID; NoAccount when empty
          inFlight,   \* childProxyRefreshInFlight
          setup,      \* the Setup; it does not change
          worker

vars == <<sf, clock, states, active, inFlight, setup, worker>>

\* A /status answer; named: the child bears the name an admin command asks for.
Status   == [known : BOOLEAN, able : BOOLEAN, score : 0..100, named : BOOLEAN]
NoStatus == [known |-> FALSE, able |-> FALSE, score |-> 0, named |-> FALSE]

\* childProxyRuntime; fetched 0 is a StatusFetchedAt that was never set.
Runtime == [cooldown : Nat, reachable : BOOLEAN, fetched : Nat, status : Status]
Unknown == [cooldown |-> 0, reachable |-> FALSE, fetched |-> 0,
            status |-> [NoStatus EXCEPT !.known = TRUE]]

Replies == {"none", "done", "absent", "failed", "ambiguous"}

NoStore == [accounts |-> << >>, active |-> 1, pinned |-> NoAccount, messages |-> 0,
            settings |-> (CHOOSE s \in Setups : TRUE).store.settings]

Pcs == {"idle", "route", "fetch", "child", "local", "search", "asked", "direct", "forward",
        "done"}

Worker == [pc : Pcs, task : AllTasks, now : 0..MaxTime, attempt : Nat, max : Nat,
           snap : StoreFile, cooling : SUBSET Children, keep : [Children -> Status],
           route : AccountIds \cup {NoAccount}, failed : SUBSET Children,
           turn : 0..(Len(ChildURLs) + 1), named : SUBSET Children, matched : Replies,
           errors : BOOLEAN, reply : Replies,
           applied : [Children -> Nat]]

NoneApplied == [c \in Children |-> 0]

Resting == [pc |-> "idle", task |-> "http", now |-> 0, attempt |-> 0, max |-> 0,
            snap |-> NoStore, cooling |-> {},
            keep |-> [c \in Children |-> NoStatus], route |-> NoAccount, failed |-> {},
            turn |-> 0, named |-> {}, matched |-> "none", errors |-> FALSE,
            reply |-> "none", applied |-> NoneApplied]

Init ==
  /\ setup \in Setups
  /\ sf = setup.store
  /\ clock = 1
  /\ states = [c \in Children |-> Unknown]
  /\ active = NoAccount
  /\ inFlight = FALSE
  /\ worker = [w \in Workers |-> Resting]

TypeOK ==
  /\ sf \in StoreFile
  /\ clock \in 1..MaxTime
  /\ states \in [Children -> Runtime]
  /\ active \in AccountIds \cup {NoAccount}
  /\ inFlight \in BOOLEAN
  /\ setup \in Setups
  /\ worker \in [Workers -> Worker]

-----------------------------------------------------------------------------
(***************************************************************************)
(* What is known of a child                                                *)
(***************************************************************************)

\* childProxyTargetFromState and applyChildProxyStatus.
Target(cooling, status) == [healthy |-> status.able /\ ~cooling, score |-> status.score]

\* cachedChildProxyTargets: a child never asked with success has no status to show.
CachedTarget(runtime, now) ==
  Target(runtime.cooldown > now,
         IF runtime.reachable /\ runtime.fetched # 0 THEN runtime.status ELSE NoStatus)

ShareLeft(score) == [limit |-> 100, used |-> 100 - score]

\* A child the policy must not choose is one that cools down.
ChildTargetAsAccount(c, target, now) ==
  [NewAccount(c, CHOOSE x \in Identities : TRUE) EXCEPT
     !.cooldown = IF target.healthy THEN 0 ELSE now + 1,
     !.quota = [daily |-> ShareLeft(target.score), weekly |-> ShareLeft(target.score),
                additional |-> {}]]

\* currentActiveRouteID; childProxyActiveURL is never set without activeRouteID.
ActiveRoute(s) ==
  IF active # NoAccount THEN active
  ELSE IF s.active \in DOMAIN s.accounts THEN s.accounts[s.active].id ELSE NoAccount

\* routeCandidates: the local accounts, then the children in their order.
RouteCandidates(s, target, now) ==
  s.accounts \o [i \in DOMAIN ChildURLs |->
                   ChildTargetAsAccount(ChildURLs[i], target[ChildURLs[i]], now)]

\* selectRouteFromTargets: the policy chooses in a store made up of the routes;
\* NoAccount when none is healthy.
SelectRoute(s, target, now) ==
  LET candidates == RouteCandidates(s, target, now)
      current    == {i \in DOMAIN candidates : candidates[i].id = ActiveRoute(s)}
      fake       == [s EXCEPT !.accounts = candidates,
                              !.active = IF current = {} THEN 1 ELSE Min(current)]
      i          == SelectAccount(fake, now)
  IN  IF i = NoSelection THEN NoAccount ELSE candidates[i].id

\* childProxyStatusFallback: what a failed query may still answer.
Fallback(runtime, now) ==
  IF runtime.reachable /\ runtime.fetched # 0 /\ now - runtime.fetched <= FailureGrace
  THEN runtime.status ELSE NoStatus

\* Fault: the record is replaced, and what else it held is lost.
RecordAnew(runtime, status, now) ==
  [Unknown EXCEPT !.reachable = status.known, !.fetched = now,
                  !.status = IF status.known THEN status ELSE runtime.status]

\* recordChildProxyStatus.
Record(runtime, status, now) ==
  [runtime EXCEPT !.reachable = status.known, !.fetched = now,
                  !.status = IF status.known THEN status ELSE @]

\* Fault: a duration of 0 is no cooldown.
CooledFor(runtime, seconds) == [runtime EXCEPT !.cooldown = clock + seconds]

\* markChildProxyCooldown.
Cooled(runtime, seconds) ==
  [runtime EXCEPT !.cooldown = clock + (IF seconds <= 0 THEN 1 ELSE seconds)]

-----------------------------------------------------------------------------
(***************************************************************************)
(* Requests                                                                *)
(***************************************************************************)

Set(w, rec) == worker' = [worker EXCEPT ![w] = rec]
End(w)      == Set(w, Resting)

\* Workers once the cooldown of the children cs is over: no request has to keep off
\* them any more.
Lifted(workers, cs) == [v \in Workers |-> [workers[v] EXCEPT !.failed = @ \ cs]]

\* A request arrives; what cooled down long enough is released.
Arrive(w) ==
  /\ worker[w].pc = "idle"
  /\ \E task \in setup.tasks[w] \cap {"http", "ws", "page"} :
       LET over == {c \in Children : states[c].cooldown \in 1..clock}
           new  == [Resting EXCEPT !.task = task, !.now = clock, !.attempt = 1, !.pc = "route",
                      !.max = IF task = "http" THEN Max({1, sf.settings.maxAttempts}) ELSE 1]
       IN  /\ states' = [c \in Children |->
                           [states[c] EXCEPT !.cooldown = IF c \in over THEN 0 ELSE @]]
           /\ worker' = Lifted([worker EXCEPT ![w] = new], over)
  /\ sf' = ExpireCooldowns(sf, clock)
  /\ UNCHANGED <<clock, active, inFlight, setup>>

\* childProxyTargets: the records are copied and a query to every child is on its way,
\* by fetchChildProxyStatus with forceRefresh; each keeps what it can fall back to.
Fallbacks == [c \in Children |-> Fallback(states[c], clock)]
Cooling(now) == {c \in Children : states[c].cooldown > now}

\* The page, the first attempt of a request and a websocket ask all children.
StartQueries(w) ==
  /\ worker[w].pc = "route"
  /\ worker[w].attempt = 1
  /\ Set(w, [worker[w] EXCEPT !.pc = "fetch", !.snap = sf,
                            !.cooling = Cooling(worker[w].now), !.keep = Fallbacks])
  /\ UNCHANGED <<sf, clock, states, active, inFlight, setup>>

\* Fault: the flag is set without looking at it.
StartRefreshAlways(w) ==
  /\ worker[w].pc = "idle"
  /\ "refresh" \in setup.tasks[w]
  /\ inFlight' = TRUE
  /\ Set(w, [Resting EXCEPT !.task = "refresh", !.pc = "fetch", !.keep = Fallbacks])
  /\ UNCHANGED <<sf, clock, states, active, setup>>

\* A /status or usage request starts the refresh in the background, unless one runs.
StartRefresh(w) ==
  /\ worker[w].pc = "idle"
  /\ "refresh" \in setup.tasks[w]
  /\ ~inFlight
  /\ inFlight' = TRUE
  /\ Set(w, [Resting EXCEPT !.task = "refresh", !.pc = "fetch", !.keep = Fallbacks])
  /\ UNCHANGED <<sf, clock, states, active, setup>>

\* The route found, or the end of the request when there is none.
Take(w, route) ==
  Set(w, IF route = NoAccount THEN Resting
         ELSE [worker[w] EXCEPT !.pc = IF route \in Children THEN "child" ELSE "local",
                 !.route = route, !.snap = NoStore, !.cooling = Resting.cooling,
                 !.keep = Resting.keep])

\* A child answers with a report, or the query fails or runs into its timeout (NoStatus).
Answers(c) ==
  {NoStatus} \cup {[known |-> TRUE, able |-> report.able, named |-> c \in setup.named,
                    score |-> IF report.able THEN report.score ELSE 0] : report \in Reports[c]}

\* What a query makes of the record: a failed one leaves it alone as long as the status
\* was recent enough when the query began, and makes the child unreachable otherwise.
Learned(w, c, answer) ==
  IF ~answer.known /\ worker[w].keep[c].known THEN states[c]
  ELSE Record(states[c], answer, clock)

Result(w, c, answer) == IF answer.known THEN answer ELSE worker[w].keep[c]

\* The queries of one worker end, all of them before it goes on.  (Each writes the record
\* of its own child; they are taken together here.)  A request chooses its route with
\* the snapshot and the cooldowns from before the queries.
EndQueries(w, answer) ==
  LET target == [c \in Children |-> Target(c \in worker[w].cooling, Result(w, c, answer[c]))]
  IN  /\ worker[w].pc = "fetch"
      /\ states' = [c \in Children |-> Learned(w, c, answer[c])]
      /\ IF worker[w].task \in {"http", "ws"}
         THEN Take(w, SelectRoute(worker[w].snap, target, worker[w].now)) ELSE End(w)
      /\ inFlight' = IF worker[w].task = "refresh" THEN FALSE ELSE inFlight
      /\ UNCHANGED <<sf, clock, active, setup>>

\* Later attempts use what is known now, at the time the request arrived.
ChooseAgain(w) ==
  /\ worker[w].pc = "route"
  /\ worker[w].attempt > 1
  /\ Take(w, SelectRoute(sf, [c \in Children |-> CachedTarget(states[c], worker[w].now)],
                         worker[w].now))
  /\ UNCHANGED <<sf, clock, states, active, inFlight, setup>>

\* The worker after an attempt over its route failed.
NextAttempt(w) ==
  IF worker[w].attempt < worker[w].max
  THEN [worker[w] EXCEPT !.pc = "route", !.attempt = @ + 1, !.route = NoAccount,
                         !.failed = @ \cup ({worker[w].route} \cap Children)]
  ELSE Resting

\* The child serves the request: markChildProxySuccess.
ChildServes(w) ==
  LET c == worker[w].route
  IN  /\ worker[w].pc = "child"
      /\ states' = [states EXCEPT ![c].cooldown = 0, ![c].reachable = TRUE]
      /\ active' = c
      /\ worker' = Lifted([worker EXCEPT ![w] = Resting], {c})
      /\ UNCHANGED <<sf, clock, inFlight, setup>>

\* 401, 403, 429, 503 and the like: another route is tried while attempts are left.
ChildBacksOff(w) ==
  /\ worker[w].pc = "child"
  /\ \E seconds \in Backoffs :
       states' = [states EXCEPT ![worker[w].route] = Cooled(@, seconds)]
  /\ Set(w, NextAttempt(w))
  /\ UNCHANGED <<sf, clock, active, inFlight, setup>>

\* No answer; a websocket that breaks ends here too, for it has one attempt.
ChildFails(w) ==
  /\ worker[w].pc = "child"
  /\ states' = [states EXCEPT ![worker[w].route] = Cooled(@, sf.settings.cooldownDefault)]
  /\ Set(w, NextAttempt(w))
  /\ UNCHANGED <<sf, clock, active, inFlight, setup>>

\* Any other answer is the client's, or the client left.
PassedOn(w) ==
  /\ worker[w].pc \in {"child", "local"}
  /\ End(w)
  /\ UNCHANGED <<sf, clock, states, active, inFlight, setup>>

\* markSuccess, which ends with markLocalRouteActive; RequestHandler counts messages.
LocalServes(w) ==
  /\ worker[w].pc = "local"
  /\ sf' = MarkSuccess(sf, worker[w].route, FALSE)
  /\ active' = worker[w].route
  /\ End(w)
  /\ UNCHANGED <<clock, states, inFlight, setup>>

\* No auth.json, a rejected token, a retryable answer or none: unlike without
\* children, a missing auth.json is one failed attempt like the others.
LocalFails(w) ==
  /\ worker[w].pc = "local"
  /\ \/ \E reason \in Rejections : sf' = MarkDisabled(sf, worker[w].route, reason)
     \/ \E seconds \in Backoffs : sf' = MarkCooldown(sf, worker[w].route, clock, seconds)
  /\ Set(w, NextAttempt(w))
  /\ UNCHANGED <<clock, states, active, inFlight, setup>>

Tick ==
  /\ clock < MaxTime
  /\ clock' = clock + 1
  /\ UNCHANGED <<sf, states, active, inFlight, setup, worker>>

RouteStep(w) ==
  \/ StartQueries(w) \/ ChooseAgain(w)
  \/ \E answer \in [Children -> UNION {Answers(c) : c \in Children}] :
       (\A c \in Children : answer[c] \in Answers(c)) /\ EndQueries(w, answer)
  \/ ChildServes(w) \/ ChildBacksOff(w) \/ ChildFails(w) \/ PassedOn(w)
  \/ LocalServes(w) \/ LocalFails(w)

-----------------------------------------------------------------------------
(***************************************************************************)
(* Properties                                                              *)
(***************************************************************************)

\* A request does not go back to a child that failed it, until somebody else was
\* served by that child or its cooldown ended: the queries and failures of other
\* requests, which write the same record, do not put it back into rotation.
FailedChildAvoided ==
  \A w \in Workers : worker[w].pc = "child" => worker[w].route \notin worker[w].failed

\* The refresh in the background runs at most once at a time, and its flag never
\* stays behind (refreshChildProxyStatusCache).
OneRefresh ==
  LET refreshing == {w \in Workers : worker[w].pc # "idle" /\ worker[w].task = "refresh"}
  IN  Cardinality(refreshing) = IF inFlight THEN 1 ELSE 0

=============================================================================
