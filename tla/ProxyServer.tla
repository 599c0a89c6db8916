------------------------------ MODULE ProxyServer ------------------------------
(***************************************************************************)
(* The proxy process: its request handlers, the quota refresh, the admin   *)
(* API and the config reloader, all over one store.                        *)
(***************************************************************************)
EXTENDS QuotaRefresh, AdminApi

CONSTANT Stores    \* the stores the proxy may find at start

\* What OpenStore establishes, as long as no two account homes have names that
\* differ only in case.
ASSUME StoresAssumption ==
  Stores \subseteq {s \in StoreFile : Consistent(s) /\ PinnedKnown(s)}

vars == <<sf, homes, clock, req, refreshInFlight, refresh, admin>>

\* OpenStore has reconciled the accounts with their homes.
Init ==
  /\ sf \in Stores
  /\ homes = [id \in AccountIds |->
                IF Indexes(sf, id) = {} THEN MissingAuth
                ELSE sf.accounts[Min(Indexes(sf, id))].identity]
  /\ clock = 1
  /\ req = [r \in Requests |-> Idle]
  /\ refreshInFlight = FALSE
  /\ refresh = [o \in Owners |-> Off]
  /\ admin = [a \in Admins |-> AdminIdle]

\* A step of a handler that has a request, and a step of a quota walk.
Handling(r) ==
  /\ \/ Handle(r) /\ UNCHANGED <<refreshInFlight, refresh>>
     \/ JoinRefresh(r)
     \/ SkipRefresh(r)
  /\ UNCHANGED admin

Walking(o) == Walk(o) /\ UNCHANGED admin

Accept ==
  /\ \E r \in Requests : Arrive(r)
  /\ UNCHANGED <<refreshInFlight, refresh, admin>>

StartWalk ==
  /\ \E o \in MaintenanceLoops \cup StatusRequests : StartRefresh(o) \/ AskStatus(o)
  /\ UNCHANGED admin

Configure ==
  /\ ReloadSettings \/ \E a \in Admins : Administer(a)
  /\ UNCHANGED <<req, refreshInFlight, refresh>>

PassTime == Tick /\ UNCHANGED <<req, refreshInFlight, refresh, admin>>

Next ==
  \/ Accept
  \/ \E r \in Requests : Handling(r)
  \/ StartWalk
  \/ \E o \in Owners : Walking(o)
  \/ Configure
  \/ PassTime

(***************************************************************************)
(* A handler that can step does: goroutines are scheduled, the token       *)
(* refresh and the usage fetch run under a timeout, and an upstream either *)
(* answers, breaks the connection or is left by the client.  Nobody has to *)
(* send a request, and the clock need not advance.                         *)
(***************************************************************************)
Fairness ==
  /\ \A r \in Requests : WF_vars(Handling(r))
  /\ \A o \in Owners : WF_vars(Walking(o))

Spec == Init /\ [][Next]_vars /\ Fairness

-----------------------------------------------------------------------------

TypeOK ==
  /\ sf \in StoreFile
  /\ homes \in [AccountIds -> Identities \cup {MissingAuth}]
  /\ clock \in Nat
  /\ req \in [Requests -> Request]
  /\ refreshInFlight \in BOOLEAN
  /\ refresh \in [Owners -> Refresh]
  /\ admin \in [Admins -> AdminState]

\* The store keeps its shape under every interleaving of its writers: ids stay
\* unique whatever imports and removals do, the active index stays in the list
\* although accounts are removed between a request's pick and its MarkSuccess,
\* and no late quota walk records a message count that is yet to come.
StoreConsistent == Consistent(sf)

\* At most one quota walk is under way, and the flag says whether one is.
OneRefresh ==
  /\ refreshInFlight <=> \E o \in Owners : Underway(refresh[o])
  /\ \A o, p \in Owners : Underway(refresh[o]) /\ Underway(refresh[p]) => o = p

-----------------------------------------------------------------------------

AccountOf(s, id) == s.accounts[Min(Indexes(s, id))]

\* A request that has its account's credentials, or waits for an answer to them.
Vouching(r) == req[r].pc \in {"adopt", "send", "reauth", "resend"}

\* A walk that has found credentials for the account it visits.
Visiting(o) == refresh[o].pc \in {"preauth", "fetch", "reauth", "refetch"}

\* The accounts that are in the pool before and after a step.
Surviving == Known(sf) \cap Known(sf')

\* The message counter an account was last synchronized at only moves on, so
\* no late walk undoes the bookkeeping of a later one.
SyncNeverRewinds ==
  [][\A id \in Surviving :
       AccountOf(sf', id).syncMessages >= AccountOf(sf, id).syncMessages]_vars

\* A cooldown that is still running is cut short by nothing but the answer of
\* a request that was sent to the account: no stale copy of the account
\* written back by the quota walk or the admin API ends it.
CooldownHonoured ==
  [][\A id \in Surviving :
       \/ AccountOf(sf, id).cooldown <= clock
       \/ AccountOf(sf', id).cooldown >= AccountOf(sf, id).cooldown
       \/ \E r \in Requests : Waiting(r) /\ req[r].acct = id /\ req'[r] # req[r]]_vars

\* An attempt that was sent to an account and fails leaves the account not
\* healthy at the request's own time: before another attempt can pick it again,
\* somebody else must have put it back into service.  An attempt that could not
\* be sent at all is held against nobody (Unsendable).
LeavesFailedAccount ==
  [][\A r \in Requests :
       /\ req'[r].pc = "pick" /\ req'[r].attempt > req[r].attempt
       /\ req[r].pc # "unsendable"
       /\ req[r].acct \in Known(sf')
       => ~Healthy(AccountOf(sf', req[r].acct), req[r].now)]_vars

\* An account out of service comes back by the hand of somebody who deals with
\* that account: a request that adopts, renews or uses its credentials, the
\* quota walk visiting it, or an administrator registering it.  No update made
\* for another account, and no passing of time, does it.
ReturnsToService ==
  [][\A id \in Surviving :
       \/ AccountOf(sf, id).enabled
       \/ ~AccountOf(sf', id).enabled
       \/ \E r \in Requests : Vouching(r) /\ req[r].acct = id /\ req'[r] # req[r]
       \/ \E o \in Owners : Visiting(o) /\ Current(o).id = id /\ refresh'[o] # refresh[o]
       \/ \E a \in Admins : /\ AdminStep(a, "upsert") /\ admin[a].id = id
                            /\ admin'[a] # admin[a]]_vars

\* The pin comes to name nobody in one way: account/pin stores an id that was
\* in the pool when it was looked up and has been removed since, by another
\* administrator.  Every other step that takes an account away takes the pin
\* along.
PinLost ==
  [][PinnedKnown(sf) /\ ~PinnedKnown(sf')
     => \E a \in Admins : /\ AdminStep(a, "pin") /\ admin[a].id \notin Known(sf)
                          /\ sf'.pinned = admin[a].id /\ admin'[a] # admin[a]]_vars

\* The pin is lost only when the operator moves it (nothing else changes
\* then), or when its account is removed or loses its credentials: neither a
\* cooldown nor a 403 takes it away.
PinKept ==
  [][sf.pinned \notin {NoAccount, sf'.pinned}
     => \/ sf'.accounts = sf.accounts
        \/ sf.pinned \notin Known(sf')
        \/ AccountOf(sf', sf.pinned).reason \notin {None, "http-403"}]_vars

\* Every accepted request is answered.
RequestAnswered == \A r \in Requests : req[r].pc # "idle" ~> req[r].pc = "done"

\* The flag is given back, so the quotas go on being refreshed.
RefreshEnds == refreshInFlight ~> ~refreshInFlight

-----------------------------------------------------------------------------
(***************************************************************************)
(* What README.md says of the proxy and the code does not do; each is      *)
(* refuted by a run.                                                       *)
(***************************************************************************)

\* README.md: "After attempts are exhausted, proxy returns last upstream
\* response (or 503)": the response a client gets still has its body.
BodyDelivered == \A r \in Requests : req[r].pc = "done" => req[r].last.body # "closed"

\* README.md: "After attempts are exhausted, proxy returns last upstream
\* response (or 503)": while a healthy account is left, a request is turned
\* away with 503 only after its last attempt.
FailsOverToHealthy ==
  [][\A r \in Requests :
       /\ req[r].pc # "done" /\ req'[r].pc = "done" /\ req'[r].last = Unavailable
       => \/ HealthyIndexes(sf'.accounts, req[r].now) = {}
          \/ req[r].attempt = req[r].max]_vars

\* README.md: "sticky: keep active while healthy": removing another account
\* leaves the active account active.
ActiveSurvives ==
  [][/\ sf.settings.mode = "sticky"
     /\ sf.active \in DOMAIN sf.accounts
     /\ Healthy(sf.accounts[sf.active], clock)
     /\ Len(sf'.accounts) < Len(sf.accounts)
     /\ sf.accounts[sf.active].id \in Known(sf')
     => sf'.accounts[sf'.active].id = sf.accounts[sf.active].id]_vars

=============================================================================
