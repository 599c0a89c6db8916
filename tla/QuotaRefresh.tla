----------------------------- MODULE QuotaRefresh -----------------------------
(***************************************************************************)
(* maybeRefreshQuota of internal/lb/proxy.go.                              *)
(*                                                                         *)
(* The maintenance loop runs it on every tick, a status request runs it    *)
(* forced, and every proxied request runs it before it picks an account.   *)
(* refreshInFlight admits one of them at a time and the others go on       *)
(* without.  The one admitted walks over the accounts of the snapshot it   *)
(* took, however old that snapshot becomes.                                *)
(***************************************************************************)
EXTENDS RequestHandler

CONSTANTS MaintenanceLoops,  \* the maintenance loop (one, or none)
          StatusRequests,    \* status requests with refresh=1, or their background refresh
          RefreshInterval,   \* quota.refresh_interval_minutes, on this model's clock
          RefreshMessages    \* quota.refresh_interval_messages

ASSUME QuotaRefreshAssumption ==
  /\ Requests \cap (MaintenanceLoops \cup StatusRequests) = {}
  /\ MaintenanceLoops \cap StatusRequests = {}
  /\ RefreshInterval \in Nat \ {0}
  /\ RefreshMessages \in Nat \ {0}

VARIABLES refreshInFlight,
          refresh    \* owner -> where its walk over the accounts stands

Owners == Requests \cup MaintenanceLoops \cup StatusRequests

RefreshPcs == {"off", "asked", "snapshot", "load", "missing", "preauth", "fetch",
               "reauth", "refetch"}

\* What the walk uses of an account of its snapshot.
Entry == [id : AccountIds, reason : DisabledReasons \cup {None}, due : BOOLEAN]

Refresh == [pc : RefreshPcs, todo : Seq(Entry), messages : Nat, now : Nat,
            identity : Identities \cup {MissingAuth}]

Off == [pc |-> "off", todo |-> << >>, messages |-> 0, now |-> 0, identity |-> MissingAuth]

WindowMissing(l) == ~WindowKnown(l.primary) /\ ~WindowKnown(l.secondary)

DueForRefresh(a, messages, now) ==
  \/ a.synced = 0
  \/ now - a.synced >= RefreshInterval
  \/ messages - a.syncMessages >= RefreshMessages
  \/ ~WindowKnown(a.quota.daily) \/ ~WindowKnown(a.quota.weekly)
  \/ \E l \in a.quota.additional : WindowMissing(l)

Forced(o) == o \in StatusRequests

At(o, pc) == refresh[o].pc = pc

\* A walk that holds refreshInFlight.
Underway(w) == w.pc \notin {"off", "asked"}

\* The accounts of the store, with what decides how each is visited.
Worklist(o) ==
  [i \in DOMAIN sf.accounts |->
     [id     |-> sf.accounts[i].id,
      reason |-> sf.accounts[i].reason,
      due    |-> Forced(o) \/ DueForRefresh(sf.accounts[i], sf.messages, refresh[o].now)]]

\* Fault: the flag is set without looking at it.
AdmittedAlways(o, now) ==
  /\ refreshInFlight' = TRUE
  /\ refresh' = [refresh EXCEPT ![o] = [Off EXCEPT !.pc = "snapshot", !.now = now]]

\* The walk won the flag.
Admitted(o, now) ==
  /\ ~refreshInFlight
  /\ refreshInFlight' = TRUE
  /\ refresh' = [refresh EXCEPT ![o] = [Off EXCEPT !.pc = "snapshot", !.now = now]]

\* A tick of the maintenance loop; a tick while a walk is under way does nothing.
StartRefresh(o) ==
  /\ o \in MaintenanceLoops /\ At(o, "off")
  /\ Admitted(o, clock)
  /\ UNCHANGED <<sf, homes, clock, req>>

\* A status request clears expired cooldowns ...
AskStatus(o) ==
  /\ o \in StatusRequests /\ At(o, "off")
  /\ sf' = ExpireCooldowns(sf, clock)
  /\ refresh' = [refresh EXCEPT ![o] = [Off EXCEPT !.pc = "asked", !.now = clock]]
  /\ UNCHANGED <<homes, clock, req, refreshInFlight>>

\* ... and walks, forced: itself when it was asked to refresh, in the
\* background when it was not.
StatusRefresh(o) ==
  /\ o \in StatusRequests /\ At(o, "asked")
  /\ \/ Admitted(o, refresh[o].now)
     \/ /\ refreshInFlight
        /\ refresh' = [refresh EXCEPT ![o] = Off]
        /\ UNCHANGED refreshInFlight
  /\ UNCHANGED <<sf, homes, clock, req>>

\* A request runs the walk itself, with the time of its arrival ...
JoinRefresh(r) ==
  /\ req[r].pc = "quota"
  /\ Admitted(r, req[r].now)
  /\ req' = [req EXCEPT ![r].pc = "refreshing"]
  /\ UNCHANGED <<sf, homes, clock>>

\* ... unless another one is under way.
SkipRefresh(r) ==
  /\ req[r].pc = "quota" /\ refreshInFlight
  /\ req' = [req EXCEPT ![r].pc = "begin"]
  /\ UNCHANGED <<sf, homes, clock, refreshInFlight, refresh>>

TakeSnapshot(o) ==
  /\ At(o, "snapshot")
  /\ refresh' = [refresh EXCEPT ![o].pc = "load", ![o].todo = Worklist(o),
                                ![o].messages = sf.messages]
  /\ UNCHANGED <<sf, homes, clock, req, refreshInFlight>>

Current(o) == Head(refresh[o].todo)

GoTo(o, pc) == refresh' = [refresh EXCEPT ![o].pc = pc]

NextEntry(o) ==
  refresh' = [refresh EXCEPT ![o].pc = "load", ![o].todo = Tail(@), ![o].identity = MissingAuth]

RefreshSkip(o) ==
  /\ At(o, "load") /\ refresh[o].todo # << >> /\ ~Current(o).due
  /\ NextEntry(o)
  /\ UNCHANGED <<sf, homes, clock, req, refreshInFlight>>

\* LoadAuth reads the account's home.  A forced walk passes over accounts
\* without auth.json and over accounts whose refresh token was used before.
RefreshLoad(o) ==
  /\ At(o, "load") /\ refresh[o].todo # << >> /\ Current(o).due
  /\ LET found == homes[Current(o).id]
     IN  IF found = MissingAuth
         THEN IF Forced(o) THEN NextEntry(o) ELSE GoTo(o, "missing")
         ELSE IF Forced(o) /\ Current(o).reason = "refresh-token-reused"
         THEN NextEntry(o)
         ELSE refresh' = [refresh EXCEPT
                ![o].identity = found,
                ![o].pc = IF Current(o).reason = "http-401" THEN "preauth" ELSE "fetch"]
  /\ UNCHANGED <<sf, homes, clock, req, refreshInFlight>>

RefreshMissing(o) ==
  /\ At(o, "missing")
  /\ sf' = MarkDisabled(sf, Current(o).id, "missing-auth")
  /\ NextEntry(o)
  /\ UNCHANGED <<homes, clock, req, refreshInFlight>>

\* The token is renewed before the usage is fetched (the snapshot said
\* http-401), or because fetching it was rejected.
RefreshRenew(o) ==
  /\ At(o, "preauth") \/ At(o, "reauth")
  /\ LET found == homes[Current(o).id]
     IN  /\ found # MissingAuth
         /\ sf' = MarkAuthRecovered(sf, Current(o).id, found)
         /\ refresh' = [refresh EXCEPT ![o].identity = found,
                                       ![o].pc = IF @ = "preauth" THEN "fetch" ELSE "refetch"]
  /\ UNCHANGED <<homes, clock, req, refreshInFlight>>

\* The usage arrives and is written back over whatever became of the account.
RefreshRecord(o) ==
  /\ At(o, "fetch") \/ At(o, "refetch")
  /\ \E quota \in Quotas :
       sf' = RecordQuota(sf, Current(o).id, refresh[o].identity, quota,
                         refresh[o].now, refresh[o].messages)
  /\ NextEntry(o)
  /\ UNCHANGED <<homes, clock, req, refreshInFlight>>

\* The usage API answers 401 or 403.
RefreshRejected(o) ==
  /\ At(o, "fetch")
  /\ GoTo(o, "reauth")
  /\ UNCHANGED <<sf, homes, clock, req, refreshInFlight>>

\* Any error that ends the visit: the token cannot be renewed, or the usage
\* not fetched.  The account stays as it is.
RefreshError(o) ==
  /\ refresh[o].pc \in {"preauth", "fetch", "reauth", "refetch"}
  /\ NextEntry(o)
  /\ UNCHANGED <<sf, homes, clock, req, refreshInFlight>>

\* Fault: the flag is not given back.
EndKeepsFlag(o) ==
  /\ At(o, "load") /\ refresh[o].todo = << >>
  /\ refresh' = [refresh EXCEPT ![o] = Off]
  /\ req' = IF o \in Requests THEN [req EXCEPT ![o].pc = "begin"] ELSE req
  /\ UNCHANGED <<sf, homes, clock, refreshInFlight>>

\* Fault: the request that ran the walk is not resumed.
EndForgetsRequest(o) ==
  /\ At(o, "load") /\ refresh[o].todo = << >>
  /\ refreshInFlight' = FALSE
  /\ refresh' = [refresh EXCEPT ![o] = Off]
  /\ UNCHANGED <<sf, homes, clock, req>>

\* The walk is over and the flag is given back; a request goes on.
EndRefresh(o) ==
  /\ At(o, "load") /\ refresh[o].todo = << >>
  /\ refreshInFlight' = FALSE
  /\ refresh' = [refresh EXCEPT ![o] = Off]
  /\ req' = IF o \in Requests THEN [req EXCEPT ![o].pc = "begin"] ELSE req
  /\ UNCHANGED <<sf, homes, clock>>

Walk(o) ==
  \/ StatusRefresh(o) \/ TakeSnapshot(o)
  \/ RefreshSkip(o) \/ RefreshLoad(o) \/ RefreshMissing(o) \/ RefreshRenew(o)
  \/ RefreshRecord(o) \/ RefreshRejected(o) \/ RefreshError(o) \/ EndRefresh(o)

=============================================================================
