---------------------------- MODULE SelectionLoop ----------------------------
(***************************************************************************)
(* selectAccount used again and again: an otherwise idle pool serves one   *)
(* request after the other, each of them succeeds and makes its account    *)
(* the active one (ProxyServer.markSuccess), and now and then the usage    *)
(* API reports that an account used up some of its quota.                  *)
(***************************************************************************)
EXTENDS AccountPool

CONSTANTS Stores,      \* the stores the loop can start from
          UsageStep    \* percentage points by which a report raises a window

ASSUME SelectionLoopAssumption ==
  /\ Stores \subseteq {s \in StoreFile : Consistent(s)}
  /\ UsageStep \in Nat \ {0}

VARIABLES sf,
          served,   \* the index last served from, or NoSelection
          calm      \* no usage was reported since then

vars == <<sf, served, calm>>

\* All requests arrive at one time; an account is cooling down beyond it or not.
Now == 1

Init ==
  /\ sf \in Stores
  /\ served = NoSelection
  /\ calm = FALSE

Serve ==
  /\ served' = SelectAccount(sf, Now)
  /\ sf' = IF served' = NoSelection THEN sf
           ELSE MarkSuccess(sf, sf.accounts[served'].id, FALSE)
  /\ calm' = TRUE

DrainedBy(w, step) == [w EXCEPT !.used = IF w.limit < @ + step THEN w.limit ELSE @ + step]

\* A usage report: the daily window of one account is drained further.
Report ==
  /\ \E i \in DOMAIN sf.accounts :
       LET daily == sf.accounts[i].quota.daily
       IN  /\ WindowKnown(daily) /\ ~WindowExhausted(daily)
           /\ sf' = [sf EXCEPT !.accounts[i].quota.daily = DrainedBy(daily, UsageStep)]
  /\ calm' = FALSE
  /\ UNCHANGED served

Next == Serve \/ Report

\* Requests keep coming; usage reports need not.
Spec == Init /\ [][Next]_vars /\ WF_vars(Serve)

-----------------------------------------------------------------------------

TypeOK ==
  /\ sf \in StoreFile
  /\ served \in DOMAIN sf.accounts \cup {NoSelection}
  /\ calm \in BOOLEAN

Current == Candidates(sf, Now)

\* A request is served from a healthy account whenever there is one, and from
\* one without quota only when no healthy account has any left.
ServesCandidate ==
  [][LET healthy == HealthyIndexes(sf.accounts, Now)
         spent(i) == QuotaExhausted(sf.accounts[i].quota)
     IN  Serve => IF healthy = {} THEN served' = NoSelection
                  ELSE /\ served' \in healthy
                       /\ spent(served') => \A i \in healthy : spent(i)]_vars

\* usage_balanced: whatever led here, the account served from scores at most
\* delta_percent below the best one (unless the pin decides).
WithinDelta ==
  [][/\ Serve /\ served' # NoSelection
     /\ sf.settings.mode = "usage_balanced" /\ PinnedAmong(sf, Current) = {}
     => \A i \in Current :
          ScoreAt(sf, served') + Delta(sf.settings) * TotalWeight(sf.settings)
            >= ScoreAt(sf, i)]_vars

\* Hysteresis: two accounts do not take turns while no usage is reported.
NoFlapping ==
  [][Serve /\ calm /\ sf.settings.mode # "round_robin" => served' = served]_vars

\* Going up the list from after, and round at its end, i comes before next.
PassedOver(i, after, next) ==
  IF after < next THEN after < i /\ i < next ELSE after < i \/ i < next

\* round_robin: the turn goes from the account served from last to the next
\* candidate of the list, and past none; it is markSuccess that keeps the place.
NobodyPassedOver ==
  [][/\ Serve /\ served \in Current
     /\ sf.settings.mode = "round_robin" /\ PinnedAmong(sf, Current) = {}
     => \A i \in Current : ~PassedOver(i, served, served')]_vars

\* round_robin: every candidate is served from again and again.
RoundRobinVisitsAll ==
  \A id \in AccountIds :
    []<>(/\ sf.settings.mode = "round_robin" /\ PinnedAmong(sf, Current) = {}
         /\ Indexes(sf, id) \cap Current # {}
         => served \in Indexes(sf, id))

=============================================================================
