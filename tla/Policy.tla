------------------------------- MODULE Policy -------------------------------
(***************************************************************************)
(* Account selection: internal/lb/policy.go.                               *)
(*                                                                         *)
(* A store sf carries the ordered list sf.accounts, the index sf.active,   *)
(* the pinned id sf.pinned and sf.settings.  Lists are numbered from 1     *)
(* here and from 0 in the code.                                            *)
(*                                                                         *)
(* Shares of a quota window are whole percentages, as the usage API        *)
(* reports them, and a score is kept multiplied by the sum of the two      *)
(* weights, so that the comparisons of the code stay exact on integers.    *)
(***************************************************************************)
EXTENDS Integers, Sequences, FiniteSets, FiniteSetsExt

CONSTANTS AccountIds,    \* the ids accounts can have
          NoAccount      \* the empty id

ASSUME NoAccountAssumption == NoAccount \notin AccountIds

\* Account.DisabledReason, None being "" (the account is in service).
None            == "none"
DisabledReasons == {"missing-auth", "http-401", "http-403", "refresh-token-reused"}

Modes == {"usage_balanced", "sticky", "round_robin"}

Window   == [limit : Nat, used : Nat]
Quota    == [daily : Window, weekly : Window,
             additional : SUBSET [primary : Window, secondary : Window]]
Settings == [mode : Modes, deltaPercent : Int, dailyWeight : Int, weeklyWeight : Int,
             maxAttempts : Int, cooldownDefault : Int]

Clamp(v, top) == IF v < 0 THEN 0 ELSE IF v > top THEN top ELSE v

\* A window [limit, used] with limit 0 is one the usage API did not report.
WindowKnown(w)     == w.limit > 0
WindowExhausted(w) == WindowKnown(w) /\ w.used >= w.limit
WindowLeft(w)      == Clamp((100 * (w.limit - w.used)) \div w.limit, 100)

UnknownLeft == 30

\* An additional limit is a pair of windows; without any it does not bind.
AdditionalExhausted(l) == WindowExhausted(l.primary) \/ WindowExhausted(l.secondary)

AdditionalLeft(l) ==
  Min({100} \cup {WindowLeft(w) : w \in {v \in {l.primary, l.secondary} : WindowKnown(v)}})

QuotaExhausted(q) ==
  \/ WindowExhausted(q.daily)
  \/ WindowExhausted(q.weekly)
  \/ \E l \in q.additional : AdditionalExhausted(l)

WeightOf(v) == IF v < 0 THEN 0 ELSE v

TotalWeight(settings) == WeightOf(settings.dailyWeight) + WeightOf(settings.weeklyWeight)

KnownLeft(w) == IF WindowKnown(w) THEN WindowLeft(w) ELSE UnknownLeft

\* score times TotalWeight: 0 when both weights are 0, as in the code.
Score(q, settings) ==
  Min({ WeightOf(settings.dailyWeight) * KnownLeft(q.daily)
        + WeightOf(settings.weeklyWeight) * KnownLeft(q.weekly) }
      \cup { TotalWeight(settings) * AdditionalLeft(l) : l \in q.additional })

Healthy(a, now) == a.enabled /\ a.reason = None /\ a.cooldown <= now

HealthyIndexes(accounts, now) == {i \in DOMAIN accounts : Healthy(accounts[i], now)}

EligibleIndexes(accounts, indexes) ==
  {i \in indexes : ~QuotaExhausted(accounts[i].quota)}

\* The accounts a policy chooses among: those with quota left, or every
\* healthy one when none has.
Candidates(sf, now) ==
  LET healthy  == HealthyIndexes(sf.accounts, now)
      eligible == EligibleIndexes(sf.accounts, healthy)
  IN  IF eligible # {} THEN eligible ELSE healthy

PinnedAmong(sf, candidates) == {i \in candidates : sf.accounts[i].id = sf.pinned}

ActiveOr(sf, candidates) == IF sf.active \in DOMAIN sf.accounts THEN sf.active ELSE Min(candidates)

\* Fault: alternates between the first two candidates.
NextOther(candidates, i) ==
  IF candidates = {i} THEN i ELSE Min(candidates \ {i})

NextHealthy(candidates, i) ==
  LET later == {j \in candidates : j > i}
  IN  IF later # {} THEN Min(later) ELSE Min(candidates)

ScoreAt(sf, i) == Score(sf.accounts[i].quota, sf.settings)

BestIndex(sf, candidates) ==
  Min({i \in candidates : \A j \in candidates : ScoreAt(sf, j) <= ScoreAt(sf, i)})

Delta(settings) == WeightOf(settings.deltaPercent)

RoundRobinChoice(candidates, active) ==
  IF active \in candidates THEN NextHealthy(candidates, active) ELSE Min(candidates)

\* Fault: the active account stays, healthy or not.
StickyToAny(candidates, active) == active

StickyChoice(candidates, active) ==
  IF active \in candidates THEN active ELSE Min(candidates)

\* Fault: no hysteresis is ever overcome.
UsageStays(sf, candidates, active) ==
  IF active \in candidates THEN active ELSE BestIndex(sf, candidates)

\* A challenger takes over only when it leads by more than delta_percent.
UsageChoice(sf, candidates, active) ==
  LET best == BestIndex(sf, candidates)
  IN  IF /\ active \in candidates
         /\ ScoreAt(sf, active) >= ScoreAt(sf, best)
                                   - Delta(sf.settings) * TotalWeight(sf.settings)
      THEN active
      ELSE best

PolicyChoice(sf, candidates) ==
  LET active == ActiveOr(sf, candidates)
  IN  CASE sf.settings.mode = "sticky"      -> StickyChoice(candidates, active)
        [] sf.settings.mode = "round_robin" -> RoundRobinChoice(candidates, active)
        [] OTHER                            -> UsageChoice(sf, candidates, active)

NoSelection == 0

\* The index selectAccount returns, or NoSelection for its error: a pinned
\* candidate if there is one, else what the mode chooses.
SelectAccount(sf, now) ==
  LET candidates == Candidates(sf, now)
      pinned     == PinnedAmong(sf, candidates)
  IN  IF candidates = {} THEN NoSelection
      ELSE IF sf.pinned # NoAccount /\ pinned # {} THEN Min(pinned)
      ELSE PolicyChoice(sf, candidates)

=============================================================================
