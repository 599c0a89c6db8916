-------------------------- MODULE SelectionLoopProofs --------------------------
(***************************************************************************)
(* What selectAccount promises a pool that is used again and again, for    *)
(* every pool, every quota and every setting.                              *)
(*                                                                         *)
(* NoFlapping needs an invariant of its own: while no usage is reported,   *)
(* the account served from last is the one selectAccount would choose.     *)
(***************************************************************************)
EXTENDS SelectionLoop, AccountPoolProofs

\* The account served from last would be chosen again.
Settled == sf.settings.mode # "round_robin" => SelectAccount(sf, Now) = served

LoopInv ==
  /\ sf \in StoreFile /\ Consistent(sf)
  /\ served \in DOMAIN sf.accounts \cup {NoSelection}
  /\ calm \in BOOLEAN
  /\ calm => Settled

\* s and t offer selectAccount the same accounts: it sees no difference
\* between them but the active index.
SameOffer(s, t) ==
  /\ DOMAIN t.accounts = DOMAIN s.accounts
  /\ t.pinned = s.pinned /\ t.settings = s.settings
  /\ \A i \in DOMAIN s.accounts :
       /\ t.accounts[i].id = s.accounts[i].id
       /\ t.accounts[i].quota = s.accounts[i].quota
       /\ Healthy(t.accounts[i], Now) <=> Healthy(s.accounts[i], Now)

LEMMA SameOfferSameChoice ==
  ASSUME NEW s, NEW t, SameOffer(s, t)
  PROVE  /\ Candidates(t, Now) = Candidates(s, Now)
         /\ PinnedAmong(t, Candidates(t, Now)) = PinnedAmong(s, Candidates(s, Now))
         /\ \A i \in DOMAIN s.accounts : ScoreAt(t, i) = ScoreAt(s, i)
         /\ BestIndex(t, Candidates(t, Now)) = BestIndex(s, Candidates(s, Now))
<1>1. HealthyIndexes(t.accounts, Now) = HealthyIndexes(s.accounts, Now)
  BY DEF SameOffer, HealthyIndexes
<1>2. EligibleIndexes(t.accounts, HealthyIndexes(t.accounts, Now))
        = EligibleIndexes(s.accounts, HealthyIndexes(s.accounts, Now))
  BY <1>1 DEF SameOffer, EligibleIndexes, HealthyIndexes
<1>3. Candidates(t, Now) = Candidates(s, Now)
  BY <1>1, <1>2 DEF Candidates
<1>4. Candidates(s, Now) \subseteq DOMAIN s.accounts
  BY DEF Candidates, HealthyIndexes, EligibleIndexes
<1>5. PinnedAmong(t, Candidates(t, Now)) = PinnedAmong(s, Candidates(s, Now))
  BY <1>3, <1>4 DEF PinnedAmong, SameOffer
<1>6. \A i \in DOMAIN s.accounts : ScoreAt(t, i) = ScoreAt(s, i)
  BY DEF ScoreAt, SameOffer
<1>7. {i \in Candidates(t, Now) : \A j \in Candidates(t, Now) : ScoreAt(t, j) <= ScoreAt(t, i)}
      = {i \in Candidates(s, Now) : \A j \in Candidates(s, Now) : ScoreAt(s, j) <= ScoreAt(s, i)}
  BY <1>3, <1>4, <1>6
<1> QED
  BY <1>3, <1>5, <1>6, <1>7 DEF BestIndex

\* The account that was chosen and made active keeps what it had to offer.
LEMMA SuccessKeepsOffer ==
  ASSUME NEW s \in StoreFile, Consistent(s), NEW i \in DOMAIN s.accounts,
         Healthy(s.accounts[i], Now)
  PROVE  LET t == MarkSuccess(s, s.accounts[i].id, FALSE)
         IN  SameOffer(s, t) /\ t.active = i
<1> DEFINE id == s.accounts[i].id
           t  == MarkSuccess(s, id, FALSE)
           g  == [j \in DOMAIN s.accounts |->
                    IF s.accounts[j].id = id
                    THEN [InService(s.accounts[j]) EXCEPT !.cooldown = 0]
                    ELSE s.accounts[j]]
<1>1. Indexes(s, id) = {i}
  BY DEF Indexes, Consistent, UniqueIds
<1>2. i \in Nat /\ Min({i}) = i
  <2>1. i \in Nat
    BY AccountsOfStore
  <2> QED
    BY <2>1, MinIsLeast
<1>3. t = [s EXCEPT !.accounts = g, !.active = i, !.messages = @ + 0]
  BY <1>1, <1>2 DEF MarkSuccess, UpdateAccount, StoreFile
<1>4. /\ t.accounts = g /\ t.active = i
      /\ t.pinned = s.pinned /\ t.settings = s.settings
  BY <1>3 DEF StoreFile
<1>5. \A j \in DOMAIN s.accounts :
        /\ g[j].id = s.accounts[j].id /\ g[j].quota = s.accounts[j].quota
        /\ Healthy(g[j], Now) <=> Healthy(s.accounts[j], Now)
  <2> SUFFICES ASSUME NEW j \in DOMAIN s.accounts
               PROVE  /\ g[j].id = s.accounts[j].id /\ g[j].quota = s.accounts[j].quota
                      /\ Healthy(g[j], Now) <=> Healthy(s.accounts[j], Now)
    OBVIOUS
  <2>1. CASE j = i
    <3>1. s.accounts[i] \in Account
      BY AccountsOfStore
    <3>2. g[i] = [InService(s.accounts[i]) EXCEPT !.cooldown = 0]
      OBVIOUS
    <3>3. /\ g[i].id = id /\ g[i].quota = s.accounts[i].quota
          /\ g[i].enabled = TRUE /\ g[i].reason = None /\ g[i].cooldown = 0
      BY <3>1, <3>2 DEF InService, Account
    <3> HIDE DEF g
    <3>4. Healthy(g[i], Now)
      BY <3>3 DEF Healthy, Now
    <3> QED
      BY <2>1, <3>3, <3>4
  <2>2. CASE j # i
    <3>1. s.accounts[j].id # id
      BY <2>2 DEF Consistent, UniqueIds
    <3> QED
      BY <3>1
  <2> QED
    BY <2>1, <2>2
<1> QED
  BY <1>4, <1>5 DEF SameOffer

\* The account selectAccount chose is chosen again once it is active, in every
\* mode but round_robin.
LEMMA ChoiceSettles ==
  ASSUME NEW s \in StoreFile, NEW t, SameOffer(s, t), s.settings.mode # "round_robin",
         SelectAccount(s, Now) # NoSelection, t.active = SelectAccount(s, Now)
  PROVE  SelectAccount(t, Now) = SelectAccount(s, Now)
<1> DEFINE C == Candidates(s, Now)
           i == SelectAccount(s, Now)
           active == ActiveOr(s, C)
<1>1. /\ Candidates(t, Now) = C
      /\ PinnedAmong(t, C) = PinnedAmong(s, C)
      /\ BestIndex(t, C) = BestIndex(s, C)
      /\ \A j \in C : ScoreAt(t, j) = ScoreAt(s, j)
      /\ C \in SUBSET DOMAIN s.accounts /\ C \in SUBSET Nat
      /\ t.pinned = s.pinned /\ t.settings = s.settings
  <2>1. C \in SUBSET DOMAIN s.accounts
    BY DEF Candidates, HealthyIndexes, EligibleIndexes
  <2> QED
    <3>1. t.pinned = s.pinned /\ t.settings = s.settings
      BY DEF SameOffer
    <3>2. C \in SUBSET Nat
      BY <2>1, AccountsOfStore
    <3>3. /\ Candidates(t, Now) = Candidates(s, Now)
          /\ PinnedAmong(t, Candidates(t, Now)) = PinnedAmong(s, Candidates(s, Now))
          /\ \A j \in DOMAIN s.accounts : ScoreAt(t, j) = ScoreAt(s, j)
          /\ BestIndex(t, Candidates(t, Now)) = BestIndex(s, Candidates(s, Now))
      BY SameOfferSameChoice
    <3> QED
      BY <2>1, <3>1, <3>2, <3>3
<1>2. i \in C /\ C # {}
  BY StoreIsPool, SelectAccountIsCandidate
<1>3. CASE s.pinned # NoAccount /\ PinnedAmong(s, C) # {}
  BY <1>1, <1>2, <1>3 DEF SelectAccount
<1>4. CASE ~(s.pinned # NoAccount /\ PinnedAmong(s, C) # {})
  <2>1. i = PolicyChoice(s, C) /\ SelectAccount(t, Now) = PolicyChoice(t, C)
    BY <1>1, <1>2, <1>4 DEF SelectAccount
  <2>2. ActiveOr(t, C) = i
    BY <1>1, <1>2 DEF ActiveOr, SameOffer
  <2>3. CASE s.settings.mode = "sticky"
    BY <1>1, <1>2, <2>1, <2>2, <2>3 DEF PolicyChoice, StickyChoice
  <2>4. CASE s.settings.mode # "sticky"
    <3> DEFINE best == BestIndex(s, C)
               gap  == Delta(s.settings) * TotalWeight(s.settings)
    <3>1. i = UsageChoice(s, C, active) /\ SelectAccount(t, Now) = UsageChoice(t, C, i)
      BY <1>1, <2>1, <2>2, <2>4 DEF PolicyChoice
    <3>2. gap \in Nat
      <4>1. Delta(s.settings) \in Nat /\ TotalWeight(s.settings) \in Nat
        BY DEF StoreFile, Settings, Delta, TotalWeight, WeightOf
      <4> QED
        BY <4>1
    <3>3. \A j \in C : s.accounts[j].quota \in Quota
      BY <1>1, AccountsOfStore DEF Account
    <3>4. s.settings \in Settings
      BY DEF StoreFile
    <3>5. best \in C
      BY <1>1, <1>2, <3>3, <3>4, BestIndexIsBest
    <3>6. \A j \in C : ScoreAt(s, j) \in Int
      BY <3>3, <3>4, ScoreRange DEF ScoreAt, TotalWeight, WeightOf, Settings
    <3> HIDE DEF gap, best, C, i, active
    <3>7. ScoreAt(s, i) >= ScoreAt(s, best) - gap
      BY <1>2, <3>1, <3>2, <3>5, <3>6 DEF UsageChoice, best, gap
    <3>8. ScoreAt(t, i) = ScoreAt(s, i) /\ ScoreAt(t, best) = ScoreAt(s, best)
      BY <1>1, <1>2, <3>5
    <3>9. BestIndex(t, C) = best /\ Delta(t.settings) * TotalWeight(t.settings) = gap
      BY <1>1 DEF best, gap
    <3>10. UsageChoice(t, C, i) = i
      BY <1>2, <3>7, <3>8, <3>9 DEF UsageChoice
    <3> QED
      BY <3>1, <3>10 DEF i
  <2> QED
    BY <2>3, <2>4
<1> QED
  BY <1>3, <1>4

-----------------------------------------------------------------------------

LEMMA LoopInit ==
  ASSUME Init
  PROVE  LoopInv
BY SelectionLoopAssumption DEF Init, LoopInv

LEMMA ServeStep ==
  ASSUME LoopInv, Serve
  PROVE  LoopInv'
<1>1. sf \in StoreFile /\ Consistent(sf) /\ Pool(sf)
  BY StoreIsPool DEF LoopInv
<1>2. CASE served' = NoSelection
  BY <1>2 DEF LoopInv, Serve, Settled
<1>3. CASE served' # NoSelection
  <2> DEFINE id == sf.accounts[served'].id
  <2>1. served' = SelectAccount(sf, Now) /\ served' \in Candidates(sf, Now)
        /\ sf' = MarkSuccess(sf, id, FALSE) /\ calm' = TRUE
    BY <1>1, <1>3, SelectAccountIsCandidate DEF Serve
  <2>2. served' \in DOMAIN sf.accounts /\ Healthy(sf.accounts[served'], Now)
    BY <2>1 DEF Candidates, HealthyIndexes, EligibleIndexes
  <2>3. SameOffer(sf, sf') /\ sf'.active = served'
    BY <1>1, <2>1, <2>2, SuccessKeepsOffer
  <2>4. sf' \in StoreFile /\ Consistent(sf')
    <3>1. FALSE \in BOOLEAN
      OBVIOUS
    <3>2. InPlace(sf, MarkSuccess(sf, id, FALSE))
      BY <1>1, <3>1, MarkSuccessInPlace
    <3> QED
      BY <1>1, <2>1, <3>2, InPlaceConsistent DEF InPlace
  <2>5. Settled'
    BY <1>1, <1>3, <2>1, <2>3, ChoiceSettles DEF Settled, SameOffer
  <2> QED
    BY <2>1, <2>2, <2>3, <2>4, <2>5 DEF LoopInv, SameOffer
<1> QED
  BY <1>2, <1>3

\* A report only drains a window, whose limit stays.
LEMMA ReportStep ==
  ASSUME LoopInv, Report
  PROVE  LoopInv'
<1>1. PICK i \in DOMAIN sf.accounts :
        sf' = [sf EXCEPT !.accounts[i].quota.daily
                           = DrainedBy(sf.accounts[i].quota.daily, UsageStep)]
  BY DEF Report
<1> DEFINE a == sf.accounts[i]
           w == DrainedBy(a.quota.daily, UsageStep)
           b == [a EXCEPT !.quota = [a.quota EXCEPT !.daily = w]]
           g == [sf.accounts EXCEPT ![i] = b]
<1>2. sf \in StoreFile /\ Consistent(sf) /\ a \in Account
  BY <1>1, AccountsOfStore DEF LoopInv
<1>3. w \in Window
  BY <1>2, SelectionLoopAssumption DEF DrainedBy, Account, Quota, Window
<1>4. sf' = [sf EXCEPT !.accounts = g]
  BY <1>1
<1> HIDE DEF w
<1>5. b \in Account /\ b.id = a.id /\ b.syncMessages = a.syncMessages
  BY <1>2, <1>3 DEF Account, Quota
<1> HIDE DEF b
<1>6. /\ g \in [DOMAIN sf.accounts -> Account]
      /\ \A j \in DOMAIN sf.accounts :
           g[j].id = sf.accounts[j].id /\ g[j].syncMessages <= sf.messages
  BY <1>2, <1>5, AccountsOfStore DEF Consistent, SyncedInPast
<1> HIDE DEF g
<1>7. InPlace(sf, sf')
  BY <1>2, <1>4, <1>6, MapAccounts
<1>8. sf' \in StoreFile /\ Consistent(sf') /\ DOMAIN sf'.accounts = DOMAIN sf.accounts
  BY <1>2, <1>7, InPlaceConsistent, AccountsOfStore DEF InPlace
<1> QED
  BY <1>8 DEF LoopInv, Report

\* The invariant of the loop.
THEOREM LoopInvariance == Spec => []LoopInv
<1>1. Init => LoopInv
  BY LoopInit
<1>2. LoopInv /\ [Next]_vars => LoopInv'
  <2>1. ASSUME LoopInv, UNCHANGED vars
        PROVE  LoopInv'
    BY <2>1 DEF LoopInv, Settled, vars
  <2> QED
    BY <2>1, ServeStep, ReportStep DEF Next
<1> QED
  BY <1>1, <1>2, PTL DEF Spec

\* Type correctness: what is served from is an account of the list.
THEOREM LoopTypeCorrect == Spec => []TypeOK
<1>1. LoopInv => TypeOK
  BY DEF LoopInv, TypeOK
<1> QED
  BY <1>1, LoopInvariance, PTL

\* A request is served from a healthy account whenever there is one, and from
\* one without quota only when no healthy account has any left.
THEOREM AlwaysServesCandidate == Spec => ServesCandidate
<1> DEFINE healthy == HealthyIndexes(sf.accounts, Now)
           spent(i) == QuotaExhausted(sf.accounts[i].quota)
           Choice == Serve => IF healthy = {} THEN served' = NoSelection
                              ELSE /\ served' \in healthy
                                   /\ spent(served') => \A i \in healthy : spent(i)
<1>1. LoopInv => Choice
  <2> SUFFICES ASSUME LoopInv, Serve
               PROVE  Choice
    OBVIOUS
  <2>1. Pool(sf) /\ served' = SelectAccount(sf, Now)
    BY StoreIsPool DEF LoopInv, Serve
  <2>2. served' = NoSelection <=> healthy = {}
    BY <2>1, SelectAccountIsCandidate
  <2>3. served' # NoSelection => served' \in Candidates(sf, Now)
    BY <2>1, SelectAccountIsCandidate
  <2> QED
    BY <2>2, <2>3 DEF Candidates, EligibleIndexes
<1>2. LoopInv /\ [Next]_vars => [Choice]_vars
  BY <1>1
<1> QED
  BY <1>2, LoopInvariance, PTL DEF Spec, ServesCandidate

\* usage_balanced never serves from an account that scores more than
\* delta_percent below the best one, unless the pin decides.
THEOREM AlwaysWithinDelta == Spec => WithinDelta
<1> DEFINE Close ==
             /\ Serve /\ served' # NoSelection
             /\ sf.settings.mode = "usage_balanced" /\ PinnedAmong(sf, Current) = {}
             => \A i \in Current :
                  ScoreAt(sf, served') + Delta(sf.settings) * TotalWeight(sf.settings)
                    >= ScoreAt(sf, i)
<1>1. LoopInv => Close
  <2> SUFFICES ASSUME LoopInv, Serve, served' # NoSelection,
                      sf.settings.mode = "usage_balanced", PinnedAmong(sf, Current) = {}
               PROVE  \A i \in Current :
                        ScoreAt(sf, served') + Delta(sf.settings) * TotalWeight(sf.settings)
                          >= ScoreAt(sf, i)
    OBVIOUS
  <2> DEFINE C == Candidates(sf, Now)
             active == ActiveOr(sf, C)
             best == BestIndex(sf, C)
             gap  == Delta(sf.settings) * TotalWeight(sf.settings)
  <2>1. sf \in StoreFile /\ Pool(sf) /\ served' = SelectAccount(sf, Now)
    BY StoreIsPool DEF LoopInv, Serve
  <2>2. served' \in C
    BY <2>1, SelectAccountIsCandidate
  <2>3. C \in SUBSET DOMAIN sf.accounts /\ C \in SUBSET Nat /\ C # {}
    <3>1. C \in SUBSET DOMAIN sf.accounts
      BY DEF Candidates, HealthyIndexes, EligibleIndexes
    <3> QED
      BY <2>1, <2>2, <3>1, AccountsOfStore
  <2>4. served' = UsageChoice(sf, C, active)
    BY <2>1, <2>3 DEF SelectAccount, PolicyChoice, Current
  <2>5. sf.settings \in Settings /\ \A j \in C : sf.accounts[j].quota \in Quota
    BY <2>1, <2>3, AccountsOfStore DEF StoreFile, Account
  <2>6. best \in C /\ \A j \in C : ScoreAt(sf, j) <= ScoreAt(sf, best)
    BY <2>3, <2>5, BestIndexIsBest
  <2>7. gap \in Nat
    <3>1. Delta(sf.settings) \in Nat /\ TotalWeight(sf.settings) \in Nat
      BY <2>5 DEF Settings, Delta, TotalWeight, WeightOf
    <3> QED
      BY <3>1
  <2>8. \A j \in C : ScoreAt(sf, j) \in Int
    BY <2>5, ScoreRange DEF ScoreAt, TotalWeight, WeightOf, Settings
  <2>9. Current = C
    BY DEF Current
  <2> HIDE DEF C, active, best, gap
  <2>10. ScoreAt(sf, served') >= ScoreAt(sf, best) - gap
    BY <2>2, <2>4, <2>6, <2>7, <2>8 DEF UsageChoice, best, gap
  <2> QED
    BY <2>2, <2>6, <2>7, <2>8, <2>9, <2>10 DEF gap
<1>2. LoopInv /\ [Next]_vars => [Close]_vars
  BY <1>1
<1> QED
  BY <1>2, LoopInvariance, PTL DEF Spec, WithinDelta

\* While no usage is reported, two accounts do not take turns: hysteresis and
\* stickiness make the choice a fixed point.
THEOREM NeverFlaps == Spec => NoFlapping
<1> DEFINE Steady == Serve /\ calm /\ sf.settings.mode # "round_robin" => served' = served
<1>1. LoopInv => Steady
  BY DEF LoopInv, Serve, Settled
<1>2. LoopInv /\ [Next]_vars => [Steady]_vars
  BY <1>1
<1> QED
  BY <1>2, LoopInvariance, PTL DEF Spec, NoFlapping

-----------------------------------------------------------------------------

\* The account served from last is the active one.
ActiveServed == served # NoSelection => sf.active = served

LEMMA ActiveServedStep ==
  ASSUME LoopInv, ActiveServed, [Next]_vars
  PROVE  ActiveServed'
<1>1. CASE Serve
  <2> SUFFICES ASSUME served' # NoSelection
               PROVE  sf'.active = served'
    BY DEF ActiveServed
  <2>1. sf \in StoreFile /\ Consistent(sf) /\ Pool(sf)
    BY StoreIsPool DEF LoopInv
  <2>2. served' \in Candidates(sf, Now) /\ sf' = MarkSuccess(sf, sf.accounts[served'].id, FALSE)
    BY <1>1, <2>1, SelectAccountIsCandidate DEF Serve
  <2>3. served' \in DOMAIN sf.accounts /\ Healthy(sf.accounts[served'], Now)
    BY <2>2 DEF Candidates, HealthyIndexes, EligibleIndexes
  <2> QED
    BY <2>1, <2>2, <2>3, SuccessKeepsOffer
<1>2. CASE Report
  <2>1. PICK i \in DOMAIN sf.accounts :
          sf' = [sf EXCEPT !.accounts[i].quota.daily
                             = DrainedBy(sf.accounts[i].quota.daily, UsageStep)]
    BY <1>2 DEF Report
  <2>2. sf'.active = sf.active /\ served' = served
    BY <1>2, <2>1 DEF Report, LoopInv, StoreFile
  <2> QED
    BY <2>2 DEF ActiveServed
<1>3. CASE UNCHANGED vars
  BY <1>3 DEF ActiveServed, vars
<1> QED
  BY <1>1, <1>2, <1>3 DEF Next

\* round_robin goes on to the next candidate of the list and passes over none,
\* because markSuccess makes the account served from the active one.
THEOREM PassesNobodyOver == Spec => NobodyPassedOver
<1> DEFINE Onward ==
             /\ Serve /\ served \in Current
             /\ sf.settings.mode = "round_robin" /\ PinnedAmong(sf, Current) = {}
             => \A i \in Current : ~PassedOver(i, served, served')
<1>1. Init => ActiveServed
  BY DEF Init, ActiveServed
<1>2. LoopInv /\ ActiveServed /\ [Next]_vars => ActiveServed'
  BY ActiveServedStep
<1>3. LoopInv /\ ActiveServed => Onward
  <2> SUFFICES ASSUME LoopInv, ActiveServed, Serve, served \in Current,
                      sf.settings.mode = "round_robin", PinnedAmong(sf, Current) = {},
                      NEW i \in Current
               PROVE  ~PassedOver(i, served, served')
    OBVIOUS
  <2> DEFINE C == Candidates(sf, Now)
             later == {j \in C : j > served}
  <2>1. sf \in StoreFile /\ Current = C /\ served \in C
    BY DEF LoopInv, Current
  <2>2. C \in SUBSET DOMAIN sf.accounts /\ C \in SUBSET (Nat \ {0})
    <3>1. C \in SUBSET DOMAIN sf.accounts
      BY DEF Candidates, HealthyIndexes, EligibleIndexes
    <3> QED
      BY <2>1, <3>1, AccountsOfStore
  <2>3. ActiveOr(sf, C) = served
    BY <2>1, <2>2 DEF ActiveServed, ActiveOr, NoSelection
  <2>4. served' = NextHealthy(C, served)
    BY <2>1, <2>3
    DEF Serve, SelectAccount, Current, PolicyChoice, RoundRobinChoice
  <2>5. i \in C /\ C \in SUBSET Nat /\ later \in SUBSET Nat
    BY <2>1, <2>2
  <2> HIDE DEF C
  <2>6. CASE later # {}
    <3>1. served' = Min(later)
      BY <2>4, <2>6 DEF NextHealthy
    <3>2. Min(later) \in later /\ \A k \in later : Min(later) <= k
      BY <2>5, <2>6, MinIsLeast
    <3>3. served \in Nat /\ i \in Nat /\ served' \in later /\ served' \in Nat
      BY <2>1, <2>5, <3>1, <3>2
    <3>4. served < served'
      BY <3>3
    <3>5. i > served => i \in later
      BY <2>5
    <3>6. i > served => served' <= i
      BY <3>1, <3>2, <3>5
    <3> HIDE DEF later
    <3> QED
      BY <3>3, <3>4, <3>6 DEF PassedOver
  <2>7. CASE later = {}
    <3>1. served' = Min(C)
      BY <2>4, <2>7 DEF NextHealthy
    <3>2. Min(C) \in C /\ \A k \in C : Min(C) <= k
      BY <2>1, <2>5, MinIsLeast
    <3>3. served \in Nat /\ i \in Nat /\ served' \in Nat
      BY <2>1, <2>5, <3>1, <3>2
    <3>4. ~(i > served)
      BY <2>5, <2>7
    <3>5. served' <= i /\ served' <= served
      BY <2>1, <2>5, <3>1, <3>2
    <3> HIDE DEF later
    <3> QED
      BY <3>3, <3>4, <3>5 DEF PassedOver
  <2> QED
    BY <2>6, <2>7
<1>4. LoopInv /\ ActiveServed /\ [Next]_vars => [Onward]_vars
  BY <1>3
<1>5. Spec => []ActiveServed
  BY <1>1, <1>2, LoopInvariance, PTL DEF Spec
<1>6. Spec => [][Onward]_vars
  BY <1>4, <1>5, LoopInvariance, PTL DEF Spec
<1> QED
  BY <1>6 DEF NobodyPassedOver

=============================================================================
