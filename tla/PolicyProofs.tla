----------------------------- MODULE PolicyProofs -----------------------------
(***************************************************************************)
(* What selectAccount returns, for every pool.                             *)
(*                                                                         *)
(* The choice of the best score is the only part that takes an argument:   *)
(* scores are bounded by 100 times the weights, so among the candidates    *)
(* there is one that no other beats.                                       *)
(***************************************************************************)
EXTENDS Policy, WellFoundedInduction, TLAPS

\* A non-empty set of naturals has a least element.
LEMMA LeastExists ==
  ASSUME NEW S \in SUBSET Nat, S # {}
  PROVE  \E m \in S : \A k \in S : m <= k
<1> DEFINE R == OpToRel(<, Nat)
<1>1. IsWellFoundedOn(R, Nat)
  BY NatLessThanWellFounded
<1>2. \A k, m \in Nat : k < m => <<k, m>> \in R
  BY DEF OpToRel
<1> HIDE DEF R
<1>3. PICK m \in S : \A k \in S : <<k, m>> \notin R
  BY <1>1, WFMin
<1>4. \A k \in S : ~(k < m)
  BY <1>2, <1>3
<1> QED
  BY <1>4

\* Min is that element.
LEMMA MinIsLeast ==
  ASSUME NEW S \in SUBSET Nat, S # {}
  PROVE  Min(S) \in S /\ \A k \in S : Min(S) <= k
BY LeastExists DEF Min

\* A non-empty set of naturals below a bound has a greatest element.
LEMMA GreatestExists ==
  ASSUME NEW B \in Nat, NEW S \in SUBSET (0..B), S # {}
  PROVE  \E m \in S : \A k \in S : k <= m
<1> DEFINE T == {B - k : k \in S}
<1>1. T \in SUBSET Nat /\ T # {}
  <2>1. \A k \in S : k \in Int /\ B - k \in Nat
    OBVIOUS
  <2> QED
    BY <2>1
<1>2. PICK t \in T : \A u \in T : t <= u
  BY <1>1, LeastExists
<1>3. PICK m \in S : t = B - m
  OBVIOUS
<1>4. \A k \in S : t <= B - k
  BY <1>2
<1> QED
  BY <1>3, <1>4

-----------------------------------------------------------------------------

\* What is left of a known window is a whole percentage.
LEMMA WindowLeftRange ==
  ASSUME NEW w \in Window, WindowKnown(w)
  PROVE  WindowLeft(w) \in 0..100
<1>1. w.limit \in Nat \ {0} /\ 100 * (w.limit - w.used) \in Int
  BY DEF Window, WindowKnown
<1>2. (100 * (w.limit - w.used)) \div w.limit \in Int
  BY <1>1
<1> QED
  BY <1>2 DEF WindowLeft, Clamp

LEMMA AdditionalLeftRange ==
  ASSUME NEW l \in [primary : Window, secondary : Window]
  PROVE  AdditionalLeft(l) \in 0..100
<1> DEFINE known == {v \in {l.primary, l.secondary} : WindowKnown(v)}
           S     == {100} \cup {WindowLeft(w) : w \in known}
<1>1. S \in SUBSET (0..100) /\ S \in SUBSET Nat /\ S # {}
  BY WindowLeftRange
<1>2. AdditionalLeft(l) = Min(S)
  BY DEF AdditionalLeft
<1> HIDE DEF S
<1> QED
  BY <1>1, <1>2, MinIsLeast

LEMMA Share ==
  ASSUME NEW w \in Nat, NEW k \in 0..100
  PROVE  w * k \in 0..(100 * w)
<1>1. w * k \in Nat /\ w * (100 - k) \in Nat
  OBVIOUS
<1>2. w * (100 - k) = 100 * w - w * k
  OBVIOUS
<1> QED
  BY <1>1, <1>2

\* A score lies between 0 and 100 times the sum of the weights.
LEMMA ScoreRange ==
  ASSUME NEW q \in Quota, NEW settings \in Settings
  PROVE  Score(q, settings) \in 0..(100 * TotalWeight(settings))
<1> DEFINE d == WeightOf(settings.dailyWeight)
           v == WeightOf(settings.weeklyWeight)
           own == d * KnownLeft(q.daily) + v * KnownLeft(q.weekly)
           S == {own} \cup {TotalWeight(settings) * AdditionalLeft(l) : l \in q.additional}
<1>1. d \in Nat /\ v \in Nat /\ TotalWeight(settings) = d + v
  BY DEF Settings, WeightOf, TotalWeight
<1>2. KnownLeft(q.daily) \in 0..100 /\ KnownLeft(q.weekly) \in 0..100
  BY WindowLeftRange DEF Quota, KnownLeft, UnknownLeft
<1>3. own \in 0..(100 * TotalWeight(settings))
  <2>1. d * KnownLeft(q.daily) \in 0..(100 * d)
    BY <1>1, <1>2, Share
  <2>2. v * KnownLeft(q.weekly) \in 0..(100 * v)
    BY <1>1, <1>2, Share
  <2> HIDE DEF d, v
  <2> QED
    BY <1>1, <2>1, <2>2
<1>4. \A l \in q.additional : TotalWeight(settings) * AdditionalLeft(l) \in Nat
  BY <1>1, AdditionalLeftRange DEF Quota
<1> HIDE DEF own
<1>5. S \in SUBSET Nat /\ S # {} /\ own \in S
  BY <1>3, <1>4
<1>6. Score(q, settings) = Min(S)
  BY DEF Score, own
<1> HIDE DEF S
<1>7. Min(S) \in Nat /\ Min(S) <= own
  BY <1>5, MinIsLeast
<1> QED
  BY <1>1, <1>3, <1>6, <1>7

-----------------------------------------------------------------------------

\* Some candidate scores best; BestIndex is one.
LEMMA BestIndexIsBest ==
  ASSUME NEW sf, NEW candidates \in SUBSET Nat, candidates # {},
         sf.settings \in Settings,
         \A i \in candidates : sf.accounts[i].quota \in Quota
  PROVE  /\ BestIndex(sf, candidates) \in candidates
         /\ \A j \in candidates : ScoreAt(sf, j) <= ScoreAt(sf, BestIndex(sf, candidates))
<1> DEFINE top    == 100 * TotalWeight(sf.settings)
           scores == {ScoreAt(sf, i) : i \in candidates}
           best   == {i \in candidates : \A j \in candidates : ScoreAt(sf, j) <= ScoreAt(sf, i)}
<1>1. top \in Nat
  BY DEF Settings, WeightOf, TotalWeight
<1>2. \A i \in candidates : ScoreAt(sf, i) \in 0..top
  BY ScoreRange DEF ScoreAt
<1> HIDE DEF top
<1>3. PICK m \in scores : \A k \in scores : k <= m
  <2>1. scores \in SUBSET (0..top) /\ scores # {}
    BY <1>2
  <2> HIDE DEF scores
  <2> QED
    BY <1>1, <2>1, GreatestExists
<1>4. best \in SUBSET Nat /\ best # {}
  BY <1>3
<1>5. Min(best) \in best
  BY <1>4, MinIsLeast
<1> QED
  BY <1>5 DEF BestIndex

\* What a pool must be like for selectAccount to make sense of it.
Pool(sf) ==
  /\ \E n \in Nat : DOMAIN sf.accounts = 1..n
  /\ \A i \in DOMAIN sf.accounts : sf.accounts[i].quota \in Quota
  /\ sf.settings \in Settings

\* Every mode chooses one of the candidates it is given.
LEMMA PolicyChoosesCandidate ==
  ASSUME NEW sf, Pool(sf),
         NEW candidates \in SUBSET DOMAIN sf.accounts, candidates # {}
  PROVE  PolicyChoice(sf, candidates) \in candidates
<1> DEFINE active == ActiveOr(sf, candidates)
<1>1. candidates \in SUBSET Nat
  BY DEF Pool
<1>2. Min(candidates) \in candidates
  BY <1>1, MinIsLeast
<1>3. StickyChoice(candidates, active) \in candidates
  BY <1>2 DEF StickyChoice
<1>4. RoundRobinChoice(candidates, active) \in candidates
  <2>1. ASSUME active \in candidates
        PROVE  NextHealthy(candidates, active) \in candidates
    <3> DEFINE later == {j \in candidates : j > active}
    <3>1. later # {} => Min(later) \in later
      BY <1>1, MinIsLeast
    <3> QED
      BY <1>2, <3>1 DEF NextHealthy
  <2> QED
    BY <1>2, <2>1 DEF RoundRobinChoice
<1>5. UsageChoice(sf, candidates, active) \in candidates
  BY <1>1, BestIndexIsBest DEF UsageChoice, Pool
<1> QED
  BY <1>3, <1>4, <1>5 DEF PolicyChoice

\* selectAccount fails exactly when no account is healthy, and otherwise
\* returns a candidate: a healthy account, and one with quota left if any
\* healthy account has some.
THEOREM SelectAccountIsCandidate ==
  ASSUME NEW sf, Pool(sf), NEW now
  PROVE  /\ SelectAccount(sf, now) = NoSelection <=> HealthyIndexes(sf.accounts, now) = {}
         /\ SelectAccount(sf, now) # NoSelection
              => SelectAccount(sf, now) \in Candidates(sf, now)
<1> DEFINE candidates == Candidates(sf, now)
           pinned     == PinnedAmong(sf, candidates)
<1>1. /\ candidates \in SUBSET DOMAIN sf.accounts
      /\ candidates = {} <=> HealthyIndexes(sf.accounts, now) = {}
  BY DEF Candidates, HealthyIndexes, EligibleIndexes
<1>2. candidates \in SUBSET Nat /\ 0 \notin candidates
  BY <1>1 DEF Pool
<1> HIDE DEF candidates
<1>3. ASSUME candidates # {}
      PROVE  SelectAccount(sf, now) \in candidates
  <2>1. PolicyChoice(sf, candidates) \in candidates
    BY <1>1, <1>3, PolicyChoosesCandidate
  <2>2. pinned # {} => Min(pinned) \in candidates
    BY <1>2, MinIsLeast DEF PinnedAmong
  <2> QED
    BY <1>3, <2>1, <2>2 DEF SelectAccount, candidates
<1>4. candidates = {} => SelectAccount(sf, now) = NoSelection
  BY DEF SelectAccount, candidates
<1> QED
  BY <1>1, <1>2, <1>3, <1>4 DEF NoSelection, candidates

=============================================================================
