-------------------------- MODULE AdminForwardProofs --------------------------
(***************************************************************************)
(* Proofs about a proxy with child proxies (ChildProxies and AdminForward) *)
(* for any number of children, goroutines and attempts.                    *)
(***************************************************************************)
EXTENDS AdminForward, AccountPoolProofs, FiniteSetTheorems

ProxyTarget == [healthy : BOOLEAN, score : 0..100]

\* A child a request keeps off cools down, seen from when the request arrived; the first
\* attempt keeps off none.
RouteInv(v, runtimes, time) ==
  /\ v.now <= time
  /\ \A c \in v.failed : runtimes[c].cooldown > v.now
  /\ v.pc \in {"route", "fetch", "child", "local"} /\ v.task # "refresh" => v.attempt >= 1
  /\ v.pc = "route" /\ v.attempt = 1 => v.failed = {}
  /\ v.pc = "fetch" => v.failed = {}
  /\ v.pc = "child" => v.route \in Children \ v.failed
  /\ v.pc = "local" => v.route \notin Children
  /\ v.task = "refresh" => v.pc = "fetch"

\* The children before turn n.
Passed(n) == {ChildURLs[i] : i \in 1..(n - 1)}

\* What a search has found out, and what the children it asked carried out, so far.
AdminInv(v, targets) ==
  /\ v.pc \in {"search", "asked", "direct", "forward"} => v.turn >= 1
  /\ v.pc \in {"asked", "direct"} => v.turn <= Len(ChildURLs)
  /\ v.pc \in {"search", "asked", "direct"} => v.applied = NoneApplied /\ v.matched = "none"
  /\ v.pc = "forward" =>
       /\ v.matched \in {"none", "done", "failed"}
       /\ v.matched = "none" /\ ~v.errors => v.applied = NoneApplied
       /\ v.matched = "done" /\ v.task = "admin" => \E c \in Children : v.applied[c] > 0
       /\ \A c \in Children : /\ v.applied[c] <= targets[c]
                              /\ c \notin Passed(v.turn) => v.applied[c] = 0
  /\ v.pc = "done" =>
       /\ v.reply = "done" /\ v.task = "admin" => \E c \in Children : v.applied[c] > 0
       /\ v.reply = "absent" => v.applied = NoneApplied
       /\ \A c \in Children : v.applied[c] <= targets[c]

\* The flag is set while a worker refreshes, and only one does.
RefreshInv ==
  /\ inFlight <=> \E w \in Workers : worker[w].task = "refresh"
  /\ \A v, w \in Workers : worker[v].task = "refresh" /\ worker[w].task = "refresh" => v = w

\* No local account has the route of a child.
StoreInv == Consistent(sf) /\ Known(sf) \cap Children = {}

IInv ==
  /\ TypeOK
  /\ StoreInv
  /\ \A w \in Workers : RouteInv(worker[w], states, clock) /\ AdminInv(worker[w], Targets)
  /\ RefreshInv

-----------------------------------------------------------------------------
(***************************************************************************)
(* Types                                                                   *)
(***************************************************************************)

LEMMA ChildrenAreIds ==
  /\ Children \subseteq AccountIds /\ NoAccount \notin Children
  /\ DOMAIN ChildURLs = 1..Len(ChildURLs) /\ Len(ChildURLs) \in Nat
  /\ \A i \in 1..Len(ChildURLs) : ChildURLs[i] \in Children
BY ChildProxiesAssumption, NoAccountAssumption DEF Children

LEMMA TargetType ==
  ASSUME NEW cooling \in BOOLEAN, NEW status \in Status
  PROVE  Target(cooling, status) \in ProxyTarget
BY DEF Target, Status, ProxyTarget

LEMMA NoStatusType == NoStatus \in Status
BY DEF NoStatus, Status

LEMMA CachedTargetType ==
  ASSUME NEW runtime \in Runtime, NEW now \in Nat
  PROVE  CachedTarget(runtime, now) \in ProxyTarget
<1> DEFINE cooling == runtime.cooldown > now
           status  == IF runtime.reachable /\ runtime.fetched # 0 THEN runtime.status
                      ELSE NoStatus
<1>1. status \in Status
  BY NoStatusType DEF Runtime
<1>2. CachedTarget(runtime, now) = Target(cooling, status)
  BY DEF CachedTarget
<1>3. cooling \in BOOLEAN
  OBVIOUS
<1> HIDE DEF cooling, status
<1> QED
  BY <1>1, <1>2, <1>3, TargetType

\* A child takes part in the choice as an account that is healthy when the child is.
LEMMA ChildAccount ==
  ASSUME NEW c \in Children, NEW target \in ProxyTarget, NEW now \in Nat
  PROVE  /\ ChildTargetAsAccount(c, target, now) \in Account
         /\ ChildTargetAsAccount(c, target, now).id = c
         /\ Healthy(ChildTargetAsAccount(c, target, now), now) => target.healthy
<1> DEFINE x == CHOOSE y \in Identities : TRUE
           share == ShareLeft(target.score)
           new == NewAccount(c, x)
<1>1. x \in Identities
  BY ChildProxiesAssumption
<1>2. share \in Window
  <2>1. target.score \in 0..100
    BY DEF ProxyTarget
  <2> QED
    BY <2>1 DEF ShareLeft, Window
<1>3. [daily |-> share, weekly |-> share, additional |-> {}] \in Quota
  BY <1>2 DEF Quota
<1>4. NoQuota \in Quota
  BY DEF NoQuota, NoWindow, Quota, Window
<1>5. new \in Account /\ new.id = c
  <2> HIDE DEF x
  <2> QED
    BY <1>1, <1>4, ChildrenAreIds DEF NewAccount, Account
<1>6. target.healthy \in BOOLEAN
  BY DEF ProxyTarget
<1> HIDE DEF new, share
<1>7. ChildTargetAsAccount(c, target, now)
        = [new EXCEPT !.cooldown = IF target.healthy THEN 0 ELSE now + 1,
                      !.quota = [daily |-> share, weekly |-> share, additional |-> {}]]
  BY DEF ChildTargetAsAccount, new, share
<1> DEFINE cooldown == IF target.healthy THEN 0 ELSE now + 1
           quota == [daily |-> share, weekly |-> share, additional |-> {}]
<1>8. cooldown \in Nat /\ (cooldown <= now => target.healthy)
  BY <1>6
<1>9. quota \in Quota
  BY <1>3
<1> HIDE DEF cooldown, quota
<1>10. ChildTargetAsAccount(c, target, now) = [new EXCEPT !.cooldown = cooldown, !.quota = quota]
  BY <1>7 DEF cooldown, quota
<1>11. /\ [new EXCEPT !.cooldown = cooldown, !.quota = quota] \in Account
       /\ [new EXCEPT !.cooldown = cooldown, !.quota = quota].id = c
       /\ [new EXCEPT !.cooldown = cooldown, !.quota = quota].cooldown = cooldown
  BY <1>5, <1>8, <1>9 DEF Account
<1> QED
  BY <1>8, <1>10, <1>11 DEF Healthy

\* The route chosen is one of the proxy's own; a child is chosen only when it is healthy.
LEMMA RouteChosen ==
  ASSUME NEW s \in StoreFile, NEW target \in [Children -> ProxyTarget], NEW now \in Nat
  PROVE  /\ SelectRoute(s, target, now) \in AccountIds \cup {NoAccount}
         /\ Known(s) \cap Children = {}
              => \A c \in Children : SelectRoute(s, target, now) = c => target[c].healthy
<1> DEFINE local == s.accounts
           far == [i \in DOMAIN ChildURLs |->
                     ChildTargetAsAccount(ChildURLs[i], target[ChildURLs[i]], now)]
           candidates == RouteCandidates(s, target, now)
           current == {i \in DOMAIN candidates : candidates[i].id = ActiveRoute(s)}
           first == IF current = {} THEN 1 ELSE Min(current)
           fake == [s EXCEPT !.accounts = candidates, !.active = first]
           k == SelectAccount(fake, now)
<1>0. \A a, b \in Seq(Account) :
        /\ a \o b \in Seq(Account)
        /\ DOMAIN (a \o b) = 1..(Len(a) + Len(b))
        /\ \A i \in 1..Len(a) : (a \o b)[i] = a[i]
        /\ \A i \in 1..Len(b) : (a \o b)[Len(a) + i] = b[i]
  <2> HIDE DEF local, far, candidates
  <2> SUFFICES ASSUME NEW a \in Seq(Account), NEW b \in Seq(Account)
               PROVE  /\ a \o b \in Seq(Account)
                      /\ DOMAIN (a \o b) = 1..(Len(a) + Len(b))
                      /\ \A i \in 1..Len(a) : (a \o b)[i] = a[i]
                      /\ \A i \in 1..Len(b) : (a \o b)[Len(a) + i] = b[i]
    OBVIOUS
  <2> QED
    OBVIOUS
<1>1. /\ local \in Seq(Account) /\ far \in Seq(Account)
      /\ Len(far) = Len(ChildURLs)
  <2>1. \A i \in 1..Len(ChildURLs) : ChildURLs[i] \in Children /\ target[ChildURLs[i]] \in ProxyTarget
    BY ChildrenAreIds
  <2>2. far \in [1..Len(ChildURLs) -> Account]
    BY <2>1, ChildAccount, ChildrenAreIds
  <2>3. local \in Seq(Account)
    BY DEF StoreFile
  <2> HIDE DEF far
  <2> QED
    BY <2>2, <2>3, ChildrenAreIds, SeqOfFunction
<1>2. /\ candidates \in Seq(Account)
      /\ DOMAIN candidates = 1..(Len(local) + Len(far))
      /\ \A i \in 1..Len(local) : candidates[i] = local[i]
      /\ \A i \in 1..Len(far) : candidates[Len(local) + i] = far[i]
  <2>1. candidates = local \o far
    BY DEF RouteCandidates
  <2> HIDE DEF candidates, far, local
  <2>2. /\ local \o far \in Seq(Account)
        /\ DOMAIN (local \o far) = 1..(Len(local) + Len(far))
        /\ \A i \in 1..Len(local) : (local \o far)[i] = local[i]
        /\ \A i \in 1..Len(far) : (local \o far)[Len(local) + i] = far[i]
    BY <1>0, <1>1, Zenon
  <2> QED
    BY <2>1, <2>2, Zenon
<1>3. Len(local) \in Nat /\ Len(far) \in Nat
  <2> HIDE DEF far, local
  <2> QED
    BY <1>1
<1> HIDE DEF candidates, local, far
<1>4. first \in Nat \ {0}
  <2>1. current \in SUBSET Nat /\ 0 \notin current
    BY <1>2, <1>3
  <2> HIDE DEF current
  <2>2. CASE current = {}
    BY <2>2
  <2>3. CASE current # {}
    <3>1. Min(current) \in current
      BY <2>1, <2>3, MinIsLeast
    <3> QED
      BY <2>1, <2>3, <3>1
  <2> QED
    BY <2>2, <2>3
<1> HIDE DEF first
<1>5. fake \in StoreFile /\ fake.accounts = candidates
  BY <1>2, <1>4 DEF StoreFile
<1>6. k # NoSelection => k \in HealthyIndexes(candidates, now)
  <2> HIDE DEF fake
  <2>1. k # NoSelection => k \in Candidates(fake, now)
    BY <1>5, StoreIsPool, SelectAccountIsCandidate
  <2> HIDE DEF k
  <2> QED
    BY <1>5, <2>1, Zenon DEF Candidates, EligibleIndexes
<1>7. SelectRoute(s, target, now) = IF k = NoSelection THEN NoAccount ELSE candidates[k].id
  BY Zenon DEF SelectRoute, k, fake, first, candidates
<1> HIDE DEF k, fake
<1>8. CASE k = NoSelection
  BY <1>7, <1>8, ChildrenAreIds
<1>9. CASE k # NoSelection
  <2>1. k \in 1..(Len(local) + Len(far)) /\ Healthy(candidates[k], now)
    BY <1>2, <1>6, <1>9 DEF HealthyIndexes
  <2>2. candidates[k] \in Account
    BY <1>2, <2>1
  <2>3. candidates[k].id \in AccountIds
    BY <2>2 DEF Account
  <2>4. CASE k \in 1..Len(local)
    <3>1. candidates[k] = s.accounts[k] /\ k \in DOMAIN s.accounts
      BY <1>2, <2>4, AccountsOfStore DEF local
    <3>2. candidates[k].id \in Known(s)
      BY <3>1 DEF Known
    <3> QED
      BY <1>7, <1>9, <2>3, <3>2
  <2>5. CASE k \notin 1..Len(local)
    <3>1. PICK i \in 1..Len(far) : k = Len(local) + i
      BY <1>3, <2>1, <2>5
    <3>2. i \in 1..Len(ChildURLs) /\ ChildURLs[i] \in Children
          /\ target[ChildURLs[i]] \in ProxyTarget
      BY <1>1, <3>1, ChildrenAreIds
    <3>3. candidates[k] = ChildTargetAsAccount(ChildURLs[i], target[ChildURLs[i]], now)
      BY <1>2, <3>1, <3>2, ChildrenAreIds DEF far
    <3>4. candidates[k].id = ChildURLs[i] /\ target[ChildURLs[i]].healthy
      BY <2>1, <3>2, <3>3, ChildAccount
    <3> QED
      BY <1>7, <1>9, <2>3, <3>4
  <2> QED
    BY <2>4, <2>5
<1> QED
  BY <1>8, <1>9

-----------------------------------------------------------------------------
(***************************************************************************)
(* Steps of one worker                                                     *)
(***************************************************************************)

\* The part of the state that is not the workers'.
DataOK ==
  /\ sf \in StoreFile /\ StoreInv
  /\ clock \in 1..MaxTime
  /\ states \in [Children -> Runtime]
  /\ active \in AccountIds \cup {NoAccount}
  /\ inFlight \in BOOLEAN
  /\ setup \in Setups

\* No child cools down for less long than before, unless it does from now on.
Heated == \A c \in Children : \/ states'[c].cooldown = states[c].cooldown
                              \/ states'[c].cooldown > clock

LEMMA RestingType == Resting \in Worker
<1>1. NoStore \in StoreFile
  <2>1. PICK x \in Setups : TRUE
    BY ChildProxiesAssumption
  <2>2. (CHOOSE s \in Setups : TRUE) \in Setups
    BY <2>1
  <2>3. (CHOOSE s \in Setups : TRUE).store.settings \in Settings
    BY <2>2, ChildProxiesAssumption DEF Setup, StoreFile
  <2> QED
    BY <2>3 DEF NoStore, StoreFile
<1>2. [c \in Children |-> NoStatus] \in [Children -> Status]
  BY NoStatusType
<1>3. 0 \in 0..MaxTime /\ 0 \in 0..(Len(ChildURLs) + 1)
  BY ChildrenAreIds, ChildProxiesAssumption
<1>4. NoneApplied \in [Children -> Nat]
  BY DEF NoneApplied
<1> QED
  BY <1>1, <1>2, <1>3, <1>4 DEF Resting, Worker, Pcs, AllTasks, Replies

LEMMA RestingInv ==
  ASSUME NEW runtimes, NEW time \in Nat, NEW targets
  PROVE  RouteInv(Resting, runtimes, time) /\ AdminInv(Resting, targets)
BY DEF Resting, RouteInv, AdminInv

\* What holds of the workers that do not move.
LEMMA OthersKept ==
  ASSUME TypeOK, NEW v \in Worker, RouteInv(v, states, clock), Heated,
         DataOK', clock' = clock
  PROVE  RouteInv(v, states', clock')
<1>1. /\ v.now \in Nat /\ v.now <= clock /\ clock \in Nat /\ v.failed \subseteq Children
  BY ChildProxiesAssumption DEF TypeOK, Worker, RouteInv
<1>2. ASSUME NEW c \in v.failed PROVE states'[c].cooldown > v.now
  <2>1. c \in Children /\ states[c].cooldown > v.now
    BY <1>1 DEF RouteInv
  <2>2. CASE states'[c].cooldown = states[c].cooldown
    BY <2>1, <2>2
  <2>3. CASE states'[c].cooldown > clock
    <3>1. states'[c].cooldown \in Nat
      BY <2>1 DEF DataOK, Runtime
    <3> QED
      BY <1>1, <2>3, <3>1
  <2> QED
    BY <2>1, <2>2, <2>3 DEF Heated
<1> QED
  BY <1>1, <1>2 DEF RouteInv

\* A step that gives one worker another record.
LEMMA MoveStep ==
  ASSUME IInv, DataOK', Heated, NEW w \in Workers, NEW r \in Worker, Set(w, r),
         RouteInv(r, states', clock), AdminInv(r, Targets), RefreshInv',
         UNCHANGED <<clock, setup>>
  PROVE  IInv'
<1>1. worker' \in [Workers -> Worker]
  BY DEF IInv, TypeOK, Set
<1>2. TypeOK' /\ StoreInv'
  BY <1>1 DEF DataOK, TypeOK
<1>3. Targets' = Targets
  BY DEF Targets
<1>4. ASSUME NEW v \in Workers
      PROVE  (RouteInv(worker[v], states, clock) /\ AdminInv(worker[v], Targets))'
  <2>1. CASE v = w
    <3>1. worker'[v] = r
      BY <2>1 DEF IInv, TypeOK, Set
    <3> QED
      BY <1>3, <3>1
  <2>2. CASE v # w
    <3>1. worker'[v] = worker[v] /\ worker[v] \in Worker
      BY <2>2 DEF IInv, TypeOK, Set
    <3>2. RouteInv(worker[v], states', clock')
      BY <3>1, OthersKept DEF IInv
    <3>3. AdminInv(worker[v], Targets)
      BY DEF IInv
    <3> QED
      BY <1>3, <3>1, <3>2, <3>3
  <2> QED
    BY <2>1, <2>2
<1> QED
  BY <1>2, <1>4 DEF IInv

\* The same where the worker neither begins nor ends a refresh.
LEMMA WorkerStep ==
  ASSUME IInv, DataOK', Heated, NEW w \in Workers, NEW r \in Worker, Set(w, r),
         RouteInv(r, states', clock), AdminInv(r, Targets),
         r.task = "refresh" <=> worker[w].task = "refresh",
         UNCHANGED <<clock, inFlight, setup>>
  PROVE  IInv'
<1>1. \A v \in Workers : worker'[v].task = "refresh" <=> worker[v].task = "refresh"
  BY DEF IInv, TypeOK, Set
<1>2. RefreshInv'
  BY <1>1 DEF IInv, RefreshInv
<1> QED
  BY <1>2, MoveStep

LEMMA DataKept ==
  ASSUME IInv, UNCHANGED <<sf, clock, states, active, inFlight, setup>>
  PROVE  DataOK' /\ Heated
BY DEF IInv, TypeOK, DataOK, Heated, StoreInv, Consistent, UniqueIds, ActiveInRange,
       SyncedInPast, Known

\* A change of one child's record.
LEMMA StatesKept ==
  ASSUME IInv, NEW runtimes \in [Children -> Runtime], states' = runtimes,
         UNCHANGED <<sf, clock, inFlight, setup>>, active' \in AccountIds \cup {NoAccount}
  PROVE  DataOK'
BY DEF IInv, TypeOK, DataOK, StoreInv, Consistent, UniqueIds, ActiveInRange,
       SyncedInPast, Known

\* An update of the store that changes accounts in place.
LEMMA StoreKept ==
  ASSUME IInv, NEW t, InPlace(sf, t), sf' = t, active' \in AccountIds \cup {NoAccount},
         UNCHANGED <<clock, states, inFlight, setup>>
  PROVE  DataOK' /\ Heated
<1>1. sf \in StoreFile /\ Consistent(sf)
  BY DEF IInv, TypeOK, StoreInv
<1>2. t \in StoreFile /\ Consistent(t) /\ Known(t) = Known(sf)
  BY <1>1, InPlaceConsistent DEF InPlace
<1>3. sf' \in StoreFile /\ StoreInv'
  <2>1. Consistent(sf)' /\ Known(sf)' = Known(t)
    BY <1>2, Zenon DEF Consistent, UniqueIds, ActiveInRange, SyncedInPast, Known
  <2> QED
    BY <1>2, <2>1 DEF IInv, StoreInv
<1> QED
  BY <1>3 DEF IInv, TypeOK, DataOK, Heated

-----------------------------------------------------------------------------
(***************************************************************************)
(* Requests                                                                *)
(***************************************************************************)

LEMMA WorkerType ==
  ASSUME IInv, NEW w \in Workers
  PROVE  /\ worker[w] \in Worker /\ RouteInv(worker[w], states, clock)
         /\ AdminInv(worker[w], Targets)
         /\ worker[w].now \in Nat /\ clock \in Nat
BY ChildProxiesAssumption DEF IInv, TypeOK, Worker

LEMMA FallbacksType ==
  ASSUME IInv
  PROVE  Fallbacks \in [Children -> Status]
<1>1. ASSUME NEW c \in Children PROVE Fallback(states[c], clock) \in Status
  BY NoStatusType DEF IInv, TypeOK, Runtime, Fallback
<1> QED
  BY <1>1 DEF Fallbacks

LEMMA StartQueriesKeeps ==
  ASSUME IInv, NEW w \in Workers, StartQueries(w)
  PROVE  IInv'
<1> DEFINE r == [worker[w] EXCEPT !.pc = "fetch", !.snap = sf,
                                  !.cooling = Cooling(worker[w].now), !.keep = Fallbacks]
<1>1. r \in Worker
  <2>1. Cooling(worker[w].now) \in SUBSET Children /\ sf \in StoreFile
    BY DEF Cooling, IInv, TypeOK
  <2>2. worker[w] \in Worker /\ Fallbacks \in [Children -> Status] /\ "fetch" \in Pcs
    BY WorkerType, FallbacksType DEF Pcs
  <2> QED
    BY <2>1, <2>2 DEF Worker
<1>2. r.pc = "fetch" /\ r.task = worker[w].task /\ r.now = worker[w].now
      /\ r.attempt = worker[w].attempt /\ r.failed = worker[w].failed
  BY WorkerType DEF Worker
<1>3. worker[w].pc = "route" /\ worker[w].attempt = 1 /\ worker[w].failed = {}
      /\ worker[w].task # "refresh"
  BY WorkerType DEF StartQueries, RouteInv
<1>4. Set(w, r)
  BY DEF StartQueries
<1> HIDE DEF r
<1>5. RouteInv(r, states', clock) /\ AdminInv(r, Targets)
  BY <1>2, <1>3, WorkerType DEF RouteInv, AdminInv
<1> QED
  BY <1>1, <1>2, <1>4, <1>5, DataKept, WorkerStep DEF StartQueries

\* A request takes a route to a child it does not keep off.
LEMMA TakeStep ==
  ASSUME IInv, DataOK', Heated, NEW w \in Workers, NEW route \in AccountIds \cup {NoAccount},
         Take(w, route), worker[w].pc \in {"route", "fetch"}, worker[w].task # "refresh",
         route \in Children => route \notin worker[w].failed,
         UNCHANGED <<clock, inFlight, setup>>
  PROVE  IInv'
<1> DEFINE new == [worker[w] EXCEPT !.pc = IF route \in Children THEN "child" ELSE "local",
                     !.route = route, !.snap = NoStore, !.cooling = Resting.cooling,
                     !.keep = Resting.keep]
           r == IF route = NoAccount THEN Resting ELSE new
<1>1. new \in Worker /\ Resting \in Worker
  <2>1. Resting.cooling \in SUBSET Children /\ Resting.keep \in [Children -> Status]
        /\ NoStore \in StoreFile
    <3>1. Resting.snap = NoStore
      BY DEF Resting
    <3> QED
      BY <3>1, RestingType DEF Worker
  <2>2. (IF route \in Children THEN "child" ELSE "local") \in Pcs
    BY DEF Pcs
  <2>3. worker[w] \in Worker /\ Resting \in Worker
    BY WorkerType, RestingType
  <2> HIDE DEF new
  <2> QED
    BY <2>1, <2>2, <2>3 DEF Worker, new
<1>2. /\ new.pc = IF route \in Children THEN "child" ELSE "local"
      /\ new.task = worker[w].task /\ new.now = worker[w].now /\ new.route = route
      /\ new.attempt = worker[w].attempt /\ new.failed = worker[w].failed
  BY WorkerType DEF Worker
<1>3. Set(w, r)
  BY DEF Take
<1> HIDE DEF new
<1>4. RouteInv(new, states, clock) /\ AdminInv(new, Targets)
  BY <1>2, WorkerType DEF RouteInv, AdminInv
<1>5. RouteInv(Resting, states, clock) /\ AdminInv(Resting, Targets)
      /\ Resting.task = "http"
  BY WorkerType, RestingInv, RestingType DEF Resting
<1>6. r \in Worker /\ RouteInv(r, states, clock) /\ AdminInv(r, Targets)
      /\ r.task # "refresh"
  BY <1>1, <1>2, <1>4, <1>5
<1> HIDE DEF r
<1>7. RouteInv(r, states', clock)
  BY <1>6, OthersKept DEF IInv
<1> QED
  BY <1>3, <1>6, <1>7, WorkerStep

LEMMA ChooseAgainKeeps ==
  ASSUME IInv, NEW w \in Workers, ChooseAgain(w)
  PROVE  IInv'
<1> DEFINE now == worker[w].now
           target == [c \in Children |-> CachedTarget(states[c], now)]
           route == SelectRoute(sf, target, now)
<1>1. now \in Nat /\ sf \in StoreFile /\ Known(sf) \cap Children = {}
  BY WorkerType DEF IInv, TypeOK, StoreInv
<1>2. target \in [Children -> ProxyTarget]
  <2>1. \A c \in Children : states[c] \in Runtime
    BY DEF IInv, TypeOK
  <2> QED
    BY <1>1, <2>1, CachedTargetType
<1>3. ASSUME NEW c \in Children, target[c].healthy PROVE c \notin worker[w].failed
  <2>1. /\ states[c] \in Runtime
        /\ CachedTarget(states[c], now).healthy => ~(states[c].cooldown > now)
    BY DEF IInv, TypeOK, CachedTarget, Target
  <2>2. ~(states[c].cooldown > now)
    BY <1>3, <2>1
  <2> QED
    BY <2>2, WorkerType DEF RouteInv
<1> HIDE DEF target
<1>4. /\ route \in AccountIds \cup {NoAccount}
      /\ route \in Children => route \notin worker[w].failed
  BY <1>1, <1>2, <1>3, RouteChosen
<1>5. Take(w, route) /\ worker[w].pc = "route" /\ worker[w].task # "refresh"
  BY WorkerType DEF ChooseAgain, RouteInv, target
<1> HIDE DEF route, now
<1> QED
  BY <1>4, <1>5, DataKept, TakeStep DEF ChooseAgain

\* A worker that goes back to rest.
LEMMA EndStep ==
  ASSUME IInv, DataOK', Heated, NEW w \in Workers, End(w), worker[w].task # "refresh",
         UNCHANGED <<clock, inFlight, setup>>
  PROVE  IInv'
<1>1. RouteInv(Resting, states', clock) /\ AdminInv(Resting, Targets)
      /\ Resting.task = "http"
  BY WorkerType, RestingInv, RestingType DEF Resting
<1> QED
  BY <1>1, RestingType, WorkerStep DEF End

\* After a failed attempt the child that failed cools down.
LEMMA NextAttemptStep ==
  ASSUME IInv, DataOK', Heated, NEW w \in Workers, Set(w, NextAttempt(w)),
         worker[w].pc \in {"child", "local"},
         worker[w].pc = "child" => states'[worker[w].route].cooldown > clock,
         UNCHANGED <<clock, inFlight, setup>>
  PROVE  IInv'
<1> DEFINE route == worker[w].route
           new == [worker[w] EXCEPT !.pc = "route", !.attempt = @ + 1, !.route = NoAccount,
                                    !.failed = @ \cup ({route} \cap Children)]
<1>1. /\ worker[w] \in Worker /\ RouteInv(worker[w], states, clock)
      /\ worker[w].now \in Nat /\ clock \in Nat /\ worker[w].attempt \in Nat
  BY WorkerType DEF Worker
<1>2. CASE worker[w].attempt < worker[w].max
  <2>1. new \in Worker
    <3>1. "route" \in Pcs /\ worker[w].attempt + 1 \in Nat
          /\ worker[w].failed \cup ({route} \cap Children) \in SUBSET Children
      BY <1>1 DEF Pcs, Worker
    <3> QED
      BY <1>1, <3>1 DEF Worker
  <2>2. /\ new.pc = "route" /\ new.task = worker[w].task /\ new.now = worker[w].now
        /\ new.attempt = worker[w].attempt + 1
        /\ new.failed = worker[w].failed \cup ({route} \cap Children)
    BY <1>1 DEF Worker
  <2>3. worker[w].attempt >= 1 /\ worker[w].task # "refresh"
    BY <1>1 DEF RouteInv
  <2>4. ASSUME NEW c \in new.failed PROVE states'[c].cooldown > new.now
    <3>1. CASE c \in worker[w].failed
      BY <1>1, <2>2, <3>1, OthersKept DEF IInv, RouteInv
    <3>2. CASE c = route /\ c \in Children
      <4>1. worker[w].pc = "child"
        BY <1>1, <3>2 DEF RouteInv
      <4>2. states'[c].cooldown > clock /\ states'[c].cooldown \in Nat
        BY <3>2, <4>1 DEF DataOK, Runtime
      <4> QED
        BY <1>1, <2>2, <4>2 DEF RouteInv
    <3> QED
      BY <2>2, <3>1, <3>2
  <2> HIDE DEF new
  <2>5. RouteInv(new, states', clock) /\ AdminInv(new, Targets)
    BY <1>1, <2>2, <2>3, <2>4 DEF RouteInv, AdminInv
  <2>6. Set(w, new)
    BY <1>2 DEF NextAttempt, new
  <2> QED
    BY <2>1, <2>2, <2>3, <2>5, <2>6, WorkerStep
<1>3. CASE ~(worker[w].attempt < worker[w].max)
  <2>1. End(w) /\ worker[w].task # "refresh"
    BY <1>1, <1>3 DEF NextAttempt, End, RouteInv
  <2> QED
    BY <2>1, EndStep
<1> QED
  BY <1>2, <1>3

\* A cooled child, as markChildProxyCooldown leaves it.
LEMMA CooledType ==
  ASSUME IInv, NEW w \in Workers, worker[w].pc = "child", NEW seconds \in Int,
         states' = [states EXCEPT ![worker[w].route] = Cooled(@, seconds)],
         UNCHANGED <<sf, clock, active, inFlight, setup>>
  PROVE  DataOK' /\ Heated /\ states'[worker[w].route].cooldown > clock
<1> DEFINE c == worker[w].route
           rest == IF seconds <= 0 THEN 1 ELSE seconds
<1>1. c \in Children /\ clock \in Nat
  BY WorkerType DEF RouteInv
<1>2. states[c] \in Runtime /\ states \in [Children -> Runtime]
  BY <1>1 DEF IInv, TypeOK
<1>3. rest \in Nat /\ rest > 0
  OBVIOUS
<1> HIDE DEF rest
<1>4. clock + rest \in Nat /\ clock + rest > clock
  BY <1>1, <1>3
<1>5. Cooled(states[c], seconds) = [states[c] EXCEPT !.cooldown = clock + rest]
  BY DEF Cooled, rest
<1>6. Cooled(states[c], seconds) \in Runtime
      /\ Cooled(states[c], seconds).cooldown = clock + rest
  BY <1>2, <1>4, <1>5 DEF Runtime
<1> HIDE DEF c
<1>7. /\ states' = [states EXCEPT ![c] = Cooled(states[c], seconds)]
      /\ states'[c].cooldown = clock + rest
      /\ [states EXCEPT ![c] = Cooled(states[c], seconds)] \in [Children -> Runtime]
  BY <1>1, <1>2, <1>6 DEF c
<1>8. DataOK'
  BY <1>7, StatesKept DEF IInv, TypeOK
<1>9. Heated
  BY <1>2, <1>4, <1>7 DEF Heated
<1> QED
  BY <1>4, <1>7, <1>8, <1>9 DEF c

LEMMA ChildBacksOffKeeps ==
  ASSUME IInv, NEW w \in Workers, ChildBacksOff(w)
  PROVE  IInv'
<1>1. PICK seconds \in Backoffs :
        states' = [states EXCEPT ![worker[w].route] = Cooled(@, seconds)]
  BY DEF ChildBacksOff
<1>2. seconds \in Int
  BY ChildProxiesAssumption
<1> QED
  BY <1>1, <1>2, CooledType, NextAttemptStep DEF ChildBacksOff

LEMMA ChildFailsKeeps ==
  ASSUME IInv, NEW w \in Workers, ChildFails(w)
  PROVE  IInv'
<1>1. sf.settings.cooldownDefault \in Int
  BY DEF IInv, TypeOK, StoreFile, Settings
<1> QED
  BY <1>1, CooledType, NextAttemptStep DEF ChildFails

LEMMA PassedOnKeeps ==
  ASSUME IInv, NEW w \in Workers, PassedOn(w)
  PROVE  IInv'
<1>1. worker[w].task # "refresh"
  BY WorkerType DEF PassedOn, RouteInv
<1> QED
  BY <1>1, DataKept, EndStep DEF PassedOn

LEMMA LocalServesKeeps ==
  ASSUME IInv, NEW w \in Workers, LocalServes(w)
  PROVE  IInv'
<1>1. worker[w].task # "refresh" /\ worker[w].route \in AccountIds \cup {NoAccount}
  BY WorkerType DEF LocalServes, RouteInv, Worker
<1>2. InPlace(sf, MarkSuccess(sf, worker[w].route, FALSE))
  BY MarkSuccessInPlace DEF IInv, TypeOK, StoreInv
<1> QED
  BY <1>1, <1>2, StoreKept, EndStep DEF LocalServes

LEMMA LocalFailsKeeps ==
  ASSUME IInv, NEW w \in Workers, LocalFails(w)
  PROVE  IInv'
<1>1. sf \in StoreFile /\ Consistent(sf) /\ clock \in Nat
  BY WorkerType DEF IInv, TypeOK, StoreInv
<1>2. InPlace(sf, sf')
  <2>1. ASSUME NEW reason \in Rejections, sf' = MarkDisabled(sf, worker[w].route, reason)
        PROVE  InPlace(sf, sf')
    BY <1>1, <2>1, MarkDisabledInPlace, ChildProxiesAssumption
  <2>2. ASSUME NEW seconds \in Backoffs,
               sf' = MarkCooldown(sf, worker[w].route, clock, seconds)
        PROVE  InPlace(sf, sf')
    BY <1>1, <2>2, MarkCooldownInPlace, ChildProxiesAssumption
  <2> QED
    BY <2>1, <2>2 DEF LocalFails
<1>3. DataOK' /\ Heated
  BY <1>2, StoreKept DEF LocalFails, IInv, TypeOK
<1> QED
  BY <1>3, NextAttemptStep DEF LocalFails

-----------------------------------------------------------------------------
(***************************************************************************)
(* Steps that touch other workers, the flag or the clock                   *)
(***************************************************************************)

\* A worker that keeps off fewer children is otherwise the same.
LEMMA FewerFailed ==
  ASSUME NEW v \in Worker, NEW cs, NEW runtimes, NEW later, NEW time, NEW has,
         RouteInv(v, runtimes, time), AdminInv(v, has),
         \A c \in v.failed \ cs : later[c].cooldown = runtimes[c].cooldown
  PROVE  LET r == [v EXCEPT !.failed = @ \ cs]
         IN  /\ r \in Worker /\ RouteInv(r, later, time) /\ AdminInv(r, has)
             /\ r.task = v.task
<1> DEFINE r == [v EXCEPT !.failed = @ \ cs]
<1>1. r \in Worker
  BY DEF Worker
<1>2. /\ r.pc = v.pc /\ r.task = v.task /\ r.now = v.now /\ r.attempt = v.attempt
      /\ r.route = v.route /\ r.failed = v.failed \ cs
  BY DEF Worker
<1>3. /\ r.turn = v.turn /\ r.applied = v.applied /\ r.matched = v.matched
      /\ r.errors = v.errors /\ r.reply = v.reply
  BY DEF Worker
<1> HIDE DEF r
<1>4. RouteInv(r, later, time)
  BY <1>2 DEF RouteInv
<1>5. AdminInv(r, has)
  BY <1>2, <1>3 DEF AdminInv
<1> QED
  BY <1>1, <1>2, <1>4, <1>5 DEF r

\* One worker gets another record, then the children cs are released.
LEMMA LiftedStep ==
  ASSUME IInv, DataOK', NEW w \in Workers, NEW r \in Worker, NEW cs,
         worker' = Lifted([worker EXCEPT ![w] = r], cs),
         RouteInv(r, states, clock), AdminInv(r, Targets), r.task # "refresh",
         worker[w].task # "refresh",
         \A c \in Children \ cs : states'[c].cooldown = states[c].cooldown,
         UNCHANGED <<clock, inFlight, setup>>
  PROVE  IInv'
<1> DEFINE before == [worker EXCEPT ![w] = r]
<1>1. /\ before \in [Workers -> Worker]
      /\ \A v \in Workers : /\ RouteInv(before[v], states, clock)
                            /\ AdminInv(before[v], Targets)
                            /\ before[v].task = "refresh" <=> worker[v].task = "refresh"
  BY DEF IInv, TypeOK
<1> HIDE DEF before
<1>2. ASSUME NEW v \in Workers
      PROVE  /\ worker'[v] \in Worker /\ RouteInv(worker'[v], states', clock')
             /\ AdminInv(worker'[v], Targets)
             /\ worker'[v].task = "refresh" <=> worker[v].task = "refresh"
  <2>1. before[v] \in Worker /\ before[v].failed \subseteq Children
    BY <1>1 DEF Worker
  <2>2. \A c \in before[v].failed \ cs : states'[c].cooldown = states[c].cooldown
    BY <2>1
  <2> DEFINE next == [before[v] EXCEPT !.failed = @ \ cs]
  <2>3. worker'[v] = next
    BY DEF Lifted, before
  <2>4. RouteInv(before[v], states, clock) /\ AdminInv(before[v], Targets)
    BY <1>1
  <2>5. /\ next \in Worker /\ RouteInv(next, states', clock) /\ AdminInv(next, Targets)
        /\ next.task = before[v].task
    BY <2>1, <2>2, <2>4, FewerFailed
  <2> HIDE DEF next
  <2> QED
    BY <1>1, <2>3, <2>5
<1>3. worker' \in [Workers -> Worker]
  <2>1. worker' = [v \in Workers |-> [before[v] EXCEPT !.failed = @ \ cs]]
    BY DEF Lifted, before
  <2> QED
    BY <1>2, <2>1
<1>4. Targets' = Targets
  BY DEF Targets
<1>5. RefreshInv'
  BY <1>2 DEF IInv, RefreshInv
<1>6. TypeOK' /\ StoreInv'
  BY <1>3 DEF DataOK, TypeOK
<1> QED
  BY <1>2, <1>4, <1>5, <1>6 DEF IInv

LEMMA ChildServesKeeps ==
  ASSUME IInv, NEW w \in Workers, ChildServes(w)
  PROVE  IInv'
<1> DEFINE c == worker[w].route
           new == [states EXCEPT ![c].cooldown = 0, ![c].reachable = TRUE]
<1>1. c \in Children /\ worker[w].task # "refresh"
  BY WorkerType DEF ChildServes, RouteInv
<1>2. new \in [Children -> Runtime]
  BY <1>1 DEF IInv, TypeOK, Runtime
<1>3. \A d \in Children \ {c} : new[d] = states[d]
  BY <1>1 DEF IInv, TypeOK
<1>4. states' = new
  BY DEF ChildServes
<1> HIDE DEF new
<1>5. DataOK'
  BY <1>1, <1>2, <1>4, StatesKept, ChildrenAreIds DEF ChildServes
<1>6. RouteInv(Resting, states, clock) /\ AdminInv(Resting, Targets)
      /\ Resting.task = "http"
  BY WorkerType, RestingInv, RestingType DEF Resting
<1>7. worker' = Lifted([worker EXCEPT ![w] = Resting], {c})
  BY DEF ChildServes
<1> HIDE DEF c
<1>8. \A d \in Children \ {c} : states'[d].cooldown = states[d].cooldown
  BY <1>3, <1>4
<1>9. UNCHANGED <<clock, inFlight, setup>>
  BY DEF ChildServes
<1> QED
  BY <1>1, <1>5, <1>6, <1>7, <1>8, <1>9, RestingType, LiftedStep

LEMMA ArriveKeeps ==
  ASSUME IInv, NEW w \in Workers, Arrive(w)
  PROVE  IInv'
<1>1. PICK task \in setup.tasks[w] \cap {"http", "ws", "page"} :
        LET over == {c \in Children : states[c].cooldown \in 1..clock}
            new  == [Resting EXCEPT !.task = task, !.now = clock, !.attempt = 1, !.pc = "route",
                       !.max = IF task = "http" THEN Max({1, sf.settings.maxAttempts}) ELSE 1]
        IN  /\ states' = [c \in Children |->
                            [states[c] EXCEPT !.cooldown = IF c \in over THEN 0 ELSE @]]
            /\ worker' = Lifted([worker EXCEPT ![w] = new], over)
  BY DEF Arrive
<1> DEFINE over == {c \in Children : states[c].cooldown \in 1..clock}
           max == IF task = "http" THEN Max({1, sf.settings.maxAttempts}) ELSE 1
           new == [Resting EXCEPT !.task = task, !.now = clock, !.attempt = 1, !.pc = "route",
                     !.max = max]
           runtimes == [c \in Children |->
                          [states[c] EXCEPT !.cooldown = IF c \in over THEN 0 ELSE @]]
<1>2. states' = runtimes /\ worker' = Lifted([worker EXCEPT ![w] = new], over)
  BY <1>1
<1>3. max \in Nat
  <2>1. sf.settings.maxAttempts \in Int
    BY DEF IInv, TypeOK, StoreFile, Settings
  <2> DEFINE m == sf.settings.maxAttempts
  <2>2. \A x \in Int : Max({1, x}) \in Nat
    <3>1. SUFFICES ASSUME NEW x \in Int PROVE Max({1, x}) \in Nat
      OBVIOUS
    <3>2. \E y \in {1, x} : \A z \in {1, x} : z <= y
      <4>1. CASE x <= 1
        BY <4>1
      <4>2. CASE x > 1
        BY <4>2
      <4> QED
        BY <4>1, <4>2
    <3>3. Max({1, x}) \in {1, x} /\ \A z \in {1, x} : z <= Max({1, x})
      BY <3>2 DEF Max
    <3> QED
      BY <3>3
  <2> QED
    BY <2>1, <2>2
<1> HIDE DEF max
<1>4. runtimes \in [Children -> Runtime]
      /\ \A c \in Children \ over : runtimes[c].cooldown = states[c].cooldown
  <2>1. ASSUME NEW c \in Children
        PROVE  /\ [states[c] EXCEPT !.cooldown = IF c \in over THEN 0 ELSE @] \in Runtime
               /\ c \notin over => runtimes[c].cooldown = states[c].cooldown
    <3> HIDE DEF over
    <3> QED
      BY DEF IInv, TypeOK, Runtime
  <2> HIDE DEF over
  <2> QED
    BY <2>1
<1>5. new \in Worker
  <2>1. task \in AllTasks /\ clock \in 0..MaxTime /\ "route" \in Pcs /\ 1 \in Nat
    BY ChildProxiesAssumption DEF AllTasks, Pcs, IInv, TypeOK
  <2> QED
    BY <1>3, <2>1, RestingType DEF Worker
<1>6. /\ new.pc = "route" /\ new.task = task /\ new.now = clock /\ new.attempt = 1
      /\ new.failed = {}
  <2>1. Resting.failed = {}
    BY DEF Resting
  <2> QED
    BY <2>1, RestingType DEF Worker
<1> HIDE DEF new, runtimes, over
<1>7. RouteInv(new, states, clock) /\ AdminInv(new, Targets) /\ new.task # "refresh"
  <2>1. task # "refresh" /\ clock \in Nat /\ clock <= clock
    BY WorkerType
  <2>2. RouteInv(new, states, clock) /\ new.task # "refresh"
    BY <1>6, <2>1 DEF RouteInv
  <2>3. AdminInv(new, Targets)
    BY <1>6, Zenon DEF AdminInv
  <2> QED
    BY <2>2, <2>3
<1>8. worker[w].task # "refresh"
  BY WorkerType DEF Arrive, RouteInv
<1>9. DataOK'
  <2>1. sf \in StoreFile /\ Consistent(sf)
    BY DEF IInv, TypeOK, StoreInv
  <2>2. InPlace(sf, ExpireCooldowns(sf, clock))
    BY <2>1, ExpireCooldownsInPlace
  <2>3. sf' \in StoreFile /\ Consistent(sf') /\ Known(sf') = Known(sf)
    BY <2>1, <2>2, InPlaceConsistent DEF Arrive, InPlace
  <2>4. StoreInv'
    BY <2>3, Zenon DEF IInv, StoreInv, Consistent, UniqueIds, ActiveInRange, SyncedInPast,
                       Known
  <2> QED
    BY <1>2, <1>4, <2>3, <2>4 DEF Arrive, IInv, TypeOK, DataOK
<1>10. worker' = Lifted([worker EXCEPT ![w] = new], over) /\ UNCHANGED <<clock, inFlight, setup>>
  BY <1>2 DEF Arrive
<1>11. \A c \in Children \ over : states'[c].cooldown = states[c].cooldown
  BY <1>2, <1>4
<1> QED
  BY <1>5, <1>7, <1>8, <1>9, <1>10, <1>11, LiftedStep

LEMMA AnswerType ==
  ASSUME IInv, NEW c \in Children, NEW answer \in Answers(c)
  PROVE  answer \in Status
<1>1. CASE answer = NoStatus
  BY <1>1, NoStatusType
<1>2. CASE answer # NoStatus
  <2>1. PICK report \in Reports[c] :
          answer = [known |-> TRUE, able |-> report.able, named |-> c \in setup.named,
                    score |-> IF report.able THEN report.score ELSE 0]
    BY <1>2 DEF Answers
  <2>2. report \in Report
    BY ChildProxiesAssumption
  <2> DEFINE score == IF report.able THEN report.score ELSE 0
             named == c \in setup.named
  <2>3. report.able \in BOOLEAN /\ score \in 0..100
    BY <2>2 DEF Report
  <2>4. named \in BOOLEAN
    OBVIOUS
  <2>5. answer = [known |-> TRUE, able |-> report.able, named |-> named, score |-> score]
    BY <2>1
  <2> HIDE DEF score, named
  <2> QED
    BY <2>3, <2>4, <2>5 DEF Status
<1> QED
  BY <1>1, <1>2

\* What a query leaves of a child's record: the cooldown, whatever it answered.
LEMMA LearnedType ==
  ASSUME IInv, NEW w \in Workers, NEW c \in Children, NEW answer \in Answers(c)
  PROVE  /\ Learned(w, c, answer) \in Runtime
         /\ Learned(w, c, answer).cooldown = states[c].cooldown
         /\ Result(w, c, answer) \in Status
<1>1. answer \in Status /\ states[c] \in Runtime /\ clock \in Nat
  BY AnswerType, WorkerType DEF IInv, TypeOK
<1>2. worker[w].keep[c] \in Status
  BY WorkerType DEF Worker
<1>3. answer.known \in BOOLEAN
  BY <1>1 DEF Status
<1>4. Record(states[c], answer, clock) \in Runtime
      /\ Record(states[c], answer, clock).cooldown = states[c].cooldown
  <2> DEFINE status == IF answer.known THEN answer ELSE states[c].status
  <2>1. status \in Status
    BY <1>1 DEF Runtime
  <2>2. Record(states[c], answer, clock)
          = [states[c] EXCEPT !.reachable = answer.known, !.fetched = clock,
                              !.status = status]
    BY <1>1 DEF Record, Runtime
  <2> HIDE DEF status
  <2> QED
    BY <1>1, <1>3, <2>1, <2>2 DEF Runtime
<1> QED
  BY <1>1, <1>2, <1>4 DEF Learned, Result

\* The queries leave the cooldowns as they are.
LEMMA QueriesData ==
  ASSUME IInv, NEW w \in Workers, NEW answer,
         \A c \in Children : answer[c] \in Answers(c),
         states' = [c \in Children |-> Learned(w, c, answer[c])],
         UNCHANGED <<sf, clock, active, setup>>, inFlight' \in BOOLEAN
  PROVE  DataOK' /\ Heated
<1>1. /\ states' \in [Children -> Runtime]
      /\ \A c \in Children : states'[c].cooldown = states[c].cooldown
  BY LearnedType
<1> QED
  BY <1>1 DEF IInv, TypeOK, DataOK, Heated, StoreInv, Consistent, UniqueIds, ActiveInRange,
       SyncedInPast, Known

LEMMA EndQueriesKeeps ==
  ASSUME IInv, NEW w \in Workers, NEW answer,
         \A c \in Children : answer[c] \in Answers(c), EndQueries(w, answer)
  PROVE  IInv'
<1> DEFINE target == [c \in Children |-> Target(c \in worker[w].cooling,
                                                Result(w, c, answer[c]))]
           route == SelectRoute(worker[w].snap, target, worker[w].now)
<1>1. DataOK' /\ Heated
  <2>1. inFlight' \in BOOLEAN
    BY DEF EndQueries, IInv, TypeOK
  <2> QED
    BY <2>1, QueriesData DEF EndQueries
<1>2. /\ worker[w].pc = "fetch" /\ worker[w].failed = {}
      /\ worker[w].snap \in StoreFile /\ worker[w].now \in Nat
  BY WorkerType DEF EndQueries, RouteInv, Worker
<1>3. CASE worker[w].task \in {"http", "ws"}
  <2>1. target \in [Children -> ProxyTarget]
    <3>1. ASSUME NEW c \in Children
          PROVE  Target(c \in worker[w].cooling, Result(w, c, answer[c])) \in ProxyTarget
      <4> DEFINE cooling == c \in worker[w].cooling
      <4>1. cooling \in BOOLEAN
        OBVIOUS
      <4>2. Result(w, c, answer[c]) \in Status
        BY LearnedType
      <4> HIDE DEF cooling
      <4>3. Target(cooling, Result(w, c, answer[c])) \in ProxyTarget
        BY <4>1, <4>2, TargetType
      <4> QED
        BY <4>3 DEF cooling
    <3> QED
      BY <3>1
  <2> HIDE DEF target
  <2>2. route \in AccountIds \cup {NoAccount}
    BY <1>2, <2>1, RouteChosen
  <2>3. Take(w, route) /\ worker[w].task # "refresh" /\ UNCHANGED <<clock, inFlight, setup>>
    BY <1>3, Zenon DEF EndQueries, target
  <2> HIDE DEF route
  <2> QED
    BY <1>1, <1>2, <2>2, <2>3, TakeStep
<1>4. CASE worker[w].task \notin {"http", "ws"} /\ worker[w].task # "refresh"
  BY <1>1, <1>4, EndStep DEF EndQueries
<1>5. CASE worker[w].task = "refresh"
  <2>1. End(w) /\ ~inFlight' /\ UNCHANGED <<clock, setup>>
    BY <1>5 DEF EndQueries
  <2>2. Resting.task = "http"
    BY DEF Resting
  <2>3. \A v \in Workers : worker'[v].task # "refresh"
    <3>1. \A v \in Workers : worker[v].task = "refresh" => v = w
      BY <1>5 DEF IInv, RefreshInv
    <3> QED
      BY <2>1, <2>2, <3>1 DEF End, Set, IInv, TypeOK
  <2>4. RefreshInv'
    BY <2>1, <2>3 DEF RefreshInv
  <2>5. RouteInv(Resting, states', clock) /\ AdminInv(Resting, Targets)
    BY WorkerType, RestingInv
  <2> QED
    BY <1>1, <2>1, <2>4, <2>5, RestingType, MoveStep DEF End
<1> QED
  BY <1>3, <1>4, <1>5

LEMMA StartRefreshKeeps ==
  ASSUME IInv, NEW w \in Workers, StartRefresh(w)
  PROVE  IInv'
<1> DEFINE r == [Resting EXCEPT !.task = "refresh", !.pc = "fetch", !.keep = Fallbacks]
<1>1. r \in Worker
  <2>1. "refresh" \in AllTasks /\ "fetch" \in Pcs
    BY DEF AllTasks, Pcs
  <2> QED
    BY <2>1, RestingType, FallbacksType DEF Worker
<1>2. r.task = "refresh" /\ r.pc = "fetch" /\ r.now = 0 /\ r.failed = {}
  BY DEF Resting
<1>3. Set(w, r)
  BY DEF StartRefresh
<1> HIDE DEF r
<1>4. RouteInv(r, states', clock) /\ AdminInv(r, Targets)
  <2>1. RouteInv(r, states', clock)
    BY <1>2, WorkerType DEF RouteInv
  <2>2. AdminInv(r, Targets)
    BY <1>2, Zenon DEF AdminInv
  <2> QED
    BY <2>1, <2>2
<1>5. RefreshInv'
  <2>1. \A v \in Workers : worker[v].task # "refresh"
    BY DEF StartRefresh, IInv, RefreshInv
  <2>2. \A v \in Workers : worker'[v].task = "refresh" <=> v = w
    BY <1>2, <1>3, <2>1 DEF Set, IInv, TypeOK
  <2>3. inFlight'
    BY DEF StartRefresh
  <2> QED
    BY <2>2, <2>3 DEF RefreshInv
<1>6. DataOK' /\ Heated
  BY DEF StartRefresh, IInv, TypeOK, DataOK, Heated, StoreInv, Consistent, UniqueIds,
         ActiveInRange, SyncedInPast, Known
<1> QED
  BY <1>1, <1>3, <1>4, <1>5, <1>6, MoveStep DEF StartRefresh

LEMMA TickKeeps ==
  ASSUME IInv, Tick
  PROVE  IInv'
<1>1. clock' \in 1..MaxTime /\ clock' = clock + 1
  BY ChildProxiesAssumption DEF IInv, TypeOK, Tick
<1>2. TypeOK' /\ StoreInv'
  BY <1>1 DEF Tick, IInv, TypeOK, StoreInv, Consistent, UniqueIds, ActiveInRange,
              SyncedInPast, Known
<1>3. RefreshInv'
  BY DEF Tick, IInv, RefreshInv
<1>4. Targets' = Targets
  BY DEF Targets, Tick
<1>5. ASSUME NEW v \in Workers
      PROVE  RouteInv(worker[v], states, clock') /\ AdminInv(worker[v], Targets)
  <2>1. worker[v].now <= clock'
    BY <1>1, WorkerType DEF RouteInv
  <2> QED
    BY <2>1, WorkerType DEF RouteInv
<1>6. worker' = worker /\ states' = states
  BY DEF Tick
<1> QED
  BY <1>2, <1>3, <1>4, <1>5, <1>6 DEF IInv

-----------------------------------------------------------------------------
(***************************************************************************)
(* Admin commands                                                          *)
(***************************************************************************)

LEMMA TargetsType == IInv => Targets \in [Children -> Nat]
BY ChildProxiesAssumption DEF IInv, TypeOK, Setup, Targets

\* A turn adds the child whose turn it is.
LEMMA PassedNext ==
  ASSUME NEW n \in 1..Len(ChildURLs)
  PROVE  Passed(n + 1) = Passed(n) \cup {ChildURLs[n]} /\ ChildURLs[n] \notin Passed(n)
<1>1. 1..((n + 1) - 1) = 1..(n - 1) \cup {n}
  BY ChildrenAreIds
<1>2. ChildURLs[n] \notin Passed(n)
  BY ChildrenAreIds, ChildProxiesAssumption DEF Passed
<1> QED
  BY <1>1, <1>2 DEF Passed

AdminPcs == {"search", "asked", "direct", "forward", "done"}

\* A worker that carries an admin command further.
LEMMA AdminMove ==
  ASSUME IInv, DataOK', Heated, NEW w \in Workers, NEW r \in Worker, Set(w, r),
         worker[w].pc # "fetch", r.pc \in AdminPcs, r.task # "refresh",
         \/ r.now = worker[w].now /\ r.failed = worker[w].failed
         \/ r.now = 0 /\ r.failed = {},
         AdminInv(r, Targets), UNCHANGED <<clock, inFlight, setup>>
  PROVE  IInv'
<1>1. worker[w].task # "refresh" /\ clock \in Nat
  BY WorkerType DEF RouteInv
<1>2. RouteInv(worker[w], states', clock)
  BY WorkerType, OthersKept DEF IInv
<1>3. r.now <= clock /\ \A c \in r.failed : states'[c].cooldown > r.now
  BY <1>1, <1>2 DEF RouteInv
<1>4. RouteInv(r, states', clock)
  BY <1>3 DEF RouteInv, AdminPcs
<1> QED
  BY <1>1, <1>4, WorkerStep

\* What the client is told.
LEMMA DoneMove ==
  ASSUME IInv, NEW w \in Workers, worker[w].pc \in {"search", "direct", "forward"},
         NEW reply \in Replies, NEW applied \in [Children -> Nat],
         \A c \in Children : applied[c] <= Targets[c],
         reply = "done" /\ worker[w].task = "admin" => \E c \in Children : applied[c] > 0,
         reply = "absent" => applied = NoneApplied,
         Set(w, [Resting EXCEPT !.task = worker[w].task, !.pc = "done", !.reply = reply,
                                !.applied = applied]),
         UNCHANGED <<sf, clock, states, active, inFlight, setup>>
  PROVE  IInv'
<1> DEFINE r == [Resting EXCEPT !.task = worker[w].task, !.pc = "done", !.reply = reply,
                                !.applied = applied]
<1>1. r \in Worker
  <2>1. worker[w].task \in AllTasks /\ "done" \in Pcs
    BY WorkerType DEF Worker, Pcs
  <2> QED
    BY <2>1, RestingType DEF Worker
<1>2. /\ r.pc = "done" /\ r.task = worker[w].task /\ r.reply = reply /\ r.applied = applied
      /\ r.now = 0 /\ r.failed = {}
  BY DEF Resting
<1>3. worker[w].task # "refresh" /\ worker[w].pc # "fetch"
  BY WorkerType DEF RouteInv
<1> HIDE DEF r
<1>4. AdminInv(r, Targets)
  BY <1>2 DEF AdminInv
<1>5. Set(w, r)
  BY DEF r
<1> QED
  BY <1>1, <1>2, <1>3, <1>4, <1>5, DataKept, AdminMove DEF AdminPcs

LEMMA TurnType ==
  ASSUME IInv, NEW w \in Workers, worker[w].pc \in {"search", "asked", "direct", "forward"},
         worker[w].turn <= Len(ChildURLs)
  PROVE  /\ worker[w].turn \in 1..Len(ChildURLs) /\ worker[w].turn \in Nat
         /\ worker[w].turn + 1 \in 0..(Len(ChildURLs) + 1)
         /\ ChildURLs[worker[w].turn] \in Children
<1>1. worker[w].turn \in 0..(Len(ChildURLs) + 1)
  BY WorkerType DEF Worker
<1>2. worker[w].turn >= 1
  BY WorkerType DEF AdminInv
<1>3. worker[w].turn \in 1..Len(ChildURLs)
  BY <1>1, <1>2, ChildrenAreIds
<1> QED
  BY <1>3, ChildrenAreIds

LEMMA ArriveAdminKeeps ==
  ASSUME IInv, NEW w \in Workers, ArriveAdmin(w)
  PROVE  IInv'
<1>1. PICK task \in setup.tasks[w] \cap {"admin", "stream"} :
        Set(w, [Resting EXCEPT !.task = task, !.pc = "search", !.turn = 1])
  BY DEF ArriveAdmin
<1> DEFINE r == [Resting EXCEPT !.task = task, !.pc = "search", !.turn = 1]
<1>2. r \in Worker
  <2>1. task \in AllTasks /\ "search" \in Pcs /\ 1 \in 0..(Len(ChildURLs) + 1)
    BY ChildrenAreIds DEF AllTasks, Pcs
  <2> QED
    BY <2>1, RestingType DEF Worker
<1>3. /\ r.pc = "search" /\ r.task = task /\ r.turn = 1
      /\ r.applied = NoneApplied /\ r.matched = "none" /\ r.now = 0 /\ r.failed = {}
  BY DEF Resting
<1>4. worker[w].pc # "fetch" /\ task # "refresh"
  BY DEF ArriveAdmin
<1> HIDE DEF r
<1>5. AdminInv(r, Targets)
  BY <1>3 DEF AdminInv
<1>6. Set(w, r)
  BY <1>1 DEF r
<1> QED
  BY <1>2, <1>3, <1>4, <1>5, <1>6, DataKept, AdminMove DEF AdminPcs, ArriveAdmin

LEMMA AskNextKeeps ==
  ASSUME IInv, NEW w \in Workers, AskNext(w)
  PROVE  IInv'
<1> DEFINE c == ChildURLs[worker[w].turn]
           r == [worker[w] EXCEPT !.pc = "asked", !.keep[c] = Fallbacks[c]]
<1>1. worker[w].pc = "search" /\ worker[w].turn <= Len(ChildURLs) /\ c \in Children
  BY TurnType DEF AskNext
<1>2. r \in Worker
  <2> HIDE DEF c
  <2>1. worker[w] \in Worker /\ "asked" \in Pcs
    BY WorkerType DEF Pcs
  <2>2. [worker[w].keep EXCEPT ![c] = Fallbacks[c]] \in [Children -> Status]
    BY <1>1, <2>1, FallbacksType DEF Worker
  <2>3. r = [worker[w] EXCEPT !.pc = "asked",
                              !.keep = [worker[w].keep EXCEPT ![c] = Fallbacks[c]]]
    BY <2>1 DEF Worker
  <2> HIDE DEF r
  <2> QED
    BY <2>1, <2>2, <2>3 DEF Worker
<1>3. /\ r.pc = "asked" /\ r.task = worker[w].task /\ r.turn = worker[w].turn
      /\ r.applied = worker[w].applied /\ r.matched = worker[w].matched
      /\ r.now = worker[w].now /\ r.failed = worker[w].failed
  BY WorkerType DEF Worker
<1>4. Set(w, r)
  BY DEF AskNext
<1>5. worker[w].task # "refresh"
  BY <1>1, WorkerType DEF RouteInv
<1> HIDE DEF r
<1>6. AdminInv(r, Targets)
  BY <1>1, <1>3, WorkerType DEF AdminInv
<1> QED
  BY <1>1, <1>2, <1>3, <1>4, <1>5, <1>6, DataKept, AdminMove DEF AdminPcs, AskNext

LEMMA CompareKeeps ==
  ASSUME IInv, NEW w \in Workers, Compare(w)
  PROVE  IInv'
<1> DEFINE c == ChildURLs[worker[w].turn]
<1>1. /\ worker[w].pc = "asked" /\ worker[w].turn <= Len(ChildURLs)
      /\ worker[w].task # "refresh"
  BY WorkerType DEF Compare, AdminInv, RouteInv
<1>2. /\ worker[w].turn \in Nat /\ worker[w].turn + 1 \in 0..(Len(ChildURLs) + 1)
      /\ c \in Children
  BY <1>1, TurnType
<1>3. PICK answer \in Answers(c) :
        /\ states' = [states EXCEPT ![c] = Learned(w, c, answer)]
        /\ Set(w, [worker[w] EXCEPT !.pc = "search", !.turn = @ + 1, !.keep = Resting.keep,
                     !.named = IF Result(w, c, answer).named THEN @ \cup {c} ELSE @,
                     !.errors = @ \/ ~Result(w, c, answer).known])
  BY DEF Compare
<1>4. /\ Learned(w, c, answer) \in Runtime
      /\ Learned(w, c, answer).cooldown = states[c].cooldown
      /\ Result(w, c, answer) \in Status
  BY <1>2, LearnedType
<1> HIDE DEF c
<1> DEFINE result == Result(w, c, answer)
           named  == IF result.named THEN worker[w].named \cup {c} ELSE worker[w].named
           errors == worker[w].errors \/ ~result.known
           r == [worker[w] EXCEPT !.pc = "search", !.turn = worker[w].turn + 1,
                   !.keep = Resting.keep, !.named = named, !.errors = errors]
<1>5. DataOK' /\ Heated
  <2>1. [states EXCEPT ![c] = Learned(w, c, answer)] \in [Children -> Runtime]
    BY <1>2, <1>4 DEF IInv, TypeOK
  <2>2. DataOK'
    BY <1>3, <2>1, StatesKept DEF Compare, IInv, TypeOK
  <2>3. Heated
    BY <1>2, <1>3, <1>4 DEF Heated, IInv, TypeOK
  <2> QED
    BY <2>2, <2>3
<1>6. Set(w, r)
  BY <1>3
<1>7. named \in SUBSET Children /\ errors \in BOOLEAN
  <2>1. worker[w].named \in SUBSET Children /\ worker[w].errors \in BOOLEAN
    BY WorkerType DEF Worker
  <2> QED
    BY <1>2, <2>1
<1> HIDE DEF named, errors
<1>8. r \in Worker
  <2>1. "search" \in Pcs /\ Resting.keep \in [Children -> Status] /\ worker[w] \in Worker
    BY WorkerType, RestingType DEF Pcs, Worker
  <2> QED
    BY <1>2, <1>7, <2>1 DEF Worker
<1>9. /\ r.pc = "search" /\ r.task = worker[w].task /\ r.turn = worker[w].turn + 1
      /\ r.applied = worker[w].applied /\ r.matched = worker[w].matched
      /\ r.now = worker[w].now /\ r.failed = worker[w].failed
  BY WorkerType DEF Worker
<1> HIDE DEF r
<1>10. AdminInv(r, Targets)
  <2>1. r.turn >= 1
    BY <1>2, <1>9
  <2>2. r.applied = NoneApplied /\ r.matched = "none"
    BY <1>1, <1>9, WorkerType DEF AdminInv
  <2> QED
    BY <1>9, <2>1, <2>2 DEF AdminInv
<1> QED
  BY <1>1, <1>5, <1>6, <1>8, <1>9, <1>10, AdminMove DEF AdminPcs, Compare

LEMMA SearchedKeeps ==
  ASSUME IInv, NEW w \in Workers, Searched(w)
  PROVE  IInv'
<1> DEFINE n == Cardinality(worker[w].named)
<1>1. /\ worker[w].pc = "search" /\ worker[w].task # "refresh" /\ worker[w] \in Worker
      /\ worker[w].applied = NoneApplied /\ worker[w].matched = "none"
  BY WorkerType DEF Searched, AdminInv, RouteInv
<1>2. NoneApplied \in [Children -> Nat]
      /\ \A c \in Children : NoneApplied[c] = 0 /\ 0 <= Targets[c]
  BY TargetsType DEF NoneApplied
<1>3. Passed(1) = {}
  BY DEF Passed
<1>4. ASSUME NEW reply \in {"failed", "ambiguous"}, Reply(w, reply) PROVE IInv'
  <2>1. reply \in Replies /\ reply # "done" /\ reply # "absent"
    BY DEF Replies
  <2>2. \A c \in Children : NoneApplied[c] <= Targets[c]
    BY <1>2
  <2> QED
    BY <1>1, <1>2, <1>4, <2>1, <2>2, DoneMove DEF Reply, Searched
<1>5. ASSUME ~worker[w].errors, Set(w, [worker[w] EXCEPT !.pc = "forward", !.turn = 1])
      PROVE  IInv'
  <2> DEFINE r == [worker[w] EXCEPT !.pc = "forward", !.turn = 1]
  <2>1. r \in Worker
    <3>1. "forward" \in Pcs /\ 1 \in 0..(Len(ChildURLs) + 1)
      BY ChildrenAreIds DEF Pcs
    <3> QED
      BY <1>1, <3>1 DEF Worker
  <2>2. /\ r.pc = "forward" /\ r.task = worker[w].task /\ r.turn = 1
        /\ r.applied = NoneApplied /\ r.matched = "none" /\ r.errors = worker[w].errors
        /\ r.now = worker[w].now /\ r.failed = worker[w].failed
    BY <1>1 DEF Worker
  <2>3. Set(w, r)
    BY <1>5
  <2> HIDE DEF r
  <2>4. AdminInv(r, Targets)
    BY <1>2, <1>3, <2>2 DEF AdminInv
  <2> QED
    BY <1>1, <2>1, <2>2, <2>3, <2>4, DataKept, AdminMove DEF AdminPcs, Searched
<1>6. ASSUME n = 1,
             Set(w, [worker[w] EXCEPT !.pc = "direct", !.errors = FALSE, !.turn =
                       CHOOSE i \in DOMAIN ChildURLs : ChildURLs[i] \in worker[w].named])
      PROVE  IInv'
  <2> DEFINE k == CHOOSE i \in DOMAIN ChildURLs : ChildURLs[i] \in worker[w].named
             r == [worker[w] EXCEPT !.pc = "direct", !.errors = FALSE, !.turn = k]
  <2>1. k \in 1..Len(ChildURLs)
    <3>1. worker[w].named \subseteq Children
      BY <1>1 DEF Worker
    <3>2. worker[w].named # {}
      <4>1. Cardinality({}) # 1
        BY FS_EmptySet
      <4> QED
        BY <1>6, <4>1
    <3>3. PICK c \in Children : c \in worker[w].named
      BY <3>1, <3>2
    <3>4. \E i \in DOMAIN ChildURLs : ChildURLs[i] \in worker[w].named
      BY <3>3 DEF Children
    <3>5. k \in DOMAIN ChildURLs
      BY <3>4
    <3> HIDE DEF k
    <3> QED
      BY <3>5, ChildrenAreIds
  <2>2. Set(w, r)
    BY <1>6
  <2> HIDE DEF k
  <2>3. r \in Worker
    <3>1. "direct" \in Pcs /\ k \in 0..(Len(ChildURLs) + 1)
      BY <2>1, ChildrenAreIds DEF Pcs
    <3> QED
      BY <1>1, <3>1 DEF Worker
  <2>4. /\ r.pc = "direct" /\ r.task = worker[w].task /\ r.turn = k
        /\ r.applied = NoneApplied /\ r.matched = "none"
        /\ r.now = worker[w].now /\ r.failed = worker[w].failed
    BY <1>1 DEF Worker
  <2> HIDE DEF r
  <2>5. k >= 1 /\ k <= Len(ChildURLs)
    BY <2>1, ChildrenAreIds
  <2>6. AdminInv(r, Targets)
    BY <2>4, <2>5 DEF AdminInv
  <2> QED
    BY <1>1, <2>2, <2>3, <2>4, <2>6, DataKept, AdminMove DEF AdminPcs, Searched
<1> QED
  BY <1>4, <1>5, <1>6 DEF Searched

\* What a child does with the command, when nothing was carried out through it before.
LEMMA CountingType ==
  ASSUME IInv, NEW w \in Workers, NEW c \in Children, NEW o \in Outcomes(w, c),
         \A d \in Children : worker[w].applied[d] <= Targets[d], worker[w].applied[c] = 0
  PROVE  /\ Counting(w, c, o) \in [Children -> Nat]
         /\ \A d \in Children : Counting(w, c, o)[d] <= Targets[d]
         /\ \A d \in Children \ {c} : Counting(w, c, o)[d] = worker[w].applied[d]
         /\ o.reply \in {"done", "absent", "failed", "lost"}
         /\ o.reply = "absent" => Counting(w, c, o) = worker[w].applied
         /\ o.reply = "done" /\ worker[w].task = "admin"
              => \E d \in Children : Counting(w, c, o)[d] > 0
<1>1. worker[w].applied \in [Children -> Nat]
  BY WorkerType DEF Worker
<1>2. /\ o.applied \in Nat /\ o.applied <= Targets[c]
      /\ o.reply \in {"done", "absent", "failed", "lost"}
      /\ o.reply = "absent" => o.applied = 0
      /\ o.reply = "done" /\ worker[w].task = "admin" => o.applied > 0
  BY TargetsType DEF Outcomes, Targets
<1>3. /\ Counting(w, c, o) \in [Children -> Nat] /\ Counting(w, c, o)[c] = o.applied
      /\ \A d \in Children \ {c} : Counting(w, c, o)[d] = worker[w].applied[d]
  BY <1>1, <1>2 DEF Counting
<1> QED
  BY <1>1, <1>2, <1>3

LEMMA ForwardDirectKeeps ==
  ASSUME IInv, NEW w \in Workers, ForwardDirect(w)
  PROVE  IInv'
<1> DEFINE c == ChildURLs[worker[w].turn]
<1>1. worker[w].pc = "direct" /\ c \in Children
  <2>1. worker[w].pc = "direct" /\ worker[w].turn <= Len(ChildURLs)
    BY WorkerType DEF ForwardDirect, AdminInv
  <2> QED
    BY <2>1, TurnType
<1>2. PICK o \in Outcomes(w, c) :
        Set(w, [Resting EXCEPT !.task = worker[w].task, !.pc = "done",
                               !.reply = IF o.reply = "lost" THEN "failed" ELSE o.reply,
                               !.applied = Counting(w, c, o)])
  BY DEF ForwardDirect
<1> HIDE DEF c
<1> DEFINE reply   == IF o.reply = "lost" THEN "failed" ELSE o.reply
           applied == Counting(w, c, o)
<1>3. worker[w].applied = NoneApplied
  BY <1>1, WorkerType DEF AdminInv
<1>4. \A d \in Children : worker[w].applied[d] = 0 /\ worker[w].applied[d] <= Targets[d]
  BY <1>3, TargetsType DEF NoneApplied
<1>5. /\ applied \in [Children -> Nat] /\ \A d \in Children : applied[d] <= Targets[d]
      /\ o.reply \in {"done", "absent", "failed", "lost"}
      /\ o.reply = "absent" => applied = NoneApplied
      /\ o.reply = "done" /\ worker[w].task = "admin" => \E d \in Children : applied[d] > 0
  BY <1>1, <1>3, <1>4, CountingType
<1> HIDE DEF applied
<1>6. /\ reply \in Replies
      /\ reply = "absent" => applied = NoneApplied
      /\ reply = "done" /\ worker[w].task = "admin" => \E d \in Children : applied[d] > 0
  BY <1>5 DEF Replies
<1>7. Set(w, [Resting EXCEPT !.task = worker[w].task, !.pc = "done", !.reply = reply,
                             !.applied = applied])
  BY <1>2 DEF reply, applied
<1>8. UNCHANGED <<sf, clock, states, active, inFlight, setup>>
  BY DEF ForwardDirect
<1> HIDE DEF reply
<1> QED
  BY <1>1, <1>5, <1>6, <1>7, <1>8, DoneMove

LEMMA ForwardedKeeps ==
  ASSUME IInv, NEW w \in Workers, Forwarded(w)
  PROVE  IInv'
<1> DEFINE reply == IF worker[w].matched # "none" THEN worker[w].matched
                    ELSE IF worker[w].errors THEN "failed" ELSE "absent"
<1>1. worker[w].pc = "forward" /\ worker[w] \in Worker /\ AdminInv(worker[w], Targets)
  BY WorkerType DEF Forwarded
<1>2. /\ reply \in Replies
      /\ reply = "absent" => worker[w].applied = NoneApplied
      /\ reply = "done" /\ worker[w].task = "admin"
           => \E c \in Children : worker[w].applied[c] > 0
  BY <1>1 DEF AdminInv, Replies
<1>3. worker[w].applied \in [Children -> Nat]
      /\ \A c \in Children : worker[w].applied[c] <= Targets[c]
  BY <1>1 DEF AdminInv, Worker
<1>4. Reply(w, reply)
  BY DEF Forwarded
<1> HIDE DEF reply
<1> QED
  BY <1>1, <1>2, <1>3, <1>4, DoneMove DEF Reply, Forwarded

LEMMA ReturnReplyKeeps ==
  ASSUME IInv, NEW w \in Workers, ReturnReply(w)
  PROVE  IInv'
<1>1. worker[w].task # "refresh"
  BY WorkerType DEF ReturnReply, RouteInv
<1> QED
  BY <1>1, DataKept, EndStep DEF ReturnReply

LEMMA ForwardNextKeeps ==
  ASSUME IInv, NEW w \in Workers, ForwardNext(w)
  PROVE  IInv'
<1> DEFINE k == worker[w].turn
           c == ChildURLs[k]
<1>1. /\ worker[w].pc = "forward" /\ worker[w] \in Worker /\ worker[w].task # "refresh"
      /\ AdminInv(worker[w], Targets) /\ k <= Len(ChildURLs)
  BY WorkerType DEF ForwardNext, RouteInv
<1>2. k \in 1..Len(ChildURLs) /\ k \in Nat /\ k + 1 \in 0..(Len(ChildURLs) + 1)
      /\ c \in Children
  BY <1>1, TurnType
<1>3. PICK o \in Outcomes(w, c) :
       LET applied == Counting(w, c, o)
           next == [worker[w] EXCEPT !.turn = @ + 1, !.applied = applied]
           end  == [Resting EXCEPT !.task = worker[w].task, !.pc = "done", !.applied = applied]
       IN  \/ o.reply = "lost"   /\ Set(w, [next EXCEPT !.errors = TRUE])
           \/ o.reply = "absent" /\ Set(w, next)
           \/ /\ o.reply \in {"done", "failed"}
              /\ Set(w, IF worker[w].task = "stream" THEN [end EXCEPT !.reply = o.reply]
                        ELSE IF worker[w].matched # "none"
                        THEN [end EXCEPT !.reply = "ambiguous"]
                        ELSE [next EXCEPT !.matched = o.reply])
  BY DEF ForwardNext
<1> DEFINE applied == Counting(w, c, o)
           next == [worker[w] EXCEPT !.turn = @ + 1, !.applied = applied]
<1>4. /\ Passed(k + 1) = Passed(k) \cup {c} /\ c \notin Passed(k)
      /\ \A d \in Children : /\ worker[w].applied[d] <= Targets[d]
                             /\ d \notin Passed(k) => worker[w].applied[d] = 0
  BY <1>1, <1>2, PassedNext DEF AdminInv
<1> HIDE DEF c
<1>5. /\ applied \in [Children -> Nat]
      /\ \A d \in Children : applied[d] <= Targets[d]
      /\ \A d \in Children \ {c} : applied[d] = worker[w].applied[d]
      /\ o.reply \in {"done", "absent", "failed", "lost"}
      /\ o.reply = "absent" => applied = worker[w].applied
      /\ o.reply = "done" /\ worker[w].task = "admin" => \E d \in Children : applied[d] > 0
  BY <1>2, <1>4, CountingType
<1> HIDE DEF applied
<1>6. \A d \in Children : applied[d] <= Targets[d] /\ (d \notin Passed(k + 1) => applied[d] = 0)
  BY <1>4, <1>5
<1>7. next \in Worker
  BY <1>1, <1>2, <1>5 DEF Worker
<1>8. /\ next.pc = "forward" /\ next.task = worker[w].task /\ next.turn = k + 1
      /\ next.applied = applied /\ next.matched = worker[w].matched
      /\ next.errors = worker[w].errors
      /\ next.now = worker[w].now /\ next.failed = worker[w].failed
  BY <1>1 DEF Worker
<1>9. k + 1 >= 1
  BY <1>2
<1> HIDE DEF next
<1>10. ASSUME NEW matched \in {"none", "done", "failed"}, NEW errors \in BOOLEAN,
              NEW r, r = [next EXCEPT !.matched = matched, !.errors = errors], Set(w, r),
              matched = "none" /\ ~errors => applied = NoneApplied,
              matched = "done" /\ worker[w].task = "admin" => \E d \in Children : applied[d] > 0
       PROVE  IInv'
  <2>1. r \in Worker
    <3>1. matched \in Replies
      BY DEF Replies
    <3> QED
      BY <1>7, <1>10, <3>1 DEF Worker
  <2>2. /\ r.pc = "forward" /\ r.task = worker[w].task /\ r.turn = k + 1
        /\ r.applied = applied /\ r.matched = matched /\ r.errors = errors
        /\ r.now = worker[w].now /\ r.failed = worker[w].failed
    BY <1>7, <1>8, <1>10 DEF Worker
  <2>3. AdminInv(r, Targets)
    BY <1>6, <1>9, <1>10, <2>2 DEF AdminInv
  <2> QED
    BY <1>1, <1>10, <2>1, <2>2, <2>3, DataKept, AdminMove DEF AdminPcs, ForwardNext
<1>11. ASSUME NEW reply \in {"done", "failed", "ambiguous"},
              reply = "done" /\ worker[w].task = "admin" => \E d \in Children : applied[d] > 0,
              Set(w, [Resting EXCEPT !.task = worker[w].task, !.pc = "done",
                                     !.applied = applied, !.reply = reply])
       PROVE  IInv'
  <2>1. [Resting EXCEPT !.task = worker[w].task, !.pc = "done", !.applied = applied,
                        !.reply = reply]
          = [Resting EXCEPT !.task = worker[w].task, !.pc = "done", !.reply = reply,
                            !.applied = applied]
    OBVIOUS
  <2>2. reply \in Replies /\ reply # "absent"
    BY DEF Replies
  <2> QED
    BY <1>1, <1>5, <1>6, <1>11, <2>1, <2>2, DoneMove DEF ForwardNext
<1>12. worker[w].matched \in {"none", "done", "failed"} /\ worker[w].errors \in BOOLEAN
       /\ (worker[w].matched = "none" /\ ~worker[w].errors => worker[w].applied = NoneApplied)
       /\ (worker[w].matched = "done" /\ worker[w].task = "admin"
             => \E d \in Children : worker[w].applied[d] > 0)
  BY <1>1 DEF AdminInv, Worker
<1>13. worker[w].matched = "done" /\ worker[w].task = "admin" => \E d \in Children : applied[d] > 0
  <2>1. \A d \in Children : worker[w].applied[d] > 0 => d \in Passed(k) /\ d # c
    BY <1>4
  <2> QED
    BY <1>5, <1>12, <2>1
<1>14. CASE o.reply = "lost"
  <2>1. Set(w, [next EXCEPT !.errors = TRUE])
    BY <1>3, <1>14 DEF next, applied
  <2>2. [next EXCEPT !.errors = TRUE]
          = [next EXCEPT !.matched = worker[w].matched, !.errors = TRUE]
    BY <1>7, <1>8 DEF Worker
  <2> QED
    BY <1>10, <1>12, <1>13, <2>1, <2>2
<1>15. CASE o.reply = "absent"
  <2>1. Set(w, next)
    BY <1>3, <1>15 DEF next, applied
  <2>2. next = [next EXCEPT !.matched = worker[w].matched, !.errors = worker[w].errors]
    BY <1>7, <1>8 DEF Worker
  <2>3. applied = worker[w].applied
    BY <1>5, <1>15
  <2> QED
    BY <1>10, <1>12, <1>13, <2>1, <2>2, <2>3
<1>16. CASE o.reply \in {"done", "failed"} /\ worker[w].task = "stream"
  <2>1. Set(w, [Resting EXCEPT !.task = worker[w].task, !.pc = "done",
                               !.applied = applied, !.reply = o.reply])
    BY <1>3, <1>16 DEF applied
  <2> QED
    BY <1>11, <1>16, <2>1
<1>17. CASE o.reply \in {"done", "failed"} /\ worker[w].task # "stream"
            /\ worker[w].matched # "none"
  <2>1. Set(w, [Resting EXCEPT !.task = worker[w].task, !.pc = "done",
                               !.applied = applied, !.reply = "ambiguous"])
    BY <1>3, <1>17 DEF applied
  <2> QED
    BY <1>11, <2>1
<1>18. CASE o.reply \in {"done", "failed"} /\ worker[w].task # "stream"
            /\ worker[w].matched = "none"
  <2>1. Set(w, [next EXCEPT !.matched = o.reply])
    BY <1>3, <1>18 DEF next, applied
  <2>2. [next EXCEPT !.matched = o.reply]
          = [next EXCEPT !.matched = o.reply, !.errors = worker[w].errors]
    BY <1>7, <1>8 DEF Worker
  <2>3. o.reply = "done" /\ worker[w].task = "admin" => \E d \in Children : applied[d] > 0
    BY <1>5
  <2> QED
    BY <1>10, <1>12, <1>18, <2>1, <2>2, <2>3
<1> QED
  BY <1>5, <1>14, <1>15, <1>16, <1>17, <1>18

-----------------------------------------------------------------------------
(***************************************************************************)
(* The theorems                                                            *)
(***************************************************************************)

LEMMA InitIInv == Init => IInv
<1> SUFFICES ASSUME Init PROVE IInv
  OBVIOUS
<1>1. /\ setup \in Setup /\ setup.store \in StoreFile /\ Consistent(setup.store)
      /\ Known(setup.store) \cap Children = {}
  BY ChildProxiesAssumption DEF Init, Setup
<1>2. Unknown \in Runtime
  BY NoStatusType DEF Unknown, Runtime, Status
<1>3. TypeOK
  <2>1. sf \in StoreFile /\ clock \in 1..MaxTime /\ setup \in Setups
    BY <1>1, ChildProxiesAssumption DEF Init
  <2>2. states \in [Children -> Runtime] /\ worker \in [Workers -> Worker]
    BY <1>2, RestingType DEF Init
  <2>3. active \in AccountIds \cup {NoAccount} /\ inFlight \in BOOLEAN
    BY DEF Init
  <2> QED
    BY <2>1, <2>2, <2>3 DEF TypeOK
<1>4. \A w \in Workers : worker[w] = Resting /\ clock \in Nat
  BY DEF Init
<1>5. \A w \in Workers : RouteInv(worker[w], states, clock) /\ AdminInv(worker[w], Targets)
  BY <1>4, RestingInv
<1>6. RefreshInv
  <2>1. \A w \in Workers : worker[w].task = "http"
    BY <1>4 DEF Resting
  <2>2. ~inFlight
    BY DEF Init
  <2> QED
    BY <2>1, <2>2 DEF RefreshInv
<1>7. StoreInv
  BY <1>1 DEF Init, StoreInv
<1> QED
  BY <1>3, <1>5, <1>6, <1>7 DEF IInv

LEMMA StutterKeeps == IInv /\ UNCHANGED vars => IInv'
<1> SUFFICES ASSUME IInv, UNCHANGED vars PROVE IInv'
  OBVIOUS
<1>1. TypeOK' /\ StoreInv' /\ RefreshInv'
  BY DEF vars, IInv, TypeOK, StoreInv, Consistent, UniqueIds, ActiveInRange, SyncedInPast,
         Known, RefreshInv
<1>2. Targets' = Targets /\ worker' = worker /\ states' = states /\ clock' = clock
  BY DEF vars, Targets
<1> QED
  BY <1>1, <1>2 DEF IInv

LEMMA NextKeeps == IInv /\ [Next]_vars => IInv'
<1> SUFFICES ASSUME IInv, [Next]_vars PROVE IInv'
  OBVIOUS
<1>1. ASSUME NEW w \in Workers, Arrive(w) \/ StartRefresh(w) \/ ArriveAdmin(w) PROVE IInv'
  BY <1>1, ArriveKeeps, StartRefreshKeeps, ArriveAdminKeeps
<1>2. ASSUME NEW w \in Workers, RouteStep(w) PROVE IInv'
  <2>1. CASE StartQueries(w) \/ ChooseAgain(w)
    BY <2>1, StartQueriesKeeps, ChooseAgainKeeps
  <2>2. CASE \E answer \in [Children -> UNION {Answers(c) : c \in Children}] :
               (\A c \in Children : answer[c] \in Answers(c)) /\ EndQueries(w, answer)
    BY <2>2, EndQueriesKeeps
  <2>3. CASE ChildServes(w) \/ ChildBacksOff(w) \/ ChildFails(w)
    BY <2>3, ChildServesKeeps, ChildBacksOffKeeps, ChildFailsKeeps
  <2>4. CASE PassedOn(w) \/ LocalServes(w) \/ LocalFails(w)
    BY <2>4, PassedOnKeeps, LocalServesKeeps, LocalFailsKeeps
  <2> QED
    BY <1>2, <2>1, <2>2, <2>3, <2>4 DEF RouteStep
<1>3. ASSUME NEW w \in Workers, AdminStep(w) PROVE IInv'
  BY <1>3, AskNextKeeps, CompareKeeps, SearchedKeeps, ForwardDirectKeeps, ForwardNextKeeps,
     ForwardedKeeps, ReturnReplyKeeps DEF AdminStep
<1> QED
  BY <1>1, <1>2, <1>3, TickKeeps, StutterKeeps DEF Next

\* IInv is inductive: it holds at the start and every step of the proxy keeps it.
THEOREM Invariance == Spec => []IInv
<1> QED
  BY InitIInv, NextKeeps, PTL DEF Spec

\* TypeOK holds in every reachable state: a search never asks a child beyond the last.
THEOREM TypeCorrect == Spec => []TypeOK
<1>1. IInv => TypeOK
  BY DEF IInv
<1> QED
  BY <1>1, Invariance, PTL

\* FailedChildAvoided holds in every reachable state: whatever other requests, queries
\* and refreshes write to the children's records, a request does not go back to a child
\* that failed it.
THEOREM FailedChildrenAvoided == Spec => []FailedChildAvoided
<1>1. IInv => FailedChildAvoided
  BY DEF IInv, RouteInv, FailedChildAvoided
<1> QED
  BY <1>1, Invariance, PTL

\* OneRefresh holds in every reachable state: the refresh in the background runs at most
\* once at a time, and its flag never stays behind.
THEOREM RefreshAlone == Spec => []OneRefresh
<1>1. ASSUME IInv PROVE OneRefresh
  <2> DEFINE refreshing == {w \in Workers : worker[w].pc # "idle" /\ worker[w].task = "refresh"}
  <2>1. refreshing = {w \in Workers : worker[w].task = "refresh"}
    BY <1>1, WorkerType DEF RouteInv
  <2>2. CASE inFlight
    <3>1. PICK w \in Workers : worker[w].task = "refresh"
      BY <1>1, <2>2 DEF IInv, RefreshInv
    <3>2. refreshing = {w}
      BY <1>1, <2>1, <3>1 DEF IInv, RefreshInv
    <3> QED
      BY <2>2, <3>2, FS_Singleton DEF OneRefresh
  <2>3. CASE ~inFlight
    <3>1. refreshing = {}
      BY <1>1, <2>1, <2>3 DEF IInv, RefreshInv
    <3> QED
      BY <2>3, <3>1, FS_EmptySet DEF OneRefresh
  <2> QED
    BY <2>2, <2>3
<1> QED
  BY <1>1, Invariance, PTL

\* AdminOutcome holds in every reachable state: what the client of an admin command is
\* told is true, for any list of children, and no child is sent the command twice, given
\* that the same holds of the children that search in their turn (Outcomes).
THEOREM AdminTold == Spec => []AdminOutcome
<1>1. IInv => AdminOutcome
  BY DEF IInv, AdminInv, AdminOutcome
<1> QED
  BY <1>1, Invariance, PTL

=============================================================================
