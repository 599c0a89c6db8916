--------------------------- MODULE AccountPoolProofs ---------------------------
(***************************************************************************)
(* What the updates of the store preserve, for every store.                *)
(*                                                                         *)
(* Most of them change accounts in place.  Such an update keeps the store  *)
(* consistent when it keeps every id and records no message count beyond   *)
(* the store's (lemma InPlace); the two that change the list itself,       *)
(* registering and removing an account, are proved on their own.           *)
(***************************************************************************)
EXTENDS AccountPool, PolicyProofs

\* A function on 1..n is a sequence, and the other way round.
LEMMA SeqOfFunction ==
  ASSUME NEW S, NEW n \in Nat, NEW f \in [1..n -> S]
  PROVE  f \in Seq(S) /\ Len(f) = n /\ DOMAIN f = 1..n
OBVIOUS

LEMMA FunctionOfSeq ==
  ASSUME NEW S, NEW s \in Seq(S)
  PROVE  s \in [1..Len(s) -> S] /\ Len(s) \in Nat /\ DOMAIN s = 1..Len(s)
OBVIOUS

LEMMA AccountsOfStore ==
  ASSUME NEW s \in StoreFile
  PROVE  /\ s.accounts \in [1..Len(s.accounts) -> Account]
         /\ Len(s.accounts) \in Nat
         /\ DOMAIN s.accounts = 1..Len(s.accounts)
BY FunctionOfSeq DEF StoreFile

\* A store of the right type is a pool selectAccount can choose from.
LEMMA StoreIsPool ==
  ASSUME NEW s \in StoreFile
  PROVE  Pool(s)
BY AccountsOfStore DEF StoreFile, Account, Pool

\* The indexes of an id are numbers of the list.
LEMMA FirstIndex ==
  ASSUME NEW s \in StoreFile, NEW id, Indexes(s, id) # {}
  PROVE  /\ Min(Indexes(s, id)) \in DOMAIN s.accounts
         /\ s.accounts[Min(Indexes(s, id))].id = id
<1>1. Indexes(s, id) \in SUBSET Nat
  BY AccountsOfStore DEF Indexes
<1>2. Min(Indexes(s, id)) \in Indexes(s, id)
  BY <1>1, MinIsLeast
<1> QED
  BY <1>2 DEF Indexes

\* t is s with accounts changed in place: the list keeps its length and ids,
\* and no message count is recorded that s has not seen.
InPlace(s, t) ==
  /\ t \in StoreFile
  /\ Len(t.accounts) = Len(s.accounts)
  /\ \A i \in DOMAIN s.accounts :
       /\ t.accounts[i].id = s.accounts[i].id
       /\ t.accounts[i].syncMessages <= t.messages
  /\ t.active \in DOMAIN s.accounts \cup {s.active}

LEMMA InPlaceConsistent ==
  ASSUME NEW s \in StoreFile, NEW t, Consistent(s), InPlace(s, t)
  PROVE  Consistent(t) /\ Known(t) = Known(s)
<1>1. DOMAIN t.accounts = DOMAIN s.accounts
  BY AccountsOfStore DEF InPlace
<1> QED
  BY <1>1 DEF InPlace, Consistent, UniqueIds, ActiveInRange, SyncedInPast, Known

\* An update that maps the accounts.
LEMMA MapAccounts ==
  ASSUME NEW s \in StoreFile, Consistent(s), NEW g \in [DOMAIN s.accounts -> Account],
         \A i \in DOMAIN s.accounts :
           /\ g[i].id = s.accounts[i].id
           /\ g[i].syncMessages <= s.messages
  PROVE  InPlace(s, [s EXCEPT !.accounts = g])
<1> DEFINE t == [s EXCEPT !.accounts = g]
<1>1. g \in Seq(Account) /\ Len(g) = Len(s.accounts)
  BY AccountsOfStore, SeqOfFunction
<1>2. t.accounts = g /\ t.messages = s.messages /\ t.active = s.active
  BY DEF StoreFile
<1>3. t \in StoreFile
  BY <1>1 DEF StoreFile
<1> QED
  BY <1>1, <1>2, <1>3 DEF InPlace

-----------------------------------------------------------------------------

\* Changing whether an account is in service, and why, changes nothing else.
LEMMA Switched ==
  ASSUME NEW a \in Account, NEW flag \in BOOLEAN, NEW reason \in DisabledReasons \cup {None}
  PROVE  LET switched == [a EXCEPT !.enabled = flag, !.reason = reason]
         IN  /\ switched \in Account
             /\ switched.id = a.id /\ switched.syncMessages = a.syncMessages
BY DEF Account

LEMMA Rested ==
  ASSUME NEW a \in Account, NEW until \in Nat
  PROVE  LET rested == [a EXCEPT !.cooldown = until]
         IN  /\ rested \in Account
             /\ rested.id = a.id /\ rested.syncMessages = a.syncMessages
BY DEF Account

LEMMA InServiceKeeps ==
  ASSUME NEW a \in Account
  PROVE  InService(a) \in Account /\ InService(a).id = a.id
         /\ InService(a).syncMessages = a.syncMessages
<1>1. TRUE \in BOOLEAN
  OBVIOUS
<1> QED
  BY <1>1, Switched DEF InService

\* Every update of an account in place that the proxy makes.
LEMMA MarkCooldownInPlace ==
  ASSUME NEW s \in StoreFile, Consistent(s), NEW id, NEW now \in Nat, NEW seconds \in Int
  PROVE  /\ InPlace(s, MarkCooldown(s, id, now, seconds))
         /\ MarkCooldown(s, id, now, seconds).messages = s.messages
         /\ MarkCooldown(s, id, now, seconds).pinned = s.pinned
<1> DEFINE g == [i \in DOMAIN s.accounts |->
                   IF s.accounts[i].id = id
                   THEN [s.accounts[i] EXCEPT
                           !.cooldown = now + (IF seconds <= 0 THEN 1 ELSE seconds)]
                   ELSE s.accounts[i]]
<1>1. /\ g \in [DOMAIN s.accounts -> Account]
      /\ \A i \in DOMAIN s.accounts :
           g[i].id = s.accounts[i].id /\ g[i].syncMessages <= s.messages
  <2> DEFINE until == now + (IF seconds <= 0 THEN 1 ELSE seconds)
  <2>1. until \in Nat
    OBVIOUS
  <2>2. ASSUME NEW i \in DOMAIN s.accounts
        PROVE  /\ g[i] \in Account /\ g[i].id = s.accounts[i].id
               /\ g[i].syncMessages <= s.messages
    <3> DEFINE rested == [s.accounts[i] EXCEPT !.cooldown = until]
    <3>1. s.accounts[i] \in Account /\ s.accounts[i].syncMessages <= s.messages
      BY AccountsOfStore DEF Consistent, SyncedInPast
    <3>2. g[i] = s.accounts[i] \/ g[i] = rested
      OBVIOUS
    <3> HIDE DEF g, until
    <3>3. /\ rested \in Account
          /\ rested.id = s.accounts[i].id /\ rested.syncMessages = s.accounts[i].syncMessages
      BY <2>1, <3>1, Rested
    <3> HIDE DEF rested
    <3> QED
      BY <3>1, <3>2, <3>3
  <2>3. g = [i \in DOMAIN s.accounts |-> g[i]]
    OBVIOUS
  <2> HIDE DEF g
  <2> QED
    BY <2>2, <2>3
<1>2. MarkCooldown(s, id, now, seconds) = [s EXCEPT !.accounts = g]
  BY DEF MarkCooldown, UpdateAccount
<1> HIDE DEF g
<1> QED
  BY <1>1, <1>2, MapAccounts DEF StoreFile

LEMMA MarkAuthRecoveredInPlace ==
  ASSUME NEW s \in StoreFile, Consistent(s), NEW id, NEW identity \in Identities
  PROVE  /\ InPlace(s, MarkAuthRecovered(s, id, identity))
         /\ MarkAuthRecovered(s, id, identity).messages = s.messages
         /\ MarkAuthRecovered(s, id, identity).pinned = s.pinned
<1> DEFINE g == [i \in DOMAIN s.accounts |->
                   IF s.accounts[i].id = id
                   THEN [InService(s.accounts[i]) EXCEPT !.identity = identity]
                   ELSE s.accounts[i]]
<1>1. /\ g \in [DOMAIN s.accounts -> Account]
      /\ \A i \in DOMAIN s.accounts :
           g[i].id = s.accounts[i].id /\ g[i].syncMessages <= s.messages
  <2>1. \A a \in Account : LET b == [InService(a) EXCEPT !.identity = identity]
                            IN  /\ b \in Account
                                /\ b.id = a.id /\ b.syncMessages = a.syncMessages
    BY InServiceKeeps DEF Account
  <2> QED
    BY <2>1, AccountsOfStore DEF Consistent, SyncedInPast
<1>2. MarkAuthRecovered(s, id, identity) = [s EXCEPT !.accounts = g]
  BY DEF MarkAuthRecovered, UpdateAccount
<1> HIDE DEF g
<1> QED
  BY <1>1, <1>2, MapAccounts DEF StoreFile

LEMMA ExpireCooldownsInPlace ==
  ASSUME NEW s \in StoreFile, Consistent(s), NEW now
  PROVE  /\ InPlace(s, ExpireCooldowns(s, now))
         /\ ExpireCooldowns(s, now).messages = s.messages
         /\ ExpireCooldowns(s, now).pinned = s.pinned
<1> DEFINE g == [i \in DOMAIN s.accounts |->
                   [s.accounts[i] EXCEPT !.cooldown = IF @ <= now THEN 0 ELSE @]]
<1>1. /\ g \in [DOMAIN s.accounts -> Account]
      /\ \A i \in DOMAIN s.accounts :
           g[i].id = s.accounts[i].id /\ g[i].syncMessages <= s.messages
  BY AccountsOfStore DEF Account, Consistent, SyncedInPast
<1>2. ExpireCooldowns(s, now) = [s EXCEPT !.accounts = g]
  BY DEF ExpireCooldowns
<1> HIDE DEF g
<1> QED
  BY <1>1, <1>2, MapAccounts DEF StoreFile

\* A disabled account keeps its place; only the pin can change beside it.
LEMMA MarkDisabledInPlace ==
  ASSUME NEW s \in StoreFile, Consistent(s), NEW id, NEW reason \in DisabledReasons
  PROVE  /\ InPlace(s, MarkDisabled(s, id, reason))
         /\ MarkDisabled(s, id, reason).messages = s.messages
         /\ MarkDisabled(s, id, reason).pinned \in {s.pinned, NoAccount}
<1> DEFINE g == [i \in DOMAIN s.accounts |->
                   IF s.accounts[i].id = id
                   THEN [s.accounts[i] EXCEPT !.enabled = FALSE, !.reason = reason]
                   ELSE s.accounts[i]]
           pin == IF ClearsPin(reason) /\ s.pinned = id THEN NoAccount ELSE s.pinned
           t   == [s EXCEPT !.accounts = g]
<1>1. /\ g \in [DOMAIN s.accounts -> Account]
      /\ \A i \in DOMAIN s.accounts :
           g[i].id = s.accounts[i].id /\ g[i].syncMessages <= s.messages
  <2>1. FALSE \in BOOLEAN
    OBVIOUS
  <2>2. \A a \in Account : LET b == [a EXCEPT !.enabled = FALSE, !.reason = reason]
                            IN  /\ b \in Account
                                /\ b.id = a.id /\ b.syncMessages = a.syncMessages
    BY <2>1, Switched
  <2> QED
    BY <2>2, AccountsOfStore DEF Consistent, SyncedInPast
<1>2. MarkDisabled(s, id, reason) \in {s, [t EXCEPT !.pinned = pin]}
  BY DEF MarkDisabled, UpdateAccount, StoreFile
<1>3. InPlace(s, s)
  BY DEF InPlace, Consistent, SyncedInPast
<1> HIDE DEF g
<1>4. InPlace(s, t)
  BY <1>1, MapAccounts
<1> QED
  BY <1>2, <1>3, <1>4 DEF InPlace, StoreFile

\* A served account keeps its place and becomes the active one.
LEMMA MarkSuccessInPlace ==
  ASSUME NEW s \in StoreFile, Consistent(s), NEW id, NEW counts \in BOOLEAN
  PROVE  /\ InPlace(s, MarkSuccess(s, id, counts))
         /\ MarkSuccess(s, id, counts).messages >= s.messages
         /\ MarkSuccess(s, id, counts).pinned = s.pinned
<1> DEFINE g == [i \in DOMAIN s.accounts |->
                   IF s.accounts[i].id = id
                   THEN [InService(s.accounts[i]) EXCEPT !.cooldown = 0]
                   ELSE s.accounts[i]]
           t == [s EXCEPT !.accounts = g]
           messages == s.messages + (IF counts THEN 1 ELSE 0)
<1>1. /\ g \in [DOMAIN s.accounts -> Account]
      /\ \A i \in DOMAIN s.accounts :
           g[i].id = s.accounts[i].id /\ g[i].syncMessages <= s.messages
  <2>1. \A a \in Account : LET b == [InService(a) EXCEPT !.cooldown = 0]
                            IN  /\ b \in Account
                                /\ b.id = a.id /\ b.syncMessages = a.syncMessages
    BY InServiceKeeps DEF Account
  <2> QED
    BY <2>1, AccountsOfStore DEF Consistent, SyncedInPast
<1>2. CASE Indexes(s, id) = {}
  <2>1. InPlace(s, s)
    BY DEF InPlace, Consistent, SyncedInPast
  <2> QED
    BY <1>2, <2>1 DEF MarkSuccess, StoreFile
<1>3. CASE Indexes(s, id) # {}
  <2> DEFINE active == Min(Indexes(s, id))
  <2>1. active \in DOMAIN s.accounts /\ active \in Nat \ {0}
    BY <1>3, FirstIndex, AccountsOfStore
  <2>2. MarkSuccess(s, id, counts) = [t EXCEPT !.active = active, !.messages = messages]
    BY <1>3 DEF MarkSuccess, UpdateAccount, StoreFile
  <2> HIDE DEF g, active
  <2>3. InPlace(s, t)
    BY <1>1, MapAccounts
  <2>4. messages \in Nat /\ messages >= s.messages
    BY DEF StoreFile
  <2>5. t.messages = s.messages /\ t.pinned = s.pinned
    BY DEF StoreFile
  <2>6. [t EXCEPT !.active = active, !.messages = messages] \in StoreFile
    BY <2>1, <2>3, <2>4 DEF InPlace, StoreFile
  <2>7. \A i \in DOMAIN s.accounts : t.accounts[i].syncMessages \in Nat
    BY <1>1 DEF StoreFile, Account
  <2> HIDE DEF messages
  <2> QED
    BY <2>1, <2>2, <2>3, <2>4, <2>5, <2>6, <2>7 DEF InPlace, StoreFile
<1> QED
  BY <1>2, <1>3

LEMMA RecordQuotaInPlace ==
  ASSUME NEW s \in StoreFile, Consistent(s), NEW id, NEW identity \in Identities,
         NEW quota \in Quota, NEW now \in Nat, NEW messages \in 0..s.messages
  PROVE  /\ InPlace(s, RecordQuota(s, id, identity, quota, now, messages))
         /\ RecordQuota(s, id, identity, quota, now, messages).messages = s.messages
         /\ RecordQuota(s, id, identity, quota, now, messages).pinned = s.pinned
<1> DEFINE F(a) == [InService(a) EXCEPT !.identity = identity, !.quota = quota,
                                        !.synced = now, !.syncMessages = messages]
           g == [i \in DOMAIN s.accounts |->
                   IF s.accounts[i].id = id THEN F(s.accounts[i]) ELSE s.accounts[i]]
<1>1. \A a \in Account : /\ F(a) \in Account
                         /\ F(a).id = a.id /\ F(a).syncMessages = messages
  <2>1. messages \in Nat
    BY DEF StoreFile
  <2>2. \A b \in Account :
          LET c == [b EXCEPT !.identity = identity, !.quota = quota, !.synced = now,
                             !.syncMessages = messages]
          IN  c \in Account /\ c.id = b.id /\ c.syncMessages = messages
    BY <2>1 DEF Account
  <2> QED
    BY <2>2, InServiceKeeps
<1>2. RecordQuota(s, id, identity, quota, now, messages) = [s EXCEPT !.accounts = g]
  BY DEF RecordQuota, UpdateAccount
<1> HIDE DEF F
<1>3. /\ g \in [DOMAIN s.accounts -> Account]
      /\ \A i \in DOMAIN s.accounts :
           g[i].id = s.accounts[i].id /\ g[i].syncMessages <= s.messages
  BY <1>1, AccountsOfStore DEF Consistent, SyncedInPast
<1> HIDE DEF g
<1> QED
  BY <1>2, <1>3, MapAccounts DEF StoreFile

-----------------------------------------------------------------------------

\* Registering an account keeps the store consistent: a known id is updated in
\* place, a new one goes to the end of the list.
LEMMA UpsertConsistent ==
  ASSUME NEW s \in StoreFile, Consistent(s), NEW id \in AccountIds, NEW identity \in Identities
  PROVE  LET t == UpsertAccount(s, id, identity)
         IN  /\ t \in StoreFile /\ Consistent(t)
             /\ Known(t) = Known(s) \cup {id}
             /\ t.messages = s.messages /\ t.pinned = s.pinned
<1> DEFINE t == UpsertAccount(s, id, identity)
<1>1. CASE Indexes(s, id) # {}
  <2>1. t = MarkAuthRecovered(s, id, identity)
    BY <1>1 DEF UpsertAccount, MarkAuthRecovered
  <2>2. id \in Known(s)
    BY <1>1 DEF Indexes, Known
  <2>3. /\ InPlace(s, t)
        /\ t.messages = s.messages /\ t.pinned = s.pinned
    BY <2>1, MarkAuthRecoveredInPlace
  <2> HIDE DEF t
  <2>4. Consistent(t) /\ Known(t) = Known(s) /\ t \in StoreFile
    BY <2>3, InPlaceConsistent DEF InPlace
  <2> QED
    BY <2>2, <2>3, <2>4 DEF t
<1>2. CASE Indexes(s, id) = {}
  <2> DEFINE new  == NewAccount(id, identity)
             list == Append(s.accounts, new)
             n    == Len(s.accounts)
  <2>1. new \in Account /\ new.id = id /\ new.syncMessages = 0
    <3>1. NoQuota \in Quota
      BY DEF NoQuota, NoWindow, Quota, Window
    <3>2. TRUE \in BOOLEAN
      OBVIOUS
    <3> QED
      BY <3>1, <3>2 DEF NewAccount, Account
  <2>2. t = [s EXCEPT !.accounts = list]
    BY <1>2 DEF UpsertAccount
  <2> HIDE DEF new, t
  <2>3. /\ list \in Seq(Account) /\ DOMAIN list = 1..(n + 1) /\ n \in Nat
        /\ DOMAIN s.accounts = 1..n
        /\ list[n + 1] = new /\ \A i \in 1..n : list[i] = s.accounts[i]
    BY <2>1, AccountsOfStore DEF StoreFile
  <2>4. /\ t.accounts = list /\ t.active = s.active
        /\ t.messages = s.messages /\ t.pinned = s.pinned
        /\ t \in StoreFile
    BY <2>2, <2>3 DEF StoreFile
  <2>5. \A i \in 1..n : s.accounts[i].id # id
    BY <1>2, <2>3 DEF Indexes
  <2>6. s.messages \in Nat
    BY DEF StoreFile
  <2> HIDE DEF list, n
  <2>7. Consistent(t)
    BY <2>1, <2>3, <2>4, <2>5, <2>6 DEF Consistent, UniqueIds, ActiveInRange, SyncedInPast
  <2>8. Known(t) = Known(s) \cup {id}
    BY <2>1, <2>3, <2>4 DEF Known
  <2> QED
    BY <2>4, <2>7, <2>8 DEF t
<1> QED
  BY <1>1, <1>2

\* Removing an account keeps the store consistent and takes exactly its id
\* out of the pool, and the pin with it.
LEMMA RemoveConsistent ==
  ASSUME NEW s \in StoreFile, Consistent(s), NEW id
  PROVE  LET t == RemoveAccount(s, id)
         IN  /\ t \in StoreFile /\ Consistent(t)
             /\ Known(t) = Known(s) \ {id}
             /\ t.messages = s.messages
             /\ id \in Known(s) => t.pinned = (IF s.pinned = id THEN NoAccount ELSE s.pinned)
             /\ id \notin Known(s) => t.pinned = s.pinned
<1> DEFINE t == RemoveAccount(s, id)
<1>1. CASE Indexes(s, id) = {}
  BY <1>1 DEF RemoveAccount, Indexes, Known
<1>2. CASE Indexes(s, id) # {}
  <2> DEFINE n    == Len(s.accounts)
             k    == Min(Indexes(s, id))
             left == Without(s.accounts, k)
             active == IF s.active > Len(left) THEN IF left = << >> THEN 1 ELSE Len(left)
                       ELSE s.active
             pin  == IF s.pinned = id THEN NoAccount ELSE s.pinned
             at(j) == IF j < k THEN j ELSE j + 1
  <2>1. k \in 1..n /\ s.accounts[k].id = id /\ n \in Nat /\ DOMAIN s.accounts = 1..n
    BY <1>2, FirstIndex, AccountsOfStore
  <2>2. id \in Known(s)
    BY <2>1 DEF Known
  <2>3. t = [s EXCEPT !.accounts = left, !.active = active, !.pinned = pin]
    BY <1>2 DEF RemoveAccount
  <2> HIDE DEF k, t
  <2>4. /\ left \in [1..(n - 1) -> Account]
        /\ n - 1 \in Nat
        /\ \A j \in 1..(n - 1) : left[j] = s.accounts[at(j)]
    BY <2>1, AccountsOfStore DEF Without
  <2>5. left \in Seq(Account) /\ Len(left) = n - 1 /\ DOMAIN left = 1..(n - 1)
    BY <2>4, SeqOfFunction
  <2> HIDE DEF left
  <2>6. active \in Nat \ {0} /\ active \in DOMAIN left \cup {1}
    BY <2>4, <2>5 DEF StoreFile
  <2> HIDE DEF active
  <2>7. /\ t.accounts = left /\ t.active = active /\ t.pinned = pin
        /\ t.messages = s.messages /\ t \in StoreFile
    BY <2>3, <2>5, <2>6 DEF StoreFile
  <2>8. \A i, j \in DOMAIN left :
           /\ at(j) \in 1..n /\ at(j) # k
           /\ at(i) = at(j) => i = j
    BY <2>1, <2>5
  <2> HIDE DEF n, at
  <2>9. UniqueIds(t)
    <3> SUFFICES ASSUME NEW i \in DOMAIN left, NEW j \in DOMAIN left,
                        left[i].id = left[j].id
                 PROVE  i = j
      BY <2>7 DEF UniqueIds
    <3>1. \A p, q \in 1..n : s.accounts[p].id = s.accounts[q].id => p = q
      BY <2>1 DEF Consistent, UniqueIds
    <3> QED
      BY <2>4, <2>5, <2>8, <3>1
  <2>10. SyncedInPast(t)
    BY <2>1, <2>4, <2>5, <2>7, <2>8 DEF Consistent, SyncedInPast
  <2>11. Consistent(t)
    BY <2>6, <2>7, <2>9, <2>10 DEF Consistent, ActiveInRange
  <2>12. Known(t) = Known(s) \ {id}
    <3>1. \A p \in 1..n : s.accounts[p].id = id => p = k
      BY <2>1 DEF Consistent, UniqueIds
    <3>2. \A j \in DOMAIN left : left[j].id \in Known(s) \ {id}
      BY <2>1, <2>4, <2>5, <2>8, <3>1 DEF Known
    <3>3. ASSUME NEW p \in 1..n, p # k
          PROVE  \E j \in DOMAIN left : left[j] = s.accounts[p]
      <4>1. CASE p < k
        <5>1. p \in DOMAIN left /\ left[p] = s.accounts[p]
          BY <2>1, <2>4, <2>5, <3>3, <4>1 DEF at
        <5> QED
          BY <5>1
      <4>2. CASE p > k
        <5>1. p - 1 \in DOMAIN left /\ left[p - 1] = s.accounts[p]
          BY <2>1, <2>4, <2>5, <3>3, <4>2 DEF at
        <5> QED
          BY <5>1
      <4> QED
        BY <2>1, <3>3, <4>1, <4>2
    <3> QED
      BY <2>1, <2>7, <3>2, <3>3 DEF Known
  <2> QED
    BY <2>2, <2>7, <2>11, <2>12 DEF t
<1> QED
  BY <1>1, <1>2

-----------------------------------------------------------------------------
(***************************************************************************)
(* What an update does to each single account.                             *)
(***************************************************************************)

\* With unique ids an account is found at its own index.
LEMMA FoundAt ==
  ASSUME NEW s \in StoreFile, Consistent(s), NEW i \in DOMAIN s.accounts
  PROVE  Min(Indexes(s, s.accounts[i].id)) = i
<1>1. i \in Indexes(s, s.accounts[i].id)
  BY DEF Indexes
<1> QED
  BY <1>1, FirstIndex DEF Consistent, UniqueIds

\* A cooldown is set for the account that failed, and at least one second of it.
LEMMA CooledAccount ==
  ASSUME NEW s \in StoreFile, NEW id, NEW now \in Nat, NEW seconds \in Int,
         NEW i \in DOMAIN s.accounts
  PROVE  LET a == s.accounts[i]
             t == MarkCooldown(s, id, now, seconds)
             b == t.accounts[i]
         IN  /\ DOMAIN t.accounts = DOMAIN s.accounts
             /\ b.id = a.id /\ b.syncMessages = a.syncMessages
             /\ a.id = id => b.cooldown > now
             /\ a.id # id => b = a
<1>1. s.accounts[i] \in Account
  BY AccountsOfStore
<1> QED
  BY <1>1 DEF MarkCooldown, UpdateAccount, StoreFile, Account

\* A disabled account is out of service, for the reason given.
LEMMA DisabledAccount ==
  ASSUME NEW s \in StoreFile, NEW id, NEW reason, NEW i \in DOMAIN s.accounts
  PROVE  LET a == s.accounts[i]
             t == MarkDisabled(s, id, reason)
             b == t.accounts[i]
         IN  /\ DOMAIN t.accounts = DOMAIN s.accounts
             /\ b.id = a.id /\ b.syncMessages = a.syncMessages /\ b.cooldown = a.cooldown
             /\ a.id = id => b.reason = reason
             /\ b.enabled => a.enabled
<1>1. s.accounts[i] \in Account
  BY AccountsOfStore
<1>2. CASE Indexes(s, id) = {}
  BY <1>2 DEF MarkDisabled, Indexes
<1>3. CASE Indexes(s, id) # {}
  BY <1>1, <1>3 DEF MarkDisabled, UpdateAccount, StoreFile, Account
<1> QED
  BY <1>2, <1>3

LEMMA DisabledIsOut ==
  ASSUME NEW s \in StoreFile, NEW id, NEW reason, NEW i \in DOMAIN s.accounts,
         s.accounts[i].id = id
  PROVE  ~MarkDisabled(s, id, reason).accounts[i].enabled
<1>1. s.accounts[i] \in Account
  BY AccountsOfStore
<1>2. Indexes(s, id) # {}
  BY DEF Indexes
<1> QED
  BY <1>1, <1>2 DEF MarkDisabled, UpdateAccount, StoreFile, Account

\* A recovered account keeps its cooldown; it is the only one that changes.
LEMMA RecoveredAccount ==
  ASSUME NEW s \in StoreFile, NEW id, NEW identity, NEW i \in DOMAIN s.accounts
  PROVE  LET a == s.accounts[i]
             t == MarkAuthRecovered(s, id, identity)
             b == t.accounts[i]
         IN  /\ DOMAIN t.accounts = DOMAIN s.accounts
             /\ b.id = a.id /\ b.syncMessages = a.syncMessages /\ b.cooldown = a.cooldown
             /\ a.id # id => b = a
<1>1. s.accounts[i] \in Account
  BY AccountsOfStore
<1> QED
  BY <1>1 DEF MarkAuthRecovered, InService, UpdateAccount, StoreFile, Account

\* A success ends the cooldown of the account that served.
LEMMA ServedAccount ==
  ASSUME NEW s \in StoreFile, NEW id, NEW counts, NEW i \in DOMAIN s.accounts
  PROVE  LET a == s.accounts[i]
             t == MarkSuccess(s, id, counts)
             b == t.accounts[i]
         IN  /\ DOMAIN t.accounts = DOMAIN s.accounts
             /\ b.id = a.id /\ b.syncMessages = a.syncMessages
             /\ a.id # id => b = a
<1>1. s.accounts[i] \in Account
  BY AccountsOfStore
<1>2. CASE Indexes(s, id) = {}
  BY <1>2 DEF MarkSuccess, Indexes
<1>3. CASE Indexes(s, id) # {}
  BY <1>1, <1>3 DEF MarkSuccess, InService, UpdateAccount, StoreFile, Account
<1> QED
  BY <1>2, <1>3

\* A quota is recorded with the message count it was fetched at.
LEMMA RecordedAccount ==
  ASSUME NEW s \in StoreFile, NEW id, NEW identity, NEW quota, NEW now, NEW messages,
         NEW i \in DOMAIN s.accounts
  PROVE  LET a == s.accounts[i]
             t == RecordQuota(s, id, identity, quota, now, messages)
             b == t.accounts[i]
         IN  /\ DOMAIN t.accounts = DOMAIN s.accounts
             /\ b.id = a.id /\ b.cooldown = a.cooldown
             /\ b.syncMessages \in {a.syncMessages, messages}
             /\ a.id # id => b = a
<1>1. s.accounts[i] \in Account
  BY AccountsOfStore
<1> QED
  BY <1>1 DEF RecordQuota, InService, UpdateAccount, StoreFile, Account

\* Only cooldowns that are over are cleared.
LEMMA ExpiredAccount ==
  ASSUME NEW s \in StoreFile, NEW now, NEW i \in DOMAIN s.accounts
  PROVE  LET a == s.accounts[i]
             t == ExpireCooldowns(s, now)
             b == t.accounts[i]
         IN  /\ DOMAIN t.accounts = DOMAIN s.accounts
             /\ b.id = a.id /\ b.syncMessages = a.syncMessages
             /\ a.cooldown <= now \/ b.cooldown = a.cooldown
             /\ b.enabled => a.enabled
<1>1. s.accounts[i] \in Account
  BY AccountsOfStore
<1> QED
  BY <1>1 DEF ExpireCooldowns, StoreFile, Account

\* The accounts left after a removal are as they were.
LEMMA LeftAccounts ==
  ASSUME NEW s \in StoreFile, NEW id, NEW j \in DOMAIN RemoveAccount(s, id).accounts
  PROVE  \E i \in DOMAIN s.accounts : RemoveAccount(s, id).accounts[j] = s.accounts[i]
<1> DEFINE n == Len(s.accounts)
           k == Min(Indexes(s, id))
<1>1. CASE Indexes(s, id) = {}
  BY <1>1 DEF RemoveAccount
<1>2. CASE Indexes(s, id) # {}
  <2>1. k \in 1..n /\ n \in Nat /\ DOMAIN s.accounts = 1..n
    BY <1>2, FirstIndex, AccountsOfStore
  <2>2. RemoveAccount(s, id).accounts = Without(s.accounts, k)
    BY <1>2 DEF RemoveAccount, StoreFile
  <2> HIDE DEF k, n
  <2>3. j \in 1..(n - 1)
        /\ Without(s.accounts, k)[j] = (IF j < k THEN s.accounts[j] ELSE s.accounts[j + 1])
    BY <2>2 DEF Without, n
  <2>4. j \in 1..n /\ j + 1 \in 1..n
    BY <2>1, <2>3
  <2>5. CASE j < k
    BY <2>1, <2>2, <2>3, <2>4, <2>5
  <2>6. CASE ~(j < k)
    BY <2>1, <2>2, <2>3, <2>4, <2>6
  <2> QED
    BY <2>5, <2>6
<1> QED
  BY <1>1, <1>2

\* Registering an account keeps the history of every account there was; a new
\* one starts without any.
LEMMA RegisteredAccount ==
  ASSUME NEW s \in StoreFile, NEW id \in AccountIds, NEW identity \in Identities,
         NEW j \in DOMAIN UpsertAccount(s, id, identity).accounts
  PROVE  LET b == UpsertAccount(s, id, identity).accounts[j]
         IN  \/ /\ j \in DOMAIN s.accounts
                /\ b.id = s.accounts[j].id /\ b.syncMessages = s.accounts[j].syncMessages
                /\ b.cooldown = s.accounts[j].cooldown
                /\ b.id # id => b = s.accounts[j]
             \/ b.id \notin Known(s) /\ b.syncMessages = 0
<1>1. CASE Indexes(s, id) # {}
  <2>1. UpsertAccount(s, id, identity) = MarkAuthRecovered(s, id, identity)
    BY <1>1 DEF UpsertAccount, MarkAuthRecovered
  <2>2. j \in DOMAIN s.accounts
    BY <2>1 DEF MarkAuthRecovered, UpdateAccount, StoreFile
  <2> QED
    BY <2>1, <2>2, RecoveredAccount
<1>2. CASE Indexes(s, id) = {}
  <2> DEFINE new == NewAccount(id, identity)
  <2>1. UpsertAccount(s, id, identity).accounts = Append(s.accounts, new)
    BY <1>2 DEF UpsertAccount, StoreFile
  <2>2. id \notin Known(s)
    BY <1>2 DEF Known, Indexes
  <2>3. new.id = id /\ new.syncMessages = 0
    BY DEF NewAccount
  <2> HIDE DEF new
  <2>4. Append(s.accounts, new)[j] = new \/ (j \in DOMAIN s.accounts /\ Append(s.accounts, new)[j] = s.accounts[j])
    <3>1. Len(s.accounts) \in Nat /\ DOMAIN s.accounts = 1..Len(s.accounts)
      BY AccountsOfStore
    <3>2. j \in 1..(Len(s.accounts) + 1)
      BY <2>1, <3>1
    <3> QED
      BY <3>1, <3>2
  <2> QED
    BY <2>1, <2>2, <2>3, <2>4
<1> QED
  BY <1>1, <1>2

=============================================================================
