-------------------------- MODULE StoreFilesProofs --------------------------
EXTENDS StoreFiles, AccountPoolProofs, FiniteSetTheorems, FunctionTheorems, SequenceTheorems

(***************************************************************************)
(* The proofs about StoreFiles: what the commands told their users of an   *)
(* account stays true in the proxy, in the homes, and in every store that  *)
(* is opened, for any number of terminals, accounts and settings.          *)
(*                                                                         *)
(* The inductive invariant IInv has two layers.  SoundInv is what every    *)
(* process and store.json have in all states, full disk and killed         *)
(* processes included: a consistent store, and a seat whose step is one of *)
(* its command's operation.  ClaimsInv says what the answers rest on: a    *)
(* step changes the home, or the proxy's entry, of no account but its own  *)
(* command's, while that command is at work on it; nothing is claimed of   *)
(* an account in that time; and another command that is at work on it is   *)
(* contested, so that neither of them makes a claim.                       *)
(***************************************************************************)

\* The indexes of a list can be taken in their order.
LEMMA AscendingExists ==
  ASSUME NEW B \in Nat
  PROVE  \A I \in SUBSET (1..B) :
           \E f \in [1..Cardinality(I) -> I] : \A m, n \in DOMAIN f : m < n => f[m] < f[n]
<1> DEFINE HasOrder(I) ==
             \E f \in [1..Cardinality(I) -> I] : \A m, n \in DOMAIN f : m < n => f[m] < f[n]
           Sizes == {Cardinality(I) : I \in {J \in SUBSET (1..B) : ~HasOrder(J)}}
<1>1. \A I \in SUBSET (1..B) : IsFiniteSet(I) /\ Cardinality(I) \in Nat
  <2>1. IsFiniteSet(1..B)
    BY FS_Interval
  <2> QED
    BY <2>1, FS_Subset, FS_CardinalityType
<1> SUFFICES Sizes = {}
  BY DEF HasOrder
<1> SUFFICES ASSUME Sizes # {}
             PROVE  FALSE
  OBVIOUS
<1> HIDE DEF HasOrder
<1>2. Sizes \in SUBSET Nat
  BY <1>1
<1>3. PICK size \in Sizes : \A k \in Sizes : size <= k
  BY <1>2, LeastExists
<1>4. PICK I \in SUBSET (1..B) : ~HasOrder(I) /\ Cardinality(I) = size
  BY <1>3
<1>5. I # {}
  <2> SUFFICES ASSUME I = {}
               PROVE  HasOrder(I)
    BY <1>4
  <2>1. Cardinality(I) = 0
    BY FS_EmptySet
  <2>2. [i \in 1..0 |-> i] \in [1..Cardinality(I) -> I]
    BY <2>1
  <2> QED
    BY <2>2 DEF HasOrder
<1>6. PICK top \in I : \A k \in I : k <= top
  <2>1. I \in SUBSET (0..B)
    BY <1>4
  <2> QED
    BY <1>5, <2>1, GreatestExists
<1> DEFINE J == I \ {top}
<1>7. J \in SUBSET (1..B) /\ Cardinality(J) = size - 1 /\ size \in Nat /\ size - 1 \in Nat
  BY <1>1, <1>4, <1>6, FS_RemoveElement
<1>8. HasOrder(J)
  BY <1>2, <1>3, <1>7
<1> HIDE DEF J
<1>9. PICK g \in [1..(size - 1) -> J] : \A m, n \in DOMAIN g : m < n => g[m] < g[n]
  BY <1>7, <1>8 DEF HasOrder
<1> DEFINE f == [n \in 1..size |-> IF n = size THEN top ELSE g[n]]
<1>10. \A k \in J : k \in I /\ k \in Nat /\ k < top
  <2>1. \A k \in I : k \in Nat
    BY <1>4
  <2> QED
    BY <1>6, <2>1 DEF J
<1>11. \A n \in 1..size : /\ f[n] \in I
                          /\ n = size => f[n] = top
                          /\ n # size => n \in 1..(size - 1) /\ f[n] = g[n] /\ f[n] \in J
  <2> SUFFICES ASSUME NEW n \in 1..size
               PROVE  /\ n = size => f[n] = top /\ f[n] \in I
                      /\ n # size => n \in 1..(size - 1) /\ f[n] = g[n] /\ f[n] \in J
    BY <1>10
  <2>1. CASE n = size
    BY <1>6, <2>1
  <2>2. CASE n # size
    <3>1. n \in 1..(size - 1)
      BY <1>7, <2>2
    <3>2. f[n] = g[n]
      BY <2>2
    <3> QED
      BY <1>9, <2>2, <3>1, <3>2
  <2> QED
    BY <2>1, <2>2
<1>12. f \in [1..Cardinality(I) -> I]
  BY <1>4, <1>11
<1>13. DOMAIN f = 1..size /\ DOMAIN g = 1..(size - 1)
  BY <1>9
<1> HIDE DEF f
<1>14. ASSUME NEW m \in 1..size, NEW n \in 1..size, m < n
       PROVE  f[m] < f[n]
  <2>1. m # size
    BY <1>7, <1>14
  <2>2. CASE n = size
    BY <1>10, <1>11, <2>1, <2>2
  <2>3. CASE n # size
    BY <1>9, <1>11, <1>13, <1>14, <2>1, <2>3
  <2> QED
    BY <2>2, <2>3
<1> QED
  BY <1>4, <1>12, <1>13, <1>14 DEF HasOrder

\* Each index is taken once.
LEMMA AscendingOnto ==
  ASSUME NEW B \in Nat, NEW I \in SUBSET (1..B)
  PROVE  /\ Cardinality(I) \in Nat
         /\ Ascending(I) \in [1..Cardinality(I) -> I]
         /\ \A m, n \in 1..Cardinality(I) : Ascending(I)[m] = Ascending(I)[n] => m = n
         /\ \A i \in I : \E n \in 1..Cardinality(I) : Ascending(I)[n] = i
<1> DEFINE f == Ascending(I)
           N == Cardinality(I)
<1>1. IsFiniteSet(I) /\ N \in Nat
  <2>1. IsFiniteSet(1..B)
    BY FS_Interval
  <2> QED
    BY <2>1, FS_Subset, FS_CardinalityType
<1>2. f \in [1..N -> I] /\ \A m, n \in DOMAIN f : m < n => f[m] < f[n]
  BY AscendingExists DEF Ascending
<1> HIDE DEF f
<1>3. DOMAIN f = 1..N
  BY <1>2
<1>4. \A m, n \in 1..N : f[m] = f[n] => m = n
  <2>1. \A k \in 1..N : f[k] \in Int
    <3>1. \A i \in I : i \in Int
      OBVIOUS
    <3> QED
      BY <1>2, <3>1
  <2> QED
    BY <1>1, <1>2, <1>3, <2>1
<1>5. f \in Injection(1..N, I)
  BY <1>2, <1>4, Fun_IsInj
<1>6. Cardinality(1..N) = N
  BY <1>1, FS_Interval
<1>7. f \in Surjection(1..N, I)
  BY <1>1, <1>5, <1>6, FS_Injection
<1>8. \A i \in I : \E n \in 1..N : f[n] = i
  BY <1>7 DEF Surjection
<1> QED
  BY <1>1, <1>2, <1>4, <1>8 DEF f

\* What is picked are the elements at these indexes, each once.
LEMMA PickedSound ==
  ASSUME NEW S, NEW list \in Seq(S), NEW I \in SUBSET (DOMAIN list)
  PROVE  /\ Cardinality(I) \in Nat
         /\ Picked(list, I) \in Seq(S)
         /\ Len(Picked(list, I)) = Cardinality(I)
         /\ DOMAIN Picked(list, I) = 1..Cardinality(I)
         /\ Ascending(I) \in [1..Cardinality(I) -> I]
         /\ \A n \in 1..Cardinality(I) : Picked(list, I)[n] = list[Ascending(I)[n]]
         /\ \A m, n \in 1..Cardinality(I) : Ascending(I)[m] = Ascending(I)[n] => m = n
         /\ \A i \in I : \E n \in 1..Cardinality(I) : Ascending(I)[n] = i
<1> DEFINE N == Cardinality(I)
           f == Ascending(I)
           p == Picked(list, I)
<1>1. /\ list \in [1..Len(list) -> S] /\ Len(list) \in Nat /\ DOMAIN list = 1..Len(list)
  BY FunctionOfSeq
<1>2. /\ N \in Nat /\ f \in [1..N -> I]
      /\ \A m, n \in 1..N : f[m] = f[n] => m = n
      /\ \A i \in I : \E n \in 1..N : f[n] = i
  BY <1>1, AscendingOnto
<1> HIDE DEF f, N
<1>3. p = [n \in 1..N |-> list[f[n]]]
  BY DEF Picked, f, N
<1> HIDE DEF p
<1>4. \A n \in 1..N : list[f[n]] \in S
  BY <1>1, <1>2
<1>5. p \in [1..N -> S]
  BY <1>3, <1>4
<1>6. p \in Seq(S) /\ Len(p) = N /\ DOMAIN p = 1..N
  BY <1>2, <1>5, SeqOfFunction
<1>7. \A n \in 1..N : p[n] = list[f[n]]
  BY <1>3
<1> QED
  BY <1>2, <1>6, <1>7 DEF N, f, p

\* The new homes: ids with a home that are not in the list, each once.
LEMMA NewHomesSound ==
  ASSUME NEW s
  PROVE  /\ NewHomes(s) \in Seq(AccountIds)
         /\ \A i \in DOMAIN NewHomes(s) : HasHome(NewHomes(s)[i]) /\ NewHomes(s)[i] \notin Known(s)
         /\ \A i, j \in DOMAIN NewHomes(s) : NewHomes(s)[i] = NewHomes(s)[j] => i = j
         /\ \A id \in AccountIds : HasHome(id) /\ id \notin Known(s) =>
              \E i \in DOMAIN NewHomes(s) : NewHomes(s)[i] = id
<1> DEFINE I == {i \in DOMAIN IdOrder : HasHome(IdOrder[i]) /\ IdOrder[i] \notin Known(s)}
           N == Cardinality(I)
           p == NewHomes(s)
<1>1. I \in SUBSET (DOMAIN IdOrder) /\ p = Picked(IdOrder, I)
  BY DEF NewHomes
<1>2. \A i \in I : HasHome(IdOrder[i]) /\ IdOrder[i] \notin Known(s)
  OBVIOUS
<1>3. ASSUME NEW id \in AccountIds, HasHome(id), id \notin Known(s)
      PROVE  \E i \in I : IdOrder[i] = id
  BY <1>3, StoreFilesAssumption
<1> HIDE DEF I, p
<1>4. p \in Seq(AccountIds) /\ DOMAIN p = 1..N
  BY <1>1, PickedSound, StoreFilesAssumption
<1> DEFINE f == Ascending(I)
<1>5. /\ f \in [1..N -> I]
      /\ \A n \in 1..N : p[n] = IdOrder[f[n]]
      /\ \A m, n \in 1..N : f[m] = f[n] => m = n
      /\ \A i \in I : \E n \in 1..N : f[n] = i
  BY <1>1, PickedSound, StoreFilesAssumption
<1> HIDE DEF f
<1>6. \A i, j \in I : IdOrder[i] = IdOrder[j] => i = j
  BY <1>1, StoreFilesAssumption
<1>7. \A n \in DOMAIN p : HasHome(p[n]) /\ p[n] \notin Known(s)
  BY <1>2, <1>4, <1>5
<1>8. \A m, n \in DOMAIN p : p[m] = p[n] => m = n
  BY <1>4, <1>5, <1>6
<1>9. \A id \in AccountIds : HasHome(id) /\ id \notin Known(s) => \E n \in DOMAIN p : p[n] = id
  BY <1>3, <1>4, <1>5
<1> QED
  BY <1>4, <1>7, <1>8, <1>9 DEF p

\* The accounts on disk: those of the list that still have a home, with the identity of
\* that home and all else they had, then the new ones.  So a store that is opened has
\* exactly the accounts whose homes hold an auth.json.
LEMMA AccountsOnDiskSound ==
  ASSUME NEW s \in StoreFile, Consistent(s),
         homes \in [AccountIds -> Identities \cup {MissingAuth}]
  PROVE  LET all == AccountsOnDisk(s)
         IN  /\ all \in Seq(Account)
             /\ \A i, j \in DOMAIN all : all[i].id = all[j].id => i = j
             /\ \A i \in DOMAIN all : HasHome(all[i].id) /\ all[i].syncMessages <= s.messages
             /\ \A id \in AccountIds : HasHome(id) => \E i \in DOMAIN all : all[i].id = id
<1> DEFINE I == {i \in DOMAIN s.accounts : HasHome(s.accounts[i].id)}
           N == Cardinality(I)
           kept == Picked(s.accounts, I)
           new == NewHomes(s)
           A == [i \in DOMAIN kept |-> [kept[i] EXCEPT !.identity = homes[kept[i].id]]]
           B == [i \in DOMAIN new |-> NewAccount(new[i], homes[new[i]])]
           all == AccountsOnDisk(s)
<1>1. all = A \o B
  BY DEF AccountsOnDisk
<1>2. /\ I \in SUBSET (DOMAIN s.accounts) /\ s.accounts \in Seq(Account)
      /\ \A i \in I : HasHome(s.accounts[i].id)
      /\ \A i \in DOMAIN s.accounts : HasHome(s.accounts[i].id) => i \in I
  BY DEF StoreFile
<1> HIDE DEF I, all
<1>3. N \in Nat /\ kept \in Seq(Account) /\ DOMAIN kept = 1..N
  BY <1>2, PickedSound
<1> DEFINE f == Ascending(I)
<1>4. /\ f \in [1..N -> I]
      /\ \A n \in 1..N : kept[n] = s.accounts[f[n]]
      /\ \A m, n \in 1..N : f[m] = f[n] => m = n
      /\ \A i \in I : \E n \in 1..N : f[n] = i
  BY <1>2, PickedSound
<1> HIDE DEF N, kept, f
<1>5. \A id \in AccountIds : HasHome(id) => homes[id] \in Identities
  BY DEF HasHome
<1>6. \A n \in 1..N : kept[n] \in Account /\ HasHome(kept[n].id)
  BY <1>2, <1>3, <1>4
<1>7. \A a \in Account : HasHome(a.id) =>
        LET b == [a EXCEPT !.identity = homes[a.id]]
        IN  b \in Account /\ b.id = a.id /\ b.syncMessages = a.syncMessages
  BY <1>5 DEF Account
<1>8. /\ A \in [1..N -> Account]
      /\ \A n \in 1..N : A[n].id = kept[n].id /\ A[n].syncMessages = kept[n].syncMessages
  BY <1>3, <1>6, <1>7
<1>9. A \in Seq(Account) /\ Len(A) = N /\ DOMAIN A = 1..N
  BY <1>3, <1>8, SeqOfFunction
<1> HIDE DEF A
<1>10. /\ new \in Seq(AccountIds) /\ Len(new) \in Nat /\ DOMAIN new = 1..Len(new)
       /\ \A i \in DOMAIN new : HasHome(new[i]) /\ new[i] \notin Known(s)
       /\ \A i, j \in DOMAIN new : new[i] = new[j] => i = j
       /\ \A id \in AccountIds : HasHome(id) /\ id \notin Known(s) => \E i \in DOMAIN new : new[i] = id
  BY NewHomesSound
<1> DEFINE M == Len(new)
<1> HIDE DEF new
<1>11. \A id \in AccountIds : \A identity \in Identities :
         LET b == NewAccount(id, identity)
         IN  b \in Account /\ b.id = id /\ b.syncMessages = 0
  <2>1. NoQuota \in Quota /\ TRUE \in BOOLEAN
    BY DEF NoQuota, NoWindow, Quota, Window
  <2> QED
    BY <2>1 DEF NewAccount, Account
<1>12. /\ B \in [1..M -> Account]
       /\ \A n \in 1..M : B[n].id = new[n] /\ B[n].syncMessages = 0
  BY <1>5, <1>10, <1>11
<1>13. B \in Seq(Account) /\ Len(B) = M /\ DOMAIN B = 1..M
  BY <1>10, <1>12, SeqOfFunction
<1> HIDE DEF B, M
<1>14. /\ all \in Seq(Account) /\ DOMAIN all = 1..(N + M) /\ M \in Nat
       /\ \A n \in 1..N : n \in DOMAIN all /\ all[n] = A[n]
       /\ \A n \in 1..M : N + n \in DOMAIN all /\ all[N + n] = B[n]
       /\ \A i \in DOMAIN all : i \in 1..N \/ \E n \in 1..M : i = N + n
  <2>1. M \in Nat
    BY <1>10 DEF M
  <2>2. /\ all \in Seq(Account) /\ Len(all) = N + M
        /\ \A i \in 1..(N + M) : all[i] = IF i <= N THEN A[i] ELSE B[i - N]
    <3>1. /\ A \o B \in Seq(Account) /\ Len(A \o B) = Len(A) + Len(B)
          /\ \A i \in 1..(Len(A) + Len(B)) :
               (A \o B)[i] = IF i <= Len(A) THEN A[i] ELSE B[i - Len(A)]
      BY <1>9, <1>13, ConcatProperties, Zenon
    <3> QED
      BY <1>1, <1>9, <1>13, <3>1, Zenon
  <2>3. DOMAIN all = 1..(N + M)
    BY <2>2
  <2>4. \A n \in 1..M : N + n \in 1..(N + M) /\ ~(N + n <= N) /\ (N + n) - N = n
    BY <1>3, <2>1
  <2>5. \A i \in 1..(N + M) : i \in 1..N \/ (i - N \in 1..M /\ i = N + (i - N))
    BY <1>3, <2>1
  <2>6. \A n \in 1..N : n \in 1..(N + M) /\ n <= N
    BY <1>3, <2>1
  <2> QED
    BY <2>1, <2>2, <2>3, <2>4, <2>5, <2>6
<1>15. \A n \in 1..N : all[n].id \in Known(s) /\ HasHome(all[n].id)
                       /\ all[n].syncMessages <= s.messages
  <2>1. \A i \in I : s.accounts[i].syncMessages <= s.messages /\ s.accounts[i].id \in Known(s)
    BY <1>2 DEF Consistent, SyncedInPast, Known
  <2> QED
    BY <1>2, <1>4, <1>8, <1>14, <2>1
<1>16. \A n \in 1..M : all[N + n].id = new[n] /\ all[N + n].syncMessages <= s.messages
  BY <1>12, <1>14 DEF StoreFile
<1>17. ASSUME NEW i \in DOMAIN all, NEW j \in DOMAIN all, all[i].id = all[j].id
       PROVE  i = j
  <2>1. CASE i \in 1..N /\ j \in 1..N
    <3>1. s.accounts[f[i]].id = s.accounts[f[j]].id
      BY <1>4, <1>8, <1>14, <1>17, <2>1
    <3>2. f[i] = f[j]
      BY <1>2, <1>4, <2>1, <3>1 DEF Consistent, UniqueIds
    <3> QED
      BY <1>4, <2>1, <3>2
  <2>2. CASE i \in 1..N /\ j \notin 1..N
    <3>1. all[i].id \in Known(s)
      BY <1>15, <2>2
    <3>2. all[j].id \notin Known(s)
      BY <1>10, <1>14, <1>16, <2>2 DEF M
    <3> QED
      BY <1>17, <3>1, <3>2
  <2>3. CASE i \notin 1..N /\ j \in 1..N
    <3>1. all[j].id \in Known(s)
      BY <1>15, <2>3
    <3>2. all[i].id \notin Known(s)
      BY <1>10, <1>14, <1>16, <2>3 DEF M
    <3> QED
      BY <1>17, <3>1, <3>2
  <2>4. CASE i \notin 1..N /\ j \notin 1..N
    <3>1. PICK m \in 1..M : i = N + m
      BY <1>14, <2>4
    <3>2. PICK n \in 1..M : j = N + n
      BY <1>14, <2>4
    <3>3. new[m] = new[n]
      BY <1>16, <1>17, <3>1, <3>2
    <3> QED
      BY <1>10, <3>1, <3>2, <3>3 DEF M
  <2> QED
    BY <2>1, <2>2, <2>3, <2>4
<1>18. \A i \in DOMAIN all : HasHome(all[i].id) /\ all[i].syncMessages <= s.messages
  <2>1. ASSUME NEW i \in 1..N
        PROVE  HasHome(all[i].id) /\ all[i].syncMessages <= s.messages
    BY <1>15
  <2>2. ASSUME NEW i \in DOMAIN all, i \notin 1..N
        PROVE  HasHome(all[i].id) /\ all[i].syncMessages <= s.messages
    <3>1. PICK m \in 1..M : i = N + m
      BY <1>14, <2>2
    <3> QED
      BY <1>10, <1>16, <3>1 DEF M
  <2> QED
    BY <2>1, <2>2
<1>19. ASSUME NEW id \in AccountIds, HasHome(id)
       PROVE  \E i \in DOMAIN all : all[i].id = id
  <2>1. CASE id \in Known(s)
    <3>1. PICK i \in DOMAIN s.accounts : s.accounts[i].id = id
      BY <2>1 DEF Known
    <3>2. PICK n \in 1..N : f[n] = i
      BY <1>2, <1>4, <1>19, <3>1
    <3> QED
      BY <1>4, <1>8, <1>14, <3>1, <3>2
  <2>2. CASE id \notin Known(s)
    BY <1>10, <1>14, <1>16, <1>19, <2>2 DEF M
  <2> QED
    BY <2>1, <2>2
<1> QED
  BY <1>14, <1>17, <1>18, <1>19 DEF all

-----------------------------------------------------------------------------

\* A store as every process has it.
Sound(s) == s \in StoreFile /\ Consistent(s) /\ s.settings \in SettingsChoices

\* A store that is reconciled has the accounts with a home, and a pin only to one of them.
LEMMA ReconciledSound ==
  ASSUME NEW s, Sound(s), homes \in [AccountIds -> Identities \cup {MissingAuth}]
  PROVE  /\ Sound(Reconciled(s)) /\ PinnedKnown(Reconciled(s))
         /\ Known(Reconciled(s)) = {id \in AccountIds : HasHome(id)}
<1> DEFINE all    == AccountsOnDisk(s)
           active == IF s.active > Len(all) THEN Max({1, Len(all)}) ELSE s.active
           pinned == IF \E i \in DOMAIN all : all[i].id = s.pinned THEN s.pinned ELSE NoAccount
           t      == Reconciled(s)
<1>1. /\ all \in Seq(Account) /\ Len(all) \in Nat /\ DOMAIN all = 1..Len(all)
      /\ \A i, j \in DOMAIN all : all[i].id = all[j].id => i = j
      /\ \A i \in DOMAIN all : HasHome(all[i].id) /\ all[i].syncMessages <= s.messages
      /\ \A id \in AccountIds : HasHome(id) => \E i \in DOMAIN all : all[i].id = id
  <2>1. all \in Seq(Account)
    BY AccountsOnDiskSound DEF Sound
  <2>2. Len(all) \in Nat /\ DOMAIN all = 1..Len(all)
    BY <2>1, FunctionOfSeq
  <2> QED
    BY <2>1, <2>2, AccountsOnDiskSound DEF Sound
<1>2. t = [s EXCEPT !.accounts = all, !.active = active, !.pinned = pinned]
  BY DEF Reconciled, Sound, StoreFile
<1> HIDE DEF all, t
<1>3. \A i \in DOMAIN all : all[i].id \in AccountIds
  <2>1. all \in [DOMAIN all -> Account]
    BY <1>1, FunctionOfSeq
  <2> QED
    BY <2>1 DEF Account
<1>4. active \in Nat \ {0} /\ active \in DOMAIN all \cup {1}
  <2>1. s.active \in Nat \ {0}
    BY DEF Sound, StoreFile
  <2>2. {1, Len(all)} \in SUBSET (0..(Len(all) + 1)) /\ Len(all) + 1 \in Nat
    BY <1>1
  <2>3. \E m \in {1, Len(all)} : \A k \in {1, Len(all)} : m >= k
    BY <1>1
  <2>4. Max({1, Len(all)}) \in {1, Len(all)} /\ Max({1, Len(all)}) >= 1
    BY <2>3 DEF Max
  <2>5. CASE s.active > Len(all)
    BY <1>1, <2>4, <2>5
  <2>6. CASE ~(s.active > Len(all))
    BY <1>1, <2>1, <2>6
  <2> QED
    BY <2>5, <2>6
<1>5. pinned \in AccountIds \cup {NoAccount}
      /\ (pinned = NoAccount \/ \E i \in DOMAIN all : all[i].id = pinned)
  BY <1>3
<1> HIDE DEF active, pinned
<1>6. /\ t \in StoreFile
      /\ t.accounts = all /\ t.active = active /\ t.pinned = pinned
      /\ t.messages = s.messages /\ t.settings = s.settings
  BY <1>1, <1>2, <1>4, <1>5 DEF Sound, StoreFile
<1>7. Consistent(t)
  BY <1>1, <1>4, <1>6 DEF Consistent, UniqueIds, ActiveInRange, SyncedInPast
<1>8. PinnedKnown(t)
  BY <1>5, <1>6 DEF PinnedKnown, Known
<1>9. Known(t) = {id \in AccountIds : HasHome(id)}
  BY <1>1, <1>3, <1>6 DEF Known
<1> QED
  BY <1>6, <1>7, <1>8, <1>9 DEF Sound, t

\* The other stores a process can have.
LEMMA EmptySound ==
  Sound(Empty) /\ Known(Empty) = {} /\ PinnedKnown(Empty) /\ Empty.settings = Defaults
<1>1. << >> \in Seq(Account) /\ DOMAIN << >> = 1..0
  OBVIOUS
<1>2. Defaults \in SettingsChoices /\ Defaults \in Settings
  BY StoreFilesAssumption
<1>3. /\ Empty.accounts = << >> /\ Empty.active = 1 /\ Empty.pinned = NoAccount
      /\ Empty.messages = 0 /\ Empty.settings = Defaults
  BY DEF Empty
<1>4. Empty \in StoreFile
  BY <1>1, <1>2 DEF Empty, StoreFile
<1> QED
  BY <1>1, <1>2, <1>3, <1>4
     DEF Sound, Consistent, UniqueIds, ActiveInRange, SyncedInPast, Known, PinnedKnown

\* The store after ReloadSettingsFromConfig.
LEMMA SettingsSound ==
  ASSUME NEW s, Sound(s), NEW settings \in SettingsChoices
  PROVE  LET t == [s EXCEPT !.settings = settings]
         IN  Sound(t) /\ t.settings = settings /\ Known(t) = Known(s)
             /\ (PinnedKnown(s) => PinnedKnown(t))
<1> DEFINE t == [s EXCEPT !.settings = settings]
<1>1. settings \in Settings
  BY StoreFilesAssumption
<1>2. /\ t \in StoreFile /\ t.settings = settings /\ t.accounts = s.accounts
      /\ t.active = s.active /\ t.pinned = s.pinned /\ t.messages = s.messages
  BY <1>1 DEF Sound, StoreFile
<1> HIDE DEF t
<1>3. Consistent(t) /\ Known(t) = Known(s)
  BY <1>2 DEF Sound, Consistent, UniqueIds, ActiveInRange, SyncedInPast, Known
<1> QED
  BY <1>2, <1>3 DEF Sound, PinnedKnown, t

\* The store after pin or unpin.
LEMMA PinSound ==
  ASSUME NEW s, Sound(s), NEW id \in AccountIds \cup {NoAccount}
  PROVE  LET t == [s EXCEPT !.pinned = id]
         IN  Sound(t) /\ Known(t) = Known(s)
<1> DEFINE t == [s EXCEPT !.pinned = id]
<1>1. /\ t \in StoreFile /\ t.settings = s.settings /\ t.accounts = s.accounts
      /\ t.active = s.active /\ t.messages = s.messages
  BY DEF Sound, StoreFile
<1> HIDE DEF t
<1>2. Consistent(t) /\ Known(t) = Known(s)
  BY <1>1 DEF Sound, Consistent, UniqueIds, ActiveInRange, SyncedInPast, Known
<1> QED
  BY <1>1, <1>2 DEF Sound, t

\* The store after an import.
LEMMA UpsertSound ==
  ASSUME NEW s, Sound(s), NEW id \in AccountIds, NEW identity \in Identities
  PROVE  LET t == UpsertAccount(s, id, identity)
         IN  Sound(t) /\ Known(t) = Known(s) \cup {id}
<1>1. UpsertAccount(s, id, identity).settings = s.settings
  BY DEF UpsertAccount, UpdateAccount, Sound, StoreFile
<1> QED
  BY <1>1, UpsertConsistent DEF Sound

\* The store after rm.
LEMMA RemoveSound ==
  ASSUME NEW s, Sound(s), NEW id
  PROVE  LET t == RemoveAccount(s, id)
         IN  Sound(t) /\ Known(t) = Known(s) \ {id}
<1>1. RemoveAccount(s, id).settings = s.settings
  BY DEF RemoveAccount, Sound, StoreFile
<1> QED
  BY <1>1, RemoveConsistent DEF Sound

-----------------------------------------------------------------------------
(***************************************************************************)
(* The stores stay sound.                                                  *)
(***************************************************************************)

\* The record of a seat: its step is one of its command's operation, and an account that
\* is registered was found in a home.
AtItsWork(r) ==
  /\ r.pc \in {"truncate", "write", "load", "upsert"} => r.job.op = "import"
  /\ r.pc \in {"rmhome", "forget"} => r.job.op = "rm"
  /\ r.pc \in {"lookup", "pin", "unpin"} => ~Changes(r.job)
  /\ r.pc = "upsert" => r.found # MissingAuth

\* The records a seat can have.
Worker == {r \in Seat : AtItsWork(r)}

\* store.json never holds settings of its own: those of config.toml are left out of it.
FileInv == Sound(file) /\ file.settings = Defaults

\* A command that has opened its store pins no account but one of it.
MemInv ==
  /\ mem \in [Processes -> StoreFile] /\ proc \in [Processes -> Stages]
  /\ \A p \in Processes : Sound(mem[p])
  /\ \A c \in Commands : proc[c] \in {"reconciled", "up"} => PinnedKnown(mem[c])

\* Every seat is at a step of its command.
SeatInv == seat \in [Seats -> Worker]

\* The homes, config.toml, the reloader and what was said keep their types.
RestInv ==
  /\ homes \in [AccountIds -> Identities \cup {MissingAuth}]
  /\ leftover \subseteq AccountIds
  /\ config \in Config /\ reload \in Reloader
  /\ promise \in [AccountIds -> Claims] /\ served \in [AccountIds -> Claims]
  /\ contested \subseteq Commands /\ setup \in Setups

\* What holds in every state, whoever works on the directory.
SoundInv == FileInv /\ MemInv /\ SeatInv /\ RestInv

\* The first layer of the invariant has the two properties the run checks.
LEMMA SoundInvMeaning == SoundInv => TypeOK /\ StoresSound
<1> SUFFICES ASSUME SoundInv
             PROVE  TypeOK /\ StoresSound
  OBVIOUS
<1>1. seat \in [Seats -> Seat]
  BY DEF SoundInv, SeatInv, Worker
<1>2. file \in StoreFile
  BY DEF SoundInv, FileInv, Sound
<1>3. TypeOK
  BY <1>1, <1>2 DEF SoundInv, MemInv, RestInv, TypeOK
<1>4. StoresSound
  BY DEF SoundInv, FileInv, MemInv, Sound, StoresSound
<1> QED
  BY <1>3, <1>4

\* The two seats of a command.
LEMMA SeatsOfCommands ==
  /\ \A c \in Commands : /\ Own(c) \in Seats /\ InProxy(c) \in Seats /\ Own(c) # InProxy(c)
                         /\ Own(c)[1] = c /\ InProxy(c)[1] = c
                         /\ Own(c)[2] = "own" /\ InProxy(c)[2] = "proxy"
                         /\ c \in Processes /\ c # Proxy
                         /\ Host(Own(c)) = c /\ Host(InProxy(c)) = Proxy
  /\ \A s \in Seats : /\ s[1] \in Commands /\ Host(s) \in Processes
                      /\ s = Own(s[1]) \/ s = InProxy(s[1])
                      /\ s[2] = "own" \/ s[2] = "proxy"
                      /\ s[2] = "own" <=> s = Own(s[1])
                      /\ s[2] = "proxy" <=> s = InProxy(s[1])
  /\ Proxy \in Processes
<1>1. Proxy \notin Commands
  BY StoreFilesAssumption
<1>2. ASSUME NEW s \in Seats
      PROVE  /\ s[1] \in Commands /\ s[2] \in {"own", "proxy"} /\ s = <<s[1], s[2]>>
  BY DEF Seats
<1>3. ASSUME NEW c \in Commands
      PROVE  /\ Own(c) \in Seats /\ InProxy(c) \in Seats /\ Own(c) # InProxy(c)
             /\ Own(c)[1] = c /\ InProxy(c)[1] = c
             /\ Own(c)[2] = "own" /\ InProxy(c)[2] = "proxy"
             /\ c \in Processes /\ c # Proxy
             /\ Host(Own(c)) = c /\ Host(InProxy(c)) = Proxy
  BY <1>1 DEF Seats, Own, InProxy, Host, Processes
<1>4. ASSUME NEW s \in Seats
      PROVE  /\ s[2] = "own" <=> s = Own(s[1])
             /\ s[2] = "proxy" <=> s = InProxy(s[1])
             /\ Host(s) \in Processes
  BY <1>2 DEF Own, InProxy, Host, Processes
<1> QED
  BY <1>2, <1>3, <1>4 DEF Processes

\* A process opens, works on or closes its copy.
LEMMA ToSound ==
  ASSUME MemInv, NEW p \in Processes, NEW pc \in Stages, NEW s, Sound(s), To(p, pc, s),
         p \in Commands /\ pc \in {"reconciled", "up"} => PinnedKnown(s)
  PROVE  MemInv'
<1>1. s \in StoreFile
  BY DEF Sound
<1>2. /\ mem' \in [Processes -> StoreFile] /\ proc' \in [Processes -> Stages]
      /\ mem'[p] = s /\ proc'[p] = pc
      /\ \A q \in Processes : q # p => mem'[q] = mem[q] /\ proc'[q] = proc[q]
  BY <1>1 DEF MemInv, To
<1>3. Commands \subseteq Processes
  BY DEF Processes
<1>4. \A q \in Processes : Sound(mem'[q])
  BY <1>2 DEF MemInv
<1>5. \A c \in Commands : proc'[c] \in {"reconciled", "up"} => PinnedKnown(mem'[c])
  BY <1>2, <1>3 DEF MemInv
<1> QED
  BY <1>2, <1>4, <1>5 DEF MemInv

\* A command closes its copy.
LEMMA CloseSound ==
  ASSUME MemInv, NEW p \in Processes, Close(p)
  PROVE  MemInv'
<1>1. To(p, "down", Empty) /\ "down" \in Stages
  BY DEF Close, To, Stages
<1> QED
  BY <1>1, EmptySound, ToSound

\* The proxy's copy can have any pin.
LEMMA ProxyMemSound ==
  ASSUME MemInv, NEW s, Sound(s), mem' = [mem EXCEPT ![Proxy] = s], UNCHANGED proc
  PROVE  MemInv'
<1>1. Proxy \in Processes /\ Proxy \notin Commands /\ s \in StoreFile /\ Commands \subseteq Processes
  BY StoreFilesAssumption DEF Processes, Sound
<1>2. /\ mem' \in [Processes -> StoreFile] /\ mem'[Proxy] = s
      /\ \A q \in Processes : q # Proxy => mem'[q] = mem[q]
  BY <1>1 DEF MemInv
<1>3. \A c \in Commands : mem'[c] = mem[c] /\ proc'[c] = proc[c]
  BY <1>1, <1>2
<1>4. \A q \in Processes : Sound(mem'[q])
  BY <1>2 DEF MemInv
<1>5. proc' \in [Processes -> Stages]
  BY DEF MemInv
<1> QED
  BY <1>2, <1>3, <1>4, <1>5 DEF MemInv

\* An Update reaches store.json, or the disk is full and it does not.
LEMMA SaveSound ==
  ASSUME FileInv, NEW s, Sound(s), NEW ok, Save(s, ok)
  PROVE  FileInv'
<1> DEFINE t == [s EXCEPT !.settings = Defaults]
<1>1. Sound(t) /\ t.settings = Defaults
  BY SettingsSound, StoreFilesAssumption
<1>2. file' \in {t, file}
  BY DEF Save, Persisted
<1> HIDE DEF t
<1> QED
  BY <1>1, <1>2 DEF FileInv

\* The seats.
LEMMA SeatFields ==
  ASSUME NEW r \in Worker
  PROVE  /\ r.pc \in WorkPcs \cup {"free", "open", "wait", "done"} /\ r.job \in Job
         /\ r.job.id \in AccountIds /\ r.job.identity \in Identities
         /\ r.job.op \in {"import", "rm", "pin", "unpin"} /\ r.ok \in BOOLEAN
         /\ r.found \in Identities \cup {MissingAuth}
         /\ AtItsWork(r)
<1>1. r.ok \in BOOLEAN
  BY DEF Worker, Seat
<1> QED
  BY <1>1 DEF Worker, Seat, Job

\* A seat with nothing to do.
LEMMA FreeWorker ==
  Free \in Worker /\ Free.pc = "free"
<1>1. (CHOOSE j \in Job : TRUE) \in Job
  BY StoreFilesAssumption
<1>2. FALSE \in BOOLEAN
  OBVIOUS
<1>3. Free \in Seat /\ Free.pc = "free"
  BY <1>1, <1>2 DEF Free, Seat
<1> QED
  BY <1>3 DEF Worker, AtItsWork

\* A seat at another step.
LEMMA AtStep ==
  ASSUME NEW r \in Worker, NEW pc \in WorkPcs \cup {"free", "open", "wait", "done"}
  PROVE  LET t == [r EXCEPT !.pc = pc]
         IN  /\ t \in Seat /\ t.pc = pc /\ t.job = r.job /\ t.found = r.found
             /\ (t.ok <=> r.ok)
<1>1. [r EXCEPT !.pc = pc] \in Seat
  BY DEF Worker, Seat
<1> QED
  BY <1>1 DEF Worker, Seat

\* One seat gets another record.
LEMMA SeatsStay ==
  ASSUME SeatInv, NEW s \in Seats, NEW r \in Worker, seat' = [seat EXCEPT ![s] = r]
  PROVE  SeatInv' /\ seat'[s] = r /\ \A t \in Seats : t # s => seat'[t] = seat[t]
BY DEF SeatInv

\* The first step of an operation.
LEMMA FirstOfOperation ==
  ASSUME NEW job \in Job
  PROVE  /\ First(job.op) \in {"truncate", "rmhome", "lookup", "unpin"}
         /\ First(job.op) = "truncate" => job.op = "import"
         /\ First(job.op) = "rmhome" => job.op = "rm"
         /\ First(job.op) \in {"lookup", "unpin"} => ~Changes(job)
<1>1. job.op \in {"import", "rm", "pin", "unpin"}
  BY DEF Job
<1>2. CASE job.op = "import"
  BY <1>2 DEF First
<1>3. CASE job.op = "rm"
  BY <1>3 DEF First
<1>4. CASE job.op = "pin"
  BY <1>4 DEF First, Changes
<1>5. CASE job.op = "unpin"
  BY <1>5 DEF First, Changes
<1> QED
  BY <1>1, <1>2, <1>3, <1>4, <1>5

\* What is claimed of an account.
LEMMA ClaimsTyped ==
  ASSUME NEW claims \in [AccountIds -> Claims], NEW c, NEW job \in Job
  PROVE  /\ Acknowledge(claims, c, job) \in [AccountIds -> Claims]
         /\ Unclaim(claims, job) \in [AccountIds -> Claims]
         /\ \A id \in AccountIds :
              Unclaim(claims, job)[id] =
                IF Changes(job) /\ id = job.id THEN "either" ELSE claims[id]
         /\ \A id \in AccountIds :
              Acknowledge(claims, c, job)[id] =
                IF Changes(job) /\ c \notin contested /\ id = job.id THEN Claim(job) ELSE claims[id]
         /\ job.op = "import" => Claim(job) = "present"
         /\ job.op = "rm" => Claim(job) = "absent"
         /\ Changes(job) => job.op \in {"import", "rm"}
<1>1. job.op = "import" => Claim(job) = "present"
  BY DEF Claim
<1>2. job.op = "rm" => Claim(job) = "absent"
  BY DEF Claim
<1>3. Changes(job) => Claim(job) \in Claims /\ job.op \in {"import", "rm"}
  BY <1>1, <1>2 DEF Changes, Claims
<1>4. "either" \in Claims
  BY DEF Claims
<1>5. CASE Changes(job) /\ c \notin contested
  BY <1>1, <1>2, <1>3, <1>4, <1>5 DEF Acknowledge, Unclaim
<1>6. CASE ~(Changes(job) /\ c \notin contested)
  BY <1>1, <1>2, <1>3, <1>4, <1>6 DEF Acknowledge, Unclaim
<1> QED
  BY <1>5, <1>6

\* The end of a command's work, told to its user or to the command that asked.
LEMMA FinishSound ==
  ASSUME SoundInv, NEW s \in Seats, NEW s1, Sound(s1), NEW ok \in BOOLEAN, Finish(s, s1, ok)
  PROVE  MemInv' /\ SeatInv' /\ promise' \in [AccountIds -> Claims]
<1> DEFINE r == seat[s]
<1>1. r \in Worker /\ r.job \in Job
  BY SeatFields DEF SoundInv, SeatInv
<1>2. CASE s[2] = "own"
  <2>1. s[1] \in Processes
    BY SeatsOfCommands
  <2>2. MemInv'
    BY <1>2, <2>1, EmptySound, ToSound DEF Finish, SoundInv, Stages
  <2>3. SeatInv'
    BY <1>2, FreeWorker, SeatsStay DEF Finish, SoundInv
  <2>4. promise' \in [AccountIds -> Claims]
    BY <1>1, <1>2, ClaimsTyped DEF Finish, SoundInv, RestInv
  <2> QED
    BY <2>2, <2>3, <2>4
<1>3. CASE s[2] # "own"
  <2> DEFINE t == [r EXCEPT !.pc = "done", !.ok = ok, !.found = MissingAuth]
  <2>1. /\ seat' = [seat EXCEPT ![s] = t]
        /\ mem' = [mem EXCEPT ![Proxy] = s1] /\ UNCHANGED <<proc, promise>>
    BY <1>3 DEF Finish
  <2>2. t \in Seat /\ t.pc = "done"
    BY <1>1 DEF Worker, Seat
  <2>3. t \in Worker
    BY <2>2 DEF Worker, AtItsWork
  <2> HIDE DEF t
  <2>4. SeatInv'
    BY <2>1, <2>3, SeatsStay DEF SoundInv
  <2>5. MemInv'
    BY <2>1, ProxyMemSound DEF SoundInv
  <2> QED
    BY <2>1, <2>4, <2>5 DEF SoundInv, RestInv
<1> QED
  BY <1>2, <1>3

\* A terminal whose command ended in an error is free again.
LEMMA GiveSound ==
  ASSUME SeatInv, NEW p \in Processes, Give(p)
  PROVE  SeatInv'
<1>1. p # Proxy => Own(p) \in Seats
  BY SeatsOfCommands DEF Processes
<1> QED
  BY <1>1, FreeWorker DEF Give, SeatInv

\* config.toml.
LEMMA ConfigSettings ==
  ASSUME NEW content \in Config
  PROVE  /\ content # Broken => Says(content) \in SettingsChoices
         /\ Truncated \in Config
         /\ \A p \in Processes : \A settings \in SettingsChoices :
              /\ [settings |-> settings, name |-> p] \in Config
              /\ config = content => Torn([settings |-> settings, name |-> p]) \subseteq Config
<1>1. content \in Parsed => content.settings \in SettingsChoices
  BY DEF Parsed
<1>2. content # Broken => Says(content) \in SettingsChoices
  BY <1>1, StoreFilesAssumption DEF Says, Config
<1>3. Truncated \in Config
  BY StoreFilesAssumption DEF Truncated, Config, Parsed
<1>4. ASSUME NEW p \in Processes, NEW settings \in SettingsChoices
      PROVE  [settings |-> settings, name |-> p] \in Config
  BY DEF Config, Parsed
<1>5. ASSUME NEW p \in Processes, NEW settings \in SettingsChoices, config = content
      PROVE  Torn([settings |-> settings, name |-> p]) \subseteq Config
  <2> DEFINE whole == [settings |-> settings, name |-> p]
             part  == [settings |-> Defaults, name |-> p]
  <2>1. [whole EXCEPT !.settings = Defaults] = part
    OBVIOUS
  <2>2. part \in Config
    BY <1>4, StoreFilesAssumption
  <2>3. Broken \in Config
    BY DEF Config
  <2> QED
    BY <1>5, <2>1, <2>2, <2>3 DEF Torn
<1> QED
  BY <1>2, <1>3, <1>4, <1>5

\* OpenStore, step by step.
LEMMA OpenStaysSound ==
  ASSUME SoundInv, NEW p \in Processes, Open(p)
  PROVE  SoundInv'
<1> USE DEF SoundInv
<1>0. Sound(mem[p])
  BY DEF MemInv
<1>1. CASE ReadStore(p)
  <2>1. MemInv'
    BY <1>1, ToSound DEF ReadStore, FileInv, Stages
  <2> QED
    BY <1>1, <2>1 DEF ReadStore, FileInv, SeatInv, RestInv
<1>2. CASE ReadConfig(p)
  <2>1. FileInv' /\ RestInv'
    BY <1>2 DEF ReadConfig, FileInv, RestInv
  <2>2. CASE config = Broken
    BY <1>2, <2>1, <2>2, CloseSound, GiveSound DEF ReadConfig
  <2>3. CASE config # Broken
    <3> DEFINE pc == IF Nameless(config) THEN "name" ELSE "configured"
               t  == [mem[p] EXCEPT !.settings = Says(config)]
    <3>1. Says(config) \in SettingsChoices
      BY <2>3, ConfigSettings DEF RestInv
    <3>2. Sound(t)
      BY <1>0, <3>1, SettingsSound
    <3>3. pc \in Stages /\ pc \notin {"reconciled", "up"}
      BY DEF Stages
    <3>4. To(p, pc, t) /\ UNCHANGED seat
      BY <1>2, <2>3 DEF ReadConfig
    <3> HIDE DEF pc, t
    <3>5. MemInv'
      BY <3>2, <3>3, <3>4, ToSound
    <3> QED
      BY <2>1, <3>4, <3>5 DEF SeatInv
  <2> QED
    BY <2>2, <2>3
<1>3. CASE NameConfig(p)
  <2>1. PICK ok \in Writes :
          /\ config' = IF ok THEN Truncated ELSE config
          /\ IF ok THEN To(p, "fill", mem[p]) /\ UNCHANGED seat ELSE Close(p) /\ Give(p)
    BY <1>3 DEF NameConfig
  <2>2. FileInv'
    BY <1>3 DEF NameConfig, FileInv
  <2>3. config' \in Config
    BY <2>1, ConfigSettings DEF RestInv
  <2>4. RestInv'
    BY <1>3, <2>3 DEF NameConfig, RestInv
  <2>5. MemInv' /\ SeatInv'
    <3>1. CASE ok
      BY <1>0, <2>1, <3>1, ToSound DEF Stages, SeatInv
    <3>2. CASE ~ok
      BY <2>1, <3>2, CloseSound, GiveSound
    <3> QED
      BY <3>1, <3>2
  <2> QED
    BY <2>2, <2>4, <2>5
<1>6. CASE FillConfig(p)
  <2> DEFINE content == [settings |-> mem[p].settings, name |-> p]
  <2>1. PICK ok \in Writes :
          /\ config' \in IF ok THEN {content} ELSE Torn(content)
          /\ IF ok THEN To(p, "configured", mem[p]) /\ UNCHANGED seat ELSE Close(p) /\ Give(p)
    BY <1>6 DEF FillConfig
  <2>2. FileInv'
    BY <1>6 DEF FillConfig, FileInv
  <2>3. config' \in Config
    <3>1. content \in Config /\ Torn(content) \subseteq Config
      BY <1>0, ConfigSettings DEF RestInv, Sound
    <3> HIDE DEF content
    <3> QED
      BY <2>1, <3>1
  <2>4. RestInv'
    BY <1>6, <2>3 DEF FillConfig, RestInv
  <2>5. MemInv' /\ SeatInv'
    <3>1. CASE ok
      BY <1>0, <2>1, <3>1, ToSound DEF Stages, SeatInv
    <3>2. CASE ~ok
      BY <2>1, <3>2, CloseSound, GiveSound
    <3> QED
      BY <3>1, <3>2
  <2> QED
    BY <2>2, <2>4, <2>5
<1>4. CASE Reconcile(p)
  <2>1. MemInv'
    BY <1>0, <1>4, ReconciledSound, ToSound DEF Reconcile, RestInv, Stages
  <2> QED
    BY <1>4, <2>1 DEF Reconcile, FileInv, SeatInv, RestInv
<1>5. CASE WriteStore(p)
  <2>1. PICK ok \in Writes :
          /\ Save(mem[p], ok)
          /\ IF ok THEN To(p, "up", mem[p]) /\ UNCHANGED seat ELSE Close(p) /\ Give(p)
    BY <1>5 DEF WriteStore
  <2>2. FileInv'
    BY <1>0, <2>1, SaveSound
  <2>3. RestInv'
    BY <1>5 DEF WriteStore, RestInv
  <2>4. MemInv' /\ SeatInv'
    <3>1. CASE ok
      <4>1. p \in Commands => PinnedKnown(mem[p])
        BY <1>5 DEF WriteStore, MemInv
      <4> QED
        BY <1>0, <2>1, <3>1, <4>1, ToSound DEF Stages, SeatInv
    <3>2. CASE ~ok
      BY <2>1, <3>2, CloseSound, GiveSound
    <3> QED
      BY <3>1, <3>2
  <2> QED
    BY <2>2, <2>3, <2>4
<1> QED
  BY <1>1, <1>2, <1>3, <1>4, <1>5, <1>6 DEF Open

\* The reloader changes the settings of the proxy and nothing else of its store.
LEMMA ReloadStaysSound ==
  ASSUME SoundInv, Reload
  PROVE  SoundInv'
<1> USE DEF SoundInv
<1>0. /\ Proxy \in Processes /\ Sound(mem[Proxy]) /\ reload \in Reloader
      /\ reload.pending \in SettingsChoices /\ reload.last \in Config /\ reload.hash \in Config
      /\ config \in Config
  <2>1. Proxy \in Processes /\ reload \in Reloader
    BY DEF Processes, RestInv
  <2> QED
    BY <2>1 DEF MemInv, RestInv, Reloader
<1>1. \A pc \in {"off", "watch", "digest", "name", "fill", "persist"} :
        /\ \A last \in Config : [Off EXCEPT !.pc = pc, !.last = last] \in Reloader
        /\ [reload EXCEPT !.pc = pc] \in Reloader
        /\ \A pending \in SettingsChoices : [reload EXCEPT !.pc = pc, !.pending = pending] \in Reloader
        /\ \A hash \in Config : [reload EXCEPT !.pc = pc, !.hash = hash] \in Reloader
  <2>1. Off \in Reloader
    <3>1. NoConfig \in Config /\ Defaults \in SettingsChoices
      BY StoreFilesAssumption DEF Config
    <3> QED
      BY <3>1 DEF Off, Reloader
  <2> QED
    BY <1>0, <2>1 DEF Reloader
<1>2. Done \in Reloader /\ Retry \in Reloader
  BY <1>0, <1>1 DEF Done, Retry
<1>3. ASSUME NEW settings \in SettingsChoices, mem' = [mem EXCEPT ![Proxy].settings = settings],
             UNCHANGED proc
      PROVE  MemInv'
  <2> DEFINE t == [mem[Proxy] EXCEPT !.settings = settings]
  <2>1. Sound(t)
    BY <1>0, SettingsSound
  <2>2. mem' = [mem EXCEPT ![Proxy] = t]
    BY <1>3
  <2> HIDE DEF t
  <2> QED
    BY <1>3, <2>1, <2>2, ProxyMemSound
<1>4. CASE StartReloader
  <2>1. reload' \in Reloader
    BY <1>0, <1>1, <1>4 DEF StartReloader
  <2> QED
    BY <1>4, <2>1 DEF StartReloader, FileInv, MemInv, SeatInv, RestInv
<1>5. CASE ReadDigest
  <2>1. reload' \in Reloader
    BY <1>0, <1>1, <1>5 DEF ReadDigest
  <2> QED
    BY <1>5, <2>1 DEF ReadDigest, FileInv, MemInv, SeatInv, RestInv
<1>6. CASE ReadChange
  <2>1. FileInv' /\ SeatInv' /\ UNCHANGED <<homes, leftover, config, proc, promise, served, contested, setup>>
    BY <1>6 DEF ReadChange, FileInv, SeatInv
  <2>2. MemInv' /\ reload' \in Reloader
    <3>1. CASE config = Broken
      <4>1. reload' = Retry /\ UNCHANGED mem
        BY <1>6, <3>1 DEF ReadChange
      <4> QED
        BY <1>2, <2>1, <4>1 DEF MemInv
    <3>2. CASE config # Broken /\ Nameless(config)
      <4>1. reload' = [reload EXCEPT !.pc = "name", !.pending = Says(config)] /\ UNCHANGED mem
        BY <1>6, <3>2 DEF ReadChange
      <4> QED
        BY <1>0, <1>1, <2>1, <3>2, <4>1, ConfigSettings DEF MemInv
    <3>3. CASE config # Broken /\ ~Nameless(config)
      <4>1. /\ mem' = [mem EXCEPT ![Proxy].settings = Says(config)]
            /\ reload' \in {Done, [reload EXCEPT !.pc = "persist"]}
        BY <1>6, <3>3 DEF ReadChange
      <4>2. MemInv'
        BY <1>0, <1>3, <2>1, <3>3, <4>1, ConfigSettings
      <4> QED
        BY <1>1, <1>2, <4>1, <4>2
    <3> QED
      BY <3>1, <3>2, <3>3
  <2> QED
    BY <2>1, <2>2 DEF RestInv
<1>7. CASE NameChange
  <2>1. PICK ok \in Writes :
          /\ config' = IF ok THEN Truncated ELSE config
          /\ reload' = IF ok THEN [reload EXCEPT !.pc = "fill"] ELSE Retry
    BY <1>7 DEF NameChange
  <2>2. /\ FileInv' /\ SeatInv' /\ MemInv'
        /\ UNCHANGED <<homes, leftover, proc, promise, served, contested, setup>>
    BY <1>7 DEF NameChange, FileInv, SeatInv, MemInv
  <2>3. config' \in Config /\ reload' \in Reloader
    BY <1>0, <1>1, <1>2, <2>1, ConfigSettings
  <2> QED
    BY <2>2, <2>3 DEF RestInv
<1>9. CASE FillChange
  <2> DEFINE content == [settings |-> reload.pending, name |-> Proxy]
  <2>1. PICK ok \in Writes :
          /\ config' \in IF ok THEN {content} ELSE Torn(content)
          /\ mem' = IF ok THEN [mem EXCEPT ![Proxy].settings = reload.pending] ELSE mem
          /\ reload' = IF ok THEN [reload EXCEPT !.pc = "persist"] ELSE Retry
    BY <1>9 DEF FillChange
  <2>2. FileInv' /\ SeatInv' /\ UNCHANGED <<homes, leftover, proc, promise, served, contested, setup>>
    BY <1>9 DEF FillChange, FileInv, SeatInv
  <2>3. config' \in Config
    <3>1. content \in Config /\ Torn(content) \subseteq Config
      BY <1>0, ConfigSettings
    <3> HIDE DEF content
    <3> QED
      BY <2>1, <3>1
  <2>5. reload' \in Reloader
    BY <1>1, <1>2, <2>1
  <2>4. MemInv'
    <3>1. CASE ok
      BY <1>0, <1>3, <2>1, <2>2, <3>1
    <3>2. CASE ~ok
      BY <2>1, <2>2, <3>2 DEF MemInv
    <3> QED
      BY <3>1, <3>2
  <2> QED
    BY <2>2, <2>3, <2>4, <2>5 DEF RestInv
<1>8. CASE PersistChange
  <2>1. PICK ok \in Writes : Save(mem[Proxy], ok) /\ reload' = IF ok THEN Done ELSE Retry
    BY <1>8 DEF PersistChange
  <2>2. FileInv'
    BY <1>0, <2>1, SaveSound
  <2>3. reload' \in Reloader
    BY <1>2, <2>1
  <2> QED
    BY <1>8, <2>2, <2>3 DEF PersistChange, MemInv, SeatInv, RestInv
<1> QED
  BY <1>4, <1>5, <1>6, <1>7, <1>8, <1>9 DEF Reload

\* The work on a command, in its process or in the proxy.
LEMMA WorkStaysSound ==
  ASSUME SoundInv, NEW s \in Seats, Work(s)
  PROVE  SoundInv'
<1> USE DEF SoundInv
<1> DEFINE r == seat[s]
           id == r.job.id
           host == Host(s)
<1>0. /\ r \in Worker /\ r.pc \in WorkPcs \cup {"free", "open", "wait", "done"} /\ r.job \in Job
      /\ id \in AccountIds /\ r.job.identity \in Identities
      /\ r.found \in Identities \cup {MissingAuth} /\ AtItsWork(r)
      /\ host \in Processes /\ Sound(mem[host])
      /\ homes \in [AccountIds -> Identities \cup {MissingAuth}]
  <2>1. r \in Worker
    BY DEF SeatInv
  <2>2. host \in Processes /\ Sound(mem[host])
    BY SeatsOfCommands DEF MemInv
  <2> QED
    BY <2>1, <2>2, SeatFields DEF RestInv
<1>1. ASSUME NEW pc \in {"write", "load", "forget", "pin"}, Go(s, pc),
             pc \in {"write", "load"} => r.job.op = "import",
             pc = "forget" => r.job.op = "rm", pc = "pin" => ~Changes(r.job)
      PROVE  SeatInv'
  <2> DEFINE t == [r EXCEPT !.pc = pc]
  <2>1. t \in Seat /\ t.pc = pc /\ t.job = r.job
    BY <1>0, AtStep DEF WorkPcs
  <2>2. t \in Worker
    BY <1>1, <2>1 DEF Worker, AtItsWork
  <2>3. seat' = [seat EXCEPT ![s] = t]
    BY <1>1 DEF Go
  <2> HIDE DEF t
  <2> QED
    BY <2>2, <2>3, SeatsStay
<1>2. \A pc : At(s, pc) <=> r.pc = pc
  BY DEF At
<1>3. CASE TruncateAuth(s)
  <2>1. SeatInv'
    BY <1>0, <1>1, <1>2, <1>3 DEF TruncateAuth, AtItsWork
  <2>2. homes' \in [AccountIds -> Identities \cup {MissingAuth}]
    BY <1>0, <1>3 DEF TruncateAuth
  <2> QED
    BY <1>3, <2>1, <2>2 DEF TruncateAuth, FileInv, MemInv, RestInv
<1>4. CASE WriteAuth(s)
  <2>1. PICK found \in Identities \cup {MissingAuth} :
          /\ homes' = [homes EXCEPT ![id] = found]
          /\ \/ Go(s, "load") /\ UNCHANGED <<mem, proc, promise>>
             \/ Finish(s, mem[host], FALSE)
    BY <1>0, <1>4 DEF WriteAuth
  <2>2. homes' \in [AccountIds -> Identities \cup {MissingAuth}]
    BY <1>0, <2>1
  <2>3. MemInv' /\ SeatInv' /\ promise' \in [AccountIds -> Claims]
    <3>1. CASE Go(s, "load") /\ UNCHANGED <<mem, proc, promise>>
      <4>1. SeatInv'
        BY <1>0, <1>1, <1>2, <1>4, <3>1 DEF WriteAuth, AtItsWork
      <4> QED
        BY <3>1, <4>1 DEF MemInv, RestInv
    <3>2. CASE Finish(s, mem[host], FALSE)
      <4>1. FALSE \in BOOLEAN
        OBVIOUS
      <4> QED
        BY <1>0, <3>2, <4>1, FinishSound
    <3> QED
      BY <2>1, <3>1, <3>2
  <2> QED
    BY <1>4, <2>2, <2>3 DEF WriteAuth, FileInv, RestInv
<1>5. CASE ReadBack(s)
  <2> DEFINE found == homes[id]
  <2>1. MemInv' /\ SeatInv' /\ promise' \in [AccountIds -> Claims]
    <3>1. CASE found = MissingAuth
      <4>1. Finish(s, mem[host], FALSE) /\ FALSE \in BOOLEAN
        BY <1>5, <3>1 DEF ReadBack
      <4> QED
        BY <1>0, <4>1, FinishSound
    <3>2. CASE found # MissingAuth
      <4> DEFINE t == [r EXCEPT !.pc = "upsert", !.found = found]
      <4>1. seat' = [seat EXCEPT ![s] = t] /\ UNCHANGED <<mem, proc, promise>>
        BY <1>5, <3>2 DEF ReadBack
      <4>2. r.job.op = "import"
        BY <1>0, <1>2, <1>5 DEF ReadBack, AtItsWork
      <4>3. t \in Seat /\ t.pc = "upsert" /\ t.job = r.job /\ t.found = found
        BY <1>0, <3>2 DEF Worker, Seat, WorkPcs
      <4>4. t \in Worker
        BY <3>2, <4>2, <4>3 DEF Worker, AtItsWork
      <4> HIDE DEF t
      <4>5. SeatInv'
        BY <4>1, <4>4, SeatsStay
      <4> QED
        BY <4>1, <4>5 DEF MemInv, RestInv
    <3> QED
      BY <3>1, <3>2
  <2> QED
    BY <1>5, <2>1 DEF ReadBack, FileInv, RestInv
<1>6. ASSUME NEW s1, Sound(s1), UpdateAndFinish(s, s1)
      PROVE  FileInv' /\ MemInv' /\ SeatInv' /\ promise' \in [AccountIds -> Claims]
  <2>1. PICK ok \in Writes : Save(s1, ok) /\ Finish(s, s1, ok)
    BY <1>6 DEF UpdateAndFinish
  <2>2. ok \in BOOLEAN
    BY DEF Writes
  <2> QED
    BY <1>6, <2>1, <2>2, SaveSound, FinishSound
<1>7. CASE Register(s)
  <2>1. r.found \in Identities
    BY <1>0, <1>2, <1>7 DEF Register, AtStore, AtItsWork
  <2>2. Sound(UpsertAccount(mem[host], id, r.found))
    BY <1>0, <2>1, UpsertSound
  <2>3. FileInv' /\ MemInv' /\ SeatInv' /\ promise' \in [AccountIds -> Claims]
    BY <1>6, <1>7, <2>2 DEF Register
  <2> QED
    BY <1>7, <2>3 DEF Register, RestInv
<1>8. CASE RemoveHome(s)
  <2> DEFINE u == [t \in Seats |->
                     IF t = s THEN [r EXCEPT !.pc = "forget"]
                     ELSE IF seat[t].pc = "write" /\ seat[t].job.id = id
                     THEN [seat[t] EXCEPT !.pc = "load"] ELSE seat[t]]
  <2>1. /\ \/ seat' = u /\ homes' = [homes EXCEPT ![id] = MissingAuth]
           \/ Go(s, "forget") /\ UNCHANGED homes
        /\ leftover' \in {leftover \ {id}, leftover \cup {id}}
        /\ r.pc = "rmhome"
    BY <1>2, <1>8 DEF RemoveHome
  <2>2. \A t \in Seats : u[t] \in Worker
    <3> SUFFICES ASSUME NEW t \in Seats
                 PROVE  u[t] \in Worker
      OBVIOUS
    <3>1. seat[t] \in Worker
      BY DEF SeatInv
    <3>2. CASE t = s
      <4> DEFINE w == [r EXCEPT !.pc = "forget"]
      <4>1. w \in Seat /\ w.pc = "forget" /\ w.job = r.job
        BY <1>0, AtStep DEF WorkPcs
      <4>2. w \in Worker
        BY <1>0, <2>1, <4>1 DEF Worker, AtItsWork
      <4> QED
        BY <3>2, <4>2
    <3>3. CASE t # s /\ seat[t].pc = "write" /\ seat[t].job.id = id
      <4> DEFINE w == [seat[t] EXCEPT !.pc = "load"]
      <4>1. w \in Seat /\ w.pc = "load" /\ w.job = seat[t].job
        BY <3>1, AtStep DEF WorkPcs
      <4>2. w \in Worker
        BY <3>1, <3>3, <4>1 DEF Worker, AtItsWork
      <4> QED
        BY <3>3, <4>2
    <3>4. CASE t # s /\ ~(seat[t].pc = "write" /\ seat[t].job.id = id)
      BY <3>1, <3>4
    <3> QED
      BY <3>2, <3>3, <3>4
  <2> HIDE DEF u
  <2>3. SeatInv'
    <3>1. CASE seat' = u
      BY <2>2, <3>1 DEF SeatInv, u
    <3>2. CASE Go(s, "forget")
      BY <1>0, <1>1, <2>1, <3>2 DEF AtItsWork
    <3> QED
      BY <2>1, <3>1, <3>2
  <2>4. homes' \in [AccountIds -> Identities \cup {MissingAuth}]
    BY <1>0, <2>1
  <2>5. leftover' \subseteq AccountIds
    BY <1>0, <2>1 DEF RestInv
  <2> QED
    BY <1>8, <2>3, <2>4, <2>5 DEF RemoveHome, FileInv, MemInv, RestInv
<1>9. CASE Forget(s)
  <2>1. FileInv' /\ MemInv' /\ SeatInv' /\ promise' \in [AccountIds -> Claims]
    <3>1. CASE id \in Known(mem[host])
      BY <1>0, <1>6, <1>9, <3>1, RemoveSound DEF Forget
    <3>2. CASE id \notin Known(mem[host])
      <4>1. Finish(s, mem[host], FALSE) /\ UNCHANGED file /\ FALSE \in BOOLEAN
        BY <1>9, <3>2 DEF Forget
      <4> QED
        BY <1>0, <4>1, FinishSound DEF FileInv
    <3> QED
      BY <3>1, <3>2
  <2> QED
    BY <1>9, <2>1 DEF Forget, RestInv
<1>10. CASE LookUpPin(s)
  <2>1. MemInv' /\ SeatInv' /\ promise' \in [AccountIds -> Claims]
    <3>1. CASE id \in Known(mem[host])
      <4>1. Go(s, "pin") /\ UNCHANGED <<mem, proc, promise>> /\ r.pc = "lookup"
        BY <1>2, <1>10, <3>1 DEF LookUpPin, AtStore
      <4>2. SeatInv'
        BY <1>0, <1>1, <4>1 DEF AtItsWork
      <4> QED
        BY <4>1, <4>2 DEF MemInv, RestInv
    <3>2. CASE id \notin Known(mem[host])
      <4>1. Finish(s, mem[host], FALSE) /\ FALSE \in BOOLEAN
        BY <1>10, <3>2 DEF LookUpPin
      <4> QED
        BY <1>0, <4>1, FinishSound
    <3> QED
      BY <3>1, <3>2
  <2> QED
    BY <1>10, <2>1 DEF LookUpPin, FileInv, RestInv
<1>11. CASE StorePin(s)
  <2>1. PICK pin \in AccountIds \cup {NoAccount} :
          UpdateAndFinish(s, [mem[host] EXCEPT !.pinned = pin])
    BY <1>0, <1>11 DEF StorePin
  <2>2. FileInv' /\ MemInv' /\ SeatInv' /\ promise' \in [AccountIds -> Claims]
    BY <1>0, <1>6, <2>1, PinSound
  <2> QED
    BY <1>11, <2>2 DEF StorePin, RestInv
<1> QED
  BY <1>3, <1>4, <1>5, <1>7, <1>8, <1>9, <1>10, <1>11 DEF Work

\* The commands.
LEMMA CommandStaysSound ==
  ASSUME SoundInv, NEW c \in Commands,
         \/ StartCommand(c) \/ WorkHere(c) \/ AskProxy(c) \/ ProxyUnavailable(c)
         \/ ReadAnswer(c) \/ DropAnswer(c) \/ KillCommand(c)
  PROVE  SoundInv'
<1> USE DEF SoundInv
<1> DEFINE own   == seat[Own(c)]
           proxy == seat[InProxy(c)]
           job   == own.job
<1>0. /\ Own(c) \in Seats /\ InProxy(c) \in Seats /\ Own(c) # InProxy(c)
      /\ c \in Processes /\ c # Proxy
      /\ own \in Worker /\ proxy \in Worker /\ job \in Job /\ proxy.job \in Job
      /\ contested \subseteq Commands
  <2>1. /\ Own(c) \in Seats /\ InProxy(c) \in Seats /\ Own(c) # InProxy(c)
        /\ c \in Processes /\ c # Proxy
    BY SeatsOfCommands
  <2>2. own \in Worker /\ proxy \in Worker
    BY <2>1 DEF SeatInv
  <2> QED
    BY <2>1, <2>2, SeatFields DEF RestInv
<1>1. First(job.op) \in WorkPcs
  BY <1>0, FirstOfOperation DEF WorkPcs
<1>2. ASSUME Start(c)
      PROVE  SeatInv'
  <2> DEFINE t == [own EXCEPT !.pc = First(job.op)]
  <2>1. t \in Seat /\ t.pc = First(job.op) /\ t.job = job
    BY <1>0, <1>1, AtStep
  <2>2. t \in Worker
    BY <1>0, <2>1, FirstOfOperation DEF Worker, AtItsWork
  <2>3. seat' = [seat EXCEPT ![Own(c)] = t]
    BY <1>2 DEF Start
  <2> HIDE DEF t
  <2> QED
    BY <1>0, <2>2, <2>3, SeatsStay
<1>3. ASSUME Close(c), Give(c)
      PROVE  MemInv' /\ SeatInv'
  BY <1>0, <1>3, CloseSound, GiveSound
<1>4. CASE StartCommand(c)
  <2>1. PICK j \in setup.jobs[c] :
          /\ seat' = [seat EXCEPT ![Own(c)] = [Free EXCEPT !.pc = "open", !.job = j]]
          /\ promise' = Unclaim(promise, j)
          /\ contested' = IF Rivals(j) = {} THEN contested \ {c}
                          ELSE contested \cup Rivals(j) \cup {c}
    BY <1>4 DEF StartCommand
  <2>2. j \in Job
    BY StoreFilesAssumption DEF RestInv, Setup
  <2>3. SeatInv'
    <3> DEFINE t == [Free EXCEPT !.pc = "open", !.job = j]
    <3>1. t \in Worker
      <4>1. t \in Seat /\ t.pc = "open"
        BY <2>2, FreeWorker DEF Worker, Seat
      <4> QED
        BY <4>1 DEF Worker, AtItsWork
    <3> HIDE DEF t
    <3> QED
      BY <1>0, <2>1, <3>1, SeatsStay DEF t
  <2>4. promise' \in [AccountIds -> Claims]
    BY <2>1, <2>2, ClaimsTyped DEF RestInv
  <2>5. contested' \subseteq Commands
    BY <1>0, <2>1 DEF Rivals
  <2> QED
    BY <1>4, <2>3, <2>4, <2>5 DEF StartCommand, FileInv, MemInv, RestInv
<1>5. CASE WorkHere(c)
  BY <1>2, <1>5 DEF WorkHere, FileInv, MemInv, RestInv
<1>6. CASE AskProxy(c)
  <2> DEFINE t == [Free EXCEPT !.pc = First(job.op), !.job = job]
             w == [own EXCEPT !.pc = "wait"]
  <2>1. /\ seat' = [seat EXCEPT ![Own(c)] = w, ![InProxy(c)] = t]
        /\ served' = Unclaim(served, job)
    BY <1>0, <1>6 DEF AskProxy, SeatInv
  <2>2. t \in Worker
    <3>1. t \in Seat /\ t.pc = First(job.op) /\ t.job = job
      BY <1>0, <1>1, FreeWorker DEF Worker, Seat
    <3> QED
      BY <1>0, <3>1, FirstOfOperation DEF Worker, AtItsWork
  <2>3. w \in Worker
    <3>1. w \in Seat /\ w.pc = "wait"
      BY <1>0, AtStep
    <3> QED
      BY <3>1 DEF Worker, AtItsWork
  <2> HIDE DEF t, w
  <2>4. SeatInv'
    BY <1>0, <2>1, <2>2, <2>3 DEF SeatInv
  <2>5. served' \in [AccountIds -> Claims]
    BY <1>0, <2>1, ClaimsTyped DEF RestInv
  <2> QED
    BY <1>6, <2>4, <2>5 DEF AskProxy, FileInv, MemInv, RestInv
<1>7. CASE ProxyUnavailable(c)
  <2>1. MemInv' /\ SeatInv'
    <3>1. CASE job.mode = "auto"
      BY <1>2, <1>7, <3>1 DEF ProxyUnavailable, MemInv
    <3>2. CASE job.mode # "auto"
      BY <1>3, <1>7, <3>2 DEF ProxyUnavailable
    <3> QED
      BY <3>1, <3>2
  <2>2. contested' \subseteq Commands
    BY <1>0, <1>7 DEF ProxyUnavailable
  <2> QED
    BY <1>7, <2>1, <2>2 DEF ProxyUnavailable, FileInv, RestInv
<1>8. CASE ReadAnswer(c)
  <2>1. SeatInv'
    BY <1>0, <1>8, FreeWorker DEF ReadAnswer, SeatInv
  <2>2. MemInv'
    BY <1>0, <1>8, CloseSound DEF ReadAnswer
  <2>3. promise' \in [AccountIds -> Claims] /\ served' \in [AccountIds -> Claims]
    <3>1. /\ promise' = IF proxy.ok THEN Acknowledge(promise, c, proxy.job) ELSE promise
          /\ served'  = IF proxy.ok THEN Acknowledge(served, c, proxy.job) ELSE served
      BY <1>8 DEF ReadAnswer
    <3> QED
      BY <1>0, <3>1, ClaimsTyped DEF RestInv
  <2> QED
    BY <1>8, <2>1, <2>2, <2>3 DEF ReadAnswer, FileInv, RestInv
<1>9. CASE DropAnswer(c)
  <2>1. SeatInv'
    BY <1>0, <1>9, FreeWorker DEF DropAnswer, SeatInv
  <2> QED
    BY <1>9, <2>1 DEF DropAnswer, FileInv, MemInv, RestInv
<1>10. CASE KillCommand(c)
  BY <1>3, <1>10 DEF KillCommand, FileInv, RestInv
<1> QED
  BY <1>4, <1>5, <1>6, <1>7, <1>8, <1>9, <1>10

\* The proxy is killed, or the user edits config.toml.
LEMMA KillProxyStaysSound ==
  ASSUME SoundInv, KillProxy
  PROVE  SoundInv'
<1> USE DEF SoundInv
<1>1. Proxy \in Processes
  BY DEF Processes
<1>2. MemInv'
  BY <1>1, CloseSound DEF KillProxy
<1>3. SeatInv'
  BY FreeWorker DEF KillProxy, SeatInv
<1>4. Off \in Reloader
  <2>1. NoConfig \in Config /\ Defaults \in SettingsChoices
    BY StoreFilesAssumption DEF Config
  <2> QED
    BY <2>1 DEF Off, Reloader
<1>5. served' \in [AccountIds -> Claims]
  BY DEF KillProxy, Claims
<1> QED
  BY <1>2, <1>3, <1>4, <1>5 DEF KillProxy, FileInv, RestInv

\* No step leaves the first layer.
LEMMA StepStaysSound == SoundInv /\ [Next]_vars => SoundInv'
<1> SUFFICES ASSUME SoundInv, [Next]_vars
             PROVE  SoundInv'
  OBVIOUS
<1>1. CASE \E p \in Processes : Open(p)
  BY <1>1, OpenStaysSound
<1>2. CASE \E s \in Seats : Work(s)
  BY <1>2, WorkStaysSound
<1>3. CASE \E c \in Commands : \/ StartCommand(c) \/ WorkHere(c) \/ AskProxy(c)
                               \/ ProxyUnavailable(c) \/ ReadAnswer(c) \/ DropAnswer(c)
                               \/ KillCommand(c)
  BY <1>3, CommandStaysSound
<1>4. CASE Reload
  BY <1>4, ReloadStaysSound
<1>5. CASE KillProxy
  BY <1>5, KillProxyStaysSound
<1>6. CASE Edit
  <2>1. config' \in Config
    BY <1>6, StoreFilesAssumption DEF Edit, SoundInv, RestInv, Setup
  <2> QED
    BY <1>6, <2>1 DEF Edit, SoundInv, FileInv, MemInv, SeatInv, RestInv
<1>7. CASE UNCHANGED vars
  BY <1>7 DEF vars, SoundInv, FileInv, MemInv, SeatInv, RestInv
<1> QED
  BY <1>1, <1>2, <1>3, <1>4, <1>5, <1>6, <1>7 DEF Next

\* The state directory a first process finds.
LEMMA InitSound == Init => SoundInv
<1> SUFFICES ASSUME Init
             PROVE  SoundInv
  OBVIOUS
<1>1. Off \in Reloader
  <2>1. NoConfig \in Config /\ Defaults \in SettingsChoices
    BY StoreFilesAssumption DEF Config
  <2> QED
    BY <2>1 DEF Off, Reloader
<1>2. setup \in Setup /\ setup.config \in Config /\ setup.edits \subseteq Config
  BY StoreFilesAssumption DEF Init, Setup
<1>3. RestInv
  BY <1>1, <1>2 DEF Init, RestInv, Claims
<1>4. FileInv
  BY EmptySound DEF Init, FileInv
<1>5. MemInv
  <2>1. Empty \in StoreFile
    BY EmptySound DEF Sound
  <2> QED
    BY <2>1, EmptySound DEF Init, MemInv, Stages, Processes
<1>6. SeatInv
  BY FreeWorker DEF Init, SeatInv
<1> QED
  BY <1>3, <1>4, <1>5, <1>6 DEF SoundInv

\* The first layer, in every reachable state of any number of processes (store.go).
THEOREM StoresInvariant == Spec => []SoundInv
BY InitSound, StepStaysSound, PTL DEF Spec

-----------------------------------------------------------------------------
(***************************************************************************)
(* What the answers say stays true.                                        *)
(***************************************************************************)

\* The seat s is at work on a command that changes the account id; the command c is.
Claimant(s, id) == seat[s].pc # "free" /\ Changes(seat[s].job) /\ seat[s].job.id = id

\* The command c is at work on the account id, in its own process or in the proxy.
Working(c, id) == Claimant(Own(c), id) \/ Claimant(InProxy(c), id)

\* The account has no home, or its last removal failed.
Gone(id) == ~HasHome(id) \/ id \in leftover

\* A step that leaves the home of the account.
HomeStays(id) == (HasHome(id)' <=> HasHome(id)) /\ (Gone(id)' <=> Gone(id))

\* Commands that work on one account at the same time are contested, and so is a command
\* that works in both of its seats.
RivalsContested ==
  \A c, d \in Commands : \A id \in AccountIds :
    c # d /\ Working(c, id) /\ Working(d, id) => c \in contested

\* A command that was asked of the proxy and is carried out by its own process all the same.
BothSeatsContested ==
  \A c \in Commands :
    seat[InProxy(c)].pc # "free" /\ seat[Own(c)].pc \notin {"free", "wait"} => c \in contested

\* What an uncontested command found in its home, or left there, is still so.
HomeAsLeft(s) ==
  s[1] \notin contested =>
    /\ seat[s].pc = "upsert" => HasHome(seat[s].job.id)
    /\ seat[s].pc = "forget" => Gone(seat[s].job.id)
    /\ seat[s].pc = "done" /\ seat[s].ok =>
         /\ seat[s].job.op = "import" => HasHome(seat[s].job.id)
         /\ seat[s].job.op = "rm" => Gone(seat[s].job.id)

\* What an uncontested command did to the proxy's store is still so.
PoolAsLeft(c) ==
  seat[InProxy(c)].pc = "done" /\ seat[InProxy(c)].ok /\ c \notin contested =>
    /\ seat[InProxy(c)].job.op = "import" => seat[InProxy(c)].job.id \in Known(mem[Proxy])
    /\ seat[InProxy(c)].job.op = "rm" => seat[InProxy(c)].job.id \notin Known(mem[Proxy])

\* Nothing is claimed of an account while a command changes it.
Unclaimed(s) ==
  \A id \in AccountIds : Claimant(s, id) =>
    promise[id] = "either" /\ (s[2] = "proxy" => served[id] = "either")

\* The homes are as the answers say.
PromisesKept ==
  \A id \in AccountIds :
    /\ promise[id] = "present" => HasHome(id)
    /\ promise[id] = "absent" => Gone(id)

\* A proxy that is not up works for nobody and has answered nobody.
ProxyDown ==
  proc[Proxy] # "up" =>
    /\ \A c \in Commands : seat[InProxy(c)].pc = "free"
    /\ \A id \in AccountIds : served[id] = "either"

\* What the answers rest on.
ClaimsInv ==
  /\ RivalsContested /\ BothSeatsContested
  /\ \A s \in Seats : HomeAsLeft(s) /\ Unclaimed(s)
  /\ \A c \in Commands : PoolAsLeft(c)
  /\ PromisesKept /\ ProxyKeepsAnswers /\ ProxyDown

\* The inductive invariant.
IInv == SoundInv /\ ClaimsInv

\* Of two seats at work on one account, neither of which waits for the proxy, both belong
\* to contested commands.
LEMMA TwoAtWork ==
  ASSUME ClaimsInv, NEW s \in Seats, NEW t \in Seats, s # t, NEW id \in AccountIds,
         Claimant(s, id), Claimant(t, id), seat[s].pc # "wait", seat[t].pc # "wait"
  PROVE  s[1] \in contested
<1>1. /\ s[1] \in Commands /\ t[1] \in Commands
      /\ s = Own(s[1]) \/ s = InProxy(s[1])
      /\ t = Own(t[1]) \/ t = InProxy(t[1])
  BY SeatsOfCommands
<1>2. CASE s[1] # t[1]
  BY <1>1, <1>2 DEF ClaimsInv, RivalsContested, Working
<1>3. CASE s[1] = t[1]
  BY <1>1, <1>3 DEF ClaimsInv, BothSeatsContested, Claimant
<1> QED
  BY <1>2, <1>3

\* Nobody touches the homes.
LEMMA HomesStay ==
  ASSUME UNCHANGED <<homes, leftover>>
  PROVE  \A id \in AccountIds : HomeStays(id)
BY DEF HomeStays, Gone, HasHome

\* A step of the work in the seat s: it changes homes, and the proxy's list, only at the
\* account it works on.  Others at work on that account are contested, so nothing that was
\* said or seen of it counts.
LEMMA WorkKeepsClaims ==
  ASSUME IInv, NEW s \in Seats,
         seat[s].pc # "free", seat'[s].pc # "free", seat'[s].job = seat[s].job,
         \A t \in Seats : t # s =>
           \/ seat'[t] = seat[t]
           \/ seat[t].pc = "write" /\ seat'[t].pc = "load" /\ seat'[t].job = seat[t].job,
         \A id \in AccountIds : HomeStays(id) \/ (Claimant(s, id) /\ seat[s].pc # "wait"),
         \A id \in AccountIds :
           \/ id \in Known(mem[Proxy])' <=> id \in Known(mem[Proxy])
           \/ Claimant(s, id) /\ seat[s].pc # "wait" /\ s[2] = "proxy",
         UNCHANGED <<promise, served>>, proc'[Proxy] = proc[Proxy],
         contested \subseteq contested',
         s[2] = "own" /\ seat[s].pc = "wait" /\ seat[InProxy(s[1])].pc # "free"
           => s[1] \in contested',
         HomeAsLeft(s)', s[2] = "proxy" => PoolAsLeft(s[1])'
  PROVE  ClaimsInv'
<1> USE DEF IInv, ClaimsInv
<1>0. /\ \A t \in Seats : /\ t[1] \in Commands /\ seat[t] \in Worker
                          /\ seat[t].job.id \in AccountIds
                          /\ t = Own(t[1]) \/ t = InProxy(t[1])
                          /\ t[2] = "own" <=> t = Own(t[1])
                          /\ t[2] = "proxy" <=> t = InProxy(t[1])
      /\ \A c \in Commands : /\ Own(c) \in Seats /\ InProxy(c) \in Seats /\ Own(c) # InProxy(c)
                             /\ Own(c)[1] = c /\ InProxy(c)[1] = c
                             /\ Own(c)[2] = "own" /\ InProxy(c)[2] = "proxy"
  <2>1. \A t \in Seats : seat[t] \in Worker
    BY DEF SoundInv, SeatInv
  <2> QED
    BY <2>1, SeatsOfCommands, SeatFields
<1>1. \A t \in Seats : seat'[t].job = seat[t].job /\ (seat'[t].pc = "free" <=> seat[t].pc = "free")
  OBVIOUS
<1>2. \A t \in Seats : \A id \in AccountIds : Claimant(t, id)' <=> Claimant(t, id)
  BY <1>1 DEF Claimant
<1>3. RivalsContested'
  <2>1. \A c \in Commands : \A id \in AccountIds : Working(c, id)' <=> Working(c, id)
    BY <1>0, <1>2 DEF Working
  <2> QED
    BY <2>1 DEF RivalsContested
<1>4. BothSeatsContested'
  <2> SUFFICES ASSUME NEW c \in Commands, seat'[InProxy(c)].pc # "free",
                      seat'[Own(c)].pc \notin {"free", "wait"}
               PROVE  c \in contested'
    BY DEF BothSeatsContested
  <2>1. seat[InProxy(c)].pc # "free" /\ seat[Own(c)].pc # "free"
    BY <1>0, <1>1
  <2>2. CASE seat[Own(c)].pc # "wait"
    BY <2>1, <2>2 DEF BothSeatsContested
  <2>3. CASE seat[Own(c)].pc = "wait"
    <3>1. Own(c) = s
      BY <1>0, <2>3
    <3> QED
      BY <1>0, <2>1, <2>3, <3>1
  <2> QED
    BY <2>2, <2>3
<1>5. ASSUME NEW t \in Seats, t # s, t[1] \notin contested', seat'[t].pc \in {"upsert", "forget", "done"},
             seat'[t].job.op \in {"import", "rm"}
      PROVE  /\ seat'[t] = seat[t] /\ t[1] \notin contested
             /\ ~(Claimant(s, seat[t].job.id) /\ seat[s].pc # "wait")
  <2>1. seat'[t] = seat[t] /\ t[1] \notin contested
    BY <1>5
  <2>2. Claimant(t, seat[t].job.id)
    BY <1>5, <2>1 DEF Claimant, Changes
  <2> QED
    BY <1>0, <1>5, <2>1, <2>2, TwoAtWork
<1>6. ASSUME NEW t \in Seats
      PROVE  HomeAsLeft(t)'
  <2>1. CASE t = s
    BY <2>1
  <2>2. CASE t # s
    <3> SUFFICES ASSUME t[1] \notin contested'
                 PROVE  /\ seat'[t].pc = "upsert" => HasHome(seat[t].job.id)'
                        /\ seat'[t].pc = "forget" => Gone(seat[t].job.id)'
                        /\ seat'[t].pc = "done" /\ seat'[t].ok =>
                             /\ seat'[t].job.op = "import" => HasHome(seat[t].job.id)'
                             /\ seat'[t].job.op = "rm" => Gone(seat[t].job.id)'
      BY <1>1 DEF HomeAsLeft, HasHome, Gone
    <3>1. CASE seat'[t].pc \in {"upsert", "forget", "done"} /\ seat'[t].job.op \in {"import", "rm"}
      <4>1. /\ seat'[t] = seat[t] /\ t[1] \notin contested
            /\ HasHome(seat[t].job.id)' <=> HasHome(seat[t].job.id)
            /\ Gone(seat[t].job.id)' <=> Gone(seat[t].job.id)
        <5>1. /\ seat'[t] = seat[t] /\ t[1] \notin contested
              /\ HomeStays(seat[t].job.id)
          BY <1>0, <1>5, <2>2, <3>1
        <5> QED
          BY <5>1 DEF HomeStays, HasHome, Gone
      <4>2. HomeAsLeft(t)
        OBVIOUS
      <4> QED
        BY <4>1, <4>2 DEF HomeAsLeft
    <3>2. CASE ~(seat'[t].pc \in {"upsert", "forget", "done"} /\ seat'[t].job.op \in {"import", "rm"})
      <4>1. seat'[t].pc \in {"upsert", "forget"} => seat'[t] = seat[t] /\ seat[t].job.op \in {"import", "rm"}
        BY <1>0, <2>2, SeatFields DEF AtItsWork
      <4> QED
        BY <3>2, <4>1
    <3> QED
      BY <3>1, <3>2
  <2> QED
    BY <2>1, <2>2
<1>7. \A t \in Seats : Unclaimed(t)'
  BY <1>2 DEF Unclaimed
<1>8. ASSUME NEW c \in Commands
      PROVE  PoolAsLeft(c)'
  <2>1. CASE InProxy(c) = s
    BY <1>0, <2>1
  <2>2. CASE InProxy(c) # s
    <3> DEFINE t == InProxy(c)
    <3> SUFFICES ASSUME c \notin contested', seat'[t].pc = "done", seat'[t].ok
                 PROVE  /\ seat'[t].job.op = "import" => seat[t].job.id \in Known(mem[Proxy])'
                        /\ seat'[t].job.op = "rm" => seat[t].job.id \notin Known(mem[Proxy])'
      BY <1>0, <1>1 DEF PoolAsLeft
    <3>1. CASE seat'[t].job.op \in {"import", "rm"}
      <4>1. /\ seat'[t] = seat[t] /\ c \notin contested
            /\ seat[t].job.id \in Known(mem[Proxy])' <=> seat[t].job.id \in Known(mem[Proxy])
        BY <1>0, <1>5, <2>2, <3>1
      <4>2. PoolAsLeft(c)
        OBVIOUS
      <4> QED
        BY <4>1, <4>2 DEF PoolAsLeft
    <3>2. CASE seat'[t].job.op \notin {"import", "rm"}
      BY <3>2
    <3> QED
      BY <3>1, <3>2
  <2> QED
    BY <2>1, <2>2
<1>9. PromisesKept'
  <2>1. \A id \in AccountIds : Claimant(s, id) => promise[id] = "either"
    BY DEF Unclaimed
  <2> QED
    BY <2>1 DEF PromisesKept, HomeStays
<1>10. ProxyKeepsAnswers'
  <2>1. \A id \in AccountIds : Claimant(s, id) /\ s[2] = "proxy" => served[id] = "either"
    BY DEF Unclaimed
  <2> QED
    BY <2>1 DEF ProxyKeepsAnswers
<1>11. ProxyDown'
  BY <1>0, <1>1 DEF ProxyDown
<1> QED
  BY <1>3, <1>4, <1>6, <1>7, <1>8, <1>9, <1>10, <1>11

\* A seat becomes free, perhaps with a last change of its home; its command may have been
\* told that the work is done.
LEMMA EndKeepsClaims ==
  ASSUME IInv, NEW s \in Seats, seat' = [seat EXCEPT ![s] = Free],
         UNCHANGED served, mem'[Proxy] = mem[Proxy], proc'[Proxy] = proc[Proxy],
         contested \subseteq contested',
         \A id \in AccountIds : HomeStays(id) \/ (Claimant(s, id) /\ seat[s].pc # "wait"),
         \A id \in AccountIds :
           \/ promise'[id] = promise[id]
           \/ /\ Claimant(s, id) /\ s[2] = "own" /\ s[1] \notin contested /\ seat[s].pc # "wait"
              /\ promise'[id] = "present" => HasHome(id)'
              /\ promise'[id] = "absent" => Gone(id)'
  PROVE  ClaimsInv'
<1> USE DEF IInv, ClaimsInv
<1>0. /\ \A t \in Seats : /\ t[1] \in Commands
                          /\ t = Own(t[1]) \/ t = InProxy(t[1])
                          /\ t[2] = "own" <=> t = Own(t[1])
      /\ \A c \in Commands : Own(c) \in Seats /\ InProxy(c) \in Seats /\ Own(c) # InProxy(c)
                             /\ Own(c)[1] = c /\ InProxy(c)[1] = c
  BY SeatsOfCommands
<1>1. seat'[s].pc = "free" /\ \A t \in Seats : t # s => seat'[t] = seat[t]
  BY FreeWorker DEF SoundInv, SeatInv
<1>2. \A t \in Seats : \A id \in AccountIds : Claimant(t, id)' => t # s /\ Claimant(t, id)
  BY <1>1 DEF Claimant
<1>3. RivalsContested'
  <2>1. \A c \in Commands : \A id \in AccountIds : Working(c, id)' => Working(c, id)
    BY <1>0, <1>2 DEF Working
  <2> QED
    BY <2>1 DEF RivalsContested
<1>4. BothSeatsContested'
  BY <1>0, <1>1 DEF BothSeatsContested
<1>5. \A t \in Seats : HomeAsLeft(t)'
  <2> SUFFICES ASSUME NEW t \in Seats, t[1] \notin contested',
                      \/ seat'[t].pc \in {"upsert", "forget"}
                      \/ seat'[t].pc = "done" /\ seat'[t].job.op \in {"import", "rm"}
               PROVE  HomeAsLeft(t)'
    BY DEF HomeAsLeft
  <2>1. t # s /\ seat'[t] = seat[t] /\ HomeAsLeft(t) /\ t[1] \notin contested
    BY <1>1
  <2>2. seat[t] \in Worker
    BY DEF SoundInv, SeatInv
  <2>3. seat[t].job.id \in AccountIds /\ Claimant(t, seat[t].job.id)
    BY <2>1, <2>2, SeatFields DEF AtItsWork, Changes, Claimant
  <2>4. HomeStays(seat[t].job.id)
    BY <2>1, <2>3, TwoAtWork
  <2> QED
    BY <2>1, <2>4 DEF HomeAsLeft, HomeStays, HasHome, Gone
<1>6. ASSUME NEW t \in Seats, NEW id \in AccountIds, Claimant(t, id)'
      PROVE  promise'[id] = "either" /\ (t[2] = "proxy" => served'[id] = "either")
  <2>1. t # s /\ Claimant(t, id)
    BY <1>2, <1>6
  <2>2. promise[id] = "either" /\ (t[2] = "proxy" => served[id] = "either")
    BY <2>1 DEF Unclaimed
  <2>3. CASE promise'[id] = promise[id]
    BY <2>2, <2>3
  <2>4. CASE Claimant(s, id) /\ s[2] = "own" /\ s[1] \notin contested /\ seat[s].pc # "wait"
    <3>1. CASE t[1] # s[1]
      BY <1>0, <2>1, <2>4, <3>1 DEF RivalsContested, Working
    <3>2. CASE t[1] = s[1]
      <4>1. s = Own(s[1]) /\ t = InProxy(s[1])
        BY <1>0, <2>1, <2>4, <3>2
      <4> QED
        BY <1>0, <2>1, <2>4, <4>1 DEF BothSeatsContested, Claimant
    <3> QED
      BY <3>1, <3>2
  <2> QED
    BY <2>3, <2>4
<1>7. \A t \in Seats : Unclaimed(t)'
  BY <1>6 DEF Unclaimed
<1>8. \A c \in Commands : PoolAsLeft(c)'
  BY <1>0, <1>1 DEF PoolAsLeft
<1>9. PromisesKept'
  <2>1. \A id \in AccountIds : Claimant(s, id) => promise[id] = "either"
    BY DEF Unclaimed
  <2> QED
    BY <2>1 DEF PromisesKept, HomeStays
<1>10. ProxyKeepsAnswers' /\ ProxyDown'
  BY <1>0, <1>1 DEF ProxyKeepsAnswers, ProxyDown
<1> QED
  BY <1>3, <1>4, <1>5, <1>7, <1>8, <1>9, <1>10

\* A step that is not about any command; the proxy's store may change before it is up.
LEMMA OtherKeepsClaims ==
  ASSUME IInv, UNCHANGED <<homes, leftover, seat, promise, served, contested>>,
         \/ /\ Known(mem[Proxy])' = Known(mem[Proxy])
            /\ proc'[Proxy] = proc[Proxy]
         \/ proc[Proxy] # "up"
  PROVE  ClaimsInv'
<1> USE DEF IInv, ClaimsInv
<1>1. RivalsContested' /\ BothSeatsContested'
  BY DEF RivalsContested, BothSeatsContested, Working, Claimant
<1>2. \A s \in Seats : HomeAsLeft(s)' /\ Unclaimed(s)'
  <2> SUFFICES ASSUME NEW s \in Seats
               PROVE  HomeAsLeft(s)' /\ Unclaimed(s)'
    OBVIOUS
  <2>1. HomeAsLeft(s) /\ Unclaimed(s)
    OBVIOUS
  <2> QED
    BY <2>1 DEF HomeAsLeft, HasHome, Gone, Unclaimed, Claimant
<1>3. PromisesKept'
  BY DEF PromisesKept, HasHome, Gone
<1>4. (\A c \in Commands : PoolAsLeft(c)') /\ ProxyKeepsAnswers' /\ ProxyDown'
  <2>1. CASE Known(mem[Proxy])' = Known(mem[Proxy]) /\ proc'[Proxy] = proc[Proxy]
    BY <2>1 DEF PoolAsLeft, ProxyKeepsAnswers, ProxyDown
  <2>2. CASE proc[Proxy] # "up"
    BY <2>2 DEF PoolAsLeft, ProxyKeepsAnswers, ProxyDown
  <2> QED
    BY <2>1, <2>2
<1> QED
  BY <1>1, <1>2, <1>3, <1>4

\* OpenStore: a command whose store cannot be opened ends.
LEMMA OpenKeepsClaims ==
  ASSUME IInv, NEW p \in Processes, Open(p)
  PROVE  ClaimsInv'
<1>1. UNCHANGED <<homes, leftover, promise, served, contested>>
  BY DEF Open, ReadStore, ReadConfig, NameConfig, FillConfig, Reconcile, WriteStore
<1>2. CASE p = Proxy
  <2>1. proc[Proxy] # "up"
    BY <1>2 DEF Open, ReadStore, ReadConfig, NameConfig, FillConfig, Reconcile, WriteStore
  <2>2. UNCHANGED seat
    BY <1>2 DEF Open, ReadStore, ReadConfig, NameConfig, FillConfig, Reconcile, WriteStore, Give
  <2> QED
    BY <1>1, <2>1, <2>2, OtherKeepsClaims
<1>3. CASE p # Proxy
  <2>1. mem'[Proxy] = mem[Proxy] /\ proc'[Proxy] = proc[Proxy]
    BY <1>3, SeatsOfCommands
       DEF Open, ReadStore, ReadConfig, NameConfig, FillConfig, Reconcile, WriteStore, To, Close,
           IInv, SoundInv, MemInv
  <2>2. UNCHANGED seat \/ seat' = [seat EXCEPT ![Own(p)] = Free]
    BY <1>3 DEF Open, ReadStore, ReadConfig, NameConfig, FillConfig, Reconcile, WriteStore, Give
  <2>3. Own(p) \in Seats
    BY <1>3, SeatsOfCommands DEF Processes
  <2>4. CASE UNCHANGED seat
    BY <1>1, <2>1, <2>4, OtherKeepsClaims
  <2>5. CASE seat' = [seat EXCEPT ![Own(p)] = Free]
    BY <1>1, <2>1, <2>3, <2>5, HomesStay, EndKeepsClaims
  <2> QED
    BY <2>2, <2>4, <2>5
<1> QED
  BY <1>2, <1>3

\* The reloader changes settings only.
LEMMA ReloadKeepsClaims ==
  ASSUME IInv, Reload
  PROVE  ClaimsInv'
<1>1. UNCHANGED <<homes, leftover, seat, promise, served, contested, proc>>
  BY DEF Reload, StartReloader, ReadDigest, ReadChange, NameChange, FillChange, PersistChange
<1>2. mem[Proxy] \in StoreFile /\ Proxy \in Processes /\ DOMAIN mem = Processes
  BY SeatsOfCommands DEF IInv, SoundInv, MemInv
<1>3. mem' = mem \/ \E settings : mem' = [mem EXCEPT ![Proxy].settings = settings]
  BY DEF Reload, StartReloader, ReadDigest, ReadChange, NameChange, FillChange, PersistChange
<1>4. mem'[Proxy].accounts = mem[Proxy].accounts
  BY <1>2, <1>3 DEF StoreFile
<1>5. Known(mem[Proxy])' = Known(mem[Proxy])
  BY <1>4 DEF Known
<1> QED
  BY <1>1, <1>5, OtherKeepsClaims

\* An editor changes config.toml only.
LEMMA EditKeepsClaims ==
  ASSUME IInv, Edit \/ UNCHANGED vars
  PROVE  ClaimsInv'
<1>1. UNCHANGED <<homes, leftover, mem, proc, seat, promise, served, contested>>
  BY DEF Edit, vars
<1> QED
  BY <1>1, OtherKeepsClaims

\* The work ends.  If it was done, and nobody else worked on the account, then home and
\* store are as the answer says.
LEMMA FinishKeepsClaims ==
  ASSUME IInv, NEW s \in Seats, seat[s].pc \in WorkPcs, NEW s1, NEW ok \in BOOLEAN,
         Finish(s, s1, ok), UNCHANGED <<served, contested>>,
         ok => UNCHANGED <<homes, leftover>>,
         \A id \in AccountIds : HomeStays(id) \/ Claimant(s, id),
         \A id \in AccountIds :
           (id \in Known(s1) <=> id \in Known(mem[Host(s)])) \/ Claimant(s, id),
         ok /\ s[1] \notin contested =>
           /\ seat[s].job.op = "import" => HasHome(seat[s].job.id) /\ seat[s].job.id \in Known(s1)
           /\ seat[s].job.op = "rm" => Gone(seat[s].job.id) /\ seat[s].job.id \notin Known(s1)
  PROVE  ClaimsInv'
<1> DEFINE r == seat[s]
<1>0. /\ r \in Worker /\ r.job \in Job /\ r.job.id \in AccountIds
      /\ r.pc \notin {"free", "wait"}
      /\ s[1] \in Processes /\ s[1] # Proxy
  <2>1. r \in Worker
    BY DEF IInv, SoundInv, SeatInv
  <2> QED
    BY <2>1, SeatFields, SeatsOfCommands DEF WorkPcs
<1>1. CASE s[2] = "own"
  <2>1. /\ seat' = [seat EXCEPT ![s] = Free]
        /\ mem'[Proxy] = mem[Proxy] /\ proc'[Proxy] = proc[Proxy]
        /\ promise' = IF ok THEN Acknowledge(promise, s[1], r.job) ELSE promise
    <3>1. To(s[1], "down", Empty)
      BY <1>1 DEF Finish
    <3>2. mem'[Proxy] = mem[Proxy] /\ proc'[Proxy] = proc[Proxy]
      BY <1>0, <3>1, SeatsOfCommands DEF To, IInv, SoundInv, MemInv
    <3> QED
      BY <1>1, <3>2 DEF Finish
  <2>2. ASSUME NEW id \in AccountIds, promise'[id] # promise[id]
        PROVE  /\ Claimant(s, id) /\ s[1] \notin contested
               /\ promise'[id] = "present" => HasHome(id)'
               /\ promise'[id] = "absent" => Gone(id)'
    <3>1. promise \in [AccountIds -> Claims]
      BY DEF IInv, SoundInv, RestInv
    <3>2. /\ ok /\ Changes(r.job) /\ s[1] \notin contested /\ id = r.job.id
          /\ promise'[id] = Claim(r.job)
      BY <1>0, <2>1, <2>2, <3>1, ClaimsTyped
    <3>3. \/ r.job.op = "import" /\ Claim(r.job) = "present"
          \/ r.job.op = "rm" /\ Claim(r.job) = "absent"
      BY <1>0, <3>1, <3>2, ClaimsTyped
    <3>4. HomeStays(id)
      BY <3>2, HomesStay
    <3> QED
      BY <1>0, <3>2, <3>3, <3>4 DEF Claimant, HomeStays
  <2> QED
    BY <1>0, <1>1, <2>1, <2>2, EndKeepsClaims
<1>2. CASE s[2] # "own"
  <2> DEFINE t == [r EXCEPT !.pc = "done", !.ok = ok, !.found = MissingAuth]
  <2>1. /\ seat' = [seat EXCEPT ![s] = t]
        /\ mem' = [mem EXCEPT ![Proxy] = s1] /\ UNCHANGED <<proc, promise>>
        /\ s[2] = "proxy" /\ s = InProxy(s[1]) /\ s[1] \in Commands
        /\ InProxy(s[1])[1] = s[1]
    <3>1. /\ seat' = [seat EXCEPT ![s] = t]
          /\ mem' = [mem EXCEPT ![Proxy] = s1] /\ UNCHANGED <<proc, promise>>
      BY <1>2 DEF Finish
    <3> HIDE DEF t
    <3> QED
      BY <1>2, <3>1, SeatsOfCommands
  <2>2. t \in Seat /\ t.pc = "done" /\ t.job = r.job /\ (t.ok <=> ok)
    BY <1>0 DEF Worker, Seat
  <2> HIDE DEF t
  <2>3. /\ seat'[s] = t /\ mem'[Proxy] = s1 /\ Host(s) = Proxy
        /\ \A u \in Seats : u # s => seat'[u] = seat[u]
    BY <2>1, SeatsOfCommands DEF IInv, SoundInv, SeatInv, MemInv
  <2>5. HomeAsLeft(s)'
    <3>1. CASE ok
      BY <2>2, <2>3, <3>1 DEF HomeAsLeft, HasHome, Gone
    <3>2. CASE ~ok
      BY <2>2, <2>3, <3>2 DEF HomeAsLeft
    <3> QED
      BY <3>1, <3>2
  <2>6. PoolAsLeft(s[1])'
    BY <2>1, <2>2, <2>3 DEF PoolAsLeft
  <2>7. \A id \in AccountIds :
          \/ id \in Known(mem[Proxy])' <=> id \in Known(mem[Proxy])
          \/ Claimant(s, id) /\ seat[s].pc # "wait" /\ s[2] = "proxy"
    <3>1. Known(mem[Proxy])' = Known(s1)
      BY <2>3 DEF Known
    <3> QED
      BY <1>0, <2>1, <2>3, <3>1
  <2> QED
    BY <1>0, <2>1, <2>2, <2>3, <2>5, <2>6, <2>7, WorkKeepsClaims
<1> QED
  BY <1>1, <1>2

\* The steps of the work on a command, each at its own account.
LEMMA WorkActionsKeepClaims ==
  ASSUME IInv, NEW s \in Seats, Work(s)
  PROVE  ClaimsInv'
<1> DEFINE r == seat[s]
           id == r.job.id
           host == Host(s)
<1>0. /\ r \in Worker /\ r.job \in Job /\ id \in AccountIds /\ AtItsWork(r)
      /\ r.found \in Identities \cup {MissingAuth} /\ r.job.identity \in Identities
      /\ r.job.op \in {"import", "rm", "pin", "unpin"}
      /\ host \in Processes /\ Sound(mem[host])
      /\ homes \in [AccountIds -> Identities \cup {MissingAuth}]
      /\ \A pc : At(s, pc) <=> r.pc = pc
  <2>1. r \in Worker
    BY DEF IInv, SoundInv, SeatInv
  <2>2. host \in Processes /\ Sound(mem[host])
    BY SeatsOfCommands DEF IInv, SoundInv, MemInv
  <2>3. homes \in [AccountIds -> Identities \cup {MissingAuth}]
    BY DEF IInv, SoundInv, RestInv
  <2> QED
    BY <2>1, <2>2, <2>3, SeatFields DEF At
<1>1. r.pc \in WorkPcs /\ r.pc \notin {"free", "wait"}
  BY <1>0 DEF Work, TruncateAuth, WriteAuth, ReadBack, Register, RemoveHome, Forget, LookUpPin,
              StorePin, AtStore, WorkPcs
\* The home changes, which nobody has looked at since in this seat.
<1>2. ASSUME \A i \in AccountIds :
               i # id => homes'[i] = homes[i] /\ (i \in leftover' <=> i \in leftover),
             Changes(r.job),
             UNCHANGED <<mem, proc, promise, served, contested>>,
             seat'[s].job = r.job, seat'[s].pc \in {"write", "load", "forget"},
             seat'[s].pc = "forget" => homes'[id] = MissingAuth \/ id \in leftover',
             \A t \in Seats : t # s =>
               \/ seat'[t] = seat[t]
               \/ seat[t].pc = "write" /\ seat'[t].pc = "load" /\ seat'[t].job = seat[t].job
      PROVE  ClaimsInv'
  <2>2. Claimant(s, id)
    BY <1>1, <1>2 DEF Claimant
  <2>3. \A i \in AccountIds : HomeStays(i) \/ (Claimant(s, i) /\ r.pc # "wait")
    BY <1>1, <1>2, <2>2 DEF HomeStays, HasHome, Gone
  <2>4. HomeAsLeft(s)'
    BY <1>2 DEF HomeAsLeft, HasHome, Gone
  <2>5. s[2] = "proxy" => PoolAsLeft(s[1])'
    BY <1>2, SeatsOfCommands DEF PoolAsLeft
  <2>6. \A i \in AccountIds : i \in Known(mem[Proxy])' <=> i \in Known(mem[Proxy])
    BY <1>2 DEF Known
  <2> QED
    BY <1>1, <1>2, <2>3, <2>4, <2>5, <2>6, WorkKeepsClaims
\* Only the seat moves.
<1>3. ASSUME NEW t \in Worker, seat' = [seat EXCEPT ![s] = t],
             UNCHANGED <<homes, leftover, mem, proc, promise, served, contested>>,
             t.job = r.job, t.pc \in {"upsert", "pin"}, t.pc = "upsert" => HasHome(id)
      PROVE  ClaimsInv'
  <2>1. /\ seat'[s] = t
        /\ \A u \in Seats : u # s => seat'[u] = seat[u]
    BY <1>3 DEF IInv, SoundInv, SeatInv
  <2>2. HomeAsLeft(s)'
    BY <1>3, <2>1 DEF HomeAsLeft, HasHome
  <2>3. s[2] = "proxy" => PoolAsLeft(s[1])'
    BY <1>3, <2>1, SeatsOfCommands DEF PoolAsLeft
  <2>4. /\ \A i \in AccountIds : HomeStays(i)
        /\ \A i \in AccountIds : i \in Known(mem[Proxy])' <=> i \in Known(mem[Proxy])
    BY <1>3, HomesStay DEF Known
  <2> QED
    BY <1>1, <1>3, <2>1, <2>2, <2>3, <2>4, WorkKeepsClaims
\* The work ends with an error and changes at most the home.
<1>4. ASSUME Finish(s, mem[host], FALSE), UNCHANGED <<served, contested>>,
             \A i \in AccountIds : HomeStays(i) \/ Claimant(s, i)
      PROVE  ClaimsInv'
  <2>1. FALSE \in BOOLEAN
    OBVIOUS
  <2> QED
    BY <1>1, <1>4, <2>1, FinishKeepsClaims
<1>5. CASE TruncateAuth(s)
  <2> DEFINE t == [r EXCEPT !.pc = "write"]
  <2>1. t.job = r.job /\ t.pc = "write" /\ Changes(r.job)
    BY <1>0, <1>5, AtStep DEF TruncateAuth, AtItsWork, Changes, WorkPcs
  <2>2. seat' = [seat EXCEPT ![s] = t]
    BY <1>5 DEF TruncateAuth, Go
  <2> HIDE DEF t
  <2>3. seat'[s] = t /\ \A u \in Seats : u # s => seat'[u] = seat[u]
    BY <2>2 DEF IInv, SoundInv, SeatInv
  <2> QED
    BY <1>2, <1>5, <2>1, <2>3 DEF TruncateAuth
<1>6. CASE WriteAuth(s)
  <2> DEFINE t == [r EXCEPT !.pc = "load"]
  <2>1. t.job = r.job /\ t.pc = "load" /\ Changes(r.job)
    BY <1>0, <1>6, AtStep DEF WriteAuth, AtItsWork, Changes, WorkPcs
  <2>2. /\ \A i \in AccountIds : i # id => homes'[i] = homes[i]
        /\ UNCHANGED <<leftover, served, contested>>
        /\ \/ seat' = [seat EXCEPT ![s] = t] /\ UNCHANGED <<mem, proc, promise>>
           \/ Finish(s, mem[host], FALSE)
    BY <1>0, <1>6 DEF WriteAuth, Go
  <2> HIDE DEF t
  <2>3. CASE seat' = [seat EXCEPT ![s] = t] /\ UNCHANGED <<mem, proc, promise>>
    <3>1. seat'[s] = t /\ \A u \in Seats : u # s => seat'[u] = seat[u]
      BY <2>3 DEF IInv, SoundInv, SeatInv
    <3> QED
      BY <1>2, <2>1, <2>2, <2>3, <3>1
  <2>4. CASE Finish(s, mem[host], FALSE)
    <3>1. \A i \in AccountIds : i # id => HomeStays(i)
      BY <2>2 DEF HomeStays, HasHome, Gone
    <3>2. Claimant(s, id)
      BY <1>1, <2>1 DEF Claimant
    <3> QED
      BY <1>4, <2>2, <2>4, <3>1, <3>2
  <2> QED
    BY <2>2, <2>3, <2>4
<1>7. CASE ReadBack(s)
  <2> DEFINE found == homes[id]
             t == [r EXCEPT !.pc = "upsert", !.found = found]
  <2>1. CASE found = MissingAuth
    BY <1>4, <1>7, <2>1, HomesStay DEF ReadBack
  <2>2. CASE found # MissingAuth
    <3>1. seat' = [seat EXCEPT ![s] = t] /\ UNCHANGED <<mem, proc, promise>>
      BY <1>7, <2>2 DEF ReadBack
    <3>2. r.job.op = "import"
      BY <1>0, <1>7 DEF ReadBack, AtItsWork
    <3>3. t \in Seat /\ t.pc = "upsert" /\ t.job = r.job /\ t.found = found
      BY <1>0, <2>2 DEF Worker, Seat, WorkPcs
    <3>4. t \in Worker
      BY <2>2, <3>2, <3>3 DEF Worker, AtItsWork
    <3> HIDE DEF t
    <3> QED
      BY <1>3, <1>7, <2>2, <3>1, <3>3, <3>4 DEF ReadBack, HasHome
  <2> QED
    BY <2>1, <2>2
<1>8. CASE Register(s)
  <2> DEFINE s1 == UpsertAccount(mem[host], id, r.found)
  <2>1. r.pc = "upsert" /\ r.job.op = "import" /\ r.found \in Identities
    BY <1>0, <1>8 DEF Register, AtStore, AtItsWork
  <2>2. Known(s1) = Known(mem[host]) \cup {id}
    BY <1>0, <2>1, UpsertSound
  <2>3. PICK ok \in Writes : Finish(s, s1, ok)
    BY <1>8 DEF Register, UpdateAndFinish
  <2>4. ok \in BOOLEAN /\ UNCHANGED <<homes, leftover, served, contested>>
    BY <1>8 DEF Writes, Register
  <2> HIDE DEF s1
  <2>5. Claimant(s, id)
    BY <1>1, <2>1 DEF Claimant, Changes
  <2>6. s[1] \notin contested => HasHome(id)
    BY <2>1 DEF IInv, ClaimsInv, HomeAsLeft
  <2> QED
    BY <1>1, <2>1, <2>2, <2>3, <2>4, <2>5, <2>6, HomesStay, FinishKeepsClaims
<1>9. CASE RemoveHome(s)
  <2>1. Changes(r.job) /\ r.pc = "rmhome"
    BY <1>0, <1>9 DEF RemoveHome, AtItsWork, Changes
  <2> DEFINE emptied == [t \in Seats |->
                   IF t = s THEN [r EXCEPT !.pc = "forget"]
                   ELSE IF seat[t].pc = "write" /\ seat[t].job.id = id
                   THEN [seat[t] EXCEPT !.pc = "load"] ELSE seat[t]]
  <2>2. /\ \/ /\ seat' = emptied /\ leftover' = leftover \ {id}
              /\ homes' = [homes EXCEPT ![id] = MissingAuth]
           \/ /\ seat' = [seat EXCEPT ![s].pc = "forget"]
              /\ UNCHANGED homes /\ leftover' = leftover \cup {id}
        /\ UNCHANGED <<mem, proc, promise, served, contested>>
    BY <1>9 DEF RemoveHome, Go
  <2>3. seat'[s].pc = "forget" /\ seat'[s].job = r.job
    <3>1. seat'[s] = [r EXCEPT !.pc = "forget"]
      BY <2>2 DEF IInv, SoundInv, SeatInv
    <3> QED
      BY <1>0, <3>1, AtStep DEF WorkPcs
  <2>4. ASSUME NEW t \in Seats, t # s
        PROVE  \/ seat'[t] = seat[t]
               \/ seat[t].pc = "write" /\ seat'[t].pc = "load" /\ seat'[t].job = seat[t].job
    <3>1. seat[t] \in Worker
      BY DEF IInv, SoundInv, SeatInv
    <3> DEFINE w == [seat[t] EXCEPT !.pc = "load"]
    <3>2. seat'[t] = seat[t] \/ (seat[t].pc = "write" /\ seat'[t] = w)
      BY <2>2, <2>4 DEF IInv, SoundInv, SeatInv
    <3>3. w.pc = "load" /\ w.job = seat[t].job
      BY <3>1, AtStep DEF WorkPcs
    <3> HIDE DEF w
    <3> QED
      BY <3>2, <3>3
  <2> HIDE DEF emptied
  <2>5. /\ \A i \in AccountIds :
             i # id => homes'[i] = homes[i] /\ (i \in leftover' <=> i \in leftover)
        /\ homes'[id] = MissingAuth \/ id \in leftover'
    BY <1>0, <2>2
  <2> QED
    BY <1>2, <2>1, <2>2, <2>3, <2>4, <2>5
<1>10. CASE Forget(s)
  <2> DEFINE s1 == RemoveAccount(mem[host], id)
  <2>1. CASE id \notin Known(mem[host])
    BY <1>4, <1>10, <2>1, HomesStay DEF Forget
  <2>2. CASE id \in Known(mem[host])
    <3>1. r.pc = "forget" /\ r.job.op = "rm"
      BY <1>0, <1>10 DEF Forget, AtStore, AtItsWork
    <3>2. Known(s1) = Known(mem[host]) \ {id}
      BY <1>0, RemoveSound
    <3>3. PICK ok \in Writes : Finish(s, s1, ok)
      BY <1>10, <2>2 DEF Forget, UpdateAndFinish
    <3>4. ok \in BOOLEAN /\ UNCHANGED <<homes, leftover, served, contested>>
      BY <1>10 DEF Writes, Forget
    <3> HIDE DEF s1
    <3>5. Claimant(s, id)
      BY <1>1, <3>1 DEF Claimant, Changes
    <3>6. s[1] \notin contested => Gone(id)
      BY <3>1 DEF IInv, ClaimsInv, HomeAsLeft
    <3> QED
      BY <1>1, <3>1, <3>2, <3>3, <3>4, <3>5, <3>6, HomesStay, FinishKeepsClaims
  <2> QED
    BY <2>1, <2>2
<1>11. CASE LookUpPin(s)
  <2> DEFINE t == [r EXCEPT !.pc = "pin"]
  <2>1. CASE id \notin Known(mem[host])
    BY <1>4, <1>11, <2>1, HomesStay DEF LookUpPin
  <2>2. CASE id \in Known(mem[host])
    <3>1. seat' = [seat EXCEPT ![s] = t] /\ UNCHANGED <<mem, proc, promise>>
      BY <1>11, <2>2 DEF LookUpPin, Go
    <3>2. ~Changes(r.job)
      BY <1>0, <1>11 DEF LookUpPin, AtStore, AtItsWork
    <3>3. t \in Seat /\ t.pc = "pin" /\ t.job = r.job
      BY <1>0, AtStep DEF WorkPcs
    <3>4. t \in Worker
      BY <3>2, <3>3 DEF Worker, AtItsWork
    <3> HIDE DEF t
    <3> QED
      BY <1>3, <1>11, <3>1, <3>3, <3>4 DEF LookUpPin
  <2> QED
    BY <2>1, <2>2
<1>12. CASE StorePin(s)
  <2>1. PICK pin \in AccountIds \cup {NoAccount} :
          UpdateAndFinish(s, [mem[host] EXCEPT !.pinned = pin])
    BY <1>0, <1>12 DEF StorePin
  <2> DEFINE s1 == [mem[host] EXCEPT !.pinned = pin]
  <2>2. Known(s1) = Known(mem[host])
    BY <1>0, PinSound
  <2>3. PICK ok \in Writes : Finish(s, s1, ok)
    BY <2>1 DEF UpdateAndFinish
  <2>4. ok \in BOOLEAN /\ UNCHANGED <<homes, leftover, served, contested>>
    BY <1>12 DEF Writes, StorePin
  <2> HIDE DEF s1
  <2>5. r.job.op \notin {"import", "rm"}
    BY <1>0, <1>12 DEF StorePin, AtItsWork, Changes
  <2> QED
    BY <1>1, <2>2, <2>3, <2>4, <2>5, HomesStay, FinishKeepsClaims
<1> QED
  BY <1>5, <1>6, <1>7, <1>8, <1>9, <1>10, <1>11, <1>12 DEF Work

\* A command starts: whoever works on its account is contested from now on, and so is it.
LEMMA StartKeepsClaims ==
  ASSUME IInv, NEW c \in Commands, StartCommand(c)
  PROVE  ClaimsInv'
<1> USE DEF IInv, ClaimsInv
<1> DEFINE own == Own(c)
           px  == InProxy(c)
<1>1. PICK j \in setup.jobs[c] :
        /\ seat' = [seat EXCEPT ![own] = [Free EXCEPT !.pc = "open", !.job = j]]
        /\ promise' = Unclaim(promise, j)
        /\ contested' = IF Rivals(j) = {} THEN contested \ {c}
                        ELSE contested \cup Rivals(j) \cup {c}
  BY DEF StartCommand
<1>2. /\ seat[own].pc = "free" /\ seat[px].pc = "free"
      /\ UNCHANGED <<homes, leftover, mem, proc, served>>
  BY DEF StartCommand, Busy
<1>3. j \in Job /\ j.id \in AccountIds
  <2>1. j \in Job
    BY StoreFilesAssumption DEF SoundInv, RestInv, Setup
  <2> QED
    BY <2>1 DEF Job
<1>4. /\ \A t \in Seats : /\ t[1] \in Commands
                          /\ t = Own(t[1]) \/ t = InProxy(t[1])
                          /\ t[1] = c => t = own \/ t = px
      /\ \A d \in Commands : /\ Own(d) \in Seats /\ InProxy(d) \in Seats
                             /\ Own(d)[1] = d /\ InProxy(d)[1] = d
      /\ px # own /\ own[2] = "own"
  BY SeatsOfCommands
<1>5. /\ seat'[own].pc = "open" /\ seat'[own].job = j
      /\ \A t \in Seats : t # own => seat'[t] = seat[t]
  BY <1>1, <1>4, FreeWorker DEF SoundInv, SeatInv, Worker, Seat
<1>6. /\ \A id \in AccountIds : Claimant(own, id)' <=> Changes(j) /\ j.id = id
      /\ \A t \in Seats : \A id \in AccountIds : t # own => (Claimant(t, id)' <=> Claimant(t, id))
      /\ \A id \in AccountIds : ~Claimant(px, id) /\ ~Claimant(own, id)
  BY <1>2, <1>5 DEF Claimant
<1>7. \A d \in Commands : d # c => (d \in contested => d \in contested')
  BY <1>1
<1>8. \A d \in Commands : Working(d, j.id) /\ Changes(j) => d \in contested' /\ c \in contested'
  <2>1. \A d \in Commands : Working(d, j.id) /\ Changes(j) => d \in Rivals(j)
    BY DEF Working, Claimant, Rivals
  <2> QED
    BY <1>1, <2>1
<1>9. RivalsContested'
  <2> SUFFICES ASSUME NEW d \in Commands, NEW e \in Commands, NEW id \in AccountIds,
                      d # e, Working(d, id)', Working(e, id)'
               PROVE  d \in contested'
    BY DEF RivalsContested
  <2>1. \A f \in Commands : f # c => (Working(f, id)' <=> Working(f, id))
    BY <1>4, <1>6 DEF Working
  <2>2. Working(c, id)' => Changes(j) /\ j.id = id
    BY <1>4, <1>6 DEF Working
  <2>3. CASE d = c
    BY <1>8, <2>1, <2>2, <2>3
  <2>4. CASE e = c
    BY <1>8, <2>1, <2>2, <2>4
  <2>5. CASE d # c /\ e # c
    BY <1>7, <2>1, <2>5 DEF RivalsContested
  <2> QED
    BY <2>3, <2>4, <2>5
<1>10. BothSeatsContested'
  <2> SUFFICES ASSUME NEW d \in Commands, seat'[InProxy(d)].pc # "free",
                      seat'[Own(d)].pc \notin {"free", "wait"}
               PROVE  d \in contested'
    BY DEF BothSeatsContested
  <2>1. d # c
    BY <1>2, <1>4, <1>5
  <2> QED
    BY <1>4, <1>5, <1>7, <2>1 DEF BothSeatsContested
<1>11. \A t \in Seats : HomeAsLeft(t)'
  <2> SUFFICES ASSUME NEW t \in Seats
               PROVE  HomeAsLeft(t)'
    OBVIOUS
  <2>1. CASE t = own
    BY <1>5, <2>1 DEF HomeAsLeft
  <2>2. CASE t = px
    BY <1>2, <1>4, <1>5, <2>2 DEF HomeAsLeft
  <2>3. CASE t # own /\ t # px
    <3>1. HomeAsLeft(t) /\ seat'[t] = seat[t] /\ (t[1] \in contested => t[1] \in contested')
      BY <1>4, <1>5, <1>7, <2>3
    <3> QED
      BY <1>2, <3>1 DEF HomeAsLeft, HasHome, Gone
  <2> QED
    BY <2>1, <2>2, <2>3
<1>12. \A d \in Commands : PoolAsLeft(d)'
  <2> SUFFICES ASSUME NEW d \in Commands
               PROVE  PoolAsLeft(d)'
    OBVIOUS
  <2>1. CASE d = c
    BY <1>2, <1>4, <1>5, <2>1 DEF PoolAsLeft
  <2>2. CASE d # c
    <3>1. InProxy(d) # own
      BY <1>4, <2>2
    <3>2. PoolAsLeft(d) /\ seat'[InProxy(d)] = seat[InProxy(d)] /\ (d \in contested => d \in contested')
      BY <1>4, <1>5, <1>7, <2>2, <3>1
    <3> QED
      BY <1>2, <3>2 DEF PoolAsLeft
  <2> QED
    BY <2>1, <2>2
<1>13. \A id \in AccountIds :
         promise'[id] = IF Changes(j) /\ id = j.id THEN "either" ELSE promise[id]
  <2>1. promise \in [AccountIds -> Claims]
    BY DEF SoundInv, RestInv
  <2> QED
    BY <1>1, <1>3, <2>1, ClaimsTyped
<1>14. \A t \in Seats : Unclaimed(t)'
  <2> SUFFICES ASSUME NEW t \in Seats, NEW id \in AccountIds, Claimant(t, id)'
               PROVE  promise'[id] = "either" /\ (t[2] = "proxy" => served'[id] = "either")
    BY DEF Unclaimed
  <2>1. CASE t = own
    BY <1>4, <1>6, <1>13, <2>1
  <2>2. CASE t # own
    <3>1. promise[id] = "either" /\ (t[2] = "proxy" => served[id] = "either")
      BY <1>6, <2>2 DEF Unclaimed
    <3> QED
      BY <1>2, <1>13, <3>1
  <2> QED
    BY <2>1, <2>2
<1>15. PromisesKept' /\ ProxyKeepsAnswers' /\ ProxyDown'
  <2>1. \A d \in Commands : seat[InProxy(d)].pc = "free" => seat'[InProxy(d)].pc = "free"
    BY <1>4, <1>5, SeatsOfCommands
  <2> QED
    BY <1>2, <1>13, <2>1 DEF PromisesKept, ProxyKeepsAnswers, ProxyDown, HasHome, Gone
<1> QED
  BY <1>9, <1>10, <1>11, <1>12, <1>14, <1>15

\* The command waits, and its work begins in the proxy.
LEMMA AskKeepsClaims ==
  ASSUME IInv, NEW c \in Commands, AskProxy(c)
  PROVE  ClaimsInv'
<1> USE DEF IInv, ClaimsInv
<1> DEFINE own == Own(c)
           px  == InProxy(c)
           job == seat[own].job
<1>1. /\ \A t \in Seats : /\ t[1] \in Commands
                          /\ t[1] = c => t = own \/ t = px
      /\ \A d \in Commands : /\ Own(d) \in Seats /\ InProxy(d) \in Seats
                             /\ Own(d)[1] = d /\ InProxy(d)[1] = d
                             /\ Own(d)[2] = "own" /\ InProxy(d)[2] = "proxy"
      /\ px # own
  BY SeatsOfCommands
<1>2. seat[own] \in Worker /\ seat[own].pc = "open" /\ job \in Job /\ proc[Proxy] = "up"
  BY <1>1, SeatFields DEF AskProxy, Ready, SoundInv, SeatInv
<1>3. /\ UNCHANGED <<homes, leftover, mem, proc, promise, contested>>
      /\ \A id \in AccountIds : served'[id] = IF Changes(job) /\ id = job.id THEN "either" ELSE served[id]
  <2>1. served \in [AccountIds -> Claims] /\ served' = Unclaim(served, job)
    BY DEF SoundInv, RestInv, AskProxy
  <2> QED
    BY <1>2, <2>1, ClaimsTyped DEF AskProxy
<1>4. /\ seat'[own].pc = "wait" /\ seat'[own].job = job
      /\ seat'[px].pc = First(job.op) /\ seat'[px].job = job
      /\ \A t \in Seats : t # own /\ t # px => seat'[t] = seat[t]
  <2> DEFINE t == [Free EXCEPT !.pc = First(job.op), !.job = job]
             w == [seat[own] EXCEPT !.pc = "wait"]
  <2>1. seat' = [seat EXCEPT ![own] = w, ![px] = t]
    BY <1>1 DEF AskProxy, SoundInv, SeatInv
  <2>2. t.pc = First(job.op) /\ t.job = job
    BY <1>2, FreeWorker DEF Worker, Seat
  <2>3. w.pc = "wait" /\ w.job = job
    BY <1>2, AtStep
  <2> HIDE DEF t, w, job
  <2> QED
    BY <1>1, <2>1, <2>2, <2>3 DEF SoundInv, SeatInv
<1>5. First(job.op) \notin {"free", "upsert", "forget", "done"}
  BY <1>2, FirstOfOperation
<1>6. /\ \A id \in AccountIds : Claimant(own, id)' => Claimant(own, id)
      /\ \A id \in AccountIds : Claimant(px, id)' => Claimant(own, id) /\ Changes(job) /\ id = job.id
      /\ \A t \in Seats : \A id \in AccountIds : t # own /\ t # px => (Claimant(t, id)' => Claimant(t, id))
  BY <1>2, <1>4 DEF Claimant
<1>7. RivalsContested'
  <2>1. \A d \in Commands : \A id \in AccountIds : Working(d, id)' => Working(d, id)
    BY <1>1, <1>6 DEF Working
  <2> QED
    BY <1>3, <2>1 DEF RivalsContested
<1>8. BothSeatsContested'
  <2> SUFFICES ASSUME NEW d \in Commands, seat'[InProxy(d)].pc # "free",
                      seat'[Own(d)].pc \notin {"free", "wait"}
               PROVE  d \in contested'
    BY DEF BothSeatsContested
  <2>1. d # c
    BY <1>4
  <2> QED
    BY <1>1, <1>3, <1>4, <2>1 DEF BothSeatsContested
<1>9. \A t \in Seats : HomeAsLeft(t)'
  <2> SUFFICES ASSUME NEW t \in Seats
               PROVE  HomeAsLeft(t)'
    OBVIOUS
  <2>1. CASE t = own \/ t = px
    BY <1>4, <1>5, <2>1 DEF HomeAsLeft
  <2>2. CASE t # own /\ t # px
    <3>1. HomeAsLeft(t) /\ seat'[t] = seat[t]
      BY <1>4, <2>2
    <3> QED
      BY <1>3, <3>1 DEF HomeAsLeft, HasHome, Gone
  <2> QED
    BY <2>1, <2>2
<1>10. \A d \in Commands : PoolAsLeft(d)'
  <2> SUFFICES ASSUME NEW d \in Commands
               PROVE  PoolAsLeft(d)'
    OBVIOUS
  <2>1. CASE d = c
    BY <1>4, <1>5, <2>1 DEF PoolAsLeft
  <2>2. CASE d # c
    <3>1. PoolAsLeft(d) /\ seat'[InProxy(d)] = seat[InProxy(d)]
      BY <1>1, <1>4, <2>2
    <3> QED
      BY <1>3, <3>1 DEF PoolAsLeft
  <2> QED
    BY <2>1, <2>2
<1>11. \A t \in Seats : Unclaimed(t)'
  <2> SUFFICES ASSUME NEW t \in Seats, NEW id \in AccountIds, Claimant(t, id)'
               PROVE  promise'[id] = "either" /\ (t[2] = "proxy" => served'[id] = "either")
    BY DEF Unclaimed
  <2>1. CASE t = own
    BY <1>1, <1>3, <1>6, <2>1 DEF Unclaimed
  <2>2. CASE t = px
    BY <1>1, <1>3, <1>6, <2>2 DEF Unclaimed
  <2>3. CASE t # own /\ t # px
    <3>1. promise[id] = "either" /\ (t[2] = "proxy" => served[id] = "either")
      BY <1>6, <2>3 DEF Unclaimed
    <3> QED
      BY <1>3, <3>1
  <2> QED
    BY <2>1, <2>2, <2>3
<1>12. PromisesKept' /\ ProxyKeepsAnswers' /\ ProxyDown'
  BY <1>2, <1>3 DEF PromisesKept, ProxyKeepsAnswers, ProxyDown, HasHome, Gone
<1> QED
  BY <1>7, <1>8, <1>9, <1>10, <1>11, <1>12

\* The answer arrives: what an uncontested command reports of the account is so.
LEMMA AnswerKeepsClaims ==
  ASSUME IInv, NEW c \in Commands, ReadAnswer(c)
  PROVE  ClaimsInv'
<1> USE DEF IInv, ClaimsInv
<1> DEFINE own == Own(c)
           px  == InProxy(c)
           answer == seat[px]
           job == answer.job
<1>1. /\ \A t \in Seats : /\ t[1] \in Commands
                          /\ t[1] = c => t = own \/ t = px
                          /\ t = Own(t[1]) \/ t = InProxy(t[1])
      /\ \A d \in Commands : /\ Own(d) \in Seats /\ InProxy(d) \in Seats
                             /\ Own(d)[1] = d /\ InProxy(d)[1] = d
      /\ px # own /\ c # Proxy /\ c \in Processes /\ px[1] = c
  BY SeatsOfCommands
<1>2. /\ answer \in Worker /\ answer.pc = "done" /\ job \in Job /\ job.id \in AccountIds
      /\ answer.ok \in BOOLEAN
  BY <1>1, SeatFields DEF ReadAnswer, SoundInv, SeatInv
<1>3. /\ UNCHANGED <<homes, leftover, contested>>
      /\ mem'[Proxy] = mem[Proxy] /\ proc'[Proxy] = proc[Proxy]
  BY <1>1 DEF ReadAnswer, Close, SoundInv, MemInv
<1>4. /\ seat'[own] = Free /\ seat'[px] = Free /\ Free.pc = "free"
      /\ \A t \in Seats : t # own /\ t # px => seat'[t] = seat[t]
  BY <1>1, FreeWorker DEF ReadAnswer, SoundInv, SeatInv
<1>5. \A t \in Seats : \A id \in AccountIds :
        Claimant(t, id)' => t # own /\ t # px /\ t[1] # c /\ Claimant(t, id)
  BY <1>1, <1>4 DEF Claimant
\* What is said anew is said of an account that nobody else works on.
<1>6. ASSUME NEW id \in AccountIds, promise'[id] # promise[id] \/ served'[id] # served[id]
      PROVE  /\ \A t \in Seats : ~Claimant(t, id)'
             /\ \/ /\ HasHome(id) /\ id \in Known(mem[Proxy])
                   /\ promise'[id] \in {promise[id], "present"} /\ served'[id] \in {served[id], "present"}
                \/ /\ Gone(id) /\ id \notin Known(mem[Proxy])
                   /\ promise'[id] \in {promise[id], "absent"} /\ served'[id] \in {served[id], "absent"}
  <2>1. /\ promise \in [AccountIds -> Claims] /\ served \in [AccountIds -> Claims]
        /\ promise' = IF answer.ok THEN Acknowledge(promise, c, job) ELSE promise
        /\ served' = IF answer.ok THEN Acknowledge(served, c, job) ELSE served
    BY DEF SoundInv, RestInv, ReadAnswer
  <2>2. /\ answer.ok /\ Changes(job) /\ c \notin contested /\ id = job.id
        /\ promise'[id] = Claim(job) /\ served'[id] = Claim(job)
    BY <1>2, <1>6, <2>1, ClaimsTyped
  <2>3. \/ job.op = "import" /\ Claim(job) = "present"
        \/ job.op = "rm" /\ Claim(job) = "absent"
    BY <1>2, <2>1, <2>2, ClaimsTyped
  <2>4. HomeAsLeft(px) /\ PoolAsLeft(c)
    BY <1>1
  <2>5. \/ job.op = "import" /\ HasHome(id) /\ id \in Known(mem[Proxy])
        \/ job.op = "rm" /\ Gone(id) /\ id \notin Known(mem[Proxy])
    BY <1>1, <1>2, <2>2, <2>3, <2>4 DEF HomeAsLeft, PoolAsLeft
  <2>6. Claimant(px, id)
    BY <1>2, <2>2 DEF Claimant
  <2>7. \A t \in Seats : ~Claimant(t, id)'
    BY <1>1, <1>5, <2>2, <2>6 DEF RivalsContested, Working
  <2> QED
    BY <2>2, <2>3, <2>5, <2>7
<1>7. RivalsContested'
  <2>1. \A d \in Commands : \A id \in AccountIds : Working(d, id)' => Working(d, id)
    BY <1>1, <1>5 DEF Working
  <2> QED
    BY <1>3, <2>1 DEF RivalsContested
<1>8. BothSeatsContested'
  <2> SUFFICES ASSUME NEW d \in Commands, seat'[InProxy(d)].pc # "free",
                      seat'[Own(d)].pc \notin {"free", "wait"}
               PROVE  d \in contested'
    BY DEF BothSeatsContested
  <2>1. d # c
    BY <1>4
  <2> QED
    BY <1>1, <1>3, <1>4, <2>1 DEF BothSeatsContested
<1>9. \A t \in Seats : HomeAsLeft(t)'
  <2> SUFFICES ASSUME NEW t \in Seats
               PROVE  HomeAsLeft(t)'
    OBVIOUS
  <2>1. CASE t = own \/ t = px
    BY <1>4, <2>1 DEF HomeAsLeft
  <2>2. CASE t # own /\ t # px
    <3>1. HomeAsLeft(t) /\ seat'[t] = seat[t]
      BY <1>4, <2>2
    <3> QED
      BY <1>3, <3>1 DEF HomeAsLeft, HasHome, Gone
  <2> QED
    BY <2>1, <2>2
<1>10. \A d \in Commands : PoolAsLeft(d)'
  <2> SUFFICES ASSUME NEW d \in Commands
               PROVE  PoolAsLeft(d)'
    OBVIOUS
  <2>1. CASE d = c
    BY <1>4, <2>1 DEF PoolAsLeft
  <2>2. CASE d # c
    <3>1. PoolAsLeft(d) /\ seat'[InProxy(d)] = seat[InProxy(d)]
      BY <1>1, <1>4, <2>2
    <3> QED
      BY <1>3, <3>1 DEF PoolAsLeft
  <2> QED
    BY <2>1, <2>2
<1>11. \A t \in Seats : Unclaimed(t)'
  <2> SUFFICES ASSUME NEW t \in Seats, NEW id \in AccountIds, Claimant(t, id)'
               PROVE  promise'[id] = "either" /\ (t[2] = "proxy" => served'[id] = "either")
    BY DEF Unclaimed
  <2>1. promise[id] = "either" /\ (t[2] = "proxy" => served[id] = "either")
    BY <1>5 DEF Unclaimed
  <2>2. promise'[id] = promise[id] /\ served'[id] = served[id]
    BY <1>6
  <2> QED
    BY <2>1, <2>2
<1>12. PromisesKept'
  BY <1>3, <1>6 DEF PromisesKept, HasHome, Gone
<1>13. ProxyKeepsAnswers'
  <2>1. Known(mem[Proxy])' = Known(mem[Proxy])
    BY <1>3 DEF Known
  <2> QED
    BY <1>6, <2>1 DEF ProxyKeepsAnswers
<1>14. ProxyDown'
  <2>1. proc[Proxy] = "up"
    BY <1>2 DEF ProxyDown
  <2> QED
    BY <1>3, <2>1 DEF ProxyDown
<1> QED
  BY <1>7, <1>8, <1>9, <1>10, <1>11, <1>12, <1>13, <1>14

\* The other steps of a command.
LEMMA CommandKeepsClaims ==
  ASSUME IInv, NEW c \in Commands,
         \/ StartCommand(c) \/ WorkHere(c) \/ AskProxy(c) \/ ProxyUnavailable(c)
         \/ ReadAnswer(c) \/ DropAnswer(c) \/ KillCommand(c)
  PROVE  ClaimsInv'
<1> DEFINE own == Own(c)
           px  == InProxy(c)
           job == seat[own].job
<1>1. /\ own \in Seats /\ px \in Seats /\ own[1] = c /\ own[2] = "own" /\ c # Proxy
      /\ c \in Processes
  BY SeatsOfCommands
<1>2. seat[own] \in Worker /\ job \in Job
  BY <1>1, SeatFields DEF IInv, SoundInv, SeatInv
\* The work begins in the process of the command.
<1>3. ASSUME Start(c), seat[own].pc \in {"open", "wait"}, contested \subseteq contested',
             seat[own].pc = "wait" /\ seat[px].pc # "free" => c \in contested',
             UNCHANGED <<homes, leftover, mem, proc, promise, served>>
      PROVE  ClaimsInv'
  <2> DEFINE t == [seat[own] EXCEPT !.pc = First(job.op)]
  <2>1. First(job.op) \notin {"free", "upsert", "forget", "done"} /\ First(job.op) \in WorkPcs
    BY <1>2, FirstOfOperation DEF WorkPcs
  <2>2. t.pc = First(job.op) /\ t.job = job
    BY <1>2, <2>1, AtStep
  <2>3. seat' = [seat EXCEPT ![own] = t]
    BY <1>3 DEF Start
  <2> HIDE DEF t
  <2>4. /\ seat'[own] = t
        /\ \A u \in Seats : u # own => seat'[u] = seat[u]
    BY <1>1, <2>3 DEF IInv, SoundInv, SeatInv
  <2>5. HomeAsLeft(own)'
    BY <2>1, <2>2, <2>4 DEF HomeAsLeft
  <2>6. /\ \A id \in AccountIds : HomeStays(id)
        /\ \A id \in AccountIds : id \in Known(mem[Proxy])' <=> id \in Known(mem[Proxy])
    BY <1>3, HomesStay DEF Known
  <2> QED
    BY <1>1, <1>3, <2>1, <2>2, <2>4, <2>5, <2>6, WorkKeepsClaims
<1>4. ASSUME Close(c), Give(c), contested \subseteq contested', UNCHANGED <<homes, leftover, promise, served>>
      PROVE  ClaimsInv'
  <2>1. mem'[Proxy] = mem[Proxy] /\ proc'[Proxy] = proc[Proxy]
    BY <1>1, <1>4 DEF Close, IInv, SoundInv, MemInv
  <2>2. seat' = [seat EXCEPT ![own] = Free]
    BY <1>1, <1>4 DEF Give
  <2> QED
    BY <1>1, <1>4, <2>1, <2>2, HomesStay, EndKeepsClaims
<1>5. CASE WorkHere(c)
  BY <1>3, <1>5 DEF WorkHere, Ready
<1>6. CASE ProxyUnavailable(c)
  <2>1. /\ contested \subseteq contested' /\ (seat[px].pc # "free" => c \in contested')
        /\ UNCHANGED <<homes, leftover, promise, served>>
    BY <1>6 DEF ProxyUnavailable
  <2>2. CASE job.mode = "auto"
    BY <1>3, <1>6, <2>1, <2>2 DEF ProxyUnavailable, Ready
  <2>3. CASE job.mode # "auto"
    BY <1>4, <1>6, <2>1, <2>3 DEF ProxyUnavailable
  <2> QED
    BY <2>2, <2>3
<1>7. CASE DropAnswer(c)
  BY <1>1, <1>7, HomesStay, EndKeepsClaims DEF DropAnswer
<1>8. CASE KillCommand(c)
  BY <1>4, <1>8 DEF KillCommand
<1> QED
  BY <1>5, <1>6, <1>7, <1>8, StartKeepsClaims, AskKeepsClaims, AnswerKeepsClaims

\* With the proxy goes what it was working on, and what it had answered.
LEMMA KillProxyKeepsClaims ==
  ASSUME IInv, KillProxy
  PROVE  ClaimsInv'
<1> USE DEF IInv, ClaimsInv
<1>1. /\ \A t \in Seats : /\ t[1] \in Commands
                          /\ t = Own(t[1]) \/ t = InProxy(t[1])
      /\ \A d \in Commands : /\ Own(d) \in Seats /\ InProxy(d) \in Seats
                             /\ Own(d)[2] = "own" /\ InProxy(d)[2] = "proxy"
  BY SeatsOfCommands
<1>2. \A t \in Seats : IF t[2] = "proxy" THEN seat'[t].pc = "free" ELSE seat'[t] = seat[t]
  BY FreeWorker DEF KillProxy
<1>3. UNCHANGED <<homes, leftover, promise, contested>> /\ \A id \in AccountIds : served'[id] = "either"
  BY DEF KillProxy
<1>4. \A t \in Seats : \A id \in AccountIds : Claimant(t, id)' => t[2] # "proxy" /\ Claimant(t, id)
  BY <1>2 DEF Claimant
<1>5. RivalsContested'
  <2>1. \A d \in Commands : \A id \in AccountIds : Working(d, id)' => Working(d, id)
    BY <1>1, <1>4 DEF Working
  <2> QED
    BY <1>3, <2>1 DEF RivalsContested
<1>6. BothSeatsContested' /\ \A d \in Commands : PoolAsLeft(d)'
  BY <1>1, <1>2 DEF BothSeatsContested, PoolAsLeft
<1>7. \A t \in Seats : HomeAsLeft(t)'
  <2> SUFFICES ASSUME NEW t \in Seats
               PROVE  HomeAsLeft(t)'
    OBVIOUS
  <2>1. CASE t[2] = "proxy"
    BY <1>2, <2>1 DEF HomeAsLeft
  <2>2. CASE t[2] # "proxy"
    <3>1. HomeAsLeft(t) /\ seat'[t] = seat[t]
      BY <1>2, <2>2
    <3> QED
      BY <1>3, <3>1 DEF HomeAsLeft, HasHome, Gone
  <2> QED
    BY <2>1, <2>2
<1>8. \A t \in Seats : Unclaimed(t)'
  BY <1>3, <1>4 DEF Unclaimed
<1>9. PromisesKept' /\ ProxyKeepsAnswers' /\ ProxyDown'
  BY <1>1, <1>2, <1>3 DEF PromisesKept, ProxyKeepsAnswers, ProxyDown, HasHome, Gone
<1> QED
  BY <1>5, <1>6, <1>7, <1>8, <1>9

\* No step leaves the invariant.
LEMMA StepKeepsClaims == IInv /\ [Next]_vars => IInv'
<1> SUFFICES ASSUME IInv, [Next]_vars
             PROVE  IInv'
  OBVIOUS
<1>1. SoundInv'
  BY StepStaysSound DEF IInv
<1>2. ClaimsInv'
  <2>1. CASE \E p \in Processes : Open(p)
    BY <2>1, OpenKeepsClaims
  <2>2. CASE \E s \in Seats : Work(s)
    BY <2>2, WorkActionsKeepClaims
  <2>3. CASE \E c \in Commands : \/ StartCommand(c) \/ WorkHere(c) \/ AskProxy(c)
                                 \/ ProxyUnavailable(c) \/ ReadAnswer(c) \/ DropAnswer(c)
                                 \/ KillCommand(c)
    BY <2>3, CommandKeepsClaims
  <2>4. CASE Reload
    BY <2>4, ReloadKeepsClaims
  <2>5. CASE KillProxy
    BY <2>5, KillProxyKeepsClaims
  <2>6. CASE Edit \/ UNCHANGED vars
    BY <2>6, EditKeepsClaims
  <2> QED
    BY <2>1, <2>2, <2>3, <2>4, <2>5, <2>6 DEF Next
<1> QED
  BY <1>1, <1>2 DEF IInv

\* Nothing was said yet.
LEMMA InitKeepsClaims == Init => IInv
<1> SUFFICES ASSUME Init
             PROVE  ClaimsInv
  BY InitSound DEF IInv
<1>1. \A s \in Seats : seat[s].pc = "free"
  BY FreeWorker DEF Init
<1>2. /\ \A s \in Seats : s[1] \in Commands
      /\ \A c \in Commands : Own(c) \in Seats /\ InProxy(c) \in Seats
  BY SeatsOfCommands
<1>3. \A id \in AccountIds : promise[id] = "either" /\ served[id] = "either"
  BY DEF Init
<1>4. RivalsContested /\ BothSeatsContested /\ \A c \in Commands : PoolAsLeft(c)
  BY <1>1, <1>2 DEF RivalsContested, Working, Claimant, BothSeatsContested, PoolAsLeft
<1>5. \A s \in Seats : HomeAsLeft(s) /\ Unclaimed(s)
  BY <1>1 DEF HomeAsLeft, Unclaimed, Claimant
<1>6. PromisesKept /\ ProxyKeepsAnswers /\ ProxyDown
  BY <1>1, <1>2, <1>3 DEF PromisesKept, ProxyKeepsAnswers, ProxyDown
<1> QED
  BY <1>4, <1>5, <1>6 DEF ClaimsInv

-----------------------------------------------------------------------------

\* The invariant that carries the results below, in every reachable state.
THEOREM Invariance == Spec => []IInv
BY InitKeepsClaims, StepKeepsClaims, PTL DEF Spec

\* Whatever the processes write over each other, and whenever they are killed or the disk is
\* full, every variable keeps its type.
THEOREM TypeCorrect == Spec => []TypeOK
<1>1. IInv => TypeOK
  BY SoundInvMeaning DEF IInv
<1> QED
  BY <1>1, Invariance, PTL

\* Every store in memory and on disk keeps its ids unique and its active index in the list;
\* a command works on a store whose pin is one of its accounts (Store.loadOrInit,
\* reconcileAccountsFromDisk and the updates of store.go).
THEOREM StoresStaySound == Spec => []StoresSound
<1>1. IInv => StoresSound
  BY SoundInvMeaning DEF IInv
<1> QED
  BY <1>1, Invariance, PTL

\* The running proxy serves the accounts it was told to import, and none it was told to
\* remove, with any number of commands that work on the same directory.
THEOREM ProxyAnswersKept == Spec => []ProxyKeepsAnswers
<1>1. IInv => ProxyKeepsAnswers
  BY DEF IInv, ClaimsInv
<1> QED
  BY <1>1, Invariance, PTL

\* Only the reconciliation brings a process to where its store is reconciled.
LEMMA OnlyReconcile ==
  ASSUME IInv, [Next]_vars, NEW p \in Processes, proc[p] = "configured", proc'[p] = "reconciled"
  PROVE  Reconcile(p)
<1>0. proc \in [Processes -> Stages]
  BY DEF IInv, SoundInv, MemInv
<1>1. CASE \E q \in Processes : Open(q)
  <2>1. PICK q \in Processes : Open(q)
    BY <1>1
  <2>2. CASE q = p
    BY <1>0, <2>1, <2>2 DEF Open, ReadStore, ReadConfig, NameConfig, FillConfig, WriteStore, To, Close
  <2>3. CASE q # p
    <3>1. proc'[p] = proc[p]
      BY <1>0, <2>1, <2>3
         DEF Open, ReadStore, ReadConfig, NameConfig, FillConfig, Reconcile, WriteStore, To, Close
    <3> QED
      BY <3>1
  <2> QED
    BY <2>2, <2>3
<1>2. ASSUME \/ \E q \in Processes : proc' = [proc EXCEPT ![q] = "down"]
             \/ UNCHANGED proc
      PROVE  FALSE
  BY <1>0, <1>2
<1>3. CASE \E s \in Seats : Work(s)
  <2>1. PICK s \in Seats : Work(s)
    BY <1>3
  <2>2. \A s1, ok : Finish(s, s1, ok) =>
          proc' = [proc EXCEPT ![s[1]] = "down"] \/ UNCHANGED proc
    BY DEF Finish, To
  <2>3. \A s1 : UpdateAndFinish(s, s1) =>
          proc' = [proc EXCEPT ![s[1]] = "down"] \/ UNCHANGED proc
    BY <2>2 DEF UpdateAndFinish
  <2>4. proc' = [proc EXCEPT ![s[1]] = "down"] \/ UNCHANGED proc
    BY <2>1, <2>2, <2>3
       DEF Work, TruncateAuth, WriteAuth, ReadBack, Register, RemoveHome, Forget, LookUpPin, StorePin
  <2>5. s[1] \in Processes
    BY SeatsOfCommands
  <2> QED
    BY <1>2, <2>4, <2>5
<1>4. CASE \E c \in Commands : \/ StartCommand(c) \/ WorkHere(c) \/ AskProxy(c)
                               \/ ProxyUnavailable(c) \/ ReadAnswer(c) \/ DropAnswer(c)
                               \/ KillCommand(c)
  <2>1. \A c \in Commands : c \in Processes
    BY SeatsOfCommands
  <2> QED
    BY <1>2, <1>4, <2>1
       DEF StartCommand, WorkHere, AskProxy, ProxyUnavailable, ReadAnswer, DropAnswer,
           KillCommand, Close
<1>5. CASE Reload \/ KillProxy \/ Edit \/ UNCHANGED vars
  <2>1. Proxy \in Processes
    BY DEF Processes
  <2> QED
    BY <1>2, <1>5, <2>1
       DEF Reload, StartReloader, ReadDigest, ReadChange, NameChange, FillChange, PersistChange, KillProxy,
           Close, Edit, vars
<1> QED
  BY <1>1, <1>3, <1>4, <1>5 DEF Next

\* A store that is opened has every account whose import was answered with success and,
\* unless its home resisted (wrapper.go:177), none whose removal was, whatever was written over store.json since: its list is made from the
\* homes, and the homes are as the answers say.
THEOREM AnswersKept == Spec => AnswersOutlive
<1>1. IInv /\ [Next]_vars =>
        [\A p \in Processes : proc[p] = "configured" /\ proc'[p] = "reconciled" =>
           \A id \in AccountIds :
             /\ promise[id] = "present" => id \in Known(mem'[p])
             /\ promise[id] = "absent" /\ id \notin leftover => id \notin Known(mem'[p])]_vars
  <2> SUFFICES ASSUME IInv, [Next]_vars, NEW p \in Processes,
                      proc[p] = "configured", proc'[p] = "reconciled", NEW id \in AccountIds
               PROVE  /\ promise[id] = "present" => id \in Known(mem'[p])
                      /\ promise[id] = "absent" /\ id \notin leftover => id \notin Known(mem'[p])
    OBVIOUS
  <2>1. mem'[p] = Reconciled(mem[p])
    BY OnlyReconcile DEF Reconcile, To, IInv, SoundInv, MemInv
  <2>2. Known(mem'[p]) = {i \in AccountIds : HasHome(i)}
    BY <2>1, ReconciledSound DEF IInv, SoundInv, MemInv, RestInv
  <2>3. PromisesKept
    BY DEF IInv, ClaimsInv
  <2> QED
    BY <2>2, <2>3 DEF PromisesKept, Gone
<1> QED
  BY <1>1, Invariance, PTL DEF Spec, AnswersOutlive

=============================================================================
