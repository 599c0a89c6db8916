-------------------------- MODULE AuthRefreshProofs --------------------------
(***************************************************************************)
(* Proofs about AuthRefresh, for any number of processes, workers and      *)
(* homes and without the bound on the exchanges.                           *)
(***************************************************************************)
EXTENDS AuthRefresh, TLAPS

\* Where a worker holds the lock of its home.
Locking == {"asked", "answered", "persisted"}

\* A worker is renewing the tokens of a home, as far as they are at stake.
Renews(w, h) == worker[w].pc \in Locking /\ worker[w].home = h

\* The lock of a home is held by exactly the worker that is renewing it.
LockOwned(h) == \A w \in Workers : lock[h] = w <=> Renews(w, h)

\* An exchanged token is not in auth.json yet.
OnItsWay(h) == lock[h] # Nobody /\ worker[lock[h]].pc = "answered"

\* What auth.json has, unless its successor is on its way.
FileUsable(h) == file[h].refresh \in live[h] \cup {0}

\* What is on its way; if it is no new refresh token, auth.json can stay as it is.
AnswerUsable(h) ==
  LET w == lock[h]
  IN  /\ worker[w].got.refresh \in live[h]
      /\ worker[w].got.refresh = worker[w].sent => FileUsable(h)

HomeInv(h) ==
  /\ LockOwned(h)
  /\ \A n \in live[h] : n <= issued[h]
  /\ ~strayed[h] /\ OnItsWay(h) => AnswerUsable(h)
  /\ ~strayed[h] /\ ~OnItsWay(h) => FileUsable(h)
  /\ ~strayed[h] /\ lock[h] # Nobody /\ worker[lock[h]].pc = "asked"
       => worker[lock[h]].sent \in live[h]

IInv == TypeOK /\ \A h \in Homes : HomeInv(h)

-----------------------------------------------------------------------------
LEMMA RestingWorker == Resting \in Worker
BY AuthRefreshAssumption, SMT DEF Resting, Worker, Pcs, AllRoles, Auth, Unreadable

LEMMA InitIInv == Init => IInv
<1> SUFFICES ASSUME Init PROVE IInv
  OBVIOUS
<1>1. TypeOK
  BY RestingWorker, AuthRefreshAssumption DEF Init, TypeOK, Auth, Unreadable
<1>2. ASSUME NEW h \in Homes PROVE HomeInv(h)
  <2>1. \A w \in Workers : worker[w].pc = "idle"
    BY SMT DEF Init, Resting
  <2>2. LockOwned(h) /\ lock[h] = Nobody
    BY <2>1, AuthRefreshAssumption DEF Init, LockOwned, Renews, Locking
  <2>3. live[h] = {1} /\ issued[h] = 1 /\ file[h].refresh = 1
    BY DEF Init
  <2> QED
    BY <2>2, <2>3 DEF HomeInv, OnItsWay, FileUsable
<1> QED
  BY <1>1, <1>2 DEF IInv

-----------------------------------------------------------------------------
(***************************************************************************)
(* Types                                                                   *)
(***************************************************************************)

\* A step gives a worker the record it computes.
LEMMA WorkerSet ==
  ASSUME TypeOK, NEW w \in Workers, NEW rec \in Worker, Set(w, rec)
  PROVE  worker' \in [Workers -> Worker]
BY DEF Set, TypeOK

LEMMA GoType ==
  ASSUME TypeOK, NEW w \in Workers, NEW pc \in Pcs, Go(w, pc)
  PROVE  worker' \in [Workers -> Worker]
<1>1. worker[w] \in Worker
  BY DEF TypeOK
<1>2. [worker[w] EXCEPT !.pc = pc] \in Worker
  BY <1>1 DEF Worker
<1> QED
  BY <1>2, WorkerSet DEF Go

LEMMA EndType ==
  ASSUME TypeOK, NEW w \in Workers, NEW pc \in Pcs, End(w, pc)
  PROVE  worker' \in [Workers -> Worker]
<1>1. worker[w] \in Worker /\ Unreadable \in Auth
  BY DEF TypeOK, Unreadable, Auth
<1>2. [worker[w] EXCEPT !.pc = pc, !.failed = 0, !.got = Unreadable, !.sent = 0] \in Worker
  BY <1>1 DEF Worker
<1> QED
  BY <1>2, WorkerSet DEF End

LEMMA ReplacedType ==
  ASSUME NEW h \in Homes, NEW ws \in [Workers -> Worker]
  PROVE  Replaced(h, ws) \in [Workers -> Worker]
<1>1. ASSUME NEW v \in Workers
      PROVE  [ws[v] EXCEPT !.pc = "register"] \in Worker
  BY SMT DEF Worker, Pcs
<1> QED
  BY <1>1 DEF Replaced

\* Where a worker is, and the types of what it looks at.
LEMMA WorkerFacts ==
  ASSUME TypeOK, NEW w \in Workers
  PROVE  /\ worker[w] \in Worker
         /\ worker[w].home \in Homes
         /\ worker[w].rest \in SUBSET Homes
         /\ worker[w].got \in Auth
         /\ worker[w].sent \in Nat
         /\ file[worker[w].home] \in Auth
         /\ issued[worker[w].home] + 1 \in Nat
         /\ ProcOf[w] \in Procs
<1>1. worker[w] \in Worker
  BY DEF TypeOK
<1>2. /\ worker[w].home \in Homes /\ worker[w].rest \in SUBSET Homes
      /\ worker[w].got \in Auth /\ worker[w].sent \in Nat
  BY <1>1 DEF Worker
<1>3. ProcOf[w] \in Procs
  BY AuthRefreshAssumption
<1> QED
  BY <1>1, <1>2, <1>3 DEF TypeOK

LEMMA LocksType ==
  ASSUME TypeOK, NEW w \in Workers
  PROVE  /\ Release(w) => mutex' \in [Procs -> Workers \cup {Nobody}]
         /\ Unlock(w)  => lock' \in [Homes -> Workers \cup {Nobody}]
         /\ MarkDisabled(w) => disabled' \in [Procs -> SUBSET Homes]
         /\ MarkAuthRecovered(w) => disabled' \in [Procs -> SUBSET Homes]
<1>1. Release(w) => mutex' \in [Procs -> Workers \cup {Nobody}]
  BY DEF TypeOK, Release
<1>2. Unlock(w)  => lock' \in [Homes -> Workers \cup {Nobody}]
  BY DEF TypeOK, Unlock
<1>3. MarkDisabled(w) => disabled' \in [Procs -> SUBSET Homes]
  BY WorkerFacts DEF TypeOK, MarkDisabled
<1>4. MarkAuthRecovered(w) => disabled' \in [Procs -> SUBSET Homes]
  BY WorkerFacts DEF TypeOK, MarkAuthRecovered
<1> QED
  BY <1>1, <1>2, <1>3, <1>4

LEMMA ProceedType ==
  ASSUME TypeOK, NEW w \in Workers, Proceed(w)
  PROVE  TypeOK'
<1> DEFINE h == worker[w].home
<1>t. /\ worker[w] \in Worker /\ h \in Homes /\ worker[w].rest \in SUBSET Homes
      /\ worker[w].got \in Auth /\ worker[w].sent \in Nat
      /\ file[h] \in Auth /\ issued[h] + 1 \in Nat /\ ProcOf[w] \in Procs
  BY WorkerFacts
<1>r. Resting \in Worker /\ Unreadable \in Auth /\ file[h].refresh \in Nat
  BY <1>t, RestingWorker DEF Unreadable, Auth
<1>p. /\ "failed" \in Pcs /\ "recovering" \in Pcs /\ "lock" \in Pcs /\ "register" \in Pcs
      /\ "respond" \in Pcs /\ "next" \in Pcs /\ "mutex" \in Pcs /\ "asked" \in Pcs
      /\ "answered" \in Pcs /\ "persisted" \in Pcs
  BY DEF Pcs
<1>1. CASE MarkMissing(w)
  BY <1>1, <1>r, WorkerSet, LocksType DEF MarkMissing, TypeOK, tokenVars
<1>2. CASE NextCandidate(w)
  <2>1. ASSUME NEW g \in worker[w].rest
        PROVE  [Resting EXCEPT !.role = "oauth", !.pc = "mutex", !.home = g,
                               !.rest = worker[w].rest \ {g}] \in Worker
    BY <2>1, <1>r, <1>p, <1>t DEF Worker, AllRoles
  <2>2. worker' \in [Workers -> Worker]
    BY <1>2, <2>1, <1>r, WorkerSet DEF NextCandidate
  <2> QED
    BY <1>2, <2>2 DEF NextCandidate, TypeOK, tokenVars
<1>3. CASE TakeMutex(w)
  <2>1. worker' \in [Workers -> Worker]
    BY <1>3, <1>p, EndType, GoType DEF TakeMutex
  <2>2. mutex' \in [Procs -> Workers \cup {Nobody}]
    BY <1>3 DEF TakeMutex, TypeOK
  <2> QED
    BY <1>3, <2>1, <2>2 DEF TakeMutex, TypeOK, tokenVars
<1>4. CASE TakeLock(w)
  <2>1. [worker[w] EXCEPT !.pc = "asked", !.failed = 0, !.sent = file[h].refresh] \in Worker
    BY <1>r, <1>t, <1>p DEF Worker
  <2>2. worker' \in [Workers -> Worker]
    BY <1>4, <2>1, <1>p, EndType, WorkerSet DEF TakeLock
  <2>3. /\ mutex' \in [Procs -> Workers \cup {Nobody}]
        /\ lock' \in [Homes -> Workers \cup {Nobody}]
    BY <1>4, <1>t, LocksType DEF TakeLock, TypeOK
  <2> QED
    BY <1>4, <2>2, <2>3 DEF TakeLock, TypeOK, tokenVars
<1>5. CASE LockTimeout(w)
  BY <1>5, <1>p, EndType, LocksType DEF LockTimeout, TypeOK, tokenVars
<1>6. CASE Exchange(w)
  <2> DEFINE new == issued[h] + 1
  <2>1. /\ [worker[w] EXCEPT !.pc = "answered",
                             !.got = [access |-> new, refresh |-> new]] \in Worker
        /\ [worker[w] EXCEPT !.pc = "answered",
                             !.got = [access |-> new, refresh |-> worker[w].sent]] \in Worker
    BY <1>t, <1>p DEF Worker, Auth
  <2>2. worker' \in [Workers -> Worker]
    BY <1>6, <2>1, WorkerSet DEF Exchange
  <2>3. issued' \in [Homes -> Nat]
    BY <1>6, <1>t DEF Exchange, TypeOK
  <2>a. live[h] \in SUBSET Nat /\ live \in [Homes -> SUBSET Nat]
    BY <1>t DEF TypeOK
  <2>b. (live[h] \ {worker[w].sent}) \cup {new} \in SUBSET Nat
    BY <2>a, <1>t
  <2>c. live' \in [Homes -> SUBSET Nat]
    BY <1>6, <2>a, <2>b DEF Exchange
  <2>d. strayed' \in [Homes -> BOOLEAN]
    BY <1>6, Zenon DEF Exchange, TypeOK
  <2>4. live' \in [Homes -> SUBSET Nat] /\ strayed' \in [Homes -> BOOLEAN]
    BY <2>c, <2>d
  <2> QED
    BY <1>6, <2>2, <2>3, <2>4 DEF Exchange, TypeOK
<1>7. CASE NoExchange(w)
  BY <1>7, <1>p, EndType, LocksType DEF NoExchange, TypeOK, tokenVars
<1>8. CASE Abandon(w)
  <2>1. strayed' \in [Homes -> BOOLEAN]
    BY <1>8, <1>t, Zenon DEF Abandon, TypeOK
  <2> QED
    BY <1>8, <2>1, <1>p, EndType, LocksType DEF Abandon, TypeOK
<1>9. CASE Persist(w)
  <2> DEFINE ws == [worker EXCEPT ![w] =
                      [@ EXCEPT !.pc = "persisted", !.got = Unreadable, !.sent = 0]]
  <2>1. [worker[w] EXCEPT !.pc = "persisted", !.got = Unreadable, !.sent = 0] \in Worker
    BY <1>t, <1>r, <1>p DEF Worker
  <2>2. ws \in [Workers -> Worker]
    BY <2>1 DEF TypeOK
  <2>3. worker' = Replaced(h, ws)
    BY <1>9 DEF Persist
  <2>4. worker' \in [Workers -> Worker]
    BY <1>t, <2>2, <2>3, ReplacedType
  <2>5. file' \in [Homes -> Auth]
    BY <1>9, <1>t DEF Persist, TypeOK
  <2> QED
    BY <1>9, <2>4, <2>5 DEF Persist, TypeOK
<1>10. CASE Reload(w)
  <2>1. worker' \in [Workers -> Worker]
    BY <1>10, <1>p, EndType DEF Reload
  <2> QED
    BY <1>10, <2>1, LocksType DEF Reload, TypeOK, tokenVars
<1>11. CASE Recover(w)
  <2>1. worker' \in [Workers -> Worker]
    BY <1>11, <1>p, <1>r, GoType, WorkerSet DEF Recover
  <2> QED
    BY <1>11, <2>1, LocksType DEF Recover, TypeOK, tokenVars
<1>12. CASE Respond(w)
  <2>1. worker' \in [Workers -> Worker]
    BY <1>12, <1>p, <1>r, GoType, WorkerSet DEF Respond
  <2> QED
    BY <1>12, <2>1 DEF Respond, TypeOK, tokenVars
<1>13. CASE Disable(w)
  <2>1. worker' \in [Workers -> Worker]
    BY <1>13, <1>p, <1>r, GoType, WorkerSet DEF Disable
  <2>2. disabled' \in [Procs -> SUBSET Homes]
    BY <1>13, LocksType DEF Disable, TypeOK
  <2> QED
    BY <1>13, <2>1, <2>2 DEF Disable, TypeOK, tokenVars
<1>14. CASE WriteImport(w)
  <2> DEFINE new == issued[h] + 1
  <2>1. worker' \in [Workers -> Worker]
    BY <1>14, <1>p, GoType DEF WriteImport
  <2>2. issued' \in [Homes -> Nat]
    BY <1>14, <1>t DEF WriteImport, TypeOK
  <2>3. [access |-> new, refresh |-> new] \in Auth /\ [access |-> new, refresh |-> 0] \in Auth
    BY <1>t DEF Auth
  <2>4. file' \in [Homes -> Auth]
    BY <1>14, <2>3 DEF WriteImport, TypeOK
  <2>5. live' \in [Homes -> SUBSET Nat]
    BY <1>14, <1>t DEF WriteImport, TypeOK
  <2>6. strayed' \in [Homes -> BOOLEAN]
    BY <1>14, <1>t, Zenon DEF WriteImport, TypeOK
  <2> QED
    BY <1>14, <2>1, <2>2, <2>4, <2>5, <2>6 DEF WriteImport, TypeOK
<1>15. CASE Register(w)
  BY <1>15, <1>r, WorkerSet, LocksType DEF Register, TypeOK, tokenVars
<1> QED
  BY <1>1, <1>2, <1>3, <1>4, <1>5, <1>6, <1>7, <1>8, <1>9, <1>10, <1>11, <1>12, <1>13,
     <1>14, <1>15 DEF Proceed

LEMMA NextType == TypeOK /\ [Next]_vars => TypeOK'
<1> SUFFICES ASSUME TypeOK, [Next]_vars PROVE TypeOK'
  OBVIOUS
<1>r. Resting \in Worker /\ Unreadable \in Auth
  BY RestingWorker DEF Unreadable, Auth
<1>1. ASSUME NEW w \in Workers, Proceed(w) PROVE TypeOK'
  BY <1>1, ProceedType
<1>2. ASSUME NEW w \in Workers, RuntimeToken(w) PROVE TypeOK'
  <2>1. [Resting EXCEPT !.role = "oauth", !.pc = "next", !.rest = Homes] \in Worker
    BY <1>r DEF Worker, AllRoles, Pcs
  <2> QED
    BY <1>2, <2>1, WorkerSet DEF RuntimeToken, TypeOK, tokenVars
<1>3. ASSUME NEW w \in Workers, NEW h \in Homes, Rejected(w, h) PROVE TypeOK'
  <2>1. PICK role \in Roles[w] \cap {"serve", "walk"} :
          Set(w, [Resting EXCEPT !.role = role, !.home = h, !.failed = file[h].access,
                    !.pc = IF file[h] = Unreadable THEN "missing" ELSE "mutex"])
    BY <1>3 DEF Rejected
  <2>2. file[h].access \in Nat
    BY DEF TypeOK, Auth
  <2>3. [Resting EXCEPT !.role = role, !.home = h, !.failed = file[h].access,
                    !.pc = IF file[h] = Unreadable THEN "missing" ELSE "mutex"] \in Worker
    BY <1>r, <2>2 DEF Worker, AllRoles, Pcs
  <2> QED
    BY <1>3, <2>1, <2>3, WorkerSet DEF Rejected, TypeOK, tokenVars
<1>4. ASSUME NEW w \in Workers, NEW h \in Homes, StartImport(w, h) PROVE TypeOK'
  <2>1. [Resting EXCEPT !.role = "import", !.home = h, !.pc = "importing"] \in Worker
    BY <1>r DEF Worker, AllRoles, Pcs
  <2>2. file' \in [Homes -> Auth]
    BY <1>4, <1>r DEF StartImport, TypeOK
  <2> QED
    BY <1>4, <2>1, <2>2, WorkerSet DEF StartImport, TypeOK
<1>5. ASSUME NEW p \in Procs, Crash(p) PROVE TypeOK'
  <2>1. worker' \in [Workers -> Worker]
    BY <1>5, <1>r DEF Crash, TypeOK
  <2>2. mutex' \in [Procs -> Workers \cup {Nobody}]
    BY <1>5 DEF Crash, TypeOK
  <2>3. lock' \in [Homes -> Workers \cup {Nobody}]
    BY <1>5 DEF Crash, TypeOK
  <2>4. strayed' \in [Homes -> BOOLEAN]
    BY <1>5, Zenon DEF Crash, TypeOK
  <2> QED
    BY <1>5, <2>1, <2>2, <2>3, <2>4 DEF Crash, TypeOK
<1>6. ASSUME NEW h \in Homes, CopyOut(h) PROVE TypeOK'
  BY <1>6 DEF CopyOut, TypeOK
<1>7. ASSUME NEW h \in Homes, RenewElsewhere(h) PROVE TypeOK'
  <2> DEFINE new == issued[h] + 1
  <2>1. new \in Nat /\ [access |-> new, refresh |-> new] \in Auth
    BY DEF TypeOK, Auth
  <2>2. (live[h] \ {away[h].refresh}) \cup {new} \in SUBSET Nat
    BY <2>1 DEF TypeOK
  <2>3. live' \in [Homes -> SUBSET Nat]
    BY <1>7, <2>2 DEF RenewElsewhere, TypeOK
  <2>4. issued' \in [Homes -> Nat] /\ away' \in [Homes -> Auth]
    BY <1>7, <2>1 DEF RenewElsewhere, TypeOK
  <2>5. strayed' \in [Homes -> BOOLEAN]
    BY <1>7 DEF RenewElsewhere, TypeOK
  <2> QED
    BY <1>7, <2>3, <2>4, <2>5 DEF RenewElsewhere, TypeOK
<1>8. ASSUME NEW h \in Homes, CopyIn(h) PROVE TypeOK'
  <2>1. worker' \in [Workers -> Worker]
    BY <1>8, ReplacedType DEF CopyIn, TypeOK
  <2>2. file' \in [Homes -> Auth]
    BY <1>8 DEF CopyIn, TypeOK
  <2>3. strayed' \in [Homes -> BOOLEAN]
    BY <1>8, Zenon DEF CopyIn, TypeOK
  <2> QED
    BY <1>8, <2>1, <2>2, <2>3 DEF CopyIn, TypeOK
<1>9. CASE UNCHANGED vars
  BY <1>9 DEF vars, TypeOK
<1> QED
  BY <1>1, <1>2, <1>3, <1>4, <1>5, <1>6, <1>7, <1>8, <1>9 DEF Next

\* Tokens, locks, mutexes and workers stay what they are said to be.
THEOREM TypeCorrect == Spec => []TypeOK
<1>1. Init => TypeOK
  BY InitIInv DEF IInv
<1> QED
  BY <1>1, NextType, PTL DEF Spec

-----------------------------------------------------------------------------
(***************************************************************************)
(* The steps that leave a home alone                                       *)
(***************************************************************************)

\* The lock of a home and the worker that renews it stay as they are.
Steady(h) ==
  /\ lock'[h] = lock[h]
  /\ \A v \in Workers : worker'[v] = worker[v] \/ (~Renews(v, h) /\ ~Renews(v, h)')

LEMMA SteadyHome ==
  ASSUME IInv, NEW h \in Homes, Steady(h)
  PROVE  /\ LockOwned(h)'
         /\ OnItsWay(h)' <=> OnItsWay(h)
         /\ lock[h] # Nobody => worker'[lock[h]] = worker[lock[h]]
         /\ Held(h)' = IF OnItsWay(h) THEN Held(h) ELSE file'[h].refresh
<1>1. HomeInv(h) /\ LockOwned(h)
  BY DEF IInv, HomeInv
<1>2. LockOwned(h)'
  BY <1>1, Zenon DEF LockOwned, Steady, Renews
<1>3. lock[h] # Nobody => worker'[lock[h]] = worker[lock[h]]
  <2>1. lock[h] \in Workers \cup {Nobody}
    BY DEF IInv, TypeOK
  <2> QED
    BY <1>1, <2>1 DEF LockOwned, Steady
<1>4. OnItsWay(h)' <=> OnItsWay(h)
  BY <1>3, Zenon DEF OnItsWay, Steady
<1>5. Held(h)' = IF OnItsWay(h) THEN Held(h) ELSE file'[h].refresh
  BY <1>3 DEF Held, Steady, OnItsWay
<1> QED
  BY <1>2, <1>3, <1>4, <1>5

\* All of the home stays as it is.
Untouched(h) ==
  /\ Steady(h)
  /\ file'[h] = file[h] /\ issued'[h] = issued[h] /\ live'[h] = live[h]
  /\ strayed'[h] = strayed[h]

LEMMA Frame ==
  ASSUME IInv, NEW h \in Homes, Untouched(h)
  PROVE  HomeInv(h)' /\ Held(h)' = Held(h)
<1>1. HomeInv(h) /\ lock'[h] = lock[h]
  BY DEF IInv, HomeInv, Untouched, Steady
<1>2. /\ LockOwned(h)' /\ (OnItsWay(h)' <=> OnItsWay(h))
      /\ lock[h] # Nobody => worker'[lock[h]] = worker[lock[h]]
      /\ Held(h)' = IF OnItsWay(h) THEN Held(h) ELSE file'[h].refresh
  BY SteadyHome DEF Untouched
<1>3. Held(h)' = Held(h)
  BY <1>2 DEF Held, OnItsWay, Untouched
<1>4. OnItsWay(h) => (AnswerUsable(h) <=> AnswerUsable(h)')
  BY <1>1, <1>2, Zenon DEF OnItsWay, AnswerUsable, FileUsable, Untouched
<1>5. FileUsable(h) <=> FileUsable(h)'
  BY Zenon DEF FileUsable, Untouched
<1>6. /\ ~strayed'[h] /\ OnItsWay(h)' => AnswerUsable(h)'
      /\ ~strayed'[h] /\ ~OnItsWay(h)' => FileUsable(h)'
  BY <1>1, <1>2, <1>4, <1>5, Zenon DEF HomeInv, Untouched
<1>7. ~strayed'[h] /\ lock'[h] # Nobody /\ worker'[lock'[h]].pc = "asked"
        => worker'[lock'[h]].sent \in live'[h]
  BY <1>1, <1>2 DEF HomeInv, Untouched
<1>8. \A n \in live'[h] : n <= issued'[h]
  BY <1>1 DEF HomeInv, Untouched
<1> QED
  BY <1>2, <1>3, <1>6, <1>7, <1>8 DEF HomeInv

\* What a step leaves alone is a stutter of TokenCustody.
LEMMA Stutter ==
  ASSUME IInv, NEW h \in Homes, Untouched(h)
  PROVE  HomeInv(h)' /\ CustodyStep(h)
<1>1. HomeInv(h)' /\ Held(h)' = Held(h)
  BY Frame
<1>2. UNCHANGED Custody(h)!custodyVars
  BY <1>1 DEF Custody!custodyVars, Untouched
<1> QED
  BY <1>1, <1>2 DEF CustodyStep

\* A worker that renews nothing does something else.
LEMMA Quiet ==
  ASSUME IInv, NEW w \in Workers, worker[w].pc \notin Locking, worker'[w].pc \notin Locking,
         \A v \in Workers : v # w => worker'[v] = worker[v],
         UNCHANGED <<tokenVars, lock>>, NEW h \in Homes
  PROVE  HomeInv(h)' /\ CustodyStep(h)
<1>1. ~Renews(w, h) /\ ~Renews(w, h)'
  BY DEF Renews
<1>2. Untouched(h)
  BY <1>1, Zenon DEF Untouched, Steady, tokenVars
<1> QED
  BY <1>2, Stutter

\* The renewal of another home.
LEMMA OtherHome ==
  ASSUME IInv, NEW w \in Workers, NEW h \in Homes, h # worker[w].home,
         h # worker'[w].home, \A v \in Workers : v # w => worker'[v] = worker[v],
         file'[h] = file[h] /\ issued'[h] = issued[h] /\ live'[h] = live[h],
         strayed'[h] = strayed[h] /\ lock'[h] = lock[h]
  PROVE  HomeInv(h)' /\ CustodyStep(h)
<1>1. Untouched(h)
  BY Zenon DEF Untouched, Steady, Renews
<1> QED
  BY <1>1, Stutter

\* The worker that renews a home holds its lock, and nobody else renews it.
LEMMA Renewer ==
  ASSUME IInv, NEW w \in Workers, worker[w].pc \in Locking
  PROVE  /\ worker[w].home \in Homes
         /\ lock[worker[w].home] = w /\ w # Nobody
         /\ \A v \in Workers : v # w => ~Renews(v, worker[w].home)
<1>1. worker[w].home \in Homes
  BY WorkerFacts DEF IInv
<1>2. LockOwned(worker[w].home)
  BY <1>1 DEF IInv, HomeInv
<1>3. lock[worker[w].home] = w
  BY <1>2 DEF LockOwned, Renews
<1> QED
  BY <1>1, <1>2, <1>3, AuthRefreshAssumption DEF LockOwned

LEMMA ExchangeStep ==
  ASSUME IInv, NEW w \in Workers, Exchange(w), NEW h \in Homes
  PROVE  HomeInv(h)' /\ CustodyStep(h)
<1> DEFINE g   == worker[w].home
           new == issued[g] + 1
           old == worker[w].sent
<1>t. /\ g \in Homes /\ issued[g] \in Nat /\ new \in Nat /\ new \notin live[g]
      /\ old \in live[g] /\ old # new
  <2>1. g \in Homes
    BY WorkerFacts DEF IInv
  <2>2. \A n \in live[g] : n <= issued[g]
    BY <2>1 DEF IInv, HomeInv
  <2>3. issued[g] \in Nat /\ old \in live[g] /\ live[g] \in SUBSET Nat
    BY <2>1 DEF Exchange, IInv, TypeOK
  <2> QED
    BY <2>1, <2>2, <2>3
<1>l. lock[g] = w /\ w # Nobody /\ \A v \in Workers : v # w => ~Renews(v, g)
  BY Renewer DEF Exchange, Locking
<1>o. \A v \in Workers : v # w => worker'[v] = worker[v]
  BY DEF Exchange, Set, IInv, TypeOK
<1>w. /\ worker'[w].pc = "answered" /\ worker'[w].home = g /\ worker'[w].sent = old
      /\ worker[w].pc = "asked"
  <2>1. PICK auth : worker' = [worker EXCEPT ![w] =
                      [worker[w] EXCEPT !.pc = "answered", !.got = auth]]
    BY DEF Exchange, Set
  <2>2. worker'[w] = [worker[w] EXCEPT !.pc = "answered", !.got = auth]
    BY <2>1 DEF IInv, TypeOK
  <2>3. worker[w] \in Worker
    BY DEF IInv, TypeOK
  <2>4. worker[w].pc = "asked"
    BY DEF Exchange
  <2> QED
    BY <2>2, <2>3, <2>4 DEF Worker
<1>u. UNCHANGED <<file, lock>> /\ issued' = [issued EXCEPT ![g] = new]
  BY DEF Exchange
<1>1. CASE h # g
  <2>1. live'[h] = live[h] /\ strayed'[h] = strayed[h] /\ issued'[h] = issued[h]
    BY <1>1 DEF Exchange, IInv, TypeOK
  <2> QED
    BY <1>1, <1>o, <1>w, <1>u, <2>1, OtherHome
<1>2. CASE h = g
  <2>1. LockOwned(h)'
    BY <1>2, <1>l, <1>o, <1>w, <1>u DEF LockOwned, Renews, Locking
  <2>2. issued'[h] = new
    BY <1>2, <1>u, <1>t DEF IInv, TypeOK
  <2>3. OnItsWay(h)' /\ lock'[h] = w
    BY <1>2, <1>l, <1>w, <1>u DEF OnItsWay
  <2>4. Held(h)' = worker'[w].got.refresh
    BY <2>3, <1>l, <1>w DEF Held
  <2>5. Held(h) = file[h].refresh
    BY <1>2, <1>l, <1>w DEF Held
  <2>6. CASE /\ live' = [live EXCEPT ![g] = (live[g] \ {old}) \cup {new}]
             /\ strayed' = [strayed EXCEPT ![g] = FALSE]
             /\ Set(w, [worker[w] EXCEPT !.pc = "answered",
                                        !.got = [access |-> new, refresh |-> new]])
    <3>1. live'[h] = (live[h] \ {old}) \cup {new} /\ strayed'[h] = FALSE
      BY <1>2, <2>6 DEF IInv, TypeOK
    <3>2. worker'[w].got.refresh = new
      BY <2>6 DEF Set, IInv, TypeOK, Worker
    <3>3. AnswerUsable(h)'
      BY <2>3, <3>1, <3>2, <1>w, <1>t DEF AnswerUsable
    <3>4. \A n \in live'[h] : n <= issued'[h]
      BY <2>2, <3>1, <1>2, <1>t DEF IInv, HomeInv, TypeOK
    <3>5. HomeInv(h)'
      BY <2>1, <2>3, <3>3, <3>4, <1>w DEF HomeInv
    <3>6. Custody(h)!Renew
      BY <1>2, <1>t, <2>4, <3>1, <3>2 DEF Custody!Renew, Custody!Exchanged
    <3> QED
      BY <3>5, <3>6 DEF CustodyStep, Custody!Next
  <2>7. CASE /\ Set(w, [worker[w] EXCEPT !.pc = "answered",
                                        !.got = [access |-> new, refresh |-> old]])
             /\ UNCHANGED <<live, strayed>>
    <3>2. worker'[w].got.refresh = old
      BY <2>7 DEF Set, IInv, TypeOK, Worker
    <3>3. ~strayed[h] => FileUsable(h)
      BY <1>2, <1>l, <1>w DEF IInv, HomeInv, OnItsWay
    <3>4. ~strayed'[h] => AnswerUsable(h)'
      BY <2>3, <2>7, <3>2, <3>3, <1>t, <1>2, <1>u DEF AnswerUsable, FileUsable
    <3>5. \A n \in live'[h] : n <= issued'[h]
      BY <2>2, <2>7, <1>2, <1>t DEF IInv, HomeInv, TypeOK
    <3>6. HomeInv(h)'
      BY <2>1, <2>3, <3>4, <3>5, <1>w DEF HomeInv
    <3>7. Custody(h)!Install
      BY <1>2, <1>t, <2>4, <2>7, <3>2 DEF Custody!Install
    <3> QED
      BY <3>6, <3>7 DEF CustodyStep, Custody!Next
  <2> QED
    BY <2>6, <2>7 DEF Exchange
<1> QED
  BY <1>1, <1>2

\* A renewal that ends leaves a usable token behind.
LEMMA EndRecord ==
  ASSUME IInv, NEW w \in Workers, NEW pc \in Pcs, End(w, pc)
  PROVE  /\ worker'[w].pc = pc /\ worker'[w].home = worker[w].home
         /\ \A v \in Workers : v # w => worker'[v] = worker[v]
<1>1. worker'[w] = [worker[w] EXCEPT !.pc = pc, !.failed = 0, !.got = Unreadable, !.sent = 0]
  BY DEF End, Set, IInv, TypeOK
<1>2. worker[w] \in Worker
  BY DEF IInv, TypeOK
<1>3. worker'[w].pc = pc /\ worker'[w].home = worker[w].home
  BY <1>1, <1>2 DEF Worker
<1> QED
  BY <1>3 DEF End, Set, IInv, TypeOK

\* The worker that renewed a home is done with it and unlocks it.
LEMMA Unlocked ==
  ASSUME IInv, NEW w \in Workers, worker[w].pc \in Locking, Unlock(w),
         NEW pc \in Pcs \ Locking, End(w, pc),
         NEW g \in Homes, g = worker[w].home
  PROVE  /\ lock'[g] = Nobody
         /\ LockOwned(g)'
         /\ \A h \in Homes : h # g => lock'[h] = lock[h]
<1>1. lock[g] = w /\ \A v \in Workers : v # w => ~Renews(v, g)
  BY Renewer
<1>2. lock'[g] = Nobody /\ \A h \in Homes : h # g => lock'[h] = lock[h]
  BY <1>1 DEF Unlock, IInv, TypeOK
<1>3. \A v \in Workers : ~Renews(v, g)'
  BY <1>1, EndRecord DEF Renews
<1>4. LockOwned(g)'
  BY <1>2, <1>3, AuthRefreshAssumption DEF LockOwned
<1> QED
  BY <1>2, <1>4

LEMMA NoExchangeStep ==
  ASSUME IInv, NEW w \in Workers, NoExchange(w) \/ Reload(w), NEW h \in Homes
  PROVE  HomeInv(h)' /\ CustodyStep(h)
<1> DEFINE g == worker[w].home
<1>1. /\ worker[w].pc \in Locking /\ worker[w].pc # "answered" /\ Unlock(w)
      /\ UNCHANGED tokenVars
  BY DEF NoExchange, Reload, Locking
<1>2. PICK pc \in Pcs \ Locking : End(w, pc)
  BY DEF NoExchange, Reload, Locking, Pcs
<1>3. /\ worker'[w].home = g /\ \A v \in Workers : v # w => worker'[v] = worker[v]
  BY <1>2, EndRecord
<1>4. /\ g \in Homes /\ lock[g] = w /\ lock'[g] = Nobody
      /\ h = g => LockOwned(h)'
      /\ \A k \in Homes : k # g => lock'[k] = lock[k]
  BY <1>1, <1>2, Unlocked, Renewer
<1>5. CASE h # g
  BY <1>1, <1>3, <1>4, <1>5, OtherHome DEF tokenVars
<1>6. CASE h = g
  <2>1. ~strayed[h] => FileUsable(h)
    BY <1>1, <1>4, <1>6 DEF IInv, HomeInv, OnItsWay
  <2>2. ~strayed'[h] => FileUsable(h)' /\ ~OnItsWay(h)'
    BY <2>1, <1>1, <1>4, <1>6 DEF FileUsable, OnItsWay, tokenVars
  <2>3. HomeInv(h)'
    BY <2>2, <1>1, <1>4, <1>6 DEF HomeInv, IInv, tokenVars
  <2>4. Held(h) = file[h].refresh /\ Held(h)' = file[h].refresh
    BY <1>1, <1>4, <1>6 DEF Held, tokenVars
  <2>5. UNCHANGED Custody(h)!custodyVars
    BY <2>4, <1>1 DEF Custody!custodyVars, tokenVars
  <2> QED
    BY <2>3, <2>5 DEF CustodyStep
<1> QED
  BY <1>5, <1>6

LEMMA AbandonStep ==
  ASSUME IInv, NEW w \in Workers, Abandon(w), NEW h \in Homes
  PROVE  HomeInv(h)' /\ CustodyStep(h)
<1> DEFINE g == worker[w].home
<1>1. /\ worker[w].pc = "answered" /\ worker[w].pc \in Locking /\ Unlock(w)
      /\ UNCHANGED <<file, issued, live>>
      /\ strayed' = [strayed EXCEPT ![g] = @ \/ worker[w].got.refresh # worker[w].sent]
  BY DEF Abandon, Locking
<1>2. "failed" \in Pcs \ Locking /\ End(w, "failed")
  BY DEF Abandon, Locking, Pcs
<1>3. /\ worker'[w].home = g /\ \A v \in Workers : v # w => worker'[v] = worker[v]
  BY <1>2, EndRecord
<1>4. /\ g \in Homes /\ lock[g] = w /\ w # Nobody /\ lock'[g] = Nobody
      /\ h = g => LockOwned(h)'
      /\ \A k \in Homes : k # g => lock'[k] = lock[k]
  BY <1>1, <1>2, Unlocked, Renewer
<1>5. CASE h # g
  <2>1. strayed'[h] = strayed[h]
    BY <1>1, <1>5 DEF IInv, TypeOK
  <2> QED
    BY <1>1, <1>3, <1>4, <1>5, <2>1, OtherHome
<1>6. CASE h = g
  <2>1. strayed'[h] <=> (strayed[h] \/ worker[w].got.refresh # worker[w].sent)
    BY <1>1, <1>6, Zenon DEF IInv, TypeOK
  <2>2. ~strayed[h] => AnswerUsable(h)
    BY <1>1, <1>4, <1>6 DEF IInv, HomeInv, OnItsWay
  <2>3. ~strayed'[h] => FileUsable(h)' /\ ~OnItsWay(h)'
    BY <2>1, <2>2, <1>1, <1>4, <1>6 DEF AnswerUsable, FileUsable, OnItsWay
  <2>4. HomeInv(h)'
    BY <2>3, <1>1, <1>4, <1>6 DEF HomeInv, IInv
  <2>5. Held(h)' = file[h].refresh /\ file[h].refresh \in Nat
    BY <1>1, <1>4, <1>6 DEF Held, IInv, TypeOK, Auth
  <2>6. strayed'[h] \in BOOLEAN /\ strayed[h] \in BOOLEAN
    BY <1>1, <1>6, Zenon DEF IInv, TypeOK
  <2>7. CASE strayed'[h]
    <3>1. Custody(h)!Stray
      BY <2>5, <2>6, <2>7, <1>1 DEF Custody!Stray
    <3> QED
      BY <2>4, <3>1 DEF CustodyStep, Custody!Next
  <2>8. CASE ~strayed'[h]
    <3>1. file[h].refresh \in live[h] \cup {0}
      BY <2>8, <2>3, <1>1 DEF FileUsable
    <3>2. Custody(h)!Install
      BY <2>5, <2>6, <2>8, <3>1, <1>1 DEF Custody!Install
    <3> QED
      BY <2>4, <3>2 DEF CustodyStep, Custody!Next
  <2> QED
    BY <2>7, <2>8
<1> QED
  BY <1>5, <1>6

LEMMA HeldNat ==
  ASSUME TypeOK, NEW h \in Homes
  PROVE  Held(h) \in Nat
<1>1. file[h].refresh \in Nat
  BY DEF TypeOK, Auth
<1>2. lock[h] # Nobody => worker[lock[h]].got.refresh \in Nat
  <2>1. SUFFICES ASSUME lock[h] # Nobody PROVE worker[lock[h]].got.refresh \in Nat
    OBVIOUS
  <2>2. lock[h] \in Workers
    BY <2>1 DEF TypeOK
  <2>3. worker[lock[h]].got \in Auth
    BY <2>2, WorkerFacts
  <2> QED
    BY <2>3 DEF Auth
<1> QED
  BY <1>1, <1>2 DEF Held

LEMMA PersistStep ==
  ASSUME IInv, NEW w \in Workers, Persist(w), NEW h \in Homes
  PROVE  HomeInv(h)' /\ CustodyStep(h)
<1> DEFINE g   == worker[w].home
           ren == [worker[w] EXCEPT !.pc = "persisted", !.got = Unreadable, !.sent = 0]
           ws  == [worker EXCEPT ![w] = ren]
<1>1. /\ worker[w].pc = "answered" /\ worker[w].pc \in Locking
      /\ file' = [file EXCEPT ![g] = worker[w].got]
      /\ worker' = Replaced(g, ws)
      /\ UNCHANGED <<issued, live, strayed, lock>>
  BY DEF Persist, Locking
<1>2. g \in Homes /\ lock[g] = w /\ w # Nobody /\ \A v \in Workers : v # w => ~Renews(v, g)
  BY <1>1, Renewer
<1>3. ws[w] = ren /\ ren.pc = "persisted" /\ ren.home = g
  <2>1. worker[w] \in Worker /\ ws[w] = ren
    BY DEF IInv, TypeOK
  <2> QED
    BY <2>1 DEF Worker
<1>4. worker'[w] = ren
  BY <1>1, <1>3 DEF Replaced
<1>5. ASSUME NEW v \in Workers, v # w
      PROVE  worker'[v] = worker[v] \/ (worker[v].pc \notin Locking /\ worker'[v].pc \notin Locking)
  <2>1. ws[v] = worker[v] /\ worker[v] \in Worker
    BY <1>5 DEF IInv, TypeOK
  <2>2. CASE worker[v].pc = "importing"
    <3>1. [worker[v] EXCEPT !.pc = "register"].pc = "register"
      BY <2>1 DEF Worker
    <3> QED
      BY <3>1, <2>1, <2>2, <1>1 DEF Replaced, Locking
  <2>3. CASE worker[v].pc # "importing"
    BY <2>1, <2>3, <1>1 DEF Replaced
  <2> QED
    BY <2>2, <2>3
<1>6. CASE h # g
  <2>1. Untouched(h)
    BY <1>1, <1>3, <1>4, <1>5, <1>6 DEF Untouched, Steady, Renews, IInv, TypeOK
  <2> QED
    BY <2>1, Stutter
<1>7. CASE h = g
  <2>1. file'[h] = worker[w].got
    BY <1>1, <1>7 DEF IInv, TypeOK
  <2>2. LockOwned(h)'
    <3>1. lock'[h] = w /\ Renews(w, h)'
      BY <1>1, <1>2, <1>3, <1>4, <1>7 DEF Renews, Locking
    <3>2. ASSUME NEW v \in Workers, v # w
          PROVE  ~Renews(v, h)'
      BY <1>2, <1>5, <1>7, <3>2 DEF Renews
    <3> QED
      BY <1>2, <3>1, <3>2 DEF LockOwned
  <2>3. ~OnItsWay(h)' /\ lock'[h] = w /\ worker'[lock'[h]].pc = "persisted"
    BY <1>1, <1>2, <1>3, <1>4, <1>7 DEF OnItsWay
  <2>4. ~strayed[h] => AnswerUsable(h)
    BY <1>1, <1>2, <1>7 DEF IInv, HomeInv, OnItsWay
  <2>5. ~strayed'[h] => FileUsable(h)'
    BY <2>1, <2>4, <1>1, <1>2, <1>7 DEF AnswerUsable, FileUsable
  <2>6. HomeInv(h)'
    BY <2>2, <2>3, <2>5, <1>1 DEF HomeInv, IInv
  <2>7. Held(h)' = worker[w].got.refresh
    BY <2>1, <2>3 DEF Held
  <2>8. Held(h) = worker[w].got.refresh
    BY <1>1, <1>2, <1>7 DEF Held
  <2>9. UNCHANGED Custody(h)!custodyVars
    BY <2>7, <2>8, <1>1 DEF Custody!custodyVars
  <2> QED
    BY <2>6, <2>9 DEF CustodyStep
<1> QED
  BY <1>6, <1>7

\* The token that is asked for is the one on file, under the lock.
LEMMA AskStep ==
  ASSUME IInv, NEW w \in Workers, worker[w].pc = "lock",
         lock[worker[w].home] = Nobody,
         Set(w, [worker[w] EXCEPT !.pc = "asked", !.failed = 0,
                                  !.sent = file[worker[w].home].refresh]),
         lock' = [lock EXCEPT ![worker[w].home] = w], file[worker[w].home].refresh # 0,
         UNCHANGED tokenVars, NEW h \in Homes
  PROVE  HomeInv(h)' /\ CustodyStep(h)
<1> DEFINE g == worker[w].home
<1>1. g \in Homes /\ w # Nobody
  BY WorkerFacts, AuthRefreshAssumption DEF IInv
<1>2. /\ worker'[w].pc = "asked" /\ worker'[w].home = g
      /\ worker'[w].sent = file[g].refresh
  BY DEF Set, IInv, TypeOK, Worker
<1>3. \A v \in Workers : v # w => worker'[v] = worker[v]
  BY DEF Set, IInv, TypeOK
<1>4. CASE h # g
  <2>1. lock'[h] = lock[h]
    BY <1>4 DEF IInv, TypeOK
  <2> QED
    BY <2>1, <1>2, <1>3, <1>4, OtherHome DEF tokenVars
<1>5. CASE h = g
  <2>1. lock[h] = Nobody /\ lock'[h] = w
    BY <1>1, <1>5 DEF IInv, TypeOK
  <2>2. \A v \in Workers : ~Renews(v, h)
    BY <2>1, AuthRefreshAssumption DEF IInv, HomeInv, LockOwned
  <2>3. LockOwned(h)'
    BY <2>1, <2>2, <1>2, <1>3, <1>5 DEF LockOwned, Renews, Locking
  <2>4. ~OnItsWay(h) /\ ~OnItsWay(h)'
    BY <2>1, <1>2 DEF OnItsWay
  <2>5. ~strayed[h] => FileUsable(h)
    BY <2>4 DEF IInv, HomeInv
  <2>6. ~strayed'[h] => FileUsable(h)' /\ worker'[w].sent \in live'[h]
    BY <2>5, <1>2, <1>5 DEF FileUsable, tokenVars
  <2>7. HomeInv(h)'
    BY <2>1, <2>3, <2>4, <2>6 DEF HomeInv, IInv, tokenVars
  <2>8. Held(h) = file[h].refresh /\ Held(h)' = file[h].refresh
    BY <2>4 DEF Held, OnItsWay, tokenVars
  <2>9. UNCHANGED Custody(h)!custodyVars
    BY <2>8 DEF Custody!custodyVars, tokenVars
  <2> QED
    BY <2>7, <2>9 DEF CustodyStep
<1> QED
  BY <1>4, <1>5

\* A usable token is put in the place of what auth.json had: if a successor of that
\* is on its way, it will go on to replace what was put there.
LEMMA FileReplaced ==
  ASSUME IInv, NEW h \in Homes, Steady(h),
         UNCHANGED <<live, issued>>, file'[h] \in Auth, strayed'[h] \in {FALSE, strayed[h]},
         OnItsWay(h) => strayed'[h] = strayed[h],
         ~strayed'[h] => FileUsable(h)' /\ (strayed[h] => lock[h] = Nobody),
         FileUsable(h)'
  PROVE  HomeInv(h)' /\ CustodyStep(h)
<1>1. HomeInv(h) /\ lock'[h] = lock[h]
  BY DEF IInv, HomeInv, Steady
<1>2. /\ LockOwned(h)' /\ (OnItsWay(h)' <=> OnItsWay(h))
      /\ lock[h] # Nobody => worker'[lock[h]] = worker[lock[h]]
      /\ Held(h)' = IF OnItsWay(h) THEN Held(h) ELSE file'[h].refresh
  BY SteadyHome
<1>3. OnItsWay(h) /\ ~strayed'[h] => AnswerUsable(h)'
  BY <1>1, <1>2 DEF OnItsWay, AnswerUsable, HomeInv
<1>a. ~strayed'[h] /\ lock'[h] # Nobody /\ worker'[lock'[h]].pc = "asked"
        => worker'[lock'[h]].sent \in live'[h]
  BY <1>1, <1>2 DEF HomeInv
<1>b. /\ ~strayed'[h] /\ OnItsWay(h)' => AnswerUsable(h)'
      /\ ~strayed'[h] /\ ~OnItsWay(h)' => FileUsable(h)'
  BY <1>2, <1>3, Zenon
<1>4. HomeInv(h)'
  BY <1>1, <1>2, <1>a, <1>b DEF HomeInv
<1>5. CASE OnItsWay(h)
  <2>1. UNCHANGED Custody(h)!custodyVars
    BY <1>2, <1>5 DEF Custody!custodyVars
  <2> QED
    BY <1>4, <2>1 DEF CustodyStep
<1>6. CASE ~OnItsWay(h)
  <2>1. Held(h)' \in live[h] \cup {0}
    BY <1>2, <1>6 DEF FileUsable
  <2>2. Custody(h)!Install
    BY <2>1 DEF Custody!Install
  <2> QED
    BY <1>4, <2>2 DEF CustodyStep, Custody!Next
<1> QED
  BY <1>5, <1>6

LEMMA StartImportStep ==
  ASSUME IInv, NEW w \in Workers, NEW k \in Homes, StartImport(w, k), NEW h \in Homes
  PROVE  HomeInv(h)' /\ CustodyStep(h)
<1> DEFINE rec == [Resting EXCEPT !.role = "import", !.home = k, !.pc = "importing"]
<1>1. /\ worker[w].pc = "idle" /\ worker' = [worker EXCEPT ![w] = rec]
      /\ file' = [file EXCEPT ![k] = Unreadable]
      /\ UNCHANGED <<issued, live, away, strayed, lock, mutex, disabled>>
  BY DEF StartImport, Set
<1>2. worker'[w].pc = "importing" /\ \A v \in Workers : v # w => worker'[v] = worker[v]
  BY <1>1, RestingWorker DEF IInv, TypeOK, Worker, Resting
<1>3. Steady(h)
  BY <1>1, <1>2 DEF Steady, Renews, Locking
<1>4. CASE h # k
  <2>1. Untouched(h)
    BY <1>1, <1>3, <1>4 DEF Untouched, IInv, TypeOK
  <2> QED
    BY <2>1, Stutter
<1>5. CASE h = k
  <2>1. file'[h] = Unreadable
    BY <1>1, <1>5 DEF IInv, TypeOK
  <2>2. file'[h] \in Auth /\ FileUsable(h)'
    BY <2>1 DEF Unreadable, Auth, FileUsable
  <2>3. strayed'[h] = strayed[h] /\ strayed[h] \in BOOLEAN
    BY <1>1 DEF IInv, TypeOK
  <2> QED
    BY <2>2, <2>3, <1>1, <1>3, FileReplaced
<1> QED
  BY <1>4, <1>5

LEMMA WriteImportStep ==
  ASSUME IInv, NEW w \in Workers, WriteImport(w), NEW h \in Homes
  PROVE  HomeInv(h)' /\ CustodyStep(h)
<1> DEFINE g   == worker[w].home
           new == issued[g] + 1
<1>1. /\ worker[w].pc = "importing" /\ Go(w, "register")
      /\ issued' = [issued EXCEPT ![g] = new]
      /\ strayed' = [strayed EXCEPT ![g] = strayed[g] /\ lock[g] # Nobody]
      /\ UNCHANGED lock
  BY DEF WriteImport
<1>2. g \in Homes /\ new \in Nat /\ issued[g] \in Nat
  BY WorkerFacts DEF IInv, TypeOK
<1>3. worker'[w].pc = "register" /\ \A v \in Workers : v # w => worker'[v] = worker[v]
  BY <1>1 DEF Go, Set, IInv, TypeOK, Worker
<1>4. Steady(h)
  BY <1>1, <1>3 DEF Steady, Renews, Locking
<1>5. CASE h # g
  <2>1. strayed'[h] = strayed[h] /\ issued'[h] = issued[h]
    BY <1>1, <1>5 DEF IInv, TypeOK
  <2>2. file'[h] = file[h] /\ live'[h] = live[h]
    BY <1>5 DEF WriteImport, IInv, TypeOK
  <2>3. Untouched(h)
    BY <1>4, <2>1, <2>2 DEF Untouched
  <2> QED
    BY <2>3, Stutter
<1>6. CASE h = g
  <2>1. issued'[h] = new /\ (strayed'[h] <=> (strayed[h] /\ lock[h] # Nobody))
        /\ strayed[h] \in BOOLEAN /\ strayed'[h] \in BOOLEAN
    BY <1>1, <1>2, <1>6, Zenon DEF IInv, TypeOK
  <2>2. HomeInv(h) /\ lock'[h] = lock[h]
    BY <1>1 DEF IInv, HomeInv
  <2>3. new \notin live[h] /\ \A n \in live[h] : n <= new
    BY <2>2, <1>2, <1>6 DEF HomeInv, IInv, TypeOK
  <2>4. /\ LockOwned(h)' /\ (OnItsWay(h)' <=> OnItsWay(h))
        /\ lock[h] # Nobody => worker'[lock[h]] = worker[lock[h]]
        /\ Held(h)' = IF OnItsWay(h) THEN Held(h) ELSE file'[h].refresh
    BY <1>4, SteadyHome
  <2>5. live[h] \subseteq live'[h] /\ live'[h] \subseteq live[h] \cup {new}
        /\ file'[h].refresh \in live'[h] \cup {0}
    BY <1>6, <1>2 DEF WriteImport, IInv, TypeOK
  <2>6. FileUsable(h)'
    BY <2>5 DEF FileUsable
  <2>7. OnItsWay(h) /\ ~strayed'[h] => AnswerUsable(h)'
    BY <2>1, <2>2, <2>4, <2>5, <2>6 DEF OnItsWay, AnswerUsable, HomeInv
  <2>8. \A n \in live'[h] : n <= issued'[h]
    BY <2>1, <2>3, <2>5, <1>2
  <2>a. ~strayed'[h] /\ lock'[h] # Nobody /\ worker'[lock'[h]].pc = "asked"
          => worker'[lock'[h]].sent \in live'[h]
    BY <2>1, <2>2, <2>4, <2>5 DEF HomeInv
  <2>b. /\ ~strayed'[h] /\ OnItsWay(h)' => AnswerUsable(h)'
        /\ ~strayed'[h] /\ ~OnItsWay(h)' => FileUsable(h)'
    BY <2>4, <2>6, <2>7, Zenon
  <2>9. HomeInv(h)'
    BY <2>4, <2>8, <2>a, <2>b DEF HomeInv
  <2>10. OnItsWay(h) => strayed'[h] = strayed[h]
    BY <2>1 DEF OnItsWay
  <2>11. CASE /\ file' = [file EXCEPT ![g] = [access |-> new, refresh |-> new]]
              /\ live' = [live EXCEPT ![g] = live[g] \cup {new}]
    <3>1. live'[h] = live[h] \cup {new} /\ file'[h].refresh = new
      BY <2>11, <1>6, <1>2 DEF IInv, TypeOK
    <3>2. Custody(h)!LogIn
      BY <3>1, <2>1, <2>3, <2>4, <2>10 DEF Custody!LogIn
    <3> QED
      BY <2>9, <3>2 DEF CustodyStep, Custody!Next
  <2>12. CASE /\ file' = [file EXCEPT ![g] = [access |-> new, refresh |-> 0]]
              /\ UNCHANGED live
    <3>1. file'[h].refresh = 0
      BY <2>12, <1>6, <1>2 DEF IInv, TypeOK
    <3>2. CASE OnItsWay(h)
      BY <3>2, <2>4, <2>9, <2>10, <2>12 DEF CustodyStep, Custody!custodyVars
    <3>3. CASE ~OnItsWay(h)
      <4>1. Custody(h)!Install
        BY <3>1, <3>3, <2>1, <2>4, <2>12 DEF Custody!Install
      <4> QED
        BY <2>9, <4>1 DEF CustodyStep, Custody!Next
    <3> QED
      BY <3>2, <3>3
  <2> QED
    BY <2>11, <2>12 DEF WriteImport
<1> QED
  BY <1>5, <1>6

LEMMA RenewElsewhereStep ==
  ASSUME IInv, NEW k \in Homes, RenewElsewhere(k), NEW h \in Homes
  PROVE  HomeInv(h)' /\ CustodyStep(h)
<1> DEFINE new == issued[k] + 1
           old == away[k].refresh
<1>1. /\ old \in live[k] /\ UNCHANGED <<file, lock, worker>>
      /\ issued' = [issued EXCEPT ![k] = new]
      /\ live' = [live EXCEPT ![k] = (live[k] \ {old}) \cup {new}]
      /\ strayed' = [strayed EXCEPT ![k] = TRUE]
  BY DEF RenewElsewhere
<1>2. Steady(h)
  BY <1>1 DEF Steady
<1>3. CASE h # k
  <2>1. Untouched(h)
    BY <1>1, <1>2, <1>3 DEF Untouched, IInv, TypeOK
  <2> QED
    BY <2>1, Stutter
<1>4. CASE h = k
  <2>1. /\ issued'[h] = new /\ issued[h] \in Nat /\ live[h] \in SUBSET Nat
        /\ live'[h] = (live[h] \ {old}) \cup {new} /\ strayed'[h] = TRUE
    BY <1>1, <1>4 DEF IInv, TypeOK
  <2>2. \A n \in live[h] : n <= issued[h]
    BY DEF IInv, HomeInv
  <2>3. LockOwned(h)'
    BY <1>2, SteadyHome
  <2>4. \A n \in live'[h] : n <= issued'[h]
    BY <2>1, <2>2, <1>4
  <2>5. HomeInv(h)'
    BY <2>1, <2>3, <2>4 DEF HomeInv
  <2>6. Held(h)' = Held(h) /\ Held(h) \in Nat
    BY <1>1, HeldNat DEF Held, IInv
  <2>7. new \notin live[h] /\ new \in live'[h] \ live[h]
    BY <2>1, <2>2, <1>4
  <2>8. Custody(h)!Stray
    BY <1>1, <1>4, <2>1, <2>6, <2>7 DEF Custody!Stray, Custody!Exchanged
  <2> QED
    BY <2>5, <2>8 DEF CustodyStep, Custody!Next
<1> QED
  BY <1>3, <1>4

LEMMA CopyInStep ==
  ASSUME IInv, NEW k \in Homes, CopyIn(k), NEW h \in Homes
  PROVE  HomeInv(h)' /\ CustodyStep(h)
<1>1. /\ file' = [file EXCEPT ![k] = away[k]]
      /\ strayed' = [strayed EXCEPT ![k] = \/ away[k].refresh \notin live[k] \cup {0}
                                           \/ strayed[k] /\ lock[k] # Nobody]
      /\ worker' = Replaced(k, worker)
      /\ UNCHANGED <<issued, live, lock>>
  BY DEF CopyIn
<1>2. ASSUME NEW v \in Workers
      PROVE  worker'[v] = worker[v] \/ (worker[v].pc \notin Locking /\ worker'[v].pc \notin Locking)
  <2>1. worker[v] \in Worker
    BY DEF IInv, TypeOK
  <2>2. [worker[v] EXCEPT !.pc = "register"].pc = "register"
    BY <2>1 DEF Worker
  <2> QED
    BY <2>2, <1>1 DEF Replaced, Locking
<1>3. Steady(h)
  BY <1>1, <1>2 DEF Steady, Renews
<1>4. CASE h # k
  <2>1. Untouched(h)
    BY <1>1, <1>3, <1>4 DEF Untouched, IInv, TypeOK
  <2> QED
    BY <2>1, Stutter
<1>5. CASE h = k
  <2>1. /\ strayed'[h] <=> \/ away[h].refresh \notin live[h] \cup {0}
                           \/ strayed[h] /\ lock[h] # Nobody
        /\ strayed[h] \in BOOLEAN /\ strayed'[h] \in BOOLEAN
    BY <1>1, <1>5, Zenon DEF IInv, TypeOK
  <2>2. file'[h] = away[h] /\ file'[h] \in Auth
    BY <1>1, <1>5 DEF IInv, TypeOK
  <2>3. CASE away[h].refresh \in live[h] \cup {0}
    <3>1. FileUsable(h)'
      BY <2>2, <2>3, <1>1 DEF FileUsable
    <3>2. strayed'[h] <=> (strayed[h] /\ lock[h] # Nobody)
      BY <2>1, <2>3
    <3>3. OnItsWay(h) => strayed'[h] = strayed[h]
      BY <3>2, <2>1 DEF OnItsWay
    <3> QED
      BY <1>1, <1>3, <2>1, <2>2, <3>1, <3>2, <3>3, FileReplaced
  <2>4. CASE away[h].refresh \notin live[h] \cup {0}
    <3>1. strayed'[h] = TRUE
      BY <2>1, <2>4
    <3>2. HomeInv(h)
      BY DEF IInv
    <3>3. /\ LockOwned(h)'
          /\ Held(h)' = IF OnItsWay(h) THEN Held(h) ELSE file'[h].refresh
      BY <1>3, SteadyHome
    <3>4. HomeInv(h)'
      BY <1>1, <3>1, <3>2, <3>3 DEF HomeInv
    <3>5. Held(h)' \in Nat
      BY <3>3, <2>2, HeldNat DEF IInv, Auth
    <3>6. Custody(h)!Stray
      BY <1>1, <3>1, <3>5 DEF Custody!Stray
    <3> QED
      BY <3>4, <3>6 DEF CustodyStep, Custody!Next
  <2> QED
    BY <2>3, <2>4
<1> QED
  BY <1>4, <1>5

LEMMA CrashStep ==
  ASSUME IInv, NEW p \in Procs, Crash(p), NEW h \in Homes
  PROVE  HomeInv(h)' /\ CustodyStep(h)
<1> DEFINE dying   == {w \in Workers : ProcOf[w] = p}
           InHand  == \E w \in dying : /\ worker[w].pc = "answered" /\ worker[w].home = h
                                       /\ worker[w].got.refresh # worker[w].sent
<1>1. /\ worker' = [w \in Workers |-> IF w \in dying THEN Resting ELSE worker[w]]
      /\ UNCHANGED <<file, issued, live>>
      /\ lock'[h] = IF lock[h] \in dying THEN Nobody ELSE lock[h]
  BY DEF Crash
<1>2. strayed'[h] <=> strayed[h] \/ InHand
  BY Zenon DEF Crash
<1>3. strayed[h] \in BOOLEAN /\ strayed'[h] \in BOOLEAN
  <2>1. TypeOK'
    BY NextType DEF IInv, Next
  <2> QED
    BY <2>1 DEF IInv, TypeOK
<1>4. HomeInv(h) /\ LockOwned(h)
  BY DEF IInv, HomeInv
<1>5. \A v \in dying : ~Renews(v, h)'
  BY <1>1 DEF Renews, Resting, Locking
<1>6. \A v \in Workers \ dying : worker'[v] = worker[v]
  BY <1>1
<1>7. CASE lock[h] \notin dying
  <2>1. \A v \in dying : ~Renews(v, h)
    BY <1>4, <1>7 DEF LockOwned
  <2>2. ~InHand
    BY <2>1 DEF Renews, Locking
  <2>3. strayed'[h] = strayed[h]
    BY <1>2, <1>3, <2>2
  <2>4. Untouched(h)
    BY <1>1, <1>5, <1>6, <1>7, <2>1, <2>3 DEF Untouched, Steady
  <2> QED
    BY <2>4, Stutter
<1>8. CASE lock[h] \in dying
  <2> DEFINE u == lock[h]
  <2>1. u \in Workers /\ u # Nobody /\ Renews(u, h) /\ lock'[h] = Nobody
    BY <1>1, <1>4, <1>8, AuthRefreshAssumption DEF LockOwned
  <2>2. \A v \in Workers : v # u => ~Renews(v, h)
    BY <1>4 DEF LockOwned
  <2>3. \A v \in Workers : ~Renews(v, h)'
    BY <1>5, <1>6, <1>8, <2>2 DEF Renews
  <2>4. LockOwned(h)' /\ ~OnItsWay(h)'
    BY <2>1, <2>3, AuthRefreshAssumption DEF LockOwned, OnItsWay
  <2>5. InHand <=> worker[u].pc = "answered" /\ worker[u].got.refresh # worker[u].sent
    BY <1>8, <2>1, <2>2 DEF Renews, Locking
  <2>6. ~strayed'[h] => FileUsable(h)
    BY <1>2, <1>4, <2>1, <2>5 DEF HomeInv, OnItsWay, AnswerUsable
  <2>7. FileUsable(h)' <=> FileUsable(h)
    BY <1>1 DEF FileUsable
  <2>8. HomeInv(h)'
    BY <1>1, <1>4, <2>1, <2>4, <2>6, <2>7 DEF HomeInv
  <2>9. Held(h)' = file[h].refresh /\ file[h].refresh \in Nat
    BY <1>1, <2>1 DEF Held, IInv, TypeOK, Auth
  <2>10. CASE strayed'[h]
    <3>1. Custody(h)!Stray
      BY <1>1, <1>3, <2>9, <2>10 DEF Custody!Stray
    <3> QED
      BY <2>8, <3>1 DEF CustodyStep, Custody!Next
  <2>11. CASE ~strayed'[h]
    <3>1. Custody(h)!Install
      BY <1>1, <1>3, <2>6, <2>9, <2>11 DEF Custody!Install, FileUsable
    <3> QED
      BY <2>8, <3>1 DEF CustodyStep, Custody!Next
  <2> QED
    BY <2>10, <2>11
<1> QED
  BY <1>7, <1>8

-----------------------------------------------------------------------------
(***************************************************************************)
(* All steps                                                               *)
(***************************************************************************)

\* What a worker does that renews nothing, by the way it changes its record.
LEMMA QuietSet ==
  ASSUME IInv, NEW w \in Workers, worker[w].pc \notin Locking,
         NEW rec \in Worker, Set(w, rec), rec.pc \notin Locking,
         UNCHANGED <<tokenVars, lock>>, NEW h \in Homes
  PROVE  HomeInv(h)' /\ CustodyStep(h)
<1>1. worker'[w] = rec /\ \A v \in Workers : v # w => worker'[v] = worker[v]
  BY DEF Set, IInv, TypeOK
<1> QED
  BY <1>1, Quiet

LEMMA QuietGo ==
  ASSUME IInv, NEW w \in Workers, worker[w].pc \notin Locking,
         NEW pc \in Pcs \ Locking, Go(w, pc) \/ End(w, pc),
         UNCHANGED <<tokenVars, lock>>, NEW h \in Homes
  PROVE  HomeInv(h)' /\ CustodyStep(h)
<1>1. CASE Go(w, pc)
  <2>1. worker[w] \in Worker
    BY DEF IInv, TypeOK
  <2>2. /\ [worker[w] EXCEPT !.pc = pc] \in Worker
        /\ [worker[w] EXCEPT !.pc = pc].pc = pc
    BY <2>1 DEF Worker
  <2> QED
    BY <1>1, <2>2, QuietSet DEF Go
<1>2. CASE End(w, pc)
  BY <1>2, EndRecord, Quiet
<1> QED
  BY <1>1, <1>2

LEMMA QuietRest ==
  ASSUME IInv, NEW w \in Workers, worker[w].pc \notin Locking,
         Set(w, Resting), UNCHANGED <<tokenVars, lock>>, NEW h \in Homes
  PROVE  HomeInv(h)' /\ CustodyStep(h)
<1>1. Resting \in Worker /\ Resting.pc \notin Locking
  BY RestingWorker DEF Resting, Locking
<1> QED
  BY <1>1, QuietSet

LEMMA ProceedStep ==
  ASSUME IInv, NEW w \in Workers, Proceed(w), NEW h \in Homes
  PROVE  HomeInv(h)' /\ CustodyStep(h)
<1>p. /\ "failed" \in Pcs \ Locking /\ "recovering" \in Pcs \ Locking
      /\ "lock" \in Pcs \ Locking /\ "respond" \in Pcs \ Locking
      /\ "next" \in Pcs \ Locking
  BY DEF Pcs, Locking
<1>1. CASE MarkMissing(w)
  BY <1>1, QuietRest DEF MarkMissing, Locking
<1>2. CASE NextCandidate(w)
  <2>1. CASE Set(w, Resting)
    BY <1>2, <2>1, QuietRest DEF NextCandidate, Locking
  <2>2. ASSUME NEW g \in worker[w].rest,
               Set(w, [Resting EXCEPT !.role = "oauth", !.pc = "mutex", !.home = g,
                                      !.rest = worker[w].rest \ {g}])
        PROVE  HomeInv(h)' /\ CustodyStep(h)
    <3> DEFINE rec == [Resting EXCEPT !.role = "oauth", !.pc = "mutex", !.home = g,
                                      !.rest = worker[w].rest \ {g}]
    <3>1. worker[w].rest \in SUBSET Homes
      BY WorkerFacts DEF IInv
    <3>2. rec \in Worker /\ rec.pc \notin Locking
      BY <3>1, RestingWorker DEF Worker, AllRoles, Pcs, Locking
    <3> QED
      BY <1>2, <2>2, <3>2, QuietSet DEF NextCandidate, Locking
  <2> QED
    BY <1>2, <2>1, <2>2 DEF NextCandidate
<1>3. CASE TakeMutex(w)
  BY <1>3, <1>p, QuietGo DEF TakeMutex, Locking
<1>4. CASE TakeLock(w)
  <2>1. CASE /\ End(w, "failed") \/ End(w, "recovering")
             /\ UNCHANGED lock
    BY <1>4, <2>1, <1>p, QuietGo DEF TakeLock, Locking
  <2>2. CASE /\ file[worker[w].home].refresh # 0
             /\ Set(w, [worker[w] EXCEPT !.pc = "asked", !.failed = 0,
                                         !.sent = file[worker[w].home].refresh])
             /\ lock' = [lock EXCEPT ![worker[w].home] = w]
    BY <1>4, <2>2, AskStep DEF TakeLock
  <2> QED
    BY <1>4, <2>1, <2>2 DEF TakeLock
<1>5. CASE LockTimeout(w)
  BY <1>5, <1>p, QuietGo DEF LockTimeout, Locking
<1>6. CASE Exchange(w)
  BY <1>6, ExchangeStep
<1>7. CASE NoExchange(w) \/ Reload(w)
  BY <1>7, NoExchangeStep
<1>8. CASE Abandon(w)
  BY <1>8, AbandonStep
<1>9. CASE Persist(w)
  BY <1>9, PersistStep
<1>11. CASE Recover(w)
  BY <1>11, <1>p, QuietGo, QuietRest DEF Recover, Locking
<1>12. CASE Respond(w)
  BY <1>12, <1>p, QuietGo, QuietRest DEF Respond, Locking
<1>13. CASE Disable(w)
  BY <1>13, <1>p, QuietGo, QuietRest DEF Disable, Locking
<1>14. CASE WriteImport(w)
  BY <1>14, WriteImportStep
<1>15. CASE Register(w)
  BY <1>15, QuietRest DEF Register, Locking
<1> QED
  BY <1>1, <1>2, <1>3, <1>4, <1>5, <1>6, <1>7, <1>8, <1>9, <1>11, <1>12, <1>13,
     <1>14, <1>15 DEF Proceed

LEMMA NextStep ==
  ASSUME IInv, [Next]_vars, NEW h \in Homes
  PROVE  HomeInv(h)' /\ CustodyStep(h)
<1>1. ASSUME NEW w \in Workers, Proceed(w) PROVE HomeInv(h)' /\ CustodyStep(h)
  BY <1>1, ProceedStep
<1>2. ASSUME NEW w \in Workers, RuntimeToken(w) PROVE HomeInv(h)' /\ CustodyStep(h)
  <2> DEFINE rec == [Resting EXCEPT !.role = "oauth", !.pc = "next", !.rest = Homes]
  <2>1. rec \in Worker /\ rec.pc \notin Locking
    BY RestingWorker DEF Worker, AllRoles, Pcs, Locking
  <2> QED
    BY <1>2, <2>1, QuietSet DEF RuntimeToken, Locking
<1>3. ASSUME NEW w \in Workers, NEW g \in Homes, Rejected(w, g)
      PROVE  HomeInv(h)' /\ CustodyStep(h)
  <2>1. PICK role \in Roles[w] \cap {"serve", "walk"} :
          Set(w, [Resting EXCEPT !.role = role, !.home = g, !.failed = file[g].access,
                    !.pc = IF file[g] = Unreadable THEN "missing" ELSE "mutex"])
    BY <1>3 DEF Rejected
  <2> DEFINE rec == [Resting EXCEPT !.role = role, !.home = g, !.failed = file[g].access,
                       !.pc = IF file[g] = Unreadable THEN "missing" ELSE "mutex"]
  <2>2. file[g].access \in Nat
    BY DEF IInv, TypeOK, Auth
  <2>3. rec \in Worker /\ rec.pc \notin Locking
    BY <2>2, RestingWorker DEF Worker, AllRoles, Pcs, Locking
  <2> QED
    BY <1>3, <2>1, <2>3, QuietSet DEF Rejected, Locking
<1>4. ASSUME NEW w \in Workers, NEW k \in Homes, StartImport(w, k)
      PROVE  HomeInv(h)' /\ CustodyStep(h)
  BY <1>4, StartImportStep
<1>5. ASSUME NEW p \in Procs, Crash(p) PROVE HomeInv(h)' /\ CustodyStep(h)
  BY <1>5, CrashStep
<1>6. ASSUME NEW k \in Homes, RenewElsewhere(k) PROVE HomeInv(h)' /\ CustodyStep(h)
  BY <1>6, RenewElsewhereStep
<1>7. ASSUME NEW k \in Homes, CopyIn(k) PROVE HomeInv(h)' /\ CustodyStep(h)
  BY <1>7, CopyInStep
<1>8. CASE (\E k \in Homes : CopyOut(k)) \/ UNCHANGED vars
  <2>1. Untouched(h)
    BY <1>8 DEF CopyOut, vars, Untouched, Steady
  <2> QED
    BY <2>1, Stutter
<1> QED
  BY <1>1, <1>2, <1>3, <1>4, <1>5, <1>6, <1>7, <1>8 DEF Next

LEMMA InitCustody ==
  ASSUME Init, NEW h \in Homes
  PROVE  Custody(h)!Init
BY DEF Init, Held, Custody!Init

\* IInv is inductive: it holds at the start and every step of a process keeps it.
THEOREM Invariance == Spec => []IInv
<1>1. Init => IInv
  BY InitIInv
<1>2. IInv /\ [Next]_vars => IInv'
  BY NextType, NextStep DEF IInv
<1> QED
  BY <1>1, <1>2, PTL DEF Spec

\* UsableToken holds in every reachable state: an account no fault befell has a refresh
\* token the service takes, or none, whatever the processes do at the same time.
THEOREM TokenUsable == Spec => []UsableToken
<1>1. IInv => UsableToken
  BY Zenon DEF IInv, HomeInv, UsableToken, Held, OnItsWay, AnswerUsable, FileUsable
<1> QED
  BY <1>1, Invariance, PTL

\* NeverReused holds in every reachable state: no renewal sends a token that another
\* one has spent.
THEOREM TokenNeverReused == Spec => []NeverReused
<1>1. ASSUME IInv, NEW w \in Workers, worker[w].pc = "asked", ~strayed[worker[w].home]
      PROVE  worker[w].sent \in live[worker[w].home]
  <2>1. /\ worker[w].home \in Homes /\ lock[worker[w].home] = w /\ w # Nobody
    BY <1>1, Renewer DEF Locking
  <2> QED
    BY <1>1, <2>1 DEF IInv, HomeInv
<1>2. IInv => NeverReused
  BY <1>1 DEF NeverReused
<1> QED
  BY <1>2, Invariance, PTL

\* CustodyKept: for every home AuthRefresh implements TokenCustody.  All a renewal, an
\* import or a copy does to the refresh token of an account is what TokenCustody allows.
THEOREM CustodyImplemented == Spec => CustodyKept
<1>1. Init => \A h \in Homes : Custody(h)!Init
  BY InitCustody
<1>2. IInv /\ [Next]_vars => [\A h \in Homes : CustodyStep(h)]_vars
  BY NextStep
<1> QED
  BY <1>1, <1>2, Invariance, PTL DEF Spec, CustodyKept

=============================================================================
