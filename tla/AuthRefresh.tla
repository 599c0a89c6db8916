----------------------------- MODULE AuthRefresh -----------------------------
(***************************************************************************)
(* Renewing the tokens in the account homes: internal/lb/auth.go,          *)
(* tryRefreshAccountAuth and handleRuntimeOAuthToken of proxy.go, and the  *)
(* import of an account (wrapper.go), run by several processes at once.    *)
(*                                                                         *)
(* A worker is a goroutine of one of the processes.  A renewal goes        *)
(*                                                                         *)
(*   idle -> mutex -> lock -> asked -> answered -> persisted -> recovering *)
(*                                                                         *)
(* holding the process's authRefreshMu from the second step on and the     *)
(* flock of the home from the third.  The lock keeps renewals apart; it    *)
(* does not keep out an import, a copy of the home arriving from another   *)
(* machine, or a crash.                                                    *)
(*                                                                         *)
(* A token is the number of the exchange or login that produced it.  Which *)
(* accounts are due or selected is the business of QuotaRefresh and        *)
(* RequestHandler; here any home may need its token renewed at any time.   *)
(*                                                                         *)
(* An operator marked "Fault" is a wrong version of the one below it.      *)
(***************************************************************************)
EXTENDS Naturals

CONSTANTS Homes,       \* account homes (one account each)
          Procs,       \* processes working on them
          Workers,     \* goroutines
          ProcOf,      \* worker -> its process
          Roles,       \* worker -> what it may be asked to do
          Nobody,      \* no worker
          MaxIssued    \* bound: logins and exchanges per home

\* "serve" is a request or a websocket, which renews after a 401 from upstream, "walk"
\* the quota refresh, "oauth" codex's own POST /oauth/token, "import" ImportAccountData.
AllRoles == {"serve", "walk", "oauth", "import"}

ASSUME AuthRefreshAssumption ==
  /\ Homes # {}
  /\ ProcOf \in [Workers -> Procs]
  /\ Roles \in [Workers -> SUBSET AllRoles]
  /\ Nobody \notin Workers
  /\ MaxIssued \in Nat

VARIABLES file,     \* home -> tokens in auth.json
          issued,   \* home -> tokens the service issued so far
          live,     \* home -> refresh tokens the service still takes
          away,     \* home -> tokens in the copy another machine has
          strayed,  \* home -> history: a fault may have left a spent token on file
          lock,     \* home -> worker that holds the flock
          mutex,    \* process -> worker that holds authRefreshMu
          disabled, \* process -> homes its store has out of service
          worker    \* worker -> what it is doing

tokenVars == <<file, issued, live, away, strayed>>
vars == <<file, issued, live, away, strayed, lock, mutex, disabled, worker>>

\* Tokens as LoadAuth returns them; 0 stands for a missing one.
Auth == [access : Nat, refresh : Nat]

\* A missing, truncated or unparsable auth.json: LoadAuth fails on it.
Unreadable == [access |-> 0, refresh |-> 0]

Pcs == {"idle", "missing", "mutex", "lock", "asked", "answered", "persisted",
        "recovering", "failed", "next", "respond", "importing", "register"}

Worker == [pc : Pcs, role : AllRoles, home : Homes, failed : Nat, got : Auth,
           sent : Nat, rest : SUBSET Homes]

Resting == [pc |-> "idle", role |-> "serve", home |-> CHOOSE h \in Homes : TRUE,
            failed |-> 0, got |-> Unreadable, sent |-> 0, rest |-> {}]

Init ==
  /\ file = [h \in Homes |-> [access |-> 1, refresh |-> 1]]
  /\ issued = [h \in Homes |-> 1]
  /\ live = [h \in Homes |-> {1}]
  /\ away = [h \in Homes |-> Unreadable]
  /\ strayed = [h \in Homes |-> FALSE]
  /\ lock = [h \in Homes |-> Nobody]
  /\ mutex = [p \in Procs |-> Nobody]
  /\ disabled = [p \in Procs |-> {}]
  /\ worker = [w \in Workers |-> Resting]

TypeOK ==
  /\ file \in [Homes -> Auth]
  /\ issued \in [Homes -> Nat]
  /\ live \in [Homes -> SUBSET Nat]
  /\ away \in [Homes -> Auth]
  /\ strayed \in [Homes -> BOOLEAN]
  /\ lock \in [Homes -> Workers \cup {Nobody}]
  /\ mutex \in [Procs -> Workers \cup {Nobody}]
  /\ disabled \in [Procs -> SUBSET Homes]
  /\ worker \in [Workers -> Worker]

-----------------------------------------------------------------------------
(***************************************************************************)
(* Steps of a worker                                                       *)
(***************************************************************************)

Set(w, rec)  == worker' = [worker EXCEPT ![w] = rec]
Go(w, pc)    == Set(w, [worker[w] EXCEPT !.pc = pc])

\* What a worker in the middle of a renewal knows of it is forgotten at its end.
End(w, pc) ==
  Set(w, [worker[w] EXCEPT !.pc = pc, !.failed = 0, !.got = Unreadable, !.sent = 0])

\* markDisabled and markAuthRecovered; the reason that goes with it is AccountPool's.
MarkDisabled(w)      == disabled' = [disabled EXCEPT ![ProcOf[w]] = @ \cup {worker[w].home}]
MarkAuthRecovered(w) == disabled' = [disabled EXCEPT ![ProcOf[w]] = @ \ {worker[w].home}]

\* Fault: the mutex is left with the process.
ReleaseToProcess(w) == mutex' = [mutex EXCEPT ![ProcOf[w]] = ProcOf[w]]

Release(w)   == mutex' = [mutex EXCEPT ![ProcOf[w]] = Nobody]
Unlock(w)    == lock' = [lock EXCEPT ![worker[w].home] = Nobody]

\* The auth a caller was refused with is no longer the one on file: someone else
\* renewed it in the meantime.
RenewedSince(w, auth) == worker[w].failed # 0 /\ auth.access # worker[w].failed

\* A caller reads the tokens of a home and is answered 401 for them.
Rejected(w, h) ==
  /\ worker[w].pc = "idle"
  /\ \E role \in Roles[w] \cap {"serve", "walk"} :
       /\ role # "walk" => h \notin disabled[ProcOf[w]]
       /\ Set(w, [Resting EXCEPT !.role = role, !.home = h, !.failed = file[h].access,
                    !.pc = IF file[h] = Unreadable THEN "missing" ELSE "mutex"])
  /\ UNCHANGED <<tokenVars, lock, mutex, disabled>>

\* LoadAuth failed: the account is taken out of service.
MarkMissing(w) ==
  /\ worker[w].pc = "missing"
  /\ MarkDisabled(w)
  /\ Set(w, Resting)
  /\ UNCHANGED <<tokenVars, lock, mutex>>

\* codex asks for a new runtime token: the accounts are tried one after the other,
\* each renewed whether or not its token was refused.  The order is the policy's.
RuntimeToken(w) ==
  /\ worker[w].pc = "idle"
  /\ "oauth" \in Roles[w]
  /\ Set(w, [Resting EXCEPT !.role = "oauth", !.pc = "next", !.rest = Homes])
  /\ UNCHANGED <<tokenVars, lock, mutex, disabled>>

NextCandidate(w) ==
  /\ worker[w].pc = "next"
  /\ \/ \E h \in worker[w].rest :
          Set(w, [Resting EXCEPT !.role = "oauth", !.pc = "mutex", !.home = h,
                                 !.rest = worker[w].rest \ {h}])
     \/ worker[w].rest = {} /\ Set(w, Resting)
  /\ UNCHANGED <<tokenVars, lock, mutex, disabled>>

\* tryRefreshAccountAuth: authRefreshMu is taken and the home read again.
TakeMutex(w) ==
  /\ worker[w].pc = "mutex"
  /\ mutex[ProcOf[w]] = Nobody
  /\ LET current == file[worker[w].home]
     IN  \/ /\ current = Unreadable
            /\ End(w, "failed")
            /\ UNCHANGED mutex
         \/ /\ current # Unreadable
            /\ mutex' = [mutex EXCEPT ![ProcOf[w]] = w]
            /\ IF RenewedSince(w, current) THEN End(w, "recovering") ELSE Go(w, "lock")
  /\ UNCHANGED <<tokenVars, lock, disabled>>

\* Fault: the lock of another process is not waited for, and not even taken.
TakeLockUnlocked(w) ==
  /\ worker[w].pc = "lock"
  /\ file[worker[w].home].refresh # 0
  /\ Set(w, [worker[w] EXCEPT !.pc = "asked", !.failed = 0,
                              !.sent = file[worker[w].home].refresh])
  /\ UNCHANGED <<tokenVars, lock, mutex, disabled>>

\* RefreshAuth under the home's lock, as far as its request to the token endpoint.
TakeLock(w) ==
  /\ worker[w].pc = "lock"
  /\ lock[worker[w].home] = Nobody
  /\ LET h       == worker[w].home
         current == file[h]
     IN  \/ /\ current = Unreadable \/ (~RenewedSince(w, current) /\ current.refresh = 0)
            /\ End(w, "failed")
            /\ Release(w)
            /\ UNCHANGED lock
         \/ /\ current # Unreadable /\ RenewedSince(w, current)
            /\ End(w, "recovering")
            /\ UNCHANGED <<lock, mutex>>
         \/ /\ current.refresh # 0 /\ ~RenewedSince(w, current)
            /\ Set(w, [worker[w] EXCEPT !.pc = "asked", !.failed = 0,
                                        !.sent = current.refresh])
            /\ lock' = [lock EXCEPT ![h] = w]
            /\ UNCHANGED mutex
  /\ UNCHANGED <<tokenVars, disabled>>

\* Fault: the mutex of the process is not given back.
LockTimeoutStuck(w) ==
  /\ worker[w].pc = "lock"
  /\ lock[worker[w].home] # Nobody
  /\ End(w, "failed")
  /\ UNCHANGED <<tokenVars, lock, mutex, disabled>>

\* The context ends while another worker holds the lock.
LockTimeout(w) ==
  /\ worker[w].pc = "lock"
  /\ lock[worker[w].home] # Nobody
  /\ End(w, "failed")
  /\ Release(w)
  /\ UNCHANGED <<tokenVars, lock, disabled>>

\* Fault: the lock covers the request to the service but not the write that follows.
ExchangeUnlocked(w) ==
  LET h   == worker[w].home
      new == issued[h] + 1
  IN  /\ worker[w].pc = "asked"
      /\ worker[w].sent \in live[h]
      /\ new <= MaxIssued
      /\ issued' = [issued EXCEPT ![h] = new]
      /\ live' = [live EXCEPT ![h] = (live[h] \ {worker[w].sent}) \cup {new}]
      /\ strayed' = [strayed EXCEPT ![h] = FALSE]
      /\ Set(w, [worker[w] EXCEPT !.pc = "answered",
                                  !.got = [access |-> new, refresh |-> new]])
      /\ Unlock(w)
      /\ UNCHANGED <<file, away, mutex, disabled>>

\* The service exchanges the token, with or without a new refresh token.
Exchange(w) ==
  LET h   == worker[w].home
      new == issued[h] + 1
  IN  /\ worker[w].pc = "asked"
      /\ worker[w].sent \in live[h]
      /\ new <= MaxIssued
      /\ issued' = [issued EXCEPT ![h] = new]
      /\ \/ /\ live' = [live EXCEPT ![h] = (live[h] \ {worker[w].sent}) \cup {new}]
            /\ strayed' = [strayed EXCEPT ![h] = FALSE]
            /\ Set(w, [worker[w] EXCEPT !.pc = "answered",
                                        !.got = [access |-> new, refresh |-> new]])
         \/ /\ Set(w, [worker[w] EXCEPT !.pc = "answered",
                                        !.got = [access |-> new, refresh |-> worker[w].sent]])
            /\ UNCHANGED <<live, strayed>>
      /\ UNCHANGED <<file, away, lock, mutex, disabled>>

\* No exchange: a transport error, an error answer, the end of the context, or the
\* service telling that the token was used before.
NoExchange(w) ==
  /\ worker[w].pc = "asked"
  /\ End(w, "failed")
  /\ Unlock(w) /\ Release(w)
  /\ UNCHANGED <<tokenVars, disabled>>

\* The answer does not reach auth.json: the context ends before it is read, or it
\* cannot be decoded or written.
Abandon(w) ==
  /\ worker[w].pc = "answered"
  /\ End(w, "failed")
  /\ strayed' = [strayed EXCEPT ![worker[w].home] = @ \/ worker[w].got.refresh # worker[w].sent]
  /\ Unlock(w) /\ Release(w)
  /\ UNCHANGED <<file, issued, live, away, disabled>>

\* A rename replaces auth.json: an import that has the old file open writes into a
\* file nobody will read again.
Replaced(h, workers) ==
  [v \in Workers |-> IF workers[v].pc = "importing" /\ workers[v].home = h
                     THEN [workers[v] EXCEPT !.pc = "register"] ELSE workers[v]]

\* Fault: the refresh token of the answer is not taken over.
PersistAccessOnly(w) ==
  LET h == worker[w].home
  IN  /\ worker[w].pc = "answered"
      /\ file' = [file EXCEPT ![h] = [access |-> worker[w].got.access,
                                     refresh |-> worker[w].sent]]
      /\ worker' = Replaced(h, [worker EXCEPT ![w] =
                     [@ EXCEPT !.pc = "persisted", !.got = Unreadable, !.sent = 0]])
      /\ UNCHANGED <<issued, live, away, strayed, lock, mutex, disabled>>

\* The document read under the lock is written back with the new tokens.
Persist(w) ==
  LET h == worker[w].home
  IN  /\ worker[w].pc = "answered"
      /\ file' = [file EXCEPT ![h] = worker[w].got]
      /\ worker' = Replaced(h, [worker EXCEPT ![w] =
                     [@ EXCEPT !.pc = "persisted", !.got = Unreadable, !.sent = 0]])
      /\ UNCHANGED <<issued, live, away, strayed, lock, mutex, disabled>>

\* RefreshAuth returns what it finds in the home afterwards.
Reload(w) ==
  /\ worker[w].pc = "persisted"
  /\ \/ /\ file[worker[w].home] = Unreadable
        /\ End(w, "failed")
        /\ Release(w)
     \/ /\ file[worker[w].home] # Unreadable
        /\ End(w, "recovering")
        /\ UNCHANGED mutex
  /\ Unlock(w)
  /\ UNCHANGED <<tokenVars, disabled>>

\* markAuthRecovered, and the mutex is given back.
Recover(w) ==
  /\ worker[w].pc = "recovering"
  /\ MarkAuthRecovered(w)
  /\ Release(w)
  /\ IF worker[w].role = "oauth" THEN Go(w, "respond") ELSE Set(w, Resting)
  /\ UNCHANGED <<tokenVars, lock>>

\* codex gets its answer from the home, or the next account is tried.
Respond(w) ==
  /\ worker[w].pc = "respond"
  /\ IF file[worker[w].home] = Unreadable THEN Go(w, "next") ELSE Set(w, Resting)
  /\ UNCHANGED <<tokenVars, lock, mutex, disabled>>

\* A failed renewal takes the account out of service, except during a walk.
Disable(w) ==
  /\ worker[w].pc = "failed"
  /\ \/ /\ worker[w].role = "walk"
        /\ UNCHANGED disabled
     \/ /\ worker[w].role # "walk"
        /\ MarkDisabled(w)
  /\ IF worker[w].role = "oauth" THEN Go(w, "next") ELSE Set(w, Resting)
  /\ UNCHANGED <<tokenVars, lock, mutex>>

-----------------------------------------------------------------------------
(***************************************************************************)
(* Importing an account                                                    *)
(***************************************************************************)

\* os.WriteFile truncates auth.json before it writes.
StartImport(w, h) ==
  /\ worker[w].pc = "idle"
  /\ "import" \in Roles[w]
  /\ issued[h] < MaxIssued
  /\ file' = [file EXCEPT ![h] = Unreadable]
  /\ Set(w, [Resting EXCEPT !.role = "import", !.home = h, !.pc = "importing"])
  /\ UNCHANGED <<issued, live, away, strayed, lock, mutex, disabled>>

\* The tokens of a fresh login, which may come without a refresh token, are there.
\* A renewal in progress can still replace them by a token from before.
WriteImport(w) ==
  LET h   == worker[w].home
      new == issued[h] + 1
  IN  /\ worker[w].pc = "importing"
      /\ issued' = [issued EXCEPT ![h] = new]
      /\ \/ /\ file' = [file EXCEPT ![h] = [access |-> new, refresh |-> new]]
            /\ live' = [live EXCEPT ![h] = live[h] \cup {new}]
         \/ /\ file' = [file EXCEPT ![h] = [access |-> new, refresh |-> 0]]
            /\ UNCHANGED live
      /\ strayed' = [strayed EXCEPT ![h] = strayed[h] /\ lock[h] # Nobody]
      /\ Go(w, "register")
      /\ UNCHANGED <<away, lock, mutex, disabled>>

\* RegisterAccount puts the account into service if its home can be read.
Register(w) ==
  /\ worker[w].pc = "register"
  /\ \/ file[worker[w].home] # Unreadable /\ MarkAuthRecovered(w)
     \/ file[worker[w].home] = Unreadable /\ UNCHANGED disabled
  /\ Set(w, Resting)
  /\ UNCHANGED <<tokenVars, lock, mutex>>

-----------------------------------------------------------------------------
(***************************************************************************)
(* What happens to the homes from outside                                  *)
(***************************************************************************)

\* A process dies: its locks are gone and so are the answers it held.
Crash(p) ==
  LET dying == {w \in Workers : ProcOf[w] = p}
      InHand(h) == \E w \in dying : /\ worker[w].pc = "answered" /\ worker[w].home = h
                                    /\ worker[w].got.refresh # worker[w].sent
  IN  /\ \E w \in dying : worker[w].pc # "idle"
      /\ worker' = [w \in Workers |-> IF w \in dying THEN Resting ELSE worker[w]]
      /\ mutex' = [mutex EXCEPT ![p] = Nobody]
      /\ lock' = [h \in Homes |-> IF lock[h] \in dying THEN Nobody ELSE lock[h]]
      /\ strayed' = [h \in Homes |-> strayed[h] \/ InHand(h)]
      /\ UNCHANGED <<file, issued, live, away, disabled>>

\* The home is synchronized to another machine, which renews it there, and back.
CopyOut(h) ==
  /\ away' = [away EXCEPT ![h] = file[h]]
  /\ UNCHANGED <<file, issued, live, strayed, lock, mutex, disabled, worker>>

RenewElsewhere(h) ==
  LET new == issued[h] + 1
  IN  /\ away[h].refresh \in live[h]
      /\ new <= MaxIssued
      /\ issued' = [issued EXCEPT ![h] = new]
      /\ live' = [live EXCEPT ![h] = (live[h] \ {away[h].refresh}) \cup {new}]
      /\ away' = [away EXCEPT ![h] = [access |-> new, refresh |-> new]]
      /\ strayed' = [strayed EXCEPT ![h] = TRUE]
      /\ UNCHANGED <<file, lock, mutex, disabled, worker>>

CopyIn(h) ==
  /\ away[h] # Unreadable
  /\ file' = [file EXCEPT ![h] = away[h]]
  /\ strayed' = [strayed EXCEPT ![h] = \/ away[h].refresh \notin live[h] \cup {0}
                                       \/ strayed[h] /\ lock[h] # Nobody]
  /\ worker' = Replaced(h, worker)
  /\ UNCHANGED <<issued, live, away, lock, mutex, disabled>>

-----------------------------------------------------------------------------
\* What a worker does once it was asked to do something.
Proceed(w) ==
  \/ MarkMissing(w) \/ NextCandidate(w) \/ TakeMutex(w) \/ TakeLock(w) \/ LockTimeout(w)
  \/ Exchange(w) \/ NoExchange(w) \/ Abandon(w) \/ Persist(w) \/ Reload(w)
  \/ Recover(w) \/ Respond(w) \/ Disable(w) \/ WriteImport(w) \/ Register(w)

Next ==
  \/ \E w \in Workers :
       \/ Proceed(w) \/ RuntimeToken(w)
       \/ \E h \in Homes : Rejected(w, h) \/ StartImport(w, h)
  \/ \E p \in Procs : Crash(p)
  \/ \E h \in Homes : CopyOut(h) \/ RenewElsewhere(h) \/ CopyIn(h)

\* The scheduler runs every goroutine, the context of a renewal ends, and a Go
\* mutex is handed on in turn.
Fairness ==
  \A w \in Workers : WF_vars(Proceed(w)) /\ SF_vars(TakeMutex(w))

Spec == Init /\ [][Next]_vars /\ Fairness

-----------------------------------------------------------------------------
(***************************************************************************)
(* Properties                                                              *)
(***************************************************************************)

\* The refresh token an account has: the one on its way to auth.json, otherwise the
\* one in it.
Held(h) ==
  IF lock[h] # Nobody /\ worker[lock[h]].pc = "answered"
  THEN worker[lock[h]].got.refresh ELSE file[h].refresh

\* Renewing, importing and copying an account is what TokenCustody allows: whatever
\* the interleaving of the processes, only a crash, an answer that got lost or the
\* other machine costs an account its refresh token.
Custody(h) == INSTANCE TokenCustody WITH token <- Held(h), live <- live[h],
                                         lost <- strayed[h]

CustodyStep(h) == Custody(h)!Next \/ UNCHANGED Custody(h)!custodyVars

CustodyKept ==
  /\ \A h \in Homes : Custody(h)!Init
  /\ [][\A h \in Homes : CustodyStep(h)]_vars

\* An account no fault befell has a refresh token the service takes, or none: no
\* renewal leaves the token in the home that it just spent.
UsableToken == \A h \in Homes : ~strayed[h] => Held(h) \in live[h] \cup {0}

\* Two renewals never send the same token, in one process or in two: the service
\* answers "refresh token reused" only after a fault (RefreshAuth reads the token
\* under the lock of the home).
NeverReused ==
  \A w \in Workers :
    worker[w].pc = "asked" /\ ~strayed[worker[w].home]
      => worker[w].sent \in live[worker[w].home]

\* Every renewal and import comes to its end, also when all workers of all processes
\* want the same home, and although a process may die at any time.
EveryRefreshEnds ==
  \A w \in Workers : worker[w].pc # "idle" ~> worker[w].pc = "idle"

=============================================================================
