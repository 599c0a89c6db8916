----------------------------- MODULE AccountPool -----------------------------
(***************************************************************************)
(* The proxy's copy of the store and the updates made to it:               *)
(* internal/lb/store.go, and the mark* functions of internal/lb/proxy.go.  *)
(*                                                                         *)
(* A function here maps a store to the store after one call of Update.     *)
(* Update holds Store.mu, so each is one atomic step of whoever calls it.  *)
(* An update that names an id the pool no longer has changes nothing.      *)
(*                                                                         *)
(* Left out of the account: alias (the id is its alias in lower case),     *)
(* base URL, e-mail, and the fields only the status page shows             *)
(* (LastUsedAtMS, LastSwitchReason, LastRotationAtMS, reset times).        *)
(*                                                                         *)
(* An operator marked "Fault" is a wrong version of the one below it; no   *)
(* definition uses it.  It is there to see the properties reject it.       *)
(***************************************************************************)
EXTENDS Policy

CONSTANT Identities    \* ChatGPT account ids an auth.json can hold

Account == [id : AccountIds, identity : Identities, enabled : BOOLEAN,
            reason : DisabledReasons \cup {None}, cooldown : Nat,
            quota : Quota, synced : Nat, syncMessages : Nat]

StoreFile == [accounts : Seq(Account), active : Nat \ {0},
              pinned : AccountIds \cup {NoAccount}, messages : Nat, settings : Settings]

\* The quota of an account whose usage was never fetched.
NoWindow  == [limit |-> 0, used |-> 0]
NoQuota   == [daily |-> NoWindow, weekly |-> NoWindow, additional |-> {}]

NewAccount(id, identity) ==
  [id |-> id, identity |-> identity, enabled |-> TRUE, reason |-> None, cooldown |-> 0,
   quota |-> NoQuota, synced |-> 0, syncMessages |-> 0]

Indexes(s, id) == {i \in DOMAIN s.accounts : s.accounts[i].id = id}

\* Updates find an account by the first index with its id; that is its only
\* index while ids are unique.
UniqueIds(s) == \A i, j \in DOMAIN s.accounts : s.accounts[i].id = s.accounts[j].id => i = j

Known(s) == {s.accounts[i].id : i \in DOMAIN s.accounts}

\* ActiveIndex lies in the list; it is the first index when the list is empty.
ActiveInRange(s) == s.active \in DOMAIN s.accounts \cup {1}

\* No account was synchronized at a message that is yet to come.
SyncedInPast(s) == \A i \in DOMAIN s.accounts : s.accounts[i].syncMessages <= s.messages

Consistent(s) == UniqueIds(s) /\ ActiveInRange(s) /\ SyncedInPast(s)

PinnedKnown(s) == s.pinned = NoAccount \/ s.pinned \in Known(s)

\* Store.Update with a function that changes the account named id.
UpdateAccount(s, id, F(_)) ==
  [s EXCEPT !.accounts =
     [i \in DOMAIN s.accounts |->
        IF s.accounts[i].id = id THEN F(s.accounts[i]) ELSE s.accounts[i]]]

InService(a) == [a EXCEPT !.enabled = TRUE, !.reason = None]

(***************************************************************************)
(* The updates made while a request is served.                             *)
(***************************************************************************)

\* Fault: the index is one too low.
MarkSuccessBefore(s, id, counts) ==
  IF Indexes(s, id) = {} THEN s ELSE [s EXCEPT !.active = Min(Indexes(s, id)) - 1]

\* Fault: the account that was active is taken for the one that answered.
MarkSuccessActive(s, id, counts) ==
  IF Indexes(s, id) = {} THEN s
  ELSE [UpdateAccount(s, s.accounts[s.active].id,
                      LAMBDA a : [InService(a) EXCEPT !.cooldown = 0])
          EXCEPT !.active = Min(Indexes(s, id)), !.messages = @ + (IF counts THEN 1 ELSE 0)]

MarkSuccess(s, id, counts) ==
  IF Indexes(s, id) = {} THEN s
  ELSE LET cleared == UpdateAccount(s, id, LAMBDA a : [InService(a) EXCEPT !.cooldown = 0])
       IN  [cleared EXCEPT !.active   = Min(Indexes(s, id)),
                           !.messages = @ + (IF counts THEN 1 ELSE 0)]

\* Fault: a duration of 0 ends the cooldown at once.
MarkCooldownFor(s, id, now, seconds) ==
  UpdateAccount(s, id, LAMBDA a : [a EXCEPT !.cooldown = now + seconds])

\* A duration that is not positive counts as one second.
MarkCooldown(s, id, now, seconds) ==
  UpdateAccount(s, id, LAMBDA a :
    [a EXCEPT !.cooldown = now + (IF seconds <= 0 THEN 1 ELSE seconds)])

\* Fault: every reason clears the pin.
ClearsPinAlways(reason) == TRUE

ClearsPin(reason) == reason \in {"missing-auth", "http-401", "refresh-token-reused"}

MarkDisabled(s, id, reason) ==
  IF Indexes(s, id) = {} THEN s
  ELSE [UpdateAccount(s, id, LAMBDA a : [a EXCEPT !.enabled = FALSE, !.reason = reason])
          EXCEPT !.pinned = IF ClearsPin(reason) /\ @ = id THEN NoAccount ELSE @]

\* The access token was renewed, or found renewed in auth.json.
MarkAuthRecovered(s, id, identity) ==
  UpdateAccount(s, id, LAMBDA a : [InService(a) EXCEPT !.identity = identity])

\* Fault: an account that is not cooling down is put into service.
ExpireRestores(s, now) ==
  [s EXCEPT !.accounts =
     [i \in DOMAIN s.accounts |->
        IF s.accounts[i].cooldown <= now
        THEN [InService(s.accounts[i]) EXCEPT !.cooldown = 0] ELSE s.accounts[i]]]

ExpireCooldowns(s, now) ==
  [s EXCEPT !.accounts =
     [i \in DOMAIN s.accounts |->
        [s.accounts[i] EXCEPT !.cooldown = IF @ <= now THEN 0 ELSE @]]]

(***************************************************************************)
(* The updates made by the quota refresh and by the administrator.         *)
(***************************************************************************)

\* Fault: the walk's copy of the account is written back whole.
RecordCopy(s, id, identity, quota, now, messages) ==
  UpdateAccount(s, id, LAMBDA a :
    [NewAccount(id, identity) EXCEPT !.quota = quota, !.synced = now,
                                     !.syncMessages = messages])

\* Fault: the message that caused the refresh is counted as well.
RecordNextMessage(s, id, identity, quota, now, messages) ==
  UpdateAccount(s, id, LAMBDA a :
    [InService(a) EXCEPT !.identity = identity, !.quota = quota,
                         !.synced = now, !.syncMessages = messages + 1])

RecordQuota(s, id, identity, quota, now, messages) ==
  UpdateAccount(s, id, LAMBDA a :
    [InService(a) EXCEPT !.identity = identity, !.quota = quota,
                         !.synced = now, !.syncMessages = messages])

\* Fault: the account is replaced, only its quota is kept.
UpsertReplaces(s, id, identity) ==
  IF Indexes(s, id) = {}
  THEN [s EXCEPT !.accounts = Append(@, NewAccount(id, identity))]
  ELSE UpdateAccount(s, id, LAMBDA a : [NewAccount(id, identity) EXCEPT !.quota = a.quota])

\* An account registered again keeps what the pool learned about it.
UpsertAccount(s, id, identity) ==
  IF Indexes(s, id) = {}
  THEN [s EXCEPT !.accounts = Append(@, NewAccount(id, identity))]
  ELSE UpdateAccount(s, id, LAMBDA a : [InService(a) EXCEPT !.identity = identity])

Without(seq, i) == [j \in 1..(Len(seq) - 1) |-> IF j < i THEN seq[j] ELSE seq[j + 1]]

\* Fault: the active index is left where it was.
RemoveKeepsActive(s, id) ==
  IF Indexes(s, id) = {} THEN s
  ELSE [s EXCEPT !.accounts = Without(s.accounts, Min(Indexes(s, id))),
                 !.pinned   = IF @ = id THEN NoAccount ELSE @]

\* Fault: the last account leaves the index below the list.
RemoveToLast(s, id) ==
  IF Indexes(s, id) = {} THEN s
  ELSE LET left == Without(s.accounts, Min(Indexes(s, id)))
       IN  [s EXCEPT !.accounts = left, !.active = Clamp(@, Len(left)),
                     !.pinned   = IF @ = id THEN NoAccount ELSE @]

\* Fault: the pin stays.
RemoveKeepsPin(s, id) ==
  IF Indexes(s, id) = {} THEN s
  ELSE LET left == Without(s.accounts, Min(Indexes(s, id)))
       IN  [s EXCEPT !.accounts = left,
                     !.active   = IF @ > Len(left) THEN IF left = << >> THEN 1 ELSE Len(left)
                                  ELSE @]

\* ActiveIndex is only pulled back into the list: a removal below it leaves
\* it where it is, and the next account becomes the active one.
RemoveAccount(s, id) ==
  IF Indexes(s, id) = {} THEN s
  ELSE LET left == Without(s.accounts, Min(Indexes(s, id)))
       IN  [s EXCEPT !.accounts = left,
                     !.active   = IF @ > Len(left) THEN IF left = << >> THEN 1 ELSE Len(left)
                                  ELSE @,
                     !.pinned   = IF @ = id THEN NoAccount ELSE @]

=============================================================================
