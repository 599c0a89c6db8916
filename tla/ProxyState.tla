------------------------------ MODULE ProxyState ------------------------------
(***************************************************************************)
(* What the components of a proxy process share: the store, the account    *)
(* homes on disk and the wall clock.                                       *)
(*                                                                         *)
(* Store.Snapshot and Store.Update hold the store's mutex, so one of them  *)
(* is one atomic step.  What happens between two of them is not: a         *)
(* component works on what it copied and names accounts by id.             *)
(***************************************************************************)
EXTENDS AccountPool

CONSTANTS MissingAuth,     \* the home of an account without a loadable auth.json
          Quotas,          \* quotas the usage API can report
          SettingsChoices, \* contents config.toml can have
          MaxTime          \* the clock stops there

ASSUME ProxyStateAssumption ==
  /\ MissingAuth \notin Identities
  /\ Quotas \subseteq Quota
  /\ SettingsChoices \subseteq Settings
  /\ MaxTime \in Nat

VARIABLES sf,      \* Store.data
          homes,   \* id -> identity in <home>/auth.json, or MissingAuth
          clock    \* wall-clock seconds

Tick ==
  /\ clock < MaxTime
  /\ clock' = clock + 1
  /\ UNCHANGED <<sf, homes>>

=============================================================================
