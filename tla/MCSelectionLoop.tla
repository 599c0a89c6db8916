---------------------------- MODULE MCSelectionLoop ----------------------------
(***************************************************************************)
(* Pools of three accounts: cooling down or not, fresh, half used, limited *)
(* by an additional window, or never synchronized; every mode; no pin or   *)
(* a pin; the second or the third account active.                           *)
(***************************************************************************)
EXTENDS SelectionLoop

CONSTANTS a, b, c, x

Used(share) == [limit |-> 100, used |-> share]

MCQuota(daily, weekly) == [daily |-> Used(daily), weekly |-> Used(weekly), additional |-> {}]

Fresh   == MCQuota(10, 20)
Half    == MCQuota(40, 20)
Limited == [Half EXCEPT !.additional = {[primary |-> Used(70), secondary |-> NoWindow]}]

MCSettings(mode, delta) ==
  [mode |-> mode, deltaPercent |-> delta, dailyWeight |-> 60, weeklyWeight |-> 40,
   maxAttempts |-> 1, cooldownDefault |-> 5]

\* A negative delta counts as 0.
MCSettingsChoices ==
  {MCSettings("usage_balanced", 10), MCSettings("usage_balanced", -5),
   MCSettings("sticky", 10), MCSettings("round_robin", 10)}

MCAccounts(id, quotas) ==
  {[NewAccount(id, x) EXCEPT !.quota = quota, !.cooldown = cooldown] :
     quota \in quotas, cooldown \in {0, 9}}

MCStores ==
  {[accounts |-> <<first, second, third>>, active |-> active, pinned |-> pinned,
    messages |-> 0, settings |-> settings] :
     first \in MCAccounts(a, {Fresh, Half}), second \in MCAccounts(b, {Half, Limited}),
     third \in MCAccounts(c, {NoQuota}),
     active \in {2, 3}, pinned \in {NoAccount, b}, settings \in MCSettingsChoices}

=============================================================================
