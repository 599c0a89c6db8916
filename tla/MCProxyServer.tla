----------------------------- MODULE MCProxyServer -----------------------------
(***************************************************************************)
(* Small instances of ProxyServer.                                         *)
(***************************************************************************)
EXTENDS ProxyServer, TLC

CONSTANTS a, b, c, x, y

Used(share) == [limit |-> 100, used |-> share]

MCQuota(daily, weekly) == [daily |-> Used(daily), weekly |-> Used(weekly), additional |-> {}]

Spare  == MCQuota(10, 20)
Drained == MCQuota(100, 20)

MCQuotas == {Spare, Drained}

MCSettings(mode, attempts, cooldown) ==
  [mode |-> mode, deltaPercent |-> 10, dailyWeight |-> 60, weeklyWeight |-> 40,
   maxAttempts |-> attempts, cooldownDefault |-> cooldown]

\* A cooldown of 0 seconds can be configured; the code counts it as 1.
MCSettingsBalanced == {MCSettings("usage_balanced", 2, 0)}
MCSettingsReload   == {MCSettings("usage_balanced", 2, 0), MCSettings("sticky", 1, 0)}
MCSettingsSticky   == {MCSettings("sticky", 2, 5)}

Synced(id, identity, quota) ==
  [NewAccount(id, identity) EXCEPT !.quota = quota, !.synced = 1]

StoreOf(accounts, pinned, settings) ==
  [accounts |-> accounts, active |-> 1, pinned |-> pinned, messages |-> 0,
   settings |-> settings]

\* Two accounts with quota left.
MCTwoAccounts ==
  {StoreOf(<<Synced(a, x, Spare), Synced(b, x, Spare)>>, NoAccount, settings) :
     settings \in SettingsChoices}

MCSpareOnly == {Spare}

MCOneAccount ==
  {StoreOf(<<Synced(a, x, Spare)>>, NoAccount, settings) : settings \in SettingsChoices}

\* Three accounts, the second of them active.
MCThreeAccounts ==
  {[StoreOf(<<Synced(a, x, Spare), Synced(b, x, Spare), Synced(c, x, Spare)>>, NoAccount,
            settings) EXCEPT !.active = 2] : settings \in SettingsChoices}

\* Handlers of admin requests are interchangeable (used without liveness).
AdminSymmetry == Permutations(Admins)

=============================================================================
