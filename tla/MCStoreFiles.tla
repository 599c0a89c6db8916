---------------------------- MODULE MCStoreFiles ----------------------------
(***************************************************************************)
(* One proxy and two terminals.  Sharing: both work on accounts, one of    *)
(* them without the proxy.  Racing: both work on the same account and are  *)
(* killed.  Failing: the disk is full and a home resists its removal.      *)
(* Naming: the disk is full and config.toml has no name.  Editing: the     *)
(* settings change while the proxy starts, stops and runs.                 *)
(***************************************************************************)
EXTENDS StoreFiles, TLC

CONSTANTS a, b, x, one, two

MCIdOrder == <<a, b>>

MCSettings(mode) == [mode |-> mode, deltaPercent |-> 10, dailyWeight |-> 60,
                     weeklyWeight |-> 40, maxAttempts |-> 3, cooldownDefault |-> 5]

MCDefaults == MCSettings("usage_balanced")
MCSettingsChoices == {MCDefaults, MCSettings("sticky")}

Do(op, id, mode) == [op |-> op, id |-> id, identity |-> x, mode |-> mode]

Saved(mode, name) == [settings |-> MCSettings(mode), name |-> name]

MCSetup(first, second, content, edits, failing, kills) ==
  [jobs |-> (one :> first) @@ (two :> second), config |-> content, edits |-> edits,
   full |-> failing, stuck |-> failing, kills |-> kills]

Sharing ==
  MCSetup({Do("import", a, "remote"), Do("rm", a, "auto")}, {Do("import", b, "local")},
          Saved("usage_balanced", "given"), {}, FALSE, FALSE)

Racing ==
  MCSetup({Do("import", a, "remote")}, {Do("rm", a, "auto"), Do("import", a, "local")},
          Saved("usage_balanced", "given"), {}, FALSE, TRUE)

Failing ==
  MCSetup({Do("import", a, "remote"), Do("rm", a, "auto"), Do("pin", a, "auto"),
           Do("unpin", a, "auto")}, {},
          Saved("usage_balanced", "given"), {}, TRUE, FALSE)

Naming ==
  MCSetup({Do("unpin", a, "local")}, {},
          Saved("sticky", "none"), {Saved("sticky", "given")}, TRUE, FALSE)

Editing ==
  MCSetup({Do("unpin", a, "auto")}, {}, NoConfig,
          {Broken, Saved("usage_balanced", "given"), Saved("sticky", "none")}, FALSE, TRUE)

MCSetups == {Sharing, Racing, Failing, Naming, Editing}

\* Settings are saved while the proxy runs, and nothing fails.
Saving ==
  {MCSetup({}, {}, Saved("usage_balanced", "given"),
           {Saved("usage_balanced", "given"), Saved("sticky", "given")}, FALSE, FALSE)}

=============================================================================
