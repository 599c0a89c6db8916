---------------------------- MODULE MCAdminForward ----------------------------
(***************************************************************************)
(* Two children.  In Routing two goroutines serve requests, over a local   *)
(* account as well, and one of them refreshes; in Refreshing both want to  *)
(* refresh; in Forwarding one looks for a named proxy.                     *)
(***************************************************************************)
EXTENDS AdminForward, TLC

CONSTANTS a, near, far, x, one, two

MCChildURLs == <<near, far>>

Able(score) == [able |-> TRUE, score |-> score]

MCReports == (near :> {Able(90)}) @@ (far :> {Able(60)})

MCSettings == [mode |-> "usage_balanced", deltaPercent |-> 10, dailyWeight |-> 60,
               weeklyWeight |-> 40, maxAttempts |-> 2, cooldownDefault |-> 0]

MCStore(accounts) == [accounts |-> accounts, active |-> 1, pinned |-> NoAccount,
                      messages |-> 0, settings |-> MCSettings]

MCTasks(first, second) == (one :> first) @@ (two :> second)

MCSetup(accounts, tasks, named, l, r) ==
  [store |-> MCStore(accounts), tasks |-> tasks,
   named |-> named, targets |-> (near :> l) @@ (far :> r)]

Routing == {MCSetup(<<NewAccount(a, x)>>, MCTasks({"http"}, {"ws", "refresh"}), {}, 0, 0)}

Refreshing == {MCSetup(<< >>, MCTasks({"refresh", "page"}, {"refresh"}), {}, 0, 0)}

\* A child of two targets has both among its descendants.
Forwarding ==
  LET search(named, l, r) ==
        MCSetup(<< >>, MCTasks({"admin", "stream"}, {"refresh"}), named, l, r)
  IN  {search({near}, 1, 1), search({}, 0, 1), search({near, far}, 1, 1),
       search({}, 2, 1), search({}, 0, 0)}

MCSetups == Routing \cup Refreshing \cup Forwarding

=============================================================================
