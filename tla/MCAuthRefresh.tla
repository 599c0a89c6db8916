---------------------------- MODULE MCAuthRefresh ----------------------------
(***************************************************************************)
(* AuthRefresh for TLC: a proxy with two goroutines (a request or a        *)
(* websocket, and codex's token endpoint) and a second process on the same *)
(* homes that walks the accounts and imports them.                         *)
(***************************************************************************)
EXTENDS AuthRefresh, TLC

CONSTANTS proxy, other, client, codex, manager

MCProcs   == {proxy, other}
MCWorkers == {client, codex, manager}
MCProcOf  == (client :> proxy) @@ (codex :> proxy) @@ (manager :> other)
MCRoles   == (client :> {"serve"}) @@ (codex :> {"oauth"})
               @@ (manager :> {"walk", "import"})

=============================================================================
