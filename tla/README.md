# codexlb in TLA+

A verification project for **codexlb**, the load-balancing proxy for Codex
accounts in this repository (Go, `internal/lb` and `cmd/codexlb`). It holds
TLA+ models of the parts that decide which account or child proxy serves a
request, renew the accounts' tokens, keep the state on disk and carry out the
operator's commands; TLC configurations that check them on small instances; and
TLAPS proofs of the main invariants for every value of the constants.

Source references are `file:lines` under `src/internal/lb/` unless they name
another directory.

    tlc -config Selection.cfg MCSelectionLoop     # every *.cfg names its module below
    tlapm ProxyServerProofs.tla

## 1. The system

One proxy process holds a *store* (accounts, active index, pin, message
counter, settings) in memory behind a mutex and on disk as `store.json`; each
account has a *home* directory with its `auth.json`. Client requests, the
quota refresh, the admin API and the config reloader all read snapshots of the
store, talk to the outside world without any lock, and come back with an
`Update`. Nearly everything that can go wrong lies between a snapshot and the
update that was decided on it.

| Part | State | Operations | Correct when |
|---|---|---|---|
| Account selection (`policy.go`) | none (pure function of a snapshot and a time) | `selectAccount` | it serves from a healthy account if there is one, from one without quota only as a last resort, does not flap, starves nobody in `round_robin` |
| Account pool (`store.go`, `mark*` in `proxy.go`) | `Store.data` | `Update`, `UpsertAccount`, `RemoveAccountByAlias`, `markSuccess`, `markCooldown`, `markDisabled`, `markAuthRecovered`, `expireCooldowns` | ids stay unique, the active index stays in the list, a removal takes the pin along |
| Request handling (`proxy.go:111-220, 778-1186`) | one goroutine per request: attempt, picked account, response kept for the client | pick, load auth, send, renew the token, retry, give up | every request is answered; a failed account is not tried again by the same request; the client gets the response the README promises |
| Quota refresh (`proxy.go:1312-1425`, `quota.go`) | `refreshInFlight`, the walk's snapshot | `maybeRefreshQuota` from three kinds of callers | one walk at a time, the flag is given back, no stale write-back |
| Admin API (`proxy.go:248-423`, `wrapper.go:95-179`) | the account homes | import, login, remove, pin, unpin, status | the same store invariants under every interleaving with the rest, other administrators included |
| Config reload (`config_reload.go`, `store.go:164-200`) | digest of `config.toml` | replace the settings | requests in flight keep a consistent view |
| Token refresh (`auth.go`) | `auth.json`, lock file | `RefreshAuth` under `authRefreshMu` and a file lock | a refresh token is spent once and its successor is never lost |
| Child proxies (`child_proxy.go`) | cached child statuses, child cooldowns, the active route | route selection, status cache, fail-over | as for accounts, between proxies |
| Store files (`store.go:61-156, 202-217, 352-449`) | `store.json`, `config.toml`, homes | `OpenStore`, atomic write, reconcile | what was acknowledged survives a restart |
| Admin forwarding (`proxy.go:425-716`) | none | forward to a named child | exactly the named proxy acts |
| Runtime auth (`wrapper.go:260-360, 628-908`, `proxy.go:1460-1504`) | the wrapped codex's `auth.json` | seed, check, hand out tokens | the wrapped codex always has usable credentials |
| Status and usage pages, request rewriting, event log, CLI, login | – | formatting and I/O | – |

How they meet:

- the **store** is the memory that all parts of a process share; `Snapshot` and
  `Update` are atomic; the records of the child proxies are a second one, with a
  mutex of their own;
- the **account homes** are written by the admin API, the CLI and the token
  refresh, and read by requests and by the quota walk, without the store's
  lock;
- `refreshInFlight` keeps the walks apart; a request that wins the flag runs
  the whole walk before it picks an account;
- the **state directory** is shared by the proxy and every command that is run
  beside it, and an account home also by other machines it is synchronized to;
  only the renewal of a token takes a lock there;
- the **clock** is read once per request (`proxy.go:207`), once per walk, and
  afresh for each cooldown.

What makes it hard: decisions taken on old snapshots and applied late; accounts
removed, re-imported, disabled or put on cooldown while a request or a walk is
using them; several attempts per request with a response kept from an earlier
one; a flag that must be given back on every path; indices into a list that
others shorten. `PROJECT.json` lists these hazards one by one, each at its line,
with the properties that would catch it.

## 2. Modules

| Module | Models | |
|---|---|---|
| `Policy` | `policy.go` whole | operators |
| `AccountPool` | the store and its updates, each a function from store to store | operators |
| `SelectionLoop` | selection, success, selection ...: `selectAccount` with `markSuccess` used again and again, quotas draining | `Init`, `Next`, liveness |
| `ProxyState` | what the proxy's parts share: `sf`, `homes`, `clock` | variables |
| `RequestHandler` | `ServeHTTP`, `handleHTTP`, `handleHTTPViaPickedAccount` and the websocket path, without child proxies | actions |
| `QuotaRefresh` | `maybeRefreshQuota` and its three callers | actions |
| `AdminApi` | admin operations on accounts and the pin, the reloader's effect | actions |
| `ProxyServer` | the process: all of the above over one store; specification and properties | composition |
| `TokenCustody` | what renewing and importing owe an account's refresh token | abstract specification |
| `AuthRefresh` | `auth.go`, `tryRefreshAccountAuth`, `/oauth/token`, imports, in several processes; implements `TokenCustody` for every home | specification, refinement, liveness |
| `ChildProxies` | `child_proxy.go` and the child branches of requests, websockets and `/status` | actions |
| `AdminForward` | commands for a named proxy, over the records of `ChildProxies` | composition, specification |
| `StoreFiles` | `OpenStore`, `store.json`, `config.toml`, the config reloader, the account commands on the command line and their handlers | specification, liveness |
| `MCSelectionLoop`, `MCProxyServer`, `MCAuthRefresh`, `MCAdminForward`, `MCStoreFiles` | small instances | constants |
| `PolicyProofs`, `AccountPoolProofs`, `SelectionLoopProofs`, `ProxyServerProofs`, `AuthRefreshProofs`, `TokenCustodyProofs`, `AdminForwardProofs`, `StoreFilesProofs` | theorems | proofs |

`ProxyServer` EXTENDS `QuotaRefresh` (which EXTENDS `RequestHandler`) and
`AdminApi`; both extend `ProxyState`, which extends `AccountPool` and `Policy`.
`AdminForward` EXTENDS `ChildProxies`; that one and `StoreFiles` extend
`AccountPool`, so that the routes are chosen by the very `SelectAccount` the
accounts are chosen by, and the commands change the very store the proxy does.
`AuthRefresh` has an INSTANCE of `TokenCustody` for every home.

### State and code

| Model | Code |
|---|---|
| `sf` | `Store.data`; lists numbered from 1 |
| `homes[id]` | the ChatGPT account id in `<home>/auth.json`, `MissingAuth` when `LoadAuth` fails |
| `clock` | `time.Now()` in seconds |
| `req[r]` | the locals of one handler goroutine (`now`, `attempt`, `selected`, `auth`, `lastResp`), with its place in the code as `pc` |
| `refreshInFlight`, `refresh[o]` | the flag, and the walk of its owner: accounts left, message count and time of its snapshot |
| `admin[a]` | one admin request, with its place in the code |
| `file`, `issued`, `live`, `away` (`AuthRefresh`) | the tokens in each `auth.json`; what the token endpoint issued and still takes; a copy of the home on another machine |
| `lock`, `mutex` | the flock of a home, `authRefreshMu` of a process |
| `states[c]`, `active`, `inFlight` (`ChildProxies`) | `childProxyStates`, `activeRouteID`, `childProxyRefreshInFlight` |
| `file`, `config`, `homes` (`StoreFiles`) | `store.json`, `config.toml`, the account homes |
| `mem[p]`, `proc[p]`, `seat`, `reload` | the copy of the store in each process, how far it has opened it, the work on commands, the locals of the reloader |
| `leftover`, `strayed`, `promise`, `served`, `contested`, `applied` | history, no code: what the properties need to know of the past |

A request goes `idle -> quota -> begin -> pick -> auth -> send -> [reauth ->
resend] -> done`, with `refreshing` between `quota` and `begin` when it runs the
walk itself, `missing` and `adopt` between `auth` and `send`, `unsendable` instead of
`send` when no request can be made from the account's base URL (`proxy.go:863-878`), and
a retry back to `pick`. A walk goes `off -> [asked ->] snapshot -> load -> [preauth ->] fetch ->
[reauth -> refetch] -> load ... -> off`. Each arrow is one atomic access to the
store, to a home or to the flag, or one answer from outside. An answer and the
`Update` it leads to are one step, since nothing can change the answer in between;
apart from the token refresh (below), a snapshot, a file read and an `Update` are
separate steps, so every other actor can come in between.

In the other modules a worker (a goroutine of one of the processes) is likewise a
record with a `pc`; the chains of steps are drawn at the head of each module.

### Abstractions

- The account id is its alias in lower case; aliases are taken to be lower case,
  so alias and id are one thing. Two homes whose names differ only in case are
  out of the model (listed as a hazard).
- ChatGPT identities are never empty (`Identities` are the non-empty ones).
- Shares of a quota are whole percentages, as the usage API reports them, and a
  score is kept multiplied by the sum of the weights. Comparisons of the code
  are then exact on integers where the code uses `float64`; rounding in the last
  bit is not modelled.
- A handler copies the store twice in a row (`handleHTTP` for the settings,
  `pickAccount` for the accounts and the default cooldown); only the number of attempts comes
  from the first.
- The time of a maintenance tick is the time at which the loop takes it. A tick that
  waited in the ticker's channel during a walk carries an older time, which only
  dates the next synchronization back.
- In `RequestHandler` and `QuotaRefresh` the token refresh is one step with three
  outcomes (renewed, failed, failed for good). What happens inside it, and what
  other writers of `auth.json` do meanwhile, is `AuthRefresh`; there, in turn,
  any home may be refused at any time.
- A token is the number of the exchange or login that produced it; the service
  takes each refresh token once and may or may not send a new one. Access tokens
  have no expiry of their own: the service refuses one whenever it likes.
- A child proxy's capacity is whatever it reports, out of a small set; how it comes
  to it is its own affair. A local route has the outcomes `RequestHandler` works
  out, in one step each.
- `child_proxy_urls` does not change while the proxy runs; a reload of the configuration
  that changes it is left out of `ChildProxies`.
- All status queries of one caller end in one step (the code waits for all of
  them); each was begun with the records of an earlier step.
- `config.toml` is its settings and whether it has a name; its digest stands for
  the content, so two contents never share one. `store.json` is renamed into place. An
  import truncates `auth.json` and a process that gives `config.toml` its name truncates
  that, and then writes it; a write that fails leaves a part of the content.
- In `AdminForward` a child is what it may answer and how many proxies of the
  name there are at or below it (`targets`). That it sends a command to none of them
  twice, and answers truthfully, is assumed of it exactly as `AdminOutcome` says it of
  the proxy that is modelled: the children run the same code.
- Whether a base URL is one a request can be made from is open for every attempt: it
  comes with a registration or a reload, and nothing checks it.
- The base URL of an account and the listen address are left out of `StoreFiles`.
- Fields only the status page shows are left out, and so are the text of errors,
  the event log, header and body rewriting, and streaming of the body. Of
  a response the model keeps whether its body is open, buffered or closed.
- `handleAggregatedUsage` and the rewriting of rate-limit headers are left out:
  they change no state.
- Where a status request refreshes, its own forced walk (`?refresh=1`) and the
  background one it triggers otherwise are the same action.

Operators and actions whose comment starts with *Fault* are wrong versions of the
definition below them (a dropped guard, a missing reset, an index off by one).
No definition uses them; putting one in the place of the right definition makes
TLC refute the property it is meant for, which shows that the property speaks
about the code. The pairs are listed in `PROJECT.json`.

## 3. What the runs check

| Run (`.cfg`) | Instance | Question | States |
|---|---|---|---|
| `Selection` | 3 accounts, 512 starting pools, all three modes, negative delta, pin or none, cooldown or none, additional limit, unknown quota | does repeated selection serve the right accounts, stay within delta, not flap, pass nobody over, visit everyone? | 6.7k |
| `Refresh` | 1 counted request with 2 attempts (1 after a reload), some that cannot be sent, the maintenance loop, 1 status request, 2 accounts, cooldown configured as 0, time 1..2 | do the three callers of the walk and a request leave the store, the flag and the cooldowns right, does the request leave the account it failed on, and who takes an account back into service? | 1.6M |
| `Admin` | 1 request, 1 administrator, 2 accounts, 2 identities; imports and removals, those that fail too, at every point | do the store and the cooldowns survive administration under load? | 3.5M |
| `Pins` | 2 administrators, a websocket request, 2 accounts | who can take the pin away, and when does it name nobody? | 4.8M |
| `Liveness` | 2 plain requests, the maintenance loop, 1 account | is every request answered, is the flag always given back, does a failure of the one count however the other fares? | 22k |
| `Tokens` | 1 home, 2 processes, 3 workers (request, `/oauth/token`, walk and import), 2 exchanges or logins, crashes, a copy on another machine | is a refresh token spent twice or lost, is `TokenCustody` implemented, does every renewal end? | 156k |
| `Children` | 2 goroutines, 1 local account and 2 children, 2 attempts, cooldown configured as 0, time 1..2; who bears the name: 5 cases, one with two proxies below a child | does a request return to a child that failed it, do background refreshes overlap, is the administrator told the truth? | 699k |
| `Files` | proxy and 2 terminals, 2 accounts; five set-ups: commands side by side, kills, a full disk with homes that resist, a name written on a full disk, edits of `config.toml` | does what users were told survive in memory and on disk, do saved settings come into force? | 184k |
| `LastBody`, `MissingAuth`, `RemoveActive`, `Settings` | 1 request, or the proxy and its reloader | four statements of `src/README.md` that the code does not keep (section 6) | – |

Properties, beside one `TypeOK` per specification (that of `ProxyServer` in the run
`Refresh`):

- `ServesCandidate`, `WithinDelta`, `NoFlapping`, `NobodyPassedOver`, `RoundRobinVisitsAll`
  (`SelectionLoop`): the selection policy as its users know it, stated without
  the policy's own operators for choosing.
- `StoreConsistent`: unique ids, active index in the list, no account
  synchronized at a message that is yet to come; under every interleaving.
- `OneRefresh`: at most one walk, and the flag says whether there is one.
- `SyncNeverRewinds`: no late walk takes back a later one's bookkeeping.
- `CooldownHonoured`: a running cooldown is cut short only by the answer to a
  request that was sent to the account; no stale copy written back ends it.
- `ReturnsToService`: a disabled account comes back by a request that uses its
  credentials, by the walk visiting it, or by being registered; never because time passes
  or an update concerns another account.
- `LeavesFailedAccount`: after an attempt that was sent and failed, the account is not
  healthy at the request's own (old) time, with a cooldown configured as 0 too. The next
  attempt can return to it only if somebody else put it back into service meanwhile. An
  attempt that could not be sent is excepted: it leaves no mark, and the next one
  may pick the same account.
- `PinLost`: the pin comes to name nobody only when account/pin stores an id that
  another administrator removed after it was looked up (`proxy.go:378-393`); with two
  administrators the run does reach this.
- `PinKept`: the pin is taken away only by the operator's hand or with the account's
  credentials.
- `RequestAnswered`, `RefreshEnds`: liveness.
- `UsableToken`, `NeverReused` (`AuthRefresh`): without a fault the installation's
  refresh token is one the service takes, and no two renewals send the same one.
- `CustodyKept`: `AuthRefresh` implements `TokenCustody` for every home, with the
  token on its way to `auth.json` (`Held`) as the token, the service's view as
  `live`, and `strayed` as the fault.
- `EveryRefreshEnds`: every renewal and import ends, though a worker waits for a
  lock of another process while it holds its own process's mutex.
- `FailedChildAvoided` (`ChildProxies`): a request keeps off the children that
  failed it until somebody else was served or the cooldown ended, with status
  queries of other requests writing the same records.
- `OneRefresh` (`ChildProxies`): one refresh of the children in the background.
- `AdminOutcome` (`AdminForward`): what the client is told matches what was done, and no
  child is sent the command twice.
- `StoresSound`, `AnswersOutlive`, `ProxyKeepsAnswers`, `SettingsFollow`
  (`StoreFiles`): stores stay consistent; a successful import or removal is what
  the next open finds (unless the home resisted its removal) and what the running proxy
  serves; settings whose content the reloader does not take for known come into force,
  however often the file is edited. `ConfigInForce` is the same without that exception,
  and violated.

### Bounds

`MaxTime` stops the clock, `MaxMessages` stops counted requests from being
accepted; every other counter is bounded by the state itself. Two time
units suffice for a cooldown to begin in one and end in the next, and for a
quota to become due between two walks (`RefreshInterval = 1`); cooldowns of 2 to
5 seconds outlast the run, that of 1 second ends in it. One counted message with
`RefreshMessages = 1` makes a walk's message count stale. Two accounts are
enough for a fail-over and for two updates that concern different accounts; three
for the selection, where best, active and next must be able to differ, and for a removal
below the active account. Two requests interleave in every pair of steps in `Liveness`, and
two administrators in `Pins`; elsewhere the actors come one of each, and the theorems of
section 4 hold for any number of them. `AdminSymmetry` is used where no liveness is
checked. The kinds of answers are spread over the runs (5xx and the usage limit in `Refresh`,
5xx and 401 in `Liveness`, the usage limit on a websocket in `Pins`), and so are GET, POST and
websockets: an answer's handling does not depend on which other answers the upstream
could give. A 429 is handled as a 5xx but for the length of the backoff.

In `Tokens` two numbers per home let a token be exchanged while another was
issued by a login or on the other machine; three workers cover a race inside a process
and one between processes. All workers want the one home: homes share nothing but the
mutex of a process, which is contended as it is. In `Children` the children
report fixed shares, so that only cooldowns, failures and staleness move the choice, and
a grace of 0 makes a cached status age within the run; two goroutines pair every
step of a request with every step of a websocket, a refresh or an admin search.
`Files` has its five set-ups apart, since full disk, kills and edits together
multiply: in each the actors that disturb one another run together. Terminals run one
command after the other, and users save `config.toml`, without bound.

The clock may also stand still for ever, and requests need not come.

### Fairness

`ProxyServer!Spec` has weak fairness on every handler that has a request
(`Handling(r)`) and on every walk (`Walking(o)`): goroutines are scheduled, the
token refresh and the usage fetch run under timeouts, and an upstream answers,
breaks the connection or is left by its client. An upstream may keep a response
waiting for as long as the client does (the transport has no
response timeout for streams); the fairness then stands for the client's
patience, `Canceled` being one of the outcomes. There is no fairness on `Accept`, `StartWalk`,
`Configure` and `PassTime`. `SelectionLoop!Spec` has weak fairness on `Serve`
only: requests keep coming, usage reports need not.

`AuthRefresh!Spec` has weak fairness on what a worker does once it was asked
(`Proceed`): every wait in it runs under a context with a timeout, which is
`LockTimeout`, `NoExchange` and `Abandon`; and strong fairness on `TakeMutex`, since
a Go mutex in starvation mode is handed to the waiter that waits longest. There
is none on requests, crashes or the other machine.
`StoreFiles!Spec` has weak fairness on the reloader, a goroutine with a ticker. It
has none on commands: users need not run any, and a terminal may be left alone in
the middle of one. `AdminForward!Spec` has no fairness; no liveness is claimed
of it.

## 4. What is proved

`tlapm` checks these for every value of the constants that satisfies the
modules' named assumptions. They are on the shape of the constants
(`NoAccountAssumption`, `ProxyStateAssumption`, `RequestHandlerAssumption`,
`QuotaRefreshAssumption`, `AuthRefreshAssumption`, `ChildProxiesAssumption`,
`StoreFilesAssumption`) and on the
starting store (`StoresAssumption`, `SelectionLoopAssumption`, `ChildProxiesAssumption`),
which is what `OpenStore` establishes: it
reconciles the accounts with the homes and clamps the active index
(`store.go:352-449`). `ChildProxiesAssumption` also says that no child is named
twice, which `normalizeProxyURLList` sees to (`types.go:232-254`), and that no local account
has the route id of a child, for the two kinds have different prefixes
(`child_proxy.go:79-83`).
`StoreFilesAssumption` says that the settings of `config.toml` are legal ones
(`ValidateSettings`), that the aliases have an order in which each occurs once
(`slices.Sort`, `store.go:426`), and that there is a command to run.

**`PolicyProofs`.** `SelectAccountIsCandidate`: whatever the mode, the pin and
the active index, `selectAccount` returns a candidate when there is one. Rests on
the range of scores (`ScoreRange`) and the existence of a best
candidate among finitely many (`BestIndexIsBest`).

**`AccountPoolProofs`.** Every update keeps the type of the store and
`Consistent`. Updates of one account are *in place* (same ids, same order); for
`RemoveAccount` and `UpsertAccount` the list itself changes and
`RemoveConsistent` and `UpsertConsistent` do the index arithmetic.

Of each update there is also what it does to the one account it is about, and that
it leaves the history of all others alone (`CooledAccount`, `DisabledAccount`,
`RecoveredAccount`, `ServedAccount`, `RecordedAccount`, `ExpiredAccount`,
`RegisteredAccount`, `LeftAccounts`): the action properties of `ProxyServer` rest on these.

**`SelectionLoopProofs`.** `TypeOK`, `ServesCandidate`, `WithinDelta`,
`NoFlapping` and `NobodyPassedOver`. `NoFlapping` is not inductive: that the same account is chosen
again depends on why it was chosen. `LoopInv` adds `Settled`: while nothing
was reported, the account served from is the active one, or nothing can
be served, and `selectAccount` would choose it once more. `SuccessKeepsOffer`
shows that `markSuccess` changes nothing selection looks at but the active
index, `ChoiceSettles` that a choice made active is repeated in both
modes other than `round_robin` (for `usage_balanced`: the challenger that took
over is a best one, so nobody leads it by more than delta). `NobodyPassedOver` needs
`ActiveServed`: the account served from last is the active one, whatever usage reports
came since, so `round_robin` goes on from it.

**`ProxyServerProofs`.** The inductive invariant `IInv` is `TypeOK`,
`StoreConsistent` and `OneRefresh` with what makes them inductive:

- `RefreshOwned`: a request waits in `refreshing` exactly while its walk runs, so a walk
  that ends finds its request where it left it;
- `GoodRequest`: from `auth` to `resend` a request has picked an account, and an
  identity wherever the code has loaded one, so that the updates it is about
  to make are well-typed;
- `GoodWalk`: a walk that is visiting an account has an entry for it and an identity
  wherever one was loaded, and its message count is not ahead of the store's:
  this is what `StoreConsistent` needs when the walk writes it back;
- `GoodAdmin`: an administrator between two steps names an account.

From it: `TypeCorrect`, `StoreStaysConsistent`, `AtMostOneRefresh`.

The action properties follow from `IInv` and, step by step, from the lemmas
on single updates:

- `CooldownsHonoured`, `ServiceRestored` and `SyncsNeverRewind` from `StepHistory`: every account after a
  step is new in the pool, or has the history it had, or is the one account that
  step is about, and then the step is an answer to its request, an expiry, a registration
  or the walk visiting it. For the write-back `SyncsNeverRewind` needs an invariant
  of its own, `WalksAhead`: no account is synchronized ahead of the message count of a
  running walk. It holds because there is one walk at a time (`OneRefresh`).
- `FailedAccountsLeft` needs `RequestsTimed`: the time a request arrived is not later than
  the clock. Of the attempts, those that were sent: the account is disabled, or put on a cooldown that ends at least a second
  after the clock of the failure, with a configured default of 0 too, and so is
  running at the request's own time.
- `PinIsKept`: only removal, pin and unpin, and disabling for another reason than
  `http-403` move the pin.
- `PinLostOnlyByPinning`, for any number of administrators, from `StepPin`: requests, walks
  and reloads keep every account and move the pin to nobody at most; a removal
  clears a pin on its account (`RemoveConsistent`); what is left is account/pin.

**`AuthRefreshProofs`.** `TypeCorrect`, `TokenUsable`, `TokenNeverReused` and
`CustodyImplemented`, for any number of processes, workers and homes. Neither
`UsableToken` nor `NeverReused` is inductive: they say nothing of who may write to
a home. `HomeInv(h)` adds, for each home:

- `LockOwned`: the lock of the home is held by exactly the worker between request
  and end of a renewal of it, so there is one such worker at most;
- the service's tokens are numbered no higher than it has issued, so that the next one is
  new;
- while an answer is on its way (`OnItsWay`), its refresh token is taken, and if it
  is no new one, then what is in `auth.json` may stay (`AnswerUsable`): this is what
  holds after a crash or a lost answer without a successor;
- otherwise what is in `auth.json` is taken or missing (`FileUsable`).

`NextStep` proves `HomeInv(h)'` and the refinement of the step together: `Frame` and
`Stutter` deal with all steps that leave the home and its renewer alone, `Quiet` with
all that a worker does outside the lock, and one lemma each with the others
(`ExchangeStep` is a `Renew` or an `Install` of `TokenCustody`, `WriteImportStep` a
`LogIn` or an `Install`, `PersistStep` a stutter, `CrashStep` a `Stray` if a new token
was in hand, ...). The bound `MaxIssued` plays no part.

**`TokenCustodyProofs`.** `TokenKept`: the abstract specification keeps a usable token
while no fault occurs, so `CustodyImplemented` gives `TokenUsable` a second time.

**`AdminForwardProofs`.** `TypeCorrect`, `FailedChildrenAvoided`, `RefreshAlone` and
`AdminTold`, about `AdminForward` and all of `ChildProxies` below it, for any number of
children, goroutines and attempts. The inductive invariant has one part for each:

- `RouteInv`: a child in `failed` cools down, seen from the time its request arrived.
  That time does not move while the clock does, so the cooldown need not be compared
  with the clock again. It is kept because a query or a failure never shortens a
  cooldown (`Heated`, from `LearnedType` and `CooledType`), and because whoever ends one
  lifts the child from every `failed` (`LiftedStep`). The first attempt, which
  chooses with cooldowns read before the queries, has an empty `failed`.
- `AdminInv`: the proxies below a child that carried a command out are at most those that
  bear the name there, none as long as the child was not sent it (it is not in `Passed`), and
  an answer that was noted is true. It is an argument of assumption and guarantee along the
  tree of proxies: of a child `Outcomes` assumes what is proved of the proxy
  here, the leaves have no children, and so any depth follows. The place where a child named
  twice would break it is `Passed`.
- `RefreshInv`: the flag is set while a worker refreshes, and only one does.
- `StoreInv`: the store is consistent, and no local account has the route of a child.

`RouteChosen` rests on `SelectAccountIsCandidate`: in the store `selectRouteFromTargets`
makes up from accounts and children, the choice falls on a child only when it is healthy.

**`StoreFilesProofs`.** `TypeCorrect`, `StoresStaySound`, `ProxyAnswersKept` and
`AnswersKept`, for any number of terminals, accounts and settings, with full disks, kills
and edits. The invariant has two layers. `SoundInv` (`StoresInvariant`) has what every
copy of the store, `store.json` and every seat have in all states. Its lemmas are those on
the updates of `AccountPoolProofs`, and `ReconciledSound`: reconciling with the homes
leaves exactly the accounts that have one, in a consistent list. It rests on
`AscendingExists` and `AscendingOnto`, which show that the elements of a list at any set of
indexes can be taken in order.

`ClaimsInv` carries the answers. Neither `ProxyKeepsAnswers` nor `AnswersOutlive` is
inductive, for what is said of an account at the end of a command was done several steps
before. It adds, for a command that nobody else worked against:

- `HomeAsLeft`: between its last change of the home and its answer, the home is still as it
  left it (gone, or one of `leftover`, after a removal: `Gone`), and `PoolAsLeft`: so is the proxy's list when the proxy did the work;
- `Unclaimed`: while a command is at work on an account, nothing is claimed of it;
- `RivalsContested`, `BothSeatsContested`: two commands at work on one account, or one command
  at work both in the proxy and in its own process after a lost answer, are
  contested, and a contested command claims nothing;
- `PromisesKept`: the homes are as the answers say, but for those in `leftover`. This is why what was said survives every
  process that overwrites `store.json`: `AnswersOutlive` follows from it and
  `ReconciledSound` at the one step that reconciles (`OnlyReconcile`);
- `ProxyDown`: a proxy that is not up works for nobody and has answered nobody.

## 5. What is only model-checked

Liveness (`RequestAnswered`, `RefreshEnds`, `RoundRobinVisitsAll`, `EveryRefreshEnds`,
`SettingsFollow`): temporal reasoning under fairness and ENABLED are out of the
prover's reach. Every other property of a passing run is a theorem as well. The four
properties the code does not keep are refuted by TLC.

## 6. Where the code and its documentation differ

1. **Empty last response** (`LastBody`). `src/README.md:240` promises the last upstream
   response when the attempts are exhausted; its body has been closed
   (`proxy.go:1020`) if another attempt was started and found no account.
2. **503 with a healthy account left** (`MissingAuth`). `src/README.md:214, 240`:
   503 is for when no healthy account exists. An account whose `auth.json` is
   missing ends the loop (`proxy.go:815-823`) although another is
   healthy and attempts are left.
3. **Removal moves the sticky account** (`RemoveActive`). `src/README.md:227`: sticky
   keeps the active account while it is healthy. Removing one before it shifts the
   list under `ActiveIndex` (`store.go:285-288`).
4. **Saved settings not reloaded** (`Settings`). `src/README.md:195`: the proxy polls
   `config.toml` and reloads updates. Settings saved between `OpenStore` and the reloader's
   first digest count as known (`config_reload.go:23`) and come into force only with the next
   change; and a content that is back before the next tick leaves the one read in between
   in force, for the digest of a tick is older than the content it reads
   (`config_reload.go:39, 54, 58`).

### What the models brought to light

No run is made of these, most of which no document speaks of; the properties are
stated so that they hold nevertheless, and say where they leave one out.

Requests and accounts:

- `src/README.md:229` says that a healthy pinned account overrides the policy;
  `selectAccount` drops accounts without quota before it looks for the pin
  (`policy.go:21-33`), so a pinned one whose quota is used up is passed over.
- With two administrators a pin can be stored for an account that was removed after the
  lookup (`proxy.go:378-393`); until the next open, which clears it, it names nobody
  (`PinLost`).
- An attempt that cannot be made from the account's base URL is spent without a mark on the
  account (`proxy.go:863-878`), so all attempts of a request can be spent on one account
  while another is healthy.
- The token refresh runs under the client's request: a client that leaves disables the account
  (`proxy.go:943-1004`).
- The last of several late answers wins on an account: a short backoff replaces a
  long Retry-After; a success or a quota write-back returns a disabled account to
  service.
- A usage limit on the last attempt is handled as a failed authorization
  (`proxy.go:935`); a websocket client that leaves counts against its account.

Child proxies:

- A status query that ends late overwrites a newer record with its failure, and a
  route is chosen with the cooldowns copied before the queries (`child_proxy.go:204,
  328, 338`); a shorter cooldown replaces a longer one. `FailedChildAvoided` holds
  within one request all the same, because what a request knows to have failed is
  cooling down at its own, earlier time.
- Nothing keeps proxies from being each other's children.
- With children configured, the code routes over local accounts and children together,
  and a local account without `auth.json` is one failed attempt; without children it ends
  the request (finding 2). `src/README.md:200` speaks of the children only.

Admin commands for a named proxy:

- Whether a streaming command was refused is read from the body, which closes it
  (`proxy.go:702`): output and exit code of a login below a child never arrive, and the
  client takes a missing exit code for success (`cmd/codexlb/admin_client.go:112`). A
  stream that is cut is not noticed either (`proxy.go:726`). `AdminOutcome` therefore
  claims "done means done" for non-streaming commands only.
- A non-streaming command goes to every child before a second match is reported as
  ambiguous, so more than one proxy may have carried it out, and every child does the same
  with its own children before it answers (`proxy.go:505-524`).
- One child that is down hides a proxy below another one: without a direct match the
  answer is an error before anybody is asked to look further (`proxy.go:589`).

Files:

- A `config.toml` without `proxy.name` is written back with one, over whatever was saved
  since it was read (`config.go:214-219`), and in place (`config.go:236`): a process that
  reads it in between finds an empty file and writes the defaults over the user's
  settings; a full disk leaves a part of it.
- An account is in the list of whoever opens the store if its home can be read: this is
  why `AnswersOutlive` survives processes that overwrite one another's
  `store.json`. Pins, cooldowns and quotas have no such second source; there the
  last writer wins. While an import has `auth.json` truncated (`wrapper.go:129`), an
  open drops the account, and a renewal that replaces the file detaches the import's
  write from it.
- `src/README.md:351` says that `account rm` removes the account and its directory. An
  error of `os.RemoveAll` is ignored (`wrapper.go:177`) and the command succeeds; whoever opens
  the store next finds the home and has the account again (`store.go:380-429`). A renewal that
  renames a new `auth.json` into the home while it is removed has the same effect. Both
  are steps of `RemoveHome`, and `leftover` in `AnswersOutlive` says which
  removals are excepted.
- Removal takes the home of the alias as it was typed, not the account's
  (`wrapper.go:176-177`).
- The temporary file of `store.json` is named after the process only (`store.go:203`).

## 7. Not modelled

- *Status page and usage aggregation* (`status.go`, `handleAggregatedUsage`): read-only
  sums over a snapshot. What such a request sets off is modelled: the quota walk and the
  queries to the children.
- *Request rewriting, response bodies, event log*: pure functions on text, and a log that
  nothing reads back.
- *Login*: runs codex or a container; it leaves in an account home what an import does.
- *Runtime auth*, apart from `/oauth/token`: seeding and checking the `CODEX_HOME` of the
  wrapped codex edits files no other process uses.
- *Command line*, apart from the account commands: printing, and starting other
  programs.
- `handleHTTPViaChildProxies` and `selectChildProxy` are called from nowhere.
- Clock steps backwards, and a file system that loses a rename.

## Plan

All modules of section 2 and all proofs of section 4 are in place. What could be added, in this
order:

1. Which of `AdminForward`'s answers are final: a search that ends with "not found" has asked
   every child that answered.
2. An invariant that the pin names an account, should account/pin come to look the alias
   up inside its `Update`.
