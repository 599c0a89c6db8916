----------------------------- MODULE StoreFiles -----------------------------
(***************************************************************************)
(* The state directory and the processes that share it: OpenStore and      *)
(* Update of internal/lb/store.go, loadOrCreateSettingsConfig of           *)
(* internal/lb/config.go, StartConfigReloader of internal/lb/              *)
(* config_reload.go and the account commands of cmd/codexlb.               *)
(*                                                                         *)
(* The proxy opens the store once and works on its copy in memory.  A      *)
(* command opens the store for itself, which writes store.json (with       *)
(* --proxy-url rm, pin and unpin do not); then it asks the proxy or, when  *)
(* that cannot be reached, does the work on its own copy.  Nothing locks   *)
(* the directory: a process writes the whole file over whatever another    *)
(* one wrote since it was read.                                            *)
(*                                                                         *)
(*   down -> read -> [name] -> configured -> reconciled -> up              *)
(*                                                                         *)
(* A command c has two seats: its own process, and the handler that serves *)
(* it in the proxy.  The same steps run in either, on the copy of that     *)
(* process.                                                                *)
(*                                                                         *)
(* config.toml is parsed once; its digest is its content.  store.json is   *)
(* written to a file named after the process and renamed: it is never seen *)
(* half written.  It has no settings, which live in config.toml.           *)
(*                                                                         *)
(* An operator marked "Fault" is a wrong version of the one below it.      *)
(***************************************************************************)
EXTENDS AccountPool

CONSTANTS MissingAuth,     \* the home of an account without a loadable auth.json
          SettingsChoices, \* settings config.toml can hold
          Defaults,        \* those of defaultStore
          NoConfig,        \* there is no config.toml
          Broken,          \* a config.toml that cannot be parsed
          Proxy,
          Commands,        \* terminals that run one command after the other
          IdOrder,         \* AccountIds in the order of the aliases
          Setups           \* what can happen in one behaviour

Processes == Commands \cup {Proxy}

\* The contents of config.toml; name is proxy.name: none, one that a user gave, or a
\* random one, which differs from process to process.
Parsed   == [settings : SettingsChoices, name : {"none", "given"} \cup Processes]
Config   == Parsed \cup {NoConfig, Broken}

\* mode: on the own copy, in the proxy, or in the proxy if it can be reached.
Job == [op : {"import", "rm", "pin", "unpin"}, id : AccountIds, identity : Identities,
        mode : {"local", "auto", "remote"}]

\* What the terminals run, config.toml at first, what a user saves as it later, whether
\* the disk can be full (full), a home can resist its removal (stuck) and the processes
\* can be killed.
Setup == [jobs : [Commands -> SUBSET Job], config : Config, edits : SUBSET Config,
          full : BOOLEAN, stuck : BOOLEAN, kills : BOOLEAN]

ASSUME StoreFilesAssumption ==
  /\ MissingAuth \notin Identities
  /\ SettingsChoices \subseteq Settings /\ Defaults \in SettingsChoices
  /\ NoConfig \notin Parsed /\ Broken \notin Parsed \cup {NoConfig}
  /\ Proxy \notin Commands
  /\ IdOrder \in Seq(AccountIds)
  /\ \A id \in AccountIds : \E i \in DOMAIN IdOrder : IdOrder[i] = id
  /\ \A i, j \in DOMAIN IdOrder : IdOrder[i] = IdOrder[j] => i = j
  /\ Job # {}
  /\ Setups \subseteq Setup

VARIABLES homes,     \* id -> identity in <home>/auth.json, or MissingAuth
          leftover,  \* history: homes whose last removal failed
          file,      \* store.json
          config,    \* config.toml
          mem,       \* Store.data of each process
          proc,      \* how far each process has come
          seat,      \* the work on a command, in its process and in the proxy
          reload,    \* the config reloader of the proxy
          promise,   \* history: what the answered commands say of an account ...
          served,    \* ... and those the proxy carried out, since it started
          contested, \* history: commands whose account others worked on meanwhile
          setup

vars == <<homes, leftover, file, config, mem, proc, seat, reload, promise, served, contested,
          setup>>

Empty == [accounts |-> << >>, active |-> 1, pinned |-> NoAccount, messages |-> 0,
          settings |-> Defaults]

Seats == Commands \X {"own", "proxy"}
Own(c)      == <<c, "own">>
InProxy(c)  == <<c, "proxy">>
Host(s)     == IF s[2] = "own" THEN s[1] ELSE Proxy

\* ok: the answer, once the work is done.
Free == [pc |-> "free", job |-> CHOOSE j \in Job : TRUE, found |-> MissingAuth, ok |-> FALSE]

\* pending: the settings read; last: lastHash; hash: the digest read at this tick.
Off == [pc |-> "off", pending |-> Defaults, last |-> NoConfig, hash |-> NoConfig]

Claims == {"present", "absent", "either"}

Init ==
  /\ setup \in Setups
  /\ homes = [id \in AccountIds |-> MissingAuth]
  /\ leftover = {}
  /\ file = Empty
  /\ config = setup.config
  /\ mem = [p \in Processes |-> Empty]
  /\ proc = [p \in Processes |-> "down"]
  /\ seat = [s \in Seats |-> Free]
  /\ reload = Off
  /\ promise = [id \in AccountIds |-> "either"]
  /\ served = [id \in AccountIds |-> "either"]
  /\ contested = {}

WorkPcs == {"truncate", "write", "load", "upsert", "rmhome", "forget", "lookup", "pin", "unpin"}

Stages == {"down", "read", "name", "fill", "configured", "reconciled", "up"}

Seat == [pc : WorkPcs \cup {"free", "open", "wait", "done"}, job : Job,
         found : Identities \cup {MissingAuth}, ok : BOOLEAN]

Reloader == [pc : {"off", "watch", "digest", "name", "fill", "persist"},
             pending : SettingsChoices, last : Config, hash : Config]

TypeOK ==
  /\ homes \in [AccountIds -> Identities \cup {MissingAuth}]
  /\ leftover \subseteq AccountIds
  /\ file \in StoreFile
  /\ config \in Config
  /\ mem \in [Processes -> StoreFile]
  /\ proc \in [Processes -> Stages]
  /\ seat \in [Seats -> Seat]
  /\ reload \in Reloader
  /\ promise \in [AccountIds -> Claims] /\ served \in [AccountIds -> Claims]
  /\ contested \subseteq Commands /\ setup \in Setups

-----------------------------------------------------------------------------
(***************************************************************************)
(* Files                                                                   *)
(***************************************************************************)

\* A write fails when the disk is full.
Writes == IF setup.full THEN BOOLEAN ELSE {TRUE}

\* storeFileForPersistence.
Persisted(s) == [s EXCEPT !.settings = Defaults]

Save(s, ok) == file' = IF ok THEN Persisted(s) ELSE file

\* What config.toml says; defaults stand in for what it leaves out.
Says(content) == IF content = NoConfig THEN Defaults ELSE content.settings

\* A file without proxy.name, or none, is written with a random one.
Nameless(content) == content = NoConfig \/ content.name = "none"

\* WriteSettingsConfig truncates config.toml and writes it in place.
Truncated == [settings |-> Defaults, name |-> "none"]

\* A write of the content that fails leaves what is there, or a part of the content.
Torn(content) == {config, Broken, [content EXCEPT !.settings = Defaults]}

HasHome(id) == homes[id] # MissingAuth

\* The elements of a list at the indexes I, in the order of the list.
Ascending(I) ==
  CHOOSE f \in [1..Cardinality(I) -> I] : \A m, n \in DOMAIN f : m < n => f[m] < f[n]

Picked(list, I) == [n \in 1..Cardinality(I) |-> list[Ascending(I)[n]]]

\* The homes that are not in the list, by alias.
NewHomes(s) ==
  Picked(IdOrder, {i \in DOMAIN IdOrder : HasHome(IdOrder[i]) /\ IdOrder[i] \notin Known(s)})

\* The accounts with a home, in the order they had, then the new ones.
AccountsOnDisk(s) ==
  LET kept == Picked(s.accounts, {i \in DOMAIN s.accounts : HasHome(s.accounts[i].id)})
  IN  [i \in DOMAIN kept |-> [kept[i] EXCEPT !.identity = homes[kept[i].id]]]
      \o [i \in DOMAIN NewHomes(s) |-> NewAccount(NewHomes(s)[i], homes[NewHomes(s)[i]])]

\* Fault: accounts stay without their home.
ReconciledKeepsAll(s) ==
  [s EXCEPT !.accounts =
     @ \o [i \in DOMAIN NewHomes(s) |-> NewAccount(NewHomes(s)[i], homes[NewHomes(s)[i]])]]

\* Fault: active index and pin are those of the file.
ReconciledListOnly(s) == [s EXCEPT !.accounts = AccountsOnDisk(s)]

\* reconcileAccountsFromDisk.
Reconciled(s) ==
  LET all == AccountsOnDisk(s)
  IN  [s EXCEPT !.accounts = all,
                !.active   = IF @ > Len(all) THEN Max({1, Len(all)}) ELSE @,
                !.pinned   = IF \E i \in DOMAIN all : all[i].id = @ THEN @ ELSE NoAccount]

(***************************************************************************)
(* OpenStore                                                               *)
(***************************************************************************)

Close(p) == proc' = [proc EXCEPT ![p] = "down"] /\ mem' = [mem EXCEPT ![p] = Empty]

To(p, pc, s) == proc' = [proc EXCEPT ![p] = pc] /\ mem' = [mem EXCEPT ![p] = s]

\* A terminal whose command ended in an error is free again.
Give(p) == seat' = IF p = Proxy THEN seat ELSE [seat EXCEPT ![Own(p)] = Free]

ReadStore(p) ==
  /\ proc[p] = "down"
  /\ p # Proxy => seat[Own(p)].pc = "open"
  /\ To(p, "read", file)
  /\ UNCHANGED <<homes, leftover, file, config, seat, reload, promise, served, contested, setup>>

\* loadOrCreateSettingsConfig: a file that cannot be parsed ends the process.
ReadConfig(p) ==
  /\ proc[p] = "read"
  /\ IF config = Broken THEN Close(p) /\ Give(p)
     ELSE /\ To(p, IF Nameless(config) THEN "name" ELSE "configured",
                [mem[p] EXCEPT !.settings = Says(config)])
          /\ UNCHANGED seat
  /\ UNCHANGED <<homes, leftover, file, config, reload, promise, served, contested, setup>>

\* The file is written with the name, over what was saved since it was read.
NameConfig(p) ==
  /\ proc[p] = "name"
  /\ \E ok \in Writes :
       /\ config' = IF ok THEN Truncated ELSE config
       /\ IF ok THEN To(p, "fill", mem[p]) /\ UNCHANGED seat ELSE Close(p) /\ Give(p)
  /\ UNCHANGED <<homes, leftover, file, reload, promise, served, contested, setup>>

FillConfig(p) ==
  LET content == [settings |-> mem[p].settings, name |-> p]
  IN  /\ proc[p] = "fill"
      /\ \E ok \in Writes :
           /\ config' \in IF ok THEN {content} ELSE Torn(content)
           /\ IF ok THEN To(p, "configured", mem[p]) /\ UNCHANGED seat
              ELSE Close(p) /\ Give(p)
      /\ UNCHANGED <<homes, leftover, file, reload, promise, served, contested, setup>>

Reconcile(p) ==
  /\ proc[p] = "configured"
  /\ To(p, "reconciled", Reconciled(mem[p]))
  /\ UNCHANGED <<homes, leftover, file, config, seat, reload, promise, served, contested, setup>>

WriteStore(p) ==
  /\ proc[p] = "reconciled"
  /\ \E ok \in Writes :
       /\ Save(mem[p], ok)
       /\ IF ok THEN To(p, "up", mem[p]) /\ UNCHANGED seat ELSE Close(p) /\ Give(p)
  /\ UNCHANGED <<homes, leftover, config, reload, promise, served, contested, setup>>

Open(p) ==
  \/ ReadStore(p) \/ ReadConfig(p) \/ NameConfig(p) \/ FillConfig(p)
  \/ Reconcile(p) \/ WriteStore(p)

(***************************************************************************)
(* The config reloader                                                     *)
(***************************************************************************)

\* It holds Store.mu from before it reads config.toml until store.json is written.
Locked(p) == p = Proxy /\ reload.pc \in {"name", "fill", "persist"}

StartReloader ==
  /\ proc[Proxy] = "up" /\ reload.pc = "off"
  /\ reload' = [Off EXCEPT !.pc = "watch", !.last = config]
  /\ UNCHANGED <<homes, leftover, file, config, mem, proc, seat, promise, served, contested, setup>>

\* At every tick the digest is read,
ReadDigest ==
  /\ reload.pc = "watch" /\ config # reload.last
  /\ reload' = [reload EXCEPT !.pc = "digest", !.hash = config]
  /\ UNCHANGED <<homes, leftover, file, config, mem, proc, seat, promise, served, contested, setup>>

\* Fault: the digest that counts is one read after the content.
DoneLater == [Off EXCEPT !.pc = "watch", !.last = config]

\* The tick ends: with the digest it read, or for the next tick to try again.
Done  == [Off EXCEPT !.pc = "watch", !.last = reload.hash]
Retry == [Off EXCEPT !.pc = "watch", !.last = reload.last]

\* then the content, which can be newer; an error leaves lastHash for the next tick.
\* Settings equal to those in force are not written.
ReadChange ==
  /\ reload.pc = "digest"
  /\ CASE config = Broken -> reload' = Retry /\ UNCHANGED mem
       [] config # Broken /\ Nameless(config) ->
            reload' = [reload EXCEPT !.pc = "name", !.pending = Says(config)] /\ UNCHANGED mem
       [] OTHER ->
            /\ mem' = [mem EXCEPT ![Proxy].settings = Says(config)]
            /\ reload' = IF Says(config) = mem[Proxy].settings THEN Done
                         ELSE [reload EXCEPT !.pc = "persist"]
  /\ UNCHANGED <<homes, leftover, file, config, proc, seat, promise, served, contested, setup>>

NameChange ==
  /\ reload.pc = "name"
  /\ \E ok \in Writes :
       /\ config' = IF ok THEN Truncated ELSE config
       /\ reload' = IF ok THEN [reload EXCEPT !.pc = "fill"] ELSE Retry
  /\ UNCHANGED <<homes, leftover, file, mem, proc, seat, promise, served, contested, setup>>

FillChange ==
  LET content == [settings |-> reload.pending, name |-> Proxy]
  IN  /\ reload.pc = "fill"
      /\ \E ok \in Writes :
           /\ config' \in IF ok THEN {content} ELSE Torn(content)
           /\ mem' = IF ok THEN [mem EXCEPT ![Proxy].settings = reload.pending] ELSE mem
           /\ reload' = IF ok THEN [reload EXCEPT !.pc = "persist"] ELSE Retry
      /\ UNCHANGED <<homes, leftover, file, proc, seat, promise, served, contested, setup>>

PersistChange ==
  /\ reload.pc = "persist"
  /\ \E ok \in Writes :
       /\ Save(mem[Proxy], ok)
       /\ reload' = IF ok THEN Done ELSE Retry
  /\ UNCHANGED <<homes, leftover, config, mem, proc, seat, promise, served, contested, setup>>

Reload ==
  StartReloader \/ ReadDigest \/ ReadChange \/ NameChange \/ FillChange \/ PersistChange

-----------------------------------------------------------------------------
(***************************************************************************)
(* The work on a command, in either seat                                   *)
(***************************************************************************)

First(op) == CASE op = "import" -> "truncate" [] op = "rm" -> "rmhome"
               [] op = "pin" -> "lookup" [] OTHER -> "unpin"

Claim(job) == CASE job.op = "import" -> "present" [] job.op = "rm" -> "absent"

Changes(job) == job.op \in {"import", "rm"}

\* From the start of a command to its answer nothing is claimed of its account;
Unclaim(claims, job) ==
  IF Changes(job) THEN [claims EXCEPT ![job.id] = "either"] ELSE claims

\* then the user was told that the command did its work, which says nothing of an
\* account that others worked on as well.
Acknowledge(claims, c, job) ==
  IF Changes(job) /\ c \notin contested THEN [claims EXCEPT ![job.id] = Claim(job)] ELSE claims

\* The work ends: a command exits, a handler answers.
Finish(s, s1, ok) ==
  /\ IF s[2] = "own"
     THEN /\ seat' = [seat EXCEPT ![s] = Free]
          /\ To(s[1], "down", Empty)
          /\ promise' = IF ok THEN Acknowledge(promise, s[1], seat[s].job) ELSE promise
     ELSE /\ seat' = [seat EXCEPT ![s].pc = "done", ![s].ok = ok, ![s].found = MissingAuth]
          /\ mem' = [mem EXCEPT ![Proxy] = s1]
          /\ UNCHANGED <<proc, promise>>

\* Store.Update: an error of the write leaves the change in memory.
UpdateAndFinish(s, s1) ==
  \E ok \in Writes : Save(s1, ok) /\ Finish(s, s1, ok)

At(s, pc) == seat[s].pc = pc

\* A step that takes Store.mu.
AtStore(s, pc) == At(s, pc) /\ ~Locked(Host(s))

Go(s, pc) == seat' = [seat EXCEPT ![s].pc = pc]

\* ImportAccountData truncates auth.json,
TruncateAuth(s) ==
  /\ At(s, "truncate")
  /\ homes' = [homes EXCEPT ![seat[s].job.id] = MissingAuth]
  /\ Go(s, "write")
  /\ UNCHANGED <<leftover, file, config, mem, proc, reload, promise, served, contested, setup>>

\* writes it (to a deleted file, if the home was removed; a write that fails spoils what
\* is there),
WriteAuth(s) ==
  /\ At(s, "write")
  /\ \E ok \in Writes :
       IF ok THEN /\ homes' = [homes EXCEPT ![seat[s].job.id] = seat[s].job.identity]
                  /\ Go(s, "load")
                  /\ UNCHANGED <<mem, proc, promise>>
       ELSE /\ homes' = [homes EXCEPT ![seat[s].job.id] = MissingAuth]
            /\ Finish(s, mem[Host(s)], FALSE)
  /\ UNCHANGED <<leftover, file, config, reload, served, contested, setup>>

\* reads it back
ReadBack(s) ==
  /\ At(s, "load")
  /\ LET found == homes[seat[s].job.id]
     IN  IF found = MissingAuth
         THEN Finish(s, mem[Host(s)], FALSE)
         ELSE /\ seat' = [seat EXCEPT ![s].pc = "upsert", ![s].found = found]
              /\ UNCHANGED <<mem, proc, promise>>
  /\ UNCHANGED <<homes, leftover, file, config, reload, served, contested, setup>>

\* and registers the account.
Register(s) ==
  /\ AtStore(s, "upsert")
  /\ UpdateAndFinish(s, UpsertAccount(mem[Host(s)], seat[s].job.id, seat[s].found))
  /\ UNCHANGED <<homes, leftover, config, reload, served, contested, setup>>

\* RemoveAccount deletes the home; an import that has auth.json open writes to a
\* deleted file.  That it failed, and left auth.json (or a renewal renamed one into the
\* home meanwhile), is ignored.
RemoveHome(s) ==
  /\ At(s, "rmhome")
  /\ LET id == seat[s].job.id
     IN  \/ /\ homes' = [homes EXCEPT ![id] = MissingAuth]
            /\ leftover' = leftover \ {id}
            /\ seat' = [t \in Seats |->
                 IF t = s THEN [seat[s] EXCEPT !.pc = "forget"]
                 ELSE IF seat[t].pc = "write" /\ seat[t].job.id = id
                 THEN [seat[t] EXCEPT !.pc = "load"] ELSE seat[t]]
         \/ /\ setup.stuck
            /\ leftover' = leftover \cup {id}
            /\ Go(s, "forget")
            /\ UNCHANGED homes
  /\ UNCHANGED <<file, config, mem, proc, reload, promise, served, contested, setup>>

\* Fault: the file is written, and the copy in memory keeps the account.
ForgetOnDisk(s) ==
  /\ AtStore(s, "forget")
  /\ \E ok \in Writes : Save(RemoveAccount(mem[Host(s)], seat[s].job.id), ok)
                        /\ Finish(s, mem[Host(s)], ok)
  /\ UNCHANGED <<homes, leftover, config, reload, served, contested, setup>>

\* Then the account leaves the list.  An account that is not in it is an error.
Forget(s) ==
  /\ AtStore(s, "forget")
  /\ IF seat[s].job.id \in Known(mem[Host(s)])
     THEN UpdateAndFinish(s, RemoveAccount(mem[Host(s)], seat[s].job.id))
     ELSE Finish(s, mem[Host(s)], FALSE) /\ UNCHANGED file
  /\ UNCHANGED <<homes, leftover, config, reload, served, contested, setup>>

\* The account to pin is looked up in a snapshot.
LookUpPin(s) ==
  /\ AtStore(s, "lookup")
  /\ IF seat[s].job.id \in Known(mem[Host(s)])
     THEN Go(s, "pin") /\ UNCHANGED <<mem, proc, promise>>
     ELSE Finish(s, mem[Host(s)], FALSE)
  /\ UNCHANGED <<homes, leftover, file, config, reload, served, contested, setup>>

StorePin(s) ==
  /\ \/ At(s, "pin") /\ UpdateAndFinish(s, [mem[Host(s)] EXCEPT !.pinned = seat[s].job.id])
     \/ At(s, "unpin") /\ UpdateAndFinish(s, [mem[Host(s)] EXCEPT !.pinned = NoAccount])
  /\ UNCHANGED <<homes, leftover, config, reload, served, contested, setup>>

Work(s) ==
  \/ TruncateAuth(s) \/ WriteAuth(s) \/ ReadBack(s) \/ Register(s)
  \/ RemoveHome(s) \/ Forget(s) \/ LookUpPin(s) \/ StorePin(s)

-----------------------------------------------------------------------------
(***************************************************************************)
(* Commands                                                                *)
(***************************************************************************)

Busy(c) == seat[Own(c)].pc # "free" \/ seat[InProxy(c)].pc # "free"

\* The commands at work on the account of a job that changes it.
Rivals(job) ==
  {c \in Commands : \E s \in {Own(c), InProxy(c)} :
     seat[s].pc # "free" /\ Changes(seat[s].job) /\ Changes(job) /\ seat[s].job.id = job.id}

\* runAccountImport, runAccountRemove, runPinCommand, runAccountUnpin.
StartCommand(c) ==
  /\ ~Busy(c)
  /\ \E job \in setup.jobs[c] :
       /\ seat' = [seat EXCEPT ![Own(c)] = [Free EXCEPT !.pc = "open", !.job = job]]
       /\ promise' = Unclaim(promise, job)
       /\ contested' = IF Rivals(job) = {} THEN contested \ {c}
                       ELSE contested \cup Rivals(job) \cup {c}
  /\ UNCHANGED <<homes, leftover, file, config, mem, proc, reload, served, setup>>

Ready(c) == seat[Own(c)].pc = "open" /\ proc[c] = "up"

Start(c) == seat' = [seat EXCEPT ![Own(c)].pc = First(seat[Own(c)].job.op)]

WorkHere(c) ==
  /\ Ready(c) /\ seat[Own(c)].job.mode = "local"
  /\ Start(c)
  /\ UNCHANGED <<homes, leftover, file, config, mem, proc, reload, promise, served, contested, setup>>

\* callRemoteAdminJSON: a proxy that runs gets the request.
AskProxy(c) ==
  /\ Ready(c) /\ seat[Own(c)].job.mode # "local" /\ proc[Proxy] = "up"
  /\ LET job == seat[Own(c)].job
     IN  /\ seat' = [seat EXCEPT ![Own(c)].pc = "wait",
                       ![InProxy(c)] = [Free EXCEPT !.pc = First(job.op), !.job = job]]
         /\ served' = Unclaim(served, job)
  /\ UNCHANGED <<homes, leftover, file, config, mem, proc, reload, promise, contested, setup>>

\* No connection, no answer in time, or one that is not the API's: an automatic choice
\* of the proxy falls back to the own copy.  The handler may still be at work.
ProxyUnavailable(c) ==
  /\ \/ Ready(c) /\ seat[Own(c)].job.mode # "local" /\ proc[Proxy] # "up"
     \/ seat[Own(c)].pc = "wait"
  /\ IF seat[Own(c)].job.mode = "auto" THEN Start(c) /\ UNCHANGED <<mem, proc>>
     ELSE Close(c) /\ Give(c)
  /\ contested' = IF seat[InProxy(c)].pc = "free" THEN contested ELSE contested \cup {c}
  /\ UNCHANGED <<homes, leftover, file, config, reload, promise, served, setup>>

\* The proxy's answer is the command's.
ReadAnswer(c) ==
  /\ seat[Own(c)].pc = "wait" /\ seat[InProxy(c)].pc = "done"
  /\ LET answer == seat[InProxy(c)]
     IN  /\ promise' = IF answer.ok THEN Acknowledge(promise, c, answer.job) ELSE promise
         /\ served'  = IF answer.ok THEN Acknowledge(served, c, answer.job) ELSE served
  /\ seat' = [seat EXCEPT ![Own(c)] = Free, ![InProxy(c)] = Free]
  /\ Close(c)
  /\ UNCHANGED <<homes, leftover, file, config, reload, contested, setup>>

\* Nobody waits for the answer any more.
DropAnswer(c) ==
  /\ seat[InProxy(c)].pc = "done" /\ seat[Own(c)].pc # "wait"
  /\ seat' = [seat EXCEPT ![InProxy(c)] = Free]
  /\ UNCHANGED <<homes, leftover, file, config, mem, proc, reload, promise, served, contested, setup>>

KillCommand(c) ==
  /\ setup.kills /\ seat[Own(c)].pc # "free"
  /\ Close(c) /\ Give(c)
  /\ UNCHANGED <<homes, leftover, file, config, reload, promise, served, contested, setup>>

\* The proxy stops or crashes; it can be started again.
KillProxy ==
  /\ setup.kills /\ proc[Proxy] # "down"
  /\ Close(Proxy)
  /\ seat' = [s \in Seats |-> IF s[2] = "proxy" THEN Free ELSE seat[s]]
  /\ reload' = Off
  /\ served' = [id \in AccountIds |-> "either"]
  /\ UNCHANGED <<homes, leftover, file, config, promise, contested, setup>>

\* A user saves config.toml.
Edit ==
  /\ \E content \in setup.edits : config' = content
  /\ UNCHANGED <<homes, leftover, file, mem, proc, seat, reload, promise, served, contested, setup>>

Next ==
  \/ \E p \in Processes : Open(p)
  \/ \E s \in Seats : Work(s)
  \/ \E c \in Commands : StartCommand(c) \/ WorkHere(c) \/ AskProxy(c) \/ ProxyUnavailable(c)
                         \/ ReadAnswer(c) \/ DropAnswer(c) \/ KillCommand(c)
  \/ Reload \/ KillProxy \/ Edit

\* The reloader is a goroutine with a ticker; nothing keeps Store.mu for long.
Fairness == WF_vars(Reload)

Spec == Init /\ [][Next]_vars /\ Fairness

-----------------------------------------------------------------------------
(***************************************************************************)
(* Properties                                                              *)
(***************************************************************************)

\* Every store in memory and on disk has its ids once and its active index in the list;
\* and a command never works on a store whose pin names an account that is not there.
\* (In the proxy a removal between LookUpPin and StorePin can leave such a pin.)
StoresSound ==
  /\ Consistent(file)
  /\ \A p \in Processes : Consistent(mem[p])
  /\ \A c \in Commands : proc[c] \in {"reconciled", "up"} => PinnedKnown(mem[c])

\* What a store that is opened makes of the answers users got: an account whose import
\* was answered with success is in it, and one whose removal was is not unless its home
\* resisted, whatever processes with older copies wrote to store.json since.  A home that
\* resisted is the exception although that removal was answered with success as well.
AnswersOutlive ==
  [][\A p \in Processes : proc[p] = "configured" /\ proc'[p] = "reconciled" =>
       \A id \in AccountIds :
         /\ promise[id] = "present" => id \in Known(mem'[p])
         /\ promise[id] = "absent" /\ id \notin leftover => id \notin Known(mem'[p])]_vars

\* The running proxy serves the accounts it was told to import, and none it was told to
\* remove, whatever commands do to the files on their own.
ProxyKeepsAnswers ==
  \A id \in AccountIds :
    /\ served[id] = "present" => id \in Known(mem[Proxy])
    /\ served[id] = "absent" => id \notin Known(mem[Proxy])

\* Settings in a content that is neither of the two digests the reloader holds are in
\* force some time later, unless the file is changed again or the proxy stops.  What is
\* left out is as coded: a content that is back before the next tick, after the one saved
\* over it was read, or that was there at the first digest, is taken for known; and one
\* without a name is not in force before it has been written with one, on a full disk
\* perhaps never.
SettingsFollow ==
  \A content \in Parsed :
    (/\ config = content /\ reload.pc # "off" /\ content \notin {reload.last, reload.hash}
     /\ ~(setup.full /\ Nameless(content)))
      ~> (mem[Proxy].settings = content.settings \/ config # content \/ reload.pc = "off")

\* "Proxy polls config.toml and reloads updates automatically" (README.md:195), without
\* the exceptions.
ConfigInForce ==
  \A content \in Parsed :
    (config = content /\ reload.pc # "off")
      ~> (mem[Proxy].settings = content.settings \/ config # content \/ reload.pc = "off")

=============================================================================
