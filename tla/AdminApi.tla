------------------------------- MODULE AdminApi -------------------------------
(***************************************************************************)
(* The account operations of the admin API: handleAdmin of                 *)
(* internal/lb/proxy.go with RemoveAccount, ImportAccountData and          *)
(* RegisterAccount of internal/lb/wrapper.go, and the config reloader's    *)
(* effect on the settings.                                                 *)
(*                                                                         *)
(* The account's home directory is changed outside the store's lock, so    *)
(* removing and importing are several steps, and pinning looks the         *)
(* account up in a snapshot before it stores the pin.                      *)
(***************************************************************************)
EXTENDS ProxyState

CONSTANT Admins    \* handlers of admin requests

VARIABLE admin

AdminPcs == {"idle", "forget", "pin", "write", "register", "upsert"}

AdminState == [pc : AdminPcs, id : AccountIds \cup {NoAccount},
               identity : Identities \cup {MissingAuth}]

AdminIdle == [pc |-> "idle", id |-> NoAccount, identity |-> MissingAuth]

AdminStep(a, from) == admin[a].pc = from

AdminGoTo(a, pc, id, identity) ==
  admin' = [admin EXCEPT ![a] = [pc |-> pc, id |-> id, identity |-> identity]]

AdminDone(a) == admin' = [admin EXCEPT ![a] = AdminIdle]

\* account/rm deletes the home first, whether or not the account is known.
\* An import that has the file open goes on to write to a deleted file.  That
\* the home could not be deleted is ignored.
RemoveHome(a) ==
  /\ AdminStep(a, "idle")
  /\ \E id \in AccountIds :
       \/ /\ homes' = [homes EXCEPT ![id] = MissingAuth]
          /\ admin' = [b \in Admins |->
               IF b = a THEN [AdminIdle EXCEPT !.pc = "forget", !.id = id]
               ELSE IF AdminStep(b, "write") /\ admin[b].id = id
               THEN [admin[b] EXCEPT !.pc = "register", !.identity = MissingAuth]
               ELSE admin[b]]
       \/ AdminGoTo(a, "forget", id, MissingAuth) /\ UNCHANGED homes
  /\ UNCHANGED <<sf, clock>>

\* Then the account is taken out of the pool.
ForgetAccount(a) ==
  /\ AdminStep(a, "forget")
  /\ sf' = RemoveAccount(sf, admin[a].id)
  /\ AdminDone(a)
  /\ UNCHANGED <<homes, clock>>

\* account/pin finds the account in a snapshot ...
LookUpPin(a) ==
  /\ AdminStep(a, "idle")
  /\ \E id \in Known(sf) : AdminGoTo(a, "pin", id, MissingAuth)
  /\ UNCHANGED <<sf, homes, clock>>

\* ... and stores its id.
StorePin(a) ==
  /\ AdminStep(a, "pin")
  /\ sf' = [sf EXCEPT !.pinned = admin[a].id]
  /\ AdminDone(a)
  /\ UNCHANGED <<homes, clock>>

Unpin(a) ==
  /\ AdminStep(a, "idle")
  /\ sf.pinned # NoAccount
  /\ sf' = [sf EXCEPT !.pinned = NoAccount]
  /\ UNCHANGED <<homes, clock, admin>>

\* account/import truncates auth.json (and so does the codex program that
\* account/login runs) ...
TruncateAuth(a) ==
  /\ AdminStep(a, "idle")
  /\ \E id \in AccountIds, identity \in Identities :
       /\ homes' = [homes EXCEPT ![id] = MissingAuth]
       /\ AdminGoTo(a, "write", id, identity)
  /\ UNCHANGED <<sf, clock>>

\* ... writes it (a write that fails leaves a part of it) ...
WriteAuth(a) ==
  /\ AdminStep(a, "write")
  /\ \/ /\ homes' = [homes EXCEPT ![admin[a].id] = admin[a].identity]
        /\ AdminGoTo(a, "register", admin[a].id, MissingAuth)
     \/ /\ homes' = [homes EXCEPT ![admin[a].id] = MissingAuth]
        /\ AdminDone(a)
  /\ UNCHANGED <<sf, clock>>

\* ... reads it back, which fails if it was removed meanwhile ...
ReadBack(a) ==
  /\ AdminStep(a, "register")
  /\ LET found == homes[admin[a].id]
     IN  IF found = MissingAuth THEN AdminDone(a)
         ELSE AdminGoTo(a, "upsert", admin[a].id, found)
  /\ UNCHANGED <<sf, homes, clock>>

\* ... and registers the account.
Register(a) ==
  /\ AdminStep(a, "upsert")
  /\ sf' = UpsertAccount(sf, admin[a].id, admin[a].identity)
  /\ AdminDone(a)
  /\ UNCHANGED <<homes, clock>>

Administer(a) ==
  \/ RemoveHome(a) \/ ForgetAccount(a) \/ LookUpPin(a) \/ StorePin(a) \/ Unpin(a)
  \/ TruncateAuth(a) \/ WriteAuth(a) \/ ReadBack(a) \/ Register(a)

\* The config reloader replaces the settings.
ReloadSettings ==
  /\ \E settings \in SettingsChoices \ {sf.settings} : sf' = [sf EXCEPT !.settings = settings]
  /\ UNCHANGED <<homes, clock, admin>>

=============================================================================
