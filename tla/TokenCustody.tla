----------------------------- MODULE TokenCustody -----------------------------
(***************************************************************************)
(* What the renewal of tokens owes one account, whoever carries it out.    *)
(*                                                                         *)
(* A refresh token can be exchanged once.  The account stays usable while  *)
(* the token this installation has for it is one the service still takes.  *)
(* Exchanging it, logging in and bringing a token in keep that true.  Only *)
(* a fault (a crash, a lost answer, a token spent by another machine) may  *)
(* end it, and lost says that one did.                                     *)
(***************************************************************************)
EXTENDS Naturals

VARIABLES token,   \* the refresh token the installation has, 0 for none
          live,    \* the refresh tokens the service takes
          lost     \* since a fault the installation may have a spent token

custodyVars == <<token, live, lost>>

Init ==
  /\ token = 1
  /\ live = {1}
  /\ lost = FALSE

\* The service replaces a token it takes by a new one.
Exchanged ==
  \E old \in live, new \in live' \ live : live' = (live \ {old}) \cup {new}

\* A token is exchanged and its successor is what the installation has.
Renew ==
  /\ Exchanged
  /\ token' \in live' \ live
  /\ lost' = FALSE

\* The user logs in: the service takes one more token.  It is brought in, or it is
\* dropped for one that is already on its way.
LogIn ==
  /\ \E new \in live' \ live : live' = live \cup {new}
  /\ \/ token' \in live' \ live /\ lost' \in {FALSE, lost}
     \/ UNCHANGED <<token, lost>>

\* A token the service takes is brought in, or a login that has none.
Install ==
  /\ token' \in live \cup {0}
  /\ lost' \in {FALSE, lost}
  /\ UNCHANGED live

\* A fault: the successor of an exchanged token goes elsewhere, or an old token
\* comes back.
Stray ==
  /\ token' \in Nat
  /\ UNCHANGED live \/ Exchanged
  /\ lost' = TRUE

Next == Renew \/ LogIn \/ Install \/ Stray

Spec == Init /\ [][Next]_custodyVars

\* What follows for the installation: without a fault its token is taken.
Kept == ~lost => token \in live \cup {0}

=============================================================================
