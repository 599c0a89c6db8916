-------------------------- MODULE TokenCustodyProofs --------------------------
(***************************************************************************)
(* What a home gains from TokenCustody.                                    *)
(***************************************************************************)
EXTENDS TokenCustody, TLAPS

\* Kept holds in every state that Renew, LogIn, Install and Stray can reach: without a
\* fault the service takes the refresh token an account has.
THEOREM TokenKept == Spec => []Kept
<1>1. Init => Kept
  BY DEF Init, Kept
<1>2. ASSUME Kept, [Next]_custodyVars PROVE Kept'
  <2>1. CASE Renew
    BY <2>1 DEF Renew, Kept
  <2>2. CASE LogIn
    <3>1. live \subseteq live'
      BY <2>2 DEF LogIn
    <3>2. CASE token' \in live' \ live
      BY <3>2 DEF Kept
    <3>3. CASE UNCHANGED <<token, lost>>
      BY <1>2, <3>1, <3>3 DEF Kept
    <3> QED
      BY <2>2, <3>2, <3>3 DEF LogIn
  <2>3. CASE Install
    BY <2>3 DEF Install, Kept
  <2>4. CASE Stray
    BY <2>4, Zenon DEF Stray, Kept
  <2>5. CASE UNCHANGED custodyVars
    BY <1>2, <2>5 DEF custodyVars, Kept
  <2> QED
    BY <1>2, <2>1, <2>2, <2>3, <2>4, <2>5 DEF Next
<1> QED
  BY <1>1, <1>2, PTL DEF Spec

=============================================================================
