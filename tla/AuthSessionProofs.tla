-------------------------- MODULE AuthSessionProofs --------------------------
(***************************************************************************)
(* The session under a clock that only runs forward: it never outlives its *)
(* Ttl, whatever the Ttl. A clock that is set back makes it older than     *)
(* that, so the assumption on the clock is needed.                         *)
(***************************************************************************)
EXTENDS AuthSession, TLAPS

USE SessionAssumption

\* The window that is open, if any, was opened in the past; age is its age, until
\* it is as old as the Ttl.
SessionInv ==
    /\ SessionTypeOK
    /\ verifiedAt > 0 =>
         /\ verifiedAt <= now
         /\ expiresAt = verifiedAt + Ttl
         /\ age < Ttl => age = now - verifiedAt
         /\ age = Ttl => now - verifiedAt >= Ttl

LEMMA SessionInvInductive == SessionInv /\ [SessionNext]_sessionVars => SessionInv'
<1> SUFFICES ASSUME SessionInv, [SessionNext]_sessionVars PROVE SessionInv'
  OBVIOUS
<1>1. CASE MarkVerified
  BY <1>1 DEF SessionInv, SessionTypeOK, MarkVerified, ClockReadable, BeforeEpoch
<1>2. CASE Tick
  BY <1>2 DEF SessionInv, SessionTypeOK, Tick, BeforeEpoch
<1>3. CASE UNCHANGED sessionVars
  BY <1>3 DEF SessionInv, SessionTypeOK, sessionVars
<1> QED BY <1>1, <1>2, <1>3 DEF SessionNext

LEMMA SessionInvInvariant == SessionSpec => []SessionInv
<1>1. SessionInit => SessionInv
  BY DEF SessionInit, SessionInv, SessionTypeOK, BeforeEpoch
<1> QED BY <1>1, SessionInvInductive, PTL DEF SessionSpec

\* The session expires on time: no request is answered from it Ttl seconds after
\* the wrist authentication, and none at all with auth_cache_ttl_seconds = 0.
THEOREM SessionExpires == SessionSpec => []SessionHonoursTtl
<1>1. SessionInv => SessionHonoursTtl
  BY DEF SessionInv, SessionTypeOK, SessionHonoursTtl, IsVerified
<1> QED BY <1>1, SessionInvInvariant, PTL

\* An expired session is opened again by a wrist authentication only.
THEOREM SessionNeedsMark == SessionSpec => OnlyMarkReopens
<1>1. ASSUME SessionInv, SessionInv', [SessionNext]_sessionVars
      PROVE  [~IsVerified /\ IsVerified' => age' = 0]_sessionVars
  <2>1. CASE MarkVerified
    BY <1>1, <2>1 DEF MarkVerified, IsVerified, ClockReadable
  <2>2. CASE Tick
    BY <1>1, <2>2 DEF SessionInv, SessionTypeOK, Tick, IsVerified, ClockReadable, BeforeEpoch
  <2>3. CASE UNCHANGED sessionVars
    BY <2>3
  <2> QED BY <1>1, <2>1, <2>2, <2>3 DEF SessionNext
<1> QED BY <1>1, SessionInvInvariant, PTL DEF SessionSpec, OnlyMarkReopens
=============================================================================
