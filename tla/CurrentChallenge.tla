-------------------------- MODULE CurrentChallenge --------------------------
(***************************************************************************)
(* The slot with the current challenge (linux-daemon/src/                  *)
(* current_challenge.rs): an Option<[u8; 32]> behind a mutex, shared by    *)
(* the AuthProcessor and the GATT handlers. Every method holds the mutex   *)
(* for its whole body, so each is one atomic step.                         *)
(*                                                                         *)
(* 32 random bytes never repeat in practice: a challenge is the number of  *)
(* the refresh that drew it, and NoChallenge is None.                      *)
(***************************************************************************)
EXTENDS Integers

VARIABLES
    challenge,  \* the slot
    issued      \* history: how many challenges were drawn

challengeVars == <<challenge, issued>>

NoChallenge == 0

ChallengeTypeOK ==
    /\ issued \in Nat
    /\ challenge \in 0 .. issued

ChallengeInit ==
    /\ challenge = NoChallenge
    /\ issued = 0

\* Mutant of Refresh: the slot is filled only when it is empty.
Refresh_KeepsOld ==
    /\ issued' = issued + 1
    /\ challenge' = IF challenge = NoChallenge THEN issued + 1 ELSE challenge

\* refresh(): draw a fresh challenge and replace whatever the slot holds.
Refresh ==
    /\ issued' = issued + 1
    /\ challenge' = issued + 1

\* peek() = Ok(_): a copy of the slot can be read.
CanPeek == challenge # NoChallenge

\* Mutant of Matches: any answer is taken for the current challenge.
Matches_Anything(c) == CanPeek

\* The comparison of take_if_matches(c): Ok(true), against Ok(false) or Err.
Matches(c) == CanPeek /\ challenge = c

\* Mutant of TakeIfMatches: a matching challenge is compared and left there.
TakeIfMatches_Leaves(c) == UNCHANGED challengeVars

\* take_if_matches(c): the slot is emptied by a match and by nothing else.
TakeIfMatches(c) ==
    /\ challenge' = IF Matches(c) THEN NoChallenge ELSE challenge
    /\ UNCHANGED issued
=============================================================================
