---------------------------- MODULE AuthSession ----------------------------
(***************************************************************************)
(* The authentication cache of the daemon (linux-daemon/src/               *)
(* auth_session.rs): one window of Ttl seconds, opened by a successful     *)
(* wrist authentication and judged against the wall clock.                 *)
(*                                                                         *)
(* Time is counted in whole seconds, as Duration::as_secs() truncates it.  *)
(* A SystemTime before UNIX_EPOCH makes duration_since fail: that clock    *)
(* value is BeforeEpoch, and neither method can read it.                   *)
(***************************************************************************)
EXTENDS Integers

CONSTANTS
    Ttl,        \* auth_cache_ttl_seconds of the configuration
    MaxTime     \* bound: the last second the wall clock reaches

ASSUME SessionAssumption == Ttl \in Nat /\ MaxTime \in Nat

VARIABLES
    now,        \* the wall clock, SystemTime::now()
    verifiedAt, \* SessionData.verified_at
    expiresAt,  \* SessionData.expires_at
    age         \* history: seconds that really passed since the last
                \* successful mark_verified, saturating at Ttl

sessionVars == <<now, verifiedAt, expiresAt, age>>

BeforeEpoch == -1
ClockReadable == now # BeforeEpoch

SessionTypeOK ==
    /\ now \in BeforeEpoch .. MaxTime
    /\ verifiedAt \in 0 .. MaxTime
    /\ expiresAt \in 0 .. (MaxTime + Ttl)
    /\ age \in 0 .. Ttl

SessionInit ==
    /\ now \in BeforeEpoch .. MaxTime
    /\ verifiedAt = 0
    /\ expiresAt = 0
    /\ age = Ttl

\* Mutant of IsVerified: the last second of the window counts twice.
IsVerified_ClosedWindow ==
    ClockReadable /\ verifiedAt > 0 /\ expiresAt >= now

\* Mutant of IsVerified: the comparison is the wrong way round.
IsVerified_Swapped ==
    ClockReadable /\ verifiedAt > 0 /\ now >= expiresAt

\* is_verified() = Ok(true)
IsVerified == ClockReadable /\ verifiedAt > 0 /\ expiresAt > now

\* Mutant of MarkVerified: a clock that cannot be read is stored all the same.
MarkVerified_Unreadable ==
    /\ verifiedAt' = now /\ expiresAt' = now + Ttl /\ age' = 0
    /\ now' = now

\* mark_verified(): Err, and nothing stored, when the clock cannot be read.
MarkVerified ==
    /\ IF ClockReadable
         THEN verifiedAt' = now /\ expiresAt' = now + Ttl /\ age' = 0
         ELSE UNCHANGED <<verifiedAt, expiresAt, age>>
    /\ now' = now

\* One second passes, and the wall clock follows it.
Tick ==
    /\ now < MaxTime
    /\ now' = now + 1
    /\ age' = IF age < Ttl THEN age + 1 ELSE age
    /\ UNCHANGED <<verifiedAt, expiresAt>>

\* An administrator, or a time daemon that steps, sets the clock. No time passes.
SetClock(t) ==
    /\ now' = t
    /\ UNCHANGED <<verifiedAt, expiresAt, age>>

SessionNext == MarkVerified \/ Tick

\* The session under a clock that only runs forward.
SessionSpec == SessionInit /\ [][SessionNext]_sessionVars

-----------------------------------------------------------------------------
\* No request is answered from the cache once Ttl seconds have passed since the
\* wrist authentication that opened it; with Ttl = 0, none ever is
\* (auth_session.rs:46-58). True of a clock that runs forward only.
SessionHonoursTtl == IsVerified => age < Ttl

\* A closed window is opened again by a new wrist authentication and by nothing
\* else: time alone never revives an expired session (auth_session.rs:53-58).
OnlyMarkReopens == [][~IsVerified /\ IsVerified' => age' = 0]_sessionVars
=============================================================================
