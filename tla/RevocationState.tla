--------------------------- MODULE RevocationState ---------------------------
(***************************************************************************)
(* agents/base/revocation_state.py: what an agent denies and whether it    *)
(* may trust that answer.  Pure operators over the local set, the snapshot *)
(* in force and the clock; the state itself is a variable of               *)
(* AgentRevocation, which shares it between the server (which enforces)    *)
(* and the admin router (which mutates), as the code does by reference.    *)
(***************************************************************************)
EXTENDS Integers

CONSTANTS
    Jti,            \* token identifiers (UUIDs)
    MaxStaleness,   \* revocation_max_staleness_secs
    NoSnapshot      \* RevocationState.snapshot is None

Snapshot == [entries : SUBSET Jti, published_at : Nat, expires_at : Nat]

ASSUME StalenessAssumption == MaxStaleness \in Nat
ASSUME NoSnapshotAssumption == NoSnapshot \notin Snapshot

age_secs(snap, now) == now - snap.published_at

is_expired(snap, now) == now >= snap.expires_at

effective_jtis(local, snap) ==
    IF snap = NoSnapshot THEN local ELSE local \cup snap.entries

is_revoked(j, local, snap) == j \in effective_jtis(local, snap)

\* Mutation of posture: the age of the snapshot is not looked at.
PostureIgnoresAge(can_verify, snap, now) ==
    IF ~can_verify THEN "unchecked"
    ELSE IF snap = NoSnapshot \/ is_expired(snap, now)
         THEN "degraded" ELSE "current"

posture(can_verify, snap, now) ==
    IF ~can_verify THEN "unchecked"
    ELSE IF \/ snap = NoSnapshot
            \/ is_expired(snap, now)
            \/ age_secs(snap, now) > MaxStaleness
         THEN "degraded" ELSE "current"
==============================================================================
