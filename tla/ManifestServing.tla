---------------------------- MODULE ManifestServing ----------------------------
(***************************************************************************)
(* The manifest an agent serves (agents/base/aitp_server.py): requests on  *)
(* threadpool threads mint it anew at its half-life (_fresh_manifest_json) *)
(* while POST /admin/rotate-keys, on the event loop, replaces key and      *)
(* manifest.  _manifest_lock is held over a signature.                     *)
(***************************************************************************)
EXTENDS Integers

CONSTANTS
    Threads,        \* threads that serve GET /.well-known/aitp-manifest
    HalfLife,       \* half the ttl_secs of a manifest
    Cooldown,       \* _MANIFEST_REMINT_COOLDOWN_SECS
    SignSecs,       \* bound: how long a thread may hold the lock
    MaxClock,       \* bound: time passed
    MaxKeys,        \* bound: keys the agent has had
    None

ASSUME TimeAssumption ==
    /\ HalfLife \in Nat \ {0} /\ Cooldown \in Nat \ {0} /\ MaxClock \in Nat
    /\ SignSecs \in Nat /\ SignSecs < HalfLife
ASSUME KeyAssumption == MaxKeys \in Nat \ {0}

Manifest == [key : 1..MaxKeys, published_at : 0..MaxClock]

ASSUME NoneAssumption == None \notin Threads /\ None \notin Manifest

VARIABLES
    clock,
    agent,          \* generation of self.agent's key
    manifest_json,  \* the manifest: key it is of, published_at
    cooldown_until, \* _manifest_remint_cooldown_until
    lock,           \* who holds _manifest_lock
    locked_at,      \* since when
    pc,             \* where a request is
    now,            \* the time a request read first
    minted,         \* the manifest a request signed
    gave_up,        \* a request that serves what there is: the cooldown, or a failure
    served,         \* what a request answered with
    rotation        \* the new manifest of a rotation under way

serveVars == <<pc, now, minted, gave_up, served>>
lockVars  == <<lock, locked_at>>
vars == <<clock, agent, manifest_json, cooldown_until, lockVars, serveVars, rotation>>

\* When a manifest is due to be minted anew.
manifest_deadline(man) == man.published_at + HalfLife

Goto(t, label) == pc' = [pc EXCEPT ![t] = label]
Locks(t)  == lock = None /\ lock' = t /\ locked_at' = clock
Unlocks   == lock' = None /\ UNCHANGED locked_at

------------------------------------------------------------------------------
(* _fresh_manifest_json.                                                   *)

\* The first look, without the lock: the manifest is young, or a re-mint failed
\* a short while ago.
Request(t) ==
    LET young == clock < manifest_deadline(manifest_json)
        cools == ~young /\ clock < cooldown_until
    IN  /\ pc[t] = "idle"
        /\ now' = [now EXCEPT ![t] = clock]
        /\ served' = [served EXCEPT ![t] = None]
        /\ gave_up' = [gave_up EXCEPT ![t] = cools]
        /\ Goto(t, IF young \/ cools THEN "return" ELSE "lock")
        /\ UNCHANGED <<clock, agent, manifest_json, cooldown_until, lockVars, minted, rotation>>

\* Under the lock, look again, and take note of the agent that is to sign.
LockAndLook(t) ==
    /\ pc[t] = "lock" /\ Locks(t)
    /\ IF clock < manifest_deadline(manifest_json)
       THEN Goto(t, "answer") /\ UNCHANGED minted
       ELSE /\ Goto(t, "sign")
            /\ minted' = [minted EXCEPT ![t] = [key |-> agent, published_at |-> clock]]
    /\ UNCHANGED <<clock, agent, manifest_json, cooldown_until, now, gave_up, served, rotation>>

\* The manifest is signed, as of this moment.
Sign(t) ==
    /\ pc[t] = "sign"
    /\ minted' = [minted EXCEPT ![t].published_at = clock]
    /\ Goto(t, "compare")
    /\ UNCHANGED <<clock, agent, manifest_json, cooldown_until, lockVars, now, gave_up, served,
                   rotation>>

\* Signing raises: no attempt again for a while.
SignFails(t) ==
    /\ pc[t] = "sign"
    /\ cooldown_until' = clock + Cooldown
    /\ gave_up' = [gave_up EXCEPT ![t] = TRUE]
    /\ Goto(t, "answer")
    /\ UNCHANGED <<clock, agent, manifest_json, lockVars, now, minted, served, rotation>>

\* A manifest of an agent that was replaced meanwhile is discarded.
Compare(t) ==
    /\ pc[t] = "compare"
    /\ Goto(t, IF minted[t].key = agent THEN "install" ELSE "answer")
    /\ UNCHANGED <<clock, agent, manifest_json, cooldown_until, lockVars, now, minted, gave_up,
                   served, rotation>>

\* Mutation of Install: the manifest is answered with and not kept.
InstallForgets(t) ==
    /\ pc[t] = "install"
    /\ cooldown_until' = 0
    /\ Goto(t, "unlock")
    /\ UNCHANGED <<clock, agent, manifest_json, lockVars, now, minted, gave_up, served, rotation>>

Install(t) ==
    /\ pc[t] = "install"
    /\ manifest_json' = minted[t] /\ cooldown_until' = 0
    /\ Goto(t, "unlock")
    /\ UNCHANGED <<clock, agent, lockVars, now, minted, gave_up, served, rotation>>

\* Returns inside the with block: the answer is read, then the lock let go.
AnswerLocked(t) ==
    /\ pc[t] = "answer" /\ Unlocks
    /\ served' = [served EXCEPT ![t] = manifest_json]
    /\ Goto(t, "idle")
    /\ UNCHANGED <<clock, agent, manifest_json, cooldown_until, now, minted, gave_up, rotation>>

\* The end of the with block, after a re-mint.
Unlock(t) ==
    /\ pc[t] = "unlock" /\ Unlocks
    /\ Goto(t, "return")
    /\ UNCHANGED <<clock, agent, manifest_json, cooldown_until, now, minted, gave_up, served,
                   rotation>>

\* Returns outside it: the answer is what self.manifest_json is by now.
Return(t) ==
    /\ pc[t] = "return"
    /\ served' = [served EXCEPT ![t] = manifest_json]
    /\ Goto(t, "idle")
    /\ UNCHANGED <<clock, agent, manifest_json, cooldown_until, lockVars, now, minted, gave_up,
                   rotation>>

------------------------------------------------------------------------------
(* rotate_keys.                                                            *)

\* A new key and its manifest, before the lock is asked for.
Rotate ==
    /\ rotation = None /\ agent < MaxKeys
    /\ rotation' = [key |-> agent + 1, published_at |-> clock]
    /\ UNCHANGED <<clock, agent, manifest_json, cooldown_until, lockVars, serveVars>>

\* Mutation of RotateInstalls: the lock is not asked for.
RotateInstallsUnlocked ==
    /\ rotation # None
    /\ agent' = rotation.key /\ manifest_json' = rotation /\ cooldown_until' = 0
    /\ rotation' = None
    /\ UNCHANGED <<clock, lockVars, serveVars>>

\* Both take effect under it.
RotateInstalls ==
    /\ rotation # None /\ lock = None
    /\ agent' = rotation.key /\ manifest_json' = rotation /\ cooldown_until' = 0
    /\ rotation' = None
    /\ UNCHANGED <<clock, lockVars, serveVars>>

------------------------------------------------------------------------------
\* Time passes; signing is done within SignSecs, and so is a rotation's wait.
Tick ==
    /\ clock < MaxClock /\ clock' = clock + 1
    /\ lock # None => clock < locked_at + SignSecs
    /\ rotation # None => clock < rotation.published_at + SignSecs
    /\ UNCHANGED <<agent, manifest_json, cooldown_until, lockVars, serveVars, rotation>>

Init ==
    /\ clock = 0 /\ agent = 1
    /\ manifest_json = [key |-> 1, published_at |-> 0]
    /\ cooldown_until = 0 /\ lock = None /\ locked_at = 0
    /\ pc = [t \in Threads |-> "idle"] /\ now = [t \in Threads |-> 0]
    /\ minted = [t \in Threads |-> None] /\ gave_up = [t \in Threads |-> FALSE]
    /\ served = [t \in Threads |-> None] /\ rotation = None

Serve(t) ==
    \/ Request(t) \/ LockAndLook(t) \/ Sign(t) \/ SignFails(t) \/ Compare(t) \/ Install(t)
    \/ AnswerLocked(t) \/ Unlock(t) \/ Return(t)

Next ==
    \/ \E t \in Threads : Serve(t)
    \/ Rotate \/ RotateInstalls
    \/ Tick

Spec == Init /\ [][Next]_vars

------------------------------------------------------------------------------
(* Properties.                                                             *)

TypeOK ==
    /\ clock \in 0..MaxClock /\ agent \in 1..MaxKeys /\ manifest_json \in Manifest
    /\ cooldown_until \in Nat /\ lock \in Threads \cup {None} /\ locked_at \in 0..MaxClock
    /\ pc \in [Threads -> {"idle", "lock", "sign", "compare", "install", "answer", "unlock",
                        "return"}]
    /\ now \in [Threads -> 0..MaxClock] /\ minted \in [Threads -> Manifest \cup {None}]
    /\ gave_up \in [Threads -> BOOLEAN] /\ served \in [Threads -> Manifest \cup {None}]
    /\ rotation \in Manifest \cup {None}

Holding == {"sign", "compare", "install", "answer", "unlock"}

\* The manifest in force is always of the key in force: a re-mint that began
\* before a rotation never overwrites the rotation's manifest, because it has the
\* lock all the while and its signer is still the agent (_manifest_lock).
KeyAndManifestAgree ==
    /\ TypeOK
    /\ manifest_json.key = agent
    /\ \A t \in Threads : pc[t] \in Holding => lock = t
    /\ \A t \in Threads : pc[t] \in {"sign", "compare", "install"} =>
          minted[t] # None /\ minted[t].key = agent

\* What a request is answered with was, when it asked, in the first half of its
\* life, however requests, rotations and the lock's wait interleave, unless the
\* request itself saw a re-mint fail or came within the cooldown of one
\* (_fresh_manifest_json, "guarantees a floor").
FloorKept ==
    \A t \in Threads : served[t] # None /\ ~gave_up[t] =>
        now[t] < manifest_deadline(served[t])

================================================================================
