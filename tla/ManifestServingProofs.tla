------------------------ MODULE ManifestServingProofs ------------------------
(***************************************************************************)
(* Proofs about ManifestServing: for any number of threads and keys, any   *)
(* half-life and cooldown, and any bound on signing below the half-life.   *)
(***************************************************************************)
EXTENDS ManifestServing, TLAPS

USE TimeAssumption, KeyAssumption, NoneAssumption

------------------------------------------------------------------------------
(* The manifest in force is of the key in force.                           *)

LEMMA InitAgrees == Init => KeyAndManifestAgree
  BY DEF Init, KeyAndManifestAgree, TypeOK, Manifest, Holding

\* What a request does changes the manifest only under the lock.
LEMMA ServeAgrees ==
    ASSUME KeyAndManifestAgree, NEW t \in Threads, Serve(t)
    PROVE  KeyAndManifestAgree'
  <1> USE DEF KeyAndManifestAgree, TypeOK, Holding, Goto, lockVars, serveVars
  <1>1. CASE Request(t)
    BY <1>1 DEF Request
  <1>2. CASE LockAndLook(t)
    BY <1>2 DEF LockAndLook, Locks, Manifest
  <1>3. CASE Sign(t)
    BY <1>3 DEF Sign, Manifest
  <1>4. CASE SignFails(t)
    BY <1>4 DEF SignFails
  <1>5. CASE Compare(t)
    BY <1>5 DEF Compare
  <1>6. CASE Install(t)
    BY <1>6 DEF Install, Manifest
  <1>7. CASE AnswerLocked(t)
    BY <1>7 DEF AnswerLocked, Unlocks
  <1>8. CASE Unlock(t)
    BY <1>8 DEF Unlock, Unlocks
  <1>9. CASE Return(t)
    BY <1>9 DEF Return
  <1>10. QED
    BY <1>1, <1>2, <1>3, <1>4, <1>5, <1>6, <1>7, <1>8, <1>9 DEF Serve

\* So does a rotation, which waits until no request has the lock.
LEMMA StepAgrees ==
    ASSUME KeyAndManifestAgree, [Next]_vars
    PROVE  KeyAndManifestAgree'
  <1>1. CASE \E t \in Threads : Serve(t)
    BY <1>1, ServeAgrees
  <1>2. CASE Rotate
    BY <1>2 DEF Rotate, KeyAndManifestAgree, TypeOK, Manifest, lockVars, serveVars
  <1>3. CASE RotateInstalls
    <2>1. \A t \in Threads : pc[t] \notin Holding
      BY <1>3 DEF RotateInstalls, KeyAndManifestAgree
    <2>2. rotation \in Manifest
      BY <1>3 DEF RotateInstalls, KeyAndManifestAgree, TypeOK
    <2>3. QED
      BY <1>3, <2>1, <2>2
      DEF RotateInstalls, KeyAndManifestAgree, TypeOK, Manifest, Holding, lockVars, serveVars
  <1>4. CASE Tick
    BY <1>4 DEF Tick, KeyAndManifestAgree, TypeOK, lockVars, serveVars
  <1>5. CASE UNCHANGED vars
    BY <1>5 DEF vars, lockVars, serveVars, KeyAndManifestAgree, TypeOK
  <1>6. QED
    BY <1>1, <1>2, <1>3, <1>4, <1>5 DEF Next

\* However re-mints on threads and rotations interleave, the manifest in force is
\* of the key in force (_fresh_manifest_json, rotate_keys, _manifest_lock).
THEOREM KeyAndManifestAgreeHolds == Spec => []KeyAndManifestAgree
  BY InitAgrees, StepAgrees, PTL DEF Spec

------------------------------------------------------------------------------
(* What is served has more than half its life before it.                   *)

\* Nobody has had the lock, or waited for it in a rotation, for too long, and
\* what is signed under it is dated no earlier than the lock.
OnTime ==
    /\ \A t \in Threads : now[t] <= clock
    /\ rotation # None => clock <= rotation.published_at + SignSecs
    /\ lock # None => locked_at <= clock /\ clock <= locked_at + SignSecs
    /\ \A t \in Threads : pc[t] \in {"sign", "compare", "install"} =>
          locked_at <= minted[t].published_at

\* A request that is about to answer would answer in time.
AboutToServe ==
    \A t \in Threads : pc[t] \in {"answer", "unlock", "return"} /\ ~gave_up[t] =>
        now[t] < manifest_deadline(manifest_json)

\* The inductive invariant behind FloorKept.
FloorInv == KeyAndManifestAgree /\ OnTime /\ AboutToServe /\ FloorKept

LEMMA InitFloor == Init => FloorInv
  BY InitAgrees DEF Init, FloorInv, OnTime, AboutToServe, FloorKept

\* A manifest dated late enough is one any request may be answered with.
LEMMA ServeFloor ==
    ASSUME FloorInv, NEW t \in Threads, Serve(t)
    PROVE  (OnTime /\ AboutToServe /\ FloorKept)'
  <1> USE DEF FloorInv, KeyAndManifestAgree, TypeOK, Holding, OnTime, AboutToServe, FloorKept,
              manifest_deadline, Goto, lockVars, serveVars
  <1>1. CASE Request(t)
    <2> DEFINE young == clock < manifest_deadline(manifest_json)
    <2>1. /\ now'[t] = clock /\ served'[t] = None /\ UNCHANGED <<clock, manifest_json>>
          /\ \A u \in Threads \ {t} :
                /\ now'[u] = now[u] /\ served'[u] = served[u]
                /\ gave_up'[u] = gave_up[u] /\ pc'[u] = pc[u]
      BY <1>1 DEF Request
    <2>2. pc'[t] \in {"return", "lock"}
      BY <1>1 DEF Request
    <2>3. pc'[t] = "return" => young \/ gave_up'[t]
      <3>1. CASE young
        BY <3>1
      <3>2. CASE ~young /\ clock < cooldown_until
        BY <1>1, <3>2, Zenon DEF Request
      <3>3. CASE ~young /\ ~(clock < cooldown_until)
        BY <1>1, <3>3 DEF Request
      <3>4. QED
        BY <3>1, <3>2, <3>3
    <2>4. OnTime'
      BY <1>1, <2>1, <2>2 DEF Request
    <2>5. QED
      BY <2>1, <2>2, <2>3, <2>4
  <1>2. CASE LockAndLook(t)
    BY <1>2 DEF LockAndLook, Locks, Manifest
  <1>3. CASE Sign(t)
    BY <1>3 DEF Sign, Manifest
  <1>4. CASE SignFails(t)
    BY <1>4 DEF SignFails
  <1>5. CASE Compare(t)
    BY <1>5 DEF Compare
  <1>6. CASE Install(t)
    BY <1>6 DEF Install, Manifest
  <1>7. CASE AnswerLocked(t)
    BY <1>7 DEF AnswerLocked, Unlocks
  <1>8. CASE Unlock(t)
    BY <1>8 DEF Unlock, Unlocks
  <1>9. CASE Return(t)
    BY <1>9 DEF Return
  <1>10. QED
    BY <1>1, <1>2, <1>3, <1>4, <1>5, <1>6, <1>7, <1>8, <1>9 DEF Serve

LEMMA StepFloor ==
    ASSUME FloorInv, [Next]_vars
    PROVE  FloorInv'
  <1>1. KeyAndManifestAgree'
    BY StepAgrees DEF FloorInv
  <1>2. CASE \E t \in Threads : Serve(t)
    BY <1>1, <1>2, ServeFloor DEF FloorInv
  <1>3. CASE Rotate
    BY <1>1, <1>3 DEF Rotate, FloorInv, KeyAndManifestAgree, TypeOK, OnTime, AboutToServe,
                      FloorKept, lockVars, serveVars
  <1>4. CASE RotateInstalls
    \* The rotation's manifest may be older than the one it replaces.
    <2>1. \A t \in Threads : now[t] < manifest_deadline(rotation)
      BY <1>4 DEF RotateInstalls, FloorInv, KeyAndManifestAgree, TypeOK, Manifest, OnTime,
                  manifest_deadline
    <2>2. QED
      BY <1>1, <1>4, <2>1 DEF RotateInstalls, FloorInv, OnTime, AboutToServe, FloorKept,
                              lockVars, serveVars
  <1>5. CASE Tick
    BY <1>1, <1>5 DEF Tick, FloorInv, KeyAndManifestAgree, TypeOK, Manifest, OnTime,
                      AboutToServe, FloorKept, lockVars, serveVars
  <1>6. CASE UNCHANGED vars
    BY <1>1, <1>6 DEF vars, lockVars, serveVars, FloorInv, OnTime, AboutToServe, FloorKept
  <1>7. QED
    BY <1>2, <1>3, <1>4, <1>5, <1>6 DEF Next

\* A request is answered with a manifest that was, when it asked, in the first
\* half of its life, unless it saw a re-mint fail or came within the cooldown
\* of one (_fresh_manifest_json).
THEOREM FloorKeptHolds == Spec => []FloorKept
  <1>1. FloorInv => FloorKept
    BY DEF FloorInv
  <1>2. QED
    BY <1>1, InitFloor, StepFloor, PTL DEF Spec

==============================================================================
