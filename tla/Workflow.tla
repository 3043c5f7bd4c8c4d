------------------------------- MODULE Workflow -------------------------------
(***************************************************************************)
(* The steps of a scenario (runner/engine.py, _dispatch_step) and what     *)
(* they do to the trust between its agents: handshakes, capability calls,  *)
(* delegation, renewal, revocation, key rotation, session bundles and the  *)
(* Control Plane's registry, with the agents' admin routes                 *)
(* (agent_admin.py) and the server routes they reach (aitp_server.py).     *)
(*                                                                         *)
(* The engine runs one step at a time and the agents act only when it asks *)
(* them to, so a step is one action, its calls and their handlers included. *)
(* Any step may raise (a call fails, a token has expired) and the run is   *)
(* then over: its agents are killed and all they knew is gone.             *)
(*                                                                         *)
(* An AID is an agent and the generation of its key.  A rotation gives the *)
(* server of an agent a new key; its admin router goes on signing with the *)
(* key the process was started with, generation 1.                         *)
(***************************************************************************)
EXTENDS Integers, Sequences, FiniteSets

CONSTANTS
    Agents, Caps,
    Offers,         \* capabilities by agent (offered_caps of the manifest)
    Oidc,           \* agents whose identity is an OIDC token, not a pinned key
    Scenarios,      \* the scenarios that are run
    MaxTct,         \* bound: TCTs minted in a run
    MaxDelegations, \* bound: delegate steps of a run
    MaxKeys,        \* bound: key generations of an agent
    None

ASSUME BoundAssumption ==
    MaxTct \in Nat /\ MaxDelegations \in Nat /\ MaxKeys \in Nat \ {0}
ASSUME OffersAssumption == Offers \in [Agents -> SUBSET Caps] /\ Oidc \subseteq Agents

StepTypes == {"handshake", "delegate", "redeem_delegation", "renew_tct", "revoke_tct",
              "rotate_keys", "session_bundle", "registry"}

\* A scenario: its agents in order, the trust it starts with, whether chained
\* delegations are allowed, the types of its steps, calls apart, and how many
\* of those it has at most.
ASSUME ScenariosAssumption ==
    Scenarios \subseteq [agents : Seq(Agents), eager : BOOLEAN, multihop : BOOLEAN,
                         types : SUBSET StepTypes, length : Nat]
ASSUME NoneAssumption == None \notin Agents /\ None \notin Agents \X Agents

Aid == Agents \X (1..MaxKeys)
Jti == 1..MaxTct

\* A TCT, and the grant voucher that comes with it.  src is the jti it was
\* renewed or redeemed from (0: none), hops the issuers of the delegations
\* behind it, quiet says it was redeemed in probe mode.
Tct == [iss : Aid, sub : Aid, grants : SUBSET Caps, src : 0..MaxTct,
        via : {"handshake", "renewal", "redemption"}, hops : SUBSET Aid, quiet : BOOLEAN]

\* The output of a delegate step: the token and its issuer_manifest_urls.
Delegation == [iss : Aid, sub : Aid, scope : SUBSET Caps, voucher : Jti,
               manifests : SUBSET Agents]

VARIABLES
    scenario,       \* the scenario of the run
    run,            \* status of the run
    todo,           \* pairs of the eager pairwise handshake still to come
    steps,          \* how many steps have changed something
    unpinned,       \* agents whose trust store has still to be pushed
    aid,            \* running[a].aid, as its generation
    key,            \* the key an agent's server signs with
    trusted,        \* an agent's trusted_peer_aids
    minted,         \* the TCTs issued so far; the jti is the index
    held, voucher,  \* held_tcts, held_vouchers: jtis by holder and peer (0: none)
    local,          \* jtis an agent has revoked itself
    snapshot,       \* jtis of the revocation list an agent has applied last
    revoked,        \* <<AID, jti>>: while that was its AID, the agent denied the jti
    cpEntries,      \* revocation entries of the Control Plane
    registry,       \* AIDs the Control Plane has registered, keys it has pinned
    established,    \* jti of the last trust.established, by initiator and target
    delegations,    \* outputs of the delegate steps
    chain,          \* delegation_chain of the last redemption, by holder and issuer
    bundle,         \* coordinator of the last session bundle
    cut,            \* <<audience, issuer>>: revoke_tct took effect, no TCT since
    served          \* <<caller, target>> of a call that was admitted, until its step ends

tokenVars  == <<minted, held, voucher>>
keyVars    == <<aid, key, trusted, unpinned>>
denyVars   == <<local, snapshot, revoked, cpEntries>>
revokeVars == <<denyVars, established, cut>>
outputVars == <<delegations, chain, bundle>>
runVars    == <<scenario, run, todo>>
vars == <<tokenVars, keyVars, revokeVars, outputVars, runVars, steps, registry, served>>

Statuses == {"running", "complete", "failed"}
PerPair(S) == [Agents -> [Agents -> S]]

TypeOK ==
    /\ scenario \in Scenarios /\ run \in Statuses /\ steps \in 0..scenario.length
    /\ todo \subseteq Agents \X Agents /\ unpinned \subseteq Agents
    /\ aid \in [Agents -> 1..MaxKeys] /\ key \in [Agents -> 1..MaxKeys]
    /\ trusted \in [Agents -> SUBSET Aid]
    /\ minted \in Seq(Tct) /\ Len(minted) <= MaxTct
    /\ held \in PerPair(0..Len(minted)) /\ voucher \in PerPair(0..Len(minted))
    /\ established \in PerPair(0..Len(minted))
    /\ local \in [Agents -> SUBSET Jti] /\ snapshot \in [Agents -> SUBSET Jti]
    /\ revoked \subseteq Aid \X Jti /\ cpEntries \subseteq Aid \X Jti
    /\ registry \subseteq {"agent", "pinned_key"} \X Aid
    /\ delegations \subseteq Delegation
    /\ chain \in PerPair(SUBSET Agents)
    /\ bundle \in Agents \cup {None}
    /\ cut \subseteq Agents \X Agents /\ served \in (Agents \X Agents) \cup {None}

Current(a) == <<a, key[a]>>     \* the AID of the manifest a serves
Router(a)  == <<a, 1>>          \* the AID a's admin router signs with
Members    == {scenario.agents[i] : i \in 1..Len(scenario.agents)}

\* The engine is ready for the next step.
Ready == run = "running" /\ unpinned = {} /\ todo = {} /\ served = None

\* It takes a step of this type.
Step(type) ==
    /\ Ready /\ type \in scenario.types
    /\ steps < scenario.length /\ steps' = steps + 1
    /\ UNCHANGED served

Put(f, a, b, x) == [f EXCEPT ![a][b] = x]

------------------------------------------------------------------------------
(* The run.                                                                *)

Blank(x) == [a \in Agents |-> [b \in Agents |-> x]]

\* The agents are ready; the trust stores come next, then the eager handshakes.
Init ==
    /\ scenario \in Scenarios /\ run = "running" /\ steps = 0
    /\ unpinned = Members
    /\ todo = IF scenario.eager THEN {p \in Members \X Members : p[1] # p[2]} ELSE {}
    /\ aid = [a \in Agents |-> 1] /\ key = [a \in Agents |-> 1]
    /\ trusted = [a \in Agents |-> {}]
    /\ minted = <<>> /\ held = Blank(0) /\ voucher = Blank(0)
    /\ local = [a \in Agents |-> {}] /\ snapshot = [a \in Agents |-> {}]
    /\ revoked = {} /\ cpEntries = {}
    /\ registry = {} /\ established = Blank(0)
    /\ delegations = {} /\ chain = Blank({}) /\ bundle = None
    /\ cut = {} /\ served = None

\* The run ends and _cleanup_run kills its agents.
RunOver(status) ==
    /\ run = "running" /\ run' = status
    /\ todo' = {} /\ unpinned' = {} /\ trusted' = [a \in Agents |-> {}]
    /\ minted' = <<>> /\ held' = Blank(0) /\ voucher' = Blank(0)
    /\ local' = [a \in Agents |-> {}] /\ snapshot' = [a \in Agents |-> {}]
    /\ revoked' = {} /\ established' = Blank(0)
    /\ delegations' = {} /\ chain' = Blank({}) /\ bundle' = None
    /\ cut' = {} /\ served' = None /\ steps' = 0
    /\ UNCHANGED <<scenario, aid, key, cpEntries, registry>>

Complete == Ready /\ RunOver("complete")

\* A step, or the start-up, raises.
Raises == RunOver("failed")

\* The first agent of the scenario that is still to be told.
NextUnpinned ==
    LET left == {i \in 1..Len(scenario.agents) : scenario.agents[i] \in unpinned}
    IN  IF left = {} THEN None
        ELSE scenario.agents[CHOOSE i \in left : \A j \in left : i <= j]

\* An agent's trust store takes the AIDs instead of those it has, or beside them.
trust_peers(store, aids, replace) == IF replace THEN aids ELSE store \cup aids

KnownPeers(a) == {<<b, aid[b]>> : b \in Members \ {a}}

\* Mutation of push_trusted_peers: the AIDs are added to those the agent has.
push_trusted_peers_added(a) ==
    /\ run = "running" /\ a = NextUnpinned
    /\ trusted' = [trusted EXCEPT ![a] = trust_peers(@, KnownPeers(a), FALSE)]
    /\ unpinned' = unpinned \ {a}
    /\ UNCHANGED <<tokenVars, aid, key, revokeVars, outputVars, runVars, steps, registry,
                   served>>

\* One agent's trust store becomes the AIDs of the others.
push_trusted_peers(a) ==
    /\ run = "running" /\ a = NextUnpinned
    /\ trusted' = [trusted EXCEPT ![a] = trust_peers(@, KnownPeers(a), TRUE)]
    /\ unpinned' = unpinned \ {a}
    /\ UNCHANGED <<tokenVars, aid, key, revokeVars, outputVars, runVars, steps, registry,
                   served>>

------------------------------------------------------------------------------
(* Handshakes.                                                             *)

\* a keeps the TCT t that r mints, and, when fresh, the voucher of it.
Keep(a, r, t, fresh) ==
    /\ Len(minted) < MaxTct
    /\ minted' = Append(minted, t)
    /\ held' = Put(held, a, r, Len(minted) + 1)
    /\ voucher' = IF fresh THEN Put(voucher, a, r, Len(minted) + 1) ELSE voucher
    /\ cut' = cut \ {<<a, r>>}

\* The AID in the manifest at r's URL, which verifies (if not, the step raises).
verify_peer_manifest(r) == Current(r)

\* r mints for the initiator i, which signs as its router does, the grants g.  An
\* OIDC-typed initiator is judged by its issuer's token (jwks, trust_anchors);
\* the trust store binds the others.
ensure_trust(i, r, g) ==
    /\ i \in Oidc \/ Router(i) \in trusted[r]
    /\ Keep(i, r, [iss |-> verify_peer_manifest(r), sub |-> Router(i),
                   grants |-> g, src |-> 0,
                   via |-> "handshake", hops |-> {}, quiet |-> FALSE], TRUE)
    /\ established' = Put(established, i, r, Len(minted) + 1)
    /\ UNCHANGED <<keyVars, denyVars, outputVars, registry>>

establish_pairwise_trust(i, r) ==
    /\ run = "running" /\ unpinned = {} /\ <<i, r>> \in todo
    /\ ensure_trust(i, r, Offers[r])
    /\ todo' = todo \ {<<i, r>>}
    /\ UNCHANGED <<scenario, run, steps, served>>

\* A handshake step: requested_grants, or all that r offers when there are none.
Handshake(i, r, g) ==
    /\ Step("handshake") /\ i # r /\ g \in SUBSET Offers[r] \ {{}}
    /\ ensure_trust(i, r, g)
    /\ UNCHANGED runVars

------------------------------------------------------------------------------
(* Capability calls.                                                       *)

\* What x denies now.
effective_jtis(x) == local[x] \cup snapshot[x]

\* b answers a's call to c with the TCT a holds for it: verify_capability_tct,
\* with the proof of possession a's router signs.
Admits(a, b, c) ==
    /\ held[a][b] # 0 /\ c \in Offers[b]
    /\ held[a][b] \notin effective_jtis(b)
    /\ LET t == minted[held[a][b]]
       IN  t.iss = Current(b) /\ t.sub = Router(a) /\ c \in t.grants

\* The agent that offers c: the caller if it does, else the first of the scenario.
find_capability_holder(c, prefer) ==
    LET offering == {i \in 1..Len(scenario.agents) : c \in Offers[scenario.agents[i]]}
    IN  CASE c \in Offers[prefer] -> prefer
          [] c \notin Offers[prefer] /\ offering # {} ->
                scenario.agents[CHOOSE i \in offering : \A j \in offering : i <= j]
          [] OTHER -> None

\* A call that a refusal does not fail: answered, or refused and recorded.
CallOrRefusal(a, b, c) ==
    /\ Ready
    /\ served' = IF Admits(a, b, c) THEN <<a, b>> ELSE None
    /\ UNCHANGED <<tokenVars, keyVars, revokeVars, outputVars, runVars, steps, registry>>

probe_with_held_tct(a, b, c) == held[a][b] # 0 /\ CallOrRefusal(a, b, c)

\* A workflow step calls the capability's holder, which may be the agent itself.
WorkflowStep(a, c) ==
    LET b == find_capability_holder(c, a)
    IN  /\ b # None /\ (b = a \/ Admits(a, b, c))
        /\ CallOrRefusal(a, b, c)

\* A step that leaves the agents as they are: meta, or one skipped for want of a
\* Control Plane, or a refusal that is recorded and no more.
OnlyRecorded == Ready /\ UNCHANGED vars

call_without_trust == OnlyRecorded  \* no TCT is presented: 403
tct_cache_stats    == OnlyRecorded  \* counters are read
cp_delegation_tree == OnlyRecorded  \* the events so far go to the Control Plane, its tree is read
spki_pin_check     == OnlyRecorded  \* the SDK alone, no agent

\* A call's step is over: its result is recorded.
CallDone ==
    /\ served # None /\ served' = None
    /\ UNCHANGED <<tokenVars, keyVars, revokeVars, outputVars, runVars, steps, registry>>

\* A fault on a step: peer_offline fails before the peer is reached, as does
\* manifest_404 on a handshake; a fault on delegate or redeem_delegation is not
\* supported.  All are caught and recorded.  (manifest_404 on a call changes a
\* URL the call does not use: it is a probe.)
FaultRecorded == OnlyRecorded

\* A fault on a workflow step that names no target_agent: the look-up of the
\* capability's holder reads a manifest that is None, outside the try.
FaultRaises == Ready /\ RunOver("failed")

------------------------------------------------------------------------------
(* Delegation.                                                             *)

\* Mutation of held_delegation_chain: the chain behind the grant is not carried on.
held_delegation_chain_empty(holder, issuer) == {}

\* The delegators behind the holder's grant from the issuer, as recorded by its
\* most recent redemption.
held_delegation_chain(holder, issuer) == chain[holder][issuer]

\* Mutation of InScope: the voucher's grants are not looked at.
InScopeAny(scope, v) == scope # {}

\* Something to delegate, and no more than the voucher grants.
InScope(scope, v) == scope # {} /\ scope \subseteq minted[v].grants

\* What d's router signs, from its voucher for v, for the agent at e's manifest
\* URL.
issue_delegation(d, v, e, scope) ==
    [iss |-> Router(d), sub |-> verify_peer_manifest(e), scope |-> scope,
     voucher |-> voucher[d][v], manifests |-> {}]

\* The engine adds the manifests of the delegators.
Delegate(d, v, e, scope) ==
    /\ Step("delegate") /\ Cardinality(delegations) < MaxDelegations
    /\ voucher[d][v] # 0 /\ InScope(scope, voucher[d][v])
    /\ delegations' = delegations \cup
          {[issue_delegation(d, v, e, scope) EXCEPT
               !.manifests = held_delegation_chain(d, v) \cup {d}]}
    /\ UNCHANGED <<tokenVars, keyVars, revokeVars, chain, bundle, runVars, registry>>

\* The delegators whose manifests a redemption of t needs.
HopIssuers(t) == minted[t.voucher].hops \cup {t.iss}

\* v verifies the delegation t: its own voucher, given to who delegates, not
\* revoked; every hop's issuer designated by a manifest sent along; one hop
\* unless the scenario allows more.
Redeemable(t, v) ==
    /\ minted[t.voucher].iss = Current(v) /\ minted[t.voucher].sub = t.iss
    /\ t.voucher \notin effective_jtis(v)
    /\ \A h \in HopIssuers(t) : h[1] \in t.manifests /\ h = Current(h[1])
    /\ minted[t.voucher].hops = {} \/ scenario.multihop

\* e presents t to v, and keeps the TCT and the voucher it gets.
Redeem(e, v, t, probe) ==
    /\ Redeemable(t, v)
    /\ Keep(e, v, [iss |-> Current(v), sub |-> t.sub, grants |-> t.scope,
                   src |-> t.voucher, via |-> "redemption", hops |-> HopIssuers(t),
                   quiet |-> probe], TRUE)

\* The step; probe: it states expect_status, and keeps no chain.
redeem_delegation(e, v, t, probe) ==
    /\ Step("redeem_delegation") /\ t \in delegations
    /\ Redeem(e, v, t, probe)
    /\ chain' = IF probe THEN chain ELSE Put(chain, e, v, t.manifests)
    /\ UNCHANGED <<keyVars, denyVars, established, delegations, bundle, runVars, registry>>

------------------------------------------------------------------------------
(* Renewal, revocation, rotation.                                          *)

\* process_renewal: the router of r renews what it issued itself, still offers
\* and has not revoked.
Renewable(a, r) ==
    /\ held[a][r] # 0 /\ held[a][r] \notin effective_jtis(r)
    /\ LET t == minted[held[a][r]]
       IN  t.iss = Router(r) /\ t.sub = Router(a) /\ t.grants \subseteq Offers[r]

\* a swaps the TCT it holds for r, and the voucher too when it gets one.
Renew(a, r) ==
    /\ Renewable(a, r)
    /\ \E fresh \in BOOLEAN :
          Keep(a, r, [minted[held[a][r]] EXCEPT !.via = "renewal", !.src = held[a][r],
                                                !.hops = {}, !.quiet = FALSE], fresh)

renew_tct(a, r) ==
    /\ Step("renew_tct") /\ Renew(a, r)
    /\ UNCHANGED <<keyVars, denyVars, established, outputVars, runVars, registry>>

\* Mutation of find_tct_jti: initiator and target are mixed up.
find_tct_jti_reversed(audience, issuer) == established[issuer][audience]

\* The jti of the last trust.established from audience to issuer.
find_tct_jti(audience, issuer) == established[audience][issuer]

\* Mutation of Known: a missing jti is posted all the same.
KnownAny(jti) == TRUE

\* There is a jti to revoke; if not, the step raises.
Known(jti) == jti # 0

\* The Control Plane's entries once r's AID, as the engine knows it, and j are one.
publish_revocation(r, j) == cpEntries \cup {<<<<r, aid[r]>>, j>>}

\* Mutation of Refreshed: only what is new on the list is applied.
RefreshedNewOnly(id, entries) == {j \in Jti : <<id, j>> \in entries \ cpEntries}

\* The list an issuer signs and applies once it has pulled its entries: it takes
\* the place of the one before.
Refreshed(id, entries) == {j \in Jti : <<id, j>> \in entries}

\* x, whose AID is id, revokes the jtis of own itself and, if it pulls, applies
\* the list for id.  A pull that fails leaves the list that is in force.
Denies(x, id, own, pulls, entries) ==
    LET list == IF pulls THEN Refreshed(id, entries) ELSE {}
    IN  /\ local' = [local EXCEPT ![x] = @ \cup own]
        /\ snapshot' = IF pulls THEN [snapshot EXCEPT ![x] = list] ELSE snapshot
        /\ revoked' = revoked \cup ({id} \X (local[x] \cup own \cup list))

\* Revoke at the issuer itself, or at the Control Plane under the issuer's AID
\* with a refresh of the issuer, or both.  Without a Control Plane, or when it
\* does not answer, nothing is published or refreshed.  (The others that
\* refresh_agents may name do what poll_revocations does.)
revoke_tct(r, a, atIssuer, published, refreshed) ==
    LET j == find_tct_jti(a, r)
        entries == IF published THEN publish_revocation(r, j) ELSE cpEntries
    IN  /\ Step("revoke_tct") /\ Known(j)
        /\ Denies(r, Current(r), IF atIssuer THEN {j} ELSE {}, refreshed, entries)
        /\ cpEntries' = entries
        /\ cut' = IF atIssuer \/ (published /\ refreshed) THEN cut \cup {<<a, r>>} ELSE cut
        /\ UNCHANGED <<tokenVars, keyVars, established, outputVars, runVars, registry>>

\* An agent that has a Control Plane refreshes by itself, at any time.
poll_revocations(x) ==
    /\ run = "running"
    /\ Denies(x, Current(x), {}, TRUE, cpEntries)
    /\ UNCHANGED <<tokenVars, keyVars, cpEntries, established, cut, outputVars, runVars, steps,
                   registry, served>>

\* The agent's server takes a new key and refreshes as its new AID, and all trust
\* stores are pushed again.
rotate_keys(a, pulls) ==
    /\ Step("rotate_keys") /\ key[a] < MaxKeys
    /\ key' = [key EXCEPT ![a] = @ + 1]
    /\ aid' = [aid EXCEPT ![a] = key[a] + 1]
    /\ Denies(a, <<a, key[a] + 1>>, {}, pulls, cpEntries)
    /\ unpinned' = Members
    /\ UNCHANGED <<tokenVars, trusted, cpEntries, established, cut, outputVars, runVars,
                   registry>>

------------------------------------------------------------------------------
(* Session bundles and the Control Plane's registry.                       *)

\* The TCTs of k the participants hold, asked of each.
Gathered(k, participants) == \A p \in participants : held[p][k] # 0

\* The coordinator k signs them into a bundle.
export_session_bundle(k, participants) ==
    /\ Step("session_bundle") /\ participants # {} /\ Gathered(k, participants)
    /\ bundle' = k
    /\ UNCHANGED <<tokenVars, keyVars, revokeVars, delegations, chain, runVars, registry>>

\* A bundle verifies while its coordinator's manifest designates its signer.
BundleVerifies == verify_peer_manifest(bundle) = Router(bundle)

\* If not, the step raises.
verify_session_bundle ==
    /\ Step("session_bundle") /\ bundle # None /\ BundleVerifies
    /\ UNCHANGED <<tokenVars, keyVars, revokeVars, outputVars, runVars, registry>>

Register(entry) ==
    /\ Step("registry")
    /\ registry' = registry \cup {entry}
    /\ UNCHANGED <<tokenVars, keyVars, revokeVars, outputVars, runVars>>

\* The agent enrolls with the manifest it serves, for a token to register it with.
Enrolled(a) == <<"agent", Current(a)>>

enroll_with_cp(a) == Register(Enrolled(a))

\* The key of the manifest a serves is pinned, if that is the AID the engine knows.
cp_provision_trust_anchor(a) ==
    Current(a) = <<a, aid[a]>> /\ Register(<<"pinned_key", Current(a)>>)

------------------------------------------------------------------------------
TrustStep ==
    \/ \E i, r \in Members : \E g \in SUBSET Caps : Handshake(i, r, g)
    \/ \E a, r \in Members :
          \/ renew_tct(a, r)
          \/ \E atIssuer, published, refreshed \in BOOLEAN :
                revoke_tct(r, a, atIssuer, published, refreshed)
    \/ \E a \in Members : poll_revocations(a) \/ \E pulls \in BOOLEAN : rotate_keys(a, pulls)

\* Only delegations to a third party are looked at.
DelegationStep ==
    \/ \E d, v, e \in Members : \E scope \in SUBSET Caps :
          e \notin {d, v} /\ Delegate(d, v, e, scope)
    \/ \E e, v \in Members : \E t \in delegations : \E probe \in BOOLEAN :
          redeem_delegation(e, v, t, probe)

CallStep ==
    \/ \E a \in Members, c \in Caps : WorkflowStep(a, c)
    \/ \E a, b \in Members, c \in Caps : a # b /\ probe_with_held_tct(a, b, c)
    \/ CallDone \/ FaultRecorded \/ FaultRaises
    \/ OnlyRecorded \/ call_without_trust \/ tct_cache_stats \/ cp_delegation_tree
    \/ spki_pin_check

OtherStep ==
    \/ \E k \in Members : \E ps \in SUBSET (Members \ {k}) : export_session_bundle(k, ps)
    \/ verify_session_bundle
    \/ \E a \in Members : enroll_with_cp(a) \/ cp_provision_trust_anchor(a)

Next ==
    \/ \E a \in Members : push_trusted_peers(a)
    \/ \E i, r \in Members : establish_pairwise_trust(i, r)
    \/ TrustStep \/ DelegationStep \/ CallStep \/ OtherStep
    \/ Complete \/ Raises

Spec == Init /\ [][Next]_vars

------------------------------------------------------------------------------
(* Properties.                                                             *)

\* No handshake is granted to a key its agent has replaced: once the trust
\* stores are pushed after a rotation, the old key opens nothing anew
\* (_push_trusted_peers, replace: true).  The exception is an OIDC-typed agent,
\* which no trust store binds: its old key goes on being granted handshakes.
NothingNewForOldKeys ==
    [][\A j \in 1..Len(minted') :
          j > Len(minted) /\ minted'[j].via = "handshake" /\ minted'[j].sub[1] \notin Oidc =>
             minted'[j].sub = Current(minted'[j].sub[1])]_vars

\* After a revoke_tct step took effect, the issuer does not serve the audience
\* until it has a new TCT, when the TCT it holds came from a handshake: the jti
\* found in the event log is the one the audience presents (_find_tct_jti).
RevokedIsRefused ==
    served # None /\ served \in cut =>
        minted[held[served[1]][served[2]]].via # "handshake"

\* What an issuer has denied once under the AID it has now, it renews and redeems
\* nothing from, however many lists it has applied since: each list takes the
\* place of the one before (apply_snapshot), and neither a later revocation nor a
\* poll nor a rotation brings a TCT back that was revoked locally.  The entries
\* of the Control Plane are bound to the AID: after a rotation the router, which
\* signs with the first key still, may renew what they had revoked.
RevokedYieldsNothing ==
    [][\A j \in 1..Len(minted') : j > Len(minted) /\ minted'[j].src # 0 =>
          <<Current(minted'[j].iss[1]), minted'[j].src>> \notin revoked]_vars

\* Along renewals and redemptions a TCT never grants more than the one it comes
\* from, so the end of a chain of delegations has no more than the first
\* handshake gave (build_delegation's scope, issue_tct_for_delegatee).
GrantsOnlyNarrow ==
    \A j \in 1..Len(minted) : minted[j].src # 0 =>
        minted[j].grants \subseteq minted[minted[j].src].grants

\* A delegation carries the manifests of all the delegators behind it, so that it
\* can be redeemed, however its delegator came by the grant; except through a
\* redemption in probe mode (issuer_manifest_urls, _held_delegation_chain).
ManifestsCoverTheChain ==
    \A t \in delegations : ~minted[t.voucher].quiet =>
        {h[1] : h \in HopIssuers(t)} \subseteq t.manifests

\* "find the most recent TCT issuer granted to audience" (docs/scenarios.md): a
\* revoke_tct step that took effect shuts its audience out.
RevokeCutsTheAudienceOff == served # None => served \notin cut

==============================================================================
