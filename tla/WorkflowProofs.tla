---------------------------- MODULE WorkflowProofs ----------------------------
(***************************************************************************)
(* Proofs about Workflow: for any agents, capabilities and scenarios, and   *)
(* any number of TCTs, delegations and key generations.                    *)
(***************************************************************************)
EXTENDS Workflow, NaturalsInduction, WellFoundedInduction, TLAPS

USE BoundAssumption, OffersAssumption, ScenariosAssumption, NoneAssumption

------------------------------------------------------------------------------
(* Operators.                                                              *)

LEMMA LeastIndex ==
    ASSUME NEW T, T \subseteq Nat, T # {}
    PROVE  \E x \in T : \A y \in T : x <= y
  <1>1. PICK x \in T : \A y \in T : ~(<<y, x>> \in OpToRel(<, Nat))
    BY WFMin, NatLessThanWellFounded
  <1>2. \A y \in Nat : y < x => <<y, x>> \in OpToRel(<, Nat)
    BY <1>1 DEF OpToRel
  <1>3. \A y \in T : ~(y < x)
    BY <1>1, <1>2
  <1>4. QED
    BY <1>3

LEMMA PutIs ==
    ASSUME NEW S, NEW f \in PerPair(S), NEW a \in Agents, NEW b \in Agents, NEW x \in S
    PROVE  /\ Put(f, a, b, x) \in PerPair(S)
           /\ \A c, d \in Agents :
                 Put(f, a, b, x)[c][d] = IF c = a /\ d = b THEN x ELSE f[c][d]
  BY DEF Put, PerPair

LEMMA PerPairGrows ==
    ASSUME NEW S, NEW T, S \subseteq T, NEW f \in PerPair(S)
    PROVE  f \in PerPair(T)
  BY DEF PerPair

LEMMA PerPairAt ==
    ASSUME NEW S, NEW f \in PerPair(S), NEW a \in Agents, NEW b \in Agents
    PROVE  f[a][b] \in S
  BY DEF PerPair

LEMMA BlankIs ==
    ASSUME NEW S, NEW x \in S
    PROVE  Blank(x) \in PerPair(S) /\ \A a, b \in Agents : Blank(x)[a][b] = x
  BY DEF Blank, PerPair

LEMMA AppendIs ==
    ASSUME NEW S, NEW s \in Seq(S), NEW x \in S
    PROVE  /\ Append(s, x) \in Seq(S)
           /\ Len(Append(s, x)) = Len(s) + 1
           /\ \A j \in 1..Len(s) : Append(s, x)[j] = s[j]
           /\ Append(s, x)[Len(s) + 1] = x
  OBVIOUS

LEMMA MembersAreAgents ==
    ASSUME scenario \in Scenarios
    PROVE  Members \subseteq Agents
  BY DEF Members

LEMMA AidsAreAids ==
    ASSUME key \in [Agents -> 1..MaxKeys], NEW a \in Agents
    PROVE  Current(a) \in Aid /\ Router(a) \in Aid
  BY DEF Current, Router, Aid

\* The holder of a capability is an agent, or there is none.
LEMMA HolderIsAgent ==
    ASSUME scenario \in Scenarios, NEW a \in Agents, NEW c \in Caps
    PROVE  find_capability_holder(c, a) \in Agents \cup {None}
  <1> DEFINE offering == {i \in 1..Len(scenario.agents) : c \in Offers[scenario.agents[i]]}
  <1>1. CASE c \in Offers[a]
    BY <1>1 DEF find_capability_holder
  <1>2. CASE c \notin Offers[a] /\ offering # {}
    <2> DEFINE first == CHOOSE i \in offering : \A j \in offering : i <= j
    <2>1. find_capability_holder(c, a) = scenario.agents[first]
      BY <1>2 DEF find_capability_holder
    <2>2. offering \subseteq Nat
      OBVIOUS
    <2>3. \E i \in offering : \A j \in offering : i <= j
      BY <1>2, <2>2, LeastIndex
    <2>4. first \in offering
      BY <2>3
    <2>5. scenario.agents \in Seq(Agents) /\ first \in 1..Len(scenario.agents)
      BY <2>4
    <2> HIDE DEF first
    <2>6. QED
      BY <2>1, <2>5
  <1>3. CASE c \notin Offers[a] /\ offering = {}
    BY <1>3 DEF find_capability_holder
  <1>4. QED
    BY <1>1, <1>2, <1>3

------------------------------------------------------------------------------
(* Types, and the steps of the run one by one.                             *)

\* A delegation names a voucher of this run.
Vouched == \A t \in delegations : t.voucher \in 1..Len(minted)

TypeInv == TypeOK /\ Vouched

\* What a new TCT does to the tables of its holder.
LEMMA KeepIs ==
    ASSUME TypeInv, NEW a \in Agents, NEW r \in Agents, NEW t \in Tct,
           NEW fresh \in BOOLEAN, Keep(a, r, t, fresh)
    PROVE  /\ minted' \in Seq(Tct) /\ Len(minted') = Len(minted) + 1
           /\ Len(minted') <= MaxTct
           /\ \A j \in 1..Len(minted) : minted'[j] = minted[j]
           /\ minted'[Len(minted) + 1] = t
           /\ held' \in PerPair(0..Len(minted'))
           /\ \A c, d \in Agents :
                 held'[c][d] = IF c = a /\ d = r THEN Len(minted) + 1 ELSE held[c][d]
           /\ voucher' \in PerPair(0..Len(minted'))
           /\ \A c, d \in Agents :
                 voucher'[c][d] = IF c = a /\ d = r /\ fresh THEN Len(minted) + 1
                                  ELSE voucher[c][d]
           /\ cut' \subseteq Agents \X Agents
           /\ established \in PerPair(0..Len(minted'))
  <1>1. /\ minted \in Seq(Tct) /\ Len(minted) \in Nat
        /\ minted' = Append(minted, t) /\ Len(minted) < MaxTct
    BY DEF TypeInv, TypeOK, Keep
  <1>2. /\ minted' \in Seq(Tct) /\ Len(minted') = Len(minted) + 1
        /\ \A j \in 1..Len(minted) : minted'[j] = minted[j]
        /\ minted'[Len(minted) + 1] = t
    BY <1>1, AppendIs
  <1> DEFINE old == 0..Len(minted)
             new == 0..(Len(minted) + 1)
             n == Len(minted) + 1
  <1>3. old \subseteq new /\ n \in new
    BY <1>1
  <1>4. held \in PerPair(old) /\ voucher \in PerPair(old) /\ established \in PerPair(old)
    BY DEF TypeInv, TypeOK
  <1> HIDE DEF old, new
  <1>5. held \in PerPair(new) /\ voucher \in PerPair(new) /\ established \in PerPair(new)
    BY <1>3, <1>4, PerPairGrows
  <1> HIDE DEF n
  <1>6. /\ Put(held, a, r, n) \in PerPair(new)
        /\ \A c, d \in Agents :
              Put(held, a, r, n)[c][d] = IF c = a /\ d = r THEN n ELSE held[c][d]
    BY <1>3, <1>5, PutIs
  <1>7. /\ Put(voucher, a, r, n) \in PerPair(new)
        /\ \A c, d \in Agents :
              Put(voucher, a, r, n)[c][d] = IF c = a /\ d = r THEN n ELSE voucher[c][d]
    BY <1>3, <1>5, PutIs
  <1>8. /\ held' = Put(held, a, r, n)
        /\ voucher' = IF fresh THEN Put(voucher, a, r, n) ELSE voucher
        /\ cut' = cut \ {<<a, r>>}
    BY DEF Keep, n
  <1>9. new = 0..Len(minted')
    BY <1>2 DEF new
  <1>10. cut' \subseteq Agents \X Agents
    BY <1>8 DEF TypeInv, TypeOK
  <1>11. QED
    BY <1>1, <1>2, <1>5, <1>6, <1>7, <1>8, <1>9, <1>10 DEF n

\* What revocations and lists do to the deny-sets.
LEMMA DeniesIs ==
    ASSUME TypeInv, NEW x \in Agents, NEW id \in Aid, NEW own \in SUBSET Jti,
           NEW pulls, NEW entries, Denies(x, id, own, pulls, entries)
    PROVE  /\ local' \in [Agents -> SUBSET Jti] /\ snapshot' \in [Agents -> SUBSET Jti]
           /\ revoked' \subseteq Aid \X Jti
           /\ \A y \in Agents : local[y] \subseteq local'[y] /\ (y # x => local'[y] = local[y])
           /\ own \subseteq local'[x]
           /\ pulls => snapshot'[x] = Refreshed(id, entries)
           /\ \A y \in Agents : y # x \/ ~pulls => snapshot'[y] = snapshot[y]
           /\ revoked \subseteq revoked'
           /\ \A e \in revoked' : \/ e \in revoked
                                  \/ e[1] = id /\ e[2] \in local'[x]
                                  \/ e[1] = id /\ pulls /\ e[2] \in Refreshed(id, entries)
           /\ \A j \in own : <<id, j>> \in revoked'
           /\ pulls => \A j \in Refreshed(id, entries) : <<id, j>> \in revoked'
  <1> DEFINE list == IF pulls THEN Refreshed(id, entries) ELSE {}
  <1>1. /\ local \in [Agents -> SUBSET Jti] /\ snapshot \in [Agents -> SUBSET Jti]
        /\ revoked \subseteq Aid \X Jti
    BY DEF TypeInv, TypeOK
  <1>2. Refreshed(id, entries) \subseteq Jti /\ list \subseteq Jti
    BY DEF Refreshed
  <1>3. /\ local' = [local EXCEPT ![x] = @ \cup own]
        /\ snapshot' = IF pulls THEN [snapshot EXCEPT ![x] = list] ELSE snapshot
        /\ revoked' = revoked \cup ({id} \X (local[x] \cup own \cup list))
    BY DEF Denies
  <1>4. list = IF pulls THEN Refreshed(id, entries) ELSE {}
    OBVIOUS
  <1> HIDE DEF list
  <1>5. /\ local' \in [Agents -> SUBSET Jti] /\ local'[x] = local[x] \cup own
        /\ \A y \in Agents : y # x => local'[y] = local[y]
    BY <1>1, <1>3
  <1>6. CASE pulls
    <2>1. list = Refreshed(id, entries) /\ snapshot' = [snapshot EXCEPT ![x] = list]
      BY <1>3, <1>4, <1>6
    <2>2. QED
      BY <1>1, <1>2, <1>3, <1>5, <1>6, <2>1
  <1>7. CASE ~pulls
    <2>1. list = {} /\ snapshot' = snapshot
      BY <1>3, <1>4, <1>7
    <2>2. QED
      BY <1>1, <1>2, <1>3, <1>5, <1>7, <2>1
  <1>8. QED
    BY <1>6, <1>7

\* What a handshake mints.
HandshakeTct(i, r, g) ==
    [iss |-> Current(r), sub |-> Router(i), grants |-> g, src |-> 0,
     via |-> "handshake", hops |-> {}, quiet |-> FALSE]

LEMMA EnsureTrustIs ==
    ASSUME TypeInv, NEW i \in Agents, NEW r \in Agents, NEW g \in SUBSET Caps,
           ensure_trust(i, r, g)
    PROVE  /\ HandshakeTct(i, r, g) \in Tct
           /\ Keep(i, r, HandshakeTct(i, r, g), TRUE)
           /\ established' \in PerPair(0..Len(minted'))
           /\ established'[i][r] = Len(minted) + 1
           /\ \A c, d \in Agents : c # i \/ d # r => established'[c][d] = established[c][d]
           /\ UNCHANGED <<aid, key, trusted, unpinned, local, snapshot, revoked, cpEntries, delegations, chain,
                          bundle, registry>>
  <1>1. HandshakeTct(i, r, g) \in Tct
    <2>1. Current(r) \in Aid /\ Router(i) \in Aid
      BY AidsAreAids DEF TypeInv, TypeOK
    <2>2. QED
      BY <2>1 DEF HandshakeTct, Tct
  <1>2. Keep(i, r, HandshakeTct(i, r, g), TRUE)
    BY DEF ensure_trust, HandshakeTct, verify_peer_manifest
  <1>3. established \in PerPair(0..Len(minted')) /\ Len(minted') = Len(minted) + 1
    BY <1>1, <1>2, KeepIs
  <1>4. Len(minted) + 1 \in 0..Len(minted')
    BY <1>3 DEF TypeInv, TypeOK
  <1> DEFINE n == Len(minted) + 1
  <1>5. n \in 0..Len(minted') /\ established' = Put(established, i, r, n)
    BY <1>4 DEF ensure_trust
  <1> HIDE DEF n
  <1>6. /\ established' \in PerPair(0..Len(minted'))
        /\ \A c, d \in Agents :
              established'[c][d] = IF c = i /\ d = r THEN n ELSE established[c][d]
    BY <1>3, <1>5, PutIs
  <1>7. QED
    BY <1>1, <1>2, <1>6 DEF n, ensure_trust, keyVars, denyVars, outputVars

\* What a renewal mints.
RenewedTct(a, r) ==
    [minted[held[a][r]] EXCEPT !.via = "renewal", !.src = held[a][r],
                               !.hops = {}, !.quiet = FALSE]

LEMMA RenewIs ==
    ASSUME TypeInv, NEW a \in Agents, NEW r \in Agents, Renew(a, r)
    PROVE  /\ held[a][r] \in 1..Len(minted) /\ held[a][r] \notin effective_jtis(r)
           /\ minted[held[a][r]] \in Tct /\ minted[held[a][r]].iss = Router(r)
           /\ RenewedTct(a, r) \in Tct
           /\ RenewedTct(a, r).iss = Router(r)
           /\ RenewedTct(a, r).src = held[a][r]
           /\ RenewedTct(a, r).grants = minted[held[a][r]].grants
           /\ RenewedTct(a, r).via = "renewal" /\ RenewedTct(a, r).hops = {}
           /\ \E fresh \in BOOLEAN : Keep(a, r, RenewedTct(a, r), fresh)
  <1>1. held[a][r] \in 1..Len(minted) /\ Len(minted) \in Nat /\ Len(minted) <= MaxTct
    <2>1. held[a][r] # 0
      BY DEF Renew, Renewable
    <2>2. /\ held \in PerPair(0..Len(minted))
          /\ Len(minted) \in Nat /\ Len(minted) <= MaxTct
      BY DEF TypeInv, TypeOK
    <2>3. held[a][r] \in 0..Len(minted)
      BY <2>2, PerPairAt
    <2>4. QED
      BY <2>1, <2>2, <2>3
  <1>2. minted[held[a][r]] \in Tct
    BY <1>1 DEF TypeInv, TypeOK
  <1>3. held[a][r] \notin effective_jtis(r) /\ minted[held[a][r]].iss = Router(r)
    BY DEF Renew, Renewable
  <1>4. held[a][r] \in 0..MaxTct
    BY <1>1
  <1>5. /\ RenewedTct(a, r) \in Tct /\ RenewedTct(a, r).src = held[a][r]
        /\ RenewedTct(a, r).iss = minted[held[a][r]].iss
        /\ RenewedTct(a, r).grants = minted[held[a][r]].grants
        /\ RenewedTct(a, r).via = "renewal" /\ RenewedTct(a, r).hops = {}
    BY <1>2, <1>4 DEF RenewedTct, Tct
  <1>6. \E fresh \in BOOLEAN : Keep(a, r, RenewedTct(a, r), fresh)
    BY DEF Renew, RenewedTct
  <1>7. QED
    BY <1>1, <1>2, <1>3, <1>5, <1>6

\* new is what v mints when t is redeemed.
Redeemed(new, v, t, probe) ==
    /\ new \in Tct
    /\ new.iss = Current(v) /\ new.sub = t.sub /\ new.grants = t.scope
    /\ new.src = t.voucher /\ new.via = "redemption" /\ new.hops = HopIssuers(t)
    /\ new.quiet = probe

LEMMA RedeemIs ==
    ASSUME TypeInv, NEW e \in Agents, NEW v \in Agents, NEW t \in delegations,
           NEW probe, Redeem(e, v, t, probe)
    PROVE  /\ t \in Delegation /\ t.voucher \in 1..Len(minted) /\ t.voucher \notin effective_jtis(v)
           /\ HopIssuers(t) \subseteq Aid
           /\ \A h \in HopIssuers(t) : h[1] \in t.manifests
           /\ probe \in BOOLEAN =>
                 \E new : Redeemed(new, v, t, probe) /\ Keep(e, v, new, TRUE)
  <1>1. t \in Delegation /\ t.voucher \in 1..Len(minted) /\ t.voucher \in 0..MaxTct
    BY DEF TypeInv, TypeOK, Vouched, Delegation, Jti
  <1>2. minted[t.voucher] \in Tct
    BY <1>1 DEF TypeInv, TypeOK
  <1>3. HopIssuers(t) \subseteq Aid
    BY <1>1, <1>2 DEF HopIssuers, Tct, Delegation
  <1>4. Current(v) \in Aid
    BY AidsAreAids DEF TypeInv, TypeOK
  <1> DEFINE new == [iss |-> Current(v), sub |-> t.sub, grants |-> t.scope,
                     src |-> t.voucher, via |-> "redemption", hops |-> HopIssuers(t),
                     quiet |-> probe]
  <1>5. probe \in BOOLEAN => Redeemed(new, v, t, probe)
    BY <1>1, <1>3, <1>4 DEF Redeemed, Tct, Delegation
  <1>6. Keep(e, v, new, TRUE)
    BY DEF Redeem
  <1>7. t.voucher \notin effective_jtis(v) /\ \A h \in HopIssuers(t) : h[1] \in t.manifests
    BY DEF Redeem, Redeemable
  <1> HIDE DEF new
  <1>8. QED
    BY <1>1, <1>3, <1>5, <1>6, <1>7

\* What a delegate step puts out.
DelegationOf(d, v, e, scope) ==
    [iss |-> Router(d), sub |-> Current(e), scope |-> scope, voucher |-> voucher[d][v],
     manifests |-> chain[d][v] \cup {d}]

LEMMA DelegateIs ==
    ASSUME TypeInv, NEW d \in Agents, NEW v \in Agents, NEW e \in Agents,
           NEW scope \in SUBSET Caps, Delegate(d, v, e, scope)
    PROVE  /\ voucher[d][v] \in 1..Len(minted) /\ scope \subseteq minted[voucher[d][v]].grants
           /\ DelegationOf(d, v, e, scope) \in Delegation
           /\ delegations' = delegations \cup {DelegationOf(d, v, e, scope)}
           /\ UNCHANGED <<minted, held, voucher, aid, key, trusted, unpinned, local, snapshot, revoked, cpEntries,
                          established, cut, chain, bundle, scenario, run, todo, registry,
                          served>>
  <1>1. /\ voucher[d][v] \in 1..Len(minted) /\ voucher[d][v] \in Jti
        /\ chain[d][v] \subseteq Agents
    <2>1. voucher[d][v] # 0
      BY DEF Delegate
    <2>2. /\ voucher \in PerPair(0..Len(minted)) /\ chain \in PerPair(SUBSET Agents)
          /\ Len(minted) \in Nat /\ Len(minted) <= MaxTct
      BY DEF TypeInv, TypeOK
    <2>3. voucher[d][v] \in 0..Len(minted) /\ chain[d][v] \in SUBSET Agents
      BY <2>2, PerPairAt
    <2>4. QED
      BY <2>1, <2>2, <2>3 DEF Jti
  <1>2. Router(d) \in Aid /\ Current(e) \in Aid
    BY AidsAreAids DEF TypeInv, TypeOK
  <1>3. DelegationOf(d, v, e, scope) \in Delegation
    BY <1>1, <1>2 DEF DelegationOf, Delegation
  <1>4. [issue_delegation(d, v, e, scope) EXCEPT
           !.manifests = held_delegation_chain(d, v) \cup {d}] = DelegationOf(d, v, e, scope)
    <2> DEFINE t == issue_delegation(d, v, e, scope)
               m == held_delegation_chain(d, v) \cup {d}
    <2>1. t = [iss |-> Router(d), sub |-> Current(e), scope |-> scope,
               voucher |-> voucher[d][v], manifests |-> {}]
      BY DEF issue_delegation, verify_peer_manifest
    <2>2. m = chain[d][v] \cup {d}
      BY DEF held_delegation_chain
    <2> HIDE DEF t, m
    <2>3. [t EXCEPT !.manifests = m] =
             [iss |-> Router(d), sub |-> Current(e), scope |-> scope,
              voucher |-> voucher[d][v], manifests |-> m]
      BY <2>1
    <2>4. QED
      BY <2>2, <2>3 DEF t, m, DelegationOf
  <1>5. delegations' = delegations \cup {DelegationOf(d, v, e, scope)}
    BY <1>4, Zenon DEF Delegate
  <1>6. QED
    BY <1>1, <1>3, <1>5 DEF Delegate, InScope, Step, tokenVars, keyVars, revokeVars, denyVars, runVars

\* A step that leaves trust as it is.
Recorded ==
    /\ UNCHANGED <<minted, held, voucher, aid, key, trusted, unpinned, local, snapshot, revoked, cpEntries,
                   established, cut, delegations, chain, scenario, run, todo>>
    /\ served' \in {None, served}

\* A step is one of these.
LEMMA StepIs ==
    ASSUME TypeInv, [Next]_vars
    PROVE  \/ \E a \in Agents : a \in Members /\ push_trusted_peers(a)
           \/ \E i, r \in Agents :
                 \/ establish_pairwise_trust(i, r)
                 \/ \E g \in SUBSET Caps : Handshake(i, r, g)
                 \/ renew_tct(i, r)
                 \/ \E here, published, refreshed \in BOOLEAN :
                       revoke_tct(r, i, here, published, refreshed)
           \/ \E a \in Agents : \/ poll_revocations(a)
                               \/ \E pulls \in BOOLEAN : rotate_keys(a, pulls)
           \/ \E d, v, e \in Agents : \E scope \in SUBSET Caps : Delegate(d, v, e, scope)
           \/ \E e, v \in Agents : \E t \in delegations : \E probe \in BOOLEAN :
                 redeem_delegation(e, v, t, probe)
           \/ \E a, b \in Agents : \E c \in Caps : CallOrRefusal(a, b, c)
           \/ \E status \in Statuses : RunOver(status)
           \/ Recorded
  <1>1. Members \subseteq Agents
    BY MembersAreAgents DEF TypeInv, TypeOK
  <1>2. CASE TrustStep
    BY <1>1, <1>2 DEF TrustStep
  <1>3. CASE DelegationStep
    BY <1>1, <1>3 DEF DelegationStep
  <1>4. CASE CallStep
    <2>1. ASSUME NEW a \in Members, NEW c \in Caps, WorkflowStep(a, c)
          PROVE  \E x, y \in Agents : \E z \in Caps : CallOrRefusal(x, y, z)
      <3>1. /\ find_capability_holder(c, a) # None
            /\ CallOrRefusal(a, find_capability_holder(c, a), c)
        BY <2>1 DEF WorkflowStep
      <3>2. find_capability_holder(c, a) \in Agents
        BY <1>1, <3>1, HolderIsAgent DEF TypeInv, TypeOK
      <3>3. QED
        BY <1>1, <3>1, <3>2
    <2>2. ASSUME NEW a \in Members, NEW b \in Members, NEW c \in Caps,
                 probe_with_held_tct(a, b, c)
          PROVE  CallOrRefusal(a, b, c)
      BY <2>2 DEF probe_with_held_tct
    <2>3. CASE CallDone
      BY <2>3 DEF CallDone, Recorded, tokenVars, keyVars, revokeVars, denyVars, outputVars, runVars
    <2>4. CASE FaultRaises
      BY <2>4 DEF FaultRaises, Statuses
    <2>5. CASE OnlyRecorded
      BY <2>5 DEF OnlyRecorded, Recorded, vars, tokenVars, keyVars, revokeVars, denyVars, outputVars,
                  runVars
    <2>6. QED
      BY <1>1, <1>4, <2>1, <2>2, <2>3, <2>4, <2>5
         DEF CallStep, FaultRecorded, call_without_trust, tct_cache_stats,
             cp_delegation_tree, spki_pin_check
  <1>5. CASE OtherStep
    <2>1. ASSUME NEW k, NEW ps, export_session_bundle(k, ps)
          PROVE  Recorded
      BY <2>1 DEF export_session_bundle, Step, Recorded, tokenVars, keyVars, revokeVars,
                  denyVars, runVars
    <2>2. CASE verify_session_bundle
      BY <2>2 DEF verify_session_bundle, Step, Recorded, tokenVars, keyVars, revokeVars,
                  denyVars, outputVars, runVars
    <2>3. ASSUME NEW entry, Register(entry)
          PROVE  Recorded
      BY <2>3 DEF Register, Step, Recorded, tokenVars, keyVars, revokeVars, denyVars, outputVars, runVars
    <2>4. QED
      BY <1>5, <2>1, <2>2, <2>3 DEF OtherStep, enroll_with_cp, cp_provision_trust_anchor
  <1>6. CASE Complete \/ Raises
    BY <1>6 DEF Complete, Raises, Statuses
  <1>7. CASE UNCHANGED vars
    BY <1>7 DEF Recorded, vars, tokenVars, keyVars, revokeVars, denyVars, outputVars, runVars
  <1>8. QED
    BY <1>1, <1>2, <1>3, <1>4, <1>5, <1>6, <1>7 DEF Next

LEMMA InitType == Init => TypeInv
  <1> SUFFICES ASSUME Init PROVE TypeInv
    OBVIOUS
  <1>1. Members \subseteq Agents
    BY MembersAreAgents DEF Init
  <1>2. /\ Blank(0) \in PerPair(0..Len(minted)) /\ Blank({}) \in PerPair(SUBSET Agents)
    <2>1. 0 \in 0..Len(minted) /\ {} \in SUBSET Agents
      BY DEF Init
    <2>2. QED
      BY <2>1, BlankIs
  <1>3. minted \in Seq(Tct) /\ Len(minted) = 0
    BY DEF Init
  <1>4. scenario.length \in Nat
    BY DEF Init
  <1>5. QED
    BY <1>1, <1>2, <1>3, <1>4 DEF Init, TypeInv, TypeOK, Vouched, Statuses

\* The counter of the steps, the last bundle and the registry.
LEMMA StepCounters ==
    ASSUME TypeInv, [Next]_vars
    PROVE  /\ steps' \in 0..scenario'.length /\ scenario' = scenario
           /\ bundle' \in Agents \cup {None}
           /\ registry' \subseteq {"agent", "pinned_key"} \X Aid
  <1> DEFINE P == /\ steps' \in 0..scenario'.length /\ scenario' = scenario
                  /\ bundle' \in Agents \cup {None}
                  /\ registry' \subseteq {"agent", "pinned_key"} \X Aid
  <1>0. /\ scenario.length \in Nat /\ steps \in 0..scenario.length
        /\ bundle \in Agents \cup {None}
        /\ registry \subseteq {"agent", "pinned_key"} \X Aid
        /\ Members \subseteq Agents
    BY MembersAreAgents DEF TypeInv, TypeOK
  <1>1. ASSUME NEW type, Step(type), UNCHANGED <<scenario, bundle, registry>>
        PROVE  P
    BY <1>0, <1>1 DEF Step
  <1>2. ASSUME UNCHANGED <<scenario, steps, bundle, registry>>
        PROVE  P
    BY <1>0, <1>2
  <1>3. ASSUME NEW status, RunOver(status)
        PROVE  P
    BY <1>0, <1>3 DEF RunOver
  <1>4. CASE TrustStep
    <2>1. ASSUME NEW i, NEW r, NEW g, Handshake(i, r, g)
          PROVE  P
      BY <1>1, <2>1 DEF Handshake, ensure_trust, outputVars, runVars
    <2>2. ASSUME NEW a, NEW r, renew_tct(a, r)
          PROVE  P
      BY <1>1, <2>2 DEF renew_tct, outputVars, runVars
    <2>3. ASSUME NEW a, NEW r, NEW l, NEW p, NEW f, revoke_tct(r, a, l, p, f)
          PROVE  P
      BY <1>1, <2>3 DEF revoke_tct, outputVars, runVars
    <2>4. ASSUME NEW a, NEW pulls, rotate_keys(a, pulls)
          PROVE  P
      BY <1>1, <2>4 DEF rotate_keys, outputVars, runVars
    <2>5. ASSUME NEW a, poll_revocations(a)
          PROVE  P
      BY <1>2, <2>5 DEF poll_revocations, outputVars, runVars
    <2>6. QED
      BY <1>4, <2>1, <2>2, <2>3, <2>4, <2>5 DEF TrustStep
  <1>5. CASE DelegationStep
    <2>1. ASSUME NEW d, NEW v, NEW e, NEW scope, Delegate(d, v, e, scope)
          PROVE  P
      BY <1>1, <2>1 DEF Delegate, runVars
    <2>2. ASSUME NEW e, NEW v, NEW t, NEW probe, redeem_delegation(e, v, t, probe)
          PROVE  P
      BY <1>1, <2>2 DEF redeem_delegation, runVars
    <2>3. QED
      BY <1>5, <2>1, <2>2 DEF DelegationStep
  <1>6. CASE CallStep
    <2>1. ASSUME NEW a, NEW b, NEW c, CallOrRefusal(a, b, c)
          PROVE  P
      BY <1>2, <2>1 DEF CallOrRefusal, outputVars, runVars
    <2>2. CASE CallDone \/ OnlyRecorded
      BY <1>2, <2>2 DEF CallDone, OnlyRecorded, vars, outputVars, runVars
    <2>3. ASSUME NEW a, NEW c, WorkflowStep(a, c)
          PROVE  P
      BY <2>1, <2>3 DEF WorkflowStep
    <2>4. ASSUME NEW a, NEW b, NEW c, probe_with_held_tct(a, b, c)
          PROVE  P
      BY <2>1, <2>4 DEF probe_with_held_tct
    <2>5. QED
      BY <1>3, <1>6, <2>2, <2>3, <2>4
         DEF CallStep, FaultRecorded, FaultRaises, call_without_trust, tct_cache_stats,
             cp_delegation_tree, spki_pin_check
  <1>7. CASE OtherStep
    <2>1. ASSUME NEW k \in Members, NEW ps, export_session_bundle(k, ps)
          PROVE  P
      BY <1>0, <2>1 DEF export_session_bundle, Step, runVars
    <2>2. CASE verify_session_bundle
      BY <1>1, <2>2 DEF verify_session_bundle, outputVars, runVars
    <2>3. ASSUME NEW entry \in {"agent", "pinned_key"} \X Aid, Register(entry)
          PROVE  P
      BY <1>0, <2>3 DEF Register, Step, outputVars, runVars
    <2>4. ASSUME NEW a \in Members
          PROVE  Current(a) \in Aid
      BY <1>0, AidsAreAids DEF TypeInv, TypeOK
    <2>5. QED
      BY <1>7, <2>1, <2>2, <2>3, <2>4
         DEF OtherStep, enroll_with_cp, cp_provision_trust_anchor, Enrolled
  <1>8. ASSUME NEW a, push_trusted_peers(a)
        PROVE  P
    BY <1>2, <1>8 DEF push_trusted_peers, outputVars, runVars
  <1>9. ASSUME NEW i, NEW r, establish_pairwise_trust(i, r)
        PROVE  P
    BY <1>2, <1>9 DEF establish_pairwise_trust, ensure_trust, outputVars
  <1>10. CASE UNCHANGED vars
    BY <1>2, <1>10 DEF vars, outputVars, runVars
  <1>11. QED
    BY <1>3, <1>4, <1>5, <1>6, <1>7, <1>8, <1>9, <1>10 DEF Next, Complete, Raises

LEMMA StepType == TypeInv /\ [Next]_vars => TypeInv'
  <1> SUFFICES ASSUME TypeInv, [Next]_vars
               PROVE  TypeInv'
    OBVIOUS
  <1> USE DEF tokenVars, keyVars, revokeVars, denyVars, outputVars, runVars
  <1>0. /\ scenario' = scenario /\ steps' \in 0..scenario'.length
        /\ bundle' \in Agents \cup {None}
        /\ registry' \subseteq {"agent", "pinned_key"} \X Aid
    BY StepCounters
  <1> DEFINE Tokens == /\ minted' \in Seq(Tct) /\ Len(minted') <= MaxTct
                       /\ held' \in PerPair(0..Len(minted'))
                       /\ voucher' \in PerPair(0..Len(minted'))
                       /\ established' \in PerPair(0..Len(minted'))
                       /\ cut' \subseteq Agents \X Agents
                       /\ chain' \in PerPair(SUBSET Agents)
             Keys   == /\ aid' \in [Agents -> 1..MaxKeys] /\ key' \in [Agents -> 1..MaxKeys]
                       /\ trusted' \in [Agents -> SUBSET Aid] /\ unpinned' \subseteq Agents
             Lists  == /\ local' \in [Agents -> SUBSET Jti] /\ snapshot' \in [Agents -> SUBSET Jti]
                       /\ revoked' \subseteq Aid \X Jti /\ cpEntries' \subseteq Aid \X Jti
             Grants == /\ delegations' \subseteq Delegation
                       /\ \A t \in delegations' : t.voucher \in 1..Len(minted')
             TheRun == /\ run' \in Statuses /\ todo' \subseteq Agents \X Agents
                       /\ served' \in (Agents \X Agents) \cup {None}
  <1>1. Tokens /\ Keys /\ Lists /\ Grants /\ TheRun => TypeInv'
    BY <1>0 DEF TypeInv, TypeOK, Vouched
  <1>2. UNCHANGED <<minted, held, voucher, established, cut, chain>> => Tokens
    BY DEF TypeInv, TypeOK
  <1>3. UNCHANGED <<aid, key, trusted, unpinned>> => Keys
    BY DEF TypeInv, TypeOK
  <1>4. UNCHANGED <<local, snapshot, revoked, cpEntries>> => Lists
    BY DEF TypeInv, TypeOK
  <1>5. UNCHANGED <<delegations, minted>> => Grants
    BY DEF TypeInv, TypeOK, Vouched
  <1>6. ASSUME delegations' = delegations, Len(minted') = Len(minted) + 1
        PROVE  Grants
    BY <1>6 DEF TypeInv, TypeOK, Vouched
  <1>7. UNCHANGED <<run, todo, served>> => TheRun
    BY DEF TypeInv, TypeOK
  <1>8. ASSUME NEW a \in Agents, a \in Members, push_trusted_peers(a)
        PROVE  TypeInv'
    <2>1. KnownPeers(a) \subseteq Aid
      BY MembersAreAgents DEF KnownPeers, TypeInv, TypeOK, Aid
    <2>2. Keys
      BY <1>8, <2>1 DEF push_trusted_peers, trust_peers, TypeInv, TypeOK
    <2>3. Tokens /\ Lists /\ Grants /\ TheRun
      BY <1>2, <1>4, <1>5, <1>7, <1>8 DEF push_trusted_peers
    <2>4. QED
      BY <1>1, <2>2, <2>3
  <1>9. ASSUME NEW i \in Agents, NEW r \in Agents, NEW g \in SUBSET Caps, ensure_trust(i, r, g)
        PROVE  Tokens /\ Keys /\ Lists /\ Grants
    <2>1. /\ HandshakeTct(i, r, g) \in Tct /\ Keep(i, r, HandshakeTct(i, r, g), TRUE)
          /\ established' \in PerPair(0..Len(minted'))
          /\ UNCHANGED <<aid, key, trusted, unpinned, local, snapshot, revoked, cpEntries, delegations, chain>>
      BY <1>9, EnsureTrustIs
    <2>2. Tokens /\ Len(minted') = Len(minted) + 1
      BY <2>1, KeepIs DEF TypeInv, TypeOK
    <2>3. QED
      BY <1>3, <1>4, <1>6, <2>1, <2>2
  <1>10. ASSUME NEW i \in Agents, NEW r \in Agents, establish_pairwise_trust(i, r)
         PROVE  TypeInv'
    <2>1. ensure_trust(i, r, Offers[r]) /\ Offers[r] \in SUBSET Caps
      BY <1>10 DEF establish_pairwise_trust
    <2>2. TheRun
      BY <1>10 DEF establish_pairwise_trust, TypeInv, TypeOK
    <2>3. QED
      BY <1>1, <1>9, <2>1, <2>2
  <1>11. ASSUME NEW i \in Agents, NEW r \in Agents, NEW g \in SUBSET Caps, Handshake(i, r, g)
         PROVE  TypeInv'
    <2>1. ensure_trust(i, r, g) /\ UNCHANGED <<run, todo, served>>
      BY <1>11 DEF Handshake, Step
    <2>2. QED
      BY <1>1, <1>7, <1>9, <2>1
  <1>12. ASSUME NEW a \in Agents, NEW r \in Agents, renew_tct(a, r)
         PROVE  TypeInv'
    <2>1. Renew(a, r) /\ UNCHANGED <<aid, key, trusted, unpinned, local, snapshot, revoked, cpEntries, established,
                                     delegations, chain, run, todo, served>>
      BY <1>12 DEF renew_tct, Step
    <2>2. PICK fresh \in BOOLEAN : Keep(a, r, RenewedTct(a, r), fresh)
      BY <2>1, RenewIs
    <2>3. RenewedTct(a, r) \in Tct
      BY <2>1, RenewIs
    <2>4. chain' \in PerPair(SUBSET Agents)
      BY <2>1 DEF TypeInv, TypeOK
    <2>5. Tokens /\ Len(minted') = Len(minted) + 1
      BY <2>1, <2>2, <2>3, <2>4, KeepIs
    <2>6. QED
      BY <1>1, <1>3, <1>4, <1>6, <1>7, <2>1, <2>5
  <1>13. ASSUME NEW a \in Agents, NEW r \in Agents, NEW here \in BOOLEAN,
                NEW published \in BOOLEAN, NEW refreshed \in BOOLEAN,
                revoke_tct(r, a, here, published, refreshed)
         PROVE  TypeInv'
    <2> DEFINE j == established[a][r]
               entries == IF published THEN publish_revocation(r, j) ELSE cpEntries
               own == IF here THEN {j} ELSE {}
    <2>1. j \in Jti
      <3>1. j # 0
        BY <1>13 DEF revoke_tct, Known, find_tct_jti
      <3>2. Len(minted) <= MaxTct /\ Len(minted) \in Nat /\ established \in PerPair(0..Len(minted))
        BY DEF TypeInv, TypeOK
      <3>3. j \in 0..Len(minted)
        BY <3>2, PerPairAt
      <3>4. QED
        BY <3>1, <3>2, <3>3 DEF Jti
    <2>2. /\ cpEntries' = entries
          /\ Denies(r, Current(r), own, refreshed, entries)
          /\ cut' \subseteq cut \cup {<<a, r>>}
          /\ UNCHANGED <<minted, held, voucher, aid, key, trusted, unpinned, established,
                         delegations, chain, bundle, run, todo, served>>
      BY <1>13 DEF revoke_tct, find_tct_jti, Step
    <2>3. entries \subseteq Aid \X Jti
      BY <2>1 DEF publish_revocation, TypeInv, TypeOK, Aid
    <2>4. Current(r) \in Aid /\ own \in SUBSET Jti
      BY <2>1, AidsAreAids DEF TypeInv, TypeOK
    <2> HIDE DEF j, entries, own
    <2>5. Lists
      BY <2>2, <2>3, <2>4, DeniesIs
    <2>6. Tokens
      BY <2>2 DEF TypeInv, TypeOK
    <2>7. QED
      BY <1>1, <1>3, <1>5, <1>7, <2>2, <2>5, <2>6
  <1>14. ASSUME NEW a \in Agents, NEW pulls \in BOOLEAN, rotate_keys(a, pulls)
         PROVE  TypeInv'
    <2>1. Keys
      BY <1>14, MembersAreAgents DEF rotate_keys, TypeInv, TypeOK
    <2>2. <<a, key[a] + 1>> \in Aid
      BY <1>14 DEF rotate_keys, TypeInv, TypeOK, Aid
    <2>3. Denies(a, <<a, key[a] + 1>>, {}, pulls, cpEntries) /\ cpEntries' = cpEntries
      BY <1>14 DEF rotate_keys
    <2>4. Lists
      <3>1. {} \in SUBSET Jti /\ cpEntries \subseteq Aid \X Jti
        BY DEF TypeInv, TypeOK
      <3>2. QED
        BY <2>2, <2>3, <3>1, DeniesIs
    <2>5. Tokens /\ Grants /\ TheRun
      BY <1>2, <1>5, <1>7, <1>14 DEF rotate_keys, Step
    <2>6. QED
      BY <1>1, <2>1, <2>4, <2>5
  <1>21. ASSUME NEW a \in Agents, poll_revocations(a)
         PROVE  TypeInv'
    <2>1. Denies(a, Current(a), {}, TRUE, cpEntries) /\ cpEntries' = cpEntries
      BY <1>21 DEF poll_revocations
    <2>2. Current(a) \in Aid
      BY AidsAreAids DEF TypeInv, TypeOK
    <2>3. Lists
      <3>1. {} \in SUBSET Jti /\ TRUE \in BOOLEAN /\ cpEntries \subseteq Aid \X Jti
        BY DEF TypeInv, TypeOK
      <3>2. QED
        BY <2>1, <2>2, <3>1, DeniesIs
    <2>4. Tokens /\ Keys /\ Grants /\ TheRun
      BY <1>2, <1>3, <1>5, <1>7, <1>21 DEF poll_revocations
    <2>5. QED
      BY <1>1, <2>3, <2>4
  <1>15. ASSUME NEW d \in Agents, NEW v \in Agents, NEW e \in Agents, NEW scope \in SUBSET Caps,
                Delegate(d, v, e, scope)
         PROVE  TypeInv'
    <2>1. /\ voucher[d][v] \in 1..Len(minted)
          /\ DelegationOf(d, v, e, scope) \in Delegation
          /\ delegations' = delegations \cup {DelegationOf(d, v, e, scope)}
          /\ UNCHANGED <<minted, held, voucher, aid, key, trusted, unpinned, local, snapshot, revoked, cpEntries,
                         established, cut, chain, run, todo, served>>
      BY <1>15, DelegateIs
    <2>2. DelegationOf(d, v, e, scope).voucher = voucher[d][v]
      BY DEF DelegationOf
    <2>3. Grants
      BY <2>1, <2>2 DEF TypeInv, TypeOK, Vouched
    <2>4. QED
      BY <1>1, <1>2, <1>3, <1>4, <1>7, <2>1, <2>3
  <1>16. ASSUME NEW e \in Agents, NEW v \in Agents, NEW t \in delegations,
                NEW probe \in BOOLEAN, redeem_delegation(e, v, t, probe)
         PROVE  TypeInv'
    <2>1. /\ Redeem(e, v, t, probe)
          /\ chain' = IF probe THEN chain ELSE Put(chain, e, v, t.manifests)
          /\ UNCHANGED <<aid, key, trusted, unpinned, local, snapshot, revoked, cpEntries, established,
                         delegations, run, todo, served>>
      BY <1>16 DEF redeem_delegation, Step
    <2>2. t \in Delegation /\ \E x : Redeemed(x, v, t, probe) /\ Keep(e, v, x, TRUE)
      BY <2>1, RedeemIs, Zenon
    <2>3. PICK new : new \in Tct /\ Keep(e, v, new, TRUE)
      BY <2>2 DEF Redeemed
    <2>4. chain' \in PerPair(SUBSET Agents)
      <3>1. chain \in PerPair(SUBSET Agents) /\ t.manifests \in SUBSET Agents
        BY <2>2 DEF TypeInv, TypeOK, Delegation
      <3>2. Put(chain, e, v, t.manifests) \in PerPair(SUBSET Agents)
        BY <3>1, PutIs
      <3>3. QED
        BY <2>1, <3>1, <3>2
    <2>5. Tokens /\ Len(minted') = Len(minted) + 1
      BY <2>1, <2>3, <2>4, KeepIs
    <2>6. QED
      BY <1>1, <1>3, <1>4, <1>6, <1>7, <2>1, <2>5
  <1>17. ASSUME NEW a \in Agents, NEW b \in Agents, NEW c \in Caps, CallOrRefusal(a, b, c)
         PROVE  TypeInv'
    <2>1. TheRun
      BY <1>17 DEF CallOrRefusal, TypeInv, TypeOK
    <2>2. Tokens /\ Keys /\ Lists /\ Grants
      BY <1>2, <1>3, <1>4, <1>5, <1>17 DEF CallOrRefusal
    <2>3. QED
      BY <1>1, <2>1, <2>2
  <1>18. ASSUME NEW status \in Statuses, RunOver(status)
         PROVE  TypeInv'
    <2>1. Len(minted') = 0 /\ minted' \in Seq(Tct)
      BY <1>18 DEF RunOver
    <2>2. 0 \in 0..Len(minted') /\ {} \in SUBSET Agents
      BY <2>1
    <2>3. Blank(0) \in PerPair(0..Len(minted')) /\ Blank({}) \in PerPair(SUBSET Agents)
      BY <2>2, BlankIs
    <2>4. Tokens
      BY <1>18, <2>1, <2>3 DEF RunOver
    <2>5. Keys /\ Lists /\ Grants /\ TheRun
      BY <1>18 DEF RunOver, TypeInv, TypeOK
    <2>6. QED
      BY <1>1, <2>4, <2>5
  <1>19. CASE Recorded
    <2>1. Tokens /\ Keys /\ Lists /\ Grants
      BY <1>2, <1>3, <1>4, <1>5, <1>19 DEF Recorded
    <2>2. TheRun
      BY <1>19 DEF Recorded, TypeInv, TypeOK
    <2>3. QED
      BY <1>1, <2>1, <2>2
  <1>20. QED
    BY <1>8, <1>10, <1>11, <1>12, <1>13, <1>14, <1>15, <1>16, <1>17, <1>18, <1>19, <1>21, StepIs

\* The variables keep their types; every jti held, established or delegated from is
\* one of a TCT that was minted.
THEOREM TypeOKHolds == Spec => []TypeOK
  <1>1. TypeInv => TypeOK
    BY DEF TypeInv
  <1>2. QED
    BY InitType, StepType, <1>1, PTL DEF Spec

------------------------------------------------------------------------------
(* Grants narrow.                                                          *)

\* A delegation's scope is within the grants of its voucher.
Scoped == \A t \in delegations : t.scope \subseteq minted[t.voucher].grants

\* A TCT comes from an earlier one.
Earlier == \A j \in 1..Len(minted) : minted[j].src < j

GrantInv == Scoped /\ Earlier /\ GrantsOnlyNarrow

LEMMA MintNarrows ==
    ASSUME TypeInv, GrantInv, NEW a \in Agents, NEW r \in Agents, NEW t \in Tct,
           NEW fresh \in BOOLEAN, Keep(a, r, t, fresh), delegations' = delegations,
           t.src \in 0..Len(minted),
           t.src # 0 => t.grants \subseteq minted[t.src].grants
    PROVE  GrantInv'
  <1>0. Len(minted) \in Nat
    BY DEF TypeInv, TypeOK
  <1>1. /\ Len(minted') = Len(minted) + 1 /\ Len(minted) \in Nat
        /\ \A j \in 1..Len(minted) : minted'[j] = minted[j]
        /\ minted'[Len(minted) + 1] = t
    BY <1>0, KeepIs
  <1>2. \A j \in 1..Len(minted) : minted[j] \in Tct
    BY DEF TypeInv, TypeOK
  <1>3. Scoped'
    BY <1>1 DEF Scoped, GrantInv, TypeInv, Vouched
  <1>4. Earlier'
    <2>1. \A j \in 1..Len(minted) : minted'[j].src < j
      BY <1>1 DEF Earlier, GrantInv
    <2>2. minted'[Len(minted) + 1].src < Len(minted) + 1
      BY <1>1
    <2>3. QED
      BY <1>1, <2>1, <2>2 DEF Earlier
  <1>5. GrantsOnlyNarrow'
    <2> SUFFICES ASSUME NEW j \in 1..Len(minted'), minted'[j].src # 0
                 PROVE  minted'[j].grants \subseteq minted'[minted'[j].src].grants
      BY DEF GrantsOnlyNarrow
    <2>1. CASE j \in 1..Len(minted)
      <3>1. minted'[j] = minted[j] /\ minted[j].src \in Nat /\ minted[j].src < j
        BY <1>1, <1>2, <2>1 DEF Earlier, GrantInv, Tct
      <3>2. minted[j].src \in 1..Len(minted)
        BY <1>1, <2>1, <3>1
      <3>3. QED
        BY <1>1, <2>1, <3>1, <3>2 DEF GrantsOnlyNarrow, GrantInv
    <2>2. CASE j = Len(minted) + 1
      <3>1. minted'[j] = t /\ t.src \in 1..Len(minted)
        BY <1>1, <2>2
      <3>2. QED
        BY <1>1, <3>1
    <2>3. QED
      BY <1>1, <2>1, <2>2
  <1>6. QED
    BY <1>3, <1>4, <1>5 DEF GrantInv

LEMMA StepGrants == TypeInv /\ GrantInv /\ [Next]_vars => GrantInv'
  <1> SUFFICES ASSUME TypeInv, GrantInv, [Next]_vars
               PROVE  GrantInv'
    OBVIOUS
  <1> USE DEF tokenVars, keyVars, revokeVars, denyVars, outputVars, runVars
  <1>1. UNCHANGED <<minted, delegations>> => GrantInv'
    BY DEF GrantInv, Scoped, Earlier, GrantsOnlyNarrow
  <1>2. ASSUME NEW i \in Agents, NEW r \in Agents, NEW g \in SUBSET Caps, ensure_trust(i, r, g)
        PROVE  GrantInv'
    <2>1. /\ HandshakeTct(i, r, g) \in Tct /\ Keep(i, r, HandshakeTct(i, r, g), TRUE)
          /\ delegations' = delegations
      BY <1>2, EnsureTrustIs
    <2>2. HandshakeTct(i, r, g).src = 0 /\ 0 \in 0..Len(minted)
      BY DEF HandshakeTct, TypeInv, TypeOK
    <2>3. QED
      BY <2>1, <2>2, MintNarrows
  <1>3. ASSUME NEW a \in Agents, NEW r \in Agents, renew_tct(a, r)
        PROVE  GrantInv'
    <2>1. Renew(a, r) /\ delegations' = delegations
      BY <1>3 DEF renew_tct
    <2>2. /\ held[a][r] \in 0..Len(minted)
          /\ RenewedTct(a, r) \in Tct /\ RenewedTct(a, r).src = held[a][r]
          /\ RenewedTct(a, r).grants = minted[held[a][r]].grants
          /\ \E fresh \in BOOLEAN : Keep(a, r, RenewedTct(a, r), fresh)
      BY <2>1, RenewIs
    <2>3. QED
      BY <2>1, <2>2, MintNarrows
  <1>4. ASSUME NEW e \in Agents, NEW v \in Agents, NEW t \in delegations,
               NEW probe \in BOOLEAN, redeem_delegation(e, v, t, probe)
        PROVE  GrantInv'
    <2>1. Redeem(e, v, t, probe) /\ delegations' = delegations
      BY <1>4 DEF redeem_delegation
    <2>2. /\ t.voucher \in 1..Len(minted)
          /\ \E x : Redeemed(x, v, t, probe) /\ Keep(e, v, x, TRUE)
      BY <2>1, RedeemIs, Zenon
    <2>3. PICK new : /\ new \in Tct /\ new.src = t.voucher /\ new.grants = t.scope
                     /\ Keep(e, v, new, TRUE)
      BY <2>2 DEF Redeemed
    <2>4. t.scope \subseteq minted[t.voucher].grants /\ t.voucher \in 0..Len(minted)
      BY <2>2 DEF GrantInv, Scoped
    <2>5. QED
      BY <2>1, <2>3, <2>4, MintNarrows
  <1>5. ASSUME NEW d \in Agents, NEW v \in Agents, NEW e \in Agents, NEW scope \in SUBSET Caps,
               Delegate(d, v, e, scope)
        PROVE  GrantInv'
    <2>1. /\ scope \subseteq minted[voucher[d][v]].grants /\ minted' = minted
          /\ delegations' = delegations \cup {DelegationOf(d, v, e, scope)}
      BY <1>5, DelegateIs
    <2>2. /\ DelegationOf(d, v, e, scope).voucher = voucher[d][v]
          /\ DelegationOf(d, v, e, scope).scope = scope
      BY DEF DelegationOf
    <2>3. QED
      BY <2>1, <2>2 DEF GrantInv, Scoped, Earlier, GrantsOnlyNarrow
  <1>6. ASSUME NEW status \in Statuses, RunOver(status)
        PROVE  GrantInv'
    BY <1>6 DEF RunOver, GrantInv, Scoped, Earlier, GrantsOnlyNarrow
  <1>7. ASSUME NEW i \in Agents, NEW r \in Agents, establish_pairwise_trust(i, r)
        PROVE  GrantInv'
    BY <1>2, <1>7 DEF establish_pairwise_trust
  <1>8. ASSUME NEW i \in Agents, NEW r \in Agents, NEW g \in SUBSET Caps, Handshake(i, r, g)
        PROVE  GrantInv'
    BY <1>2, <1>8 DEF Handshake
  <1>9. ASSUME NEW a, NEW pulls,
               push_trusted_peers(a) \/ poll_revocations(a) \/ rotate_keys(a, pulls)
        PROVE  GrantInv'
    BY <1>1, <1>9 DEF push_trusted_peers, poll_revocations, rotate_keys
  <1>10. ASSUME NEW a, NEW r, NEW here, NEW published, NEW refreshed,
                revoke_tct(r, a, here, published, refreshed)
         PROVE  GrantInv'
    BY <1>1, <1>10 DEF revoke_tct
  <1>11. ASSUME NEW a, NEW b, NEW c, CallOrRefusal(a, b, c)
         PROVE  GrantInv'
    BY <1>1, <1>11 DEF CallOrRefusal
  <1>12. CASE Recorded
    BY <1>1, <1>12 DEF Recorded
  <1>13. QED
    BY <1>3, <1>4, <1>5, <1>6, <1>7, <1>8, <1>9, <1>10, <1>11, <1>12, StepIs

\* No TCT grants more than the one it was renewed or redeemed from, so no chain of
\* delegations and renewals, however long, widens what a handshake gave
\* (build_delegation's scope, issue_tct_for_delegatee).
THEOREM GrantsOnlyNarrowHolds == Spec => []GrantsOnlyNarrow
  <1>1. Init => GrantInv
    BY DEF Init, GrantInv, Scoped, Earlier, GrantsOnlyNarrow
  <1>2. GrantInv => GrantsOnlyNarrow
    BY DEF GrantInv
  <1>3. QED
    BY InitType, StepType, StepGrants, <1>1, <1>2, PTL DEF Spec

------------------------------------------------------------------------------
(* Keys.                                                                   *)

\* The engine knows the agents' keys; a trust store that need not be pushed has
\* present keys only; agents outside the scenario have none.
KeyInv ==
    /\ aid = key
    /\ \A a \in Agents \ unpinned : \A p \in trusted[a] : p = Current(p[1])
    /\ \A a \in Agents \ Members : trusted[a] = {}

LEMMA StepKeys == TypeInv /\ KeyInv /\ [Next]_vars => KeyInv'
  <1> SUFFICES ASSUME TypeInv, KeyInv, [Next]_vars
               PROVE  KeyInv'
    OBVIOUS
  <1> USE DEF tokenVars, keyVars, revokeVars, denyVars, outputVars, runVars
  <1>1. Members' = Members
    BY StepCounters DEF Members
  <1>2. UNCHANGED <<aid, key, trusted, unpinned>> => KeyInv'
    BY <1>1 DEF KeyInv, Current
  <1>3. ASSUME NEW a \in Agents, a \in Members, push_trusted_peers(a)
        PROVE  KeyInv'
    <2>1. /\ trusted' = [trusted EXCEPT ![a] = KnownPeers(a)] /\ unpinned' = unpinned \ {a}
          /\ aid' = aid /\ key' = key
      BY <1>3 DEF push_trusted_peers, trust_peers
    <2>2. \A p \in KnownPeers(a) : p = Current(p[1])
      BY DEF KnownPeers, KeyInv, Current
    <2>3. \A x \in Agents \ unpinned' : \A p \in trusted'[x] : p = Current(p[1])
      BY <2>1, <2>2 DEF KeyInv, TypeInv, TypeOK
    <2>4. \A x \in Agents \ Members : trusted'[x] = {}
      BY <1>3, <2>1 DEF KeyInv, TypeInv, TypeOK
    <2>5. QED
      BY <1>1, <2>1, <2>3, <2>4 DEF KeyInv, Current
  <1>4. ASSUME NEW a \in Agents, NEW pulls, rotate_keys(a, pulls) \/ poll_revocations(a)
        PROVE  KeyInv'
    <2>1. CASE poll_revocations(a)
      BY <1>2, <2>1 DEF poll_revocations
    <2>2. CASE rotate_keys(a, pulls)
      BY <1>1, <2>2 DEF rotate_keys, KeyInv, TypeInv, TypeOK
    <2>3. QED
      BY <1>4, <2>1, <2>2
  <1>5. ASSUME NEW status, RunOver(status)
        PROVE  KeyInv'
    BY <1>5 DEF RunOver, KeyInv
  <1>6. ASSUME NEW i, NEW r, NEW g, ensure_trust(i, r, g)
        PROVE  KeyInv'
    BY <1>2, <1>6 DEF ensure_trust
  <1>7. ASSUME NEW i, NEW r, establish_pairwise_trust(i, r)
        PROVE  KeyInv'
    BY <1>6, <1>7 DEF establish_pairwise_trust
  <1>8. ASSUME NEW i, NEW r, NEW g, Handshake(i, r, g)
        PROVE  KeyInv'
    BY <1>6, <1>8 DEF Handshake
  <1>9. ASSUME NEW a, NEW r, renew_tct(a, r)
        PROVE  KeyInv'
    BY <1>2, <1>9 DEF renew_tct
  <1>10. ASSUME NEW a, NEW r, NEW here, NEW published, NEW refreshed,
                revoke_tct(r, a, here, published, refreshed)
         PROVE  KeyInv'
    BY <1>2, <1>10 DEF revoke_tct
  <1>11. ASSUME NEW d, NEW v, NEW e, NEW scope, Delegate(d, v, e, scope)
         PROVE  KeyInv'
    BY <1>2, <1>11 DEF Delegate
  <1>12. ASSUME NEW e, NEW v, NEW t, NEW probe, redeem_delegation(e, v, t, probe)
         PROVE  KeyInv'
    BY <1>2, <1>12 DEF redeem_delegation
  <1>13. ASSUME NEW a, NEW b, NEW c, CallOrRefusal(a, b, c)
         PROVE  KeyInv'
    BY <1>2, <1>13 DEF CallOrRefusal
  <1>14. CASE Recorded
    BY <1>2, <1>14 DEF Recorded
  <1>15. QED
    BY <1>3, <1>4, <1>5, <1>7, <1>8, <1>9, <1>10, <1>11, <1>12, <1>13, <1>14, StepIs

LEMMA KeysAlways == Spec => [](TypeInv /\ KeyInv)
  <1>1. Init => KeyInv
    BY DEF Init, KeyInv
  <1>2. QED
    BY InitType, StepType, StepKeys, <1>1, PTL DEF Spec

\* A new TCT comes from a handshake, with all trust stores pushed, a renewal or a
\* redemption.
LEMMA NewTctIs ==
    ASSUME TypeInv, [Next]_vars, NEW j \in 1..Len(minted'), j > Len(minted)
    PROVE  \/ \E i, r \in Agents : \E g \in SUBSET Caps :
                 /\ unpinned = {} /\ (i \in Oidc \/ Router(i) \in trusted[r])
                 /\ minted'[j] = HandshakeTct(i, r, g)
           \/ \E a, r \in Agents : Renew(a, r) /\ minted'[j] = RenewedTct(a, r)
           \/ \E v \in Agents : \E t \in delegations : \E probe \in BOOLEAN :
                 t.voucher \notin effective_jtis(v) /\ Redeemed(minted'[j], v, t, probe)
  <1> DEFINE Shaken   == \E i, r \in Agents : \E g \in SUBSET Caps :
                            /\ unpinned = {} /\ (i \in Oidc \/ Router(i) \in trusted[r])
                            /\ minted'[j] = HandshakeTct(i, r, g)
             Renewed  == \E a, r \in Agents : Renew(a, r) /\ minted'[j] = RenewedTct(a, r)
             Redeems  == \E v \in Agents : \E t \in delegations : \E probe \in BOOLEAN :
                            t.voucher \notin effective_jtis(v) /\ Redeemed(minted'[j], v, t, probe)
             Goal     == Shaken \/ Renewed \/ Redeems
  <1> USE DEF tokenVars, keyVars, revokeVars, denyVars, outputVars, runVars
  <1>0. Len(minted) \in Nat
    BY DEF TypeInv, TypeOK
  <1>1. minted' # minted
    BY <1>0
  <1>2. ASSUME NEW a \in Agents, NEW r \in Agents, NEW t \in Tct, NEW fresh \in BOOLEAN,
               Keep(a, r, t, fresh)
        PROVE  minted'[j] = t
    <2>1. Len(minted') = Len(minted) + 1 /\ minted'[Len(minted) + 1] = t
      BY <1>2, KeepIs
    <2>2. j = Len(minted) + 1
      BY <1>0, <2>1
    <2>3. QED
      BY <2>1, <2>2
  <1>3. ASSUME NEW i \in Agents, NEW r \in Agents, NEW g \in SUBSET Caps, ensure_trust(i, r, g)
        PROVE  (i \in Oidc \/ Router(i) \in trusted[r]) /\ minted'[j] = HandshakeTct(i, r, g)
    <2>1. HandshakeTct(i, r, g) \in Tct /\ Keep(i, r, HandshakeTct(i, r, g), TRUE)
      BY <1>3, EnsureTrustIs
    <2>2. QED
      BY <1>2, <1>3, <2>1 DEF ensure_trust
  <1>4. ASSUME NEW i \in Agents, NEW r \in Agents, establish_pairwise_trust(i, r)
        PROVE  Goal
    <2>1. unpinned = {} /\ ensure_trust(i, r, Offers[r]) /\ Offers[r] \in SUBSET Caps
      BY <1>4 DEF establish_pairwise_trust
    <2>2. QED
      BY <1>3, <2>1
  <1>5. ASSUME NEW i \in Agents, NEW r \in Agents, NEW g \in SUBSET Caps, Handshake(i, r, g)
        PROVE  Goal
    <2>1. unpinned = {} /\ ensure_trust(i, r, g)
      BY <1>5 DEF Handshake, Step, Ready
    <2>2. QED
      BY <1>3, <2>1
  <1>6. ASSUME NEW a \in Agents, NEW r \in Agents, renew_tct(a, r)
        PROVE  Goal
    <2>1. Renew(a, r)
      BY <1>6 DEF renew_tct
    <2>2. RenewedTct(a, r) \in Tct /\ \E fresh \in BOOLEAN : Keep(a, r, RenewedTct(a, r), fresh)
      BY <2>1, RenewIs
    <2>3. QED
      BY <1>2, <2>1, <2>2
  <1>7. ASSUME NEW e \in Agents, NEW v \in Agents, NEW t \in delegations,
               NEW probe \in BOOLEAN, redeem_delegation(e, v, t, probe)
        PROVE  Goal
    <2>1. Redeem(e, v, t, probe)
      BY <1>7 DEF redeem_delegation
    <2>2. /\ t.voucher \notin effective_jtis(v)
          /\ \E x : Redeemed(x, v, t, probe) /\ Keep(e, v, x, TRUE)
      BY <2>1, RedeemIs, Zenon
    <2>3. PICK new : Redeemed(new, v, t, probe) /\ Keep(e, v, new, TRUE)
      BY <2>2
    <2>4. minted'[j] = new
      BY <1>2, <2>3 DEF Redeemed
    <2>5. QED
      BY <2>2, <2>3, <2>4, Zenon
  <1>8. ASSUME NEW a, NEW pulls,
               push_trusted_peers(a) \/ poll_revocations(a) \/ rotate_keys(a, pulls)
        PROVE  Goal
    BY <1>1, <1>8 DEF push_trusted_peers, poll_revocations, rotate_keys
  <1>9. ASSUME NEW a, NEW r, NEW here, NEW published, NEW refreshed,
               revoke_tct(r, a, here, published, refreshed)
        PROVE  Goal
    BY <1>1, <1>9 DEF revoke_tct
  <1>10. ASSUME NEW d, NEW v, NEW e, NEW scope, Delegate(d, v, e, scope)
         PROVE  Goal
    BY <1>1, <1>10 DEF Delegate
  <1>11. ASSUME NEW a, NEW b, NEW c, CallOrRefusal(a, b, c)
         PROVE  Goal
    BY <1>1, <1>11 DEF CallOrRefusal
  <1>12. ASSUME NEW status, RunOver(status)
         PROVE  Goal
    BY <1>0, <1>12 DEF RunOver
  <1>13. ASSUME Recorded
         PROVE  Goal
    BY <1>1, <1>13 DEF Recorded
  <1> HIDE DEF Goal
  <1>14. Goal
    BY <1>4, <1>5, <1>6, <1>7, <1>8, <1>9, <1>10, <1>11, <1>12, <1>13, StepIs
  <1>15. QED
    BY <1>14 DEF Goal

\* No handshake is granted to a key its agent has replaced, whatever the scenario
\* rotates and in whatever order (_push_trusted_peers with replace: true), but to
\* an OIDC-typed agent, which no trust store binds.
THEOREM NothingNewForOldKeysHolds == Spec => NothingNewForOldKeys
  <1>1. ASSUME TypeInv, KeyInv, [Next]_vars, NEW j \in 1..Len(minted'), j > Len(minted),
               minted'[j].via = "handshake", minted'[j].sub[1] \notin Oidc
        PROVE  minted'[j].sub = Current(minted'[j].sub[1])
    <2>1. ASSUME NEW i \in Agents, NEW r \in Agents, NEW g \in SUBSET Caps, unpinned = {},
                 i \in Oidc \/ Router(i) \in trusted[r], minted'[j] = HandshakeTct(i, r, g)
          PROVE  minted'[j].sub = Current(minted'[j].sub[1])
      <3>1. minted'[j].sub = Router(i)
        BY <2>1 DEF HandshakeTct
      <3>2. i \notin Oidc
        BY <1>1, <3>1 DEF Router
      <3>3. Router(i) = Current(Router(i)[1])
        BY <1>1, <2>1, <3>2 DEF KeyInv
      <3>4. QED
        BY <3>1, <3>3
    <2>2. ASSUME NEW a \in Agents, NEW r \in Agents, Renew(a, r),
                 minted'[j] = RenewedTct(a, r)
          PROVE  FALSE
      BY <1>1, <2>2, RenewIs
    <2>3. ASSUME NEW v, NEW t, NEW probe, Redeemed(minted'[j], v, t, probe)
          PROVE  FALSE
      BY <1>1, <2>3 DEF Redeemed
    <2>4. QED
      BY <1>1, <2>1, <2>2, <2>3, NewTctIs
  <1>2. TypeInv /\ KeyInv /\ [Next]_vars =>
           [\A j \in 1..Len(minted') :
               j > Len(minted) /\ minted'[j].via = "handshake" /\ minted'[j].sub[1] \notin Oidc =>
                  minted'[j].sub = Current(minted'[j].sub[1])]_vars
    BY <1>1
  <1>3. QED
    BY KeysAlways, <1>2, PTL DEF Spec, NothingNewForOldKeys

------------------------------------------------------------------------------
(* The deny-sets.                                                          *)

\* What an agent has denied under the AID it has now it still denies: it revoked
\* it itself, or the list has it and will have it again.
StillDenied ==
    \A x \in Agents, j \in Jti : <<Current(x), j>> \in revoked =>
        j \in local[x] \/ (j \in snapshot[x] /\ <<Current(x), j>> \in cpEntries)

\* No one has denied or issued under a key that is still to come.
NoFutureKeys ==
    /\ \A e \in revoked : e[1][2] <= key[e[1][1]]
    /\ \A j \in 1..Len(minted) : minted[j].iss[2] <= key[minted[j].iss[1]]

DenyInv == StillDenied /\ NoFutureKeys

LEMMA IssuersAreAids ==
    ASSUME minted \in Seq(Tct)
    PROVE  \A j \in 1..Len(minted) : minted[j].iss \in Aid
  <1>1. \A j \in 1..Len(minted) : minted[j] \in Tct
    OBVIOUS
  <1>2. \A t \in Tct : t.iss \in Aid
    BY DEF Tct
  <1>3. QED
    BY <1>1, <1>2

\* An agent goes on denying under the AID it has, or begins to under a new one.
LEMMA StillDenies ==
    ASSUME TypeInv, DenyInv, NEW x \in Agents, NEW own \in SUBSET Jti, NEW pulls \in BOOLEAN,
           NEW entries, key' \in [Agents -> 1..MaxKeys], Current(x)' \in Aid,
           Denies(x, Current(x)', own, pulls, entries),
           cpEntries \subseteq entries, cpEntries' = entries,
           \A y \in Agents : key[y] <= key'[y] /\ (y # x => key'[y] = key[y]),
           minted' = minted
    PROVE  DenyInv'
  <1> DEFINE id == Current(x)'
  <1>1. id = <<x, key'[x]>> /\ \A y \in Agents : Current(y)' = <<y, key'[y]>>
    BY DEF Current
  <1>2. /\ \A y \in Agents : local[y] \subseteq local'[y] /\ (y # x => local'[y] = local[y])
        /\ pulls => snapshot'[x] = Refreshed(id, entries)
        /\ \A y \in Agents : y # x \/ ~pulls => snapshot'[y] = snapshot[y]
        /\ \A e \in revoked' : \/ e \in revoked
                               \/ e[1] = id /\ e[2] \in local'[x]
                               \/ e[1] = id /\ pulls /\ e[2] \in Refreshed(id, entries)
    <2>1. id \in Aid /\ Denies(x, id, own, pulls, entries)
      OBVIOUS
    <2> HIDE DEF id
    <2>2. CASE pulls
      <3>1. /\ local' = [local EXCEPT ![x] = @ \cup own]
            /\ snapshot' = [snapshot EXCEPT ![x] = Refreshed(id, entries)]
            /\ revoked' = revoked \cup ({id} \X (local[x] \cup own \cup Refreshed(id, entries)))
        BY <2>1, <2>2 DEF Denies
      <3>2. local \in [Agents -> SUBSET Jti] /\ snapshot \in [Agents -> SUBSET Jti]
        BY DEF TypeInv, TypeOK
      <3>3. QED
        BY <2>2, <3>1, <3>2
    <2>3. CASE ~pulls
      <3>1. pulls = FALSE
        BY <2>3
      <3>2. QED
        BY <2>1, <3>1, DeniesIs
    <2>4. QED
      BY <2>2, <2>3
  <1>3. \A j \in Refreshed(id, entries) : <<id, j>> \in cpEntries'
    BY DEF Refreshed
  <1>4. \A j \in Jti : <<id, j>> \in cpEntries => j \in Refreshed(id, entries)
    BY DEF Refreshed
  <1> HIDE DEF id
  <1>5. /\ key \in [Agents -> 1..MaxKeys] /\ revoked \subseteq Aid \X Jti
        /\ \A j \in 1..Len(minted) : minted[j].iss \in Aid
    <2>1. /\ key \in [Agents -> 1..MaxKeys] /\ revoked \subseteq Aid \X Jti
          /\ minted \in Seq(Tct)
      BY DEF TypeInv, TypeOK
    <2>2. QED
      BY <2>1, IssuersAreAids
  <1>6. StillDenied'
    <2> SUFFICES ASSUME NEW y \in Agents, NEW j \in Jti, <<Current(y)', j>> \in revoked'
                 PROVE  \/ j \in local'[y]
                        \/ j \in snapshot'[y] /\ <<Current(y)', j>> \in cpEntries'
      BY DEF StillDenied
    <2>1. CASE <<Current(y)', j>> \in revoked
      <3>1. key'[y] = key[y]
        <4>1. key'[y] <= key[y]
          BY <1>1, <2>1 DEF DenyInv, NoFutureKeys
        <4>2. QED
          BY <1>5, <4>1
      <3>2. Current(y)' = Current(y)
        BY <1>1, <3>1 DEF Current
      <3>3. j \in local[y] \/ (j \in snapshot[y] /\ <<Current(y), j>> \in cpEntries)
        BY <2>1, <3>2 DEF DenyInv, StillDenied
      <3>4. CASE j \in local[y]
        BY <1>2, <3>4
      <3>5. CASE j \in snapshot[y] /\ <<Current(y), j>> \in cpEntries /\ y = x /\ pulls
        <4>1. <<id, j>> \in cpEntries
          BY <3>2, <3>5 DEF id
        <4>2. j \in Refreshed(id, entries)
          BY <1>4, <4>1
        <4>3. QED
          BY <1>2, <3>2, <3>5, <4>2
      <3>6. CASE j \in snapshot[y] /\ <<Current(y), j>> \in cpEntries /\ ~(y = x /\ pulls)
        BY <1>2, <3>2, <3>6
      <3>7. QED
        BY <3>3, <3>4, <3>5, <3>6
    <2>2. CASE Current(y)' = id /\ (j \in local'[x] \/ (pulls /\ j \in Refreshed(id, entries)))
      <3>1. y = x
        BY <1>1, <2>2
      <3>2. CASE j \in local'[x]
        BY <3>1, <3>2
      <3>3. CASE pulls /\ j \in Refreshed(id, entries)
        BY <1>2, <1>3, <2>2, <3>1, <3>3
      <3>4. QED
        BY <2>2, <3>2, <3>3
    <2>3. QED
      BY <1>2, <2>1, <2>2
  <1>7. NoFutureKeys'
    <2>1. ASSUME NEW e \in revoked'
          PROVE  e[1][2] <= key'[e[1][1]]
      <3>1. CASE e \in revoked
        <4>1. e[1] \in Agents \X (1..MaxKeys) /\ e[1][2] <= key[e[1][1]]
          BY <1>5, <3>1 DEF Aid, DenyInv, NoFutureKeys
        <4>2. QED
          BY <1>5, <4>1
      <3>2. CASE e[1] = id
        BY <1>1, <3>2
      <3>3. QED
        BY <1>2, <3>1, <3>2
    <2>2. ASSUME NEW j \in 1..Len(minted)
          PROVE  minted[j].iss[2] <= key'[minted[j].iss[1]]
      <3>1. minted[j].iss \in Agents \X (1..MaxKeys)
        BY <1>5 DEF Aid
      <3>2. minted[j].iss[2] <= key[minted[j].iss[1]]
        BY DEF DenyInv, NoFutureKeys
      <3>3. QED
        BY <1>5, <3>1, <3>2
    <2>3. QED
      BY <2>1, <2>2 DEF NoFutureKeys
  <1>8. QED
    BY <1>6, <1>7 DEF DenyInv

\* A new TCT is issued under a key there is.
LEMMA MintKnown ==
    ASSUME TypeInv, DenyInv, NEW a \in Agents, NEW r \in Agents, NEW t \in Tct,
           NEW fresh \in BOOLEAN, Keep(a, r, t, fresh), t.iss \in {Current(r), Router(r)},
           UNCHANGED <<key, local, snapshot, revoked, cpEntries>>
    PROVE  DenyInv'
  <1>1. StillDenied'
    BY DEF DenyInv, StillDenied, Current
  <1>2. /\ Len(minted') = Len(minted) + 1 /\ Len(minted) \in Nat
        /\ \A j \in 1..Len(minted) : minted'[j] = minted[j]
        /\ minted'[Len(minted) + 1] = t
    <2>1. Len(minted) \in Nat
      BY DEF TypeInv, TypeOK
    <2>2. QED
      BY <2>1, KeepIs
  <1>3. t.iss[2] <= key[t.iss[1]]
    BY DEF Current, Router, TypeInv, TypeOK
  <1>4. \A j \in 1..Len(minted') : minted'[j].iss[2] <= key[minted'[j].iss[1]]
    <2> TAKE j \in 1..Len(minted')
    <2>1. j \in 1..Len(minted) \/ j = Len(minted) + 1
      BY <1>2
    <2>2. QED
      BY <1>2, <1>3, <2>1 DEF DenyInv, NoFutureKeys
  <1>5. NoFutureKeys'
    BY <1>4 DEF DenyInv, NoFutureKeys
  <1>6. QED
    BY <1>1, <1>5 DEF DenyInv

LEMMA StepDenied == TypeInv /\ KeyInv /\ DenyInv /\ [Next]_vars => DenyInv'
  <1> SUFFICES ASSUME TypeInv, KeyInv, DenyInv, [Next]_vars
               PROVE  DenyInv'
    OBVIOUS
  <1> USE DEF tokenVars, keyVars, revokeVars, denyVars, outputVars, runVars
  <1>0. key \in [Agents -> 1..MaxKeys] /\ \A x \in Agents : Current(x) \in Aid
    BY AidsAreAids DEF TypeInv, TypeOK
  <1>1. UNCHANGED <<minted, key, local, snapshot, revoked, cpEntries>> => DenyInv'
    BY DEF DenyInv, StillDenied, NoFutureKeys, Current
  <1>2. ASSUME NEW i \in Agents, NEW r \in Agents, NEW g \in SUBSET Caps, ensure_trust(i, r, g)
        PROVE  DenyInv'
    <2>1. /\ HandshakeTct(i, r, g) \in Tct /\ Keep(i, r, HandshakeTct(i, r, g), TRUE)
          /\ UNCHANGED <<key, local, snapshot, revoked, cpEntries>>
      BY <1>2, EnsureTrustIs
    <2>2. HandshakeTct(i, r, g).iss = Current(r)
      BY DEF HandshakeTct
    <2>3. QED
      BY <2>1, <2>2, MintKnown
  <1>3. ASSUME NEW i \in Agents, NEW r \in Agents, establish_pairwise_trust(i, r)
        PROVE  DenyInv'
    BY <1>2, <1>3 DEF establish_pairwise_trust
  <1>4. ASSUME NEW i \in Agents, NEW r \in Agents, NEW g \in SUBSET Caps, Handshake(i, r, g)
        PROVE  DenyInv'
    BY <1>2, <1>4 DEF Handshake
  <1>5. ASSUME NEW a \in Agents, NEW r \in Agents, renew_tct(a, r)
        PROVE  DenyInv'
    <2>1. Renew(a, r) /\ UNCHANGED <<key, local, snapshot, revoked, cpEntries>>
      BY <1>5 DEF renew_tct
    <2>2. /\ RenewedTct(a, r) \in Tct /\ RenewedTct(a, r).iss = Router(r)
          /\ \E fresh \in BOOLEAN : Keep(a, r, RenewedTct(a, r), fresh)
      BY <2>1, RenewIs
    <2>3. QED
      BY <2>1, <2>2, MintKnown
  <1>6. ASSUME NEW e \in Agents, NEW v \in Agents, NEW t \in delegations,
               NEW probe \in BOOLEAN, redeem_delegation(e, v, t, probe)
        PROVE  DenyInv'
    <2>1. Redeem(e, v, t, probe) /\ UNCHANGED <<key, local, snapshot, revoked, cpEntries>>
      BY <1>6 DEF redeem_delegation
    <2>2. \E x : Redeemed(x, v, t, probe) /\ Keep(e, v, x, TRUE)
      BY <2>1, RedeemIs, Zenon
    <2>3. PICK new : new \in Tct /\ new.iss = Current(v) /\ Keep(e, v, new, TRUE)
      BY <2>2 DEF Redeemed
    <2>4. QED
      BY <2>1, <2>3, MintKnown
  <1>7. ASSUME NEW a \in Agents, NEW r \in Agents, NEW here \in BOOLEAN,
               NEW published \in BOOLEAN, NEW refreshed \in BOOLEAN,
               revoke_tct(r, a, here, published, refreshed)
        PROVE  DenyInv'
    <2> DEFINE j == established[a][r]
               entries == IF published THEN publish_revocation(r, j) ELSE cpEntries
               own == IF here THEN {j} ELSE {}
    <2>1. /\ Denies(r, Current(r), own, refreshed, entries) /\ cpEntries' = entries
          /\ j # 0 /\ UNCHANGED <<minted, key>>
      BY <1>7 DEF revoke_tct, find_tct_jti, Known
    <2>2. own \in SUBSET Jti
      <3>1. Len(minted) <= MaxTct /\ Len(minted) \in Nat /\ established \in PerPair(0..Len(minted))
        BY DEF TypeInv, TypeOK
      <3>2. j \in 0..Len(minted)
        BY <3>1, PerPairAt
      <3>3. j \in Jti
        BY <2>1, <3>1, <3>2 DEF Jti
      <3>4. QED
        BY <3>3
    <2>3. cpEntries \subseteq entries
      BY DEF publish_revocation
    <2>4. Current(r)' = Current(r)
      BY <2>1 DEF Current
    <2> HIDE DEF j, entries, own
    <2>5. QED
      BY <1>0, <2>1, <2>2, <2>3, <2>4, StillDenies
  <1>8. ASSUME NEW a \in Agents, poll_revocations(a)
        PROVE  DenyInv'
    <2>1. /\ Denies(a, Current(a), {}, TRUE, cpEntries) /\ cpEntries' = cpEntries
          /\ UNCHANGED <<minted, key>>
      BY <1>8 DEF poll_revocations
    <2>2. Current(a)' = Current(a) /\ Current(a)' \in Aid
      BY <1>0, <2>1 DEF Current
    <2>3. {} \in SUBSET Jti /\ TRUE \in BOOLEAN /\ cpEntries \subseteq cpEntries
      OBVIOUS
    <2>4. /\ key' \in [Agents -> 1..MaxKeys]
          /\ \A y \in Agents : key[y] <= key'[y] /\ (y # a => key'[y] = key[y])
      BY <1>0, <2>1
    <2>5. QED
      BY <2>1, <2>2, <2>3, <2>4, StillDenies
  <1>9. ASSUME NEW a \in Agents, NEW pulls \in BOOLEAN, rotate_keys(a, pulls)
        PROVE  DenyInv'
    <2>1. /\ Denies(a, <<a, key[a] + 1>>, {}, pulls, cpEntries) /\ cpEntries' = cpEntries
          /\ key' = [key EXCEPT ![a] = @ + 1] /\ key[a] < MaxKeys /\ minted' = minted
      BY <1>9 DEF rotate_keys
    <2>2. /\ key' \in [Agents -> 1..MaxKeys]
          /\ \A y \in Agents : key[y] <= key'[y] /\ (y # a => key'[y] = key[y])
          /\ key'[a] = key[a] + 1
      BY <1>0, <2>1
    <2>3. Current(a)' = <<a, key[a] + 1>> /\ Current(a)' \in Aid
      BY <2>2 DEF Current, Aid
    <2>4. {} \in SUBSET Jti
      OBVIOUS
    <2>5. QED
      BY <2>1, <2>2, <2>3, <2>4, StillDenies
  <1>10. ASSUME NEW status, RunOver(status)
         PROVE  DenyInv'
    BY <1>10 DEF RunOver, DenyInv, StillDenied, NoFutureKeys
  <1>11. ASSUME NEW a, push_trusted_peers(a)
         PROVE  DenyInv'
    BY <1>1, <1>11 DEF push_trusted_peers
  <1>12. ASSUME NEW d, NEW v, NEW e, NEW scope, Delegate(d, v, e, scope)
         PROVE  DenyInv'
    BY <1>1, <1>12 DEF Delegate
  <1>13. ASSUME NEW a, NEW b, NEW c, CallOrRefusal(a, b, c)
         PROVE  DenyInv'
    BY <1>1, <1>13 DEF CallOrRefusal
  <1>14. CASE Recorded
    BY <1>1, <1>14 DEF Recorded
  <1>15. QED
    BY <1>3, <1>4, <1>5, <1>6, <1>7, <1>8, <1>9, <1>10, <1>11, <1>12, <1>13, <1>14, StepIs

LEMMA DeniedAlways == Spec => [](TypeInv /\ KeyInv /\ DenyInv)
  <1>1. Init => DenyInv
    BY DEF Init, DenyInv, StillDenied, NoFutureKeys
  <1>2. QED
    BY KeysAlways, StepDenied, <1>1, PTL DEF Spec

\* What is in its deny-set is all that an agent has denied under its AID.
LEMMA AdmittedIsNotRevoked ==
    ASSUME DenyInv, NEW x \in Agents, NEW j \in Jti, j \notin effective_jtis(x)
    PROVE  <<Current(x), j>> \notin revoked
  BY DEF DenyInv, StillDenied, effective_jtis

\* Nothing is renewed or redeemed from a TCT its issuer has denied under the AID it
\* has now, however many lists have replaced one another since (apply_snapshot,
\* process_renewal, redeem_delegation).
THEOREM RevokedYieldsNothingHolds == Spec => RevokedYieldsNothing
  <1>1. ASSUME TypeInv, DenyInv, [Next]_vars, NEW j \in 1..Len(minted'), j > Len(minted),
               minted'[j].src # 0
        PROVE  <<Current(minted'[j].iss[1]), minted'[j].src>> \notin revoked
    <2>0. \A k \in 1..Len(minted) : k \in Jti
      BY <1>1 DEF TypeInv, TypeOK, Jti
    <2>1. ASSUME NEW i, NEW r, NEW g, minted'[j] = HandshakeTct(i, r, g)
          PROVE  FALSE
      BY <1>1, <2>1 DEF HandshakeTct
    <2>2. ASSUME NEW a \in Agents, NEW r \in Agents, Renew(a, r),
                 minted'[j] = RenewedTct(a, r)
          PROVE  <<Current(minted'[j].iss[1]), minted'[j].src>> \notin revoked
      <3>1. /\ minted'[j].src = held[a][r] /\ held[a][r] \notin effective_jtis(r)
            /\ held[a][r] \in 1..Len(minted) /\ minted'[j].iss = Router(r)
        BY <1>1, <2>2, RenewIs
      <3>2. minted'[j].iss[1] = r
        BY <3>1 DEF Router
      <3>3. QED
        BY <1>1, <2>0, <3>1, <3>2, AdmittedIsNotRevoked
    <2>3. ASSUME NEW v \in Agents, NEW t \in delegations, NEW probe \in BOOLEAN,
                 t.voucher \notin effective_jtis(v), Redeemed(minted'[j], v, t, probe)
          PROVE  <<Current(minted'[j].iss[1]), minted'[j].src>> \notin revoked
      <3>1. minted'[j].src = t.voucher /\ minted'[j].iss[1] = v
        BY <2>3 DEF Redeemed, Current
      <3>2. t.voucher \in Jti
        BY <1>1, <2>0, <2>3 DEF TypeInv, Vouched
      <3>3. QED
        BY <1>1, <2>3, <3>1, <3>2, AdmittedIsNotRevoked
    <2>4. QED
      BY <1>1, <2>1, <2>2, <2>3, NewTctIs
  <1>2. TypeInv /\ DenyInv /\ [Next]_vars =>
           [\A j \in 1..Len(minted') : j > Len(minted) /\ minted'[j].src # 0 =>
               <<Current(minted'[j].iss[1]), minted'[j].src>> \notin revoked]_vars
    BY <1>1
  <1>3. QED
    BY DeniedAlways, <1>2, PTL DEF Spec, RevokedYieldsNothing
------------------------------------------------------------------------------
(* The manifests of a chain of delegations.                                *)

\* The chain on record names the delegators behind the voucher in hand, unless it
\* came from a redemption in probe mode.
ChainKept ==
    \A a, r \in Agents :
        voucher[a][r] # 0 /\ ~minted[voucher[a][r]].quiet =>
            \A h \in minted[voucher[a][r]].hops : h[1] \in chain[a][r]

ChainInv == ChainKept /\ ManifestsCoverTheChain

\* A new TCT leaves the delegations covered.
LEMMA MintCovers ==
    ASSUME TypeInv, ChainInv, NEW a \in Agents, NEW r \in Agents, NEW t \in Tct,
           NEW fresh \in BOOLEAN, Keep(a, r, t, fresh), delegations' = delegations,
           chain' \in PerPair(SUBSET Agents),
           \A c, d \in Agents : c # a \/ d # r => chain'[c][d] = chain[c][d],
           t.quiet \/ \A h \in t.hops : h[1] \in chain'[a][r],
           fresh = TRUE \/ chain' = chain
    PROVE  ChainInv'
  <1>0. Len(minted) \in Nat /\ \A c, d \in Agents : voucher[c][d] \in 0..Len(minted)
    <2>1. Len(minted) \in Nat /\ voucher \in PerPair(0..Len(minted))
      BY DEF TypeInv, TypeOK
    <2>2. QED
      BY <2>1, PerPairAt
  <1>1. /\ \A j \in 1..Len(minted) : minted'[j] = minted[j]
        /\ minted'[Len(minted) + 1] = t
        /\ \A c, d \in Agents :
              voucher'[c][d] = IF c = a /\ d = r /\ fresh THEN Len(minted) + 1
                               ELSE voucher[c][d]
    BY KeepIs
  <1>2. ChainKept'
    <2> SUFFICES ASSUME NEW c \in Agents, NEW d \in Agents, voucher'[c][d] # 0,
                        ~minted'[voucher'[c][d]].quiet,
                        NEW h \in minted'[voucher'[c][d]].hops
                 PROVE  h[1] \in chain'[c][d]
      BY DEF ChainKept
    <2>1. CASE c = a /\ d = r /\ fresh
      BY <1>1, <2>1
    <2>2. CASE ~(c = a /\ d = r /\ fresh)
      <3>1. voucher'[c][d] = voucher[c][d] /\ chain'[c][d] = chain[c][d]
        BY <1>1, <2>2
      <3>2. minted'[voucher'[c][d]] = minted[voucher[c][d]]
        <4>1. voucher[c][d] \in 1..Len(minted)
          BY <1>0, <3>1
        <4>2. QED
          BY <1>1, <3>1, <4>1
      <3>3. QED
        BY <3>1, <3>2 DEF ChainInv, ChainKept
    <2>3. QED
      BY <2>1, <2>2
  <1>3. \A x \in delegations : minted'[x.voucher] = minted[x.voucher]
    BY <1>1 DEF TypeInv, Vouched
  <1>4. ManifestsCoverTheChain'
    BY <1>3 DEF ChainInv, ManifestsCoverTheChain, HopIssuers
  <1>5. QED
    BY <1>2, <1>4 DEF ChainInv

LEMMA StepChain == TypeInv /\ ChainInv /\ [Next]_vars => ChainInv'
  <1> SUFFICES ASSUME TypeInv, ChainInv, [Next]_vars
               PROVE  ChainInv'
    OBVIOUS
  <1> USE DEF tokenVars, keyVars, revokeVars, denyVars, outputVars, runVars
  <1>1. UNCHANGED <<minted, voucher, chain, delegations>> => ChainInv'
    BY DEF ChainInv, ChainKept, ManifestsCoverTheChain, HopIssuers
  <1>2. chain \in PerPair(SUBSET Agents)
    BY DEF TypeInv, TypeOK
  <1>3. ASSUME NEW i \in Agents, NEW r \in Agents, NEW g \in SUBSET Caps, ensure_trust(i, r, g)
        PROVE  ChainInv'
    <2>1. /\ HandshakeTct(i, r, g) \in Tct /\ Keep(i, r, HandshakeTct(i, r, g), TRUE)
          /\ delegations' = delegations /\ chain' = chain
      BY <1>3, EnsureTrustIs
    <2>2. HandshakeTct(i, r, g).hops = {}
      BY DEF HandshakeTct
    <2>3. QED
      BY <1>2, <2>1, <2>2, MintCovers
  <1>4. ASSUME NEW a \in Agents, NEW r \in Agents, renew_tct(a, r)
        PROVE  ChainInv'
    <2>1. Renew(a, r) /\ delegations' = delegations /\ chain' = chain
      BY <1>4 DEF renew_tct
    <2>2. /\ RenewedTct(a, r) \in Tct /\ RenewedTct(a, r).hops = {}
          /\ \E fresh \in BOOLEAN : Keep(a, r, RenewedTct(a, r), fresh)
      BY <2>1, RenewIs
    <2>3. Keep(a, r, RenewedTct(a, r), TRUE) \/ Keep(a, r, RenewedTct(a, r), FALSE)
      BY <2>2, Zenon
    <2>4. \A c, d \in Agents : c # a \/ d # r => chain'[c][d] = chain[c][d]
      BY <2>1
    <2>5. QED
      <3>1. delegations' = delegations /\ chain' = chain /\ chain' \in PerPair(SUBSET Agents)
        BY <1>2, <2>1
      <3>2. \A h \in RenewedTct(a, r).hops : h[1] \in chain'[a][r]
        BY <2>2
      <3>3. QED
        BY <2>2, <2>3, <2>4, <3>1, <3>2, MintCovers, Zenon
  <1>5. ASSUME NEW e \in Agents, NEW v \in Agents, NEW t \in delegations,
               NEW probe \in BOOLEAN, redeem_delegation(e, v, t, probe)
        PROVE  ChainInv'
    <2>1. /\ Redeem(e, v, t, probe) /\ delegations' = delegations
          /\ chain' = IF probe THEN chain ELSE Put(chain, e, v, t.manifests)
      BY <1>5 DEF redeem_delegation
    <2>2. /\ t \in Delegation
          /\ \A h \in HopIssuers(t) : h[1] \in t.manifests
          /\ \E x : Redeemed(x, v, t, probe) /\ Keep(e, v, x, TRUE)
      BY <2>1, RedeemIs, Zenon
    <2>3. PICK new : /\ new \in Tct /\ new.quiet = probe /\ new.hops = HopIssuers(t)
                     /\ Keep(e, v, new, TRUE)
      BY <2>2 DEF Redeemed
    <2>4. /\ Put(chain, e, v, t.manifests) \in PerPair(SUBSET Agents)
          /\ \A c, d \in Agents : Put(chain, e, v, t.manifests)[c][d] =
                IF c = e /\ d = v THEN t.manifests ELSE chain[c][d]
      <3>1. t.manifests \in SUBSET Agents
        BY <2>2 DEF Delegation
      <3>2. QED
        BY <1>2, <3>1, PutIs
    <2>5. CASE probe
      <3>1. new.quiet /\ chain' = chain
        BY <2>1, <2>3, <2>5
      <3>2. QED
        BY <1>2, <2>1, <2>3, <3>1, MintCovers
    <2>6. CASE ~probe
      <3>1. /\ chain' \in PerPair(SUBSET Agents)
            /\ \A c, d \in Agents : c # e \/ d # v => chain'[c][d] = chain[c][d]
            /\ \A h \in new.hops : h[1] \in chain'[e][v]
        BY <2>1, <2>2, <2>3, <2>4, <2>6
      <3>2. delegations' = delegations
        BY <2>1
      <3>3. QED
        BY <2>3, <3>1, <3>2, MintCovers
    <2>7. QED
      BY <2>5, <2>6
  <1>6. ASSUME NEW d \in Agents, NEW v \in Agents, NEW e \in Agents, NEW scope \in SUBSET Caps,
               Delegate(d, v, e, scope)
        PROVE  ChainInv'
    <2>1. /\ voucher[d][v] \in 1..Len(minted)
          /\ delegations' = delegations \cup {DelegationOf(d, v, e, scope)}
          /\ minted' = minted /\ voucher' = voucher /\ chain' = chain
      BY <1>6, DelegateIs
    <2>2. /\ DelegationOf(d, v, e, scope).voucher = voucher[d][v]
          /\ DelegationOf(d, v, e, scope).iss = Router(d)
          /\ DelegationOf(d, v, e, scope).manifests = chain[d][v] \cup {d}
      BY DEF DelegationOf
    <2> DEFINE t == DelegationOf(d, v, e, scope)
    <2>3. ASSUME ~minted[t.voucher].quiet, NEW h \in HopIssuers(t)
          PROVE  h[1] \in t.manifests
      <3>1. CASE h = Router(d)
        BY <2>2, <3>1 DEF Router
      <3>2. CASE h \in minted[voucher[d][v]].hops
        BY <2>1, <2>2, <2>3, <3>2 DEF ChainInv, ChainKept
      <3>3. QED
        BY <2>2, <2>3, <3>1, <3>2 DEF HopIssuers
    <2> HIDE DEF t
    <2>4. \A x : HopIssuers(x)' = HopIssuers(x)
      BY <2>1 DEF HopIssuers
    <2>5. \A x \in delegations' : x \in delegations \/ x = t
      BY <2>1 DEF t
    <2>6. ManifestsCoverTheChain'
      BY <2>1, <2>3, <2>4, <2>5 DEF ChainInv, ManifestsCoverTheChain
    <2>7. ChainKept'
      BY <2>1 DEF ChainInv, ChainKept
    <2>8. QED
      BY <2>6, <2>7 DEF ChainInv
  <1>7. ASSUME NEW status \in Statuses, RunOver(status)
        PROVE  ChainInv'
    <2>1. delegations' = {} /\ voucher' = Blank(0)
      BY <1>7 DEF RunOver
    <2>2. \A a, r \in Agents : voucher'[a][r] = 0
      BY <2>1 DEF Blank
    <2>3. QED
      BY <2>1, <2>2 DEF ChainInv, ChainKept, ManifestsCoverTheChain
  <1>8. ASSUME NEW i \in Agents, NEW r \in Agents, establish_pairwise_trust(i, r)
        PROVE  ChainInv'
    BY <1>3, <1>8 DEF establish_pairwise_trust
  <1>9. ASSUME NEW i \in Agents, NEW r \in Agents, NEW g \in SUBSET Caps, Handshake(i, r, g)
        PROVE  ChainInv'
    BY <1>3, <1>9 DEF Handshake
  <1>10. ASSUME NEW a, NEW pulls,
               push_trusted_peers(a) \/ poll_revocations(a) \/ rotate_keys(a, pulls)
         PROVE  ChainInv'
    BY <1>1, <1>10 DEF push_trusted_peers, poll_revocations, rotate_keys
  <1>11. ASSUME NEW a, NEW r, NEW here, NEW published, NEW refreshed,
                revoke_tct(r, a, here, published, refreshed)
         PROVE  ChainInv'
    BY <1>1, <1>11 DEF revoke_tct
  <1>12. ASSUME NEW a, NEW b, NEW c, CallOrRefusal(a, b, c)
         PROVE  ChainInv'
    BY <1>1, <1>12 DEF CallOrRefusal
  <1>13. CASE Recorded
    BY <1>1, <1>13 DEF Recorded
  <1>14. QED
    BY <1>4, <1>5, <1>6, <1>7, <1>8, <1>9, <1>10, <1>11, <1>12, <1>13, StepIs

\* A delegation carries the manifests of every delegator behind it, through any
\* number of redemptions, handshakes and renewals in any order, if its voucher did
\* not come from a redemption in probe mode (issuer_manifest_urls).
THEOREM ManifestsCoverTheChainHolds == Spec => []ManifestsCoverTheChain
  <1>1. Init => ChainInv
    <2> SUFFICES ASSUME Init PROVE ChainInv
      OBVIOUS
    <2>1. \A a, r \in Agents : voucher[a][r] = 0
      BY DEF Init, Blank
    <2>2. QED
      BY <2>1 DEF Init, ChainInv, ChainKept, ManifestsCoverTheChain
  <1>2. ChainInv => ManifestsCoverTheChain
    BY DEF ChainInv
  <1>3. QED
    BY InitType, StepType, StepChain, <1>1, <1>2, PTL DEF Spec

------------------------------------------------------------------------------
(* Revocation by the event log.                                            *)

\* While a revocation stands, its issuer has denied the jti last established, or
\* has taken a key since that did not issue it.
CutIsDenied ==
    \A a, r \in Agents : <<a, r>> \in cut =>
        /\ established[a][r] # 0
        /\ \/ <<Current(r), established[a][r]>> \in revoked
           \/ minted[established[a][r]].iss # Current(r)

\* A TCT in hand that came from a handshake is the one last established.
HeldIsLogged ==
    \A a, r \in Agents :
        held[a][r] # 0 /\ minted[held[a][r]].via = "handshake" => held[a][r] = established[a][r]

RevokeInv ==
    /\ CutIsDenied /\ HeldIsLogged /\ RevokedIsRefused
    /\ served # None => todo = {}

\* A new TCT between steps keeps what the log says of the others.
LEMMA MintLogged ==
    ASSUME TypeInv, RevokeInv, NEW a \in Agents, NEW r \in Agents, NEW t \in Tct,
           NEW fresh \in BOOLEAN, Keep(a, r, t, fresh),
           \A c, d \in Agents : c # a \/ d # r => established'[c][d] = established[c][d],
           t.via = "handshake" => established'[a][r] = Len(minted) + 1,
           revoked' = revoked, key' = key, served' = None
    PROVE  RevokeInv'
  <1>0. /\ Len(minted) \in Nat
        /\ \A c, d \in Agents :
              held[c][d] \in 0..Len(minted) /\ established[c][d] \in 0..Len(minted)
    <2>1. /\ Len(minted) \in Nat /\ held \in PerPair(0..Len(minted))
          /\ established \in PerPair(0..Len(minted))
      BY DEF TypeInv, TypeOK
    <2>2. QED
      BY <2>1, PerPairAt
  <1>1. /\ \A j \in 1..Len(minted) : minted'[j] = minted[j]
        /\ minted'[Len(minted) + 1] = t
        /\ \A c, d \in Agents :
              held'[c][d] = IF c = a /\ d = r THEN Len(minted) + 1 ELSE held[c][d]
    BY KeepIs
  <1>2. CutIsDenied'
    <2> SUFFICES ASSUME NEW c \in Agents, NEW d \in Agents, <<c, d>> \in cut'
                 PROVE  /\ established'[c][d] # 0
                        /\ \/ <<Current(d)', established'[c][d]>> \in revoked'
                           \/ minted'[established'[c][d]].iss # Current(d)'
      BY DEF CutIsDenied
    <2>1. <<c, d>> \in cut /\ (c # a \/ d # r)
      BY DEF Keep
    <2>2. established'[c][d] = established[c][d] /\ Current(d)' = Current(d)
      BY <2>1 DEF Current
    <2>3. /\ established[c][d] # 0
          /\ \/ <<Current(d), established[c][d]>> \in revoked
             \/ minted[established[c][d]].iss # Current(d)
      BY <2>1 DEF RevokeInv, CutIsDenied
    <2>4. minted'[established[c][d]] = minted[established[c][d]]
      <3>1. established[c][d] \in 1..Len(minted)
        BY <1>0, <2>3
      <3>2. QED
        BY <1>1, <3>1
    <2>5. QED
      BY <2>2, <2>3, <2>4
  <1>3. HeldIsLogged'
    <2> SUFFICES ASSUME NEW c \in Agents, NEW d \in Agents, held'[c][d] # 0,
                        minted'[held'[c][d]].via = "handshake"
                 PROVE  held'[c][d] = established'[c][d]
      BY DEF HeldIsLogged
    <2>1. CASE c = a /\ d = r
      BY <1>1, <2>1
    <2>2. CASE c # a \/ d # r
      <3>1. held'[c][d] = held[c][d] /\ held[c][d] \in 1..Len(minted)
        BY <1>0, <1>1, <2>2
      <3>2. QED
        BY <1>1, <2>2, <3>1 DEF RevokeInv, HeldIsLogged
    <2>3. QED
      BY <2>1, <2>2
  <1>4. RevokedIsRefused' /\ (served' # None => todo' = {})
    BY DEF RevokedIsRefused
  <1>5. QED
    BY <1>2, <1>3, <1>4 DEF RevokeInv

LEMMA StepRevoke == TypeInv /\ KeyInv /\ DenyInv /\ RevokeInv /\ [Next]_vars => RevokeInv'
  <1> SUFFICES ASSUME TypeInv, KeyInv, DenyInv, RevokeInv, [Next]_vars
               PROVE  RevokeInv'
    OBVIOUS
  <1> USE DEF tokenVars, keyVars, revokeVars, denyVars, outputVars, runVars
  <1>0. /\ key \in [Agents -> 1..MaxKeys] /\ Len(minted) \in Nat /\ Len(minted) <= MaxTct
        /\ \A c, d \in Agents :
              held[c][d] \in 0..Len(minted) /\ established[c][d] \in 0..Len(minted)
        /\ \A j \in 1..Len(minted) : minted[j].iss \in Aid
    <2>1. /\ Len(minted) \in Nat /\ Len(minted) <= MaxTct
          /\ held \in PerPair(0..Len(minted)) /\ established \in PerPair(0..Len(minted))
          /\ key \in [Agents -> 1..MaxKeys] /\ minted \in Seq(Tct)
      BY DEF TypeInv, TypeOK
    <2>2. QED
      BY <2>1, PerPairAt, IssuersAreAids
  <1>1. ASSUME UNCHANGED <<minted, held, key, established, cut, todo>>, revoked \subseteq revoked',
               served' \in {None, served}
        PROVE  RevokeInv'
    <2>1. CutIsDenied' /\ HeldIsLogged'
      BY <1>1 DEF RevokeInv, CutIsDenied, HeldIsLogged, Current
    <2>2. RevokedIsRefused' /\ (served' # None => todo' = {})
      BY <1>1 DEF RevokeInv, RevokedIsRefused
    <2>3. QED
      BY <2>1, <2>2 DEF RevokeInv
  <1>2. ASSUME NEW i \in Agents, NEW r \in Agents, NEW g \in SUBSET Caps,
               ensure_trust(i, r, g), served' = None
        PROVE  RevokeInv'
    <2>1. /\ HandshakeTct(i, r, g) \in Tct /\ Keep(i, r, HandshakeTct(i, r, g), TRUE)
          /\ established'[i][r] = Len(minted) + 1
          /\ \A c, d \in Agents : c # i \/ d # r => established'[c][d] = established[c][d]
      BY <1>2, EnsureTrustIs
    <2>2. revoked' = revoked /\ key' = key
      BY <1>2 DEF ensure_trust
    <2>3. QED
      BY <1>2, <2>1, <2>2, MintLogged, Zenon
  <1>3. ASSUME NEW i \in Agents, NEW r \in Agents, establish_pairwise_trust(i, r)
        PROVE  RevokeInv'
    <2>1. ensure_trust(i, r, Offers[r]) /\ Offers[r] \in SUBSET Caps
      BY <1>3 DEF establish_pairwise_trust
    <2>2. served' = None
      BY <1>3 DEF establish_pairwise_trust, RevokeInv
    <2>3. QED
      BY <1>2, <2>1, <2>2
  <1>4. ASSUME NEW i \in Agents, NEW r \in Agents, NEW g \in SUBSET Caps, Handshake(i, r, g)
        PROVE  RevokeInv'
    BY <1>2, <1>4 DEF Handshake, Step, Ready
  <1>5. ASSUME NEW a \in Agents, NEW r \in Agents, renew_tct(a, r)
        PROVE  RevokeInv'
    <2>1. /\ Renew(a, r) /\ established' = established /\ revoked' = revoked /\ key' = key
          /\ served' = None
      BY <1>5 DEF renew_tct, Step, Ready
    <2>2. /\ RenewedTct(a, r) \in Tct /\ RenewedTct(a, r).via = "renewal"
          /\ \E fresh \in BOOLEAN : Keep(a, r, RenewedTct(a, r), fresh)
      BY <2>1, RenewIs
    <2>3. QED
      BY <2>1, <2>2, MintLogged
  <1>6. ASSUME NEW e \in Agents, NEW v \in Agents, NEW t \in delegations,
               NEW probe \in BOOLEAN, redeem_delegation(e, v, t, probe)
        PROVE  RevokeInv'
    <2>1. /\ Redeem(e, v, t, probe)
          /\ established' = established /\ revoked' = revoked /\ key' = key /\ served' = None
      BY <1>6 DEF redeem_delegation, Step, Ready
    <2>2. \E x : Redeemed(x, v, t, probe) /\ Keep(e, v, x, TRUE)
      BY <2>1, RedeemIs, Zenon
    <2>3. PICK new : new \in Tct /\ new.via = "redemption" /\ Keep(e, v, new, TRUE)
      BY <2>2 DEF Redeemed
    <2>4. QED
      BY <2>1, <2>3, MintLogged
  <1>7. ASSUME NEW a \in Agents, NEW r \in Agents, NEW here \in BOOLEAN,
               NEW published \in BOOLEAN, NEW refreshed \in BOOLEAN,
               revoke_tct(r, a, here, published, refreshed)
        PROVE  RevokeInv'
    <2> DEFINE j == established[a][r]
               entries == IF published THEN publish_revocation(r, j) ELSE cpEntries
               own == IF here THEN {j} ELSE {}
    <2>1. j # 0 /\ j \in Jti
      <3>1. j # 0
        BY <1>7 DEF revoke_tct, Known, find_tct_jti
      <3>2. QED
        BY <1>0, <3>1 DEF Jti
    <2>2. /\ Denies(r, Current(r), own, refreshed, entries)
          /\ cut' = IF here \/ (published /\ refreshed) THEN cut \cup {<<a, r>>} ELSE cut
          /\ UNCHANGED <<minted, held, key, established, todo>> /\ served' = None
      BY <1>7 DEF revoke_tct, find_tct_jti, Step, Ready
    <2>3. own \in SUBSET Jti /\ Current(r) \in Aid
      BY <2>1, AidsAreAids DEF TypeInv, TypeOK
    <2>4. here => j \in own
      OBVIOUS
    <2>5. published => j \in Refreshed(Current(r), entries)
      <3>1. published => <<Current(r), j>> \in entries
        BY DEF publish_revocation, Current, KeyInv
      <3>2. QED
        BY <2>1, <3>1 DEF Refreshed
    <2> HIDE DEF j, entries, own
    <2>6. /\ revoked \subseteq revoked'
          /\ \A k \in own : <<Current(r), k>> \in revoked'
          /\ refreshed => \A k \in Refreshed(Current(r), entries) : <<Current(r), k>> \in revoked'
      <3>1. CASE refreshed
        BY <2>2, <3>1 DEF Denies
      <3>2. CASE ~refreshed
        BY <2>2, <3>2 DEF Denies
      <3>3. QED
        BY <3>1, <3>2
    <2>7. here \/ (published /\ refreshed) => <<Current(r), j>> \in revoked'
      BY <2>4, <2>5, <2>6
    <2>8. CutIsDenied'
      <3> SUFFICES ASSUME NEW c \in Agents, NEW d \in Agents, <<c, d>> \in cut'
                   PROVE  /\ established[c][d] # 0
                          /\ \/ <<Current(d), established[c][d]>> \in revoked'
                             \/ minted[established[c][d]].iss # Current(d)
        BY <2>2 DEF CutIsDenied, Current
      <3>1. CASE <<c, d>> \in cut
        BY <2>6, <3>1 DEF RevokeInv, CutIsDenied
      <3>2. CASE c = a /\ d = r /\ (here \/ (published /\ refreshed))
        BY <2>1, <2>7, <3>2 DEF j
      <3>3. QED
        BY <2>2, <3>1, <3>2
    <2>9. HeldIsLogged' /\ RevokedIsRefused' /\ (served' # None => todo' = {})
      BY <2>2 DEF RevokeInv, HeldIsLogged, RevokedIsRefused
    <2>10. QED
      BY <2>8, <2>9 DEF RevokeInv
  <1>8. ASSUME NEW a \in Agents, NEW b \in Agents, NEW c \in Caps, CallOrRefusal(a, b, c)
        PROVE  RevokeInv'
    <2>1. /\ UNCHANGED <<minted, held, key, revoked, established, cut, todo>>
          /\ todo = {} /\ served' \in {None, <<a, b>>}
      BY <1>8 DEF CallOrRefusal, Ready
    <2>2. ASSUME served' # None
          PROVE  /\ held[a][b] # 0 /\ held[a][b] \notin effective_jtis(b)
                 /\ minted[held[a][b]].iss = Current(b)
      BY <1>8, <2>2 DEF CallOrRefusal, Admits
    <2>3. RevokedIsRefused'
      <3> SUFFICES ASSUME served' # None, served' \in cut,
                          minted[held[a][b]].via = "handshake"
                   PROVE  FALSE
        BY <2>1 DEF RevokedIsRefused
      <3>1. <<a, b>> \in cut /\ held[a][b] = established[a][b]
        BY <2>1, <2>2 DEF RevokeInv, HeldIsLogged
      <3>2. <<Current(b), held[a][b]>> \in revoked
        BY <2>2, <3>1 DEF RevokeInv, CutIsDenied
      <3>3. held[a][b] \in Jti
        BY <1>0, <2>2 DEF Jti
      <3>4. QED
        BY <2>2, <3>2, <3>3, AdmittedIsNotRevoked
    <2>4. CutIsDenied' /\ HeldIsLogged'
      BY <2>1 DEF RevokeInv, CutIsDenied, HeldIsLogged, Current
    <2>5. QED
      BY <2>1, <2>3, <2>4 DEF RevokeInv
  <1>9. ASSUME NEW status \in Statuses, RunOver(status)
        PROVE  RevokeInv'
    <2>1. cut' = {} /\ served' = None /\ held' = Blank(0)
      BY <1>9 DEF RunOver
    <2>2. \A a, r \in Agents : held'[a][r] = 0
      BY <2>1 DEF Blank
    <2>3. QED
      BY <2>1, <2>2 DEF RevokeInv, CutIsDenied, HeldIsLogged, RevokedIsRefused
  <1>10. ASSUME NEW a, push_trusted_peers(a)
         PROVE  RevokeInv'
    BY <1>1, <1>10 DEF push_trusted_peers
  <1>11. ASSUME NEW d \in Agents, NEW v \in Agents, NEW e \in Agents,
                NEW scope \in SUBSET Caps, Delegate(d, v, e, scope)
         PROVE  RevokeInv'
    BY <1>1, <1>11, DelegateIs
  <1>12. CASE Recorded
    BY <1>1, <1>12 DEF Recorded
  <1>13. ASSUME NEW a \in Agents, poll_revocations(a)
         PROVE  RevokeInv'
    <2>1. /\ Denies(a, Current(a), {}, TRUE, cpEntries) /\ served' = served
          /\ UNCHANGED <<minted, held, key, established, cut, todo>>
      BY <1>13 DEF poll_revocations
    <2>2. revoked \subseteq revoked'
      BY <2>1 DEF Denies
    <2>3. QED
      BY <1>1, <2>1, <2>2
  <1>14. ASSUME NEW a \in Agents, NEW pulls \in BOOLEAN, rotate_keys(a, pulls)
         PROVE  RevokeInv'
    <2>1. /\ key' = [key EXCEPT ![a] = @ + 1] /\ served' = None
          /\ Denies(a, <<a, key[a] + 1>>, {}, pulls, cpEntries)
          /\ UNCHANGED <<minted, held, established, cut, todo>>
      BY <1>14 DEF rotate_keys, Step, Ready
    <2>2. revoked \subseteq revoked'
      BY <2>1 DEF Denies
    <2>3. CutIsDenied'
      <3> SUFFICES ASSUME NEW c \in Agents, NEW d \in Agents, <<c, d>> \in cut
                   PROVE  /\ established[c][d] # 0
                          /\ \/ <<Current(d)', established[c][d]>> \in revoked'
                             \/ minted[established[c][d]].iss # Current(d)'
        BY <2>1 DEF CutIsDenied
      <3> DEFINE m == minted[established[c][d]]
      <3>1. /\ established[c][d] # 0
            /\ <<Current(d), established[c][d]>> \in revoked \/ m.iss # Current(d)
        BY DEF RevokeInv, CutIsDenied
      <3>2. CASE d # a
        <4>1. Current(d)' = Current(d)
          BY <1>0, <2>1, <3>2 DEF Current
        <4>2. QED
          BY <2>2, <3>1, <4>1
      <3>3. CASE d = a
        <4>1. established[c][d] \in 1..Len(minted)
          BY <1>0, <3>1
        <4>2. m.iss \in Agents \X (1..MaxKeys) /\ m.iss[2] <= key[m.iss[1]]
          BY <1>0, <4>1 DEF Aid, DenyInv, NoFutureKeys
        <4>3. Current(d)' = <<a, key[a] + 1>>
          BY <1>0, <2>1, <3>3 DEF Current
        <4> HIDE DEF m
        <4>4. m.iss # <<a, key[a] + 1>>
          BY <1>0, <4>2
        <4>5. QED
          BY <3>1, <4>3, <4>4 DEF m
      <3>4. QED
        BY <3>2, <3>3
    <2>4. HeldIsLogged' /\ RevokedIsRefused' /\ (served' # None => todo' = {})
      BY <2>1 DEF RevokeInv, HeldIsLogged, RevokedIsRefused
    <2>5. QED
      BY <2>3, <2>4 DEF RevokeInv
  <1>15. QED
    BY <1>3, <1>4, <1>5, <1>6, <1>7, <1>8, <1>9, <1>10, <1>11, <1>12, <1>13, <1>14, StepIs

\* After a revoke_tct step took effect, its audience is not served with a TCT from a
\* handshake until it has a new one: the jti found in the event log is the one it
\* presents, the AID the engine publishes under is the one the issuer pulls for,
\* and what a rotation drops from the list no longer names its issuer.
THEOREM RevokedIsRefusedHolds == Spec => []RevokedIsRefused
  <1>1. Init => RevokeInv
    <2> SUFFICES ASSUME Init PROVE RevokeInv
      OBVIOUS
    <2>1. \A a, r \in Agents : held[a][r] = 0
      BY DEF Init, Blank
    <2>2. QED
      BY <2>1 DEF Init, RevokeInv, CutIsDenied, HeldIsLogged, RevokedIsRefused
  <1>2. RevokeInv => RevokedIsRefused
    BY DEF RevokeInv
  <1>3. QED
    BY DeniedAlways, StepRevoke, <1>1, <1>2, PTL DEF Spec

==============================================================================
