------------------------- MODULE IssuerRevocationList -------------------------
(***************************************************************************)
(* agents/base/revocation_publish.py: the list an agent signs over its own *)
(* entries, and the rule deciding whether that list may be served.         *)
(*                                                                         *)
(* AIDs are numbered in the order the keys are generated.                  *)
(***************************************************************************)
EXTENDS RevocationState

CONSTANTS
    ListTtl,    \* list_ttl_secs
    NoList      \* IssuerRevocationList.current is None

Aid == Nat \ {0}

SignedList == [signer : Aid, entries : SUBSET Jti, published_at : Nat, expires_at : Nat]

ASSUME TtlAssumption == ListTtl \in Nat
ASSUME NoListAssumption == NoList \notin SignedList

\* _sign: the key, and so the AID, is the one current when the call is made;
\* the SDK stamps published_at with the clock and adds the lifetime.
Sign(entries, signer, now) ==
    [signer |-> signer, entries |-> entries,
     published_at |-> now, expires_at |-> now + ListTtl]

\* serveable() when a control plane is configured: the list held, unless it
\* names another issuer or is past its expiry; NoList is the 503.
InForce(list, aid, now) ==
    IF list # NoList /\ list.signer = aid /\ now < list.expires_at
    THEN list ELSE NoList

\* serveable(): without a control plane an empty list is signed on demand.
serveable(list, aid, now, cp_configured) ==
    IF InForce(list, aid, now) = NoList /\ ~cp_configured
    THEN Sign({}, aid, now)
    ELSE InForce(list, aid, now)
==============================================================================
