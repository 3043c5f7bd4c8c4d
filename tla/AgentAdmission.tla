---------------------------- MODULE AgentAdmission ----------------------------
(***************************************************************************)
(* How an agent lets a peer in: the handshake it answers (aitp_server.py   *)
(* hello and commit, behind the ReplayGuard of handshake_replay.py), the   *)
(* TCT that comes out of it, and the capability calls made with that TCT   *)
(* (verify_capability_tct, behind the PopChallenges of pop_challenges.py), *)
(* together with the peer's side of both (agent_admin.py                   *)
(* initiate_handshake and invoke) and the agent's key rotation.            *)
(*                                                                         *)
(* The network may deliver a request late, more than once, damaged or      *)
(* never; a reply may be lost.  The handlers have no await between the     *)
(* checks and the state they write, so one delivery is one step.  The      *)
(* revocation checks in front of a call are the subject of                 *)
(* AgentRevocation; here they could only refuse a call earlier.            *)
(***************************************************************************)
EXTENDS Integers, FiniteSets

CONSTANTS
    Handshake,      \* the peer's handshake attempts
    Call,           \* the peer's calls
    Nonce,          \* PoP challenge nonces
    None,           \* absent
    Tolerance,      \* ReplayGuard.tolerance_secs
    MaxSeen,        \* ReplayGuard.max_entries
    Ttl,            \* PopChallenges.ttl_secs
    MaxOutstanding, \* PopChallenges.max_entries
    Skew,           \* how far the peer's clock may be from the agent's
    Damaged,        \* the timestamps a damaged envelope may show, or None
    MaxTime,        \* bound on the clock
    MaxAid          \* bound on rotations: the agent's AIDs are 1..MaxAid

ASSUME AdmissionAssumption ==
    /\ Tolerance \in Nat /\ MaxSeen \in Nat
    /\ Ttl \in Nat /\ MaxOutstanding \in Nat
    /\ Skew \in SUBSET Int /\ Damaged \in SUBSET (Int \cup {None})
    /\ MaxTime \in Nat /\ MaxAid \in Nat \ {0}
    /\ None \notin Int /\ None \notin Handshake /\ None \notin Nonce
ASSUME CallAssumption == None \notin Call

Aid == 1..MaxAid

\* The two envelopes an attempt sends; the pair is its message_id.
Message == Handshake \X {"hello", "commit"}

VARIABLES
    now,            \* the agent's clock
    aid,            \* the agent's AID
    \* the peer, by attempt
    pc,             \* how far the attempt is
    target,         \* the AID of the manifest it verified
    stamp,          \* the timestamps of the envelopes it has signed and sent
    held,           \* held_tcts[peer_port]: the attempt whose TCT it holds
    \* replies, by attempt
    ack,            \* the AID that signed the HELLO_ACK
    tct,            \* the issuer of the TCT in the COMMIT_ACK
    \* the agent
    seen,           \* ReplayGuard._seen
    sessions,       \* _sessions: the AID its responder acts for
    \* the peer's calls
    uses,           \* the TCT a call presents
    answer,         \* the nonce its retry answers
    \* challenges
    issuedTo,       \* the call a nonce was issued to
    outstanding,    \* PopChallenges._outstanding: when the challenge expires
    \* history
    processed,      \* times the SDK accepted a message
    accepted        \* times a call was admitted on a challenge

guardVars == <<seen, sessions>>
peerVars  == <<pc, target, stamp, held>>
replyVars == <<ack, tct>>
callVars  == <<uses, answer, issuedTo, outstanding>>
histVars  == <<processed, accepted>>
vars == <<now, aid, guardVars, peerVars, replyVars, callVars, histVars>>

TypeOK ==
    /\ now \in 0..MaxTime /\ aid \in Aid
    /\ pc \in [Handshake -> {"idle", "hello", "commit", "done", "failed"}]
    /\ target \in [Handshake -> Aid \cup {None}]
    /\ stamp \in [Message -> Int \cup {None}]
    /\ held \in Handshake \cup {None}
    /\ ack \in [Handshake -> Aid \cup {None}]
    /\ tct \in [Handshake -> Aid \cup {None}]
    /\ seen \in [Message -> Int \cup {None}]
    /\ sessions \in [Handshake -> Aid \cup {None}]
    /\ uses \in [Call -> Handshake \cup {None}]
    /\ answer \in [Call -> Nonce \cup {None}]
    /\ issuedTo \in [Nonce -> Call \cup {None}]
    /\ outstanding \in [Nonce -> Int \cup {None}]
    /\ processed \in [Message -> Nat]
    /\ accepted \in [Nonce -> Nat]

------------------------------------------------------------------------------
(* handshake_replay.py.  Both sets keep an entry up to and including the   *)
(* instant it names.                                                       *)

\* Mutation of Pruned: an entry is dropped at the instant it names.
PrunedEarly(entries) ==
    [k \in DOMAIN entries |->
        IF entries[k] # None /\ entries[k] <= now THEN None ELSE entries[k]]

\* _prune, of either set.
Pruned(entries) ==
    [k \in DOMAIN entries |->
        IF entries[k] # None /\ entries[k] < now THEN None ELSE entries[k]]

Size(entries) == Cardinality({k \in DOMAIN entries : entries[k] # None})

InWindow(ts) == ts # None /\ ts - now \in (-Tolerance)..Tolerance

\* ReplayGuard.check refuses m, stamped ts: already seen, outside the window,
\* or the deny list is full.
Refused(m, ts) ==
    \/ Pruned(seen)[m] # None
    \/ ~InWindow(ts)
    \/ Size(Pruned(seen)) >= MaxSeen

\* Mutation of Admitted: the id is kept for a tolerance from its arrival.
AdmittedFromArrival(m, ts) ==
    /\ ~Refused(m, ts)
    /\ seen' = [Pruned(seen) EXCEPT ![m] = now + Tolerance]

\* ReplayGuard.check admits m, stamped ts, and notes it before the SDK runs.
Admitted(m, ts) ==
    /\ ~Refused(m, ts)
    /\ seen' = [Pruned(seen) EXCEPT ![m] = ts + Tolerance]

------------------------------------------------------------------------------
(* initiate_handshake, and the routes it talks to.                         *)

\* The peer's clock, when it signs an envelope.
PeerClock == {now + s : s \in Skew}

\* Fetch and verify the manifest, sign the HELLO and post it.
InitiateHandshake(h) ==
    /\ pc[h] = "idle"
    /\ pc' = [pc EXCEPT ![h] = "hello"]
    /\ target' = [target EXCEPT ![h] = aid]
    /\ \E t \in PeerClock : stamp' = [stamp EXCEPT ![<<h, "hello">>] = t]
    /\ UNCHANGED <<now, aid, guardVars, held, replyVars, callVars, histVars>>

\* A delivery of an envelope that was sent and arrives whole, or damaged so
\* that its timestamp reads differently or not at all: its signature then
\* fails.
Arrives(m, ts) == stamp[m] # None /\ (ts = stamp[m] \/ ts \in Damaged)

\* A delivery the replay guard refuses; it prunes the deny list first.
Replayed(m, ts) ==
    /\ Arrives(m, ts)
    /\ Refused(m, ts)
    /\ seen' = Pruned(seen)
    /\ UNCHANGED <<now, aid, sessions, peerVars, replyVars, callVars, histVars>>

\* hello: a responder under the current key; the SDK accepts the HELLO or
\* refuses it (untrusted peer, a damaged envelope).
Hello(h, ts) ==
    LET m == <<h, "hello">>
    IN  /\ Arrives(m, ts)
        /\ Admitted(m, ts)
        /\ \/ /\ ts = stamp[m]
              /\ processed' = [processed EXCEPT ![m] = @ + 1]
              /\ sessions' = [sessions EXCEPT ![h] = aid]
              /\ ack' = [ack EXCEPT ![h] = aid]
           \/ UNCHANGED <<processed, sessions, ack>>
        /\ UNCHANGED <<now, aid, peerVars, tct, callVars, accepted>>

\* The HELLO_ACK must be signed by the AID of the manifest; the COMMIT follows.
ReceiveHelloAck(h) ==
    /\ pc[h] = "hello" /\ ack[h] # None /\ ack[h] = target[h]
    /\ pc' = [pc EXCEPT ![h] = "commit"]
    /\ \E t \in PeerClock : stamp' = [stamp EXCEPT ![<<h, "commit">>] = t]
    /\ UNCHANGED <<now, aid, guardVars, target, held, replyVars, callVars, histVars>>

\* commit: the session is taken, whatever becomes of the COMMIT; without one
\* the answer is a 404.  Accepted, the COMMIT_ACK carries a TCT issued under
\* the responder's key.
Commit(h, ts) ==
    LET m == <<h, "commit">>
    IN  /\ Arrives(m, ts)
        /\ Admitted(m, ts)
        /\ sessions' = [sessions EXCEPT ![h] = None]
        /\ \/ /\ ts = stamp[m] /\ sessions[h] # None
              /\ processed' = [processed EXCEPT ![m] = @ + 1]
              /\ tct' = [tct EXCEPT ![h] = sessions[h]]
           \/ UNCHANGED <<processed, tct>>
        /\ UNCHANGED <<now, aid, peerVars, ack, callVars, accepted>>

\* The COMMIT_ACK arrives: the TCT replaces the one held for the peer's port.
CompleteHandshake(h) ==
    /\ pc[h] = "commit" /\ tct[h] # None
    /\ pc' = [pc EXCEPT ![h] = "done"]
    /\ held' = h
    /\ UNCHANGED <<now, aid, guardVars, target, stamp, replyVars, callVars, histVars>>

\* A refusal, a timeout, or a reply under another key: the attempt is over.
GiveUp(h) ==
    /\ pc[h] \in {"hello", "commit"}
    /\ pc' = [pc EXCEPT ![h] = "failed"]
    /\ UNCHANGED <<now, aid, guardVars, target, stamp, held, replyVars, callVars, histVars>>

\* Mutation of rotate_keys: the sessions under the old key are kept.
RotateKeepsSessions ==
    /\ aid < MaxAid
    /\ aid' = aid + 1
    /\ UNCHANGED <<now, guardVars, peerVars, replyVars, callVars, histVars>>

\* rotate_keys: a new AID; handshakes under way are dropped.
rotate_keys ==
    /\ aid < MaxAid
    /\ aid' = aid + 1
    /\ sessions' = [h \in Handshake |-> None]
    /\ UNCHANGED <<now, seen, peerVars, replyVars, callVars, histVars>>

------------------------------------------------------------------------------
(* invoke, and verify_capability_tct.                                      *)

\* A call with the TCT the peer holds.
Invoke(c) ==
    /\ uses[c] = None /\ held # None
    /\ uses' = [uses EXCEPT ![c] = held]
    /\ UNCHANGED <<now, aid, guardVars, peerVars, replyVars, answer, issuedTo,
                   outstanding, histVars>>

\* Mutation of IssuedByUs: any TCT the agent ever issued will do.
IssuedByUsOnce(c) == tct[uses[c]] # None

\* The issuer check, before anything is issued or consumed.
IssuedByUs(c) == tct[uses[c]] = aid

\* A request without a PoP response: the 401 carries a fresh challenge, and
\* the 429 of a full set does not.
Challenge(c) ==
    /\ uses[c] # None /\ IssuedByUs(c)
    /\ \/ /\ Size(Pruned(outstanding)) >= MaxOutstanding
          /\ outstanding' = Pruned(outstanding)
          /\ UNCHANGED issuedTo
       \/ /\ Size(Pruned(outstanding)) < MaxOutstanding
          /\ \E n \in Nonce :
                /\ issuedTo[n] = None
                /\ issuedTo' = [issuedTo EXCEPT ![n] = c]
                /\ outstanding' = [Pruned(outstanding) EXCEPT ![n] = now + Ttl]
    /\ UNCHANGED <<now, aid, guardVars, peerVars, replyVars, uses, answer, histVars>>

\* The challenge reaches the caller, which signs its answer, once, and resends.
AnswerChallenge(c) ==
    /\ uses[c] # None /\ answer[c] = None
    /\ \E n \in Nonce : issuedTo[n] = c /\ answer' = [answer EXCEPT ![c] = n]
    /\ UNCHANGED <<now, aid, guardVars, peerVars, replyVars, uses, issuedTo,
                   outstanding, histVars>>

\* Mutation of PopResponse: the challenge stays until it expires.
PopResponseKept(c) ==
    /\ answer[c] # None /\ IssuedByUs(c)
    /\ outstanding' = Pruned(outstanding)
    /\ IF Pruned(outstanding)[answer[c]] # None
       THEN accepted' = [accepted EXCEPT ![answer[c]] = @ + 1]
       ELSE UNCHANGED accepted
    /\ UNCHANGED <<now, aid, guardVars, peerVars, replyVars, uses, answer, issuedTo,
                   processed>>

\* A request with a PoP response: the challenge is consumed, then the SDK
\* verifies the answer and the TCT, and the call is admitted, or not.
PopResponse(c) ==
    /\ answer[c] # None /\ IssuedByUs(c)
    /\ outstanding' = [Pruned(outstanding) EXCEPT ![answer[c]] = None]
    /\ \/ /\ Pruned(outstanding)[answer[c]] # None
          /\ accepted' = [accepted EXCEPT ![answer[c]] = @ + 1]
       \/ UNCHANGED accepted
    /\ UNCHANGED <<now, aid, guardVars, peerVars, replyVars, uses, answer, issuedTo,
                   processed>>

------------------------------------------------------------------------------
Tick ==
    /\ now < MaxTime
    /\ now' = now + 1
    /\ UNCHANGED <<aid, guardVars, peerVars, replyVars, callVars, histVars>>

Init ==
    /\ now = 0 /\ aid = 1
    /\ pc = [h \in Handshake |-> "idle"]
    /\ target = [h \in Handshake |-> None]
    /\ stamp = [m \in Message |-> None]
    /\ held = None
    /\ ack = [h \in Handshake |-> None] /\ tct = [h \in Handshake |-> None]
    /\ seen = [m \in Message |-> None]
    /\ sessions = [h \in Handshake |-> None]
    /\ uses = [c \in Call |-> None] /\ answer = [c \in Call |-> None]
    /\ issuedTo = [n \in Nonce |-> None] /\ outstanding = [n \in Nonce |-> None]
    /\ processed = [m \in Message |-> 0] /\ accepted = [n \in Nonce |-> 0]

PeerStep(h) ==
    InitiateHandshake(h) \/ ReceiveHelloAck(h) \/ CompleteHandshake(h) \/ GiveUp(h)

Deliver(h) ==
    \E ts \in Damaged \cup {stamp[<<h, "hello">>], stamp[<<h, "commit">>]} :
        \/ Hello(h, ts) \/ Commit(h, ts)
        \/ Replayed(<<h, "hello">>, ts) \/ Replayed(<<h, "commit">>, ts)

CallStep(c) == Invoke(c) \/ Challenge(c) \/ AnswerChallenge(c) \/ PopResponse(c)

Next ==
    \/ \E h \in Handshake : PeerStep(h) \/ Deliver(h)
    \/ \E c \in Call : CallStep(c)
    \/ rotate_keys
    \/ Tick

Spec == Init /\ [][Next]_vars

------------------------------------------------------------------------------
(* Properties.                                                             *)

\* An envelope is signed once, as its attempt comes to it.
SentInOrder ==
    \A h \in Handshake :
        /\ pc[h] = "idle" => stamp[<<h, "hello">>] = None
        /\ pc[h] \in {"idle", "hello"} => stamp[<<h, "commit">>] = None

\* An envelope that took effect is on the deny list for as long as its
\* timestamp is inside the window (check, _prune: whatever the one forgets the
\* other refuses).
RememberedInWindow ==
    \A m \in Message :
        /\ processed[m] \in {0, 1}
        /\ processed[m] = 1 =>
              /\ stamp[m] # None
              /\ \/ stamp[m] + Tolerance < now
                 \/ seen[m] # None /\ seen[m] >= stamp[m] + Tolerance

\* A challenge on record was issued and has admitted nothing yet.
OutstandingIsUnused ==
    \A n \in Nonce :
        /\ accepted[n] \in {0, 1}
        /\ issuedTo[n] = None => outstanding[n] = None /\ accepted[n] = 0
        /\ outstanding[n] # None => accepted[n] = 0

\* Sessions are the current key's and TCTs come out of whole handshakes.
WholeHandshakes ==
    \A h \in Handshake :
        /\ sessions[h] # None =>
              sessions[h] = aid /\ processed[<<h, "hello">>] = 1
        /\ tct[h] # None =>
              processed[<<h, "hello">>] = 1 /\ processed[<<h, "commit">>] = 1

\* What the peer presents it got from the agent.
PresentedIsReal ==
    /\ held # None => tct[held] # None
    /\ \A c \in Call :
          /\ uses[c] # None => tct[uses[c]] # None
          /\ answer[c] # None => uses[c] # None /\ issuedTo[answer[c]] = c

\* Why an envelope and a challenge work once: the inductive invariant of the
\* handshake routes and of verify_capability_tct.
AdmissionInv ==
    /\ TypeOK /\ SentInOrder /\ RememberedInWindow /\ OutstandingIsUnused
    /\ WholeHandshakes /\ PresentedIsReal

\* An envelope takes effect at most once, whatever copies of it arrive, whole
\* or damaged, and whenever (ReplayGuard.check; "Admit envelope_json once").
MessagesOnce == INSTANCE OnceOnly WITH Item <- Message, times <- processed
EnvelopeOnce == MessagesOnce!Spec

\* A PoP challenge admits at most one call (PopChallenges.consume).
ChallengesOnce == INSTANCE OnceOnly WITH Item <- Nonce, times <- accepted
ChallengeOnce == ChallengesOnce!Spec

\* No handshake is completed under a key the agent has rotated away: a TCT is
\* issued by the AID of the moment (rotate_keys drops the sessions).
NoStaleIssuer == [][\A h \in Handshake : tct'[h] # tct[h] => tct'[h] = aid]_vars

\* A call is admitted only on a TCT of the agent's present AID, answering a
\* challenge issued to that very call no more than Ttl ago, and only after
\* both envelopes of the handshake took effect (verify_capability_tct).
AdmittedCallsAreSound ==
    [][\A n \in Nonce : accepted'[n] # accepted[n] =>
          \E c \in Call :
             /\ answer[c] = n /\ issuedTo[n] = c
             /\ tct[uses[c]] = aid
             /\ processed[<<uses[c], "hello">>] = 1
             /\ processed[<<uses[c], "commit">>] = 1
             /\ outstanding[n] # None /\ now <= outstanding[n]]_vars

==============================================================================
