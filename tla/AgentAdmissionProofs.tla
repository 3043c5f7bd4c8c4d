------------------------- MODULE AgentAdmissionProofs -------------------------
(***************************************************************************)
(* Proofs about AgentAdmission: for any number of handshakes, calls and    *)
(* challenges, any tolerance, lifetime and capacity, and any skew.         *)
(***************************************************************************)
EXTENDS AgentAdmission, TLAPS

------------------------------------------------------------------------------
(* The operators.                                                          *)

\* The envelopes of an attempt are messages, and tell it and the route apart.
LEMMA MessageFacts ==
    /\ \A h \in Handshake : <<h, "hello">> \in Message /\ <<h, "commit">> \in Message
    /\ \A g, h \in Handshake : <<g, "hello">> # <<h, "commit">>
    /\ \A g, h \in Handshake, k \in {"hello", "commit"} : <<g, k>> = <<h, k>> => g = h
    /\ \A m \in Message : \E h \in Handshake : m = <<h, "hello">> \/ m = <<h, "commit">>
  BY DEF Message

\* Counting one more of x.
LEMMA CountedFacts ==
    ASSUME NEW S, NEW f \in [S -> Nat], NEW x \in S
    PROVE  /\ [f EXCEPT ![x] = @ + 1] \in [S -> Nat]
           /\ [f EXCEPT ![x] = @ + 1][x] = f[x] + 1
           /\ \A y \in S : y # x => [f EXCEPT ![x] = @ + 1][y] = f[y]
  OBVIOUS

\* Pruning keeps exactly the entries that name the present or a later instant.
LEMMA PrunedFacts ==
    ASSUME NEW K, NEW e \in [K -> Int \cup {None}], now \in Int
    PROVE  /\ Pruned(e) \in [K -> Int \cup {None}]
           /\ \A k \in K : /\ Pruned(e)[k] # None => Pruned(e)[k] = e[k] /\ e[k] >= now
                           /\ Pruned(e)[k] = None => e[k] = None \/ e[k] < now
  BY AdmissionAssumption DEF Pruned

\* An envelope the guard admits is inside the window, and was not on the deny
\* list or could be forgotten.
LEMMA AdmittedFacts ==
    ASSUME TypeOK, NEW m \in Message, NEW ts \in Int \cup {None}, Admitted(m, ts)
    PROVE  /\ ts \in Int /\ now <= ts + Tolerance
           /\ seen[m] = None \/ seen[m] < now
           /\ seen' = [Pruned(seen) EXCEPT ![m] = ts + Tolerance]
           /\ seen' \in [Message -> Int \cup {None}]
  <1>1. now \in Int /\ Tolerance \in Int
    BY AdmissionAssumption DEF TypeOK
  <1>2. /\ Pruned(seen) \in [Message -> Int \cup {None}]
        /\ Pruned(seen)[m] = None
        /\ Pruned(seen)[m] = None => seen[m] = None \/ seen[m] < now
    BY <1>1, PrunedFacts DEF TypeOK, Admitted, Refused
  <1>3. ts \in Int /\ now <= ts + Tolerance
    BY <1>1 DEF Admitted, Refused, InWindow
  <1>4. QED
    BY <1>1, <1>2, <1>3 DEF Admitted

\* What may arrive has a timestamp, or none.
LEMMA ArrivesType ==
    ASSUME TypeOK, NEW m \in Message, NEW ts, Arrives(m, ts)
    PROVE  ts \in Int \cup {None} /\ stamp[m] \in Int
  BY AdmissionAssumption DEF Arrives, TypeOK

------------------------------------------------------------------------------
(* Types.                                                                  *)

\* The initial state has its types.
LEMMA TypeInit == Init => TypeOK
  BY AdmissionAssumption DEF Init, TypeOK, Aid

\* Every step keeps the types.
LEMMA TypeStep ==
    ASSUME TypeOK, [Next]_vars
    PROVE  TypeOK'
  <1> USE DEF TypeOK, guardVars, peerVars, replyVars, callVars, histVars
  <1>0. now \in Int /\ Ttl \in Int /\ \A s \in Skew : now + s \in Int
    BY AdmissionAssumption
  <1>1. ASSUME NEW h \in Handshake, InitiateHandshake(h) PROVE TypeOK'
    <2>1. PICK t \in PeerClock : stamp' = [stamp EXCEPT ![<<h, "hello">>] = t]
      BY <1>1 DEF InitiateHandshake
    <2>2. t \in Int
      BY <1>0 DEF PeerClock
    <2>3. stamp' \in [Message -> Int \cup {None}]
      BY <2>1, <2>2
    <2>4. QED BY <1>1, <2>3 DEF InitiateHandshake
  <1>2. ASSUME NEW h \in Handshake, ReceiveHelloAck(h) PROVE TypeOK'
    <2>1. PICK t \in PeerClock : stamp' = [stamp EXCEPT ![<<h, "commit">>] = t]
      BY <1>2 DEF ReceiveHelloAck
    <2>2. t \in Int
      BY <1>0 DEF PeerClock
    <2>3. stamp' \in [Message -> Int \cup {None}]
      BY <2>1, <2>2
    <2>4. QED BY <1>2, <2>3 DEF ReceiveHelloAck
  <1>3. ASSUME NEW h \in Handshake, CompleteHandshake(h) PROVE TypeOK'
    BY <1>3 DEF CompleteHandshake
  <1>4. ASSUME NEW h \in Handshake, GiveUp(h) PROVE TypeOK'
    BY <1>4 DEF GiveUp
  <1>5. ASSUME NEW h \in Handshake, NEW ts, Hello(h, ts) PROVE TypeOK'
    <2>1. seen' \in [Message -> Int \cup {None}]
      BY <1>5, MessageFacts, ArrivesType, AdmittedFacts DEF Hello
    <2>2. QED BY <1>5, <2>1, MessageFacts DEF Hello
  <1>6. ASSUME NEW h \in Handshake, NEW ts, Commit(h, ts) PROVE TypeOK'
    <2>1. seen' \in [Message -> Int \cup {None}]
      BY <1>6, MessageFacts, ArrivesType, AdmittedFacts DEF Commit
    <2>2. tct' \in [Handshake -> Aid \cup {None}]
      <3>1. tct' = tct \/ tct' = [tct EXCEPT ![h] = sessions[h]]
        BY <1>6 DEF Commit
      <3>2. sessions[h] \in Aid \cup {None}
        OBVIOUS
      <3>3. QED BY <3>1, <3>2
    <2>3. processed' \in [Message -> Nat]
      <3>1. \/ processed' = processed
            \/ processed' = [processed EXCEPT ![<<h, "commit">>] = @ + 1]
        BY <1>6 DEF Commit
      <3>2. processed \in [Message -> Nat] /\ <<h, "commit">> \in Message
        BY MessageFacts
      <3>3. [processed EXCEPT ![<<h, "commit">>] = @ + 1] \in [Message -> Nat]
        BY <3>2, CountedFacts, Zenon
      <3>4. QED BY <3>1, <3>2, <3>3, Zenon
    <2>4. /\ sessions' = [sessions EXCEPT ![h] = None]
          /\ UNCHANGED <<now, aid, peerVars, ack, callVars, accepted>>
      BY <1>6 DEF Commit
    <2>5. QED BY <2>1, <2>2, <2>3, <2>4
  <1>7. ASSUME NEW m \in Message, NEW ts, Replayed(m, ts) PROVE TypeOK'
    BY <1>0, <1>7, PrunedFacts DEF Replayed
  <1>8. CASE rotate_keys
    BY <1>8, AdmissionAssumption DEF rotate_keys, Aid
  <1>9. ASSUME NEW c \in Call, Invoke(c) PROVE TypeOK'
    BY <1>9 DEF Invoke
  <1>10. ASSUME NEW c \in Call, Challenge(c) PROVE TypeOK'
    <2>1. Pruned(outstanding) \in [Nonce -> Int \cup {None}]
      BY <1>0, PrunedFacts
    <2>2. QED BY <1>0, <1>10, <2>1 DEF Challenge
  <1>11. ASSUME NEW c \in Call, AnswerChallenge(c) PROVE TypeOK'
    BY <1>11 DEF AnswerChallenge
  <1>12. ASSUME NEW c \in Call, PopResponse(c) PROVE TypeOK'
    <2>1. Pruned(outstanding) \in [Nonce -> Int \cup {None}]
      BY <1>0, PrunedFacts
    <2>2. QED BY <1>12, <2>1 DEF PopResponse
  <1>13. CASE Tick
    BY <1>13, AdmissionAssumption DEF Tick
  <1>14. CASE UNCHANGED vars
    BY <1>14 DEF vars
  <1>15. QED
    BY <1>1, <1>2, <1>3, <1>4, <1>5, <1>6, <1>7, <1>8, <1>9, <1>10, <1>11, <1>12,
       <1>13, <1>14, MessageFacts DEF Next, PeerStep, Deliver, CallStep

------------------------------------------------------------------------------
(* The inductive invariant.                                                *)

\* The initial state satisfies it.
LEMMA InvInit == Init => AdmissionInv
  <1> SUFFICES ASSUME Init PROVE AdmissionInv
    OBVIOUS
  <1>1. TypeOK
    BY TypeInit
  <1>2. SentInOrder /\ RememberedInWindow
    BY MessageFacts DEF Init, SentInOrder, RememberedInWindow
  <1>3. OutstandingIsUnused /\ WholeHandshakes /\ PresentedIsReal
    BY DEF Init, OutstandingIsUnused, WholeHandshakes, PresentedIsReal
  <1>4. QED BY <1>1, <1>2, <1>3 DEF AdmissionInv

\* Signing an envelope that had not been signed forgets nothing.
LEMMA SigningKeepsMemory ==
    ASSUME TypeOK, RememberedInWindow, NEW m \in Message, NEW t, stamp[m] = None,
           stamp' = [stamp EXCEPT ![m] = t], UNCHANGED <<now, seen, processed>>
    PROVE  RememberedInWindow'
  <1> SUFFICES ASSUME NEW x \in Message
               PROVE  /\ processed[x] \in {0, 1}
                      /\ processed[x] = 1 =>
                           /\ stamp'[x] # None
                           /\ \/ stamp'[x] + Tolerance < now
                              \/ seen[x] # None /\ seen[x] >= stamp'[x] + Tolerance
    BY DEF RememberedInWindow
  <1>1. CASE x = m
    BY <1>1 DEF RememberedInWindow
  <1>2. CASE x # m
    <2>1. stamp'[x] = stamp[x]
      BY <1>2 DEF TypeOK
    <2>2. QED BY <2>1 DEF RememberedInWindow
  <1>3. QED BY <1>1, <1>2

\* Pruning the deny list forgets only envelopes the window refuses.
LEMMA PruningKeepsMemory ==
    ASSUME TypeOK, RememberedInWindow, NEW x \in Message, processed[x] = 1
    PROVE  /\ stamp[x] # None
           /\ \/ stamp[x] + Tolerance < now
              \/ /\ Pruned(seen)[x] # None
                 /\ Pruned(seen)[x] >= stamp[x] + Tolerance
  <1>1. now \in Int /\ Tolerance \in Int /\ stamp[x] \in Int
    BY AdmissionAssumption DEF TypeOK, RememberedInWindow
  <1>2. /\ Pruned(seen)[x] # None => Pruned(seen)[x] = seen[x] /\ seen[x] >= now
        /\ Pruned(seen)[x] = None => seen[x] = None \/ seen[x] < now
    BY <1>1, PrunedFacts DEF TypeOK
  <1>3. \/ stamp[x] + Tolerance < now
        \/ seen[x] # None /\ seen[x] >= stamp[x] + Tolerance
    BY DEF RememberedInWindow
  <1>4. seen[x] \in Int \cup {None}
    BY DEF TypeOK
  <1>5. QED BY <1>1, <1>2, <1>3, <1>4, AdmissionAssumption

\* A delivery the guard admits: what the SDK accepts it had not accepted before.
LEMMA DeliveryKeepsMemory ==
    ASSUME TypeOK, RememberedInWindow, NEW m \in Message, NEW ts,
           Arrives(m, ts), Admitted(m, ts), UNCHANGED <<now, stamp>>,
           \/ processed' = processed
           \/ ts = stamp[m] /\ processed' = [processed EXCEPT ![m] = @ + 1]
    PROVE  /\ RememberedInWindow'
           /\ processed' # processed => processed[m] = 0 /\ processed'[m] = 1
  <1>1. /\ ts \in Int /\ now <= ts + Tolerance
        /\ seen[m] = None \/ seen[m] < now
        /\ seen' = [Pruned(seen) EXCEPT ![m] = ts + Tolerance]
    BY ArrivesType, AdmittedFacts
  <1>2. /\ now \in Int /\ Tolerance \in Int /\ stamp[m] \in Int
        /\ seen[m] \in Int \cup {None} /\ None \notin Int
    BY AdmissionAssumption, ArrivesType DEF TypeOK
  <1>3. Pruned(seen) \in [Message -> Int \cup {None}]
    BY <1>2, PrunedFacts DEF TypeOK
  <1>4. seen'[m] = ts + Tolerance /\ seen'[m] # None
    BY <1>1, <1>2, <1>3
  <1>5. processed[m] = 1 => stamp[m] + Tolerance < now
    BY <1>1, <1>2 DEF RememberedInWindow
  <1>6. processed \in [Message -> Nat] /\ processed[m] \in {0, 1}
    BY DEF TypeOK, RememberedInWindow
  <1>7. ASSUME processed' # processed
        PROVE  /\ ts = stamp[m] /\ processed[m] = 0 /\ processed'[m] = 1
               /\ \A y \in Message : y # m => processed'[y] = processed[y]
    <2>1. ts = stamp[m] /\ processed' = [processed EXCEPT ![m] = @ + 1]
      BY <1>7
    <2>2. processed[m] = 0
      BY <1>1, <1>2, <1>5, <1>6, <2>1
    <2>3. processed'[m] = processed[m] + 1
      BY <1>6, <2>1, CountedFacts
    <2>4. \A y \in Message : y # m => processed'[y] = processed[y]
      BY <1>6, <2>1, CountedFacts
    <2>5. QED BY <2>1, <2>2, <2>3, <2>4
  <1>8. ASSUME NEW x \in Message
        PROVE  /\ processed'[x] \in {0, 1}
               /\ processed'[x] = 1 =>
                    /\ stamp[x] # None
                    /\ \/ stamp[x] + Tolerance < now
                       \/ seen'[x] # None /\ seen'[x] >= stamp[x] + Tolerance
    <2>1. CASE x = m /\ processed' = processed
      BY <2>1, <1>2, <1>5, <1>6
    <2>2. CASE x = m /\ processed' # processed
      BY <2>2, <1>1, <1>2, <1>4, <1>7
    <2>3. CASE x # m
      <3>1. seen'[x] = Pruned(seen)[x]
        BY <2>3, <1>1, <1>3
      <3>2. processed'[x] = processed[x]
        BY <2>3, <1>7
      <3>3. processed[x] \in {0, 1}
        BY DEF RememberedInWindow
      <3>4. QED BY <3>1, <3>2, <3>3, PruningKeepsMemory
    <2>4. QED BY <2>1, <2>2, <2>3
  <1>9. RememberedInWindow'
    BY <1>8 DEF RememberedInWindow
  <1>10. QED BY <1>7, <1>9

\* The handshake's half of the invariant, step by step.
LEMMA HandshakeStep ==
    ASSUME AdmissionInv, [Next]_vars
    PROVE  SentInOrder' /\ RememberedInWindow' /\ WholeHandshakes'
  <1> DEFINE Kept == SentInOrder' /\ RememberedInWindow' /\ WholeHandshakes'
  <1> USE DEF AdmissionInv, guardVars, peerVars, replyVars, callVars, histVars
  <1>0. TypeOK /\ SentInOrder /\ RememberedInWindow /\ WholeHandshakes
    OBVIOUS
  <1>1. ASSUME NEW h \in Handshake, InitiateHandshake(h) PROVE Kept
    <2>1. PICK t \in PeerClock : stamp' = [stamp EXCEPT ![<<h, "hello">>] = t]
      BY <1>1 DEF InitiateHandshake
    <2>2. stamp[<<h, "hello">>] = None /\ <<h, "hello">> \in Message
      BY <1>1, MessageFacts DEF InitiateHandshake, SentInOrder
    <2>3. RememberedInWindow'
      BY <1>1, <2>1, <2>2, SigningKeepsMemory DEF InitiateHandshake
    <2>4. \A g \in Handshake : /\ g # h => stamp'[<<g, "hello">>] = stamp[<<g, "hello">>]
                               /\ stamp'[<<g, "commit">>] = stamp[<<g, "commit">>]
      BY <2>1, <2>2, MessageFacts DEF TypeOK
    <2>5. pc' = [pc EXCEPT ![h] = "hello"] /\ pc[h] = "idle" /\ h \in DOMAIN pc
      BY <1>1 DEF InitiateHandshake, TypeOK
    <2>6. SentInOrder'
      BY <2>4, <2>5 DEF SentInOrder, TypeOK
    <2>7. WholeHandshakes'
      BY <1>1 DEF InitiateHandshake, WholeHandshakes
    <2>8. QED BY <2>3, <2>6, <2>7
  <1>2. ASSUME NEW h \in Handshake, ReceiveHelloAck(h) PROVE Kept
    <2>1. PICK t \in PeerClock : stamp' = [stamp EXCEPT ![<<h, "commit">>] = t]
      BY <1>2 DEF ReceiveHelloAck
    <2>2. stamp[<<h, "commit">>] = None /\ <<h, "commit">> \in Message
      BY <1>2, MessageFacts DEF ReceiveHelloAck, SentInOrder
    <2>3. RememberedInWindow'
      BY <1>2, <2>1, <2>2, SigningKeepsMemory DEF ReceiveHelloAck
    <2>4. \A g \in Handshake : /\ g # h => stamp'[<<g, "commit">>] = stamp[<<g, "commit">>]
                               /\ stamp'[<<g, "hello">>] = stamp[<<g, "hello">>]
      BY <2>1, <2>2, MessageFacts DEF TypeOK
    <2>5. pc' = [pc EXCEPT ![h] = "commit"]
      BY <1>2 DEF ReceiveHelloAck
    <2>6. SentInOrder'
      BY <2>4, <2>5 DEF SentInOrder, TypeOK
    <2>7. WholeHandshakes'
      BY <1>2 DEF ReceiveHelloAck, WholeHandshakes
    <2>8. QED BY <2>3, <2>6, <2>7
  <1>3. ASSUME NEW h \in Handshake, CompleteHandshake(h) \/ GiveUp(h) PROVE Kept
    <2>1. /\ pc' = [pc EXCEPT ![h] = "done"] \/ pc' = [pc EXCEPT ![h] = "failed"]
          /\ UNCHANGED <<now, aid, stamp, seen, sessions, processed, tct>>
      BY <1>3 DEF CompleteHandshake, GiveUp
    <2>2. SentInOrder'
      BY <2>1 DEF SentInOrder, TypeOK
    <2>3. RememberedInWindow' /\ WholeHandshakes'
      BY <2>1 DEF RememberedInWindow, WholeHandshakes
    <2>4. QED BY <2>2, <2>3
  <1>4. ASSUME NEW h \in Handshake, NEW ts, Hello(h, ts) PROVE Kept
    <2> DEFINE m == <<h, "hello">>
    <2>1. m \in Message
      BY MessageFacts
    <2>2. /\ Arrives(m, ts) /\ Admitted(m, ts)
          /\ UNCHANGED <<now, aid, pc, stamp, tct>>
          /\ \/ /\ ts = stamp[m] /\ processed' = [processed EXCEPT ![m] = @ + 1]
                /\ sessions' = [sessions EXCEPT ![h] = aid]
             \/ processed' = processed /\ sessions' = sessions
      BY <1>4 DEF Hello
    <2>3. /\ RememberedInWindow'
          /\ processed' # processed => processed[m] = 0 /\ processed'[m] = 1
      BY <2>1, <2>2, DeliveryKeepsMemory
    <2>4. SentInOrder'
      BY <2>2 DEF SentInOrder
    <2>5. CASE processed' = processed /\ sessions' = sessions
      BY <2>2, <2>3, <2>4, <2>5 DEF WholeHandshakes
    <2>6. CASE /\ processed' = [processed EXCEPT ![m] = @ + 1]
               /\ sessions' = [sessions EXCEPT ![h] = aid]
      <3>1. processed \in [Message -> Nat] /\ sessions \in [Handshake -> Aid \cup {None}]
        BY DEF TypeOK
      <3>2. /\ processed'[m] = processed[m] + 1
            /\ \A y \in Message : y # m => processed'[y] = processed[y]
        BY <2>1, <2>6, <3>1, CountedFacts
      <3>3. processed'[m] = 1
        <4>1. processed[m] \in Nat
          BY <2>1, <3>1
        <4>2. processed' # processed
          BY <3>2, <4>1
        <4>3. QED BY <2>3, <4>2
      <3>4. ASSUME NEW g \in Handshake
            PROVE  /\ sessions'[g] # None => sessions'[g] = aid /\ processed'[<<g, "hello">>] = 1
                   /\ tct[g] # None => /\ processed'[<<g, "hello">>] = 1
                                       /\ processed'[<<g, "commit">>] = 1
        <4>1. processed'[<<g, "commit">>] = processed[<<g, "commit">>]
          BY <3>2, MessageFacts
        <4>2. CASE g = h
          <5>1. processed'[<<g, "hello">>] = 1 /\ sessions'[g] = aid
            BY <2>6, <3>1, <3>3, <4>2
          <5>2. QED BY <4>1, <5>1 DEF WholeHandshakes
        <4>3. CASE g # h
          <5>1. processed'[<<g, "hello">>] = processed[<<g, "hello">>]
            BY <3>2, <4>3, MessageFacts
          <5>2. sessions'[g] = sessions[g]
            BY <2>6, <3>1, <4>3
          <5>3. QED BY <4>1, <5>1, <5>2 DEF WholeHandshakes
        <4>4. QED BY <4>2, <4>3
      <3>5. WholeHandshakes'
        BY <2>2, <3>4 DEF WholeHandshakes
      <3>6. QED BY <2>3, <2>4, <3>5
    <2>7. QED BY <2>2, <2>5, <2>6
  <1>5. ASSUME NEW h \in Handshake, NEW ts, Commit(h, ts) PROVE Kept
    <2> DEFINE m == <<h, "commit">>
    <2>1. m \in Message
      BY MessageFacts
    <2>2. /\ Arrives(m, ts) /\ Admitted(m, ts)
          /\ UNCHANGED <<now, aid, pc, stamp>>
          /\ sessions' = [sessions EXCEPT ![h] = None]
          /\ \/ /\ ts = stamp[m] /\ processed' = [processed EXCEPT ![m] = @ + 1]
                /\ sessions[h] # None
                /\ tct' = [tct EXCEPT ![h] = sessions[h]]
             \/ processed' = processed /\ tct' = tct
      BY <1>5 DEF Commit
    <2>3. /\ RememberedInWindow'
          /\ processed' # processed => processed[m] = 0 /\ processed'[m] = 1
      BY <2>1, <2>2, DeliveryKeepsMemory
    <2>4. SentInOrder'
      BY <2>2 DEF SentInOrder
    <2>5. \A g \in Handshake : sessions'[g] # None => g # h /\ sessions'[g] = sessions[g]
      BY <2>2 DEF TypeOK
    <2>6. CASE processed' = processed /\ tct' = tct
      BY <2>2, <2>3, <2>4, <2>5, <2>6 DEF WholeHandshakes
    <2>7. CASE /\ processed' = [processed EXCEPT ![m] = @ + 1]
               /\ sessions[h] # None
               /\ tct' = [tct EXCEPT ![h] = sessions[h]]
      <3>1. processed \in [Message -> Nat] /\ tct \in [Handshake -> Aid \cup {None}]
        BY DEF TypeOK
      <3>2. /\ processed'[m] = processed[m] + 1
            /\ \A y \in Message : y # m => processed'[y] = processed[y]
        BY <2>1, <2>7, <3>1, CountedFacts
      <3>3. processed'[m] = 1
        <4>1. processed[m] \in Nat
          BY <2>1, <3>1
        <4>2. processed' # processed
          BY <3>2, <4>1
        <4>3. QED BY <2>3, <4>2
      <3>4. ASSUME NEW g \in Handshake
            PROVE  /\ sessions'[g] # None => sessions'[g] = aid /\ processed'[<<g, "hello">>] = 1
                   /\ tct'[g] # None => /\ processed'[<<g, "hello">>] = 1
                                        /\ processed'[<<g, "commit">>] = 1
        <4>1. processed'[<<g, "hello">>] = processed[<<g, "hello">>]
          BY <3>2, MessageFacts
        <4>2. CASE g = h
          <5>1. processed[<<h, "hello">>] = 1
            BY <2>7 DEF WholeHandshakes
          <5>2. QED BY <2>5, <3>3, <4>1, <4>2, <5>1
        <4>3. CASE g # h
          <5>1. processed'[<<g, "commit">>] = processed[<<g, "commit">>]
            BY <3>2, <4>3, MessageFacts
          <5>2. tct'[g] = tct[g]
            BY <2>7, <3>1, <4>3
          <5>3. QED BY <2>5, <4>1, <5>1, <5>2 DEF WholeHandshakes
        <4>4. QED BY <4>2, <4>3
      <3>5. WholeHandshakes'
        BY <2>2, <3>4 DEF WholeHandshakes
      <3>6. QED BY <2>3, <2>4, <3>5
    <2>8. QED BY <2>2, <2>6, <2>7
  <1>6. ASSUME NEW m \in Message, NEW ts, Replayed(m, ts) PROVE Kept
    <2>1. /\ seen' = Pruned(seen)
          /\ UNCHANGED <<now, aid, pc, stamp, sessions, processed, tct>>
      BY <1>6 DEF Replayed
    <2>2. RememberedInWindow'
      BY <2>1, PruningKeepsMemory DEF RememberedInWindow
    <2>3. SentInOrder' /\ WholeHandshakes'
      BY <2>1 DEF SentInOrder, WholeHandshakes
    <2>4. QED BY <2>2, <2>3
  <1>7. CASE rotate_keys
    <2>1. SentInOrder' /\ RememberedInWindow'
      BY <1>7 DEF rotate_keys, SentInOrder, RememberedInWindow
    <2>2. WholeHandshakes'
      BY <1>7 DEF rotate_keys, WholeHandshakes
    <2>3. QED BY <2>1, <2>2
  <1>8. CASE Tick
    <2>1. now \in Int /\ now' = now + 1 /\ Tolerance \in Int
          /\ UNCHANGED <<aid, pc, stamp, seen, sessions, processed, tct>>
      BY <1>8, AdmissionAssumption DEF Tick, TypeOK
    <2>2. ASSUME NEW x \in Message, processed[x] = 1
          PROVE  /\ stamp[x] # None
                 /\ \/ stamp[x] + Tolerance < now'
                    \/ seen[x] # None /\ seen[x] >= stamp[x] + Tolerance
      BY <2>1, <2>2, AdmissionAssumption DEF RememberedInWindow, TypeOK
    <2>3. RememberedInWindow'
      BY <2>1, <2>2 DEF RememberedInWindow
    <2>4. SentInOrder' /\ WholeHandshakes'
      BY <2>1 DEF SentInOrder, WholeHandshakes
    <2>5. QED BY <2>3, <2>4
  <1>9. ASSUME UNCHANGED <<now, aid, pc, stamp, seen, sessions, processed, tct>>
        PROVE  Kept
    BY <1>9 DEF SentInOrder, RememberedInWindow, WholeHandshakes
  <1>10. ASSUME NEW c \in Call, CallStep(c) PROVE Kept
    BY <1>9, <1>10 DEF CallStep, Invoke, Challenge, AnswerChallenge, PopResponse
  <1>11. CASE UNCHANGED vars
    BY <1>9, <1>11 DEF vars
  <1>12. QED
    BY <1>1, <1>2, <1>3, <1>4, <1>5, <1>6, <1>7, <1>8, <1>10, <1>11, MessageFacts
    DEF Next, PeerStep, Deliver

\* What an admitted call does to the challenges: its own is gone, and had
\* admitted nothing.
LEMMA PopResponseFacts ==
    ASSUME AdmissionInv, NEW c \in Call, PopResponse(c)
    PROVE  LET n == answer[c]
           IN  /\ n \in Nonce /\ issuedTo[n] = c /\ uses[c] # None /\ tct[uses[c]] = aid
               /\ outstanding'[n] = None
               /\ \A x \in Nonce : outstanding'[x] # None => outstanding'[x] = outstanding[x]
               /\ \/ accepted' = accepted
                  \/ /\ outstanding[n] # None /\ now <= outstanding[n]
                     /\ accepted[n] = 0
                     /\ accepted' = [accepted EXCEPT ![n] = 1]
  <1> DEFINE n == answer[c]
  <1>1. n \in Nonce /\ issuedTo[n] = c /\ uses[c] # None /\ tct[uses[c]] = aid
    BY DEF AdmissionInv, PresentedIsReal, PopResponse, IssuedByUs, TypeOK
  <1>2. now \in Int /\ outstanding \in [Nonce -> Int \cup {None}] /\ None \notin Int
    BY AdmissionAssumption DEF AdmissionInv, TypeOK
  <1>3. /\ Pruned(outstanding) \in [Nonce -> Int \cup {None}]
        /\ \A k \in Nonce : Pruned(outstanding)[k] # None =>
              Pruned(outstanding)[k] = outstanding[k] /\ outstanding[k] >= now
    BY <1>2, PrunedFacts
  <1>4. outstanding' = [Pruned(outstanding) EXCEPT ![n] = None]
    BY DEF PopResponse
  <1>5. /\ outstanding'[n] = None
        /\ \A x \in Nonce : outstanding'[x] # None => outstanding'[x] = outstanding[x]
    BY <1>1, <1>3, <1>4
  <1>6. ASSUME accepted' # accepted
        PROVE  /\ outstanding[n] # None /\ now <= outstanding[n]
               /\ accepted[n] = 0
               /\ accepted' = [accepted EXCEPT ![n] = 1]
    <2>1. /\ Pruned(outstanding)[n] # None
          /\ accepted' = [accepted EXCEPT ![n] = @ + 1]
      BY <1>6 DEF PopResponse
    <2>2. outstanding[n] # None /\ now <= outstanding[n]
      BY <1>1, <1>2, <1>3, <2>1
    <2>3. accepted[n] = 0
      BY <1>1, <2>2 DEF AdmissionInv, OutstandingIsUnused
    <2>4. QED BY <2>1, <2>2, <2>3
  <1>7. QED BY <1>1, <1>5, <1>6

\* The calls' half of the invariant, step by step.
LEMMA CallHalfStep ==
    ASSUME AdmissionInv, [Next]_vars
    PROVE  OutstandingIsUnused' /\ PresentedIsReal'
  <1> DEFINE Kept == OutstandingIsUnused' /\ PresentedIsReal'
  <1> USE DEF AdmissionInv, guardVars, peerVars, replyVars, callVars, histVars
  <1>0. TypeOK /\ OutstandingIsUnused /\ PresentedIsReal
    OBVIOUS
  <1>1. ASSUME UNCHANGED <<held, tct, uses, answer, issuedTo, outstanding, accepted>>
        PROVE  Kept
    BY <1>0, <1>1 DEF OutstandingIsUnused, PresentedIsReal
  <1>2. ASSUME NEW h \in Handshake, CompleteHandshake(h) PROVE Kept
    BY <1>0, <1>2 DEF CompleteHandshake, OutstandingIsUnused, PresentedIsReal
  <1>3. ASSUME NEW h \in Handshake, NEW ts, Commit(h, ts) PROVE Kept
    <2>1. /\ UNCHANGED <<held, uses, answer, issuedTo, outstanding, accepted>>
          /\ \/ tct' = tct
             \/ sessions[h] # None /\ tct' = [tct EXCEPT ![h] = sessions[h]]
      BY <1>3 DEF Commit
    <2>2. \A g \in Handshake : tct[g] # None => tct'[g] # None
      BY <2>1 DEF TypeOK
    <2>3. OutstandingIsUnused'
      BY <1>0, <2>1 DEF OutstandingIsUnused
    <2>4. /\ held # None => held \in Handshake
          /\ \A c \in Call : uses[c] # None => uses[c] \in Handshake
      BY <1>0 DEF TypeOK
    <2>5. PresentedIsReal'
      BY <1>0, <2>1, <2>2, <2>4 DEF PresentedIsReal
    <2>6. QED BY <2>3, <2>5
  <1>4. ASSUME NEW c \in Call, Invoke(c) PROVE Kept
    <2>1. /\ uses' = [uses EXCEPT ![c] = held] /\ held # None
          /\ UNCHANGED <<held, tct, answer, issuedTo, outstanding, accepted>>
      BY <1>4 DEF Invoke
    <2>2. \A d \in Call : uses'[d] = IF d = c THEN held ELSE uses[d]
      BY <1>0, <2>1 DEF TypeOK
    <2>3. OutstandingIsUnused'
      BY <1>0, <2>1 DEF OutstandingIsUnused
    <2>4. PresentedIsReal'
      BY <1>0, <2>1, <2>2 DEF PresentedIsReal
    <2>5. QED BY <2>3, <2>4
  <1>5. ASSUME NEW c \in Call, Challenge(c) PROVE Kept
    <2>1. now \in Int /\ Ttl \in Int /\ outstanding \in [Nonce -> Int \cup {None}]
      BY <1>0, AdmissionAssumption DEF TypeOK
    <2>2. /\ Pruned(outstanding) \in [Nonce -> Int \cup {None}]
          /\ \A k \in Nonce : Pruned(outstanding)[k] # None =>
                Pruned(outstanding)[k] = outstanding[k] /\ outstanding[k] >= now
      BY <2>1, PrunedFacts
    <2>3. UNCHANGED <<held, tct, uses, answer, accepted>>
      BY <1>5 DEF Challenge
    <2>4. CASE outstanding' = Pruned(outstanding) /\ issuedTo' = issuedTo
      <3>1. OutstandingIsUnused'
        BY <1>0, <2>2, <2>3, <2>4 DEF OutstandingIsUnused
      <3>2. PresentedIsReal'
        BY <1>0, <2>3, <2>4 DEF PresentedIsReal
      <3>3. QED BY <3>1, <3>2
    <2>5. CASE \E n \in Nonce :
                 /\ issuedTo[n] = None
                 /\ issuedTo' = [issuedTo EXCEPT ![n] = c]
                 /\ outstanding' = [Pruned(outstanding) EXCEPT ![n] = now + Ttl]
      <3>1. PICK n \in Nonce :
                 /\ issuedTo[n] = None
                 /\ issuedTo' = [issuedTo EXCEPT ![n] = c]
                 /\ outstanding' = [Pruned(outstanding) EXCEPT ![n] = now + Ttl]
        BY <2>5
      <3>2. \A k \in Nonce : k # n => /\ issuedTo'[k] = issuedTo[k]
                                      /\ outstanding'[k] = Pruned(outstanding)[k]
        BY <1>0, <2>2, <3>1 DEF TypeOK
      <3>3. issuedTo'[n] = c /\ accepted[n] = 0
        BY <1>0, <3>1 DEF TypeOK, OutstandingIsUnused
      <3>4. c # None
        BY CallAssumption
      <3>5. ASSUME NEW k \in Nonce
            PROVE  /\ accepted[k] \in {0, 1}
                   /\ issuedTo'[k] = None => outstanding'[k] = None /\ accepted[k] = 0
                   /\ outstanding'[k] # None => accepted[k] = 0
        <4>1. CASE k = n
          BY <3>3, <3>4, <4>1
        <4>2. CASE k # n
          BY <1>0, <2>2, <3>2, <4>2 DEF OutstandingIsUnused
        <4>3. QED BY <4>1, <4>2
      <3>6. OutstandingIsUnused'
        BY <2>3, <3>5 DEF OutstandingIsUnused
      <3>7. \A d \in Call : answer[d] # None => answer[d] \in Nonce /\ answer[d] # n
        BY <1>0, <3>1, CallAssumption DEF TypeOK, PresentedIsReal
      <3>8. PresentedIsReal'
        BY <1>0, <2>3, <3>2, <3>7 DEF PresentedIsReal
      <3>9. QED BY <3>6, <3>8
    <2>6. QED BY <1>5, <2>4, <2>5 DEF Challenge
  <1>6. ASSUME NEW c \in Call, AnswerChallenge(c) PROVE Kept
    <2>1. PICK n \in Nonce : issuedTo[n] = c /\ answer' = [answer EXCEPT ![c] = n]
      BY <1>6 DEF AnswerChallenge
    <2>2. uses[c] # None /\ UNCHANGED <<held, tct, uses, issuedTo, outstanding, accepted>>
      BY <1>6 DEF AnswerChallenge
    <2>3. \A d \in Call : answer'[d] = IF d = c THEN n ELSE answer[d]
      BY <1>0, <2>1 DEF TypeOK
    <2>4. PresentedIsReal'
      BY <1>0, <2>1, <2>2, <2>3 DEF PresentedIsReal
    <2>5. OutstandingIsUnused'
      BY <1>0, <2>2 DEF OutstandingIsUnused
    <2>6. QED BY <2>4, <2>5
  <1>7. ASSUME NEW c \in Call, PopResponse(c) PROVE Kept
    <2>1. UNCHANGED <<held, tct, uses, answer, issuedTo>>
      BY <1>7 DEF PopResponse
    <2>2. PresentedIsReal'
      BY <1>0, <2>1 DEF PresentedIsReal
    <2> DEFINE n == answer[c]
    <2>3. /\ n \in Nonce /\ issuedTo[n] = c
          /\ outstanding'[n] = None
          /\ \A x \in Nonce : outstanding'[x] # None => outstanding'[x] = outstanding[x]
          /\ accepted' = accepted \/ accepted' = [accepted EXCEPT ![n] = 1]
      BY <1>7, PopResponseFacts
    <2>4. \A x \in Nonce : x # n => accepted'[x] = accepted[x]
      BY <1>0, <2>3 DEF TypeOK
    <2>5. accepted'[n] \in {0, 1}
      BY <1>0, <2>3 DEF TypeOK, OutstandingIsUnused
    <2>6. ASSUME NEW x \in Nonce
          PROVE  /\ accepted'[x] \in {0, 1}
                 /\ issuedTo[x] = None => outstanding'[x] = None /\ accepted'[x] = 0
                 /\ outstanding'[x] # None => accepted'[x] = 0
      <3>1. CASE x = n
        BY <2>3, <2>5, <3>1, CallAssumption
      <3>2. CASE x # n
        BY <1>0, <2>3, <2>4, <3>2 DEF OutstandingIsUnused
      <3>3. QED BY <3>1, <3>2
    <2>7. OutstandingIsUnused'
      BY <2>1, <2>6 DEF OutstandingIsUnused
    <2>8. QED BY <2>2, <2>7
  <1>8. ASSUME NEW h \in Handshake, InitiateHandshake(h) \/ ReceiveHelloAck(h) \/ GiveUp(h)
        PROVE  Kept
    BY <1>1, <1>8 DEF InitiateHandshake, ReceiveHelloAck, GiveUp
  <1>9. ASSUME NEW h \in Handshake, NEW ts, Hello(h, ts) PROVE Kept
    BY <1>1, <1>9 DEF Hello
  <1>10. ASSUME NEW m \in Message, NEW ts, Replayed(m, ts) PROVE Kept
    BY <1>1, <1>10 DEF Replayed
  <1>11. CASE rotate_keys \/ Tick \/ UNCHANGED vars
    BY <1>1, <1>11 DEF rotate_keys, Tick, vars
  <1>12. QED
    BY <1>2, <1>3, <1>4, <1>5, <1>6, <1>7, <1>8, <1>9, <1>10, <1>11, MessageFacts
    DEF Next, PeerStep, Deliver, CallStep

------------------------------------------------------------------------------
(* The theorems.                                                           *)

\* Why an envelope and a challenge work once holds in every reachable state of
\* the handshake routes and of verify_capability_tct.
THEOREM AdmissionInvariant == Spec => []AdmissionInv
  <1>1. AdmissionInv /\ [Next]_vars => AdmissionInv'
    <2> SUFFICES ASSUME AdmissionInv, [Next]_vars PROVE AdmissionInv'
      OBVIOUS
    <2>1. TypeOK'
      BY TypeStep DEF AdmissionInv
    <2>2. QED BY <2>1, HandshakeStep, CallHalfStep DEF AdmissionInv
  <1>2. QED BY <1>1, InvInit, PTL DEF Spec

\* However many copies of an envelope arrive, damaged or late, it takes effect
\* at most once: check and _prune implement OnceOnly.
THEOREM EnvelopesOnce == Spec => EnvelopeOnce
  <1>1. Init => MessagesOnce!Init
    BY DEF Init, MessagesOnce!Init
  <1>2. AdmissionInv /\ [Next]_vars => [MessagesOnce!Next]_processed
    <2> SUFFICES ASSUME AdmissionInv, [Next]_vars, processed' # processed
                 PROVE  MessagesOnce!Next
      OBVIOUS
    <2>1. PICK h \in Handshake : \E ts : Hello(h, ts) \/ Commit(h, ts)
      BY DEF Next, PeerStep, Deliver, CallStep, InitiateHandshake, ReceiveHelloAck,
             CompleteHandshake, GiveUp, Replayed, rotate_keys, Invoke, Challenge,
             AnswerChallenge, PopResponse, Tick, vars, histVars
    <2>2. PICK ts : Hello(h, ts) \/ Commit(h, ts)
      BY <2>1
    <2>3. PICK m \in Message :
              /\ Arrives(m, ts) /\ Admitted(m, ts) /\ UNCHANGED <<now, stamp>>
              /\ ts = stamp[m] /\ processed' = [processed EXCEPT ![m] = @ + 1]
      BY <2>2, MessageFacts DEF Hello, Commit, peerVars
    <2>4. processed[m] = 0 /\ processed'[m] = 1
      BY <2>3, DeliveryKeepsMemory DEF AdmissionInv
    <2>5. processed' = [processed EXCEPT ![m] = 1]
      BY <2>3, <2>4
    <2>6. QED BY <2>4, <2>5 DEF MessagesOnce!Next, MessagesOnce!Take
  <1>3. QED
    BY <1>1, <1>2, AdmissionInvariant, PTL DEF Spec, EnvelopeOnce, MessagesOnce!Spec

\* A challenge admits at most one call: issue and consume implement OnceOnly.
THEOREM ChallengesUsedOnce == Spec => ChallengeOnce
  <1>1. Init => ChallengesOnce!Init
    BY DEF Init, ChallengesOnce!Init
  <1>2. AdmissionInv /\ [Next]_vars => [ChallengesOnce!Next]_accepted
    <2> SUFFICES ASSUME AdmissionInv, [Next]_vars, accepted' # accepted
                 PROVE  ChallengesOnce!Next
      OBVIOUS
    <2>1. PICK c \in Call : PopResponse(c)
      BY DEF Next, PeerStep, Deliver, CallStep, InitiateHandshake, ReceiveHelloAck,
             CompleteHandshake, GiveUp, Replayed, Hello, Commit, rotate_keys, Invoke,
             Challenge, AnswerChallenge, Tick, vars, histVars
    <2>2. /\ answer[c] \in Nonce /\ accepted[answer[c]] = 0
          /\ accepted' = [accepted EXCEPT ![answer[c]] = 1]
      BY <2>1, PopResponseFacts
    <2>3. QED BY <2>2 DEF ChallengesOnce!Next, ChallengesOnce!Take
  <1>3. QED
    BY <1>1, <1>2, AdmissionInvariant, PTL DEF Spec, ChallengeOnce, ChallengesOnce!Spec

\* No TCT is issued under a key that was rotated away (rotate_keys, commit).
THEOREM IssuerIsCurrent == Spec => NoStaleIssuer
  <1> DEFINE Good == \A h \in Handshake : tct'[h] # tct[h] => tct'[h] = aid
  <1>1. AdmissionInv /\ [Next]_vars => [Good]_vars
    <2> SUFFICES ASSUME AdmissionInv, [Next]_vars, NEW g \in Handshake, tct'[g] # tct[g]
                 PROVE  tct'[g] = aid
      OBVIOUS
    <2>1. PICK h \in Handshake : \E ts : Commit(h, ts)
      BY DEF Next, PeerStep, Deliver, CallStep, InitiateHandshake, ReceiveHelloAck,
             CompleteHandshake, GiveUp, Replayed, Hello, rotate_keys, Invoke,
             Challenge, AnswerChallenge, PopResponse, Tick, vars, replyVars
    <2>2. sessions[h] # None /\ tct' = [tct EXCEPT ![h] = sessions[h]]
      BY <2>1 DEF Commit
    <2>3. sessions[h] = aid
      BY <2>2 DEF AdmissionInv, WholeHandshakes
    <2>4. QED BY <2>2, <2>3 DEF AdmissionInv, TypeOK
  <1>2. QED BY <1>1, AdmissionInvariant, PTL DEF Spec, NoStaleIssuer

\* A call is admitted only on a TCT of the present AID out of a whole handshake
\* and on a live challenge of its own (verify_capability_tct).
THEOREM CallsAreSound == Spec => AdmittedCallsAreSound
  <1> DEFINE Sound ==
        \A n \in Nonce : accepted'[n] # accepted[n] =>
          \E c \in Call :
             /\ answer[c] = n /\ issuedTo[n] = c
             /\ tct[uses[c]] = aid
             /\ processed[<<uses[c], "hello">>] = 1
             /\ processed[<<uses[c], "commit">>] = 1
             /\ outstanding[n] # None /\ now <= outstanding[n]
  <1>1. AdmissionInv /\ [Next]_vars => [Sound]_vars
    <2> SUFFICES ASSUME AdmissionInv, [Next]_vars, NEW n \in Nonce, accepted'[n] # accepted[n]
                 PROVE  \E c \in Call :
                          /\ answer[c] = n /\ issuedTo[n] = c
                          /\ tct[uses[c]] = aid
                          /\ processed[<<uses[c], "hello">>] = 1
                          /\ processed[<<uses[c], "commit">>] = 1
                          /\ outstanding[n] # None /\ now <= outstanding[n]
      OBVIOUS
    <2>1. PICK c \in Call : PopResponse(c)
      BY DEF Next, PeerStep, Deliver, CallStep, InitiateHandshake, ReceiveHelloAck,
             CompleteHandshake, GiveUp, Replayed, Hello, Commit, rotate_keys, Invoke,
             Challenge, AnswerChallenge, Tick, vars, histVars
    <2>2. /\ answer[c] \in Nonce /\ issuedTo[answer[c]] = c /\ uses[c] # None
          /\ tct[uses[c]] = aid
          /\ outstanding[answer[c]] # None /\ now <= outstanding[answer[c]]
          /\ accepted' = [accepted EXCEPT ![answer[c]] = 1]
      BY <2>1, PopResponseFacts
    <2>3. answer[c] = n
      BY <2>2 DEF AdmissionInv, TypeOK
    <2>4. uses[c] \in Handshake /\ tct[uses[c]] # None
      BY <2>2 DEF AdmissionInv, PresentedIsReal, TypeOK
    <2>5. processed[<<uses[c], "hello">>] = 1 /\ processed[<<uses[c], "commit">>] = 1
      BY <2>4 DEF AdmissionInv, WholeHandshakes
    <2>6. QED BY <2>2, <2>3, <2>5
  <1>2. QED BY <1>1, AdmissionInvariant, PTL DEF Spec, AdmittedCallsAreSound

==============================================================================
