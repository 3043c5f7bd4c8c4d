---------------------------- MODULE HostingProofs ----------------------------
(***************************************************************************)
(* Proofs about Hosting: for any runs and hosted agents, any pools, offsets *)
(* and pinned ports.                                                       *)
(***************************************************************************)
EXTENDS Hosting, FiniteSetTheorems, TLAPS

USE OwnerAssumption, PortAssumption, KillsAssumption

------------------------------------------------------------------------------
(* PortAllocator.                                                          *)

PoolRecord == [next : Nat, free : Seq(Nat), in_use : SUBSET Nat]

\* A pool as allocate and release keep it: finitely many ports in use, none of
\* them recycled, none recycled twice.
PoolOK(p) ==
    /\ p \in PoolRecord
    /\ IsFiniteSet(p.in_use)
    /\ IsInjective(p.free)
    /\ ToSet(p.free) \cap p.in_use = {}

\* The ports a pool has handed out and not lost.
PortsOf(p) == p.in_use \cup ToSet(p.free)

LEMMA LeastNatural ==
    ASSUME NEW T, T \subseteq Nat, T # {}
    PROVE  \E x \in T : \A y \in T : x <= y
  <1>1. PICK x \in T : \A y \in T : ~(<<y, x>> \in OpToRel(<, Nat))
    BY WFMin, NatLessThanWellFounded
  <1>2. \A y \in Nat : y < x => <<y, x>> \in OpToRel(<, Nat)
    BY <1>1 DEF OpToRel
  <1>3. \A y \in T : ~(y < x)
    BY <1>1, <1>2
  <1>4. QED
    BY <1>3

LEMMA IntervalSize ==
    ASSUME NEW a \in Nat, NEW n \in Nat
    PROVE  IsFiniteSet(a..(a + n)) /\ Cardinality(a..(a + n)) = n + 1
  <1> DEFINE b == a + n
  <1>1. a \in Int /\ b \in Int /\ ~(a > b) /\ b - a + 1 = n + 1
    OBVIOUS
  <1> HIDE DEF b
  <1>2. IsFiniteSet(a..b) /\ Cardinality(a..b) = IF a > b THEN 0 ELSE b - a + 1
    BY <1>1, FS_Interval
  <1>3. QED
    BY <1>1, <1>2 DEF b

\* Among one more candidates than ports in use, one is free: the search from
\* next on ends.
LEMMA SomeIsFree ==
    ASSUME NEW start \in Nat, NEW used, IsFiniteSet(used)
    PROVE  \E n \in start..(start + Cardinality(used)) :
              n \notin used /\ \A m \in start..(n - 1) : m \in used
  <1> DEFINE range == start..(start + Cardinality(used))
  <1>1. Cardinality(used) \in Nat
    BY FS_CardinalityType
  <1>2. IsFiniteSet(range) /\ Cardinality(range) = Cardinality(used) + 1
    BY <1>1, IntervalSize
  <1>3. ~(range \subseteq used)
    BY <1>1, <1>2, FS_Subset
  <1>4. PICK n \in range \ used : \A y \in range \ used : n <= y
    <2>1. range \ used \subseteq Nat /\ range \ used # {}
      BY <1>1, <1>3
    <2>2. QED
      BY <2>1, LeastNatural
  <1>5. \A m \in start..(n - 1) : m \in range /\ ~(n <= m)
    BY <1>1, <1>4
  <1>6. QED
    BY <1>4, <1>5

LEMMA NextFreeIsFree ==
    ASSUME NEW p, PoolOK(p)
    PROVE  NextFree(p) \in Nat /\ NextFree(p) \notin p.in_use
  <1>1. p.next \in Nat /\ IsFiniteSet(p.in_use) /\ Cardinality(p.in_use) \in Nat
    BY FS_CardinalityType DEF PoolOK, PoolRecord
  <1>2. \E n \in p.next..(p.next + Cardinality(p.in_use)) :
           n \notin p.in_use /\ \A m \in p.next..(n - 1) : m \in p.in_use
    BY <1>1, SomeIsFree
  <1>3. NextFree(p) \in p.next..(p.next + Cardinality(p.in_use)) /\ NextFree(p) \notin p.in_use
    BY <1>2 DEF NextFree
  <1>4. QED
    BY <1>1, <1>3

\* The recycled ports as a stack.
LEMMA Pop ==
    ASSUME NEW s \in Seq(Nat), s # <<>>, IsInjective(s)
    PROVE  /\ Last(s) \in Nat /\ Last(s) \in ToSet(s)
           /\ Front(s) \in Seq(Nat) /\ IsInjective(Front(s))
           /\ ToSet(Front(s)) = ToSet(s) \ {Last(s)}
  <1>1. PICK k \in Nat : Len(s) = k + 1
    <2>1. Len(s) \in Nat /\ Len(s) # 0
      OBVIOUS
    <2>2. QED
      BY <2>1
  <1>2. DOMAIN s = 1..(k + 1) /\ Last(s) = s[k + 1] /\ k + 1 \in 1..(k + 1)
    BY <1>1 DEF Last
  <1>3. /\ Front(s) \in Seq(Nat) /\ DOMAIN Front(s) = 1..k
        /\ \A i \in 1..k : Front(s)[i] = s[i]
    BY <1>1 DEF Front
  <1>4. /\ \A i \in 1..k : i \in 1..(k + 1) /\ i # k + 1
        /\ \A i \in 1..(k + 1) : i \in 1..k \/ i = k + 1
    OBVIOUS
  <1>5. \A i, j \in 1..(k + 1) : s[i] = s[j] => i = j
    BY <1>2 DEF IsInjective
  <1>6. IsInjective(Front(s))
    BY <1>3, <1>4, <1>5 DEF IsInjective
  <1>7. ToSet(Front(s)) = ToSet(s) \ {Last(s)}
    <2>1. \A x \in ToSet(Front(s)) : x \in ToSet(s) /\ x # Last(s)
      BY <1>2, <1>3, <1>4, <1>5 DEF ToSet
    <2>2. \A x \in ToSet(s) : x # Last(s) => x \in ToSet(Front(s))
      BY <1>2, <1>3, <1>4 DEF ToSet
    <2>3. QED
      BY <2>1, <2>2
  <1>8. Last(s) \in Nat /\ Last(s) \in ToSet(s)
    BY <1>2 DEF ToSet
  <1>9. QED
    BY <1>3, <1>6, <1>7, <1>8

LEMMA Push ==
    ASSUME NEW s \in Seq(Nat), NEW n \in Nat, n \notin ToSet(s), IsInjective(s)
    PROVE  /\ Append(s, n) \in Seq(Nat) /\ IsInjective(Append(s, n))
           /\ ToSet(Append(s, n)) = ToSet(s) \cup {n}
  <1> DEFINE t == Append(s, n)
  <1>1. /\ Len(s) \in Nat /\ DOMAIN s = 1..Len(s) /\ t \in Seq(Nat)
        /\ DOMAIN t = 1..(Len(s) + 1) /\ t[Len(s) + 1] = n
        /\ \A i \in 1..Len(s) : t[i] = s[i]
    OBVIOUS
  <1>2. \A i \in 1..(Len(s) + 1) : i \in 1..Len(s) \/ i = Len(s) + 1
    BY <1>1
  <1>3. \A i \in 1..Len(s) : i \in 1..(Len(s) + 1) /\ s[i] # n
    BY <1>1 DEF ToSet
  <1>4. Len(s) + 1 \in 1..(Len(s) + 1)
    BY <1>1
  <1> HIDE DEF t
  <1>5. IsInjective(t)
    BY <1>1, <1>2, <1>3 DEF IsInjective
  <1>6. ToSet(t) = ToSet(s) \cup {n}
    <2>1. \A x \in ToSet(t) : x \in ToSet(s) \/ x = n
      BY <1>1, <1>2 DEF ToSet
    <2>2. n \in ToSet(t) /\ \A x \in ToSet(s) : x \in ToSet(t)
      BY <1>1, <1>3, <1>4 DEF ToSet
    <2>3. QED
      BY <2>1, <2>2
  <1>7. QED
    BY <1>1, <1>5, <1>6 DEF t

\* allocate hands out a port that is not in use, and keeps the pool.
LEMMA AllocateGives ==
    ASSUME NEW p, PoolOK(p), NEW start \in Nat, NEW offset \in Nat
    PROVE  LET a == allocate(p, start, offset)
           IN  /\ PoolOK(a.pool)
               /\ a.port \in Nat /\ a.port \notin p.in_use
               /\ a.pool.in_use = p.in_use \cup {a.port}
               /\ ToSet(a.pool.free) = ToSet(p.free) \ {a.port}
  <1> DEFINE candidate == start + offset
             n == NextFree(p)
             c == Last(p.free)
             rest == Front(p.free)
             a == allocate(p, start, offset)
  <1>1. /\ p.next \in Nat /\ p.free \in Seq(Nat) /\ p.in_use \subseteq Nat /\ p \in PoolRecord
        /\ IsInjective(p.free) /\ ToSet(p.free) \cap p.in_use = {} /\ IsFiniteSet(p.in_use)
    BY DEF PoolOK, PoolRecord
  <1>2. \A x : IsFiniteSet(p.in_use \cup {x})
    BY <1>1, FS_AddElement
  <1>3. candidate \in Nat
    OBVIOUS
  <1>4. CASE candidate \notin p.in_use \cup ToSet(p.free)
    <2> DEFINE next == IF candidate >= p.next THEN candidate + 1 ELSE p.next
    <2>1. next \in Nat
      BY <1>1, <1>3
    <2>2. a = [port |-> candidate,
               pool |-> [p EXCEPT !.in_use = p.in_use \cup {candidate}, !.next = next]]
      BY <1>4 DEF allocate
    <2> HIDE DEF next, candidate, a
    <2>3. /\ a.port = candidate /\ a.pool \in PoolRecord
          /\ a.pool.free = p.free /\ a.pool.in_use = p.in_use \cup {candidate}
      BY <1>1, <1>3, <2>1, <2>2 DEF PoolRecord
    <2>4. /\ PoolOK(a.pool) /\ a.port \in Nat /\ a.port \notin p.in_use
          /\ a.pool.in_use = p.in_use \cup {a.port}
          /\ ToSet(a.pool.free) = ToSet(p.free) \ {a.port}
      BY <1>1, <1>2, <1>3, <1>4, <2>1, <2>3 DEF PoolOK
    <2>5. QED
      BY <2>4 DEF a
  <1>5. CASE candidate \in p.in_use \cup ToSet(p.free) /\ p.free # <<>>
    <2>1. a = [port |-> c, pool |-> [p EXCEPT !.in_use = p.in_use \cup {c}, !.free = rest]]
      BY <1>5 DEF allocate
    <2>2. /\ c \in Nat /\ c \in ToSet(p.free) /\ rest \in Seq(Nat) /\ IsInjective(rest)
          /\ ToSet(rest) = ToSet(p.free) \ {c}
      BY <1>1, <1>5, Pop
    <2> HIDE DEF c, rest, a
    <2>3. /\ a.port = c /\ a.pool \in PoolRecord
          /\ a.pool.free = rest /\ a.pool.in_use = p.in_use \cup {c}
      BY <1>1, <2>1, <2>2 DEF PoolRecord
    <2>4. /\ PoolOK(a.pool) /\ a.port \in Nat /\ a.port \notin p.in_use
          /\ a.pool.in_use = p.in_use \cup {a.port}
          /\ ToSet(a.pool.free) = ToSet(p.free) \ {a.port}
      <3>1. IsFiniteSet(a.pool.in_use)
        BY <1>2, <2>3
      <3>2. c \notin p.in_use /\ ToSet(rest) \cap (p.in_use \cup {c}) = {}
        <4>1. ToSet(p.free) \cap p.in_use = {}
          BY <1>1
        <4>2. QED
          BY ONLY <2>2, <4>1
      <3>3. QED
        BY <2>2, <2>3, <3>1, <3>2 DEF PoolOK
    <2>5. QED
      BY <2>4 DEF a
  <1>6. CASE candidate \in p.in_use \cup ToSet(p.free) /\ p.free = <<>>
    <2>1. a = [port |-> n, pool |-> [p EXCEPT !.in_use = p.in_use \cup {n}, !.next = n + 1]]
      BY <1>6 DEF allocate
    <2>2. n \in Nat /\ n \notin p.in_use /\ n + 1 \in Nat /\ p.in_use \cup {n} \subseteq Nat
      BY <1>1, NextFreeIsFree
    <2>3. ToSet(p.free) = {}
      BY <1>6 DEF ToSet
    <2> HIDE DEF n, a
    <2>4. /\ a.port = n /\ a.pool \in PoolRecord
          /\ a.pool.free = p.free /\ a.pool.in_use = p.in_use \cup {n}
      <3> DEFINE m == n + 1
                 used == p.in_use \cup {n}
      <3>1. m \in Nat /\ used \subseteq Nat
        BY <2>2
      <3>2. a = [port |-> n, pool |-> [p EXCEPT !.in_use = used, !.next = m]]
        BY <2>1
      <3> HIDE DEF m, used
      <3>3. /\ a.port = n /\ a.pool \in PoolRecord
            /\ a.pool.free = p.free /\ a.pool.in_use = used
        BY <1>1, <3>1, <3>2 DEF PoolRecord
      <3>4. QED
        BY <3>3 DEF used
    <2>5. /\ PoolOK(a.pool) /\ a.port \in Nat /\ a.port \notin p.in_use
          /\ a.pool.in_use = p.in_use \cup {a.port}
          /\ ToSet(a.pool.free) = ToSet(p.free) \ {a.port}
      BY <1>1, <1>2, <2>2, <2>3, <2>4 DEF PoolOK
    <2>6. QED
      BY <2>5 DEF a
  <1>7. QED
    BY <1>4, <1>5, <1>6

\* release takes a port out of use at most once, and loses none.
LEMMA ReleaseKeeps ==
    ASSUME NEW p, PoolOK(p), NEW n
    PROVE  /\ PoolOK(release(p, n))
           /\ release(p, n).in_use = p.in_use \ {n}
           /\ PortsOf(release(p, n)) = PortsOf(p)
  <1>1. /\ p.next \in Nat /\ p.free \in Seq(Nat) /\ p.in_use \subseteq Nat /\ p \in PoolRecord
        /\ IsInjective(p.free) /\ ToSet(p.free) \cap p.in_use = {} /\ IsFiniteSet(p.in_use)
    BY DEF PoolOK, PoolRecord
  <1>2. CASE n \notin p.in_use
    <2>1. release(p, n) = p
      BY <1>2 DEF release
    <2>2. QED
      BY <1>2, <2>1
  <1>3. CASE n \in p.in_use
    <2> DEFINE q == release(p, n)
               more == Append(p.free, n)
    <2>1. q = [p EXCEPT !.in_use = p.in_use \ {n}, !.free = more]
      BY <1>3 DEF release
    <2>2. more \in Seq(Nat) /\ IsInjective(more) /\ ToSet(more) = ToSet(p.free) \cup {n}
      BY <1>1, <1>3, Push
    <2>3. IsFiniteSet(p.in_use \ {n})
      BY <1>1, FS_RemoveElement
    <2> HIDE DEF q, more
    <2>4. q = [next |-> p.next, free |-> more, in_use |-> p.in_use \ {n}]
      BY <1>1, <2>1 DEF PoolRecord
    <2>5. PoolOK(q) /\ q.in_use = p.in_use \ {n} /\ PortsOf(q) = PortsOf(p)
      BY <1>1, <1>3, <2>2, <2>3, <2>4 DEF PoolOK, PoolRecord, PortsOf
    <2>6. QED
      BY <2>5 DEF q
  <1>4. QED
    BY <1>2, <1>3

------------------------------------------------------------------------------
(* Types, and who has which port.                                          *)

PoolsInv ==
    /\ pool \in [run : PoolRecord, hosted : PoolRecord]
    /\ PoolOK(pool.run) /\ PoolOK(pool.hosted)

\* A run has a port of its pool in use until its first cleanup released it, shares
\* it with no other run until its last one did, and one run at most has the loop.
RunsInv ==
    /\ \A r \in Runs :
          /\ pc[r] \in {"allocated", "launching", "up", "kill2", "release2"} =>
                port[r] \in pool.run.in_use
          /\ pc[r] # "new" => port[r] \in PortsOf(pool.run)
    /\ \A r, s \in Runs :
          /\ pc[r] \notin {"new", "over"} /\ pc[s] \notin {"new", "over"} /\ port[r] = port[s] => r = s
          /\ pc[r] \in Cleaning \cup {"allocated"} /\ pc[s] \in Cleaning \cup {"allocated"} => r = s

\* A hosted agent has a port of its pool, or one that was pinned, and shares it
\* with another only if it was; only an agent that is up is stopped.
HostsInv ==
    /\ \A h \in Hosts :
          /\ pc[h] \in {"new", "launching", "up", "over"}
          /\ pc[h] \in {"launching", "up"} => port[h] \in pool.hosted.in_use \cup pinned
          /\ h \in hosted => pc[h] = "up" /\ killer[h] = "off"
          /\ killer[h] \in {"take", "wait", "release"} => pc[h] = "up"
          /\ killer[h] # "list" /\ (pc[h] \in {"new", "launching"} => killer[h] = "off")
    /\ \A h, g \in Hosts :
          pc[h] \in {"launching", "up"} /\ pc[g] \in {"launching", "up"} /\ port[h] = port[g]
              => h = g \/ port[h] \in pinned

\* The inductive invariant behind TypeOK and NoSharedPort.
PortInv ==
    /\ TablesOK /\ PoolsInv /\ RunsInv /\ HostsInv
    /\ \A j \in agents : port[j] \in Nat

LEMMA PoolsInvType == PoolsInv => PoolsOK
  BY DEF PoolsInv, PoolOK, PoolRecord, PoolsOK

LEMMA EmptyPoolOK ==
    ASSUME NEW start \in Nat
    PROVE  PoolOK(EmptyPool(start)) /\ EmptyPool(start) \in PoolRecord
  <1>1. EmptyPool(start) \in PoolRecord
    BY DEF EmptyPool, PoolRecord
  <1>2. EmptyPool(start).in_use = {} /\ EmptyPool(start).free = <<>>
    BY DEF EmptyPool
  <1>3. IsFiniteSet({}) /\ IsInjective(<<>>) /\ ToSet(<<>>) = {}
    BY FS_EmptySet DEF IsInjective, ToSet
  <1>4. QED
    BY <1>1, <1>2, <1>3 DEF PoolOK

LEMMA InitPort == Init => PortInv
  <1> SUFFICES ASSUME Init PROVE PortInv
    OBVIOUS
  <1>1. Start.run \in Nat /\ Start.hosted \in Nat
    OBVIOUS
  <1>2. PoolsInv
    BY <1>1, EmptyPoolOK DEF Init, PoolsInv
  <1>3. TablesOK
    BY DEF Init, TablesOK
  <1>4. RunsInv /\ HostsInv
    BY DEF Init, RunsInv, HostsInv, Owner, Cleaning
  <1>5. QED
    BY <1>2, <1>3, <1>4 DEF Init, PortInv

LEMMA RunStepPort ==
    ASSUME PortInv, NEW r \in Runs, RunStep(r)
    PROVE  PortInv'
  <1> USE DEF PortInv, PoolsInv, RunsInv, HostsInv, TablesOK, Owner, Goto, poolVars, supVars
  <1>1. ASSUME NEW offset \in Offsets, AllocatePorts(r, offset)
        PROVE  PortInv'
    <2> DEFINE a == allocate(pool.run, Start.run, offset)
    <2>1. /\ PoolOK(a.pool) /\ a.port \in Nat /\ a.port \notin pool.run.in_use
          /\ a.pool.in_use = pool.run.in_use \cup {a.port}
          /\ ToSet(a.pool.free) = ToSet(pool.run.free) \ {a.port}
      <3>1. PoolOK(pool.run) /\ Start.run \in Nat /\ offset \in Nat
        OBVIOUS
      <3>2. QED
        BY ONLY <3>1, AllocateGives, Zenon
    <2>2. /\ pool' = [pool EXCEPT !.run = a.pool] /\ port' = [port EXCEPT ![r] = a.port]
          /\ pc[r] = "new" /\ LoopFree /\ pc' = [pc EXCEPT ![r] = "allocated"]
          /\ UNCHANGED <<pinned, proc, supVars, cancelled, killer, took, hosted, named>>
      BY <1>1 DEF AllocatePorts
    <2> HIDE DEF a
    <2>3. PoolsInv'
      BY <2>1, <2>2 DEF PoolOK
    <2>4. TablesOK'
      BY <2>1, <2>2
    <2>5. RunsInv'
      <3>1. PortsOf(pool.run) \subseteq PortsOf(pool'.run) /\ a.port \in PortsOf(pool'.run)
        BY <2>1, <2>2 DEF PortsOf
      <3>2. \A s \in Runs : (pc[s] # "new" => port[s] \in PortsOf(pool.run))'
        BY <2>1, <2>2, <3>1
      <3>3. \A s \in Runs : (pc[s] \in {"allocated", "launching", "up", "kill2", "release2"} =>
                                port[s] \in pool.run.in_use)'
        BY <2>1, <2>2
      <3>4. \A s \in Runs : s # r /\ pc[s] \notin {"new", "over"} => port[s] \in pool.run.in_use
        BY <2>2 DEF LoopFree, Cleaning
      <3>5. \A s, t \in Runs :
               (/\ pc[s] \notin {"new", "over"} /\ pc[t] \notin {"new", "over"} /\ port[s] = port[t] => s = t
                /\ pc[s] \in Cleaning \cup {"allocated"} /\ pc[t] \in Cleaning \cup {"allocated"} => s = t)'
        BY <2>1, <2>2, <3>4 DEF LoopFree, Cleaning
      <3>6. QED
        BY <3>2, <3>3, <3>5
    <2>6. HostsInv'
      BY <2>1, <2>2
    <2>7. \A j \in agents' : port'[j] \in Nat
      BY <2>1, <2>2
    <2>8. QED
      BY <2>3, <2>4, <2>5, <2>6, <2>7
  <1>2. CASE Spawn(r)
    <2>1. port[r] \in Nat
      BY <1>2 DEF Spawn, PoolOK, PoolRecord
    <2>2. TablesOK' /\ \A j \in agents' : port'[j] \in Nat
      BY <1>2, <2>1 DEF Spawn, launch, Cleaning
    <2>3. PoolsInv' /\ RunsInv'
      BY <1>2 DEF Spawn, Cleaning
    <2>4. HostsInv'
      BY <1>2 DEF Spawn
    <2>5. QED
      BY <2>2, <2>3, <2>4
  <1>3. CASE RunReady(r)
    BY <1>3 DEF RunReady, AgentReady, LoopFree, Cleaning
  <1>4. CASE RunLaunchFails(r)
    BY <1>4 DEF RunLaunchFails, AgentFails, LoopFree, Cleaning
  <1>5. CASE StepsEnd(r)
    BY <1>5 DEF StepsEnd, LoopFree, Cleaning, PortsOf
  <1>6. CASE CleanupKill(r)
    <2>1. TablesOK' /\ \A j \in agents' : port'[j] \in Nat
      BY <1>6 DEF CleanupKill, KillTake, Without, Reap, Cleaning
    <2>2. PoolsInv' /\ RunsInv'
      BY <1>6 DEF CleanupKill, Cleaning
    <2>3. HostsInv'
      BY <1>6 DEF CleanupKill
    <2>4. QED
      BY <2>1, <2>2, <2>3
  <1>7. CASE CleanupRelease(r)
    <2> DEFINE q == release(pool.run, port[r])
    <2>1. PoolOK(q) /\ q.in_use = pool.run.in_use \ {port[r]} /\ PortsOf(q) = PortsOf(pool.run)
      BY ReleaseKeeps
    <2>2. /\ pool' = [pool EXCEPT !.run = q]
          /\ \/ pc[r] = "release2" /\ pc' = [pc EXCEPT ![r] = "kill1"]
             \/ pc[r] = "release1" /\ pc' = [pc EXCEPT ![r] = "over"]
          /\ UNCHANGED <<port, pinned, proc, supVars, cancelled, killer, took, hosted, named>>
      BY <1>7 DEF CleanupRelease
    <2> HIDE DEF q
    <2>3. PoolsInv'
      BY <2>1, <2>2 DEF PoolOK
    <2>4. TablesOK'
      BY <2>2 DEF Cleaning
    <2>5. RunsInv'
      BY <2>1, <2>2 DEF Cleaning, PortsOf
    <2>6. HostsInv'
      BY <2>2
    <2>7. QED
      BY <2>2, <2>3, <2>4, <2>5, <2>6
  <1>8. CASE Cancel(r) \/ KillRun(r)
    <2>1. /\ UNCHANGED <<poolVars, pc, proc, supVars, took, hosted, named>>
          /\ cancelled' \subseteq Runs
          /\ \E l \in {"list", "take", "done"} : killer' = [killer EXCEPT ![r] = l]
      BY <1>8 DEF Cancel, KillRun
    <2>2. QED
      BY <2>1
  <1>9. QED
    BY <1>1, <1>2, <1>3, <1>4, <1>5, <1>6, <1>7, <1>8 DEF RunStep

LEMMA HostStepPort ==
    ASSUME PortInv, NEW h \in Hosts, HostStep(h)
    PROVE  PortInv'
  <1> USE DEF PortInv, PoolsInv, RunsInv, HostsInv, TablesOK, Owner, Goto, poolVars, supVars
  <1> DEFINE a == allocate(pool.hosted, Start.hosted, 0)
  <1>0. /\ PoolOK(a.pool) /\ a.port \in Nat /\ a.port \notin pool.hosted.in_use
        /\ a.pool.in_use = pool.hosted.in_use \cup {a.port}
    <2>1. PoolOK(pool.hosted) /\ Start.hosted \in Nat /\ 0 \in Nat
      OBVIOUS
    <2>2. QED
      BY ONLY <2>1, AllocateGives, Zenon
  <1>1. ASSUME NEW pin \in Pins \cup {None}, Host(h, pin)
        PROVE  PortInv'
    <2> DEFINE n == IF pin = None THEN a.port ELSE pin
    <2>1. /\ pc[h] = "new" /\ pc' = [pc EXCEPT ![h] = "launching"]
          /\ pool' = (IF pin = None THEN [pool EXCEPT !.hosted = a.pool] ELSE pool)
          /\ pinned' = pinned \cup ({pin} \ {None})
          /\ port' = [port EXCEPT ![h] = n]
          /\ launch(h, n)
          /\ UNCHANGED <<cancelled, killer, took, hosted, named>>
      BY <1>1 DEF Host
    <2> HIDE DEF a
    <2>2. n \in Nat
      BY <1>0
    <2>3. n \in pool.hosted.in_use => n \in pinned'
      BY <1>0, <2>1
    <2>4. n \in pool'.hosted.in_use \cup pinned' /\ pool.hosted.in_use \subseteq pool'.hosted.in_use
      BY <1>0, <2>1
    <2>5. pool'.run = pool.run /\ PoolsInv'
      BY <1>0, <2>1 DEF PoolOK
    <2> HIDE DEF n
    <2>6. TablesOK' /\ \A j \in agents' : port'[j] \in Nat
      BY <2>1, <2>2 DEF launch
    <2>7. RunsInv'
      BY <2>1, <2>5
    <2>8. HostsInv'
      BY <2>1, <2>3, <2>4
    <2>9. QED
      BY <2>5, <2>6, <2>7, <2>8
  <1>2. ASSUME NEW pin \in Pins \cup {None}, HostUnprepared(h, pin)
        PROVE  PortInv'
    <2> DEFINE q == IF pin = None THEN release(a.pool, a.port) ELSE release(pool.hosted, pin)
    <2>1. /\ pc[h] = "new" /\ pc' = [pc EXCEPT ![h] = "over"]
          /\ pool' = [pool EXCEPT !.hosted = q]
          /\ pinned' = pinned \cup ({pin} \ {None})
          /\ UNCHANGED <<port, proc, supVars, cancelled, killer, took, hosted, named>>
      BY <1>2 DEF HostUnprepared
    <2>2. PoolOK(q) /\ pool.hosted.in_use \subseteq q.in_use \cup ({pin} \ {None})
      <3>1. CASE pin = None
        BY <1>0, <3>1, ReleaseKeeps
      <3>2. CASE pin # None
        BY <3>2, ReleaseKeeps
      <3>3. QED
        BY <3>1, <3>2
    <2> HIDE DEF q
    <2>3. PoolsInv'
      BY <2>1, <2>2 DEF PoolOK
    <2>4. TablesOK'
      BY <2>1
    <2>5. RunsInv'
      BY <2>1
    <2>6. HostsInv'
      BY <2>1, <2>2
    <2>7. QED
      BY <2>1, <2>3, <2>4, <2>5, <2>6
  <1>3. CASE HostReady(h)
    BY <1>3 DEF HostReady, AgentReady
  <1>4. CASE HostFails(h) \/ StopRelease(h)
    <2> DEFINE q == release(pool.hosted, port[h])
    <2>1. /\ pc[h] \in {"launching", "up"} /\ pc' = [pc EXCEPT ![h] = "over"]
          /\ pool' = [pool EXCEPT !.hosted = q]
          /\ UNCHANGED <<port, pinned, supVars, cancelled, took, hosted, named>>
      BY <1>4 DEF HostFails, AgentFails, StopRelease
    <2>2. /\ proc' \in [Owner -> {"none", "starting", "up", "dying", "dead"}]
          /\ \/ UNCHANGED killer /\ pc[h] = "launching"
             \/ killer' = [killer EXCEPT ![h] = "done"] /\ killer[h] = "release"
      BY <1>4 DEF HostFails, AgentFails, StopRelease
    <2>3. PoolOK(q) /\ q.in_use = pool.hosted.in_use \ {port[h]}
      BY ReleaseKeeps
    <2> HIDE DEF q
    <2>4. PoolsInv'
      BY <2>1, <2>3 DEF PoolOK
    <2>5. TablesOK'
      BY <2>1, <2>2
    <2>6. RunsInv'
      BY <2>1
    <2>7. HostsInv'
      BY <2>1, <2>2, <2>3
    <2>8. QED
      BY <2>1, <2>4, <2>5, <2>6, <2>7
  <1>5. CASE Stop(h)
    BY <1>5 DEF Stop
  <1>6. CASE LookUp(h)
    BY <1>6 DEF LookUp
  <1>7. QED
    BY <1>1, <1>2, <1>3, <1>4, <1>5, <1>6 DEF HostStep

LEMMA StepPort ==
    ASSUME PortInv, [Next]_vars
    PROVE  PortInv'
  <1> USE DEF PortInv, PoolsInv, RunsInv, HostsInv, TablesOK, Owner, Goto, poolVars, supVars
  <1>1. CASE \E r \in Runs : RunStep(r)
    BY <1>1, RunStepPort
  <1>2. CASE \E h \in Hosts : HostStep(h)
    BY <1>2, HostStepPort
  <1>3. ASSUME NEW j \in Owner, ThreadTakes(j)
        PROVE  PortInv'
    <2>1. TablesOK'
      BY <1>3 DEF ThreadTakes, KillTake, Without
    <2>2. QED
      BY <1>3, <2>1 DEF ThreadTakes, KillTake
  <1>4. ASSUME NEW j \in Owner, ThreadReaps(j)
        PROVE  PortInv'
    <2>1. TablesOK'
      BY <1>4 DEF ThreadReaps, Reap
    <2>2. QED
      BY <1>4, <2>1 DEF ThreadReaps
  <1>5. CASE Dial
    BY <1>5 DEF Dial
  <1>6. ASSUME NEW j \in Owner, Exits(j) \/ Dies(j)
        PROVE  PortInv'
    <2>1. proc' = [proc EXCEPT ![j] = "dead"]
          /\ UNCHANGED <<poolVars, pc, supVars, cancelled, killer, took, hosted, named>>
      BY <1>6 DEF Exits, Dies
    <2>2. TablesOK'
      BY <2>1
    <2>3. QED
      BY <2>1, <2>2
  <1>7. CASE UNCHANGED vars
    BY <1>7 DEF vars
  <1>8. QED
    BY <1>1, <1>2, <1>3, <1>4, <1>5, <1>6, <1>7 DEF Next

\* Every variable keeps its type, and each allocator keeps its ports in use and
\* its recycled ports apart (PortAllocator).
THEOREM TypeOKHolds == Spec => []TypeOK
  <1>1. PortInv => TypeOK
    BY PoolsInvType DEF PortInv, TypeOK
  <1>2. QED
    BY InitPort, StepPort, <1>1, PTL DEF Spec

------------------------------------------------------------------------------
(* Ports are not shared.                                                   *)

\* The runs' pool has not grown into the pool of the hosted agents, which starts
\* a thousand ports above it (HostedAgentManager); nothing in the code bounds it.
PoolsApart == PortsOf(pool.run) \cap PortsOf(pool.hosted) = {}

InUse(j) == pc[j] \notin {"new", "over"}

\* Two that use a port each use different ones, unless it was pinned.
UsersApart ==
    \A j, k \in Owner :
        InUse(j) /\ InUse(k) /\ port[j] = port[k] => j = k \/ port[j] \in pinned

LEMMA PortUsersApart == PortInv /\ PoolsApart => UsersApart
  <1> SUFFICES ASSUME PortInv, PoolsApart, NEW j \in Owner, NEW k \in Owner, j # k,
                      InUse(j), InUse(k), port[j] = port[k]
               PROVE  port[j] \in pinned
    BY DEF UsersApart
  <1>1. \A r \in Runs : InUse(r) => port[r] \in PortsOf(pool.run)
    BY DEF PortInv, RunsInv, TablesOK, Cleaning, InUse, PortsOf, Owner
  <1>2. \A h \in Hosts : InUse(h) => port[h] \in PortsOf(pool.hosted) \cup pinned
    BY DEF PortInv, HostsInv, InUse, PortsOf
  <1>3. CASE j \in Runs /\ k \in Runs
    BY <1>3 DEF PortInv, RunsInv, InUse
  <1>4. CASE j \in Hosts /\ k \in Hosts
    BY <1>4 DEF PortInv, HostsInv, InUse
  <1>5. CASE ~(j \in Runs /\ k \in Runs) /\ ~(j \in Hosts /\ k \in Hosts)
    BY <1>1, <1>2, <1>5 DEF PoolsApart, Owner
  <1>6. QED
    BY <1>3, <1>4, <1>5

\* A port is never handed out to two at once, whatever was released twice, recycled
\* or asked for by its offset, while the two pools do not meet (PortAllocator; the
\* except and finally clauses of a run).
THEOREM NoSharedPortHolds == Spec => [](PoolsApart => NoSharedPort)
  <1>1. PortInv => (PoolsApart => NoSharedPort)
    BY PortUsersApart DEF UsersApart, NoSharedPort, Owns, InUse
  <1>2. QED
    BY InitPort, StepPort, <1>1, PTL DEF Spec

------------------------------------------------------------------------------
(* Processes.                                                              *)

\* A process nobody has ended is in the table or in the hands of a thread; there is
\* none when its owner's port is released, except in those hands; what has not been
\* launched has no process, and that of a hosted agent runs or has exited.
ProcInv ==
    /\ \A j \in Owner :
          /\ proc[j] = "starting" => pc[j] = "launching"
          /\ Alive(j) => j \in took \cup processes
          /\ pc[j] \in {"new", "allocated"} => proc[j] = "none" /\ j \notin processes
    /\ \A r \in Runs : r \in processes => pc[r] \in {"launching", "up", "kill2", "kill1"}
    /\ \A h \in Hosts :
          /\ Alive(h) => pc[h] \in {"launching", "up"}
          /\ killer[h] = "wait" => h \notin processes
          /\ killer[h] = "release" => ~Alive(h)
          /\ pc[h] \in {"launching", "up"} /\ killer[h] = "off" =>
                proc[h] \in {"starting", "up", "dead"}
          /\ h \in hosted => proc[h] # "starting"

\* One process at most listens on a port.
OneListener ==
    \A j, k \in Owner : proc[j] = "up" /\ proc[k] = "up" /\ port[j] = port[k] => j = k

LEMMA InitProc == Init => ProcInv /\ OneListener
  BY DEF Init, ProcInv, OneListener, Alive, Owner

LEMMA StepProc ==
    ASSUME PortInv, ProcInv, OneListener, [Next]_vars
    PROVE  ProcInv' /\ OneListener'
  <1> USE DEF ProcInv, OneListener, Alive, PortInv, RunsInv, HostsInv, TablesOK, Owner, Goto,
              Cleaning, poolVars, supVars
  <1>1. ASSUME NEW r \in Runs, RunStep(r)
        PROVE  ProcInv' /\ OneListener'
    <2>1. CASE \E offset \in Offsets : AllocatePorts(r, offset)
      <3>1. /\ pc[r] = "new" /\ pc' = [pc EXCEPT ![r] = "allocated"]
            /\ \A j \in Owner \ {r} : port'[j] = port[j]
            /\ UNCHANGED <<proc, processes, took, killer, hosted>>
        BY <2>1 DEF AllocatePorts
      <3>2. ProcInv'
        BY <3>1
      <3>3. OneListener'
        BY <3>1
      <3>4. QED
        BY <3>2, <3>3
    <2>2. CASE Spawn(r)
      BY <2>2 DEF Spawn, launch
    <2>3. CASE RunReady(r)
      <3>1. ProcInv'
        BY <2>3 DEF RunReady, AgentReady
      <3>2. OneListener'
        BY <2>3 DEF RunReady, AgentReady
      <3>3. QED
        BY <3>1, <3>2
    <2>4. CASE RunLaunchFails(r)
      BY <2>4 DEF RunLaunchFails, AgentFails
    <2>5. CASE StepsEnd(r)
      BY <2>5 DEF StepsEnd
    <2>6. CASE CleanupKill(r)
      BY <2>6 DEF CleanupKill, KillTake, Reap
    <2>7. CASE CleanupRelease(r)
      BY <2>7 DEF CleanupRelease
    <2>8. CASE Cancel(r)
      BY <2>8 DEF Cancel
    <2>9. CASE KillRun(r)
      BY <2>9 DEF KillRun
    <2>10. QED
      BY <1>1, <2>1, <2>2, <2>3, <2>4, <2>5, <2>6, <2>7, <2>8, <2>9 DEF RunStep
  <1>2. ASSUME NEW h \in Hosts, HostStep(h)
        PROVE  ProcInv' /\ OneListener'
    <2>1. CASE \E pin \in Pins \cup {None} : Host(h, pin)
      <3>1. /\ pc[h] = "new" /\ pc' = [pc EXCEPT ![h] = "launching"]
            /\ \A j \in Owner \ {h} : port'[j] = port[j]
            /\ proc' = [proc EXCEPT ![h] = "starting"] /\ processes' = processes \cup {h}
            /\ UNCHANGED <<took, killer, hosted>>
        BY <2>1 DEF Host, launch
      <3>2. ProcInv'
        BY <3>1
      <3>3. OneListener'
        BY <3>1
      <3>4. QED
        BY <3>2, <3>3
    <2>2. CASE \E pin \in Pins \cup {None} : HostUnprepared(h, pin)
      <3>1. /\ pc[h] = "new" /\ pc' = [pc EXCEPT ![h] = "over"]
            /\ UNCHANGED <<port, proc, processes, took, killer, hosted>>
        BY <2>2 DEF HostUnprepared
      <3>2. QED
        BY <3>1
    <2>3. CASE HostReady(h)
      <3>1. ProcInv'
        BY <2>3 DEF HostReady, AgentReady
      <3>2. OneListener'
        BY <2>3 DEF HostReady, AgentReady
      <3>3. QED
        BY <3>1, <3>2
    <2>4. CASE HostFails(h)
      BY <2>4 DEF HostFails, AgentFails
    <2>5. CASE Stop(h)
      BY <2>5 DEF Stop
    <2>6. CASE StopRelease(h)
      BY <2>6 DEF StopRelease
    <2>7. CASE LookUp(h)
      BY <2>7 DEF LookUp
    <2>8. QED
      BY <1>2, <2>1, <2>2, <2>3, <2>4, <2>5, <2>6, <2>7 DEF HostStep
  <1>3. ASSUME NEW j \in Owner, ThreadTakes(j)
        PROVE  ProcInv' /\ OneListener'
    BY <1>3 DEF ThreadTakes, KillTake
  <1>4. ASSUME NEW j \in Owner, ThreadReaps(j)
        PROVE  ProcInv' /\ OneListener'
    <2>1. /\ j \in Hosts \cup took => ~Alive(j)'
          /\ \A k \in Owner \ {j} : proc'[k] = proc[k]
      BY <1>4 DEF ThreadReaps, Reap
    <2>2. proc'[j] = proc[j] \/ (proc[j] \in {"starting", "up", "dying"} /\ proc'[j] \in {"dead", "dying"})
      BY <1>4 DEF ThreadReaps, Reap
    <2>3. /\ killer[j] = "wait" /\ took' = took \ {j} /\ j \notin hosted
          /\ killer'[j] \in {"release", "done"} /\ \A k \in Owner \ {j} : killer'[k] = killer[k]
          /\ UNCHANGED <<pc, port, processes, hosted>>
      BY <1>4 DEF ThreadReaps
    <2>4. OneListener'
      BY <2>1, <2>2, <2>3
    <2>5. ProcInv'
      <3>1. \A k \in Owner : /\ Alive(k)' => Alive(k) /\ (k = j => k \notin Hosts \cup took)
                             /\ proc[k] = "none" => proc'[k] = "none"
                             /\ k # j => proc'[k] = proc[k]
        BY <2>1, <2>2, <2>3
      <3>2. \A k \in Owner : proc'[k] = "starting" => proc[k] = "starting"
        BY <2>1, <2>2
      <3> HIDE DEF Alive
      <3>3. QED
        BY <2>3, <3>1, <3>2
    <2>6. QED
      BY <2>4, <2>5
  <1>5. CASE Dial
    BY <1>5 DEF Dial
  <1>6. ASSUME NEW j \in Owner, Exits(j) \/ Dies(j)
        PROVE  ProcInv' /\ OneListener'
    <2>1. /\ proc[j] \in {"starting", "up", "dying"} /\ proc' = [proc EXCEPT ![j] = "dead"]
          /\ UNCHANGED <<pc, port, processes, took, killer, hosted>>
      BY <1>6 DEF Exits, Dies
    <2>2. QED
      BY <2>1
  <1>7. CASE UNCHANGED vars
    BY <1>7 DEF vars
  <1>8. QED
    BY <1>1, <1>2, <1>3, <1>4, <1>5, <1>6, <1>7 DEF Next

\* An agent is not started on a port where a process listens that nobody has ended,
\* unless a thread is still waiting for that process or the port was pinned, while
\* the two pools do not meet (kill, _cleanup_run, host).
THEOREM PortIsGivenUpAtLaunchHolds == Spec => [](PoolsApart => PortIsGivenUpAtLaunch)
  <1>1. PortInv /\ ProcInv => (PoolsApart => PortIsGivenUpAtLaunch)
    <2> SUFFICES ASSUME PortInv, ProcInv, PoolsApart, NEW j \in Owner, NEW k \in Owner,
                        proc[j] = "starting", proc[k] = "up", port[j] = port[k], k \notin took
                 PROVE  port[j] \in pinned
      BY DEF PortIsGivenUpAtLaunch
    <2>1. j # k /\ InUse(j)
      BY DEF ProcInv, InUse
    <2>2. InUse(k)
      BY DEF ProcInv, Alive, InUse, Owner
    <2>3. QED
      BY <2>1, <2>2, PortUsersApart DEF UsersApart
  <1>2. QED
    BY InitPort, StepPort, InitProc, StepProc, <1>1, PTL DEF Spec

\* A request to a hosted agent reaches another one only if the one it names was
\* stopped after it was looked up, or had exited by itself and its port was pinned,
\* while the two pools do not meet: nobody else listens on the port of an agent that
\* is up, and nobody is given the port of one that is hosted and not up (mgr.get
\* before the await, hosted.port after; host, stop).
THEOREM MisdirectedOnlyIfGoneHolds == Spec /\ []PoolsApart => MisdirectedOnlyIfGone
  <1>1. PortInv /\ ProcInv /\ OneListener /\ PoolsApart =>
           (Dial => \/ Reached(port[named]) \subseteq {named}
                    \/ named \notin hosted
                    \/ proc[named] = "dead" /\ port[named] \in pinned)
    <2> SUFFICES ASSUME PortInv, ProcInv, OneListener, PoolsApart, Dial, named \in hosted,
                        NEW k \in Reached(port[named]), k # named
                 PROVE  proc[named] = "dead" /\ port[named] \in pinned
      OBVIOUS
    <2>1. /\ named \in Hosts /\ named \in Owner /\ k \in Owner
          /\ proc[k] = "up" /\ port[k] = port[named] /\ pc[named] = "up"
      BY DEF Reached, PortInv, TablesOK, HostsInv, Owner
    <2>2. proc[named] = "dead"
      BY <2>1 DEF ProcInv, OneListener, PortInv, HostsInv
    <2>3. port[named] \in PortsOf(pool.hosted) \cup pinned
      BY <2>1 DEF PortInv, HostsInv, PortsOf
    <2>4. CASE k \in Hosts
      BY <2>1, <2>2, <2>4 DEF ProcInv, Alive, PortInv, HostsInv
    <2>5. CASE k \in Runs
      <3>1. pc[k] # "new"
        BY <2>1, <2>5 DEF ProcInv
      <3>2. port[k] \in PortsOf(pool.run)
        BY <2>5, <3>1 DEF PortInv, RunsInv
      <3>3. QED
        BY <2>1, <2>2, <2>3, <3>2 DEF PoolsApart
    <2>6. QED
      BY <2>1, <2>4, <2>5 DEF Owner
  <1>2. QED
    BY InitPort, StepPort, InitProc, StepProc, <1>1, PTL DEF Spec, MisdirectedOnlyIfGone

------------------------------------------------------------------------------
(* Admin tokens.                                                           *)

\* The inductive invariant behind TokensKept: from its launch until a kill takes it.
TokenInv ==
    \A j \in processes : Alive(j) /\ port[j] \notin stale \cup pinned =>
        port[j] \in DOMAIN admin_tokens /\ admin_tokens[port[j]] = j

\* A kill drops the token of no process but its own, unless it came late.
LEMMA TakeToken ==
    ASSUME TablesOK, ProcInv, TokenInv, UsersApart, NEW j \in Owner, KillTake(j),
           j \in processes => InUse(j), UNCHANGED <<port, pinned>>,
           \A k \in Owner : Alive(k)' => Alive(k)
    PROVE  TokenInv'
  <1> SUFFICES ASSUME NEW k \in processes', Alive(k)', port'[k] \notin stale' \cup pinned'
               PROVE  port'[k] \in DOMAIN admin_tokens' /\ admin_tokens'[port'[k]] = k
    BY DEF TokenInv
  <1>1. k \in processes /\ k # j /\ k \in Owner /\ Alive(k) /\ port[k] \notin pinned
        /\ port[k] \notin stale'
    BY DEF KillTake, TablesOK
  <1>2. InUse(k)
    BY <1>1 DEF ProcInv, InUse, Owner
  <1>3. j \in agents => port[k] # port[j]
    <2>1. CASE j \in processes
      BY <1>1, <1>2, <2>1 DEF UsersApart
    <2>2. CASE j \notin processes
      BY <1>1, <2>2 DEF KillTake
    <2>3. QED
      BY <2>1, <2>2
  <1>4. stale \subseteq stale'
    BY DEF KillTake
  <1>5. port[k] \in DOMAIN admin_tokens /\ admin_tokens[port[k]] = k
    BY <1>1, <1>4 DEF TokenInv
  <1>6. QED
    BY <1>3, <1>5 DEF KillTake, Without

\* A launch keeps the token of everybody else.
LEMMA LaunchToken ==
    ASSUME TablesOK, ProcInv, TokenInv, UsersApart', NEW j \in Owner, NEW n, launch(j, n),
           InUse(j)', port'[j] = n, pinned \subseteq pinned',
           \A k \in Owner \ {j} : port'[k] = port[k] /\ pc'[k] = pc[k]
    PROVE  TokenInv'
  <1> SUFFICES ASSUME NEW k \in processes', Alive(k)', port'[k] \notin stale' \cup pinned'
               PROVE  port'[k] \in DOMAIN admin_tokens' /\ admin_tokens'[port'[k]] = k
    BY DEF TokenInv
  <1>1. CASE k = j
    BY <1>1 DEF launch
  <1>2. CASE k # j
    <2>1. /\ k \in processes /\ k \in Owner /\ Alive(k) /\ port'[k] = port[k] /\ pc'[k] = pc[k]
          /\ port[k] \notin stale \cup pinned
      BY <1>2 DEF launch, TablesOK, Alive
    <2>2. InUse(k)'
      BY <2>1 DEF ProcInv, InUse, Owner
    <2>3. port'[k] # n
      BY <1>2, <2>1, <2>2 DEF UsersApart
    <2>4. QED
      BY <2>1, <2>3 DEF TokenInv, launch
  <1>3. QED
    BY <1>1, <1>2

LEMMA StepToken ==
    ASSUME PortInv, PortInv', ProcInv, TokenInv, UsersApart, UsersApart', [Next]_vars
    PROVE  TokenInv'
  <1> USE DEF poolVars, supVars, Goto
  <1>0. TablesOK
    BY DEF PortInv
  <1>1. ASSUME UNCHANGED <<port, processes, stale, admin_tokens>>, pinned \subseteq pinned',
               \A j \in processes : Alive(j)' => Alive(j)
        PROVE  TokenInv'
    BY <1>1 DEF TokenInv
  <1>2. ASSUME NEW r \in Runs, RunStep(r)
        PROVE  TokenInv'
    <2>1. CASE \E offset \in Offsets : AllocatePorts(r, offset)
      <3>1. /\ r \notin processes /\ \A j \in Owner \ {r} : port'[j] = port[j]
            /\ UNCHANGED <<proc, processes, stale, admin_tokens, pinned>>
        BY <1>0, <2>1 DEF AllocatePorts, ProcInv, Owner, TablesOK
      <3>2. QED
        BY <1>0, <3>1 DEF TokenInv, Alive, TablesOK
    <2>2. CASE Spawn(r)
      <3>1. CASE UNCHANGED <<proc, supVars>>
        BY <1>1, <2>2, <3>1 DEF Spawn, Alive
      <3>2. CASE launch(r, port[r]) /\ pc' = [pc EXCEPT ![r] = "launching"]
        <4>1. InUse(r)' /\ \A k \in Owner \ {r} : pc'[k] = pc[k]
          BY <1>0, <3>2 DEF InUse, TablesOK, Owner
        <4>2. UNCHANGED <<port, pinned>>
          BY <2>2 DEF Spawn
        <4>3. QED
          BY <1>0, <3>2, <4>1, <4>2, LaunchToken DEF Owner
      <3>3. QED
        BY <2>2, <3>1, <3>2 DEF Spawn
    <2>3. CASE RunReady(r)
      BY <1>0, <1>1, <2>3 DEF RunReady, AgentReady, Alive, TablesOK
    <2>4. CASE RunLaunchFails(r)
      BY <1>0, <1>1, <2>4 DEF RunLaunchFails, AgentFails, Alive, TablesOK
    <2>5. CASE CleanupKill(r)
      <3>1. CASE r \in processes
        <4>1. KillTake(r) /\ Reap(r) /\ UNCHANGED <<port, pinned>>
          BY <2>5, <3>1 DEF CleanupKill
        <4>2. \A k \in Owner : Alive(k)' => Alive(k)
          BY <1>0, <4>1 DEF Reap, Alive, TablesOK
        <4>3. InUse(r)
          BY <3>1 DEF ProcInv, InUse
        <4>4. QED
          BY <1>0, <4>1, <4>2, <4>3, TakeToken DEF Owner
      <3>2. CASE r \notin processes
        BY <1>1, <2>5, <3>2 DEF CleanupKill, Alive
      <3>3. QED
        BY <3>1, <3>2
    <2>6. CASE StepsEnd(r) \/ CleanupRelease(r) \/ Cancel(r) \/ KillRun(r)
      BY <1>1, <2>6 DEF StepsEnd, CleanupRelease, Cancel, KillRun, Alive
    <2>7. QED
      BY <1>2, <2>1, <2>2, <2>3, <2>4, <2>5, <2>6 DEF RunStep
  <1>3. ASSUME NEW h \in Hosts, HostStep(h)
        PROVE  TokenInv'
    <2>1. ASSUME NEW pin \in Pins \cup {None}, Host(h, pin)
          PROVE  TokenInv'
      <3>1. PICK n : launch(h, n) /\ port' = [port EXCEPT ![h] = n]
        BY <2>1 DEF Host
      <3>2. pc' = [pc EXCEPT ![h] = "launching"] /\ pinned \subseteq pinned'
        BY <2>1 DEF Host
      <3>3. /\ InUse(h)' /\ port'[h] = n
            /\ \A k \in Owner \ {h} : port'[k] = port[k] /\ pc'[k] = pc[k]
        BY <1>0, <3>1, <3>2 DEF InUse, TablesOK, Owner
      <3>4. QED
        BY <1>0, <3>1, <3>2, <3>3, LaunchToken DEF Owner
    <2>2. ASSUME NEW pin \in Pins \cup {None}, HostUnprepared(h, pin)
          PROVE  TokenInv'
      <3>1. UNCHANGED <<port, proc, processes, stale, admin_tokens>> /\ pinned \subseteq pinned'
        BY <2>2 DEF HostUnprepared
      <3>2. QED
        BY <1>1, <3>1 DEF Alive
    <2>3. CASE HostReady(h)
      BY <1>0, <1>1, <2>3 DEF HostReady, AgentReady, Alive, TablesOK
    <2>4. CASE HostFails(h)
      BY <1>0, <1>1, <2>4 DEF HostFails, AgentFails, Alive, TablesOK
    <2>5. CASE Stop(h) \/ StopRelease(h) \/ LookUp(h)
      BY <1>1, <2>5 DEF Stop, StopRelease, LookUp, Alive
    <2>6. QED
      BY <1>3, <2>1, <2>2, <2>3, <2>4, <2>5 DEF HostStep
  <1>4. ASSUME NEW j \in Owner, ThreadTakes(j)
        PROVE  TokenInv'
    <2>1. KillTake(j) /\ UNCHANGED <<port, pinned, proc>>
      BY <1>4 DEF ThreadTakes
    <2>2. j \in processes => InUse(j)
      BY <1>4 DEF ThreadTakes, ProcInv, PortInv, HostsInv, InUse, Owner
    <2>3. QED
      BY <1>0, <2>1, <2>2, TakeToken DEF Alive
  <1>5. ASSUME NEW j \in Owner, ThreadReaps(j)
        PROVE  TokenInv'
    BY <1>0, <1>1, <1>5 DEF ThreadReaps, Reap, Alive, TablesOK
  <1>6. CASE Dial \/ \E j \in Owner : Exits(j) \/ Dies(j)
    BY <1>0, <1>1, <1>6 DEF Dial, Exits, Dies, Alive, TablesOK
  <1>7. CASE UNCHANGED vars
    BY <1>1, <1>7 DEF vars, Alive
  <1>8. QED
    BY <1>2, <1>3, <1>4, <1>5, <1>6, <1>7 DEF Next

\* The service keeps the admin token of an agent that is up and not being killed,
\* unless a late kill of an earlier owner of the port dropped it or the port was
\* pinned, if the two pools never meet (launch, kill).
THEOREM TokensKeptHolds == Spec /\ []PoolsApart => []TokensKept
  <1>1. Init => TokenInv
    BY DEF Init, TokenInv
  <1>2. TokenInv => TokensKept
    BY DEF TokenInv, TokensKept, Alive
  <1>3. PortInv /\ PortInv' /\ ProcInv /\ TokenInv /\ UsersApart /\ UsersApart' /\ [Next]_vars
           => TokenInv'
    BY StepToken
  <1>4. QED
    BY InitPort, StepPort, InitProc, StepProc, PortUsersApart, <1>1, <1>2, <1>3, PTL DEF Spec

==============================================================================
