---------------------------- MODULE RunEventsProofs ----------------------------
(***************************************************************************)
(* Proofs about RunEvents: for any number of cancel requests and streams,   *)
(* any queue size, any number of events and crashes.                       *)
(***************************************************************************)
EXTENDS RunEvents, FiniteSetTheorems, TLAPS

USE ThreadAssumption, QueueAssumption, BoundAssumption

------------------------------------------------------------------------------
(* The invariants.                                                         *)

\* The table is finite, who has appended an event finds one in the log, and a
\* thread goes on after an operation at the start of another.
TypeInv ==
    /\ TypeOK
    /\ IsFiniteSet(DOMAIN rows)
    /\ \A t \in Thread : pc[t] = "notify" => Len(events) > 0
    /\ \A t \in Thread : after[t] \in Idle \cup {"append", "mark"}

Writing(t) == pc[t] \in {"notify", "insert"}

\* An event has its number from its thread's count.
Numbered(e) == e.n <= emitted[e.by]

\* Every event is appended and inserted once.
LogInv ==
    /\ IsInjective(events) /\ \A i \in DOMAIN events : Numbered(events[i])
    /\ \A j, k \in DOMAIN rows : rows[j] = rows[k] => j = k
    /\ \A k \in DOMAIN rows : Numbered(rows[k])
    /\ \A t \in Thread : Writing(t) =>
          ev[t] = [by |-> t, n |-> emitted[t]] /\ \A k \in DOMAIN rows : rows[k] # ev[t]
    /\ \A t \in Thread : todo[t] # {} => pc[t] = "notify"

\* A stream nobody has asked for.
Fresh(s) ==
    /\ sent[s] = <<>> /\ backlog[s] = <<>> /\ queue[s] = <<>> /\ ready[s] = <<>>
    /\ dropped[s] = {} /\ \A t \in Thread : s \notin todo[t]

\* An event of the log has come to an open stream, was dropped, or is still to be
\* handed to it: one of the three.
Fed(s) ==
    /\ IsInjective(Feed(s))
    /\ ToSet(Feed(s)) \cap dropped[s] = {}
    /\ \A t \in Thread : s \in todo[t] => ev[t] \notin ToSet(Feed(s)) \cup dropped[s]
    /\ \A e \in ToSet(Feed(s)) \cup dropped[s] : e \in ToSet(events)
    /\ \A t \in Thread : s \in todo[t] => ev[t] \in ToSet(events)
    /\ \A e \in ToSet(events) :
          e \in ToSet(Feed(s)) \cup dropped[s] \/ \E t \in Thread : s \in todo[t] /\ e = ev[t]

Served(s) ==
    /\ s \in subs <=> spc[s] = "live"
    /\ spc[s] = "off" => Fresh(s)
    /\ spc[s] = "live" => Fed(s)

StreamInv == \A s \in Streams : Served(s)

\* The events of each thread stand in f in the order of their numbers.
Ordered(f) ==
    \A i, j \in DOMAIN f : i < j /\ f[i].by = f[j].by => f[i].n < f[j].n

\* What a thread is about to hand to a stream is newer than what the stream has of it.
Newer(s) ==
    \A e \in ToSet(Feed(s)) :
        Numbered(e) /\ \A t \in Thread : s \in todo[t] /\ e.by = t => e.n < ev[t].n

\* Before the first crash a thread's rows are in order, and it inserts behind them.
RowsInOrder ==
    crashes = 0 =>
        /\ \A k \in DOMAIN rows : k < Len(events)
        /\ \A j, k \in DOMAIN rows : j < k /\ rows[j].by = rows[k].by => rows[j].n < rows[k].n
        /\ \A t \in Thread : \A k \in DOMAIN rows : rows[k].by = t =>
              /\ pc[t] = "notify" => k < Len(events) - 1
              /\ pc[t] = "insert" => k < seq[t]
        /\ \A t \in Thread : pc[t] = "insert" => seq[t] < Len(events)

\* t is inside an operation of the store.
InOp(t) == pc[t] \notin Idle \cup {"mark"}

\* One operation at a time.
Alone == \A t, u \in Thread : InOp(t) /\ InOp(u) => t = u

\* The table is the log, but for the event that is being inserted.
TableIsLog ==
    /\ (\E t \in Thread : Writing(t)) => DOMAIN rows = 0..(Len(events) - 2)
    /\ (\A t \in Thread : ~Writing(t)) => DOMAIN rows = 0..(Len(events) - 1)
    /\ \A k \in DOMAIN rows : rows[k] = events[k + 1]
    /\ \A t \in Thread : Writing(t) => Len(events) > 0 /\ ev[t] = events[Len(events)]
    /\ \A t \in Thread : pc[t] = "insert" => seq[t] = Len(events) - 1

\* The runs row is the record's, but while it is being written.
RowIsStatus ==
    /\ dbStatus = status \/ \E t \in Thread : pc[t] \in {"scalars", "persist"}
    /\ \A t \in Thread : pc[t] = "persist" => scalars[t] = status

MirrorInv == ~overlapped => Alone /\ TableIsLog /\ RowIsStatus

\* Two crashes after an overlap are excepted.
Calm == ~overlapped \/ crashes <= 1

OrderInv ==
    /\ (\A s \in Streams : Newer(s)) /\ RowsInOrder
    /\ Calm => Ordered(events) /\ \A s \in Streams : Ordered(Feed(s))

------------------------------------------------------------------------------
(* Sequences.                                                              *)

LEMMA AppendIs ==
    ASSUME NEW S, NEW f \in Seq(S), NEW x \in S
    PROVE  /\ Append(f, x) \in Seq(S) /\ Len(Append(f, x)) = Len(f) + 1
           /\ \A i \in 1..Len(f) : Append(f, x)[i] = f[i]
           /\ Append(f, x)[Len(f) + 1] = x
           /\ ToSet(Append(f, x)) = ToSet(f) \cup {x}
           /\ IsInjective(f) /\ x \notin ToSet(f) => IsInjective(Append(f, x))
  <1> DEFINE g == Append(f, x)
  <1>1. /\ g \in Seq(S) /\ Len(g) = Len(f) + 1 /\ Len(f) \in Nat
        /\ \A i \in 1..Len(f) : g[i] = f[i]
        /\ g[Len(f) + 1] = x /\ DOMAIN g = 1..(Len(f) + 1) /\ DOMAIN f = 1..Len(f)
    OBVIOUS
  <1> HIDE DEF g
  <1>2. ToSet(g) = ToSet(f) \cup {x}
    <2>1. ASSUME NEW e \in ToSet(g) PROVE e \in ToSet(f) \cup {x}
      BY <1>1, <2>1 DEF ToSet
    <2>2. ToSet(f) \subseteq ToSet(g)
      BY <1>1 DEF ToSet
    <2>3. x \in ToSet(g)
      BY <1>1 DEF ToSet
    <2>4. QED
      BY <2>1, <2>2, <2>3
  <1>3. ASSUME IsInjective(f), x \notin ToSet(f)
        PROVE  IsInjective(g)
    BY <1>1, <1>3 DEF IsInjective, ToSet
  <1>4. QED
    BY <1>1, <1>2, <1>3 DEF g

LEMMA ConcatIs ==
    ASSUME NEW S, NEW f \in Seq(S), NEW g \in Seq(S)
    PROVE  /\ f \o g \in Seq(S) /\ Len(f \o g) = Len(f) + Len(g)
           /\ \A i \in 1..(Len(f) + Len(g)) :
                 (f \o g)[i] = IF i <= Len(f) THEN f[i] ELSE g[i - Len(f)]
  OBVIOUS

LEMMA SameSeq ==
    ASSUME NEW S, NEW f \in Seq(S), NEW g \in Seq(S), Len(f) = Len(g),
           \A i \in 1..Len(f) : f[i] = g[i]
    PROVE  f = g
  OBVIOUS

\* The head of the second part moves to the end of the first.
LEMMA MoveHead ==
    ASSUME NEW S, NEW f \in Seq(S), NEW g \in Seq(S), g # <<>>
    PROVE  /\ Append(f, Head(g)) \o Tail(g) = f \o g
           /\ Head(g) \in S /\ Tail(g) \in Seq(S) /\ Append(f, Head(g)) \in Seq(S)
  <1>1. Head(g) \in S /\ Tail(g) \in Seq(S) /\ Append(f, Head(g)) \in Seq(S)
    OBVIOUS
  <1>2. Append(f, Head(g)) \o Tail(g) \in Seq(S) /\ f \o g \in Seq(S)
    BY <1>1
  <1>3. Len(Append(f, Head(g)) \o Tail(g)) = Len(f \o g)
    BY <1>1
  <1>4. \A i \in 1..Len(f \o g) : (Append(f, Head(g)) \o Tail(g))[i] = (f \o g)[i]
    BY <1>1
  <1>5. QED
    BY <1>1, <1>2, <1>3, <1>4, SameSeq

LEMMA AppendSecond ==
    ASSUME NEW S, NEW f \in Seq(S), NEW g \in Seq(S), NEW x \in S
    PROVE  f \o Append(g, x) = Append(f \o g, x)
  <1>1. f \o Append(g, x) \in Seq(S) /\ Append(f \o g, x) \in Seq(S)
    OBVIOUS
  <1>2. Len(f \o Append(g, x)) = Len(Append(f \o g, x))
    OBVIOUS
  <1>3. \A i \in 1..Len(f \o Append(g, x)) : (f \o Append(g, x))[i] = Append(f \o g, x)[i]
    OBVIOUS
  <1>4. QED
    BY <1>1, <1>2, <1>3, SameSeq

LEMMA Reassociate ==
    ASSUME NEW S, NEW f \in Seq(S), NEW g \in Seq(S), NEW h \in Seq(S)
    PROVE  (f \o g) \o h = f \o (g \o h)
  <1>1. (f \o g) \o h \in Seq(S) /\ f \o (g \o h) \in Seq(S)
    OBVIOUS
  <1>2. Len((f \o g) \o h) = Len(f \o (g \o h))
    OBVIOUS
  <1>3. \A i \in 1..Len((f \o g) \o h) : ((f \o g) \o h)[i] = (f \o (g \o h))[i]
    OBVIOUS
  <1>4. QED
    BY <1>1, <1>2, <1>3, SameSeq

\* What is in b stands in a, in the same order.
Within(b, a) ==
    \A i, j \in DOMAIN b : i < j =>
        \E k, l \in DOMAIN a : k < l /\ b[i] = a[k] /\ b[j] = a[l]

\* The head of the second part is dropped.
LEMMA DropHead ==
    ASSUME NEW S, NEW f \in Seq(S), NEW g \in Seq(S), g # <<>>
    PROVE  /\ f \o Tail(g) \in Seq(S)
           /\ ToSet(f \o Tail(g)) \subseteq ToSet(f \o g)
           /\ ToSet(f \o g) = ToSet(f \o Tail(g)) \cup {Head(g)}
           /\ IsInjective(f \o g) =>
                 IsInjective(f \o Tail(g)) /\ Head(g) \notin ToSet(f \o Tail(g))
           /\ Within(f \o Tail(g), f \o g)
  <1> DEFINE a == f \o g
             b == f \o Tail(g)
             m == Len(f)
             n == Len(g)
  <1>0. /\ m \in Nat /\ n \in Nat /\ n > 0 /\ Tail(g) \in Seq(S) /\ Len(Tail(g)) = n - 1
        /\ Head(g) = g[1] /\ \A i \in 1..(n - 1) : Tail(g)[i] = g[i + 1]
    OBVIOUS
  <1>1. /\ m \in Nat /\ n \in Nat /\ n > 0 /\ b \in Seq(S)
        /\ DOMAIN a = 1..(m + n) /\ DOMAIN b = 1..(m + n - 1)
    BY <1>0
  <1>2. a[m + 1] = Head(g)
    BY <1>0, ConcatIs
  <1>3. \A i \in 1..(m + n - 1) : b[i] = IF i <= m THEN a[i] ELSE a[i + 1]
    BY <1>0, ConcatIs
  <1> HIDE DEF a, b, m, n
  <1> DEFINE at(i) == IF i <= m THEN i ELSE i + 1
  <1>4. \A i \in 1..(m + n - 1) : at(i) \in 1..(m + n) /\ at(i) # m + 1 /\ b[i] = a[at(i)]
    BY <1>1, <1>3
  <1>5. \A i, j \in 1..(m + n - 1) : i < j => at(i) < at(j)
    BY <1>1
  <1>6. \A i, j \in 1..(m + n - 1) : at(i) = at(j) => i = j
    BY <1>1
  <1> HIDE DEF at
  <1>7. ToSet(b) \subseteq ToSet(a) /\ Head(g) \in ToSet(a)
    <2>1. m + 1 \in 1..(m + n)
      BY <1>1
    <2>2. Head(g) \in ToSet(a)
      BY <1>1, <1>2, <2>1 DEF ToSet
    <2>3. ASSUME NEW e \in ToSet(b) PROVE e \in ToSet(a)
      BY <1>1, <1>4, <2>3 DEF ToSet
    <2>4. QED
      BY <2>2, <2>3
  <1>8. ASSUME NEW i \in 1..(m + n)
        PROVE  a[i] \in ToSet(b) \cup {Head(g)}
    <2>1. CASE i <= m
      BY <1>1, <1>3, <2>1 DEF ToSet
    <2>2. CASE i = m + 1
      BY <1>2, <2>2
    <2>3. CASE i > m + 1
      <3>1. i - 1 \in 1..(m + n - 1) /\ b[i - 1] = a[i]
        BY <1>1, <1>3, <2>3
      <3>2. QED
        BY <1>1, <3>1 DEF ToSet
    <2>4. QED
      BY <1>1, <2>1, <2>2, <2>3
  <1>9. ToSet(a) = ToSet(b) \cup {Head(g)}
    <2>1. \A e \in ToSet(a) : \E i \in 1..(m + n) : e = a[i]
      BY <1>1 DEF ToSet
    <2>2. QED
      BY <1>7, <1>8, <2>1
  <1>10. ASSUME IsInjective(a)
        PROVE  IsInjective(b) /\ Head(g) \notin ToSet(b)
    <2>1. m + 1 \in 1..(m + n)
      BY <1>1
    <2>2. IsInjective(b)
      BY <1>1, <1>10, <1>4, <1>6 DEF IsInjective
    <2>3. \A i \in 1..(m + n - 1) : b[i] # Head(g)
      BY <1>1, <1>2, <1>10, <1>4, <2>1 DEF IsInjective
    <2>4. QED
      BY <1>1, <2>2, <2>3 DEF ToSet
  <1>11. Within(b, a)
    BY <1>1, <1>4, <1>5 DEF Within
  <1>12. QED
    BY <1>1, <1>7, <1>9, <1>10, <1>11 DEF a, b

LEMMA OrderedAppend ==
    ASSUME NEW f \in Seq(EventId), NEW x \in EventId, Ordered(f),
           \A e \in ToSet(f) : e.by = x.by => e.n < x.n
    PROVE  Ordered(Append(f, x))
  <1> DEFINE g == Append(f, x)
  <1>1. /\ DOMAIN g = 1..(Len(f) + 1) /\ DOMAIN f = 1..Len(f) /\ Len(f) \in Nat
        /\ \A i \in 1..Len(f) : g[i] = f[i]
        /\ g[Len(f) + 1] = x
    BY AppendIs
  <1>2. \A i \in 1..Len(f) : f[i].by = x.by => f[i].n < x.n
    BY <1>1 DEF ToSet
  <1> HIDE DEF g
  <1>3. Ordered(g)
    <2> SUFFICES ASSUME NEW i \in DOMAIN g, NEW j \in DOMAIN g, i < j, g[i].by = g[j].by
                 PROVE  g[i].n < g[j].n
      BY DEF Ordered
    <2>1. CASE j \in 1..Len(f)
      BY <1>1, <2>1 DEF Ordered
    <2>2. CASE j = Len(f) + 1
      BY <1>1, <1>2, <2>2
    <2>3. QED
      BY <1>1, <2>1, <2>2
  <1>4. QED
    BY <1>3 DEF g

LEMMA OrderedWithin ==
    ASSUME NEW a, NEW b, Within(b, a), Ordered(a)
    PROVE  Ordered(b)
  BY DEF Ordered, Within

LEMMA OrderedDrop ==
    ASSUME NEW f \in Seq(EventId), NEW g \in Seq(EventId), g # <<>>, Ordered(f \o g)
    PROVE  Ordered(f \o Tail(g))
  <1>1. Within(f \o Tail(g), f \o g)
    BY DropHead
  <1>2. QED
    BY <1>1, OrderedWithin

------------------------------------------------------------------------------
(* Hydration.                                                              *)

LEMMA IntervalSize ==
    ASSUME NEW n \in Nat
    PROVE  IsFiniteSet(0..(n - 1)) /\ Cardinality(0..(n - 1)) = n
  <1> DEFINE b == n - 1
  <1>1. 0 \in Int /\ b \in Int /\ (IF 0 > b THEN 0 ELSE b - 0 + 1) = n
    OBVIOUS
  <1> HIDE DEF b
  <1>2. IsFiniteSet(0..b) /\ Cardinality(0..b) = IF 0 > b THEN 0 ELSE b - 0 + 1
    BY <1>1, FS_Interval
  <1>3. QED
    BY <1>1, <1>2 DEF b

\* How many numbers of D come before k.
Rank(D, k) == Cardinality({j \in D : j < k})

LEMMA RankIs ==
    ASSUME NEW D, IsFiniteSet(D), D \subseteq Nat
    PROVE  /\ \A k \in D : Rank(D, k) \in 0..(Cardinality(D) - 1)
           /\ \A j, k \in D : j < k => Rank(D, j) < Rank(D, k)
  <1> DEFINE Below(k) == {j \in D : j < k}
  <1>1. ASSUME NEW k \in D
        PROVE  IsFiniteSet(Below(k)) /\ Cardinality(Below(k)) \in Nat
               /\ Cardinality(Below(k)) < Cardinality(D)
    <2>1. Below(k) \subseteq D /\ k \notin Below(k) /\ Below(k) # D
      OBVIOUS
    <2> HIDE DEF Below
    <2>2. IsFiniteSet(Below(k)) /\ Cardinality(Below(k)) <= Cardinality(D)
          /\ Cardinality(Below(k)) # Cardinality(D)
      BY <2>1, FS_Subset
    <2>3. Cardinality(Below(k)) \in Nat /\ Cardinality(D) \in Nat
      BY <2>2, FS_CardinalityType
    <2>4. QED
      BY <2>2, <2>3
  <1>2. ASSUME NEW j \in D, NEW k \in D, j < k
        PROVE  Cardinality(Below(j)) < Cardinality(Below(k))
    <2>0. j \in Nat /\ k \in Nat /\ \A i \in Nat : i < j => i < k
      BY <1>2
    <2>1. /\ j \in Below(k) /\ j \notin Below(j)
          /\ Below(j) \subseteq Below(k)
      <3>1. j \in Below(k) /\ j \notin Below(j)
        BY <1>2, <2>0
      <3>2. Below(j) \subseteq Below(k)
        BY <2>0
      <3>3. QED
        BY <3>1, <3>2
    <2>2. /\ IsFiniteSet(Below(k)) /\ Cardinality(Below(k)) \in Nat
          /\ Cardinality(Below(j)) \in Nat
      BY <1>1
    <2> HIDE DEF Below
    <2>3. /\ Cardinality(Below(j)) <= Cardinality(Below(k))
          /\ Cardinality(Below(j)) # Cardinality(Below(k))
      BY <2>1, <2>2, FS_Subset
    <2>4. QED
      BY <2>2, <2>3
  <1>3. Cardinality(D) \in Nat
    BY FS_CardinalityType
  <1>4. \A k : Rank(D, k) = Cardinality(Below(k))
    BY DEF Rank
  <1> HIDE DEF Below
  <1>5. QED
    BY <1>1, <1>2, <1>3, <1>4

\* Hydration takes the rows in the order of their numbers, each once.
LEMMA HydratedIs ==
    ASSUME IsFiniteSet(DOMAIN rows), DOMAIN rows \subseteq Nat
    PROVE  /\ Cardinality(DOMAIN rows) \in Nat
           /\ \E pos \in [1..Cardinality(DOMAIN rows) -> DOMAIN rows] :
                 /\ \A i \in 1..Cardinality(DOMAIN rows) : Rank(DOMAIN rows, pos[i]) = i - 1
                 /\ \A i, j \in 1..Cardinality(DOMAIN rows) : i < j => pos[i] < pos[j]
                 /\ Hydrated = [i \in 1..Cardinality(DOMAIN rows) |-> rows[pos[i]]]
  <1> DEFINE D == DOMAIN rows
             n == Cardinality(D)
             r == [k \in D |-> Rank(D, k)]
             pos == [i \in 1..n |-> CHOOSE k \in D : Rank(D, k) = i - 1]
  <1>0. IsFiniteSet(D) /\ D \subseteq Nat
    OBVIOUS
  <1>1. n \in Nat
    BY <1>0, FS_CardinalityType
  <1>2. Hydrated = [i \in 1..n |-> rows[CHOOSE k \in D : Rank(D, k) = i - 1]]
    BY DEF Hydrated, Rank
  <1> HIDE DEF D
  <1>3. /\ \A k \in D : Rank(D, k) \in 0..(n - 1)
        /\ \A j, k \in D : j < k => Rank(D, j) < Rank(D, k)
    BY <1>0, RankIs
  <1>4. IsFiniteSet(0..(n - 1)) /\ Cardinality(0..(n - 1)) = n
    BY <1>1, IntervalSize
  <1>5. \A m \in 0..(n - 1) : \E k \in D : Rank(D, k) = m
    <2>1. \A j, k \in D : Rank(D, j) = Rank(D, k) => j = k
      BY <1>0, <1>1, <1>3
    <2>2. r \in [D -> 0..(n - 1)] /\ \A j, k \in D : r[j] = r[k] => j = k
      BY <1>3, <2>1
    <2>3. r \in Injection(D, 0..(n - 1))
      BY <2>2 DEF Injection, IsInjective
    <2> HIDE DEF r, n
    <2>4. r \in Surjection(D, 0..(n - 1))
      BY <1>4, <2>3, FS_Injection DEF n
    <2>5. \A m \in 0..(n - 1) : \E k \in D : r[k] = m
      BY <2>4 DEF Surjection
    <2>6. QED
      BY <2>5 DEF r
  <1> HIDE DEF n
  <1>6. \A i \in 1..n : i - 1 \in 0..(n - 1)
    BY <1>1
  <1>7. \A i \in 1..n : \E k \in D : Rank(D, k) = i - 1
    BY <1>5, <1>6
  <1>8. pos \in [1..n -> D] /\ \A i \in 1..n : Rank(D, pos[i]) = i - 1
    BY <1>7
  <1>9. Hydrated = [i \in 1..n |-> rows[pos[i]]]
    BY <1>2
  <1> HIDE DEF pos
  <1>10. ASSUME NEW i \in 1..n, NEW j \in 1..n, i < j
         PROVE  pos[i] < pos[j]
    <2>1. /\ pos[i] \in D /\ pos[j] \in D /\ pos[i] \in Nat /\ pos[j] \in Nat
          /\ Rank(D, pos[i]) = i - 1 /\ Rank(D, pos[j]) = j - 1
      BY <1>0, <1>8
    <2>2. pos[i] # pos[j]
      BY <1>1, <1>10, <2>1
    <2>3. ~(pos[j] < pos[i])
      <3>1. pos[j] < pos[i] => j - 1 < i - 1
        BY <1>3, <2>1
      <3>2. QED
        BY <1>1, <1>10, <3>1
    <2>4. QED
      BY <2>1, <2>2, <2>3
  <1>11. QED
    BY <1>1, <1>8, <1>9, <1>10 DEF D, n

------------------------------------------------------------------------------
(* Types.                                                                  *)

LEMMA InitType == Init => TypeInv
  <1> SUFFICES ASSUME Init PROVE TypeInv
    OBVIOUS
  <1>1. DOMAIN rows = {} /\ IsFiniteSet(DOMAIN rows)
    BY FS_EmptySet DEF Init
  <1>2. \A t \in Thread : [by |-> t, n |-> 0] \in EventId
    BY DEF EventId
  <1>3. /\ status \in Status /\ dbStatus \in Status /\ events \in Seq(EventId)
        /\ subs \subseteq Streams /\ engine \in {"running", "ended"} /\ crashes \in 0..MaxCrashes
        /\ overlapped = FALSE
    BY DEF Init, Status
  <1>4. /\ ready \in [Streams -> Seq(EventId)] /\ queue \in [Streams -> Seq(EventId)]
        /\ \A s \in Streams : Len(queue[s]) <= MaxQueue
        /\ backlog \in [Streams -> Seq(EventId)] /\ sent \in [Streams -> Seq(EventId)]
        /\ dropped \in [Streams -> SUBSET EventId]
        /\ spc \in [Streams -> {"off", "live", "ended"}]
    BY DEF Init
  <1>5. /\ pc \in [Thread -> Pc] /\ after \in [Thread -> Pc] /\ ev \in [Thread -> EventId]
        /\ todo \in [Thread -> SUBSET Streams] /\ seq \in [Thread -> Nat]
        /\ scalars \in [Thread -> Status] /\ emitted \in [Thread -> Nat]
        /\ \A t \in Thread : pc[t] # "notify" /\ after[t] \in Idle
    BY <1>2 DEF Init, Pc, Idle, Status
  <1>6. QED
    BY <1>1, <1>3, <1>4, <1>5 DEF TypeInv, TypeOK

\* The log a new process hydrates is a sequence of events.
LEMMA HydratedType == TypeInv => Hydrated \in Seq(EventId)
  <1> SUFFICES ASSUME TypeInv PROVE Hydrated \in Seq(EventId)
    OBVIOUS
  <1>1. /\ IsFiniteSet(DOMAIN rows) /\ DOMAIN rows \subseteq Nat
        /\ \A k \in DOMAIN rows : rows[k] \in EventId
    BY DEF TypeInv, TypeOK
  <1> DEFINE n == Cardinality(DOMAIN rows)
  <1>2. n \in Nat /\ \E pos \in [1..n -> DOMAIN rows] : Hydrated = [i \in 1..n |-> rows[pos[i]]]
    BY <1>1, HydratedIs
  <1> HIDE DEF n
  <1>3. Hydrated \in [1..n -> EventId]
    BY <1>1, <1>2
  <1>4. QED
    BY <1>2, <1>3

LEMMA StepType == TypeInv /\ [Next]_vars => TypeInv'
  <1> SUFFICES ASSUME TypeInv, [Next]_vars PROVE TypeInv'
    OBVIOUS
  <1> USE DEF memVars, streamVars, dbVars, opVars, histVars
  <1>1. ASSUME NEW t \in Thread, append_event(t) PROVE TypeInv'
    <2> DEFINE e == [by |-> t, n |-> emitted[t] + 1]
    <2>1. e \in EventId
      BY DEF EventId, TypeInv, TypeOK
    <2>2. /\ ev' = [ev EXCEPT ![t] = e] /\ events' = Append(events, e)
          /\ emitted' = [emitted EXCEPT ![t] = @ + 1]
          /\ todo' = [todo EXCEPT ![t] = subs] /\ pc' = [pc EXCEPT ![t] = "notify"]
          /\ UNCHANGED <<status, streamVars, dbVars, after, seq, scalars, engine, histVars>>
      BY <1>1 DEF append_event, Goto
    <2> HIDE DEF e
    <2>3. events' \in Seq(EventId) /\ Len(events') > 0
      BY <2>1, <2>2 DEF TypeInv, TypeOK
    <2>4. QED
      BY <2>1, <2>2, <2>3 DEF TypeInv, TypeOK, Pc
  <1>2. ASSUME NEW t \in Thread, Notify(t) PROVE TypeInv'
    BY <1>2 DEF Notify, TypeInv, TypeOK
  <1>3. ASSUME NEW t \in Thread, ReadSeq(t) PROVE TypeInv'
    <2>1. Len(events) - 1 \in Nat
      BY <1>3 DEF ReadSeq, TypeInv, TypeOK
    <2>2. QED
      BY <1>3, <2>1 DEF ReadSeq, Goto, TypeInv, TypeOK, Pc
  <1>4. ASSUME NEW t \in Thread, InsertEvent(t) PROVE TypeInv'
    <2>1. IsFiniteSet(DOMAIN rows \cup {seq[t]})
      BY FS_AddElement DEF TypeInv
    <2>2. /\ DOMAIN rows' = DOMAIN rows \cup {seq[t]}
          /\ \A k \in DOMAIN rows' : rows'[k] = IF k = seq[t] THEN ev[t] ELSE rows[k]
      BY <1>4 DEF InsertEvent
    <2>3. IsFiniteSet(DOMAIN rows')
      BY <2>1, <2>2
    <2>4. DOMAIN rows' \subseteq Nat /\ \A k \in DOMAIN rows' : rows'[k] \in EventId
      BY <2>2 DEF TypeInv, TypeOK
    <2>5. QED
      BY <1>4, <2>3, <2>4 DEF InsertEvent, Goto, TypeInv, TypeOK, Pc
  <1>5. ASSUME NEW t \in Thread, ReadScalars(t) PROVE TypeInv'
    BY <1>5 DEF ReadScalars, Goto, TypeInv, TypeOK, Pc
  <1>6. ASSUME NEW t \in Thread, PersistRecord(t) PROVE TypeInv'
    BY <1>6 DEF PersistRecord, TypeInv, TypeOK, Pc, Idle
  <1>7. ASSUME Emit PROVE TypeInv'
    BY <1>7 DEF Emit, Goto, Enter, TypeInv, TypeOK, Pc, Thread
  <1>8. ASSUME RunComplete PROVE TypeInv'
    <2>1. CASE status = "cancelled"
      BY <1>8, <2>1 DEF RunComplete, Goto, TypeInv, TypeOK, Pc, Idle, Thread
    <2>2. CASE status # "cancelled"
      BY <1>8, <2>2 DEF RunComplete, upsert, Goto, Enter, TypeInv, TypeOK, Pc, Status, Terminal, Idle,
                    Thread
    <2>3. QED
      BY <2>1, <2>2
  <1>9. ASSUME RunFailed PROVE TypeInv'
    <2>1. CASE status = "cancelled"
      BY <1>9, <2>1 DEF RunFailed, Goto, TypeInv, TypeOK, Pc, Idle, Thread
    <2>2. CASE status # "cancelled"
      BY <1>9, <2>2 DEF RunFailed, Goto, Enter, TypeInv, TypeOK, Pc, Idle,
                    Thread
    <2>3. QED
      BY <2>1, <2>2
  <1>10. ASSUME FinalizeFailure PROVE TypeInv'
    <2>1. CASE status = "cancelled"
      BY <1>10, <2>1 DEF FinalizeFailure, Goto, TypeInv, TypeOK, Pc, Idle, Thread
    <2>2. CASE status # "cancelled"
      BY <1>10, <2>2 DEF FinalizeFailure, upsert, Goto, Enter, TypeInv, TypeOK, Pc, Status, Terminal, Idle,
                    Thread
    <2>3. QED
      BY <2>1, <2>2
  <1>11. ASSUME NEW c \in Cancellers, CancelCheck(c) PROVE TypeInv'
    BY <1>11 DEF CancelCheck, Goto, TypeInv, TypeOK, Pc, Idle, Thread
  <1>12. ASSUME NEW c \in Cancellers, CancelMark(c) PROVE TypeInv'
    BY <1>12 DEF CancelMark, upsert, Goto, Enter, TypeInv, TypeOK, Pc, Status, Terminal, Idle,
                 Thread
  <1>13. ASSUME NEW s \in Streams, Subscribe(s) PROVE TypeInv'
    BY <1>13 DEF Subscribe, TypeInv, TypeOK
  <1>14. ASSUME NEW s \in Streams, SendBacklog(s) PROVE TypeInv'
    BY <1>14 DEF SendBacklog, TypeInv, TypeOK
  <1>15. ASSUME NEW s \in Streams, SendLive(s) PROVE TypeInv'
    BY <1>15 DEF SendLive, TypeInv, TypeOK
  <1>16. ASSUME NEW s \in Streams, StreamEnd(s) PROVE TypeInv'
    BY <1>16 DEF StreamEnd, TypeInv, TypeOK
  <1>17. ASSUME NEW s \in Streams, _safe_put(s) PROVE TypeInv'
    <2>1. /\ Head(ready[s]) \in EventId /\ Tail(ready[s]) \in Seq(EventId)
          /\ ready' = [ready EXCEPT ![s] = Tail(@)]
          /\ queue[s] \in Seq(EventId)
      BY <1>17 DEF _safe_put, TypeInv, TypeOK
    <2>2. ready' \in [Streams -> Seq(EventId)]
      BY <2>1 DEF TypeInv, TypeOK
    <2>3. CASE Len(queue[s]) < MaxQueue
      <3>1. queue' = [queue EXCEPT ![s] = Append(@, Head(ready[s]))] /\ dropped' = dropped
        BY <1>17, <2>3 DEF _safe_put
      <3>2. /\ Append(queue[s], Head(ready[s])) \in Seq(EventId)
            /\ Len(Append(queue[s], Head(ready[s]))) <= MaxQueue
        BY <2>1, <2>3
      <3>3. QED
        BY <1>17, <2>2, <3>1, <3>2 DEF _safe_put, TypeInv, TypeOK
    <2>4. CASE ~(Len(queue[s]) < MaxQueue)
      BY <1>17, <2>1, <2>2, <2>4 DEF _safe_put, TypeInv, TypeOK
    <2>5. QED
      BY <2>3, <2>4
  <1>18. ASSUME Restart PROVE TypeInv'
    <2>1. events' \in Seq(EventId)
      BY <1>18, HydratedType DEF Restart
    <2>2. QED
      BY <1>18, <2>1 DEF Restart, TypeInv, TypeOK, Pc, Idle
  <1>19. CASE UNCHANGED vars
    BY <1>19 DEF vars, TypeInv, TypeOK
  <1>20. QED
    BY <1>1, <1>2, <1>3, <1>4, <1>5, <1>6, <1>7, <1>8, <1>9, <1>10, <1>11, <1>12, <1>13, <1>14,
       <1>15, <1>16, <1>17, <1>18, <1>19 DEF Next, StoreStep, EngineEnds, StreamStep

\* Every variable keeps its type, and no queue grows past its limit, whatever the
\* streams, the threads and the crashes do (_safe_put of runner/store.py).
THEOREM TypeOKHolds == Spec => []TypeOK
  <1>1. Init => TypeInv
    BY InitType
  <1>2. TypeInv /\ [Next]_vars => TypeInv'
    BY StepType
  <1>3. TypeInv => TypeOK
    BY DEF TypeInv
  <1>4. QED
    BY <1>1, <1>2, <1>3, PTL DEF Spec

------------------------------------------------------------------------------
(* The steps that touch neither the log, nor the table's events, nor a stream. *)

Elsewhere ==
    /\ UNCHANGED <<events, streamVars, rows, ev, todo, seq, emitted, crashes>>
    /\ \A t \in Thread : pc'[t] = pc[t] \/ (~Writing(t) /\ ~Writing(t)')
    /\ overlapped' = FALSE => overlapped = FALSE

LEMMA EnterOverlaps ==
    ASSUME TypeInv, NEW t, Enter(t), overlapped' = FALSE
    PROVE  overlapped = FALSE /\ \A u \in Thread \ {t} : pc[u] \in Idle
  <1>1. overlapped \in BOOLEAN
    BY DEF TypeInv, TypeOK
  <1>2. (overlapped \/ \E u \in Thread \ {t} : pc[u] \notin Idle) = FALSE
    BY Zenon DEF Enter
  <1>3. QED
    BY <1>1, <1>2

LEMMA StepCases ==
    ASSUME TypeInv, [Next]_vars
    PROVE  \/ \E t \in Thread : append_event(t) \/ Notify(t) \/ ReadSeq(t) \/ InsertEvent(t)
           \/ \E s \in Streams : Subscribe(s) \/ SendBacklog(s) \/ SendLive(s) \/ StreamEnd(s)
                                 \/ _safe_put(s)
           \/ Elsewhere \/ Restart
  <1> USE DEF memVars, streamVars, dbVars, opVars, histVars
  <1>0. pc \in [Thread -> Pc] /\ Loop \in Thread /\ Cancellers \subseteq Thread
    BY DEF TypeInv, TypeOK, Thread
  <1>1. ASSUME NEW t \in Thread, ReadScalars(t) PROVE Elsewhere
    BY <1>0, <1>1 DEF ReadScalars, Goto, Elsewhere, Writing
  <1>2. ASSUME NEW t \in Thread, PersistRecord(t) PROVE Elsewhere
    <2>1. after[t] \in Idle \cup {"append", "mark"}
      BY DEF TypeInv
    <2>2. QED
      BY <1>0, <1>2, <2>1 DEF PersistRecord, Elsewhere, Writing, Idle
  <1>3. ASSUME Emit PROVE Elsewhere
    BY <1>0, <1>3, EnterOverlaps DEF Emit, LoopFree, Goto, Elsewhere, Writing
  <1>4. ASSUME RunComplete PROVE Elsewhere
    BY <1>0, <1>4, EnterOverlaps DEF RunComplete, LoopFree, upsert, Goto, Elsewhere, Writing
  <1>5. ASSUME RunFailed PROVE Elsewhere
    BY <1>0, <1>5, EnterOverlaps DEF RunFailed, LoopFree, Goto, Elsewhere, Writing
  <1>6. ASSUME FinalizeFailure PROVE Elsewhere
    BY <1>0, <1>6, EnterOverlaps DEF FinalizeFailure, upsert, Goto, Elsewhere, Writing
  <1>7. ASSUME NEW c \in Cancellers, CancelCheck(c) PROVE Elsewhere
    BY <1>0, <1>7 DEF CancelCheck, Goto, Elsewhere, Writing
  <1>8. ASSUME NEW c \in Cancellers, CancelMark(c) PROVE Elsewhere
    BY <1>0, <1>8, EnterOverlaps DEF CancelMark, upsert, Goto, Elsewhere, Writing
  <1>9. CASE UNCHANGED vars
    BY <1>9 DEF vars, Elsewhere
  <1>10. QED
    BY <1>1, <1>2, <1>3, <1>4, <1>5, <1>6, <1>7, <1>8, <1>9
       DEF Next, StoreStep, EngineEnds, StreamStep

------------------------------------------------------------------------------
(* Every event is appended and inserted once.                              *)

LEMMA InitLog == Init => LogInv
  BY DEF Init, LogInv, IsInjective, Writing

LEMMA KeepLog ==
    ASSUME LogInv, UNCHANGED <<events, rows, ev, todo, emitted>>,
           \A t \in Thread : Writing(t)' => Writing(t),
           \A t \in Thread : pc[t] = "notify" => pc'[t] = "notify" \/ todo[t] = {}
    PROVE  LogInv'
  BY DEF LogInv, Numbered

LEMMA HydratedInjective ==
    ASSUME TypeInv, LogInv
    PROVE  IsInjective(Hydrated) /\ \A e \in ToSet(Hydrated) : \E k \in DOMAIN rows : e = rows[k]
  <1> DEFINE n == Cardinality(DOMAIN rows)
  <1>1. IsFiniteSet(DOMAIN rows) /\ DOMAIN rows \subseteq Nat
    BY DEF TypeInv, TypeOK
  <1>2. n \in Nat
    BY <1>1, HydratedIs
  <1>3. PICK pos \in [1..n -> DOMAIN rows] :
              /\ \A i, j \in 1..n : i < j => pos[i] < pos[j]
              /\ Hydrated = [i \in 1..n |-> rows[pos[i]]]
    BY <1>1, HydratedIs
  <1> HIDE DEF n
  <1>4. \A i, j \in 1..n : pos[i] = pos[j] => i = j
    <2> SUFFICES ASSUME NEW i \in 1..n, NEW j \in 1..n, pos[i] = pos[j] PROVE i = j
      OBVIOUS
    <2>1. i \in Nat /\ j \in Nat /\ pos[i] \in Nat
      BY <1>1, <1>2, <1>3
    <2>2. ~(i < j) /\ ~(j < i)
      BY <1>3, <2>1
    <2>3. QED
      BY <2>1, <2>2
  <1>5. \A i, j \in 1..n : rows[pos[i]] = rows[pos[j]] => i = j
    BY <1>3, <1>4 DEF LogInv
  <1>6. QED
    BY <1>3, <1>5 DEF IsInjective, ToSet

LEMMA StepLog == TypeInv /\ LogInv /\ [Next]_vars => LogInv'
  <1> SUFFICES ASSUME TypeInv, LogInv, [Next]_vars PROVE LogInv'
    OBVIOUS
  <1> USE DEF memVars, streamVars, dbVars, opVars, histVars
  <1>0. /\ events \in Seq(EventId) /\ pc \in [Thread -> Pc] /\ ev \in [Thread -> EventId]
        /\ todo \in [Thread -> SUBSET Streams] /\ emitted \in [Thread -> Nat]
        /\ \A k \in DOMAIN rows : rows[k] \in EventId
    BY DEF TypeInv, TypeOK
  <1>1. ASSUME NEW t \in Thread, append_event(t) PROVE LogInv'
    <2> DEFINE e == [by |-> t, n |-> emitted[t] + 1]
               Num(x) == x.n <= emitted'[x.by]
    <2>1. /\ pc[t] = "append" /\ ev' = [ev EXCEPT ![t] = e] /\ events' = Append(events, e)
          /\ emitted' = [emitted EXCEPT ![t] = emitted[t] + 1]
          /\ todo' = [todo EXCEPT ![t] = subs] /\ pc' = [pc EXCEPT ![t] = "notify"]
          /\ rows' = rows
      BY <1>1 DEF append_event, Goto
    <2>2. e \in EventId /\ e.by = t /\ e.n = emitted[t] + 1
      BY <1>0 DEF EventId
    <2>3. ASSUME NEW x \in EventId, Numbered(x) PROVE x # e /\ Num(x)
      <3>1. x.by \in Thread /\ x.n \in Nat /\ x.n <= emitted[x.by]
        BY <2>3 DEF EventId, Numbered
      <3>2. x.n <= emitted'[x.by]
        BY <1>0, <2>1, <3>1
      <3>3. x # e
        BY <1>0, <2>2, <3>1
      <3>4. QED
        BY <3>2, <3>3
    <2>4. Num(e)
      BY <1>0, <2>1, <2>2
    <2>5. ev'[t] = [by |-> t, n |-> emitted'[t]]
      BY <1>0, <2>1
    <2> HIDE DEF e, Num
    <2>6. \A i \in DOMAIN events : events[i] \in EventId /\ events[i] # e /\ Num(events[i])
      BY <1>0, <2>3 DEF LogInv
    <2>7. e \notin ToSet(events)
      BY <2>6 DEF ToSet
    <2>8. IsInjective(events')
      BY <1>0, <2>1, <2>2, <2>7, AppendIs DEF LogInv
    <2>9. \A i \in DOMAIN events' : Num(events'[i])
      <3>1. /\ DOMAIN events' = 1..(Len(events) + 1) /\ events'[Len(events) + 1] = e
            /\ DOMAIN events = 1..Len(events) /\ \A i \in 1..Len(events) : events'[i] = events[i]
            /\ Len(events) \in Nat
        BY <1>0, <2>1, <2>2, AppendIs
      <3>2. QED
        BY <2>4, <2>6, <3>1
    <2>10. \A k \in DOMAIN rows : Num(rows[k]) /\ rows[k] # e
      BY <1>0, <2>3 DEF LogInv
    <2>11. \A u \in Thread \ {t} : ev'[u] = ev[u] /\ emitted'[u] = emitted[u] /\ pc'[u] = pc[u]
                                   /\ todo'[u] = todo[u]
      BY <1>0, <2>1
    <2>12. ev'[t] = e /\ pc'[t] = "notify"
      BY <1>0, <2>1
    <2>13. ASSUME NEW u \in Thread, Writing(u)'
           PROVE  ev'[u] = [by |-> u, n |-> emitted'[u]] /\ \A k \in DOMAIN rows : rows[k] # ev'[u]
      BY <2>5, <2>10, <2>11, <2>12, <2>13 DEF Writing, LogInv
    <2>14. QED
      BY <2>1, <2>8, <2>9, <2>10, <2>11, <2>12, <2>13 DEF LogInv, Num, Numbered
  <1>2. ASSUME NEW t \in Thread, Notify(t) PROVE LogInv'
    BY <1>0, <1>2 DEF Notify, LogInv, Numbered, Writing
  <1>3. ASSUME NEW t \in Thread, ReadSeq(t) PROVE LogInv'
    BY <1>0, <1>3, KeepLog DEF ReadSeq, Goto, Writing
  <1>4. ASSUME NEW t \in Thread, InsertEvent(t) PROVE LogInv'
    <2>1. /\ DOMAIN rows' = DOMAIN rows \cup {seq[t]}
          /\ \A k \in DOMAIN rows' : rows'[k] = IF k = seq[t] THEN ev[t] ELSE rows[k]
          /\ pc[t] = "insert" /\ pc' = [pc EXCEPT ![t] = "scalars"]
          /\ UNCHANGED <<events, ev, todo, emitted>>
      BY <1>4 DEF InsertEvent, Goto
    <2>2. /\ ev[t] = [by |-> t, n |-> emitted[t]] /\ Numbered(ev[t])
          /\ \A k \in DOMAIN rows : rows[k] # ev[t]
      BY <1>0, <2>1 DEF LogInv, Writing, Numbered
    <2>3. \A j, k \in DOMAIN rows' : rows'[j] = rows'[k] => j = k
      BY <2>1, <2>2 DEF LogInv
    <2>4. \A k \in DOMAIN rows' : Numbered(rows'[k])
      BY <2>1, <2>2 DEF LogInv
    <2>5. \A u \in Thread : Writing(u)' => Writing(u) /\ u # t
      BY <1>0, <2>1 DEF Writing
    <2>6. \A u \in Thread : Writing(u)' =>
              ev[u] = [by |-> u, n |-> emitted[u]] /\ \A k \in DOMAIN rows' : rows'[k] # ev[u]
      BY <2>1, <2>2, <2>5 DEF LogInv
    <2>7. \A u \in Thread : todo[u] # {} => pc'[u] = "notify"
      BY <1>0, <2>1 DEF LogInv
    <2>8. QED
      BY <2>1, <2>3, <2>4, <2>6, <2>7 DEF LogInv, Numbered
  <1>5. ASSUME Elsewhere PROVE LogInv'
    BY <1>5, KeepLog DEF Elsewhere, Writing
  <1>6. ASSUME NEW s \in Streams,
               Subscribe(s) \/ SendBacklog(s) \/ SendLive(s) \/ StreamEnd(s) \/ _safe_put(s)
        PROVE  LogInv'
    <2>1. UNCHANGED <<events, rows, ev, todo, emitted, pc>>
      BY <1>6 DEF Subscribe, SendBacklog, SendLive, StreamEnd, _safe_put
    <2>2. QED
      BY <2>1, KeepLog DEF Writing
  <1>7. ASSUME Restart PROVE LogInv'
    <2>1. /\ events' = Hydrated /\ UNCHANGED <<rows, ev, emitted>>
          /\ \A u \in Thread : pc'[u] \in Idle /\ todo'[u] = {}
      BY <1>7 DEF Restart, Idle
    <2>2. IsInjective(Hydrated) /\ \A e \in ToSet(Hydrated) : Numbered(e)
      BY HydratedInjective DEF LogInv
    <2>3. IsInjective(events') /\ \A i \in DOMAIN events' : Numbered(events'[i])
      BY <2>1, <2>2 DEF ToSet
    <2>4. QED
      BY <2>1, <2>3 DEF LogInv, Numbered, Writing, Idle
  <1>8. QED
    BY <1>1, <1>2, <1>3, <1>4, <1>5, <1>6, <1>7, StepCases

------------------------------------------------------------------------------
(* Every event comes to an open stream once.                               *)

LEMMA EmptyRight ==
    ASSUME NEW S, NEW f \in Seq(S)
    PROVE  f \o <<>> = f /\ <<>> \o f = f
  <1>1. f \o <<>> \in Seq(S) /\ <<>> \o f \in Seq(S)
    OBVIOUS
  <1>2. Len(f \o <<>>) = Len(f) /\ Len(<<>> \o f) = Len(f)
    OBVIOUS
  <1>3. \A i \in 1..Len(f) : (f \o <<>>)[i] = f[i] /\ (<<>> \o f)[i] = f[i]
    OBVIOUS
  <1>4. QED
    BY <1>1, <1>2, <1>3, SameSeq

LEMMA PartsType ==
    ASSUME TypeInv, NEW s \in Streams
    PROVE  /\ sent[s] \in Seq(EventId) /\ backlog[s] \in Seq(EventId)
           /\ queue[s] \in Seq(EventId) /\ ready[s] \in Seq(EventId)
           /\ sent[s] \o backlog[s] \in Seq(EventId)
           /\ sent[s] \o backlog[s] \o queue[s] \in Seq(EventId)
           /\ Feed(s) \in Seq(EventId)
  <1>1. /\ sent[s] \in Seq(EventId) /\ backlog[s] \in Seq(EventId)
        /\ queue[s] \in Seq(EventId) /\ ready[s] \in Seq(EventId)
    BY DEF TypeInv, TypeOK
  <1>2. sent[s] \o backlog[s] \in Seq(EventId)
    BY <1>1
  <1>3. sent[s] \o backlog[s] \o queue[s] \in Seq(EventId)
    BY <1>1, <1>2
  <1>4. QED
    BY <1>1, <1>2, <1>3 DEF Feed

\* A new event is in neither the log nor the table.
LEMMA AppendEvent ==
    ASSUME TypeInv, LogInv, NEW t \in Thread, append_event(t)
    PROVE  LET e == [by |-> t, n |-> emitted[t] + 1]
           IN  /\ e \in EventId /\ e \notin ToSet(events) /\ todo[t] = {}
               /\ events' = Append(events, e) /\ ToSet(events') = ToSet(events) \cup {e}
               /\ Len(events') = Len(events) + 1
               /\ ev'[t] = e /\ todo'[t] = subs
               /\ \A u \in Thread \ {t} : ev'[u] = ev[u] /\ todo'[u] = todo[u]
  <1> DEFINE e == [by |-> t, n |-> emitted[t] + 1]
  <1>0. /\ events \in Seq(EventId) /\ pc \in [Thread -> Pc] /\ ev \in [Thread -> EventId]
        /\ todo \in [Thread -> SUBSET Streams] /\ emitted \in [Thread -> Nat]
    BY DEF TypeInv, TypeOK
  <1>1. /\ pc[t] = "append" /\ ev' = [ev EXCEPT ![t] = e] /\ events' = Append(events, e)
        /\ todo' = [todo EXCEPT ![t] = subs]
    BY DEF append_event
  <1>2. e \in EventId /\ e.by = t /\ e.n = emitted[t] + 1
    BY <1>0 DEF EventId
  <1> HIDE DEF e
  <1>3. \A i \in DOMAIN events : events[i] # e
    <2> SUFFICES ASSUME NEW i \in DOMAIN events, events[i] = e PROVE FALSE
      OBVIOUS
    <2>1. e.n <= emitted[e.by]
      BY DEF LogInv, Numbered
    <2>2. QED
      BY <1>0, <1>2, <2>1
  <1>4. e \notin ToSet(events)
    BY <1>3 DEF ToSet
  <1>5. ToSet(events') = ToSet(events) \cup {e} /\ Len(events') = Len(events) + 1
    BY <1>0, <1>1, <1>2, AppendIs
  <1>6. todo[t] = {}
    BY <1>1 DEF LogInv
  <1>7. /\ ev'[t] = e /\ todo'[t] = subs
        /\ \A u \in Thread \ {t} : ev'[u] = ev[u] /\ todo'[u] = todo[u]
    BY <1>0, <1>1
  <1>8. QED
    BY <1>1, <1>2, <1>4, <1>5, <1>6, <1>7 DEF e

\* A notification adds its event at the end of one stream's feed.
LEMMA NotifyFeeds ==
    ASSUME TypeInv, NEW t \in Thread, Notify(t)
    PROVE  \E s \in Streams :
              /\ s \in todo[t] /\ Feed(s)' = Append(Feed(s), ev[t]) /\ ev[t] \in EventId
              /\ todo' = [todo EXCEPT ![t] = @ \ {s}]
              /\ \A r \in Streams \ {s} : Feed(r)' = Feed(r) /\ ready'[r] = ready[r]
  <1>0. /\ todo \in [Thread -> SUBSET Streams] /\ ready \in [Streams -> Seq(EventId)]
        /\ ev[t] \in EventId
    BY DEF TypeInv, TypeOK
  <1>1. PICK s \in Streams :
              /\ s \in todo[t] /\ todo' = [todo EXCEPT ![t] = @ \ {s}]
              /\ ready' = [ready EXCEPT ![s] = Append(@, ev[t])]
              /\ UNCHANGED <<sent, backlog, queue>>
    BY <1>0 DEF Notify
  <1>2. ready'[s] = Append(ready[s], ev[t]) /\ \A r \in Streams \ {s} : ready'[r] = ready[r]
    BY <1>0, <1>1
  <1>3. Feed(s)' = (sent[s] \o backlog[s] \o queue[s]) \o Append(ready[s], ev[t])
    BY <1>1, <1>2 DEF Feed
  <1>4. /\ sent[s] \o backlog[s] \o queue[s] \in Seq(EventId) /\ ready[s] \in Seq(EventId)
        /\ Feed(s) = (sent[s] \o backlog[s] \o queue[s]) \o ready[s]
    BY PartsType DEF Feed
  <1>5. Feed(s)' = Append(Feed(s), ev[t])
    <2> DEFINE f == sent[s] \o backlog[s] \o queue[s]
               g == ready[s]
               x == ev[t]
    <2>1. f \in Seq(EventId) /\ g \in Seq(EventId) /\ x \in EventId
      BY <1>0, <1>4
    <2>2. Feed(s)' = f \o Append(g, x) /\ Feed(s) = f \o g
      BY <1>3, <1>4
    <2> HIDE DEF f, g, x
    <2>3. f \o Append(g, x) = Append(f \o g, x)
      BY <2>1, AppendSecond
    <2>4. Feed(s)' = Append(Feed(s), x)
      BY <2>2, <2>3
    <2>5. QED
      BY <2>4 DEF x
  <1>6. \A r \in Streams \ {s} : Feed(r)' = Feed(r)
    BY <1>1, <1>2 DEF Feed
  <1>7. QED
    BY <1>0, <1>1, <1>2, <1>5, <1>6

\* Sending, and a delivery that finds room, move an event along the feed.
LEMMA SendBacklogFeed ==
    ASSUME TypeInv, NEW s \in Streams, SendBacklog(s)
    PROVE  \A r \in Streams : Feed(r)' = Feed(r)
  <1>0. /\ sent \in [Streams -> Seq(EventId)] /\ backlog \in [Streams -> Seq(EventId)]
    BY DEF TypeInv, TypeOK
  <1>1. /\ sent' = [sent EXCEPT ![s] = Append(@, Head(backlog[s]))]
        /\ backlog' = [backlog EXCEPT ![s] = Tail(@)]
        /\ backlog[s] # <<>> /\ UNCHANGED <<queue, ready>>
    BY DEF SendBacklog
  <1>2. sent'[s] = Append(sent[s], Head(backlog[s])) /\ backlog'[s] = Tail(backlog[s])
    BY <1>0, <1>1
  <1>3. sent[s] \in Seq(EventId) /\ backlog[s] \in Seq(EventId)
    BY <1>0
  <1>4. sent'[s] \o backlog'[s] = sent[s] \o backlog[s]
    <2> DEFINE f == sent[s]
               g == backlog[s]
    <2>1. f \in Seq(EventId) /\ g \in Seq(EventId) /\ g # <<>>
      BY <1>1, <1>3
    <2>2. sent'[s] = Append(f, Head(g)) /\ backlog'[s] = Tail(g)
      BY <1>2
    <2> HIDE DEF f, g
    <2>3. Append(f, Head(g)) \o Tail(g) = f \o g /\ Append(f, Head(g)) \in Seq(EventId)
      BY <2>1, MoveHead
    <2>4. sent'[s] \o backlog'[s] = f \o g
      BY <2>2, <2>3
    <2>5. QED
      BY <2>4 DEF f, g
  <1>5. Feed(s)' = Feed(s)
    BY <1>1, <1>4 DEF Feed
  <1>6. ASSUME NEW r \in Streams, r # s PROVE Feed(r)' = Feed(r)
    <2>1. sent'[r] = sent[r] /\ backlog'[r] = backlog[r]
      BY <1>0, <1>1, <1>6
    <2>2. QED
      BY <1>1, <2>1 DEF Feed
  <1>7. QED
    BY <1>5, <1>6

LEMMA SendLiveFeed ==
    ASSUME TypeInv, NEW s \in Streams, SendLive(s)
    PROVE  \A r \in Streams : Feed(r)' = Feed(r)
  <1>0. /\ sent \in [Streams -> Seq(EventId)] /\ queue \in [Streams -> Seq(EventId)]
    BY DEF TypeInv, TypeOK
  <1>1. /\ sent' = [sent EXCEPT ![s] = Append(@, Head(queue[s]))]
        /\ queue' = [queue EXCEPT ![s] = Tail(@)]
        /\ queue[s] # <<>> /\ backlog[s] = <<>> /\ UNCHANGED <<backlog, ready>>
    BY DEF SendLive
  <1>2. sent'[s] = Append(sent[s], Head(queue[s])) /\ queue'[s] = Tail(queue[s])
    BY <1>0, <1>1
  <1>3. sent[s] \in Seq(EventId) /\ queue[s] \in Seq(EventId)
    BY <1>0
  <1>4. sent'[s] \o queue'[s] = sent[s] \o queue[s] /\ sent'[s] \in Seq(EventId)
    <2> DEFINE f == sent[s]
               g == queue[s]
    <2>1. f \in Seq(EventId) /\ g \in Seq(EventId) /\ g # <<>>
      BY <1>1, <1>3
    <2>2. sent'[s] = Append(f, Head(g)) /\ queue'[s] = Tail(g)
      BY <1>2
    <2> HIDE DEF f, g
    <2>3. Append(f, Head(g)) \o Tail(g) = f \o g /\ Append(f, Head(g)) \in Seq(EventId)
      BY <2>1, MoveHead
    <2>4. sent'[s] \o queue'[s] = f \o g /\ sent'[s] \in Seq(EventId)
      BY <2>2, <2>3
    <2>5. QED
      BY <2>4 DEF f, g
  <1>5. sent[s] \o backlog[s] = sent[s] /\ sent'[s] \o backlog'[s] = sent'[s]
    BY <1>1, <1>3, <1>4, EmptyRight
  <1>6. Feed(s)' = Feed(s)
    BY <1>1, <1>4, <1>5 DEF Feed
  <1>7. ASSUME NEW r \in Streams, r # s PROVE Feed(r)' = Feed(r)
    <2>1. sent'[r] = sent[r] /\ queue'[r] = queue[r]
      BY <1>0, <1>1, <1>7
    <2>2. QED
      BY <1>1, <2>1 DEF Feed
  <1>8. QED
    BY <1>6, <1>7

LEMMA PutFeed ==
    ASSUME TypeInv, NEW s \in Streams, _safe_put(s)
    PROVE  /\ \A r \in Streams \ {s} : Feed(r)' = Feed(r) /\ dropped'[r] = dropped[r]
           /\ \/ Feed(s)' = Feed(s) /\ dropped' = dropped
              \/ \E f, g \in Seq(EventId) :
                    /\ g # <<>> /\ Feed(s) = f \o g /\ Feed(s)' = f \o Tail(g)
                    /\ dropped'[s] = dropped[s] \cup {Head(g)}
  <1>0. /\ ready \in [Streams -> Seq(EventId)] /\ queue \in [Streams -> Seq(EventId)]
        /\ dropped \in [Streams -> SUBSET EventId]
    BY DEF TypeInv, TypeOK
  <1>1. /\ ready' = [ready EXCEPT ![s] = Tail(@)] /\ ready[s] # <<>>
        /\ UNCHANGED <<sent, backlog>>
        /\ \/ /\ queue' = [queue EXCEPT ![s] = Append(@, Head(ready[s]))]
              /\ dropped' = dropped
           \/ /\ dropped' = [dropped EXCEPT ![s] = @ \cup {Head(ready[s])}]
              /\ queue' = queue
    BY DEF _safe_put
  <1>2. ASSUME NEW r \in Streams, r # s PROVE Feed(r)' = Feed(r) /\ dropped'[r] = dropped[r]
    <2>1. ready'[r] = ready[r] /\ queue'[r] = queue[r] /\ dropped'[r] = dropped[r]
      BY <1>0, <1>1, <1>2
    <2>2. QED
      BY <1>1, <2>1 DEF Feed
  <1> DEFINE f == sent[s] \o backlog[s]
             q == queue[s]
             g == ready[s]
  <1>3. f \in Seq(EventId) /\ q \in Seq(EventId) /\ g \in Seq(EventId) /\ f \o q \in Seq(EventId)
    BY PartsType
  <1>4. Feed(s) = (f \o q) \o g /\ ready'[s] = Tail(g) /\ g # <<>>
    BY <1>0, <1>1 DEF Feed
  <1>5. Feed(s)' = (f \o queue'[s]) \o Tail(g)
    BY <1>1, <1>4 DEF Feed
  <1>6. CASE queue' = [queue EXCEPT ![s] = Append(@, Head(ready[s]))] /\ dropped' = dropped
    <2>1. queue'[s] = Append(q, Head(g))
      BY <1>0, <1>6
    <2> HIDE DEF f, q, g
    <2>2. Head(g) \in EventId /\ Append(f \o q, Head(g)) \o Tail(g) = (f \o q) \o g
      <3> DEFINE h == f \o q
      <3>1. h \in Seq(EventId) /\ g \in Seq(EventId) /\ g # <<>>
        BY <1>3, <1>4
      <3> HIDE DEF h
      <3>2. Head(g) \in EventId /\ Append(h, Head(g)) \o Tail(g) = h \o g
        BY <3>1, MoveHead
      <3>3. QED
        BY <3>2 DEF h
    <2>3. f \o Append(q, Head(g)) = Append(f \o q, Head(g))
      BY <1>3, <2>2, AppendSecond
    <2>4. Feed(s)' = Feed(s)
      BY <1>4, <1>5, <2>1, <2>2, <2>3
    <2>5. QED
      BY <1>2, <1>6, <2>4
  <1>7. CASE dropped' = [dropped EXCEPT ![s] = @ \cup {Head(ready[s])}] /\ queue' = queue
    <2>1. queue'[s] = q /\ dropped'[s] = dropped[s] \cup {Head(g)}
      BY <1>0, <1>7
    <2> HIDE DEF f, q, g
    <2>2. Feed(s) = (f \o q) \o g /\ Feed(s)' = (f \o q) \o Tail(g)
      BY <1>4, <1>5, <2>1
    <2>3. QED
      BY <1>2, <1>3, <1>4, <2>1, <2>2
  <1>8. QED
    BY <1>1, <1>6, <1>7

LEMMA InitStream == Init => StreamInv
  BY DEF Init, StreamInv, Served, Fresh

LEMMA KeepServed ==
    ASSUME NEW s \in Streams, Served(s), UNCHANGED <<events, ev>>, Feed(s)' = Feed(s),
           \A t \in Thread : s \in todo'[t] <=> s \in todo[t],
           s \in subs' <=> s \in subs, spc'[s] = spc[s], dropped'[s] = dropped[s],
           spc[s] = "off" => /\ sent'[s] = sent[s] /\ backlog'[s] = backlog[s]
                             /\ queue'[s] = queue[s] /\ ready'[s] = ready[s]
    PROVE  Served(s)'
  <1>1. Fresh(s) /\ spc[s] = "off" => Fresh(s)'
    BY DEF Fresh
  <1>2. Fed(s) => Fed(s)'
    BY DEF Fed
  <1>3. QED
    BY <1>1, <1>2 DEF Served

LEMMA StepStream == TypeInv /\ LogInv /\ StreamInv /\ [Next]_vars => StreamInv'
  <1> SUFFICES ASSUME TypeInv, LogInv, StreamInv, [Next]_vars, NEW s \in Streams
               PROVE  Served(s)'
    BY DEF StreamInv
  <1>s. Served(s)
    BY DEF StreamInv
  <1> USE DEF memVars, streamVars, dbVars, opVars, histVars
  <1>0. /\ todo \in [Thread -> SUBSET Streams] /\ spc \in [Streams -> {"off", "live", "ended"}]
        /\ backlog \in [Streams -> Seq(EventId)] /\ events \in Seq(EventId)
        /\ Feed(s) \in Seq(EventId)
    BY PartsType DEF TypeInv, TypeOK
  <1>1. ASSUME NEW t \in Thread, append_event(t) PROVE Served(s)'
    <2>1. PICK e \in EventId :
                /\ e \notin ToSet(events) /\ todo[t] = {}
                /\ ToSet(events') = ToSet(events) \cup {e}
                /\ ev'[t] = e /\ todo'[t] = subs
                /\ \A u \in Thread \ {t} : ev'[u] = ev[u] /\ todo'[u] = todo[u]
      BY <1>1, AppendEvent
    <2>2. UNCHANGED <<subs, ready, queue, backlog, sent, dropped, spc>>
      BY <1>1 DEF append_event
    <2>3. Feed(s)' = Feed(s)
      BY <2>2 DEF Feed
    <2>4. s \in subs' <=> spc'[s] = "live"
      BY <1>s, <2>2 DEF Served
    <2>5. ASSUME spc'[s] = "off" PROVE Fresh(s)'
      BY <1>s, <2>1, <2>2, <2>5 DEF Fresh, Served
    <2>6. ASSUME spc'[s] = "live" PROVE Fed(s)'
      <3>1. Fed(s) /\ s \in subs
        BY <1>s, <2>2, <2>6 DEF Served
      <3>2. IsInjective(Feed(s)) /\ ToSet(Feed(s)) \cap dropped[s] = {}
        BY <3>1 DEF Fed
      <3>3. ASSUME NEW u \in Thread, s \in todo'[u]
            PROVE  ev'[u] \notin ToSet(Feed(s)) \cup dropped[s] /\ ev'[u] \in ToSet(events')
        BY <2>1, <3>1, <3>3 DEF Fed
      <3>4. \A x \in ToSet(Feed(s)) \cup dropped[s] : x \in ToSet(events')
        BY <2>1, <3>1 DEF Fed
      <3>5. ASSUME NEW x \in ToSet(events')
            PROVE  x \in ToSet(Feed(s)) \cup dropped[s] \/ \E u \in Thread : s \in todo'[u] /\ x = ev'[u]
        <4>1. CASE x = e
          BY <2>1, <3>1, <4>1
        <4>2. CASE x \in ToSet(events)
          BY <2>1, <3>1, <4>2 DEF Fed
        <4>3. QED
          BY <2>1, <3>5, <4>1, <4>2
      <3>6. QED
        BY <2>2, <2>3, <3>2, <3>3, <3>4, <3>5 DEF Fed
    <2>7. QED
      BY <2>4, <2>5, <2>6 DEF Served
  <1>2. ASSUME NEW t \in Thread, Notify(t) PROVE Served(s)'
    <2>1. PICK r \in Streams :
                /\ r \in todo[t] /\ Feed(r)' = Append(Feed(r), ev[t]) /\ ev[t] \in EventId
                /\ todo' = [todo EXCEPT ![t] = @ \ {r}]
                /\ \A q \in Streams \ {r} : Feed(q)' = Feed(q) /\ ready'[q] = ready[q]
      BY <1>2, NotifyFeeds
    <2>2. UNCHANGED <<subs, queue, backlog, sent, dropped, spc, events, ev>>
      BY <1>2 DEF Notify
    <2>3. CASE s # r
      <3>1. \A u \in Thread : s \in todo'[u] <=> s \in todo[u]
        BY <1>0, <2>1, <2>3
      <3>2. Feed(s)' = Feed(s) /\ ready'[s] = ready[s]
        BY <2>1, <2>3
      <3>3. QED
        BY <1>s, <2>2, <3>1, <3>2, KeepServed
    <2>4. CASE s = r
      <3>1. spc[s] # "off"
        BY <1>s, <2>1, <2>4 DEF Served, Fresh
      <3>2. ASSUME spc[s] = "live" PROVE Fed(s)'
        <4>1. Fed(s) /\ s \in todo[t]
          BY <1>s, <2>1, <2>4, <3>2 DEF Served
        <4>2. ev[t] \notin ToSet(Feed(s)) \cup dropped[s] /\ ev[t] \in ToSet(events)
          BY <4>1 DEF Fed
        <4>3. Feed(s)' = Append(Feed(s), ev[t])
          BY <2>1, <2>4
        <4>4. ToSet(Feed(s)') = ToSet(Feed(s)) \cup {ev[t]} /\ IsInjective(Feed(s)')
          BY <1>0, <2>1, <4>1, <4>2, <4>3, AppendIs DEF Fed
        <4>5. \A u \in Thread : s \in todo'[u] <=> s \in todo[u] /\ u # t
          BY <1>0, <2>1, <2>4
        <4>6. ASSUME NEW u \in Thread, s \in todo[u], u # t PROVE ev[u] # ev[t]
          <5>1. Writing(u) /\ Writing(t)
            BY <4>1, <4>6 DEF LogInv, Writing
          <5>2. ev[u] = [by |-> u, n |-> emitted[u]] /\ ev[t] = [by |-> t, n |-> emitted[t]]
            BY <5>1 DEF LogInv
          <5>3. QED
            BY <4>6, <5>2
        <4>7. \A u \in Thread : s \in todo'[u] =>
                  ev[u] \notin ToSet(Feed(s)') \cup dropped[s] /\ ev[u] \in ToSet(events)
          BY <4>1, <4>4, <4>5, <4>6 DEF Fed
        <4>8. ToSet(Feed(s)') \cap dropped[s] = {}
          BY <4>1, <4>2, <4>4 DEF Fed
        <4>9. \A x \in ToSet(Feed(s)') \cup dropped[s] : x \in ToSet(events)
          BY <4>1, <4>2, <4>4 DEF Fed
        <4>10. ASSUME NEW x \in ToSet(events)
               PROVE  x \in ToSet(Feed(s)') \cup dropped[s]
                      \/ \E u \in Thread : s \in todo'[u] /\ x = ev[u]
          BY <4>1, <4>4, <4>5, <4>10 DEF Fed
        <4>11. QED
          BY <2>2, <4>4, <4>7, <4>8, <4>9, <4>10 DEF Fed
      <3>3. QED
        BY <1>s, <2>2, <3>1, <3>2 DEF Served
    <2>5. QED
      BY <2>3, <2>4
  <1>3. ASSUME UNCHANGED <<events, streamVars, ev, todo>> PROVE Served(s)'
    <2>1. Feed(s)' = Feed(s)
      BY <1>3 DEF Feed
    <2>2. QED
      BY <1>s, <1>3, <2>1, KeepServed
  <1>4. ASSUME NEW t \in Thread, ReadSeq(t) \/ InsertEvent(t) PROVE Served(s)'
    BY <1>3, <1>4 DEF ReadSeq, InsertEvent
  <1>5. ASSUME Elsewhere PROVE Served(s)'
    BY <1>3, <1>5 DEF Elsewhere
  <1>6. ASSUME NEW r \in Streams, Subscribe(r) PROVE Served(s)'
    <2>1. /\ spc[r] = "off" /\ spc' = [spc EXCEPT ![r] = "live"]
          /\ backlog' = [backlog EXCEPT ![r] = events] /\ subs' = subs \cup {r}
          /\ UNCHANGED <<events, ready, queue, sent, dropped, ev, todo>>
      BY <1>6 DEF Subscribe
    <2>2. CASE s # r
      <3>1. backlog'[s] = backlog[s] /\ spc'[s] = spc[s]
        BY <1>0, <2>1, <2>2
      <3>2. Feed(s)' = Feed(s)
        BY <2>1, <3>1 DEF Feed
      <3>3. QED
        BY <1>s, <2>1, <2>2, <3>1, <3>2, KeepServed
    <2>3. CASE s = r
      <3>1. /\ Fresh(s) /\ backlog'[s] = events /\ spc'[s] = "live" /\ s \in subs'
        BY <1>0, <1>s, <2>1, <2>3 DEF Served
      <3>2. Feed(s)' = <<>> \o events \o <<>> \o <<>>
        BY <2>1, <3>1 DEF Feed, Fresh
      <3>3. Feed(s)' = events
        BY <1>0, <3>2, EmptyRight
      <3>4. Fed(s)'
        BY <2>1, <3>1, <3>3 DEF Fed, Fresh, LogInv
      <3>5. QED
        BY <3>1, <3>4 DEF Served
    <2>4. QED
      BY <2>2, <2>3
  <1>7. ASSUME NEW r \in Streams, SendBacklog(r) PROVE Served(s)'
    <2>1. Feed(s)' = Feed(s)
      BY <1>7, SendBacklogFeed
    <2>2. /\ spc[r] = "live" /\ UNCHANGED <<events, ev, todo, subs, spc, dropped, queue, ready>>
          /\ sent' = [sent EXCEPT ![r] = Append(@, Head(backlog[r]))]
          /\ backlog' = [backlog EXCEPT ![r] = Tail(@)]
      BY <1>7 DEF SendBacklog
    <2>3. spc[s] = "off" => sent'[s] = sent[s] /\ backlog'[s] = backlog[s]
      <3>1. sent \in [Streams -> Seq(EventId)]
        BY DEF TypeInv, TypeOK
      <3>2. QED
        BY <1>0, <2>2, <3>1
    <2>4. QED
      BY <1>s, <2>1, <2>2, <2>3, KeepServed
  <1>8. ASSUME NEW r \in Streams, SendLive(r) PROVE Served(s)'
    <2>1. Feed(s)' = Feed(s)
      BY <1>8, SendLiveFeed
    <2>2. /\ spc[r] = "live" /\ UNCHANGED <<events, ev, todo, subs, spc, dropped, backlog, ready>>
          /\ sent' = [sent EXCEPT ![r] = Append(@, Head(queue[r]))]
          /\ queue' = [queue EXCEPT ![r] = Tail(@)]
      BY <1>8 DEF SendLive
    <2>3. spc[s] = "off" => sent'[s] = sent[s] /\ queue'[s] = queue[s]
      <3>1. sent \in [Streams -> Seq(EventId)] /\ queue \in [Streams -> Seq(EventId)]
        BY DEF TypeInv, TypeOK
      <3>2. QED
        BY <2>2, <3>1
    <2>4. QED
      BY <1>s, <2>1, <2>2, <2>3, KeepServed
  <1>9. ASSUME NEW r \in Streams, StreamEnd(r) PROVE Served(s)'
    <2>1. /\ spc' = [spc EXCEPT ![r] = "ended"] /\ subs' = subs \ {r}
          /\ UNCHANGED <<events, ev, todo, dropped, queue, backlog, ready, sent>>
      BY <1>9 DEF StreamEnd
    <2>2. Feed(s)' = Feed(s)
      BY <2>1 DEF Feed
    <2>3. CASE s # r
      BY <1>0, <1>s, <2>1, <2>2, <2>3, KeepServed
    <2>4. CASE s = r
      BY <1>0, <2>1, <2>4 DEF Served
    <2>5. QED
      BY <2>3, <2>4
  <1>10. ASSUME NEW r \in Streams, _safe_put(r) PROVE Served(s)'
    <2>1. UNCHANGED <<events, ev, todo, subs, spc, backlog, sent>> /\ ready[r] # <<>>
      BY <1>10 DEF _safe_put
    <2>2. /\ \A q \in Streams \ {r} : Feed(q)' = Feed(q) /\ dropped'[q] = dropped[q]
          /\ \/ Feed(r)' = Feed(r) /\ dropped' = dropped
             \/ \E f, g \in Seq(EventId) :
                   /\ g # <<>> /\ Feed(r) = f \o g /\ Feed(r)' = f \o Tail(g)
                   /\ dropped'[r] = dropped[r] \cup {Head(g)}
      BY <1>10, PutFeed
    <2>3. spc[r] # "off"
      BY <2>1 DEF StreamInv, Served, Fresh
    <2>4. s # r => ready'[s] = ready[s] /\ queue'[s] = queue[s]
      <3>1. /\ ready \in [Streams -> Seq(EventId)] /\ queue \in [Streams -> Seq(EventId)]
        BY DEF TypeInv, TypeOK
      <3>2. QED
        BY <1>10, <3>1 DEF _safe_put
    <2>5. CASE Feed(s)' = Feed(s) /\ dropped'[s] = dropped[s]
      BY <1>s, <2>1, <2>3, <2>4, <2>5, KeepServed
    <2>6. CASE s = r /\ \E f, g \in Seq(EventId) :
                   /\ g # <<>> /\ Feed(s) = f \o g /\ Feed(s)' = f \o Tail(g)
                   /\ dropped'[s] = dropped[s] \cup {Head(g)}
      <3>1. PICK f \in Seq(EventId), g \in Seq(EventId) :
                   /\ g # <<>> /\ Feed(s) = f \o g /\ Feed(s)' = f \o Tail(g)
                   /\ dropped'[s] = dropped[s] \cup {Head(g)}
        BY <2>6
      <3> DEFINE h == Head(g)
      <3>2. /\ ToSet(Feed(s)) = ToSet(Feed(s)') \cup {h}
            /\ IsInjective(Feed(s)) => IsInjective(Feed(s)') /\ h \notin ToSet(Feed(s)')
        BY <3>1, DropHead
      <3>3. dropped'[s] = dropped[s] \cup {h}
        BY <3>1
      <3> HIDE DEF h
      <3>4. ASSUME Fed(s) PROVE Fed(s)'
        <4>1. IsInjective(Feed(s)') /\ ToSet(Feed(s)') \cap dropped'[s] = {}
          BY <3>2, <3>3, <3>4 DEF Fed
        <4>2. ToSet(Feed(s)') \cup dropped'[s] = ToSet(Feed(s)) \cup dropped[s]
          BY <3>2, <3>3
        <4>3. QED
          BY <2>1, <3>4, <4>1, <4>2 DEF Fed
      <3>5. QED
        BY <1>s, <2>1, <2>3, <2>6, <3>4 DEF Served
    <2>7. QED
      BY <2>2, <2>5, <2>6
  <1>11. ASSUME Restart PROVE Served(s)'
    BY <1>11 DEF Restart, Served, Fresh
  <1>12. QED
    BY <1>1, <1>2, <1>4, <1>5, <1>6, <1>7, <1>8, <1>9, <1>10, <1>11, StepCases

\* Whatever the threads, the deliveries and the streams interleave, an event of the log
\* comes to an open stream once, from the backlog or live, or its full queue
\* dropped it (subscribe, append_event and _safe_put of runner/store.py).
THEOREM ExactlyOnceHolds == Spec => []ExactlyOnce
  <1>1. Init => TypeInv /\ LogInv /\ StreamInv
    BY InitType, InitLog, InitStream
  <1>2. TypeInv /\ LogInv /\ StreamInv /\ [Next]_vars => TypeInv' /\ LogInv' /\ StreamInv'
    BY StepType, StepLog, StepStream
  <1>3. StreamInv => ExactlyOnce
    <2> SUFFICES ASSUME StreamInv, NEW s \in Streams, spc[s] = "live"
                 PROVE  LET due == {ev[t] : t \in {u \in Thread : s \in todo[u]}}
                        IN  /\ IsInjective(Feed(s))
                            /\ ToSet(Feed(s)) \cap (dropped[s] \cup due) = {}
                            /\ ToSet(events) = ToSet(Feed(s)) \cup dropped[s] \cup due
      BY DEF ExactlyOnce
    <2> DEFINE due == {ev[t] : t \in {u \in Thread : s \in todo[u]}}
    <2>1. \A e : e \in due <=> \E t \in Thread : s \in todo[t] /\ e = ev[t]
      OBVIOUS
    <2> HIDE DEF due
    <2>2. Fed(s)
      BY DEF StreamInv, Served
    <2>3. IsInjective(Feed(s)) /\ ToSet(Feed(s)) \cap (dropped[s] \cup due) = {}
      BY <2>1, <2>2 DEF Fed
    <2>4. ToSet(events) = ToSet(Feed(s)) \cup dropped[s] \cup due
      BY <2>1, <2>2 DEF Fed
    <2>5. QED
      BY <2>3, <2>4 DEF due
  <1>4. QED
    BY <1>1, <1>2, <1>3, PTL DEF Spec

------------------------------------------------------------------------------
(* The table mirrors the log while no two operations overlap.              *)

LEMMA InitMirror == Init => MirrorInv
  <1> SUFFICES ASSUME Init PROVE Alone /\ TableIsLog /\ RowIsStatus
    BY DEF MirrorInv
  <1>1. \A t \in Thread : pc[t] = "idle"
    BY DEF Init
  <1>2. Len(events) = 0 /\ DOMAIN rows = {} /\ dbStatus = status
    BY DEF Init
  <1>3. Alone /\ RowIsStatus
    BY <1>1, <1>2 DEF Alone, InOp, Idle, RowIsStatus
  <1>4. \A t \in Thread : ~Writing(t)
    BY <1>1 DEF Writing
  <1>5. QED
    BY <1>1, <1>2, <1>3, <1>4 DEF TableIsLog

LEMMA OverlapStays ==
    ASSUME TypeInv, [Next]_vars, overlapped' = FALSE
    PROVE  overlapped = FALSE
  <1> USE DEF histVars
  <1>1. ASSUME NEW t \in Thread, append_event(t) \/ Notify(t) \/ ReadSeq(t) \/ InsertEvent(t)
        PROVE  overlapped' = overlapped
    BY <1>1 DEF append_event, Notify, ReadSeq, InsertEvent
  <1>2. ASSUME NEW s \in Streams,
               Subscribe(s) \/ SendBacklog(s) \/ SendLive(s) \/ StreamEnd(s) \/ _safe_put(s)
        PROVE  overlapped' = overlapped
    BY <1>2 DEF Subscribe, SendBacklog, SendLive, StreamEnd, _safe_put
  <1>3. Restart => overlapped' = overlapped
    BY DEF Restart
  <1>4. QED
    BY <1>1, <1>2, <1>3, StepCases DEF Elsewhere

\* Who begins an operation, without an overlap, is alone in one.
LEMMA EnterAlone ==
    ASSUME TypeInv, NEW t \in Thread, NEW label \in Pc, Enter(t), Goto(t, label),
           overlapped' = FALSE
    PROVE  /\ Alone' /\ pc'[t] = label
           /\ \A u \in Thread \ {t} : pc'[u] = pc[u] /\ pc[u] \in Idle
  <1>1. pc \in [Thread -> Pc]
    BY DEF TypeInv, TypeOK
  <1>2. /\ pc'[t] = label
        /\ \A u \in Thread \ {t} : pc'[u] = pc[u] /\ pc[u] \in Idle
    BY <1>1, EnterOverlaps DEF Goto
  <1>3. QED
    BY <1>2 DEF Alone, InOp

LEMMA StepAlone ==
    ASSUME TypeInv, Alone, [Next]_vars, overlapped' = FALSE
    PROVE  Alone'
  <1>0. pc \in [Thread -> Pc] /\ Loop \in Thread /\ Cancellers \subseteq Thread
    BY DEF TypeInv, TypeOK, Thread
  <1>1. ASSUME \A u \in Thread : InOp(u)' => InOp(u) PROVE Alone'
    BY <1>1 DEF Alone
  <1>2. ASSUME NEW t \in Thread, StoreStep(t) PROVE Alone'
    <2>1. InOp(t)
      BY <1>2 DEF StoreStep, append_event, Notify, ReadSeq, InsertEvent, ReadScalars,
                  PersistRecord, InOp, Idle
    <2>2. \A u \in Thread \ {t} : pc'[u] = pc[u]
      BY <1>0, <1>2 DEF StoreStep, append_event, Notify, ReadSeq, InsertEvent, ReadScalars,
                        PersistRecord, Goto
    <2>3. QED
      BY <1>1, <2>1, <2>2 DEF InOp
  <1>3. ASSUME Emit PROVE Alone'
    BY <1>0, <1>3, EnterAlone DEF Emit, Pc
  <1>4. ASSUME RunComplete PROVE Alone'
    BY <1>0, <1>1, <1>4, EnterAlone DEF RunComplete, upsert, Pc, InOp
  <1>5. ASSUME RunFailed PROVE Alone'
    BY <1>0, <1>1, <1>5, EnterAlone DEF RunFailed, Pc, InOp
  <1>6. ASSUME FinalizeFailure PROVE Alone'
    <2>1. CASE status = "cancelled"
      <3>1. \A u \in Thread : pc'[u] = pc[u] \/ pc'[u] = "idle"
        BY <1>0, <1>6, <2>1 DEF FinalizeFailure, Goto
      <3>2. QED
        BY <1>1, <3>1 DEF InOp, Idle
    <2>2. CASE status # "cancelled"
      BY <1>0, <1>6, <2>2, EnterAlone DEF FinalizeFailure, upsert, Pc
    <2>3. QED
      BY <2>1, <2>2
  <1>7. ASSUME NEW c \in Cancellers, CancelCheck(c) PROVE Alone'
    <2>1. \A u \in Thread : pc'[u] = pc[u] \/ pc'[u] \in {"done", "mark"}
      BY <1>0, <1>7 DEF CancelCheck, Goto
    <2>2. QED
      BY <1>1, <2>1 DEF InOp, Idle
  <1>8. ASSUME NEW c \in Cancellers, CancelMark(c) PROVE Alone'
    BY <1>0, <1>8, EnterAlone DEF CancelMark, upsert, Pc
  <1>9. ASSUME NEW s \in Streams, Subscribe(s) \/ StreamStep(s) \/ _safe_put(s) PROVE Alone'
    <2>1. pc' = pc
      BY <1>9 DEF StreamStep, Subscribe, SendBacklog, SendLive, StreamEnd, _safe_put
    <2>2. QED
      BY <1>1, <2>1 DEF InOp
  <1>10. ASSUME Restart PROVE Alone'
    <2>1. \A u \in Thread : pc'[u] \in Idle
      BY <1>10 DEF Restart, Idle
    <2>2. QED
      BY <1>1, <2>1 DEF InOp
  <1>11. CASE UNCHANGED vars
    BY <1>1, <1>11 DEF vars, InOp
  <1>12. QED
    BY <1>2, <1>3, <1>4, <1>5, <1>6, <1>7, <1>8, <1>9, <1>10, <1>11 DEF Next, EngineEnds

LEMMA KeepRow ==
    ASSUME RowIsStatus, UNCHANGED <<status, dbStatus, scalars>>,
           \A t \in Thread : pc'[t] = "persist" => pc[t] = "persist",
           \A t \in Thread : pc[t] \in {"scalars", "persist"} => pc'[t] \in {"scalars", "persist"}
    PROVE  RowIsStatus'
  BY DEF RowIsStatus

LEMMA StepRow ==
    ASSUME TypeInv, Alone, RowIsStatus, [Next]_vars, overlapped' = FALSE
    PROVE  RowIsStatus'
  <1> USE DEF memVars, streamVars, dbVars, opVars, histVars
  <1>0. pc \in [Thread -> Pc] /\ Loop \in Thread /\ Cancellers \subseteq Thread
        /\ scalars \in [Thread -> Status]
    BY DEF TypeInv, TypeOK, Thread
  <1>1. ASSUME NEW t \in Thread, append_event(t) \/ Notify(t) \/ ReadSeq(t) \/ InsertEvent(t)
        PROVE  RowIsStatus'
    <2>1. UNCHANGED <<status, dbStatus, scalars>>
      BY <1>1 DEF append_event, Notify, ReadSeq, InsertEvent
    <2>2. \A u \in Thread : \/ pc'[u] = pc[u]
                            \/ /\ pc[u] \in {"append", "notify", "insert"}
                               /\ pc'[u] \in {"notify", "insert", "scalars"}
      BY <1>0, <1>1 DEF append_event, Notify, ReadSeq, InsertEvent, Goto
    <2>3. QED
      BY <2>1, <2>2, KeepRow
  <1>2. ASSUME NEW t \in Thread, ReadScalars(t) PROVE RowIsStatus'
    BY <1>0, <1>2 DEF ReadScalars, Goto, RowIsStatus
  <1>3. ASSUME NEW t \in Thread, PersistRecord(t) PROVE RowIsStatus'
    <2>1. /\ dbStatus' = scalars[t] /\ pc[t] = "persist" /\ UNCHANGED <<status, scalars>>
          /\ pc' = [pc EXCEPT ![t] = after[t]]
      BY <1>3 DEF PersistRecord
    <2>2. scalars[t] = status
      BY <2>1 DEF RowIsStatus
    <2>3. after[t] # "persist"
      BY DEF TypeInv, Idle
    <2>4. \A u \in Thread : pc'[u] = "persist" => pc[u] = "persist"
      BY <1>0, <2>1, <2>3
    <2>5. QED
      BY <2>1, <2>2, <2>4 DEF RowIsStatus
  <1>4. ASSUME NEW t \in Thread, pc'[t] = "append", UNCHANGED <<status, dbStatus, scalars>>,
               \A u \in Thread \ {t} : pc'[u] = pc[u], pc[t] \notin {"scalars", "persist"}
        PROVE  RowIsStatus'
    BY <1>4 DEF RowIsStatus
  <1>5. ASSUME NEW t \in Thread, pc'[t] = "scalars", UNCHANGED scalars,
               \A u \in Thread \ {t} : pc'[u] = pc[u] /\ pc[u] \in Idle
        PROVE  RowIsStatus'
    BY <1>5 DEF RowIsStatus, Idle
  <1>6. ASSUME Emit PROVE RowIsStatus'
    BY <1>0, <1>4, <1>6 DEF Emit, LoopFree, Goto
  <1>7. ASSUME RunComplete PROVE RowIsStatus'
    <2>1. CASE status = "cancelled"
      BY <1>7, <2>1 DEF RunComplete, RowIsStatus
    <2>2. CASE status # "cancelled"
      <3>1. Enter(Loop) /\ Goto(Loop, "scalars") /\ UNCHANGED scalars
        BY <1>7, <2>2 DEF RunComplete, upsert
      <3>2. QED
        BY <1>0, <1>5, <3>1, EnterAlone DEF Pc
    <2>3. QED
      BY <2>1, <2>2
  <1>8. ASSUME RunFailed PROVE RowIsStatus'
    <2>1. CASE status = "cancelled"
      BY <1>8, <2>1 DEF RunFailed, RowIsStatus
    <2>2. CASE status # "cancelled"
      BY <1>0, <1>4, <1>8, <2>2 DEF RunFailed, LoopFree, Goto
    <2>3. QED
      BY <2>1, <2>2
  <1>9. ASSUME FinalizeFailure PROVE RowIsStatus'
    <2>1. CASE status = "cancelled"
      <3>1. pc[Loop] = "mark" /\ pc' = [pc EXCEPT ![Loop] = "idle"]
            /\ UNCHANGED <<status, dbStatus, scalars>>
        BY <1>9, <2>1 DEF FinalizeFailure, Goto
      <3>2. QED
        BY <1>0, <3>1, KeepRow
    <2>2. CASE status # "cancelled"
      <3>1. Enter(Loop) /\ Goto(Loop, "scalars") /\ UNCHANGED scalars
        BY <1>9, <2>2 DEF FinalizeFailure, upsert
      <3>2. QED
        BY <1>0, <1>5, <3>1, EnterAlone DEF Pc
    <2>3. QED
      BY <2>1, <2>2
  <1>10. ASSUME NEW c \in Cancellers, CancelCheck(c) PROVE RowIsStatus'
    <2>1. \A u \in Thread : \/ pc'[u] = pc[u]
                            \/ pc[u] = "idle" /\ pc'[u] \in {"done", "mark"}
      BY <1>0, <1>10 DEF CancelCheck, Goto
    <2>2. QED
      BY <1>10, <2>1, KeepRow DEF CancelCheck
  <1>11. ASSUME NEW c \in Cancellers, CancelMark(c) PROVE RowIsStatus'
    <2>1. Enter(c) /\ Goto(c, "scalars") /\ UNCHANGED scalars
      BY <1>11 DEF CancelMark, upsert
    <2>2. QED
      BY <1>0, <1>5, <2>1, EnterAlone DEF Pc
  <1>12. ASSUME NEW s \in Streams, Subscribe(s) \/ StreamStep(s) \/ _safe_put(s)
         PROVE  RowIsStatus'
    <2>1. UNCHANGED <<pc, status, dbStatus, scalars>>
      BY <1>12 DEF StreamStep, Subscribe, SendBacklog, SendLive, StreamEnd, _safe_put
    <2>2. QED
      BY <2>1, KeepRow
  <1>13. ASSUME Restart PROVE RowIsStatus'
    <2>1. status' = dbStatus' /\ \A u \in Thread : pc'[u] \in Idle
      BY <1>13 DEF Restart, Idle
    <2>2. QED
      BY <2>1 DEF RowIsStatus, Idle
  <1>14. CASE UNCHANGED vars
    BY <1>14, KeepRow DEF vars
  <1>15. QED
    BY <1>1, <1>2, <1>3, <1>6, <1>7, <1>8, <1>9, <1>10, <1>11, <1>12, <1>13, <1>14
       DEF Next, StoreStep, EngineEnds

\* A table without gaps is hydrated as it stands.
LEMMA HydratedExact ==
    ASSUME NEW m \in Nat, DOMAIN rows = 0..(m - 1)
    PROVE  Hydrated = [i \in 1..m |-> rows[i - 1]]
  <1> DEFINE D == DOMAIN rows
  <1>1. D = 0..(m - 1) /\ D \subseteq Nat
    OBVIOUS
  <1>2. IsFiniteSet(D) /\ Cardinality(D) = m
    BY <1>1, IntervalSize
  <1>3. ASSUME NEW k \in D PROVE Rank(D, k) = k
    <2>1. k \in Nat /\ {j \in D : j < k} = 0..(k - 1)
      BY <1>1
    <2>2. Cardinality(0..(k - 1)) = k
      BY <2>1, IntervalSize
    <2>3. QED
      BY <2>1, <2>2 DEF Rank
  <1>4. PICK pos \in [1..m -> D] :
              /\ \A i \in 1..m : Rank(D, pos[i]) = i - 1
              /\ Hydrated = [i \in 1..m |-> rows[pos[i]]]
    BY <1>1, <1>2, HydratedIs
  <1> HIDE DEF D
  <1>5. \A i \in 1..m : pos[i] = i - 1
    BY <1>3, <1>4
  <1>6. QED
    BY <1>4, <1>5

LEMMA KeepTable ==
    ASSUME TableIsLog, UNCHANGED <<events, rows, ev, seq>>,
           \A t \in Thread : Writing(t)' <=> Writing(t),
           \A t \in Thread : pc'[t] = "insert" => pc[t] = "insert"
    PROVE  TableIsLog'
  BY DEF TableIsLog

LEMMA StepTable ==
    ASSUME TypeInv, LogInv, Alone, TableIsLog, [Next]_vars
    PROVE  TableIsLog'
  <1> USE DEF memVars, streamVars, dbVars, opVars, histVars
  <1>0. /\ pc \in [Thread -> Pc] /\ events \in Seq(EventId) /\ Len(events) \in Nat
        /\ seq \in [Thread -> Nat]
    BY DEF TypeInv, TypeOK
  <1>1. ASSUME NEW t \in Thread, append_event(t) PROVE TableIsLog'
    <2>1. PICK e \in EventId :
                events' = Append(events, e) /\ Len(events') = Len(events) + 1 /\ ev'[t] = e
      BY <1>1, AppendEvent
    <2>2. /\ events'[Len(events) + 1] = e
          /\ \A i \in 1..Len(events) : events'[i] = events[i]
      BY <1>0, <2>1, AppendIs
    <2>3. /\ pc[t] = "append" /\ pc' = [pc EXCEPT ![t] = "notify"] /\ UNCHANGED <<rows, seq>>
      BY <1>1 DEF append_event, Goto
    <2>4. InOp(t) /\ ~Writing(t)
      BY <2>3 DEF InOp, Writing, Idle
    <2>5. \A u \in Thread \ {t} : ~InOp(u)
      BY <2>4 DEF Alone
    <2>6. \A u \in Thread : ~Writing(u)
      BY <2>4, <2>5 DEF InOp, Writing, Idle
    <2>7. DOMAIN rows = 0..(Len(events) - 1)
      BY <2>6 DEF TableIsLog
    <2>8. Writing(t)' /\ pc'[t] # "insert" /\ \A u \in Thread \ {t} : ~Writing(u)' /\ pc'[u] # "insert"
      BY <1>0, <2>3, <2>6 DEF Writing
    <2>9. DOMAIN rows' = 0..(Len(events') - 2)
      BY <1>0, <2>1, <2>3, <2>7
    <2>10. \A k \in DOMAIN rows' : rows'[k] = events'[k + 1]
      <3>1. \A k \in DOMAIN rows : rows[k] = events[k + 1] /\ k + 1 \in 1..Len(events)
        BY <1>0, <2>7 DEF TableIsLog
      <3>2. QED
        BY <2>2, <2>3, <3>1
    <2>11. Len(events') > 0 /\ ev'[t] = events'[Len(events')]
      BY <1>0, <2>1, <2>2
    <2>12. QED
      BY <2>8, <2>9, <2>10, <2>11 DEF TableIsLog
  <1>2. ASSUME NEW t \in Thread, Notify(t) PROVE TableIsLog'
    BY <1>2, KeepTable DEF Notify, Writing
  <1>3. ASSUME NEW t \in Thread, ReadSeq(t) PROVE TableIsLog'
    <2>1. /\ pc[t] = "notify" /\ pc' = [pc EXCEPT ![t] = "insert"]
          /\ seq' = [seq EXCEPT ![t] = Len(events) - 1] /\ UNCHANGED <<events, rows, ev>>
      BY <1>3 DEF ReadSeq, Goto
    <2>2. \A u \in Thread : Writing(u)' <=> Writing(u)
      BY <1>0, <2>1 DEF Writing
    <2>3. \A u \in Thread : pc'[u] = "insert" => seq'[u] = Len(events) - 1
      BY <1>0, <2>1 DEF TableIsLog
    <2>4. QED
      BY <2>1, <2>2, <2>3 DEF TableIsLog
  <1>4. ASSUME NEW t \in Thread, InsertEvent(t) PROVE TableIsLog'
    <2>1. /\ DOMAIN rows' = DOMAIN rows \cup {seq[t]}
          /\ \A k \in DOMAIN rows' : rows'[k] = IF k = seq[t] THEN ev[t] ELSE rows[k]
          /\ pc[t] = "insert" /\ pc' = [pc EXCEPT ![t] = "scalars"]
          /\ UNCHANGED <<events, ev, seq>>
      BY <1>4 DEF InsertEvent, Goto
    <2>2. InOp(t) /\ Writing(t)
      BY <2>1 DEF InOp, Writing, Idle
    <2>3. /\ DOMAIN rows = 0..(Len(events) - 2) /\ Len(events) > 0
          /\ ev[t] = events[Len(events)] /\ seq[t] = Len(events) - 1
      BY <2>1, <2>2 DEF TableIsLog
    <2>4. DOMAIN rows' = 0..(Len(events) - 1)
      BY <1>0, <2>1, <2>3
    <2>5. \A k \in DOMAIN rows' : rows'[k] = events[k + 1]
      BY <1>0, <2>1, <2>3 DEF TableIsLog
    <2>6. \A u \in Thread : ~Writing(u)' /\ pc'[u] # "insert"
      <3>1. \A u \in Thread \ {t} : ~InOp(u)
        BY <2>2 DEF Alone
      <3>2. \A u \in Thread \ {t} : pc'[u] = pc[u] /\ pc[u] \notin {"notify", "insert"}
        BY <1>0, <2>1, <3>1 DEF InOp, Idle
      <3>3. QED
        BY <1>0, <2>1, <3>2 DEF Writing
    <2>7. QED
      BY <2>1, <2>4, <2>5, <2>6 DEF TableIsLog
  <1>5. ASSUME Elsewhere PROVE TableIsLog'
    <2>1. \A u \in Thread : Writing(u)' <=> Writing(u)
      BY <1>5 DEF Elsewhere, Writing
    <2>2. \A u \in Thread : pc'[u] = "insert" => pc[u] = "insert"
      BY <1>5 DEF Elsewhere, Writing
    <2>3. QED
      BY <1>5, <2>1, <2>2, KeepTable DEF Elsewhere
  <1>6. ASSUME NEW s \in Streams,
               Subscribe(s) \/ SendBacklog(s) \/ SendLive(s) \/ StreamEnd(s) \/ _safe_put(s)
        PROVE  TableIsLog'
    <2>1. UNCHANGED <<events, rows, ev, seq, pc>>
      BY <1>6 DEF Subscribe, SendBacklog, SendLive, StreamEnd, _safe_put
    <2>2. QED
      BY <2>1, KeepTable DEF Writing
  <1>7. ASSUME Restart PROVE TableIsLog'
    <2>1. events' = Hydrated /\ UNCHANGED rows /\ \A u \in Thread : pc'[u] \in Idle
      BY <1>7 DEF Restart, Idle
    <2>2. \E m \in Nat : DOMAIN rows = 0..(m - 1)
      <3>1. CASE \A u \in Thread : ~Writing(u)
        BY <1>0, <3>1 DEF TableIsLog
      <3>2. CASE \E u \in Thread : Writing(u)
        <4>1. Len(events) > 0 /\ DOMAIN rows = 0..(Len(events) - 2)
          BY <3>2 DEF TableIsLog
        <4>2. Len(events) - 1 \in Nat /\ Len(events) - 2 = (Len(events) - 1) - 1
          BY <1>0, <4>1
        <4>3. QED
          BY <4>1, <4>2
      <3>3. QED
        BY <3>1, <3>2
    <2>3. PICK m \in Nat : DOMAIN rows = 0..(m - 1)
      BY <2>2
    <2>4. events' = [i \in 1..m |-> rows[i - 1]]
      BY <2>1, <2>3, HydratedExact
    <2>5. Len(events') = m
      BY <2>4
    <2>6. \A k \in DOMAIN rows : rows[k] = events'[k + 1]
      BY <2>3, <2>4
    <2>7. \A u \in Thread : ~Writing(u)' /\ pc'[u] # "insert"
      BY <2>1 DEF Writing, Idle
    <2>8. QED
      BY <2>1, <2>3, <2>5, <2>6, <2>7 DEF TableIsLog
  <1>8. QED
    BY <1>1, <1>2, <1>3, <1>4, <1>5, <1>6, <1>7, StepCases

LEMMA StepMirror == TypeInv /\ LogInv /\ MirrorInv /\ [Next]_vars => MirrorInv'
  <1> SUFFICES ASSUME TypeInv, LogInv, MirrorInv, [Next]_vars PROVE MirrorInv'
    OBVIOUS
  <1>1. TypeInv'
    BY StepType
  <1>2. overlapped' \in BOOLEAN
    BY <1>1 DEF TypeInv, TypeOK
  <1>3. ASSUME overlapped' = FALSE PROVE Alone' /\ TableIsLog' /\ RowIsStatus'
    <2>1. Alone /\ TableIsLog /\ RowIsStatus
      BY <1>3, OverlapStays DEF MirrorInv
    <2>2. QED
      BY <1>3, <2>1, StepAlone, StepTable, StepRow
  <1>4. QED
    BY <1>2, <1>3 DEF MirrorInv

\* While no two operations of the store have overlapped, the database is the log and
\* the record, but for what is being written, over every crash
\* (SqliteRunStore of runner/store.py).
THEOREM MirrorExactHolds == Spec => []MirrorExact
  <1>1. Init => TypeInv /\ LogInv /\ MirrorInv
    BY InitType, InitLog, InitMirror
  <1>2. TypeInv /\ LogInv /\ MirrorInv /\ [Next]_vars => TypeInv' /\ LogInv' /\ MirrorInv'
    BY StepType, StepLog, StepMirror
  <1>3. TypeInv /\ MirrorInv => MirrorExact
    <2> SUFFICES ASSUME TypeInv, MirrorInv, ~overlapped PROVE MirrorExact
      BY DEF MirrorExact
    <2>0. Len(events) \in Nat
      BY DEF TypeInv, TypeOK
    <2>1. TableIsLog /\ RowIsStatus
      BY DEF MirrorInv
    <2>2. DOMAIN rows = 0..(Len(events) - 1)
          \/ (DOMAIN rows = 0..(Len(events) - 2) /\ \E t \in Thread : Writing(t))
      BY <2>1 DEF TableIsLog
    <2>3. DOMAIN rows \subseteq 0..(Len(events) - 1)
      BY <2>0, <2>2
    <2>4. ASSUME NEW k \in 1..Len(events)
          PROVE  \/ k - 1 \in DOMAIN rows /\ rows[k - 1] = events[k]
                 \/ k = Len(events) /\ \E t \in Thread : pc[t] \in {"notify", "insert"}
      <3>1. k - 1 \in DOMAIN rows \/ (k = Len(events) /\ \E t \in Thread : Writing(t))
        BY <2>0, <2>2
      <3>2. k - 1 \in DOMAIN rows => rows[k - 1] = events[k]
        <4>1. k - 1 \in DOMAIN rows => rows[k - 1] = events[(k - 1) + 1]
          BY <2>1 DEF TableIsLog
        <4>2. (k - 1) + 1 = k
          BY <2>0
        <4>3. QED
          BY <4>1, <4>2
      <3>3. QED
        BY <3>1, <3>2 DEF Writing
    <2>5. dbStatus = status \/ \E t \in Thread : pc[t] \notin Idle
      BY <2>1 DEF RowIsStatus, Idle
    <2>6. QED
      BY <2>3, <2>4, <2>5 DEF MirrorExact
  <1>4. QED
    BY <1>1, <1>2, <1>3, PTL DEF Spec

------------------------------------------------------------------------------
(* A stream shows a thread's events in their order.                        *)

LEMMA InitOrder == Init => OrderInv
  <1> SUFFICES ASSUME Init PROVE OrderInv
    OBVIOUS
  <1>1. DOMAIN rows = {} /\ \A t \in Thread : pc[t] = "idle"
    BY DEF Init
  <1>2. RowsInOrder
    BY <1>1 DEF RowsInOrder
  <1>3. ASSUME NEW s \in Streams PROVE Feed(s) = <<>>
    <2>1. Feed(s) = <<>> \o <<>> \o <<>> \o <<>>
      BY DEF Init, Feed
    <2>2. <<>> \in Seq(EventId)
      OBVIOUS
    <2>3. <<>> \o <<>> = <<>>
      BY <2>2, EmptyRight
    <2>4. QED
      BY <2>1, <2>3
  <1>4. \A s \in Streams : Newer(s) /\ Ordered(Feed(s))
    BY <1>3 DEF Newer, Ordered, ToSet
  <1>5. Ordered(events)
    BY DEF Init, Ordered
  <1>6. QED
    BY <1>2, <1>4, <1>5 DEF OrderInv

LEMMA KeepNewer ==
    ASSUME NEW s \in Streams, Newer(s), UNCHANGED <<ev, todo, emitted>>,
           ToSet(Feed(s)') \subseteq ToSet(Feed(s))
    PROVE  Newer(s)'
  BY DEF Newer, Numbered

\* One step on what a stream has and is to be given.
LEMMA StepFeed ==
    ASSUME TypeInv, LogInv, StreamInv, [Next]_vars, NEW s \in Streams, Newer(s)
    PROVE  Newer(s)' /\ (Ordered(events) /\ Ordered(Feed(s)) => Ordered(Feed(s)'))
  <1> DEFINE Goal == Newer(s)' /\ (Ordered(events) /\ Ordered(Feed(s)) => Ordered(Feed(s)'))
  <1> USE DEF memVars, streamVars, dbVars, opVars, histVars
  <1>0. /\ todo \in [Thread -> SUBSET Streams] /\ emitted \in [Thread -> Nat]
        /\ backlog \in [Streams -> Seq(EventId)] /\ events \in Seq(EventId)
        /\ Feed(s) \in Seq(EventId)
    BY PartsType DEF TypeInv, TypeOK
  <1>e. \A x \in ToSet(Feed(s)) : x \in EventId
    BY <1>0 DEF ToSet
  <1>1. ASSUME NEW t \in Thread, append_event(t) PROVE Goal
    <2>1. /\ ev'[t] = [by |-> t, n |-> emitted[t] + 1]
          /\ \A u \in Thread \ {t} : ev'[u] = ev[u] /\ todo'[u] = todo[u]
      BY <1>1, AppendEvent
    <2>2. /\ UNCHANGED <<subs, ready, queue, backlog, sent, dropped, spc>>
          /\ emitted' = [emitted EXCEPT ![t] = @ + 1]
      BY <1>1 DEF append_event
    <2>3. Feed(s)' = Feed(s)
      BY <2>2 DEF Feed
    <2>4. ASSUME NEW x \in ToSet(Feed(s))
          PROVE  x.n <= emitted'[x.by] /\ \A u \in Thread : s \in todo'[u] /\ x.by = u => x.n < ev'[u].n
      <3>1. x.by \in Thread /\ x.n \in Nat /\ x.n <= emitted[x.by]
        BY <1>e DEF EventId, Newer, Numbered
      <3>2. x.n <= emitted'[x.by]
        BY <1>0, <2>2, <3>1
      <3>3. ASSUME NEW u \in Thread, s \in todo'[u], x.by = u PROVE x.n < ev'[u].n
        <4>1. CASE u = t
          BY <1>0, <2>1, <3>1, <3>3, <4>1
        <4>2. CASE u # t
          BY <2>1, <3>3, <4>2 DEF Newer
        <4>3. QED
          BY <4>1, <4>2
      <3>4. QED
        BY <3>2, <3>3
    <2>5. Newer(s)'
      BY <2>3, <2>4 DEF Newer, Numbered
    <2>6. QED
      BY <2>3, <2>5
  <1>2. ASSUME NEW t \in Thread, Notify(t) PROVE Goal
    <2>1. PICK r \in Streams :
                /\ r \in todo[t] /\ Feed(r)' = Append(Feed(r), ev[t]) /\ ev[t] \in EventId
                /\ todo' = [todo EXCEPT ![t] = @ \ {r}]
                /\ \A q \in Streams \ {r} : Feed(q)' = Feed(q)
      BY <1>2, NotifyFeeds
    <2>2. UNCHANGED <<ev, emitted>>
      BY <1>2 DEF Notify
    <2>3. \A u \in Thread : s \in todo'[u] => s \in todo[u]
      BY <1>0, <2>1
    <2>4. CASE s # r
      <3>1. Feed(s)' = Feed(s)
        BY <2>1, <2>4
      <3>2. Newer(s)'
        BY <2>2, <2>3, <3>1 DEF Newer, Numbered
      <3>3. QED
        BY <3>1, <3>2
    <2>5. CASE s = r
      <3>1. Feed(s)' = Append(Feed(s), ev[t]) /\ s \in todo[t] /\ s \notin todo'[t]
        BY <1>0, <2>1, <2>5
      <3>2. ev[t] = [by |-> t, n |-> emitted[t]]
        BY <3>1 DEF LogInv, Writing
      <3>3. ev[t].by = t /\ Numbered(ev[t])
        BY <1>0, <3>2 DEF Numbered
      <3>4. ToSet(Feed(s)') = ToSet(Feed(s)) \cup {ev[t]}
        BY <1>0, <2>1, <3>1, AppendIs
      <3>5. ASSUME NEW x \in ToSet(Feed(s)')
            PROVE  Numbered(x) /\ \A u \in Thread : s \in todo'[u] /\ x.by = u => x.n < ev[u].n
        <4>1. CASE x = ev[t]
          BY <3>1, <3>3, <4>1
        <4>2. CASE x \in ToSet(Feed(s))
          BY <2>3, <4>2 DEF Newer
        <4>3. QED
          BY <3>4, <3>5, <4>1, <4>2
      <3>6. Newer(s)'
        BY <2>2, <3>5 DEF Newer, Numbered
      <3>7. \A x \in ToSet(Feed(s)) : x.by = ev[t].by => x.n < ev[t].n
        BY <3>1, <3>3 DEF Newer
      <3>8. Ordered(Feed(s)) => Ordered(Feed(s)')
        BY <1>0, <2>1, <3>1, <3>7, OrderedAppend
      <3>9. QED
        BY <3>6, <3>8
    <2>6. QED
      BY <2>4, <2>5
  <1>3. ASSUME Feed(s)' = Feed(s), UNCHANGED <<ev, todo, emitted>> PROVE Goal
    BY <1>3, KeepNewer
  <1>4. ASSUME UNCHANGED <<streamVars, ev, todo, emitted>> PROVE Goal
    BY <1>3, <1>4 DEF Feed
  <1>5. ASSUME NEW t \in Thread, ReadSeq(t) \/ InsertEvent(t) PROVE Goal
    BY <1>4, <1>5 DEF ReadSeq, InsertEvent
  <1>6. ASSUME Elsewhere PROVE Goal
    BY <1>4, <1>6 DEF Elsewhere
  <1>7. ASSUME NEW r \in Streams, Subscribe(r) PROVE Goal
    <2>1. /\ spc[r] = "off" /\ backlog' = [backlog EXCEPT ![r] = events]
          /\ UNCHANGED <<events, ready, queue, sent, ev, todo, emitted>>
      BY <1>7 DEF Subscribe
    <2>2. CASE s # r
      <3>1. Feed(s)' = Feed(s)
        BY <1>0, <2>1, <2>2 DEF Feed
      <3>2. QED
        BY <1>3, <2>1, <3>1
    <2>3. CASE s = r
      <3>1. Fresh(s) /\ backlog'[s] = events
        BY <1>0, <2>1, <2>3 DEF StreamInv, Served
      <3>2. Feed(s)' = <<>> \o events \o <<>> \o <<>>
        BY <2>1, <3>1 DEF Feed, Fresh
      <3>3. Feed(s)' = events
        BY <1>0, <3>2, EmptyRight
      <3>4. \A x \in ToSet(events) : Numbered(x)
        BY DEF LogInv, ToSet
      <3>5. Newer(s)'
        BY <2>1, <3>1, <3>3, <3>4 DEF Newer, Numbered, Fresh
      <3>6. QED
        BY <3>3, <3>5
    <2>4. QED
      BY <2>2, <2>3
  <1>8. ASSUME NEW r \in Streams, SendBacklog(r) \/ SendLive(r) PROVE Goal
    <2>1. Feed(s)' = Feed(s)
      BY <1>8, SendBacklogFeed, SendLiveFeed
    <2>2. UNCHANGED <<ev, todo, emitted>>
      BY <1>8 DEF SendBacklog, SendLive
    <2>3. QED
      BY <1>3, <2>1, <2>2
  <1>9. ASSUME NEW r \in Streams, StreamEnd(r) PROVE Goal
    <2>1. UNCHANGED <<ev, todo, emitted, queue, backlog, ready, sent>>
      BY <1>9 DEF StreamEnd
    <2>2. Feed(s)' = Feed(s)
      BY <2>1 DEF Feed
    <2>3. QED
      BY <1>3, <2>1, <2>2
  <1>10. ASSUME NEW r \in Streams, _safe_put(r) PROVE Goal
    <2>1. UNCHANGED <<ev, todo, emitted>>
      BY <1>10 DEF _safe_put
    <2>2. \/ Feed(s)' = Feed(s)
          \/ \E f, g \in Seq(EventId) : g # <<>> /\ Feed(s) = f \o g /\ Feed(s)' = f \o Tail(g)
      BY <1>10, PutFeed
    <2>3. CASE Feed(s)' = Feed(s)
      BY <1>3, <2>1, <2>3
    <2>4. CASE \E f, g \in Seq(EventId) : g # <<>> /\ Feed(s) = f \o g /\ Feed(s)' = f \o Tail(g)
      <3>1. PICK f \in Seq(EventId), g \in Seq(EventId) :
                  g # <<>> /\ Feed(s) = f \o g /\ Feed(s)' = f \o Tail(g)
        BY <2>4
      <3>2. ToSet(Feed(s)') \subseteq ToSet(Feed(s))
        BY <3>1, DropHead
      <3>3. Ordered(Feed(s)) => Ordered(Feed(s)')
        BY <3>1, OrderedDrop
      <3>4. Newer(s)'
        BY <2>1, <3>2, KeepNewer
      <3>5. QED
        BY <3>3, <3>4
    <2>5. QED
      BY <2>2, <2>3, <2>4
  <1>11. ASSUME Restart PROVE Goal
    <2>1. sent'[s] = <<>> /\ backlog'[s] = <<>> /\ queue'[s] = <<>> /\ ready'[s] = <<>>
      BY <1>11 DEF Restart
    <2>2. Feed(s)' = <<>> \o <<>> \o <<>> \o <<>>
      BY <2>1 DEF Feed
    <2>3. Feed(s)' = <<>>
      <3>1. <<>> \in Seq(EventId)
        OBVIOUS
      <3>2. QED
        BY <2>2, <3>1, EmptyRight
    <2>4. ToSet(Feed(s)') = {} /\ Ordered(Feed(s)')
      BY <2>3 DEF ToSet, Ordered
    <2>5. QED
      BY <2>4 DEF Newer
  <1> HIDE DEF Goal
  <1>12. Goal
    BY <1>1, <1>2, <1>5, <1>6, <1>7, <1>8, <1>9, <1>10, <1>11, StepCases
  <1>13. QED
    BY <1>12 DEF Goal

LEMMA KeepRows ==
    ASSUME RowsInOrder, UNCHANGED <<events, rows, seq, crashes>>,
           \A t \in Thread : pc'[t] = pc[t] \/ ~Writing(t)'
    PROVE  RowsInOrder'
  BY DEF RowsInOrder, Writing

LEMMA StepRows ==
    ASSUME TypeInv, LogInv, RowsInOrder, [Next]_vars
    PROVE  RowsInOrder'
  <1> USE DEF memVars, streamVars, dbVars, opVars, histVars
  <1>0. /\ pc \in [Thread -> Pc] /\ seq \in [Thread -> Nat] /\ Len(events) \in Nat
        /\ ev \in [Thread -> EventId] /\ DOMAIN rows \subseteq Nat
        /\ \A k \in DOMAIN rows : rows[k] \in EventId
        /\ crashes \in Nat
    BY DEF TypeInv, TypeOK
  <1>1. ASSUME NEW t \in Thread, append_event(t) PROVE RowsInOrder'
    <2>1. Len(events') = Len(events) + 1
      BY <1>1, AppendEvent
    <2>2. pc' = [pc EXCEPT ![t] = "notify"] /\ UNCHANGED <<rows, seq, crashes>>
      BY <1>1 DEF append_event, Goto
    <2> SUFFICES ASSUME crashes = 0 PROVE RowsInOrder'
      BY <2>2 DEF RowsInOrder
    <2>3. \A k \in DOMAIN rows : k < Len(events')
      BY <1>0, <2>1 DEF RowsInOrder
    <2>4. \A j, k \in DOMAIN rows : j < k /\ rows[j].by = rows[k].by => rows[j].n < rows[k].n
      BY DEF RowsInOrder
    <2>5. ASSUME NEW u \in Thread, NEW k \in DOMAIN rows, rows[k].by = u
          PROVE  /\ pc'[u] = "notify" => k < Len(events') - 1
                 /\ pc'[u] = "insert" => k < seq[u]
      <3>1. k \in Nat /\ k < Len(events)
        BY <1>0 DEF RowsInOrder
      <3>2. pc'[u] = "insert" => pc[u] = "insert"
        BY <1>0, <2>2
      <3>3. pc[u] = "insert" => k < seq[u]
        BY <2>5 DEF RowsInOrder
      <3>4. QED
        BY <1>0, <2>1, <3>1, <3>2, <3>3
    <2>6. ASSUME NEW u \in Thread, pc'[u] = "insert" PROVE seq[u] < Len(events')
      <3>1. seq[u] < Len(events) /\ seq[u] \in Nat
        BY <1>0, <2>2, <2>6 DEF RowsInOrder
      <3>2. QED
        BY <1>0, <2>1, <3>1
    <2>7. QED
      BY <2>2, <2>3, <2>4, <2>5, <2>6 DEF RowsInOrder
  <1>2. ASSUME NEW t \in Thread, Notify(t) PROVE RowsInOrder'
    BY <1>2, KeepRows DEF Notify
  <1>3. ASSUME NEW t \in Thread, ReadSeq(t) PROVE RowsInOrder'
    <2>1. /\ pc[t] = "notify" /\ pc' = [pc EXCEPT ![t] = "insert"]
          /\ seq' = [seq EXCEPT ![t] = Len(events) - 1] /\ UNCHANGED <<events, rows, crashes>>
      BY <1>3 DEF ReadSeq, Goto
    <2> SUFFICES ASSUME crashes = 0 PROVE RowsInOrder'
      BY <2>1 DEF RowsInOrder
    <2>2. /\ \A u \in Thread \ {t} : pc'[u] = pc[u] /\ seq'[u] = seq[u]
          /\ pc'[t] = "insert" /\ seq'[t] = Len(events) - 1
      BY <1>0, <2>1
    <2>3. \A u \in Thread : \A k \in DOMAIN rows : rows[k].by = u =>
              /\ pc'[u] = "notify" => k < Len(events) - 1
              /\ pc'[u] = "insert" => k < seq'[u]
      BY <2>1, <2>2 DEF RowsInOrder
    <2>4. \A u \in Thread : pc'[u] = "insert" => seq'[u] < Len(events)
      BY <1>0, <2>1, <2>2 DEF RowsInOrder
    <2>5. QED
      BY <2>1, <2>3, <2>4 DEF RowsInOrder
  <1>4. ASSUME NEW t \in Thread, InsertEvent(t) PROVE RowsInOrder'
    <2>1. /\ DOMAIN rows' = DOMAIN rows \cup {seq[t]}
          /\ \A k \in DOMAIN rows' : rows'[k] = IF k = seq[t] THEN ev[t] ELSE rows[k]
          /\ pc[t] = "insert" /\ pc' = [pc EXCEPT ![t] = "scalars"]
          /\ UNCHANGED <<events, seq, crashes>>
      BY <1>4 DEF InsertEvent, Goto
    <2> SUFFICES ASSUME crashes = 0 PROVE RowsInOrder'
      BY <2>1 DEF RowsInOrder
    <2>2. /\ ev[t] = [by |-> t, n |-> emitted[t]] /\ seq[t] < Len(events) /\ seq[t] \in Nat
          /\ \A k \in DOMAIN rows : rows[k] # ev[t] /\ Numbered(rows[k])
      BY <1>0, <2>1 DEF LogInv, RowsInOrder, Writing
    <2>3. ASSUME NEW k \in DOMAIN rows, rows[k].by = t
          PROVE  k < seq[t] /\ rows[k].n < ev[t].n
      <3>1. k < seq[t]
        BY <2>1, <2>3 DEF RowsInOrder
      <3>2. rows[k] = [by |-> rows[k].by, n |-> rows[k].n] /\ rows[k].n \in Nat
        BY <1>0 DEF EventId
      <3>3. rows[k].n <= emitted[t] /\ rows[k].n # emitted[t]
        BY <2>2, <2>3, <3>2 DEF Numbered
      <3>4. ev[t].n = emitted[t] /\ emitted[t] \in Nat
        BY <2>2 DEF TypeInv, TypeOK
      <3>5. QED
        BY <3>1, <3>2, <3>3, <3>4
    <2>4. \A k \in DOMAIN rows' : k < Len(events)
      BY <2>1, <2>2 DEF RowsInOrder
    <2>5. ASSUME NEW j \in DOMAIN rows', NEW k \in DOMAIN rows', j < k, rows'[j].by = rows'[k].by
          PROVE  rows'[j].n < rows'[k].n
      <3>0. j \in Nat /\ k \in Nat /\ ev[t].by = t
        BY <1>0, <2>1, <2>2
      <3>1. CASE j # seq[t] /\ k # seq[t]
        BY <2>1, <2>5, <3>1 DEF RowsInOrder
      <3>2. CASE k = seq[t]
        BY <2>1, <2>3, <2>5, <3>0, <3>2
      <3>3. CASE j = seq[t]
        <4>1. k \in DOMAIN rows /\ rows[k].by = t /\ seq[t] < k
          BY <2>1, <2>5, <3>0, <3>3
        <4>2. k < seq[t]
          BY <2>3, <4>1
        <4>3. QED
          BY <2>2, <3>0, <4>1, <4>2
      <3>4. QED
        BY <3>1, <3>2, <3>3
    <2>6. ASSUME NEW u \in Thread, NEW k \in DOMAIN rows', rows'[k].by = u
          PROVE  /\ pc'[u] = "notify" => k < Len(events) - 1
                 /\ pc'[u] = "insert" => k < seq[u]
      <3>1. CASE u = t
        BY <1>0, <2>1, <3>1
      <3>2. CASE u # t
        <4>1. k \in DOMAIN rows /\ rows[k].by = u /\ pc'[u] = pc[u]
          BY <1>0, <2>1, <2>2, <2>6, <3>2
        <4>2. QED
          BY <4>1 DEF RowsInOrder
      <3>3. QED
        BY <3>1, <3>2
    <2>7. \A u \in Thread : pc'[u] = "insert" => seq[u] < Len(events)
      BY <1>0, <2>1 DEF RowsInOrder
    <2>8. QED
      BY <2>1, <2>4, <2>5, <2>6, <2>7 DEF RowsInOrder
  <1>5. ASSUME Elsewhere PROVE RowsInOrder'
    BY <1>5, KeepRows DEF Elsewhere
  <1>6. ASSUME NEW s \in Streams,
               Subscribe(s) \/ SendBacklog(s) \/ SendLive(s) \/ StreamEnd(s) \/ _safe_put(s)
        PROVE  RowsInOrder'
    <2>1. UNCHANGED <<events, rows, seq, crashes, pc>>
      BY <1>6 DEF Subscribe, SendBacklog, SendLive, StreamEnd, _safe_put
    <2>2. QED
      BY <2>1, KeepRows
  <1>7. ASSUME Restart PROVE RowsInOrder'
    <2>1. crashes' # 0
      BY <1>0, <1>7 DEF Restart
    <2>2. QED
      BY <2>1 DEF RowsInOrder
  <1>8. QED
    BY <1>1, <1>2, <1>3, <1>4, <1>5, <1>6, <1>7, StepCases

\* The hydrated log keeps the order when the rows do.
LEMMA HydratedOrdered ==
    ASSUME TypeInv,
           \A j, k \in DOMAIN rows : j < k /\ rows[j].by = rows[k].by => rows[j].n < rows[k].n
    PROVE  Ordered(Hydrated)
  <1> DEFINE n == Cardinality(DOMAIN rows)
  <1>1. IsFiniteSet(DOMAIN rows) /\ DOMAIN rows \subseteq Nat
    BY DEF TypeInv, TypeOK
  <1>2. PICK pos \in [1..n -> DOMAIN rows] :
              /\ \A i, j \in 1..n : i < j => pos[i] < pos[j]
              /\ Hydrated = [i \in 1..n |-> rows[pos[i]]]
    BY <1>1, HydratedIs
  <1> HIDE DEF n
  <1>3. QED
    BY <1>2 DEF Ordered

LEMMA StepEvents ==
    ASSUME TypeInv, LogInv, MirrorInv, RowsInOrder, Calm => Ordered(events), [Next]_vars, Calm'
    PROVE  Calm /\ Ordered(events')
  <1> USE DEF memVars, streamVars, dbVars, opVars, histVars
  <1>0. /\ events \in Seq(EventId) /\ overlapped \in BOOLEAN /\ crashes \in Nat
        /\ emitted \in [Thread -> Nat] /\ overlapped' \in BOOLEAN
    BY StepType DEF TypeInv, TypeOK
  <1>1. overlapped' = FALSE => overlapped = FALSE
    BY OverlapStays
  <1>2. ASSUME UNCHANGED <<events, crashes>> PROVE Calm /\ Ordered(events')
    BY <1>0, <1>1, <1>2 DEF Calm
  <1>3. ASSUME NEW t \in Thread, append_event(t) PROVE Calm /\ Ordered(events')
    <2>1. Calm
      BY <1>3 DEF append_event, Calm
    <2> DEFINE e == [by |-> t, n |-> emitted[t] + 1]
    <2>2. e \in EventId /\ events' = Append(events, e)
      BY <1>3, AppendEvent
    <2>3. e.by = t /\ e.n = emitted[t] + 1
      OBVIOUS
    <2> HIDE DEF e
    <2>4. ASSUME NEW x \in ToSet(events), x.by = e.by PROVE x.n < e.n
      <3>1. x \in EventId /\ x.n <= emitted[x.by]
        BY <1>0, <2>4 DEF ToSet, LogInv, Numbered
      <3>2. QED
        BY <1>0, <2>3, <2>4, <3>1 DEF EventId
    <2>5. QED
      BY <1>0, <2>1, <2>2, <2>4, OrderedAppend
  <1>4. ASSUME NEW t \in Thread, Notify(t) \/ ReadSeq(t) \/ InsertEvent(t)
        PROVE  Calm /\ Ordered(events')
    BY <1>2, <1>4 DEF Notify, ReadSeq, InsertEvent
  <1>5. ASSUME NEW s \in Streams,
               Subscribe(s) \/ SendBacklog(s) \/ SendLive(s) \/ StreamEnd(s) \/ _safe_put(s)
        PROVE  Calm /\ Ordered(events')
    BY <1>2, <1>5 DEF Subscribe, SendBacklog, SendLive, StreamEnd, _safe_put
  <1>6. ASSUME Elsewhere PROVE Calm /\ Ordered(events')
    BY <1>2, <1>6 DEF Elsewhere
  <1>7. ASSUME Restart PROVE Calm /\ Ordered(events')
    <2>1. events' = Hydrated /\ crashes' = crashes + 1 /\ overlapped' = overlapped
      BY <1>7 DEF Restart
    <2>2. overlapped = FALSE \/ crashes = 0
      BY <1>0, <2>1 DEF Calm
    <2>3. Calm
      BY <2>2 DEF Calm
    <2>4. CASE crashes = 0
      <3>1. \A j, k \in DOMAIN rows : j < k /\ rows[j].by = rows[k].by => rows[j].n < rows[k].n
        BY <2>4 DEF RowsInOrder
      <3>2. QED
        BY <2>1, <2>3, <3>1, HydratedOrdered
    <2>5. CASE overlapped = FALSE
      <3>1. TableIsLog
        BY <2>5 DEF MirrorInv
      <3>2. /\ \A k \in DOMAIN rows : rows[k] = events[k + 1]
            /\ DOMAIN rows = 0..(Len(events) - 1) \/ DOMAIN rows = 0..(Len(events) - 2)
        BY <3>1 DEF TableIsLog
      <3>3. \A k \in DOMAIN rows : k \in Nat /\ k + 1 \in DOMAIN events
        BY <1>0, <3>2
      <3>4. ASSUME NEW j \in DOMAIN rows, NEW k \in DOMAIN rows, j < k, rows[j].by = rows[k].by
            PROVE  rows[j].n < rows[k].n
        <4>1. j + 1 \in DOMAIN events /\ k + 1 \in DOMAIN events /\ j + 1 < k + 1
          BY <3>3, <3>4
        <4>2. rows[j] = events[j + 1] /\ rows[k] = events[k + 1]
          BY <3>2
        <4>3. QED
          BY <2>3, <3>4, <4>1, <4>2 DEF Ordered
      <3>5. QED
        BY <2>1, <2>3, <3>4, HydratedOrdered
    <2>6. QED
      BY <2>2, <2>4, <2>5
  <1>8. QED
    BY <1>3, <1>4, <1>5, <1>6, <1>7, StepCases

LEMMA StepOrder ==
    TypeInv /\ LogInv /\ StreamInv /\ MirrorInv /\ OrderInv /\ [Next]_vars => OrderInv'
  <1> SUFFICES ASSUME TypeInv, LogInv, StreamInv, MirrorInv, OrderInv, [Next]_vars
               PROVE  OrderInv'
    OBVIOUS
  <1>1. ASSUME NEW s \in Streams
        PROVE  Newer(s)' /\ (Ordered(events) /\ Ordered(Feed(s)) => Ordered(Feed(s)'))
    BY StepFeed DEF OrderInv
  <1>2. RowsInOrder'
    BY StepRows DEF OrderInv
  <1>3. ASSUME Calm' PROVE Ordered(events)' /\ \A s \in Streams : Ordered(Feed(s))'
    <2>1. Calm /\ Ordered(events')
      BY <1>3, StepEvents DEF OrderInv
    <2>2. Ordered(events) /\ \A s \in Streams : Ordered(Feed(s))
      BY <2>1 DEF OrderInv
    <2>3. \A s \in Streams : Ordered(Feed(s)')
      BY <1>1, <2>2
    <2>4. QED
      BY <2>1, <2>3 DEF Ordered
  <1>4. QED
    BY <1>1, <1>2, <1>3 DEF OrderInv

\* A stream shows the events of one thread in the order in which the thread appended
\* them, over any delivery, drop and crash, but for two crashes after an overlap
\* (append_event and hydration of runner/store.py, gen of api/runs.py).
THEOREM OwnOrderHolds == Spec => []OwnOrder
  <1> DEFINE Inv == TypeInv /\ LogInv /\ StreamInv /\ MirrorInv /\ OrderInv
  <1>1. Init => Inv
    BY InitType, InitLog, InitStream, InitMirror, InitOrder
  <1>2. Inv /\ [Next]_vars => Inv'
    BY StepType, StepLog, StepStream, StepMirror, StepOrder
  <1>3. Inv => OwnOrder
    BY DEF OrderInv, Calm, Ordered, OwnOrder
  <1>4. QED
    BY <1>1, <1>2, <1>3, PTL DEF Spec

==============================================================================
