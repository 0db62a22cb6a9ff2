---------------------------- MODULE DataFacts -----------------------------
(***************************************************************************)
(* What the proofs need to know of channels, functions whose values are    *)
(* sequences of messages, to one of which a message is written, or of which*)
(* one is read to the end; and of tallies, whose sum they follow.          *)
(***************************************************************************)
EXTENDS Tallies, Sequences, FiniteSetTheorems, TLAPS

-----------------------------------------------------------------------------
(* Channels.                                                                *)

\* A message is written at the end.
LEMMA Written ==
  ASSUME NEW S, NEW T, NEW f \in [S -> Seq(T)], NEW s \in S, NEW m \in T,
         NEW g, g = [f EXCEPT ![s] = Append(@, m)]
  PROVE  /\ g \in [S -> Seq(T)]
         /\ g[s] = Append(f[s], m) /\ g[s] # <<>> /\ Len(g[s]) = Len(f[s]) + 1
         /\ f[s] # <<>> => Head(g[s]) = Head(f[s])
         /\ f[s] = <<>> => Head(g[s]) = m /\ g[s] = <<m>>
         /\ \A r \in S \ {s} : g[r] = f[r]
  <1>1. f[s] \in Seq(T)
    OBVIOUS
  <1>2. Append(f[s], m) \in Seq(T) /\ Append(f[s], m) # <<>> /\ Len(Append(f[s], m)) = Len(f[s]) + 1
    BY <1>1
  <1>3. g[s] = Append(f[s], m)
    OBVIOUS
  <1>4. \A r \in S \ {s} : g[r] = f[r]
    OBVIOUS
  <1>5. g \in [S -> Seq(T)]
    BY <1>2
  <1>6. f[s] # <<>> => Head(Append(f[s], m)) = Head(f[s])
    BY <1>1
  <1>7. f[s] = <<>> => Append(f[s], m) = <<m>> /\ Head(Append(f[s], m)) = m
    OBVIOUS
  <1> QED
    BY <1>2, <1>3, <1>4, <1>5, <1>6, <1>7

\* Everything is read at once.
LEMMA Emptied ==
  ASSUME NEW S, NEW T, NEW f \in [S -> Seq(T)], NEW s \in S,
         NEW g, g = [f EXCEPT ![s] = <<>>]
  PROVE  /\ g \in [S -> Seq(T)]
         /\ g[s] = <<>>
         /\ \A r \in S \ {s} : g[r] = f[r]
  OBVIOUS

\* One element is added to a sequence.
LEMMA Appended ==
  ASSUME NEW T, NEW q \in Seq(T), NEW m \in T, NEW g, g = Append(q, m)
  PROVE  /\ g \in Seq(T) /\ Len(g) = Len(q) + 1 /\ Len(q) \in Nat
         /\ DOMAIN q = 1 .. Len(q) /\ DOMAIN g = 1 .. Len(q) + 1
         /\ \A k \in DOMAIN q : k \in DOMAIN g /\ g[k] = q[k]
         /\ Len(g) \in DOMAIN g /\ g[Len(g)] = m
  OBVIOUS

-----------------------------------------------------------------------------
(* Tallies.                                                                 *)

\* A unit is an entry and a number up to its count.
LEMMA UnitCases ==
  ASSUME NEW S, NEW f \in [S -> Nat]
  PROVE  \A u : u \in Units(f) <=> \E k \in S : \E i \in 1 .. f[k] : u = <<k, i>>
  BY DEF Units

\* A table of finitely many entries has finitely many units.
LEMMA UnitsFinite ==
  ASSUME NEW S, IsFiniteSet(S), NEW f \in [S -> Nat]
  PROVE  IsFiniteSet(Units(f)) /\ Total(f) \in Nat
  <1> DEFINE g == [k \in S |-> {k} \X (1 .. f[k])]
             T == {{k} \X (1 .. f[k]) : k \in S}
  <1>1. g \in Surjection(S, T)
    BY DEF Surjection
  <1>2. IsFiniteSet(T)
    <2> HIDE DEF g, T
    <2> QED
      BY <1>1, FS_Surjection
  <1>3. ASSUME NEW k \in S PROVE IsFiniteSet({k} \X (1 .. f[k]))
    <2>1. IsFiniteSet({k}) /\ IsFiniteSet(1 .. f[k])
      <3>1. f[k] \in Int
        OBVIOUS
      <3>2. IsFiniteSet(1 .. f[k])
        BY <3>1, FS_Interval
      <3> QED
        BY <3>2, FS_Singleton
    <2> QED
      BY <2>1, FS_Product
  <1>4. \A U \in T : IsFiniteSet(U)
    BY <1>3
  <1>5. IsFiniteSet(UNION T)
    <2> HIDE DEF T
    <2> QED
      BY <1>2, <1>4, FS_UNION
  <1>6. Units(f) = UNION T
    BY DEF Units
  <1>7. IsFiniteSet(Units(f))
    BY <1>5, <1>6
  <1> QED
    BY <1>7, FS_CardinalityType DEF Total

\* With nothing counted the sum is 0.
LEMMA TotalNothing ==
  ASSUME NEW S, NEW f \in [S -> Nat], \A k \in S : f[k] = 0
  PROVE  Total(f) = 0
  <1>1. Units(f) = {}
    BY UnitCases
  <1> QED
    BY <1>1, FS_EmptySet DEF Total

\* Another unit raises the sum by one.
LEMMA TotalPlusOne ==
  ASSUME NEW S, IsFiniteSet(S), NEW f \in [S -> Nat], NEW g,
         NEW u, u \notin Units(f), Units(g) = Units(f) \cup {u}
  PROVE  Total(g) = Total(f) + 1
  BY UnitsFinite, FS_AddElement DEF Total

\* One count is raised by one.
LEMMA TotalRaised ==
  ASSUME NEW S, IsFiniteSet(S), NEW f \in [S -> Nat], NEW k \in S,
         NEW g, g = [f EXCEPT ![k] = @ + 1]
  PROVE  Total(g) = Total(f) + 1
  <1>1. g \in [S -> Nat]
    OBVIOUS
  <1>a. \A v : v \in Units(g) <=> \E l \in S : \E i \in 1 .. g[l] : v = <<l, i>>
    <2> HIDE DEF Units
    <2> QED
      BY <1>1, UnitCases, Zenon
  <1>2. <<k, f[k] + 1>> \notin Units(f)
    BY UnitCases
  <1>3. Units(g) = Units(f) \cup {<<k, f[k] + 1>>}
    <2>1. ASSUME NEW v \in Units(g) PROVE v \in Units(f) \cup {<<k, f[k] + 1>>}
      <3>0. PICK l \in S : \E i \in 1 .. g[l] : v = <<l, i>>
        BY <1>a
      <3>1. PICK i \in 1 .. g[l] : v = <<l, i>>
        BY <3>0
      <3>2. i \in 1 .. f[l] \/ (l = k /\ i = f[k] + 1)
        OBVIOUS
      <3> QED
        BY <3>1, <3>2, UnitCases
    <2>2. ASSUME NEW v \in Units(f) PROVE v \in Units(g)
      <3>0. PICK l \in S : \E i \in 1 .. f[l] : v = <<l, i>>
        BY UnitCases
      <3>1. PICK i \in 1 .. f[l] : v = <<l, i>>
        BY <3>0
      <3>2. i \in 1 .. g[l]
        OBVIOUS
      <3> QED
        BY <1>a, <3>1, <3>2
    <2>3. <<k, f[k] + 1>> \in Units(g)
      <3>1. f[k] + 1 \in 1 .. g[k]
        OBVIOUS
      <3> QED
        BY <1>a, <3>1
    <2> QED
      BY <2>1, <2>2, <2>3
  <1> QED
    BY <1>2, <1>3, TotalPlusOne

\* An entry is added that has counted one.
LEMMA TotalExtended ==
  ASSUME NEW S, IsFiniteSet(S), NEW f \in [S -> Nat], NEW m, m \notin S,
         NEW T, T = S \cup {m}, NEW g \in [T -> Nat], \A k \in S : g[k] = f[k], g[m] = 1
  PROVE  Total(g) = Total(f) + 1
  <1>1. <<m, 1>> \notin Units(f)
    BY UnitCases
  <1>2. Units(g) = Units(f) \cup {<<m, 1>>}
    <2>1. ASSUME NEW v \in Units(g) PROVE v \in Units(f) \cup {<<m, 1>>}
      <3>0. PICK l \in S \cup {m} : \E i \in 1 .. g[l] : v = <<l, i>>
        BY UnitCases
      <3>1. PICK i \in 1 .. g[l] : v = <<l, i>>
        BY <3>0
      <3>2. (l \in S /\ i \in 1 .. f[l]) \/ (l = m /\ i = 1)
        OBVIOUS
      <3> QED
        BY <3>1, <3>2, UnitCases
    <2>2. ASSUME NEW v \in Units(f) PROVE v \in Units(g)
      <3>0. PICK l \in S : \E i \in 1 .. f[l] : v = <<l, i>>
        BY UnitCases
      <3>1. PICK i \in 1 .. f[l] : v = <<l, i>>
        BY <3>0
      <3>2. l \in S \cup {m} /\ i \in 1 .. g[l]
        OBVIOUS
      <3> QED
        BY <3>1, <3>2, UnitCases
    <2>3. <<m, 1>> \in Units(g)
      <3>1. m \in S \cup {m} /\ 1 \in 1 .. g[m]
        OBVIOUS
      <3> QED
        BY <3>1, UnitCases
    <2> QED
      BY <2>1, <2>2, <2>3
  <1> QED
    BY <1>1, <1>2, TotalPlusOne

\* If each entry that counted has a source of its own that counted as much, the
\* entries have counted no more than the sources.
LEMMA TotalBounded ==
  ASSUME NEW S, IsFiniteSet(S), NEW f \in [S -> Nat], NEW g \in [S -> Nat], NEW id,
         \A k \in S : f[k] = 0 \/ \E c \in S : id[c] = k /\ f[k] <= g[c]
  PROVE  Total(f) <= Total(g)
  <1> DEFINE Source(k) == CHOOSE c \in S : id[c] = k /\ f[k] <= g[c]
             h == [u \in Units(f) |-> <<Source(u[1]), u[2]>>]
  <1>1. ASSUME NEW k \in S, f[k] # 0
        PROVE  Source(k) \in S /\ id[Source(k)] = k /\ f[k] <= g[Source(k)]
    BY <1>1
  <1>2. ASSUME NEW u \in Units(f)
        PROVE  /\ h[u] \in Units(g)
               /\ \E k \in S : \E i \in 1 .. f[k] :
                    u = <<k, i>> /\ h[u] = <<Source(k), i>> /\ id[Source(k)] = k
    <2>0. PICK k \in S : \E i \in 1 .. f[k] : u = <<k, i>>
      BY UnitCases
    <2>1. PICK i \in 1 .. f[k] : u = <<k, i>>
      BY <2>0
    <2>2. Source(k) \in S /\ id[Source(k)] = k /\ f[k] <= g[Source(k)]
      BY <1>1
    <2>3. i \in 1 .. g[Source(k)]
      BY <2>2
    <2>4. h[u] = <<Source(k), i>>
      BY <2>1
    <2> HIDE DEF Source, h
    <2> QED
      BY <2>1, <2>2, <2>3, <2>4, UnitCases
  <1>3. \A u, v \in Units(f) : h[u] = h[v] => u = v
    <2> HIDE DEF Source, h
    <2> QED
      BY <1>2
  <1>4. h \in Injection(Units(f), Units(g))
    <2>1. h \in [Units(f) -> Units(g)]
      BY <1>2
    <2>2. IsInjective(h)
      <3>1. DOMAIN h = Units(f)
        OBVIOUS
      <3> HIDE DEF h
      <3> QED
        BY <1>3, <3>1 DEF IsInjective
    <2> HIDE DEF h
    <2> QED
      BY <2>1, <2>2 DEF Injection
  <1> HIDE DEF h
  <1> QED
    BY <1>4, UnitsFinite, FS_Injection DEF Total

-----------------------------------------------------------------------------
(* Rules that count packets.                                                *)

\* What the rules of a table have counted adds up to a number.
LEMMA PktTotal ==
  ASSUME NEW R, \A r \in R : r.pktCount \in Nat, NEW rules \in Seq(R)
  PROVE  /\ PktCounts(rules) \in [1 .. Len(rules) -> Nat] /\ IsFiniteSet(1 .. Len(rules))
         /\ Total(PktCounts(rules)) \in Nat
  <1>1. Len(rules) \in Int /\ DOMAIN rules = 1 .. Len(rules) /\ \A k \in DOMAIN rules : rules[k] \in R
    OBVIOUS
  <1>2. IsFiniteSet(1 .. Len(rules))
    BY <1>1, FS_Interval
  <1>3. PktCounts(rules) \in [1 .. Len(rules) -> Nat]
    BY <1>1 DEF PktCounts
  <1> QED
    BY <1>2, <1>3, UnitsFinite

\* A new rule that has counted one packet adds one,
LEMMA PktAdded ==
  ASSUME NEW R, \A r \in R : r.pktCount \in Nat, NEW rules \in Seq(R), NEW rule \in R, rule.pktCount = 1
  PROVE  Total(PktCounts(Append(rules, rule))) = Total(PktCounts(rules)) + 1
  <1> DEFINE longer == Append(rules, rule)
             n == Len(rules) + 1
  <1>1. /\ longer \in Seq(R) /\ Len(longer) = n /\ Len(rules) \in Nat
        /\ 1 .. n = (1 .. Len(rules)) \cup {n} /\ n \notin 1 .. Len(rules)
        /\ DOMAIN longer = 1 .. n /\ DOMAIN rules = 1 .. Len(rules)
        /\ longer[n] = rule /\ \A k \in 1 .. Len(rules) : longer[k] = rules[k]
    OBVIOUS
  <1> HIDE DEF longer, n
  <1>2. /\ PktCounts(longer) \in [(1 .. Len(rules)) \cup {n} -> Nat]
        /\ PktCounts(rules) \in [1 .. Len(rules) -> Nat] /\ IsFiniteSet(1 .. Len(rules))
    BY <1>1, PktTotal
  <1>3. PktCounts(longer)[n] = 1 /\ \A k \in 1 .. Len(rules) : PktCounts(longer)[k] = PktCounts(rules)[k]
    BY <1>1 DEF PktCounts
  <1>4. Total(PktCounts(longer)) = Total(PktCounts(rules)) + 1
    <2> DEFINE S == 1 .. Len(rules)
               T == 1 .. n
               f == PktCounts(rules)
               g == PktCounts(longer)
    <2>1. /\ n \notin S /\ T = S \cup {n} /\ IsFiniteSet(S) /\ f \in [S -> Nat] /\ g \in [T -> Nat]
          /\ g[n] = 1 /\ \A k \in S : g[k] = f[k]
      BY <1>1, <1>2, <1>3
    <2> HIDE DEF S, T, f, g
    <2>2. IsFiniteSet(S) /\ f \in [S -> Nat] /\ n \notin S /\ T = S \cup {n}
      BY <2>1
    <2>3. g \in [T -> Nat] /\ (\A k \in S : g[k] = f[k]) /\ g[n] = 1
      BY <2>1
    <2>4. Total(g) = Total(f) + 1
      BY <2>2, <2>3, TotalExtended
    <2> QED
      BY <2>4 DEF f, g
  <1> QED
    BY <1>4 DEF longer

\* and so does a rule that counts one more.
LEMMA PktRaised ==
  ASSUME NEW R, \A r \in R : r.pktCount \in Nat, NEW rules \in Seq(R), NEW k \in DOMAIN rules,
         NEW g, g = [rules EXCEPT ![k].pktCount = @ + 1],
         "pktCount" \in DOMAIN rules[k]
  PROVE  Total(PktCounts(g)) = Total(PktCounts(rules)) + 1
  <1>1. /\ DOMAIN g = DOMAIN rules /\ DOMAIN rules = 1 .. Len(rules)
        /\ g[k].pktCount = rules[k].pktCount + 1 /\ \A j \in DOMAIN rules : j # k => g[j] = rules[j]
    OBVIOUS
  <1>2. PktCounts(g) = [PktCounts(rules) EXCEPT ![k] = @ + 1]
    BY <1>1 DEF PktCounts
  <1>3. PktCounts(rules) \in [1 .. Len(rules) -> Nat] /\ IsFiniteSet(1 .. Len(rules))
    BY PktTotal
  <1> DEFINE S == 1 .. Len(rules)
             f == PktCounts(rules)
             h == PktCounts(g)
  <1>4. k \in S /\ IsFiniteSet(S) /\ f \in [S -> Nat] /\ h = [f EXCEPT ![k] = @ + 1]
    BY <1>1, <1>2, <1>3
  <1> HIDE DEF S, f, h
  <1>5. Total(h) = Total(f) + 1
    BY <1>4, TotalRaised
  <1> QED
    BY <1>5 DEF f, h

\* A table whose rules have counted nothing adds up to 0.
LEMMA PktNothing ==
  ASSUME NEW rule, rule.pktCount = 0
  PROVE  Total(PktCounts(<<rule>>)) = 0
  <1>1. PktCounts(<<rule>>) \in [{1} -> Nat] /\ \A k \in {1} : PktCounts(<<rule>>)[k] = 0
    BY DEF PktCounts
  <1> QED
    BY <1>1, TotalNothing
=============================================================================
