------------------------ MODULE LegacyStagingProofs ------------------------
(***************************************************************************)
(* Legacy staging, for any number of destinations, callers, faults and     *)
(* restarts: the leases are sound, what a sender was told is kept survives *)
(* a stop at any moment, and the burrow has room for what it admitted.     *)
(***************************************************************************)
EXTENDS LegacyStaging, FiniteSetTheorems, SequenceTheorems, WellFoundedInduction, TLAPS

-----------------------------------------------------------------------------
(* The invariant.                                                          *)

\* A record is one that Staging::open would take, but for its time.
RecOk(r) == /\ Len(r.digest) <= MAX_FILE
            /\ r.offer.length # None => r.offer.length \in Len(r.digest)..MAX_FILE

\* The records f are within the burrow's limits.
Lens(f) == [i \in Ids |-> Len0(f[i])]
Fit(f) == Sum(Lens(f)) <= MAX_TOTAL /\ Cardinality(Has(f)) <= MAX_RECORDS

\* What each of the records R takes under the claims C.
Taken(R, C) == [i \in Ids |-> IF R[i] # None /\ C[i] # None THEN C[i] ELSE Len0(R[i])]
Beside(R, C, id) == [Taken(R, C) EXCEPT ![id] = 0]

\* A caller lives while the process does; a claim job has the lock until it
\* is over, and every other caller has the lease of its destination.
Callers ==
  \A c \in Claims : claim[c] # None =>
    /\ up
    /\ claim[c].job = "claim" => lock # None /\ lock.who = c
    /\ claim[c].job # "claim" => claimed[claim[c].id] = claim[c].cap
    /\ claim[c].job = "append" => claim[c].arg \in Bytes
    /\ claim[c].job = "bind" => claim[c].arg \in 1..MAX_FILE

\* What the holder of the lock, whose claim is cl, is about.
Clearing(cl) ==
  /\ cl.job = "claim" /\ ~failed /\ lock.then = "decide"
  /\ lock.at \in {"next", "unpart", "decide"}
Making(cl) ==
  /\ cl.job = "claim" /\ ~failed /\ lock.then = "mkpart"
  /\ lock.at \in {"next", "unpart", "mkpart", "meta", "sync"}
  /\ lock.gone \subseteq {cl.id}
  /\ claimed[cl.id] = None
  /\ Sum(Beside(records, claimed, cl.id)) + cl.cap <= MAX_TOTAL
  /\ lock.rec # None /\ lock.rec.digest = << >>
  /\ lock.at \in {"mkpart", "meta", "sync"} => records[cl.id] = None
  /\ lock.at \in {"meta", "sync"} => /\ part[cl.id] = << >>
                                     /\ Fit([records EXCEPT ![cl.id] = lock.rec])
Appending(cl) ==
  /\ cl.job = "append" /\ ~failed
  /\ lock.at \in {"write", "meta", "sync"}
  /\ records[cl.id] # None /\ lock.rec # None
  /\ lock.rec.digest = Append(records[cl.id].digest, cl.arg) /\ ~lock.rec.stale
  /\ Len(lock.rec.digest) <= cl.cap
  /\ Fit([records EXCEPT ![cl.id] = lock.rec])
  /\ lock.at \in {"meta", "sync"} =>
       /\ part[cl.id] # None /\ Len(part[cl.id]) = Len(lock.rec.digest)
       /\ cl.id \notin damaged => part[cl.id] = lock.rec.digest
  /\ lock.at = "sync" => partKept[cl.id] \subseteq {None, part[cl.id]}
Binding(cl) ==
  /\ cl.job = "bind" /\ ~failed
  /\ lock.at \in {"meta", "sync"}
  /\ records[cl.id] # None /\ lock.rec # None
  /\ lock.rec.digest = records[cl.id].digest /\ lock.rec.stale = records[cl.id].stale
  /\ Fit([records EXCEPT ![cl.id] = lock.rec])
Discarding(cl) ==
  /\ cl.job = "discard" /\ lock.then = "end"
  /\ lock.at \in {"next", "unpart", "end"}
About(cl) == Clearing(cl) \/ Making(cl) \/ Appending(cl) \/ Binding(cl) \/ Discarding(cl)
Holder ==
  lock # None =>
    /\ lock.at = "unpart" => lock.victim \in lock.gone /\ meta[lock.victim] = None
    /\ lock.rec # None => RecOk(lock.rec)
    /\ lock.who = None => ~up /\ lock.at \in {"scan", "unpart"}
    /\ lock.who # None =>
         /\ claim[lock.who] # None /\ About(claim[lock.who])
         /\ lock.at = "sync" => meta[claim[lock.who].id] = lock.rec

\* What is read now is among what may be left of it; records are
\* acceptable, and no file is too long for its record, or too short.
Contents ==
  \A i \in Ids :
    /\ meta[i] \in metaKept[i] /\ part[i] \in partKept[i]
    /\ \A m \in metaKept[i] : m # None => RecOk(m)
    /\ records[i] # None => RecOk(records[i])
    /\ \A p \in partKept[i] : p # None => Len(p) <= MAX_FILE
    /\ records[i] # None /\ part[i] # None => Len(part[i]) >= Len(records[i].digest)

\* While no disk has failed the index is what is on disk, but for the
\* record that is being removed or written.
Removing(i) == lock # None /\ lock.at = "unpart" /\ i = lock.victim
Writing(i) == lock # None /\ lock.at = "sync" /\ i = claim[lock.who].id
InStep ==
  up /\ ~failed => \A i \in Ids :
    \/ meta[i] = records[i] /\ metaKept[i] = {records[i]}
    \/ Removing(i) /\ meta[i] = None /\ metaKept[i] \subseteq {records[i], None}
    \/ Writing(i) /\ meta[i] = lock.rec /\ metaKept[i] \subseteq {records[i], lock.rec}

\* While the process is down nothing is at risk but what Staging::open does.
AtRest ==
  \A i \in Ids : records[i] = None /\ metaKept[i] = {meta[i]} /\ partKept[i] = {part[i]}
Scanning ==
  \A i \in Ids :
    /\ i \in lock.gone => records[i] = None /\ partKept[i] = {part[i]}
    /\ i \notin lock.gone => records[i] = meta[i]
    /\ Removing(i) \/ metaKept[i] = {meta[i]}
    /\ i \in lock.gone => (meta[i] = None <=> Removing(i))
Down ==
  ~up => /\ ~failed
         /\ \A i \in Ids : claimed[i] = None
         /\ lock = None => AtRest
         /\ lock # None => Scanning

\* Whatever is left of the records is within the limits.
Leftovers == {f \in [Ids -> UNION {metaKept[i] : i \in Ids}] : \A i \in Ids : f[i] \in metaKept[i]}
Bounded == \A f \in Leftovers : Fit(f)

\* The bytes a record of the index answers for are there, whatever is left.
Standing ==
  \A i \in Ids : records[i] # None /\ i \notin damaged =>
    \A p \in partKept[i] : Prefix(p, records[i]) # None

\* What a sender was told is kept: no copy of its record is stale.
Told(a, m) ==
  /\ m # None /\ ~m.stale
  /\ Len(a) <= Len(m.digest) /\ SubSeq(m.digest, 1, Len(a)) = a
AckedKept ==
  \A i \in Ids : acked[i] # None =>
    /\ i \notin damaged
    /\ \A m \in metaKept[i] : Told(acked[i], m) /\ \A p \in partKept[i] : Prefix(p, m) # None

\* What is admitted fits, and a record never outgrows its claim.
Reserved ==
  /\ Sum(Taken(records, claimed)) <= MAX_TOTAL
  /\ \A i \in Ids : claimed[i] # None /\ records[i] # None => Len(records[i].digest) <= claimed[i]

StagingInv ==
  /\ TypeOK /\ Callers /\ Holder /\ OneWriter /\ CallerAgrees /\ Contents
  /\ InStep /\ Down /\ Bounded /\ Standing /\ AckedKept /\ Reserved

-----------------------------------------------------------------------------
(* Sums over finite sets.                                                  *)

\* A set of natural numbers that is not empty has a least one.
LEMMA LeastOf ==
  ASSUME NEW S \in SUBSET Nat, S # {}
  PROVE  \E n \in S : \A m \in S : n <= m
<1>1. PICK n \in S : \A m \in S : ~(<<m, n>> \in OpToRel(<, Nat))
  BY WFMin, NatLessThanWellFounded
<1>2. \A m \in S : ~(m < n)
  BY <1>1 DEF OpToRel
<1> QED
  BY <1>2

\* Among subsets of a finite set there is a smallest.
LEMMA SmallestOf ==
  ASSUME NEW S, IsFiniteSet(S), NEW B \in SUBSET (SUBSET S), B # {}
  PROVE  \E T \in B : \A x \in T : T \ {x} \notin B
<1> DEFINE sizes == {Cardinality(T) : T \in B}
<1>1. \A T \in B : IsFiniteSet(T) /\ Cardinality(T) \in Nat
  BY FS_Subset, FS_CardinalityType
<1>2. sizes \in SUBSET Nat /\ sizes # {}
  BY <1>1
<1>3. PICK c \in sizes : \A d \in sizes : c <= d
  <2> HIDE DEF sizes
  <2> QED
    BY <1>2, LeastOf
<1>4. PICK T \in B : c = Cardinality(T)
  BY <1>3
<1>5. ASSUME NEW x \in T, T \ {x} \in B PROVE FALSE
  <2>1. Cardinality(T \ {x}) = Cardinality(T) - 1 /\ Cardinality(T) \in Nat
    BY <1>1, FS_RemoveElement
  <2>2. Cardinality(T) <= Cardinality(T \ {x})
    BY <1>3, <1>4, <1>5
  <2> QED
    BY <2>1, <2>2
<1> QED
  BY <1>5

\* g sums w over each subset of S, taking the members as MapThenSumSet does.
Pick(s) == CHOOSE x \in s : TRUE
Adds(g, S, w) ==
  /\ g \in [SUBSET S -> Nat]
  /\ \A s \in SUBSET S : g[s] = IF s = {} THEN 0 ELSE w[Pick(s)] + g[s \ {Pick(s)}]

\* Pick chooses a member.
LEMMA PickIn ==
  ASSUME NEW s, s # {}
  PROVE  Pick(s) \in s
BY Zenon DEF Pick

\* There is such a g: one for the subsets of n members gives one for those
\* of n + 1.
LEMMA SumExists ==
  ASSUME NEW S, IsFiniteSet(S), NEW w \in [S -> Nat]
  PROVE  \E g : Adds(g, S, w)
<1> DEFINE D(n) == {s \in SUBSET S : Cardinality(s) <= n}
           Upto(n, g) == /\ g \in [D(n) -> Nat]
                         /\ \A s \in D(n) : g[s] = IF s = {} THEN 0 ELSE w[Pick(s)] + g[s \ {Pick(s)}]
           bad == {n \in Nat : ~\E g : Upto(n, g)}
<1>1. \A s \in SUBSET S : IsFiniteSet(s) /\ Cardinality(s) \in Nat
  BY FS_Subset, FS_CardinalityType
<1>2. \A s \in SUBSET S : s # {} =>
        /\ Pick(s) \in s /\ s \ {Pick(s)} \in SUBSET S /\ Cardinality(s) # 0
        /\ Cardinality(s \ {Pick(s)}) = Cardinality(s) - 1
  BY <1>1, PickIn, FS_RemoveElement, FS_EmptySet
<1>3. Cardinality({}) = 0 /\ {} \in SUBSET S
  BY FS_EmptySet
<1>4. bad = {}
  <2> SUFFICES ASSUME bad # {} PROVE FALSE
    OBVIOUS
  <2>1. PICK n \in bad : \A m \in bad : n <= m
    <3>1. bad \in SUBSET Nat
      OBVIOUS
    <3> HIDE DEF bad
    <3> QED
      BY <3>1, LeastOf
  <2>2. CASE n = 0
    <3> DEFINE g == [s \in D(0) |-> 0]
    <3>1. ASSUME NEW s \in D(0) PROVE s = {}
      <4>1. Cardinality(s) <= 0 /\ Cardinality(s) \in Nat
        BY <1>1
      <4>2. Cardinality(s) = 0
        BY <4>1
      <4> QED
        BY <1>2, <4>2
    <3>2. Upto(0, g)
      BY <3>1
    <3> QED
      BY <2>1, <2>2, <3>2
  <2>3. CASE n # 0
    <3>1. n - 1 \in Nat /\ n \in Nat /\ n - 1 \notin bad
      <4>1. bad \subseteq Nat
        OBVIOUS
      <4> HIDE DEF bad
      <4>2. n \in Nat /\ n - 1 \in Nat /\ ~(n <= n - 1)
        BY <2>1, <2>3, <4>1
      <4> QED
        BY <2>1, <4>2
    <3>2. PICK h : Upto(n - 1, h)
      BY <3>1
    <3> DEFINE g == [s \in D(n) |-> IF s = {} THEN 0 ELSE w[Pick(s)] + h[s \ {Pick(s)}]]
    <3>3. ASSUME NEW s \in D(n), s # {}
          PROVE  s \ {Pick(s)} \in D(n - 1) /\ s \ {Pick(s)} \in D(n) /\ w[Pick(s)] \in Nat
      BY <1>1, <1>2, <3>1, <3>3
    <3>4. g \in [D(n) -> Nat]
      BY <3>2, <3>3
    <3>5. ASSUME NEW s \in D(n - 1) PROVE s \in D(n) /\ g[s] = h[s]
      BY <1>1, <3>1, <3>2, <3>5
    <3>6. ASSUME NEW s \in D(n), s # {} PROVE g[s] = w[Pick(s)] + g[s \ {Pick(s)}]
      <4>1. g[s \ {Pick(s)}] = h[s \ {Pick(s)}]
        BY <3>3, <3>5, <3>6
      <4> QED
        BY <3>6, <4>1
    <3>7. Upto(n, g)
      BY <3>4, <3>6
    <3> QED
      BY <2>1, <3>7
  <2> QED
    BY <2>2, <2>3
<1>5. Cardinality(S) \in Nat
  BY <1>1
<1>6. PICK g : Upto(Cardinality(S), g)
  BY <1>4, <1>5
<1>7. D(Cardinality(S)) = SUBSET S
  BY FS_Subset
<1> QED
  BY <1>6, <1>7 DEF Adds

\* Whichever member is taken first.
LEMMA SumRemove ==
  ASSUME NEW S, IsFiniteSet(S), NEW w \in [S -> Nat], NEW g, Adds(g, S, w),
         NEW T \in SUBSET S, NEW x \in T
  PROVE  g[T] = w[x] + g[T \ {x}]
<1> DEFINE Bad(U) == \E y \in U : g[U] # w[y] + g[U \ {y}]
           B == {U \in SUBSET S : Bad(U)}
<1> SUFFICES B = {}
  OBVIOUS
<1> SUFFICES ASSUME B # {} PROVE FALSE
  OBVIOUS
<1>1. PICK U \in B : \A y \in U : U \ {y} \notin B
  <2>1. B \in SUBSET (SUBSET S)
    OBVIOUS
  <2> HIDE DEF B
  <2> QED
    BY <2>1, SmallestOf
<1>2. PICK y \in U : g[U] # w[y] + g[U \ {y}]
  BY <1>1
<1> DEFINE c == Pick(U)
<1>3. U \in SUBSET S /\ c \in U /\ g[U] = w[c] + g[U \ {c}]
  BY <1>1, <1>2, PickIn DEF Adds
<1>4. c # y
  BY <1>2, <1>3
<1> HIDE DEF c
<1>5. g[U \ {c}] = w[y] + g[(U \ {c}) \ {y}]
  BY <1>1, <1>2, <1>3, <1>4
<1>6. g[U \ {y}] = w[c] + g[(U \ {y}) \ {c}]
  BY <1>1, <1>2, <1>3, <1>4
<1>7. (U \ {c}) \ {y} = (U \ {y}) \ {c}
  OBVIOUS
<1>8. w[y] \in Nat /\ w[c] \in Nat /\ g[(U \ {y}) \ {c}] \in Nat
  BY <1>2, <1>3 DEF Adds
<1> DEFINE a == w[y]
           b == w[c]
           r == g[(U \ {y}) \ {c}]
<1>9. g[U] = b + (a + r) /\ g[U \ {y}] = b + r /\ a \in Nat /\ b \in Nat /\ r \in Nat
  BY <1>3, <1>5, <1>6, <1>7, <1>8
<1>10. b + (a + r) = a + (b + r)
  <2> HIDE DEF a, b, r
  <2> QED
    BY <1>9
<1> QED
  BY <1>2, <1>9, <1>10

\* A sum depends on what is summed only.
LEMMA SumAgree ==
  ASSUME NEW S, IsFiniteSet(S), NEW v, NEW w, NEW g, NEW h, NEW T \in SUBSET S,
         Adds(g, S, w), Adds(h, S, v), \A x \in T : w[x] = v[x]
  PROVE  g[T] = h[T]
<1> DEFINE B == {U \in SUBSET T : g[U] # h[U]}
<1> SUFFICES B = {}
  OBVIOUS
<1> SUFFICES ASSUME B # {} PROVE FALSE
  OBVIOUS
<1>1. PICK U \in B : \A y \in U : U \ {y} \notin B
  <2>1. B \in SUBSET (SUBSET S)
    OBVIOUS
  <2> HIDE DEF B
  <2> QED
    BY <2>1, SmallestOf
<1>2. CASE U = {}
  BY <1>1, <1>2 DEF Adds
<1>3. CASE U # {}
  <2> DEFINE c == Pick(U)
  <2>1. c \in U /\ U \in SUBSET T /\ U \in SUBSET S
    BY <1>1, <1>3, PickIn
  <2>2. g[U] = w[c] + g[U \ {c}] /\ h[U] = v[c] + h[U \ {c}]
    BY <1>3, <2>1 DEF Adds
  <2> HIDE DEF c
  <2>3. g[U \ {c}] = h[U \ {c}]
    BY <1>1, <2>1
  <2> QED
    BY <1>1, <2>1, <2>2, <2>3
<1> QED
  BY <1>2, <1>3

\* Less of everything is less in all.
LEMMA SumLess ==
  ASSUME NEW S, IsFiniteSet(S), NEW v \in [S -> Nat], NEW w \in [S -> Nat], NEW g, NEW h,
         Adds(g, S, w), Adds(h, S, v), \A x \in S : w[x] <= v[x]
  PROVE  g[S] <= h[S]
<1> DEFINE B == {U \in SUBSET S : ~(g[U] <= h[U])}
<1> SUFFICES B = {}
  OBVIOUS
<1> SUFFICES ASSUME B # {} PROVE FALSE
  OBVIOUS
<1>1. PICK U \in B : \A y \in U : U \ {y} \notin B
  <2>1. B \in SUBSET (SUBSET S)
    OBVIOUS
  <2> HIDE DEF B
  <2> QED
    BY <2>1, SmallestOf
<1>2. CASE U = {}
  <2>1. g[U] = 0 /\ h[U] = 0
    BY <1>1, <1>2 DEF Adds
  <2> QED
    BY <1>1, <2>1
<1>3. CASE U # {}
  <2> DEFINE c == Pick(U)
  <2>1. c \in U /\ U \in SUBSET S
    BY <1>1, <1>3, PickIn
  <2>2. g[U] = w[c] + g[U \ {c}] /\ h[U] = v[c] + h[U \ {c}]
    BY <1>3, <2>1 DEF Adds
  <2> HIDE DEF c
  <2>3. g[U \ {c}] <= h[U \ {c}] /\ w[c] <= v[c]
    BY <1>1, <2>1
  <2>4. g[U \ {c}] \in Nat /\ h[U \ {c}] \in Nat /\ w[c] \in Nat /\ v[c] \in Nat
    BY <2>1 DEF Adds
  <2>5. g[U] <= h[U]
    BY <2>2, <2>3, <2>4
  <2> QED
    BY <1>1, <2>5
<1> QED
  BY <1>2, <1>3

\* What MapThenSumSet computes.
LEMMA SumIs ==
  ASSUME NEW f \in [Ids -> Nat]
  PROVE  \E g : Adds(g, Ids, f) /\ Sum(f) = g[Ids]
<1> DEFINE P(h) == h = [s \in SUBSET Ids |-> IF s = {} THEN 0
                          ELSE f[CHOOSE x \in s : TRUE] + h[s \ {CHOOSE x \in s : TRUE}]]
<1>2. PICK g : Adds(g, Ids, f)
  BY IdsAssumption, SumExists
<1>4. P(g)
  <2>1. \A s \in SUBSET Ids : g[s] = IF s = {} THEN 0 ELSE f[Pick(s)] + g[s \ {Pick(s)}]
    BY <1>2 DEF Adds
  <2>2. g = [s \in SUBSET Ids |-> IF s = {} THEN 0 ELSE f[Pick(s)] + g[s \ {Pick(s)}]]
    BY <1>2, <2>1 DEF Adds
  <2> QED
    BY <2>2 DEF Pick
<1> DEFINE h == CHOOSE h : P(h)
<1>5. P(h)
  <2> HIDE DEF P
  <2> QED
    BY <1>4, Zenon
<1>6. Sum(f) = h[Ids]
  BY DEF Sum, MapThenSumSet, MapThenFoldSet
<1> HIDE DEF h
<1>7. h = g
  <2>1. h = [s \in SUBSET Ids |-> IF s = {} THEN 0 ELSE f[Pick(s)] + h[s \ {Pick(s)}]]
    BY <1>5 DEF Pick
  <2> DEFINE B == {U \in SUBSET Ids : g[U] # h[U]}
  <2>2. B = {}
    <3> SUFFICES ASSUME B # {} PROVE FALSE
      OBVIOUS
    <3>1. PICK U \in B : \A y \in U : U \ {y} \notin B
      <4>1. B \in SUBSET (SUBSET Ids)
        OBVIOUS
      <4> HIDE DEF B
      <4> QED
        BY <4>1, SmallestOf, IdsAssumption
    <3>2. CASE U = {}
      BY <1>2, <2>1, <3>1, <3>2 DEF Adds
    <3>3. CASE U # {}
      <4>1. Pick(U) \in U /\ g[U \ {Pick(U)}] = h[U \ {Pick(U)}]
        BY <3>1, <3>3, PickIn
      <4>2. g[U] = f[Pick(U)] + g[U \ {Pick(U)}]
        BY <1>2, <3>1, <3>3 DEF Adds
      <4>3. h[U] = f[Pick(U)] + h[U \ {Pick(U)}]
        BY <2>1, <3>1, <3>3
      <4> QED
        BY <3>1, <4>1, <4>2, <4>3
    <3> QED
      BY <3>2, <3>3
  <2>3. \A s \in SUBSET Ids : g[s] = h[s]
    BY <2>2
  <2> QED
    BY <1>2, <2>1, <2>3 DEF Adds
<1> QED
  BY <1>2, <1>6, <1>7

\* A sum of numbers is a number, and one of them can be taken out of it.
LEMMA SumSplit ==
  ASSUME NEW f \in [Ids -> Nat]
  PROVE  /\ Sum(f) \in Nat
         /\ \A i \in Ids : /\ Sum([f EXCEPT ![i] = 0]) \in Nat
                          /\ Sum(f) = f[i] + Sum([f EXCEPT ![i] = 0])
<1>1. PICK g : Adds(g, Ids, f) /\ Sum(f) = g[Ids]
  BY SumIs
<1>2. Sum(f) \in Nat
  BY <1>1 DEF Adds
<1>3. ASSUME NEW i \in Ids
      PROVE  /\ Sum([f EXCEPT ![i] = 0]) \in Nat
             /\ Sum(f) = f[i] + Sum([f EXCEPT ![i] = 0])
  <2> DEFINE e == [f EXCEPT ![i] = 0]
             T == Ids \ {i}
  <2>1. e \in [Ids -> Nat] /\ e[i] = 0 /\ T \in SUBSET Ids /\ \A x \in T : f[x] = e[x]
    OBVIOUS
  <2> HIDE DEF e
  <2>2. PICK h : Adds(h, Ids, e) /\ Sum(e) = h[Ids]
    BY <2>1, SumIs
  <2>3. g[Ids] = f[i] + g[T] /\ h[Ids] = e[i] + h[T]
    BY <1>1, <2>1, <2>2, SumRemove, IdsAssumption
  <2>4. g[T] = h[T]
    <3> HIDE DEF T
    <3> QED
      BY <1>1, <2>1, <2>2, SumAgree, IdsAssumption
  <2>5. g[T] \in Nat /\ h[T] \in Nat /\ f[i] \in Nat
    BY <1>1, <2>2, <2>1 DEF Adds
  <2>6. Sum(e) \in Nat /\ Sum(f) = f[i] + Sum(e)
    BY <1>1, <2>1, <2>2, <2>3, <2>4, <2>5
  <2> QED
    BY <2>6 DEF e
<1> QED
  BY <1>2, <1>3

\* Less of everything is less in all, as Sum has it.
LEMMA SumLeq ==
  ASSUME NEW f \in [Ids -> Nat], NEW e \in [Ids -> Nat], \A i \in Ids : f[i] <= e[i]
  PROVE  Sum(f) <= Sum(e)
<1>1. PICK g : Adds(g, Ids, f) /\ Sum(f) = g[Ids]
  BY SumIs
<1>2. PICK h : Adds(h, Ids, e) /\ Sum(e) = h[Ids]
  BY SumIs
<1>3. g[Ids] <= h[Ids]
  BY <1>1, <1>2, SumLess, IdsAssumption
<1> QED
  BY <1>1, <1>2, <1>3


\* Nothing but zeros.
LEMMA SumZero ==
  ASSUME NEW f \in [Ids -> Nat], \A i \in Ids : f[i] = 0
  PROVE  Sum(f) = 0
<1>1. PICK g : Adds(g, Ids, f) /\ Sum(f) = g[Ids]
  BY SumIs
<1> DEFINE B == {U \in SUBSET Ids : g[U] # 0}
<1>2. ASSUME B # {} PROVE FALSE
  <2>1. PICK U \in B : \A y \in U : U \ {y} \notin B
    <3>1. B \in SUBSET (SUBSET Ids)
      OBVIOUS
    <3> HIDE DEF B
    <3> QED
      BY <1>2, <3>1, SmallestOf, IdsAssumption
  <2>2. U # {} /\ U \in SUBSET Ids
    BY <1>1, <2>1 DEF Adds
  <2>3. PICK x \in U : TRUE
    BY <2>2
  <2>4. g[U] = f[x] + g[U \ {x}]
    BY <1>1, <2>2, <2>3, SumRemove, IdsAssumption
  <2>5. g[U \ {x}] = 0
    BY <2>1, <2>2, <2>3
  <2> QED
    BY <2>1, <2>2, <2>3, <2>4, <2>5
<1> QED
  BY <1>1, <1>2
-----------------------------------------------------------------------------
(* Records, prefixes and limits.                                           *)

\* The numbers of a record.
LEMMA RecordFacts ==
  ASSUME NEW r \in Record
  PROVE  /\ r # None /\ r.digest \in Seq(Bytes) /\ Len(r.digest) \in Nat /\ r.stale \in BOOLEAN
         /\ r.offer \in Offer /\ r.digest # None
<1>1. r # None
  BY RecordsAssumption
<1>2. r.digest \in Seq(Bytes) /\ r.stale \in BOOLEAN /\ r.offer \in Offer
  BY DEF Record
<1>3. r.digest \in Seq(Bytes \cup {Foreign})
  BY <1>2
<1> QED
  BY <1>1, <1>2, <1>3, NoneAssumption

\* What read_prefix answers.
LEMMA PrefixIs ==
  ASSUME NEW r \in Record, NEW p
  PROVE  Prefix(p, r) # None <=>
           p # None /\ Len(p) \in Len(r.digest)..MAX_FILE /\ SubSeq(p, 1, Len(r.digest)) = r.digest
BY RecordFacts DEF Prefix

\* A beginning of a file.
LEMMA CutFacts ==
  ASSUME NEW X, NEW p \in Seq(X), NEW n \in Nat, n <= Len(p)
  PROVE  /\ SubSeq(p, 1, n) \in Seq(X) /\ Len(SubSeq(p, 1, n)) = n
         /\ SubSeq(SubSeq(p, 1, n), 1, n) = SubSeq(p, 1, n)
<1>1. SubSeq(p, 1, n) \in Seq(X) /\ Len(SubSeq(p, 1, n)) = n
  OBVIOUS
<1>2. SubSeq(SubSeq(p, 1, n), 1, n) = SubSeq(p, 1, n)
  BY <1>1
<1> QED
  BY <1>1, <1>2

\* A byte more does not change what came before it.
LEMMA AppendFacts ==
  ASSUME NEW X, NEW s \in Seq(X), NEW b \in X, NEW n \in Nat, n <= Len(s)
  PROVE  /\ Append(s, b) \in Seq(X) /\ Len(Append(s, b)) = Len(s) + 1
         /\ SubSeq(Append(s, b), 1, n) = SubSeq(s, 1, n)
         /\ SubSeq(s, 1, Len(s)) = s
OBVIOUS

\* The whole of it.
LEMMA WholeFacts ==
  ASSUME NEW X, NEW s \in Seq(X)
  PROVE  SubSeq(s, 1, Len(s)) = s
OBVIOUS

\* The lengths of records.
LEMMA LensType ==
  ASSUME NEW f \in [Ids -> Record \cup {None}]
  PROVE  /\ Lens(f) \in [Ids -> Nat] /\ Sum(Lens(f)) \in Nat
         /\ \A i \in Ids : Lens(f)[i] = Len0(f[i]) /\ Len0(f[i]) \in Nat
<1>1. \A i \in Ids : Lens(f)[i] = Len0(f[i]) /\ Len0(f[i]) \in Nat
  BY RecordFacts DEF Lens, Len0
<1>2. Lens(f) \in [Ids -> Nat]
  BY <1>1 DEF Lens
<1> QED
  BY <1>1, <1>2, SumSplit

\* There are finitely many records.
LEMMA HasFinite ==
  ASSUME NEW f
  PROVE  Has(f) \in SUBSET Ids /\ IsFiniteSet(Has(f)) /\ Cardinality(Has(f)) \in Nat
<1>1. Has(f) \in SUBSET Ids
  BY DEF Has
<1> QED
  BY <1>1, FS_Subset, FS_CardinalityType, IdsAssumption

\* Fewer and shorter records fit where more and longer ones do.
LEMMA FitLess ==
  ASSUME NEW f \in [Ids -> Record \cup {None}], NEW g \in [Ids -> Record \cup {None}], Fit(g),
         \A i \in Ids : f[i] # None => g[i] # None /\ Len(f[i].digest) <= Len(g[i].digest)
  PROVE  Fit(f)
<1>1. \A i \in Ids : Lens(f)[i] <= Lens(g)[i]
  <2> SUFFICES ASSUME NEW i \in Ids PROVE Lens(f)[i] <= Lens(g)[i]
    OBVIOUS
  <2>1. Lens(f)[i] = Len0(f[i]) /\ Lens(g)[i] = Len0(g[i]) /\ Len0(g[i]) \in Nat
    BY LensType
  <2> QED
    BY <2>1 DEF Len0
<1>2. Sum(Lens(f)) <= Sum(Lens(g))
  BY <1>1, LensType, SumLeq
<1>3. Has(f) \subseteq Has(g)
  BY DEF Has
<1>4. Cardinality(Has(f)) <= Cardinality(Has(g))
  BY <1>3, HasFinite, FS_Subset
<1> QED
  BY <1>2, <1>4, LensType, HasFinite, BoundsAssumption DEF Fit

\* One record in place of another, or of none.
LEMMA FitOne ==
  ASSUME NEW f \in [Ids -> Record \cup {None}], NEW i \in Ids, NEW r \in Record
  PROVE  Fit([f EXCEPT ![i] = r]) <=>
           /\ Sum(Lens(f)) + Len(r.digest) <= MAX_TOTAL + Len0(f[i])
           /\ IF f[i] = None THEN Cardinality(Has(f)) < MAX_RECORDS
                             ELSE Cardinality(Has(f)) <= MAX_RECORDS
<1> DEFINE g == [f EXCEPT ![i] = r]
<1>1. g \in [Ids -> Record \cup {None}] /\ g[i] = r /\ \A j \in Ids : j # i => g[j] = f[j]
  OBVIOUS
<1> HIDE DEF g
<1>2. /\ Lens(f) \in [Ids -> Nat] /\ Lens(g) \in [Ids -> Nat]
      /\ Lens(f)[i] = Len0(f[i]) /\ Lens(g)[i] = Len(r.digest)
      /\ Len0(f[i]) \in Nat /\ Len(r.digest) \in Nat
  BY <1>1, LensType, RecordFacts DEF Len0
<1>3. [Lens(f) EXCEPT ![i] = 0] = [Lens(g) EXCEPT ![i] = 0]
  BY <1>1 DEF Lens
<1>4. /\ Sum(Lens(f)) \in Nat /\ Sum([Lens(f) EXCEPT ![i] = 0]) \in Nat /\ Sum(Lens(g)) \in Nat
      /\ Sum(Lens(f)) = Len0(f[i]) + Sum([Lens(f) EXCEPT ![i] = 0])
  BY <1>2, SumSplit
<1>5. Sum(Lens(g)) = Len(r.digest) + Sum([Lens(f) EXCEPT ![i] = 0])
  BY <1>2, <1>3, SumSplit
<1>6. Sum(Lens(g)) + Len0(f[i]) = Sum(Lens(f)) + Len(r.digest)
  BY <1>2, <1>4, <1>5
<1>7. IF f[i] = None THEN Cardinality(Has(g)) = Cardinality(Has(f)) + 1
                     ELSE Cardinality(Has(g)) = Cardinality(Has(f))
  <2>1. CASE f[i] = None
    <3>1. i \notin Has(f) /\ Has(g) = Has(f) \cup {i}
      BY <1>1, <2>1, RecordFacts DEF Has
    <3>2. Cardinality(Has(f) \cup {i}) = Cardinality(Has(f)) + 1
      BY <3>1, HasFinite, FS_AddElement
    <3> QED
      BY <2>1, <3>1, <3>2
  <2>2. CASE f[i] # None
    <3>1. Has(g) = Has(f)
      BY <1>1, <2>2, RecordFacts DEF Has
    <3> QED
      BY <2>2, <3>1
  <2> QED
    BY <2>1, <2>2
<1>8. Cardinality(Has(f)) \in Nat /\ Cardinality(Has(g)) \in Nat
  BY HasFinite
<1>9. MAX_TOTAL \in Nat /\ MAX_RECORDS \in Nat
  BY BoundsAssumption
<1>10. Sum(Lens(g)) <= MAX_TOTAL <=> Sum(Lens(f)) + Len(r.digest) <= MAX_TOTAL + Len0(f[i])
  BY <1>2, <1>4, <1>6, <1>9
<1>11. Cardinality(Has(g)) <= MAX_RECORDS <=>
         IF f[i] = None THEN Cardinality(Has(f)) < MAX_RECORDS
                        ELSE Cardinality(Has(f)) <= MAX_RECORDS
  BY <1>7, <1>8, <1>9
<1>12. Fit(g) <=> Sum(Lens(g)) <= MAX_TOTAL /\ Cardinality(Has(g)) <= MAX_RECORDS
  BY DEF Fit
<1> QED
  BY <1>10, <1>11, <1>12 DEF g

\* What is taken is a number for each destination.
LEMMA TakenType ==
  ASSUME NEW R \in [Ids -> Record \cup {None}], NEW C \in [Ids -> (0..MAX_FILE) \cup {None}]
  PROVE  /\ Taken(R, C) \in [Ids -> Nat] /\ Sum(Taken(R, C)) \in Nat
         /\ \A i \in Ids : /\ Taken(R, C)[i] = IF R[i] # None /\ C[i] # None THEN C[i] ELSE Len0(R[i])
                           /\ Sum(Beside(R, C, i)) \in Nat
                           /\ Sum(Taken(R, C)) = Taken(R, C)[i] + Sum(Beside(R, C, i))
<1>1. \A i \in Ids : /\ Taken(R, C)[i] = IF R[i] # None /\ C[i] # None THEN C[i] ELSE Len0(R[i])
                     /\ Len0(R[i]) \in Nat
  BY LensType DEF Taken
<1>2. \A i \in Ids : Taken(R, C)[i] \in Nat
  BY <1>1, BoundsAssumption
<1>3. Taken(R, C) \in [Ids -> Nat]
  BY <1>2 DEF Taken
<1> QED
  BY <1>1, <1>3, SumSplit DEF Beside

\* What Admitted and ReservationHonoured sum.
LEMMA SumsAre ==
  /\ \A id \in Ids : [i \in Ids |-> IF i = id THEN 0 ELSE Takes(i)] = Beside(records, claimed, id)
  /\ ReservationHonoured <=> Sum(Taken(records, claimed)) <= MAX_TOTAL
  /\ Total = Sum(Lens(records))
<1>1. \A id \in Ids : [i \in Ids |-> IF i = id THEN 0 ELSE Takes(i)] = Beside(records, claimed, id)
  BY DEF Takes, Taken, Beside
<1>2. [i \in Ids |-> Takes(i)] = Taken(records, claimed)
  BY DEF Takes, Taken
<1> QED
  BY <1>1, <1>2 DEF ReservationHonoured, Total, Lens

\* Less is taken when records or claims are dropped.
LEMMA TakenLess ==
  ASSUME NEW R \in [Ids -> Record \cup {None}], NEW C \in [Ids -> (0..MAX_FILE) \cup {None}],
         NEW S \in [Ids -> Record \cup {None}], NEW D \in [Ids -> (0..MAX_FILE) \cup {None}],
         Sum(Taken(R, C)) <= MAX_TOTAL,
         \A i \in Ids : S[i] # None =>
           /\ R[i] # None /\ Len(S[i].digest) = Len(R[i].digest)
           /\ \/ D[i] = C[i]
              \/ D[i] = None /\ (C[i] # None => Len(R[i].digest) <= C[i])
  PROVE  Sum(Taken(S, D)) <= MAX_TOTAL
<1> DEFINE a == Taken(R, C)
           b == Taken(S, D)
<1>1. a \in [Ids -> Nat] /\ b \in [Ids -> Nat] /\ Sum(a) \in Nat /\ Sum(b) \in Nat
  BY TakenType
<1>2. ASSUME NEW i \in Ids PROVE b[i] <= a[i]
  <2>1. /\ a[i] = IF R[i] # None /\ C[i] # None THEN C[i] ELSE Len0(R[i])
        /\ b[i] = IF S[i] # None /\ D[i] # None THEN D[i] ELSE Len0(S[i])
    BY DEF Taken
  <2>2. a[i] \in Nat /\ b[i] \in Nat
    BY <1>1
  <2> HIDE DEF a, b
  <2>3. CASE S[i] = None
    <3>1. b[i] = 0
      BY <2>1, <2>3 DEF Len0
    <3> QED
      BY <2>2, <3>1
  <2>4. CASE S[i] # None
    <3>1. Len0(S[i]) = Len(S[i].digest) /\ Len0(R[i]) = Len(S[i].digest)
      BY <2>4 DEF Len0
    <3>2. \/ b[i] = a[i]
          \/ b[i] = Len(S[i].digest) /\ a[i] = Len(S[i].digest)
          \/ b[i] = Len(S[i].digest) /\ a[i] = C[i] /\ Len(S[i].digest) <= C[i]
      BY <2>1, <2>4, <3>1
    <3> QED
      BY <2>2, <3>2
  <2> QED
    BY <2>3, <2>4
<1> HIDE DEF a, b
<1>3. Sum(b) <= Sum(a)
  BY <1>1, <1>2, SumLeq
<1>4. Sum(b) <= MAX_TOTAL
  <2>1. Sum(a) <= MAX_TOTAL
    BY DEF a
  <2> QED
    BY <1>1, <1>3, <2>1, BoundsAssumption
<1> QED
  BY <1>4 DEF b

\* What the others take.
LEMMA TakenApart ==
  ASSUME NEW R, NEW C, NEW S, NEW D, NEW id \in Ids,
         \A i \in Ids : i # id => S[i] = R[i] /\ D[i] = C[i]
  PROVE  Beside(R, C, id) = Beside(S, D, id)
BY DEF Taken, Beside

\* A destination that takes up to cap, and had leave to.
LEMMA TakenGrows ==
  ASSUME NEW R \in [Ids -> Record \cup {None}], NEW C \in [Ids -> (0..MAX_FILE) \cup {None}],
         NEW S \in [Ids -> Record \cup {None}], NEW D \in [Ids -> (0..MAX_FILE) \cup {None}],
         NEW id \in Ids, NEW cap \in Nat, Sum(Beside(R, C, id)) + cap <= MAX_TOTAL,
         \A i \in Ids : i # id => S[i] = R[i] /\ D[i] = C[i],
         IF S[id] # None /\ D[id] # None THEN D[id] <= cap ELSE Len0(S[id]) <= cap
  PROVE  Sum(Taken(S, D)) <= MAX_TOTAL
<1>1. Beside(R, C, id) = Beside(S, D, id)
  BY TakenApart
<1>2. Taken(S, D)[id] <= cap
  BY DEF Taken
<1>3. /\ Sum(Beside(S, D, id)) \in Nat /\ Taken(S, D)[id] \in Nat
      /\ Sum(Taken(S, D)) = Taken(S, D)[id] + Sum(Beside(S, D, id))
  BY TakenType
<1>4. Sum(Beside(S, D, id)) + cap <= MAX_TOTAL
  BY <1>1
<1> QED
  BY <1>2, <1>3, <1>4, BoundsAssumption
-----------------------------------------------------------------------------
(* Steps that leave the directory and the records alone.                   *)

\* What is in TypeOK, member by member.
LEMMA Typed ==
  ASSUME TypeOK
  PROVE  /\ \A i \in Ids : /\ records[i] # None => records[i] \in Record
                           /\ meta[i] # None => meta[i] \in Record
                           /\ part[i] # None => part[i] \in Content
                           /\ \A m \in metaKept[i] : m # None => m \in Record
                           /\ \A p \in partKept[i] : p # None => p \in Content
                           /\ claimed[i] # None => claimed[i] \in 0..MAX_FILE
                           /\ acked[i] # None => acked[i] \in Seq(Bytes)
         /\ \A c \in Claims : claim[c] # None =>
              claim[c] \in Claim /\ claim[c].id \in Ids /\ claim[c].cap \in 0..MAX_FILE
         /\ lock # None => /\ lock \in Lock /\ lock.gone \in SUBSET Ids
                           /\ lock.who # None => lock.who \in Claims
                           /\ lock.rec # None => lock.rec \in Record
<1>1. \A i \in Ids : /\ records[i] # None => records[i] \in Record
                     /\ meta[i] # None => meta[i] \in Record
                     /\ part[i] # None => part[i] \in Content
                     /\ \A m \in metaKept[i] : m # None => m \in Record
                     /\ \A p \in partKept[i] : p # None => p \in Content
                     /\ claimed[i] # None => claimed[i] \in 0..MAX_FILE
                     /\ acked[i] # None => acked[i] \in Seq(Bytes)
  BY DEF TypeOK
<1>2. \A c \in Claims : claim[c] # None =>
        claim[c] \in Claim /\ claim[c].id \in Ids /\ claim[c].cap \in 0..MAX_FILE
  BY DEF TypeOK, Claim
<1>3. lock # None => /\ lock \in Lock /\ lock.gone \in SUBSET Ids
                     /\ lock.who # None => lock.who \in Claims
                     /\ lock.rec # None => lock.rec \in Record
  BY DEF TypeOK, Lock
<1> QED
  BY <1>1, <1>2, <1>3

\* What may be left of the records, among all there could be.
LEMMA LeftIs ==
  ASSUME TypeOK
  PROVE  Leftovers = {f \in [Ids -> Record \cup {None}] : \A i \in Ids : f[i] \in metaKept[i]}
<1> DEFINE all == UNION {metaKept[i] : i \in Ids}
           L == {f \in [Ids -> Record \cup {None}] : \A i \in Ids : f[i] \in metaKept[i]}
<1>1. (\A i \in Ids : metaKept[i] \in SUBSET (Record \cup {None})) /\ \A i \in Ids : metaKept[i] \subseteq all
  BY DEF TypeOK
<1>2. ASSUME NEW f \in Leftovers PROVE f \in L
  BY <1>1 DEF Leftovers
<1>3. ASSUME NEW f \in L PROVE f \in Leftovers
  <2>1. f \in [Ids -> all]
    <3> HIDE DEF all
    <3> QED
      BY <1>1
  <2> QED
    BY <2>1 DEF Leftovers
<1> QED
  BY <1>2, <1>3

\* What depends on the directory and the records only.
LEMMA DiskFrame ==
  ASSUME UNCHANGED <<diskVars, records>>, Contents, Bounded, Standing, AckedKept
  PROVE  Contents' /\ Bounded' /\ Standing' /\ AckedKept'
<1> USE DEF diskVars
<1>1. Contents'
  BY DEF Contents
<1>2. Bounded'
  BY DEF Bounded, Leftovers
<1>3. Standing'
  BY DEF Standing
<1>4. AckedKept'
  BY DEF AckedKept
<1> QED
  BY <1>1, <1>2, <1>3, <1>4

\* A holder stays about what it was, when nothing it depends on changes.
LEMMA AboutFrame ==
  ASSUME UNCHANGED <<diskVars, records, claimed, failed, lock>>, About(claim[lock.who]),
         claim'[lock.who].id = claim[lock.who].id, claim'[lock.who].cap = claim[lock.who].cap,
         claim'[lock.who].job = claim[lock.who].job, claim'[lock.who].arg = claim[lock.who].arg
  PROVE  About(claim[lock.who])'
<1> USE DEF diskVars
<1>1. CASE Clearing(claim[lock.who])
  BY <1>1 DEF About, Clearing
<1>2. CASE Making(claim[lock.who])
  BY <1>2 DEF About, Making
<1>3. CASE Appending(claim[lock.who])
  BY <1>3 DEF About, Appending
<1>4. CASE Binding(claim[lock.who])
  BY <1>4 DEF About, Binding
<1>5. CASE Discarding(claim[lock.who])
  BY <1>5 DEF About, Discarding
<1> QED
  BY <1>1, <1>2, <1>3, <1>4, <1>5 DEF About

\* A caller asks for a job, goes away before its job is over, or is answered
\* without a write: what it has, and what the holder does, stays.
LEMMA TalkKeeps ==
  ASSUME StagingInv, UNCHANGED <<diskVars, records, claimed, failed, lock, up>>,
         faults' \in 0..MaxFaults,
         claim' \in [Claims -> Claim \cup {None}],
         \A d \in Claims :
           /\ claim'[d] = None <=> claim[d] = None
           /\ claim[d] # None =>
                /\ claim'[d].id = claim[d].id /\ claim'[d].cap = claim[d].cap
                /\ claim'[d].data = claim[d].data
                /\ claim'[d].job = "claim" <=> claim[d].job = "claim"
                /\ claim'[d].job = "append" => claim'[d].arg \in Bytes
                /\ claim'[d].job = "bind" => claim'[d].arg \in 1..MAX_FILE
                /\ lock # None /\ lock.who = d =>
                     claim'[d].job = claim[d].job /\ claim'[d].arg = claim[d].arg
  PROVE  StagingInv'
<1> USE DEF StagingInv
<1>1. TypeOK'
  BY DEF TypeOK, diskVars
<1>2. Callers'
  BY DEF Callers
<1>3. Holder'
  <2>1. CASE lock = None
    BY <2>1 DEF Holder
  <2>2. CASE lock # None /\ lock.who = None
    BY <2>2 DEF Holder, diskVars
  <2>3. CASE lock # None /\ lock.who # None
    <3>1. lock.who \in Claims /\ claim[lock.who] # None /\ About(claim[lock.who])
      BY <2>3, Typed DEF Holder
    <3>2. About(claim[lock.who])'
      BY <2>3, <3>1, AboutFrame
    <3> QED
      BY <2>3, <3>1, <3>2 DEF Holder, diskVars
  <2> QED
    BY <2>1, <2>2, <2>3
<1>4. OneWriter'
  BY DEF OneWriter, Leases
<1>5. CallerAgrees'
  BY DEF CallerAgrees, Leases
<1>6. Contents' /\ Bounded' /\ Standing' /\ AckedKept'
  BY DiskFrame
<1>7. InStep'
  <2>1. up /\ lock # None => lock.who \in Claims /\ claim[lock.who] # None
    BY Typed DEF Holder
  <2> QED
    BY <2>1 DEF InStep, Removing, Writing, diskVars
<1>8. Down'
  BY DEF Down, AtRest, Scanning, Removing, diskVars
<1>9. Reserved'
  BY DEF Reserved
<1> QED
  BY <1>1, <1>2, <1>3, <1>4, <1>5, <1>6, <1>7, <1>8, <1>9

\* What the holder of the lock was asked.
LEMMA HolderJob ==
  ASSUME StagingInv, lock # None, lock.who # None
  PROVE  /\ lock.who \in Claims /\ claim[lock.who] # None /\ claim[lock.who] \in Claim /\ up
         /\ claim[lock.who].job \in {"claim", "append", "bind", "discard"}
         /\ About(claim[lock.who])
<1>1. lock.who \in Claims /\ claim[lock.who] # None /\ claim[lock.who] \in Claim /\ About(claim[lock.who])
  BY Typed DEF StagingInv, Holder
<1>2. up
  BY <1>1 DEF StagingInv, Callers
<1>3. claim[lock.who].job \in {"claim", "append", "bind", "discard"}
  BY <1>1 DEF About, Clearing, Making, Appending, Binding, Discarding
<1> QED
  BY <1>1, <1>2, <1>3

\* A caller asks for a job.
LEMMA RequestKeeps ==
  ASSUME StagingInv, NEW c \in Claims, NEW job \in {"append", "bind", "discard"},
         NEW arg \in Bytes \cup Lengths,
         job = "append" => arg \in Bytes, job = "bind" => arg \in 1..MAX_FILE,
         Request(c, job, arg)
  PROVE  StagingInv'
<1>1. c \in Claims /\ claim[c] # None /\ claim[c] \in Claim /\ claim[c].job = "none"
  BY Typed DEF Request, Leases, StagingInv
<1>2. lock # None => lock.who # c
  BY <1>1, NoneAssumption, HolderJob
<1> DEFINE new == [claim[c] EXCEPT !.job = job, !.arg = arg]
<1>3. /\ new \in Claim /\ new # None /\ new.id = claim[c].id /\ new.cap = claim[c].cap
      /\ new.data = claim[c].data /\ new.job = job /\ new.arg = arg
  <2>1. new \in Claim
    BY <1>1 DEF Claim, Jobs
  <2>2. new.id = claim[c].id /\ new.cap = claim[c].cap /\ new.data = claim[c].data /\ new.job = job /\ new.arg = arg
    BY <1>1 DEF Claim
  <2> QED
    BY <2>1, <2>2, RecordsAssumption
<1>4. claim \in [Claims -> Claim \cup {None}] /\ faults \in 0..MaxFaults
  BY DEF StagingInv, TypeOK
<1>5. claim' = [claim EXCEPT ![c] = new] /\ UNCHANGED <<diskVars, records, claimed, failed, lock, up, faults>>
  BY DEF Request
<1> HIDE DEF new
<1>6. claim'[c] = new /\ (\A d \in Claims : d # c => claim'[d] = claim[d]) /\ claim' \in [Claims -> Claim \cup {None}]
  BY <1>3, <1>4, <1>5
<1>7. ASSUME NEW d \in Claims
      PROVE  /\ claim'[d] = None <=> claim[d] = None
             /\ claim[d] # None =>
                  /\ claim'[d].id = claim[d].id /\ claim'[d].cap = claim[d].cap
                  /\ claim'[d].data = claim[d].data
                  /\ claim'[d].job = "claim" <=> claim[d].job = "claim"
                  /\ claim'[d].job = "append" => claim'[d].arg \in Bytes
                  /\ claim'[d].job = "bind" => claim'[d].arg \in 1..MAX_FILE
                  /\ lock # None /\ lock.who = d =>
                       claim'[d].job = claim[d].job /\ claim'[d].arg = claim[d].arg
  <2>1. CASE d = c
    BY <1>1, <1>2, <1>3, <1>6, <2>1
  <2>2. CASE d # c
    BY <1>6, <2>2 DEF StagingInv, Callers
  <2> QED
    BY <2>1, <2>2
<1>8. UNCHANGED <<diskVars, records, claimed, failed, lock, up>> /\ faults' \in 0..MaxFaults
  BY <1>4, <1>5
<1> QED
  BY <1>6, <1>7, <1>8, TalkKeeps

\* A caller that waits for a job goes away: the job has its claim.
LEMMA DropKeeps ==
  ASSUME StagingInv, NEW c \in Claims, claim[c] # None, claim[c].job # "none",
         claim' = [claim EXCEPT ![c] = [claim[c] EXCEPT !.held = FALSE]],
         UNCHANGED <<diskVars, records, claimed, failed, lock, up, faults>>
  PROVE  StagingInv'
<1>1. claim[c] \in Claim
  BY Typed DEF StagingInv
<1> DEFINE new == [claim[c] EXCEPT !.held = FALSE]
<1>3. /\ new \in Claim /\ new # None /\ new.id = claim[c].id /\ new.cap = claim[c].cap
      /\ new.data = claim[c].data /\ new.job = claim[c].job /\ new.arg = claim[c].arg
  <2>1. new \in Claim
    BY <1>1 DEF Claim
  <2>2. /\ new.id = claim[c].id /\ new.cap = claim[c].cap /\ new.data = claim[c].data
        /\ new.job = claim[c].job /\ new.arg = claim[c].arg
    BY <1>1 DEF Claim
  <2> QED
    BY <2>1, <2>2, RecordsAssumption
<1>4. claim \in [Claims -> Claim \cup {None}] /\ faults \in 0..MaxFaults
  BY DEF StagingInv, TypeOK
<1>5. claim' = [claim EXCEPT ![c] = new]
  OBVIOUS
<1> HIDE DEF new
<1>6. claim'[c] = new /\ (\A d \in Claims : d # c => claim'[d] = claim[d]) /\ claim' \in [Claims -> Claim \cup {None}]
  BY <1>3, <1>4, <1>5
<1>7. ASSUME NEW d \in Claims
      PROVE  /\ claim'[d] = None <=> claim[d] = None
             /\ claim[d] # None =>
                  /\ claim'[d].id = claim[d].id /\ claim'[d].cap = claim[d].cap
                  /\ claim'[d].data = claim[d].data
                  /\ claim'[d].job = claim[d].job /\ claim'[d].arg = claim[d].arg
                  /\ claim'[d].job = "append" => claim'[d].arg \in Bytes
                  /\ claim'[d].job = "bind" => claim'[d].arg \in 1..MAX_FILE
  BY <1>3, <1>6 DEF StagingInv, Callers
<1>8. UNCHANGED <<diskVars, records, claimed, failed, lock, up>> /\ faults' \in 0..MaxFaults
  BY <1>4
<1> QED
  BY <1>6, <1>7, <1>8, TalkKeeps

\* A job is answered without a write.
LEMMA AnswerKeeps ==
  ASSUME StagingInv, NEW c \in Claims, NEW was \in {"append", "bind"}, Running(c, was),
         NEW job \in {"none", "discard"}, NEW held \in BOOLEAN,
         Settle(c, job, held, claim[c].data),
         UNCHANGED <<diskVars, records, claimed, failed, lock, up, faults>>
  PROVE  StagingInv'
<1>1. claim[c] # None /\ claim[c] \in Claim /\ claim[c].job = was /\ lock = None
  BY Typed DEF StagingInv, Running, Leases
<1> DEFINE new == [id |-> claim[c].id, cap |-> claim[c].cap, data |-> claim[c].data, held |-> held,
                   job |-> job, arg |-> None, offer |-> NoOffer, resume |-> FALSE]
<1>3. /\ new \in Claim /\ new # None /\ new.id = claim[c].id /\ new.cap = claim[c].cap
      /\ new.data = claim[c].data /\ new.job = job
  <2>1. new \in Claim
    BY <1>1 DEF Claim, Jobs, Lengths, Offer, NoOffer
  <2>2. new.id = claim[c].id /\ new.cap = claim[c].cap /\ new.data = claim[c].data /\ new.job = job
    OBVIOUS
  <2> QED
    BY <2>1, <2>2, RecordsAssumption
<1>4. claim \in [Claims -> Claim \cup {None}] /\ faults \in 0..MaxFaults
  BY DEF StagingInv, TypeOK
<1>5. claim' = [claim EXCEPT ![c] = new]
  BY DEF Settle
<1> HIDE DEF new
<1>6. claim'[c] = new /\ (\A d \in Claims : d # c => claim'[d] = claim[d]) /\ claim' \in [Claims -> Claim \cup {None}]
  BY <1>3, <1>4, <1>5
<1>7. ASSUME NEW d \in Claims
      PROVE  /\ claim'[d] = None <=> claim[d] = None
             /\ claim[d] # None =>
                  /\ claim'[d].id = claim[d].id /\ claim'[d].cap = claim[d].cap
                  /\ claim'[d].data = claim[d].data
                  /\ claim'[d].job = "claim" <=> claim[d].job = "claim"
                  /\ claim'[d].job = "append" => claim'[d].arg \in Bytes
                  /\ claim'[d].job = "bind" => claim'[d].arg \in 1..MAX_FILE
  <2>1. CASE d = c
    BY <1>1, <1>3, <1>6, <2>1
  <2>2. CASE d # c
    BY <1>6, <2>2 DEF StagingInv, Callers
  <2> QED
    BY <2>1, <2>2
<1>8. UNCHANGED <<diskVars, records, claimed, failed, lock, up>> /\ faults' \in 0..MaxFaults
  BY <1>4
<1> QED
  BY <1>1, <1>6, <1>7, <1>8, TalkKeeps

\* Drop for Claim: the lease ends, and only what is recorded stays reserved.
LEMMA ReleaseKeeps ==
  ASSUME StagingInv, NEW c \in Claims, claim[c] # None, claim[c].job = "none", Release(c),
         UNCHANGED <<diskVars, records, failed, lock, up, faults>>
  PROVE  StagingInv'
<1> USE DEF StagingInv
<1> DEFINE id == claim[c].id
<1>0. claim[c] \in Claim /\ id \in Ids /\ up /\ lock = None /\ c \in Leases
  BY Typed DEF Release, Callers, Leases
<1>1. /\ claimed' = [claimed EXCEPT ![id] = None] /\ claim' = [claim EXCEPT ![c] = None]
      /\ claimed \in [Ids -> (0..MAX_FILE) \cup {None}] /\ claim \in [Claims -> Claim \cup {None}]
  BY DEF Release, TypeOK
<1>2. /\ claim'[c] = None /\ \A d \in Claims : d # c => claim'[d] = claim[d]
      /\ claimed'[id] = None /\ \A i \in Ids : i # id => claimed'[i] = claimed[i]
      /\ claimed' \in [Ids -> (0..MAX_FILE) \cup {None}] /\ claim' \in [Claims -> Claim \cup {None}]
  BY <1>0, <1>1
<1>3. TypeOK'
  BY <1>2 DEF TypeOK, diskVars
<1>4. Callers'
  <2> SUFFICES ASSUME NEW d \in Claims, claim'[d] # None
               PROVE  /\ up /\ claim[d].job # "claim" /\ claimed'[claim[d].id] = claim[d].cap
                      /\ claim[d].job = "append" => claim[d].arg \in Bytes
                      /\ claim[d].job = "bind" => claim[d].arg \in 1..MAX_FILE
    BY <1>0, <1>2 DEF Callers
  <2>1. d # c /\ claim[d] # None /\ claim[d].id \in Ids
    BY <1>2, Typed
  <2>2. d \in Leases
    BY <1>0, <2>1 DEF Callers, Leases
  <2>3. claim[d].id # id
    BY <1>0, <2>1, <2>2 DEF OneWriter
  <2> QED
    BY <1>0, <1>2, <2>1, <2>2, <2>3 DEF Callers, Leases
<1>5. Holder'
  BY <1>0 DEF Holder
<1>6. OneWriter' /\ CallerAgrees'
  BY <1>2 DEF OneWriter, CallerAgrees, Leases
<1>7. Contents' /\ Bounded' /\ Standing' /\ AckedKept'
  BY DiskFrame
<1>8. InStep' /\ Down'
  BY <1>0 DEF InStep, Down, Removing, Writing, diskVars
<1>9. Reserved'
  <2>0. records \in [Ids -> Record \cup {None}]
    BY DEF TypeOK
  <2>1. Sum(Taken(records, claimed)) <= MAX_TOTAL
    BY DEF Reserved
  <2>2. ASSUME NEW i \in Ids, records[i] # None
        PROVE  claimed'[i] = claimed[i] \/ (claimed'[i] = None /\ (claimed[i] # None => Len(records[i].digest) <= claimed[i]))
    BY <1>2, <2>2 DEF Reserved
  <2>3. Sum(Taken(records, claimed')) <= MAX_TOTAL
    BY <1>1, <1>2, <2>0, <2>1, <2>2, TakenLess
  <2>4. Sum(Taken(records', claimed')) <= MAX_TOTAL
    BY <2>3
  <2> QED
    BY <1>2, <2>4 DEF Reserved
<1> QED
  BY <1>3, <1>4, <1>5, <1>6, <1>7, <1>8, <1>9

\* A job takes the lock.
LEMMA BeginsKeep ==
  ASSUME StagingInv, up, lock = None, NEW c \in Claims,
         UNCHANGED <<diskVars, records, claimed, failed, up, faults>>,
         lock' \in Lock, lock'.who = c, lock'.at \notin {"unpart", "sync"},
         lock'.rec # None => RecOk(lock'.rec), About(claim[lock.who])',
         claim' \in [Claims -> Claim \cup {None}], claim'[c] # None,
         \A d \in Claims : \/ claim'[d] = claim[d]
                           \/ d = c /\ claim[d] = None /\ claim'[d].job = "claim"
  PROVE  StagingInv'
<1> USE DEF StagingInv
<1>1. TypeOK'
  BY DEF TypeOK, diskVars
<1>2. lock' # None /\ c # None
  BY RecordsAssumption, NoneAssumption
<1>3. \A d \in Claims : claim[d] # None => claim[d].job # "claim" /\ claim'[d] = claim[d]
  BY DEF Callers
<1>4. Callers'
  BY <1>2, <1>3 DEF Callers
<1>5. Holder'
  BY <1>2 DEF Holder
<1>6. Leases' = Leases /\ \A d \in Leases : claim'[d] = claim[d]
  BY <1>3 DEF Leases
<1>7. OneWriter' /\ CallerAgrees'
  BY <1>6 DEF OneWriter, CallerAgrees
<1>8. Contents' /\ Bounded' /\ Standing' /\ AckedKept'
  BY DiskFrame
<1>9. InStep' /\ Down'
  BY DEF InStep, Down, Removing, Writing, diskVars
<1>10. Reserved'
  BY DEF Reserved
<1> QED
  BY <1>1, <1>4, <1>5, <1>7, <1>8, <1>9, <1>10

\* An operation is over without having changed the index.
LEMMA EndsKeep ==
  ASSUME StagingInv, lock # None, lock.who # None, lock' = None,
         UNCHANGED <<diskVars, records, claimed, up>>,
         failed' \/ (failed' = failed /\ lock.at \notin {"unpart", "sync"}),
         failed' \in BOOLEAN, faults' \in 0..MaxFaults,
         claim' \in [Claims -> Claim \cup {None}],
         \A d \in Claims : d # lock.who => claim'[d] = claim[d],
         claim[lock.who].job = "claim" => claim'[lock.who] = None,
         claim[lock.who].job # "claim" =>
           /\ claim'[lock.who] # None /\ claim'[lock.who].job = "none"
           /\ claim'[lock.who].id = claim[lock.who].id /\ claim'[lock.who].cap = claim[lock.who].cap
           /\ claim'[lock.who].data = claim[lock.who].data
  PROVE  StagingInv'
<1>0. lock.who \in Claims /\ claim[lock.who] # None /\ up
  BY HolderJob
<1> USE DEF StagingInv
<1>1. TypeOK'
  BY DEF TypeOK, diskVars
<1>3. \A d \in Claims : d # lock.who /\ claim[d] # None => claim[d].job # "claim"
  BY DEF Callers
<1>4. Callers'
  BY <1>0, <1>3 DEF Callers
<1>5. Holder'
  BY DEF Holder
<1>6. Leases' = Leases /\ \A d \in Leases : claim'[d].id = claim[d].id /\ claim'[d].data = claim[d].data
  BY <1>0, <1>3 DEF Leases
<1>7. OneWriter' /\ CallerAgrees'
  BY <1>6 DEF OneWriter, CallerAgrees
<1>8. Contents' /\ Bounded' /\ Standing' /\ AckedKept'
  BY DiskFrame
<1>9. InStep' /\ Down'
  BY <1>0 DEF InStep, Down, Removing, Writing, diskVars
<1>10. Reserved'
  BY DEF Reserved
<1> QED
  BY <1>1, <1>4, <1>5, <1>7, <1>8, <1>9, <1>10

\* A claim takes the lock and looks for what has expired.
LEMMA BeginClaimKeeps ==
  ASSUME StagingInv, NEW c \in Claims, NEW i \in Ids, NEW offer \in Offer, NEW resume \in BOOLEAN,
         NEW cap \in 0..MAX_FILE, BeginClaim(c, i, offer, resume, cap)
  PROVE  StagingInv'
<1> DEFINE new == [id |-> i, cap |-> cap, data |-> << >>, held |-> TRUE, job |-> "claim",
                   arg |-> None, offer |-> offer, resume |-> resume]
           at == Onwards(Expired, "decide")
           hold == [who |-> c, at |-> at, gone |-> Expired,
                    victim |-> None, then |-> "decide", rec |-> None]
<1>1. /\ up /\ lock = None /\ claim[c] = None /\ ~failed
      /\ claim' = [claim EXCEPT ![c] = new] /\ lock' = hold
      /\ UNCHANGED <<diskVars, records, claimed, failed, up, faults>>
  BY DEF BeginClaim
<1>2. new \in Claim /\ new.job = "claim"
  BY DEF Claim, Jobs, Lengths
<1>3. at \in {"next", "decide"}
  BY DEF Onwards
<1>4. hold \in Lock
  <2>1. Expired \in SUBSET Ids
    BY DEF Expired
  <2> HIDE DEF at
  <2> QED
    BY <1>3, <2>1 DEF Lock, Phases
<1>5. hold.who = c /\ hold.at = at /\ hold.then = "decide" /\ hold.rec = None
  OBVIOUS
<1>6. claim \in [Claims -> Claim \cup {None}]
  BY DEF StagingInv, TypeOK
<1> HIDE DEF new, hold, at
<1>7. claim'[c] = new /\ new # None /\ (\A d \in Claims : d # c => claim'[d] = claim[d]) /\ claim' \in [Claims -> Claim \cup {None}]
  BY <1>1, <1>2, <1>6, RecordsAssumption
<1>8. About(claim[lock.who])'
  BY <1>1, <1>2, <1>3, <1>5, <1>7 DEF About, Clearing
<1> QED
  BY <1>1, <1>2, <1>3, <1>4, <1>5, <1>7, <1>8, BeginsKeep

\* A discard takes the lock.
LEMMA BeginDiscardKeeps ==
  ASSUME StagingInv, NEW c \in Claims, BeginDiscard(c)
  PROVE  StagingInv'
<1> DEFINE hold == [who |-> c, at |-> "next", gone |-> {claim[c].id}, victim |-> None,
                    then |-> "end", rec |-> None]
<1>1. /\ up /\ lock = None /\ claim[c] # None /\ claim[c].job = "discard" /\ lock' = hold
      /\ UNCHANGED <<diskVars, records, claimed, failed, claim, up, faults>>
  BY DEF BeginDiscard, Begin, Running, Leases
<1>2. claim[c].id \in Ids /\ claim \in [Claims -> Claim \cup {None}]
  BY <1>1, Typed DEF StagingInv, TypeOK
<1>3. hold \in Lock
  BY <1>2 DEF Lock, Phases
<1>4. hold.who = c /\ hold.at = "next" /\ hold.then = "end" /\ hold.rec = None
  OBVIOUS
<1> HIDE DEF hold
<1>5. About(claim[lock.who])'
  BY <1>1, <1>4 DEF About, Discarding
<1> QED
  BY <1>1, <1>2, <1>3, <1>4, <1>5, BeginsKeep

\* An append takes the lock: what it will record fits.
LEMMA BeginAppendKeeps ==
  ASSUME StagingInv, NEW c \in Claims, BeginAppend(c)
  PROVE  StagingInv'
<1> DEFINE cl == claim[c]
           r == records[cl.id]
           rec == [offer |-> r.offer, digest |-> Append(cl.data, cl.arg), stale |-> FALSE]
           hold == [who |-> c, at |-> "write", gone |-> {}, victim |-> None,
                    then |-> "end", rec |-> rec]
<1>1. /\ up /\ lock = None /\ cl # None /\ cl.job = "append" /\ lock' = hold /\ c \in Leases
      /\ UNCHANGED <<diskVars, records, claimed, failed, claim, up, faults>>
      /\ ~failed /\ r # None
      /\ Len(r.digest) = Len(cl.data) /\ Len(cl.data) + 1 <= cl.cap
      /\ r.offer.length # None => Len(cl.data) + 1 <= r.offer.length
      /\ Total + 1 <= MAX_TOTAL
  BY DEF BeginAppend, Begin, Running, Leases, Fits
<1>2. /\ cl \in Claim /\ cl.id \in Ids /\ cl.cap \in 0..MAX_FILE /\ claim \in [Claims -> Claim \cup {None}]
      /\ r \in Record /\ records \in [Ids -> Record \cup {None}]
  BY <1>1, Typed DEF StagingInv, TypeOK
<1>3. cl.arg \in Bytes /\ cl.data = r.digest /\ RecOk(r)
  BY <1>1, <1>2 DEF StagingInv, Callers, CallerAgrees, Contents
<1>4. r.digest \in Seq(Bytes) /\ Len(r.digest) \in Nat /\ r.offer \in Offer
  BY <1>2, RecordFacts
<1>5. Append(cl.data, cl.arg) \in Seq(Bytes) /\ Len(Append(cl.data, cl.arg)) = Len(r.digest) + 1
  BY <1>3, <1>4
<1>6. rec \in Record /\ rec.digest = Append(r.digest, cl.arg) /\ rec.stale = FALSE /\ rec.offer = r.offer
  BY <1>3, <1>4, <1>5 DEF Record
<1>7. hold \in Lock
  <2> HIDE DEF rec
  <2> QED
    BY <1>6 DEF Lock, Phases
<1>8. hold.who = c /\ hold.at = "write" /\ hold.rec = rec
  OBVIOUS
<1> HIDE DEF hold, rec
<1>9. rec # None /\ RecOk(rec)
  <2>1. Len(rec.digest) = Len(r.digest) + 1 /\ Len(rec.digest) <= cl.cap
    BY <1>1, <1>3, <1>5, <1>6
  <2>2. Len(rec.digest) <= MAX_FILE
    BY <1>2, <1>4, <2>1, BoundsAssumption
  <2>3. rec.offer.length # None => rec.offer.length \in Len(rec.digest)..MAX_FILE
    BY <1>1, <1>3, <1>4, <1>6, <2>1, BoundsAssumption DEF RecOk
  <2> QED
    BY <1>6, <2>2, <2>3, RecordFacts DEF RecOk
<1>10. Fit([records EXCEPT ![cl.id] = rec])
  <2>1. Sum(Lens(records)) + 1 <= MAX_TOTAL
    BY <1>1, SumsAre
  <2>2. records \in Leftovers
    BY <1>1, <1>2, LeftIs DEF StagingInv, InStep, Removing, Writing
  <2>3. Cardinality(Has(records)) <= MAX_RECORDS
    BY <2>2 DEF StagingInv, Bounded, Fit
  <2>4. Len0(records[cl.id]) = Len(r.digest) /\ Len(rec.digest) = Len(r.digest) + 1
    BY <1>1, <1>3, <1>5, <1>6 DEF Len0
  <2>5. Sum(Lens(records)) + Len(rec.digest) <= MAX_TOTAL + Len0(records[cl.id])
    <3>1. Sum(Lens(records)) \in Nat /\ MAX_TOTAL \in Nat
      BY <1>2, LensType, BoundsAssumption
    <3> DEFINE a == Sum(Lens(records))
               b == Len(rec.digest)
               z == Len(r.digest)
    <3>2. a \in Nat /\ MAX_TOTAL \in Nat /\ z \in Nat /\ b = z + 1 /\ a + 1 <= MAX_TOTAL
      BY <1>4, <2>1, <2>4, <3>1
    <3>3. a + b <= MAX_TOTAL + z
      <4> HIDE DEF a, b, z
      <4> QED
        BY <3>2
    <3> QED
      BY <2>4, <3>3
  <2> QED
    BY <1>1, <1>2, <1>6, <2>3, <2>5, FitOne
<1>11. About(claim[lock.who])'
  <2>1. Len(rec.digest) <= cl.cap
    BY <1>1, <1>3, <1>5, <1>6
  <2>2. Appending(claim[lock.who])'
    BY <1>1, <1>6, <1>8, <1>9, <1>10, <2>1 DEF Appending
  <2> QED
    BY <2>2 DEF About
<1> QED
  BY <1>1, <1>2, <1>7, <1>8, <1>9, <1>11, BeginsKeep

\* A length is bound, or found to be wrong.
LEMMA BindLengthKeeps ==
  ASSUME StagingInv, NEW c \in Claims, BindLength(c)
  PROVE  StagingInv'
<1> DEFINE cl == claim[c]
           r == records[cl.id]
           wrong == cl.arg > cl.cap \/ cl.arg < Len(r.digest)
           off == [length |-> cl.arg, mtime |-> r.offer.mtime]
           rec == [offer |-> off, digest |-> r.digest, stale |-> r.stale]
           hold == [who |-> c, at |-> "meta", gone |-> {}, victim |-> None,
                    then |-> "end", rec |-> rec]
<1>1. /\ Running(c, "bind") /\ up /\ lock = None /\ cl # None /\ cl.job = "bind" /\ ~failed /\ r # None
      /\ UNCHANGED <<diskVars, records, claimed, failed, up, faults>>
  BY DEF BindLength, Running, Leases
<1>2. /\ cl \in Claim /\ cl.id \in Ids /\ cl.cap \in 0..MAX_FILE /\ claim \in [Claims -> Claim \cup {None}]
      /\ r \in Record /\ records \in [Ids -> Record \cup {None}]
  BY <1>1, Typed DEF StagingInv, TypeOK
<1>3. cl.arg \in 1..MAX_FILE /\ RecOk(r)
  BY <1>1, <1>2 DEF StagingInv, Callers, Contents
<1>4. CASE wrong \/ r.offer.length # None
  <2>1. PICK job \in {"none", "discard"} : Settle(c, job, cl.held, cl.data)
    BY <1>4 DEF BindLength
  <2>2. UNCHANGED lock
    BY <1>4 DEF BindLength
  <2>3. cl.held \in BOOLEAN
    BY <1>2 DEF Claim
  <2> QED
    BY <1>1, <2>1, <2>2, <2>3, AnswerKeeps
<1>5. CASE ~(wrong \/ r.offer.length # None)
  <2>1. lock' = hold /\ UNCHANGED claim /\ ~wrong /\ r.offer.length = None
    BY <1>5 DEF BindLength, Begin
  <2>2. r.digest \in Seq(Bytes) /\ Len(r.digest) \in Nat /\ r.offer \in Offer /\ r.stale \in BOOLEAN
    BY <1>2, RecordFacts
  <2>3. off \in Offer /\ off.length = cl.arg
    BY <1>3, <2>2, BoundsAssumption DEF Offer, Lengths
  <2> HIDE DEF off
  <2>4. rec \in Record /\ rec.digest = r.digest /\ rec.stale = r.stale /\ rec.offer = off
    BY <2>2, <2>3 DEF Record
  <2>5. hold \in Lock
    <3> HIDE DEF rec
    <3> QED
      BY <2>4 DEF Lock, Phases
  <2>6. hold.who = c /\ hold.at = "meta" /\ hold.rec = rec
    OBVIOUS
  <2> HIDE DEF hold, rec
  <2>7. rec # None /\ RecOk(rec)
    <3>1. cl.arg \in Len(r.digest)..MAX_FILE
      BY <1>2, <1>3, <2>1, <2>2, BoundsAssumption
    <3> QED
      BY <1>3, <2>3, <2>4, <3>1, RecordFacts DEF RecOk
  <2>8. Fit([records EXCEPT ![cl.id] = rec])
    <3> DEFINE f == [records EXCEPT ![cl.id] = rec]
    <3>1. records \in Leftovers
      BY <1>1, <1>2, LeftIs DEF StagingInv, InStep, Removing, Writing
    <3>2. Fit(records)
      BY <3>1 DEF StagingInv, Bounded
    <3>3. f \in [Ids -> Record \cup {None}]
      BY <1>2, <2>4
    <3>4. ASSUME NEW i \in Ids, f[i] # None
          PROVE  records[i] # None /\ Len(f[i].digest) <= Len(records[i].digest)
      <4>1. records[i] # None /\ f[i].digest = records[i].digest
        BY <1>1, <1>2, <2>4, <3>4
      <4>2. Len(records[i].digest) \in Nat
        BY <1>2, <4>1, RecordFacts
      <4> QED
        BY <4>1, <4>2
    <3> HIDE DEF f
    <3>5. Fit(f)
      BY <1>2, <3>2, <3>3, <3>4, FitLess
    <3> QED
      BY <3>5 DEF f
  <2>9. Binding(claim[lock.who])'
    BY <1>1, <2>1, <2>4, <2>6, <2>7, <2>8 DEF Binding
  <2>10. About(claim[lock.who])'
    BY <2>9 DEF About
  <2> QED
    BY <1>1, <1>2, <2>1, <2>5, <2>6, <2>7, <2>10, BeginsKeep
<1> QED
  BY <1>4, <1>5

\* A claim is refused.
LEMMA RefuseKeeps ==
  ASSUME StagingInv, Refuse
  PROVE  StagingInv'
<1>1. /\ lock # None /\ lock.at \in {"decide", "mkpart"} /\ lock' = None
      /\ claim' = [claim EXCEPT ![lock.who] = None]
      /\ UNCHANGED <<diskVars, records, claimed, failed, up, faults>>
  BY DEF Refuse, Holding
<1>2. lock.who # None
  BY <1>1 DEF StagingInv, Holder
<1>3. lock.who \in Claims /\ claim[lock.who].job = "claim"
  BY <1>1, <1>2, HolderJob DEF About, Clearing, Making, Appending, Binding, Discarding
<1>4. claim \in [Claims -> Claim \cup {None}] /\ failed \in BOOLEAN /\ faults \in 0..MaxFaults
  BY DEF StagingInv, TypeOK
<1>5. /\ claim'[lock.who] = None /\ (\A d \in Claims : d # lock.who => claim'[d] = claim[d])
      /\ claim' \in [Claims -> Claim \cup {None}]
  BY <1>1, <1>3, <1>4
<1> QED
  BY <1>1, <1>2, <1>3, <1>4, <1>5, EndsKeep

\* A discard is over.
LEMMA EndDiscardKeeps ==
  ASSUME StagingInv, EndDiscard
  PROVE  StagingInv'
<1> DEFINE c == lock.who
           new == [id |-> claim[c].id, cap |-> claim[c].cap, data |-> claim[c].data, held |-> FALSE,
                   job |-> "none", arg |-> None, offer |-> NoOffer, resume |-> FALSE]
<1>1. /\ lock # None /\ lock.at = "end" /\ lock' = None /\ claim' = [claim EXCEPT ![c] = new]
      /\ UNCHANGED <<diskVars, records, claimed, failed, up, faults>>
  BY DEF EndDiscard, Holding, Settle
<1>2. c # None
  BY <1>1 DEF StagingInv, Holder
<1>3. c \in Claims /\ claim[c] \in Claim /\ claim[c].job = "discard"
  BY <1>1, <1>2, HolderJob DEF About, Clearing, Making, Appending, Binding, Discarding
<1>4. claim \in [Claims -> Claim \cup {None}] /\ failed \in BOOLEAN /\ faults \in 0..MaxFaults
  BY DEF StagingInv, TypeOK
<1>5. /\ new \in Claim /\ new.job = "none" /\ new.id = claim[c].id /\ new.cap = claim[c].cap
      /\ new.data = claim[c].data
  BY <1>3 DEF Claim, Jobs, Lengths, Offer, NoOffer
<1> HIDE DEF new
<1>6. /\ claim'[c] = new /\ new # None /\ (\A d \in Claims : d # c => claim'[d] = claim[d])
      /\ claim' \in [Claims -> Claim \cup {None}]
  BY <1>1, <1>3, <1>4, <1>5, RecordsAssumption
<1> QED
  BY <1>1, <1>2, <1>3, <1>4, <1>5, <1>6, EndsKeep

\* The disk fails a step.
LEMMA FailKeeps ==
  ASSUME StagingInv, Fail
  PROVE  StagingInv'
<1> DEFINE c == lock.who
           new == [claim[c] EXCEPT !.job = "none", !.held = FALSE, !.arg = None]
<1>1. /\ lock # None /\ c # None /\ lock' = None /\ failed' = TRUE /\ Fault
      /\ claim' = [claim EXCEPT ![c] = IF claim[c].job = "claim" THEN None ELSE new]
      /\ UNCHANGED <<diskVars, records, claimed, up>>
  <2>1. claim' = [claim EXCEPT ![c] = IF @.job = "claim" THEN None ELSE [@ EXCEPT !.job = "none", !.held = FALSE, !.arg = None]]
    BY DEF Fail
  <2> QED
    BY <2>1 DEF Fail
<1>2. c \in Claims /\ claim[c] \in Claim
  BY <1>1, HolderJob
<1>3. claim \in [Claims -> Claim \cup {None}] /\ faults' \in 0..MaxFaults
  BY <1>1, BoundsAssumption DEF StagingInv, TypeOK, Fault
<1>4. new \in Claim
  BY <1>2 DEF Claim, Jobs, Lengths
<1>5. new.job = "none" /\ new.id = claim[c].id /\ new.cap = claim[c].cap /\ new.data = claim[c].data
  BY <1>2 DEF Claim
<1> HIDE DEF new
<1>6. /\ claim'[c] = IF claim[c].job = "claim" THEN None ELSE new
      /\ new # None /\ (\A d \in Claims : d # c => claim'[d] = claim[d])
      /\ claim' \in [Claims -> Claim \cup {None}]
  BY <1>1, <1>2, <1>3, <1>4, RecordsAssumption
<1> QED
  BY <1>1, <1>2, <1>3, <1>5, <1>6, EndsKeep

\* Staging::open begins.
LEMMA BeginOpenKeeps ==
  ASSUME StagingInv, BeginOpen
  PROVE  StagingInv'
<1> USE DEF StagingInv
<1> DEFINE hold == [who |-> None, at |-> "scan", gone |-> Has(meta), victim |-> None,
                    then |-> "scan", rec |-> None]
<1>1. /\ ~up /\ lock = None /\ lock' = hold
      /\ UNCHANGED <<diskVars, records, claimed, failed, claim, up, faults>>
  BY DEF BeginOpen
<1>2. hold \in Lock
  BY DEF Lock, Phases, Has
<1>3. /\ hold.who = None /\ hold.at = "scan" /\ hold.rec = None /\ hold # None
      /\ hold.gone = {i \in Ids : meta[i] # None}
  <2>1. hold # None
    BY <1>2, RecordsAssumption
  <2> QED
    BY <2>1 DEF Has
<1> HIDE DEF hold
<1>4. TypeOK'
  BY <1>1, <1>2 DEF TypeOK, diskVars
<1>5. Callers' /\ OneWriter' /\ CallerAgrees'
  <2>1. \A c \in Claims : claim[c] = None
    BY <1>1 DEF Callers
  <2> QED
    BY <1>1, <2>1 DEF Callers, OneWriter, CallerAgrees, Leases
<1>6. Holder'
  BY <1>1, <1>3 DEF Holder, diskVars
<1>7. Contents' /\ Bounded' /\ Standing' /\ AckedKept'
  BY <1>1, DiskFrame
<1>8. InStep'
  BY <1>1 DEF InStep
<1>9. Down'
  BY <1>1, <1>3 DEF Down, AtRest, Scanning, Removing, diskVars
<1>10. Reserved'
  BY <1>1 DEF Reserved
<1> QED
  BY <1>4, <1>5, <1>6, <1>7, <1>8, <1>9, <1>10

-----------------------------------------------------------------------------
(* Steps that change the directory.                                        *)

\* Nothing is added to what may be left of the records, but that one is gone
\* or is as long as one that was there.
LEMMA BoundedLess ==
  ASSUME TypeOK, TypeOK', Contents, Bounded,
         \A i \in Ids : \A m \in metaKept'[i] : m # None =>
           \E n \in metaKept[i] : n # None /\ Len(m.digest) <= Len(n.digest)
  PROVE  Bounded'
<1>1. /\ \A f \in Leftovers' : f \in [Ids -> Record \cup {None}] /\ \A i \in Ids : f[i] \in metaKept'[i]
  <2> DEFINE all == UNION {metaKept'[i] : i \in Ids}
  <2>1. all \subseteq Record \cup {None}
    BY DEF TypeOK
  <2>2. Leftovers' = {f \in [Ids -> all] : \A i \in Ids : f[i] \in metaKept'[i]}
    BY DEF Leftovers
  <2> HIDE DEF all
  <2> QED
    BY <2>1, <2>2
<1> SUFFICES ASSUME NEW f \in Leftovers' PROVE Fit(f)
  BY DEF Bounded
<1> DEFINE N(i) == CHOOSE n \in metaKept[i] : n # None /\ Len(f[i].digest) <= Len(n.digest)
           g == [i \in Ids |-> IF f[i] = None THEN meta[i] ELSE N(i)]
<1>2. ASSUME NEW i \in Ids
      PROVE  /\ g[i] \in metaKept[i]
             /\ f[i] # None => g[i] # None /\ Len(f[i].digest) <= Len(g[i].digest)
  <2>1. CASE f[i] = None
    BY <2>1 DEF Contents
  <2>2. CASE f[i] # None
    <3>1. \E n \in metaKept[i] : n # None /\ Len(f[i].digest) <= Len(n.digest)
      BY <1>1, <2>2
    <3>2. N(i) \in metaKept[i] /\ N(i) # None /\ Len(f[i].digest) <= Len(N(i).digest)
      BY <3>1
    <3>3. g[i] = N(i)
      BY <2>2
    <3> HIDE DEF g, N
    <3> QED
      BY <3>2, <3>3
  <2> QED
    BY <2>1, <2>2
<1>3. g \in [Ids -> Record \cup {None}]
  <2>1. \A i \in Ids : metaKept[i] \in SUBSET (Record \cup {None})
    BY DEF TypeOK
  <2>2. \A i \in Ids : g[i] \in Record \cup {None}
    <3> HIDE DEF g
    <3> QED
      BY <1>2, <2>1
  <2>3. g = [i \in Ids |-> g[i]]
    OBVIOUS
  <2> HIDE DEF g
  <2> QED
    BY <2>2, <2>3
<1> HIDE DEF g
<1>4. g \in Leftovers
  BY <1>2, <1>3, LeftIs
<1>5. Fit(g)
  BY <1>4 DEF Bounded
<1> QED
  BY <1>1, <1>2, <1>3, <1>5, FitLess

\* What may be left only shrinks: what is said of all of it stays.
LEMMA KeptShrinks ==
  ASSUME TypeOK, Contents, AckedKept, UNCHANGED <<acked, damaged>>,
         \A i \in Ids : acked[i] # None => metaKept'[i] \subseteq metaKept[i] /\ partKept'[i] \subseteq partKept[i]
  PROVE  AckedKept'
<1> SUFFICES ASSUME NEW i \in Ids, acked'[i] # None
             PROVE  /\ i \notin damaged'
                    /\ \A m \in metaKept'[i] : Told(acked'[i], m) /\ \A p \in partKept'[i] : Prefix(p, m) # None
  BY DEF AckedKept
<1>1. acked[i] # None /\ metaKept'[i] \subseteq metaKept[i] /\ partKept'[i] \subseteq partKept[i]
  OBVIOUS
<1> QED
  BY <1>1 DEF AckedKept

\* What a sync of the directory leaves.
LEMMA SyncFacts ==
  ASSUME TypeOK, Contents, NEW i \in Ids
  PROVE  /\ Synced(meta)[i] = {meta[i]} /\ Synced(meta)[i] \subseteq metaKept[i]
         /\ SyncedParts[i] \subseteq partKept[i] /\ part[i] \in SyncedParts[i]
         /\ part[i] # None => None \notin SyncedParts[i]
         /\ partKept[i] = {part[i]} => SyncedParts[i] = {part[i]}
<1>1. meta[i] \in metaKept[i] /\ part[i] \in partKept[i]
  BY DEF Contents
<1>2. SyncedParts[i] = IF part[i] = None THEN {None} ELSE (partKept[i] \ {None}) \cup {part[i]}
  BY DEF SyncedParts
<1>3. Synced(meta)[i] = {meta[i]}
  BY DEF Synced
<1> QED
  BY <1>1, <1>2, <1>3

\* The record goes first.
LEMMA RemoveMetaKeeps ==
  ASSUME StagingInv, NEW i \in Ids, RemoveMeta(i)
  PROVE  StagingInv'
<1> USE DEF StagingInv
<1>1. /\ lock # None /\ lock.at = "next" /\ i \in lock.gone
      /\ meta' = [meta EXCEPT ![i] = None] /\ metaKept' = [metaKept EXCEPT ![i] = @ \cup {None}]
      /\ lock' = [lock EXCEPT !.at = "unpart", !.victim = i] /\ acked' = [acked EXCEPT ![i] = None]
      /\ UNCHANGED <<part, partKept, damaged, records, claimed, failed, claim, up, faults>>
  BY DEF RemoveMeta, Holding
<1>2. lock \in Lock /\ lock.who # None /\ lock.who \in Claims /\ claim[lock.who] # None /\ up
  <2>1. lock.who # None
    BY <1>1 DEF Holder
  <2> QED
    BY <1>1, <2>1, Typed, HolderJob
<1>3. /\ lock' \in Lock /\ lock' # None
      /\ lock'.at = "unpart" /\ lock'.victim = i /\ lock'.who = lock.who /\ lock'.gone = lock.gone
      /\ lock'.then = lock.then /\ lock'.rec = lock.rec
  <2>1. lock' \in Lock
    BY <1>1, <1>2 DEF Lock, Phases
  <2> QED
    BY <1>1, <1>2, <2>1, RecordsAssumption DEF Lock
<1>4. /\ meta'[i] = None /\ metaKept'[i] = metaKept[i] \cup {None} /\ acked'[i] = None
      /\ \A j \in Ids : j # i => meta'[j] = meta[j] /\ metaKept'[j] = metaKept[j] /\ acked'[j] = acked[j]
  BY <1>1 DEF TypeOK
<1>5. TypeOK'
  <2>1. meta' \in [Ids -> Record \cup {None}] /\ acked' \in [Ids -> Seq(Bytes) \cup {None}]
    BY <1>1 DEF TypeOK
  <2>2. metaKept' \in [Ids -> SUBSET (Record \cup {None})]
    BY <1>1 DEF TypeOK
  <2> QED
    BY <1>1, <1>3, <2>1, <2>2 DEF TypeOK
<1>6. Callers'
  BY <1>1, <1>3 DEF Callers
<1>7. Holder'
  <2>1. About(claim[lock.who])
    BY <1>1, <1>2 DEF Holder
  <2>2. About(claim[lock.who])'
    <3>1. CASE Clearing(claim[lock.who])
      BY <1>1, <1>3, <3>1 DEF About, Clearing
    <3>2. CASE Making(claim[lock.who])
      BY <1>1, <1>3, <3>2 DEF About, Making
    <3>3. CASE Discarding(claim[lock.who])
      BY <1>1, <1>3, <3>3 DEF About, Discarding
    <3> QED
      BY <1>1, <2>1, <3>1, <3>2, <3>3 DEF About, Appending, Binding
  <2> QED
    BY <1>1, <1>2, <1>3, <1>4, <2>2 DEF Holder
<1>8. OneWriter' /\ CallerAgrees'
  BY <1>1 DEF OneWriter, CallerAgrees, Leases
<1>9. Contents'
  BY <1>1, <1>4 DEF Contents
<1>10. InStep'
  <2> SUFFICES ASSUME NEW j \in Ids, ~failed
               PROVE  \/ meta'[j] = records[j] /\ metaKept'[j] = {records[j]}
                      \/ j = i /\ meta'[j] = None /\ metaKept'[j] \subseteq {records[j], None}
    BY <1>1, <1>3 DEF InStep, Removing
  <2>1. meta[j] = records[j] /\ metaKept[j] = {records[j]}
    BY <1>1, <1>2 DEF InStep, Removing, Writing
  <2> QED
    BY <1>4, <2>1
<1>11. Down'
  BY <1>1, <1>2 DEF Down
<1>12. Bounded'
  <2> SUFFICES ASSUME NEW j \in Ids, NEW m \in metaKept'[j], m # None
               PROVE  \E n \in metaKept[j] : n # None /\ Len(m.digest) <= Len(n.digest)
    BY <1>5, BoundedLess
  <2>1. m \in metaKept[j] /\ m \in Record
    BY <1>4, Typed
  <2> QED
    BY <2>1, RecordFacts
<1>13. Standing'
  BY <1>1 DEF Standing
<1>14. AckedKept'
  BY <1>1, <1>4 DEF AckedKept
<1>15. Reserved'
  BY <1>1 DEF Reserved
<1> QED
  BY <1>5, <1>6, <1>7, <1>8, <1>9, <1>10, <1>11, <1>12, <1>13, <1>14, <1>15

\* ... then the bytes, and the index forgets them.
LEMMA RemovePartKeeps ==
  ASSUME StagingInv, RemovePart
  PROVE  StagingInv'
<1> USE DEF StagingInv
<1> DEFINE v == lock.victim
           rest == lock.gone \ {v}
           next == IF lock.who = None THEN "scan" ELSE Onwards(rest, lock.then)
<1>1. /\ lock # None /\ lock.at = "unpart"
      /\ part' = [part EXCEPT ![v] = None] /\ metaKept' = Synced(meta)
      /\ partKept' = [SyncedParts EXCEPT ![v] = @ \cup {None}]
      /\ records' = [records EXCEPT ![v] = None]
      /\ lock' = [lock EXCEPT !.at = next, !.gone = rest, !.victim = None]
      /\ UNCHANGED <<meta, damaged, acked, claimed, failed, claim, up, faults>>
  BY DEF RemovePart, Holding
<1>2. lock \in Lock /\ v \in lock.gone /\ v \in Ids /\ meta[v] = None /\ lock.gone \in SUBSET Ids
  BY <1>1, Typed DEF Holder
<1>3. /\ lock.who # None => next \in {"next", "decide", "mkpart", "end"}
      /\ lock.who = None => next = "scan"
      /\ next \in {"scan", "next", "decide", "mkpart", "end"}
  <2>1. lock.who # None => lock.then \in {"decide", "mkpart", "end"}
    BY <1>1, HolderJob DEF About, Clearing, Making, Appending, Binding, Discarding
  <2> QED
    BY <2>1 DEF Onwards
<1>4. /\ lock' \in Lock /\ lock' # None
      /\ lock'.at = next /\ lock'.gone = rest /\ lock'.who = lock.who
      /\ lock'.then = lock.then /\ lock'.rec = lock.rec
  <2> HIDE DEF next, v
  <2>1. lock' \in Lock
    BY <1>1, <1>2, <1>3 DEF Lock, Phases
  <2> QED
    BY <1>1, <1>2, <2>1, RecordsAssumption DEF Lock
<1>5. /\ part'[v] = None /\ records'[v] = None
      /\ \A j \in Ids : j # v => part'[j] = part[j] /\ records'[j] = records[j]
  BY <1>1, <1>2 DEF TypeOK
<1>6. ASSUME NEW j \in Ids
      PROVE  /\ metaKept'[j] = {meta[j]} /\ metaKept'[j] \subseteq metaKept[j]
             /\ partKept'[j] = IF j = v THEN SyncedParts[j] \cup {None} ELSE SyncedParts[j]
             /\ partKept'[j] \subseteq partKept[j] \cup {None} /\ part'[j] \in partKept'[j]
             /\ j # v => partKept'[j] \subseteq partKept[j]
  <2>1. metaKept'[j] = {meta[j]} /\ metaKept'[j] \subseteq metaKept[j]
    BY <1>1, SyncFacts
  <2>2. partKept'[j] = IF j = v THEN SyncedParts[j] \cup {None} ELSE SyncedParts[j]
    BY <1>1, <1>2 DEF SyncedParts
  <2>3. SyncedParts[j] \subseteq partKept[j] /\ part[j] \in SyncedParts[j]
    BY SyncFacts
  <2> QED
    BY <1>5, <2>1, <2>2, <2>3
<1>7. TypeOK'
  <2>1. records' \in [Ids -> Record \cup {None}] /\ part' \in [Ids -> Content \cup {None}]
    BY <1>1 DEF TypeOK
  <2>2. metaKept' \in [Ids -> SUBSET (Record \cup {None})]
    BY <1>1 DEF TypeOK, Synced
  <2>3. partKept' \in [Ids -> SUBSET (Content \cup {None})]
    <3>1. SyncedParts \in [Ids -> SUBSET (Content \cup {None})]
      BY DEF TypeOK, SyncedParts
    <3> QED
      BY <1>1, <3>1
  <2> QED
    BY <1>1, <1>4, <2>1, <2>2, <2>3 DEF TypeOK
<1>8. Callers'
  BY <1>1, <1>4 DEF Callers
<1>9. Holder'
  <2>1. CASE lock.who = None
    BY <1>1, <1>3, <1>4, <2>1 DEF Holder
  <2>2. CASE lock.who # None
    <3> DEFINE cl == claim[lock.who]
    <3>1. About(cl) /\ lock.who \in Claims /\ cl # None /\ cl.id \in Ids
      BY <1>1, <2>2, HolderJob, Typed
    <3>2. CASE Clearing(cl)
      <4>1. next \in {"next", "decide"}
        BY <2>2, <3>2 DEF Onwards, Clearing
      <4> HIDE DEF next
      <4>2. Clearing(claim[lock.who])'
        BY <1>1, <1>4, <3>2, <4>1 DEF Clearing
      <4> QED
        BY <1>1, <1>4, <2>2, <3>1, <4>1, <4>2 DEF Holder, About
    <3>3. CASE Discarding(cl)
      <4>1. next \in {"next", "end"}
        BY <2>2, <3>3 DEF Onwards, Discarding
      <4> HIDE DEF next
      <4>2. Discarding(claim[lock.who])'
        BY <1>1, <1>4, <3>3, <4>1 DEF Discarding
      <4> QED
        BY <1>1, <1>4, <2>2, <3>1, <4>1, <4>2 DEF Holder, About
    <3>4. CASE Making(cl)
      <4>1. v = cl.id /\ rest = {} /\ next = "mkpart"
        BY <1>2, <2>2, <3>4 DEF Onwards, Making
      <4> HIDE DEF next, rest, v
      <4>2. Beside(records', claimed', cl.id) = Beside(records, claimed, cl.id)
        <5>1. \A j \in Ids : j # cl.id => records[j] = records'[j] /\ claimed[j] = claimed'[j]
          BY <1>1, <1>5, <4>1
        <5> QED
          BY <3>1, <5>1, TakenApart
      <4>3. Sum(Beside(records', claimed', cl.id)) + cl.cap <= MAX_TOTAL
        BY <3>4, <4>2 DEF Making
      <4>4. Making(claim[lock.who])'
        BY <1>1, <1>4, <1>5, <3>4, <4>1, <4>3 DEF Making
      <4> QED
        BY <1>1, <1>4, <2>2, <3>1, <4>1, <4>4 DEF Holder, About
    <3> QED
      BY <1>1, <3>1, <3>2, <3>3, <3>4 DEF About, Appending, Binding
  <2> QED
    BY <2>1, <2>2
<1>10. OneWriter' /\ CallerAgrees'
  <2>1. \A c \in Leases : claim[c].id \in Ids
    BY Typed DEF Leases
  <2> QED
    BY <1>1, <1>5, <2>1 DEF OneWriter, CallerAgrees, Leases
<1>11. Contents'
  <2> SUFFICES ASSUME NEW j \in Ids
               PROVE  /\ meta'[j] \in metaKept'[j] /\ part'[j] \in partKept'[j]
                      /\ \A m \in metaKept'[j] : m # None => RecOk(m)
                      /\ records'[j] # None => RecOk(records'[j])
                      /\ \A p \in partKept'[j] : p # None => Len(p) <= MAX_FILE
                      /\ records'[j] # None /\ part'[j] # None => Len(part'[j]) >= Len(records'[j].digest)
    BY DEF Contents
  <2> QED
    BY <1>1, <1>5, <1>6 DEF Contents
<1>12. InStep'
  <2> SUFFICES ASSUME NEW j \in Ids, up, ~failed
               PROVE  meta'[j] = records'[j] /\ metaKept'[j] = {records'[j]}
    BY <1>1 DEF InStep
  <2>1. j # v => meta[j] = records[j]
    BY <1>1 DEF InStep, Removing, Writing
  <2> QED
    BY <1>1, <1>2, <1>5, <1>6, <2>1
<1>13. Down'
  <2> SUFFICES ASSUME ~up, NEW j \in Ids
               PROVE  /\ j \in rest => records'[j] = None /\ partKept'[j] = {part'[j]}
                      /\ j \notin rest => records'[j] = meta[j]
                      /\ metaKept'[j] = {meta[j]}
                      /\ j \in rest => meta[j] # None
    <3>1. ~up => next = "scan"
      BY <1>1, <1>3, HolderJob
    <3>2. ~up => ~failed /\ \A i \in Ids : claimed[i] = None
      BY DEF Down
    <3> HIDE DEF next, rest
    <3> QED
      BY <1>1, <1>4, <3>1, <3>2 DEF Down, Scanning, Removing
  <2>1. Scanning
    BY <1>1 DEF Down
  <2>2. /\ j \in lock.gone => records[j] = None /\ partKept[j] = {part[j]}
        /\ j \notin lock.gone => records[j] = meta[j]
        /\ j \in lock.gone /\ j # v => meta[j] # None
    BY <2>1 DEF Scanning, Removing
  <2>3. j \in rest => partKept'[j] = {part'[j]}
    BY <1>5, <1>6, <2>2, SyncFacts
  <2> QED
    BY <1>2, <1>5, <1>6, <2>2, <2>3
<1>14. Bounded'
  <2> SUFFICES ASSUME NEW j \in Ids, NEW m \in metaKept'[j], m # None
               PROVE  \E n \in metaKept[j] : n # None /\ Len(m.digest) <= Len(n.digest)
    BY <1>7, BoundedLess
  <2>1. m \in metaKept[j] /\ m \in Record
    BY <1>6, Typed
  <2> QED
    BY <2>1, RecordFacts
<1>15. Standing'
  <2> SUFFICES ASSUME NEW j \in Ids, records'[j] # None, j \notin damaged, NEW p \in partKept'[j]
               PROVE  Prefix(p, records'[j]) # None
    BY <1>1 DEF Standing
  <2>1. j # v /\ records'[j] = records[j] /\ p \in partKept[j]
    BY <1>5, <1>6
  <2> QED
    BY <2>1 DEF Standing
<1>16. AckedKept'
  <2>1. acked[v] = None
    BY <1>2 DEF AckedKept, Contents, Told
  <2>2. \A j \in Ids : acked[j] # None => metaKept'[j] \subseteq metaKept[j] /\ partKept'[j] \subseteq partKept[j]
    BY <1>6, <2>1
  <2> QED
    BY <1>1, <2>2, KeptShrinks
<1>17. Reserved'
  <2>1. /\ records \in [Ids -> Record \cup {None}] /\ claimed \in [Ids -> (0..MAX_FILE) \cup {None}]
        /\ records' \in [Ids -> Record \cup {None}]
    BY <1>7 DEF TypeOK
  <2>2. Sum(Taken(records', claimed)) <= MAX_TOTAL
    BY <1>5, <2>1, TakenLess DEF Reserved
  <2>3. Sum(Taken(records', claimed')) <= MAX_TOTAL
    BY <1>1, <2>2
  <2> QED
    BY <1>1, <1>5, <2>3 DEF Reserved
<1> QED
  BY <1>7, <1>8, <1>9, <1>10, <1>11, <1>12, <1>13, <1>14, <1>15, <1>16, <1>17

\* A caller settles with its lease.
LEMMA SettleFacts ==
  ASSUME TypeOK, NEW c \in Claims, claim[c] # None, NEW held \in BOOLEAN, NEW data \in Seq(Bytes),
         Settle(c, "none", held, data)
  PROVE  /\ claim' \in [Claims -> Claim \cup {None}] /\ claim'[c] # None
         /\ claim'[c].id = claim[c].id /\ claim'[c].cap = claim[c].cap
         /\ claim'[c].data = data /\ claim'[c].job = "none"
         /\ \A d \in Claims : d # c => claim'[d] = claim[d]
<1> DEFINE new == [id |-> claim[c].id, cap |-> claim[c].cap, data |-> data, held |-> held,
                   job |-> "none", arg |-> None, offer |-> NoOffer, resume |-> FALSE]
<1>1. claim[c] \in Claim /\ claim \in [Claims -> Claim \cup {None}]
  BY DEF TypeOK
<1>2. /\ new \in Claim /\ new.id = claim[c].id /\ new.cap = claim[c].cap
      /\ new.data = data /\ new.job = "none"
  BY <1>1 DEF Claim, Jobs, Lengths, Offer, NoOffer
<1>3. claim' = [claim EXCEPT ![c] = new]
  BY DEF Settle
<1> HIDE DEF new
<1>4. claim'[c] = new /\ new # None
  BY <1>1, <1>2, <1>3, RecordsAssumption
<1> QED
  BY <1>1, <1>2, <1>3, <1>4

\* A tail no record names is cut off: the bytes it answers for stay.
LEMMA TruncateFacts ==
  ASSUME TypeOK, Contents, NEW i \in Ids, NEW r \in Record, Prefix(part[i], r) # None, Truncate(i, r)
  PROVE  /\ part' \in [Ids -> Content \cup {None}]
         /\ partKept' \in [Ids -> SUBSET (Content \cup {None})]
         /\ part'[i] = r.digest /\ partKept'[i] = partKept[i] \cup {r.digest}
         /\ Len(r.digest) <= MAX_FILE /\ Prefix(r.digest, r) # None
         /\ \A j \in Ids : j # i => part'[j] = part[j] /\ partKept'[j] = partKept[j]
<1> DEFINE kept == SubSeq(part[i], 1, Len(r.digest))
<1>1. part' = [part EXCEPT ![i] = kept] /\ partKept' = [partKept EXCEPT ![i] = @ \cup {kept}]
  BY DEF Truncate
<1>2. kept = r.digest /\ Len(part[i]) \in Len(r.digest)..MAX_FILE /\ part[i] # None
  BY PrefixIs
<1> HIDE DEF kept
<1>3. r.digest \in Seq(Bytes) /\ r.digest \in Content /\ Len(r.digest) \in Nat /\ r.digest # None
  BY RecordFacts DEF Content
<1>4. part \in [Ids -> Content \cup {None}] /\ partKept \in [Ids -> SUBSET (Content \cup {None})]
  BY DEF TypeOK
<1>5. part' \in [Ids -> Content \cup {None}] /\ partKept' \in [Ids -> SUBSET (Content \cup {None})]
  BY <1>1, <1>2, <1>3, <1>4
<1>6. /\ part'[i] = r.digest /\ partKept'[i] = partKept[i] \cup {r.digest}
      /\ \A j \in Ids : j # i => part'[j] = part[j] /\ partKept'[j] = partKept[j]
  BY <1>1, <1>2, <1>4
<1>7. Len(r.digest) <= MAX_FILE
  <2>1. part[i] \in Content
    BY <1>2, <1>4
  <2>2. Len(part[i]) \in Nat
    BY <2>1 DEF Content
  <2> QED
    BY <1>2, <1>3, <2>2, BoundsAssumption
<1>8. Prefix(r.digest, r) # None
  <2>1. SubSeq(r.digest, 1, Len(r.digest)) = r.digest
    BY <1>3, WholeFacts
  <2>2. Len(r.digest) \in Len(r.digest)..MAX_FILE
    BY <1>3, <1>7, BoundsAssumption
  <2> QED
    BY <1>3, <2>1, <2>2, PrefixIs
<1> QED
  BY <1>5, <1>6, <1>7, <1>8

\* A claim that decides: it is about nothing else, and all is as recorded.
LEMMA DecideFacts ==
  ASSUME StagingInv, Holding("decide")
  PROVE  /\ lock # None /\ lock \in Lock /\ lock.who \in Claims /\ lock.who # None /\ up /\ ~failed
         /\ claim[lock.who] # None /\ claim[lock.who] \in Claim
         /\ claim[lock.who].id \in Ids /\ claim[lock.who].cap \in 0..MAX_FILE
         /\ claim[lock.who].job = "claim"
         /\ \A j \in Ids : meta[j] = records[j] /\ metaKept[j] = {records[j]}
<1>1. lock # None /\ lock.at = "decide"
  BY DEF Holding
<1>2. lock.who # None
  BY <1>1 DEF StagingInv, Holder
<1>3. /\ lock \in Lock /\ lock.who \in Claims /\ up /\ claim[lock.who] # None
      /\ claim[lock.who] \in Claim /\ claim[lock.who].id \in Ids /\ claim[lock.who].cap \in 0..MAX_FILE
  BY <1>1, <1>2, Typed, HolderJob DEF StagingInv
<1>4. claim[lock.who].job = "claim" /\ ~failed
  BY <1>1, <1>2, HolderJob DEF About, Clearing, Making, Appending, Binding, Discarding
<1>5. \A j \in Ids : meta[j] = records[j] /\ metaKept[j] = {records[j]}
  BY <1>1, <1>3, <1>4 DEF StagingInv, InStep, Removing, Writing
<1> QED
  BY <1>1, <1>2, <1>3, <1>4, <1>5

\* A claim resumes what is kept.
LEMMA LoadKeeps ==
  ASSUME StagingInv, Load
  PROVE  StagingInv'
<1> USE DEF StagingInv
<1> DEFINE c == lock.who
           cl == claim[c]
           id == cl.id
           r == records[id]
<1>1. /\ Holding("decide") /\ Admitted(cl) /\ Resumable(cl) /\ Truncate(id, r)
      /\ claimed' = [claimed EXCEPT ![id] = cl.cap] /\ Settle(c, "none", cl.held, part'[id])
      /\ lock' = None /\ UNCHANGED <<meta, metaKept, damaged, acked, records, failed, up, faults>>
  BY DEF Load
<1>2. /\ c \in Claims /\ up /\ ~failed /\ cl # None /\ cl \in Claim /\ id \in Ids /\ cl.cap \in 0..MAX_FILE
      /\ cl.job = "claim" /\ lock # None
      /\ \A j \in Ids : meta[j] = records[j] /\ metaKept[j] = {records[j]}
  BY <1>1, DecideFacts
<1>3. /\ claimed[id] = None /\ r # None /\ Len(r.digest) <= cl.cap /\ Prefix(part[id], r) # None
      /\ Sum(Beside(records, claimed, id)) + cl.cap <= MAX_TOTAL
  BY <1>1, <1>2, SumsAre DEF Admitted, Resumable
<1>4. r \in Record
  BY <1>2, <1>3, Typed
<1>5. /\ part' \in [Ids -> Content \cup {None}]
      /\ partKept' \in [Ids -> SUBSET (Content \cup {None})]
      /\ part'[id] = r.digest /\ partKept'[id] = partKept[id] \cup {r.digest}
      /\ Len(r.digest) <= MAX_FILE /\ Prefix(r.digest, r) # None
      /\ \A j \in Ids : j # id => part'[j] = part[j] /\ partKept'[j] = partKept[j]
  BY <1>1, <1>2, <1>3, <1>4, TruncateFacts
<1>6. r.digest \in Seq(Bytes) /\ Len(r.digest) \in Nat /\ cl.held \in BOOLEAN
  BY <1>2, <1>4, RecordFacts DEF Claim
<1>7. /\ claim' \in [Claims -> Claim \cup {None}] /\ claim'[c] # None
      /\ claim'[c].id = id /\ claim'[c].cap = cl.cap
      /\ claim'[c].data = r.digest /\ claim'[c].job = "none"
      /\ \A d \in Claims : d # c => claim'[d] = claim[d]
  <2>1. Settle(c, "none", cl.held, r.digest)
    BY <1>1, <1>5
  <2>2. TypeOK /\ c \in Claims /\ claim[c] # None /\ cl.held \in BOOLEAN /\ r.digest \in Seq(Bytes)
    BY <1>2, <1>6
  <2> HIDE DEF c, r, StagingInv
  <2> QED
    BY <2>1, <2>2, SettleFacts
<1>8. /\ claimed' \in [Ids -> (0..MAX_FILE) \cup {None}] /\ claimed'[id] = cl.cap
      /\ \A j \in Ids : j # id => claimed'[j] = claimed[j]
  BY <1>1, <1>2 DEF TypeOK
<1>9. TypeOK'
  BY <1>1, <1>5, <1>7, <1>8 DEF TypeOK
<1>10. \A d \in Claims : d # c /\ claim[d] # None => claim[d].job # "claim" /\ claim[d].id # id
  <2> SUFFICES ASSUME NEW d \in Claims, d # c, claim[d] # None
               PROVE  claim[d].job # "claim" /\ claim[d].id # id
    OBVIOUS
  <2>1. claim[d].job # "claim"
    BY DEF Callers
  <2>2. claimed[claim[d].id] = claim[d].cap /\ claim[d].cap \in 0..MAX_FILE
    BY <2>1, Typed DEF Callers
  <2> QED
    BY <1>3, <2>1, <2>2, NoneAssumption
<1>11. Callers'
  <2>1. \A d \in Claims : d # c /\ claim[d] # None => claim[d].id \in Ids
    BY Typed
  <2> QED
    BY <1>1, <1>2, <1>7, <1>8, <1>10, <2>1 DEF Callers
<1>12. Holder'
  BY <1>1 DEF Holder
<1>13. OneWriter' /\ CallerAgrees'
  BY <1>1, <1>7, <1>10 DEF OneWriter, CallerAgrees, Leases
<1>14. Contents'
  <2> SUFFICES ASSUME NEW j \in Ids
               PROVE  /\ part'[j] \in partKept'[j]
                      /\ \A p \in partKept'[j] : p # None => Len(p) <= MAX_FILE
                      /\ records[j] # None /\ part'[j] # None => Len(part'[j]) >= Len(records[j].digest)
    BY <1>1 DEF Contents
  <2> QED
    BY <1>5, <1>6 DEF Contents
<1>15. InStep' /\ Down'
  BY <1>1, <1>2 DEF InStep, Down
<1>16. Bounded'
  BY <1>1 DEF Bounded, Leftovers
<1>17. Standing'
  BY <1>1, <1>5 DEF Standing
<1>18. AckedKept'
  BY <1>1, <1>2, <1>5 DEF AckedKept
<1>19. Reserved'
  <2>1. records \in [Ids -> Record \cup {None}] /\ claimed \in [Ids -> (0..MAX_FILE) \cup {None}] /\ cl.cap \in Nat
    BY <1>2, BoundsAssumption DEF TypeOK
  <2>2. /\ \A j \in Ids : j # id => claimed'[j] = claimed[j]
        /\ IF records[id] # None /\ claimed'[id] # None THEN claimed'[id] <= cl.cap ELSE Len0(records[id]) <= cl.cap
    BY <1>3, <1>8, <2>1 DEF Len0
  <2>3. Sum(Taken(records, claimed')) <= MAX_TOTAL
    BY <1>2, <1>3, <1>8, <2>1, <2>2, TakenGrows
  <2>4. Sum(Taken(records', claimed')) <= MAX_TOTAL
    BY <1>1, <2>3
  <2>5. \A j \in Ids : claimed'[j] # None /\ records'[j] # None => Len(records'[j].digest) <= claimed'[j]
    BY <1>1, <1>3, <1>8 DEF Reserved
  <2> QED
    BY <2>4, <2>5 DEF Reserved
<1> QED
  BY <1>9, <1>11, <1>12, <1>13, <1>14, <1>15, <1>16, <1>17, <1>18, <1>19

\* A claim begins again.
LEMMA ResetKeeps ==
  ASSUME StagingInv, Reset
  PROVE  StagingInv'
<1> USE DEF StagingInv
<1> DEFINE cl == claim[lock.who]
           id == cl.id
           old == {id} \cap Has(records)
           off == OfferOf(cl)
           rec == [offer |-> off, digest |-> << >>, stale |-> FALSE]
           next == Onwards(old, "mkpart")
<1>1. /\ Holding("decide") /\ Admitted(cl)
      /\ lock' = [lock EXCEPT !.at = next, !.then = "mkpart", !.gone = old, !.rec = rec]
      /\ UNCHANGED <<diskVars, records, claimed, failed, claim, up, faults>>
  BY DEF Reset
<1>2. /\ lock \in Lock /\ lock.who \in Claims /\ lock.who # None /\ up /\ ~failed /\ cl # None /\ cl \in Claim
      /\ id \in Ids /\ cl.cap \in 0..MAX_FILE /\ cl.job = "claim" /\ lock # None
      /\ \A j \in Ids : meta[j] = records[j] /\ metaKept[j] = {records[j]}
  BY <1>1, DecideFacts
<1>3. /\ claimed[id] = None
      /\ off.length # None => off.length <= cl.cap
      /\ Sum(Beside(records, claimed, id)) + cl.cap <= MAX_TOTAL
  BY <1>1, <1>2, SumsAre DEF Admitted
<1>4. off \in Offer
  <2>1. cl.offer \in Offer
    BY <1>2 DEF Claim
  <2>2. records[id] # None => records[id].offer \in Offer
    BY <1>2, Typed, RecordFacts
  <2> QED
    BY <2>1, <2>2 DEF OfferOf
<1> HIDE DEF off
<1>5. rec \in Record /\ rec # None /\ rec.digest = << >> /\ RecOk(rec)
  <2>1. rec \in Record
    BY <1>4 DEF Record
  <2>2. rec.digest = << >> /\ rec.offer = off
    OBVIOUS
  <2> HIDE DEF rec
  <2>3. Len(rec.digest) = 0
    BY <2>2
  <2>4. off.length # None => off.length \in 0..MAX_FILE
    BY <1>2, <1>3, <1>4, BoundsAssumption DEF Offer, Lengths
  <2> QED
    BY <2>1, <2>2, <2>3, <2>4, RecordFacts, BoundsAssumption DEF RecOk
<1> HIDE DEF rec
<1>6. old \subseteq {id} /\ old \in SUBSET Ids /\ next \in {"next", "mkpart"} /\ (next = "mkpart" => records[id] = None)
  BY <1>2 DEF Onwards, Has
<1> HIDE DEF old, next
<1>7. /\ lock' \in Lock /\ lock' # None /\ lock'.at = next /\ lock'.then = "mkpart" /\ lock'.gone = old
      /\ lock'.rec = rec /\ lock'.who = lock.who
  <2>1. lock' \in Lock
    BY <1>1, <1>2, <1>5, <1>6 DEF Lock, Phases
  <2> QED
    BY <1>1, <1>2, <2>1, RecordsAssumption DEF Lock
<1>8. TypeOK'
  BY <1>1, <1>7 DEF TypeOK, diskVars
<1>9. Callers'
  BY <1>1, <1>7 DEF Callers
<1>10. Making(claim[lock.who])'
  BY <1>1, <1>2, <1>3, <1>5, <1>6, <1>7 DEF Making
<1>11. Holder'
  BY <1>1, <1>2, <1>5, <1>6, <1>7, <1>10 DEF Holder, About
<1>12. OneWriter' /\ CallerAgrees'
  BY <1>1 DEF OneWriter, CallerAgrees, Leases
<1>13. Contents' /\ Bounded' /\ Standing' /\ AckedKept'
  BY <1>1, DiskFrame
<1>14. InStep' /\ Down'
  BY <1>1, <1>2 DEF InStep, Down, diskVars
<1>15. Reserved'
  BY <1>1 DEF Reserved
<1> QED
  BY <1>8, <1>9, <1>11, <1>12, <1>13, <1>14, <1>15

\* The holder moves on.
LEMMA GotoFacts ==
  ASSUME TypeOK, lock # None, NEW at \in Phases, Goto(at)
  PROVE  /\ lock' \in Lock /\ lock' # None /\ lock'.at = at /\ lock'.who = lock.who
         /\ lock'.gone = lock.gone /\ lock'.victim = lock.victim
         /\ lock'.then = lock.then /\ lock'.rec = lock.rec
<1>1. lock \in Lock /\ lock' = [lock EXCEPT !.at = at]
  BY DEF TypeOK, Goto
<1>2. lock' \in Lock
  BY <1>1 DEF Lock
<1> QED
  BY <1>1, <1>2, RecordsAssumption DEF Lock

\* What the holder records: all is as recorded until it is written.
LEMMA WriteFacts ==
  ASSUME StagingInv, lock # None, lock.at \in {"mkpart", "write", "meta", "sync"}
  PROVE  /\ lock \in Lock /\ lock.who # None /\ lock.who \in Claims /\ up /\ ~failed
         /\ claim[lock.who] # None /\ claim[lock.who] \in Claim
         /\ claim[lock.who].id \in Ids /\ claim[lock.who].cap \in 0..MAX_FILE
         /\ lock.rec # None /\ lock.rec \in Record /\ RecOk(lock.rec)
         /\ \/ Making(claim[lock.who]) \/ Appending(claim[lock.who]) \/ Binding(claim[lock.who])
         /\ \A j \in Ids : lock.at # "sync" \/ j # claim[lock.who].id =>
              meta[j] = records[j] /\ metaKept[j] = {records[j]}
         /\ lock.at = "sync" => meta[claim[lock.who].id] = lock.rec
<1> USE DEF StagingInv
<1>1. lock.who # None
  BY DEF Holder
<1>2. /\ lock \in Lock /\ lock.who \in Claims /\ up /\ claim[lock.who] # None
      /\ claim[lock.who] \in Claim /\ claim[lock.who].id \in Ids /\ claim[lock.who].cap \in 0..MAX_FILE
      /\ About(claim[lock.who])
  BY <1>1, Typed, HolderJob
<1>3. Making(claim[lock.who]) \/ Appending(claim[lock.who]) \/ Binding(claim[lock.who])
  BY <1>2 DEF About, Clearing, Discarding
<1>4. lock.rec # None /\ ~failed
  BY <1>3 DEF Making, Appending, Binding
<1>5. lock.rec \in Record /\ RecOk(lock.rec) /\ (lock.at = "sync" => meta[claim[lock.who].id] = lock.rec)
  BY <1>1, <1>4, Typed DEF Holder
<1>6. \A j \in Ids : lock.at # "sync" \/ j # claim[lock.who].id =>
        meta[j] = records[j] /\ metaKept[j] = {records[j]}
  BY <1>2, <1>4 DEF InStep, Removing, Writing
<1> QED
  BY <1>1, <1>2, <1>3, <1>4, <1>5, <1>6

\* While all is as recorded the records fit.
LEMMA RecordsFit ==
  ASSUME StagingInv, \A j \in Ids : metaKept[j] = {records[j]}
  PROVE  records \in [Ids -> Record \cup {None}] /\ Fit(records)
<1>1. records \in [Ids -> Record \cup {None}]
  BY DEF StagingInv, TypeOK
<1>2. records \in Leftovers
  BY <1>1, LeftIs DEF StagingInv
<1> QED
  BY <1>1, <1>2 DEF StagingInv, Bounded

\* An empty file is made.
LEMMA MakePartKeeps ==
  ASSUME StagingInv, MakePart
  PROVE  StagingInv'
<1> USE DEF StagingInv
<1> DEFINE cl == claim[lock.who]
           id == cl.id
<1>1. /\ lock # None /\ lock.at = "mkpart" /\ Cardinality(Has(records)) < MAX_RECORDS /\ part[id] = None
      /\ part' = [part EXCEPT ![id] = << >>] /\ partKept' = [partKept EXCEPT ![id] = @ \cup {<< >>}]
      /\ damaged' = damaged \ {id} /\ Goto("meta")
      /\ UNCHANGED <<acked, meta, metaKept, records, claimed, failed, claim, up, faults>>
  BY DEF MakePart, Holding
<1>2. /\ lock.who # None /\ lock.who \in Claims /\ up /\ ~failed /\ cl # None /\ id \in Ids
      /\ lock.rec \in Record /\ RecOk(lock.rec)
      /\ \A j \in Ids : meta[j] = records[j] /\ metaKept[j] = {records[j]}
  BY <1>1, WriteFacts
<1>3. Making(cl)
  BY <1>1, WriteFacts DEF Appending, Binding
<1>4. records[id] = None /\ lock.rec.digest = << >>
  BY <1>1, <1>3 DEF Making
<1>5. /\ lock' \in Lock /\ lock' # None /\ lock'.at = "meta" /\ lock'.who = lock.who
      /\ lock'.gone = lock.gone /\ lock'.then = lock.then /\ lock'.rec = lock.rec
  BY <1>1, GotoFacts DEF Phases
<1>6. << >> \in Content /\ Len(<< >>) = 0 /\ << >> # None
  <2>1. << >> \in Seq(Bytes \cup {Foreign})
    OBVIOUS
  <2>2. << >> # None
    BY <2>1, NoneAssumption
  <2>3. Len(<< >>) = 0
    OBVIOUS
  <2> QED
    BY <2>1, <2>2, <2>3 DEF Content
<1>7. /\ part' \in [Ids -> Content \cup {None}] /\ partKept' \in [Ids -> SUBSET (Content \cup {None})]
      /\ part'[id] = << >> /\ partKept'[id] = partKept[id] \cup {<< >>}
      /\ \A j \in Ids : j # id => part'[j] = part[j] /\ partKept'[j] = partKept[j]
  BY <1>1, <1>2, <1>6 DEF TypeOK
<1>8. TypeOK'
  BY <1>1, <1>5, <1>7 DEF TypeOK
<1>9. Callers'
  BY <1>1, <1>5 DEF Callers
<1>10. Fit([records EXCEPT ![id] = lock.rec])
  <2>1. records \in [Ids -> Record \cup {None}] /\ Fit(records)
    BY <1>2, RecordsFit
  <2>2. Len(lock.rec.digest) = 0 /\ Len0(records[id]) = 0
    BY <1>4 DEF Len0
  <2>3. Sum(Lens(records)) + Len(lock.rec.digest) <= MAX_TOTAL + Len0(records[id])
    <3>1. Sum(Lens(records)) \in Nat /\ Sum(Lens(records)) <= MAX_TOTAL /\ MAX_TOTAL \in Nat
      BY <2>1, LensType, BoundsAssumption DEF Fit
    <3> QED
      BY <2>2, <3>1
  <2> QED
    BY <1>1, <1>2, <1>4, <2>1, <2>3, FitOne
<1>11. Making(claim[lock.who])'
  BY <1>1, <1>3, <1>4, <1>5, <1>7, <1>10 DEF Making
<1>12. Holder'
  BY <1>1, <1>2, <1>5, <1>11 DEF Holder, About
<1>13. OneWriter' /\ CallerAgrees'
  BY <1>1 DEF OneWriter, CallerAgrees, Leases
<1>14. Contents'
  <2> SUFFICES ASSUME NEW j \in Ids
               PROVE  /\ part'[j] \in partKept'[j]
                      /\ \A p \in partKept'[j] : p # None => Len(p) <= MAX_FILE
                      /\ records[j] # None /\ part'[j] # None => Len(part'[j]) >= Len(records[j].digest)
    BY <1>1 DEF Contents
  <2> QED
    BY <1>4, <1>6, <1>7, BoundsAssumption DEF Contents
<1>15. InStep' /\ Down'
  BY <1>1, <1>2 DEF InStep, Down
<1>16. Bounded'
  BY <1>1 DEF Bounded, Leftovers
<1>17. Standing'
  BY <1>1, <1>4, <1>7 DEF Standing
<1>18. AckedKept'
  <2>1. acked[id] = None
    BY <1>2, <1>4 DEF AckedKept, Told
  <2> QED
    BY <1>1, <1>7, <2>1 DEF AckedKept
<1>19. Reserved'
  BY <1>1 DEF Reserved
<1> QED
  BY <1>8, <1>9, <1>12, <1>13, <1>14, <1>15, <1>16, <1>17, <1>18, <1>19

\* What may be left, after a step, of the records.
LEMMA LeftNext ==
  ASSUME TypeOK', NEW f \in Leftovers'
  PROVE  f \in [Ids -> Record \cup {None}] /\ \A i \in Ids : f[i] \in metaKept'[i]
<1> DEFINE all == UNION {metaKept'[i] : i \in Ids}
<1>1. all \subseteq Record \cup {None}
  BY DEF TypeOK
<1>2. f \in [Ids -> all] /\ \A i \in Ids : f[i] \in metaKept'[i]
  BY DEF Leftovers
<1> HIDE DEF all
<1> QED
  BY <1>1, <1>2

\* A record of a byte more answers for what the one before it did.
LEMMA LongerFacts ==
  ASSUME NEW r \in Record, NEW m \in Record, NEW b \in Bytes, m.digest = Append(r.digest, b),
         Len(m.digest) <= MAX_FILE
  PROVE  /\ Len(r.digest) \in Nat /\ Len(m.digest) = Len(r.digest) + 1
         /\ Prefix(m.digest, r) # None /\ Prefix(m.digest, m) # None
         /\ \A a \in Seq(Bytes) : ~m.stale /\ Told(a, r) => Told(a, m)
<1>1. r.digest \in Seq(Bytes) /\ m.digest \in Seq(Bytes) /\ m.digest # None /\ m # None /\ Len(r.digest) \in Nat
  BY RecordFacts
<1>2. Len(m.digest) = Len(r.digest) + 1 /\ SubSeq(m.digest, 1, Len(r.digest)) = r.digest
  <2>1. Len(Append(r.digest, b)) = Len(r.digest) + 1
    BY <1>1
  <2>2. SubSeq(Append(r.digest, b), 1, Len(r.digest)) = SubSeq(r.digest, 1, Len(r.digest))
    BY <1>1, AppendFacts
  <2>3. SubSeq(r.digest, 1, Len(r.digest)) = r.digest
    BY <1>1, WholeFacts
  <2> QED
    BY <2>1, <2>2, <2>3
<1>3. SubSeq(m.digest, 1, Len(m.digest)) = m.digest
  BY <1>1, WholeFacts
<1>4. Len(m.digest) \in Len(r.digest)..MAX_FILE /\ Len(m.digest) \in Len(m.digest)..MAX_FILE
  BY <1>1, <1>2, BoundsAssumption
<1>5. Prefix(m.digest, r) # None /\ Prefix(m.digest, m) # None
  BY <1>1, <1>2, <1>3, <1>4, PrefixIs
<1>6. ASSUME NEW a \in Seq(Bytes), ~m.stale, Told(a, r) PROVE Told(a, m)
  <2>1. Len(a) \in Nat /\ Len(a) <= Len(r.digest) /\ SubSeq(r.digest, 1, Len(a)) = a
    BY <1>6 DEF Told
  <2>2. SubSeq(Append(r.digest, b), 1, Len(a)) = SubSeq(r.digest, 1, Len(a))
    BY <1>1, <2>1, AppendFacts
  <2>3. Len(a) <= Len(m.digest)
    BY <1>1, <1>2, <2>1
  <2> QED
    BY <1>1, <1>6, <2>1, <2>2, <2>3 DEF Told
<1> QED
  BY <1>1, <1>2, <1>5, <1>6

\* Records of the same bytes answer for the same bytes.
LEMMA SameFacts ==
  ASSUME NEW r \in Record, NEW m \in Record, m.digest = r.digest
  PROVE  \A p : Prefix(p, r) # None <=> Prefix(p, m) # None
<1> SUFFICES ASSUME NEW p PROVE Prefix(p, r) # None <=> Prefix(p, m) # None
  OBVIOUS
<1>1. Prefix(p, r) # None <=>
        p # None /\ Len(p) \in Len(r.digest)..MAX_FILE /\ SubSeq(p, 1, Len(r.digest)) = r.digest
  BY PrefixIs
<1>2. Prefix(p, m) # None <=>
        p # None /\ Len(p) \in Len(m.digest)..MAX_FILE /\ SubSeq(p, 1, Len(m.digest)) = m.digest
  BY PrefixIs
<1> QED
  BY <1>1, <1>2

\* The record is renamed into place.
LEMMA PutMetaKeeps ==
  ASSUME StagingInv, PutMeta
  PROVE  StagingInv'
<1> USE DEF StagingInv
<1> DEFINE cl == claim[lock.who]
           id == cl.id
           rec == lock.rec
           r == records[id]
<1>1. /\ lock # None /\ lock.at = "meta"
      /\ meta' = [meta EXCEPT ![id] = rec] /\ metaKept' = [metaKept EXCEPT ![id] = @ \cup {rec}]
      /\ partKept' = IF cl.job # "append" THEN partKept
                     ELSE [partKept EXCEPT ![id] = (@ \cap {None}) \cup {part[id]}]
      /\ Goto("sync")
      /\ UNCHANGED <<part, damaged, acked, records, claimed, failed, claim, up, faults>>
  BY DEF PutMeta, Holding
<1>2. /\ lock.who # None /\ lock.who \in Claims /\ up /\ ~failed /\ cl # None /\ id \in Ids
      /\ cl.cap \in 0..MAX_FILE /\ rec # None /\ rec \in Record /\ RecOk(rec)
      /\ Making(cl) \/ Appending(cl) \/ Binding(cl)
      /\ \A j \in Ids : meta[j] = records[j] /\ metaKept[j] = {records[j]}
  BY <1>1, WriteFacts
<1>3. /\ lock' \in Lock /\ lock' # None /\ lock'.at = "sync" /\ lock'.who = lock.who
      /\ lock'.gone = lock.gone /\ lock'.then = lock.then /\ lock'.rec = rec
  BY <1>1, GotoFacts DEF Phases
<1>4. /\ meta' \in [Ids -> Record \cup {None}] /\ metaKept' \in [Ids -> SUBSET (Record \cup {None})]
      /\ meta'[id] = rec /\ metaKept'[id] = {r, rec}
      /\ \A j \in Ids : j # id => meta'[j] = meta[j] /\ metaKept'[j] = metaKept[j]
  BY <1>1, <1>2 DEF TypeOK
<1>5. /\ partKept' \in [Ids -> SUBSET (Content \cup {None})]
      /\ cl.job # "append" => partKept' = partKept
      /\ cl.job = "append" => partKept'[id] = (partKept[id] \cap {None}) \cup {part[id]}
      /\ \A j \in Ids : /\ j # id => partKept'[j] = partKept[j]
                        /\ part[j] \in partKept'[j] /\ partKept'[j] \subseteq partKept[j]
  <2>1. \A j \in Ids : part[j] \in partKept[j]
    BY DEF Contents
  <2>2. partKept \in [Ids -> SUBSET (Content \cup {None})]
    BY DEF TypeOK
  <2>3. CASE cl.job # "append"
    BY <1>1, <2>1, <2>2, <2>3
  <2>4. CASE cl.job = "append"
    <3>1. partKept' = [partKept EXCEPT ![id] = (partKept[id] \cap {None}) \cup {part[id]}]
      BY <1>1, <2>4
    <3> HIDE DEF id, cl
    <3>2. partKept'[id] = (partKept[id] \cap {None}) \cup {part[id]}
      BY <1>2, <2>2, <3>1
    <3>3. partKept'[id] \subseteq partKept[id] /\ part[id] \in partKept'[id]
      BY <1>2, <2>1, <3>2
    <3>4. \A j \in Ids : j # id => partKept'[j] = partKept[j]
      BY <2>2, <3>1
    <3>5. partKept' \in [Ids -> SUBSET (Content \cup {None})]
      BY <1>2, <2>1, <2>2, <3>1, <3>2, <3>3
    <3> QED
      BY <2>1, <2>4, <3>2, <3>3, <3>4, <3>5
  <2> QED
    BY <2>3, <2>4
<1>6. TypeOK'
  BY <1>1, <1>3, <1>4, <1>5 DEF TypeOK
<1>7. Callers'
  BY <1>1, <1>3 DEF Callers
<1>8. About(claim[lock.who])'
  <2>1. CASE Making(cl)
    BY <1>1, <1>3, <2>1 DEF About, Making
  <2>2. CASE Appending(cl)
    <3>1. partKept'[id] \subseteq {None, part[id]}
      <4>1. partKept'[id] = (partKept[id] \cap {None}) \cup {part[id]}
        BY <1>5, <2>2 DEF Appending
      <4> HIDE DEF id
      <4> QED
        BY <4>1
    <3> QED
      BY <1>1, <1>3, <2>2, <3>1 DEF About, Appending
  <2>3. CASE Binding(cl)
    BY <1>1, <1>3, <2>3 DEF About, Binding
  <2> QED
    BY <1>2, <2>1, <2>2, <2>3
<1>9. Holder'
  BY <1>1, <1>2, <1>3, <1>4, <1>8 DEF Holder
<1>10. OneWriter' /\ CallerAgrees'
  BY <1>1 DEF OneWriter, CallerAgrees, Leases
<1>11. Contents'
  <2> SUFFICES ASSUME NEW j \in Ids
               PROVE  /\ meta'[j] \in metaKept'[j] /\ part[j] \in partKept'[j]
                      /\ \A m \in metaKept'[j] : m # None => RecOk(m)
                      /\ \A p \in partKept'[j] : p # None => Len(p) <= MAX_FILE
    BY <1>1 DEF Contents
  <2> QED
    BY <1>2, <1>4, <1>5 DEF Contents
<1>12. InStep'
  <2> SUFFICES ASSUME NEW j \in Ids
               PROVE  \/ meta'[j] = records[j] /\ metaKept'[j] = {records[j]}
                      \/ j = id /\ meta'[j] = rec /\ metaKept'[j] \subseteq {records[j], rec}
    BY <1>1, <1>3 DEF InStep, Writing
  <2> QED
    BY <1>2, <1>4
<1>13. Down'
  BY <1>1, <1>2 DEF Down
<1>14. Bounded'
  <2> DEFINE new == [records EXCEPT ![id] = rec]
  <2>1. records \in [Ids -> Record \cup {None}] /\ Fit(records)
    BY <1>2, RecordsFit
  <2>2. Fit(new)
    <3>1. CASE Making(cl)
      BY <1>1, <3>1 DEF Making
    <3>2. CASE Appending(cl)
      BY <3>2 DEF Appending
    <3>3. CASE Binding(cl)
      BY <3>3 DEF Binding
    <3> QED
      BY <1>2, <3>1, <3>2, <3>3
  <2>3. new \in [Ids -> Record \cup {None}] /\ new[id] = rec /\ \A j \in Ids : j # id => new[j] = records[j]
    BY <1>2, <2>1
  <2> HIDE DEF new
  <2> SUFFICES ASSUME NEW f \in Leftovers' PROVE Fit(f)
    BY DEF Bounded
  <2>4. f \in [Ids -> Record \cup {None}] /\ \A j \in Ids : f[j] \in metaKept'[j]
    BY <1>6, LeftNext
  <2>5. /\ \A j \in Ids : j # id => f[j] = records[j]
        /\ f[id] = records[id] \/ f[id] = rec
    BY <1>2, <1>4, <2>4
  <2>6. CASE f[id] = records[id]
    <3>1. f = records
      BY <2>1, <2>4, <2>5, <2>6
    <3> QED
      BY <2>1, <3>1
  <2>7. CASE f[id] = rec
    <3>1. f = new
      BY <2>3, <2>4, <2>5, <2>7
    <3> QED
      BY <2>2, <3>1
  <2> QED
    BY <2>5, <2>6, <2>7
<1>15. Standing'
  BY <1>1, <1>5 DEF Standing
<1>16. AckedKept'
  <2> SUFFICES ASSUME NEW j \in Ids, acked[j] # None
               PROVE  /\ j \notin damaged
                      /\ \A m \in metaKept'[j] : Told(acked[j], m) /\ \A p \in partKept'[j] : Prefix(p, m) # None
    BY <1>1 DEF AckedKept
  <2>1. /\ j \notin damaged
        /\ \A m \in metaKept[j] : Told(acked[j], m) /\ \A p \in partKept[j] : Prefix(p, m) # None
    BY DEF AckedKept
  <2>2. CASE j # id
    BY <1>4, <1>5, <2>1, <2>2
  <2>3. CASE j = id
    <3>1. /\ Told(acked[id], r) /\ \A p \in partKept[id] : Prefix(p, r) # None
      BY <1>2, <2>1, <2>3
    <3>2. r # None /\ r \in Record /\ ~r.stale /\ acked[id] \in Seq(Bytes)
      BY <1>2, <2>3, <3>1, Typed DEF Told
    <3>3. /\ Told(acked[id], rec)
          /\ \A p \in partKept'[id] : Prefix(p, r) # None /\ Prefix(p, rec) # None
      <4>1. CASE Making(cl)
        BY <1>1, <3>2, <4>1 DEF Making
      <4>2. CASE Binding(cl)
        <5>1. rec.digest = r.digest /\ ~rec.stale
          BY <3>2, <4>2 DEF Binding
        <5>2. \A p : Prefix(p, r) # None <=> Prefix(p, rec) # None
          BY <1>2, <3>2, <5>1, SameFacts
        <5> QED
          BY <1>2, <1>5, <3>1, <5>1, <5>2 DEF Told
      <4>3. CASE Appending(cl)
        <5>1. /\ rec.digest = Append(r.digest, cl.arg) /\ ~rec.stale /\ part[id] = rec.digest
              /\ cl.job = "append" /\ cl.arg \in Bytes
          BY <1>1, <1>2, <2>1, <2>3, <4>3 DEF Appending, Callers
        <5>2. Len(rec.digest) <= MAX_FILE
          BY <1>2 DEF RecOk
        <5>4. Told(acked[id], rec) /\ Prefix(rec.digest, r) # None /\ Prefix(rec.digest, rec) # None
          BY <1>2, <3>1, <3>2, <5>1, <5>2, LongerFacts
        <5>5. None \notin partKept[id]
          BY <3>1, <3>2, PrefixIs
        <5> HIDE DEF cl, id, rec
        <5>6. partKept'[id] = {rec.digest}
          <6>1. partKept'[id] = (partKept[id] \cap {None}) \cup {part[id]}
            BY <1>5, <5>1
          <6> QED
            BY <5>1, <5>5, <6>1
        <5> QED
          BY <5>4, <5>6
      <4> QED
        BY <1>2, <4>1, <4>2, <4>3
    <3> QED
      BY <1>4, <2>1, <2>3, <3>1, <3>3
  <2> QED
    BY <2>2, <2>3
<1>17. Reserved'
  BY <1>1 DEF Reserved
<1> QED
  BY <1>6, <1>7, <1>9, <1>10, <1>11, <1>12, <1>13, <1>14, <1>15, <1>16, <1>17

\* The bytes of a chunk are written behind those recorded.
LEMMA WritePartKeeps ==
  ASSUME StagingInv, WritePart
  PROVE  StagingInv'
<1> USE DEF StagingInv
<1> DEFINE cl == claim[lock.who]
           id == cl.id
           r == records[id]
           cut == SubSeq(part[id], 1, Len(cl.data))
           new == Append(cut, cl.arg)
<1>1. /\ lock # None /\ lock.at = "write" /\ part[id] # None
      /\ part' = [part EXCEPT ![id] = new] /\ partKept' = [partKept EXCEPT ![id] = @ \cup {cut, new}]
      /\ Goto("meta")
      /\ UNCHANGED <<meta, metaKept, damaged, acked, records, claimed, failed, claim, up, faults>>
  BY DEF WritePart, Holding
<1>2. /\ lock.who # None /\ lock.who \in Claims /\ up /\ ~failed /\ cl # None /\ id \in Ids
      /\ lock.rec \in Record /\ RecOk(lock.rec)
      /\ \A j \in Ids : meta[j] = records[j] /\ metaKept[j] = {records[j]}
  BY <1>1, WriteFacts
<1>3. Appending(cl)
  BY <1>1, WriteFacts DEF Making, Binding
<1>4. /\ r # None /\ r \in Record /\ cl.job = "append" /\ cl.arg \in Bytes
      /\ lock.rec.digest = Append(r.digest, cl.arg) /\ cl.data = r.digest
  <2>1. r # None /\ cl.job = "append" /\ lock.rec.digest = Append(r.digest, cl.arg)
    BY <1>3 DEF Appending
  <2>2. cl.arg \in Bytes /\ lock.who \in Leases
    BY <1>2, <2>1 DEF Callers, Leases
  <2>3. cl.data = r.digest
    BY <2>1, <2>2 DEF CallerAgrees
  <2> QED
    BY <1>2, <2>1, <2>2, <2>3, Typed
<1>5. /\ lock' \in Lock /\ lock' # None /\ lock'.at = "meta" /\ lock'.who = lock.who
      /\ lock'.gone = lock.gone /\ lock'.then = lock.then /\ lock'.rec = lock.rec
  BY <1>1, GotoFacts DEF Phases
<1>6. /\ r.digest \in Seq(Bytes) /\ Len(r.digest) \in Nat /\ Len(r.digest) <= MAX_FILE
      /\ part[id] \in Content /\ Len(r.digest) <= Len(part[id])
  <2>1. Len(r.digest) <= MAX_FILE /\ Len(part[id]) >= Len(r.digest)
    BY <1>1, <1>2, <1>4 DEF Contents, RecOk
  <2>2. part[id] \in Content
    BY <1>1, <1>2, Typed
  <2>3. Len(part[id]) \in Nat
    BY <2>2 DEF Content
  <2>4. r.digest \in Seq(Bytes) /\ Len(r.digest) \in Nat
    BY <1>4, RecordFacts
  <2> HIDE DEF r
  <2> QED
    BY <2>1, <2>2, <2>3, <2>4
<1>7. /\ cut \in Content /\ cut # None /\ Len(cut) = Len(r.digest)
      /\ new \in Content /\ new # None /\ Len(new) = Len(lock.rec.digest) /\ Len(new) <= MAX_FILE
      /\ Len(lock.rec.digest) = Len(r.digest) + 1
  <2>1. cut = SubSeq(part[id], 1, Len(r.digest))
    BY <1>4
  <2> HIDE DEF cut, r
  <2>2. cut \in Content /\ Len(cut) = Len(r.digest)
    BY <1>6, <2>1, CutFacts DEF Content
  <2>3. new \in Content /\ Len(new) = Len(r.digest) + 1
    <3>1. cl.arg \in Bytes \cup {Foreign}
      BY <1>4
    <3> QED
      BY <2>2, <3>1 DEF Content
  <2> HIDE DEF new
  <2>4. Len(lock.rec.digest) = Len(r.digest) + 1
    BY <1>4, <1>6
  <2>5. Len(lock.rec.digest) <= MAX_FILE
    BY <1>2 DEF RecOk
  <2>6. cut # None /\ new # None
    BY <2>2, <2>3, NoneAssumption DEF Content
  <2> QED
    BY <2>2, <2>3, <2>4, <2>5, <2>6
<1>8. ASSUME id \notin damaged
      PROVE  /\ cut = r.digest /\ new = lock.rec.digest
             /\ Prefix(cut, r) # None /\ Prefix(new, r) # None
  <2>1. Prefix(part[id], r) # None
    BY <1>2, <1>4, <1>8 DEF Standing, Contents
  <2>2. SubSeq(part[id], 1, Len(r.digest)) = r.digest
    BY <1>4, <2>1, PrefixIs
  <2>3. cut = r.digest /\ new = lock.rec.digest
    BY <1>4, <2>2
  <2>4. Prefix(lock.rec.digest, r) # None
    <3>1. Len(lock.rec.digest) <= MAX_FILE
      BY <1>2 DEF RecOk
    <3>2. /\ r \in Record /\ lock.rec \in Record /\ cl.arg \in Bytes
          /\ lock.rec.digest = Append(r.digest, cl.arg)
      BY <1>2, <1>4
    <3> HIDE DEF r, cl, StagingInv
    <3> QED
      BY <3>1, <3>2, LongerFacts, Zenon
  <2>5. Prefix(r.digest, r) # None
    <3>1. SubSeq(r.digest, 1, Len(r.digest)) = r.digest
      BY <1>6, WholeFacts
    <3>2. Len(r.digest) \in Len(r.digest)..MAX_FILE
      <4> HIDE DEF r
      <4> QED
        BY <1>6, BoundsAssumption
    <3>3. r.digest # None
      BY <1>4, RecordFacts
    <3> QED
      BY <1>4, <3>1, <3>2, <3>3, PrefixIs
  <2> HIDE DEF r, cut, new
  <2> QED
    BY <2>3, <2>4, <2>5
<1> HIDE DEF cut, new
<1>9. /\ part' \in [Ids -> Content \cup {None}] /\ partKept' \in [Ids -> SUBSET (Content \cup {None})]
      /\ part'[id] = new /\ partKept'[id] = partKept[id] \cup {cut, new}
      /\ \A j \in Ids : j # id => part'[j] = part[j] /\ partKept'[j] = partKept[j]
  BY <1>1, <1>2, <1>7 DEF TypeOK
<1>10. TypeOK'
  BY <1>1, <1>5, <1>9 DEF TypeOK
<1>11. Callers'
  BY <1>1, <1>5 DEF Callers
<1>12. Appending(claim[lock.who])'
  <2>1. /\ part'[id] # None /\ Len(part'[id]) = Len(lock.rec.digest)
        /\ id \notin damaged => part'[id] = lock.rec.digest
    BY <1>7, <1>8, <1>9
  <2> QED
    BY <1>1, <1>3, <1>5, <2>1 DEF Appending
<1>13. Holder'
  BY <1>1, <1>2, <1>5, <1>12 DEF Holder, About
<1>14. OneWriter' /\ CallerAgrees'
  BY <1>1 DEF OneWriter, CallerAgrees, Leases
<1>15. Contents'
  <2> SUFFICES ASSUME NEW j \in Ids
               PROVE  /\ part'[j] \in partKept'[j]
                      /\ \A p \in partKept'[j] : p # None => Len(p) <= MAX_FILE
                      /\ records[j] # None /\ part'[j] # None => Len(part'[j]) >= Len(records[j].digest)
    BY <1>1 DEF Contents
  <2>1. CASE j = id
    <3>1. part'[id] \in partKept'[id] /\ (\A p \in partKept[id] : p # None => Len(p) <= MAX_FILE)
      BY <1>2, <1>9 DEF Contents
    <3>2. Len(cut) <= MAX_FILE /\ Len(new) <= MAX_FILE /\ Len(new) >= Len(r.digest)
      <4> HIDE DEF r
      <4> QED
        BY <1>6, <1>7
    <3>3. \A p \in partKept'[id] : p # None => Len(p) <= MAX_FILE
      BY <1>9, <3>1, <3>2
    <3> QED
      BY <1>9, <2>1, <3>1, <3>2, <3>3
  <2>2. CASE j # id
    BY <1>9, <2>2 DEF Contents
  <2> QED
    BY <2>1, <2>2
<1>16. InStep' /\ Down'
  BY <1>1, <1>2 DEF InStep, Down
<1>17. Bounded'
  BY <1>1 DEF Bounded, Leftovers
<1>18. Standing'
  BY <1>1, <1>8, <1>9 DEF Standing
<1>19. AckedKept'
  <2> SUFFICES ASSUME NEW j \in Ids, acked[j] # None
               PROVE  /\ j \notin damaged
                      /\ \A m \in metaKept[j] : Told(acked[j], m) /\ \A p \in partKept'[j] : Prefix(p, m) # None
    BY <1>1 DEF AckedKept
  <2>1. /\ j \notin damaged
        /\ \A m \in metaKept[j] : Told(acked[j], m) /\ \A p \in partKept[j] : Prefix(p, m) # None
    BY DEF AckedKept
  <2>2. CASE j # id
    BY <1>9, <2>1, <2>2
  <2>3. CASE j = id
    BY <1>2, <1>8, <1>9, <2>1, <2>3
  <2> QED
    BY <2>2, <2>3
<1>20. Reserved'
  BY <1>1 DEF Reserved
<1> QED
  BY <1>10, <1>11, <1>13, <1>14, <1>15, <1>16, <1>17, <1>18, <1>19, <1>20

\* The directory is synced, the index changes, and the caller learns of it.
LEMMA FinishKeeps ==
  ASSUME StagingInv, Finish
  PROVE  StagingInv'
<1> USE DEF StagingInv
<1> DEFINE c == lock.who
           cl == claim[c]
           id == cl.id
           rec == lock.rec
           told == IF rec.stale \/ id \in damaged THEN None ELSE rec.digest
<1>1. /\ lock # None /\ lock.at = "sync"
      /\ metaKept' = Synced(meta) /\ partKept' = SyncedParts
      /\ records' = [records EXCEPT ![id] = rec]
      /\ claimed' = IF cl.job # "claim" THEN claimed ELSE [claimed EXCEPT ![id] = cl.cap]
      /\ Settle(c, "none", cl.held, rec.digest) /\ acked' = [acked EXCEPT ![id] = told]
      /\ lock' = None /\ UNCHANGED <<meta, part, damaged, failed, up, faults>>
  BY DEF Finish, Holding
<1>2. /\ c # None /\ c \in Claims /\ up /\ ~failed /\ cl # None /\ cl \in Claim /\ id \in Ids
      /\ cl.cap \in 0..MAX_FILE /\ rec # None /\ rec \in Record /\ RecOk(rec) /\ meta[id] = rec
      /\ Making(cl) \/ Appending(cl) \/ Binding(cl)
      /\ \A j \in Ids : j # id => meta[j] = records[j] /\ metaKept[j] = {records[j]}
  BY <1>1, WriteFacts
<1>3. rec.digest \in Seq(Bytes) /\ Len(rec.digest) \in Nat /\ rec.digest # None /\ cl.held \in BOOLEAN
  BY <1>2, RecordFacts DEF Claim
<1>4. /\ claim' \in [Claims -> Claim \cup {None}] /\ claim'[c] # None
      /\ claim'[c].id = id /\ claim'[c].cap = cl.cap
      /\ claim'[c].data = rec.digest /\ claim'[c].job = "none"
      /\ \A d \in Claims : d # c => claim'[d] = claim[d]
  <2>1. Settle(c, "none", cl.held, rec.digest) /\ TypeOK /\ c \in Claims /\ claim[c] # None
    BY <1>1, <1>2
  <2> HIDE DEF c, rec, StagingInv
  <2> QED
    BY <1>3, <2>1, SettleFacts
<1>5. /\ records' \in [Ids -> Record \cup {None}] /\ records'[id] = rec
      /\ acked' \in [Ids -> Seq(Bytes) \cup {None}] /\ acked'[id] = told
      /\ \A j \in Ids : j # id => records'[j] = records[j] /\ acked'[j] = acked[j]
  BY <1>1, <1>2, <1>3 DEF TypeOK
<1>6. ASSUME NEW j \in Ids
      PROVE  /\ metaKept'[j] = {meta[j]} /\ metaKept'[j] \subseteq metaKept[j]
             /\ partKept'[j] \subseteq partKept[j] /\ part[j] \in partKept'[j]
             /\ part[j] # None => None \notin partKept'[j]
  BY <1>1, SyncFacts
<1>7. /\ claimed' \in [Ids -> (0..MAX_FILE) \cup {None}]
      /\ claimed'[id] = cl.cap /\ cl.cap \in Nat /\ cl.cap # None
      /\ \A j \in Ids : j # id => claimed'[j] = claimed[j]
  <2>1. cl.job # "claim" => claimed[id] = cl.cap
    BY <1>2 DEF Callers
  <2>2. cl.cap \in Nat /\ cl.cap # None
    BY <1>2, NoneAssumption, BoundsAssumption
  <2>3. claimed \in [Ids -> (0..MAX_FILE) \cup {None}]
    BY DEF TypeOK
  <2> HIDE DEF id, cl
  <2>4. CASE cl.job # "claim"
    <3>1. claimed' = claimed
      BY <1>1, <2>4
    <3> QED
      BY <2>1, <2>2, <2>3, <2>4, <3>1
  <2>5. CASE cl.job = "claim"
    <3>1. claimed' = [claimed EXCEPT ![id] = cl.cap]
      BY <1>1, <2>5
    <3> QED
      BY <1>2, <2>2, <2>3, <3>1
  <2> QED
    BY <2>4, <2>5
<1>8. TypeOK'
  <2>1. metaKept' \in [Ids -> SUBSET (Record \cup {None})]
    BY <1>1 DEF TypeOK, Synced
  <2>2. partKept' \in [Ids -> SUBSET (Content \cup {None})]
    BY <1>1 DEF TypeOK, SyncedParts
  <2> QED
    BY <1>1, <1>4, <1>5, <1>7, <2>1, <2>2 DEF TypeOK
<1>9. \A d \in Claims : d # c /\ claim[d] # None => claim[d].job # "claim" /\ claim[d].id # id
  <2> SUFFICES ASSUME NEW d \in Claims, d # c, claim[d] # None
               PROVE  claim[d].job # "claim" /\ claim[d].id # id
    OBVIOUS
  <2>1. claim[d].job # "claim"
    BY DEF Callers
  <2>2. CASE Making(cl)
    <3>1. claimed[id] = None
      BY <2>2 DEF Making
    <3>2. claimed[claim[d].id] = claim[d].cap /\ claim[d].cap \in 0..MAX_FILE
      BY <2>1, Typed DEF Callers
    <3> QED
      BY <2>1, <3>1, <3>2, NoneAssumption
  <2>3. CASE Appending(cl) \/ Binding(cl)
    <3>1. c \in Leases /\ d \in Leases
      BY <1>2, <2>1, <2>3 DEF Appending, Binding, Leases
    <3> QED
      BY <2>1, <3>1 DEF OneWriter
  <2> QED
    BY <1>2, <2>2, <2>3
<1>10. Callers'
  <2>1. \A d \in Claims : d # c /\ claim[d] # None => claim[d].id \in Ids
    BY Typed
  <2> QED
    BY <1>1, <1>2, <1>4, <1>7, <1>9, <2>1 DEF Callers
<1>11. Holder'
  BY <1>1 DEF Holder
<1>12. OneWriter'
  BY <1>1, <1>4, <1>9 DEF OneWriter, Leases
<1>13. CallerAgrees'
  <2> SUFFICES ASSUME NEW d \in Claims, claim'[d] # None, claim'[d].job # "claim", records'[claim'[d].id] # None
               PROVE  claim'[d].data = records'[claim'[d].id].digest
    BY DEF CallerAgrees, Leases
  <2>1. CASE d = c
    BY <1>4, <1>5, <2>1
  <2>2. CASE d # c
    <3>1. claim[d].id \in Ids /\ claim[d].id # id /\ d \in Leases /\ claim'[d] = claim[d]
      BY <1>4, <1>9, <2>2, Typed DEF Leases
    <3> QED
      BY <1>5, <3>1 DEF CallerAgrees
  <2> QED
    BY <2>1, <2>2
<1>14. part[id] = None \/ Len(rec.digest) <= Len(part[id])
  <2>1. CASE Making(cl)
    <3>1. part[id] = << >> /\ rec.digest = << >>
      BY <1>1, <2>1 DEF Making
    <3> QED
      BY <1>3, <3>1
  <2>2. CASE Appending(cl)
    <3>1. part[id] # None /\ Len(part[id]) = Len(rec.digest)
      BY <1>1, <2>2 DEF Appending
    <3> HIDE DEF rec, id
    <3> QED
      BY <1>3, <3>1
  <2>3. CASE Binding(cl)
    BY <1>2, <2>3 DEF Binding, Contents
  <2> QED
    BY <1>2, <2>1, <2>2, <2>3
<1>15. Contents'
  <2> SUFFICES ASSUME NEW j \in Ids
               PROVE  /\ meta[j] \in metaKept'[j] /\ part[j] \in partKept'[j]
                      /\ \A m \in metaKept'[j] : m # None => RecOk(m)
                      /\ records'[j] # None => RecOk(records'[j])
                      /\ \A p \in partKept'[j] : p # None => Len(p) <= MAX_FILE
                      /\ records'[j] # None /\ part[j] # None => Len(part[j]) >= Len(records'[j].digest)
    BY <1>1 DEF Contents
  <2>1. CASE j = id
    BY <1>2, <1>5, <1>6, <1>14, <2>1 DEF Contents
  <2>2. CASE j # id
    BY <1>5, <1>6, <2>2 DEF Contents
  <2> QED
    BY <2>1, <2>2
<1>16. InStep'
  BY <1>1, <1>2, <1>5, <1>6 DEF InStep
<1>17. Down'
  BY <1>1, <1>2 DEF Down
<1>18. Bounded'
  <2> SUFFICES ASSUME NEW j \in Ids, NEW m \in metaKept'[j], m # None
               PROVE  \E n \in metaKept[j] : n # None /\ Len(m.digest) <= Len(n.digest)
    BY <1>8, BoundedLess
  <2>1. m \in metaKept[j] /\ m \in Record
    BY <1>6, Typed
  <2> QED
    BY <2>1, RecordFacts
<1>19. ASSUME id \notin damaged, NEW p \in partKept'[id]
       PROVE  Prefix(p, rec) # None
  <2>1. CASE Making(cl)
    <3>1. rec.digest = << >> /\ part[id] = << >>
      BY <1>1, <2>1 DEF Making
    <3>2. part[id] # None /\ p # None /\ p \in partKept[id]
      BY <1>2, <1>3, <1>6, <3>1
    <3>3. p \in Content /\ Len(p) <= MAX_FILE
      BY <1>2, <3>2, Typed DEF Contents
    <3>4. SubSeq(p, 1, 0) = << >> /\ Len(p) \in 0..MAX_FILE
      BY <3>3, BoundsAssumption DEF Content
    <3>5. Len(rec.digest) = 0
      BY <3>1
    <3> QED
      BY <1>2, <3>1, <3>2, <3>4, <3>5, PrefixIs
  <2>2. CASE Appending(cl)
    <3>1. /\ part[id] # None /\ part[id] = rec.digest /\ partKept[id] \subseteq {None, part[id]}
      BY <1>1, <1>19, <2>2 DEF Appending
    <3>2. p = rec.digest
      BY <1>2, <1>6, <1>19, <3>1
    <3>3. SubSeq(p, 1, Len(rec.digest)) = rec.digest /\ Len(p) \in Len(rec.digest)..MAX_FILE /\ p # None
      <4>1. Len(rec.digest) <= MAX_FILE
        BY <1>2 DEF RecOk
      <4> QED
        BY <1>3, <3>2, <4>1, WholeFacts, BoundsAssumption
    <3> QED
      BY <1>2, <3>3, PrefixIs
  <2>3. CASE Binding(cl)
    <3>1. records[id] # None /\ rec.digest = records[id].digest /\ records[id] \in Record
      BY <1>2, <2>3, Typed DEF Binding
    <3>2. Prefix(p, records[id]) # None
      BY <1>2, <1>6, <1>19, <3>1 DEF Standing
    <3> QED
      BY <1>2, <3>1, <3>2, SameFacts
  <2> QED
    BY <1>2, <2>1, <2>2, <2>3
<1>20. Standing'
  <2> SUFFICES ASSUME NEW j \in Ids, records'[j] # None, j \notin damaged, NEW p \in partKept'[j]
               PROVE  Prefix(p, records'[j]) # None
    BY <1>1 DEF Standing
  <2>1. CASE j = id
    BY <1>5, <1>19, <2>1
  <2>2. CASE j # id
    BY <1>5, <1>6, <2>2 DEF Standing
  <2> QED
    BY <2>1, <2>2
<1>21. AckedKept'
  <2> SUFFICES ASSUME NEW j \in Ids, acked'[j] # None
               PROVE  /\ j \notin damaged
                      /\ \A m \in metaKept'[j] : Told(acked'[j], m) /\ \A p \in partKept'[j] : Prefix(p, m) # None
    BY <1>1 DEF AckedKept
  <2>1. CASE j = id
    <3>1. acked'[j] = rec.digest /\ id \notin damaged /\ ~rec.stale
      BY <1>5, <2>1
    <3>2. metaKept'[j] = {rec}
      BY <1>2, <1>6, <2>1
    <3>3. Told(rec.digest, rec)
      <4>1. SubSeq(rec.digest, 1, Len(rec.digest)) = rec.digest
        BY <1>3, WholeFacts
      <4> HIDE DEF rec
      <4> QED
        BY <1>2, <1>3, <3>1, <4>1 DEF Told
    <3> QED
      BY <1>19, <2>1, <3>1, <3>2, <3>3
  <2>2. CASE j # id
    <3>1. acked[j] = acked'[j] /\ metaKept'[j] \subseteq metaKept[j] /\ partKept'[j] \subseteq partKept[j]
      BY <1>5, <1>6, <2>2
    <3> QED
      BY <3>1 DEF AckedKept
  <2> QED
    BY <2>1, <2>2
<1>22. Reserved'
  <2>1. records \in [Ids -> Record \cup {None}] /\ claimed \in [Ids -> (0..MAX_FILE) \cup {None}]
    BY DEF TypeOK
  <2>2. Sum(Beside(records, claimed, id)) + cl.cap <= MAX_TOTAL /\ Len(rec.digest) <= cl.cap
    <3>1. CASE Making(cl)
      <4>1. rec.digest = << >> /\ Sum(Beside(records, claimed, id)) + cl.cap <= MAX_TOTAL
        BY <3>1 DEF Making
      <4>2. Len(rec.digest) = 0
        BY <4>1
      <4> QED
        BY <1>7, <4>1, <4>2
    <3>2. CASE Appending(cl) \/ Binding(cl)
      <4>1. records[id] # None /\ claimed[id] = cl.cap
        BY <1>2, <3>2 DEF Appending, Binding, Callers
      <4>2. Len(rec.digest) <= cl.cap
        BY <1>2, <1>7, <3>2, <4>1 DEF Appending, Binding, Reserved
      <4>3. Taken(records, claimed)[id] = cl.cap
        BY <1>2, <1>7, <2>1, <4>1, TakenType
      <4>4. Sum(Taken(records, claimed)) = Taken(records, claimed)[id] + Sum(Beside(records, claimed, id))
            /\ Sum(Beside(records, claimed, id)) \in Nat
        BY <1>2, <2>1, TakenType
      <4>5. Sum(Taken(records, claimed)) <= MAX_TOTAL
        BY DEF Reserved
      <4> QED
        BY <1>7, <4>2, <4>3, <4>4, <4>5, BoundsAssumption
    <3> QED
      BY <1>2, <3>1, <3>2
  <2>3. Sum(Taken(records', claimed')) <= MAX_TOTAL
    <3>1. IF records'[id] # None /\ claimed'[id] # None THEN claimed'[id] <= cl.cap ELSE Len0(records'[id]) <= cl.cap
      BY <1>2, <1>5, <1>7
    <3>2. \A j \in Ids : j # id => records'[j] = records[j] /\ claimed'[j] = claimed[j]
      BY <1>5, <1>7
    <3>3. /\ records' \in [Ids -> Record \cup {None}] /\ claimed' \in [Ids -> (0..MAX_FILE) \cup {None}]
          /\ id \in Ids /\ cl.cap \in Nat
      BY <1>2, <1>5, <1>7
    <3> HIDE DEF id, cl, StagingInv
    <3> QED
      BY <2>1, <2>2, <3>1, <3>2, <3>3, TakenGrows
  <2>4. \A j \in Ids : claimed'[j] # None /\ records'[j] # None => Len(records'[j].digest) <= claimed'[j]
    BY <1>5, <1>7, <2>2 DEF Reserved
  <2> QED
    BY <2>3, <2>4 DEF Reserved
<1> QED
  BY <1>8, <1>10, <1>11, <1>12, <1>13, <1>15, <1>16, <1>17, <1>18, <1>20, <1>21, <1>22
-----------------------------------------------------------------------------
(* Staging::open.                                                          *)

\* While the directory is scanned there are no callers, and what is taken so
\* far is what is on disk.
LEMMA ScanFacts ==
  ASSUME StagingInv, Holding("scan")
  PROVE  /\ lock # None /\ lock \in Lock /\ lock.at = "scan" /\ lock.who = None /\ lock.gone \in SUBSET Ids
         /\ ~up /\ ~failed /\ Leases = {}
         /\ \A c \in Claims : claim[c] = None
         /\ \A j \in Ids : /\ claimed[j] = None /\ metaKept[j] = {meta[j]}
                           /\ j \in lock.gone => records[j] = None /\ partKept[j] = {part[j]} /\ meta[j] # None
                           /\ j \notin lock.gone => records[j] = meta[j]
<1> USE DEF StagingInv
<1>1. lock # None /\ lock.at = "scan"
  BY DEF Holding
<1>2. lock.who = None
  BY <1>1, HolderJob DEF About, Clearing, Making, Appending, Binding, Discarding
<1>3. ~up /\ lock \in Lock /\ lock.gone \in SUBSET Ids
  BY <1>1, <1>2, Typed DEF Holder
<1>4. \A c \in Claims : claim[c] = None
  BY <1>3 DEF Callers
<1>5. ~failed /\ Scanning /\ \A j \in Ids : claimed[j] = None
  BY <1>1, <1>3 DEF Down
<1> QED
  BY <1>1, <1>2, <1>3, <1>4, <1>5 DEF Scanning, Removing, Leases

\* A record is taken.
LEMMA ScanKeepKeeps ==
  ASSUME StagingInv, NEW i \in Ids, ScanKeep(i)
  PROVE  StagingInv'
<1> USE DEF StagingInv
<1> DEFINE r == meta[i]
           rest == lock.gone \ {i}
<1>1. /\ Holding("scan") /\ i \in lock.gone /\ Acceptable(r) /\ Room(r) /\ Prefix(part[i], r) # None
      /\ records' = [records EXCEPT ![i] = r] /\ Truncate(i, r)
      /\ lock' = [lock EXCEPT !.gone = rest]
      /\ UNCHANGED <<meta, metaKept, damaged, acked, claimed, failed, claim, up, faults>>
  BY DEF ScanKeep, Keeps
<1>2. /\ lock # None /\ lock \in Lock /\ lock.at = "scan" /\ lock.who = None /\ lock.gone \in SUBSET Ids
      /\ ~up /\ ~failed /\ Leases = {}
      /\ \A c \in Claims : claim[c] = None
      /\ \A j \in Ids : /\ claimed[j] = None /\ metaKept[j] = {meta[j]}
                        /\ j \in lock.gone => records[j] = None /\ partKept[j] = {part[j]} /\ meta[j] # None
                        /\ j \notin lock.gone => records[j] = meta[j]
  BY <1>1, ScanFacts
<1>3. r # None /\ r \in Record /\ RecOk(r)
  BY <1>1, <1>2, Typed DEF Contents
<1>4. /\ part' \in [Ids -> Content \cup {None}]
      /\ partKept' \in [Ids -> SUBSET (Content \cup {None})]
      /\ part'[i] = r.digest /\ partKept'[i] = partKept[i] \cup {r.digest}
      /\ Len(r.digest) <= MAX_FILE /\ Prefix(r.digest, r) # None
      /\ \A j \in Ids : j # i => part'[j] = part[j] /\ partKept'[j] = partKept[j]
  BY <1>1, <1>3, TruncateFacts
<1>5. /\ lock' \in Lock /\ lock' # None /\ lock'.at = "scan" /\ lock'.who = None /\ lock'.gone = rest
      /\ lock'.rec = lock.rec
  <2>1. lock' \in Lock
    BY <1>1, <1>2 DEF Lock
  <2> QED
    BY <1>1, <1>2, <2>1, RecordsAssumption DEF Lock
<1>6. /\ records' \in [Ids -> Record \cup {None}] /\ records'[i] = r
      /\ \A j \in Ids : j # i => records'[j] = records[j]
  BY <1>1, <1>3 DEF TypeOK
<1>7. Len(r.digest) \in Nat
  BY <1>3, RecordFacts
<1>8. TypeOK'
  BY <1>1, <1>4, <1>5, <1>6 DEF TypeOK
<1>9. Callers' /\ OneWriter' /\ CallerAgrees'
  BY <1>1, <1>2 DEF Callers, OneWriter, CallerAgrees, Leases
<1>10. Holder'
  BY <1>1, <1>2, <1>5 DEF Holder
<1>11. Contents'
  <2> SUFFICES ASSUME NEW j \in Ids
               PROVE  /\ part'[j] \in partKept'[j]
                      /\ records'[j] # None => RecOk(records'[j])
                      /\ \A p \in partKept'[j] : p # None => Len(p) <= MAX_FILE
                      /\ records'[j] # None /\ part'[j] # None => Len(part'[j]) >= Len(records'[j].digest)
    BY <1>1 DEF Contents
  <2>1. CASE j = i
    BY <1>3, <1>4, <1>6, <1>7, <2>1 DEF Contents
  <2>2. CASE j # i
    BY <1>4, <1>6, <2>2 DEF Contents
  <2> QED
    BY <2>1, <2>2
<1>12. InStep'
  BY <1>1, <1>2 DEF InStep
<1>13. Down'
  <2>1. Scanning'
    <3> SUFFICES ASSUME NEW j \in Ids
                 PROVE  /\ j \in rest => records'[j] = None /\ partKept'[j] = {part'[j]}
                        /\ j \notin rest => records'[j] = meta[j]
                        /\ metaKept[j] = {meta[j]}
                        /\ j \in rest => meta[j] # None
      BY <1>1, <1>5 DEF Scanning, Removing
    <3> QED
      BY <1>2, <1>4, <1>6
  <2> QED
    BY <1>1, <1>2, <1>5, <2>1 DEF Down
<1>14. Bounded'
  BY <1>1 DEF Bounded, Leftovers
<1>15. Standing'
  <2> SUFFICES ASSUME NEW j \in Ids, records'[j] # None, j \notin damaged, NEW p \in partKept'[j]
               PROVE  Prefix(p, records'[j]) # None
    BY <1>1 DEF Standing
  <2>1. CASE j = i
    <3>1. p = part[i] \/ p = r.digest
      BY <1>1, <1>2, <1>4, <2>1
    <3> QED
      BY <1>1, <1>4, <1>6, <2>1, <3>1
  <2>2. CASE j # i
    BY <1>4, <1>6, <2>2 DEF Standing
  <2> QED
    BY <2>1, <2>2
<1>16. AckedKept'
  BY <1>1, <1>2, <1>4 DEF AckedKept
<1>17. Reserved'
  <2> DEFINE cap == Len(r.digest)
  <2>1. records \in [Ids -> Record \cup {None}] /\ claimed \in [Ids -> (0..MAX_FILE) \cup {None}]
    BY DEF TypeOK
  <2>2. Taken(records, claimed) = Lens(records)
    BY <1>2 DEF Taken, Lens
  <2>3. Taken(records, claimed)[i] = 0
    BY <1>1, <1>2, <2>1, TakenType DEF Len0
  <2>4. Sum(Beside(records, claimed, i)) = Sum(Lens(records))
    <3>1. /\ Sum(Taken(records, claimed)) = Taken(records, claimed)[i] + Sum(Beside(records, claimed, i))
          /\ Sum(Beside(records, claimed, i)) \in Nat
      BY <2>1, TakenType
    <3> QED
      BY <2>2, <2>3, <3>1
  <2>5. Sum(Beside(records, claimed, i)) + cap <= MAX_TOTAL
    BY <1>1, <2>4, SumsAre DEF Room
  <2>6. IF records'[i] # None /\ claimed[i] # None THEN claimed[i] <= cap ELSE Len0(records'[i]) <= cap
    BY <1>2, <1>3, <1>6, <1>7 DEF Len0
  <2>7. Sum(Taken(records', claimed)) <= MAX_TOTAL
    <3> HIDE DEF cap, StagingInv
    <3>1. cap \in Nat
      BY <1>7 DEF cap
    <3> QED
      BY <1>6, <2>1, <2>5, <2>6, <3>1, TakenGrows
  <2>8. Sum(Taken(records', claimed')) <= MAX_TOTAL
    BY <1>1, <2>7
  <2> QED
    BY <1>1, <1>2, <2>8 DEF Reserved
<1> QED
  BY <1>8, <1>9, <1>10, <1>11, <1>12, <1>13, <1>14, <1>15, <1>16, <1>17

\* What a sender was told is kept passes Staging::open: there is room for all
\* that may be left of the records, and so for this one.
LEMMA AckedPasses ==
  ASSUME StagingInv, NEW i \in Ids, Holding("scan"), i \in lock.gone, acked[i] # None
  PROVE  Keeps(i)
<1> USE DEF StagingInv
<1> DEFINE r == meta[i]
           new == [records EXCEPT ![i] = r]
<1>1. /\ records[i] = None /\ r # None
      /\ \A j \in Ids : /\ meta[j] \in metaKept[j] /\ (records[j] # None => records[j] = meta[j])
  BY ScanFacts DEF Contents
<1>2. r \in Record /\ RecOk(r) /\ Told(acked[i], r) /\ Prefix(part[i], r) # None
  BY <1>1, Typed DEF Contents, AckedKept
<1>3. Acceptable(r)
  BY <1>2 DEF Acceptable, RecOk, Told
<1>4. meta \in [Ids -> Record \cup {None}] /\ records \in [Ids -> Record \cup {None}]
  BY DEF TypeOK
<1>5. Fit(meta)
  <2>1. meta \in Leftovers
    BY <1>1, <1>4, LeftIs
  <2> QED
    BY <2>1 DEF Bounded
<1>6. new \in [Ids -> Record \cup {None}] /\ new[i] = r /\ \A j \in Ids : j # i => new[j] = records[j]
  BY <1>2, <1>4
<1>7. Fit(new)
  <2> HIDE DEF new
  <2>1. \A j \in Ids : new[j] # None => new[j] = meta[j]
    BY <1>1, <1>6
  <2>2. \A j \in Ids : new[j] # None => meta[j] # None /\ Len(new[j].digest) <= Len(meta[j].digest)
    <3> SUFFICES ASSUME NEW j \in Ids, new[j] # None
                 PROVE  meta[j] # None /\ Len(new[j].digest) <= Len(meta[j].digest)
      OBVIOUS
    <3>1. new[j] = meta[j] /\ meta[j] \in Record
      BY <1>4, <2>1
    <3>2. Len(meta[j].digest) \in Nat
      BY <3>1, RecordFacts
    <3> QED
      BY <3>1, <3>2
  <2> QED
    BY <1>4, <1>5, <1>6, <2>2, FitLess
<1>8. Sum(Lens(records)) + Len(r.digest) <= MAX_TOTAL + Len0(records[i]) /\ Cardinality(Has(records)) < MAX_RECORDS
  BY <1>1, <1>2, <1>4, <1>7, FitOne
<1>9. Len0(records[i]) = 0
  BY <1>1 DEF Len0
<1>10. Room(r)
  <2>1. Total + Len(r.digest) <= MAX_TOTAL
    BY <1>8, <1>9, SumsAre, BoundsAssumption
  <2> QED
    BY <1>8, <2>1 DEF Room
<1> QED
  BY <1>2, <1>3, <1>10 DEF Keeps

\* A record that does not pass is removed.
LEMMA ScanDropKeeps ==
  ASSUME StagingInv, NEW i \in Ids, ScanDrop(i)
  PROVE  StagingInv'
<1> USE DEF StagingInv
<1>1. /\ Holding("scan") /\ i \in lock.gone /\ ~Keeps(i)
      /\ meta' = [meta EXCEPT ![i] = None] /\ metaKept' = [metaKept EXCEPT ![i] = @ \cup {None}]
      /\ lock' = [lock EXCEPT !.at = "unpart", !.victim = i]
      /\ UNCHANGED <<part, partKept, damaged, acked, records, claimed, failed, claim, up, faults>>
  BY DEF ScanDrop
<1>2. /\ lock # None /\ lock \in Lock /\ lock.at = "scan" /\ lock.who = None /\ lock.gone \in SUBSET Ids
      /\ ~up /\ ~failed /\ Leases = {}
      /\ \A c \in Claims : claim[c] = None
      /\ \A j \in Ids : /\ claimed[j] = None /\ metaKept[j] = {meta[j]}
                        /\ j \in lock.gone => records[j] = None /\ partKept[j] = {part[j]} /\ meta[j] # None
                        /\ j \notin lock.gone => records[j] = meta[j]
  BY <1>1, ScanFacts
<1>3. acked[i] = None
  BY <1>1, AckedPasses
<1>4. /\ lock' \in Lock /\ lock' # None
      /\ lock'.at = "unpart" /\ lock'.victim = i /\ lock'.who = None /\ lock'.gone = lock.gone
      /\ lock'.rec = lock.rec
  <2>1. lock' \in Lock
    BY <1>1, <1>2 DEF Lock, Phases
  <2> QED
    BY <1>1, <1>2, <2>1, RecordsAssumption DEF Lock
<1>5. /\ meta' \in [Ids -> Record \cup {None}] /\ metaKept' \in [Ids -> SUBSET (Record \cup {None})]
      /\ meta'[i] = None /\ metaKept'[i] = metaKept[i] \cup {None}
      /\ \A j \in Ids : j # i => meta'[j] = meta[j] /\ metaKept'[j] = metaKept[j]
  BY <1>1 DEF TypeOK
<1>6. TypeOK'
  BY <1>1, <1>4, <1>5 DEF TypeOK
<1>7. Callers' /\ OneWriter' /\ CallerAgrees'
  BY <1>1, <1>2 DEF Callers, OneWriter, CallerAgrees, Leases
<1>8. Holder'
  BY <1>1, <1>2, <1>4, <1>5 DEF Holder
<1>9. Contents'
  BY <1>1, <1>5 DEF Contents
<1>10. InStep'
  BY <1>1, <1>2 DEF InStep
<1>11. Down'
  <2>1. Scanning'
    <3> SUFFICES ASSUME NEW j \in Ids
                 PROVE  /\ j \in lock.gone => records[j] = None /\ partKept[j] = {part[j]}
                        /\ j \notin lock.gone => records[j] = meta'[j]
                        /\ j = i \/ metaKept'[j] = {meta'[j]}
                        /\ j \in lock.gone => (meta'[j] = None <=> j = i)
      BY <1>1, <1>4 DEF Scanning, Removing
    <3> QED
      BY <1>1, <1>2, <1>5
  <2> QED
    BY <1>1, <1>2, <1>4, <2>1 DEF Down
<1>12. Bounded'
  <2> SUFFICES ASSUME NEW j \in Ids, NEW m \in metaKept'[j], m # None
               PROVE  \E n \in metaKept[j] : n # None /\ Len(m.digest) <= Len(n.digest)
    BY <1>6, BoundedLess
  <2>1. m \in metaKept[j] /\ m \in Record
    BY <1>5, Typed
  <2> QED
    BY <2>1, RecordFacts
<1>13. Standing'
  BY <1>1 DEF Standing
<1>14. AckedKept'
  BY <1>1, <1>3, <1>5 DEF AckedKept
<1>15. Reserved'
  BY <1>1 DEF Reserved
<1> QED
  BY <1>6, <1>7, <1>8, <1>9, <1>10, <1>11, <1>12, <1>13, <1>14, <1>15

\* The orphans are swept, and the burrow is up.
LEMMA EndOpenKeeps ==
  ASSUME StagingInv, EndOpen
  PROVE  StagingInv'
<1> USE DEF StagingInv
<1> DEFINE orphans == {i \in Ids : records[i] = None /\ part[i] # None}
<1>1. /\ Holding("scan") /\ lock.gone = {}
      /\ part' = [i \in Ids |-> IF i \in orphans THEN None ELSE part[i]]
      /\ partKept' = [i \in Ids |-> IF i \in orphans THEN partKept[i] \cup {None} ELSE partKept[i]]
      /\ lock' = None /\ up' = TRUE
      /\ UNCHANGED <<meta, metaKept, damaged, acked, records, claimed, failed, claim, faults>>
  BY DEF EndOpen
<1>2. /\ ~failed /\ \A c \in Claims : claim[c] = None
      /\ \A j \in Ids : metaKept[j] = {meta[j]} /\ records[j] = meta[j]
  BY <1>1, ScanFacts
<1>3. \A j \in Ids : /\ j \in orphans => part'[j] = None /\ partKept'[j] = partKept[j] \cup {None}
                     /\ j \notin orphans => part'[j] = part[j] /\ partKept'[j] = partKept[j]
                     /\ j \in orphans => records[j] = None
  BY <1>1
<1>4. TypeOK'
  <2>1. part' \in [Ids -> Content \cup {None}] /\ partKept' \in [Ids -> SUBSET (Content \cup {None})]
    BY <1>1 DEF TypeOK
  <2> QED
    BY <1>1, <2>1 DEF TypeOK
<1> HIDE DEF orphans
<1>5. Callers' /\ OneWriter' /\ CallerAgrees'
  BY <1>1, <1>2 DEF Callers, OneWriter, CallerAgrees, Leases
<1>6. Holder'
  BY <1>1 DEF Holder
<1>7. Contents'
  <2> SUFFICES ASSUME NEW j \in Ids
               PROVE  /\ part'[j] \in partKept'[j]
                      /\ \A p \in partKept'[j] : p # None => Len(p) <= MAX_FILE
                      /\ records[j] # None /\ part'[j] # None => Len(part'[j]) >= Len(records[j].digest)
    BY <1>1 DEF Contents
  <2> QED
    BY <1>3 DEF Contents
<1>8. InStep' /\ Down'
  BY <1>1, <1>2 DEF InStep, Down
<1>9. Bounded'
  BY <1>1 DEF Bounded, Leftovers
<1>10. Standing'
  BY <1>1, <1>3 DEF Standing
<1>11. AckedKept'
  <2>1. \A j \in Ids : acked[j] # None => records[j] # None
    BY <1>2 DEF AckedKept, Told
  <2> QED
    BY <1>1, <1>3, <2>1 DEF AckedKept
<1>12. Reserved'
  BY <1>1 DEF Reserved
<1> QED
  BY <1>4, <1>5, <1>6, <1>7, <1>8, <1>9, <1>10, <1>11, <1>12
-----------------------------------------------------------------------------
(* What goes wrong.                                                        *)

\* Faults are counted.
LEMMA FaultType ==
  ASSUME TypeOK, Fault
  PROVE  faults' \in 0..MaxFaults
BY BoundsAssumption DEF TypeOK, Fault

\* The process stops, and something is left of the directory.
LEMMA StoppedKeeps ==
  ASSUME StagingInv, Stopped,
         meta' \in [Ids -> Record \cup {None}], metaKept' \in [Ids -> SUBSET (Record \cup {None})],
         part' \in [Ids -> Content \cup {None}], partKept' \in [Ids -> SUBSET (Content \cup {None})],
         \A i \in Ids : /\ meta'[i] \in metaKept[i] /\ metaKept'[i] = {meta'[i]}
                        /\ part'[i] \in partKept[i] /\ partKept'[i] = {part'[i]}
  PROVE  StagingInv'
<1> USE DEF StagingInv
<1>1. /\ Fault /\ up' = FALSE /\ lock' = None /\ failed' = FALSE
      /\ records' = [i \in Ids |-> None] /\ claimed' = [i \in Ids |-> None]
      /\ claim' = [c \in Claims |-> None] /\ UNCHANGED <<damaged, acked>>
  BY DEF Stopped
<1>2. /\ \A i \in Ids : records'[i] = None /\ claimed'[i] = None
      /\ \A c \in Claims : claim'[c] = None
  BY <1>1
<1>3. TypeOK'
  <2>1. faults' \in 0..MaxFaults
    BY <1>1, FaultType
  <2> QED
    BY <1>1, <2>1 DEF TypeOK
<1>4. Callers' /\ OneWriter' /\ CallerAgrees'
  BY <1>2 DEF Callers, OneWriter, CallerAgrees, Leases
<1>5. Holder' /\ InStep'
  BY <1>1 DEF Holder, InStep
<1>6. Contents'
  BY <1>2 DEF Contents
<1>7. Down'
  BY <1>1, <1>2 DEF Down, AtRest
<1>8. Bounded'
  <2> SUFFICES ASSUME NEW j \in Ids, NEW m \in metaKept'[j], m # None
               PROVE  \E n \in metaKept[j] : n # None /\ Len(m.digest) <= Len(n.digest)
    BY <1>3, BoundedLess
  <2>1. m \in metaKept[j] /\ m \in Record
    BY Typed
  <2> QED
    BY <2>1, RecordFacts
<1>9. Standing'
  BY <1>2 DEF Standing
<1>10. AckedKept'
  BY <1>1, KeptShrinks
<1>11. Reserved'
  <2>1. Sum(Taken(records', claimed')) <= MAX_TOTAL
    <3>1. /\ records \in [Ids -> Record \cup {None}] /\ claimed \in [Ids -> (0..MAX_FILE) \cup {None}]
          /\ records' \in [Ids -> Record \cup {None}] /\ claimed' \in [Ids -> (0..MAX_FILE) \cup {None}]
      BY <1>3 DEF TypeOK
    <3>2. Sum(Taken(records, claimed)) <= MAX_TOTAL
      BY DEF Reserved
    <3> HIDE DEF StagingInv
    <3> QED
      BY <1>2, <3>1, <3>2, TakenLess
  <2> QED
    BY <1>2, <2>1 DEF Reserved
<1> QED
  BY <1>3, <1>4, <1>5, <1>6, <1>7, <1>8, <1>9, <1>10, <1>11

\* The process is killed.
LEMMA KillKeeps ==
  ASSUME StagingInv, Kill
  PROVE  StagingInv'
<1>1. /\ Stopped /\ metaKept' = Synced(meta) /\ partKept' = Synced(part) /\ UNCHANGED <<meta, part>>
  BY DEF Kill
<1>2. /\ meta \in [Ids -> Record \cup {None}] /\ part \in [Ids -> Content \cup {None}]
      /\ \A i \in Ids : meta[i] \in metaKept[i] /\ part[i] \in partKept[i]
  BY DEF StagingInv, TypeOK, Contents
<1>3. metaKept' \in [Ids -> SUBSET (Record \cup {None})] /\ partKept' \in [Ids -> SUBSET (Content \cup {None})]
  BY <1>1, <1>2 DEF Synced
<1>4. \A i \in Ids : metaKept'[i] = {meta'[i]} /\ partKept'[i] = {part'[i]}
  BY <1>1 DEF Synced
<1> QED
  BY <1>1, <1>2, <1>3, <1>4, StoppedKeeps

\* The machine loses power.
LEMMA PowerLossKeeps ==
  ASSUME StagingInv, PowerLoss
  PROVE  StagingInv'
<1>1. Stopped
  BY DEF PowerLoss
<1>2. PICK m \in [Ids -> UNION {metaKept[i] : i \in Ids}], p \in [Ids -> UNION {partKept[i] : i \in Ids}] :
        /\ \A i \in Ids : m[i] \in metaKept[i] /\ p[i] \in partKept[i]
        /\ meta' = m /\ metaKept' = [i \in Ids |-> {m[i]}]
        /\ part' = p /\ partKept' = [i \in Ids |-> {p[i]}]
  BY DEF PowerLoss
<1>3. /\ \A i \in Ids : metaKept[i] \in SUBSET (Record \cup {None})
      /\ \A i \in Ids : partKept[i] \in SUBSET (Content \cup {None})
  BY DEF StagingInv, TypeOK
<1>4. m \in [Ids -> Record \cup {None}] /\ p \in [Ids -> Content \cup {None}]
  <2>1. /\ \A i \in Ids : m[i] \in Record \cup {None}
        /\ \A i \in Ids : p[i] \in Content \cup {None}
    BY <1>2, <1>3
  <2>2. m = [i \in Ids |-> m[i]] /\ p = [i \in Ids |-> p[i]]
    OBVIOUS
  <2> QED
    BY <2>1, <2>2
<1>5. metaKept' \in [Ids -> SUBSET (Record \cup {None})] /\ partKept' \in [Ids -> SUBSET (Content \cup {None})]
  BY <1>2, <1>4
<1> QED
  BY <1>1, <1>2, <1>4, <1>5, StoppedKeeps

\* A record whose time is up is otherwise what it was.
LEMMA AgedFacts ==
  ASSUME NEW r \in Record \cup {None}
  PROVE  /\ Aged(r) \in Record \cup {None} /\ (Aged(r) = None <=> r = None)
         /\ r # None => Aged(r).digest = r.digest /\ Aged(r).offer = r.offer
<1>1. CASE r = None
  BY <1>1 DEF Aged
<1>2. CASE r # None
  <2>1. r \in Record /\ Aged(r) = [r EXCEPT !.stale = TRUE]
    BY <1>2 DEF Aged
  <2>2. Aged(r) \in Record /\ Aged(r).digest = r.digest /\ Aged(r).offer = r.offer
    BY <2>1 DEF Record
  <2> QED
    BY <1>2, <2>2, RecordsAssumption
<1> QED
  BY <1>1, <1>2

\* The time of a record is up.
LEMMA AgeKeeps ==
  ASSUME StagingInv, NEW i \in Ids, Age(i)
  PROVE  StagingInv'
<1> USE DEF StagingInv
<1>1. /\ Fault /\ lock = None /\ meta' = [meta EXCEPT ![i] = Aged(meta[i])]
      /\ metaKept' = [metaKept EXCEPT ![i] = {Aged(r) : r \in metaKept[i]}]
      /\ records' = [records EXCEPT ![i] = Aged(records[i])] /\ acked' = [acked EXCEPT ![i] = None]
      /\ UNCHANGED <<part, partKept, damaged, claimed, failed, lock, claim, up>>
  BY DEF Age
<1>2. /\ meta \in [Ids -> Record \cup {None}] /\ metaKept \in [Ids -> SUBSET (Record \cup {None})]
      /\ records \in [Ids -> Record \cup {None}] /\ acked \in [Ids -> Seq(Bytes) \cup {None}]
  BY DEF TypeOK
<1>3. \A r \in Record \cup {None} :
        /\ Aged(r) \in Record \cup {None} /\ (Aged(r) = None <=> r = None)
        /\ r # None => Aged(r).digest = r.digest /\ Aged(r).offer = r.offer
  BY AgedFacts
<1>4. /\ meta'[i] = Aged(meta[i]) /\ metaKept'[i] = {Aged(r) : r \in metaKept[i]}
      /\ records'[i] = Aged(records[i]) /\ acked'[i] = None
      /\ \A j \in Ids : j # i => /\ meta'[j] = meta[j] /\ metaKept'[j] = metaKept[j]
                                 /\ records'[j] = records[j] /\ acked'[j] = acked[j]
  BY <1>1, <1>2
<1>5. TypeOK'
  <2>1. /\ meta' \in [Ids -> Record \cup {None}] /\ records' \in [Ids -> Record \cup {None}]
        /\ acked' \in [Ids -> Seq(Bytes) \cup {None}]
    BY <1>1, <1>2, <1>3
  <2>2. metaKept' \in [Ids -> SUBSET (Record \cup {None})]
    BY <1>1, <1>2, <1>3
  <2>3. faults' \in 0..MaxFaults
    BY <1>1, FaultType
  <2> QED
    BY <1>1, <2>1, <2>2, <2>3 DEF TypeOK
<1>6. \A j \in Ids : /\ records'[j] = None <=> records[j] = None
                     /\ records[j] # None => records'[j].digest = records[j].digest
  BY <1>2, <1>3, <1>4
<1>7. Callers' /\ OneWriter' /\ Holder'
  BY <1>1 DEF Callers, OneWriter, Leases, Holder
<1>8. CallerAgrees'
  <2>1. \A c \in Leases : claim[c].id \in Ids
    BY Typed DEF Leases
  <2> QED
    BY <1>1, <1>6, <2>1 DEF CallerAgrees, Leases
<1>9. \A r \in Record : RecOk(r) => RecOk(Aged(r))
  BY <1>3, RecordFacts DEF RecOk
<1>10. Contents'
  <2> SUFFICES ASSUME NEW j \in Ids
               PROVE  /\ meta'[j] \in metaKept'[j]
                      /\ \A m \in metaKept'[j] : m # None => RecOk(m)
                      /\ records'[j] # None => RecOk(records'[j])
                      /\ records'[j] # None /\ part[j] # None => Len(part[j]) >= Len(records'[j].digest)
    BY <1>1 DEF Contents
  <2>1. /\ meta[j] \in metaKept[j]
        /\ \A m \in metaKept[j] : m # None => RecOk(m)
        /\ records[j] # None => RecOk(records[j])
        /\ records[j] # None /\ part[j] # None => Len(part[j]) >= Len(records[j].digest)
    BY DEF Contents
  <2>2. CASE j = i
    <3>1. records'[j] # None => RecOk(records'[j])
      BY <1>2, <1>3, <1>4, <1>9, <2>1, <2>2
    <3>2. \A m \in metaKept'[j] : m # None => RecOk(m)
      BY <1>2, <1>3, <1>4, <1>9, <2>1, <2>2
    <3>3. meta'[j] \in metaKept'[j]
      BY <1>4, <2>1, <2>2
    <3>4. records'[j] # None /\ part[j] # None => Len(part[j]) >= Len(records'[j].digest)
      BY <1>6, <2>1
    <3> QED
      BY <3>1, <3>2, <3>3, <3>4
  <2>3. CASE j # i
    BY <1>4, <2>1, <2>3
  <2> QED
    BY <2>2, <2>3
<1>11. InStep'
  <2> SUFFICES ASSUME up, ~failed, NEW j \in Ids
               PROVE  meta'[j] = records'[j] /\ metaKept'[j] = {records'[j]}
    BY <1>1 DEF InStep
  <2>1. meta[j] = records[j] /\ metaKept[j] = {records[j]}
    BY <1>1 DEF InStep, Removing, Writing
  <2> QED
    BY <1>4, <2>1
<1>12. Down'
  <2> SUFFICES ASSUME ~up, NEW j \in Ids
               PROVE  records'[j] = None /\ metaKept'[j] = {meta'[j]} /\ partKept[j] = {part[j]}
    BY <1>1 DEF Down, AtRest
  <2>1. records[j] = None /\ metaKept[j] = {meta[j]} /\ partKept[j] = {part[j]}
    BY <1>1 DEF Down, AtRest
  <2> QED
    BY <1>4, <1>6, <2>1
<1>13. Bounded'
  <2> SUFFICES ASSUME NEW j \in Ids, NEW m \in metaKept'[j], m # None
               PROVE  \E n \in metaKept[j] : n # None /\ Len(m.digest) <= Len(n.digest)
    BY <1>5, BoundedLess
  <2>1. PICK n \in metaKept[j] : n # None /\ m.digest = n.digest
    BY <1>2, <1>3, <1>4
  <2>2. n \in Record
    BY <2>1, Typed
  <2>3. Len(n.digest) \in Nat
    BY <2>2, RecordFacts
  <2> QED
    BY <2>1, <2>3
<1>14. Standing'
  <2> SUFFICES ASSUME NEW j \in Ids, records'[j] # None, j \notin damaged, NEW p \in partKept[j]
               PROVE  Prefix(p, records'[j]) # None
    BY <1>1 DEF Standing
  <2>1. records[j] # None /\ records'[j].digest = records[j].digest
    BY <1>6
  <2>2. Prefix(p, records[j]) # None
    BY <2>1 DEF Standing
  <2>3. records[j] \in Record /\ records'[j] \in Record
    BY <1>2, <1>5, <2>1 DEF TypeOK
  <2> QED
    BY <2>1, <2>2, <2>3, SameFacts
<1>15. AckedKept'
  BY <1>1, <1>4 DEF AckedKept
<1>16. Reserved'
  <2>1. Sum(Taken(records', claimed)) <= MAX_TOTAL
    <3>1. claimed \in [Ids -> (0..MAX_FILE) \cup {None}] /\ records' \in [Ids -> Record \cup {None}]
      BY <1>5 DEF TypeOK
    <3>2. Sum(Taken(records, claimed)) <= MAX_TOTAL
      BY DEF Reserved
    <3>3. \A j \in Ids : records'[j] # None =>
            records[j] # None /\ Len(records'[j].digest) = Len(records[j].digest) /\ claimed[j] = claimed[j]
      BY <1>6
    <3> HIDE DEF StagingInv
    <3> QED
      BY <1>2, <3>1, <3>2, <3>3, TakenLess
  <2>2. Sum(Taken(records', claimed')) <= MAX_TOTAL
    BY <1>1, <2>1
  <2> QED
    BY <1>1, <1>6, <2>2 DEF Reserved
<1> QED
  BY <1>5, <1>7, <1>8, <1>10, <1>11, <1>12, <1>13, <1>14, <1>15, <1>16

\* Somebody else removes the bytes, or changes them.
LEMMA DamageKeeps ==
  ASSUME StagingInv, NEW i \in Ids, Damage(i)
  PROVE  StagingInv'
<1> USE DEF StagingInv
<1>1. /\ Fault /\ lock = None /\ part[i] # None
      /\ damaged' = damaged \cup {i} /\ acked' = [acked EXCEPT ![i] = None]
      /\ UNCHANGED <<meta, metaKept, records, claimed, failed, lock, claim, up>>
  BY DEF Damage
<1>2. PICK p \in {None, [k \in 1..Len(part[i]) |-> Foreign]} :
        part' = [part EXCEPT ![i] = p] /\ partKept' = [partKept EXCEPT ![i] = {p}]
  BY DEF Damage
<1>3. part[i] \in Content /\ Len(part[i]) \in Nat
  <2>1. part[i] \in Content
    BY <1>1, Typed
  <2> QED
    BY <2>1 DEF Content
<1>4. p \in Content \cup {None} /\ (p # None => Len(p) = Len(part[i]))
  <2> DEFINE other == [k \in 1..Len(part[i]) |-> Foreign]
  <2>1. other \in Seq(Bytes \cup {Foreign}) /\ Len(other) = Len(part[i])
    BY <1>3
  <2> HIDE DEF other
  <2> QED
    BY <1>2, <2>1 DEF Content, other
<1>5. /\ part' \in [Ids -> Content \cup {None}] /\ partKept' \in [Ids -> SUBSET (Content \cup {None})]
      /\ acked' \in [Ids -> Seq(Bytes) \cup {None}]
      /\ part'[i] = p /\ partKept'[i] = {p} /\ acked'[i] = None
      /\ \A j \in Ids : j # i => part'[j] = part[j] /\ partKept'[j] = partKept[j] /\ acked'[j] = acked[j]
  BY <1>1, <1>2, <1>4 DEF TypeOK
<1>6. TypeOK'
  <2>1. faults' \in 0..MaxFaults
    BY <1>1, FaultType
  <2> QED
    BY <1>1, <1>5, <2>1 DEF TypeOK
<1>7. Callers' /\ OneWriter' /\ Holder' /\ CallerAgrees'
  BY <1>1 DEF Callers, OneWriter, CallerAgrees, Leases, Holder
<1>8. Contents'
  <2> SUFFICES ASSUME NEW j \in Ids
               PROVE  /\ part'[j] \in partKept'[j]
                      /\ \A q \in partKept'[j] : q # None => Len(q) <= MAX_FILE
                      /\ records[j] # None /\ part'[j] # None => Len(part'[j]) >= Len(records[j].digest)
    BY <1>1 DEF Contents
  <2>1. CASE j = i
    BY <1>1, <1>4, <1>5, <2>1 DEF Contents
  <2>2. CASE j # i
    BY <1>5, <2>2 DEF Contents
  <2> QED
    BY <2>1, <2>2
<1>9. InStep'
  BY <1>1 DEF InStep, Removing, Writing
<1>10. Down'
  <2> SUFFICES ASSUME ~up, NEW j \in Ids
               PROVE  records[j] = None /\ metaKept[j] = {meta[j]} /\ partKept'[j] = {part'[j]}
    BY <1>1 DEF Down, AtRest
  <2> QED
    BY <1>1, <1>5 DEF Down, AtRest
<1>11. Bounded'
  BY <1>1 DEF Bounded, Leftovers
<1>12. Standing'
  BY <1>1, <1>5 DEF Standing
<1>13. AckedKept'
  BY <1>1, <1>5 DEF AckedKept
<1>14. Reserved'
  BY <1>1 DEF Reserved
<1> QED
  BY <1>6, <1>7, <1>8, <1>9, <1>10, <1>11, <1>12, <1>13, <1>14
-----------------------------------------------------------------------------
(* The theorems.                                                           *)

\* It holds of an empty directory.
LEMMA InvInit ==
  ASSUME Init
  PROVE  StagingInv
<1> USE DEF Init
<1>1. /\ \A i \in Ids : /\ meta[i] = None /\ metaKept[i] = {None} /\ part[i] = None /\ partKept[i] = {None}
                        /\ acked[i] = None /\ records[i] = None /\ claimed[i] = None
      /\ \A c \in Claims : claim[c] = None
      /\ lock = None /\ up /\ ~failed /\ damaged = {}
  OBVIOUS
<1>2. TypeOK
  <2>1. /\ meta \in [Ids -> Record \cup {None}] /\ metaKept \in [Ids -> SUBSET (Record \cup {None})]
        /\ part \in [Ids -> Content \cup {None}] /\ partKept \in [Ids -> SUBSET (Content \cup {None})]
    OBVIOUS
  <2>2. /\ acked \in [Ids -> Seq(Bytes) \cup {None}] /\ records \in [Ids -> Record \cup {None}]
        /\ claimed \in [Ids -> (0..MAX_FILE) \cup {None}] /\ claim \in [Claims -> Claim \cup {None}]
    OBVIOUS
  <2>3. damaged \subseteq Ids /\ failed \in BOOLEAN /\ lock \in Lock \cup {None} /\ up \in BOOLEAN
    OBVIOUS
  <2>4. faults \in 0..MaxFaults
    BY BoundsAssumption
  <2> QED
    BY <2>1, <2>2, <2>3, <2>4 DEF TypeOK
<1>3. Callers /\ OneWriter /\ CallerAgrees /\ Holder
  BY <1>1 DEF Callers, OneWriter, CallerAgrees, Leases, Holder
<1>4. Contents /\ InStep /\ Down /\ Standing /\ AckedKept
  BY <1>1 DEF Contents, InStep, Down, Standing, AckedKept
<1>5. records \in [Ids -> Record \cup {None}] /\ claimed \in [Ids -> (0..MAX_FILE) \cup {None}]
  BY <1>2 DEF TypeOK
<1>6. \A i \in Ids : Taken(records, claimed)[i] = 0 /\ Lens(records)[i] = 0
  BY <1>1 DEF Taken, Lens, Len0
<1>7. Sum(Taken(records, claimed)) = 0 /\ Sum(Lens(records)) = 0
  BY <1>5, <1>6, TakenType, LensType, SumZero
<1>8. Reserved
  BY <1>1, <1>7, BoundsAssumption DEF Reserved
<1>9. Fit(records)
  <2>1. Has(records) = {}
    BY <1>1 DEF Has
  <2> QED
    BY <1>7, <2>1, FS_EmptySet, BoundsAssumption DEF Fit
<1>10. Bounded
  <2> SUFFICES ASSUME NEW f \in Leftovers PROVE Fit(f)
    BY DEF Bounded
  <2>1. f \in [Ids -> Record \cup {None}] /\ \A i \in Ids : f[i] = None
    BY <1>1, <1>2, LeftIs
  <2>2. f = records
    BY <1>1, <1>5, <2>1
  <2> QED
    BY <1>9, <2>2
<1> QED
  BY <1>2, <1>3, <1>4, <1>8, <1>10 DEF StagingInv

\* What a caller asks for, gives up or is refused.
LEMMA CallerKeeps ==
  ASSUME StagingInv, NEW c \in Claims,
         \/ \E i \in Ids \ HotlineIds, o \in Offers : ZmodemClaim(c, i, o)
         \/ \E i \in HotlineIds, resume \in BOOLEAN, declared \in Declared :
              HotlineClaim(c, i, resume, declared)
         \/ \E b \in Bytes : RequestAppend(c, b)
         \/ \E n \in 1..MAX_FILE : RequestBind(c, n)
         \/ RequestDiscard(c) \/ DropCaller(c) \/ JobGone(c)
         \/ BeginAppend(c) \/ BindLength(c) \/ RefuseJob(c) \/ BeginDiscard(c)
  PROVE  StagingInv'
<1>1. ASSUME NEW i \in Ids \ HotlineIds, NEW o \in Offers, ZmodemClaim(c, i, o) PROVE StagingInv'
  <2> DEFINE cap == IF o.length = None THEN MAX_FILE ELSE o.length
  <2>1. o \in Offer
    BY OffersAssumption
  <2>2. cap \in 0..MAX_FILE
    BY <1>1, <2>1, BoundsAssumption DEF ZmodemClaim, Offer, Lengths
  <2>3. BeginClaim(c, i, o, TRUE, cap)
    BY <1>1 DEF ZmodemClaim
  <2> HIDE DEF cap
  <2> QED
    BY <2>1, <2>2, <2>3, BeginClaimKeeps
<1>2. ASSUME NEW i \in HotlineIds, NEW resume \in BOOLEAN, NEW declared \in Declared,
             HotlineClaim(c, i, resume, declared)
      PROVE  StagingInv'
  <2> DEFINE cap == IF resume THEN MAX_FILE ELSE declared
  <2>1. NoOffer \in Offer /\ i \in Ids
    BY IdsAssumption DEF NoOffer, Offer, Lengths
  <2>2. cap \in 0..MAX_FILE
    <3>1. declared \in 0..MAX_FILE /\ MAX_FILE \in 0..MAX_FILE
      BY OffersAssumption, BoundsAssumption
    <3> QED
      BY <3>1
  <2>3. BeginClaim(c, i, NoOffer, resume, cap)
    BY <1>2 DEF HotlineClaim
  <2> HIDE DEF cap
  <2> QED
    BY <2>1, <2>2, <2>3, BeginClaimKeeps
<1>3. ASSUME NEW b \in Bytes, RequestAppend(c, b) PROVE StagingInv'
  BY <1>3, RequestKeeps DEF RequestAppend
<1>4. ASSUME NEW n \in 1..MAX_FILE, RequestBind(c, n) PROVE StagingInv'
  <2>1. n \in Bytes \cup Lengths
    BY BoundsAssumption DEF Lengths
  <2> QED
    BY <1>4, <2>1, RequestKeeps DEF RequestBind
<1>5. CASE RequestDiscard(c)
  <2>1. None \in Bytes \cup Lengths
    BY DEF Lengths
  <2> QED
    BY <1>5, <2>1, RequestKeeps DEF RequestDiscard
<1>6. CASE DropCaller(c)
  <2>1. claim[c] # None /\ UNCHANGED <<diskVars, records, failed, lock, up, faults>>
    BY <1>6 DEF DropCaller
  <2>2. CASE claim[c].job = "none"
    BY <1>6, <2>1, <2>2, ReleaseKeeps DEF DropCaller
  <2>3. CASE claim[c].job # "none"
    BY <1>6, <2>1, <2>3, DropKeeps DEF DropCaller
  <2> QED
    BY <2>2, <2>3
<1>7. CASE JobGone(c)
  BY <1>7, ReleaseKeeps DEF JobGone, Leases
<1>8. CASE BeginAppend(c)
  BY <1>8, BeginAppendKeeps
<1>9. CASE BindLength(c)
  BY <1>9, BindLengthKeeps
<1>10. CASE RefuseJob(c)
  <2>1. /\ Running(c, "append") \/ Running(c, "bind")
        /\ Settle(c, "none", FALSE, claim[c].data)
        /\ UNCHANGED <<diskVars, records, claimed, failed, lock, up, faults>>
    BY <1>10 DEF RefuseJob
  <2> QED
    BY <2>1, AnswerKeeps
<1>11. CASE BeginDiscard(c)
  BY <1>11, BeginDiscardKeeps
<1> QED
  BY <1>1, <1>2, <1>3, <1>4, <1>5, <1>6, <1>7, <1>8, <1>9, <1>10, <1>11

\* Every step keeps it.
LEMMA InvStep ==
  ASSUME StagingInv, [Next]_vars
  PROVE  StagingInv'
<1>1. CASE UNCHANGED vars
  <2>1. UNCHANGED <<diskVars, records, claimed, failed, lock, claim, up, faults>>
    BY <1>1 DEF vars
  <2>2. claim' \in [Claims -> Claim \cup {None}] /\ faults' \in 0..MaxFaults
    BY <2>1 DEF StagingInv, TypeOK
  <2>3. \A d \in Claims : claim[d] # None =>
          /\ claim[d].job = "append" => claim[d].arg \in Bytes
          /\ claim[d].job = "bind" => claim[d].arg \in 1..MAX_FILE
    BY DEF StagingInv, Callers
  <2> QED
    BY <2>1, <2>2, <2>3, TalkKeeps
<1>2. ASSUME NEW i \in Ids, RemoveMeta(i) \/ ScanKeep(i) \/ ScanDrop(i) \/ Age(i) \/ Damage(i)
      PROVE  StagingInv'
  BY <1>2, RemoveMetaKeeps, ScanKeepKeeps, ScanDropKeeps, AgeKeeps, DamageKeeps
<1>3. CASE RemovePart \/ Refuse \/ Load \/ Reset \/ MakePart \/ PutMeta \/ Finish
  BY <1>3, RemovePartKeeps, RefuseKeeps, LoadKeeps, ResetKeeps, MakePartKeeps, PutMetaKeeps, FinishKeeps
<1>4. CASE WritePart \/ EndDiscard \/ BeginOpen \/ EndOpen \/ Fail \/ Kill \/ PowerLoss
  BY <1>4, WritePartKeeps, EndDiscardKeeps, BeginOpenKeeps, EndOpenKeeps, FailKeeps, KillKeeps, PowerLossKeeps
<1>5. ASSUME NEW c \in Claims,
             \/ \E i \in Ids \ HotlineIds, o \in Offers : ZmodemClaim(c, i, o)
             \/ \E i \in HotlineIds, resume \in BOOLEAN, declared \in Declared :
                  HotlineClaim(c, i, resume, declared)
             \/ \E b \in Bytes : RequestAppend(c, b)
             \/ \E n \in 1..MAX_FILE : RequestBind(c, n)
             \/ RequestDiscard(c) \/ DropCaller(c) \/ JobGone(c)
             \/ BeginAppend(c) \/ BindLength(c) \/ RefuseJob(c) \/ BeginDiscard(c)
      PROVE  StagingInv'
  BY <1>5, CallerKeeps
<1> QED
  BY <1>1, <1>2, <1>3, <1>4, <1>5 DEF Next

\* The invariant holds throughout: through every operation of the index, a
\* failed disk, a kill, a loss of power and the restart after it.
THEOREM StagingInductive == Spec => []StagingInv
<1>1. Init => StagingInv
  BY InvInit
<1>2. StagingInv /\ [Next]_vars => StagingInv'
  BY InvStep
<1> QED
  BY <1>1, <1>2, PTL DEF Spec

\* claim, append, bind and Drop for Claim: no two callers have the lease of
\* one destination, and what a caller holds is what is recorded.
THEOREM LeasesStand == Spec => []LeasesSound
<1>1. StagingInv => LeasesSound
  BY DEF StagingInv, LeasesSound
<1> QED
  BY <1>1, StagingInductive, PTL

\* write_record, append, remove_files and Staging::open: what a sender was told
\* is kept survives a kill or a loss of power at any moment.
THEOREM AckedLasts == Spec => []AckedSurvives
<1>1. StagingInv => AckedSurvives
  BY DEF StagingInv, AckedKept, AckedSurvives, Told
<1> QED
  BY <1>1, StagingInductive, PTL

\* claim and append: the burrow never runs out of staging space under a claim
\* that was admitted.
THEOREM ReservationsStand == Spec => []ReservationHonoured
<1>1. StagingInv => ReservationHonoured
  BY SumsAre DEF StagingInv, Reserved
<1> QED
  BY <1>1, StagingInductive, PTL
=============================================================================
