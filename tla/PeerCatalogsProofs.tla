-------------------------- MODULE PeerCatalogsProofs --------------------------
(***************************************************************************)
(* PeerCatalogs, for any number of peers, links, changes and faults: what  *)
(* was revoked never returns, memory and file agree and the file can be    *)
(* read again, and the newest generation of a peer is never forgotten.     *)
(***************************************************************************)
EXTENDS PeerCatalogs, FiniteSetTheorems, WellFoundedInduction, TLAPS

Cache == [Keys -> PeerCatalog \cup {None}]

\* The peers whose payload a cache has.
Kept(f) == {k \in Keys : f[k] # None /\ f[k].signed # None}

-----------------------------------------------------------------------------
(* Numbers.                                                                *)

\* A set of natural numbers that is not empty has a least one.
LEMMA Least ==
  ASSUME NEW S \in SUBSET Nat, S # {}
  PROVE  \E n \in S : \A m \in S : n <= m
<1>1. PICK n \in S : \A m \in S : ~(<<m, n>> \in OpToRel(<, Nat))
  BY WFMin, NatLessThanWellFounded
<1>2. \A m \in S : m \in Nat /\ n \in Nat
  OBVIOUS
<1>3. \A m \in S : ~(m < n)
  BY <1>1, <1>2 DEF OpToRel
<1>4. \A m \in S : n <= m
  BY <1>2, <1>3
<1> QED
  BY <1>4

\* A finite set of natural numbers that is not empty has a greatest one: the
\* smallest set without one would still be without it if it lost a member.
LEMMA Greatest ==
  ASSUME NEW S \in SUBSET Nat, IsFiniteSet(S), S # {}
  PROVE  \E n \in S : \A m \in S : n >= m
<1> DEFINE Bad(T) == T # {} /\ IsFiniteSet(T) /\ ~\E n \in T : \A m \in T : n >= m
           Sizes == {Cardinality(T) : T \in {T \in SUBSET S : Bad(T)}}
<1> SUFFICES ASSUME Bad(S) PROVE FALSE
  OBVIOUS
<1>1. \A T \in SUBSET S : Bad(T) => Cardinality(T) \in Nat
  BY FS_CardinalityType
<1>2. Sizes \in SUBSET Nat /\ Sizes # {}
  BY <1>1
<1>3. PICK c \in Sizes : \A d \in Sizes : c <= d
  <2> HIDE DEF Sizes
  <2> QED
    BY <1>2, Least
<1>4. PICK T \in SUBSET S : Bad(T) /\ c = Cardinality(T)
  BY <1>3
<1>5. PICK x \in T : TRUE
  BY <1>4
<1> DEFINE U == T \ {x}
<1>6. IsFiniteSet(U) /\ Cardinality(U) = Cardinality(T) - 1 /\ Cardinality(T) \in Nat
  BY <1>1, <1>4, <1>5, FS_RemoveElement
<1>7. CASE Bad(U)
  <2>1. Cardinality(U) \in Sizes
    BY <1>7
  <2>2. Cardinality(T) <= Cardinality(U)
    BY <1>3, <1>4, <2>1
  <2> QED
    BY <1>6, <2>2
<1>8. CASE U = {}
  <2>1. T = {x} /\ x \in Nat
    BY <1>5, <1>8
  <2>2. \A m \in T : x >= m
    BY <2>1
  <2> QED
    BY <1>4, <1>5, <2>2
<1>9. CASE U # {} /\ ~Bad(U)
  <2>1. PICK n \in U : \A m \in U : n >= m
    BY <1>6, <1>9
  <2>2. n \in T /\ n \in Nat /\ x \in Nat /\ \A m \in T : m \in Nat /\ (m = x \/ m \in U)
    BY <1>5, <2>1
  <2>3. CASE n >= x
    <3>1. \A m \in T : n >= m
      BY <2>1, <2>2, <2>3
    <3> QED
      BY <1>4, <2>2, <3>1
  <2>4. CASE ~(n >= x)
    <3>1. \A m \in T : x >= m
      BY <2>1, <2>2, <2>4
    <3> QED
      BY <1>4, <1>5, <3>1
  <2> QED
    BY <2>3, <2>4
<1> QED
  BY <1>7, <1>8, <1>9

\* Max0 is above every number of a finite set.
LEMMA Max0Above ==
  ASSUME NEW S \in SUBSET Nat, IsFiniteSet(S)
  PROVE  Max0(S) \in Nat /\ \A n \in S : n <= Max0(S)
<1>1. CASE S = {}
  BY <1>1 DEF Max0
<1>2. CASE S # {}
  <2>1. \E x \in S : \A y \in S : x >= y
    BY <1>2, Greatest
  <2>2. Max(S) \in S /\ \A y \in S : Max(S) >= y
    BY <2>1, Zenon DEF Max
  <2>3. Max0(S) = Max(S)
    BY <1>2 DEF Max0
  <2> HIDE DEF Max
  <2> QED
    BY <2>2, <2>3
<1> QED
  BY <1>1, <1>2

-----------------------------------------------------------------------------
(* What is done to a cache.                                                *)

\* A cache that can be read again, whose payloads came one after the other.
Sound(f) ==
  /\ Cardinality(Kept(f)) <= MAX_CACHED_CATALOGS
  /\ \A k \in Kept(f) : f[k].signed.gen = f[k].gen
  /\ \A j, k \in Kept(f) : f[j].order = f[k].order => j = k

\* Its payloads are of the present approvals.
Fresh(f) == \A k \in Kept(f) : f[k].signed.epoch >= barred[k]

\* g has some of the payloads of f.
Thinner(g, f) ==
  \A k \in Kept(g) : /\ k \in Kept(f) /\ g[k].signed = f[k].signed
                     /\ g[k].gen = f[k].gen /\ g[k].order = f[k].order

\* What holds of a cache holds of one that has less.
LEMMA ThinnerSound ==
  ASSUME NEW f, NEW g, Thinner(g, f), Sound(f)
  PROVE  Sound(g)
<1>1. Kept(g) \subseteq Kept(f) /\ Kept(f) \subseteq Keys
  BY DEF Thinner, Kept
<1>2. IsFiniteSet(Kept(f)) /\ IsFiniteSet(Kept(g))
  BY <1>1, FS_Subset, PeersAssumption
<1>3. /\ Cardinality(Kept(g)) <= Cardinality(Kept(f))
      /\ Cardinality(Kept(g)) \in Nat /\ Cardinality(Kept(f)) \in Nat
  BY <1>1, <1>2, FS_Subset, FS_CardinalityType
<1>4. Cardinality(Kept(g)) <= MAX_CACHED_CATALOGS
  BY <1>3, BoundsAssumption DEF Sound
<1> QED
  BY <1>1, <1>4 DEF Sound, Thinner

\* ... the epochs too.
LEMMA ThinnerFresh ==
  ASSUME NEW f, NEW g, Thinner(g, f), Fresh(f)
  PROVE  Fresh(g)
BY DEF Thinner, Fresh

\* An entry without its payload has the rest,
LEMMA HiddenParts ==
  ASSUME NEW e \in PeerCatalog
  PROVE  /\ Hidden(e) \in PeerCatalog /\ Hidden(e) # None
         /\ Hidden(e).signed = None /\ Hidden(e).gen = e.gen /\ Hidden(e).order = e.order
         /\ Hidden(e).rev = e.rev /\ Hidden(e).origin = e.origin
<1>1. Hidden(e) \in PeerCatalog
  BY DEF Hidden, PeerCatalog
<1> QED
  BY <1>1, RecordsAssumption DEF Hidden, PeerCatalog

\* and so has one of another revision.
LEMMA RevParts ==
  ASSUME NEW e \in PeerCatalog, NEW r \in Nat, NEW w, w = [e EXCEPT !.rev = r]
  PROVE  /\ w \in PeerCatalog /\ w # None
         /\ w.signed = e.signed /\ w.gen = e.gen /\ w.order = e.order /\ w.origin = e.origin /\ w.rev = r
<1>1. w \in PeerCatalog
  BY DEF PeerCatalog
<1> QED
  BY <1>1, RecordsAssumption DEF PeerCatalog

\* The file has every entry with a generation, as it is.
LEMMA WrittenIs ==
  ASSUME NEW f \in Cache
  PROVE  /\ Written(f) \in Cache /\ Thinner(Written(f), f)
         /\ \A k \in Keys : f[k] # None /\ f[k].gen > 0
              => Written(f)[k] # None /\ Written(f)[k].gen = f[k].gen /\ Written(f)[k].signed = f[k].signed
<1>1. ASSUME NEW k \in Keys
      PROVE  /\ Written(f)[k] \in PeerCatalog \cup {None}
             /\ Written(f)[k] # None =>
                  /\ f[k] # None /\ Written(f)[k].signed = f[k].signed
                  /\ Written(f)[k].gen = f[k].gen /\ Written(f)[k].order = f[k].order
             /\ f[k] # None /\ f[k].gen > 0 =>
                  /\ Written(f)[k] # None
                  /\ Written(f)[k].gen = f[k].gen /\ Written(f)[k].signed = f[k].signed
  <2>1. Written(f)[k] = IF f[k] # None /\ f[k].gen > 0 THEN [f[k] EXCEPT !.rev = 0] ELSE None
    BY DEF Written
  <2>2. CASE f[k] # None /\ f[k].gen > 0
    <3>1. f[k] \in PeerCatalog /\ 0 \in Nat
      BY <2>2 DEF Cache
    <3>2. Written(f)[k] = [f[k] EXCEPT !.rev = 0]
      BY <2>1, <2>2
    <3> QED
      BY <2>2, <3>1, <3>2, RevParts
  <2>3. CASE ~(f[k] # None /\ f[k].gen > 0)
    BY <2>1, <2>3
  <2> QED
    BY <2>2, <2>3
<1>2. Written(f) = [k \in Keys |-> Written(f)[k]]
  BY DEF Written
<1>3. Written(f) \in Cache
  BY <1>1, <1>2 DEF Cache
<1>4. Thinner(Written(f), f)
  BY <1>1 DEF Thinner, Kept
<1> QED
  BY <1>1, <1>3, <1>4

\* The payloads trim leaves to a key's name: none, if enough are newer.
Newer(f, k) == {j \in Kept(f) : f[j].order > f[k].order}

\* Trim hides some payloads, and changes nothing else.
LEMMA TrimIs ==
  ASSUME NEW f \in Cache
  PROVE  /\ Trim(f) \in Cache /\ Thinner(Trim(f), f)
         /\ \A k \in Keys : Trim(f)[k] # None <=> f[k] # None
         /\ \A k \in Keys : f[k] # None => /\ Trim(f)[k].gen = f[k].gen /\ Trim(f)[k].rev = f[k].rev
                                           /\ Trim(f)[k].origin = f[k].origin
         /\ \A k \in Kept(Trim(f)) : ~(Cardinality(Newer(f, k)) >= MAX_CACHED_CATALOGS)
<1>1. ASSUME NEW k \in Keys
      PROVE  Trim(f)[k] = IF k \in Kept(f) /\ Cardinality(Newer(f, k)) >= MAX_CACHED_CATALOGS
                          THEN Hidden(f[k]) ELSE f[k]
  BY DEF Trim, Kept, Newer
<1>2. ASSUME NEW k \in Keys
      PROVE  /\ Trim(f)[k] \in PeerCatalog \cup {None}
             /\ Trim(f)[k] # None <=> f[k] # None
             /\ f[k] # None => /\ Trim(f)[k].gen = f[k].gen /\ Trim(f)[k].rev = f[k].rev
                               /\ Trim(f)[k].origin = f[k].origin /\ Trim(f)[k].order = f[k].order
             /\ k \in Kept(Trim(f)) => /\ Trim(f)[k] = f[k]
                                       /\ ~(Cardinality(Newer(f, k)) >= MAX_CACHED_CATALOGS)
  <2>1. CASE k \in Kept(f) /\ Cardinality(Newer(f, k)) >= MAX_CACHED_CATALOGS
    <3>1. f[k] \in PeerCatalog /\ f[k] # None
      BY <2>1 DEF Kept, Cache
    <3>2. Trim(f)[k] = Hidden(f[k])
      BY <1>1, <2>1
    <3> QED
      BY <3>1, <3>2, HiddenParts DEF Kept
  <2>2. CASE ~(k \in Kept(f) /\ Cardinality(Newer(f, k)) >= MAX_CACHED_CATALOGS)
    <3>1. Trim(f)[k] = f[k]
      BY <1>1, <2>2
    <3> QED
      BY <2>2, <3>1 DEF Kept, Cache
  <2> QED
    BY <2>1, <2>2
<1>3. Trim(f) = [k \in Keys |-> Trim(f)[k]]
  BY DEF Trim
<1>4. Trim(f) \in Cache
  <2> HIDE DEF Trim
  <2> QED
    BY <1>2, <1>3 DEF Cache
<1>5. Thinner(Trim(f), f)
  BY <1>2 DEF Thinner, Kept
<1>6. \A k \in Kept(Trim(f)) : k \in Keys
  BY DEF Kept
<1> QED
  BY <1>2, <1>4, <1>5, <1>6

\* What trim leaves is within the limit: all the others it leaves are newer
\* than the oldest.
LEMMA TrimLimit ==
  ASSUME NEW f \in Cache, \A j, k \in Kept(f) : f[j].order = f[k].order => j = k
  PROVE  Cardinality(Kept(Trim(f))) <= MAX_CACHED_CATALOGS
<1> DEFINE R == Kept(Trim(f))
<1>1. IsFiniteSet(R) /\ Cardinality(R) \in Nat /\ MAX_CACHED_CATALOGS \in Nat
  <2>1. R \subseteq Keys
    BY DEF Kept
  <2> QED
    BY <2>1, PeersAssumption, BoundsAssumption, FS_Subset, FS_CardinalityType
<1>2. CASE R = {}
  BY <1>1, <1>2, FS_EmptySet
<1>3. CASE R # {}
  <2>1. R \subseteq Kept(f) /\ \A k \in R : ~(Cardinality(Newer(f, k)) >= MAX_CACHED_CATALOGS)
    BY TrimIs DEF Thinner
  <2>2. \A k \in Kept(f) : f[k].order \in Nat
    BY DEF Kept, Cache, PeerCatalog
  <2> HIDE DEF R
  <2>3. {f[k].order : k \in R} \in SUBSET Nat /\ {f[k].order : k \in R} # {}
    BY <1>3, <2>1, <2>2
  <2>4. \E n \in {f[k].order : k \in R} : \A m \in {f[k].order : k \in R} : n <= m
    BY <2>3, Least
  <2>5. PICK k \in R : \A j \in R : f[k].order <= f[j].order
    BY <2>4
  <2>6. R \ {k} \subseteq Newer(f, k)
    BY <2>1, <2>2, <2>5 DEF Newer
  <2>7. IsFiniteSet(Newer(f, k)) /\ Cardinality(Newer(f, k)) \in Nat
    <3>1. Newer(f, k) \subseteq Keys
      BY DEF Newer, Kept
    <3> QED
      BY <3>1, PeersAssumption, FS_Subset, FS_CardinalityType
  <2>8. Cardinality(R \ {k}) <= Cardinality(Newer(f, k)) /\ Cardinality(R \ {k}) = Cardinality(R) - 1
    BY <1>1, <2>5, <2>6, <2>7, FS_Subset, FS_RemoveElement
  <2>9. Cardinality(Newer(f, k)) < MAX_CACHED_CATALOGS
    BY <1>1, <2>1, <2>5, <2>7
  <2> QED
    BY <1>1, <2>7, <2>8, <2>9 DEF R
<1> QED
  BY <1>2, <1>3

\* What a cache becomes by a catalog of k, of generation g and asked for in
\* epoch e: Stored, for any cache.
StoredIn(f, k, e, g) ==
  LET order == Max0({f[j].order : j \in {j \in Keys : f[j] # None}}) + 1 IN
  Trim([f EXCEPT ![k] = [@ EXCEPT !.gen = g, !.order = order, !.signed = [gen |-> g, epoch |-> e]]])

\* They are the same.
LEMMA StoredAs ==
  ASSUME NEW k, NEW fetch, NEW g
  PROVE  Stored(k, fetch, g) = StoredIn(peers, k, fetch.epoch, g)
BY DEF Stored, StoredIn

\* A catalog that is stored is the newest, at the cost of another's payload
\* perhaps; every other entry keeps its generation and its revision.
LEMMA StoredIs ==
  ASSUME peers \in Cache, Sound(peers),
         NEW k \in Keys, peers[k] # None, NEW fetch \in Fetch, NEW g \in Nat
  PROVE  /\ Stored(k, fetch, g) \in Cache /\ Sound(Stored(k, fetch, g))
         /\ \A j \in Kept(Stored(k, fetch, g)) :
              IF j = k THEN Stored(k, fetch, g)[j].signed.epoch = fetch.epoch
                       ELSE j \in Kept(peers) /\ Stored(k, fetch, g)[j].signed = peers[j].signed
         /\ \A j \in Keys : Stored(k, fetch, g)[j] # None <=> peers[j] # None
         /\ \A j \in Keys : peers[j] # None =>
              /\ Stored(k, fetch, g)[j].rev = peers[j].rev
              /\ Stored(k, fetch, g)[j].gen = IF j = k THEN g ELSE peers[j].gen
<1> DEFINE orders == {peers[j].order : j \in {j \in Keys : peers[j] # None}}
           order == Max0(orders) + 1
           signed == [gen |-> g, epoch |-> fetch.epoch]
           new == [peers[k] EXCEPT !.gen = g, !.order = order, !.signed = signed]
           f == [peers EXCEPT ![k] = new]
<1>1. orders \in SUBSET Nat /\ IsFiniteSet(orders)
  <2>1. \A j \in {j \in Keys : peers[j] # None} : peers[j].order \in Nat
    BY DEF Cache, PeerCatalog
  <2>2. IsFiniteSet({j \in Keys : peers[j] # None})
    BY PeersAssumption, FS_Subset
  <2>3. [j \in {j \in Keys : peers[j] # None} |-> peers[j].order]
           \in Surjection({j \in Keys : peers[j] # None}, orders)
    BY DEF Surjection
  <2> QED
    BY <2>1, <2>2, <2>3, FS_Surjection
<1>2. order \in Nat /\ \A j \in Keys : peers[j] # None => peers[j].order < order /\ peers[j].order \in Nat
  <2>1. Max0(orders) \in Nat /\ \A n \in orders : n <= Max0(orders)
    <3> HIDE DEF orders
    <3> QED
      BY <1>1, Max0Above
  <2>2. \A j \in Keys : peers[j] # None => peers[j].order \in orders
    OBVIOUS
  <2> HIDE DEF orders
  <2>3. ASSUME NEW j \in Keys, peers[j] # None
        PROVE  peers[j].order \in Nat /\ peers[j].order <= Max0(orders)
    BY <1>1, <2>1, <2>2, <2>3
  <2> QED
    BY <2>1, <2>3
<1>3. Stored(k, fetch, g) = Trim(f)
  BY DEF Stored
<1> HIDE DEF order
<1>4. signed \in Payload /\ signed # None /\ signed.gen = g /\ signed.epoch = fetch.epoch
  BY RecordsAssumption DEF Payload, Fetch
<1> HIDE DEF signed
<1>5. /\ new \in PeerCatalog /\ new # None /\ new.gen = g /\ new.order = order /\ new.signed = signed
      /\ new.rev = peers[k].rev
  <2>1. peers[k] \in PeerCatalog
    BY DEF Cache
  <2>2. new \in PeerCatalog
    BY <1>2, <1>4, <2>1 DEF PeerCatalog
  <2> QED
    BY <1>2, <1>4, <2>1, <2>2, RecordsAssumption DEF PeerCatalog
<1> HIDE DEF new
<1>6. f \in Cache /\ f[k] = new /\ \A j \in Keys : j # k => f[j] = peers[j]
  BY <1>5 DEF Cache
<1> HIDE DEF f
<1>7. \A i, j \in Kept(f) : f[i].order = f[j].order => i = j
  BY <1>2, <1>5, <1>6 DEF Sound, Kept
<1>8. \A j \in Kept(f) : f[j].signed.gen = f[j].gen
  BY <1>4, <1>5, <1>6 DEF Sound, Kept
<1>9. /\ Trim(f) \in Cache /\ Thinner(Trim(f), f)
      /\ \A j \in Keys : Trim(f)[j] # None <=> f[j] # None
      /\ \A j \in Keys : f[j] # None => Trim(f)[j].gen = f[j].gen /\ Trim(f)[j].rev = f[j].rev
  BY <1>6, TrimIs
<1>10. Sound(Trim(f))
  BY <1>6, <1>7, <1>8, <1>9, TrimLimit DEF Sound, Thinner
<1>11. \A j \in Kept(Trim(f)) : IF j = k THEN Trim(f)[j].signed.epoch = fetch.epoch
                                ELSE j \in Kept(peers) /\ Trim(f)[j].signed = peers[j].signed
  BY <1>4, <1>5, <1>6, <1>9 DEF Thinner, Kept
<1> QED
  BY <1>3, <1>5, <1>6, <1>9, <1>10, <1>11

\* begin_fetch leaves the entry of its peer for its origin, with the generation
\* it had, of a later revision unless it was for that origin already.
LEMMA EntryIs ==
  ASSUME peers \in Cache, NEW k \in Keys, origin[k] \in Origins
  PROVE  /\ Entry(k) \in PeerCatalog /\ Entry(k) # None /\ Entry(k).gen = Gen(k)
         /\ peers[k] # None => Entry(k).rev >= peers[k].rev
         /\ Entry(k).signed # None => peers[k] # None /\ Entry(k) = peers[k]
<1>1. CASE peers[k] = None
  <2>1. Entry(k) = [rev |-> 1, origin |-> origin[k], gen |-> 0, signed |-> None, order |-> 0]
    BY <1>1 DEF Entry
  <2> QED
    BY <1>1, <2>1, RecordsAssumption DEF PeerCatalog, Gen
<1>2. CASE peers[k] # None /\ peers[k].origin # origin[k]
  <2>1. Entry(k) = [rev |-> peers[k].rev + 1, origin |-> origin[k], gen |-> peers[k].gen,
                    signed |-> None, order |-> peers[k].order]
    BY <1>2 DEF Entry
  <2>2. peers[k] \in PeerCatalog
    BY <1>2 DEF Cache
  <2>3. peers[k].rev \in Nat /\ peers[k].gen \in Nat /\ peers[k].order \in Nat
    BY <2>2 DEF PeerCatalog
  <2>4. Entry(k) \in PeerCatalog
    BY <2>1, <2>3 DEF PeerCatalog
  <2> QED
    BY <1>2, <2>1, <2>3, <2>4, RecordsAssumption DEF Gen
<1>3. CASE peers[k] # None /\ peers[k].origin = origin[k]
  <2>1. Entry(k) = peers[k] /\ peers[k] \in PeerCatalog /\ peers[k].rev \in Nat
    BY <1>3 DEF Entry, Cache, PeerCatalog
  <2> QED
    BY <1>3, <2>1 DEF Gen
<1> QED
  BY <1>1, <1>2, <1>3

\* A fetch begins, or approval is withdrawn: only the entry of k changes.
Touched(k) ==
  /\ peers' \in Cache /\ \A j \in Keys : j # k => peers'[j] = peers[j]
  /\ Thinner(peers', peers) /\ Gen(k)' = Gen(k)
  /\ peers[k] # None => peers'[k] # None /\ peers'[k].rev >= peers[k].rev

\* A fetch hides what is of another origin, and keeps the rest.
LEMMA AdmitIs ==
  ASSUME TypeOK, NEW k \in Keys, Admit(k)
  PROVE  Touched(k) /\ peers'[k] = Entry(k) /\ Entry(k) \in PeerCatalog
<1>1. peers \in Cache /\ origin[k] \in Origins
  BY DEF TypeOK, Cache
<1>2. /\ Entry(k) \in PeerCatalog /\ Entry(k) # None /\ Entry(k).gen = Gen(k)
      /\ peers[k] # None => Entry(k).rev >= peers[k].rev
      /\ Entry(k).signed # None => peers[k] # None /\ Entry(k) = peers[k]
  BY <1>1, EntryIs
<1>3. peers' = [peers EXCEPT ![k] = Entry(k)]
  BY DEF Admit
<1>4. peers'[k] = Entry(k) /\ (\A j \in Keys : j # k => peers'[j] = peers[j]) /\ peers' \in Cache
  BY <1>1, <1>2, <1>3 DEF Cache
<1>5. Thinner(peers', peers)
  BY <1>2, <1>4 DEF Thinner, Kept
<1>6. Gen(k)' = Gen(k)
  BY <1>2, <1>4 DEF Gen
<1> QED
  BY <1>2, <1>4, <1>5, <1>6 DEF Touched

\* A withdrawal hides the payload, and makes the entry a later revision.
LEMMA WithdrawIs ==
  ASSUME TypeOK, NEW k \in Keys, Withdraw(k)
  PROVE  /\ Touched(k) /\ k \notin Kept(peers')
         /\ peers[k] # None => peers'[k].rev > peers[k].rev
<1>1. peers \in Cache
  BY DEF TypeOK, Cache
<1>2. CASE peers[k] = None
  <2>1. peers' = peers
    BY <1>2 DEF Withdraw
  <2> QED
    BY <1>1, <1>2, <2>1 DEF Touched, Thinner, Kept, Gen
<1>3. CASE peers[k] # None
  <2>1. peers[k] \in PeerCatalog
    BY <1>1, <1>3 DEF Cache
  <2>2. peers[k].rev \in Nat /\ peers[k].rev + 1 \in Nat
    BY <2>1 DEF PeerCatalog
  <2>3. /\ Hidden(peers[k]) \in PeerCatalog /\ Hidden(peers[k]).rev = peers[k].rev
        /\ Hidden(peers[k]).signed = None /\ Hidden(peers[k]).gen = peers[k].gen
    BY <2>1, HiddenParts
  <2>4. peers'[k] = [Hidden(peers[k]) EXCEPT !.rev = peers[k].rev + 1]
    <3>1. peers' = [peers EXCEPT ![k] = [Hidden(peers[k]) EXCEPT !.rev = Hidden(peers[k]).rev + 1]]
      BY <1>3 DEF Withdraw
    <3> HIDE DEF Hidden
    <3> QED
      BY <1>1, <2>3, <3>1 DEF Cache
  <2>5. /\ peers'[k] \in PeerCatalog /\ peers'[k] # None /\ peers'[k].signed = None
        /\ peers'[k].gen = peers[k].gen /\ peers'[k].rev = peers[k].rev + 1
    BY <2>2, <2>3, <2>4, RevParts
  <2>6. peers' = [j \in Keys |-> peers'[j]] /\ \A j \in Keys : j # k => peers'[j] = peers[j]
    BY <1>1, <1>3 DEF Withdraw, Cache
  <2>7. peers' \in Cache
    BY <1>1, <2>5, <2>6 DEF Cache
  <2>8. Thinner(peers', peers) /\ k \notin Kept(peers')
    BY <2>5, <2>6 DEF Thinner, Kept
  <2>9. Gen(k)' = Gen(k)
    BY <1>3, <2>5 DEF Gen
  <2> QED
    BY <1>3, <2>2, <2>5, <2>6, <2>7, <2>8, <2>9 DEF Touched
<1> QED
  BY <1>2, <1>3

-----------------------------------------------------------------------------
(* Links and frames.                                                       *)

\* Only the link l has changed, and waits for what it says.
Waits(l, pending) ==
  /\ link' \in [Links -> Link \cup {None}]
  /\ \A m \in Links : m # l => link'[m] = link[m]
  /\ link'[l] \in Link /\ link'[l].pending = pending

\* A link goes live, waiting for what it says.
LEMMA LiveIs ==
  ASSUME TypeOK, NEW l \in Links, link[l] # None, NEW pending \in Fetch \cup {None}, Live(l, pending)
  PROVE  Waits(l, pending)
<1>1. link \in [Links -> Link \cup {None}] /\ link[l] \in Link
  BY DEF TypeOK
<1>2. link'[l] = [origin |-> link[l].origin, stage |-> "live", remote |-> link[l].remote, pending |-> pending]
  BY <1>1 DEF Live, Link
<1>3. link' = [m \in Links |-> link'[m]] /\ \A m \in Links : m # l => link'[m] = link[m]
  BY <1>1 DEF Live
<1>4. link'[l] \in Link /\ link'[l].pending = pending
  BY <1>1, <1>2 DEF Link
<1> QED
  BY <1>1, <1>3, <1>4 DEF Waits

\* A fetch that is handed out is of the present revision and epoch.
LEMMA NewFetchIs ==
  ASSUME TypeOK, NEW k \in Keys, NEW announced \in Nat
  PROVE  /\ NewFetch(k, announced) \in Fetch /\ NewFetch(k, announced) # None
         /\ NewFetch(k, announced).rev = Entry(k).rev /\ NewFetch(k, announced).epoch = epoch[k]
<1>1. Entry(k) \in PeerCatalog
  BY EntryIs DEF TypeOK, Cache
<1>2. Entry(k).rev \in Nat /\ origin[k] \in Origins /\ epoch[k] \in Nat
  BY <1>1 DEF TypeOK, PeerCatalog
<1> HIDE DEF Entry
<1> QED
  BY <1>2, RecordsAssumption DEF NewFetch, Fetch

\* request_if_needed asks, with a fetch of its own, or only remembers.
LEMMA AskIs ==
  ASSUME TypeOK, NEW l \in Links, link[l] # None, NEW remote \in Nat, NEW due, Ask(l, remote, due)
  PROVE  \/ /\ Admit(PeerOf[l]) /\ PeerOf[l] \in approved /\ PeerOf[l] \in Keys
            /\ Waits(l, NewFetch(PeerOf[l], remote))
            /\ toThem' = [toThem EXCEPT ![l] = Append(@, [kind |-> "get", late |-> FALSE])]
         \/ Waits(l, link[l].pending) /\ UNCHANGED <<peers, toThem>>
<1> DEFINE k == PeerOf[l]
           asks == due /\ link[l].pending = None /\ remote > 0 /\ Wants(k, remote) /\ k \in approved
           fetch == NewFetch(k, remote)
<1>1. link \in [Links -> Link \cup {None}] /\ link[l] \in Link /\ k \in Keys
  BY PeersAssumption DEF TypeOK
<1>2. fetch \in Fetch
  BY <1>1, NewFetchIs
<1>3. CASE asks
  <2>1. /\ Admit(k) /\ link' = [link EXCEPT ![l] = [@ EXCEPT !.remote = remote, !.pending = fetch]]
        /\ toThem' = [toThem EXCEPT ![l] = Append(@, [kind |-> "get", late |-> FALSE])]
    BY <1>3 DEF Ask
  <2> HIDE DEF fetch
  <2>2. link'[l] = [origin |-> link[l].origin, stage |-> link[l].stage, remote |-> remote, pending |-> fetch]
    BY <1>1, <2>1 DEF Link
  <2>3. link' = [m \in Links |-> link'[m]] /\ \A m \in Links : m # l => link'[m] = link[m]
    BY <1>1, <2>1
  <2>4. link'[l] \in Link /\ link'[l].pending = fetch
    BY <1>1, <1>2, <2>2 DEF Link
  <2>5. Waits(l, fetch)
    BY <1>1, <2>3, <2>4 DEF Waits
  <2> QED
    BY <1>1, <1>3, <2>1, <2>5 DEF fetch
<1>4. CASE ~asks
  <2>1. link' = [link EXCEPT ![l] = [@ EXCEPT !.remote = remote]] /\ UNCHANGED <<peers, toThem>>
    BY <1>4 DEF Ask
  <2>2. link'[l] = [origin |-> link[l].origin, stage |-> link[l].stage, remote |-> remote,
                    pending |-> link[l].pending]
    BY <1>1, <2>1 DEF Link
  <2>3. link' = [m \in Links |-> link'[m]] /\ \A m \in Links : m # l => link'[m] = link[m]
    BY <1>1, <2>1
  <2>4. link'[l] \in Link /\ link'[l].pending = link[l].pending
    BY <1>1, <2>2 DEF Link
  <2> QED
    BY <1>1, <2>1, <2>3, <2>4 DEF Waits
<1> QED
  BY <1>3, <1>4

\* Frames are sent, taken in order, and marked late.
LEMMA SendIs ==
  ASSUME TypeOK, NEW l \in Links, NEW kind \in {"announce", "reply", "error"}, NEW late \in BOOLEAN,
         Send(l, kind, late)
  PROVE  toUs' \in [Links -> Seq(Frame)]
<1>1. toUs \in [Links -> Seq(Frame)] /\ local[PeerOf[l]] \in Nat
  BY PeersAssumption DEF TypeOK
<1>2. [kind |-> kind, gen |-> local[PeerOf[l]], late |-> late] \in Frame
  BY <1>1 DEF Frame
<1>3. Append(toUs[l], [kind |-> kind, gen |-> local[PeerOf[l]], late |-> late]) \in Seq(Frame)
  BY <1>1, <1>2
<1> QED
  BY <1>1, <1>3 DEF Send

\* The next frame is a frame, and the others stay.
LEMMA TakenIs ==
  ASSUME TypeOK, NEW l \in Links, toUs[l] # << >>, Taken(l)
  PROVE  toUs' \in [Links -> Seq(Frame)] /\ Head(toUs[l]) \in Frame /\ Head(toUs[l]).gen \in Nat
<1>1. toUs \in [Links -> Seq(Frame)] /\ toUs[l] \in Seq(Frame)
  BY DEF TypeOK
<1>2. Tail(toUs[l]) \in Seq(Frame) /\ Head(toUs[l]) \in Frame
  BY <1>1
<1> QED
  BY <1>1, <1>2 DEF Taken, Frame

\* A request is a request.
LEMMA GetIs ==
  ASSUME TypeOK, NEW l \in Links,
         toThem' = [toThem EXCEPT ![l] = Append(@, [kind |-> "get", late |-> FALSE])]
  PROVE  toThem' \in [Links -> Seq(Request)]
<1>1. [kind |-> "get", late |-> FALSE] \in Request /\ toThem \in [Links -> Seq(Request)]
  BY DEF Request, TypeOK
<1>2. Append(toThem[l], [kind |-> "get", late |-> FALSE]) \in Seq(Request)
  BY <1>1
<1> QED
  BY <1>1, <1>2

\* Marking requests and answers late leaves them what they are.
LEMMA LateIs ==
  ASSUME TypeOK, NEW l \in Links,
         toThem' = [toThem EXCEPT ![l] = [i \in DOMAIN toThem[l] |-> [toThem[l][i] EXCEPT !.late = TRUE]]],
         toUs' = [toUs EXCEPT ![l] = [i \in DOMAIN toUs[l] |->
                    [toUs[l][i] EXCEPT !.late = @ \/ toUs[l][i].kind # "announce"]]]
  PROVE  toThem' \in [Links -> Seq(Request)] /\ toUs' \in [Links -> Seq(Frame)]
<1>1. /\ toThem \in [Links -> Seq(Request)] /\ toThem[l] \in Seq(Request)
      /\ toUs \in [Links -> Seq(Frame)] /\ toUs[l] \in Seq(Frame)
  BY DEF TypeOK
<1> DEFINE s == [i \in DOMAIN toThem[l] |-> [toThem[l][i] EXCEPT !.late = TRUE]]
           t == [i \in DOMAIN toUs[l] |-> [toUs[l][i] EXCEPT !.late = @ \/ toUs[l][i].kind # "announce"]]
<1>2. s \in Seq(Request)
  <2>1. \A i \in DOMAIN toThem[l] : toThem[l][i] \in Request
    BY <1>1
  <2>2. \A i \in DOMAIN toThem[l] : [toThem[l][i] EXCEPT !.late = TRUE] \in Request
    BY <2>1 DEF Request
  <2>3. DOMAIN toThem[l] = 1..Len(toThem[l]) /\ Len(toThem[l]) \in Nat
    BY <1>1
  <2> QED
    BY <2>2, <2>3
<1>3. t \in Seq(Frame)
  <2>1. \A i \in DOMAIN toUs[l] : toUs[l][i] \in Frame
    BY <1>1
  <2>2. \A i \in DOMAIN toUs[l] : [toUs[l][i] EXCEPT !.late = @ \/ toUs[l][i].kind # "announce"] \in Frame
    BY <2>1 DEF Frame
  <2>3. DOMAIN toUs[l] = 1..Len(toUs[l]) /\ Len(toUs[l]) \in Nat
    BY <1>1
  <2> QED
    BY <2>2, <2>3
<1> HIDE DEF s, t
<1>4. toThem' = [toThem EXCEPT ![l] = s] /\ toUs' = [toUs EXCEPT ![l] = t]
  BY DEF s, t
<1> QED
  BY <1>1, <1>2, <1>3, <1>4

\* Links that end leave nothing behind.
LEMMA EndedIs ==
  ASSUME TypeOK, NEW ls \in SUBSET Links, Ended(ls)
  PROVE  /\ link' \in [Links -> Link \cup {None}] /\ said' \in [Links -> Nat]
         /\ toThem' \in [Links -> Seq(Request)] /\ toUs' \in [Links -> Seq(Frame)]
         /\ \A m \in Links : link'[m] = IF m \in ls THEN None ELSE link[m]
<1>1. << >> \in Seq(Request) /\ << >> \in Seq(Frame)
  OBVIOUS
<1> QED
  BY <1>1 DEF TypeOK, Ended

-----------------------------------------------------------------------------
(* The inductive invariant.                                                *)

\* Memory and file are sound and fresh, and memory has payloads of approved
\* peers only.
Caches == /\ Sound(peers) /\ Sound(file) /\ Fresh(peers) /\ Fresh(file)
          /\ Kept(peers) \subseteq approved

\* While a catalog is saved and not yet in memory nothing of what it was
\* accepted by changes.
Lock ==
  mutation # None =>
    /\ change # None => change.step # "cache"
    /\ link[mutation] \in Link /\ link[mutation].pending \in Fetch
    /\ Accepts(PeerOf[mutation], link[mutation].pending, link[mutation].pending.announced)
    /\ file = Written(StoredIn(peers, PeerOf[mutation], link[mutation].pending.epoch,
                               link[mutation].pending.announced))

\* A fetch of the revision its entry has was begun in the present epoch.
Fetched(l) ==
  LET k == PeerOf[l]
      fetch == link[l].pending IN
  /\ peers[k] # None /\ fetch.rev <= peers[k].rev
  /\ fetch.rev = peers[k].rev => fetch.epoch = epoch[k]
Fetches == \A l \in Links : link[l] # None /\ link[l].pending # None => Fetched(l)

Epochs == \A k \in Keys : barred[k] <= epoch[k]

\* A revocation on its way: the peer is not approved, and once the cache is
\* saved its payload is not in the file.
Revoking ==
  change # None /\ change.kind = "revoke" =>
    /\ change.key \notin approved
    /\ change.step = "save" /\ change.ok => change.key \notin Kept(file)

\* The file has entries only of peers that are tracked in memory.
Tracked == \A k \in Keys : file[k] # None => peers[k] # None

-----------------------------------------------------------------------------
(* Types.                                                                  *)

\* The types hold after what the operator does.
LEMMA OperatorTypes ==
  ASSUME TypeOK,
         \/ \E k \in Keys : BeginApprove(k) \/ BeginRevoke(k)
         \/ SaveCache \/ SaveApproved \/ SaveApprovedFails
         \/ \E k \in Keys, o \in Origins : Rename(k, o)
  PROVE  TypeOK'
<1>0. peers \in Cache
  BY DEF TypeOK, Cache
<1>w. Written(peers) \in Cache
  BY <1>0, WrittenIs
<1>1. ASSUME NEW k \in Keys, BeginApprove(k)
      PROVE  TypeOK'
  <2>1. change' \in Change \cup {None}
    <3>1. (k \in approved) \in BOOLEAN
      OBVIOUS
    <3> QED
      BY <1>1, <3>1 DEF BeginApprove, Change
  <2>2. changes' \in 0..MaxChanges /\ barred' \in [Keys -> Nat]
    <3>1. changes' \in 0..MaxChanges
      BY <1>1, BoundsAssumption DEF BeginApprove, TypeOK
    <3>2. barred' = barred \/ barred' = [barred EXCEPT ![k] = epoch[k]]
      BY <1>1 DEF BeginApprove
    <3>3. barred' \in [Keys -> Nat]
      BY <3>2 DEF TypeOK
    <3> QED
      BY <3>1, <3>3
  <2> QED
    BY <1>1, <1>w, <2>1, <2>2 DEF TypeOK, BeginApprove, Cache, farVars
<1>2. ASSUME NEW k \in Keys, BeginRevoke(k)
      PROVE  TypeOK'
  <2>1. change' \in Change \cup {None}
    BY <1>2 DEF BeginRevoke, Change
  <2>2. changes' \in 0..MaxChanges
    BY <1>2, BoundsAssumption DEF BeginRevoke, TypeOK
  <2>3. peers' \in Cache /\ approved' \subseteq Keys /\ epoch' \in [Keys -> Nat]
    <3>1. Withdraw(k)
      BY <1>2 DEF BeginRevoke
    <3>2. peers' \in Cache
      BY <3>1, WithdrawIs DEF Touched
    <3>3. approved' \subseteq Keys /\ epoch' \in [Keys -> Nat]
      BY <3>1, SMTT(30) DEF Withdraw, TypeOK
    <3> QED
      BY <3>2, <3>3
  <2> QED
    BY <1>2, <2>1, <2>2, <2>3 DEF TypeOK, BeginRevoke, Cache, farVars
<1>3. CASE SaveCache
  <2>1. change' \in Change \cup {None}
    BY <1>3 DEF SaveCache, Change, TypeOK
  <2>2. faults' \in 0..MaxFaults /\ file' \in Cache
    BY <1>3, <1>w, BoundsAssumption DEF SaveCache, Fault, TypeOK, Cache
  <2> QED
    BY <1>3, <2>1, <2>2 DEF TypeOK, SaveCache, Cache, registry, farVars
<1>4. CASE SaveApproved
  <2>1. saved' \in [Keys -> Origins \cup {None}]
    BY <1>4 DEF SaveApproved, SavedApprovals, TypeOK
  <2>2. barred' \in [Keys -> Nat]
    BY <1>4 DEF SaveApproved, TypeOK, Change
  <2> QED
    BY <1>4, <2>1, <2>2 DEF TypeOK, SaveApproved, registry, cacheVars, farVars
<1>5. CASE SaveApprovedFails
  <2>1. faults' \in 0..MaxFaults
    BY <1>5, BoundsAssumption DEF SaveApprovedFails, Fault, TypeOK
  <2>2. peers' \in Cache /\ approved' \subseteq Keys /\ epoch' \in [Keys -> Nat] /\ file' \in Cache
    <3>1. CASE change.kind = "approve" /\ ~change.was
      <4>1. change.key \in Keys /\ Withdraw(change.key) /\ file' \in {file, Written(peers')}
        BY <1>5, <3>1 DEF SaveApprovedFails, TypeOK, Change
      <4>2. peers' \in Cache
        BY <4>1, WithdrawIs DEF Touched
      <4>3. Written(peers') \in Cache
        BY <4>2, WrittenIs
      <4>4. file \in Cache
        BY DEF TypeOK, Cache
      <4> QED
        BY <4>1, <4>2, <4>3, <4>4 DEF Withdraw, TypeOK
    <3>2. CASE ~(change.kind = "approve" /\ ~change.was)
      BY <1>5, <3>2 DEF SaveApprovedFails, TypeOK, Cache
    <3> QED
      BY <3>1, <3>2
  <2> QED
    BY <1>5, <2>1, <2>2 DEF TypeOK, SaveApprovedFails, Cache, farVars
<1>6. ASSUME NEW k \in Keys, NEW o \in Origins, Rename(k, o)
      PROVE  TypeOK'
  BY <1>6 DEF TypeOK, Rename, cacheVars, farVars
<1> QED
  BY <1>1, <1>2, <1>3, <1>4, <1>5, <1>6

-----------------------------------------------------------------------------
(* What a step of a link does to the caches: a fetch is begun, a catalog   *)
(* is accepted and saved, it is committed, or none of these.               *)

Begins(l) ==
  /\ Unlocked /\ PeerOf[l] \in approved /\ Admit(PeerOf[l]) /\ UNCHANGED <<file, mutation>>
  /\ \E n \in Nat : Waits(l, NewFetch(PeerOf[l], n))
Saves(l) ==
  /\ Unlocked /\ UNCHANGED peers /\ mutation' = l
  /\ link[l] # None /\ link[l].pending \in Fetch
  /\ \E g \in Nat : /\ Accepts(PeerOf[l], link[l].pending, g)
                    /\ file' = Written(Stored(PeerOf[l], link[l].pending, g))
                    /\ Waits(l, [link[l].pending EXCEPT !.announced = g])
Rests(l) ==
  /\ UNCHANGED cacheVars /\ link' \in [Links -> Link \cup {None}]
  /\ \A m \in Links : m # l => link'[m] = link[m]
  /\ mutation = l => link' = link
  /\ link'[l] # None /\ link'[l].pending # None
       => link[l] # None /\ link'[l].pending = link[l].pending

\* The rest of the state: what a step of a link leaves alone, and its types.
Around ==
  /\ UNCHANGED <<registry, saved, change, changes, local, localSaved, epoch, barred>>
  /\ faults' \in 0..MaxFaults /\ said' \in [Links -> Nat]
  /\ toThem' \in [Links -> Seq(Request)] /\ toUs' \in [Links -> Seq(Frame)]

\* One of the four, whatever the step.
LEMMA LinkMoves ==
  ASSUME TypeOK, Lock, NEW l \in Links, Connect(l) \/ Exchange(l) \/ Expire(l) \/ StoreFails(l)
  PROVE  Around /\ (Begins(l) \/ Saves(l) \/ Rests(l) \/ (Commit(l) /\ Waits(l, None)))
<1> DEFINE k == PeerOf[l]
<1>0. /\ k \in Keys /\ l # None /\ link \in [Links -> Link \cup {None}] /\ local[k] \in Nat
      /\ toThem \in [Links -> Seq(Request)] /\ toUs \in [Links -> Seq(Frame)]
      /\ faults \in 0..MaxFaults /\ said \in [Links -> Nat]
  BY PeersAssumption, NoneAssumption DEF TypeOK
<1>u. Unlocked => mutation # l
  BY <1>0 DEF Unlocked
<1>f. Fault => faults' \in 0..MaxFaults
  BY <1>0, BoundsAssumption DEF Fault
<1>1. CASE Connect(l)
  <2>1. /\ link[l] = None /\ k \in approved /\ Unlocked
        /\ UNCHANGED <<registry, saved, file, mutation, change, changes, toUs, farVars, faults, epoch, barred>>
    BY <1>1 DEF Connect
  <2>2. CASE l \in Dialled
    <3> DEFINE fetch == NewFetch(k, 0)
               new == [origin |-> origin[k], stage |-> "announce", remote |-> 0, pending |-> fetch]
    <3>1. /\ Admit(k) /\ link' = [link EXCEPT ![l] = new]
          /\ toThem' = [toThem EXCEPT ![l] = <<[kind |-> "announce", late |-> FALSE]>>]
      BY <1>1, <2>2 DEF Connect
    <3>2. fetch \in Fetch
      BY <1>0, NewFetchIs
    <3> HIDE DEF fetch
    <3>3. new \in Link /\ new.pending = fetch
      BY <1>0, <3>2 DEF Link, TypeOK
    <3>4. Waits(l, fetch)
      <4> HIDE DEF new
      <4> QED
        BY <1>0, <3>1, <3>3 DEF Waits
    <3>5. <<[kind |-> "announce", late |-> FALSE]>> \in Seq(Request)
      BY DEF Request
    <3>6. toThem' \in [Links -> Seq(Request)]
      BY <1>0, <3>1, <3>5
    <3>7. \E n \in Nat : Waits(l, NewFetch(k, n))
      BY <3>4 DEF fetch
    <3> QED
      BY <1>0, <2>1, <3>1, <3>6, <3>7 DEF Begins, Around, farVars
  <2>3. CASE l \notin Dialled
    <3> DEFINE new == [origin |-> origin[k], stage |-> "live", remote |-> 0, pending |-> None]
    <3>1. link' = [link EXCEPT ![l] = new] /\ UNCHANGED <<peers, toThem>>
      BY <1>1, <2>3 DEF Connect
    <3>2. new \in Link /\ new.pending = None
      BY <1>0 DEF Link, TypeOK
    <3> HIDE DEF new
    <3>3. Rests(l)
      BY <1>0, <1>u, <2>1, <3>1, <3>2 DEF Rests, cacheVars
    <3> QED
      BY <1>0, <2>1, <3>1, <3>3 DEF Around, farVars
  <2> QED
    BY <2>2, <2>3
<1>2. CASE Announce(l)
  <2>1. Send(l, "announce", FALSE) /\ UNCHANGED <<registry, saved, cacheVars, change, changes, link, toThem,
                 local, localSaved, faults, epoch, barred>>
    BY <1>2 DEF Announce
  <2>2. said' \in [Links -> Nat]
    BY <1>0, <1>2 DEF Announce
  <2>3. toUs' \in [Links -> Seq(Frame)]
    BY <2>1, SendIs
  <2> QED
    BY <1>0, <2>1, <2>2, <2>3 DEF Around, Rests
<1>3. CASE Answer(l)
  <2>1. Head(toThem[l]) \in Request /\ Tail(toThem[l]) \in Seq(Request)
    BY <1>0, <1>3 DEF Answer
  <2>2. Head(toThem[l]).late \in BOOLEAN
    BY <2>1 DEF Request
  <2>3. PICK kind \in {"announce", "reply", "error"} : Send(l, kind, Head(toThem[l]).late)
    BY <1>3 DEF Answer
  <2>4. toUs' \in [Links -> Seq(Frame)]
    BY <2>2, <2>3, SendIs
  <2>5. toThem' \in [Links -> Seq(Request)]
    BY <1>0, <1>3, <2>1 DEF Answer
  <2>6. faults' \in 0..MaxFaults
    BY <1>0, <1>3, <1>f DEF Answer
  <2>7. UNCHANGED <<registry, saved, cacheVars, change, changes, link, farVars, epoch, barred>>
    BY <1>3 DEF Answer
  <2> QED
    BY <1>0, <2>4, <2>5, <2>6, <2>7 DEF Around, Rests, farVars
<1>4. CASE Close(l)
  <2>1. /\ link' \in [Links -> Link \cup {None}] /\ said' \in [Links -> Nat]
        /\ toThem' \in [Links -> Seq(Request)] /\ toUs' \in [Links -> Seq(Frame)]
        /\ \A m \in Links : link'[m] = IF m \in {l} THEN None ELSE link[m]
    BY <1>4, EndedIs DEF Close
  <2>2. faults' \in 0..MaxFaults
    BY <1>0, <1>4, <1>f DEF Close
  <2>3. /\ mutation # l
        /\ UNCHANGED <<registry, saved, cacheVars, change, changes, local, localSaved, epoch, barred>>
    BY <1>4 DEF Close
  <2> QED
    BY <2>1, <2>2, <2>3 DEF Around, Rests
<1>5. ASSUME NEW remote \in Nat, NEW due, link[l] # None, Unlocked, Ask(l, remote, due),
             UNCHANGED <<file, mutation>>
      PROVE  (Begins(l) \/ Rests(l)) /\ toThem' \in [Links -> Seq(Request)]
  <2>1. \/ /\ Admit(k) /\ k \in approved /\ k \in Keys
           /\ Waits(l, NewFetch(k, remote))
           /\ toThem' = [toThem EXCEPT ![l] = Append(@, [kind |-> "get", late |-> FALSE])]
        \/ Waits(l, link[l].pending) /\ UNCHANGED <<peers, toThem>>
    BY <1>5, AskIs
  <2>2. CASE /\ Admit(k) /\ k \in approved /\ k \in Keys
             /\ Waits(l, NewFetch(k, remote))
             /\ toThem' = [toThem EXCEPT ![l] = Append(@, [kind |-> "get", late |-> FALSE])]
    BY <1>5, <2>2, GetIs DEF Begins
  <2>3. CASE Waits(l, link[l].pending) /\ UNCHANGED <<peers, toThem>>
    BY <1>0, <1>5, <1>u, <2>3 DEF Rests, Waits, cacheVars
  <2> QED
    BY <2>1, <2>2, <2>3
<1>6. CASE Tick(l)
  <2>1. /\ link[l] # None /\ Unlocked /\ Ask(l, link[l].remote, TRUE)
        /\ UNCHANGED <<registry, saved, file, mutation, change, changes, toUs, farVars, faults, epoch, barred>>
    BY <1>6 DEF Tick
  <2>2. link[l].remote \in Nat
    BY <1>0, <2>1 DEF Link
  <2>3. (Begins(l) \/ Rests(l)) /\ toThem' \in [Links -> Seq(Request)]
    BY <1>5, <2>1, <2>2
  <2> QED
    BY <1>0, <2>1, <2>3 DEF Around, farVars
<1>7. ASSUME NEW due \in BOOLEAN, HearAnnounce(l, due)
      PROVE  Around /\ (Begins(l) \/ Rests(l))
  <2> DEFINE g == Head(toUs[l]).gen
             remote == IF g > link[l].remote THEN g ELSE link[l].remote
  <2>1. /\ link[l] # None /\ toUs[l] # << >> /\ Unlocked /\ Ask(l, remote, due) /\ Taken(l)
        /\ UNCHANGED <<registry, saved, file, mutation, change, changes, farVars, faults, epoch, barred>>
    BY <1>7 DEF HearAnnounce, Hears
  <2>2. toUs' \in [Links -> Seq(Frame)] /\ g \in Nat /\ link[l].remote \in Nat
    BY <1>0, <2>1, TakenIs DEF Link
  <2>3. remote \in Nat
    BY <2>2
  <2> HIDE DEF remote
  <2>4. (Begins(l) \/ Rests(l)) /\ toThem' \in [Links -> Seq(Request)]
    BY <1>5, <2>1, <2>3
  <2> QED
    BY <1>0, <2>1, <2>2, <2>4 DEF Around, farVars
<1>8. CASE HearSync(l)
  <2>1. /\ link[l] # None /\ toUs[l] # << >> /\ Unlocked /\ Taken(l)
        /\ UNCHANGED <<registry, saved, cacheVars, change, changes, farVars, faults, epoch, barred>>
    BY <1>8 DEF HearSync, Hears
  <2>2. toUs' \in [Links -> Seq(Frame)]
    BY <2>1, TakenIs
  <2>3. CASE Wants(k, Head(toUs[l]).gen)
    <3>1. /\ link' = [link EXCEPT ![l] = [@ EXCEPT !.stage = "get"]]
          /\ toThem' = [toThem EXCEPT ![l] = Append(@, [kind |-> "get", late |-> FALSE])]
      BY <1>8, <2>3 DEF HearSync
    <3>2. link'[l] \in Link /\ link'[l].pending = link[l].pending
      BY <1>0, <2>1, <3>1 DEF Link
    <3>3. Rests(l)
      <4>1. link' = [m \in Links |-> link'[m]] /\ \A m \in Links : m # l => link'[m] = link[m]
        BY <1>0, <3>1
      <4> QED
        BY <1>0, <1>u, <2>1, <3>2, <4>1 DEF Rests
    <3>4. toThem' \in [Links -> Seq(Request)]
      BY <3>1, GetIs
    <3> QED
      BY <1>0, <2>1, <2>2, <3>3, <3>4 DEF Around, farVars
  <2>4. CASE ~Wants(k, Head(toUs[l]).gen)
    <3>1. Live(l, None) /\ UNCHANGED toThem
      BY <1>8, <2>4 DEF HearSync
    <3>2. Waits(l, None)
      BY <2>1, <3>1, LiveIs
    <3> QED
      BY <1>0, <1>u, <2>1, <2>2, <3>1, <3>2 DEF Around, Rests, Waits, farVars
  <2> QED
    BY <2>3, <2>4
<1>9. CASE HearReply(l)
  <2> DEFINE fetch == link[l].pending
             g == Head(toUs[l]).gen
  <2>1. /\ link[l] # None /\ toUs[l] # << >> /\ Unlocked /\ Taken(l) /\ fetch # None
        /\ UNCHANGED <<registry, saved, peers, change, changes, toThem, farVars, faults, epoch, barred>>
    BY <1>9 DEF HearReply, Hears
  <2>2. toUs' \in [Links -> Seq(Frame)] /\ g \in Nat /\ fetch \in Fetch /\ link[l] \in Link
    BY <1>0, <2>1, TakenIs DEF Link
  <2>3. CASE Accepts(k, fetch, g)
    <3> DEFINE p == [fetch EXCEPT !.announced = g]
    <3>1. /\ file' = Written(Stored(k, fetch, g)) /\ mutation' = l
          /\ link' = [link EXCEPT ![l] = [@ EXCEPT !.pending = p]]
      BY <1>9, <2>3 DEF HearReply
    <3>2. p \in Fetch
      BY <2>2 DEF Fetch
    <3>3. Waits(l, p)
      <4> HIDE DEF p
      <4>1. link'[l] = [origin |-> link[l].origin, stage |-> link[l].stage, remote |-> link[l].remote,
                        pending |-> p]
        BY <1>0, <2>2, <3>1 DEF Link
      <4>2. link'[l] \in Link /\ link'[l].pending = p
        BY <2>2, <3>2, <4>1 DEF Link
      <4>3. link' = [m \in Links |-> link'[m]] /\ \A m \in Links : m # l => link'[m] = link[m]
        BY <1>0, <3>1
      <4> QED
        BY <1>0, <4>2, <4>3 DEF Waits
    <3>4. Saves(l)
      BY <2>1, <2>2, <2>3, <3>1, <3>3 DEF Saves
    <3> QED
      BY <1>0, <2>1, <2>2, <3>4 DEF Around, farVars
  <2>4. CASE ~Accepts(k, fetch, g)
    <3>1. Live(l, None) /\ UNCHANGED <<file, mutation>>
      BY <1>9, <2>4 DEF HearReply
    <3>2. Waits(l, None)
      BY <2>1, <3>1, LiveIs
    <3> QED
      BY <1>0, <1>u, <2>1, <2>2, <3>1, <3>2 DEF Around, Rests, Waits, farVars, cacheVars
  <2> QED
    BY <2>3, <2>4
<1>10. CASE HearOther(l)
  <2>1. /\ link[l] # None /\ toUs[l] # << >> /\ Unlocked /\ Taken(l)
        /\ UNCHANGED <<registry, saved, cacheVars, change, changes, toThem, farVars, faults, epoch, barred>>
        /\ UNCHANGED link \/ Live(l, None)
    BY <1>10 DEF HearOther, Hears
  <2>2. toUs' \in [Links -> Seq(Frame)]
    BY <2>1, TakenIs
  <2>3. CASE Live(l, None)
    <3>1. Waits(l, None)
      BY <2>1, <2>3, LiveIs
    <3> QED
      BY <1>0, <1>u, <2>1, <2>2, <3>1 DEF Around, Rests, Waits, farVars
  <2>4. CASE UNCHANGED link
    BY <1>0, <2>1, <2>2, <2>4 DEF Around, Rests, farVars
  <2> QED
    BY <2>1, <2>3, <2>4
<1>11. CASE StoreFails(l)
  <2>1. /\ link[l] # None /\ toUs[l] # << >> /\ Unlocked /\ Taken(l) /\ Live(l, None)
        /\ UNCHANGED <<registry, saved, cacheVars, change, changes, toThem, farVars, epoch, barred>>
    BY <1>11 DEF StoreFails, Hears
  <2>2. toUs' \in [Links -> Seq(Frame)] /\ Waits(l, None) /\ faults' \in 0..MaxFaults
    BY <1>11, <1>f, <2>1, TakenIs, LiveIs DEF StoreFails
  <2> QED
    BY <1>0, <1>u, <2>1, <2>2 DEF Around, Rests, Waits, farVars
<1>12. CASE Expire(l)
  <2>1. /\ link[l] # None /\ mutation # l
        /\ link' = [link EXCEPT ![l] = [@ EXCEPT !.pending = None]]
        /\ UNCHANGED <<registry, saved, cacheVars, change, changes, farVars, epoch, barred>>
    BY <1>12 DEF Expire
  <2>2. link'[l] \in Link /\ link'[l].pending = None
    BY <1>0, <2>1 DEF Link
  <2>3. link' = [m \in Links |-> link'[m]] /\ \A m \in Links : m # l => link'[m] = link[m]
    BY <1>0, <2>1
  <2>4. faults' \in 0..MaxFaults
    BY <1>12, <1>f DEF Expire
  <2>5. toThem' \in [Links -> Seq(Request)] /\ toUs' \in [Links -> Seq(Frame)]
    BY <1>12, LateIs DEF Expire
  <2> QED
    BY <1>0, <2>1, <2>2, <2>3, <2>4, <2>5 DEF Around, Rests, farVars
<1>13. CASE Commit(l)
  <2>1. /\ mutation = l /\ Live(l, None)
        /\ UNCHANGED <<registry, saved, file, change, changes, toThem, toUs, farVars, faults, epoch, barred>>
    BY <1>13 DEF Commit
  <2>2. link[l] # None
    BY <1>0, <2>1, RecordsAssumption DEF Lock
  <2>3. Waits(l, None)
    BY <2>1, <2>2, LiveIs
  <2> QED
    BY <1>0, <1>13, <2>1, <2>3 DEF Around, farVars
<1> QED
  BY <1>1, <1>2, <1>3, <1>4, <1>6, <1>7, <1>8, <1>9, <1>10, <1>11, <1>12, <1>13 DEF Exchange

-----------------------------------------------------------------------------
(* Facts the steps share.                                                  *)

Core == Caches /\ Lock /\ Fetches /\ Epochs /\ Revoking /\ CacheIsSaved
Grows == \A k \in Keys : Gen(k) <= Gen(k)'

\* A catalog that is accepted makes a cache as good as the one before it.
LEMMA StoredSound ==
  ASSUME TypeOK, Caches, Fetches, Epochs, NEW l \in Links, link[l] # None, link[l].pending \in Fetch,
         NEW g \in Nat, Accepts(PeerOf[l], link[l].pending, g),
         NEW S, S = Stored(PeerOf[l], link[l].pending, g)
  PROVE  /\ S \in Cache /\ Sound(S) /\ Fresh(S) /\ Kept(S) \subseteq approved
         /\ \A j \in Keys : S[j] # None <=> peers[j] # None
         /\ \A j \in Keys : peers[j] # None => S[j].rev = peers[j].rev /\ S[j].gen >= peers[j].gen
         /\ \A j \in Keys : j \notin approved => j \notin Kept(S)
<1> DEFINE k == PeerOf[l]
           fetch == link[l].pending
<1>1. peers \in Cache /\ k \in Keys /\ peers[k] # None /\ Sound(peers) /\ k \in approved
  BY PeersAssumption DEF TypeOK, Cache, Caches, Accepts, Approved
<1>2. fetch.epoch >= barred[k]
  <2>1. Fetched(l)
    BY RecordsAssumption DEF Fetches
  <2>2. fetch.epoch = epoch[k]
    BY <2>1 DEF Fetched, Accepts
  <2>3. barred[k] \in Nat /\ epoch[k] \in Nat /\ barred[k] <= epoch[k]
    BY <1>1 DEF TypeOK, Epochs
  <2> QED
    BY <2>2, <2>3
<1>3. /\ S \in Cache /\ Sound(S)
      /\ \A j \in Kept(S) : IF j = k THEN S[j].signed.epoch = fetch.epoch
                            ELSE j \in Kept(peers) /\ S[j].signed = peers[j].signed
      /\ \A j \in Keys : S[j] # None <=> peers[j] # None
      /\ \A j \in Keys : peers[j] # None =>
           /\ S[j].rev = peers[j].rev
           /\ S[j].gen = IF j = k THEN g ELSE peers[j].gen
  BY <1>1, StoredIs
<1>4. Fresh(S) /\ Kept(S) \subseteq approved
  BY <1>1, <1>2, <1>3 DEF Fresh, Caches
<1>5. \A j \in Keys : peers[j] # None => S[j].gen >= peers[j].gen
  <2>1. \A j \in Keys : peers[j] # None => peers[j].gen \in Nat
    BY <1>1 DEF Cache, PeerCatalog
  <2>2. g > peers[k].gen
    BY <1>1 DEF Accepts, Wants, Gen
  <2> QED
    BY <1>1, <1>3, <2>1, <2>2
<1> QED
  BY <1>3, <1>4, <1>5

\* The lock, when none of what it is about changes.
LEMMA LockStays ==
  ASSUME TypeOK, Lock, mutation' = mutation,
         mutation # None => /\ peers' = peers /\ file' = file /\ link'[mutation] = link[mutation]
                            /\ PeerOf[mutation] \in approved => PeerOf[mutation] \in approved'
                            /\ PeerOf[mutation] \in approved => origin'[PeerOf[mutation]] = origin[PeerOf[mutation]]
                            /\ change' # None => change' = change
  PROVE  Lock'
<1> SUFFICES ASSUME mutation # None PROVE Lock'
  BY DEF Lock
<1>1. PeerOf[mutation] \in approved
  BY DEF Lock, Accepts, Approved
<1> QED
  BY <1>1 DEF Lock, Accepts, Approved, Wants, Gen

\* A fetch, when its entry keeps its revision or gets a later one.
LEMMA FetchStays ==
  ASSUME TypeOK, TypeOK', Fetches, NEW m \in Links, link[m] # None, link[m].pending # None,
         link'[m].pending = link[m].pending,
         peers'[PeerOf[m]] # None, peers'[PeerOf[m]].rev >= peers[PeerOf[m]].rev,
         epoch'[PeerOf[m]] = epoch[PeerOf[m]] \/ peers'[PeerOf[m]].rev > peers[PeerOf[m]].rev
  PROVE  Fetched(m)'
<1>1. Fetched(m)
  BY DEF Fetches
<1>2. PeerOf[m] \in Keys /\ link[m] \in Link /\ link[m].pending \in Fetch
  BY PeersAssumption DEF TypeOK, Link
<1>3. peers[PeerOf[m]].rev \in Nat /\ peers'[PeerOf[m]].rev \in Nat /\ link[m].pending.rev \in Nat
  BY <1>1, <1>2 DEF TypeOK, PeerCatalog, Fetch, Fetched
<1> QED
  BY <1>1, <1>3 DEF Fetched

\* The file has what memory has once it is written.
LEMMA WrittenSaves ==
  ASSUME peers \in Cache, Caches, NEW S, S = Written(peers)
  PROVE  /\ S \in Cache /\ Sound(S) /\ Fresh(S) /\ Kept(S) \subseteq approved /\ Kept(S) \subseteq Kept(peers)
         /\ \A k \in Keys : peers[k] # None /\ peers[k].gen > 0
              => S[k] # None /\ S[k].gen = peers[k].gen /\ S[k].signed = peers[k].signed
<1>1. S \in Cache /\ Thinner(S, peers)
  BY WrittenIs
<1>2. Kept(S) \subseteq Kept(peers)
  BY <1>1 DEF Thinner
<1> QED
  BY <1>1, <1>2, WrittenIs, ThinnerSound, ThinnerFresh DEF Caches

-----------------------------------------------------------------------------
(* The steps of a link.                                                    *)

\* The types hold after a step of a link, if they do of the caches and links.
LEMMA LinkTypes ==
  ASSUME TypeOK, Around, peers' \in Cache, file' \in Cache, mutation' \in Links \cup {None},
         link' \in [Links -> Link \cup {None}]
  PROVE  TypeOK'
BY DEF TypeOK, Around, Cache, registry

\* A fetch is begun.
LEMMA BeginsKeeps ==
  ASSUME TypeOK, Core, NEW l \in Links, Around, Begins(l)
  PROVE  TypeOK' /\ Core' /\ Grows
<1> DEFINE k == PeerOf[l]
<1>0. /\ k \in Keys /\ k \in approved /\ mutation = None /\ mutation' = None /\ file' = file
      /\ registry' = registry /\ change' = change /\ epoch' = epoch /\ barred' = barred /\ approved' = approved
  BY PeersAssumption DEF Begins, Unlocked, Around, registry
<1>1. Touched(k) /\ peers'[k] = Entry(k) /\ Entry(k) \in PeerCatalog
  BY <1>0, AdmitIs DEF Begins
<1>2. PICK n \in Nat : Waits(l, NewFetch(k, n))
  BY DEF Begins
<1>3. peers' \in Cache /\ Thinner(peers', peers) /\ \A j \in Keys : j # k => peers'[j] = peers[j]
  BY <1>1 DEF Touched
<1>4. TypeOK'
  <2>1. file' \in Cache /\ link' \in [Links -> Link \cup {None}]
    BY <1>0, <1>2 DEF TypeOK, Cache, Waits
  <2> QED
    BY <1>0, <1>3, <2>1, LinkTypes
<1>5. Caches'
  <2>1. Kept(peers') \subseteq Kept(peers)
    BY <1>3 DEF Thinner
  <2>2. Sound(peers') /\ Fresh(peers') /\ Sound(file) /\ Fresh(file)
    BY <1>3, ThinnerSound, ThinnerFresh DEF Core, Caches
  <2> QED
    BY <1>0, <2>1, <2>2 DEF Core, Caches, Fresh
<1>6. Lock' /\ Revoking' /\ Epochs'
  BY <1>0 DEF Core, Lock, Revoking, Epochs
<1>7. Fetches'
  <2> SUFFICES ASSUME NEW m \in Links, link'[m] # None, link'[m].pending # None
               PROVE  Fetched(m)'
    BY DEF Fetches
  <2>1. CASE m = l
    <3>1. /\ NewFetch(k, n) \in Fetch /\ NewFetch(k, n).rev = Entry(k).rev /\ NewFetch(k, n).epoch = epoch[k]
      BY <1>0, <1>2, NewFetchIs
    <3>2. Entry(k) # None /\ Entry(k).rev \in Nat
      BY <1>1, RecordsAssumption DEF PeerCatalog
    <3> HIDE DEF Entry, NewFetch
    <3> QED
      BY <1>0, <1>1, <1>2, <2>1, <3>1, <3>2 DEF Fetched, Waits
  <2>2. CASE m # l
    <3>1. link'[m] = link[m]
      BY <1>2, <2>2 DEF Waits
    <3>2. peers[PeerOf[m]] # None /\ PeerOf[m] \in Keys
      BY <3>1, PeersAssumption DEF Core, Fetches, Fetched
    <3>3. peers[PeerOf[m]].rev \in Nat
      BY <3>2 DEF TypeOK, PeerCatalog
    <3>4. peers'[PeerOf[m]] # None /\ peers'[PeerOf[m]].rev >= peers[PeerOf[m]].rev
      BY <1>1, <3>2, <3>3 DEF Touched
    <3> QED
      BY <1>0, <1>4, <3>1, <3>4, FetchStays DEF Core
  <2> QED
    BY <2>1, <2>2
<1>8. CacheIsSaved'
  <2> SUFFICES ASSUME NEW j \in Keys, peers'[j] # None, peers'[j].gen > 0
               PROVE  /\ file[j] # None /\ file[j].gen = peers'[j].gen
                      /\ peers'[j].signed # None => file[j].signed = peers'[j].signed
    BY <1>0 DEF CacheIsSaved
  <2>1. peers[j] # None /\ peers[j].gen = peers'[j].gen
    <3>1. CASE j = k
      BY <1>0, <1>1, <3>1 DEF Touched, Gen
    <3>2. CASE j # k
      BY <1>3, <3>2
    <3> QED
      BY <3>1, <3>2
  <2>2. file[j] # None /\ file[j].gen = peers[j].gen /\ (peers[j].signed # None => file[j].signed = peers[j].signed)
    BY <1>0, <2>1 DEF Core, CacheIsSaved
  <2>3. peers'[j].signed # None => peers[j].signed # None /\ peers'[j].signed = peers[j].signed
    BY <1>3 DEF Thinner, Kept
  <2> QED
    BY <2>1, <2>2, <2>3
<1>9. Grows
  <2> SUFFICES ASSUME NEW j \in Keys PROVE Gen(j) <= Gen(j)'
    BY DEF Grows
  <2>1. Gen(j)' = Gen(j)
    BY <1>1, <1>3 DEF Touched, Gen
  <2>2. Gen(j) \in Nat
    BY DEF Gen, TypeOK, PeerCatalog
  <2> QED
    BY <2>1, <2>2
<1> QED
  BY <1>4, <1>5, <1>6, <1>7, <1>8, <1>9 DEF Core

\* A catalog is accepted and saved.
LEMMA SavesKeeps ==
  ASSUME TypeOK, Core, NEW l \in Links, Around, Saves(l)
  PROVE  TypeOK' /\ Core' /\ Grows
<1> DEFINE k == PeerOf[l]
           fetch == link[l].pending
<1>0. /\ k \in Keys /\ Unlocked /\ mutation = None /\ mutation' = l /\ peers' = peers
      /\ approved' = approved /\ origin' = origin /\ change' = change /\ epoch' = epoch /\ barred' = barred
      /\ link[l] # None /\ fetch \in Fetch /\ fetch # None
  BY PeersAssumption, RecordsAssumption DEF Saves, Unlocked, Around, registry
<1>1. PICK g \in Nat : /\ Accepts(k, fetch, g) /\ file' = Written(Stored(k, fetch, g))
                       /\ Waits(l, [fetch EXCEPT !.announced = g])
  BY DEF Saves
<1> DEFINE p == [fetch EXCEPT !.announced = g]
           S == Stored(k, fetch, g)
<1>2. p \in Fetch /\ p.announced = g /\ p.rev = fetch.rev /\ p.origin = fetch.origin /\ p.epoch = fetch.epoch
  BY <1>0 DEF Fetch
<1>3. /\ S \in Cache /\ Sound(S) /\ Fresh(S) /\ Kept(S) \subseteq approved
  BY <1>0, <1>1, StoredSound DEF Core
<1>4. S = StoredIn(peers, k, fetch.epoch, g)
  BY StoredAs
<1> HIDE DEF p, S
<1>5. file' \in Cache /\ Sound(file') /\ Fresh(file') /\ Kept(file') \subseteq approved
  <2>1. file' = Written(S)
    BY <1>1 DEF S
  <2>2. Written(S) \in Cache /\ Thinner(Written(S), S)
    BY <1>3, WrittenIs
  <2> QED
    BY <1>3, <2>1, <2>2, ThinnerSound, ThinnerFresh DEF Thinner
<1>6. Waits(l, p)
  BY <1>1 DEF p
<1>7. TypeOK'
  <2>1. peers' \in Cache /\ mutation' \in Links \cup {None} /\ link' \in [Links -> Link \cup {None}]
    BY <1>0, <1>6 DEF TypeOK, Cache, Waits
  <2> QED
    BY <1>5, <2>1, LinkTypes
<1>8. Caches'
  BY <1>0, <1>5 DEF Core, Caches, Fresh
<1>9. Lock'
  <2>1. link'[l] \in Link /\ link'[l].pending = p
    BY <1>6 DEF Waits
  <2>2. change' # None => change'.step # "cache"
    BY <1>0 DEF Unlocked
  <2>3. file' = Written(StoredIn(peers', k, p.epoch, p.announced))
    <3>1. file' = Written(S)
      BY <1>1 DEF S
    <3> QED
      BY <1>0, <1>2, <1>4, <3>1
  <2>4. Accepts(k, link[l].pending, link[l].pending.announced)'
    BY <1>0, <1>1, <1>2, <2>1 DEF Accepts, Approved, Wants, Gen
  <2> QED
    BY <1>0, <1>2, <2>1, <2>2, <2>3, <2>4 DEF Lock
<1>10. Fetches'
  <2> SUFFICES ASSUME NEW m \in Links, link'[m] # None, link'[m].pending # None
               PROVE  Fetched(m)'
    BY DEF Fetches
  <2>1. CASE m = l
    <3>1. Fetched(l)
      BY <1>0 DEF Core, Fetches
    <3> QED
      BY <1>0, <1>2, <1>6, <2>1, <3>1 DEF Fetched, Waits
  <2>2. CASE m # l
    <3>1. link'[m] = link[m]
      BY <1>6, <2>2 DEF Waits
    <3> QED
      BY <1>0, <3>1 DEF Core, Fetches, Fetched
  <2> QED
    BY <2>1, <2>2
<1>11. Epochs' /\ CacheIsSaved'
  <2>1. l # None
    BY NoneAssumption
  <2> QED
    BY <1>0, <2>1 DEF Core, Epochs, CacheIsSaved
<1>12. Revoking'
  BY <1>0, <1>5 DEF Core, Revoking
<1>13. Grows
  BY <1>0 DEF Grows, Gen, TypeOK, PeerCatalog
<1> QED
  BY <1>7, <1>8, <1>9, <1>10, <1>11, <1>12, <1>13 DEF Core

\* Nothing happens to the caches.
LEMMA RestsKeeps ==
  ASSUME TypeOK, Core, NEW l \in Links, Around, Rests(l)
  PROVE  TypeOK' /\ Core' /\ Grows
<1>0. /\ peers' = peers /\ file' = file /\ mutation' = mutation
      /\ approved' = approved /\ origin' = origin /\ change' = change /\ epoch' = epoch /\ barred' = barred
      /\ link' \in [Links -> Link \cup {None}] /\ \A m \in Links : m # l => link'[m] = link[m]
  BY DEF Rests, Around, registry, cacheVars
<1>1. TypeOK'
  BY <1>0, LinkTypes DEF TypeOK, Cache
<1>2. Caches' /\ Epochs' /\ Revoking' /\ CacheIsSaved'
  BY <1>0 DEF Core, Caches, Fresh, Epochs, Revoking, CacheIsSaved
<1>3. Lock'
  <2>1. mutation # None => mutation \in Links /\ link'[mutation] = link[mutation]
    BY <1>0 DEF TypeOK, Rests
  <2> QED
    BY <1>0, <2>1, LockStays DEF Core
<1>4. Fetches'
  <2> SUFFICES ASSUME NEW m \in Links, link'[m] # None, link'[m].pending # None
               PROVE  Fetched(m)'
    BY DEF Fetches
  <2>1. link[m] # None /\ link'[m].pending = link[m].pending
    BY <1>0 DEF Rests
  <2> QED
    BY <1>0, <2>1 DEF Core, Fetches, Fetched
<1>5. Grows
  BY <1>0 DEF Grows, Gen, TypeOK, PeerCatalog
<1> QED
  BY <1>1, <1>2, <1>3, <1>4, <1>5 DEF Core

\* What was saved is in memory.
LEMMA CommitKeeps ==
  ASSUME TypeOK, Core, NEW l \in Links, Around, Commit(l), Waits(l, None)
  PROVE  TypeOK' /\ Core' /\ Grows
<1> DEFINE k == PeerOf[l]
           fetch == link[l].pending
           S == Stored(k, fetch, fetch.announced)
<1>0. /\ mutation = l /\ mutation' = None /\ file' = file /\ l # None
      /\ approved' = approved /\ change' = change /\ epoch' = epoch /\ barred' = barred
  BY NoneAssumption DEF Commit, Around, registry
<1>1. link[l] \in Link /\ link[l] # None /\ fetch \in Fetch /\ Accepts(k, fetch, fetch.announced)
  BY <1>0, RecordsAssumption DEF Core, Lock
<1>2. fetch.announced \in Nat
  BY <1>1 DEF Fetch
<1>3. /\ S \in Cache /\ Sound(S) /\ Fresh(S) /\ Kept(S) \subseteq approved
      /\ \A j \in Keys : S[j] # None <=> peers[j] # None
      /\ \A j \in Keys : peers[j] # None => S[j].rev = peers[j].rev /\ S[j].gen >= peers[j].gen
  BY <1>1, <1>2, StoredSound DEF Core
<1>4. file = Written(S)
  <2>1. S = StoredIn(peers, k, fetch.epoch, fetch.announced)
    BY StoredAs
  <2> QED
    BY <1>0, <2>1 DEF Core, Lock
<1>5. peers' = S
  BY DEF Commit
<1> HIDE DEF S
<1>6. TypeOK'
  <2>1. file' \in Cache /\ link' \in [Links -> Link \cup {None}]
    BY <1>0 DEF TypeOK, Cache, Waits
  <2> QED
    BY <1>0, <1>3, <1>5, <2>1, LinkTypes
<1>7. Caches'
  BY <1>0, <1>3, <1>5 DEF Core, Caches, Fresh
<1>8. Lock' /\ Epochs' /\ Revoking'
  BY <1>0 DEF Core, Lock, Epochs, Revoking
<1>9. Fetches'
  <2> SUFFICES ASSUME NEW m \in Links, link'[m] # None, link'[m].pending # None
               PROVE  Fetched(m)'
    BY DEF Fetches
  <2>1. m # l /\ link'[m] = link[m]
    BY DEF Waits
  <2>2. PeerOf[m] \in Keys /\ peers[PeerOf[m]] # None
    BY <2>1, PeersAssumption DEF Core, Fetches, Fetched
  <2>3. peers[PeerOf[m]].rev \in Nat
    BY <2>2 DEF TypeOK, PeerCatalog
  <2>4. peers'[PeerOf[m]] # None /\ peers'[PeerOf[m]].rev >= peers[PeerOf[m]].rev
    BY <1>3, <1>5, <2>2, <2>3
  <2> QED
    BY <1>0, <1>6, <2>1, <2>4, FetchStays DEF Core
<1>10. CacheIsSaved'
  BY <1>0, <1>3, <1>4, <1>5, WrittenIs DEF CacheIsSaved
<1>11. Grows
  <2> SUFFICES ASSUME NEW j \in Keys PROVE Gen(j) <= Gen(j)'
    BY DEF Grows
  <2>1. peers[j] # None => peers[j].gen \in Nat
    BY DEF TypeOK, PeerCatalog
  <2>2. peers'[j] # None => peers'[j].gen \in Nat
    BY <1>3, <1>5 DEF Cache, PeerCatalog
  <2> QED
    BY <1>3, <1>5, <2>1, <2>2 DEF Gen
<1> QED
  BY <1>6, <1>7, <1>8, <1>9, <1>10, <1>11 DEF Core

-----------------------------------------------------------------------------
(* The steps of the operator.                                              *)

\* Approval is given: the file is as memory, and there is nothing of the peer
\* in either.
LEMMA ApproveKeeps ==
  ASSUME TypeOK, Core, NEW k \in Keys, BeginApprove(k)
  PROVE  TypeOK' /\ Core' /\ Grows
<1>0. /\ mutation = None /\ mutation' = None /\ peers' = peers /\ link' = link /\ epoch' = epoch
      /\ file' = Written(peers) /\ approved' = approved \cup {k}
      /\ barred' = IF k \in approved THEN barred ELSE [barred EXCEPT ![k] = epoch[k]]
      /\ change'.kind = "approve"
  BY DEF BeginApprove, Unlocked
<1>1. TypeOK'
  BY OperatorTypes
<1>2. peers \in Cache /\ barred \in [Keys -> Nat] /\ epoch \in [Keys -> Nat]
  BY DEF TypeOK, Cache
<1>3. /\ Sound(file') /\ Fresh(file') /\ Kept(file') \subseteq Kept(peers)
      /\ \A j \in Keys : peers[j] # None /\ peers[j].gen > 0
           => file'[j] # None /\ file'[j].gen = peers[j].gen /\ file'[j].signed = peers[j].signed
  BY <1>0, <1>2, WrittenSaves DEF Core
<1>4. \A j \in Keys : j \in approved => barred'[j] = barred[j]
  BY <1>0, <1>2
<1>5. Caches'
  <2>1. \A j \in Kept(peers) : barred'[j] = barred[j] /\ j \in approved'
    BY <1>0, <1>4 DEF Core, Caches, Kept
  <2>2. Fresh(peers)' /\ Fresh(file)'
    BY <1>0, <1>3, <2>1 DEF Core, Caches, Fresh
  <2> QED
    BY <1>0, <1>3, <2>1, <2>2 DEF Core, Caches
<1>6. Lock' /\ Revoking'
  BY <1>0 DEF Lock, Revoking
<1>7. Fetches'
  BY <1>0 DEF Core, Fetches, Fetched
<1>8. Epochs'
  BY <1>0, <1>2 DEF Core, Epochs
<1>9. CacheIsSaved' /\ Grows
  BY <1>0, <1>3, SMTT(30) DEF CacheIsSaved, Grows, Gen, TypeOK, PeerCatalog
<1> QED
  BY <1>1, <1>5, <1>6, <1>7, <1>8, <1>9 DEF Core

\* Approval is withdrawn: by the operator, or because it could not be saved.
LEMMA WithdrawKeeps ==
  ASSUME TypeOK, Core, NEW k \in Keys, Withdraw(k), TypeOK', Unlocked, mutation' = mutation,
         UNCHANGED <<link, barred>>, file' \in {file, Written(peers')}
  PROVE  Caches' /\ Lock' /\ Fetches' /\ Epochs' /\ CacheIsSaved' /\ Grows
<1>0. /\ mutation = None /\ mutation' = None /\ approved' = approved \ {k} /\ barred' = barred
      /\ epoch' = [epoch EXCEPT ![k] = @ + 1] /\ link' = link
  BY DEF Unlocked, Withdraw
<1>1. Touched(k) /\ k \notin Kept(peers') /\ (peers[k] # None => peers'[k].rev > peers[k].rev)
  BY WithdrawIs
<1>2. peers' \in Cache /\ Thinner(peers', peers) /\ (\A j \in Keys : j # k => peers'[j] = peers[j])
  BY <1>1 DEF Touched
<1>3. Sound(peers') /\ Fresh(peers') /\ Kept(peers') \subseteq approved'
  BY <1>0, <1>1, <1>2, ThinnerSound, ThinnerFresh DEF Core, Caches, Thinner
<1>4. Sound(file') /\ Fresh(file')
  <2>1. CASE file' = file
    BY <2>1 DEF Core, Caches
  <2>2. CASE file' = Written(peers')
    BY <1>2, <1>3, <2>2, WrittenIs, ThinnerSound, ThinnerFresh
  <2> QED
    BY <2>1, <2>2
<1>5. Caches'
  BY <1>0, <1>3, <1>4 DEF Caches, Fresh
<1>6. Lock'
  BY <1>0 DEF Lock
<1>7. Fetches'
  <2> SUFFICES ASSUME NEW m \in Links, link'[m] # None, link'[m].pending # None
               PROVE  Fetched(m)'
    BY DEF Fetches
  <2>1. PeerOf[m] \in Keys /\ peers[PeerOf[m]] # None
    BY <1>0, PeersAssumption DEF Core, Fetches, Fetched
  <2>2. peers[PeerOf[m]].rev \in Nat /\ epoch \in [Keys -> Nat]
    BY <2>1 DEF TypeOK, PeerCatalog
  <2>3. peers'[PeerOf[m]] # None /\ peers'[PeerOf[m]].rev >= peers[PeerOf[m]].rev
    BY <1>1, <1>2, <2>1, <2>2 DEF Touched
  <2>4. epoch'[PeerOf[m]] = epoch[PeerOf[m]] \/ peers'[PeerOf[m]].rev > peers[PeerOf[m]].rev
    BY <1>0, <1>1, <2>1, <2>2
  <2> QED
    BY <1>0, <2>3, <2>4, FetchStays DEF Core
<1>8. Epochs'
  BY <1>0 DEF Core, Epochs, TypeOK
<1>9. \A j \in Keys : peers'[j] # None /\ peers'[j].gen > 0 => peers[j] # None /\ peers[j].gen = peers'[j].gen
  BY <1>1, <1>2 DEF Touched, Gen
<1>10. CacheIsSaved'
  <2>1. CASE file' = file
    BY <1>0, <1>2, <1>9, <2>1 DEF Core, CacheIsSaved, Thinner, Kept
  <2>2. CASE file' = Written(peers')
    BY <1>2, <2>2, WrittenIs DEF CacheIsSaved
  <2> QED
    BY <2>1, <2>2
<1>11. Grows
  <2> SUFFICES ASSUME NEW j \in Keys PROVE Gen(j) <= Gen(j)'
    BY DEF Grows
  <2>1. Gen(j)' = Gen(j)
    BY <1>1, <1>2 DEF Touched, Gen
  <2>2. Gen(j) \in Nat
    BY DEF Gen, TypeOK, PeerCatalog
  <2> QED
    BY <2>1, <2>2
<1> QED
  BY <1>5, <1>6, <1>7, <1>8, <1>10, <1>11

\* The operator revokes.
LEMMA RevokeKeeps ==
  ASSUME TypeOK, Core, NEW k \in Keys, BeginRevoke(k)
  PROVE  TypeOK' /\ Core' /\ Grows
<1>0. /\ Withdraw(k) /\ Unlocked /\ UNCHANGED <<mutation, link, barred, file>>
      /\ change'.step = "cache" /\ change'.key = k
  BY DEF BeginRevoke
<1>1. TypeOK'
  BY OperatorTypes
<1>2. Caches' /\ Lock' /\ Fetches' /\ Epochs' /\ CacheIsSaved' /\ Grows
  BY <1>0, <1>1, WithdrawKeeps
<1>3. Revoking'
  BY <1>0 DEF Revoking, Withdraw
<1> QED
  BY <1>1, <1>2, <1>3 DEF Core

\* The cache is saved after it, or is not.
LEMMA SaveCacheKeeps ==
  ASSUME TypeOK, Core, Tracked, SaveCache
  PROVE  TypeOK' /\ Core' /\ Grows
<1>0. /\ change # None /\ change.step = "cache" /\ change \in Change
      /\ peers' = peers /\ approved' = approved /\ mutation' = mutation /\ link' = link
      /\ epoch' = epoch /\ barred' = barred
  BY DEF SaveCache, TypeOK, registry
<1>1. mutation = None
  BY <1>0 DEF Core, Lock
<1>2. TypeOK' /\ peers \in Cache
  BY OperatorTypes DEF TypeOK, Cache
<1>3. \/ file' = Written(peers) /\ change' = [change EXCEPT !.step = "save"]
      \/ file' = file /\ change' = [change EXCEPT !.step = "save", !.ok = FALSE]
      \/ file' = file /\ change' = [change EXCEPT !.step = "save"] /\ peers[change.key] = None
  BY DEF SaveCache
<1>4. change'.key = change.key /\ change'.kind = change.kind /\ change.key \in Keys
  BY <1>0, <1>3 DEF Change
<1>5. \/ file' = Written(peers)
      \/ file' = file /\ (change'.ok => change.key \notin Kept(file))
  BY <1>0, <1>3, <1>4 DEF Change, Tracked, Kept
<1>6. Sound(file') /\ Fresh(file') /\ (file' = Written(peers) => Kept(file') \subseteq approved)
  BY <1>2, <1>5, WrittenSaves DEF Core, Caches
<1>7. Caches' /\ Lock' /\ Fetches' /\ Epochs'
  BY <1>0, <1>1, <1>6 DEF Core, Caches, Fresh, Lock, Fetches, Fetched, Epochs
<1>8. Revoking'
  BY <1>0, <1>4, <1>5, <1>6 DEF Core, Revoking
<1>9. CacheIsSaved'
  <2>1. CASE file' = file
    BY <1>0, <2>1 DEF Core, CacheIsSaved
  <2>2. CASE file' = Written(peers)
    BY <1>0, <1>2, <2>2, WrittenIs DEF CacheIsSaved
  <2> QED
    BY <1>5, <2>1, <2>2
<1>10. Grows
  BY <1>0 DEF Grows, Gen, TypeOK, PeerCatalog
<1> QED
  BY <1>2, <1>7, <1>8, <1>9, <1>10 DEF Core

\* The approvals are saved, and the operator is told: if the cache was, there
\* is nothing of the peer in memory or in the file.
LEMMA SaveApprovedKeeps ==
  ASSUME TypeOK, Core, SaveApproved
  PROVE  TypeOK' /\ Core' /\ Grows
<1>0. /\ change # None /\ change \in Change /\ change.step = "save" /\ change' = None
      /\ peers' = peers /\ file' = file /\ mutation' = mutation /\ link' = link
      /\ approved' = approved /\ origin' = origin /\ epoch' = epoch
      /\ barred' = IF change.kind = "revoke" /\ change.ok
                   THEN [barred EXCEPT ![change.key] = epoch[change.key]] ELSE barred
  BY DEF SaveApproved, TypeOK, registry, cacheVars
<1>1. TypeOK'
  BY OperatorTypes
<1>2. barred \in [Keys -> Nat] /\ epoch \in [Keys -> Nat] /\ change.key \in Keys
  BY <1>0 DEF TypeOK, Change
<1>3. \A j \in Kept(peers) \cup Kept(file) : barred'[j] = barred[j]
  BY <1>0, <1>2 DEF Core, Caches, Revoking, Kept
<1>4. Caches'
  BY <1>0, <1>3 DEF Core, Caches, Fresh
<1>5. Lock'
  BY <1>0, LockStays DEF Core
<1>6. Fetches' /\ Revoking' /\ CacheIsSaved'
  BY <1>0 DEF Core, Fetches, Fetched, Revoking, CacheIsSaved
<1>7. Epochs'
  BY <1>0, <1>2 DEF Core, Epochs
<1>8. Grows
  BY <1>0 DEF Grows, Gen, TypeOK, PeerCatalog
<1> QED
  BY <1>1, <1>4, <1>5, <1>6, <1>7, <1>8 DEF Core

\* They are not: an approval is withdrawn again.
LEMMA SaveFailsKeeps ==
  ASSUME TypeOK, Core, SaveApprovedFails
  PROVE  TypeOK' /\ Core' /\ Grows
<1>0. /\ change # None /\ change \in Change /\ change' = None /\ UNCHANGED <<origin, mutation, link, barred>>
  BY DEF SaveApprovedFails, TypeOK
<1>1. TypeOK' /\ Revoking'
  BY <1>0, OperatorTypes DEF Revoking
<1>2. CASE change.kind = "approve" /\ ~change.was
  <2>1. /\ Withdraw(change.key) /\ Unlocked /\ file' \in {file, Written(peers')} /\ change.key \in Keys
    BY <1>0, <1>2 DEF SaveApprovedFails, Change
  <2> QED
    BY <1>0, <1>1, <2>1, WithdrawKeeps DEF Core
<1>3. CASE ~(change.kind = "approve" /\ ~change.was)
  <2>1. UNCHANGED <<approved, peers, file, epoch>>
    BY <1>3 DEF SaveApprovedFails
  <2>2. Caches' /\ Fetches' /\ Epochs' /\ CacheIsSaved'
    BY <1>0, <2>1 DEF Core, Caches, Fresh, Fetches, Fetched, Epochs, CacheIsSaved
  <2>3. Lock'
    BY <1>0, <2>1, LockStays DEF Core
  <2>4. Grows
    BY <2>1 DEF Grows, Gen, TypeOK, PeerCatalog
  <2> QED
    BY <1>1, <2>2, <2>3, <2>4 DEF Core
<1> QED
  BY <1>2, <1>3

\* A peer that is not approved calls by another name.
LEMMA RenameKeeps ==
  ASSUME TypeOK, Core, NEW k \in Keys, NEW o \in Origins, Rename(k, o)
  PROVE  TypeOK' /\ Core' /\ Grows
<1>0. /\ k \notin approved /\ origin' = [origin EXCEPT ![k] = o]
      /\ UNCHANGED <<approved, peers, file, mutation, change, link, epoch, barred>>
  BY DEF Rename, cacheVars
<1>1. TypeOK'
  BY OperatorTypes
<1>2. Caches' /\ Fetches' /\ Epochs' /\ Revoking' /\ CacheIsSaved'
  BY <1>0 DEF Core, Caches, Fresh, Fetches, Fetched, Epochs, Revoking, CacheIsSaved
<1>3. Lock'
  <2>1. mutation # None /\ PeerOf[mutation] \in approved => origin'[PeerOf[mutation]] = origin[PeerOf[mutation]]
    BY <1>0, PeersAssumption DEF TypeOK
  <2> QED
    BY <1>0, <2>1, LockStays DEF Core
<1>4. Grows
  BY <1>0 DEF Grows, Gen, TypeOK, PeerCatalog
<1> QED
  BY <1>1, <1>2, <1>3, <1>4 DEF Core

-----------------------------------------------------------------------------
(* The peers, and stops.                                                   *)

\* A peer signs another catalog, or stops and starts: its links end.
LEMMA PeerKeeps ==
  ASSUME TypeOK, Core, NEW k \in Keys, Publish(k) \/ PeerRestart(k)
  PROVE  TypeOK' /\ Core' /\ Grows
<1>0. UNCHANGED <<registry, saved, cacheVars, change, changes, epoch, barred>>
  BY DEF Publish, PeerRestart
<1>1. /\ local' \in [Keys -> Nat] /\ localSaved' \in [Keys -> Nat] /\ faults' \in 0..MaxFaults
  <2>1. CASE Publish(k)
    <3>1. faults' \in 0..MaxFaults
      BY <2>1, BoundsAssumption DEF Publish, Fault, TypeOK
    <3>2. local \in [Keys -> Nat] /\ localSaved \in [Keys -> Nat] /\ local[k] + 1 \in Nat
      BY DEF TypeOK
    <3>3. local' = [local EXCEPT ![k] = local[k] + 1]
          /\ (localSaved' = localSaved \/ localSaved' = [localSaved EXCEPT ![k] = local[k] + 1])
      BY <2>1 DEF Publish
    <3> QED
      BY <3>1, <3>2, <3>3
  <2>2. CASE PeerRestart(k)
    <3>1. faults' \in 0..MaxFaults
      BY <2>2, BoundsAssumption DEF PeerRestart, Fault, TypeOK
    <3> QED
      BY <2>2, <3>1 DEF PeerRestart, TypeOK
  <2> QED
    BY <2>1, <2>2
<1>2. /\ link' \in [Links -> Link \cup {None}] /\ said' \in [Links -> Nat]
      /\ toThem' \in [Links -> Seq(Request)] /\ toUs' \in [Links -> Seq(Frame)]
      /\ \A m \in Links : link'[m] = link[m] \/ (link'[m] = None /\ mutation # m)
  <2>1. CASE Publish(k)
    BY <2>1 DEF Publish, TypeOK
  <2>2. CASE PeerRestart(k)
    <3>1. Ended({l \in Links : PeerOf[l] = k}) /\ (mutation # None => PeerOf[mutation] # k)
      BY <2>2 DEF PeerRestart
    <3>2. {l \in Links : PeerOf[l] = k} \in SUBSET Links
      OBVIOUS
    <3> QED
      BY <3>1, <3>2, EndedIs, NoneAssumption
  <2> QED
    BY <2>1, <2>2
<1>3. TypeOK'
  BY <1>0, <1>1, <1>2 DEF TypeOK, registry, cacheVars
<1>4. UNCHANGED <<approved, origin, peers, file, mutation>>
  BY <1>0 DEF registry, cacheVars
<1>5. Caches' /\ Epochs' /\ Revoking' /\ CacheIsSaved'
  BY <1>0, <1>4 DEF Core, Caches, Fresh, Epochs, Revoking, CacheIsSaved
<1>6. Fetches'
  BY <1>0, <1>2, <1>4 DEF Core, Fetches, Fetched
<1>7. Lock'
  <2>1. mutation # None => link'[mutation] = link[mutation]
    BY <1>2 DEF TypeOK
  <2> QED
    BY <1>0, <1>4, <2>1, LockStays DEF Core
<1>8. Grows
  BY <1>4 DEF Grows, Gen, TypeOK, PeerCatalog
<1> QED
  BY <1>3, <1>5, <1>6, <1>7, <1>8 DEF Core

\* The file is never behind memory.
LEMMA FileAhead ==
  ASSUME TypeOK, Core, NEW k \in Keys, peers[k] # None, peers[k].gen > 0
  PROVE  file[k] # None /\ file[k].gen >= peers[k].gen
<1>0. peers[k].gen \in Nat
  BY DEF TypeOK, PeerCatalog
<1>1. CASE mutation = None
  BY <1>0, <1>1 DEF Core, CacheIsSaved
<1>2. CASE mutation # None
  <2> DEFINE l == mutation
             fetch == link[l].pending
             S == Stored(PeerOf[l], fetch, fetch.announced)
  <2>1. /\ l \in Links /\ link[l] # None /\ fetch \in Fetch /\ Accepts(PeerOf[l], fetch, fetch.announced)
    BY <1>2, RecordsAssumption DEF TypeOK, Core, Lock
  <2>2. fetch.announced \in Nat
    BY <2>1 DEF Fetch
  <2>3. S \in Cache /\ S[k] # None /\ S[k].gen >= peers[k].gen
    BY <2>1, <2>2, StoredSound DEF Core
  <2>4. file = Written(S)
    <3>1. S = StoredIn(peers, PeerOf[l], fetch.epoch, fetch.announced)
      BY StoredAs
    <3> QED
      BY <1>2, <3>1 DEF Core, Lock
  <2> HIDE DEF S
  <2>5. S[k].gen \in Nat /\ S[k].gen > 0
    BY <1>0, <2>3 DEF Cache, PeerCatalog
  <2>6. file[k] # None /\ file[k].gen = S[k].gen
    BY <2>3, <2>4, <2>5, WrittenIs
  <2> QED
    BY <2>3, <2>6
<1> QED
  BY <1>1, <1>2

\* The burrow stops anywhere, and starts from its files.
LEMMA RestartKeeps ==
  ASSUME TypeOK, Core, Restart
  PROVE  TypeOK' /\ Core' /\ Grows
<1> DEFINE approvedNow == {k \in Keys : saved[k] # None}
           originNow == [k \in Keys |-> IF saved[k] # None THEN saved[k] ELSE origin[k]]
<1>0. /\ approved' = approvedNow /\ origin' = originNow /\ mutation' = None /\ change' = None
      /\ file' = file /\ epoch' = epoch /\ barred' = barred /\ file \in Cache
      /\ UNCHANGED <<saved, changes, local, localSaved>>
  BY DEF Restart, TypeOK, Cache
<1>1. ASSUME NEW k \in Keys
      PROVE  peers'[k] = IF file[k] # None /\ ~(k \in approvedNow /\ file[k].origin = originNow[k])
                         THEN Hidden(file[k]) ELSE file[k]
  BY DEF Restart
<1>2. /\ link' \in [Links -> Link \cup {None}] /\ said' \in [Links -> Nat]
      /\ toThem' \in [Links -> Seq(Request)] /\ toUs' \in [Links -> Seq(Frame)]
      /\ \A m \in Links : link'[m] = None
  <2>1. Ended(Links)
    BY DEF Restart
  <2> QED
    BY <2>1, EndedIs
<1>3. ASSUME NEW k \in Keys
      PROVE  /\ peers'[k] \in PeerCatalog \cup {None} /\ (peers'[k] # None <=> file[k] # None)
             /\ file[k] # None => peers'[k].gen = file[k].gen /\ peers'[k].order = file[k].order
             /\ peers'[k] # None /\ peers'[k].signed # None
                  => file[k] # None /\ peers'[k].signed = file[k].signed /\ k \in approvedNow
  <2>1. CASE file[k] # None /\ ~(k \in approvedNow /\ file[k].origin = originNow[k])
    <3>1. peers'[k] = Hidden(file[k]) /\ file[k] \in PeerCatalog
      BY <1>0, <1>1, <2>1 DEF Cache
    <3> QED
      BY <2>1, <3>1, HiddenParts
  <2>2. CASE ~(file[k] # None /\ ~(k \in approvedNow /\ file[k].origin = originNow[k]))
    <3>1. peers'[k] = file[k]
      BY <1>1, <2>2
    <3> QED
      BY <1>0, <2>2, <3>1 DEF Cache
  <2> QED
    BY <2>1, <2>2
<1>4. peers' \in Cache /\ Thinner(peers', file) /\ Kept(peers') \subseteq approvedNow
  <2>1. peers' = [k \in Keys |-> peers'[k]]
    BY DEF Restart
  <2> QED
    BY <1>3, <2>1 DEF Cache, Thinner, Kept
<1>5. TypeOK'
  <2>1. faults' \in 0..MaxFaults
    BY BoundsAssumption DEF Restart, Fault, TypeOK
  <2>2. approvedNow \subseteq Keys /\ originNow \in [Keys -> Origins]
    BY DEF TypeOK
  <2> QED
    BY <1>0, <1>2, <1>4, <2>1, <2>2 DEF TypeOK, Cache
<1>6. Caches'
  <2>1. Sound(peers') /\ Fresh(peers')
    BY <1>4, ThinnerSound, ThinnerFresh DEF Core, Caches
  <2> QED
    BY <1>0, <1>4, <2>1 DEF Core, Caches, Fresh
<1>7. Lock' /\ Fetches' /\ Epochs' /\ Revoking'
  BY <1>0, <1>2 DEF Core, Lock, Fetches, Epochs, Revoking
<1>8. CacheIsSaved'
  BY <1>0, <1>3 DEF CacheIsSaved
<1>9. Grows
  <2> SUFFICES ASSUME NEW k \in Keys PROVE Gen(k) <= Gen(k)'
    BY DEF Grows
  <2>1. (peers[k] # None => peers[k].gen \in Nat) /\ (peers'[k] # None => peers'[k].gen \in Nat)
    BY <1>4 DEF TypeOK, Cache, PeerCatalog
  <2>2. peers[k] # None /\ peers[k].gen > 0 => peers'[k] # None /\ peers'[k].gen >= peers[k].gen
    BY <1>3, FileAhead
  <2> QED
    BY <2>1, <2>2 DEF Gen
<1> QED
  BY <1>5, <1>6, <1>7, <1>8, <1>9 DEF Core

\* Whatever is written is of a peer that is tracked, and none is forgotten.
LEMMA TrackedStays ==
  ASSUME TypeOK, Core, Tracked, Next
  PROVE  Tracked'
<1>0. peers \in Cache /\ file \in Cache
  BY DEF TypeOK, Cache
<1>1. ASSUME NEW f \in Cache PROVE \A k \in Keys : Written(f)[k] # None => f[k] # None
  BY DEF Written
<1>2. ASSUME NEW l \in Links, Connect(l) \/ Exchange(l) \/ Expire(l) \/ StoreFails(l)
      PROVE  Tracked'
  <2>0. PeerOf[l] \in Keys
    BY PeersAssumption
  <2>1. Around /\ (Begins(l) \/ Saves(l) \/ Rests(l) \/ (Commit(l) /\ Waits(l, None)))
    BY <1>2, LinkMoves DEF Core
  <2>2. CASE Begins(l)
    BY <2>0, <2>2, AdmitIs DEF Begins, Tracked, Touched
  <2>3. CASE Saves(l)
    <3>1. PICK fetch \in Fetch, g \in Nat : /\ peers[PeerOf[l]] # None /\ peers' = peers
                                           /\ file' = Written(Stored(PeerOf[l], fetch, g))
      BY <2>3 DEF Saves, Accepts
    <3>2. /\ Stored(PeerOf[l], fetch, g) \in Cache
          /\ \A j \in Keys : Stored(PeerOf[l], fetch, g)[j] # None => peers[j] # None
      BY <1>0, <2>0, <3>1, StoredIs DEF Core, Caches
    <3> QED
      BY <1>1, <3>1, <3>2 DEF Tracked
  <2>4. CASE Rests(l)
    BY <2>4 DEF Rests, Tracked, cacheVars
  <2>5. CASE Commit(l)
    <3>1. /\ mutation = l /\ mutation # None /\ file' = file
          /\ peers' = Stored(PeerOf[l], link[l].pending, link[l].pending.announced)
      BY <2>5, NoneAssumption DEF Commit
    <3>2. /\ link[l].pending \in Fetch /\ link[l].pending.announced \in Nat /\ peers[PeerOf[l]] # None
      BY <3>1 DEF Core, Lock, Accepts, Fetch
    <3>3. \A j \in Keys : peers[j] # None => peers'[j] # None
      BY <1>0, <2>0, <3>1, <3>2, StoredIs DEF Core, Caches
    <3> QED
      BY <3>1, <3>3 DEF Tracked
  <2> QED
    BY <2>1, <2>2, <2>3, <2>4, <2>5
<1>3. ASSUME NEW k \in Keys, Withdraw(k), file' \in {file, Written(peers')}
      PROVE  Tracked'
  <2>1. peers' \in Cache /\ \A j \in Keys : peers[j] # None => peers'[j] # None
    BY <1>3, WithdrawIs DEF Touched
  <2>2. CASE file' = file
    BY <2>1, <2>2 DEF Tracked
  <2>3. CASE file' = Written(peers')
    <3>1. \A j \in Keys : Written(peers')[j] # None => peers'[j] # None
      BY <1>1, <2>1
    <3> QED
      BY <2>3, <3>1 DEF Tracked
  <2> QED
    BY <1>3, <2>2, <2>3
<1>4. ASSUME NEW k \in Keys, BeginApprove(k)
      PROVE  Tracked'
  BY <1>0, <1>1, <1>4 DEF BeginApprove, Tracked
<1>5. ASSUME NEW k \in Keys, BeginRevoke(k)
      PROVE  Tracked'
  BY <1>3, <1>5 DEF BeginRevoke
<1>6. CASE SaveCache
  BY <1>0, <1>1, <1>6 DEF SaveCache, Tracked
<1>7. CASE SaveApprovedFails
  <2>1. CASE change.kind = "approve" /\ ~change.was
    <3>1. change.key \in Keys
      BY <1>7 DEF SaveApprovedFails, TypeOK, Change
    <3> QED
      BY <1>3, <1>7, <2>1, <3>1 DEF SaveApprovedFails
  <2>2. CASE ~(change.kind = "approve" /\ ~change.was)
    BY <1>7, <2>2 DEF SaveApprovedFails, Tracked
  <2> QED
    BY <2>1, <2>2
<1>8. CASE Restart
  <2> SUFFICES ASSUME NEW k \in Keys, file'[k] # None PROVE peers'[k] # None
    BY DEF Tracked
  <2>1. file' = file /\ file[k] \in PeerCatalog
    BY <1>0, <1>8 DEF Restart, Cache
  <2>2. Hidden(file[k]) # None
    BY <2>1, HiddenParts
  <2>3. peers'[k] \in {Hidden(file[k]), file[k]}
    BY <1>8 DEF Restart
  <2> QED
    BY <2>1, <2>2, <2>3
<1>9. CASE UNCHANGED <<peers, file>>
  BY <1>9 DEF Tracked
<1>10. ASSUME SaveApproved \/ (\E k \in Keys : Publish(k) \/ PeerRestart(k))
              \/ (\E k \in Keys, o \in Origins : Rename(k, o))
       PROVE  UNCHANGED <<peers, file>>
  BY <1>10 DEF SaveApproved, Publish, PeerRestart, Rename, cacheVars
<1> QED
  BY <1>2, <1>4, <1>5, <1>6, <1>7, <1>8, <1>9, <1>10 DEF Next

-----------------------------------------------------------------------------
(* Theorems.                                                               *)

\* Every step, of whoever it is, keeps the invariant and forgets no generation.
LEMMA CatalogStep ==
  ASSUME TypeOK, Core, Tracked, Next
  PROVE  TypeOK' /\ Core' /\ Grows
<1>1. ASSUME NEW l \in Links, Connect(l) \/ Exchange(l) \/ Expire(l) \/ StoreFails(l)
      PROVE  TypeOK' /\ Core' /\ Grows
  <2>1. Lock
    BY DEF Core
  <2>2. Around /\ (Begins(l) \/ Saves(l) \/ Rests(l) \/ (Commit(l) /\ Waits(l, None)))
    BY <1>1, <2>1, LinkMoves
  <2> QED
    BY <2>2, BeginsKeeps, SavesKeeps, RestsKeeps, CommitKeeps
<1> QED
  BY <1>1, ApproveKeeps, RevokeKeeps, SaveCacheKeeps, SaveApprovedKeeps, SaveFailsKeeps, RenameKeeps,
     PeerKeeps, RestartKeeps DEF Next

\* The inductive invariant, from a burrow that has approved its peers and has
\* nothing of them.
THEOREM CatalogInductive == Spec => [](TypeOK /\ Core /\ Tracked)
<1>1. Init => TypeOK /\ Core /\ Tracked
  <2> SUFFICES ASSUME Init PROVE TypeOK /\ Core /\ Tracked
    OBVIOUS
  <2>1. TypeOK
    <3>1. << >> \in Seq(Request) /\ << >> \in Seq(Frame)
      OBVIOUS
    <3> QED
      BY <3>1, BoundsAssumption DEF Init, TypeOK
  <2>2. Kept(peers) = {} /\ Kept(file) = {}
    BY DEF Init, Kept
  <2>3. Cardinality({}) = 0
    BY FS_EmptySet
  <2>4. Caches
    BY <2>2, <2>3, BoundsAssumption DEF Caches, Sound, Fresh
  <2>5. Lock /\ Fetches /\ Epochs /\ Revoking /\ CacheIsSaved
    BY DEF Init, Lock, Fetches, Epochs, Revoking, CacheIsSaved
  <2>6. Tracked
    BY DEF Init, Tracked
  <2> QED
    BY <2>1, <2>4, <2>5, <2>6 DEF Core
<1>2. ASSUME TypeOK, Core, Tracked, UNCHANGED vars
      PROVE  TypeOK' /\ Core' /\ Tracked'
  <2>1. UNCHANGED <<origin, approved, saved, peers, file, mutation, change, changes, link, said, toThem,
                    toUs, local, localSaved, faults, epoch, barred>>
    BY <1>2 DEF vars, registry, cacheVars, farVars
  <2>2. TypeOK'
    BY <1>2, <2>1 DEF TypeOK
  <2>3. Lock'
    BY <1>2, <2>1, LockStays DEF Core
  <2> QED
    BY <1>2, <2>1, <2>2, <2>3 DEF Core, Caches, Fresh, Fetches, Fetched, Epochs, Revoking, CacheIsSaved,
       Tracked
<1>3. TypeOK /\ Core /\ Tracked /\ [Next]_vars => (TypeOK /\ Core /\ Tracked)'
  BY <1>2, CatalogStep, TrackedStays
<1> QED
  BY <1>1, <1>3, PTL DEF Spec

\* What was revoked never returns (begin_fetch, store_verified, revoke_peer,
\* load): no search shows a catalog asked for before a revocation the operator
\* was told of, or before the peer was approved again.
THEOREM CatalogsStayRevoked == Spec => []RevokedNeverReturns
<1>1. Core => RevokedNeverReturns
  BY DEF Core, Caches, Fresh, Kept, RevokedNeverReturns, Shown
<1> QED
  BY <1>1, CatalogInductive, PTL

\* Memory and file agree (store_verified saves before it commits), and the file
\* is within what PeerCache::read insists on.
THEOREM CatalogsAreSound == Spec => []CacheSound
<1>1. TypeOK /\ Core => CacheSound
  <2> SUFFICES ASSUME TypeOK, Core PROVE CacheSound
    OBVIOUS
  <2>1. FileReads
    BY DEF Core, Caches, Sound, Kept, FileReads
  <2> QED
    BY <2>1 DEF Core, CacheSound
<1> QED
  BY <1>1, CatalogInductive, PTL

\* The newest generation accepted from a peer is never forgotten: through
\* revocation, renaming, eviction (trim) and a restart at any point of a save.
THEOREM WatermarksStay == Spec => WatermarkStays
<1>1. ASSUME TypeOK, Core, Tracked, [Next]_vars
      PROVE  UNCHANGED vars \/ \A k \in Keys : Gen(k) <= Gen(k)'
  BY <1>1, CatalogStep DEF Grows
<1> QED
  BY <1>1, CatalogInductive, PTL DEF Spec, WatermarkStays
=============================================================================
