-------------------------- MODULE RemotePullsProofs --------------------------
(***************************************************************************)
(* RemotePulls, for any number of requests, grants, links and restarts: a  *)
(* grant counts once, nothing a pull takes is lost, a stop is honoured and *)
(* every job comes nearer its end.                                         *)
(***************************************************************************)
EXTENDS RemotePulls, FiniteSetTheorems, WellFoundedInduction, TLAPS

\* What a job has by the time it has come so far.
Stands(w) ==
  /\ w.now <= clock
  /\ w.id = None <=> w.at = "check"
  /\ w.at = "dial" => w.via = Direct
  /\ w.at = "seed" => w.way = "swarm" /\ w.tries >= 1
  /\ w.at = "recv" => w.way = "plain"
  /\ w.at \in {"ask", "seed", "recv"} => w.item <= Items[w.grant]
JobsStand == \A j \in Jobs : job[j] # None => Stands(job[j])

-----------------------------------------------------------------------------
(* A job that goes on with the place it has.                               *)

Walk(j) ==
  \/ Dialled(j) \/ DialNext(j) \/ Purge(j) \/ Spend(j)
  \/ NextItem(j) \/ Seeded(j) \/ Renew(j) \/ FromSource(j) \/ Served(j) \/ Missing(j) \/ File(j)

\* It keeps its grant, its way to the source and its place, and comes nearer
\* its end.
Walked(j) ==
  /\ job' \in [Jobs -> Job \cup {None}]
  /\ job[j] \in Job /\ job[j].id \in Ids /\ job'[j] \in Job
  /\ \A k \in Jobs : k # j => job'[k] = job[k]
  /\ job'[j].grant = job[j].grant /\ job'[j].via = job[j].via /\ job'[j].id = job[j].id
  /\ job'[j].item \in 1..(Items[job[j].grant] + 1)
  /\ Stands(job'[j])
  /\ Rank(job'[j]) < Rank(job[j])

\* What is left for a job at each phase.
LEMMA Ranks ==
  /\ PhaseRank["recv"] = 0 /\ PhaseRank["ask"] = 1 /\ PhaseRank["seed"] = 1
  /\ PhaseRank["item"] = 3 + MaxTries /\ PhaseRank["spend"] = 4 + MaxTries
  /\ PhaseRank["purge"] = 5 + MaxTries /\ PhaseRank["dial"] = 6 + MaxTries
  /\ PhaseRank["check"] = 7 + MaxTries
BY DEF PhaseRank

\* A step of a job within an item takes it nearer the end of the item.
LEMMA RankWithin ==
  ASSUME NEW v \in Job, NEW w \in Job, v.grant = w.grant, v.item = w.item,
         PhaseRank[w.at] \in Nat, PhaseRank[v.at] \in Nat,
         PhaseRank[w.at] + w.tries + (IF w.at = "ask" /\ w.way = "swarm" THEN MaxTries + 1 ELSE 0)
         < PhaseRank[v.at] + v.tries + (IF v.at = "ask" /\ v.way = "swarm" THEN MaxTries + 1 ELSE 0)
  PROVE  Rank(w) < Rank(v)
<1>1. (Items[w.grant] + 1 - w.item) * (4 + MaxTries) \in Int
  BY BoundsAssumption DEF Job
<1>2. w.tries \in Nat /\ v.tries \in Nat /\ MaxTries \in Nat
  BY BoundsAssumption DEF Job
<1> QED
  BY <1>1, <1>2 DEF Rank

\* ... and the next item is nearer than any phase of this one.
LEMMA RankNext ==
  ASSUME NEW v \in Job, NEW w \in Job, v.grant = w.grant, w.item = v.item + 1,
         v.item \in 1..Items[v.grant],
         w.at = "item", w.tries = 0, PhaseRank[v.at] \in Nat
  PROVE  Rank(w) < Rank(v)
<1>1. Items[v.grant] \in Nat /\ v.item \in Nat /\ v.tries \in Nat /\ MaxTries \in Nat
  BY BoundsAssumption DEF Job
<1>2. (Items[v.grant] + 1 - v.item) * (4 + MaxTries)
      = (Items[v.grant] + 1 - (v.item + 1)) * (4 + MaxTries) + (4 + MaxTries)
  BY <1>1
<1>3. (Items[v.grant] + 1 - (v.item + 1)) * (4 + MaxTries) \in Int
  BY <1>1
<1>4. PhaseRank[w.at] = 3 + MaxTries
  BY Ranks
<1> HIDE DEF PhaseRank
<1> QED
  BY <1>1, <1>2, <1>3, <1>4 DEF Rank

\* What a job has come to.
To(v, at, now, item, tries, way) ==
  [grant |-> v.grant, at |-> at, now |-> now, via |-> v.via, id |-> v.id,
   item |-> item, tries |-> tries, way |-> way]

\* It is a job, if its parts are of the types of a job's.
LEMMA ToJob ==
  ASSUME NEW v \in Job, NEW at \in Phases, NEW now \in Nat, NEW item \in Nat,
         NEW tries \in 0..MaxTries, NEW way \in Ways,
         NEW w, w = To(v, at, now, item, tries, way)
  PROVE  /\ w \in Job
         /\ w.grant = v.grant /\ w.via = v.via /\ w.id = v.id
         /\ w.at = at /\ w.now = now /\ w.item = item /\ w.tries = tries /\ w.way = way
BY DEF To, Job

\* Whatever a job does with its place leaves it a job, in order, and nearer
\* its end.
LEMMA WalkStep ==
  ASSUME TypeOK, JobsStand, NEW j \in Jobs, Walk(j)
  PROVE  Walked(j)
<1>0. /\ job \in [Jobs -> Job \cup {None}] /\ job[j] # None /\ job[j] \in Job
      /\ Stands(job[j]) /\ job[j].item \in 1..(Items[job[j].grant] + 1) /\ job[j].at # "check"
  BY NoneAssumption DEF TypeOK, JobsStand, Walk, At, Dialled, DialNext, Purge, Spend, NextItem,
                        Seeded, Renew, FromSource, Served, Missing, File
<1> DEFINE v == job[j]
           w == job'[j]
<1>1. /\ v \in Job /\ v.at \in Phases /\ v.now \in Nat /\ v.item \in Nat /\ v.tries \in 0..MaxTries
      /\ v.way \in Ways /\ v.id \in Ids /\ v.grant \in Grants
  BY <1>0 DEF Job, Stands
<1>2. MaxTries \in Nat \ {0} /\ Items[v.grant] \in Nat /\ clock \in Nat
  BY <1>1, BoundsAssumption DEF TypeOK
<1>3. job' = [k \in Jobs |-> job'[k]] /\ \A k \in Jobs : k # j => job'[k] = job[k]
  BY <1>0 DEF Walk, Dialled, DialNext, Purge, Spend, NextItem, Seeded, Renew, FromSource, Served,
              Missing, File, Goes, OnToNext
<1>4. Stands(v) /\ v.item \in 1..(Items[v.grant] + 1)
  BY <1>0
<1>5. ASSUME w \in Job, w.grant = v.grant, w.via = v.via, w.id = v.id,
             w.item \in 1..(Items[v.grant] + 1), Stands(w), Rank(w) < Rank(v)
      PROVE  Walked(j)
  BY <1>0, <1>1, <1>3, <1>5 DEF Walked
<1>6. CASE Dialled(j)
  <2>0. v.at = "dial"
    BY <1>6, <1>0, <1>1, <1>2 DEF Dialled, At, Stands, Ways, HasItem
  <2>1. w = To(v, "purge", v.now, v.item, v.tries, v.way)
    BY <1>6, <1>0 DEF Dialled, Goes, Job, To
  <2> HIDE DEF v, w
  <2>2. /\ w \in Job /\ w.grant = v.grant /\ w.via = v.via /\ w.id = v.id
        /\ w.at = "purge" /\ w.now = v.now /\ w.item = v.item /\ w.tries = v.tries /\ w.way = v.way
    <3>1. "purge" \in Phases /\ v.tries \in 0..MaxTries /\ v.way \in Ways /\ v.now \in Nat /\ v.item \in Nat
      BY <1>1, <1>2, <2>0 DEF Phases, Ways
    <3> QED
      BY <1>1, <2>1, <3>1, ToJob
  <2>3. Stands(w)
    BY <1>1, <1>2, <1>4, <2>0, <2>2 DEF Stands, Ways
  <2>4. Rank(w) < Rank(v)
    BY <1>1, <1>2, <2>0, <2>2, Ranks, RankWithin DEF Ways
  <2> QED
    BY <1>1, <1>2, <1>4, <1>5, <2>0, <2>2, <2>3, <2>4
<1>7. CASE DialNext(j)
  <2>0. v.at = "dial" /\ v.tries > 1 /\ v.tries - 1 \in 0..MaxTries
    BY <1>7, <1>0, <1>1, <1>2 DEF DialNext, At, Stands, Ways, HasItem
  <2>1. w = To(v, "dial", v.now, v.item, v.tries - 1, v.way)
    <3>1. w = [v EXCEPT !.tries = v.tries - 1]
      BY <1>7, <1>0 DEF DialNext
    <3> QED
      BY <3>1, <1>0, <2>0 DEF Job, To
  <2> HIDE DEF v, w
  <2>2. /\ w \in Job /\ w.grant = v.grant /\ w.via = v.via /\ w.id = v.id
        /\ w.at = "dial" /\ w.now = v.now /\ w.item = v.item /\ w.tries = v.tries - 1 /\ w.way = v.way
    <3>1. "dial" \in Phases /\ v.tries - 1 \in 0..MaxTries /\ v.way \in Ways /\ v.now \in Nat /\ v.item \in Nat
      BY <1>1, <1>2, <2>0 DEF Phases, Ways
    <3> QED
      BY <1>1, <2>1, <3>1 DEF To, Job
  <2>3. Stands(w)
    BY <1>1, <1>2, <1>4, <2>0, <2>2 DEF Stands, Ways
  <2>4. Rank(w) < Rank(v)
    BY <1>1, <1>2, <2>0, <2>2, Ranks, RankWithin DEF Ways
  <2> QED
    BY <1>1, <1>2, <1>4, <1>5, <2>0, <2>2, <2>3, <2>4
<1>8. CASE Purge(j)
  <2>0. v.at = "purge"
    BY <1>8, <1>0, <1>1, <1>2 DEF Purge, At, Stands, Ways, HasItem
  <2>1. w = To(v, "spend", 0, v.item, 0, v.way)
    BY <1>8, <1>0 DEF Purge, Job, To
  <2> HIDE DEF v, w
  <2>2. /\ w \in Job /\ w.grant = v.grant /\ w.via = v.via /\ w.id = v.id
        /\ w.at = "spend" /\ w.now = 0 /\ w.item = v.item /\ w.tries = 0 /\ w.way = v.way
    <3>1. "spend" \in Phases /\ 0 \in 0..MaxTries /\ v.way \in Ways /\ 0 \in Nat /\ v.item \in Nat
      BY <1>1, <1>2, <2>0 DEF Phases, Ways
    <3> QED
      BY <1>1, <2>1, <3>1, ToJob
  <2>3. Stands(w)
    BY <1>1, <1>2, <1>4, <2>0, <2>2 DEF Stands, Ways
  <2>4. Rank(w) < Rank(v)
    BY <1>1, <1>2, <2>0, <2>2, Ranks, RankWithin DEF Ways
  <2> QED
    BY <1>1, <1>2, <1>4, <1>5, <2>0, <2>2, <2>3, <2>4
<1>9. CASE Spend(j)
  <2>0. v.at = "spend"
    BY <1>9, <1>0, <1>1, <1>2 DEF Spend, At, Stands, Ways, HasItem
  <2>1. w = To(v, "item", v.now, v.item, v.tries, v.way)
    BY <1>9, <1>0 DEF Spend, Job, To
  <2> HIDE DEF v, w
  <2>2. /\ w \in Job /\ w.grant = v.grant /\ w.via = v.via /\ w.id = v.id
        /\ w.at = "item" /\ w.now = v.now /\ w.item = v.item /\ w.tries = v.tries /\ w.way = v.way
    <3>1. "item" \in Phases /\ v.tries \in 0..MaxTries /\ v.way \in Ways /\ v.now \in Nat /\ v.item \in Nat
      BY <1>1, <1>2, <2>0 DEF Phases, Ways
    <3> QED
      BY <1>1, <2>1, <3>1, ToJob
  <2>3. Stands(w)
    BY <1>1, <1>2, <1>4, <2>0, <2>2 DEF Stands, Ways
  <2>4. Rank(w) < Rank(v)
    BY <1>1, <1>2, <2>0, <2>2, Ranks, RankWithin DEF Ways
  <2> QED
    BY <1>1, <1>2, <1>4, <1>5, <2>0, <2>2, <2>3, <2>4
<1>10. CASE NextItem(j)
  <2>0. v.at = "item" /\ v.item <= Items[v.grant]
    BY <1>10, <1>0, <1>1, <1>2 DEF NextItem, At, Stands, Ways, HasItem
  <2>a. PICK way \in Ways : job' = [job EXCEPT ![j].at = "ask", ![j].way = way]
    BY <1>10 DEF NextItem
  <2>1. w = To(v, "ask", v.now, v.item, v.tries, way)
    BY <2>a, <1>0 DEF NextItem, Job, To
  <2> HIDE DEF v, w
  <2>2. /\ w \in Job /\ w.grant = v.grant /\ w.via = v.via /\ w.id = v.id
        /\ w.at = "ask" /\ w.now = v.now /\ w.item = v.item /\ w.tries = v.tries /\ w.way = way
    <3>1. "ask" \in Phases /\ v.tries \in 0..MaxTries /\ way \in Ways /\ v.now \in Nat /\ v.item \in Nat
      BY <1>1, <1>2, <2>0 DEF Phases, Ways
    <3> QED
      BY <1>1, <2>1, <3>1, ToJob, SMTT(30)
  <2>3. Stands(w)
    BY <1>1, <1>2, <1>4, <2>0, <2>2 DEF Stands, Ways
  <2>4. Rank(w) < Rank(v)
    BY <1>1, <1>2, <2>0, <2>2, Ranks, RankWithin DEF Ways
  <2> QED
    BY <1>1, <1>2, <1>4, <1>5, <2>0, <2>2, <2>3, <2>4
<1>11. CASE Seeded(j)
  <2>0. v.at = "ask" /\ v.way = "swarm"
    BY <1>11, <1>0, <1>1, <1>2 DEF Seeded, At, Stands, Ways, HasItem
  <2>1. w = To(v, "seed", v.now, v.item, MaxTries, v.way)
    BY <1>11, <1>0 DEF Seeded, Job, To
  <2> HIDE DEF v, w
  <2>2. /\ w \in Job /\ w.grant = v.grant /\ w.via = v.via /\ w.id = v.id
        /\ w.at = "seed" /\ w.now = v.now /\ w.item = v.item /\ w.tries = MaxTries /\ w.way = v.way
    <3>1. "seed" \in Phases /\ MaxTries \in 0..MaxTries /\ v.way \in Ways /\ v.now \in Nat /\ v.item \in Nat
      BY <1>1, <1>2, <2>0 DEF Phases, Ways
    <3> QED
      BY <1>1, <2>1, <3>1 DEF To, Job
  <2>3. Stands(w)
    BY <1>1, <1>2, <1>4, <2>0, <2>2 DEF Stands, Ways
  <2>4. Rank(w) < Rank(v)
    BY <1>1, <1>2, <2>0, <2>2, Ranks, RankWithin DEF Ways
  <2> QED
    BY <1>1, <1>2, <1>4, <1>5, <2>0, <2>2, <2>3, <2>4
<1>12. CASE Renew(j)
  <2>0. v.at = "seed" /\ v.tries > 1 /\ v.tries - 1 \in 0..MaxTries
    BY <1>12, <1>0, <1>1, <1>2 DEF Renew, At, Stands, Ways, HasItem
  <2>1. w = To(v, "seed", v.now, v.item, v.tries - 1, v.way)
    <3>1. w = [v EXCEPT !.tries = v.tries - 1]
      BY <1>12, <1>0 DEF Renew
    <3> QED
      BY <3>1, <1>0, <2>0 DEF Job, To
  <2> HIDE DEF v, w
  <2>2. /\ w \in Job /\ w.grant = v.grant /\ w.via = v.via /\ w.id = v.id
        /\ w.at = "seed" /\ w.now = v.now /\ w.item = v.item /\ w.tries = v.tries - 1 /\ w.way = v.way
    <3>1. "seed" \in Phases /\ v.tries - 1 \in 0..MaxTries /\ v.way \in Ways /\ v.now \in Nat /\ v.item \in Nat
      BY <1>1, <1>2, <2>0 DEF Phases, Ways
    <3> QED
      BY <1>1, <2>1, <3>1 DEF To, Job
  <2>3. Stands(w)
    BY <1>1, <1>2, <1>4, <2>0, <2>2 DEF Stands, Ways
  <2>4. Rank(w) < Rank(v)
    BY <1>1, <1>2, <2>0, <2>2, Ranks, RankWithin DEF Ways
  <2> QED
    BY <1>1, <1>2, <1>4, <1>5, <2>0, <2>2, <2>3, <2>4
<1>13. CASE FromSource(j)
  <2>0. (v.at = "seed" /\ v.tries >= 1) \/ (v.at = "ask" /\ v.way = "swarm")
    BY <1>13, <1>0, <1>1, <1>2 DEF FromSource, At, Stands, Ways, HasItem
  <2>1. w = To(v, "ask", v.now, v.item, 0, "plain")
    BY <1>13, <1>0 DEF FromSource, Job, To
  <2> HIDE DEF v, w
  <2>2. /\ w \in Job /\ w.grant = v.grant /\ w.via = v.via /\ w.id = v.id
        /\ w.at = "ask" /\ w.now = v.now /\ w.item = v.item /\ w.tries = 0 /\ w.way = "plain"
    <3>1. "ask" \in Phases /\ 0 \in 0..MaxTries /\ "plain" \in Ways /\ v.now \in Nat /\ v.item \in Nat
      BY <1>1, <1>2, <2>0 DEF Phases, Ways
    <3> QED
      BY <1>1, <2>1, <3>1 DEF To, Job
  <2>3. Stands(w)
    BY <1>1, <1>2, <1>4, <2>0, <2>2 DEF Stands, Ways
  <2>4. Rank(w) < Rank(v)
    BY <1>1, <1>2, <2>0, <2>2, Ranks, RankWithin DEF Ways
  <2> QED
    BY <1>1, <1>2, <1>4, <1>5, <2>0, <2>2, <2>3, <2>4
<1>14. CASE Served(j)
  <2>0. v.at = "ask" /\ v.way = "plain"
    BY <1>14, <1>0, <1>1, <1>2 DEF Served, At, Stands, Ways, HasItem
  <2>1. w = To(v, "recv", v.now, v.item, v.tries, v.way)
    BY <1>14, <1>0 DEF Served, Goes, Job, To
  <2> HIDE DEF v, w
  <2>2. /\ w \in Job /\ w.grant = v.grant /\ w.via = v.via /\ w.id = v.id
        /\ w.at = "recv" /\ w.now = v.now /\ w.item = v.item /\ w.tries = v.tries /\ w.way = v.way
    <3>1. "recv" \in Phases /\ v.tries \in 0..MaxTries /\ v.way \in Ways /\ v.now \in Nat /\ v.item \in Nat
      BY <1>1, <1>2, <2>0 DEF Phases, Ways
    <3> QED
      BY <1>1, <2>1, <3>1, ToJob
  <2>3. Stands(w)
    BY <1>1, <1>2, <1>4, <2>0, <2>2 DEF Stands, Ways
  <2>4. Rank(w) < Rank(v)
    BY <1>1, <1>2, <2>0, <2>2, Ranks, RankWithin DEF Ways
  <2> QED
    BY <1>1, <1>2, <1>4, <1>5, <2>0, <2>2, <2>3, <2>4
<1>15. CASE Missing(j)
  <2>0. v.at \in {"ask", "seed"} /\ v.item \in 1..Items[v.grant] /\ v.item + 1 \in Nat
    BY <1>15, <1>0, <1>1, <1>2 DEF Missing, At, Stands, Ways, HasItem
  <2>1. w = To(v, "item", v.now, v.item + 1, 0, "plain")
    BY <1>15, <1>0 DEF Missing, OnToNext, Job, To
  <2> HIDE DEF v, w
  <2>2. /\ w \in Job /\ w.grant = v.grant /\ w.via = v.via /\ w.id = v.id
        /\ w.at = "item" /\ w.now = v.now /\ w.item = v.item + 1 /\ w.tries = 0 /\ w.way = "plain"
    <3>1. "item" \in Phases /\ 0 \in 0..MaxTries /\ "plain" \in Ways /\ v.now \in Nat /\ v.item + 1 \in Nat
      BY <1>1, <1>2, <2>0 DEF Phases, Ways
    <3> QED
      BY <1>1, <2>1, <3>1 DEF To, Job
  <2>3. Stands(w)
    BY <1>1, <1>2, <1>4, <2>0, <2>2 DEF Stands, Ways
  <2>4. Rank(w) < Rank(v)
    BY <1>1, <1>2, <2>0, <2>2, Ranks, RankNext DEF Ways
  <2> QED
    BY <1>1, <1>2, <1>4, <1>5, <2>0, <2>2, <2>3, <2>4
<1>16. CASE File(j)
  <2>0. v.at \in {"seed", "recv"} /\ v.item \in 1..Items[v.grant] /\ v.item + 1 \in Nat
    BY <1>16, <1>0, <1>1, <1>2 DEF File, At, Stands, Ways, HasItem
  <2>1. w = To(v, "item", v.now, v.item + 1, 0, "plain")
    BY <1>16, <1>0 DEF File, OnToNext, Job, To
  <2> HIDE DEF v, w
  <2>2. /\ w \in Job /\ w.grant = v.grant /\ w.via = v.via /\ w.id = v.id
        /\ w.at = "item" /\ w.now = v.now /\ w.item = v.item + 1 /\ w.tries = 0 /\ w.way = "plain"
    <3>1. "item" \in Phases /\ 0 \in 0..MaxTries /\ "plain" \in Ways /\ v.now \in Nat /\ v.item + 1 \in Nat
      BY <1>1, <1>2, <2>0 DEF Phases, Ways
    <3> QED
      BY <1>1, <2>1, <3>1 DEF To, Job
  <2>3. Stands(w)
    BY <1>1, <1>2, <1>4, <2>0, <2>2 DEF Stands, Ways
  <2>4. Rank(w) < Rank(v)
    BY <1>1, <1>2, <2>0, <2>2, Ranks, RankNext DEF Ways
  <2> QED
    BY <1>1, <1>2, <1>4, <1>5, <2>0, <2>2, <2>3, <2>4
<1> QED
  BY <1>6, <1>7, <1>8, <1>9, <1>10, <1>11, <1>12, <1>13, <1>14, <1>15, <1>16 DEF Walk

-----------------------------------------------------------------------------
(* Requests that come, take their place, and leave.                        *)

\* The newest link is one of them, whatever links there are.
LEMMA MaxOf ==
  ASSUME NEW N \in Nat, NEW S \in SUBSET (0..N), S # {}
  PROVE  Max(S) \in S /\ \A y \in S : Max(S) >= y
<1> DEFINE T == {N - x : x \in S}
<1>1. \A x \in S : x \in Nat /\ N - x \in Nat
  OBVIOUS
<1>2. T \subseteq Nat /\ T # {}
  BY <1>1
<1>3. PICK t \in T : \A u \in T : ~(<<u, t>> \in OpToRel(<, Nat))
  BY <1>2, WFMin, NatLessThanWellFounded
<1>4. \A u \in T : u >= t
  <2> HIDE DEF T
  <2>1. \A u \in T : u \in Nat /\ t \in Nat
    BY <1>2
  <2>2. \A u \in T : ~(u < t)
    BY <1>3, <2>1 DEF OpToRel
  <2> QED
    BY <2>1, <2>2
<1>5. PICK x \in S : t = N - x
  OBVIOUS
<1>6. \A y \in S : x >= y
  BY <1>1, <1>4, <1>5
<1> QED
  <2>1. x \in S /\ \A y \in S : x >= y
    BY <1>6
  <2> HIDE DEF T
  <2> QED
    BY <2>1, Zenon DEF Max

\* Only the request j has moved.
Only(j) == /\ job' \in [Jobs -> Job \cup {None}]
           /\ \A k \in Jobs : k # j => job'[k] = job[k]

Came(j, g) ==
  /\ Only(j) /\ job[j] = None /\ job'[j] \in Job
  /\ job'[j].grant = g /\ job'[j].at = "check" /\ job'[j].now = clock /\ job'[j].id = None
  /\ job'[j].item = 1

Placed(j) ==
  /\ Only(j) /\ job[j] \in Job /\ job'[j] \in Job /\ nextPull \in Ids
  /\ job[j].at = "check" /\ job[j].id = None /\ job'[j].id = nextPull
  /\ job'[j].at \in {"dial", "purge"} /\ (job'[j].at = "dial" => job'[j].via = Direct)
  /\ job'[j].grant = job[j].grant /\ job'[j].now = job[j].now /\ job'[j].item = job[j].item
  /\ Rank(job'[j]) < Rank(job[j])

Left(j) == Only(j) /\ job[j] \in Job /\ job'[j] = None

\* A request that passes the first checks is a job, over a link there is or none.
LEMMA CameStep ==
  ASSUME TypeOK, NEW j \in Jobs, NEW g \in Grants, Accept(j, g)
  PROVE  Came(j, g)
<1> DEFINE newest == IF On("peerHere") /\ links # {} THEN Max(links) ELSE Direct
           w == [grant |-> g, at |-> "check", now |-> clock, via |-> newest,
                 id |-> None, item |-> 1, tries |-> MaxTries, way |-> "plain"]
<1>1. MaxLinks \in Nat /\ clock \in Nat /\ MaxTries \in 0..MaxTries
  BY BoundsAssumption DEF TypeOK
<1>2. links \in SUBSET (0..MaxLinks)
  BY <1>1 DEF TypeOK
<1>3. newest \in 0..MaxLinks
  <2>1. links # {} => Max(links) \in links
    BY <1>1, <1>2, MaxOf, Zenon
  <2>2. links # {} => Max(links) \in 0..MaxLinks
    BY <1>2, <2>1, Zenon
  <2>3. Direct \in 0..MaxLinks
    BY <1>1 DEF Direct
  <2> QED
    BY <2>2, <2>3, Zenon
<1>4. job \in [Jobs -> Job \cup {None}] /\ job[j] = None
  BY DEF TypeOK, Accept
<1>5. job' = [job EXCEPT ![j] = w]
  BY DEF Accept
<1> HIDE DEF newest
<1>6. w \in Job
  BY <1>1, <1>3 DEF Job, Phases, Ways
<1>7. job'[j] = w
  BY <1>4, <1>5
<1>8. Only(j)
  <2> HIDE DEF w
  <2> QED
    BY <1>4, <1>5, <1>6 DEF Only
<1> QED
  BY <1>4, <1>6, <1>7, <1>8 DEF Came

\* A request that takes a place keeps the rest, and is nearer its end.
LEMMA PlacedStep ==
  ASSUME TypeOK, JobsStand, NEW j \in Jobs, Reserve(j)
  PROVE  Placed(j)
<1> DEFINE v == job[j]
           at == IF v.via = Direct THEN "dial" ELSE "purge"
           w == [grant |-> v.grant, at |-> at, now |-> v.now, via |-> v.via, id |-> nextPull,
                 item |-> v.item, tries |-> v.tries, way |-> v.way]
<1>1. /\ job \in [Jobs -> Job \cup {None}] /\ v \in Job /\ Stands(v) /\ v.at = "check"
  BY DEF TypeOK, JobsStand, Reserve, At
<1>2. nextPull \in Ids /\ v.id = None
  BY <1>1, BoundsAssumption DEF TypeOK, Reserve, Ids, Stands
<1>3. job'[j] = w
  BY <1>1 DEF Reserve, Job
<1>4. at \in Phases /\ at \in {"dial", "purge"}
  BY DEF Phases
<1>5. w \in Job
  <2> HIDE DEF at
  <2> QED
    BY <1>1, <1>2, <1>4 DEF Job
<1>6. \A k \in Jobs : k # j => job'[k] = job[k]
  BY <1>1 DEF Reserve
<1>7. Only(j)
  <2>1. job' = [k \in Jobs |-> job'[k]]
    BY <1>1 DEF Reserve
  <2> HIDE DEF w
  <2> QED
    BY <1>1, <1>3, <1>5, <1>6, <2>1 DEF Only
<1>8. Rank(w) < Rank(v)
  <2>1. PhaseRank[at] < PhaseRank["check"] /\ PhaseRank[at] \in Nat /\ PhaseRank["check"] \in Nat
    BY <1>4, Ranks, BoundsAssumption
  <2>2. w.at = at /\ w.grant = v.grant /\ w.item = v.item /\ w.tries = v.tries /\ w.at # "ask"
    BY <1>4
  <2>3. v.tries \in Nat
    BY <1>1, BoundsAssumption DEF Job
  <2> HIDE DEF w, v, at
  <2> QED
    BY <1>1, <1>5, <2>1, <2>2, <2>3, RankWithin
<1>9. w.at = at /\ w.via = v.via /\ w.id = nextPull /\ w.grant = v.grant /\ w.now = v.now /\ w.item = v.item
  OBVIOUS
<1>10. at = "dial" => v.via = Direct
  OBVIOUS
<1> HIDE DEF w, at
<1> QED
  BY <1>1, <1>2, <1>3, <1>4, <1>5, <1>7, <1>8, <1>9, <1>10 DEF Placed

\* A request refused, and a pull that is over, leave.
LEMMA LeftStep ==
  ASSUME TypeOK, NEW j \in Jobs, Refuse(j) \/ DialFails(j) \/ SpendFails(j) \/ PullEnds(j)
  PROVE  Left(j)
<1>1. job \in [Jobs -> Job \cup {None}] /\ job[j] # None
  BY DEF TypeOK, Refuse, DialFails, SpendFails, PullEnds, At, Reserved
<1>2. job' = [job EXCEPT ![j] = None]
  BY DEF Refuse, DialFails, SpendFails, PullEnds, Ends
<1> QED
  BY <1>1, <1>2 DEF Left, Only

-----------------------------------------------------------------------------
(* What the work of one job leaves alone.                                  *)

\* The clock, the settings and the links stay; the rest changes in few ways.
LEMMA WorksFrame ==
  ASSUME NEW j \in Jobs, Works(j)
  PROVE  /\ UNCHANGED <<worldVars, linkVars>>
         /\ UNCHANGED placeVars \/ (Release(j) /\ UNCHANGED nextPull /\ Ends(j)) \/ Reserve(j)
         /\ UNCHANGED session \/ HangUp(j)
         /\ spent' \subseteq spent \cup {job[j].grant}
         /\ staging' \subseteq staging \cup {Part(j, way) : way \in Ways}
         /\ UNCHANGED starts \/ Spend(j)
         /\ UNCHANGED late \/ late' = [late EXCEPT ![j] = 0] \/ File(j)
<1>1. CASE Refuse(j)
  BY <1>1 DEF Refuse
<1>2. CASE Reserve(j)
  BY <1>2 DEF Reserve
<1>3. CASE Dialled(j)
  BY <1>3 DEF Dialled
<1>4. CASE DialNext(j)
  BY <1>4 DEF DialNext
<1>5. CASE DialFails(j)
  BY <1>5 DEF DialFails, Ends
<1>6. CASE Purge(j)
  BY <1>6 DEF Purge
<1>7. CASE Spend(j)
  BY <1>7 DEF Spend
<1>8. CASE SpendFails(j)
  BY <1>8 DEF SpendFails, Ends
<1>9. CASE NextItem(j)
  BY <1>9 DEF NextItem
<1>10. CASE Seeded(j)
  BY <1>10 DEF Seeded, Ways
<1>11. CASE Renew(j)
  BY <1>11 DEF Renew
<1>12. CASE FromSource(j)
  BY <1>12 DEF FromSource
<1>13. CASE Served(j)
  BY <1>13 DEF Served, Ways
<1>14. CASE Missing(j)
  BY <1>14 DEF Missing
<1>15. CASE File(j)
  BY <1>15 DEF File
<1>16. CASE PullEnds(j)
  BY <1>16 DEF PullEnds, Ends
<1> QED
  BY <1>1, <1>2, <1>3, <1>4, <1>5, <1>6, <1>7, <1>8, <1>9, <1>10, <1>11, <1>12, <1>13, <1>14,
     <1>15, <1>16 DEF Works

\* A job goes on, takes a place or leaves.
LEMMA WorksMoves ==
  ASSUME TypeOK, JobsStand, NEW j \in Jobs, Works(j)
  PROVE  Walked(j) \/ Placed(j) \/ Left(j)
BY WalkStep, PlacedStep, LeftStep DEF Works, Walk

\* The types hold after the work of a job.
LEMMA WorksTypes ==
  ASSUME TypeOK, JobsStand, NEW j \in Jobs, Works(j)
  PROVE  TypeOK'
<1>1. /\ UNCHANGED <<worldVars, linkVars>>
      /\ UNCHANGED placeVars \/ (Release(j) /\ UNCHANGED nextPull /\ Ends(j)) \/ Reserve(j)
      /\ UNCHANGED session \/ HangUp(j)
      /\ spent' \subseteq spent \cup {job[j].grant}
      /\ staging' \subseteq staging \cup {Part(j, way) : way \in Ways}
      /\ UNCHANGED starts \/ Spend(j)
      /\ UNCHANGED late \/ late' = [late EXCEPT ![j] = 0] \/ File(j)
  BY WorksFrame
<1>2. Walked(j) \/ Placed(j) \/ Left(j)
  BY WorksMoves
<1>3. /\ job \in [Jobs -> Job \cup {None}] /\ job[j] \in Job
      /\ \A k \in Jobs : job[k] # None => job[k].item \in 1..(Items[job[k].grant] + 1)
  BY <1>2 DEF Walked, Placed, Left, TypeOK
<1>4. (clock \in 0..MaxClock /\ off \subseteq Settings /\ gone \subseteq Files
       /\ links \subseteq 1..MaxLinks /\ nextLink \in 1..(MaxLinks + 1)
       /\ switches \in 0..MaxSwitches /\ restarts \in 0..MaxRestarts)'
  BY <1>1 DEF TypeOK, worldVars, linkVars
<1>5. (pulls \in [Ids -> Accounts \cup {None}] /\ cancelled \subseteq Ids /\ nextPull \in 1..(MaxPulls + 1))'
  <2>1. CASE UNCHANGED placeVars
    BY <2>1 DEF TypeOK, placeVars
  <2>2. CASE Release(j) /\ UNCHANGED nextPull
    BY <2>2 DEF TypeOK, Release
  <2>3. CASE Reserve(j)
    <3>1. AccountOf[j] \in Accounts
      BY DEF Accounts
    <3>2. nextPull' \in 1..(MaxPulls + 1)
      BY <2>3, BoundsAssumption DEF TypeOK, Reserve
    <3>3. pulls' \in [Ids -> Accounts \cup {None}] /\ cancelled' \subseteq Ids
      BY <2>3, <3>1 DEF TypeOK, Reserve
    <3> QED
      BY <3>2, <3>3
  <2> QED
    BY <1>1, <2>1, <2>2, <2>3
<1>6. (spent \subseteq Grants)'
  BY <1>1, <1>3 DEF TypeOK, Job
<1>7. (job \in [Jobs -> Job \cup {None}])'
  BY <1>2 DEF Walked, Placed, Left, Only
<1>8. (\A k \in Jobs : job[k] # None => job[k].item \in 1..(Items[job[k].grant] + 1))'
  <2> SUFFICES ASSUME NEW k \in Jobs, job'[k] # None
               PROVE  job'[k].item \in 1..(Items[job'[k].grant] + 1)
    OBVIOUS
  <2>1. CASE k # j
    BY <1>2, <1>3, <2>1 DEF Walked, Placed, Left, Only
  <2>2. CASE k = j
    BY <1>2, <1>3, <2>2, NoneAssumption DEF Walked, Placed, Left
  <2> QED
    BY <2>1, <2>2
<1>9. (staging \subseteq (Ids \X Nat \X Ways))'
  <2>1. staging' # staging => job[j].id \in Ids \/ staging' \subseteq staging
    BY <1>3 DEF Works, Refuse, Reserve, Dialled, DialNext, DialFails, Purge, Spend, SpendFails, NextItem,
        Seeded, Renew, FromSource, Served, Missing, File, PullEnds, Ends, JobsStand, Stands, Job, At
  <2>2. job[j].item \in Nat
    BY <1>3 DEF Job
  <2>3. job[j].id \in Ids => {Part(j, way) : way \in Ways} \subseteq (Ids \X Nat \X Ways)
    BY <2>2 DEF Part
  <2> QED
    BY <1>1, <2>1, <2>3 DEF TypeOK
<1>10. (session \in [Grants -> Jobs \cup {None, Shut}])'
  BY <1>1 DEF TypeOK, HangUp
<1>11. (starts \in [Grants -> Nat])'
  BY <1>1 DEF TypeOK, Spend
<1>12. (late \in [Jobs -> Nat])'
  BY <1>1 DEF TypeOK, File
<1> QED
  BY <1>4, <1>5, <1>6, <1>7, <1>8, <1>9, <1>10, <1>11, <1>12 DEF TypeOK

\* The types hold always: the other steps.
LEMMA TypeStep ==
  ASSUME TypeOK, JobsStand, [Next]_vars
  PROVE  TypeOK'
<1>1. ASSUME NEW j \in Jobs, NEW g \in Grants, Accept(j, g)
      PROVE  TypeOK'
  <2>1. Came(j, g)
    BY <1>1, CameStep
  <2>2. \A k \in Jobs : job'[k] # None => job'[k].item \in 1..(Items[job'[k].grant] + 1)
    <3> SUFFICES ASSUME NEW k \in Jobs, job'[k] # None
                 PROVE  job'[k].item \in 1..(Items[job'[k].grant] + 1)
      OBVIOUS
    <3>1. CASE k # j
      BY <2>1, <3>1 DEF Came, Only, TypeOK
    <3>2. CASE k = j
      BY <2>1, <3>2, BoundsAssumption DEF Came
    <3> QED
      BY <3>1, <3>2
  <2> QED
    BY <1>1, <2>1, <2>2 DEF Accept, TypeOK, Came, Only, worldVars, linkVars, placeVars
<1>2. ASSUME NEW j \in Jobs, SourceOpens(j)
      PROVE  TypeOK'
  BY <1>2 DEF TypeOK, SourceOpens, worldVars, linkVars, placeVars
<1>3. ASSUME NEW i \in Ids, Cancel(i)
      PROVE  TypeOK'
  BY <1>3 DEF TypeOK, Cancel, worldVars, linkVars
<1>4. CASE Tick
  BY <1>4, BoundsAssumption DEF TypeOK, Tick, linkVars, placeVars
<1>5. ASSUME NEW x \in Fickle, Switch(x)
      PROVE  TypeOK'
  <2>1. off' \subseteq Settings /\ switches' \in 0..MaxSwitches
    BY <1>5, BoundsAssumption, SettingsAssumption DEF TypeOK, Switch
  <2>2. late' \in [Jobs -> Nat]
    BY <1>5 DEF TypeOK, Switch
  <2> QED
    BY <1>5, <2>1, <2>2 DEF TypeOK, Switch, linkVars, placeVars
<1>6. ASSUME NEW f \in Losable, Lose(f)
      PROVE  TypeOK'
  BY <1>6, SettingsAssumption DEF TypeOK, Lose, linkVars, placeVars
<1>7. CASE LinkUp
  <2>1. links' \subseteq 1..MaxLinks /\ nextLink' \in 1..(MaxLinks + 1)
    BY <1>7, BoundsAssumption DEF TypeOK, LinkUp
  <2> QED
    BY <1>7, <2>1 DEF TypeOK, LinkUp, worldVars, placeVars
<1>8. ASSUME NEW l \in 1..MaxLinks, LinkDown(l)
      PROVE  TypeOK'
  BY <1>8 DEF TypeOK, LinkDown, worldVars, placeVars
<1>9. ASSUME NEW g \in Grants, SessionEnds(g) \/ SessionLost(g)
      PROVE  TypeOK'
  BY <1>9 DEF TypeOK, SessionEnds, SessionLost, worldVars, linkVars, placeVars
<1>10. CASE Restart
  BY <1>10, BoundsAssumption DEF TypeOK, Restart
<1>11. CASE UNCHANGED vars
  BY <1>11 DEF TypeOK, vars, worldVars, linkVars, placeVars
<1> QED
  BY <1>1, <1>2, <1>3, <1>4, <1>5, <1>6, <1>7, <1>8, <1>9, <1>10, <1>11, WorksTypes DEF Next

\* Every step is a request's, or leaves the jobs alone, or forgets them all.
LEMMA JobsMove ==
  ASSUME TypeOK, JobsStand, [Next]_vars
  PROVE  \/ \E j \in Jobs, g \in Grants : Came(j, g) /\ Accept(j, g)
         \/ \E j \in Jobs : Works(j) /\ (Walked(j) \/ Placed(j) \/ Left(j))
         \/ job' = job /\ clock' \in {clock, clock + 1}
         \/ Restart
<1>1. ASSUME NEW j \in Jobs, NEW g \in Grants, Accept(j, g)
      PROVE  Came(j, g)
  BY <1>1, CameStep
<1>2. ASSUME NEW j \in Jobs, Works(j)
      PROVE  Walked(j) \/ Placed(j) \/ Left(j)
  BY <1>2, WorksMoves
<1> QED
  BY <1>1, <1>2 DEF Next, SourceOpens, Cancel, Tick, Switch, Lose, LinkUp, LinkDown, SessionEnds,
                    SessionLost, vars, worldVars

\* Every job has what its phase says.
LEMMA JobsStandStep ==
  ASSUME TypeOK, JobsStand, [Next]_vars
  PROVE  JobsStand'
<1> SUFFICES ASSUME NEW k \in Jobs, job'[k] # None
             PROVE  Stands(job[k])'
  BY DEF JobsStand
<1>1. clock \in Nat
  BY DEF TypeOK
<1>2. job[k] # None => job[k] \in Job /\ Stands(job[k])
  BY DEF TypeOK, JobsStand
<1>3. ASSUME NEW j \in Jobs, NEW g \in Grants, Came(j, g), Accept(j, g)
      PROVE  Stands(job[k])'
  <2>1. clock' = clock
    BY <1>3 DEF Accept, worldVars
  <2>2. CASE k = j
    BY <1>1, <1>3, <2>1, <2>2, BoundsAssumption DEF Came, Stands
  <2>3. CASE k # j
    BY <1>2, <1>3, <2>1, <2>3 DEF Came, Only, Stands
  <2> QED
    BY <2>2, <2>3
<1>4. ASSUME NEW j \in Jobs, Works(j), Walked(j) \/ Placed(j) \/ Left(j)
      PROVE  Stands(job[k])'
  <2>1. clock' = clock
    BY <1>4, WorksFrame DEF worldVars
  <2>2. CASE k = j
    <3>1. CASE Walked(j)
      BY <2>1, <2>2, <3>1 DEF Walked, Stands
    <3>2. CASE Placed(j)
      <4>1. job[j] # None
        BY <3>2, NoneAssumption DEF Placed
      <4>2. nextPull # None
        BY <3>2, NoneAssumption, BoundsAssumption DEF Placed, Ids
      <4> QED
        BY <1>2, <2>1, <2>2, <3>2, <4>1, <4>2 DEF Placed, Stands
    <3> QED
      BY <1>4, <2>2, <3>1, <3>2 DEF Left
  <2>3. CASE k # j
    BY <1>2, <1>4, <2>1, <2>3 DEF Walked, Placed, Left, Only, Stands
  <2> QED
    BY <2>2, <2>3
<1>5. CASE job' = job /\ clock' \in {clock, clock + 1}
  <2>1. job[k] \in Job /\ job[k].now \in Nat
    BY <1>2, <1>5 DEF Job
  <2> QED
    BY <1>1, <1>2, <1>5, <2>1 DEF Stands
<1>6. CASE Restart
  BY <1>6 DEF Restart
<1> QED
  BY <1>3, <1>4, <1>5, <1>6, JobsMove

-----------------------------------------------------------------------------
(* Places.                                                                 *)

\* No two jobs have one place, a job's place is in its account's name, a place
\* taken is some job's and was given out since the start, and the two limits
\* hold.
Apart == \A j, k \in Jobs : Reserved(j) /\ Reserved(k) /\ job[j].id = job[k].id => j = k
Held ==
  /\ \A j \in Jobs : Reserved(j) => pulls[job[j].id] = AccountOf[j]
  /\ \A i \in Running : i < nextPull /\ \E j \in Jobs : Reserved(j) /\ job[j].id = i
Limits ==
  /\ Cardinality(Running) <= MAX_RUNNING
  /\ PerAccount > 0 => \A a \in Accounts : Cardinality(Mine(a)) <= PerAccount

\* How the work of a job moves the places.
LEMMA PlacesMove ==
  ASSUME TypeOK, JobsStand, NEW j \in Jobs, Works(j)
  PROVE  \/ Walked(j) /\ UNCHANGED placeVars
         \/ Placed(j) /\ Reserve(j)
         \/ Left(j) /\ job[j].id = None /\ UNCHANGED placeVars
         \/ Left(j) /\ job[j].id \in Ids /\ Release(j) /\ UNCHANGED nextPull
<1>1. CASE Walk(j)
  <2>1. UNCHANGED placeVars
    BY <1>1 DEF Walk, Dialled, DialNext, Purge, Spend, NextItem, Seeded, Renew, FromSource, Served,
                Missing, File
  <2> QED
    BY <1>1, <2>1, WalkStep
<1>2. CASE Reserve(j)
  BY <1>2, PlacedStep
<1>3. CASE Refuse(j) \/ DialFails(j) \/ SpendFails(j) \/ PullEnds(j)
  <2>1. Left(j) /\ job[j] \in Job /\ job[j] # None
    BY <1>3, LeftStep, NoneAssumption DEF Left
  <2>2. Stands(job[j]) /\ job[j].id \in Ids \cup {None}
    BY <2>1 DEF JobsStand, Job
  <2>3. CASE Refuse(j)
    BY <2>1, <2>2, <2>3 DEF Refuse, At, Stands
  <2>4. CASE DialFails(j) \/ SpendFails(j) \/ PullEnds(j)
    <3>1. job[j].id # None
      BY <2>2, <2>4 DEF DialFails, SpendFails, PullEnds, At, Stands, Reserved
    <3> QED
      BY <2>1, <2>2, <2>4, <3>1 DEF DialFails, SpendFails, PullEnds, Ends
  <2> QED
    BY <1>3, <2>3, <2>4
<1> QED
  BY <1>1, <1>2, <1>3 DEF Works, Walk

\* A place that is a job's is of a number given out.
LEMMA PlaceOfJob ==
  ASSUME TypeOK, Held, NEW j \in Jobs, Reserved(j)
  PROVE  job[j].id \in Running /\ job[j].id \in Ids /\ job[j].id < nextPull
<1>1. job[j].id \in Ids /\ AccountOf[j] # None
  BY AccountsAssumption DEF TypeOK, Reserved, Job, Accounts
<1>2. job[j].id \in Running
  BY <1>1 DEF Held, Running
<1> QED
  BY <1>1, <1>2 DEF Held

\* Taking and giving back a place, for the one who does and for the others.
LEMMA PlacesStep ==
  ASSUME TypeOK, JobsStand, Apart, Held, NEW j \in Jobs, Works(j)
  PROVE  Apart' /\ Held'
<1>0. /\ nextPull \in Nat /\ \A i \in Ids : i \in Nat
      /\ pulls \in [Ids -> Accounts \cup {None}]
  BY BoundsAssumption, SMTT(30) DEF TypeOK, Ids
<1>1. \A k \in Jobs : Reserved(k) => job[k].id \in Running /\ job[k].id \in Ids /\ job[k].id < nextPull
  BY PlaceOfJob
<1>2. CASE Walked(j) /\ UNCHANGED placeVars
  <2>1. \A k \in Jobs : (Reserved(k))' = Reserved(k) /\ (Reserved(k) => job'[k].id = job[k].id)
    BY <1>2, NoneAssumption DEF Walked, Reserved
  <2>2. Running' = Running /\ pulls' = pulls /\ nextPull' = nextPull
    BY <1>2 DEF Running, placeVars
  <2> QED
    BY <2>1, <2>2 DEF Apart, Held
<1>3. CASE Placed(j) /\ Reserve(j)
  <2>1. /\ Reserved(j)' /\ job'[j].id = nextPull /\ nextPull \in Ids /\ ~Reserved(j)
    BY <1>0, <1>3, NoneAssumption DEF Placed, Reserved
  <2>2. \A k \in Jobs : k # j => (Reserved(k))' = Reserved(k) /\ job'[k] = job[k]
    BY <1>3 DEF Placed, Only, Reserved
  <2>3. pulls' = [pulls EXCEPT ![nextPull] = AccountOf[j]] /\ nextPull' = nextPull + 1
    BY <1>3 DEF Reserve
  <2>4. Running' \subseteq Running \cup {nextPull}
    BY <1>0, <2>1, <2>3 DEF Running
  <2>5. Apart'
    <3> SUFFICES ASSUME NEW k \in Jobs, NEW l \in Jobs, Reserved(k)', Reserved(l)', job'[k].id = job'[l].id
                 PROVE  k = l
      BY DEF Apart
    <3>1. CASE k # j /\ l # j
      BY <2>2, <3>1 DEF Apart
    <3>2. CASE k = j \/ l = j
      BY <1>0, <1>1, <2>1, <2>2, <3>2
    <3> QED
      BY <3>1, <3>2
  <2>6. \A k \in Jobs : Reserved(k)' => pulls'[job'[k].id] = AccountOf[k]
    <3> TAKE k \in Jobs
    <3>1. CASE k = j
      BY <1>0, <2>1, <2>3, <3>1
    <3>2. CASE k # j
      BY <1>0, <1>1, <2>2, <2>3, <3>2 DEF Held
    <3> QED
      BY <3>1, <3>2
  <2>7. \A i \in Running' : i < nextPull' /\ \E k \in Jobs : Reserved(k)' /\ job'[k].id = i
    <3> TAKE i \in Running'
    <3>1. CASE i = nextPull
      BY <1>0, <2>1, <2>3, <3>1
    <3>2. CASE i \in Running
      <4>1. PICK k \in Jobs : Reserved(k) /\ job[k].id = i
        BY <3>2 DEF Held
      <4>2. k # j
        BY <2>1, <4>1
      <4>3. i \in Nat /\ i < nextPull
        BY <1>0, <3>2 DEF Held, Running
      <4> QED
        BY <1>0, <2>2, <2>3, <4>1, <4>2, <4>3
    <3> QED
      BY <2>4, <3>1, <3>2
  <2> QED
    BY <2>5, <2>6, <2>7 DEF Held
<1>4. CASE Left(j) /\ job[j].id = None /\ UNCHANGED placeVars
  <2>1. \A k \in Jobs : (Reserved(k))' = Reserved(k) /\ (Reserved(k) => job'[k].id = job[k].id)
    BY <1>4, NoneAssumption DEF Left, Only, Reserved
  <2>2. Running' = Running /\ pulls' = pulls /\ nextPull' = nextPull
    BY <1>4 DEF Running, placeVars
  <2> QED
    BY <2>1, <2>2 DEF Apart, Held
<1>5. CASE Left(j) /\ job[j].id \in Ids /\ Release(j) /\ UNCHANGED nextPull
  <2>1. Reserved(j) /\ ~Reserved(j)'
    BY <1>0, <1>5, NoneAssumption DEF Left, Reserved
  <2>2. \A k \in Jobs : k # j => (Reserved(k))' = Reserved(k) /\ job'[k] = job[k]
    BY <1>5 DEF Left, Only, Reserved
  <2>3. pulls' = [pulls EXCEPT ![job[j].id] = None] /\ nextPull' = nextPull
    BY <1>5 DEF Release
  <2>4. Running' \subseteq Running \ {job[j].id}
    BY <1>0, <1>5, <2>3 DEF Running
  <2>5. Apart'
    BY <2>1, <2>2 DEF Apart
  <2>6. \A k \in Jobs : Reserved(k)' => pulls'[job'[k].id] = AccountOf[k]
    <3> SUFFICES ASSUME NEW k \in Jobs, Reserved(k)'
                 PROVE  pulls'[job'[k].id] = AccountOf[k]
      OBVIOUS
    <3>1. k # j /\ Reserved(k) /\ job'[k] = job[k]
      BY <2>1, <2>2
    <3>2. job[k].id # job[j].id /\ job[k].id \in Ids
      BY <1>1, <2>1, <3>1 DEF Apart
    <3> QED
      BY <1>0, <2>3, <3>1, <3>2 DEF Held
  <2>7. \A i \in Running' : i < nextPull' /\ \E k \in Jobs : Reserved(k)' /\ job'[k].id = i
    <3> TAKE i \in Running'
    <3>1. i \in Running /\ i # job[j].id
      BY <2>4
    <3>2. PICK k \in Jobs : Reserved(k) /\ job[k].id = i
      BY <3>1 DEF Held
    <3> QED
      BY <2>2, <2>3, <3>1, <3>2 DEF Held
  <2> QED
    BY <2>5, <2>6, <2>7 DEF Held
<1> QED
  BY <1>2, <1>3, <1>4, <1>5, PlacesMove

\* A set of places that gains no more than one place is no more than one larger.
LEMMA OneMore ==
  ASSUME NEW S \in SUBSET Ids, NEW T \in SUBSET Ids, NEW i \in Ids, T \subseteq S \cup {i}
  PROVE  /\ Cardinality(S) \in Nat /\ Cardinality(T) \in Nat
         /\ Cardinality(T) <= Cardinality(S) + 1
         /\ T \subseteq S => Cardinality(T) <= Cardinality(S)
<1>1. IsFiniteSet(Ids)
  BY FS_Interval, BoundsAssumption DEF Ids
<1>2. IsFiniteSet(S) /\ IsFiniteSet(T)
  BY <1>1, FS_Subset
<1>3. Cardinality(S) \in Nat /\ Cardinality(T) \in Nat
  BY <1>2, FS_CardinalityType
<1>4. IsFiniteSet(S \cup {i}) /\ Cardinality(S \cup {i}) \in {Cardinality(S), Cardinality(S) + 1}
  BY <1>2, <1>3, FS_AddElement
<1>5. Cardinality(T) <= Cardinality(S \cup {i})
  BY <1>4, FS_Subset
<1>6. T \subseteq S => Cardinality(T) <= Cardinality(S)
  BY <1>2, FS_Subset
<1> QED
  BY <1>3, <1>4, <1>5, <1>6

\* Neither limit is passed: the one who takes a place found room for it.
LEMMA LimitsStep ==
  ASSUME TypeOK, JobsStand, Limits, NEW j \in Jobs, Works(j)
  PROVE  Limits'
<1>0. /\ pulls \in [Ids -> Accounts \cup {None}] /\ MAX_RUNNING \in Nat /\ PerAccount \in Nat
      /\ None \notin Accounts /\ Running \in SUBSET Ids /\ \A a \in Accounts : Mine(a) \in SUBSET Ids
  BY BoundsAssumption, AccountsAssumption DEF TypeOK, Running, Mine
<1>1. CASE UNCHANGED placeVars
  BY <1>1 DEF placeVars, Limits, Running, Mine
<1>2. CASE Placed(j) /\ Reserve(j)
  <2>1. nextPull \in Ids /\ pulls' = [pulls EXCEPT ![nextPull] = AccountOf[j]] /\ Room(AccountOf[j])
    BY <1>2 DEF Placed, Reserve
  <2>2. Running' \in SUBSET Ids /\ Running' \subseteq Running \cup {nextPull}
    BY <1>0, <2>1 DEF Running
  <2>3. Cardinality(Running') <= MAX_RUNNING
    BY <1>0, <2>1, <2>2, OneMore DEF Room
  <2>4. ASSUME NEW a \in Accounts, PerAccount > 0
        PROVE  Cardinality(Mine(a)') <= PerAccount
    <3>1. Mine(a)' \in SUBSET Ids /\ Mine(a)' \subseteq Mine(a) \cup {nextPull}
      BY <1>0, <2>1 DEF Mine
    <3>2. CASE a = AccountOf[j]
      BY <1>0, <2>1, <2>4, <3>1, <3>2, OneMore DEF Room
    <3>3. CASE a # AccountOf[j]
      <4>1. Mine(a)' \subseteq Mine(a)
        BY <1>0, <2>1, <3>3 DEF Mine
      <4> QED
        BY <1>0, <2>1, <2>4, <3>1, <4>1, OneMore DEF Limits
    <3> QED
      BY <3>2, <3>3
  <2> QED
    BY <2>3, <2>4 DEF Limits
<1>3. CASE job[j].id \in Ids /\ Release(j)
  <2>1. pulls' = [pulls EXCEPT ![job[j].id] = None]
    BY <1>3 DEF Release
  <2>2. Running' \in SUBSET Ids /\ Running' \subseteq Running
    BY <1>0, <2>1 DEF Running
  <2>3. Cardinality(Running') <= MAX_RUNNING
    BY <1>0, <1>3, <2>2, OneMore DEF Limits
  <2>4. ASSUME NEW a \in Accounts, PerAccount > 0
        PROVE  Cardinality(Mine(a)') <= PerAccount
    <3>1. Mine(a)' \in SUBSET Ids /\ Mine(a)' \subseteq Mine(a)
      BY <1>0, <2>1 DEF Mine
    <3> QED
      BY <1>0, <1>3, <2>4, <3>1, OneMore DEF Limits
  <2> QED
    BY <2>3, <2>4 DEF Limits
<1> QED
  BY <1>1, <1>2, <1>3, PlacesMove

\* The other steps touch no place, except that a restart forgets them all.
LEMMA PlacesAlways ==
  ASSUME TypeOK, JobsStand, Apart, Held, Limits, [Next]_vars
  PROVE  Apart' /\ Held' /\ Limits'
<1>1. ASSUME NEW j \in Jobs, Works(j)
      PROVE  Apart' /\ Held' /\ Limits'
  BY <1>1, PlacesStep, LimitsStep
<1>2. ASSUME NEW j \in Jobs, NEW g \in Grants, Accept(j, g)
      PROVE  Apart' /\ Held' /\ Limits'
  <2>1. \A k \in Jobs : (Reserved(k))' = Reserved(k) /\ (Reserved(k) => job'[k].id = job[k].id)
    BY <1>2, CameStep DEF Came, Only, Reserved
  <2>2. Running' = Running /\ pulls' = pulls /\ nextPull' = nextPull /\ \A a \in Accounts : Mine(a)' = Mine(a)
    BY <1>2 DEF Running, Mine, placeVars, Accept
  <2> QED
    BY <2>1, <2>2 DEF Apart, Held, Limits
<1>3. CASE UNCHANGED <<job, pulls, nextPull>>
  BY <1>3 DEF Apart, Held, Limits, Reserved, Running, Mine
<1>4. CASE Restart
  <2>1. (\A k \in Jobs : ~Reserved(k))' /\ Running' = {} /\ \A a \in Accounts : Mine(a)' = {}
    BY <1>4, AccountsAssumption DEF Restart, Reserved, Running, Mine
  <2>2. Cardinality({}) = 0
    BY FS_EmptySet
  <2>3. 0 <= MAX_RUNNING /\ 0 <= PerAccount
    BY BoundsAssumption
  <2> QED
    BY <2>1, <2>2, <2>3 DEF Apart, Held, Limits
<1> QED
  BY <1>1, <1>2, <1>3, <1>4 DEF Next, SourceOpens, Cancel, Tick, Switch, Lose, LinkUp, LinkDown,
                                SessionEnds, SessionLost, vars, placeVars

-----------------------------------------------------------------------------
(* Staged files.                                                           *)

\* A part that is the job's own: what it is working on now.
Owns(j, part) ==
  /\ Reserved(j) /\ part = Part(j, job[j].way) /\ job[j].at \in {"seed", "recv"}

\* Working on an item stages its part, and whatever ends the work on it
\* removes the part.
LEMMA StagingWork ==
  ASSUME TypeOK, JobsStand, NEW j \in Jobs, Works(j), NEW part \in staging',
         part \in staging => \E k \in Jobs : Owns(k, part)
  PROVE  \E k \in Jobs : Owns(k, part)'
<1>0. job \in [Jobs -> Job \cup {None}] /\ (Walked(j) \/ Placed(j) \/ Left(j))
  BY WorksMoves DEF TypeOK
<1>1. \A k \in Jobs : k # j => job'[k] = job[k]
  BY <1>0 DEF Walked, Placed, Left, Only
<1>2. \A k \in Jobs : k # j /\ Owns(k, part) => Owns(k, part)'
  BY <1>1 DEF Owns, Reserved, Part
<1>3. job[j] \in Job /\ job[j] # None /\ Stands(job[j]) /\ job[j].way \in Ways
  BY <1>0, NoneAssumption DEF Walked, Placed, Left, JobsStand, Job
<1>4. CASE Seeded(j) \/ Served(j)
  <2>1. /\ job'[j].at \in {"seed", "recv"} /\ job'[j].id = job[j].id /\ job'[j].item = job[j].item
        /\ job'[j].way = job[j].way /\ job'[j] # None
    <3>1. CASE Seeded(j)
      BY <1>0, <1>3, <3>1, NoneAssumption, WalkStep DEF Seeded, Job, Walk, Walked
    <3>2. CASE Served(j)
      BY <1>0, <1>3, <3>2, NoneAssumption, WalkStep DEF Served, Goes, Job, Walk, Walked
    <3> QED
      BY <1>4, <3>1, <3>2
  <2>2. staging' = staging \cup {Part(j, job[j].way)} /\ job[j].id # None /\ job[j].at = "ask"
    BY <1>3, <1>4 DEF Seeded, Served, At, Stands
  <2>3. CASE part = Part(j, job[j].way)
    <3>1. Owns(j, part)'
      BY <2>1, <2>2, <2>3 DEF Owns, Reserved, Part
    <3> QED
      BY <3>1
  <2>4. CASE part \in staging
    <3>1. ~Owns(j, part)
      BY <2>2 DEF Owns
    <3> QED
      BY <1>2, <2>4, <3>1
  <2> QED
    BY <2>2, <2>3, <2>4
<1>5. CASE Renew(j)
  <2>1. /\ job'[j].at = job[j].at /\ job'[j].id = job[j].id /\ job'[j].item = job[j].item
        /\ job'[j].way = job[j].way /\ job'[j] # None
    BY <1>0, <1>3, <1>5, NoneAssumption, WalkStep DEF Renew, Job, Walk, Walked
  <2>2. Owns(j, part) => Owns(j, part)'
    BY <2>1 DEF Owns, Reserved, Part
  <2>3. staging' = staging
    BY <1>5 DEF Renew
  <2> QED
    BY <1>2, <2>2, <2>3
<1>6. CASE ~(Seeded(j) \/ Served(j) \/ Renew(j))
  <2>1. staging' \subseteq staging
    BY <1>6 DEF Works, Refuse, Reserve, Dialled, DialNext, DialFails, Purge, Spend, SpendFails,
                NextItem, FromSource, Missing, File, PullEnds
  <2>2. ~Owns(j, part)
    <3> SUFFICES ASSUME job[j].at \in {"seed", "recv"}, part = Part(j, job[j].way)
                 PROVE  FALSE
      BY DEF Owns
    <3>1. FromSource(j) \/ Missing(j) \/ File(j) \/ PullEnds(j)
      BY <1>6 DEF Works, At, Refuse, Reserve, Dialled, DialNext, DialFails, Purge, Spend, SpendFails,
                  NextItem
    <3>2. CASE FromSource(j) \/ Missing(j)
      <4>1. job[j].at = "seed" /\ staging' = staging \ {Part(j, "swarm")}
        BY <3>2 DEF FromSource, Missing, At
      <4> QED
        BY <1>3, <4>1 DEF Stands
    <3>3. CASE File(j)
      BY <3>3 DEF File
    <3>4. CASE PullEnds(j)
      BY <1>3, <3>4 DEF PullEnds
    <3> QED
      BY <3>1, <3>2, <3>3, <3>4
  <2> QED
    BY <1>2, <2>1, <2>2
<1> QED
  BY <1>4, <1>5, <1>6

\* What is staged stays owned, whoever steps.
LEMMA StagingStep ==
  ASSUME TypeOK, JobsStand, StagingOwned, [Next]_vars
  PROVE  StagingOwned'
<1>0. \A part \in staging : \E k \in Jobs : Owns(k, part)
  BY DEF StagingOwned, Owns
<1> SUFFICES ASSUME NEW part \in staging'
             PROVE  \E k \in Jobs : Owns(k, part)'
  BY DEF StagingOwned, Owns
<1>1. ASSUME NEW j \in Jobs, Works(j)
      PROVE  \E k \in Jobs : Owns(k, part)'
  BY <1>0, <1>1, StagingWork
<1>2. ASSUME NEW j \in Jobs, NEW g \in Grants, Accept(j, g)
      PROVE  \E k \in Jobs : Owns(k, part)'
  <2>1. PICK k \in Jobs : Owns(k, part)
    BY <1>0, <1>2 DEF Accept
  <2>2. job'[k] = job[k]
    BY <1>2, <2>1, CameStep DEF Came, Only, Owns, Reserved
  <2> QED
    BY <2>1, <2>2 DEF Owns, Reserved, Part
<1>3. CASE UNCHANGED <<job, staging>>
  BY <1>0, <1>3 DEF Owns, Reserved, Part
<1>4. CASE Restart
  BY <1>4 DEF Restart
<1> QED
  BY <1>1, <1>2, <1>3, <1>4 DEF Next, SourceOpens, Cancel, Tick, Switch, Lose, LinkUp, LinkDown,
                                SessionEnds, SessionLost, vars

-----------------------------------------------------------------------------
(* Pull sessions at the source.                                            *)

\* A session at the source stays held by a pull under way, or is shut.
LEMMA SessionStep ==
  ASSUME TypeOK, JobsStand, SessionHeld, [Next]_vars
  PROVE  SessionHeld'
<1>0. session \in [Grants -> Jobs \cup {None, Shut}] /\ None \notin Jobs /\ Shut \notin Jobs
  BY JobsAssumption DEF TypeOK
<1> SUFFICES ASSUME NEW g \in Grants, NEW k \in Jobs, session'[g] = k
             PROVE  Reserved(k)' /\ job'[k].grant = g /\ job'[k].via = Direct
  BY DEF SessionHeld, Reserved
<1> DEFINE Holds == Reserved(k)' /\ job'[k].grant = g /\ job'[k].via = Direct
<1>1. ASSUME NEW j \in Jobs, Works(j)
      PROVE  Holds
  <2>1. /\ session'[g] = session[g]
        /\ HangUp(j) => session'[g] # j
    BY <1>0, <1>1, WorksFrame DEF HangUp
  <2>2. Reserved(k) /\ job[k].grant = g /\ job[k].via = Direct /\ k \in Jobs
    BY <2>1 DEF SessionHeld
  <2>3. CASE k # j
    <3>1. job'[k] = job[k]
      BY <1>1, <2>2, <2>3, WorksMoves DEF Walked, Placed, Left, Only
    <3> QED
      BY <2>2, <3>1 DEF Reserved
  <2>4. CASE k = j
    <3>1. ~Placed(j)
      BY <2>2, <2>4 DEF Placed, Reserved
    <3>2. ~Left(j)
      <4>1. ~HangUp(j)
        BY <2>1, <2>4
      <4>2. ~Refuse(j)
        BY <2>2, <2>4 DEF Refuse, At, Reserved, JobsStand, Stands
      <4>3. Walk(j) \/ Reserve(j)
        BY <1>1, <4>1, <4>2 DEF Works, Walk, DialFails, SpendFails, PullEnds, Ends
      <4> QED
        BY <4>3, WalkStep, PlacedStep, NoneAssumption DEF Walked, Placed, Left
    <3>3. Walked(j)
      BY <1>1, <3>1, <3>2, WorksMoves
    <3> QED
      BY <2>2, <2>4, <3>3, NoneAssumption DEF Walked, Reserved
  <2> QED
    BY <2>3, <2>4
<1>2. ASSUME NEW j \in Jobs, NEW h \in Grants, Accept(j, h)
      PROVE  Holds
  <2>1. session' = session /\ Reserved(k) /\ job[k].grant = g /\ job[k].via = Direct /\ k \in Jobs
    BY <1>2 DEF Accept, SessionHeld
  <2>2. job'[k] = job[k]
    BY <1>2, <2>1, CameStep DEF Came, Only, Reserved
  <2> QED
    BY <2>1, <2>2 DEF Reserved
<1>3. ASSUME NEW j \in Jobs, SourceOpens(j)
      PROVE  Holds
  <2>1. job[j] \in Job /\ job[j].at = "dial" /\ Reserved(j) /\ job[j].via = Direct /\ job[j].grant \in Grants
    BY <1>3 DEF SourceOpens, At, TypeOK, JobsStand, Stands, Reserved, Job
  <2>2. session' = [session EXCEPT ![job[j].grant] = j] /\ job' = job
    BY <1>3 DEF SourceOpens
  <2> QED
    BY <1>0, <2>1, <2>2 DEF SessionHeld, Reserved
<1>4. ASSUME NEW h \in Grants, SessionEnds(h) \/ SessionLost(h)
      PROVE  Holds
  BY <1>0, <1>4 DEF SessionEnds, SessionLost, SessionHeld, Reserved
<1>5. CASE UNCHANGED <<job, session>>
  BY <1>5 DEF SessionHeld, Reserved
<1>6. CASE Restart
  BY <1>0, <1>6 DEF Restart
<1>7. Holds
  BY <1>1, <1>2, <1>3, <1>4, <1>5, <1>6 DEF Next, Cancel, Tick, Switch, Lose, LinkUp, LinkDown, vars
<1> QED
  BY <1>7 DEF Reserved

-----------------------------------------------------------------------------
(* Grants.                                                                 *)

\* A grant that stands has started no pull, or one and is on the spent list;
\* and the list has no grant that has started none.
Spending ==
  \A g \in Grants : /\ clock < Expires[g] => starts[g] = 0 \/ (starts[g] = 1 /\ g \in spent)
                    /\ g \in spent => starts[g] > 0

\* A purge goes by the time a request was checked, which is never ahead of the
\* clock, so it leaves the rows of grants that stand; a spend finds none.
LEMMA SpendingStep ==
  ASSUME TypeOK, JobsStand, Spending, [Next]_vars
  PROVE  Spending'
<1>0. clock \in Nat /\ starts \in [Grants -> Nat] /\ Expires \in [Grants -> Nat]
  BY TimesAssumption DEF TypeOK
<1>1. ASSUME NEW j \in Jobs, Purge(j)
      PROVE  Spending'
  <2>1. job[j].now \in Nat /\ job[j].now <= clock
    BY <1>1 DEF Purge, At, TypeOK, JobsStand, Stands, Job
  <2>2. clock' = clock /\ starts' = starts /\ spent' = {g \in spent : Expires[g] > job[j].now}
    BY <1>1 DEF Purge, worldVars
  <2>3. \A g \in Grants : clock < Expires[g] => Expires[g] > job[j].now
    BY <1>0, <2>1
  <2> QED
    BY <2>2, <2>3 DEF Spending
<1>2. ASSUME NEW j \in Jobs, Spend(j)
      PROVE  Spending'
  <2>1. job[j].grant \in Grants \ spent
    BY <1>2 DEF Spend, At, TypeOK, Job
  <2>2. /\ clock' = clock /\ spent' = spent \cup {job[j].grant}
        /\ starts' = [starts EXCEPT ![job[j].grant] = @ + 1]
    BY <1>2 DEF Spend, worldVars
  <2> QED
    BY <1>0, <2>1, <2>2 DEF Spending
<1>3. CASE UNCHANGED <<spent, starts>> /\ clock' \in {clock, clock + 1}
  BY <1>0, <1>3 DEF Spending
<1>4. ASSUME NEW j \in Jobs, Works(j), ~Purge(j), ~Spend(j)
      PROVE  UNCHANGED <<spent, starts, clock>>
  BY <1>4 DEF Works, Refuse, Reserve, Dialled, DialNext, DialFails, SpendFails, NextItem, Seeded, Renew,
              FromSource, Served, Missing, File, PullEnds, worldVars
<1>5. \/ \E j \in Jobs : Purge(j) \/ Spend(j)
      \/ UNCHANGED <<spent, starts>> /\ clock' \in {clock, clock + 1}
  BY <1>4 DEF Next, Accept, SourceOpens, Cancel, Tick, Switch, Lose, LinkUp, LinkDown, SessionEnds,
              SessionLost, Restart, vars, worldVars
<1> QED
  BY <1>1, <1>2, <1>3, <1>5

-----------------------------------------------------------------------------
(* Stopping.                                                               *)

\* A job that has filed since it was told to stop has filed one file, and has
\* not begun another: it is about to look at its flag, or to ask a source that
\* will refuse.
Halted(j) == \/ job[j].at = "item" /\ Stopped(j)
             \/ job[j].at = "ask" /\ ~Granted(j)
Stopping == \A j \in Jobs : late[j] # 0 => late[j] = 1 /\ job[j] # None /\ Halted(j)

\* What halts a job is not undone by time, by a cancel or by a setting that is
\* switched off.
LEMMA HaltedStays ==
  ASSUME TypeOK, NEW k \in Jobs, job[k] \in Job, job'[k] = job[k], Halted(k),
         off \subseteq off', clock' \in {clock, clock + 1},
         Cancelled(k) => Cancelled(k)'
  PROVE  Halted(k)'
<1>1. clock \in Nat /\ Expires[job[k].grant] + SERVE_GRACE_SECS \in Nat
  BY TimesAssumption DEF TypeOK, Job
<1>2. Granted(k)' => Granted(k)
  BY <1>1 DEF Granted, On
<1>3. StillWanted' => StillWanted
  BY DEF StillWanted, On
<1> QED
  BY <1>2, <1>3 DEF Halted, Stopped

\* The work of a job, for itself and for a job that is halted.
LEMMA StoppingWork ==
  ASSUME TypeOK, JobsStand, Apart, Held, Stopping, NEW j \in Jobs, Works(j)
  PROVE  Stopping'
<1> SUFFICES ASSUME NEW k \in Jobs, late'[k] # 0
             PROVE  late'[k] = 1 /\ job'[k] # None /\ Halted(k)'
  BY DEF Stopping
<1>0. /\ job \in [Jobs -> Job \cup {None}] /\ late \in [Jobs -> Nat]
      /\ job[j] \in Job /\ job[j] # None /\ Stands(job[j])
  BY WorksMoves, NoneAssumption DEF TypeOK, JobsStand, Walked, Placed, Left
<1>1. off' = off /\ clock' = clock
  BY WorksFrame DEF worldVars
<1>2. CASE k # j
  <2>1. late'[k] = late[k] /\ job'[k] = job[k]
    BY <1>0, <1>2, WorksFrame, WorksMoves DEF File, Walked, Placed, Left, Only
  <2>2. late[k] = 1 /\ job[k] # None /\ Halted(k) /\ job[k] \in Job /\ Reserved(k)
    BY <1>0, <2>1 DEF Stopping, Halted, JobsStand, Stands, Reserved
  <2>3. Cancelled(k) => Cancelled(k)'
    <3>1. CASE Release(j) /\ Reserved(j)
      <4>1. job[k].id # job[j].id
        BY <1>2, <2>2, <3>1 DEF Apart
      <4> QED
        BY <2>1, <3>1, <4>1 DEF Cancelled, Release
    <3>2. CASE UNCHANGED cancelled
      BY <2>1, <3>2 DEF Cancelled
    <3>3. (Release(j) /\ Reserved(j)) \/ UNCHANGED cancelled
      <4>1. job[j].id \in Ids => Reserved(j)
        BY <1>0, NoneAssumption, BoundsAssumption DEF Reserved, Ids
      <4> QED
        BY <4>1, PlacesMove DEF Reserve, placeVars
    <3> QED
      BY <3>1, <3>2, <3>3
  <2> QED
    BY <1>1, <2>1, <2>2, <2>3, HaltedStays
<1>3. CASE k = j
  <2>1. CASE File(j)
    <3>1. late[j] = 0
      BY <1>0, <2>1 DEF File, At, Stopping, Halted
    <3>2. Stopped(j) /\ late'[j] = 1
      BY <1>0, <1>3, <2>1, <3>1 DEF File
    <3>3. Walked(j) /\ job'[j].at = "item"
      BY <1>0, <2>1, WalkStep DEF Walk, File, OnToNext, Job
    <3>4. cancelled' = cancelled
      BY <2>1 DEF File, placeVars
    <3>5. Stopped(j)'
      BY <1>1, <3>2, <3>3, <3>4 DEF Walked, Stopped, Cancelled, StillWanted, Granted, On
    <3> QED
      BY <1>3, <3>2, <3>3, <3>5, NoneAssumption DEF Walked, Halted
  <2>2. CASE ~File(j)
    <3>1. UNCHANGED late
      BY <1>0, <1>3, <2>2, WorksFrame
    <3>2. late[j] = 1 /\ Halted(j)
      BY <1>3, <3>1 DEF Stopping
    <3>3. late' # [late EXCEPT ![j] = 0]
      BY <1>0, <3>1, <3>2
    <3>4. NextItem(j) \/ FromSource(j)
      BY <2>2, <3>2, <3>3 DEF Works, Halted, At, Refuse, Reserve, Dialled, DialNext, DialFails, Purge,
           Spend, SpendFails, Seeded, Renew, Served, Missing, PullEnds, Ends
    <3>5. ~Granted(j)
      BY <3>2, <3>4 DEF Halted, NextItem, FromSource, MayGoOn, Stopped, At
    <3>6. Walked(j) /\ job'[j].at = "ask"
      <4>1. Walked(j)
        BY <3>4, WalkStep DEF Walk
      <4>2. job'[j].at = "ask"
        BY <1>0, <3>4 DEF NextItem, FromSource, Job
      <4> QED
        BY <4>1, <4>2
    <3>7. ~Granted(j)'
      BY <1>1, <3>5, <3>6 DEF Walked, Granted, On
    <3> QED
      BY <1>3, <3>1, <3>2, <3>6, <3>7, NoneAssumption DEF Walked, Halted
  <2> QED
    BY <2>1, <2>2
<1> QED
  BY <1>2, <1>3

\* ... and the steps of the others.
LEMMA StoppingStep ==
  ASSUME TypeOK, JobsStand, Apart, Held, Stopping, [Next]_vars
  PROVE  Stopping'
<1>1. ASSUME NEW j \in Jobs, NEW g \in Grants, Accept(j, g)
      PROVE  Stopping'
  <2> SUFFICES ASSUME NEW k \in Jobs, late'[k] # 0
               PROVE  late'[k] = 1 /\ job'[k] # None /\ Halted(k)'
    BY DEF Stopping
  <2>1. late' = late /\ off' = off /\ clock' = clock /\ cancelled' = cancelled /\ job[j] = None
    BY <1>1 DEF Accept, worldVars, placeVars
  <2>2. late[k] = 1 /\ job[k] # None /\ Halted(k) /\ job[k] \in Job
    BY <2>1 DEF Stopping, TypeOK
  <2>3. job'[k] = job[k]
    BY <1>1, <2>1, <2>2, CameStep DEF Came, Only
  <2> QED
    BY <2>1, <2>2, <2>3, HaltedStays DEF Cancelled
<1>2. ASSUME UNCHANGED <<job, late>>, off \subseteq off', clock' \in {clock, clock + 1},
             cancelled \subseteq cancelled'
      PROVE  Stopping'
  <2> SUFFICES ASSUME NEW k \in Jobs, late'[k] # 0
               PROVE  late'[k] = 1 /\ job'[k] # None /\ Halted(k)'
    BY DEF Stopping
  <2>1. late[k] = 1 /\ job[k] # None /\ Halted(k) /\ job[k] \in Job /\ job'[k] = job[k]
    BY <1>2 DEF Stopping, TypeOK
  <2>2. Cancelled(k) => Cancelled(k)'
    BY <1>2 DEF Cancelled
  <2> QED
    BY <1>2, <2>1, <2>2, HaltedStays
<1>3. CASE late' = [j \in Jobs |-> 0]
  BY <1>3 DEF Stopping
<1>4. \/ \E j \in Jobs, g \in Grants : Accept(j, g)
      \/ \E j \in Jobs : Works(j)
      \/ /\ UNCHANGED <<job, late>> /\ off \subseteq off' /\ clock' \in {clock, clock + 1}
         /\ cancelled \subseteq cancelled'
      \/ late' = [j \in Jobs |-> 0]
  BY DEF Next, SourceOpens, Cancel, Tick, Switch, Lose, LinkUp, LinkDown, SessionEnds, SessionLost,
         Restart, vars, worldVars, placeVars
<1> QED
  BY <1>1, <1>2, <1>3, <1>4, StoppingWork

-----------------------------------------------------------------------------
(* Theorems.                                                               *)

\* The inductive invariant.
PullsInv ==
  /\ TypeOK /\ JobsStand /\ Apart /\ Held /\ Limits /\ StagingOwned /\ SessionHeld
  /\ Spending /\ Stopping

\* It holds at the start and is kept by every step of every job, of the source
\* and of the two burrows, restarts included.
THEOREM PullsInductive == Spec => []PullsInv
<1>1. Init => PullsInv
  <2> SUFFICES ASSUME Init PROVE PullsInv
    OBVIOUS
  <2>1. TypeOK
    BY BoundsAssumption, SettingsAssumption DEF Init, TypeOK
  <2>2. JobsStand /\ Apart /\ StagingOwned /\ Stopping
    BY DEF Init, JobsStand, Apart, StagingOwned, Stopping, Reserved
  <2>3. Running = {} /\ \A a \in Accounts : Mine(a) = {}
    BY AccountsAssumption DEF Init, Running, Mine
  <2>4. Held
    BY <2>3 DEF Init, Held, Reserved
  <2>5. Limits
    BY <2>3, FS_EmptySet, BoundsAssumption DEF Limits
  <2>6. SessionHeld
    BY JobsAssumption DEF Init, SessionHeld
  <2>7. Spending
    BY DEF Init, Spending
  <2> QED
    BY <2>1, <2>2, <2>4, <2>5, <2>6, <2>7 DEF PullsInv
<1>2. PullsInv /\ [Next]_vars => PullsInv'
  BY TypeStep, JobsStandStep, PlacesAlways, StagingStep, SessionStep, SpendingStep, StoppingStep
     DEF PullsInv
<1> QED
  BY <1>1, <1>2, PTL DEF Spec

\* A grant counts once (accept, spend_pull_grant): however many requests race
\* with it, and through restarts, it starts at most one pull while it stands,
\* and what is on the spent list has started one.
THEOREM GrantsCountOnce == Spec => []GrantCountsOnce
<1>1. PullsInv => GrantCountsOnce
  BY DEF PullsInv, TypeOK, Spending, GrantCountsOnce, PulledOnce, SpentByAPull
<1> QED
  BY <1>1, PullsInductive, PTL

\* Nothing a pull takes is lost (reserve, release, sweep_staging, PullSession's
\* Drop): places, staged files and sessions at the source are each of one job
\* under way, and the places are within both limits.
THEOREM PullsLeakNothing == Spec => []NothingLeaks
<1>1. ASSUME PullsInv
      PROVE  NothingLeaks
  <2>1. ASSUME NEW i \in Running
        PROVE  Cardinality({j \in Jobs : Reserved(j) /\ job[j].id = i}) = 1
    <3>1. PICK k \in Jobs : Reserved(k) /\ job[k].id = i
      BY <1>1, <2>1 DEF PullsInv, Held
    <3>2. {j \in Jobs : Reserved(j) /\ job[j].id = i} = {k}
      BY <1>1, <3>1 DEF PullsInv, Apart
    <3> QED
      BY <3>2, FS_Singleton
  <2>2. PlacesHeld
    BY <1>1, <2>1 DEF PullsInv, Held, Limits, PlacesHeld
  <2> QED
    BY <1>1, <2>2 DEF PullsInv, NothingLeaks
<1> QED
  BY <1>1, PullsInductive, PTL

\* A stop is honoured (fetch_all, still_wanted, granted_item): once a pull is
\* told to stop, at either end, it files at most the file it had in hand.
THEOREM StopsAreHonoured == Spec => []StopHonoured
<1>1. PullsInv => StopHonoured
  BY DEF PullsInv, TypeOK, Stopping, StopHonoured
<1> QED
  BY <1>1, PullsInductive, PTL

\* No job goes round for ever (dial_endpoints, fetch_from_swarm, fetch_all):
\* each step of a request or a pull that does not end it leaves less to do.
THEOREM JobsComeNearer == Spec => NearerItsEnd
<1>1. ASSUME PullsInv, [Next]_vars
      PROVE  \A j \in Jobs : job[j] # None /\ job'[j] # None /\ job'[j] # job[j]
                               => Rank(job'[j]) < Rank(job[j])
  <2> SUFFICES ASSUME NEW k \in Jobs, job[k] # None, job'[k] # None, job'[k] # job[k]
               PROVE  Rank(job'[k]) < Rank(job[k])
    OBVIOUS
  <2> HIDE DEF Rank
  <2>1. TypeOK /\ JobsStand
    BY <1>1 DEF PullsInv
  <2>2. ASSUME NEW j \in Jobs, NEW g \in Grants, Came(j, g)
        PROVE  FALSE
    BY <2>2 DEF Came, Only
  <2>3. ASSUME NEW j \in Jobs, Walked(j) \/ Placed(j) \/ Left(j)
        PROVE  Rank(job'[k]) < Rank(job[k])
    BY <2>3 DEF Walked, Placed, Left, Only
  <2>4. ~Restart
    BY DEF Restart
  <2> QED
    BY <1>1, <2>1, <2>2, <2>3, <2>4, JobsMove
<1> QED
  BY <1>1, PullsInductive, PTL DEF Spec, NearerItsEnd
=============================================================================
