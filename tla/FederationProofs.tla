-------------------------- MODULE FederationProofs --------------------------
(***************************************************************************)
(* The two ends of federation inside one burrow: what a delivered event    *)
(* does to the boards (BoardIngest), for any number of tasks, posts and    *)
(* follow-ups, any times and targets, and any number of failures and       *)
(* restarts; and who is let in to deliver one (PeerSessions), for any      *)
(* number of peers and connections.                                        *)
(***************************************************************************)
EXTENDS BoardIngest, PeerSessions, FiniteSetTheorems, TLAPS

-----------------------------------------------------------------------------
(* BoardIngest.                                                            *)


\* Every variable keeps its type.
LEMMA TypeStep == ASSUME TypeOK, TaskInv, [Next]_vars PROVE TypeOK'
<1> USE EventsAssumption, BoundsAssumption
<1> USE TasksAssumption
<1> USE DEF window, Kept, TypeOK, TaskType, Followups, Events, Steps, PostSteps, FollowupSteps, None, Own, Gone
<1>1. ASSUME NEW t \in Tasks, Reserve(t) PROVE TypeOK'
  BY <1>1 DEF Reserve, At, Goto, Put, Finish, TaskInv, Idle
<1>2. ASSUME NEW t \in Tasks, Insert(t) PROVE TypeOK'
  BY <1>2 DEF Insert, At, Goto, Put, InsertPost, TaskInv, Idle
<1>3. ASSUME NEW t \in Tasks, ReadOverflow(t) PROVE TypeOK'
  BY <1>3 DEF ReadOverflow, At, Put, TaskInv, Idle
<1>4. ASSUME NEW t \in Tasks, DeleteThread(t) PROVE TypeOK'
  BY <1>4 DEF DeleteThread, At, Put, TaskInv, Idle
<1>5. ASSUME NEW t \in Tasks, DeleteForRoot(t) PROVE TypeOK'
  BY <1>5 DEF DeleteForRoot, At, Put, TaskInv, Idle
<1>6. ASSUME NEW t \in Tasks, Retained(t) PROVE TypeOK'
  BY <1>6 DEF Retained, At, Goto, Put, Finish, TaskInv, Idle
<1>7. ASSUME NEW t \in Tasks, ReadPending(t) PROVE TypeOK'
  BY <1>7 DEF ReadPending, At, Put, pending_for, TaskInv, Idle
<1>8. ASSUME NEW t \in Tasks, ApplyPending(t) PROVE TypeOK'
  BY <1>8, SMTT(30) DEF ApplyPending, At, Put, apply_followup, Astray, TaskInv, Idle
<1>9. ASSUME NEW t \in Tasks, MarkApplied(t) PROVE TypeOK'
  BY <1>9 DEF MarkApplied, At, Put, Astray, TaskInv, Idle
<1>10. ASSUME NEW t \in Tasks, Reconciled(t) PROVE TypeOK'
  BY <1>10 DEF Reconciled, At, Goto, Put, TaskInv, Idle
<1>11. ASSUME NEW t \in Tasks, Lookup(t) PROVE TypeOK'
  BY <1>11 DEF Lookup, At, Goto, Put, Finish, commit, TaskInv, Idle
<1>12. ASSUME NEW t \in Tasks, StoreApplied(t) PROVE TypeOK'
  BY <1>12 DEF StoreApplied, At, Goto, Put, InsertFollowup, TaskInv, Idle
<1>13. ASSUME NEW t \in Tasks, ApplyNow(t) PROVE TypeOK'
  BY <1>13 DEF ApplyNow, At, Goto, Put, apply_followup, Astray, TaskInv, Idle
<1>14. ASSUME NEW t \in Tasks, StorePending(t) PROVE TypeOK'
  BY <1>14 DEF StorePending, At, Goto, Put, InsertFollowup, TaskInv, Idle
<1>15. ASSUME NEW t \in Tasks, Publish(t) PROVE TypeOK'
  BY <1>15 DEF Publish, At, Finish, commit, TaskInv, Idle
<1>16. ASSUME NEW t \in Tasks, Fail(t) PROVE TypeOK'
  BY <1>16 DEF Fail, At, Finish, Torn, drop, TaskInv, Idle
<1>17. ASSUME NEW t \in Tasks, NEW e \in Events, Deliver(t, e) PROVE TypeOK'
  BY <1>17 DEF Deliver, At, Start, Deliverable, Stored, TaskInv, Idle
<1>18. ASSUME NEW t \in Tasks, NEW p \in Posts, LocalPost(t, p) PROVE TypeOK'
  BY <1>18 DEF LocalPost, At, Start, InsertPost, TaskInv, Idle
<1>19. ASSUME NEW t \in Tasks, NEW f \in Followups, LocalFollowup(t, f) PROVE TypeOK'
  BY <1>19 DEF LocalFollowup, At, Start, TaskInv, Idle
<1>20. ASSUME Restart PROVE TypeOK'
  BY <1>20 DEF Restart, Torn, TaskInv, Idle
<1>21. ASSUME UNCHANGED vars PROVE TypeOK'
  BY <1>21 DEF vars, TaskInv, Idle, At
<1>22. ASSUME NEW e \in Events, evict(e) PROVE TypeOK'
  BY <1>22 DEF evict
<1> HIDE DEF TypeOK
<1> QED BY <1>1, <1>2, <1>3, <1>4, <1>5, <1>6, <1>7, <1>8, <1>9, <1>10, <1>11, <1>12, <1>13, <1>14, <1>15, <1>16, <1>17, <1>18, <1>19, <1>20, <1>21, <1>22 DEF Next, Step

\* What a task carries keeps fitting the step it is at.
LEMMA TaskStep == ASSUME TypeOK, TaskInv, [Next]_vars PROVE TaskInv'
<1> USE EventsAssumption
<1>0. task \in [Tasks -> TaskType] /\ posts \subseteq Posts
  BY DEF TypeOK
<1> USE DEF window, TaskInv, TaskType, Followups, Events, Steps, PostSteps, FollowupSteps, None, Idle
<1>1. ASSUME NEW t \in Tasks, Reserve(t) PROVE TaskInv'
  <2>1. CASE task' = [task EXCEPT ![t] = Idle]
    BY <1>0, <2>1
  <2>2. CASE task[t].event \in Posts /\ Goto(t, "insert")
    BY <1>0, <1>1, <2>2 DEF Reserve, At, Goto, Put
  <2>3. CASE task[t].event \notin Posts /\ Goto(t, "lookup")
    BY <1>0, <1>1, <2>3 DEF Reserve, At, Goto, Put
  <2> QED BY <1>1, <2>1, <2>2, <2>3 DEF Reserve, Finish
<1>2. ASSUME NEW t \in Tasks, Insert(t) PROVE TaskInv'
  BY <1>0, <1>2 DEF Insert, At, Goto, Put, InsertPost
<1>3. ASSUME NEW t \in Tasks, ReadOverflow(t) PROVE TaskInv'
  BY <1>0, <1>3 DEF ReadOverflow, At, Put
<1>4. ASSUME NEW t \in Tasks, DeleteThread(t) PROVE TaskInv'
  BY <1>0, <1>4 DEF DeleteThread, At, Put
<1>5. ASSUME NEW t \in Tasks, DeleteForRoot(t) PROVE TaskInv'
  BY <1>0, <1>5 DEF DeleteForRoot, At, Put
<1>6. ASSUME NEW t \in Tasks, Retained(t) PROVE TaskInv'
  <2>1. CASE task' = [task EXCEPT ![t] = Idle]
    BY <1>0, <2>1
  <2>2. CASE task[t].via = "peer" /\ Goto(t, "reconcile")
    BY <1>0, <1>6, <2>2 DEF Retained, At, Goto, Put
  <2> QED BY <1>6, <2>1, <2>2 DEF Retained, Finish
<1>7. ASSUME NEW t \in Tasks, ReadPending(t) PROVE TaskInv'
  BY <1>0, <1>7 DEF ReadPending, At, Put, pending_for
<1>8. ASSUME NEW t \in Tasks, ApplyPending(t) PROVE TaskInv'
  <2>1. PICK f \in Followups :
          /\ f \in task[t].todo
          /\ \/ f \in Authorized /\ Put(t, "mark", task[t].todo, f)
             \/ Put(t, "apply", task[t].todo \ {f}, None)
    BY <1>0, <1>8 DEF ApplyPending, At
  <2>2. CASE f \in Authorized /\ Put(t, "mark", task[t].todo, f)
    BY <1>0, <1>8, <2>1, <2>2 DEF ApplyPending, At, Put
  <2>3. CASE Put(t, "apply", task[t].todo \ {f}, None)
    BY <1>0, <1>8, <2>1, <2>3 DEF ApplyPending, At, Put
  <2> QED BY <2>1, <2>2, <2>3
<1>9. ASSUME NEW t \in Tasks, MarkApplied(t) PROVE TaskInv'
  BY <1>0, <1>9 DEF MarkApplied, At, Put, Astray
<1>10. ASSUME NEW t \in Tasks, Reconciled(t) PROVE TaskInv'
  BY <1>0, <1>10 DEF Reconciled, At, Goto, Put
<1>11. ASSUME NEW t \in Tasks, Lookup(t) PROVE TaskInv'
  <2>1. CASE task' = [task EXCEPT ![t] = Idle]
    BY <1>0, <2>1
  <2>2. CASE Goto(t, "park")
    BY <1>0, <1>11, <2>2 DEF Lookup, At, Goto, Put
  <2>3. CASE Goto(t, "store")
    BY <1>0, <1>11, <2>3 DEF Lookup, At, Goto, Put
  <2> QED BY <1>11, <2>1, <2>2, <2>3 DEF Lookup, Finish
<1>12. ASSUME NEW t \in Tasks, StoreApplied(t) PROVE TaskInv'
  BY <1>0, <1>12 DEF StoreApplied, At, Goto, Put, InsertFollowup
<1>13. ASSUME NEW t \in Tasks, ApplyNow(t) PROVE TaskInv'
  BY <1>0, <1>13 DEF ApplyNow, At, Goto, Put, apply_followup, Astray
<1>14. ASSUME NEW t \in Tasks, StorePending(t) PROVE TaskInv'
  BY <1>0, <1>14 DEF StorePending, At, Goto, Put, InsertFollowup
<1>15. ASSUME NEW t \in Tasks, Publish(t) PROVE TaskInv'
  BY <1>0, <1>15 DEF Publish, At, Finish, commit
<1>16. ASSUME NEW t \in Tasks, Fail(t) PROVE TaskInv'
  BY <1>0, <1>16 DEF Fail, At, Finish, Torn, drop
<1>17. ASSUME NEW t \in Tasks, NEW e \in Events, Deliver(t, e) PROVE TaskInv'
  BY <1>0, <1>17 DEF Deliver, At, Start, Deliverable, Stored
<1>18. ASSUME NEW t \in Tasks, NEW p \in Posts, LocalPost(t, p) PROVE TaskInv'
  BY <1>0, <1>18 DEF LocalPost, At, Start, InsertPost
<1>19. ASSUME NEW t \in Tasks, NEW f \in Followups, LocalFollowup(t, f) PROVE TaskInv'
  BY <1>0, <1>19 DEF LocalFollowup, At, Start
<1>20. ASSUME Restart PROVE TaskInv'
  BY <1>0, <1>20 DEF Restart
<1>21. ASSUME UNCHANGED vars PROVE TaskInv'
  BY <1>0, <1>21 DEF vars
<1>22. ASSUME NEW e \in Events, evict(e) PROVE TaskInv'
  BY <1>0, <1>22 DEF evict
<1> HIDE DEF TaskInv
<1> QED BY <1>1, <1>2, <1>3, <1>4, <1>5, <1>6, <1>7, <1>8, <1>9, <1>10, <1>11, <1>12, <1>13, <1>14, <1>15, <1>16, <1>17, <1>18, <1>19, <1>20, <1>21, <1>22 DEF Next, Step

\* The tasks ingesting an event can be counted.
LEMMA Counted ==
  ASSUME NEW e \in Events
  PROVE  /\ IsFiniteSet(Ingesters(e)) /\ Cardinality(Ingesters(e)) \in Nat
         /\ IsFiniteSet(Ingesters(e)') /\ Cardinality(Ingesters(e)') \in Nat
<1>1. Ingesters(e) \subseteq Tasks /\ Ingesters(e)' \subseteq Tasks
  BY DEF Ingesters
<1> QED BY <1>1, TasksAssumption, FS_Subset, FS_CardinalityType

\* How a count changes with its set.
LEMMA Counting ==
  ASSUME NEW S, NEW T, IsFiniteSet(S), NEW t
  PROVE  /\ T \subseteq S => Cardinality(T) <= Cardinality(S)
         /\ t \in S /\ T \subseteq S \ {t} => Cardinality(T) <= Cardinality(S) - 1
         /\ T \subseteq S \cup {t} => Cardinality(T) <= Cardinality(S) + 1
<1>1. T \subseteq S => Cardinality(T) <= Cardinality(S)
  BY FS_Subset
<1>2. ASSUME t \in S, T \subseteq S \ {t} PROVE Cardinality(T) <= Cardinality(S) - 1
  <2>1. IsFiniteSet(S \ {t}) /\ Cardinality(S \ {t}) = Cardinality(S) - 1
    BY <1>2, FS_RemoveElement
  <2> QED BY <1>2, <2>1, FS_Subset
<1>3. ASSUME T \subseteq S \cup {t} PROVE Cardinality(T) <= Cardinality(S) + 1
  <2>1. IsFiniteSet(S \cup {t}) /\ Cardinality(S \cup {t}) <= Cardinality(S) + 1
    BY FS_AddElement, FS_CardinalityType
  <2>2. /\ Cardinality(T) <= Cardinality(S \cup {t}) /\ Cardinality(T) \in Nat
        /\ Cardinality(S \cup {t}) \in Nat /\ Cardinality(S) \in Nat
    BY <1>3, <2>1, FS_Subset, FS_CardinalityType
  <2> QED BY <2>1, <2>2
<1> QED BY <1>1, <1>2, <1>3

\* A step that starts no ingest and leaves the window alone.
LEMMA KeepReserve ==
  ASSUME TypeOK, ReserveInv, UNCHANGED <<seen, fired, forgets, lapsed>>,
         \A u \in Tasks, e \in Events : Ingesting(u, e)' => Ingesting(u, e)
  PROVE  ReserveInv'
<1>1. ASSUME NEW e \in Events
      PROVE  fired'[e] + Cardinality(Ingesters(e)') <= Entry(e)' + forgets'[e]
  <2>1. Ingesters(e)' \subseteq Ingesters(e)
    BY DEF Ingesters
  <2>2. Cardinality(Ingesters(e)') <= Cardinality(Ingesters(e))
    BY <2>1, Counted, Counting
  <2>3. fired[e] + Cardinality(Ingesters(e)) <= Entry(e) + forgets[e] /\ Entry(e)' = Entry(e)
    BY DEF ReserveInv, Entry
  <2>4. fired[e] \in Nat /\ forgets[e] \in Nat /\ Entry(e) \in Nat
    BY DEF TypeOK, Entry
  <2> QED BY <2>2, <2>3, <2>4, Counted
<1>2. \A e \in Events, u \in Tasks : Ingesting(u, e)' => seen'[e] = u \/ e \in lapsed'
  BY DEF ReserveInv
<1> QED BY <1>1, <1>2 DEF ReserveInv

\* A step that ends an ingest: at most one re-fire, or none when the entry
\* goes with it.
LEMMA EndReserve ==
  ASSUME TypeOK, ReserveInv, NEW t \in Tasks, NEW d \in Events, Ingesting(t, d),
         task' = [task EXCEPT ![t] = Idle], UNCHANGED <<forgets, lapsed>>,
         \A e \in Events : e # d => fired'[e] = fired[e], fired'[d] \in Nat,
         \A e \in Events : e # d \/ seen[d] # t => seen'[e] = seen[e],
         fired'[d] + Entry(d) <= fired[d] + 1 + Entry(d)'
  PROVE  ReserveInv'
<1>0. task \in [Tasks -> TaskType] /\ fired \in [Events -> Nat] /\ forgets \in [Events -> Nat]
  BY DEF TypeOK
<1>1. \A u \in Tasks, e \in Events : Ingesting(u, e)' => Ingesting(u, e) /\ u # t
  BY <1>0 DEF Ingesting, Idle
<1>2. ASSUME NEW e \in Events
      PROVE  fired'[e] + Cardinality(Ingesters(e)') <= Entry(e)' + forgets'[e]
  <2>0. fired[e] + Cardinality(Ingesters(e)) <= Entry(e) + forgets[e] /\ Entry(e) \in Nat /\ Entry(e)' \in Nat
    BY DEF ReserveInv, Entry
  <2>1. CASE e = d
    <3>1. t \in Ingesters(e) /\ Ingesters(e)' \subseteq Ingesters(e) \ {t}
      BY <1>1, <2>1 DEF Ingesters
    <3>2. Cardinality(Ingesters(e)') <= Cardinality(Ingesters(e)) - 1
      BY <3>1, Counted, Counting
    <3> QED BY <1>0, <2>0, <2>1, <3>2, Counted
  <2>2. CASE e # d
    <3>1. Ingesters(e)' \subseteq Ingesters(e) /\ Entry(e)' = Entry(e)
      BY <1>1, <2>2 DEF Ingesters, Entry
    <3>2. Cardinality(Ingesters(e)') <= Cardinality(Ingesters(e))
      BY <3>1, Counted, Counting
    <3> QED BY <1>0, <2>0, <2>2, <3>1, <3>2, Counted
  <2> QED BY <2>1, <2>2
<1>3. \A e \in Events, u \in Tasks : Ingesting(u, e)' => seen'[e] = u \/ e \in lapsed'
  BY <1>1 DEF ReserveInv
<1> QED BY <1>2, <1>3 DEF ReserveInv

\* Every ingest and every re-fire has had an entry of its own: an entry is
\* made with an ingest, and goes with a failed one or by being forgotten.
LEMMA ReserveStep == ASSUME TypeOK, TaskInv, ReserveInv, [Next]_vars PROVE ReserveInv'
<1> USE TasksAssumption
<1>0. /\ task \in [Tasks -> TaskType] /\ fired \in [Events -> Nat] /\ forgets \in [Events -> Nat]
      /\ seen \in [Events -> Tasks \cup {None, Kept}]
  BY DEF TypeOK
<1>a. \A e \in Events : fired[e] + Cardinality(Ingesters(e)) <= Entry(e) + forgets[e]
  BY DEF ReserveInv
<1>b. \A e \in Events, u \in Tasks : Ingesting(u, e) => seen[e] = u \/ e \in lapsed
  BY DEF ReserveInv
<1>c. \A e \in Events : Entry(e) \in Nat /\ Entry(e)' \in Nat
  BY DEF Entry
<1> USE DEF Ingesting, TaskType, TaskInv, Idle, None, Kept, PostSteps, FollowupSteps, Steps, window
<1>1. ASSUME NEW t \in Tasks, Reserve(t) PROVE ReserveInv'
  <2> DEFINE d == task[t].event
  <2>0. d \in Events /\ task[t].via = "peer"
    BY <1>0, <1>1 DEF Reserve, At
  <2>1. CASE seen[d] # None
    <3>1. \A u \in Tasks, e \in Events : Ingesting(u, e)' => Ingesting(u, e)
      BY <1>0, <1>1, <2>1 DEF Reserve, Finish
    <3> QED BY <1>1, <2>1, <3>1, KeepReserve DEF Reserve
  <2>2. CASE seen[d] = None
    <3>1. seen' = [seen EXCEPT ![d] = t] /\ UNCHANGED <<fired, forgets, lapsed>>
      BY <1>1, <2>2 DEF Reserve
    <3>2. \A u \in Tasks, e \in Events : Ingesting(u, e)' => Ingesting(u, e) \/ (u = t /\ e = d)
      BY <1>0, <1>1, <2>2 DEF Reserve, Goto, Put
    <3>3. ASSUME NEW e \in Events
          PROVE  fired'[e] + Cardinality(Ingesters(e)') <= Entry(e)' + forgets'[e]
      <4>1. CASE e = d
        <5>1. Entry(e) = 0 /\ Entry(e)' = 1
          BY <1>0, <2>0, <2>2, <3>1, <4>1 DEF Entry
        <5>2. Ingesters(e)' \subseteq Ingesters(e) \cup {t}
          BY <3>2 DEF Ingesters
        <5>3. Cardinality(Ingesters(e)') <= Cardinality(Ingesters(e)) + 1
          BY <5>2, Counted, Counting
        <5> QED BY <1>0, <1>a, <3>1, <5>1, <5>3, Counted
      <4>2. CASE e # d
        <5>1. Entry(e)' = Entry(e)
          BY <1>0, <3>1, <4>2 DEF Entry
        <5>2. Ingesters(e)' \subseteq Ingesters(e)
          BY <3>2, <4>2 DEF Ingesters
        <5>3. Cardinality(Ingesters(e)') <= Cardinality(Ingesters(e))
          BY <5>2, Counted, Counting
        <5> QED BY <1>0, <1>a, <1>c, <3>1, <5>1, <5>3, Counted
      <4> QED BY <4>1, <4>2
    <3>4. \A e \in Events, u \in Tasks : Ingesting(u, e)' => seen'[e] = u \/ e \in lapsed'
      <4> SUFFICES ASSUME NEW e \in Events, NEW u \in Tasks, Ingesting(u, e)'
                   PROVE  seen'[e] = u \/ e \in lapsed
        BY <3>1
      <4>1. CASE u = t /\ e = d
        BY <1>0, <3>1, <4>1
      <4>2. CASE Ingesting(u, e)
        BY <1>0, <1>b, <2>2, <3>1, <4>2, TasksAssumption
      <4> QED BY <3>2, <4>1, <4>2
    <3> HIDE DEF d
    <3> QED BY <3>3, <3>4 DEF ReserveInv
  <2> QED BY <2>1, <2>2
<1>2. ASSUME NEW t \in Tasks, Insert(t) PROVE ReserveInv'
  <2>1. \A u \in Tasks, e \in Events : Ingesting(u, e)' => Ingesting(u, e)
    BY <1>0, <1>2 DEF Insert, At, Goto, Put
  <2> QED BY <1>2, <2>1, KeepReserve DEF Insert
<1>3. ASSUME NEW t \in Tasks, ReadOverflow(t) PROVE ReserveInv'
  <2>1. \A u \in Tasks, e \in Events : Ingesting(u, e)' => Ingesting(u, e)
    BY <1>0, <1>3 DEF ReadOverflow, At, Put
  <2> QED BY <1>3, <2>1, KeepReserve DEF ReadOverflow
<1>4. ASSUME NEW t \in Tasks, DeleteThread(t) PROVE ReserveInv'
  <2>1. \A u \in Tasks, e \in Events : Ingesting(u, e)' => Ingesting(u, e)
    BY <1>0, <1>4 DEF DeleteThread, At, Put
  <2> QED BY <1>4, <2>1, KeepReserve DEF DeleteThread
<1>5. ASSUME NEW t \in Tasks, DeleteForRoot(t) PROVE ReserveInv'
  <2>1. \A u \in Tasks, e \in Events : Ingesting(u, e)' => Ingesting(u, e)
    BY <1>0, <1>5 DEF DeleteForRoot, At, Put
  <2> QED BY <1>5, <2>1, KeepReserve DEF DeleteForRoot
<1>6. ASSUME NEW t \in Tasks, Retained(t) PROVE ReserveInv'
  <2>1. \A u \in Tasks, e \in Events : Ingesting(u, e)' => Ingesting(u, e)
    BY <1>0, <1>6 DEF Retained, At, Goto, Put, Finish
  <2> QED BY <1>6, <2>1, KeepReserve DEF Retained
<1>7. ASSUME NEW t \in Tasks, ReadPending(t) PROVE ReserveInv'
  <2>1. \A u \in Tasks, e \in Events : Ingesting(u, e)' => Ingesting(u, e)
    BY <1>0, <1>7 DEF ReadPending, At, Put
  <2> QED BY <1>7, <2>1, KeepReserve DEF ReadPending
<1>8. ASSUME NEW t \in Tasks, ApplyPending(t) PROVE ReserveInv'
  <2>1. \A u \in Tasks, e \in Events : Ingesting(u, e)' => Ingesting(u, e)
    BY <1>0, <1>8 DEF ApplyPending, At, Put
  <2> QED BY <1>8, <2>1, KeepReserve DEF ApplyPending
<1>9. ASSUME NEW t \in Tasks, MarkApplied(t) PROVE ReserveInv'
  <2>1. \A u \in Tasks, e \in Events : Ingesting(u, e)' => Ingesting(u, e)
    BY <1>0, <1>9 DEF MarkApplied, At, Put
  <2> QED BY <1>9, <2>1, KeepReserve DEF MarkApplied
<1>10. ASSUME NEW t \in Tasks, Reconciled(t) PROVE ReserveInv'
  <2>1. \A u \in Tasks, e \in Events : Ingesting(u, e)' => Ingesting(u, e)
    BY <1>0, <1>10 DEF Reconciled, At, Goto, Put
  <2> QED BY <1>10, <2>1, KeepReserve DEF Reconciled
<1>11. ASSUME NEW t \in Tasks, Lookup(t) PROVE ReserveInv'
  <2>0. PICK d \in Events : d = task[t].event /\ Ingesting(t, d)
    BY <1>0, <1>11 DEF Lookup, At
  <2>1. CASE Finish(t) /\ commit(t)
    <3>1. \A e \in Events : e # d \/ seen[d] # t => seen'[e] = seen[e]
      BY <1>0, <2>0, <2>1 DEF commit
    <3>2. Entry(d)' = Entry(d)
      BY <1>0, <2>0, <2>1 DEF commit, Entry
    <3>3. UNCHANGED <<fired, forgets, lapsed>>
      BY <1>11 DEF Lookup
    <3>4. fired'[d] + Entry(d) <= fired[d] + 1 + Entry(d)'
      BY <1>0, <1>c, <2>0, <3>2, <3>3
    <3>5. fired'[d] \in Nat /\ \A e \in Events : e # d => fired'[e] = fired[e]
      BY <1>0, <3>3
    <3>6. task' = [task EXCEPT ![t] = Idle]
      BY <2>1 DEF Finish
    <3> QED BY <2>0, <3>1, <3>3, <3>4, <3>5, <3>6, EndReserve
  <2>2. CASE UNCHANGED seen /\ (Goto(t, "park") \/ Goto(t, "store"))
    <3>1. \A u \in Tasks, e \in Events : Ingesting(u, e)' => Ingesting(u, e)
      BY <1>0, <1>11, <2>2 DEF Lookup, At, Goto, Put
    <3> QED BY <1>11, <2>2, <3>1, KeepReserve DEF Lookup
  <2> QED BY <1>11, <2>1, <2>2 DEF Lookup
<1>12. ASSUME NEW t \in Tasks, StoreApplied(t) PROVE ReserveInv'
  <2>1. \A u \in Tasks, e \in Events : Ingesting(u, e)' => Ingesting(u, e)
    BY <1>0, <1>12 DEF StoreApplied, At, Goto, Put
  <2> QED BY <1>12, <2>1, KeepReserve DEF StoreApplied
<1>13. ASSUME NEW t \in Tasks, ApplyNow(t) PROVE ReserveInv'
  <2>1. \A u \in Tasks, e \in Events : Ingesting(u, e)' => Ingesting(u, e)
    BY <1>0, <1>13 DEF ApplyNow, At, Goto, Put
  <2> QED BY <1>13, <2>1, KeepReserve DEF ApplyNow
<1>14. ASSUME NEW t \in Tasks, StorePending(t) PROVE ReserveInv'
  <2>1. \A u \in Tasks, e \in Events : Ingesting(u, e)' => Ingesting(u, e)
    BY <1>0, <1>14 DEF StorePending, At, Goto, Put
  <2> QED BY <1>14, <2>1, KeepReserve DEF StorePending
<1>15. ASSUME NEW t \in Tasks, Publish(t) PROVE ReserveInv'
  <2>0. PICK d \in Events : d = task[t].event /\ task' = [task EXCEPT ![t] = Idle] /\ UNCHANGED <<forgets, lapsed>>
    BY <1>0, <1>15 DEF Publish, At, Finish
  <2>1. CASE task[t].via # "peer"
    <3>1. \A u \in Tasks, e \in Events : Ingesting(u, e)' => Ingesting(u, e)
      BY <1>0, <2>0
    <3> QED BY <1>15, <2>0, <2>1, <3>1, KeepReserve DEF Publish
  <2>2. CASE task[t].via = "peer"
    <3>1. Ingesting(t, d)
      BY <1>15, <2>0, <2>2 DEF Publish, At
    <3>2. \A e \in Events : e # d \/ seen[d] # t => seen'[e] = seen[e]
      BY <1>0, <1>15, <2>0, <2>2 DEF Publish, commit
    <3>3. \A e \in Events : e # d => fired'[e] = fired[e]
      BY <1>0, <1>15, <2>0, <2>2 DEF Publish
    <3>4. fired'[d] \in Nat /\ fired'[d] + Entry(d) <= fired[d] + 1 + Entry(d)'
      BY <1>0, <1>c, <1>15, <2>0, <2>2 DEF Publish, commit, Entry
    <3> QED BY <2>0, <3>1, <3>2, <3>3, <3>4, EndReserve
  <2> QED BY <2>1, <2>2
<1>16. ASSUME NEW t \in Tasks, Fail(t) PROVE ReserveInv'
  <2>0. PICK d \in Events : d = task[t].event /\ task' = [task EXCEPT ![t] = Idle] /\ UNCHANGED <<forgets, lapsed>>
    BY <1>0, <1>16 DEF Fail, At, Finish
  <2>1. CASE task[t].via # "peer"
    <3>1. \A u \in Tasks, e \in Events : Ingesting(u, e)' => Ingesting(u, e)
      BY <1>0, <2>0
    <3> QED BY <1>16, <2>0, <2>1, <3>1, KeepReserve DEF Fail
  <2>2. CASE task[t].via = "peer"
    <3>1. Ingesting(t, d)
      BY <1>16, <2>0, <2>2 DEF Fail, At
    <3>2. \A e \in Events : e # d \/ seen[d] # t => seen'[e] = seen[e]
      BY <1>0, <1>16, <2>0, <2>2 DEF Fail, drop
    <3>3. \A e \in Events : e # d => fired'[e] = fired[e]
      BY <1>0, <1>16, <2>0, <2>2 DEF Fail
    <3>4. fired'[d] \in Nat /\ fired'[d] + Entry(d) <= fired[d] + 1 + Entry(d)'
      BY <1>0, <1>c, <1>16, <2>0, <2>2 DEF Fail, drop, Entry
    <3> QED BY <2>0, <3>1, <3>2, <3>3, <3>4, EndReserve
  <2> QED BY <2>1, <2>2
<1>17. ASSUME NEW t \in Tasks, NEW g \in Events, Deliver(t, g) PROVE ReserveInv'
  <2>1. \A u \in Tasks, e \in Events : Ingesting(u, e)' => Ingesting(u, e)
    BY <1>0, <1>17 DEF Deliver, At, Start
  <2> QED BY <1>17, <2>1, KeepReserve DEF Deliver
<1>18. ASSUME NEW t \in Tasks, NEW p \in Posts, LocalPost(t, p) PROVE ReserveInv'
  <2>1. \A u \in Tasks, e \in Events : Ingesting(u, e)' => Ingesting(u, e)
    BY <1>0, <1>18 DEF LocalPost, At, Start
  <2> QED BY <1>18, <2>1, KeepReserve DEF LocalPost
<1>19. ASSUME NEW t \in Tasks, NEW f \in Followups, LocalFollowup(t, f) PROVE ReserveInv'
  <2>1. \A u \in Tasks, e \in Events : Ingesting(u, e)' => Ingesting(u, e)
    BY <1>0, <1>19 DEF LocalFollowup, At, Start
  <2> QED BY <1>19, <2>1, KeepReserve DEF LocalFollowup
<1>20. ASSUME Restart PROVE ReserveInv'
  <2>1. ASSUME NEW e \in Events
        PROVE  fired'[e] + Cardinality(Ingesters(e)') <= Entry(e)' + forgets'[e]
    <3>1. Ingesters(e)' = {}
      BY <1>20 DEF Restart, Ingesters
    <3>2. Cardinality(Ingesters(e)') = 0
      BY <3>1, FS_EmptySet
    <3> QED BY <1>20, <1>c, <3>2 DEF Restart
  <2>2. \A e \in Events, u \in Tasks : ~Ingesting(u, e)'
    BY <1>20 DEF Restart
  <2> QED BY <2>1, <2>2 DEF ReserveInv
<1>21. ASSUME UNCHANGED vars PROVE ReserveInv'
  BY <1>21, KeepReserve DEF vars
<1>22. ASSUME NEW d \in Events, evict(d) PROVE ReserveInv'
  <2>1. \A e \in Events : Ingesters(e)' = Ingesters(e) /\ fired'[e] = fired[e]
    BY <1>22 DEF evict, Ingesters
  <2>2. \A e \in Events : Entry(e)' + forgets'[e] = Entry(e) + forgets[e]
    BY <1>0, <1>22 DEF evict, Entry
  <2>3. \A e \in Events : fired'[e] + Cardinality(Ingesters(e)') <= Entry(e)' + forgets'[e]
    BY <1>a, <2>1, <2>2
  <2>4. \A e \in Events, u \in Tasks : Ingesting(u, e)' => seen'[e] = u \/ e \in lapsed'
    BY <1>0, <1>b, <1>22 DEF evict
  <2> QED BY <2>3, <2>4 DEF ReserveInv
<1> QED BY <1>1, <1>2, <1>3, <1>4, <1>5, <1>6, <1>7, <1>8, <1>9, <1>10, <1>11, <1>12, <1>13, <1>14, <1>15, <1>16, <1>17, <1>18, <1>19, <1>20, <1>21, <1>22 DEF Next, Step

\* A reservation is given back with the task that held it, or kept for good
\* with the re-fire.
LEMMA BlockedStep == ASSUME TypeOK, TaskInv, NothingBlocked, [Next]_vars PROVE NothingBlocked'
<1> USE TasksAssumption
<1>0. /\ task \in [Tasks -> TaskType] /\ fired \in [Events -> Nat]
      /\ seen \in [Events -> Tasks \cup {None, Kept}]
  BY DEF TypeOK
<1> USE DEF window, NothingBlocked, Kept, Ingesting, TaskType, TaskInv, Idle, None, PostSteps, FollowupSteps, Steps
<1>1. ASSUME NEW t \in Tasks, Reserve(t) PROVE NothingBlocked'
  BY <1>0, <1>1 DEF Reserve, At, Goto, Put, Finish
<1>2. ASSUME NEW t \in Tasks, Insert(t) PROVE NothingBlocked'
  BY <1>0, <1>2 DEF Insert, At, Goto, Put, InsertPost
<1>3. ASSUME NEW t \in Tasks, ReadOverflow(t) PROVE NothingBlocked'
  BY <1>0, <1>3 DEF ReadOverflow, At, Put
<1>4. ASSUME NEW t \in Tasks, DeleteThread(t) PROVE NothingBlocked'
  BY <1>0, <1>4 DEF DeleteThread, At, Put
<1>5. ASSUME NEW t \in Tasks, DeleteForRoot(t) PROVE NothingBlocked'
  BY <1>0, <1>5 DEF DeleteForRoot, At, Put
<1>6. ASSUME NEW t \in Tasks, Retained(t) PROVE NothingBlocked'
  BY <1>0, <1>6 DEF Retained, At, Goto, Put, Finish
<1>7. ASSUME NEW t \in Tasks, ReadPending(t) PROVE NothingBlocked'
  BY <1>0, <1>7 DEF ReadPending, At, Put, pending_for
<1>8. ASSUME NEW t \in Tasks, ApplyPending(t) PROVE NothingBlocked'
  BY <1>0, <1>8 DEF ApplyPending, At, Put, apply_followup, Astray
<1>9. ASSUME NEW t \in Tasks, MarkApplied(t) PROVE NothingBlocked'
  BY <1>0, <1>9 DEF MarkApplied, At, Put, Astray
<1>10. ASSUME NEW t \in Tasks, Reconciled(t) PROVE NothingBlocked'
  BY <1>0, <1>10 DEF Reconciled, At, Goto, Put
<1>11. ASSUME NEW t \in Tasks, Lookup(t) PROVE NothingBlocked'
  BY <1>0, <1>11 DEF Lookup, At, Goto, Put, Finish, commit
<1>12. ASSUME NEW t \in Tasks, StoreApplied(t) PROVE NothingBlocked'
  BY <1>0, <1>12 DEF StoreApplied, At, Goto, Put, InsertFollowup
<1>13. ASSUME NEW t \in Tasks, ApplyNow(t) PROVE NothingBlocked'
  BY <1>0, <1>13 DEF ApplyNow, At, Goto, Put, apply_followup, Astray
<1>14. ASSUME NEW t \in Tasks, StorePending(t) PROVE NothingBlocked'
  BY <1>0, <1>14 DEF StorePending, At, Goto, Put, InsertFollowup
<1>15. ASSUME NEW t \in Tasks, Publish(t) PROVE NothingBlocked'
  BY <1>0, <1>15 DEF Publish, At, Finish, commit
<1>16. ASSUME NEW t \in Tasks, Fail(t) PROVE NothingBlocked'
  BY <1>0, <1>16 DEF Fail, At, Finish, Torn, drop
<1>17. ASSUME NEW t \in Tasks, NEW e \in Events, Deliver(t, e) PROVE NothingBlocked'
  BY <1>0, <1>17 DEF Deliver, At, Start, Deliverable, Stored
<1>18. ASSUME NEW t \in Tasks, NEW p \in Posts, LocalPost(t, p) PROVE NothingBlocked'
  BY <1>0, <1>18 DEF LocalPost, At, Start, InsertPost
<1>19. ASSUME NEW t \in Tasks, NEW f \in Followups, LocalFollowup(t, f) PROVE NothingBlocked'
  BY <1>0, <1>19 DEF LocalFollowup, At, Start
<1>20. ASSUME Restart PROVE NothingBlocked'
  BY <1>0, <1>20 DEF Restart
<1>21. ASSUME UNCHANGED vars PROVE NothingBlocked'
  BY <1>0, <1>21 DEF vars
<1>22. ASSUME NEW e \in Events, evict(e) PROVE NothingBlocked'
  BY <1>0, <1>22 DEF evict
<1> HIDE DEF NothingBlocked
<1> QED BY <1>1, <1>2, <1>3, <1>4, <1>5, <1>6, <1>7, <1>8, <1>9, <1>10, <1>11, <1>12, <1>13, <1>14, <1>15, <1>16, <1>17, <1>18, <1>19, <1>20, <1>21, <1>22 DEF Next, Step

\* Only what passed the gate reaches a row's text.
LEMMA GateStep == ASSUME TypeOK, TaskInv, GateInv, [Next]_vars PROVE GateInv'
<1> USE EventsAssumption
<1>0. /\ task \in [Tasks -> TaskType] /\ shown \in [Posts -> {Own, Gone} \cup Edits]
      /\ tombstoned \subseteq Posts
  BY DEF TypeOK
<1> USE DEF window, GateInv, OnlyAuthorizedShown, Permitted, TaskType, TaskInv, Idle, None, Own, Gone,
            PostSteps, FollowupSteps, Steps, Followups, Events
<1>1. ASSUME NEW t \in Tasks, Reserve(t) PROVE GateInv'
  BY <1>0, <1>1 DEF Reserve, At, Goto, Put, Finish
<1>2. ASSUME NEW t \in Tasks, Insert(t) PROVE GateInv'
  BY <1>0, <1>2 DEF Insert, At, Goto, Put, InsertPost
<1>3. ASSUME NEW t \in Tasks, ReadOverflow(t) PROVE GateInv'
  BY <1>0, <1>3 DEF ReadOverflow, At, Put
<1>4. ASSUME NEW t \in Tasks, DeleteThread(t) PROVE GateInv'
  BY <1>0, <1>4 DEF DeleteThread, At, Put
<1>5. ASSUME NEW t \in Tasks, DeleteForRoot(t) PROVE GateInv'
  BY <1>0, <1>5 DEF DeleteForRoot, At, Put
<1>6. ASSUME NEW t \in Tasks, Retained(t) PROVE GateInv'
  BY <1>0, <1>6 DEF Retained, At, Goto, Put, Finish
<1>7. ASSUME NEW t \in Tasks, ReadPending(t) PROVE GateInv'
  BY <1>0, <1>7 DEF ReadPending, At, Put, pending_for
<1>8. ASSUME NEW t \in Tasks, ApplyPending(t) PROVE GateInv'
  BY <1>0, <1>8 DEF ApplyPending, At, Put, apply_followup, Astray
<1>9. ASSUME NEW t \in Tasks, MarkApplied(t) PROVE GateInv'
  BY <1>0, <1>9 DEF MarkApplied, At, Put, Astray
<1>10. ASSUME NEW t \in Tasks, Reconciled(t) PROVE GateInv'
  BY <1>0, <1>10 DEF Reconciled, At, Goto, Put
<1>11. ASSUME NEW t \in Tasks, Lookup(t) PROVE GateInv'
  BY <1>0, <1>11 DEF Lookup, At, Goto, Put, Finish, commit
<1>12. ASSUME NEW t \in Tasks, StoreApplied(t) PROVE GateInv'
  BY <1>0, <1>12 DEF StoreApplied, At, Goto, Put, InsertFollowup
<1>13. ASSUME NEW t \in Tasks, ApplyNow(t) PROVE GateInv'
  BY <1>0, <1>13 DEF ApplyNow, At, Goto, Put, apply_followup, Astray
<1>14. ASSUME NEW t \in Tasks, StorePending(t) PROVE GateInv'
  BY <1>0, <1>14 DEF StorePending, At, Goto, Put, InsertFollowup
<1>15. ASSUME NEW t \in Tasks, Publish(t) PROVE GateInv'
  BY <1>0, <1>15 DEF Publish, At, Finish, commit
<1>16. ASSUME NEW t \in Tasks, Fail(t) PROVE GateInv'
  BY <1>0, <1>16 DEF Fail, At, Finish, Torn, drop
<1>17. ASSUME NEW t \in Tasks, NEW e \in Events, Deliver(t, e) PROVE GateInv'
  BY <1>0, <1>17 DEF Deliver, At, Start, Deliverable, Stored
<1>18. ASSUME NEW t \in Tasks, NEW p \in Posts, LocalPost(t, p) PROVE GateInv'
  BY <1>0, <1>18 DEF LocalPost, At, Start, InsertPost
<1>19. ASSUME NEW t \in Tasks, NEW f \in Followups, LocalFollowup(t, f) PROVE GateInv'
  BY <1>0, <1>19 DEF LocalFollowup, At, Start
<1>20. ASSUME Restart PROVE GateInv'
  BY <1>0, <1>20 DEF Restart
<1>21. ASSUME UNCHANGED vars PROVE GateInv'
  BY <1>0, <1>21 DEF vars
<1>22. ASSUME NEW e \in Events, evict(e) PROVE GateInv'
  BY <1>0, <1>22 DEF evict
<1> HIDE DEF GateInv
<1> QED BY <1>1, <1>2, <1>3, <1>4, <1>5, <1>6, <1>7, <1>8, <1>9, <1>10, <1>11, <1>12, <1>13, <1>14, <1>15, <1>16, <1>17, <1>18, <1>19, <1>20, <1>21, <1>22 DEF Next, Step

\* Nothing acts on a post of ours before it was made.
LEMMA MintStep == ASSUME TypeOK, TaskInv, MintInv, [Next]_vars PROVE MintInv'
<1> USE EventsAssumption
<1>0. task \in [Tasks -> TaskType] /\ rows \in [Followups -> {"none", "pending", "applied"}]
  BY DEF TypeOK
<1> USE DEF window, MintInv, TaskType, TaskInv, Idle, None, PostSteps, FollowupSteps, Steps, Followups, Events
<1>1. ASSUME NEW t \in Tasks, Reserve(t) PROVE MintInv'
  BY <1>0, <1>1 DEF Reserve, At, Goto, Put, Finish
<1>2. ASSUME NEW t \in Tasks, Insert(t) PROVE MintInv'
  BY <1>0, <1>2 DEF Insert, At, Goto, Put, InsertPost
<1>3. ASSUME NEW t \in Tasks, ReadOverflow(t) PROVE MintInv'
  BY <1>0, <1>3 DEF ReadOverflow, At, Put
<1>4. ASSUME NEW t \in Tasks, DeleteThread(t) PROVE MintInv'
  BY <1>0, <1>4 DEF DeleteThread, At, Put
<1>5. ASSUME NEW t \in Tasks, DeleteForRoot(t) PROVE MintInv'
  BY <1>0, <1>5 DEF DeleteForRoot, At, Put
<1>6. ASSUME NEW t \in Tasks, Retained(t) PROVE MintInv'
  BY <1>0, <1>6 DEF Retained, At, Goto, Put, Finish
<1>7. ASSUME NEW t \in Tasks, ReadPending(t) PROVE MintInv'
  BY <1>0, <1>7 DEF ReadPending, At, Put, pending_for
<1>8. ASSUME NEW t \in Tasks, ApplyPending(t) PROVE MintInv'
  BY <1>0, <1>8 DEF ApplyPending, At, Put, apply_followup, Astray
<1>9. ASSUME NEW t \in Tasks, MarkApplied(t) PROVE MintInv'
  BY <1>0, <1>9 DEF MarkApplied, At, Put, Astray
<1>10. ASSUME NEW t \in Tasks, Reconciled(t) PROVE MintInv'
  BY <1>0, <1>10 DEF Reconciled, At, Goto, Put
<1>11. ASSUME NEW t \in Tasks, Lookup(t) PROVE MintInv'
  BY <1>0, <1>11 DEF Lookup, At, Goto, Put, Finish, commit
<1>12. ASSUME NEW t \in Tasks, StoreApplied(t) PROVE MintInv'
  BY <1>0, <1>12 DEF StoreApplied, At, Goto, Put, InsertFollowup
<1>13. ASSUME NEW t \in Tasks, ApplyNow(t) PROVE MintInv'
  BY <1>0, <1>13 DEF ApplyNow, At, Goto, Put, apply_followup, Astray
<1>14. ASSUME NEW t \in Tasks, StorePending(t) PROVE MintInv'
  BY <1>0, <1>14 DEF StorePending, At, Goto, Put, InsertFollowup
<1>15. ASSUME NEW t \in Tasks, Publish(t) PROVE MintInv'
  BY <1>0, <1>15 DEF Publish, At, Finish, commit
<1>16. ASSUME NEW t \in Tasks, Fail(t) PROVE MintInv'
  BY <1>0, <1>16 DEF Fail, At, Finish, Torn, drop
<1>17. ASSUME NEW t \in Tasks, NEW e \in Events, Deliver(t, e) PROVE MintInv'
  BY <1>0, <1>17 DEF Deliver, At, Start, Deliverable, Stored
<1>18. ASSUME NEW t \in Tasks, NEW p \in Posts, LocalPost(t, p) PROVE MintInv'
  BY <1>0, <1>18 DEF LocalPost, At, Start, InsertPost
<1>19. ASSUME NEW t \in Tasks, NEW f \in Followups, LocalFollowup(t, f) PROVE MintInv'
  BY <1>0, <1>19 DEF LocalFollowup, At, Start
<1>20. ASSUME Restart PROVE MintInv'
  BY <1>0, <1>20 DEF Restart
<1>21. ASSUME UNCHANGED vars PROVE MintInv'
  BY <1>0, <1>21 DEF vars
<1>22. ASSUME NEW e \in Events, evict(e) PROVE MintInv'
  BY <1>0, <1>22 DEF evict
<1> HIDE DEF MintInv
<1> QED BY <1>1, <1>2, <1>3, <1>4, <1>5, <1>6, <1>7, <1>8, <1>9, <1>10, <1>11, <1>12, <1>13, <1>14, <1>15, <1>16, <1>17, <1>18, <1>19, <1>20, <1>21, <1>22 DEF Next, Step

\* A follow-up that waits beside its post is ahead of the task that
\* reconciles it, was parked too late, or its post's ingest was cut.
LEMMA WaitStep == ASSUME TypeOK, TaskInv, MintInv, WaitInv, [Next]_vars PROVE WaitInv'
<1> USE EventsAssumption
<1>0. /\ task \in [Tasks -> TaskType] /\ rows \in [Followups -> {"none", "pending", "applied"}]
      /\ cut \subseteq Events /\ late \subseteq Followups
  BY DEF TypeOK
<1> USE DEF window, WaitInv, WillReconcile, TaskType, TaskInv, MintInv, Idle, None, PostSteps, FollowupSteps,
            Steps, Followups, Events
<1>1. ASSUME NEW t \in Tasks, Reserve(t) PROVE WaitInv'
  <2>1. \A u \in Tasks : u # t => task'[u] = task[u]
    BY <1>0, <1>1 DEF Reserve, Goto, Put, Finish
  <2>2. \A f \in Followups : ~WillReconcile(t, f)
    BY <1>1 DEF Reserve, At
  <2>3. rows' = rows /\ posts' = posts /\ late' = late /\ cut' = cut
    BY <1>1 DEF Reserve
  <2> QED BY <2>1, <2>2, <2>3
<1>2. ASSUME NEW t \in Tasks, Insert(t) PROVE WaitInv'
  BY <1>0, <1>2 DEF Insert, At, Goto, Put, InsertPost
<1>3. ASSUME NEW t \in Tasks, ReadOverflow(t) PROVE WaitInv'
  BY <1>0, <1>3 DEF ReadOverflow, At, Put
<1>4. ASSUME NEW t \in Tasks, DeleteThread(t) PROVE WaitInv'
  BY <1>0, <1>4 DEF DeleteThread, At, Put
<1>5. ASSUME NEW t \in Tasks, DeleteForRoot(t) PROVE WaitInv'
  BY <1>0, <1>5 DEF DeleteForRoot, At, Put
<1>6. ASSUME NEW t \in Tasks, Retained(t) PROVE WaitInv'
  BY <1>0, <1>6 DEF Retained, At, Goto, Put, Finish
<1>7. ASSUME NEW t \in Tasks, ReadPending(t) PROVE WaitInv'
  BY <1>0, <1>7 DEF ReadPending, At, Put, pending_for
<1>8. ASSUME NEW t \in Tasks, ApplyPending(t) PROVE WaitInv'
  BY <1>0, <1>8 DEF ApplyPending, At, Put, apply_followup, Astray
<1>9. ASSUME NEW t \in Tasks, MarkApplied(t) PROVE WaitInv'
  BY <1>0, <1>9 DEF MarkApplied, At, Put, Astray
<1>10. ASSUME NEW t \in Tasks, Reconciled(t) PROVE WaitInv'
  BY <1>0, <1>10 DEF Reconciled, At, Goto, Put
<1>11. ASSUME NEW t \in Tasks, Lookup(t) PROVE WaitInv'
  BY <1>0, <1>11 DEF Lookup, At, Goto, Put, Finish, commit
<1>12. ASSUME NEW t \in Tasks, StoreApplied(t) PROVE WaitInv'
  BY <1>0, <1>12 DEF StoreApplied, At, Goto, Put, InsertFollowup
<1>13. ASSUME NEW t \in Tasks, ApplyNow(t) PROVE WaitInv'
  BY <1>0, <1>13 DEF ApplyNow, At, Goto, Put, apply_followup, Astray
<1>14. ASSUME NEW t \in Tasks, StorePending(t) PROVE WaitInv'
  BY <1>0, <1>14 DEF StorePending, At, Goto, Put, InsertFollowup
<1>15. ASSUME NEW t \in Tasks, Publish(t) PROVE WaitInv'
  BY <1>0, <1>15 DEF Publish, At, Finish, commit
<1>16. ASSUME NEW t \in Tasks, Fail(t) PROVE WaitInv'
  BY <1>0, <1>16 DEF Fail, At, Finish, Torn, drop
<1>17. ASSUME NEW t \in Tasks, NEW e \in Events, Deliver(t, e) PROVE WaitInv'
  BY <1>0, <1>17 DEF Deliver, At, Start, Deliverable, Stored
<1>18. ASSUME NEW t \in Tasks, NEW p \in Posts, LocalPost(t, p) PROVE WaitInv'
  BY <1>0, <1>18 DEF LocalPost, At, Start, InsertPost
<1>19. ASSUME NEW t \in Tasks, NEW f \in Followups, LocalFollowup(t, f) PROVE WaitInv'
  BY <1>0, <1>19 DEF LocalFollowup, At, Start
<1>20. ASSUME Restart PROVE WaitInv'
  BY <1>0, <1>20 DEF Restart, Torn
<1>21. ASSUME UNCHANGED vars PROVE WaitInv'
  BY <1>0, <1>21 DEF vars
<1>22. ASSUME NEW e \in Events, evict(e) PROVE WaitInv'
  BY <1>0, <1>22 DEF evict
<1> HIDE DEF WaitInv
<1> QED BY <1>1, <1>2, <1>3, <1>4, <1>5, <1>6, <1>7, <1>8, <1>9, <1>10, <1>11, <1>12, <1>13, <1>14, <1>15, <1>16, <1>17, <1>18, <1>19, <1>20, <1>21, <1>22 DEF Next, Step

\* A tombstone the table calls applied has wiped its post or has an excuse.
LEMMA WipeStep == ASSUME TypeOK, TaskInv, ReserveInv, MintInv, WipeInv, [Next]_vars PROVE WipeInv'
<1> USE EventsAssumption
<1>0. /\ task \in [Tasks -> TaskType] /\ rows \in [Followups -> {"none", "pending", "applied"}]
      /\ cut \subseteq Events /\ tombstoned \subseteq Posts
  BY DEF TypeOK
<1> USE DEF window, WipeInv, Excused, At, TaskType, TaskInv, MintInv, Idle, None, PostSteps, FollowupSteps,
            Steps, Followups, Events
<1>1. ASSUME NEW t \in Tasks, Reserve(t) PROVE WipeInv'
  BY <1>0, <1>1 DEF Reserve, At, Goto, Put, Finish
<1>2. ASSUME NEW t \in Tasks, Insert(t) PROVE WipeInv'
  <2>1. \A u \in Tasks :
          task[u].pc = "mark" => task[u].event # task[t].event \/ task[u].event \in lapsed
    BY <1>0, <1>2 DEF Insert, ReserveInv, Ingesting
  <2>2. \A u \in Tasks : task'[u].pc = "mark" => task[u].pc = "mark" /\ task'[u] = task[u]
    BY <1>0, <1>0, <1>2 DEF Insert, Goto, Put
  <2>3. \A u \in Tasks : task[u].pc \in {"applyNow", "cascade"} => task'[u] = task[u]
    BY <1>0, <1>0, <1>2 DEF Insert, Goto, Put
  <2>4. \A p \in Posts : p \in tombstoned /\ p # task[t].event => p \in tombstoned'
    BY <1>0, <1>2 DEF Insert, InsertPost
  <2>5. \A p \in posts : p \in posts' /\ (p \in tombstoned => p \in tombstoned')
    BY <1>0, <1>2 DEF Insert, InsertPost
  <2>6. rows' = rows /\ cut' = cut /\ lapsed' = lapsed
    BY <1>0, <1>2 DEF Insert
  <2>7. \A f \in Tombstones : Excused(f) => Excused(f)'
    BY <2>3, <2>6
  <2> QED BY <1>0, <2>1, <2>2, <2>4, <2>5, <2>6, <2>7
<1>3. ASSUME NEW t \in Tasks, ReadOverflow(t) PROVE WipeInv'
  BY <1>0, <1>3 DEF ReadOverflow, At, Put
<1>4. ASSUME NEW t \in Tasks, DeleteThread(t) PROVE WipeInv'
  BY <1>0, <1>4 DEF DeleteThread, At, Put
<1>5. ASSUME NEW t \in Tasks, DeleteForRoot(t) PROVE WipeInv'
  BY <1>0, <1>5 DEF DeleteForRoot, At, Put
<1>6. ASSUME NEW t \in Tasks, Retained(t) PROVE WipeInv'
  BY <1>0, <1>6, SMTT(30) DEF Retained, At, Goto, Put, Finish
<1>7. ASSUME NEW t \in Tasks, ReadPending(t) PROVE WipeInv'
  BY <1>0, <1>7 DEF ReadPending, At, Put, pending_for
<1>8. ASSUME NEW t \in Tasks, ApplyPending(t) PROVE WipeInv'
  BY <1>0, <1>8, SMTT(30) DEF ApplyPending, At, Put, apply_followup, Astray
<1>9. ASSUME NEW t \in Tasks, MarkApplied(t) PROVE WipeInv'
  <2> DEFINE f == task[t].at
  <2>1. f \in Followups /\ f \in task[t].todo /\ TargetOf[f] = task[t].event
    BY <1>0, <1>0, <1>9 DEF MarkApplied
  <2>2. \A u \in Tasks : u # t => task'[u] = task[u]
    BY <1>0, <1>0, <1>9 DEF MarkApplied, Put
  <2>3. task'[t].pc = "apply"
    BY <1>0, <1>0, <1>9 DEF MarkApplied, Put
  <2>4. cut \subseteq cut' /\ (TargetOf[f] \notin posts => f \in cut')
    BY <1>0, <1>9 DEF MarkApplied, Astray
  <2>5. \A g \in Followups : g # f => rows'[g] = rows[g]
    BY <1>0, <1>0, <2>1, <1>9 DEF MarkApplied
  <2>6. posts' = posts /\ tombstoned' = tombstoned /\ lapsed' = lapsed
    BY <1>0, <1>9 DEF MarkApplied
  <2>7. \A g \in Tombstones : Excused(g) => Excused(g)'
    BY <2>2, <2>4, <2>6, <1>9 DEF MarkApplied
  <2>8. f \in Tombstones => TargetOf[f] \in posts \cap tombstoned \/ f \in cut' \/ TargetOf[f] \in lapsed
    BY <2>4, <1>9 DEF MarkApplied
  <2>9. \A g \in Tombstones :
          rows'[g] = "applied" => TargetOf[g] \in posts' \cap tombstoned' \/ Excused(g)'
    BY <2>5, <2>6, <2>7, <2>8
  <2> QED BY <2>2, <2>3, <2>4, <2>6, <2>9
<1>10. ASSUME NEW t \in Tasks, Reconciled(t) PROVE WipeInv'
  BY <1>0, <1>10 DEF Reconciled, At, Goto, Put
<1>11. ASSUME NEW t \in Tasks, Lookup(t) PROVE WipeInv'
  <2>1. task'[t].pc \in {"idle", "park", "store"}
    BY <1>0, <1>0, <1>11 DEF Lookup, Goto, Put, Finish
  <2>2. \A u \in Tasks : u # t => task'[u] = task[u]
    BY <1>0, <1>0, <1>11 DEF Lookup, Goto, Put, Finish
  <2> QED BY <2>1, <2>2, <1>11 DEF Lookup
<1>12. ASSUME NEW t \in Tasks, StoreApplied(t) PROVE WipeInv'
  BY <1>0, <1>12 DEF StoreApplied, At, Goto, Put, InsertFollowup
<1>13. ASSUME NEW t \in Tasks, ApplyNow(t) PROVE WipeInv'
  <2> DEFINE f == task[t].event
  <2>1. f \in Followups /\ TargetOf[f] \in Posts
    BY <1>0, <1>0, <1>13 DEF ApplyNow
  <2>2. task'[t].pc = "done" /\ \A u \in Tasks : u # t => task'[u] = task[u]
    BY <1>0, <1>0, <1>13 DEF ApplyNow, Goto, Put
  <2>3. tombstoned \subseteq tombstoned'
    BY <1>0, <1>13 DEF ApplyNow, apply_followup
  <2>4. f \in Tombstones => TargetOf[f] \in posts \cap tombstoned' \/ f \in cut'
    BY <1>0, <1>13 DEF ApplyNow, apply_followup, Astray
  <2>5. cut \subseteq cut' /\ posts' = posts /\ rows' = rows /\ lapsed' = lapsed
    BY <1>0, <1>13 DEF ApplyNow, Astray
  <2>6. \A g \in Tombstones : Excused(g) => g = f \/ Excused(g)'
    BY <2>2, <2>5, <1>13 DEF ApplyNow
  <2>7. \A g \in Tombstones :
          rows'[g] = "applied" => TargetOf[g] \in posts' \cap tombstoned' \/ Excused(g)'
    BY <2>3, <2>4, <2>5, <2>6
  <2> QED BY <2>2, <2>3, <2>5, <2>7
<1>14. ASSUME NEW t \in Tasks, StorePending(t) PROVE WipeInv'
  BY <1>0, <1>14 DEF StorePending, At, Goto, Put, InsertFollowup
<1>15. ASSUME NEW t \in Tasks, Publish(t) PROVE WipeInv'
  BY <1>0, <1>15 DEF Publish, At, Finish, commit
<1>16. ASSUME NEW t \in Tasks, Fail(t) PROVE WipeInv'
  <2>1. /\ cut' = cut \cup Torn(t) /\ lapsed' = lapsed
        /\ rows' = rows /\ posts' = posts /\ tombstoned' = tombstoned
    BY <1>0, <1>16 DEF Fail
  <2>2. task'[t] = Idle /\ \A u \in Tasks : u # t => task'[u] = task[u]
    BY <1>0, <1>0, <1>16 DEF Fail, Finish
  <2>3. /\ task[t].pc = "applyNow" => task[t].event \in Torn(t)
        /\ task[t].pc = "cascade" => task[t].at \in Torn(t)
    BY DEF Torn
  <2>4. \A f \in Tombstones : Excused(f) => Excused(f)'
    BY <2>1, <2>2, <2>3
  <2> QED BY <2>1, <2>2, <2>4
<1>17. ASSUME NEW t \in Tasks, NEW e \in Events, Deliver(t, e) PROVE WipeInv'
  BY <1>0, <1>17 DEF Deliver, At, Start, Deliverable, Stored
<1>18. ASSUME NEW t \in Tasks, NEW p \in Posts, LocalPost(t, p) PROVE WipeInv'
  BY <1>0, <1>18 DEF LocalPost, At, Start, InsertPost
<1>19. ASSUME NEW t \in Tasks, NEW f \in Followups, LocalFollowup(t, f) PROVE WipeInv'
  BY <1>0, <1>19 DEF LocalFollowup, At, Start
<1>20. ASSUME Restart PROVE WipeInv'
  <2>1. /\ cut' = cut \cup UNION {Torn(t) : t \in Tasks} /\ lapsed' = lapsed
        /\ rows' = rows /\ posts' = posts /\ tombstoned' = tombstoned
    BY <1>0, <1>20 DEF Restart
  <2>2. \A u \in Tasks : task'[u] = Idle
    BY <1>0, <1>20 DEF Restart
  <2>3. ASSUME NEW u \in Tasks PROVE task[u].pc = "applyNow" => task[u].event \in Torn(u)
    BY DEF Torn
  <2>3b. ASSUME NEW u \in Tasks PROVE task[u].pc = "cascade" => task[u].at \in Torn(u)
    BY DEF Torn
  <2>4. \A u \in Tasks : Torn(u) \subseteq cut'
    BY <2>1
  <2>5. ASSUME NEW f \in Tombstones, Excused(f)
        PROVE  {f, TargetOf[f]} \cap cut' # {} \/ TargetOf[f] \in lapsed'
    <3>1. CASE {f, TargetOf[f]} \cap cut # {}
      BY <2>1, <3>1
    <3>2. ASSUME NEW u \in Tasks, task[u].event = f /\ At(u, "applyNow") PROVE f \in cut'
      <4>1. task[u].pc = "applyNow"
        BY <3>2
      <4>2. task[u].event \in Torn(u)
        BY <2>3, <4>1
      <4>3. task[u].event \in cut'
        BY <2>4, <4>2
      <4> QED BY <3>2, <4>3
    <3>3. ASSUME NEW u \in Tasks, At(u, "cascade") /\ task[u].at = TargetOf[f] PROVE TargetOf[f] \in cut'
      BY <2>3b, <2>4, <3>3 DEF At
    <3> QED BY <2>1, <2>5, <3>1, <3>2, <3>3
  <2>6. \A f \in Tombstones : Excused(f) => Excused(f)'
    BY <2>5
  <2>7. \A f \in Tombstones :
          rows'[f] = "applied" => TargetOf[f] \in posts' \cap tombstoned' \/ Excused(f)'
    <3> HIDE DEF Excused
    <3> QED BY <2>1, <2>6
  <2>8. \A u \in Tasks : ~At(u, "mark")'
    BY <2>2
  <2> QED BY <2>7, <2>8
<1>21. ASSUME UNCHANGED vars PROVE WipeInv'
  BY <1>0, <1>21 DEF vars
<1>22. ASSUME NEW e \in Events, evict(e) PROVE WipeInv'
  BY <1>0, <1>22 DEF evict
<1> HIDE DEF WipeInv
<1> QED BY <1>1, <1>2, <1>3, <1>4, <1>5, <1>6, <1>7, <1>8, <1>9, <1>10, <1>11, <1>12, <1>13, <1>14, <1>15, <1>16, <1>17, <1>18, <1>19, <1>20, <1>21, <1>22 DEF Next, Step

\* The inductive invariant: it holds at the start and every step keeps it.
LEMMA Inductive == Spec => []IInv
<1>1. Init => IInv
  <2> SUFFICES ASSUME Init PROVE IInv
    OBVIOUS
  <2> USE EventsAssumption, BoundsAssumption
  <2> USE DEF Init, Followups, Events, None, Own, Gone, Idle
  <2>1. TypeOK
    BY DEF TypeOK, TaskType, Steps, PostSteps, FollowupSteps
  <2>2. TaskInv
    BY DEF TaskInv, PostSteps, FollowupSteps
  <2>3. ReserveInv
    <3>1. \A e \in Events : Ingesters(e) = {}
      BY DEF Ingesters, Ingesting
    <3>2. \A e \in Events : Cardinality(Ingesters(e)) = 0
      BY <3>1, FS_EmptySet
    <3>3. \A e \in Events : fired[e] + Cardinality(Ingesters(e)) <= Entry(e) + forgets[e]
      BY <3>2 DEF Entry
    <3> QED BY <3>3 DEF ReserveInv, Ingesting
  <2>3a. NothingBlocked
    BY TasksAssumption DEF NothingBlocked, Kept
  <2>4. GateInv
    BY DEF GateInv, OnlyAuthorizedShown
  <2>5. MintInv
    BY DEF MintInv
  <2>6. WaitInv
    BY DEF WaitInv
  <2>7. WipeInv
    BY DEF WipeInv, At
  <2> QED BY <2>1, <2>2, <2>3, <2>3a, <2>4, <2>5, <2>6, <2>7 DEF IInv
<1>2. IInv /\ [Next]_vars => IInv'
  BY TypeStep, TaskStep, ReserveStep, BlockedStep, GateStep, MintStep, WaitStep, WipeStep DEF IInv
<1> QED BY <1>1, <1>2, PTL DEF Spec

\* The type invariant holds in every reachable state.
THEOREM TypeCorrect == Spec => []TypeOK
<1>1. IInv => TypeOK
  BY DEF IInv
<1> QED BY <1>1, Inductive, PTL

\* Between two restarts a flooded event is ingested by one task at a time and
\* re-fired once, and once more for each time the duplicate window forgot it
\* (FiredOncePerEntry), however many peers deliver it, however often its
\* ingest fails and whether or not a task held the entry that was forgotten.
THEOREM FloodEnds == Spec => []FiredOncePerEntry
<1>1. IInv => FiredOncePerEntry
  <2> SUFFICES ASSUME IInv, NEW e \in Events
               PROVE  fired[e] + Cardinality(Ingesters(e)) <= 1 + forgets[e]
    BY DEF FiredOncePerEntry
  <2>1. fired[e] + Cardinality(Ingesters(e)) <= Entry(e) + forgets[e] /\ Entry(e) <= 1
    BY DEF IInv, ReserveInv, Entry
  <2>2. Cardinality(Ingesters(e)) \in Nat
    BY Counted
  <2>3. fired[e] \in Nat /\ forgets[e] \in Nat /\ Entry(e) \in Nat
    BY DEF IInv, TypeOK, Entry
  <2> QED BY <2>1, <2>2, <2>3
<1> QED BY <1>1, Inductive, PTL

\* No event is locked out by a reservation nobody works on (NothingBlocked),
\* whichever store call of its ingest failed.
THEOREM NeverLockedOut == Spec => []NothingBlocked
<1>1. IInv => NothingBlocked
  BY DEF IInv
<1> QED BY <1>1, Inductive, PTL

\* No post shows a stranger's edit or was wiped by a stranger's tombstone
\* (OnlyAuthorizedShown), whichever order post and follow-up came in.
THEOREM GateHolds == Spec => []OnlyAuthorizedShown
<1>1. IInv => OnlyAuthorizedShown
  BY DEF IInv, GateInv
<1> QED BY <1>1, Inductive, PTL

\* A follow-up stays parked beside its post only if it was parked after the
\* post had landed or the post's ingest was cut (PendingOnlyIfRaced): there
\* is no other way to strand one.
THEOREM StrandedOnlyByTheRace == Spec => []PendingOnlyIfRaced
<1>1. IInv => PendingOnlyIfRaced
  BY DEF IInv, WaitInv, WillReconcile, PendingOnlyIfRaced, Handling, PostSteps
<1> QED BY <1>1, Inductive, PTL

\* An applied tombstone has wiped its post unless its handling, or its
\* post's, was cut short or pruned away under it (AppliedOrCut).
THEOREM WipedUnlessCut == Spec => []AppliedOrCut
<1>1. IInv => AppliedOrCut
  BY DEF IInv, WipeInv, Excused, AppliedOrCut
<1> QED BY <1>1, Inductive, PTL

-----------------------------------------------------------------------------
(* PeerSessions: its type invariant, the coherence of the registry, that   *)
(* only a lost welcome leaves a peer connected without a connection, that  *)
(* a revoked peer stays revoked and that an approved one stays approved.   *)
(*                                                                         *)
(* A revocation needs the invariant to know that the dialer calls listed   *)
(* peers only (Dialled) and that what the operator is revoking is not      *)
(* listed, and not approved again before the save (Changing); an approval, *)
(* that it is on disk before the operator is told (Survives).              *)

Dialled == \A c \in Conns : conn[c].stage = "dialing" => conn[c].key \in Configured

Changing ==
  /\ change # NoChange => told[change.key] = "nothing"
  /\ change.kind = "revoke" => change.key \notin Configured /\ change.key \notin approved
  /\ \A k \in Keys : told[k] = "revoked" => k \notin Configured
  /\ RevokedStays

\* What ApprovedUnlessIgnored needs to be inductive: the file has the approval
\* too, and the one being saved is in the registry.
Survives ==
  /\ change.kind = "approve" => change.key \in approved
  /\ \A k \in Keys : told[k] = "approved" => (k \in approved /\ k \in disk) \/ k \in ignored

PeersInv == PeersTypeOK /\ RegistryCoherent /\ ConnectedUnlessLost /\ Dialled /\ Changing

\* Apart from a free one, a connection has a peer and a stage.
LEMMA ConnFacts ==
  ASSUME PeersTypeOK, NEW c \in Conns
  PROVE  /\ conn[c].stage \in Stages => conn[c].key \in Keys
         /\ conn[c].stage = "free" \/ conn[c].stage \in Stages
         /\ conn[c] = [key |-> conn[c].key, stage |-> conn[c].stage]
BY DEF PeersTypeOK, Conn, Free, Stages

\* Every step keeps the types.
LEMMA PeersTypeStep ==
  ASSUME PeersInv, PeersNext
  PROVE  PeersTypeOK'
<1>a. PeersTypeOK
  BY DEF PeersInv
<1>b. \A c \in Conns : conn[c].stage \in Stages => conn[c].key \in Keys
  BY <1>a, ConnFacts
<1>c. Configured \subseteq Keys /\ Pinned \subseteq Keys
  BY PeersAssumption
<1>1. ASSUME NEW k \in Keys, BeginApprove(k)
      PROVE  PeersTypeOK'
  BY <1>1, <1>a, <1>b, <1>c, PeerBoundsAssumption DEF BeginApprove, BeginChange, Happens, Approve, NoChange,
                                                  PeersTypeOK, Conn, Stages
<1>2. ASSUME NEW k \in Keys, BeginRevoke(k)
      PROVE  PeersTypeOK'
  BY <1>2, <1>a, <1>b, <1>c, PeerBoundsAssumption DEF BeginRevoke, Revocation, Listed, BeginChange,
                                                  Happens, Revoke, NoChange,
                                                  PeersTypeOK, Conn, Stages
<1>3. ASSUME Saved
      PROVE  PeersTypeOK'
  BY <1>3, <1>a, <1>b DEF Saved, Answers, NoChange, registry, histories, bounds, PeersTypeOK, Conn, Stages
<1>4. ASSUME SaveFails
      PROVE  PeersTypeOK'
  BY <1>4, <1>a, <1>b, <1>c, PeerBoundsAssumption DEF SaveFails, Happens, histories, NoChange, Revoke,
                                                  registry, PeersTypeOK,
                                                  Conn, Stages
<1>5. ASSUME NEW c \in Conns, NEW k \in Keys, PeerDials(c, k)
      PROVE  PeersTypeOK'
  BY <1>5, <1>a, <1>b, <1>c, PeerBoundsAssumption DEF PeerDials, Opens, histories, Free, ConnAt,
                                                  registry, PeersTypeOK, Conn,
                                                  Stages
<1>6. ASSUME NEW c \in Conns, NEW k \in Keys, DialTick(c, k)
      PROVE  PeersTypeOK'
  BY <1>6, <1>a, <1>b DEF DialTick, Opens, Free, ConnAt, registry, histories, bounds, PeersTypeOK, Conn, Stages
<1>7. ASSUME NEW c \in Conns, Proved(c)
      PROVE  PeersTypeOK'
  BY <1>7, <1>a, <1>b DEF Proved, In, Move, histories, bounds, ConnAt, PeersTypeOK, Conn, Stages
<1>8. ASSUME NEW c \in Conns, NotProved(c)
      PROVE  PeersTypeOK'
  BY <1>8, <1>a, <1>b DEF NotProved, In, Close, registry, histories, bounds, Free, PeersTypeOK, Conn, Stages
<1>9. ASSUME NEW c \in Conns, Declined(c)
      PROVE  PeersTypeOK'
  BY <1>9, <1>a, <1>b DEF Declined, In, Noted, Close, histories, bounds, Free, PeersTypeOK, Conn, Stages
<1>10. ASSUME NEW c \in Conns, Welcomed(c)
      PROVE  PeersTypeOK'
  BY <1>10, <1>a, <1>b DEF Welcomed, In, Move, registry, histories, bounds, ConnAt, PeersTypeOK, Conn, Stages
<1>11. ASSUME NEW c \in Conns, WelcomeFails(c)
      PROVE  PeersTypeOK'
  BY <1>11, <1>a, <1>b, <1>c, PeerBoundsAssumption DEF WelcomeFails, Happens, In, Close, registry,
                                                  Free, PeersTypeOK,
                                                   Conn, Stages
<1>12. ASSUME NEW c \in Conns, Enter(c)
      PROVE  PeersTypeOK'
  BY <1>12, <1>a, <1>b DEF Enter, In, Move, Close, Disconnected, histories, bounds, ConnAt, Free,
                           PeersTypeOK, Conn,
                           Stages
<1>13. ASSUME NEW c \in Conns, DialFails(c)
      PROVE  PeersTypeOK'
  BY <1>13, <1>a, <1>b DEF DialFails, In, Close, registry, histories, bounds, Free, PeersTypeOK, Conn, Stages
<1>14. ASSUME NEW c \in Conns, DialPending(c)
      PROVE  PeersTypeOK'
  BY <1>14, <1>a, <1>b DEF DialPending, In, Approve, Close, histories, bounds, Free, PeersTypeOK, Conn, Stages
<1>15. ASSUME NEW c \in Conns, DialConnected(c)
      PROVE  PeersTypeOK'
  BY <1>15, <1>a, <1>b DEF DialConnected, In, Move, histories, bounds, ConnAt, PeersTypeOK, Conn, Stages
<1>16. ASSUME NEW c \in Conns, Synced(c)
      PROVE  PeersTypeOK'
  BY <1>16, <1>a, <1>b DEF Synced, In, Move, registry, histories, bounds, ConnAt, PeersTypeOK, Conn, Stages
<1>17. ASSUME NEW c \in Conns, SyncRefused(c)
      PROVE  PeersTypeOK'
  BY <1>17, <1>a, <1>b DEF SyncRefused, In, Disconnected, Close, histories, bounds, Free, PeersTypeOK,
                           Conn, Stages
<1>18. ASSUME NEW c \in Conns, SessionEnds(c)
      PROVE  PeersTypeOK'
  BY <1>18, <1>a, <1>b DEF SessionEnds, In, Leave, Disconnected, Close, histories, bounds, Free,
                           PeersTypeOK, Conn,
                           Stages
<1>19. ASSUME NEW c \in Conns, CloseRevoked(c)
      PROVE  PeersTypeOK'
  BY <1>19, <1>a, <1>b DEF CloseRevoked, In, Leave, Disconnected, Close, histories, bounds, Free, PeersTypeOK,
                           Conn, Stages
<1>20. ASSUME PeersRestart
      PROVE  PeersTypeOK'
  BY <1>20, <1>a, <1>b, <1>c, PeerBoundsAssumption DEF PeersRestart, Happens, Unloadable, Seeded,
                                                  Loaded, Free, NoChange, PeersTypeOK, Conn,
                                                   Stages
<1> HIDE DEF PeersTypeOK
<1> QED
  BY <1>1, <1>2, <1>3, <1>4, <1>5, <1>6, <1>7, <1>8, <1>9, <1>10,
     <1>11, <1>12, <1>13, <1>14, <1>15, <1>16, <1>17, <1>18, <1>19, <1>20 DEF PeersNext, Serve, Dial

\* Every step keeps the state of a peer in line with its approval.
LEMMA CoherentStep ==
  ASSUME PeersInv, PeersNext
  PROVE  RegistryCoherent'
<1>a. /\ state \in [Keys -> {"unknown", "pending", "disconnected", "connected"}]
      /\ approved \subseteq Keys
  BY DEF PeersInv, PeersTypeOK
<1>b. RegistryCoherent
  BY DEF PeersInv
<1>c. \A c \in Conns : conn[c].stage \in Stages => conn[c].key \in Keys
  BY ConnFacts DEF PeersInv
<1>1. ASSUME NEW k \in Keys, BeginApprove(k)
      PROVE  RegistryCoherent'
  BY <1>1, <1>a, <1>b DEF BeginApprove, BeginChange, Happens, Approve, NoChange, RegistryCoherent, Stages
<1>2. ASSUME NEW k \in Keys, BeginRevoke(k)
      PROVE  RegistryCoherent'
  BY <1>2, <1>a, <1>b DEF BeginRevoke, Revocation, Listed, BeginChange, Happens, Revoke, NoChange,
                          RegistryCoherent, Stages
<1>3. ASSUME Saved
      PROVE  RegistryCoherent'
  BY <1>3, <1>a, <1>b DEF Saved, Answers, NoChange, registry, histories, bounds, RegistryCoherent, Stages
<1>4. ASSUME SaveFails
      PROVE  RegistryCoherent'
  BY <1>4, <1>a, <1>b DEF SaveFails, Happens, histories, NoChange, Revoke, registry, RegistryCoherent, Stages
<1>5. ASSUME NEW c \in Conns, NEW k \in Keys, PeerDials(c, k)
      PROVE  RegistryCoherent'
  BY <1>5, <1>a, <1>b, <1>c DEF PeerDials, Opens, histories, Free, ConnAt, registry, RegistryCoherent, Stages
<1>6. ASSUME NEW c \in Conns, NEW k \in Keys, DialTick(c, k)
      PROVE  RegistryCoherent'
  BY <1>6, <1>a, <1>b, <1>c DEF DialTick, Opens, Free, ConnAt, registry, histories, bounds,
                                RegistryCoherent, Stages
<1>7. ASSUME NEW c \in Conns, Proved(c)
      PROVE  RegistryCoherent'
  BY <1>7, <1>a, <1>b, <1>c DEF Proved, In, Move, histories, bounds, ConnAt, RegistryCoherent, Stages
<1>8. ASSUME NEW c \in Conns, NotProved(c)
      PROVE  RegistryCoherent'
  BY <1>8, <1>a, <1>b, <1>c DEF NotProved, In, Close, registry, histories, bounds, Free, RegistryCoherent,
                                Stages
<1>9. ASSUME NEW c \in Conns, Declined(c)
      PROVE  RegistryCoherent'
  BY <1>9, <1>a, <1>b, <1>c DEF Declined, In, Noted, Close, histories, bounds, Free, RegistryCoherent, Stages
<1>10. ASSUME NEW c \in Conns, Welcomed(c)
      PROVE  RegistryCoherent'
  BY <1>10, <1>a, <1>b, <1>c DEF Welcomed, In, Move, registry, histories, bounds, ConnAt,
                                 RegistryCoherent, Stages
<1>11. ASSUME NEW c \in Conns, WelcomeFails(c)
      PROVE  RegistryCoherent'
  BY <1>11, <1>a, <1>b, <1>c DEF WelcomeFails, Happens, In, Close, registry, Free, RegistryCoherent, Stages
<1>12. ASSUME NEW c \in Conns, Enter(c)
      PROVE  RegistryCoherent'
  BY <1>12, <1>a, <1>b, <1>c DEF Enter, In, Move, Close, Disconnected, histories, bounds, ConnAt, Free,
                                 RegistryCoherent, Stages
<1>13. ASSUME NEW c \in Conns, DialFails(c)
      PROVE  RegistryCoherent'
  BY <1>13, <1>a, <1>b, <1>c DEF DialFails, In, Close, registry, histories, bounds, Free, RegistryCoherent,
                                 Stages
<1>14. ASSUME NEW c \in Conns, DialPending(c)
      PROVE  RegistryCoherent'
  BY <1>14, <1>a, <1>b, <1>c DEF DialPending, In, Approve, Close, histories, bounds, Free, RegistryCoherent,
                                 Stages
<1>15. ASSUME NEW c \in Conns, DialConnected(c)
      PROVE  RegistryCoherent'
  BY <1>15, <1>a, <1>b, <1>c DEF DialConnected, In, Move, histories, bounds, ConnAt, RegistryCoherent, Stages
<1>16. ASSUME NEW c \in Conns, Synced(c)
      PROVE  RegistryCoherent'
  BY <1>16, <1>a, <1>b, <1>c DEF Synced, In, Move, registry, histories, bounds, ConnAt, RegistryCoherent, Stages
<1>17. ASSUME NEW c \in Conns, SyncRefused(c)
      PROVE  RegistryCoherent'
  BY <1>17, <1>a, <1>b, <1>c DEF SyncRefused, In, Disconnected, Close, histories, bounds, Free,
                                 RegistryCoherent, Stages
<1>18. ASSUME NEW c \in Conns, SessionEnds(c)
      PROVE  RegistryCoherent'
  BY <1>18, <1>a, <1>b, <1>c DEF SessionEnds, In, Leave, Disconnected, Close, histories, bounds, Free,
                                 RegistryCoherent, Stages
<1>19. ASSUME NEW c \in Conns, CloseRevoked(c)
      PROVE  RegistryCoherent'
  BY <1>19, <1>a, <1>b, <1>c DEF CloseRevoked, In, Leave, Disconnected, Close, histories, bounds, Free,
                                 RegistryCoherent, Stages
<1>20. ASSUME PeersRestart
      PROVE  RegistryCoherent'
  BY <1>20, <1>a, <1>b DEF PeersRestart, Happens, Unloadable, Seeded, Loaded, Free, NoChange,
                           RegistryCoherent, Stages
<1> HIDE DEF RegistryCoherent
<1> QED
  BY <1>1, <1>2, <1>3, <1>4, <1>5, <1>6, <1>7, <1>8, <1>9, <1>10,
     <1>11, <1>12, <1>13, <1>14, <1>15, <1>16, <1>17, <1>18, <1>19, <1>20 DEF PeersNext, Serve, Dial

\* Every step that takes the last connection of a peer takes its connected
\* state too, but for the lost welcome.
LEMMA SessionStep ==
  ASSUME PeersInv, PeersNext
  PROVE  ConnectedUnlessLost'
<1>a. /\ state \in [Keys -> {"unknown", "pending", "disconnected", "connected"}]
      /\ conn \in [Conns -> Conn] /\ lost \subseteq Keys
  BY DEF PeersInv, PeersTypeOK
<1>b. ConnectedUnlessLost
  BY DEF PeersInv
<1>c. \A c \in Conns : conn[c].stage \in Stages => conn[c].key \in Keys
  BY ConnFacts DEF PeersInv
<1>1. ASSUME NEW k \in Keys, BeginApprove(k)
      PROVE  ConnectedUnlessLost'
  BY <1>1, <1>a, <1>b DEF BeginApprove, BeginChange, Happens, Approve, NoChange, ConnectedUnlessLost, Stages
<1>2. ASSUME NEW k \in Keys, BeginRevoke(k)
      PROVE  ConnectedUnlessLost'
  BY <1>2, <1>a, <1>b DEF BeginRevoke, Revocation, Listed, BeginChange, Happens, Revoke, NoChange,
                          ConnectedUnlessLost, Stages
<1>3. ASSUME Saved
      PROVE  ConnectedUnlessLost'
  BY <1>3, <1>a, <1>b DEF Saved, Answers, NoChange, registry, histories, bounds, ConnectedUnlessLost, Stages
<1>4. ASSUME SaveFails
      PROVE  ConnectedUnlessLost'
  BY <1>4, <1>a, <1>b DEF SaveFails, Happens, histories, NoChange, Revoke, registry, ConnectedUnlessLost, Stages
<1>5. ASSUME NEW c \in Conns, NEW k \in Keys, PeerDials(c, k)
      PROVE  ConnectedUnlessLost'
  BY <1>5, <1>a, <1>b, <1>c DEF PeerDials, Opens, histories, Free, ConnAt, registry, ConnectedUnlessLost, Stages
<1>6. ASSUME NEW c \in Conns, NEW k \in Keys, DialTick(c, k)
      PROVE  ConnectedUnlessLost'
  BY <1>6, <1>a, <1>b, <1>c DEF DialTick, Opens, Free, ConnAt, registry, histories, bounds,
                                ConnectedUnlessLost, Stages
<1>7. ASSUME NEW c \in Conns, Proved(c)
      PROVE  ConnectedUnlessLost'
  BY <1>7, <1>a, <1>b, <1>c DEF Proved, In, Move, histories, bounds, ConnAt, ConnectedUnlessLost, Stages
<1>8. ASSUME NEW c \in Conns, NotProved(c)
      PROVE  ConnectedUnlessLost'
  BY <1>8, <1>a, <1>b, <1>c DEF NotProved, In, Close, registry, histories, bounds, Free, ConnectedUnlessLost,
                                Stages
<1>9. ASSUME NEW c \in Conns, Declined(c)
      PROVE  ConnectedUnlessLost'
  BY <1>9, <1>a, <1>b, <1>c DEF Declined, In, Noted, Close, histories, bounds, Free, ConnectedUnlessLost,
                                Stages
<1>10. ASSUME NEW c \in Conns, Welcomed(c)
      PROVE  ConnectedUnlessLost'
  BY <1>10, <1>a, <1>b, <1>c DEF Welcomed, In, Move, registry, histories, bounds, ConnAt, ConnectedUnlessLost,
                                 Stages
<1>11. ASSUME NEW c \in Conns, WelcomeFails(c)
      PROVE  ConnectedUnlessLost'
  BY <1>11, <1>a, <1>b, <1>c DEF WelcomeFails, Happens, In, Close, registry, Free, ConnectedUnlessLost,
                                 Stages
<1>12. ASSUME NEW c \in Conns, Enter(c)
      PROVE  ConnectedUnlessLost'
  BY <1>12, <1>a, <1>b, <1>c DEF Enter, In, Move, Close, Disconnected, histories, bounds, ConnAt, Free,
                                 ConnectedUnlessLost, Stages
<1>13. ASSUME NEW c \in Conns, DialFails(c)
      PROVE  ConnectedUnlessLost'
  BY <1>13, <1>a, <1>b, <1>c DEF DialFails, In, Close, registry, histories, bounds, Free, ConnectedUnlessLost,
                                 Stages
<1>14. ASSUME NEW c \in Conns, DialPending(c)
      PROVE  ConnectedUnlessLost'
  BY <1>14, <1>a, <1>b, <1>c DEF DialPending, In, Approve, Close, histories, bounds, Free,
                                 ConnectedUnlessLost, Stages
<1>15. ASSUME NEW c \in Conns, DialConnected(c)
      PROVE  ConnectedUnlessLost'
  BY <1>15, <1>a, <1>b, <1>c DEF DialConnected, In, Move, histories, bounds, ConnAt, ConnectedUnlessLost, Stages
<1>16. ASSUME NEW c \in Conns, Synced(c)
      PROVE  ConnectedUnlessLost'
  BY <1>16, <1>a, <1>b, <1>c DEF Synced, In, Move, registry, histories, bounds, ConnAt,
                                 ConnectedUnlessLost, Stages
<1>17. ASSUME NEW c \in Conns, SyncRefused(c)
      PROVE  ConnectedUnlessLost'
  BY <1>17, <1>a, <1>b, <1>c DEF SyncRefused, In, Disconnected, Close, histories, bounds, Free,
                                 ConnectedUnlessLost, Stages
<1>18. ASSUME NEW c \in Conns, SessionEnds(c)
      PROVE  ConnectedUnlessLost'
  BY <1>18, <1>a, <1>b, <1>c DEF SessionEnds, In, Leave, Disconnected, Close, histories, bounds, Free,
                                 ConnectedUnlessLost, Stages
<1>19. ASSUME NEW c \in Conns, CloseRevoked(c)
      PROVE  ConnectedUnlessLost'
  BY <1>19, <1>a, <1>b, <1>c DEF CloseRevoked, In, Leave, Disconnected, Close, histories, bounds, Free,
                                 ConnectedUnlessLost, Stages
<1>20. ASSUME PeersRestart
      PROVE  ConnectedUnlessLost'
  BY <1>20, <1>a, <1>b DEF PeersRestart, Happens, Unloadable, Seeded, Loaded, Free, NoChange,
                           ConnectedUnlessLost, Stages
<1> HIDE DEF ConnectedUnlessLost
<1> QED
  BY <1>1, <1>2, <1>3, <1>4, <1>5, <1>6, <1>7, <1>8, <1>9, <1>10,
     <1>11, <1>12, <1>13, <1>14, <1>15, <1>16, <1>17, <1>18, <1>19, <1>20 DEF PeersNext, Serve, Dial

\* The dialer calls listed peers only.
LEMMA DialledStep ==
  ASSUME PeersInv, PeersNext
  PROVE  Dialled'
<1>a. conn \in [Conns -> Conn]
  BY DEF PeersInv, PeersTypeOK
<1>b. Dialled
  BY DEF PeersInv
<1>1. ASSUME NEW k \in Keys, BeginApprove(k)
      PROVE  Dialled'
  BY <1>1, <1>a, <1>b DEF BeginApprove, BeginChange, Happens, Approve, NoChange, Dialled
<1>2. ASSUME NEW k \in Keys, BeginRevoke(k)
      PROVE  Dialled'
  BY <1>2, <1>a, <1>b DEF BeginRevoke, Revocation, Listed, BeginChange, Happens, Revoke, NoChange, Dialled
<1>3. ASSUME Saved
      PROVE  Dialled'
  BY <1>3, <1>a, <1>b DEF Saved, Answers, NoChange, registry, histories, bounds, Dialled
<1>4. ASSUME SaveFails
      PROVE  Dialled'
  BY <1>4, <1>a, <1>b DEF SaveFails, Happens, histories, NoChange, Revoke, registry, Dialled
<1>5. ASSUME NEW c \in Conns, NEW k \in Keys, PeerDials(c, k)
      PROVE  Dialled'
  BY <1>5, <1>a, <1>b DEF PeerDials, Opens, histories, Free, ConnAt, registry, Dialled
<1>6. ASSUME NEW c \in Conns, NEW k \in Keys, DialTick(c, k)
      PROVE  Dialled'
  BY <1>6, <1>a, <1>b DEF DialTick, Opens, Free, ConnAt, registry, histories, bounds, Dialled
<1>7. ASSUME NEW c \in Conns, Proved(c)
      PROVE  Dialled'
  BY <1>7, <1>a, <1>b DEF Proved, In, Move, histories, bounds, ConnAt, Dialled
<1>8. ASSUME NEW c \in Conns, NotProved(c)
      PROVE  Dialled'
  BY <1>8, <1>a, <1>b DEF NotProved, In, Close, registry, histories, bounds, Free, Dialled
<1>9. ASSUME NEW c \in Conns, Declined(c)
      PROVE  Dialled'
  BY <1>9, <1>a, <1>b DEF Declined, In, Noted, Close, histories, bounds, Free, Dialled
<1>10. ASSUME NEW c \in Conns, Welcomed(c)
      PROVE  Dialled'
  BY <1>10, <1>a, <1>b DEF Welcomed, In, Move, registry, histories, bounds, ConnAt, Dialled
<1>11. ASSUME NEW c \in Conns, WelcomeFails(c)
      PROVE  Dialled'
  BY <1>11, <1>a, <1>b DEF WelcomeFails, Happens, In, Close, registry, Free, Dialled
<1>12. ASSUME NEW c \in Conns, Enter(c)
      PROVE  Dialled'
  BY <1>12, <1>a, <1>b DEF Enter, In, Move, Close, Disconnected, histories, bounds, ConnAt, Free, Dialled
<1>13. ASSUME NEW c \in Conns, DialFails(c)
      PROVE  Dialled'
  BY <1>13, <1>a, <1>b DEF DialFails, In, Close, registry, histories, bounds, Free, Dialled
<1>14. ASSUME NEW c \in Conns, DialPending(c)
      PROVE  Dialled'
  BY <1>14, <1>a, <1>b DEF DialPending, In, Approve, Close, histories, bounds, Free, Dialled
<1>15. ASSUME NEW c \in Conns, DialConnected(c)
      PROVE  Dialled'
  BY <1>15, <1>a, <1>b DEF DialConnected, In, Move, histories, bounds, ConnAt, Dialled
<1>16. ASSUME NEW c \in Conns, Synced(c)
      PROVE  Dialled'
  BY <1>16, <1>a, <1>b DEF Synced, In, Move, registry, histories, bounds, ConnAt, Dialled
<1>17. ASSUME NEW c \in Conns, SyncRefused(c)
      PROVE  Dialled'
  BY <1>17, <1>a, <1>b DEF SyncRefused, In, Disconnected, Close, histories, bounds, Free, Dialled
<1>18. ASSUME NEW c \in Conns, SessionEnds(c)
      PROVE  Dialled'
  BY <1>18, <1>a, <1>b DEF SessionEnds, In, Leave, Disconnected, Close, histories, bounds, Free, Dialled
<1>19. ASSUME NEW c \in Conns, CloseRevoked(c)
      PROVE  Dialled'
  BY <1>19, <1>a, <1>b DEF CloseRevoked, In, Leave, Disconnected, Close, histories, bounds, Free, Dialled
<1>20. ASSUME PeersRestart
      PROVE  Dialled'
  BY <1>20, <1>a, <1>b DEF PeersRestart, Happens, Unloadable, Seeded, Loaded, Free, NoChange, Dialled
<1> HIDE DEF Dialled
<1> QED
  BY <1>1, <1>2, <1>3, <1>4, <1>5, <1>6, <1>7, <1>8, <1>9, <1>10,
     <1>11, <1>12, <1>13, <1>14, <1>15, <1>16, <1>17, <1>18, <1>19, <1>20 DEF PeersNext, Serve, Dial

\* Nothing approves a peer that was or is being revoked, but the operator.
LEMMA ChangingStep ==
  ASSUME PeersInv, PeersNext
  PROVE  Changing'
<1>a. /\ approved \subseteq Keys /\ disk \subseteq Keys
      /\ told \in [Keys -> {"nothing", "approved", "revoked"}]
      /\ change \in {NoChange} \cup [kind : {"approve", "revoke", "forget"}, key : Keys, new : BOOLEAN]
  BY DEF PeersInv, PeersTypeOK
<1>b. Changing
  BY DEF PeersInv
<1>c. Dialled
  BY DEF PeersInv
<1>d. Pinned \subseteq Configured
  BY PeersAssumption
<1>1. ASSUME NEW k \in Keys, BeginApprove(k)
      PROVE  Changing'
  BY <1>1, <1>a, <1>b DEF BeginApprove, BeginChange, Happens, Approve, NoChange, Changing, RevokedStays
<1>2. ASSUME NEW k \in Keys, BeginRevoke(k)
      PROVE  Changing'
  BY <1>2, <1>a, <1>b DEF BeginRevoke, Revocation, Listed, BeginChange, Happens, Revoke, NoChange,
                          Changing, RevokedStays
<1>3. ASSUME Saved
      PROVE  Changing'
  BY <1>3, <1>a, <1>b DEF Saved, Answers, NoChange, registry, histories, bounds, Changing, RevokedStays
<1>4. ASSUME SaveFails
      PROVE  Changing'
  BY <1>4, <1>a, <1>b DEF SaveFails, Happens, histories, NoChange, Revoke, registry, Changing, RevokedStays
<1>5. ASSUME NEW c \in Conns, NEW k \in Keys, PeerDials(c, k)
      PROVE  Changing'
  BY <1>5, <1>a, <1>b DEF PeerDials, Opens, histories, Free, ConnAt, registry, Changing, RevokedStays
<1>6. ASSUME NEW c \in Conns, NEW k \in Keys, DialTick(c, k)
      PROVE  Changing'
  BY <1>6, <1>a, <1>b DEF DialTick, Opens, Free, ConnAt, registry, histories, bounds, Changing, RevokedStays
<1>7. ASSUME NEW c \in Conns, Proved(c)
      PROVE  Changing'
  BY <1>7, <1>a, <1>b DEF Proved, In, Move, histories, bounds, ConnAt, Changing, RevokedStays
<1>8. ASSUME NEW c \in Conns, NotProved(c)
      PROVE  Changing'
  BY <1>8, <1>a, <1>b DEF NotProved, In, Close, registry, histories, bounds, Free, Changing, RevokedStays
<1>9. ASSUME NEW c \in Conns, Declined(c)
      PROVE  Changing'
  BY <1>9, <1>a, <1>b DEF Declined, In, Noted, Close, histories, bounds, Free, Changing, RevokedStays
<1>10. ASSUME NEW c \in Conns, Welcomed(c)
      PROVE  Changing'
  BY <1>10, <1>a, <1>b DEF Welcomed, In, Move, registry, histories, bounds, ConnAt, Changing, RevokedStays
<1>11. ASSUME NEW c \in Conns, WelcomeFails(c)
      PROVE  Changing'
  BY <1>11, <1>a, <1>b DEF WelcomeFails, Happens, In, Close, registry, Free, Changing, RevokedStays
<1>12. ASSUME NEW c \in Conns, Enter(c)
      PROVE  Changing'
  BY <1>12, <1>a, <1>b DEF Enter, In, Move, Close, Disconnected, histories, bounds, ConnAt, Free, Changing,
                           RevokedStays
<1>13. ASSUME NEW c \in Conns, DialFails(c)
      PROVE  Changing'
  BY <1>13, <1>a, <1>b DEF DialFails, In, Close, registry, histories, bounds, Free, Changing, RevokedStays
<1>14. ASSUME NEW c \in Conns, DialPending(c)
      PROVE  Changing'
  BY <1>14, <1>a, <1>b, <1>c DEF DialPending, In, Approve, Close, histories, bounds, Free, Changing,
                                 RevokedStays, Dialled
<1>15. ASSUME NEW c \in Conns, DialConnected(c)
      PROVE  Changing'
  BY <1>15, <1>a, <1>b, <1>c DEF DialConnected, In, Move, histories, bounds, ConnAt, Changing, RevokedStays,
                                 Dialled
<1>16. ASSUME NEW c \in Conns, Synced(c)
      PROVE  Changing'
  BY <1>16, <1>a, <1>b DEF Synced, In, Move, registry, histories, bounds, ConnAt, Changing, RevokedStays
<1>17. ASSUME NEW c \in Conns, SyncRefused(c)
      PROVE  Changing'
  BY <1>17, <1>a, <1>b DEF SyncRefused, In, Disconnected, Close, histories, bounds, Free, Changing,
                           RevokedStays
<1>18. ASSUME NEW c \in Conns, SessionEnds(c)
      PROVE  Changing'
  BY <1>18, <1>a, <1>b DEF SessionEnds, In, Leave, Disconnected, Close, histories, bounds, Free, Changing,
                           RevokedStays
<1>19. ASSUME NEW c \in Conns, CloseRevoked(c)
      PROVE  Changing'
  BY <1>19, <1>a, <1>b DEF CloseRevoked, In, Leave, Disconnected, Close, histories, bounds, Free, Changing,
                           RevokedStays
<1>20. ASSUME PeersRestart
      PROVE  Changing'
  BY <1>20, <1>a, <1>b, <1>d DEF PeersRestart, Happens, Unloadable, Seeded, Loaded, Free, NoChange,
                                 Changing, RevokedStays
<1> HIDE DEF Changing
<1> QED
  BY <1>1, <1>2, <1>3, <1>4, <1>5, <1>6, <1>7, <1>8, <1>9, <1>10,
     <1>11, <1>12, <1>13, <1>14, <1>15, <1>16, <1>17, <1>18, <1>19, <1>20 DEF PeersNext, Serve, Dial

\* Nothing but the operator, and a file that boot ignores, takes away an approval
\* the operator was told of.
LEMMA SurvivesStep ==
  ASSUME PeersInv, Survives, PeersNext
  PROVE  Survives'
<1>a. /\ approved \subseteq Keys /\ disk \subseteq Keys
      /\ told \in [Keys -> {"nothing", "approved", "revoked"}]
      /\ change \in {NoChange} \cup [kind : {"approve", "revoke", "forget"}, key : Keys, new : BOOLEAN]
  BY DEF PeersInv, PeersTypeOK
<1>d. change # NoChange => told[change.key] = "nothing"
  BY DEF PeersInv, Changing
<1>b. Survives
  OBVIOUS
<1>1. ASSUME NEW k \in Keys, BeginApprove(k)
      PROVE  Survives'
  BY <1>1, <1>a, <1>b DEF BeginApprove, BeginChange, Happens, Approve, NoChange, Survives
<1>2. ASSUME NEW k \in Keys, BeginRevoke(k)
      PROVE  Survives'
  BY <1>2, <1>a, <1>b DEF BeginRevoke, Revocation, Listed, BeginChange, Happens, Revoke, NoChange, Survives
<1>3. ASSUME Saved
      PROVE  Survives'
  BY <1>3, <1>a, <1>b DEF Saved, Answers, NoChange, registry, histories, bounds, Survives
<1>4. ASSUME SaveFails
      PROVE  Survives'
  BY <1>4, <1>a, <1>b, <1>d DEF SaveFails, Happens, histories, NoChange, Revoke, registry, Survives
<1>5. ASSUME NEW c \in Conns, NEW k \in Keys, PeerDials(c, k)
      PROVE  Survives'
  BY <1>5, <1>a, <1>b DEF PeerDials, Opens, histories, Free, ConnAt, registry, Survives
<1>6. ASSUME NEW c \in Conns, NEW k \in Keys, DialTick(c, k)
      PROVE  Survives'
  BY <1>6, <1>a, <1>b DEF DialTick, Opens, Free, ConnAt, registry, histories, bounds, Survives
<1>7. ASSUME NEW c \in Conns, Proved(c)
      PROVE  Survives'
  BY <1>7, <1>a, <1>b DEF Proved, In, Move, histories, bounds, ConnAt, Survives
<1>8. ASSUME NEW c \in Conns, NotProved(c)
      PROVE  Survives'
  BY <1>8, <1>a, <1>b DEF NotProved, In, Close, registry, histories, bounds, Free, Survives
<1>9. ASSUME NEW c \in Conns, Declined(c)
      PROVE  Survives'
  BY <1>9, <1>a, <1>b DEF Declined, In, Noted, Close, histories, bounds, Free, Survives
<1>10. ASSUME NEW c \in Conns, Welcomed(c)
      PROVE  Survives'
  BY <1>10, <1>a, <1>b DEF Welcomed, In, Move, registry, histories, bounds, ConnAt, Survives
<1>11. ASSUME NEW c \in Conns, WelcomeFails(c)
      PROVE  Survives'
  BY <1>11, <1>a, <1>b DEF WelcomeFails, Happens, In, Close, registry, Free, Survives
<1>12. ASSUME NEW c \in Conns, Enter(c)
      PROVE  Survives'
  BY <1>12, <1>a, <1>b DEF Enter, In, Move, Close, Disconnected, histories, bounds, ConnAt, Free, Survives
<1>13. ASSUME NEW c \in Conns, DialFails(c)
      PROVE  Survives'
  BY <1>13, <1>a, <1>b DEF DialFails, In, Close, registry, histories, bounds, Free, Survives
<1>14. ASSUME NEW c \in Conns, DialPending(c)
      PROVE  Survives'
  BY <1>14, <1>a, <1>b DEF DialPending, In, Approve, Close, histories, bounds, Free, Survives
<1>15. ASSUME NEW c \in Conns, DialConnected(c)
      PROVE  Survives'
  BY <1>15, <1>a, <1>b DEF DialConnected, In, Move, histories, bounds, ConnAt, Survives
<1>16. ASSUME NEW c \in Conns, Synced(c)
      PROVE  Survives'
  BY <1>16, <1>a, <1>b DEF Synced, In, Move, registry, histories, bounds, ConnAt, Survives
<1>17. ASSUME NEW c \in Conns, SyncRefused(c)
      PROVE  Survives'
  BY <1>17, <1>a, <1>b DEF SyncRefused, In, Disconnected, Close, histories, bounds, Free, Survives
<1>18. ASSUME NEW c \in Conns, SessionEnds(c)
      PROVE  Survives'
  BY <1>18, <1>a, <1>b DEF SessionEnds, In, Leave, Disconnected, Close, histories, bounds, Free, Survives
<1>19. ASSUME NEW c \in Conns, CloseRevoked(c)
      PROVE  Survives'
  BY <1>19, <1>a, <1>b DEF CloseRevoked, In, Leave, Disconnected, Close, histories, bounds, Free, Survives
<1>20. ASSUME PeersRestart
      PROVE  Survives'
  BY <1>20, <1>a, <1>b DEF PeersRestart, Happens, Unloadable, Seeded, Loaded, Free, NoChange, Survives
<1> HIDE DEF Survives
<1> QED
  BY <1>1, <1>2, <1>3, <1>4, <1>5, <1>6, <1>7, <1>8, <1>9, <1>10,
     <1>11, <1>12, <1>13, <1>14, <1>15, <1>16, <1>17, <1>18, <1>19, <1>20 DEF PeersNext, Serve, Dial

\* The invariant holds initially.
LEMMA PeersInitInv == PeersInit => PeersInv
<1> SUFFICES ASSUME PeersInit PROVE PeersInv
  OBVIOUS
<1>1. PeersTypeOK
  BY PeersAssumption, PeerBoundsAssumption DEF PeersInit, PeersTypeOK, Seeded, Loaded, Conn
<1>2. RegistryCoherent /\ ConnectedUnlessLost
  BY PeersAssumption DEF PeersInit, RegistryCoherent, ConnectedUnlessLost, Seeded, Loaded
<1>3. Dialled /\ Changing
  BY DEF PeersInit, Dialled, Changing, RevokedStays, Free, NoChange
<1> QED
  BY <1>1, <1>2, <1>3 DEF PeersInv

\* Every behaviour of PeerSessions satisfies the inductive invariant.
THEOREM PeersInductive == PeersSpec => []PeersInv
<1>1. ASSUME PeersInv, [PeersNext]_peersVars PROVE PeersInv'
  <2>1. CASE PeersNext
    BY <1>1, <2>1, PeersTypeStep, CoherentStep, SessionStep, DialledStep, ChangingStep DEF PeersInv
  <2>2. CASE UNCHANGED peersVars
    BY <1>1, <2>2 DEF peersVars, registry, histories, bounds, PeersInv, PeersTypeOK, RegistryCoherent,
                      ConnectedUnlessLost,
                      Dialled, Changing, RevokedStays
  <2> QED
    BY <1>1, <2>1, <2>2
<1> QED
  BY <1>1, PeersInitInv, PTL DEF PeersSpec

\* The registry, the connections and the operator's change keep their types.
THEOREM PeersTypeCorrect == PeersSpec => []PeersTypeOK
BY PeersInductive, PTL DEF PeersInv

\* A record's state and its approval never contradict each other.
THEOREM Coherent == PeersSpec => []RegistryCoherent
BY PeersInductive, PTL DEF PeersInv

\* Only a welcome that could not be sent leaves a peer connected in the
\* registry without a connection.
THEOREM OnlyALostWelcome == PeersSpec => []ConnectedUnlessLost
BY PeersInductive, PTL DEF PeersInv

\* No handshake, dial, restart or later save brings back a revoked peer.
THEOREM RevokedForGood == PeersSpec => []RevokedStays
BY PeersInductive, PTL DEF PeersInv, Changing

\* A peer the operator was told is approved is so until it is revoked, through
\* failed saves and restarts, whatever origins the peers go by: only a file that
\* boot ignored takes the approval away (load_approved), and then it takes all.
THEOREM ApprovalLasts == PeersSpec => []ApprovedUnlessIgnored
<1>1. PeersInit => Survives
  BY DEF PeersInit, Survives, NoChange
<1>2. ASSUME PeersInv, Survives, [PeersNext]_peersVars PROVE Survives'
  <2>1. CASE PeersNext
    BY <1>2, <2>1, SurvivesStep
  <2>2. CASE UNCHANGED peersVars
    BY <1>2, <2>2 DEF peersVars, registry, histories, Survives
  <2> QED
    BY <1>2, <2>1, <2>2
<1>3. Survives => ApprovedUnlessIgnored
  BY DEF Survives, ApprovedUnlessIgnored
<1> QED
  BY <1>1, <1>2, <1>3, PeersInductive, PTL DEF PeersSpec
=============================================================================
