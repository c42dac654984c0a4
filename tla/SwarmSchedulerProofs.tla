------------------------ MODULE SwarmSchedulerProofs ------------------------
(* Proofs about SwarmScheduler, for every set of units, sources and lanes. *)
EXTENDS SwarmScheduler, TLAPS

\* settle keeps the queue, the in-flight set and the permit in their types.
LEMMA SettleType ==
  ASSUME TypeOK, NEW u \in Units, settle(u)
  PROVE  pending' \in [Units -> Nat] /\ in_flight' \subseteq Units
         /\ complete' \in BOOLEAN
BY DEF TypeOK, settle, NothingLeft

\* give_back keeps the queue, the in-flight set, the permit and the list of who
\* fetches what in their types.
LEMMA GiveBackType ==
  ASSUME TypeOK, NEW u \in Units, NEW s \in Sources, NEW e \in BOOLEAN,
         give_back(u, s, e)
  PROVE  pending' \in [Units -> Nat] /\ in_flight' \subseteq Units
         /\ complete' \in BOOLEAN /\ working' \subseteq Units \X Sources
<1>1. working' \subseteq Units \X Sources
  BY DEF TypeOK, give_back
<1>2. CASE u \in done
  BY <1>1, <1>2, SettleType DEF give_back
<1>3. CASE u \notin done
  BY <1>1, <1>3 DEF TypeOK, give_back
<1>. QED BY <1>2, <1>3

\* A worker in the middle of a unit has one, and belongs to a source.
LEMMA WorkerFacts ==
  ASSUME TypeOK, NEW w \in Workers
  PROVE  /\ SourceOf(w) \in Sources
         /\ pc[w] \in Busy => unit[w] \in Units
         /\ endgame[w] \in BOOLEAN
BY DEF TypeOK, Workers, SourceOf

\* A worker that lets go of its unit keeps the types, and is busy exactly while
\* it has one.
LEMMA BetweenType ==
  ASSUME TypeOK, NEW w \in Workers, NEW p \in {"loop", "gone"}, Between(w, p)
  PROVE  /\ pc' \in [Workers -> Busy \cup {"loop", "gone"}]
         /\ unit' \in [Workers -> Units \cup {NoUnit}]
         /\ endgame' \in [Workers -> BOOLEAN]
         /\ \A v \in Workers : pc'[v] \in Busy <=> unit'[v] # NoUnit
BY DEF TypeOK, Between, Busy

\* write_record leaves a record of units on disk.
LEMMA WriteRecordType ==
  ASSUME TypeOK, NEW d \in SUBSET Units, NEW b \in SUBSET Units,
         write_record(d, b)
  PROVE  record' \in [done : SUBSET Units, borrowed : SUBSET Units]
BY DEF TypeOK, write_record

\* Every step of a worker keeps the types.
LEMMA WorkerType ==
  ASSUME TypeOK, NEW w \in Workers,
         WorkerStep(w) \/ SourceLetGo(w) \/ IdleLimit(w)
  PROVE  TypeOK'
<1>. USE UnitsAssumption, BoundsAssumption
<1>0. /\ SourceOf(w) \in Sources
      /\ pc[w] \in Busy => unit[w] \in Units
      /\ endgame[w] \in BOOLEAN
  BY WorkerFacts
<1>1. CASE TakeUnit(w)
  <2>1. PICK u \in Units, q \in {pending, Scanned} :
          /\ u \notin done /\ pending[u] > 0
          /\ pending' = [q EXCEPT ![u] = @ - 1]
          /\ in_flight' = in_flight \cup {u}
          /\ working' = working \cup {<<u, SourceOf(w)>>}
          /\ unit' = [unit EXCEPT ![w] = u]
    BY <1>1 DEF TakeUnit, Takable
  <2>3. q \in [Units -> Nat] /\ q[u] = pending[u]
    BY <2>1 DEF TypeOK, Scanned
  <2>4. pending' \in [Units -> Nat]
    BY <2>1, <2>3
  <2>5. in_flight' \subseteq Units /\ working' \subseteq Units \X Sources
    BY <1>0, <2>1 DEF TypeOK
  <2>6. /\ unit' \in [Workers -> Units \cup {NoUnit}]
        /\ pc' \in [Workers -> Busy \cup {"loop", "gone"}]
        /\ \A v \in Workers : pc'[v] \in Busy <=> unit'[v] # NoUnit
        /\ endgame' \in [Workers -> BOOLEAN]
    BY <1>1, <2>1 DEF TakeUnit, TypeOK, Busy
  <2>. QED BY <1>1, <2>4, <2>5, <2>6 DEF TakeUnit, TypeOK, fileVars
<1>2. CASE DuplicateUnit(w)
  <2>1. PICK u \in Units :
          /\ working' = working \cup {<<u, SourceOf(w)>>}
          /\ unit' = [unit EXCEPT ![w] = u]
    BY <1>2 DEF DuplicateUnit, Stragglers
  <2>3. pending' \in [Units -> Nat]
    BY <1>2 DEF TypeOK, DuplicateUnit, Scanned
  <2>4. working' \subseteq Units \X Sources
    BY <1>0, <2>1 DEF TypeOK
  <2>5. /\ unit' \in [Workers -> Units \cup {NoUnit}]
        /\ pc' \in [Workers -> Busy \cup {"loop", "gone"}]
        /\ \A v \in Workers : pc'[v] \in Busy <=> unit'[v] # NoUnit
        /\ endgame' \in [Workers -> BOOLEAN]
    BY <1>2, <2>1 DEF DuplicateUnit, TypeOK, Busy
  <2>. QED BY <1>2, <2>3, <2>4, <2>5 DEF DuplicateUnit, TypeOK, fileVars
<1>3. CASE WaitForMore(w)
  BY <1>3 DEF WaitForMore, TypeOK, Scanned, Busy, fileVars
<1>4. CASE WorkerEnds(w)
  BY <1>4 DEF WorkerEnds, TypeOK, Scanned, Busy, fileVars
<1>5. CASE LandUnit(w)
  <2>1. unit[w] \in Units
    BY <1>0, <1>5 DEF LandUnit, Busy
  <2>2. done' \in SUBSET Units /\ borrowed' \in SUBSET Units
    BY <1>5, <2>1 DEF LandUnit, TypeOK
  <2>3. record' \in [done : SUBSET Units, borrowed : SUBSET Units]
        /\ unpersisted' \in Nat
    BY <1>5, <2>2, WriteRecordType DEF LandUnit, landed, TypeOK
  <2>4. pending' \in [Units -> Nat] /\ in_flight' \subseteq Units
        /\ complete' \in BOOLEAN
    BY <1>5, <2>1, SettleType DEF LandUnit
  <2>5. working' \subseteq Units \X Sources /\ proofs' \subseteq Units
        /\ shared' \subseteq Units
        /\ disk' \in [Units -> Intact \cup {"empty", "bad"}]
    BY <1>5, <2>1 DEF LandUnit, TypeOK, Intact
  <2>6. Between(w, "loop") BY <1>5 DEF LandUnit
  <2>. QED BY <1>5, <2>2, <2>3, <2>4, <2>5, <2>6, BetweenType
           DEF LandUnit, TypeOK
<1>6. CASE LoseRace(w)
  BY <1>0, <1>6 DEF LoseRace, TypeOK, Busy, fileVars
<1>7. CASE SettleLost(w)
  <2>1. unit[w] \in Units
    BY <1>0, <1>7 DEF SettleLost, Busy
  <2>2. settle(unit[w]) /\ Between(w, "loop")
    BY <1>7 DEF SettleLost
  <2>. QED BY <1>7, <2>1, <2>2, SettleType, BetweenType
           DEF SettleLost, TypeOK, fileVars
<1>8. CASE WriteFails(w)
  BY <1>0, <1>8 DEF WriteFails, TypeOK, Busy, Intact
<1>9. CASE NoteLocal(w)
  <2>1. unit[w] \in Units
    BY <1>0, <1>9 DEF NoteLocal, Busy
  <2>2. give_back(unit[w], SourceOf(w), endgame[w]) /\ Between(w, "gone")
    BY <1>9 DEF NoteLocal
  <2>. QED BY <1>0, <1>9, <2>1, <2>2, GiveBackType, BetweenType
           DEF NoteLocal, TypeOK, fileVars
<1>10. CASE SourceBusy(w)
  <2>1. unit[w] \in Units
    BY <1>0, <1>10 DEF SourceBusy, Busy
  <2>2. give_back(unit[w], SourceOf(w), endgame[w])
        /\ \E p \in {"loop", "gone"} : Between(w, p)
    BY <1>10 DEF SourceBusy
  <2>. QED BY <1>0, <1>10, <2>1, <2>2, GiveBackType, BetweenType
           DEF SourceBusy, TypeOK, fileVars
<1>11. CASE SourceLacks(w)
  <2>1. unit[w] \in Units
    BY <1>0, <1>11 DEF SourceLacks, Busy
  <2>2. give_back(unit[w], SourceOf(w), endgame[w])
        /\ \E p \in {"loop", "gone"} : Between(w, p)
    BY <1>11 DEF SourceLacks
  <2>. QED BY <1>0, <1>11, <2>1, <2>2, GiveBackType, BetweenType
           DEF SourceLacks, TypeOK, fileVars
<1>12. CASE ProcessingFails(w)
  BY <1>12 DEF ProcessingFails, TypeOK, Busy, fileVars
<1>13. CASE SourceFails(w)
  <2>1. unit[w] \in Units
    BY <1>0, <1>13 DEF SourceFails, Busy
  <2>2. give_back(unit[w], SourceOf(w), endgame[w]) /\ Between(w, "gone")
    BY <1>13 DEF SourceFails
  <2>. QED BY <1>0, <1>13, <2>1, <2>2, GiveBackType, BetweenType
           DEF SourceFails, TypeOK, fileVars
<1>14. CASE AbortTask(w)
  <2>1. Between(w, "gone") BY <1>14 DEF AbortTask
  <2>. QED BY <1>14, <2>1, BetweenType DEF AbortTask, TypeOK, workVars, fileVars
<1>15. CASE SourceLetGo(w)
  BY <1>15 DEF SourceLetGo, TypeOK, Busy, workVars, fileVars
<1>16. CASE IdleLimit(w)
  BY <1>16 DEF IdleLimit, TypeOK, workVars, fileVars
<1>. QED
  BY <1>1, <1>2, <1>3, <1>4, <1>5, <1>6, <1>7, <1>8, <1>9, <1>10, <1>11,
     <1>12, <1>13, <1>14, <1>15, <1>16 DEF WorkerStep

\* Every step of the fetch itself (judging, verifying, sealing), of its start and
\* of what ends or disturbs it keeps the types.
LEMMA FutureType ==
  ASSUME TypeOK, FetchStep \/ StartFetch \/ Cancel \/ Kill \/ Tamper
  PROVE  TypeOK'
<1>. USE DEF TypeOK
<1>1. CASE Judge
  BY <1>1 DEF Judge, workerVars, fileVars
<1>2. ASSUME drop_workers, main' \in {"verifying", "unwinding"}
      PROVE  TypeOK'
  BY <1>2, WriteRecordType DEF drop_workers, workerVars
<1>3. CASE DropWorkers
  BY <1>2, <1>3 DEF DropWorkers
<1>4. CASE Cancel
  BY <1>2, <1>4 DEF Cancel, workVars, workerVars, fileVars
<1>5. CASE Unwind
  BY <1>5 DEF Unwind, workVars, workerVars, fileVars
<1>6. CASE VerifyWhole
  BY <1>6 DEF VerifyWhole, NoRecord, workVars, workerVars
<1>7. CASE HealFiles
  BY <1>7 DEF HealFiles, workVars, workerVars
<1>8. CASE RemoveRecord
  BY <1>8 DEF RemoveRecord, NoRecord, workVars, workerVars
<1>9. CASE SeedWhole
  BY <1>9 DEF SeedWhole, workVars, workerVars
<1>10. CASE StartFetch
  BY <1>10, UnitsAssumption DEF StartFetch, ResumedShare, Busy, fileVars
<1>11. CASE Kill
  BY <1>11 DEF Kill, Busy
<1>12. CASE Tamper
  BY <1>12 DEF Tamper, workVars, workerVars
<1>. QED
  BY <1>1, <1>3, <1>4, <1>5, <1>6, <1>7, <1>8, <1>9, <1>10, <1>11, <1>12
     DEF FetchStep

\* Every variable keeps its type, and a worker has a unit exactly while it is
\* in the middle of one.
THEOREM TypeCorrect == Spec => []TypeOK
<1>1. Init => TypeOK
  <2>. SUFFICES ASSUME Init PROVE TypeOK OBVIOUS
  <2>1. record \in [done : SUBSET Units, borrowed : SUBSET Units]
    BY DEF Init, NoRecord
  <2>2. disk \in [Units -> Intact \cup {"empty", "bad"}]
    BY DEF Init
  <2>3. \A w \in Workers : pc[w] \in Busy <=> unit[w] # NoUnit
    BY DEF Init, Busy
  <2>. QED BY <2>1, <2>2, <2>3 DEF Init, TypeOK
<1>2. TypeOK /\ [Next]_vars => TypeOK'
  <2>. SUFFICES ASSUME TypeOK, [Next]_vars PROVE TypeOK' OBVIOUS
  <2>1. CASE UNCHANGED vars
    BY <2>1 DEF vars, workVars, workerVars, fileVars, TypeOK
  <2>2. CASE Next
    BY <2>2, WorkerType, FutureType DEF Next
  <2>. QED BY <2>1, <2>2
<1>. QED BY <1>1, <1>2, PTL DEF Spec

-----------------------------------------------------------------------------
(* The inductive invariant.  Worker steps are grouped by what they do. *)

\* The four ways a worker hands its unit back.
GivesBack(w) ==
  /\ pc[w] \in {"fetching", "iofail", "failed"}
  /\ give_back(unit[w], SourceOf(w), endgame[w])
  /\ \E p \in {"loop", "gone"} : Between(w, p)
  /\ IF pc[w] = "iofail" THEN local' = (local \/ ~stopped)
                         ELSE local' = local
  /\ UNCHANGED <<main, done, borrowed, unpersisted, stopped, fileVars, shared>>

\* The steps of a worker between two units that takes none.
Quiet(w) ==
  /\ \/ UNCHANGED pc
     \/ pc[w] = "loop" /\ pc' = [pc EXCEPT ![w] = "gone"]
  /\ \/ pending' = Scanned
     \/ UNCHANGED pending
  /\ UNCHANGED <<main, in_flight, working, done, borrowed, unpersisted,
                 stopped, local, complete, unit, endgame, fileVars, shared>>

\* What a worker's step does to the queue is one of ten things, a unit taken or
\* duplicated, landed, lost, given back or left alone.
LEMMA StepKinds ==
  ASSUME TypeOK, NEW w \in Workers,
         WorkerStep(w) \/ SourceLetGo(w) \/ IdleLimit(w)
  PROVE  \/ TakeUnit(w) \/ DuplicateUnit(w) \/ LandUnit(w) \/ LoseRace(w)
         \/ SettleLost(w) \/ WriteFails(w) \/ ProcessingFails(w)
         \/ AbortTask(w) \/ GivesBack(w) \/ Quiet(w)
<1>1. CASE NoteLocal(w)
  BY <1>1 DEF NoteLocal, GivesBack
<1>2. CASE SourceBusy(w)
  BY <1>2 DEF SourceBusy, GivesBack
<1>3. CASE SourceLacks(w)
  BY <1>3 DEF SourceLacks, GivesBack
<1>4. CASE SourceFails(w)
  BY <1>4 DEF SourceFails, GivesBack
<1>5. CASE WaitForMore(w)
  <2>1. pc' = [pc EXCEPT ![w] = "loop"] \/ pc' = [pc EXCEPT ![w] = "gone"]
    BY <1>5 DEF WaitForMore
  <2>2. pc[w] = "loop" BY <1>5 DEF WaitForMore
  <2>3. pc' = pc \/ pc' = [pc EXCEPT ![w] = "gone"]
    BY <2>1, <2>2 DEF TypeOK
  <2>. QED BY <1>5, <2>2, <2>3 DEF WaitForMore, Quiet
<1>6. CASE WorkerEnds(w)
  BY <1>6 DEF WorkerEnds, Quiet
<1>7. CASE SourceLetGo(w)
  BY <1>7 DEF SourceLetGo, Quiet, workVars
<1>8. CASE IdleLimit(w)
  BY <1>8 DEF IdleLimit, Quiet, workVars
<1>. QED BY <1>1, <1>2, <1>3, <1>4, <1>5, <1>6, <1>7, <1>8 DEF WorkerStep

\* While a fetch runs, the queue holds no unit that is done.
LEMMA ScannedSame ==
  ASSUME TypeOK, QueueInv, Running
  PROVE  Scanned = pending
BY DEF TypeOK, QueueInv, Accounted, Scanned

\* A worker that lets go of its unit answers for none.
LEMMA BetweenOwners ==
  ASSUME TypeOK, NEW w \in Workers, NEW p \in {"loop", "gone"}, Between(w, p)
  PROVE  \A u \in Units : /\ Owners(u)' = Owners(u) \ {w}
                          /\ u # unit[w] => Owners(u)' = Owners(u)
<1>. TAKE u \in Units
<1>1. Owners(u)' = Owners(u) \ {w}
  BY DEF Owners, Between, Busy, TypeOK
<1>2. u # unit[w] => w \notin Owners(u)
  BY DEF Owners
<1>. QED BY <1>1, <1>2

\* A worker's step loses no unit: each is queued, owned by a worker that is at
\* it, or done.
LEMMA QueueWorker ==
  ASSUME TypeOK, PhaseInv, QueueInv, NEW w \in Workers, Running,
         WorkerStep(w) \/ SourceLetGo(w) \/ IdleLimit(w)
  PROVE  QueueInv'
<1>. USE UnitsAssumption
<1>0. /\ ~stopped
      /\ pc[w] \in Busy => unit[w] \in Units
      /\ Scanned = pending
      /\ \A u \in Units : Accounted(u)
      /\ \A v \in Workers : pc[v] = "lost" => unit[v] \in done
  BY ScannedSame, WorkerFacts DEF PhaseInv, QueueInv
<1>1. CASE TakeUnit(w)
  <2>1. PICK u \in Units :
          /\ u \notin done /\ pending[u] > 0
          /\ pending' = [pending EXCEPT ![u] = @ - 1]
          /\ in_flight' = in_flight \cup {u}
          /\ unit' = [unit EXCEPT ![w] = u]
    BY <1>0, <1>1 DEF TakeUnit, Takable
  <2>2. \A v \in Units : Owners(v)' = Owners(v) \cup (IF v = u THEN {w} ELSE {})
    BY <1>1, <2>1 DEF TakeUnit, Owners, Busy, TypeOK
  <2>3. ASSUME NEW v \in Units PROVE Accounted(v)'
    BY <1>0, <1>1, <2>1, <2>2 DEF TakeUnit, Accounted, TypeOK
  <2>4. \A v \in Workers : pc'[v] = "lost" => unit'[v] \in done'
    BY <1>0, <1>1, <2>1 DEF TakeUnit, TypeOK
  <2>. QED BY <2>3, <2>4 DEF QueueInv
<1>2. CASE DuplicateUnit(w)
  <2>1. PICK u \in Units : unit' = [unit EXCEPT ![w] = u]
    BY <1>2 DEF DuplicateUnit, Stragglers
  <2>2. \A v \in Units : Owners(v)' = Owners(v)
    BY <1>2, <2>1 DEF DuplicateUnit, Owners, Busy, TypeOK
  <2>3. ASSUME NEW v \in Units PROVE Accounted(v)'
    BY <1>0, <1>2, <2>2 DEF DuplicateUnit, Accounted
  <2>4. \A v \in Workers : pc'[v] = "lost" => unit'[v] \in done'
    BY <1>0, <1>2, <2>1 DEF DuplicateUnit, TypeOK
  <2>. QED BY <2>3, <2>4 DEF QueueInv
<1>3. CASE LandUnit(w)
  <2>1. Between(w, "loop") /\ settle(unit[w]) /\ done' = done \cup {unit[w]}
    BY <1>3 DEF LandUnit
  <2>2. unit[w] \in Units
    BY <1>0, <1>3 DEF LandUnit, Busy
  <2>3. ASSUME NEW v \in Units PROVE Accounted(v)'
    BY <1>0, <2>1, <2>2, BetweenOwners DEF settle, Accounted, TypeOK
  <2>4. \A v \in Workers : pc'[v] = "lost" => unit'[v] \in done'
    BY <1>0, <2>1 DEF Between, TypeOK
  <2>. QED BY <2>3, <2>4 DEF QueueInv
<1>4. CASE LoseRace(w)
  <2>1. \A v \in Units : Owners(v)' = Owners(v)
    BY <1>4 DEF LoseRace, Owners, Busy, TypeOK
  <2>2. ASSUME NEW v \in Units PROVE Accounted(v)'
    BY <1>0, <1>4, <2>1 DEF LoseRace, Accounted
  <2>3. \A v \in Workers : pc'[v] = "lost" => unit'[v] \in done'
    BY <1>0, <1>4 DEF LoseRace, TypeOK
  <2>. QED BY <2>2, <2>3 DEF QueueInv
<1>5. CASE SettleLost(w)
  <2>1. /\ Between(w, "loop") /\ settle(unit[w]) /\ done' = done
        /\ unit[w] \in done
    BY <1>0, <1>5 DEF SettleLost
  <2>2. unit[w] \in Units
    BY <1>0, <1>5 DEF SettleLost, Busy
  <2>3. ASSUME NEW v \in Units PROVE Accounted(v)'
    BY <1>0, <2>1, <2>2, BetweenOwners DEF settle, Accounted, TypeOK
  <2>4. \A v \in Workers : pc'[v] = "lost" => unit'[v] \in done'
    BY <1>0, <2>1 DEF Between, TypeOK
  <2>. QED BY <2>3, <2>4 DEF QueueInv
<1>6. CASE WriteFails(w) \/ ProcessingFails(w)
  <2>0. /\ pc[w] = "fetching"
        /\ \E p \in {"iofail", "failed"} : pc' = [pc EXCEPT ![w] = p]
        /\ UNCHANGED <<pending, in_flight, done, unit, endgame>>
    BY <1>6 DEF WriteFails, ProcessingFails
  <2>1. \A v \in Units : Owners(v)' = Owners(v)
    BY <2>0 DEF Owners, Busy, TypeOK
  <2>2. ASSUME NEW v \in Units PROVE Accounted(v)'
    BY <1>0, <2>0, <2>1 DEF Accounted
  <2>3. \A v \in Workers : pc'[v] = "lost" => unit'[v] \in done'
    BY <1>0, <2>0 DEF TypeOK
  <2>. QED BY <2>2, <2>3 DEF QueueInv
<1>7. CASE AbortTask(w)
  BY <1>0, <1>7 DEF AbortTask
<1>8. CASE GivesBack(w)
  <2>0. PICK p \in {"loop", "gone"} : Between(w, p)
    BY <1>8 DEF GivesBack
  <2>1. /\ give_back(unit[w], SourceOf(w), endgame[w]) /\ done' = done
        /\ pc[w] \in Busy
    BY <1>8 DEF GivesBack, Busy
  <2>2. PICK x \in Units : x = unit[w]
    BY <1>0, <2>1
  <2>3. \A v \in Units : v # x => Accounted(v)'
    <3>. TAKE v \in Units
    <3>. HAVE v # x
    <3>1. pending'[v] = pending[v] /\ (v \in in_flight' <=> v \in in_flight)
      BY <2>1, <2>2 DEF give_back, settle, TypeOK
    <3>2. Owners(v)' = Owners(v)
      BY <2>0, <2>2, BetweenOwners
    <3>. QED BY <1>0, <2>1, <3>1, <3>2 DEF Accounted
  <2>4. \A v \in Workers : pc'[v] = "lost" => unit'[v] \in done'
    BY <1>0, <2>0, <2>1 DEF Between, TypeOK
  <2>5. Owners(x)' = Owners(x) \ {w}
    BY <2>0, BetweenOwners
  <2>6. CASE x \in done
    <3>1. Accounted(x)'
      BY <1>0, <2>1, <2>2, <2>6 DEF give_back, settle, Accounted, TypeOK
    <3>. QED BY <2>3, <2>4, <3>1 DEF QueueInv
  <2>7. CASE x \notin done /\ ~endgame[w]
    <3>1. w \in Owners(x)
      BY <2>1, <2>2, <2>7 DEF Owners
    <3>2. x \in in_flight /\ pending[x] = 0 /\ Owners(x) = {w}
      BY <1>0, <2>7, <3>1 DEF Accounted
    <3>3. pending'[x] = 1 /\ x \notin in_flight'
      BY <2>1, <2>2, <2>7, <3>2 DEF give_back, TypeOK
    <3>4. Accounted(x)'
      BY <2>1, <2>5, <2>7, <3>2, <3>3 DEF Accounted
    <3>. QED BY <2>3, <2>4, <3>4 DEF QueueInv
  <2>8. CASE x \notin done /\ endgame[w]
    <3>1. w \notin Owners(x)
      BY <2>8 DEF Owners
    <3>2. UNCHANGED <<pending, in_flight>>
      BY <2>1, <2>2, <2>8 DEF give_back
    <3>3. Accounted(x)'
      BY <1>0, <2>1, <2>5, <3>1, <3>2 DEF Accounted
    <3>. QED BY <2>3, <2>4, <3>3 DEF QueueInv
  <2>. QED BY <2>6, <2>7, <2>8, WorkerFacts
<1>9. CASE Quiet(w)
  <2>1. \A v \in Units : Owners(v)' = Owners(v)
    BY <1>9 DEF Quiet, Owners, Busy, TypeOK
  <2>2. ASSUME NEW v \in Units PROVE Accounted(v)'
    BY <1>0, <1>9, <2>1 DEF Quiet, Accounted
  <2>3. \A v \in Workers : pc'[v] = "lost" => unit'[v] \in done'
    BY <1>0, <1>9 DEF Quiet, TypeOK
  <2>. QED BY <2>2, <2>3 DEF QueueInv
<1>. QED
  BY <1>1, <1>2, <1>3, <1>4, <1>5, <1>6, <1>7, <1>8, <1>9, StepKinds

\* A worker that takes a step is not gone; it moves only itself.
LEMMA PhaseWorker ==
  ASSUME TypeOK, PhaseInv, NEW w \in Workers,
         WorkerStep(w) \/ SourceLetGo(w) \/ IdleLimit(w)
  PROVE  PhaseInv' /\ main' = main /\ stopped' = stopped
<1>1. CASE IdleLimit(w)
  BY <1>1 DEF IdleLimit, PhaseInv, Running, workVars, fileVars
<1>2. ASSUME WorkerStep(w) \/ SourceLetGo(w)
      PROVE  pc[w] # "gone" /\ main' = main /\ stopped' = stopped
  BY <1>2 DEF WorkerStep, SourceLetGo, TakeUnit, DuplicateUnit, WaitForMore,
     WorkerEnds, LandUnit, LoseRace, SettleLost, WriteFails, NoteLocal,
     SourceBusy, SourceLacks, ProcessingFails, SourceFails, AbortTask, workVars
<1>3. ASSUME WorkerStep(w) \/ SourceLetGo(w), main \notin {"fetching", "failing", "judged"}
      PROVE  UNCHANGED <<record, shared>>
  <2>1. stopped
    BY <1>2, <1>3 DEF PhaseInv, Running
  <2>. QED
    BY <1>3, <2>1 DEF WorkerStep, SourceLetGo, TakeUnit, DuplicateUnit,
       WaitForMore, WorkerEnds, LandUnit, Writable, LoseRace, SettleLost,
       WriteFails, NoteLocal, SourceBusy, SourceLacks, ProcessingFails,
       SourceFails, AbortTask, fileVars
<1>4. CASE WorkerStep(w) \/ SourceLetGo(w)
  BY <1>2, <1>3, <1>4 DEF PhaseInv, Running
<1>. QED BY <1>1, <1>4

\* The fetch's own steps keep workers and its phases in agreement.
LEMMA PhaseFuture ==
  ASSUME TypeOK, PhaseInv, FetchStep \/ StartFetch \/ Cancel \/ Kill \/ Tamper
  PROVE  PhaseInv'
<1>. USE DEF PhaseInv, Running
<1>1. CASE Judge
  BY <1>1 DEF Judge, workerVars, fileVars
<1>2. CASE DropWorkers
  BY <1>2 DEF DropWorkers, drop_workers
<1>3. CASE Cancel
  BY <1>3 DEF Cancel, drop_workers, workVars, workerVars, fileVars
<1>4. CASE Unwind
  BY <1>4 DEF Unwind, workVars, workerVars, fileVars
<1>5. CASE VerifyWhole
  BY <1>5 DEF VerifyWhole, workVars, workerVars
<1>6. CASE HealFiles
  BY <1>6 DEF HealFiles, workVars, workerVars
<1>7. CASE RemoveRecord
  BY <1>7 DEF RemoveRecord, workVars, workerVars
<1>8. CASE SeedWhole
  BY <1>8 DEF SeedWhole, workVars, workerVars
<1>9. CASE StartFetch
  BY <1>9 DEF StartFetch
<1>10. CASE Kill
  BY <1>10 DEF Kill
<1>11. CASE Tamper
  BY <1>11 DEF Tamper, workVars, workerVars
<1>. QED
  BY <1>1, <1>2, <1>3, <1>4, <1>5, <1>6, <1>7, <1>8, <1>9, <1>10, <1>11
     DEF FetchStep

\* The fetch's own steps, and a start that queues what the record lacks, lose no
\* unit.
LEMMA QueueFuture ==
  ASSUME TypeOK, PhaseInv, QueueInv,
         FetchStep \/ StartFetch \/ Cancel \/ Kill \/ Tamper
  PROVE  QueueInv'
<1>1. CASE Judge
  BY <1>1 DEF Judge, QueueInv, Running, Accounted, Owners, workerVars
<1>2. CASE StartFetch
  <2>1. \A w \in Workers : pc'[w] \in {"loop", "gone"}
    BY <1>2 DEF StartFetch
  <2>2. \A u \in Units : Owners(u)' = {}
    BY <2>1 DEF Owners, Busy
  <2>3. \A u \in Units : Accounted(u)'
    BY <1>2, <2>2 DEF StartFetch, Accounted, TypeOK
  <2>. QED BY <2>1, <2>3 DEF QueueInv
<1>3. CASE ~(Judge \/ StartFetch)
  <2>1. ~Running'
    BY <1>3 DEF FetchStep, DropWorkers, Cancel, Unwind, VerifyWhole, HealFiles,
       RemoveRecord, SeedWhole, Kill, Tamper, Running
  <2>. QED BY <2>1 DEF QueueInv
<1>. QED BY <1>1, <1>2, <1>3

\* A worker's step never has a source fetch a unit twice at once, unless a local
\* failure has doomed the fetch.
LEMMA AskWorker ==
  ASSUME TypeOK, PhaseInv, AskInv, NEW w \in Workers,
         WorkerStep(w) \/ SourceLetGo(w) \/ IdleLimit(w)
  PROVE  AskInv'
<1>. SUFFICES ASSUME main' = "fetching", ~local'
              PROVE  /\ ~AskedTwice'
                     /\ \A v \in Workers :
                          /\ pc'[v] # "failed"
                          /\ pc'[v] = "fetching"
                             => <<unit'[v], SourceOf(v)>> \in working'
  BY DEF AskInv
<1>0. main = "fetching" /\ ~stopped
  BY PhaseWorker DEF PhaseInv, Running
<1>. USE DEF TypeOK, AskedTwice
<1>1. ASSUME ~local
      PROVE  /\ ~AskedTwice
             /\ \A v \in Workers :
                  /\ pc[v] # "failed"
                  /\ pc[v] = "fetching" => <<unit[v], SourceOf(v)>> \in working
  BY <1>0, <1>1 DEF AskInv
<1>2. CASE TakeUnit(w)
  <2>1. PICK u \in Units : /\ <<u, SourceOf(w)>> \notin working
                           /\ working' = working \cup {<<u, SourceOf(w)>>}
                           /\ unit' = [unit EXCEPT ![w] = u]
    BY <1>2 DEF TakeUnit, Takable
  <2>. QED BY <1>1, <1>2, <2>1 DEF TakeUnit
<1>3. CASE DuplicateUnit(w)
  <2>1. PICK u \in Units : /\ <<u, SourceOf(w)>> \notin working
                           /\ working' = working \cup {<<u, SourceOf(w)>>}
                           /\ unit' = [unit EXCEPT ![w] = u]
    BY <1>3 DEF DuplicateUnit, Stragglers
  <2>. QED BY <1>1, <1>3, <2>1 DEF DuplicateUnit
<1>4. CASE LandUnit(w) \/ LoseRace(w) \/ WriteFails(w)
  <2>1. /\ pc[w] = "fetching" /\ local' = local
        /\ working' = working \ {<<unit[w], SourceOf(w)>>}
        /\ \E q \in {"loop", "lost", "iofail"} : pc' = [pc EXCEPT ![w] = q]
        /\ \A v \in Workers : v # w => unit'[v] = unit[v]
    BY <1>4 DEF LandUnit, LoseRace, WriteFails, Between
  <2>. QED BY <1>1, <2>1
<1>5. CASE SettleLost(w)
  <2>1. /\ local' = local /\ working' = working
        /\ pc' = [pc EXCEPT ![w] = "loop"]
        /\ \A v \in Workers : v # w => unit'[v] = unit[v]
    BY <1>5 DEF SettleLost, Between
  <2>. QED BY <1>1, <2>1
<1>6. CASE ProcessingFails(w)
  BY <1>6 DEF ProcessingFails
<1>7. CASE AbortTask(w)
  BY <1>0, <1>7 DEF AbortTask
<1>8. CASE GivesBack(w)
  <2>1. pc[w] \in {"fetching", "failed"} /\ local' = local
    BY <1>0, <1>8 DEF GivesBack
  <2>2. /\ working' = working \ {<<unit[w], SourceOf(w)>>}
        /\ \E q \in {"loop", "gone"} : pc' = [pc EXCEPT ![w] = q]
        /\ \A v \in Workers : v # w => unit'[v] = unit[v]
    BY <1>8 DEF GivesBack, give_back, Between
  <2>. QED BY <1>1, <2>1, <2>2
<1>9. CASE Quiet(w)
  <2>1. /\ local' = local /\ working' = working /\ unit' = unit
        /\ \A v \in Workers : pc'[v] \in {pc[v], "gone"}
    BY <1>9 DEF Quiet
  <2>. QED BY <1>1, <2>1
<1>. QED BY <1>2, <1>3, <1>4, <1>5, <1>6, <1>7, <1>8, <1>9, StepKinds

\* No other step has a source asked for a unit twice.
LEMMA AskFuture ==
  ASSUME TypeOK, AskInv, FetchStep \/ StartFetch \/ Cancel \/ Kill \/ Tamper
  PROVE  AskInv'
<1>1. CASE StartFetch
  BY <1>1 DEF StartFetch, AskInv, AskedTwice
<1>2. CASE ~StartFetch
  <2>1. main' # "fetching"
    BY <1>2 DEF FetchStep, Judge, DropWorkers, Cancel, Unwind, VerifyWhole,
       HealFiles, RemoveRecord, SeedWhole, Kill, Tamper
  <2>. QED BY <2>1 DEF AskInv
<1>. QED BY <1>1, <1>2

\* The permit is given only when every unit is done.
LEMMA PermitMeansAll ==
  ASSUME TypeOK', QueueInv', Running', NothingLeft(pending', in_flight')
  PROVE  done' = Units
<1>1. \A u \in Units : Accounted(u)'
  BY DEF QueueInv
<1>2. \A u \in Units : pending'[u] = 0 /\ u \notin in_flight'
  BY DEF NothingLeft
<1>3. \A u \in Units : u \in done'
  BY <1>1, <1>2 DEF Accounted
<1>. QED BY <1>3 DEF TypeOK

\* A worker step other than a landing leaves the record, what is done and
\* what is shared alone; on disk it can only spoil a unit that is not done.
LEMMA NotLanding ==
  ASSUME TypeOK, NEW w \in Workers, ~LandUnit(w),
         WorkerStep(w) \/ SourceLetGo(w) \/ IdleLimit(w)
  PROVE  /\ UNCHANGED <<main, done, borrowed, proofs, record, tampered, shared>>
         /\ \/ disk' = disk
            \/ /\ ~stopped /\ pc[w] = "fetching" /\ unit[w] \in Units \ done
               /\ disk' = [disk EXCEPT ![unit[w]] = "bad"]
         /\ complete' => complete \/ NothingLeft(pending', in_flight')
<1>1. CASE TakeUnit(w)
  BY <1>1 DEF TakeUnit, fileVars
<1>2. CASE DuplicateUnit(w)
  BY <1>2 DEF DuplicateUnit, fileVars
<1>3. CASE LoseRace(w)
  BY <1>3 DEF LoseRace, fileVars
<1>4. CASE SettleLost(w)
  BY <1>4 DEF SettleLost, settle, fileVars
<1>5. CASE WriteFails(w)
  <2>1. unit[w] \in Units
    BY <1>5, WorkerFacts DEF WriteFails, Busy
  <2>2. disk' = disk \/ (Writable(w) /\ disk' = [disk EXCEPT ![unit[w]] = "bad"])
    BY <1>5, <2>1 DEF WriteFails, TypeOK
  <2>. QED BY <1>5, <2>1, <2>2 DEF WriteFails, Writable
<1>6. CASE ProcessingFails(w)
  BY <1>6 DEF ProcessingFails, fileVars
<1>7. CASE AbortTask(w)
  BY <1>7 DEF AbortTask, workVars, fileVars
<1>8. CASE GivesBack(w)
  <2>1. give_back(unit[w], SourceOf(w), endgame[w])
    BY <1>8 DEF GivesBack
  <2>2. complete' => complete \/ NothingLeft(pending', in_flight')
    BY <2>1, Zenon DEF give_back, settle
  <2>3. disk' = disk
        /\ UNCHANGED <<main, done, borrowed, proofs, record, tampered, shared>>
    BY <1>8 DEF GivesBack, fileVars
  <2>. QED BY <2>2, <2>3
<1>9. CASE Quiet(w)
  BY <1>9 DEF Quiet, fileVars
<1>. QED BY <1>1, <1>2, <1>3, <1>4, <1>5, <1>6, <1>7, <1>8, <1>9, StepKinds

\* A landing happens only in a running fetch, and writes one unit.
LEMMA Landing ==
  ASSUME TypeOK, PhaseInv, NEW w \in Workers, LandUnit(w)
  PROVE  /\ Running /\ main' = main
         /\ \E u \in Units \ done :
              /\ done' = done \cup {u}
              /\ \/ /\ disk' = [disk EXCEPT ![u] = "own"]
                    /\ borrowed' = borrowed
                    /\ shared' \in {shared, shared \cup {u}}
                 \/ /\ disk' = [disk EXCEPT ![u] = "lent"]
                    /\ borrowed' = borrowed \cup {u}
                    /\ shared' = shared
         /\ record' \in {record, [done |-> done', borrowed |-> borrowed']}
         /\ tampered' = tampered
         /\ complete' => complete \/ NothingLeft(pending', in_flight')
<1>1. unit[w] \in Units
  BY WorkerFacts DEF LandUnit, Busy
<1>2. Running
  BY DEF PhaseInv, LandUnit, Writable
<1>3. record' \in {record, [done |-> done', borrowed |-> borrowed']}
  BY DEF LandUnit, landed, write_record
<1>4. complete' => complete \/ NothingLeft(pending', in_flight')
  BY DEF LandUnit, settle
<1>. QED BY <1>1, <1>2, <1>3, <1>4 DEF LandUnit, Writable

\* A worker's step keeps the resume record behind what was verified and written.
LEMMA DiskWorker ==
  ASSUME TypeOK, TypeOK', PhaseInv, QueueInv', DiskInv, NEW w \in Workers,
         WorkerStep(w) \/ SourceLetGo(w) \/ IdleLimit(w)
  PROVE  DiskInv'
<1>. USE DEF TypeOK, DiskInv, RecordNeverAhead, Verified, Intact, Running, Whole
<1>1. CASE LandUnit(w)
  <2>1. PICK u \in Units \ done :
          /\ done' = done \cup {u}
          /\ \E b \in {"own", "lent"} : disk' = [disk EXCEPT ![u] = b]
    BY <1>1, Landing
  <2>2. /\ Running /\ main' = main /\ tampered' = tampered
        /\ record'.done \in {record.done, done'}
    BY <1>1, Landing
  <2>3. done' \subseteq (Verified \cup tampered)'
    BY <2>1, <2>2
  <2>4. record'.done \subseteq done'
    BY <2>1, <2>2
  <2>5. complete' => done' = Units
    BY <1>1, <2>1, <2>2, Landing, PermitMeansAll
  <2>6. Whole' => done' = Units
    BY <2>1, <2>2
  <2>. QED BY <2>2, <2>3, <2>4, <2>5, <2>6
<1>2. CASE ~LandUnit(w)
  <2>1. UNCHANGED <<main, done, record, tampered>>
    BY <1>2, NotLanding
  <2>2. \A u \in Units : disk'[u] = disk[u] \/ (Running /\ u \notin done)
    <3>1. ~stopped /\ pc[w] = "fetching" => Running
      BY DEF PhaseInv
    <3>. QED BY <1>2, <3>1, NotLanding
  <2>3. Running /\ complete' => done' = Units
    BY <1>2, <2>1, NotLanding, PermitMeansAll
  <2>. QED BY <2>1, <2>2, <2>3
<1>. QED BY <1>1, <1>2

\* A worker's step shares no unit that was only lent.
LEMMA LentWorker ==
  ASSUME TypeOK, PhaseInv, DiskInv, LentInv, NEW w \in Workers,
         WorkerStep(w) \/ SourceLetGo(w) \/ IdleLimit(w)
  PROVE  LentInv'
<1>. USE DEF TypeOK, LentInv, LentNeverShared, Running, Whole
<1>1. CASE LandUnit(w)
  <2>1. Running /\ main' = main /\ record.done \subseteq done
    BY <1>1, Landing DEF DiskInv
  <2>2. PICK u \in Units \ done :
          /\ done' = done \cup {u}
          /\ \/ /\ disk' = [disk EXCEPT ![u] = "own"]
                /\ borrowed' = borrowed
                /\ shared' \in {shared, shared \cup {u}}
             \/ /\ disk' = [disk EXCEPT ![u] = "lent"]
                /\ borrowed' = borrowed \cup {u}
                /\ shared' = shared
    BY <1>1, Landing
  <2>3. \A x \in done' : disk'[x] = "lent" => x \in borrowed'
    BY <2>1, <2>2
  <2>4. \A x \in record'.done : disk'[x] = "lent" => x \in record'.borrowed
    <3>1. CASE record' = record
      BY <2>1, <2>2, <3>1
    <3>2. CASE record' = [done |-> done', borrowed |-> borrowed']
      BY <2>3, <3>2
    <3>. QED BY <1>1, <3>1, <3>2, Landing
  <2>5. shared' \subseteq done'
    BY <2>1, <2>2
  <2>6. \A x \in shared' : disk'[x] # "lent"
    BY <2>1, <2>2
  <2>. QED BY <2>1, <2>3, <2>4, <2>5, <2>6
<1>2. CASE ~LandUnit(w)
  <2>1. UNCHANGED <<main, done, borrowed, record, shared>>
    BY <1>2, NotLanding
  <2>2. \A u \in Units : disk'[u] = disk[u] \/ disk'[u] = "bad"
    BY <1>2, NotLanding
  <2>. QED BY <2>1, <2>2
<1>. QED BY <1>1, <1>2

\* Neither resuming, verifying, healing and sealing, nor a kill or tampering,
\* gets the record ahead of the file or a lent unit into the share.
LEMMA FilesFuture ==
  ASSUME TypeOK, TypeOK', PhaseInv, QueueInv, DiskInv, LentInv,
         FetchStep \/ StartFetch \/ Cancel \/ Kill \/ Tamper
  PROVE  DiskInv' /\ LentInv'
<1>. USE DEF TypeOK, DiskInv, LentInv, RecordNeverAhead, LentNeverShared,
     Verified, Intact, Running, Whole
<1>1. CASE Judge
  <2>1. main' = "judged" => done = Units
    <3>. SUFFICES ASSUME main' = "judged" PROVE Units \subseteq done OBVIOUS
    <3>1. NothingLeft(pending, in_flight)
      BY <1>1 DEF Judge
    <3>. QED BY <1>1, <3>1 DEF Judge, NothingLeft, QueueInv, Accounted
  <2>. QED BY <1>1, <2>1 DEF Judge, fileVars
<1>2. ASSUME drop_workers, Running, main' \in {"verifying", "unwinding"},
             main' = "verifying" => main = "judged"
      PROVE  DiskInv' /\ LentInv'
  <2>1. record' \in {record, [done |-> done, borrowed |-> borrowed]}
    BY <1>2 DEF drop_workers, write_record
  <2>2. UNCHANGED <<done, borrowed, disk, tampered, shared>>
    BY <1>2 DEF drop_workers
  <2>3. record'.done \in {record.done, done}
    BY <2>1
  <2>4. DiskInv'
    BY <1>2, <2>2, <2>3
  <2>5. \A x \in record'.done : disk[x] = "lent" => x \in record'.borrowed
    BY <1>2, <2>1
  <2>. QED BY <1>2, <2>2, <2>4, <2>5
<1>3. CASE DropWorkers
  BY <1>2, <1>3 DEF DropWorkers
<1>4. CASE Cancel
  <2>1. CASE main = "fetching"
    BY <1>2, <1>4, <2>1 DEF Cancel
  <2>2. CASE main # "fetching"
    BY <1>4, <2>2 DEF Cancel, workVars, workerVars, fileVars
  <2>. QED BY <2>1, <2>2
<1>5. CASE Unwind
  BY <1>5 DEF Unwind, workVars, workerVars, fileVars
<1>6. CASE VerifyWhole
  BY <1>6 DEF VerifyWhole, workVars, workerVars, NoRecord
<1>7. CASE HealFiles
  BY <1>7 DEF HealFiles, workVars, workerVars, NoRecord, PhaseInv
<1>8. CASE RemoveRecord
  BY <1>8 DEF RemoveRecord, workVars, workerVars, NoRecord
<1>9. CASE SeedWhole
  BY <1>9 DEF SeedWhole, workVars, workerVars, NoRecord, PhaseInv
<1>10. CASE StartFetch
  BY <1>10 DEF StartFetch, ResumedShare, fileVars
<1>11. CASE Kill
  <2>1. UNCHANGED <<record, tampered>> /\ shared' = {} /\ main' = "idle"
    BY <1>11 DEF Kill
  <2>2. \A u \in Units : \/ disk'[u] = disk[u]
                         \/ /\ disk'[u] = "bad" /\ u \notin done /\ Running
    BY <1>11 DEF Kill, Writable, PhaseInv
  <2>. QED BY <2>1, <2>2
<1>12. CASE Tamper
  <2>1. PICK u \in Units : /\ disk' = [disk EXCEPT ![u] = "bad"]
                           /\ tampered' = tampered \cup {u}
    BY <1>12 DEF Tamper
  <2>2. UNCHANGED <<main, record, shared, done, borrowed, complete>> /\ main = "idle"
    BY <1>12 DEF Tamper, workVars
  <2>. QED BY <2>1, <2>2
<1>. QED
  BY <1>1, <1>3, <1>4, <1>5, <1>6, <1>7, <1>8, <1>9, <1>10, <1>11, <1>12
     DEF FetchStep

\* Every step keeps the inductive invariant.
LEMMA IInvStep == TypeOK /\ TypeOK' /\ IInv /\ [Next]_vars => IInv'
<1>. SUFFICES ASSUME TypeOK, TypeOK', IInv, [Next]_vars PROVE IInv' OBVIOUS
<1>. USE DEF IInv
<1>1. CASE UNCHANGED vars
  BY <1>1 DEF vars, workVars, workerVars, fileVars, PhaseInv, QueueInv, AskInv,
     DiskInv, LentInv, Running, Whole, Accounted, Owners, AskedTwice,
     RecordNeverAhead, LentNeverShared, Verified
<1>2. ASSUME NEW w \in Workers, WorkerStep(w) \/ SourceLetGo(w) \/ IdleLimit(w)
      PROVE  IInv'
  <2>1. PhaseInv' /\ main' = main
    BY <1>2, PhaseWorker
  <2>2. QueueInv'
    <3>1. CASE Running
      BY <1>2, <3>1, QueueWorker
    <3>2. CASE ~Running
      BY <2>1, <3>2 DEF QueueInv, Running
    <3>. QED BY <3>1, <3>2
  <2>3. AskInv'
    BY <1>2, AskWorker
  <2>4. DiskInv'
    BY <1>2, <2>2, DiskWorker
  <2>5. LentInv'
    BY <1>2, LentWorker
  <2>. QED BY <2>1, <2>2, <2>3, <2>4, <2>5
<1>3. CASE FetchStep \/ StartFetch \/ Cancel \/ Kill \/ Tamper
  BY <1>3, PhaseFuture, QueueFuture, AskFuture, FilesFuture
<1>. QED BY <1>1, <1>2, <1>3 DEF Next

\* The inductive invariant of the scheduler holds throughout.
THEOREM Inductive == Spec => []IInv
<1>1. Init => IInv
  BY DEF Init, IInv, PhaseInv, QueueInv, AskInv, DiskInv, LentInv, Running,
     Whole, RecordNeverAhead, LentNeverShared, Verified, NoRecord
<1>. QED BY <1>1, IInvStep, TypeCorrect, PTL DEF Spec

\* No unit is lost or queued twice in any fetch, of any file, from any number
\* of sources and lanes.
THEOREM Accounting == Spec => []EveryUnitAccountedFor
<1>1. IInv => EveryUnitAccountedFor
  BY DEF IInv, QueueInv, Running, EveryUnitAccountedFor
<1>. QED BY <1>1, Inductive, PTL

\* A resume never trusts a unit that is not on disk, wherever a kill fell.
THEOREM ResumeIsSafe == Spec => []RecordNeverAhead
<1>1. IInv => RecordNeverAhead
  BY DEF IInv, DiskInv
<1>. QED BY <1>1, Inductive, PTL

\* A fetch is never told it is complete, or judged good, before it is.
THEOREM CompleteIsTrue == Spec => []CompleteMeansAll
<1>1. IInv => CompleteMeansAll
  BY DEF IInv, DiskInv, Running, Whole, CompleteMeansAll
<1>. QED BY <1>1, Inductive, PTL

\* Lent bytes are never offered on, in this fetch or one that resumes it.
THEOREM LentStaysLent == Spec => []LentNeverShared
<1>1. IInv => LentNeverShared
  BY DEF IInv, LentInv
<1>. QED BY <1>1, Inductive, PTL

\* A source is asked twice for one unit only in a fetch that will fail.
THEOREM AskedTwiceIsDoomed == Spec => []AskedTwiceOnlyIfDoomed
<1>1. IInv => AskedTwiceOnlyIfDoomed
  BY DEF IInv, AskInv, AskedTwiceOnlyIfDoomed
<1>. QED BY <1>1, Inductive, PTL

\* No worker step writes anything once the fetch is dropped.
THEOREM DroppedIsQuiet == Spec => StoppedWritesNothing
<1>1. TypeOK /\ [Next]_vars
      => [(\E w \in Workers : WorkerStep(w)) /\ stopped
          => UNCHANGED <<disk, proofs, record, shared>>]_vars
  <2>. SUFFICES ASSUME TypeOK, NEW w \in Workers, WorkerStep(w), stopped
                PROVE  UNCHANGED <<disk, proofs, record, shared>>
    OBVIOUS
  <2>1. ~LandUnit(w)
    BY DEF LandUnit, Writable
  <2>. QED BY <2>1, NotLanding
<1>. QED BY <1>1, TypeCorrect, PTL DEF Spec, StoppedWritesNothing
=============================================================================
