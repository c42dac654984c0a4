--------------------------- MODULE SwarmScheduler ---------------------------
(***************************************************************************)
(* The multi-source fetch of the Warren (crates/swarm/src/scheduler.rs):   *)
(* one resumable fetch of one file, drained by one worker per lane of each *)
(* source, over the files it keeps on disk and the seed it shares, through *)
(* kills, cancels and retries, as often as they happen.                    *)
(*                                                                         *)
(* Each action is one critical section of the code: what runs between two  *)
(* awaits, or under one acquisition of the scheduler lock.  The order of   *)
(* the queue is abstracted (pending counts the copies of a unit in it), as *)
(* are bytes, hashes and times: the answers of a source, the failures of   *)
(* the local disk and the passing of IDLE_LIMIT and PERSIST_EVERY are      *)
(* choices.  So is what a source is believed to hold each time a worker    *)
(* asks (availability.rs).                                                 *)
(***************************************************************************)
EXTENDS Naturals, FiniteSets

CONSTANTS
  Units,                \* work units of the file
  Sources,              \* entries of the caller's source list
  Lanes,                \* RangeSource::lanes of each source
  Shareable,            \* sources whose bytes may be passed on
  MAX_MISSES,           \* NOT_HELD answers a lane takes before it lets go
  PERSIST_EVERY_UNITS,  \* units landed before the record must be rewritten
  NoUnit                \* what a worker between two units is fetching

ASSUME UnitsAssumption == IsFiniteSet(Units) /\ Units # {} /\ NoUnit \notin Units
ASSUME LanesAssumption == Lanes \in [Sources -> Nat \ {0}]
ASSUME BoundsAssumption == MAX_MISSES \in Nat /\ PERSIST_EVERY_UNITS \in Nat \ {0}

VARIABLES
  main,         \* where the fetch future stands
  \* WorkState, under the scheduler lock
  pending,      \* copies of each unit in the queue
  in_flight,    \* units taken from the queue and not settled
  working,      \* which source is fetching which unit
  done,         \* units verified and written
  borrowed,     \* units a source lent rather than gave
  unpersisted,  \* units landed since the record was written
  stopped,      \* the fetch was dropped: nothing more is written
  local,        \* a local failure was noted
  complete,     \* the permit of the Notify told when nothing is left
  \* the workers
  pc, unit, endgame, misses, idle,
  \* what outlives the process
  disk,         \* the bytes of each unit in the destination file
  proofs,       \* units whose proof is kept in <dest>.obao
  record,       \* <dest>.rhstate; an absent one lists nothing
  tampered,     \* history: units damaged since the partial was last removed
  \* the seed other peers are served from
  shared        \* units that seed offers

workVars == <<pending, in_flight, working, done, borrowed, unpersisted,
              stopped, local, complete>>
workerVars == <<pc, unit, endgame, misses, idle>>
fileVars == <<disk, proofs, record, tampered>>
vars == <<main, workVars, workerVars, fileVars, shared>>

\* A worker is one lane of one source.
Workers == UNION {{s} \X (1..Lanes[s]) : s \in Sources}
SourceOf(w) == w[1]

NoRecord == [done |-> {}, borrowed |-> {}]
Intact == {"own", "lent"}    \* bytes that prove out: given, or only lent
Verified == {u \in Units : disk[u] \in Intact}
Busy == {"fetching", "lost", "iofail", "failed"}   \* a worker with a unit

TypeOK ==
  /\ main \in {"idle", "fetching", "failing", "judged", "unwinding",
               "verifying", "healing", "checked", "sealing", "failed", "ok"}
  /\ pending \in [Units -> Nat]
  /\ in_flight \subseteq Units
  /\ working \subseteq Units \X Sources
  /\ done \subseteq Units
  /\ borrowed \subseteq Units
  /\ unpersisted \in Nat
  /\ stopped \in BOOLEAN /\ local \in BOOLEAN /\ complete \in BOOLEAN
  /\ pc \in [Workers -> Busy \cup {"loop", "gone"}]
  /\ unit \in [Workers -> Units \cup {NoUnit}]
  /\ \A w \in Workers : pc[w] \in Busy <=> unit[w] # NoUnit
  /\ endgame \in [Workers -> BOOLEAN]
  /\ misses \in [Workers -> Nat]
  /\ idle \in [Workers -> {"no", "since", "expired"}]
  /\ disk \in [Units -> Intact \cup {"empty", "bad"}]
  /\ proofs \subseteq Units
  /\ record \in [done : SUBSET Units, borrowed : SUBSET Units]
  /\ tampered \subseteq Units
  /\ shared \subseteq Units

Init ==
  /\ main = "idle"
  /\ pending = [u \in Units |-> 0]
  /\ in_flight = {} /\ working = {} /\ done = {} /\ borrowed = {}
  /\ unpersisted = 0
  /\ stopped = FALSE /\ local = FALSE /\ complete = FALSE
  /\ pc = [w \in Workers |-> "gone"]
  /\ unit = [w \in Workers |-> NoUnit]
  /\ endgame = [w \in Workers |-> FALSE]
  /\ misses = [w \in Workers |-> 0]
  /\ idle = [w \in Workers |-> "no"]
  /\ disk = [u \in Units |-> "empty"]
  /\ proofs = {} /\ record = NoRecord /\ tampered = {}
  /\ shared = {}

-----------------------------------------------------------------------------
(* WorkState. *)

NothingLeft(pend, flight) == flight = {} /\ \A u \in Units : pend[u] = 0

\* settle: unit u is done, so it leaves both queues whoever held it, which
\* tells the fetch it is complete when nothing is left.
settle_pending_only(u) ==
  /\ in_flight' = in_flight \ {u}
  /\ pending' = [pending EXCEPT ![u] = 0]
  /\ complete' = (complete \/ \A v \in Units : pending'[v] = 0)

settle(u) ==
  /\ in_flight' = in_flight \ {u}
  /\ pending' = [pending EXCEPT ![u] = 0]
  /\ complete' = (complete \/ NothingLeft(pending', in_flight'))

\* give_back: source s no longer fetches u.  A unit another copy landed is
\* settled; an endgame copy leaves it to the worker that took it from the
\* queue; otherwise it goes back into the queue.
give_back_endgame_too(u, s, eg) ==
  /\ working' = working \ {<<u, s>>}
  /\ \/ u \in done /\ settle(u)
     \/ /\ u \notin done
        /\ in_flight' = in_flight \ {u}
        /\ pending' = [pending EXCEPT ![u] = @ + 1]
        /\ UNCHANGED complete

give_back(u, s, eg) ==
  /\ working' = working \ {<<u, s>>}
  /\ \/ u \in done /\ settle(u)
     \/ /\ u \notin done /\ ~eg
        /\ in_flight' = in_flight \ {u}
        /\ pending' = [pending EXCEPT ![u] = @ + 1]
        /\ UNCHANGED complete
     \/ u \notin done /\ eg /\ UNCHANGED <<in_flight, pending, complete>>

\* write_record: tmp and rename, so the old record or the new one is there.
write_record(d, b) == record' \in {record, [done |-> d, borrowed |-> b]}

\* landed: the record is rewritten when it is due, by count or by the clock.
landed(d, b) ==
  \/ /\ unpersisted' = 0
     /\ write_record(d, b)
  \/ /\ unpersisted + 1 < PERSIST_EVERY_UNITS
     /\ unpersisted' = unpersisted + 1
     /\ UNCHANGED record

-----------------------------------------------------------------------------
(* A worker: one lane of one source. *)

\* Worker w is left in state p, between two units.
Between(w, p) ==
  /\ pc' = [pc EXCEPT ![w] = p]
  /\ unit' = [unit EXCEPT ![w] = NoUnit]
  /\ endgame' = [endgame EXCEPT ![w] = FALSE]

\* next_unit, of a source s that holds h, in its order of preference: a
\* queued unit; one in flight elsewhere (endgame); never one this source is
\* fetching already.
Takable(s, h) ==
  {u \in h \ done : pending[u] > 0 /\ <<u, s>> \notin working}
StragglersAnyLane(s, h) == (h \cap in_flight) \ done

Stragglers(s, h) ==
  {u \in (h \cap in_flight) \ done : <<u, s>> \notin working}
Siblings(s, h) ==
  {u \in Units \ done : /\ <<u, s>> \in working
                        /\ pending[u] > 0 \/ u \in h \cap in_flight}

\* The scan of the queue drops the entries already done.
Scanned == [u \in Units |-> IF u \in done THEN 0 ELSE pending[u]]

TakeUnit(w) ==
  LET s == SourceOf(w) IN
  /\ pc[w] = "loop" /\ ~stopped
  /\ \E h \in SUBSET Units : \E u \in Takable(s, h) :
       /\ pending' \in {[q EXCEPT ![u] = @ - 1] : q \in {pending, Scanned}}
       /\ in_flight' = in_flight \cup {u}
       /\ working' = working \cup {<<u, s>>}
       /\ unit' = [unit EXCEPT ![w] = u]
  /\ endgame' = [endgame EXCEPT ![w] = FALSE]
  /\ pc' = [pc EXCEPT ![w] = "fetching"]
  /\ UNCHANGED <<main, done, borrowed, unpersisted, stopped, local, complete,
                 misses, idle, fileVars, shared>>

DuplicateUnit(w) ==
  LET s == SourceOf(w) IN
  /\ pc[w] = "loop" /\ ~stopped
  /\ \E h \in SUBSET Units :
       /\ Takable(s, h) = {}
       /\ \E u \in Stragglers(s, h) :
            /\ working' = working \cup {<<u, s>>}
            /\ unit' = [unit EXCEPT ![w] = u]
  /\ pending' = Scanned
  /\ endgame' = [endgame EXCEPT ![w] = TRUE]
  /\ pc' = [pc EXCEPT ![w] = "fetching"]
  /\ UNCHANGED <<main, in_flight, done, borrowed, unpersisted, stopped, local,
                 complete, misses, idle, fileVars, shared>>

\* Next::Wait: units remain, none this source holds.  A minute of it, or a
\* source that holds all, and the lane ends.  (Next::Sibling only sleeps.)
WaitForMore(w) ==
  LET s == SourceOf(w) IN
  /\ pc[w] = "loop" /\ ~stopped
  /\ ~NothingLeft(Scanned, in_flight)
  /\ \E h \in SUBSET Units : \E whole \in {FALSE, h = Units} :
       /\ Takable(s, h) \cup Stragglers(s, h) \cup Siblings(s, h) = {}
       /\ pc' = [pc EXCEPT ![w] = IF whole \/ idle[w] = "expired"
                                  THEN "gone" ELSE "loop"]
  /\ pending' = Scanned
  /\ idle' = [idle EXCEPT ![w] = IF @ = "no" THEN "since" ELSE @]
  /\ UNCHANGED <<main, in_flight, working, done, borrowed, unpersisted,
                 stopped, local, complete, unit, endgame, misses, fileVars,
                 shared>>

\* Nothing left, or the fetch dropped: the loop ends.
WorkerEnds(w) ==
  /\ pc[w] = "loop"
  /\ \/ stopped /\ UNCHANGED pending
     \/ NothingLeft(Scanned, in_flight) /\ pending' = Scanned
  /\ pc' = [pc EXCEPT ![w] = "gone"]
  /\ UNCHANGED <<main, in_flight, working, done, borrowed, unpersisted,
                 stopped, local, complete, unit, endgame, misses, idle,
                 fileVars, shared>>

\* The tracker let the source go (with_holds gives None, ready says no).
SourceLetGo(w) ==
  /\ pc[w] = "loop"
  /\ pc' = [pc EXCEPT ![w] = "gone"]
  /\ UNCHANGED <<main, workVars, unit, endgame, misses, idle, fileVars,
                 shared>>

\* IDLE_LIMIT passes for a lane idle since some time.
IdleLimit(w) ==
  /\ idle[w] = "since"
  /\ idle' = [idle EXCEPT ![w] = "expired"]
  /\ UNCHANGED <<main, workVars, pc, unit, endgame, misses, fileVars, shared>>

\* A unit may be written: neither dropped nor landed by another copy.
WritableAfterDrop(w) == unit[w] \notin done
Writable(w) == ~stopped /\ unit[w] \notin done

\* A verified unit of the right length, written, proved, counted, recorded
\* and settled under one lock.  Keeping the proof may fail; what a source
\* lent is marked borrowed and never shared.
LandUnit(w) ==
  LET s == SourceOf(w)
      u == unit[w]
  IN
  /\ pc[w] = "fetching" /\ Writable(w)
  /\ working' = working \ {<<u, s>>}
  /\ disk' = [disk EXCEPT ![u] = IF s \in Shareable THEN "own" ELSE "lent"]
  /\ \E kept \in BOOLEAN :
       /\ proofs' = IF kept THEN proofs \cup {u} ELSE proofs
       /\ shared' = IF kept /\ s \in Shareable THEN shared \cup {u} ELSE shared
  /\ borrowed' = IF s \in Shareable THEN borrowed ELSE borrowed \cup {u}
  /\ done' = done \cup {u}
  /\ landed(done', borrowed')
  /\ settle(u)
  /\ idle' = [idle EXCEPT ![w] = "no"]
  /\ Between(w, "loop")
  /\ UNCHANGED <<main, stopped, local, misses, tampered>>

\* The other copy of an endgame unit landed first; settled under a lock of
\* its own.
LoseRace(w) ==
  /\ pc[w] = "fetching" /\ ~stopped /\ unit[w] \in done
  /\ working' = working \ {<<unit[w], SourceOf(w)>>}
  /\ pc' = [pc EXCEPT ![w] = "lost"]
  /\ UNCHANGED <<main, pending, in_flight, done, borrowed, unpersisted,
                 stopped, local, complete, unit, endgame, misses, idle,
                 fileVars, shared>>

SettleLost(w) ==
  /\ pc[w] = "lost"
  /\ settle(unit[w])
  /\ Between(w, "loop")
  /\ UNCHANGED <<main, working, done, borrowed, unpersisted, stopped, local,
                 misses, idle, fileVars, shared>>

\* The unit is not written: the fetch was dropped, or the local disk failed
\* half way through it.
WriteFails(w) ==
  LET u == unit[w] IN
  /\ pc[w] = "fetching"
  /\ working' = working \ {<<u, SourceOf(w)>>}
  /\ \/ stopped /\ UNCHANGED disk
     \/ /\ Writable(w)
        /\ \E bytes \in {disk[u], "bad"} : disk' = [disk EXCEPT ![u] = bytes]
  /\ pc' = [pc EXCEPT ![w] = "iofail"]
  /\ UNCHANGED <<main, pending, in_flight, done, borrowed, unpersisted,
                 stopped, local, complete, unit, endgame, misses, idle,
                 proofs, record, tampered, shared>>

NoteLocal(w) ==
  /\ pc[w] = "iofail"
  /\ local' = (local \/ ~stopped)
  /\ give_back(unit[w], SourceOf(w), endgame[w])
  /\ Between(w, "gone")
  /\ UNCHANGED <<main, done, borrowed, unpersisted, stopped, misses, idle,
                 fileVars, shared>>

\* STATUS_BUSY: not now.  The unit goes to whoever is free.
SourceBusyForever(w) ==
  /\ pc[w] = "fetching"
  /\ give_back(unit[w], SourceOf(w), endgame[w])
  /\ Between(w, "loop")
  /\ UNCHANGED <<main, done, borrowed, unpersisted, stopped, local, misses,
                 idle, fileVars, shared>>

SourceBusy(w) ==
  /\ pc[w] = "fetching"
  /\ give_back(unit[w], SourceOf(w), endgame[w])
  /\ idle' = [idle EXCEPT ![w] = IF @ = "no" THEN "since" ELSE @]
  /\ Between(w, IF idle[w] = "expired" THEN "gone" ELSE "loop")
  /\ UNCHANGED <<main, done, borrowed, unpersisted, stopped, local, misses,
                 fileVars, shared>>

\* STATUS_NOT_HELD: the unit goes to another source; this one stays for the
\* rest, until it has been wrong too often.
SourceLacks(w) ==
  /\ pc[w] = "fetching"
  /\ give_back(unit[w], SourceOf(w), endgame[w])
  /\ misses' = [misses EXCEPT ![w] = @ + 1]
  /\ Between(w, IF misses[w] + 1 > MAX_MISSES THEN "gone" ELSE "loop")
  /\ UNCHANGED <<main, done, borrowed, unpersisted, stopped, local, idle,
                 fileVars, shared>>

\* The local verification task failed: noted, before the unit is handed back.
ProcessingFails(w) ==
  /\ pc[w] = "fetching"
  /\ local' = TRUE
  /\ pc' = [pc EXCEPT ![w] = "failed"]
  /\ UNCHANGED <<main, pending, in_flight, working, done, borrowed,
                 unpersisted, stopped, complete, unit, endgame, misses, idle,
                 fileVars, shared>>

\* The source failed, or sent what does not prove out: this lane ends.
SourceFails(w) ==
  /\ pc[w] \in {"fetching", "failed"}
  /\ give_back(unit[w], SourceOf(w), endgame[w])
  /\ Between(w, "gone")
  /\ UNCHANGED <<main, done, borrowed, unpersisted, stopped, local, misses,
                 idle, fileVars, shared>>

\* An aborted task is dropped where it waits.
AbortTask(w) ==
  /\ stopped /\ pc[w] \in {"loop", "fetching"}
  /\ Between(w, "gone")
  /\ UNCHANGED <<main, workVars, misses, idle, fileVars, shared>>

-----------------------------------------------------------------------------
(* The fetch future: resumable and fetch_swarm_inner. *)

\* The seed offers resumed units whose proof was kept, never what was lent.
ResumedShareLent == record.done \cap proofs
ResumedShare == (record.done \ record.borrowed) \cap proofs

\* Enters the fetch: what the record lists is skipped, the rest is queued,
\* and each source gets its lanes, never more than there are units left.
StartFetch ==
  LET left == Cardinality(Units \ record.done) IN
  /\ main \in {"idle", "failed"}
  /\ \A w \in Workers : pc[w] = "gone"
  /\ main' = "fetching"
  /\ done' = record.done /\ borrowed' = record.borrowed
  /\ pending' = [u \in Units |-> IF u \in record.done THEN 0 ELSE 1]
  /\ in_flight' = {} /\ working' = {}
  /\ unpersisted' = 0
  /\ stopped' = FALSE /\ local' = FALSE /\ complete' = FALSE
  /\ pc' = [w \in Workers |-> IF w[2] <= left THEN "loop" ELSE "gone"]
  /\ unit' = [w \in Workers |-> NoUnit]
  /\ endgame' = [w \in Workers |-> FALSE]
  /\ misses' = [w \in Workers |-> 0]
  /\ idle' = [w \in Workers |-> "no"]
  /\ shared' = ResumedShare
  /\ UNCHANGED fileVars

\* Every worker ended, or the last unit landed: how did it go?  A noted
\* failure is taken out of the state.
Judge ==
  /\ main = "fetching"
  /\ complete \/ \A w \in Workers : pc[w] = "gone"
  /\ main' = IF local \/ ~NothingLeft(pending, in_flight)
             THEN "failing" ELSE "judged"
  /\ local' = FALSE
  /\ UNCHANGED <<pending, in_flight, working, done, borrowed, unpersisted,
                 stopped, complete, workerVars, fileVars, shared>>

\* Workers::drop: the record catches up with what landed, and from here on
\* no worker writes another byte or record.
drop_workers ==
  /\ IF unpersisted > 0
     THEN write_record(done, borrowed) /\ unpersisted' = 0
     ELSE UNCHANGED <<record, unpersisted>>
  /\ stopped' = TRUE
  /\ UNCHANGED <<pending, in_flight, working, done, borrowed, local, complete,
                 workerVars, disk, proofs, tampered, shared>>

DropWorkers ==
  /\ main \in {"failing", "judged"}
  /\ main' = IF main = "judged" THEN "verifying" ELSE "unwinding"
  /\ drop_workers

\* The caller drops the future where it waits.
Cancel ==
  /\ \/ main = "fetching" /\ drop_workers
     \/ main = "verifying" /\ UNCHANGED <<workVars, workerVars, fileVars, shared>>
  /\ main' = "unwinding"

\* PartialGuard::drop: a fetch that ends without the whole file stops
\* sharing its part.
Unwind ==
  /\ main = "unwinding"
  /\ main' = "failed"
  /\ shared' = {}
  /\ UNCHANGED <<workVars, workerVars, fileVars>>

\* The whole file is hashed.  If it is not the root's, the record goes
\* first, then the proofs and the file: the next fetch starts clean.
VerifyWholeKeepsRecord ==
  /\ main = "verifying"
  /\ main' = IF Verified = Units THEN "checked" ELSE "healing"
  /\ UNCHANGED <<workVars, workerVars, fileVars, shared>>

VerifyWhole ==
  /\ main = "verifying"
  /\ \/ Verified = Units /\ main' = "checked" /\ UNCHANGED record
     \/ Verified # Units /\ main' = "healing" /\ record' = NoRecord
  /\ UNCHANGED <<workVars, workerVars, disk, proofs, tampered, shared>>

HealFiles ==
  /\ main = "healing"
  /\ main' = "unwinding"
  /\ proofs' = {}
  /\ disk' = [u \in Units |-> "empty"]
  /\ tampered' = {}
  /\ UNCHANGED <<workVars, workerVars, record, shared>>

RemoveRecord ==
  /\ main = "checked"
  /\ main' = "sealing"
  /\ record' = NoRecord
  /\ UNCHANGED <<workVars, workerVars, disk, proofs, tampered, shared>>

\* add_proved: seeded whole from the proofs kept, if there is one for every
\* unit and nothing in the file was lent; else the part is no longer shared.
SeedWhole ==
  /\ main = "sealing"
  /\ main' = "ok"
  /\ shared' = IF borrowed = {} /\ proofs = Units THEN Units ELSE {}
  /\ proofs' = {}
  /\ UNCHANGED <<workVars, workerVars, disk, record, tampered>>

\* The process is killed: its memory goes, and at most the one unit being
\* written under the lock is left half written.
Kill ==
  /\ main # "idle"
  /\ main' = "idle"
  /\ pending' = [u \in Units |-> 0]
  /\ in_flight' = {} /\ working' = {} /\ done' = {} /\ borrowed' = {}
  /\ unpersisted' = 0
  /\ stopped' = FALSE /\ local' = FALSE /\ complete' = FALSE
  /\ pc' = [w \in Workers |-> "gone"]
  /\ unit' = [w \in Workers |-> NoUnit]
  /\ endgame' = [w \in Workers |-> FALSE]
  /\ misses' = [w \in Workers |-> 0]
  /\ idle' = [w \in Workers |-> "no"]
  /\ shared' = {}
  /\ \/ UNCHANGED disk
     \/ \E w \in Workers :
          /\ pc[w] = "fetching" /\ Writable(w)
          /\ disk' = [disk EXCEPT ![unit[w]] = "bad"]
  /\ UNCHANGED <<proofs, record, tampered>>

\* Outside any fetch, a unit of the partial is damaged on disk.
Tamper ==
  /\ main = "idle"
  /\ \E u \in Units :
       /\ disk[u] \in Intact
       /\ disk' = [disk EXCEPT ![u] = "bad"]
       /\ tampered' = tampered \cup {u}
  /\ UNCHANGED <<main, workVars, workerVars, proofs, record, shared>>

-----------------------------------------------------------------------------
WorkerStep(w) ==
  \/ TakeUnit(w) \/ DuplicateUnit(w) \/ WaitForMore(w) \/ WorkerEnds(w)
  \/ LandUnit(w) \/ LoseRace(w) \/ SettleLost(w)
  \/ WriteFails(w) \/ NoteLocal(w) \/ SourceBusy(w)
  \/ SourceLacks(w) \/ ProcessingFails(w) \/ SourceFails(w) \/ AbortTask(w)

FetchStep ==
  \/ Judge \/ DropWorkers \/ Unwind
  \/ VerifyWhole \/ HealFiles \/ RemoveRecord \/ SeedWhole

Next ==
  \/ \E w \in Workers : WorkerStep(w) \/ SourceLetGo(w) \/ IdleLimit(w)
  \/ FetchStep
  \/ StartFetch \/ Cancel \/ Kill \/ Tamper

Spec == Init /\ [][Next]_vars

\* Tasks that can run do run, transports answer or time out, and time
\* passes.  Nothing is assumed of the caller, who may never start or cancel.
Fairness ==
  /\ \A w \in Workers : WF_vars(WorkerStep(w)) /\ WF_vars(IdleLimit(w))
  /\ WF_vars(FetchStep)

-----------------------------------------------------------------------------
(* What the fetch promises. *)

\* The worker that took u from the queue and has not handed it on.
Owners(u) ==
  {w \in Workers : unit[w] = u /\ ~endgame[w] /\ pc[w] \in Busy}

\* u is done, queued once, or in flight with one worker answerable for it.
Accounted(u) ==
  \/ u \in done /\ u \notin in_flight /\ pending[u] = 0
  \/ u \notin done \cup in_flight /\ pending[u] = 1 /\ Owners(u) = {}
  \/ /\ u \in in_flight \ done /\ pending[u] = 0
     /\ \E w \in Workers : Owners(u) = {w}

\* No unit is lost or queued twice while a fetch runs, through endgame
\* copies, refusals and failures in any order (next_unit, give_back, settle).
EveryUnitAccountedFor == main = "fetching" => \A u \in Units : Accounted(u)

\* Two lanes of one source are fetching one unit.
AskedTwice ==
  \E v, w \in Workers :
    /\ SourceOf(v) = SourceOf(w) /\ v # w
    /\ pc[v] = "fetching" /\ pc[w] = "fetching"
    /\ unit[v] = unit[w]

\* A source with several lanes is never asked for one unit twice at once (the
\* comment on WorkState::working) but in a fetch that has already noted a local
\* failure, and so ends with it.
AskedTwiceOnlyIfDoomed == main = "fetching" /\ AskedTwice => local

\* The resume record lists only units whose bytes are on disk, whenever the
\* process is killed and however often it resumes; only a unit damaged from
\* outside may be listed wrongly, and only until the partial is removed.
RecordNeverAhead == record.done \subseteq Verified \cup tampered

\* A fetch told it is complete has every unit, and one judged good too.
CompleteMeansAll ==
  (main = "fetching" /\ complete) \/ main = "judged" => done = Units

\* What a source lent is never offered on: not while fetching, not after a
\* resume, not as part of a whole seed (RangeSource::shareable).
LentNeverShared == \A u \in shared : disk[u] # "lent"

\* Once the fetch is dropped, no worker writes another byte, proof, record
\* or mark; only the future itself touches the files (Workers::drop).
StoppedWritesNothing ==
  [][(\E w \in Workers : WorkerStep(w)) /\ stopped
     => UNCHANGED <<disk, proofs, record, shared>>]_vars

\* Every fetch comes to an end, whatever its sources answer: a stalled,
\* busy or empty-handed source cannot hold it forever.
FetchEnds == main = "fetching" ~> main \in {"idle", "failed", "ok"}

-----------------------------------------------------------------------------
(* The inductive invariant that carries the safety properties. *)

Running == main \in {"fetching", "failing", "judged"}
Whole == main \in {"judged", "verifying", "checked", "sealing"}

\* A fetch that runs is not stopped; in any other state no worker can write.
PhaseInv ==
  /\ Running => ~stopped
  /\ ~Running => stopped \/ \A w \in Workers : pc[w] = "gone"
  /\ main = "idle" => shared = {}
  /\ main \in {"healing", "sealing"} => record = NoRecord

\* EveryUnitAccountedFor up to the drop of the workers, and why a copy that
\* lost the race may settle its unit.
QueueInv ==
  Running =>
    /\ \A u \in Units : Accounted(u)
    /\ \A w \in Workers : pc[w] = "lost" => unit[w] \in done

\* Until something fails locally, `working` knows every fetch under way.
AskInv ==
  main = "fetching" /\ ~local =>
    /\ ~AskedTwice
    /\ \A w \in Workers :
         /\ pc[w] # "failed"
         /\ pc[w] = "fetching" => <<unit[w], SourceOf(w)>> \in working

\* The record is behind what is done, which is behind the disk.
DiskInv ==
  /\ RecordNeverAhead
  /\ Running => record.done \subseteq done /\ done \subseteq Verified \cup tampered
  /\ Running /\ complete => done = Units
  /\ Whole => done = Units

\* Lent bytes are marked in the record, in memory, and never shared.
LentInv ==
  /\ \A u \in record.done : disk[u] = "lent" => u \in record.borrowed
  /\ Running \/ Whole => \A u \in done : disk[u] = "lent" => u \in borrowed
  /\ Running => shared \subseteq done
  /\ LentNeverShared

IInv == PhaseInv /\ QueueInv /\ AskInv /\ DiskInv /\ LentInv
=============================================================================
