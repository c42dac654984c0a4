------------------------------ MODULE BoardIngest ------------------------------
(***************************************************************************)
(* The message boards of one burrow: posts, and the edits and tombstones   *)
(* ("follow-ups") that act on them, as BoardService stores them and as the *)
(* federation sessions ingest them (apps/server/src/federation.rs,         *)
(* crates/server-core/src/boards.rs, crates/store-server/src/repo4.rs).    *)
(*                                                                         *)
(* Every peer session and every local request is a task.  A task stops at  *)
(* each query of the store, which is where another task runs: one action   *)
(* is the code between two queries, with the query that ends it.  The      *)
(* store's tables survive a restart; the duplicate window does not.        *)
(*                                                                         *)
(* Posts are top-level threads.  A signature that does not verify, and an  *)
(* origin without a pin, never get this far (module FloodFill).            *)
(***************************************************************************)
EXTENDS Integers, FiniteSets, Functions

CONSTANTS
  Tasks,         \* peer sessions and local requests in progress
  Posts,         \* content ids of posts
  Edits,         \* content ids of edits
  Tombstones,    \* content ids of tombstones
  Home,          \* the events this burrow mints itself
  TargetOf,      \* the post a follow-up acts on
  CreatedAt,     \* created_at_unix_ms of every event
  Authorized,    \* follow-ups by the target's author or its home server
  MaxThreads,    \* max_threads of the board, 0 for no cap
  MaxFailures,   \* bound: failing store calls
  MaxForgets,    \* bound: entries the duplicate window forgets between two restarts
  MaxRestarts    \* bound: restarts of the server

Followups == Edits \cup Tombstones
Events == Posts \cup Followups

ASSUME EventsAssumption ==
  /\ {"none", "own", "gone"} \cap Events = {}
  /\ Posts \cap Followups = {}
  /\ Edits \cap Tombstones = {}
  /\ Home \subseteq Events
  /\ TargetOf \in [Followups -> Posts]
  /\ CreatedAt \in [Events -> Nat]
  /\ Authorized \subseteq Followups
ASSUME TasksAssumption == IsFiniteSet(Tasks) /\ {"none", "kept"} \cap Tasks = {}
ASSUME BoundsAssumption ==
  MaxThreads \in Nat /\ MaxFailures \in Nat /\ MaxForgets \in Nat /\ MaxRestarts \in Nat

VARIABLES
  minted,      \* events that exist somewhere: Home's only once made here
  posts,       \* rows of the posts table
  shown,       \* what a row's text is: its own, an edit's, or wiped
  tombstoned,  \* rows with the tombstoned flag
  rows,        \* rows of board_followups: none, pending or applied
  seen,        \* DedupStore: the task that reserved an event, or that it is kept
  task,        \* what each task is doing
  fired,       \* re-fires on the bus of a flooded event, since the start
  forgets,     \* history: how often the window forgot an event, since the start
  lapsed,      \* history: events forgotten while a task was ingesting them
  late,        \* history: follow-ups parked after their target landed
  cut,         \* history: events whose handling was cut short, or went astray
  failures, restarts

vars == <<minted, posts, shown, tombstoned, rows, seen, task, fired, forgets, lapsed,
          late, cut, failures, restarts>>
window == <<forgets, lapsed>>

None == "none"
Kept == "kept"
Own == "own"
Gone == "gone"

Idle == [pc |-> "idle", via |-> None, event |-> None, todo |-> {}, at |-> None]
PostSteps == {"insert", "overflow", "prune", "cascade", "reconcile", "apply", "mark"}
FollowupSteps == {"lookup", "store", "park", "applyNow"}
Steps == PostSteps \cup FollowupSteps \cup {"reserve", "done"}

TaskType ==
  [pc : Steps \cup {"idle"}, via : {"peer", "local", None}, event : Events \cup {None},
   todo : SUBSET Events, at : Events \cup {None}]

TypeOK ==
  /\ minted \subseteq Events
  /\ posts \subseteq Posts
  /\ shown \in [Posts -> {Own, Gone} \cup Edits]
  /\ tombstoned \subseteq Posts
  /\ rows \in [Followups -> {"none", "pending", "applied"}]
  /\ seen \in [Events -> Tasks \cup {None, Kept}]
  /\ task \in [Tasks -> TaskType]
  /\ fired \in [Events -> Nat]
  /\ forgets \in [Events -> Nat]
  /\ lapsed \subseteq Events
  /\ late \subseteq Followups
  /\ cut \subseteq Events
  /\ failures \in 0..MaxFailures
  /\ restarts \in 0..MaxRestarts

Init ==
  /\ minted = Events \ Home
  /\ posts = {}
  /\ shown = [p \in Posts |-> Own]
  /\ tombstoned = {}
  /\ rows = [f \in Followups |-> "none"]
  /\ seen = [e \in Events |-> None]
  /\ task = [t \in Tasks |-> Idle]
  /\ fired = [e \in Events |-> 0]
  /\ forgets = [e \in Events |-> 0]
  /\ lapsed = {}
  /\ late = {}
  /\ cut = {}
  /\ failures = 0
  /\ restarts = 0

-----------------------------------------------------------------------------
(* The store's queries.  Each is one SQL statement.                          *)

Stored(e) == IF e \in Posts THEN e \in posts ELSE rows[e] # "none"

\* INSERT ... ON CONFLICT DO NOTHING: a fresh row shows its own text.
InsertPost(p) ==
  /\ posts' = posts \cup {p}
  /\ shown' = IF p \in posts THEN shown ELSE [shown EXCEPT ![p] = Own]
  /\ tombstoned' = IF p \in posts THEN tombstoned ELSE tombstoned \ {p}

\* INSERT ... ON CONFLICT DO NOTHING.
InsertFollowup(f, state) ==
  rows' = IF rows[f] = "none" THEN [rows EXCEPT ![f] = state] ELSE rows

\* UPDATE ... WHERE event_id: nothing when the post is not there.  An edit
\* leaves the tombstoned flag as it is.
apply_followup(f) ==
  IF TargetOf[f] \notin posts THEN UNCHANGED <<shown, tombstoned>>
  ELSE IF f \in Edits
       THEN shown' = [shown EXCEPT ![TargetOf[f]] = f] /\ UNCHANGED tombstoned
       ELSE shown' = [shown EXCEPT ![TargetOf[f]] = Gone]
            /\ tombstoned' = tombstoned \cup {TargetOf[f]}

\* A follow-up whose post was pruned under it is applied to nothing.
Astray(f) == IF TargetOf[f] \in posts THEN {} ELSE {f}

pending_for(p) == {f \in Followups : rows[f] = "pending" /\ TargetOf[f] = p}

\* The oldest threads beyond the cap; equal times come in any order.
overflow_threads(S) ==
  IF MaxThreads = 0 \/ Cardinality(posts) <= MaxThreads THEN S = {}
  ELSE /\ Cardinality(S) = Cardinality(posts) - MaxThreads
       /\ \A p \in S, q \in posts \ S : CreatedAt[p] <= CreatedAt[q]

-----------------------------------------------------------------------------
(* Starting: a delivery from a peer, a local post, a local edit or delete.   *)

At(t, pc) == task[t].pc = pc
Put(t, pc, todo, at) ==
  task' = [task EXCEPT ![t] = [pc |-> pc, via |-> task[t].via, event |-> task[t].event,
                               todo |-> todo, at |-> at]]
Goto(t, pc) == Put(t, pc, task[t].todo, task[t].at)
Finish(t) == task' = [task EXCEPT ![t] = Idle]
Start(t, pc, via, e) ==
  task' = [task EXCEPT ![t] = [pc |-> pc, via |-> via, event |-> e, todo |-> {}, at |-> None]]

\* A follow-up of a post of ours exists only once the post does.
Deliverable(e) == e \in minted /\ (e \in Followups => TargetOf[e] \in minted)

\* ingest_fed_event up to the query for a stored copy, which ends it when
\* there is one.
Deliver(t, e) ==
  /\ At(t, "idle") /\ Deliverable(e) /\ ~Stored(e)
  /\ Start(t, "reserve", "peer", e)
  /\ UNCHANGED <<minted, posts, shown, tombstoned, rows, seen, fired, late, cut, window, failures, restarts>>

\* Mutant: records the event without looking whether it is there.
ReserveUnchecked(t) ==
  /\ At(t, "reserve")
  /\ seen' = [seen EXCEPT ![task[t].event] = t]
  /\ Goto(t, IF task[t].event \in Posts THEN "insert" ELSE "lookup")
  /\ UNCHANGED <<minted, posts, shown, tombstoned, rows, fired, late, cut, window, failures, restarts>>

\* DedupStore::reserve: one task acts on an event, a second one drops it.
Reserve(t) ==
  /\ At(t, "reserve")
  /\ LET e == task[t].event IN
       IF seen[e] # None
       THEN Finish(t) /\ UNCHANGED seen
       ELSE /\ seen' = [seen EXCEPT ![e] = t]
            /\ Goto(t, IF e \in Posts THEN "insert" ELSE "lookup")
  /\ UNCHANGED <<minted, posts, shown, tombstoned, rows, fired, late, cut, window, failures, restarts>>

\* BoardService::ingest: the insert, for a post from a peer ...
Insert(t) ==
  /\ At(t, "insert")
  /\ InsertPost(task[t].event)
  /\ Goto(t, "overflow")
  /\ UNCHANGED <<minted, rows, seen, fired, late, cut, window, failures, restarts>>

\* ... and for one minted here.
LocalPost(t, p) ==
  /\ At(t, "idle") /\ p \in Home /\ p \notin minted
  /\ minted' = minted \cup {p}
  /\ InsertPost(p)
  /\ Start(t, "overflow", "local", p)
  /\ UNCHANGED <<rows, seen, fired, late, cut, window, failures, restarts>>

\* PostEdit and PostDelete: the target must be there; there is no gate and
\* no reservation.
LocalFollowup(t, f) ==
  /\ At(t, "idle") /\ f \in Home /\ f \notin minted
  /\ TargetOf[f] \in posts
  /\ minted' = minted \cup {f}
  /\ Start(t, "store", "local", f)
  /\ UNCHANGED <<posts, shown, tombstoned, rows, seen, fired, late, cut, window, failures, restarts>>

\* Committed, the entry stays; dropped, it goes, unless the window had
\* forgotten it and it is another task's by now (the generation check).
commit(t) ==
  seen' = IF seen[task[t].event] = t THEN [seen EXCEPT ![task[t].event] = Kept] ELSE seen
drop(t) ==
  seen' = IF seen[task[t].event] = t THEN [seen EXCEPT ![task[t].event] = None] ELSE seen

\* The window forgets an entry when any key of any network is recorded: it is
\* older than 30 days, or a million came after it.  A reservation in use is
\* not spared.  (The oldest go first; the order of entries is left out.)
evict(e) ==
  /\ seen[e] # None
  /\ SumFunction(forgets) < MaxForgets
  /\ seen' = [seen EXCEPT ![e] = None]
  /\ forgets' = [forgets EXCEPT ![e] = @ + 1]
  /\ lapsed' = IF seen[e] \in Tasks THEN lapsed \cup {e} ELSE lapsed
  /\ UNCHANGED <<minted, posts, shown, tombstoned, rows, task, fired, late, cut, failures, restarts>>

-----------------------------------------------------------------------------
(* A post: retention, then the follow-ups that were waiting for it.          *)

ReadOverflow(t) ==
  /\ At(t, "overflow")
  /\ \E S \in SUBSET posts :
       /\ overflow_threads(S)
       /\ Put(t, "prune", S, None)
  /\ UNCHANGED <<minted, posts, shown, tombstoned, rows, seen, fired, late, cut, window, failures, restarts>>

\* delete_thread, then delete_for_root: two statements.
DeleteThread(t) ==
  /\ At(t, "prune")
  /\ \E p \in task[t].todo :
       /\ posts' = posts \ {p}
       /\ Put(t, "cascade", task[t].todo, p)
  /\ UNCHANGED <<minted, shown, tombstoned, rows, seen, fired, late, cut, window, failures, restarts>>

\* Mutant: the thread goes, its follow-ups stay.
DeleteForRootNot(t) ==
  /\ At(t, "cascade")
  /\ Put(t, "prune", task[t].todo \ {task[t].at}, None)
  /\ UNCHANGED <<minted, posts, shown, tombstoned, rows, seen, fired, late, cut, window, failures, restarts>>

DeleteForRoot(t) ==
  /\ At(t, "cascade")
  /\ rows' = [f \in Followups |-> IF TargetOf[f] = task[t].at THEN "none" ELSE rows[f]]
  /\ Put(t, "prune", task[t].todo \ {task[t].at}, None)
  /\ UNCHANGED <<minted, posts, shown, tombstoned, seen, fired, late, cut, window, failures, restarts>>

\* Mutant: a post from a peer is not reconciled either.
RetainedNotReconciled(t) ==
  /\ At(t, "prune") /\ task[t].todo = {}
  /\ IF task[t].via = "peer" THEN Goto(t, "done") ELSE Finish(t)
  /\ UNCHANGED <<minted, posts, shown, tombstoned, rows, seen, fired, late, cut, window, failures, restarts>>

\* ingest_event reconciles; BoardService::post, for a local post, does not.
Retained(t) ==
  /\ At(t, "prune") /\ task[t].todo = {}
  /\ IF task[t].via = "peer" THEN Goto(t, "reconcile") ELSE Finish(t)
  /\ UNCHANGED <<minted, posts, shown, tombstoned, rows, seen, fired, late, cut, window, failures, restarts>>

ReadPending(t) ==
  /\ At(t, "reconcile")
  /\ Put(t, "apply", pending_for(task[t].event), None)
  /\ UNCHANGED <<minted, posts, shown, tombstoned, rows, seen, fired, late, cut, window, failures, restarts>>

Oldest(S, f) == f \in S /\ \A g \in S : CreatedAt[f] <= CreatedAt[g]

\* Mutant: no gate on the out-of-order path.
ApplyPendingUngated(t) ==
  /\ At(t, "apply")
  /\ \E f \in task[t].todo :
       /\ Oldest(task[t].todo, f)
       /\ apply_followup(f)
       /\ cut' = cut \cup Astray(f)
       /\ Put(t, "mark", task[t].todo, f)
  /\ UNCHANGED <<minted, posts, rows, seen, window, fired, late, failures, restarts>>

\* The gate runs again here: an unauthorized follow-up is dropped.
ApplyPending(t) ==
  /\ At(t, "apply")
  /\ \E f \in task[t].todo :
       /\ Oldest(task[t].todo, f)
       /\ IF f \in Authorized
          THEN /\ apply_followup(f)
               /\ cut' = cut \cup Astray(f)
               /\ Put(t, "mark", task[t].todo, f)
               /\ UNCHANGED rows
          ELSE /\ rows' = [rows EXCEPT ![f] = "none"]
               /\ Put(t, "apply", task[t].todo \ {f}, None)
               /\ UNCHANGED <<shown, tombstoned, cut>>
  /\ UNCHANGED <<minted, posts, seen, window, fired, late, failures, restarts>>

MarkApplied(t) ==
  /\ At(t, "mark")
  /\ LET f == task[t].at IN
       /\ rows' = IF rows[f] = "none" THEN rows ELSE [rows EXCEPT ![f] = "applied"]
       /\ Put(t, "apply", task[t].todo \ {f}, None)
       /\ cut' = cut \cup Astray(f)
  /\ UNCHANGED <<minted, posts, shown, tombstoned, seen, window, fired, late, failures, restarts>>

Reconciled(t) ==
  /\ At(t, "apply") /\ task[t].todo = {}
  /\ Goto(t, "done")
  /\ UNCHANGED <<minted, posts, shown, tombstoned, rows, seen, fired, late, cut, window, failures, restarts>>

-----------------------------------------------------------------------------
(* A follow-up: apply it to the post that is there, or park it.              *)

\* Forbidden commits the reservation and stays silent.
Lookup(t) ==
  /\ At(t, "lookup")
  /\ LET f == task[t].event IN
       IF TargetOf[f] \notin posts THEN Goto(t, "park") /\ UNCHANGED seen
       ELSE IF f \in Authorized THEN Goto(t, "store") /\ UNCHANGED seen
       ELSE Finish(t) /\ commit(t)
  /\ UNCHANGED <<minted, posts, shown, tombstoned, rows, fired, late, cut, window, failures, restarts>>

StoreApplied(t) ==
  /\ At(t, "store")
  /\ InsertFollowup(task[t].event, "applied")
  /\ Goto(t, "applyNow")
  /\ UNCHANGED <<minted, posts, shown, tombstoned, seen, fired, late, cut, window, failures, restarts>>

ApplyNow(t) ==
  /\ At(t, "applyNow")
  /\ apply_followup(task[t].event)
  /\ Goto(t, "done")
  /\ cut' = cut \cup Astray(task[t].event)
  /\ UNCHANGED <<minted, posts, rows, seen, window, fired, late, failures, restarts>>

StorePending(t) ==
  /\ At(t, "park")
  /\ LET f == task[t].event IN
       /\ InsertFollowup(f, "pending")
       /\ late' = IF TargetOf[f] \in posts THEN late \cup {f} ELSE late
  /\ Goto(t, "done")
  /\ UNCHANGED <<minted, posts, shown, tombstoned, seen, fired, cut, window, failures, restarts>>

-----------------------------------------------------------------------------
(* The end: the reservation is committed and the event re-fired, or a store  *)
(* call failed and the reservation is dropped, or the server restarts.       *)

Publish(t) ==
  /\ At(t, "done")
  /\ IF task[t].via = "peer"
     THEN commit(t) /\ fired' = [fired EXCEPT ![task[t].event] = @ + 1]
     ELSE UNCHANGED <<seen, fired>>
  /\ Finish(t)
  /\ UNCHANGED <<minted, posts, shown, tombstoned, rows, late, cut, window, failures, restarts>>

\* What a task leaves half done when it stops here.
Torn(t) ==
  CASE task[t].pc \in {"overflow", "prune", "reconcile", "apply", "mark", "applyNow"} -> {task[t].event}
    [] task[t].pc = "cascade" -> {task[t].event, task[t].at}
    [] OTHER -> {}

\* Mutant: a failed ingest stays recorded as seen.
FailKeepsReservation(t) ==
  /\ task[t].pc \in Steps \ {"reserve", "done"}
  /\ failures < MaxFailures
  /\ failures' = failures + 1
  /\ cut' = cut \cup Torn(t)
  /\ Finish(t)
  /\ UNCHANGED <<minted, posts, shown, tombstoned, rows, seen, fired, window, late, restarts>>

\* The reservation is dropped, so that a later delivery tries again.
Fail(t) ==
  /\ task[t].pc \in Steps \ {"reserve", "done"}
  /\ failures < MaxFailures
  /\ failures' = failures + 1
  /\ IF task[t].via = "peer" THEN drop(t) ELSE UNCHANGED seen
  /\ cut' = cut \cup Torn(t)
  /\ Finish(t)
  /\ UNCHANGED <<minted, posts, shown, tombstoned, rows, fired, window, late, restarts>>

Restart ==
  /\ restarts < MaxRestarts
  /\ restarts' = restarts + 1
  /\ seen' = [e \in Events |-> None]
  /\ cut' = cut \cup UNION {Torn(t) : t \in Tasks}
  /\ task' = [t \in Tasks |-> Idle]
  /\ fired' = [e \in Events |-> 0]
  /\ forgets' = [e \in Events |-> 0]
  /\ UNCHANGED <<minted, posts, shown, tombstoned, rows, lapsed, late, failures>>

Step(t) ==
  \/ Reserve(t) \/ Insert(t) \/ ReadOverflow(t) \/ DeleteThread(t) \/ DeleteForRoot(t)
  \/ Retained(t) \/ ReadPending(t) \/ ApplyPending(t) \/ MarkApplied(t) \/ Reconciled(t)
  \/ Lookup(t) \/ StoreApplied(t) \/ ApplyNow(t) \/ StorePending(t) \/ Publish(t)

Next ==
  \/ \E t \in Tasks :
       \/ Step(t) \/ Fail(t)
       \/ \E e \in Events : Deliver(t, e)
       \/ \E p \in Posts : LocalPost(t, p)
       \/ \E f \in Followups : LocalFollowup(t, f)
  \/ \E e \in Events : evict(e)
  \/ Restart

Spec == Init /\ [][Next]_vars

-----------------------------------------------------------------------------
(* Properties.                                                               *)

\* A flooded event is ingested by one task at a time and re-fired once, and
\* once more for each time the duplicate window forgot it since the server
\* started: however many peers deliver it, whatever fails.  This is what
\* keeps a flood from circling; it is not more, since the window forgets.
Ingesting(t, e) ==
  task[t].via = "peer" /\ task[t].event = e /\ task[t].pc \notin {"idle", "reserve"}
Ingesters(e) == {t \in Tasks : Ingesting(t, e)}
FiredOncePerEntry == \A e \in Events : fired[e] + Cardinality(Ingesters(e)) <= 1 + forgets[e]

\* A post never shows what a stranger wrote: its text is its own, wiped, or
\* that of an edit that passed the gate (or was made here), on both the
\* present-now and the out-of-order path.
Permitted(f) == f \in Authorized \cup Home
OnlyAuthorizedShown ==
  \A p \in Posts :
    /\ shown[p] \in Edits => Permitted(shown[p]) /\ TargetOf[shown[p]] = p
    /\ p \in tombstoned => \E f \in Tombstones : Permitted(f) /\ TargetOf[f] = p

\* A follow-up is left waiting beside the post it waits for only if it was
\* parked after the post had landed, or the post's ingest was cut short.
Handling(t, p) == task[t].event = p /\ task[t].pc \in PostSteps \cup {"done"}
PendingOnlyIfRaced ==
  \A f \in Followups :
    rows[f] = "pending" /\ TargetOf[f] \in posts =>
      f \in late \/ TargetOf[f] \in cut \/ \E t \in Tasks : Handling(t, TargetOf[f])

\* A tombstone the table calls applied has wiped its post, unless the task
\* that stored it is about to, its work or its post's was cut short or found
\* the post pruned under it, or the window forgot the post while a task was
\* ingesting it, so that a second one could insert it afresh.
AppliedOrCut ==
  \A f \in Tombstones :
    rows[f] = "applied" /\ TargetOf[f] \in posts =>
      \/ TargetOf[f] \in tombstoned
      \/ {f, TargetOf[f]} \cap cut # {}
      \/ TargetOf[f] \in lapsed
      \/ \E t \in Tasks : task[t].event = f /\ At(t, "applyNow")
      \/ \E t \in Tasks : At(t, "cascade") /\ task[t].at = TargetOf[f]

\* An entry of the duplicate window belongs to a task that is ingesting the
\* event, or the event was re-fired: one that outlived a failure, or was
\* dropped for another task's, would refuse every later copy.  (An
\* unauthorized follow-up is refused, and stays so.)
NothingBlocked ==
  \A e \in Events :
    /\ seen[e] \in Tasks => Ingesting(seen[e], e)
    /\ seen[e] = Kept => fired[e] > 0 \/ e \in Followups \ Authorized

\* What a comment says, and the code does not do.

\* "a tombstone is terminal": a post that was wiped shows no text again.
TombstoneIsTerminal == \A p \in posts \cap tombstoned : shown[p] = Gone

-----------------------------------------------------------------------------
(* The inductive invariant behind the properties.                            *)

\* What a task carries fits the step it is at.
TaskInv ==
  \A t \in Tasks :
    LET k == task[t] IN
    /\ k.pc = "idle" => k = Idle
    /\ k.pc # "idle" => k.event \in Events /\ k.via \in {"peer", "local"}
    /\ k.pc \in PostSteps => k.event \in Posts
    /\ k.pc \in FollowupSteps => k.event \in Followups
    /\ k.pc \in {"reserve", "insert", "lookup", "park", "reconcile", "apply", "mark"} => k.via = "peer"
    /\ k.pc \in {"prune", "cascade"} => k.todo \subseteq Posts
    /\ k.pc = "cascade" => k.at \in Posts
    /\ k.pc \in {"apply", "mark"} => \A f \in k.todo : f \in Followups /\ TargetOf[f] = k.event
    /\ k.pc = "mark" => k.at \in k.todo /\ k.at \in Authorized

\* Whoever ingests an event holds its entry, or the window forgot it; every
\* ingest and every re-fire has had an entry of its own.
Entry(e) == IF seen[e] = None THEN 0 ELSE 1
ReserveInv ==
  /\ \A e \in Events : fired[e] + Cardinality(Ingesters(e)) <= Entry(e) + forgets[e]
  /\ \A e \in Events, t \in Tasks : Ingesting(t, e) => seen[e] = t \/ e \in lapsed

\* Only what passed the gate is on its way to a row's text.
GateInv ==
  /\ OnlyAuthorizedShown
  /\ \A t \in Tasks : task[t].pc \in {"store", "applyNow"} => Permitted(task[t].event)

\* Nothing acts on a post of ours before it was made.
MintInv ==
  /\ posts \subseteq minted
  /\ \A f \in Followups : rows[f] # "none" => TargetOf[f] \in minted
  /\ \A t \in Tasks :
       /\ task[t].pc # "idle" => task[t].event \in minted
       /\ task[t].pc # "idle" /\ task[t].event \in Followups => TargetOf[task[t].event] \in minted

\* A waiting follow-up is still ahead of the task that reconciles its post.
WillReconcile(t, f) ==
  /\ task[t].via = "peer" /\ task[t].event = TargetOf[f]
  /\ \/ task[t].pc \in {"overflow", "prune", "cascade", "reconcile"}
     \/ task[t].pc \in {"apply", "mark"} /\ f \in task[t].todo
WaitInv ==
  \A f \in Followups :
    rows[f] = "pending" /\ TargetOf[f] \in posts =>
      f \in late \/ TargetOf[f] \in cut \/ \E t \in Tasks : WillReconcile(t, f)

\* An applied tombstone whose post is not wiped, or not there, has an excuse;
\* one about to be marked has its effect, or its post is being pruned.
Excused(f) ==
  \/ {f, TargetOf[f]} \cap cut # {}
  \/ TargetOf[f] \in lapsed
  \/ \E t \in Tasks : task[t].event = f /\ At(t, "applyNow")
  \/ \E t \in Tasks : At(t, "cascade") /\ task[t].at = TargetOf[f]
WipeInv ==
  /\ \A f \in Tombstones :
       rows[f] = "applied" => TargetOf[f] \in posts \cap tombstoned \/ Excused(f)
  /\ \A t \in Tasks :
       At(t, "mark") /\ task[t].at \in Tombstones =>
         \/ TargetOf[task[t].at] \in tombstoned \cup lapsed
         \/ task[t].at \in cut

IInv ==
  /\ TypeOK
  /\ TaskInv
  /\ ReserveInv
  /\ NothingBlocked
  /\ GateInv
  /\ MintInv
  /\ WaitInv
  /\ WipeInv
=============================================================================
