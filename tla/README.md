# Rabbithole in TLA+

TLA+ specifications, TLC instances and TLAPS proofs kept beside the Rabbithole
source. Rabbithole is a community server (a "burrow") with clients, federation
between burrows, a peer-to-peer file layer ("the Warren") and gateways to old
networks. The specifications model the parts whose correctness depends on the
order in which things happen: what several tasks do to shared state between two
locks, what is on disk when a process is killed, what two machines believe of
each other. Every definition is translated from the Rust source that
`PROJECT.json` ("map") names for it.

Contents: 1 inventory, 2 plan, 3 the modules, 4 runs and bounds, 5 fairness,
6 proofs, 7 where code and documentation disagree, 8 what is only
model-checked and what is not modelled.

## 1. Inventory

### 1.1 Components with an order of steps to get right

| Component (source) | State it keeps | Operations that change it | Interacts with | What is hard | What makes it correct |
| --- | --- | --- | --- | --- | --- |
| Swarm scheduler (`crates/swarm/src/scheduler.rs`) | queue, in-flight set, (unit, source) marks, done set; on disk the file, its proofs and the resume record; the partial seed | take, endgame copy, land, refuse, fail, hand back, let a source go, cancel, whole-file check, heal, resume | sources over the peer wire, the seed other peers read | several lanes under one lock; kills between two writes; a cancel while a thread writes | no unit lost or queued twice; the record never ahead of the disk; lent bytes never shared; a fetch ends |
| Availability tracker (`scheduler/availability.rs`) | per source: believed units, lanes, generation, retirement | map answer, NOT_HELD, lane end | scheduler | answers that arrive after they were contradicted | a late answer never overrules a newer one; a source is retired once |
| Session push and replay (`apps/server/src/session.rs`, `server-core/src/pushlog.rs`, `replay_recorder` in `apps/server/src/lib.rs`, `core/src/client.rs`) | per account: numbered log and ring; per session: receiver, replay range, mail; per client: cursor | join, subscribe, replay, welcome, mail, push, end; record while away; read, drop, resume | event bus, presence, DM store | sessions that linger beside their successor; a recorder that reads presence and stamps later; bounded ring and bus | numbers read in order; a resume passes over nothing it owes; mail reaches the session |
| Event bus and presence (`server-core/src/bus.rs`, `presence.rs`) | receivers and their queues; who is online | publish, lag, join, leave | every session | lag is silent | used by the above |
| Boards (`server-core/src/boards.rs`, `store-server/src/repo4.rs`, `handlers6.rs`) | posts, board_followups, retention cap | post, edit, tombstone, ingest, reconcile, prune | federation sessions, bus | a store call between a check and its use; a stop between two statements; out-of-order follow-ups | one re-fire; gate on both paths; no stranded follow-up; no id locked out |
| Flood-fill (`apps/server/src/federation.rs`, `federation/history.rs`, `server-core/src/dedup.rs`) | per link: interest, Bloom filter of seen ids, cursor; per burrow: duplicate window | subscribe, offer, pull, deliver, history pass, link lost, restart | boards, bus | floods in cycles, missed offers, limits that cut a page | events spread only by trust; stored by one session; everyone gets them; the flood ends |
| Turns of history exchange (`federation/history.rs`) | per peer: links, whose turn, cadence | register, begin, finish | flood-fill | the link whose turn it is goes away | every link gets its turn; one pass at a time |
| Peering (`apps/server/src/federation.rs`, `server-core/src/federation.rs`) | registry of peers, approval file, connections | handshake, approve, revoke, dial, session start and end, restart | operator console, flood-fill, catalogs | an approval read before an await and used after it; a save that fails; two links to one peer | registry coherent; revoked stays revoked; approved survives; redial |
| Peer catalogs (`fed_catalog.rs`, `fed_catalog/cache.rs`, `federation/catalog_sync.rs`) | cached catalogs, revisions, generations, files | fetch, store, evict, save | peering | a fetch that began before a revocation | nothing asked for before a revocation is shown after it; memory and file agree; no generation is forgotten |
| Pulls between burrows (`s2s.rs`, `federation/src/pull.rs`) | spent grants, places, links, cancel flags, staging files; at the source pull sessions | accept, reserve, dial, spend, fetch an item from seeders or the source, file, cancel, release, sweep | peering, file library, swarm | a grant presented twice; a slow dial; places leaked by an early end; stops in mid-file | started once; a refusal costs nothing; places conserved; a stop is honoured; every pull ends |
| File transfers (`handlers9.rs`, `upload_gate.rs`, `blobs`) | tickets, staging files, bulk streams, commit lock, blobs, library rows | open, put a chunk, stream, finish, abort, end of a session, file from any surface | file library, moderation, every surface | check and filing on several surfaces; writers beside a finish | quota held; no stage without an owner; a blob has its hash; a denial is honoured |
| Checkpoints of legacy uploads (`legacy_staging.rs`, `zmodem.rs`, `hotline.rs`) | index of records, claims; `.part` and `.meta` files | claim, bind, append, discard, expire, open | ZMODEM and Hotline surfaces | power loss between two writes; a caller dropped while its job waits; a failing disk | what was acknowledged survives; one writer; the caller holds what is recorded; a claim can be filled |
| Client transfer queue (`core/src/queue.rs`, `store-client/src/transfers.rs`) | items and their states on disk | enqueue, next, pause, resume, finish, requeue | client library | a stop while an item is active; two drains | no item lost, none run twice |
| Tracker (`apps/tracker`) | registry, digests, health | announce, gossip, expire | burrows, other trackers | anti-entropy with rotating digests | trackers converge |

### 1.2 Components with little order of their own

Chat rooms (one lock for all of it), direct messages beyond their delivery,
accounts and identity, permissions and classes (pure rules), rate limits (token
buckets over time), moderation, persona, directory and wishing well, admin and
configuration handlers, startup and statistics, backup, radio, door games, the
gateways (telnet, finger, ZMODEM, Hotline, NNTP, FidoNet and binkp, QWK,
syndication and Icecast), end-to-end encryption (no server path uses it yet),
protocol messages and transports, Reticulum (no burrow starts it yet), port
mapping, text art, the client library's requests, and the web, desktop,
terminal and command-line clients. `PROJECT.json` ("components") lists each one
with its sources and the reason it is not modelled. The gateways translate old
protocols into calls of the same services; what they change is changed there.

### 1.3 How the modelled parts meet

A burrow's sessions, whether of a user or of a peer, are tasks of one
multi-threaded runtime. They share the event bus: whatever stores something
(a post, an ingested event, a DM) publishes it, each user session turns it into
a numbered push (PushReplay), each peer session into an offer to its peer
(FloodFill). A peer session exists because PeerSessions let it; what it
delivers is stored step by step as BoardIngest says, and FloodFill takes the
whole of that as one step with the two outcomes it has. SwarmScheduler runs in
a client or a burrow that fetches a file, beside all this.

Files come in by five surfaces (tickets, inline bytes, ZMODEM, Hotline, pulls
from another burrow), and all end in the filing of Uploads. A ZMODEM or Hotline
upload is kept on the way by LegacyStaging; a pull is driven by RemotePulls,
over a federation session of PeerSessions or a connection of its own, with the
swarm leg of SwarmScheduler. The operator who revokes a peer in PeerSessions
also withdraws its catalog in PeerCatalogs. These seams are choices in each
module: a step that the neighbour decides may have any outcome the neighbour's
module allows.

`PROJECT.json` ("hazards") lists what in this code a test would hardly reach,
each at its line, with the properties that watch it.

## 2. Plan

Order: first what loses or leaks data if its steps are reordered.

| Step | Module | State |
| --- | --- | --- |
| 1 | `SwarmScheduler`, proofs | done |
| 2 | `PushReplay`, proofs | done |
| 3 | `BoardIngest`, proofs | done |
| 4 | `FloodFill` over the abstract `Replication`, proofs | done |
| 5 | `PeerSessions`, proofs | done |
| 6 | `LegacyStaging`: checkpoints through kills, power loss and failing disks, proofs | done |
| 7 | `Uploads`: tickets, staging, quota under the commit lock on every surface | done |
| 8 | `PeerCatalogs`: revision marker, generation watermark, failing saves, revocation during a fetch | done |
| 9 | `RemotePulls`: grants spent once, places, links, pull sessions, stops | done |
| 10 | proofs for 7 to 9, see section 6 | done |
| 11 | `SwarmAvailability`: generations against late map answers (`availability.rs:398`), retirement; the choice SwarmScheduler leaves open made precise | later |
| 12 | `HistoryTurns`: register, begin, finish, LINK_LIMIT, busy, cadence | later |
| 13 | `TransferQueue`: item states through stops, two drains, pauses. `requeue_active` has no caller outside its tests, although `transfers.rs:191` and `docs/protocol/file.md:208` say what is left active is queued again at startup | later |
| 14 | `TrackerGossip`; permissions and rate limits as operators against a reference definition | later |

Abstract specifications: `Replication` is there. Worth stating next: a numbered
log read by cursors that PushReplay implements when the ring loses nothing, and
a registry with atomic approve and revoke that PeerSessions implements.

Theorems: every safety property a passing run checks is proved. Worth adding are
those of the abstract specifications above, once they are stated: that PushReplay
and PeerSessions implement them, the way FloodFill implements `Replication`.
Liveness stays with TLC.

## 3. The modules

Every component has a module (`X`), its instances for TLC (`MCX`, `MCX_*.cfg`)
and its proofs (`XProofs`; those of BoardIngest and PeerSessions are in one module,
`FederationProofs`, which is why the specification of PeerSessions has names of its
own: `PeersInit`, `PeersNext`, `PeersSpec` and so on). An action is what runs between two awaits, or under
one acquisition of a lock, with every state change in it. Definitions whose
comment starts with "Mutant" are variants that a plausible slip in the code
would give; they are not part of any specification, and exist to show that the
properties notice them. Variables marked "history" record what happened and
influence nothing.

### SwarmScheduler

One resumable fetch of one file, for any units, sources and lanes. `pending`,
`in_flight`, `working`, `done`, `borrowed`, `unpersisted`, `stopped`, `local`
are `WorkState`; `pc`, `unit`, `endgame`, `misses`, `idle` are the locals of
`worker`; `disk`, `proofs`, `record` are `<dest>`, `<dest>.obao` and
`<dest>.rhstate`; `shared` is the partial seed; `main` is where the fetch
future stands. Worker actions: take from the queue or copy a straggler
(`next_unit`), land, lose the race, refuse (NOT_HELD, busy, no range), fail on
the wire or locally, hand back (`give_back`), let the source go, idle limit.
Fetch actions: start and resume, judge the outcome, drop the workers, verify
the whole, heal, seal. Outside: cancel, kill, damage to the file.

Abstracted: bytes and hashes (a unit on disk is absent, damaged, own or lent),
the order of the queue, times, what a source is believed to hold.

- `EveryUnitAccountedFor`: a unit is done, queued once, or in flight with one
  worker answerable for it.
- `RecordNeverAhead`: what the resume record lists is on disk and proves out.
- `CompleteMeansAll`: told complete, or judged good, only with every unit.
- `LentNeverShared`: what a source only lent is never offered on.
- `StoppedWritesNothing`: once a fetch is dropped no worker writes.
- `AskedTwiceOnlyIfDoomed`: a source is asked twice at once for a unit only
  in a fetch that has failed locally.
- `FetchEnds`: every fetch ends.

### PushReplay

One account, its sessions and clients. `log` is every push ever stamped, the
ring its tail (`PushLog`); `rx`, `from`, `upto`, `mail` are the locals of a
session between subscribe and the event loop; `wire` is what was sent and not
read; `cursor` the client's highest number; `recq` and `look` the recorder.
Actions follow `run_session`: join, subscribe, snapshot for the replay, send one
replayed push, welcome, read the mail, push it, take an event and push it, lag,
end; the recorder's look at presence and its later stamp are two actions.

- `InOrder`: a client reads strictly increasing numbers above its cursor.
- `PassedOverOnlyIfRaced`: the cursor never passes over a push its client has not
  seen, unless the ring lost it, the client's own session has the same event from
  the bus or the mail, or it was published while the client was away and stamped
  only after the snapshot of its replay. The last is a loss, and section 7 says how
  it comes about; what is stamped in time, or by another session for an event this
  one was told of, is told apart by `heard` and `TooLate`.
- `MailReaches`: stored mail reaches a live session that neither lagged nor
  capped its mail.
- `CastsReach`: a broadcast published once a session has subscribed is pushed on
  it or waits in its queue, whatever comes first, unless the session lagged.

### BoardIngest

The store of one burrow and the tasks that use it. `posts`, `shown`,
`tombstoned` are the posts table, `rows` is board_followups, `seen` the
duplicate window, `task` the program counter and locals of each task. There is
one action for each store call of `ingest_fed_event`, `ingest`, `ingest_event`,
`reconcile_followups`, `post`, `edit` and `tombstone`, a failure at any of them,
and a restart. An entry of the window is a task's until it is committed or
dropped (only if it is still that task's: the generation check), and `evict`
forgets any entry, by age or capacity, one that is in use too.

- `FiredOncePerEntry`: between restarts the ingests and re-fires of an event are
  at most one more than the times the window forgot it. A post that was pruned is
  not in the table any more, so the window alone stands between it and another
  round of the flood, and the window forgets.
- `NothingBlocked`: an entry belongs to a task that is ingesting the event, or
  the event was re-fired; one that outlived a failure, or that was dropped for
  another task's, would refuse every later copy.
- `OnlyAuthorizedShown`: no post shows what did not pass the gate.
- `PendingOnlyIfRaced`: a follow-up is stranded beside its post only if it was
  parked after the post landed, or the post's ingest was cut short.
- `AppliedOrCut`: a tombstone called applied has wiped its post, unless the
  work was cut short or found the post pruned under it, or the window forgot the
  post while it was being ingested, so that it was inserted a second time.
- `TombstoneIsTerminal`: the claim of a comment; violated.

### FloodFill and Replication

Any network of burrows and links. A side is one end of a link: `up`,
`interest`, `sent`, `seen`, `bus`, `cursor`, `batch` (the delivery in hand),
`work` are the locals of `run_peer_session` and its `FloodEdge`; `chan` the frames
in flight; `dedup` the burrow's window. A frame carries a set of ids, as many as
the offer, the pull or the reply in the code has. Actions: author, connect, lose
a link, restart; hear SUBSCRIBE, IHAVE, PULL, EVENTS; a reply that is larger than
a frame may be (`SizeOf`, `MaxFrame`), which ends the session; the events of a
delivery, taken one by one; an ingest that succeeds or fails; a live offer or one
missed (lag, Bloom false positive); a history pass with its page, offer limit and
cursor. One board; trust is the pin map.

- `OnlyCopies`: FloodFill implements `Replication`, in which an event is
  authored at its origin and then only copied along links, from a holder to a
  burrow that trusts the origin. The mapping is `holds <- stored`.
- `OneStorer`: whoever stores an event holds its reservation, alone.
- `NoEcho`: a live offer never goes back to the peer that delivered the event.
- `Converges`: what a burrow holds reaches each neighbour that wants it and
  trusts its origin (hop by hop, the network), unless its replies are too large
  for a frame again and again.
- `Quiet`: in the end nothing is pulled but what the puller will not keep, with
  the same exception. An
  event of an untrusted origin is pulled again on every round of history, since
  only the delivered frame tells whose it is.

### PeerSessions

One burrow's registry and everything that touches it. `state` and `approved`
are the `PeerRecord`s, `disk` is `approved_peers.json`, `conn` the stage of each
connection (inbound: proving, declined, welcoming; dialled: dialing, syncing;
then entering and live), `change` the operator's change between memory and
save. `OriginOf` gives the origin a key is bound to; `load_approved` ignores the
whole of a file with one origin under two keys, or with more than `MaxApproved`
(`Unloadable`). Peers in `Silent` may keep a connection open and say nothing.

- `RegistryCoherent`: connected or disconnected exactly when approved.
- `ConnectedUnlessLost`: connected only with a connection, unless a welcome
  could not be sent.
- `RevokedStays`: a peer the operator was told is revoked stays so, in memory, on
  disk and through restarts.
- `ApprovedUnlessIgnored`: one he was told is approved stays so, unless boot
  ignored the file and he has not decided on the peer since.
- `RevokedEnds`: a revoked peer's session ends.
- `RedialedUnlessHeld`: a listed peer that answers is connected again and
  again, unless a welcome was lost, or a silent peer holds the dialer for ever.

### LegacyStaging

The staging directory of `legacy_staging.rs` and the callers of its leases.
`meta` and `part` are what the `.meta` and `.part` files hold now, `metaKept`
and `partKept` what a loss of power may leave of each: a write adds what it
wrote, a sync of the file or of the directory rules the older contents out.
`records`, `claimed` and `failed` are the `Index`; `lock` is what the holder of
its mutex is doing; `claim` is each caller with the job it awaits. An operation
under the lock is one step for each write or sync it does: claim (`expire`,
admit, load or reset), append (write, sync, record, directory), bind, discard,
open after a stop (read again, keep or drop each record, sweep). `Fail` is a
failing disk at any step (`latch_error`), `Kill` and `PowerLoss` a stop at any
step, `Damage` somebody else's change to the bytes, `Age` the time to live.

- `LeasesSound`: the type invariant with `OneWriter` (no two leases of one
  destination, also when the caller is gone and its job has yet to run) and
  `CallerAgrees` (what a caller holds, and will file, is what is recorded).
- `AckedSurvives`: what a sender was told is kept survives every stop.
- `ReservationHonoured`: admitted claims together fit the burrow's limit.

### Uploads

`tickets`, `nextId` and `commit` are the `TransferRegistry`; `work` is where each
session's request stands, a step between two awaits; `path` and `content` are
the staging files, with an inode of their own so that a stream can go on writing
what was renamed or removed; `blobs`, `nodes` and `denied` are the store, the
library and the deny list. Actions: open (gate, create, insert), chunk, bulk
stream, finish, the other four surfaces with a whole file, the check under the
commit lock, hash, store, Hotline's second look, the row, every refusal and
failure, abort, the end of a session, delete, deny, the sweep of the blob cache
(`evict_unreferenced_over`), restart.

- `LimitsHeld`: `QuotaHeld` (no account keeps more than its quota, whatever
  races) and `CapPassedOnlyByRacing` (tickets and opens under way stay below the
  cap plus the sessions of the account: it is passed only by opens that overlap).
- `StagesSound`: the type invariant with `StageOwned` (a staging file belongs to
  a ticket or to a request under way, unless an earlier life of the burrow left
  it).
- `BlobIntact`: what is listed is stored, unless the cache has a cap and its sweep
  removed the blob; and what is stored under a hash has it, unless somebody was
  still writing when the upload was finished.
- `DenialHonoured`: a denied file is listed only if it was denied after its
  upload took the lock, or came by ZMODEM.

### PeerCatalogs

`origin` and `approved` are the registry, `saved` its file, `peers` and `file`
the cache in memory and on disk, `mutation` and `change` who holds the two locks
between a save and what follows it. `link` is this end of each link with the
fetch it waits for, `toThem` and `toUs` the frames, `local` and `localSaved` the
generations of the peer. Actions: approve and revoke with every save and its
failure, renaming, the dialer's pull, announcements, requests, late and failed
answers, store in two steps (file, memory), timeouts, lost links, restarts of
either side. A payload carries, as history, the epoch in which it was asked for.

- `RevokedNeverReturns`: a search never shows what was asked for before a
  revocation the operator was told of, or before a new approval.
- `CacheSound`: the type invariant with `CacheIsSaved` (memory and file agree,
  but for a withdrawal on its way) and `FileReads` (what is written is within the
  limits the reader insists on).
- `WatermarkStays`: the newest accepted generation is never forgotten.

### RemotePulls

One source and one destination. `job` is a request and the pull it becomes,
with the time it read before its first await; `pulls`, `cancelled`, `links` are
`S2sState`; `spent` the table of spent grants; `staging` the files of items;
`session` the pull sessions at the source (`Shut` when the destination has hung
up and the source has not noticed). Actions: accept, refuse, reserve, dial one
address after another, the source's open, purge and spend (two statements),
next item, seeders and their renewals, back to the source, served, missing,
filed, end, cancel, and around them the clock, switches at both ends, lost
files, links, sessions lost, a restart with its sweep.

- `GrantCountsOnce`: `PulledOnce` (a grant that stands has started at most one
  pull) and `SpentByAPull` (a refusal leaves the grant good).
- `NothingLeaks`: the type invariant with `PlacesHeld` (places taken are those of
  requests under way, within limits), `StagingOwned` (what is staged is what a
  pull is working on now) and `SessionHeld` (a pull session at the source is a
  pull's, or about to go).
- `StopHonoured`: after a stop at most the file in hand is filed.
- `NearerItsEnd`: every step of a job lowers a rank, so that retries are bounded.
  That each wait ends, by a timeout or an answer, is not in the formula: a source
  that serves for ever within its timeouts is not what it is about.

## 4. Runs and bounds

| Run | Instance | What happens in it | States, time |
| --- | --- | --- | --- |
| `swarm_crash` | 2 units, 2 sources of 1 lane, one lends; `PERSIST_EVERY_UNITS` 2; no bound on kills, cancels and resumes | endgame copies by the second source, records written and not written, mixed own and lent bytes | 2.1 M, 190 s |
| `swarm_lanes` | 2 units, 1 source of 2 lanes, `MAX_MISSES` 1, one fetch | two lanes of one source, all refusals and retries; liveness | 160 k, 20 s |
| `push_resume` | 1 client, 2 sessions, 1 broadcast, 1 DM, ring 1, bus 1, 2 connects | a dead session beside a live one, ring overflow, lag, drop in mid-replay, a recorder that stamps late | 3.6 M, 60 s |
| `boards_ingest` | 2 tasks, 2 posts (one local), 1 edit by a stranger, 1 local tombstone, cap of 1 thread, 1 failure, 1 forgotten entry, 1 restart | every order of post, edit, tombstone, prune, failure, eviction from the window and restart | 6.0 M, 115 s |
| `boards_terminal` | 2 tasks, 1 post, 1 edit, 1 tombstone | expected violation | - |
| `flood_ring` | ring of 3 and a fourth burrow behind it that does not trust the origin, 1 event; 1 failed ingest or missed offer | an event on two sides at once; it stops where it is not trusted | 714 k, 55 s |
| `flood_pair` | 2 burrows, 3 events of sizes 2, 1 and 1, a frame of 2, `OfferLimit` 2, `ScanLimit` 4, 2 frames in flight; 1 failed ingest or missed offer, 1 drop or restart | a page cut by the offer limit, a reply that no frame takes and the redials after it; liveness | 451 k, 190 s |
| `peers` | 4 peers, two of one origin, two listed with their keys and one of these silent; 3 connections, 1 inbound, 3 events out of operator changes, failures and restarts | handshake against approval, revocation, dial and restart; a file that boot ignores; a dialer that is held; liveness | 424 k, 175 s |
| `staging` | a ZMODEM and a Hotline destination, 2 callers, files up to 2 chunks, room for 3; 2 faults | a stop or a failure between any two writes, then another | 3.2 M, 200 s |
| `filing` | 2 sessions of 1 account, 1 file that fills the quota, 2 names, cap 1, 2 tickets, 2 inodes, a cap on the blob cache that the file is over, 1 restart | two filings at once on any two surfaces, streams and the sweep beside them | 2.6 M, 105 s |
| `catalogs` | 2 peers of 2 names, a dialled and an accepted link, room for 1 payload, 2 changes, 2 faults | an answer under way through revocation and approval; eviction | 2.4 M, 80 s |
| `pulls` | 2 requests of one person at once, 2 grants (2 files and 1) of which the first lapses, 1 link, direct dials of 2 tries, 1 switch, 1 restart, 2 pull numbers | a slow dial against a purge; two pulls side by side; a stop in mid-file | 2.4 M, 140 s |

Why these are enough: the interactions are between two actors (two lanes, two
sessions of an account, two tasks, two ends of a link, an operator and a
connection) or two of a resource of one; a third actor is there where it plays a
part of its own (the ring's third burrow). Limits in the code (ring, bus, page,
offers) are set to 1 or 2, so that they are met at once. Counters that the
specifications cap (`MaxConnects`, `MaxFailures`, `MaxRestarts`, `MaxDrops`,
`MaxForgets`, `MaxInFlight`, `MaxInbound`, `MaxEvents`, `MaxChanges`, `MaxFaults`,
`MaxOpens`, `Inodes`, `MaxGens`, `MaxClock`, `MaxPulls`, `MaxLinks`,
`MaxSwitches`, `MaxTries`) bound how often the environment misbehaves; each run allows each kind of
misbehaviour at least once where it matters, two faults where the second may
fall into the recovery from the first, and the theorems hold for every value.
Some exceptions and limits are beyond an instance and covered by the theorem
alone: the third lane that `AskedTwiceOnlyIfDoomed` excepts needs more lanes than
`swarm_lanes` has, the places of `pulls` are as many as its requests, so that
`MAX_RUNNING` and the limit per account are never met there, and its switches are
those of `pulls` and the clock. Deadlock checking is off where a system whose environment has used up its
bounds may rest; `swarm_crash` has no such bound and checks it.

Symmetry is used for units, sessions, events of one kind, tasks, callers, names,
origins and requests in runs without temporal properties (`swarm_crash`,
`catalogs` and `pulls` check an action property of the form `[][A]_vars`, which
does not tell the permuted values apart).

## 5. Fairness

- SwarmScheduler: weak fairness of each worker's own steps, of the idle timer
  and of the fetch future. Tasks are polled; a transport answers or times out.
  Nothing is assumed of sources beyond that, nor of the caller.
- FloodFill: weak fairness of Connect (the dialer comes round every 30 s), of
  hearing the next frame (a reply that is too large ends the session there), of
  the next event of a delivery, of the end of an ingest and of taking an event
  from the receiver; strong fairness of HistoryPass, because a session selects
  between its tick and its frames and the tick is not starved
  (`federation_history_reoffer_secs` is 60 by default; `Periodic` in the
  configurations). `Converges` is not claimed with the re-offer switched off.
- PeerSessions: weak fairness of saving and of what a connection does by itself
  (`OwnStep`); of what it waits for from its peer (`PeerStep`) only if the peer is
  not in `Silent`. Strong fairness of the dialer's tick for a listed peer that is
  not silent, of a dial to it that succeeds and of the first exchange of catalogs: a
  peer that is called again and again comes round in the end. Nothing is assumed
  of a silent peer, because nothing in the code makes it answer or go: `recv_fed`
  in `dial_peer` (`federation.rs:373`), the two receives of `sync_catalogs` (1556,
  1571) and an inbound handshake wait without a timeout, the connection's
  keep-alive (`net/src/quic.rs:227`) keeps it from idling out, and the dialer calls
  one peer after the other (1618). `RedialedUnlessHeld` says what is left: either
  the dialer ends up held by such a peer, or every other listed peer is
  connected again and again.

PushReplay, BoardIngest, LegacyStaging, Uploads, PeerCatalogs and RemotePulls
state no liveness. RemotePulls has a rank instead (`NearerItsEnd`): every wait of
a pull has a timeout in the code, so that a bound on its steps is a bound on its
life.

## 6. What is proved

TLAPS proves the following for every value of the constants, from the named
ASSUMEs of each module (finite non-empty sets of units, disjoint kinds of
events, positive capacities, links between different burrows and the like) and
nothing else.

| Module | Theorems | Inductive invariant |
| --- | --- | --- |
| SwarmSchedulerProofs | `TypeCorrect`, `Accounting`, `ResumeIsSafe`, `CompleteIsTrue`, `LentStaysLent`, `AskedTwiceIsDoomed`, `DroppedIsQuiet` | `PhaseInv`, `QueueInv`, `AskInv`, `DiskInv`, `LentInv` |
| PushReplayProofs | `TypeCorrect`, `Inductive`, `ReadsInOrder`, `ResumeIsComplete`, `MailIsDelivered`, `CastsAreDelivered` | `OrderInv`, `GapInv`, `MailInv`, `CastInv` |
| FederationProofs, of BoardIngest | `TypeCorrect`, `FloodEnds`, `NeverLockedOut`, `GateHolds`, `StrandedOnlyByTheRace`, `WipedUnlessCut` | `TaskInv`, `ReserveInv` (with the count of `FiredOncePerEntry`), `NothingBlocked`, `GateInv`, `MintInv`, `WaitInv`, `WipeInv` |
| FloodFillProofs | `TypeCorrect`, `StoredByOne`, `Implements`, `NothingEchoes` | `Delivered`, `InHand`, `Working`, `Touched` |
| FederationProofs, of PeerSessions | `PeersTypeCorrect`, `Coherent`, `OnlyALostWelcome`, `RevokedForGood`, `ApprovalLasts` | `Dialled`, `Changing`, `Survives` |
| RemotePullsProofs | `PullsInductive`, `GrantsCountOnce`, `PullsLeakNothing`, `StopsAreHonoured`, `JobsComeNearer` | `PullsInv`: `JobsStand`, `Apart`, `Held`, `Limits`, `StagingOwned`, `SessionHeld`, `Spending`, `Stopping` |
| PeerCatalogsProofs | `CatalogInductive`, `CatalogsStayRevoked`, `CatalogsAreSound`, `WatermarksStay` | `Core`: `Caches`, `Lock`, `Fetches`, `Epochs`, `Revoking`, `CacheIsSaved`; and `Tracked` |
| LegacyStagingProofs | `StagingInductive`, `LeasesStand`, `AckedLasts`, `ReservationsStand` | `StagingInv`: `Callers`, `Holder`, `OneWriter`, `CallerAgrees`, `Contents`, `InStep`, `Down`, `Bounded`, `Standing`, `AckedKept`, `Reserved` |
| UploadsProofs | `UploadsInductive`, `LimitsStand`, `StagesStand`, `BlobsStayIntact`, `DenialsAreHonoured` | `UploadInv`: `Shapes`, `Locked`, `Numbered`, `Apart`, `Placed`, `Left`, `StageOwned`, `Writers`, `Hashed`, `BlobIntact`, `Denials`, `Listed`, `Room`, `QuotaHeld`, `CapPassedOnlyByRacing` |

The assumptions are what the code's types give: `None` is told apart from the
ids, records and rows that stand where it may stand (`NoneAssumption`,
`RecordsAssumption`), the sets of peers, requests and sessions are finite (so is
what a library holds, which is shown), the limits are numbers. No theorem has a hypothesis beyond them: where the code
loses something (section 7), the loss is an exception in the formula.

Why a strengthening is needed, in a word each:

- Swarm. Accounting must survive the moment workers are dropped, and a copy
  that lost the race may settle its unit only because the unit is done
  (`QueueInv`). The record is behind `done`, which is behind the disk, at every
  phase in which a kill may fall (`DiskInv`); `LentInv` says the same of what is
  marked lent. `AskInv`: until something fails locally, `working` knows every
  fetch under way, with one lane for each mark.
- Push. The numbers left to replay lie between what was sent and what may still
  be stamped, and a session serves one client (`OrderInv`). While a client
  follows, every stamped number is seen, excused, on the wire or left to replay;
  after its session, the same below each number on the wire (`GapInv`).
- Boards. A parked follow-up is still ahead of the task that will reconcile its
  post (`WaitInv`); a tombstone about to be marked has had its effect
  (`WipeInv`); what a task carries fits its step (`TaskInv`). Each ingest and each
  re-fire of an event has had an entry of the window of its own: what there is of
  them is at most the entry that is there and those that were forgotten
  (`ReserveInv`; whoever ingests without an entry had it forgotten under it).
- Flood. A delivered frame carries what its sender holds (`Delivered`: holdings
  only grow), what is left of a delivery is held by the peer it came from, also when
  the link is gone (`InHand`), and whoever stores an event got it from such a
  delivery, trusts it and holds the reservation (`Working`). With these each step maps to `Copy`,
  `Author` or a stutter of `Replication`. No echo: a session notes a delivery
  only if its origin is trusted, which is enough because nothing else is ever
  fired (`Touched`).
- Peers. Only listed peers are being dialled, and a listed peer is never told
  revoked; while a change is on its way to disk, memory already has it
  (`Changing`). What the operator was told is approved is on disk too, unless it was
  in a file that a boot ignored, so that a restart finds it or ignores it (`Survives`).
- Pulls. A purge goes by the time a request was checked, which is never ahead of
  the clock (`JobsStand`), so the row of a grant that stands is still there and a
  second spend is refused (`Spending`). A place taken is some job's (`Held`) and no
  two jobs have the same (`Apart`), so releasing one frees one. A job that has filed
  since its stop has nothing in hand (`Stopping`). The rank falls with each
  step because all phases of an item together weigh less than the step to the next.
- Catalogs. A fetch whose revision is still its entry's was begun in the present
  epoch (`Fetches`), and no epoch is barred that has yet to come (`Epochs`); a
  revocation has withdrawn the approval, and then the payload from the file, before
  the operator is told (`Revoking`), so a late answer is not accepted. While
  a catalog is in the file and not yet in memory nothing it was accepted by changes
  (`Lock`), and memory has payloads of approved peers only (`Caches`). A revocation
  of a peer the cache does not know writes nothing, which is enough because the
  file knows nobody that memory does not (`Tracked`).
- Staging. Who has the lock, and in the middle of what, says which of the files may
  differ from the index (`Holder`): only the record being removed or written
  (`InStep`), and while the process is down only what opening does (`Down`). A
  record is written after its bytes are synced, so the bytes of every record in
  the index are there whatever is left (`Standing`), and no copy of a record that was
  told to a sender falls behind it (`AckedKept`). That is not enough for a restart,
  which drops records past the limits: every choice of what may be left of the
  records has to fit (`Bounded`), and it does because a claim is
  admitted with all it may still write (`Reserved`).
- Uploads. Everything hangs on whose a file is: an id has one owner
  (`Numbered`), a file one name (`Apart`), a request its file until it is stored
  (`Placed`). A writer of a file that is filed was there when it was finished
  (`Writers`), so the hash holds until the move (`Hashed`). Under the commit lock
  (`Locked`) nobody else adds a row, so the check for room is still true at the
  insert (`Room`) and a denial is seen (`Denials`). `LimitsStand` needs sums:
  what an account uses grows by the size of the row that is added (`TotalGrows`).

Each proof has a lemma for each conjunct of the invariant with a step for each
action, then a temporal theorem that combines them. In Uploads every
action is first shown to be a step of one of a few kinds (`StepCases`), and the
lemmas go by kind. The prover has no induction over data that takes a predicate. Where a
proof needs one, it is an argument by the least counterexample (`Least`,
`SmallestOf`, from the well-foundedness of <): that a finite set of numbers has a
greatest one, that what an eviction leaves is within the limit, and what the fold
that adds up an account's rows, or the records of the staging directory, computes
(`FoldIs`, `SumIs`).

## 7. Where code and documentation disagree

With a run whose violation shows it (`PROJECT.json`, "findings"):

- `boards_terminal`. `repo4.rs:629` says "a tombstone is terminal". `apply_edit`
  writes into a wiped row, so an edit that comes after the tombstone, or that is
  dated after it, shows text again.

Seen while modelling, and kept as the exception a property names:

- `CastsReach`: `session.rs:409` says "Subscribe BEFORE welcome/replay so no event
  falls in a gap". Presence is joined (395) before the subscription (410), and
  the recorder skips accounts that are online: an event in between is lost. The
  property counts from the subscription.
- `PassedOverOnlyIfRaced`: `proto/src/session.rs:8` says the server replays newer
  pushes "so a reconnect misses nothing". The recorder sees the account offline
  (`lib.rs:616`) and stamps in a later step (633). If the client has resumed in
  between and its session has taken the snapshot for the replay (`session.rs:418`),
  the push is neither replayed nor live, and the cursor passes its number. An
  older session of the account that lingers and stamps a broadcast it had queued
  does the same to a client that resumes beside it.
- `FiredOncePerEntry`: `dedup.rs:9` calls the window the gate "that prevents
  reprocessing and rebroadcast loops". It forgets by age and by capacity
  (`dedup.rs:131-185`; the test `window_eviction_allows_reprocess` wants that), and
  the posts table forgets by retention: a post that both have forgotten is
  ingested and re-fired again with no restart, once for each time it is forgotten.
- `Converges`, `Quiet`: `federation.rs:845` says "The next bounded history pass
  recovers skipped offers". A pass offers up to 128 ids, the peer pulls them, and
  the reply packs up to 256 events into one frame whatever their sizes (1134-1184),
  although a frame of more than 1 MiB is refused (`proto/src/codec.rs:17`; the
  receiver is ready for 8 MiB, `federation.rs:179`). The send fails, the session ends,
  the next one starts at the same page, and so on for ever: nothing limits the size
  of a post but its surface.
- `PendingOnlyIfRaced`: `boards.rs:47` says a pending follow-up "applies when the
  post arrives". The absence of the post is read in one store call and acted on in
  a later one; a post that lands in between has already looked for what waits.
- `ApprovedUnlessIgnored`: `docs/protocol/federation.md:132` says "Approved tuples
  persist [...] and reload on boot". A second key of an origin, or one key too many,
  is approved and saved, and the next start ignores the whole file for it
  (`federation.rs:1716`, `1731`): every approval is gone but those of pinned peers.
- `PulledOnce`: `docs/design/server-to-server-transfers.md:91` says a spent grant is
  "useless twice". A request checked in time that still dials after the grant
  lapsed can spend it again, once another request has purged its row.
- `CapPassedOnlyByRacing`: the cap on an account's tickets is checked with no lock
  held (`handlers9.rs:440`); opens of other sessions that overlap pass it.
- `BlobIntact`: a bulk stream or a chunk that still has the staging file open when
  the upload is finished can write after the hash was taken (`blobs/src/lib.rs:180`),
  and the rename keeps its file. And `lib.rs:559` says of the sweep of the blob cache
  "Referenced library content is never touched". Nothing in the server adds a
  reference (`add_ref` is called by tests only), so with `swarm_cache_max_bytes` set
  every blob is a candidate, and a listed file loses its own.
- `DenialHonoured`: a ZMODEM upload is looked up in the deny list before it waits
  for the commit lock, and not again.
- `AskedTwiceOnlyIfDoomed`: `scheduler.rs:130` says a source is "never asked for
  one unit twice at once". A lane whose write failed unmarks the unit under one
  lock (957) and again when it hands it back under the next (877, 1009), which
  unmarks the copy a sibling has begun; a third lane then asks. The fetch has
  failed by then.
- `AppliedOrCut`: `repo4.rs:489` says of `applied` "Whether it has been applied
  to the `posts` projection yet". The row is stored as applied before it is
  applied; a stop in between leaves the post as it was for good.
- `ConnectedUnlessLost`, `RedialedUnlessHeld`: `docs/protocol/federation.md:145`
  says the dialer "redials any without a live session". A welcome that cannot be
  sent (`federation.rs:549`) leaves the record connected without a session, and
  the dialer passes over it until a restart or until the peer calls in. And one
  listed peer that accepts the connection and says nothing holds the dialer, so
  that no other is redialled (section 5).

Seen while modelling, without a property:

- `local_catalog` reads the listing before it takes its lock (`fed_catalog.rs:376`):
  of two builds at once, the one with the older listing can sign it with the newer
  generation.
- A peer approved again, or whose payload was evicted, has no catalog here until it
  signs a newer generation: the watermark refuses the one it has.
- `docs/protocol/dm.md:20` says DMs "never ride the replay ring". Sessions stamp
  the DMs they push (`session.rs:436`, `526`), so a resume replays those the
  client missed, and the mail call pushes them again.
- `federation.rs:1624` says "Skip peers we already hold a live session with". The
  registry has one record for a key: when one of two links ends, the peer counts
  as disconnected and is called although the other link is live.
- `federation.rs:1758` says of a change that could not be saved "nothing
  changed". `revoke_peer` has withdrawn the approval in memory and does not
  restore it; the next start has it again.

## 8. Only model-checked, and not modelled

Liveness (`FetchEnds`, `Converges`, `Quiet`, `RevokedEnds`,
`RedialedUnlessHeld`) is checked by TLC on the instances above: the proof system
does not do liveness under fairness, nor ENABLED, nor RECURSIVE operators; the
modules have none. `NearerItsEnd` is the part of the liveness of a pull that can
be proved, and is. Every safety property that a passing run checks is a theorem. The
other way round, the inductive invariants, the type invariants that no run names
and `RegistryCoherent` are proved for every value of the constants, and no run
spends its time on them.

Not modelled in the modelled parts: bytes, hashes, signatures and frame layouts
(their verdicts are choices); times (their passing is a choice); several boards
to a link, quarantine filters and peer budgets in FloodFill; several links
between one pair of burrows; reply threading, read marks and board management
in BoardIngest, and the order in which its window forgets (any entry may be the
oldest); the eviction of the window in FloodFill, where nothing is ever pruned and
what is stored is not asked for again; `MAX_PULL_IDS` and `MAX_EVENTS_PER_MSG`, which
an offer of 128 ids does not reach; unstamped pushes in PushReplay; the
authentication rate limit and changes of configuration in PeerSessions, where
`is_configured_peer` and the revocation after it, two calls (`federation.rs:1840`),
are one step. In SwarmScheduler removals succeed (the code ignores their errors,
`scheduler.rs:505`) and no worker panics (692). In LegacyStaging: `MAX_RECORDS` is not met with two destinations; what is not synced
when the process alone is killed is written back before it starts again; `.tmp`
files are never read and left out; every chunk is one byte long. In Uploads: a
resumed ticket, rate budgets, permissions and the limit on a file's size, which
are refusals like the quota's; a staging file that cannot be created, which the
code does not notice (`handlers9.rs:567`); the ages of blobs in the sweep; the contents of a staging file that an earlier
life left, which nobody reads before its id is used again. In PeerCatalogs:
`MAX_TRACKED_PEERS`, the limit in bytes, and the probe by which two burrows learn
that both speak catalog-sync-v1. In RemotePulls: one source and one destination;
seeders and proved ranges from the source are one leg ("seed"); the checks on
folder, files, space and rates are one refusal; a restart of the source is the
loss of its links and sessions; the clock does not go back; a panic in `Pull::run`,
which would keep the place (`s2s.rs:1528`), does not happen. `TombstoneIsTerminal` is
about one burrow: that two burrows show different texts for good is not shown.
Flow control of
a QUIC stream is left out, so that two ends that both block in a send are not
seen here (a hazard with a note).

The parts of section 1.2, and those of 1.1 the plan still has ahead, are listed
with their reasons in `PROJECT.json`. Most of the repository's lines are screens
(web, desktop and terminal clients), encodings and gateways, in which a step is
one call and no order of steps can go wrong; the map covers a small share of the
lines for that reason, and the plan goes on with the parts that do have state
shared between steps.
