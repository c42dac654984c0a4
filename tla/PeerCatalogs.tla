----------------------------- MODULE PeerCatalogs -----------------------------
(***************************************************************************)
(* The file catalogs a burrow keeps of its approved peers: the cache and   *)
(* its file (apps/server/src/fed_catalog.rs, fed_catalog/cache.rs), the    *)
(* pull of a dialer and the live exchange on a link                        *)
(* (federation/catalog_sync.rs), the operator who approves and revokes     *)
(* meanwhile, and at the other end of a link the peer that builds and      *)
(* signs its catalog.                                                      *)
(*                                                                         *)
(* A signed catalog is its generation: what it lists matters to nobody     *)
(* here.  Signatures hold, every peer speaks catalog-sync-v1, and time     *)
(* passes as the steps choose.                                             *)
(***************************************************************************)
EXTENDS Naturals, Sequences, FiniteSets, FiniteSetsExt

CONSTANTS
  Keys,          \* peers
  Origins,       \* names a peer may go by
  Links,         \* links at a time
  PeerOf,        \* the peer at the other end of each
  Dialled,       \* the links this burrow dials
  MAX_CACHED_CATALOGS,
  MaxGens,       \* bound: catalogs each peer signs
  MaxChanges,    \* bound: what the operator does
  MaxFaults,     \* bound: how often something goes wrong
  None

ASSUME PeersAssumption == IsFiniteSet(Keys) /\ PeerOf \in [Links -> Keys] /\ Dialled \subseteq Links
ASSUME NoneAssumption == None \notin Origins \cup Links \cup Nat
ASSUME BoundsAssumption ==
  /\ MAX_CACHED_CATALOGS \in Nat /\ MaxGens \in [Keys -> Nat \ {0}]
  /\ MaxChanges \in Nat /\ MaxFaults \in Nat

VARIABLES
  \* the registry: the origin of each key, and which are approved
  origin, approved,
  saved,       \* approved_peers.json
  peers,       \* CatalogState::peers
  file,        \* peer_catalogs.bin
  mutation,    \* the link whose catalog is saved and not yet in memory; the
               \* operator's withdrawal has the lock until it is saved
  change,      \* the operator's change, under the operator_change lock
  changes,
  link,        \* this end of each link
  said,        \* what its other end last announced
  toThem, toUs,
  \* the peers: the generation of the last signed catalog, and of its file
  local, localSaved,
  faults,
  \* history
  epoch,       \* how often approval was withdrawn
  barred       \* catalogs asked for before this epoch must not be seen again

registry == <<origin, approved>>
cacheVars == <<peers, file, mutation>>
farVars == <<said, local, localSaved>>
vars == <<registry, saved, cacheVars, change, changes, link, toThem, toUs, farVars,
          faults, epoch, barred>>

\* A generation is 0 where there is none.
\* A payload and, as history, the epoch in which it was asked for.
Payload == [gen: Nat, epoch: Nat]
PeerCatalog == [rev: Nat, origin: Origins, gen: Nat, signed: Payload \cup {None}, order: Nat]
Fetch == [rev: Nat, origin: Origins, epoch: Nat, announced: Nat]
Link == [origin: Origins, stage: {"announce", "get", "live"}, remote: Nat, pending: Fetch \cup {None}]
\* late: the request it answers is not waited for any more.
Frame == [kind: {"announce", "reply", "error"}, gen: Nat, late: BOOLEAN]
Request == [kind: {"announce", "get"}, late: BOOLEAN]
Change == [kind: {"approve", "revoke"}, key: Keys, was: BOOLEAN, step: {"cache", "save"}, ok: BOOLEAN]
ASSUME RecordsAssumption == None \notin Payload \cup PeerCatalog \cup Fetch \cup Link \cup Change

TypeOK ==
  /\ origin \in [Keys -> Origins] /\ approved \subseteq Keys
  /\ saved \in [Keys -> Origins \cup {None}]
  /\ peers \in [Keys -> PeerCatalog \cup {None}]
  /\ file \in [Keys -> PeerCatalog \cup {None}]
  /\ mutation \in Links \cup {None}
  /\ change \in Change \cup {None}
  /\ changes \in 0..MaxChanges
  /\ link \in [Links -> Link \cup {None}]
  /\ said \in [Links -> Nat]
  /\ toThem \in [Links -> Seq(Request)]
  /\ toUs \in [Links -> Seq(Frame)]
  /\ local \in [Keys -> Nat] /\ localSaved \in [Keys -> Nat]
  /\ faults \in 0..MaxFaults
  /\ epoch \in [Keys -> Nat] /\ barred \in [Keys -> Nat]

\* A burrow that has approved its peers, and has nothing of them yet.
Init ==
  /\ origin \in [Keys -> Origins] /\ approved = Keys /\ saved = origin
  /\ peers = [k \in Keys |-> None] /\ file = [k \in Keys |-> None] /\ mutation = None
  /\ change = None /\ changes = 0
  /\ link = [l \in Links |-> None]
  /\ said = [l \in Links |-> 0]
  /\ toThem = [l \in Links |-> << >>] /\ toUs = [l \in Links |-> << >>]
  /\ local = [k \in Keys |-> 1] /\ localSaved = [k \in Keys |-> 1]
  /\ faults = 0
  /\ epoch = [k \in Keys |-> 0] /\ barred = [k \in Keys |-> 0]

Fault == faults < MaxFaults /\ faults' = faults + 1

-----------------------------------------------------------------------------
(* The cache.                                                              *)

\* The mutation lock is free.
Unlocked == mutation = None /\ (change # None => change.step # "cache")

\* is_approved_origin
Approved(k, o) == k \in approved /\ origin[k] = o

\* Mutant: only what can be shown is written.
WrittenShown(f) == [k \in Keys |-> IF f[k] # None /\ f[k].signed # None
                                   THEN [f[k] EXCEPT !.rev = 0] ELSE None]
\* What PeerCache::write keeps: entries that have a generation.
Written(f) == [k \in Keys |-> IF f[k] # None /\ f[k].gen > 0
                              THEN [f[k] EXCEPT !.rev = 0] ELSE None]

\* Mutant: the generation goes with the payload.
HiddenAll(entry) == [entry EXCEPT !.signed = None, !.gen = 0]
Hidden(entry) == [entry EXCEPT !.signed = None]

\* Mutant: one too many.
TrimLate(f) ==
  LET kept == {k \in Keys : f[k] # None /\ f[k].signed # None}
      newer(k) == {j \in kept : f[j].order > f[k].order} IN
  [k \in Keys |-> IF k \in kept /\ Cardinality(newer(k)) > MAX_CACHED_CATALOGS
                  THEN Hidden(f[k]) ELSE f[k]]
\* trim: the payloads beyond the limit go, the oldest first; what is known of
\* their generations stays.
Trim(f) ==
  LET kept == {k \in Keys : f[k] # None /\ f[k].signed # None}
      newer(k) == {j \in kept : f[j].order > f[k].order} IN
  [k \in Keys |-> IF k \in kept /\ Cardinality(newer(k)) >= MAX_CACHED_CATALOGS
                  THEN Hidden(f[k]) ELSE f[k]]

Gen(k) == IF peers[k] = None THEN 0 ELSE peers[k].gen
Wants(k, g) == g > Gen(k)

\* The entry of k once begin_fetch has seen to it that it is for its origin.
Entry(k) ==
  IF peers[k] = None
  THEN [rev |-> 1, origin |-> origin[k], gen |-> 0, signed |-> None, order |-> 0]
  ELSE IF peers[k].origin # origin[k]
  THEN [rev |-> peers[k].rev + 1, origin |-> origin[k], gen |-> peers[k].gen,
        signed |-> None, order |-> peers[k].order]
  ELSE peers[k]

\* begin_fetch, where the peer is approved: the fetch it hands out.
Admit(k) == peers' = [peers EXCEPT ![k] = Entry(k)]
NewFetch(k, announced) ==
  [rev |-> Entry(k).rev, origin |-> origin[k], epoch |-> epoch[k], announced |-> announced]

Max0(s) == IF s = {} THEN 0 ELSE Max(s)
\* store_verified up to the save: what the cache will be.
Stored(k, fetch, g) ==
  LET order == Max0({peers[j].order : j \in {j \in Keys : peers[j] # None}}) + 1 IN
  Trim([peers EXCEPT ![k] = [@ EXCEPT !.gen = g, !.order = order,
                             !.signed = [gen |-> g, epoch |-> fetch.epoch]]])

\* Mutant: approval now is enough, whatever happened since the fetch began.
AcceptsApproved(k, fetch, g) == Approved(k, fetch.origin) /\ peers[k] # None /\ Wants(k, g)
Accepts(k, fetch, g) ==
  /\ Approved(k, fetch.origin)
  /\ peers[k] # None /\ peers[k].rev = fetch.rev
  /\ Wants(k, g)

-----------------------------------------------------------------------------
(* The operator.                                                           *)

\* approve_peer: the cache is saved, then the registry changes.
BeginApprove(k) ==
  /\ change = None /\ changes < MaxChanges /\ Unlocked
  /\ changes' = changes + 1
  /\ file' = Written(peers)
  /\ approved' = approved \cup {k}
  /\ barred' = IF k \in approved THEN barred ELSE [barred EXCEPT ![k] = epoch[k]]
  /\ change' = [kind |-> "approve", key |-> k, was |-> k \in approved, step |-> "save", ok |-> TRUE]
  /\ UNCHANGED <<origin, saved, peers, mutation, link, toThem, toUs, farVars, faults, epoch>>

\* The catalog side of a revocation: nothing of the peer is shown, and no
\* fetch that is under way may be stored.
Withdraw(k) ==
  /\ approved' = approved \ {k}
  /\ peers' = IF peers[k] = None THEN peers
              ELSE [peers EXCEPT ![k] = [Hidden(peers[k]) EXCEPT !.rev = @ + 1]]
  /\ epoch' = [epoch EXCEPT ![k] = @ + 1]

BeginRevoke(k) ==
  /\ change = None /\ changes < MaxChanges /\ Unlocked
  /\ changes' = changes + 1
  /\ Withdraw(k)
  /\ change' = [kind |-> "revoke", key |-> k, was |-> TRUE, step |-> "cache", ok |-> TRUE]
  /\ UNCHANGED <<origin, saved, file, mutation, link, toThem, toUs, farVars, faults, barred>>

\* The cache is saved after a withdrawal, if the peer is in it, or the save fails.
SaveCache ==
  LET cached == peers[change.key] # None IN
  /\ change # None /\ change.step = "cache"
  /\ \/ /\ file' = IF cached THEN Written(peers) ELSE file
        /\ change' = [change EXCEPT !.step = "save"] /\ UNCHANGED faults
     \/ cached /\ Fault /\ change' = [change EXCEPT !.step = "save", !.ok = FALSE] /\ UNCHANGED file
  /\ UNCHANGED <<registry, saved, peers, mutation, changes, link, toThem, toUs, farVars,
                 epoch, barred>>

SavedApprovals == [k \in Keys |-> IF k \in approved THEN origin[k] ELSE None]

\* persist_approved, and the operator is told.
SaveApproved ==
  /\ change # None /\ change.step = "save"
  /\ saved' = SavedApprovals
  /\ change' = None
  /\ barred' = IF change.kind = "revoke" /\ change.ok
               THEN [barred EXCEPT ![change.key] = epoch[change.key]] ELSE barred
  /\ UNCHANGED <<registry, cacheVars, changes, link, toThem, toUs, farVars, faults, epoch>>

\* It fails.  An approval is rolled back; its withdrawal is saved as well as
\* it can be.
SaveApprovedFails ==
  /\ change # None /\ change.step = "save"
  /\ Fault
  /\ IF change.kind = "approve" /\ ~change.was
     THEN /\ Unlocked
          /\ Withdraw(change.key)
          /\ file' \in {file, Written(peers')}
     ELSE UNCHANGED <<approved, peers, file, epoch>>
  /\ change' = None
  /\ UNCHANGED <<origin, saved, mutation, changes, link, toThem, toUs, farVars, barred>>

\* note_pending: a peer that is not approved calls by another name.
Rename(k, o) ==
  /\ k \notin approved /\ o # origin[k]
  /\ change # None => change.key # k
  /\ origin' = [origin EXCEPT ![k] = o]
  /\ UNCHANGED <<approved, saved, cacheVars, change, changes, link, toThem, toUs, farVars,
                 faults, epoch, barred>>

-----------------------------------------------------------------------------
(* The peer.  Whenever it is asked, or looks for itself, local_catalog     *)
(* signs what it lists now, with the next generation if that has changed.  *)

\* Another listing is signed; saving it may fail.
Publish(k) ==
  /\ local[k] < MaxGens[k]
  /\ local' = [local EXCEPT ![k] = @ + 1]
  /\ \/ localSaved' = [localSaved EXCEPT ![k] = local[k] + 1] /\ UNCHANGED faults
     \/ Fault /\ UNCHANGED localSaved
  /\ UNCHANGED <<registry, saved, cacheVars, change, changes, link, toThem, toUs, said,
                 epoch, barred>>

Send(l, kind, late) ==
  toUs' = [toUs EXCEPT ![l] = Append(@, [kind |-> kind, gen |-> local[PeerOf[l]], late |-> late])]

\* announce_local, every CHECK_INTERVAL: a catalog that was not announced yet.
Announce(l) ==
  /\ link[l] # None /\ link[l].stage = "live" /\ said[l] # local[PeerOf[l]]
  /\ Send(l, "announce", FALSE)
  /\ said' = [said EXCEPT ![l] = local[PeerOf[l]]]
  /\ UNCHANGED <<registry, saved, cacheVars, change, changes, link, toThem,
                 local, localSaved, faults, epoch, barred>>

\* The next request is answered; a live one with an error, if the library
\* cannot be read.
Answer(l) ==
  LET head == Head(toThem[l]) IN
  /\ toThem[l] # << >>
  /\ \/ Send(l, IF head.kind = "get" THEN "reply" ELSE "announce", head.late) /\ UNCHANGED faults
     \/ link[l].stage = "live" /\ Fault /\ Send(l, "error", head.late)
  /\ toThem' = [toThem EXCEPT ![l] = Tail(@)]
  /\ UNCHANGED <<registry, saved, cacheVars, change, changes, link, farVars, epoch, barred>>

-----------------------------------------------------------------------------
(* The link.                                                               *)

\* The dialer announces its own catalog, and asks for the other's with the
\* fetch it took before; a link that was dialled from there begins live.
Connect(l) ==
  LET k == PeerOf[l] IN
  /\ link[l] = None /\ k \in approved /\ Unlocked
  /\ IF l \in Dialled
     THEN /\ Admit(k)
          /\ link' = [link EXCEPT ![l] = [origin |-> origin[k], stage |-> "announce", remote |-> 0,
                                          pending |-> NewFetch(k, 0)]]
          /\ toThem' = [toThem EXCEPT ![l] = <<[kind |-> "announce", late |-> FALSE]>>]
     ELSE /\ link' = [link EXCEPT ![l] = [origin |-> origin[k], stage |-> "live", remote |-> 0,
                                          pending |-> None]]
          /\ UNCHANGED <<peers, toThem>>
  /\ UNCHANGED <<registry, saved, file, mutation, change, changes, toUs, farVars, faults, epoch, barred>>

Ended(ls) ==
  /\ link' = [l \in Links |-> IF l \in ls THEN None ELSE link[l]]
  /\ said' = [l \in Links |-> IF l \in ls THEN 0 ELSE said[l]]
  /\ toThem' = [l \in Links |-> IF l \in ls THEN << >> ELSE toThem[l]]
  /\ toUs' = [l \in Links |-> IF l \in ls THEN << >> ELSE toUs[l]]

\* The session's tick finds its peer no longer approved, or the link is lost.
Close(l) ==
  /\ link[l] # None /\ mutation # l
  /\ \/ ~Approved(PeerOf[l], link[l].origin) /\ UNCHANGED faults
     \/ Fault
  /\ Ended({l})
  /\ UNCHANGED <<registry, saved, cacheVars, change, changes, local, localSaved,
                 epoch, barred>>

\* The next frame, from a peer that is approved: Close otherwise.
Hears(l, kind, stages) ==
  /\ link[l] # None /\ toUs[l] # << >> /\ Unlocked
  /\ Approved(PeerOf[l], link[l].origin)
  /\ Head(toUs[l]).kind = kind /\ link[l].stage \in stages
Taken(l) == toUs' = [toUs EXCEPT ![l] = Tail(@)]

\* request_if_needed, given the newest generation announced; due: the last
\* fetch is CHECK_INTERVAL ago.
Ask(l, remote, due) ==
  LET k == PeerOf[l] IN
  IF due /\ link[l].pending = None /\ remote > 0 /\ Wants(k, remote) /\ k \in approved
  THEN /\ Admit(k)
       /\ link' = [link EXCEPT ![l] = [@ EXCEPT !.remote = remote, !.pending = NewFetch(k, remote)]]
       /\ toThem' = [toThem EXCEPT ![l] = Append(@, [kind |-> "get", late |-> FALSE])]
  ELSE /\ link' = [link EXCEPT ![l] = [@ EXCEPT !.remote = remote]]
       /\ UNCHANGED <<peers, toThem>>

\* A live announcement.  Only the newest is remembered.
HearAnnounce(l, due) ==
  LET g == Head(toUs[l]).gen IN
  /\ Hears(l, "announce", {"live"})
  /\ Ask(l, IF g > link[l].remote THEN g ELSE link[l].remote, due)
  /\ Taken(l)
  /\ UNCHANGED <<registry, saved, file, mutation, change, changes, farVars, faults, epoch, barred>>

\* The tick asks for what was announced while a request was under way.
Tick(l) ==
  /\ link[l] # None /\ link[l].stage = "live" /\ Unlocked
  /\ Approved(PeerOf[l], link[l].origin)
  /\ link[l].pending = None /\ link[l].remote > 0 /\ Wants(PeerOf[l], link[l].remote)
  /\ Ask(l, link[l].remote, TRUE)
  /\ UNCHANGED <<registry, saved, file, mutation, change, changes, toUs, farVars, faults, epoch, barred>>

\* expire: nobody waits for the answer any more.
Expire(l) ==
  /\ link[l] # None /\ link[l].stage = "live" /\ link[l].pending # None /\ mutation # l
  /\ Fault
  /\ link' = [link EXCEPT ![l] = [@ EXCEPT !.pending = None]]
  /\ toThem' = [toThem EXCEPT ![l] = [i \in DOMAIN toThem[l] |-> [toThem[l][i] EXCEPT !.late = TRUE]]]
  /\ toUs' = [toUs EXCEPT ![l] = [i \in DOMAIN toUs[l] |->
                [toUs[l][i] EXCEPT !.late = @ \/ toUs[l][i].kind # "announce"]]]
  /\ UNCHANGED <<registry, saved, cacheVars, change, changes, farVars, epoch, barred>>

Live(l, pending) == link' = [link EXCEPT ![l] = [@ EXCEPT !.stage = "live", !.pending = pending]]

\* sync_catalogs: what the listener announced is not wanted, or it is got.
HearSync(l) ==
  LET k == PeerOf[l] IN
  /\ Hears(l, "announce", {"announce"})
  /\ IF Wants(k, Head(toUs[l]).gen)
     THEN /\ link' = [link EXCEPT ![l] = [@ EXCEPT !.stage = "get"]]
          /\ toThem' = [toThem EXCEPT ![l] = Append(@, [kind |-> "get", late |-> FALSE])]
     ELSE Live(l, None) /\ UNCHANGED toThem
  /\ Taken(l)
  /\ UNCHANGED <<registry, saved, cacheVars, change, changes, farVars, faults, epoch, barred>>

\* A catalog for the request that is waited for (never older than what was
\* announced on the link).  It is checked and saved under the mutation lock;
\* memory has it after that.
HearReply(l) ==
  LET k == PeerOf[l]
      frame == Head(toUs[l])
      fetch == link[l].pending IN
  /\ Hears(l, "reply", {"get", "live"}) /\ ~frame.late /\ fetch # None
  /\ Taken(l)
  /\ IF Accepts(k, fetch, frame.gen)
     THEN /\ file' = Written(Stored(k, fetch, frame.gen))
          /\ mutation' = l
          /\ link' = [link EXCEPT ![l] = [@ EXCEPT !.pending = [fetch EXCEPT !.announced = frame.gen]]]
     ELSE Live(l, None) /\ UNCHANGED <<file, mutation>>
  /\ UNCHANGED <<registry, saved, peers, change, changes, toThem, farVars, faults, epoch, barred>>

\* The save fails, and nothing was changed.
StoreFails(l) ==
  /\ Hears(l, "reply", {"get", "live"}) /\ ~Head(toUs[l]).late /\ link[l].pending # None
  /\ Fault
  /\ Taken(l) /\ Live(l, None)
  /\ UNCHANGED <<registry, saved, cacheVars, change, changes, toThem, farVars, epoch, barred>>

Commit(l) ==
  /\ mutation = l
  /\ peers' = Stored(PeerOf[l], link[l].pending, link[l].pending.announced)
  /\ mutation' = None
  /\ Live(l, None)
  /\ UNCHANGED <<registry, saved, file, change, changes, toThem, toUs, farVars, faults, epoch, barred>>

\* An answer nobody waits for is dropped; an error ends the request.
HearOther(l) ==
  /\ \/ Hears(l, "error", {"live"}) \/ (Hears(l, "reply", {"live"}) /\ Head(toUs[l]).late)
  /\ Taken(l)
  /\ IF Head(toUs[l]).late THEN UNCHANGED link ELSE Live(l, None)
  /\ UNCHANGED <<registry, saved, cacheVars, change, changes, toThem, farVars, faults, epoch, barred>>

-----------------------------------------------------------------------------
(* Stops.                                                                  *)

\* The burrow stops and starts: approvals and the cache are read again, and a
\* payload is kept in memory only for a peer that is approved by its origin.
Restart ==
  LET approvedNow == {k \in Keys : saved[k] # None}
      originNow == [k \in Keys |-> IF saved[k] # None THEN saved[k] ELSE origin[k]] IN
  /\ Fault
  /\ approved' = approvedNow /\ origin' = originNow
  /\ peers' = [k \in Keys |->
       IF file[k] # None /\ ~(k \in approvedNow /\ file[k].origin = originNow[k])
       THEN Hidden(file[k]) ELSE file[k]]
  /\ mutation' = None /\ change' = None
  /\ Ended(Links)
  /\ UNCHANGED <<saved, file, changes, local, localSaved, epoch, barred>>

\* A peer stops and starts with the catalog it saved, or without one if the
\* stop came while it wrote the file.
PeerRestart(k) ==
  /\ Fault
  /\ mutation # None => PeerOf[mutation] # k
  /\ \E gen \in {localSaved[k], 1} :
       /\ local' = [local EXCEPT ![k] = gen]
       /\ localSaved' = [localSaved EXCEPT ![k] = gen]
  /\ Ended({l \in Links : PeerOf[l] = k})
  /\ UNCHANGED <<registry, saved, cacheVars, change, changes, epoch, barred>>

Exchange(l) ==
  \/ Announce(l) \/ Answer(l) \/ Close(l) \/ Tick(l)
  \/ \E due \in BOOLEAN : HearAnnounce(l, due)
  \/ HearSync(l) \/ HearReply(l) \/ HearOther(l) \/ Commit(l)

Next ==
  \/ \E k \in Keys : BeginApprove(k) \/ BeginRevoke(k) \/ Publish(k) \/ PeerRestart(k)
  \/ \E k \in Keys, o \in Origins : Rename(k, o)
  \/ SaveCache \/ SaveApproved \/ SaveApprovedFails \/ Restart
  \/ \E l \in Links : Connect(l) \/ Exchange(l) \/ Expire(l) \/ StoreFails(l)

Spec == Init /\ [][Next]_vars

-----------------------------------------------------------------------------
(* Properties.                                                             *)

\* approved_peer_catalogs
Shown == {k \in Keys : /\ peers[k] # None /\ peers[k].signed # None
                       /\ Approved(k, peers[k].origin)}

\* A search never shows what was asked for before a revocation the operator
\* was told of, or before the peer was approved again: not after a reply that
\* came late, a save that failed, or a restart.
RevokedNeverReturns == \A k \in Shown : peers[k].signed.epoch >= barred[k]

\* What the cache holds of a peer is in its file, unless a withdrawal is on
\* its way there or could not be saved.
CacheIsSaved ==
  \A k \in Keys : peers[k] # None /\ peers[k].gen > 0 /\ mutation = None =>
    /\ file[k] # None /\ file[k].gen = peers[k].gen
    /\ peers[k].signed # None => file[k].signed = peers[k].signed

\* The file can be read again: it is within the limits PeerCache::read insists
\* on.
FileReads ==
  /\ Cardinality({k \in Keys : file[k] # None /\ file[k].signed # None}) <= MAX_CACHED_CATALOGS
  /\ \A k \in Keys : file[k] # None /\ file[k].signed # None => file[k].signed.gen = file[k].gen

\* Memory and file say the same, and a restart goes by either.
CacheSound == TypeOK /\ CacheIsSaved /\ FileReads

\* The newest generation accepted from a peer is never forgotten: through
\* revocation, renaming, eviction and restarts.
WatermarkStays == [][\A k \in Keys : Gen(k) <= Gen(k)']_vars
=============================================================================
