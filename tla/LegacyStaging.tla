---------------------------- MODULE LegacyStaging ----------------------------
(***************************************************************************)
(* The checkpoints of legacy uploads (apps/server/src/legacy_staging.rs):  *)
(* the prefix of an unfinished ZMODEM or Hotline upload is kept as a .part *)
(* file and a signed .meta record that names how much of it counts.  One   *)
(* caller at a time holds the lease of a destination, appends to it, and   *)
(* discards it when the upload was filed or refused.                       *)
(*                                                                         *)
(* Everything under the index lock is one operation of the code and several*)
(* steps here, because the machine may stop, or the disk fail, after any   *)
(* of them.  A hash is the bytes it is of; tags and hashes do not collide. *)
(* The time to live is a mark: a record is stale when its time is up, or   *)
(* when the clock was set back.  The .tmp file a record is first written   *)
(* to is never read, and is left out.                                      *)
(***************************************************************************)
EXTENDS Naturals, Sequences, FiniteSets, FiniteSetsExt

CONSTANTS
  Ids,          \* target_id of the destinations
  HotlineIds,   \* those whose target's protocol is Hotline
  Claims,       \* callers: a Claim and the future that holds it
  Bytes,        \* what a chunk may be
  Foreign,      \* what somebody else's chunk is
  Offers,       \* the offers of a ZMODEM sender: its length and its mtime
  Declared,     \* the lengths a Hotline sender may declare for a fresh upload
  MAX_FILE, MAX_TOTAL, MAX_RECORDS,
  MaxFaults,    \* bound: how often something goes wrong
  None

ASSUME IdsAssumption == IsFiniteSet(Ids) /\ HotlineIds \subseteq Ids
ASSUME NoneAssumption == /\ None \notin Claims \cup Nat
                         /\ None \notin Seq(Bytes \cup {Foreign})
ASSUME BoundsAssumption ==
  MAX_FILE \in Nat /\ MAX_TOTAL \in Nat /\ MAX_RECORDS \in Nat /\ MaxFaults \in Nat

Lengths == Nat \cup {None}
Offer == [length: Lengths, mtime: Nat \cup {None}]
ASSUME OffersAssumption == Offers \subseteq Offer /\ Declared \subseteq 1..MAX_FILE

\* What may be in a .part file.
Content == Seq(Bytes \cup {Foreign})

\* A Record; its len is the length of what its digest is of.
Record == [offer: Offer, digest: Seq(Bytes), stale: BOOLEAN]

VARIABLES
  \* the staging directory: what is read from it now, and what a loss of
  \* power may leave of it
  meta, metaKept,
  part, partKept,
  damaged,   \* history: destinations whose .part somebody else changed
  acked,     \* history: what a caller was told is kept, until it may go
  \* the Index, under its lock
  records, claimed, failed,
  lock,      \* what the holder of the index lock is doing
  claim,     \* the callers
  up,        \* the process runs and Staging::open has returned
  faults     \* how often something went wrong

diskVars == <<meta, metaKept, part, partKept, damaged, acked>>
vars == <<diskVars, records, claimed, failed, lock, claim, up, faults>>

Jobs == {"none", "claim", "append", "bind", "discard"}
Claim == [id: Ids, cap: 0..MAX_FILE, data: Seq(Bytes), held: BOOLEAN,
          job: Jobs, arg: Bytes \cup Lengths, offer: Offer, resume: BOOLEAN]
Phases == {"scan", "next", "unpart", "decide", "mkpart", "write", "meta", "sync", "end"}
\* gone: what the holder still has to scan, or to remove; victim: the record
\* it is removing; then: what it does after that; rec: what it will record.
Lock == [who: Claims \cup {None}, at: Phases, gone: SUBSET Ids,
         victim: Ids \cup {None}, then: Phases, rec: Record \cup {None}]

ASSUME RecordsAssumption == None \notin Record \cup Claim \cup Lock

TypeOK ==
  /\ meta \in [Ids -> Record \cup {None}]
  /\ metaKept \in [Ids -> SUBSET (Record \cup {None})]
  /\ part \in [Ids -> Content \cup {None}]
  /\ partKept \in [Ids -> SUBSET (Content \cup {None})]
  /\ damaged \subseteq Ids
  /\ acked \in [Ids -> Seq(Bytes) \cup {None}]
  /\ records \in [Ids -> Record \cup {None}]
  /\ claimed \in [Ids -> (0..MAX_FILE) \cup {None}]
  /\ failed \in BOOLEAN
  /\ lock \in Lock \cup {None}
  /\ claim \in [Claims -> Claim \cup {None}]
  /\ up \in BOOLEAN
  /\ faults \in 0..MaxFaults

Init ==
  /\ meta = [i \in Ids |-> None] /\ metaKept = [i \in Ids |-> {None}]
  /\ part = [i \in Ids |-> None] /\ partKept = [i \in Ids |-> {None}]
  /\ damaged = {}
  /\ acked = [i \in Ids |-> None]
  /\ records = [i \in Ids |-> None]
  /\ claimed = [i \in Ids |-> None]
  /\ failed = FALSE
  /\ lock = None
  /\ claim = [c \in Claims |-> None]
  /\ up = TRUE
  /\ faults = 0

-----------------------------------------------------------------------------
(* The directory.                                                          *)

Has(f) == {i \in Ids : f[i] # None}
Len0(r) == IF r = None THEN 0 ELSE Len(r.digest)
Sum(f) == MapThenSumSet(LAMBDA i : f[i], Ids)

\* Mutant: the length is enough.
PrefixByLength(p, r) == IF p # None /\ Len(p) \in Len(r.digest)..MAX_FILE THEN r.digest ELSE None
\* read_prefix: the bytes on disk that the record answers for, if they are
\* all there and have its hash.
Prefix(p, r) ==
  IF /\ p # None
     /\ Len(p) \in Len(r.digest)..MAX_FILE
     /\ SubSeq(p, 1, Len(r.digest)) = r.digest
  THEN r.digest ELSE None

\* Its last lines: a tail no record names is cut off.
Truncate(i, r) ==
  LET kept == SubSeq(part[i], 1, Len(r.digest)) IN
  /\ part' = [part EXCEPT ![i] = kept]
  /\ partKept' = [partKept EXCEPT ![i] = @ \cup {kept}]

\* What Staging::open takes for a record of its own.
Acceptable(r) ==
  /\ ~r.stale /\ Len(r.digest) <= MAX_FILE
  /\ r.offer.length # None => r.offer.length \in Len(r.digest)..MAX_FILE

\* sync_directory: every entry is on disk as it is read (not what is in the
\* files).  Of a file that was replaced, the old bytes are not ruled out.
Synced(f) == [i \in Ids |-> {f[i]}]
SyncedParts ==
  [i \in Ids |-> IF part[i] = None THEN {None} ELSE (partKept[i] \ {None}) \cup {part[i]}]

Total == Sum([i \in Ids |-> Len0(records[i])])

\* What a record takes: all its claim may write, or what it has.
Takes(i) == IF records[i] # None /\ claimed[i] # None THEN claimed[i] ELSE Len0(records[i])

Holding(at) == lock # None /\ lock.at = at
Goto(at) == lock' = [lock EXCEPT !.at = at]
\* A job of c is over; what it was asked is forgotten with it.
NoOffer == [length |-> None, mtime |-> None]
Settle(c, job, held, data) ==
  claim' = [claim EXCEPT ![c] =
    [id |-> claim[c].id, cap |-> claim[c].cap, data |-> data, held |-> held, job |-> job,
     arg |-> None, offer |-> NoOffer, resume |-> FALSE]]

-----------------------------------------------------------------------------
(* remove_files: the record first, so that a stop leaves bytes nobody      *)
(* answers for and never the reverse.                                      *)

RemoveMeta(i) ==
  /\ Holding("next") /\ i \in lock.gone
  /\ meta' = [meta EXCEPT ![i] = None]
  /\ metaKept' = [metaKept EXCEPT ![i] = @ \cup {None}]
  /\ lock' = [lock EXCEPT !.at = "unpart", !.victim = i]
  /\ acked' = [acked EXCEPT ![i] = None]
  /\ UNCHANGED <<part, partKept, damaged, records, claimed, failed, claim, up, faults>>

\* Where an operation goes on once gone is empty.
Onwards(gone, then) == IF gone = {} THEN then ELSE "next"

\* ... the directory is synced, the bytes go, and the index forgets them.
RemovePart ==
  /\ Holding("unpart")
  /\ part' = [part EXCEPT ![lock.victim] = None]
  /\ metaKept' = Synced(meta)
  /\ partKept' = [SyncedParts EXCEPT ![lock.victim] = @ \cup {None}]
  /\ records' = [records EXCEPT ![lock.victim] = None]
  /\ lock' = LET rest == lock.gone \ {lock.victim} IN
       [lock EXCEPT !.at = IF lock.who = None THEN "scan" ELSE Onwards(rest, lock.then),
                    !.gone = rest, !.victim = None]
  /\ UNCHANGED <<meta, damaged, acked, claimed, failed, claim, up, faults>>

-----------------------------------------------------------------------------
(* claim and claim_hotline.                                                *)

Expired == {i \in Ids : records[i] # None /\ claimed[i] = None /\ records[i].stale}

\* The blocking job takes the index lock and begins with expire.
BeginClaim(c, i, offer, resume, cap) ==
  /\ up /\ lock = None /\ claim[c] = None /\ ~failed
  /\ claim' = [claim EXCEPT ![c] =
       [id |-> i, cap |-> cap, data |-> << >>, held |-> TRUE, job |-> "claim",
        arg |-> None, offer |-> offer, resume |-> resume]]
  /\ lock' = [who |-> c, at |-> Onwards(Expired, "decide"), gone |-> Expired,
              victim |-> None, then |-> "decide", rec |-> None]
  /\ UNCHANGED <<diskVars, records, claimed, failed, up, faults>>

\* A ZMODEM sender declares its file, and is turned away when that is too
\* large; a Hotline sender takes the offer of the record it resumes, or begins
\* with none.
ZmodemClaim(c, i, offer) ==
  /\ offer.length # None => offer.length <= MAX_FILE
  /\ BeginClaim(c, i, offer, TRUE, IF offer.length = None THEN MAX_FILE ELSE offer.length)
HotlineClaim(c, i, resume, declared) ==
  BeginClaim(c, i, NoOffer, resume, IF resume THEN MAX_FILE ELSE declared)

OfferOf(cl) ==
  IF cl.id \in HotlineIds /\ cl.resume /\ records[cl.id] # None
  THEN records[cl.id].offer ELSE cl.offer

\* Mutant: what other uploads may still write is not counted.
AdmittedByLength(cl) ==
  /\ claimed[cl.id] = None
  /\ OfferOf(cl).length # None => OfferOf(cl).length <= cl.cap
  /\ Sum([i \in Ids |-> IF i = cl.id THEN 0 ELSE Len0(records[i])]) + cl.cap <= MAX_TOTAL
Admitted(cl) ==
  /\ claimed[cl.id] = None
  /\ OfferOf(cl).length # None => OfferOf(cl).length <= cl.cap
  /\ Sum([i \in Ids |-> IF i = cl.id THEN 0 ELSE Takes(i)]) + cl.cap <= MAX_TOTAL

Resumable(cl) ==
  LET r == records[cl.id] IN
  /\ r # None /\ cl.resume
  /\ r.offer = OfferOf(cl) /\ Len(r.digest) <= cl.cap
  /\ Prefix(part[cl.id], r) # None

Refuse ==
  LET c == lock.who IN
  /\ \/ Holding("decide") /\ ~Admitted(claim[c])
     \/ Holding("mkpart") /\ Cardinality(Has(records)) >= MAX_RECORDS
  /\ claim' = [claim EXCEPT ![c] = None]
  /\ lock' = None
  /\ UNCHANGED <<diskVars, records, claimed, failed, up, faults>>

Load ==
  LET c == lock.who
      cl == claim[c] IN
  /\ Holding("decide") /\ Admitted(cl) /\ Resumable(cl)
  /\ Truncate(cl.id, records[cl.id])
  /\ claimed' = [claimed EXCEPT ![cl.id] = cl.cap]
  /\ Settle(c, "none", cl.held, part'[cl.id])
  /\ lock' = None
  /\ UNCHANGED <<meta, metaKept, damaged, acked, records, failed, up, faults>>

\* Begin again: what was kept for this destination is removed first.
Reset ==
  LET cl == claim[lock.who]
      old == {cl.id} \cap Has(records) IN
  /\ Holding("decide") /\ Admitted(cl) /\ ~Resumable(cl)
  /\ lock' = [lock EXCEPT !.at = Onwards(old, "mkpart"), !.then = "mkpart", !.gone = old,
                          !.rec = [offer |-> OfferOf(cl), digest |-> << >>, stale |-> FALSE]]
  /\ UNCHANGED <<diskVars, records, claimed, failed, claim, up, faults>>

\* private_create refuses a file that is there: that is a failure (Fail).
MakePart ==
  LET i == claim[lock.who].id IN
  /\ Holding("mkpart") /\ Cardinality(Has(records)) < MAX_RECORDS
  /\ part[i] = None
  /\ part' = [part EXCEPT ![i] = << >>]
  /\ partKept' = [partKept EXCEPT ![i] = @ \cup {<< >>}]
  /\ damaged' = damaged \ {i}
  /\ Goto("meta")
  /\ UNCHANGED <<acked, meta, metaKept, records, claimed, failed, claim, up, faults>>
-----------------------------------------------------------------------------
(* write_record: renamed into place, then the directory is synced; only    *)
(* then does the index change and the caller learn of it.                  *)

\* Mutant: the bytes of an append are not synced first.
PutMetaUnsynced ==
  LET cl == claim[lock.who] IN
  /\ Holding("meta")
  /\ meta' = [meta EXCEPT ![cl.id] = lock.rec]
  /\ metaKept' = [metaKept EXCEPT ![cl.id] = @ \cup {lock.rec}]
  /\ Goto("sync")
  /\ UNCHANGED <<part, partKept, damaged, acked, records, claimed, failed, claim, up, faults>>
PutMeta ==
  LET cl == claim[lock.who] IN
  /\ Holding("meta")
  /\ meta' = [meta EXCEPT ![cl.id] = lock.rec]
  /\ metaKept' = [metaKept EXCEPT ![cl.id] = @ \cup {lock.rec}]
  \* file.sync_all() of an append comes before
  /\ partKept' = IF cl.job # "append" THEN partKept
                 ELSE [partKept EXCEPT ![cl.id] = (@ \cap {None}) \cup {part[cl.id]}]
  /\ Goto("sync")
  /\ UNCHANGED <<part, damaged, acked, records, claimed, failed, claim, up, faults>>

Finish ==
  LET c == lock.who
      cl == claim[c] IN
  /\ Holding("sync")
  /\ metaKept' = Synced(meta)
  /\ partKept' = SyncedParts
  /\ records' = [records EXCEPT ![cl.id] = lock.rec]
  /\ claimed' = IF cl.job # "claim" THEN claimed ELSE [claimed EXCEPT ![cl.id] = cl.cap]
  /\ Settle(c, "none", cl.held, lock.rec.digest)
  /\ acked' = [acked EXCEPT ![cl.id] =
       IF lock.rec.stale \/ cl.id \in damaged THEN None ELSE lock.rec.digest]
  /\ lock' = None
  /\ UNCHANGED <<meta, part, damaged, failed, up, faults>>

-----------------------------------------------------------------------------
(* The lease.  A caller awaits one job at a time; dropped while it waits,  *)
(* it leaves the job to run, and the job holds the claim until it is over. *)

Leases == {c \in Claims : claim[c] # None /\ claim[c].job # "claim"}

Request(c, job, arg) ==
  /\ c \in Leases /\ claim[c].held /\ claim[c].job = "none"
  /\ claim' = [claim EXCEPT ![c] = [claim[c] EXCEPT !.job = job, !.arg = arg]]
  /\ UNCHANGED <<diskVars, records, claimed, failed, lock, up, faults>>

\* A Hotline caller binds the length of its data before it appends.
RequestAppend(c, b) ==
  /\ c \in Leases /\ records[claim[c].id] # None
  /\ claim[c].id \in HotlineIds => records[claim[c].id].offer.length # None
  /\ Request(c, "append", b)
RequestBind(c, n) == c \in Leases /\ claim[c].id \in HotlineIds /\ Request(c, "bind", n)
RequestDiscard(c) == Request(c, "discard", None)

\* Drop for Claim, under the index lock: the last holder, caller or job, is gone.
Release(c) ==
  /\ lock = None
  /\ claimed' = [claimed EXCEPT ![claim[c].id] = None]
  /\ claim' = [claim EXCEPT ![c] = None]

\* Mutant: the lease ends with the caller, whatever its job has yet to do.
DropCallerFrees(c) ==
  /\ claim[c] # None /\ claim[c].held
  /\ IF claim[c].job = "none" THEN Release(c)
     ELSE /\ claim' = [claim EXCEPT ![c] = [claim[c] EXCEPT !.held = FALSE]]
          /\ claimed' = [claimed EXCEPT ![claim[c].id] = None]
  /\ UNCHANGED <<diskVars, records, failed, lock, up, faults>>
DropCaller(c) ==
  /\ claim[c] # None /\ claim[c].held
  /\ IF claim[c].job = "none" THEN Release(c)
     ELSE claim' = [claim EXCEPT ![c] = [claim[c] EXCEPT !.held = FALSE]] /\ UNCHANGED claimed
  /\ UNCHANGED <<diskVars, records, failed, lock, up, faults>>

JobGone(c) ==
  /\ c \in Leases /\ ~claim[c].held /\ claim[c].job = "none"
  /\ Release(c)
  /\ UNCHANGED <<diskVars, records, failed, lock, up, faults>>

\* The job has the index lock.
Running(c, job) == up /\ lock = None /\ c \in Leases /\ claim[c].job = job
Begin(c, at, gone, rec) ==
  lock' = [who |-> c, at |-> at, gone |-> gone, victim |-> None, then |-> "end", rec |-> rec]

\* What append checks: the offset is the end of what is recorded, and the
\* chunk (of one byte) fits the claim, the offer and the burrow.
Fits(cl) ==
  LET r == records[cl.id] IN
  /\ ~failed /\ r # None
  /\ Len(r.digest) = Len(cl.data)
  /\ Len(cl.data) + 1 <= cl.cap
  /\ r.offer.length # None => Len(cl.data) + 1 <= r.offer.length
  /\ Total + 1 <= MAX_TOTAL

BeginAppend(c) ==
  LET cl == claim[c] IN
  /\ Running(c, "append") /\ Fits(cl)
  /\ Begin(c, "write", {}, [offer |-> records[cl.id].offer,
                            digest |-> Append(cl.data, cl.arg), stale |-> FALSE])
  /\ UNCHANGED <<diskVars, records, claimed, failed, claim, up, faults>>

WritePart ==
  LET cl == claim[lock.who]
      cut == SubSeq(part[cl.id], 1, Len(cl.data)) IN
  /\ Holding("write") /\ part[cl.id] # None
  /\ part' = [part EXCEPT ![cl.id] = Append(cut, cl.arg)]
  /\ partKept' = [partKept EXCEPT ![cl.id] = @ \cup {cut, Append(cut, cl.arg)}]
  /\ Goto("meta")
  /\ UNCHANGED <<meta, metaKept, damaged, acked, records, claimed, failed, claim, up, faults>>

\* bind_hotline_length writes the length once; a later resume has to carry
\* exactly what is left, or the caller discards the upload.
BindLength(c) ==
  LET cl == claim[c]
      r == records[cl.id]
      wrong == cl.arg > cl.cap \/ cl.arg < Len(r.digest) IN
  /\ Running(c, "bind") /\ ~failed /\ r # None
  /\ IF wrong \/ r.offer.length # None
     THEN /\ Settle(c, IF cl.held /\ (wrong \/ r.offer.length # cl.arg) THEN "discard" ELSE "none",
                    cl.held, cl.data)
          /\ UNCHANGED lock
     ELSE /\ Begin(c, "meta", {}, [offer |-> [length |-> cl.arg, mtime |-> r.offer.mtime],
                                   digest |-> r.digest, stale |-> r.stale])
          /\ UNCHANGED claim
  /\ UNCHANGED <<diskVars, records, claimed, failed, up, faults>>

\* An append or a bind that is refused: the caller gives the upload up, and
\* what is kept stays for another time.
RefuseJob(c) ==
  /\ \/ Running(c, "append") /\ ~Fits(claim[c])
     \/ Running(c, "bind") /\ (failed \/ records[claim[c].id] = None)
  /\ Settle(c, "none", FALSE, claim[c].data)
  /\ UNCHANGED <<diskVars, records, claimed, failed, lock, up, faults>>

BeginDiscard(c) ==
  /\ Running(c, "discard")
  /\ Begin(c, "next", {claim[c].id}, None)
  /\ UNCHANGED <<diskVars, records, claimed, failed, claim, up, faults>>

EndDiscard ==
  LET c == lock.who IN
  /\ Holding("end")
  /\ Settle(c, "none", FALSE, claim[c].data)
  /\ lock' = None
  /\ UNCHANGED <<diskVars, records, claimed, failed, up, faults>>
-----------------------------------------------------------------------------
(* Staging::open: every record is authenticated and read again; what does  *)
(* not pass, or does not fit, is removed.                                  *)

BeginOpen ==
  /\ ~up /\ lock = None
  /\ lock' = [who |-> None, at |-> "scan", gone |-> Has(meta), victim |-> None,
              then |-> "scan", rec |-> None]
  /\ UNCHANGED <<diskVars, records, claimed, failed, claim, up, faults>>

\* There is room for the record among those taken so far.
Room(r) == /\ Cardinality(Has(records)) < MAX_RECORDS
           /\ Total + Len(r.digest) <= MAX_TOTAL
Keeps(i) == Acceptable(meta[i]) /\ Room(meta[i]) /\ Prefix(part[i], meta[i]) # None

ScanKeep(i) ==
  /\ Holding("scan") /\ i \in lock.gone /\ Keeps(i)
  /\ records' = [records EXCEPT ![i] = meta[i]]
  /\ Truncate(i, meta[i])
  /\ lock' = [lock EXCEPT !.gone = @ \ {i}]
  /\ UNCHANGED <<meta, metaKept, damaged, acked, claimed, failed, claim, up, faults>>

ScanDrop(i) ==
  /\ Holding("scan") /\ i \in lock.gone /\ ~Keeps(i)
  /\ meta' = [meta EXCEPT ![i] = None]
  /\ metaKept' = [metaKept EXCEPT ![i] = @ \cup {None}]
  /\ lock' = [lock EXCEPT !.at = "unpart", !.victim = i]
  /\ UNCHANGED <<part, partKept, damaged, acked, records, claimed, failed, claim, up, faults>>

\* Bytes no record answers for are swept, and the burrow is up.
EndOpen ==
  LET orphans == {i \in Ids : records[i] = None /\ part[i] # None} IN
  /\ Holding("scan") /\ lock.gone = {}
  /\ part' = [i \in Ids |-> IF i \in orphans THEN None ELSE part[i]]
  /\ partKept' = [i \in Ids |-> IF i \in orphans THEN partKept[i] \cup {None} ELSE partKept[i]]
  /\ lock' = None /\ up' = TRUE
  /\ UNCHANGED <<meta, metaKept, damaged, acked, records, claimed, failed, claim, faults>>

-----------------------------------------------------------------------------
(* What goes wrong.                                                        *)

Fault == faults < MaxFaults /\ faults' = faults + 1

\* The disk fails a step of the operation in hand.  latch_error: nothing but
\* a discard is done until a restart has read the directory again.
Fail ==
  /\ Fault
  /\ lock # None /\ lock.who # None
  /\ failed' = TRUE /\ lock' = None
  /\ claim' = [claim EXCEPT ![lock.who] =
       IF @.job = "claim" THEN None ELSE [@ EXCEPT !.job = "none", !.held = FALSE, !.arg = None]]
  /\ UNCHANGED <<diskVars, records, claimed, up>>

Stopped ==
  /\ Fault
  /\ up' = FALSE /\ lock' = None /\ failed' = FALSE
  /\ records' = [i \in Ids |-> None] /\ claimed' = [i \in Ids |-> None]
  /\ claim' = [c \in Claims |-> None]
  /\ UNCHANGED <<damaged, acked>>

\* The process is killed; or open fails, and it ends by itself.  The machine
\* runs on, and has written back what was not synced before it starts again.
Kill ==
  /\ up \/ lock # None
  /\ Stopped
  /\ metaKept' = Synced(meta) /\ partKept' = Synced(part)
  /\ UNCHANGED <<meta, part>>

\* The machine loses power: of what was not synced, any part may be lost.
PowerLoss ==
  /\ up \/ lock # None
  /\ Stopped
  /\ \E m \in [Ids -> UNION {metaKept[i] : i \in Ids}],
        p \in [Ids -> UNION {partKept[i] : i \in Ids}] :
       /\ \A i \in Ids : m[i] \in metaKept[i] /\ p[i] \in partKept[i]
       /\ meta' = m /\ metaKept' = [i \in Ids |-> {m[i]}]
       /\ part' = p /\ partKept' = [i \in Ids |-> {p[i]}]

\* The record's time is up, in every copy of it.
Aged(r) == IF r = None THEN None ELSE [r EXCEPT !.stale = TRUE]
Age(i) ==
  /\ Fault
  /\ lock = None /\ meta[i] # None /\ ~meta[i].stale
  /\ meta' = [meta EXCEPT ![i] = Aged(@)]
  /\ metaKept' = [metaKept EXCEPT ![i] = {Aged(r) : r \in @}]
  /\ records' = [records EXCEPT ![i] = Aged(@)]
  /\ acked' = [acked EXCEPT ![i] = None]
  /\ UNCHANGED <<part, partKept, damaged, claimed, failed, lock, claim, up>>

\* Somebody else removes the bytes, or changes them.
Damage(i) ==
  /\ Fault
  /\ lock = None /\ part[i] # None /\ i \notin damaged
  /\ \E p \in {None, [k \in 1..Len(part[i]) |-> Foreign]} :
       /\ part' = [part EXCEPT ![i] = p]
       /\ partKept' = [partKept EXCEPT ![i] = {p}]
  /\ damaged' = damaged \cup {i}
  /\ acked' = [acked EXCEPT ![i] = None]
  /\ UNCHANGED <<meta, metaKept, records, claimed, failed, lock, claim, up>>

Next ==
  \/ \E i \in Ids : RemoveMeta(i) \/ ScanKeep(i) \/ ScanDrop(i) \/ Age(i) \/ Damage(i)
  \/ RemovePart \/ Refuse \/ Load \/ Reset \/ MakePart \/ PutMeta \/ Finish
  \/ WritePart \/ EndDiscard \/ BeginOpen \/ EndOpen \/ Fail \/ Kill \/ PowerLoss
  \/ \E c \in Claims :
       \/ \E i \in Ids \ HotlineIds, o \in Offers : ZmodemClaim(c, i, o)
       \/ \E i \in HotlineIds, resume \in BOOLEAN, declared \in Declared :
            HotlineClaim(c, i, resume, declared)
       \/ \E b \in Bytes : RequestAppend(c, b)
       \/ \E n \in 1..MAX_FILE : RequestBind(c, n)
       \/ RequestDiscard(c) \/ DropCaller(c) \/ JobGone(c)
       \/ BeginAppend(c) \/ BindLength(c) \/ RefuseJob(c) \/ BeginDiscard(c)

Spec == Init /\ [][Next]_vars

-----------------------------------------------------------------------------
(* Properties.                                                             *)

\* No two uploads write one destination: a claim whose caller is gone but
\* whose job has yet to run still keeps every other caller out.
OneWriter ==
  \A c, d \in Leases : claim[c].id = claim[d].id => c = d

\* What a caller holds, and will file when the upload is complete, is what is
\* recorded for the destination: also after a resume, a failed disk, a
\* restart and damage to the bytes.
CallerAgrees ==
  \A c \in Leases : records[claim[c].id] # None => claim[c].data = records[claim[c].id].digest

\* The leases are sound: each keeps every other caller out, and its caller may
\* go by what it holds.
LeasesSound == TypeOK /\ OneWriter /\ CallerAgrees

\* What a sender was told is kept survives a kill or a loss of power at any
\* moment, until it is discarded or its time is up: whatever is left of the
\* directory, there is a record whose bytes are all there, and they begin
\* with those.  A restart never gives it up for want of room.
AckedSurvives ==
  \A i \in Ids : acked[i] # None =>
    \A m \in metaKept[i], p \in partKept[i] :
      /\ m # None /\ Prefix(p, m) # None
      /\ SubSeq(m.digest, 1, Len(acked[i])) = acked[i]

\* A claim that was admitted can be filled: the burrow never runs out of
\* staging space under it.
ReservationHonoured == Sum([i \in Ids |-> Takes(i)]) <= MAX_TOTAL
=============================================================================
