------------------------------- MODULE Uploads -------------------------------
(***************************************************************************)
(* How files get into a burrow's library: the transfer tickets of the app  *)
(* (apps/server/src/handlers9.rs), their staging files and bulk streams,   *)
(* and the filing every surface ends in: the commit lock, the gate on      *)
(* space and size (upload_gate.rs), the deny list, the blob store          *)
(* (crates/blobs) and the row in the library.  A session handles one       *)
(* request at a time; a step is what runs between two awaits.              *)
(*                                                                         *)
(* A file is its bytes, its hash and its size.  What is in a staging file  *)
(* is too short, the wrong bytes, or a file.                               *)
(***************************************************************************)
EXTENDS Naturals, FiniteSets, FiniteSetsExt

CONSTANTS
  Sessions,       \* of the app, and of the other surfaces while they file
  AccountOf,      \* the account of each
  Files, Size,    \* what is uploaded, and how long it is
  Names,          \* places in the library
  Quota,          \* upload_quota_bytes; 0: none
  Cap,            \* max_concurrent_transfers; 0: none
  CacheMax,       \* swarm_cache_max_bytes; 0: blobs are never swept
  MaxOpens,       \* bound: tickets opened in one life of the burrow
  Inodes,         \* files that may be staged or stored at a time
  MaxRestarts,    \* bound
  None

Accounts == {AccountOf[s] : s \in Sessions}
Surfaces == {"ticket", "inline", "zmodem", "hotline", "pull"}
Ids == 1..MaxOpens
Own == 0   \* the file of a blob that put wrote, and nobody else has open

ASSUME SessionsAssumption == IsFiniteSet(Sessions) /\ None \notin Sessions
ASSUME SizesAssumption == Size \in [Files -> Nat] /\ Quota \in Nat /\ Cap \in Nat /\ CacheMax \in Nat
ASSUME BoundsAssumption == /\ MaxOpens \in Nat /\ MaxRestarts \in Nat
                           /\ Inodes \subseteq Nat \ {Own}
ASSUME ContentAssumption == /\ {"short", "wrong"} \cap Files = {}
                            /\ None \notin Files \cup Names \cup Nat

VARIABLES
  \* TransferRegistry
  tickets, nextId, commit,
  work,       \* what each session's handler is doing
  streams,    \* staging files a bulk stream holds open for writing
  \* <data_dir>/transfers: the file of a ticket id, and what is in each file
  path, content,
  \* the library and its store
  blobs, nodes, denied,
  restarts,
  \* history
  shared,     \* files that somebody could write while they were filed
  leftover,   \* ids whose file an earlier life of the burrow left behind
  evicted,    \* files whose blob the sweep removed, and nobody stored since
  after       \* sessions whose file was denied after they took the lock

stageVars == <<path, content, shared, leftover>>
libraryVars == <<blobs, nodes, denied, evicted>>
vars == <<tickets, nextId, commit, work, streams, stageVars, libraryVars, restarts, after>>

\* Writes at an offset never make a file shorter.
Whole == {"wrong"} \cup Files
Contents == {"short"} \cup Whole
\* A download's names nothing that matters here.
Ticket == [session: Sessions, upload: BOOLEAN, file: Files \cup {None}, name: Names \cup {None}]
Steps == {"gate", "insert", "list", "put", "lock", "hash", "store", "recheck", "add"}
\* id and inode: the ticket it came with, and its staging file.
Work == [at: Steps, surface: Surfaces, file: Files \cup {None}, name: Names \cup {None},
         id: Ids \cup {None}, inode: Inodes \cup {None}]
Row == [account: Accounts, file: Files]

ASSUME RecordsAssumption == None \notin Ticket \cup Work \cup Row

TypeOK ==
  /\ tickets \in [Ids -> Ticket \cup {None}]
  /\ nextId \in 1..(MaxOpens + 1)
  /\ commit \in Sessions \cup {None}
  /\ work \in [Sessions -> Work \cup {None}]
  /\ streams \subseteq Inodes
  /\ path \in [Ids -> Inodes \cup {None}]
  /\ content \in [Inodes -> Contents]
  /\ blobs \in [Files -> Inodes \cup {Own, None}]
  /\ nodes \in [Names -> Row \cup {None}]
  /\ denied \subseteq Files
  /\ restarts \in 0..MaxRestarts
  /\ shared \subseteq Inodes /\ leftover \subseteq Ids /\ after \subseteq Sessions
  /\ evicted \subseteq Files

Init ==
  /\ tickets = [i \in Ids |-> None] /\ nextId = 1 /\ commit = None
  /\ work = [s \in Sessions |-> None] /\ streams = {}
  /\ path = [i \in Ids |-> None] /\ content = [k \in Inodes |-> "short"]
  /\ blobs = [f \in Files |-> None] /\ nodes = [n \in Names |-> None] /\ denied = {}
  /\ restarts = 0
  /\ shared = {} /\ leftover = {} /\ after = {} /\ evicted = {}

-----------------------------------------------------------------------------
(* The registry and the gate.                                              *)

Idle(s) == work[s] = None
At(s, step) == work[s] # None /\ work[s].at = step
Goes(s, step) == work' = [work EXCEPT ![s] = [work[s] EXCEPT !.at = step]]
Done(s) == work' = [work EXCEPT ![s] = None]

\* count_for_account
Open(a) == {i \in Ids : tickets[i] # None /\ AccountOf[tickets[i].session] = a}
\* Mutant: one too many.
UnderCapOrAt(s) == Cap = 0 \/ Cardinality(Open(AccountOf[s])) <= Cap
UnderCap(s) == Cap = 0 \/ Cardinality(Open(AccountOf[s])) < Cap

\* uploaded_bytes
Used(a) == MapThenSumSet(LAMBDA n : Size[nodes[n].file],
                         {n \in Names : nodes[n] # None /\ nodes[n].account = a})
\* upload_gate::check
Fits(s, f) == Quota = 0 \/ Used(AccountOf[s]) + Size[f] <= Quota

\* What a session may do with a ticket of its account.
Mine(s, i) == tickets[i] # None /\ AccountOf[tickets[i].session] = AccountOf[s]
Drop(i) == tickets' = [tickets EXCEPT ![i] = None]

\* remove_file of the staging files of ids.  Who still has one open writes to
\* a file nobody will read.
Unlink(ids) ==
  LET gone == {path[i] : i \in ids \cap Ids} IN
  /\ path' = [i \in Ids |-> IF i \in ids THEN None ELSE path[i]]
  /\ content' = [k \in Inodes |-> IF k \in gone THEN "short" ELSE content[k]]
  /\ streams' = streams \ gone /\ shared' = shared \ gone
\* ... of one that has no name any more, nothing is left to do.
Linked(k) == (\E i \in Ids : path[i] = k) \/ \E f \in Files : blobs[f] = k

-----------------------------------------------------------------------------
(* TransferOpen.                                                           *)

OpenUpload(s, f, n) ==
  /\ Idle(s) /\ UnderCap(s) /\ f \notin denied
  /\ work' = [work EXCEPT ![s] = [at |-> "gate", surface |-> "ticket", file |-> f, name |-> n,
                                  id |-> None, inode |-> None]]
  /\ UNCHANGED <<tickets, nextId, commit, streams, stageVars, libraryVars, restarts, after>>

\* Nothing has this name, and nobody has it open.
Fresh(k) == ~Linked(k) /\ \A s \in Sessions : work[s] # None => work[s].inode # k

\* The declared size is checked, the id is taken and its file created (a file
\* an earlier life of the burrow left there is emptied).
CreateStage(s) ==
  /\ At(s, "gate") /\ Fits(s, work[s].file) /\ nextId \in Ids
  /\ \E k \in Inodes :
       /\ IF path[nextId] # None THEN k = path[nextId]
          ELSE Fresh(k) /\ \A j \in Inodes : Fresh(j) => k <= j
       /\ path' = [path EXCEPT ![nextId] = k]
       /\ content' = [content EXCEPT ![k] = "short"]
       /\ work' = [work EXCEPT ![s] =
            [work[s] EXCEPT !.at = "insert", !.id = nextId, !.inode = k]]
  /\ nextId' = nextId + 1
  /\ leftover' = leftover \ {nextId}
  /\ UNCHANGED <<tickets, commit, streams, shared, libraryVars, restarts, after>>

\* It does not fit, or the store cannot say.
OpenRefused(s) ==
  /\ At(s, "gate") /\ Done(s)
  /\ UNCHANGED <<tickets, nextId, commit, streams, stageVars, libraryVars, restarts, after>>

InsertUpload(s) ==
  /\ At(s, "insert")
  /\ tickets' = [tickets EXCEPT ![work[s].id] =
       [session |-> s, upload |-> TRUE, file |-> work[s].file, name |-> work[s].name]]
  /\ Done(s)
  /\ UNCHANGED <<nextId, commit, streams, stageVars, libraryVars, restarts, after>>

\* A download looks its file up first, and inserts its ticket after that.
OpenDownload(s, n) ==
  /\ Idle(s) /\ UnderCap(s) /\ nodes[n] # None
  /\ work' = [work EXCEPT ![s] = [at |-> "list", surface |-> "ticket", file |-> None,
                                  name |-> None, id |-> None, inode |-> None]]
  /\ UNCHANGED <<tickets, nextId, commit, streams, stageVars, libraryVars, restarts, after>>

InsertDownload(s) ==
  /\ At(s, "list") /\ nextId \in Ids
  /\ tickets' = [tickets EXCEPT ![nextId] =
       [session |-> s, upload |-> FALSE, file |-> None, name |-> None]]
  /\ nextId' = nextId + 1
  /\ Done(s)
  /\ UNCHANGED <<commit, streams, stageVars, libraryVars, restarts, after>>

\* remove_download: the last chunk was served, or the stream drained.
EndDownload(i) ==
  /\ tickets[i] # None /\ ~tickets[i].upload
  /\ Drop(i)
  /\ UNCHANGED <<nextId, commit, work, streams, stageVars, libraryVars, restarts, after>>

-----------------------------------------------------------------------------
(* Bytes.  FileChunkPut opens the staging file, seeks and writes; a bulk   *)
(* stream does the same beside the session.  Neither holds the ticket.     *)

Put(s, i) ==
  /\ Idle(s) /\ Mine(s, i) /\ tickets[i].upload /\ path[i] # None
  /\ work' = [work EXCEPT ![s] = [at |-> "put", surface |-> "ticket", file |-> None,
                                  name |-> None, id |-> None, inode |-> path[i]]]
  /\ UNCHANGED <<tickets, nextId, commit, streams, stageVars, libraryVars, restarts, after>>

PutWrite(s, c) ==
  /\ At(s, "put") /\ c \in Whole \cup {content[work[s].inode]}
  /\ content' = IF Linked(work[s].inode) THEN [content EXCEPT ![work[s].inode] = c] ELSE content
  /\ Done(s)
  /\ UNCHANGED <<tickets, nextId, commit, streams, path, shared, leftover,
                 libraryVars, restarts, after>>

StreamOpen(i) ==
  /\ tickets[i] # None /\ tickets[i].upload /\ path[i] # None
  /\ streams' = streams \cup {path[i]}
  /\ UNCHANGED <<tickets, nextId, commit, work, stageVars, libraryVars, restarts, after>>

StreamWrite(k, c) ==
  /\ k \in streams
  /\ content' = [content EXCEPT ![k] = c]
  /\ UNCHANGED <<tickets, nextId, commit, work, streams, path, shared, leftover,
                 libraryVars, restarts, after>>

StreamEnd(k) ==
  /\ k \in streams /\ streams' = streams \ {k}
  /\ UNCHANGED <<tickets, nextId, commit, work, stageVars, libraryVars, restarts, after>>

\* Somebody has the file open for writing.
Written(k) == k \in streams \/ \E s \in Sessions : At(s, "put") /\ work[s].inode = k

-----------------------------------------------------------------------------
(* Filing.  UploadFinish takes the ticket away first, and a staging file   *)
(* that is too short is no upload.  The other surfaces come with the whole *)
(* file: inline bytes, a ZMODEM or Hotline upload, a pulled file.          *)

UploadFinish(s, i) ==
  LET k == path[i] IN
  /\ Idle(s) /\ Mine(s, i) /\ tickets[i].upload
  /\ Drop(i)
  /\ IF k # None /\ content[k] # "short"
     THEN /\ work' = [work EXCEPT ![s] =
               [at |-> "lock", surface |-> "ticket", file |-> tickets[i].file,
                name |-> tickets[i].name, id |-> i, inode |-> k]]
          /\ shared' = IF Written(k) THEN shared \cup {k} ELSE shared
          /\ UNCHANGED <<path, content, streams>>
     ELSE Unlink({i}) /\ UNCHANGED work
  /\ UNCHANGED <<nextId, commit, leftover, libraryVars, restarts, after>>

\* ZMODEM and Hotline look at the deny list before they wait for the lock.
BringFile(s, k, f, n) ==
  /\ Idle(s) /\ k # "ticket"
  /\ k \in {"zmodem", "hotline"} => f \notin denied
  /\ work' = [work EXCEPT ![s] = [at |-> "lock", surface |-> k, file |-> f, name |-> n,
                                  id |-> None, inode |-> None]]
  /\ UNCHANGED <<tickets, nextId, commit, streams, stageVars, libraryVars, restarts, after>>

\* The upload ends here; what was staged for it is removed.
GiveUp(s) ==
  /\ commit' = None /\ Done(s)
  /\ Unlink({work[s].id})
  /\ after' = after \ {s}
  /\ UNCHANGED <<tickets, nextId, leftover, restarts>>

\* Mutant: the space is looked at before the wait for the lock only.
CheckPassesDeclared(s) ==
  /\ At(s, "lock") /\ commit = None
  /\ work[s].surface \in {"ticket", "inline", "pull"} => work[s].file \notin denied
  /\ commit' = s
  /\ Goes(s, IF work[s].surface = "ticket" THEN "hash" ELSE "store")
  /\ UNCHANGED <<tickets, nextId, streams, stageVars, libraryVars, restarts, after>>
\* Under the lock: the measured bytes against the space, then the deny list.
CheckPasses(s) ==
  /\ At(s, "lock") /\ commit = None
  /\ Fits(s, work[s].file)
  /\ work[s].surface \in {"ticket", "inline", "pull"} => work[s].file \notin denied
  /\ commit' = s
  /\ Goes(s, IF work[s].surface = "ticket" THEN "hash" ELSE "store")
  /\ UNCHANGED <<tickets, nextId, streams, stageVars, libraryVars, restarts, after>>

\* It does not pass, or the store cannot say.
CheckRefuses(s) ==
  /\ At(s, "lock") /\ commit = None /\ GiveUp(s) /\ UNCHANGED libraryVars

\* Mutant: the length is enough.
HashStageNot(s) ==
  /\ At(s, "hash") /\ Goes(s, "store")
  /\ UNCHANGED <<tickets, nextId, commit, streams, stageVars, libraryVars, restarts, after>>
\* put_verified hashes the staging file, then renames it.
HashStage(s) ==
  /\ At(s, "hash")
  /\ \/ /\ content[work[s].inode] = work[s].file
        /\ Goes(s, "store")
        /\ UNCHANGED <<tickets, nextId, commit, streams, stageVars, restarts, after>>
     \/ content[work[s].inode] # work[s].file /\ GiveUp(s)
  /\ UNCHANGED libraryVars

\* The staging file becomes the blob, or goes if the blob is there; put
\* writes a file of its own.
StoreBlob(s) ==
  LET w == work[s] IN
  /\ At(s, "store")
  /\ IF blobs[w.file] # None THEN Unlink({w.id}) /\ UNCHANGED <<blobs, evicted>>
     ELSE /\ blobs' = [blobs EXCEPT ![w.file] = IF w.inode = None THEN Own ELSE w.inode]
          /\ path' = [i \in Ids |-> IF i = w.id THEN None ELSE path[i]]
          /\ evicted' = evicted \ {w.file}
          /\ UNCHANGED <<content, streams, shared>>
  /\ Goes(s, IF w.surface = "hotline" THEN "recheck" ELSE "add")
  /\ UNCHANGED <<tickets, nextId, commit, leftover, nodes, denied, restarts, after>>

\* The file cannot be read, written or renamed.
StoreFails(s) ==
  /\ At(s, "hash") \/ At(s, "store")
  /\ GiveUp(s) /\ UNCHANGED libraryVars

\* Mutant: only the permission is asked for again.
RecheckPermission(s) ==
  /\ At(s, "recheck")
  /\ \/ /\ Goes(s, "add")
        /\ UNCHANGED <<tickets, nextId, commit, streams, stageVars, restarts, after>>
     \/ GiveUp(s)
  /\ UNCHANGED libraryVars
\* Hotline asks again whether the file is denied, and whether its user still
\* may upload.
Recheck(s) ==
  /\ At(s, "recheck")
  /\ \/ /\ work[s].file \notin denied /\ Goes(s, "add")
        /\ UNCHANGED <<tickets, nextId, commit, streams, stageVars, restarts, after>>
     \/ GiveUp(s)
  /\ UNCHANGED libraryVars

\* add_file: a pull numbers its name until one is free.
AddFile(s) ==
  LET w == work[s]
      places == {n \in Names : nodes[n] = None /\ (n = w.name \/ w.surface = "pull")} IN
  /\ At(s, "add")
  /\ \E n \in places :
       nodes' = [nodes EXCEPT ![n] = [account |-> AccountOf[s], file |-> w.file]]
  /\ commit' = None /\ Done(s) /\ after' = after \ {s}
  /\ UNCHANGED <<tickets, nextId, streams, stageVars, blobs, denied, evicted, restarts>>

\* The name is taken, the folder is gone, the store fails.
AddRefused(s) ==
  /\ At(s, "add") /\ GiveUp(s) /\ UNCHANGED libraryVars

-----------------------------------------------------------------------------
(* Tickets that end otherwise; the rest of the burrow.                     *)

Abort(s, i) ==
  /\ Idle(s) /\ tickets[i] # None /\ tickets[i].session = s
  /\ Drop(i)
  /\ Unlink(IF tickets[i].upload THEN {i} ELSE {})
  /\ UNCHANGED <<nextId, commit, work, leftover, libraryVars, restarts, after>>

\* Mutant: the tickets go, their files stay.
EndSessionKeepsStage(s) ==
  LET gone == {i \in Ids : tickets[i] # None /\ tickets[i].session = s} IN
  /\ Idle(s) /\ gone # {}
  /\ tickets' = [i \in Ids |-> IF i \in gone THEN None ELSE tickets[i]]
  /\ UNCHANGED <<nextId, commit, work, streams, stageVars, libraryVars, restarts, after>>
\* close_session, when the connection is gone.
EndSession(s) ==
  LET gone == {i \in Ids : tickets[i] # None /\ tickets[i].session = s} IN
  /\ Idle(s) /\ gone # {}
  /\ tickets' = [i \in Ids |-> IF i \in gone THEN None ELSE tickets[i]]
  /\ Unlink({i \in gone : tickets[i].upload})
  /\ UNCHANGED <<nextId, commit, work, leftover, libraryVars, restarts, after>>

Delete(n) ==
  /\ nodes[n] # None
  /\ nodes' = [nodes EXCEPT ![n] = None]
  /\ UNCHANGED <<tickets, nextId, commit, work, streams, stageVars, blobs, denied, evicted, restarts, after>>

Deny(f) ==
  /\ f \notin denied
  /\ denied' = denied \cup {f}
  /\ after' = after \cup {s \in Sessions : commit = s /\ work[s].file = f}
  /\ UNCHANGED <<tickets, nextId, commit, work, streams, stageVars, blobs, nodes, evicted, restarts>>

\* maintenance, every five minutes: over the cap, the oldest blobs without a
\* reference go, and no blob has one, since nothing in the server calls
\* add_ref.  (The times of blobs are left out: any may be the oldest.)
Stored == MapThenSumSet(LAMBDA f : Size[f], {f \in Files : blobs[f] # None})
evict_unreferenced_over(f) ==
  /\ CacheMax > 0 /\ blobs[f] # None /\ Stored > CacheMax
  /\ blobs' = [blobs EXCEPT ![f] = None]
  /\ evicted' = evicted \cup {f}
  /\ content' = [k \in Inodes |-> IF k = blobs[f] THEN "short" ELSE content[k]]
  /\ streams' = streams \ {blobs[f]} /\ shared' = shared \ {blobs[f]}
  /\ UNCHANGED <<tickets, nextId, commit, work, path, leftover, nodes, denied, restarts, after>>

\* The burrow stops and starts: the registry is empty and counts from 1.  The
\* staging files stay where they are, and what is in them is never read.
Restart ==
  /\ restarts < MaxRestarts /\ restarts' = restarts + 1
  /\ tickets' = [i \in Ids |-> None] /\ nextId' = 1 /\ commit' = None
  /\ work' = [s \in Sessions |-> None] /\ streams' = {}
  /\ leftover' = leftover \cup {i \in Ids : path[i] # None}
  /\ after' = {}
  /\ LET stored == {blobs[f] : f \in Files} IN
       /\ content' = [k \in Inodes |-> IF k \in stored THEN content[k] ELSE "short"]
       /\ shared' = shared \cap stored
  /\ UNCHANGED <<path, libraryVars>>

Serve(s) ==
  \/ \E f \in Files, n \in Names : OpenUpload(s, f, n)
  \/ \E n \in Names : OpenDownload(s, n)
  \/ \E i \in Ids : Put(s, i) \/ UploadFinish(s, i) \/ Abort(s, i)
  \/ \E k \in Surfaces, f \in Files, n \in Names : BringFile(s, k, f, n)
  \/ \E c \in Contents : PutWrite(s, c)
  \/ CreateStage(s) \/ OpenRefused(s) \/ InsertUpload(s) \/ InsertDownload(s)
  \/ CheckPasses(s) \/ CheckRefuses(s) \/ HashStage(s)
  \/ StoreBlob(s) \/ StoreFails(s) \/ Recheck(s) \/ AddFile(s) \/ AddRefused(s) \/ EndSession(s)

Next ==
  \/ \E s \in Sessions : Serve(s)
  \/ \E i \in Ids : EndDownload(i) \/ StreamOpen(i)
  \/ \E k \in Inodes : StreamEnd(k) \/ \E c \in Whole : StreamWrite(k, c)
  \/ \E n \in Names : Delete(n)
  \/ \E f \in Files : Deny(f) \/ evict_unreferenced_over(f)
  \/ Restart

Spec == Init /\ [][Next]_vars

-----------------------------------------------------------------------------
(* Properties.                                                             *)

\* No account keeps more than its quota, whichever surfaces its files come
\* in by and however many finish at once.
QuotaHeld == Quota > 0 => \A a \in Accounts : Used(a) <= Quota

\* The cap on an account's tickets is looked at before the lookups of an open
\* and the ticket is inserted after them.  It is passed by the other sessions
\* of the account that are in between, and by no more.
Opening(a) == {s \in Sessions : AccountOf[s] = a /\ \E step \in {"gate", "insert", "list"} : At(s, step)}
CapPassedOnlyByRacing ==
  Cap > 0 => \A a \in Accounts :
    Cardinality(Open(a)) + Cardinality(Opening(a))
      < Cap + Cardinality({s \in Sessions : AccountOf[s] = a})

\* The two limits of an account hold, the second but for opens that race.
LimitsHeld == QuotaHeld /\ CapPassedOnlyByRacing

\* A staging file belongs to a ticket or to the request that is making,
\* filing or removing it, unless the burrow stopped with it there.
StageOwned ==
  \A i \in Ids : path[i] # None =>
    \/ tickets[i] # None \/ i \in leftover
    \/ \E s \in Sessions : work[s] # None /\ work[s].id = i

\* Nothing is left behind: a ticket, its file and the request at work on it
\* are of a kind, and end together.
StagesSound == TypeOK /\ StageOwned

StoredOrSwept(f) == blobs[f] # None \/ (CacheMax > 0 /\ f \in evicted)

\* Every listed file is in the blob store, unless the cache has a cap and its
\* sweep removed the blob, which it does to listed files too; and what is
\* stored under a hash has that hash, unless somebody was still writing when
\* it was finished.
BlobIntact ==
  /\ \A n \in Names : nodes[n] # None => StoredOrSwept(nodes[n].file)
  /\ \A f \in Files : blobs[f] \in Inodes => content[blobs[f]] = f \/ blobs[f] \in shared

\* A denied file is listed only if it was denied after its upload took the
\* commit lock; a ZMODEM upload looks before it waits for the lock only.
DenialHonoured ==
  \A s \in Sessions : At(s, "add") /\ work[s].file \in denied =>
    s \in after \/ work[s].surface = "zmodem"
=============================================================================
