---------------------------- MODULE UploadsProofs ----------------------------
(***************************************************************************)
(* Uploads, for any number of sessions, accounts, files and restarts: the  *)
(* limits of an account hold, no staging file is left without an owner,    *)
(* what is stored under a hash has it, and a denial is honoured.           *)
(***************************************************************************)
EXTENDS Uploads, FiniteSetTheorems, WellFoundedInduction, TLAPS

-----------------------------------------------------------------------------
(* The invariant.                                                          *)

Filing == {"lock", "hash", "store"}
UnderLock == {"hash", "store", "recheck", "add"}

\* What a request carries fits its step: until it has its ticket, and if it
\* never had one, it has no staging file.
Carried(w) ==
  /\ w.at \in {"gate", "insert", "list", "put", "hash"} => w.surface = "ticket"
  /\ w.at = "recheck" => w.surface = "hotline"
  /\ w.at \notin {"list", "put"} => w.file \in Files /\ w.name \in Names
  /\ w.surface # "ticket" \/ w.at \in {"gate", "list", "put"} => w.id = None
  /\ w.surface # "ticket" \/ w.at \in {"gate", "list"} => w.inode = None
  /\ w.at = "put" => w.inode \in Inodes
  /\ w.surface = "ticket" /\ w.at \in {"insert", "add"} \cup Filing =>
       w.id \in Ids /\ w.inode \in Inodes
Shapes == \A s \in Sessions : work[s] # None => Carried(work[s])

\* The commit lock is held from the check to the row.
Locked == \A s \in Sessions : (work[s] # None /\ work[s].at \in UnderLock) <=> commit = s

\* An id is of one ticket or of one request, and was given out.
Numbered ==
  /\ \A i \in Ids : tickets[i] # None =>
       i < nextId /\ (tickets[i].upload => tickets[i].file \in Files /\ tickets[i].name \in Names)
  /\ \A s \in Sessions : work[s] # None /\ work[s].id # None =>
       work[s].id < nextId /\ tickets[work[s].id] = None
  /\ \A s, t \in Sessions :
       work[s] # None /\ work[t] # None /\ work[s].id # None /\ work[s].id = work[t].id => s = t

\* A file has one name: that of an id, or that of a hash.
Apart ==
  /\ \A i, j \in Ids : path[i] # None /\ path[i] = path[j] => i = j
  /\ \A i \in Ids, f \in Files : path[i] # None => blobs[f] # path[i]
  /\ \A f, g \in Files : blobs[f] \in Inodes /\ blobs[f] = blobs[g] => f = g

\* A request has its staging file until it is stored; then there is a blob,
\* unless the sweep comes between the two.
Placed ==
  \A s \in Sessions : work[s] # None =>
    /\ work[s].surface = "ticket" /\ work[s].at \in {"insert"} \cup Filing =>
         path[work[s].id] = work[s].inode
    /\ work[s].surface = "ticket" /\ work[s].at = "add" => path[work[s].id] = None
    /\ work[s].at \in {"recheck", "add"} => StoredOrSwept(work[s].file)

\* Staging files with no upload behind them are of an earlier life.
Left ==
  /\ \A i \in Ids : path[i] # None /\ i >= nextId => i \in leftover
  /\ \A i \in Ids : path[i] # None /\ tickets[i] # None /\ ~tickets[i].upload => i \in leftover

\* Whoever writes to a file that is being filed, or is a blob, was there when
\* it was finished.
Filed(k) ==
  \/ \E f \in Files : blobs[f] = k
  \/ \E s \in Sessions : work[s] # None /\ work[s].at \in Filing /\ work[s].inode = k
Writers == \A k \in Inodes : Filed(k) /\ Written(k) => k \in shared

\* A file that passed the hash still has it when it is stored.
Hashed ==
  \A s \in Sessions : work[s] # None /\ work[s].at = "store" /\ work[s].inode # None =>
    content[work[s].inode] = work[s].file \/ work[s].inode \in shared

\* From the lock on, a denied file was denied after it, but for the surfaces
\* that looked before; and after is of the holder of the lock only.
Denials ==
  /\ \A s \in Sessions : work[s] # None /\ work[s].at \in UnderLock /\ work[s].file \in denied =>
       \/ s \in after \/ work[s].surface = "zmodem"
       \/ work[s].surface = "hotline" /\ work[s].at \in {"store", "recheck"}
  /\ \A s \in after : commit = s

\* There is room for the file of whoever holds the lock.
Room == \A s \in Sessions : work[s] # None /\ work[s].at \in UnderLock => Fits(s, work[s].file)

-----------------------------------------------------------------------------
(* Types.                                                                  *)

\* A request that goes on keeps all it has but its step.
LEMMA GoesIs ==
  ASSUME TypeOK, NEW s \in Sessions, work[s] # None, NEW step \in Steps, Goes(s, step)
  PROVE  /\ work' \in [Sessions -> Work \cup {None}]
         /\ work'[s] \in Work /\ work'[s].at = step
         /\ work'[s].surface = work[s].surface /\ work'[s].file = work[s].file
         /\ work'[s].name = work[s].name /\ work'[s].id = work[s].id
         /\ work'[s].inode = work[s].inode
         /\ \A t \in Sessions : t # s => work'[t] = work[t]
<1>1. work[s] \in Work
  BY DEF TypeOK
<1>2. [work[s] EXCEPT !.at = step] \in Work
  BY <1>1 DEF Work
<1> QED
  BY <1>1, <1>2 DEF TypeOK, Goes, Work

\* Unlinking keeps the types of what it changes.
LEMMA UnlinkType ==
  ASSUME TypeOK, NEW ids, Unlink(ids)
  PROVE  /\ path' \in [Ids -> Inodes \cup {None}] /\ content' \in [Inodes -> Contents]
         /\ streams' \subseteq Inodes /\ shared' \subseteq Inodes
<1>1. "short" \in Contents
  BY DEF Contents
<1> QED
  BY <1>1 DEF TypeOK, Unlink

\* A request that is over leaves a table of requests.
LEMMA DoneType ==
  ASSUME TypeOK, NEW s \in Sessions, Done(s)
  PROVE  work' \in [Sessions -> Work \cup {None}]
BY DEF TypeOK, Done

\* A refused request unlinks its file and is over: the types stay.
LEMMA GiveUpType ==
  ASSUME TypeOK, NEW s \in Sessions, GiveUp(s), UNCHANGED libraryVars
  PROVE  TypeOK'
<1>1. work' \in [Sessions -> Work \cup {None}]
  BY DoneType DEF GiveUp
<1>2. /\ path' \in [Ids -> Inodes \cup {None}] /\ content' \in [Inodes -> Contents]
      /\ streams' \subseteq Inodes /\ shared' \subseteq Inodes
  BY UnlinkType DEF GiveUp
<1>3. /\ UNCHANGED <<tickets, nextId, leftover, restarts, blobs, nodes, denied, evicted>>
      /\ commit' = None /\ after' = after \ {s}
  BY DEF GiveUp, libraryVars
<1> QED
  BY <1>1, <1>2, <1>3 DEF TypeOK

\* The burrow starts with values of their types.
LEMMA TypeInit ==
  ASSUME Init
  PROVE  TypeOK
BY BoundsAssumption DEF Init, TypeOK, Ids, Contents

\* Every step keeps the types, if requests carry what their step needs.
LEMMA TypeStep ==
  ASSUME TypeOK, Shapes, [Next]_vars
  PROVE  TypeOK'
<1> USE DEF stageVars, libraryVars
<1>0. SUFFICES ASSUME Next PROVE TypeOK'
  BY DEF TypeOK, vars
<1>1. ASSUME NEW s \in Sessions, NEW f \in Files, NEW n \in Names, OpenUpload(s, f, n)
      PROVE  TypeOK'
  <2>1. [at |-> "gate", surface |-> "ticket", file |-> f, name |-> n,
         id |-> None, inode |-> None] \in Work
    BY DEF Work, Steps, Surfaces
  <2> QED
    BY <1>1, <2>1 DEF OpenUpload, TypeOK
<1>2. ASSUME NEW s \in Sessions, CreateStage(s)
      PROVE  TypeOK'
  <2>1. PICK k \in Inodes :
          /\ path' = [path EXCEPT ![nextId] = k]
          /\ content' = [content EXCEPT ![k] = "short"]
          /\ work' = [work EXCEPT ![s] =
               [work[s] EXCEPT !.at = "insert", !.id = nextId, !.inode = k]]
    BY <1>2 DEF CreateStage
  <2>2. work[s] \in Work /\ nextId \in Ids /\ nextId' = nextId + 1
    BY <1>2 DEF CreateStage, At, TypeOK
  <2>3. [work[s] EXCEPT !.at = "insert", !.id = nextId, !.inode = k] \in Work
    BY <2>2 DEF Work, Steps
  <2>4. work' \in [Sessions -> Work \cup {None}]
    BY <2>1, <2>3 DEF TypeOK
  <2>5. nextId' \in 1..(MaxOpens + 1)
    BY <2>2, BoundsAssumption DEF Ids
  <2>6. path' \in [Ids -> Inodes \cup {None}] /\ content' \in [Inodes -> Contents]
    BY <2>1, <2>2 DEF TypeOK, Contents
  <2> QED
    BY <1>2, <2>4, <2>5, <2>6 DEF CreateStage, TypeOK
<1>3. ASSUME NEW s \in Sessions, OpenRefused(s)
      PROVE  TypeOK'
  BY <1>3, DoneType DEF OpenRefused, TypeOK
<1>4. ASSUME NEW s \in Sessions, InsertUpload(s)
      PROVE  TypeOK'
  <2>1. work[s] \in Work
    BY <1>4 DEF InsertUpload, At, TypeOK
  <2>2. [session |-> s, upload |-> TRUE, file |-> work[s].file, name |-> work[s].name] \in Ticket
    BY <2>1 DEF Ticket, Work
  <2>3. tickets' \in [Ids -> Ticket \cup {None}]
    BY <1>4, <2>2 DEF InsertUpload, TypeOK
  <2> QED
    BY <1>4, <2>3, DoneType DEF InsertUpload, TypeOK
<1>5. ASSUME NEW s \in Sessions, NEW n \in Names, OpenDownload(s, n)
      PROVE  TypeOK'
  <2>1. [at |-> "list", surface |-> "ticket", file |-> None, name |-> None,
         id |-> None, inode |-> None] \in Work
    BY DEF Work, Steps, Surfaces
  <2> QED
    BY <1>5, <2>1 DEF OpenDownload, TypeOK
<1>6. ASSUME NEW s \in Sessions, InsertDownload(s)
      PROVE  TypeOK'
  <2>1. [session |-> s, upload |-> FALSE, file |-> None, name |-> None] \in Ticket
    BY DEF Ticket
  <2>2. tickets' \in [Ids -> Ticket \cup {None}] /\ nextId' \in 1..(MaxOpens + 1)
    BY <1>6, <2>1, BoundsAssumption DEF InsertDownload, TypeOK, Ids
  <2> QED
    BY <1>6, <2>2, DoneType DEF InsertDownload, TypeOK
<1>7. ASSUME NEW i \in Ids, EndDownload(i)
      PROVE  TypeOK'
  BY <1>7 DEF EndDownload, Drop, TypeOK
<1>8. ASSUME NEW s \in Sessions, NEW i \in Ids, Put(s, i)
      PROVE  TypeOK'
  <2>1. path[i] \in Inodes
    BY <1>8 DEF Put, TypeOK
  <2>2. [at |-> "put", surface |-> "ticket", file |-> None, name |-> None,
         id |-> None, inode |-> path[i]] \in Work
    BY <2>1 DEF Work, Steps, Surfaces
  <2> QED
    BY <1>8, <2>2 DEF Put, TypeOK
<1>9. ASSUME NEW s \in Sessions, NEW c \in Contents, PutWrite(s, c)
      PROVE  TypeOK'
  <2>1. content' \in [Inodes -> Contents]
    BY <1>9 DEF PutWrite, TypeOK
  <2> QED
    BY <1>9, <2>1, DoneType DEF PutWrite, TypeOK
<1>10. ASSUME NEW i \in Ids, StreamOpen(i)
      PROVE  TypeOK'
  BY <1>10 DEF StreamOpen, TypeOK
<1>11. ASSUME NEW k \in Inodes, NEW c \in Whole, StreamWrite(k, c)
      PROVE  TypeOK'
  BY <1>11 DEF StreamWrite, TypeOK, Contents
<1>12. ASSUME NEW k \in Inodes, StreamEnd(k)
      PROVE  TypeOK'
  BY <1>12 DEF StreamEnd, TypeOK
<1>13. ASSUME NEW s \in Sessions, NEW i \in Ids, UploadFinish(s, i)
      PROVE  TypeOK'
  <2>1. tickets[i] \in Ticket /\ tickets' \in [Ids -> Ticket \cup {None}]
    BY <1>13 DEF UploadFinish, Mine, Drop, TypeOK
  <2>2. UNCHANGED <<nextId, commit, leftover, blobs, nodes, denied, evicted, restarts, after>>
    BY <1>13 DEF UploadFinish
  <2>3. CASE path[i] # None /\ content[path[i]] # "short"
    <3>1. path[i] \in Inodes
      BY <2>3 DEF TypeOK
    <3>2. [at |-> "lock", surface |-> "ticket", file |-> tickets[i].file,
           name |-> tickets[i].name, id |-> i, inode |-> path[i]] \in Work
      BY <2>1, <3>1 DEF Work, Ticket, Steps, Surfaces
    <3>3. work' \in [Sessions -> Work \cup {None}] /\ shared' \subseteq Inodes
      BY <1>13, <2>3, <3>1, <3>2 DEF UploadFinish, TypeOK
    <3>4. UNCHANGED <<path, content, streams>>
      BY <1>13, <2>3 DEF UploadFinish
    <3> QED
      BY <2>1, <2>2, <3>3, <3>4 DEF TypeOK
  <2>4. CASE ~(path[i] # None /\ content[path[i]] # "short")
    <3>1. Unlink({i}) /\ UNCHANGED work
      BY <1>13, <2>4 DEF UploadFinish
    <3> QED
      BY <2>1, <2>2, <3>1, UnlinkType DEF TypeOK
  <2> QED
    BY <2>3, <2>4
<1>14. ASSUME NEW s \in Sessions, NEW k \in Surfaces, NEW f \in Files, NEW n \in Names,
              BringFile(s, k, f, n)
      PROVE  TypeOK'
  <2>1. [at |-> "lock", surface |-> k, file |-> f, name |-> n,
         id |-> None, inode |-> None] \in Work
    BY DEF Work, Steps
  <2> QED
    BY <1>14, <2>1 DEF BringFile, TypeOK
<1>15. ASSUME NEW s \in Sessions, CheckPasses(s)
      PROVE  TypeOK'
  <2>1. work' \in [Sessions -> Work \cup {None}]
    BY <1>15, GoesIs DEF CheckPasses, At, Steps
  <2> QED
    BY <1>15, <2>1 DEF CheckPasses, TypeOK
<1>16. ASSUME NEW s \in Sessions, CheckRefuses(s)
      PROVE  TypeOK'
  BY <1>16, GiveUpType DEF CheckRefuses
<1>17. ASSUME NEW s \in Sessions, HashStage(s)
      PROVE  TypeOK'
  <2>1. CASE Goes(s, "store") /\ UNCHANGED <<tickets, nextId, commit, streams, stageVars, restarts, after>>
    <3>1. work' \in [Sessions -> Work \cup {None}]
      BY <1>17, <2>1, GoesIs DEF HashStage, At, Steps
    <3> QED
      BY <1>17, <2>1, <3>1 DEF HashStage, TypeOK
  <2>2. CASE GiveUp(s)
    BY <1>17, <2>2, GiveUpType DEF HashStage
  <2> QED
    BY <1>17, <2>1, <2>2 DEF HashStage
<1>18. ASSUME NEW s \in Sessions, StoreBlob(s)
      PROVE  TypeOK'
  <2>1. work' \in [Sessions -> Work \cup {None}]
    BY <1>18, GoesIs DEF StoreBlob, At, Steps
  <2>2. work[s] \in Work
    BY <1>18 DEF StoreBlob, At, TypeOK
  <2>3. /\ path' \in [Ids -> Inodes \cup {None}] /\ content' \in [Inodes -> Contents]
        /\ streams' \subseteq Inodes /\ shared' \subseteq Inodes
    <3>1. CASE blobs[work[s].file] # None
      BY <1>18, <3>1, UnlinkType DEF StoreBlob
    <3>2. CASE blobs[work[s].file] = None
      BY <1>18, <3>2 DEF StoreBlob, TypeOK
    <3> QED
      BY <3>1, <3>2
  <2>4. blobs' \in [Files -> Inodes \cup {Own, None}]
    <3>1. CASE blobs[work[s].file] # None
      BY <1>18, <3>1 DEF StoreBlob, TypeOK
    <3>2. CASE blobs[work[s].file] = None
      <4>1. (IF work[s].inode = None THEN Own ELSE work[s].inode) \in Inodes \cup {Own, None}
        BY <2>2 DEF Work
      <4> QED
        BY <1>18, <3>2, <4>1 DEF StoreBlob, TypeOK
    <3> QED
      BY <3>1, <3>2
  <2>5. evicted' \subseteq Files
    BY <1>18 DEF StoreBlob, TypeOK
  <2> QED
    BY <1>18, <2>1, <2>3, <2>4, <2>5 DEF StoreBlob, TypeOK
<1>19. ASSUME NEW s \in Sessions, StoreFails(s)
      PROVE  TypeOK'
  BY <1>19, GiveUpType DEF StoreFails
<1>20. ASSUME NEW s \in Sessions, Recheck(s)
      PROVE  TypeOK'
  <2>1. CASE Goes(s, "add") /\ UNCHANGED <<tickets, nextId, commit, streams, stageVars, restarts, after>>
    <3>1. work' \in [Sessions -> Work \cup {None}]
      BY <1>20, <2>1, GoesIs DEF Recheck, At, Steps
    <3> QED
      BY <1>20, <2>1, <3>1 DEF Recheck, TypeOK
  <2>2. CASE GiveUp(s)
    BY <1>20, <2>2, GiveUpType DEF Recheck
  <2> QED
    BY <1>20, <2>1, <2>2 DEF Recheck
<1>21. ASSUME NEW s \in Sessions, AddFile(s)
      PROVE  TypeOK'
  <2>1. PICK n \in Names : nodes' = [nodes EXCEPT ![n] = [account |-> AccountOf[s], file |-> work[s].file]]
    BY <1>21 DEF AddFile
  <2>2. nodes' \in [Names -> Row \cup {None}]
    <3>1. work[s].file \in Files
      BY <1>21 DEF AddFile, At, Shapes, Carried
    <3>2. [account |-> AccountOf[s], file |-> work[s].file] \in Row
      BY <3>1 DEF Row, Accounts
    <3> QED
      BY <2>1, <3>2 DEF TypeOK
  <2> QED
    BY <1>21, <2>2, DoneType DEF AddFile, TypeOK
<1>22. ASSUME NEW s \in Sessions, AddRefused(s)
      PROVE  TypeOK'
  BY <1>22, GiveUpType DEF AddRefused
<1>23. ASSUME NEW s \in Sessions, NEW i \in Ids, Abort(s, i)
      PROVE  TypeOK'
  BY <1>23, UnlinkType DEF Abort, Drop, TypeOK
<1>24. ASSUME NEW s \in Sessions, EndSession(s)
      PROVE  TypeOK'
  BY <1>24, UnlinkType DEF EndSession, TypeOK
<1>25. ASSUME NEW n \in Names, Delete(n)
      PROVE  TypeOK'
  BY <1>25 DEF Delete, TypeOK
<1>26. ASSUME NEW f \in Files, Deny(f)
      PROVE  TypeOK'
  BY <1>26 DEF Deny, TypeOK
<1>27. ASSUME Restart
      PROVE  TypeOK'
  <2>1. nextId' \in 1..(MaxOpens + 1) /\ restarts' \in 0..MaxRestarts
    BY <1>27, BoundsAssumption DEF Restart, TypeOK
  <2>2. content' \in [Inodes -> Contents] /\ shared' \subseteq Inodes /\ leftover' \subseteq Ids
    BY <1>27 DEF Restart, TypeOK, Contents
  <2> QED
    BY <1>27, <2>1, <2>2 DEF Restart, TypeOK
<1>28. ASSUME NEW f \in Files, evict_unreferenced_over(f)
      PROVE  TypeOK'
  BY <1>28 DEF evict_unreferenced_over, TypeOK, Contents
<1> QED
  BY <1>0, <1>1, <1>2, <1>3, <1>4, <1>5, <1>6, <1>7, <1>8, <1>9, <1>10, <1>11, <1>12, <1>13,
     <1>14, <1>15, <1>16, <1>17, <1>18, <1>19, <1>20, <1>21, <1>22, <1>23, <1>24, <1>25, <1>26, <1>27,
     <1>28 DEF Next, Serve

-----------------------------------------------------------------------------
(* The steps, by what they change.                                         *)

Becomes(s, w) == work' = [work EXCEPT ![s] = w]

\* A request begins: an open, a chunk or a file of another surface.
Begins(s, w) ==
  /\ work[s] = None /\ w \in Work /\ Carried(w) /\ Becomes(s, w) /\ w.id = None
  /\ \/ w.at \in {"gate", "list"} /\ UnderCap(s) /\ w.inode = None
     \/ w.at = "lock" /\ w.inode = None
     \/ w.at = "put" /\ \E i \in Ids : tickets[i] # None /\ tickets[i].upload /\ w.inode = path[i]
  /\ UNCHANGED <<tickets, nextId, commit, streams, path, content, shared, leftover,
                 blobs, nodes, denied, evicted, restarts, after>>

\* It passes a check.
Advances(s, w) ==
  LET v == work[s] IN
  /\ v \in Work /\ w \in Work /\ Becomes(s, w)
  /\ w.surface = v.surface /\ w.file = v.file /\ w.name = v.name /\ w.id = v.id /\ w.inode = v.inode
  /\ \/ /\ v.at = "lock" /\ commit = None /\ commit' = s /\ Fits(s, v.file)
        /\ v.surface \in {"ticket", "inline", "pull"} => v.file \notin denied
        /\ w.at = IF v.surface = "ticket" THEN "hash" ELSE "store"
     \/ v.at = "hash" /\ w.at = "store" /\ content[v.inode] = v.file /\ commit' = commit
     \/ v.at = "recheck" /\ w.at = "add" /\ v.file \notin denied /\ commit' = commit
  /\ UNCHANGED <<tickets, nextId, streams, path, content, shared, leftover,
                 blobs, nodes, denied, evicted, restarts, after>>

\* Its upload ends without a row.
Fails(s) ==
  /\ work[s] \in Work /\ work[s].at \in {"lock"} \cup UnderLock
  /\ work[s].at = "lock" => commit = None
  /\ GiveUp(s) /\ UNCHANGED <<blobs, nodes, denied, evicted>>

\* Tickets end, and the staging files of the uploads among them.
Sweeps(gone) ==
  /\ \A i \in gone : i \in Ids /\ tickets[i] # None
  /\ tickets' = [i \in Ids |-> IF i \in gone THEN None ELSE tickets[i]]
  /\ Unlink({i \in gone : tickets[i].upload})
  /\ UNCHANGED <<nextId, commit, work, leftover, blobs, nodes, denied, evicted, restarts, after>>

\* UploadFinish of a staging file that is long enough.
Finishes(s, i) ==
  /\ work[s] = None /\ tickets[i] # None /\ tickets[i].upload
  /\ path[i] # None
  /\ tickets' = [tickets EXCEPT ![i] = None]
  /\ Becomes(s, [at |-> "lock", surface |-> "ticket", file |-> tickets[i].file,
                 name |-> tickets[i].name, id |-> i, inode |-> path[i]])
  /\ shared' = IF Written(path[i]) THEN shared \cup {path[i]} ELSE shared
  /\ UNCHANGED <<nextId, commit, path, content, streams, leftover,
                 blobs, nodes, denied, evicted, restarts, after>>

\* The file is stored already, or becomes the blob.
Repeats(s, w) ==
  LET v == work[s] IN
  /\ v \in Work /\ w \in Work /\ Becomes(s, w) /\ v.at = "store"
  /\ w.surface = v.surface /\ w.file = v.file /\ w.name = v.name /\ w.id = v.id /\ w.inode = v.inode
  /\ w.at = IF v.surface = "hotline" THEN "recheck" ELSE "add"
  /\ blobs[v.file] # None /\ Unlink({v.id})
  /\ UNCHANGED <<tickets, nextId, commit, leftover, blobs, nodes, denied, evicted, restarts, after>>
Stores(s, w) ==
  LET v == work[s] IN
  /\ v \in Work /\ w \in Work /\ Becomes(s, w) /\ v.at = "store"
  /\ w.surface = v.surface /\ w.file = v.file /\ w.name = v.name /\ w.id = v.id /\ w.inode = v.inode
  /\ w.at = IF v.surface = "hotline" THEN "recheck" ELSE "add"
  /\ blobs[v.file] = None
  /\ blobs' = [blobs EXCEPT ![v.file] = IF v.inode = None THEN Own ELSE v.inode]
  /\ path' = [i \in Ids |-> IF i = v.id THEN None ELSE path[i]]
  /\ evicted' = evicted \ {v.file}
  /\ UNCHANGED <<tickets, nextId, commit, content, streams, shared, leftover,
                 nodes, denied, restarts, after>>

\* The id and the staging file of an upload.
Creates(s, k, w) ==
  LET v == work[s] IN
  /\ v \in Work /\ w \in Work /\ Becomes(s, w) /\ v.at = "gate" /\ w.at = "insert"
  /\ w.surface = v.surface /\ w.file = v.file /\ w.name = v.name /\ w.id = nextId /\ w.inode = k
  /\ nextId \in Ids /\ nextId' = nextId + 1 /\ leftover' = leftover \ {nextId}
  /\ k = path[nextId] \/ (path[nextId] = None /\ Fresh(k))
  /\ path' = [path EXCEPT ![nextId] = k]
  /\ content' = [content EXCEPT ![k] = "short"]
  /\ UNCHANGED <<tickets, commit, streams, shared, blobs, nodes, denied, evicted, restarts, after>>

\* Nothing of the tickets, the requests and the names of files changes.
Beside ==
  \/ \E i \in Ids : StreamOpen(i)
  \/ \E k \in Inodes : StreamEnd(k) \/ \E c \in Whole : StreamWrite(k, c)
  \/ \E n \in Names : Delete(n)
  \/ \E f \in Files : Deny(f)

\* Every step is one of these.
Step ==
  \/ \E s \in Sessions, w \in Work : Begins(s, w) \/ Advances(s, w) \/ Repeats(s, w) \/ Stores(s, w)
  \/ \E s \in Sessions : Fails(s)
  \/ \E gone \in SUBSET Ids : Sweeps(gone)
  \/ \E s \in Sessions, i \in Ids : Finishes(s, i)
  \/ \E s \in Sessions, k \in Inodes, w \in Work : Creates(s, k, w)
  \/ \E s \in Sessions : OpenRefused(s) \/ InsertUpload(s) \/ InsertDownload(s) \/ AddFile(s)
  \/ \E s \in Sessions, c \in Contents : PutWrite(s, c)
  \/ \E f \in Files : evict_unreferenced_over(f)
  \/ Beside
  \/ Restart

\* What writers, deletions and denials do leaves requests, tickets and names alone.
LEMMA BesideIs ==
  ASSUME Beside
  PROVE  UNCHANGED <<tickets, nextId, commit, work, path, blobs, evicted, leftover, shared, restarts>>
BY DEF Beside, StreamOpen, StreamEnd, StreamWrite, Delete, Deny, stageVars, libraryVars

\* Every action is a step of one of these kinds.
LEMMA StepCases ==
  ASSUME TypeOK, Next
  PROVE  Step
<1> USE DEF stageVars, libraryVars
<1> USE RecordsAssumption
<1>1. ASSUME NEW s \in Sessions, NEW f \in Files, NEW n \in Names, OpenUpload(s, f, n)
      PROVE  \E w \in Work : Begins(s, w)
  <2> DEFINE w == [at |-> "gate", surface |-> "ticket", file |-> f, name |-> n,
                   id |-> None, inode |-> None]
  <2>1. w \in Work
    BY DEF Work, Steps, Surfaces
  <2>2. Carried(w)
    BY DEF Carried, Filing
  <2>3. Begins(s, w)
    BY <1>1, <2>1, <2>2 DEF OpenUpload, Idle, Begins, Becomes
  <2> QED
    BY <2>1, <2>3
<1>2. ASSUME NEW s \in Sessions, NEW n \in Names, OpenDownload(s, n)
      PROVE  \E w \in Work : Begins(s, w)
  <2> DEFINE w == [at |-> "list", surface |-> "ticket", file |-> None, name |-> None,
                   id |-> None, inode |-> None]
  <2>1. w \in Work
    BY DEF Work, Steps, Surfaces
  <2>2. Carried(w)
    BY DEF Carried, Filing
  <2>3. Begins(s, w)
    BY <1>2, <2>1, <2>2 DEF OpenDownload, Idle, Begins, Becomes
  <2> QED
    BY <2>1, <2>3
<1>3. ASSUME NEW s \in Sessions, NEW i \in Ids, Put(s, i)
      PROVE  \E w \in Work : Begins(s, w)
  <2> DEFINE w == [at |-> "put", surface |-> "ticket", file |-> None, name |-> None,
                   id |-> None, inode |-> path[i]]
  <2>1. path[i] \in Inodes
    BY <1>3 DEF Put, TypeOK
  <2>2. w \in Work
    BY <2>1 DEF Work, Steps, Surfaces
  <2>3. Carried(w)
    BY <2>1 DEF Carried, Filing
  <2>4. Begins(s, w)
    BY <1>3, <2>2, <2>3 DEF Put, Mine, Idle, Begins, Becomes
  <2> QED
    BY <2>2, <2>4
<1>4. ASSUME NEW s \in Sessions, NEW k \in Surfaces, NEW f \in Files, NEW n \in Names,
             BringFile(s, k, f, n)
      PROVE  \E w \in Work : Begins(s, w)
  <2> DEFINE w == [at |-> "lock", surface |-> k, file |-> f, name |-> n,
                   id |-> None, inode |-> None]
  <2>1. w \in Work
    BY DEF Work, Steps
  <2>2. Carried(w)
    BY <1>4 DEF Carried, Filing, BringFile
  <2>3. Begins(s, w)
    BY <1>4, <2>1, <2>2 DEF BringFile, Idle, Begins, Becomes
  <2> QED
    BY <2>1, <2>3
<1>5. ASSUME NEW s \in Sessions, CheckPasses(s)
      PROVE  \E w \in Work : Advances(s, w)
  <2> DEFINE w == work'[s]
  <2>1. work[s] \in Work /\ work[s].at = "lock" /\ work[s] # None
    BY <1>5 DEF CheckPasses, At, TypeOK
  <2>2. /\ w \in Work /\ w.at = IF work[s].surface = "ticket" THEN "hash" ELSE "store"
        /\ w.surface = work[s].surface /\ w.file = work[s].file
        /\ w.name = work[s].name /\ w.id = work[s].id /\ w.inode = work[s].inode
    BY <1>5, <2>1, GoesIs DEF CheckPasses, Steps
  <2>3. Becomes(s, w)
    BY <1>5 DEF CheckPasses, Goes, Becomes, TypeOK
  <2>4. Advances(s, w)
    BY <1>5, <2>1, <2>2, <2>3 DEF CheckPasses, Advances
  <2> QED
    BY <2>2, <2>4
<1>6. ASSUME NEW s \in Sessions, HashStage(s)
      PROVE  Fails(s) \/ \E w \in Work : Advances(s, w)
  <2> DEFINE w == work'[s]
  <2>1. work[s] \in Work /\ work[s].at = "hash" /\ work[s] # None
    BY <1>6 DEF HashStage, At, TypeOK
  <2>2. CASE GiveUp(s)
    BY <1>6, <2>1, <2>2 DEF HashStage, Fails, UnderLock
  <2>3. CASE content[work[s].inode] = work[s].file /\ Goes(s, "store")
             /\ UNCHANGED <<tickets, nextId, commit, streams, stageVars, restarts, after>>
    <3>1. /\ w \in Work /\ w.at = "store"
          /\ w.surface = work[s].surface /\ w.file = work[s].file
          /\ w.name = work[s].name /\ w.id = work[s].id /\ w.inode = work[s].inode
      BY <2>1, <2>3, GoesIs DEF Steps
    <3>2. Becomes(s, w)
      BY <2>3 DEF Goes, Becomes, TypeOK
    <3>3. Advances(s, w)
      BY <1>6, <2>1, <2>3, <3>1, <3>2 DEF HashStage, Advances
    <3> QED
      BY <3>1, <3>3
  <2> QED
    BY <1>6, <2>2, <2>3 DEF HashStage
<1>7. ASSUME NEW s \in Sessions, Recheck(s)
      PROVE  Fails(s) \/ \E w \in Work : Advances(s, w)
  <2> DEFINE w == work'[s]
  <2>1. work[s] \in Work /\ work[s].at = "recheck" /\ work[s] # None
    BY <1>7 DEF Recheck, At, TypeOK
  <2>2. CASE GiveUp(s)
    BY <1>7, <2>1, <2>2 DEF Recheck, Fails, UnderLock
  <2>3. CASE work[s].file \notin denied /\ Goes(s, "add")
             /\ UNCHANGED <<tickets, nextId, commit, streams, stageVars, restarts, after>>
    <3>1. /\ w \in Work /\ w.at = "add"
          /\ w.surface = work[s].surface /\ w.file = work[s].file
          /\ w.name = work[s].name /\ w.id = work[s].id /\ w.inode = work[s].inode
      BY <2>1, <2>3, GoesIs DEF Steps
    <3>2. Becomes(s, w)
      BY <2>3 DEF Goes, Becomes, TypeOK
    <3>3. Advances(s, w)
      BY <1>7, <2>1, <2>3, <3>1, <3>2 DEF Recheck, Advances
    <3> QED
      BY <3>1, <3>3
  <2> QED
    BY <1>7, <2>2, <2>3 DEF Recheck
<1>8. ASSUME NEW s \in Sessions, StoreBlob(s)
      PROVE  \E w \in Work : Repeats(s, w) \/ Stores(s, w)
  <2> DEFINE w == work'[s]
  <2>1. work[s] \in Work /\ work[s].at = "store" /\ work[s] # None
    BY <1>8 DEF StoreBlob, At, TypeOK
  <2>2. /\ w \in Work /\ w.at = IF work[s].surface = "hotline" THEN "recheck" ELSE "add"
        /\ w.surface = work[s].surface /\ w.file = work[s].file
        /\ w.name = work[s].name /\ w.id = work[s].id /\ w.inode = work[s].inode
    BY <1>8, <2>1, GoesIs DEF StoreBlob, Steps
  <2>3. Becomes(s, w)
    BY <1>8 DEF StoreBlob, Goes, Becomes, TypeOK
  <2>4. CASE blobs[work[s].file] # None
    <3>1. Repeats(s, w)
      BY <1>8, <2>1, <2>2, <2>3, <2>4 DEF StoreBlob, Repeats
    <3> QED
      BY <2>2, <3>1
  <2>5. CASE blobs[work[s].file] = None
    <3>1. Stores(s, w)
      BY <1>8, <2>1, <2>2, <2>3, <2>5 DEF StoreBlob, Stores
    <3> QED
      BY <2>2, <3>1
  <2> QED
    BY <2>4, <2>5
<1>9. ASSUME NEW s \in Sessions, CheckRefuses(s) \/ StoreFails(s) \/ AddRefused(s)
      PROVE  Fails(s)
  BY <1>9 DEF CheckRefuses, StoreFails, AddRefused, Fails, At, UnderLock, TypeOK
<1>10. ASSUME NEW s \in Sessions, CreateStage(s)
      PROVE  \E k \in Inodes, w \in Work : Creates(s, k, w)
  <2>1. PICK k \in Inodes :
          /\ IF path[nextId] # None THEN k = path[nextId]
             ELSE Fresh(k) /\ \A j \in Inodes : Fresh(j) => k <= j
          /\ path' = [path EXCEPT ![nextId] = k]
          /\ content' = [content EXCEPT ![k] = "short"]
          /\ work' = [work EXCEPT ![s] =
               [work[s] EXCEPT !.at = "insert", !.id = nextId, !.inode = k]]
    BY <1>10 DEF CreateStage
  <2> DEFINE w == [work[s] EXCEPT !.at = "insert", !.id = nextId, !.inode = k]
  <2>2. work[s] \in Work /\ nextId \in Ids /\ work[s].at = "gate"
    BY <1>10 DEF CreateStage, At, TypeOK
  <2>3. /\ w \in Work /\ w.at = "insert" /\ w.surface = work[s].surface /\ w.file = work[s].file
        /\ w.name = work[s].name /\ w.id = nextId /\ w.inode = k
    BY <2>2 DEF Work, Steps
  <2>4. Becomes(s, w)
    BY <2>1 DEF Becomes
  <2>5. k = path[nextId] \/ (path[nextId] = None /\ Fresh(k))
    <3>1. ASSUME path[nextId] # None PROVE k = path[nextId]
      BY <2>1, <3>1
    <3>2. ASSUME path[nextId] = None PROVE Fresh(k)
      BY <2>1, <3>2 DEF Fresh
    <3> QED
      BY <3>1, <3>2
  <2> HIDE DEF w
  <2>6. Creates(s, k, w)
    BY <1>10, <2>1, <2>2, <2>3, <2>4, <2>5 DEF CreateStage, Creates
  <2> QED
    BY <2>3, <2>6
<1>11. ASSUME NEW s \in Sessions, NEW i \in Ids, UploadFinish(s, i)
      PROVE  Finishes(s, i) \/ Sweeps({i})
  <2>1. tickets[i] # None /\ tickets[i].upload /\ work[s] = None
    BY <1>11 DEF UploadFinish, Mine, Idle
  <2>2. CASE path[i] # None /\ content[path[i]] # "short"
    BY <1>11, <2>1, <2>2 DEF UploadFinish, Drop, Finishes, Becomes
  <2>3. CASE ~(path[i] # None /\ content[path[i]] # "short")
    <3>1. Unlink({i}) /\ UNCHANGED work
      BY <1>11, <2>3 DEF UploadFinish
    <3>2. {j \in {i} : tickets[j].upload} = {i}
      BY <2>1
    <3>3. tickets' = [j \in Ids |-> IF j \in {i} THEN None ELSE tickets[j]]
      BY <1>11 DEF UploadFinish, Drop, TypeOK
    <3> QED
      BY <1>11, <2>1, <3>1, <3>2, <3>3 DEF UploadFinish, Sweeps
  <2> QED
    BY <2>2, <2>3
<1>12. ASSUME NEW i \in Ids, EndDownload(i)
      PROVE  Sweeps({i})
  <2>1. {j \in {i} : tickets[j].upload} = {}
    BY <1>12 DEF EndDownload
  <2>2. tickets' = [j \in Ids |-> IF j \in {i} THEN None ELSE tickets[j]]
    BY <1>12 DEF EndDownload, Drop, TypeOK
  <2>3. Unlink({})
    BY <1>12 DEF EndDownload, Unlink, TypeOK
  <2> QED
    BY <1>12, <2>1, <2>2, <2>3 DEF EndDownload, Sweeps
<1>13. ASSUME NEW s \in Sessions, NEW i \in Ids, Abort(s, i)
      PROVE  Sweeps({i})
  <2>1. {j \in {i} : tickets[j].upload} = IF tickets[i].upload THEN {i} ELSE {}
    OBVIOUS
  <2>2. tickets' = [j \in Ids |-> IF j \in {i} THEN None ELSE tickets[j]]
    BY <1>13 DEF Abort, Drop, TypeOK
  <2> QED
    BY <1>13, <2>1, <2>2 DEF Abort, Sweeps
<1>14. ASSUME NEW s \in Sessions, EndSession(s)
      PROVE  \E gone \in SUBSET Ids : Sweeps(gone)
  <2> DEFINE gone == {i \in Ids : tickets[i] # None /\ tickets[i].session = s}
  <2>1. Sweeps(gone)
    BY <1>14 DEF EndSession, Sweeps
  <2>2. gone \in SUBSET Ids
    OBVIOUS
  <2> QED
    BY <2>1, <2>2
<1>15. ASSUME NEW i \in Ids, Sweeps({i})
      PROVE  \E gone \in SUBSET Ids : Sweeps(gone)
  BY <1>15
<1>16. ASSUME NEW s \in Sessions, Serve(s)
      PROVE  Step
  BY <1>16, <1>1, <1>2, <1>3, <1>4, <1>5, <1>6, <1>7, <1>8, <1>9, <1>10, <1>11, <1>13, <1>14,
     <1>15, Zenon DEF Serve, Step
<1> QED
  BY <1>12, <1>15, <1>16, Zenon DEF Next, Step, Beside

\* What becomes of the other requests: nothing.
LEMMA BecomesIs ==
  ASSUME TypeOK, NEW s \in Sessions, NEW w, Becomes(s, w)
  PROVE  work'[s] = w /\ \A t \in Sessions : t # s => work'[t] = work[t]
BY DEF TypeOK, Becomes

\* The sweep removes one blob, and leaves everything else alone.
LEMMA EvictIs ==
  ASSUME TypeOK, NEW f \in Files, evict_unreferenced_over(f)
  PROVE  /\ UNCHANGED <<tickets, nextId, commit, work, path, leftover, nodes, denied, restarts, after>>
         /\ blobs'[f] = None /\ \A g \in Files : g # f => blobs'[g] = blobs[g]
         /\ \A k \in Inodes : k # blobs[f] =>
              /\ content'[k] = content[k]
              /\ k \in streams' <=> k \in streams
              /\ k \in shared' <=> k \in shared
         /\ \A g \in Files : StoredOrSwept(g) => StoredOrSwept(g)'
BY DEF evict_unreferenced_over, TypeOK, StoredOrSwept

\* Unlinking empties the files of the ids, and leaves the others alone.
LEMMA UnlinkIs ==
  ASSUME TypeOK, NEW ids, Unlink(ids)
  PROVE  /\ \A i \in Ids : i \in ids => path'[i] = None
         /\ \A i \in Ids : i \notin ids => path'[i] = path[i]
         /\ \A k \in Inodes : (\E i \in Ids : i \in ids /\ path[i] = k) =>
              k \notin streams' /\ k \notin shared'
         /\ \A k \in Inodes : ~(\E i \in Ids : i \in ids /\ path[i] = k) =>
              /\ content'[k] = content[k]
              /\ k \in streams' <=> k \in streams
              /\ k \in shared' <=> k \in shared
BY DEF Unlink

-----------------------------------------------------------------------------
(* Requests, the lock and the ids.                                         *)

\* Requests go on carrying what their step needs.
LEMMA ShapesStep ==
  ASSUME TypeOK, Shapes, Numbered, Step
  PROVE  Shapes'
<1> USE RecordsAssumption DEF stageVars, libraryVars
<1>1. ASSUME NEW s \in Sessions, NEW w \in Work, Becomes(s, w), Carried(w)
      PROVE  Shapes'
  BY <1>1, BecomesIs DEF Shapes
<1>2. ASSUME NEW s \in Sessions, Done(s)
      PROVE  Shapes'
  BY <1>2 DEF Shapes, Done, TypeOK
<1>3. ASSUME UNCHANGED work
      PROVE  Shapes'
  BY <1>3 DEF Shapes
<1>4. ASSUME NEW s \in Sessions, work[s] \in Work
      PROVE  Carried(work[s])
  BY <1>4 DEF Shapes
<1>5. ASSUME NEW s \in Sessions, NEW w \in Work, Begins(s, w)
      PROVE  Shapes'
  BY <1>1, <1>5 DEF Begins
<1>6. ASSUME NEW s \in Sessions, NEW w \in Work, Advances(s, w) \/ Repeats(s, w) \/ Stores(s, w)
      PROVE  Shapes'
  <2>1. Becomes(s, w) /\ Carried(work[s])
    BY <1>4, <1>6 DEF Advances, Repeats, Stores
  <2>2. Carried(w)
    BY <1>6, <2>1 DEF Carried, Filing, Advances, Repeats, Stores, Work, Surfaces
  <2> QED
    BY <1>1, <2>1, <2>2
<1>7. ASSUME NEW s \in Sessions, NEW k \in Inodes, NEW w \in Work, Creates(s, k, w)
      PROVE  Shapes'
  <2>1. Becomes(s, w) /\ Carried(work[s])
    BY <1>4, <1>7 DEF Creates
  <2>2. Carried(w)
    BY <1>7, <2>1 DEF Carried, Filing, Creates
  <2> QED
    BY <1>1, <2>1, <2>2
<1>8. ASSUME NEW s \in Sessions, NEW i \in Ids, Finishes(s, i)
      PROVE  Shapes'
  <2> DEFINE w == [at |-> "lock", surface |-> "ticket", file |-> tickets[i].file,
                   name |-> tickets[i].name, id |-> i, inode |-> path[i]]
  <2>1. tickets[i].file \in Files /\ tickets[i].name \in Names /\ path[i] \in Inodes
    BY <1>8 DEF Finishes, Numbered, TypeOK
  <2>2. w \in Work /\ Carried(w)
    BY <2>1 DEF Work, Steps, Surfaces, Carried, Filing
  <2>3. Becomes(s, w)
    BY <1>8 DEF Finishes
  <2> HIDE DEF w
  <2> QED
    BY <1>1, <2>2, <2>3
<1>9. ASSUME NEW s \in Sessions, Fails(s) \/ OpenRefused(s) \/ InsertUpload(s) \/ InsertDownload(s) \/ AddFile(s)
      PROVE  Shapes'
  BY <1>2, <1>9 DEF Fails, GiveUp, OpenRefused, InsertUpload, InsertDownload, AddFile
<1>10. ASSUME NEW s \in Sessions, NEW c \in Contents, PutWrite(s, c)
      PROVE  Shapes'
  BY <1>2, <1>10 DEF PutWrite
<1>11. ASSUME NEW gone \in SUBSET Ids, Sweeps(gone)
      PROVE  Shapes'
  BY <1>3, <1>11 DEF Sweeps
<1>12. ASSUME Beside
      PROVE  Shapes'
  BY <1>3, <1>12, BesideIs
<1>13. ASSUME Restart
      PROVE  Shapes'
  BY <1>13 DEF Restart, Shapes
<1>14. ASSUME NEW f \in Files, evict_unreferenced_over(f)
      PROVE  Shapes'
  BY <1>3, <1>14, EvictIs
<1> QED
  BY <1>5, <1>6, <1>7, <1>8, <1>9, <1>10, <1>11, <1>12, <1>13, <1>14 DEF Step

\* The commit lock changes hands only when its holder is done.
LEMMA LockedStep ==
  ASSUME TypeOK, Shapes, Locked, Step
  PROVE  Locked'
<1> USE RecordsAssumption, SessionsAssumption DEF stageVars, libraryVars
<1> DEFINE Holds(v) == v # None /\ v.at \in UnderLock
<1>1. ASSUME NEW s \in Sessions, NEW w, Becomes(s, w), commit' = commit,
             Holds(w) <=> Holds(work[s])
      PROVE  Locked'
  BY <1>1, BecomesIs DEF Locked
<1>2. ASSUME NEW s \in Sessions, Becomes(s, None), commit' = None,
             work[s] # None, ~Holds(work[s]) => commit = None
      PROVE  Locked'
  BY <1>2, BecomesIs DEF Locked
<1>3. ASSUME UNCHANGED <<work, commit>>
      PROVE  Locked'
  BY <1>3 DEF Locked
<1>4. ASSUME NEW s \in Sessions, NEW w \in Work, Begins(s, w)
      PROVE  Locked'
  BY <1>1, <1>4 DEF Begins, UnderLock
<1>5. ASSUME NEW s \in Sessions, NEW w \in Work, Advances(s, w)
      PROVE  Locked'
  <2>1. CASE commit' = commit /\ work[s].at \in UnderLock
    BY <1>1, <1>5, <2>1 DEF Advances, UnderLock
  <2>2. CASE commit = None /\ commit' = s
    <3>1. work'[s] = w /\ \A t \in Sessions : t # s => work'[t] = work[t]
      BY <1>5, BecomesIs DEF Advances
    <3>2. w \in Work /\ w.at \in UnderLock
      BY <1>5, <2>2 DEF Advances, UnderLock
    <3> QED
      BY <2>2, <3>1, <3>2 DEF Locked
  <2> QED
    BY <1>5, <2>1, <2>2 DEF Advances, UnderLock
<1>6. ASSUME NEW s \in Sessions, NEW w \in Work, Repeats(s, w) \/ Stores(s, w)
      PROVE  Locked'
  BY <1>1, <1>6 DEF Repeats, Stores, UnderLock
<1>7. ASSUME NEW s \in Sessions, NEW k \in Inodes, NEW w \in Work, Creates(s, k, w)
      PROVE  Locked'
  BY <1>1, <1>7 DEF Creates, UnderLock
<1>8. ASSUME NEW s \in Sessions, NEW i \in Ids, Finishes(s, i)
      PROVE  Locked'
  BY <1>1, <1>8 DEF Finishes, UnderLock
<1>9. ASSUME NEW s \in Sessions, Fails(s)
      PROVE  Locked'
  BY <1>2, <1>9 DEF Fails, GiveUp, Done, Becomes
<1>10. ASSUME NEW s \in Sessions, OpenRefused(s) \/ InsertUpload(s) \/ InsertDownload(s)
      PROVE  Locked'
  BY <1>1, <1>10 DEF OpenRefused, InsertUpload, InsertDownload, At, Done, Becomes, UnderLock
<1>11. ASSUME NEW s \in Sessions, AddFile(s)
      PROVE  Locked'
  BY <1>2, <1>11 DEF AddFile, At, Done, Becomes, UnderLock
<1>12. ASSUME NEW s \in Sessions, NEW c \in Contents, PutWrite(s, c)
      PROVE  Locked'
  BY <1>1, <1>12 DEF PutWrite, At, Done, Becomes, UnderLock
<1>13. ASSUME NEW gone \in SUBSET Ids, Sweeps(gone)
      PROVE  Locked'
  BY <1>3, <1>13 DEF Sweeps
<1>14. ASSUME Beside
      PROVE  Locked'
  BY <1>3, <1>14, BesideIs
<1>15. ASSUME Restart
      PROVE  Locked'
  BY <1>15 DEF Restart, Locked
<1>16. ASSUME NEW f \in Files, evict_unreferenced_over(f)
      PROVE  Locked'
  BY <1>3, <1>16, EvictIs
<1> QED
  BY <1>4, <1>5, <1>6, <1>7, <1>8, <1>9, <1>10, <1>11, <1>12, <1>13, <1>14, <1>15, <1>16 DEF Step

\* No id gets a second owner: ids are given out once, until a restart ends
\* everything that had one.
LEMMA NumberedStep ==
  ASSUME TypeOK, Shapes, Numbered, Step
  PROVE  Numbered'
<1> USE RecordsAssumption, ContentAssumption DEF stageVars, libraryVars
<1>0. Ids \subseteq Nat /\ nextId \in Nat /\ None \notin Ids
  BY BoundsAssumption DEF Ids, TypeOK
\* A request that keeps its id, or has none any more.
<1>1. ASSUME NEW s \in Sessions, NEW w, Becomes(s, w), UNCHANGED <<tickets, nextId>>,
             w = None \/ w.id = None \/ (work[s] # None /\ w.id = work[s].id)
      PROVE  Numbered'
  BY <1>1, BecomesIs DEF Numbered
<1>2. ASSUME NEW s \in Sessions, NEW w \in Work, Begins(s, w)
      PROVE  Numbered'
  BY <1>1, <1>2 DEF Begins
<1>3. ASSUME NEW s \in Sessions, NEW w \in Work, Advances(s, w) \/ Repeats(s, w) \/ Stores(s, w)
      PROVE  Numbered'
  BY <1>1, <1>3 DEF Advances, Repeats, Stores
<1>4. ASSUME NEW s \in Sessions, NEW k \in Inodes, NEW w \in Work, Creates(s, k, w)
      PROVE  Numbered'
  <2>1. work'[s] = w /\ \A t \in Sessions : t # s => work'[t] = work[t]
    BY <1>4, BecomesIs DEF Creates
  <2>2. w.id = nextId /\ nextId \in Ids /\ nextId' = nextId + 1 /\ tickets' = tickets
    BY <1>4 DEF Creates
  <2>3. tickets[nextId] = None
    BY <1>0, <2>2 DEF Numbered
  <2>4. \A t \in Sessions : work[t] # None /\ work[t].id # None => work[t].id \in Ids /\ work[t].id # nextId
    BY <1>0, <2>2 DEF Numbered, TypeOK, Work
  <2>5. \A i \in Ids : i < nextId => i < nextId'
    BY <1>0, <2>2
  <2>6. nextId < nextId'
    BY <1>0, <2>2
  <2> QED
    BY <2>1, <2>2, <2>3, <2>4, <2>5, <2>6 DEF Numbered
<1>5. ASSUME NEW s \in Sessions, NEW i \in Ids, Finishes(s, i)
      PROVE  Numbered'
  <2> DEFINE w == [at |-> "lock", surface |-> "ticket", file |-> tickets[i].file,
                   name |-> tickets[i].name, id |-> i, inode |-> path[i]]
  <2>1. work'[s] = w /\ w.id = i /\ \A t \in Sessions : t # s => work'[t] = work[t]
    BY <1>5, BecomesIs DEF Finishes
  <2>2. /\ tickets[i] # None /\ i < nextId /\ nextId' = nextId
        /\ tickets'[i] = None /\ \A j \in Ids : j # i => tickets'[j] = tickets[j]
    BY <1>5 DEF Finishes, Numbered, TypeOK
  <2>3. \A t \in Sessions : work[t] # None /\ work[t].id # None => work[t].id \in Ids /\ work[t].id # i
    BY <2>2 DEF Numbered, TypeOK, Work
  <2> HIDE DEF w
  <2> QED
    BY <2>1, <2>2, <2>3 DEF Numbered
<1>6. ASSUME NEW s \in Sessions, Fails(s) \/ OpenRefused(s) \/ AddFile(s)
      PROVE  Numbered'
  BY <1>1, <1>6 DEF Fails, GiveUp, OpenRefused, AddFile, Done, Becomes
<1>7. ASSUME NEW s \in Sessions, NEW c \in Contents, PutWrite(s, c)
      PROVE  Numbered'
  BY <1>1, <1>7 DEF PutWrite, Done, Becomes
<1>8. ASSUME NEW s \in Sessions, InsertUpload(s)
      PROVE  Numbered'
  <2>1. work'[s] = None /\ \A t \in Sessions : t # s => work'[t] = work[t]
    BY <1>8 DEF InsertUpload, Done, TypeOK
  <2>2. work[s] # None /\ work[s].id \in Ids /\ work[s].file \in Files /\ work[s].name \in Names
    BY <1>8 DEF InsertUpload, At, Shapes, Carried
  <2>3. /\ tickets'[work[s].id].upload /\ tickets'[work[s].id].file \in Files
        /\ tickets'[work[s].id].name \in Names
        /\ \A j \in Ids : j # work[s].id => tickets'[j] = tickets[j]
    BY <1>8, <2>2 DEF InsertUpload, TypeOK
  <2>4. nextId' = nextId /\ work[s].id < nextId
    BY <1>0, <1>8, <2>2 DEF InsertUpload, Numbered
  <2>5. \A t \in Sessions : t # s /\ work[t] # None /\ work[t].id # None =>
          work[t].id \in Ids /\ work[t].id # work[s].id
    BY <1>0, <2>2 DEF Numbered, TypeOK, Work
  <2> QED
    BY <2>1, <2>2, <2>3, <2>4, <2>5 DEF Numbered
<1>9. ASSUME NEW s \in Sessions, InsertDownload(s)
      PROVE  Numbered'
  <2>1. work'[s] = None /\ \A t \in Sessions : t # s => work'[t] = work[t]
    BY <1>9 DEF InsertDownload, Done, TypeOK
  <2>2. /\ nextId \in Ids /\ nextId' = nextId + 1 /\ ~tickets'[nextId].upload
        /\ \A j \in Ids : j # nextId => tickets'[j] = tickets[j]
    BY <1>9 DEF InsertDownload, TypeOK
  <2>3. nextId < nextId' /\ \A i \in Ids : i < nextId => i < nextId'
    BY <1>0, <2>2
  <2>4. \A t \in Sessions : work[t] # None /\ work[t].id # None =>
          work[t].id \in Ids /\ work[t].id # nextId
    BY <1>0, <2>2 DEF Numbered, TypeOK, Work
  <2> QED
    BY <2>1, <2>2, <2>3, <2>4 DEF Numbered
<1>10. ASSUME NEW gone \in SUBSET Ids, Sweeps(gone)
      PROVE  Numbered'
  <2>1. /\ UNCHANGED <<nextId, work>>
        /\ \A i \in Ids : tickets'[i] = None \/ tickets'[i] = tickets[i]
    BY <1>10 DEF Sweeps
  <2>2. \A s \in Sessions : work[s] # None /\ work[s].id # None => work[s].id \in Ids
    BY DEF TypeOK, Work
  <2> QED
    BY <2>1, <2>2 DEF Numbered
<1>11. ASSUME Beside
      PROVE  Numbered'
  BY <1>11, BesideIs DEF Numbered
<1>12. ASSUME Restart
      PROVE  Numbered'
  BY <1>12 DEF Restart, Numbered
<1>13. ASSUME NEW f \in Files, evict_unreferenced_over(f)
      PROVE  Numbered'
  BY <1>13, EvictIs DEF Numbered
<1> QED
  BY <1>2, <1>3, <1>4, <1>5, <1>6, <1>7, <1>8, <1>9, <1>10, <1>11, <1>12, <1>13 DEF Step

-----------------------------------------------------------------------------
(* Staging files and their names.                                          *)

\* Steps after which every file has the names it had.
LEMMA NamesStay ==
  ASSUME \/ \E s \in Sessions, w \in Work : Begins(s, w) \/ Advances(s, w)
         \/ \E s \in Sessions, i \in Ids : Finishes(s, i)
         \/ \E s \in Sessions : OpenRefused(s) \/ InsertUpload(s) \/ InsertDownload(s) \/ AddFile(s)
         \/ \E s \in Sessions, c \in Contents : PutWrite(s, c)
         \/ Beside \/ Restart
  PROVE  UNCHANGED <<path, blobs>>
BY BesideIs DEF Begins, Advances, Finishes, OpenRefused, InsertUpload, InsertDownload, AddFile,
   PutWrite, Restart, stageVars, libraryVars

\* No file gets a second name: a finished upload is moved, not copied.
LEMMA ApartStep ==
  ASSUME TypeOK, Shapes, Apart, Placed, Step
  PROVE  Apart'
<1> USE RecordsAssumption, ContentAssumption, BoundsAssumption DEF stageVars, libraryVars
<1>1. ASSUME UNCHANGED blobs, \A i \in Ids : path'[i] = None \/ path'[i] = path[i]
      PROVE  Apart'
  BY <1>1 DEF Apart
<1>2. ASSUME NEW ids, Unlink(ids), UNCHANGED blobs
      PROVE  Apart'
  <2>1. \A i \in Ids : path'[i] = None \/ path'[i] = path[i]
    BY <1>2, UnlinkIs
  <2> QED
    BY <1>1, <1>2, <2>1
<1>3. ASSUME NEW s \in Sessions, NEW w \in Work, Repeats(s, w)
      PROVE  Apart'
  BY <1>2, <1>3 DEF Repeats
<1>4. ASSUME NEW s \in Sessions, NEW w \in Work, Stores(s, w)
      PROVE  Apart'
  <2> DEFINE v == work[s]
  <2>1. v \in Work /\ v # None /\ v.at = "store" /\ Carried(v) /\ v.file \in Files
    BY <1>4 DEF Stores, Shapes, Carried
  <2>2. \A i \in Ids : path'[i] = IF i = v.id THEN None ELSE path[i]
    BY <1>4 DEF Stores
  <2>3. /\ blobs'[v.file] = IF v.inode = None THEN Own ELSE v.inode
        /\ \A f \in Files : f # v.file => blobs'[f] = blobs[f]
    BY <1>4, <2>1 DEF Stores, TypeOK
  <2>4. CASE v.inode = None
    <3>1. blobs'[v.file] \notin Inodes /\ blobs'[v.file] # None
      BY <2>3, <2>4 DEF Own
    <3>2. \A i \in Ids : path'[i] # None => path'[i] \in Inodes
      BY <2>2 DEF TypeOK
    <3> QED
      BY <2>2, <2>3, <3>1, <3>2 DEF Apart
  <2>5. CASE v.inode # None
    <3>1. v.id \in Ids /\ path[v.id] = v.inode
      BY <2>1, <2>5 DEF Carried, Filing, Placed
    <3>2. blobs'[v.file] = path[v.id] /\ path[v.id] # None
      BY <2>3, <2>5, <3>1
    <3> HIDE DEF v
    <3> QED
      BY <2>2, <2>3, <3>1, <3>2 DEF Apart
  <2> QED
    BY <2>4, <2>5
<1>5. ASSUME NEW s \in Sessions, NEW k \in Inodes, NEW w \in Work, Creates(s, k, w)
      PROVE  Apart'
  <2>1. /\ nextId \in Ids /\ path'[nextId] = k /\ \A i \in Ids : i # nextId => path'[i] = path[i]
        /\ blobs' = blobs
    BY <1>5 DEF Creates, TypeOK
  <2>2. CASE k = path[nextId]
    BY <1>1, <2>1, <2>2
  <2>3. CASE Fresh(k)
    <3>1. \A i \in Ids : path[i] # k
      BY <2>3 DEF Fresh, Linked
    <3>2. \A f \in Files : blobs[f] # k
      BY <2>3 DEF Fresh, Linked
    <3> QED
      BY <2>1, <3>1, <3>2 DEF Apart
  <2> QED
    BY <1>5, <2>2, <2>3 DEF Creates
<1>6. ASSUME NEW s \in Sessions, Fails(s)
      PROVE  Apart'
  BY <1>2, <1>6 DEF Fails, GiveUp
<1>7. ASSUME NEW gone \in SUBSET Ids, Sweeps(gone)
      PROVE  Apart'
  BY <1>2, <1>7 DEF Sweeps
<1>8. ASSUME UNCHANGED <<path, blobs>>
      PROVE  Apart'
  BY <1>8 DEF Apart
<1>9. ASSUME NEW f \in Files, evict_unreferenced_over(f)
      PROVE  Apart'
  <2>1. /\ UNCHANGED path /\ \A g \in Files : blobs'[g] = None \/ blobs'[g] = blobs[g]
        /\ None \notin Inodes
    BY <1>9, EvictIs
  <2> QED
    BY <2>1 DEF Apart
<1> QED
  BY <1>3, <1>4, <1>5, <1>6, <1>7, <1>8, NamesStay, <1>9 DEF Step

\* A request that has an id has it alone.
LEMMA IdIsIts ==
  ASSUME TypeOK, Numbered, NEW s \in Sessions, NEW t \in Sessions, s # t,
         work[s] # None, work[t] # None, work[t].id \in Ids
  PROVE  work[t].id \notin {work[s].id} /\ tickets[work[t].id] = None /\ work[t].id # nextId
<1>1. Ids \subseteq Nat /\ None \notin Ids /\ nextId \in Nat
  BY BoundsAssumption, ContentAssumption DEF Ids, TypeOK
<1> QED
  BY <1>1 DEF Numbered

\* Nobody takes the staging file of a request that has yet to store it.
LEMMA PlacedStep ==
  ASSUME TypeOK, Shapes, Numbered, Placed, Step
  PROVE  Placed'
<1> USE RecordsAssumption, ContentAssumption DEF stageVars, libraryVars
<1> DEFINE there == {f \in Files : StoredOrSwept(f)}
           there1 == {f \in Files : StoredOrSwept(f)'}
           Good(v, p, b) ==
      /\ v.surface = "ticket" /\ v.at \in {"insert"} \cup Filing => p[v.id] = v.inode
      /\ v.surface = "ticket" /\ v.at = "add" => p[v.id] = None
      /\ v.at \in {"recheck", "add"} => v.file \in b
<1>0. \A s \in Sessions : work[s] # None => Good(work[s], path, there)
  BY DEF Placed, Shapes, Carried
<1>00. (\A s \in Sessions : work'[s] # None => Good(work'[s], path', there1)) => Placed'
  BY DEF Placed
\* What a request has is what its step needs: an id if it has a file.
<1>1. \A s \in Sessions : work[s] # None =>
        /\ work[s] \in Work
        /\ work[s].surface = "ticket" /\ work[s].at \in {"insert", "add"} \cup Filing => work[s].id \in Ids
        /\ work[s].at \notin {"list", "put"} => work[s].file \in Files
  BY DEF Shapes, Carried, TypeOK
\* Nobody's file is renamed and no blob goes.
<1>2. ASSUME NEW s \in Sessions, NEW w, Becomes(s, w),
             w # None => Good(w, path', there1),
             there \subseteq there1,
             \A t \in Sessions : t # s /\ work[t] # None /\ work[t].id \in Ids =>
               path'[work[t].id] = path[work[t].id]
      PROVE  Placed'
  <2>1. work'[s] = w /\ \A t \in Sessions : t # s => work'[t] = work[t]
    BY <1>2, BecomesIs
  <2>2. ASSUME NEW t \in Sessions, t # s, work[t] # None PROVE Good(work[t], path', there1)
    BY <1>0, <1>1, <1>2, <2>2 DEF Filing
  <2> HIDE DEF Good
  <2> QED
    BY <1>00, <1>2, <2>1, <2>2
<1>3. ASSUME NEW s \in Sessions, NEW w, Becomes(s, w), UNCHANGED <<path, blobs, evicted>>,
             w # None => Good(w, path, there)
      PROVE  Placed'
  <2>1. there1 = there
    BY <1>3 DEF StoredOrSwept
  <2> HIDE DEF Good, there, there1
  <2> QED
    BY <1>2, <1>3, <2>1
<1>4. ASSUME NEW s \in Sessions, NEW w \in Work, Begins(s, w)
      PROVE  Placed'
  <2>1. Good(w, path, there)
    BY <1>4, BoundsAssumption DEF Begins, Carried, Filing, Work
  <2> HIDE DEF Good
  <2> QED
    BY <1>3, <1>4, <2>1 DEF Begins
<1>5. ASSUME NEW s \in Sessions, NEW w \in Work, Advances(s, w)
      PROVE  Placed'
  <2>1. work[s] # None /\ Carried(work[s]) /\ Good(work[s], path, there)
    BY <1>0, <1>5 DEF Advances, Shapes
  <2>2. Good(w, path, there)
    BY <1>5, <2>1 DEF Advances, Carried, Filing
  <2> HIDE DEF Good
  <2> QED
    BY <1>3, <1>5, <2>2 DEF Advances
<1>6. ASSUME NEW s \in Sessions, NEW w \in Work, Repeats(s, w)
      PROVE  Placed'
  <2>1. work[s] # None /\ Carried(work[s]) /\ work[s].at = "store"
    BY <1>6 DEF Repeats, Shapes
  <2>2. \A i \in Ids : path'[i] = IF i = work[s].id THEN None ELSE path[i]
    BY <1>6, UnlinkIs DEF Repeats
  <2>0. work[s].file \in there1 /\ there \subseteq there1
    BY <1>6, <2>1 DEF Repeats, Carried, StoredOrSwept
  <2>3. Good(w, path', there1)
    BY <1>6, <2>0, <2>1, <2>2 DEF Repeats, Carried, Filing
  <2>4. \A t \in Sessions : t # s /\ work[t] # None /\ work[t].id \in Ids =>
          path'[work[t].id] = path[work[t].id]
    BY <2>1, <2>2, IdIsIts
  <2> HIDE DEF Good
  <2> QED
    BY <1>2, <1>6, <2>0, <2>3, <2>4 DEF Repeats
<1>7. ASSUME NEW s \in Sessions, NEW w \in Work, Stores(s, w)
      PROVE  Placed'
  <2>1. work[s] # None /\ Carried(work[s]) /\ work[s].at = "store" /\ work[s].file \in Files
    BY <1>7 DEF Stores, Shapes, Carried
  <2>2. \A i \in Ids : path'[i] = IF i = work[s].id THEN None ELSE path[i]
    BY <1>7 DEF Stores
  <2>3. work[s].file \in there1 /\ there \subseteq there1
    BY <1>7, <2>1 DEF Stores, TypeOK, Own, StoredOrSwept
  <2>4. Good(w, path', there1)
    BY <1>7, <2>1, <2>2, <2>3 DEF Stores, Carried, Filing
  <2>5. \A t \in Sessions : t # s /\ work[t] # None /\ work[t].id \in Ids =>
          path'[work[t].id] = path[work[t].id]
    BY <2>1, <2>2, IdIsIts
  <2> HIDE DEF Good
  <2> QED
    BY <1>2, <1>7, <2>3, <2>4, <2>5 DEF Stores
<1>8. ASSUME NEW s \in Sessions, NEW k \in Inodes, NEW w \in Work, Creates(s, k, w)
      PROVE  Placed'
  <2>1. work[s] # None /\ nextId \in Ids
    BY <1>8 DEF Creates
  <2>2. path'[nextId] = k /\ \A i \in Ids : i # nextId => path'[i] = path[i]
    BY <1>8, <2>1 DEF Creates, TypeOK
  <2>0. there \subseteq there1
    BY <1>8 DEF Creates, StoredOrSwept
  <2>3. Good(w, path', there1)
    BY <1>8, <2>1, <2>2 DEF Creates, Filing
  <2>4. \A t \in Sessions : t # s /\ work[t] # None /\ work[t].id \in Ids =>
          path'[work[t].id] = path[work[t].id]
    BY <2>1, <2>2, IdIsIts
  <2> HIDE DEF Good
  <2> QED
    BY <1>2, <1>8, <2>0, <2>3, <2>4 DEF Creates
<1>9. ASSUME NEW s \in Sessions, NEW i \in Ids, Finishes(s, i)
      PROVE  Placed'
  <2> DEFINE w == [at |-> "lock", surface |-> "ticket", file |-> tickets[i].file,
                   name |-> tickets[i].name, id |-> i, inode |-> path[i]]
  <2>1. Good(w, path, there)
    BY DEF Filing
  <2>2. Becomes(s, w) /\ UNCHANGED <<path, blobs, evicted>>
    BY <1>9 DEF Finishes
  <2> HIDE DEF Good, w
  <2> QED
    BY <1>3, <2>1, <2>2
<1>10. ASSUME NEW s \in Sessions, Fails(s)
      PROVE  Placed'
  <2>1. work[s] # None
    BY <1>10 DEF Fails
  <2>2. \A i \in Ids : path'[i] = IF i = work[s].id THEN None ELSE path[i]
    BY <1>10, UnlinkIs DEF Fails, GiveUp
  <2>3. \A t \in Sessions : t # s /\ work[t] # None /\ work[t].id \in Ids =>
          path'[work[t].id] = path[work[t].id]
    BY <2>1, <2>2, IdIsIts
  <2>4. there \subseteq there1
    BY <1>10 DEF Fails, StoredOrSwept
  <2> HIDE DEF Good, there, there1
  <2> QED
    BY <1>2, <1>10, <2>3, <2>4 DEF Fails, GiveUp, Done, Becomes
<1>11. ASSUME NEW s \in Sessions,
              \/ OpenRefused(s) \/ InsertUpload(s) \/ InsertDownload(s) \/ AddFile(s)
              \/ \E c \in Contents : PutWrite(s, c)
      PROVE  Placed'
  <2> HIDE DEF Good
  <2> QED
    BY <1>3, <1>11 DEF OpenRefused, InsertUpload, InsertDownload, AddFile, PutWrite, Done, Becomes
<1>12. ASSUME NEW gone \in SUBSET Ids, Sweeps(gone)
      PROVE  Placed'
  <2>1. \A t \in Sessions : work[t] # None /\ work[t].id \in Ids => tickets[work[t].id] = None
    BY BoundsAssumption DEF Numbered, Ids
  <2>2. \A t \in Sessions : work[t] # None /\ work[t].id \in Ids => path'[work[t].id] = path[work[t].id]
    BY <1>12, <2>1, UnlinkIs DEF Sweeps
  <2>3. UNCHANGED <<work, blobs, evicted>> /\ there1 = there
    BY <1>12 DEF Sweeps, StoredOrSwept
  <2>4. ASSUME NEW t \in Sessions, work[t] # None PROVE Good(work[t], path', there1)
    BY <1>0, <1>1, <2>2, <2>3, <2>4 DEF Filing
  <2> HIDE DEF Good
  <2> QED
    BY <1>00, <2>3, <2>4
<1>13. ASSUME Beside
      PROVE  Placed'
  BY <1>13, BesideIs DEF Placed, StoredOrSwept
<1>14. ASSUME Restart
      PROVE  Placed'
  BY <1>14 DEF Restart, Placed
<1>15. ASSUME NEW f \in Files, evict_unreferenced_over(f)
      PROVE  Placed'
  <2>1. UNCHANGED <<work, path>> /\ there \subseteq there1
    BY <1>15, EvictIs
  <2>2. ASSUME NEW t \in Sessions, work[t] # None PROVE Good(work[t], path', there1)
    BY <1>0, <2>1, <2>2
  <2> HIDE DEF Good, there, there1
  <2> QED
    BY <1>00, <2>1, <2>2
<1> QED
  BY <1>4, <1>5, <1>6, <1>7, <1>8, <1>9, <1>10, <1>11, <1>12, <1>13, <1>14, <1>15 DEF Step

\* No step but a restart leaves a staging file behind.
LEMMA LeftStep ==
  ASSUME TypeOK, Shapes, Numbered, Left, Step
  PROVE  Left'
<1> USE RecordsAssumption, ContentAssumption DEF stageVars, libraryVars
<1>0. Ids \subseteq Nat /\ nextId \in Nat /\ None \notin Ids
  BY BoundsAssumption DEF Ids, TypeOK
<1>1. ASSUME UNCHANGED <<nextId, leftover>>,
             \A i \in Ids : path'[i] # None => path'[i] = path[i],
             \A i \in Ids : tickets'[i] # None => tickets'[i] = tickets[i]
      PROVE  Left'
  BY <1>1 DEF Left
<1>2. ASSUME NEW s \in Sessions, NEW w \in Work, Begins(s, w) \/ Advances(s, w)
      PROVE  Left'
  BY <1>1, <1>2 DEF Begins, Advances
<1>3. ASSUME NEW s \in Sessions, NEW w \in Work, Repeats(s, w) \/ Stores(s, w)
      PROVE  Left'
  <2>1. \A i \in Ids : path'[i] # None => path'[i] = path[i]
    BY <1>3, UnlinkIs DEF Repeats, Stores
  <2> QED
    BY <1>1, <1>3, <2>1 DEF Repeats, Stores
<1>4. ASSUME NEW s \in Sessions, NEW k \in Inodes, NEW w \in Work, Creates(s, k, w)
      PROVE  Left'
  <2>1. /\ nextId \in Ids /\ \A i \in Ids : i # nextId => path'[i] = path[i]
        /\ nextId' = nextId + 1 /\ leftover' = leftover \ {nextId} /\ tickets' = tickets
    BY <1>4 DEF Creates, TypeOK
  <2>2. tickets[nextId] = None
    BY <1>0, <2>1 DEF Numbered
  <2>3. ~(nextId >= nextId') /\ \A i \in Nat : i >= nextId' => i >= nextId
    <3>1. nextId \in Nat /\ nextId' = nextId + 1
      BY <1>0, <2>1
    <3> QED
      BY <3>1, Z3
  <2>4. \A i \in Ids : i >= nextId' => i >= nextId
    BY <1>0, <2>3, Zenon
  <2> QED
    BY <2>1, <2>2, <2>3, <2>4 DEF Left
<1>5. ASSUME NEW s \in Sessions, NEW i \in Ids, Finishes(s, i)
      PROVE  Left'
  <2>1. \A j \in Ids : tickets'[j] # None => tickets'[j] = tickets[j]
    BY <1>5 DEF Finishes, TypeOK
  <2> QED
    BY <1>1, <1>5, <2>1 DEF Finishes
<1>6. ASSUME NEW s \in Sessions, Fails(s)
      PROVE  Left'
  <2>1. \A i \in Ids : path'[i] # None => path'[i] = path[i]
    BY <1>6, UnlinkIs DEF Fails, GiveUp
  <2> QED
    BY <1>1, <1>6, <2>1 DEF Fails, GiveUp
<1>7. ASSUME NEW s \in Sessions, OpenRefused(s) \/ AddFile(s) \/ \E c \in Contents : PutWrite(s, c)
      PROVE  Left'
  BY <1>1, <1>7 DEF OpenRefused, AddFile, PutWrite
<1>8. ASSUME NEW s \in Sessions, InsertUpload(s)
      PROVE  Left'
  <2>1. work[s] # None /\ work[s].id \in Ids
    BY <1>8 DEF InsertUpload, At, Shapes, Carried
  <2>2. /\ tickets'[work[s].id].upload /\ UNCHANGED <<path, leftover, nextId>>
        /\ \A j \in Ids : j # work[s].id => tickets'[j] = tickets[j]
    BY <1>8, <2>1 DEF InsertUpload, TypeOK
  <2> QED
    BY <2>1, <2>2 DEF Left
<1>9. ASSUME NEW s \in Sessions, InsertDownload(s)
      PROVE  Left'
  <2>1. /\ nextId \in Ids /\ nextId' = nextId + 1 /\ UNCHANGED <<path, leftover>>
        /\ \A j \in Ids : j # nextId => tickets'[j] = tickets[j]
    BY <1>9 DEF InsertDownload, TypeOK
  <2>2. nextId >= nextId /\ \A i \in Ids : i >= nextId' => i >= nextId
    BY <1>0, <2>1
  <2> QED
    BY <2>1, <2>2 DEF Left
<1>10. ASSUME NEW gone \in SUBSET Ids, Sweeps(gone)
      PROVE  Left'
  <2>1. \A i \in Ids : path'[i] # None => path'[i] = path[i]
    BY <1>10, UnlinkIs DEF Sweeps
  <2>2. \A i \in Ids : tickets'[i] # None => tickets'[i] = tickets[i]
    BY <1>10 DEF Sweeps
  <2> QED
    BY <1>1, <1>10, <2>1, <2>2 DEF Sweeps
<1>11. ASSUME Beside
      PROVE  Left'
  BY <1>1, <1>11, BesideIs
<1>12. ASSUME Restart
      PROVE  Left'
  BY <1>12 DEF Restart, Left
<1>13. ASSUME NEW f \in Files, evict_unreferenced_over(f)
      PROVE  Left'
  BY <1>1, <1>13, EvictIs
<1> QED
  BY <1>2, <1>3, <1>4, <1>5, <1>6, <1>7, <1>8, <1>9, <1>10, <1>11, <1>12, <1>13 DEF Step

\* A staging file keeps its owner, or finds the next one, or goes.
LEMMA OwnedStep ==
  ASSUME TypeOK, Shapes, Numbered, Placed, Left, StageOwned, Step
  PROVE  StageOwned'
<1> USE RecordsAssumption, ContentAssumption DEF stageVars, libraryVars
<1>0. Ids \subseteq Nat /\ nextId \in Nat /\ None \notin Ids
  BY BoundsAssumption DEF Ids, TypeOK
\* A request comes, goes on or ends; whatever is of its id is gone or stays its own.
<1>1. ASSUME NEW s \in Sessions, NEW w, Becomes(s, w), UNCHANGED <<tickets, leftover>>,
             \A i \in Ids : path'[i] # None => path'[i] = path[i],
             \/ work[s] = None \/ work[s].id = None
             \/ path'[work[s].id] = None
             \/ w # None /\ w.id = work[s].id
      PROVE  StageOwned'
  <2>1. work'[s] = w /\ \A t \in Sessions : t # s => work'[t] = work[t]
    BY <1>1, BecomesIs
  <2>2. SUFFICES ASSUME NEW i \in Ids, path'[i] # None
                 PROVE  \/ tickets[i] # None \/ i \in leftover
                        \/ \E t \in Sessions : work'[t] # None /\ work'[t].id = i
    BY <1>1 DEF StageOwned
  <2>3. path[i] # None
    BY <1>1, <2>2
  <2>4. CASE \E t \in Sessions : work[t] # None /\ work[t].id = i
    <3>1. PICK t \in Sessions : work[t] # None /\ work[t].id = i
      BY <2>4
    <3>2. CASE t # s
      BY <2>1, <3>1, <3>2
    <3>3. CASE t = s
      BY <1>0, <1>1, <2>1, <2>2, <3>1, <3>3
    <3> QED
      BY <3>2, <3>3
  <2> QED
    BY <2>3, <2>4 DEF StageOwned
<1>2. ASSUME NEW s \in Sessions, NEW w \in Work, Begins(s, w) \/ Advances(s, w)
      PROVE  StageOwned'
  BY <1>1, <1>2 DEF Begins, Advances
<1>3. ASSUME NEW s \in Sessions, NEW w \in Work, Repeats(s, w) \/ Stores(s, w)
      PROVE  StageOwned'
  <2>1. \A i \in Ids : path'[i] # None => path'[i] = path[i]
    BY <1>3, UnlinkIs DEF Repeats, Stores
  <2> QED
    BY <1>1, <1>3, <2>1 DEF Repeats, Stores
<1>4. ASSUME NEW s \in Sessions, NEW k \in Inodes, NEW w \in Work, Creates(s, k, w)
      PROVE  StageOwned'
  <2>1. /\ nextId \in Ids /\ \A i \in Ids : i # nextId => path'[i] = path[i]
        /\ leftover' = leftover \ {nextId} /\ tickets' = tickets /\ w.id = nextId
    BY <1>4 DEF Creates, TypeOK
  <2>2. work'[s] = w /\ w # None /\ \A t \in Sessions : t # s => work'[t] = work[t]
    BY <1>4, BecomesIs DEF Creates
  <2>3. work[s].id = None
    BY <1>4 DEF Creates, Shapes, Carried
  <2>4. ASSUME NEW i \in Ids, i # nextId, path[i] # None
        PROVE  \/ tickets'[i] # None \/ i \in leftover'
               \/ \E t \in Sessions : work'[t] # None /\ work'[t].id = i
    BY <1>0, <2>1, <2>2, <2>3, <2>4 DEF StageOwned
  <2> QED
    BY <2>1, <2>2, <2>4 DEF StageOwned
<1>5. ASSUME NEW s \in Sessions, NEW i \in Ids, Finishes(s, i)
      PROVE  StageOwned'
  <2> DEFINE w == [at |-> "lock", surface |-> "ticket", file |-> tickets[i].file,
                   name |-> tickets[i].name, id |-> i, inode |-> path[i]]
  <2>1. work'[s] = w /\ w.id = i /\ \A t \in Sessions : t # s => work'[t] = work[t]
    BY <1>5, BecomesIs DEF Finishes
  <2>2. w \in Work
    <3>1. path[i] \in Inodes /\ tickets[i] \in Ticket
      BY <1>5 DEF Finishes, TypeOK
    <3> QED
      BY <3>1 DEF Work, Steps, Surfaces, Ticket
  <2>3. /\ \A j \in Ids : j # i => tickets'[j] = tickets[j]
        /\ UNCHANGED <<path, leftover>> /\ work[s] = None
    BY <1>5 DEF Finishes, TypeOK
  <2> HIDE DEF w
  <2>4. work'[s] # None /\ work'[s].id = i
    BY <2>1, <2>2
  <2> QED
    BY <2>1, <2>3, <2>4 DEF StageOwned
<1>6. ASSUME NEW s \in Sessions, Fails(s)
      PROVE  StageOwned'
  <2>1. \A i \in Ids : path'[i] # None => path'[i] = path[i]
    BY <1>6, UnlinkIs DEF Fails, GiveUp
  <2>2. work[s].id = None \/ path'[work[s].id] = None
    BY <1>6, UnlinkIs DEF Fails, GiveUp, Work
  <2> QED
    BY <1>1, <1>6, <2>1, <2>2 DEF Fails, GiveUp, Done, Becomes
<1>7. ASSUME NEW s \in Sessions, OpenRefused(s) \/ AddFile(s) \/ \E c \in Contents : PutWrite(s, c)
      PROVE  StageOwned'
  <2>1. work[s] # None /\ work[s].at \in {"gate", "put", "add"}
    BY <1>7 DEF OpenRefused, AddFile, PutWrite, At
  <2>2. work[s].id = None \/ path[work[s].id] = None
    BY <2>1 DEF Shapes, Carried, Placed
  <2> QED
    BY <1>1, <1>7, <2>2 DEF OpenRefused, AddFile, PutWrite, Done, Becomes
<1>8. ASSUME NEW s \in Sessions, InsertUpload(s)
      PROVE  StageOwned'
  <2>1. work[s] # None /\ work[s].id \in Ids
    BY <1>8 DEF InsertUpload, At, Shapes, Carried
  <2>2. work'[s] = None /\ \A t \in Sessions : t # s => work'[t] = work[t]
    BY <1>8 DEF InsertUpload, Done, TypeOK
  <2>3. tickets'[work[s].id] # None
    <3>1. tickets'[work[s].id] =
            [session |-> s, upload |-> TRUE, file |-> work[s].file, name |-> work[s].name]
      BY <1>8, <2>1 DEF InsertUpload, TypeOK
    <3>2. work[s] \in Work
      BY <2>1 DEF TypeOK
    <3>3. tickets'[work[s].id] \in Ticket
      BY <3>1, <3>2 DEF Ticket, Work
    <3> QED
      BY <3>3
  <2>4. \A j \in Ids : j # work[s].id => tickets'[j] = tickets[j]
    BY <1>8, <2>1 DEF InsertUpload, TypeOK
  <2>5. UNCHANGED <<path, leftover>>
    BY <1>8 DEF InsertUpload
  <2> QED
    BY <2>1, <2>2, <2>3, <2>4, <2>5 DEF StageOwned
<1>9. ASSUME NEW s \in Sessions, InsertDownload(s)
      PROVE  StageOwned'
  <2>1. work[s] # None /\ work[s].id = None
    BY <1>9 DEF InsertDownload, At, Shapes, Carried
  <2>2. work'[s] = None /\ \A t \in Sessions : t # s => work'[t] = work[t]
    BY <1>9 DEF InsertDownload, Done, TypeOK
  <2>3. /\ nextId \in Ids /\ UNCHANGED <<path, leftover>>
        /\ \A j \in Ids : j # nextId => tickets'[j] = tickets[j]
    BY <1>9 DEF InsertDownload, TypeOK
  <2>4. path[nextId] # None => nextId \in leftover
    BY <1>0, <2>3 DEF Left
  <2> QED
    BY <1>0, <2>1, <2>2, <2>3, <2>4 DEF StageOwned
<1>10. ASSUME NEW gone \in SUBSET Ids, Sweeps(gone)
      PROVE  StageOwned'
  <2>1. UNCHANGED <<work, leftover>>
    BY <1>10 DEF Sweeps
  <2>2. \A i \in Ids : path'[i] # None => path'[i] = path[i] /\ ~(i \in gone /\ tickets[i].upload)
    BY <1>10, UnlinkIs DEF Sweeps
  <2>3. \A i \in Ids : tickets'[i] = IF i \in gone THEN None ELSE tickets[i]
    BY <1>10 DEF Sweeps
  <2>4. \A i \in gone : tickets[i] # None
    BY <1>10 DEF Sweeps
  <2> QED
    BY <2>1, <2>2, <2>3, <2>4 DEF StageOwned, Left
<1>11. ASSUME Beside
      PROVE  StageOwned'
  BY <1>11, BesideIs DEF StageOwned
<1>12. ASSUME Restart
      PROVE  StageOwned'
  BY <1>12 DEF Restart, StageOwned
<1>13. ASSUME NEW f \in Files, evict_unreferenced_over(f)
      PROVE  StageOwned'
  BY <1>13, EvictIs DEF StageOwned
<1> QED
  BY <1>2, <1>3, <1>4, <1>5, <1>6, <1>7, <1>8, <1>9, <1>10, <1>11, <1>12, <1>13 DEF Step

-----------------------------------------------------------------------------
(* What is in the files.                                                   *)

\* None is no id and no file.
LEMMA NoneIsNo == None \notin Inodes /\ Own \notin Inodes /\ None # Own /\ None \notin Ids
<1>1. None \notin Inodes /\ Own \notin Inodes
  BY BoundsAssumption, ContentAssumption
<1>2. None # Own
  BY ContentAssumption DEF Own
<1>3. None \notin Ids
  BY BoundsAssumption, ContentAssumption DEF Ids
<1> QED
  BY <1>1, <1>2, <1>3

\* A staging file is no blob, and is filed by the request that has its id.
LEMMA StageIsOf ==
  ASSUME TypeOK, Shapes, Apart, Placed, NEW i \in Ids, path[i] # None
  PROVE  /\ \A f \in Files : blobs[f] # path[i]
         /\ \A s \in Sessions : work[s] # None /\ work[s].at \in Filing /\ work[s].inode = path[i] =>
              work[s].id = i
<1>1. \A f \in Files : blobs[f] # path[i]
  BY DEF Apart
<1>2. ASSUME NEW s \in Sessions, work[s] # None, work[s].at \in Filing, work[s].inode = path[i]
      PROVE  work[s].id = i
  <2>1. work[s].surface = "ticket"
    BY <1>2 DEF Shapes, Carried
  <2>2. work[s].id \in Ids /\ path[work[s].id] = path[i]
    BY <1>2, <2>1 DEF Shapes, Carried, Placed
  <2> QED
    BY <2>2 DEF Apart
<1> QED
  BY <1>1, <1>2

\* The staging file of a ticket is not filed.
LEMMA TicketUnfiled ==
  ASSUME TypeOK, Shapes, Numbered, Apart, Placed, NEW i \in Ids, path[i] # None, tickets[i] # None
  PROVE  ~Filed(path[i])
<1>1. None \notin Ids
  BY BoundsAssumption, ContentAssumption DEF Ids
<1>2. \A s \in Sessions : work[s] # None /\ work[s].id \in Ids => tickets[work[s].id] = None
  BY <1>1 DEF Numbered
<1> QED
  BY <1>2, StageIsOf DEF Filed

\* What is unlinked is filed by nobody else.
LEMMA UnlinkSafe ==
  ASSUME TypeOK, Shapes, Numbered, Apart, Placed, NEW ids, Unlink(ids),
         NEW k \in Inodes,
         \/ \E f \in Files : blobs[f] = k
         \/ \E s \in Sessions : /\ work[s] # None /\ work[s].at \in Filing
                                /\ work[s].inode = k /\ work[s].id \notin ids
  PROVE  /\ content'[k] = content[k] /\ (k \in streams' <=> k \in streams)
         /\ (k \in shared' <=> k \in shared)
<1>1. ~(\E i \in Ids : i \in ids /\ path[i] = k)
  <2> SUFFICES ASSUME NEW i \in Ids, i \in ids, path[i] = k PROVE FALSE
    OBVIOUS
  <2>1. path[i] # None
    BY BoundsAssumption, ContentAssumption
  <2> QED
    BY <2>1, StageIsOf
<1> QED
  BY <1>1, UnlinkIs

\* The other requests keep their ids from being unlinked.
LEMMA OthersKeep ==
  ASSUME TypeOK, Numbered, NEW s \in Sessions, NEW t \in Sessions, t # s,
         work[s] # None, work[t] # None, Carried(work[t]), work[t].at \in Filing,
         work[t].inode \in Inodes
  PROVE  work[t].id \notin {work[s].id}
<1>1. work[t].inode # None
  BY BoundsAssumption, ContentAssumption
<1>2. work[t].id \in Ids
  BY <1>1 DEF Carried
<1> QED
  BY <1>2, IdIsIts

\* Who opens a file for writing does so before it is finished, so a writer of
\* a file that is being filed was there then.
LEMMA WritersStep ==
  ASSUME TypeOK, Shapes, Numbered, Apart, Placed, Writers, Step
  PROVE  Writers'
<1>0. None \notin Inodes /\ Own \notin Inodes /\ None \notin Ids
  BY NoneIsNo
<1> USE RecordsAssumption DEF stageVars, libraryVars
<1> DEFINE Files1(v, k) == v # None /\ v.at \in Filing /\ v.inode = k
           Writes1(v, k) == v # None /\ v.at = "put" /\ v.inode = k
<1>1. \A k : Written(k) <=> (k \in streams \/ \E s \in Sessions : Writes1(work[s], k))
  BY DEF Written, At
<1>2. \A k : Written(k)' <=> (k \in streams' \/ \E s \in Sessions : Writes1(work'[s], k))
  BY DEF Written, At
<1>3. \A k : Filed(k) <=> ((\E f \in Files : blobs[f] = k) \/ \E s \in Sessions : Files1(work[s], k))
  BY DEF Filed
<1>4. \A k : Filed(k)' <=> ((\E f \in Files : blobs'[f] = k) \/ \E s \in Sessions : Files1(work'[s], k))
  BY DEF Filed
<1>5. ASSUME \A k \in Inodes : Filed(k)' /\ Written(k)' =>
               k \in shared' \/ (Filed(k) /\ Written(k) /\ (k \in shared => k \in shared'))
      PROVE  Writers'
  BY <1>5 DEF Writers
<1> HIDE DEF Files1, Writes1
\* A request comes, goes on or ends.
<1>6. ASSUME NEW s \in Sessions, NEW w, Becomes(s, w), UNCHANGED <<streams, shared>>,
             \A k \in Inodes : Writes1(w, k) => Writes1(work[s], k),
             \A k \in Inodes : Files1(w, k) => Files1(work[s], k),
             \A k \in Inodes : (\E f \in Files : blobs'[f] = k) => Filed(k)
      PROVE  Writers'
  <2>1. work'[s] = w /\ \A t \in Sessions : t # s => work'[t] = work[t]
    BY <1>6, BecomesIs
  <2>2. \A k \in Inodes : Filed(k)' => Filed(k)
    BY <1>3, <1>4, <1>6, <2>1
  <2>3. \A k \in Inodes : Written(k)' => Written(k)
    BY <1>1, <1>2, <1>6, <2>1
  <2> QED
    BY <1>5, <1>6, <2>2, <2>3
<1>7. ASSUME NEW s \in Sessions, NEW w \in Work, Begins(s, w)
      PROVE  Writers'
  <2>1. \A k \in Inodes : ~Files1(w, k)
    BY <1>0, <1>7 DEF Begins, Files1, Filing
  <2>2. work'[s] = w /\ (\A t \in Sessions : t # s => work'[t] = work[t]) /\ work[s] = None
        /\ UNCHANGED <<streams, shared, blobs>>
    BY <1>7, BecomesIs DEF Begins
  <2>3. \A k \in Inodes : Filed(k)' => Filed(k)
    BY <1>3, <1>4, <2>1, <2>2
  <2>4. ASSUME NEW k \in Inodes, Writes1(w, k) PROVE ~Filed(k)
    <3>1. PICK i \in Ids : tickets[i] # None /\ k = path[i]
      BY <1>7, <2>4 DEF Begins, Writes1
    <3> QED
      BY <1>0, <3>1, TicketUnfiled
  <2>5. \A k \in Inodes : Written(k)' => Written(k) \/ Writes1(w, k)
    BY <1>1, <1>2, <2>2
  <2> QED
    BY <1>5, <2>2, <2>3, <2>4, <2>5
<1>8. ASSUME NEW s \in Sessions, NEW w \in Work, Advances(s, w)
      PROVE  Writers'
  <2>1. \A k \in Inodes : Files1(w, k) => Files1(work[s], k)
    BY <1>8 DEF Advances, Files1, Filing
  <2>2. \A k \in Inodes : ~Writes1(w, k)
    BY <1>8 DEF Advances, Writes1
  <2> QED
    BY <1>3, <1>6, <1>8, <2>1, <2>2 DEF Advances
<1>9. ASSUME NEW s \in Sessions, NEW w, work[s] # None, Becomes(s, w), Unlink({work[s].id}), UNCHANGED blobs,
             \A k : ~Files1(w, k) /\ ~Writes1(w, k)
      PROVE  Writers'
  <2>1. work'[s] = w /\ \A t \in Sessions : t # s => work'[t] = work[t]
    BY <1>9, BecomesIs
  <2>2. ASSUME NEW k \in Inodes, Filed(k)', Written(k)'
        PROVE  Filed(k) /\ Written(k) /\ (k \in shared => k \in shared')
    <3>1. Filed(k)
      BY <1>3, <1>4, <1>9, <2>1, <2>2
    <3>2. (k \in streams' <=> k \in streams) /\ (k \in shared' <=> k \in shared)
      <4>1. CASE \E f \in Files : blobs[f] = k
        BY <1>9, <4>1, UnlinkSafe
      <4>2. CASE \E t \in Sessions : Files1(work'[t], k)
        <5>1. PICK t \in Sessions : Files1(work'[t], k)
          BY <4>2
        <5>2. t # s /\ Files1(work[t], k)
          BY <1>9, <2>1, <5>1
        <5>3. work[t] # None /\ work[t].at \in Filing /\ work[t].inode = k /\ Carried(work[t])
          BY <5>2 DEF Files1, Shapes
        <5>4. work[t].id \notin {work[s].id}
          BY <1>9, <5>2, <5>3, OthersKeep
        <5> QED
          BY <1>9, <5>3, <5>4, UnlinkSafe
      <4> QED
        BY <1>4, <1>9, <2>2, <4>1, <4>2
    <3>3. Written(k)
      BY <1>1, <1>2, <1>9, <2>1, <2>2, <3>2
    <3> QED
      BY <3>1, <3>2, <3>3
  <2> QED
    BY <1>5, <2>2
<1>10. ASSUME NEW s \in Sessions, NEW w \in Work, Repeats(s, w)
      PROVE  Writers'
  <2>1. \A k : ~Files1(w, k) /\ ~Writes1(w, k)
    BY <1>10 DEF Repeats, Files1, Writes1, Filing
  <2> QED
    BY <1>9, <1>10, <2>1 DEF Repeats
<1>11. ASSUME NEW s \in Sessions, Fails(s)
      PROVE  Writers'
  <2>1. \A k : ~Files1(None, k) /\ ~Writes1(None, k)
    BY DEF Files1, Writes1
  <2> QED
    BY <1>9, <1>11, <2>1 DEF Fails, GiveUp, Done, Becomes
<1>12. ASSUME NEW s \in Sessions, NEW w \in Work, Stores(s, w)
      PROVE  Writers'
  <2>1. \A k : ~Files1(w, k) /\ ~Writes1(w, k)
    BY <1>12 DEF Stores, Files1, Writes1, Filing
  <2>2. ASSUME NEW k \in Inodes, NEW f \in Files, blobs'[f] = k PROVE Filed(k)
    <3>1. work[s] # None /\ work[s].at \in Filing /\ work[s].file \in Files
      BY <1>12 DEF Stores, Filing, Shapes, Carried
    <3>2. blobs'[f] = blobs[f] \/ blobs'[f] = Own \/ blobs'[f] = work[s].inode
      BY <1>12, <3>1 DEF Stores, TypeOK
    <3> QED
      BY <1>0, <2>2, <3>1, <3>2 DEF Filed
  <2> QED
    BY <1>6, <1>12, <2>1, <2>2 DEF Stores
<1>13. ASSUME NEW s \in Sessions, NEW k \in Inodes, NEW w \in Work, Creates(s, k, w)
      PROVE  Writers'
  <2>1. \A j : ~Files1(w, j) /\ ~Writes1(w, j)
    BY <1>13 DEF Creates, Files1, Writes1, Filing
  <2> QED
    BY <1>3, <1>6, <1>13, <2>1 DEF Creates
<1>14. ASSUME NEW s \in Sessions, NEW i \in Ids, Finishes(s, i)
      PROVE  Writers'
  <2> DEFINE w == [at |-> "lock", surface |-> "ticket", file |-> tickets[i].file,
                   name |-> tickets[i].name, id |-> i, inode |-> path[i]]
  <2>1. work'[s] = w /\ w.at = "lock" /\ w.inode = path[i]
    BY <1>14, BecomesIs DEF Finishes
  <2> HIDE DEF w
  <2>2. /\ \A t \in Sessions : t # s => work'[t] = work[t]
        /\ UNCHANGED <<streams, blobs>> /\ work[s] = None
        /\ shared' = IF Written(path[i]) THEN shared \cup {path[i]} ELSE shared
    BY <1>14, BecomesIs DEF Finishes
  <2>3. \A k : (Files1(w, k) => k = path[i]) /\ ~Writes1(w, k)
    BY <2>1 DEF Files1, Writes1
  <2>4. \A k \in Inodes : Filed(k)' => Filed(k) \/ k = path[i]
    BY <1>3, <1>4, <2>1, <2>2, <2>3
  <2>5. \A k \in Inodes : Written(k)' => Written(k)
    BY <1>1, <1>2, <2>1, <2>2, <2>3
  <2>6. \A k : k \in shared => k \in shared'
    BY <2>2
  <2>7. Written(path[i]) => path[i] \in shared'
    BY <2>2
  <2> QED
    BY <1>5, <2>4, <2>5, <2>6, <2>7
<1>15. ASSUME NEW s \in Sessions,
              \/ OpenRefused(s) \/ InsertUpload(s) \/ InsertDownload(s) \/ AddFile(s)
              \/ \E c \in Contents : PutWrite(s, c)
      PROVE  Writers'
  <2>1. \A k : ~Files1(None, k) /\ ~Writes1(None, k)
    BY DEF Files1, Writes1
  <2>2. Becomes(s, None) /\ UNCHANGED <<streams, shared, blobs>>
    BY <1>15 DEF OpenRefused, InsertUpload, InsertDownload, AddFile, PutWrite, Done, Becomes
  <2> QED
    BY <1>3, <1>6, <2>1, <2>2
<1>16. ASSUME NEW gone \in SUBSET Ids, Sweeps(gone)
      PROVE  Writers'
  <2> DEFINE ids == {i \in gone : tickets[i].upload}
  <2>1. UNCHANGED <<work, blobs>> /\ Unlink(ids) /\ \A i \in ids : i \in Ids /\ tickets[i] # None
    BY <1>16 DEF Sweeps
  <2> HIDE DEF ids
  <2>2. ASSUME NEW k \in Inodes, Filed(k)', Written(k)'
        PROVE  Filed(k) /\ Written(k) /\ (k \in shared => k \in shared')
    <3>1. Filed(k)
      BY <1>3, <1>4, <2>1, <2>2
    <3>2. ASSUME NEW t \in Sessions, work[t] # None PROVE work[t].id \notin ids
      BY <1>0, <2>1, <3>2 DEF Numbered
    <3>3. (k \in streams' <=> k \in streams) /\ (k \in shared' <=> k \in shared)
      BY <2>1, <3>1, <3>2, UnlinkSafe DEF Filed
    <3>4. Written(k)
      BY <1>1, <1>2, <2>1, <2>2, <3>3
    <3> QED
      BY <3>1, <3>3, <3>4
  <2> QED
    BY <1>5, <2>2
<1>17. ASSUME Beside
      PROVE  Writers'
  <2>1. UNCHANGED <<work, blobs, shared>>
    BY <1>17, BesideIs
  <2>2. \A k \in Inodes : Filed(k)' => Filed(k)
    BY <1>3, <1>4, <2>1
  <2>3. CASE \E i \in Ids : StreamOpen(i)
    <3>1. PICK i \in Ids : StreamOpen(i)
      BY <2>3
    <3>2. ~Filed(path[i]) /\ streams' = streams \cup {path[i]}
      BY <3>1, TicketUnfiled DEF StreamOpen
    <3>3. \A k \in Inodes : Written(k)' => Written(k) \/ k = path[i]
      BY <1>1, <1>2, <2>1, <3>2
    <3> QED
      BY <1>5, <2>1, <2>2, <3>2, <3>3
  <2>4. CASE ~\E i \in Ids : StreamOpen(i)
    <3>1. streams' \subseteq streams
      BY <1>17, <2>4 DEF Beside, StreamEnd, StreamWrite, Delete, Deny
    <3>2. \A k \in Inodes : Written(k)' => Written(k)
      BY <1>1, <1>2, <2>1, <3>1
    <3> QED
      BY <1>5, <2>1, <2>2, <3>2
  <2> QED
    BY <2>3, <2>4
<1>18. ASSUME Restart
      PROVE  Writers'
  <2>1. streams' = {} /\ \A s \in Sessions : work'[s] = None
    BY <1>18 DEF Restart
  <2>2. \A k : ~Writes1(None, k)
    BY DEF Writes1
  <2> QED
    BY <1>2, <2>1, <2>2 DEF Writers
<1>19. ASSUME NEW f \in Files, evict_unreferenced_over(f)
      PROVE  Writers'
  <2>1. UNCHANGED work /\ blobs'[f] = None /\ \A g \in Files : g # f => blobs'[g] = blobs[g]
    BY <1>19, EvictIs
  \* What is filed now was, and is not the file that went.
  <2>2. ASSUME NEW k \in Inodes, Filed(k)'
        PROVE  Filed(k) /\ k # blobs[f]
    <3>1. CASE \E g \in Files : blobs'[g] = k
      BY <1>0, <1>3, <2>1, <2>2, <3>1 DEF Apart
    <3>2. CASE \E s \in Sessions : Files1(work[s], k)
      <4>1. PICK s \in Sessions : work[s] # None /\ work[s].at \in Filing /\ work[s].inode = k
        BY <3>2 DEF Files1
      <4>2. work[s].id \in Ids /\ path[work[s].id] = k
        BY <1>0, <4>1 DEF Shapes, Carried, Placed
      <4> QED
        BY <1>0, <1>3, <3>2, <4>2 DEF Apart
    <3> QED
      BY <1>4, <2>1, <2>2, <3>1, <3>2
  <2>3. ASSUME NEW k \in Inodes, Filed(k)', Written(k)'
        PROVE  Filed(k) /\ Written(k) /\ (k \in shared => k \in shared')
    <3>1. (k \in streams' <=> k \in streams) /\ (k \in shared' <=> k \in shared)
      BY <1>19, <2>2, <2>3, EvictIs
    <3> QED
      BY <1>1, <1>2, <2>1, <2>2, <2>3, <3>1
  <2> QED
    BY <1>5, <2>3
<1> QED
  BY <1>7, <1>8, <1>10, <1>11, <1>12, <1>13, <1>14, <1>15, <1>16, <1>17, <1>18, <1>19 DEF Step

\* A new staging file takes nobody's place.
LEMMA CreatesApart ==
  ASSUME TypeOK, Shapes, Numbered, Apart, Placed, NEW s \in Sessions, NEW k \in Inodes, NEW w \in Work,
         Creates(s, k, w)
  PROVE  /\ \A f \in Files : blobs[f] # k
         /\ \A t \in Sessions : work[t] # None /\ work[t].at \in Filing => work[t].inode # k
<1>0. nextId \in Ids /\ None \notin Inodes /\ None \notin Ids /\ Ids \subseteq Nat
  BY NoneIsNo, BoundsAssumption DEF Creates, Ids
<1>1. CASE k = path[nextId]
  <2>1. \A t \in Sessions : work[t] # None /\ work[t].id # None => work[t].id # nextId
    BY <1>0 DEF Numbered
  <2> QED
    BY <1>0, <1>1, <2>1, StageIsOf
<1>2. CASE Fresh(k)
  BY <1>2 DEF Fresh, Linked
<1> QED
  BY <1>1, <1>2 DEF Creates

\* Between the hash and the move nobody writes to the file but such a writer.
LEMMA HashedStep ==
  ASSUME TypeOK, Shapes, Numbered, Apart, Placed, Writers, Hashed, Step
  PROVE  Hashed'
<1>0. None \notin Inodes /\ None \notin Ids
  BY NoneIsNo
<1> USE RecordsAssumption DEF stageVars, libraryVars
<1> DEFINE Storing(v) == v # None /\ v.at = "store" /\ v.inode # None
\* Whoever is about to store a file has it staged.
<1>1. ASSUME NEW t \in Sessions, Storing(work[t])
      PROVE  /\ work[t].inode \in Inodes /\ work[t].at \in Filing /\ work[t] # None
             /\ Carried(work[t]) /\ work[t].id \in Ids /\ Filed(work[t].inode)
             /\ content[work[t].inode] = work[t].file \/ work[t].inode \in shared
  <2>1. work[t] # None /\ work[t].at \in Filing /\ Carried(work[t]) /\ work[t].at = "store"
    BY <1>1 DEF Shapes, Filing
  <2>2. work[t].inode \in Inodes /\ work[t].id \in Ids
    BY <1>1, <2>1 DEF Carried
  <2>3. Filed(work[t].inode)
    BY <2>1 DEF Filed
  <2>4. content[work[t].inode] = work[t].file \/ work[t].inode \in shared
    BY <1>1 DEF Hashed
  <2> QED
    BY <2>1, <2>2, <2>3, <2>4
\* Their files are not touched.
<1>2. ASSUME NEW s \in Sessions, NEW w, Becomes(s, w),
             Storing(w) => content'[w.inode] = w.file,
             \A t \in Sessions : t # s /\ Storing(work[t]) =>
               \/ work[t].inode \in shared'
               \/ /\ content'[work[t].inode] = content[work[t].inode]
                  /\ work[t].inode \in shared => work[t].inode \in shared'
      PROVE  Hashed'
  <2>1. work'[s] = w /\ \A t \in Sessions : t # s => work'[t] = work[t]
    BY <1>2, BecomesIs
  <2>2. ASSUME NEW t \in Sessions, Storing(work'[t])
        PROVE  content'[work'[t].inode] = work'[t].file \/ work'[t].inode \in shared'
    <3>1. CASE t = s
      BY <1>2, <2>1, <2>2, <3>1
    <3>2. CASE t # s
      <4>1. work'[t] = work[t] /\ Storing(work[t])
        BY <2>1, <2>2, <3>2
      <4> QED
        BY <1>1, <1>2, <3>2, <4>1
    <3> QED
      BY <3>1, <3>2
  <2> QED
    BY <2>2 DEF Hashed
<1>3. ASSUME NEW s \in Sessions, NEW w, Becomes(s, w), ~Storing(w), UNCHANGED <<content, shared>>
      PROVE  Hashed'
  BY <1>2, <1>3
<1>4. ASSUME UNCHANGED work,
             \A t \in Sessions : Storing(work[t]) =>
               \/ work[t].inode \in shared'
               \/ /\ content'[work[t].inode] = content[work[t].inode]
                  /\ work[t].inode \in shared => work[t].inode \in shared'
      PROVE  Hashed'
  BY <1>1, <1>4 DEF Hashed
<1>5. ASSUME NEW s \in Sessions, NEW w \in Work, Begins(s, w)
      PROVE  Hashed'
  BY <1>3, <1>5 DEF Begins
<1>6. ASSUME NEW s \in Sessions, NEW w \in Work, Advances(s, w)
      PROVE  Hashed'
  <2>1. UNCHANGED <<content, shared>> /\ Becomes(s, w)
    BY <1>6 DEF Advances
  <2>2. work[s] # None /\ Carried(work[s])
    BY <1>6 DEF Advances, Shapes
  <2>3. Storing(w) => content[w.inode] = w.file
    BY <1>6, <2>2 DEF Advances, Carried
  <2> HIDE DEF Storing
  <2> QED
    BY <1>2, <2>1, <2>3
<1>7. ASSUME NEW s \in Sessions, NEW w, Becomes(s, w), ~Storing(w), work[s] # None, Unlink({work[s].id})
      PROVE  Hashed'
  <2>1. ASSUME NEW t \in Sessions, t # s, Storing(work[t])
        PROVE  /\ content'[work[t].inode] = content[work[t].inode]
               /\ work[t].inode \in shared => work[t].inode \in shared'
    <3>1. /\ work[t].inode \in Inodes /\ work[t].at \in Filing /\ work[t] # None /\ Carried(work[t])
      BY <1>1, <2>1
    <3>2. work[t].id \notin {work[s].id}
      BY <1>7, <2>1, <3>1, OthersKeep
    <3> QED
      BY <1>7, <3>1, <3>2, UnlinkSafe
  <2> HIDE DEF Storing
  <2> QED
    BY <1>2, <1>7, <2>1
<1>8. ASSUME NEW s \in Sessions, NEW w \in Work, Repeats(s, w)
      PROVE  Hashed'
  BY <1>7, <1>8 DEF Repeats
<1>9. ASSUME NEW s \in Sessions, Fails(s)
      PROVE  Hashed'
  BY <1>7, <1>9 DEF Fails, GiveUp, Done, Becomes
<1>10. ASSUME NEW s \in Sessions, NEW w \in Work, Stores(s, w)
      PROVE  Hashed'
  BY <1>3, <1>10 DEF Stores
<1>11. ASSUME NEW s \in Sessions, NEW k \in Inodes, NEW w \in Work, Creates(s, k, w)
      PROVE  Hashed'
  <2>1. Becomes(s, w) /\ ~Storing(w) /\ shared' = shared
    BY <1>11 DEF Creates
  <2>2. ASSUME NEW t \in Sessions, Storing(work[t])
        PROVE  content'[work[t].inode] = content[work[t].inode]
    <3>1. work[t].inode \in Inodes /\ work[t].inode # k
      BY <1>1, <1>11, <2>2, CreatesApart
    <3> QED
      BY <1>11, <3>1 DEF Creates, TypeOK
  <2> HIDE DEF Storing
  <2> QED
    BY <1>2, <2>1, <2>2
<1>12. ASSUME NEW s \in Sessions, NEW i \in Ids, Finishes(s, i)
      PROVE  Hashed'
  <2> DEFINE w == [at |-> "lock", surface |-> "ticket", file |-> tickets[i].file,
                   name |-> tickets[i].name, id |-> i, inode |-> path[i]]
  <2>1. Becomes(s, w) /\ ~Storing(w) /\ content' = content /\ shared \subseteq shared'
    BY <1>12 DEF Finishes
  <2> HIDE DEF w, Storing
  <2> QED
    BY <1>2, <2>1
<1>13. ASSUME NEW s \in Sessions, OpenRefused(s) \/ InsertUpload(s) \/ InsertDownload(s) \/ AddFile(s)
      PROVE  Hashed'
  BY <1>3, <1>13 DEF OpenRefused, InsertUpload, InsertDownload, AddFile, Done, Becomes
<1>14. ASSUME NEW s \in Sessions, NEW c \in Contents, PutWrite(s, c)
      PROVE  Hashed'
  <2>1. Becomes(s, None) /\ shared' = shared /\ Written(work[s].inode)
    BY <1>14 DEF PutWrite, Done, Becomes, Written
  <2>2. ASSUME NEW t \in Sessions, Storing(work[t])
        PROVE  \/ work[t].inode \in shared
               \/ content'[work[t].inode] = content[work[t].inode]
    <3>1. work[t].inode \in Inodes /\ Filed(work[t].inode)
      BY <1>1, <2>2
    <3>2. CASE work[t].inode = work[s].inode
      BY <2>1, <3>1, <3>2 DEF Writers
    <3>3. CASE work[t].inode # work[s].inode
      BY <1>14, <3>1, <3>3 DEF PutWrite, TypeOK
    <3> QED
      BY <3>2, <3>3
  <2>3. ~Storing(None)
    OBVIOUS
  <2> HIDE DEF Storing
  <2> QED
    BY <1>2, <2>1, <2>2, <2>3
<1>15. ASSUME NEW gone \in SUBSET Ids, Sweeps(gone)
      PROVE  Hashed'
  <2> DEFINE ids == {i \in gone : tickets[i].upload}
  <2>1. UNCHANGED work /\ Unlink(ids) /\ \A i \in ids : i \in Ids /\ tickets[i] # None
    BY <1>15 DEF Sweeps
  <2> HIDE DEF ids
  <2>2. ASSUME NEW t \in Sessions, Storing(work[t])
        PROVE  /\ content'[work[t].inode] = content[work[t].inode]
               /\ work[t].inode \in shared => work[t].inode \in shared'
    <3>1. work[t].inode \in Inodes /\ work[t].at \in Filing /\ work[t] # None /\ work[t].id \in Ids
      BY <1>1, <2>2
    <3>2. work[t].id \notin ids
      BY <1>0, <2>1, <3>1 DEF Numbered
    <3> QED
      BY <2>1, <3>1, <3>2, UnlinkSafe
  <2> HIDE DEF Storing
  <2> QED
    BY <1>4, <2>1, <2>2
<1>16. ASSUME Beside
      PROVE  Hashed'
  <2>1. UNCHANGED <<work, shared>>
    BY <1>16, BesideIs
  <2>2. ASSUME NEW t \in Sessions, Storing(work[t])
        PROVE  work[t].inode \in shared \/ content'[work[t].inode] = content[work[t].inode]
    <3>1. work[t].inode \in Inodes /\ Filed(work[t].inode)
      BY <1>1, <2>2
    <3>2. CASE Written(work[t].inode)
      BY <3>1, <3>2 DEF Writers
    <3>3. CASE ~Written(work[t].inode)
      BY <1>16, <3>1, <3>3 DEF Beside, StreamOpen, StreamEnd, StreamWrite, Delete, Deny, Written, TypeOK
    <3> QED
      BY <3>2, <3>3
  <2> HIDE DEF Storing
  <2> QED
    BY <1>4, <2>1, <2>2
<1>17. ASSUME Restart
      PROVE  Hashed'
  BY <1>17 DEF Restart, Hashed
<1>18. ASSUME NEW f \in Files, evict_unreferenced_over(f)
      PROVE  Hashed'
  <2>1. UNCHANGED work
    BY <1>18, EvictIs
  <2>2. ASSUME NEW t \in Sessions, Storing(work[t])
        PROVE  /\ content'[work[t].inode] = content[work[t].inode]
               /\ work[t].inode \in shared => work[t].inode \in shared'
    <3>1. /\ work[t].inode \in Inodes /\ work[t].at \in Filing /\ work[t] # None
          /\ work[t].id \in Ids /\ Carried(work[t])
      BY <1>1, <2>2
    <3>2. path[work[t].id] = work[t].inode
      BY <1>0, <3>1 DEF Carried, Placed
    <3>3. work[t].inode # blobs[f]
      BY <1>0, <3>1, <3>2 DEF Apart
    <3> QED
      BY <1>18, <3>1, <3>3, EvictIs
  <2> HIDE DEF Storing
  <2> QED
    BY <1>4, <2>1, <2>2
<1> QED
  BY <1>5, <1>6, <1>8, <1>9, <1>10, <1>11, <1>12, <1>13, <1>14, <1>15, <1>16, <1>17, <1>18 DEF Step

\* So what is stored under a hash has it, but for such a writer.
LEMMA IntactStep ==
  ASSUME TypeOK, TypeOK', Shapes, Numbered, Apart, Placed, Writers, Hashed, BlobIntact, Step
  PROVE  BlobIntact'
<1>0. None \notin Inodes /\ Own \notin Inodes /\ None # Own /\ None \notin Ids
  BY NoneIsNo
<1> USE RecordsAssumption DEF stageVars, libraryVars
\* Rows stay or go, and the blobs are what they were.
<1>1. ASSUME UNCHANGED <<blobs, evicted>>, \A n \in Names : nodes'[n] # None => nodes'[n] = nodes[n],
             \A f \in Files : blobs[f] \in Inodes =>
               \/ blobs[f] \in shared'
               \/ /\ content'[blobs[f]] = content[blobs[f]]
                  /\ blobs[f] \in shared => blobs[f] \in shared'
      PROVE  BlobIntact'
  BY <1>1 DEF BlobIntact, StoredOrSwept
<1>2. ASSUME NEW ids, Unlink(ids), UNCHANGED <<blobs, nodes, evicted>>
      PROVE  BlobIntact'
  <2>1. \A f \in Files : blobs[f] \in Inodes =>
          content'[blobs[f]] = content[blobs[f]] /\ (blobs[f] \in shared' <=> blobs[f] \in shared)
    BY <1>2, UnlinkSafe
  <2> QED
    BY <1>1, <1>2, <2>1
<1>3. ASSUME NEW s \in Sessions, NEW w \in Work, Begins(s, w) \/ Advances(s, w)
      PROVE  BlobIntact'
  BY <1>1, <1>3 DEF Begins, Advances
<1>4. ASSUME NEW s \in Sessions, NEW w \in Work, Repeats(s, w)
      PROVE  BlobIntact'
  BY <1>2, <1>4 DEF Repeats
<1>5. ASSUME NEW s \in Sessions, NEW w \in Work, Stores(s, w)
      PROVE  BlobIntact'
  <2>1. work[s] # None /\ work[s].at = "store" /\ work[s].file \in Files
    BY <1>5 DEF Stores, Shapes, Carried
  <2>2. /\ blobs'[work[s].file] = IF work[s].inode = None THEN Own ELSE work[s].inode
        /\ \A f \in Files : f # work[s].file => blobs'[f] = blobs[f]
        /\ UNCHANGED <<content, shared, nodes>>
    BY <1>5, <2>1 DEF Stores, TypeOK
  <2>3. \A f \in Files : StoredOrSwept(f) => StoredOrSwept(f)'
    BY <1>0, <1>5, <2>1, <2>2 DEF Stores, StoredOrSwept
  <2>4. blobs'[work[s].file] \in Inodes =>
          \/ content[blobs'[work[s].file]] = work[s].file
          \/ blobs'[work[s].file] \in shared
    BY <1>0, <2>1, <2>2 DEF Hashed
  <2>5. \A n \in Names : nodes[n] # None => nodes[n].file \in Files
    BY DEF TypeOK, Row
  <2> QED
    BY <2>2, <2>3, <2>4, <2>5 DEF BlobIntact
<1>6. ASSUME NEW s \in Sessions, NEW k \in Inodes, NEW w \in Work, Creates(s, k, w)
      PROVE  BlobIntact'
  <2>1. \A f \in Files : blobs[f] # k
    BY <1>6, CreatesApart
  <2>2. UNCHANGED <<blobs, nodes, evicted, shared>> /\ \A j \in Inodes : j # k => content'[j] = content[j]
    BY <1>6 DEF Creates, TypeOK
  <2> QED
    BY <1>1, <2>1, <2>2
<1>7. ASSUME NEW s \in Sessions, NEW i \in Ids, Finishes(s, i)
      PROVE  BlobIntact'
  BY <1>1, <1>7 DEF Finishes
<1>8. ASSUME NEW s \in Sessions, Fails(s)
      PROVE  BlobIntact'
  BY <1>2, <1>8 DEF Fails, GiveUp
<1>9. ASSUME NEW s \in Sessions, OpenRefused(s) \/ InsertUpload(s) \/ InsertDownload(s)
      PROVE  BlobIntact'
  BY <1>1, <1>9 DEF OpenRefused, InsertUpload, InsertDownload
<1>10. ASSUME NEW s \in Sessions, AddFile(s)
      PROVE  BlobIntact'
  <2>1. work[s] # None /\ work[s].at = "add" /\ StoredOrSwept(work[s].file)
    BY <1>10 DEF AddFile, At, Placed
  <2>2. PICK n \in Names : nodes' = [nodes EXCEPT ![n] = [account |-> AccountOf[s], file |-> work[s].file]]
    BY <1>10 DEF AddFile
  <2>3. /\ nodes'[n].file = work[s].file /\ \A m \in Names : m # n => nodes'[m] = nodes[m]
        /\ UNCHANGED <<blobs, content, evicted, shared>>
    BY <1>10, <2>2 DEF AddFile, TypeOK
  <2> QED
    BY <2>1, <2>3 DEF BlobIntact, StoredOrSwept
<1>11. ASSUME NEW s \in Sessions, NEW c \in Contents, PutWrite(s, c)
      PROVE  BlobIntact'
  <2>1. UNCHANGED <<blobs, nodes, evicted, shared>> /\ Written(work[s].inode)
    BY <1>11 DEF PutWrite, Written
  <2>2. ASSUME NEW f \in Files, blobs[f] \in Inodes
        PROVE  blobs[f] \in shared \/ content'[blobs[f]] = content[blobs[f]]
    <3>1. CASE blobs[f] = work[s].inode
      BY <2>1, <2>2, <3>1 DEF Writers, Filed
    <3>2. CASE blobs[f] # work[s].inode
      BY <1>11, <2>2, <3>2 DEF PutWrite, TypeOK
    <3> QED
      BY <3>1, <3>2
  <2> QED
    BY <1>1, <2>1, <2>2
<1>12. ASSUME NEW gone \in SUBSET Ids, Sweeps(gone)
      PROVE  BlobIntact'
  BY <1>2, <1>12 DEF Sweeps
<1>13. ASSUME Beside
      PROVE  BlobIntact'
  <2>1. UNCHANGED <<blobs, evicted, shared>>
    BY <1>13, BesideIs
  <2>2. \A n \in Names : nodes'[n] # None => nodes'[n] = nodes[n]
    BY <1>13 DEF Beside, StreamOpen, StreamEnd, StreamWrite, Delete, Deny, TypeOK
  <2>3. ASSUME NEW f \in Files, blobs[f] \in Inodes
        PROVE  blobs[f] \in shared \/ content'[blobs[f]] = content[blobs[f]]
    <3>1. CASE Written(blobs[f])
      BY <2>3, <3>1 DEF Writers, Filed
    <3>2. CASE ~Written(blobs[f])
      BY <1>13, <2>3, <3>2 DEF Beside, StreamOpen, StreamEnd, StreamWrite, Delete, Deny, Written, TypeOK
    <3> QED
      BY <3>1, <3>2
  <2> QED
    BY <1>1, <2>1, <2>2, <2>3
<1>14. ASSUME Restart
      PROVE  BlobIntact'
  <2>1. UNCHANGED <<blobs, nodes, evicted>>
    BY <1>14 DEF Restart
  <2>2. \A f \in Files : blobs[f] \in Inodes =>
          content'[blobs[f]] = content[blobs[f]] /\ (blobs[f] \in shared => blobs[f] \in shared')
    BY <1>14 DEF Restart
  <2> QED
    BY <1>1, <2>1, <2>2
<1>15. ASSUME NEW f \in Files, evict_unreferenced_over(f)
      PROVE  BlobIntact'
  <2>1. UNCHANGED nodes /\ blobs'[f] = None /\ \A g \in Files : g # f => blobs'[g] = blobs[g]
    BY <1>15, EvictIs
  <2>2. \A g \in Files : StoredOrSwept(g) => StoredOrSwept(g)'
    BY <1>15, EvictIs
  <2>3. ASSUME NEW g \in Files, blobs'[g] \in Inodes
        PROVE  content'[blobs'[g]] = g \/ blobs'[g] \in shared'
    <3>1. g # f /\ blobs'[g] = blobs[g] /\ blobs[g] \in Inodes
      BY <1>0, <2>1, <2>3
    <3>2. blobs[g] # blobs[f]
      BY <3>1 DEF Apart
    <3>3. content'[blobs[g]] = content[blobs[g]] /\ (blobs[g] \in shared => blobs[g] \in shared')
      BY <1>15, <3>1, <3>2, EvictIs
    <3> QED
      BY <3>1, <3>3 DEF BlobIntact
  <2>4. \A n \in Names : nodes[n] # None => nodes[n].file \in Files
    BY DEF TypeOK, Row
  <2> QED
    BY <2>1, <2>2, <2>3, <2>4 DEF BlobIntact
<1> QED
  BY <1>3, <1>4, <1>5, <1>6, <1>7, <1>8, <1>9, <1>10, <1>11, <1>12, <1>13, <1>14, <1>15 DEF Step

-----------------------------------------------------------------------------
(* Denials.                                                                *)

\* A file that is denied while it is filed is denied after the lock was taken,
\* or after the surface looked.
LEMMA DenialsStep ==
  ASSUME TypeOK, TypeOK', Shapes, Locked, Denials, Step
  PROVE  Denials'
<1> USE RecordsAssumption, SessionsAssumption DEF stageVars, libraryVars
<1> DEFINE Excused(t, v) ==
             \/ t \in after \/ v.surface = "zmodem"
             \/ v.surface = "hotline" /\ v.at \in {"store", "recheck"}
           Asked(v) == v # None /\ v.at \in UnderLock /\ v.file \in denied
<1>0. after \subseteq Sessions /\ None \notin Sessions
  BY DEF TypeOK
<1>1. ASSUME NEW s \in Sessions, NEW w, Becomes(s, w), UNCHANGED <<denied, after>>,
             Asked(w) => Excused(s, w), after = {} \/ commit' = commit
      PROVE  Denials'
  <2>1. work'[s] = w /\ \A t \in Sessions : t # s => work'[t] = work[t]
    BY <1>1, BecomesIs
  <2> QED
    BY <1>1, <2>1 DEF Denials
<1>2. ASSUME UNCHANGED <<work, denied, after, commit>>
      PROVE  Denials'
  BY <1>2 DEF Denials
\* A request that leaves the lock.
<1>3. ASSUME NEW s \in Sessions, Becomes(s, None), commit' = None, after' = after \ {s}, denied' = denied,
             commit = None \/ commit = s
      PROVE  Denials'
  <2>1. work'[s] = None /\ \A t \in Sessions : t # s => work'[t] = work[t]
    BY <1>3, BecomesIs
  <2>2. after' = {}
    BY <1>0, <1>3 DEF Denials
  <2>3. \A t \in Sessions : t # s => ~(work[t] # None /\ work[t].at \in UnderLock)
    BY <1>3 DEF Locked
  <2> QED
    BY <2>1, <2>2, <2>3 DEF Denials
<1>4. ASSUME NEW s \in Sessions, NEW w \in Work, Begins(s, w)
      PROVE  Denials'
  BY <1>1, <1>4 DEF Begins, UnderLock
<1>5. ASSUME NEW s \in Sessions, NEW w \in Work, Advances(s, w)
      PROVE  Denials'
  <2>1. work[s] # None /\ Carried(work[s]) /\ work[s].surface \in Surfaces
    BY <1>5 DEF Advances, Shapes, Work
  <2>2. Asked(w) => Excused(s, w)
    BY <1>5, <2>1 DEF Advances, Carried, Denials, Surfaces, UnderLock
  <2>3. after = {} \/ commit' = commit
    BY <1>0, <1>5 DEF Advances, Denials
  <2> HIDE DEF Asked, Excused
  <2> QED
    BY <1>1, <1>5, <2>2, <2>3 DEF Advances
<1>6. ASSUME NEW s \in Sessions, NEW w \in Work, Repeats(s, w) \/ Stores(s, w)
      PROVE  Denials'
  <2>1. work[s] # None
    BY <1>6 DEF Repeats, Stores
  <2>2. Asked(w) => Excused(s, w)
    BY <1>6, <2>1 DEF Repeats, Stores, Denials, UnderLock
  <2> HIDE DEF Asked, Excused
  <2> QED
    BY <1>1, <1>6, <2>2 DEF Repeats, Stores
<1>7. ASSUME NEW s \in Sessions, NEW k \in Inodes, NEW w \in Work, Creates(s, k, w)
      PROVE  Denials'
  BY <1>1, <1>7 DEF Creates, UnderLock
<1>8. ASSUME NEW s \in Sessions, NEW i \in Ids, Finishes(s, i)
      PROVE  Denials'
  BY <1>1, <1>8 DEF Finishes, UnderLock
<1>9. ASSUME NEW s \in Sessions, Fails(s)
      PROVE  Denials'
  <2>1. commit = None \/ commit = s
    BY <1>9 DEF Fails, Locked
  <2> QED
    BY <1>3, <1>9, <2>1 DEF Fails, GiveUp, Done, Becomes
<1>10. ASSUME NEW s \in Sessions, AddFile(s)
      PROVE  Denials'
  <2>1. commit = s
    BY <1>10 DEF AddFile, At, Locked, UnderLock
  <2> QED
    BY <1>3, <1>10, <2>1 DEF AddFile, Done, Becomes
<1>11. ASSUME NEW s \in Sessions,
              \/ OpenRefused(s) \/ InsertUpload(s) \/ InsertDownload(s)
              \/ \E c \in Contents : PutWrite(s, c)
      PROVE  Denials'
  BY <1>1, <1>11 DEF OpenRefused, InsertUpload, InsertDownload, PutWrite, Done, Becomes
<1>12. ASSUME NEW gone \in SUBSET Ids, Sweeps(gone)
      PROVE  Denials'
  BY <1>2, <1>12 DEF Sweeps
<1>13. ASSUME Beside
      PROVE  Denials'
  <2>1. CASE \E f \in Files : Deny(f)
    <3>1. PICK f \in Files : Deny(f)
      BY <2>1
    <3>2. /\ denied' = denied \cup {f} /\ UNCHANGED <<work, commit>>
          /\ after' = after \cup {s \in Sessions : commit = s /\ work[s].file = f}
      BY <3>1 DEF Deny
    <3>3. \A s \in Sessions : work[s] # None /\ work[s].at \in UnderLock => commit = s
      BY DEF Locked
    <3> QED
      BY <3>2, <3>3 DEF Denials
  <2>2. CASE ~\E f \in Files : Deny(f)
    <3>1. UNCHANGED <<denied, after>>
      BY <1>13, <2>2 DEF Beside, StreamOpen, StreamEnd, StreamWrite, Delete
    <3> QED
      BY <1>2, <1>13, <3>1, BesideIs
  <2> QED
    BY <2>1, <2>2
<1>14. ASSUME Restart
      PROVE  Denials'
  BY <1>14 DEF Restart, Denials
<1>15. ASSUME NEW f \in Files, evict_unreferenced_over(f)
      PROVE  Denials'
  BY <1>2, <1>15, EvictIs
<1> QED
  BY <1>4, <1>5, <1>6, <1>7, <1>8, <1>9, <1>10, <1>11, <1>12, <1>13, <1>14, <1>15 DEF Step

-----------------------------------------------------------------------------
(* The cap on an account's tickets.                                        *)

\* Tickets and sessions can be counted.
LEMMA Counted ==
  ASSUME NEW S, S \in SUBSET Ids \/ S \in SUBSET Sessions
  PROVE  IsFiniteSet(S) /\ Cardinality(S) \in Nat
<1>1. IsFiniteSet(Ids)
  BY BoundsAssumption, FS_Interval DEF Ids
<1>2. IsFiniteSet(S)
  BY <1>1, SessionsAssumption, FS_Subset
<1> QED
  BY <1>2, FS_CardinalityType

\* One more at most.
LEMMA OneMore ==
  ASSUME NEW S, NEW T, NEW x, IsFiniteSet(T), S \subseteq T \cup {x}
  PROVE  Cardinality(S) <= Cardinality(T) + 1
<1>1. IsFiniteSet(T \cup {x}) /\ Cardinality(T \cup {x}) <= Cardinality(T) + 1
      /\ Cardinality(T) \in Nat
  BY FS_AddElement, FS_CardinalityType
<1>2. IsFiniteSet(S) /\ Cardinality(S) <= Cardinality(T \cup {x})
  BY <1>1, FS_Subset
<1>3. Cardinality(S) \in Nat /\ Cardinality(T \cup {x}) \in Nat
  BY <1>1, <1>2, FS_CardinalityType
<1> QED
  BY <1>1, <1>2, <1>3

\* One fewer.
LEMMA OneFewer ==
  ASSUME NEW S, NEW T, NEW x, IsFiniteSet(T), x \in T, S \subseteq T \ {x}
  PROVE  Cardinality(S) + 1 <= Cardinality(T)
<1>1. IsFiniteSet(T \ {x}) /\ Cardinality(T \ {x}) = Cardinality(T) - 1
      /\ Cardinality(T) \in Nat
  BY FS_RemoveElement, FS_CardinalityType
<1>2. IsFiniteSet(S) /\ Cardinality(S) <= Cardinality(T \ {x})
  BY <1>1, FS_Subset
<1>3. Cardinality(S) \in Nat /\ Cardinality(T \ {x}) \in Nat
  BY <1>1, <1>2, FS_CardinalityType
<1> QED
  BY <1>1, <1>2, <1>3

\* Each session adds at most one ticket past the cap: it counted those of its
\* account when it began.
LEMMA CapStep ==
  ASSUME TypeOK, Shapes, CapPassedOnlyByRacing, Step
  PROVE  CapPassedOnlyByRacing'
<1> USE RecordsAssumption DEF stageVars, libraryVars
<1> SUFFICES ASSUME Cap > 0, NEW a \in Accounts
             PROVE  Cardinality(Open(a)') + Cardinality(Opening(a)')
                      < Cap + Cardinality({s \in Sessions : AccountOf[s] = a})
  BY DEF CapPassedOnlyByRacing
<1> DEFINE Opens(v) == v # None /\ v.at \in {"gate", "insert", "list"}
           ours == {s \in Sessions : AccountOf[s] = a}
           open1 == Open(a)'
           opening1 == Opening(a)'
<1>1. Opening(a) = {s \in ours : Opens(work[s])}
  BY DEF Opening, At
<1>2. opening1 = {s \in ours : Opens(work'[s])}
  BY DEF Opening, At
<1>3. Open(a) = {i \in Ids : tickets[i] # None /\ AccountOf[tickets[i].session] = a}
  BY DEF Open
<1>4. open1 = {i \in Ids : tickets'[i] # None /\ AccountOf[tickets'[i].session] = a}
  BY DEF Open
<1>5. /\ IsFiniteSet(Open(a)) /\ Cardinality(Open(a)) \in Nat
      /\ IsFiniteSet(Opening(a)) /\ Cardinality(Opening(a)) \in Nat
      /\ IsFiniteSet(open1) /\ Cardinality(open1) \in Nat
      /\ IsFiniteSet(opening1) /\ Cardinality(opening1) \in Nat
      /\ IsFiniteSet(ours) /\ Cardinality(ours) \in Nat
  BY <1>1, <1>2, <1>3, <1>4, Counted
<1>6. Cap \in Nat /\ Cardinality(Open(a)) + Cardinality(Opening(a)) < Cap + Cardinality(ours)
  BY SizesAssumption DEF CapPassedOnlyByRacing
<1> DEFINE Goal == Cardinality(open1) + Cardinality(opening1) < Cap + Cardinality(ours)
<1> SUFFICES Goal
  OBVIOUS
<1> HIDE DEF ours, open1, opening1
\* Nobody else opens, and no ticket is new.
<1>7. ASSUME open1 \subseteq Open(a), opening1 \subseteq Opening(a)
      PROVE  Goal
  <2>1. Cardinality(open1) <= Cardinality(Open(a)) /\ Cardinality(opening1) <= Cardinality(Opening(a))
    BY <1>5, <1>7, FS_Subset
  <2> QED
    BY <1>5, <1>6, <2>1
<1>8. ASSUME UNCHANGED tickets
      PROVE  open1 = Open(a)
  BY <1>3, <1>4, <1>8
<1>9. ASSUME NEW s \in Sessions, NEW w, Becomes(s, w), Opens(w) => Opens(work[s])
      PROVE  opening1 \subseteq Opening(a)
  <2>1. work'[s] = w /\ \A t \in Sessions : t # s => work'[t] = work[t]
    BY <1>9, BecomesIs
  <2> QED
    BY <1>1, <1>2, <1>9, <2>1 DEF ours
<1>10. ASSUME NEW s \in Sessions, NEW w, Becomes(s, w), Opens(w) => Opens(work[s]), UNCHANGED tickets
      PROVE  Goal
  <2> HIDE DEF Opens, Goal
  <2> QED
    BY <1>7, <1>8, <1>9, <1>10
<1>11. ASSUME NEW s \in Sessions, NEW w \in Work, Begins(s, w)
      PROVE  Goal
  <2>1. Becomes(s, w) /\ tickets' = tickets
    BY <1>11 DEF Begins
  <2>2. CASE ~Opens(w)
    <3> HIDE DEF Opens, Goal
    <3> QED
      BY <1>10, <2>1, <2>2
  <2>3. CASE Opens(w) /\ AccountOf[s] = a
    <3>1. Cardinality(Open(a)) < Cap
      BY <1>6, <1>11, <2>3 DEF Begins, UnderCap
    <3>2. opening1 \subseteq ours
      BY <1>2
    <3>3. Cardinality(opening1) <= Cardinality(ours)
      BY <1>5, <3>2, FS_Subset
    <3>4. open1 = Open(a)
      BY <1>8, <2>1
    <3> QED
      BY <1>5, <1>6, <3>1, <3>3, <3>4
  <2>4. CASE AccountOf[s] # a
    <3>1. work'[s] = w /\ \A t \in Sessions : t # s => work'[t] = work[t]
      BY <2>1, BecomesIs
    <3>2. opening1 \subseteq Opening(a)
      BY <1>1, <1>2, <2>4, <3>1 DEF ours
    <3> HIDE DEF Goal
    <3> QED
      BY <1>7, <1>8, <2>1, <3>2
  <2> QED
    BY <2>2, <2>3, <2>4
<1>12. ASSUME NEW s \in Sessions, NEW w \in Work, Advances(s, w) \/ Repeats(s, w) \/ Stores(s, w)
      PROVE  Goal
  <2>1. Becomes(s, w) /\ tickets' = tickets /\ ~Opens(w)
    BY <1>12 DEF Advances, Repeats, Stores
  <2> HIDE DEF Opens, Goal
  <2> QED
    BY <1>10, <2>1
<1>13. ASSUME NEW s \in Sessions, NEW k \in Inodes, NEW w \in Work, Creates(s, k, w)
      PROVE  Goal
  <2>1. Becomes(s, w) /\ tickets' = tickets /\ Opens(work[s])
    BY <1>13 DEF Creates
  <2> HIDE DEF Opens, Goal
  <2> QED
    BY <1>10, <2>1
<1>14. ASSUME NEW s \in Sessions, NEW i \in Ids, Finishes(s, i)
      PROVE  Goal
  <2> DEFINE w == [at |-> "lock", surface |-> "ticket", file |-> tickets[i].file,
                   name |-> tickets[i].name, id |-> i, inode |-> path[i]]
  <2>1. Becomes(s, w) /\ ~Opens(w)
    BY <1>14 DEF Finishes
  <2>2. \A j \in Ids : tickets'[j] # None => tickets'[j] = tickets[j]
    BY <1>14 DEF Finishes, TypeOK
  <2>3. open1 \subseteq Open(a)
    BY <1>3, <1>4, <2>2
  <2> HIDE DEF w, Opens, Goal
  <2> QED
    BY <1>7, <1>9, <2>1, <2>3
<1>15. ASSUME NEW s \in Sessions,
              Fails(s) \/ OpenRefused(s) \/ AddFile(s) \/ \E c \in Contents : PutWrite(s, c)
      PROVE  Goal
  <2>1. Becomes(s, None) /\ tickets' = tickets /\ ~Opens(None)
    BY <1>15 DEF Fails, GiveUp, OpenRefused, AddFile, PutWrite, Done, Becomes
  <2> HIDE DEF Opens, Goal
  <2> QED
    BY <1>10, <2>1
\* A ticket for an opening.
<1>16. ASSUME NEW s \in Sessions, NEW i \in Ids, Opens(work[s]), work'[s] = None,
              \A t \in Sessions : t # s => work'[t] = work[t],
              tickets'[i].session = s, \A j \in Ids : j # i => tickets'[j] = tickets[j]
      PROVE  Goal
  <2>1. CASE AccountOf[s] = a
    <3>1. s \in Opening(a) /\ opening1 \subseteq Opening(a) \ {s}
      BY <1>1, <1>2, <1>16, <2>1 DEF ours
    <3>2. open1 \subseteq Open(a) \cup {i}
      BY <1>3, <1>4, <1>16
    <3>3. Cardinality(opening1) + 1 <= Cardinality(Opening(a))
      BY <1>5, <3>1, OneFewer
    <3>4. Cardinality(open1) <= Cardinality(Open(a)) + 1
      BY <1>5, <3>2, OneMore
    <3> QED
      BY <1>5, <1>6, <3>3, <3>4
  <2>2. CASE AccountOf[s] # a
    <3>1. opening1 \subseteq Opening(a)
      BY <1>1, <1>2, <1>16 DEF ours
    <3>2. open1 \subseteq Open(a)
      BY <1>3, <1>4, <1>16, <2>2
    <3> HIDE DEF Goal
    <3> QED
      BY <1>7, <3>1, <3>2
  <2> QED
    BY <2>1, <2>2
<1>17. ASSUME NEW s \in Sessions, InsertUpload(s)
      PROVE  Goal
  <2>1. Opens(work[s]) /\ work[s].id \in Ids
    BY <1>17 DEF InsertUpload, At, Shapes, Carried
  <2>2. work'[s] = None /\ \A t \in Sessions : t # s => work'[t] = work[t]
    BY <1>17 DEF InsertUpload, Done, TypeOK
  <2>3. tickets'[work[s].id].session = s /\ \A j \in Ids : j # work[s].id => tickets'[j] = tickets[j]
    BY <1>17, <2>1 DEF InsertUpload, TypeOK
  <2> HIDE DEF Opens, Goal
  <2> QED
    BY <1>16, <2>1, <2>2, <2>3
<1>18. ASSUME NEW s \in Sessions, InsertDownload(s)
      PROVE  Goal
  <2>1. Opens(work[s]) /\ nextId \in Ids
    BY <1>18 DEF InsertDownload, At
  <2>2. work'[s] = None /\ \A t \in Sessions : t # s => work'[t] = work[t]
    BY <1>18 DEF InsertDownload, Done, TypeOK
  <2>3. tickets'[nextId].session = s /\ \A j \in Ids : j # nextId => tickets'[j] = tickets[j]
    BY <1>18, <2>1 DEF InsertDownload, TypeOK
  <2> HIDE DEF Opens, Goal
  <2> QED
    BY <1>16, <2>1, <2>2, <2>3
<1>19. ASSUME UNCHANGED work, \A i \in Ids : tickets'[i] # None => tickets'[i] = tickets[i]
      PROVE  Goal
  <2>1. opening1 \subseteq Opening(a) /\ open1 \subseteq Open(a)
    BY <1>1, <1>2, <1>3, <1>4, <1>19
  <2> HIDE DEF Goal
  <2> QED
    BY <1>7, <2>1
<1>20. ASSUME NEW gone \in SUBSET Ids, Sweeps(gone)
      PROVE  Goal
  <2>1. UNCHANGED work /\ \A i \in Ids : tickets'[i] # None => tickets'[i] = tickets[i]
    BY <1>20 DEF Sweeps
  <2> HIDE DEF Goal
  <2> QED
    BY <1>19, <2>1
<1>21. ASSUME Beside
      PROVE  Goal
  <2>1. UNCHANGED <<work, tickets>>
    BY <1>21, BesideIs
  <2> HIDE DEF Goal
  <2> QED
    BY <1>19, <2>1
<1>22. ASSUME Restart
      PROVE  Goal
  <2>1. (\A s \in Sessions : work'[s] = None) /\ \A i \in Ids : tickets'[i] = None
    BY <1>22 DEF Restart
  <2>2. opening1 = {} /\ open1 = {}
    BY <1>2, <1>4, <2>1 DEF ours
  <2>3. Cardinality(opening1) = 0 /\ Cardinality(open1) = 0
    BY <2>2, FS_EmptySet
  <2> QED
    BY <1>5, <1>6, <2>3
<1>23. ASSUME NEW f \in Files, evict_unreferenced_over(f)
      PROVE  Goal
  <2>1. UNCHANGED <<work, tickets>>
    BY <1>23, EvictIs
  <2> HIDE DEF Goal
  <2> QED
    BY <1>19, <2>1
<1> HIDE DEF Goal
<1> QED
  BY <1>11, <1>12, <1>13, <1>14, <1>15, <1>17, <1>18, <1>20, <1>21, <1>22, <1>23 DEF Step

-----------------------------------------------------------------------------
(* Sums over finite sets.                                                  *)

\* A set of natural numbers that is not empty has a least one.
LEMMA LeastOf ==
  ASSUME NEW S \in SUBSET Nat, S # {}
  PROVE  \E n \in S : \A m \in S : n <= m
<1>1. PICK n \in S : \A m \in S : ~(<<m, n>> \in OpToRel(<, Nat))
  BY WFMin, NatLessThanWellFounded
<1>2. \A m \in S : ~(m < n)
  BY <1>1 DEF OpToRel
<1> QED
  BY <1>2

\* Among subsets of a finite set there is a smallest.
LEMMA SmallestOf ==
  ASSUME NEW S, IsFiniteSet(S), NEW B \in SUBSET (SUBSET S), B # {}
  PROVE  \E T \in B : \A x \in T : T \ {x} \notin B
<1> DEFINE sizes == {Cardinality(T) : T \in B}
<1>1. \A T \in B : IsFiniteSet(T) /\ Cardinality(T) \in Nat
  BY FS_Subset, FS_CardinalityType
<1>2. sizes \in SUBSET Nat /\ sizes # {}
  BY <1>1
<1>3. PICK c \in sizes : \A d \in sizes : c <= d
  <2> HIDE DEF sizes
  <2> QED
    BY <1>2, LeastOf
<1>4. PICK T \in B : c = Cardinality(T)
  BY <1>3
<1>5. ASSUME NEW x \in T, T \ {x} \in B PROVE FALSE
  <2>1. Cardinality(T \ {x}) = Cardinality(T) - 1 /\ Cardinality(T) \in Nat
    BY <1>1, FS_RemoveElement
  <2>2. Cardinality(T) <= Cardinality(T \ {x})
    BY <1>3, <1>4, <1>5
  <2> QED
    BY <2>1, <2>2
<1> QED
  BY <1>5

\* g sums w over each subset of S, taking the members as MapThenSumSet does.
Pick(s) == CHOOSE x \in s : TRUE
Adds(g, S, w) ==
  /\ g \in [SUBSET S -> Nat]
  /\ \A s \in SUBSET S : g[s] = IF s = {} THEN 0 ELSE w[Pick(s)] + g[s \ {Pick(s)}]

\* Pick chooses a member.
LEMMA PickIn ==
  ASSUME NEW s, s # {}
  PROVE  Pick(s) \in s
BY Zenon DEF Pick

\* There is such a g: one for the subsets of n members gives one for those
\* of n + 1.
LEMMA SumExists ==
  ASSUME NEW S, IsFiniteSet(S), NEW w \in [S -> Nat]
  PROVE  \E g : Adds(g, S, w)
<1> DEFINE D(n) == {s \in SUBSET S : Cardinality(s) <= n}
           Upto(n, g) == /\ g \in [D(n) -> Nat]
                         /\ \A s \in D(n) : g[s] = IF s = {} THEN 0 ELSE w[Pick(s)] + g[s \ {Pick(s)}]
           bad == {n \in Nat : ~\E g : Upto(n, g)}
<1>1. \A s \in SUBSET S : IsFiniteSet(s) /\ Cardinality(s) \in Nat
  BY FS_Subset, FS_CardinalityType
<1>2. \A s \in SUBSET S : s # {} =>
        /\ Pick(s) \in s /\ s \ {Pick(s)} \in SUBSET S /\ Cardinality(s) # 0
        /\ Cardinality(s \ {Pick(s)}) = Cardinality(s) - 1
  BY <1>1, PickIn, FS_RemoveElement, FS_EmptySet
<1>3. Cardinality({}) = 0 /\ {} \in SUBSET S
  BY FS_EmptySet
<1>4. bad = {}
  <2> SUFFICES ASSUME bad # {} PROVE FALSE
    OBVIOUS
  <2>1. PICK n \in bad : \A m \in bad : n <= m
    <3>1. bad \in SUBSET Nat
      OBVIOUS
    <3> HIDE DEF bad
    <3> QED
      BY <3>1, LeastOf
  <2>2. CASE n = 0
    <3> DEFINE g == [s \in D(0) |-> 0]
    <3>1. ASSUME NEW s \in D(0) PROVE s = {}
      <4>1. Cardinality(s) <= 0 /\ Cardinality(s) \in Nat
        BY <1>1
      <4>2. Cardinality(s) = 0
        BY <4>1
      <4> QED
        BY <1>2, <4>2
    <3>2. Upto(0, g)
      BY <3>1
    <3> QED
      BY <2>1, <2>2, <3>2
  <2>3. CASE n # 0
    <3>1. n - 1 \in Nat /\ n \in Nat /\ n - 1 \notin bad
      <4>1. bad \subseteq Nat
        OBVIOUS
      <4> HIDE DEF bad
      <4>2. n \in Nat /\ n - 1 \in Nat /\ ~(n <= n - 1)
        BY <2>1, <2>3, <4>1
      <4> QED
        BY <2>1, <4>2
    <3>2. PICK h : Upto(n - 1, h)
      BY <3>1
    <3> DEFINE g == [s \in D(n) |-> IF s = {} THEN 0 ELSE w[Pick(s)] + h[s \ {Pick(s)}]]
    <3>3. ASSUME NEW s \in D(n), s # {}
          PROVE  s \ {Pick(s)} \in D(n - 1) /\ s \ {Pick(s)} \in D(n) /\ w[Pick(s)] \in Nat
      BY <1>1, <1>2, <3>1, <3>3
    <3>4. g \in [D(n) -> Nat]
      BY <3>2, <3>3
    <3>5. ASSUME NEW s \in D(n - 1) PROVE s \in D(n) /\ g[s] = h[s]
      BY <1>1, <3>1, <3>2, <3>5
    <3>6. ASSUME NEW s \in D(n), s # {} PROVE g[s] = w[Pick(s)] + g[s \ {Pick(s)}]
      <4>1. g[s \ {Pick(s)}] = h[s \ {Pick(s)}]
        BY <3>3, <3>5, <3>6
      <4> QED
        BY <3>6, <4>1
    <3>7. Upto(n, g)
      BY <3>4, <3>6
    <3> QED
      BY <2>1, <3>7
  <2> QED
    BY <2>2, <2>3
<1>5. Cardinality(S) \in Nat
  BY <1>1
<1>6. PICK g : Upto(Cardinality(S), g)
  BY <1>4, <1>5
<1>7. D(Cardinality(S)) = SUBSET S
  BY FS_Subset
<1> QED
  BY <1>6, <1>7 DEF Adds

\* Whichever member is taken first.
LEMMA SumRemove ==
  ASSUME NEW S, IsFiniteSet(S), NEW w \in [S -> Nat], NEW g, Adds(g, S, w),
         NEW T \in SUBSET S, NEW x \in T
  PROVE  g[T] = w[x] + g[T \ {x}]
<1> DEFINE Bad(U) == \E y \in U : g[U] # w[y] + g[U \ {y}]
           B == {U \in SUBSET S : Bad(U)}
<1> SUFFICES B = {}
  OBVIOUS
<1> SUFFICES ASSUME B # {} PROVE FALSE
  OBVIOUS
<1>1. PICK U \in B : \A y \in U : U \ {y} \notin B
  <2>1. B \in SUBSET (SUBSET S)
    OBVIOUS
  <2> HIDE DEF B
  <2> QED
    BY <2>1, SmallestOf
<1>2. PICK y \in U : g[U] # w[y] + g[U \ {y}]
  BY <1>1
<1> DEFINE c == Pick(U)
<1>3. U \in SUBSET S /\ c \in U /\ g[U] = w[c] + g[U \ {c}]
  BY <1>1, <1>2, PickIn DEF Adds
<1>4. c # y
  BY <1>2, <1>3
<1> HIDE DEF c
<1>5. g[U \ {c}] = w[y] + g[(U \ {c}) \ {y}]
  BY <1>1, <1>2, <1>3, <1>4
<1>6. g[U \ {y}] = w[c] + g[(U \ {y}) \ {c}]
  BY <1>1, <1>2, <1>3, <1>4
<1>7. (U \ {c}) \ {y} = (U \ {y}) \ {c}
  OBVIOUS
<1>8. w[y] \in Nat /\ w[c] \in Nat /\ g[(U \ {y}) \ {c}] \in Nat
  BY <1>2, <1>3 DEF Adds
<1> DEFINE a == w[y]
           b == w[c]
           r == g[(U \ {y}) \ {c}]
<1>9. g[U] = b + (a + r) /\ g[U \ {y}] = b + r /\ a \in Nat /\ b \in Nat /\ r \in Nat
  BY <1>3, <1>5, <1>6, <1>7, <1>8
<1>10. b + (a + r) = a + (b + r)
  <2> HIDE DEF a, b, r
  <2> QED
    BY <1>9
<1> QED
  BY <1>2, <1>9, <1>10

\* A sum depends on what is summed only.
LEMMA SumAgree ==
  ASSUME NEW S, IsFiniteSet(S), NEW R, S \subseteq R, NEW v, NEW w, NEW g, NEW h,
         Adds(g, S, w), Adds(h, R, v), \A x \in S : w[x] = v[x]
  PROVE  g[S] = h[S]
<1> DEFINE B == {U \in SUBSET S : g[U] # h[U]}
<1> SUFFICES B = {}
  OBVIOUS
<1> SUFFICES ASSUME B # {} PROVE FALSE
  OBVIOUS
<1>1. PICK U \in B : \A y \in U : U \ {y} \notin B
  <2>1. B \in SUBSET (SUBSET S)
    OBVIOUS
  <2> HIDE DEF B
  <2> QED
    BY <2>1, SmallestOf
<1>2. CASE U = {}
  BY <1>1, <1>2 DEF Adds
<1>3. CASE U # {}
  <2> DEFINE c == Pick(U)
  <2>1. c \in U /\ U \in SUBSET S /\ U \in SUBSET R
    BY <1>1, <1>3, PickIn
  <2>2. g[U] = w[c] + g[U \ {c}] /\ h[U] = v[c] + h[U \ {c}]
    BY <1>3, <2>1 DEF Adds
  <2> HIDE DEF c
  <2>3. g[U \ {c}] = h[U \ {c}]
    BY <1>1, <2>1
  <2> QED
    BY <1>1, <2>1, <2>2, <2>3
<1> QED
  BY <1>2, <1>3

-----------------------------------------------------------------------------
(* The quota.                                                              *)

\* The rows of an account, and how long their files are.
Rows(N, a) == {n \in Names : N[n] # None /\ N[n].account = a}
Lengths(N, S) == [n \in S |-> Size[N[n].file]]

\* There are finitely many rows.
Listed == IsFiniteSet({n \in Names : nodes[n] # None})

\* What MapThenSumSet computes of them.
LEMMA FoldIs ==
  ASSUME NEW N \in [Names -> Row \cup {None}], NEW S \in SUBSET Names, IsFiniteSet(S),
         \A n \in S : N[n] # None
  PROVE  /\ Lengths(N, S) \in [S -> Nat]
         /\ \E g : Adds(g, S, Lengths(N, S)) /\ MapThenSumSet(LAMBDA n : Size[N[n].file], S) = g[S]
<1> DEFINE w == Lengths(N, S)
           P(h) == h = [s \in SUBSET S |-> IF s = {} THEN 0
                          ELSE Size[N[CHOOSE x \in s : TRUE].file] + h[s \ {CHOOSE x \in s : TRUE}]]
<1>1. w \in [S -> Nat]
  BY SizesAssumption DEF Lengths, Row
<1>2. PICK g : Adds(g, S, w)
  <2> HIDE DEF w
  <2> QED
    BY <1>1, SumExists
<1>3. ASSUME NEW s \in SUBSET S, s # {}
      PROVE  Pick(s) \in s /\ w[Pick(s)] = Size[N[Pick(s)].file]
  BY <1>3, PickIn DEF Lengths
<1>4. P(g)
  <2>1. \A s \in SUBSET S : g[s] = IF s = {} THEN 0 ELSE Size[N[Pick(s)].file] + g[s \ {Pick(s)}]
    BY <1>2, <1>3 DEF Adds
  <2>2. g = [s \in SUBSET S |-> IF s = {} THEN 0 ELSE Size[N[Pick(s)].file] + g[s \ {Pick(s)}]]
    BY <1>2, <2>1 DEF Adds
  <2> QED
    BY <2>2 DEF Pick
<1> DEFINE h == CHOOSE h : P(h)
<1>5. P(h)
  <2> HIDE DEF P
  <2> QED
    BY <1>4, Zenon
<1>6. MapThenSumSet(LAMBDA n : Size[N[n].file], S) = h[S]
  BY DEF MapThenSumSet, MapThenFoldSet
<1> HIDE DEF h
<1>7. h = g
  <2>1. h = [s \in SUBSET S |-> IF s = {} THEN 0 ELSE Size[N[Pick(s)].file] + h[s \ {Pick(s)}]]
    BY <1>5 DEF Pick
  <2> DEFINE B == {U \in SUBSET S : g[U] # h[U]}
  <2>2. B = {}
    <3> SUFFICES ASSUME B # {} PROVE FALSE
      OBVIOUS
    <3>1. PICK U \in B : \A y \in U : U \ {y} \notin B
      <4>1. B \in SUBSET (SUBSET S)
        OBVIOUS
      <4> HIDE DEF B
      <4> QED
        BY <4>1, SmallestOf
    <3>2. CASE U = {}
      BY <1>2, <2>1, <3>1, <3>2 DEF Adds
    <3>3. CASE U # {}
      <4>1. Pick(U) \in U /\ g[U \ {Pick(U)}] = h[U \ {Pick(U)}]
        BY <3>1, <3>3, PickIn
      <4>2. g[U] = Size[N[Pick(U)].file] + g[U \ {Pick(U)}]
        BY <1>2, <1>3, <3>1, <3>3 DEF Adds
      <4>3. h[U] = Size[N[Pick(U)].file] + h[U \ {Pick(U)}]
        BY <2>1, <3>1, <3>3
      <4> QED
        BY <3>1, <4>1, <4>2, <4>3
    <3> QED
      BY <3>2, <3>3
  <2>3. \A s \in SUBSET S : g[s] = h[s]
    BY <2>2
  <2> QED
    BY <1>2, <2>1, <2>3 DEF Adds
<1> QED
  BY <1>1, <1>2, <1>6, <1>7

Total(N, a) == MapThenSumSet(LAMBDA n : Size[N[n].file], Rows(N, a))

\* What an account uses is the sum over its rows, in this state and the next.
LEMMA UsedIs == \A a : Used(a) = Total(nodes, a) /\ Used(a)' = Total(nodes', a)
<1>1. ASSUME NEW a PROVE Used(a) = Total(nodes, a)
  BY DEF Used, Total, Rows
<1>2. ASSUME NEW a PROVE Used(a)' = Total(nodes', a)
  BY DEF Used, Total, Rows, MapThenSumSet, MapThenFoldSet
<1> QED
  BY <1>1, <1>2

\* The sum over an account's rows is a number, and is computed by some g.
LEMMA TotalType ==
  ASSUME NEW N \in [Names -> Row \cup {None}], IsFiniteSet({n \in Names : N[n] # None}), NEW a
  PROVE  /\ Rows(N, a) \in SUBSET Names /\ IsFiniteSet(Rows(N, a)) /\ Total(N, a) \in Nat
         /\ Lengths(N, Rows(N, a)) \in [Rows(N, a) -> Nat]
         /\ \E g : Adds(g, Rows(N, a), Lengths(N, Rows(N, a))) /\ Total(N, a) = g[Rows(N, a)]
<1>1. Rows(N, a) \in SUBSET Names /\ \A n \in Rows(N, a) : N[n] # None
  BY DEF Rows
<1>2. IsFiniteSet(Rows(N, a))
  <2>1. Rows(N, a) \subseteq {n \in Names : N[n] # None}
    BY DEF Rows
  <2> QED
    BY <2>1, FS_Subset
<1>3. /\ Lengths(N, Rows(N, a)) \in [Rows(N, a) -> Nat]
      /\ \E g : Adds(g, Rows(N, a), Lengths(N, Rows(N, a))) /\ Total(N, a) = g[Rows(N, a)]
  BY <1>1, <1>2, FoldIs DEF Total
<1>4. Total(N, a) \in Nat
  BY <1>3 DEF Adds
<1> QED
  BY <1>1, <1>2, <1>3, <1>4

\* A row more or fewer is its file more or less.
LEMMA TotalGrows ==
  ASSUME NEW N \in [Names -> Row \cup {None}], IsFiniteSet({n \in Names : N[n] # None}),
         NEW M \in [Names -> Row \cup {None}], IsFiniteSet({n \in Names : M[n] # None}),
         NEW n \in Names, N[n] = None, M[n] # None, \A m \in Names : m # n => M[m] = N[m],
         NEW a
  PROVE  Total(M, a) = IF M[n].account = a THEN Total(N, a) + Size[M[n].file] ELSE Total(N, a)
<1> DEFINE S == Rows(N, a)
           R == Rows(M, a)
           w == Lengths(N, S)
           v == Lengths(M, R)
<1>1. PICK g : Adds(g, S, w) /\ Total(N, a) = g[S]
  BY TotalType
<1>2. PICK h : Adds(h, R, v) /\ Total(M, a) = h[R]
  BY TotalType
<1>3. IsFiniteSet(S) /\ IsFiniteSet(R) /\ v \in [R -> Nat] /\ Total(N, a) \in Nat
  BY TotalType
<1>4. n \notin S /\ S \subseteq R /\ R = IF M[n].account = a THEN S \cup {n} ELSE S
  BY DEF Rows
<1>5. \A x \in S : w[x] = v[x]
  BY <1>4 DEF Lengths, Rows
<1> HIDE DEF w, v, S, R
<1>6. g[S] = h[S]
  BY <1>1, <1>2, <1>3, <1>4, <1>5, SumAgree
<1>7. CASE M[n].account = a
  <2>1. n \in R /\ R \ {n} = S /\ R \in SUBSET R
    BY <1>4, <1>7
  <2>2. h[R] = v[n] + h[R \ {n}]
    BY <1>2, <1>3, <2>1, SumRemove
  <2>3. v[n] = Size[M[n].file] /\ v[n] \in Nat
    BY <1>3, <2>1 DEF v, Lengths
  <2>4. h[R] = v[n] + Total(N, a)
    BY <1>1, <1>6, <2>1, <2>2
  <2> QED
    BY <1>2, <1>3, <1>7, <2>3, <2>4
<1>8. CASE M[n].account # a
  BY <1>1, <1>2, <1>4, <1>6, <1>8
<1> QED
  BY <1>7, <1>8

\* Adding a row adds its file to what its account has; nothing else adds.
LEMMA UsedStep ==
  ASSUME TypeOK, TypeOK', Shapes, Listed, Step
  PROVE  /\ Listed'
         /\ \A a : Used(a) \in Nat /\ Used(a)' \in Nat
         /\ \A s \in Sessions : AddFile(s) => \A a \in Accounts :
              Used(a)' = IF AccountOf[s] = a THEN Used(a) + Size[work[s].file] ELSE Used(a)
         /\ (\A s \in Sessions : ~AddFile(s)) => \A a : Used(a)' <= Used(a)
<1> USE RecordsAssumption DEF stageVars, libraryVars
<1> DEFINE rows == {n \in Names : nodes[n] # None}
           rows1 == {n \in Names : nodes'[n] # None}
<1>1. nodes \in [Names -> Row \cup {None}] /\ nodes' \in [Names -> Row \cup {None}]
  BY DEF TypeOK
<1>2. nodes' = nodes \/ (\E s \in Sessions : AddFile(s)) \/ (\E n \in Names : Delete(n))
  <2>1. ASSUME NEW s \in Sessions, NEW w \in Work, Begins(s, w) \/ Advances(s, w) \/ Repeats(s, w) \/ Stores(s, w)
        PROVE  nodes' = nodes
    BY <2>1 DEF Begins, Advances, Repeats, Stores
  <2>2. ASSUME NEW s \in Sessions, Fails(s) \/ OpenRefused(s) \/ InsertUpload(s) \/ InsertDownload(s)
        PROVE  nodes' = nodes
    BY <2>2 DEF Fails, OpenRefused, InsertUpload, InsertDownload
  <2>3. ASSUME NEW gone \in SUBSET Ids, Sweeps(gone)
        PROVE  nodes' = nodes
    BY <2>3 DEF Sweeps
  <2>4. ASSUME NEW s \in Sessions, NEW i \in Ids, Finishes(s, i)
        PROVE  nodes' = nodes
    BY <2>4 DEF Finishes
  <2>5. ASSUME NEW s \in Sessions, NEW k \in Inodes, NEW w \in Work, Creates(s, k, w)
        PROVE  nodes' = nodes
    BY <2>5 DEF Creates
  <2>6. ASSUME NEW s \in Sessions, NEW c \in Contents, PutWrite(s, c)
        PROVE  nodes' = nodes
    BY <2>6 DEF PutWrite
  <2>7. ASSUME Beside, \A n \in Names : ~Delete(n)
        PROVE  nodes' = nodes
    BY <2>7 DEF Beside, StreamOpen, StreamEnd, StreamWrite, Deny
  <2>8. ASSUME Restart
        PROVE  nodes' = nodes
    BY <2>8 DEF Restart
  <2>9. ASSUME NEW f \in Files, evict_unreferenced_over(f)
        PROVE  nodes' = nodes
    BY <2>9, EvictIs
  <2> QED
    BY <2>1, <2>2, <2>3, <2>4, <2>5, <2>6, <2>7, <2>8, <2>9 DEF Step
<1>3. ASSUME NEW s \in Sessions, AddFile(s)
      PROVE  \E n \in Names :
               /\ nodes[n] = None /\ nodes'[n] # None
               /\ nodes'[n].account = AccountOf[s] /\ nodes'[n].file = work[s].file
               /\ \A m \in Names : m # n => nodes'[m] = nodes[m]
  <2>1. PICK n \in Names :
          nodes[n] = None /\ nodes' = [nodes EXCEPT ![n] = [account |-> AccountOf[s], file |-> work[s].file]]
    BY <1>3 DEF AddFile
  <2>2. nodes'[n] = [account |-> AccountOf[s], file |-> work[s].file]
    BY <1>1, <2>1
  <2>3. work[s].file \in Files
    BY <1>3 DEF AddFile, At, Shapes, Carried
  <2>4. nodes'[n] \in Row
    BY <2>2, <2>3 DEF Row, Accounts
  <2> QED
    BY <1>1, <2>1, <2>2, <2>4
<1>4. ASSUME NEW n \in Names, Delete(n)
      PROVE  nodes[n] # None /\ nodes'[n] = None /\ \A m \in Names : m # n => nodes'[m] = nodes[m]
  BY <1>1, <1>4 DEF Delete
<1>5. IsFiniteSet(rows) /\ IsFiniteSet(rows1)
  <2>1. IsFiniteSet(rows)
    BY DEF Listed
  <2>2. ASSUME NEW n, rows1 \subseteq rows \cup {n} PROVE IsFiniteSet(rows1)
    BY <2>1, <2>2, FS_AddElement, FS_Subset
  <2>3. \E n : rows1 \subseteq rows \cup {n}
    BY <1>2, <1>3, <1>4
  <2> QED
    BY <2>1, <2>2, <2>3
<1>6. \A a : Total(nodes, a) \in Nat /\ Total(nodes', a) \in Nat
  BY <1>1, <1>5, TotalType
<1>7. ASSUME NEW s \in Sessions, AddFile(s), NEW a
      PROVE  Total(nodes', a) = IF AccountOf[s] = a THEN Total(nodes, a) + Size[work[s].file]
                                ELSE Total(nodes, a)
  BY <1>1, <1>3, <1>5, <1>7, TotalGrows
<1>8. ASSUME NEW n \in Names, Delete(n), NEW a
      PROVE  Total(nodes', a) <= Total(nodes, a)
  <2>1. Total(nodes, a) = IF nodes[n].account = a THEN Total(nodes', a) + Size[nodes[n].file]
                          ELSE Total(nodes', a)
    BY <1>1, <1>4, <1>5, <1>8, TotalGrows
  <2>2. Size[nodes[n].file] \in Nat
    BY <1>1, <1>4, <1>8, SizesAssumption DEF Row
  <2> QED
    BY <1>6, <2>1, <2>2
<1>9. ASSUME \A s \in Sessions : ~AddFile(s), NEW a
      PROVE  Total(nodes', a) <= Total(nodes, a)
  BY <1>2, <1>6, <1>8, <1>9
<1>10. Listed'
  BY <1>5 DEF Listed
<1> HIDE DEF rows, rows1
<1> QED
  BY <1>6, <1>7, <1>9, <1>10, UsedIs

\* There is still room where there was, unless a row was added.
LEMMA FitsStays ==
  ASSUME TypeOK, TypeOK', Shapes, Listed, Step, \A s \in Sessions : ~AddFile(s),
         NEW s \in Sessions, NEW f \in Files, Fits(s, f)
  PROVE  Fits(s, f)'
<1>1. /\ Used(AccountOf[s]) \in Nat /\ Used(AccountOf[s])' \in Nat
      /\ Used(AccountOf[s])' <= Used(AccountOf[s])
  BY UsedStep
<1>2. Size[f] \in Nat /\ Quota \in Nat
  BY SizesAssumption
<1>3. Quota = 0 \/ Used(AccountOf[s]) + Size[f] <= Quota
  BY DEF Fits
<1>4. Quota = 0 \/ Used(AccountOf[s])' + Size[f] <= Quota
  BY <1>1, <1>2, <1>3
<1> QED
  BY <1>4 DEF Fits

\* The check for room stays true under the lock: nobody else adds a row.
LEMMA RoomStep ==
  ASSUME TypeOK, TypeOK', Shapes, Locked, Listed, Room, Step
  PROVE  Room'
<1> USE RecordsAssumption, SessionsAssumption DEF stageVars, libraryVars
<1>1. CASE \E s \in Sessions : AddFile(s)
  <2>1. PICK s \in Sessions : AddFile(s)
    BY <1>1
  <2>2. commit = s
    BY <2>1 DEF AddFile, At, Locked, UnderLock
  <2>3. work'[s] = None /\ \A t \in Sessions : t # s => work'[t] = work[t]
    BY <2>1 DEF AddFile, Done, TypeOK
  <2>4. \A t \in Sessions : t # s => ~(work[t] # None /\ work[t].at \in UnderLock)
    BY <2>2 DEF Locked
  <2> QED
    BY <2>3, <2>4 DEF Room
<1>2. CASE \A s \in Sessions : ~AddFile(s)
  \* Whoever holds the lock had it with this file, or has just been checked.
  <2>1. ASSUME NEW t \in Sessions, work'[t] # None, work'[t].at \in UnderLock
        PROVE  /\ work[t] # None /\ work'[t].file = work[t].file /\ work[t].file \in Files
               /\ Fits(t, work[t].file)
    <3>1. ASSUME work'[t] = work[t]
          PROVE  /\ work[t] # None /\ work'[t].file = work[t].file /\ work[t].file \in Files
                 /\ Fits(t, work[t].file)
      BY <2>1, <3>1 DEF Room, Shapes, Carried, UnderLock
    <3>2. ASSUME NEW s \in Sessions, NEW w \in Work,
                 Advances(s, w) \/ Repeats(s, w) \/ Stores(s, w)
          PROVE  /\ work[t] # None /\ work'[t].file = work[t].file /\ work[t].file \in Files
                 /\ Fits(t, work[t].file)
      <4>1. work'[s] = w /\ \A u \in Sessions : u # s => work'[u] = work[u]
        BY <3>2, BecomesIs DEF Advances, Repeats, Stores
      <4>2. CASE t # s
        BY <3>1, <4>1, <4>2
      <4>3. CASE t = s
        <5>1. /\ work[s] # None /\ w.file = work[s].file
              /\ work[s].at \in {"lock", "hash", "store", "recheck"}
          BY <3>2 DEF Advances, Repeats, Stores
        <5>2. work[s].file \in Files
          BY <5>1 DEF Shapes, Carried
        <5>3. CASE work[s].at = "lock"
          BY <3>2, <4>1, <4>3, <5>1, <5>2, <5>3 DEF Advances, Repeats, Stores
        <5>4. CASE work[s].at # "lock"
          BY <4>1, <4>3, <5>1, <5>2, <5>4 DEF Room, UnderLock
        <5> QED
          BY <5>3, <5>4
      <4> QED
        BY <4>2, <4>3
    <3>3. ASSUME NEW s \in Sessions, NEW w \in Work, Begins(s, w)
          PROVE  work'[t] = work[t]
      <4>1. work'[s] = w /\ w.at \notin UnderLock /\ \A u \in Sessions : u # s => work'[u] = work[u]
        BY <3>3, BecomesIs DEF Begins, UnderLock
      <4> QED
        BY <2>1, <4>1
    <3>4. ASSUME NEW s \in Sessions, NEW k \in Inodes, NEW w \in Work, Creates(s, k, w)
          PROVE  work'[t] = work[t]
      <4>1. work'[s] = w /\ w.at \notin UnderLock /\ \A u \in Sessions : u # s => work'[u] = work[u]
        BY <3>4, BecomesIs DEF Creates, UnderLock
      <4> QED
        BY <2>1, <4>1
    <3>5. ASSUME NEW s \in Sessions, NEW i \in Ids, Finishes(s, i)
          PROVE  work'[t] = work[t]
      <4>1. work'[s].at \notin UnderLock /\ \A u \in Sessions : u # s => work'[u] = work[u]
        BY <3>5, BecomesIs DEF Finishes, UnderLock
      <4> QED
        BY <2>1, <4>1
    <3>6. ASSUME NEW s \in Sessions,
                 \/ Fails(s) \/ OpenRefused(s) \/ InsertUpload(s) \/ InsertDownload(s)
                 \/ \E c \in Contents : PutWrite(s, c)
          PROVE  work'[t] = work[t]
      <4>1. Done(s)
        BY <3>6 DEF Fails, GiveUp, OpenRefused, InsertUpload, InsertDownload, PutWrite
      <4> QED
        BY <2>1, <4>1 DEF Done, TypeOK
    <3>7. ASSUME NEW gone \in SUBSET Ids, Sweeps(gone)
          PROVE  work'[t] = work[t]
      BY <3>7 DEF Sweeps
    <3>8. ASSUME Beside
          PROVE  work'[t] = work[t]
      BY <3>8, BesideIs
    <3>9. ~Restart
      BY <2>1 DEF Restart
    <3>10. ASSUME NEW f \in Files, evict_unreferenced_over(f)
          PROVE  work'[t] = work[t]
      BY <3>10, EvictIs
    <3> QED
      BY <1>2, <3>1, <3>2, <3>3, <3>4, <3>5, <3>6, <3>7, <3>8, <3>9, <3>10 DEF Step
  <2>2. ASSUME NEW t \in Sessions, work'[t] # None, work'[t].at \in UnderLock
        PROVE  Fits(t, work[t].file)'
    <3>1. PICK f \in Files : f = work[t].file /\ f = work'[t].file
      BY <2>1, <2>2
    <3>2. Fits(t, f)'
      BY <1>2, <2>1, <2>2, <3>1, FitsStays
    <3> QED
      BY <3>1, <3>2
  <2> QED
    BY <2>2 DEF Room
<1> QED
  BY <1>1, <1>2

\* So the row that is added keeps the account within its quota.
LEMMA QuotaStep ==
  ASSUME TypeOK, TypeOK', Shapes, Listed, Room, QuotaHeld, Step
  PROVE  QuotaHeld'
<1> SUFFICES ASSUME Quota > 0, NEW a \in Accounts
             PROVE  Used(a)' <= Quota
  BY DEF QuotaHeld
<1>1. Quota \in Nat /\ Used(a) <= Quota /\ Used(a) \in Nat /\ Used(a)' \in Nat
  BY SizesAssumption, UsedStep DEF QuotaHeld
<1>2. CASE \A s \in Sessions : ~AddFile(s)
  <2>1. Used(a)' <= Used(a)
    BY <1>2, UsedStep
  <2> QED
    BY <1>1, <2>1
<1>3. CASE \E s \in Sessions : AddFile(s)
  <2>1. PICK s \in Sessions : AddFile(s)
    BY <1>3
  <2>2. Used(a)' = IF AccountOf[s] = a THEN Used(a) + Size[work[s].file] ELSE Used(a)
    BY <2>1, UsedStep
  <2>3. Fits(s, work[s].file)
    BY <2>1 DEF AddFile, At, Room, UnderLock
  <2>4. Used(AccountOf[s]) + Size[work[s].file] <= Quota
    BY <1>1, <2>3 DEF Fits
  <2> QED
    BY <1>1, <2>2, <2>4
<1> QED
  BY <1>2, <1>3

-----------------------------------------------------------------------------
(* The theorems.                                                           *)

UploadInv ==
  /\ TypeOK /\ Shapes /\ Locked /\ Numbered /\ Apart /\ Placed /\ Left /\ StageOwned
  /\ Writers /\ Hashed /\ BlobIntact /\ Denials
  /\ Listed /\ Room /\ QuotaHeld /\ CapPassedOnlyByRacing

\* The invariant holds initially.
LEMMA InvInit ==
  ASSUME Init
  PROVE  UploadInv
<1> USE DEF Init
<1>1. TypeOK
  BY TypeInit
<1>2. Shapes /\ Placed /\ Hashed /\ Room
  BY DEF Shapes, Placed, Hashed, Room
<1>3. Locked
  BY SessionsAssumption DEF Locked
<1>4. Numbered /\ Apart /\ Left /\ StageOwned
  BY NoneIsNo DEF Numbered, Apart, Left, StageOwned
<1>5. Writers
  BY DEF Writers, Written, At
<1>6. BlobIntact
  BY NoneIsNo DEF BlobIntact, StoredOrSwept
<1>7. Denials
  BY DEF Denials
<1>8. {n \in Names : nodes[n] # None} = {}
  OBVIOUS
<1>9. Listed
  BY <1>8, FS_EmptySet DEF Listed
<1>10. QuotaHeld
  <2>1. ASSUME NEW a PROVE Used(a) = 0
    <3>1. Rows(nodes, a) = {}
      BY DEF Rows
    <3>2. nodes \in [Names -> Row \cup {None}] /\ IsFiniteSet({n \in Names : nodes[n] # None})
      BY <1>1, <1>9 DEF TypeOK, Listed
    <3>3. PICK g : Adds(g, Rows(nodes, a), Lengths(nodes, Rows(nodes, a))) /\ Total(nodes, a) = g[Rows(nodes, a)]
      BY <3>2, TotalType
    <3>4. g[{}] = 0
      BY <3>3 DEF Adds
    <3> QED
      BY <3>1, <3>3, <3>4, UsedIs
  <2> QED
    BY <2>1, SizesAssumption DEF QuotaHeld
<1>11. CapPassedOnlyByRacing
  <2> SUFFICES ASSUME Cap > 0, NEW a \in Accounts
               PROVE  Cardinality(Open(a)) + Cardinality(Opening(a))
                        < Cap + Cardinality({s \in Sessions : AccountOf[s] = a})
    BY DEF CapPassedOnlyByRacing
  <2>1. Open(a) = {} /\ Opening(a) = {}
    BY DEF Open, Opening, At
  <2>2. Cardinality(Open(a)) = 0 /\ Cardinality(Opening(a)) = 0
    BY <2>1, FS_EmptySet
  <2>3. Cardinality({s \in Sessions : AccountOf[s] = a}) \in Nat /\ Cap \in Nat
    BY Counted, SizesAssumption
  <2> QED
    BY <2>2, <2>3
<1> QED
  BY <1>1, <1>2, <1>3, <1>4, <1>5, <1>6, <1>7, <1>9, <1>10, <1>11 DEF UploadInv

\* Every step keeps the invariant.
LEMMA InvStep ==
  ASSUME UploadInv, [Next]_vars
  PROVE  UploadInv'
<1> USE DEF UploadInv
<1>1. CASE Next
  <2>1. Step
    BY <1>1, StepCases
  <2>2. TypeOK'
    BY <1>1, TypeStep
  <2>3. Shapes' /\ Locked' /\ Numbered'
    BY <2>1, ShapesStep, LockedStep, NumberedStep
  <2>4. Apart' /\ Placed' /\ Left' /\ StageOwned'
    BY <2>1, ApartStep, PlacedStep, LeftStep, OwnedStep
  <2>5. Writers' /\ Hashed' /\ BlobIntact'
    BY <2>1, <2>2, WritersStep, HashedStep, IntactStep
  <2>6. Denials'
    BY <2>1, <2>2, DenialsStep
  <2>7. Listed'
    BY <2>1, <2>2, UsedStep
  <2>8. Room' /\ QuotaHeld'
    BY <2>1, <2>2, RoomStep, QuotaStep
  <2>9. CapPassedOnlyByRacing'
    BY <2>1, CapStep
  <2> QED
    BY <2>2, <2>3, <2>4, <2>5, <2>6, <2>7, <2>8, <2>9
<1>2. CASE UNCHANGED vars
  <2> USE <1>2 DEF vars, stageVars, libraryVars
  <2>1. TypeOK'
    BY DEF TypeOK
  <2>2. Shapes' /\ Locked' /\ Numbered'
    BY DEF Shapes, Locked, Numbered
  <2>3. Apart' /\ Placed' /\ Left' /\ StageOwned'
    BY DEF Apart, Placed, Left, StageOwned, StoredOrSwept
  <2>4. Writers' /\ Hashed' /\ BlobIntact' /\ Denials'
    BY DEF Writers, Written, Filed, At, Hashed, BlobIntact, StoredOrSwept, Denials
  <2>5. Listed'
    BY DEF Listed
  <2>6. \A a : Used(a)' = Used(a)
    <3>1. nodes' = nodes
      OBVIOUS
    <3> QED
      BY <3>1, UsedIs
  <2>7. Room' /\ QuotaHeld'
    BY <2>6 DEF Room, Fits, QuotaHeld
  <2>8. CapPassedOnlyByRacing'
    BY DEF CapPassedOnlyByRacing, Open, Opening, At
  <2> QED
    BY <2>1, <2>2, <2>3, <2>4, <2>5, <2>7, <2>8
<1> QED
  BY <1>1, <1>2

\* The inductive invariant of the upload paths holds in every state.
THEOREM UploadsInductive == Spec => []UploadInv
<1>1. Init => UploadInv
  BY InvInit
<1>2. UploadInv /\ [Next]_vars => UploadInv'
  BY InvStep
<1> QED
  BY <1>1, <1>2, PTL DEF Spec

\* No account ever keeps more than its quota, whichever surfaces its files come
\* in by (upload_gate::check under the commit lock), and its tickets pass the
\* cap by no more than the opens that race (TransferOpen).
THEOREM LimitsStand == Spec => []LimitsHeld
<1>1. UploadInv => LimitsHeld
  BY DEF UploadInv, LimitsHeld
<1> QED
  BY <1>1, UploadsInductive, PTL

\* Every staging file has a ticket or a request, or the burrow stopped with it
\* there (handlers9.rs: open, finish, abort, close_session).
THEOREM StagesStand == Spec => []StagesSound
<1>1. UploadInv => StagesSound
  BY DEF UploadInv, StagesSound
<1> QED
  BY <1>1, UploadsInductive, PTL

\* Every listed file is stored, or the sweep of a cache with a cap removed its
\* blob (maintenance: evict_unreferenced_over); without a cap every listed file
\* is stored.  What is stored under a hash has it, unless somebody was still
\* writing when it was finished (put_verified).
THEOREM BlobsStayIntact == Spec => []BlobIntact
<1>1. UploadInv => BlobIntact
  BY DEF UploadInv
<1> QED
  BY <1>1, UploadsInductive, PTL

\* A denied file gets a row only if it was denied after the lock was taken, or
\* came in by ZMODEM, which looks before it waits.
THEOREM DenialsAreHonoured == Spec => []DenialHonoured
<1>1. UploadInv => DenialHonoured
  BY DEF UploadInv, Denials, DenialHonoured, At, UnderLock
<1> QED
  BY <1>1, UploadsInductive, PTL
=============================================================================
