----------------------------- MODULE RemotePulls -----------------------------
(***************************************************************************)
(* Sends from one burrow to another (apps/server/src/s2s.rs).  The source  *)
(* signs a grant for files a person may send; the destination accepts it,  *)
(* takes a place for the pull, reaches the source over their federation    *)
(* session or a connection of its own, spends the grant and then fetches   *)
(* and files the items one by one.  One source and one destination; a job  *)
(* is a request at the destination, and the pull it becomes.               *)
(*                                                                         *)
(* A step is what runs between two awaits.  Every wait of the code has a   *)
(* timeout, so a job can fail wherever it waits.  How a file is verified   *)
(* and filed is in Uploads, and how seeders are worked in SwarmScheduler.  *)
(***************************************************************************)
EXTENDS Naturals, FiniteSets, FiniteSetsExt

CONSTANTS
  Jobs, AccountOf,   \* requests at the destination, and whose each is
  Grants, Expires,   \* grants of the source, and when each lapses
  GrantedBy,         \* the account at the source a grant's nonce names
  Items,             \* how many files each grant carries
  MAX_RUNNING, PerAccount,   \* pulls at once: of everyone; s2s_max_concurrent
  MAX_PULL_SESSIONS, MAX_PULL_SESSIONS_PER_ACCOUNT,
  OPEN_SKEW_SECS, SERVE_GRACE_SECS,
  MaxTries,          \* bound: addresses dialled; windows of a swarm fetch
  StartsOff, Fickle, \* settings off to begin with, and those that are switched
  Losable,           \* files the source may lose
  MaxSwitches, MaxClock, MaxPulls, MaxLinks, MaxRestarts,   \* bounds
  None, Shut

\* Settings and standing: of the destination, then of the source.
Settings == {"pulls", "account", "fromAny", "peerHere"}
            \cup {"grants", "standing", "toAny", "peerThere"}
Ids == 1..MaxPulls
Files == UNION {{g} \X (1..Items[g]) : g \in Grants}
Direct == 0   \* a pull over a connection of its own
Accounts == {AccountOf[j] : j \in Jobs}

ASSUME JobsAssumption == IsFiniteSet(Jobs) /\ {None, Shut} \cap Jobs = {} /\ None # Shut
ASSUME AccountsAssumption == None \notin Accounts
ASSUME TimesAssumption == /\ Expires \in [Grants -> Nat]
                          /\ OPEN_SKEW_SECS \in Nat /\ SERVE_GRACE_SECS \in Nat
ASSUME BoundsAssumption ==
  /\ Items \in [Grants -> Nat \ {0}] /\ MaxTries \in Nat \ {0}
  /\ {MAX_RUNNING, PerAccount, MAX_PULL_SESSIONS, MAX_PULL_SESSIONS_PER_ACCOUNT,
      MaxSwitches, MaxClock, MaxPulls, MaxLinks, MaxRestarts} \subseteq Nat
ASSUME SettingsAssumption == /\ StartsOff \subseteq Settings /\ Fickle \subseteq Settings
                             /\ Losable \subseteq Files

VARIABLES
  clock, off, gone,     \* the time, what is switched off, files the source lost
  \* S2sState of the destination; spent is in its store
  links, nextLink, pulls, cancelled, nextPull, spent,
  job,                  \* what each request has come to
  staging,              \* <data_dir>/transfers of the destination
  session,              \* pull sessions at the source, by grant
  switches, restarts,
  \* history
  starts,               \* pulls each grant has started
  late                  \* files a job filed since it was told to stop

placeVars == <<pulls, cancelled, nextPull>>
linkVars == <<links, nextLink>>
worldVars == <<clock, off, gone, switches, restarts>>
vars == <<worldVars, linkVars, placeVars, spent, job, staging, session, starts, late>>

Phases == {"check", "dial", "purge", "spend", "item", "seed", "ask", "recv"}
Ways == {"plain", "swarm"}
Job == [grant: Grants, at: Phases, now: Nat, via: 0..MaxLinks, id: Ids \cup {None},
        item: Nat, tries: 0..MaxTries, way: Ways]
ASSUME NoneAssumption == None \notin Nat \cup Job

\* The state is of the types the code gives it: in particular no job is past
\* the end of its grant's list.
TypeOK ==
  /\ clock \in 0..MaxClock /\ off \subseteq Settings /\ gone \subseteq Files
  /\ links \subseteq 1..MaxLinks /\ nextLink \in 1..(MaxLinks + 1)
  /\ pulls \in [Ids -> Accounts \cup {None}]
  /\ cancelled \subseteq Ids /\ nextPull \in 1..(MaxPulls + 1)
  /\ spent \subseteq Grants
  /\ job \in [Jobs -> Job \cup {None}]
  /\ \A j \in Jobs : job[j] # None => job[j].item \in 1..(Items[job[j].grant] + 1)
  /\ staging \subseteq (Ids \X Nat \X Ways)
  /\ session \in [Grants -> Jobs \cup {None, Shut}]
  /\ switches \in 0..MaxSwitches /\ restarts \in 0..MaxRestarts
  /\ starts \in [Grants -> Nat] /\ late \in [Jobs -> Nat]

Init ==
  /\ clock = 0 /\ off = StartsOff /\ gone = {}
  /\ links = {} /\ nextLink = 1
  /\ pulls = [i \in Ids |-> None] /\ cancelled = {} /\ nextPull = 1
  /\ spent = {} /\ job = [j \in Jobs |-> None] /\ staging = {}
  /\ session = [g \in Grants |-> None]
  /\ switches = 0 /\ restarts = 0
  /\ starts = [g \in Grants |-> 0] /\ late = [j \in Jobs |-> 0]

-----------------------------------------------------------------------------
On(x) == x \notin off
At(j, phase) == job[j] # None /\ job[j].at = phase
Goes(j, phase) == job' = [job EXCEPT ![j].at = phase]
Reserved(j) == job[j] # None /\ job[j].id # None

\* S2sState::reserve
Mine(a) == {i \in Ids : pulls[i] = a}
Running == {i \in Ids : pulls[i] # None}
Room(a) == /\ Cardinality(Running) < MAX_RUNNING
           /\ PerAccount > 0 => Cardinality(Mine(a)) < PerAccount

\* S2sState::release
Release(j) == /\ pulls' = [pulls EXCEPT ![job[j].id] = None]
              /\ cancelled' = cancelled \ {job[j].id}
\* The connection held for the pull is closed; the source has yet to notice.
\* Mutant: the connection is kept.
HangUpNever(j) == UNCHANGED session
HangUp(j) == session' = [g \in Grants |-> IF session[g] = j THEN Shut ELSE session[g]]
\* The request is refused, or the pull is over.
Ends(j) == /\ Release(j) /\ HangUp(j)
           /\ job' = [job EXCEPT ![j] = None] /\ late' = [late EXCEPT ![j] = 0]
           /\ UNCHANGED nextPull

\* Its place in the list: the files of an item, and of a pull.
Part(j, way) == <<job[j].id, job[j].item, way>>
Cancelled(j) == job[j].id \in cancelled
\* still_wanted
StillWanted == On("pulls") /\ On("account")

\* granted_item, at the source, but for the file itself.
Granted(j) == /\ On("grants") /\ On("standing")
              /\ clock < Expires[job[j].grant] + SERVE_GRACE_SECS
              /\ On("peerThere") \/ (job[j].via = Direct /\ On("toAny"))
\* The streams the job was given still go somewhere.
Reaches(j) == IF job[j].via = Direct THEN session[job[j].grant] = j
                                     ELSE job[j].via \in links
Present(j) == <<job[j].grant, job[j].item>> \notin gone

-----------------------------------------------------------------------------
(* RemotePull, at the destination.                                         *)

\* The checks before the first await: the clock is read and the newest
\* session with an approved source is taken here, and used later.
Accept(j, g) ==
  LET peer == On("peerHere") /\ links # {} IN
  /\ job[j] = None /\ On("pulls") /\ clock < Expires[g]
  /\ peer \/ On("fromAny")
  /\ job' = [job EXCEPT ![j] =
       [grant |-> g, at |-> "check", now |-> clock,
        via |-> IF peer THEN Max(links) ELSE Direct,
        id |-> None, item |-> 1, tries |-> MaxTries, way |-> "plain"]]
  /\ UNCHANGED <<worldVars, linkVars, placeVars, spent, staging, session, starts, late>>

\* One of the checks on the folder, the files, the space or the rates fails,
\* or there is no room.
Refuse(j) ==
  /\ At(j, "check")
  /\ job' = [job EXCEPT ![j] = None]
  /\ UNCHANGED <<worldVars, linkVars, placeVars, spent, staging, session, starts, late>>

\* Mutant: the grant is spent with the place.
ReserveSpends(j) ==
  /\ At(j, "check") /\ Room(AccountOf[j]) /\ nextPull <= MaxPulls
  /\ pulls' = [pulls EXCEPT ![nextPull] = AccountOf[j]] /\ nextPull' = nextPull + 1
  /\ job' = [job EXCEPT ![j].id = nextPull,
                        ![j].at = IF job[j].via = Direct THEN "dial" ELSE "purge"]
  /\ spent' = spent \cup {job[j].grant}
  /\ UNCHANGED <<worldVars, linkVars, cancelled, staging, session, starts, late>>

Reserve(j) ==
  /\ At(j, "check") /\ Room(AccountOf[j]) /\ nextPull <= MaxPulls
  /\ pulls' = [pulls EXCEPT ![nextPull] = AccountOf[j]] /\ nextPull' = nextPull + 1
  /\ job' = [job EXCEPT ![j].id = nextPull,
                        ![j].at = IF job[j].via = Direct THEN "dial" ELSE "purge"]
  /\ UNCHANGED <<worldVars, linkVars, cancelled, spent, staging, session, starts, late>>

\* open_pull_session, at the source: one at a time per grant, so many in all
\* and so many of one person's.
SourceOpens(j) ==
  LET g == job[j].grant
      open == {h \in Grants : session[h] # None} IN
  /\ At(j, "dial") /\ session[g] = None
  /\ On("grants") /\ (On("toAny") \/ On("peerThere")) /\ On("standing")
  /\ clock < Expires[g] + OPEN_SKEW_SECS
  /\ Cardinality(open) < MAX_PULL_SESSIONS
  /\ Cardinality({h \in open : GrantedBy[h] = GrantedBy[g]}) < MAX_PULL_SESSIONS_PER_ACCOUNT
  /\ session' = [session EXCEPT ![g] = j]
  /\ UNCHANGED <<worldVars, linkVars, placeVars, spent, job, staging, starts, late>>

\* dial_source: the source's answer came in time.
Dialled(j) ==
  /\ At(j, "dial") /\ session[job[j].grant] = j
  /\ Goes(j, "purge")
  /\ UNCHANGED <<worldVars, linkVars, placeVars, spent, staging, session, starts, late>>

\* It did not, or the session has no streams: the next address.
DialNext(j) ==
  /\ At(j, "dial") /\ job[j].tries > 1
  /\ HangUp(j) /\ job' = [job EXCEPT ![j].tries = @ - 1]
  /\ UNCHANGED <<worldVars, linkVars, placeVars, spent, staging, starts, late>>

\* Mutant: the place is not given back.
DialFailsKeeps(j) ==
  /\ At(j, "dial") /\ HangUp(j)
  /\ job' = [job EXCEPT ![j] = None] /\ late' = [late EXCEPT ![j] = 0]
  /\ UNCHANGED <<worldVars, linkVars, placeVars, spent, staging, starts>>

DialFails(j) ==
  /\ At(j, "dial") /\ Ends(j)
  /\ UNCHANGED <<worldVars, linkVars, spent, staging, starts>>

\* spend_pull_grant, in two statements.  Rows lapsed by the time the request
\* came are deleted,
Purge(j) ==
  /\ At(j, "purge")
  /\ spent' = {g \in spent : Expires[g] > job[j].now}
  /\ job' = [job EXCEPT ![j].at = "spend", ![j].now = 0, ![j].tries = 0]
  /\ UNCHANGED <<worldVars, linkVars, placeVars, staging, session, starts, late>>

\* Mutant: whether the row went in is not looked at.
SpendAnyway(j) ==
  /\ At(j, "spend")
  /\ spent' = spent \cup {job[j].grant}
  /\ starts' = [starts EXCEPT ![job[j].grant] = @ + 1]
  /\ job' = [job EXCEPT ![j].at = "item"]
  /\ UNCHANGED <<worldVars, linkVars, placeVars, staging, session, late>>

\* and the grant's own goes in, unless it is there.  The pull starts.
Spend(j) ==
  /\ At(j, "spend") /\ job[j].grant \notin spent
  /\ spent' = spent \cup {job[j].grant}
  /\ starts' = [starts EXCEPT ![job[j].grant] = @ + 1]
  /\ job' = [job EXCEPT ![j].at = "item"]
  /\ UNCHANGED <<worldVars, linkVars, placeVars, staging, session, late>>

\* It is there, or the store fails.
SpendFails(j) ==
  /\ At(j, "purge") \/ At(j, "spend")
  /\ Ends(j)
  /\ UNCHANGED <<worldVars, linkVars, spent, staging, starts>>

-----------------------------------------------------------------------------
(* Pull::run.                                                              *)

HasItem(j) == job[j].item <= Items[job[j].grant]

\* Mutant: the flag is only watched while a file comes.
MayGoOnUncancelled(j) == StillWanted
MayGoOn(j) == ~Cancelled(j) /\ StillWanted

\* The next file, with its folders made; from the swarm first if the send
\* and the file allow it.
NextItem(j) ==
  /\ At(j, "item") /\ HasItem(j) /\ MayGoOn(j)
  /\ \E way \in Ways : job' = [job EXCEPT ![j].at = "ask", ![j].way = way]
  /\ UNCHANGED <<worldVars, linkVars, placeVars, spent, staging, session, starts, late>>

\* ask_sources and the ranges asked of the source itself: it names seeders,
\* or sends proved ranges.
Seeded(j) ==
  /\ At(j, "ask") /\ job[j].way = "swarm"
  /\ Reaches(j) /\ Granted(j) /\ Present(j)
  /\ job' = [job EXCEPT ![j].at = "seed", ![j].tries = MaxTries]
  /\ staging' = staging \cup {Part(j, "swarm")}
  /\ UNCHANGED <<worldVars, linkVars, placeVars, spent, session, starts, late>>

\* Mutant: asked again for as long as it is not whole.
RenewAlways(j) ==
  /\ At(j, "seed") /\ Reaches(j) /\ Granted(j) /\ Present(j) /\ MayGoOn(j)
  /\ job' = [job EXCEPT ![j].tries = IF @ = 1 THEN MaxTries ELSE @ - 1]
  /\ UNCHANGED <<worldVars, linkVars, placeVars, spent, staging, session, starts, late>>

\* The capability nears its end while the file is still coming, before its
\* deadline: asked again.
Renew(j) ==
  /\ At(j, "seed") /\ job[j].tries > 1
  /\ Reaches(j) /\ Granted(j) /\ Present(j) /\ MayGoOn(j)
  /\ job' = [job EXCEPT ![j].tries = @ - 1]
  /\ UNCHANGED <<worldVars, linkVars, placeVars, spent, staging, session, starts, late>>

\* Not offered, or given up: nothing of it stays, and the source is asked for
\* the file, unless the send was cancelled meanwhile.
FromSource(j) ==
  /\ At(j, "seed") \/ (At(j, "ask") /\ job[j].way = "swarm")
  /\ ~Cancelled(j)
  /\ staging' = staging \ {Part(j, "swarm")}
  /\ job' = [job EXCEPT ![j].at = "ask", ![j].way = "plain", ![j].tries = 0]
  /\ UNCHANGED <<worldVars, linkVars, placeVars, spent, session, starts, late>>

\* fetch_item: the source serves it.
Served(j) ==
  /\ At(j, "ask") /\ job[j].way = "plain"
  /\ Reaches(j) /\ Granted(j) /\ Present(j)
  /\ Goes(j, "recv") /\ staging' = staging \cup {Part(j, "plain")}
  /\ UNCHANGED <<worldVars, linkVars, placeVars, spent, session, starts, late>>

OnToNext(j) == job' = [job EXCEPT ![j].at = "item", ![j].item = @ + 1, ![j].way = "plain", ![j].tries = 0]

\* The source no longer has it as granted: counted missing, and on.
Missing(j) ==
  /\ At(j, "ask") \/ At(j, "seed")
  /\ Reaches(j) /\ Granted(j) /\ ~Present(j)
  /\ OnToNext(j) /\ staging' = staging \ {Part(j, "swarm")}
  /\ UNCHANGED <<worldVars, linkVars, placeVars, spent, session, starts, late>>

\* The person, or an operator, at either end has stopped this pull.
Stopped(j) == Cancelled(j) \/ ~StillWanted \/ ~Granted(j)

\* All of it came, from seeders or over the job's own streams, and file_one
\* verifies and files it.
File(j) ==
  /\ At(j, "seed") \/ (At(j, "recv") /\ Reaches(j))
  /\ OnToNext(j) /\ staging' = staging \ {Part(j, job[j].way)}
  /\ late' = [late EXCEPT ![j] = IF Stopped(j) THEN @ + 1 ELSE 0]
  /\ UNCHANGED <<worldVars, linkVars, placeVars, spent, session, starts>>

\* The list is done, or the pull is cancelled, no longer wanted, refused, out
\* of reach, over its time, over a limit, or cannot write here.
PullEnds(j) ==
  /\ Reserved(j) /\ job[j].at \in {"item", "ask", "seed", "recv"}
  /\ Ends(j) /\ staging' = staging \ {Part(j, way) : way \in Ways}
  /\ UNCHANGED <<worldVars, linkVars, spent, starts>>

\* RemotePullCancel, of one's own.
Cancel(i) ==
  /\ pulls[i] # None /\ i \notin cancelled
  /\ cancelled' = cancelled \cup {i}
  /\ UNCHANGED <<worldVars, linkVars, pulls, nextPull, spent, job, staging, session, starts, late>>

-----------------------------------------------------------------------------
(* The two burrows.                                                        *)

Tick ==
  /\ clock < MaxClock /\ clock' = clock + 1
  /\ UNCHANGED <<off, gone, switches, restarts, linkVars, placeVars, spent, job, staging,
                 session, starts, late>>

\* A setting, an approval or an account is switched.  What was stopped by it
\* may go on.
Switch(x) ==
  /\ switches < MaxSwitches /\ switches' = switches + 1
  /\ off' = IF On(x) THEN off \cup {x} ELSE off \ {x}
  /\ late' = IF On(x) THEN late ELSE [j \in Jobs |-> 0]
  /\ UNCHANGED <<clock, gone, restarts, linkVars, placeVars, spent, job, staging, session, starts>>

\* A granted file is deleted, replaced or quarantined at the source.
Lose(f) ==
  /\ f \notin gone /\ gone' = gone \cup {f}
  /\ UNCHANGED <<clock, off, switches, restarts, linkVars, placeVars, spent, job, staging,
                 session, starts, late>>

\* link_up, link_down: federation sessions between the two come and go.
LinkUp ==
  /\ nextLink <= MaxLinks /\ links' = links \cup {nextLink} /\ nextLink' = nextLink + 1
  /\ UNCHANGED <<worldVars, placeVars, spent, job, staging, session, starts, late>>

LinkDown(l) ==
  /\ l \in links /\ links' = links \ {l}
  /\ UNCHANGED <<worldVars, nextLink, placeVars, spent, job, staging, session, starts, late>>

\* run_pull_session, at the source, ends: the destination has hung up,
SessionEnds(g) ==
  /\ session[g] = Shut /\ session' = [session EXCEPT ![g] = None]
  /\ UNCHANGED <<worldVars, linkVars, placeVars, spent, job, staging, starts, late>>

\* or the connection is lost, the grace is over, the grant stands no more, or
\* the source restarts (its links go too: LinkDown).
SessionLost(g) ==
  /\ session[g] \in Jobs /\ session' = [session EXCEPT ![g] = None]
  /\ UNCHANGED <<worldVars, linkVars, placeVars, spent, job, staging, starts, late>>

\* Mutant: what an earlier life staged stays.
RestartUnswept ==
  /\ restarts < MaxRestarts /\ restarts' = restarts + 1
  /\ links' = {} /\ pulls' = [i \in Ids |-> None] /\ cancelled' = {} /\ nextPull' = 1
  /\ job' = [j \in Jobs |-> None] /\ late' = [j \in Jobs |-> 0]
  /\ session' = [g \in Grants |-> IF session[g] \in Jobs THEN Shut ELSE session[g]]
  /\ UNCHANGED <<clock, off, gone, switches, nextLink, spent, staging, starts>>

\* The destination stops anywhere and starts again: sweep_staging, and pull
\* numbers from one.
Restart ==
  /\ restarts < MaxRestarts /\ restarts' = restarts + 1
  /\ links' = {} /\ pulls' = [i \in Ids |-> None] /\ cancelled' = {} /\ nextPull' = 1
  /\ job' = [j \in Jobs |-> None] /\ late' = [j \in Jobs |-> 0] /\ staging' = {}
  /\ session' = [g \in Grants |-> IF session[g] \in Jobs THEN Shut ELSE session[g]]
  /\ UNCHANGED <<clock, off, gone, switches, nextLink, spent, starts>>

\* What a job does by itself, at the latest when it times out.
Works(j) ==
  \/ Refuse(j) \/ Reserve(j) \/ Dialled(j) \/ DialNext(j) \/ DialFails(j)
  \/ Purge(j) \/ Spend(j) \/ SpendFails(j)
  \/ NextItem(j) \/ Seeded(j) \/ Renew(j) \/ FromSource(j) \/ Served(j) \/ Missing(j)
  \/ File(j) \/ PullEnds(j)

Next ==
  \/ \E j \in Jobs, g \in Grants : Accept(j, g)
  \/ \E j \in Jobs : Works(j) \/ SourceOpens(j)
  \/ \E i \in Ids : Cancel(i)
  \/ Tick \/ (\E x \in Fickle : Switch(x)) \/ (\E f \in Losable : Lose(f))
  \/ LinkUp \/ (\E l \in 1..MaxLinks : LinkDown(l))
  \/ \E g \in Grants : SessionEnds(g) \/ SessionLost(g)
  \/ Restart

Spec == Init /\ [][Next]_vars

-----------------------------------------------------------------------------
(* Properties.                                                             *)

\* A grant is good once (accept): for as long as it stands it has started at
\* most one pull, whatever requests race with it and through restarts.  Once
\* it lapses its row may go, and a request that was checked in time but still
\* dials can spend it again.
PulledOnce == \A g \in Grants : clock < Expires[g] => starts[g] <= 1

\* A refusal leaves the grant good for another try (accept spends last): a
\* grant on the spent list has started a pull.
SpentByAPull == \A g \in spent : starts[g] > 0

\* A grant counts once: good until a pull has started by it, and not after.
GrantCountsOnce == PulledOnce /\ SpentByAPull

\* The places taken are those of the requests and pulls under way, each its
\* own and within both limits: none is lost on a failure, none is given back
\* while its pull runs (reserve, release).
PlacesHeld ==
  /\ \A j \in Jobs : Reserved(j) => pulls[job[j].id] = AccountOf[j]
  /\ \A i \in Running : Cardinality({j \in Jobs : Reserved(j) /\ job[j].id = i}) = 1
  /\ Cardinality(Running) <= MAX_RUNNING
  /\ PerAccount > 0 => \A a \in Accounts : Cardinality(Mine(a)) <= PerAccount

\* Numbers start from one again after a restart, yet a pull never finds the
\* half of another's file: what is staged is what a pull under way is working
\* on now (sweep_staging, remove_swarm_partial).
StagingOwned ==
  \A part \in staging :
    \E j \in Jobs : /\ Reserved(j) /\ part = Part(j, job[j].way)
                    /\ job[j].at \in {"seed", "recv"}

\* Once the person cancels, pulls or the account are switched off here, or the
\* grant stands no more at the source, a pull files at most the file it had in
\* hand (fetch_all, granted_item).
StopHonoured == \A j \in Jobs : late[j] <= 1

\* What is left for a job to do, at most.
PhaseRank == [recv |-> 0, ask |-> 1, seed |-> 1, item |-> 3 + MaxTries,
              spend |-> 4 + MaxTries, purge |-> 5 + MaxTries,
              dial |-> 6 + MaxTries, check |-> 7 + MaxTries]
Rank(w) == (Items[w.grant] + 1 - w.item) * (4 + MaxTries) + PhaseRank[w.at] + w.tries
           + IF w.at = "ask" /\ w.way = "swarm" THEN MaxTries + 1 ELSE 0

\* Nothing a request or a pull does takes it back: each of its steps brings it
\* nearer its end, so that its retries are bounded whatever fails in between
\* (dial_endpoints, fetch_from_swarm, fetch_all).  That it takes the next step
\* is up to the timeouts of the transport.
NearerItsEnd ==
  [][\A j \in Jobs : job[j] # None /\ job'[j] # None /\ job'[j] # job[j]
                       => Rank(job'[j]) < Rank(job[j])]_vars

\* A pull session at the source is held for a pull under way, or its
\* connection is closed and it is about to go, so that the grant may open
\* another (PullSession's Drop; accept closes what it held).
SessionHeld ==
  \A g \in Grants : session[g] \in Jobs =>
    /\ Reserved(session[g]) /\ job[session[g]].grant = g /\ job[session[g]].via = Direct

\* Nothing a pull takes is lost when it fails, is refused or is cut short:
\* places, staged files and sessions at the source are of a job under way.
NothingLeaks == TypeOK /\ PlacesHeld /\ StagingOwned /\ SessionHeld
=============================================================================
