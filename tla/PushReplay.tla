----------------------------- MODULE PushReplay -----------------------------
(***************************************************************************)
(* How one account is told what happens: the sessions of the account       *)
(* (apps/server/src/session.rs), the replay log they share                 *)
(* (crates/server-core/src/pushlog.rs), the recorder that fills it while   *)
(* nobody is there (replay_recorder), the event bus, presence, the DM      *)
(* store, and the clients that drop and resume with their cursor           *)
(* (crates/core/src/client.rs).                                            *)
(*                                                                         *)
(* A session serves one connection, and may linger after its client has    *)
(* gone and come back through another.  Each action is what runs between   *)
(* two awaits or under one lock; sessions, the recorder and publishers run *)
(* on a multi-threaded runtime, so their steps interleave freely.          *)
(*                                                                         *)
(* The ring of (sequence, frame) pairs is the tail of `log`, whose n-th    *)
(* entry was stamped n: stamp numbers frames consecutively, pops only at   *)
(* capacity, and nothing calls forget.  Casts are events every viewer has  *)
(* a push for; Dms go to this account only.  Unstamped pushes (progress,   *)
(* theme and room invalidations) leave no trace here and are left out.     *)
(***************************************************************************)
EXTENDS Naturals, Sequences, FiniteSets

CONSTANTS
  Clients, Sessions,
  Casts, Dms,
  RING_CAPACITY,   \* pushes kept per account
  BUS_CAPACITY,    \* events a slow subscriber may be behind
  MAIL_CAP,        \* unread DMs pushed at sign-in
  MaxConnects,     \* bound: connections opened in one run
  NoSession        \* what a client that is not connected is attached to

Events == Casts \cup Dms
Welcome == "welcome"

ASSUME EventsAssumption == Casts \cap Dms = {} /\ Welcome \notin Events
ASSUME SessionsAssumption == NoSession \notin Sessions
ASSUME DmsAssumption == IsFiniteSet(Dms)
ASSUME CapacityAssumption ==
  /\ RING_CAPACITY \in Nat \ {0} /\ BUS_CAPACITY \in Nat \ {0}
  /\ MAIL_CAP \in Nat /\ MaxConnects \in Nat

VARIABLES
  log,        \* every push stamped for the account, the ring being its tail
  unread,     \* the DM store: unread messages to the account
  stored,     \* DMs ever inserted
  sent,       \* events published on the bus
  recq,       \* the recorder's receiver
  look,       \* the event the recorder holds, and whether it saw us online
  phase,      \* where each session stands
  rx,         \* each session's bus receiver
  from, upto, \* the replay still to send: sequence numbers from..upto
  mail,       \* unread DMs still to push at sign-in
  wire,       \* sequence numbers sent and not yet read by the client
  partial,    \* history: the session lagged, or its mail was capped
  heard,      \* history: casts published since the session subscribed
  told,       \* history: events pushed on this connection
  at,         \* the session each client is connected to
  login,      \* how the client signed in: only a resume presents a cursor
  cursor,     \* highest sequence the client has seen
  got,        \* history: every sequence the client has seen
  excused,    \* history: sequences no replay owes the client
  raced,      \* history: sequences stamped too late for its replay, see stamp
  connects

busVars == <<sent, recq, look>>
storeVars == <<unread, stored>>
sessionVars == <<phase, rx, from, upto, mail, wire, partial, heard, told>>
clientVars == <<at, login, cursor, got>>
excuses == <<excused, raced>>
vars == <<log, storeVars, busVars, sessionVars, clientVars, excuses, connects>>

Idle == [ev |-> Welcome, online |-> TRUE]   \* the recorder between events
Elems(q) == {q[i] : i \in DOMAIN q}
Present == {s \in Sessions : phase[s] # "off"}
\* Mutant: the receiver is made once the replay is sent.
SubscribedLate == {s \in Sessions : phase[s] \in {"mailing", "live", "closing"}}
Subscribed == {s \in Sessions : phase[s] \notin {"off", "joined"}}
\* Sessions past the snapshot that their replay sends.
Following == {"replaying", "mailing", "live"}

TypeOK ==
  /\ log \in Seq(Events \cup {Welcome})
  /\ unread \subseteq stored /\ stored \subseteq Dms /\ sent \subseteq Events
  /\ recq \in Seq(Events)
  /\ look \in [ev : Events \cup {Welcome}, online : BOOLEAN]
  /\ phase \in [Sessions -> {"off", "joined", "subscribed", "closing"}
                            \cup Following]
  /\ rx \in [Sessions -> Seq(Events)]
  /\ from \in [Sessions -> Nat \ {0}] /\ upto \in [Sessions -> Nat]
  /\ mail \in [Sessions -> SUBSET Dms]
  /\ wire \in [Sessions -> Seq(Nat \ {0})]
  /\ partial \in [Sessions -> BOOLEAN]
  /\ heard \in [Sessions -> SUBSET Casts] /\ told \in [Sessions -> SUBSET Events]
  /\ at \in [Clients -> Sessions \cup {NoSession}]
  /\ login \in [Clients -> {"password", "resume"}]
  /\ cursor \in [Clients -> Nat]
  /\ got \in [Clients -> SUBSET Nat]
  /\ excused \in [Clients -> SUBSET Nat] /\ raced \in [Clients -> SUBSET Nat]
  /\ connects \in Nat

Init ==
  /\ log = <<>> /\ unread = {} /\ stored = {} /\ sent = {}
  /\ recq = <<>> /\ look = Idle
  /\ phase = [s \in Sessions |-> "off"]
  /\ rx = [s \in Sessions |-> <<>>]
  /\ from = [s \in Sessions |-> 1] /\ upto = [s \in Sessions |-> 0]
  /\ mail = [s \in Sessions |-> {}]
  /\ wire = [s \in Sessions |-> <<>>]
  /\ partial = [s \in Sessions |-> FALSE]
  /\ heard = [s \in Sessions |-> {}] /\ told = [s \in Sessions |-> {}]
  /\ at = [c \in Clients |-> NoSession]
  /\ login = [c \in Clients |-> "password"]
  /\ cursor = [c \in Clients |-> 0]
  /\ got = [c \in Clients |-> {}] /\ excused = [c \in Clients |-> {}]
  /\ raced = [c \in Clients |-> {}]
  /\ connects = 0

-----------------------------------------------------------------------------
(* The log and the wire. *)

\* stamp: the next number, recorded.  A client that follows the account is
\* not owed the Welcome of another session, nor its copy of an event that the
\* client's own session has from the bus or the mail.  For one that resumed,
\* a cast published before its session subscribed and stamped only now, by
\* the recorder or by an older session that had it queued, comes too late for
\* the replay.
Follows(c) == at[c] # NoSession /\ phase[at[c]] \in Following
TooLate(c, x) == login[c] = "resume" /\ x \in Casts \ heard[at[c]]
stamp(x) ==
  LET n == Len(log) + 1 IN
  /\ log' = Append(log, x)
  /\ excused' = [c \in Clients |->
       IF Follows(c) /\ ~TooLate(c, x) THEN excused[c] \cup {n} ELSE excused[c]]
  /\ raced' = [c \in Clients |->
       IF Follows(c) /\ TooLate(c, x) THEN raced[c] \cup {n} ELSE raced[c]]

\* conn.send: what is sent to a client that has gone is lost.
SendTo(s, n) ==
  wire' = IF \E c \in Clients : at[c] = s
          THEN [wire EXCEPT ![s] = Append(@, n)] ELSE wire

\* since: the part of the ring newer than the cursor.
RingFloor == IF Len(log) > RING_CAPACITY THEN Len(log) - RING_CAPACITY ELSE 0
SinceSkipsOne(n) == (IF n > RingFloor THEN n ELSE RingFloor) + 2
Since(n) == (IF n > RingFloor THEN n ELSE RingFloor) + 1

-----------------------------------------------------------------------------
(* Publishers: handlers and services on other tasks. *)

\* A full receiver forgets its oldest event: it lags, it never blocks.
Offer(q, e) ==
  IF Len(q) < BUS_CAPACITY THEN Append(q, e) ELSE Append(Tail(q), e)

\* DmSend stores the message, and publishes it only after that.
InsertDm(d) ==
  /\ d \in Dms \ stored
  /\ stored' = stored \cup {d}
  /\ unread' = unread \cup {d}
  /\ UNCHANGED <<log, busVars, sessionVars, clientVars, excuses, connects>>

PublishUnstored(e) ==
  /\ e \in Events \ sent
  /\ sent' = sent \cup {e}
  /\ recq' = Offer(recq, e)
  /\ rx' = [s \in Sessions |->
       IF s \in Subscribed THEN Offer(rx[s], e) ELSE rx[s]]
  /\ UNCHANGED <<log, storeVars, look, phase, from, upto, mail, wire, partial,
                 heard, told, clientVars, excuses, connects>>

Publish(e) ==
  /\ e \in (Casts \cup stored) \ sent
  /\ sent' = sent \cup {e}
  /\ recq' = Offer(recq, e)
  /\ rx' = [s \in Sessions |->
       IF s \in Subscribed THEN Offer(rx[s], e) ELSE rx[s]]
  /\ partial' = [s \in Sessions |->
       partial[s] \/ (s \in Subscribed /\ Len(rx[s]) >= BUS_CAPACITY)]
  /\ heard' = [s \in Sessions |->
       IF phase[s] \notin {"off", "joined"} THEN heard[s] \cup ({e} \cap Casts) ELSE heard[s]]
  /\ UNCHANGED <<log, storeVars, look, phase, from, upto, mail, wire, told,
                 clientVars, excuses, connects>>

-----------------------------------------------------------------------------
(* replay_recorder *)

\* It reads who is online, and only then stamps: two steps.
RecorderLooks ==
  /\ look = Idle /\ recq # <<>>
  /\ recq' = Tail(recq)
  /\ look' = IF Head(recq) \in Dms THEN Idle
             ELSE [ev |-> Head(recq), online |-> Present # {}]
  /\ UNCHANGED <<log, storeVars, sent, sessionVars, clientVars, excuses,
                 connects>>

\* Only an account that has a log is known.
RecorderStamps ==
  /\ look # Idle
  /\ look' = Idle
  /\ IF ~look.online /\ log # <<>> THEN stamp(look.ev)
     ELSE UNCHANGED <<log, excuses>>
  /\ UNCHANGED <<storeVars, sent, recq, sessionVars, clientVars, connects>>

-----------------------------------------------------------------------------
(* A session, from presence.join to presence.leave. *)

\* AuthPassword starts a client afresh, AuthResume presents its cursor.
\* Authenticated, the session is seen online.
Connect(c, s, how) ==
  /\ at[c] = NoSession /\ phase[s] = "off"
  /\ \A d \in Clients : at[d] # s
  /\ connects < MaxConnects /\ connects' = connects + 1
  /\ at' = [at EXCEPT ![c] = s]
  /\ login' = [login EXCEPT ![c] = how]
  /\ IF how = "resume" THEN UNCHANGED <<cursor, got>>
     ELSE /\ cursor' = [cursor EXCEPT ![c] = 0]
          /\ got' = [got EXCEPT ![c] = {}]
  /\ phase' = [phase EXCEPT ![s] = "joined"]
  /\ wire' = [wire EXCEPT ![s] = <<>>]
  /\ UNCHANGED <<log, storeVars, busVars, rx, from, upto, mail, partial, heard,
                 told, excuses>>

Subscribe(s) ==
  /\ phase[s] = "joined"
  /\ phase' = [phase EXCEPT ![s] = "subscribed"]
  /\ UNCHANGED <<log, storeVars, busVars, rx, from, upto, mail, wire, partial,
                 heard, told, clientVars, excuses, connects>>

\* The snapshot the replay sends; with no cursor there is none.  What the
\* ring no longer holds, or a client without a cursor never had, is not owed.
\* The connection that carries it belongs to the client that opened it; if
\* that one has already gone, nothing is sent and nothing changes for it.
SinceCursor(s) ==
  /\ phase[s] = "subscribed"
  /\ phase' = [phase EXCEPT ![s] = "replaying"]
  /\ \/ \E c \in Clients :
          /\ at[c] = s
          /\ IF login[c] = "resume" /\ cursor[c] > 0
             THEN /\ from' = [from EXCEPT ![s] = Since(cursor[c])]
                  /\ upto' = [upto EXCEPT ![s] = Len(log)]
                  /\ excused' = [excused EXCEPT ![c] = @ \cup 0..RingFloor]
             ELSE /\ excused' = [excused EXCEPT ![c] = @ \cup 0..Len(log)]
                  /\ UNCHANGED <<from, upto>>
     \/ (\A c \in Clients : at[c] # s) /\ UNCHANGED <<from, upto, excused>>
  /\ UNCHANGED <<log, storeVars, busVars, rx, mail, wire, partial, heard, told,
                 clientVars, raced, connects>>

Told(s, x) ==
  /\ told' = [told EXCEPT ![s] = @ \cup ({x} \cap Events)]
  /\ UNCHANGED heard

ReplayOne(s) ==
  /\ phase[s] = "replaying" /\ from[s] <= upto[s]
  /\ SendTo(s, from[s])
  /\ Told(s, log[from[s]])
  /\ from' = [from EXCEPT ![s] = @ + 1]
  /\ UNCHANGED <<log, storeVars, busVars, phase, rx, upto, mail, partial,
                 clientVars, excuses, connects>>

\* A push x is stamped and sent on the connection of session s.
Push(s, x) ==
  /\ stamp(x)
  /\ SendTo(s, Len(log) + 1)
  /\ Told(s, x)

\* The fresh Welcome follows the replay, and so is not in it.
SendWelcomeFirst(s) ==
  /\ phase[s] = "replaying"
  /\ Push(s, Welcome)
  /\ phase' = [phase EXCEPT ![s] = IF from[s] <= upto[s] THEN @ ELSE "mailing"]
  /\ mail' = [mail EXCEPT ![s] = unread]
  /\ UNCHANGED <<storeVars, busVars, rx, from, upto, partial, clientVars,
                 connects>>

SendWelcome(s) ==
  /\ phase[s] = "replaying" /\ from[s] > upto[s]
  /\ Push(s, Welcome)
  /\ phase' = [phase EXCEPT ![s] = "mailing"]
  /\ UNCHANGED <<storeVars, busVars, rx, from, upto, mail, partial,
                 clientVars, connects>>

\* Offline mail call: the unread DMs are read from the store, the first
\* MAIL_CAP of them pushed, and the session then follows the bus.
ReadMail(s) ==
  /\ phase[s] = "mailing"
  /\ phase' = [phase EXCEPT ![s] = "live"]
  /\ \E m \in SUBSET unread :
       /\ IF Cardinality(unread) <= MAIL_CAP THEN m = unread
          ELSE Cardinality(m) = MAIL_CAP
       /\ mail' = [mail EXCEPT ![s] = m]
       /\ partial' = [partial EXCEPT ![s] = @ \/ m # unread]
  /\ UNCHANGED <<log, storeVars, busVars, rx, from, upto, wire, heard, told,
                 clientVars, excuses, connects>>

MailOne(s) ==
  /\ phase[s] = "live"
  /\ \E d \in mail[s] :
       /\ Push(s, d)
       /\ mail' = [mail EXCEPT ![s] = @ \ {d}]
  /\ UNCHANGED <<storeVars, busVars, phase, rx, from, upto, partial,
                 clientVars, connects>>

\* The loop: the next event of the bus, stamped and sent.
TakeEvent(s) ==
  /\ phase[s] = "live" /\ mail[s] = {} /\ rx[s] # <<>>
  /\ Push(s, Head(rx[s]))
  /\ rx' = [rx EXCEPT ![s] = Tail(@)]
  /\ UNCHANGED <<storeVars, busVars, phase, from, upto, mail, partial,
                 clientVars, connects>>

\* The loop ends: kicked, shut down, or the connection is found dead.
Break(s) ==
  /\ \/ phase[s] = "live" /\ mail[s] = {}
     \/ phase[s] \in Following /\ \A c \in Clients : at[c] # s
  /\ phase' = [phase EXCEPT ![s] = "closing"]
  /\ UNCHANGED <<log, storeVars, busVars, rx, from, upto, mail, wire, partial,
                 heard, told, clientVars, excuses, connects>>

\* The task ends, and its receiver and locals with it.
Leave(s) ==
  /\ phase[s] = "closing"
  /\ phase' = [phase EXCEPT ![s] = "off"]
  /\ rx' = [rx EXCEPT ![s] = <<>>]
  /\ from' = [from EXCEPT ![s] = 1] /\ upto' = [upto EXCEPT ![s] = 0]
  /\ mail' = [mail EXCEPT ![s] = {}]
  /\ partial' = [partial EXCEPT ![s] = FALSE]
  /\ heard' = [heard EXCEPT ![s] = {}] /\ told' = [told EXCEPT ![s] = {}]
  /\ UNCHANGED <<log, storeVars, busVars, wire, clientVars, excuses, connects>>

-----------------------------------------------------------------------------
(* The client. *)

ReadPush(c) ==
  LET s == at[c] IN
  /\ s # NoSession /\ wire[s] # <<>>
  /\ cursor' = [cursor EXCEPT ![c] =
       IF Head(wire[s]) > @ THEN Head(wire[s]) ELSE @]
  /\ got' = [got EXCEPT ![c] = @ \cup {Head(wire[s])}]
  /\ wire' = [wire EXCEPT ![s] = Tail(@)]
  /\ UNCHANGED <<log, storeVars, busVars, phase, rx, from, upto, mail, partial,
                 heard, told, at, login, excuses, connects>>

\* The connection drops, and what was on its way with it.
Drop(c) ==
  /\ at[c] # NoSession
  /\ wire' = [wire EXCEPT ![at[c]] = <<>>]
  /\ at' = [at EXCEPT ![c] = NoSession]
  /\ UNCHANGED <<log, storeVars, busVars, phase, rx, from, upto, mail, partial,
                 heard, told, login, cursor, got, excuses, connects>>

\* DmMarkRead, of a message this client was shown.
MarkRead(c, d) ==
  /\ at[c] # NoSession /\ phase[at[c]] = "live" /\ mail[at[c]] = {}
  /\ d \in unread
  /\ \E n \in got[c] : n <= Len(log) /\ n > 0 /\ log[n] = d
  /\ unread' = unread \ {d}
  /\ UNCHANGED <<log, stored, busVars, sessionVars, clientVars, excuses,
                 connects>>

-----------------------------------------------------------------------------
SessionStep(s) ==
  \/ Subscribe(s) \/ SinceCursor(s) \/ ReplayOne(s) \/ SendWelcome(s)
  \/ ReadMail(s) \/ MailOne(s) \/ TakeEvent(s) \/ Break(s) \/ Leave(s)

Next ==
  \/ \E d \in Dms : InsertDm(d)
  \/ \E e \in Events : Publish(e)
  \/ RecorderLooks \/ RecorderStamps
  \/ \E s \in Sessions : SessionStep(s)
  \/ \E c \in Clients, s \in Sessions, how \in {"password", "resume"} :
       Connect(c, s, how)
  \/ \E c \in Clients : ReadPush(c) \/ Drop(c)
  \/ \E c \in Clients, d \in Dms : MarkRead(c, d)

Spec == Init /\ [][Next]_vars

-----------------------------------------------------------------------------
(* What an account is promised. *)

\* A client reads sequence numbers in strictly increasing order, never one it
\* has passed: through replays, the Welcome, and stamps by other sessions of
\* the account and by the recorder in between (pushlog, session).
InOrder ==
  \A c \in Clients : at[c] # NoSession =>
    LET w == wire[at[c]] IN
    /\ \A i \in 1..Len(w) : w[i] > cursor[c]
    /\ \A i, j \in 1..Len(w) : i < j => w[i] < w[j]

\* Over any number of drops and resumes, mid-replay too, a client's cursor
\* passes over no push it has not seen, unless the ring lost it, its session
\* has the same event from the bus or the mail, or it was published while the
\* client was away and stamped only after the snapshot of its replay: the
\* recorder looks who is online, and stamps later (lib.rs, since).
PassedOverOnlyIfRaced ==
  \A c \in Clients : \A n \in 1..cursor[c] : n \in got[c] \cup excused[c] \cup raced[c]

\* A stored DM reaches every live session that has neither lagged nor capped
\* its mail: pushed, or on its way.  Subscribing before the mail is read, and
\* storing before publishing, leave no moment for one to slip through.
MailReaches ==
  \A s \in Sessions : phase[s] = "live" /\ ~partial[s] =>
    \A d \in unread \cap sent : d \in told[s] \cup Elems(rx[s]) \cup mail[s]

\* Casts a session has still to push.
Owed(s) == heard[s] \ told[s]

\* A broadcast published once a session has subscribed is pushed on it or
\* waits in its queue, although a replay, the Welcome and the mail come first,
\* unless the session lagged.  (One published between presence.join and
\* bus.subscribe is on nobody's list: the recorder sees the account online.)
CastsReach ==
  \A s \in Sessions : phase[s] = "live" /\ ~partial[s] => Owed(s) \subseteq Elems(rx[s])

-----------------------------------------------------------------------------
(* The inductive invariant that carries the first three. *)

\* Why the wire is in order: what is left of a replay lies between what was
\* sent and what may still be stamped, and one session serves one client.
OrderInv ==
  /\ \A c, d \in Clients : at[c] = at[d] /\ at[c] # NoSession => c = d
  /\ \A c \in Clients : cursor[c] <= Len(log)
  /\ \A s \in Sessions :
       /\ upto[s] <= Len(log)
       /\ phase[s] \notin {"replaying", "closing"} => from[s] > upto[s]
       /\ phase[s] \in {"joined", "subscribed"} => wire[s] = <<>>
       /\ \A i \in 1..Len(wire[s]) :
            /\ wire[s][i] <= Len(log)
            /\ phase[s] = "replaying" /\ from[s] <= upto[s] => wire[s][i] < from[s]
  /\ \A c \in Clients : at[c] # NoSession /\ phase[at[c]] = "replaying"
       => from[at[c]] > cursor[c] \/ from[at[c]] > upto[at[c]]
  /\ InOrder

\* Why nothing is passed over: while a client follows, every stamped number
\* is seen, excused or raced, on the wire or left to replay; when its session is over,
\* this still holds below each number on the wire.
GapInv ==
  /\ PassedOverOnlyIfRaced
  /\ \A c \in Clients : at[c] # NoSession =>
       LET s == at[c]
           known == got[c] \cup excused[c] \cup raced[c] \cup Elems(wire[s])
       IN IF phase[s] \in Following
          THEN \A n \in 1..Len(log) : n \in known \cup from[s]..upto[s]
          ELSE \A i \in 1..Len(wire[s]) : \A n \in 1..wire[s][i] : n \in known

MailInv == sent \cap Dms \subseteq stored /\ MailReaches

IInv == OrderInv /\ GapInv /\ MailInv
=============================================================================
