------------------------------- MODULE FloodFill -------------------------------
(***************************************************************************)
(* Board-event flood-fill between burrows (apps/server/src/federation.rs   *)
(* and federation/history.rs): the sessions of approved peers announce the *)
(* boards they want, offer what they hold (IHAVE), pull what they lack     *)
(* (PULL) and deliver it (EVENTS).  A stored event is fired on the local   *)
(* bus, from which the other sessions offer it on: a flood.  Periodic      *)
(* history passes offer again what a live offer missed.                    *)
(*                                                                         *)
(* A side <<n, m>> is n's end of its link with m: one task, one loop.  The *)
(* stream in each direction is reliable and ordered until the link drops.  *)
(* One board; storing an event is one step here, begun by the reservation  *)
(* (module BoardIngest has what happens inside).  A reply packs all that   *)
(* was pulled into one frame, and a frame can be too large to be sent.     *)
(* A link comes back once the tasks of its last session are done.          *)
(***************************************************************************)
EXTENDS Integers, FiniteSets, Sequences, FiniteSetsExt

CONSTANTS
  Nodes,         \* burrows
  Links,         \* pairs <<dialer, listener>>
  Events,        \* content ids, numbers: history is read in their order
  OriginOf,      \* the burrow that authored an event
  Trusts,        \* the origins whose keys a burrow has pinned
  Wants,         \* burrows that opted in to the board
  ScanLimit,     \* rows read by one history pass (SCAN_LIMIT)
  OfferLimit,    \* ids offered by one history pass (OFFER_IDS)
  SizeOf,        \* the bytes of an event
  MaxFrame,      \* the bytes that fit in a frame (MAX_FRAME_SIZE)
  Periodic,      \* history passes recur (federation_history_reoffer_secs > 0)
  MaxInFlight,   \* bound: unread frames of a link when a history pass begins
  MaxDrops,      \* bound: links lost, restarts
  MaxFaults      \* bound: failed ingests, missed offers

Sides == Links \cup {<<l[2], l[1]>> : l \in Links}
Other(s) == <<s[2], s[1]>>

ASSUME NetworkAssumption ==
  /\ Links \subseteq Nodes \X Nodes
  /\ \A l \in Links : l[1] # l[2] /\ Other(l) \notin Links
  /\ Events \subseteq Nat \ {0} /\ IsFiniteSet(Events)
  /\ OriginOf \in [Events -> Nodes]
  /\ Trusts \in [Nodes -> SUBSET Nodes]
  /\ Wants \subseteq Nodes
ASSUME SizesAssumption == SizeOf \in [Events -> Nat] /\ MaxFrame \in Nat
ASSUME LimitsAssumption ==
  /\ ScanLimit \in Nat \ {0} /\ OfferLimit \in Nat \ {0} /\ Periodic \in BOOLEAN
  /\ MaxDrops \in Nat /\ MaxFaults \in Nat /\ MaxInFlight \in Nat \ {0}

VARIABLES
  stored,    \* posts and board_followups of each burrow
  dedup,     \* each burrow's duplicate window, this event's reservation in it
  up,        \* sides whose session runs
  interest,  \* sides whose peer has subscribed
  sent,      \* sides that have announced their own subscription
  seen,      \* FloodEdge::seen, the ids exchanged on this side's session
  bus,       \* events fired since and not yet taken from this side's receiver
  cursor,    \* where this side's next history pass starts
  batch,     \* events of the delivery in hand that this side has yet to look at
  work,      \* the event this side is storing, 0 for none
  chan,      \* frames this side has sent and its peer has not read
  came,      \* history: events the peer delivered on this session
  drops, faults

edge == <<up, interest, sent, seen, bus, cursor, came>>
vars == <<stored, dedup, edge, batch, work, chan, drops, faults>>

Nothing == 0
Frames == [kind : {"subscribe", "ihave", "pull", "events"}, ids : SUBSET Events]

TypeOK ==
  /\ stored \in [Nodes -> SUBSET Events]
  /\ dedup \in [Nodes -> SUBSET Events]
  /\ up \subseteq Sides
  /\ interest \subseteq Sides
  /\ sent \subseteq Sides
  /\ seen \in [Sides -> SUBSET Events]
  /\ bus \in [Sides -> SUBSET Events]
  /\ cursor \in [Sides -> Events \cup {Nothing}]
  /\ batch \in [Sides -> SUBSET Events]
  /\ work \in [Sides -> Events \cup {Nothing}]
  /\ chan \in [Sides -> Seq(Frames)]
  /\ came \in [Sides -> SUBSET Events]
  /\ drops \in 0..MaxDrops
  /\ faults \in 0..MaxFaults

Init ==
  /\ stored = [n \in Nodes |-> {}]
  /\ dedup = [n \in Nodes |-> {}]
  /\ up = {}
  /\ interest = {}
  /\ sent = {}
  /\ seen = [s \in Sides |-> {}]
  /\ bus = [s \in Sides |-> {}]
  /\ cursor = [s \in Sides |-> Nothing]
  /\ batch = [s \in Sides |-> {}]
  /\ work = [s \in Sides |-> Nothing]
  /\ chan = [s \in Sides |-> <<>>]
  /\ came = [s \in Sides |-> {}]
  /\ drops = 0 /\ faults = 0

-----------------------------------------------------------------------------
Frame(k, ids) == [kind |-> k, ids |-> ids]
\* No frame for nothing.
FrameOf(k, ids) == IF ids = {} THEN <<>> ELSE <<Frame(k, ids)>>

\* Mutant: the word of the relaying peer is enough.
TrustedRelay(n, e) == OriginOf[e] \in Nodes
\* trusted_origin_key, and origin_key_for when serving: our own origin, or
\* one with a pin.
Trusted(n, e) == OriginOf[e] = n \/ OriginOf[e] \in Trusts[n]

\* ServerEvent::BoardPost reaches every session of the burrow.
Fired(n, e) == [s \in Sides |-> IF s[1] = n /\ s \in up THEN bus[s] \cup {e} ELSE bus[s]]

\* Faults happen a bounded number of times.
Dropped == drops < MaxDrops /\ drops' = drops + 1
Faulty == faults < MaxFaults /\ faults' = faults + 1

Idle(s) == batch[s] = {} /\ work[s] = Nothing
Running(s) == s \in up /\ Idle(s)
Hears(s, k) == Running(s) /\ chan[Other(s)] # <<>> /\ Head(chan[Other(s)]).kind = k
Heard(s) == Head(chan[Other(s)]).ids

\* Take the frame that was heard and send these.
Answer(s, frames) ==
  chan' = [chan EXCEPT ![Other(s)] = Tail(@), ![s] = @ \o frames]
Send(s, f) == chan' = [chan EXCEPT ![s] = Append(@, f)]
Note(s, ids) == seen' = [seen EXCEPT ![s] = @ \cup ids]

\* A user posts, edits or deletes.
Author(n, e) ==
  /\ OriginOf[e] = n /\ e \notin stored[n]
  /\ \A m \in Nodes : e \notin stored[m]
  /\ stored' = [stored EXCEPT ![n] = @ \cup {e}]
  /\ bus' = Fired(n, e)
  /\ UNCHANGED <<dedup, up, interest, sent, seen, cursor, came, batch, work, chan, drops, faults>>

\* Both ends start a session; the dialer announces what it wants.
Connect(l) ==
  LET both == {l, Other(l)} IN
  /\ both \cap up = {} /\ \A s \in both : Idle(s)
  /\ up' = up \cup both
  /\ IF l[1] \in Wants
     THEN sent' = sent \cup {l} /\ Send(l, Frame("subscribe", {}))
     ELSE UNCHANGED <<sent, chan>>
  /\ UNCHANGED <<stored, dedup, interest, seen, bus, cursor, came, batch, work, drops, faults>>

\* These sessions end, and with them their FloodEdge, their cursor and what
\* was in flight.
End(sides) ==
  /\ up' = up \ sides
  /\ interest' = interest \ sides
  /\ sent' = sent \ sides
  /\ seen' = [s \in Sides |-> IF s \in sides THEN {} ELSE seen[s]]
  /\ bus' = [s \in Sides |-> IF s \in sides THEN {} ELSE bus[s]]
  /\ cursor' = [s \in Sides |-> IF s \in sides THEN Nothing ELSE cursor[s]]
  /\ came' = [s \in Sides |-> IF s \in sides THEN {} ELSE came[s]]
  /\ chan' = [s \in Sides |-> IF s \in sides THEN <<>> ELSE chan[s]]

\* The connection is lost; a side with a delivery in hand finishes that.
Drop(l) ==
  /\ {l, Other(l)} \subseteq up /\ Dropped
  /\ End({l, Other(l)})
  /\ UNCHANGED <<stored, dedup, batch, work, faults>>

\* The burrow restarts: its tables stay, its duplicate window does not.
Restart(n) ==
  /\ Dropped
  /\ dedup' = [dedup EXCEPT ![n] = {}]
  /\ batch' = [s \in Sides |-> IF s[1] = n THEN {} ELSE batch[s]]
  /\ work' = [s \in Sides |-> IF s[1] = n THEN Nothing ELSE work[s]]
  /\ End({s \in Sides : n \in {s[1], s[2]}})
  /\ UNCHANGED <<stored, faults>>

-----------------------------------------------------------------------------
(* History passes (offer_at).                                                *)

\* history_page: the first rows above the cursor, in the order of their ids.
First(ids, k) == {e \in ids : Cardinality({d \in ids : d < e}) < k}
Page(s) == First({e \in stored[s[1]] : e > cursor[s]}, ScanLimit)
\* The part of the page that one pass offers, whether or not this session
\* has touched the ids before.
Offered(s) == First(Page(s), OfferLimit)
Last(ids) == {e \in ids : \A d \in ids : d <= e}
\* Mutant: any short page starts over.
NextCursorShortPage(s) == IF Cardinality(Page(s)) < ScanLimit THEN {Nothing} ELSE Last(Offered(s))
\* Only a page that is short and was offered whole starts over.
NextCursor(s) ==
  IF Offered(s) = Page(s) /\ Cardinality(Page(s)) < ScanLimit THEN {Nothing} ELSE Last(Offered(s))

\* A pass, on these streams, with these frames sent ahead of its offer.
Pass(s, streams, ahead) ==
  /\ chan' = [streams EXCEPT ![s] = @ \o ahead \o FrameOf("ihave", Offered(s))]
  /\ Note(s, Offered(s))
  /\ \E next \in NextCursor(s) : cursor' = [cursor EXCEPT ![s] = next]

\* The tick.
HistoryPass(s) ==
  /\ Periodic /\ Running(s) /\ s \in interest /\ s[1] \in Wants
  /\ Len(chan[s]) + Len(chan[Other(s)]) < MaxInFlight
  /\ Pass(s, chan, <<>>)
  /\ UNCHANGED <<stored, dedup, up, interest, sent, bus, came, batch, work, drops, faults>>

-----------------------------------------------------------------------------
(* The frames of a session.                                                  *)

\* handle_subscribe, the listener's own announcement, once, and the catch-up:
\* a history pass, unless the peer's last one was less than an interval ago.
HearSubscribe(s) ==
  LET announce == s \notin sent /\ s[1] \in Wants
      ahead == IF announce THEN <<Frame("subscribe", {})>> ELSE <<>> IN
  /\ Hears(s, "subscribe")
  /\ interest' = interest \cup {s}
  /\ sent' = IF announce THEN sent \cup {s} ELSE sent
  /\ \/ s[1] \in Wants /\ Pass(s, [chan EXCEPT ![Other(s)] = Tail(@)], ahead)
     \/ Answer(s, ahead) /\ UNCHANGED <<seen, cursor>>
  /\ UNCHANGED <<stored, dedup, up, bus, came, batch, work, drops, faults>>

\* Mutant: only the duplicate window is consulted.
WantedWindowOnly(s) == {e \in Heard(s) : e \notin dedup[s[1]]}
\* What is neither in the duplicate window nor stored.
Wanted(s) == {e \in Heard(s) : e \notin dedup[s[1]] /\ e \notin stored[s[1]]}

\* Pull it.
HearIHave(s) ==
  /\ Hears(s, "ihave")
  /\ Note(s, Wanted(s))
  /\ Answer(s, FrameOf("pull", Wanted(s)))
  /\ UNCHANGED <<stored, dedup, up, interest, sent, bus, cursor, came, batch, work, drops, faults>>

\* What is stored and can be vouched for.
Served(s) == {e \in Heard(s) : e \in stored[s[1]] /\ Trusted(s[1], e)}
\* encode_frame: one frame takes it.
Fits(ids) == MapThenSumSet(LAMBDA e : SizeOf[e], ids) <= MaxFrame

\* Serve it.
HearPull(s) ==
  /\ Hears(s, "pull") /\ Fits(Served(s))
  /\ Note(s, Served(s))
  /\ Answer(s, FrameOf("events", Served(s)))
  /\ UNCHANGED <<stored, dedup, up, interest, sent, bus, cursor, came, batch, work, drops, faults>>

\* The reply is too large: the send is refused, and the error ends the session.
PullTooLarge(s) ==
  /\ Hears(s, "pull") /\ ~ Fits(Served(s))
  /\ End({s, Other(s)})
  /\ UNCHANGED <<stored, dedup, batch, work, drops, faults>>

\* handle_events goes through a delivery, one event after the other.
HearEvents(s) ==
  /\ Hears(s, "events")
  /\ Answer(s, <<>>)
  /\ batch' = [batch EXCEPT ![s] = Heard(s)]
  /\ came' = [came EXCEPT ![s] = @ \cup Heard(s)]
  /\ UNCHANGED <<stored, dedup, up, interest, sent, seen, bus, cursor, work, drops, faults>>

\* Mutant: the reservation of another session is not honoured.
FreshUnreserved(n, e) == Trusted(n, e) /\ e \notin stored[n]
\* An untrusted origin is refused; a copy that is stored, or that another
\* session is storing, is only noted; the first one is reserved.
Fresh(n, e) == Trusted(n, e) /\ e \notin stored[n] /\ e \notin dedup[n]

\* ingest_fed_event up to the reservation.  (The edge of a session that is over
\* is gone with it.)
TakeDelivered(s, e) ==
  LET n == s[1] IN
  /\ work[s] = Nothing /\ e \in batch[s] /\ \A d \in batch[s] : e <= d
  /\ batch' = [batch EXCEPT ![s] = @ \ {e}]
  /\ Note(s, IF Trusted(n, e) /\ s \in up THEN {e} ELSE {})
  /\ IF Fresh(n, e)
     THEN dedup' = [dedup EXCEPT ![n] = @ \cup {e}] /\ work' = [work EXCEPT ![s] = e]
     ELSE UNCHANGED <<dedup, work>>
  /\ UNCHANGED <<stored, up, interest, sent, bus, cursor, came, chan, drops, faults>>

\* ingest_event succeeds: the reservation is committed, the event re-fired.
Ingested(s) ==
  LET e == work[s] IN
  /\ e # Nothing
  /\ work' = [work EXCEPT ![s] = Nothing]
  /\ stored' = [stored EXCEPT ![s[1]] = @ \cup {e}]
  /\ bus' = Fired(s[1], e)
  /\ UNCHANGED <<dedup, up, interest, sent, seen, cursor, came, batch, chan, drops, faults>>

\* It fails: the reservation is dropped.
IngestFails(s) ==
  /\ work[s] # Nothing /\ Faulty
  /\ work' = [work EXCEPT ![s] = Nothing]
  /\ dedup' = [dedup EXCEPT ![s[1]] = @ \ {work[s]}]
  /\ UNCHANGED <<stored, up, interest, sent, seen, bus, cursor, came, batch, chan, drops>>

-----------------------------------------------------------------------------
(* Offers.                                                                   *)

\* Mutant: what this session has touched is offered too.
TakeFiredAlways(s, e) ==
  /\ Running(s) /\ e \in bus[s]
  /\ bus' = [bus EXCEPT ![s] = @ \ {e}]
  /\ IF s \in interest
     THEN Note(s, {e}) /\ Send(s, Frame("ihave", {e}))
     ELSE UNCHANGED <<seen, chan>>
  /\ UNCHANGED <<stored, dedup, up, interest, sent, cursor, came, batch, work, drops, faults>>

\* maybe_offer: a fired event the peer wants and this session has not
\* touched is offered.
TakeFired(s, e) ==
  /\ Running(s) /\ e \in bus[s]
  /\ bus' = [bus EXCEPT ![s] = @ \ {e}]
  /\ IF s \in interest /\ e \notin seen[s]
     THEN Note(s, {e}) /\ Send(s, Frame("ihave", {e}))
     ELSE UNCHANGED <<seen, chan>>
  /\ UNCHANGED <<stored, dedup, up, interest, sent, cursor, came, batch, work, drops, faults>>

\* The receiver lags, or the Bloom filter takes the id for one it knows.
MissFired(s, e) ==
  /\ Running(s) /\ e \in bus[s] /\ Faulty
  /\ bus' = [bus EXCEPT ![s] = @ \ {e}]
  /\ UNCHANGED <<stored, dedup, up, interest, sent, seen, cursor, came, batch, work, chan, drops>>

Hear(s) == HearSubscribe(s) \/ HearIHave(s) \/ HearPull(s) \/ PullTooLarge(s) \/ HearEvents(s)

Next ==
  \/ \E n \in Nodes, e \in Events : Author(n, e)
  \/ \E l \in Links : Connect(l) \/ Drop(l)
  \/ \E n \in Nodes : Restart(n)
  \/ \E s \in Sides : Hear(s) \/ Ingested(s) \/ IngestFails(s) \/ HistoryPass(s)
  \/ \E s \in Sides, e \in Events : TakeDelivered(s, e) \/ TakeFired(s, e) \/ MissFired(s, e)

Spec == Init /\ [][Next]_vars

\* Tasks are polled, the dialer comes round every 30 s, ingests end, and so
\* does the time between two history passes.
Fairness ==
  /\ \A l \in Links : WF_vars(Connect(l))
  /\ \A s \in Sides :
       /\ WF_vars(Hear(s) \/ Ingested(s) \/ \E e \in Events : TakeDelivered(s, e))
       /\ WF_vars(\E e \in Events : TakeFired(s, e))
       /\ SF_vars(HistoryPass(s))

LiveSpec == Spec /\ Fairness
-----------------------------------------------------------------------------
(* Properties.                                                               *)

\* An event is only ever copied along a link from a burrow that has it to
\* one that trusts its origin: FloodFill implements Replication.
Holdings == INSTANCE Replication WITH holds <- stored
OnlyCopies == Holdings!Spec

\* Whoever stores an event holds its reservation, and no other session of the
\* burrow stores it at the same time; what is stored is never stored again
\* until a restart empties the window.
OneStorer ==
  \A s \in Sides : work[s] # Nothing =>
    /\ work[s] \in dedup[s[1]] \ stored[s[1]]
    /\ \A r \in Sides : r[1] = s[1] /\ work[r] = work[s] => r = s

\* A live offer never goes back to the peer that delivered the event on the
\* same session.
NoEcho ==
  [][\A s \in up : \A e \in bus[s] \ bus'[s] :
       Len(chan'[s]) > Len(chan[s]) => e \notin came[s]]_vars

\* What a burrow holds reaches each neighbour that wants the board and trusts
\* the origin, through lost links, restarts, failed ingests and missed offers:
\* history passes make up for them.  Hop by hop, it reaches the whole network.
\* The exception is a page of history whose reply does not fit in a frame: every
\* session of the link ends with it, and the next one offers the page again.
Converges ==
  \A s \in Sides : s[1] \in Wants /\ s[2] \in Wants =>
    \/ []<>(\A e \in stored[s[1]] :
              Trusted(s[1], e) /\ Trusted(s[2], e) => e \in stored[s[2]])
    \/ []<><<PullTooLarge(s)>>_vars

\* The flood ends, unless a link breaks for ever on such a page: once the network
\* has settled, nothing is pulled any more but what the puller will not keep,
\* whose origin it does not trust.
Quiet ==
  \/ <>[](\A s \in Sides : \A i \in 1..Len(chan[s]) : chan[s][i].kind = "pull" =>
            \A e \in chan[s][i].ids : ~Trusted(s[1], e))
  \/ \E s \in Sides : []<><<PullTooLarge(s)>>_vars
=============================================================================
