---------------------------- MODULE FloodFillProofs ----------------------------
(***************************************************************************)
(* FloodFill, for every network of burrows: its type invariant, that an    *)
(* event is stored by one session at a time (OneStorer), that the exchange *)
(* implements Replication (OnlyCopies), and that nothing is offered back   *)
(* to the peer that delivered it (NoEcho).                                 *)
(*                                                                         *)
(* None of them follows from the other variables alone.  A copy is stored  *)
(* long after it was served, so the invariant follows the event along its  *)
(* way: an EVENTS frame in a stream, and the delivery a session has in     *)
(* hand, name what the peer has stored (Delivered, InHand), and what a     *)
(* session is storing is reserved, not stored yet, trusted, held by the    *)
(* peer, and in no other session's hands (Working).  Only what is trusted  *)
(* is fired, and of that a session has noted all that its peer delivered   *)
(* and that it is done with (Touched).                                     *)
(***************************************************************************)
EXTENDS FloodFill, FiniteSetTheorems, SequenceTheorems, TLAPS

Vouched(S) == {f \in Frames : f.kind = "events" => f.ids \subseteq S}

Delivered == \A s \in Sides : chan[s] \in Seq(Vouched(stored[s[1]]))

InHand == \A s \in Sides : batch[s] \subseteq stored[s[2]]

Working ==
  \A s \in Sides : work[s] # Nothing =>
    /\ work[s] \in dedup[s[1]] /\ work[s] \notin stored[s[1]]
    /\ work[s] \in stored[s[2]]
    /\ Trusted(s[1], work[s])
    /\ \A r \in Sides : r[1] = s[1] /\ work[r] = work[s] => r = s

IInv == TypeOK /\ Delivered /\ InHand /\ Working

-----------------------------------------------------------------------------
\* A link has two sides, each the other's other.
LEMMA SideFacts ==
  ASSUME NEW s \in Sides
  PROVE  /\ s[1] \in Nodes /\ s[2] \in Nodes /\ s = <<s[1], s[2]>>
         /\ Other(s) \in Sides /\ Other(Other(s)) = s /\ Other(s) # s
         /\ Other(s)[1] = s[2] /\ Other(s)[2] = s[1]
<1>1. CASE s \in Links
  BY <1>1, NetworkAssumption DEF Sides, Other
<1>2. CASE s \in {<<l[2], l[1]>> : l \in Links}
  <2>1. PICK l \in Links : s = <<l[2], l[1]>>
    BY <1>2
  <2>2. l \in Nodes \X Nodes /\ l[1] # l[2]
    BY NetworkAssumption
  <2>3. l = <<l[1], l[2]>>
    BY <2>2
  <2> QED
    BY <2>1, <2>2, <2>3 DEF Sides, Other
<1> QED
  BY <1>1, <1>2 DEF Sides

\* What a burrow could serve it can serve when it has stored more.
LEMMA VouchedMono ==
  ASSUME NEW S, NEW T, S \subseteq T
  PROVE  Vouched(S) \subseteq Vouched(T)
BY DEF Vouched

\* A stream of such frames is a stream of frames.
LEMMA VouchedFrames ==
  ASSUME NEW S, NEW q \in Seq(Vouched(S))
  PROVE  q \in Seq(Frames)
<1>1. Vouched(S) \subseteq Frames
  BY DEF Vouched
<1> QED
  BY <1>1, SeqMonotonic

\* The frames a session sends are ones its burrow can answer for.
LEMMA FrameVouched ==
  ASSUME NEW S
  PROVE  /\ Frame("subscribe", {}) \in Vouched(S)
         /\ \A ids \in SUBSET Events : /\ Frame("ihave", ids) \in Vouched(S)
                                       /\ FrameOf("ihave", ids) \in Seq(Vouched(S))
                                       /\ FrameOf("pull", ids) \in Seq(Vouched(S))
         /\ \A ids \in SUBSET Events : ids \subseteq S => FrameOf("events", ids) \in Seq(Vouched(S))
<1>1. \A ids \in SUBSET Events : Frame("ihave", ids) \in Vouched(S) /\ Frame("pull", ids) \in Vouched(S)
  BY DEF Vouched, Frames, Frame
<1>2. \A ids \in SUBSET Events : ids \subseteq S => Frame("events", ids) \in Vouched(S)
  BY DEF Vouched, Frames, Frame
<1>3. Frame("subscribe", {}) \in Vouched(S)
  BY DEF Vouched, Frames, Frame
<1>4. <<>> \in Seq(Vouched(S)) /\ \A f \in Vouched(S) : <<f>> \in Seq(Vouched(S))
  BY EmptySeq
<1> QED
  BY <1>1, <1>2, <1>3, <1>4 DEF FrameOf

\* The frame a session hears was put there by its peer.
LEMMA HeardFacts ==
  ASSUME IInv, NEW s \in Sides, NEW k \in {"subscribe", "ihave", "pull", "events"}, Hears(s, k)
  PROVE  /\ chan[Other(s)] # <<>>
         /\ Tail(chan[Other(s)]) \in Seq(Vouched(stored[s[2]]))
         /\ Heard(s) \subseteq Events
         /\ k = "events" => Heard(s) \subseteq stored[s[2]]
<1>1. chan[Other(s)] \in Seq(Vouched(stored[s[2]])) /\ chan[Other(s)] # <<>>
  BY SideFacts DEF IInv, Delivered, Hears
<1>2. Head(chan[Other(s)]) \in Vouched(stored[s[2]])
  BY <1>1, HeadTailProperties
<1>3. Head(chan[Other(s)]).kind = k
  BY DEF Hears
<1>4. Tail(chan[Other(s)]) \in Seq(Vouched(stored[s[2]]))
  BY <1>1, HeadTailProperties
<1> QED
  BY <1>1, <1>2, <1>3, <1>4 DEF Vouched, Frames, Heard

\* A session that answers puts only its own frames in its own stream.
LEMMA AnswerKeeps ==
  ASSUME IInv, NEW s \in Sides, NEW k \in {"subscribe", "ihave", "pull", "events"}, Hears(s, k),
         NEW frames \in Seq(Vouched(stored[s[1]])), Answer(s, frames), UNCHANGED stored
  PROVE  chan' \in [Sides -> Seq(Frames)] /\ Delivered'
<1>1. ASSUME NEW r \in Sides PROVE chan'[r] \in Seq(Vouched(stored[r[1]]))
  <2>1. chan[r] \in Seq(Vouched(stored[r[1]]))
    BY DEF IInv, Delivered
  <2>2. CASE r = s
    BY <2>1, <2>2, SideFacts, ConcatProperties DEF Answer, IInv, TypeOK
  <2>3. CASE r = Other(s)
    <3>1. chan'[r] = Tail(chan[Other(s)])
      BY <2>3, SideFacts DEF Answer, IInv, TypeOK
    <3>2. stored[r[1]] = stored[s[2]]
      BY <2>3, SideFacts
    <3> QED
      BY <3>1, <3>2, HeardFacts
  <2>4. CASE r # s /\ r # Other(s)
    BY <2>1, <2>4, SideFacts DEF Answer, IInv, TypeOK
  <2> QED
    BY <2>2, <2>3, <2>4
<1>2. chan' = [r \in Sides |-> chan'[r]]
  BY DEF Answer, IInv, TypeOK
<1>3. ASSUME NEW r \in Sides PROVE chan'[r] \in Seq(Frames)
  BY <1>1, <1>3, VouchedFrames
<1> QED
  BY <1>1, <1>2, <1>3 DEF Delivered

\* So does one that sends on its own account.
LEMMA SendKeeps ==
  ASSUME IInv, NEW s \in Sides, NEW f \in Vouched(stored[s[1]]), Send(s, f), UNCHANGED stored
  PROVE  chan' \in [Sides -> Seq(Frames)] /\ Delivered'
<1>1. ASSUME NEW r \in Sides PROVE chan'[r] \in Seq(Vouched(stored[r[1]]))
  <2>1. chan[r] \in Seq(Vouched(stored[r[1]]))
    BY DEF IInv, Delivered
  <2>2. Append(chan[s], f) \in Seq(Vouched(stored[s[1]]))
    BY DEF IInv, Delivered
  <2> QED
    BY <2>1, <2>2 DEF Send, IInv, TypeOK
<1>2. chan' = [r \in Sides |-> chan'[r]]
  BY DEF Send, IInv, TypeOK
<1>3. ASSUME NEW r \in Sides PROVE chan'[r] \in Seq(Frames)
  BY <1>1, <1>3, VouchedFrames
<1> QED
  BY <1>1, <1>2, <1>3 DEF Delivered

\* A history pass offers stored events.
LEMMA OfferedFacts ==
  ASSUME IInv, NEW s \in Sides
  PROVE  Offered(s) \subseteq Events /\ Cardinality(Offered(s)) \in Nat
<1>1. Offered(s) \subseteq Events
  BY SideFacts DEF Offered, Page, First, IInv, TypeOK
<1> QED
  BY <1>1, NetworkAssumption, FS_Subset, FS_CardinalityType

\* It notes the events it offers and moves the cursor to one of them.
LEMMA PassTypes ==
  ASSUME IInv, NEW s \in Sides, NEW streams, NEW ahead, Pass(s, streams, ahead)
  PROVE  seen' \in [Sides -> SUBSET Events] /\ cursor' \in [Sides -> Events \cup {Nothing}]
<1>1. PICK next \in NextCursor(s) : cursor' = [cursor EXCEPT ![s] = next]
  BY DEF Pass
<1>2. next \in Events \cup {Nothing}
  BY OfferedFacts DEF NextCursor, Last
<1>3. seen' = [seen EXCEPT ![s] = @ \cup Offered(s)]
  BY DEF Pass, Note
<1> QED
  BY <1>1, <1>2, <1>3, OfferedFacts DEF IInv, TypeOK

\* The frames of a history pass are its burrow's own.
LEMMA PassKeeps ==
  ASSUME IInv, NEW s \in Sides, UNCHANGED stored,
         NEW streams, streams \in [Sides -> Seq(Frames)],
         \A r \in Sides : streams[r] \in Seq(Vouched(stored[r[1]])),
         NEW ahead \in Seq(Vouched(stored[s[1]])), Pass(s, streams, ahead)
  PROVE  chan' \in [Sides -> Seq(Frames)] /\ Delivered'
<1> DEFINE offers == FrameOf("ihave", Offered(s))
           mine == Vouched(stored[s[1]])
<1>2. offers \in Seq(mine)
  BY OfferedFacts, FrameVouched
<1> HIDE DEF offers
<1>3. streams[s] \o ahead \o offers \in Seq(mine)
  <2>1. streams[s] \o ahead \in Seq(mine)
    BY ConcatProperties
  <2> QED
    BY <2>1, <1>2, ConcatProperties
<1>4. chan' = [streams EXCEPT ![s] = @ \o ahead \o offers]
  BY DEF offers, Pass
<1>5. ASSUME NEW r \in Sides PROVE chan'[r] \in Seq(Vouched(stored[r[1]]))
  <2>1. CASE r = s
    BY <1>3, <1>4, <2>1
  <2>2. CASE r # s
    BY <1>4, <2>2
  <2> QED
    BY <2>1, <2>2
<1>6. ASSUME NEW r \in Sides PROVE chan'[r] \in Seq(Frames)
  BY <1>5, <1>6, VouchedFrames
<1>7. chan' = [r \in Sides |-> chan'[r]]
  BY <1>4
<1> QED
  BY <1>5, <1>6, <1>7 DEF Delivered

-----------------------------------------------------------------------------
\* When the streams are as they were, more stored events keep them honest.
LEMMA SameStreams ==
  ASSUME IInv, UNCHANGED chan, \A n \in Nodes : stored[n] \subseteq stored'[n]
  PROVE  chan' \in [Sides -> Seq(Frames)] /\ Delivered'
<1>1. chan' \in [Sides -> Seq(Frames)]
  BY DEF IInv, TypeOK
<1>2. ASSUME NEW s \in Sides PROVE chan[s] \in Seq(Vouched(stored'[s[1]]))
  <2>1. chan[s] \in Seq(Vouched(stored[s[1]]))
    BY DEF IInv, Delivered
  <2>2. Vouched(stored[s[1]]) \subseteq Vouched(stored'[s[1]])
    BY SideFacts, VouchedMono
  <2> QED
    BY <2>1, <2>2, SeqMonotonic
<1> QED
  BY <1>1, <1>2 DEF Delivered

\* Ending a session empties its streams and leaves the others.
LEMMA EndStreams ==
  ASSUME IInv, NEW gone, End(gone), UNCHANGED stored
  PROVE  chan' \in [Sides -> Seq(Frames)] /\ Delivered'
<1>1. ASSUME NEW s \in Sides
      PROVE  chan'[s] \in Seq(Vouched(stored[s[1]])) /\ chan'[s] \in Seq(Frames)
  <2>1. chan[s] \in Seq(Vouched(stored[s[1]])) /\ chan[s] \in Seq(Frames)
    BY DEF IInv, Delivered, TypeOK
  <2>2. <<>> \in Seq(Vouched(stored[s[1]])) /\ <<>> \in Seq(Frames)
    BY EmptySeq
  <2>3. chan'[s] = IF s \in gone THEN <<>> ELSE chan[s]
    BY DEF End
  <2> QED
    BY <2>1, <2>2, <2>3
<1>2. chan' = [s \in Sides |-> chan'[s]]
  BY DEF End
<1> QED
  BY <1>1, <1>2 DEF Delivered

\* No step puts a frame into a stream that its sender cannot answer for.
LEMMA StreamStep ==
  ASSUME IInv, Next
  PROVE  chan' \in [Sides -> Seq(Frames)] /\ Delivered'
<1> USE DEF IInv
<1>t. /\ stored \in [Nodes -> SUBSET Events]
      /\ chan \in [Sides -> Seq(Frames)]
  BY DEF TypeOK
<1>e. ASSUME NEW s \in Sides PROVE <<>> \in Seq(Vouched(stored[s[1]]))
  BY EmptySeq
<1>1. ASSUME NEW n \in Nodes, NEW e \in Events, Author(n, e)
      PROVE  chan' \in [Sides -> Seq(Frames)] /\ Delivered'
  <2>1. UNCHANGED chan /\ \A m \in Nodes : stored[m] \subseteq stored'[m]
    BY <1>1, <1>t DEF Author
  <2> QED
    BY <2>1, SameStreams
<1>2. ASSUME NEW l \in Links, Connect(l)
      PROVE  chan' \in [Sides -> Seq(Frames)] /\ Delivered'
  <2>1. l \in Sides /\ UNCHANGED stored
    BY <1>2 DEF Sides, Connect
  <2>2. CASE l[1] \in Wants
    <3>1. Send(l, Frame("subscribe", {}))
      BY <1>2, <2>2 DEF Connect
    <3> QED
      BY <2>1, <3>1, FrameVouched, SendKeeps
  <2>3. CASE l[1] \notin Wants
    BY <1>2, <2>1, <2>3, SameStreams DEF Connect
  <2> QED
    BY <2>2, <2>3
<1>3. ASSUME NEW l \in Links, Drop(l)
      PROVE  chan' \in [Sides -> Seq(Frames)] /\ Delivered'
  BY <1>3, EndStreams DEF Drop
<1>4. ASSUME NEW n \in Nodes, Restart(n)
      PROVE  chan' \in [Sides -> Seq(Frames)] /\ Delivered'
  BY <1>4, EndStreams DEF Restart
<1>5. ASSUME NEW s \in Sides, HearSubscribe(s)
      PROVE  chan' \in [Sides -> Seq(Frames)] /\ Delivered'
  <2> DEFINE ahead == IF s \notin sent /\ s[1] \in Wants THEN <<Frame("subscribe", {})>> ELSE <<>>
             streams == [chan EXCEPT ![Other(s)] = Tail(@)]
  <2>1. Hears(s, "subscribe") /\ UNCHANGED stored
    BY <1>5 DEF HearSubscribe
  <2>2. ahead \in Seq(Vouched(stored[s[1]]))
    <3>1. Frame("subscribe", {}) \in Vouched(stored[s[1]])
      BY FrameVouched
    <3>2. <<Frame("subscribe", {})>> \in Seq(Vouched(stored[s[1]]))
      BY <3>1
    <3> QED
      BY <3>2, <1>e
  <2>3. ASSUME NEW r \in Sides
        PROVE  streams[r] \in Seq(Vouched(stored[r[1]])) /\ streams[r] \in Seq(Frames)
    <3>1. chan[r] \in Seq(Vouched(stored[r[1]])) /\ Other(s) \in Sides
      BY SideFacts DEF Delivered
    <3>2. Tail(chan[Other(s)]) \in Seq(Vouched(stored[Other(s)[1]]))
      BY <2>1, HeardFacts, SideFacts
    <3>3. streams[r] \in Seq(Vouched(stored[r[1]]))
      <4>1. CASE r = Other(s)
        BY <3>1, <3>2, <4>1, <1>t
      <4>2. CASE r # Other(s)
        BY <3>1, <4>2, <1>t
      <4> QED
        BY <4>1, <4>2
    <3> QED
      BY <3>3, VouchedFrames
  <2>4. streams \in [Sides -> Seq(Frames)]
    BY <2>3, <1>t
  <2> HIDE DEF ahead, streams
  <2>5. CASE Pass(s, streams, ahead)
    BY <2>1, <2>2, <2>3, <2>4, <2>5, PassKeeps
  <2>6. CASE Answer(s, ahead)
    BY <2>1, <2>2, <2>6, AnswerKeeps
  <2>7. Pass(s, streams, ahead) \/ Answer(s, ahead)
    BY <1>5 DEF HearSubscribe, ahead, streams
  <2> QED
    BY <2>5, <2>6, <2>7
<1>6. ASSUME NEW s \in Sides, HearIHave(s)
      PROVE  chan' \in [Sides -> Seq(Frames)] /\ Delivered'
  <2>1. Hears(s, "ihave") /\ UNCHANGED stored /\ Answer(s, FrameOf("pull", Wanted(s)))
    BY <1>6 DEF HearIHave
  <2>2. Wanted(s) \subseteq Events
    BY <2>1, HeardFacts DEF Wanted
  <2> QED
    BY <2>1, <2>2, FrameVouched, AnswerKeeps
<1>7. ASSUME NEW s \in Sides, HearPull(s)
      PROVE  chan' \in [Sides -> Seq(Frames)] /\ Delivered'
  <2>1. Hears(s, "pull") /\ UNCHANGED stored /\ Answer(s, FrameOf("events", Served(s)))
    BY <1>7 DEF HearPull
  <2>2. Served(s) \subseteq Events /\ Served(s) \subseteq stored[s[1]]
    BY <2>1, HeardFacts DEF Served
  <2> QED
    BY <2>1, <2>2, FrameVouched, AnswerKeeps
<1>14. ASSUME NEW s \in Sides, PullTooLarge(s)
       PROVE  chan' \in [Sides -> Seq(Frames)] /\ Delivered'
  BY <1>14, EndStreams DEF PullTooLarge
<1>15. ASSUME NEW s \in Sides, NEW e \in Events, TakeDelivered(s, e)
       PROVE  chan' \in [Sides -> Seq(Frames)] /\ Delivered'
  BY <1>15, SameStreams DEF TakeDelivered
<1>8. ASSUME NEW s \in Sides, HearEvents(s)
      PROVE  chan' \in [Sides -> Seq(Frames)] /\ Delivered'
  <2>1. Hears(s, "events") /\ UNCHANGED stored /\ Answer(s, <<>>)
    BY <1>8 DEF HearEvents
  <2> QED
    BY <2>1, <1>e, AnswerKeeps
<1>9. ASSUME NEW s \in Sides, Ingested(s)
      PROVE  chan' \in [Sides -> Seq(Frames)] /\ Delivered'
  <2>1. UNCHANGED chan /\ \A m \in Nodes : stored[m] \subseteq stored'[m]
    BY <1>9, <1>t DEF Ingested
  <2> QED
    BY <2>1, SameStreams
<1>10. ASSUME NEW s \in Sides, IngestFails(s)
       PROVE  chan' \in [Sides -> Seq(Frames)] /\ Delivered'
  BY <1>10, SameStreams DEF IngestFails
<1>11. ASSUME NEW s \in Sides, HistoryPass(s)
       PROVE  chan' \in [Sides -> Seq(Frames)] /\ Delivered'
  <2>1. \A r \in Sides : chan[r] \in Seq(Vouched(stored[r[1]]))
    BY DEF Delivered
  <2> QED
    BY <1>11, <1>e, <1>t, <2>1, PassKeeps DEF HistoryPass
<1>12. ASSUME NEW s \in Sides, NEW e \in Events, TakeFired(s, e)
       PROVE  chan' \in [Sides -> Seq(Frames)] /\ Delivered'
  <2>1. UNCHANGED stored /\ (UNCHANGED chan \/ Send(s, Frame("ihave", {e})))
    BY <1>12 DEF TakeFired
  <2> QED
    BY <2>1, FrameVouched, SendKeeps, SameStreams
<1>13. ASSUME NEW s \in Sides, NEW e \in Events, MissFired(s, e)
       PROVE  chan' \in [Sides -> Seq(Frames)] /\ Delivered'
  BY <1>13, SameStreams DEF MissFired
<1> HIDE DEF IInv
<1> QED
  BY <1>1, <1>2, <1>3, <1>4, <1>5, <1>6, <1>7, <1>8, <1>9, <1>10, <1>11, <1>12, <1>13,
     <1>14, <1>15 DEF Next, Hear

-----------------------------------------------------------------------------
\* The other variables keep their types in every step.
LEMMA TypeStep ==
  ASSUME IInv, Next
  PROVE  TypeOK'
<1>s. chan' \in [Sides -> Seq(Frames)]
  BY StreamStep
<1>t. TypeOK
  BY DEF IInv
<1> DEFINE Rest ==
      /\ stored \in [Nodes -> SUBSET Events]
      /\ dedup \in [Nodes -> SUBSET Events]
      /\ up \subseteq Sides
      /\ interest \subseteq Sides
      /\ sent \subseteq Sides
      /\ seen \in [Sides -> SUBSET Events]
      /\ bus \in [Sides -> SUBSET Events]
      /\ cursor \in [Sides -> Events \cup {Nothing}]
      /\ batch \in [Sides -> SUBSET Events]
      /\ work \in [Sides -> Events \cup {Nothing}]
      /\ came \in [Sides -> SUBSET Events]
      /\ drops \in 0..MaxDrops
      /\ faults \in 0..MaxFaults
<1>r. Rest
  BY <1>t DEF TypeOK
<1>f. ASSUME NEW n \in Nodes, NEW e \in Events PROVE Fired(n, e) \in [Sides -> SUBSET Events]
  BY <1>r DEF Fired
<1>n. ASSUME NEW gone, End(gone)
      PROVE  /\ up' \subseteq Sides /\ interest' \subseteq Sides /\ sent' \subseteq Sides
             /\ seen' \in [Sides -> SUBSET Events]
             /\ bus' \in [Sides -> SUBSET Events]
             /\ cursor' \in [Sides -> Events \cup {Nothing}]
             /\ came' \in [Sides -> SUBSET Events]
  BY <1>n, <1>r DEF End
<1>1. ASSUME NEW n \in Nodes, NEW e \in Events, Author(n, e)
      PROVE  Rest'
  BY <1>1, <1>r, <1>f DEF Author
<1>2. ASSUME NEW l \in Links, Connect(l)
      PROVE  Rest'
  <2>1. l \in Sides /\ Other(l) \in Sides
    BY SideFacts DEF Sides
  <2> QED
    BY <1>2, <1>r, <2>1 DEF Connect
<1>3. ASSUME NEW l \in Links, Drop(l)
      PROVE  Rest'
  BY <1>3, <1>r, <1>n, LimitsAssumption DEF Drop, Dropped
<1>4. ASSUME NEW n \in Nodes, Restart(n)
      PROVE  Rest'
  <2>1. /\ dedup' \in [Nodes -> SUBSET Events] /\ work' \in [Sides -> Events \cup {Nothing}]
        /\ batch' \in [Sides -> SUBSET Events] /\ drops' \in 0..MaxDrops /\ UNCHANGED <<stored, faults>>
    BY <1>4, <1>r, LimitsAssumption DEF Restart, Dropped
  <2>2. End({s \in Sides : n \in {s[1], s[2]}})
    BY <1>4 DEF Restart
  <2> QED
    BY <1>r, <2>1, <2>2, <1>n
<1>5. ASSUME NEW s \in Sides, HearSubscribe(s)
      PROVE  Rest'
  <2> DEFINE ahead == IF s \notin sent /\ s[1] \in Wants THEN <<Frame("subscribe", {})>> ELSE <<>>
             streams == [chan EXCEPT ![Other(s)] = Tail(@)]
  <2>1. /\ interest' \subseteq Sides /\ sent' \subseteq Sides
        /\ UNCHANGED <<stored, dedup, up, bus, came, batch, work, drops, faults>>
    BY <1>5, <1>r DEF HearSubscribe
  <2>2. CASE UNCHANGED <<seen, cursor>>
    BY <1>r, <2>1, <2>2
  <2>3. CASE Pass(s, streams, ahead)
    BY <1>r, <2>1, <2>3, PassTypes DEF streams, ahead
  <2>4. Pass(s, streams, ahead) \/ UNCHANGED <<seen, cursor>>
    BY <1>5 DEF HearSubscribe
  <2> HIDE DEF Rest, ahead, streams
  <2> QED
    BY <2>2, <2>3, <2>4
<1>6. ASSUME NEW s \in Sides, HearIHave(s)
      PROVE  Rest'
  <2>1. Wanted(s) \subseteq Events
    BY <1>6, HeardFacts DEF HearIHave, Wanted
  <2> QED
    BY <1>6, <1>r, <2>1 DEF HearIHave, Note
<1>7. ASSUME NEW s \in Sides, HearPull(s)
      PROVE  Rest'
  <2>1. Served(s) \subseteq Events
    BY <1>7, HeardFacts DEF HearPull, Served
  <2> QED
    BY <1>7, <1>r, <2>1 DEF HearPull, Note
<1>8. ASSUME NEW s \in Sides, HearEvents(s)
      PROVE  Rest'
  <2>1. Heard(s) \subseteq Events
    BY <1>8, HeardFacts DEF HearEvents
  <2> QED
    BY <1>8, <1>r, <2>1 DEF HearEvents
<1>15. ASSUME NEW s \in Sides, PullTooLarge(s)
       PROVE  Rest'
  BY <1>15, <1>r, <1>n DEF PullTooLarge
<1>16. ASSUME NEW s \in Sides, NEW e \in Events, TakeDelivered(s, e)
       PROVE  Rest'
  <2>1. s[1] \in Nodes
    BY SideFacts
  <2> QED
    BY <1>16, <1>r, <2>1 DEF TakeDelivered, Note
<1>9. ASSUME NEW s \in Sides, Ingested(s)
      PROVE  Rest'
  <2>1. work[s] \in Events /\ s[1] \in Nodes
    BY <1>9, <1>r, SideFacts DEF Ingested
  <2> QED
    BY <1>9, <1>r, <1>f, <2>1 DEF Ingested
<1>10. ASSUME NEW s \in Sides, IngestFails(s)
       PROVE  Rest'
  <2>1. s[1] \in Nodes
    BY SideFacts
  <2> QED
    BY <1>10, <1>r, <2>1, LimitsAssumption DEF IngestFails, Faulty
<1>11. ASSUME NEW s \in Sides, HistoryPass(s)
       PROVE  Rest'
  BY <1>11, <1>r, PassTypes DEF HistoryPass
<1>12. ASSUME NEW s \in Sides, NEW e \in Events, TakeFired(s, e)
       PROVE  Rest'
  BY <1>12, <1>r DEF TakeFired, Note
<1>13. ASSUME NEW s \in Sides, NEW e \in Events, MissFired(s, e)
       PROVE  Rest'
  BY <1>13, <1>r, LimitsAssumption DEF MissFired, Faulty
<1>14. Rest'
  <2> HIDE DEF Rest
  <2> QED
    BY <1>1, <1>2, <1>3, <1>4, <1>5, <1>6, <1>7, <1>8, <1>9, <1>10, <1>11, <1>12, <1>13,
       <1>15, <1>16 DEF Next, Hear
<1> QED
  BY <1>s, <1>14 DEF TypeOK

-----------------------------------------------------------------------------
\* What one session is storing is at the same time kept from the others: no
\* step makes two sessions of a burrow store one event, and none lets an
\* event through that the peer does not hold or whose origin is not trusted.
LEMMA WorkingStep ==
  ASSUME IInv, Next
  PROVE  Working'
<1>t. /\ stored \in [Nodes -> SUBSET Events] /\ dedup \in [Nodes -> SUBSET Events]
      /\ work \in [Sides -> Events \cup {Nothing}]
  BY DEF IInv, TypeOK
<1>w. Working
  BY DEF IInv
<1>s. \A s \in Sides : s[1] \in Nodes /\ s[2] \in Nodes
  BY SideFacts
<1>z. Nothing \notin Events
  BY NetworkAssumption DEF Nothing
<1>k. ASSUME UNCHANGED <<stored, dedup, work>> PROVE Working'
  BY <1>k, <1>w DEF Working
<1>1. ASSUME NEW n \in Nodes, NEW e \in Events, Author(n, e)
      PROVE  Working'
  <2>1. ASSUME NEW s \in Sides, work[s] # Nothing PROVE work[s] # e
    BY <1>1, <1>w, <1>s, <2>1 DEF Author, Working
  <2> QED
    BY <1>1, <1>t, <1>w, <1>s, <2>1 DEF Author, Working
<1>2. ASSUME NEW l \in Links, Connect(l)
      PROVE  Working'
  BY <1>2, <1>k DEF Connect
<1>3. ASSUME NEW l \in Links, Drop(l)
      PROVE  Working'
  BY <1>3, <1>k DEF Drop
<1>4. ASSUME NEW n \in Nodes, Restart(n)
      PROVE  Working'
  BY <1>4, <1>t, <1>w, <1>s DEF Restart, Working
<1>5. ASSUME NEW s \in Sides, HearSubscribe(s)
      PROVE  Working'
  BY <1>5, <1>k DEF HearSubscribe
<1>6. ASSUME NEW s \in Sides, HearIHave(s)
      PROVE  Working'
  BY <1>6, <1>k DEF HearIHave
<1>7. ASSUME NEW s \in Sides, HearPull(s)
      PROVE  Working'
  BY <1>7, <1>k DEF HearPull
<1>8. ASSUME NEW s \in Sides, HearEvents(s)
      PROVE  Working'
  BY <1>8, <1>k DEF HearEvents
<1>14. ASSUME NEW s \in Sides, PullTooLarge(s)
       PROVE  Working'
  BY <1>14, <1>k DEF PullTooLarge
<1>15. ASSUME NEW s \in Sides, NEW e \in Events, TakeDelivered(s, e)
       PROVE  Working'
  <2>1. e \in stored[s[2]]
    BY <1>15 DEF TakeDelivered, IInv, InHand
  <2>2. CASE Fresh(s[1], e)
    <3>1. /\ dedup' = [dedup EXCEPT ![s[1]] = @ \cup {e}]
          /\ work' = [work EXCEPT ![s] = e]
          /\ UNCHANGED stored /\ work[s] = Nothing
      BY <1>15, <2>2 DEF TakeDelivered
    <3>2. Trusted(s[1], e) /\ e \notin stored[s[1]] /\ e \notin dedup[s[1]]
      BY <2>2 DEF Fresh
    <3>3. \A r \in Sides : r[1] = s[1] => work[r] # e
      BY <1>w, <1>z, <3>2 DEF Working
    <3> QED
      BY <1>t, <1>w, <1>s, <2>1, <3>1, <3>2, <3>3 DEF Working
  <2>3. CASE ~ Fresh(s[1], e)
    <3>1. UNCHANGED <<stored, dedup, work>>
      BY <1>15, <2>3 DEF TakeDelivered
    <3> QED
      BY <3>1, <1>k
  <2> QED
    BY <2>2, <2>3
<1>9. ASSUME NEW s \in Sides, Ingested(s)
      PROVE  Working'
  <2>1. /\ work[s] # Nothing /\ work' = [work EXCEPT ![s] = Nothing] /\ UNCHANGED dedup
        /\ stored' = [stored EXCEPT ![s[1]] = @ \cup {work[s]}]
    BY <1>9 DEF Ingested
  <2>2. \A r \in Sides : r # s /\ r[1] = s[1] => work[r] # work[s]
    BY <1>w, <2>1 DEF Working
  <2> QED
    BY <1>t, <1>w, <1>s, <2>1, <2>2 DEF Working
<1>10. ASSUME NEW s \in Sides, IngestFails(s)
       PROVE  Working'
  <2>1. /\ work[s] # Nothing /\ work' = [work EXCEPT ![s] = Nothing] /\ UNCHANGED stored
        /\ dedup' = [dedup EXCEPT ![s[1]] = @ \ {work[s]}]
    BY <1>10 DEF IngestFails
  <2>2. \A r \in Sides : r # s /\ r[1] = s[1] => work[r] # work[s]
    BY <1>w, <2>1 DEF Working
  <2> QED
    BY <1>t, <1>w, <1>s, <2>1, <2>2 DEF Working
<1>11. ASSUME NEW s \in Sides, HistoryPass(s)
       PROVE  Working'
  BY <1>11, <1>k DEF HistoryPass
<1>12. ASSUME NEW s \in Sides, NEW e \in Events, TakeFired(s, e)
       PROVE  Working'
  BY <1>12, <1>k DEF TakeFired
<1>13. ASSUME NEW s \in Sides, NEW e \in Events, MissFired(s, e)
       PROVE  Working'
  BY <1>13, <1>k DEF MissFired
<1> QED
  BY <1>1, <1>2, <1>3, <1>4, <1>5, <1>6, <1>7, <1>8, <1>9, <1>10, <1>11, <1>12, <1>13,
     <1>14, <1>15 DEF Next, Hear

\* A session's delivery in hand is what its peer had stored, and still has.
LEMMA InHandStep ==
  ASSUME IInv, Next
  PROVE  InHand'
<1>t. /\ stored \in [Nodes -> SUBSET Events] /\ batch \in [Sides -> SUBSET Events]
  BY DEF IInv, TypeOK
<1>s. \A s \in Sides : s[1] \in Nodes /\ s[2] \in Nodes
  BY SideFacts
<1>k. ASSUME \A s \in Sides : batch'[s] \subseteq batch[s], \A n \in Nodes : stored[n] \subseteq stored'[n]
      PROVE  InHand'
  BY <1>k, <1>s DEF IInv, InHand
<1>1. ASSUME NEW n \in Nodes, NEW e \in Events, Author(n, e)
      PROVE  InHand'
  BY <1>1, <1>t, <1>k DEF Author
<1>2. ASSUME NEW s \in Sides, Ingested(s)
      PROVE  InHand'
  BY <1>2, <1>t, <1>s, <1>k DEF Ingested
<1>3. ASSUME NEW s \in Sides, HearEvents(s)
      PROVE  InHand'
  <2>1. Heard(s) \subseteq stored[s[2]]
    BY <1>3, HeardFacts DEF HearEvents
  <2>2. batch' = [batch EXCEPT ![s] = Heard(s)] /\ UNCHANGED stored
    BY <1>3 DEF HearEvents
  <2> QED
    BY <2>1, <2>2, <1>t DEF IInv, InHand
<1>4. ASSUME NEW n \in Nodes, Restart(n)
      PROVE  InHand'
  BY <1>4, <1>t, <1>k DEF Restart
<1>5. ASSUME NEW s \in Sides, NEW e \in Events, TakeDelivered(s, e)
      PROVE  InHand'
  BY <1>5, <1>t, <1>k DEF TakeDelivered
<1>6. CASE UNCHANGED <<stored, batch>>
  BY <1>6, <1>k
<1>7. \/ UNCHANGED <<stored, batch>>
      \/ \E n \in Nodes, e \in Events : Author(n, e)
      \/ \E n \in Nodes : Restart(n)
      \/ \E s \in Sides : Ingested(s) \/ HearEvents(s)
      \/ \E s \in Sides, e \in Events : TakeDelivered(s, e)
  BY DEF Next, Hear, Connect, Drop, HearSubscribe, HearIHave, HearPull, PullTooLarge, IngestFails,
         HistoryPass, TakeFired, MissFired
<1> QED
  BY <1>1, <1>2, <1>3, <1>4, <1>5, <1>6, <1>7

\* The invariant holds initially.
LEMMA InitIInv == Init => IInv
<1> SUFFICES ASSUME Init PROVE IInv
  OBVIOUS
<1>1. TypeOK
  BY EmptySeq, LimitsAssumption DEF Init, TypeOK
<1>2. Delivered
  BY EmptySeq DEF Init, Delivered
<1>3. InHand /\ Working
  BY DEF Init, InHand, Working
<1> QED
  BY <1>1, <1>2, <1>3 DEF IInv

\* Every behaviour of FloodFill satisfies the inductive invariant.
THEOREM Inductive == Spec => []IInv
<1>1. ASSUME IInv, [Next]_vars PROVE IInv'
  <2>1. CASE Next
    BY <1>1, <2>1, TypeStep, StreamStep, InHandStep, WorkingStep DEF IInv
  <2>2. CASE UNCHANGED vars
    BY <1>1, <2>2 DEF vars, edge, IInv, TypeOK, Delivered, InHand, Working
  <2> QED
    BY <1>1, <2>1, <2>2
<1> QED
  BY <1>1, InitIInv, PTL DEF Spec

\* The variables of the sessions keep their types in every network of burrows.
THEOREM TypeCorrect == Spec => []TypeOK
BY Inductive, PTL DEF IInv

\* However many sessions deliver an event at once, a burrow stores it in one.
THEOREM StoredByOne == Spec => []OneStorer
<1>1. IInv => OneStorer
  BY DEF IInv, Working, OneStorer
<1> QED
  BY <1>1, Inductive, PTL

\* The exchange implements Replication: an event gets to a burrow only from
\* its author or from a linked burrow that has it, and only when the burrow
\* trusts the author's origin.
THEOREM Implements == Spec => OnlyCopies
<1>1. Init => Holdings!Init
  BY DEF Init, Holdings!Init
<1>2. ASSUME IInv, [Next]_vars PROVE [Holdings!Next]_stored
  <2>1. CASE UNCHANGED vars
    BY <2>1 DEF vars
  <2>2. ASSUME NEW n \in Nodes, NEW e \in Events, Author(n, e)
        PROVE  Holdings!Next
    BY <2>2 DEF Author, Holdings!Next, Holdings!Author
  <2>3. ASSUME NEW s \in Sides, Ingested(s)
        PROVE  Holdings!Next
    <3>1. work[s] \in Events /\ work[s] \in stored[s[2]] /\ Trusted(s[1], work[s])
      BY <1>2, <2>3 DEF IInv, TypeOK, Working, Ingested
    <3>2. Holdings!Copy(s, work[s])
      BY <2>3, <3>1 DEF Ingested, Trusted, Holdings!Copy, Holdings!Trusted
    <3> QED
      BY <3>1, <3>2 DEF Holdings!Next
  <2>4. CASE UNCHANGED stored
    BY <2>4
  <2>5. Next => UNCHANGED stored \/ (\E n \in Nodes, e \in Events : Author(n, e))
                                 \/ (\E s \in Sides : Ingested(s))
    BY DEF Next, Hear, Connect, Drop, Restart, HearSubscribe, HearIHave, HearPull, PullTooLarge, HearEvents,
           TakeDelivered, IngestFails, HistoryPass, TakeFired, MissFired
  <2> QED
    BY <1>2, <2>1, <2>2, <2>3, <2>4, <2>5
<1> QED
  BY <1>1, <1>2, Inductive, PTL DEF Spec, OnlyCopies, Holdings!Spec

-----------------------------------------------------------------------------
(* No echo.                                                                  *)

\* What is fired on a burrow's bus has an origin the burrow trusts, and what a
\* peer delivered of such an origin is noted in the session, once it has been
\* looked at.  An untrusted delivery is not noted, and does not have to be: it
\* is never stored, so never fired.
Touched ==
  \A s \in Sides :
    /\ \A e \in bus[s] : Trusted(s[1], e)
    /\ \A e \in came[s] : s \in up /\ (Trusted(s[1], e) => e \in seen[s] \/ e \in batch[s])

\* It is kept by every step: ids leave a session's filter only with the
\* session, and only trusted events are stored.
LEMMA TouchedStep ==
  ASSUME IInv, Touched, [Next]_vars
  PROVE  Touched'
<1>t. /\ seen \in [Sides -> SUBSET Events] /\ bus \in [Sides -> SUBSET Events]
      /\ came \in [Sides -> SUBSET Events] /\ work \in [Sides -> Events \cup {Nothing}]
      /\ batch \in [Sides -> SUBSET Events] /\ up \subseteq Sides
  BY DEF IInv, TypeOK
<1>k. ASSUME \A s \in Sides : bus'[s] \subseteq bus[s] /\ came'[s] \subseteq came[s] /\ seen[s] \subseteq seen'[s],
             up \subseteq up', UNCHANGED batch
      PROVE  Touched'
  BY <1>k DEF Touched, Trusted
<1>f. ASSUME NEW n \in Nodes, NEW e \in Events, Trusted(n, e), bus' = Fired(n, e),
             UNCHANGED <<up, seen, came, batch>>
      PROVE  Touched'
  <2>1. ASSUME NEW s \in Sides, NEW d \in bus'[s] PROVE Trusted(s[1], d)
    BY <1>f, <2>1, <1>t DEF Fired, Touched
  <2> QED
    BY <1>f, <2>1 DEF Touched, Trusted
<1>n. ASSUME NEW gone, End(gone), \A s \in Sides \ gone : batch'[s] = batch[s] PROVE Touched'
  BY <1>n, <1>t DEF End, Touched, Trusted
<1>p. ASSUME NEW s \in Sides, NEW streams, NEW ahead, Pass(s, streams, ahead)
      PROVE  \A r \in Sides : seen[r] \subseteq seen'[r]
  <2>1. seen' = [seen EXCEPT ![s] = @ \cup Offered(s)]
    BY <1>p DEF Pass, Note
  <2> QED
    BY <2>1, <1>t
<1>o. ASSUME NEW s \in Sides, NEW ids, Note(s, ids)
      PROVE  \A r \in Sides : seen[r] \subseteq seen'[r]
  BY <1>o, <1>t DEF Note
<1>0. CASE UNCHANGED vars
  BY <1>0, <1>k DEF vars, edge
<1>1. ASSUME NEW n \in Nodes, NEW e \in Events, Author(n, e)
      PROVE  Touched'
  BY <1>1, <1>f DEF Author, Trusted
<1>2. ASSUME NEW l \in Links, Connect(l)
      PROVE  Touched'
  BY <1>2, <1>k DEF Connect
<1>3. ASSUME NEW l \in Links, Drop(l)
      PROVE  Touched'
  BY <1>3, <1>n DEF Drop
<1>4. ASSUME NEW n \in Nodes, Restart(n)
      PROVE  Touched'
  <2>1. \A s \in Sides \ {r \in Sides : n \in {r[1], r[2]}} : batch'[s] = batch[s]
    BY <1>4 DEF Restart
  <2> QED
    BY <1>4, <2>1, <1>n DEF Restart
<1>12. ASSUME NEW s \in Sides, PullTooLarge(s)
       PROVE  Touched'
  BY <1>12, <1>n DEF PullTooLarge
<1>5. ASSUME NEW s \in Sides, HearSubscribe(s)
      PROVE  Touched'
  <2>1. UNCHANGED <<up, bus, came, batch>>
    BY <1>5 DEF HearSubscribe
  <2>2. \A r \in Sides : seen[r] \subseteq seen'[r]
    BY <1>5, <1>p DEF HearSubscribe
  <2> QED
    BY <2>1, <2>2, <1>k
<1>6. ASSUME NEW s \in Sides, HearIHave(s) \/ HearPull(s)
      PROVE  Touched'
  <2>1. UNCHANGED <<up, bus, came, batch>>
    BY <1>6 DEF HearIHave, HearPull
  <2>2. \A r \in Sides : seen[r] \subseteq seen'[r]
    BY <1>6, <1>o DEF HearIHave, HearPull
  <2> QED
    BY <2>1, <2>2, <1>k
<1>7. ASSUME NEW s \in Sides, HearEvents(s)
      PROVE  Touched'
  <2>1. /\ UNCHANGED <<up, bus, seen>> /\ s \in up /\ batch[s] = {}
        /\ came' = [came EXCEPT ![s] = @ \cup Heard(s)]
        /\ batch' = [batch EXCEPT ![s] = Heard(s)]
    BY <1>7 DEF HearEvents, Hears, Running, Idle
  <2>2. ASSUME NEW r \in Sides, NEW d \in came'[r]
        PROVE  r \in up' /\ (Trusted(r[1], d) => d \in seen'[r] \/ d \in batch'[r])
    <3>1. CASE d \in came[r]
      BY <2>1, <3>1, <1>t DEF Touched
    <3>2. CASE d \notin came[r]
      BY <2>1, <2>2, <3>2, <1>t
    <3> QED
      BY <3>1, <3>2
  <2> QED
    BY <2>1, <2>2 DEF Touched, Trusted
<1>13. ASSUME NEW s \in Sides, NEW e \in Events, TakeDelivered(s, e)
       PROVE  Touched'
  <2>1. /\ UNCHANGED <<up, bus, came>>
        /\ batch' = [batch EXCEPT ![s] = @ \ {e}]
        /\ Note(s, IF Trusted(s[1], e) /\ s \in up THEN {e} ELSE {})
    BY <1>13 DEF TakeDelivered
  <2>2. ASSUME NEW r \in Sides, NEW d \in came[r]
        PROVE  r \in up /\ (Trusted(r[1], d) => d \in seen'[r] \/ d \in batch'[r])
    <3>1. r \in up /\ (Trusted(r[1], d) => d \in seen[r] \/ d \in batch[r])
      BY DEF Touched
    <3>2. seen[r] \subseteq seen'[r]
      BY <2>1, <1>o
    <3>3. CASE r = s /\ d = e
      BY <2>1, <3>1, <3>3, <1>t DEF Note
    <3>4. CASE ~ (r = s /\ d = e)
      BY <2>1, <3>1, <3>2, <3>4, <1>t
    <3> QED
      BY <3>3, <3>4
  <2> QED
    BY <2>1, <2>2 DEF Touched, Trusted
<1>8. ASSUME NEW s \in Sides, Ingested(s)
      PROVE  Touched'
  <2>1. work[s] \in Events /\ Trusted(s[1], work[s]) /\ s[1] \in Nodes
    BY <1>8, <1>t, SideFacts DEF Ingested, IInv, Working
  <2> QED
    BY <1>8, <2>1, <1>f DEF Ingested
<1>9. ASSUME NEW s \in Sides, IngestFails(s)
      PROVE  Touched'
  BY <1>9, <1>k DEF IngestFails
<1>10. ASSUME NEW s \in Sides, HistoryPass(s)
       PROVE  Touched'
  <2>1. UNCHANGED <<up, bus, came, batch>>
    BY <1>10 DEF HistoryPass
  <2>2. \A r \in Sides : seen[r] \subseteq seen'[r]
    BY <1>10, <1>p DEF HistoryPass
  <2> QED
    BY <2>1, <2>2, <1>k
<1>11. ASSUME NEW s \in Sides, NEW e \in Events, TakeFired(s, e) \/ MissFired(s, e)
       PROVE  Touched'
  <2>1. bus' = [bus EXCEPT ![s] = @ \ {e}] /\ UNCHANGED <<up, came, batch>>
    BY <1>11 DEF TakeFired, MissFired
  <2>2. \A r \in Sides : seen[r] \subseteq seen'[r]
    BY <1>11, <1>o DEF TakeFired, MissFired
  <2> QED
    BY <2>1, <2>2, <1>t, <1>k
<1> QED
  BY <1>0, <1>1, <1>2, <1>3, <1>4, <1>5, <1>6, <1>7, <1>8, <1>9, <1>10, <1>11, <1>12, <1>13 DEF Next, Hear

\* In every network, a live offer never goes back to the peer that delivered
\* the event on the same session: an event leaves a session's bus receiver
\* with an offer only if the session has not touched its id, and what was
\* delivered and fired has been touched.
THEOREM NothingEchoes == Spec => NoEcho
<1>1. Init => Touched
  BY DEF Init, Touched
<1>2. ASSUME IInv, Touched, [Next]_vars,
             NEW s \in up, NEW e \in bus[s] \ bus'[s], Len(chan'[s]) > Len(chan[s])
      PROVE  e \notin came[s]
  <2>t. /\ s \in Sides /\ bus \in [Sides -> SUBSET Events] /\ chan \in [Sides -> Seq(Frames)]
        /\ up \subseteq Sides
    BY <1>2 DEF IInv, TypeOK
  <2>l. Len(chan[s]) \in Nat
    BY <2>t, LenProperties
  <2>n. ASSUME chan'[s] = chan[s] \/ chan'[s] = <<>> \/ bus'[s] = bus[s] \/ bus[s] \subseteq bus'[s] PROVE FALSE
    <3>1. chan'[s] # chan[s]
      BY <1>2, <2>l
    <3>2. chan'[s] # <<>>
      BY <1>2, <2>l, EmptySeq
    <3> QED
      BY <1>2, <2>n, <3>1, <3>2
  <2>e. ASSUME NEW gone, End(gone) PROVE FALSE
    <3>1. CASE s \in gone
      BY <2>e, <3>1, <2>t, <2>n DEF End
    <3>2. CASE s \notin gone
      BY <2>e, <3>2, <2>t, <2>n DEF End
    <3> QED
      BY <3>1, <3>2
  <2>f. ASSUME NEW n, NEW d, bus' = Fired(n, d) PROVE FALSE
    <3>1. bus[s] \subseteq bus'[s]
      BY <2>f, <2>t DEF Fired
    <3> QED
      BY <3>1, <2>n
  <2>0. ~UNCHANGED bus
    BY <2>n
  <2>1. PICK r \in Sides, d \in Events : TakeFired(r, d) \/ MissFired(r, d)
    <3>1. Next
      BY <1>2, <2>0 DEF vars, edge
    <3>2. ASSUME NEW n \in Nodes, NEW d \in Events, Author(n, d) PROVE FALSE
      BY <3>2, <2>f DEF Author
    <3>3. ASSUME NEW l \in Links, Connect(l) \/ Drop(l) PROVE FALSE
      BY <3>3, <2>0, <2>e DEF Connect, Drop
    <3>4. ASSUME NEW n \in Nodes, Restart(n) PROVE FALSE
      BY <3>4, <2>e DEF Restart
    <3>5. ASSUME NEW r \in Sides, Hear(r) \/ IngestFails(r) \/ HistoryPass(r) PROVE FALSE
      BY <3>5, <2>0, <2>e DEF Hear, HearSubscribe, HearIHave, HearPull, PullTooLarge, HearEvents, IngestFails,
                              HistoryPass
    <3>7. ASSUME NEW r \in Sides, NEW d \in Events, TakeDelivered(r, d) PROVE FALSE
      BY <3>7, <2>0 DEF TakeDelivered
    <3>6. ASSUME NEW r \in Sides, Ingested(r) PROVE FALSE
      BY <3>6, <2>f DEF Ingested
    <3> QED
      BY <3>1, <3>2, <3>3, <3>4, <3>5, <3>6, <3>7 DEF Next
  <2>2. bus' = [bus EXCEPT ![r] = @ \ {d}]
    BY <2>1 DEF TakeFired, MissFired
  <2>3. r = s /\ d = e
    BY <2>2, <2>t, <1>2
  <2>4. TakeFired(s, e)
    BY <2>1, <2>3, <2>n DEF MissFired
  <2>5. e \notin seen[s] /\ batch[s] = {}
    BY <2>4, <2>n DEF TakeFired, Running, Idle
  <2>6. Trusted(s[1], e)
    BY <1>2, <2>t DEF Touched
  <2> QED
    BY <1>2, <2>t, <2>5, <2>6 DEF Touched
<1>3. ASSUME IInv, Touched, [Next]_vars
      PROVE  [\A s \in up : \A e \in bus[s] \ bus'[s] :
                 Len(chan'[s]) > Len(chan[s]) => e \notin came[s]]_vars
  BY <1>2, <1>3
<1> QED
  BY <1>1, <1>3, Inductive, TouchedStep, PTL DEF Spec, NoEcho
=============================================================================
