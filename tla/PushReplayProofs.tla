-------------------------- MODULE PushReplayProofs --------------------------
(* Proofs about PushReplay: its types, the order of pushes, its mail and its *)
(* broadcasts. *)
EXTENDS PushReplay, TLAPS

\* Every variable keeps its type, whatever sessions, clients, the recorder
\* and publishers do.
THEOREM TypeCorrect == Spec => []TypeOK
<1> USE EventsAssumption, SessionsAssumption, DmsAssumption, CapacityAssumption
<1>1. Init => TypeOK
  BY DEF Init, TypeOK, Idle
<1>2. TypeOK /\ [Next]_vars => TypeOK'
  <2> SUFFICES ASSUME TypeOK, [Next]_vars PROVE TypeOK'
    OBVIOUS
  <2> USE DEF TypeOK, busVars, storeVars, sessionVars, clientVars, excuses
  <2>1. ASSUME NEW d \in Dms, InsertDm(d) PROVE TypeOK'
    BY <2>1 DEF InsertDm
  <2>2. ASSUME NEW e \in Events, Publish(e) PROVE TypeOK'
    <3>1. \A q \in Seq(Events) : Offer(q, e) \in Seq(Events)
      BY DEF Offer
    <3> QED
      BY <2>2, <3>1 DEF Publish, Events
  <2>3. CASE RecorderLooks
    BY <2>3 DEF RecorderLooks, Idle, Events
  <2>4. CASE RecorderStamps
    <3>1. /\ log' \in Seq(Events \cup {Welcome})
          /\ excused' \in [Clients -> SUBSET Nat] /\ raced' \in [Clients -> SUBSET Nat]
      <4>1. CASE stamp(look.ev)
        BY <4>1 DEF stamp
      <4>2. CASE UNCHANGED <<log, excuses>>
        BY <4>2
      <4> QED
        BY <2>4, <4>1, <4>2 DEF RecorderStamps
    <3>2. look' \in [ev : Events \cup {Welcome}, online : BOOLEAN]
      BY <2>4 DEF RecorderStamps, Idle
    <3> QED
      BY <2>4, <3>1, <3>2 DEF RecorderStamps
  <2>5. ASSUME NEW s \in Sessions, SessionStep(s) PROVE TypeOK'
    <3>1. ASSUME NEW x \in Events \cup {Welcome}, Push(s, x)
          PROVE /\ log' \in Seq(Events \cup {Welcome})
                /\ excused' \in [Clients -> SUBSET Nat] /\ raced' \in [Clients -> SUBSET Nat]
                /\ wire' \in [Sessions -> Seq(Nat \ {0})]
                /\ heard' \in [Sessions -> SUBSET Casts]
                /\ told' \in [Sessions -> SUBSET Events]
      BY <3>1, SMTT(30) DEF Push, stamp, SendTo, Told
    <3>2. CASE Subscribe(s)
      BY <3>2 DEF Subscribe
    <3>3. CASE SinceCursor(s)
      <4>1. RingFloor \in Nat /\ \A n \in Nat : Since(n) \in Nat \ {0}
        BY DEF RingFloor, Since
      <4>2. /\ from' \in [Sessions -> Nat \ {0}] /\ upto' \in [Sessions -> Nat]
            /\ excused' \in [Clients -> SUBSET Nat]
        <5>1. ASSUME NEW c \in Clients,
                     from' = [from EXCEPT ![s] = Since(cursor[c])],
                     upto' = [upto EXCEPT ![s] = Len(log)],
                     excused' = [excused EXCEPT ![c] = @ \cup 0..RingFloor]
              PROVE /\ from' \in [Sessions -> Nat \ {0}] /\ upto' \in [Sessions -> Nat]
                    /\ excused' \in [Clients -> SUBSET Nat]
          <6>1. 0..RingFloor \subseteq Nat
            BY <4>1
          <6>2. Since(cursor[c]) \in Nat \ {0} /\ Len(log) \in Nat
            BY <4>1
          <6> HIDE DEF TypeOK
          <6>3. /\ from \in [Sessions -> Nat \ {0}] /\ upto \in [Sessions -> Nat]
                /\ excused \in [Clients -> SUBSET Nat]
            BY DEF TypeOK
          <6> QED
            BY <5>1, <6>1, <6>2, <6>3
        <5>2. ASSUME NEW c \in Clients, UNCHANGED <<from, upto>>,
                     excused' = [excused EXCEPT ![c] = @ \cup 0..Len(log)]
              PROVE /\ from' \in [Sessions -> Nat \ {0}] /\ upto' \in [Sessions -> Nat]
                    /\ excused' \in [Clients -> SUBSET Nat]
          BY <5>2
        <5>3. CASE UNCHANGED <<from, upto, excused>>
          BY <5>3
        <5> HIDE DEF TypeOK
        <5> QED
          BY <3>3, <5>1, <5>2, <5>3 DEF SinceCursor
      <4>3. phase' \in [Sessions -> {"off", "joined", "subscribed", "closing"}
                                    \cup Following]
        BY <3>3 DEF SinceCursor, Following
      <4> QED
        BY <3>3, <4>2, <4>3 DEF SinceCursor
    <3>4. CASE ReplayOne(s)
      <4>1. wire' \in [Sessions -> Seq(Nat \ {0})]
        BY <3>4 DEF ReplayOne, SendTo
      <4>2. /\ heard' \in [Sessions -> SUBSET Casts]
            /\ told' \in [Sessions -> SUBSET Events]
        BY <3>4 DEF ReplayOne, Told
      <4>3. from' \in [Sessions -> Nat \ {0}]
        BY <3>4 DEF ReplayOne
      <4> QED
        BY <3>4, <4>1, <4>2, <4>3 DEF ReplayOne
    <3>5. CASE SendWelcome(s)
      BY <3>1, <3>5 DEF SendWelcome, Following
    <3>6. CASE ReadMail(s)
      <4>1. mail' \in [Sessions -> SUBSET Dms] /\ partial' \in [Sessions -> BOOLEAN]
        BY <3>6 DEF ReadMail
      <4> QED
        BY <3>6, <4>1 DEF ReadMail, Following
    <3>7. CASE MailOne(s)
      BY <3>1, <3>7, SMTT(30) DEF MailOne, Events
    <3>8. CASE TakeEvent(s)
      BY <3>1, <3>8, SMTT(30) DEF TakeEvent
    <3>9. CASE Break(s)
      BY <3>9 DEF Break
    <3>10. CASE Leave(s)
      BY <3>10 DEF Leave
    <3> QED
      BY <2>5, <3>2, <3>3, <3>4, <3>5, <3>6, <3>7, <3>8, <3>9, <3>10
      DEF SessionStep
  <2>6. ASSUME NEW c \in Clients, NEW s \in Sessions, NEW how \in {"password", "resume"},
               Connect(c, s, how)
        PROVE TypeOK'
    <3> HIDE DEF TypeOK
    <3>0. /\ cursor \in [Clients -> Nat] /\ got \in [Clients -> SUBSET Nat]
          /\ login \in [Clients -> {"password", "resume"}]
          /\ at \in [Clients -> Sessions \cup {NoSession}]
      BY DEF TypeOK
    <3>1. cursor' \in [Clients -> Nat] /\ got' \in [Clients -> SUBSET Nat]
      <4>1. CASE how = "resume"
        BY <2>6, <3>0, <4>1 DEF Connect
      <4>2. CASE how # "resume"
        <5>1. /\ cursor' = [cursor EXCEPT ![c] = 0]
              /\ got' = [got EXCEPT ![c] = {}]
          BY <2>6, <4>2 DEF Connect
        <5> QED
          BY <3>0, <5>1
      <4> QED
        BY <4>1, <4>2
    <3>2. login' \in [Clients -> {"password", "resume"}]
      BY <2>6, <3>0 DEF Connect
    <3>3. at' \in [Clients -> Sessions \cup {NoSession}]
      BY <2>6, <3>0 DEF Connect
    <3> QED
      BY <2>6, <3>1, <3>2, <3>3 DEF Connect, TypeOK
  <2>7. ASSUME NEW c \in Clients, ReadPush(c) PROVE TypeOK'
    BY <2>7 DEF ReadPush
  <2>8. ASSUME NEW c \in Clients, Drop(c) PROVE TypeOK'
    BY <2>8 DEF Drop
  <2>9. ASSUME NEW c \in Clients, NEW d \in Dms, MarkRead(c, d) PROVE TypeOK'
    BY <2>9 DEF MarkRead
  <2>10. CASE UNCHANGED vars
    BY <2>10 DEF vars
  <2> HIDE DEF TypeOK, busVars, storeVars, sessionVars, clientVars
  <2> QED
    BY <2>1, <2>2, <2>3, <2>4, <2>5, <2>6, <2>7, <2>8, <2>9, <2>10 DEF Next
<1> QED
  BY <1>1, <1>2, PTL DEF Spec

-----------------------------------------------------------------------------
(* The order of pushes. *)

\* The part of OrderInv that is about one session.
SessionOrder(s) ==
  /\ upto[s] <= Len(log)
  /\ phase[s] \notin {"replaying", "closing"} => from[s] > upto[s]
  /\ phase[s] \in {"joined", "subscribed"} => wire[s] = <<>>
  /\ \A i \in 1..Len(wire[s]) :
       /\ wire[s][i] <= Len(log)
       /\ phase[s] = "replaying" /\ from[s] <= upto[s] => wire[s][i] < from[s]

\* A frame numbered above all that is on the wire keeps the wire in order.
LEMMA AppendInOrder ==
  ASSUME NEW w \in Seq(Nat \ {0}), NEW n \in Nat \ {0}, NEW k \in Nat,
         \A i \in 1..Len(w) : w[i] > k /\ w[i] < n,
         \A i, j \in 1..Len(w) : i < j => w[i] < w[j],
         n > k
  PROVE  LET v == Append(w, n) IN
         /\ \A i \in 1..Len(v) : v[i] > k /\ v[i] <= n
         /\ \A i, j \in 1..Len(v) : i < j => v[i] < v[j]
  BY SMTT(30)

\* Reading the head of a wire in order leaves a wire in order above it.
LEMMA TailInOrder ==
  ASSUME NEW w \in Seq(Nat \ {0}), w # <<>>,
         \A i, j \in 1..Len(w) : i < j => w[i] < w[j]
  PROVE  /\ Head(w) \in Nat \ {0}
         /\ Tail(w) \in Seq(Nat \ {0})
         /\ \A i \in 1..Len(Tail(w)) :
              /\ i + 1 \in 1..Len(w) /\ Tail(w)[i] = w[i + 1]
              /\ Tail(w)[i] > Head(w)
         /\ \A i, j \in 1..Len(Tail(w)) : i < j => Tail(w)[i] < Tail(w)[j]
<1>1. \A i \in 1..Len(Tail(w)) : i + 1 \in 1..Len(w) /\ Tail(w)[i] = w[i + 1]
  OBVIOUS
<1>2. Head(w) = w[1] /\ 1 \in 1..Len(w)
  OBVIOUS
<1> QED
  BY <1>1, <1>2

\* Publishers and the recorder number only what comes after every wire.
LEMMA OrderOutside ==
  ASSUME TypeOK, OrderInv,
         UNCHANGED <<phase, from, upto, wire, clientVars>>,
         \/ UNCHANGED log
         \/ \E x : log' = Append(log, x)
  PROVE  OrderInv'
<1>1. Len(log') \in Nat /\ Len(log) <= Len(log')
  BY DEF TypeOK
<1> QED
  BY <1>1 DEF TypeOK, OrderInv, InOrder, clientVars

\* A push numbered next, on a session with nothing left to replay, keeps the
\* order.
LEMMA OrderPush ==
  ASSUME TypeOK, OrderInv, NEW s \in Sessions, NEW x, Push(s, x),
         from[s] > upto[s], phase[s] \in Following,
         UNCHANGED <<from, upto, clientVars>>,
         \/ UNCHANGED phase
         \/ phase' = [phase EXCEPT ![s] = "mailing"]
  PROVE  OrderInv'
<1> DEFINE n == Len(log) + 1
<1>1. log' = Append(log, x) /\ Len(log') = n /\ n \in Nat \ {0}
  BY DEF TypeOK, Push, stamp
<1>2. \A r \in Sessions : r # s => wire'[r] = wire[r]
  BY DEF TypeOK, Push, SendTo
<1>3. wire'[s] = wire[s] \/ wire'[s] = Append(wire[s], n)
  BY DEF TypeOK, Push, SendTo
<1>4. /\ wire[s] \in Seq(Nat \ {0})
      /\ \A i \in 1..Len(wire[s]) : wire[s][i] <= Len(log) /\ wire[s][i] < n
  BY <1>1 DEF TypeOK, OrderInv
<1>5. \A i \in 1..Len(wire'[s]) : wire'[s][i] <= n
  BY <1>1, <1>3, <1>4, SMTT(30)
<1>6. \A r \in Sessions :
        /\ upto'[r] <= Len(log')
        /\ phase'[r] \notin {"replaying", "closing"} => from'[r] > upto'[r]
        /\ phase'[r] \in {"joined", "subscribed"} => wire'[r] = <<>>
        /\ \A i \in 1..Len(wire'[r]) :
            /\ wire'[r][i] <= Len(log')
            /\ phase'[r] = "replaying" /\ from'[r] <= upto'[r]
                 => wire'[r][i] < from'[r]
  <2> SUFFICES ASSUME NEW r \in Sessions PROVE
        /\ upto'[r] <= Len(log')
        /\ phase'[r] \notin {"replaying", "closing"} => from'[r] > upto'[r]
        /\ phase'[r] \in {"joined", "subscribed"} => wire'[r] = <<>>
        /\ \A i \in 1..Len(wire'[r]) :
            /\ wire'[r][i] <= Len(log')
            /\ phase'[r] = "replaying" /\ from'[r] <= upto'[r]
                 => wire'[r][i] < from'[r]
    OBVIOUS
  <2>1. CASE r = s
    <3>1. phase'[s] \in Following
      BY DEF TypeOK, Following
    <3>2. from'[s] > upto'[s] /\ upto'[s] \in Nat /\ upto'[s] <= Len(log')
      BY <1>1 DEF TypeOK, OrderInv
    <3>3. from'[s] \in Nat /\ ~(from'[s] <= upto'[s])
      BY <3>2 DEF TypeOK
    <3> QED
      BY <1>1, <1>5, <2>1, <3>1, <3>2, <3>3 DEF Following
  <2>2. CASE r # s
    <3>1. phase'[r] = phase[r] /\ from'[r] = from[r] /\ upto'[r] = upto[r]
          /\ wire'[r] = wire[r]
      BY <1>2, <2>2 DEF TypeOK
    <3>2. wire[r] \in Seq(Nat \ {0}) /\ upto[r] \in Nat /\ Len(log) < n
      BY <1>1 DEF TypeOK
    <3> QED
      BY <1>1, <3>1, <3>2, SMTT(30) DEF OrderInv
  <2> QED
    BY <2>1, <2>2
<1>7. InOrder'
  <2> SUFFICES ASSUME NEW c \in Clients, at[c] # NoSession
               PROVE  LET w == wire'[at[c]] IN
                      /\ \A i \in 1..Len(w) : w[i] > cursor[c]
                      /\ \A i, j \in 1..Len(w) : i < j => w[i] < w[j]
    BY DEF InOrder, clientVars
  <2>1. CASE at[c] # s
    BY <1>2, <2>1 DEF TypeOK, OrderInv, InOrder
  <2>2. CASE at[c] = s
    <3>1. /\ \A i \in 1..Len(wire[s]) : wire[s][i] > cursor[c]
          /\ \A i, j \in 1..Len(wire[s]) : i < j => wire[s][i] < wire[s][j]
          /\ cursor[c] \in Nat /\ n > cursor[c]
      BY <1>1, <2>2, SMTT(30) DEF TypeOK, OrderInv, InOrder
    <3> HIDE DEF n
    <3> QED
      BY <1>1, <1>3, <1>4, <2>2, <3>1, AppendInOrder
  <2> QED
    BY <2>1, <2>2
<1>8. \A c \in Clients : cursor'[c] <= Len(log')
  BY <1>1 DEF TypeOK, OrderInv, clientVars
<1>9. \A c \in Clients : at'[c] # NoSession /\ phase'[at'[c]] = "replaying"
        => from'[at'[c]] > cursor'[c] \/ from'[at'[c]] > upto'[at'[c]]
  BY DEF TypeOK, OrderInv, clientVars
<1> QED
  BY <1>6, <1>7, <1>8, <1>9 DEF OrderInv, clientVars

\* Every step keeps the wires in order.
LEMMA OrderStep ==
  ASSUME TypeOK, TypeOK', OrderInv, [Next]_vars PROVE OrderInv'
<1> USE SessionsAssumption
<1>1. ASSUME NEW d \in Dms, InsertDm(d) PROVE OrderInv'
  BY <1>1, OrderOutside DEF InsertDm, sessionVars
<1>2. ASSUME NEW e \in Events, Publish(e) PROVE OrderInv'
  BY <1>2, OrderOutside DEF Publish
<1>3. CASE RecorderLooks
  BY <1>3, OrderOutside DEF RecorderLooks, sessionVars
<1>4. CASE RecorderStamps
  <2>1. UNCHANGED log \/ \E x : log' = Append(log, x)
    BY <1>4 DEF RecorderStamps, stamp
  <2> QED
    BY <1>4, <2>1, OrderOutside DEF RecorderStamps, sessionVars
<1>5. ASSUME NEW s \in Sessions, SessionStep(s) PROVE OrderInv'
  <2>1. CASE Subscribe(s)
    BY <2>1 DEF Subscribe, TypeOK, OrderInv, InOrder, clientVars
  <2>2. CASE SinceCursor(s)
    <3>1. /\ phase[s] = "subscribed" /\ phase' = [phase EXCEPT ![s] = "replaying"]
          /\ wire[s] = <<>> /\ from[s] > upto[s]
          /\ UNCHANGED <<log, wire, clientVars>>
      BY <2>2 DEF SinceCursor, OrderInv
    <3>2. /\ \A r \in Sessions \ {s} : from'[r] = from[r] /\ upto'[r] = upto[r]
          /\ upto'[s] <= Len(log)
          /\ \A c \in Clients : at[c] = s =>
               from'[s] > cursor[c] \/ from'[s] > upto'[s]
      <4>1. ASSUME NEW c \in Clients, at[c] = s,
                   from' = [from EXCEPT ![s] = Since(cursor[c])],
                   upto' = [upto EXCEPT ![s] = Len(log)]
            PROVE /\ \A r \in Sessions \ {s} : from'[r] = from[r] /\ upto'[r] = upto[r]
                  /\ upto'[s] <= Len(log)
                  /\ \A d \in Clients : at[d] = s =>
                       from'[s] > cursor[d] \/ from'[s] > upto'[s]
        <5>1. Since(cursor[c]) > cursor[c]
          BY CapacityAssumption, SMTT(30) DEF Since, RingFloor, TypeOK
        <5>2. \A d \in Clients : at[d] = s => d = c
          BY <4>1 DEF OrderInv
        <5> QED
          BY <4>1, <5>1, <5>2 DEF TypeOK
      <4>2. CASE UNCHANGED <<from, upto>>
        BY <3>1, <4>2 DEF OrderInv, TypeOK
      <4> QED
        BY <2>2, <4>1, <4>2 DEF SinceCursor
    <3>3. InOrder'
      BY <3>1 DEF OrderInv, InOrder, clientVars
    <3>4. \A r \in Sessions : Len(wire'[r]) = Len(wire[r])
                             /\ (r = s => Len(wire[r]) = 0)
      BY <3>1
    <3>5. ASSUME NEW r \in Sessions PROVE SessionOrder(r)'
      <4>1. CASE r = s
        BY <3>1, <3>2, <3>4, <4>1 DEF SessionOrder, TypeOK
      <4>2. CASE r # s
        BY <3>1, <3>2, <4>2 DEF SessionOrder, OrderInv, TypeOK
      <4> QED
        BY <4>1, <4>2
    <3>6. \A c \in Clients : at'[c] # NoSession /\ phase'[at'[c]] = "replaying"
            => from'[at'[c]] > cursor'[c] \/ from'[at'[c]] > upto'[at'[c]]
      BY <3>1, <3>2, SMTT(30) DEF OrderInv, TypeOK, clientVars
    <3> QED
      BY <3>1, <3>3, <3>5, <3>6 DEF OrderInv, SessionOrder, clientVars
  <2>3. CASE ReplayOne(s)
    <3>0. PICK n \in Nat \ {0} : n = from[s]
      BY DEF TypeOK
    <3>1. /\ phase[s] = "replaying" /\ n <= upto[s] /\ n \in Nat \ {0}
          /\ upto[s] <= Len(log) /\ Len(log) \in Nat /\ upto[s] \in Nat
          /\ from' = [from EXCEPT ![s] = n + 1]
          /\ UNCHANGED <<log, phase, upto, clientVars>>
      BY <2>3, <3>0 DEF ReplayOne, OrderInv, TypeOK
    <3>2. /\ \A r \in Sessions : r # s => wire'[r] = wire[r]
          /\ wire'[s] = wire[s] \/ wire'[s] = Append(wire[s], n)
      BY <2>3, <3>0 DEF ReplayOne, SendTo, TypeOK
    <3>3. /\ wire[s] \in Seq(Nat \ {0})
          /\ \A i \in 1..Len(wire[s]) : wire[s][i] < n
      BY <3>0, <3>1 DEF TypeOK, OrderInv, SessionOrder
    <3>4. \A i \in 1..Len(wire'[s]) : wire'[s][i] <= n
      <4>1. n \in Nat \ {0}
        BY <3>0 DEF TypeOK
      <4>2. CASE wire'[s] = wire[s]
        BY <3>3, <4>1, <4>2
      <4>3. CASE wire'[s] = Append(wire[s], n)
        <5>1. /\ Len(Append(wire[s], n)) = Len(wire[s]) + 1
              /\ Append(wire[s], n)[Len(wire[s]) + 1] = n
              /\ \A i \in 1..Len(wire[s]) : Append(wire[s], n)[i] = wire[s][i]
          BY <3>3, <4>1
        <5> QED
          BY <3>3, <4>1, <4>3, <5>1
      <4> QED
        BY <3>2, <4>2, <4>3
    <3>5. ASSUME NEW r \in Sessions PROVE SessionOrder(r)'
      <4>1. CASE r = s
        <5>1. from'[s] = n + 1
          BY <3>1 DEF TypeOK
        <5>0. wire'[s] \in Seq(Nat \ {0})
          BY DEF TypeOK
        <5>2. \A i \in 1..Len(wire'[s]) : wire'[s][i] \in Nat
          BY <5>0
        <5> QED
          BY <3>1, <3>4, <4>1, <5>1, <5>2 DEF SessionOrder
      <4>2. CASE r # s
        BY <3>1, <3>2, <4>2 DEF SessionOrder, OrderInv, TypeOK
      <4> QED
        BY <4>1, <4>2
    <3>6. InOrder'
      <4> SUFFICES ASSUME NEW c \in Clients, at[c] # NoSession
                   PROVE  LET w == wire'[at[c]] IN
                          /\ \A i \in 1..Len(w) : w[i] > cursor[c]
                          /\ \A i, j \in 1..Len(w) : i < j => w[i] < w[j]
        BY <3>1 DEF InOrder, clientVars
      <4>1. CASE at[c] # s
        BY <3>2, <4>1 DEF TypeOK, OrderInv, InOrder
      <4>2. CASE at[c] = s
        <5>1. /\ \A i \in 1..Len(wire[s]) : wire[s][i] > cursor[c]
              /\ \A i, j \in 1..Len(wire[s]) : i < j => wire[s][i] < wire[s][j]
              /\ cursor[c] \in Nat /\ n > cursor[c]
          <6>1. cursor[c] \in Nat /\ (n > cursor[c] \/ n > upto[s])
            BY <3>0, <3>1, <4>2 DEF TypeOK, OrderInv
          <6> QED
            BY <3>1, <4>2, <6>1 DEF OrderInv, InOrder
        <5> QED
          BY <3>1, <3>2, <3>3, <4>2, <5>1, AppendInOrder
      <4> QED
        BY <4>1, <4>2
    <3>7. \A c \in Clients : at'[c] # NoSession /\ phase'[at'[c]] = "replaying"
            => from'[at'[c]] > cursor'[c] \/ from'[at'[c]] > upto'[at'[c]]
      <4> SUFFICES ASSUME NEW c \in Clients, at[c] # NoSession,
                          phase[at[c]] = "replaying"
                   PROVE  from'[at[c]] > cursor[c] \/ from'[at[c]] > upto[at[c]]
        BY <3>1 DEF clientVars
      <4>1. /\ from[at[c]] > cursor[c] \/ from[at[c]] > upto[at[c]]
            /\ from[at[c]] \in Nat /\ cursor[c] \in Nat /\ upto[at[c]] \in Nat
            /\ from'[at[c]] = from[at[c]] \/ from'[at[c]] = from[at[c]] + 1
        BY <3>0, <3>1 DEF OrderInv, TypeOK
      <4> QED
        BY <4>1
    <3> QED
      BY <3>1, <3>5, <3>6, <3>7 DEF OrderInv, SessionOrder, clientVars
  <2>4. CASE SendWelcome(s)
    BY <2>4, OrderPush DEF SendWelcome, TypeOK, Following
  <2>5. CASE ReadMail(s)
    BY <2>5 DEF ReadMail, TypeOK, OrderInv, InOrder, clientVars
  <2>6. CASE MailOne(s)
    <3>1. PICK d \in mail[s] : Push(s, d)
      BY <2>6 DEF MailOne
    <3>2. from[s] > upto[s] /\ phase[s] \in Following
      BY <2>6 DEF MailOne, OrderInv, Following
    <3> QED
      BY <2>6, <3>1, <3>2, OrderPush DEF MailOne
  <2>7. CASE TakeEvent(s)
    <3>1. from[s] > upto[s] /\ phase[s] \in Following
      BY <2>7 DEF TakeEvent, OrderInv, Following
    <3> QED
      BY <2>7, <3>1, OrderPush DEF TakeEvent
  <2>8. CASE Break(s)
    BY <2>8 DEF Break, TypeOK, OrderInv, InOrder, clientVars
  <2>9. CASE Leave(s)
    BY <2>9 DEF Leave, TypeOK, OrderInv, InOrder, clientVars
  <2> QED
    BY <1>5, <2>1, <2>2, <2>3, <2>4, <2>5, <2>6, <2>7, <2>8, <2>9 DEF SessionStep
<1>6. ASSUME NEW c \in Clients, NEW s \in Sessions,
             NEW how \in {"password", "resume"}, Connect(c, s, how)
      PROVE OrderInv'
  <2>1. /\ phase' = [phase EXCEPT ![s] = "joined"]
        /\ wire' = [wire EXCEPT ![s] = <<>>]
        /\ at' = [at EXCEPT ![c] = s] /\ at[c] = NoSession
        /\ UNCHANGED <<log, from, upto>>
        /\ phase[s] = "off" /\ \A d \in Clients : at[d] # s
    BY <1>6 DEF Connect
  <2>2. \A d \in Clients : cursor'[d] = cursor[d] \/ cursor'[d] = 0
    <3>1. CASE how = "resume"
      BY <1>6, <3>1 DEF Connect
    <3>2. CASE how # "resume"
      BY <1>6, <3>2 DEF Connect, TypeOK
    <3> QED
      BY <3>1, <3>2
  <2>3. \A d \in Clients : d # c => cursor'[d] = cursor[d]
    <3>1. CASE how = "resume"
      BY <1>6, <3>1 DEF Connect
    <3>2. CASE how # "resume"
      BY <1>6, <3>2 DEF Connect, TypeOK
    <3> QED
      BY <3>1, <3>2
  <2>4. ASSUME NEW r \in Sessions PROVE SessionOrder(r)'
    BY <2>1, SMTT(30) DEF SessionOrder, OrderInv, TypeOK
  <2>5. InOrder'
    <3> SUFFICES ASSUME NEW d \in Clients, at'[d] # NoSession
                 PROVE  LET w == wire'[at'[d]] IN
                        /\ \A i \in 1..Len(w) : w[i] > cursor'[d]
                        /\ \A i, j \in 1..Len(w) : i < j => w[i] < w[j]
      BY DEF InOrder
    <3>1. CASE d = c
      BY <2>1, <3>1 DEF TypeOK
    <3>2. CASE d # c
      <4>1. at'[d] = at[d] /\ wire'[at[d]] = wire[at[d]] /\ cursor'[d] = cursor[d]
        BY <2>1, <2>3, <3>2 DEF TypeOK
      <4> QED
        BY <4>1 DEF OrderInv, InOrder
    <3> QED
      BY <3>1, <3>2
  <2>6. \A d \in Clients : cursor'[d] <= Len(log')
    <3>1. Len(log') = Len(log) /\ Len(log) \in Nat
      BY <2>1 DEF TypeOK
    <3> QED
      BY <2>2, <3>1 DEF OrderInv
  <2>7. \A d, e \in Clients : at'[d] = at'[e] /\ at'[d] # NoSession => d = e
    BY <2>1 DEF OrderInv, TypeOK
  <2>8. \A d \in Clients : at'[d] # NoSession /\ phase'[at'[d]] = "replaying"
          => from'[at'[d]] > cursor'[d] \/ from'[at'[d]] > upto'[at'[d]]
    BY <2>1, <2>3 DEF OrderInv, TypeOK
  <2> QED
    BY <2>4, <2>5, <2>6, <2>7, <2>8 DEF OrderInv, SessionOrder
<1>7. ASSUME NEW c \in Clients, ReadPush(c) PROVE OrderInv'
  <2> DEFINE s == at[c]
  <2>1. /\ s \in Sessions /\ wire[s] # <<>> /\ wire[s] \in Seq(Nat \ {0})
        /\ wire' = [wire EXCEPT ![s] = Tail(wire[s])]
        /\ UNCHANGED <<log, phase, from, upto, at>>
    BY <1>7 DEF ReadPush, TypeOK
  <2>2. /\ \A i \in 1..Len(wire[s]) : wire[s][i] > cursor[c]
        /\ \A i, j \in 1..Len(wire[s]) : i < j => wire[s][i] < wire[s][j]
    BY <2>1 DEF OrderInv, InOrder
  <2>3. Head(wire[s]) = wire[s][1] /\ 1 \in 1..Len(wire[s])
    BY <2>1
  <2>4. /\ cursor'[c] = Head(wire[s])
        /\ \A d \in Clients : d # c => cursor'[d] = cursor[d]
    BY <1>7, <2>2, <2>3 DEF ReadPush, TypeOK
  <2>5. /\ Tail(wire[s]) \in Seq(Nat \ {0})
        /\ \A i \in 1..Len(Tail(wire[s])) :
             /\ i + 1 \in 1..Len(wire[s]) /\ Tail(wire[s])[i] = wire[s][i + 1]
             /\ Tail(wire[s])[i] > Head(wire[s])
        /\ \A i, j \in 1..Len(Tail(wire[s])) :
             i < j => Tail(wire[s])[i] < Tail(wire[s])[j]
    BY <2>1, <2>2, TailInOrder
  <2>6. \A d \in Clients : d # c => at[d] # s
    BY <2>1 DEF OrderInv
  <2>7. InOrder'
    <3> SUFFICES ASSUME NEW d \in Clients, at[d] # NoSession
                 PROVE  LET w == wire'[at[d]] IN
                        /\ \A i \in 1..Len(w) : w[i] > cursor'[d]
                        /\ \A i, j \in 1..Len(w) : i < j => w[i] < w[j]
      BY <2>1 DEF InOrder
    <3>1. CASE d = c
      <4>1. wire'[at[d]] = Tail(wire[s])
        BY <2>1, <3>1 DEF TypeOK
      <4> QED
        BY <2>4, <2>5, <3>1, <4>1
    <3>2. CASE d # c
      <4>1. wire'[at[d]] = wire[at[d]] /\ cursor'[d] = cursor[d]
        BY <2>1, <2>4, <2>6, <3>2 DEF TypeOK
      <4> QED
        BY <4>1 DEF OrderInv, InOrder
    <3> QED
      BY <3>1, <3>2
  <2>8. ASSUME NEW r \in Sessions PROVE SessionOrder(r)'
    <3>1. SessionOrder(r)
      BY DEF OrderInv, SessionOrder
    <3>2. CASE r # s
      <4>1. wire'[r] = wire[r]
        BY <2>1, <3>2 DEF TypeOK
      <4> QED
        BY <2>1, <3>1, <4>1 DEF SessionOrder
    <3>3. CASE r = s
      <4>1. wire'[r] = Tail(wire[r])
        BY <2>1, <3>3 DEF TypeOK
      <4> QED
        BY <2>1, <2>5, <3>1, <3>3, <4>1 DEF SessionOrder
    <3> QED
      BY <3>2, <3>3
  <2>9. \A d \in Clients : cursor'[d] <= Len(log')
    <3>1. Head(wire[s]) <= Len(log)
      BY <2>1, <2>3 DEF OrderInv
    <3> QED
      BY <2>1, <2>4, <3>1 DEF OrderInv
  <2>10. \A d \in Clients : at'[d] # NoSession /\ phase'[at'[d]] = "replaying"
           => from'[at'[d]] > cursor'[d] \/ from'[at'[d]] > upto'[at'[d]]
    <3>1. phase[s] = "replaying" => from[s] > Head(wire[s]) \/ from[s] > upto[s]
      BY <2>1, <2>3 DEF OrderInv, TypeOK
    <3> QED
      BY <2>1, <2>4, <2>6, <3>1 DEF OrderInv
  <2> QED
    BY <2>1, <2>7, <2>8, <2>9, <2>10 DEF OrderInv, SessionOrder
<1>8. ASSUME NEW c \in Clients, Drop(c) PROVE OrderInv'
  BY <1>8, SMTT(30) DEF Drop, TypeOK, OrderInv, InOrder
<1>9. ASSUME NEW c \in Clients, NEW d \in Dms, MarkRead(c, d) PROVE OrderInv'
  BY <1>9, OrderOutside DEF MarkRead, sessionVars
<1>10. CASE UNCHANGED vars
  BY <1>10, OrderOutside DEF vars, sessionVars
<1> QED
  BY <1>1, <1>2, <1>3, <1>4, <1>5, <1>6, <1>7, <1>8, <1>9, <1>10 DEF Next

-----------------------------------------------------------------------------
(* Mail. *)

\* A queue that is not full keeps what it holds and takes the event.
LEMMA OfferKeeps ==
  ASSUME NEW q \in Seq(Events), NEW e \in Events, Len(q) < BUS_CAPACITY
  PROVE  Elems(Offer(q, e)) = Elems(q) \cup {e}
<1>1. Offer(q, e) = Append(q, e) /\ Len(Append(q, e)) = Len(q) + 1
  BY DEF Offer
<1>2. \A i \in 1..Len(q) : Append(q, e)[i] = q[i] /\ i \in 1..(Len(q) + 1)
  OBVIOUS
<1>3. Append(q, e)[Len(q) + 1] = e /\ Len(q) + 1 \in 1..(Len(q) + 1)
  OBVIOUS
<1>4. \A i \in 1..(Len(q) + 1) : i \in 1..Len(q) \/ i = Len(q) + 1
  OBVIOUS
<1>5. DOMAIN Append(q, e) = 1..(Len(q) + 1) /\ DOMAIN q = 1..Len(q)
  OBVIOUS
<1> QED
  BY <1>1, <1>2, <1>3, <1>4, <1>5 DEF Elems

\* A queue holds its head and its tail.
LEMMA HeadAndTail ==
  ASSUME NEW T, NEW q \in Seq(T), q # <<>>
  PROVE  Elems(q) = {Head(q)} \cup Elems(Tail(q))
<1>1. /\ DOMAIN q = 1..Len(q) /\ DOMAIN Tail(q) = 1..(Len(q) - 1)
      /\ Head(q) = q[1] /\ Len(q) \in Nat \ {0}
  OBVIOUS
<1>2. \A i \in 1..(Len(q) - 1) : Tail(q)[i] = q[i + 1]
  OBVIOUS
<1>3. \A i \in 1..Len(q) : i = 1 \/ (i - 1 \in 1..(Len(q) - 1) /\ i = (i - 1) + 1)
  BY <1>1
<1>4. \A i \in 1..(Len(q) - 1) : i + 1 \in 1..Len(q)
  BY <1>1
<1>5. 1 \in 1..Len(q)
  BY <1>1
<1>6. ASSUME NEW x \in Elems(q) PROVE x = Head(q) \/ x \in Elems(Tail(q))
  <2>1. PICK i \in 1..Len(q) : x = q[i]
    BY <1>1, <1>6 DEF Elems
  <2>2. CASE i = 1
    BY <1>1, <2>1, <2>2
  <2>3. CASE i - 1 \in 1..(Len(q) - 1) /\ i = (i - 1) + 1
    BY <1>1, <1>2, <2>1, <2>3 DEF Elems
  <2> QED
    BY <1>3, <2>2, <2>3
<1>7. ASSUME NEW x \in Elems(Tail(q)) PROVE x \in Elems(q)
  BY <1>1, <1>2, <1>4, <1>7 DEF Elems
<1>8. Head(q) \in Elems(q)
  BY <1>1, <1>5 DEF Elems
<1> QED
  BY <1>6, <1>7, <1>8

\* What session s has been told, is about to be told, or will read.
Heard(s) == told[s] \cup Elems(rx[s]) \cup mail[s]

\* Every step keeps stored mail on its way to the sessions that follow.
LEMMA MailStep ==
  ASSUME TypeOK, MailInv, [Next]_vars PROVE MailInv'
<1> USE EventsAssumption, CapacityAssumption
<1>0. /\ sent \cap Dms \subseteq stored /\ unread \subseteq stored
      /\ \A s \in Sessions : phase[s] = "live" /\ ~partial[s] =>
           unread \cap sent \subseteq Heard(s)
  BY DEF MailInv, MailReaches, Heard, TypeOK
<1>1. ASSUME UNCHANGED <<storeVars, sent>>,
             \A s \in Sessions : phase'[s] = "live" /\ ~partial'[s] =>
               unread \cap sent \subseteq Heard(s)'
      PROVE MailInv'
  BY <1>0, <1>1 DEF MailInv, MailReaches, Heard, storeVars
<1>2. ASSUME UNCHANGED <<sent, stored, sessionVars>>,
             unread' \cap sent \subseteq unread
      PROVE MailInv'
  BY <1>0, <1>2 DEF MailInv, MailReaches, Heard, sessionVars
<1>3. ASSUME NEW d \in Dms, InsertDm(d) PROVE MailInv'
  BY <1>0, <1>3 DEF InsertDm, MailInv, MailReaches, sessionVars, busVars, Elems
<1>4. ASSUME NEW e \in Events, Publish(e) PROVE MailInv'
  <2>1. sent' \cap Dms \subseteq stored'
    BY <1>0, <1>4 DEF Publish, storeVars
  <2>2. ASSUME NEW s \in Sessions, phase'[s] = "live", ~partial'[s]
        PROVE unread' \cap sent' \subseteq Heard(s)'
    <3>1. /\ phase[s] = "live" /\ ~partial[s] /\ s \in Subscribed
          /\ ~(Len(rx[s]) >= BUS_CAPACITY)
      BY <1>4, <2>2 DEF Publish, Subscribed
    <3>2. Elems(rx'[s]) = Elems(rx[s]) \cup {e}
      <4>1. rx'[s] = Offer(rx[s], e) /\ rx[s] \in Seq(Events)
        BY <1>4, <3>1 DEF Publish, TypeOK
      <4>2. Len(rx[s]) < BUS_CAPACITY
        BY <3>1 DEF TypeOK
      <4> QED
        BY <4>1, <4>2, OfferKeeps
    <3> QED
      BY <1>0, <1>4, <3>1, <3>2 DEF Publish, Heard, storeVars
  <2> QED
    BY <2>1, <2>2 DEF MailInv, MailReaches, Heard
<1>5. CASE RecorderLooks
  BY <1>0, <1>1, <1>5 DEF RecorderLooks, sessionVars, Heard, Elems
<1>6. CASE RecorderStamps
  BY <1>0, <1>1, <1>6 DEF RecorderStamps, sessionVars, Heard, Elems
<1>7. ASSUME NEW s \in Sessions, SessionStep(s) PROVE MailInv'
  <2>1. CASE Subscribe(s)
    BY <1>0, <1>1, <2>1 DEF Subscribe, TypeOK, Heard, Elems, busVars
  <2>2. CASE SinceCursor(s)
    BY <1>0, <1>1, <2>2 DEF SinceCursor, TypeOK, Heard, Elems, busVars
  <2>3. CASE ReplayOne(s)
    BY <1>0, <1>1, <2>3 DEF ReplayOne, Told, TypeOK, Heard, Elems, busVars
  <2>4. CASE SendWelcome(s)
    BY <1>0, <1>1, <2>4
    DEF SendWelcome, Push, Told, TypeOK, Heard, Elems, busVars
  <2>5. CASE ReadMail(s)
    <3>1. ASSUME NEW r \in Sessions, phase'[r] = "live", ~partial'[r]
          PROVE unread \cap sent \subseteq Heard(r)'
      <4>1. PICK m \in SUBSET unread :
              /\ mail' = [mail EXCEPT ![s] = m]
              /\ partial' = [partial EXCEPT ![s] = @ \/ m # unread]
        BY <2>5 DEF ReadMail
      <4>2. CASE r = s
        BY <3>1, <4>1, <4>2 DEF TypeOK, Heard
      <4>3. CASE r # s
        BY <1>0, <2>5, <3>1, <4>1, <4>3 DEF ReadMail, TypeOK, Heard, Elems
      <4> QED
        BY <4>2, <4>3
    <3> QED
      BY <1>1, <2>5, <3>1 DEF ReadMail, busVars
  <2>6. CASE MailOne(s)
    <3>1. PICK d \in mail[s] : Push(s, d) /\ mail' = [mail EXCEPT ![s] = @ \ {d}]
      BY <2>6 DEF MailOne
    <3>2. ASSUME NEW r \in Sessions PROVE Heard(r) \subseteq Heard(r)'
      BY <2>6, <3>1 DEF MailOne, Push, Told, TypeOK, Heard, Elems, Events
    <3> QED
      BY <1>0, <1>1, <2>6, <3>2 DEF MailOne, busVars
  <2>7. CASE TakeEvent(s)
    <3>1. Elems(rx[s]) = {Head(rx[s])} \cup Elems(Tail(rx[s]))
      BY <2>7, HeadAndTail DEF TakeEvent, TypeOK
    <3>2. ASSUME NEW r \in Sessions
          PROVE Heard(r) \cap Dms \subseteq Heard(r)'
      <4>1. CASE r = s
        <5>1. /\ rx'[s] = Tail(rx[s]) /\ mail'[s] = mail[s]
              /\ told'[s] = told[s] \cup ({Head(rx[s])} \cap Events)
          BY <2>7 DEF TakeEvent, Push, Told, TypeOK
        <5> QED
          BY <3>1, <4>1, <5>1 DEF Heard, Events
      <4>2. CASE r # s
        BY <2>7, <4>2 DEF TakeEvent, Push, Told, TypeOK, Heard, Elems
      <4> QED
        BY <4>1, <4>2
    <3> QED
      BY <1>0, <1>1, <2>7, <3>2 DEF TakeEvent, busVars, TypeOK
  <2>8. CASE Break(s)
    BY <1>0, <1>1, <2>8 DEF Break, TypeOK, Heard, Elems, busVars
  <2>9. CASE Leave(s)
    BY <1>0, <1>1, <2>9 DEF Leave, TypeOK, Heard, Elems, busVars
  <2> QED
    BY <1>7, <2>1, <2>2, <2>3, <2>4, <2>5, <2>6, <2>7, <2>8, <2>9 DEF SessionStep
<1>8. ASSUME NEW c \in Clients, NEW s \in Sessions,
             NEW how \in {"password", "resume"}, Connect(c, s, how)
      PROVE MailInv'
  BY <1>0, <1>1, <1>8 DEF Connect, TypeOK, Heard, Elems, busVars
<1>9. ASSUME NEW c \in Clients, ReadPush(c) PROVE MailInv'
  BY <1>0, <1>1, <1>9 DEF ReadPush, Heard, Elems, busVars
<1>10. ASSUME NEW c \in Clients, Drop(c) PROVE MailInv'
  BY <1>0, <1>1, <1>10 DEF Drop, Heard, Elems, busVars
<1>11. ASSUME NEW c \in Clients, NEW d \in Dms, MarkRead(c, d) PROVE MailInv'
  BY <1>2, <1>11 DEF MarkRead, busVars
<1>12. CASE UNCHANGED vars
  BY <1>2, <1>12 DEF vars, busVars, storeVars
<1> QED
  BY <1>3, <1>4, <1>5, <1>6, <1>7, <1>8, <1>9, <1>10, <1>11, <1>12 DEF Next

-----------------------------------------------------------------------------
(* What a cursor passes over. *)

\* The part of GapInv that is about one connected client.
Known(c) == got[c] \cup excused[c] \cup raced[c] \cup Elems(wire[at[c]])
ClientGap(c) ==
  at[c] # NoSession =>
    IF phase[at[c]] \in Following
    THEN \A n \in 1..Len(log) : n \in Known(c) \cup from[at[c]]..upto[at[c]]
    ELSE \A i \in 1..Len(wire[at[c]]) : \A n \in 1..wire[at[c]][i] : n \in Known(c)

\* GapInv is a part about the log and one part for each client.
LEMMA GapParts == GapInv <=> PassedOverOnlyIfRaced /\ \A c \in Clients : ClientGap(c)
  BY DEF GapInv, ClientGap, Known

\* What is appended is in the new wire, and nothing leaves it.
LEMMA AppendKeeps ==
  ASSUME NEW w \in Seq(Nat \ {0}), NEW n \in Nat \ {0}
  PROVE  Elems(w) \subseteq Elems(Append(w, n)) /\ n \in Elems(Append(w, n))
<1>1. /\ DOMAIN w = 1..Len(w) /\ DOMAIN Append(w, n) = 1..(Len(w) + 1)
      /\ Append(w, n)[Len(w) + 1] = n /\ Len(w) + 1 \in 1..(Len(w) + 1)
  OBVIOUS
<1>2. \A i \in 1..Len(w) : Append(w, n)[i] = w[i] /\ i \in 1..(Len(w) + 1)
  OBVIOUS
<1> QED
  BY <1>1, <1>2 DEF Elems

\* A step that stamps x next excuses every client that follows.
LEMMA GapStamp ==
  ASSUME TypeOK, GapInv, NEW x, stamp(x),
         UNCHANGED <<from, upto, clientVars>>,
         \A c \in Clients : at[c] # NoSession =>
           /\ Elems(wire[at[c]]) \subseteq Elems(wire'[at[c]])
           /\ phase[at[c]] \notin Following => wire'[at[c]] = wire[at[c]]
           /\ phase'[at[c]] \in Following <=> phase[at[c]] \in Following
  PROVE  GapInv'
<1>1. /\ Len(log') = Len(log) + 1 /\ Len(log) \in Nat
      /\ \A n \in 1..Len(log') : n \in 1..Len(log) \/ n = Len(log) + 1
  BY DEF stamp, TypeOK
<1>2. \A c \in Clients : excused[c] \subseteq excused'[c] /\ raced[c] \subseteq raced'[c]
  BY DEF stamp, TypeOK
<1>3. PassedOverOnlyIfRaced'
  BY <1>2 DEF GapInv, PassedOverOnlyIfRaced, clientVars
<1>4. ASSUME NEW c \in Clients, at[c] # NoSession PROVE ClientGap(c)'
  <2>1. Known(c) \subseteq Known(c)'
    BY <1>2, <1>4 DEF Known, clientVars
  <2>2. CASE phase[at[c]] \in Following
    <3>1. Len(log) + 1 \in Known(c)'
      BY <1>4, <2>2 DEF stamp, Known, Follows
    <3> QED
      BY <1>1, <1>4, <2>1, <2>2, <3>1, GapParts DEF ClientGap, clientVars
  <2>3. CASE phase[at[c]] \notin Following
    BY <1>4, <2>1, <2>3, GapParts DEF ClientGap, clientVars
  <2> QED
    BY <2>2, <2>3
<1>5. \A c \in Clients : ClientGap(c)'
  BY <1>4 DEF ClientGap, clientVars
<1> QED
  BY <1>3, <1>5, GapParts DEF GapInv, ClientGap, Known

\* So does a push on session s.
LEMMA GapPush ==
  ASSUME TypeOK, GapInv, NEW s \in Sessions, NEW x, Push(s, x),
         phase[s] \in Following,
         UNCHANGED <<from, upto, clientVars>>,
         \/ UNCHANGED phase
         \/ phase' = [phase EXCEPT ![s] = "mailing"]
  PROVE  GapInv'
<1>1. wire'[s] = wire[s] \/ wire'[s] = Append(wire[s], Len(log) + 1)
  BY DEF Push, SendTo, TypeOK
<1>2. \A r \in Sessions : r # s => wire'[r] = wire[r]
  BY DEF Push, SendTo, TypeOK
<1>3. Elems(wire[s]) \subseteq Elems(wire'[s])
  <2>1. wire[s] \in Seq(Nat \ {0}) /\ Len(log) + 1 \in Nat \ {0}
    BY DEF TypeOK
  <2> QED
    BY <1>1, <2>1, AppendKeeps
<1>4. \A r \in Sessions : phase'[r] \in Following <=> phase[r] \in Following
  BY DEF Following, TypeOK
<1>5. \A c \in Clients : at[c] # NoSession => at[c] \in Sessions
  BY DEF TypeOK
<1>6. stamp(x)
  BY DEF Push
<1> QED
  BY <1>2, <1>3, <1>4, <1>5, <1>6, GapStamp

\* Every step keeps every cursor from passing over a push it is owed.
LEMMA GapStep ==
  ASSUME TypeOK, OrderInv, GapInv, [Next]_vars PROVE GapInv'
<1> USE SessionsAssumption DEF excuses
<1>0. PassedOverOnlyIfRaced /\ \A c \in Clients : ClientGap(c)
  BY GapParts
<1>1. ASSUME UNCHANGED <<log, phase, from, upto, wire, clientVars, excuses>>
      PROVE  GapInv'
  BY <1>1 DEF GapInv, PassedOverOnlyIfRaced, clientVars, Elems
<1>2. ASSUME UNCHANGED <<cursor, got, excuses>>,
             \A c \in Clients : ClientGap(c)'
      PROVE  GapInv'
  BY <1>0, <1>2 DEF GapInv, PassedOverOnlyIfRaced, ClientGap, Known
<1>3. ASSUME NEW d \in Dms, InsertDm(d) PROVE GapInv'
  BY <1>1, <1>3 DEF InsertDm, sessionVars
<1>4. ASSUME NEW e \in Events, Publish(e) PROVE GapInv'
  BY <1>1, <1>4 DEF Publish
<1>5. CASE RecorderLooks
  BY <1>1, <1>5 DEF RecorderLooks, sessionVars
<1>6. CASE RecorderStamps
  <2>1. CASE stamp(look.ev)
    BY <1>6, <2>1, GapStamp DEF RecorderStamps, sessionVars
  <2>2. CASE UNCHANGED <<log, excuses>>
    BY <1>1, <1>6, <2>2 DEF RecorderStamps, sessionVars
  <2> QED
    BY <1>6, <2>1, <2>2 DEF RecorderStamps
<1>7. ASSUME NEW s \in Sessions, SessionStep(s) PROVE GapInv'
  <2>1. CASE Subscribe(s)
    <3>1. ASSUME NEW c \in Clients PROVE ClientGap(c)'
      BY <1>0, <2>1 DEF Subscribe, ClientGap, Known, Following, TypeOK, clientVars
    <3> QED
      BY <1>2, <2>1, <3>1 DEF Subscribe, clientVars
  <2>2. CASE SinceCursor(s)
    <3>1. /\ phase[s] = "subscribed" /\ phase' = [phase EXCEPT ![s] = "replaying"]
          /\ UNCHANGED <<log, wire, clientVars, raced>>
      BY <2>2 DEF SinceCursor
    <3>2. ASSUME NEW c \in Clients, at[c] = s,
                 \A n \in 1..Len(log) :
                   n \in got[c] \cup excused'[c] \cup raced[c] \cup from'[s]..upto'[s],
                 \A r \in Sessions : r # s => from'[r] = from[r] /\ upto'[r] = upto[r],
                 \A d \in Clients : d # c => excused'[d] = excused[d],
                 excused[c] \subseteq excused'[c]
          PROVE GapInv'
      <4>1. PassedOverOnlyIfRaced'
        BY <1>0, <3>1, <3>2 DEF PassedOverOnlyIfRaced, clientVars
      <4>2. ASSUME NEW d \in Clients PROVE ClientGap(d)'
        <5>1. CASE d = c
          BY <3>1, <3>2, <5>1 DEF ClientGap, Known, clientVars, TypeOK, Following
        <5>2. CASE d # c
          <6>1. at[d] = NoSession \/ (at[d] \in Sessions /\ at[d] # s)
            BY <3>2, <5>2 DEF OrderInv, TypeOK
          <6> QED
            BY <1>0, <3>1, <3>2, <5>2, <6>1 DEF ClientGap, Known, clientVars, TypeOK
        <5> QED
          BY <5>1, <5>2
      <4> QED
        BY <4>1, <4>2 DEF GapInv, ClientGap, Known
    <3>3. ASSUME NEW c \in Clients, at[c] = s, login[c] = "resume", cursor[c] > 0,
                 from' = [from EXCEPT ![s] = Since(cursor[c])],
                 upto' = [upto EXCEPT ![s] = Len(log)],
                 excused' = [excused EXCEPT ![c] = @ \cup 0..RingFloor]
          PROVE GapInv'
      <4>1. /\ from'[s] = Since(cursor[c]) /\ upto'[s] = Len(log)
            /\ excused'[c] = excused[c] \cup 0..RingFloor
        BY <3>3 DEF TypeOK
      <4>2. ASSUME NEW n \in 1..Len(log)
            PROVE n \in got[c] \cup excused'[c] \cup raced[c] \cup from'[s]..upto'[s]
        <5>1. CASE n <= cursor[c]
          BY <1>0, <4>1, <5>1 DEF PassedOverOnlyIfRaced, TypeOK
        <5>2. CASE n <= RingFloor
          BY <4>1, <5>2 DEF TypeOK
        <5>3. CASE n > cursor[c] /\ n > RingFloor
          BY <4>1, <5>3, CapacityAssumption DEF Since, RingFloor, TypeOK
        <5> QED
          BY <5>1, <5>2, <5>3, CapacityAssumption DEF RingFloor, TypeOK
      <4> QED
        BY <3>2, <3>3, <4>1, <4>2 DEF TypeOK
    <3>4. ASSUME NEW c \in Clients, at[c] = s, UNCHANGED <<from, upto>>,
                 excused' = [excused EXCEPT ![c] = @ \cup 0..Len(log)]
          PROVE GapInv'
      BY <3>2, <3>4 DEF TypeOK
    <3>5. ASSUME \A c \in Clients : at[c] # s, UNCHANGED <<from, upto, excused>>
          PROVE GapInv'
      <4>1. ASSUME NEW c \in Clients PROVE ClientGap(c)'
        BY <1>0, <3>1, <3>5 DEF ClientGap, Known, TypeOK, clientVars
      <4> QED
        BY <1>2, <3>1, <3>5, <4>1 DEF clientVars
    <3> QED
      BY <2>2, <3>3, <3>4, <3>5 DEF SinceCursor
  <2>3. CASE ReplayOne(s)
    <3>1. /\ wire'[s] = wire[s] \/ wire'[s] = Append(wire[s], from[s])
          /\ (\E c \in Clients : at[c] = s) => wire'[s] = Append(wire[s], from[s])
          /\ \A r \in Sessions : r # s => wire'[r] = wire[r] /\ from'[r] = from[r]
          /\ from'[s] = from[s] + 1 /\ phase[s] = "replaying"
          /\ UNCHANGED <<log, phase, upto, clientVars, excuses>>
      BY <2>3 DEF ReplayOne, SendTo, TypeOK
    <3>2. ASSUME NEW c \in Clients PROVE ClientGap(c)'
      <4>1. CASE at[c] = s
        <5>1. Elems(wire[s]) \subseteq Elems(wire'[s]) /\ from[s] \in Elems(wire'[s])
          BY <3>1, <4>1, AppendKeeps DEF TypeOK
        <5>2. \A n \in from[s]..upto[s] : n = from[s] \/ n \in from'[s]..upto[s]
          BY <3>1 DEF TypeOK
        <5>3. Known(c) \subseteq Known(c)' /\ from[s] \in Known(c)'
          BY <3>1, <4>1, <5>1 DEF Known, clientVars
        <5>4. \A n \in 1..Len(log) : n \in Known(c) \cup from[s]..upto[s]
          BY <1>0, <3>1, <4>1 DEF ClientGap, Following
        <5> QED
          BY <3>1, <4>1, <5>2, <5>3, <5>4 DEF ClientGap, Following, clientVars
      <4>2. CASE at[c] # s
        <5>1. at[c] = NoSession \/ at[c] \in Sessions
          BY DEF TypeOK
        <5> QED
          BY <1>0, <3>1, <4>2, <5>1 DEF ClientGap, Known, clientVars
      <4> QED
        BY <4>1, <4>2
    <3> QED
      BY <1>2, <3>1, <3>2 DEF clientVars
  <2>4. CASE SendWelcome(s)
    BY <2>4, GapPush DEF SendWelcome, Following
  <2>5. CASE ReadMail(s)
    <3>1. ASSUME NEW c \in Clients PROVE ClientGap(c)'
      BY <1>0, <2>5 DEF ReadMail, ClientGap, Known, Following, TypeOK, clientVars
    <3> QED
      BY <1>2, <2>5, <3>1 DEF ReadMail, clientVars
  <2>6. CASE MailOne(s)
    <3>1. PICK d \in mail[s] : Push(s, d)
      BY <2>6 DEF MailOne
    <3> QED
      BY <2>6, <3>1, GapPush DEF MailOne, Following
  <2>7. CASE TakeEvent(s)
    BY <2>7, GapPush DEF TakeEvent, Following
  <2>8. CASE Break(s)
    <3>1. /\ phase' = [phase EXCEPT ![s] = "closing"]
          /\ UNCHANGED <<log, from, upto, wire, clientVars, excuses>>
      BY <2>8 DEF Break
    <3>2. ASSUME NEW c \in Clients PROVE ClientGap(c)'
      <4>1. CASE at[c] = s
        <5>1. phase[s] = "live" /\ from[s] > upto[s] /\ s # NoSession
          BY <2>8, <4>1 DEF Break, OrderInv
        <5>2. \A n \in 1..Len(log) : n \in Known(c)
          <6>1. \A n : n \notin from[s]..upto[s]
            BY <5>1 DEF TypeOK
          <6> QED
            BY <1>0, <4>1, <5>1, <6>1 DEF ClientGap, Following
        <5>3. \A i \in 1..Len(wire[s]) : \A n \in 1..wire[s][i] : n \in 1..Len(log)
          BY DEF OrderInv, TypeOK
        <5>4. phase'[s] = "closing" /\ Known(c)' = Known(c)
          BY <3>1 DEF TypeOK, Known, clientVars
        <5> QED
          BY <3>1, <4>1, <5>2, <5>3, <5>4 DEF ClientGap, Following, clientVars
      <4>2. CASE at[c] # s
        BY <1>0, <3>1, <4>2 DEF ClientGap, Known, TypeOK, clientVars
      <4> QED
        BY <4>1, <4>2
    <3> QED
      BY <1>2, <3>1, <3>2 DEF clientVars
  <2>9. CASE Leave(s)
    <3>1. ASSUME NEW c \in Clients PROVE ClientGap(c)'
      <4>1. CASE at[c] = s
        BY <1>0, <2>9, <4>1 DEF Leave, ClientGap, Known, Following, TypeOK, clientVars
      <4>2. CASE at[c] # s
        BY <1>0, <2>9, <4>2 DEF Leave, ClientGap, Known, TypeOK, clientVars
      <4> QED
        BY <4>1, <4>2
    <3> QED
      BY <1>2, <2>9, <3>1 DEF Leave, clientVars
  <2> QED
    BY <1>7, <2>1, <2>2, <2>3, <2>4, <2>5, <2>6, <2>7, <2>8, <2>9 DEF SessionStep
<1>8. ASSUME NEW c \in Clients, NEW s \in Sessions,
             NEW how \in {"password", "resume"}, Connect(c, s, how)
      PROVE GapInv'
  <2>1. /\ phase' = [phase EXCEPT ![s] = "joined"]
        /\ wire' = [wire EXCEPT ![s] = <<>>]
        /\ at' = [at EXCEPT ![c] = s]
        /\ UNCHANGED <<log, from, upto, excuses>>
        /\ \A d \in Clients : at[d] # s
    BY <1>8 DEF Connect
  <2>2. \A d \in Clients : d # c => cursor'[d] = cursor[d] /\ got'[d] = got[d]
    <3>1. CASE how = "resume"
      BY <1>8, <3>1 DEF Connect
    <3>2. CASE how # "resume"
      BY <1>8, <3>2 DEF Connect, TypeOK
    <3> QED
      BY <3>1, <3>2
  <2>3. cursor'[c] = 0 \/ (cursor'[c] = cursor[c] /\ got'[c] = got[c])
    <3>1. CASE how = "resume"
      BY <1>8, <3>1 DEF Connect
    <3>2. CASE how # "resume"
      BY <1>8, <3>2 DEF Connect, TypeOK
    <3> QED
      BY <3>1, <3>2
  <2>4. PassedOverOnlyIfRaced'
    <3> SUFFICES ASSUME NEW d \in Clients, NEW n \in 1..cursor'[d]
                 PROVE  n \in got'[d] \cup excused'[d] \cup raced'[d]
      BY DEF PassedOverOnlyIfRaced
    <3>1. cursor'[d] # 0
      OBVIOUS
    <3> QED
      BY <1>0, <2>1, <2>2, <2>3, <3>1 DEF PassedOverOnlyIfRaced
  <2>5. ASSUME NEW d \in Clients PROVE ClientGap(d)'
    <3>1. CASE d = c
      <4>1. at'[d] = s /\ phase'[s] = "joined" /\ wire'[s] = <<>>
        BY <2>1, <3>1 DEF TypeOK
      <4> QED
        BY <4>1 DEF ClientGap, Following
    <3>2. CASE d # c
      <4>1. /\ at'[d] = at[d] /\ at[d] # s
            /\ at[d] # NoSession => phase'[at[d]] = phase[at[d]]
                                     /\ wire'[at[d]] = wire[at[d]]
        BY <2>1, <3>2 DEF TypeOK
      <4> QED
        BY <1>0, <2>1, <2>2, <3>2, <4>1 DEF ClientGap, Known
    <3> QED
      BY <3>1, <3>2
  <2> QED
    BY <2>4, <2>5 DEF GapInv, ClientGap, Known
<1>9. ASSUME NEW c \in Clients, ReadPush(c) PROVE GapInv'
  <2>0. PICK s \in Sessions : s = at[c]
    BY <1>9 DEF ReadPush, TypeOK
  <2> DEFINE h == Head(wire[s])
  <2>1. /\ wire[s] # <<>> /\ wire[s] \in Seq(Nat \ {0})
        /\ wire' = [wire EXCEPT ![s] = Tail(wire[s])]
        /\ got' = [got EXCEPT ![c] = got[c] \cup {h}]
        /\ UNCHANGED <<log, phase, from, upto, at, excuses>>
    BY <1>9, <2>0 DEF ReadPush, TypeOK
  <2>2. /\ \A i \in 1..Len(wire[s]) : wire[s][i] > cursor[c]
        /\ \A i, j \in 1..Len(wire[s]) : i < j => wire[s][i] < wire[s][j]
        /\ s # NoSession
    BY <2>0 DEF OrderInv, InOrder
  <2>3. h = wire[s][1] /\ 1 \in 1..Len(wire[s]) /\ h \in Nat \ {0}
    BY <2>1
  <2>4. /\ cursor'[c] = h
        /\ \A d \in Clients : d # c => cursor'[d] = cursor[d] /\ got'[d] = got[d]
        /\ got'[c] = got[c] \cup {h}
    <3>1. h > cursor[c] /\ cursor[c] \in Nat
      BY <2>2, <2>3 DEF TypeOK
    <3>2. cursor' = [cursor EXCEPT ![c] = IF h > cursor[c] THEN h ELSE cursor[c]]
      BY <1>9, <2>0 DEF ReadPush
    <3> HIDE DEF h
    <3> QED
      BY <2>1, <3>1, <3>2 DEF TypeOK
  <2>5. Elems(wire[s]) = {h} \cup Elems(Tail(wire[s]))
    BY <2>1, HeadAndTail
  <2>6. wire'[s] = Tail(wire[s]) /\ \A r \in Sessions : r # s => wire'[r] = wire[r]
    BY <2>1 DEF TypeOK
  <2>7. Known(c)' = Known(c)
    BY <2>0, <2>1, <2>4, <2>5, <2>6 DEF Known
  <2>8. \A n \in 1..h : n \in Known(c)
    <3>1. CASE phase[s] \notin Following
      BY <1>0, <2>0, <2>2, <2>3, <3>1 DEF ClientGap
    <3>2. CASE phase[s] \in Following
      <4> SUFFICES ASSUME NEW n \in 1..h PROVE n \in Known(c)
        OBVIOUS
      <4>1. n \in 1..Len(log)
        BY <2>3 DEF OrderInv, TypeOK
      <4>2. n \in Known(c) \cup from[s]..upto[s]
        BY <1>0, <2>0, <2>2, <3>2, <4>1 DEF ClientGap
      <4>3. n \notin from[s]..upto[s]
        <5>1. phase[s] # "replaying" => from[s] > upto[s]
          BY <3>2 DEF OrderInv, Following
        <5>2. phase[s] = "replaying" /\ from[s] <= upto[s] => h < from[s]
          BY <2>3 DEF OrderInv
        <5>3. from[s] \in Nat /\ upto[s] \in Nat
          BY DEF TypeOK
        <5> HIDE DEF h
        <5> QED
          BY <2>3, <5>1, <5>2, <5>3
      <4> QED
        BY <4>2, <4>3
    <3> QED
      BY <3>1, <3>2
  <2>9. \A n \in 1..h : n \in Elems(wire[s]) => n = h
    <3> SUFFICES ASSUME NEW i \in 1..Len(wire[s]), wire[s][i] \in 1..h
                 PROVE  wire[s][i] = h
      <4>1. DOMAIN wire[s] = 1..Len(wire[s])
        BY <2>1
      <4> HIDE DEF h
      <4> QED
        BY <4>1 DEF Elems
    <3>1. i = 1 \/ 1 < i
      OBVIOUS
    <3>2. 1 < i => h < wire[s][i]
      BY <2>2, <2>3
    <3> QED
      BY <2>1, <2>3, <3>1, <3>2
  <2>10. PassedOverOnlyIfRaced'
    <3> SUFFICES ASSUME NEW d \in Clients, NEW n \in 1..cursor'[d]
                 PROVE  n \in got'[d] \cup excused'[d] \cup raced'[d]
      BY DEF PassedOverOnlyIfRaced
    <3>1. CASE d # c
      BY <1>0, <2>1, <2>4, <3>1 DEF PassedOverOnlyIfRaced
    <3>2. CASE d = c
      BY <2>0, <2>1, <2>4, <2>8, <2>9, <3>2 DEF Known
    <3> QED
      BY <3>1, <3>2
  <2>11. ASSUME NEW d \in Clients PROVE ClientGap(d)'
    <3>1. CASE d # c
      <4>1. at[d] = NoSession \/ (at[d] \in Sessions /\ at[d] # s)
        BY <2>0, <2>2, <3>1 DEF OrderInv, TypeOK
      <4> QED
        BY <1>0, <2>1, <2>4, <2>6, <3>1, <4>1 DEF ClientGap, Known
    <3>2. CASE d = c
      <4>1. CASE phase[s] \in Following
        BY <1>0, <2>0, <2>1, <2>7, <3>2, <4>1 DEF ClientGap
      <4>2. CASE phase[s] \notin Following
        <5>1. \A i \in 1..Len(Tail(wire[s])) :
                i + 1 \in 1..Len(wire[s]) /\ Tail(wire[s])[i] = wire[s][i + 1]
          BY <2>1, <2>2, TailInOrder
        <5>2. \A i \in 1..Len(wire[s]) : \A n \in 1..wire[s][i] : n \in Known(c)
          BY <1>0, <2>0, <2>2, <4>2 DEF ClientGap
        <5> QED
          BY <2>0, <2>1, <2>6, <2>7, <3>2, <4>2, <5>1, <5>2 DEF ClientGap
      <4> QED
        BY <4>1, <4>2
    <3> QED
      BY <3>1, <3>2
  <2> QED
    BY <2>10, <2>11 DEF GapInv, ClientGap, Known
<1>10. ASSUME NEW c \in Clients, Drop(c) PROVE GapInv'
  <2>1. ASSUME NEW d \in Clients PROVE ClientGap(d)'
    <3>1. CASE d = c
      BY <1>10, <3>1 DEF Drop, ClientGap, TypeOK
    <3>2. CASE d # c
      <4>1. /\ at'[d] = at[d]
            /\ at[d] # NoSession => wire'[at[d]] = wire[at[d]]
        BY <1>10, <3>2 DEF Drop, OrderInv, TypeOK
      <4> QED
        BY <1>0, <1>10, <3>2, <4>1 DEF Drop, ClientGap, Known
    <3> QED
      BY <3>1, <3>2
  <2> QED
    BY <1>2, <1>10, <2>1 DEF Drop
<1>11. ASSUME NEW c \in Clients, NEW d \in Dms, MarkRead(c, d) PROVE GapInv'
  BY <1>1, <1>11 DEF MarkRead, sessionVars
<1>12. CASE UNCHANGED vars
  BY <1>1, <1>12 DEF vars, sessionVars
<1> QED
  BY <1>3, <1>4, <1>5, <1>6, <1>7, <1>8, <1>9, <1>10, <1>11, <1>12 DEF Next

-----------------------------------------------------------------------------
\* Types and the inductive invariant hold together in every reachable state.
THEOREM Inductive == Spec => [](TypeOK /\ IInv)
<1>1. Init => IInv
  <2> SUFFICES ASSUME Init PROVE IInv
    OBVIOUS
  <2>1. OrderInv
    BY SessionsAssumption DEF Init, OrderInv, InOrder
  <2>2. GapInv
    BY DEF Init, GapInv, PassedOverOnlyIfRaced
  <2>3. MailInv
    BY DEF Init, MailInv, MailReaches
  <2> QED
    BY <2>1, <2>2, <2>3 DEF IInv
<1>2. TypeOK /\ TypeOK' /\ IInv /\ [Next]_vars => IInv'
  BY OrderStep, GapStep, MailStep DEF IInv
<1> QED
  BY <1>1, <1>2, TypeCorrect, PTL DEF Spec

\* Every client of every account reads its pushes in order and none twice.
THEOREM ReadsInOrder == Spec => []InOrder
<1>1. IInv => InOrder
  BY DEF IInv, OrderInv
<1> QED
  BY <1>1, Inductive, PTL

\* No cursor ever passes over a push that a resume owes its client, but for one
\* that was published before it and stamped after its snapshot.
THEOREM ResumeIsComplete == Spec => []PassedOverOnlyIfRaced
<1>1. IInv => PassedOverOnlyIfRaced
  BY DEF IInv, GapInv
<1> QED
  BY <1>1, Inductive, PTL

\* Stored mail reaches every live session that did not lag or cap it.
THEOREM MailIsDelivered == Spec => []MailReaches
<1>1. IInv => MailReaches
  BY DEF IInv, MailInv
<1> QED
  BY <1>1, Inductive, PTL

-----------------------------------------------------------------------------
(* Broadcasts. *)

\* CastsReach in every phase: what a session that has not lagged is owed waits
\* in its queue from the moment it subscribes.
CastInv == \A s \in Sessions : ~partial[s] => Owed(s) \subseteq Elems(rx[s])

\* A step that leaves the queues alone and owes nobody more keeps CastInv.
LEMMA CastOutside ==
  ASSUME CastInv, rx' = rx,
         \A s \in Sessions : (partial[s] => partial'[s]) /\ Owed(s)' \subseteq Owed(s)
  PROVE  CastInv'
BY DEF CastInv, Elems

\* Every step keeps what sessions are owed in their queues.
LEMMA CastStep ==
  ASSUME TypeOK, CastInv, [Next]_vars PROVE CastInv'
<1> USE EventsAssumption, CapacityAssumption DEF Owed
<1>0. /\ rx \in [Sessions -> Seq(Events)] /\ partial \in [Sessions -> BOOLEAN]
      /\ heard \in [Sessions -> SUBSET Casts] /\ told \in [Sessions -> SUBSET Events]
  BY DEF TypeOK
<1>1. ASSUME UNCHANGED sessionVars PROVE CastInv'
  BY <1>1, CastOutside DEF sessionVars
<1>2. ASSUME NEW s \in Sessions, NEW x, Told(s, x), rx' = rx, partial' = partial PROVE CastInv'
  BY <1>0, <1>2, CastOutside DEF Told
<1>3. ASSUME NEW e \in Events, Publish(e) PROVE CastInv'
  <2> SUFFICES ASSUME NEW s \in Sessions, ~partial'[s]
               PROVE  Owed(s)' \subseteq Elems(rx'[s])
    BY DEF CastInv, Elems
  <2>1. ~partial[s] /\ Owed(s) \subseteq Elems(rx[s])
    BY <1>0, <1>3 DEF Publish, CastInv
  <2>2. CASE s \in Subscribed
    <3>1. rx'[s] = Offer(rx[s], e) /\ rx[s] \in Seq(Events) /\ ~(Len(rx[s]) >= BUS_CAPACITY)
      BY <1>0, <1>3, <2>2 DEF Publish
    <3>2. Len(rx[s]) < BUS_CAPACITY
      BY <3>1
    <3>3. Elems(rx'[s]) = Elems(rx[s]) \cup {e}
      BY <3>1, <3>2, OfferKeeps
    <3>4. Owed(s)' \subseteq Owed(s) \cup {e}
      BY <1>0, <1>3 DEF Publish
    <3> QED
      BY <2>1, <3>3, <3>4
  <2>3. CASE s \notin Subscribed
    BY <1>0, <1>3, <2>1, <2>3 DEF Publish, Subscribed
  <2> QED
    BY <2>2, <2>3
<1>4. ASSUME NEW s \in Sessions, SessionStep(s) PROVE CastInv'
  <2>1. CASE Subscribe(s)
    BY <2>1, CastOutside DEF Subscribe
  <2>2. CASE SinceCursor(s)
    BY <2>2, CastOutside DEF SinceCursor
  <2>3. CASE ReplayOne(s)
    BY <2>3, <1>2 DEF ReplayOne
  <2>4. CASE SendWelcome(s)
    BY <2>4, <1>2 DEF SendWelcome, Push
  <2>5. CASE ReadMail(s)
    <3>1. \A r \in Sessions : partial[r] => partial'[r]
      BY <1>0, <2>5 DEF ReadMail
    <3> QED
      BY <2>5, <3>1, CastOutside DEF ReadMail
  <2>6. CASE MailOne(s)
    BY <2>6, <1>2 DEF MailOne, Push
  <2>7. CASE TakeEvent(s)
    <3>1. Elems(rx[s]) = {Head(rx[s])} \cup Elems(Tail(rx[s]))
      BY <1>0, <2>7, HeadAndTail DEF TakeEvent
    <3>2. /\ rx' = [rx EXCEPT ![s] = Tail(@)] /\ partial' = partial
          /\ heard' = heard /\ told' = [told EXCEPT ![s] = @ \cup ({Head(rx[s])} \cap Events)]
      BY <2>7 DEF TakeEvent, Push, Told
    <3> SUFFICES ASSUME NEW r \in Sessions, ~partial[r]
                 PROVE  Owed(r)' \subseteq Elems(rx'[r])
      BY <3>2 DEF CastInv, Elems
    <3>3. Owed(r) \subseteq Elems(rx[r])
      BY DEF CastInv
    <3>4. CASE r = s
      BY <1>0, <3>1, <3>2, <3>3, <3>4 DEF Events
    <3>5. CASE r # s
      BY <1>0, <3>2, <3>3, <3>5
    <3> QED
      BY <3>4, <3>5
  <2>8. CASE Break(s)
    BY <2>8, CastOutside DEF Break
  <2>9. CASE Leave(s)
    <3>1. /\ \A r \in Sessions : r # s => rx'[r] = rx[r] /\ Owed(r)' = Owed(r) /\ partial'[r] = partial[r]
          /\ Owed(s)' = {}
      BY <1>0, <2>9 DEF Leave
    <3> QED
      BY <3>1 DEF CastInv, Elems
  <2> QED
    BY <1>4, <2>1, <2>2, <2>3, <2>4, <2>5, <2>6, <2>7, <2>8, <2>9 DEF SessionStep
<1>5. ASSUME NEW d \in Dms, InsertDm(d) PROVE CastInv'
  BY <1>1, <1>5 DEF InsertDm
<1>6. CASE RecorderLooks
  BY <1>1, <1>6 DEF RecorderLooks
<1>7. CASE RecorderStamps
  BY <1>1, <1>7 DEF RecorderStamps
<1>8. ASSUME NEW c \in Clients, NEW s \in Sessions,
             NEW how \in {"password", "resume"}, Connect(c, s, how)
      PROVE CastInv'
  BY <1>8, CastOutside DEF Connect
<1>9. ASSUME NEW c \in Clients, ReadPush(c) PROVE CastInv'
  BY <1>9, CastOutside DEF ReadPush
<1>10. ASSUME NEW c \in Clients, Drop(c) PROVE CastInv'
  BY <1>10, CastOutside DEF Drop
<1>11. ASSUME NEW c \in Clients, NEW d \in Dms, MarkRead(c, d) PROVE CastInv'
  BY <1>1, <1>11 DEF MarkRead
<1>12. CASE UNCHANGED vars
  BY <1>1, <1>12 DEF vars
<1> QED
  BY <1>3, <1>4, <1>5, <1>6, <1>7, <1>8, <1>9, <1>10, <1>11, <1>12 DEF Next

\* Nothing comes between a session's subscription and its queue: the replay,
\* the Welcome and the mail go first, and no broadcast is lost meanwhile.
THEOREM CastsAreDelivered == Spec => []CastsReach
<1>1. Init => CastInv
  BY DEF Init, CastInv, Owed
<1>2. TypeOK /\ CastInv /\ [Next]_vars => CastInv'
  BY CastStep
<1>3. CastInv => CastsReach
  BY DEF CastInv, CastsReach
<1> QED
  BY <1>1, <1>2, <1>3, TypeCorrect, PTL DEF Spec
=============================================================================
