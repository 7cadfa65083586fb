-------------------------- MODULE SiteEventsProofs --------------------------
(***************************************************************************)
(* Proofs about SiteEvents, for any finite set of events, any capacity of  *)
(* the channel and any limit of the replay.                                *)
(***************************************************************************)
EXTENDS SiteEvents, FiniteSetTheorems, TLAPS

\* The stream's own cursor is never behind what the browser has, and an open
\* stream that has yet to replay starts where the browser is.  The rows it
\* queried come after the cursor, and are written or dropped with the stream.
CursorCovers ==
    /\ sub \in {"opened", "replaying"} => lastSent = cursor
    /\ sub = "replaying" => cursor # 0
    /\ sub # "replaying" => replay = {}
    /\ \A e \in replay : cursor < e
    /\ sub = "live" => cursor <= lastSent

\* Everything anyone holds was committed, and is in the journal or given up.
Committed ==
    owed \cup replay \cup Elements(received) \cup Elements(notify) \cup Elements(buffer)
        \cup ({fan.event} \ {0}) \subseteq journal \cup lost

\* What a stream that will not read the journal again owes is on its way.
OnItsWay == Unreplayed => owed \subseteq Elements(received) \cup lost \cup InFlight

\* Fanout holds an event exactly while it has a subscription to send it to.
FanOK == fan.target = "none" <=> fan.event = 0

\* The inductive invariant.
IInv == TypeOK /\ InOrderOnce /\ CursorCovers /\ Committed /\ OnItsWay /\ FanOK

-----------------------------------------------------------------------------
\* What the sequence operators do to the set of elements.
LEMMA AppendElements ==
    ASSUME NEW S, NEW q \in Seq(S), NEW e \in S
    PROVE  /\ Append(q, e) \in Seq(S) /\ Elements(Append(q, e)) = Elements(q) \cup {e}
           /\ Len(Append(q, e)) = Len(q) + 1 /\ Last(Append(q, e)) = e
<1>1. /\ Append(q, e) \in Seq(S) /\ Len(Append(q, e)) = Len(q) + 1
      /\ Append(q, e)[Len(q) + 1] = e /\ Len(q) \in Nat
      /\ \A i \in 1..Len(q) : Append(q, e)[i] = q[i]
  OBVIOUS
<1> QED  BY <1>1 DEF Elements, Last

LEMMA TailElements ==
    ASSUME NEW S, NEW q \in Seq(S), q # <<>>
    PROVE  /\ Tail(q) \in Seq(S) /\ Elements(q) = Elements(Tail(q)) \cup {Head(q)}
           /\ Head(q) \in S /\ Len(Tail(q)) <= Len(q)
<1>1. /\ Len(q) \in Nat \ {0} /\ Tail(q) \in Seq(S) /\ Len(Tail(q)) = Len(q) - 1
      /\ Head(q) = q[1] /\ \A i \in 1..(Len(q) - 1) : Tail(q)[i] = q[i + 1]
      /\ \A i \in 1..Len(q) : q[i] \in S
  OBVIOUS
<1>2. ASSUME NEW i \in 1..Len(q) PROVE q[i] \in Elements(Tail(q)) \cup {Head(q)}
  <2>1. CASE i = 1
    BY <1>1, <2>1
  <2>2. CASE i # 1
    <3>1. i - 1 \in 1..Len(Tail(q)) /\ Tail(q)[i - 1] = q[i]
      BY <1>1, <2>2
    <3> QED  BY <3>1 DEF Elements
  <2> QED  BY <2>1, <2>2
<1>3. Head(q) \in Elements(q) /\ Elements(Tail(q)) \subseteq Elements(q)
  BY <1>1 DEF Elements
<1> QED  BY <1>1, <1>2, <1>3 DEF Elements

LEMMA FunctionIsSeq ==
    ASSUME NEW S, NEW n \in Nat, NEW f \in [1..n -> S] PROVE f \in Seq(S)
  OBVIOUS

LEMMA InSeq ==
    ASSUME NEW S, NEW q \in Seq(S)
    PROVE  /\ Elements(q) \subseteq S /\ Len(q) \in Nat
           /\ q # <<>> => Last(q) \in Elements(q) /\ Len(q) \in 1..Len(q)
           /\ q = <<>> => Elements(q) = {}
<1>1. Len(q) \in Nat /\ \A i \in 1..Len(q) : q[i] \in S
  OBVIOUS
<1>2. q # <<>> => Len(q) # 0
  OBVIOUS
<1>3. q = <<>> => Len(q) = 0
  OBVIOUS
<1> QED  BY <1>1, <1>2, <1>3 DEF Elements, Last

\* The cursor is zero or the last, and the greatest, event received.
LEMMA CursorFacts ==
    ASSUME TypeOK, InOrderOnce
    PROVE  /\ cursor \in Events \cup {0} /\ cursor \in Nat
           /\ cursor = 0 <=> received = <<>>
           /\ cursor # 0 => cursor \in Elements(received)
           /\ \A i \in 1..Len(received) : received[i] <= cursor /\ received[i] \in Nat
<1>1. received \in Seq(Allowed) /\ Allowed \subseteq Events /\ Events \subseteq Nat \ {0}
  BY BusAssumption DEF TypeOK
<1>2. \A i \in 1..Len(received) : received[i] \in Allowed
  BY <1>1
<1>3. CASE received = <<>>
  BY <1>3 DEF cursor
<1>4. CASE received # <<>>
  <2>1. cursor = received[Len(received)] /\ Len(received) \in 1..Len(received)
    BY <1>1, <1>4, InSeq DEF cursor, Last
  <2>2. cursor \in Elements(received)
    BY <2>1 DEF Elements
  <2>3. ASSUME NEW i \in 1..Len(received) PROVE received[i] <= cursor
    <3>0. i < Len(received) \/ i = Len(received)
      BY <1>1, InSeq
    <3>1. received[i] \in Nat /\ cursor \in Nat
      BY <1>1, <1>2, <2>1
    <3>2. CASE i < Len(received)
      <4>1. received[i] < received[Len(received)]
        BY <2>1, <3>2 DEF InOrderOnce
      <4> QED  BY <2>1, <3>1, <4>1
    <3> QED  BY <2>1, <3>0, <3>1, <3>2
  <2> QED  BY <1>1, <1>2, <1>4, <2>1, <2>2, <2>3
<1> QED  BY <1>3, <1>4

-----------------------------------------------------------------------------
\* A stream that ends leaves a prefix of what it wrote.
LEMMA ArrivedFacts ==
    ASSUME TypeOK, InOrderOnce, Arrived
    PROVE  /\ received' \in Seq(Allowed) /\ base' \in 0..Len(received')
           /\ Elements(received') \subseteq Elements(received) /\ InOrderOnce'
<1>1. PICK n \in base..Len(received) : received' = SubSeq(received, 1, n) /\ base' = n
  BY DEF Arrived
<1>2. n \in Nat /\ n <= Len(received) /\ Len(received) \in Nat
  BY DEF TypeOK
<1>3. /\ received' \in Seq(Allowed) /\ Len(received') = n
      /\ \A i \in 1..n : received'[i] = received[i]
  BY <1>1, <1>2 DEF TypeOK
<1>4. \A i \in 1..n : i \in 1..Len(received)
  BY <1>2
<1>5. Elements(received') \subseteq Elements(received)
  BY <1>3, <1>4 DEF Elements
<1>6. InOrderOnce'
  BY <1>3, <1>4 DEF InOrderOnce
<1> QED  BY <1>1, <1>2, <1>3, <1>5, <1>6

\* Writing events that are newer than the cursor keeps the order.
LEMMA OneMore ==
    ASSUME TypeOK, InOrderOnce, NEW e \in Allowed, cursor < e, received' = Append(received, e)
    PROVE  InOrderOnce'
<1>1. /\ Len(received) \in Nat /\ Len(received') = Len(received) + 1
      /\ received'[Len(received) + 1] = e
      /\ \A i \in 1..Len(received) : received'[i] = received[i]
  BY DEF TypeOK
<1>2. \A i \in 1..Len(received) : received[i] < e
  <2>1. e \in Nat
    BY BusAssumption
  <2> QED  BY <2>1, CursorFacts
<1> SUFFICES ASSUME NEW i \in 1..Len(received'), NEW j \in 1..Len(received'), i < j
             PROVE  received'[i] < received'[j]
  BY DEF InOrderOnce
<1>3. i \in 1..Len(received)
  BY <1>1
<1>4. CASE j \in 1..Len(received)
  BY <1>1, <1>3, <1>4 DEF InOrderOnce
<1>5. CASE j = Len(received) + 1
  BY <1>1, <1>2, <1>3, <1>5
<1> QED  BY <1>1, <1>4, <1>5

LEMMA ManyMore ==
    ASSUME TypeOK, InOrderOnce, NEW S \in SUBSET Allowed, \A e \in S : cursor < e,
           NEW q \in Seq(S), InOrder(q, S), received' = received \o q
    PROVE  /\ received' \in Seq(Allowed) /\ InOrderOnce'
           /\ Len(received) <= Len(received')
           /\ Elements(received') = Elements(received) \cup S
           /\ cursor' \in {cursor} \cup S
<1> DEFINE m == Len(received)  n == Len(q)
<1>1. /\ m \in Nat /\ n \in Nat /\ q \in Seq(Allowed)
      /\ \A i \in 1..n : q[i] \in S
  BY DEF TypeOK
<1>2. /\ received' \in Seq(Allowed) /\ Len(received') = m + n
      /\ \A i \in 1..m : received'[i] = received[i]
      /\ \A i \in (m + 1)..(m + n) : received'[i] = q[i - m]
  BY <1>1 DEF TypeOK
<1>3. \A i \in (m + 1)..(m + n) : i - m \in 1..n
  BY <1>1
<1>4. \A i \in 1..m, e \in S : received[i] < e
  <2>1. \A e \in S : e \in Nat
    BY BusAssumption
  <2> QED  BY <2>1, CursorFacts
<1>5. \A i \in 1..(m + n) : i \in 1..m \/ i \in (m + 1)..(m + n)
  BY <1>1
<1>6. ASSUME NEW i \in 1..(m + n), NEW j \in 1..(m + n), i < j PROVE received'[i] < received'[j]
  <2>1. CASE i \in 1..m /\ j \in 1..m
    BY <1>2, <1>6, <2>1 DEF InOrderOnce
  <2>2. CASE i \in 1..m /\ j \in (m + 1)..(m + n)
    <3>1. q[j - m] \in S
      BY <1>1, <1>3, <2>2
    <3> QED  BY <1>2, <1>4, <2>2, <3>1
  <2>3. CASE i \in (m + 1)..(m + n) /\ j \in (m + 1)..(m + n)
    <3>1. i - m \in 1..n /\ j - m \in 1..n /\ i - m < j - m
      BY <1>1, <1>3, <1>6, <2>3
    <3>2. q[i - m] < q[j - m]
      BY <3>1 DEF InOrder
    <3> QED  BY <1>2, <2>3, <3>2
  <2> QED  BY <1>1, <1>5, <1>6, <2>1, <2>2, <2>3
<1>7. Elements(received') = Elements(received) \cup S
  <2>1. Elements(received') \subseteq Elements(received) \cup S
    BY <1>1, <1>2, <1>3, <1>5 DEF Elements
  <2>2. ASSUME NEW e \in S PROVE e \in Elements(received')
    <3>1. PICK k \in 1..n : q[k] = e
      BY DEF InOrder, Elements
    <3>2. m + k \in (m + 1)..(m + n) /\ m + k \in 1..(m + n) /\ (m + k) - m = k
      BY <1>1
    <3> QED  BY <1>2, <3>1, <3>2 DEF Elements
  <2>3. ASSUME NEW i \in 1..m PROVE received[i] \in Elements(received')
    <3>1. i \in 1..(m + n)
      BY <1>1
    <3> QED  BY <1>2, <3>1 DEF Elements
  <2> QED  BY <2>1, <2>2, <2>3 DEF Elements
<1>8. cursor' \in {cursor} \cup S
  <2>1. CASE n = 0
    <3>1. received' = received
      BY <1>1, <1>2, <2>1 DEF TypeOK
    <3> QED  BY <3>1 DEF cursor
  <2>2. CASE n # 0
    <3>1. m + n \in (m + 1)..(m + n) /\ (m + n) - m = n /\ n \in 1..n /\ m + n # 0
      BY <1>1, <2>2
    <3>2. received' # <<>>
      BY <1>2, <3>1
    <3> QED  BY <1>1, <1>2, <3>1, <3>2 DEF cursor, Last
  <2> QED  BY <2>1, <2>2
<1>9. InOrderOnce'
  BY <1>2, <1>6 DEF InOrderOnce
<1> QED  BY <1>1, <1>2, <1>7, <1>8, <1>9

-----------------------------------------------------------------------------
\* Publishing and pruning.
LEMMA JournalInv ==
    ASSUME IInv, NEW e \in Events, Publish(e) \/ PublishFails(e) \/ PruneOlderThan(e)
    PROVE  IInv'
<1> TypeOK /\ Allowed \subseteq Events
  BY BusAssumption DEF IInv
<1>1. UNCHANGED <<fan, streamVars>> /\ cursor' = cursor
  BY DEF Publish, PublishFails, PruneOlderThan, streamVars, cursor
<1>2. InOrderOnce' /\ CursorCovers' /\ FanOK'
  BY <1>1 DEF IInv, InOrderOnce, CursorCovers, FanOK, streamVars
<1>3. CASE Publish(e)
  <2>1. notify' \in Seq(Events) /\ Elements(notify') \in {Elements(notify), Elements(notify) \cup {e}}
        /\ (attached => e \in Elements(notify')) /\ Elements(notify) \subseteq Elements(notify')
    BY <1>3, AppendElements DEF Publish, TypeOK
  <2>2. /\ pending' \subseteq Events /\ journal' = journal \cup {e} /\ attached' = attached
        /\ owed' \subseteq owed \cup {e} /\ owed' \subseteq Allowed
        /\ lost \subseteq lost' /\ lost' \subseteq Events
        /\ ~attached /\ Unreplayed => e \in lost' \cup replay
    BY <1>3 DEF Publish, TypeOK, Missed
  <2>3. TypeOK'
    BY <1>1, <2>1, <2>2 DEF TypeOK, streamVars
  <2>4. Committed'
    BY <1>1, <2>1, <2>2 DEF IInv, Committed, streamVars
  <2>5. OnItsWay'
    <3> SUFFICES ASSUME Unreplayed PROVE owed' \subseteq Elements(received) \cup lost' \cup InFlight'
      BY <1>1 DEF OnItsWay, Unreplayed, streamVars
    <3> QED  BY <1>1, <2>1, <2>2 DEF IInv, OnItsWay, InFlight, streamVars
  <2> QED  BY <1>2, <2>3, <2>4, <2>5 DEF IInv
<1>4. CASE PublishFails(e) \/ PruneOlderThan(e)
  <2>1. /\ pending' \subseteq Events /\ journal' \subseteq Events /\ journal \subseteq journal' \cup lost'
        /\ lost \subseteq lost' /\ lost' \subseteq Events /\ UNCHANGED <<notify, attached, owed>>
    BY <1>4 DEF PublishFails, PruneOlderThan, TypeOK, ghostVars
  <2>2. TypeOK'
    BY <1>1, <2>1 DEF TypeOK, streamVars
  <2>3. Committed' /\ OnItsWay'
    BY <1>1, <2>1 DEF IInv, Committed, OnItsWay, Unreplayed, InFlight, streamVars
  <2> QED  BY <1>2, <2>2, <2>3 DEF IInv
<1> QED  BY <1>3, <1>4

\* The listener's session and its notifications.
LEMMA ListenerInv ==
    ASSUME IInv, ListenerDrops \/ ListenerAttaches \/ Dispatch \/ DispatchFails
    PROVE  IInv'
<1> TypeOK
  BY DEF IInv
<1>1. UNCHANGED <<pending, journal, streamVars, owed>> /\ cursor' = cursor
  BY DEF ListenerDrops, ListenerAttaches, Dispatch, DispatchFails, streamVars, ghostVars, cursor
<1>2. InOrderOnce' /\ CursorCovers'
  BY <1>1 DEF IInv, InOrderOnce, CursorCovers, streamVars
<1>3. CASE ListenerDrops \/ ListenerAttaches
  <2>1. Elements(<<>>) = {} /\ <<>> \in Seq(Events)
    BY DEF Elements
  <2>2. /\ notify' \in Seq(Events) /\ attached' \in BOOLEAN /\ fan' = fan
        /\ lost \subseteq lost' /\ lost' \subseteq Events
        /\ Elements(notify') \subseteq Elements(notify)
        /\ Unreplayed => Elements(notify) \subseteq Elements(notify') \cup lost' \cup replay
    BY <1>3, <2>1, InSeq DEF ListenerDrops, ListenerAttaches, TypeOK, ghostVars, Missed
  <2>3. TypeOK' /\ FanOK'
    BY <1>1, <2>2 DEF IInv, TypeOK, FanOK, streamVars
  <2>4. Committed' /\ OnItsWay'
    BY <1>1, <2>2 DEF IInv, Committed, OnItsWay, Unreplayed, InFlight, streamVars
  <2> QED  BY <1>2, <2>3, <2>4 DEF IInv
<1>4. CASE Dispatch \/ DispatchFails
  <2>1. notify # <<>> /\ notify' = Tail(notify) /\ fan = Idle /\ attached' = attached
    BY <1>4 DEF Dispatch, DispatchFails
  <2> DEFINE e == Head(notify)
  <2>2. notify' \in Seq(Events) /\ e \in Events /\ Elements(notify) = Elements(notify') \cup {e}
    BY <2>1, TailElements DEF TypeOK
  <2>3. e # 0 /\ fan.event = 0
    BY <2>1, <2>2, BusAssumption DEF Idle
  <2>4. e \in journal \cup lost
    BY <2>2 DEF IInv, Committed
  <2>5. /\ lost \subseteq lost' /\ lost' \subseteq Events
        /\ fan' \in {Idle, [event |-> e, target |-> "open"]}
        /\ Unreplayed => e \in lost' \cup replay \/ fan'.event = e
    <3>1. CASE Dispatch
      <4>1. CASE e \in journal /\ Subscribed
        BY <3>1, <4>1 DEF Dispatch, ghostVars, TypeOK
      <4>2. CASE ~(e \in journal /\ Subscribed)
        BY <2>4, <3>1, <4>2 DEF Dispatch, ghostVars, TypeOK, Unreplayed, Subscribed
      <4> QED  BY <4>1, <4>2
    <3>2. CASE DispatchFails
      BY <2>1, <2>2, <3>2 DEF DispatchFails, TypeOK, Missed
    <3> QED  BY <1>4, <3>1, <3>2
  <2> HIDE DEF e
  <2>6. fan'.event \in {0, e} /\ FanOK' /\ fan' \in [event : Events \cup {0}, target : {"none", "open", "closed"}]
    BY <2>2, <2>3, <2>5 DEF FanOK, Idle
  <2>7. TypeOK'
    BY <1>1, <2>1, <2>2, <2>5, <2>6 DEF TypeOK, streamVars
  <2>8. Committed'
    BY <1>1, <2>2, <2>4, <2>5, <2>6 DEF IInv, Committed, streamVars
  <2>9. OnItsWay'
    <3> SUFFICES ASSUME Unreplayed PROVE owed \subseteq Elements(received) \cup lost' \cup InFlight'
      BY <1>1 DEF OnItsWay, Unreplayed, streamVars
    <3>1. owed \subseteq Elements(received) \cup lost \cup replay \cup Elements(buffer) \cup Elements(notify) \cup {0}
      BY <2>3 DEF IInv, OnItsWay, InFlight
    <3>2. 0 \notin owed
      BY BusAssumption DEF TypeOK
    <3> QED  BY <1>1, <2>2, <2>5, <3>1, <3>2 DEF InFlight, streamVars
  <2> QED  BY <1>2, <2>6, <2>7, <2>8, <2>9 DEF IInv
<1> QED  BY <1>3, <1>4

\* The hub's send, to a channel with room or to a full one.
LEMMA SendInv == ASSUME IInv, Send PROVE IInv'
<1> TypeOK
  BY DEF IInv
<1>1. /\ UNCHANGED <<busVars, sub, replay, lastSent, received, base, owed>> /\ cursor' = cursor
      /\ fan.target = "open" /\ fan' = Idle
  BY DEF Send, cursor
<1>2. InOrderOnce' /\ CursorCovers' /\ FanOK'
  BY <1>1 DEF IInv, InOrderOnce, CursorCovers, FanOK, Idle
<1>3. fan.event \in Events
  BY <1>1 DEF IInv, FanOK, TypeOK
<1>4. /\ buffer' \in Seq(Events) /\ Len(buffer') <= BufferSize
      /\ Elements(buffer') \subseteq Elements(buffer) \cup {fan.event}
      /\ Elements(buffer) \subseteq Elements(buffer')
      /\ lost \subseteq lost' /\ lost' \subseteq Events
      /\ Unreplayed => fan.event \in Elements(buffer') \cup lost' \cup replay
  <2>1. CASE Len(buffer) < BufferSize /\ buffer' = Append(buffer, fan.event) /\ UNCHANGED lost
    <3>1. Len(buffer) \in Nat /\ Len(buffer) + 1 <= BufferSize
      BY <2>1, BusAssumption DEF TypeOK
    <3> QED  BY <1>3, <2>1, <3>1, AppendElements DEF TypeOK
  <2>2. CASE /\ Len(buffer) >= BufferSize /\ UNCHANGED buffer
             /\ lost' = lost \cup Missed({fan.event})
    BY <1>3, <2>2 DEF TypeOK, Missed
  <2> QED  BY <2>1, <2>2 DEF Send
<1>5. fan'.event = 0 /\ fan' \in [event : Events \cup {0}, target : {"none", "open", "closed"}]
  BY <1>1 DEF Idle
<1>6. TypeOK'
  BY <1>1, <1>4, <1>5 DEF TypeOK, busVars
<1>7. Committed'
  <2>1. fan.event \in journal \cup lost
    BY <1>3, BusAssumption DEF IInv, Committed
  <2> QED  BY <1>1, <1>4, <1>5, <2>1 DEF IInv, Committed, busVars
<1>8. OnItsWay'
  <2> SUFFICES ASSUME Unreplayed PROVE owed \subseteq Elements(received) \cup lost' \cup InFlight'
    BY <1>1 DEF OnItsWay, Unreplayed
  <2> QED  BY <1>1, <1>4 DEF IInv, OnItsWay, InFlight, busVars
<1> QED  BY <1>2, <1>6, <1>7, <1>8 DEF IInv

\* A stream ends, by itself or with the process.
LEMMA EndInv == ASSUME IInv, StreamEnds \/ SendOnClosed PROVE IInv'
<1> TypeOK /\ InOrderOnce
  BY DEF IInv
<1>1. /\ received' \in Seq(Allowed) /\ base' \in 0..Len(received')
      /\ Elements(received') \subseteq Elements(received) /\ InOrderOnce'
  BY ArrivedFacts DEF StreamEnds, SendOnClosed
<1>2. /\ UNCHANGED <<pending, journal, owed, lost>>
      /\ sub' = "off" /\ replay' = {} /\ buffer' = <<>> /\ lastSent' = 0
      /\ fan'.event \in {0, fan.event} /\ FanOK'
      /\ fan' \in [event : Events \cup {0}, target : {"none", "open", "closed"}]
      /\ attached' \in BOOLEAN /\ notify' \in {notify, <<>>}
  <2>1. CASE StreamEnds
    BY <2>1 DEF StreamEnds, busVars, ghostVars, TypeOK, IInv, FanOK
  <2>2. CASE SendOnClosed
    BY <2>2 DEF SendOnClosed, ghostVars, TypeOK, FanOK, Idle
  <2> QED  BY <2>1, <2>2
<1>3. Elements(<<>>) = {} /\ <<>> \in Seq(Events) /\ Len(<<>>) = 0
  BY DEF Elements
<1>4. notify' \in Seq(Events) /\ Elements(notify') \subseteq Elements(notify)
  BY <1>2, <1>3 DEF TypeOK
<1>5. TypeOK'
  <2>1. Len(buffer') <= BufferSize
    BY <1>2, <1>3, BusAssumption
  <2> QED  BY <1>1, <1>2, <1>3, <1>4, <2>1 DEF TypeOK
<1>6. Committed'
  BY <1>1, <1>2, <1>3, <1>4 DEF IInv, Committed
<1>7. CursorCovers' /\ OnItsWay'
  BY <1>2 DEF CursorCovers, OnItsWay, Unreplayed
<1> QED  BY <1>1, <1>2, <1>5, <1>6, <1>7 DEF IInv

\* A stream opens, and goes live without a replay.
LEMMA OpenInv == ASSUME IInv, Subscribe \/ NoReplay PROVE IInv'
<1> TypeOK /\ InOrderOnce
  BY DEF IInv
<1>1. UNCHANGED <<busVars, fan, replay, received, base>> /\ cursor' = cursor
  BY DEF Subscribe, NoReplay, cursor
<1>2. InOrderOnce' /\ FanOK'
  BY <1>1 DEF IInv, InOrderOnce, FanOK
<1>3. cursor \in Events \cup {0} /\ cursor \in Nat
  BY CursorFacts
<1>4. CASE Subscribe
  <2>1. /\ sub = "off" /\ sub' = "opened" /\ buffer' = <<>> /\ lastSent' = cursor /\ lost' = lost
        /\ owed' \subseteq owed /\ (cursor = 0 => owed' = {})
    BY <1>4 DEF Subscribe
  <2>2. Elements(<<>>) = {} /\ <<>> \in Seq(Events) /\ Len(<<>>) = 0
    BY DEF Elements
  <2>3. Len(buffer') <= BufferSize
    BY <2>1, <2>2, BusAssumption
  <2>4. TypeOK'
    BY <1>1, <1>3, <2>1, <2>2, <2>3 DEF TypeOK, busVars
  <2>5. Committed'
    BY <1>1, <2>1, <2>2 DEF IInv, Committed, busVars
  <2>6. CursorCovers' /\ OnItsWay'
    BY <1>1, <2>1 DEF IInv, CursorCovers, OnItsWay, Unreplayed
  <2> QED  BY <1>2, <2>4, <2>5, <2>6 DEF IInv
<1>5. CASE NoReplay
  <2>1. /\ sub = "opened" /\ sub' = "live" /\ UNCHANGED <<buffer, lastSent, owed>>
        /\ lost' = IF cursor = 0 THEN lost ELSE lost \cup (owed \ InFlight)
    BY <1>5 DEF NoReplay
  <2>2. lost \subseteq lost' /\ lost' \subseteq Events
    BY <2>1, BusAssumption DEF TypeOK
  <2>3. TypeOK'
    BY <1>1, <2>1, <2>2 DEF TypeOK, busVars
  <2>4. Committed'
    BY <1>1, <2>1, <2>2 DEF IInv, Committed, busVars
  <2>5. CursorCovers'
    BY <1>1, <1>3, <2>1 DEF IInv, CursorCovers
  <2>6. InFlight' = InFlight
    BY <1>1, <2>1 DEF InFlight, busVars
  <2>7. OnItsWay'
    BY <1>1, <2>1, <2>2, <2>6 DEF IInv, OnItsWay, Unreplayed
  <2> QED  BY <1>2, <2>3, <2>4, <2>5, <2>7 DEF IInv
<1> QED  BY <1>4, <1>5

\* The query takes the rows after the cursor, up to the limit.
LEMMA QueryInv == ASSUME IInv, Query PROVE IInv'
<1> TypeOK /\ InOrderOnce
  BY DEF IInv
<1>1. /\ sub = "opened" /\ cursor # 0 /\ sub' = "replaying" /\ replay' = Replayed
      /\ UNCHANGED <<busVars, fan, buffer, lastSent, received, base, owed>> /\ cursor' = cursor
      /\ lost' = lost \cup {e \in owed : e < cursor} \cup ((RowsAfter \ Replayed) \ InFlight)
  BY DEF Query, cursor
<1>2. /\ Replayed \subseteq journal /\ \A e \in Replayed : cursor < e
      /\ RowsAfter = {e \in journal : e > cursor} /\ Replayed \subseteq RowsAfter
  BY DEF Replayed, RowsAfter
<1>3. cursor \in Events /\ cursor \in Elements(received) /\ journal \subseteq Events
  BY <1>1, CursorFacts DEF TypeOK
<1>4. lost' \subseteq Events /\ lost \subseteq lost' /\ replay' \subseteq Events /\ replay = {}
  BY <1>1, <1>2, <1>3, BusAssumption DEF TypeOK, IInv, CursorCovers
<1>5. TypeOK'
  BY <1>1, <1>4 DEF TypeOK, busVars
<1>6. InOrderOnce' /\ CursorCovers' /\ FanOK'
  BY <1>1, <1>2 DEF IInv, InOrderOnce, CursorCovers, FanOK
<1>7. Committed'
  BY <1>1, <1>2, <1>4 DEF IInv, Committed, busVars
<1>8. OnItsWay'
  <2> SUFFICES ASSUME NEW e \in owed PROVE e \in Elements(received) \cup lost' \cup InFlight'
    BY <1>1 DEF OnItsWay
  <2>1. e \in Allowed /\ e \in Nat /\ cursor \in Nat /\ e \in journal \cup lost
    BY <1>3, BusAssumption DEF TypeOK, IInv, Committed
  <2>2. InFlight' = InFlight \cup Replayed
    BY <1>1, <1>4 DEF InFlight, busVars
  <2>3. CASE e < cursor
    BY <1>1, <2>3
  <2>4. CASE e = cursor
    BY <1>3, <2>4
  <2>5. CASE e > cursor /\ e \in journal
    BY <1>1, <1>2, <2>2, <2>5
  <2>6. CASE e \in lost
    BY <1>4, <2>6
  <2> QED  BY <2>1, <2>3, <2>4, <2>5, <2>6
<1> QED  BY <1>5, <1>6, <1>7, <1>8 DEF IInv

\* The replay writes what the query took, and the stream goes live.
LEMMA ReplayInv == ASSUME IInv, Replay PROVE IInv'
<1> TypeOK /\ InOrderOnce
  BY DEF IInv
<1> DEFINE S == replay \cap Allowed
<1>1. /\ sub = "replaying" /\ sub' = "live" /\ replay' = {}
      /\ UNCHANGED <<busVars, fan, buffer, base, owed, lost>>
  BY DEF Replay, ghostVars
<1>2. PICK shown \in [1..Cardinality(S) -> S] : InOrder(shown, S) /\ received' = received \o shown
  BY DEF Replay
<1>3. PICK last \in replay \cup {cursor} : (\A e \in replay : e <= last) /\ lastSent' = last
  BY DEF Replay
<1>4. cursor # 0 /\ \A e \in replay : cursor < e
  BY <1>1 DEF IInv, CursorCovers
<1>5. shown \in Seq(S)
  <2>1. IsFiniteSet(S)
    <3>1. S \subseteq Events
      BY BusAssumption
    <3> QED  BY <3>1, BusAssumption, FS_Subset
  <2>2. Cardinality(S) \in Nat
    BY <2>1, FS_CardinalityType
  <2> HIDE DEF S
  <2> QED  BY <2>2, FunctionIsSeq
<1> HIDE DEF S
<1>6. S \subseteq Allowed /\ S \subseteq replay /\ \A e \in S : cursor < e
  BY <1>4 DEF S
<1>7. /\ received' \in Seq(Allowed) /\ InOrderOnce'
      /\ Len(received) <= Len(received')
      /\ Elements(received') = Elements(received) \cup S
      /\ cursor' \in {cursor} \cup S
  BY <1>2, <1>5, <1>6, ManyMore
<1>8. cursor \in Nat /\ cursor \in Events /\ replay \subseteq Events
  BY <1>4, CursorFacts DEF TypeOK
<1>9. lastSent' \in Events
  BY <1>3, <1>8
<1>10. base' \in 0..Len(received')
  <2>1. base \in Nat /\ base <= Len(received) /\ Len(received) \in Nat /\ Len(received') \in Nat
    BY <1>7 DEF TypeOK
  <2> QED  BY <1>1, <1>7, <2>1
<1>11. TypeOK'
  BY <1>1, <1>7, <1>9, <1>10 DEF TypeOK, busVars
<1>12. CursorCovers'
  <2>1. cursor' <= lastSent'
    <3>1. cursor' \in replay \cup {cursor}
      BY <1>6, <1>7
    <3>2. last \in Nat /\ cursor <= last
      BY <1>3, <1>4, <1>8, BusAssumption
    <3> QED  BY <1>3, <3>1, <3>2
  <2> QED  BY <1>1, <2>1 DEF CursorCovers
<1>13. Committed' /\ FanOK'
  BY <1>1, <1>6, <1>7 DEF IInv, Committed, FanOK, busVars
<1>14. OnItsWay'
  <2>1. owed \subseteq Elements(received) \cup lost \cup InFlight
    BY <1>1 DEF IInv, OnItsWay, Unreplayed
  <2>2. InFlight \subseteq InFlight' \cup replay
    BY <1>1 DEF InFlight, busVars
  <2>3. owed \cap replay \subseteq S
    BY DEF S, TypeOK
  <2> QED  BY <1>1, <1>7, <2>1, <2>2, <2>3 DEF OnItsWay
<1> QED  BY <1>7, <1>11, <1>12, <1>13, <1>14 DEF IInv

\* One event of the live loop.
LEMMA DeliverInv == ASSUME IInv, Deliver PROVE IInv'
<1> TypeOK /\ InOrderOnce
  BY DEF IInv
<1> DEFINE e == Head(buffer)
<1>1. /\ sub = "live" /\ buffer # <<>> /\ buffer' = Tail(buffer)
      /\ UNCHANGED <<busVars, fan, sub, replay, base, owed>>
  BY DEF Deliver
<1>2. /\ buffer' \in Seq(Events) /\ e \in Events /\ Len(buffer') <= Len(buffer)
      /\ Elements(buffer) = Elements(buffer') \cup {e}
  BY <1>1, TailElements DEF TypeOK
<1>3. Len(buffer') <= BufferSize
  <2>1. Len(buffer) \in Nat /\ Len(buffer') \in Nat /\ BufferSize \in Nat /\ Len(buffer) <= BufferSize
    BY <1>2, BusAssumption DEF TypeOK
  <2> QED  BY <1>2, <2>1
<1>4. e \in journal \cup lost
  BY <1>2 DEF IInv, Committed
<1>5. CASE AlreadySent(e) \/ e \notin Allowed
  <2>1. lost' = lost \cup {e} /\ UNCHANGED <<lastSent, received>> /\ cursor' = cursor
    BY <1>5 DEF Deliver, cursor
  <2>2. TypeOK'
    BY <1>1, <1>2, <1>3, <2>1 DEF TypeOK, busVars
  <2>3. InOrderOnce' /\ CursorCovers' /\ FanOK'
    BY <1>1, <2>1 DEF IInv, InOrderOnce, CursorCovers, FanOK
  <2>4. Committed' /\ OnItsWay'
    BY <1>1, <1>2, <2>1 DEF IInv, Committed, OnItsWay, Unreplayed, InFlight, busVars
  <2> QED  BY <2>2, <2>3, <2>4 DEF IInv
<1>6. CASE ~(AlreadySent(e) \/ e \notin Allowed)
  <2>1. lastSent' = e /\ received' = Append(received, e) /\ lost' = lost /\ e \in Allowed
    BY <1>6 DEF Deliver
  <2>2. cursor < e
    <3>1. cursor \in Nat /\ cursor <= lastSent
      BY <1>1, CursorFacts DEF IInv, CursorCovers
    <3>2. lastSent \in Nat
      BY BusAssumption DEF TypeOK
    <3>3. e \in Nat /\ e # 0
      BY <1>2, BusAssumption
    <3>4. ~AlreadySent(e)
      BY <1>6
    <3> HIDE DEF e
    <3> QED  BY <3>1, <3>2, <3>3, <3>4 DEF AlreadySent
  <2>3. InOrderOnce'
    BY <2>1, <2>2, OneMore
  <2>4. /\ received' \in Seq(Allowed) /\ Elements(received') = Elements(received) \cup {e}
        /\ Len(received') = Len(received) + 1 /\ Last(received') = e /\ Len(received) \in Nat
    BY <2>1, AppendElements DEF TypeOK
  <2>5. base' \in 0..Len(received')
    BY <1>1, <2>4 DEF TypeOK
  <2>6. TypeOK'
    BY <1>1, <1>2, <1>3, <2>1, <2>4, <2>5 DEF TypeOK, busVars
  <2>7. CursorCovers'
    <3>1. e \in Nat
      BY <1>2, BusAssumption
    <3>2. received' # <<>>
      BY <2>4
    <3>3. cursor' = e
      BY <2>4, <3>2 DEF cursor
    <3>4. replay = {}
      BY <1>1 DEF IInv, CursorCovers
    <3> QED  BY <1>1, <2>1, <3>1, <3>3, <3>4 DEF CursorCovers
  <2>8. Committed' /\ OnItsWay' /\ FanOK'
    BY <1>1, <1>2, <1>4, <2>1, <2>4 DEF IInv, Committed, OnItsWay, Unreplayed, InFlight, FanOK, busVars
  <2> QED  BY <2>3, <2>6, <2>7, <2>8 DEF IInv
<1> QED  BY <1>5, <1>6

LEMMA InitInv == Init => IInv
<1> SUFFICES ASSUME Init PROVE IInv
  OBVIOUS
<1>1. Elements(<<>>) = {} /\ Len(<<>>) = 0 /\ <<>> \in Seq(Events) /\ <<>> \in Seq(Allowed)
  BY DEF Elements
<1>2. TypeOK
  BY <1>1, BusAssumption DEF Init, TypeOK, Idle
<1> QED  BY <1>1, <1>2 DEF Init, IInv, Idle, InOrderOnce, CursorCovers, Committed, OnItsWay, FanOK

LEMMA NextInv == ASSUME IInv, [Next]_vars PROVE IInv'
<1>1. CASE UNCHANGED vars
  BY <1>1 DEF vars, busVars, streamVars, ghostVars, IInv, TypeOK, InOrderOnce, CursorCovers,
     cursor, Committed, OnItsWay, Unreplayed, InFlight, FanOK
<1> QED  BY <1>1, JournalInv, ListenerInv, SendInv, EndInv, OpenInv, QueryInv, ReplayInv, DeliverInv
            DEF Next, ListenerStep

LEMMA Inductive == Spec => []IInv
<1>1. IInv /\ [Next]_vars => IInv'
  BY NextInv
<1> QED  BY <1>1, InitInv, PTL DEF Spec

-----------------------------------------------------------------------------
\* The journal, the channel and the stream keep values of their kinds, and the
\* channel of Hub.Subscribe never exceeds its capacity.
THEOREM TypeCorrect == Spec => []TypeOK
  BY Inductive, PTL DEF IInv

\* Handler.stream never shows an event twice or an older one after a newer
\* one, over any number of reconnects, replays and lost tails.
THEOREM StreamIsInOrder == Spec => []InOrderOnce
  BY Inductive, PTL DEF IInv

\* Subscribe before replay, then skip what was replayed: between the two no
\* event falls through, whatever the sizes of channel and replay.
THEOREM StreamHasNoGap == Spec => []NoGap
<1>1. IInv => NoGap
  <2> SUFFICES ASSUME IInv, sub = "live", buffer = <<>>, notify = <<>>, fan = Idle
               PROVE  owed \subseteq Elements(received) \cup lost
    BY DEF NoGap
  <2>1. InFlight = {0}
    BY DEF IInv, CursorCovers, InFlight, Elements, Idle
  <2>2. 0 \notin owed
    BY BusAssumption DEF IInv, TypeOK
  <2> QED  BY <2>1, <2>2 DEF IInv, OnItsWay, Unreplayed
<1> QED  BY <1>1, Inductive, PTL
=============================================================================
