------------------------------ MODULE SiteEvents ------------------------------
(***************************************************************************)
(* The event bus behind the dashboard (apps/api/internal/site/events):     *)
(* events are written to a journal and announced by NOTIFY, the listener   *)
(* of an API instance loads each one and fans it out to the hub, and a     *)
(* stream replays the journal from the browser's cursor before it goes     *)
(* live.  One tenant, one instance and one browser tab that reconnects.    *)
(* An event is its id, a number in the order ULIDs sort in.                *)
(***************************************************************************)
EXTENDS Integers, Sequences, FiniteSets

CONSTANTS
    Events,      \* a set of numbers above zero; 0 stands for no cursor
    Allowed,     \* the events of sites the principal may see
    BufferSize,  \* the capacity of a subscription's channel, 64 in the code
    ReplayLimit  \* replayLimit, 500 in the code

ASSUME BusAssumption ==
    /\ Events \subseteq Nat \ {0} /\ IsFiniteSet(Events) /\ Allowed \subseteq Events
    /\ BufferSize \in Nat \ {0} /\ ReplayLimit \in Nat \ {0}

VARIABLES
    pending,   \* events not published yet
    journal,   \* the rows of site_events
    notify,    \* announced, and not yet received by the listener
    attached,  \* the listener holds a LISTEN session
    fan,       \* the event Fanout is sending and its copied subscription
    sub,       \* the stream: off, opened (subscribed, before the replay),
               \* replaying (the rows are queried, not written yet), live
    replay,    \* the rows it queried
    buffer,    \* its channel
    lastSent,  \* lastSent of the running stream
    received,  \* what was written to the browser and not lost on the way, in order
    base,      \* how much of it came with earlier streams
    owed,      \* ghost: what was committed since the browser began to watch
    lost       \* ghost: what the code knowingly lets go

busVars == <<pending, journal, notify, attached>>
streamVars == <<sub, replay, buffer, lastSent, received, base>>
ghostVars == <<owed, lost>>
vars == <<busVars, fan, streamVars, ghostVars>>

Idle == [event |-> 0, target |-> "none"]
Elements(q) == {q[i] : i \in 1..Len(q)}
Last(q) == q[Len(q)]
\* Last-Event-ID: the id the browser reconnects with.
cursor == IF received = <<>> THEN 0 ELSE Last(received)
\* What is still on its way to the open stream.
InFlight == replay \cup Elements(buffer) \cup Elements(notify) \cup {fan.event}
\* The open stream will not read the journal again.
Unreplayed == sub \in {"replaying", "live"} \/ (sub = "opened" /\ cursor = 0)
\* Of the events S that go by, those the open stream has no other way to show.
Missed(S) == IF Unreplayed THEN S \ replay ELSE {}

Init ==
    /\ pending = Events /\ journal = {} /\ notify = <<>> /\ attached = TRUE
    /\ fan = Idle
    /\ sub = "off" /\ replay = {} /\ buffer = <<>> /\ lastSent = 0
    /\ received = <<>> /\ base = 0
    /\ owed = {} /\ lost = {}

-----------------------------------------------------------------------------
(***************************************************************************)
(* Publishing.  Ids are minted before the transaction that commits them,   *)
(* by any instance, so events commit in any order; insert and NOTIFY       *)
(* commit together.                                                        *)
(***************************************************************************)
Publish(e) ==
    /\ e \in pending /\ pending' = pending \ {e}
    /\ journal' = journal \cup {e}
    /\ notify' = IF attached THEN Append(notify, e) ELSE notify
    /\ owed' = IF e \in Allowed /\ (cursor # 0 \/ sub # "off") THEN owed \cup {e} ELSE owed
    /\ lost' = IF attached THEN lost ELSE lost \cup Missed({e})
    /\ UNCHANGED <<attached, fan, streamVars>>

PublishFails(e) ==
    /\ e \in pending /\ pending' = pending \ {e}
    /\ UNCHANGED <<journal, notify, attached, fan, streamVars, ghostVars>>

PruneOlderThan(e) ==
    /\ e \in journal /\ journal' = journal \ {e}
    /\ lost' = lost \cup {e}
    /\ UNCHANGED <<pending, notify, attached, fan, streamVars, owed>>

-----------------------------------------------------------------------------
\* A stream that breaks may have lost the end of what it wrote.
Arrived ==
    \E n \in base..Len(received) :
        received' = SubSeq(received, 1, n) /\ base' = n

(***************************************************************************)
(* Listener and hub.                                                       *)
(***************************************************************************)
ListenerDrops ==
    /\ attached /\ fan = Idle
    /\ attached' = FALSE /\ notify' = <<>>
    /\ lost' = lost \cup Missed(Elements(notify))
    /\ UNCHANGED <<pending, journal, fan, streamVars, owed>>

ListenerAttaches ==
    /\ ~attached /\ attached' = TRUE
    /\ UNCHANGED <<pending, journal, notify, fan, streamVars, ghostVars>>

SubscribedAfterReplay == sub = "live" \/ (sub = "opened" /\ cursor = 0)
\* "Subscribe BEFORE the replay": the hub knows the stream from the start.
Subscribed == sub # "off"

\* dispatch loads the row, which may be pruned; Fanout copies the
\* subscriptions under the lock.
Dispatch ==
    /\ notify # <<>> /\ fan = Idle
    /\ notify' = Tail(notify)
    /\ fan' = IF Head(notify) \in journal /\ Subscribed
              THEN [event |-> Head(notify), target |-> "open"] ELSE Idle
    /\ UNCHANGED <<pending, journal, attached, streamVars, ghostVars>>

\* The load fails for another reason: logged, and the event skipped.
DispatchFails ==
    /\ notify # <<>> /\ fan = Idle
    /\ notify' = Tail(notify)
    /\ lost' = lost \cup Missed({Head(notify)})
    /\ UNCHANGED <<pending, journal, attached, fan, streamVars, owed>>

SendBlocks ==
    /\ fan.target = "open" /\ fan' = Idle
    /\ Len(buffer) < BufferSize /\ buffer' = Append(buffer, fan.event)
    /\ UNCHANGED <<busVars, sub, replay, lastSent, received, base, ghostVars>>
SendUnbounded ==
    /\ fan.target = "open" /\ fan' = Idle
    /\ buffer' = Append(buffer, fan.event)
    /\ UNCHANGED <<busVars, sub, replay, lastSent, received, base, ghostVars>>
\* It sends after the unlock.  A full channel loses the event.
Send ==
    /\ fan.target = "open" /\ fan' = Idle
    /\ \/ Len(buffer) < BufferSize /\ buffer' = Append(buffer, fan.event) /\ UNCHANGED lost
       \/ /\ Len(buffer) >= BufferSize /\ UNCHANGED buffer
          /\ lost' = lost \cup Missed({fan.event})
    /\ UNCHANGED <<busVars, sub, replay, lastSent, received, base, owed>>

\* The send on a channel that was closed meanwhile panics, and the process
\* starts again without the listener's session and without streams.
SendOnClosed ==
    /\ fan.target = "closed" /\ fan' = Idle
    /\ attached' = FALSE /\ notify' = <<>>
    /\ sub' = "off" /\ replay' = {} /\ buffer' = <<>> /\ lastSent' = 0
    /\ Arrived
    /\ UNCHANGED <<pending, journal, ghostVars>>

-----------------------------------------------------------------------------
(***************************************************************************)
(* Handler.stream                                                          *)
(***************************************************************************)
\* What a browser without a cursor has not seen comes with the page's own
\* queries, not with the stream.
Subscribe ==
    /\ sub = "off" /\ sub' = "opened"
    /\ buffer' = <<>> /\ lastSent' = cursor
    /\ owed' = IF cursor = 0 THEN {} ELSE owed
    /\ UNCHANGED <<busVars, fan, replay, received, base, lost>>

\* ReplaySiteEvents: the first ReplayLimit rows after the cursor, in id order.
RowsAfter == {e \in journal : e > cursor}
Replayed == {e \in RowsAfter : Cardinality({d \in RowsAfter : d <= e}) <= ReplayLimit}
\* q lists S in the order of ids.
InOrder(q, S) ==
    /\ Elements(q) = S
    /\ \A i, j \in 1..Len(q) : i < j => q[i] < q[j]

Query ==
    /\ sub = "opened" /\ cursor # 0 /\ sub' = "replaying"
    /\ replay' = Replayed
    /\ lost' = lost \cup {e \in owed : e < cursor} \cup ((RowsAfter \ Replayed) \ InFlight)
    /\ UNCHANGED <<busVars, fan, buffer, lastSent, received, base, owed>>

\* Every row moves lastSent, those the principal may see are written.
Replay ==
    /\ sub = "replaying" /\ sub' = "live" /\ replay' = {}
    /\ \E shown \in [1..Cardinality(replay \cap Allowed) -> replay \cap Allowed] :
        /\ InOrder(shown, replay \cap Allowed)
        /\ received' = received \o shown
    /\ \E last \in replay \cup {cursor} :
        /\ \A e \in replay : e <= last
        /\ lastSent' = last
    /\ UNCHANGED <<busVars, fan, buffer, base, ghostVars>>

\* The replay query failed, or there is no cursor to replay from.
NoReplay ==
    /\ sub = "opened" /\ sub' = "live"
    /\ lost' = IF cursor = 0 THEN lost ELSE lost \cup (owed \ InFlight)
    /\ UNCHANGED <<busVars, fan, replay, buffer, lastSent, received, base, owed>>

AlreadySentExactly(e) == e = lastSent
\* "Skip anything the replay already delivered."
AlreadySent(e) == lastSent # 0 /\ e <= lastSent

\* One event of the live loop: skipped, not for this principal, or written.
Deliver ==
    /\ sub = "live" /\ buffer # <<>>
    /\ buffer' = Tail(buffer)
    /\ LET e == Head(buffer) IN
        IF AlreadySent(e) \/ e \notin Allowed
        THEN /\ lost' = lost \cup {e}
             /\ UNCHANGED <<lastSent, received>>
        ELSE /\ lastSent' = e /\ received' = Append(received, e)
             /\ UNCHANGED lost
    /\ UNCHANGED <<busVars, fan, sub, replay, base, owed>>

\* The browser is gone, a write fails or the lifetime is over: unsubscribe
\* closes the channel.
StreamEnds ==
    /\ sub # "off" /\ sub' = "off"
    /\ replay' = {} /\ buffer' = <<>> /\ lastSent' = 0
    /\ fan' = IF fan.target = "open" THEN [fan EXCEPT !.target = "closed"] ELSE fan
    /\ Arrived
    /\ UNCHANGED <<busVars, ghostVars>>

ListenerStep == Dispatch \/ DispatchFails \/ Send \/ SendOnClosed

Next ==
    \/ \E e \in Events : Publish(e) \/ PublishFails(e) \/ PruneOlderThan(e)
    \/ ListenerDrops \/ ListenerAttaches \/ ListenerStep
    \/ Subscribe \/ Query \/ Replay \/ NoReplay \/ Deliver \/ StreamEnds

Spec == Init /\ [][Next]_vars
FairSpec == Spec /\ WF_vars(ListenerStep)

-----------------------------------------------------------------------------
\* Every variable holds a value of its kind; a channel never exceeds its capacity.
TypeOK ==
    /\ pending \subseteq Events /\ journal \subseteq Events
    /\ notify \in Seq(Events) /\ attached \in BOOLEAN
    /\ fan \in [event : Events \cup {0}, target : {"none", "open", "closed"}]
    /\ sub \in {"off", "opened", "replaying", "live"} /\ replay \subseteq Events
    /\ buffer \in Seq(Events) /\ Len(buffer) <= BufferSize
    /\ lastSent \in Events \cup {0} /\ received \in Seq(Allowed)
    /\ base \in 0..Len(received)
    /\ owed \subseteq Allowed /\ lost \subseteq Events

\* The browser never gets an event twice or an older one after a newer one,
\* although the replay and the channel overlap and streams come and go.
InOrderOnce == \A i, j \in 1..Len(received) : i < j => received[i] < received[j]

\* Subscribing before the replay leaves no gap: a live stream with nothing in
\* flight has shown every event committed since the browser began to watch,
\* except those the code gives up (a full channel, a lost LISTEN session, an
\* event overtaken by a newer id, a failed or cut replay, a pruned row).
NoGap == sub = "live" /\ buffer = <<>> /\ notify = <<>> /\ fan = Idle =>
    owed \subseteq Elements(received) \cup lost

\* A stream that does not read never holds up the listener.
NotifyDrains == notify # <<>> ~> notify = <<>>
=============================================================================
