------------------------------ MODULE EventBus ------------------------------
(***************************************************************************)
(* The WebSocket push channel: EventBus of services/event_bus.py and       *)
(* ws_events of api/endpoints.py.                                          *)
(*                                                                         *)
(* publish is called by any thread and hands the event to the event loop,  *)
(* which runs what it is handed in order.  Events are numbered in that     *)
(* order, so those handed over and not yet fanned out are fanned + 1 ..    *)
(* published.  A fan-out runs on the loop without an await.                *)
(*                                                                         *)
(* A connection has one queue, filled by the fan-out and by its own        *)
(* push_health task, and one task that takes from it and sends.  What is   *)
(* not an event (a device-status snapshot in the queue; the greeting or a  *)
(* heartbeat on its way to the client) is 0.                               *)
(***************************************************************************)
EXTENDS Naturals, Sequences

CONSTANTS Client,     \* connections
          Capacity,   \* maxsize of a queue, 100 in the code
          MaxEvents   \* bound on the events

ASSUME EventBusAssumption == Capacity \in Nat \ {0} /\ MaxEvents \in Nat

VARIABLES published,  \* events handed to the loop
          fanned,     \* events fanned out
          stage,      \* stage[c]: where the task of connection c stands
          queue,      \* queue[c]: its queue, subscribed unless the stage is "off"
          hold,       \* hold[c]: what it is sending
          sent,       \* sent[c]: the last event it sent, or the last before it subscribed
          connected,  \* connected[c]: the transport has not found the client gone
          dropped     \* history: a fan-out dropped an event from the full queue of c

vars == <<published, fanned, stage, queue, hold, sent, connected, dropped>>

NotAnEvent == 0
Event == 1 .. MaxEvents
Subscribed(c) == stage[c] # "off"
EventsIn(c) == {queue[c][i] : i \in DOMAIN queue[c]} \ {NotAnEvent}

-----------------------------------------------------------------------------

Init ==
    /\ published = 0
    /\ fanned = 0
    /\ stage = [c \in Client |-> "off"]
    /\ queue = [c \in Client |-> << >>]
    /\ hold = [c \in Client |-> NotAnEvent]
    /\ sent = [c \in Client |-> 0]
    /\ connected = [c \in Client |-> FALSE]
    /\ dropped = [c \in Client |-> FALSE]

Publish ==
    /\ published < MaxEvents
    /\ published' = published + 1
    /\ UNCHANGED <<fanned, stage, queue, hold, sent, connected, dropped>>

\* A bug: a full queue keeps what it has, and the newest event is lost.
OfferKeepsOldest(q, n) == IF Len(q) < Capacity THEN Append(q, n) ELSE q

\* A bug: the newest event is put in front.
OfferInFront(q, n) == IF Len(q) < Capacity THEN <<n>> \o q ELSE <<n>> \o Tail(q)

\* put_nowait; a full queue first drops its oldest item.
Offer(q, n) == IF Len(q) < Capacity THEN Append(q, n) ELSE Append(Tail(q), n)

\* An item of q that Offer would drop is an event.
DropsEvent(q) == Len(q) >= Capacity /\ Head(q) # NotAnEvent

\* _fan_out of the next event, to every subscriber.
FanOut ==
    /\ fanned < published
    /\ fanned' = fanned + 1
    /\ queue' = [c \in Client |->
                    IF Subscribed(c) THEN Offer(queue[c], fanned + 1) ELSE queue[c]]
    /\ dropped' = [c \in Client |->
                      dropped[c] \/ (Subscribed(c) /\ DropsEvent(queue[c]))]
    /\ UNCHANGED <<published, stage, hold, sent, connected>>

-----------------------------------------------------------------------------

\* accept and subscribe; push_health starts and the greeting is sent.
Connect(c) ==
    /\ ~Subscribed(c)
    /\ stage' = [stage EXCEPT ![c] = "sending"]
    /\ sent' = [sent EXCEPT ![c] = fanned]
    /\ connected' = [connected EXCEPT ![c] = TRUE]
    /\ dropped' = [dropped EXCEPT ![c] = FALSE]
    /\ UNCHANGED <<published, fanned, queue, hold>>

\* push_health has a snapshot, and forgets it if the queue is full.
Snapshot(c) ==
    /\ Subscribed(c)
    /\ Len(queue[c]) < Capacity
    /\ queue' = [queue EXCEPT ![c] = Append(@, NotAnEvent)]
    /\ UNCHANGED <<published, fanned, stage, hold, sent, connected, dropped>>

\* A bug: the task waits for the next put and does not look whether an item is there.
TakeAfterWaiting(c) ==
    /\ stage[c] = "waiting"
    /\ queue[c] # << >>
    /\ hold' = [hold EXCEPT ![c] = Head(queue[c])]
    /\ queue' = [queue EXCEPT ![c] = Tail(@)]
    /\ stage' = [stage EXCEPT ![c] = "sending"]
    /\ UNCHANGED <<published, fanned, sent, connected, dropped>>

\* queue.get() returns, at once if there is an item when it is called.
Take(c) ==
    /\ stage[c] \in {"ready", "waiting"}
    /\ queue[c] # << >>
    /\ hold' = [hold EXCEPT ![c] = Head(queue[c])]
    /\ queue' = [queue EXCEPT ![c] = Tail(@)]
    /\ stage' = [stage EXCEPT ![c] = "sending"]
    /\ UNCHANGED <<published, fanned, sent, connected, dropped>>

Wait(c) ==
    /\ stage[c] = "ready"
    /\ queue[c] = << >>
    /\ stage' = [stage EXCEPT ![c] = "waiting"]
    /\ UNCHANGED <<published, fanned, queue, hold, sent, connected, dropped>>

\* A bug: the get that is cancelled has taken an item that came just before.
HeartbeatTakesItem(c) ==
    /\ stage[c] = "waiting"
    /\ stage' = [stage EXCEPT ![c] = "sending"]
    /\ queue' = [queue EXCEPT ![c] = IF @ = << >> THEN @ ELSE Tail(@)]
    /\ UNCHANGED <<published, fanned, hold, sent, connected, dropped>>

\* A bug: a client that was found gone gets no heartbeat.
HeartbeatIfConnected(c) ==
    /\ stage[c] = "waiting"
    /\ connected[c]
    /\ stage' = [stage EXCEPT ![c] = "sending"]
    /\ UNCHANGED <<published, fanned, queue, hold, sent, connected, dropped>>

\* The get times out, perhaps just when an item comes, which stays in the queue.
Heartbeat(c) ==
    /\ stage[c] = "waiting"
    /\ stage' = [stage EXCEPT ![c] = "sending"]
    /\ UNCHANGED <<published, fanned, queue, hold, sent, connected, dropped>>

Sent(c) ==
    /\ stage[c] = "sending"
    /\ connected[c]
    /\ stage' = [stage EXCEPT ![c] = "ready"]
    /\ sent' = [sent EXCEPT ![c] = IF hold[c] = NotAnEvent THEN @ ELSE hold[c]]
    /\ hold' = [hold EXCEPT ![c] = NotAnEvent]
    /\ UNCHANGED <<published, fanned, queue, connected, dropped>>

\* The send raises, and the finally clause unsubscribes the queue.
SendFails(c) ==
    /\ stage[c] = "sending"
    /\ ~connected[c]
    /\ stage' = [stage EXCEPT ![c] = "off"]
    /\ queue' = [queue EXCEPT ![c] = << >>]
    /\ hold' = [hold EXCEPT ![c] = NotAnEvent]
    /\ UNCHANGED <<published, fanned, sent, connected, dropped>>

ClientStep(c) == Take(c) \/ Wait(c) \/ Heartbeat(c) \/ Sent(c) \/ SendFails(c)

\* The client leaves or its keepalive times out.
Leave(c) ==
    /\ Subscribed(c)
    /\ connected[c]
    /\ connected' = [connected EXCEPT ![c] = FALSE]
    /\ UNCHANGED <<published, fanned, stage, queue, hold, sent, dropped>>

Next ==
    \/ Publish \/ FanOut
    \/ \E c \in Client : Connect(c) \/ Snapshot(c) \/ ClientStep(c) \/ Leave(c)

Spec == Init /\ [][Next]_vars

\* The loop runs what it is handed and every task that can run, and the timeout of a
\* get fires.  A send to a client that stops reading ends when the keepalive does.
FairSpec ==
    /\ Spec
    /\ WF_vars(FanOut)
    /\ \A c \in Client : WF_vars(ClientStep(c))

-----------------------------------------------------------------------------

TypeOK ==
    /\ published \in 0 .. MaxEvents
    /\ fanned \in 0 .. published
    /\ stage \in [Client -> {"off", "ready", "waiting", "sending"}]
    /\ queue \in [Client -> Seq(0 .. fanned)]
    /\ \A c \in Client : Len(queue[c]) <= Capacity
    /\ hold \in [Client -> 0 .. fanned]
    /\ sent \in [Client -> 0 .. fanned]
    /\ connected \in [Client -> BOOLEAN]
    /\ dropped \in [Client -> BOOLEAN]

\* A client is sent the events in the order the loop was handed them and none twice,
\* whatever was dropped in between: what it was sent is before what it is being sent,
\* and that before what is queued, which is itself in order.
EventsInOrder ==
    \A c \in Client :
        /\ hold[c] # NotAnEvent => sent[c] < hold[c]
        /\ \A n \in EventsIn(c) : sent[c] < n /\ hold[c] < n
        /\ \A i, k \in DOMAIN queue[c] :
              (i < k /\ queue[c][i] # NotAnEvent /\ queue[c][k] # NotAnEvent)
                 => queue[c][i] < queue[c][k]

\* A queue gives up its oldest events first: with an event it holds every later one that
\* was fanned out, so a slow client is behind but ends with the newest state.
NewestKept ==
    \A c \in Client : \A n \in EventsIn(c) : n .. fanned \subseteq EventsIn(c)

\* A client misses no event since it subscribed unless its own queue was full of newer
\* ones: not through another client's queue, a heartbeat, or a snapshot.
NothingLostWithRoom ==
    \A c \in Client :
        (Subscribed(c) /\ ~dropped[c])
            => EventsIn(c) \cup ({hold[c]} \ {NotAnEvent}) = sent[c] + 1 .. fanned

\* A client that stays is sent every event in its queue, or drops one there.
EventsDelivered ==
    \A c \in Client, n \in Event :
        (n \in EventsIn(c)) ~> (sent[c] >= n \/ dropped[c] \/ ~connected[c])

\* The queue of a client that is gone is unsubscribed, though no event ever comes.
GoneUnsubscribed ==
    \A c \in Client : (~connected[c]) ~> (stage[c] = "off" \/ connected[c])

=============================================================================
