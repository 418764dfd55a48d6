--------------------------- MODULE ConsoleProofs ---------------------------
(***************************************************************************)
(* Theorems about what reaches a browser: the events that the backend      *)
(* pushes, the device list that it reads from the inventory, and what the  *)
(* pages of the console show. The three models share no state.             *)
(***************************************************************************)
EXTENDS EventBus, Inventory, ConsolePages, TLAPS

-----------------------------------------------------------------------------
(***************************************************************************)
(* The event bus: events reach a client in order, a slow one keeps the     *)
(* newest, and one with room misses none, for any number of clients, any   *)
(* capacity and any number of events.                                      *)
(***************************************************************************)

\* The events in a queue, and that they are in order.
Events(q) == {q[i] : i \in DOMAIN q} \ {NotAnEvent}
Rising(q) ==
    \A i, k \in DOMAIN q :
        (i < k /\ q[i] # NotAnEvent /\ q[k] # NotAnEvent) => q[i] < q[k]

\* A queue q, the item h being sent and the last event s sent fit each other when f
\* events were fanned out.
Fits(q, h, s, f) ==
    /\ q \in Seq(0 .. f) /\ Len(q) <= Capacity
    /\ h \in 0 .. f /\ s \in 0 .. f
    /\ Rising(q)
    /\ h # NotAnEvent => s < h
    /\ \A n \in Events(q) : s < n /\ h < n
    /\ \A n \in Events(q) : n .. f \subseteq Events(q)

\* No event is missing between the last one sent and the last one fanned out.
Unbroken(q, h, s, f) == Events(q) \cup ({h} \ {NotAnEvent}) = s + 1 .. f

\* A connection that is off has nothing queued, and one that has taken an event sends it.
ConnectionFits(c) ==
    /\ Fits(queue[c], hold[c], sent[c], fanned)
    /\ ~Subscribed(c) => queue[c] = << >>
    /\ hold[c] # NotAnEvent => stage[c] = "sending"
    /\ (Subscribed(c) /\ ~dropped[c]) => Unbroken(queue[c], hold[c], sent[c], fanned)

\* The invariant is inductive: order and completeness are kept by a queue together with
\* the item that was taken from it.
BusIInv ==
    /\ TypeOK
    /\ \A c \in Client : ConnectionFits(c)

-----------------------------------------------------------------------------

\* An item put into a queue comes last.
LEMMA EventsOfAppend ==
  ASSUME NEW f \in Nat, NEW q \in Seq(0 .. f), NEW n \in Nat
  PROVE  /\ Events(Append(q, n)) = Events(q) \cup ({n} \ {NotAnEvent})
         /\ (Rising(q) /\ \A m \in Events(q) : m < n) => Rising(Append(q, n))
         /\ (Rising(q) /\ n = NotAnEvent) => Rising(Append(q, n))
<1> DEFINE a == Append(q, n)
<1>1. /\ Len(a) = Len(q) + 1 /\ DOMAIN a = 1 .. Len(q) + 1 /\ DOMAIN q = 1 .. Len(q)
      /\ a[Len(q) + 1] = n /\ \A i \in 1 .. Len(q) : a[i] = q[i]
      /\ Len(q) \in Nat
  OBVIOUS
<1> HIDE DEF a
<1>2. {a[i] : i \in DOMAIN a} = {q[i] : i \in DOMAIN q} \cup {n}
  <2>1. ASSUME NEW i \in DOMAIN a PROVE a[i] \in {q[k] : k \in DOMAIN q} \cup {n}
    <3>1. i \in 1 .. Len(q) \/ i = Len(q) + 1
      BY <1>1
    <3> QED
      BY <3>1, <1>1
  <2>2. ASSUME NEW i \in DOMAIN q PROVE q[i] \in {a[k] : k \in DOMAIN a}
    <3>1. i \in DOMAIN a /\ a[i] = q[i]
      BY <1>1
    <3> QED
      BY <3>1
  <2>3. n \in {a[k] : k \in DOMAIN a}
    <3>1. Len(q) + 1 \in DOMAIN a /\ a[Len(q) + 1] = n
      BY <1>1
    <3> QED
      BY <3>1
  <2> QED
    BY <2>1, <2>2, <2>3
<1>3. Events(a) = Events(q) \cup ({n} \ {NotAnEvent})
  BY <1>2 DEF Events
<1>4. \A i \in 1 .. Len(q) : q[i] # NotAnEvent => q[i] \in Events(q)
  BY <1>1 DEF Events
<1>5. (Rising(q) /\ (\A m \in Events(q) : m < n)) => Rising(a)
  BY <1>1, <1>4 DEF Rising
<1>6. (Rising(q) /\ n = NotAnEvent) => Rising(a)
  BY <1>1 DEF Rising
<1> QED
  BY <1>3, <1>5, <1>6 DEF a

\* The item taken from a queue in order is before the rest.
LEMMA EventsOfTail ==
  ASSUME NEW f \in Nat, NEW q \in Seq(0 .. f), q # << >>, Rising(q)
  PROVE  /\ Events(q) = Events(Tail(q)) \cup ({Head(q)} \ {NotAnEvent})
         /\ Rising(Tail(q))
         /\ Tail(q) \in Seq(0 .. f) /\ Len(Tail(q)) = Len(q) - 1 /\ Head(q) \in 0 .. f
         /\ \A m \in Events(Tail(q)) : Head(q) < m /\ m \in 1 .. f
<1> DEFINE t == Tail(q)
<1>1. /\ t \in Seq(0 .. f) /\ Len(t) = Len(q) - 1 /\ Len(q) \in Nat \ {0}
      /\ DOMAIN t = 1 .. Len(q) - 1 /\ DOMAIN q = 1 .. Len(q)
      /\ \A i \in 1 .. Len(q) - 1 : t[i] = q[i + 1]
      /\ Head(q) = q[1] /\ q[1] \in 0 .. f
      /\ \A i \in 1 .. Len(q) : q[i] \in 0 .. f
  OBVIOUS
<1> HIDE DEF t
<1>1a. ASSUME NEW i \in DOMAIN t
       PROVE  /\ i \in Nat \ {0} /\ i + 1 \in DOMAIN q /\ 1 \in DOMAIN q
              /\ t[i] = q[i + 1] /\ q[i + 1] \in 0 .. f
  <2>1. i \in 1 .. Len(q) - 1
    BY <1>1
  <2>2. i \in Nat \ {0} /\ i + 1 \in 1 .. Len(q) /\ 1 \in 1 .. Len(q)
    <3>1. Len(q) \in Nat
      BY <1>1
    <3> QED
      BY <2>1, <3>1
  <2> QED
    BY <2>1, <2>2, <1>1
<1>2. {q[i] : i \in DOMAIN q} = {t[i] : i \in DOMAIN t} \cup {Head(q)}
  <2>1. ASSUME NEW i \in DOMAIN q PROVE q[i] \in {t[k] : k \in DOMAIN t} \cup {Head(q)}
    <3>1. i \in 1 .. Len(q) /\ Len(q) \in Nat /\ DOMAIN t = 1 .. Len(q) - 1
      BY <1>1
    <3>2. CASE i = 1
      <4>1. Head(q) = q[i]
        BY <3>2, <1>1
      <4> QED
        BY <4>1
    <3>3. CASE i # 1
      <4>1. i - 1 \in DOMAIN t /\ (i - 1) + 1 = i
        <5>1. i - 1 \in 1 .. Len(q) - 1 /\ (i - 1) + 1 = i
          BY <3>1, <3>3
        <5> QED
          BY <5>1, <3>1
      <4>2. t[i - 1] = q[i]
        BY <4>1, <1>1a
      <4> QED
        BY <4>1, <4>2
    <3> QED
      BY <3>2, <3>3
  <2>2. ASSUME NEW i \in DOMAIN t PROVE t[i] \in {q[k] : k \in DOMAIN q}
    <3>1. i + 1 \in DOMAIN q /\ t[i] = q[i + 1]
      BY <1>1a
    <3> QED
      BY <3>1
  <2>3. Head(q) \in {q[k] : k \in DOMAIN q}
    <3>1. 1 \in DOMAIN q
      BY <1>1
    <3> QED
      BY <3>1, <1>1
  <2> QED
    BY <2>1, <2>2, <2>3
<1>3. Events(q) = Events(t) \cup ({Head(q)} \ {NotAnEvent})
  BY <1>2 DEF Events
<1>4. Rising(t)
  <2> SUFFICES ASSUME NEW i \in DOMAIN t, NEW k \in DOMAIN t, i < k,
                      t[i] # NotAnEvent, t[k] # NotAnEvent
               PROVE  t[i] < t[k]
    BY DEF Rising
  <2>1. /\ i + 1 \in DOMAIN q /\ k + 1 \in DOMAIN q /\ i + 1 < k + 1
        /\ t[i] = q[i + 1] /\ t[k] = q[k + 1]
    <3>1. i \in Nat /\ k \in Nat
      BY <1>1a
    <3> QED
      BY <3>1, <1>1a
  <2> QED
    BY <2>1 DEF Rising
<1>5. ASSUME NEW m \in Events(t) PROVE Head(q) < m /\ m \in 1 .. f
  <2>1. PICK i \in DOMAIN t : m = t[i] /\ m # NotAnEvent
    BY DEF Events
  <2>2. i + 1 \in DOMAIN q /\ 1 \in DOMAIN q /\ 1 < i + 1 /\ m = q[i + 1] /\ m \in 0 .. f
    <3>1. i \in Nat \ {0} /\ i + 1 \in DOMAIN q /\ 1 \in DOMAIN q /\ q[i + 1] \in 0 .. f
      BY <1>1a
    <3>2. t[i] = q[i + 1]
      BY <1>1a
    <3> QED
      BY <2>1, <3>1, <3>2
  <2>3. m \in 1 .. f
    BY <2>1, <2>2 DEF NotAnEvent
  <2>4. CASE Head(q) = NotAnEvent
    BY <2>3, <2>4 DEF NotAnEvent
  <2>5. CASE Head(q) # NotAnEvent
    <3>1. q[1] # NotAnEvent /\ q[i + 1] # NotAnEvent
      BY <2>1, <2>2, <2>5, <1>1
    <3>2. q[1] < q[i + 1]
      BY <2>2, <3>1 DEF Rising
    <3> QED
      BY SMTT(30), <2>2, <3>2, <1>1
  <2> QED
    BY <2>3, <2>4, <2>5
<1> QED
  BY <1>1, <1>3, <1>4, <1>5 DEF t

\* A new queue is empty and has missed nothing.
LEMMA EmptyFits ==
  ASSUME NEW f \in Nat, NEW s \in 0 .. f
  PROVE  Fits(<< >>, NotAnEvent, s, f) /\ Unbroken(<< >>, NotAnEvent, f, f)
<1>1. << >> \in Seq(0 .. f) /\ Len(<< >>) = 0 /\ Events(<< >>) = {} /\ Rising(<< >>)
  BY DEF Events, Rising
<1> QED
  BY <1>1, EventBusAssumption DEF Fits, Unbroken, NotAnEvent

-----------------------------------------------------------------------------

\* A fan-out keeps a queue in order and complete, unless it drops an event.
LEMMA OfferFits ==
  ASSUME NEW f \in Nat, NEW q, NEW h, NEW s, Fits(q, h, s, f)
  PROVE  /\ Fits(Offer(q, f + 1), h, s, f + 1)
         /\ (Unbroken(q, h, s, f) /\ ~DropsEvent(q)) => Unbroken(Offer(q, f + 1), h, s, f + 1)
<1> DEFINE kept == IF Len(q) < Capacity THEN q ELSE Tail(q)
<1> USE EventBusAssumption
<1>1. q \in Seq(0 .. f) /\ Rising(q) /\ h \in 0 .. f /\ s \in 0 .. f /\ Len(q) <= Capacity
  BY DEF Fits
<1>2. Offer(q, f + 1) = Append(kept, f + 1)
  BY DEF Offer
<1>3. /\ kept \in Seq(0 .. f) /\ Rising(kept) /\ Len(kept) < Capacity
      /\ Events(kept) \subseteq Events(q)
      /\ \A n \in Events(kept) : n .. f \subseteq Events(kept)
      /\ ~DropsEvent(q) => Events(kept) = Events(q)
  <2>1. CASE Len(q) < Capacity
    BY <2>1, <1>1 DEF Fits
  <2>2. CASE ~(Len(q) < Capacity)
    <3>1. q # << >> /\ Len(q) >= Capacity
      BY <2>2, <1>1
    <3>2. /\ Events(q) = Events(Tail(q)) \cup ({Head(q)} \ {NotAnEvent})
          /\ Rising(Tail(q))
          /\ Tail(q) \in Seq(0 .. f) /\ Len(Tail(q)) = Len(q) - 1 /\ Head(q) \in 0 .. f
          /\ \A m \in Events(Tail(q)) : Head(q) < m /\ m \in 1 .. f
      BY <1>1, <3>1, EventsOfTail
    <3>3. ASSUME NEW n \in Events(Tail(q)), NEW m \in n .. f PROVE m \in Events(Tail(q))
      <4>1. m \in Events(q)
        BY <3>2 DEF Fits
      <4>2. Head(q) < m
        BY <3>2
      <4> QED
        BY <4>1, <4>2, <3>2
    <3>4. ~DropsEvent(q) => Events(Tail(q)) = Events(q)
      BY <3>1, <3>2 DEF DropsEvent
    <3>5. Len(Tail(q)) < Capacity
      BY <3>2, <1>1
    <3> QED
      BY <2>2, <3>2, <3>3, <3>4, <3>5
  <2> QED
    BY <2>1, <2>2
<1> HIDE DEF kept
<1>4. \A m \in Events(kept) : m \in 1 .. f
  BY <1>3 DEF Events, NotAnEvent
<1>5. /\ Events(Append(kept, f + 1)) = Events(kept) \cup {f + 1}
      /\ Rising(Append(kept, f + 1))
  <2>1. \A m \in Events(kept) : m < f + 1
    BY <1>4
  <2> QED
    BY <2>1, <1>3, EventsOfAppend DEF NotAnEvent
<1>6. Append(kept, f + 1) \in Seq(0 .. f + 1) /\ Len(Append(kept, f + 1)) <= Capacity
  <2>1. kept \in Seq(0 .. f + 1)
    BY <1>3
  <2> QED
    BY <2>1, <1>3
<1>7. \A n \in Events(kept) \cup {f + 1} : n .. f + 1 \subseteq Events(kept) \cup {f + 1}
  <2> SUFFICES ASSUME NEW n \in Events(kept) \cup {f + 1}, NEW m \in n .. f + 1
               PROVE  m \in Events(kept) \cup {f + 1}
    OBVIOUS
  <2>1. CASE m = f + 1
    BY <2>1
  <2>2. CASE m # f + 1
    <3>1. n \in Events(kept) /\ m \in n .. f
      BY <2>2, <1>4
    <3> QED
      BY <3>1, <1>3
  <2> QED
    BY <2>1, <2>2
<1>8. \A n \in Events(kept) \cup {f + 1} : s < n /\ h < n
  BY <1>1, <1>3 DEF Fits
<1>9. Fits(Append(kept, f + 1), h, s, f + 1)
  BY SMTT(30), <1>1, <1>5, <1>6, <1>7, <1>8 DEF Fits
<1>10. (Unbroken(q, h, s, f) /\ ~DropsEvent(q)) => Unbroken(Append(kept, f + 1), h, s, f + 1)
  BY <1>1, <1>3, <1>5 DEF Unbroken
<1> QED
  BY <1>2, <1>9, <1>10

\* A snapshot changes no event.
LEMMA SnapshotFits ==
  ASSUME NEW f \in Nat, NEW q, NEW h, NEW s, Fits(q, h, s, f), Len(q) < Capacity
  PROVE  /\ Fits(Append(q, NotAnEvent), h, s, f)
         /\ Unbroken(q, h, s, f) => Unbroken(Append(q, NotAnEvent), h, s, f)
<1>1. q \in Seq(0 .. f) /\ Rising(q)
  BY DEF Fits
<1>2. Events(Append(q, NotAnEvent)) = Events(q) /\ Rising(Append(q, NotAnEvent))
  <2>1. NotAnEvent \in Nat
    BY DEF NotAnEvent
  <2>2. Events(Append(q, NotAnEvent)) = Events(q) \cup ({NotAnEvent} \ {NotAnEvent})
    BY <2>1, <1>1, EventsOfAppend
  <2>3. Rising(Append(q, NotAnEvent))
    BY <2>1, <1>1, EventsOfAppend
  <2> QED
    BY <2>2, <2>3
<1>3. Append(q, NotAnEvent) \in Seq(0 .. f) /\ Len(Append(q, NotAnEvent)) <= Capacity
  BY <1>1, EventBusAssumption DEF NotAnEvent
<1> QED
  BY <1>2, <1>3 DEF Fits, Unbroken

\* What is taken from the queue is the next thing to send.
LEMMA TakeFits ==
  ASSUME NEW f \in Nat, NEW q, NEW s, Fits(q, NotAnEvent, s, f), q # << >>
  PROVE  /\ Fits(Tail(q), Head(q), s, f)
         /\ Unbroken(q, NotAnEvent, s, f) => Unbroken(Tail(q), Head(q), s, f)
<1>1. q \in Seq(0 .. f) /\ Rising(q) /\ s \in 0 .. f /\ Len(q) <= Capacity
  BY DEF Fits
<1>2. /\ Events(q) = Events(Tail(q)) \cup ({Head(q)} \ {NotAnEvent})
      /\ Rising(Tail(q))
      /\ Tail(q) \in Seq(0 .. f) /\ Len(Tail(q)) = Len(q) - 1 /\ Head(q) \in 0 .. f
      /\ \A m \in Events(Tail(q)) : Head(q) < m /\ m \in 1 .. f
  BY <1>1, EventsOfTail
<1>3. ASSUME NEW n \in Events(Tail(q)), NEW m \in n .. f PROVE m \in Events(Tail(q))
  <2>1. m \in Events(q)
    BY <1>2 DEF Fits
  <2>2. Head(q) < m
    BY <1>2
  <2> QED
    BY <2>1, <2>2, <1>2
<1>4. Len(Tail(q)) <= Capacity
  BY <1>1, <1>2, EventBusAssumption
<1>5. \A n \in Events(Tail(q)) : s < n
  BY <1>2 DEF Fits
<1>6. Head(q) # NotAnEvent => s < Head(q)
  BY <1>2 DEF Fits
<1>7. Fits(Tail(q), Head(q), s, f)
  BY <1>1, <1>2, <1>3, <1>4, <1>5, <1>6 DEF Fits
<1> QED
  BY <1>2, <1>7 DEF Unbroken

\* A send ends, and the item counts as sent if it is an event.
LEMMA SentFits ==
  ASSUME NEW f \in Nat, NEW q, NEW h, NEW s, Fits(q, h, s, f)
  PROVE  LET last == IF h = NotAnEvent THEN s ELSE h
         IN  /\ Fits(q, NotAnEvent, last, f)
             /\ Unbroken(q, h, s, f) => Unbroken(q, NotAnEvent, last, f)
<1>1. CASE h = NotAnEvent
  BY <1>1
<1>2. CASE h # NotAnEvent
  <2>1. h \in 0 .. f /\ s \in 0 .. f /\ s < h /\ \A n \in Events(q) : h < n
    BY <1>2 DEF Fits
  <2>2. Fits(q, NotAnEvent, h, f)
    <3>1. \A n \in Events(q) : n \in 1 .. f
      BY DEF Fits, Events, NotAnEvent
    <3>2. NotAnEvent \in 0 .. f /\ \A n \in Events(q) : NotAnEvent < n
      BY <3>1 DEF NotAnEvent
    <3> QED
      BY <2>1, <3>2 DEF Fits
  <2>3. Unbroken(q, h, s, f) => Events(q) = h + 1 .. f
    <3> SUFFICES ASSUME Events(q) \cup {h} = s + 1 .. f
                 PROVE  Events(q) = h + 1 .. f
      BY <1>2 DEF Unbroken
    <3>1. s + 1 = h
      <4>1. s + 1 \in s + 1 .. f
        BY <2>1
      <4>2. s + 1 \in Events(q) \cup {h}
        BY <4>1
      <4> QED
        BY <4>2, <2>1
    <3>2. \A n \in h + 1 .. f : n \in s + 1 .. f /\ n # h
      BY <2>1
    <3>3. \A n \in Events(q) : n \in s + 1 .. f /\ h < n
      BY <2>1
    <3>4. \A n \in Events(q) : n \in h + 1 .. f
      BY <3>3, <2>1
    <3>5. \A n \in h + 1 .. f : n \in Events(q)
      BY <3>2
    <3> QED
      BY <3>4, <3>5
  <2> QED
    BY <1>2, <2>2, <2>3 DEF Unbroken
<1> QED
  BY <1>1, <1>2

-----------------------------------------------------------------------------

\* At first nobody is connected.
LEMMA BusInit == Init => BusIInv
<1> SUFFICES ASSUME Init
             PROVE  BusIInv
  OBVIOUS
<1>1. << >> \in Seq(0 .. 0) /\ Len(<< >>) = 0
  OBVIOUS
<1>2. TypeOK
  BY <1>1, EventBusAssumption DEF Init, TypeOK, NotAnEvent
<1>3. ASSUME NEW c \in Client PROVE Fits(queue[c], hold[c], sent[c], fanned)
  BY EmptyFits DEF Init
<1> QED
  BY <1>2, <1>3 DEF BusIInv, ConnectionFits, Init, Subscribed

\* What is known of a connection depends on its own values only.
LEMMA FramedConnections ==
  ASSUME NEW c \in Client, ConnectionFits(c), fanned' = fanned,
         stage'[c] = stage[c], queue'[c] = queue[c], hold'[c] = hold[c],
         sent'[c] = sent[c], dropped'[c] = dropped[c]
  PROVE  ConnectionFits(c)'
BY DEF ConnectionFits, Subscribed

\* An event is published.
LEMMA PublishKeeps ==
  ASSUME BusIInv, Publish
  PROVE  BusIInv'
<1>1. TypeOK'
  BY EventBusAssumption DEF BusIInv, TypeOK, Publish
<1> QED
  BY <1>1, FramedConnections DEF BusIInv, Publish

\* The loop puts an event into every queue, or drops the oldest one of a full queue.
LEMMA FanOutKeeps ==
  ASSUME BusIInv, FanOut
  PROVE  BusIInv'
<1> USE DEF BusIInv
<1>1. /\ published' \in 0 .. MaxEvents /\ fanned' \in 0 .. published' /\ fanned \in Nat
      /\ fanned' = fanned + 1
  BY EventBusAssumption DEF FanOut, TypeOK
<1>2. ASSUME NEW c \in Client
      PROVE  ConnectionFits(c)'
  <2> USE DEF ConnectionFits
  <2>0. stage' = stage /\ hold' = hold /\ sent' = sent
    BY DEF FanOut
  <2>1. CASE Subscribed(c)
    <3>1. queue'[c] = Offer(queue[c], fanned + 1)
      BY <2>1 DEF FanOut
    <3>2. ~dropped'[c] => ~dropped[c] /\ ~DropsEvent(queue[c])
      BY <2>1 DEF FanOut
    <3>3. Fits(queue'[c], hold[c], sent[c], fanned + 1)
      BY <3>1, <1>1, OfferFits
    <3>4. ~dropped'[c] => Unbroken(queue'[c], hold[c], sent[c], fanned + 1)
      BY <2>1, <3>1, <3>2, <1>1, OfferFits
    <3> QED
      BY <2>0, <2>1, <3>3, <3>4, <1>1 DEF Subscribed, Fits, Unbroken, Events, Rising
  <2>2. CASE ~Subscribed(c)
    <3>1. queue'[c] = << >> /\ hold[c] = NotAnEvent /\ sent[c] \in 0 .. fanned + 1
      BY <2>2, <1>1 DEF FanOut, Fits, Subscribed, TypeOK
    <3>2. Fits(queue'[c], hold[c], sent[c], fanned + 1)
      BY <3>1, <1>1, EmptyFits
    <3> QED
      BY <2>0, <2>2, <3>1, <3>2, <1>1 DEF Subscribed, Fits, Events, Rising
  <2> QED
    BY <2>1, <2>2
<1>3. dropped' \in [Client -> BOOLEAN] /\ queue' = [c \in Client |-> queue'[c]]
  BY DEF FanOut, TypeOK
<1>4. hold' = [c \in Client |-> hold'[c]] /\ sent' = [c \in Client |-> sent'[c]]
  BY DEF FanOut, TypeOK
<1>5. stage' \in [Client -> {"off", "ready", "waiting", "sending"}]
      /\ connected' \in [Client -> BOOLEAN]
  BY DEF FanOut, TypeOK
<1>6. TypeOK'
  BY <1>1, <1>2, <1>3, <1>4, <1>5 DEF TypeOK, ConnectionFits, Fits
<1> QED
  BY <1>2, <1>6

\* A step of connection c leaves the others and the counters of the bus alone.
OnlyTouches(c) ==
    /\ UNCHANGED <<published, fanned>>
    /\ stage' \in [Client -> {"off", "ready", "waiting", "sending"}]
    /\ connected' \in [Client -> BOOLEAN] /\ dropped' \in [Client -> BOOLEAN]
    /\ queue' = [e \in Client |-> IF e = c THEN queue'[c] ELSE queue[e]]
    /\ hold' = [e \in Client |-> IF e = c THEN hold'[c] ELSE hold[e]]
    /\ sent' = [e \in Client |-> IF e = c THEN sent'[c] ELSE sent[e]]
    /\ \A e \in Client \ {c} : stage'[e] = stage[e] /\ dropped'[e] = dropped[e]

\* A step of one connection touches only its queue.
LEMMA ConnectionStep ==
  ASSUME TypeOK, NEW c \in Client, Connect(c) \/ Snapshot(c) \/ ClientStep(c) \/ Leave(c)
  PROVE  OnlyTouches(c)
<1> USE DEF TypeOK, OnlyTouches
<1>1. CASE Connect(c)
  BY <1>1 DEF Connect
<1>2. CASE Snapshot(c)
  BY <1>2 DEF Snapshot
<1>3. CASE Take(c)
  BY <1>3 DEF Take
<1>4. CASE Wait(c)
  BY <1>4 DEF Wait
<1>5. CASE Heartbeat(c)
  BY <1>5 DEF Heartbeat
<1>6. CASE Sent(c)
  BY <1>6 DEF Sent
<1>7. CASE SendFails(c)
  BY <1>7 DEF SendFails
<1>8. CASE Leave(c)
  BY <1>8 DEF Leave
<1> QED
  BY <1>1, <1>2, <1>3, <1>4, <1>5, <1>6, <1>7, <1>8 DEF ClientStep

\* What a step of connection c makes of it fits again.
LEMMA ConnectionKeepsFits ==
  ASSUME TypeOK, NEW c \in Client, ConnectionFits(c),
         Connect(c) \/ Snapshot(c) \/ ClientStep(c) \/ Leave(c)
  PROVE  /\ Fits(queue'[c], hold'[c], sent'[c], fanned)
         /\ stage'[c] = "off" => queue'[c] = << >>
         /\ hold'[c] # NotAnEvent => stage'[c] = "sending"
         /\ (stage'[c] # "off" /\ ~dropped'[c])
               => Unbroken(queue'[c], hold'[c], sent'[c], fanned)
<1> USE DEF ConnectionFits, Subscribed
<1>0. fanned \in Nat
  BY EventBusAssumption DEF TypeOK
<1>1. CASE Connect(c)
  <2>1. queue[c] = << >> /\ hold[c] = NotAnEvent
    BY <1>1 DEF Connect
  <2>2. queue'[c] = << >> /\ hold'[c] = NotAnEvent /\ sent'[c] = fanned /\ stage'[c] = "sending"
    BY <1>1, <2>1 DEF Connect, TypeOK
  <2>3. Fits(<< >>, NotAnEvent, fanned, fanned) /\ Unbroken(<< >>, NotAnEvent, fanned, fanned)
    <3>1. fanned \in 0 .. fanned
      BY <1>0
    <3> QED
      BY <3>1, <1>0, EmptyFits
  <2> QED
    BY <2>2, <2>3
<1>2. CASE Snapshot(c)
  <2>1. /\ queue'[c] = Append(queue[c], NotAnEvent) /\ Len(queue[c]) < Capacity
        /\ hold'[c] = hold[c] /\ sent'[c] = sent[c] /\ stage'[c] = stage[c]
        /\ dropped'[c] = dropped[c] /\ stage[c] # "off"
    BY <1>2 DEF Snapshot, TypeOK
  <2> QED
    BY <2>1, <1>0, SnapshotFits
<1>3. CASE Take(c)
  <2>1. /\ queue'[c] = Tail(queue[c]) /\ hold'[c] = Head(queue[c]) /\ sent'[c] = sent[c]
        /\ stage'[c] = "sending" /\ dropped'[c] = dropped[c] /\ queue[c] # << >>
        /\ stage[c] \in {"ready", "waiting"}
    BY <1>3 DEF Take, TypeOK
  <2>2. hold[c] = NotAnEvent
    BY <2>1
  <2> QED
    BY <2>1, <2>2, <1>0, TakeFits
<1>4. CASE Wait(c) \/ Heartbeat(c)
  <2>1. /\ queue'[c] = queue[c] /\ hold'[c] = hold[c] /\ sent'[c] = sent[c]
        /\ dropped'[c] = dropped[c] /\ stage'[c] # "off" /\ stage[c] \in {"ready", "waiting"}
    BY <1>4 DEF Wait, Heartbeat, TypeOK
  <2> QED
    BY <2>1
<1>5. CASE Sent(c)
  <2>1. /\ queue'[c] = queue[c] /\ hold'[c] = NotAnEvent
        /\ sent'[c] = IF hold[c] = NotAnEvent THEN sent[c] ELSE hold[c]
        /\ dropped'[c] = dropped[c] /\ stage'[c] = "ready" /\ stage[c] = "sending"
    BY <1>5 DEF Sent, TypeOK
  <2> QED
    BY <2>1, <1>0, SentFits
<1>6. CASE SendFails(c)
  <2>1. queue'[c] = << >> /\ hold'[c] = NotAnEvent /\ sent'[c] = sent[c] /\ stage'[c] = "off"
    BY <1>6 DEF SendFails, TypeOK
  <2>2. sent[c] \in 0 .. fanned
    BY DEF TypeOK
  <2> QED
    BY <2>1, <2>2, <1>0, EmptyFits
<1>7. CASE Leave(c)
  <2>1. /\ queue'[c] = queue[c] /\ hold'[c] = hold[c] /\ sent'[c] = sent[c]
        /\ dropped'[c] = dropped[c] /\ stage'[c] = stage[c]
    BY <1>7 DEF Leave
  <2> QED
    BY <2>1
<1> QED
  BY <1>1, <1>2, <1>3, <1>4, <1>5, <1>6, <1>7 DEF ClientStep

\* It keeps the invariant.
LEMMA ConnectionKeeps ==
  ASSUME BusIInv, NEW c \in Client, Connect(c) \/ Snapshot(c) \/ ClientStep(c) \/ Leave(c)
  PROVE  BusIInv'
<1>1. TypeOK /\ OnlyTouches(c)
  BY ConnectionStep DEF BusIInv
<1>2. /\ Fits(queue'[c], hold'[c], sent'[c], fanned)
      /\ stage'[c] = "off" => queue'[c] = << >>
      /\ hold'[c] # NotAnEvent => stage'[c] = "sending"
      /\ (stage'[c] # "off" /\ ~dropped'[c])
            => Unbroken(queue'[c], hold'[c], sent'[c], fanned)
  BY <1>1, ConnectionKeepsFits DEF BusIInv
<1>3. TypeOK'
  <2>1. /\ queue'[c] \in Seq(0 .. fanned) /\ Len(queue'[c]) <= Capacity
        /\ hold'[c] \in 0 .. fanned /\ sent'[c] \in 0 .. fanned
    BY <1>2 DEF Fits
  <2> QED
    BY <1>1, <2>1 DEF TypeOK, OnlyTouches
<1>4. ASSUME NEW e \in Client PROVE ConnectionFits(e)'
  <2>1. CASE e = c
    BY <1>1, <1>2, <2>1 DEF OnlyTouches, ConnectionFits, Subscribed, Fits, Unbroken, Events, Rising
  <2>2. CASE e # c
    BY <1>1, <2>2, FramedConnections DEF OnlyTouches, BusIInv
  <2> QED
    BY <2>1, <2>2
<1> QED
  BY <1>3, <1>4 DEF BusIInv

\* Every step keeps the invariant.
LEMMA BusStep == BusIInv /\ [Next]_vars => BusIInv'
<1> SUFFICES ASSUME BusIInv, [Next]_vars
             PROVE  BusIInv'
  OBVIOUS
<1>1. CASE UNCHANGED vars
  BY <1>1, FramedConnections DEF BusIInv, TypeOK, vars
<1> QED
  BY <1>1, PublishKeeps, FanOutKeeps, ConnectionKeeps DEF Next

-----------------------------------------------------------------------------

\* No queue outgrows its capacity, and no event is queued before it is fanned out.
THEOREM BusTypes == Spec => []TypeOK
<1>1. BusIInv => TypeOK
  BY DEF BusIInv
<1> QED
  BY <1>1, BusInit, BusStep, PTL DEF Spec

\* Every client is sent the events in order and none twice.
THEOREM BusEventsInOrder == Spec => []EventsInOrder
<1>1. BusIInv => EventsInOrder
  BY DEF BusIInv, ConnectionFits, EventsInOrder, EventsIn, Fits, Events, Rising
<1> QED
  BY <1>1, BusInit, BusStep, PTL DEF Spec

\* A slow client's queue holds the newest events, without a gap.
THEOREM BusNewestKept == Spec => []NewestKept
<1>1. BusIInv => NewestKept
  BY DEF BusIInv, ConnectionFits, NewestKept, EventsIn, Fits, Events
<1> QED
  BY <1>1, BusInit, BusStep, PTL DEF Spec

\* A client whose own queue never dropped an event has missed none since it subscribed.
THEOREM BusNothingLostWithRoom == Spec => []NothingLostWithRoom
<1>1. BusIInv => NothingLostWithRoom
  BY DEF BusIInv, ConnectionFits, NothingLostWithRoom, EventsIn, Unbroken, Events
<1> QED
  BY <1>1, BusInit, BusStep, PTL DEF Spec

-----------------------------------------------------------------------------
(***************************************************************************)
(* The inventory: how old an answered list can be, for any threads, any    *)
(* life of the cache and any length of a read.                             *)
(*                                                                         *)
(* AnswersAreRecent speaks of the answers alone. The invariant behind it   *)
(* follows a list on its way: a version that a reader holds was edited no  *)
(* earlier than its read began, so that the cache got it at most ReadTime  *)
(* after the edit, and hands it out for less than Ttl from then.           *)
(***************************************************************************)

\* Version v is one that NetBox had, and still had at time t if it was edited since.
CurrentAt(v, t) ==
    /\ v \in 0..netbox
    /\ v # netbox => t <= overtaken[v]

\* What a read under way has found, and for how long it has lasted.
ReaderFits(r) ==
    /\ reader[r].at # "idle" => /\ reader[r].since <= now
                                /\ now <= reader[r].since + ReadTime
    /\ reader[r].at = "store" => CurrentAt(reader[r].got, reader[r].since)

\* The list in the cache was read at most a read after it was current.
CacheFits ==
    /\ cache.at <= now
    /\ cache.devices # NoDevices =>
          /\ cache.devices \in 0..netbox
          /\ cache.devices # netbox => cache.at <= overtaken[cache.devices] + ReadTime

\* No version was overtaken in the future.
EditsFit == \A v \in Edition : overtaken[v] <= now

\* The invariant.
InventoryIInv ==
    /\ InventoryTypeOK
    /\ EditsFit
    /\ CacheFits
    /\ \A r \in Reader : ReaderFits(r)
    /\ AnswersAreRecent

-----------------------------------------------------------------------------

\* For how long a version has been out of date is a time on the clock.
LEMMA LateIsATick ==
  ASSUME InventoryTypeOK, EditsFit, NEW d \in Devices
  PROVE  /\ Late(d) \in Tick
         /\ d \in Edition \ {netbox} => Late(d) = now - overtaken[d]
         /\ d \notin Edition \ {netbox} => Late(d) = 0
<1>1. CASE d \in Edition \ {netbox}
  <2>1. overtaken[d] \in Tick /\ overtaken[d] <= now /\ now \in Tick
    BY <1>1 DEF InventoryTypeOK, EditsFit
  <2> QED
    BY <1>1, <2>1, InventoryAssumption DEF Late, Tick
<1>2. CASE d \notin Edition \ {netbox}
  BY <1>2, InventoryAssumption DEF Late, Tick
<1> QED
  BY <1>1, <1>2

\* Giving thread r a list that is recent enough keeps the answers typed and recent.
LEMMA AnswerKeeps ==
  ASSUME InventoryTypeOK, AnswersAreRecent, NEW r \in Reader, NEW d \in Devices,
         NEW failed \in BOOLEAN, Late(d) \in Tick, Answers(r, d, failed),
         ~failed => /\ d # NoDevices
                    /\ Late(d) <= ReadTime \/ Late(d) < Ttl + ReadTime
  PROVE  /\ answer' \in [Reader -> [devices : Devices, error : BOOLEAN, late : Tick]]
         /\ AnswersAreRecent'
<1>1. [devices |-> d, error |-> failed, late |-> Late(d)]
        \in [devices : Devices, error : BOOLEAN, late : Tick]
  OBVIOUS
<1>2. answer \in [Reader -> [devices : Devices, error : BOOLEAN, late : Tick]]
  BY DEF InventoryTypeOK
<1> QED
  BY <1>1, <1>2 DEF Answers, AnswersAreRecent

\* A thread whose read has ended is one that has not begun another.
LEMMA ReaderIsFreed ==
  ASSUME InventoryTypeOK, NEW r \in Reader
  PROVE  [reader EXCEPT ![r] = NotReading]
           \in [Reader -> [at : {"idle", "fetch", "store"}, got : Devices, since : Tick]]
<1>1. NotReading \in [at : {"idle", "fetch", "store"}, got : Devices, since : Tick]
  BY InventoryAssumption DEF NotReading, Devices, Tick
<1> QED
  BY <1>1 DEF InventoryTypeOK

\* The cache never read has no list, and nobody has been answered yet.
LEMMA InventoryStarts == InventoryInit => InventoryIInv
<1> SUFFICES ASSUME InventoryInit PROVE InventoryIInv
  OBVIOUS
<1>1. InventoryTypeOK
  BY InventoryAssumption
  DEF InventoryInit, InventoryTypeOK, Tick, Edition, Devices, NotReading, NoAnswerGiven
<1> QED
  BY <1>1, InventoryAssumption
  DEF InventoryInit, InventoryIInv, EditsFit, CacheFits, ReaderFits, CurrentAt,
      AnswersAreRecent, NotReading, NoAnswerGiven, Edition

-----------------------------------------------------------------------------

\* A hit answers what the cache may hand out: its list is younger than Ttl.
LEMMA ReadCacheKeeps ==
  ASSUME InventoryIInv, NEW r \in Reader, ReadCache(r)
  PROVE  InventoryIInv'
<1>1. /\ cache.devices \in Devices /\ cache.devices # NoDevices
      /\ cache.at \in Nat /\ now \in Nat /\ netbox \in Nat
      /\ \A v \in Edition : overtaken[v] \in Nat
      /\ now - cache.at < Ttl
  BY InventoryAssumption
  DEF InventoryIInv, InventoryTypeOK, ReadCache, Fresh, Tick, Edition, Devices
<1>2. /\ Late(cache.devices) \in Tick
      /\ Late(cache.devices) < Ttl + ReadTime \/ Late(cache.devices) <= ReadTime
  <2>1. CASE cache.devices \in Edition \ {netbox}
    <3>1. cache.at <= overtaken[cache.devices] + ReadTime
      BY <1>1, <2>1 DEF InventoryIInv, CacheFits
    <3>2. overtaken[cache.devices] \in Nat
      BY <1>1, <2>1
    <3> QED
      BY <1>1, <2>1, <3>1, <3>2, LateIsATick, InventoryAssumption DEF InventoryIInv
  <2>2. CASE cache.devices \notin Edition \ {netbox}
    BY <1>1, <2>2, LateIsATick, InventoryAssumption DEF InventoryIInv
  <2> QED
    BY <2>1, <2>2
<1>3. /\ answer' \in [Reader -> [devices : Devices, error : BOOLEAN, late : Tick]]
      /\ AnswersAreRecent'
  BY <1>1, <1>2, AnswerKeeps DEF InventoryIInv, ReadCache
<1> QED
  BY <1>3 DEF InventoryIInv, InventoryTypeOK, ReadCache, EditsFit, CacheFits, ReaderFits,
              CurrentAt

\* A read begins, and finds what NetBox has at that time or later.
LEMMA BeginAndFetchKeep ==
  ASSUME InventoryIInv, NEW r \in Reader, BeginRead(r) \/ Fetch(r)
  PROVE  InventoryIInv'
<1> USE InventoryAssumption DEF InventoryIInv
<1>1. CASE BeginRead(r)
  <2>1. InventoryTypeOK'
    BY <1>1 DEF InventoryTypeOK, BeginRead, NotReading, Devices, Tick
  <2>2. \A q \in Reader : ReaderFits(q)'
    BY <1>1 DEF InventoryTypeOK, BeginRead, NotReading, ReaderFits, CurrentAt, Tick
  <2> QED
    BY <1>1, <2>1, <2>2 DEF BeginRead, EditsFit, CacheFits, AnswersAreRecent
<1>2. CASE Fetch(r)
  <2>1. reader' \in [Reader -> [at : {"idle", "fetch", "store"}, got : Devices, since : Tick]]
    <3>1. /\ reader[r] \in [at : {"idle", "fetch", "store"}, got : Devices, since : Tick]
          /\ netbox \in Devices
      BY DEF InventoryTypeOK, Devices
    <3>2. [reader[r] EXCEPT !.at = "store", !.got = netbox]
            \in [at : {"idle", "fetch", "store"}, got : Devices, since : Tick]
      BY <3>1
    <3>3. reader' = [reader EXCEPT ![r] = [reader[r] EXCEPT !.at = "store", !.got = netbox]]
      BY <1>2 DEF Fetch, InventoryTypeOK
    <3> QED
      BY <3>2, <3>3 DEF InventoryTypeOK
  <2>1a. InventoryTypeOK'
    BY <1>2, <2>1 DEF InventoryTypeOK, Fetch
  <2>2. \A q \in Reader : ReaderFits(q)'
    BY <1>2 DEF InventoryTypeOK, Fetch, ReaderFits, CurrentAt, Tick, Edition
  <2> QED
    BY <1>2, <2>1a, <2>2 DEF Fetch, EditsFit, CacheFits, AnswersAreRecent
<1> QED
  BY <1>1, <1>2

\* The end of a read: its list was current when it began, at most ReadTime ago.
LEMMA StoreKeeps ==
  ASSUME InventoryIInv, NEW r \in Reader, Store(r)
  PROVE  InventoryIInv'
<1> USE InventoryAssumption DEF InventoryIInv
<1> DEFINE d == reader[r].got
<1>1. /\ reader[r].since \in Nat /\ now \in Nat /\ netbox \in 0..MaxEdits
      /\ \A v \in Edition : overtaken[v] \in Nat /\ overtaken[v] <= now
      /\ reader[r].since <= now /\ now <= reader[r].since + ReadTime
      /\ d \in 0..netbox /\ (d # netbox => reader[r].since <= overtaken[d])
  <2>1. /\ reader[r] \in [at : {"idle", "fetch", "store"}, got : Devices, since : Tick]
        /\ now \in Tick /\ netbox \in Edition /\ overtaken \in [Edition -> Tick]
    BY DEF InventoryTypeOK
  <2>2. reader[r].at = "store" /\ ReaderFits(r) /\ EditsFit
    BY DEF Store
  <2> QED
    BY <2>1, <2>2 DEF ReaderFits, CurrentAt, Tick, Edition, EditsFit
<1>2. d \in Edition /\ d \in Devices /\ d # NoDevices
  BY <1>1 DEF Edition, Devices
<1>3. Late(d) \in Tick /\ Late(d) <= ReadTime
  BY <1>1, <1>2, LateIsATick
<1>4. /\ answer' \in [Reader -> [devices : Devices, error : BOOLEAN, late : Tick]]
      /\ AnswersAreRecent'
  BY <1>2, <1>3, AnswerKeeps DEF Store
<1>5. InventoryTypeOK'
  <2>1. cache' \in [devices : Devices, at : Tick]
    BY <1>2 DEF InventoryTypeOK, Store
  <2> QED
    BY <1>4, <2>1, ReaderIsFreed DEF InventoryTypeOK, Store
<1>6. CacheFits'
  BY <1>1, <1>2 DEF InventoryTypeOK, Store, CacheFits
<1>7. \A q \in Reader : ReaderFits(q)'
  BY DEF InventoryTypeOK, Store, NotReading, ReaderFits, CurrentAt
<1> QED
  BY <1>4, <1>5, <1>6, <1>7 DEF Store, EditsFit

\* A read that fails answers no list, and leaves the cache alone.
LEMMA ReadFailsKeeps ==
  ASSUME InventoryIInv, NEW r \in Reader, ReadFails(r)
  PROVE  InventoryIInv'
<1> USE InventoryAssumption DEF InventoryIInv
<1>1. NoDevices \in Devices /\ Late(NoDevices) \in Tick
  BY LateIsATick DEF Devices
<1>2. /\ answer' \in [Reader -> [devices : Devices, error : BOOLEAN, late : Tick]]
      /\ AnswersAreRecent'
  BY <1>1, AnswerKeeps DEF ReadFails
<1>3. InventoryTypeOK'
  BY <1>2, ReaderIsFreed DEF InventoryTypeOK, ReadFails
<1>4. \A q \in Reader : ReaderFits(q)'
  BY DEF InventoryTypeOK, ReadFails, NotReading, ReaderFits, CurrentAt
<1> QED
  BY <1>2, <1>3, <1>4 DEF ReadFails, EditsFit, CacheFits

\* An edit overtakes the version there was, now: later than any read of it began.
LEMMA EditKeeps ==
  ASSUME InventoryIInv, EditInventory
  PROVE  InventoryIInv'
<1> USE InventoryAssumption DEF InventoryIInv
<1>1. /\ netbox \in 0..MaxEdits /\ netbox < MaxEdits /\ netbox' = netbox + 1
      /\ now \in Nat /\ now' = now
      /\ overtaken' \in [Edition -> Tick]
      /\ overtaken'[netbox] = now
      /\ \A v \in Edition \ {netbox} : overtaken'[v] = overtaken[v]
  BY DEF InventoryTypeOK, EditInventory, Edition, Tick
<1>2. InventoryTypeOK'
  BY <1>1 DEF InventoryTypeOK, EditInventory, Edition
<1>3. EditsFit'
  BY <1>1 DEF EditsFit, InventoryTypeOK, Edition, Tick
<1>4. CacheFits'
  <2>1. cache.devices # NoDevices => cache.devices \in 0..netbox
    BY DEF CacheFits
  <2>2. cache.at \in Nat /\ cache.at <= now
    BY DEF CacheFits, InventoryTypeOK, Tick
  <2> QED
    BY <1>1, <2>1, <2>2 DEF CacheFits, EditInventory, Edition
<1>5. \A q \in Reader : ReaderFits(q)'
  <2> TAKE q \in Reader
  <2>1. reader[q].since \in Nat /\ reader' = reader
    BY DEF InventoryTypeOK, EditInventory, Tick
  <2> QED
    BY <1>1, <2>1 DEF ReaderFits, CurrentAt, Edition
<1> QED
  BY <1>2, <1>3, <1>4, <1>5 DEF EditInventory, AnswersAreRecent

\* NetBox going away and coming back changes no list, and time waits for the calls.
LEMMA SurroundingsKeep ==
  ASSUME InventoryIInv, GoDown \/ ComeUp \/ TimePasses
  PROVE  InventoryIInv'
<1> USE InventoryAssumption DEF InventoryIInv
<1>1. CASE GoDown
  <2>1. outages' \in 0..MaxOutages
    BY <1>1 DEF InventoryTypeOK, GoDown
  <2>2. InventoryTypeOK'
    BY <1>1, <2>1 DEF InventoryTypeOK, GoDown
  <2> QED
    BY <1>1, <2>2 DEF GoDown, EditsFit, CacheFits, ReaderFits, CurrentAt, AnswersAreRecent
<1>2. CASE ComeUp
  BY <1>2 DEF InventoryTypeOK, ComeUp, EditsFit, CacheFits, ReaderFits, CurrentAt,
              AnswersAreRecent
<1>3. CASE TimePasses
  <2>1. now \in Nat /\ now' = now + 1 /\ now < LastTick
    BY <1>3 DEF TimePasses, InventoryTypeOK, Tick
  <2>2. InventoryTypeOK'
    BY <1>3, <2>1 DEF InventoryTypeOK, TimePasses, Tick
  <2>3. \A q \in Reader : ReaderFits(q)'
    BY <1>3, <2>1 DEF InventoryTypeOK, TimePasses, ReaderFits, CurrentAt, Tick
  <2>4. EditsFit' /\ CacheFits'
    BY <1>3, <2>1 DEF InventoryTypeOK, TimePasses, EditsFit, CacheFits, Tick
  <2> QED
    BY <1>3, <2>2, <2>3, <2>4 DEF TimePasses, AnswersAreRecent
<1> QED
  BY <1>1, <1>2, <1>3

\* Every step keeps the invariant.
LEMMA InventoryStepKeeps == InventoryIInv /\ [InventoryNext]_inventoryVars => InventoryIInv'
<1> SUFFICES ASSUME InventoryIInv, [InventoryNext]_inventoryVars
             PROVE  InventoryIInv'
  OBVIOUS
<1>1. CASE UNCHANGED inventoryVars
  BY <1>1 DEF inventoryVars, InventoryIInv, InventoryTypeOK, EditsFit, CacheFits,
              ReaderFits, CurrentAt, AnswersAreRecent
<1>2. ASSUME NEW r \in Reader, ReadStep(r)
      PROVE  InventoryIInv'
  BY <1>2, ReadCacheKeeps, BeginAndFetchKeep, StoreKeeps, ReadFailsKeeps DEF ReadStep
<1> QED
  BY <1>1, <1>2, EditKeeps, SurroundingsKeep DEF InventoryNext

-----------------------------------------------------------------------------

\* The variables of the inventory cache keep their types.
THEOREM InventoryTypes == InventorySpec => []InventoryTypeOK
<1>1. InventoryIInv => InventoryTypeOK
  BY DEF InventoryIInv
<1> QED
  BY <1>1, InventoryStarts, InventoryStepKeeps, PTL DEF InventorySpec

\* A list answered without an error is one NetBox had less than a read and a cache's
\* life ago, however many threads read and whatever order their reads end in.
THEOREM InventoryAnswersAreRecent == InventorySpec => []AnswersAreRecent
<1>1. InventoryIInv => AnswersAreRecent
  BY DEF InventoryIInv
<1> QED
  BY <1>1, InventoryStarts, InventoryStepKeeps, PTL DEF InventorySpec

-----------------------------------------------------------------------------
(***************************************************************************)
(* The pages, for any tabs, any devices and any items of a list.           *)
(*                                                                         *)
(* OwnEditsShown speaks of a tab at rest. The invariant follows a handler  *)
(* from its click: the loads of the click stand before a handler whose     *)
(* calls are not over, so that a list it may have changed is the backend's *)
(* or is still to be loaded, however the calls end. A load that fails      *)
(* marks its list as behind, which the property exempts.                   *)
(***************************************************************************)

\* What a click on a tab that has device d selected can carry.
ClicksOf(d) == {c \in ClickType :
    /\ c.do \in ListHandlers \ {"saveWlan"} => c.arg \in Item
    /\ c.do \in {"ask", "cancel", "editWlan"} => c.arg \in Item \cup {Nothing}
    /\ c.do = "select" => c.arg \in Device
    /\ c.do = "port" => d \in Device}

\* The handler that a tab runs.
WorkType == [click : ClickType, at : {"idle", "call", "clear", "load"},
             loads : Seq(Page \cup Setting \cup {"port"})]

\* A handler that has yet to load has the loads of its click before it, and the port is
\* only loaded, and only shown, of a device.
WorkFits(w, d) ==
    /\ w.click \in ClicksOf(d)
    /\ w.at \in {"call", "clear"} => w.loads = LoadsOf(w.click)
    /\ w.at = "clear" => w.click.do = "trust"
    /\ w.at = "load" => w.loads # <<>>
    /\ "port" \in {w.loads[i] : i \in DOMAIN w.loads} => d \in Device

\* What waits in a tab, and what it runs, is of the device it shows.
TabFits(t) ==
    /\ waiting[t] \in Seq(ClicksOf(view[t].device))
    /\ WorkFits(work[t], view[t].device)
    /\ view[t].port \in {"up", "down"} => view[t].device \in Device

\* Tab t has yet to load page p.
ToLoad(w, p) == w.at = "load" /\ p \in {w.loads[i] : i \in DOMAIN w.loads}

\* A list that is not behind is the backend's, or is about to be loaded.
Shows(t, p) == p \notin behind[t] => shown[t][p] = rows[p] \/ ToLoad(work[t], p)

\* The invariant: a list that is not behind is the backend's, or about to be loaded.
PagesIInv ==
    /\ PagesTypeOK
    /\ \A t \in Tab : TabFits(t)
    /\ \A t \in Tab, p \in Page : Shows(t, p)

\* What a click loads is a sequence of lists, settings and ports.
LEMMA LoadsOfType ==
    ASSUME NEW c \in ClickType
    PROVE  LoadsOf(c) \in Seq(Page \cup Setting \cup {"port"})
<1> DEFINE L == Page \cup Setting \cup {"port"}
<1>1. /\ "users" \in L /\ "authorized" \in L /\ "wlans" \in L /\ "threats" \in L
      /\ "mode" \in L /\ "policy" \in L /\ "port" \in L
  BY DEF Page, Edited, Setting
<1> HIDE DEF L
<1>2. /\ <<"users">> \in Seq(L) /\ <<"authorized">> \in Seq(L) /\ <<"wlans">> \in Seq(L)
      /\ <<"threats">> \in Seq(L) /\ <<"authorized", "users">> \in Seq(L)
      /\ <<"threats", "mode">> \in Seq(L) /\ <<"policy", "wlans">> \in Seq(L)
      /\ <<"port">> \in Seq(L) /\ << >> \in Seq(L)
  BY <1>1
<1>3. LoadsOf(c) \in {<<"users">>, <<"authorized">>, <<"wlans">>, <<"threats">>,
          <<"authorized", "users">>, <<"threats", "mode">>, <<"policy", "wlans">>,
          <<"port">>, << >>}
  BY DEF LoadsOf
<1> QED
  BY <1>2, <1>3 DEF L

\* A click that opens a page, or selects a device, loads something.
LEMMA LoadsOfOpens ==
    ASSUME NEW c, c.do \in {"openSettings", "openSecurity", "openSchedule", "select"}
    PROVE  LoadsOf(c) # << >>
<1>1. LoadsOf(c) \in {<<"authorized", "users">>, <<"threats", "mode">>, <<"policy", "wlans">>,
                      <<"port">>}
  BY DEF LoadsOf
<1> QED
  BY <1>1

\* Only a click on a device loads its port.
LEMMA LoadsOfPort ==
    ASSUME NEW c, "port" \in {LoadsOf(c)[i] : i \in DOMAIN LoadsOf(c)}
    PROVE  c.do \in {"select", "port"}
<1> SUFFICES ASSUME c.do \notin {"select", "port"} PROVE FALSE
  OBVIOUS
<1>1. LoadsOf(c) \in {<<"users">>, <<"authorized">>, <<"wlans">>, <<"threats">>,
          <<"authorized", "users">>, <<"threats", "mode">>, <<"policy", "wlans">>, << >>}
  BY DEF LoadsOf
<1>2. PICK i \in DOMAIN LoadsOf(c) : LoadsOf(c)[i] = "port"
  OBVIOUS
<1>3. \A e \in {<<"users">>, <<"authorized">>, <<"wlans">>, <<"threats">>,
          <<"authorized", "users">>, <<"threats", "mode">>, <<"policy", "wlans">>, << >>} :
          \A j \in DOMAIN e : e[j] # "port"
  OBVIOUS
<1> QED
  BY <1>1, <1>2, <1>3

\* A sequence over a set is one over every larger set.
LEMMA SeqGrows ==
    ASSUME NEW S, NEW T, S \subseteq T, NEW s \in Seq(S)
    PROVE  s \in Seq(T)
  OBVIOUS

\* A device that is selected only adds to the clicks there are.
LEMMA ClicksGrow ==
    ASSUME NEW d, NEW e, d \in Device => e \in Device
    PROVE  ClicksOf(d) \subseteq ClicksOf(e)
  BY DEF ClicksOf

\* What a tab offers fits the device that it has selected.
LEMMA OfferedFit ==
    ASSUME PagesIInv, NEW t \in Tab
    PROVE  Offered(t) \subseteq ClicksOf(view[t].device)
<1>1. /\ shown[t] \in [Page -> SUBSET Item]
      /\ asks[t] \in [Edited -> Item \cup {Nothing}]
      /\ fields[t] \in [Setting -> BOOLEAN]
      /\ editing[t] \in Item \cup {Nothing}
      /\ view[t].device \in Device \cup {Nothing}
      /\ view[t].port \in {"up", "down"} => view[t].device \in Device
  BY DEF PagesIInv, PagesTypeOK, TabFits
<1>2. \A do \in Handlers, a \in Item \cup Device \cup {Nothing}, p \in Page \cup Setting,
         v \in BOOLEAN : Click(do, a, p, v) \in ClickType
  BY DEF Click, ClickType
<1>3. \A do \in Handlers, a \in Item \cup Device \cup {Nothing}, p \in Page \cup Setting,
         v \in BOOLEAN : 
           (/\ do \in ListHandlers \ {"saveWlan"} => a \in Item
            /\ do \in {"ask", "cancel", "editWlan"} => a \in Item \cup {Nothing}
            /\ do = "select" => a \in Device
            /\ do = "port" => view[t].device \in Device)
           => Click(do, a, p, v) \in ClicksOf(view[t].device)
  BY <1>2 DEF Click, ClicksOf
<1> DEFINE C == ClicksOf(view[t].device)
<1>4. \A do \in {"openSettings", "openSecurity", "openSchedule", "scan", "deprovision"} :
          Click(do, Nothing, "users", FALSE) \in C
  BY <1>3 DEF Handlers, ListHandlers, Page, Edited
<1>5. \A p \in Edited : \A r \in shown[t][p] : Click("ask", r, p, FALSE) \in C
  BY <1>1, <1>3 DEF Handlers, ListHandlers, Page
<1>6. \A p \in Edited : Click("cancel", Nothing, p, FALSE) \in C
  BY <1>3 DEF Handlers, ListHandlers, Page
<1>7. \A r \in Item : /\ Click("addUser", r, "users", FALSE) \in C
                      /\ Click("addMac", r, "authorized", FALSE) \in C
  BY <1>3 DEF Handlers, ListHandlers, Page, Edited
<1>8. \A do \in {"removeUser", "removeMac", "removeWlan", "editWlan", "trust"}, p \in Page :
          \A r \in shown[t][p] : Click(do, r, p, FALSE) \in C
  BY <1>1, <1>3 DEF Handlers, ListHandlers
<1>9. /\ Click("saveWlan", Nothing, "wlans", TRUE) \in C
      /\ Click("editWlan", Nothing, "wlans", FALSE) \in C
      /\ Click("provision", Nothing, "users", FALSE) \in C
  BY <1>3 DEF Handlers, ListHandlers, Page, Edited
<1>10. \A v \in BOOLEAN : /\ Click("set", Nothing, "mode", v) \in C
                          /\ Click("set", Nothing, "policy", v) \in C
  BY <1>3 DEF Handlers, ListHandlers, Setting
<1>11. \A d \in Device : Click("select", d, "users", FALSE) \in C
  BY <1>3 DEF Handlers, ListHandlers, Page, Edited
<1>12. view[t].port \in {"up", "down"} =>
          Click("port", view[t].device, "users", view[t].port = "up") \in C
  <2> DEFINE v == view[t].port = "up"
  <2>1. v \in BOOLEAN
    OBVIOUS
  <2> HIDE DEF v
  <2>2. view[t].port \in {"up", "down"} => Click("port", view[t].device, "users", v) \in C
    BY <1>1, <1>3, <2>1 DEF Handlers, ListHandlers, Page, Edited
  <2> QED
    BY <2>2 DEF v
<1>13. /\ {"users", "authorized", "wlans", "threats"} \subseteq Page
       /\ (~fields[t]["mode"]) \in BOOLEAN
  BY DEF Page, Edited
<1> HIDE DEF C
<1>14. Offered(t) \subseteq C
  <2> DEFINE opens == {Click(do, Nothing, "users", FALSE) :
                 do \in {"openSettings", "openSecurity", "openSchedule", "scan", "deprovision"}}
             cancels == {Click("cancel", Nothing, p, FALSE) :
                           p \in {q \in Edited : asks[t][q] # Nothing}}
             newUsers == {Click("addUser", r, "users", FALSE) : r \in Item}
             newMacs == {Click("addMac", r, "authorized", FALSE) : r \in Item}
             confirmed(do, p) == {Click(do, r, p, FALSE) : r \in shown[t][p] \cap {asks[t][p]}}
             rowClicks(do, p) == {Click(do, r, p, FALSE) : r \in shown[t][p]}
             form == IF editing[t] = Nothing THEN {}
                     ELSE {Click("saveWlan", Nothing, "wlans", TRUE),
                           Click("editWlan", Nothing, "wlans", FALSE)}
             mode == {Click("set", Nothing, "mode", ~fields[t]["mode"])}
             policies == {Click("set", Nothing, "policy", v) : v \in BOOLEAN}
             selects == {Click("select", d, "users", FALSE) : d \in Device}
             port == IF view[t].port \in {"up", "down"}
                     THEN {Click("port", view[t].device, "users", view[t].port = "up")} ELSE {}
             provision == IF work[t].click.do = "provision" THEN {}
                          ELSE {Click("provision", Nothing, "users", FALSE)}
             rest(some) == Offered(t) = opens \cup some \cup cancels \cup newUsers
            \cup newMacs \cup confirmed("removeUser", "users")
            \cup confirmed("removeMac", "authorized") \cup confirmed("removeWlan", "wlans")
            \cup rowClicks("editWlan", "wlans") \cup rowClicks("trust", "threats")
            \cup form \cup mode \cup policies \cup selects \cup port \cup provision
  <2>1. rest(UNION {rowClicks("ask", p) : p \in Edited})
    BY Zenon DEF Offered
  <2>2. opens \subseteq C /\ newUsers \subseteq C /\ newMacs \subseteq C
    BY <1>4, <1>7
  <2>3. UNION {rowClicks("ask", p) : p \in Edited} \subseteq C
    <3>1. \A p \in Edited : rowClicks("ask", p) \subseteq C
      BY <1>5
    <3> HIDE DEF rowClicks
    <3> QED
      BY <3>1
  <2>3a. cancels \subseteq C
    BY <1>6
  <2>4. /\ confirmed("removeUser", "users") \subseteq C
        /\ confirmed("removeMac", "authorized") \subseteq C
        /\ confirmed("removeWlan", "wlans") \subseteq C
        /\ rowClicks("editWlan", "wlans") \subseteq C
        /\ rowClicks("trust", "threats") \subseteq C
    BY <1>8, <1>13
  <2>5. form \subseteq C /\ provision \subseteq C /\ selects \subseteq C
    BY <1>9, <1>11
  <2>6. policies \subseteq C
    BY <1>10
  <2>7. mode \subseteq C
    BY <1>10, <1>13, Zenon
  <2>8. port \subseteq C
    BY <1>12, Zenon
  <2> HIDE DEF opens, cancels, newUsers, newMacs, confirmed, rowClicks, form, mode,
               policies, selects, port, provision
  <2>9. ASSUME NEW some, rest(some), some \subseteq C
        PROVE  Offered(t) \subseteq C
    BY <2>2, <2>3a, <2>4, <2>5, <2>6, <2>7, <2>8, <2>9
  <2> HIDE DEF rest
  <2> QED
    BY <2>1, <2>3, <2>9
<1> QED
  BY <1>14 DEF C

-----------------------------------------------------------------------------

\* A handler that ends, or goes on to what it loads.
LEMMA StillFits ==
    ASSUME NEW d
    PROVE  /\ Still \in WorkType /\ WorkFits(Still, d)
           /\ \A p : ~ToLoad(Still, p)
<1>1. Still.click \in ClickType
  BY DEF Still, Click, ClickType, Handlers, Page, Edited
<1>2. Still \in WorkType
  <2>1. << >> \in Seq(Page \cup Setting \cup {"port"})
    OBVIOUS
  <2> QED
    BY <1>1, <2>1 DEF Still, WorkType
<1>3. Still.click \in ClicksOf(d)
  BY <1>1 DEF Still, Click, ClicksOf, ListHandlers
<1>4. Still.at = "idle" /\ Still.loads = << >>
  BY DEF Still
<1>5. {Still.loads[i] : i \in DOMAIN Still.loads} = {}
  BY <1>4
<1> QED
  BY <1>2, <1>3, <1>4, <1>5 DEF WorkFits, ToLoad

\* A handler whose calls are over has the loads of its click before it.
LEMMA LoadingFits ==
    ASSUME NEW w \in WorkType, NEW d, WorkFits(w, d), w.at \in {"call", "clear"}
    PROVE  LET next == IF w.loads = << >> THEN Still ELSE [w EXCEPT !.at = "load"]
           IN  /\ next \in WorkType /\ WorkFits(next, d)
               /\ \A p \in {w.loads[i] : i \in DOMAIN w.loads} : ToLoad(next, p)
<1> DEFINE next == IF w.loads = << >> THEN Still ELSE [w EXCEPT !.at = "load"]
<1>1. CASE w.loads = << >>
  BY <1>1, StillFits
<1>2. CASE w.loads # << >>
  <2>1. next = [w EXCEPT !.at = "load"]
    BY <1>2
  <2>2. /\ next \in WorkType /\ next.at = "load" /\ next.loads = w.loads
        /\ next.click = w.click
    BY <2>1 DEF WorkType
  <2> HIDE DEF next
  <2>3. WorkFits(next, d) /\ \A p \in {w.loads[i] : i \in DOMAIN w.loads} : ToLoad(next, p)
    BY <1>2, <2>2 DEF WorkFits, ToLoad
  <2> QED
    BY <2>2, <2>3 DEF next
<1> QED
  BY <1>1, <1>2

\* A load that is done leaves the ones after it.
LEMMA LoadsFit ==
    ASSUME NEW w \in WorkType, NEW d, WorkFits(w, d), w.at = "load"
    PROVE  LET next == IF Len(w.loads) = 1 THEN Still ELSE [w EXCEPT !.loads = Tail(@)]
           IN  /\ next \in WorkType /\ WorkFits(next, d)
               /\ \A p : ToLoad(w, p) => p = Head(w.loads) \/ ToLoad(next, p)
<1> DEFINE next == IF Len(w.loads) = 1 THEN Still ELSE [w EXCEPT !.loads = Tail(@)]
           L == Page \cup Setting \cup {"port"}
<1>0. w.loads \in Seq(L) /\ w.loads # << >>
  BY DEF WorkType, WorkFits
<1>1. CASE Len(w.loads) = 1
  <2>1. \A p : ToLoad(w, p) => p = Head(w.loads)
    BY <1>0, <1>1 DEF ToLoad
  <2> QED
    BY <1>1, <2>1, StillFits
<1>2. CASE Len(w.loads) # 1
  <2> DEFINE rest == Tail(w.loads)
  <2>1. /\ rest \in Seq(L) /\ rest # << >>
        /\ \A p : p \in {w.loads[i] : i \in DOMAIN w.loads} =>
              p = Head(w.loads) \/ p \in {rest[i] : i \in DOMAIN rest}
        /\ {rest[i] : i \in DOMAIN rest} \subseteq {w.loads[i] : i \in DOMAIN w.loads}
    <3> HIDE DEF L
    <3>1. /\ rest \in Seq(L) /\ Len(rest) = Len(w.loads) - 1 /\ Len(w.loads) \in Nat
          /\ DOMAIN rest = 1..Len(rest) /\ DOMAIN w.loads = 1..Len(w.loads)
          /\ \A i \in 1..Len(rest) : rest[i] = w.loads[i + 1]
          /\ Head(w.loads) = w.loads[1] /\ Len(w.loads) # 0
      BY <1>0
    <3>2. rest # << >>
      <4>1. Len(rest) # 0
        BY <1>2, <3>1
      <4> HIDE DEF rest
      <4> QED
        BY <4>1
    <3> HIDE DEF rest
    <3>3. ASSUME NEW j \in 1..Len(w.loads)
          PROVE  w.loads[j] = Head(w.loads) \/ \E i \in 1..Len(rest) : rest[i] = w.loads[j]
      <4>1. j # 1 => j - 1 \in 1..Len(rest) /\ rest[j - 1] = w.loads[j]
        BY <3>1
      <4> QED
        BY <3>1, <4>1
    <3>4. ASSUME NEW i \in 1..Len(rest)
          PROVE  i + 1 \in 1..Len(w.loads) /\ rest[i] = w.loads[i + 1]
      BY <3>1
    <3>5. \A p : p \in {w.loads[j] : j \in DOMAIN w.loads} =>
              p = Head(w.loads) \/ p \in {rest[i] : i \in DOMAIN rest}
      <4> SUFFICES ASSUME NEW p, NEW j \in DOMAIN w.loads, p = w.loads[j]
                   PROVE  p = Head(w.loads) \/ \E i \in DOMAIN rest : p = rest[i]
        OBVIOUS
      <4>1. j \in 1..Len(w.loads)
        BY <3>1
      <4>2. p = Head(w.loads) \/ \E i \in 1..Len(rest) : rest[i] = p
        BY <3>3, <4>1
      <4> QED
        BY <3>1, <4>2
    <3>6. {rest[i] : i \in DOMAIN rest} \subseteq {w.loads[j] : j \in DOMAIN w.loads}
      BY <3>1, <3>4
    <3> QED
      BY <3>1, <3>2, <3>5, <3>6
  <2>2. next = [w EXCEPT !.loads = rest]
    BY <1>2
  <2> HIDE DEF rest
  <2>3. next \in WorkType /\ next.at = "load" /\ next.loads = rest /\ next.click = w.click
    BY <2>1, <2>2 DEF WorkType
  <2> HIDE DEF next
  <2>4. /\ WorkFits(next, d)
        /\ \A p : ToLoad(w, p) => p = Head(w.loads) \/ ToLoad(next, p)
    BY <2>1, <2>3 DEF WorkFits, ToLoad
  <2> QED
    BY <2>3, <2>4 DEF next
<1> QED
  BY <1>1, <1>2

-----------------------------------------------------------------------------

\* A step of a handler that leaves the lists alone, and what is held back.
LEMMA QuietStep ==
    ASSUME PagesIInv, NEW t \in Tab, NEW w \in WorkType,
           WorkFits(w, view'[t].device),
           \A p \in Page : ToLoad(work[t], p) => ToLoad(w, p),
           work' = [work EXCEPT ![t] = w],
           UNCHANGED <<rows, shown, behind, waiting, clicks>>,
           lost' \in 0..MaxLost,
           named' \subseteq Item, setting' \in [Setting -> BOOLEAN], down' \subseteq Device,
           segment' \in BOOLEAN, fields' \in [Tab -> [Setting -> BOOLEAN]],
           asks' \in [Tab -> [Edited -> Item \cup {Nothing}]],
           editing' \in [Tab -> Item \cup {Nothing}],
           outcome' \in [Tab -> {"none", "finished", "failed", "unconfirmed"}],
           view' \in [Tab -> [device : Device \cup {Nothing},
                              port : {"none", "up", "down", "offline"}]],
           \A u \in Tab : view'[u].device = view[u].device,
           \A u \in Tab \ {t} : view'[u] = view[u],
           view'[t].port \in {"up", "down"} => view[t].device \in Device
    PROVE  PagesIInv'
<1>1. work \in [Tab -> WorkType]
  BY DEF PagesIInv, PagesTypeOK, WorkType
<1>2. work' \in [Tab -> WorkType] /\ work'[t] = w /\ \A u \in Tab \ {t} : work'[u] = work[u]
  BY <1>1
<1>3. PagesTypeOK'
  BY <1>2 DEF PagesIInv, PagesTypeOK, WorkType
<1>4. ASSUME NEW u \in Tab PROVE TabFits(u)'
  <2>1. TabFits(u)
    BY DEF PagesIInv
  <2>2. WorkFits(work'[u], view'[u].device)
    BY <1>2, <2>1 DEF TabFits
  <2>3. waiting'[u] \in Seq(ClicksOf(view'[u].device))
    BY <2>1 DEF TabFits
  <2>4. view'[u].port \in {"up", "down"} => view'[u].device \in Device
    BY <2>1 DEF TabFits
  <2> QED
    BY <2>2, <2>3, <2>4 DEF TabFits, WorkFits, ClicksOf
<1>5. ASSUME NEW u \in Tab, NEW p \in Page PROVE Shows(u, p)'
  <2>1. Shows(u, p)
    BY DEF PagesIInv
  <2>2. ToLoad(work[u], p) => ToLoad(work'[u], p)
    BY <1>2
  <2>3. p \notin behind'[u] => shown'[u][p] = rows'[p] \/ ToLoad(work'[u], p)
    BY <2>1, <2>2 DEF Shows
  <2> QED
    BY <2>3 DEF Shows, ToLoad
<1> QED
  BY <1>3, <1>4, <1>5 DEF PagesIInv

\* A step that makes a list new, of a handler that goes on to load it.
LEMMA ListStep ==
    ASSUME PagesIInv, NEW t \in Tab, NEW p \in Page, NEW new \in SUBSET Item,
           Becomes(t, p, new), Loading(t),
           work[t].at \in {"call", "clear"},
           p \in {work[t].loads[i] : i \in DOMAIN work[t].loads},
           UNCHANGED <<named, setting, down, segment, shown, fields, view, outcome,
                       waiting, clicks>>,
           lost' \in 0..MaxLost,
           asks' \in [Tab -> [Edited -> Item \cup {Nothing}]],
           editing' \in [Tab -> Item \cup {Nothing}]
    PROVE  PagesIInv'
<1>1. /\ work \in [Tab -> WorkType] /\ rows \in [Page -> SUBSET Item]
      /\ behind \in [Tab -> SUBSET Page]
  BY DEF PagesIInv, PagesTypeOK, WorkType
<1> DEFINE w == IF work[t].loads = << >> THEN Still ELSE [work[t] EXCEPT !.at = "load"]
<1>2. w \in WorkType /\ WorkFits(w, view[t].device) /\ ToLoad(w, p)
  BY <1>1, LoadingFits DEF PagesIInv, TabFits
<1>3. work' = [work EXCEPT ![t] = w]
  BY DEF Loading
<1> HIDE DEF w
<1>4. work' \in [Tab -> WorkType] /\ work'[t] = w /\ \A u \in Tab \ {t} : work'[u] = work[u]
  BY <1>1, <1>2, <1>3
<1>5. /\ rows' \in [Page -> SUBSET Item] /\ rows'[p] = new
      /\ \A q \in Page \ {p} : rows'[q] = rows[q]
      /\ behind' \in [Tab -> SUBSET Page]
      /\ \A u \in Tab : behind[u] \subseteq behind'[u]
      /\ new # rows[p] => \A u \in Tab \ {t} : p \in behind'[u]
  BY <1>1 DEF Becomes
<1>6. PagesTypeOK'
  BY <1>4, <1>5 DEF PagesIInv, PagesTypeOK, WorkType
<1>7. ASSUME NEW u \in Tab PROVE TabFits(u)'
  <2>1. TabFits(u)
    BY DEF PagesIInv
  <2>2. /\ WorkFits(work'[u], view'[u].device)
        /\ waiting'[u] \in Seq(ClicksOf(view'[u].device))
        /\ view'[u].port \in {"up", "down"} => view'[u].device \in Device
    BY <1>2, <1>4, <2>1 DEF TabFits
  <2> QED
    BY <2>2 DEF TabFits, WorkFits, ClicksOf
<1>8. ASSUME NEW u \in Tab, NEW q \in Page PROVE Shows(u, q)'
  <2>1. Shows(u, q)
    BY DEF PagesIInv
  <2>2. CASE u # t
    <3>1. q \notin behind'[u] => shown'[u][q] = rows'[q] \/ ToLoad(work'[u], q)
      BY <1>4, <1>5, <2>1, <2>2 DEF Shows
    <3> QED
      BY <3>1 DEF Shows, ToLoad
  <2>3. CASE u = t
    <3>1. ToLoad(work[t], q) => q = p
      BY DEF ToLoad
    <3>2. q \notin behind'[u] => shown'[u][q] = rows'[q] \/ ToLoad(work'[u], q)
      BY <1>2, <1>4, <1>5, <2>1, <2>3, <3>1 DEF Shows
    <3> QED
      BY <3>2 DEF Shows, ToLoad
  <2> QED
    BY <2>2, <2>3
<1> QED
  BY <1>6, <1>7, <1>8 DEF PagesIInv

\* A list is loaded, or the load is lost.
LEMMA LoadListStep ==
    ASSUME PagesIInv, NEW t \in Tab, NEW p \in Page, NEW failed \in SUBSET Item,
           LoadList(t, p, failed)
    PROVE  PagesIInv'
<1>1. /\ work \in [Tab -> WorkType] /\ rows \in [Page -> SUBSET Item]
      /\ behind \in [Tab -> SUBSET Page] /\ shown \in [Tab -> [Page -> SUBSET Item]]
      /\ lost \in 0..MaxLost
  BY DEF PagesIInv, PagesTypeOK, WorkType
<1>2. work[t].at = "load" /\ Head(work[t].loads) = p
  BY DEF LoadList, Loads
<1> DEFINE w == IF Len(work[t].loads) = 1 THEN Still
                ELSE [work[t] EXCEPT !.loads = Tail(@)]
<1>3. /\ w \in WorkType /\ WorkFits(w, view[t].device)
      /\ \A q : ToLoad(work[t], q) => q = Head(work[t].loads) \/ ToLoad(w, q)
  BY <1>1, <1>2, LoadsFit DEF PagesIInv, TabFits
<1>4. work' = [work EXCEPT ![t] = w]
  BY <1>1 DEF LoadList, Loads
<1> HIDE DEF w
<1>5. work' \in [Tab -> WorkType] /\ work'[t] = w /\ \A u \in Tab \ {t} : work'[u] = work[u]
  BY <1>1, <1>3, <1>4
<1>6. UNCHANGED <<rows, named, setting, down, segment, asks, editing, outcome, waiting,
                  clicks, fields, view>>
  BY DEF LoadList, LoadRest, backend
<1>7. /\ behind' \in [Tab -> SUBSET Page] /\ shown' \in [Tab -> [Page -> SUBSET Item]]
      /\ lost' \in 0..MaxLost
      /\ \A u \in Tab \ {t} : behind'[u] = behind[u] /\ shown'[u] = shown[u]
      /\ \A q \in Page \ {p} : shown'[t][q] = shown[t][q]
                                /\ (q \in behind'[t] <=> q \in behind[t])
      /\ p \notin behind'[t] => shown'[t][p] = rows[p]
  <2>1. CASE /\ Answered /\ shown' = [shown EXCEPT ![t][p] = rows[p]]
             /\ behind' = [behind EXCEPT ![t] = @ \ {p}]
    BY <1>1, <2>1 DEF Answered
  <2>2. CASE /\ CallLost /\ shown' = [shown EXCEPT ![t][p] = failed]
             /\ behind' = [behind EXCEPT ![t] = @ \cup {p}]
    BY <1>1, <2>2, PagesAssumption DEF CallLost
  <2> QED
    BY <2>1, <2>2 DEF LoadList
<1>8. PagesTypeOK'
  BY <1>5, <1>6, <1>7 DEF PagesIInv, PagesTypeOK, WorkType
<1>9. ASSUME NEW u \in Tab PROVE TabFits(u)'
  <2>1. TabFits(u)
    BY DEF PagesIInv
  <2>2. /\ WorkFits(work'[u], view'[u].device)
        /\ waiting'[u] \in Seq(ClicksOf(view'[u].device))
        /\ view'[u].port \in {"up", "down"} => view'[u].device \in Device
    BY <1>3, <1>5, <1>6, <2>1 DEF TabFits
  <2> QED
    BY <2>2 DEF TabFits, WorkFits, ClicksOf
<1>10. ASSUME NEW u \in Tab, NEW q \in Page PROVE Shows(u, q)'
  <2>1. Shows(u, q)
    BY DEF PagesIInv
  <2>2. q \notin behind'[u] => shown'[u][q] = rows'[q] \/ ToLoad(work'[u], q)
    BY <1>2, <1>3, <1>5, <1>6, <1>7, <2>1 DEF Shows
  <2> QED
    BY <2>2 DEF Shows, ToLoad
<1> QED
  BY <1>8, <1>9, <1>10 DEF PagesIInv

-----------------------------------------------------------------------------

\* A step that leaves the lists and the handlers alone; d is only gained as a device.
LEMMA OperatorStep ==
    ASSUME PagesIInv, NEW t \in Tab,
           UNCHANGED <<backend, shown, fields, view, outcome, work, behind, lost>>,
           clicks' \in 0..MaxClicks,
           asks' \in [Tab -> [Edited -> Item \cup {Nothing}]],
           editing' \in [Tab -> Item \cup {Nothing}],
           NEW s \in Seq(ClicksOf(view[t].device)), Len(s) <= MaxWaiting,
           waiting' = [waiting EXCEPT ![t] = s]
    PROVE  PagesIInv'
<1>1. waiting \in [Tab -> Seq(ClickType)]
  BY DEF PagesIInv, PagesTypeOK
<1>2. ClicksOf(view[t].device) \subseteq ClickType
  BY DEF ClicksOf
<1>3. s \in Seq(ClickType)
  BY <1>2, SeqGrows
<1>4. /\ waiting' \in [Tab -> Seq(ClickType)] /\ waiting'[t] = s
      /\ \A u \in Tab \ {t} : waiting'[u] = waiting[u]
  BY <1>1, <1>3
<1>5. PagesTypeOK'
  BY <1>4 DEF PagesIInv, PagesTypeOK, WorkType, backend
<1>6. ASSUME NEW u \in Tab PROVE TabFits(u)'
  <2>1. TabFits(u)
    BY DEF PagesIInv
  <2>2. /\ WorkFits(work'[u], view'[u].device)
        /\ waiting'[u] \in Seq(ClicksOf(view'[u].device))
        /\ view'[u].port \in {"up", "down"} => view'[u].device \in Device
    BY <1>4, <2>1 DEF TabFits
  <2> QED
    BY <2>2 DEF TabFits, WorkFits, ClicksOf
<1>7. ASSUME NEW u \in Tab, NEW q \in Page PROVE Shows(u, q)'
  BY DEF PagesIInv, Shows, ToLoad, backend
<1> QED
  BY <1>5, <1>6, <1>7 DEF PagesIInv

\* A click waits for the handler that runs.
LEMMA ClicksStep ==
    ASSUME PagesIInv, NEW t \in Tab, Clicks(t)
    PROVE  PagesIInv'
<1>1. PICK c \in Offered(t) : waiting' = [waiting EXCEPT ![t] = Append(@, c)]
  BY DEF Clicks
<1>2. c \in ClicksOf(view[t].device)
  BY OfferedFit
<1>3. /\ waiting[t] \in Seq(ClicksOf(view[t].device)) /\ Len(waiting[t]) < MaxWaiting
      /\ waiting \in [Tab -> Seq(ClickType)]
  BY DEF PagesIInv, PagesTypeOK, TabFits, Clicks
<1>4. Append(waiting[t], c) \in Seq(ClicksOf(view[t].device))
  BY <1>2, <1>3
<1>5. Len(Append(waiting[t], c)) = Len(waiting[t]) + 1 /\ Len(waiting[t]) \in Nat
  BY <1>3
<1>6. Len(Append(waiting[t], c)) <= MaxWaiting
  BY <1>3, <1>5, PagesAssumption
<1>7. waiting' = [waiting EXCEPT ![t] = Append(waiting[t], c)]
  BY <1>1
<1>8. clicks' \in 0..MaxClicks
  BY PagesAssumption DEF Clicks, PagesIInv, PagesTypeOK
<1>9. /\ UNCHANGED <<backend, shown, fields, view, outcome, work, behind, lost>>
      /\ asks' \in [Tab -> [Edited -> Item \cup {Nothing}]]
      /\ editing' \in [Tab -> Item \cup {Nothing}]
  BY DEF Clicks, face, PagesIInv, PagesTypeOK
<1> QED
  BY <1>4, <1>6, <1>7, <1>8, <1>9, OperatorStep

\* The next click, and those after it.
LEMMA HeadFits ==
    ASSUME PagesIInv, NEW t \in Tab, waiting[t] # << >>
    PROVE  /\ Head(waiting[t]) \in ClicksOf(view[t].device)
           /\ Tail(waiting[t]) \in Seq(ClicksOf(view[t].device))
           /\ Len(Tail(waiting[t])) <= MaxWaiting
<1>1. waiting[t] \in Seq(ClicksOf(view[t].device)) /\ Len(waiting[t]) <= MaxWaiting
  BY DEF PagesIInv, PagesTypeOK, TabFits
<1> DEFINE s == waiting[t]
           S == ClicksOf(view[t].device)
<1>2. s \in Seq(S) /\ s # << >> /\ Len(s) <= MaxWaiting
  BY <1>1
<1> HIDE DEF s, S
<1>3. /\ Head(s) \in S /\ Tail(s) \in Seq(S)
      /\ Len(Tail(s)) = Len(s) - 1 /\ Len(s) \in Nat
  BY <1>2
<1>4. Len(Tail(s)) <= MaxWaiting
  BY <1>2, <1>3, PagesAssumption
<1> QED
  BY <1>3, <1>4 DEF s, S

\* A dialog is opened or closed.
LEMMA AskStep ==
    ASSUME PagesIInv, NEW t \in Tab, Ask(t) \/ BeginEditWlan(t)
    PROVE  PagesIInv'
<1> DEFINE c == Head(waiting[t])
<1>1. /\ waiting[t] # << >>
      /\ waiting' = [waiting EXCEPT ![t] = Tail(waiting[t])]
      /\ UNCHANGED <<backend, shown, fields, view, outcome, work, behind, lost, clicks>>
  BY DEF Ask, BeginEditWlan
<1>2. c.do \in {"ask", "cancel", "editWlan"}
  BY DEF Ask, BeginEditWlan
<1>3. c.arg \in Item \cup {Nothing}
  BY <1>1, <1>2, HeadFits DEF ClicksOf
<1> HIDE DEF c
<1>4. /\ asks \in [Tab -> [Edited -> Item \cup {Nothing}]]
      /\ editing \in [Tab -> Item \cup {Nothing}]
      /\ clicks \in 0..MaxClicks
  BY DEF PagesIInv, PagesTypeOK
<1>5. CASE Ask(t)
  <2>1. /\ asks' = [asks EXCEPT ![t][c.page] = c.arg]
        /\ editing' = [editing EXCEPT ![t] = Nothing] \/ editing' = editing
    BY <1>5 DEF Ask, c
  <2> QED
    BY <1>1, <1>3, <1>4, <2>1, HeadFits, OperatorStep
<1>6. CASE BeginEditWlan(t)
  <2>1. /\ asks' = [asks EXCEPT ![t]["wlans"] = Nothing]
        /\ editing' = [editing EXCEPT ![t] = c.arg]
    BY <1>6 DEF BeginEditWlan, c
  <2> QED
    BY <1>1, <1>3, <1>4, <2>1, HeadFits, OperatorStep
<1> QED
  BY <1>5, <1>6

\* A handler begins with the click that waited longest.
LEMMA BeginStep ==
    ASSUME PagesIInv, NEW t \in Tab, BeginHandler(t)
    PROVE  PagesIInv'
<1> DEFINE c == Head(waiting[t])
           opens == {"openSettings", "openSecurity", "openSchedule", "select"}
           w == [click |-> c, loads |-> LoadsOf(c),
                 at |-> IF c.do \in opens THEN "load" ELSE "call"]
           d == IF c.do = "select" THEN c.arg ELSE view[t].device
<1>1. /\ work[t].at = "idle" /\ waiting[t] # << >>
      /\ waiting' = [waiting EXCEPT ![t] = Tail(waiting[t])]
      /\ c.do \notin {"ask", "cancel", "editWlan"}
      /\ work' = [work EXCEPT ![t] = w]
      /\ view' = IF c.do = "select"
                 THEN [view EXCEPT ![t] = [device |-> c.arg, port |-> "none"]] ELSE view
      /\ UNCHANGED <<backend, shown, fields, asks, editing, outcome, behind, clicks, lost>>
  BY DEF BeginHandler
<1>2. /\ c \in ClicksOf(view[t].device) /\ c \in ClickType
      /\ Tail(waiting[t]) \in Seq(ClicksOf(view[t].device))
      /\ Len(Tail(waiting[t])) <= MaxWaiting
  BY <1>1, HeadFits DEF ClicksOf
<1>3. /\ work \in [Tab -> WorkType]
      /\ waiting \in [Tab -> Seq(ClickType)]
      /\ view \in [Tab -> [device : Device \cup {Nothing},
                           port : {"none", "up", "down", "offline"}]]
  BY DEF PagesIInv, PagesTypeOK, WorkType
<1>4. /\ d \in Device \cup {Nothing}
      /\ view[t].device \in Device => d \in Device
      /\ c.do \in {"select", "port"} => d \in Device
  BY <1>2, <1>3 DEF ClicksOf
<1>5. ClicksOf(view[t].device) \subseteq ClicksOf(d)
  <2> HIDE DEF d
  <2> QED BY <1>4, ClicksGrow
<1>6. /\ LoadsOf(c) \in Seq(Page \cup Setting \cup {"port"})
      /\ c.do \in opens => LoadsOf(c) # << >>
      /\ "port" \in {LoadsOf(c)[i] : i \in DOMAIN LoadsOf(c)} => c.do \in {"select", "port"}
  BY <1>2, LoadsOfType, LoadsOfOpens, LoadsOfPort
<1>7. w \in WorkType /\ w.click = c /\ w.loads = LoadsOf(c)
      /\ w.at = (IF c.do \in opens THEN "load" ELSE "call")
  BY <1>2, <1>6 DEF WorkType
<1>8. /\ view' \in [Tab -> [device : Device \cup {Nothing},
                            port : {"none", "up", "down", "offline"}]]
      /\ view'[t].device = d
      /\ \A u \in Tab \ {t} : view'[u] = view[u]
      /\ view'[t].port \in {"up", "down"} => view'[t] = view[t]
  BY <1>1, <1>3, <1>4
<1>9. /\ work' \in [Tab -> WorkType] /\ work'[t] = w
      /\ \A u \in Tab \ {t} : work'[u] = work[u]
  <2> HIDE DEF w
  <2> QED BY <1>1, <1>3, <1>7
<1>10. /\ waiting' \in [Tab -> Seq(ClickType)]
       /\ waiting'[t] = Tail(waiting[t])
       /\ \A u \in Tab \ {t} : waiting'[u] = waiting[u]
  <2>1. Tail(waiting[t]) \in Seq(ClickType)
    BY <1>1, <1>3
  <2> QED BY <1>1, <1>3, <2>1
<1> HIDE DEF c, w, d
<1>11. WorkFits(w, d)
  BY <1>2, <1>4, <1>5, <1>6, <1>7 DEF WorkFits
<1>12. Tail(waiting[t]) \in Seq(ClicksOf(d))
  BY <1>2, <1>5, SeqGrows
<1>13. PagesTypeOK'
  BY <1>1, <1>2, <1>8, <1>9, <1>10 DEF PagesIInv, PagesTypeOK, WorkType, backend
<1>14. ASSUME NEW u \in Tab PROVE TabFits(u)'
  <2>1. TabFits(u)
    BY DEF PagesIInv
  <2>2. /\ WorkFits(work'[u], view'[u].device)
        /\ waiting'[u] \in Seq(ClicksOf(view'[u].device))
        /\ view'[u].port \in {"up", "down"} => view'[u].device \in Device
    BY <1>8, <1>9, <1>10, <1>11, <1>12, <2>1 DEF TabFits
  <2> QED
    BY <2>2 DEF TabFits, WorkFits, ClicksOf
<1>15. ASSUME NEW u \in Tab, NEW q \in Page PROVE Shows(u, q)'
  <2>1. Shows(u, q)
    BY DEF PagesIInv
  <2>2. q \notin behind'[u] => shown'[u][q] = rows'[q] \/ ToLoad(work'[u], q)
    BY <1>1, <1>9, <2>1 DEF Shows, ToLoad, backend
  <2> QED
    BY <2>2 DEF Shows, ToLoad
<1> QED
  BY <1>13, <1>14, <1>15 DEF PagesIInv

\* trust_threat makes the authorized list another page's, and goes on to clear the threats.
LEMMA TrustStep ==
    ASSUME PagesIInv, NEW t \in Tab, TrustThreat(t)
    PROVE  PagesIInv'
<1>1. /\ work \in [Tab -> WorkType] /\ rows \in [Page -> SUBSET Item]
      /\ behind \in [Tab -> SUBSET Page] /\ lost \in 0..MaxLost
      /\ WorkFits(work[t], view[t].device)
  BY DEF PagesIInv, PagesTypeOK, TabFits, WorkType
<1>2. /\ work[t].at = "call" /\ work[t].click.do = "trust"
      /\ UNCHANGED <<named, setting, down, segment, shown, fields, asks, editing, view,
                     outcome, waiting, clicks>>
  BY DEF TrustThreat, Calls, ListRest
<1>3. work[t].click.arg \in Item
  BY <1>1, <1>2 DEF WorkFits, ClicksOf, ListHandlers
<1>4. /\ rows' \in [Page -> SUBSET Item]
      /\ \A q \in Page \ {"authorized"} : rows'[q] = rows[q]
      /\ lost' \in 0..MaxLost
  <2>1. "authorized" \in Page
    BY DEF Page, Edited
  <2>2. (UNCHANGED lost) \/ CallLost => lost' \in 0..MaxLost
    BY <1>1, PagesAssumption DEF CallLost
  <2>3. \E some \in SUBSET Item : rows' = [rows EXCEPT !["authorized"] = some]
    BY <1>1, <1>3, <2>1 DEF TrustThreat, Arg
  <2> QED
    BY <1>1, <2>1, <2>2, <2>3 DEF TrustThreat, Answered
<1>5. /\ behind' \in [Tab -> SUBSET Page]
      /\ \A u \in Tab : behind[u] \subseteq behind'[u]
      /\ rows' # rows => \A u \in Tab : "authorized" \in behind'[u]
  BY <1>1 DEF TrustThreat, Page, Edited
<1>6. PICK w \in WorkType : /\ work' = [work EXCEPT ![t] = w]
                            /\ WorkFits(w, view[t].device)
  <2>1. CASE work' = [work EXCEPT ![t].at = "clear"]
    <3> DEFINE w == [work[t] EXCEPT !.at = "clear"]
    <3>1. /\ w \in WorkType /\ w.at = "clear" /\ w.click = work[t].click
          /\ w.loads = work[t].loads
      BY <1>1 DEF WorkType
    <3>2. work' = [work EXCEPT ![t] = w]
      BY <1>1, <2>1
    <3> HIDE DEF w
    <3>3. WorkFits(w, view[t].device)
      BY <1>1, <1>2, <3>1 DEF WorkFits
    <3> QED
      BY <3>1, <3>2, <3>3
  <2>2. CASE Done(t)
    BY <2>2, StillFits DEF Done
  <2> QED
    BY <2>1, <2>2 DEF TrustThreat
<1>7. work' \in [Tab -> WorkType] /\ work'[t] = w /\ \A u \in Tab \ {t} : work'[u] = work[u]
  BY <1>1, <1>6
<1>8. PagesTypeOK'
  BY <1>2, <1>4, <1>5, <1>7 DEF PagesIInv, PagesTypeOK, WorkType
<1>9. ASSUME NEW u \in Tab PROVE TabFits(u)'
  <2>1. TabFits(u)
    BY DEF PagesIInv
  <2>2. /\ WorkFits(work'[u], view'[u].device)
        /\ waiting'[u] \in Seq(ClicksOf(view'[u].device))
        /\ view'[u].port \in {"up", "down"} => view'[u].device \in Device
    BY <1>2, <1>6, <1>7, <2>1 DEF TabFits
  <2> QED
    BY <2>2 DEF TabFits, WorkFits, ClicksOf
<1>10. ASSUME NEW u \in Tab, NEW q \in Page PROVE Shows(u, q)'
  <2>1. Shows(u, q) /\ ~ToLoad(work[t], q)
    BY <1>2 DEF PagesIInv, ToLoad
  <2>2. q \notin behind'[u] => shown'[u][q] = rows'[q] \/ ToLoad(work'[u], q)
    BY <1>2, <1>4, <1>5, <1>7, <2>1 DEF Shows
  <2> QED
    BY <2>2 DEF Shows, ToLoad
<1> QED
  BY <1>8, <1>9, <1>10 DEF PagesIInv

\* A handler that calls to edit its list, and then loads it.
LEMMA EditStep ==
    ASSUME PagesIInv, NEW t \in Tab, NEW p \in Page, NEW new \in SUBSET Item,
           Edit(t, p, new), work[t].at = "call", LoadsOf(work[t].click) = <<p>>, ListRest,
           asks' \in [Tab -> [Edited -> Item \cup {Nothing}]], UNCHANGED editing
    PROVE  PagesIInv'
<1>1. /\ lost \in 0..MaxLost /\ rows[p] \in SUBSET Item
      /\ editing \in [Tab -> Item \cup {Nothing}]
      /\ WorkFits(work[t], view[t].device)
  BY DEF PagesIInv, PagesTypeOK, TabFits
<1>2. PICK some \in SUBSET Item : Becomes(t, p, some)
  BY <1>1 DEF Edit
<1>3. lost' \in 0..MaxLost
  BY <1>1, PagesAssumption DEF Edit, Answered, CallLost
<1>4. Loading(t)
  BY DEF Edit
<1>5. work[t].loads = <<p>>
  BY <1>1 DEF WorkFits
<1>6. p \in {work[t].loads[i] : i \in DOMAIN work[t].loads}
  <2>1. 1 \in DOMAIN <<p>> /\ <<p>>[1] = p
    OBVIOUS
  <2> QED BY <1>5, <2>1
<1>7. /\ UNCHANGED <<named, setting, down, segment, shown, fields, view, outcome,
                     waiting, clicks>>
      /\ editing' \in [Tab -> Item \cup {Nothing}]
  BY <1>1 DEF ListRest
<1> QED
  BY <1>2, <1>3, <1>4, <1>6, <1>7, ListStep

\* The handlers that change a list at the backend load it anew, whatever the call did.
LEMMA ListHandlerStep ==
    ASSUME PagesIInv, NEW t \in Tab,
           \/ AddUser(t) \/ RemoveUser(t) \/ AddAuthorized(t) \/ RemoveAuthorized(t)
           \/ RemoveWlan(t) \/ ClearThreats(t)
    PROVE  PagesIInv'
<1>1. /\ rows \in [Page -> SUBSET Item] /\ WorkFits(work[t], view[t].device)
      /\ asks \in [Tab -> [Edited -> Item \cup {Nothing}]]
      /\ {"users", "authorized", "wlans", "threats"} \subseteq Page
  BY DEF PagesIInv, PagesTypeOK, TabFits, Page, Edited
<1>2. \A p : \A asked \in [Tab -> [Edited -> Item \cup {Nothing}]] :
          [asked EXCEPT ![t][p] = Nothing] \in [Tab -> [Edited -> Item \cup {Nothing}]]
  OBVIOUS
<1>3. CASE AddUser(t)
  <2>1. Arg(t) \in Item /\ work[t].at = "call" /\ LoadsOf(work[t].click) = <<"users">>
    BY <1>1, <1>3 DEF AddUser, Calls, Arg, WorkFits, ClicksOf, ListHandlers, LoadsOf
  <2>2. (rows["users"] \cup {Arg(t)}) \in SUBSET Item
    BY <1>1, <2>1
  <2> QED
    BY <1>1, <1>3, <2>1, <2>2, EditStep DEF AddUser
<1>4. CASE RemoveUser(t)
  <2>1. work[t].at = "call" /\ LoadsOf(work[t].click) = <<"users">>
    BY <1>4 DEF RemoveUser, Calls, LoadsOf
  <2>2. (IF rows["users"] = {Arg(t)} THEN rows["users"] ELSE rows["users"] \ {Arg(t)}) \in SUBSET Item
    BY <1>1
  <2> QED
    BY <1>1, <1>2, <1>4, <2>1, <2>2, EditStep DEF RemoveUser
<1>5. CASE AddAuthorized(t)
  <2>1. Arg(t) \in Item /\ work[t].at = "call" /\ LoadsOf(work[t].click) = <<"authorized">>
    BY <1>1, <1>5 DEF AddAuthorized, Calls, Arg, WorkFits, ClicksOf, ListHandlers, LoadsOf
  <2>2. (rows["authorized"] \cup {Arg(t)}) \in SUBSET Item
    BY <1>1, <2>1
  <2> QED
    BY <1>1, <1>5, <2>1, <2>2, EditStep DEF AddAuthorized
<1>6. CASE RemoveAuthorized(t)
  <2>1. work[t].at = "call" /\ LoadsOf(work[t].click) = <<"authorized">>
    BY <1>6 DEF RemoveAuthorized, Calls, LoadsOf
  <2>2. (rows["authorized"] \ {Arg(t)}) \in SUBSET Item
    BY <1>1
  <2> QED
    BY <1>1, <1>2, <1>6, <2>1, <2>2, EditStep DEF RemoveAuthorized
<1>7. CASE RemoveWlan(t)
  <2>1. work[t].at = "call" /\ LoadsOf(work[t].click) = <<"wlans">>
    BY <1>7 DEF RemoveWlan, Calls, LoadsOf
  <2>2. (rows["wlans"] \ {Arg(t)}) \in SUBSET Item
    BY <1>1
  <2> QED
    BY <1>1, <1>2, <1>7, <2>1, <2>2, EditStep DEF RemoveWlan
<1>8. CASE ClearThreats(t)
  <2>1. work[t].at = "clear" /\ work[t].loads = <<"threats">>
    BY <1>1, <1>8 DEF ClearThreats, WorkFits, LoadsOf
  <2>2. "threats" \in {work[t].loads[i] : i \in DOMAIN work[t].loads}
    <3>1. 1 \in DOMAIN <<"threats">> /\ <<"threats">>[1] = "threats"
      OBVIOUS
    <3> QED BY <2>1, <3>1
  <2>3. PICK some \in SUBSET Item : Becomes(t, "threats", some)
    BY <1>1, <1>8 DEF ClearThreats
  <2>4. lost' \in 0..MaxLost
    BY <1>8, PagesAssumption DEF ClearThreats, Answered, CallLost, PagesIInv, PagesTypeOK
  <2>5. /\ Loading(t)
        /\ UNCHANGED <<named, setting, down, segment, shown, fields, view, outcome, waiting, clicks>>
        /\ asks' \in [Tab -> [Edited -> Item \cup {Nothing}]]
        /\ editing' \in [Tab -> Item \cup {Nothing}]
    BY <1>8 DEF ClearThreats, ListRest, PagesIInv, PagesTypeOK
  <2> QED
    BY <1>1, <2>1, <2>2, <2>3, <2>4, <2>5, ListStep
<1> QED
  BY <1>3, <1>4, <1>5, <1>6, <1>7, <1>8

\* A field of a form is set.
LEMMA FieldSet ==
    ASSUME NEW f \in [Tab -> [Setting -> BOOLEAN]], NEW t \in Tab, NEW s \in Setting, NEW v \in BOOLEAN
    PROVE  [f EXCEPT ![t][s] = v] \in [Tab -> [Setting -> BOOLEAN]]
  OBVIOUS

\* The work of a handler whose call does not change a list.
LEMMA QuietWork ==
    ASSUME PagesIInv, NEW t \in Tab, work[t].at = "call", Loading(t) \/ Done(t)
    PROVE  \E w \in WorkType : /\ WorkFits(w, view[t].device)
                               /\ work' = [work EXCEPT ![t] = w]
<1>1. work[t] \in WorkType /\ WorkFits(work[t], view[t].device)
  BY DEF PagesIInv, PagesTypeOK, TabFits, WorkType
<1> DEFINE w == IF work[t].loads = << >> THEN Still ELSE [work[t] EXCEPT !.at = "load"]
<1>2. w \in WorkType /\ WorkFits(w, view[t].device)
  BY <1>1, LoadingFits
<1>3. Loading(t) => work' = [work EXCEPT ![t] = w]
  BY DEF Loading
<1> HIDE DEF w
<1> QED
  BY <1>2, <1>3, StillFits DEF Done

\* The handlers that change no list.
LEMMA QuietHandlerStep ==
    ASSUME PagesIInv, NEW t \in Tab,
           \/ SaveWlanEdit(t) \/ RunScan(t) \/ SetEnforcement(t) \/ SavePolicy(t)
           \/ TogglePort(t) \/ RunProvision(t) \/ RunDeprovision(t)
    PROVE  PagesIInv'
<1>1. work[t].at = "call" /\ (Loading(t) \/ Done(t))
  BY DEF SaveWlanEdit, RunScan, SetEnforcement, SavePolicy, TogglePort, RunProvision,
         RunDeprovision, Calls
<1>2. PICK w \in WorkType : WorkFits(w, view[t].device) /\ work' = [work EXCEPT ![t] = w]
  BY <1>1, QuietWork
<1>3. \A p \in Page : ~ToLoad(work[t], p)
  BY <1>1 DEF ToLoad
<1>4. UNCHANGED <<rows, shown, behind, waiting, clicks, view, asks>>
  BY DEF SaveWlanEdit, RunScan, SetEnforcement, SavePolicy, TogglePort, RunProvision,
         RunDeprovision, ListRest, face
<1>5. lost' \in 0..MaxLost
  <2>1. lost' = lost \/ (lost < MaxLost /\ lost' = lost + 1)
    BY DEF SaveWlanEdit, RunScan, SetEnforcement, SavePolicy, TogglePort, RunProvision,
           RunDeprovision, Answered, CallLost
  <2> QED
    BY <2>1, PagesAssumption DEF PagesIInv, PagesTypeOK
<1>6. /\ named \subseteq Item /\ setting \in [Setting -> BOOLEAN] /\ down \subseteq Device
      /\ segment \in BOOLEAN /\ fields \in [Tab -> [Setting -> BOOLEAN]]
      /\ asks \in [Tab -> [Edited -> Item \cup {Nothing}]]
      /\ editing \in [Tab -> Item \cup {Nothing}]
      /\ outcome \in [Tab -> {"none", "finished", "failed", "unconfirmed"}]
      /\ view \in [Tab -> [device : Device \cup {Nothing},
                           port : {"none", "up", "down", "offline"}]]
      /\ rows["wlans"] \subseteq Item
      /\ work[t].click.to \in BOOLEAN
      /\ view[t].port \in {"up", "down"} => view[t].device \in Device
  BY DEF PagesIInv, PagesTypeOK, TabFits, ClickType, Page, Edited
<1>7. /\ named' \subseteq Item /\ setting' \in [Setting -> BOOLEAN] /\ down' \subseteq Device
      /\ segment' \in BOOLEAN /\ fields' \in [Tab -> [Setting -> BOOLEAN]]
      /\ editing' \in [Tab -> Item \cup {Nothing}]
      /\ outcome' \in [Tab -> {"none", "finished", "failed", "unconfirmed"}]
  <2>1. CASE SaveWlanEdit(t)
    BY <1>6, <2>1 DEF SaveWlanEdit
  <2>2. CASE RunScan(t)
    BY <1>6, <2>2 DEF RunScan, ListRest
  <2>3. CASE SetEnforcement(t)
    <3> DEFINE new == [setting EXCEPT !["mode"] = work[t].click.to]
    <3>1. /\ setting' = setting \/ setting' = new
          /\ fields' = fields \/ fields' = [fields EXCEPT ![t]["mode"] = work[t].click.to]
          /\ UNCHANGED <<named, down, segment, editing, outcome>>
      BY <2>3 DEF SetEnforcement
    <3>2. new \in [Setting -> BOOLEAN]
      BY <1>6
    <3> HIDE DEF new
    <3>3. "mode" \in Setting
      BY DEF Setting
    <3>4. fields' \in [Tab -> [Setting -> BOOLEAN]]
      <4> DEFINE v == work[t].click.to
      <4>1. v \in BOOLEAN /\ fields \in [Tab -> [Setting -> BOOLEAN]]
        BY <1>6
      <4>2. [fields EXCEPT ![t]["mode"] = v] \in [Tab -> [Setting -> BOOLEAN]]
        <5> HIDE DEF v
        <5> QED BY <3>3, <4>1, FieldSet
      <4>3. fields' = fields \/ fields' = [fields EXCEPT ![t]["mode"] = v]
        BY <3>1, Zenon
      <4> HIDE DEF v
      <4> QED
        BY <4>1, <4>2, <4>3, Zenon
    <3> QED
      BY <1>6, <3>1, <3>2, <3>4
  <2>4. CASE SavePolicy(t)
    BY <1>6, <2>4 DEF SavePolicy
  <2>5. CASE TogglePort(t)
    <3>1. view[t].device \in Device
      BY <2>5 DEF TogglePort, Calls, PagesIInv, TabFits, WorkFits, ClicksOf
    <3> QED
      BY <1>6, <2>5, <3>1 DEF TogglePort, face
  <2>6. CASE RunProvision(t)
    BY <1>6, <2>6 DEF RunProvision
  <2>7. CASE RunDeprovision(t)
    BY <1>6, <2>7 DEF RunDeprovision
  <2> QED
    BY <2>1, <2>2, <2>3, <2>4, <2>5, <2>6, <2>7
<1> QED
  BY <1>2, <1>3, <1>4, <1>5, <1>6, <1>7, QuietStep

\* A setting, or the port, is loaded.
LEMMA LoadRestStep ==
    ASSUME PagesIInv, NEW t \in Tab,
           LoadEnforcement(t) \/ LoadScheduler(t) \/ FetchInterfaces(t)
    PROVE  PagesIInv'
<1>1. PICK l \in {"mode", "policy", "port"} : Loads(t, l)
  BY DEF LoadEnforcement, LoadScheduler, LoadSetting, FetchInterfaces
<1>2. /\ work[t] \in WorkType /\ WorkFits(work[t], view[t].device)
      /\ work[t].at = "load" /\ Head(work[t].loads) = l
  BY <1>1 DEF Loads, PagesIInv, PagesTypeOK, TabFits, WorkType
<1> DEFINE w == IF Len(work[t].loads) = 1 THEN Still
                ELSE [work[t] EXCEPT !.loads = Tail(@)]
<1>3. /\ w \in WorkType /\ WorkFits(w, view[t].device)
      /\ \A q : ToLoad(work[t], q) => q = Head(work[t].loads) \/ ToLoad(w, q)
  BY <1>2, LoadsFit
<1>4. work' = [work EXCEPT ![t] = w]
  BY <1>1 DEF Loads
<1> HIDE DEF w
<1>5. \A p \in Page : ToLoad(work[t], p) => ToLoad(w, p)
  BY <1>2, <1>3 DEF Page, Edited
<1>6. /\ UNCHANGED <<rows, shown, behind, waiting, clicks, named, setting, down, segment,
                     asks, editing, outcome>>
      /\ lost' \in 0..MaxLost
  BY PagesAssumption DEF LoadEnforcement, LoadScheduler, LoadSetting, FetchInterfaces,
     LoadRest, backend, Answered, CallLost, PagesIInv, PagesTypeOK
<1>7. /\ named \subseteq Item /\ setting \in [Setting -> BOOLEAN] /\ down \subseteq Device
      /\ segment \in BOOLEAN /\ fields \in [Tab -> [Setting -> BOOLEAN]]
      /\ asks \in [Tab -> [Edited -> Item \cup {Nothing}]]
      /\ editing \in [Tab -> Item \cup {Nothing}]
      /\ outcome \in [Tab -> {"none", "finished", "failed", "unconfirmed"}]
      /\ view \in [Tab -> [device : Device \cup {Nothing},
                           port : {"none", "up", "down", "offline"}]]
      /\ view[t].port \in {"up", "down"} => view[t].device \in Device
  BY DEF PagesIInv, PagesTypeOK, TabFits
<1>8. /\ fields' \in [Tab -> [Setting -> BOOLEAN]]
      /\ view' \in [Tab -> [device : Device \cup {Nothing},
                            port : {"none", "up", "down", "offline"}]]
      /\ \A u \in Tab : view'[u].device = view[u].device
      /\ \A u \in Tab \ {t} : view'[u] = view[u]
      /\ view'[t].port \in {"up", "down"} => view[t].device \in Device
  <2>1. CASE \E s \in Setting : LoadSetting(t, s)
    <3>1. \A s \in Setting : setting[s] \in BOOLEAN
      BY <1>7
    <3>2. PICK s \in Setting : fields' = fields \/ fields' = [fields EXCEPT ![t][s] = setting[s]]
      BY <2>1 DEF LoadSetting
    <3>3. fields' \in [Tab -> [Setting -> BOOLEAN]]
      <4>1. [fields EXCEPT ![t][s] = setting[s]] \in [Tab -> [Setting -> BOOLEAN]]
        <5> DEFINE v == setting[s]
        <5>1. v \in BOOLEAN
          BY <3>1, <3>2
        <5> HIDE DEF v
        <5>2. [fields EXCEPT ![t][s] = v] \in [Tab -> [Setting -> BOOLEAN]]
          BY <1>7, <3>2, <5>1, FieldSet
        <5> QED
          BY <5>2, Zenon DEF v
      <4> QED
        BY <1>7, <3>2, <4>1, Zenon
    <3> QED
      BY <1>7, <2>1, <3>3 DEF LoadSetting
  <2>2. CASE FetchInterfaces(t)
    <3>1. Head(work[t].loads) = "port" /\ work[t].loads # << >>
          /\ work[t].loads \in Seq(Page \cup Setting \cup {"port"})
      BY <1>2, <2>2 DEF FetchInterfaces, Loads, WorkFits, WorkType
    <3>2. "port" \in {work[t].loads[i] : i \in DOMAIN work[t].loads}
      BY <3>1
    <3>3. view[t].device \in Device
      BY <1>2, <3>2 DEF WorkFits
    <3>4. PICK q \in {"up", "down", "offline"} : view' = [view EXCEPT ![t].port = q]
      BY <2>2 DEF FetchInterfaces
    <3>5. fields' = fields
      BY <2>2 DEF FetchInterfaces
    <3>6. view' \in [Tab -> [device : Device \cup {Nothing},
                             port : {"none", "up", "down", "offline"}]]
      BY <1>7, <3>4
    <3>7. /\ \A u \in Tab : view'[u].device = view[u].device
          /\ \A u \in Tab \ {t} : view'[u] = view[u]
      BY <1>7, <3>4
    <3> QED
      BY <1>7, <3>3, <3>5, <3>6, <3>7
  <2> QED
    BY <2>1, <2>2 DEF LoadEnforcement, LoadScheduler, Setting
<1>9. WorkFits(w, view'[t].device)
  BY <1>3, <1>8
<1> QED
  BY <1>3, <1>4, <1>5, <1>6, <1>7, <1>8, <1>9, QuietStep

\* At first nothing is behind.
LEMMA PagesInitIInv == PagesInit => PagesIInv
<1> SUFFICES ASSUME PagesInit PROVE PagesIInv
  OBVIOUS
<1>1. PICK r \in Item : rows = [p \in Page |-> {r}]
  BY DEF PagesInit
<1>2. PICK opened \in SUBSET Tab :
         /\ shown = [t \in Tab |-> IF t \in opened THEN rows ELSE [p \in Page |-> {}]]
         /\ behind = [t \in Tab |-> IF t \in opened THEN {} ELSE Page]
  BY DEF PagesInit
<1>3. /\ rows \in [Page -> SUBSET Item]
      /\ shown \in [Tab -> [Page -> SUBSET Item]] /\ behind \in [Tab -> SUBSET Page]
      /\ \A t \in Tab, p \in Page : p \notin behind[t] => shown[t][p] = rows[p]
  BY <1>1, <1>2
<1>4. /\ waiting = [t \in Tab |-> <<>>] /\ work = [t \in Tab |-> Still]
      /\ view = [t \in Tab |-> [device |-> Nothing, port |-> "none"]]
      /\ asks = [t \in Tab |-> [p \in Edited |-> Nothing]]
      /\ editing = [t \in Tab |-> Nothing]
      /\ outcome = [t \in Tab |-> "none"]
      /\ named = {} /\ down = {} /\ segment = FALSE /\ clicks = 0 /\ lost = 0
  BY DEF PagesInit
<1>5. setting \in [Setting -> BOOLEAN] /\ fields \in [Tab -> [Setting -> BOOLEAN]]
  BY DEF PagesInit
<1>6. \A S : << >> \in Seq(S)
  OBVIOUS
<1>7. Len(<< >>) = 0
  OBVIOUS
<1>8. /\ waiting \in [Tab -> Seq(ClickType)]
      /\ \A t \in Tab : Len(waiting[t]) <= MaxWaiting
      /\ work \in [Tab -> WorkType]
  <2>1. \A t \in Tab : waiting[t] = << >>
    BY <1>4
  <2>2. \A t \in Tab : Len(waiting[t]) <= MaxWaiting
    BY <1>7, <2>1, PagesAssumption
  <2>3. waiting \in [Tab -> Seq(ClickType)]
    BY <1>4, <1>6
  <2> QED
    BY <1>4, <2>2, <2>3, StillFits
<1>9. PagesTypeOK
  <2>1. 0 \in 0..MaxClicks /\ 0 \in 0..MaxLost
    BY PagesAssumption
  <2>2. asks \in [Tab -> [Edited -> Item \cup {Nothing}]]
    BY <1>4
  <2>3. /\ view \in [Tab -> [device : Device \cup {Nothing}, port : {"none", "up", "down", "offline"}]]
        /\ editing \in [Tab -> Item \cup {Nothing}]
        /\ outcome \in [Tab -> {"none", "finished", "failed", "unconfirmed"}]
    BY <1>4
  <2>4. named \subseteq Item /\ down \subseteq Device /\ segment \in BOOLEAN
    BY <1>4
  <2> QED
    BY <1>3, <1>4, <1>5, <1>8, <2>1, <2>2, <2>3, <2>4 DEF PagesTypeOK, WorkType
<1>10. \A t \in Tab : TabFits(t)
  BY <1>4, <1>6, StillFits DEF TabFits
<1>11. \A t \in Tab, p \in Page : Shows(t, p)
  BY <1>3 DEF Shows
<1> QED
  BY <1>9, <1>10, <1>11 DEF PagesIInv

\* Every step of the pages keeps the invariant.
LEMMA PagesStep == PagesIInv /\ [PagesNext]_pageVars => PagesIInv'
<1> SUFFICES ASSUME PagesIInv, [PagesNext]_pageVars PROVE PagesIInv'
  OBVIOUS
<1>1. CASE UNCHANGED pageVars
  <2>1. PagesTypeOK'
    BY <1>1 DEF pageVars, backend, face, PagesIInv, PagesTypeOK
  <2>2. \A t \in Tab : TabFits(t)'
    BY <1>1 DEF pageVars, backend, face, PagesIInv, TabFits, WorkFits, ClicksOf
  <2>3. \A t \in Tab, p \in Page : Shows(t, p)'
    BY <1>1 DEF pageVars, backend, face, PagesIInv, Shows, ToLoad
  <2> QED
    BY <2>1, <2>2, <2>3 DEF PagesIInv
<1>2. ASSUME NEW t \in Tab, LoadUserList(t) \/ LoadAuthorized(t) \/ LoadThreats(t) \/ LoadWlans(t)
      PROVE  PagesIInv'
  <2>1. shown[t] \in [Page -> SUBSET Item] /\ {"users", "authorized", "wlans", "threats"} \subseteq Page
    BY DEF PagesIInv, PagesTypeOK, Page, Edited
  <2>2. \E p \in Page : \E failed \in SUBSET Item : LoadList(t, p, failed)
    BY <1>2, <2>1 DEF LoadUserList, LoadAuthorized, LoadThreats, LoadWlans
  <2> QED
    BY <2>2, LoadListStep
<1> QED
  BY <1>1, <1>2, ClicksStep, BeginStep, AskStep, ListHandlerStep, QuietHandlerStep, TrustStep,
     LoadRestStep DEF PagesNext, HandlerStep

\* The invariant holds in every state.
LEMMA PagesInvariant == PagesSpec => []PagesIInv
  BY PagesInitIInv, PagesStep, PTL DEF PagesSpec

\* The lists, what the tabs show of them, and the handlers under way keep their types.
THEOREM PagesTypes == PagesSpec => []PagesTypeOK
<1>1. PagesIInv => PagesTypeOK
  BY DEF PagesIInv
<1> QED
  BY <1>1, PagesInvariant, PTL

\* For any number of tabs and clicks held back, and any number of lost calls: a tab at rest
\* shows the list that the backend has, unless that load was lost or another edited it since.
THEOREM EditsAreShown == PagesSpec => []OwnEditsShown
<1>1. PagesIInv => OwnEditsShown
  BY DEF PagesIInv, OwnEditsShown, Shows, ToLoad
<1> QED
  BY <1>1, PagesInvariant, PTL

=============================================================================
