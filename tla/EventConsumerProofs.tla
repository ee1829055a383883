-------------------------- MODULE EventConsumerProofs --------------------------
(***************************************************************************)
(* EventConsumer, for every set of events, every number of retries and     *)
(* every prefetch limit: its types, that no event is lost, and that events *)
(* are given up only after all retries.                                    *)
(***************************************************************************)
EXTENDS EventConsumer, SequenceTheorems, FiniteSetTheorems, TLAPS

-------------------------------------------------------------------------------
(* The inductive invariant.                                                  *)

\* A copy counts no more retries than the event has failed.
Counted(m) == /\ m.event \in arrived
              /\ failures[m.event] >= m.retries
              /\ m.key = "queue" => failures[m.event] > 0

\* No retries are left of the event, or none are made.
Spent(e) == failures[e] > MaxRetries \/ DroppedAtOnce(e)

Unsettled(e) == e \in arrived /\ e \notin handled \cup givenUp /\ ~Excused(e)

\* The broker has a copy that was retried n times at least.
Stored(e, n) == \/ \E i \in DOMAIN ready   : ready[i].event = e /\ ready[i].retries >= n
                \/ \E t \in DOMAIN unacked : unacked[t].event = e /\ unacked[t].retries >= n

\* Before frame i there is a copy of the event under way that counts more than n.
Published(e, n, i) ==
  \E j \in DOMAIN wire : /\ j < i /\ wire[j].op = "publish"
                         /\ wire[j].own.event = e /\ wire[j].own.retries >= n

ReadyCounted   == \A i \in DOMAIN ready : Counted(ready[i])
UnackedCounted == \A t \in DOMAIN unacked : Counted(unacked[t])
WireCounted    == \A i \in DOMAIN wire :
                    /\ Counted(wire[i].own)
                    /\ wire[i].op = "nack" => Spent(wire[i].own.event)
TasksCounted   == \A t \in tasks :
                    /\ Counted(t.msg)
                    /\ t.at = "timer" => /\ t.msg.retries < MaxRetries
                                         /\ failures[t.msg.event] > t.msg.retries
AllStored      == \A e \in Events : Unsettled(e) => Stored(e, 0)

\* An acknowledgement under way is preceded by the copy that replaces the
\* message, which may be at the broker already.
CopiesFirst ==
  \A i \in DOMAIN wire : wire[i].op = "ack" /\ Unsettled(wire[i].own.event) =>
    LET m == wire[i].own IN
      Stored(m.event, m.retries + 1) \/ Published(m.event, m.retries + 1, i)

IInv == /\ TypeOK
        /\ ReadyCounted /\ UnackedCounted /\ WireCounted /\ TasksCounted
        /\ GivenUpAfterRetries /\ AllStored /\ CopiesFirst

-------------------------------------------------------------------------------
(* Lemmas on sequences and on the end of a channel.                          *)

LEMMA OneMore ==
  ASSUME NEW X, NEW s \in Seq(X), NEW x \in X
  PROVE  /\ s \o <<x>> \in Seq(X)
         /\ DOMAIN (s \o <<x>>) = 1..(Len(s) + 1)
         /\ \A i \in DOMAIN s : (s \o <<x>>)[i] = s[i]
         /\ (s \o <<x>>)[Len(s) + 1] = x
         /\ DOMAIN s = 1..Len(s) /\ Len(s) \in Nat
<1>1. <<x>> \in Seq(X) /\ Len(<<x>>) = 1 /\ <<x>>[1] = x
  OBVIOUS
<1>2. /\ s \o <<x>> \in Seq(X)
      /\ Len(s \o <<x>>) = Len(s) + 1
      /\ \A i \in 1..(Len(s) + 1) :
           (s \o <<x>>)[i] = IF i <= Len(s) THEN s[i] ELSE <<x>>[i - Len(s)]
  BY <1>1, ConcatProperties
<1>3. DOMAIN s = 1..Len(s) /\ Len(s) \in Nat
  BY LenProperties
<1>4. DOMAIN (s \o <<x>>) = 1..(Len(s) + 1)
  BY <1>2, LenProperties
<1>5. (s \o <<x>>)[Len(s) + 1] = <<x>>[(Len(s) + 1) - Len(s)]
  BY <1>2, <1>3
<1>6. (Len(s) + 1) - Len(s) = 1
  BY <1>3
<1>7. \A i \in DOMAIN s : (s \o <<x>>)[i] = s[i]
  BY <1>2, <1>3
<1> QED BY <1>1, <1>2, <1>3, <1>4, <1>5, <1>6, <1>7

LEMMA TwoMore ==
  ASSUME NEW X, NEW s \in Seq(X), NEW x \in X, NEW y \in X
  PROVE  /\ s \o <<x, y>> \in Seq(X)
         /\ DOMAIN (s \o <<x, y>>) = 1..(Len(s) + 2)
         /\ \A i \in DOMAIN s : (s \o <<x, y>>)[i] = s[i]
         /\ (s \o <<x, y>>)[Len(s) + 1] = x
         /\ (s \o <<x, y>>)[Len(s) + 2] = y
         /\ DOMAIN s = 1..Len(s) /\ Len(s) \in Nat
<1>1. <<x, y>> \in Seq(X) /\ Len(<<x, y>>) = 2 /\ <<x, y>>[1] = x /\ <<x, y>>[2] = y
  OBVIOUS
<1>2. /\ s \o <<x, y>> \in Seq(X)
      /\ Len(s \o <<x, y>>) = Len(s) + 2
      /\ \A i \in 1..(Len(s) + 2) :
           (s \o <<x, y>>)[i] = IF i <= Len(s) THEN s[i] ELSE <<x, y>>[i - Len(s)]
  BY <1>1, ConcatProperties
<1>3. DOMAIN s = 1..Len(s) /\ Len(s) \in Nat
  BY LenProperties
<1>4. DOMAIN (s \o <<x, y>>) = 1..(Len(s) + 2)
  BY <1>2, LenProperties
<1>5. /\ (s \o <<x, y>>)[Len(s) + 1] = <<x, y>>[(Len(s) + 1) - Len(s)]
      /\ (s \o <<x, y>>)[Len(s) + 2] = <<x, y>>[(Len(s) + 2) - Len(s)]
  BY <1>2, <1>3
<1>6. (Len(s) + 1) - Len(s) = 1 /\ (Len(s) + 2) - Len(s) = 2
  BY <1>3
<1>7. \A i \in DOMAIN s : (s \o <<x, y>>)[i] = s[i]
  BY <1>2, <1>3
<1> QED BY <1>1, <1>2, <1>3, <1>4, <1>5, <1>6, <1>7

LEMMA OneLess ==
  ASSUME NEW X, NEW s \in Seq(X), s # <<>>
  PROVE  /\ Head(s) = s[1] /\ Head(s) \in X /\ 1 \in DOMAIN s
         /\ Tail(s) \in Seq(X)
         /\ \A i \in DOMAIN Tail(s) : i + 1 \in DOMAIN s /\ Tail(s)[i] = s[i + 1]
         /\ \A i \in DOMAIN s : i = 1 \/ (i - 1 \in DOMAIN Tail(s) /\ Tail(s)[i - 1] = s[i])
         /\ DOMAIN s \subseteq Nat
<1>1. Len(s) \in Nat /\ Len(s) # 0 /\ DOMAIN s = 1..Len(s)
  BY LenProperties, EmptySeq
<1>2. /\ Tail(s) \in Seq(X) /\ Len(Tail(s)) = Len(s) - 1
      /\ \A i \in 1..Len(Tail(s)) : Tail(s)[i] = s[i + 1]
      /\ Head(s) \in X /\ Head(s) = s[1]
  BY HeadTailProperties
<1>3. DOMAIN Tail(s) = 1..(Len(s) - 1)
  BY <1>2, LenProperties
<1>4. \A i \in DOMAIN s : i = 1 \/ (i - 1 \in DOMAIN Tail(s) /\ Tail(s)[i - 1] = s[i])
  <2> SUFFICES ASSUME NEW i \in DOMAIN s, i # 1
               PROVE  i - 1 \in DOMAIN Tail(s) /\ Tail(s)[i - 1] = s[i]
    OBVIOUS
  <2>1. i - 1 \in 1..(Len(s) - 1) /\ (i - 1) + 1 = i
    BY <1>1
  <2> QED BY <2>1, <1>2, <1>3
<1> QED BY <1>1, <1>2, <1>3, <1>4

\* The fields of a message, of a frame and of a task.
LEMMA Fields ==
  /\ MaxRetries \in Nat /\ MaxSessions \in Nat /\ 0 \in 0..MaxRetries
  /\ \A m \in Msg : m.event \in Events /\ m.retries \in Nat /\ m.key \in {"event", "queue"}
  /\ \A f \in Frame : f.own \in Msg /\ f.op \in {"ack", "nack", "publish"} /\ f.tag \in Nat
  /\ \A t \in Task : t.msg \in Msg /\ t.tag \in Nat /\ t.session \in Nat
<1>1. MaxRetries \in Nat /\ MaxSessions \in Nat
  BY ConsumerAssumption
<1>2. 0..MaxRetries \subseteq Nat /\ 0 \in 0..MaxRetries
  BY <1>1
<1> QED BY <1>1, <1>2 DEF Msg, Frame, Task

\* The messages of the queue after the end of a channel.
LEMMA BackInQueue ==
  ASSUME TypeOK, Forgotten
  PROVE  /\ ready' \in Seq(Msg)
         /\ \A i \in DOMAIN ready' : \/ \E j \in DOMAIN ready : ready'[i] = ready[j]
                                     \/ \E t \in DOMAIN unacked : ready'[i] = unacked[t]
         /\ \A j \in DOMAIN ready : \E i \in DOMAIN ready' : ready'[i] = ready[j]
         /\ \A t \in DOMAIN unacked : \E i \in DOMAIN ready' : ready'[i] = unacked[t]
<1> DEFINE n == Cardinality(DOMAIN unacked)
<1>1. n \in Nat
  <2>0. lastTag \in Int /\ 1 \in Int
    BY DEF TypeOK
  <2>1. IsFiniteSet(1..lastTag)
    BY <2>0, FS_Interval
  <2>2. IsFiniteSet(DOMAIN unacked)
    BY <2>1, FS_Subset DEF TypeOK
  <2> QED BY <2>2, FS_CardinalityType
<1>2. PICK tags \in InOrder(DOMAIN unacked) :
        ready' = [i \in DOMAIN tags |-> unacked[tags[i]]] \o ready
  BY DEF Forgotten, Requeued
<1> DEFINE back == [i \in DOMAIN tags |-> unacked[tags[i]]]
<1>3. /\ tags \in [1..n -> DOMAIN unacked] /\ DOMAIN tags = 1..n
      /\ \A t \in DOMAIN unacked : \E i \in DOMAIN tags : tags[i] = t
  BY <1>2 DEF InOrder
<1>4. \A t \in DOMAIN unacked : unacked[t] \in Msg
  BY DEF TypeOK
<1>5. back \in [1..n -> Msg]
  BY <1>3, <1>4
<1>6. back \in Seq(Msg) /\ Len(back) = n
  BY <1>1, <1>5, LenProperties
<1>7. ready \in Seq(Msg) /\ DOMAIN ready = 1..Len(ready) /\ Len(ready) \in Nat
  BY LenProperties DEF TypeOK
<1> HIDE DEF n, back
<1>8. /\ back \o ready \in Seq(Msg)
      /\ Len(back \o ready) = n + Len(ready)
      /\ \A i \in 1..(n + Len(ready)) :
           (back \o ready)[i] = IF i <= n THEN back[i] ELSE ready[i - n]
  BY <1>6, <1>7, ConcatProperties
<1>9. ready' = back \o ready
  BY <1>2 DEF back
<1>10. DOMAIN ready' = 1..(n + Len(ready))
  BY <1>8, <1>9, LenProperties
<1>11. \A i \in 1..n : back[i] = unacked[tags[i]] /\ tags[i] \in DOMAIN unacked
  BY <1>3 DEF back
<1>12. ASSUME NEW i \in DOMAIN ready'
       PROVE  \/ \E j \in DOMAIN ready : ready'[i] = ready[j]
              \/ \E t \in DOMAIN unacked : ready'[i] = unacked[t]
  <2>1. CASE i <= n
    <3>1. i \in 1..n /\ ready'[i] = back[i]
      BY <1>1, <1>7, <1>8, <1>9, <1>10, <1>12, <2>1
    <3> QED BY <3>1, <1>11
  <2>2. CASE ~(i <= n)
    <3>1. i - n \in DOMAIN ready /\ ready'[i] = ready[i - n]
      BY <1>1, <1>7, <1>8, <1>9, <1>10, <1>12, <2>2
    <3> QED BY <3>1
  <2> QED BY <2>1, <2>2
<1>13. ASSUME NEW j \in DOMAIN ready
       PROVE  \E i \in DOMAIN ready' : ready'[i] = ready[j]
  <2>1. n + j \in DOMAIN ready' /\ ~(n + j <= n) /\ (n + j) - n = j
    BY <1>1, <1>7, <1>10, <1>13
  <2> QED BY <2>1, <1>8, <1>9, <1>10
<1>14. ASSUME NEW t \in DOMAIN unacked
       PROVE  \E i \in DOMAIN ready' : ready'[i] = unacked[t]
  <2>1. PICK i \in 1..n : tags[i] = t
    BY <1>3, <1>14
  <2>2. i \in DOMAIN ready' /\ i \in 1..(n + Len(ready)) /\ i <= n
    BY <1>1, <1>7, <1>10, <2>1
  <2> QED BY <2>1, <2>2, <1>8, <1>9, <1>11
<1> QED BY <1>8, <1>9, <1>12, <1>13, <1>14

-------------------------------------------------------------------------------
(* Lemmas on steps.                                                          *)

\* What no step but the arrival of an event undoes.
Later == /\ UNCHANGED <<dispatch, malformed, arrived>>
         /\ handled \subseteq handled' /\ givenUp \subseteq givenUp' /\ misacked \subseteq misacked'
         /\ failures' \in [Events -> Nat]
         /\ \A e \in Events : failures'[e] >= failures[e]

LEMMA SameCounts ==
  ASSUME NEW f \in [Events -> Nat]
  PROVE  \A e \in Events : f[e] >= f[e]
  OBVIOUS

LEMMA LaterKeeps ==
  ASSUME TypeOK, Later
  PROVE  /\ \A e \in Events : Unsettled(e)' => Unsettled(e)
         /\ \A m \in Msg : Counted(m) => Counted(m)'
         /\ \A e \in Events : failures[e] \in Nat /\ failures'[e] \in Nat
         /\ \A e \in Events : Spent(e) => Spent(e)'
<1>1. \A e \in Events : failures[e] \in Nat /\ failures'[e] \in Nat /\ failures'[e] >= failures[e]
  BY DEF Later, TypeOK
<1>2. ASSUME NEW e \in Events, Unsettled(e)' PROVE Unsettled(e)
  <2>1. failures[e] > 0 => failures'[e] > 0
    BY <1>1
  <2> QED BY <1>2, <2>1 DEF Later, Unsettled, Excused
<1>3. ASSUME NEW m \in Msg, Counted(m) PROVE Counted(m)'
  <2>1. m.event \in Events /\ m.retries \in Nat
    BY Fields
  <2>2. /\ failures'[m.event] >= m.retries
        /\ m.key = "queue" => failures'[m.event] > 0
    BY <1>1, <1>3, <2>1 DEF Counted
  <2> QED BY <1>3, <2>2 DEF Counted, Later
<1>4. ASSUME NEW e \in Events, Spent(e) PROVE Spent(e)'
  <2>1. MaxRetries \in Nat
    BY Fields
  <2>2. failures[e] > MaxRetries => failures'[e] > MaxRetries
    BY <1>1, <2>1
  <2> QED BY <1>4, <2>2 DEF Spent, DroppedAtOnce, Later
<1> QED BY <1>1, <1>2, <1>3, <1>4

\* An event that is given up stays within the claim when failures are added.
LEMMA LaterGivenUp ==
  ASSUME TypeOK, Later, GivenUpAfterRetries, UNCHANGED <<givenUp, misacked>>
  PROVE  GivenUpAfterRetries'
<1> SUFFICES ASSUME NEW e \in givenUp' \ misacked' PROVE Spent(e)'
  BY DEF GivenUpAfterRetries, Spent
<1>1. e \in Events /\ Spent(e)
  BY DEF GivenUpAfterRetries, TypeOK, Spent
<1> QED BY <1>1, LaterKeeps

\* The end of a channel.
LEMMA ChannelEnds ==
  ASSUME IInv, Forgotten, Later, tasks' \subseteq tasks,
         UNCHANGED <<session, givenUp, misacked>>, handled' \subseteq arrived,
         channel' \in {"null", "setup", "open", "dead"}, reconnecting' \in BOOLEAN
  PROVE  IInv'
<1> USE DEF IInv
<1>1. wire' = <<>> /\ unacked' = <<>> /\ lastTag' = 0 /\ DOMAIN wire' = {} /\ DOMAIN unacked' = {}
  BY DEF Forgotten
<1>2. TypeOK'
  <2>1. ready' \in Seq(Msg)
    BY BackInQueue
  <2>2. wire' \in Seq(Frame) /\ unacked' \in [DOMAIN unacked' -> Msg]
    BY <1>1
  <2>3. /\ dispatch' \in Dispatches /\ malformed' \subseteq Events /\ session' \in 0..MaxSessions
        /\ tasks' \subseteq Task /\ arrived' \subseteq Events
        /\ handled' \subseteq arrived' /\ givenUp' \subseteq arrived'
        /\ misacked' \subseteq arrived' /\ failures' \in [Events -> Nat]
    BY DEF TypeOK, Later
  <2> QED BY <1>1, <2>1, <2>2, <2>3 DEF TypeOK
<1>3. \A m \in Msg : Counted(m) => Counted(m)'
  BY LaterKeeps
<1>4. ReadyCounted'
  <2> SUFFICES ASSUME NEW i \in DOMAIN ready' PROVE Counted(ready[i])'
    BY DEF ReadyCounted
  <2>1. \/ \E j \in DOMAIN ready : ready'[i] = ready[j]
        \/ \E t \in DOMAIN unacked : ready'[i] = unacked[t]
    BY BackInQueue
  <2>2. \A j \in DOMAIN ready : ready[j] \in Msg /\ Counted(ready[j])
    BY ElementOfSeq, LenProperties DEF ReadyCounted, TypeOK
  <2>3. \A t \in DOMAIN unacked : unacked[t] \in Msg /\ Counted(unacked[t])
    BY DEF UnackedCounted, TypeOK
  <2>4. PICK m : m = ready'[i]
    OBVIOUS
  <2>5. m \in Msg /\ Counted(m)
    BY <2>1, <2>2, <2>3, <2>4
  <2>6. Counted(m)'
    BY <2>5, <1>3
  <2> QED BY <2>4, <2>6 DEF Counted
<1>5. UnackedCounted' /\ WireCounted' /\ CopiesFirst'
  BY <1>1 DEF UnackedCounted, WireCounted, CopiesFirst
<1>6. TasksCounted'
  <2> SUFFICES ASSUME NEW t \in tasks
               PROVE  /\ Counted(t.msg)'
                      /\ t.at = "timer" => /\ t.msg.retries < MaxRetries
                                           /\ failures'[t.msg.event] > t.msg.retries
    BY DEF TasksCounted
  <2>1. t.msg \in Msg /\ t.msg.event \in Events /\ t.msg.retries \in Nat
    BY Fields DEF TypeOK
  <2>2. Counted(t.msg)'
    BY <2>1, <1>3 DEF TasksCounted
  <2>3. /\ failures'[t.msg.event] >= failures[t.msg.event]
        /\ failures'[t.msg.event] \in Nat /\ failures[t.msg.event] \in Nat
    BY <2>1, LaterKeeps DEF Later
  <2> QED BY <2>1, <2>2, <2>3 DEF TasksCounted
<1>7. GivenUpAfterRetries'
  BY LaterGivenUp
<1>8. AllStored'
  <2> SUFFICES ASSUME NEW e \in Events, Unsettled(e)' PROVE Stored(e, 0)'
    BY DEF AllStored
  <2>1. Stored(e, 0)
    BY LaterKeeps DEF AllStored
  <2>2. \E i \in DOMAIN ready' : ready'[i].event = e /\ ready'[i].retries >= 0
    BY <2>1, BackInQueue DEF Stored
  <2> QED BY <2>2 DEF Stored
<1> QED BY <1>2, <1>4, <1>5, <1>6, <1>7, <1>8

\* The process sends frames, or changes its tasks.
LEMMA ProcessGoesOn ==
  ASSUME IInv, Later, UNCHANGED <<ready, unacked, channel, reconnecting, session, lastTag>>,
         UNCHANGED <<givenUp, misacked>>, handled' \subseteq arrived,
         tasks' \subseteq Task, TasksCounted',
         wire' \in Seq(Frame), DOMAIN wire \subseteq DOMAIN wire',
         \A i \in DOMAIN wire : wire'[i] = wire[i],
         \A i \in DOMAIN wire' \ DOMAIN wire :
           /\ Counted(wire[i].own)'
           /\ wire'[i].op = "nack" => Spent(wire[i].own.event)'
           /\ wire'[i].op = "ack" /\ Unsettled(wire[i].own.event)' =>
                Published(wire[i].own.event, wire[i].own.retries + 1, i)'
  PROVE  IInv'
<1> USE DEF IInv
<1>1. TypeOK'
  BY DEF TypeOK, Later
<1>2. \A m \in Msg : Counted(m) => Counted(m)'
  BY LaterKeeps
<1>3. ReadyCounted' /\ UnackedCounted'
  <2>1. \A i \in DOMAIN ready : ready[i] \in Msg
    BY ElementOfSeq, LenProperties DEF TypeOK
  <2>2. \A t \in DOMAIN unacked : unacked[t] \in Msg
    BY DEF TypeOK
  <2>3. \A i \in DOMAIN ready : Counted(ready[i])'
    BY <1>2, <2>1 DEF ReadyCounted, Counted
  <2>4. \A t \in DOMAIN unacked : Counted(unacked[t])'
    BY <1>2, <2>2 DEF UnackedCounted, Counted
  <2> QED BY <2>3, <2>4 DEF ReadyCounted, UnackedCounted
<1>4. \A i \in DOMAIN wire : /\ wire[i] \in Frame /\ wire[i].own \in Msg
                             /\ wire[i].own.event \in Events /\ wire[i].own.retries \in Nat
  <2>1. \A i \in DOMAIN wire : wire[i] \in Frame
    BY ElementOfSeq, LenProperties DEF TypeOK
  <2> QED BY <2>1, Fields
<1>5. WireCounted'
  <2> SUFFICES ASSUME NEW i \in DOMAIN wire'
               PROVE  /\ Counted(wire[i].own)'
                      /\ wire'[i].op = "nack" => Spent(wire[i].own.event)'
    BY DEF WireCounted
  <2>1. CASE i \in DOMAIN wire
    <3>1. PICK f \in Frame : f = wire[i] /\ f = wire'[i]
      BY <2>1, <1>4
    <3>2. /\ f.own \in Msg /\ f.own.event \in Events /\ Counted(f.own)
          /\ f.op = "nack" => Spent(f.own.event)
      BY <2>1, <3>1, <1>4 DEF WireCounted, Spent
    <3>3. Counted(f.own)'
      BY <3>2, <1>2
    <3>4. f.op = "nack" => Spent(f.own.event)'
      BY <3>2, LaterKeeps
    <3> QED BY <3>1, <3>3, <3>4 DEF Counted, Spent
  <2> QED BY <2>1
<1>6. GivenUpAfterRetries'
  BY LaterGivenUp
<1>7. \A e, n : Stored(e, n)' <=> Stored(e, n)
  BY DEF Stored
<1>8. AllStored'
  BY <1>7, LaterKeeps DEF AllStored
<1>9. ASSUME NEW i \in DOMAIN wire', wire'[i].op = "ack", Unsettled(wire[i].own.event)'
      PROVE  \/ Stored(wire[i].own.event, wire[i].own.retries + 1)'
             \/ Published(wire[i].own.event, wire[i].own.retries + 1, i)'
  <2>1. CASE i \in DOMAIN wire
    <3>1. PICK f \in Frame : f = wire[i] /\ f = wire'[i]
      BY <2>1, <1>4
    <3>2. f.own.event \in Events /\ f.op = "ack" /\ Unsettled(f.own.event)'
      BY <1>9, <2>1, <3>1, <1>4 DEF Unsettled, Excused
    <3>3. Unsettled(f.own.event)
      BY <3>2, LaterKeeps
    <3>4. Stored(f.own.event, f.own.retries + 1) \/ Published(f.own.event, f.own.retries + 1, i)
      BY <3>1, <3>2, <3>3, <2>1 DEF CopiesFirst
    <3>5. Published(f.own.event, f.own.retries + 1, i) => Published(f.own.event, f.own.retries + 1, i)'
      BY DEF Published
    <3>6. Stored(f.own.event, f.own.retries + 1)' \/ Published(f.own.event, f.own.retries + 1, i)'
      BY <3>4, <3>5, <1>7
    <3> QED BY <3>1, <3>6 DEF Stored, Published
  <2> QED BY <2>1, <1>9
<1>10. CopiesFirst'
  BY <1>9 DEF CopiesFirst
<1> QED BY <1>1, <1>3, <1>5, <1>6, <1>8, <1>10

\* Tasks that go on as they are, in the state after failures were added.
LEMMA TasksLater ==
  ASSUME TypeOK, TasksCounted, Later
  PROVE  \A t \in tasks : /\ t \in Task /\ Counted(t.msg)'
                          /\ t.at = "timer" => /\ t.msg.retries < MaxRetries
                                               /\ failures'[t.msg.event] > t.msg.retries
<1> SUFFICES ASSUME NEW t \in tasks
             PROVE  /\ t \in Task /\ Counted(t.msg)'
                    /\ t.at = "timer" => /\ t.msg.retries < MaxRetries
                                         /\ failures'[t.msg.event] > t.msg.retries
  OBVIOUS
<1>1. t \in Task /\ t.msg \in Msg /\ t.msg.event \in Events /\ t.msg.retries \in Nat
  BY Fields DEF TypeOK
<1>2. Counted(t.msg)'
  BY <1>1, LaterKeeps DEF TasksCounted
<1>3. /\ failures'[t.msg.event] >= failures[t.msg.event]
      /\ failures'[t.msg.event] \in Nat /\ failures[t.msg.event] \in Nat
  BY <1>1, LaterKeeps DEF Later
<1> QED BY <1>1, <1>2, <1>3 DEF TasksCounted

\* The process sends one frame.
LEMMA OneFrame ==
  ASSUME IInv, Later, NEW f \in Frame, Sends(<<f>>), tasks' \subseteq tasks,
         UNCHANGED <<session, givenUp, misacked>>, handled' \subseteq arrived,
         Counted(f.own)',
         f.op = "nack" => Spent(f.own.event)',
         f.op = "ack" => ~Unsettled(f.own.event)'
  PROVE  IInv'
<1>1. /\ wire' = wire \o <<f>>
      /\ UNCHANGED <<ready, unacked, channel, reconnecting, lastTag>>
  BY DEF Sends
<1>2. wire \in Seq(Frame)
  BY DEF IInv, TypeOK
<1>3. /\ wire' \in Seq(Frame) /\ DOMAIN wire' = 1..(Len(wire) + 1)
      /\ \A i \in DOMAIN wire : wire'[i] = wire[i]
      /\ wire'[Len(wire) + 1] = f
      /\ DOMAIN wire = 1..Len(wire) /\ Len(wire) \in Nat
  BY <1>1, <1>2, OneMore
<1>4. DOMAIN wire \subseteq DOMAIN wire'
      /\ \A i \in DOMAIN wire' \ DOMAIN wire : i = Len(wire) + 1 /\ wire'[i] = f
  BY <1>3
<1>5. tasks' \subseteq Task /\ TasksCounted'
  BY TasksLater DEF IInv, TasksCounted
<1>6. ASSUME NEW i \in DOMAIN wire' \ DOMAIN wire
      PROVE  /\ Counted(wire[i].own)'
             /\ wire'[i].op = "nack" => Spent(wire[i].own.event)'
             /\ wire'[i].op = "ack" /\ Unsettled(wire[i].own.event)' =>
                  Published(wire[i].own.event, wire[i].own.retries + 1, i)'
  <2>1. wire'[i] = f
    BY <1>4, <1>6
  <2>2. Counted(wire[i].own)'
    BY <2>1 DEF Counted
  <2>3. Unsettled(wire[i].own.event)' => Unsettled(f.own.event)'
    BY <2>1 DEF Unsettled, Excused
  <2>4. wire'[i].op = "nack" => Spent(wire[i].own.event)'
    BY <2>1 DEF Spent
  <2> QED BY <2>1, <2>2, <2>3, <2>4
<1> QED BY <1>1, <1>3, <1>4, <1>5, <1>6, ProcessGoesOn

\* The catch block.
LEMMA Catching ==
  ASSUME IInv, NEW t \in tasks, Catches(t),
         UNCHANGED <<dispatch, malformed, session, arrived, givenUp, misacked>>,
         handled \subseteq handled', handled' \subseteq arrived
  PROVE  IInv'
<1>1. /\ t \in Task /\ t.msg \in Msg /\ t.msg.event \in Events /\ t.msg.retries \in Nat
      /\ MaxRetries \in Nat /\ Counted(t.msg)
  BY Fields DEF IInv, TypeOK, TasksCounted
<1>2. failures' = [failures EXCEPT ![t.msg.event] = @ + 1] /\ failures \in [Events -> Nat]
  BY DEF Catches, IInv, TypeOK
<1>3. /\ failures' \in [Events -> Nat] /\ failures'[t.msg.event] = failures[t.msg.event] + 1
      /\ \A e \in Events : failures'[e] >= failures[e]
  <2>1. \A e \in Events : failures[e] \in Nat
    BY <1>2
  <2> QED BY <1>1, <1>2, <2>1
<1>4. Later
  BY <1>3 DEF Later
<1>5. failures'[t.msg.event] > t.msg.retries
  BY <1>1, <1>2, <1>3 DEF Counted
<1>6. Counted(t.msg)'
  BY <1>1, <1>4, LaterKeeps DEF IInv
<1>7. CASE /\ t.msg.retries < MaxRetries
           /\ tasks' = (tasks \ {t}) \cup {[t EXCEPT !.at = "timer"]}
           /\ UNCHANGED <<broker, channel, reconnecting, lastTag>>
  <2>1. PICK u : u = [t EXCEPT !.at = "timer"]
    OBVIOUS
  <2>2. u \in Task /\ u.msg = t.msg
    BY <2>1, <1>1 DEF Task
  <2>3. tasks' \subseteq Task
    BY <2>1, <2>2, <1>7 DEF IInv, TypeOK
  <2>4. /\ Counted(u.msg)'
        /\ u.msg.retries < MaxRetries
        /\ failures'[u.msg.event] > u.msg.retries
    BY <2>2, <1>5, <1>6, <1>7 DEF Counted
  <2>5. TasksCounted'
    BY <2>1, <2>4, <1>4, <1>7, TasksLater DEF TasksCounted, IInv
  <2>6. wire' = wire /\ UNCHANGED <<ready, unacked, channel, reconnecting, session, lastTag>>
    BY <1>7 DEF broker
  <2>7. wire' \in Seq(Frame) /\ DOMAIN wire' = DOMAIN wire
    BY <2>6 DEF IInv, TypeOK
  <2> QED BY <1>4, <2>3, <2>5, <2>6, <2>7, ProcessGoesOn
<1>8. CASE /\ t.msg.retries >= MaxRetries
           /\ Sends(<<Answer("nack", t)>>)
           /\ tasks' = tasks \ {t}
  <2>1. PICK f : f = Answer("nack", t)
    OBVIOUS
  <2>2. f \in Frame /\ f.op = "nack" /\ f.own = t.msg
    BY <2>1, <1>1, Fields DEF Answer, Frame
  <2>3. Counted(f.own)' /\ Spent(f.own.event)'
    <3>1. failures'[t.msg.event] \in Nat
      BY <1>1, <1>3
    <3>2. failures'[t.msg.event] > MaxRetries
      BY <1>1, <1>5, <1>8, <3>1
    <3> QED BY <2>2, <1>6, <3>2 DEF Spent
  <2>4. Sends(<<f>>) /\ tasks' \subseteq tasks
    BY <2>1, <1>8
  <2> QED BY <1>4, <2>2, <2>3, <2>4, OneFrame
<1>9. CASE Dies
  <2>1. /\ Forgotten /\ channel' \in {"null", "setup", "open", "dead"} /\ reconnecting' \in BOOLEAN
        /\ tasks' \subseteq tasks
    BY <1>9 DEF Dies
  <2> QED BY <1>4, <2>1, ChannelEnds
<1> QED BY <1>7, <1>8, <1>9 DEF Catches

\* The try block's acknowledgement, of an event that is settled or lost for a
\* reason the claim names.
LEMMA Acknowledging ==
  ASSUME IInv, NEW t \in tasks, Acknowledges(t),
         UNCHANGED <<dispatch, malformed, session, arrived, givenUp, misacked>>,
         handled \subseteq handled', handled' \subseteq arrived,
         \/ t.msg.event \in handled'
         \/ dispatch = "by key" /\ failures[t.msg.event] > 0 /\ t.msg.event \notin malformed
  PROVE  IInv'
<1>1. CASE /\ Sends(<<Answer("ack", t)>>)
           /\ tasks' = tasks \ {t}
           /\ UNCHANGED failures
  <2>1. /\ t \in Task /\ t.msg \in Msg /\ t.msg.event \in Events /\ Counted(t.msg)
    BY Fields DEF IInv, TypeOK, TasksCounted
  <2>2. Later
    <3>1. failures \in [Events -> Nat]
      BY DEF IInv, TypeOK
    <3>2. \A e \in Events : failures[e] >= failures[e]
      BY <3>1, SameCounts
    <3> QED BY <3>1, <3>2, <1>1 DEF Later
  <2>3. PICK f : f = Answer("ack", t)
    OBVIOUS
  <2>4. f \in Frame /\ f.op = "ack" /\ f.own = t.msg
    BY <2>1, <2>3, Fields DEF Answer, Frame
  <2>5. Counted(f.own)'
    BY <2>1, <2>2, <2>4, LaterKeeps DEF IInv
  <2>6. ~Unsettled(f.own.event)'
    BY <1>1, <2>4 DEF Unsettled, Excused
  <2>7. Sends(<<f>>) /\ tasks' \subseteq tasks
    BY <2>3, <1>1
  <2> QED BY <2>2, <2>4, <2>5, <2>6, <2>7, OneFrame
<1>2. CASE Catches(t)
  BY <1>2, Catching
<1> QED BY <1>1, <1>2 DEF Acknowledges

\* The timer sends the copy and then the acknowledgement.
LEMMA Retrying ==
  ASSUME IInv, NEW t \in tasks, TimerFires(t)
  PROVE  IInv'
<1> USE DEF IInv
<1>1. /\ t \in Task /\ t.msg \in Msg /\ t.msg.event \in Events /\ t.msg.retries \in Nat
      /\ MaxRetries \in Nat /\ Counted(t.msg)
      /\ t.msg.retries < MaxRetries /\ failures[t.msg.event] > t.msg.retries
  BY Fields DEF TypeOK, TasksCounted, TimerFires
<1>2. UNCHANGED <<dispatch, malformed, session, arrived, handled, failures, givenUp, misacked>>
  BY DEF TimerFires, history
<1>3. Later /\ handled' \subseteq arrived
  <2>1. \A e \in Events : failures[e] \in Nat /\ failures[e] >= failures[e]
    BY DEF TypeOK
  <2> QED BY <2>1, <1>2 DEF Later, TypeOK
<1>4. CASE Dies
  <2>1. /\ Forgotten /\ channel' \in {"null", "setup", "open", "dead"} /\ reconnecting' \in BOOLEAN
        /\ tasks' \subseteq tasks
    BY <1>4 DEF Dies
  <2> QED BY <1>2, <1>3, <2>1, ChannelEnds
<1>5. CASE ~Dies
  <2>1. PICK m : m = [t.msg EXCEPT !.retries = @ + 1, !.key = "queue"]
    OBVIOUS
  <2>2. /\ m \in Msg /\ m.event = t.msg.event /\ m.retries = t.msg.retries + 1
    <3>1. t.msg.retries + 1 \in 0..MaxRetries
      BY <1>1
    <3> QED BY <2>1, <1>1, <3>1 DEF Msg
  <2>3. Counted(m)
    <3>1. failures[t.msg.event] \in Nat
      BY <1>1 DEF TypeOK
    <3>2. failures[t.msg.event] >= t.msg.retries + 1 /\ failures[t.msg.event] > 0
      BY <1>1, <3>1
    <3> QED BY <2>2, <3>2, <1>1 DEF Counted
  <2>4. PICK f : f = [op |-> "publish", tag |-> 0, own |-> m]
    OBVIOUS
  <2>5. PICK g : g = Answer("ack", t)
    OBVIOUS
  <2>6. /\ f \in Frame /\ f.op = "publish" /\ f.own = m
        /\ g \in Frame /\ g.op = "ack" /\ g.own = t.msg
    BY <2>2, <2>4, <2>5, <1>1, Fields DEF Answer, Frame
  <2>7. /\ wire' = wire \o <<f, g>> /\ tasks' = tasks \ {t}
        /\ UNCHANGED <<ready, unacked, channel, reconnecting, lastTag>>
    BY <1>5, <2>1, <2>4, <2>5 DEF TimerFires, Sends
  <2>8. /\ wire' \in Seq(Frame) /\ DOMAIN wire' = 1..(Len(wire) + 2)
        /\ \A i \in DOMAIN wire : wire'[i] = wire[i]
        /\ wire'[Len(wire) + 1] = f /\ wire'[Len(wire) + 2] = g
        /\ DOMAIN wire = 1..Len(wire) /\ Len(wire) \in Nat
    BY <2>6, <2>7, TwoMore DEF TypeOK
  <2>9. /\ DOMAIN wire \subseteq DOMAIN wire'
        /\ \A i \in DOMAIN wire' \ DOMAIN wire : i = Len(wire) + 1 \/ i = Len(wire) + 2
    BY <2>8
  <2>10. ASSUME NEW i \in DOMAIN wire' \ DOMAIN wire
         PROVE  /\ Counted(wire[i].own)'
                /\ wire'[i].op = "nack" => Spent(wire[i].own.event)'
                /\ wire'[i].op = "ack" /\ Unsettled(wire[i].own.event)' =>
                     Published(wire[i].own.event, wire[i].own.retries + 1, i)'
    <3>1. CASE i = Len(wire) + 1
      <4>1. wire'[i] = f
        BY <3>1, <2>8
      <4>2. Counted(m)'
        BY <2>2, <2>3, <1>3, LaterKeeps
      <4>3. Counted(wire[i].own)'
        BY <4>1, <4>2, <2>6 DEF Counted
      <4> QED BY <4>1, <4>3, <2>6
    <3>2. CASE i = Len(wire) + 2
      <4>1. wire'[i] = g
        BY <3>2, <2>8
      <4>2. Counted(t.msg)'
        BY <1>1, <1>3, LaterKeeps
      <4>3. Counted(wire[i].own)'
        BY <4>1, <4>2, <2>6 DEF Counted
      <4>4. PICK j : j = Len(wire) + 1
        OBVIOUS
      <4>5. j \in DOMAIN wire' /\ j < i /\ wire'[j] = f
        BY <4>4, <3>2, <2>8
      <4>6. /\ f.own.event = wire'[i].own.event /\ f.own.retries = wire'[i].own.retries + 1
            /\ f.own.retries \in Nat
        BY <4>1, <2>2, <2>6, <1>1
      <4>7. f.own.retries >= wire'[i].own.retries + 1
        BY <4>6
      <4>8. Published(wire[i].own.event, wire[i].own.retries + 1, i)'
        BY <4>5, <4>6, <4>7, <2>6 DEF Published
      <4> QED BY <4>1, <4>3, <4>8, <2>6
    <3> QED BY <3>1, <3>2, <2>9, <2>10
  <2>11. tasks' \subseteq Task /\ TasksCounted'
    BY <2>7, <1>3, TasksLater DEF TasksCounted
  <2> QED BY <1>2, <1>3, <2>7, <2>8, <2>9, <2>10, <2>11, ProcessGoesOn
<1> QED BY <1>4, <1>5

\* Steps that leave what was arrived, handled, failed and given up as it is.
LEMMA NothingLater ==
  ASSUME TypeOK, UNCHANGED <<dispatch, malformed, history>>
  PROVE  Later /\ handled' \subseteq arrived
<1>1. failures \in [Events -> Nat]
  BY DEF TypeOK
<1>2. \A e \in Events : failures[e] >= failures[e]
  BY <1>1
<1> QED BY <1>1, <1>2 DEF Later, history, TypeOK

\* What cannot be read is dropped.
LEMMA Dropping ==
  ASSUME IInv, NEW t \in tasks, Drop(t)
  PROVE  IInv'
<1>1. /\ t \in Task /\ t.msg \in Msg /\ t.msg.event \in Events /\ Counted(t.msg)
  BY Fields DEF IInv, TypeOK, TasksCounted
<1>2. UNCHANGED <<dispatch, malformed, session, history>> /\ DroppedAtOnce(t.msg.event)
  BY DEF Drop
<1>3. Later /\ handled' \subseteq arrived
  BY <1>2, NothingLater DEF IInv
<1>4. CASE /\ Sends(<<Answer("nack", t)>>)
           /\ tasks' = tasks \ {t}
  <2>1. PICK f : f = Answer("nack", t)
    OBVIOUS
  <2>2. f \in Frame /\ f.op = "nack" /\ f.own = t.msg
    BY <2>1, <1>1, Fields DEF Answer, Frame
  <2>3. Counted(f.own)'
    BY <2>2, <1>1, <1>3, LaterKeeps DEF IInv
  <2>4. Spent(f.own.event)'
    BY <2>2, <1>2 DEF Spent, DroppedAtOnce
  <2>5. Sends(<<f>>) /\ tasks' \subseteq tasks
    BY <2>1, <1>4
  <2> QED BY <2>2, <2>3, <2>4, <2>5, <1>2, <1>3, OneFrame DEF history
<1>5. CASE Dies
  <2>1. /\ Forgotten /\ channel' \in {"null", "setup", "open", "dead"} /\ reconnecting' \in BOOLEAN
        /\ tasks' \subseteq tasks
    BY <1>5 DEF Dies
  <2> QED BY <1>2, <1>3, <2>1, ChannelEnds DEF history
<1> QED BY <1>4, <1>5 DEF Drop

\* A handler that waits for good.
LEMMA Hanging ==
  ASSUME IInv, NEW t \in tasks, HandlerHangs(t)
  PROVE  IInv'
<1>1. /\ t \in Task /\ t.msg \in Msg /\ Counted(t.msg)
  BY Fields DEF IInv, TypeOK, TasksCounted
<1>2. /\ tasks' = (tasks \ {t}) \cup {[t EXCEPT !.at = "hung"]}
      /\ UNCHANGED <<dispatch, malformed, broker, channel, reconnecting, session, lastTag, history>>
  BY DEF HandlerHangs
<1>3. Later /\ handled' \subseteq arrived
  BY <1>2, NothingLater DEF IInv
<1>4. PICK u : u = [t EXCEPT !.at = "hung"]
  OBVIOUS
<1>5. u \in Task /\ u.msg = t.msg /\ u.at = "hung"
  BY <1>4, <1>1 DEF Task
<1>6. tasks' \subseteq Task
  BY <1>2, <1>4, <1>5 DEF IInv, TypeOK
<1>7. Counted(u.msg)'
  BY <1>1, <1>3, <1>5, LaterKeeps DEF IInv
<1>8. TasksCounted'
  BY <1>2, <1>3, <1>4, <1>5, <1>7, TasksLater DEF TasksCounted, IInv
<1>9. wire' = wire /\ UNCHANGED <<ready, unacked>>
  BY <1>2 DEF broker
<1>10. wire' \in Seq(Frame) /\ DOMAIN wire' = DOMAIN wire
  BY <1>9 DEF IInv, TypeOK
<1> QED BY <1>2, <1>3, <1>6, <1>8, <1>9, <1>10, ProcessGoesOn DEF history

-------------------------------------------------------------------------------
(* The broker's steps.                                                       *)

LEMMA Arrives ==
  ASSUME IInv, NEW x \in Events, Arrive(x)
  PROVE  IInv'
<1> USE DEF IInv
<1>1. PICK m : m = [event |-> x, retries |-> 0, key |-> "event"]
  OBVIOUS
<1>2. m \in Msg /\ m.event = x /\ m.retries = 0 /\ m.key = "event"
  BY <1>1, Fields DEF Msg
<1>3. /\ ready' = Append(ready, m) /\ arrived' = arrived \cup {x} /\ x \notin arrived
      /\ UNCHANGED <<dispatch, malformed, unacked, wire, process, handled, failures, givenUp, misacked>>
  BY <1>1 DEF Arrive
<1>4. ready \in Seq(Msg) /\ failures[x] \in Nat
  BY DEF TypeOK
<1>5. /\ ready' \in Seq(Msg) /\ DOMAIN ready' = 1..(Len(ready) + 1)
      /\ \A i \in DOMAIN ready : ready'[i] = ready[i]
      /\ ready'[Len(ready) + 1] = m
      /\ DOMAIN ready = 1..Len(ready) /\ Len(ready) \in Nat
  <2>1. Append(ready, m) = ready \o <<m>>
    BY <1>4, <1>2, AppendIsConcat
  <2> QED BY <2>1, <1>2, <1>3, <1>4, OneMore
<1>6. TypeOK'
  BY <1>3, <1>5 DEF TypeOK, process
<1>7. \A k \in Msg : Counted(k) => Counted(k)'
  BY <1>3 DEF Counted
<1>8. ReadyCounted'
  <2> SUFFICES ASSUME NEW i \in DOMAIN ready' PROVE Counted(ready[i])'
    BY DEF ReadyCounted
  <2>1. CASE i \in DOMAIN ready
    <3>1. PICK k : k = ready[i] /\ k = ready'[i]
      BY <1>5, <2>1
    <3>2. k \in Msg /\ Counted(k)
      BY <3>1, <2>1, <1>4, <1>5, ElementOfSeq DEF ReadyCounted
    <3>3. Counted(k)'
      BY <3>2, <1>7
    <3> QED BY <3>1, <3>3 DEF Counted
  <2>2. CASE i = Len(ready) + 1
    <3>1. ready'[i] = m
      BY <2>2, <1>5
    <3>2. Counted(m)'
      BY <1>2, <1>3, <1>4 DEF Counted
    <3> QED BY <3>1, <3>2 DEF Counted
  <2> QED BY <2>1, <2>2, <1>5
<1>9. UnackedCounted' /\ WireCounted' /\ TasksCounted'
  BY <1>3 DEF UnackedCounted, WireCounted, TasksCounted, Counted, Spent, DroppedAtOnce, process
<1>10. GivenUpAfterRetries'
  BY <1>3 DEF GivenUpAfterRetries, DroppedAtOnce
<1>11. \A e, n : Stored(e, n) => Stored(e, n)'
  <2> SUFFICES ASSUME NEW e, NEW n, Stored(e, n) PROVE Stored(e, n)'
    OBVIOUS
  <2>1. DOMAIN ready \subseteq DOMAIN ready'
    BY <1>5
  <2> QED BY <2>1, <1>3, <1>5 DEF Stored
<1>12. \A e \in Events : e # x /\ Unsettled(e)' => Unsettled(e)
  BY <1>3 DEF Unsettled, Excused
<1>13. AllStored'
  <2> SUFFICES ASSUME NEW e \in Events, Unsettled(e)' PROVE Stored(e, 0)'
    BY DEF AllStored
  <2>1. CASE e = x
    <3>1. Len(ready) + 1 \in DOMAIN ready' /\ ready'[Len(ready) + 1] = m /\ m.retries >= 0
      BY <1>2, <1>5
    <3> QED BY <2>1, <3>1, <1>2 DEF Stored
  <2>2. CASE e # x
    BY <2>2, <1>11, <1>12 DEF AllStored
  <2> QED BY <2>1, <2>2
<1>14. CopiesFirst'
  <2> SUFFICES ASSUME NEW i \in DOMAIN wire, wire[i].op = "ack",
                      Unsettled(wire[i].own.event)'
               PROVE  \/ Stored(wire[i].own.event, wire[i].own.retries + 1)'
                      \/ Published(wire[i].own.event, wire[i].own.retries + 1, i)'
    BY <1>3 DEF CopiesFirst
  <2>1. wire[i] \in Frame /\ wire[i].own.event \in Events
    BY Fields, ElementOfSeq, LenProperties DEF TypeOK
  <2>2. wire[i].own.event \in arrived
    BY DEF WireCounted, Counted
  <2>3. Unsettled(wire[i].own.event)
    BY <2>1, <2>2, <1>3, <1>12
  <2>4. \/ Stored(wire[i].own.event, wire[i].own.retries + 1)
        \/ Published(wire[i].own.event, wire[i].own.retries + 1, i)
    BY <2>3 DEF CopiesFirst
  <2>5. Published(wire[i].own.event, wire[i].own.retries + 1, i) =>
        Published(wire[i].own.event, wire[i].own.retries + 1, i)'
    BY <1>3 DEF Published
  <2>6. Stored(wire[i].own.event, wire[i].own.retries + 1) =>
        Stored(wire[i].own.event, wire[i].own.retries + 1)'
    <3>1. PICK e, n : e = wire[i].own.event /\ n = wire[i].own.retries + 1
      OBVIOUS
    <3>2. Stored(e, n) => Stored(e, n)'
      BY <1>11
    <3> QED BY <3>1, <3>2, <1>3 DEF Stored
  <2> QED BY <2>4, <2>5, <2>6
<1> QED BY <1>6, <1>8, <1>9, <1>10, <1>13, <1>14

LEMMA Delivers ==
  ASSUME IInv, Deliver
  PROVE  IInv'
<1> USE DEF IInv
<1>1. PICK m : m = Head(ready)
  OBVIOUS
<1>2. PICK t : t = [session |-> session, tag |-> lastTag', msg |-> m, at |-> "handling"]
  OBVIOUS
<1>3. /\ ready # <<>> /\ lastTag' = lastTag + 1
      /\ ready' = Tail(ready)
      /\ unacked' = [s \in DOMAIN unacked \cup {lastTag'} |-> IF s = lastTag' THEN m ELSE unacked[s]]
      /\ tasks' = tasks \cup {t}
      /\ UNCHANGED <<dispatch, malformed, wire, channel, reconnecting, session, history>>
  BY <1>1, <1>2 DEF Deliver
<1>4. ready \in Seq(Msg) /\ lastTag \in Nat /\ session \in Nat
  <2>1. 0..MaxSessions \subseteq Nat
    BY Fields
  <2> QED BY <2>1 DEF TypeOK
<1>5. /\ m = ready[1] /\ m \in Msg /\ 1 \in DOMAIN ready
      /\ ready' \in Seq(Msg)
      /\ \A i \in DOMAIN ready' : i + 1 \in DOMAIN ready /\ ready'[i] = ready[i + 1]
      /\ \A i \in DOMAIN ready : i = 1 \/ (i - 1 \in DOMAIN ready' /\ ready'[i - 1] = ready[i])
  BY <1>1, <1>3, <1>4, OneLess
<1>6. Counted(m)
  BY <1>5 DEF ReadyCounted
<1>7. lastTag' \in Nat /\ lastTag' \notin DOMAIN unacked
  BY <1>3, <1>4 DEF TypeOK
<1>8. /\ DOMAIN unacked' = DOMAIN unacked \cup {lastTag'}
      /\ unacked'[lastTag'] = m
      /\ \A s \in DOMAIN unacked : unacked'[s] = unacked[s]
  BY <1>3, <1>7
<1>9. TypeOK'
  <2>1. t \in Task
    BY <1>2, <1>4, <1>5, <1>7 DEF Task
  <2>2. unacked' \in [DOMAIN unacked' -> Msg]
    <3>1. \A s \in DOMAIN unacked : unacked[s] \in Msg
      BY DEF TypeOK
    <3>2. \A s \in DOMAIN unacked' : unacked'[s] \in Msg
      BY <3>1, <1>5, <1>8
    <3>3. unacked' = [s \in DOMAIN unacked' |-> unacked'[s]]
      BY <1>3
    <3> QED BY <3>2, <3>3
  <2>3. DOMAIN unacked' \subseteq 1..lastTag'
    <3>1. DOMAIN unacked \subseteq 1..lastTag
      BY DEF TypeOK
    <3> QED BY <3>1, <1>3, <1>4, <1>8
  <2>4. tasks' \subseteq Task
    BY <2>1, <1>3 DEF TypeOK
  <2> QED BY <2>2, <2>3, <2>4, <1>3, <1>5, <1>7 DEF TypeOK, history
<1>10. \A k : Counted(k) => Counted(k)'
  BY <1>3 DEF Counted, history
<1>11. ReadyCounted'
  <2> SUFFICES ASSUME NEW i \in DOMAIN ready' PROVE Counted(ready[i])'
    BY DEF ReadyCounted
  <2>1. PICK k : k = ready'[i] /\ Counted(k)
    BY <1>5 DEF ReadyCounted
  <2>2. Counted(k)'
    BY <2>1, <1>10
  <2> QED BY <2>1, <2>2 DEF Counted
<1>12. UnackedCounted'
  <2> SUFFICES ASSUME NEW s \in DOMAIN unacked' PROVE Counted(unacked[s])'
    BY DEF UnackedCounted
  <2>1. PICK k : k = unacked'[s] /\ Counted(k)
    BY <1>6, <1>8 DEF UnackedCounted
  <2>2. Counted(k)'
    BY <2>1, <1>10
  <2> QED BY <2>1, <2>2 DEF Counted
<1>13. WireCounted' /\ GivenUpAfterRetries'
  BY <1>3 DEF WireCounted, GivenUpAfterRetries, Counted, Spent, DroppedAtOnce, history
<1>14. TasksCounted'
  <2> SUFFICES ASSUME NEW u \in tasks'
               PROVE  /\ Counted(u.msg)'
                      /\ u.at = "timer" => /\ u.msg.retries < MaxRetries
                                           /\ failures'[u.msg.event] > u.msg.retries
    BY DEF TasksCounted
  <2>1. CASE u = t
    <3>1. u.msg = m /\ u.at = "handling"
      BY <2>1, <1>2
    <3>2. Counted(m)'
      BY <1>6, <1>10
    <3> QED BY <3>1, <3>2 DEF Counted
  <2>2. CASE u \in tasks
    BY <2>2, <1>3, <1>10 DEF TasksCounted, history
  <2> QED BY <2>1, <2>2, <1>3
<1>15. \A e, n : Stored(e, n) => Stored(e, n)'
  <2> SUFFICES ASSUME NEW e, NEW n, Stored(e, n) PROVE Stored(e, n)'
    OBVIOUS
  <2>1. ASSUME NEW i \in DOMAIN ready, ready[i].event = e, ready[i].retries >= n
        PROVE  Stored(e, n)'
    <3>1. CASE i = 1
      <4>1. lastTag' \in DOMAIN unacked' /\ unacked'[lastTag'] = ready[i]
        BY <3>1, <1>5, <1>8
      <4> QED BY <4>1, <2>1 DEF Stored
    <3>2. CASE i - 1 \in DOMAIN ready' /\ ready'[i - 1] = ready[i]
      BY <3>2, <2>1 DEF Stored
    <3> QED BY <3>1, <3>2, <1>5
  <2>2. ASSUME NEW s \in DOMAIN unacked, unacked[s].event = e, unacked[s].retries >= n
        PROVE  Stored(e, n)'
    BY <2>2, <1>8 DEF Stored
  <2> QED BY <2>1, <2>2 DEF Stored
<1>16. \A e : Unsettled(e)' => Unsettled(e)
  BY <1>3 DEF Unsettled, Excused, history
<1>17. AllStored'
  BY <1>15, <1>16 DEF AllStored
<1>18. CopiesFirst'
  <2> SUFFICES ASSUME NEW i \in DOMAIN wire, wire[i].op = "ack", Unsettled(wire[i].own.event)'
               PROVE  \/ Stored(wire[i].own.event, wire[i].own.retries + 1)'
                      \/ Published(wire[i].own.event, wire[i].own.retries + 1, i)'
    BY <1>3 DEF CopiesFirst
  <2>1. PICK e, n : e = wire[i].own.event /\ n = wire[i].own.retries + 1
    OBVIOUS
  <2>2. Unsettled(e)
    <3>1. Unsettled(e)'
      BY <2>1, <1>3 DEF Unsettled, Excused
    <3> QED BY <3>1, <1>16
  <2>3. Stored(e, n) \/ Published(e, n, i)
    BY <2>1, <2>2 DEF CopiesFirst
  <2>4. Stored(e, n)' \/ Published(e, n, i)'
    BY <2>3, <1>3, <1>15 DEF Published
  <2> QED BY <2>1, <2>4, <1>3 DEF Stored, Published
<1> QED BY <1>9, <1>11, <1>12, <1>13, <1>14, <1>17, <1>18

\* The broker takes an acknowledgement of a message it waits for.
LEMMA Settles ==
  ASSUME IInv, Settle, Head(wire).tag \in DOMAIN unacked
  PROVE  IInv'
<1> USE DEF IInv
<1>1. PICK f : f = Head(wire)
  OBVIOUS
<1>2. PICK m : m = unacked[f.tag]
  OBVIOUS
<1>3. /\ wire # <<>> /\ f.op # "publish" /\ f.tag \in DOMAIN unacked
      /\ unacked' = [t \in DOMAIN unacked \ {f.tag} |-> unacked[t]]
      /\ wire' = Tail(wire)
      /\ givenUp' = IF f.op = "nack" THEN givenUp \cup {m.event} ELSE givenUp
      /\ misacked' = IF m # f.own THEN misacked \cup {m.event} ELSE misacked
      /\ UNCHANGED <<ready, channel, reconnecting, lastTag, tasks>>
      /\ UNCHANGED <<dispatch, malformed, session, arrived, handled, failures>>
  BY <1>1, <1>2 DEF Settle
<1>4. wire \in Seq(Frame) /\ m \in Msg /\ Counted(m)
  BY <1>2, <1>3 DEF TypeOK, UnackedCounted
<1>5. /\ f = wire[1] /\ f \in Frame /\ 1 \in DOMAIN wire
      /\ wire' \in Seq(Frame) /\ DOMAIN wire \subseteq Nat
      /\ \A i \in DOMAIN wire' : i + 1 \in DOMAIN wire /\ wire'[i] = wire[i + 1]
      /\ \A i \in DOMAIN wire : i = 1 \/ (i - 1 \in DOMAIN wire' /\ wire'[i - 1] = wire[i])
  BY <1>1, <1>3, <1>4, OneLess
<1>6. /\ DOMAIN unacked' = DOMAIN unacked \ {f.tag}
      /\ \A t \in DOMAIN unacked' : unacked'[t] = unacked[t]
  BY <1>3
<1>7. m.event \in Events /\ m.event \in arrived /\ m.retries \in Nat
  BY <1>4, Fields DEF Counted
<1>8. TypeOK'
  <2>1. \A t \in DOMAIN unacked' : unacked'[t] \in Msg
    BY <1>6 DEF TypeOK
  <2>2. unacked' = [t \in DOMAIN unacked' |-> unacked'[t]]
    BY <1>3
  <2>3. unacked' \in [DOMAIN unacked' -> Msg]
    BY <2>1, <2>2
  <2>4. DOMAIN unacked' \subseteq 1..lastTag'
    BY <1>3, <1>6 DEF TypeOK
  <2>5. handled' \subseteq arrived' /\ givenUp' \subseteq arrived' /\ misacked' \subseteq arrived'
    BY <1>3, <1>7 DEF TypeOK
  <2> QED BY <2>3, <2>4, <2>5, <1>3, <1>5 DEF TypeOK
<1>9. \A k : Counted(k) => Counted(k)'
  BY <1>3 DEF Counted
<1>10. ReadyCounted' /\ TasksCounted'
  BY <1>3 DEF ReadyCounted, TasksCounted, Counted
<1>11. UnackedCounted'
  BY <1>3, <1>6 DEF UnackedCounted, Counted
<1>12. WireCounted'
  <2> SUFFICES ASSUME NEW i \in DOMAIN wire'
               PROVE  /\ Counted(wire[i].own)'
                      /\ wire'[i].op = "nack" => Spent(wire[i].own.event)'
    BY DEF WireCounted
  <2>1. PICK g : g = wire'[i] /\ g = wire[i + 1] /\ i + 1 \in DOMAIN wire
    BY <1>5
  <2>2. Counted(g.own) /\ (g.op = "nack" => Spent(g.own.event))
    BY <2>1 DEF WireCounted, Spent
  <2>3. Counted(g.own)'
    BY <2>2, <1>9
  <2>4. g.op = "nack" => Spent(g.own.event)'
    BY <2>2, <1>3 DEF Spent, DroppedAtOnce
  <2> QED BY <2>1, <2>3, <2>4 DEF Counted, Spent
<1>13. GivenUpAfterRetries'
  <2> SUFFICES ASSUME NEW e \in givenUp' \ misacked' PROVE Spent(e)
    BY <1>3 DEF GivenUpAfterRetries, Spent, DroppedAtOnce
  <2>1. CASE e \in givenUp
    BY <2>1, <1>3 DEF GivenUpAfterRetries, Spent
  <2>2. CASE e \notin givenUp
    <3>1. f.op = "nack" /\ e = m.event /\ m = f.own
      BY <2>2, <1>3
    <3> QED BY <3>1, <1>5 DEF WireCounted, Spent
  <2> QED BY <2>1, <2>2
<1>14. \A e : Unsettled(e)' => Unsettled(e)
  BY <1>3 DEF Unsettled, Excused
\* A copy goes only when its acknowledgement comes, after the next copy.
<1>15. ASSUME NEW e, Unsettled(e)', e = m.event
       PROVE  f.op = "ack" /\ m = f.own /\ Stored(e, m.retries + 1)
  <2>1. f.op = "ack" /\ m = f.own
    BY <1>15, <1>3, <1>5, Fields DEF Unsettled, Excused
  <2>2. Unsettled(e)
    BY <1>14, <1>15
  <2>3. Stored(e, m.retries + 1) \/ Published(e, m.retries + 1, 1)
    BY <2>1, <2>2, <1>5, <1>15 DEF CopiesFirst
  <2>4. ~Published(e, m.retries + 1, 1)
    <3>1. DOMAIN wire = 1..Len(wire) /\ Len(wire) \in Nat
      BY <1>4, LenProperties
    <3>2. \A j \in DOMAIN wire : ~(j < 1)
      BY <3>1
    <3> QED BY <3>2 DEF Published
  <2> QED BY <2>1, <2>3, <2>4
<1>16. ASSUME NEW e, NEW n \in Nat, Unsettled(e)', Stored(e, n)
       PROVE  Stored(e, n)'
  <2>1. ASSUME e = m.event, n <= m.retries
        PROVE  Stored(e, n)'
    <3>1. Stored(e, m.retries + 1)
      BY <1>15, <1>16, <2>1
    <3>2. CASE \E i \in DOMAIN ready : ready[i].event = e /\ ready[i].retries >= m.retries + 1
      <4>1. PICK i \in DOMAIN ready : ready[i].event = e /\ ready[i].retries >= m.retries + 1
        BY <3>2
      <4>2. ready[i].retries \in Nat
        BY Fields, ElementOfSeq, LenProperties DEF TypeOK
      <4>3. ready[i].retries >= n
        BY <4>1, <4>2, <2>1, <1>7
      <4> QED BY <4>1, <4>3, <1>3 DEF Stored
    <3>3. CASE \E t \in DOMAIN unacked : unacked[t].event = e /\ unacked[t].retries >= m.retries + 1
      <4>1. PICK t \in DOMAIN unacked : unacked[t].event = e /\ unacked[t].retries >= m.retries + 1
        BY <3>3
      <4>2. unacked[t].retries \in Nat
        BY Fields DEF TypeOK
      <4>3. unacked[t].retries >= n /\ t # f.tag
        BY <4>1, <4>2, <2>1, <1>7, <1>2
      <4>4. t \in DOMAIN unacked' /\ unacked'[t] = unacked[t]
        BY <4>3, <1>6
      <4> QED BY <4>1, <4>3, <4>4 DEF Stored
    <3> QED BY <3>1, <3>2, <3>3 DEF Stored
  <2>2. ASSUME e # m.event \/ ~(n <= m.retries)
        PROVE  Stored(e, n)'
    <3>1. ~(m.event = e /\ m.retries >= n)
      BY <2>2, <1>7
    <3>2. \A t \in DOMAIN unacked : unacked[t].event = e /\ unacked[t].retries >= n =>
            t \in DOMAIN unacked' /\ unacked'[t] = unacked[t]
      BY <3>1, <1>2, <1>6
    <3> QED BY <3>2, <1>3, <1>16 DEF Stored
  <2> QED BY <2>1, <2>2
<1>17. AllStored'
  <2> SUFFICES ASSUME NEW e \in Events, Unsettled(e)' PROVE Stored(e, 0)'
    BY DEF AllStored
  <2>1. Stored(e, 0) /\ 0 \in Nat
    BY <1>14 DEF AllStored
  <2> QED BY <2>1, <1>16
<1>18. CopiesFirst'
  <2> SUFFICES ASSUME NEW i \in DOMAIN wire', wire'[i].op = "ack", Unsettled(wire[i].own.event)'
               PROVE  \/ Stored(wire[i].own.event, wire[i].own.retries + 1)'
                      \/ Published(wire[i].own.event, wire[i].own.retries + 1, i)'
    BY DEF CopiesFirst
  <2>1. PICK g \in Frame : g = wire'[i] /\ g = wire[i + 1] /\ i + 1 \in DOMAIN wire
    BY <1>5, ElementOfSeq, LenProperties
  <2>2. PICK e, n : e = g.own.event /\ n = g.own.retries + 1
    OBVIOUS
  <2>3. n \in Nat /\ g.op = "ack"
    BY <2>1, <2>2, Fields
  <2>4. Unsettled(e)'
    BY <2>1, <2>2 DEF Unsettled, Excused
  <2>5. Unsettled(e)
    BY <2>4, <1>14
  <2>6. Stored(e, n) \/ Published(e, n, i + 1)
    BY <2>1, <2>2, <2>3, <2>5 DEF CopiesFirst
  <2>7. Stored(e, n) => Stored(e, n)'
    BY <2>3, <2>4, <1>16
  <2>8. ASSUME Published(e, n, i + 1) PROVE Published(e, n, i)'
    <3>1. PICK j \in DOMAIN wire : /\ j < i + 1 /\ wire[j].op = "publish"
                                   /\ wire[j].own.event = e /\ wire[j].own.retries >= n
      BY <2>8 DEF Published
    <3>2. j # 1
      BY <3>1, <1>3, <1>5
    <3>3. j - 1 \in DOMAIN wire' /\ wire'[j - 1] = wire[j]
      BY <3>2, <1>5
    <3>4. i \in Nat /\ j \in Nat
      BY <1>5, LenProperties
    <3>5. j - 1 < i
      BY <3>1, <3>4
    <3> QED BY <3>1, <3>3, <3>5 DEF Published
  <2>9. Stored(e, n)' \/ Published(e, n, i)'
    BY <2>6, <2>7, <2>8
  <2> QED BY <2>1, <2>2, <2>9 DEF Stored, Published
<1> QED BY <1>8, <1>10, <1>11, <1>12, <1>13, <1>17, <1>18

\* The broker takes a copy into the queue.
LEMMA CopyArrives ==
  ASSUME IInv, TakeCopy
  PROVE  IInv'
<1> USE DEF IInv
<1>1. PICK f : f = Head(wire)
  OBVIOUS
<1>2. PICK m : m = f.own
  OBVIOUS
<1>3. /\ wire # <<>> /\ f.op = "publish" /\ ready' = Append(ready, m) /\ wire' = Tail(wire)
      /\ UNCHANGED <<dispatch, malformed, unacked, process, history>>
  BY <1>1, <1>2 DEF TakeCopy
<1>4. wire \in Seq(Frame) /\ ready \in Seq(Msg)
  BY DEF TypeOK
<1>5. /\ f = wire[1] /\ f \in Frame /\ 1 \in DOMAIN wire
      /\ wire' \in Seq(Frame)
      /\ \A i \in DOMAIN wire' : i + 1 \in DOMAIN wire /\ wire'[i] = wire[i + 1]
      /\ \A i \in DOMAIN wire : i = 1 \/ (i - 1 \in DOMAIN wire' /\ wire'[i - 1] = wire[i])
      /\ DOMAIN wire \subseteq Nat
  BY <1>1, <1>3, <1>4, OneLess
<1>6. m \in Msg /\ Counted(m)
  BY <1>2, <1>5, Fields DEF WireCounted
<1>7. /\ ready' \in Seq(Msg) /\ DOMAIN ready' = 1..(Len(ready) + 1)
      /\ \A i \in DOMAIN ready : ready'[i] = ready[i]
      /\ ready'[Len(ready) + 1] = m
      /\ DOMAIN ready = 1..Len(ready) /\ Len(ready) \in Nat
  <2>1. Append(ready, m) = ready \o <<m>>
    BY <1>4, <1>6, AppendIsConcat
  <2> QED BY <2>1, <1>3, <1>4, <1>6, OneMore
<1>8. TypeOK'
  BY <1>3, <1>5, <1>7 DEF TypeOK, process, history
<1>9. \A k : Counted(k) => Counted(k)'
  BY <1>3 DEF Counted, history
<1>10. UnackedCounted' /\ TasksCounted' /\ GivenUpAfterRetries'
  BY <1>3 DEF UnackedCounted, TasksCounted, GivenUpAfterRetries, DroppedAtOnce, Counted, process, history
<1>11. ReadyCounted'
  <2> SUFFICES ASSUME NEW i \in DOMAIN ready' PROVE Counted(ready[i])'
    BY DEF ReadyCounted
  <2>1. i \in DOMAIN ready \/ i = Len(ready) + 1
    BY <1>7
  <2>2. PICK k : k = ready'[i] /\ Counted(k)
    BY <2>1, <1>6, <1>7 DEF ReadyCounted
  <2>3. Counted(k)'
    BY <2>2, <1>9
  <2> QED BY <2>2, <2>3 DEF Counted
<1>12. WireCounted'
  <2> SUFFICES ASSUME NEW i \in DOMAIN wire'
               PROVE  /\ Counted(wire[i].own)'
                      /\ wire'[i].op = "nack" => Spent(wire[i].own.event)'
    BY DEF WireCounted
  <2>1. PICK g : g = wire'[i] /\ g = wire[i + 1] /\ i + 1 \in DOMAIN wire
    BY <1>5
  <2>2. Counted(g.own) /\ (g.op = "nack" => Spent(g.own.event))
    BY <2>1 DEF WireCounted, Spent
  <2>3. Counted(g.own)'
    BY <2>2, <1>9
  <2>4. g.op = "nack" => Spent(g.own.event)'
    BY <2>2, <1>3 DEF Spent, DroppedAtOnce, history
  <2> QED BY <2>1, <2>3, <2>4 DEF Counted, Spent
<1>13. \A e, n : Stored(e, n) => Stored(e, n)'
  <2>1. DOMAIN ready \subseteq DOMAIN ready'
    BY <1>7
  <2> QED BY <2>1, <1>3, <1>7 DEF Stored
<1>14. \A e : Unsettled(e)' => Unsettled(e)
  BY <1>3 DEF Unsettled, Excused, history
<1>15. AllStored'
  BY <1>13, <1>14 DEF AllStored
<1>16. CopiesFirst'
  <2> SUFFICES ASSUME NEW i \in DOMAIN wire', wire'[i].op = "ack", Unsettled(wire[i].own.event)'
               PROVE  \/ Stored(wire[i].own.event, wire[i].own.retries + 1)'
                      \/ Published(wire[i].own.event, wire[i].own.retries + 1, i)'
    BY DEF CopiesFirst
  <2>1. PICK g : g = wire'[i] /\ g = wire[i + 1] /\ i + 1 \in DOMAIN wire
    BY <1>5
  <2>2. PICK e, n : e = g.own.event /\ n = g.own.retries + 1
    OBVIOUS
  <2>3. Unsettled(e)'
    BY <2>1, <2>2 DEF Unsettled, Excused
  <2>4. Unsettled(e)
    BY <2>3, <1>14
  <2>5. Stored(e, n) \/ Published(e, n, i + 1)
    BY <2>1, <2>2, <2>4 DEF CopiesFirst
  <2>6. ASSUME Published(e, n, i + 1) PROVE Stored(e, n)' \/ Published(e, n, i)'
    <3>1. PICK j \in DOMAIN wire : /\ j < i + 1 /\ wire[j].op = "publish"
                                   /\ wire[j].own.event = e /\ wire[j].own.retries >= n
      BY <2>6 DEF Published
    <3>2. CASE j = 1
      <4>1. m.event = e /\ m.retries >= n
        BY <3>1, <3>2, <1>2, <1>5
      <4>2. Len(ready) + 1 \in DOMAIN ready'
        BY <1>7
      <4> QED BY <4>1, <4>2, <1>7 DEF Stored
    <3>3. CASE j # 1
      <4>1. j - 1 \in DOMAIN wire' /\ wire'[j - 1] = wire[j]
        BY <3>3, <1>5
      <4>2. i \in Nat /\ j \in Nat
        BY <1>5, LenProperties
      <4>3. j - 1 < i
        BY <3>1, <4>2
      <4> QED BY <3>1, <4>1, <4>3 DEF Published
    <3> QED BY <3>2, <3>3
  <2>7. Stored(e, n)' \/ Published(e, n, i)'
    BY <2>5, <2>6, <1>13
  <2> QED BY <2>1, <2>2, <2>7 DEF Stored, Published
<1> QED BY <1>8, <1>10, <1>11, <1>12, <1>15, <1>16

\* A connection that breaks, and the process that ends.
LEMMA Breaking ==
  ASSUME IInv, Breaks \/ Dies, UNCHANGED <<dispatch, malformed, session, history>>
  PROVE  IInv'
<1>1. Forgotten /\ channel' = "null" /\ reconnecting' \in BOOLEAN /\ tasks' \subseteq tasks
  BY DEF Breaks, Closed, Dies
<1>2. Later /\ handled' \subseteq arrived
  BY NothingLater DEF IInv
<1> QED BY <1>1, <1>2, ChannelEnds DEF history

\* Steps of the connection that leave the messages alone.
LEMMA Connecting ==
  ASSUME IInv, Connect \/ Subscribe \/ Reuse
  PROVE  IInv'
<1> USE DEF IInv
<1>1. UNCHANGED <<dispatch, malformed, broker, lastTag, tasks, history>>
  BY DEF Connect, Subscribe, Reuse
<1>2. session' \in 0..MaxSessions
  BY Fields DEF Connect, Subscribe, Reuse, TypeOK
<1>3. channel' \in {"null", "setup", "open", "dead"} /\ reconnecting' \in BOOLEAN
  BY DEF Connect, Subscribe, Reuse, TypeOK
<1>4. TypeOK'
  BY <1>1, <1>2, <1>3 DEF TypeOK, broker, history
<1> QED
  BY <1>1, <1>4
  DEF ReadyCounted, UnackedCounted, WireCounted, TasksCounted, GivenUpAfterRetries, AllStored,
      CopiesFirst, Counted, Spent, DroppedAtOnce, Unsettled, Excused, Stored, Published, broker, history

-------------------------------------------------------------------------------
(* The theorems.                                                             *)

LEMMA Inductive == IInv /\ [Next]_vars => IInv'
<1> SUFFICES ASSUME IInv, [Next]_vars PROVE IInv'
  OBVIOUS
<1>1. ASSUME NEW e \in Events, Arrive(e) PROVE IInv'
  BY <1>1, Arrives
<1>2. CASE Deliver
  BY <1>2, Delivers
<1>3. CASE Settle
  <2>1. CASE Head(wire).tag \in DOMAIN unacked
    BY <1>3, <2>1, Settles
  <2>2. CASE Head(wire).tag \notin DOMAIN unacked
    <3>1. Breaks /\ UNCHANGED <<dispatch, malformed, session, history>>
      BY <1>3, <2>2 DEF Settle, history
    <3> QED BY <3>1, Breaking
  <2> QED BY <2>1, <2>2
<1>4. CASE TakeCopy
  BY <1>4, CopyArrives
<1>5. ASSUME NEW t \in tasks, Process(t) PROVE IInv'
  <2>1. t \in Task /\ t.msg \in Msg /\ Counted(t.msg) /\ handled \subseteq arrived
    BY Fields DEF IInv, TypeOK, TasksCounted
  <2>2. CASE Discard(t)
    <3>1. dispatch = "by key" /\ t.msg.key = "queue" /\ t.msg.event \notin malformed
      BY <2>1, <2>2, Fields DEF Discard, Known, Readable
    <3>2. failures[t.msg.event] > 0
      BY <2>1, <3>1 DEF Counted
    <3>3. /\ Acknowledges(t) /\ UNCHANGED <<dispatch, malformed, session, arrived, givenUp, misacked>>
          /\ handled \subseteq handled' /\ handled' \subseteq arrived
      BY <2>1, <2>2 DEF Discard
    <3> QED BY <3>1, <3>2, <3>3, Acknowledging
  <2>3. CASE HandlerReturns(t)
    <3>1. /\ Acknowledges(t) /\ UNCHANGED <<dispatch, malformed, session, arrived, givenUp, misacked>>
          /\ handled \subseteq handled' /\ handled' \subseteq arrived /\ t.msg.event \in handled'
      BY <2>1, <2>3 DEF HandlerReturns, Counted
    <3> QED BY <3>1, Acknowledging
  <2>4. CASE HandlerThrows(t)
    <3>1. /\ Catches(t) /\ UNCHANGED <<dispatch, malformed, session, arrived, givenUp, misacked>>
          /\ handled \subseteq handled' /\ handled' \subseteq arrived
      BY <2>1, <2>4 DEF HandlerThrows
    <3> QED BY <3>1, Catching
  <2>5. CASE TimerFires(t)
    BY <2>5, Retrying
  <2>6. CASE Drop(t)
    BY <2>6, Dropping
  <2> QED BY <1>5, <2>2, <2>3, <2>4, <2>5, <2>6 DEF Process
<1>6. CASE Connect \/ Subscribe \/ Reuse
  BY <1>6, Connecting
<1>7. CASE SetupRejected
  <2>1. CASE Dies
    BY <1>7, <2>1, Breaking DEF SetupRejected
  <2>2. CASE ~Dies
    <3>1. /\ Forgotten /\ channel' = "dead"
          /\ UNCHANGED <<reconnecting, tasks, dispatch, malformed, session, history>>
      BY <1>7, <2>2 DEF SetupRejected
    <3>2. Later /\ handled' \subseteq arrived
      BY <3>1, NothingLater DEF IInv
    <3>3. reconnecting' \in BOOLEAN
      BY <3>1 DEF IInv, TypeOK
    <3> QED BY <3>1, <3>2, <3>3, ChannelEnds DEF history
  <2> QED BY <2>1, <2>2
<1>8. CASE ConnectionLost \/ Crash
  BY <1>8, Breaking DEF ConnectionLost, Crash
<1>9. CASE UNCHANGED vars
  BY <1>9
  DEF IInv, TypeOK, ReadyCounted, UnackedCounted, WireCounted, TasksCounted,
      GivenUpAfterRetries, AllStored, CopiesFirst, Counted, Spent, DroppedAtOnce, Unsettled,
      Excused, Stored, Published, vars, broker, process, history
<1>10. ASSUME NEW t \in tasks, HandlerHangs(t) PROVE IInv'
  BY <1>10, Hanging
<1> QED BY <1>1, <1>2, <1>3, <1>4, <1>5, <1>6, <1>7, <1>8, <1>9, <1>10 DEF Next

LEMMA Initially == Init => IInv
<1> SUFFICES ASSUME Init PROVE IInv
  OBVIOUS
<1>1. /\ ready = <<>> /\ unacked = <<>> /\ wire = <<>>
      /\ DOMAIN ready = {} /\ DOMAIN unacked = {} /\ DOMAIN wire = {}
  BY DEF Init
<1>2. ready \in Seq(Msg) /\ wire \in Seq(Frame) /\ unacked \in [DOMAIN unacked -> Msg]
  BY <1>1
<1>3. session \in 0..MaxSessions
  BY Fields DEF Init
<1>4. TypeOK
  BY <1>1, <1>2, <1>3 DEF Init, TypeOK
<1> QED
  BY <1>1, <1>4
  DEF Init, IInv, ReadyCounted, UnackedCounted, WireCounted, TasksCounted,
      GivenUpAfterRetries, AllStored, CopiesFirst, Unsettled

\* The inductive invariant: copies count no more retries than the event has
\* failed, and the copy of a retry is on its way before the acknowledgement of
\* the message it replaces.
THEOREM CopiesKept == Spec => []IInv
<1> QED BY Initially, Inductive, PTL DEF Spec

\* The queue, the frames, the tasks and the counters have their types.
THEOREM ConsumerTyped == Spec => []TypeOK
<1>1. IInv => TypeOK
  BY DEF IInv
<1> QED BY <1>1, CopiesKept, PTL

\* At least once: whatever crashes, closes and fails, an event stays at the
\* broker until its handler has returned or it was given up, or it is one of
\* those the code loses (Excused).
THEOREM EventsAreKept == Spec => []NoEventLost
<1>1. IInv => NoEventLost
  <2> SUFFICES ASSUME IInv, NEW e \in arrived, Unsettled(e) PROVE Kept(e)
    BY DEF NoEventLost, Unsettled
  <2>1. Stored(e, 0)
    BY DEF IInv, AllStored, TypeOK
  <2> QED BY <2>1 DEF Stored, Kept
<1> QED BY <1>1, CopiesKept, PTL

\* No event is dropped from the queue with retries left, unless it cannot be
\* read and the queue is user-service's.
THEOREM RetriesBeforeGivingUp == Spec => []GivenUpAfterRetries
<1>1. IInv => GivenUpAfterRetries
  BY DEF IInv
<1> QED BY <1>1, CopiesKept, PTL
===============================================================================
