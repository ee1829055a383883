----------------------------- MODULE EventConsumer -----------------------------
(***************************************************************************)
(* The RabbitMQ consumer of subscription-, notification-, user- and        *)
(* auth-service: acknowledge after the handler, republish after a delay    *)
(* when it throws, give up after MaxRetries, reconnect when the connection *)
(* is lost.  Their queues are of three kinds:                              *)
(*                                                                         *)
(*   "by key"      the queues of subscription-service, those of            *)
(*                 notification-service and the second one of auth-service *)
(*                 (subscription events): the handler is chosen by the     *)
(*                 routing key of the delivery, and without one the        *)
(*                 delivery is acknowledged;                               *)
(*   "any"         the first queue of auth-service (user names): one       *)
(*                 handler, whatever the key;                              *)
(*   "parse first" the queue of user-service: one handler, and what is no  *)
(*                 JSON is dropped at once; in the others it is a failure  *)
(*                 like any other.                                         *)
(*                                                                         *)
(* A retry is published to the default exchange, which routes by queue     *)
(* name: the copy's routing key is the name of the queue.  The variable    *)
(* channel of the module is replaced on reconnect, while handlers and      *)
(* timers that started on the old one go on and acknowledge on the new one *)
(* with the delivery tag of the old one.  Delivery tags count from 1 on    *)
(* each channel.                                                           *)
(*                                                                         *)
(* The broker (external) keeps the queue, what it has delivered and not    *)
(* seen acknowledged, and the frames under way to it.                      *)
(***************************************************************************)
EXTENDS Naturals, Sequences, FiniteSets

CONSTANTS Events,
          Dispatches,  \* the kinds of queues, see above
          MaxRetries,
          Prefetch,    \* deliveries without acknowledgement on a channel; user- and
                       \* auth-service set no limit: there it is a bound
          MaxSessions  \* bound: channels, one after the other

ASSUME ConsumerAssumption == /\ Dispatches \subseteq {"by key", "any", "parse first"}
                             /\ {MaxRetries, Prefetch, MaxSessions} \subseteq Nat

VARIABLES
  dispatch,  \* which kind of queue this is
  malformed, \* events whose content is no JSON
  ready,     \* messages in the queue
  unacked,   \* delivered on the present channel, by delivery tag
  wire,      \* frames sent to the broker and not yet taken by it
  channel,   \* "null" without one; "setup" until the queues are consumed and the
             \* close listener is there, then "open"; "dead" for a closed channel
             \* that the variable channel still holds
  reconnecting,
  session,   \* number of the present channel
  lastTag,   \* last delivery tag of the present channel
  tasks,     \* handler runs and retry timers in the process
  \* history variables, read by the properties only
  arrived,   \* events that were published
  handled,   \* events whose handler returned
  failures,  \* how often the processing of an event went to the catch block
  givenUp,   \* events dropped from the queue with nack
  misacked   \* events settled by the acknowledgement of another delivery

broker  == <<ready, unacked, wire>>
history == <<arrived, handled, failures, givenUp, misacked>>
process == <<channel, reconnecting, session, lastTag, tasks>>
vars    == <<dispatch, malformed, broker, process, history>>

-------------------------------------------------------------------------------

\* key: "event" as the producer published it, "queue" for a retry.
Msg   == [event : Events, retries : 0..MaxRetries, key : {"event", "queue"}]
Task  == [session : Nat, tag : Nat, msg : Msg,
          at : {"handling", "hung", "timer"}]
\* own: the message that the process acknowledges, or the copy it publishes.
Frame == [op : {"ack", "nack", "publish"}, tag : Nat, own : Msg]

TypeOK ==
  /\ dispatch \in Dispatches /\ malformed \subseteq Events
  /\ ready \in Seq(Msg)
  /\ unacked \in [DOMAIN unacked -> Msg] /\ DOMAIN unacked \subseteq 1..lastTag
  /\ wire \in Seq(Frame)
  /\ channel \in {"null", "setup", "open", "dead"} /\ reconnecting \in BOOLEAN
  /\ session \in 0..MaxSessions /\ lastTag \in Nat
  /\ tasks \subseteq Task
  /\ failures \in [Events -> Nat]
  /\ arrived \subseteq Events
  /\ \A S \in {handled, givenUp, misacked} : S \subseteq arrived

Init ==
  /\ dispatch \in Dispatches /\ malformed \in SUBSET Events
  /\ ready = <<>> /\ unacked = <<>> /\ wire = <<>>
  /\ channel = "null" /\ reconnecting = FALSE /\ session = 0 /\ lastTag = 0
  /\ tasks = {}
  /\ arrived = {} /\ handled = {} /\ givenUp = {} /\ misacked = {}
  /\ failures = [e \in Events |-> 0]

-------------------------------------------------------------------------------
(* The end of a connection.                                                  *)

\* The set S in ascending order.
InOrder(S) == {tags \in [1..Cardinality(S) -> S] :
                 /\ \A i, j \in DOMAIN tags : i < j => tags[i] < tags[j]
                 /\ \A t \in S : \E i \in DOMAIN tags : tags[i] = t}

\* The broker puts what was not acknowledged back where it was.
Requeued == {[i \in DOMAIN tags |-> unacked[tags[i]]] \o ready : tags \in InOrder(DOMAIN unacked)}

Forgotten == ready' \in Requeued /\ unacked' = <<>> /\ wire' = <<>> /\ lastTag' = 0

\* The close listener starts scheduleReconnect.
Closed == /\ Forgotten /\ channel' = "null" /\ reconnecting' = TRUE
          /\ UNCHANGED tasks

\* An error that nothing catches ends the process; its supervisor restarts it.
Dies == /\ Forgotten /\ channel' = "null" /\ reconnecting' = FALSE
        /\ tasks' = {}

\* A connection that breaks has an error listener only once it is set up.
Breaks == \/ channel = "open"  /\ Closed
          \/ channel = "setup" /\ Dies

\* Calls on the channel throw, or do not.
Usable == channel \in {"setup", "open"}

-------------------------------------------------------------------------------
(* Producers, and the broker's side.                                         *)

Arrive(e) ==
  /\ e \notin arrived
  /\ arrived' = arrived \cup {e}
  /\ ready' = Append(ready, [event |-> e, retries |-> 0, key |-> "event"])
  /\ UNCHANGED <<dispatch, malformed, unacked, wire, process, handled, failures, givenUp, misacked>>

\* Fault: consuming with noAck.
DeliverWithoutAck ==
  /\ channel = "open" /\ ready # <<>>
  /\ lastTag' = lastTag + 1
  /\ ready' = Tail(ready)
  /\ tasks' = tasks \cup {[session |-> session, tag |-> lastTag', msg |-> Head(ready),
                           at |-> "handling"]}
  /\ UNCHANGED <<dispatch, malformed, unacked, wire, channel, reconnecting, session, history>>

\* basic.deliver, and the consumer's callback up to the handler's first await.
Deliver ==
  /\ channel = "open" /\ ready # <<>>
  /\ Cardinality(DOMAIN unacked) < Prefetch
  /\ lastTag' = lastTag + 1
  /\ unacked' = [t \in DOMAIN unacked \cup {lastTag'} |->
                   IF t = lastTag' THEN Head(ready) ELSE unacked[t]]
  /\ ready' = Tail(ready)
  /\ tasks' = tasks \cup {[session |-> session, tag |-> lastTag', msg |-> Head(ready),
                           at |-> "handling"]}
  /\ UNCHANGED <<dispatch, malformed, wire, channel, reconnecting, session, history>>

\* The broker takes the next frame.  A tag it does not know closes the channel
\* with an error that no listener takes, and that breaks the connection.
Settle ==
  LET f == Head(wire)
      e == unacked[f.tag].event
  IN
  /\ wire # <<>> /\ f.op # "publish"
  /\ \/ /\ f.tag \in DOMAIN unacked
        /\ unacked' = [t \in DOMAIN unacked \ {f.tag} |-> unacked[t]]
        /\ wire' = Tail(wire)
        /\ givenUp'  = IF f.op = "nack" THEN givenUp \cup {e} ELSE givenUp
        /\ misacked' = IF unacked[f.tag] # f.own THEN misacked \cup {e} ELSE misacked
        /\ UNCHANGED <<ready, channel, reconnecting, lastTag, tasks>>
     \/ /\ f.tag \notin DOMAIN unacked
        /\ Breaks
        /\ UNCHANGED <<givenUp, misacked>>
  /\ UNCHANGED <<dispatch, malformed, session, arrived, handled, failures>>

TakeCopy ==
  /\ wire # <<>> /\ Head(wire).op = "publish"
  /\ ready' = Append(ready, Head(wire).own)
  /\ wire' = Tail(wire)
  /\ UNCHANGED <<dispatch, malformed, unacked, process, history>>

-------------------------------------------------------------------------------
(* processMessage                                                            *)

Sends(frames) == /\ wire' = wire \o frames
                 /\ UNCHANGED <<ready, unacked, channel, reconnecting, lastTag>>
Answer(op, t) == [op |-> op, tag |-> t.tag, own |-> t.msg]

\* Fault: the count is compared before it is incremented.
CatchesOnceTooOften(t) ==
  /\ failures' = [failures EXCEPT ![t.msg.event] = @ + 1]
  /\ t.msg.retries <= MaxRetries
  /\ tasks' = (tasks \ {t}) \cup {[t EXCEPT !.at = "timer"]}
  /\ UNCHANGED <<broker, channel, reconnecting, lastTag>>

\* Fault: given up at the first failure.
CatchesWithoutRetry(t) ==
  /\ Usable
  /\ failures' = [failures EXCEPT ![t.msg.event] = @ + 1]
  /\ Sends(<<Answer("nack", t)>>)
  /\ tasks' = tasks \ {t}

\* The catch block.  Without a channel the nack throws in it, and the rejected
\* promise of the callback ends the process.
Catches(t) ==
  LET e == t.msg.event IN
  /\ failures' = [failures EXCEPT ![e] = @ + 1]
  /\ \/ /\ t.msg.retries < MaxRetries
        /\ tasks' = (tasks \ {t}) \cup {[t EXCEPT !.at = "timer"]}
        /\ UNCHANGED <<broker, channel, reconnecting, lastTag>>
     \/ /\ t.msg.retries >= MaxRetries /\ Usable
        /\ Sends(<<Answer("nack", t)>>)
        /\ tasks' = tasks \ {t}
     \/ /\ t.msg.retries >= MaxRetries /\ ~Usable
        /\ Dies

\* channel.ack in the try block: without a channel it throws into the catch.
Acknowledges(t) ==
  \/ /\ Usable
     /\ Sends(<<Answer("ack", t)>>)
     /\ tasks' = tasks \ {t}
     /\ UNCHANGED failures
  \/ ~Usable /\ Catches(t)

Known(t)    == dispatch # "by key" \/ t.msg.key = "event"
Readable(t) == t.msg.event \notin malformed
DroppedAtOnce(e) == dispatch = "parse first" /\ e \in malformed

\* No JSON in user-service: dropped before the try block.  Without a channel the
\* nack throws and ends the process.
Drop(t) ==
  /\ t.at = "handling" /\ DroppedAtOnce(t.msg.event)
  /\ \/ /\ Usable
        /\ Sends(<<Answer("nack", t)>>)
        /\ tasks' = tasks \ {t}
     \/ ~Usable /\ Dies
  /\ UNCHANGED <<dispatch, malformed, session, history>>

\* No handler for the routing key: acknowledged to discard.
Discard(t) ==
  /\ t.at = "handling" /\ Readable(t) /\ ~Known(t)
  /\ Acknowledges(t)
  /\ UNCHANGED <<dispatch, malformed, session, arrived, handled, givenUp, misacked>>

HandlerReturns(t) ==
  /\ t.at = "handling" /\ Readable(t) /\ Known(t)
  /\ handled' = handled \cup {t.msg.event}
  /\ Acknowledges(t)
  /\ UNCHANGED <<dispatch, malformed, session, arrived, givenUp, misacked>>

\* The content is parsed first, whatever the key.
HandlerThrows(t) ==
  /\ t.at = "handling"
  /\ IF Readable(t) THEN Known(t) ELSE ~DroppedAtOnce(t.msg.event)
  /\ Catches(t)
  /\ UNCHANGED <<dispatch, malformed, session, arrived, handled, givenUp, misacked>>

\* The one await without a deadline: the handlers of subscription.activated and
\* subscription.expiry_reminder ask auth-service for the user by a call that has
\* neither a deadline nor a breaker, and that may never be answered.
HandlerHangs(t) ==
  /\ t.at = "handling" /\ dispatch = "by key" /\ Readable(t) /\ Known(t)
  /\ tasks' = (tasks \ {t}) \cup {[t EXCEPT !.at = "hung"]}
  /\ UNCHANGED <<dispatch, malformed, broker, channel, reconnecting, session, lastTag, history>>

\* Fault: the original is not acknowledged.
TimerFiresWithoutAck(t) ==
  /\ t.at = "timer" /\ Usable
  /\ Sends(<<[op |-> "publish", tag |-> 0,
              own |-> [t.msg EXCEPT !.retries = @ + 1, !.key = "queue"]]>>)
  /\ tasks' = tasks \ {t}
  /\ UNCHANGED <<dispatch, malformed, session, history>>

\* setTimeout: the copy, then the acknowledgement of the original.  Without a
\* channel the timer's callback throws and the process ends.
TimerFires(t) ==
  /\ t.at = "timer"
  /\ \/ /\ Usable
        /\ Sends(<<[op |-> "publish", tag |-> 0,
                    own |-> [t.msg EXCEPT !.retries = @ + 1, !.key = "queue"]],
                   Answer("ack", t)>>)
        /\ tasks' = tasks \ {t}
     \/ ~Usable /\ Dies
  /\ UNCHANGED <<dispatch, malformed, session, history>>

-------------------------------------------------------------------------------
(* initRabbitConsumer, at the start of the process or from scheduleReconnect.  *)

\* The connection and its channel.
Connect ==
  /\ channel = "null" /\ session < MaxSessions
  /\ channel' = "setup" /\ session' = session + 1
  /\ UNCHANGED <<dispatch, malformed, broker, reconnecting, lastTag, tasks, history>>

\* Exchanges, queues, bindings, consumers, and the listeners.
Subscribe ==
  /\ channel = "setup"
  /\ channel' = "open" /\ reconnecting' = FALSE
  /\ UNCHANGED <<dispatch, malformed, broker, session, lastTag, tasks, history>>

\* The broker closes the connection in between, which is no error and finds no
\* listener: the attempt is rejected, and at the start that ends the process.
SetupRejected ==
  /\ channel = "setup"
  /\ \/ /\ reconnecting
        /\ channel' = "dead"
        /\ Forgotten
        /\ UNCHANGED <<reconnecting, tasks>>
     \/ ~reconnecting /\ Dies
  /\ UNCHANGED <<dispatch, malformed, session, history>>

\* The next attempt: "if (channel) return channel".
Reuse ==
  /\ channel = "dead" /\ reconnecting
  /\ reconnecting' = FALSE
  /\ UNCHANGED <<dispatch, malformed, broker, channel, session, lastTag, tasks, history>>

ConnectionLost ==
  /\ Breaks
  /\ UNCHANGED <<dispatch, malformed, session, history>>

Crash ==
  /\ Dies
  /\ UNCHANGED <<dispatch, malformed, session, history>>

-------------------------------------------------------------------------------

Process(t) == Drop(t) \/ Discard(t) \/ HandlerReturns(t) \/ HandlerThrows(t) \/ TimerFires(t)

Next == \/ \E e \in Events : Arrive(e)
        \/ Deliver \/ Settle \/ TakeCopy
        \/ \E t \in tasks : Process(t) \/ HandlerHangs(t)
        \/ Connect \/ Subscribe \/ SetupRejected \/ Reuse
        \/ ConnectionLost \/ Crash

\* The broker delivers and reads, awaits settle but for those of a hung handler,
\* timers fire, reconnection is tried until it succeeds.
Fairness == /\ WF_vars(Deliver) /\ WF_vars(Settle) /\ WF_vars(TakeCopy)
            /\ WF_vars(Connect) /\ WF_vars(Subscribe) /\ WF_vars(Reuse)
            /\ WF_vars(\E t \in tasks : Process(t))

Spec     == Init /\ [][Next]_vars
FairSpec == Spec /\ Fairness

-------------------------------------------------------------------------------
(* Properties.                                                               *)

\* A copy of the event is at the broker or on its way to it.
Kept(e) == \/ \E i \in DOMAIN ready   : ready[i].event = e
           \/ \E t \in DOMAIN unacked : unacked[t].event = e
           \/ \E i \in DOMAIN wire    : wire[i].op = "publish" /\ wire[i].own.event = e

\* Where the code does lose events: another delivery's acknowledgement settled
\* it, or a retry came back under a routing key that has no handler.
Excused(e) == \/ e \in misacked
              \/ dispatch = "by key" /\ failures[e] > 0 /\ e \notin malformed

\* The process waits for an answer about the event that may never come, or for
\* so many such answers that it is sent nothing more on this channel.
Waits(e) == LET hung == {t \in tasks : t.at = "hung"} IN
            \/ \E t \in hung : t.msg.event = e
            \/ Cardinality({t \in hung : t.session = session}) >= Prefetch

\* At least once: through crashes, lost connections and retries, an event stays
\* at the broker until its handler has returned or it was given up, but for those
\* that the code loses: see Excused.
NoEventLost ==
  \A e \in arrived : e \in handled \cup givenUp \/ Kept(e) \/ Excused(e)

\* An event is given up only after it has failed more than MaxRetries times,
\* on whatever channels and in whatever processes that was; user-service gives
\* up at once what it cannot read, and nothing else.
GivenUpAfterRetries ==
  \A e \in givenUp \ misacked : failures[e] > MaxRetries \/ DroppedAtOnce(e)

\* Every event that arrives is handled or given up, unless a handler waits for
\* good, the consumer keeps a dead channel, or the instance runs out of channels.
EventsAreSettled ==
  \A e \in Events : e \in arrived ~>
    \/ e \in handled \cup givenUp
    \/ Excused(e) \/ Waits(e)
    \/ channel = "dead" /\ ~reconnecting
    \/ session = MaxSessions /\ channel = "null"

\* docs/notification/ARCHITECTURE.md:506: the error "is thrown back to the
\* RabbitMQ consumer, which triggers the message retry logic (up to 3
\* attempts)".  An event whose handler failed is kept until the handler has
\* returned or the retries are used up.  (Refuted: the first retry arrives with
\* the queue's name as its routing key, finds no handler, and is discarded.)
FailedEventsAreRetried ==
  \A e \in arrived : failures[e] > 0 => e \in handled \cup givenUp \/ Kept(e)
===============================================================================
