-------------------------------- MODULE Inbox --------------------------------
(***************************************************************************)
(* notification-service: the rows of `notifications`, the e-mails that go  *)
(* with them, and the unread counter in Redis, written by event handlers   *)
(* and by the calls of the gateway that interleave at their awaits.        *)
(*                                                                         *)
(* The queue is the one of EventConsumer, reduced to what an event can     *)
(* meet there: a delivery, an acknowledgement, a redelivery after the      *)
(* connection or the process died, and the wait of a failed event for a    *)
(* retry that no handler takes.                                            *)
(*                                                                         *)
(* Simplifications.  The set of recent ids is written here and read        *)
(* nowhere, so it is left out.  INCR or DECR and the EXPIRE after it are   *)
(* one step: nothing but the key's TTL is between them.  A Redis operation *)
(* that a breaker gives up on is lost (Loses) or was done in full.         *)
(* A write that dbBreaker gives up on after 8 s is not stopped: it may be  *)
(* done later (late, Lands), or never.  One done before its caller gives   *)
(* up is taken as done right after, which no property tells apart.         *)
(***************************************************************************)
EXTENDS Integers, Sequences, FiniteSets

CONSTANTS Users,
          Events,    \* events of the three queues
          Kinds,     \* routing keys that the events have
          Tasks,     \* handlers and calls that can be in progress at once
          Calls,     \* calls that the gateway makes
          Manual,     \* channels that administrators send on
          Failing,   \* what can fail: "auth", "smtp", "database", "redis",
                     \* "connection", "process"
          MaxRows    \* bound on notifications.id

VARIABLES
  kind,       \* routing key of an event
  addressee,  \* user an event is about
  queue,      \* where an event stands: "ready", "out", "waiting", "settled"
  holder,     \* task that runs the latest delivery of an event
  made,       \* rows inserted so far
  rows,       \* notifications, by id
  unread,     \* notification:unread_count:<user>: <<>> or <<count>>
  task,       \* handlers and calls in progress
  late,       \* writes whose callers have given up, and which may yet be done
  \* history variables, read by the properties only
  mailed,     \* ids whose e-mail the SMTP server has taken
  mails,      \* e-mails sent for an event
  again,      \* events delivered more than once
  excused,    \* events whose handler met a failure
  stranded,   \* ids whose handler died, lost its status update, or never
              \* learnt of them
  exact       \* users whose counter met nothing that disturbs it since its fill

queueVars == <<kind, addressee, queue, holder, again, excused>>
mailVars  == <<mailed, mails, stranded, late>>
vars == <<queueVars, made, rows, unread, task, mailVars, exact>>

ASSUME RowsAssumption == MaxRows \in Nat

-------------------------------------------------------------------------------
(* Rows, tasks, events.                                                      *)

Everyone == "everyone"     \* user_id null of a broadcast
NoEvent  == "no event"     \* a SendNotification call
NoTask   == "no task"
Ids      == 1..MaxRows

Channels == {"email", "in_app", "both"}

Row  == [user   : Users \cup {Everyone},
         status : {"pending", "delivered", "sent", "failed", "read"},
         seen   : {"unread", "read"}]
Gone == [status |-> "gone"]

\* What a handler does first, and with which channel.
HandleUserVerifyEmail          == [first |-> "create",    channel |-> "email"]
HandleUserForgotPassword       == [first |-> "create",    channel |-> "email"]
HandleUserPasswordChanged      == [first |-> "create",    channel |-> "both"]
HandleUserLoggedIn             == [first |-> "create",    channel |-> "both"]
HandleUser2faEnabled           == [first |-> "create",    channel |-> "both"]
HandleSubscriptionActivated    == [first |-> "lookup",    channel |-> "email"]
HandleSubscriptionExpiryRemind == [first |-> "lookup",    channel |-> "both"]
HandleArticleCreated           == [first |-> "broadcast", channel |-> "in_app"]

Handlers ==
  [user_verify_email            |-> HandleUserVerifyEmail,
   user_forgot_password         |-> HandleUserForgotPassword,
   user_password_changed        |-> HandleUserPasswordChanged,
   user_logged_in               |-> HandleUserLoggedIn,
   user_2fa_enabled             |-> HandleUser2faEnabled,
   subscription_activated       |-> HandleSubscriptionActivated,
   subscription_expiry_reminder |-> HandleSubscriptionExpiryRemind,
   article_created              |-> HandleArticleCreated]

ASSUME InboxAssumption == /\ Kinds \subseteq DOMAIN Handlers
                          /\ Manual \subseteq Channels
                          /\ NoEvent \notin Events
                          /\ Everyone \notin Users

\* createAndSend: insert, e-mail, status, counter, and for "both" a second
\* insert and counter.  The calls: the counter's fill, decrement and reset.
Steps == {"lookup", "broadcast", "create", "mail", "sent", "failed", "second",
          "bump", "incr", "fill", "dec", "get", "decr", "zero", "delete"}
Busy  == [at : Steps, user : Users, channel : Channels, row : 0..MaxRows,
          event : Events \cup {NoEvent}, count : Int]
Idle  == [at |-> "idle"]

\* A write: by a handler or call of the task, on one row, or all (0), of a user.
Writes == [op : {"insert", "status", "mark", "delete"}, by : Tasks \cup {NoTask},
           user : Users \cup {Everyone}, row : 0..MaxRows,
           status : {"pending", "delivered", "sent", "failed", "read", "gone"}]
Write(op, t, u, i, status) == [op |-> op, by |-> t, user |-> u, row |-> i, status |-> status]

OfUser(t, u)  == task[t] # Idle /\ task[t].user = u
Adding        == {"lookup", "create", "mail", "sent", "failed", "second", "bump", "incr"}

\* Rows that NotificationModel.getUnreadCount counts.
UnreadRows(u) == {i \in Ids : /\ rows[i] # Gone
                              /\ rows[i].user \in {u, Everyone}
                              /\ rows[i].seen = "unread"}

TypeOK ==
  /\ kind \in [Events -> Kinds]
  /\ addressee \in [Events -> Users]
  /\ queue \in [Events -> {"ready", "out", "waiting", "settled"}]
  /\ holder \in [Events -> Tasks \cup {NoTask}]
  /\ made \in 0..MaxRows
  /\ rows \in [Ids -> Row \cup {Gone}]
  /\ unread \in [Users -> Seq(Int)] /\ \A u \in Users : Len(unread[u]) <= 1
  /\ task \in [Tasks -> Busy \cup {Idle}]
  /\ late \subseteq Writes
  /\ mailed \subseteq Ids
  /\ mails \in [Events -> Nat]
  /\ again \subseteq Events
  /\ excused \subseteq Events
  /\ stranded \subseteq Ids
  /\ exact \subseteq Users

Init ==
  /\ kind \in [Events -> Kinds]
  /\ addressee \in [Events -> Users]
  /\ queue = [e \in Events |-> "ready"]
  /\ holder = [e \in Events |-> NoTask]
  /\ made = 0
  /\ rows = [i \in Ids |-> Gone]
  /\ unread = [u \in Users |-> <<>>]
  /\ task = [t \in Tasks |-> Idle]
  /\ late = {}
  /\ mailed = {}
  /\ mails = [e \in Events |-> 0]
  /\ again = {}
  /\ excused = {}
  /\ stranded = {}
  /\ exact = Users

-------------------------------------------------------------------------------
(* Moves of a task.                                                          *)

Goes(t, step) == task' = [task EXCEPT ![t].at = step]
Ends(t)       == task' = [task EXCEPT ![t] = Idle]
Disturbs(U)   == exact' = exact \ U

\* What a call that begins means for the counter: two calls that both add
\* to it commute, and so do two that mark rows as read.
Harmless(first, t) ==
  \/ first \in Adding /\ task[t].at \in Adding
  \/ first = "dec" /\ task[t].at \in {"dec", "get", "decr"}
Overlaps(t, u, first) ==
  \E s \in Tasks \ {t} : OfUser(s, u) /\ ~Harmless(first, s)

Begins(t, u, first, channel, row, event, count) ==
  /\ task[t] = Idle
  /\ task' = [task EXCEPT ![t] = [at |-> first, user |-> u, channel |-> channel,
                                  row |-> row, event |-> event, count |-> count]]

\* The handler's end, for the event only if the delivery is still the one the
\* broker waits for.
EndsWith(t, place) ==
  LET e == task[t].event IN
  /\ Ends(t)
  /\ IF e # NoEvent /\ holder[e] = t
       THEN /\ queue'  = [queue EXCEPT ![e] = place]
            /\ holder' = [holder EXCEPT ![e] = NoTask]
       ELSE UNCHANGED <<queue, holder>>
  /\ UNCHANGED <<kind, addressee, again>>

\* The handler returns: the consumer acknowledges its event.
Returns(t) == EndsWith(t, "settled")

Inserts(u, status) ==
  /\ made < MaxRows
  /\ made' = made + 1
  /\ rows' = [rows EXCEPT ![made + 1] = [user |-> u, status |-> status, seen |-> "unread"]]

Owns(u, i) == rows[i] # Gone /\ rows[i].user = u
\* NotificationModel.deleteById: DELETE ... WHERE id, user_id.
DeleteById(i, u) == rows' = [j \in Ids |-> IF j = i /\ Owns(u, j) THEN Gone ELSE rows[j]]

\* Fault: a row that is gone comes back.
UpsertStatus(i, status) == rows' = [rows EXCEPT ![i].status = status]

\* NotificationModel.updateStatus: no row, no effect.
UpdateStatus(i, status) ==
  rows' = IF rows[i] = Gone THEN rows ELSE [rows EXCEPT ![i].status = status]

-------------------------------------------------------------------------------
(* The queue.                                                                *)

\* A delivery: the handler of the routing key starts.
Deliver(t, e) ==
  LET h == Handlers[kind[e]]
      u == addressee[e] IN
  /\ queue[e] = "ready"
  /\ Begins(t, u, h.first, h.channel, 0, e, 0)
  /\ queue'  = [queue EXCEPT ![e] = "out"]
  /\ holder' = [holder EXCEPT ![e] = t]
  /\ Disturbs(IF h.first # "broadcast" /\ Overlaps(t, u, h.first) THEN {u} ELSE {})
  /\ UNCHANGED <<kind, addressee, again, excused, made, rows, unread, mailVars>>

\* The connection is lost: the deliveries go back to the queue, the handlers
\* go on.
ConnectionLost ==
  LET out == {e \in Events : queue[e] \in {"out", "waiting"}} IN
  /\ "connection" \in Failing
  /\ out # {}
  /\ queue'  = [e \in Events |-> IF e \in out THEN "ready" ELSE queue[e]]
  /\ holder' = [e \in Events |-> NoTask]
  /\ again'  = again \cup out
  /\ UNCHANGED <<kind, addressee, excused, made, rows, unread, task, mailVars, exact>>

\* The retry: a copy under the queue's name, which no handler takes, and the
\* acknowledgement.
RetryTimer(e) ==
  /\ queue[e] = "waiting"
  /\ queue' = [queue EXCEPT ![e] = "settled"]
  /\ UNCHANGED <<kind, addressee, holder, again, excused, made, rows, unread, task, mailVars, exact>>

\* The process dies: every handler and call ends where it is.
Crash ==
  LET out == {e \in Events : queue[e] \in {"out", "waiting"}} IN
  /\ "process" \in Failing
  /\ \E t \in Tasks : task[t] # Idle
  /\ task'   = [t \in Tasks |-> Idle]
  /\ queue'  = [e \in Events |-> IF e \in out THEN "ready" ELSE queue[e]]
  /\ holder' = [e \in Events |-> NoTask]
  /\ again'  = again \cup out
  /\ stranded' = stranded \cup {i \in Ids : \E t \in Tasks : task[t] # Idle /\ task[t].row = i}
  /\ Disturbs({u \in Users : \E t \in Tasks : OfUser(t, u)})
  /\ UNCHANGED <<kind, addressee, excused, made, rows, unread, mailed, mails, late>>

-------------------------------------------------------------------------------
(* The event handlers and createAndSend.                                     *)

\* getUserById at auth-service.
Lookup(t) ==
  /\ task[t].at = "lookup"
  /\ Goes(t, "create")
  /\ UNCHANGED <<queueVars, made, rows, unread, mailVars, exact>>

\* Its failure is logged and the handler returns: the event is acknowledged.
LookupFails(t) ==
  /\ "auth" \in Failing
  /\ task[t].at = "lookup"
  /\ excused' = excused \cup {task[t].event}
  /\ Returns(t)
  /\ UNCHANGED <<made, rows, unread, mailVars, exact>>

\* createBroadcast: one row for all users; no counter is touched.
CreateBroadcast(t) ==
  /\ task[t].at = "broadcast"
  /\ Inserts(Everyone, "sent")
  /\ Returns(t)
  /\ Disturbs(Users)
  /\ UNCHANGED <<excused, unread, mailVars>>

\* The insert of createAndSend: pending for e-mail, delivered in-app.
Create(t) ==
  LET inApp == task[t].channel = "in_app" IN
  /\ task[t].at = "create"
  /\ Inserts(task[t].user, IF inApp THEN "delivered" ELSE "pending")
  /\ task' = [task EXCEPT ![t].at = IF inApp THEN "bump" ELSE "mail", ![t].row = made + 1]
  /\ UNCHANGED <<queueVars, unread, mailVars, exact>>

Taken(t) ==
  /\ mailed' = mailed \cup {task[t].row}
  /\ mails'  = IF task[t].event = NoEvent THEN mails
                                          ELSE [mails EXCEPT ![task[t].event] = @ + 1]

\* Fault: an e-mail that was refused is sent once more.
SendEmailTwice(t) ==
  /\ task[t].at = "mail"
  /\ Taken(t)
  /\ Goes(t, IF task[t].row \in mailed THEN "sent" ELSE "mail")
  /\ UNCHANGED <<queueVars, made, rows, unread, stranded, late, exact>>

\* sendEmail: the SMTP server takes it.
SendEmail(t) ==
  /\ task[t].at = "mail"
  /\ Taken(t)
  /\ Goes(t, "sent")
  /\ UNCHANGED <<queueVars, made, rows, unread, stranded, late, exact>>

\* It refuses it, or takes it after the breaker has given up.
SendEmailFails(t) ==
  /\ "smtp" \in Failing
  /\ task[t].at = "mail"
  /\ Goes(t, "failed")
  /\ \/ UNCHANGED mailVars
     \/ Taken(t) /\ stranded' = stranded \cup {task[t].row} /\ UNCHANGED late
  /\ UNCHANGED <<queueVars, made, rows, unread, exact>>

\* Fault: the row stays pending.
SentForgets(t) ==
  /\ task[t].at = "sent"
  /\ Goes(t, "bump")
  /\ UNCHANGED <<queueVars, made, rows, unread, mailVars, exact>>

\* updateStatus(id, 'sent').
Sent(t) ==
  /\ task[t].at = "sent"
  /\ UpdateStatus(task[t].row, "sent")
  /\ Goes(t, "bump")
  /\ UNCHANGED <<queueVars, made, unread, mailVars, exact>>

\* A caller gives up on the write w, which is done later or never.
GivesUp(w) == late' \in {late, late \cup {w}}

\* It rejects: the catch block treats the e-mail as one that failed.
SentRejected(t) ==
  /\ "database" \in Failing
  /\ task[t].at = "sent"
  /\ Goes(t, "failed")
  /\ stranded' = stranded \cup {task[t].row}
  /\ GivesUp(Write("status", t, task[t].user, task[t].row, "sent"))
  /\ UNCHANGED <<queueVars, made, rows, unread, mailed, mails, exact>>

\* The end of a handler that throws: its event waits for the retry timer.
Throws(t) ==
  LET e == task[t].event IN
  /\ excused' = IF e = NoEvent THEN excused ELSE excused \cup {e}
  /\ EndsWith(t, "waiting")

\* updateStatus(id, 'failed'), and the error is thrown on.  The row stays
\* unread and was never counted in Redis.
Failed(t) ==
  /\ task[t].at = "failed"
  /\ UpdateStatus(task[t].row, "failed")
  /\ Throws(t)
  /\ Disturbs({task[t].user})
  /\ UNCHANGED <<made, unread, mailVars>>

FailedRejected(t) ==
  /\ "database" \in Failing
  /\ task[t].at = "failed"
  /\ stranded' = stranded \cup {task[t].row}
  /\ GivesUp(Write("status", t, task[t].user, task[t].row, "failed"))
  /\ Throws(t)
  /\ Disturbs({task[t].user})
  /\ UNCHANGED <<made, rows, unread, mailed, mails>>

\* Of "both" the in-app row is still to come.
AfterBump(t) ==
  IF task[t].channel = "both"
    THEN Goes(t, "second") /\ UNCHANGED queueVars
    ELSE Returns(t) /\ UNCHANGED excused

\* incrementUnread: EXISTS.
Bump(t) ==
  /\ task[t].at = "bump"
  /\ IF unread[task[t].user] # <<>>
       THEN Goes(t, "incr") /\ UNCHANGED queueVars
       ELSE AfterBump(t)
  /\ UNCHANGED <<made, rows, unread, mailVars, exact>>

Add(u, k) == unread' = [unread EXCEPT ![u] = IF @ = <<>> THEN <<k>> ELSE <<@[1] + k>>]

\* incrementUnread: INCR, which makes a key that has lapsed since.
Incr(t) ==
  /\ task[t].at = "incr"
  /\ Add(task[t].user, 1)
  /\ AfterBump(t)
  /\ UNCHANGED <<made, rows, mailVars, exact>>

\* The second record of "both": in-app, delivered.
Second(t) ==
  /\ task[t].at = "second"
  /\ Inserts(task[t].user, "delivered")
  /\ task' = [task EXCEPT ![t].at = "bump", ![t].channel = "in_app", ![t].row = made + 1]
  /\ UNCHANGED <<queueVars, unread, mailVars, exact>>

\* Its failure is swallowed; the row may come, and is not counted.
SecondRejected(t) ==
  /\ "database" \in Failing
  /\ task[t].at = "second"
  /\ GivesUp(Write("insert", t, task[t].user, 0, "delivered"))
  /\ Returns(t)
  /\ UNCHANGED <<excused, made, rows, unread, mailed, mails, stranded, exact>>

\* The insert rejects, and the handler throws: the row may come, and nobody
\* mails or counts it.
CreateRejected(t) ==
  LET status == CASE task[t].at = "broadcast"      -> "sent"
                  [] task[t].channel = "in_app" -> "delivered"
                  [] OTHER                      -> "pending"
      user == IF task[t].at = "broadcast" THEN Everyone ELSE task[t].user IN
  /\ "database" \in Failing
  /\ task[t].at \in {"create", "broadcast"}
  /\ GivesUp(Write("insert", t, user, 0, status))
  /\ Throws(t)
  /\ UNCHANGED <<made, rows, unread, mailed, mails, stranded, exact>>

-------------------------------------------------------------------------------
(* The calls of the gateway and of the administrators.                       *)

\* sendManual: createAndSend without an event.
SendManual(t, u, c) ==
  /\ Begins(t, u, "create", c, 0, NoEvent, 0)
  /\ Disturbs(IF Overlaps(t, u, "create") THEN {u} ELSE {})
  /\ UNCHANGED <<queueVars, made, rows, unread, mailVars>>

\* getUnreadCount on a miss: the rows are counted.  (A hit changes nothing.)
\* The counter starts anew with the fill.
GetUnreadCount(t, u) ==
  /\ "count" \in Calls
  /\ unread[u] = <<>>
  /\ Begins(t, u, "fill", "in_app", 0, NoEvent, Cardinality(UnreadRows(u)))
  /\ exact' = IF Overlaps(t, u, "fill") THEN exact \ {u} ELSE exact \cup {u}
  /\ UNCHANGED <<queueVars, made, rows, unread, mailVars>>

\* setUnreadCount.
SetUnreadCount(t) ==
  /\ task[t].at = "fill"
  /\ unread' = [unread EXCEPT ![task[t].user] = <<task[t].count>>]
  /\ Ends(t)
  /\ UNCHANGED <<queueVars, made, rows, mailVars, exact>>

Unreads(i, u) == rows[i] # Gone /\ rows[i].user = u /\ rows[i].seen = "unread"
MarkRead(I)   == rows' = [i \in Ids |-> IF i \in I
                             THEN [rows[i] EXCEPT !.seen = "read", !.status = "read"]
                             ELSE rows[i]]

\* markAsRead: UPDATE ... WHERE id, user_id, read = false.  A row that does
\* not match ends the call with an error.
MarkAsRead(t, u, i) ==
  /\ "mark" \in Calls
  /\ Unreads(i, u)
  /\ MarkRead({i})
  /\ Begins(t, u, "dec", "in_app", 0, NoEvent, 0)
  /\ Disturbs(IF Overlaps(t, u, "dec") THEN {u} ELSE {})
  /\ UNCHANGED <<queueVars, made, unread, mailVars>>

\* markAllAsRead: the user's own rows; broadcasts stay unread.
MarkAllAsRead(t, u) ==
  /\ "mark" \in Calls
  /\ MarkRead({i \in Ids : Unreads(i, u)})
  /\ Begins(t, u, "zero", "in_app", 0, NoEvent, 0)
  /\ Disturbs(IF Overlaps(t, u, "zero") \/ \E i \in Ids : Unreads(i, Everyone)
                THEN {u} ELSE {})
  /\ UNCHANGED <<queueVars, made, unread, mailVars>>

\* resetUnreadCount.
ResetUnreadCount(t) ==
  /\ task[t].at = "zero"
  /\ unread' = [unread EXCEPT ![task[t].user] = <<0>>]
  /\ Ends(t)
  /\ UNCHANGED <<queueVars, made, rows, mailVars, exact>>

\* deleteNotification: the row is read, with its flag.
DeleteNotification(t, u, i) ==
  /\ "delete" \in Calls
  /\ Owns(u, i)
  /\ Begins(t, u, "delete", "in_app", i, NoEvent, IF rows[i].seen = "unread" THEN 1 ELSE 0)
  /\ Disturbs(IF Overlaps(t, u, "delete") THEN {u} ELSE {})
  /\ UNCHANGED <<queueVars, made, rows, unread, mailVars>>

\* Fault: the counter is not told.
DeleteUncounted(t) ==
  /\ task[t].at = "delete"
  /\ DeleteById(task[t].row, task[t].user)
  /\ Ends(t)
  /\ UNCHANGED <<queueVars, made, unread, mailVars, exact>>

\* deleteById; then the counter, if the row was unread when it was read.
Delete(t) ==
  /\ task[t].at = "delete"
  /\ DeleteById(task[t].row, task[t].user)
  /\ IF task[t].count = 1 THEN Goes(t, "dec") ELSE Ends(t)
  /\ UNCHANGED <<queueVars, made, unread, mailVars, exact>>

\* decrementUnread: EXISTS, GET, DECR.
Dec(t) ==
  /\ task[t].at = "dec"
  /\ IF unread[task[t].user] # <<>> THEN Goes(t, "get") ELSE Ends(t)
  /\ UNCHANGED <<queueVars, made, rows, unread, mailVars, exact>>

Get(t) ==
  LET c == unread[task[t].user] IN
  /\ task[t].at = "get"
  /\ IF c # <<>> /\ c[1] > 0 THEN Goes(t, "decr") ELSE Ends(t)
  /\ UNCHANGED <<queueVars, made, rows, unread, mailVars, exact>>

Decr(t) ==
  /\ task[t].at = "decr"
  /\ Add(task[t].user, -1)
  /\ Ends(t)
  /\ UNCHANGED <<queueVars, made, rows, mailVars, exact>>

-------------------------------------------------------------------------------
(* Failures, the TTL, the archiver.                                          *)

\* A Redis operation fails; every caller goes on without it.
Loses(t) ==
  /\ "redis" \in Failing
  /\ \/ task[t].at \in {"bump", "incr"} /\ AfterBump(t)
     \/ task[t].at \in {"fill", "dec", "get", "decr", "zero"} /\ Ends(t) /\ UNCHANGED queueVars
  /\ Disturbs({task[t].user})
  /\ UNCHANGED <<made, rows, unread, mailVars>>

\* The DELETE rejects, and the call with it; the row may go later, uncounted.
DeleteRejected(t) ==
  /\ "database" \in Failing
  /\ task[t].at = "delete"
  /\ GivesUp(Write("delete", t, task[t].user, task[t].row, "gone"))
  /\ Ends(t)
  /\ UNCHANGED <<queueVars, made, rows, unread, mailed, mails, stranded, exact>>

\* So for the UPDATE of markAsRead (a row i) and of markAllAsRead (0).
MarkRejected(u, i) ==
  /\ "database" \in Failing
  /\ "mark" \in Calls
  /\ i # 0 => Unreads(i, u)
  /\ late' = late \cup {Write("mark", NoTask, u, i, "read")}
  /\ UNCHANGED <<queueVars, made, rows, unread, task, mailed, mails, stranded, exact>>

\* A write whose caller has given up is done.  No counter is told.
Lands(w) ==
  /\ w \in late
  /\ late' = late \ {w}
  /\ \/ /\ w.op = "insert"
        /\ Inserts(w.user, w.status)
        /\ stranded' = stranded \cup {made + 1}
     \/ /\ \/ w.op = "status" /\ UpdateStatus(w.row, w.status)
           \/ w.op = "mark"   /\ MarkRead({i \in Ids : Unreads(i, w.user) /\ w.row \in {0, i}})
           \/ w.op = "delete" /\ DeleteById(w.row, w.user)
        /\ UNCHANGED <<made, stranded>>
  /\ Disturbs(IF w.op = "status" THEN {} ELSE {u \in Users : w.user \in {u, Everyone}})
  /\ UNCHANGED <<queueVars, unread, task, mailed, mails>>

\* The counter's TTL runs out, and with it what the counter has met.
KeyExpires(u) ==
  /\ unread[u] # <<>>
  /\ unread' = [unread EXCEPT ![u] = <<>>]
  /\ exact' = IF \E t \in Tasks : OfUser(t, u) THEN exact \ {u} ELSE exact \cup {u}
  /\ UNCHANGED <<queueVars, made, rows, task, mailVars>>

\* archiveOld: rows up to some age leave the table, read or not.
ArchiveOld(i) ==
  LET old == {j \in Ids : j <= i /\ rows[j] # Gone} IN
  /\ "archive" \in Calls
  /\ old # {}
  /\ rows' = [j \in Ids |-> IF j \in old THEN Gone ELSE rows[j]]
  /\ Disturbs({u \in Users : \/ old \cap UnreadRows(u) # {}
                               \/ \E t \in Tasks : OfUser(t, u)})
  /\ UNCHANGED <<queueVars, made, unread, task, mailVars>>

-------------------------------------------------------------------------------

HandlerStep(t) ==
  \/ CreateBroadcast(t) \/ Create(t) \/ SendEmail(t) \/ Sent(t)
  \/ Failed(t) \/ Bump(t) \/ Incr(t) \/ Second(t)

CallStep(t) ==
  \/ SetUnreadCount(t) \/ ResetUnreadCount(t) \/ Delete(t)
  \/ Dec(t) \/ Get(t) \/ Decr(t)

Call(t, u) ==
  \/ \E c \in Manual : SendManual(t, u, c)
  \/ GetUnreadCount(t, u)
  \/ MarkAllAsRead(t, u)
  \/ \E i \in Ids : MarkAsRead(t, u, i) \/ DeleteNotification(t, u, i)

Works ==
  \/ \E t \in Tasks : \/ Lookup(t) \/ HandlerStep(t) \/ CallStep(t)
                      \/ \E e \in Events : Deliver(t, e)
  \/ \E e \in Events : RetryTimer(e)
  \/ \E u \in Users : KeyExpires(u)
  \/ \E w \in late : Lands(w)

Requests ==
  \/ \E t \in Tasks, u \in Users : Call(t, u)
  \/ \E i \in Ids : ArchiveOld(i)

Fails ==
  \/ \E t \in Tasks : \/ LookupFails(t) \/ CreateRejected(t) \/ SendEmailFails(t)
                      \/ SentRejected(t) \/ FailedRejected(t) \/ SecondRejected(t)
                      \/ DeleteRejected(t) \/ Loses(t)
  \/ \E u \in Users, i \in 0..MaxRows : MarkRejected(u, i)
  \/ ConnectionLost
  \/ Crash

Next == Works \/ Requests \/ Fails

\* A handler whose await has settled goes on, and every await settles, for the
\* breakers have time-outs; getUserById has none.  Nothing is assumed of calls
\* or failures.
Fairness == \A t \in Tasks : WF_vars(HandlerStep(t))

Spec     == Init /\ [][Next]_vars
FairSpec == Spec /\ Fairness

-------------------------------------------------------------------------------
(* Properties.                                                               *)

\* The badge: when nothing of a user is in progress, a cached counter is the
\* number of unread rows, unless since its fill a broadcast came, an e-mail
\* failed, an unread row was archived, a Redis operation was lost, a write was
\* done after its caller had given up, or a fill, reset or deletion overlapped
\* another call.  Concurrent notifications, and
\* concurrent marks, do not disturb it (notificationCache.js).
BadgeIsExact ==
  \A u \in Users :
    (\A t \in Tasks : ~OfUser(t, u)) /\ u \in exact /\ unread[u] # <<>>
      => unread[u] = <<Cardinality(UnreadRows(u))>>

\* An event is mailed once: not twice, unless the broker delivered it again
\* because the process or its connection died (createAndSend has no idempotency
\* check), and not settled before, unless it is an article, or its handler met
\* a failure, after which the retry or the failed lookup drops it.
OneMailPerEvent ==
  \A e \in Events :
    /\ mails[e] <= 1 \/ e \in again
    /\ queue[e] = "settled" => \/ mails[e] > 0
                               \/ e \in excused
                               \/ kind[e] = "article_created"

\* What the delivery log says of an e-mail is true: a row that is sent was
\* taken by the SMTP server, and one whose e-mail was taken says sent (or
\* read) as soon as its handler is past it, unless the handler died or lost a
\* status update, or the breaker gave up on a slow server.
LogIsTrue ==
  \A i \in Ids : rows[i] # Gone /\ rows[i].user # Everyone =>
    /\ rows[i].status = "sent" => i \in mailed
    /\ i \in mailed \ stranded =>
         \/ rows[i].status \in {"sent", "read"}
         \/ \E t \in Tasks : task[t] # Idle /\ task[t].row = i /\ task[t].at = "sent"

\* No e-mail row stays pending, unless its handler died, lost a status update,
\* or had given up on the insert.
PendingIsResolved ==
  \A i \in Ids :
    rows[i] # Gone /\ rows[i].status = "pending"
      ~> rows[i] = Gone \/ rows[i].status # "pending" \/ i \in stranded
===============================================================================
