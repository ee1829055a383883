------------------------------ MODULE InboxProofs ------------------------------
(***************************************************************************)
(* Inbox, for every set of users, events, handlers and calls: its types,   *)
(* that an event is mailed once, that the delivery log is true, and that   *)
(* the badge is exact.  The last has an invariant of its own, BadgeInv.    *)
(* Articles, for every set of titles, queries and calls in progress: its   *)
(* types, with the unique slugs, and that deleted articles leave no copy.  *)
(***************************************************************************)
EXTENDS MCInbox, FiniteSetTheorems, TLAPS

-------------------------------------------------------------------------------
(* The inductive invariant.                                                  *)

\* Before the e-mail of an event; while its row is being seen to.
Early   == {"lookup", "broadcast", "create", "mail"}
Mailing == {"mail", "sent", "failed"}

\* What a handler has done for its event, of which M says how often it was mailed.
Handled(c, M) ==
  /\ c.at \in {"lookup", "broadcast"} => c.event # NoEvent
  /\ c.event # NoEvent =>
       /\ c.at = "broadcast" => kind[c.event] = "article_created"
       /\ c.at \in {"lookup", "create"} => c.channel # "in_app"
       /\ c.at \in {"sent", "second", "bump", "incr"} => M[c.event] > 0

\* An event that was delivered once has one handler, which mails it once.
Single(e) ==
  /\ mails[e] <= 1
  /\ queue[e] = "ready" => mails[e] = 0
  /\ \A t \in Tasks : task[t] # Idle /\ task[t].event = e =>
       /\ queue[e] = "out" /\ holder[e] = t
       /\ task[t].at \in Early => mails[e] = 0

Concluded(e) ==
  /\ queue[e] = "waiting" => e \in excused
  /\ queue[e] = "settled" => mails[e] > 0 \/ e \in excused \/ kind[e] = "article_created"

EventsInv ==
  /\ \A t \in Tasks : task[t] # Idle => Handled(task[t], mails)
  /\ \A e \in Events \ again : Single(e)
  /\ \A e \in Events : Concluded(e)

\* What a handler knows of the row whose e-mail it sends: n rows are made, the
\* e-mails of M taken, the rows of S stranded.
Posted(c, n, M, S) ==
  /\ c.at \in Mailing => c.row \in 1..n
  /\ c.at = "mail" => c.row \notin M
  /\ c.at = "sent" => c.row \in M
  /\ c.at = "failed" => c.row \notin M \ S

\* Handlers see to rows of their own.
RowsApart ==
  \A s, t \in Tasks :
    /\ s # t /\ task[s] # Idle /\ task[t] # Idle
    /\ task[s].at \in Mailing /\ task[t].at \in Mailing
    => task[s].row # task[t].row

LogInv ==
  /\ \A t \in Tasks : task[t] # Idle => Posted(task[t], made, mailed, stranded)
  /\ RowsApart
  /\ mailed \subseteq 1..made
  /\ LogIsTrue

\* What a write that comes late may say: of an e-mail what is true of it, or that its
\* row is stranded; M are the e-mails taken, S the rows stranded.
Honest(w, M, S) ==
  /\ w.op = "status" => \/ w.status = "sent" /\ w.row \in M
                        \/ w.status = "failed" /\ w.row \in S
  /\ w.op = "insert" => \/ w.status \in {"pending", "delivered"}
                        \/ w.status = "sent" /\ w.user = Everyone
LateOK == \A w \in late : Honest(w, mailed, stranded)

IInv == TypeOK /\ EventsInv /\ LogInv /\ LateOK

\* What a step may add to the writes that come late.
LateGrows == \A w \in late' : w \in late \/ Honest(w, mailed', stranded')

\* The variables that the queue and the tasks have no part in.
DataOK ==
  /\ made \in 0..MaxRows
  /\ rows \in [Ids -> Row \cup {Gone}]
  /\ unread \in [Users -> Seq(Int)] /\ \A u \in Users : Len(unread[u]) <= 1
  /\ mailed \subseteq Ids
  /\ mails \in [Events -> Nat]
  /\ stranded \subseteq Ids
  /\ late \subseteq Writes
  /\ exact \subseteq Users

-------------------------------------------------------------------------------
(* Tasks.                                                                    *)

LEMMA TaskInUse ==
  ASSUME NEW c \in Busy \cup {Idle}
  PROVE  /\ c # Idle <=> c \in Busy
         /\ c # Idle <=> c.at # "idle"
         /\ c # Idle => c.at \in Steps /\ c.event \in Events \cup {NoEvent}
  BY DEF Busy, Steps, Idle

LEMMA RowInUse ==
  ASSUME NEW c \in Row \cup {Gone}
  PROVE  c # Gone <=> c \in Row
  BY DEF Row, Gone

\* A task that is somewhere is in use.
LEMMA AtStep ==
  ASSUME TypeOK, NEW t \in Tasks, task[t].at \in Steps
  PROVE  task[t] # Idle /\ task[t] \in Busy
  BY DEF TypeOK, Steps, Idle

\* What the handler of an event does first.
LEMMA FirstSteps ==
  ASSUME NEW k \in Kinds
  PROVE  LET h == Handlers[k] IN
         /\ h.first \in {"create", "lookup", "broadcast"} /\ h.channel \in Channels
         /\ h.first = "broadcast" => k = "article_created"
         /\ h.first # "broadcast" => h.channel # "in_app"
<1>1. k \in {"user_verify_email", "user_forgot_password", "user_password_changed",
             "user_logged_in", "user_2fa_enabled", "subscription_activated",
             "subscription_expiry_reminder", "article_created"}
  BY InboxAssumption DEF Handlers
<1>2. Channels = {"email", "in_app", "both"}
  BY DEF Channels
<1>3. CASE k \in {"user_verify_email", "user_forgot_password"}
  BY <1>2, <1>3 DEF Handlers, HandleUserVerifyEmail, HandleUserForgotPassword
<1>4. CASE k \in {"user_password_changed", "user_logged_in", "user_2fa_enabled"}
  BY <1>2, <1>4 DEF Handlers, HandleUserPasswordChanged, HandleUserLoggedIn, HandleUser2faEnabled
<1>5. CASE k \in {"subscription_activated", "subscription_expiry_reminder"}
  BY <1>2, <1>5 DEF Handlers, HandleSubscriptionActivated, HandleSubscriptionExpiryRemind
<1>6. CASE k = "article_created"
  BY <1>2, <1>6 DEF Handlers, HandleArticleCreated
<1> QED BY <1>1, <1>3, <1>4, <1>5, <1>6

-------------------------------------------------------------------------------
(* A step of a task: what it must do, so that the invariant is kept.         *)

\* The task t becomes v.
Turns(t, v) == v \in Busy \cup {Idle} /\ task' = [task EXCEPT ![t] = v]

\* It mails at most the event it has, once, and v has no other.
KeepsEvent(t, v) ==
  /\ \/ mails' = mails
     \/ /\ task[t] # Idle /\ task[t].at = "mail" /\ v.at \notin Early
        /\ task[t].event \in Events /\ mails' = [mails EXCEPT ![task[t].event] = @ + 1]
  /\ v # Idle =>
       /\ Handled(v, mails')
       /\ v.event # NoEvent => /\ task[t] # Idle /\ v.event = task[t].event
                               /\ v.at \in Early => task[t].at \in Early

\* It mails at most the row it sees to.
MailsOwnRow(t, v) ==
  /\ mailed \subseteq mailed' /\ stranded \subseteq stranded' /\ made <= made'
  /\ \A i \in mailed' \ mailed :
       task[t] # Idle /\ task[t].at = "mail" /\ task[t].row = i
  /\ v # Idle => Posted(v, made', mailed', stranded')
  /\ v # Idle /\ v.at \in Mailing =>
       \/ v.row > made
       \/ task[t] # Idle /\ task[t].at \in Mailing /\ task[t].row = v.row

\* A row goes, is read, or says what is true of its e-mail.
Fades(i)   == \/ rows'[i] = Gone
              \/ /\ rows[i] # Gone /\ rows'[i].user = rows[i].user
                 /\ rows'[i].status \in {rows[i].status, "read"}
Truthful(i) == \/ rows'[i].user = Everyone
               \/ rows'[i].status = "sent" /\ i \in mailed
               \/ rows'[i].status # "sent" /\ i \notin mailed' \ stranded'
LogsOwnRow(t, v) ==
  /\ \A i \in Ids : Fades(i) \/ Truthful(i)
  /\ \A i \in mailed' \ stranded' :
       i \notin mailed \/ (task[t] # Idle /\ task[t].at = "sent" /\ task[t].row = i)
         => \/ rows'[i] = Gone \/ rows'[i].status \in {"sent", "read"}
            \/ v # Idle /\ v.at = "sent" /\ v.row = i

LEMMA TaskMoves ==
  ASSUME TypeOK, NEW t \in Tasks, task[t] \in Busy, NEW x \in Steps, Goes(t, x)
  PROVE  LET v == [task[t] EXCEPT !.at = x] IN
         /\ Turns(t, v) /\ v \in Busy /\ v # Idle
         /\ v.at = x /\ v.event = task[t].event /\ v.row = task[t].row
         /\ v.user = task[t].user /\ v.channel = task[t].channel
<1> DEFINE v == [task[t] EXCEPT !.at = x]
<1>1. v \in Busy /\ v.at = x /\ v.event = task[t].event /\ v.row = task[t].row
      /\ v.user = task[t].user /\ v.channel = task[t].channel
  BY DEF Busy
<1>2. v # Idle
  BY <1>1, TaskInUse
<1>3. task' = [task EXCEPT ![t] = v]
  BY DEF Goes
<1> QED BY <1>1, <1>2, <1>3 DEF Turns

-------------------------------------------------------------------------------
(* The events.                                                               *)

\* A task goes on with its event, ends without one, or begins without one.
LEMMA EventGoesOn ==
  ASSUME TypeOK, EventsInv, NEW t \in Tasks, NEW v, Turns(t, v), UNCHANGED queueVars,
         mails' \in [Events -> Nat], KeepsEvent(t, v)
  PROVE  EventsInv'
<1>1. \A e \in Events : mails'[e] >= mails[e] /\ mails[e] \in Nat /\ mails'[e] \in Nat
  <2>1. CASE mails' = mails
    BY <2>1 DEF TypeOK
  <2>2. CASE /\ task[t].event \in Events
             /\ mails' = [mails EXCEPT ![task[t].event] = @ + 1]
    BY <2>2 DEF TypeOK
  <2> QED BY <2>1, <2>2 DEF KeepsEvent
<1>2. UNCHANGED <<kind, queue, holder, again, excused>>
  BY DEF queueVars
<1>3. ASSUME NEW s \in Tasks, task'[s] # Idle
      PROVE  Handled(task[s], mails)'
  <2>1. CASE s = t
    BY <1>2, <1>3, <2>1 DEF TypeOK, Handled, KeepsEvent, Turns
  <2>2. CASE s # t
    <3>1. task'[s] = task[s] /\ Handled(task[s], mails) /\ task[s] \in Busy
      BY <1>3, <2>2, TaskInUse DEF TypeOK, EventsInv, Turns
    <3>2. task[s].event # NoEvent => task[s].event \in Events
      BY <3>1 DEF Busy
    <3> QED BY <1>1, <1>2, <3>1, <3>2 DEF Handled
  <2> QED BY <2>1, <2>2
<1>4. ASSUME NEW e \in Events \ again PROVE Single(e)'
  <2>1. Single(e)
    BY <1>4 DEF EventsInv
  <2>2. mails'[e] <= 1 /\ (queue[e] = "ready" => mails'[e] = 0)
    <3>1. CASE mails'[e] = mails[e]
      BY <2>1, <3>1 DEF Single
    <3>2. CASE mails'[e] # mails[e]
      <4>1. task[t] # Idle /\ task[t].at = "mail" /\ task[t].event = e
            /\ mails'[e] = mails[e] + 1
        BY <3>2 DEF TypeOK, KeepsEvent
      <4> QED BY <2>1, <4>1 DEF Single, Early
    <3> QED BY <3>1, <3>2
  <2>3. ASSUME NEW s \in Tasks, task'[s] # Idle, task'[s].event = e
        PROVE  /\ queue[e] = "out" /\ holder[e] = s
               /\ task'[s].at \in Early => mails'[e] = 0
    <3>1. e # NoEvent
      BY InboxAssumption
    <3>2. CASE s = t
      <4>1. task'[t] = v /\ v # Idle
        BY <2>3, <3>2 DEF TypeOK, Turns
      <4>2. task[t] # Idle /\ v.event = task[t].event
            /\ (v.at \in Early => task[t].at \in Early)
        BY <2>3, <3>1, <3>2, <4>1 DEF KeepsEvent
      <4>3. queue[e] = "out" /\ holder[e] = t /\ (task[t].at \in Early => mails[e] = 0)
        BY <2>1, <2>3, <3>2, <4>1, <4>2 DEF Single
      <4>4. v.at \in Early => mails' = mails
        BY DEF KeepsEvent
      <4> QED BY <3>2, <4>1, <4>2, <4>3, <4>4
    <3>3. CASE s # t
      <4>1. task'[s] = task[s]
        BY <3>3 DEF TypeOK, Turns
      <4>2. queue[e] = "out" /\ holder[e] = s /\ (task[s].at \in Early => mails[e] = 0)
        BY <2>1, <2>3, <4>1 DEF Single
      <4>3. task[t] # Idle => task[t].event # e
        BY <2>1, <3>3, <4>2 DEF Single
      <4>4. mails'[e] = mails[e]
        BY <4>3 DEF TypeOK, KeepsEvent
      <4> QED BY <4>1, <4>2, <4>4
    <3> QED BY <3>2, <3>3
  <2> QED BY <1>2, <2>2, <2>3 DEF Single
<1>5. ASSUME NEW e \in Events PROVE Concluded(e)'
  BY <1>1, <1>2, <1>5 DEF EventsInv, Concluded
<1> QED BY <1>2, <1>3, <1>4, <1>5 DEF EventsInv

\* A handler ends.
LEMMA EventEnds ==
  ASSUME TypeOK, EventsInv, NEW t \in Tasks, NEW place \in {"waiting", "settled"},
         task[t] # Idle, EndsWith(t, place), mails' = mails,
         excused \subseteq excused',
         task[t].event # NoEvent =>
           /\ place = "waiting" => task[t].event \in excused'
           /\ place = "settled" => \/ mails[task[t].event] > 0
                                   \/ task[t].event \in excused'
                                   \/ kind[task[t].event] = "article_created"
  PROVE  EventsInv'
<1> DEFINE c == task[t]
<1>1. task' = [task EXCEPT ![t] = Idle] /\ UNCHANGED <<kind, addressee, again>>
  BY DEF EndsWith, Ends
<1>2. \A e \in Events : \/ e = c.event /\ holder[e] = t /\ queue'[e] = place
                        \/ queue'[e] = queue[e] /\ holder'[e] = holder[e]
  BY DEF EndsWith, TypeOK
<1>3. \A s \in Tasks : task'[s] # Idle => s # t /\ task'[s] = task[s] /\ task[s] # Idle
  BY <1>1 DEF TypeOK
<1>4. ASSUME NEW s \in Tasks, task'[s] # Idle PROVE Handled(task[s], mails)'
  BY <1>1, <1>3, <1>4 DEF EventsInv, Handled
<1>5. ASSUME NEW e \in Events \ again PROVE Single(e)'
  <2>1. Single(e)
    BY <1>5 DEF EventsInv
  <2>2. ASSUME NEW s \in Tasks, task'[s] # Idle, task'[s].event = e
        PROVE  /\ queue'[e] = "out" /\ holder'[e] = s
               /\ task'[s].at \in Early => mails[e] = 0
    <3>1. s # t /\ task'[s] = task[s] /\ task[s] # Idle
      BY <1>3, <2>2
    <3>2. queue[e] = "out" /\ holder[e] = s /\ (task[s].at \in Early => mails[e] = 0)
      BY <2>1, <2>2, <3>1 DEF Single
    <3> QED BY <1>2, <3>1, <3>2
  <2>3. queue'[e] = "ready" => queue[e] = "ready"
    BY <1>2
  <2> QED BY <2>1, <2>2, <2>3 DEF Single
<1>6. ASSUME NEW e \in Events PROVE Concluded(e)'
  <2>1. Concluded(e)
    BY DEF EventsInv
  <2>2. CASE e = c.event /\ queue'[e] = place
    <3>1. e # NoEvent
      BY InboxAssumption
    <3> QED BY <1>1, <2>2, <3>1 DEF Concluded
  <2>3. CASE queue'[e] = queue[e]
    BY <1>1, <2>1, <2>3 DEF Concluded
  <2> QED BY <1>2, <2>2, <2>3
<1> QED BY <1>1, <1>4, <1>5, <1>6 DEF EventsInv

-------------------------------------------------------------------------------
(* The log.                                                                  *)

LEMMA LogGoesOn ==
  ASSUME TypeOK, LogInv, NEW t \in Tasks, NEW v, Turns(t, v), DataOK',
         mailed' \subseteq 1..made', MailsOwnRow(t, v), LogsOwnRow(t, v)
  PROVE  LogInv'
<1>1. task'[t] = v /\ \A s \in Tasks \ {t} : task'[s] = task[s]
  BY DEF TypeOK, Turns
<1>2. made \in Nat /\ made' \in Nat /\ made <= made'
  BY RowsAssumption DEF TypeOK, DataOK, MailsOwnRow
<1>3. ASSUME NEW s \in Tasks, task'[s] # Idle
      PROVE  Posted(task[s], made, mailed, stranded)'
  <2>1. CASE s = t
    BY <1>1, <1>3, <2>1 DEF MailsOwnRow, Posted
  <2>2. CASE s # t
    <3>1. task'[s] = task[s] /\ Posted(task[s], made, mailed, stranded)
      BY <1>1, <1>3, <2>2 DEF LogInv
    <3>2. task[s].at \in Mailing => task[s].row \notin mailed' \ mailed
      BY <1>3, <2>2, <3>1 DEF MailsOwnRow, LogInv, RowsApart, Mailing
    <3>3. mailed \subseteq mailed' /\ stranded \subseteq stranded'
      BY DEF MailsOwnRow
    <3> QED BY <1>2, <3>1, <3>2, <3>3 DEF Posted, Mailing
  <2> QED BY <2>1, <2>2
<1>4. RowsApart'
  <2>1. ASSUME NEW s \in Tasks \ {t}, task[s] # Idle, v # Idle,
               task[s].at \in Mailing, v.at \in Mailing
        PROVE  task[s].row # v.row
    <3>1. task[s].row \in 1..made
      BY <2>1 DEF LogInv, Posted
    <3>2. CASE v.row > made
      BY <1>2, <3>1, <3>2
    <3>3. CASE task[t] # Idle /\ task[t].at \in Mailing /\ task[t].row = v.row
      BY <2>1, <3>3 DEF LogInv, RowsApart
    <3> QED BY <2>1, <3>2, <3>3 DEF MailsOwnRow
  <2> QED BY <1>1, <2>1 DEF LogInv, RowsApart
<1>5. LogIsTrue'
  <2>1. SUFFICES ASSUME NEW i \in Ids, rows'[i] # Gone, rows'[i].user # Everyone
                 PROVE  /\ rows'[i].status = "sent" => i \in mailed'
                        /\ i \in mailed' \ stranded' =>
                             \/ rows'[i].status \in {"sent", "read"}
                             \/ \E s \in Tasks : /\ task'[s] # Idle
                                                 /\ task'[s].row = i /\ task'[s].at = "sent"
    BY DEF LogIsTrue
  <2>2. mailed \subseteq mailed' /\ stranded \subseteq stranded'
    BY DEF MailsOwnRow
  <2>3. CASE Truthful(i)
    BY <2>1, <2>2, <2>3 DEF Truthful
  <2>4. CASE Fades(i)
    <3>1. /\ rows[i] # Gone /\ rows'[i].user = rows[i].user
          /\ rows'[i].status \in {rows[i].status, "read"}
      BY <2>1, <2>4 DEF Fades
    <3>2. /\ rows[i].status = "sent" => i \in mailed
          /\ i \in mailed \ stranded =>
               \/ rows[i].status \in {"sent", "read"}
               \/ \E s \in Tasks : task[s] # Idle /\ task[s].row = i /\ task[s].at = "sent"
      BY <2>1, <3>1 DEF LogInv, LogIsTrue
    <3>3. ASSUME i \in mailed' \ stranded', rows'[i].status \notin {"sent", "read"}
          PROVE  \E s \in Tasks : task'[s] # Idle /\ task'[s].row = i /\ task'[s].at = "sent"
      <4>1. CASE i \notin mailed \/ (task[t] # Idle /\ task[t].at = "sent" /\ task[t].row = i)
        BY <1>1, <2>1, <3>3, <4>1 DEF LogsOwnRow
      <4>2. CASE i \in mailed /\ ~(task[t] # Idle /\ task[t].at = "sent" /\ task[t].row = i)
        <5>1. PICK s \in Tasks : task[s] # Idle /\ task[s].row = i /\ task[s].at = "sent"
          BY <2>2, <3>1, <3>2, <3>3, <4>2
        <5> QED BY <1>1, <4>2, <5>1
      <4> QED BY <4>1, <4>2
    <3> QED BY <2>2, <3>1, <3>2, <3>3
  <2> QED BY <2>3, <2>4 DEF LogsOwnRow
<1> QED BY <1>3, <1>4, <1>5 DEF LogInv

\* A step that neither mails nor begins to: rows may go, or be read.
LEMMA QuietStep ==
  ASSUME TypeOK, LogInv, NEW t \in Tasks, NEW v,
         v # Idle => v.at \notin Mailing,
         task[t] # Idle => task[t].at # "sent",
         UNCHANGED <<made, mailed, stranded>>, \A i \in Ids : Fades(i)
  PROVE  /\ mailed' \subseteq 1..made'
         /\ MailsOwnRow(t, v) /\ LogsOwnRow(t, v)
<1>1. made <= made'
  BY RowsAssumption DEF TypeOK
<1> QED BY <1>1 DEF LogInv, MailsOwnRow, LogsOwnRow, Posted, Mailing

-------------------------------------------------------------------------------
(* A step as a whole.                                                        *)

LEMMA LateKept ==
  ASSUME LateOK, mailed \subseteq mailed', stranded \subseteq stranded',
         late' \subseteq late \/ LateGrows
  PROVE  LateOK'
<1>1. ASSUME NEW w \in late' PROVE Honest(w, mailed', stranded')
  <2>1. CASE w \in late
    <3>1. Honest(w, mailed, stranded)
      BY <2>1 DEF LateOK
    <3> QED BY <3>1 DEF Honest
  <2>2. CASE w \notin late
    BY <1>1, <2>2 DEF LateGrows
  <2> QED BY <2>1, <2>2
<1>2. \A w \in late' : Honest(w, mailed, stranded)' <=> Honest(w, mailed', stranded')
  BY DEF Honest
<1> QED BY <1>1, <1>2 DEF LateOK

LEMMA GoingOn ==
  ASSUME IInv, NEW t \in Tasks, NEW v, Turns(t, v), UNCHANGED queueVars, DataOK',
         late' = late \/ LateGrows,
         KeepsEvent(t, v), mailed' \subseteq 1..made', MailsOwnRow(t, v), LogsOwnRow(t, v)
  PROVE  IInv'
<1>1. TypeOK'
  BY DEF IInv, TypeOK, DataOK, Turns, queueVars
<1>2. EventsInv'
  BY EventGoesOn DEF IInv, DataOK
<1>3. LogInv'
  BY LogGoesOn DEF IInv
<1>4. LateOK'
  BY LateKept DEF IInv, MailsOwnRow
<1> QED BY <1>1, <1>2, <1>3, <1>4 DEF IInv

LEMMA Ending ==
  ASSUME IInv, NEW t \in Tasks, NEW place \in {"waiting", "settled"},
         task[t] # Idle, EndsWith(t, place), DataOK', UNCHANGED mails,
         late' = late \/ LateGrows,
         excused \subseteq excused', excused' \subseteq Events,
         task[t].event # NoEvent =>
           /\ place = "waiting" => task[t].event \in excused'
           /\ place = "settled" => \/ mails[task[t].event] > 0
                                   \/ task[t].event \in excused'
                                   \/ kind[task[t].event] = "article_created",
         mailed' \subseteq 1..made', MailsOwnRow(t, Idle), LogsOwnRow(t, Idle)
  PROVE  IInv'
<1>1. Turns(t, Idle)
  BY DEF EndsWith, Ends, Turns
<1>2. TypeOK'
  <2>1. task' \in [Tasks -> Busy \cup {Idle}]
    BY <1>1 DEF IInv, TypeOK, Turns
  <2>2. /\ queue' \in [Events -> {"ready", "out", "waiting", "settled"}]
        /\ holder' \in [Events -> Tasks \cup {NoTask}]
        /\ UNCHANGED <<kind, addressee, again>>
    BY DEF IInv, TypeOK, EndsWith
  <2> QED BY <2>1, <2>2 DEF IInv, TypeOK, DataOK
<1>3. EventsInv'
  BY EventEnds DEF IInv
<1>4. LogInv'
  BY <1>1, LogGoesOn DEF IInv
<1>5. LateOK'
  BY LateKept DEF IInv, MailsOwnRow
<1> QED BY <1>2, <1>3, <1>4, <1>5 DEF IInv

\* A step that leaves the rows and the e-mails alone.
LEMMA LeavesData ==
  ASSUME TypeOK, UNCHANGED <<made, rows, mailVars>>,
         unread' \in [Users -> Seq(Int)], \A u \in Users : Len(unread'[u]) <= 1,
         exact' \subseteq Users
  PROVE  /\ DataOK' /\ UNCHANGED <<made, mailed, stranded, mails, late>>
         /\ \A i \in Ids : Fades(i)
<1>1. UNCHANGED <<made, rows, mailed, mails, stranded, late>>
  BY DEF mailVars
<1>2. DataOK'
  BY <1>1 DEF TypeOK, DataOK
<1>3. \A i \in Ids : Fades(i)
  BY <1>1 DEF Fades
<1> QED BY <1>1, <1>2, <1>3

-------------------------------------------------------------------------------
(* The queue.                                                                *)

LEMMA Initially == Init => IInv
<1> SUFFICES ASSUME Init PROVE IInv
  OBVIOUS
<1>1. TypeOK
  BY RowsAssumption DEF Init, TypeOK
<1>2. EventsInv
  BY DEF Init, EventsInv, Single, Concluded, Idle
<1>3. LogInv
  BY DEF Init, LogInv, RowsApart, LogIsTrue, Idle
<1>4. LateOK
  BY DEF Init, LateOK
<1> QED BY <1>1, <1>2, <1>3, <1>4 DEF IInv

\* A delivery: the event has no handler yet, and has not been mailed.
LEMMA DeliverKeeps ==
  ASSUME IInv, NEW t \in Tasks, NEW e \in Events, Deliver(t, e)
  PROVE  IInv'
<1> DEFINE h == Handlers[kind[e]]
           v == [at |-> h.first, user |-> addressee[e], channel |-> h.channel,
                 row |-> 0, event |-> e, count |-> 0]
<1> USE DEF IInv
<1>1. /\ h.first \in {"create", "lookup", "broadcast"} /\ h.channel \in Channels
      /\ h.first = "broadcast" => kind[e] = "article_created"
      /\ h.first # "broadcast" => h.channel # "in_app"
  <2>1. kind[e] \in Kinds
    BY DEF TypeOK
  <2> QED BY <2>1, FirstSteps
<1>2. v \in Busy /\ v # Idle
  <2>1. v \in Busy
    BY <1>1, RowsAssumption DEF TypeOK, Busy, Steps
  <2> QED BY <2>1, TaskInUse
<1>3. /\ task[t] = Idle /\ queue[e] = "ready"
      /\ task' = [task EXCEPT ![t] = v]
      /\ queue' = [queue EXCEPT ![e] = "out"] /\ holder' = [holder EXCEPT ![e] = t]
      /\ UNCHANGED <<kind, addressee, again, excused, made, rows, mailed, mails, stranded, late>>
  BY DEF Deliver, Begins, mailVars
<1>4. Turns(t, v)
  BY <1>2, <1>3 DEF Turns
<1>5. task'[t] = v /\ \A s \in Tasks \ {t} : task'[s] = task[s]
  BY <1>3 DEF TypeOK
<1>6. exact' \subseteq Users /\ UNCHANGED unread
  BY DEF Deliver, Disturbs, TypeOK
<1>7. DataOK' /\ UNCHANGED <<made, mailed, stranded, mails, late>> /\ \A i \in Ids : Fades(i)
  BY <1>3, <1>6, LeavesData DEF TypeOK, mailVars
<1>8. TypeOK'
  BY <1>2, <1>3, <1>7 DEF TypeOK, DataOK
<1>9. EventsInv'
  <2>1. ASSUME NEW s \in Tasks, task'[s] # Idle PROVE Handled(task[s], mails)'
    <3>1. Handled(v, mails)
      BY <1>1, InboxAssumption DEF Handled
    <3>2. Handled(task'[s], mails)
      BY <1>5, <2>1, <3>1 DEF EventsInv
    <3> QED BY <1>3, <3>2 DEF Handled
  <2>2. ASSUME NEW d \in Events \ again PROVE Single(d)'
    <3>1. Single(d)
      BY <2>2 DEF EventsInv
    <3>2. CASE d = e
      <4>1. mails[e] = 0 /\ \A s \in Tasks : task[s] # Idle => task[s].event # e
        BY <1>3, <3>1, <3>2 DEF Single
      <4>2. queue'[e] = "out" /\ holder'[e] = t
        BY <1>3 DEF TypeOK
      <4>3. \A s \in Tasks : task'[s] # Idle /\ task'[s].event = e => s = t
        BY <1>5, <4>1
      <4> QED BY <1>3, <3>2, <4>1, <4>2, <4>3 DEF Single
    <3>3. CASE d # e
      <4>1. queue'[d] = queue[d] /\ holder'[d] = holder[d]
        BY <1>3, <3>3 DEF TypeOK
      <4>2. \A s \in Tasks : task'[s] # Idle /\ task'[s].event = d => task'[s] = task[s]
        BY <1>5, <3>3
      <4> QED BY <1>3, <3>1, <4>1, <4>2 DEF Single
    <3> QED BY <3>2, <3>3
  <2>3. ASSUME NEW d \in Events PROVE Concluded(d)'
    BY <1>3 DEF TypeOK, EventsInv, Concluded
  <2> QED BY <1>3, <2>1, <2>2, <2>3 DEF EventsInv
<1>10. LogInv'
  <2>1. v.at \notin Mailing
    BY <1>1 DEF Mailing
  <2>2. mailed' \subseteq 1..made' /\ MailsOwnRow(t, v) /\ LogsOwnRow(t, v)
    BY <1>3, <1>7, <2>1, QuietStep
  <2> QED BY <1>4, <1>7, <2>2, LogGoesOn
<1>11. LateOK'
  BY <1>3, LateKept
<1> QED BY <1>8, <1>9, <1>10, <1>11

\* What is out goes back to the queue: it counts as delivered again.
LEMMA BackInQueue ==
  ASSUME TypeOK, EventsInv,
         NEW out, out = {e \in Events : queue[e] \in {"out", "waiting"}},
         queue' = [e \in Events |-> IF e \in out THEN "ready" ELSE queue[e]],
         holder' = [e \in Events |-> NoTask], again' = again \cup out,
         UNCHANGED <<kind, addressee, excused, mails>>,
         \A t \in Tasks : task'[t] # Idle => task'[t] = task[t]
  PROVE  EventsInv'
<1>1. ASSUME NEW t \in Tasks, task'[t] # Idle PROVE Handled(task[t], mails)'
  BY <1>1 DEF EventsInv, Handled
<1>2. ASSUME NEW e \in Events \ again' PROVE Single(e)'
  BY <1>2 DEF EventsInv, Single
<1>3. ASSUME NEW e \in Events PROVE Concluded(e)'
  BY DEF EventsInv, Concluded
<1> QED BY <1>1, <1>2, <1>3 DEF EventsInv

LEMMA ConnectionLostKeeps == ASSUME IInv, ConnectionLost PROVE IInv'
<1> DEFINE out == {e \in Events : queue[e] \in {"out", "waiting"}}
<1> USE DEF IInv
<1>1. /\ queue' = [e \in Events |-> IF e \in out THEN "ready" ELSE queue[e]]
      /\ holder' = [e \in Events |-> NoTask] /\ again' = again \cup out
      /\ UNCHANGED <<kind, addressee, excused, made, rows, unread, task, mailed, mails,
                     stranded, late, exact>>
  BY DEF ConnectionLost, mailVars
<1>2. TypeOK'
  BY <1>1 DEF TypeOK
<1>3. EventsInv'
  BY <1>1, BackInQueue
<1>4. LogInv'
  BY <1>1 DEF LogInv, RowsApart, LogIsTrue
<1>5. LateOK'
  BY <1>1, LateKept
<1> QED BY <1>2, <1>3, <1>4, <1>5

\* The rows whose handlers die are stranded.
LEMMA CrashKeeps == ASSUME IInv, Crash PROVE IInv'
<1> DEFINE out == {e \in Events : queue[e] \in {"out", "waiting"}}
<1> USE DEF IInv
<1>1. /\ queue' = [e \in Events |-> IF e \in out THEN "ready" ELSE queue[e]]
      /\ holder' = [e \in Events |-> NoTask] /\ again' = again \cup out
      /\ task' = [t \in Tasks |-> Idle]
      /\ stranded' = stranded \cup {i \in Ids : \E t \in Tasks : task[t] # Idle /\ task[t].row = i}
      /\ exact' \subseteq exact
      /\ UNCHANGED <<kind, addressee, excused, made, rows, unread, mailed, mails, late>>
  BY DEF Crash, Disturbs
<1>2. TypeOK'
  BY <1>1 DEF TypeOK
<1>3. EventsInv'
  <2>1. \A t \in Tasks : task'[t] = Idle
    BY <1>1
  <2> QED BY <1>1, <2>1, BackInQueue
<1>4. LogInv'
  BY <1>1 DEF LogInv, RowsApart, LogIsTrue
<1>5. LateOK'
  BY <1>1, LateKept
<1> QED BY <1>2, <1>3, <1>4, <1>5

LEMMA RetryTimerKeeps == ASSUME IInv, NEW e \in Events, RetryTimer(e) PROVE IInv'
<1> USE DEF IInv
<1>1. /\ queue[e] = "waiting" /\ queue' = [queue EXCEPT ![e] = "settled"]
      /\ UNCHANGED <<kind, addressee, holder, again, excused, made, rows, unread, task,
                     mailed, mails, stranded, late, exact>>
  BY DEF RetryTimer, mailVars
<1>2. TypeOK'
  BY <1>1 DEF TypeOK
<1>3. EventsInv'
  <2>1. ASSUME NEW d \in Events \ again PROVE Single(d)'
    BY <1>1, <2>1 DEF TypeOK, EventsInv, Single
  <2>2. ASSUME NEW d \in Events PROVE Concluded(d)'
    BY <1>1 DEF TypeOK, EventsInv, Concluded
  <2>3. ASSUME NEW t \in Tasks, task'[t] # Idle PROVE Handled(task[t], mails)'
    BY <1>1, <2>3 DEF EventsInv, Handled
  <2> QED BY <1>1, <2>1, <2>2, <2>3 DEF EventsInv
<1>4. LogInv'
  BY <1>1 DEF LogInv, RowsApart, LogIsTrue
<1>5. LateOK'
  BY <1>1, LateKept
<1> QED BY <1>2, <1>3, <1>4, <1>5

-------------------------------------------------------------------------------
(* The event handlers and createAndSend.                                     *)

\* What is known of a task at a step.
LEMMA Knows ==
  ASSUME IInv, NEW t \in Tasks, task[t].at \in Steps
  PROVE  /\ task[t] # Idle /\ task[t] \in Busy
         /\ Handled(task[t], mails) /\ Posted(task[t], made, mailed, stranded)
         /\ made \in Nat /\ made <= MaxRows /\ 1..made \subseteq Ids
         /\ task[t].user \in Users /\ task[t].event \in Events \cup {NoEvent}
<1>1. task[t] # Idle /\ task[t] \in Busy
  BY AtStep DEF IInv
<1>2. task[t].user \in Users /\ task[t].event \in Events \cup {NoEvent}
  BY <1>1 DEF Busy
<1>3. made \in Nat /\ made <= MaxRows /\ 1..made \subseteq Ids
  BY RowsAssumption DEF IInv, TypeOK, Ids
<1> QED BY <1>1, <1>2, <1>3 DEF IInv, EventsInv, LogInv

\* A task goes on to another step, and mails nothing.
LEMMA Moving ==
  ASSUME IInv, NEW t \in Tasks, task[t].at \in Steps \ {"sent"}, NEW x \in Steps \ Mailing,
         Goes(t, x), UNCHANGED queueVars, DataOK',
         UNCHANGED <<made, mailed, mails, stranded, late>>, \A i \in Ids : Fades(i),
         x \in Early => task[t].at \in Early,
         Handled([task[t] EXCEPT !.at = x], mails)
  PROVE  IInv'
<1> DEFINE v == [task[t] EXCEPT !.at = x]
<1>1. Turns(t, v) /\ v # Idle /\ v.at = x /\ v.event = task[t].event
  BY Knows, TaskMoves DEF IInv
<1>2. KeepsEvent(t, v)
  BY <1>1, Knows DEF KeepsEvent
<1>3. mailed' \subseteq 1..made' /\ MailsOwnRow(t, v) /\ LogsOwnRow(t, v)
  BY <1>1, QuietStep DEF IInv
<1> QED BY <1>1, <1>2, <1>3, GoingOn

\* A task ends; it was not at the update of a row.
LEMMA Stopping ==
  ASSUME IInv, NEW t \in Tasks, task[t].at \in Steps \ {"sent"},
         NEW place \in {"waiting", "settled"}, EndsWith(t, place), DataOK',
         UNCHANGED <<made, mailed, mails, stranded>>, \A i \in Ids : Fades(i),
         late' = late \/ LateGrows, excused \subseteq excused', excused' \subseteq Events,
         task[t].event # NoEvent =>
           /\ place = "waiting" => task[t].event \in excused'
           /\ place = "settled" => \/ mails[task[t].event] > 0
                                   \/ task[t].event \in excused'
                                   \/ kind[task[t].event] = "article_created"
  PROVE  IInv'
<1>1. mailed' \subseteq 1..made' /\ MailsOwnRow(t, Idle) /\ LogsOwnRow(t, Idle)
  BY QuietStep DEF IInv
<1> QED BY <1>1, Knows, Ending

\* A task without an event ends.
LEMMA CallEnds ==
  ASSUME IInv, NEW t \in Tasks, task[t].at \in Steps \ {"sent"}, Ends(t), UNCHANGED queueVars,
         DataOK', UNCHANGED <<made, mailed, mails, stranded>>, \A i \in Ids : Fades(i),
         late' = late \/ LateGrows
  PROVE  IInv'
<1>1. Turns(t, Idle)
  BY DEF Ends, Turns
<1>2. KeepsEvent(t, Idle)
  BY DEF KeepsEvent
<1>3. mailed' \subseteq 1..made' /\ MailsOwnRow(t, Idle) /\ LogsOwnRow(t, Idle)
  BY QuietStep DEF IInv
<1> QED BY <1>1, <1>2, <1>3, GoingOn

\* A call begins: it has no event.
LEMMA CallBegins ==
  ASSUME IInv, NEW t \in Tasks, NEW u \in Users, NEW x \in Steps \ (Mailing \cup {"lookup", "broadcast"}),
         NEW c \in Channels, NEW i \in 0..MaxRows, NEW n \in Int,
         Begins(t, u, x, c, i, NoEvent, n), UNCHANGED queueVars,
         DataOK', UNCHANGED <<made, mailed, mails, stranded, late>>, \A j \in Ids : Fades(j)
  PROVE  IInv'
<1> DEFINE v == [at |-> x, user |-> u, channel |-> c, row |-> i, event |-> NoEvent, count |-> n]
<1>1. v \in Busy
  BY DEF Busy
<1>2. Turns(t, v) /\ task[t] = Idle
  BY <1>1 DEF Begins, Turns
<1>3. KeepsEvent(t, v)
  BY DEF KeepsEvent, Handled
<1>4. mailed' \subseteq 1..made' /\ MailsOwnRow(t, v) /\ LogsOwnRow(t, v)
  BY <1>2, QuietStep DEF IInv
<1> QED BY <1>2, <1>3, <1>4, GoingOn

\* A row is added: it has the next id.
LEMMA Inserted ==
  ASSUME TypeOK, LogInv, NEW u \in Users \cup {Everyone}, NEW status \in {"pending", "delivered", "sent"},
         Inserts(u, status), UNCHANGED <<unread, mailed, mails>>, exact' \subseteq Users,
         stranded' \in {stranded, stranded \cup {made + 1}}, late' \subseteq late,
         status = "sent" => u = Everyone
  PROVE  /\ DataOK' /\ made' = made + 1 /\ made + 1 \in Ids /\ made + 1 \notin mailed
         /\ mailed' \subseteq 1..made'
         /\ \A i \in Ids : Fades(i) \/ Truthful(i)
<1>1. made \in 0..MaxRows /\ made' = made + 1 /\ made + 1 \in Ids
  BY RowsAssumption DEF TypeOK, Inserts, Ids
<1>2. rows' = [rows EXCEPT ![made + 1] = [user |-> u, status |-> status, seen |-> "unread"]]
  BY DEF Inserts
<1>3. rows' \in [Ids -> Row \cup {Gone}]
  BY <1>2 DEF TypeOK, Row
<1>4. mailed \subseteq 1..made
  BY DEF LogInv
<1>5. made + 1 \notin mailed /\ mailed' \subseteq 1..made'
  BY <1>1, <1>4, RowsAssumption
<1>6. ASSUME NEW i \in Ids PROVE Fades(i) \/ Truthful(i)
  BY <1>1, <1>2, <1>5 DEF TypeOK, Fades, Truthful
<1>7. DataOK'
  BY <1>1, <1>3 DEF TypeOK, DataOK, Ids
<1> QED BY <1>1, <1>5, <1>6, <1>7

\* What an insert leaves the log to say of its handler, which becomes v.
LEMMA InsertsQuietly ==
  ASSUME TypeOK, LogInv, NEW t \in Tasks, NEW v, task[t] # Idle, task[t].at # "sent",
         UNCHANGED <<mailed, stranded>>, made \in Nat, made' = made + 1,
         \A i \in Ids : Fades(i) \/ Truthful(i), made + 1 \notin mailed,
         v # Idle => v.at \notin Mailing \/ (v.at = "mail" /\ v.row = made + 1)
  PROVE  MailsOwnRow(t, v) /\ LogsOwnRow(t, v)
<1>1. made <= made' /\ made + 1 \in 1..made' /\ made + 1 > made
  OBVIOUS
<1>2. MailsOwnRow(t, v)
  BY <1>1 DEF MailsOwnRow, Posted, Mailing
<1> QED BY <1>2 DEF LogsOwnRow

LEMMA LookupKeeps == ASSUME IInv, NEW t \in Tasks, Lookup(t) PROVE IInv'
<1>1. /\ task[t].at = "lookup" /\ Goes(t, "create")
      /\ UNCHANGED <<made, rows, unread, mailVars, exact>> /\ UNCHANGED queueVars
  BY DEF Lookup
<1>2. DataOK' /\ UNCHANGED <<made, mailed, stranded, mails, late>> /\ \A i \in Ids : Fades(i)
  BY <1>1, LeavesData DEF IInv, TypeOK
<1>3. task[t].at \in Steps \ {"sent"}
  BY <1>1 DEF Steps
<1>4. Handled([task[t] EXCEPT !.at = "create"], mails)
  BY <1>1, <1>3, Knows DEF Handled, Busy
<1> QED BY <1>1, <1>2, <1>3, <1>4, Moving DEF Steps, Mailing, Early

LEMMA LookupFailsKeeps == ASSUME IInv, NEW t \in Tasks, LookupFails(t) PROVE IInv'
<1>1. /\ task[t].at = "lookup" /\ EndsWith(t, "settled")
      /\ excused' = excused \cup {task[t].event}
      /\ UNCHANGED <<made, rows, unread, mailVars, exact>>
  BY DEF LookupFails, Returns
<1>2. DataOK' /\ UNCHANGED <<made, mailed, stranded, mails, late>> /\ \A i \in Ids : Fades(i)
  BY <1>1, LeavesData DEF IInv, TypeOK
<1>3. task[t].at \in Steps \ {"sent"}
  BY <1>1 DEF Steps
<1>4. task[t].event \in Events
  BY <1>1, <1>3, Knows DEF Handled
<1>5. excused' \subseteq Events
  BY <1>1, <1>4 DEF IInv, TypeOK
<1> QED BY <1>1, <1>2, <1>3, <1>5, Stopping

LEMMA CreateBroadcastKeeps == ASSUME IInv, NEW t \in Tasks, CreateBroadcast(t) PROVE IInv'
<1>1. /\ task[t].at = "broadcast" /\ Inserts(Everyone, "sent") /\ EndsWith(t, "settled")
      /\ UNCHANGED <<excused, unread, mailed, mails, stranded, late>> /\ exact' \subseteq Users
  BY DEF CreateBroadcast, Returns, mailVars, Disturbs, IInv, TypeOK
<1>2. task[t].at \in Steps \ {"sent"}
  BY <1>1 DEF Steps
<1>3. /\ DataOK' /\ made' = made + 1 /\ made + 1 \notin mailed
      /\ mailed' \subseteq 1..made' /\ \A i \in Ids : Fades(i) \/ Truthful(i)
  BY <1>1, Inserted DEF IInv
<1>4. MailsOwnRow(t, Idle) /\ LogsOwnRow(t, Idle)
  BY <1>1, <1>2, <1>3, Knows, InsertsQuietly DEF IInv
<1>5. task[t].event # NoEvent => kind[task[t].event] = "article_created"
  BY <1>1, <1>2, Knows DEF Handled
<1>6. excused' \subseteq Events
  BY <1>1 DEF IInv, TypeOK
<1> QED BY <1>1, <1>2, <1>3, <1>4, <1>5, <1>6, Knows, Ending

\* The e-mail of an event is still to come; the in-app row of a call is not counted yet.
LEMMA CreateKeeps == ASSUME IInv, NEW t \in Tasks, Create(t) PROVE IInv'
<1> DEFINE inApp == task[t].channel = "in_app"
           x == IF inApp THEN "bump" ELSE "mail"
           v == [task[t] EXCEPT !.at = x, !.row = made + 1]
<1>1. /\ task[t].at = "create" /\ Inserts(task[t].user, IF inApp THEN "delivered" ELSE "pending")
      /\ task' = [task EXCEPT ![t].at = x, ![t].row = made + 1]
      /\ UNCHANGED queueVars /\ UNCHANGED <<unread, mailed, mails, stranded, late, exact>>
  BY DEF Create, mailVars
<1>2. task[t].at \in Steps \ {"sent"}
  BY <1>1 DEF Steps
<1>3. /\ DataOK' /\ made' = made + 1 /\ made + 1 \in Ids /\ made + 1 \notin mailed
      /\ mailed' \subseteq 1..made' /\ \A i \in Ids : Fades(i) \/ Truthful(i)
  BY <1>1, <1>2, Knows, Inserted DEF IInv, TypeOK
<1>4. /\ v \in Busy /\ v.at = x /\ v.row = made + 1
      /\ v.event = task[t].event /\ v.channel = task[t].channel
  <2>1. made + 1 \in 0..MaxRows
    BY <1>3, RowsAssumption DEF Ids
  <2>2. x \in Steps
    BY DEF Steps
  <2> QED BY <1>2, <2>1, <2>2, Knows DEF Busy
<1>5. task' = [task EXCEPT ![t] = v]
  BY <1>1, <1>2, Knows DEF IInv, TypeOK, Busy
<1>6. Turns(t, v)
  BY <1>4, <1>5 DEF Turns
<1>7. KeepsEvent(t, v)
  BY <1>1, <1>2, <1>4, Knows DEF KeepsEvent, Handled, Early
<1>8. MailsOwnRow(t, v) /\ LogsOwnRow(t, v)
  <2>1. task[t] # Idle /\ task[t].at # "sent" /\ made \in Nat
    BY <1>1, <1>2, Knows
  <2>2. v.at \notin Mailing \/ (v.at = "mail" /\ v.row = made + 1)
    BY <1>4 DEF Mailing
  <2> HIDE DEF v
  <2> QED BY <1>1, <1>3, <2>1, <2>2, InsertsQuietly DEF IInv
<1> QED BY <1>1, <1>3, <1>6, <1>7, <1>8, GoingOn

\* What taking an e-mail does to the events.
LEMMA TakenOnce ==
  ASSUME IInv, NEW t \in Tasks, task[t].at = "mail", Taken(t)
  PROVE  /\ mails' \in [Events -> Nat]
         /\ mailed' = mailed \cup {task[t].row} /\ mailed' \subseteq 1..made /\ mailed' \subseteq Ids
         /\ \/ task[t].event = NoEvent /\ mails' = mails
            \/ /\ task[t].event \in Events /\ mails' = [mails EXCEPT ![task[t].event] = @ + 1]
               /\ mails'[task[t].event] > 0
<1>1. task[t].at \in Steps
  BY DEF Steps
<1>2. task[t].row \in 1..made
  BY <1>1, Knows DEF Posted, Mailing
<1>3. mailed' = mailed \cup {task[t].row} /\ mailed' \subseteq 1..made /\ mailed' \subseteq Ids
  <2>1. mailed \subseteq 1..made /\ 1..made \subseteq Ids
    BY <1>1, Knows DEF IInv, LogInv
  <2> QED BY <1>2, <2>1 DEF Taken
<1>4. CASE task[t].event = NoEvent
  BY <1>3, <1>4 DEF Taken, IInv, TypeOK
<1>5. CASE task[t].event \in Events
  <2>1. task[t].event # NoEvent
    BY <1>5, InboxAssumption
  <2>2. mails' = [mails EXCEPT ![task[t].event] = @ + 1] /\ mails \in [Events -> Nat]
    BY <2>1 DEF Taken, IInv, TypeOK
  <2> QED BY <1>3, <1>5, <2>2
<1> QED BY <1>1, <1>4, <1>5, Knows

LEMMA SendEmailKeeps == ASSUME IInv, NEW t \in Tasks, SendEmail(t) PROVE IInv'
<1> DEFINE v == [task[t] EXCEPT !.at = "sent"]
<1>1. /\ task[t].at = "mail" /\ Taken(t) /\ Goes(t, "sent")
      /\ UNCHANGED queueVars /\ UNCHANGED <<made, rows, unread, stranded, late, exact>>
  BY DEF SendEmail
<1>2. task[t].at \in Steps /\ "sent" \in Steps
  BY <1>1 DEF Steps
<1>3. /\ Turns(t, v) /\ v \in Busy /\ v # Idle /\ v.at = "sent"
      /\ v.event = task[t].event /\ v.row = task[t].row
  BY <1>1, <1>2, Knows, TaskMoves DEF IInv
<1>4. /\ mails' \in [Events -> Nat]
      /\ mailed' = mailed \cup {task[t].row} /\ mailed' \subseteq 1..made /\ mailed' \subseteq Ids
      /\ \/ task[t].event = NoEvent /\ mails' = mails
         \/ /\ task[t].event \in Events /\ mails' = [mails EXCEPT ![task[t].event] = @ + 1]
            /\ mails'[task[t].event] > 0
  BY <1>1, TakenOnce
<1>5. DataOK'
  BY <1>1, <1>4 DEF DataOK, IInv, TypeOK
<1>6. KeepsEvent(t, v)
  BY <1>1, <1>2, <1>3, <1>4, Knows DEF KeepsEvent, Handled, Early
<1>7. MailsOwnRow(t, v)
  BY <1>1, <1>2, <1>3, <1>4, Knows DEF MailsOwnRow, Posted, Mailing
<1>8. LogsOwnRow(t, v)
  BY <1>1, <1>3, <1>4 DEF LogsOwnRow, Fades
<1> QED BY <1>1, <1>3, <1>4, <1>5, <1>6, <1>7, <1>8, GoingOn

LEMMA SendEmailFailsKeeps == ASSUME IInv, NEW t \in Tasks, SendEmailFails(t) PROVE IInv'
<1> DEFINE v == [task[t] EXCEPT !.at = "failed"]
<1>1. /\ task[t].at = "mail" /\ Goes(t, "failed")
      /\ UNCHANGED queueVars /\ UNCHANGED <<made, rows, unread, late, exact>>
      /\ \/ UNCHANGED <<mailed, mails, stranded>>
         \/ Taken(t) /\ stranded' = stranded \cup {task[t].row}
  BY DEF SendEmailFails, mailVars
<1>2. task[t].at \in Steps /\ "failed" \in Steps
  BY <1>1 DEF Steps
<1>3. /\ Turns(t, v) /\ v \in Busy /\ v # Idle /\ v.at = "failed"
      /\ v.event = task[t].event /\ v.row = task[t].row
  BY <1>1, <1>2, Knows, TaskMoves DEF IInv
<1>4. task[t].row \in 1..made /\ task[t].row \notin mailed /\ task[t].row \in Ids
  BY <1>1, <1>2, Knows DEF Posted, Mailing
<1>5. made' = made /\ made <= made'
  BY <1>1, <1>2, Knows
<1>6. CASE UNCHANGED <<mailed, mails, stranded>>
  <2>1. DataOK' /\ mailed' \subseteq 1..made'
    BY <1>1, <1>6 DEF DataOK, IInv, TypeOK, LogInv
  <2>2. KeepsEvent(t, v)
    BY <1>1, <1>2, <1>3, <1>6, Knows DEF KeepsEvent, Handled, Early
  <2>3. MailsOwnRow(t, v)
    <3>1. Posted(v, made', mailed', stranded')
      BY <1>1, <1>3, <1>4, <1>5, <1>6 DEF Posted, Mailing
    <3>2. task[t] # Idle
      BY <1>2, Knows
    <3> HIDE DEF v
    <3> QED BY <1>1, <1>3, <1>5, <1>6, <3>1, <3>2 DEF MailsOwnRow, Mailing
  <2>4. LogsOwnRow(t, v)
    BY <1>1, <1>3, <1>6 DEF LogsOwnRow, Fades
  <2> QED BY <1>1, <1>3, <2>1, <2>2, <2>3, <2>4, GoingOn
<1>7. CASE Taken(t) /\ stranded' = stranded \cup {task[t].row}
  <2>1. /\ mails' \in [Events -> Nat]
        /\ mailed' = mailed \cup {task[t].row} /\ mailed' \subseteq 1..made /\ mailed' \subseteq Ids
        /\ \/ task[t].event = NoEvent /\ mails' = mails
           \/ /\ task[t].event \in Events /\ mails' = [mails EXCEPT ![task[t].event] = @ + 1]
              /\ mails'[task[t].event] > 0
    BY <1>1, <1>7, TakenOnce
  <2>2. DataOK' /\ mailed' \subseteq 1..made'
    BY <1>1, <1>4, <1>7, <2>1 DEF DataOK, IInv, TypeOK
  <2>3. KeepsEvent(t, v)
    BY <1>1, <1>2, <1>3, <2>1, Knows DEF KeepsEvent, Handled, Early
  <2>4. MailsOwnRow(t, v)
    <3>1. Posted(v, made', mailed', stranded')
      BY <1>1, <1>3, <1>4, <1>5, <1>7, <2>1 DEF Posted, Mailing
    <3>2. task[t] # Idle
      BY <1>2, Knows
    <3> HIDE DEF v
    <3> QED BY <1>1, <1>3, <1>5, <1>7, <2>1, <3>1, <3>2 DEF MailsOwnRow, Mailing
  <2>5. LogsOwnRow(t, v)
    BY <1>1, <1>3, <1>7, <2>1 DEF LogsOwnRow, Fades
  <2> QED BY <1>1, <1>3, <2>2, <2>3, <2>4, <2>5, GoingOn
<1> QED BY <1>1, <1>6, <1>7

\* An update finds the row, or no row.
LEMMA StatusUpdated ==
  ASSUME TypeOK, NEW i \in Ids, NEW status \in {"sent", "failed"}, UpdateStatus(i, status)
  PROVE  /\ rows' \in [Ids -> Row \cup {Gone}]
         /\ \A j \in Ids \ {i} : Fades(j)
         /\ rows'[i] = Gone \/ rows'[i].status = status
<1>1. CASE rows[i] = Gone
  BY <1>1 DEF TypeOK, UpdateStatus, Fades
<1>2. CASE rows[i] # Gone
  <2>1. rows' = [rows EXCEPT ![i].status = status]
    BY <1>2 DEF UpdateStatus
  <2>2. rows[i] \in Row
    BY <1>2, RowInUse DEF TypeOK
  <2>3. [rows[i] EXCEPT !.status = status] \in Row
    BY <2>2 DEF Row
  <2>4. rows' = [rows EXCEPT ![i] = [rows[i] EXCEPT !.status = status]]
    BY <2>1
  <2>5. rows' \in [Ids -> Row \cup {Gone}]
    BY <2>3, <2>4 DEF TypeOK
  <2>6. rows'[i].status = status
    BY <2>2, <2>4 DEF TypeOK, Row
  <2>7. \A j \in Ids \ {i} : Fades(j)
    BY <2>4 DEF TypeOK, Fades
  <2> QED BY <2>5, <2>6, <2>7
<1> QED BY <1>1, <1>2

LEMMA SentKeeps == ASSUME IInv, NEW t \in Tasks, Sent(t) PROVE IInv'
<1> DEFINE v == [task[t] EXCEPT !.at = "bump"]
<1>1. /\ task[t].at = "sent" /\ Goes(t, "bump") /\ UpdateStatus(task[t].row, "sent")
      /\ UNCHANGED queueVars /\ UNCHANGED <<made, unread, mailed, mails, stranded, late, exact>>
  BY DEF Sent, mailVars
<1>2. task[t].at \in Steps /\ "bump" \in Steps
  BY <1>1 DEF Steps
<1>3. /\ Turns(t, v) /\ v # Idle /\ v.at = "bump" /\ v.event = task[t].event
  BY <1>1, <1>2, Knows, TaskMoves DEF IInv
<1>4. task[t].row \in Ids /\ task[t].row \in mailed
  BY <1>1, <1>2, Knows DEF Posted, Mailing
<1>5. /\ rows' \in [Ids -> Row \cup {Gone}]
      /\ \A j \in Ids \ {task[t].row} : Fades(j)
      /\ rows'[task[t].row] = Gone \/ rows'[task[t].row].status = "sent"
  BY <1>1, <1>4, StatusUpdated DEF IInv
<1>6. DataOK' /\ mailed' \subseteq 1..made'
  BY <1>1, <1>5 DEF DataOK, IInv, TypeOK, LogInv
<1>7. KeepsEvent(t, v)
  BY <1>1, <1>2, <1>3, Knows DEF KeepsEvent, Handled, Early
<1>8. made <= made'
  BY <1>1, <1>2, Knows
<1>9. MailsOwnRow(t, v)
  BY <1>1, <1>3, <1>8 DEF MailsOwnRow, Posted, Mailing
<1>10. LogsOwnRow(t, v)
  BY <1>1, <1>4, <1>5 DEF LogsOwnRow, Fades, Truthful
<1> QED BY <1>1, <1>3, <1>6, <1>7, <1>9, <1>10, GoingOn

\* A write that is given up may come late.
LEMMA GivenUp ==
  ASSUME IInv, NEW op \in {"insert", "status", "mark", "delete"}, NEW t \in Tasks \cup {NoTask},
         NEW u \in Users \cup {Everyone}, NEW i \in 0..MaxRows,
         NEW status \in {"pending", "delivered", "sent", "failed", "read", "gone"},
         GivesUp(Write(op, t, u, i, status))
  PROVE  /\ late' \subseteq Writes
         /\ Honest([op |-> op, user |-> u, row |-> i, status |-> status], mailed', stranded')
              => LateGrows
<1> DEFINE w == Write(op, t, u, i, status)
<1>1. w \in Writes /\ w.op = op /\ w.user = u /\ w.row = i /\ w.status = status
  BY DEF Write, Writes
<1>2. late' \in {late, late \cup {w}} /\ late \subseteq Writes
  BY DEF GivesUp, IInv, TypeOK
<1> HIDE DEF w
<1>3. late' \subseteq Writes
  BY <1>1, <1>2
<1>4. Honest([op |-> op, user |-> u, row |-> i, status |-> status], mailed', stranded')
        => Honest(w, mailed', stranded')
  BY <1>1 DEF Honest
<1> QED BY <1>2, <1>3, <1>4 DEF LateGrows

LEMMA SentRejectedKeeps == ASSUME IInv, NEW t \in Tasks, SentRejected(t) PROVE IInv'
<1> DEFINE v == [task[t] EXCEPT !.at = "failed"]
<1>1. /\ task[t].at = "sent" /\ Goes(t, "failed")
      /\ stranded' = stranded \cup {task[t].row}
      /\ GivesUp(Write("status", t, task[t].user, task[t].row, "sent"))
      /\ UNCHANGED queueVars /\ UNCHANGED <<made, rows, unread, mailed, mails, exact>>
  BY DEF SentRejected
<1>2. task[t].at \in Steps /\ "failed" \in Steps
  BY <1>1 DEF Steps
<1>3. /\ Turns(t, v) /\ v # Idle /\ v.at = "failed"
      /\ v.event = task[t].event /\ v.row = task[t].row
  BY <1>1, <1>2, Knows, TaskMoves DEF IInv
<1>4. task[t].row \in 1..made /\ task[t].row \in Ids
  BY <1>1, <1>2, Knows DEF Posted, Mailing
<1>5. DataOK' /\ mailed' \subseteq 1..made' /\ LateGrows
  <2>1. task[t].row \in mailed /\ task[t].row \in 0..MaxRows /\ task[t].user \in Users
    BY <1>1, <1>2, <1>4, Knows DEF Posted, Ids, Mailing
  <2>2. late' \subseteq Writes /\ LateGrows
    BY <1>1, <2>1, GivenUp DEF Honest
  <2> QED BY <1>1, <1>4, <2>2 DEF DataOK, IInv, TypeOK, LogInv
<1>6. KeepsEvent(t, v)
  BY <1>1, <1>2, <1>3, Knows DEF KeepsEvent, Handled, Early
<1>7. MailsOwnRow(t, v)
  <2>1. Posted(v, made', mailed', stranded')
    BY <1>1, <1>3, <1>4 DEF Posted, Mailing
  <2>2. task[t] # Idle /\ made <= made'
    BY <1>1, <1>2, Knows
  <2> HIDE DEF v
  <2> QED BY <1>1, <1>3, <2>1, <2>2 DEF MailsOwnRow, Mailing
<1>8. LogsOwnRow(t, v)
  BY <1>1 DEF LogsOwnRow, Fades
<1> QED BY <1>1, <1>3, <1>5, <1>6, <1>7, <1>8, GoingOn

\* The handler's event waits, excused.
LEMMA ThrowExcuses ==
  ASSUME IInv, NEW t \in Tasks, task[t].at \in Steps, Throws(t)
  PROVE  /\ EndsWith(t, "waiting") /\ excused \subseteq excused' /\ excused' \subseteq Events
         /\ task[t].event # NoEvent => task[t].event \in excused'
<1>1. EndsWith(t, "waiting")
      /\ excused' = IF task[t].event = NoEvent THEN excused ELSE excused \cup {task[t].event}
  BY DEF Throws
<1>2. excused \subseteq Events /\ task[t].event \in Events \cup {NoEvent}
  BY Knows DEF IInv, TypeOK
<1> QED BY <1>1, <1>2

LEMMA FailedKeeps == ASSUME IInv, NEW t \in Tasks, Failed(t) PROVE IInv'
<1>1. /\ task[t].at = "failed" /\ UpdateStatus(task[t].row, "failed") /\ Throws(t)
      /\ UNCHANGED <<made, unread, mailed, mails, stranded, late>> /\ exact' \subseteq Users
  BY DEF Failed, mailVars, Disturbs, IInv, TypeOK
<1>2. task[t].at \in Steps
  BY <1>1 DEF Steps
<1>3. task[t].row \in Ids /\ task[t].row \notin mailed \ stranded
  BY <1>1, <1>2, Knows DEF Posted, Mailing
<1>4. /\ rows' \in [Ids -> Row \cup {Gone}]
      /\ \A j \in Ids \ {task[t].row} : Fades(j)
      /\ rows'[task[t].row] = Gone \/ rows'[task[t].row].status = "failed"
  BY <1>1, <1>3, StatusUpdated DEF IInv
<1>5. DataOK' /\ mailed' \subseteq 1..made'
  BY <1>1, <1>4 DEF DataOK, IInv, TypeOK, LogInv
<1>6. made <= made'
  BY <1>1, <1>2, Knows
<1>7. MailsOwnRow(t, Idle)
  BY <1>1, <1>6 DEF MailsOwnRow
<1>8. LogsOwnRow(t, Idle)
  BY <1>1, <1>3, <1>4 DEF LogsOwnRow, Fades, Truthful
<1> QED BY <1>1, <1>2, <1>5, <1>7, <1>8, ThrowExcuses, Knows, Ending

LEMMA FailedRejectedKeeps == ASSUME IInv, NEW t \in Tasks, FailedRejected(t) PROVE IInv'
<1>1. /\ task[t].at = "failed" /\ stranded' = stranded \cup {task[t].row} /\ Throws(t)
      /\ GivesUp(Write("status", t, task[t].user, task[t].row, "failed"))
      /\ UNCHANGED <<made, rows, unread, mailed, mails>> /\ exact' \subseteq Users
  BY DEF FailedRejected, Disturbs, IInv, TypeOK
<1>2. task[t].at \in Steps
  BY <1>1 DEF Steps
<1>3. task[t].row \in Ids
  BY <1>1, <1>2, Knows DEF Posted, Mailing
<1>4. DataOK' /\ mailed' \subseteq 1..made' /\ LateGrows
  <2>1. task[t].row \in 0..MaxRows /\ task[t].user \in Users
    BY <1>2, <1>3, Knows DEF Ids
  <2>2. late' \subseteq Writes /\ LateGrows
    BY <1>1, <2>1, GivenUp DEF Honest
  <2> QED BY <1>1, <1>3, <2>2 DEF DataOK, IInv, TypeOK, LogInv
<1>5. made <= made'
  BY <1>1, <1>2, Knows
<1>6. MailsOwnRow(t, Idle) /\ LogsOwnRow(t, Idle)
  BY <1>1, <1>5 DEF MailsOwnRow, LogsOwnRow, Fades
<1> QED BY <1>1, <1>2, <1>4, <1>6, ThrowExcuses, Knows, Ending

\* The handler has mailed its event before it counts a row.
LEMMA AfterBumpKeeps ==
  ASSUME IInv, NEW t \in Tasks, task[t].at \in {"bump", "incr"}, AfterBump(t), DataOK',
         UNCHANGED <<made, mailed, mails, stranded, late>>, \A i \in Ids : Fades(i)
  PROVE  IInv'
<1>1. task[t].at \in Steps \ {"sent"}
  BY DEF Steps
<1>2. task[t].event # NoEvent => mails[task[t].event] > 0
  BY <1>1, Knows DEF Handled
<1>3. CASE Goes(t, "second") /\ UNCHANGED queueVars
  <2>1. Handled([task[t] EXCEPT !.at = "second"], mails)
    BY <1>1, <1>2, Knows DEF Handled, Busy
  <2>2. "second" \in Steps \ Mailing /\ "second" \notin Early
    BY DEF Steps, Mailing, Early
  <2> QED BY <1>1, <1>3, <2>1, <2>2, Moving
<1>4. CASE EndsWith(t, "settled") /\ UNCHANGED excused
  <2>1. excused' \subseteq Events
    BY <1>4 DEF IInv, TypeOK
  <2> QED BY <1>1, <1>2, <1>4, <2>1, Stopping
<1> QED BY <1>3, <1>4 DEF AfterBump, Returns

LEMMA BumpKeeps == ASSUME IInv, NEW t \in Tasks, Bump(t) PROVE IInv'
<1>1. /\ task[t].at = "bump" /\ UNCHANGED <<made, rows, unread, mailVars, exact>>
      /\ (Goes(t, "incr") /\ UNCHANGED queueVars) \/ AfterBump(t)
  BY DEF Bump
<1>2. DataOK' /\ UNCHANGED <<made, mailed, stranded, mails, late>> /\ \A i \in Ids : Fades(i)
  BY <1>1, LeavesData DEF IInv, TypeOK
<1>3. CASE Goes(t, "incr") /\ UNCHANGED queueVars
  <2>1. task[t].at \in Steps \ {"sent"} /\ "incr" \in Steps \ Mailing /\ "incr" \notin Early
    BY <1>1 DEF Steps, Mailing, Early
  <2>2. Handled([task[t] EXCEPT !.at = "incr"], mails)
    BY <1>1, <2>1, Knows DEF Handled, Busy
  <2> QED BY <1>2, <1>3, <2>1, <2>2, Moving
<1> QED BY <1>1, <1>2, <1>3, AfterBumpKeeps

\* The counter of a user after INCR or DECR.
LEMMA Counted ==
  ASSUME TypeOK, NEW u \in Users, NEW k \in Int, Add(u, k)
  PROVE  unread' \in [Users -> Seq(Int)] /\ \A w \in Users : Len(unread'[w]) <= 1
<1> DEFINE n == IF unread[u] = <<>> THEN <<k>> ELSE <<unread[u][1] + k>>
<1>1. unread' = [unread EXCEPT ![u] = n]
  BY DEF Add
<1>2. n \in Seq(Int) /\ Len(n) = 1
  <2>1. unread[u] \in Seq(Int) /\ (unread[u] # <<>> => unread[u][1] \in Int)
    BY DEF TypeOK
  <2> QED BY <2>1
<1>3. unread \in [Users -> Seq(Int)] /\ \A w \in Users : Len(unread[w]) <= 1
  BY DEF TypeOK
<1> HIDE DEF n
<1>4. \A w \in Users : unread'[w] = IF w = u THEN n ELSE unread[w]
  BY <1>1, <1>3
<1>5. unread' \in [Users -> Seq(Int)]
  BY <1>1, <1>2, <1>3
<1>6. ASSUME NEW w \in Users PROVE Len(unread'[w]) <= 1
  <2>1. CASE w = u
    <3>1. unread'[w] = n
      BY <1>4, <2>1
    <3>2. Len(n) = 1
      BY <1>2
    <3> QED BY <3>1, <3>2
  <2>2. CASE w # u
    BY <1>3, <1>4, <2>2
  <2> QED BY <2>1, <2>2
<1> QED BY <1>5, <1>6

LEMMA IncrKeeps == ASSUME IInv, NEW t \in Tasks, Incr(t) PROVE IInv'
<1>1. /\ task[t].at = "incr" /\ Add(task[t].user, 1) /\ AfterBump(t)
      /\ UNCHANGED <<made, rows, mailed, mails, stranded, late, exact>>
  BY DEF Incr, mailVars
<1>2. task[t].at \in Steps
  BY <1>1 DEF Steps
<1>3. unread' \in [Users -> Seq(Int)] /\ \A w \in Users : Len(unread'[w]) <= 1
  BY <1>1, <1>2, Knows, Counted DEF IInv
<1>4. DataOK' /\ \A i \in Ids : Fades(i)
  BY <1>1, <1>3 DEF IInv, TypeOK, DataOK, Fades
<1> QED BY <1>1, <1>4, AfterBumpKeeps

LEMMA SecondKeeps == ASSUME IInv, NEW t \in Tasks, Second(t) PROVE IInv'
<1> DEFINE v == [task[t] EXCEPT !.at = "bump", !.channel = "in_app", !.row = made + 1]
<1>1. /\ task[t].at = "second" /\ Inserts(task[t].user, "delivered")
      /\ task' = [task EXCEPT ![t].at = "bump", ![t].channel = "in_app", ![t].row = made + 1]
      /\ UNCHANGED queueVars /\ UNCHANGED <<unread, mailed, mails, stranded, late, exact>>
  BY DEF Second, mailVars
<1>2. task[t].at \in Steps \ {"sent"}
  BY <1>1 DEF Steps
<1>3. /\ DataOK' /\ made' = made + 1 /\ made + 1 \in Ids /\ made + 1 \notin mailed
      /\ mailed' \subseteq 1..made' /\ \A i \in Ids : Fades(i) \/ Truthful(i)
  BY <1>1, <1>2, Knows, Inserted DEF IInv, TypeOK
<1>4. v \in Busy /\ v.at = "bump" /\ v.event = task[t].event
  <2>1. made + 1 \in 0..MaxRows
    BY <1>3, RowsAssumption DEF Ids
  <2>2. "bump" \in Steps /\ "in_app" \in Channels
    BY DEF Steps, Channels
  <2> QED BY <1>2, <2>1, <2>2, Knows DEF Busy
<1>5. task' = [task EXCEPT ![t] = v]
  BY <1>1, <1>2, Knows DEF IInv, TypeOK, Busy
<1>6. Turns(t, v)
  BY <1>4, <1>5 DEF Turns
<1>7. KeepsEvent(t, v)
  BY <1>1, <1>2, <1>4, Knows DEF KeepsEvent, Handled, Early
<1>8. MailsOwnRow(t, v) /\ LogsOwnRow(t, v)
  <2>1. task[t] # Idle /\ task[t].at # "sent" /\ made \in Nat
    BY <1>1, <1>2, Knows
  <2>2. v.at \notin Mailing
    BY <1>4 DEF Mailing
  <2> HIDE DEF v
  <2> QED BY <1>1, <1>3, <2>1, <2>2, InsertsQuietly DEF IInv
<1> QED BY <1>1, <1>3, <1>6, <1>7, <1>8, GoingOn

\* Rows and e-mails are left alone; a write may come late.
LEMMA LeavesLog ==
  ASSUME TypeOK, UNCHANGED <<made, rows, unread, mailed, mails, stranded>>,
         exact' \subseteq Users, late' \subseteq Writes
  PROVE  DataOK' /\ \A i \in Ids : Fades(i)
  BY DEF TypeOK, DataOK, Fades

LEMMA SecondRejectedKeeps == ASSUME IInv, NEW t \in Tasks, SecondRejected(t) PROVE IInv'
<1>1. /\ task[t].at = "second" /\ EndsWith(t, "settled") /\ UNCHANGED excused
      /\ GivesUp(Write("insert", t, task[t].user, 0, "delivered"))
      /\ UNCHANGED <<made, rows, unread, mailed, mails, stranded, exact>>
  BY DEF SecondRejected, Returns
<1>2. task[t].at \in Steps \ {"sent"} /\ 0 \in 0..MaxRows
  BY <1>1, RowsAssumption DEF Steps
<1>3. late' \subseteq Writes /\ LateGrows
  BY <1>1, <1>2, Knows, GivenUp DEF Honest
<1>4. DataOK' /\ \A i \in Ids : Fades(i)
  BY <1>1, <1>3, LeavesLog DEF IInv, TypeOK
<1>5. task[t].event # NoEvent => mails[task[t].event] > 0
  BY <1>1, <1>2, Knows DEF Handled
<1>6. excused' \subseteq Events
  BY <1>1 DEF IInv, TypeOK
<1> QED BY <1>1, <1>2, <1>3, <1>4, <1>5, <1>6, Stopping

LEMMA CreateRejectedKeeps == ASSUME IInv, NEW t \in Tasks, CreateRejected(t) PROVE IInv'
<1>1. /\ task[t].at \in {"create", "broadcast"} /\ Throws(t)
      /\ UNCHANGED <<made, rows, unread, mailed, mails, stranded, exact>>
  BY DEF CreateRejected
<1>2. task[t].at \in Steps \ {"sent"} /\ 0 \in 0..MaxRows
  BY <1>1, RowsAssumption DEF Steps
<1>3. PICK u \in Users \cup {Everyone}, status \in {"pending", "delivered", "sent"} :
        /\ GivesUp(Write("insert", t, u, 0, status))
        /\ status = "sent" => u = Everyone
  <2>1. CASE task[t].at = "broadcast"
    BY <2>1 DEF CreateRejected
  <2>2. CASE task[t].at # "broadcast" /\ task[t].channel = "in_app"
    BY <1>2, <2>2, Knows DEF CreateRejected
  <2>3. CASE task[t].at # "broadcast" /\ task[t].channel # "in_app"
    BY <1>2, <2>3, Knows DEF CreateRejected
  <2> QED BY <2>1, <2>2, <2>3
<1>4. late' \subseteq Writes /\ LateGrows
  BY <1>2, <1>3, GivenUp DEF Honest
<1>5. DataOK' /\ \A i \in Ids : Fades(i)
  BY <1>1, <1>4, LeavesLog DEF IInv, TypeOK
<1> QED BY <1>1, <1>2, <1>4, <1>5, ThrowExcuses, Stopping

-------------------------------------------------------------------------------
(* The calls of the gateway and of the administrators.                       *)

LEMMA SendManualKeeps ==
  ASSUME IInv, NEW t \in Tasks, NEW u \in Users, NEW c \in Manual, SendManual(t, u, c)
  PROVE  IInv'
<1>1. /\ Begins(t, u, "create", c, 0, NoEvent, 0) /\ UNCHANGED queueVars
      /\ UNCHANGED <<made, rows, unread, mailVars>> /\ exact' \subseteq Users
  BY DEF SendManual, Disturbs, IInv, TypeOK
<1>2. DataOK' /\ UNCHANGED <<made, mailed, stranded, mails, late>> /\ \A i \in Ids : Fades(i)
  BY <1>1, LeavesData DEF IInv, TypeOK
<1>3. /\ "create" \in Steps \ (Mailing \cup {"lookup", "broadcast"})
      /\ c \in Channels /\ 0 \in 0..MaxRows
  BY InboxAssumption, RowsAssumption DEF Steps, Mailing
<1> QED BY <1>1, <1>2, <1>3, CallBegins

LEMMA GetUnreadCountKeeps ==
  ASSUME IInv, NEW t \in Tasks, NEW u \in Users, GetUnreadCount(t, u)
  PROVE  IInv'
<1> DEFINE n == Cardinality(UnreadRows(u))
<1>1. /\ Begins(t, u, "fill", "in_app", 0, NoEvent, n) /\ UNCHANGED queueVars
      /\ UNCHANGED <<made, rows, unread, mailVars>> /\ exact' \subseteq Users
  BY DEF GetUnreadCount, IInv, TypeOK
<1>2. DataOK' /\ UNCHANGED <<made, mailed, stranded, mails, late>> /\ \A i \in Ids : Fades(i)
  BY <1>1, LeavesData DEF IInv, TypeOK
<1>3. n \in Int
  <2>1. 1 \in Int /\ MaxRows \in Int
    BY RowsAssumption
  <2>2. IsFiniteSet(Ids)
    BY <2>1, FS_Interval DEF Ids
  <2>3. IsFiniteSet(UnreadRows(u))
    BY <2>2, FS_Subset DEF UnreadRows
  <2> QED BY <2>3, FS_CardinalityType
<1>4. /\ "fill" \in Steps \ (Mailing \cup {"lookup", "broadcast"})
      /\ "in_app" \in Channels /\ 0 \in 0..MaxRows
  BY RowsAssumption DEF Steps, Mailing, Channels
<1> HIDE DEF n
<1> QED BY <1>1, <1>2, <1>3, <1>4, CallBegins

\* What marking rows as read does to them.
LEMMA MarkedFade ==
  ASSUME TypeOK, NEW u, NEW I, \A i \in I : i \in Ids /\ Unreads(i, u), MarkRead(I)
  PROVE  rows' \in [Ids -> Row \cup {Gone}] /\ \A i \in Ids : Fades(i)
<1>2. ASSUME NEW i \in Ids PROVE rows'[i] \in Row \cup {Gone} /\ Fades(i)
  <2>1. CASE i \in I
    <3>1. rows[i] # Gone /\ rows[i] \in Row
      BY <2>1, RowInUse DEF TypeOK, Unreads
    <3>2. rows'[i] = [rows[i] EXCEPT !.seen = "read", !.status = "read"]
      BY <2>1 DEF MarkRead
    <3> QED BY <3>1, <3>2 DEF Row, Fades
  <2>2. CASE i \notin I
    BY <2>2 DEF TypeOK, MarkRead, Fades
  <2> QED BY <2>1, <2>2
<1>3. rows' \in [Ids -> Row \cup {Gone}]
  <2>1. rows' = [i \in Ids |-> rows'[i]]
    BY DEF MarkRead
  <2> QED BY <1>2, <2>1
<1> QED BY <1>2, <1>3

LEMMA Marked ==
  ASSUME TypeOK, NEW u \in Users, NEW I, \A i \in I : i \in Ids /\ Unreads(i, u), MarkRead(I),
         UNCHANGED <<made, unread, mailVars>>, exact' \subseteq Users
  PROVE  /\ DataOK' /\ UNCHANGED <<made, mailed, stranded, mails, late>>
         /\ \A i \in Ids : Fades(i)
<1>1. UNCHANGED <<made, mailed, stranded, mails, late>>
  BY DEF mailVars
<1>2. rows' \in [Ids -> Row \cup {Gone}] /\ \A i \in Ids : Fades(i)
  BY MarkedFade
<1> QED BY <1>1, <1>2 DEF TypeOK, DataOK

LEMMA MarkAsReadKeeps ==
  ASSUME IInv, NEW t \in Tasks, NEW u \in Users, NEW i \in Ids, MarkAsRead(t, u, i)
  PROVE  IInv'
<1>1. /\ Unreads(i, u) /\ MarkRead({i}) /\ Begins(t, u, "dec", "in_app", 0, NoEvent, 0)
      /\ UNCHANGED queueVars /\ UNCHANGED <<made, unread, mailVars>> /\ exact' \subseteq Users
  BY DEF MarkAsRead, Disturbs, IInv, TypeOK
<1>2. DataOK' /\ UNCHANGED <<made, mailed, stranded, mails, late>> /\ \A j \in Ids : Fades(j)
  BY <1>1, Marked DEF IInv
<1>3. /\ "dec" \in Steps \ (Mailing \cup {"lookup", "broadcast"})
      /\ "in_app" \in Channels /\ 0 \in 0..MaxRows
  BY RowsAssumption DEF Steps, Mailing, Channels
<1> QED BY <1>1, <1>2, <1>3, CallBegins

LEMMA MarkAllAsReadKeeps ==
  ASSUME IInv, NEW t \in Tasks, NEW u \in Users, MarkAllAsRead(t, u)
  PROVE  IInv'
<1> DEFINE I == {i \in Ids : Unreads(i, u)}
<1>1. /\ MarkRead(I) /\ Begins(t, u, "zero", "in_app", 0, NoEvent, 0)
      /\ UNCHANGED queueVars /\ UNCHANGED <<made, unread, mailVars>> /\ exact' \subseteq Users
  BY DEF MarkAllAsRead, Disturbs, IInv, TypeOK
<1>2. \A i \in I : i \in Ids /\ Unreads(i, u)
  OBVIOUS
<1> HIDE DEF I
<1>3. DataOK' /\ UNCHANGED <<made, mailed, stranded, mails, late>> /\ \A j \in Ids : Fades(j)
  BY <1>1, <1>2, Marked DEF IInv
<1>4. /\ "zero" \in Steps \ (Mailing \cup {"lookup", "broadcast"})
      /\ "in_app" \in Channels /\ 0 \in 0..MaxRows
  BY RowsAssumption DEF Steps, Mailing, Channels
<1> QED BY <1>1, <1>3, <1>4, CallBegins

LEMMA DeleteNotificationKeeps ==
  ASSUME IInv, NEW t \in Tasks, NEW u \in Users, NEW i \in Ids, DeleteNotification(t, u, i)
  PROVE  IInv'
<1> DEFINE n == IF rows[i].seen = "unread" THEN 1 ELSE 0
<1>1. /\ Begins(t, u, "delete", "in_app", i, NoEvent, n) /\ UNCHANGED queueVars
      /\ UNCHANGED <<made, rows, unread, mailVars>> /\ exact' \subseteq Users
  BY DEF DeleteNotification, Disturbs, IInv, TypeOK
<1>2. DataOK' /\ UNCHANGED <<made, mailed, stranded, mails, late>> /\ \A j \in Ids : Fades(j)
  BY <1>1, LeavesData DEF IInv, TypeOK
<1>3. /\ "delete" \in Steps \ (Mailing \cup {"lookup", "broadcast"})
      /\ "in_app" \in Channels /\ i \in 0..MaxRows /\ n \in Int
  BY RowsAssumption DEF Steps, Mailing, Channels, Ids
<1> HIDE DEF n
<1> QED BY <1>1, <1>2, <1>3, CallBegins

\* A row goes; its task ends, or counts.
LEMMA DeleteKeeps == ASSUME IInv, NEW t \in Tasks, Delete(t) PROVE IInv'
<1>1. /\ task[t].at = "delete" /\ DeleteById(task[t].row, task[t].user)
      /\ Goes(t, "dec") \/ Ends(t)
      /\ UNCHANGED queueVars /\ UNCHANGED <<made, unread, mailed, mails, stranded, late, exact>>
  BY DEF Delete, mailVars
<1>2. DataOK' /\ \A j \in Ids : Fades(j)
  BY <1>1 DEF IInv, TypeOK, DataOK, Fades, DeleteById
<1>3. task[t].at \in Steps \ {"sent"}
  BY <1>1 DEF Steps
<1>4. CASE Goes(t, "dec")
  <2>1. "dec" \in Steps \ Mailing /\ "dec" \notin Early
    BY DEF Steps, Mailing, Early
  <2>2. Handled([task[t] EXCEPT !.at = "dec"], mails)
    BY <1>3, Knows DEF Handled, Busy
  <2> QED BY <1>1, <1>2, <1>3, <1>4, <2>1, <2>2, Moving
<1> QED BY <1>1, <1>2, <1>3, <1>4, CallEnds

\* The counter of a user is set.
LEMMA CounterSet ==
  ASSUME TypeOK, NEW u \in Users, NEW n \in Int, unread' = [unread EXCEPT ![u] = <<n>>]
  PROVE  unread' \in [Users -> Seq(Int)] /\ \A w \in Users : Len(unread'[w]) <= 1
<1>1. unread \in [Users -> Seq(Int)] /\ \A w \in Users : Len(unread[w]) <= 1
  BY DEF TypeOK
<1>2. <<n>> \in Seq(Int) /\ Len(<<n>>) = 1
  OBVIOUS
<1> DEFINE s == <<n>>
<1> HIDE DEF s
<1>3. unread' = [unread EXCEPT ![u] = s] /\ s \in Seq(Int) /\ Len(s) = 1
  BY <1>2 DEF s
<1>4. \A w \in Users : unread'[w] = IF w = u THEN s ELSE unread[w]
  BY <1>1, <1>3
<1>5. unread' \in [Users -> Seq(Int)]
  BY <1>1, <1>3
<1> QED BY <1>1, <1>3, <1>4, <1>5

\* The other steps of a call end it, or go on to a step that concerns the counter.
LEMMA CountingKeeps ==
  ASSUME IInv, NEW t \in Tasks, task[t].at \in {"fill", "zero", "dec", "get", "decr"},
         NEW x \in {"get", "decr"}, Goes(t, x) \/ Ends(t),
         UNCHANGED queueVars, UNCHANGED <<made, rows, mailVars>>, exact' \subseteq Users,
         unread' \in [Users -> Seq(Int)], \A w \in Users : Len(unread'[w]) <= 1
  PROVE  IInv'
<1>1. DataOK' /\ UNCHANGED <<made, mailed, stranded, mails, late>> /\ \A j \in Ids : Fades(j)
  BY LeavesData DEF IInv
<1>2. task[t].at \in Steps \ {"sent"}
  BY DEF Steps
<1>3. CASE Goes(t, x)
  <2>1. x \in Steps \ Mailing /\ x \notin Early
    BY DEF Steps, Mailing, Early
  <2>2. Handled([task[t] EXCEPT !.at = x], mails)
    BY <1>2, Knows DEF Handled, Busy
  <2> QED BY <1>1, <1>2, <1>3, <2>1, <2>2, Moving
<1> QED BY <1>1, <1>2, <1>3, CallEnds

LEMMA CallStepKeeps == ASSUME IInv, NEW t \in Tasks, CallStep(t) PROVE IInv'
<1>1. task[t].at \in Steps => task[t].user \in Users /\ task[t].count \in Int
  BY Knows DEF Busy
<1>2. exact \subseteq Users /\ unread \in [Users -> Seq(Int)] /\ \A w \in Users : Len(unread[w]) <= 1
  BY DEF IInv, TypeOK
<1>3. CASE SetUnreadCount(t)
  <2>1. /\ task[t].at = "fill" /\ unread' = [unread EXCEPT ![task[t].user] = <<task[t].count>>]
        /\ Ends(t) /\ UNCHANGED queueVars /\ UNCHANGED <<made, rows, mailVars, exact>>
    BY <1>3 DEF SetUnreadCount
  <2>2. unread' \in [Users -> Seq(Int)] /\ \A w \in Users : Len(unread'[w]) <= 1
    BY <1>1, <2>1, CounterSet DEF IInv, Steps
  <2> QED BY <1>2, <2>1, <2>2, CountingKeeps
<1>4. CASE ResetUnreadCount(t)
  <2>1. /\ task[t].at = "zero" /\ unread' = [unread EXCEPT ![task[t].user] = <<0>>]
        /\ Ends(t) /\ UNCHANGED queueVars /\ UNCHANGED <<made, rows, mailVars, exact>>
    BY <1>4 DEF ResetUnreadCount
  <2>2. unread' \in [Users -> Seq(Int)] /\ \A w \in Users : Len(unread'[w]) <= 1
    <3>1. task[t].user \in Users /\ 0 \in Int /\ TypeOK
      BY <1>1, <2>1 DEF IInv, Steps
    <3> QED BY <2>1, <3>1, CounterSet
  <2> QED BY <1>2, <2>1, <2>2, CountingKeeps
<1>5. CASE Delete(t)
  BY <1>5, DeleteKeeps
<1>6. CASE Dec(t)
  <2>1. /\ task[t].at = "dec" /\ (Goes(t, "get") \/ Ends(t))
        /\ UNCHANGED queueVars /\ UNCHANGED <<made, rows, unread, mailVars, exact>>
    BY <1>6 DEF Dec
  <2> QED BY <1>2, <2>1, CountingKeeps
<1>7. CASE Get(t)
  <2>1. /\ task[t].at = "get" /\ (Goes(t, "decr") \/ Ends(t))
        /\ UNCHANGED queueVars /\ UNCHANGED <<made, rows, unread, mailVars, exact>>
    BY <1>7 DEF Get
  <2> QED BY <1>2, <2>1, CountingKeeps
<1>8. CASE Decr(t)
  <2>1. /\ task[t].at = "decr" /\ Add(task[t].user, -1) /\ Ends(t)
        /\ UNCHANGED queueVars /\ UNCHANGED <<made, rows, mailVars, exact>>
    BY <1>8 DEF Decr
  <2>2. unread' \in [Users -> Seq(Int)] /\ \A w \in Users : Len(unread'[w]) <= 1
    BY <1>1, <2>1, Counted DEF IInv, Steps
  <2> QED BY <1>2, <2>1, <2>2, CountingKeeps
<1> QED BY <1>3, <1>4, <1>5, <1>6, <1>7, <1>8 DEF CallStep

-------------------------------------------------------------------------------
(* Failures, the TTL, the archiver.                                          *)

LEMMA LosesKeeps == ASSUME IInv, NEW t \in Tasks, Loses(t) PROVE IInv'
<1>1. /\ UNCHANGED <<made, rows, unread, mailVars>> /\ exact' \subseteq Users
      /\ unread \in [Users -> Seq(Int)] /\ \A w \in Users : Len(unread[w]) <= 1
  BY DEF Loses, Disturbs, IInv, TypeOK
<1>2. DataOK' /\ UNCHANGED <<made, mailed, stranded, mails, late>> /\ \A j \in Ids : Fades(j)
  BY <1>1, LeavesData DEF IInv
<1>3. CASE task[t].at \in {"bump", "incr"} /\ AfterBump(t)
  BY <1>2, <1>3, AfterBumpKeeps
<1>4. CASE task[t].at \in {"fill", "dec", "get", "decr", "zero"} /\ Ends(t) /\ UNCHANGED queueVars
  BY <1>1, <1>4, CountingKeeps
<1> QED BY <1>3, <1>4 DEF Loses

LEMMA DeleteRejectedKeeps == ASSUME IInv, NEW t \in Tasks, DeleteRejected(t) PROVE IInv'
<1>1. /\ task[t].at = "delete" /\ Ends(t) /\ UNCHANGED queueVars
      /\ GivesUp(Write("delete", t, task[t].user, task[t].row, "gone"))
      /\ UNCHANGED <<made, rows, unread, mailed, mails, stranded, exact>>
  BY DEF DeleteRejected
<1>2. task[t].at \in Steps \ {"sent"}
  BY <1>1 DEF Steps
<1>3. task[t].row \in 0..MaxRows
  BY <1>2, Knows DEF Busy
<1>4. late' \subseteq Writes /\ LateGrows
  BY <1>1, <1>2, <1>3, Knows, GivenUp DEF Honest
<1>5. DataOK' /\ \A j \in Ids : Fades(j)
  BY <1>1, <1>4, LeavesLog DEF IInv, TypeOK
<1> QED BY <1>1, <1>2, <1>4, <1>5, CallEnds

\* Rows and counters change with no task's doing.
LEMMA AsideOf ==
  ASSUME IInv, UNCHANGED queueVars, UNCHANGED <<task, mailed, mails>>, DataOK',
         made' \in {made, made + 1}, stranded \subseteq stranded',
         late' \subseteq late \/ LateGrows, \A i \in Ids : Fades(i) \/ Truthful(i)
  PROVE  IInv'
<1>1. UNCHANGED <<kind, addressee, queue, holder, again, excused, mailed, mails>>
  BY DEF queueVars
<1>2. TypeOK'
  BY <1>1 DEF IInv, TypeOK, DataOK
<1>3. EventsInv'
  <2>1. \A c : Handled(c, mails) <=> Handled(c, mails)'
    BY <1>1 DEF Handled
  <2> QED BY <1>1, <2>1 DEF IInv, EventsInv, Single, Concluded, Handled
<1>4. LogIsTrue'
  <2>1. SUFFICES ASSUME NEW i \in Ids, rows'[i] # Gone, rows'[i].user # Everyone
                 PROVE  /\ rows'[i].status = "sent" => i \in mailed
                        /\ i \in mailed \ stranded' =>
                             \/ rows'[i].status \in {"sent", "read"}
                             \/ \E t \in Tasks : task[t] # Idle /\ task[t].row = i /\ task[t].at = "sent"
    BY <1>1 DEF LogIsTrue
  <2>2. CASE Fades(i)
    BY <2>1, <2>2 DEF IInv, LogInv, LogIsTrue, Fades
  <2>3. CASE Truthful(i)
    BY <1>1, <2>1, <2>3 DEF Truthful
  <2> QED BY <2>2, <2>3
<1>5. LogInv'
  <2>1. made \in Nat /\ 1..made \subseteq 1..made'
    BY RowsAssumption DEF IInv, TypeOK
  <2>2. mailed' \subseteq 1..made' /\ RowsApart'
    BY <2>1 DEF IInv, LogInv, RowsApart
  <2>3. \A t \in Tasks : task'[t] # Idle => Posted(task'[t], made', mailed', stranded')
    BY <2>1 DEF IInv, LogInv, Posted
  <2>4. \A t \in Tasks : Posted(task[t], made, mailed, stranded)'
                          <=> Posted(task'[t], made', mailed', stranded')
    BY DEF Posted
  <2> QED BY <1>4, <2>2, <2>3, <2>4 DEF LogInv
<1>6. LateOK'
  BY LateKept DEF IInv
<1> QED BY <1>2, <1>3, <1>5, <1>6 DEF IInv

LEMMA Aside ==
  ASSUME IInv, UNCHANGED queueVars, UNCHANGED <<made, task, mailVars>>, DataOK',
         \A i \in Ids : Fades(i)
  PROVE  IInv'
  BY AsideOf DEF mailVars

LEMMA MarkRejectedKeeps ==
  ASSUME IInv, NEW u \in Users, NEW i \in 0..MaxRows, MarkRejected(u, i)
  PROVE  IInv'
<1>1. /\ late' = late \cup {Write("mark", NoTask, u, i, "read")} /\ UNCHANGED queueVars
      /\ UNCHANGED <<made, rows, unread, task, mailed, mails, stranded, exact>>
  BY DEF MarkRejected
<1>2. GivesUp(Write("mark", NoTask, u, i, "read"))
  BY <1>1 DEF GivesUp
<1>3. late' \subseteq Writes /\ LateGrows
  BY <1>2, GivenUp DEF Honest
<1>4. DataOK' /\ \A j \in Ids : Fades(j)
  BY <1>1, <1>3, LeavesLog DEF IInv, TypeOK
<1> QED BY <1>1, <1>3, <1>4, AsideOf

\* A late row is stranded; a late status is true, or its row stranded.
LEMMA LandsKeeps == ASSUME IInv, NEW w \in late, Lands(w) PROVE IInv'
<1>1. /\ UNCHANGED queueVars /\ UNCHANGED <<unread, task, mailed, mails>>
      /\ late' \subseteq late /\ exact' \subseteq Users
  BY DEF Lands, Disturbs, IInv, TypeOK
<1>2. w \in Writes /\ Honest(w, mailed, stranded) /\ late' \subseteq Writes
  BY <1>1 DEF IInv, TypeOK, LateOK
<1>3. CASE /\ w.op = "insert" /\ Inserts(w.user, w.status)
           /\ stranded' = stranded \cup {made + 1}
  <2>1. w.user \in Users \cup {Everyone} /\ w.status \in {"pending", "delivered", "sent"}
        /\ (w.status = "sent" => w.user = Everyone)
    BY <1>2, <1>3 DEF Writes, Honest
  <2>2. DataOK' /\ made' = made + 1 /\ \A i \in Ids : Fades(i) \/ Truthful(i)
    BY <1>1, <1>3, <2>1, Inserted DEF IInv
  <2> QED BY <1>1, <1>3, <2>2, AsideOf
<1>4. CASE w.op = "status" /\ UpdateStatus(w.row, w.status) /\ UNCHANGED <<made, stranded>>
  <2>1. w.row \in Ids /\ w.status \in {"sent", "failed"}
    BY <1>2, <1>4 DEF Honest, IInv, TypeOK
  <2>2. /\ rows' \in [Ids -> Row \cup {Gone}]
        /\ \A j \in Ids \ {w.row} : Fades(j)
        /\ rows'[w.row] = Gone \/ rows'[w.row].status = w.status
    BY <1>4, <2>1, StatusUpdated DEF IInv
  <2>3. Fades(w.row) \/ Truthful(w.row)
    BY <1>1, <1>2, <1>4, <2>2 DEF Honest, Fades, Truthful
  <2>4. DataOK'
    BY <1>1, <1>2, <1>4, <2>2 DEF IInv, TypeOK, DataOK
  <2> QED BY <1>1, <1>4, <2>2, <2>3, <2>4, AsideOf
<1>5. CASE /\ w.op = "mark" /\ UNCHANGED <<made, stranded>>
           /\ MarkRead({i \in Ids : Unreads(i, w.user) /\ w.row \in {0, i}})
  <2> DEFINE I == {i \in Ids : Unreads(i, w.user) /\ w.row \in {0, i}}
  <2>1. \A i \in I : i \in Ids /\ Unreads(i, w.user)
    OBVIOUS
  <2> HIDE DEF I
  <2>2. MarkRead(I)
    BY <1>5 DEF I
  <2>3. rows' \in [Ids -> Row \cup {Gone}] /\ \A i \in Ids : Fades(i)
    BY <2>1, <2>2, MarkedFade DEF IInv
  <2>4. DataOK'
    BY <1>1, <1>2, <1>5, <2>3 DEF IInv, TypeOK, DataOK
  <2> QED BY <1>1, <1>5, <2>3, <2>4, AsideOf
<1>6. CASE w.op = "delete" /\ DeleteById(w.row, w.user) /\ UNCHANGED <<made, stranded>>
  <2>1. rows' \in [Ids -> Row \cup {Gone}] /\ \A i \in Ids : Fades(i)
    BY <1>6 DEF IInv, TypeOK, DeleteById, Fades
  <2>2. DataOK'
    BY <1>1, <1>2, <1>6, <2>1 DEF IInv, TypeOK, DataOK
  <2> QED BY <1>1, <1>6, <2>1, <2>2, AsideOf
<1> QED BY <1>3, <1>4, <1>5, <1>6 DEF Lands

LEMMA KeyExpiresKeeps == ASSUME IInv, NEW u \in Users, KeyExpires(u) PROVE IInv'
<1>1. /\ unread' = [unread EXCEPT ![u] = <<>>] /\ exact' \subseteq Users
      /\ UNCHANGED queueVars /\ UNCHANGED <<made, rows, task, mailVars>>
  BY DEF KeyExpires, IInv, TypeOK
<1>2. unread' \in [Users -> Seq(Int)] /\ \A w \in Users : Len(unread'[w]) <= 1
  <2>1. unread \in [Users -> Seq(Int)] /\ \A w \in Users : Len(unread[w]) <= 1
    BY DEF IInv, TypeOK
  <2>2. <<>> \in Seq(Int) /\ Len(<<>>) = 0
    OBVIOUS
  <2>3. \A w \in Users : unread'[w] = IF w = u THEN <<>> ELSE unread[w]
    BY <1>1, <2>1
  <2>4. unread' \in [Users -> Seq(Int)]
    BY <1>1, <2>1, <2>2
  <2> QED BY <2>1, <2>2, <2>3, <2>4
<1>3. DataOK' /\ \A i \in Ids : Fades(i)
  BY <1>1, <1>2, LeavesData DEF IInv
<1> QED BY <1>1, <1>3, Aside

LEMMA ArchiveOldKeeps == ASSUME IInv, NEW i \in Ids, ArchiveOld(i) PROVE IInv'
<1> DEFINE old == {j \in Ids : j <= i /\ rows[j] # Gone}
<1>1. /\ rows' = [j \in Ids |-> IF j \in old THEN Gone ELSE rows[j]]
      /\ UNCHANGED queueVars /\ UNCHANGED <<made, unread, task, mailVars>> /\ exact' \subseteq Users
  BY DEF ArchiveOld, Disturbs, IInv, TypeOK
<1> HIDE DEF old
<1>2. rows' \in [Ids -> Row \cup {Gone}] /\ \A j \in Ids : Fades(j)
  BY <1>1 DEF IInv, TypeOK, Fades
<1>3. DataOK'
  BY <1>1, <1>2 DEF IInv, TypeOK, DataOK, mailVars
<1> QED BY <1>1, <1>2, <1>3, Aside

-------------------------------------------------------------------------------
(* The theorems.                                                             *)

LEMMA HandlerStepKeeps == ASSUME IInv, NEW t \in Tasks, HandlerStep(t) PROVE IInv'
  BY CreateBroadcastKeeps, CreateKeeps, SendEmailKeeps, SentKeeps, FailedKeeps, BumpKeeps,
     IncrKeeps, SecondKeeps DEF HandlerStep

LEMMA CallKeeps == ASSUME IInv, NEW t \in Tasks, NEW u \in Users, Call(t, u) PROVE IInv'
  BY SendManualKeeps, GetUnreadCountKeeps, MarkAllAsReadKeeps, MarkAsReadKeeps,
     DeleteNotificationKeeps DEF Call

LEMMA FailsKeeps == ASSUME IInv, Fails PROVE IInv'
  BY LookupFailsKeeps, CreateRejectedKeeps, SendEmailFailsKeeps, SentRejectedKeeps,
     FailedRejectedKeeps, SecondRejectedKeeps, DeleteRejectedKeeps, MarkRejectedKeeps, LosesKeeps,
     ConnectionLostKeeps, CrashKeeps DEF Fails

LEMMA StepKeeps == ASSUME IInv, [Next]_vars PROVE IInv'
<1>1. CASE Works
  BY <1>1, LookupKeeps, HandlerStepKeeps, CallStepKeeps, DeliverKeeps, RetryTimerKeeps,
     KeyExpiresKeeps, LandsKeeps DEF Works
<1>2. CASE Requests
  BY <1>2, CallKeeps, ArchiveOldKeeps DEF Requests
<1>3. CASE Fails
  BY <1>3, FailsKeeps
<1>4. CASE UNCHANGED vars
  <2>1. DataOK' /\ \A i \in Ids : Fades(i)
    BY <1>4, LeavesData DEF vars, IInv, TypeOK
  <2> QED BY <1>4, <2>1, Aside DEF vars
<1> QED BY <1>1, <1>2, <1>3, <1>4 DEF Next

LEMMA Inductive == Spec => []IInv
<1>1. Init => IInv
  BY Initially
<1>2. IInv /\ [Next]_vars => IInv'
  BY StepKeeps
<1> QED BY <1>1, <1>2, PTL DEF Spec

\* The variables keep their types, whatever is delivered, called or fails
\* (notification.service.js, notificationCache.js, notificationModel.js).
THEOREM InboxTyped == Spec => []TypeOK
<1>1. IInv => TypeOK
  BY DEF IInv
<1> QED BY <1>1, Inductive, PTL

\* An event is mailed once, unless the broker delivered it again, and is not settled
\* before, unless it is an article or its handler met a failure: for every number of
\* events, and of handlers at a time (createAndSend in notification.service.js).
THEOREM OneMail == Spec => []OneMailPerEvent
<1>1. IInv => OneMailPerEvent
  BY DEF IInv, EventsInv, Single, Concluded, OneMailPerEvent
<1> QED BY <1>1, Inductive, PTL

\* What the delivery log says of an e-mail is true, unless its handler died or lost a
\* status update, or the breaker gave up on a slow server (createAndSend).
THEOREM LogTrue == Spec => []LogIsTrue
<1>1. IInv => LogIsTrue
  BY DEF IInv, LogInv
<1> QED BY <1>1, Inductive, PTL

-------------------------------------------------------------------------------
(* The badge: the counter of a user, the unread rows, and the tasks between.  *)

\* Calls that have still to take from the counter; handlers that have inserted a
\* row and have still to count it.
Taking   == {"dec", "get", "decr"}
Unbumped == {"mail", "sent", "failed", "bump", "incr"}

TasksAt(u, S) == {t \in Tasks : OfUser(t, u) /\ task[t].at \in S}
Number(u)     == Cardinality(UnreadRows(u))
Resets(u)     == \E t \in Tasks : OfUser(t, u) /\ task[t].at = "zero"

\* Tasks of one user that can be in progress together, the counter undisturbed.
Shared(c, d) ==
  \/ c.at \in Adding /\ d.at \in Adding
  \/ c.at \in Taking /\ d.at \in Taking
  \/ c.at = "broadcast" \/ d.at = "broadcast"

\* What a task has read of its user's n unread rows, counter k and rows R still holds.
Informed(c, n, k, R) ==
  /\ c.at = "fill" => c.count = n
  /\ c.at = "zero" => n = 0
  /\ c.at \in {"incr", "decr"} => k # <<>>
  /\ c.at = "delete" => R[c.row] # Gone /\ (c.count = 1 <=> R[c.row].seen = "unread")

\* The counter of u, with what is still to be added, is the number of unread rows,
\* with what is still to be taken.
Badge(u) ==
  /\ \A s, t \in Tasks : OfUser(s, u) /\ OfUser(t, u) /\ s # t => Shared(task[s], task[t])
  /\ \A t \in Tasks : OfUser(t, u) => Informed(task[t], Number(u), unread[u], rows)
  /\ unread[u] # <<>> /\ ~Resets(u) =>
       unread[u][1] + Cardinality(TasksAt(u, Unbumped)) = Number(u) + Cardinality(TasksAt(u, Taking))

Few == IsFiniteSet({t \in Tasks : task[t] # Idle})

\* Ids are given in order, and a user deletes rows of their own.
Deletes(c, n, R) ==
  c.at = "delete" => c.row \in 1..n /\ (R[c.row] = Gone \/ R[c.row].user = c.user)
Ground ==
  /\ \A i \in Ids : i > made => rows[i] = Gone
  /\ \A t \in Tasks : task[t] # Idle => Deletes(task[t], made, rows)

BadgeInv == Few /\ Ground /\ \A u \in exact : Badge(u)

\* How a task counts in TasksAt.
At(c, u, S)  == c # Idle /\ c.user = u /\ c.at \in S
One(c, u, S) == IF At(c, u, S) THEN 1 ELSE 0

\* The tasks in progress are finitely many.
LEMMA TasksCounted ==
  ASSUME Few, NEW u, NEW S
  PROVE  IsFiniteSet(TasksAt(u, S)) /\ Cardinality(TasksAt(u, S)) \in Nat
<1>1. TasksAt(u, S) \subseteq {t \in Tasks : task[t] # Idle}
  BY DEF TasksAt, OfUser
<1>2. IsFiniteSet(TasksAt(u, S))
  BY <1>1, FS_Subset DEF Few
<1> QED BY <1>2, FS_CardinalityType

\* A task's step changes the number of tasks at some steps by what it leaves and where it goes.
LEMMA TasksCount ==
  ASSUME TypeOK, Few, NEW t \in Tasks, NEW v, Turns(t, v), NEW u, NEW S
  PROVE  Cardinality(TasksAt(u, S))'
           = Cardinality(TasksAt(u, S)) - One(task[t], u, S) + One(v, u, S)
<1> DEFINE X == TasksAt(u, S)
           Y == X \ {t}
<1>1. IsFiniteSet(X) /\ Cardinality(X) \in Nat
  BY TasksCounted
<1>2. t \in X <=> At(task[t], u, S)
  BY DEF TasksAt, OfUser, At
<1>3. task'[t] = v /\ \A s \in Tasks \ {t} : task'[s] = task[s]
  BY DEF TypeOK, Turns
<1>4. TasksAt(u, S)' = IF At(v, u, S) THEN Y \cup {t} ELSE Y
  <2>1. \A s \in Tasks : s \in TasksAt(u, S)' <=> At(task'[s], u, S)
    BY DEF TasksAt, OfUser, At
  <2>2. \A s \in Tasks \ {t} : s \in X <=> At(task[s], u, S)
    BY DEF TasksAt, OfUser, At
  <2>3. TasksAt(u, S)' \subseteq Tasks /\ X \subseteq Tasks
    BY DEF TasksAt
  <2> HIDE DEF X
  <2> QED BY <1>3, <2>1, <2>2, <2>3
<1>5. IsFiniteSet(Y) /\ Cardinality(Y) = Cardinality(X) - One(task[t], u, S)
  <2>1. IsFiniteSet(Y) /\ Cardinality(Y) = IF t \in X THEN Cardinality(X) - 1 ELSE Cardinality(X)
    BY <1>1, FS_RemoveElement
  <2> HIDE DEF X, Y
  <2> QED BY <1>1, <1>2, <2>1 DEF One
<1>6. Cardinality(Y \cup {t}) = Cardinality(Y) + 1
  <2>1. t \notin Y
    OBVIOUS
  <2> QED BY <1>5, <2>1, FS_AddElement
<1> HIDE DEF X, Y
<1>7. CASE At(v, u, S)
  BY <1>1, <1>4, <1>5, <1>6, <1>7 DEF One, X
<1>8. CASE ~At(v, u, S)
  BY <1>1, <1>4, <1>5, <1>8 DEF One, X
<1> QED BY <1>7, <1>8

\* The tasks in progress stay finitely many.
LEMMA StaysFew ==
  ASSUME TypeOK, Few, NEW t \in Tasks, NEW v, Turns(t, v)
  PROVE  Few'
<1> DEFINE X == {s \in Tasks : task[s] # Idle}
<1>1. IsFiniteSet(X \cup {t})
  BY FS_AddElement DEF Few
<1>2. {s \in Tasks : task'[s] # Idle} \subseteq X \cup {t}
  BY DEF TypeOK, Turns
<1>3. IsFiniteSet({s \in Tasks : task'[s] # Idle})
  <2> HIDE DEF X
  <2> QED BY <1>1, <1>2, FS_Subset
<1> QED BY <1>3 DEF Few

-------------------------------------------------------------------------------
(* Rows.                                                                     *)

\* The unread rows of a user are finitely many.
LEMMA RowsCounted ==
  ASSUME NEW u
  PROVE  IsFiniteSet(UnreadRows(u)) /\ Number(u) \in Nat
<1>1. IsFiniteSet(Ids)
  BY RowsAssumption, FS_Interval DEF Ids
<1>2. UnreadRows(u) \subseteq Ids
  BY DEF UnreadRows
<1>3. IsFiniteSet(UnreadRows(u))
  BY <1>1, <1>2, FS_Subset
<1> QED BY <1>3, FS_CardinalityType DEF Number

\* So are they after a step.
LEMMA RowsCountedNext ==
  ASSUME NEW u
  PROVE  IsFiniteSet(UnreadRows(u)') /\ Number(u)' \in Nat
<1>1. IsFiniteSet(Ids)
  BY RowsAssumption, FS_Interval DEF Ids
<1>2. UnreadRows(u)' \subseteq Ids
  BY DEF UnreadRows
<1>3. IsFiniteSet(UnreadRows(u)')
  BY <1>1, <1>2, FS_Subset
<1> QED BY <1>3, FS_CardinalityType DEF Number

\* A row looks the same to its reader; a row is no row of u; what a step may do for u
\* when it changes the rows of others.
SameFace(i) ==
  /\ rows'[i] = Gone <=> rows[i] = Gone
  /\ rows[i] # Gone => rows'[i].user = rows[i].user /\ rows'[i].seen = rows[i].seen
Foreign(i, u) ==
  /\ rows[i] = Gone \/ rows[i].user \notin {u, Everyone}
  /\ rows'[i] = Gone \/ rows'[i].user \notin {u, Everyone}
SameFor(u) == \A i \in Ids : SameFace(i) \/ Foreign(i, u)

\* A step that changes rows of x only.
Private(x) == \A i \in Ids : \/ SameFace(i)
                             \/ /\ rows[i] = Gone \/ rows[i].user = x
                                /\ rows'[i] = Gone \/ rows'[i].user = x

LEMMA SameNumber ==
  ASSUME NEW u, SameFor(u)
  PROVE  UnreadRows(u)' = UnreadRows(u) /\ Number(u)' = Number(u)
<1>1. ASSUME NEW i \in Ids
      PROVE  i \in UnreadRows(u)' <=> i \in UnreadRows(u)
  BY DEF SameFor, SameFace, Foreign, UnreadRows
<1>2. UnreadRows(u)' \subseteq Ids /\ UnreadRows(u) \subseteq Ids
  BY DEF UnreadRows
<1>3. UnreadRows(u)' = UnreadRows(u)
  BY <1>1, <1>2
<1> QED BY <1>3 DEF Number

\* What is private to one user is the same for the others.
LEMMA PrivateIsSame ==
  ASSUME NEW x \in Users, Private(x), NEW u \in Users \ {x}
  PROVE  SameFor(u)
  BY InboxAssumption DEF Private, SameFor, Foreign

\* A row comes to be unread; a row ceases to be.
LEMMA RowComes ==
  ASSUME NEW u, NEW i, i \notin UnreadRows(u), UnreadRows(u)' = UnreadRows(u) \cup {i}
  PROVE  Number(u)' = Number(u) + 1
  BY RowsCounted, FS_AddElement DEF Number

LEMMA RowGoes ==
  ASSUME NEW u, NEW i, i \in UnreadRows(u), UnreadRows(u)' = UnreadRows(u) \ {i}
  PROVE  Number(u)' = Number(u) - 1
  BY RowsCounted, FS_RemoveElement DEF Number

-------------------------------------------------------------------------------
(* Steps: those of others, and those of the user's own tasks.                 *)

\* A task of u that shares with what it knows of the rows: rows the same for u.
LEMMA StaysInformed ==
  ASSUME TypeOK, Ground, NEW u \in Users, SameFor(u), UNCHANGED <<unread>>,
         NEW s \in Tasks, OfUser(s, u), Informed(task[s], Number(u), unread[u], rows)
  PROVE  Informed(task[s], Number(u)', unread[u], rows')
<1>1. Number(u)' = Number(u)
  BY SameNumber
<1>2. ASSUME task[s].at = "delete"
      PROVE  /\ rows'[task[s].row] # Gone
             /\ task[s].count = 1 <=> rows'[task[s].row].seen = "unread"
  <2> DEFINE i == task[s].row
  <2>1. i \in 1..made /\ rows[i] # Gone /\ (rows[i] = Gone \/ rows[i].user = u)
        /\ (task[s].count = 1 <=> rows[i].seen = "unread")
    BY <1>2 DEF Ground, Deletes, OfUser, Informed
  <2>2. i \in Ids
    BY <2>1, RowsAssumption DEF TypeOK, Ids
  <2>3. SameFace(i)
    BY <2>1, <2>2 DEF SameFor, Foreign
  <2> QED BY <2>1, <2>3 DEF SameFace
<1> QED BY <1>1, <1>2 DEF Informed

\* A step in which nothing changes for u.
LEMMA Elsewhere ==
  ASSUME TypeOK, Ground, NEW u \in Users, Badge(u), SameFor(u), unread'[u] = unread[u],
         \A s \in Tasks : OfUser(s, u) \/ OfUser(s, u)' => task'[s] = task[s]
  PROVE  Badge(u)'
<1>1. \A s \in Tasks : OfUser(s, u)' <=> OfUser(s, u)
  BY DEF OfUser
<1>2. \A S : TasksAt(u, S)' = TasksAt(u, S)
  BY <1>1 DEF TasksAt, OfUser
<1>3. Number(u)' = Number(u)
  BY SameNumber
<1>4. Resets(u)' <=> Resets(u)
  BY <1>1 DEF Resets
<1>5. ASSUME NEW s \in Tasks, OfUser(s, u)'
      PROVE  Informed(task[s], Number(u), unread[u], rows)'
  <2>1. OfUser(s, u) /\ task'[s] = task[s] /\ Informed(task[s], Number(u), unread[u], rows)
    BY <1>1, <1>5 DEF Badge
  <2>2. task[s].at = "delete" => SameFace(task[s].row)
    <3>1. SUFFICES ASSUME task[s].at = "delete" PROVE SameFace(task[s].row)
      OBVIOUS
    <3>2. task[s].row \in 1..made /\ rows[task[s].row] # Gone /\ rows[task[s].row].user = u
      BY <2>1, <3>1 DEF Ground, Deletes, OfUser, Informed
    <3>3. task[s].row \in Ids
      BY <3>2, RowsAssumption DEF TypeOK, Ids
    <3> QED BY <3>2, <3>3 DEF SameFor, Foreign
  <2> QED BY <1>3, <2>1, <2>2 DEF Informed, SameFace
<1>6. \A s, t \in Tasks : OfUser(s, u)' /\ OfUser(t, u)' /\ s # t => Shared(task'[s], task'[t])
  BY <1>1 DEF Badge
<1>7. unread'[u] # <<>> /\ ~Resets(u)' =>
        unread'[u][1] + Cardinality(TasksAt(u, Unbumped))'
          = Number(u)' + Cardinality(TasksAt(u, Taking))'
  BY <1>2, <1>3, <1>4 DEF Badge
<1> QED BY <1>5, <1>6, <1>7 DEF Badge

\* Where the only task in progress is outside, and nothing changes but for its user x.
LEMMA OthersBadges ==
  ASSUME TypeOK, Ground, \A u \in exact : Badge(u), NEW t \in Tasks, NEW v, NEW x \in Users,
         Turns(t, v), task[t] # Idle => task[t].user = x, v # Idle => v.user = x,
         Private(x), \A u \in Users \ {x} : unread'[u] = unread[u],
         exact' \subseteq exact \cup {x}, x \in exact' => Badge(x)'
  PROVE  \A u \in exact' : Badge(u)'
<1>1. SUFFICES ASSUME NEW u \in exact', u # x PROVE Badge(u)'
  OBVIOUS
<1>2. u \in Users /\ Badge(u) /\ unread'[u] = unread[u]
  BY <1>1 DEF TypeOK
<1>3. SameFor(u)
  BY <1>1, <1>2, PrivateIsSame
<1>4. \A s \in Tasks : OfUser(s, u) \/ OfUser(s, u)' => task'[s] = task[s]
  BY <1>1 DEF TypeOK, Turns, OfUser
<1> QED BY <1>2, <1>3, <1>4, Elsewhere

\* A step of a task of u: what it must do, so that the counter of u stays right.
LEMMA Balances ==
  ASSUME TypeOK, TypeOK', Few, NEW u \in Users, Badge(u), NEW t \in Tasks, NEW v, Turns(t, v),
         task[t] # Idle => task[t].at # "zero",
         v # Idle /\ v.user = u =>
           /\ Informed(v, Number(u)', unread'[u], rows')
           /\ \A s \in Tasks \ {t} : OfUser(s, u) => Shared(task[s], v),
         \A s \in Tasks \ {t} : OfUser(s, u) => Informed(task[s], Number(u)', unread'[u], rows'),
         unread'[u] # <<>> /\ ~Resets(u)' =>
           /\ unread[u] # <<>>
           /\ unread'[u][1] - unread[u][1]
                = (Number(u)' - Number(u)) + (One(v, u, Taking) - One(task[t], u, Taking))
                  - (One(v, u, Unbumped) - One(task[t], u, Unbumped))
  PROVE  Badge(u)'
<1>1. task'[t] = v /\ \A s \in Tasks \ {t} : task'[s] = task[s]
  BY DEF TypeOK, Turns
<1>2. ASSUME NEW s \in Tasks, OfUser(s, u)'
      PROVE  Informed(task[s], Number(u), unread[u], rows)'
  <2>1. CASE s = t
    BY <1>1, <1>2, <2>1 DEF OfUser
  <2>2. CASE s # t
    <3>1. OfUser(s, u) /\ task'[s] = task[s]
      BY <1>1, <1>2, <2>2 DEF OfUser
    <3> QED BY <2>2, <3>1
  <2> QED BY <2>1, <2>2
<1>3. ASSUME NEW s \in Tasks, NEW r \in Tasks, OfUser(s, u)', OfUser(r, u)', s # r
      PROVE  Shared(task'[s], task'[r])
  <2>1. CASE s # t /\ r # t
    BY <1>1, <1>3, <2>1 DEF Badge, OfUser
  <2>2. CASE s = t
    <3>1. v # Idle /\ v.user = u /\ OfUser(r, u) /\ task'[r] = task[r]
      BY <1>1, <1>3, <2>2 DEF OfUser
    <3>2. Shared(task[r], v)
      BY <1>3, <2>2, <3>1
    <3> QED BY <1>1, <2>2, <3>1, <3>2 DEF Shared
  <2>3. CASE r = t
    <3>1. v # Idle /\ v.user = u /\ OfUser(s, u) /\ task'[s] = task[s]
      BY <1>1, <1>3, <2>3 DEF OfUser
    <3> QED BY <1>1, <1>3, <2>3, <3>1
  <2> QED BY <2>1, <2>2, <2>3
<1>4. ASSUME unread'[u] # <<>>, ~Resets(u)'
      PROVE  unread'[u][1] + Cardinality(TasksAt(u, Unbumped))'
               = Number(u)' + Cardinality(TasksAt(u, Taking))'
  <2>1. ~Resets(u)
    BY <1>1, <1>4 DEF Resets, OfUser
  <2>2. unread[u] # <<>>
        /\ unread[u][1] + Cardinality(TasksAt(u, Unbumped)) = Number(u) + Cardinality(TasksAt(u, Taking))
    BY <1>4, <2>1 DEF Badge
  <2>3. unread[u][1] \in Int /\ unread'[u][1] \in Int
    <3>1. unread[u] \in Seq(Int) /\ unread'[u] \in Seq(Int)
      BY DEF TypeOK
    <3> QED BY <1>4, <2>2, <3>1
  <2>4. /\ Cardinality(TasksAt(u, Unbumped)) \in Nat /\ Cardinality(TasksAt(u, Taking)) \in Nat
        /\ Number(u) \in Nat
    BY TasksCounted, RowsCounted
  <2>5. Number(u)' \in Nat
    BY RowsCountedNext
  <2>6. /\ One(v, u, Taking) \in Nat /\ One(task[t], u, Taking) \in Nat
        /\ One(v, u, Unbumped) \in Nat /\ One(task[t], u, Unbumped) \in Nat
    BY DEF One
  <2>7. /\ Cardinality(TasksAt(u, Unbumped))'
             = Cardinality(TasksAt(u, Unbumped)) - One(task[t], u, Unbumped) + One(v, u, Unbumped)
        /\ Cardinality(TasksAt(u, Taking))'
             = Cardinality(TasksAt(u, Taking)) - One(task[t], u, Taking) + One(v, u, Taking)
    BY TasksCount
  <2>8. unread'[u][1] - unread[u][1]
          = (Number(u)' - Number(u)) + (One(v, u, Taking) - One(task[t], u, Taking))
            - (One(v, u, Unbumped) - One(task[t], u, Unbumped))
    BY <1>4
  <2> DEFINE k == unread[u][1]
             l == unread'[u][1]
             m == Number(u)
             n == Number(u)'
             a == One(task[t], u, Taking)
             b == One(v, u, Taking)
             c == One(task[t], u, Unbumped)
             d == One(v, u, Unbumped)
             p == Cardinality(TasksAt(u, Unbumped))
             q == Cardinality(TasksAt(u, Taking))
             r == Cardinality(TasksAt(u, Unbumped))'
             s == Cardinality(TasksAt(u, Taking))'
  <2>9. /\ k \in Int /\ l \in Int /\ m \in Int /\ n \in Int /\ a \in Int /\ b \in Int
        /\ c \in Int /\ d \in Int /\ p \in Int /\ q \in Int
        /\ k + p = m + q /\ r = p - c + d /\ s = q - a + b
        /\ l - k = (n - m) + (b - a) - (d - c)
    BY <2>2, <2>3, <2>4, <2>5, <2>6, <2>7, <2>8
  <2> HIDE DEF k, l, m, n, a, b, c, d, p, q, r, s
  <2>10. l + r = n + s
    BY <2>9
  <2> QED BY <2>10 DEF l, n, r, s
<1> QED BY <1>2, <1>3, <1>4 DEF Badge

\* Where a row of a step comes from.
Succeeds(i) == \/ rows'[i] = Gone
               \/ rows[i] # Gone /\ rows'[i].user = rows[i].user
               \/ i = made + 1 /\ made' = made + 1

LEMMA RowsSucceed ==
  ASSUME TypeOK, Ground, made' \in {made, made + 1}, \A i \in Ids : Succeeds(i)
  PROVE  /\ \A i \in Ids : i > made' => rows'[i] = Gone
         /\ \A c : Deletes(c, made, rows) => Deletes(c, made', rows')
<1>2. made \in Nat /\ 1..made \subseteq Ids
  BY RowsAssumption DEF TypeOK, Ids
<1>3. ASSUME NEW i \in Ids, i > made' PROVE rows'[i] = Gone
  <2>1. i > made /\ (i # made + 1 \/ made' = made)
    BY <1>2, <1>3 DEF Ids
  <2>2. rows[i] = Gone
    BY <1>2, <2>1 DEF Ground
  <2>3. Succeeds(i)
    OBVIOUS
  <2> QED BY <1>2, <1>3, <2>1, <2>2, <2>3 DEF Succeeds, Ids
<1>4. ASSUME NEW c, Deletes(c, made, rows) PROVE Deletes(c, made', rows')
  <2>1. SUFFICES ASSUME c.at = "delete" PROVE Deletes(c, made', rows')
    BY DEF Deletes
  <2>2. c.row \in 1..made /\ (rows[c.row] = Gone \/ rows[c.row].user = c.user)
    BY <1>4, <2>1 DEF Deletes
  <2>3. c.row \in Ids /\ c.row # made + 1 /\ c.row \in 1..made'
    BY <1>2, <2>2
  <2>4. rows'[c.row] = Gone \/ (rows[c.row] # Gone /\ rows'[c.row].user = rows[c.row].user)
    BY <2>3 DEF Succeeds
  <2> QED BY <2>2, <2>3, <2>4 DEF Deletes
<1> QED BY <1>3, <1>4

\* Ids are given in order, and rows deleted by their users, if a new deletion is of one's own.
LEMMA GroundKept ==
  ASSUME TypeOK, TypeOK', Ground, NEW t \in Tasks, NEW v, Turns(t, v), made' \in {made, made + 1},
         \A i \in Ids : Succeeds(i), v # Idle => Deletes(v, made, rows)
  PROVE  Ground'
<1>1. task'[t] = v /\ \A s \in Tasks \ {t} : task'[s] = task[s]
  BY DEF TypeOK, Turns
<1>2. \A i \in Ids : i > made' => rows'[i] = Gone
  BY RowsSucceed
<1>3. ASSUME NEW s \in Tasks, task'[s] # Idle PROVE Deletes(task'[s], made', rows')
  <2>1. Deletes(task'[s], made, rows)
    BY <1>1, <1>3 DEF Ground
  <2> QED BY <2>1, RowsSucceed
<1> QED BY <1>2, <1>3 DEF Ground

\* A step of a task of x.
LEMMA TaskSteps ==
  ASSUME IInv, IInv', BadgeInv, NEW t \in Tasks, NEW v, NEW x \in Users, Turns(t, v),
         task[t] # Idle => task[t].user = x, v # Idle => v.user = x,
         v # Idle => Deletes(v, made, rows),
         Private(x), \A i \in Ids : Succeeds(i), made' \in {made, made + 1},
         \A u \in Users \ {x} : unread'[u] = unread[u],
         exact' \subseteq exact \cup {x}, x \in exact' => Badge(x)'
  PROVE  BadgeInv'
<1>1. Few'
  BY StaysFew DEF IInv, BadgeInv
<1>2. Ground'
  BY GroundKept DEF IInv, BadgeInv
<1>3. \A u \in exact' : Badge(u)'
  BY OthersBadges DEF IInv, BadgeInv
<1> QED BY <1>1, <1>2, <1>3 DEF BadgeInv

\* One that leaves the rows alone.
LEMMA RowsAlone ==
  ASSUME UNCHANGED rows
  PROVE  (\A x : Private(x)) /\ (\A u : SameFor(u)) /\ (\A i \in Ids : Succeeds(i))
  BY DEF Private, SameFor, SameFace, Succeeds

LEMMA QuietTask ==
  ASSUME IInv, IInv', BadgeInv, NEW t \in Tasks, NEW v, NEW x \in Users, Turns(t, v),
         task[t] # Idle => task[t].user = x, v # Idle => v.user = x,
         v # Idle => Deletes(v, made, rows),
         UNCHANGED <<made, rows>>, \A u \in Users \ {x} : unread'[u] = unread[u],
         exact' \subseteq exact \cup {x}, x \in exact' => Badge(x)'
  PROVE  BadgeInv'
<1>1. Private(x) /\ \A i \in Ids : Succeeds(i)
  BY RowsAlone
<1> QED BY <1>1, TaskSteps

-------------------------------------------------------------------------------
(* The counter.                                                              *)

\* A task of u goes on to a step that counts like the one it leaves, or ends.
Alike(c, d) == \/ c.at \in Adding /\ d.at \in Adding
               \/ c.at \in Taking /\ d.at \in Taking

\* What may be in progress with a task of u.
LEMMA Peers ==
  ASSUME NEW u, Badge(u), NEW t \in Tasks, OfUser(t, u), NEW s \in Tasks \ {t}, OfUser(s, u)
  PROVE  /\ task[t].at \in Adding => task[s].at \in Adding \cup {"broadcast"}
         /\ task[t].at \in Taking => task[s].at \in Taking \cup {"broadcast"}
         /\ task[t].at \in {"fill", "zero", "delete"} => task[s].at = "broadcast"
  BY DEF Badge, Shared, Adding, Taking

LEMMA CounterStays ==
  ASSUME TypeOK, TypeOK', Few, Ground, NEW u \in Users, Badge(u), NEW t \in Tasks, OfUser(t, u),
         NEW v, Turns(t, v), SameFor(u), UNCHANGED unread, task[t].at # "zero",
         v # Idle => Alike(task[t], v) /\ (v.at \in {"incr", "decr"} => unread[u] # <<>>),
         unread[u] # <<>> => /\ One(v, u, Taking) = One(task[t], u, Taking)
                             /\ One(v, u, Unbumped) = One(task[t], u, Unbumped)
  PROVE  Badge(u)'
<1>1. Number(u)' = Number(u) /\ Number(u) \in Nat
  BY SameNumber, RowsCounted
<1>2. ASSUME NEW s \in Tasks \ {t}, OfUser(s, u)
      PROVE  Informed(task[s], Number(u)', unread'[u], rows')
  <2>1. Informed(task[s], Number(u), unread[u], rows)
    BY <1>2 DEF Badge
  <2> QED BY <1>2, <2>1, StaysInformed
<1>3. ASSUME v # Idle PROVE Informed(v, Number(u)', unread'[u], rows')
  BY <1>3 DEF Alike, Informed, Adding, Taking
<1>4. ASSUME NEW s \in Tasks \ {t}, OfUser(s, u), v # Idle PROVE Shared(task[s], v)
  BY <1>4, Peers DEF Alike, Shared
<1>5. ASSUME unread[u] # <<>>
      PROVE  unread'[u][1] - unread[u][1]
                = (Number(u)' - Number(u)) + (One(v, u, Taking) - One(task[t], u, Taking))
                  - (One(v, u, Unbumped) - One(task[t], u, Unbumped))
  <2>1. unread[u][1] \in Int
    <3>1. unread[u] \in Seq(Int)
      BY DEF TypeOK
    <3> QED BY <1>5, <3>1
  <2>2. One(v, u, Taking) \in Nat /\ One(v, u, Unbumped) \in Nat
    BY DEF One
  <2> QED BY <1>1, <1>5, <2>1, <2>2
<1> QED BY <1>2, <1>3, <1>4, <1>5, Balances

\* The counter is filled or reset.
LEMMA CounterIsSet ==
  ASSUME TypeOK, TypeOK', Few, NEW u \in Users, Badge(u), NEW t \in Tasks, OfUser(t, u),
         Turns(t, Idle), UNCHANGED rows, task[t].at \in {"fill", "zero"},
         unread'[u] = <<Number(u)>>
  PROVE  Badge(u)'
<1>1. Number(u)' = Number(u) /\ Number(u) \in Nat
  BY RowsAlone, SameNumber, RowsCounted
<1>2. \A s \in Tasks : OfUser(s, u)' => s # t /\ OfUser(s, u) /\ task'[s] = task[s]
  BY DEF TypeOK, Turns, OfUser
<1>3. \A s \in Tasks : OfUser(s, u)' => task'[s].at = "broadcast"
  BY <1>2, Peers
<1>4. TasksAt(u, Unbumped)' = {} /\ TasksAt(u, Taking)' = {}
  BY <1>3 DEF TasksAt, Unbumped, Taking
<1>5. unread'[u][1] + Cardinality(TasksAt(u, Unbumped))'
        = Number(u)' + Cardinality(TasksAt(u, Taking))'
  <2>1. Cardinality(TasksAt(u, Unbumped))' = 0 /\ Cardinality(TasksAt(u, Taking))' = 0
    BY <1>4, FS_EmptySet
  <2>2. unread'[u][1] = Number(u)
    OBVIOUS
  <2> QED BY <1>1, <2>1, <2>2
<1> QED BY <1>3, <1>5 DEF Badge, Shared, Informed

\* A task that takes from the counter of u finds it above zero.
LEMMA TakesFromSome ==
  ASSUME TypeOK, Few, NEW u \in Users, Badge(u), NEW t \in Tasks, OfUser(t, u),
         task[t].at \in Taking, unread[u] # <<>>
  PROVE  unread[u][1] > 0
<1>1. \A s \in Tasks : OfUser(s, u) => task[s].at \in Taking \cup {"broadcast"}
  BY Peers
<1>2. ~Resets(u) /\ TasksAt(u, Unbumped) = {}
  BY <1>1 DEF Resets, TasksAt, Unbumped, Taking
<1>3. Cardinality(TasksAt(u, Unbumped)) = 0
  BY <1>2, FS_EmptySet
<1>4. Cardinality(TasksAt(u, Taking)) > 0
  <2>1. TasksAt(u, Taking) # {}
    BY DEF TasksAt
  <2>2. Cardinality(TasksAt(u, Taking)) # 0 /\ Cardinality(TasksAt(u, Taking)) \in Nat
    BY <2>1, TasksCounted, FS_EmptySet
  <2> QED BY <2>2
<1>5. unread[u][1] \in Int /\ Number(u) \in Nat /\ Cardinality(TasksAt(u, Taking)) \in Nat
  <2>1. unread[u] \in Seq(Int)
    BY DEF TypeOK
  <2> QED BY <2>1, RowsCounted, TasksCounted
<1>6. unread[u][1] + Cardinality(TasksAt(u, Unbumped)) = Number(u) + Cardinality(TasksAt(u, Taking))
  BY <1>2 DEF Badge
<1> QED BY <1>3, <1>4, <1>5, <1>6

-------------------------------------------------------------------------------
(* A task that goes on, or ends, and makes no difference.                     *)

\* A task of a user goes on like before, or ends where that makes no difference.
LEMMA Carries ==
  ASSUME IInv, IInv', BadgeInv, NEW t \in Tasks, task[t].at \in Steps, NEW v, Turns(t, v),
         v # Idle => /\ v.user = task[t].user /\ Alike(task[t], v)
                     /\ v.at \in {"incr", "decr"} => unread[task[t].user] # <<>>,
         \A i \in Ids : SameFace(i), UNCHANGED <<made, unread>>, exact' \subseteq exact,
         task[t].user \in exact' =>
           /\ task[t].at # "zero"
           /\ unread[task[t].user] # <<>> =>
                /\ One(v, task[t].user, Taking) = One(task[t], task[t].user, Taking)
                /\ One(v, task[t].user, Unbumped) = One(task[t], task[t].user, Unbumped)
  PROVE  BadgeInv'
<1>1. task[t].user \in Users /\ task[t] # Idle
  BY Knows
<1>2. SUFFICES ASSUME NEW u \in Users, u = task[t].user PROVE BadgeInv'
  BY <1>1
<1>3. Private(u) /\ SameFor(u) /\ \A i \in Ids : Succeeds(i)
  BY DEF Private, SameFor, SameFace, Succeeds
<1>4. ASSUME u \in exact' PROVE Badge(u)'
  <2>1. Badge(u) /\ OfUser(t, u) /\ TypeOK /\ TypeOK' /\ Few /\ Ground
    BY <1>1, <1>2, <1>4 DEF BadgeInv, IInv, OfUser
  <2> QED BY <1>2, <1>3, <1>4, <2>1, CounterStays
<1>5. v # Idle => Deletes(v, made, rows)
  BY DEF Alike, Deletes, Adding, Taking
<1>6. v # Idle => v.user = u
  BY <1>2
<1>7. made' \in {made, made + 1} /\ exact' \subseteq exact \cup {u}
  OBVIOUS
<1> QED BY <1>1, <1>2, <1>3, <1>4, <1>5, <1>6, <1>7, TaskSteps

\* How a task that goes on counts.
LEMMA OneGoes ==
  ASSUME IInv, NEW t \in Tasks, task[t].at \in Steps, NEW x \in Steps, Goes(t, x), NEW S
  PROVE  LET v == [task[t] EXCEPT !.at = x] IN
         /\ Turns(t, v) /\ v # Idle /\ v.at = x /\ v.user = task[t].user
         /\ One(v, task[t].user, S) = IF x \in S THEN 1 ELSE 0
         /\ One(task[t], task[t].user, S) = IF task[t].at \in S THEN 1 ELSE 0
<1> DEFINE v == [task[t] EXCEPT !.at = x]
<1>1. task[t] # Idle /\ task[t] \in Busy
  BY Knows
<1>2. Turns(t, v) /\ v # Idle /\ v.at = x /\ v.user = task[t].user
  BY <1>1, TaskMoves DEF IInv
<1> HIDE DEF v
<1>3. One(v, task[t].user, S) = IF x \in S THEN 1 ELSE 0
  BY <1>2 DEF One, At
<1>4. One(task[t], task[t].user, S) = IF task[t].at \in S THEN 1 ELSE 0
  BY <1>1 DEF One, At
<1> QED BY <1>2, <1>3, <1>4 DEF v

\* And one that ends.
LEMMA OneEnds == ASSUME NEW u, NEW S PROVE One(Idle, u, S) = 0
  BY DEF One, At

\* A task goes on to a step like the one it leaves.
LEMMA CarriesOn ==
  ASSUME IInv, IInv', BadgeInv, NEW t \in Tasks, task[t].at \in Steps, NEW x \in Steps, Goes(t, x),
         \/ task[t].at \in Adding /\ x \in Adding
         \/ task[t].at \in Taking /\ x \in Taking,
         x \in {"incr", "decr"} => unread[task[t].user] # <<>>,
         \A i \in Ids : SameFace(i), UNCHANGED <<made, unread>>, exact' \subseteq exact,
         task[t].user \in exact' /\ unread[task[t].user] # <<>> =>
           (task[t].at \in Unbumped <=> x \in Unbumped)
  PROVE  BadgeInv'
<1> DEFINE u == task[t].user
           v == [task[t] EXCEPT !.at = x]
<1>1. Turns(t, v) /\ v # Idle /\ v.at = x /\ v.user = u
  BY OneGoes
<1>2. /\ One(v, u, Taking) = (IF x \in Taking THEN 1 ELSE 0)
      /\ One(task[t], u, Taking) = (IF task[t].at \in Taking THEN 1 ELSE 0)
      /\ One(v, u, Unbumped) = (IF x \in Unbumped THEN 1 ELSE 0)
      /\ One(task[t], u, Unbumped) = (IF task[t].at \in Unbumped THEN 1 ELSE 0)
  BY OneGoes
<1> HIDE DEF v
<1>3. Alike(task[t], v) /\ task[t].at # "zero"
  BY <1>1 DEF Alike, Adding, Taking
<1>4. One(v, u, Taking) = One(task[t], u, Taking)
  BY <1>2 DEF Adding, Taking
<1>5. u \in exact' /\ unread[u] # <<>> => One(v, u, Unbumped) = One(task[t], u, Unbumped)
  BY <1>2
<1> QED BY <1>1, <1>3, <1>4, <1>5, Carries

\* A task that ends where it was to count nothing, or where the counter is disturbed.
LEMMA CarriesOut ==
  ASSUME IInv, IInv', BadgeInv, NEW t \in Tasks, task[t].at \in Steps, Turns(t, Idle),
         \A i \in Ids : SameFace(i), UNCHANGED <<made, unread>>, exact' \subseteq exact,
         task[t].user \in exact' =>
           /\ task[t].at # "zero"
           /\ unread[task[t].user] = <<>> \/ task[t].at \notin Taking \cup Unbumped
  PROVE  BadgeInv'
<1> DEFINE u == task[t].user
<1>1. ASSUME u \in exact', unread[u] # <<>>
      PROVE  /\ One(Idle, u, Taking) = One(task[t], u, Taking)
             /\ One(Idle, u, Unbumped) = One(task[t], u, Unbumped)
  BY <1>1 DEF One, At
<1> QED BY <1>1, Carries

LEMMA RowsSameFace == ASSUME UNCHANGED rows PROVE \A i \in Ids : SameFace(i)
  BY DEF SameFace

\* A status is not read by the counter.
LEMMA StatusSameFace ==
  ASSUME TypeOK, NEW i \in Ids, NEW status, UpdateStatus(i, status)
  PROVE  \A j \in Ids : SameFace(j)
<1>1. ASSUME NEW j \in Ids PROVE SameFace(j)
  <2>1. rows \in [Ids -> Row \cup {Gone}] /\ rows[j] \in Row \cup {Gone}
    BY DEF TypeOK
  <2>2. CASE rows'[j] = rows[j]
    BY <2>2 DEF SameFace
  <2>3. CASE j = i /\ rows[i] # Gone /\ rows'[i] = [rows[i] EXCEPT !.status = status]
    <3>1. rows[j] \in Row
      BY <2>1, <2>3, RowInUse
    <3>2. rows'[j].user = rows[j].user /\ rows'[j].seen = rows[j].seen
          /\ DOMAIN rows'[j] = {"user", "status", "seen"}
      BY <2>3, <3>1 DEF Row
    <3>3. rows'[j] # Gone
      <4>1. DOMAIN Gone = {"status"}
        BY DEF Gone
      <4> QED BY <3>2, <4>1
    <3> QED BY <2>3, <3>2, <3>3 DEF SameFace
  <2> QED BY <2>1, <2>2, <2>3 DEF UpdateStatus
<1> QED BY <1>1

LEMMA EndsTurns == ASSUME NEW t \in Tasks, Ends(t) PROVE Turns(t, Idle)
  BY DEF Ends, Turns

LEMMA EndsWithTurns ==
  ASSUME NEW t \in Tasks, NEW place, EndsWith(t, place) PROVE Turns(t, Idle)
  BY DEF EndsWith, Ends, Turns

-------------------------------------------------------------------------------
(* The handlers.                                                             *)

LEMMA LookupBadge == ASSUME IInv, IInv', BadgeInv, NEW t \in Tasks, Lookup(t) PROVE BadgeInv'
<1>1. /\ task[t].at = "lookup" /\ Goes(t, "create")
      /\ UNCHANGED <<made, rows, unread, exact>>
  BY DEF Lookup
<1>2. task[t].at \in Steps /\ "create" \in Steps
  BY <1>1 DEF Steps
<1> QED BY <1>1, <1>2, RowsSameFace, CarriesOn DEF Adding, Unbumped

LEMMA LookupFailsBadge ==
  ASSUME IInv, IInv', BadgeInv, NEW t \in Tasks, LookupFails(t) PROVE BadgeInv'
<1>1. /\ task[t].at = "lookup" /\ Turns(t, Idle)
      /\ UNCHANGED <<made, rows, unread, exact>>
  BY EndsWithTurns DEF LookupFails, Returns
<1> QED BY <1>1, RowsSameFace, CarriesOut DEF Steps, Taking, Unbumped

LEMMA CreateRejectedBadge ==
  ASSUME IInv, IInv', BadgeInv, NEW t \in Tasks, CreateRejected(t) PROVE BadgeInv'
<1>1. /\ task[t].at \in {"create", "broadcast"} /\ Turns(t, Idle)
      /\ UNCHANGED <<made, rows, unread, exact>>
  BY EndsWithTurns DEF CreateRejected, Throws
<1> QED BY <1>1, RowsSameFace, CarriesOut DEF Steps, Taking, Unbumped

LEMMA SecondRejectedBadge ==
  ASSUME IInv, IInv', BadgeInv, NEW t \in Tasks, SecondRejected(t) PROVE BadgeInv'
<1>1. /\ task[t].at = "second" /\ Turns(t, Idle)
      /\ UNCHANGED <<made, rows, unread, exact>>
  BY EndsWithTurns DEF SecondRejected, Returns
<1> QED BY <1>1, RowsSameFace, CarriesOut DEF Steps, Taking, Unbumped

LEMMA DeleteRejectedBadge ==
  ASSUME IInv, IInv', BadgeInv, NEW t \in Tasks, DeleteRejected(t) PROVE BadgeInv'
<1>1. /\ task[t].at = "delete" /\ Turns(t, Idle)
      /\ UNCHANGED <<made, rows, unread, exact>>
  BY EndsTurns DEF DeleteRejected
<1> QED BY <1>1, RowsSameFace, CarriesOut DEF Steps, Taking, Unbumped

\* E-mail: nothing is counted yet.
LEMMA MailBadge ==
  ASSUME IInv, IInv', BadgeInv, NEW t \in Tasks,
         SendEmail(t) \/ SendEmailFails(t) \/ Sent(t) \/ SentRejected(t)
  PROVE  BadgeInv'
<1>1. task[t].at \in {"mail", "sent"} /\ UNCHANGED <<made, unread, exact>>
  BY DEF SendEmail, SendEmailFails, Sent, SentRejected
<1>2. PICK x \in {"sent", "failed", "bump"} : Goes(t, x)
  BY DEF SendEmail, SendEmailFails, Sent, SentRejected
<1>3. \A i \in Ids : SameFace(i)
  <2>1. CASE UNCHANGED rows
    BY <2>1, RowsSameFace
  <2>2. CASE Sent(t)
    <3>1. task[t].at = "sent" /\ UpdateStatus(task[t].row, "sent")
      BY <2>2 DEF Sent
    <3>2. task[t].row \in Ids
      BY <3>1, Knows DEF Steps, Posted, Mailing
    <3> QED BY <3>1, <3>2, StatusSameFace DEF IInv
  <2> QED BY <2>1, <2>2 DEF SendEmail, SendEmailFails, SentRejected
<1>4. task[t].at \in Steps /\ x \in Steps
  BY <1>1 DEF Steps
<1> QED BY <1>1, <1>2, <1>3, <1>4, CarriesOn DEF Adding, Unbumped

\* A handler that throws disturbs its user's counter.
LEMMA FailedBadge ==
  ASSUME IInv, IInv', BadgeInv, NEW t \in Tasks, Failed(t) \/ FailedRejected(t)
  PROVE  BadgeInv'
<1>1. /\ task[t].at = "failed" /\ UNCHANGED <<made, unread>> /\ Turns(t, Idle)
      /\ exact' = exact \ {task[t].user}
  BY EndsWithTurns DEF Failed, FailedRejected, Throws, Disturbs
<1>2. \A i \in Ids : SameFace(i)
  <2>1. CASE UNCHANGED rows
    BY <2>1, RowsSameFace
  <2>2. CASE UpdateStatus(task[t].row, "failed")
    <3>1. task[t].row \in Ids
      BY <1>1, Knows DEF Steps, Posted, Mailing
    <3> QED BY <2>2, <3>1, StatusSameFace DEF IInv
  <2> QED BY <2>1, <2>2 DEF Failed, FailedRejected
<1> QED BY <1>1, <1>2, CarriesOut DEF Steps

\* What follows the count: the in-app row of "both", or the end.
LEMMA AfterBumpTurns ==
  ASSUME IInv, NEW t \in Tasks, task[t].at \in Steps, AfterBump(t)
  PROVE  \E v : /\ Turns(t, v)
                /\ v # Idle => v.at = "second" /\ v.user = task[t].user
<1>1. CASE Goes(t, "second")
  <2> DEFINE v == [task[t] EXCEPT !.at = "second"]
  <2>1. Turns(t, v) /\ v.at = "second" /\ v.user = task[t].user
    BY <1>1, Knows, TaskMoves DEF IInv, Steps
  <2> HIDE DEF v
  <2> QED BY <2>1
<1>2. CASE Turns(t, Idle)
  BY <1>2
<1> QED BY <1>1, <1>2, EndsWithTurns DEF AfterBump, Returns

LEMMA BumpBadge == ASSUME IInv, IInv', BadgeInv, NEW t \in Tasks, Bump(t) PROVE BadgeInv'
<1>1. task[t].at = "bump" /\ UNCHANGED <<made, rows, unread, exact>>
  BY DEF Bump
<1>2. task[t].at \in Steps /\ "incr" \in Steps
  BY <1>1 DEF Steps
<1>3. CASE unread[task[t].user] # <<>>
  <2>1. Goes(t, "incr")
    BY <1>3 DEF Bump
  <2> QED BY <1>1, <1>2, <1>3, <2>1, RowsSameFace, CarriesOn DEF Adding, Unbumped
<1>4. CASE unread[task[t].user] = <<>>
  <2>1. PICK v : Turns(t, v) /\ (v # Idle => v.at = "second" /\ v.user = task[t].user)
    BY <1>2, <1>4, AfterBumpTurns DEF Bump
  <2> QED BY <1>1, <1>2, <1>4, <2>1, RowsSameFace, Carries DEF Alike, Adding
<1> QED BY <1>3, <1>4

\* A Redis operation that is lost disturbs its user's counter.
LEMMA LosesBadge == ASSUME IInv, IInv', BadgeInv, NEW t \in Tasks, Loses(t) PROVE BadgeInv'
<1>1. exact' = exact \ {task[t].user} /\ UNCHANGED <<made, rows, unread>>
  BY DEF Loses, Disturbs
<1>2. CASE task[t].at \in {"bump", "incr"} /\ AfterBump(t)
  <2>1. PICK v : Turns(t, v) /\ (v # Idle => v.at = "second" /\ v.user = task[t].user)
    BY <1>2, AfterBumpTurns DEF Steps
  <2>2. v # Idle => Alike(task[t], v) /\ v.at \notin {"incr", "decr"}
    BY <1>2, <2>1 DEF Alike, Adding
  <2>3. task[t].at \in Steps
    BY <1>2 DEF Steps
  <2> QED BY <1>1, <2>1, <2>2, <2>3, RowsSameFace, Carries
<1>3. CASE task[t].at \in {"fill", "dec", "get", "decr", "zero"} /\ Ends(t)
  BY <1>1, <1>3, EndsTurns, RowsSameFace, CarriesOut DEF Steps
<1> QED BY <1>2, <1>3 DEF Loses

\* A row of u is inserted: it is unread, and its handler has still to count it.
LEMMA InsertsBadge ==
  ASSUME IInv, IInv', BadgeInv, NEW t \in Tasks, task[t].at \in {"create", "second"},
         NEW status, Inserts(task[t].user, status), NEW v, Turns(t, v),
         v.at \in {"mail", "bump"}, v.user = task[t].user, UNCHANGED <<unread, exact>>
  PROVE  BadgeInv'
<1>1. task[t].user \in Users /\ task[t] # Idle
  BY Knows DEF Steps
<1>2. SUFFICES ASSUME NEW u \in Users, u = task[t].user PROVE BadgeInv'
  BY <1>1
<1> DEFINE i == made + 1
           r == [user |-> u, status |-> status, seen |-> "unread"]
<1>3. made \in Nat /\ i \in Ids /\ made' = made + 1 /\ rows' = [rows EXCEPT ![i] = r]
      /\ rows \in [Ids -> Row \cup {Gone}]
  BY <1>2, RowsAssumption DEF IInv, TypeOK, Inserts, Ids
<1>4. r.user = u /\ r.seen = "unread" /\ r # Gone
  <2>1. DOMAIN r = {"user", "status", "seen"} /\ DOMAIN Gone = {"status"}
    BY DEF Gone
  <2>2. r # Gone
    <3> HIDE DEF r
    <3> QED BY <2>1
  <2> QED BY <2>2
<1>5. rows[i] = Gone
  BY <1>3 DEF BadgeInv, Ground
<1> HIDE DEF r
<1>6. rows'[i] = r /\ \A j \in Ids \ {i} : rows'[j] = rows[j]
  BY <1>3
<1> HIDE DEF i
<1>7. Private(u)
  BY <1>4, <1>5, <1>6 DEF Private, SameFace
<1>8. \A j \in Ids : Succeeds(j)
  BY <1>3, <1>6 DEF Succeeds, i
<1>9. UnreadRows(u)' = UnreadRows(u) \cup {i} /\ i \notin UnreadRows(u)
  <2>1. \A j \in Ids \ {i} : j \in UnreadRows(u)' <=> j \in UnreadRows(u)
    BY <1>6 DEF UnreadRows
  <2>2. i \in UnreadRows(u)' /\ i \notin UnreadRows(u)
    BY <1>3, <1>4, <1>5, <1>6 DEF UnreadRows
  <2>3. UnreadRows(u)' \subseteq Ids /\ UnreadRows(u) \subseteq Ids
    BY DEF UnreadRows
  <2> QED BY <2>1, <2>2, <2>3
<1>10. Number(u)' = Number(u) + 1 /\ Number(u) \in Nat
  BY <1>9, RowComes, RowsCounted
<1>11. ASSUME u \in exact PROVE Badge(u)'
  <2>1. Badge(u) /\ OfUser(t, u) /\ TypeOK /\ TypeOK' /\ Few
    BY <1>1, <1>2, <1>11 DEF BadgeInv, IInv, OfUser
  <2>2. \A s \in Tasks \ {t} : OfUser(s, u) => task[s].at \in Adding \cup {"broadcast"}
    BY <2>1, Peers DEF Adding
  <2>3. ASSUME NEW s \in Tasks \ {t}, OfUser(s, u)
        PROVE  Informed(task[s], Number(u)', unread'[u], rows') /\ Shared(task[s], v)
    <3>1. Informed(task[s], Number(u), unread[u], rows)
      BY <2>1, <2>3 DEF Badge
    <3> QED BY <2>2, <2>3, <3>1 DEF Informed, Shared, Adding
  <2>4. Informed(v, Number(u)', unread'[u], rows')
    BY DEF Informed
  <2>5. v # Idle
    BY DEF Idle
  <2>6. /\ One(v, u, Taking) = 0 /\ One(task[t], u, Taking) = 0
        /\ One(v, u, Unbumped) = 1 /\ One(task[t], u, Unbumped) = 0
    BY <1>1, <1>2, <2>5 DEF One, At, Taking, Unbumped
  <2>7. unread[u] # <<>> => unread[u][1] \in Int
    <3>1. unread[u] \in Seq(Int)
      BY <2>1 DEF TypeOK
    <3> QED BY <3>1
  <2>8. unread'[u] # <<>> =>
          unread'[u][1] - unread[u][1]
            = (Number(u)' - Number(u)) + (One(v, u, Taking) - One(task[t], u, Taking))
              - (One(v, u, Unbumped) - One(task[t], u, Unbumped))
    BY <1>10, <2>6, <2>7
  <2> QED BY <2>1, <2>3, <2>4, <2>8, Balances
<1>12. v # Idle => Deletes(v, made, rows)
  BY DEF Deletes
<1>13. made' \in {made, made + 1} /\ exact' \subseteq exact \cup {u} /\ (v # Idle => v.user = u)
  BY <1>2, <1>3
<1>14. task[t] # Idle => task[t].user = u
  BY <1>2
<1> QED BY <1>7, <1>8, <1>11, <1>12, <1>13, <1>14, TaskSteps

LEMMA CreateBadge == ASSUME IInv, IInv', BadgeInv, NEW t \in Tasks, Create(t) PROVE BadgeInv'
<1> DEFINE inApp == task[t].channel = "in_app"
           x == IF inApp THEN "bump" ELSE "mail"
           v == [task[t] EXCEPT !.at = x, !.row = made + 1]
<1>1. /\ task[t].at = "create" /\ Inserts(task[t].user, IF inApp THEN "delivered" ELSE "pending")
      /\ task' = [task EXCEPT ![t].at = x, ![t].row = made + 1]
      /\ UNCHANGED <<unread, exact>>
  BY DEF Create
<1>2. task[t] \in Busy /\ made + 1 \in 0..MaxRows
  BY <1>1, Knows, RowsAssumption DEF Steps, Inserts
<1>3. v \in Busy /\ v.at = x /\ v.user = task[t].user
  BY <1>2 DEF Busy, Steps
<1>4. Turns(t, v)
  BY <1>1, <1>3 DEF Turns
<1>5. v.at \in {"mail", "bump"}
  BY <1>3
<1> HIDE DEF v, x
<1> QED BY <1>1, <1>3, <1>4, <1>5, InsertsBadge

LEMMA SecondBadge == ASSUME IInv, IInv', BadgeInv, NEW t \in Tasks, Second(t) PROVE BadgeInv'
<1> DEFINE v == [task[t] EXCEPT !.at = "bump", !.channel = "in_app", !.row = made + 1]
<1>1. /\ task[t].at = "second" /\ Inserts(task[t].user, "delivered")
      /\ task' = [task EXCEPT ![t].at = "bump", ![t].channel = "in_app", ![t].row = made + 1]
      /\ UNCHANGED <<unread, exact>>
  BY DEF Second
<1>2. task[t] \in Busy /\ made + 1 \in 0..MaxRows
  BY <1>1, Knows, RowsAssumption DEF Steps, Inserts
<1>3. v \in Busy /\ v.at = "bump" /\ v.user = task[t].user
  BY <1>2 DEF Busy, Steps, Channels
<1>4. Turns(t, v)
  BY <1>1, <1>3 DEF Turns
<1> HIDE DEF v
<1> QED BY <1>1, <1>3, <1>4, InsertsBadge

\* A broadcast disturbs every counter.
LEMMA CreateBroadcastBadge ==
  ASSUME IInv, IInv', BadgeInv, NEW t \in Tasks, CreateBroadcast(t) PROVE BadgeInv'
<1>1. /\ task[t].at = "broadcast" /\ Inserts(Everyone, "sent") /\ Turns(t, Idle)
      /\ exact' = exact \ Users
  BY EndsWithTurns DEF CreateBroadcast, Returns, Disturbs
<1>2. exact' = {}
  BY <1>1 DEF IInv, TypeOK
<1>3. made' = made + 1 /\ \A i \in Ids : Succeeds(i)
  BY <1>1 DEF IInv, TypeOK, Inserts, Succeeds
<1>4. Ground'
  BY <1>1, <1>3, GroundKept DEF IInv, BadgeInv
<1>5. Few'
  BY <1>1, StaysFew DEF IInv, BadgeInv
<1> QED BY <1>2, <1>4, <1>5 DEF BadgeInv

-------------------------------------------------------------------------------
(* INCR and DECR.                                                            *)

\* A task adds k to the counter: it had still to add it, or to take it.
LEMMA AddsBadge ==
  ASSUME IInv, IInv', BadgeInv, NEW t \in Tasks, NEW k \in Int, Add(task[t].user, k),
         \/ task[t].at = "incr" /\ k = 1
         \/ task[t].at = "decr" /\ k = -1,
         NEW v, Turns(t, v),
         v # Idle => v.at = "second" /\ v.user = task[t].user /\ task[t].at = "incr",
         UNCHANGED <<made, rows, exact>>
  PROVE  BadgeInv'
<1>1. task[t].user \in Users /\ task[t] # Idle
  BY Knows DEF Steps
<1>2. SUFFICES ASSUME NEW u \in Users, u = task[t].user PROVE BadgeInv'
  BY <1>1
<1>3. unread' = [unread EXCEPT ![u] = IF unread[u] = <<>> THEN <<k>> ELSE <<unread[u][1] + k>>]
      /\ unread \in [Users -> Seq(Int)]
  BY <1>2 DEF Add, IInv, TypeOK
<1>4. \A w \in Users \ {u} : unread'[w] = unread[w]
  BY <1>3
<1>5. ASSUME u \in exact PROVE Badge(u)'
  <2>1. Badge(u) /\ OfUser(t, u) /\ TypeOK /\ TypeOK' /\ Few /\ Ground
    BY <1>1, <1>2, <1>5 DEF BadgeInv, IInv, OfUser
  <2>2. unread[u] # <<>>
    BY <2>1 DEF Badge, Informed
  <2>3. unread[u][1] \in Int
    BY <1>3, <2>2
  <2>4. unread'[u] = <<unread[u][1] + k>>
    BY <1>3, <2>2
  <2>5. unread'[u] # <<>> /\ unread'[u][1] = unread[u][1] + k
    BY <2>4
  <2>6. Number(u)' = Number(u) /\ Number(u) \in Nat
    BY RowsAlone, SameNumber, RowsCounted
  <2>7. ASSUME NEW s \in Tasks \ {t}, OfUser(s, u)
        PROVE  /\ Informed(task[s], Number(u)', unread'[u], rows')
               /\ v # Idle => Shared(task[s], v)
    <3>1. Informed(task[s], Number(u), unread[u], rows)
      BY <2>1, <2>7 DEF Badge
    <3>2. v # Idle => Shared(task[s], v)
      BY <2>1, <2>7, Peers DEF Shared, Adding
    <3> QED BY <2>5, <2>6, <3>1, <3>2 DEF Informed
  <2>8. v # Idle => Informed(v, Number(u)', unread'[u], rows')
    BY DEF Informed
  <2>9. /\ One(v, u, Taking) = 0 /\ One(v, u, Unbumped) = 0
        /\ k = One(task[t], u, Unbumped) - One(task[t], u, Taking)
        /\ One(task[t], u, Unbumped) \in Int /\ One(task[t], u, Taking) \in Int
    <3>1. One(v, u, Taking) = 0 /\ One(v, u, Unbumped) = 0
      BY DEF One, At, Taking, Unbumped
    <3>2. CASE task[t].at = "incr"
      BY <1>1, <1>2, <3>1, <3>2 DEF One, At, Taking, Unbumped
    <3>3. CASE task[t].at = "decr"
      BY <1>1, <1>2, <3>1, <3>3 DEF One, At, Taking, Unbumped
    <3> QED BY <3>2, <3>3
  <2>10. unread'[u][1] - unread[u][1]
           = (Number(u)' - Number(u)) + (One(v, u, Taking) - One(task[t], u, Taking))
             - (One(v, u, Unbumped) - One(task[t], u, Unbumped))
    BY <2>3, <2>5, <2>6, <2>9
  <2>11. task[t].at # "zero"
    OBVIOUS
  <2> QED BY <2>1, <2>2, <2>7, <2>8, <2>10, <2>11, Balances
<1>6. v # Idle => Deletes(v, made, rows) /\ v.user = u
  BY <1>2 DEF Deletes
<1>7. exact' \subseteq exact \cup {u} /\ UNCHANGED <<made, rows>> /\ (task[t] # Idle => task[t].user = u)
  BY <1>2
<1> QED BY <1>4, <1>5, <1>6, <1>7, QuietTask

LEMMA IncrBadge == ASSUME IInv, IInv', BadgeInv, NEW t \in Tasks, Incr(t) PROVE BadgeInv'
<1>1. /\ task[t].at = "incr" /\ Add(task[t].user, 1) /\ AfterBump(t)
      /\ UNCHANGED <<made, rows, exact>>
  BY DEF Incr
<1>2. PICK v : Turns(t, v) /\ (v # Idle => v.at = "second" /\ v.user = task[t].user)
  BY <1>1, AfterBumpTurns DEF Steps
<1> QED BY <1>1, <1>2, AddsBadge

LEMMA DecrBadge == ASSUME IInv, IInv', BadgeInv, NEW t \in Tasks, Decr(t) PROVE BadgeInv'
<1>1. /\ task[t].at = "decr" /\ Add(task[t].user, -1) /\ Turns(t, Idle)
      /\ UNCHANGED <<made, rows, exact>>
  BY EndsTurns DEF Decr
<1>2. -1 \in Int
  OBVIOUS
<1> QED BY <1>1, <1>2, AddsBadge

-------------------------------------------------------------------------------
(* The other steps of a call.                                                *)

LEMMA DecBadge == ASSUME IInv, IInv', BadgeInv, NEW t \in Tasks, Dec(t) PROVE BadgeInv'
<1>1. task[t].at = "dec" /\ UNCHANGED <<made, rows, unread, exact>>
  BY DEF Dec
<1>2. task[t].at \in Steps /\ "get" \in Steps
  BY <1>1 DEF Steps
<1>3. CASE unread[task[t].user] # <<>>
  <2>1. Goes(t, "get")
    BY <1>3 DEF Dec
  <2> QED BY <1>1, <1>2, <2>1, RowsSameFace, CarriesOn DEF Taking, Unbumped
<1>4. CASE unread[task[t].user] = <<>>
  <2>1. Turns(t, Idle)
    BY <1>4, EndsTurns DEF Dec
  <2> QED BY <1>1, <1>2, <1>4, <2>1, RowsSameFace, CarriesOut
<1> QED BY <1>3, <1>4

\* GET finds the counter above zero, unless it lapsed or was disturbed.
LEMMA GetBadge == ASSUME IInv, IInv', BadgeInv, NEW t \in Tasks, Get(t) PROVE BadgeInv'
<1>1. task[t].at = "get" /\ UNCHANGED <<made, rows, unread, exact>>
  BY DEF Get
<1>2. task[t].at \in Steps /\ "decr" \in Steps
  BY <1>1 DEF Steps
<1> DEFINE c == unread[task[t].user]
<1>3. CASE c # <<>> /\ c[1] > 0
  <2>1. Goes(t, "decr")
    BY <1>3 DEF Get
  <2> QED BY <1>1, <1>2, <1>3, <2>1, RowsSameFace, CarriesOn DEF Taking, Unbumped
<1>4. CASE ~(c # <<>> /\ c[1] > 0)
  <2>1. Turns(t, Idle)
    BY <1>4, EndsTurns DEF Get
  <2>2. ASSUME task[t].user \in exact, c # <<>> PROVE FALSE
    <3>1. task[t].user \in Users /\ OfUser(t, task[t].user) /\ Badge(task[t].user)
      BY <1>2, <2>2, Knows DEF BadgeInv, OfUser
    <3> QED BY <1>1, <1>4, <2>2, <3>1, TakesFromSome DEF IInv, BadgeInv, Taking
  <2> QED BY <1>1, <1>2, <2>1, <2>2, RowsSameFace, CarriesOut
<1> QED BY <1>3, <1>4

\* SET of a counter: the number counted by a fill, or none after a reset.
LEMMA SetsBadge ==
  ASSUME IInv, IInv', BadgeInv, NEW t \in Tasks, NEW n, Turns(t, Idle),
         \/ task[t].at = "fill" /\ n = task[t].count
         \/ task[t].at = "zero" /\ n = 0,
         unread' = [unread EXCEPT ![task[t].user] = <<n>>], UNCHANGED <<made, rows, exact>>
  PROVE  BadgeInv'
<1>1. task[t].user \in Users /\ task[t] # Idle
  BY Knows DEF Steps
<1>2. SUFFICES ASSUME NEW u \in Users, u = task[t].user PROVE BadgeInv'
  BY <1>1
<1>3. unread' = [unread EXCEPT ![u] = <<n>>] /\ unread \in [Users -> Seq(Int)]
  BY <1>2 DEF IInv, TypeOK
<1>4. \A w \in Users \ {u} : unread'[w] = unread[w]
  BY <1>3
<1>5. ASSUME u \in exact PROVE Badge(u)'
  <2>1. Badge(u) /\ OfUser(t, u) /\ TypeOK /\ TypeOK' /\ Few
    BY <1>1, <1>2, <1>5 DEF BadgeInv, IInv, OfUser
  <2>2. n = Number(u)
    BY <2>1 DEF Badge, Informed
  <2>3. unread'[u] = <<Number(u)>>
    BY <1>3, <2>2
  <2> QED BY <2>1, <2>3, CounterIsSet
<1>6. exact' \subseteq exact \cup {u} /\ (task[t] # Idle => task[t].user = u)
  BY <1>2
<1> QED BY <1>4, <1>5, <1>6, QuietTask

LEMMA SetUnreadCountBadge ==
  ASSUME IInv, IInv', BadgeInv, NEW t \in Tasks, SetUnreadCount(t) PROVE BadgeInv'
<1>1. /\ task[t].at = "fill" /\ Turns(t, Idle) /\ UNCHANGED <<made, rows, exact>>
      /\ unread' = [unread EXCEPT ![task[t].user] = <<task[t].count>>]
  BY EndsTurns DEF SetUnreadCount
<1> QED BY <1>1, SetsBadge

LEMMA ResetUnreadCountBadge ==
  ASSUME IInv, IInv', BadgeInv, NEW t \in Tasks, ResetUnreadCount(t) PROVE BadgeInv'
<1>1. /\ task[t].at = "zero" /\ Turns(t, Idle) /\ UNCHANGED <<made, rows, exact>>
      /\ unread' = [unread EXCEPT ![task[t].user] = <<0>>]
  BY EndsTurns DEF ResetUnreadCount
<1> QED BY <1>1, SetsBadge

\* A row of the user's own goes: if it was unread, the counter is to be told.
LEMMA DeleteBadge == ASSUME IInv, IInv', BadgeInv, NEW t \in Tasks, Delete(t) PROVE BadgeInv'
<1>1. /\ task[t].at = "delete" /\ DeleteById(task[t].row, task[t].user)
      /\ IF task[t].count = 1 THEN Goes(t, "dec") ELSE Ends(t)
      /\ UNCHANGED <<made, unread, exact>>
  BY DEF Delete
<1>2. task[t].user \in Users /\ task[t] # Idle /\ task[t].at \in Steps
  BY <1>1, Knows DEF Steps
<1>3. PICK v : /\ Turns(t, v)
               /\ IF task[t].count = 1 THEN v # Idle /\ v.user = task[t].user /\ v.at = "dec"
                                       ELSE v = Idle
  <2>1. CASE task[t].count = 1
    <3> DEFINE w == [task[t] EXCEPT !.at = "dec"]
    <3>1. Turns(t, w) /\ w # Idle /\ w.user = task[t].user /\ w.at = "dec"
      BY <1>1, <1>2, <2>1, Knows, TaskMoves DEF IInv, Steps
    <3> HIDE DEF w
    <3> QED BY <2>1, <3>1
  <2>2. CASE task[t].count # 1
    BY <1>1, <2>2, EndsTurns
  <2> QED BY <2>1, <2>2
<1>4. SUFFICES ASSUME NEW u \in Users, u = task[t].user, NEW i \in Ids, i = task[t].row,
                      rows[i] = Gone \/ rows[i].user = u
               PROVE  BadgeInv'
  <2>1. task[t].row \in 1..made /\ (rows[task[t].row] = Gone \/ rows[task[t].row].user = task[t].user)
    BY <1>1, <1>2 DEF BadgeInv, Ground, Deletes
  <2>2. task[t].row \in Ids
    BY <1>2, <2>1, Knows
  <2> QED BY <1>2, <2>1, <2>2
<1>5. rows'[i] = Gone /\ \A j \in Ids \ {i} : rows'[j] = rows[j]
  BY <1>1, <1>4 DEF DeleteById, Owns
<1>6. Private(u) /\ \A j \in Ids : Succeeds(j)
  BY <1>4, <1>5 DEF Private, Succeeds, SameFace
<1>7. ASSUME u \in exact PROVE Badge(u)'
  <2>1. Badge(u) /\ OfUser(t, u) /\ TypeOK /\ TypeOK' /\ Few
    BY <1>2, <1>4, <1>7 DEF BadgeInv, IInv, OfUser
  <2>2. rows[i] # Gone /\ (task[t].count = 1 <=> rows[i].seen = "unread")
    BY <1>1, <1>4, <2>1 DEF Badge, Informed
  <2>3. i \in UnreadRows(u) <=> task[t].count = 1
    BY <1>4, <2>2 DEF UnreadRows
  <2>4. UnreadRows(u)' = UnreadRows(u) \ {i}
    <3>1. \A j \in Ids \ {i} : j \in UnreadRows(u)' <=> j \in UnreadRows(u)
      BY <1>5 DEF UnreadRows
    <3>2. i \notin UnreadRows(u)' /\ UnreadRows(u)' \subseteq Ids /\ UnreadRows(u) \subseteq Ids
      BY <1>5 DEF UnreadRows
    <3> QED BY <3>1, <3>2
  <2>5. Number(u)' = Number(u) - One(v, u, Taking) /\ Number(u) \in Nat
    <3>1. CASE task[t].count = 1
      <4>1. One(v, u, Taking) = 1
        BY <1>3, <1>4, <3>1 DEF One, At, Taking
      <4>2. Number(u)' = Number(u) - 1
        BY <2>3, <2>4, <3>1, RowGoes
      <4> QED BY <4>1, <4>2, RowsCounted
    <3>2. CASE task[t].count # 1
      <4>1. One(v, u, Taking) = 0
        BY <1>3, <3>2, OneEnds
      <4>2. UnreadRows(u)' = UnreadRows(u)
        BY <2>3, <2>4, <3>2
      <4>3. Number(u)' = Number(u)
        BY <4>2 DEF Number
      <4> QED BY <4>1, <4>3, RowsCounted
    <3> QED BY <3>1, <3>2
  <2>6. One(v, u, Unbumped) = 0 /\ One(task[t], u, Unbumped) = 0 /\ One(task[t], u, Taking) = 0
        /\ One(v, u, Taking) \in Int
    BY <1>1, <1>3 DEF One, At, Unbumped, Taking
  <2>7. \A s \in Tasks \ {t} : OfUser(s, u) => task[s].at = "broadcast"
    BY <1>1, <2>1, Peers
  <2>8. ASSUME NEW s \in Tasks \ {t}, OfUser(s, u)
        PROVE  Informed(task[s], Number(u)', unread'[u], rows') /\ Shared(task[s], v)
    BY <2>7, <2>8 DEF Informed, Shared
  <2>9. v # Idle => Informed(v, Number(u)', unread'[u], rows')
    BY <1>3 DEF Informed
  <2>10. unread[u] # <<>> => unread[u][1] \in Int
    <3>1. unread[u] \in Seq(Int)
      BY <2>1 DEF TypeOK
    <3> QED BY <3>1
  <2>11. unread[u] # <<>> =>
           unread'[u][1] - unread[u][1]
             = (Number(u)' - Number(u)) + (One(v, u, Taking) - One(task[t], u, Taking))
               - (One(v, u, Unbumped) - One(task[t], u, Unbumped))
    BY <1>1, <2>5, <2>6, <2>10
  <2> QED BY <1>1, <1>3, <2>1, <2>8, <2>9, <2>11, Balances
<1>8. v # Idle => Deletes(v, made, rows) /\ v.user = u
  BY <1>3, <1>4 DEF Deletes
<1>9. exact' \subseteq exact \cup {u} /\ (task[t] # Idle => task[t].user = u)
      /\ made' \in {made, made + 1} /\ \A w \in Users \ {u} : unread'[w] = unread[w]
  BY <1>1, <1>4
<1> QED BY <1>1, <1>3, <1>6, <1>7, <1>8, <1>9, TaskSteps

-------------------------------------------------------------------------------
(* Beginnings.                                                               *)

\* A handler or call of u begins, and the counter stays undisturbed only if it goes with
\* what is in progress.
LEMMA BeginsBadge ==
  ASSUME IInv, IInv', BadgeInv, NEW t \in Tasks, task[t] = Idle, NEW u \in Users,
         NEW v, Turns(t, v), v # Idle, v.user = u, v.at \notin Unbumped, Deletes(v, made, rows),
         Private(u), \A i \in Ids : Succeeds(i), UNCHANGED <<made, unread>>, exact' \subseteq exact,
         u \in exact' =>
           /\ \A s \in Tasks \ {t} : OfUser(s, u) =>
                /\ Shared(task[s], v)
                /\ Informed(task[s], Number(u)', unread[u], rows')
           /\ Informed(v, Number(u)', unread[u], rows')
           /\ v.at # "zero" => Number(u)' = Number(u) - One(v, u, Taking)
  PROVE  BadgeInv'
<1>1. ASSUME u \in exact' PROVE Badge(u)'
  <2>1. Badge(u) /\ TypeOK /\ TypeOK' /\ Few
    BY <1>1 DEF BadgeInv, IInv
  <2>2. task'[t] = v
    BY DEF IInv, TypeOK, Turns
  <2>3. ASSUME unread[u] # <<>>, ~Resets(u)'
        PROVE  unread'[u][1] - unread[u][1]
                 = (Number(u)' - Number(u)) + (One(v, u, Taking) - One(task[t], u, Taking))
                   - (One(v, u, Unbumped) - One(task[t], u, Unbumped))
    <3>1. v.at # "zero"
      BY <2>2, <2>3 DEF Resets, OfUser
    <3>2. Number(u)' = Number(u) - One(v, u, Taking) /\ Number(u) \in Nat
      BY <1>1, <3>1, RowsCounted
    <3>3. One(v, u, Unbumped) = 0 /\ One(task[t], u, Unbumped) = 0 /\ One(task[t], u, Taking) = 0
          /\ One(v, u, Taking) \in Int
      BY DEF One, At
    <3>4. unread[u][1] \in Int
      <4>1. unread[u] \in Seq(Int)
        BY <2>1 DEF TypeOK
      <4> QED BY <2>3, <4>1
    <3> QED BY <3>2, <3>3, <3>4
  <2>4. Informed(v, Number(u)', unread'[u], rows')
        /\ \A s \in Tasks \ {t} : OfUser(s, u) => /\ Shared(task[s], v)
                                                  /\ Informed(task[s], Number(u)', unread'[u], rows')
    BY <1>1
  <2> QED BY <2>1, <2>3, <2>4, Balances
<1>2. exact' \subseteq exact \cup {u} /\ made' \in {made, made + 1}
      /\ \A w \in Users \ {u} : unread'[w] = unread[w]
  OBVIOUS
<1> QED BY <1>1, <1>2, TaskSteps

\* The task that begins.
LEMMA BeginsTurns ==
  ASSUME IInv, IInv', NEW t \in Tasks, NEW u, NEW x, NEW c, NEW i, NEW e, NEW n, Begins(t, u, x, c, i, e, n)
  PROVE  LET v == [at |-> x, user |-> u, channel |-> c, row |-> i, event |-> e, count |-> n]
         IN  task[t] = Idle /\ Turns(t, v) /\ v # Idle
<1> DEFINE v == [at |-> x, user |-> u, channel |-> c, row |-> i, event |-> e, count |-> n]
<1>1. task[t] = Idle /\ task' = [task EXCEPT ![t] = v]
  BY DEF Begins
<1>2. v # Idle
  <2>1. DOMAIN v = {"at", "user", "channel", "row", "event", "count"} /\ DOMAIN Idle = {"at"}
    BY DEF Idle
  <2> HIDE DEF v
  <2> QED BY <2>1
<1>3. v \in Busy \cup {Idle}
  <2> HIDE DEF v
  <2> QED BY <1>1 DEF IInv, TypeOK
<1> QED BY <1>1, <1>2, <1>3 DEF Turns

\* What goes with a task that begins, if nothing overlaps it.
LEMMA NoOverlap ==
  ASSUME NEW t \in Tasks, NEW u, NEW x \in Steps, ~Overlaps(t, u, x), NEW s \in Tasks \ {t}, OfUser(s, u)
  PROVE  \/ x \in Adding /\ task[s].at \in Adding
         \/ x = "dec" /\ task[s].at \in Taking
  BY DEF Overlaps, Harmless, Taking

\* A task that begins and leaves the rows alone.
LEMMA BeginsQuietly ==
  ASSUME IInv, IInv', BadgeInv, NEW t \in Tasks, NEW u \in Users, NEW x \in Steps,
         NEW c, NEW i, NEW e, NEW n, Begins(t, u, x, c, i, e, n),
         x \in {"create", "lookup", "broadcast"}, UNCHANGED <<made, rows, unread>>,
         exact' = exact \ (IF x # "broadcast" /\ Overlaps(t, u, x) THEN {u} ELSE {})
  PROVE  BadgeInv'
<1> DEFINE v == [at |-> x, user |-> u, channel |-> c, row |-> i, event |-> e, count |-> n]
<1>1. task[t] = Idle /\ Turns(t, v) /\ v # Idle
  BY BeginsTurns
<1>2. v.at = x /\ v.user = u
  OBVIOUS
<1> HIDE DEF v
<1>3. Private(u) /\ SameFor(u) /\ \A j \in Ids : Succeeds(j)
  BY RowsAlone
<1>4. Number(u)' = Number(u) /\ Number(u) \in Nat
  BY <1>3, SameNumber, RowsCounted
<1>5. ASSUME u \in exact', NEW s \in Tasks \ {t}, OfUser(s, u)
      PROVE  Shared(task[s], v) /\ Informed(task[s], Number(u)', unread[u], rows')
  <2>1. Informed(task[s], Number(u), unread[u], rows)
    BY <1>5 DEF BadgeInv, Badge
  <2>2. x = "broadcast" \/ ~Overlaps(t, u, x)
    BY <1>5
  <2>3. Shared(task[s], v)
    <3>1. CASE x = "broadcast"
      BY <1>2, <3>1 DEF Shared
    <3>2. CASE x # "broadcast"
      BY <1>2, <1>5, <2>2, <3>2, NoOverlap DEF Shared
    <3> QED BY <3>1, <3>2
  <2> QED BY <1>4, <2>1, <2>3
<1>6. Informed(v, Number(u)', unread[u], rows') /\ Deletes(v, made, rows) /\ v.at \notin Unbumped
  BY <1>2 DEF Informed, Deletes, Unbumped
<1>7. Number(u)' = Number(u) - One(v, u, Taking)
  <2>1. One(v, u, Taking) = 0
    BY <1>2 DEF One, At, Taking
  <2> QED BY <1>4, <2>1
<1> QED BY <1>1, <1>2, <1>3, <1>5, <1>6, <1>7, BeginsBadge

LEMMA DeliverBadge ==
  ASSUME IInv, IInv', BadgeInv, NEW t \in Tasks, NEW e \in Events, Deliver(t, e)
  PROVE  BadgeInv'
<1> DEFINE h == Handlers[kind[e]]
           u == addressee[e]
<1>1. kind[e] \in Kinds /\ u \in Users
  BY DEF IInv, TypeOK
<1>2. h.first \in {"create", "lookup", "broadcast"}
  BY <1>1, FirstSteps
<1>3. /\ Begins(t, u, h.first, h.channel, 0, e, 0) /\ UNCHANGED <<made, rows, unread>>
      /\ exact' = exact \ (IF h.first # "broadcast" /\ Overlaps(t, u, h.first) THEN {u} ELSE {})
  BY DEF Deliver, Disturbs
<1>4. SUFFICES ASSUME NEW w \in Users, NEW x \in Steps, NEW c, w = u, x = h.first, c = h.channel
               PROVE  BadgeInv'
  BY <1>1, <1>2 DEF Steps
<1>5. /\ Begins(t, w, x, c, 0, e, 0) /\ x \in {"create", "lookup", "broadcast"}
      /\ exact' = exact \ (IF x # "broadcast" /\ Overlaps(t, w, x) THEN {w} ELSE {})
  BY <1>2, <1>3, <1>4
<1> HIDE DEF h, u
<1> QED BY <1>3, <1>5, BeginsQuietly

LEMMA SendManualBadge ==
  ASSUME IInv, IInv', BadgeInv, NEW t \in Tasks, NEW u \in Users, NEW c \in Manual, SendManual(t, u, c)
  PROVE  BadgeInv'
<1>1. /\ Begins(t, u, "create", c, 0, NoEvent, 0) /\ UNCHANGED <<made, rows, unread>>
      /\ exact' = exact \ (IF "create" # "broadcast" /\ Overlaps(t, u, "create") THEN {u} ELSE {})
  BY DEF SendManual, Disturbs
<1>2. "create" \in Steps
  BY DEF Steps
<1> QED BY <1>1, <1>2, BeginsQuietly

\* A deletion: the row is the user's own, and the call knows whether it is read.
LEMMA DeleteNotificationBadge ==
  ASSUME IInv, IInv', BadgeInv, NEW t \in Tasks, NEW u \in Users, NEW i \in Ids,
         DeleteNotification(t, u, i)
  PROVE  BadgeInv'
<1> DEFINE n == IF rows[i].seen = "unread" THEN 1 ELSE 0
           v == [at |-> "delete", user |-> u, channel |-> "in_app", row |-> i,
                 event |-> NoEvent, count |-> n]
<1>1. /\ Begins(t, u, "delete", "in_app", i, NoEvent, n) /\ UNCHANGED <<made, rows, unread>>
      /\ rows[i] # Gone /\ rows[i].user = u
      /\ exact' = exact \ (IF Overlaps(t, u, "delete") THEN {u} ELSE {})
  BY DEF DeleteNotification, Disturbs, Owns
<1>2. task[t] = Idle /\ Turns(t, v) /\ v # Idle
  BY <1>1, BeginsTurns
<1>3. v.at = "delete" /\ v.user = u /\ v.row = i /\ (v.count = 1 <=> rows[i].seen = "unread")
  OBVIOUS
<1> HIDE DEF v, n
<1>4. Private(u) /\ SameFor(u) /\ \A j \in Ids : Succeeds(j)
  BY <1>1, RowsAlone
<1>5. Number(u)' = Number(u) /\ Number(u) \in Nat
  BY <1>4, SameNumber, RowsCounted
<1>6. i \in 1..made
  <2>1. ~(i > made)
    BY <1>1 DEF BadgeInv, Ground
  <2> QED BY <2>1, RowsAssumption DEF IInv, TypeOK, Ids
<1>7. ASSUME u \in exact', NEW s \in Tasks \ {t}, OfUser(s, u) PROVE FALSE
  BY <1>1, <1>7, NoOverlap DEF Adding, Steps
<1>8. Informed(v, Number(u)', unread[u], rows') /\ Deletes(v, made, rows) /\ v.at \notin Unbumped
  BY <1>1, <1>3, <1>6 DEF Informed, Deletes, Unbumped
<1>9. Number(u)' = Number(u) - One(v, u, Taking)
  <2>1. One(v, u, Taking) = 0
    BY <1>3 DEF One, At, Taking
  <2> QED BY <1>5, <2>1
<1>10. exact' \subseteq exact
  BY <1>1
<1> QED BY <1>1, <1>2, <1>3, <1>4, <1>7, <1>8, <1>9, <1>10, BeginsBadge

\* What marking does to rows.
LEMMA MarkedRows ==
  ASSUME TypeOK, NEW u, NEW I, \A i \in I : i \in Ids /\ Unreads(i, u), MarkRead(I)
  PROVE  /\ \A i \in Ids \ I : rows'[i] = rows[i]
         /\ \A i \in I : rows'[i] # Gone /\ rows'[i].user = u /\ rows'[i].seen = "read"
         /\ Private(u) /\ \A i \in Ids : Succeeds(i)
<1>1. \A i \in Ids \ I : rows'[i] = rows[i]
  BY DEF MarkRead
<1>2. ASSUME NEW i \in I PROVE rows'[i] # Gone /\ rows'[i].user = u /\ rows'[i].seen = "read"
  <2>1. rows[i] # Gone /\ rows[i].user = u /\ rows[i] \in Row /\ i \in Ids
    BY RowInUse DEF TypeOK, Unreads
  <2>2. rows'[i] = [rows[i] EXCEPT !.seen = "read", !.status = "read"]
    BY <2>1 DEF MarkRead
  <2>3. rows'[i].user = u /\ rows'[i].seen = "read" /\ DOMAIN rows'[i] = {"user", "status", "seen"}
    BY <2>1, <2>2 DEF Row
  <2>4. DOMAIN Gone = {"status"}
    BY DEF Gone
  <2> QED BY <2>3, <2>4
<1>3. Private(u) /\ \A i \in Ids : Succeeds(i)
  BY <1>1, <1>2 DEF Private, Succeeds, SameFace, Unreads
<1> QED BY <1>1, <1>2, <1>3

\* A mark: a row less is unread, and the counter is to be told.
LEMMA MarkAsReadBadge ==
  ASSUME IInv, IInv', BadgeInv, NEW t \in Tasks, NEW u \in Users, NEW i \in Ids, MarkAsRead(t, u, i)
  PROVE  BadgeInv'
<1> DEFINE v == [at |-> "dec", user |-> u, channel |-> "in_app", row |-> 0,
                 event |-> NoEvent, count |-> 0]
<1>1. /\ Begins(t, u, "dec", "in_app", 0, NoEvent, 0) /\ UNCHANGED <<made, unread>>
      /\ Unreads(i, u) /\ MarkRead({i})
      /\ exact' = exact \ (IF Overlaps(t, u, "dec") THEN {u} ELSE {})
  BY DEF MarkAsRead, Disturbs
<1>2. task[t] = Idle /\ Turns(t, v) /\ v # Idle
  BY <1>1, BeginsTurns
<1>3. v.at = "dec" /\ v.user = u
  OBVIOUS
<1> HIDE DEF v
<1>4. /\ \A j \in Ids \ {i} : rows'[j] = rows[j]
      /\ rows'[i] # Gone /\ rows'[i].user = u /\ rows'[i].seen = "read"
      /\ Private(u) /\ \A j \in Ids : Succeeds(j)
  <2>1. \A j \in {i} : j \in Ids /\ Unreads(j, u)
    BY <1>1
  <2> QED BY <1>1, <2>1, MarkedRows DEF IInv
<1>5. Number(u)' = Number(u) - 1
  <2>1. \A j \in Ids \ {i} : j \in UnreadRows(u)' <=> j \in UnreadRows(u)
    BY <1>4 DEF UnreadRows
  <2>2. i \in UnreadRows(u) /\ i \notin UnreadRows(u)'
    BY <1>1, <1>4 DEF UnreadRows, Unreads
  <2>3. UnreadRows(u)' \subseteq Ids /\ UnreadRows(u) \subseteq Ids
    BY DEF UnreadRows
  <2>4. UnreadRows(u)' = UnreadRows(u) \ {i}
    BY <2>1, <2>2, <2>3
  <2> QED BY <2>2, <2>4, RowGoes
<1>6. One(v, u, Taking) = 1
  BY <1>2, <1>3 DEF One, At, Taking
<1>7. ASSUME u \in exact', NEW s \in Tasks \ {t}, OfUser(s, u)
      PROVE  Shared(task[s], v) /\ Informed(task[s], Number(u)', unread[u], rows')
  <2>1. Informed(task[s], Number(u), unread[u], rows)
    BY <1>1, <1>7 DEF BadgeInv, Badge
  <2>2. task[s].at \in Taking
    BY <1>1, <1>7, NoOverlap DEF Adding, Steps
  <2> QED BY <1>3, <2>1, <2>2 DEF Shared, Informed, Taking
<1>8. Informed(v, Number(u)', unread[u], rows') /\ Deletes(v, made, rows) /\ v.at \notin Unbumped
  BY <1>3 DEF Informed, Deletes, Unbumped
<1>9. exact' \subseteq exact /\ Number(u)' = Number(u) - One(v, u, Taking)
  BY <1>1, <1>5, <1>6
<1> QED BY <1>1, <1>2, <1>3, <1>4, <1>7, <1>8, <1>9, BeginsBadge

\* All of them: no row is unread, and the counter is to be reset.
LEMMA MarkAllAsReadBadge ==
  ASSUME IInv, IInv', BadgeInv, NEW t \in Tasks, NEW u \in Users, MarkAllAsRead(t, u)
  PROVE  BadgeInv'
<1> DEFINE v == [at |-> "zero", user |-> u, channel |-> "in_app", row |-> 0,
                 event |-> NoEvent, count |-> 0]
           I == {i \in Ids : Unreads(i, u)}
<1>1. /\ Begins(t, u, "zero", "in_app", 0, NoEvent, 0) /\ UNCHANGED <<made, unread>>
      /\ MarkRead(I)
      /\ exact' = exact \ (IF Overlaps(t, u, "zero") \/ \E i \in Ids : Unreads(i, Everyone)
                             THEN {u} ELSE {})
  BY DEF MarkAllAsRead, Disturbs
<1>2. task[t] = Idle /\ Turns(t, v) /\ v # Idle
  BY <1>1, BeginsTurns
<1>3. v.at = "zero" /\ v.user = u
  OBVIOUS
<1>4. \A i \in Ids : i \in I <=> Unreads(i, u)
  OBVIOUS
<1>5. \A i \in I : i \in Ids /\ Unreads(i, u)
  OBVIOUS
<1> HIDE DEF v, I
<1>6. /\ \A i \in Ids \ I : rows'[i] = rows[i]
      /\ \A i \in I : rows'[i] # Gone /\ rows'[i].user = u /\ rows'[i].seen = "read"
      /\ Private(u) /\ \A i \in Ids : Succeeds(i)
  BY <1>1, <1>5, MarkedRows DEF IInv
<1>7. ASSUME u \in exact' PROVE Number(u)' = 0
  <2>1. \A i \in Ids : ~Unreads(i, Everyone)
    BY <1>1, <1>7
  <2>2. ASSUME NEW i \in Ids PROVE i \notin UnreadRows(u)'
    <3>1. CASE i \in I
      BY <1>6, <3>1 DEF UnreadRows
    <3>2. CASE i \notin I
      BY <1>4, <1>6, <2>1, <3>2 DEF UnreadRows, Unreads
    <3> QED BY <3>1, <3>2
  <2>3. UnreadRows(u)' = {}
    <3>1. UnreadRows(u)' \subseteq Ids
      BY DEF UnreadRows
    <3> QED BY <2>2, <3>1
  <2> QED BY <2>3, FS_EmptySet DEF Number
<1>8. ASSUME u \in exact', NEW s \in Tasks \ {t}, OfUser(s, u) PROVE FALSE
  BY <1>1, <1>8, NoOverlap DEF Adding, Steps
<1>9. u \in exact' => Informed(v, Number(u)', unread[u], rows')
  BY <1>3, <1>7 DEF Informed
<1>10. Deletes(v, made, rows) /\ v.at \notin Unbumped /\ exact' \subseteq exact
  BY <1>1, <1>3 DEF Deletes, Unbumped
<1> QED BY <1>1, <1>2, <1>3, <1>6, <1>8, <1>9, <1>10, BeginsBadge

\* A fill counts the rows: the counter starts anew.
LEMMA GetUnreadCountBadge ==
  ASSUME IInv, IInv', BadgeInv, NEW t \in Tasks, NEW u \in Users, GetUnreadCount(t, u)
  PROVE  BadgeInv'
<1> DEFINE v == [at |-> "fill", user |-> u, channel |-> "in_app", row |-> 0,
                 event |-> NoEvent, count |-> Cardinality(UnreadRows(u))]
<1>1. /\ Begins(t, u, "fill", "in_app", 0, NoEvent, Cardinality(UnreadRows(u)))
      /\ UNCHANGED <<made, rows, unread>> /\ unread[u] = <<>>
      /\ exact' = IF Overlaps(t, u, "fill") THEN exact \ {u} ELSE exact \cup {u}
  BY DEF GetUnreadCount
<1>2. task[t] = Idle /\ Turns(t, v) /\ v # Idle
  BY <1>1, BeginsTurns
<1>3. v.at = "fill" /\ v.user = u /\ v.count = Number(u)
  BY DEF Number
<1> HIDE DEF v
<1>4. SameFor(u)
  BY <1>1, RowsAlone
<1>5. Number(u)' = Number(u)
  BY <1>4, SameNumber
<1>6. ASSUME u \in exact' PROVE Badge(u)'
  <2>1. \A s \in Tasks \ {t} : ~OfUser(s, u)
    BY <1>1, <1>6, NoOverlap DEF Adding, Steps
  <2>2. \A s \in Tasks : OfUser(s, u)' => s = t /\ task'[s] = v
    BY <1>2, <2>1 DEF IInv, TypeOK, Turns, OfUser
  <2>3. Informed(v, Number(u)', unread'[u], rows')
    BY <1>3, <1>5 DEF Informed
  <2> QED BY <1>1, <2>2, <2>3 DEF Badge
<1>7. v # Idle => Deletes(v, made, rows)
  BY <1>3 DEF Deletes
<1>8. exact' \subseteq exact \cup {u} /\ \A w \in Users \ {u} : unread'[w] = unread[w]
  BY <1>1
<1> QED BY <1>1, <1>2, <1>3, <1>6, <1>7, <1>8, QuietTask

-------------------------------------------------------------------------------
(* Failures, the TTL, the archiver.                                          *)

\* Nothing that the counters depend on changes.
LEMMA NothingMoves ==
  ASSUME IInv, BadgeInv, UNCHANGED <<made, rows, unread, task, exact>>
  PROVE  BadgeInv'
<1>1. Few' /\ Ground'
  BY DEF BadgeInv, Few, Ground
<1>2. ASSUME NEW u \in exact' PROVE Badge(u)'
  <2>1. u \in Users /\ Badge(u) /\ SameFor(u)
    BY <1>2, RowsAlone DEF IInv, TypeOK, BadgeInv
  <2> QED BY <2>1, Elsewhere DEF IInv, BadgeInv
<1> QED BY <1>1, <1>2 DEF BadgeInv

\* A write that comes late disturbs its readers' counters.
LEMMA LandsBadge == ASSUME IInv, IInv', BadgeInv, NEW w \in late, Lands(w) PROVE BadgeInv'
<1>1. /\ UNCHANGED <<unread, task>> /\ made \in Nat
      /\ exact' = exact \ (IF w.op = "status" THEN {} ELSE {u \in Users : w.user \in {u, Everyone}})
  BY RowsAssumption DEF Lands, Disturbs, IInv, TypeOK
<1>2. w \in Writes
  BY DEF IInv, TypeOK
<1>3. /\ made' \in {made, made + 1} /\ \A i \in Ids : Succeeds(i)
      /\ \A u \in exact' : SameFor(u)
  <2>1. CASE w.op = "insert" /\ Inserts(w.user, w.status)
    <3>1. made' = made + 1 /\ made + 1 \in Ids
          /\ rows' = [rows EXCEPT ![made + 1] = [user |-> w.user, status |-> w.status, seen |-> "unread"]]
      BY <1>1, <2>1, RowsAssumption DEF Inserts, Ids
    <3>2. rows[made + 1] = Gone
      BY <1>1, <3>1 DEF BadgeInv, Ground
    <3>3. /\ \A j \in Ids \ {made + 1} : rows'[j] = rows[j]
          /\ rows'[made + 1] = [user |-> w.user, status |-> w.status, seen |-> "unread"]
      BY <3>1 DEF IInv, TypeOK
    <3>4. \A i \in Ids : Succeeds(i)
      BY <3>1, <3>3 DEF Succeeds
    <3>5. ASSUME NEW u \in exact' PROVE SameFor(u)
      <4>1. w.user \notin {u, Everyone}
        BY <1>1, <2>1, <3>5 DEF IInv, TypeOK
      <4> QED BY <3>2, <3>3, <4>1 DEF SameFor, SameFace, Foreign
    <3> QED BY <3>1, <3>4, <3>5
  <2>2. CASE w.op = "status" /\ UpdateStatus(w.row, w.status) /\ UNCHANGED made
    <3>1. w.row \in Ids
      BY <2>2 DEF IInv, LateOK, Honest, TypeOK
    <3>2. \A j \in Ids : SameFace(j)
      BY <2>2, <3>1, StatusSameFace DEF IInv
    <3> QED BY <2>2, <3>2 DEF SameFor, SameFace, Succeeds
  <2>3. CASE /\ w.op = "mark" /\ UNCHANGED made
             /\ MarkRead({i \in Ids : Unreads(i, w.user) /\ w.row \in {0, i}})
    <3> DEFINE I == {i \in Ids : Unreads(i, w.user) /\ w.row \in {0, i}}
    <3>1. \A i \in I : i \in Ids /\ Unreads(i, w.user)
      OBVIOUS
    <3> HIDE DEF I
    <3>2. MarkRead(I)
      BY <2>3 DEF I
    <3>3. Private(w.user) /\ \A i \in Ids : Succeeds(i)
      BY <3>1, <3>2, MarkedRows DEF IInv
    <3>4. ASSUME NEW u \in exact' PROVE SameFor(u)
      <4>1. w.user \notin {u, Everyone}
        BY <1>1, <2>3, <3>4 DEF IInv, TypeOK
      <4> QED BY <3>3, <4>1 DEF Private, SameFor, Foreign
    <3> QED BY <2>3, <3>3, <3>4
  <2>4. CASE w.op = "delete" /\ DeleteById(w.row, w.user) /\ UNCHANGED made
    <3>1. \A j \in Ids : rows'[j] = IF j = w.row /\ Owns(w.user, j) THEN Gone ELSE rows[j]
      BY <2>4 DEF DeleteById
    <3>2. \A j \in Ids : Succeeds(j)
      BY <3>1 DEF Succeeds
    <3>3. ASSUME NEW u \in exact' PROVE SameFor(u)
      <4>1. w.user \notin {u, Everyone}
        BY <1>1, <2>4, <3>3 DEF IInv, TypeOK
      <4> QED BY <3>1, <4>1 DEF Owns, SameFor, SameFace, Foreign
    <3> QED BY <2>4, <3>2, <3>3
  <2> QED BY <2>1, <2>2, <2>3, <2>4 DEF Lands
<1>4. Few'
  BY <1>1 DEF BadgeInv, Few
<1>5. Ground'
  <2>1. /\ \A i \in Ids : i > made' => rows'[i] = Gone
        /\ \A c : Deletes(c, made, rows) => Deletes(c, made', rows')
    BY <1>3, RowsSucceed DEF IInv, BadgeInv
  <2>2. ASSUME NEW t \in Tasks, task'[t] # Idle PROVE Deletes(task'[t], made', rows')
    <3>1. task'[t] = task[t] /\ Deletes(task[t], made, rows)
      BY <1>1, <2>2 DEF BadgeInv, Ground
    <3> QED BY <2>1, <3>1
  <2> QED BY <2>1, <2>2 DEF Ground
<1>6. ASSUME NEW u \in exact' PROVE Badge(u)'
  <2>1. u \in Users /\ Badge(u) /\ SameFor(u)
    BY <1>1, <1>3, <1>6 DEF IInv, TypeOK, BadgeInv
  <2> QED BY <1>1, <2>1, Elsewhere DEF IInv, BadgeInv
<1> QED BY <1>4, <1>5, <1>6 DEF BadgeInv

\* The handlers die: the counters of their users are disturbed.
LEMMA CrashBadge == ASSUME IInv, IInv', BadgeInv, Crash PROVE BadgeInv'
<1>1. /\ task' = [t \in Tasks |-> Idle] /\ UNCHANGED <<made, rows, unread>>
      /\ exact' = exact \ {u \in Users : \E t \in Tasks : OfUser(t, u)}
  BY DEF Crash, Disturbs
<1>2. \A t \in Tasks : task'[t] = Idle
  BY <1>1
<1>3. Few'
  <2>1. {t \in Tasks : task'[t] # Idle} = {}
    BY <1>2
  <2> QED BY <2>1, FS_EmptySet DEF Few
<1>4. Ground'
  BY <1>1, <1>2 DEF BadgeInv, Ground
<1>5. ASSUME NEW u \in exact' PROVE Badge(u)'
  <2>1. u \in Users /\ Badge(u) /\ SameFor(u) /\ \A t \in Tasks : ~OfUser(t, u)
    BY <1>1, <1>5, RowsAlone DEF IInv, TypeOK, BadgeInv
  <2>2. \A t \in Tasks : ~OfUser(t, u)'
    BY <1>2 DEF OfUser
  <2> QED BY <1>1, <2>1, <2>2, Elsewhere DEF IInv, BadgeInv
<1> QED BY <1>3, <1>4, <1>5 DEF BadgeInv

\* A key that lapses disturbs what is in progress for its user; else nothing is.
LEMMA KeyExpiresBadge ==
  ASSUME IInv, IInv', BadgeInv, NEW u \in Users, KeyExpires(u) PROVE BadgeInv'
<1>1. /\ unread' = [unread EXCEPT ![u] = <<>>] /\ UNCHANGED <<made, rows, task>>
      /\ exact' = IF \E t \in Tasks : OfUser(t, u) THEN exact \ {u} ELSE exact \cup {u}
  BY DEF KeyExpires
<1>2. Few' /\ Ground'
  BY <1>1 DEF BadgeInv, Few, Ground
<1>3. ASSUME NEW w \in exact' PROVE Badge(w)'
  <2>1. CASE w = u
    <3>1. \A t \in Tasks : ~OfUser(t, u)'
      BY <1>1, <1>3, <2>1 DEF OfUser
    <3>2. unread'[u] = <<>>
      BY <1>1 DEF IInv, TypeOK
    <3> QED BY <2>1, <3>1, <3>2 DEF Badge
  <2>2. CASE w # u
    <3>1. w \in exact /\ w \in Users
      BY <1>1, <1>3, <2>2 DEF IInv, TypeOK
    <3>2. Badge(w) /\ SameFor(w) /\ unread'[w] = unread[w]
      BY <1>1, <2>2, <3>1, RowsAlone DEF IInv, TypeOK, BadgeInv
    <3> QED BY <1>1, <3>1, <3>2, Elsewhere DEF IInv, BadgeInv
  <2> QED BY <2>1, <2>2
<1> QED BY <1>2, <1>3 DEF BadgeInv

\* Unread rows that are archived disturb their readers' counters.
LEMMA ArchiveOldBadge ==
  ASSUME IInv, IInv', BadgeInv, NEW i \in Ids, ArchiveOld(i) PROVE BadgeInv'
<1> DEFINE old == {j \in Ids : j <= i /\ rows[j] # Gone}
<1>1. /\ rows' = [j \in Ids |-> IF j \in old THEN Gone ELSE rows[j]]
      /\ UNCHANGED <<made, unread, task>>
      /\ exact' = exact \ {u \in Users : \/ old \cap UnreadRows(u) # {}
                                         \/ \E t \in Tasks : OfUser(t, u)}
  BY DEF ArchiveOld, Disturbs
<1>2. \A j \in Ids : rows'[j] = Gone \/ (rows'[j] = rows[j] /\ j \notin old)
  BY <1>1
<1> HIDE DEF old
<1>3. Few'
  BY <1>1 DEF BadgeInv, Few
<1>4. Ground'
  <2>1. \A j \in Ids : j > made' => rows'[j] = Gone
    BY <1>1, <1>2 DEF BadgeInv, Ground
  <2>2. ASSUME NEW t \in Tasks, task'[t] # Idle PROVE Deletes(task'[t], made', rows')
    <3>1. task'[t] = task[t] /\ Deletes(task[t], made, rows) /\ 1..made \subseteq Ids
      BY <1>1, <2>2, RowsAssumption DEF BadgeInv, Ground, IInv, TypeOK, Ids
    <3> QED BY <1>1, <1>2, <3>1 DEF Deletes
  <2> QED BY <2>1, <2>2 DEF Ground
<1>5. ASSUME NEW u \in exact' PROVE Badge(u)'
  <2>1. u \in Users /\ Badge(u) /\ (\A t \in Tasks : ~OfUser(t, u)) /\ old \cap UnreadRows(u) = {}
    BY <1>1, <1>5 DEF IInv, TypeOK, BadgeInv
  <2>2. UnreadRows(u)' = UnreadRows(u)
    <3>1. ASSUME NEW j \in Ids PROVE j \in UnreadRows(u)' <=> j \in UnreadRows(u)
      <4>1. CASE j \in old
        BY <1>1, <2>1, <4>1 DEF UnreadRows
      <4>2. CASE j \notin old
        <5>1. rows'[j] = rows[j]
          BY <1>1, <4>2
        <5> QED BY <5>1 DEF UnreadRows
      <4> QED BY <4>1, <4>2
    <3>2. UnreadRows(u)' \subseteq Ids /\ UnreadRows(u) \subseteq Ids
      BY DEF UnreadRows
    <3> QED BY <3>1, <3>2
  <2>3. Number(u)' = Number(u)
    BY <2>2 DEF Number
  <2>4. \A t \in Tasks : ~OfUser(t, u)'
    BY <1>1, <2>1 DEF OfUser
  <2>5. (\A S : TasksAt(u, S)' = TasksAt(u, S)) /\ (Resets(u)' <=> Resets(u))
    BY <2>1, <2>4 DEF TasksAt, Resets
  <2>6. unread[u] # <<>> /\ ~Resets(u) =>
          unread[u][1] + Cardinality(TasksAt(u, Unbumped)) = Number(u) + Cardinality(TasksAt(u, Taking))
    BY <2>1 DEF Badge
  <2>7. unread'[u] # <<>> /\ ~Resets(u)' =>
          unread'[u][1] + Cardinality(TasksAt(u, Unbumped))'
            = Number(u)' + Cardinality(TasksAt(u, Taking))'
    BY <1>1, <2>3, <2>5, <2>6
  <2> QED BY <2>4, <2>7 DEF Badge
<1> QED BY <1>3, <1>4, <1>5 DEF BadgeInv

-------------------------------------------------------------------------------
(* The steps together.                                                       *)

LEMMA BadgeBegins == Init => BadgeInv
<1> SUFFICES ASSUME Init PROVE BadgeInv
  OBVIOUS
<1>1. \A t \in Tasks : task[t] = Idle
  BY DEF Init
<1>2. {t \in Tasks : task[t] # Idle} = {}
  BY <1>1
<1>3. Few
  BY <1>2, FS_EmptySet DEF Few
<1>4. Ground
  BY <1>1 DEF Ground, Init
<1>5. \A u \in exact : Badge(u)
  BY <1>1 DEF Init, Badge, OfUser
<1> QED BY <1>3, <1>4, <1>5 DEF BadgeInv

LEMMA BadgeStep == ASSUME IInv, BadgeInv, [Next]_vars PROVE BadgeInv'
<1>1. IInv'
  BY StepKeeps
<1>2. CASE Works
  <2>1. ASSUME NEW t \in Tasks, HandlerStep(t) PROVE BadgeInv'
    BY <1>1, <2>1, CreateBroadcastBadge, CreateBadge, MailBadge, FailedBadge, BumpBadge,
       IncrBadge, SecondBadge DEF HandlerStep
  <2>2. ASSUME NEW t \in Tasks, CallStep(t) PROVE BadgeInv'
    BY <1>1, <2>2, SetUnreadCountBadge, ResetUnreadCountBadge, DeleteBadge, DecBadge,
       GetBadge, DecrBadge DEF CallStep
  <2>3. ASSUME NEW e \in Events, RetryTimer(e) PROVE BadgeInv'
    BY <2>3, NothingMoves DEF RetryTimer
  <2> QED BY <1>1, <1>2, <2>1, <2>2, <2>3, LookupBadge, DeliverBadge, KeyExpiresBadge,
             LandsBadge DEF Works
<1>3. CASE Requests
  <2>1. ASSUME NEW t \in Tasks, NEW u \in Users, Call(t, u) PROVE BadgeInv'
    BY <1>1, <2>1, SendManualBadge, GetUnreadCountBadge, MarkAllAsReadBadge, MarkAsReadBadge,
       DeleteNotificationBadge DEF Call
  <2> QED BY <1>1, <1>3, <2>1, ArchiveOldBadge DEF Requests
<1>4. CASE Fails
  <2>1. CASE ConnectionLost
    BY <2>1, NothingMoves DEF ConnectionLost
  <2>2. ASSUME NEW u \in Users, NEW i \in 0..MaxRows, MarkRejected(u, i) PROVE BadgeInv'
    BY <2>2, NothingMoves DEF MarkRejected
  <2> QED BY <1>1, <1>4, <2>1, <2>2, LookupFailsBadge, CreateRejectedBadge, MailBadge, FailedBadge,
             SecondRejectedBadge, DeleteRejectedBadge, LosesBadge, CrashBadge DEF Fails
<1>5. CASE UNCHANGED vars
  BY <1>5, NothingMoves DEF vars
<1> QED BY <1>2, <1>3, <1>4, <1>5 DEF Next

\* Between calls, the counter is the number of unread rows.
LEMMA BadgeIsNumber == ASSUME IInv, BadgeInv PROVE BadgeIsExact
<1>1. SUFFICES ASSUME NEW u \in Users, \A t \in Tasks : ~OfUser(t, u), u \in exact, unread[u] # <<>>
               PROVE  unread[u] = <<Cardinality(UnreadRows(u))>>
  BY DEF BadgeIsExact
<1>2. TasksAt(u, Unbumped) = {} /\ TasksAt(u, Taking) = {} /\ ~Resets(u)
  BY <1>1 DEF TasksAt, Resets
<1>3. Cardinality(TasksAt(u, Unbumped)) = 0 /\ Cardinality(TasksAt(u, Taking)) = 0
  BY <1>2, FS_EmptySet
<1>4. unread[u] \in Seq(Int) /\ Len(unread[u]) <= 1
  BY DEF IInv, TypeOK
<1>5. unread[u][1] \in Int /\ Len(unread[u]) = 1
  <2>1. \A q \in Seq(Int) : q # <<>> => Len(q) \in Nat \ {0} /\ q[1] \in Int
    OBVIOUS
  <2>2. Len(unread[u]) \in Nat \ {0} /\ unread[u][1] \in Int
    BY <1>1, <1>4, <2>1
  <2>3. \A n \in Nat \ {0} : n <= 1 => n = 1
    OBVIOUS
  <2> QED BY <1>4, <2>2, <2>3
<1>6. unread[u][1] = Number(u)
  <2>1. unread[u][1] + 0 = Number(u) + 0
    BY <1>1, <1>2, <1>3 DEF BadgeInv, Badge
  <2> QED BY <1>5, <2>1, RowsCounted
<1> QED BY <1>4, <1>5, <1>6 DEF Number

\* A cached counter is the number of unread rows whenever nothing of its user is in
\* progress, unless it was disturbed: for every number of users, of rows and of calls at a
\* time, however they interleave (notificationCache.js, notification.service.js).
THEOREM BadgeExact == Spec => []BadgeIsExact
<1>1. Init => IInv /\ BadgeInv
  BY Initially, BadgeBegins
<1>2. IInv /\ BadgeInv /\ [Next]_vars => (IInv /\ BadgeInv)'
  BY StepKeeps, BadgeStep
<1>3. IInv /\ BadgeInv => BadgeIsExact
  BY BadgeIsNumber
<1> QED BY <1>1, <1>2, <1>3, PTL DEF Spec

-------------------------------------------------------------------------------
(* Articles: the inductive invariant.                                        *)

Old(i)      == i <= lastId /\ article[i] = NoSlug
Uncached(i) == i \in outlived \/ (i \notin cached /\ ~Holding(i))
\* Search results have it under the keys K at most.
Under(i, K) == i \in outlived \/ (~Keeping(i) /\ \A f \in found : i \in f[2] => f[1] \in K)

\* How far the deletion of an article that a call is at has come.
Deleting(c) ==
  /\ c.at = "delete" => c.id <= lastId
  /\ c.at = "forget" => Old(c.id)
  /\ c.at = "keys" /\ c.why = "deleted" => Old(c.id) /\ Uncached(c.id)
  /\ c.at = "clear" /\ c.why = "deleted" =>
       Old(c.id) /\ Uncached(c.id) /\ Under(c.id, c.keys)

NumberedRows == \A i \in Rows : i <= lastId
Deletions    == \A s \in Staff : Deleting(staff[s])
GoneForGood  == \A i \in gone : Old(i) /\ Uncached(i) /\ Under(i, {})

ArticlesInv == ArticlesTypeOK /\ NumberedRows /\ Deletions /\ GoneForGood

-------------------------------------------------------------------------------
(* Lemmas.                                                                   *)

\* What a call of an admin becomes when it goes on to the await x.
LEMMA ErrandMoves ==
  ASSUME NEW c \in Errand, c.at \in {"exists", "delete", "forget"},
         NEW x \in {"delete", "forget", "keys"}
  PROVE  /\ [c EXCEPT !.at = x] \in Errand
         /\ [c EXCEPT !.at = x].at = x
         /\ [c EXCEPT !.at = x].id = c.id
         /\ [c EXCEPT !.at = x].why = c.why
         /\ c.id \in Articles
<1>1. c \in [at : {"exists", "delete", "forget", "keys", "tell"}, id : Articles, why : Fates]
  BY DEF Errand
<1>2. [c EXCEPT !.at = x] = [at |-> x, id |-> c.id, why |-> c.why]
  BY <1>1
<1>3. [at |-> x, id |-> c.id, why |-> c.why] \in
        [at : {"exists", "delete", "forget", "keys", "tell"}, id : Articles, why : Fates]
  BY <1>1
<1> QED BY <1>1, <1>2, <1>3 DEF Errand

\* The fields of a call of an admin, by its await.
LEMMA ErrandFields ==
  ASSUME NEW c \in Errand
  PROVE  /\ c.at \in {"slug", "insert"} => c.slug \in Slugs
         /\ c.at \in {"exists", "delete", "forget", "keys", "tell", "clear"} =>
              c.id \in Articles /\ c.why \in Fates
         /\ c.at = "clear" => c.keys \in SUBSET Queries
         /\ c.at \in {"slug", "insert", "exists", "delete", "forget", "keys", "tell", "clear"}
         /\ c # Away
  BY DEF Errand, Away

\* What a call of a reader becomes when it goes on.
LEMMA LookingMoves ==
  ASSUME NEW c \in Looking
  PROVE  /\ c.at = "get" => /\ [c EXCEPT !.at = "read"] \in Looking
                            /\ [c EXCEPT !.at = "read"].at = "read"
         /\ c.at = "read" => /\ [c EXCEPT !.at = "put"] \in Looking
                             /\ [c EXCEPT !.at = "put"].at = "put"
                             /\ [c EXCEPT !.at = "put"].id = c.id
         /\ c.at = "lookup" => /\ [c EXCEPT !.at = "query"] \in Looking
                               /\ [c EXCEPT !.at = "query"].at = "query"
         /\ c.at \in {"get", "read", "put"} => c.id \in Articles
         /\ c.at \in {"lookup", "query", "keep"} => c.query \in Queries
         /\ c.at = "keep" => c.result \in SUBSET Articles
         /\ c # Left
<1>1. CASE c.at \in {"get", "read", "put"}
  <2>1. c \in [at : {"get", "read", "put"}, id : Articles]
    BY <1>1 DEF Looking
  <2>2. \A x : [c EXCEPT !.at = x] = [at |-> x, id |-> c.id]
    BY <2>1
  <2> QED BY <1>1, <2>1, <2>2 DEF Looking, Left
<1>2. CASE c.at \in {"lookup", "query"}
  <2>1. c \in [at : {"lookup", "query"}, query : Queries]
    BY <1>2 DEF Looking
  <2>2. \A x : [c EXCEPT !.at = x] = [at |-> x, query |-> c.query]
    BY <2>1
  <2> QED BY <1>2, <2>1, <2>2 DEF Looking, Left
<1>3. CASE c.at = "keep"
  BY <1>3 DEF Looking, Left
<1>4. c.at \in {"get", "read", "put", "lookup", "query", "keep"}
  BY DEF Looking
<1> QED BY <1>1, <1>2, <1>3, <1>4

-------------------------------------------------------------------------------
(* Types.                                                                    *)

LEMMA TypedInit == ArticlesInit => ArticlesTypeOK
  BY ArticlesAssumption
  DEF ArticlesInit, ArticlesTypeOK, Articles, NoSlug, Away, Left, Slugs

\* A step of an admin's call keeps the types.
LEMMA TypedStaff ==
  ASSUME ArticlesTypeOK, NEW s \in Staff, StaffStep(s)
  PROVE  ArticlesTypeOK'
<1>0. staff \in [Staff -> Errand \cup {Away}] /\ (staff[s] # Away => staff[s] \in Errand)
  BY DEF ArticlesTypeOK
<1>a. ASSUME NEW at, staff[s].at = at, at # "away"
      PROVE  staff[s] \in Errand
  BY <1>0, <1>a DEF Away
<1>1. ASSUME NEW title \in Titles, CreateArticle(s, title) PROVE ArticlesTypeOK'
  <2>1. [title |-> title, no |-> 0] \in Slugs
    BY ArticlesAssumption DEF Slugs
  <2>2. [at |-> "slug", slug |-> [title |-> title, no |-> 0]] \in Errand
    BY <2>1 DEF Errand
  <2> QED BY <1>1, <2>2 DEF ArticlesTypeOK, CreateArticle, StaffGoes
<1>2. CASE FindBySlug(s)
  <2>1. staff[s].slug \in Slugs
    BY <1>2, <1>a, ErrandFields DEF FindBySlug
  <2>2. staff[s].slug.no < MaxSlug =>
          [title |-> staff[s].slug.title, no |-> staff[s].slug.no + 1] \in Slugs
    BY <2>1, ArticlesAssumption DEF Slugs
  <2>3. \A x \in Slugs : [at |-> "slug", slug |-> x] \in Errand
                         /\ [at |-> "insert", slug |-> x] \in Errand
    BY DEF Errand
  <2>4. staff' \in [Staff -> Errand \cup {Away}]
    BY <1>2, <1>0, <2>1, <2>2, <2>3 DEF FindBySlug, StaffGoes
  <2> QED BY <1>2, <2>4 DEF ArticlesTypeOK, FindBySlug
<1>3. CASE InsertArticle(s)
  <2>1. staff[s].slug \in Slugs
    BY <1>3, <1>a, ErrandFields DEF InsertArticle
  <2>2. lastId' \in 0..MaxArticle /\ lastId' \in Articles
    BY <1>3, ArticlesAssumption DEF InsertArticle, ArticlesTypeOK, Articles
  <2>3. [at |-> "keys", id |-> lastId', why |-> "created"] \in Errand
    BY <2>2 DEF Errand, Fates
  <2>4. staff' \in [Staff -> Errand \cup {Away}]
    BY <1>3, <1>0, <2>3 DEF InsertArticle, StaffGoes
  <2>5. article' \in [Articles -> Slugs \cup {NoSlug}]
    BY <1>3, <2>1 DEF InsertArticle, ArticlesTypeOK
  <2>6. \A i, j \in Articles : article'[i] = article'[j] => i = j \/ article'[i] = NoSlug
    BY <1>3, <2>2 DEF InsertArticle, ArticlesTypeOK, SlugTaken
  <2> QED BY <1>3, <2>2, <2>4, <2>5, <2>6 DEF ArticlesTypeOK, InsertArticle
<1>4. ASSUME NEW i \in Articles, DeleteArticle(s, i) PROVE ArticlesTypeOK'
  <2>1. [at |-> "exists", id |-> i, why |-> "deleted"] \in Errand
    BY DEF Errand, Fates
  <2> QED BY <1>4, <2>1 DEF ArticlesTypeOK, DeleteArticle, StaffGoes
<1>5. CASE FindById(s)
  <2>1. [staff[s] EXCEPT !.at = "delete"] \in Errand
    BY <1>5, <1>a, ErrandMoves DEF FindById
  <2>2. staff' \in [Staff -> Errand \cup {Away}]
    BY <1>5, <1>0, <2>1 DEF FindById, StaffGoes
  <2> QED BY <1>5, <2>2 DEF ArticlesTypeOK, FindById
<1>6. CASE DeleteRow(s)
  <2>1. [staff[s] EXCEPT !.at = "forget"] \in Errand
    BY <1>6, <1>a, ErrandMoves DEF DeleteRow
  <2>2. staff' \in [Staff -> Errand \cup {Away}]
    BY <1>6, <1>0, <2>1 DEF DeleteRow, StaffGoes
  <2>3. article' \in [Articles -> Slugs \cup {NoSlug}]
    BY <1>6 DEF DeleteRow, ArticlesTypeOK
  <2>4. \A i, j \in Articles : article'[i] = article'[j] => i = j \/ article'[i] = NoSlug
    BY <1>6 DEF DeleteRow, ArticlesTypeOK
  <2> QED BY <1>6, <2>2, <2>3, <2>4 DEF ArticlesTypeOK, DeleteRow
<1>7. CASE Forget(s)
  <2>1. [staff[s] EXCEPT !.at = "keys"] \in Errand /\ staff[s].id \in Articles
    BY <1>7, <1>a, ErrandMoves DEF Forget
  <2>2. staff' \in [Staff -> Errand \cup {Away}]
    BY <1>7, <1>0, <2>1 DEF Forget, StaffGoes
  <2>3. cached' \subseteq Articles /\ outlived' \subseteq Articles
    BY <1>7, <2>1 DEF Forget, Outlives, ArticlesTypeOK
  <2> QED BY <1>7, <2>2, <2>3 DEF ArticlesTypeOK, Forget
<1>8. CASE ListKeys(s)
  <2>1. staff[s].id \in Articles /\ staff[s].why \in Fates
    BY <1>8, <1>a, ErrandFields DEF ListKeys
  <2>2. {f[1] : f \in found} \subseteq Queries
    BY DEF ArticlesTypeOK
  <2>3. [at |-> "clear", id |-> staff[s].id, why |-> staff[s].why,
         keys |-> {f[1] : f \in found}] \in Errand
    BY <2>1, <2>2 DEF Errand
  <2>4. staff' \in [Staff -> Errand \cup {Away}]
    BY <1>8, <1>0, <2>3 DEF ListKeys, StaffGoes
  <2>5. outlived' \subseteq Articles
    BY <1>8, <2>1 DEF ListKeys, Outlives, ArticlesTypeOK
  <2> QED BY <1>8, <2>4, <2>5 DEF ArticlesTypeOK, ListKeys
<1>9. CASE ClearLists(s)
  <2>1. staff[s].id \in Articles /\ staff[s].why \in Fates
    BY <1>9, <1>a, ErrandFields DEF ClearLists
  <2>2. [at |-> "tell", id |-> staff[s].id, why |-> staff[s].why] \in Errand
    BY <2>1 DEF Errand
  <2>3. staff' \in [Staff -> Errand \cup {Away}]
    BY <1>9, <1>0, <2>2 DEF ClearLists, StaffGoes
  <2>4. gone' \subseteq Articles /\ found' \subseteq Queries \X SUBSET Articles
    BY <1>9, <2>1 DEF ClearLists, ArticlesTypeOK
  <2> QED BY <1>9, <2>3, <2>4 DEF ArticlesTypeOK, ClearLists
<1>10. CASE Tell(s)
  <2>1. staff[s].id \in Articles /\ staff[s].why \in Fates
    BY <1>10, <1>a, ErrandFields DEF Tell
  <2>2. staff' \in [Staff -> Errand \cup {Away}]
    BY <1>10, <1>0 DEF Tell, StaffGoes
  <2>3. reader' \in [Readers -> Looking \cup {Left}]
    BY <1>10 DEF Tell, ArticlesTypeOK
  <2>4. told' \subseteq Articles \X Fates /\ channel' \in {"up", "down"}
    BY <1>10, <2>1 DEF Tell, ArticlesTypeOK
  <2> QED BY <1>10, <2>2, <2>3, <2>4 DEF ArticlesTypeOK, Tell
<1>11. CASE StaffDrops(s)
  BY <1>11 DEF ArticlesTypeOK, StaffDrops, StaffGoes
<1> QED
  BY <1>1, <1>2, <1>3, <1>4, <1>5, <1>6, <1>7, <1>8, <1>9, <1>10, <1>11 DEF StaffStep

\* A step of a reader's call keeps the types.
LEMMA TypedReader ==
  ASSUME ArticlesTypeOK, NEW r \in Readers, ReaderStep(r)
  PROVE  ArticlesTypeOK'
<1>0. reader \in [Readers -> Looking \cup {Left}] /\ (reader[r] # Left => reader[r] \in Looking)
  BY DEF ArticlesTypeOK
<1>a. ASSUME NEW at, reader[r].at = at, at # "left"
      PROVE  reader[r] \in Looking
  BY <1>0, <1>a DEF Left
<1>1. ASSUME NEW i \in Articles, NEW at \in {"get", "read"}, GetArticle(r, i, at)
      PROVE  ArticlesTypeOK'
  <2>1. [at |-> at, id |-> i] \in Looking
    BY DEF Looking
  <2> QED BY <1>1, <2>1 DEF ArticlesTypeOK, GetArticle, ReaderGoes
<1>2. CASE GetCachedArticle(r)
  <2>1. [reader[r] EXCEPT !.at = "read"] \in Looking
    BY <1>2, <1>a, LookingMoves DEF GetCachedArticle
  <2>2. reader' \in [Readers -> Looking \cup {Left}]
    BY <1>2, <1>0, <2>1 DEF GetCachedArticle, ReaderGoes
  <2> QED BY <1>2, <2>2 DEF ArticlesTypeOK, GetCachedArticle
<1>3. CASE ReadRow(r)
  <2>1. [reader[r] EXCEPT !.at = "put"] \in Looking
    BY <1>3, <1>a, LookingMoves DEF ReadRow
  <2>2. reader' \in [Readers -> Looking \cup {Left}]
    BY <1>3, <1>0, <2>1 DEF ReadRow, ReaderGoes
  <2> QED BY <1>3, <2>2 DEF ArticlesTypeOK, ReadRow
<1>4. CASE CacheArticle(r)
  <2>1. reader[r].id \in Articles
    BY <1>4, <1>a, LookingMoves DEF CacheArticle
  <2> QED BY <1>4, <2>1 DEF ArticlesTypeOK, CacheArticle, ReaderGoes
<1>5. ASSUME NEW q \in Queries, Search(r, q) PROVE ArticlesTypeOK'
  <2>1. [at |-> "lookup", query |-> q] \in Looking
    BY DEF Looking
  <2> QED BY <1>5, <2>1 DEF ArticlesTypeOK, Search, ReaderGoes
<1>6. CASE GetCachedSearch(r)
  <2>1. [reader[r] EXCEPT !.at = "query"] \in Looking
    BY <1>6, <1>a, LookingMoves DEF GetCachedSearch
  <2>2. reader' \in [Readers -> Looking \cup {Left}]
    BY <1>6, <1>0, <2>1 DEF GetCachedSearch, ReaderGoes
  <2> QED BY <1>6, <2>2 DEF ArticlesTypeOK, GetCachedSearch
<1>7. ASSUME NEW result \in SUBSET Articles, SearchRows(r, result) PROVE ArticlesTypeOK'
  <2>1. reader[r].query \in Queries
    BY <1>7, <1>a, LookingMoves DEF SearchRows
  <2>2. [at |-> "keep", query |-> reader[r].query, result |-> result] \in Looking
    BY <2>1 DEF Looking
  <2>3. reader' \in [Readers -> Looking \cup {Left}]
    BY <1>7, <1>0, <2>2 DEF SearchRows, ReaderGoes
  <2> QED BY <1>7, <2>3 DEF ArticlesTypeOK, SearchRows
<1>8. CASE CacheSearch(r)
  <2>1. reader[r].query \in Queries /\ reader[r].result \in SUBSET Articles
    BY <1>8, <1>a, LookingMoves DEF CacheSearch
  <2>2. found' \subseteq Queries \X SUBSET Articles
    BY <1>8, <2>1 DEF CacheSearch, ArticlesTypeOK
  <2>3. reader' \in [Readers -> Looking \cup {Left}]
    BY <1>8, <1>0 DEF CacheSearch, ReaderGoes
  <2> QED BY <1>8, <2>2, <2>3 DEF ArticlesTypeOK, CacheSearch
<1>9. CASE ReaderDrops(r)
  BY <1>9 DEF ArticlesTypeOK, ReaderDrops, ReaderGoes
<1> QED
  BY <1>1, <1>2, <1>3, <1>4, <1>5, <1>6, <1>7, <1>8, <1>9 DEF ReaderStep

LEMMA TypedStep ==
  ASSUME ArticlesTypeOK, [ArticlesNext]_articlesVars
  PROVE  ArticlesTypeOK'
<1>1. CASE ChannelTurns
  BY <1>1 DEF ArticlesTypeOK, ChannelTurns
<1>2. CASE KeyRunsOut
  BY <1>2 DEF ArticlesTypeOK, KeyRunsOut
<1>3. CASE UNCHANGED articlesVars
  BY <1>3 DEF ArticlesTypeOK, articlesVars
<1> QED
  BY <1>1, <1>2, <1>3, TypedStaff, TypedReader DEF ArticlesNext

-------------------------------------------------------------------------------
(* Deletion.                                                                 *)

\* What a deletion has brought about stays so, whatever other calls do.
LEMMA DeletedStays ==
  ASSUME ArticlesInv, [ArticlesNext]_articlesVars, NEW i \in Articles, Old(i), NEW K
  PROVE  /\ Old(i)'
         /\ Uncached(i) => Uncached(i)'
         /\ Under(i, K) => Under(i, K)'
<1>0. ArticlesTypeOK /\ i \notin Rows
  BY DEF ArticlesInv, Old, Rows
<1>a. ASSUME UNCHANGED <<article, lastId>> PROVE Old(i)'
  BY <1>a DEF Old
<1>b. ASSUME UNCHANGED <<cached, reader, outlived>> PROVE Uncached(i) => Uncached(i)'
  BY <1>b DEF Uncached, Holding
<1>c. ASSUME UNCHANGED <<found, reader, outlived>> PROVE Under(i, K) => Under(i, K)'
  BY <1>c DEF Under, Keeping
<1>1. ASSUME NEW s \in Staff, StaffStep(s)
      PROVE  /\ Old(i)'
             /\ Uncached(i) => Uncached(i)'
             /\ Under(i, K) => Under(i, K)'
  <2>1. ASSUME NEW title \in Titles, CreateArticle(s, title) PROVE UNCHANGED <<article, lastId, cached, found, reader, outlived>>
    BY <2>1 DEF CreateArticle
  <2>2. CASE FindBySlug(s)
    BY <2>2, <1>a, <1>b, <1>c DEF FindBySlug
  <2>3. CASE InsertArticle(s)
    <3>1. lastId \in Nat /\ lastId' = lastId + 1 /\ i <= lastId /\ i \in Nat
      BY <2>3, <1>0, ArticlesAssumption DEF InsertArticle, ArticlesTypeOK, Old, Articles
    <3>2. article'[i] = article[i] /\ i <= lastId'
      BY <2>3, <1>0, <3>1 DEF InsertArticle, ArticlesTypeOK
    <3>3. Old(i)'
      BY <3>2 DEF Old
    <3> QED BY <2>3, <3>3, <1>b, <1>c DEF InsertArticle
  <2>4. ASSUME NEW j \in Articles, DeleteArticle(s, j) PROVE UNCHANGED <<article, lastId, cached, found, reader, outlived>>
    BY <2>4 DEF DeleteArticle
  <2>5. CASE FindById(s)
    BY <2>5, <1>a, <1>b, <1>c DEF FindById
  <2>6. CASE DeleteRow(s)
    <3>1. Old(i)'
      BY <2>6, <1>0 DEF DeleteRow, Old, ArticlesTypeOK
    <3> QED BY <2>6, <3>1, <1>b, <1>c DEF DeleteRow
  <2>7. CASE Forget(s)
    <3>1. UNCHANGED <<article, lastId, found, reader>> /\ outlived \subseteq outlived' /\ cached' \subseteq cached
      BY <2>7 DEF Forget, Outlives
    <3> QED BY <3>1, <1>a DEF Uncached, Under, Holding, Keeping
  <2>8. CASE ListKeys(s)
    <3>1. UNCHANGED <<article, lastId, cached, found, reader>> /\ outlived \subseteq outlived'
      BY <2>8 DEF ListKeys, Outlives
    <3> QED BY <3>1, <1>a DEF Uncached, Under, Holding, Keeping
  <2>9. CASE ClearLists(s)
    <3>1. UNCHANGED <<article, lastId, cached, reader, outlived>> /\ found' \subseteq found
      BY <2>9 DEF ClearLists
    <3> QED BY <3>1, <1>a, <1>b DEF Under, Keeping
  <2>10. CASE Tell(s)
    <3>1. UNCHANGED <<article, lastId, cached, found, outlived>>
      BY <2>10 DEF Tell
    <3>2. \A r \in Readers : reader'[r] = reader[r] \/ reader'[r] = Left
      BY <2>10 DEF Tell
    <3>3. Holding(i)' => Holding(i)
      BY <3>2 DEF Holding, Left
    <3>4. Keeping(i)' => Keeping(i)
      BY <3>2 DEF Keeping, Left
    <3> QED BY <3>1, <3>3, <3>4, <1>a DEF Uncached, Under
  <2>11. CASE StaffDrops(s)
    BY <2>11, <1>a, <1>b, <1>c DEF StaffDrops
  <2> QED
    BY <1>1, <1>a, <1>b, <1>c, <2>1, <2>2, <2>3, <2>4, <2>5, <2>6, <2>7, <2>8, <2>9, <2>10, <2>11
    DEF StaffStep
<1>2. ASSUME NEW r \in Readers, ReaderStep(r)
      PROVE  /\ Old(i)'
             /\ Uncached(i) => Uncached(i)'
             /\ Under(i, K) => Under(i, K)'
  <2>0. reader \in [Readers -> Looking \cup {Left}]
    BY <1>0 DEF ArticlesTypeOK
  <2>a. ASSUME NEW c, ReaderGoes(r, c), UNCHANGED <<article, lastId, cached, found, outlived>>,
               c.at = "put" => c.id # i,
               c.at = "keep" => i \notin c.result
        PROVE  /\ Old(i)'
               /\ Uncached(i) => Uncached(i)'
               /\ Under(i, K) => Under(i, K)'
    <3>1. \A q \in Readers : reader'[q] = reader[q] \/ reader'[q] = c
      BY <2>a, <2>0 DEF ReaderGoes
    <3>2. Holding(i)' => Holding(i)
      BY <3>1, <2>a DEF Holding
    <3>3. Keeping(i)' => Keeping(i)
      BY <3>1, <2>a DEF Keeping
    <3> QED BY <2>a, <1>a, <3>2, <3>3 DEF Uncached, Under
  <2>b. Left.at = "left"
    BY DEF Left
  <2>c. reader[r] # Left => reader[r] \in Looking
    BY <2>0
  <2>1. ASSUME NEW j \in Articles, NEW at \in {"get", "read"}, GetArticle(r, j, at)
        PROVE  /\ Old(i)'
               /\ Uncached(i) => Uncached(i)'
               /\ Under(i, K) => Under(i, K)'
    BY <2>1, <2>a DEF GetArticle
  <2>2. CASE GetCachedArticle(r)
    <3>1. reader[r] \in Looking /\ reader[r].at = "get"
      BY <2>2, <2>b, <2>c DEF GetCachedArticle
    <3>2. [reader[r] EXCEPT !.at = "read"].at = "read"
      BY <3>1, LookingMoves
    <3> QED BY <2>2, <2>a, <2>b, <3>2 DEF GetCachedArticle
  <2>3. CASE ReadRow(r)
    <3>1. reader[r] \in Looking /\ reader[r].at = "read"
      BY <2>3, <2>b, <2>c DEF ReadRow
    <3>2. /\ [reader[r] EXCEPT !.at = "put"].at = "put"
          /\ [reader[r] EXCEPT !.at = "put"].id = reader[r].id
      BY <3>1, LookingMoves
    <3>3. CASE reader[r].id \in Rows
      BY <2>3, <2>a, <3>2, <3>3, <1>0 DEF ReadRow
    <3>4. CASE reader[r].id \notin Rows
      BY <2>3, <2>a, <2>b, <3>4 DEF ReadRow
    <3> QED BY <3>3, <3>4
  <2>4. CASE CacheArticle(r)
    <3>1. reader[r].id = i => Holding(i)
      BY <2>4 DEF CacheArticle, Holding
    <3>2. \A q \in Readers : reader'[q] = reader[q] \/ reader'[q] = Left
      BY <2>4, <2>0 DEF CacheArticle, ReaderGoes
    <3>3. Holding(i)' => Holding(i)
      BY <3>2, <2>b DEF Holding
    <3>4. Keeping(i)' => Keeping(i)
      BY <3>2, <2>b DEF Keeping
    <3> QED BY <2>4, <1>a, <3>1, <3>3, <3>4 DEF Uncached, Under, CacheArticle
  <2>5. ASSUME NEW q \in Queries, Search(r, q)
        PROVE  /\ Old(i)'
               /\ Uncached(i) => Uncached(i)'
               /\ Under(i, K) => Under(i, K)'
    BY <2>5, <2>a DEF Search
  <2>6. CASE GetCachedSearch(r)
    <3>1. reader[r] \in Looking /\ reader[r].at = "lookup"
      BY <2>6, <2>b, <2>c DEF GetCachedSearch
    <3>2. [reader[r] EXCEPT !.at = "query"].at = "query"
      BY <3>1, LookingMoves
    <3> QED BY <2>6, <2>a, <2>b, <3>2 DEF GetCachedSearch
  <2>7. ASSUME NEW result \in SUBSET Articles, SearchRows(r, result)
        PROVE  /\ Old(i)'
               /\ Uncached(i) => Uncached(i)'
               /\ Under(i, K) => Under(i, K)'
    BY <2>7, <2>a, <1>0 DEF SearchRows
  <2>8. CASE CacheSearch(r)
    <3>1. i \in reader[r].result => Keeping(i)
      BY <2>8 DEF CacheSearch, Keeping
    <3>2. \A q \in Readers : reader'[q] = reader[q] \/ reader'[q] = Left
      BY <2>8, <2>0 DEF CacheSearch, ReaderGoes
    <3>3. Holding(i)' => Holding(i)
      BY <3>2, <2>b DEF Holding
    <3>4. Keeping(i)' => Keeping(i)
      BY <3>2, <2>b DEF Keeping
    <3>5. \A f \in found' : f \in found \/ f[2] = reader[r].result
      BY <2>8 DEF CacheSearch
    <3> QED BY <2>8, <1>a, <3>1, <3>3, <3>4, <3>5 DEF Uncached, Under, CacheSearch
  <2>9. CASE ReaderDrops(r)
    BY <2>9, <2>a, <2>b DEF ReaderDrops
  <2> QED
    BY <1>2, <2>1, <2>2, <2>3, <2>4, <2>5, <2>6, <2>7, <2>8, <2>9 DEF ReaderStep
<1>3. CASE ChannelTurns
  BY <1>3, <1>a, <1>b, <1>c DEF ChannelTurns
<1>4. CASE KeyRunsOut
  <2>1. UNCHANGED <<article, lastId, reader, outlived>> /\ cached' \subseteq cached /\ found' \subseteq found
    BY <1>4 DEF KeyRunsOut
  <2> QED BY <2>1, <1>a DEF Uncached, Under, Holding, Keeping
<1>5. CASE UNCHANGED articlesVars
  BY <1>5, <1>a, <1>b, <1>c DEF articlesVars
<1> QED
  BY <1>1, <1>2, <1>3, <1>4, <1>5 DEF ArticlesNext

\* An admin's call takes the deletion it is at one await further.
LEMMA DeletingGoesOn ==
  ASSUME ArticlesInv, NEW s \in Staff, StaffStep(s), NEW d, d = staff'[s]
  PROVE  Deleting(d)'
<1>0. staff \in [Staff -> Errand \cup {Away}] /\ article \in [Articles -> Slugs \cup {NoSlug}]
  BY DEF ArticlesInv, ArticlesTypeOK
<1>a. ASSUME NEW at, staff[s].at = at, at # "away"
      PROVE  staff[s] \in Errand
  BY <1>0, <1>a DEF Away
<1>b. ASSUME NEW c, StaffGoes(s, c) PROVE d = c
  BY <1>0, <1>b DEF StaffGoes
<1>c. \A c : c.at \in {"away", "slug", "insert", "exists", "tell"} => Deleting(c)'
  BY DEF Deleting
<1>d. \A c : c.at = "keys" /\ c.why = "created" => Deleting(c)'
  BY DEF Deleting, Fates
<1>e. Away.at = "away"
  BY DEF Away
<1>f. Deleting(staff[s])
  BY DEF ArticlesInv, Deletions
<1>g. PICK i : i = staff[s].id
  OBVIOUS
<1>1. ASSUME NEW title \in Titles, CreateArticle(s, title) PROVE Deleting(d)'
  BY <1>1, <1>b, <1>c DEF CreateArticle
<1>2. CASE FindBySlug(s)
  BY <1>2, <1>b, <1>c DEF FindBySlug
<1>3. CASE InsertArticle(s)
  BY <1>3, <1>b, <1>d DEF InsertArticle
<1>4. ASSUME NEW j \in Articles, DeleteArticle(s, j) PROVE Deleting(d)'
  BY <1>4, <1>b, <1>c DEF DeleteArticle
<1>5. CASE FindById(s)
  <2>1. CASE staff[s].id \in Rows
    <3>1. d = [staff[s] EXCEPT !.at = "delete"]
      BY <1>5, <1>b, <2>1 DEF FindById
    <3>2. d.at = "delete" /\ d.id = staff[s].id
      BY <1>5, <1>a, <3>1, ErrandMoves DEF FindById
    <3>3. staff[s].id <= lastId /\ lastId' = lastId
      BY <1>5, <2>1 DEF FindById, ArticlesInv, NumberedRows
    <3> QED BY <3>2, <3>3 DEF Deleting
  <2>2. CASE staff[s].id \notin Rows
    BY <1>5, <1>b, <1>c, <1>e, <2>2 DEF FindById
  <2> QED BY <2>1, <2>2
<1>6. CASE DeleteRow(s)
  <2>1. d = [staff[s] EXCEPT !.at = "forget"]
    BY <1>6, <1>b DEF DeleteRow
  <2>a. staff[s] \in Errand /\ staff[s].at = "delete"
    BY <1>6, <1>a DEF DeleteRow
  <2>b. staff[s].id \in Articles
    BY <2>a, ErrandFields
  <2>c. d.at = "forget" /\ d.id = staff[s].id
    BY <2>a, <2>1, ErrandMoves
  <2>2. d.at = "forget" /\ d.id = staff[s].id /\ staff[s].id \in Articles
    BY <2>b, <2>c
  <2>3. staff[s].id <= lastId /\ lastId' = lastId
    BY <1>6, <1>f DEF DeleteRow, Deleting
  <2>4. article'[staff[s].id] = NoSlug
    BY <1>6, <1>0, <2>2 DEF DeleteRow
  <2> QED BY <1>g, <2>2, <2>3, <2>4 DEF Deleting, Old
<1>7. CASE Forget(s)
  <2>1. d = [staff[s] EXCEPT !.at = "keys"]
    BY <1>7, <1>b DEF Forget
  <2>2. d.at = "keys" /\ d.id = staff[s].id
    BY <1>7, <1>a, <2>1, ErrandMoves DEF Forget
  <2>3. Old(i)'
    BY <1>g, <1>7, <1>f DEF Forget, Deleting, Old
  <2>4. Uncached(i)'
    BY <1>g, <1>7 DEF Forget, Uncached, Holding, Outlives
  <2> QED BY <1>g, <2>2, <2>3, <2>4 DEF Deleting
<1>8. CASE ListKeys(s)
  <2>1. /\ d.at = "clear" /\ d.id = staff[s].id /\ d.why = staff[s].why
        /\ d.keys = {f[1] : f \in found}
    BY <1>8, <1>b DEF ListKeys
  <2>a. PICK K : K = {f[1] : f \in found}
    OBVIOUS
  <2>2. CASE staff[s].why = "deleted"
    <3>1. UNCHANGED <<article, lastId, cached, found, reader>> /\ outlived \subseteq outlived'
      BY <1>8 DEF ListKeys, Outlives
    <3>2. Old(i)' /\ Uncached(i)'
      BY <1>g, <1>8, <1>f, <2>2, <3>1 DEF ListKeys, Deleting, Old, Uncached, Holding
    <3>3. Keeping(staff[s].id) => staff[s].id \in outlived'
      BY <1>8, <2>2 DEF ListKeys, Outlives
    <3>4. Under(i, K)'
      BY <1>g, <2>a, <3>1, <3>3 DEF Under, Keeping
    <3> QED BY <1>g, <2>1, <2>a, <3>1, <3>2, <3>4 DEF Deleting
  <2>3. CASE staff[s].why # "deleted"
    BY <2>1, <2>3 DEF Deleting
  <2> QED BY <2>2, <2>3
<1>9. CASE ClearLists(s)
  BY <1>9, <1>b, <1>c DEF ClearLists
<1>10. CASE Tell(s)
  <2>1. d = Away
    BY <1>10, <1>0, <1>b DEF Tell
  <2> QED BY <2>1, <1>c, <1>e
<1>11. CASE StaffDrops(s)
  BY <1>11, <1>b, <1>c, <1>e DEF StaffDrops
<1> QED
  BY <1>1, <1>2, <1>3, <1>4, <1>5, <1>6, <1>7, <1>8, <1>9, <1>10, <1>11 DEF StaffStep

\* The calls of the others, and those that a crash ended.
LEMMA OtherCalls ==
  ASSUME ArticlesInv, [ArticlesNext]_articlesVars, NEW t \in Staff
  PROVE  \/ staff'[t] \in {staff[t], Away}
         \/ StaffStep(t)
<1>0. staff \in [Staff -> Errand \cup {Away}]
  BY DEF ArticlesInv, ArticlesTypeOK
<1>1. ASSUME NEW s \in Staff, StaffStep(s), s # t
      PROVE  staff'[t] \in {staff[t], Away}
  <2>1. CASE Tell(s)
    BY <1>0, <1>1, <2>1 DEF Tell, StaffGoes
  <2>2. CASE ~Tell(s)
    <3>1. \E c : StaffGoes(s, c)
      BY <1>1, <2>2 DEF StaffStep, CreateArticle, FindBySlug, InsertArticle, DeleteArticle,
         FindById, DeleteRow, Forget, ListKeys, ClearLists, StaffDrops
    <3> QED BY <1>0, <1>1, <3>1 DEF StaffGoes
  <2> QED BY <2>1, <2>2
<1>2. ASSUME NEW r \in Readers, ReaderStep(r) PROVE staff'[t] = staff[t]
  BY <1>2 DEF ReaderStep, GetArticle, GetCachedArticle, ReadRow, CacheArticle, Search,
     GetCachedSearch, SearchRows, CacheSearch, ReaderDrops
<1>3. CASE ChannelTurns \/ KeyRunsOut \/ UNCHANGED articlesVars
  BY <1>3 DEF ChannelTurns, KeyRunsOut, articlesVars
<1> QED BY <1>1, <1>2, <1>3 DEF ArticlesNext

LEMMA DeletionsStep ==
  ASSUME ArticlesInv, [ArticlesNext]_articlesVars
  PROVE  Deletions'
<1> SUFFICES ASSUME NEW t \in Staff, NEW d, d = staff'[t] PROVE Deleting(d)'
  BY DEF Deletions, Deleting, Old, Uncached, Under, Holding, Keeping
<1>1. CASE StaffStep(t)
  BY <1>1, DeletingGoesOn
<1>2. CASE staff'[t] = Away
  BY <1>2 DEF Deleting, Away
<1>3. CASE staff'[t] = staff[t] /\ staff[t] # Away
  <2>1. staff[t] \in Errand
    BY <1>3 DEF ArticlesInv, ArticlesTypeOK
  <2>2. Deleting(staff[t])
    BY DEF ArticlesInv, Deletions
  <2>3. lastId <= lastId'
    <3>1. lastId \in Nat
      BY ArticlesAssumption DEF ArticlesInv, ArticlesTypeOK
    <3>2. lastId' = lastId \/ lastId' = lastId + 1
      BY DEF ArticlesNext, articlesVars, StaffStep, ReaderStep, ChannelTurns, KeyRunsOut,
         CreateArticle, FindBySlug, InsertArticle, DeleteArticle, FindById, DeleteRow, Forget,
         ListKeys, ClearLists, Tell, StaffDrops, GetArticle, GetCachedArticle, ReadRow,
         CacheArticle, Search, GetCachedSearch, SearchRows, CacheSearch, ReaderDrops
    <3> QED BY <3>1, <3>2
  <2>4. CASE staff[t].at = "delete"
    <3>1. staff[t].id \in Nat /\ lastId \in Nat /\ lastId' \in Nat
      <4>1. staff[t].id \in Articles
        BY <2>1, <2>4, ErrandFields
      <4>2. ArticlesTypeOK'
        BY TypedStep DEF ArticlesInv
      <4> QED BY <4>1, <4>2, ArticlesAssumption DEF ArticlesInv, ArticlesTypeOK, Articles
    <3>2. staff[t].id <= lastId
      BY <2>2, <2>4 DEF Deleting
    <3>3. staff[t].id <= lastId'
      BY <2>3, <3>1, <3>2
    <3> QED BY <1>3, <2>4, <3>3 DEF Deleting
  <2>5. CASE staff[t].at \in {"forget", "keys", "clear"}
    <3>1. staff[t].id \in Articles
      BY <2>1, <2>5, ErrandFields
    <3>2. PICK i : i = staff[t].id
      OBVIOUS
    <3>3. PICK K : K = staff[t].keys
      OBVIOUS
    <3>4. /\ Old(i) => Old(i)'
          /\ Old(i) /\ Uncached(i) => Uncached(i)'
          /\ Old(i) /\ Under(i, K) => Under(i, K)'
      BY <3>1, <3>2, DeletedStays
    <3> QED BY <1>3, <2>2, <2>5, <3>2, <3>3, <3>4 DEF Deleting
  <2>6. CASE staff[t].at \notin {"delete", "forget", "keys", "clear"}
    BY <1>3, <2>6 DEF Deleting
  <2> QED BY <2>4, <2>5, <2>6
<1> QED BY <1>1, <1>2, <1>3, OtherCalls

LEMMA NumberedRowsStep ==
  ASSUME ArticlesInv, [ArticlesNext]_articlesVars
  PROVE  NumberedRows'
<1> SUFFICES ASSUME NEW i \in Articles, article'[i] # NoSlug PROVE i <= lastId'
  BY DEF NumberedRows, Rows
<1>0. article \in [Articles -> Slugs \cup {NoSlug}] /\ lastId \in Nat /\ i \in Nat
  BY ArticlesAssumption DEF ArticlesInv, ArticlesTypeOK, Articles
<1>1. CASE UNCHANGED <<article, lastId>>
  BY <1>1 DEF ArticlesInv, NumberedRows, Rows
<1>2. ASSUME NEW s \in Staff, InsertArticle(s) PROVE i <= lastId'
  <2>1. lastId' = lastId + 1 /\ (i = lastId' \/ article'[i] = article[i])
    BY <1>0, <1>2 DEF InsertArticle
  <2>2. i = lastId' \/ i <= lastId
    BY <2>1 DEF ArticlesInv, NumberedRows, Rows
  <2> QED BY <1>0, <2>1, <2>2
<1>3. ASSUME NEW s \in Staff, DeleteRow(s) PROVE i <= lastId'
  <2>1. article[i] # NoSlug /\ lastId' = lastId
    BY <1>0, <1>3 DEF DeleteRow
  <2> QED BY <2>1 DEF ArticlesInv, NumberedRows, Rows
<1> QED
  BY <1>1, <1>2, <1>3
  DEF ArticlesNext, articlesVars, StaffStep, ReaderStep, ChannelTurns, KeyRunsOut,
      CreateArticle, FindBySlug, DeleteArticle, FindById, Forget, ListKeys, ClearLists,
      Tell, StaffDrops, GetArticle, GetCachedArticle, ReadRow, CacheArticle, Search,
      GetCachedSearch, SearchRows, CacheSearch, ReaderDrops

LEMMA GoneForGoodStep ==
  ASSUME ArticlesInv, [ArticlesNext]_articlesVars
  PROVE  GoneForGood'
<1> SUFFICES ASSUME NEW i \in gone' PROVE Old(i)' /\ Uncached(i)' /\ Under(i, {})'
  BY DEF GoneForGood
<1>1. CASE i \in gone
  <2>1. i \in Articles /\ Old(i) /\ Uncached(i) /\ Under(i, {})
    BY <1>1 DEF ArticlesInv, GoneForGood, ArticlesTypeOK
  <2> QED BY <2>1, DeletedStays
<1>2. CASE i \notin gone
  <2>1. \A s \in Staff : StaffStep(s) /\ gone' # gone => ClearLists(s)
    BY DEF StaffStep, CreateArticle, FindBySlug, InsertArticle, DeleteArticle, FindById,
       DeleteRow, Forget, ListKeys, Tell, StaffDrops
  <2>2. \A r \in Readers : ReaderStep(r) => gone' = gone
    BY DEF ReaderStep, GetArticle, GetCachedArticle, ReadRow, CacheArticle, Search,
       GetCachedSearch, SearchRows, CacheSearch, ReaderDrops
  <2>3. ChannelTurns \/ KeyRunsOut \/ UNCHANGED articlesVars => gone' = gone
    BY DEF ChannelTurns, KeyRunsOut, articlesVars
  <2>4. PICK s \in Staff : ClearLists(s)
    BY <1>2, <2>1, <2>2, <2>3 DEF ArticlesNext
  <2>5. i = staff[s].id /\ staff[s].why = "deleted" /\ staff[s].at = "clear"
    BY <1>2, <2>4 DEF ClearLists
  <2>6. Old(i) /\ Uncached(i) /\ Under(i, staff[s].keys)
    BY <2>5 DEF ArticlesInv, Deletions, Deleting
  <2>7. Under(i, {})'
    BY <2>4, <2>6 DEF ClearLists, Under, Keeping
  <2>8. Old(i)' /\ Uncached(i)'
    BY <2>4, <2>6 DEF ClearLists, Old, Uncached, Holding
  <2> QED BY <2>7, <2>8
<1> QED BY <1>1, <1>2

-------------------------------------------------------------------------------
(* Theorems.                                                                 *)

LEMMA ArticlesInductive == ArticlesSpec => []ArticlesInv
<1>1. ArticlesInit => ArticlesInv
  BY TypedInit
  DEF ArticlesInv, ArticlesInit, NumberedRows, Rows, Deletions, Deleting, GoneForGood, Away
<1>2. ArticlesInv /\ [ArticlesNext]_articlesVars => ArticlesInv'
  <2> SUFFICES ASSUME ArticlesInv, [ArticlesNext]_articlesVars PROVE ArticlesInv'
    OBVIOUS
  <2> QED BY TypedStep, NumberedRowsStep, DeletionsStep, GoneForGoodStep DEF ArticlesInv
<1> QED BY <1>1, <1>2, PTL DEF ArticlesSpec

\* Every variable has its type, and no two articles have one slug, for any
\* number of calls that look for a free slug at once (slug.util.js).
THEOREM ArticlesTyped == ArticlesSpec => []ArticlesTypeOK
<1>1. ArticlesInv => ArticlesTypeOK
  BY DEF ArticlesInv
<1> QED BY <1>1, ArticlesInductive, PTL

\* Once ArticleService.delete has cleared the caches, no reader finds the
\* article in one, unless one of them held it meanwhile.
THEOREM DeletionsLast == ArticlesSpec => []DeletedStaysGone
<1>1. ArticlesInv => DeletedStaysGone
  BY DEF ArticlesInv, GoneForGood, Uncached, Under, DeletedStaysGone
<1> QED BY <1>1, ArticlesInductive, PTL

-------------------------------------------------------------------------------
(* The two side by side.                                                     *)

\* A behaviour that TLC runs is one of news-service and one of notification-service, with the
\* fairness of the latter; so what is proved of them holds of it.
THEOREM InboxInstance == MCSpec => FairSpec /\ ArticlesSpec
<1>1. MCInit => Init /\ ArticlesInit
  BY DEF MCInit
<1>2. [MCNext]_<<vars, articlesVars, part, spent>> => [Next]_vars /\ [ArticlesNext]_articlesVars
  BY DEF MCNext, InboxNext, Next
<1> QED BY <1>1, <1>2, PTL DEF MCSpec, FairSpec, Spec, ArticlesSpec

\* TypesOK: rows, counters, articles, copies and calls have their types in either.
THEOREM InboxPartsTyped == MCSpec => []TypesOK
  BY InboxInstance, InboxTyped, ArticlesTyped, PTL DEF TypesOK, FairSpec
===============================================================================
