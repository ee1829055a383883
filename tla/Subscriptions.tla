----------------------------- MODULE Subscriptions -----------------------------
(***************************************************************************)
(* subscription-service: the life of a user's subscription rows.           *)
(*                                                                         *)
(* The gRPC calls, the handlers of payment.* and user.email_verified, and  *)
(* the expiry worker share the subscriptions table, the Redis cache that   *)
(* checkAccess reads through, and the subscription-events exchange.  Every *)
(* handler reads a row, writes by its id, invalidates the cache and        *)
(* publishes; each of these awaits is a step, so handlers interleave.      *)
(* A day may begin between any two steps.  A circuit breaker that rejects, *)
(* and a crash, end a handler between two steps (Throw, WorkerThrow);      *)
(* failures of Redis and RabbitMQ are swallowed where the code has a catch.*)
(*                                                                         *)
(* Time is counted in days.  auth-service is reduced to what it keeps: the *)
(* sub_type of the last event (external, from auth-service's consumer).    *)
(***************************************************************************)
EXTENDS Naturals, Sequences, FiniteSets

CONSTANTS Users,
          Requests,   \* calls and events that can be in progress at once
          PaidTiers,  \* sub_type values a user can buy
          AdminTiers, \* sub_type values an admin can set
          TrialTier,  \* sub_type of a trial
          TrialDays,  \* possible lengths of a trial
          PlanDays,   \* possible lengths of a paid period
          GraceDays,  \* EXPIRY.GRACE_PERIOD_DAYS
          Calls,      \* the kinds of handlers that run
          Failing,    \* what can fail: "database", "redis", "rabbit", "process"
          MaxRows,    \* bound: rows of the table
          MaxDay      \* bound: the last day

ASSUME TierAssumption == PaidTiers \cup AdminTiers \cup {TrialTier} \subseteq Nat
ASSUME TimeAssumption == /\ TrialDays \cup PlanDays \subseteq Nat
                         /\ {GraceDays, MaxRows, MaxDay} \subseteq Nat

VARIABLES
  rows,       \* the subscriptions table, in the order of created_at
  now,        \* the day
  cache,      \* sub:user:<id> in Redis: the cached row's index, 0 without a key
  req,        \* calls and events in progress
  worker,     \* the expiry worker
  view,       \* sub_type that auth-service puts into the user's JWT
  history     \* what happened to the user so far; read by the properties only

vars == <<rows, now, cache, req, worker, view, history>>

-------------------------------------------------------------------------------
(* The table.                                                                *)

Levels   == PaidTiers \cup AdminTiers \cup {TrialTier, 0}
Statuses == {"active", "expired", "canceled", "terminated"}
Row      == [user : Users, status : Statuses, sub_type : Levels,
             ended_at : Nat,
             grace : Nat,                  \* grace_period_end, 0 for NULL
             kind : {"trial", "bought"}]   \* issued_by System, free_trial false; or not

RowsOf(u)      == {i \in DOMAIN rows : rows[i].user = u}
With(u, S)     == {i \in RowsOf(u) : rows[i].status \in S}
Live(u)        == With(u, {"active", "expired"})

\* ORDER BY created_at DESC, first(): the last of a set of rows, as a set.
Latest(S)      == {i \in S : \A j \in S : j <= i}

\* findActiveByUserId
ActiveRow(u)   == Latest(With(u, {"active"}))

\* Fault: a status that the table does not know.
UpdateByIdMisspelt(i, status, level) ==
  rows' = [rows EXCEPT ![i].status = "removed", ![i].sub_type = level]

\* updateById: whatever the row has become since it was read.
UpdateById(i, status, level) ==
  rows' = [rows EXCEPT ![i].status = status, ![i].sub_type = level]

\* create
Create(u, level, days, k) ==
  rows' = Append(rows, [user |-> u, status |-> "active", sub_type |-> level,
                        ended_at |-> days, grace |-> 0, kind |-> k])

-------------------------------------------------------------------------------
(* Requests in progress.                                                     *)

Ops   == {"check", "cancel", "restore", "remove", "replace", "trial"}
Steps == {"load", "fill", "write", "find", "create", "invalidate", "publish"}
Idle  == [at |-> "idle"]
Req   == [at : Steps, op : Ops, user : Users,
          row : Nat,       \* the row read, to be written or cached, else 0
          tier : Levels,   \* the sub_type to store, then to publish
          till : Nat]      \* ended_at of the row to create, else 0

WorkerSteps == {"idle", "expired", "terminated"}
Worker      == [at : WorkerSteps,      \* the bulk update that was last done
                todo : SUBSET Nat,     \* the rows it returned, not yet handled
                row : Nat]             \* the one to publish for, 0 for none

Handling(u) == {r \in Requests : req[r] # Idle /\ req[r].user = u}
Readers(u)  == {r \in Handling(u) : req[r].op = "check"}
Writing(u)  == \/ Handling(u) \ Readers(u) # {}
               \/ \E i \in worker.todo : rows[i].user = u

\* History of a user.  "overlap": two of the writing handlers (the worker's are
\* among them) were in progress at once; the properties claim little of such a
\* user, and nothing else is remembered.  "crossed": a checkAccess overlapped a
\* writing handler.  "lost": a handler lost a step.  "restored": a row was
\* restored.  "stacked": two rows were active or expired at once.
Tags         == {"overlap", "crossed", "lost", "restored", "stacked"}
Adds(h, tags) == IF "overlap" \in h \cup tags THEN {"overlap"} ELSE h \cup tags
Marks(u, tags) == history' = [history EXCEPT ![u] = Adds(@, tags)]
Clean(u, tags) == history[u] \cap tags = {}

\* What a new handler of the user overlaps, and what a bulk update of the rows X.
Clashes(u, op) ==
  {tag \in {"overlap", "crossed"} :
     IF tag = "overlap" THEN op # "check" /\ Writing(u)
     ELSE IF op = "check" THEN Writing(u) ELSE Readers(u) # {}}
BulkClashes(u, X) ==
  {tag \in {"overlap", "crossed"} :
     /\ X \cap RowsOf(u) # {}
     /\ IF tag = "overlap" THEN Handling(u) \ Readers(u) # {} ELSE Readers(u) # {}}

TypeOK ==
  /\ rows \in Seq(Row)
  /\ now \in Nat
  /\ cache \in [Users -> Nat]
  /\ req \in [Requests -> Req \cup {Idle}]
  /\ worker \in Worker
  /\ view \in [Users -> Levels]
  /\ history \in [Users -> SUBSET Tags]

Init ==
  /\ rows = <<>>
  /\ now = 0
  /\ cache = [u \in Users |-> 0]
  /\ req = [r \in Requests |-> Idle]
  /\ worker = [at |-> "idle", todo |-> {}, row |-> 0]
  /\ view = [u \in Users |-> 0]
  /\ history = [u \in Users |-> {}]

-------------------------------------------------------------------------------
(* The first await of each handler: what it reads, and what that decides.     *)
(* Handlers that find nothing to do return or throw here: no step.            *)

Start(r, u, op, step, i, tier, till) ==
  /\ op \in Calls /\ req[r] = Idle
  /\ req' = [req EXCEPT ![r] = [at |-> step, op |-> op, user |-> u, row |-> i,
                                tier |-> tier, till |-> till]]
  /\ Marks(u, Clashes(u, op))
  /\ UNCHANGED <<rows, now, cache, worker, view>>

\* A miss, or an error of Redis.  (A hit is answered from the cache.)
CheckAccess(r, u) == Start(r, u, "check", "load", 0, 0, 0)

CancelSubscription(r, u)  == \E i \in ActiveRow(u) : Start(r, u, "cancel", "write", i, 0, 0)
HandlePaymentRefunded(r, u) == \E i \in ActiveRow(u) : Start(r, u, "cancel", "write", i, 0, 0)
AdminRemoveSubscription(r, u) ==
  \E i \in ActiveRow(u) : Start(r, u, "remove", "write", i, 0, 0)

\* The latest canceled or expired row, if its period or its grace is not over.
RestoreSubscription(r, u) ==
  \E i \in Latest(With(u, {"canceled", "expired"})) :
    /\ rows[i].status = "canceled" => rows[i].ended_at >= now
    /\ rows[i].status = "expired"  => rows[i].grace >= now
    /\ Start(r, u, "restore", "write", i, 0, 0)

\* Fault: the active row is left alone.
ReplaceNothing(r, u, tier, days) ==
  Start(r, u, "replace", "create", 0, tier, now + days)

\* The end of the new period is fixed before the active row is read.
Replace(r, u, tier, days) ==
  \/ /\ ActiveRow(u) = {}
     /\ Start(r, u, "replace", "create", 0, tier, now + days)
  \/ \E i \in ActiveRow(u) : Start(r, u, "replace", "write", i, tier, now + days)

HandlePaymentSucceeded(r, u) ==
  \E tier \in PaidTiers, days \in PlanDays : Replace(r, u, tier, days)
AdminSetSubscription(r, u) ==
  \E tier \in AdminTiers, days \in PlanDays : Replace(r, u, tier, days)

\* hasUsedTrial
CreateTrialSubscription(r, u) ==
  /\ \A i \in RowsOf(u) : rows[i].kind = "trial"
  /\ Start(r, u, "trial", "find", 0, 0, 0)

-------------------------------------------------------------------------------
(* The later awaits.                                                         *)

Goes(r, step) == req' = [req EXCEPT ![r].at = step, ![r].row = 0]
Announces(r, tier) ==
  req' = [req EXCEPT ![r].at = "invalidate", ![r].row = 0, ![r].tier = tier, ![r].till = 0]
Ends(r)       == req' = [req EXCEPT ![r] = Idle]

\* checkAccess: the database after a miss.
Load(r) ==
  LET u == req[r].user IN
  /\ req[r].at = "load"
  /\ \/ ActiveRow(u) = {} /\ Ends(r)
     \/ \E i \in ActiveRow(u) :
          req' = [req EXCEPT ![r].at = "fill", ![r].row = i]
  /\ UNCHANGED <<rows, now, cache, worker, view, history>>

\* setSubscription; an error is swallowed.
Fill(r) ==
  /\ req[r].at = "fill"
  /\ \/ cache' = [cache EXCEPT ![req[r].user] = req[r].row]
     \/ "redis" \in Failing /\ UNCHANGED cache
  /\ Ends(r)
  /\ UNCHANGED <<rows, now, worker, view, history>>

\* cancelSubscription, handlePaymentRefunded
WriteCanceled(r) ==
  LET i == req[r].row IN
  /\ req[r].at = "write" /\ req[r].op = "cancel"
  /\ UpdateById(i, "canceled", rows[i].sub_type)
  /\ Goes(r, "invalidate")
  /\ UNCHANGED <<now, cache, worker, view, history>>

\* adminRemoveSubscription, and the row that a new one replaces
WriteTerminated(r) ==
  /\ req[r].at = "write" /\ req[r].op \in {"remove", "replace"}
  /\ UpdateById(req[r].row, "terminated", 0)
  /\ Goes(r, IF req[r].op = "remove" THEN "invalidate" ELSE "create")
  /\ UNCHANGED <<now, cache, worker, view, history>>

\* History: the user's row i is live from now on.
Stacking(u, i) == IF Live(u) \ {i} # {} THEN {"stacked"} ELSE {}

\* restoreSubscription: the event carries the row's sub_type as written.
WriteRestored(r) ==
  LET i == req[r].row IN
  /\ req[r].at = "write" /\ req[r].op = "restore"
  /\ rows' = [rows EXCEPT ![i].status = "active", ![i].grace = 0]
  /\ Announces(r, rows[i].sub_type)
  /\ Marks(req[r].user, {"restored"} \cup Stacking(req[r].user, i))
  /\ UNCHANGED <<now, cache, worker, view>>

\* createTrialSubscription: a trial in place is announced again, a bought
\* subscription in place ends it.
FindForTrial(r) ==
  LET u == req[r].user IN
  /\ req[r].at = "find"
  /\ \/ ActiveRow(u) = {} /\ Goes(r, "create")
     \/ \E i \in ActiveRow(u) :
          IF rows[i].kind = "trial"
          THEN Announces(r, rows[i].sub_type)
          ELSE Ends(r)
  /\ UNCHANGED <<rows, now, cache, worker, view, history>>

\* adminSetSubscription, handlePaymentSucceeded
CreateBought(r) ==
  /\ req[r].at = "create" /\ req[r].op = "replace"
  /\ Len(rows) < MaxRows
  /\ Create(req[r].user, req[r].tier, req[r].till, "bought")
  /\ Announces(r, req[r].tier)
  /\ Marks(req[r].user, Stacking(req[r].user, 0))
  /\ UNCHANGED <<now, cache, worker, view>>

\* createTrialSubscription: short when the signup looks like abuse.
CreateTrial(r) ==
  /\ req[r].at = "create" /\ req[r].op = "trial"
  /\ Len(rows) < MaxRows
  /\ \E days \in TrialDays : Create(req[r].user, TrialTier, now + days, "trial")
  /\ Announces(r, TrialTier)
  /\ Marks(req[r].user, Stacking(req[r].user, 0))
  /\ UNCHANGED <<now, cache, worker, view>>

\* Fault: the key stays.
InvalidateNothing(r) ==
  /\ req[r].at = "invalidate"
  /\ Goes(r, "publish")
  /\ UNCHANGED <<rows, now, cache, worker, view, history>>

\* invalidateSubscription; an error is swallowed.
Invalidate(r) ==
  LET u == req[r].user IN
  /\ req[r].at = "invalidate"
  /\ \/ cache' = [cache EXCEPT ![u] = 0] /\ UNCHANGED history
     \/ "redis" \in Failing /\ Marks(u, {"lost"}) /\ UNCHANGED cache
  /\ Goes(r, "publish")
  /\ UNCHANGED <<rows, now, worker, view>>

\* subscription.activated and .reactivated carry a sub_type, .terminated stands
\* for 0, and .canceled changes nothing at auth-service.
Sees(u, level) == view' = [view EXCEPT ![u] = level]

\* publishEvent.  An error is swallowed, or (trial) leaves it to the broker to
\* deliver the event again: another CreateTrialSubscription.
Publish(r) ==
  LET u == req[r].user IN
  /\ req[r].at = "publish"
  /\ \/ /\ IF req[r].op = "cancel" THEN UNCHANGED view
           ELSE Sees(u, IF req[r].op = "remove" THEN 0 ELSE req[r].tier)
        /\ UNCHANGED history
     \/ "rabbit" \in Failing /\ Marks(u, {"lost"}) /\ UNCHANGED view
  /\ Ends(r)
  /\ UNCHANGED <<rows, now, cache, worker>>

\* A call of the database is rejected, or the process dies.
Throw(r) ==
  /\ \/ "process" \in Failing /\ req[r] # Idle
     \/ "database" \in Failing /\ req[r].at \in {"load", "write", "find", "create"}
  /\ Ends(r)
  /\ IF req[r].op = "check" THEN UNCHANGED history ELSE Marks(req[r].user, {"lost"})
  /\ UNCHANGED <<rows, now, cache, worker, view>>

-------------------------------------------------------------------------------
(* The expiry worker, and time.                                              *)

BulkUpdate(X, f(_)) ==
  rows' = [i \in DOMAIN rows |-> IF i \in X THEN f(rows[i]) ELSE rows[i]]

\* Fault: the grace period ends with the period itself.
ExpireActiveWithoutGrace ==
  LET X == {i \in DOMAIN rows : rows[i].status = "active" /\ rows[i].ended_at < now} IN
  /\ worker.at = "idle"
  /\ BulkUpdate(X, LAMBDA x : [x EXCEPT !.status = "expired", !.grace = x.ended_at])
  /\ worker' = [at |-> "expired", todo |-> X, row |-> 0]
  /\ UNCHANGED <<now, cache, req, view, history>>

\* expireActive: the grace period starts when the worker finds the row.
ExpireActive ==
  LET X == {i \in DOMAIN rows : rows[i].status = "active" /\ rows[i].ended_at < now} IN
  /\ worker.at = "idle"
  /\ BulkUpdate(X, LAMBDA x : [x EXCEPT !.status = "expired", !.grace = now + GraceDays])
  /\ worker' = [at |-> "expired", todo |-> X, row |-> 0]
  /\ history' = [u \in Users |-> Adds(history[u], BulkClashes(u, X))]
  /\ UNCHANGED <<now, cache, req, view>>

\* terminateExpired
TerminateExpired ==
  LET X == {i \in DOMAIN rows : rows[i].status = "expired" /\ rows[i].grace < now} IN
  /\ worker.at = "expired" /\ worker.todo = {}
  /\ BulkUpdate(X, LAMBDA x : [x EXCEPT !.status = "terminated", !.sub_type = 0])
  /\ worker' = [at |-> IF X = {} THEN "idle" ELSE "terminated", todo |-> X, row |-> 0]
  /\ history' = [u \in Users |-> Adds(history[u], BulkClashes(u, X))]
  /\ UNCHANGED <<now, cache, req, view>>

\* For each row returned: invalidate, errors swallowed ...
WorkerInvalidates(i) ==
  LET u == rows[i].user IN
  /\ i \in worker.todo /\ worker.row = 0
  /\ \/ cache' = [cache EXCEPT ![u] = 0] /\ UNCHANGED history
     \/ "redis" \in Failing /\ Marks(u, {"lost"}) /\ UNCHANGED cache
  /\ worker' = [worker EXCEPT !.row = i]
  /\ UNCHANGED <<rows, now, req, view>>

\* Fault: the expired rows are announced as terminated too.
WorkerPublishesEarly ==
  /\ worker.row # 0
  /\ Sees(rows[worker.row].user, 0)
  /\ worker' = [at   |-> IF worker.at = "terminated" /\ worker.todo = {worker.row}
                         THEN "idle" ELSE worker.at,
                todo |-> worker.todo \ {worker.row}, row |-> 0]
  /\ UNCHANGED <<rows, now, cache, req, history>>

\* ... then publish, errors swallowed.  After the last terminated row the
\* reminders are sent (they change no state here) and the timer is set.
WorkerPublishes ==
  LET u == rows[worker.row].user IN
  /\ worker.row # 0
  /\ \/ /\ IF worker.at = "terminated" THEN Sees(u, 0) ELSE UNCHANGED view
        /\ UNCHANGED history
     \/ "rabbit" \in Failing /\ Marks(u, {"lost"}) /\ UNCHANGED view
  /\ worker' = [at   |-> IF worker.at = "terminated" /\ worker.todo = {worker.row} THEN "idle" ELSE worker.at,
                todo |-> worker.todo \ {worker.row}, row |-> 0]
  /\ UNCHANGED <<rows, now, cache, req>>

\* Fault: the timer is set only after a run that succeeds.
WorkerThrowStops ==
  /\ "database" \in Failing
  /\ worker.at = "expired" /\ worker.todo = {}
  /\ worker' = [worker EXCEPT !.at = "stopped"]
  /\ UNCHANGED <<rows, now, cache, req, view, history>>

\* terminateExpired is rejected: the catch logs it and the timer is set.
WorkerThrow ==
  /\ "database" \in Failing
  /\ worker.at = "expired" /\ worker.todo = {}
  /\ worker' = [worker EXCEPT !.at = "idle"]
  /\ UNCHANGED <<rows, now, cache, req, view, history>>

\* The process dies during a run; a new one starts the worker again.
WorkerCrash ==
  /\ "process" \in Failing
  /\ worker.at # "idle"
  /\ worker' = [at |-> "idle", todo |-> {}, row |-> 0]
  /\ history' = [u \in Users |->
       Adds(history[u], IF worker.todo \cap RowsOf(u) = {} THEN {} ELSE {"lost"})]
  /\ UNCHANGED <<rows, now, cache, req, view>>

NextDay ==
  /\ now < MaxDay
  /\ now' = now + 1
  /\ UNCHANGED <<rows, cache, req, worker, view, history>>

\* The TTL of sub:user:<id>.
CacheExpires(u) ==
  /\ cache' = [cache EXCEPT ![u] = 0]
  /\ UNCHANGED <<rows, now, req, worker, view, history>>

-------------------------------------------------------------------------------

Called(r, u) ==
  \/ CheckAccess(r, u)          \/ CancelSubscription(r, u)
  \/ RestoreSubscription(r, u)  \/ AdminRemoveSubscription(r, u)
  \/ AdminSetSubscription(r, u) \/ HandlePaymentSucceeded(r, u)
  \/ HandlePaymentRefunded(r, u) \/ CreateTrialSubscription(r, u)

Continues(r) ==
  \/ Load(r)          \/ Fill(r)          \/ WriteCanceled(r) \/ WriteTerminated(r)
  \/ WriteRestored(r) \/ FindForTrial(r)  \/ CreateBought(r)  \/ CreateTrial(r)
  \/ Invalidate(r)    \/ Publish(r)       \/ Throw(r)

WorkerRow  == WorkerPublishes \/ \E i \in DOMAIN rows : WorkerInvalidates(i)
WorkerStep == \/ ExpireActive \/ TerminateExpired \/ WorkerRow
              \/ WorkerThrow  \/ WorkerCrash

Next == \/ \E r \in Requests, u \in Users : Called(r, u)
        \/ \E r \in Requests : Continues(r)
        \/ WorkerStep
        \/ NextDay
        \/ \E u \in Users : CacheExpires(u)

\* The timer fires, the loop over the rows goes on, terminateExpired is not
\* the call that is rejected for ever, and the process does not die for ever.
Fairness == /\ WF_vars(ExpireActive) /\ WF_vars(WorkerRow)
            /\ SF_vars(TerminateExpired)
            /\ <>[][~WorkerCrash]_vars

Spec     == Init /\ [][Next]_vars
FairSpec == Spec /\ Fairness

-------------------------------------------------------------------------------
(* Properties.                                                               *)

\* The worker takes a row from its user, and with its last event the tier out of
\* the user's JWT, only when all of the grace period after ended_at is over, whatever
\* else was written to the row and however late the event goes out.  It is the tier
\* that the grace period keeps, as auth-service's consumer says (consumer.js:103-106).
\* checkAccess keeps no access: Load finds active rows only and denies as soon as
\* ExpireActive has run, which is not what the service's document promises
\* (docs/subscription/subscription-service-spec.md:43 and :282).
TierKeptInGrace ==
  [][LET InGrace(i) == rows[i].ended_at + GraceDays >= now IN
     /\ TerminateExpired => \A i \in DOMAIN rows :
          rows'[i].status # rows[i].status => ~InGrace(i)
     /\ WorkerPublishes => \A u \in Users :
          view'[u] # view[u] => ~InGrace(worker.row)]_vars

\* A user whose writing handlers never overlapped, and who restored nothing, has
\* at most one active row, and it is the last one made.
OneActive ==
  \A u \in Users : Clean(u, {"overlap", "restored"}) =>
    \A i \in With(u, {"active"}) : \A j \in RowsOf(u) : j <= i

\* When no handler of the user overlapped another or lost a step, the cache is
\* empty or holds the row that the database would answer with.
CacheCoherent ==
  \A u \in Users :
    /\ ~Writing(u)
    /\ Clean(u, {"overlap", "crossed", "lost"})
    /\ cache[u] # 0
    => cache[u] \in ActiveRow(u)

\* When no handler of the user overlapped another or lost a step, and no two of
\* the rows were ever live together, the sub_type in the user's JWT is that of
\* the live row, and 0 once every row is terminated.
TierFollowsRows ==
  \A u \in Users : ~Writing(u) /\ Clean(u, {"overlap", "lost", "stacked"}) =>
    /\ \A i \in Live(u) : view[u] = rows[i].sub_type
    /\ RowsOf(u) = With(u, {"terminated"}) => view[u] = 0

\* Every row past its period, or past its grace, is found by the worker,
\* through failed runs and restarts.
Lapsed(i) == /\ i \in DOMAIN rows
             /\ \/ rows[i].status = "active"  /\ rows[i].ended_at < now
                \/ rows[i].status = "expired" /\ rows[i].grace < now
LapsedRowsAreFound == \A i \in 1..MaxRows : Lapsed(i) ~> ~Lapsed(i)

\* docs/subscription/subscription-service-spec.md:414: "One active subscription
\* per user - no stacking", here for a user whose handlers never overlapped.
\* (Refuted: cancel, pay, restore.)
NoStacking ==
  \A u \in Users : Clean(u, {"overlap"}) =>
    \A i, j \in With(u, {"active"}) : i = j

\* docs/subscription/subscription-service-spec.md:417: the grace period "gives
\* users time to renew without losing access".  A user who restored nothing, and
\* none of whose handlers overlapped another or lost a step, has the tier of the
\* one row that is live.  (Refuted: a payment in the grace period leaves the old
\* row expired; it is terminated later, and that event takes the tier of the new
\* row away.)
RenewedKeepsTier ==
  \A u \in Users : ~Writing(u) /\ Clean(u, {"overlap", "lost", "restored"}) =>
    \A i \in Live(u) : Live(u) = {i} => view[u] = rows[i].sub_type
===============================================================================
