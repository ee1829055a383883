---------------------------- MODULE Administration ----------------------------
(***************************************************************************)
(* admin-service behind the gateway: roles and bans, calls forwarded to    *)
(* other services, bulk notifications and the dashboard.  An admin's call  *)
(* goes from the gateway's resolver to admin-service, through its awaits   *)
(* and back; gateway and service each write an audit line of their own.    *)
(*                                                                         *)
(* Simplifications.  A call that is refused leaves nothing behind, so its  *)
(* error is not kept (Calls follows the errors).  Calls that only read and *)
(* are not cached (listUsers, getUser) change nothing and are left out.    *)
(* Forwarded calls are told apart by the service that answers them; what   *)
(* they do there is the business of that service.                          *)
(***************************************************************************)
EXTENDS Integers, FiniteSets

CONSTANTS Staff,      \* people with an account, or about to have one
          Desks,      \* admin calls that can be under way at once
          Matters,    \* which calls are made, a subset of Kinds
          BatchSize   \* BATCH_SIZE of sendBulkNotification

VARIABLES
  known,      \* users: the ids that exist
  role,       \* users.role
  banned,     \* users with banned_at
  claims,     \* users with an unexpired access token that says admin
  desk,       \* admin calls under way
  stats,      \* admin:dashboard:stats, or NoStats
  \* history variables, read by the properties only
  outcome,    \* of the call that ended with the last step: kind, done, logged, audited
  outdated,   \* "yes" once a call changed a role for one who was no admin by then
  blurred     \* whether the counts in the cache were taken at different moments

userVars   == <<known, role, banned>>
adminVars  == <<userVars, claims, desk, stats, outcome, outdated, blurred>>

ASSUME AdminAssumption == IsFiniteSet(Staff) /\ BatchSize \in Nat \ {0}

-------------------------------------------------------------------------------

Changes  == {"promote", "demote", "ban", "unban"}
Forwards == {"news", "subscriptions", "promo codes", "notification"}
Lists    == {"article stats", "subscription stats", "promo code list"}
Passed   == Forwards \cup Lists
Kinds    == Changes \cup Passed \cup {"bulk", "stats"}
\* What the gateway writes no audit line of.
Unaudited == Lists \cup {"stats"}
AdminSteps == {"arrive", "look", "write", "send", "read", "count", "keep", "reply", "late"}
Unread   == -1
Amount   == Unread..Cardinality(Staff)
NoStats  == [all |-> Unread, banned |-> Unread]
Stats    == [all : Amount, banned : Amount]

Free == [at |-> "free"]
Silent == outcome' = Free
Call0(k, a, u) ==
  [at |-> "arrive", kind |-> k, by |-> a, about |-> u, done |-> "no", logged |-> "no",
   hurt |-> "no", crossed |-> "no", left |-> {}, batch |-> {}, sent |-> {}, missed |-> {},
   got |-> [s \in Staff |-> 0], counts |-> NoStats]
Results == {"no", "yes", "nothing to do"}
AdminCall ==
  [at : AdminSteps, kind : Kinds, by : Staff, about : Staff,
   done : Results, logged : {"no", "yes"}, hurt : {"no", "yes"},
   crossed : {"no", "yes"}, left : SUBSET Staff, batch : SUBSET Staff, sent : SUBSET Staff, missed : SUBSET Staff,
   got : [Staff -> 0..2], counts : Stats]
Outcome == [kind : Kinds, done : Results, logged : {"no", "yes"}, audited : {"no", "yes"},
            hurt : {"no", "yes"}]

AdminTypeOK ==
  /\ known \subseteq Staff
  /\ role \in [Staff -> {0, 1}]
  /\ banned \subseteq Staff
  /\ claims \subseteq Staff
  /\ desk \in [Desks -> AdminCall \cup {Free}]
  /\ stats \in Stats
  /\ outcome \in Outcome \cup {Free}
  /\ outdated \in {"no", "yes"}
  /\ blurred \in {"no", "yes"}

AdminInit ==
  /\ known \in SUBSET Staff
  /\ role \in [Staff -> {0, 1}]
  /\ \A s \in Staff \ known : role[s] = 0
  /\ \E s \in known : role[s] = 1
  /\ banned \in SUBSET known
  /\ claims = {}
  /\ desk = [d \in Desks |-> Free]
  /\ stats = NoStats
  /\ outcome = Free
  /\ outdated = "no"
  /\ blurred = "no"

-------------------------------------------------------------------------------
(* The users themselves.                                                     *)

\* A role of 0 is the default.  New users make counts in progress disagree.
SignUp(s) ==
  /\ s \notin known
  /\ known' = known \cup {s}
  /\ blurred' = IF \E d \in Desks : desk[d].at \in {"count", "keep"} THEN "yes" ELSE blurred
  /\ Silent /\ UNCHANGED <<role, banned, claims, desk, stats, outdated>>

\* login and refreshTokens: the role of the row goes into the token.  Both ask
\* for user.banned_at, a column neither of their queries selects.
SignIn(s) ==
  /\ s \in known /\ role[s] = 1
  /\ claims' = claims \cup {s}
  /\ Silent /\ UNCHANGED <<userVars, desk, stats, outdated, blurred>>

ClaimExpires(s) ==
  /\ s \in claims
  /\ claims' = claims \ {s}
  /\ Silent /\ UNCHANGED <<userVars, desk, stats, outdated, blurred>>

-------------------------------------------------------------------------------
(* From the gateway to admin-service.                                        *)

\* The directive @requireRole reads the role of the token.
Privileged(a) == a \in claims

About(u) == {d \in Desks : desk[d] # Free /\ desk[d].kind \in Changes /\ desk[d].about = u}

\* updateUserRole, banUser and unbanUser of the gateway.
AskChange(d, k, a, u) ==
  /\ desk[d] = Free /\ k \in Matters \cap Changes
  /\ Privileged(a)
  /\ desk' = [e \in Desks |->
                 IF e = d THEN [Call0(k, a, u) EXCEPT !.crossed = IF About(u) = {} THEN "no" ELSE "yes"]
                 ELSE IF e \in About(u) THEN [desk[e] EXCEPT !.crossed = "yes"]
                 ELSE desk[e]]
  /\ Silent /\ UNCHANGED <<userVars, claims, stats, outdated, blurred>>

\* The mutations that call RPCs which admin-service passes on.
AskForward(d, k, a) ==
  /\ desk[d] = Free /\ k \in Matters \cap Forwards
  /\ Privileged(a)
  /\ desk' = [desk EXCEPT ![d] = Call0(k, a, a)]
  /\ Silent /\ UNCHANGED <<userVars, claims, stats, outdated, blurred>>

\* adminArticleStats, adminSubscriptionStats and adminListPromoCodes: these only read.
AskList(d, k, a) ==
  /\ desk[d] = Free /\ k \in Matters \cap Lists
  /\ Privileged(a)
  /\ desk' = [desk EXCEPT ![d] = Call0(k, a, a)]
  /\ Silent /\ UNCHANGED <<userVars, claims, stats, outdated, blurred>>

\* adminSendBulkNotification, with recipients or with none.  The list may name
\* somebody twice, who then is as good as two recipients.
AskBulk(d, a, list) ==
  /\ desk[d] = Free /\ "bulk" \in Matters
  /\ Privileged(a)
  /\ desk' = [desk EXCEPT ![d] = [Call0("bulk", a, a) EXCEPT !.left = list]]
  /\ Silent /\ UNCHANGED <<userVars, claims, stats, outdated, blurred>>

\* dashboardStats.
AskStats(d, a) ==
  /\ desk[d] = Free /\ "stats" \in Matters
  /\ Privileged(a)
  /\ desk' = [desk EXCEPT ![d] = Call0("stats", a, a)]
  /\ Silent /\ UNCHANGED <<userVars, claims, stats, outdated, blurred>>

Moves(d, step) == desk' = [desk EXCEPT ![d].at = step]

\* Over, with or without the gateway's audit line.
Closes(d, audited) ==
  /\ desk' = [desk EXCEPT ![d] = Free]
  /\ outcome' = [kind |-> desk[d].kind, done |-> desk[d].done, logged |-> desk[d].logged,
                 audited |-> audited, hurt |-> desk[d].hurt]

Refuses(d) == desk' = [desk EXCEPT ![d] = Free] /\ Silent

\* requireAdmin once more, for the token may have run out on the way.
Admitted(d) == Privileged(desk[d].by)

\* Fault: admins may ban, demote and promote themselves.
ServeChangeToAnyone(d) ==
  /\ desk[d].at = "arrive" /\ desk[d].kind \in Changes
  /\ IF Admitted(d)
       THEN Moves(d, "look") /\ Silent
       ELSE Refuses(d)
  /\ UNCHANGED <<userVars, claims, stats, outdated, blurred>>

\* The controllers of these three, and the first lines of their services: nobody
\* changes their own role or bans themselves.
ServeChange(d) ==
  /\ desk[d].at = "arrive" /\ desk[d].kind \in Changes
  /\ IF Admitted(d) /\ (desk[d].kind = "unban" \/ desk[d].by # desk[d].about)
       THEN Moves(d, "look") /\ Silent
       ELSE Refuses(d)
  /\ UNCHANGED <<userVars, claims, stats, outdated, blurred>>

ServeForward(d) ==
  /\ desk[d].at = "arrive" /\ desk[d].kind \in Passed
  /\ IF Admitted(d) THEN Moves(d, "send") /\ Silent ELSE Refuses(d)
  /\ UNCHANGED <<userVars, claims, stats, outdated, blurred>>

\* An empty list of recipients is read from the database.
ServeBulk(d) ==
  /\ desk[d].at = "arrive" /\ desk[d].kind = "bulk"
  /\ IF Admitted(d)
       THEN Moves(d, IF desk[d].left = {} THEN "look" ELSE "send") /\ Silent
       ELSE Refuses(d)
  /\ UNCHANGED <<userVars, claims, stats, outdated, blurred>>

ServeStats(d) ==
  /\ desk[d].at = "arrive" /\ desk[d].kind = "stats"
  /\ IF Admitted(d) THEN Moves(d, "read") /\ Silent ELSE Refuses(d)
  /\ UNCHANGED <<userVars, claims, stats, outdated, blurred>>

-------------------------------------------------------------------------------
(* Roles and bans.                                                           *)

Bannable(u)  == u \in known \ banned /\ role[u] # 1
\* Fault: the role is not looked at.
MayBeAny(k, u) == CASE k = "ban"   -> u \in known \ banned
                    [] k = "unban" -> u \in known \cap banned
                    [] OTHER       -> u \in known

MayBe(k, u) == CASE k = "ban"   -> Bannable(u)
                 [] k = "unban" -> u \in known \cap banned
                 [] OTHER       -> u \in known

\* findById, and what the service asks of the row.
FindUser(d) ==
  /\ desk[d].at = "look" /\ desk[d].kind \in Changes
  /\ IF MayBe(desk[d].kind, desk[d].about)
       THEN Moves(d, "write") /\ Silent
       ELSE Refuses(d)
  /\ UNCHANGED <<userVars, claims, stats, outdated, blurred>>

\* updateRole, ban and unban: the row with the id, whatever it is by now.
Updates(k, u) ==
  /\ role' = [role EXCEPT ![u] = IF k = "promote" THEN 1 ELSE IF k = "demote" THEN 0 ELSE @]
  /\ banned' = CASE k = "ban"   -> banned \cup {u}
                 [] k = "unban" -> banned \ {u}
                 [] OTHER       -> banned

\* The UPDATE, after which the service logs and answers, if it still waits.
WriteUser(d) ==
  LET k == desk[d].kind IN
  /\ desk[d].at \in {"write", "late"} /\ k \in Changes /\ desk[d].done = "no"
  /\ Updates(k, desk[d].about)
  /\ desk' = [desk EXCEPT ![d].done = "yes",
                          ![d].logged = IF desk[d].at = "write" THEN "yes" ELSE @,
                          ![d].at = IF @ = "write" THEN "reply" ELSE "late"]
  /\ outdated' = IF k \in {"promote", "demote"} /\ role[desk[d].by] # 1 THEN "yes" ELSE outdated
  /\ blurred' = IF \E e \in Desks : desk[e].at \in {"count", "keep"} THEN "yes" ELSE blurred
  /\ Silent /\ UNCHANGED <<known, claims, stats>>

-------------------------------------------------------------------------------
(* Calls passed on to another service.                                       *)

\* The other service does what it was asked for, or refuses.
Takes(d, k) ==
  /\ desk[d].at \in {"send", "late"} /\ desk[d].kind = k /\ desk[d].done = "no"
  /\ desk' = [desk EXCEPT ![d].done = "yes",
                          ![d].logged = IF desk[d].at = "send" THEN "yes" ELSE @,
                          ![d].at = IF @ = "send" THEN "reply" ELSE "late"]
  /\ Silent /\ UNCHANGED <<userVars, claims, stats, outdated, blurred>>

NewsTakes(d)          == \E k \in {"news", "article stats"} : Takes(d, k)
SubscriptionsTakes(d) == \E k \in {"subscriptions", "subscription stats"} : Takes(d, k)
PromoCodesTakes(d)    == \E k \in {"promo codes", "promo code list"} : Takes(d, k)
NotificationTakes(d)  == Takes(d, "notification")

\* Fault: the gateway audits before it has an answer.
TurnsDownAudited(d) ==
  /\ desk[d].at = "send" /\ desk[d].kind \in Passed
  /\ Closes(d, "yes")
  /\ UNCHANGED <<userVars, claims, stats, outdated, blurred>>

\* The error of the other service goes back to the gateway.
TurnsDown(d) ==
  /\ desk[d].at = "send" /\ desk[d].kind \in Passed
  /\ Refuses(d)
  /\ UNCHANGED <<userVars, claims, stats, outdated, blurred>>

-------------------------------------------------------------------------------
(* Bulk notifications.                                                       *)

\* getAllEmails; without a recipient the service answers at once, unlogged.
ReadRecipients(d) ==
  /\ desk[d].at = "look" /\ desk[d].kind = "bulk"
  /\ IF known \ banned = {}
       THEN desk' = [desk EXCEPT ![d].done = "nothing to do", ![d].at = "reply"]
       ELSE desk' = [desk EXCEPT ![d].left = known \ banned, ![d].at = "send"]
  /\ Silent
  /\ UNCHANGED <<userVars, claims, stats, outdated, blurred>>

\* Fault: i += BATCH_SIZE - 1.
SendBatchAgain(d) ==
  /\ desk[d].at = "send" /\ desk[d].kind = "bulk" /\ desk[d].batch = {}
  /\ \E B \in SUBSET desk[d].left :
       /\ B # {}
       /\ Cardinality(B) = BatchSize \/ (B = desk[d].left /\ Cardinality(B) < BatchSize)
       /\ \E s \in B : desk' = [desk EXCEPT ![d].batch = B,
                                            ![d].left = IF @ = B THEN {} ELSE @ \ (B \ {s})]
  /\ Silent /\ UNCHANGED <<userVars, claims, stats, outdated, blurred>>

\* The next batch, whose calls all go out at once.
SendBatch(d) ==
  /\ desk[d].at = "send" /\ desk[d].kind = "bulk" /\ desk[d].batch = {}
  /\ \E B \in SUBSET desk[d].left :
       /\ B # {}
       /\ Cardinality(B) = BatchSize \/ (B = desk[d].left /\ Cardinality(B) < BatchSize)
       /\ desk' = [desk EXCEPT ![d].batch = B, ![d].left = @ \ B]
  /\ Silent /\ UNCHANGED <<userVars, claims, stats, outdated, blurred>>

Twice(n) == IF n = 2 THEN 2 ELSE n + 1

\* notification-service takes one of them, and the answer comes.
Delivered(d, s) ==
  /\ desk[d].at = "send" /\ desk[d].kind = "bulk" /\ s \in desk[d].batch
  /\ desk' = [desk EXCEPT ![d].batch = @ \ {s}, ![d].sent = @ \cup {s}, ![d].got[s] = Twice(@)]
  /\ Silent /\ UNCHANGED <<userVars, claims, stats, outdated, blurred>>

\* Or its answer is an error: before the e-mail, or after it.
Undelivered(d, s, got) ==
  /\ desk[d].at = "send" /\ desk[d].kind = "bulk" /\ s \in desk[d].batch
  /\ desk' = [desk EXCEPT ![d].batch = @ \ {s}, ![d].missed = @ \cup {s},
                          ![d].got[s] = IF got = "yes" THEN Twice(@) ELSE @]
  /\ Silent /\ UNCHANGED <<userVars, claims, stats, outdated, blurred>>

\* allSettled of the last batch.
AllSent(d) ==
  /\ desk[d].at = "send" /\ desk[d].kind = "bulk"
  /\ desk[d].batch = {} /\ desk[d].left = {}
  /\ desk' = [desk EXCEPT ![d].done = "yes", ![d].logged = "yes", ![d].at = "reply"]
  /\ Silent /\ UNCHANGED <<userVars, claims, stats, outdated, blurred>>

-------------------------------------------------------------------------------
(* The dashboard.                                                            *)

\* The cached numbers are the answer, of which nobody writes a line; an error is a miss.
ReadStats(d) ==
  /\ desk[d].at = "read"
  /\ \/ stats # NoStats /\ Refuses(d)
     \/ Moves(d, "count") /\ Silent
  /\ blurred' = IF stats = NoStats /\ \A e \in Desks \ {d} : desk[e].at \notin {"count", "keep"}
                  THEN "no" ELSE blurred
  /\ UNCHANGED <<userVars, claims, stats, outdated>>

Counted(d, field, n) ==
  desk' = [desk EXCEPT ![d].counts[field] = n,
                       ![d].at = IF \E f \in {"all", "banned"} \ {field} :
                                       desk[d].counts[f] = Unread
                                   THEN "count" ELSE "keep"]

\* Seven queries at once, of which these two are related.
CountAll(d) ==
  /\ desk[d].at = "count" /\ desk[d].counts.all = Unread
  /\ Counted(d, "all", Cardinality(known))
  /\ Silent /\ UNCHANGED <<userVars, claims, stats, outdated, blurred>>

CountBanned(d) ==
  /\ desk[d].at = "count" /\ desk[d].counts.banned = Unread
  /\ Counted(d, "banned", Cardinality(banned))
  /\ Silent /\ UNCHANGED <<userVars, claims, stats, outdated, blurred>>

\* A count that failed is 0.
CountFails(d, field) ==
  /\ desk[d].at = "count" /\ desk[d].counts[field] = Unread
  /\ Counted(d, field, 0)
  /\ blurred' = "yes"
  /\ Silent /\ UNCHANGED <<userVars, claims, stats, outdated>>

\* SETEX, whose failure does not matter, and the service's audit line.
KeepStats(d) ==
  /\ desk[d].at = "keep"
  /\ stats' \in {desk[d].counts, stats}
  /\ desk' = [desk EXCEPT ![d].done = "yes", ![d].logged = "yes", ![d].at = "reply"]
  /\ Silent /\ UNCHANGED <<userVars, claims, outdated, blurred>>

StatsExpire ==
  /\ stats # NoStats
  /\ stats' = NoStats
  /\ Silent /\ UNCHANGED <<userVars, claims, desk, outdated, blurred>>

-------------------------------------------------------------------------------
(* The way back, and failures.                                               *)

\* The gateway has its answer; of a mutation it writes its audit line.
Replies(d) ==
  /\ desk[d].at = "reply"
  /\ Closes(d, IF desk[d].kind \in Unaudited THEN "no" ELSE "yes")
  /\ UNCHANGED <<userVars, claims, stats, outdated, blurred>>

\* The breaker's timeout: the caller is told of a failure while the UPDATE or
\* the other service's handler goes on.
AdminTimesOut(d) ==
  /\ \/ desk[d].at = "write"
     \/ desk[d].at = "send" /\ desk[d].kind \in Passed
  /\ desk' = [desk EXCEPT ![d].at = "late", ![d].hurt = "yes"]
  /\ Silent /\ UNCHANGED <<userVars, claims, stats, outdated, blurred>>

\* What went on after a timeout is over, done or not.
LateEnds(d) ==
  /\ desk[d].at = "late"
  /\ Closes(d, "no")
  /\ UNCHANGED <<userVars, claims, stats, outdated, blurred>>

\* An await rejects, or admin-service dies, or the gateway loses its answer.
AdminThrows(d) ==
  /\ desk[d] # Free /\ desk[d].at # "late"
  /\ desk' = [desk EXCEPT ![d] = Free]
  /\ outcome' = [kind |-> desk[d].kind, done |-> desk[d].done, logged |-> desk[d].logged,
                 audited |-> "no", hurt |-> "yes"]
  /\ UNCHANGED <<userVars, claims, stats, outdated, blurred>>

-------------------------------------------------------------------------------

Asks(d, a) ==
  \/ \E k \in Changes, u \in Staff : AskChange(d, k, a, u)
  \/ \E k \in Forwards : AskForward(d, k, a)
  \/ \E k \in Lists : AskList(d, k, a)
  \/ \E list \in SUBSET known : AskBulk(d, a, list)
  \/ AskStats(d, a)

Serves(d) == ServeChange(d) \/ ServeForward(d) \/ ServeBulk(d) \/ ServeStats(d)

ChangeStep(d)  == FindUser(d) \/ WriteUser(d)
ForwardStep(d) == NewsTakes(d) \/ SubscriptionsTakes(d) \/ PromoCodesTakes(d)
                  \/ NotificationTakes(d) \/ TurnsDown(d)
BulkStep(d)    == \/ ReadRecipients(d) \/ SendBatch(d) \/ AllSent(d)
                  \/ \E s \in Staff : Delivered(d, s) \/ \E got \in {"no", "yes"} : Undelivered(d, s, got)
StatsStep(d)   == ReadStats(d) \/ CountAll(d) \/ CountBanned(d) \/ KeepStats(d)
                  \/ \E f \in {"all", "banned"} : CountFails(d, f)

AdminNext ==
  \/ \E s \in Staff : SignUp(s) \/ SignIn(s) \/ ClaimExpires(s)
  \/ \E d \in Desks : \/ \E a \in Staff : Asks(d, a)
                      \/ Serves(d) \/ ChangeStep(d) \/ ForwardStep(d) \/ BulkStep(d)
                      \/ StatsStep(d) \/ Replies(d) \/ AdminTimesOut(d) \/ LateEnds(d)
                      \/ AdminThrows(d)
  \/ StatsExpire

AdminSpec == AdminInit /\ [][AdminNext]_adminVars

-------------------------------------------------------------------------------
(* Properties.                                                               *)

\* Nobody is banned while an admin, unless another call changed the user
\* between the look at the row and the UPDATE.
BansSpareAdmins ==
  [][\A u \in banned' \ banned :
       role[u] = 0 \/ \E d \in About(u) : desk[d].crossed = "yes"]_adminVars

\* There is always an admin left, unless a call changed a role on behalf of
\* somebody who had lost the role since the token was issued or checked.
SomeAdminRemains == outdated = "no" => \E s \in known : role[s] = 1

\* The two audit trails: the gateway's line means that the service wrote its
\* own, or had nothing to do; the service's line means that the thing was done;
\* and unless an await of the call failed or timed out, what was done is in the
\* service's trail, and in the gateway's if it was more than reading.
AuditIsTrue ==
  outcome # Free =>
    /\ outcome.audited = "yes" => outcome.logged = "yes" \/ outcome.done = "nothing to do"
    /\ outcome.logged = "yes" => outcome.done = "yes"
    /\ outcome.done = "yes" /\ outcome.hurt = "no" =>
         /\ outcome.logged = "yes"
         /\ outcome.audited = "yes" <=> outcome.kind \notin Unaudited

\* What a bulk notification reports: everybody is counted once, as sent or
\* as failed; who is counted as sent got it, and nobody got it twice.
BulkReport ==
  \A d \in Desks :
    desk[d] # Free /\ desk[d].kind = "bulk" =>
      /\ desk[d].sent \cap desk[d].missed = {}
      /\ \A s \in desk[d].sent : desk[d].got[s] = 1
      /\ \A s \in Staff : desk[d].got[s] <= 1

\* The numbers of the dashboard agree with each other unless a count failed
\* or users signed up or were banned between the queries.
DashboardAddsUp ==
  blurred = "no" => stats.banned <= stats.all

\* What admins are told: the report of a bulk notification and the dashboard.
ReportsAreTrue == BulkReport /\ DashboardAddsUp
===============================================================================
