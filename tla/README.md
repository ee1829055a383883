# A formal model of the platform

TLA+ modules of the services under `src/`, TLC runs on small instances of them,
and TLAPS proofs for every instance. File and line numbers below are those of
the repository; `P/`, `S/`, `A/`, `N/`, `U/`, `G/` stand for
`payment-service/src/`, `subscription-service/src/`, `auth-service/src/`,
`notification-service/src/`, `user-service/src/` and `graphql-gateway/src/`, `W/`
and `D/` for `news-service/src/` and `admin-service/src/`.

## 1. The system

Eight Node services, each one process with one event loop. A handler runs
without interruption between two `await`s and interleaves with every other
handler at them. Calls of Postgres, Redis, RabbitMQ and the payment providers go
through a circuit breaker (`utils/circuit-breaker.util.js`), which rejects on an
error, on a timeout (without stopping the query) and while it is open. The
services call each other over gRPC and announce what happened on topic
exchanges; every consumer acknowledges after its handler and retries by
publishing a copy.

| Component | State | Operations | Talks to | Hard behaviour | Correct means |
|---|---|---|---|---|---|
| payment-service | `transactions`; `payment:idempotency:<order>` in Redis | `createPayment`, Cryptomus and Fondy webhooks | providers; publishes `payment.*` | webhooks repeated, late, out of order, interleaved; a failure at any await | an order is settled once and announced at most once, truthfully |
| subscription-service | `subscriptions`, `promo_codes`; `sub:user:<id>`, `sub:stats` in Redis | access check, cancel, restore, admin set and remove, trial, checkout, promo codes; events `payment.*`, `user.email_verified` | calls payment-service; publishes `subscription.*` | read, write by id, invalidate, publish without one transaction | one active row per user; the cache and the JWT follow the table |
| its expiry worker | a timer | expire, terminate, remind, every hour | the same table, cache and exchange | runs beside every handler; fails or dies between commit and event | no row is terminated, and no tier taken out of a JWT, before the grace period is over; every lapsed row is found |
| RabbitMQ consumers (auth, user, subscription, notification) | connection, channel, retry timers | deliver, acknowledge, retry, give up, reconnect | the broker | lost connections, crashes, stale delivery tags, a handler that hangs | no event lost, none given up early, each one settled |
| RabbitMQ publishers | connection, channel | `publishEvent` | the broker | no confirms; without a channel it throws | what was done is announced, or its handler throws |
| auth-service | `users`, 2FA rows; sessions, refresh tokens, verification tokens and `sub_type` in Redis | signup, signin, refresh, logout, password change, 2FA, OAuth, e-mail verification | consumes `subscription.*`, `user.username_changed`; publishes `user.*` | concurrent refresh; read-modify-write of sessions and backup codes; several stores written one after the other | a refresh token is used once; a logout ends every session it should; nobody is verified without a trial; codes, links and backup codes are used once |
| user-service | `profiles`; profile cache | profile reads and updates, username change, avatar | consumes `user.registered`; publishes `user.username_changed` | cache fill against invalidation; order of username events; a name is unique in two tables that nothing spans | cache and copy converge to the table |
| notification-service | `notifications`, archive; unread counter in Redis | inbox, broadcast, mark read, e-mail, archiver | consumes every exchange | at-least-once events with a side effect (e-mail); counter fill against increments; a time-out whose statement comes later | one e-mail per event, with a true status; the counter is the number of unread rows |
| news-service | `articles`; article cache | article and category CRUD | publishes `news.*` | cache fill against deletion; slug check then insert; an event published without an await | the cache follows the table; slugs are unique |
| admin-service | roles and bans in `users`; dashboard cache; audit lines | roles, bans, forwarded calls, bulk notifications, dashboard | all services | look, then UPDATE; tokens that outlive a role; batches that fail in part; a time-out whose UPDATE comes later | an admin is left; no admin is banned; reports and audit lines are true |
| graphql-gateway | one refresh in flight per token | GraphQL resolvers | all services | concurrent requests with an expired access token | one refresh per token |

`PROJECT.json` lists every component with what is modelled of it, and under
`hazards` what is hard to test, each at its line.

## 2. The modules

| Module | Models | Extends |
|---|---|---|
| `PaymentLedger` | what payment-service promises about an order (abstract) | |
| `Payments` | `P/services/payment.service.js`, the idempotency cache, the providers' status maps | instantiates `PaymentLedger` |
| `PaymentsProofs` | proofs about `Payments`, `Checkout` and their instance | `MCPayments` |
| `Subscriptions` | `S/services/subscription.service.js`, `S/models/Subscription.js`, the cache, the expiry worker, and the `sub_type` kept by `A/rabbit/consumer.js` | |
| `SubscriptionsProofs` | proofs about `Subscriptions` | `Subscriptions` |
| `EventConsumer` | `rabbit/consumer.js` of the four consuming services, and the broker as they use it | |
| `EventConsumerProofs` | proofs about `EventConsumer` | `EventConsumer` |
| `Sessions` | refresh tokens: `A/services/auth.service.js`, `A/services/oauth.service.js`, the Redis keys of `A/redis/redisClient.js`, the refresh in flight of `G/middlewares/auth-context.js`, the browsers' cookies | |
| `SessionsProofs` | proofs about `Sessions` | `Sessions` |
| `Checkout` | `createCheckout`, `validatePromoCode` and the admins' calls on promo codes of `S/services/subscription.service.js`, `S/models/PromoCode.js`, `S/config/pricing.config.js` | |
| `Inbox` | `N/services/notification.service.js`, the event handlers, `N/redis/notificationCache.js`, the archiver | |
| `InboxProofs` | proofs about `Inbox`, `Articles` and their instance | `MCInbox` |
| `Articles` | `W/services/article.service.js`, `W/utils/slug.util.js`, `W/redis/redisOps.js`, `W/rabbit/publisher.js` | |
| `Accounts` | registration, e-mail verification, passwords and 2FA of `A/services/auth.service.js` | |
| `AccountsProofs` | proofs about `Accounts` and `Profiles` | both |
| `Administration` | `D/services/admin.service.js`, its gRPC clients and controller, the admin resolvers and the role directive of the gateway | |
| `AdministrationProofs` | proofs about `Administration` | `Administration` |
| `Profiles` | `U/services/user.service.js`, the profile cache, the consumers of `user.registered` (user-service) and `user.username_changed` (auth-service) | |
| `MCPayments` | instances of `Payments` and `Checkout` | both |
| `MCInbox` | instances of `Inbox` and `Articles` | both |
| `MCAccounts` | instances of `Accounts`, `Administration` and `Profiles` | the three |
| `MCAccountsProofs` | proofs about the instance | `MCAccounts`, `AccountsProofs`, `AdministrationProofs` |
| `MCSubscriptions`, `MCSessions`, `MCEventConsumer` | instances of the module of the name | it |

How they compose. `Sessions` composes gateway, auth-service and browsers;
`Administration` composes gateway, admin-service and the services behind it;
`Profiles` composes user-service and auth-service with the events between them;
`Subscriptions` has auth-service's consumer of its events in it. The others meet at
interfaces that one module leaves open and another fills: `Checkout` ends with
the order that `Payments` starts from, `Payments` publishes the events that start
a handler of `Subscriptions`, and the queue that `Inbox` and `Profiles` reduce to
ready, out, retried and settled is `EventConsumer`'s. An MC module that extends
several modules gives each its instance and lets a behaviour run one of them
(`part`) while the others stay where they are.

Conventions common to all. One action per await. A module's actions for a
handler start with its first await, whose result decides whether there is
anything to do; a handler that finds nothing returns or throws without a step.
`...Without...`, `...Early` and the like, introduced by "Fault:", are plausible
mistakes put beside the action they distort; no specification uses them. History
variables are marked; they are only ever read by properties.

### Payments

`tx` is the `status` column (`"none"` without a row), `idem` the idempotency
keys, `maker` where `createPayment` stands for an order, `hook` the webhook
requests in progress, `published` what went to the exchange.

| Code | Actions |
|---|---|
| `createPayment` (24-82) | `Insert`, `ProviderAnswers` or `ProviderFails`, `RecordFailure`, `Link`, `Throw` |
| `processCryptomusWebhook`, `processFondyWebhook` (125-257) | `Receive` (up to the first await), `Claim`, `Find`, `Release`, `Update`, `Publish`, `WebhookThrow` |
| TTL of the key | `KeyExpires` |
| providers (external) | `Notify` |

`Receive` takes any notice any number of times: repeated, delayed, reordered
webhooks. A provider reports an order paid only after the customer got the
payment page, so after `createPayment` returned; orders made by somebody else
(`"foreign"`) have no row. A call that timed out and took effect all the same is
its step followed by the throw. `KeyExpires` waits for the webhooks of its order:
24 hours against a few seconds of breaker timeouts. Amounts, currencies and
signatures are abstracted away.

### Subscriptions

`rows` is the table in the order of `created_at`; `cache` the index of the row
whose snapshot is cached; `req` the handlers in progress; `worker` the worker's
last bulk update with the rows still to be announced; `view` the `sub_type`
auth-service puts into the JWT.

| Code | Actions |
|---|---|
| `checkAccess` (37-77) | `CheckAccess`, `Load`, `Fill` |
| `cancelSubscription`, `handlePaymentRefunded` | `CancelSubscription`, `HandlePaymentRefunded`, then `WriteCanceled`, `Invalidate`, `Publish` |
| `restoreSubscription` | `RestoreSubscription`, `WriteRestored`, `Invalidate`, `Publish` |
| `adminRemoveSubscription` | `AdminRemoveSubscription`, `WriteTerminated`, `Invalidate`, `Publish` |
| `adminSetSubscription`, `handlePaymentSucceeded` | `AdminSetSubscription`, `HandlePaymentSucceeded`, `WriteTerminated`, `CreateBought`, `Invalidate`, `Publish` |
| `createTrialSubscription` | `CreateTrialSubscription`, `FindForTrial`, `CreateTrial`, `Invalidate`, `Publish` |
| `expiry.worker.js` | `ExpireActive`, `TerminateExpired`, `WorkerInvalidates`, `WorkerPublishes`, `WorkerThrow`, `WorkerCrash` |
| failures | `Throw`, and the losing disjuncts of `Fill`, `Invalidate`, `Publish` |
| time, TTL | `NextDay`, `CacheExpires` |

Time is counted in days and a day may begin between any two steps; a period of
length 0 is over at the turn of the day. A cache hit answers without a step. The
reminders (worker, steps 3 to 5) change no state modelled here. `PROJECT.json`
maps the first action of a handler to the whole handler: with its operation it
fixes the later steps. A row that an admin issued as `System` counts as bought.
Users do not interact, so the runs have one; the worker handles the rows of a
run in any order.

The grace period keeps the tier in the JWT, not access: `Load` is
`findActiveByUserId`, which finds no expired row, so `checkAccess` denies from
`ExpireActive` on (a finding, see section 3).

`history` remembers of each user what the properties must know: that two writing
handlers overlapped, that an access check overlapped a writing handler, that a
step was lost to a failure, that a row was restored, that two rows were live at
once. The properties say what holds of users without the tags they name, and so
state exactly how far the code's guarantees go.

### EventConsumer

`ready`, `unacked` and `wire` are the broker's queue, the deliveries of the
present channel by tag, and the frames under way; `channel`, `reconnecting` and
`tasks` are the process: the module's variables of these names, and the handler
runs and retry timers.

| Code (`S/rabbit/consumer.js`) | Actions |
|---|---|
| `channel.consume` callback, `processMessage` (79-116) | `Deliver`, `Discard`, `HandlerReturns`, `HandlerThrows` |
| malformed JSON in user-service (`U/rabbit/consumer.js` 30-37) | `Drop` |
| `getUserById` of notification-service (`N/grpc/auth-client.js` 36-47) | `HandlerHangs` |
| retry timer (104-110) | `TimerFires` |
| `initRabbitConsumer`, `scheduleReconnect` (13-77, 130-150) | `Connect`, `Subscribe`, `SetupRejected`, `Reuse` |
| lost connection, death of the process | `ConnectionLost`, `Crash` |
| broker (external) | `Arrive`, `Settle`, `TakeCopy` |

The consumers differ in one thing: how a delivery finds its handler. A run takes
one of three kinds of queues (`dispatch`).

| `dispatch` | Queues | A delivery |
|---|---|---|
| `"by key"` | those of subscription- and notification-service, and auth-service's second one (`subscription.*`, `A/rabbit/consumer.js` 85-127) | goes to the handler of its routing key; without one it is acknowledged (`Discard`) |
| `"any"` | auth-service's first one (`user.username_changed`) | goes to the one handler |
| `"parse first"` | user-service's | goes to the one handler, but content that is no JSON is dropped with a nack before the `try` (`Drop`); in all other queues it is a failure like any other |

`malformed` is the events whose content is no JSON. The handler itself is abstract:
it returns, throws or, on a queue by key, hangs: the call by which
notification-service looks up a user has neither deadline nor breaker. A hung
handler holds its delivery until the connection or the process ends; the code of
subscription- and auth-service does less than this kind allows, since none of their
handlers makes such a call. user- and auth-service set no prefetch limit; there
`Prefetch` is a bound.

user-service's catch block also acknowledges a unique violation (23505): in the model
the handler returned. Were the channel missing at that moment, the process would die,
which `Crash` allows. auth-service registers its close listener between its two
queues, the others after the last; the model follows the others. A connection lost in
between is, for auth-service, `Subscribe` followed by `ConnectionLost`.

Some facts of amqplib and RabbitMQ are used as external: a copy published to the
default exchange has the queue's name as routing key; an unknown delivery tag
makes the broker close the channel, and that error has no listener; calls on a
closed or missing channel throw at once; unacknowledged messages go back to the
queue when their channel ends; a connection the broker closes in an orderly way
is no error.

### Sessions

One user with several devices; the gateway and auth-service composed.
`live` is the set of `refresh:<token>` keys, `device_token` and `user_sessions`
are the keys of these names; `issued` remembers of every token its device and the
token that the gateway exchanged for it; `req` is the requests under way,
`flight` the gateway's `refreshInFlight`, `cookie` what each browser sends.

| Code | Actions |
|---|---|
| `login`, `verify2FA`, `oidcLogin`, `register` | `Login`, `OidcLogin`, `Register`, then `Revoke`, `Drop` (`revokeDeviceToken`), `Save`, `Index` (`saveRefreshToken`) |
| `buildContext`, `getOrStartRefresh` (27-42, 53-105) | `Send`, `GetOrStartRefresh`, `Settle`, `Forget` |
| `refreshTokens` (279-325) | `RefreshTokens` (the mutation), `Get`, `Rotate`, `Save`, `Index` |
| `logout` (625-645) | `Logout`, `Out` |
| `confirmPasswordChange`, `revokeAllSessions` | `ConfirmPasswordChange`, `Collect`, `Purge` |
| answers, `res.cookie` | `Answer`, `LoseAnswer` |
| breakers, rejections | `Throw`, `TimesOut` |
| TTLs | `SessionsLapse`, `TokenLapses` |

`Promise.all` sends its commands in one tick, so `Save` does the first SET and
the SADD together and `Out` all three commands. Commands of the one Redis
connection take effect in the order they were sent, so a step is a command with
its effect. A single command that times out and takes effect all the same is its
step followed by `Throw`; a time-out leaves an operation of several commands
running (`TimesOut`, `caller = "gone"`). The gateway's gRPC calls have no
deadline: a call ends with its handler. That the connection of gateway and
auth-service breaks under a call, so that the handler outlives it, is not
modelled; `SingleUse` and `StragglersRide` are not claimed across it. Logout and
the mutation are called with a token that works, from its own device; `Register`
comes once and first. One process of each service; the gateway does not restart
during a refresh. A request needs less than `REFRESH_GRACE_MS` (5 s) from the
browser to the gateway: this is `Forget`'s guard, and what `StragglersRide`
rests on. The deletion of the account is left out, and so are bans: neither query
that the sign-in and the refresh make selects `banned_at`, so the tests of it never
hold.

`history` says of each device what happened since its last sign-in: an answer
late, a TTL over, a refresh refused, the session ended, or missed by a password
change; and "disturbed": two of its requests overlapped, not both queries, or one
failed.

### Checkout

`promo` is the table of promo codes, `cart` the checkouts in progress, `form` the
admins' calls, `orders` what payment-service was asked for, `quotes` the answers of
`validatePromoCode`.

| Code | Actions |
|---|---|
| `createCheckout` (82-180) | `OpenCart`, `FindTerm` (the buyer's row, proration), `Resolve` (`_resolvePromoDiscount`), `CountUse`, `Pay` or `Abandon` |
| `validatePromoCode` | `Validate` |
| `createPromoCode`, `deactivatePromoCode` | `SubmitPromo`, `LookUp`, `InsertPromo`; `SubmitDeactivation`, `DeactivatePromo`; `FormFails` |
| `valid_until` | `PromoEnds` |

Prices, offers and held plans are constants; amounts are integers in cents and
`Rounded` is `Math.round`. A code can be typed with blanks (`mode`), which the
discount ignores and the count does not. A buyer holds any term of `Terms`.

### Inbox

`rows` is `notifications`, `unread` the counters in Redis, `queue` where an event
stands, `task` the handlers and the calls of the gateway in progress.

| Code | Actions |
|---|---|
| event handlers | `Deliver`, `Lookup` (`getUserById`), `CreateBroadcast`, and `createAndSend` |
| `createAndSend` | `Create`, `SendEmail`, `Sent`, `Failed`, `Bump`, `Incr`, `Second` |
| `getUnreadCount`, `markAsRead`, `markAllAsRead`, `deleteNotification` | `GetUnreadCount`, `SetUnreadCount`, `MarkAsRead`, `MarkAllAsRead`, `ResetUnreadCount`, `DeleteNotification`, `Delete`, `Dec`, `Get`, `Decr` |
| archiver, TTL | `ArchiveOld`, `KeyExpires` |
| failures | `LookupFails`, `...Rejected`, `SendEmailFails`, `Loses`, `ConnectionLost`, `Crash` |
| a statement `dbBreaker` gave up on | `GivesUp` (in each `...Rejected`), `Lands` |

What the code does that a reader may not expect, and the model has: a broadcast
counts as unread for everybody and no call marks it read; an e-mail that failed
counts as unread in the table and was never counted in Redis; "both" makes two rows;
INCR after the key's expiry makes a key that says 1; a failed event is not retried
(see `EventConsumer`).

`dbBreaker` rejects after 8 seconds without stopping the query. So a rejected INSERT,
UPDATE or DELETE may be done later all the same: it stands in `late` until it is
done (`Lands`), which may be at any later time or never. What lands is what was asked
for and nothing more: a late INSERT makes a row nobody counts and whose e-mail
nobody sends, a late UPDATE or DELETE takes away an unread row that the counter keeps
(`markAsRead`, `markAllAsRead`: `MarkRejected`; a deletion also only of one's own row:
`Owns`), a late status overwrites whatever the row says by then. A late `markAllAsRead` takes the rows that are unread
when it lands.

### Articles

`article` is the slug of each id, `cached` and `found` the keys in Redis, `staff`
and `reader` the calls in progress, `channel` the publisher's.

| Code | Actions |
|---|---|
| `create`, `generateUniqueSlug` | `CreateArticle`, `FindBySlug`, `InsertArticle`, `ListKeys`, `ClearLists`, `Tell` |
| `delete` | `DeleteArticle`, `FindById`, `DeleteRow`, `Forget`, `ListKeys`, `ClearLists`, `Tell` |
| `get`, `search` | `GetArticle`, `GetCachedArticle`, `ReadRow`, `CacheArticle`; `Search`, `GetCachedSearch`, `SearchRows`, `CacheSearch` |
| failures, TTLs | `StaffDrops`, `ReaderDrops`, `ChannelTurns`, `KeyRunsOut` |

`publishNewsEvent` is called without `await`: without a channel its rejected promise
ends the process, and `Tell` then ends every call.

### Accounts

`account`, `twoFA` are tables; `trialDevices`, `verifyToken`, `resetCode`, `links`
Redis keys; `verified` the `user.email_verified` events by their trial signal.

| Code | Actions |
|---|---|
| `register` | `Register`, `LookAtDevice`, `InsertUser`, `TrackDevice`, `StoreToken`, `PublishVerifyEmail`, `PublishRegistered` |
| `verifyEmail` | `VerifyEmail`, `Activate`, `PublishEmailVerified`, `DropToken` |
| `forgotPassword`, `resetPassword` | `ForgotPassword`, `SaveVerificationCode`, `PublishForgotPassword`; `ResetPassword`, `UpdatePassword`, `DeleteVerificationCode`, `PublishPasswordChanged` |
| `requestPasswordChange`, `confirmPasswordChange` | `RequestPasswordChange`, `SaveChangePasswordToken`, ...; `ConfirmPasswordChange`, `UpdatePassword`, `DeleteChangePasswordToken` |
| `setup2FA`, `verify2FA` | `Setup2FA`, `Delete2FA`, `Create2FA`; `Verify2FA`, `VerifyBackupCode`, `BurnBackupCode`, `Enable2FA`, `Publish2faEnabled` |
| failures, TTLs | `Throws`, `TokenExpires`, `CodeExpires`, `LinkExpires`, `TrialKeyExpires` |

A fingerprint is optional: the `device` of a user who sends none is `NoDevice`, whose
registration neither looks nor stores (56, 81). The key of a device lapses after 365
days: in the model at any time (`TrialKeyExpires`), and `forgotten` is the users who had
a row by then. The second signal, the key by IP address with its 30 days, is left out:
it flags more registrations, and never fewer.

### Administration

`role`, `banned` are columns of `users`, `claims` who holds an access token that
says admin, `desk` the calls under way, `stats` the dashboard's cache.

| Code | Actions |
|---|---|
| resolvers and `@requireRole` of the gateway | `AskChange`, `AskForward`, `AskList`, `AskBulk`, `AskStats`, `Replies`, `Refuses` |
| `AdminController`, `requireAdmin` | `ServeChange`, `ServeForward`, `ServeBulk`, `ServeStats` |
| `updateUserRole`, `banUser`, `unbanUser` | `FindUser`, `WriteUser` |
| forwarded calls, of which lists and statistics only read (`Lists`) | `NewsTakes`, `SubscriptionsTakes`, `PromoCodesTakes`, `NotificationTakes`, `TurnsDown` |
| `sendBulkNotification` | `ReadRecipients`, `SendBatch` |
| `getDashboardStats` | `ReadStats`, `CountAll`, `CountBanned`, `CountFails`, `KeepStats`, `StatsExpire` |
| failures | `AdminTimesOut` with `LateEnds`, `AdminThrows` |
| sign-up, sign-in, token TTL | `SignUp`, `SignIn`, `ClaimExpires` |

There are two audit trails: a line of the gateway, written when the service has
answered, and one of the service. The lists and statistics that admin-service passes
on (article and subscription statistics, promo codes) have a line of the service only,
and the dashboard has none (`Unaudited`). The recipients of a bulk notification are a
set; the code's array may name somebody twice, who then counts as two.

### Profiles

`login` is `users.username`, `profile` the rows of `profiles`, `shown` their copies in
Redis, `objects` the bucket, `events` the messages of the two queues.

| Code | Actions |
|---|---|
| registration at auth-service | `Join` |
| consumer of `user.registered` | `CreateProfile` |
| consumer of `user.username_changed` | `SyncUsername` |
| either's failure and retry | `EventFails` |
| `updateProfile` | `UpdateProfile`, `CheckName`, `WriteName`, `DropCache`, `TellName` |
| `uploadAvatar` | `UploadAvatar`, `PutObject`, `RemoveOld` or `RemoveFails`, `PointToObject`, `DropCache` |
| `getProfile` | `GetProfile`, `ReadProfile`, `CacheProfile`, `CacheLapses` |

Like `Subscriptions` and `Sessions`, these modules keep history variables for what
a property must excuse (`overlapped`, `failed`, `astray`, `crossed`, ...), and so say
exactly where the guarantees of the code end.

## 3. The runs

| Run | Module, cfg | Instance | Shows |
|---|---|---|---|
| payments | `MCPayments.cfg` | 1 order, 3 webhooks; or 2 checkouts and 2 admins' calls with 1 code, 3 offers, 4 held plans and the price list of the code | `OneSettler`, `AnnouncedOnceAndTrue`, `LedgerSpec` (the abstract ledger is implemented), `PaidIsAnnounced`; `PromoUsesHold`, `ChargesHold` |
| payments_reversal | `MCPaymentsReversal.cfg` | 1 order, 2 webhooks | `ReversalIsAnnounced` is violated |
| subscriptions | `MCSubscriptions.cfg` | one handler at a time with all failures, days 0 to 3; or two handlers without failures | `TierFollowsRows`, `OneActive`, `CacheCoherent`, `TierKeptInGrace`, `LapsedRowsAreFound` |
| subscriptions_stacking | `MCSubscriptionsStacking.cfg` | 1 handler at a time | `NoStacking` is violated |
| subscriptions_renewal | `MCSubscriptionsRenewal.cfg` | 1 handler at a time | `RenewedKeepsTier` is violated |
| consumer | `MCEventConsumer.cfg` | 2 events, at most one malformed, the three kinds of queues, 1 retry, prefetch 2, 2 channels | `NoEventLost`, `GivenUpAfterRetries`, `EventsAreSettled` |
| consumer_retry | `MCEventConsumerRetry.cfg` | 1 event, 3 retries | `FailedEventsAreRetried` is violated |
| sessions | `MCSessions.cfg` | 2 requests at a time, 3 tokens: a browser with every kind of failure; a client with every operation; two devices | `SingleUse`, `CookieWorks`, `StragglersRide`, `NoOrphan`, `EndedSessionsAreDead` |
| sessions_revoked | `MCSessionsRevoked.cfg` | 2 devices | `AllSessionsRevoked` is violated |
| inbox | `MCInbox.cfg` | 2 tasks, 1 event of 3 kinds, 3 rows, all failures and late statements; or 2 admins and 2 readers, 2 articles | `BadgeIsExact`, `OneMailPerEvent`, `LogIsTrue`, `PendingIsResolved`; `DeletedStaysGone` |
| accounts | `MCAccounts.cfg` | 2 handlers at a time of one of the three modules, in 13 parts | `NobodyIsStranded`, `OneTrialPerDevice`, `PasswordCodesHold`, `SecondFactorHolds`; `SomeAdminRemains`, `BansSpareAdmins`, `AuditIsTrue`, `ReportsAreTrue`; `NamesConverge`, `ProfilesAreShown` |
| names | `MCAccountsNames.cfg` | 2 members, 2 names, no failure | `NamesAligned` is violated |

Each passing run also checks the type invariants (`TypeOK`, or `TypesOK`, the
conjunction of those of the modules its MC module composes). Every property has a
fault in its module that breaks it (`mutants` in `PROJECT.json`).

A run whose instance lists several things checks them one after the other: the
initial state chooses a `part` or a `setting`, which keeps its value, and bounds of
the MC module that name it confine the behaviour. What a setting leaves out,
another has, or the properties excuse.

### Why the bounds are enough

- payments: orders share nothing, so one is enough; three webhooks let one hold
  the key, one be refused by it, and a third claim it after it expired.
  Of `Checkout`, `rush` has two buyers of one plan and a code for one use, while two
  calls of admins make the code (twice) and end it: two checkouts are what it takes
  to pass the check together, and the code is used once more than it allows
  (`MaxUsed` 2). `prices` has one buyer with the three plans, durations of 1, 3 and
  12 months and the four held terms: a trial's last hour, a month begun and a month
  just bought, and a long plan bought as a short one's upgrade; the price list is
  the code's, so that the rounding of real amounts is met. A code of 150 per cent
  and a fixed one above the price make the floor of a cent bite.
- subscriptions: users share nothing but the worker's two statements. Two rows
  are what it takes for one to replace, outlive or be restored beside another.
  Periods of length 0 make a row lapse on the first day after it was made; with
  a grace period of one day, days 0 to 3 hold a whole life: made, expired on day
  1, kept through day 2, terminated on day 3, with a restoration and second
  grace period in between. In the setting `alone` one handler runs beside the
  worker and everything may fail. In `beside` two handlers run; two that write at
  once and lost steps are cut off, because the properties excuse the user
  afterwards, and days 0 and 1 are enough because what two handlers do to one
  another does not depend on the grace period. `OneActive` is proved for every
  number of handlers.
- consumer: one channel before and one after the loss give every stale tag; two
  events let a stale tag hit the other's delivery; one retry gives both sides of
  the comparison with the maximum. One malformed event beside a readable one is
  enough, since content matters to its own event only; with one handler for all keys
  such an event is no more than one whose handler always throws, and none is taken.
  Two hung handlers fill the prefetch limit. `MaxSessions` bounds the reconnections, and
  the liveness property exempts an instance that has run out of them.
- sessions: users share no key. Two requests overlap in every pair of operations;
  three tokens are one that is exchanged, its successor, and another sign-in's.
  `devices` has two, so that one may refresh or sign in while the other changes the
  password; `oidcLogin` treats the keys of its own device only, and is `client`'s, which
  has every operation. A refresh in flight concerns one device, so failures are met
  with one: `browser` has every kind of failure and of lapse, `MaxTroubles` of them in
  a behaviour. The first failure of a handler ends what all properties but `SingleUse` say of a
  device; `SingleUse` is proved for every number of failures.
- inbox: rows of one user meet in its counter, and users share nothing else.
  Two tasks are an event's handler and a call, two calls, or an event and its
  redelivery beside the first run. Three rows are the two of a notification on
  "both" channels and one more. A request costs 1 and a failure 2 of a `Budget` of
  4: four requests without a failure, two with one, or two failures. A late statement
  costs nothing beside the failure it comes from, so it lands at every point of what
  the budget allows. The three kinds of event are an e-mail that needs no look at the user, one that does
  (with both channels), and a broadcast.
- inbox, articles: `slugs` has two admins create or delete one title at a time; two
  articles want one slug and there is one suffix to avoid it. `copies` follows one
  article from its creation to its deletion with two readers, each by id or by
  search.
- accounts: registrations share devices and run with two users, who have
  one device or of whom one sends no fingerprint (users of different devices meet no
  more than these do), and its key may lapse at any point; the handlers of one of them may fail. The
  other services of `Accounts` work on a user's own keys and run with one, since the
  code keeps the users apart by their keys. `MaxIds` 3 letters let an old code, a
  new one and a later one coexist. The parts on roles have two admins, who may
  demote one another, and a third user who signs up; forwarded and bulk calls share
  nothing and run for one admin. A batch of two and three recipients give two
  batches. Names: two members and two names make every exchange and collision;
  `MaxTries` 1 and `MaxChanges` 2 give an event that is retried and overtaken.
- The runs without deadlock check are those whose system really stops: all orders
  are settled, all events consumed, all tokens issued, all answers in, all rows
  and codes of the bounds made.

### What the violated properties show

1. A charge that is approved and then reversed is never announced as
   `payment.refunded`: the idempotency key is the order's, not the status's, and
   succeeded is terminal.
2. Cancel, pay, restore gives a user two active rows.
3. A payment in the grace period starts a new row beside the expired one; when the
   worker terminates the old one, auth-service resets the user's tier to 0.
4. On the queues whose handlers are chosen by routing key (subscription- and
   notification-service's, and auth-service's `subscription.*`) no event is ever
   retried: the copy's routing key is the queue's name, which nothing knows.
5. A password change leaves the session of the registration alive: `register` does
   not list its device in `user_sessions`. A device that has only refreshed for 7
   days is missed in the same way.
6. A name is checked against `profiles` when a member is renamed and against `users`
   when one registers. When one member takes a name that another has registered
   but whose profile is still to come, the two tables disagree for good, and the
   event sync that should align them is what meets the constraint.

Five more were read in the code while modelling it, and have no run: `checkAccess`
denies as soon as a row has expired, while the subscription document (lines 43 and 282)
keeps access in the grace period; `banned_at` is
never selected, so the tests of bans at sign-in and refresh never hold; a promo code
typed with a blank is discounted and not counted; proration prices the old plan at
the new order's duration; the lists of news are never cached. Each is quoted in
`PROJECT.json` with the line of the code and of the document.

### What the passing properties admit

- `NoEventLost` excuses events whose delivery was settled by the acknowledgement
  of another (a stale tag), and failed events on the queues of finding 4.
- `GivenUpAfterRetries` excuses content user-service cannot read, which it drops at
  once; nothing else is given up before its retries.
- `EventsAreSettled` also excuses an event whose handler hangs, and every event once
  `Prefetch` handlers of the channel do: nothing but a lost connection or a restart
  brings those back. And it excuses a consumer whose reconnection was cut off by an
  orderly close of the broker: no close listener is registered yet, the variable
  `channel` stays set, and the next attempt takes it for a working one
  (`Reuse`). Such a process looks connected and consumes nothing until it is
  restarted.
- `PaidIsAnnounced` excuses orders one of whose webhooks ended in an error: the
  key stays set for a day and the provider was answered 200.
- `PromoUsesHold` allows N - 1 uses too many for N checkouts at a time, and speaks of
  codes typed as they are stored. `ChargesHold` bounds the credit for an old plan
  by its price for the new duration, which is what the code computes.
- `TierKeptInGrace` speaks of what the worker takes: the row and the tier in the JWT.
  It claims no access in the grace period, which the code denies.
- `TierFollowsRows` and `CacheCoherent` excuse users whose handlers overlapped or
  lost a step.
- `SingleUse` is about the refreshes the gateway makes by itself. The mutation
  `refreshTokens` goes past the flight map, so it and a query can both exchange
  one token, and leave a token that nothing leads to.
- `NoOrphan` and `EndedSessionsAreDead` excuse devices two of whose requests
  overlapped: a sign-in between `revokeDeviceToken`'s GET and DEL, or a refresh
  between the reads and the DEL of `revokeAllSessions`, leaves a live session.
- `CookieWorks` excuses browsers one of whose answers came after a newer one or
  after the grace period: the last `Set-Cookie` wins.
- `BadgeIsExact` excuses a counter that met a broadcast, a failed e-mail, an archived
  row, a lost Redis operation, a statement that landed after its call had given up, or
  a fill, reset or deletion beside another call of the user; the next fill ends the
  excuse. Two notifications at once, or two marks, are not excused.
- `PendingIsResolved` excuses the row of a handler that died or lost its status update,
  and the row of an INSERT that landed late, whose e-mail nobody will send; `LogIsTrue`
  the same rows, but never a `sent` of an e-mail that did not go out.
- `OneMailPerEvent` excuses events the broker delivered again after a crash or a lost
  connection (nothing makes `createAndSend` idempotent), and those whose handler
  failed, which finding 4 loses.
- `DeletedStaysGone` excuses an article that a reader held while it was deleted: the
  fill comes after the clearing and lives for its TTL.
- `NobodyIsStranded` excuses a registration that failed half way and a token that ran
  out. `OneTrialPerDevice` excuses devices whose registrations overlapped, and does not
  speak of users who sent no fingerprint, nor of those registered before the device's
  key lapsed: a device gets a trial a year, and somebody without a fingerprint one each
  time, as far as this signal goes.
  `PasswordCodesHold` and `SecondFactorHolds` users whose requests overlapped or
  threw: two sign-ins at once can use one backup code.
- `SomeAdminRemains` excuses a change by somebody who had lost the role since the
  token was issued: two admins can demote each other. `BansSpareAdmins` excuses a
  user whose role changed between the look and the UPDATE.
- `AuditIsTrue` asks for both lines only where both are written (see above), and for
  none of a call one of whose awaits failed.
- `NamesConverge` excuses finding 6, and events lost, dropped or out of order;
  `ProfilesAreShown` a handler that threw or overlapped another of the member.
- `docs/gateway/authentication.md:177` describes independent refreshes of parallel
  requests; the code shares one, and the model follows the code.

## 4. Fairness

- `Payments`: weak fairness of each webhook's next step *or* rejection. Node runs
  every continuation whose promise has settled, and every breaker has a timeout.
- `Subscriptions`: weak fairness of `ExpireActive` and of the loop over the rows
  (the timer is set at the end of every run, and the loops swallow errors);
  strong fairness of `TerminateExpired`, which a rejected call can disable over
  and over: the database is not down at every run; and the process does not die
  for ever (`<>[][~WorkerCrash]_vars`). Nothing is assumed of handlers.
- `EventConsumer`: weak fairness of delivery, of the broker reading frames, of
  the steps of a connection attempt, and of the tasks of the process as a whole:
  everything a handler waits for is bounded by a breaker or a deadline, but for the
  call of `HandlerHangs`, and a hung handler is out of the fairness and never settles. No
  fairness of `ConnectionLost`, `Crash`, `HandlerHangs` or of handlers succeeding.
- `Inbox`: weak fairness of each handler's next step or rejection, for the same
  reason as in `Payments`. The look at the user at auth-service is not in it: that
  gRPC call has neither breaker nor deadline. Nor is `Lands`: a late statement may
  never be done.

The specifications of the MC modules have the fairness of the module they
instantiate. Of `Checkout`, `Articles`, `Sessions`, `Accounts`, `Administration` and
`Profiles` only safety is claimed, and none is assumed.

## 5. The proofs

`tlapm` checks every theorem for every value of the constants, from the named
assumptions on them: tiers and days are natural numbers (`TierAssumption`,
`TimeAssumption`), so are the numbers of tokens (`BoundAssumption`), of articles and
suffixes (`ArticlesAssumption`) and the limits of the consumer,
whose queues are of the three kinds (`ConsumerAssumption`); the checkouts in progress are finitely many and at least
one, and prices are at least a cent (`CheckoutAssumption`); people are finitely many
(`AdminAssumption`); an inbox knows the kinds of its events and the channels of its
administrators, and a call has no event (`InboxAssumption`, `RowsAssumption`);
what `Accounts` draws is numbered (`IdAssumption`) and no fingerprint is none
(`DeviceAssumption`); NULL is nobody's name, and the
bounds on retries and changes of `Profiles` are natural numbers
(`ProfilesAssumption`). `Payments` has none.

**PaymentsProofs.** `PaymentsTyped`, `OneSettlerAtATime`, `AtMostOneTrueEvent`
and `PaymentsImplementLedger`. The invariants are not inductive alone. That at
most one event goes out needs to know that a webhook past `Find` found a pending
row, which nobody else changes while it holds the key, except `createPayment`'s
catch block, which can only turn the row to failed; this needs in turn that no
provider reports success before `createPayment` returned. The inductive invariant
says where the row, the key and the events can stand for each position of the
webhook that holds the key and of `createPayment`. The refinement takes one lemma
per action: `Insert` is `Open`; `Update` and `RecordFailure` are `Settle` or a
stutter; `Publish` is `Announce`; all others stutter.

Of `Checkout` the same module proves `CheckoutTyped`, `PromoUses` and `Charges`.
`LimitHolds` counts the checkouts between the check and the count, and is inductive: a checkout that
passes the check finds a use left, and at most the N - 1 others are past it.
`Uses` adds to the orders those that are counted and not yet paid (`AboutToPay`). The
charges need what the amount is at each await (`Priced`), and arithmetic: a share of
a price, rounded, is at most the price (`RoundedShare`). A quote stays what the
checkout will compute because nobody changes an offer once made (`Quoted`).

**SubscriptionsProofs.** `SubscriptionsTyped`, `AtMostOneActive`,
`TierIsKeptInGrace`. The inductive invariant adds to the types: rows that handlers
hold belong to their user (`Holds`); an expired row's grace period starts after
`ended_at` (`Graced`), which is what makes `TerminateExpired` safe; and for a user
whose writing handlers never overlapped, that the only writing handler in
progress still finds what it read: no active row before it creates one, none but
its own before it terminates that (`Alone`). Without `Alone` the step that
creates a row could not be shown to keep `OneActive`. For the worker's event, which may
go out long after the termination, `Overdue` is added: the rows still to be announced
are past their grace period, and stay so, because no step changes `ended_at`
(`EndsAreKept`), the clock only grows, and a run of the worker only shrinks its list.

`TierIsThatOfTheRows` and `CacheIsCoherent` need more, `TInv` (theorem `Tracking`),
since both tell of a user nothing is in progress for, while every step is
taken when something is. `Tracked(u)` says what holds meanwhile: `Sole`, that
one handler writes at a time, or the worker, and that the row it is about to end is
active yet; `Tiered`, that the tier in the JWT is
what the rows say once the events still to be published are counted in
(`Announced`), each of them owed by one handler or by the worker's row; `Cached`, that
the cached row is the one the database would answer with, or that whoever
changed the table has still to delete the key. Each part is claimed only while
its own excuses are absent: an overlap, a lost step, stacked rows, a crossed
`checkAccess`. What another user's handler or the worker on another's row does
is dealt with once (`Elsewhere`).

**SessionsProofs.** `SessionsTyped` and `ExchangedOnce`. That a token is exchanged
once rests on both services. `OneFlight` and `Flying`: at most one refresh per
token is under way, and the gateway's map says so while it is, so that no second
one starts; `Deleted`: a token that was exchanged is not live, so that a later
one, after the entry is forgotten, gets no further than its look at the key;
`Pending`: a token past that look was not exchanged before, and it is deleted
before its successor is saved. Time-outs need care: a refresh whose
caller is gone no longer counts as under way, which is safe only because it has
saved its token by then. Types need `Numbered` (every number kept anywhere is of
a token issued) and where a query can be.

`NoSessionIsOrphaned`, `EndedAreDead`, `StragglersAreServed` and `CookiesWork` have one
invariant, `Sane`, and each part of it needs the others. `Whole` is about all devices:
`Once` (as above), `Own` (keys, entries and requests belong to the device their token
was issued for), `Unknown` (a token is known only to the handler that
issues it until its keys are written) and `Driven` (a
refresh in the gateway's map has a handler, and a handler its entry). `Good(d)` is
about a device, unless it was disturbed: its handlers do not overlap but for queries,
of which one gets past the look at the key (`Apart`); at each await the tokens that
work are those the handler has not deleted yet, or has just written (`Tidy`); the live token is the last one issued (`Newest`), which is what makes
the arrival order of answers harmless; none after an end (`Dead`); a query in flight
carries a live token or one whose successor the map still gives (`Fed`); and the
browser's cookie is the last token or on its way to be (`Caught`). A step of one
device is shown to leave the others alone once (`Untouched`, `Elsewhere`).

**EventConsumerProofs.** `ConsumerTyped`, `EventsAreKept`, `RetriesBeforeGivingUp`.
A copy under way never counts more retries than its event has failed
(`Counted`, in the queue, among the deliveries, on the wire and in the tasks), and a
frame that gives up is sent after more failures than `MaxRetries`. Every event
that is not settled is at the broker (`AllStored`), which an acknowledgement must
not undo: the frame that settles a retried message comes after the frame of its
copy, on the same channel and so in the same order (`CopiesFirst`). The copy is
told from the message by its higher count, which is why `CopiesFirst` speaks of
counts: without them the invariant could not say that the copy outlives the
message it replaces. Of the kinds of queues the proofs need that what
is dropped at once is what user-service cannot read, and that what is discarded is a
retry on a queue by key, so that its event has failed.

**AdministrationProofs.** `AdminTyped`, `AnAdminRemains`, `AdminsUnbanned`,
`AuditLines`, `Reports`. Calls share only the table, so most of the invariant is
about one call: what it has logged and done by the await it is at (`Logged`), and
where each recipient stands (`Batched`). `Seen` is what a call takes from its look at
the row to its UPDATE: the user exists, and is no admin if it is to be banned. A
promotion in between breaks the latter, which is why `Crossing` must say that two
calls for one user both know of it. One admin remains because the one who
demotes is admin and somebody else. `CountsAgree` ties the counts in progress to
the table while nothing blurs them. `Becomes` says what one step makes of a call,
`Later` what any step makes of the call at a desk; the lemmas on the parts of the
invariant rest on these two.

**InboxProofs.** `InboxTyped`, `OneMail`, `LogTrue`. An event that was delivered once
has one handler (`Single`), because a delivery that is out is held by the task that
runs it; and what the handler has mailed is told by where it is (`Handled`), so that
no event is settled unmailed. The log needs the same of rows: handlers at an e-mail
see to rows of their own (`RowsApart`), which are not among those taken before
(`Posted`). The lemmas say once what any step of a task must do to keep the invariant
(`KeepsEvent`, `MailsOwnRow`, `LogsOwnRow`); each action is then shown to do it. Of the
statements that come late, `LateOK` says that they are honest: a late `sent` is that of
an e-mail that went out, a late `failed` that of a row already given up.

`BadgeExact` counts. For a user in `exact`, `Badge(u)` says: the calls in progress
may share the counter (`Shared`: all add, or all take); what a call has
read still holds (`Informed`: a row found unread is still unread, so the decrement that
follows is owed); and the balance: the counter and the rows not yet counted in
(`Unbumped`) make the unread rows and the decrements still to come (`Taking`), but
for a reset in progress. The sums need that finitely many tasks are busy (`Few`), and
the rows that ids are given in order and a deletion is of one's own row (`Ground`).
That a call for one user leaves the badge of others alone needs that `user_id` NULL,
the row of a broadcast, is no user's id: `InboxAssumption` says so. A statement that lands
changes rows without the counter, and takes its user out of `exact`.

Of `Articles` the same module proves `ArticlesTyped` (with unique slugs) and
`DeletionsLast`. An id is never used again (`NumberedRows`), so a deleted article
stays deleted (`Old`); the deletion leaves no copy under its key (`Uncached`) and,
when it has cleared the keys it listed, none among the search results (`Under`). The
invariant says at each await of the deletion which of these are already so; an article
that a reader holds meanwhile is `outlived`, and excused.

**AccountsProofs.** `AccountsTyped`, `NobodyStranded`, `OneTrial`, `PasswordCodes`,
`SecondFactor`. Its handlers are of three kinds (registration and verification, codes
and links, 2FA), and each kind leaves the state of the other two alone
(`RegisterAside`, `PasswordAside`, `TwoFAStepAside`), so that each property is proved
over the steps of one kind. `Apart` says that two handlers of a user, or of a device,
are noticed: it is what turns the excuse of the properties into a fact about the
handlers in progress.

- `NotStranded`: a handler past the UPDATE of verification still finds the token, and
  one that drops it has published the event.
- `Trials`: whoever was recorded, or will be told of, has the device stored, which
  `TrackDevice` does before the token that leads to the event; so a clean look says
  that no other user of the device has, or will have, a clean signal. When a key lapses,
  the users of its device that have a row are `forgotten`; the claim is about the others.
- `Ownership` and `Novelty` are about numbers, on which the other two properties rest.
  Every code, link and secret drawn so far is of one user and one kind, wherever it is
  stored, mailed or held (an owner function that grows as numbers are drawn), and one
  that was just drawn is known to its handler only. Without them nothing says that a
  new code has set no password yet, or that a new secret comes with no burnt codes.
- `CodesInv`: what is stored has set no password, unless the handler that used it is at
  the DEL (`Spent`); the code last mailed is the one stored, or was used (`Mailed`); a
  change that is not announced yet has its handler (`Announced`). The step of a user
  with one handler is looked at as a move of that handler (`Lone`), all others leave
  the user untouched (`Untouched`).
- `SecondInv`, in the same way: an enabled secret was proved, and so was the one a
  handler is about to enable (`Shown`); a backup code that was accepted is out of the
  row, or its handler is at the UPDATE that takes it out (`Burned`).

Of `Profiles` the same module proves `ProfilesTyped`, `Converging` and `Showing`. Two
facts carry both: a member without mishaps has one handler that writes at a time
(`OneWriter`), and every rename and upload draws a number that is in nobody's hands
(`Shaped` bounds all numbers by the last one drawn).

- `NamesConverge` tells of members at rest. What holds meanwhile (`Named`): the name of
  the profile is in `users`, and whatever event is left is older or says the same; or it
  is in the newest event; or in the hands of the handler that wrote it, which has still
  to tell. A rename under way is newer than all events (`Ahead`), so its event becomes
  the newest; an event that is applied is not older than the one before, or its member
  is astray, so it cannot undo a newer name. Members without a profile have only the
  event of their registration (`Rooted`, `Registered`).
- `ProfilesAreShown` needs to know whose an object is: the avatar of a row and the
  numbers that its member's handlers read and drew are nobody else's (`Separate`), so
  that no deletion meets another member's picture. `Uploads` follows the one upload of
  a member: its object is there before the old one goes, and the old one is gone before
  the row changes. Together they say that a row points to an object that is there
  (`Pictured`) and that none is left over (`AllUsed`). The cached row is the row, or who
  wrote the row is still before the DEL (`Cached`); a row that is created has no copy
  yet.

**The instances.** TLC runs `Payments` with `Checkout`, `Inbox` with `Articles`, and
`Accounts` with `Administration` and `Profiles`. `PaymentsInstance`, `InboxInstance` and
`AccountsInstance` show that a behaviour of such an MC module is one of each module in
it, whatever part it runs and whatever bounds confine it, with the fairness the
module states; so the theorems hold of what TLC runs. `PaymentsPartsTyped`,
`InboxPartsTyped` and `AccountsPartsTyped`, the `TypesOK` of the runs, follow.

Only model-checked: liveness under fairness (`PaidIsAnnounced`,
`LapsedRowsAreFound`, `EventsAreSettled`, `PendingIsResolved`), which the prover does
not reach. Every other property of a passing run is proved. No module declares a
recursive operator.

## 6. Not modelled

- What a channel without publisher confirms loses with its socket: `publishEvent` is
  taken or throws (a hazard in `PROJECT.json` without a property).
- The reminders of the worker: a window of one hour against a timer that drifts by
  the length of its run. They change no state.
- A connection of gateway and auth-service that breaks under a refresh, so that the
  handler outlives its call.
- The deletion of an account, and the proofs of OAuth providers, which are checked
  by a library before `Sessions`' `OidcLogin`. A registration by OAuth publishes
  `user.registered` without a name (`A/services/oauth.service.js` 127-131), on which the
  INSERT of the profile fails at every try until the event is given up; `Profiles` has
  registrations with a name.
- The trial signal by IP address (`trial_ips`, 30 days), which can only flag more
  registrations.
- The rate limiter (a counter per window), templates of e-mails, listings,
  statistics, counts of views: they read, or keep numbers that nothing decides on.
- Configuration, logging, validation schemas, protobuf and docker files have no
  behaviour of their own. The constraints of the tables are in the type invariants,
  the bounds of the validators in the inputs.

Proofs that would come next: refinements of abstract specifications of sessions and of
subscriptions, like that of `PaymentLedger`.
