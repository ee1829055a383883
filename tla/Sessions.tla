-------------------------------- MODULE Sessions --------------------------------
(***************************************************************************)
(* The refresh tokens of one user: auth-service's Redis keys and the       *)
(* handlers that read, rotate and revoke them, and the gateway that        *)
(* refreshes for a browser whose access token has expired, one refresh in  *)
(* flight per token.                                                       *)
(*                                                                         *)
(* A step is one await of a handler.  Commands that a handler sends in one *)
(* tick (Promise.all) reach Redis together.  Awaits that touch none of     *)
(* this state (users, 2FA rows, user_sub, password links, publishing) are  *)
(* places where a handler can fail (Throw), nothing else.                  *)
(***************************************************************************)
EXTENDS Naturals, Sequences

CONSTANTS Devices,    \* uaHash values, each the browser of one device
          Requests,   \* requests that can be under way at once
          Calls,      \* the operations that are called
          Failing,    \* what can fail: "throw", "timeout"
          MaxTokens   \* bound: refresh tokens issued

ASSUME BoundAssumption == MaxTokens \in Nat

VARIABLES
  issued,         \* the refresh tokens ever issued, in order of issue
  live,           \* the tokens t for which refresh:{t} exists
  device_token,   \* device_token:{userId}:{device}, 0 without a key
  user_sessions,  \* user_sessions:{userId}
  req,            \* requests under way
  flight,         \* the gateway's refreshInFlight, by the old token
  cookie,         \* each browser's refresh_token cookie, 0 for none
  history         \* what happened to each device; read by the properties only

vars == <<issued, live, device_token, user_sessions, req, flight, cookie, history>>

-------------------------------------------------------------------------------
(* State.                                                                    *)

Token  == 1..MaxTokens
Maybe  == 0..MaxTokens
\* The value of refresh:{t}; "from" is the token that the gateway exchanged for it
\* by itself, else 0 (not in Redis, for the properties).
Session == [device : Devices, from : Maybe]

Signins == {"login", "oidc", "register"}
Ops     == Signins \cup {"query", "refresh", "logout", "password"}
\* Where a request is: on its way to the gateway, sharing a refresh, at an await
\* of auth-service, or answered with the answer on its way.
Handling == {"get", "rotate", "revoke", "drop", "save", "index", "out", "collect"}
Steps    == {"sent", "waiting", "reply"} \cup Handling
Idle     == [at |-> "idle"]
Req      == [at : Steps, op : Ops, device : Devices \cup {"all"},
             token : Maybe,            \* the old token, 0 for none
             fresh : Maybe,            \* the new one, 0 for none
             todo : SUBSET Devices,    \* revokeAllSessions: still to look up,
             seen : SUBSET Devices,    \* looked up,
             found : SUBSET Token,     \* and the tokens found
             caller : {"waits", "gone"}]

Flight == [at : {"none", "busy", "done"}, got : Maybe]
NoFlight == [at |-> "none", got |-> 0]

\* What a device went through since its last sign-in.  "late": an answer took longer
\* than the grace period, or came after a newer one; "expired": the TTL ended its
\* session; "refused": a refresh found no session, for none of the other reasons;
\* "ended": a logout or a password change ended its session; "missed": a password
\* change did not find it in user_sessions; "disturbed", for good: two of its
\* requests were under way at once, not both queries, or a handler failed, or an
\* answer got lost.
Fates == {"clean", "late", "expired", "refused", "ended", "missed", "disturbed"}
Over  == {"ended", "missed", "disturbed"}
\* A device's history h after it met with the fate f.
Becomes(h, f) == IF \/ h = "disturbed"
                    \/ f = "refused" /\ h # "clean"
                    \/ f \in {"late", "expired"} /\ h \in Over
                 THEN h ELSE f
Mark(D, f) == history' = [d \in Devices |-> IF d \in D THEN Becomes(history[d], f)
                                                       ELSE history[d]]

LiveOf(d)  == {t \in live : issued[t].device = d}
Busy(r)    == req[r] # Idle /\ ~(req[r].op = "query" /\ req[r].at = "reply")
Concerns(r, d) == req[r].op = "password" \/ req[r].device = d
Quiet(d)   == \A r \in Requests : req[r] # Idle => ~Concerns(r, d)

\* The devices for which a new request of d overlaps one under way.
Clashes(op, d) ==
  {e \in Devices : /\ op = "password" \/ e = d
                   /\ \E r \in Requests : /\ Busy(r) /\ Concerns(r, e)
                                          /\ {op, req[r].op} # {"query"}}

New(at, op, d, t) == [at |-> at, op |-> op, device |-> d, token |-> t, fresh |-> 0,
                      todo |-> {}, seen |-> {}, found |-> {}, caller |-> "waits"]
Starts(r, q) == req[r] = Idle /\ req' = [req EXCEPT ![r] = q]
Goes(r, at)  == req' = [req EXCEPT ![r].at = at]
Ends(r)      == req' = [req EXCEPT ![r] = Idle]

Redis == <<issued, live, device_token, user_sessions>>

-------------------------------------------------------------------------------
(* Signing in.                                                               *)

\* With a sign-in the device's history begins anew.
MarkSignIn(op, d) ==
  Mark({d}, IF Clashes(op, d) = {} THEN "clean" ELSE "disturbed")

\* login, and verify2FA after it: the user, the password or the code are right.
\* First await on these keys: revokeDeviceToken.
Login(r, d) ==
  /\ "login" \in Calls
  /\ Starts(r, New("revoke", "login", d, 0))
  /\ MarkSignIn("login", d)
  /\ UNCHANGED <<Redis, flight, cookie>>

\* oidcLogin: the session is listed before anything else.
OidcLogin(r, d) ==
  /\ "oidc" \in Calls
  /\ Starts(r, New("revoke", "oidc", d, 0))
  /\ user_sessions' = user_sessions \cup {d}
  /\ MarkSignIn("oidc", d)
  /\ UNCHANGED <<issued, live, device_token, flight, cookie>>

\* register: once, before any other session of the user.
Register(r, d) ==
  /\ "register" \in Calls
  /\ issued = << >> /\ \A q \in Requests : req[q] = Idle
  /\ Starts(r, New("save", "register", d, 0))
  /\ MarkSignIn("register", d)
  /\ UNCHANGED <<Redis, flight, cookie>>

\* revokeDeviceToken, GET.
Revoke(r) ==
  /\ req[r].at = "revoke"
  /\ LET t == device_token[req[r].device] IN
       req' = [req EXCEPT ![r].token = t, ![r].at = IF t = 0 THEN "save" ELSE "drop"]
  /\ UNCHANGED <<Redis, flight, cookie, history>>

\* A handler that nobody waits for ends with the operation it is in.
Dropped(r) == IF req[r].caller = "gone" THEN Ends(r)
              ELSE req' = [req EXCEPT ![r].at = "save", ![r].token = 0]

\* Fault: only the reverse index is deleted.
DropIndexOnly(r) ==
  /\ req[r].at = "drop"
  /\ device_token' = [device_token EXCEPT ![req[r].device] = 0]
  /\ Dropped(r)
  /\ UNCHANGED <<issued, live, user_sessions, flight, cookie, history>>

\* revokeDeviceToken, DEL.
Drop(r) ==
  /\ req[r].at = "drop"
  /\ live' = live \ {req[r].token}
  /\ device_token' = [device_token EXCEPT ![req[r].device] = 0]
  /\ Dropped(r)
  /\ UNCHANGED <<issued, user_sessions, flight, cookie, history>>

\* saveRefreshToken, first SET; login sends addUserSession's SADD with it.
Save(r) ==
  /\ req[r].at = "save"
  /\ Len(issued) < MaxTokens
  /\ LET t == Len(issued) + 1
         d == req[r].device
     IN /\ issued' = Append(issued,
             [device |-> d, from |-> IF req[r].op = "query" THEN req[r].token ELSE 0])
        /\ live' = live \cup {t}
        /\ req' = [req EXCEPT ![r].fresh = t, ![r].at = "index"]
        /\ user_sessions' = IF req[r].op = "login" THEN user_sessions \cup {d}
                            ELSE user_sessions
  /\ UNCHANGED <<device_token, flight, cookie, history>>

-------------------------------------------------------------------------------
(* Refreshing.                                                               *)

\* A browser sends a query whose access token has expired.
Send(r, d) ==
  /\ "query" \in Calls
  /\ cookie[d] # 0
  /\ Starts(r, New("sent", "query", d, cookie[d]))
  /\ Mark(Clashes("query", d), "disturbed")
  /\ UNCHANGED <<Redis, flight, cookie>>

\* The mutation refreshTokens, with a token that still works: it goes past the
\* gateway's refreshes in flight.
RefreshTokens(r, d) ==
  /\ "refresh" \in Calls
  /\ \E t \in LiveOf(d) : Starts(r, New("get", "refresh", d, t))
  /\ Mark(Clashes("refresh", d), "disturbed")
  /\ UNCHANGED <<Redis, flight, cookie>>

\* Fault: every request refreshes by itself.
RefreshAlone(r) ==
  /\ req[r].at = "sent"
  /\ Goes(r, "get")
  /\ flight' = [flight EXCEPT ![req[r].token] = [at |-> "busy", got |-> 0]]
  /\ UNCHANGED <<Redis, cookie, history>>

\* getOrStartRefresh: a refresh of the same token that is under way, or ended a
\* moment ago, is shared.
GetOrStartRefresh(r) ==
  /\ req[r].at = "sent"
  /\ LET t == req[r].token IN
     \/ /\ flight[t].at = "none"
        /\ flight' = [flight EXCEPT ![t].at = "busy"]
        /\ Goes(r, "get")
     \/ /\ flight[t].at = "busy"
        /\ Goes(r, "waiting")
        /\ UNCHANGED flight
     \/ /\ flight[t].at = "done"
        /\ req' = [req EXCEPT ![r].at = "reply", ![r].fresh = flight[t].got]
        /\ UNCHANGED flight
  /\ UNCHANGED <<Redis, cookie, history>>

\* The call of auth-service returns token n, or throws (0): all who wait have
\* their answer.  "was" is what becomes of the handler's own request.
Settle(r, n, was) ==
  LET t == req[r].token IN
  /\ flight' = [flight EXCEPT ![t] = [at |-> "done", got |-> n]]
  /\ req' = [q \in Requests |->
               IF q = r THEN was
               ELSE IF req[q].at = "waiting" /\ req[q].token = t
               THEN [req[q] EXCEPT !.at = "reply", !.fresh = n]
               ELSE req[q]]

\* refreshTokens: the session must exist and be the device's.
Get(r) ==
  /\ req[r].at = "get"
  /\ IF req[r].token \in LiveOf(req[r].device)
     THEN Goes(r, "rotate") /\ UNCHANGED <<flight, history>>
     ELSE IF req[r].op = "query"
     THEN Settle(r, 0, Idle) /\ Mark({req[r].device}, "refused")
     ELSE Ends(r) /\ UNCHANGED <<flight, history>>
  /\ UNCHANGED <<Redis, cookie>>

\* refreshTokens: the old token is deleted.
Rotate(r) ==
  /\ req[r].at = "rotate"
  /\ live' = live \ {req[r].token}
  /\ Goes(r, "save")
  /\ UNCHANGED <<issued, device_token, user_sessions, flight, cookie, history>>

\* saveRefreshToken, second SET, and the return of the handler.
Index(r) ==
  /\ req[r].at = "index"
  /\ device_token' = [device_token EXCEPT ![req[r].device] = req[r].fresh]
  /\ IF req[r].caller = "gone" THEN Ends(r) /\ UNCHANGED flight
     ELSE IF req[r].op = "query" THEN Settle(r, req[r].fresh, [req[r] EXCEPT !.at = "reply"])
     ELSE Goes(r, "reply") /\ UNCHANGED flight
  /\ UNCHANGED <<issued, live, user_sessions, cookie, history>>

\* Fault: the entry goes as soon as the refresh settles.
ForgetAtOnce(t) ==
  /\ flight[t].at = "done"
  /\ flight' = [flight EXCEPT ![t] = NoFlight]
  /\ UNCHANGED <<Redis, req, cookie, history>>

\* The device of an answer still on its way whose browser has the old cookie.
Unanswered(t) == {d \in Devices : /\ cookie[d] = t
                                  /\ \E r \in Requests : /\ req[r] # Idle
                                                          /\ req[r].at = "reply"
                                                          /\ req[r].token = t}

\* REFRESH_GRACE_MS after the refresh settled; a request takes less to arrive.
Forget(t) ==
  /\ flight[t].at = "done"
  /\ \A r \in Requests : req[r].at = "sent" => req[r].token # t
  /\ flight' = [flight EXCEPT ![t] = NoFlight]
  /\ Mark(Unanswered(t), "late")
  /\ UNCHANGED <<Redis, req, cookie>>

\* Fault: the answer to a query has no cookie.
AnswerWithoutCookie(r) ==
  /\ req[r].at = "reply"
  /\ Ends(r)
  /\ cookie' = IF req[r].fresh = 0 \/ req[r].op = "query" THEN cookie
               ELSE [cookie EXCEPT ![req[r].device] = req[r].fresh]
  /\ UNCHANGED <<Redis, flight, history>>

\* The answer reaches the browser, in any order; with a cookie if there is a token.
Answer(r) ==
  /\ req[r].at = "reply"
  /\ Ends(r)
  /\ LET d == req[r].device  t == req[r].fresh IN
     IF t = 0 THEN UNCHANGED <<cookie, history>>
     ELSE /\ cookie' = [cookie EXCEPT ![d] = t]
          /\ Mark({e \in {d} : t < cookie[e]}, "late")
  /\ UNCHANGED <<Redis, flight>>

-------------------------------------------------------------------------------
(* Ending sessions.                                                          *)

\* logout: the session exists.
Logout(r, d) ==
  /\ "logout" \in Calls
  /\ \E t \in LiveOf(d) : Starts(r, New("out", "logout", d, t))
  /\ Mark(Clashes("logout", d), "disturbed")
  /\ UNCHANGED <<Redis, flight, cookie>>

\* logout: DEL, DEL and SREM, sent together.
Out(r) ==
  /\ req[r].at = "out"
  /\ LET d == req[r].device IN
     /\ live' = live \ {req[r].token}
     /\ device_token' = [device_token EXCEPT ![d] = 0]
     /\ user_sessions' = user_sessions \ {d}
     /\ Mark({d}, "ended")
  /\ Ends(r)
  /\ UNCHANGED <<issued, flight, cookie>>

\* confirmPasswordChange, from revokeAllSessions' SMEMBERS on.
ConfirmPasswordChange(r) ==
  /\ "password" \in Calls
  /\ Starts(r, [New("collect", "password", "all", 0) EXCEPT !.todo = user_sessions])
  /\ Mark(Clashes("password", "all"), "disturbed")
  /\ UNCHANGED <<Redis, flight, cookie>>

\* Fault: a missing reverse index is not told from a token.
CollectUnchecked(r) ==
  /\ req[r].at = "collect"
  /\ \E d \in req[r].todo :
       req' = [req EXCEPT ![r].todo = @ \ {d},
                          ![r].seen = @ \cup {d},
                          ![r].found = @ \cup {device_token[d]}]
  /\ UNCHANGED <<Redis, flight, cookie, history>>

\* revokeAllSessions: GET of one device's token.
Collect(r) ==
  /\ req[r].at = "collect"
  /\ \E d \in req[r].todo :
       req' = [req EXCEPT ![r].todo = @ \ {d},
                          ![r].seen = @ \cup {d},
                          ![r].found = @ \cup ({device_token[d]} \ {0})]
  /\ UNCHANGED <<Redis, flight, cookie, history>>

\* What revokeAllSessions is for each device.
MarkRevoked(r) ==
  history' = [d \in Devices |->
                Becomes(history[d], IF d \in req[r].seen THEN "ended" ELSE "missed")]

\* Fault: only the reverse indexes and the set are deleted.
PurgeIndexOnly(r) ==
  /\ req[r].at = "collect" /\ req[r].todo = {}
  /\ device_token' = [d \in Devices |-> IF d \in req[r].seen THEN 0 ELSE device_token[d]]
  /\ user_sessions' = {}
  /\ MarkRevoked(r)
  /\ Ends(r)
  /\ UNCHANGED <<issued, live, flight, cookie>>

\* revokeAllSessions: one DEL of the tokens, the reverse indexes and the set.
Purge(r) ==
  /\ req[r].at = "collect" /\ req[r].todo = {}
  /\ live' = live \ req[r].found
  /\ device_token' = [d \in Devices |-> IF d \in req[r].seen THEN 0 ELSE device_token[d]]
  /\ user_sessions' = {}
  /\ MarkRevoked(r)
  /\ Ends(r)
  /\ UNCHANGED <<issued, flight, cookie>>

\* user_sessions lapses 7 days after the last sign-in; a refresh prolongs nothing.
SessionsLapse ==
  /\ "lapse" \in Calls
  /\ user_sessions # {}
  /\ user_sessions' = {}
  /\ UNCHANGED <<issued, live, device_token, req, flight, cookie, history>>

\* A device's token lapses 30 days after its issue, and its reverse index.
TokenLapses(d) ==
  /\ "lapse" \in Calls
  /\ \E t \in LiveOf(d) :
       /\ \A r \in Requests : req[r] # Idle => req[r].fresh # t
       /\ live' = live \ {t}
       /\ device_token' = [device_token EXCEPT ![d] = IF @ = t THEN 0 ELSE @]
  /\ Mark({d}, "expired")
  /\ UNCHANGED <<issued, user_sessions, req, flight, cookie>>

-------------------------------------------------------------------------------
(* Failures.                                                                 *)

Concerned(r) == {d \in Devices : Concerns(r, d)}

\* An await rejects: the handler does nothing more, a refresh that is shared fails.
Throw(r) ==
  /\ "throw" \in Failing
  /\ req[r].at \in Handling
  /\ Mark(Concerned(r), "disturbed")
  /\ IF req[r].op = "query" /\ req[r].caller = "waits" THEN Settle(r, 0, Idle)
     ELSE Ends(r) /\ UNCHANGED flight
  /\ UNCHANGED <<Redis, cookie>>

\* The breaker gives up on an operation of several commands, or what runs beside
\* it fails: the caller has its error, the operation goes on.  oidcLogin calls
\* Redis without a breaker.
TimesOut(r) ==
  /\ "timeout" \in Failing
  /\ req[r].at \in {"drop", "index", "collect"}
  /\ req[r].caller = "waits" /\ req[r].op # "oidc"
  /\ Mark(Concerned(r), "disturbed")
  /\ LET left == [req[r] EXCEPT !.caller = "gone"] IN
     IF req[r].op = "query" THEN Settle(r, 0, left)
     ELSE req' = [req EXCEPT ![r] = left] /\ UNCHANGED flight
  /\ UNCHANGED <<Redis, cookie>>

\* An answer does not reach the browser, or publishing fails after a sign-in.
LoseAnswer(r) ==
  /\ "answer" \in Failing
  /\ req[r].at = "reply"
  /\ Mark({req[r].device}, "disturbed")
  /\ Ends(r)
  /\ UNCHANGED <<Redis, flight, cookie>>

-------------------------------------------------------------------------------
\* No session, no request.
Empty ==
  /\ issued = << >>
  /\ live = {}
  /\ device_token = [d \in Devices |-> 0]
  /\ user_sessions = {}
  /\ req = [r \in Requests |-> Idle]
  /\ flight = [t \in Token |-> NoFlight]
  /\ cookie = [d \in Devices |-> 0]

Init == Empty /\ history = [d \in Devices |-> "clean"]

Handles(r) ==
  \/ GetOrStartRefresh(r) \/ Get(r) \/ Rotate(r)
  \/ Revoke(r) \/ Drop(r) \/ Save(r) \/ Index(r) \/ Answer(r)
  \/ Out(r) \/ Collect(r) \/ Purge(r)

Calling(r, d) ==
  \/ Login(r, d) \/ OidcLogin(r, d) \/ Register(r, d)
  \/ Send(r, d) \/ RefreshTokens(r, d) \/ Logout(r, d)

Next ==
  \/ \E r \in Requests : \/ \E d \in Devices : Calling(r, d)
                         \/ ConfirmPasswordChange(r)
                         \/ Handles(r)
                         \/ Throw(r) \/ TimesOut(r) \/ LoseAnswer(r)
  \/ \E t \in Token : Forget(t)
  \/ \E d \in Devices : TokenLapses(d)
  \/ SessionsLapse

Spec == Init /\ [][Next]_vars

-------------------------------------------------------------------------------
(* Properties.                                                               *)

\* Every variable has its type.
TypeOK ==
  /\ issued \in Seq(Session) /\ Len(issued) <= MaxTokens
  /\ live \subseteq DOMAIN issued
  /\ device_token \in [Devices -> Maybe]
  /\ user_sessions \subseteq Devices
  /\ req \in [Requests -> Req \cup {Idle}]
  /\ flight \in [Token -> Flight]
  /\ cookie \in [Devices -> Maybe]
  /\ history \in [Devices -> Fates]

\* The gateway exchanges a refresh token at most once, however many requests carry
\* it, whatever fails, and whatever else happens meanwhile ("Single-use (deleted
\* after refresh)", docs/auth/token-system.md:284).  auth-service reads the token,
\* then deletes it; that one refresh per token happens is the gateway's doing.
SingleUse ==
  \A s, t \in DOMAIN issued : issued[s].from = issued[t].from /\ issued[s].from # 0 => s = t

\* A device on which nothing overlapped and nothing failed has at most one
\* session, the one that the reverse index leads to: nothing is left behind that
\* the next sign-in or a password change would not revoke.
NoOrphan ==
  \A d \in Devices : Quiet(d) /\ history[d] # "disturbed"
                       => LiveOf(d) \subseteq {device_token[d]}

\* After a logout or a password change, no refresh token of the device works,
\* until it signs in again: for devices listed in user_sessions on which nothing
\* overlapped and nothing failed.
EndedSessionsAreDead ==
  \A d \in Devices : history[d] = "ended" => LiveOf(d) = {} /\ d \notin user_sessions

\* A browser that has all its answers holds a cookie that still works, however
\* many queries refreshed at once, unless its session was ended.
CookieWorks ==
  \A d \in Devices :
    Quiet(d) /\ history[d] = "clean" => cookie[d] \in live \cup {0}

\* No query is refused for carrying a token that was just exchanged for another:
\* it rides on the refresh in flight, or on the one that ended a moment ago
\* (auth-context.js:15-23).
StragglersRide == \A d \in Devices : history[d] # "refused"

\* "Revokes ALL sessions and refresh tokens for a user" (redisClient.js:168):
\* when it is done, no token issued before it began is left.  As stated, for a
\* device on which nothing overlapped and nothing failed.
AllSessionsRevoked ==
  \A d \in Devices : history[d] \in {"ended", "missed"} => LiveOf(d) = {}
===============================================================================
