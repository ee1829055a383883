---------------------------- MODULE SessionsProofs ----------------------------
(***************************************************************************)
(* Proofs about Sessions, for any devices, requests, operations, failures  *)
(* and number of tokens: its types; that the gateway exchanges a refresh   *)
(* token at most once; and, of a device on which nothing overlapped and    *)
(* nothing failed, that no session is left behind, that an ended one stays *)
(* ended, that no query is refused and that the cookie works.              *)
(***************************************************************************)
EXTENDS Sessions, SequenceTheorems, TLAPS

-------------------------------------------------------------------------------
(* Types.  Numbers of tokens that are kept anywhere are of tokens issued,    *)
(* a query carries one, and only revokeAllSessions is about no device.       *)

Others == {"revoke", "drop", "out", "collect"}  \* where no query is
Sound(q, n) ==
  /\ q.fresh <= n
  /\ q.op = "query" => q.token \in 1..n /\ q.at \notin Others
  /\ q.at = "sent" => q.op = "query"
  /\ q.at = "collect" \/ q.device \in Devices
InUse(r) == req[r] # Idle => Sound(req[r], Len(issued))

Numbered ==
  /\ \A i \in DOMAIN issued : issued[i].from <= Len(issued)
  /\ \A d \in Devices : cookie[d] <= Len(issued)
  /\ \A t \in Token : flight[t].got <= Len(issued)
  /\ \A r \in Requests : InUse(r)

Typed == TypeOK /\ Numbered

LEMMA BecomesAFate ==
  ASSUME NEW h \in Fates, NEW f \in Fates
  PROVE  Becomes(h, f) \in Fates
  BY DEF Becomes

LEMMA MarkTyped ==
  ASSUME history \in [Devices -> Fates], NEW D, NEW f \in Fates, Mark(D, f)
  PROVE  history' \in [Devices -> Fates]
  BY BecomesAFate DEF Mark

LEMMA LenIsANumber == TypeOK => Len(issued) \in Nat /\ DOMAIN issued = 1..Len(issued)
  BY DEF TypeOK

\* What a handler's step to another place keeps.
LEMMA GoesTyped ==
  ASSUME Typed, NEW r \in Requests, req[r] # Idle, req[r].at # "collect",
         NEW s \in Steps \ ({"sent"} \cup Others), Goes(r, s), UNCHANGED issued
  PROVE  /\ req' \in [Requests -> Req \cup {Idle}]
         /\ \A q \in Requests : InUse(q)'
  <1>1. req[r] \in Req
    BY DEF Typed, TypeOK
  <1>2. [req[r] EXCEPT !.at = s] \in Req
    BY <1>1 DEF Req
  <1>3. req' = [req EXCEPT ![r] = [req[r] EXCEPT !.at = s]]
    BY DEF Goes
  <1>4. req' \in [Requests -> Req \cup {Idle}]
    BY <1>2, <1>3 DEF Typed, TypeOK
  <1>5. ASSUME NEW q \in Requests PROVE InUse(q)'
    <2>1. CASE q = r
      BY <1>1, <1>3, <2>1 DEF Typed, TypeOK, Numbered, InUse, Sound, Req, Others
    <2>2. CASE q # r
      BY <1>3, <2>2 DEF Typed, TypeOK, Numbered, InUse, Sound, Others
    <2>. QED BY <2>1, <2>2
  <1>. QED BY <1>4, <1>5

LEMMA EndsTyped ==
  ASSUME Typed, NEW r \in Requests, Ends(r), UNCHANGED issued
  PROVE  /\ req' \in [Requests -> Req \cup {Idle}]
         /\ \A q \in Requests : InUse(q)'
  BY DEF Typed, TypeOK, Numbered, InUse, Ends

\* A request put into place: a new one, or a handler's next state.
LEMMA PutTyped ==
  ASSUME Typed, NEW r \in Requests, NEW q \in Req, req' = [req EXCEPT ![r] = q],
         Sound(q, Len(issued)), UNCHANGED issued
  PROVE  /\ req' \in [Requests -> Req \cup {Idle}]
         /\ \A x \in Requests : InUse(x)'
  <1>1. req' \in [Requests -> Req \cup {Idle}]
    BY DEF Typed, TypeOK
  <1>2. ASSUME NEW x \in Requests PROVE InUse(x)'
    <2>1. CASE x = r
      BY <2>1 DEF Typed, TypeOK, Numbered, InUse, Sound, Others
    <2>2. CASE x # r
      BY <2>2 DEF Typed, TypeOK, Numbered, InUse, Sound, Others
    <2>. QED BY <2>1, <2>2
  <1>. QED BY <1>1, <1>2

\* A refresh settles with the number n of a token, or 0.
LEMMA SettleTyped ==
  ASSUME Typed, NEW r \in Requests, req[r] # Idle, req[r].op = "query",
         NEW n \in 0..Len(issued), NEW was \in Req \cup {Idle}, Settle(r, n, was),
         was # Idle => Sound(was, Len(issued)),
         UNCHANGED issued
  PROVE  /\ flight' \in [Token -> Flight]
         /\ \A t \in Token : flight'[t].got <= Len(issued)
         /\ req' \in [Requests -> Req \cup {Idle}]
         /\ \A q \in Requests : InUse(q)'
  <1>. DEFINE t == req[r].token
  <1>1. Len(issued) \in Nat /\ Len(issued) <= MaxTokens /\ MaxTokens \in Nat
    BY LenIsANumber, BoundAssumption DEF Typed, TypeOK
  <1>2. t \in Token /\ n \in Maybe
    BY <1>1 DEF Typed, Numbered, InUse, Sound, Token, Maybe, Others
  <1>3. flight' = [flight EXCEPT ![t] = [at |-> "done", got |-> n]]
    BY DEF Settle
  <1>4. [at |-> "done", got |-> n] \in Flight
    BY <1>2 DEF Flight
  <1>5. flight' \in [Token -> Flight]
    BY <1>3, <1>4 DEF Typed, TypeOK
  <1>6. \A x \in Token : flight'[x].got <= Len(issued)
    BY <1>1, <1>2, <1>3 DEF Typed, TypeOK, Numbered
  <1>7. ASSUME NEW q \in Requests
        PROVE  req'[q] \in Req \cup {Idle} /\ InUse(q)'
    <2>1. CASE q = r
      BY <2>1 DEF Settle, InUse
    <2>2. CASE q # r /\ req[q].at = "waiting" /\ req[q].token = t
      <3>1. req[q] \in Req
        BY <2>2 DEF Typed, TypeOK, Idle
      <3>2. req'[q] = [req[q] EXCEPT !.at = "reply", !.fresh = n]
        BY <2>2 DEF Settle
      <3>3. req'[q] \in Req
        BY <1>2, <3>1, <3>2 DEF Req, Steps, Others
      <3>4. req'[q].fresh = n /\ req'[q].op = req[q].op /\ req'[q].token = req[q].token
            /\ req'[q].device = req[q].device /\ req'[q].at = "reply"
        BY <3>1, <3>2 DEF Req
      <3>5. req[q] # Idle
        BY <2>2 DEF Idle
      <3>6. Sound(req[q], Len(issued))
        BY <3>5 DEF Typed, Numbered, InUse
      <3>7. Sound(req'[q], Len(issued))
        BY <1>1, <2>2, <3>4, <3>6 DEF Sound, Others
      <3>. QED BY <3>3, <3>7 DEF InUse
    <2>3. CASE q # r /\ ~(req[q].at = "waiting" /\ req[q].token = t)
      BY <2>3 DEF Settle, InUse, Typed, TypeOK, Numbered
    <2>. QED BY <2>1, <2>2, <2>3
  <1>8. req' = [q \in Requests |-> req'[q]]
    BY DEF Settle
  <1>. QED BY <1>5, <1>6, <1>7, <1>8

LEMMA ClashesAreDevices ==
  \A op, d : Clashes(op, d) \subseteq Devices
  BY DEF Clashes

\* What needs no look at the handlers: a step that changes only history.
LEMMA NewTyped ==
  ASSUME NEW at \in Steps, NEW op \in Ops, NEW d \in Devices \cup {"all"}, NEW t \in Maybe
  PROVE  /\ New(at, op, d, t) \in Req
         /\ New(at, op, d, t).fresh = 0
         /\ New(at, op, d, t).op = op /\ New(at, op, d, t).token = t
         /\ New(at, op, d, t).at = at /\ New(at, op, d, t).device = d
  BY BoundAssumption DEF New, Req, Maybe, Token

LEMMA StartsTyped ==
  ASSUME Typed, NEW r \in Requests, NEW at \in Steps, NEW op \in Ops, NEW d \in Devices,
         NEW t \in Maybe,
         op = "query" => t \in 1..Len(issued) /\ at \notin Others,
         at = "sent" => op = "query",
         Starts(r, New(at, op, d, t)), UNCHANGED issued
  PROVE  /\ req' \in [Requests -> Req \cup {Idle}]
         /\ \A x \in Requests : InUse(x)'
  <1>. DEFINE q == New(at, op, d, t)
  <1>1. /\ q \in Req /\ q.fresh = 0 /\ q.op = op /\ q.token = t
        /\ q.device \in Devices /\ q.at = at
    BY NewTyped
  <1>2. req' = [req EXCEPT ![r] = q]
    BY DEF Starts
  <1>3. Len(issued) \in Nat
    BY LenIsANumber DEF Typed
  <1>4. Sound(q, Len(issued))
    BY <1>1, <1>3 DEF Sound, Others
  <1>. HIDE DEF q
  <1>. QED BY <1>1, <1>2, <1>4, PutTyped

LEMMA TypedInit == Init => Typed
  BY BoundAssumption
  DEF Init, Empty, Typed, TypeOK, Numbered, InUse, NoFlight, Flight, Maybe, Token, Fates, Session, Idle

LEMMA TypedStep == Typed /\ [Next]_vars => Typed'
  <1>. SUFFICES ASSUME Typed, [Next]_vars PROVE Typed'
    OBVIOUS
  <1>. USE DEF Redis
  <1>0. /\ Len(issued) \in Nat /\ DOMAIN issued = 1..Len(issued)
        /\ Len(issued) <= MaxTokens /\ MaxTokens \in Nat
    BY LenIsANumber, BoundAssumption DEF Typed, TypeOK
  <1>1. ASSUME NEW r \in Requests, NEW d \in Devices, Login(r, d) PROVE Typed'
    <2>2. /\ req' \in [Requests -> Req \cup {Idle}]
          /\ \A x \in Requests : InUse(x)'
      BY <1>0, <1>1, StartsTyped DEF Login, Steps, Handling, Ops, Signins, Maybe, Others
    <2>3. history' \in [Devices -> Fates]
      BY <1>1, MarkTyped DEF Login, MarkSignIn, Fates, Typed, TypeOK
    <2>. QED BY <1>1, <2>2, <2>3 DEF Login, Typed, TypeOK, Numbered
  <1>2. ASSUME NEW r \in Requests, NEW d \in Devices, OidcLogin(r, d) PROVE Typed'
    <2>2. /\ req' \in [Requests -> Req \cup {Idle}]
          /\ \A x \in Requests : InUse(x)'
      BY <1>0, <1>2, StartsTyped DEF OidcLogin, Steps, Handling, Ops, Signins, Maybe, Others
    <2>3. history' \in [Devices -> Fates]
      BY <1>2, MarkTyped DEF OidcLogin, MarkSignIn, Fates, Typed, TypeOK
    <2>. QED BY <1>2, <2>2, <2>3 DEF OidcLogin, Typed, TypeOK, Numbered
  <1>3. ASSUME NEW r \in Requests, NEW d \in Devices, Register(r, d) PROVE Typed'
    <2>2. /\ req' \in [Requests -> Req \cup {Idle}]
          /\ \A x \in Requests : InUse(x)'
      BY <1>0, <1>3, StartsTyped DEF Register, Steps, Handling, Ops, Signins, Maybe, Others
    <2>3. history' \in [Devices -> Fates]
      BY <1>3, MarkTyped DEF Register, MarkSignIn, Fates, Typed, TypeOK
    <2>. QED BY <1>3, <2>2, <2>3 DEF Register, Typed, TypeOK, Numbered
  <1>4. ASSUME NEW r \in Requests, NEW d \in Devices, Send(r, d) PROVE Typed'
    <2>1. cookie[d] \in 1..Len(issued)
      BY <1>0, <1>4 DEF Send, Typed, TypeOK, Numbered, Maybe
    <2>3. /\ req' \in [Requests -> Req \cup {Idle}]
          /\ \A x \in Requests : InUse(x)'
      BY <1>0, <1>4, <2>1, StartsTyped DEF Send, Steps, Handling, Ops, Signins, Maybe, Others
    <2>4. history' \in [Devices -> Fates]
      BY <1>4, MarkTyped DEF Send, Fates, Typed, TypeOK
    <2>. QED BY <1>4, <2>3, <2>4 DEF Send, Typed, TypeOK, Numbered
  <1>5. ASSUME NEW r \in Requests, NEW d \in Devices, RefreshTokens(r, d) PROVE Typed'
    <2>1. PICK t \in LiveOf(d) : Starts(r, New("get", "refresh", d, t))
      BY <1>5 DEF RefreshTokens
    <2>2. t \in Maybe
      BY <1>0 DEF LiveOf, Typed, TypeOK, Maybe
    <2>4. /\ req' \in [Requests -> Req \cup {Idle}]
          /\ \A x \in Requests : InUse(x)'
      BY <1>5, <2>1, <2>2, StartsTyped DEF RefreshTokens, Steps, Handling, Ops, Others
    <2>5. history' \in [Devices -> Fates]
      BY <1>5, MarkTyped DEF RefreshTokens, Fates, Typed, TypeOK
    <2>. QED BY <1>5, <2>4, <2>5 DEF RefreshTokens, Typed, TypeOK, Numbered
  <1>6. ASSUME NEW r \in Requests, NEW d \in Devices, Logout(r, d) PROVE Typed'
    <2>1. PICK t \in LiveOf(d) : Starts(r, New("out", "logout", d, t))
      BY <1>6 DEF Logout
    <2>2. t \in Maybe
      BY <1>0 DEF LiveOf, Typed, TypeOK, Maybe
    <2>4. /\ req' \in [Requests -> Req \cup {Idle}]
          /\ \A x \in Requests : InUse(x)'
      BY <1>6, <2>1, <2>2, StartsTyped DEF Logout, Steps, Handling, Ops, Others
    <2>5. history' \in [Devices -> Fates]
      BY <1>6, MarkTyped DEF Logout, Fates, Typed, TypeOK
    <2>. QED BY <1>6, <2>4, <2>5 DEF Logout, Typed, TypeOK, Numbered
  <1>7. ASSUME NEW r \in Requests, ConfirmPasswordChange(r) PROVE Typed'
    <2>. DEFINE n == New("collect", "password", "all", 0)
                q == [n EXCEPT !.todo = user_sessions]
    <2>1. q \in Req /\ q.fresh = 0 /\ q.op = "password" /\ q.at = "collect"
      <3>1. n \in Req /\ n.fresh = 0 /\ n.op = "password" /\ n.at = "collect"
        <4>1. "collect" \in Steps /\ "password" \in Ops /\ 0 \in Maybe
          BY <1>0 DEF Steps, Handling, Ops, Maybe, Others
        <4>. QED BY <4>1, NewTyped
      <3>2. user_sessions \in SUBSET Devices
        BY DEF Typed, TypeOK
      <3>. HIDE DEF n
      <3>. QED BY <3>1, <3>2 DEF Req
    <2>2. req' = [req EXCEPT ![r] = q] /\ UNCHANGED issued
      BY <1>7 DEF ConfirmPasswordChange, Starts
    <2>3. /\ req' \in [Requests -> Req \cup {Idle}]
          /\ \A x \in Requests : InUse(x)'
      <3>. HIDE DEF q
      <3>1. Sound(q, Len(issued))
        BY <1>0, <2>1 DEF Sound, Others
      <3>. QED BY <2>1, <2>2, <3>1, PutTyped
    <2>4. history' \in [Devices -> Fates]
      BY <1>7, MarkTyped DEF ConfirmPasswordChange, Fates, Typed, TypeOK
    <2>. QED BY <1>7, <2>3, <2>4 DEF ConfirmPasswordChange, Typed, TypeOK, Numbered
  <1>8. ASSUME NEW r \in Requests, Revoke(r) PROVE Typed'
    <2>. DEFINE t == device_token[req[r].device]
                s == IF t = 0 THEN "save" ELSE "drop"
                q == [req[r] EXCEPT !.token = t, !.at = s]
    <2>1. req[r] \in Req /\ req[r].at = "revoke" /\ InUse(r) /\ req[r] # Idle
      BY <1>8 DEF Revoke, Typed, TypeOK, Numbered, Idle
    <2>2. t \in Maybe /\ s \in {"save", "drop"}
      <3>1. req[r].device \in Devices
        BY <2>1 DEF InUse, Sound, Others
      <3>. QED BY <3>1 DEF Typed, TypeOK
    <2>3. req' = [req EXCEPT ![r] = q] /\ UNCHANGED issued
      BY <1>8 DEF Revoke
    <2>4. q \in Req /\ Sound(q, Len(issued))
      <3>1. req[r].op # "query" /\ req[r].device \in Devices
        BY <2>1 DEF InUse, Sound, Others
      <3>. HIDE DEF t, s
      <3>. QED BY <2>1, <2>2, <3>1 DEF Req, Steps, Handling, InUse, Sound, Others
    <2>5. /\ req' \in [Requests -> Req \cup {Idle}]
          /\ \A x \in Requests : InUse(x)'
      <3>. HIDE DEF q
      <3>. QED BY <2>3, <2>4, PutTyped
    <2>. QED BY <1>8, <2>5 DEF Revoke, Typed, TypeOK, Numbered
  <1>9. ASSUME NEW r \in Requests, Drop(r) PROVE Typed'
    <2>1. req[r] \in Req /\ req[r].at = "drop" /\ InUse(r) /\ req[r] # Idle
      BY <1>9 DEF Drop, Typed, TypeOK, Numbered, Idle
    <2>2. req[r].op # "query" /\ req[r].device \in Devices
      BY <2>1 DEF InUse, Sound, Others
    <2>3. /\ req' \in [Requests -> Req \cup {Idle}]
          /\ \A x \in Requests : InUse(x)'
      <3>1. CASE req[r].caller = "gone"
        BY <1>9, <3>1, EndsTyped DEF Drop, Dropped
      <3>2. CASE req[r].caller # "gone"
        <4>. DEFINE q == [req[r] EXCEPT !.at = "save", !.token = 0]
        <4>1. q \in Req /\ Sound(q, Len(issued))
          <5>1. "save" \in Steps /\ 0 \in Maybe
            BY <1>0 DEF Steps, Handling, Maybe, Others
          <5>2. /\ q \in Req /\ q.fresh = req[r].fresh /\ q.op = req[r].op
                /\ q.device = req[r].device
            BY <2>1, <5>1 DEF Req
          <5>. QED BY <2>1, <2>2, <5>2 DEF InUse, Sound, Others
        <4>2. req' = [req EXCEPT ![r] = q]
          BY <1>9, <3>2 DEF Drop, Dropped
        <4>. HIDE DEF q
        <4>. QED BY <1>9, <4>1, <4>2, PutTyped DEF Drop
      <3>. QED BY <3>1, <3>2
    <2>4. device_token' \in [Devices -> Maybe] /\ live' \subseteq DOMAIN issued
      <3>1. 0 \in Maybe
        BY <1>0 DEF Maybe
      <3>. QED BY <1>9, <3>1 DEF Drop, Typed, TypeOK
    <2>. QED BY <1>9, <2>3, <2>4 DEF Drop, Typed, TypeOK, Numbered
  <1>10. ASSUME NEW r \in Requests, Save(r) PROVE Typed'
    <2>. DEFINE n == Len(issued)
                d == req[r].device
                v == [device |-> d, from |-> IF req[r].op = "query" THEN req[r].token ELSE 0]
                q == [req[r] EXCEPT !.fresh = n + 1, !.at = "index"]
    <2>1. req[r] \in Req /\ req[r].at = "save" /\ InUse(r) /\ req[r] # Idle
      BY <1>10 DEF Save, Typed, TypeOK, Numbered, Idle
    <2>2. d \in Devices /\ v \in Session /\ v.from <= n
      BY <1>0, <2>1 DEF InUse, Sound, Session, Maybe, Others
    <2>3. n < MaxTokens /\ issued' = Append(issued, v) /\ live' = live \cup {n + 1}
          /\ req' = [req EXCEPT ![r] = q]
      BY <1>10 DEF Save
    <2>4. /\ issued' \in Seq(Session) /\ Len(issued') = n + 1 /\ DOMAIN issued' = 1..(n + 1)
          /\ \A i \in 1..n : issued'[i] = issued[i]
          /\ issued'[n + 1] = v
      <3>1. issued \in Seq(Session)
        BY DEF Typed, TypeOK
      <3>. HIDE DEF v
      <3>. QED BY <2>2, <2>3, <3>1
    <2>5. q \in Req /\ Sound(q, n + 1)
      <3>1. "index" \in Steps /\ n + 1 \in Maybe
        BY <1>0, <2>3 DEF Steps, Handling, Maybe, Others
      <3>2. /\ q \in Req /\ q.fresh = n + 1 /\ q.op = req[r].op /\ q.at = "index"
            /\ q.device = d /\ q.token = req[r].token
        BY <2>1, <3>1 DEF Req
      <3>. HIDE DEF q
      <3>. QED BY <1>0, <2>1, <2>2, <3>2 DEF InUse, Sound, Others
    <2>6. req' \in [Requests -> Req \cup {Idle}]
      <3>. HIDE DEF q
      <3>. QED BY <2>3, <2>5 DEF Typed, TypeOK
    <2>7. ASSUME NEW x \in Requests PROVE InUse(x)'
      <3>1. CASE x = r
        <4>. HIDE DEF q
        <4>. QED BY <2>3, <2>4, <2>5, <3>1 DEF InUse, Typed, TypeOK
      <3>2. CASE x # r
        <4>1. req'[x] = req[x] /\ InUse(x)
          BY <2>3, <3>2 DEF Typed, TypeOK, Numbered
        <4>. QED BY <1>0, <2>4, <4>1 DEF InUse, Sound, Typed, TypeOK, Req, Maybe, Others
      <3>. QED BY <3>1, <3>2
    <2>8. user_sessions' \subseteq Devices
      BY <1>10, <2>2 DEF Save, Typed, TypeOK
    <2>9. /\ \A i \in DOMAIN issued' : issued'[i].from <= n + 1
          /\ \A e \in Devices : cookie[e] <= n + 1
          /\ \A t \in Token : flight[t].got <= n + 1
      <3>1. \A i \in 1..n : issued[i].from \in Nat /\ issued[i].from <= n
        <4>1. \A i \in 1..n : issued[i] \in Session
          BY <1>0 DEF Typed, TypeOK
        <4>. QED BY <1>0, <4>1 DEF Typed, Numbered, Session, Maybe
      <3>. HIDE DEF v
      <3>2. \A i \in 1..(n + 1) : issued'[i].from <= n + 1
        BY <1>0, <2>2, <2>4, <3>1 DEF Session, Maybe
      <3>3. \A e \in Devices : cookie[e] <= n + 1
        BY <1>0 DEF Typed, TypeOK, Numbered, Maybe
      <3>4. \A t \in Token : flight[t].got <= n + 1
        BY <1>0 DEF Typed, TypeOK, Numbered, Flight, Maybe
      <3>. QED BY <2>4, <3>2, <3>3, <3>4
    <2>. QED BY <1>0, <1>10, <2>3, <2>4, <2>6, <2>7, <2>8, <2>9
             DEF Save, Typed, TypeOK, Numbered
  <1>11. ASSUME NEW r \in Requests, Index(r) PROVE Typed'
    <2>1. req[r] \in Req /\ req[r].at = "index" /\ InUse(r) /\ req[r] # Idle
      BY <1>11 DEF Index, Typed, TypeOK, Numbered, Idle
    <2>2. req[r].device \in Devices /\ req[r].fresh \in 0..Len(issued) /\ req[r].fresh \in Maybe
      BY <1>0, <2>1 DEF InUse, Sound, Req, Maybe, Others
    <2>3. device_token' \in [Devices -> Maybe]
      BY <1>11, <2>2 DEF Index, Typed, TypeOK
    <2>4. CASE req[r].caller = "gone"
      <3>1. /\ req' \in [Requests -> Req \cup {Idle}]
            /\ \A x \in Requests : InUse(x)'
        BY <1>11, <2>4, EndsTyped DEF Index
      <3>. QED BY <1>11, <2>3, <2>4, <3>1 DEF Index, Typed, TypeOK, Numbered
    <2>5. CASE req[r].caller # "gone" /\ req[r].op = "query"
      <3>. DEFINE was == [req[r] EXCEPT !.at = "reply"]
      <3>1. was \in Req /\ Sound(was, Len(issued))
        BY <2>1, <2>2 DEF Req, Steps, InUse, Sound, Others
      <3>2. Settle(r, req[r].fresh, was) /\ UNCHANGED issued
        BY <1>11, <2>5 DEF Index
      <3>. HIDE DEF was
      <3>3. /\ flight' \in [Token -> Flight]
            /\ \A t \in Token : flight'[t].got <= Len(issued)
            /\ req' \in [Requests -> Req \cup {Idle}]
            /\ \A x \in Requests : InUse(x)'
        BY <2>1, <2>2, <2>5, <3>1, <3>2, SettleTyped
      <3>. QED BY <1>11, <2>3, <3>3 DEF Index, Typed, TypeOK, Numbered
    <2>6. CASE req[r].caller # "gone" /\ req[r].op # "query"
      <3>1. /\ req' \in [Requests -> Req \cup {Idle}]
            /\ \A x \in Requests : InUse(x)'
        BY <1>11, <2>1, <2>6, GoesTyped DEF Index, Steps, Others
      <3>. QED BY <1>11, <2>3, <2>6, <3>1 DEF Index, Typed, TypeOK, Numbered
    <2>. QED BY <2>4, <2>5, <2>6
  <1>12. ASSUME NEW r \in Requests, GetOrStartRefresh(r) PROVE Typed'
    <2>. DEFINE t == req[r].token
    <2>1. req[r] \in Req /\ req[r].at = "sent" /\ InUse(r) /\ req[r] # Idle
      BY <1>12 DEF GetOrStartRefresh, Typed, TypeOK, Numbered, Idle
    <2>2. CASE /\ flight' = [flight EXCEPT ![t].at = "busy"]
               /\ Goes(r, "get")
      <3>1. /\ req' \in [Requests -> Req \cup {Idle}]
            /\ \A x \in Requests : InUse(x)'
        BY <1>12, <2>1, <2>2, GoesTyped DEF GetOrStartRefresh, Steps, Handling, Others
      <3>2. /\ flight' \in [Token -> Flight]
            /\ \A x \in Token : flight'[x].got = flight[x].got
        BY <2>2 DEF Typed, TypeOK, Flight
      <3>. QED BY <1>12, <3>1, <3>2 DEF GetOrStartRefresh, Typed, TypeOK, Numbered
    <2>3. CASE Goes(r, "waiting") /\ UNCHANGED flight
      <3>1. /\ req' \in [Requests -> Req \cup {Idle}]
            /\ \A x \in Requests : InUse(x)'
        BY <1>12, <2>1, <2>3, GoesTyped DEF GetOrStartRefresh, Steps, Others
      <3>. QED BY <1>12, <2>3, <3>1 DEF GetOrStartRefresh, Typed, TypeOK, Numbered
    <2>4. CASE /\ req' = [req EXCEPT ![r].at = "reply", ![r].fresh = flight[t].got]
               /\ flight[t].at = "done"
               /\ UNCHANGED flight
      <3>. DEFINE q == [req[r] EXCEPT !.at = "reply", !.fresh = flight[t].got]
      <3>1. req[r].device \in Devices /\ req[r].op = "query" /\ t \in Token
        BY <1>0, <2>1 DEF InUse, Sound, Token, Others
      <3>2. flight[t].got \in Maybe /\ flight[t].got <= Len(issued) /\ "reply" \in Steps
        BY <3>1 DEF Typed, TypeOK, Numbered, Flight, Steps, Others
      <3>3. req' = [req EXCEPT ![r] = q]
        BY <2>4
      <3>4. /\ q \in Req /\ q.fresh = flight[t].got /\ q.op = "query" /\ q.at = "reply"
            /\ q.token = t /\ q.device = req[r].device
        BY <2>1, <3>1, <3>2 DEF Req
      <3>5. t \in 1..Len(issued)
        BY <2>1, <3>1 DEF InUse, Sound, Others
      <3>6. Sound(q, Len(issued))
        <4>. HIDE DEF q
        <4>. QED BY <3>1, <3>2, <3>4, <3>5 DEF Sound, Others
      <3>7. /\ req' \in [Requests -> Req \cup {Idle}]
            /\ \A x \in Requests : InUse(x)'
        <4>. HIDE DEF q
        <4>. QED BY <1>12, <3>3, <3>4, <3>6, PutTyped DEF GetOrStartRefresh
      <3>. QED BY <1>12, <2>4, <3>7 DEF GetOrStartRefresh, Typed, TypeOK, Numbered
    <2>. QED BY <1>12, <2>2, <2>3, <2>4 DEF GetOrStartRefresh
  <1>13. ASSUME NEW r \in Requests, Get(r) PROVE Typed'
    <2>1. req[r] \in Req /\ req[r].at = "get" /\ InUse(r) /\ req[r] # Idle
      BY <1>13 DEF Get, Typed, TypeOK, Numbered, Idle
    <2>2. CASE Goes(r, "rotate") /\ UNCHANGED <<flight, history>>
      <3>1. /\ req' \in [Requests -> Req \cup {Idle}]
            /\ \A x \in Requests : InUse(x)'
        BY <1>13, <2>1, <2>2, GoesTyped DEF Get, Steps, Handling, Others
      <3>. QED BY <1>13, <2>2, <3>1 DEF Get, Typed, TypeOK, Numbered
    <2>3. CASE req[r].op = "query" /\ Settle(r, 0, Idle) /\ Mark({req[r].device}, "refused")
      <3>1. /\ flight' \in [Token -> Flight]
            /\ \A t \in Token : flight'[t].got <= Len(issued)
            /\ req' \in [Requests -> Req \cup {Idle}]
            /\ \A x \in Requests : InUse(x)'
        BY <1>0, <1>13, <2>1, <2>3, SettleTyped DEF Get
      <3>2. history' \in [Devices -> Fates]
        BY <2>3, MarkTyped DEF Fates, Typed, TypeOK
      <3>. QED BY <1>13, <3>1, <3>2 DEF Get, Typed, TypeOK, Numbered
    <2>4. CASE Ends(r) /\ UNCHANGED <<flight, history>>
      <3>1. /\ req' \in [Requests -> Req \cup {Idle}]
            /\ \A x \in Requests : InUse(x)'
        BY <1>13, <2>4, EndsTyped DEF Get
      <3>. QED BY <1>13, <2>4, <3>1 DEF Get, Typed, TypeOK, Numbered
    <2>. QED BY <1>13, <2>2, <2>3, <2>4 DEF Get
  <1>14. ASSUME NEW r \in Requests, Rotate(r) PROVE Typed'
    <2>1. req[r] \in Req /\ req[r].at = "rotate" /\ InUse(r) /\ req[r] # Idle
      BY <1>14 DEF Rotate, Typed, TypeOK, Numbered, Idle
    <2>2. /\ req' \in [Requests -> Req \cup {Idle}]
          /\ \A x \in Requests : InUse(x)'
      BY <1>14, <2>1, GoesTyped DEF Rotate, Steps, Handling, Others
    <2>3. live' \subseteq DOMAIN issued
      BY <1>14 DEF Rotate, Typed, TypeOK
    <2>. QED BY <1>14, <2>2, <2>3 DEF Rotate, Typed, TypeOK, Numbered
  <1>15. ASSUME NEW r \in Requests, Answer(r) PROVE Typed'
    <2>1. req[r] \in Req /\ req[r].at = "reply" /\ InUse(r) /\ req[r] # Idle
      BY <1>15 DEF Answer, Typed, TypeOK, Numbered, Idle
    <2>2. req[r].device \in Devices /\ req[r].fresh \in 0..Len(issued) /\ req[r].fresh \in Maybe
      BY <1>0, <2>1 DEF InUse, Sound, Req, Maybe, Others
    <2>3. /\ req' \in [Requests -> Req \cup {Idle}]
          /\ \A x \in Requests : InUse(x)'
      BY <1>15, EndsTyped DEF Answer
    <2>4. CASE UNCHANGED <<cookie, history>>
      BY <1>15, <2>3, <2>4 DEF Answer, Typed, TypeOK, Numbered
    <2>5. CASE /\ cookie' = [cookie EXCEPT ![req[r].device] = req[r].fresh]
               /\ Mark({e \in {req[r].device} : req[r].fresh < cookie[e]}, "late")
      <3>1. history' \in [Devices -> Fates]
        BY <2>5, MarkTyped DEF Fates, Typed, TypeOK
      <3>2. cookie' \in [Devices -> Maybe] /\ \A d \in Devices : cookie'[d] <= Len(issued)
        BY <1>0, <2>2, <2>5 DEF Typed, TypeOK, Numbered
      <3>. QED BY <1>15, <2>3, <3>1, <3>2 DEF Answer, Typed, TypeOK, Numbered
    <2>. QED BY <1>15, <2>4, <2>5 DEF Answer
  <1>16. ASSUME NEW r \in Requests, Out(r) PROVE Typed'
    <2>1. req[r] \in Req /\ req[r].at = "out" /\ InUse(r) /\ req[r] # Idle
      BY <1>16 DEF Out, Typed, TypeOK, Numbered, Idle
    <2>2. /\ req' \in [Requests -> Req \cup {Idle}]
          /\ \A x \in Requests : InUse(x)'
      BY <1>16, EndsTyped DEF Out
    <2>3. history' \in [Devices -> Fates]
      BY <1>16, MarkTyped DEF Out, Fates, Typed, TypeOK
    <2>4. /\ device_token' \in [Devices -> Maybe] /\ live' \subseteq DOMAIN issued
          /\ user_sessions' \subseteq Devices
      <3>1. 0 \in Maybe
        BY <1>0 DEF Maybe
      <3>. QED BY <1>16, <3>1 DEF Out, Typed, TypeOK
    <2>. QED BY <1>16, <2>2, <2>3, <2>4 DEF Out, Typed, TypeOK, Numbered
  <1>17. ASSUME NEW r \in Requests, Collect(r) PROVE Typed'
    <2>1. req[r] \in Req /\ req[r].at = "collect" /\ InUse(r) /\ req[r] # Idle
      BY <1>17 DEF Collect, Typed, TypeOK, Numbered, Idle
    <2>2. PICK d \in req[r].todo :
            req' = [req EXCEPT ![r].todo = @ \ {d},
                               ![r].seen = @ \cup {d},
                               ![r].found = @ \cup ({device_token[d]} \ {0})]
      BY <1>17 DEF Collect
    <2>. DEFINE f == {device_token[d]} \ {0}
                q == [req[r] EXCEPT !.todo = @ \ {d}, !.seen = @ \cup {d},
                                    !.found = @ \cup f]
    <2>3. d \in Devices /\ f \subseteq Token
      <3>1. d \in Devices
        BY <2>1 DEF Req
      <3>. QED BY <1>0, <3>1 DEF Typed, TypeOK, Maybe, Token
    <2>4. /\ q \in Req /\ q.fresh = req[r].fresh /\ q.op = req[r].op
          /\ q.token = req[r].token /\ q.at = "collect"
      <3>. HIDE DEF f
      <3>. QED BY <2>1, <2>3 DEF Req
    <2>5. req' = [req EXCEPT ![r] = q]
      BY <2>2
    <2>6. /\ req' \in [Requests -> Req \cup {Idle}]
          /\ \A x \in Requests : InUse(x)'
      <3>1. Sound(q, Len(issued))
        <4>. HIDE DEF q
        <4>. QED BY <2>1, <2>4 DEF InUse, Sound, Others
      <3>. HIDE DEF q
      <3>. QED BY <1>17, <2>4, <2>5, <3>1, PutTyped DEF Collect
    <2>. QED BY <1>17, <2>6 DEF Collect, Typed, TypeOK, Numbered
  <1>18. ASSUME NEW r \in Requests, Purge(r) PROVE Typed'
    <2>1. /\ req' \in [Requests -> Req \cup {Idle}]
          /\ \A x \in Requests : InUse(x)'
      BY <1>18, EndsTyped DEF Purge
    <2>2. history' \in [Devices -> Fates]
      BY <1>18, BecomesAFate DEF Purge, MarkRevoked, Fates, Typed, TypeOK
    <2>3. /\ device_token' \in [Devices -> Maybe] /\ live' \subseteq DOMAIN issued
          /\ user_sessions' \subseteq Devices
      <3>1. 0 \in Maybe
        BY <1>0 DEF Maybe
      <3>. QED BY <1>18, <3>1 DEF Purge, Typed, TypeOK
    <2>. QED BY <1>18, <2>1, <2>2, <2>3 DEF Purge, Typed, TypeOK, Numbered
  <1>19. ASSUME NEW r \in Requests, Throw(r) PROVE Typed'
    <2>1. req[r] \in Req /\ InUse(r) /\ req[r] # Idle
      BY <1>19 DEF Throw, Handling, Typed, TypeOK, Numbered, Idle
    <2>2. history' \in [Devices -> Fates]
      BY <1>19, MarkTyped DEF Throw, Fates, Typed, TypeOK
    <2>3. CASE req[r].op = "query" /\ Settle(r, 0, Idle)
      <3>1. /\ flight' \in [Token -> Flight]
            /\ \A t \in Token : flight'[t].got <= Len(issued)
            /\ req' \in [Requests -> Req \cup {Idle}]
            /\ \A x \in Requests : InUse(x)'
        BY <1>0, <1>19, <2>1, <2>3, SettleTyped DEF Throw
      <3>. QED BY <1>19, <2>2, <3>1 DEF Throw, Typed, TypeOK, Numbered
    <2>4. CASE Ends(r) /\ UNCHANGED flight
      <3>1. /\ req' \in [Requests -> Req \cup {Idle}]
            /\ \A x \in Requests : InUse(x)'
        BY <1>19, <2>4, EndsTyped DEF Throw
      <3>. QED BY <1>19, <2>2, <2>4, <3>1 DEF Throw, Typed, TypeOK, Numbered
    <2>. QED BY <1>19, <2>3, <2>4 DEF Throw
  <1>20. ASSUME NEW r \in Requests, TimesOut(r) PROVE Typed'
    <2>1. req[r] \in Req /\ InUse(r) /\ req[r] # Idle
      BY <1>20 DEF TimesOut, Typed, TypeOK, Numbered, Idle
    <2>2. history' \in [Devices -> Fates]
      BY <1>20, MarkTyped DEF TimesOut, Fates, Typed, TypeOK
    <2>. DEFINE left == [req[r] EXCEPT !.caller = "gone"]
    <2>3. left \in Req /\ Sound(left, Len(issued))
      BY <2>1 DEF Req, InUse, Sound, Others
    <2>4. CASE req[r].op = "query" /\ Settle(r, 0, left)
      <3>. HIDE DEF left
      <3>1. /\ flight' \in [Token -> Flight]
            /\ \A t \in Token : flight'[t].got <= Len(issued)
            /\ req' \in [Requests -> Req \cup {Idle}]
            /\ \A x \in Requests : InUse(x)'
        BY <1>0, <1>20, <2>1, <2>3, <2>4, SettleTyped DEF TimesOut
      <3>. QED BY <1>20, <2>2, <3>1 DEF TimesOut, Typed, TypeOK, Numbered
    <2>5. CASE req' = [req EXCEPT ![r] = left] /\ UNCHANGED flight
      <3>. HIDE DEF left
      <3>1. /\ req' \in [Requests -> Req \cup {Idle}]
            /\ \A x \in Requests : InUse(x)'
        BY <1>20, <2>3, <2>5, PutTyped DEF TimesOut
      <3>. QED BY <1>20, <2>2, <2>5, <3>1 DEF TimesOut, Typed, TypeOK, Numbered
    <2>. QED BY <1>20, <2>4, <2>5 DEF TimesOut
  <1>21. ASSUME NEW r \in Requests, LoseAnswer(r) PROVE Typed'
    <2>1. /\ req' \in [Requests -> Req \cup {Idle}]
          /\ \A x \in Requests : InUse(x)'
      BY <1>21, EndsTyped DEF LoseAnswer
    <2>2. history' \in [Devices -> Fates]
      BY <1>21, MarkTyped DEF LoseAnswer, Fates, Typed, TypeOK
    <2>. QED BY <1>21, <2>1, <2>2 DEF LoseAnswer, Typed, TypeOK, Numbered
  <1>22. ASSUME NEW t \in Token, Forget(t) PROVE Typed'
    <2>1. history' \in [Devices -> Fates]
      BY <1>22, MarkTyped DEF Forget, Fates, Typed, TypeOK
    <2>2. flight' \in [Token -> Flight] /\ \A x \in Token : flight'[x].got <= Len(issued)
      BY <1>0, <1>22 DEF Forget, NoFlight, Flight, Maybe, Typed, TypeOK, Numbered
    <2>. QED BY <1>22, <2>1, <2>2 DEF Forget, Typed, TypeOK, Numbered, InUse
  <1>23. ASSUME NEW d \in Devices, TokenLapses(d) PROVE Typed'
    <2>1. history' \in [Devices -> Fates]
      BY <1>23, MarkTyped DEF TokenLapses, Fates, Typed, TypeOK
    <2>2. device_token' \in [Devices -> Maybe] /\ live' \subseteq DOMAIN issued
      BY <1>0, <1>23 DEF TokenLapses, Maybe, Typed, TypeOK
    <2>. QED BY <1>23, <2>1, <2>2 DEF TokenLapses, Typed, TypeOK, Numbered, InUse
  <1>24. CASE SessionsLapse
    BY <1>24 DEF SessionsLapse, Typed, TypeOK, Numbered, InUse
  <1>25. CASE UNCHANGED vars
    BY <1>25 DEF vars, Typed, TypeOK, Numbered, InUse
  <1>. QED
    BY <1>1, <1>2, <1>3, <1>4, <1>5, <1>6, <1>7, <1>8, <1>9, <1>10, <1>11, <1>12, <1>13,
       <1>14, <1>15, <1>16, <1>17, <1>18, <1>19, <1>20, <1>21, <1>22, <1>23, <1>24, <1>25
    DEF Next, Handles, Calling

\* Every variable has its type, whatever the constants are.
THEOREM SessionsTyped == Spec => []TypeOK
  <1>1. Spec => []Typed
    BY TypedInit, TypedStep, PTL DEF Spec
  <1>. QED BY <1>1, PTL DEF Typed

-------------------------------------------------------------------------------
(* One exchange per token.  A refresh for a query is under way from the look *)
(* at the token to the answer, and while it is, the token's entry in the     *)
(* gateway's map says so.  A token that was exchanged is deleted, and so no  *)
(* handler gets past the look at it again.                                   *)

Exchanges(q) == /\ q.at \in {"get", "rotate", "save"} \/ (q.at = "index" /\ q.caller = "waits")
                /\ q.op = "query"
Exchanging(r) == Exchanges(req[r])
Exchanged(t)  == \E i \in DOMAIN issued : issued[i].from = t

OneFlight == \A q, r \in Requests :
               Exchanging(q) /\ Exchanging(r) /\ req[q].token = req[r].token => q = r
Flying    == \A r \in Requests : Exchanging(r) => flight[req[r].token].at = "busy"
Deleted   == \A t \in live : ~Exchanged(t)
Pending   == \A r \in Requests :
               /\ Exchanging(r) /\ req[r].at \in {"rotate", "save"} => ~Exchanged(req[r].token)
               /\ Exchanging(r) /\ req[r].at = "save" => req[r].token \notin live

Once == SingleUse /\ OneFlight /\ Flying /\ Deleted /\ Pending

\* What a request is that is exchanging a token.
LEMMA AnExchange ==
  ASSUME Typed, NEW r \in Requests, Exchanging(r)
  PROVE  /\ req[r] \in Req /\ req[r] # Idle /\ req[r].op = "query"
         /\ req[r].token \in 1..Len(issued) /\ req[r].token \in Token
  <1>1. req[r] # Idle
    BY DEF Exchanging, Exchanges, Idle
  <1>2. req[r] \in Req /\ req[r].op = "query"
    BY <1>1 DEF Exchanging, Exchanges, Typed, TypeOK
  <1>3. req[r].token \in 1..Len(issued)
    BY <1>1, <1>2 DEF Typed, Numbered, InUse, Sound
  <1>4. Len(issued) \in Nat /\ Len(issued) <= MaxTokens
    BY LenIsANumber DEF Typed, TypeOK
  <1>. QED BY <1>1, <1>2, <1>3, <1>4, BoundAssumption DEF Token

\* A step that begins, advances and announces no exchange.
LEMMA Narrows ==
  ASSUME Once, UNCHANGED issued, live' \subseteq live,
         \A r \in Requests : Exchanging(r)' =>
           /\ Exchanging(r)
           /\ req'[r].token = req[r].token /\ req'[r].at = req[r].at
           /\ flight'[req[r].token].at = flight[req[r].token].at
  PROVE  Once'
  <1>1. SingleUse' /\ Deleted'
    BY DEF Once, SingleUse, Deleted, Exchanged
  <1>2. OneFlight'
    BY DEF Once, OneFlight
  <1>3. Flying'
    BY DEF Once, Flying
  <1>4. Pending'
    <2>. SUFFICES ASSUME NEW r \in Requests, Exchanging(r)'
                  PROVE  /\ req'[r].at \in {"rotate", "save"} => ~Exchanged(req[r].token)'
                         /\ req'[r].at = "save" => req'[r].token \notin live'
      BY DEF Pending, Exchanged
    <2>1. /\ Exchanging(r) /\ req'[r].token = req[r].token /\ req'[r].at = req[r].at
      OBVIOUS
    <2>. QED BY <2>1 DEF Once, Pending, Exchanged
  <1>. QED BY <1>1, <1>2, <1>3, <1>4 DEF Once

\* A request replaced by one that is no exchange.
LEMMA Replaced ==
  ASSUME Typed, Once, NEW r \in Requests, NEW q, req' = [req EXCEPT ![r] = q],
         ~Exchanges(q), UNCHANGED <<issued, flight>>, live' \subseteq live
  PROVE  Once'
  <1>1. \A x \in Requests : req'[x] = IF x = r THEN q ELSE req[x]
    BY DEF Typed, TypeOK
  <1>2. \A x \in Requests : Exchanging(x)' => Exchanging(x) /\ req'[x] = req[x]
    BY <1>1 DEF Exchanging
  <1>. QED BY <1>2, Narrows

\* An exchange that ends, with or without a new token.
LEMMA Settled ==
  ASSUME Typed, Once, NEW r \in Requests, NEW n, NEW was, Exchanging(r), Settle(r, n, was),
         ~Exchanges(was), UNCHANGED issued, live' \subseteq live
  PROVE  Once'
  <1>1. ASSUME NEW x \in Requests, Exchanging(x)'
        PROVE  /\ Exchanging(x) /\ req'[x] = req[x]
               /\ flight'[req[x].token].at = flight[req[x].token].at
    <2>1. x # r
      BY <1>1 DEF Settle, Exchanging
    <2>2. ~(req[x].at = "waiting" /\ req[x].token = req[r].token)
      <3>1. SUFFICES ASSUME req[x].at = "waiting", req[x].token = req[r].token PROVE FALSE
        OBVIOUS
      <3>2. req[x] \in Req
        BY <3>1 DEF Typed, TypeOK, Idle
      <3>3. req'[x] = [req[x] EXCEPT !.at = "reply", !.fresh = n]
        BY <2>1, <3>1, <3>2 DEF Settle, Idle, Req
      <3>4. req'[x].at = "reply"
        BY <3>2, <3>3 DEF Req
      <3>. QED BY <1>1, <3>4 DEF Exchanging, Exchanges
    <2>3. req'[x] = req[x]
      BY <2>1, <2>2 DEF Settle
    <2>4. Exchanging(x)
      BY <1>1, <2>3 DEF Exchanging
    <2>5. req[x].token # req[r].token
      BY <2>1, <2>4 DEF Once, OneFlight
    <2>6. req[x].token \in Token /\ req[r].token \in Token
      BY <2>4, AnExchange
    <2>7. flight'[req[x].token].at = flight[req[x].token].at
      BY <2>5, <2>6 DEF Settle, Typed, TypeOK
    <2>. QED BY <2>3, <2>4, <2>7
  <1>. QED BY <1>1, Narrows

LEMMA OnceInit == Init => Once
  BY DEF Init, Empty, Once, SingleUse, OneFlight, Flying, Deleted, Pending, Exchanged, Exchanging,
         Exchanges, Idle

LEMMA Began ==
  ASSUME Typed, Once, NEW r \in Requests, NEW at, NEW op, NEW d, NEW t,
         Starts(r, New(at, op, d, t)), at \in {"sent", "revoke", "out"} \/ op # "query",
         UNCHANGED <<issued, flight, live>>
  PROVE  Once'
  <1>. DEFINE q == New(at, op, d, t)
  <1>1. ~Exchanges(q)
    BY DEF New, Exchanges
  <1>2. req' = [req EXCEPT ![r] = q]
    BY DEF Starts
  <1>. HIDE DEF q
  <1>. QED BY <1>1, <1>2, Replaced

LEMMA Ended ==
  ASSUME Typed, Once, NEW r \in Requests, Ends(r), UNCHANGED <<issued, flight>>,
         live' \subseteq live
  PROVE  Once'
  <1>1. ~Exchanges(Idle)
    BY DEF Idle, Exchanges
  <1>. QED BY <1>1, Replaced DEF Ends

\* A request that was and is no exchange.
LEMMA Moved ==
  ASSUME Typed, Once, NEW r \in Requests, req[r] # Idle, NEW s, Goes(r, s),
         req[r].op # "query" \/ s \notin {"get", "rotate", "save", "index"},
         UNCHANGED <<issued, flight>>, live' \subseteq live
  PROVE  Once'
  <1>. DEFINE q == [req[r] EXCEPT !.at = s]
  <1>1. req[r] \in Req
    BY DEF Typed, TypeOK
  <1>2. ~Exchanges(q)
    BY <1>1 DEF Req, Exchanges
  <1>3. req' = [req EXCEPT ![r] = q]
    BY DEF Goes
  <1>. HIDE DEF q
  <1>. QED BY <1>2, <1>3, Replaced

LEMMA OnceStep == Typed /\ Once /\ [Next]_vars => Once'
  <1>. SUFFICES ASSUME Typed, Once, [Next]_vars PROVE Once'
    OBVIOUS
  <1>0. Len(issued) \in Nat /\ DOMAIN issued = 1..Len(issued) /\ Len(issued) <= MaxTokens
        /\ MaxTokens \in Nat
    BY LenIsANumber, BoundAssumption DEF Typed, TypeOK
  <1>1. ASSUME NEW r \in Requests, NEW d \in Devices, Login(r, d) PROVE Once'
    BY <1>1, Began DEF Login, Redis
  <1>2. ASSUME NEW r \in Requests, NEW d \in Devices, OidcLogin(r, d) PROVE Once'
    BY <1>2, Began DEF OidcLogin
  <1>3. ASSUME NEW r \in Requests, NEW d \in Devices, Register(r, d) PROVE Once'
    BY <1>3, Began DEF Register, Redis
  <1>4. ASSUME NEW r \in Requests, NEW d \in Devices, Send(r, d) PROVE Once'
    BY <1>4, Began DEF Send, Redis
  <1>5. ASSUME NEW r \in Requests, NEW d \in Devices, RefreshTokens(r, d) PROVE Once'
    <2>1. PICK t \in LiveOf(d) : Starts(r, New("get", "refresh", d, t))
      BY <1>5 DEF RefreshTokens
    <2>. QED BY <1>5, <2>1, Began DEF RefreshTokens, Redis
  <1>6. ASSUME NEW r \in Requests, NEW d \in Devices, Logout(r, d) PROVE Once'
    <2>1. PICK t \in LiveOf(d) : Starts(r, New("out", "logout", d, t))
      BY <1>6 DEF Logout
    <2>. QED BY <1>6, <2>1, Began DEF Logout, Redis
  <1>7. ASSUME NEW r \in Requests, ConfirmPasswordChange(r) PROVE Once'
    <2>. DEFINE q == [New("collect", "password", "all", 0) EXCEPT !.todo = user_sessions]
    <2>1. ~Exchanges(q)
      BY DEF New, Exchanges
    <2>2. req' = [req EXCEPT ![r] = q] /\ UNCHANGED <<issued, flight, live>>
      BY <1>7 DEF ConfirmPasswordChange, Starts, Redis
    <2>. HIDE DEF q
    <2>. QED BY <2>1, <2>2, Replaced
  <1>8. ASSUME NEW r \in Requests, GetOrStartRefresh(r) PROVE Once'
    <2>1. req[r] \in Req /\ req[r].op = "query" /\ req[r].token \in Token /\ req[r] # Idle
          /\ req[r].at = "sent"
      BY <1>0, <1>8 DEF GetOrStartRefresh, Typed, TypeOK, Numbered, InUse, Sound, Idle, Token
    <2>2. UNCHANGED <<issued, live>>
      BY <1>8 DEF GetOrStartRefresh, Redis
    <2>3. CASE flight[req[r].token].at = "none" /\ Goes(r, "get")
               /\ flight' = [flight EXCEPT ![req[r].token].at = "busy"]
      \* Flying: no exchange of this token is under way, so this one is the first.
      <3>1. req'[r].at = "get" /\ req'[r].token = req[r].token
        BY <2>1, <2>3 DEF Goes, Typed, TypeOK, Req
      <3>2. \A x \in Requests : x # r => req'[x] = req[x]
        BY <2>3 DEF Goes, Typed, TypeOK
      <3>3. ASSUME NEW x \in Requests, Exchanging(x)', x # r
            PROVE  Exchanging(x) /\ req[x].token \in Token /\ req[x].token # req[r].token
        <4>1. Exchanging(x)
          BY <3>2, <3>3 DEF Exchanging
        <4>2. req[x].token \in Token
          BY <4>1, AnExchange
        <4>3. flight[req[x].token].at = "busy"
          BY <4>1 DEF Once, Flying
        <4>. QED BY <2>3, <4>1, <4>2, <4>3
      <3>4. OneFlight'
        BY <3>1, <3>2, <3>3 DEF OneFlight, Once
      <3>5. Flying'
        <4>. SUFFICES ASSUME NEW x \in Requests, Exchanging(x)'
                      PROVE  flight'[req'[x].token].at = "busy"
          BY DEF Flying
        <4>1. CASE x = r
          <5>1. flight'[req[r].token] = [flight[req[r].token] EXCEPT !.at = "busy"]
            BY <2>1, <2>3 DEF Typed, TypeOK
          <5>2. flight[req[r].token] \in Flight
            BY <2>1 DEF Typed, TypeOK
          <5>3. flight'[req[r].token].at = "busy"
            BY <5>1, <5>2 DEF Flight
          <5>. QED BY <3>1, <4>1, <5>3
        <4>2. CASE x # r
          <5>1. flight[req[x].token].at = "busy"
            BY <3>3, <4>2 DEF Once, Flying
          <5>2. flight'[req[x].token] = flight[req[x].token]
            BY <2>1, <2>3, <3>3, <4>2 DEF Typed, TypeOK
          <5>. QED BY <3>2, <4>2, <5>1, <5>2
        <4>. QED BY <4>1, <4>2
      <3>6. SingleUse' /\ Deleted'
        BY <2>2 DEF Once, SingleUse, Deleted, Exchanged
      <3>7. Pending'
        <4>. SUFFICES ASSUME NEW x \in Requests, Exchanging(x)'
                      PROVE  /\ req'[x].at \in {"rotate", "save"} => ~Exchanged(req[x].token)'
                             /\ req'[x].at = "save" => req'[x].token \notin live'
          BY DEF Pending, Exchanged
        <4>1. CASE x = r
          BY <3>1, <4>1
        <4>2. CASE x # r
          BY <2>2, <3>2, <3>3, <4>2 DEF Once, Pending, Exchanged
        <4>. QED BY <4>1, <4>2
      <3>. QED BY <3>4, <3>5, <3>6, <3>7 DEF Once
    <2>4. CASE Goes(r, "waiting") /\ UNCHANGED flight
      BY <2>1, <2>2, <2>4, Moved
    <2>5. CASE /\ req' = [req EXCEPT ![r].at = "reply", ![r].fresh = flight[req[r].token].got]
               /\ UNCHANGED flight
      <3>. DEFINE q == [req[r] EXCEPT !.at = "reply", !.fresh = flight[req[r].token].got]
      <3>1. req' = [req EXCEPT ![r] = q]
        BY <2>1, <2>5 DEF Typed, TypeOK
      <3>2. ~Exchanges(q)
        BY <2>1 DEF Req, Exchanges
      <3>. HIDE DEF q
      <3>. QED BY <2>2, <2>5, <3>1, <3>2, Replaced
    <2>. QED BY <1>8, <2>3, <2>4, <2>5 DEF GetOrStartRefresh
  <1>9. ASSUME NEW r \in Requests, Get(r) PROVE Once'
    <2>1. req[r] \in Req /\ req[r].at = "get" /\ req[r] # Idle
      BY <1>9 DEF Get, Typed, TypeOK, Idle
    <2>2. UNCHANGED <<issued, live>>
      BY <1>9 DEF Get, Redis
    <2>3. CASE req[r].token \in LiveOf(req[r].device) /\ Goes(r, "rotate") /\ UNCHANGED flight
      \* Deleted: a token that is live was never exchanged.
      <3>1. ~Exchanged(req[r].token)
        BY <2>3 DEF LiveOf, Once, Deleted
      <3>2. req'[r] = [req[r] EXCEPT !.at = "rotate"]
        BY <2>1, <2>3 DEF Goes, Typed, TypeOK
      <3>3. /\ req'[r].at = "rotate" /\ req'[r].token = req[r].token
            /\ Exchanging(r)' <=> Exchanging(r)
        BY <2>1, <3>2 DEF Req, Exchanging, Exchanges
      <3>4. \A x \in Requests : x # r => req'[x] = req[x]
        BY <2>3 DEF Goes, Typed, TypeOK
      <3>5. \A x \in Requests : (Exchanging(x)' => Exchanging(x)) /\ req'[x].token = req[x].token
        BY <3>3, <3>4 DEF Exchanging
      <3>6. OneFlight' /\ Flying'
        BY <2>3, <3>5 DEF Once, OneFlight, Flying
      <3>7. SingleUse' /\ Deleted'
        BY <2>2 DEF Once, SingleUse, Deleted, Exchanged
      <3>8. Pending'
        BY <2>2, <3>1, <3>3, <3>4, <3>5 DEF Once, Pending, Exchanged
      <3>. QED BY <3>6, <3>7, <3>8 DEF Once
    <2>4. CASE req[r].op = "query" /\ Settle(r, 0, Idle)
      <3>1. Exchanging(r)
        BY <2>1, <2>4 DEF Exchanging, Exchanges
      <3>2. ~Exchanges(Idle)
        BY DEF Idle, Exchanges
      <3>. QED BY <2>2, <2>4, <3>1, <3>2, Settled
    <2>5. CASE Ends(r) /\ UNCHANGED flight
      BY <2>2, <2>5, Ended
    <2>. QED BY <1>9, <2>3, <2>4, <2>5 DEF Get
  <1>10. ASSUME NEW r \in Requests, Rotate(r) PROVE Once'
    <2>1. req[r] \in Req /\ req[r].at = "rotate" /\ req[r] # Idle
      BY <1>10 DEF Rotate, Typed, TypeOK, Idle
    <2>2. UNCHANGED <<issued, flight>> /\ Goes(r, "save") /\ live' = live \ {req[r].token}
      BY <1>10 DEF Rotate
    <2>3. req'[r] = [req[r] EXCEPT !.at = "save"]
      BY <2>1, <2>2 DEF Goes, Typed, TypeOK
    <2>4. /\ req'[r].at = "save" /\ req'[r].token = req[r].token
          /\ Exchanging(r)' <=> Exchanging(r)
      BY <2>1, <2>3 DEF Req, Exchanging, Exchanges
    <2>5. \A x \in Requests : x # r => req'[x] = req[x]
      BY <2>2 DEF Goes, Typed, TypeOK
    <2>6. \A x \in Requests : (Exchanging(x)' => Exchanging(x)) /\ req'[x].token = req[x].token
      BY <2>4, <2>5 DEF Exchanging
    <2>7. OneFlight' /\ Flying'
      BY <2>2, <2>6 DEF Once, OneFlight, Flying
    <2>8. SingleUse' /\ Deleted'
      BY <2>2 DEF Once, SingleUse, Deleted, Exchanged
    <2>9. Pending'
      BY <2>1, <2>2, <2>4, <2>5, <2>6 DEF Once, Pending, Exchanged
    <2>. QED BY <2>7, <2>8, <2>9 DEF Once
  <1>11. ASSUME NEW r \in Requests, Revoke(r) PROVE Once'
    <2>. DEFINE t == device_token[req[r].device]
                q == [req[r] EXCEPT !.token = t, !.at = IF t = 0 THEN "save" ELSE "drop"]
    <2>1. req[r] \in Req /\ req[r] # Idle /\ req[r].op # "query"
      BY <1>11 DEF Revoke, Typed, TypeOK, Numbered, InUse, Sound, Others, Idle
    <2>2. ~Exchanges(q)
      BY <2>1 DEF Req, Exchanges
    <2>3. req' = [req EXCEPT ![r] = q]
      BY <1>11, <2>1 DEF Revoke, Typed, TypeOK
    <2>. HIDE DEF q
    <2>. QED BY <1>11, <2>2, <2>3, Replaced DEF Revoke, Redis
  <1>12. ASSUME NEW r \in Requests, Drop(r) PROVE Once'
    <2>. DEFINE q == [req[r] EXCEPT !.at = "save", !.token = 0]
    <2>1. req[r] \in Req /\ req[r] # Idle /\ req[r].op # "query"
      BY <1>12 DEF Drop, Typed, TypeOK, Numbered, InUse, Sound, Others, Idle
    <2>2. UNCHANGED <<issued, flight>> /\ live' \subseteq live
      BY <1>12 DEF Drop
    <2>3. CASE Ends(r)
      BY <2>2, <2>3, Ended
    <2>4. CASE req' = [req EXCEPT ![r].at = "save", ![r].token = 0]
      <3>1. ~Exchanges(q)
        BY <2>1 DEF Req, Exchanges
      <3>2. req' = [req EXCEPT ![r] = q]
        BY <2>1, <2>4 DEF Typed, TypeOK
      <3>. HIDE DEF q
      <3>. QED BY <2>2, <3>1, <3>2, Replaced
    <2>. QED BY <1>12, <2>3, <2>4 DEF Drop, Dropped
  <1>13. ASSUME NEW r \in Requests, Save(r) PROVE Once'
    <2>. DEFINE n == Len(issued) + 1
                new == [device |-> req[r].device,
                        from |-> IF req[r].op = "query" THEN req[r].token ELSE 0]
    <2>1. req[r] \in Req /\ req[r].at = "save" /\ req[r] # Idle
      BY <1>13 DEF Save, Typed, TypeOK, Idle
    <2>2. UNCHANGED flight /\ live' = live \cup {n} /\ issued' = Append(issued, new)
      BY <1>13 DEF Save
    <2>3. req'[r] = [req[r] EXCEPT !.fresh = n, !.at = "index"]
      BY <1>13, <2>1 DEF Save, Typed, TypeOK
    <2>4. /\ req'[r].at = "index" /\ req'[r].token = req[r].token
          /\ Exchanging(r)' => Exchanging(r)
      BY <2>1, <2>3 DEF Req, Exchanging, Exchanges
    <2>5. \A x \in Requests : x # r => req'[x] = req[x]
      BY <1>13 DEF Save, Typed, TypeOK
    <2>6. \A x \in Requests : (Exchanging(x)' => Exchanging(x)) /\ req'[x].token = req[x].token
      BY <2>4, <2>5 DEF Exchanging
    <2>7. OneFlight' /\ Flying'
      BY <2>2, <2>6 DEF Once, OneFlight, Flying
    <2>8. /\ DOMAIN issued' = 1..n /\ n \notin DOMAIN issued
          /\ \A i \in DOMAIN issued : issued'[i] = issued[i]
          /\ issued'[n] = new
      <3>. HIDE DEF new
      <3>1. issued \in Seq(Session)
        BY DEF Typed, TypeOK
      <3>. QED BY <1>0, <2>2, <3>1
    <2>9. DOMAIN issued' = DOMAIN issued \cup {n}
      BY <1>0, <2>8
    <2>10. \A t : Exchanged(t)' <=> Exchanged(t) \/ new.from = t
      <3>. HIDE DEF new
      <3>. QED BY <2>8, <2>9 DEF Exchanged
    <2>11. new.from = 0 \/ (Exchanging(r) /\ new.from = req[r].token)
      BY <2>1 DEF Exchanging, Exchanges
    \* Pending: the token was not exchanged before, and it is deleted.
    <2>12. new.from # 0 => ~Exchanged(new.from) /\ new.from \notin live /\ new.from # n
      <3>. HIDE DEF new
      <3>1. Exchanging(r) => req[r].token \in 1..Len(issued)
        BY AnExchange
      <3>. QED BY <1>0, <2>1, <2>11, <3>1 DEF Once, Pending
    <2>13. SingleUse'
      <3>. HIDE DEF new
      <3>. SUFFICES ASSUME NEW s \in DOMAIN issued', NEW t \in DOMAIN issued',
                           issued'[s].from = issued'[t].from, issued'[s].from # 0
                    PROVE  s = t
        BY DEF SingleUse
      <3>1. CASE s \in DOMAIN issued /\ t \in DOMAIN issued
        BY <2>8, <3>1 DEF Once, SingleUse
      <3>2. CASE s \in DOMAIN issued /\ t = n
        BY <2>8, <2>12, <3>2 DEF Exchanged
      <3>3. CASE s = n /\ t \in DOMAIN issued
        BY <2>8, <2>12, <3>3 DEF Exchanged
      <3>. QED BY <2>9, <3>1, <3>2, <3>3
    <2>14. 0 \notin live' /\ ~Exchanged(n)
      <3>1. \A i \in DOMAIN issued : issued[i].from <= Len(issued) /\ issued[i].from \in Maybe
        <4>1. \A i \in DOMAIN issued : issued[i] \in Session
          BY DEF Typed, TypeOK
        <4>. QED BY <4>1 DEF Typed, Numbered, Session
      <3>2. ~Exchanged(n)
        BY <1>0, <3>1 DEF Exchanged, Maybe
      <3>. QED BY <1>0, <2>2, <3>2 DEF Typed, TypeOK
    <2>15. Deleted'
      <3>. HIDE DEF new
      <3>. SUFFICES ASSUME NEW t \in live', Exchanged(t)' PROVE FALSE
        BY DEF Deleted, Exchanged
      <3>1. t # 0 /\ (Exchanged(t) \/ new.from = t)
        BY <2>10, <2>14
      <3>2. CASE t = n
        BY <2>12, <2>14, <3>1, <3>2
      <3>3. CASE t \in live
        BY <2>12, <3>1, <3>3 DEF Once, Deleted
      <3>. QED BY <2>2, <3>2, <3>3
    <2>16. Pending'
      <3>. HIDE DEF new
      <3>. SUFFICES ASSUME NEW x \in Requests, Exchanging(x)'
                    PROVE  /\ req'[x].at \in {"rotate", "save"} => ~Exchanged(req[x].token)'
                           /\ req'[x].at = "save" => req'[x].token \notin live'
        BY DEF Pending, Exchanged
      <3>1. CASE x = r
        BY <2>4, <3>1
      \* OneFlight: another exchange is of another token.
      <3>2. CASE x # r
        <4>1. Exchanging(x) /\ req'[x] = req[x] /\ req[x].token \in 1..Len(issued)
          BY <2>5, <2>6, <3>2, AnExchange
        <4>2. Exchanging(r) => req[x].token # req[r].token
          BY <3>2, <4>1 DEF Once, OneFlight
        <4>3. new.from # req[x].token /\ req[x].token # n
          BY <1>0, <2>11, <4>1, <4>2
        <4>. QED BY <2>2, <2>10, <4>1, <4>3 DEF Once, Pending
      <3>. QED BY <3>1, <3>2
    <2>. QED BY <2>7, <2>13, <2>15, <2>16 DEF Once
  <1>14. ASSUME NEW r \in Requests, Index(r) PROVE Once'
    <2>1. req[r] \in Req /\ req[r].at = "index" /\ req[r] # Idle
      BY <1>14 DEF Index, Typed, TypeOK, Idle
    <2>2. UNCHANGED <<issued, live>>
      BY <1>14 DEF Index
    <2>3. CASE Ends(r) /\ UNCHANGED flight
      BY <2>2, <2>3, Ended
    <2>4. CASE /\ req[r].caller # "gone" /\ req[r].op = "query"
               /\ Settle(r, req[r].fresh, [req[r] EXCEPT !.at = "reply"])
      <3>. DEFINE was == [req[r] EXCEPT !.at = "reply"]
      <3>1. Exchanging(r)
        BY <2>1, <2>4 DEF Exchanging, Exchanges, Req
      <3>2. ~Exchanges(was)
        BY <2>1 DEF Exchanges, Req
      <3>3. Settle(r, req[r].fresh, was)
        BY <2>4
      <3>. HIDE DEF was
      <3>. QED BY <2>2, <3>1, <3>2, <3>3, Settled
    <2>5. CASE Goes(r, "reply") /\ UNCHANGED flight
      BY <2>1, <2>2, <2>5, Moved
    <2>. QED BY <1>14, <2>3, <2>4, <2>5 DEF Index
  <1>15. ASSUME NEW r \in Requests, Answer(r) PROVE Once'
    BY <1>15, Ended DEF Answer, Redis
  <1>16. ASSUME NEW r \in Requests, Out(r) PROVE Once'
    <2>1. Ends(r) /\ UNCHANGED <<issued, flight>> /\ live' \subseteq live
      BY <1>16 DEF Out
    <2>. QED BY <2>1, Ended
  <1>17. ASSUME NEW r \in Requests, Collect(r) PROVE Once'
    <2>1. PICK d \in req[r].todo :
            req' = [req EXCEPT ![r].todo = @ \ {d},
                               ![r].seen = @ \cup {d},
                               ![r].found = @ \cup ({device_token[d]} \ {0})]
      BY <1>17 DEF Collect
    <2>. DEFINE q == [req[r] EXCEPT !.todo = @ \ {d}, !.seen = @ \cup {d},
                                    !.found = @ \cup ({device_token[d]} \ {0})]
    <2>2. req[r] \in Req /\ req[r].at = "collect"
      BY <1>17 DEF Collect, Typed, TypeOK, Idle
    <2>3. req' = [req EXCEPT ![r] = q]
      BY <2>1, <2>2 DEF Typed, TypeOK
    <2>4. ~Exchanges(q)
      BY <2>2 DEF Req, Exchanges
    <2>. HIDE DEF q
    <2>. QED BY <1>17, <2>3, <2>4, Replaced DEF Collect, Redis
  <1>18. ASSUME NEW r \in Requests, Purge(r) PROVE Once'
    <2>1. Ends(r) /\ UNCHANGED <<issued, flight>> /\ live' \subseteq live
      BY <1>18 DEF Purge
    <2>. QED BY <2>1, Ended
  <1>19. ASSUME NEW r \in Requests, Throw(r) PROVE Once'
    <2>1. req[r] \in Req /\ req[r] # Idle /\ req[r].at \in Handling
      BY <1>19 DEF Throw, Handling, Typed, TypeOK, Idle
    <2>2. CASE req[r].op = "query" /\ req[r].caller = "waits" /\ Settle(r, 0, Idle)
      <3>1. req[r].at \notin Others
        BY <2>1, <2>2 DEF Typed, Numbered, InUse, Sound
      <3>2. Exchanging(r)
        BY <2>1, <2>2, <3>1 DEF Exchanging, Exchanges, Handling, Others
      <3>3. ~Exchanges(Idle)
        BY DEF Idle, Exchanges
      <3>. QED BY <1>19, <2>2, <3>2, <3>3, Settled DEF Throw, Redis
    <2>3. CASE Ends(r) /\ UNCHANGED flight
      BY <1>19, <2>3, Ended DEF Throw, Redis
    <2>. QED BY <1>19, <2>2, <2>3 DEF Throw
  <1>20. ASSUME NEW r \in Requests, TimesOut(r) PROVE Once'
    <2>. DEFINE left == [req[r] EXCEPT !.caller = "gone"]
    <2>1. req[r] \in Req /\ req[r] # Idle /\ req[r].at \in {"drop", "index", "collect"}
          /\ req[r].caller = "waits"
      BY <1>20 DEF TimesOut, Typed, TypeOK, Idle
    <2>2. ~Exchanges(left)
      BY <2>1 DEF Req, Exchanges
    <2>3. CASE req[r].op = "query" /\ Settle(r, 0, left)
      <3>1. req[r].at \notin Others
        BY <2>1, <2>3 DEF Typed, Numbered, InUse, Sound
      <3>2. Exchanging(r)
        BY <2>1, <2>3, <3>1 DEF Exchanging, Exchanges, Others
      <3>. HIDE DEF left
      <3>. QED BY <1>20, <2>2, <2>3, <3>2, Settled DEF TimesOut, Redis
    <2>4. CASE req' = [req EXCEPT ![r] = left] /\ UNCHANGED flight
      <3>. HIDE DEF left
      <3>. QED BY <1>20, <2>2, <2>4, Replaced DEF TimesOut, Redis
    <2>. QED BY <1>20, <2>3, <2>4 DEF TimesOut
  <1>21. ASSUME NEW r \in Requests, LoseAnswer(r) PROVE Once'
    BY <1>21, Ended DEF LoseAnswer, Redis
  <1>22. ASSUME NEW t \in Token, Forget(t) PROVE Once'
    <2>1. ASSUME NEW x \in Requests, Exchanging(x)
          PROVE  flight'[req[x].token].at = flight[req[x].token].at
      <3>1. flight[req[x].token].at = "busy" /\ req[x].token \in Token
        BY <2>1, AnExchange DEF Once, Flying
      <3>2. req[x].token # t
        BY <1>22, <3>1 DEF Forget
      <3>. QED BY <1>22, <3>1, <3>2 DEF Forget, Typed, TypeOK
    <2>. QED BY <1>22, <2>1, Narrows DEF Forget, Redis, Exchanging
  <1>23. ASSUME NEW d \in Devices, TokenLapses(d) PROVE Once'
    <2>1. UNCHANGED <<issued, req, flight>> /\ live' \subseteq live
      BY <1>23 DEF TokenLapses
    <2>. QED BY <2>1, Narrows DEF Exchanging
  <1>24. CASE SessionsLapse
    BY <1>24, Narrows DEF SessionsLapse, Exchanging
  <1>25. CASE UNCHANGED vars
    BY <1>25, Narrows DEF vars, Exchanging
  <1>. QED
    BY <1>1, <1>2, <1>3, <1>4, <1>5, <1>6, <1>7, <1>8, <1>9, <1>10, <1>11, <1>12, <1>13,
       <1>14, <1>15, <1>16, <1>17, <1>18, <1>19, <1>20, <1>21, <1>22, <1>23, <1>24, <1>25
    DEF Next, Handles, Calling

\* The gateway exchanges a refresh token at most once, whatever the constants are.
THEOREM ExchangedOnce == Spec => []SingleUse
  <1>1. Init => Typed /\ Once
    BY TypedInit, OnceInit
  <1>2. Typed /\ Once /\ [Next]_vars => (Typed /\ Once)'
    BY TypedStep, OnceStep
  <1>3. Typed /\ Once => SingleUse
    BY DEF Once
  <1>. QED BY <1>1, <1>2, <1>3, PTL DEF Spec

-------------------------------------------------------------------------------
(* Where tokens are.  What every history keeps: each operation is at places   *)
(* of its own, a token that is kept for a device anywhere was issued to it,   *)
(* the token of a handler at its second SET is known to nobody else, and a    *)
(* refresh in flight has a handler.                                           *)

Holds(t, d) == t = 0 \/ (t \in DOMAIN issued /\ issued[t].device = d)

Placed(q) ==
  /\ q.at \in {"sent", "waiting"} => q.op = "query"
  /\ q.at \in {"get", "rotate"} => q.op \in {"query", "refresh"} /\ q.token # 0
  /\ q.at \in {"revoke", "drop"} => q.op \in Signins
  /\ q.at \in {"save", "index", "reply"} => q.op \notin {"logout", "password"}
  /\ q.at = "out" <=> q.op = "logout"
  /\ q.at = "collect" <=> q.op = "password"
  /\ q.at = "index" \/ (q.at = "reply" /\ q.op # "query") => q.fresh # 0
  /\ q.op = "query" /\ q.fresh # 0 => q.token < q.fresh
  /\ q.caller = "gone" => q.at \in {"drop", "index", "collect"}
Owned(q) ==
  /\ q.op # "password" => Holds(q.token, q.device) /\ Holds(q.fresh, q.device)
  /\ \A t \in q.found : \E d \in q.seen : Holds(t, d)
Rooted(r) == req[r] # Idle => Placed(req[r]) /\ Owned(req[r])

\* An entry f of the gateway's map, under token t.
Flown(t, f) ==
  f # NoFlight => /\ f.at # "none" /\ t \in DOMAIN issued
                  /\ Holds(f.got, issued[t].device)
                  /\ f.got # 0 => t < f.got
Own ==
  /\ \A d \in Devices : Holds(cookie[d], d) /\ Holds(device_token[d], d)
  /\ \A t \in Token : Flown(t, flight[t])
  /\ \A r \in Requests : Rooted(r)

\* A request q that does not carry the token x.
Lacks(q, x) == q # Idle => q.fresh # x /\ (q.op = "query" => q.token # x)
Secret(r) == req[r] # Idle /\ req[r].at = "index" =>
               /\ \A d \in Devices : cookie[d] # req[r].fresh
               /\ \A t \in Token : flight[t].got # req[r].fresh
               /\ \A q \in Requests \ {r} : Lacks(req[q], req[r].fresh)
Unknown == \A r \in Requests : Secret(r)

Driven == \A t \in Token : flight[t].at = "busy" =>
            \E r \in Requests : Exchanging(r) /\ req[r].token = t

Whole == Typed /\ Once /\ Own /\ Unknown /\ Driven

\* Tokens are only ever added.
Grown == \A i \in DOMAIN issued : i \in DOMAIN issued' /\ issued'[i] = issued[i]

LEMMA Grows == Typed /\ [Next]_vars => Grown
  <1>. SUFFICES ASSUME Typed, [Next]_vars PROVE Grown
    OBVIOUS
  <1>1. CASE UNCHANGED issued
    BY <1>1 DEF Grown
  <1>2. CASE \E r \in Requests : Save(r)
    <2>1. PICK v : issued' = Append(issued, v)
      BY <1>2 DEF Save
    <2>2. issued \in Seq(Session)
      BY DEF Typed, TypeOK
    <2>. QED BY <2>1, <2>2 DEF Grown
  <1>. QED
    BY <1>1, <1>2
    DEF Next, Handles, Calling, Login, OidcLogin, Register, Send, RefreshTokens, Logout,
        ConfirmPasswordChange, GetOrStartRefresh, Get, Rotate, Revoke, Drop, Index, Answer,
        Out, Collect, Purge, Throw, TimesOut, LoseAnswer, Forget, TokenLapses, SessionsLapse,
        Redis, vars

LEMMA HoldsStill == ASSUME Grown, NEW t, NEW d, Holds(t, d) PROVE Holds(t, d)'
  BY DEF Grown, Holds

LEMMA OwnedStill ==
  ASSUME Grown, NEW r, NEW q, req'[r] = q, Owned(q)
  PROVE  Owned(req[r])'
  BY HoldsStill DEF Owned

LEMMA FlownStill == ASSUME Grown, NEW t, NEW f, Flown(t, f) PROVE Flown(t, f)'
  BY HoldsStill DEF Flown, Grown

\* The shapes of a step, as seen by the requests.
LEMMA StartsShape ==
  ASSUME Typed, NEW r \in Requests, NEW q, Starts(r, q)
  PROVE  /\ req[r] = Idle /\ req'[r] = q
         /\ \A x \in Requests \ {r} : req'[x] = req[x]
  BY DEF Starts, Typed, TypeOK

LEMMA NewShape ==
  ASSUME NEW at \in Steps, NEW op, NEW d, NEW t
  PROVE  LET q == New(at, op, d, t)
         IN  /\ q # Idle /\ q.at = at /\ q.op = op /\ q.device = d /\ q.token = t
             /\ q.fresh = 0 /\ q.found = {} /\ q.seen = {} /\ q.caller = "waits"
  BY DEF New, Idle, Steps, Handling

LEMMA EndsShape ==
  ASSUME Typed, NEW r \in Requests, Ends(r)
  PROVE  req'[r] = Idle /\ \A x \in Requests \ {r} : req'[x] = req[x]
  BY DEF Ends, Typed, TypeOK

\* A request as another record of the same call.
Alike(p, q) ==
  /\ p # Idle /\ q # Idle
  /\ p.op = q.op /\ p.device = q.device /\ p.seen = q.seen /\ p.found = q.found

LEMMA GoesShape ==
  ASSUME Typed, NEW r \in Requests, req[r] # Idle, NEW s \in Steps, Goes(r, s)
  PROVE  /\ Alike(req'[r], req[r]) /\ req'[r].at = s
         /\ req'[r].token = req[r].token /\ req'[r].fresh = req[r].fresh
         /\ req'[r].caller = req[r].caller
         /\ \A x \in Requests \ {r} : req'[x] = req[x]
  <1>1. req[r] \in Req /\ req'[r] = [req[r] EXCEPT !.at = s]
    BY DEF Typed, TypeOK, Goes
  <1>2. s # "idle"
    BY DEF Steps, Handling
  <1>3. \A x \in Requests \ {r} : req'[x] = req[x]
    BY DEF Goes, Typed, TypeOK
  <1>4. req'[r].at = s /\ req'[r] # Idle
    BY <1>1, <1>2 DEF Req, Idle
  <1>. QED BY <1>1, <1>3, <1>4 DEF Alike, Req

LEMMA SettleShape ==
  ASSUME Typed, NEW r \in Requests, req[r] # Idle, req[r].op = "query", NEW n, NEW was,
         Settle(r, n, was)
  PROVE  /\ req'[r] = was
         /\ req[r].token \in Token
         /\ flight'[req[r].token] = [at |-> "done", got |-> n]
         /\ \A t \in Token \ {req[r].token} : flight'[t] = flight[t]
         /\ \A x \in Requests \ {r} :
              IF req[x].at = "waiting" /\ req[x].token = req[r].token
              THEN /\ Alike(req'[x], req[x]) /\ req'[x].at = "reply"
                   /\ req'[x].token = req[x].token /\ req'[x].fresh = n
                   /\ req'[x].caller = req[x].caller
              ELSE req'[x] = req[x]
  <1>1. req[r].token \in Token
    <2>1. req[r].token \in 1..Len(issued)
      BY DEF Typed, Numbered, InUse, Sound
    <2>. QED BY <2>1, LenIsANumber, BoundAssumption DEF Typed, TypeOK, Token
  <1>2. /\ flight'[req[r].token] = [at |-> "done", got |-> n]
        /\ \A t \in Token \ {req[r].token} : flight'[t] = flight[t]
    BY <1>1 DEF Settle, Typed, TypeOK
  <1>3. req'[r] = was
    BY DEF Settle
  <1>4. ASSUME NEW x \in Requests \ {r}, req[x].at = "waiting", req[x].token = req[r].token
        PROVE  /\ Alike(req'[x], req[x]) /\ req'[x].at = "reply"
               /\ req'[x].token = req[x].token /\ req'[x].fresh = n
               /\ req'[x].caller = req[x].caller
    <2>1. req'[x] = [req[x] EXCEPT !.at = "reply", !.fresh = n]
      BY <1>4 DEF Settle
    <2>2. req[x] # Idle /\ req[x] \in Req
      BY <1>4 DEF Idle, Typed, TypeOK
    <2>3. req'[x].at = "reply" /\ req'[x] # Idle
      BY <2>1, <2>2 DEF Req, Idle
    <2>. QED BY <2>1, <2>2, <2>3 DEF Alike, Req
  <1>5. \A x \in Requests \ {r} :
          ~(req[x].at = "waiting" /\ req[x].token = req[r].token) => req'[x] = req[x]
    BY DEF Settle
  <1>. QED BY <1>1, <1>2, <1>3, <1>4, <1>5

\* A request that is replaced, while others are as they were.
LEMMA OwnPut ==
  ASSUME Own, Grown, NEW r \in Requests,
         \A x \in Requests \ {r} : req'[x] = req[x],
         req'[r] # Idle => Placed(req'[r]) /\ Owned(req[r])',
         \A d \in Devices : cookie'[d] = cookie[d] \/ Holds(cookie[d], d)',
         \A d \in Devices : device_token'[d] = device_token[d] \/ Holds(device_token[d], d)',
         \A t \in Token : flight'[t] = flight[t] \/ Flown(t, flight[t])'
  PROVE  Own'
  <1>1. ASSUME NEW d \in Devices PROVE Holds(cookie[d], d)' /\ Holds(device_token[d], d)'
    <2>1. Holds(cookie[d], d) /\ Holds(device_token[d], d)
      BY DEF Own
    <2>. QED BY <2>1, HoldsStill DEF Holds, Grown
  <1>2. ASSUME NEW t \in Token PROVE Flown(t, flight[t])'
    <2>1. Flown(t, flight[t])
      BY DEF Own
    <2>2. CASE flight'[t] = flight[t]
      BY <2>1, <2>2 DEF Flown, Holds, Grown
    <2>. QED BY <2>2
  <1>3. ASSUME NEW x \in Requests PROVE Rooted(x)'
    <2>1. CASE x = r
      BY <2>1 DEF Rooted
    <2>2. CASE x # r
      <3>1. req'[x] = req[x] /\ Rooted(x)
        BY <2>2 DEF Own
      <3>. QED BY <3>1 DEF Rooted, Owned, Holds, Grown
    <2>. QED BY <2>1, <2>2
  <1>. QED BY <1>1, <1>2, <1>3 DEF Own

\* A new request carries a token of its device, or none.
LEMMA OwnStarts ==
  ASSUME Typed, Own, NEW r \in Requests, NEW at \in Steps, NEW op, NEW d, NEW t,
         Starts(r, New(at, op, d, t)), Placed(New(at, op, d, t)), Holds(t, d),
         UNCHANGED <<issued, device_token, flight, cookie>>
  PROVE  Own'
  <1>. DEFINE q == New(at, op, d, t)
  <1>1. req'[r] = q /\ \A x \in Requests \ {r} : req'[x] = req[x]
    BY StartsShape
  <1>2. q.device = d /\ q.token = t /\ q.fresh = 0 /\ q.found = {}
    BY NewShape
  <1>3. Placed(q)
    OBVIOUS
  <1>. HIDE DEF q
  <1>4. Owned(req[r])'
    BY <1>1, <1>2 DEF Owned, Holds
  <1>. QED BY <1>1, <1>3, <1>4, OwnPut DEF Grown

\* A request goes on as it is.
LEMMA OwnGoes ==
  ASSUME Typed, Own, NEW r \in Requests, req[r] # Idle, NEW s \in Steps, Goes(r, s),
         Placed(req'[r]), UNCHANGED issued,
         \A d \in Devices : cookie'[d] = cookie[d] \/ Holds(cookie[d], d)',
         \A d \in Devices : device_token'[d] = device_token[d] \/ Holds(device_token[d], d)',
         \A t \in Token : flight'[t] = flight[t] \/ Flown(t, flight[t])'
  PROVE  Own'
  <1>1. /\ Alike(req'[r], req[r]) /\ req'[r].token = req[r].token /\ req'[r].fresh = req[r].fresh
        /\ \A x \in Requests \ {r} : req'[x] = req[x]
    BY GoesShape
  <1>2. Owned(req[r])
    BY DEF Own, Rooted
  <1>3. Owned(req[r])'
    BY <1>1, <1>2 DEF Owned, Holds, Alike
  <1>. QED BY <1>1, <1>3, OwnPut DEF Grown

LEMMA OwnEnds ==
  ASSUME Typed, Own, NEW r \in Requests, Ends(r), UNCHANGED issued,
         \A d \in Devices : cookie'[d] = cookie[d] \/ Holds(cookie[d], d)',
         \A d \in Devices : device_token'[d] = device_token[d] \/ Holds(device_token[d], d)',
         UNCHANGED flight
  PROVE  Own'
  <1>1. req'[r] = Idle /\ \A x \in Requests \ {r} : req'[x] = req[x]
    BY EndsShape
  <1>. QED BY <1>1, OwnPut DEF Grown

\* A refresh settles: all who wait for it are of the token's device.
LEMMA OwnSettled ==
  ASSUME Typed, Own, NEW r \in Requests, req[r] # Idle, req[r].op = "query", NEW n, NEW was,
         Settle(r, n, was), Holds(n, req[r].device), n # 0 => req[r].token < n,
         was # Idle => Placed(was) /\ Owned(was), UNCHANGED <<issued, cookie>>,
         \A d \in Devices : device_token'[d] = device_token[d] \/ Holds(device_token[d], d)'
  PROVE  Own'
  <1>. DEFINE t == req[r].token
  <1>1. /\ req'[r] = was /\ t \in Token
        /\ flight'[t] = [at |-> "done", got |-> n]
        /\ \A x \in Token \ {t} : flight'[x] = flight[x]
        /\ \A x \in Requests \ {r} :
              IF req[x].at = "waiting" /\ req[x].token = req[r].token
              THEN /\ Alike(req'[x], req[x]) /\ req'[x].at = "reply"
                   /\ req'[x].token = req[x].token /\ req'[x].fresh = n
                   /\ req'[x].caller = req[x].caller
              ELSE req'[x] = req[x]
    BY SettleShape
  <1>2. /\ t \in DOMAIN issued /\ issued[t].device = req[r].device
    <2>1. t # 0
      BY <1>1, BoundAssumption DEF Token
    <2>. QED BY <2>1 DEF Own, Rooted, Owned, Holds
  <1>3. ASSUME NEW d \in Devices PROVE Holds(cookie[d], d)' /\ Holds(device_token[d], d)'
    <2>1. Holds(cookie[d], d) /\ Holds(device_token[d], d)
      BY DEF Own
    <2>. QED BY <2>1 DEF Holds
  <1>4. ASSUME NEW x \in Token PROVE Flown(x, flight[x])'
    <2>1. CASE x = t
      BY <1>1, <1>2, <2>1 DEF Flown, Holds
    <2>2. CASE x # t
      <3>1. Flown(x, flight[x])
        BY DEF Own
      <3>. QED BY <1>1, <2>2, <3>1 DEF Flown, Holds
    <2>. QED BY <2>1, <2>2
  <1>5. ASSUME NEW x \in Requests PROVE Rooted(x)'
    <2>1. CASE x = r
      BY <1>1, <2>1 DEF Rooted, Owned, Holds
    <2>2. CASE x # r /\ req[x].at = "waiting" /\ req[x].token = t
      <3>1. /\ Alike(req'[x], req[x]) /\ req'[x].at = "reply"
            /\ req'[x].token = req[x].token /\ req'[x].fresh = n
            /\ req'[x].caller = req[x].caller
        BY <1>1, <2>2
      <3>2. req[x] # Idle /\ Placed(req[x]) /\ Owned(req[x])
        BY <2>2 DEF Own, Rooted, Idle
      <3>3. req[x].op = "query"
        BY <2>2, <3>2 DEF Placed
      <3>4. req[x].device = req[r].device
        <4>1. t # 0
          BY <1>1, BoundAssumption DEF Token
        <4>. QED BY <1>2, <2>2, <3>2, <3>3, <4>1 DEF Owned, Holds
      <3>5. Placed(req'[x])
        BY <2>2, <3>1, <3>2, <3>3 DEF Placed, Alike
      <3>6. Owned(req[x])'
        BY <3>1, <3>2, <3>4 DEF Owned, Holds, Alike
      <3>. QED BY <3>5, <3>6 DEF Rooted
    <2>3. CASE x # r /\ ~(req[x].at = "waiting" /\ req[x].token = t)
      <3>1. req'[x] = req[x] /\ Rooted(x)
        BY <1>1, <2>3 DEF Own
      <3>. QED BY <3>1 DEF Rooted, Owned, Holds
    <2>. QED BY <2>1, <2>2, <2>3
  <1>. QED BY <1>3, <1>4, <1>5 DEF Own

LEMMA OwnInit == Init => Own
  BY DEF Init, Empty, Own, Holds, Flown, Rooted

\* At a place of a handler there is a request.
LEMMA AtWork ==
  ASSUME Typed, Own, NEW r \in Requests, req[r].at \in Steps
  PROVE  req[r] # Idle /\ req[r] \in Req /\ Placed(req[r]) /\ Owned(req[r])
  <1>1. req[r] # Idle
    BY DEF Idle, Steps, Handling
  <1>. QED BY <1>1 DEF Own, Rooted, Typed, TypeOK

LEMMA OwnStep == Typed /\ Own /\ [Next]_vars => Own'
  <1>. SUFFICES ASSUME Typed, Own, [Next]_vars PROVE Own'
    OBVIOUS
  <1>. USE DEF Redis
  <1>0. Grown
    BY Grows
  <1>w. \A r \in Requests : req[r].at \in Steps =>
          req[r] # Idle /\ req[r] \in Req /\ Placed(req[r]) /\ Owned(req[r])
    BY AtWork
  <1>p. "revoke" \in Steps /\ "drop" \in Steps /\ "save" \in Steps /\ "index" \in Steps
        /\ "reply" \in Steps /\ "sent" \in Steps /\ "waiting" \in Steps /\ "get" \in Steps
        /\ "rotate" \in Steps /\ "out" \in Steps /\ "collect" \in Steps
    BY DEF Steps, Handling
  <1>1. ASSUME NEW r \in Requests, NEW d \in Devices, Login(r, d) PROVE Own'
    <2>1. Placed(New("revoke", "login", d, 0)) /\ Holds(0, d)
      BY NewShape, <1>p DEF Placed, Signins, Holds
    <2>. QED BY <1>1, <1>p, <2>1, OwnStarts DEF Login
  <1>2. ASSUME NEW r \in Requests, NEW d \in Devices, OidcLogin(r, d) PROVE Own'
    <2>1. Placed(New("revoke", "oidc", d, 0)) /\ Holds(0, d)
      BY NewShape, <1>p DEF Placed, Signins, Holds
    <2>. QED BY <1>2, <1>p, <2>1, OwnStarts DEF OidcLogin
  <1>3. ASSUME NEW r \in Requests, NEW d \in Devices, Register(r, d) PROVE Own'
    <2>1. Placed(New("save", "register", d, 0)) /\ Holds(0, d)
      BY NewShape, <1>p DEF Placed, Signins, Holds
    <2>. QED BY <1>3, <1>p, <2>1, OwnStarts DEF Register
  <1>4. ASSUME NEW r \in Requests, NEW d \in Devices, Send(r, d) PROVE Own'
    <2>1. Placed(New("sent", "query", d, cookie[d]))
      BY NewShape, <1>p DEF Placed
    <2>2. Holds(cookie[d], d)
      BY DEF Own
    <2>. QED BY <1>4, <1>p, <2>1, <2>2, OwnStarts DEF Send
  <1>5. ASSUME NEW r \in Requests, NEW d \in Devices, RefreshTokens(r, d) PROVE Own'
    <2>1. PICK t \in LiveOf(d) : Starts(r, New("get", "refresh", d, t))
      BY <1>5 DEF RefreshTokens
    <2>2. Holds(t, d) /\ t # 0
      BY <2>1, LenIsANumber DEF LiveOf, Holds, Typed, TypeOK
    <2>3. Placed(New("get", "refresh", d, t))
      BY <2>2, NewShape, <1>p DEF Placed
    <2>. QED BY <1>5, <1>p, <2>1, <2>2, <2>3, OwnStarts DEF RefreshTokens
  <1>6. ASSUME NEW r \in Requests, NEW d \in Devices, Logout(r, d) PROVE Own'
    <2>1. PICK t \in LiveOf(d) : Starts(r, New("out", "logout", d, t))
      BY <1>6 DEF Logout
    <2>2. Holds(t, d)
      BY <2>1 DEF LiveOf, Holds, Typed, TypeOK
    <2>3. Placed(New("out", "logout", d, t))
      BY NewShape, <1>p DEF Placed
    <2>. QED BY <1>6, <1>p, <2>1, <2>2, <2>3, OwnStarts DEF Logout
  <1>7. ASSUME NEW r \in Requests, ConfirmPasswordChange(r) PROVE Own'
    <2>. DEFINE n == New("collect", "password", "all", 0)
                q == [n EXCEPT !.todo = user_sessions]
    <2>1. q.at = "collect" /\ q.op = "password" /\ q.fresh = 0 /\ q.found = {} /\ q.token = 0
      BY DEF New
    <2>2. Placed(q) /\ Owned(q)
      <3>. HIDE DEF q
      <3>. QED BY <2>1 DEF Placed, Owned, Signins
    <2>3. req'[r] = q /\ \A x \in Requests \ {r} : req'[x] = req[x]
      <3>1. Starts(r, q)
        BY <1>7 DEF ConfirmPasswordChange
      <3>. HIDE DEF q
      <3>. QED BY <3>1, StartsShape
    <2>. HIDE DEF q
    <2>. QED BY <1>0, <1>7, <2>2, <2>3, OwnPut, OwnedStill DEF ConfirmPasswordChange
  <1>8. ASSUME NEW r \in Requests, GetOrStartRefresh(r) PROVE Own'
    <2>. DEFINE t == req[r].token
    <2>1. req[r].at = "sent" /\ UNCHANGED <<issued, device_token, cookie>>
      BY <1>8 DEF GetOrStartRefresh
    <2>2. req[r] # Idle /\ req[r] \in Req /\ Placed(req[r]) /\ Owned(req[r])
      BY <1>p, <1>w, <2>1
    <2>3. req[r].op = "query"
      BY <2>1, <2>2 DEF Placed
    <2>4. t \in 1..Len(issued) /\ t \in Token /\ t # 0
      <3>1. t \in 1..Len(issued)
        BY <2>2, <2>3 DEF Typed, Numbered, InUse, Sound
      <3>. QED BY <3>1, LenIsANumber, BoundAssumption DEF Typed, TypeOK, Token
    <2>5. t \in DOMAIN issued /\ issued[t].device = req[r].device
      BY <2>2, <2>3, <2>4 DEF Owned, Holds
    <2>6. Flown(t, flight[t]) /\ flight[t] \in Flight
      BY <2>4 DEF Own, Typed, TypeOK
    <2>7. CASE Goes(r, "get") /\ flight[t].at = "none" /\ flight' = [flight EXCEPT ![t].at = "busy"]
      <3>1. Placed(req'[r])
        BY <1>p, <2>1, <2>2, <2>3, <2>4, <2>7, GoesShape DEF Placed, Alike
      <3>2. \A x \in Token : flight'[x] = flight[x] \/ Flown(x, flight[x])'
        <4>1. flight[t] = NoFlight
          BY <2>6, <2>7 DEF Flown
        <4>2. flight'[t] = [at |-> "busy", got |-> 0]
          BY <2>4, <2>7, <4>1 DEF NoFlight, Typed, TypeOK
        <4>3. \A x \in Token : x # t => flight'[x] = flight[x]
          BY <2>7 DEF Typed, TypeOK
        <4>. HIDE DEF t
        <4>4. ASSUME NEW x \in Token, x = t PROVE Flown(x, flight[x])'
          BY <2>1, <2>5, <4>2, <4>4 DEF Flown, Holds
        <4>. QED BY <4>3, <4>4
      <3>. QED BY <1>p, <2>1, <2>2, <2>7, <3>1, <3>2, OwnGoes
    <2>8. CASE Goes(r, "waiting") /\ UNCHANGED flight
      <3>1. Placed(req'[r])
        BY <1>p, <2>1, <2>2, <2>3, <2>8, GoesShape DEF Placed, Alike
      <3>. QED BY <1>p, <2>1, <2>2, <2>8, <3>1, OwnGoes
    <2>9. CASE /\ req' = [req EXCEPT ![r].at = "reply", ![r].fresh = flight[t].got]
               /\ UNCHANGED flight /\ flight[t].at = "done"
      <3>. DEFINE q == [req[r] EXCEPT !.at = "reply", !.fresh = flight[t].got]
      <3>1. req'[r] = q /\ \A x \in Requests \ {r} : req'[x] = req[x]
        BY <2>2, <2>9 DEF Typed, TypeOK
      <3>2. /\ q.at = "reply" /\ q.fresh = flight[t].got /\ q.op = "query" /\ q.token = t
            /\ q.device = req[r].device /\ q.found = req[r].found /\ q.seen = req[r].seen
            /\ q.caller = req[r].caller
        BY <2>2, <2>3 DEF Req
      <3>3. flight[t] # NoFlight
        BY <2>9 DEF NoFlight
      <3>. HIDE DEF q
      <3>4. Placed(q)
        BY <2>1, <2>2, <2>6, <3>2, <3>3 DEF Placed, Flown
      <3>5. Owned(q)
        BY <2>2, <2>3, <2>5, <2>6, <3>2, <3>3 DEF Owned, Flown
      <3>6. Owned(req[r])'
        BY <1>0, <3>1, <3>5, OwnedStill
      <3>. QED BY <1>0, <2>1, <2>9, <3>1, <3>4, <3>6, OwnPut
    <2>. QED BY <1>8, <2>7, <2>8, <2>9 DEF GetOrStartRefresh
  <1>9. ASSUME NEW r \in Requests, Get(r) PROVE Own'
    <2>1. req[r].at = "get" /\ UNCHANGED <<issued, device_token, cookie>>
      BY <1>9 DEF Get
    <2>2. req[r] # Idle /\ req[r] \in Req /\ Placed(req[r]) /\ Owned(req[r])
      BY <1>p, <1>w, <2>1
    <2>3. CASE Goes(r, "rotate") /\ UNCHANGED flight
      <3>1. Placed(req'[r])
        BY <1>p, <2>1, <2>2, <2>3, GoesShape DEF Placed, Alike
      <3>. QED BY <1>p, <2>1, <2>2, <2>3, <3>1, OwnGoes
    <2>4. CASE req[r].op = "query" /\ Settle(r, 0, Idle)
      BY <2>1, <2>2, <2>4, OwnSettled DEF Holds
    <2>5. CASE Ends(r) /\ UNCHANGED flight
      BY <2>1, <2>5, OwnEnds
    <2>. QED BY <1>9, <2>3, <2>4, <2>5 DEF Get
  <1>10. ASSUME NEW r \in Requests, Rotate(r) PROVE Own'
    <2>1. req[r].at = "rotate" /\ Goes(r, "save") /\ UNCHANGED <<issued, device_token, cookie, flight>>
      BY <1>10 DEF Rotate
    <2>2. req[r] # Idle /\ req[r] \in Req /\ Placed(req[r]) /\ Owned(req[r])
      BY <1>p, <1>w, <2>1
    <2>3. Placed(req'[r])
      BY <1>p, <2>1, <2>2, GoesShape DEF Placed, Alike
    <2>. QED BY <1>p, <2>1, <2>2, <2>3, OwnGoes
  <1>11. ASSUME NEW r \in Requests, Revoke(r) PROVE Own'
    <2>. DEFINE t == device_token[req[r].device]
                q == [req[r] EXCEPT !.token = t, !.at = IF t = 0 THEN "save" ELSE "drop"]
    <2>1. req[r].at = "revoke" /\ UNCHANGED <<issued, device_token, cookie, flight>>
      BY <1>11 DEF Revoke
    <2>2. req[r] # Idle /\ req[r] \in Req /\ Placed(req[r]) /\ Owned(req[r])
      BY <1>p, <1>w, <2>1
    <2>3. req[r].op \in Signins /\ req[r].device \in Devices
      BY <2>1, <2>2 DEF Placed, Typed, Numbered, InUse, Sound
    <2>4. req'[r] = q /\ \A x \in Requests \ {r} : req'[x] = req[x]
      BY <1>11, <2>2 DEF Revoke, Typed, TypeOK
    <2>5. /\ q.at \in {"save", "drop"} /\ q.fresh = req[r].fresh /\ q.op = req[r].op /\ q.token = t
          /\ q.device = req[r].device /\ q.found = req[r].found /\ q.seen = req[r].seen
          /\ q.caller = req[r].caller
      BY <2>2 DEF Req
    <2>6. Holds(t, req[r].device)
      BY <2>3 DEF Own
    <2>. HIDE DEF q, t
    <2>7. Placed(q) /\ Owned(q)
      BY <2>1, <2>2, <2>3, <2>5, <2>6 DEF Placed, Owned, Signins
    <2>8. Owned(req[r])'
      BY <1>0, <2>4, <2>7, OwnedStill
    <2>. QED BY <1>0, <2>1, <2>4, <2>7, <2>8, OwnPut
  <1>12. ASSUME NEW r \in Requests, Drop(r) PROVE Own'
    <2>. DEFINE q == [req[r] EXCEPT !.at = "save", !.token = 0]
    <2>1. req[r].at = "drop" /\ UNCHANGED <<issued, cookie, flight>>
      BY <1>12 DEF Drop
    <2>2. req[r] # Idle /\ req[r] \in Req /\ Placed(req[r]) /\ Owned(req[r])
      BY <1>p, <1>w, <2>1
    <2>3. \A d \in Devices : device_token'[d] = device_token[d] \/ Holds(device_token[d], d)'
      BY <1>12 DEF Drop, Holds, Typed, TypeOK
    <2>4. CASE Ends(r)
      BY <2>1, <2>3, <2>4, OwnEnds
    <2>5. CASE req[r].caller # "gone" /\ req' = [req EXCEPT ![r].at = "save", ![r].token = 0]
      <3>1. req'[r] = q /\ \A x \in Requests \ {r} : req'[x] = req[x]
        BY <2>2, <2>5 DEF Typed, TypeOK
      <3>2. /\ q.at = "save" /\ q.fresh = req[r].fresh /\ q.op = req[r].op /\ q.token = 0
            /\ q.device = req[r].device /\ q.found = req[r].found /\ q.seen = req[r].seen
            /\ q.caller = req[r].caller
        BY <2>2 DEF Req
      <3>. HIDE DEF q
      <3>3. Placed(q) /\ Owned(q)
        BY <2>1, <2>2, <2>5, <3>2 DEF Placed, Owned, Signins, Holds
      <3>4. Owned(req[r])'
        BY <1>0, <3>1, <3>3, OwnedStill
      <3>. QED BY <1>0, <2>1, <2>3, <3>1, <3>3, <3>4, OwnPut
    <2>. QED BY <1>12, <2>4, <2>5 DEF Drop, Dropped
  <1>13. ASSUME NEW r \in Requests, Save(r) PROVE Own'
    <2>. DEFINE t == Len(issued) + 1
                v == [device |-> req[r].device,
                      from |-> IF req[r].op = "query" THEN req[r].token ELSE 0]
                q == [req[r] EXCEPT !.fresh = t, !.at = "index"]
    <2>1. req[r].at = "save" /\ UNCHANGED <<device_token, cookie, flight>>
      BY <1>13 DEF Save
    <2>2. req[r] # Idle /\ req[r] \in Req /\ Placed(req[r]) /\ Owned(req[r])
      BY <1>p, <1>w, <2>1
    <2>3. req'[r] = q /\ \A x \in Requests \ {r} : req'[x] = req[x]
      BY <1>13, <2>2 DEF Save, Typed, TypeOK
    <2>4. /\ q.at = "index" /\ q.fresh = t /\ q.op = req[r].op /\ q.token = req[r].token
          /\ q.device = req[r].device /\ q.found = req[r].found /\ q.seen = req[r].seen
          /\ q.caller = req[r].caller
      BY <2>2 DEF Req
    <2>5. t \in DOMAIN issued' /\ issued'[t].device = req[r].device
      <3>1. issued' = Append(issued, v) /\ issued \in Seq(Session)
        BY <1>13 DEF Save, Typed, TypeOK
      <3>2. issued'[t] = v /\ DOMAIN issued' = 1..t
        <4>. HIDE DEF v
        <4>. QED BY <3>1
      <3>. QED BY <3>1, <3>2, LenIsANumber DEF Typed
    <2>6. t \in Nat /\ t # 0 /\ req[r].token \in Nat /\ (req[r].op = "query" => req[r].token < t)
      <3>1. req[r].token \in Maybe
        BY <2>2 DEF Req
      <3>. QED BY <2>2, <3>1, LenIsANumber, BoundAssumption DEF Typed, Numbered, InUse, Sound, Maybe
    <2>. HIDE DEF q, t
    <2>7. Placed(q)
      BY <2>1, <2>2, <2>4, <2>6 DEF Placed, Signins
    <2>8. Owned(req[r])'
      <3>1. Owned(req[r]) /\ req[r].op # "password"
        BY <2>1, <2>2 DEF Placed
      <3>2. \A x, d : Holds(x, d) => x = 0 \/ (x \in DOMAIN issued' /\ issued'[x].device = d)
        BY <1>0 DEF Grown, Holds
      <3>. QED BY <2>3, <2>4, <2>5, <3>1, <3>2 DEF Owned, Holds
    <2>. QED BY <1>0, <2>1, <2>3, <2>7, <2>8, OwnPut
  <1>14. ASSUME NEW r \in Requests, Index(r) PROVE Own'
    <2>1. req[r].at = "index" /\ UNCHANGED <<issued, cookie>>
      BY <1>14 DEF Index
    <2>2. req[r] # Idle /\ req[r] \in Req /\ Placed(req[r]) /\ Owned(req[r])
      BY <1>p, <1>w, <2>1
    <2>3. req[r].op # "password" /\ Holds(req[r].fresh, req[r].device)
      BY <2>1, <2>2 DEF Placed, Owned
    <2>4. \A d \in Devices : device_token'[d] = device_token[d] \/ Holds(device_token[d], d)'
      BY <1>14, <2>1, <2>3 DEF Index, Holds, Typed, TypeOK
    <2>5. CASE Ends(r) /\ UNCHANGED flight
      BY <2>1, <2>4, <2>5, OwnEnds
    <2>6. CASE /\ req[r].op = "query" /\ req[r].caller # "gone"
               /\ Settle(r, req[r].fresh, [req[r] EXCEPT !.at = "reply"])
      <3>. DEFINE q == [req[r] EXCEPT !.at = "reply"]
      <3>1. /\ q.at = "reply" /\ q.fresh = req[r].fresh /\ q.op = req[r].op /\ q.token = req[r].token
            /\ q.device = req[r].device /\ q.found = req[r].found /\ q.seen = req[r].seen
            /\ q.caller = req[r].caller
        BY <2>2 DEF Req
      <3>2. Settle(r, req[r].fresh, q)
        BY <2>6
      <3>. HIDE DEF q
      <3>3. Placed(q) /\ Owned(q)
        BY <2>1, <2>2, <2>6, <3>1 DEF Placed, Owned
      <3>4. req[r].fresh # 0 => req[r].token < req[r].fresh
        BY <2>2, <2>6 DEF Placed
      <3>. QED BY <2>1, <2>2, <2>3, <2>4, <2>6, <3>2, <3>3, <3>4, OwnSettled
    <2>7. CASE /\ req[r].op # "query" /\ req[r].caller # "gone"
               /\ Goes(r, "reply") /\ UNCHANGED flight
      <3>1. Placed(req'[r])
        BY <1>p, <2>1, <2>2, <2>7, GoesShape DEF Placed, Alike
      <3>. QED BY <1>p, <2>1, <2>2, <2>4, <2>7, <3>1, OwnGoes
    <2>. QED BY <1>14, <2>5, <2>6, <2>7 DEF Index
  <1>15. ASSUME NEW r \in Requests, Answer(r) PROVE Own'
    <2>1. req[r].at = "reply" /\ Ends(r) /\ UNCHANGED <<issued, device_token, flight>>
      BY <1>15 DEF Answer
    <2>2. req[r] # Idle /\ req[r] \in Req /\ Placed(req[r]) /\ Owned(req[r])
      BY <1>p, <1>w, <2>1
    <2>3. Holds(req[r].fresh, req[r].device)
      BY <2>1, <2>2 DEF Placed, Owned
    <2>4. \A d \in Devices : cookie'[d] = cookie[d] \/ Holds(cookie[d], d)'
      <3>1. CASE UNCHANGED cookie
        BY <3>1
      <3>2. CASE cookie' = [cookie EXCEPT ![req[r].device] = req[r].fresh]
        BY <2>1, <2>3, <3>2 DEF Holds, Typed, TypeOK
      <3>. QED BY <1>15, <3>1, <3>2 DEF Answer
    <2>. QED BY <2>1, <2>4, OwnEnds
  <1>16. ASSUME NEW r \in Requests, Out(r) PROVE Own'
    <2>1. \A d \in Devices : device_token'[d] = device_token[d] \/ Holds(device_token[d], d)'
      BY <1>16 DEF Out, Holds, Typed, TypeOK
    <2>. QED BY <1>16, <2>1, OwnEnds DEF Out
  <1>17. ASSUME NEW r \in Requests, Collect(r) PROVE Own'
    <2>1. PICK d \in req[r].todo :
            req' = [req EXCEPT ![r].todo = @ \ {d},
                               ![r].seen = @ \cup {d},
                               ![r].found = @ \cup ({device_token[d]} \ {0})]
      BY <1>17 DEF Collect
    <2>. DEFINE q == [req[r] EXCEPT !.todo = @ \ {d}, !.seen = @ \cup {d},
                                    !.found = @ \cup ({device_token[d]} \ {0})]
    <2>2. req[r].at = "collect" /\ UNCHANGED <<issued, device_token, cookie, flight>>
      BY <1>17 DEF Collect
    <2>3. req[r] # Idle /\ req[r] \in Req /\ Placed(req[r]) /\ Owned(req[r])
      BY <1>p, <1>w, <2>2
    <2>4. req'[r] = q /\ \A x \in Requests \ {r} : req'[x] = req[x]
      BY <2>1, <2>3 DEF Typed, TypeOK
    <2>5. /\ q.at = "collect" /\ q.fresh = req[r].fresh /\ q.op = req[r].op /\ q.token = req[r].token
          /\ q.device = req[r].device
          /\ q.found = req[r].found \cup ({device_token[d]} \ {0}) /\ q.seen = req[r].seen \cup {d}
      BY <2>2, <2>3 DEF Req
    <2>6. d \in Devices /\ Holds(device_token[d], d)
      BY <2>3 DEF Req, Own
    <2>. HIDE DEF q
    <2>7. Placed(q) /\ Owned(q)
      BY <2>2, <2>3, <2>5, <2>6 DEF Placed, Owned
    <2>8. Owned(req[r])'
      BY <1>0, <2>4, <2>7, OwnedStill
    <2>. QED BY <1>0, <2>2, <2>4, <2>7, <2>8, OwnPut
  <1>18. ASSUME NEW r \in Requests, Purge(r) PROVE Own'
    <2>1. \A d \in Devices : device_token'[d] = device_token[d] \/ Holds(device_token[d], d)'
      BY <1>18 DEF Purge, Holds
    <2>. QED BY <1>18, <2>1, OwnEnds DEF Purge
  <1>19. ASSUME NEW r \in Requests, Throw(r) PROVE Own'
    <2>1. req[r] # Idle /\ req[r] \in Req /\ Placed(req[r]) /\ Owned(req[r])
      BY <1>19, <1>w DEF Throw, Steps
    <2>2. CASE req[r].op = "query" /\ Settle(r, 0, Idle)
      BY <1>19, <2>1, <2>2, OwnSettled DEF Throw, Holds
    <2>3. CASE Ends(r) /\ UNCHANGED flight
      BY <1>19, <2>3, OwnEnds DEF Throw
    <2>. QED BY <1>19, <2>2, <2>3 DEF Throw
  <1>20. ASSUME NEW r \in Requests, TimesOut(r) PROVE Own'
    <2>. DEFINE q == [req[r] EXCEPT !.caller = "gone"]
    <2>1. UNCHANGED <<issued, device_token, cookie>>
      BY <1>20 DEF TimesOut
    <2>2. /\ req[r] # Idle /\ req[r] \in Req /\ Placed(req[r]) /\ Owned(req[r])
          /\ req[r].at \in {"drop", "index", "collect"}
      BY <1>20, <1>p, <1>w DEF TimesOut
    <2>3. /\ q.at = req[r].at /\ q.fresh = req[r].fresh /\ q.op = req[r].op /\ q.token = req[r].token
          /\ q.device = req[r].device /\ q.found = req[r].found /\ q.seen = req[r].seen
      BY <2>2 DEF Req
    <2>4. Placed(q) /\ Owned(q)
      <3>. HIDE DEF q
      <3>. QED BY <2>2, <2>3 DEF Placed, Owned
    <2>5. CASE req[r].op = "query" /\ Settle(r, 0, q)
      <3>. HIDE DEF q
      <3>. QED BY <2>1, <2>2, <2>4, <2>5, OwnSettled DEF Holds
    <2>6. CASE req' = [req EXCEPT ![r] = q] /\ UNCHANGED flight
      <3>1. req'[r] = q /\ \A x \in Requests \ {r} : req'[x] = req[x]
        BY <2>6 DEF Typed, TypeOK
      <3>. HIDE DEF q
      <3>2. Owned(req[r])'
        BY <1>0, <2>4, <3>1, OwnedStill
      <3>. QED BY <1>0, <2>1, <2>4, <2>6, <3>1, <3>2, OwnPut
    <2>. QED BY <1>20, <2>5, <2>6 DEF TimesOut
  <1>21. ASSUME NEW r \in Requests, LoseAnswer(r) PROVE Own'
    BY <1>21, OwnEnds DEF LoseAnswer
  <1>22. ASSUME NEW t \in Token, Forget(t) PROVE Own'
    <2>1. \A x \in Token : flight'[x] = flight[x] \/ flight'[x] = NoFlight
      BY <1>22 DEF Forget, Typed, TypeOK
    <2>2. \A x \in Token : Flown(x, flight[x])'
      BY <1>22, <2>1 DEF Forget, Own, Flown, Holds
    <2>. QED BY <1>22, <2>2 DEF Forget, Own, Holds, Rooted, Owned
  <1>23. ASSUME NEW d \in Devices, TokenLapses(d) PROVE Own'
    <2>1. \A x \in Devices : device_token'[x] = device_token[x] \/ Holds(device_token[x], x)'
      BY <1>23 DEF TokenLapses, Holds, Typed, TypeOK
    <2>2. \A x \in Devices : Holds(device_token[x], x)'
      BY <1>23, <2>1 DEF TokenLapses, Own, Holds
    <2>. QED BY <1>23, <2>2 DEF TokenLapses, Own, Holds, Rooted, Owned, Flown
  <1>24. CASE SessionsLapse
    BY <1>24 DEF SessionsLapse, Own, Holds, Rooted, Owned, Flown
  <1>25. CASE UNCHANGED vars
    BY <1>25 DEF vars, Own, Holds, Rooted, Owned, Flown
  <1>. QED
    BY <1>1, <1>2, <1>3, <1>4, <1>5, <1>6, <1>7, <1>8, <1>9, <1>10, <1>11, <1>12, <1>13,
       <1>14, <1>15, <1>16, <1>17, <1>18, <1>19, <1>20, <1>21, <1>22, <1>23, <1>24, <1>25
    DEF Next, Handles, Calling

\* The token n is at the second SET of no handler but r's.
AtIndex(x) == req[x] # Idle /\ req[x].at = "index"
Open(n, r) == \A x \in Requests \ {r} : AtIndex(x) => req[x].fresh # n

LEMMA OpenTokens ==
  ASSUME Own, Unknown, NEW r \in Requests
  PROVE  /\ Open(0, r)
         /\ \A d \in Devices : Open(cookie[d], r)
         /\ \A t \in Token : Open(flight[t].got, r)
         /\ req[r] # Idle => Open(req[r].fresh, r) /\ (req[r].op = "query" => Open(req[r].token, r))
  <1>1. Open(0, r)
    BY DEF Open, AtIndex, Own, Rooted, Placed
  <1>2. ASSUME NEW x \in Requests \ {r}, AtIndex(x)
        PROVE  /\ \A d \in Devices : cookie[d] # req[x].fresh
               /\ \A t \in Token : flight[t].got # req[x].fresh
               /\ Lacks(req[r], req[x].fresh)
    BY <1>2 DEF Unknown, Secret, AtIndex
  <1>. QED BY <1>1, <1>2 DEF Open, Lacks

\* A step of one request that puts no new token into use.
LEMMA UnknownPut ==
  ASSUME Own, Unknown, NEW r \in Requests,
         \A x \in Requests \ {r} : req'[x] = req[x],
         AtIndex(r)' => AtIndex(r) /\ req'[r].fresh = req[r].fresh,
         req'[r] # Idle => Open(req'[r].fresh, r) /\ (req'[r].op = "query" => Open(req'[r].token, r)),
         \A d \in Devices : cookie'[d] = cookie[d] \/ (Open(cookie'[d], r) /\ ~AtIndex(r)'),
         \A t \in Token : flight'[t].got = flight[t].got \/ (Open(flight'[t].got, r) /\ ~AtIndex(r)')
  PROVE  Unknown'
  <1>. SUFFICES ASSUME NEW x \in Requests, AtIndex(x)'
                PROVE  /\ \A d \in Devices : cookie'[d] # req'[x].fresh
                       /\ \A t \in Token : flight'[t].got # req'[x].fresh
                       /\ \A q \in Requests \ {x} : Lacks(req'[q], req'[x].fresh)
    BY DEF Unknown, Secret, AtIndex, Lacks
  <1>1. AtIndex(x) /\ req'[x].fresh = req[x].fresh
    BY DEF AtIndex
  <1>2. /\ \A d \in Devices : cookie[d] # req[x].fresh
        /\ \A t \in Token : flight[t].got # req[x].fresh
        /\ \A q \in Requests \ {x} : Lacks(req[q], req[x].fresh)
    BY <1>1 DEF Unknown, Secret, AtIndex
  <1>3. CASE x = r
    BY <1>1, <1>2, <1>3 DEF Lacks
  <1>4. CASE x # r
    BY <1>1, <1>2, <1>4 DEF Lacks, Open
  <1>. QED BY <1>3, <1>4

LEMMA UnknownStarts ==
  ASSUME Typed, Own, Unknown, NEW r \in Requests, NEW at \in Steps, NEW op, NEW d, NEW t,
         Starts(r, New(at, op, d, t)), at # "index", op = "query" => Open(t, r),
         UNCHANGED <<flight, cookie>>
  PROVE  Unknown'
  <1>. DEFINE q == New(at, op, d, t)
  <1>1. req'[r] = q /\ \A x \in Requests \ {r} : req'[x] = req[x]
    BY StartsShape
  <1>2. q.at = at /\ q.op = op /\ q.token = t /\ q.fresh = 0
    BY NewShape
  <1>. HIDE DEF q
  <1>3. ~AtIndex(r)'
    BY <1>1, <1>2 DEF AtIndex
  <1>. QED BY <1>1, <1>2, <1>3, OpenTokens, UnknownPut

LEMMA UnknownGoes ==
  ASSUME Typed, Own, Unknown, NEW r \in Requests, req[r] # Idle, NEW s \in Steps, Goes(r, s),
         s # "index", \A t \in Token : flight'[t].got = flight[t].got, UNCHANGED cookie
  PROVE  Unknown'
  <1>1. /\ Alike(req'[r], req[r]) /\ req'[r].token = req[r].token /\ req'[r].fresh = req[r].fresh
        /\ req'[r].at = s
        /\ \A x \in Requests \ {r} : req'[x] = req[x]
    BY GoesShape
  <1>2. ~AtIndex(r)'
    BY <1>1 DEF AtIndex
  <1>. QED BY <1>1, <1>2, OpenTokens, UnknownPut DEF Alike

LEMMA UnknownEnds ==
  ASSUME Typed, Own, Unknown, NEW r \in Requests, Ends(r),
         \A d \in Devices : cookie'[d] = cookie[d] \/ Open(cookie'[d], r), UNCHANGED flight
  PROVE  Unknown'
  <1>1. req'[r] = Idle /\ \A x \in Requests \ {r} : req'[x] = req[x]
    BY EndsShape
  <1>2. ~AtIndex(r)'
    BY <1>1 DEF AtIndex
  <1>. QED BY <1>1, <1>2, UnknownPut

LEMMA UnknownSettled ==
  ASSUME Typed, Own, Unknown, NEW r \in Requests, req[r] # Idle, req[r].op = "query", NEW n, NEW was,
         Settle(r, n, was), UNCHANGED cookie,
         n = 0 \/ (n = req[r].fresh /\ ~AtIndex(r)'),
         was # Idle => /\ was.fresh = req[r].fresh /\ was.token = req[r].token
                       /\ was.at = "index" => AtIndex(r)
  PROVE  Unknown'
  <1>. DEFINE t == req[r].token
  <1>1. /\ req'[r] = was /\ t \in Token
        /\ flight'[t] = [at |-> "done", got |-> n]
        /\ \A x \in Token \ {t} : flight'[x] = flight[x]
        /\ \A x \in Requests \ {r} :
              IF req[x].at = "waiting" /\ req[x].token = req[r].token
              THEN /\ Alike(req'[x], req[x]) /\ req'[x].at = "reply"
                   /\ req'[x].token = req[x].token /\ req'[x].fresh = n
                   /\ req'[x].caller = req[x].caller
              ELSE req'[x] = req[x]
    BY SettleShape
  <1>. HIDE DEF t
  <1>. SUFFICES ASSUME NEW x \in Requests, AtIndex(x)'
                PROVE  /\ \A d \in Devices : cookie'[d] # req'[x].fresh
                       /\ \A u \in Token : flight'[u].got # req'[x].fresh
                       /\ \A q \in Requests \ {x} : Lacks(req'[q], req'[x].fresh)
    BY DEF Unknown, Secret, AtIndex, Lacks
  <1>2. AtIndex(x) /\ req'[x].fresh = req[x].fresh
    BY <1>1 DEF AtIndex
  <1>3. /\ \A d \in Devices : cookie[d] # req[x].fresh
        /\ \A u \in Token : flight[u].got # req[x].fresh
        /\ \A q \in Requests \ {x} : Lacks(req[q], req[x].fresh)
    BY <1>2 DEF Unknown, Secret, AtIndex
  <1>4. n # req[x].fresh
    <2>1. req[x].fresh # 0
      BY <1>2 DEF AtIndex, Own, Rooted, Placed
    <2>2. n # 0 => x # r
      OBVIOUS
    <2>. QED BY <1>3, <2>1, <2>2 DEF Lacks
  <1>5. \A u \in Token : flight'[u].got # req'[x].fresh
    BY <1>1, <1>2, <1>3, <1>4
  <1>6. ASSUME NEW q \in Requests \ {x} PROVE Lacks(req'[q], req'[x].fresh)
    <2>0. Lacks(req[q], req[x].fresh)
      BY <1>3
    <2>1. CASE q = r
      BY <1>1, <1>2, <2>0, <2>1 DEF Lacks
    <2>2. CASE q # r /\ req[q].at = "waiting" /\ req[q].token = t
      BY <1>1, <1>2, <1>4, <2>0, <2>2 DEF Lacks, Alike, t
    <2>3. CASE q # r /\ ~(req[q].at = "waiting" /\ req[q].token = t)
      BY <1>1, <1>2, <2>0, <2>3 DEF t
    <2>. QED BY <2>1, <2>2, <2>3
  <1>. QED BY <1>2, <1>3, <1>5, <1>6

\* A driver goes on with its token: no refresh in flight loses it.
LEMMA DrivenKept ==
  ASSUME Driven, \A t \in Token : flight'[t].at = "busy" => flight[t].at = "busy",
         \A x \in Requests : Exchanging(x) =>
            \/ Exchanging(x)' /\ req'[x].token = req[x].token
            \/ flight'[req[x].token].at # "busy"
  PROVE  Driven'
  BY DEF Driven

LEMMA DrivenSettled ==
  ASSUME Typed, Driven, NEW r \in Requests, req[r] # Idle, req[r].op = "query", NEW n, NEW was,
         Settle(r, n, was)
  PROVE  Driven'
  <1>1. /\ req[r].token \in Token
        /\ flight'[req[r].token] = [at |-> "done", got |-> n]
        /\ \A x \in Token \ {req[r].token} : flight'[x] = flight[x]
        /\ \A x \in Requests \ {r} : req[x].at # "waiting" => req'[x] = req[x]
    BY SettleShape
  <1>2. \A t \in Token : flight'[t].at = "busy" => flight[t].at = "busy"
    BY <1>1
  <1>3. ASSUME NEW x \in Requests, Exchanging(x)
        PROVE  \/ Exchanging(x)' /\ req'[x].token = req[x].token
               \/ flight'[req[x].token].at # "busy"
    <2>1. CASE x = r
      BY <1>1, <2>1
    <2>2. CASE x # r
      BY <1>1, <1>3, <2>2 DEF Exchanging, Exchanges
    <2>. QED BY <2>1, <2>2
  <1>. QED BY <1>2, <1>3, DrivenKept

\* Only requests that do not exchange anything change, or end.
LEMMA DrivenPut ==
  ASSUME Driven, NEW r \in Requests, \A x \in Requests \ {r} : req'[x] = req[x],
         Exchanging(r) => Exchanging(r)' /\ req'[r].token = req[r].token,
         \A t \in Token : flight'[t].at = "busy" => flight[t].at = "busy"
  PROVE  Driven'
  <1>1. \A x \in Requests : Exchanging(x) => Exchanging(x)' /\ req'[x].token = req[x].token
    BY DEF Exchanging
  <1>. QED BY <1>1, DrivenKept

LEMMA DrivenGoes ==
  ASSUME Typed, Driven, NEW r \in Requests, req[r] # Idle, NEW s \in Steps, Goes(r, s),
         Exchanging(r) => s \in {"get", "rotate", "save"},
         UNCHANGED flight
  PROVE  Driven'
  <1>1. /\ Alike(req'[r], req[r]) /\ req'[r].token = req[r].token /\ req'[r].at = s
        /\ \A x \in Requests \ {r} : req'[x] = req[x]
    BY GoesShape
  <1>. QED BY <1>1, DrivenPut DEF Exchanging, Exchanges, Alike

LEMMA DrivenStarts ==
  ASSUME Typed, Driven, NEW r \in Requests, NEW q, Starts(r, q), UNCHANGED flight
  PROVE  Driven'
  <1>1. req[r] = Idle /\ \A x \in Requests \ {r} : req'[x] = req[x]
    BY StartsShape
  <1>. QED BY <1>1, DrivenPut DEF Exchanging, Exchanges, Idle

LEMMA DrivenEnds ==
  ASSUME Typed, Driven, NEW r \in Requests, Ends(r), ~Exchanging(r), UNCHANGED flight
  PROVE  Driven'
  <1>1. req'[r] = Idle /\ \A x \in Requests \ {r} : req'[x] = req[x]
    BY EndsShape
  <1>. QED BY <1>1, DrivenPut

LEMMA UnknownInit == Init => Unknown /\ Driven
  BY DEF Init, Empty, Unknown, Secret, Driven, NoFlight

LEMMA UnknownStep == Typed /\ Own /\ Unknown /\ Driven /\ [Next]_vars => Unknown' /\ Driven'
  <1>. SUFFICES ASSUME Typed, Own, Unknown, Driven, [Next]_vars PROVE Unknown' /\ Driven'
    OBVIOUS
  <1>. USE DEF Redis
  <1>w. \A r \in Requests : req[r].at \in Steps =>
          req[r] # Idle /\ req[r] \in Req /\ Placed(req[r]) /\ Owned(req[r])
    BY AtWork
  <1>p. "revoke" \in Steps /\ "drop" \in Steps /\ "save" \in Steps /\ "index" \in Steps
        /\ "reply" \in Steps /\ "sent" \in Steps /\ "waiting" \in Steps /\ "get" \in Steps
        /\ "rotate" \in Steps /\ "out" \in Steps /\ "collect" \in Steps
    BY DEF Steps, Handling
  <1>1. ASSUME NEW r \in Requests, NEW d \in Devices, Login(r, d) PROVE Unknown' /\ Driven'
    BY <1>1, <1>p, UnknownStarts, DrivenStarts DEF Login
  <1>2. ASSUME NEW r \in Requests, NEW d \in Devices, OidcLogin(r, d) PROVE Unknown' /\ Driven'
    BY <1>2, <1>p, UnknownStarts, DrivenStarts DEF OidcLogin
  <1>3. ASSUME NEW r \in Requests, NEW d \in Devices, Register(r, d) PROVE Unknown' /\ Driven'
    BY <1>3, <1>p, UnknownStarts, DrivenStarts DEF Register
  <1>4. ASSUME NEW r \in Requests, NEW d \in Devices, Send(r, d) PROVE Unknown' /\ Driven'
    BY <1>4, <1>p, OpenTokens, UnknownStarts, DrivenStarts DEF Send
  <1>5. ASSUME NEW r \in Requests, NEW d \in Devices, RefreshTokens(r, d) PROVE Unknown' /\ Driven'
    BY <1>5, <1>p, UnknownStarts, DrivenStarts DEF RefreshTokens
  <1>6. ASSUME NEW r \in Requests, NEW d \in Devices, Logout(r, d) PROVE Unknown' /\ Driven'
    BY <1>6, <1>p, UnknownStarts, DrivenStarts DEF Logout
  <1>7. ASSUME NEW r \in Requests, ConfirmPasswordChange(r) PROVE Unknown' /\ Driven'
    <2>. DEFINE q == [New("collect", "password", "all", 0) EXCEPT !.todo = user_sessions]
    <2>1. q.at = "collect" /\ q.op = "password" /\ q.fresh = 0
      BY DEF New
    <2>2. Starts(r, q) /\ UNCHANGED <<flight, cookie>>
      BY <1>7 DEF ConfirmPasswordChange
    <2>. HIDE DEF q
    <2>3. req'[r] = q /\ \A x \in Requests \ {r} : req'[x] = req[x]
      BY <2>2, StartsShape
    <2>4. ~AtIndex(r)'
      BY <2>1, <2>3 DEF AtIndex
    <2>5. Unknown'
      BY <2>1, <2>2, <2>3, <2>4, OpenTokens, UnknownPut
    <2>. QED BY <2>2, <2>5, DrivenStarts
  <1>8. ASSUME NEW r \in Requests, GetOrStartRefresh(r) PROVE Unknown' /\ Driven'
    <2>. DEFINE t == req[r].token
    <2>1. req[r].at = "sent" /\ UNCHANGED cookie
      BY <1>8 DEF GetOrStartRefresh
    <2>2. req[r] # Idle /\ req[r] \in Req /\ Placed(req[r]) /\ Owned(req[r])
      BY <1>p, <1>w, <2>1
    <2>3. req[r].op = "query" /\ ~Exchanging(r)
      BY <2>1, <2>2 DEF Placed, Exchanging, Exchanges
    <2>4. t \in Token
      <3>1. t \in 1..Len(issued)
        BY <2>2, <2>3 DEF Typed, Numbered, InUse, Sound
      <3>. QED BY <3>1, LenIsANumber, BoundAssumption DEF Typed, TypeOK, Token
    <2>5. CASE Goes(r, "get") /\ flight' = [flight EXCEPT ![t].at = "busy"]
      <3>1. \A x \in Token : flight'[x].got = flight[x].got
        BY <2>4, <2>5 DEF Typed, TypeOK, Flight
      <3>2. Unknown'
        BY <1>p, <2>1, <2>2, <2>5, <3>1, UnknownGoes
      <3>3. /\ req'[r].at = "get" /\ req'[r].op = "query" /\ req'[r].token = t
            /\ \A x \in Requests \ {r} : req'[x] = req[x]
        BY <1>p, <2>2, <2>3, <2>5, GoesShape DEF Alike
      <3>4. Exchanging(r)'
        BY <3>3 DEF Exchanging, Exchanges
      <3>5. Driven'
        <4>. SUFFICES ASSUME NEW u \in Token, flight'[u].at = "busy"
                      PROVE  \E x \in Requests : Exchanging(x)' /\ req'[x].token = u
          BY DEF Driven
        <4>1. CASE u = t
          BY <3>3, <3>4, <4>1
        <4>2. CASE u # t
          <5>1. flight[u].at = "busy"
            BY <2>5, <4>2 DEF Typed, TypeOK
          <5>2. PICK x \in Requests : Exchanging(x) /\ req[x].token = u
            BY <5>1 DEF Driven
          <5>3. x # r /\ req'[x] = req[x]
            BY <2>3, <3>3, <5>2
          <5>. QED BY <5>2, <5>3 DEF Exchanging
        <4>. QED BY <4>1, <4>2
      <3>. QED BY <3>2, <3>5
    <2>6. CASE Goes(r, "waiting") /\ UNCHANGED flight
      BY <1>p, <2>1, <2>2, <2>3, <2>6, UnknownGoes, DrivenGoes
    <2>7. CASE /\ req' = [req EXCEPT ![r].at = "reply", ![r].fresh = flight[t].got]
               /\ UNCHANGED flight
      <3>. DEFINE q == [req[r] EXCEPT !.at = "reply", !.fresh = flight[t].got]
      <3>1. req'[r] = q /\ \A x \in Requests \ {r} : req'[x] = req[x]
        BY <2>2, <2>7 DEF Typed, TypeOK
      <3>2. q.at = "reply" /\ q.fresh = flight[t].got /\ q.op = "query" /\ q.token = t
        BY <2>2, <2>3 DEF Req
      <3>. HIDE DEF q
      <3>3. ~AtIndex(r)'
        BY <3>1, <3>2 DEF AtIndex
      <3>4. Unknown'
        BY <2>1, <2>2, <2>3, <2>4, <2>7, <3>1, <3>2, <3>3, OpenTokens, UnknownPut
      <3>. QED BY <2>3, <2>7, <3>1, <3>4, DrivenPut
    <2>. QED BY <1>8, <2>5, <2>6, <2>7 DEF GetOrStartRefresh
  <1>9. ASSUME NEW r \in Requests, Get(r) PROVE Unknown' /\ Driven'
    <2>1. req[r].at = "get" /\ UNCHANGED cookie
      BY <1>9 DEF Get
    <2>2. req[r] # Idle /\ req[r] \in Req
      BY <1>p, <1>w, <2>1
    <2>3. CASE Goes(r, "rotate") /\ UNCHANGED flight
      BY <1>p, <2>1, <2>2, <2>3, UnknownGoes, DrivenGoes
    <2>4. CASE req[r].op = "query" /\ Settle(r, 0, Idle)
      BY <2>1, <2>2, <2>4, UnknownSettled, DrivenSettled
    <2>5. CASE req[r].op # "query" /\ Ends(r) /\ UNCHANGED flight
      BY <2>1, <2>5, UnknownEnds, DrivenEnds DEF Exchanging, Exchanges
    <2>. QED BY <1>9, <2>3, <2>4, <2>5 DEF Get
  <1>10. ASSUME NEW r \in Requests, Rotate(r) PROVE Unknown' /\ Driven'
    BY <1>10, <1>p, <1>w, UnknownGoes, DrivenGoes DEF Rotate
  <1>11. ASSUME NEW r \in Requests, Revoke(r) PROVE Unknown' /\ Driven'
    <2>. DEFINE t == device_token[req[r].device]
                q == [req[r] EXCEPT !.token = t, !.at = IF t = 0 THEN "save" ELSE "drop"]
    <2>1. req[r].at = "revoke" /\ UNCHANGED <<cookie, flight>>
      BY <1>11 DEF Revoke
    <2>2. req[r] # Idle /\ req[r] \in Req /\ Placed(req[r])
      BY <1>p, <1>w, <2>1
    <2>3. req[r].op # "query"
      BY <2>1, <2>2 DEF Placed, Signins
    <2>4. req'[r] = q /\ \A x \in Requests \ {r} : req'[x] = req[x]
      BY <1>11, <2>2 DEF Revoke, Typed, TypeOK
    <2>5. q.at \in {"save", "drop"} /\ q.fresh = req[r].fresh /\ q.op = req[r].op
      BY <2>2 DEF Req
    <2>. HIDE DEF q, t
    <2>6. ~AtIndex(r)' /\ ~Exchanging(r)
      BY <2>3, <2>4, <2>5 DEF AtIndex, Exchanging, Exchanges
    <2>. QED BY <2>1, <2>2, <2>3, <2>4, <2>5, <2>6, OpenTokens, UnknownPut, DrivenPut
  <1>12. ASSUME NEW r \in Requests, Drop(r) PROVE Unknown' /\ Driven'
    <2>. DEFINE q == [req[r] EXCEPT !.at = "save", !.token = 0]
    <2>1. req[r].at = "drop" /\ UNCHANGED <<cookie, flight>>
      BY <1>12 DEF Drop
    <2>2. req[r] # Idle /\ req[r] \in Req /\ Placed(req[r])
      BY <1>p, <1>w, <2>1
    <2>3. req[r].op # "query"
      BY <2>1, <2>2 DEF Placed, Signins
    <2>4. CASE Ends(r)
      BY <2>1, <2>3, <2>4, UnknownEnds, DrivenEnds DEF Exchanging, Exchanges
    <2>5. CASE req' = [req EXCEPT ![r].at = "save", ![r].token = 0]
      <3>1. req'[r] = q /\ \A x \in Requests \ {r} : req'[x] = req[x]
        BY <2>2, <2>5 DEF Typed, TypeOK
      <3>2. q.at = "save" /\ q.fresh = req[r].fresh /\ q.op = req[r].op
        BY <2>2 DEF Req
      <3>. HIDE DEF q
      <3>3. ~AtIndex(r)' /\ ~Exchanging(r)
        BY <2>3, <3>1, <3>2 DEF AtIndex, Exchanging, Exchanges
      <3>. QED BY <2>1, <2>2, <2>3, <3>1, <3>2, <3>3, OpenTokens, UnknownPut, DrivenPut
    <2>. QED BY <1>12, <2>4, <2>5 DEF Drop, Dropped
  <1>13. ASSUME NEW r \in Requests, Save(r) PROVE Unknown' /\ Driven'
    <2>. DEFINE t == Len(issued) + 1
                q == [req[r] EXCEPT !.fresh = t, !.at = "index"]
    <2>1. req[r].at = "save" /\ UNCHANGED <<cookie, flight>>
      BY <1>13 DEF Save
    <2>2. req[r] # Idle /\ req[r] \in Req /\ Placed(req[r])
      BY <1>p, <1>w, <2>1
    <2>3. req'[r] = q /\ \A x \in Requests \ {r} : req'[x] = req[x]
      BY <1>13, <2>2 DEF Save, Typed, TypeOK
    <2>4. /\ q.at = "index" /\ q.fresh = t /\ q.op = req[r].op /\ q.token = req[r].token
          /\ q.caller = req[r].caller
      BY <2>2 DEF Req
    \* The number is greater than all in use.
    <2>5. /\ \A d \in Devices : cookie[d] # t
          /\ \A u \in Token : flight[u].got # t
          /\ \A x \in Requests : Lacks(req[x], t)
      <3>1. Len(issued) \in Nat
        BY LenIsANumber DEF Typed
      <3>2. \A d \in Devices : cookie[d] <= Len(issued) /\ cookie[d] \in Nat
        BY BoundAssumption DEF Typed, TypeOK, Numbered, Maybe
      <3>3. \A u \in Token : flight[u].got <= Len(issued) /\ flight[u].got \in Nat
        BY BoundAssumption DEF Typed, TypeOK, Numbered, Maybe, Flight
      <3>4. ASSUME NEW x \in Requests, req[x] # Idle
            PROVE  /\ req[x].fresh <= Len(issued) /\ req[x].fresh \in Nat
                   /\ req[x].op = "query" => req[x].token \in 1..Len(issued)
        <4>1. req[x] \in Req
          BY <3>4 DEF Typed, TypeOK
        <4>. QED BY <3>4, <4>1, BoundAssumption DEF Typed, Numbered, InUse, Sound, Req, Maybe
      <3>. QED BY <3>1, <3>2, <3>3, <3>4 DEF Lacks
    <2>. HIDE DEF q, t
    <2>6. Unknown'
      <3>. SUFFICES ASSUME NEW x \in Requests, AtIndex(x)'
                    PROVE  /\ \A d \in Devices : cookie[d] # req'[x].fresh
                           /\ \A u \in Token : flight[u].got # req'[x].fresh
                           /\ \A y \in Requests \ {x} : Lacks(req'[y], req'[x].fresh)
        BY <2>1 DEF Unknown, Secret, AtIndex, Lacks
      <3>1. CASE x = r
        BY <2>3, <2>4, <2>5, <3>1
      <3>2. CASE x # r
        <4>1. AtIndex(x) /\ req'[x] = req[x]
          BY <2>3, <3>2 DEF AtIndex
        <4>2. /\ \A d \in Devices : cookie[d] # req[x].fresh
              /\ \A u \in Token : flight[u].got # req[x].fresh
              /\ \A y \in Requests \ {x} : Lacks(req[y], req[x].fresh)
          BY <4>1 DEF Unknown, Secret, AtIndex
        <4>3. req[x].fresh # t
          BY <2>5, <4>1 DEF AtIndex, Lacks
        <4>. QED BY <2>2, <2>3, <2>4, <4>1, <4>2, <4>3 DEF Lacks
      <3>. QED BY <3>1, <3>2
    <2>7. Exchanging(r) => Exchanging(r)' /\ req'[r].token = req[r].token
      <3>1. req[r].caller = "waits"
        BY <2>1, <2>2 DEF Placed, Req
      <3>. QED BY <2>1, <2>2, <2>3, <2>4, <3>1 DEF Exchanging, Exchanges
    <2>. QED BY <2>1, <2>3, <2>6, <2>7, DrivenPut
  <1>14. ASSUME NEW r \in Requests, Index(r) PROVE Unknown' /\ Driven'
    <2>1. req[r].at = "index" /\ UNCHANGED cookie
      BY <1>14 DEF Index
    <2>2. req[r] # Idle /\ req[r] \in Req
      BY <1>p, <1>w, <2>1
    <2>3. CASE req[r].caller = "gone" /\ Ends(r) /\ UNCHANGED flight
      BY <2>1, <2>3, UnknownEnds, DrivenEnds DEF Exchanging, Exchanges
    <2>4. CASE req[r].op = "query" /\ Settle(r, req[r].fresh, [req[r] EXCEPT !.at = "reply"])
      <3>. DEFINE q == [req[r] EXCEPT !.at = "reply"]
      <3>1. q.at = "reply" /\ q.fresh = req[r].fresh /\ q.token = req[r].token
        BY <2>2 DEF Req
      <3>2. Settle(r, req[r].fresh, q)
        BY <2>4
      <3>. HIDE DEF q
      <3>3. req'[r] = q
        BY <3>2 DEF Settle
      <3>4. ~AtIndex(r)'
        BY <3>1, <3>3 DEF AtIndex
      <3>. QED BY <2>1, <2>2, <2>4, <3>1, <3>2, <3>4, UnknownSettled, DrivenSettled
    <2>5. CASE req[r].op # "query" /\ Goes(r, "reply") /\ UNCHANGED flight
      BY <1>p, <2>1, <2>2, <2>5, UnknownGoes, DrivenGoes DEF Exchanging, Exchanges
    <2>. QED BY <1>14, <2>3, <2>4, <2>5 DEF Index
  <1>15. ASSUME NEW r \in Requests, Answer(r) PROVE Unknown' /\ Driven'
    <2>1. req[r].at = "reply" /\ Ends(r) /\ UNCHANGED flight
      BY <1>15 DEF Answer
    <2>2. req[r] # Idle /\ ~Exchanging(r)
      BY <1>p, <1>w, <2>1 DEF Exchanging, Exchanges
    <2>3. \A d \in Devices : cookie'[d] = cookie[d] \/ cookie'[d] = req[r].fresh
      BY <1>15 DEF Answer, Typed, TypeOK
    <2>4. Open(req[r].fresh, r)
      BY <2>2, OpenTokens
    <2>5. \A d \in Devices : cookie'[d] = cookie[d] \/ Open(cookie'[d], r)
      BY <2>3, <2>4
    <2>. QED BY <2>1, <2>2, <2>5, UnknownEnds, DrivenEnds
  <1>16. ASSUME NEW r \in Requests, Out(r) PROVE Unknown' /\ Driven'
    BY <1>16, UnknownEnds, DrivenEnds DEF Out, Exchanging, Exchanges
  <1>17. ASSUME NEW r \in Requests, Collect(r) PROVE Unknown' /\ Driven'
    <2>1. req[r].at = "collect" /\ UNCHANGED <<cookie, flight>>
      BY <1>17 DEF Collect
    <2>2. req[r] # Idle /\ req[r] \in Req /\ Placed(req[r])
      BY <1>p, <1>w, <2>1
    <2>3. /\ req'[r].at = "collect" /\ req'[r].fresh = req[r].fresh /\ req'[r].op = req[r].op
          /\ \A x \in Requests \ {r} : req'[x] = req[x]
      BY <1>17, <2>2 DEF Collect, Req, Typed, TypeOK
    <2>4. req[r].op # "query" /\ ~Exchanging(r) /\ ~AtIndex(r)'
      BY <2>1, <2>2, <2>3 DEF Placed, Exchanging, Exchanges, AtIndex
    <2>. QED BY <2>1, <2>2, <2>3, <2>4, OpenTokens, UnknownPut, DrivenPut
  <1>18. ASSUME NEW r \in Requests, Purge(r) PROVE Unknown' /\ Driven'
    BY <1>18, UnknownEnds, DrivenEnds DEF Purge, Exchanging, Exchanges
  <1>19. ASSUME NEW r \in Requests, Throw(r) PROVE Unknown' /\ Driven'
    <2>1. req[r] # Idle /\ req[r] \in Req /\ Placed(req[r])
      BY <1>19, <1>w DEF Throw, Steps
    <2>2. CASE req[r].op = "query" /\ Settle(r, 0, Idle)
      BY <1>19, <2>1, <2>2, UnknownSettled, DrivenSettled DEF Throw
    <2>3. CASE ~(req[r].op = "query" /\ req[r].caller = "waits") /\ Ends(r) /\ UNCHANGED flight
      <3>1. ~Exchanging(r)
        BY <2>1, <2>3 DEF Exchanging, Exchanges, Placed, Req
      <3>. QED BY <1>19, <2>3, <3>1, UnknownEnds, DrivenEnds DEF Throw
    <2>. QED BY <1>19, <2>2, <2>3 DEF Throw
  <1>20. ASSUME NEW r \in Requests, TimesOut(r) PROVE Unknown' /\ Driven'
    <2>. DEFINE q == [req[r] EXCEPT !.caller = "gone"]
    <2>1. req[r].at \in {"drop", "index", "collect"} /\ UNCHANGED cookie
      BY <1>20 DEF TimesOut
    <2>2. req[r] # Idle /\ req[r] \in Req /\ Placed(req[r])
      BY <1>p, <1>w, <2>1
    <2>3. q.at = req[r].at /\ q.fresh = req[r].fresh /\ q.op = req[r].op /\ q.token = req[r].token
      BY <2>2 DEF Req
    <2>4. CASE req[r].op = "query" /\ Settle(r, 0, q)
      <3>. HIDE DEF q
      <3>. QED BY <2>1, <2>2, <2>3, <2>4, UnknownSettled, DrivenSettled DEF AtIndex
    <2>5. CASE req[r].op # "query" /\ req' = [req EXCEPT ![r] = q] /\ UNCHANGED flight
      <3>1. req'[r] = q /\ \A x \in Requests \ {r} : req'[x] = req[x]
        BY <2>5 DEF Typed, TypeOK
      <3>. HIDE DEF q
      <3>2. ~Exchanging(r) /\ (AtIndex(r)' => AtIndex(r))
        BY <2>2, <2>3, <2>5, <3>1 DEF Exchanging, Exchanges, AtIndex
      <3>. QED BY <2>1, <2>2, <2>3, <2>5, <3>1, <3>2, OpenTokens, UnknownPut, DrivenPut
    <2>. QED BY <1>20, <2>4, <2>5 DEF TimesOut
  <1>21. ASSUME NEW r \in Requests, LoseAnswer(r) PROVE Unknown' /\ Driven'
    BY <1>21, UnknownEnds, DrivenEnds DEF LoseAnswer, Exchanging, Exchanges
  <1>22. ASSUME NEW t \in Token, Forget(t) PROVE Unknown' /\ Driven'
    <2>1. \A x \in Token : flight'[x] = flight[x] \/ flight'[x] = NoFlight
      BY <1>22 DEF Forget, Typed, TypeOK
    <2>2. UNCHANGED <<req, cookie>> /\ Unknown'
      <3>1. \A x \in Requests : AtIndex(x) => req[x].fresh # 0
        BY DEF AtIndex, Own, Rooted, Placed
      <3>. QED BY <1>22, <2>1, <3>1 DEF Forget, Unknown, Secret, AtIndex, Lacks, NoFlight
    <2>. QED BY <2>1, <2>2, DrivenKept DEF NoFlight, Exchanging
  <1>23. ASSUME NEW d \in Devices, TokenLapses(d) PROVE Unknown' /\ Driven'
    BY <1>23 DEF TokenLapses, Unknown, Secret, Lacks, Driven, Exchanging
  <1>24. CASE SessionsLapse
    BY <1>24 DEF SessionsLapse, Unknown, Secret, Lacks, Driven, Exchanging
  <1>25. CASE UNCHANGED vars
    BY <1>25 DEF vars, Unknown, Secret, Lacks, Driven, Exchanging
  <1>. QED
    BY <1>1, <1>2, <1>3, <1>4, <1>5, <1>6, <1>7, <1>8, <1>9, <1>10, <1>11, <1>12, <1>13,
       <1>14, <1>15, <1>16, <1>17, <1>18, <1>19, <1>20, <1>21, <1>22, <1>23, <1>24, <1>25
    DEF Next, Handles, Calling

LEMMA WholeStep == Whole /\ [Next]_vars => Whole'
  BY TypedStep, OnceStep, OwnStep, UnknownStep DEF Whole

-------------------------------------------------------------------------------
(* A device on which nothing was disturbed.                                  *)

About(r, d) == req[r] # Idle /\ Concerns(r, d)
Of(r, d)    == req[r] # Idle /\ req[r].op # "password" /\ req[r].device = d
Past(r, d)  == Of(r, d) /\ req[r].at \in {"rotate", "save", "index"}
Held(d)     == \E r \in Requests : About(r, d) /\ req[r].op # "query"

\* Its requests do not overlap, but for queries, of which one gets past the look
\* at the token.
Apart(d) ==
  /\ \A q, r \in Requests :
       Busy(q) /\ Busy(r) /\ Concerns(q, d) /\ Concerns(r, d) /\ q # r
         => req[q].op = "query" /\ req[r].op = "query"
  /\ \A r \in Requests : Busy(r) /\ Concerns(r, d) => req[r].caller = "waits"
  /\ \A q, r \in Requests : Past(q, d) /\ Past(r, d) => q = r

\* What a request q says of the tokens L of its device that work.
Fits(q, L) ==
  /\ q.at \in {"drop", "rotate", "out"} => L \subseteq {q.token}
  /\ q.at = "save" => L = {}
  /\ q.at = "index" => L = {q.fresh}
  /\ q.at = "reply" /\ q.op # "query" => q.fresh \in L
Tidy(d) ==
  /\ \A r \in Requests : Of(r, d) => Fits(req[r], LiveOf(d))
  /\ (\A r \in Requests : ~(Of(r, d) /\ req[r].at = "index")) => LiveOf(d) \subseteq {device_token[d]}
  /\ \A r \in Requests : req[r] # Idle /\ req[r].op = "password" /\ d \in req[r].seen
                           => LiveOf(d) \subseteq req[r].found

\* The token that works is the last one issued, and was never exchanged.
Newest(d) == \A t \in LiveOf(d) : /\ \A i \in DOMAIN issued : issued[i].device = d => i <= t
                                  /\ flight[t].at # "done"

\* An ended session stays ended: nothing is under way that would start another.
Dead(d) ==
  history[d] = "ended" =>
    /\ LiveOf(d) = {} /\ d \notin user_sessions
    /\ \A r \in Requests : Of(r, d) => req[r].at \notin {"revoke", "drop", "rotate", "save"}

\* No refresh is refused.
Fed(d) ==
  /\ history[d] # "refused"
  /\ history[d] = "clean" => \A r \in Requests : Of(r, d) /\ req[r].at = "get"
                                                   => req[r].token \in LiveOf(d)

\* The cookie works, or leads to the one that does, while only queries are under way.
Rides(t, d)   == t \in LiveOf(d) \/ flight[t].at # "none"
Reached(t, d) == t \in LiveOf(d) \/ t <= cookie[d]
Awaited(r, d) == /\ Of(r, d) /\ req[r].at = "reply"
                 /\ req[r].token = cookie[d] /\ req[r].fresh # 0
Caught(d) ==
  history[d] = "clean" /\ ~Held(d) =>
    /\ cookie[d] # 0 => Rides(cookie[d], d)
    /\ \A r \in Requests : Of(r, d) =>
         /\ req[r].at = "sent" => Rides(req[r].token, d)
         /\ req[r].at # "reply" => req[r].token <= cookie[d]
         /\ req[r].at = "reply" => Reached(req[r].fresh, d)
    /\ \A t \in DOMAIN issued : issued[t].device = d => Reached(flight[t].got, d)
    /\ cookie[d] # 0 /\ cookie[d] \notin LiveOf(d) /\ flight[cookie[d]].at = "done"
         => \E r \in Requests : Awaited(r, d)

Good(d) == history[d] # "disturbed" =>
             Apart(d) /\ Tidy(d) /\ Newest(d) /\ Dead(d) /\ Fed(d) /\ Caught(d)

\* A step that has nothing to do with the device d.
Untouched(d) ==
  /\ LiveOf(d)' = LiveOf(d)
  /\ device_token'[d] = device_token[d] /\ cookie'[d] = cookie[d] /\ history'[d] = history[d]
  /\ d \in user_sessions' => d \in user_sessions
  /\ \A i \in DOMAIN issued' : issued'[i].device = d =>
       i \in DOMAIN issued /\ issued[i].device = d /\ flight'[i] = flight[i]
  /\ \A q \in Requests : req'[q] = req[q] \/ (~About(q, d) /\ ~About(q, d)')

LEMMA Elsewhere ==
  ASSUME Whole, Whole', NEW d \in Devices, Good(d), Untouched(d)
  PROVE  Good(d)'
  <1>. SUFFICES ASSUME history'[d] # "disturbed" PROVE Good(d)'
    BY DEF Good
  <1>0. Apart(d) /\ Tidy(d) /\ Newest(d) /\ Dead(d) /\ Fed(d) /\ Caught(d)
    BY DEF Good, Untouched
  <1>1. \A q \in Requests : About(q, d)' => About(q, d) /\ req'[q] = req[q]
    BY DEF Untouched, About, Concerns
  <1>2. \A q \in Requests : About(q, d) => About(q, d)' /\ req'[q] = req[q]
    BY DEF Untouched, About, Concerns
  <1>3. \A q \in Requests : Busy(q)' /\ Concerns(q, d)' => Busy(q) /\ Concerns(q, d) /\ req'[q] = req[q]
    BY <1>1 DEF About, Busy, Concerns
  <1>4. \A q \in Requests : Of(q, d)' => Of(q, d) /\ req'[q] = req[q]
    BY <1>1 DEF About, Of, Concerns
  <1>5. \A q \in Requests : Of(q, d) => Of(q, d)' /\ req'[q] = req[q]
    BY <1>2 DEF About, Of, Concerns
  <1>6. /\ LiveOf(d)' = LiveOf(d)
        /\ device_token'[d] = device_token[d] /\ cookie'[d] = cookie[d] /\ history'[d] = history[d]
        /\ d \in user_sessions' => d \in user_sessions
    BY DEF Untouched
  <1>7. \A i \in DOMAIN issued' : issued'[i].device = d =>
           i \in DOMAIN issued /\ issued[i].device = d /\ flight'[i] = flight[i]
    BY DEF Untouched
  <1>8. Apart(d)'
    BY <1>0, <1>3, <1>4 DEF Apart, Past
  <1>9. Tidy(d)'
    <2>1. \A r \in Requests : Of(r, d)' => Fits(req'[r], LiveOf(d)')
      BY <1>0, <1>4, <1>6 DEF Tidy
    <2>2. (\A r \in Requests : ~(Of(r, d)' /\ req'[r].at = "index"))
             => LiveOf(d)' \subseteq {device_token'[d]}
      BY <1>0, <1>5, <1>6 DEF Tidy
    <2>3. ASSUME NEW r \in Requests, req'[r] # Idle, req'[r].op = "password", d \in req'[r].seen
          PROVE  LiveOf(d)' \subseteq req'[r].found
      <3>1. About(r, d)'
        BY <2>3 DEF About, Concerns
      <3>2. req'[r] = req[r]
        BY <1>1, <3>1
      <3>. QED BY <1>0, <1>6, <2>3, <3>2 DEF Tidy
    <2>. QED BY <2>1, <2>2, <2>3 DEF Tidy, Fits
  <1>10. Newest(d)'
    <2>. SUFFICES ASSUME NEW t \in LiveOf(d)'
                  PROVE  /\ \A i \in DOMAIN issued' : issued'[i].device = d => i <= t
                         /\ flight'[t].at # "done"
      BY DEF Newest
    <2>1. t \in LiveOf(d) /\ t \in DOMAIN issued' /\ issued'[t].device = d
      BY <1>6 DEF LiveOf, Whole, Typed, TypeOK
    <2>. QED BY <1>0, <1>7, <2>1 DEF Newest
  <1>11. Dead(d)'
    BY <1>0, <1>4, <1>6 DEF Dead
  <1>12. Fed(d)'
    BY <1>0, <1>4, <1>6 DEF Fed
  <1>13. Caught(d)'
    <2>. SUFFICES ASSUME history'[d] = "clean", ~Held(d)' PROVE Caught(d)'
      BY DEF Caught
    <2>1. ~Held(d) /\ history[d] = "clean"
      BY <1>2, <1>6 DEF Held
    <2>2. \A t : Holds(t, d)' /\ t # 0 => flight'[t] = flight[t]
      BY <1>7 DEF Holds
    <2>3. cookie'[d] # 0 => flight'[cookie'[d]] = flight[cookie[d]]
      BY <1>6, <2>2 DEF Whole, Own
    <2>4. ASSUME NEW r \in Requests, Of(r, d)', req'[r].at = "sent"
          PROVE  flight'[req'[r].token] = flight[req[r].token]
      <3>1. req'[r] = req[r] /\ Of(r, d)
        BY <1>4, <2>4
      <3>2. Holds(req[r].token, d)'
        BY <2>4, <3>1 DEF Whole, Own, Rooted, Owned, Of
      <3>3. req[r].token # 0
        <4>1. req[r].op = "query" /\ req[r] # Idle
          BY <2>4, <3>1 DEF Whole, Own, Rooted, Placed, Of
        <4>. QED BY <4>1 DEF Whole, Typed, Numbered, InUse, Sound
      <3>. QED BY <2>2, <3>1, <3>2, <3>3
    <2>5. \A t, u : (u = t /\ flight'[u] = flight[t]) => (Rides(t, d) => Rides(u, d)')
      BY <1>6 DEF Rides
    <2>6. \A t : Reached(t, d)' <=> Reached(t, d)
      BY <1>6 DEF Reached
    <2>7. \A r \in Requests : Awaited(r, d) => Awaited(r, d)'
      BY <1>5, <1>6 DEF Awaited
    <2>8. cookie'[d] # 0 => Rides(cookie[d], d)'
      BY <1>0, <1>6, <2>1, <2>3 DEF Caught, Rides
    <2>9. ASSUME NEW r \in Requests, Of(r, d)'
          PROVE  /\ req'[r].at = "sent" => Rides(req[r].token, d)'
                 /\ req'[r].at # "reply" => req'[r].token <= cookie'[d]
                 /\ req'[r].at = "reply" => Reached(req[r].fresh, d)'
      BY <1>0, <1>4, <1>6, <2>1, <2>4, <2>9 DEF Caught, Rides, Reached
    <2>10. \A t \in DOMAIN issued' : issued'[t].device = d => Reached(flight[t].got, d)'
      BY <1>0, <1>6, <1>7, <2>1 DEF Caught, Reached
    <2>11. cookie'[d] # 0 /\ cookie'[d] \notin LiveOf(d)' /\ flight'[cookie'[d]].at = "done"
             => \E r \in Requests : Awaited(r, d)'
      BY <1>0, <1>6, <2>1, <2>3, <2>7 DEF Caught
    <2>. QED BY <2>8, <2>9, <2>10, <2>11 DEF Caught
  <1>. QED BY <1>8, <1>9, <1>10, <1>11, <1>12, <1>13 DEF Good

LEMMA FateOf ==
  ASSUME NEW h, NEW f
  PROVE  /\ Becomes(h, f) # "disturbed" => h # "disturbed" /\ f # "disturbed"
         /\ Becomes(h, f) = "clean" => f = "clean"
         /\ Becomes(h, f) = "ended" => f = "ended" \/ h = "ended"
         /\ Becomes(h, f) = "refused" => h = "refused" \/ (h = "clean" /\ f = "refused")
  BY DEF Becomes, Over

LEMMA MarkShape ==
  ASSUME NEW D, NEW f, Mark(D, f), NEW d \in Devices
  PROVE  history'[d] = IF d \in D THEN Becomes(history[d], f) ELSE history[d]
  BY DEF Mark

\* Beside a request that is no query there are only answers to queries.
LEMMA Lone ==
  ASSUME NEW d, Apart(d), NEW r \in Requests, Busy(r), Concerns(r, d), req[r].op # "query",
         NEW q \in Requests \ {r}, About(q, d)
  PROVE  req[q].op = "query" /\ req[q].at = "reply"
  BY DEF Apart, About, Busy

-------------------------------------------------------------------------------
(* Each kind of step, on such a device.                                      *)

\* A request of the device begins.
LEMMA Begins ==
  ASSUME NEW d, Apart(d), Tidy(d), Newest(d),
         NEW r \in Requests, req[r] = Idle, \A x \in Requests \ {r} : req'[x] = req[x],
         req'[r] # Idle, req'[r].caller = "waits", req'[r].seen = {},
         req'[r].at # "index", Of(r, d)' => Fits(req'[r], LiveOf(d)),
         Past(r, d)' => \A x \in Requests : req[x] = Idle,
         \A x \in Requests : Busy(x) /\ Concerns(x, d) => req'[r].op = "query" /\ req[x].op = "query",
         UNCHANGED <<issued, live, device_token, flight>>
  PROVE  Apart(d)' /\ Tidy(d)' /\ Newest(d)'
  <1>1. \A x \in Requests \ {r} : /\ Busy(x)' /\ Concerns(x, d)' => Busy(x) /\ Concerns(x, d)
                                  /\ Of(x, d)' <=> Of(x, d)
                                  /\ Past(x, d)' <=> Past(x, d)
    BY DEF Busy, Concerns, Of, Past
  <1>2. LiveOf(d)' = LiveOf(d)
    BY DEF LiveOf
  <1>3. Apart(d)'
    <2>1. ASSUME NEW q \in Requests, NEW x \in Requests, Busy(q)', Busy(x)',
                 Concerns(q, d)', Concerns(x, d)', q # x
          PROVE  req'[q].op = "query" /\ req'[x].op = "query"
      BY <1>1, <2>1 DEF Apart
    <2>2. \A x \in Requests : Busy(x)' /\ Concerns(x, d)' => req'[x].caller = "waits"
      BY <1>1 DEF Apart
    <2>3. \A q, x \in Requests : Past(q, d)' /\ Past(x, d)' => q = x
      <3>1. \A x \in Requests : Past(x, d) => req[x] # Idle
        BY DEF Past, Of
      <3>. QED BY <1>1, <3>1 DEF Apart
    <2>. QED BY <2>1, <2>2, <2>3 DEF Apart
  <1>4. Tidy(d)'
    <2>1. \A x \in Requests : Of(x, d)' => Fits(req'[x], LiveOf(d)')
      BY <1>1, <1>2 DEF Tidy
    <2>2. (\A x \in Requests : ~(Of(x, d)' /\ req'[x].at = "index"))
             => LiveOf(d)' \subseteq {device_token'[d]}
      <3>1. ~Of(r, d)
        BY DEF Of
      <3>. QED BY <1>1, <1>2, <3>1 DEF Tidy
    <2>3. \A x \in Requests : req'[x] # Idle /\ req'[x].op = "password" /\ d \in req'[x].seen
            => LiveOf(d)' \subseteq req'[x].found
      BY <1>2 DEF Tidy
    <2>. QED BY <2>1, <2>2, <2>3 DEF Tidy, Fits
  <1>5. Newest(d)'
    BY <1>2 DEF Newest
  <1>. QED BY <1>3, <1>4, <1>5

LEMMA NoClash ==
  ASSUME NEW op, NEW e, NEW d \in Devices, op = "password" \/ d = e, d \notin Clashes(op, e)
  PROVE  \A x \in Requests : Busy(x) /\ Concerns(x, d) => op = "query" /\ req[x].op = "query"
  BY DEF Clashes

\* A request that begins elsewhere.
LEMMA BeginsElsewhere ==
  ASSUME Whole, Whole', NEW d \in Devices, Good(d), NEW e, e # d,
         NEW r \in Requests, req[r] = Idle, \A x \in Requests \ {r} : req'[x] = req[x],
         req'[r].op # "password", req'[r].device = e, history'[d] = history[d],
         d \in user_sessions' => d \in user_sessions,
         UNCHANGED <<issued, live, device_token, flight, cookie>>
  PROVE  Good(d)'
  <1>1. Untouched(d)
    BY DEF Untouched, LiveOf, About, Concerns
  <1>. QED BY <1>1, Elsewhere

LEMMA SignsIn ==
  ASSUME Whole, Whole', NEW d \in Devices, Good(d), NEW e \in Devices, NEW r \in Requests,
         NEW at \in {"revoke", "save"}, NEW op \in Signins, Starts(r, New(at, op, e, 0)),
         MarkSignIn(op, e),
         at = "save" => issued = << >> /\ \A q \in Requests : req[q] = Idle,
         user_sessions' \subseteq user_sessions \cup {e},
         UNCHANGED <<issued, live, device_token, flight, cookie>>
  PROVE  Good(d)'
  <1>. DEFINE q == New(at, op, e, 0)
  <1>1. at \in Steps /\ op # "query" /\ op # "password"
    BY DEF Steps, Handling, Signins
  <1>2. req[r] = Idle /\ req'[r] = q /\ \A x \in Requests \ {r} : req'[x] = req[x]
    BY StartsShape DEF Whole
  <1>3. /\ q # Idle /\ q.at = at /\ q.op = op /\ q.device = e /\ q.token = 0
        /\ q.fresh = 0 /\ q.seen = {} /\ q.caller = "waits"
    BY <1>1, NewShape
  <1>. HIDE DEF q
  <1>4. history'[d] = IF d # e THEN history[d]
                      ELSE Becomes(history[d], IF Clashes(op, e) = {} THEN "clean" ELSE "disturbed")
    BY MarkShape DEF MarkSignIn
  <1>5. CASE d # e
    BY <1>1, <1>2, <1>3, <1>4, <1>5, BeginsElsewhere
  <1>6. CASE d = e
    <2>. SUFFICES ASSUME history'[d] # "disturbed" PROVE Good(d)'
      BY DEF Good
    <2>1. history[d] # "disturbed" /\ Clashes(op, e) = {} /\ history'[d] = "clean"
      BY <1>4, <1>6, FateOf DEF Becomes
    <2>2. \A x \in Requests : ~(Busy(x) /\ Concerns(x, d))
      BY <1>1, <1>6, <2>1, NoClash
    <2>3. Fits(q, LiveOf(d))
      <3>1. at = "save" => LiveOf(d) = {}
        BY DEF LiveOf, Whole, Typed, TypeOK
      <3>. QED BY <1>3, <3>1 DEF Fits
    <2>4. Past(r, d)' => \A x \in Requests : req[x] = Idle
      BY <1>2, <1>3 DEF Past
    <2>5. Apart(d)' /\ Tidy(d)' /\ Newest(d)'
      BY <1>2, <1>3, <2>1, <2>2, <2>3, <2>4, Begins DEF Good
    <2>6. Dead(d)'
      BY <2>1 DEF Dead
    <2>7. Fed(d)'
      <3>. SUFFICES ASSUME NEW x \in Requests, Of(x, d)', req'[x].at = "get" PROVE FALSE
        BY <2>1 DEF Fed
      <3>1. x # r
        BY <1>2, <1>3
      <3>2. Busy(x) /\ Concerns(x, d)
        BY <1>2, <3>1 DEF Of, Busy, Concerns
      <3>. QED BY <2>2, <3>2
    <2>8. Caught(d)'
      <3>1. Held(d)'
        BY <1>1, <1>2, <1>3, <1>6 DEF Held, About, Concerns
      <3>. QED BY <3>1 DEF Caught
    <2>. QED BY <2>5, <2>6, <2>7, <2>8 DEF Good
  <1>. QED BY <1>5, <1>6

\* A call, not a sign-in, of the device e, or of all for a password change: at is
\* where it starts, t its token.
LEMMA BeginsGood ==
  ASSUME Whole, Whole', NEW d \in Devices, Good(d), NEW r \in Requests, NEW e, NEW op,
         req[r] = Idle, \A x \in Requests \ {r} : req'[x] = req[x],
         req'[r] # Idle, req'[r].caller = "waits", req'[r].seen = {},
         req'[r].op = op, req'[r].device = e, op = "password" \/ d = e,
         op \in {"query", "refresh", "logout", "password"},
         req'[r].at \in {"sent", "get", "out", "collect"},
         req'[r].at = "sent" <=> op = "query",
         req'[r].at = "get" => req'[r].token \in LiveOf(d),
         req'[r].at = "out" => req'[r].token \in LiveOf(d),
         req'[r].at = "sent" => req'[r].token = cookie[d] /\ cookie[d] # 0,
         Mark(Clashes(op, e), "disturbed"),
         UNCHANGED <<issued, live, device_token, user_sessions, flight, cookie>>
  PROVE  Good(d)'
  <1>. SUFFICES ASSUME history'[d] # "disturbed" PROVE Good(d)'
    BY DEF Good
  <1>1. d \notin Clashes(op, e) /\ history'[d] = history[d]
    BY MarkShape, FateOf
  <1>2. \A x \in Requests : Busy(x) /\ Concerns(x, d) => op = "query" /\ req[x].op = "query"
    BY <1>1, NoClash
  <1>3. Apart(d) /\ Tidy(d) /\ Newest(d) /\ Dead(d) /\ Fed(d) /\ Caught(d)
    BY <1>1 DEF Good
  <1>4. LiveOf(d)' = LiveOf(d)
    BY DEF LiveOf
  <1>5. Of(r, d)' => Fits(req'[r], LiveOf(d))
    <2>1. req'[r].at = "out" => LiveOf(d) \subseteq {req'[r].token}
      <3>. SUFFICES ASSUME req'[r].at = "out" PROVE LiveOf(d) \subseteq {req'[r].token}
        OBVIOUS
      <3>1. \A x \in Requests : ~(Of(x, d) /\ req[x].at = "index")
        BY <1>2 DEF Of, Busy, Concerns
      <3>. QED BY <1>3, <3>1 DEF Tidy
    <2>. QED BY <2>1 DEF Fits
  <1>6. ~Past(r, d)'
    BY DEF Past
  <1>7. Apart(d)' /\ Tidy(d)' /\ Newest(d)'
    BY <1>2, <1>3, <1>5, <1>6, Begins
  <1>8. \A x \in Requests : x # r => (Of(x, d)' <=> Of(x, d))
    BY DEF Of
  <1>9. Dead(d)'
    BY <1>1, <1>3, <1>4, <1>8 DEF Dead
  <1>10. Fed(d)'
    BY <1>1, <1>3, <1>4, <1>8 DEF Fed
  <1>11. Caught(d)'
    <2>. SUFFICES ASSUME history'[d] = "clean", ~Held(d)' PROVE Caught(d)'
      BY DEF Caught
    <2>1. op = "query" /\ ~Held(d)
      <3>1. op = "query"
        BY DEF Held, About, Concerns
      <3>2. \A x \in Requests : About(x, d) => x # r /\ About(x, d)' /\ req'[x] = req[x]
        BY DEF About, Concerns
      <3>. QED BY <3>1, <3>2 DEF Held
    <2>2. \A t : (Rides(t, d)' <=> Rides(t, d)) /\ (Reached(t, d)' <=> Reached(t, d))
      BY <1>4 DEF Rides, Reached
    <2>3. \A x \in Requests : Awaited(x, d) => Awaited(x, d)'
      BY DEF Awaited, Of
    <2>4. cookie'[d] # 0 => Rides(cookie[d], d)'
      BY <1>1, <1>3, <1>4, <2>1 DEF Caught, Rides
    <2>5. cookie[d] <= cookie[d]
      BY BoundAssumption DEF Whole, Typed, TypeOK, Maybe
    <2>6. ASSUME NEW x \in Requests, Of(x, d)'
          PROVE  /\ req'[x].at = "sent" => Rides(req[x].token, d)'
                 /\ req'[x].at # "reply" => req'[x].token <= cookie'[d]
                 /\ req'[x].at = "reply" => Reached(req[x].fresh, d)'
      <3>1. CASE x = r
        BY <1>1, <1>3, <1>4, <2>1, <2>4, <2>5, <3>1 DEF Rides
      <3>2. CASE x # r
        <4>1. req'[x] = req[x] /\ Of(x, d)
          BY <1>8, <2>6, <3>2
        <4>. QED BY <1>1, <1>3, <1>4, <2>1, <4>1 DEF Caught, Rides, Reached
      <3>. QED BY <3>1, <3>2
    <2>7. \A t \in DOMAIN issued' : issued'[t].device = d => Reached(flight[t].got, d)'
      BY <1>1, <1>3, <1>4, <2>1 DEF Caught, Reached
    <2>8. cookie'[d] # 0 /\ cookie'[d] \notin LiveOf(d)' /\ flight'[cookie'[d]].at = "done"
             => \E x \in Requests : Awaited(x, d)'
      BY <1>1, <1>3, <1>4, <2>1, <2>3 DEF Caught
    <2>. QED BY <2>4, <2>6, <2>7, <2>8 DEF Caught
  <1>. QED BY <1>7, <1>9, <1>10, <1>11 DEF Good

LEMMA CallsGood ==
  ASSUME Whole, Whole', NEW d \in Devices, Good(d), NEW e \in Devices, NEW r \in Requests,
         Calling(r, e)
  PROVE  Good(d)'
  <1>. USE DEF Redis
  <1>0. "sent" \in Steps /\ "get" \in Steps /\ "out" \in Steps
    BY DEF Steps, Handling
  <1>c. ASSUME NEW op, op # "password", Mark(Clashes(op, e), "disturbed"), d # e
        PROVE  history'[d] = history[d]
    BY <1>c, MarkShape DEF Clashes
  <1>1. CASE Login(r, e)
    BY <1>1, SignsIn DEF Login, Signins
  <1>2. CASE OidcLogin(r, e)
    BY <1>2, SignsIn DEF OidcLogin, Signins
  <1>3. CASE Register(r, e)
    BY <1>3, SignsIn DEF Register, Signins
  <1>4. CASE Send(r, e)
    <2>. DEFINE q == New("sent", "query", e, cookie[e])
    <2>1. req[r] = Idle /\ req'[r] = q /\ \A x \in Requests \ {r} : req'[x] = req[x]
      BY <1>4, StartsShape DEF Send, Whole
    <2>2. /\ q # Idle /\ q.at = "sent" /\ q.op = "query" /\ q.device = e /\ q.token = cookie[e]
          /\ q.fresh = 0 /\ q.seen = {} /\ q.caller = "waits"
      BY <1>0, NewShape
    <2>. HIDE DEF q
    <2>3. CASE d = e
      BY <1>4, <2>1, <2>2, <2>3, BeginsGood DEF Send
    <2>4. CASE d # e
      BY <1>4, <1>c, <2>1, <2>2, <2>4, BeginsElsewhere DEF Send
    <2>. QED BY <2>3, <2>4
  <1>5. CASE RefreshTokens(r, e)
    <2>0. PICK t \in LiveOf(e) : Starts(r, New("get", "refresh", e, t))
      BY <1>5 DEF RefreshTokens
    <2>. DEFINE q == New("get", "refresh", e, t)
    <2>1. req[r] = Idle /\ req'[r] = q /\ \A x \in Requests \ {r} : req'[x] = req[x]
      BY <2>0, StartsShape DEF Whole
    <2>2. /\ q # Idle /\ q.at = "get" /\ q.op = "refresh" /\ q.device = e /\ q.token = t
          /\ q.fresh = 0 /\ q.seen = {} /\ q.caller = "waits"
      BY <1>0, NewShape
    <2>. HIDE DEF q
    <2>3. CASE d = e
      BY <1>5, <2>0, <2>1, <2>2, <2>3, BeginsGood DEF RefreshTokens
    <2>4. CASE d # e
      BY <1>5, <1>c, <2>1, <2>2, <2>4, BeginsElsewhere DEF RefreshTokens
    <2>. QED BY <2>3, <2>4
  <1>6. CASE Logout(r, e)
    <2>0. PICK t \in LiveOf(e) : Starts(r, New("out", "logout", e, t))
      BY <1>6 DEF Logout
    <2>. DEFINE q == New("out", "logout", e, t)
    <2>1. req[r] = Idle /\ req'[r] = q /\ \A x \in Requests \ {r} : req'[x] = req[x]
      BY <2>0, StartsShape DEF Whole
    <2>2. /\ q # Idle /\ q.at = "out" /\ q.op = "logout" /\ q.device = e /\ q.token = t
          /\ q.fresh = 0 /\ q.seen = {} /\ q.caller = "waits"
      BY <1>0, NewShape
    <2>. HIDE DEF q
    <2>3. CASE d = e
      BY <1>6, <2>0, <2>1, <2>2, <2>3, BeginsGood DEF Logout
    <2>4. CASE d # e
      BY <1>6, <1>c, <2>1, <2>2, <2>4, BeginsElsewhere DEF Logout
    <2>. QED BY <2>3, <2>4
  <1>. QED BY <1>1, <1>2, <1>3, <1>4, <1>5, <1>6 DEF Calling

LEMMA PasswordGood ==
  ASSUME Whole, Whole', NEW d \in Devices, Good(d), NEW r \in Requests, ConfirmPasswordChange(r)
  PROVE  Good(d)'
  <1>. DEFINE q == [New("collect", "password", "all", 0) EXCEPT !.todo = user_sessions]
  <1>1. /\ q # Idle /\ q.at = "collect" /\ q.op = "password" /\ q.device = "all"
        /\ q.fresh = 0 /\ q.seen = {} /\ q.caller = "waits"
    BY DEF New, Idle
  <1>2. Starts(r, q) /\ Mark(Clashes("password", "all"), "disturbed")
    BY DEF ConfirmPasswordChange
  <1>. HIDE DEF q
  <1>3. req[r] = Idle /\ req'[r] = q /\ \A x \in Requests \ {r} : req'[x] = req[x]
    BY <1>2, StartsShape DEF Whole
  <1>. QED BY <1>1, <1>2, <1>3, BeginsGood DEF ConfirmPasswordChange, Redis

\* A request ends, or goes on as the same call.
Follows(q) == req'[q] # Idle => /\ req[q] # Idle
                                /\ req'[q].op = req[q].op /\ req'[q].device = req[q].device
                                /\ req'[q].caller = req[q].caller
                                /\ Busy(q)' => Busy(q)

LEMMA ApartOn ==
  ASSUME NEW d, Apart(d), \A q \in Requests : Follows(q),
         \/ \A q \in Requests : Past(q, d)' => Past(q, d)
         \/ \E r \in Requests : \A q \in Requests : Past(q, d)' => q = r
  PROVE  Apart(d)'
  <1>1. \A q \in Requests : Busy(q)' => /\ Busy(q) /\ req'[q].op = req[q].op
                                        /\ req'[q].caller = req[q].caller
                                        /\ Concerns(q, d)' => Concerns(q, d)
    BY DEF Follows, Busy, Concerns
  <1>2. \A q, r \in Requests : Past(q, d)' /\ Past(r, d)' => q = r
    BY DEF Apart
  <1>. QED BY <1>1, <1>2 DEF Apart

LEMMA TidyOn ==
  ASSUME NEW d, Tidy(d), LiveOf(d)' = LiveOf(d), device_token'[d] = device_token[d],
         \A x \in Requests : /\ Of(x, d)' => Of(x, d)
                             /\ Of(x, d)' /\ Fits(req[x], LiveOf(d)) => Fits(req'[x], LiveOf(d))
                             /\ Of(x, d) /\ req[x].at = "index" => Of(x, d)' /\ req'[x].at = "index"
                             /\ req'[x] # Idle /\ req'[x].op = "password" => req'[x] = req[x]
  PROVE  Tidy(d)'
  <1>1. \A x \in Requests : Of(x, d)' => Fits(req'[x], LiveOf(d)')
    BY DEF Tidy
  <1>2. (\A x \in Requests : ~(Of(x, d)' /\ req'[x].at = "index"))
           => LiveOf(d)' \subseteq {device_token'[d]}
    BY DEF Tidy
  <1>3. \A x \in Requests : req'[x] # Idle /\ req'[x].op = "password" /\ d \in req'[x].seen
          => LiveOf(d)' \subseteq req'[x].found
    BY DEF Tidy
  <1>. QED BY <1>1, <1>2, <1>3 DEF Tidy, Fits

LEMMA DeadOn ==
  ASSUME NEW d, Dead(d), history'[d] = "ended" => history[d] = "ended",
         LiveOf(d)' \subseteq LiveOf(d), d \in user_sessions' => d \in user_sessions,
         LET Begins0 == {"revoke", "drop", "rotate", "save"}
         IN  \A x \in Requests : Of(x, d)' => /\ Of(x, d)
                                              /\ req'[x].at \in Begins0 => req[x].at \in Begins0
  PROVE  Dead(d)'
  BY DEF Dead

\* One request of another device goes on, or ends.
LEMMA GoesElsewhere ==
  ASSUME Whole, Whole', NEW d \in Devices, Good(d), NEW r \in Requests, req[r] # Idle,
         req[r].op # "password", req[r].device # d, \A x \in Requests \ {r} : req'[x] = req[x],
         Follows(r), LiveOf(d)' = LiveOf(d), device_token'[d] = device_token[d],
         cookie'[d] = cookie[d], history'[d] = history[d], d \in user_sessions' => d \in user_sessions,
         UNCHANGED issued,
         \A i \in DOMAIN issued : issued[i].device = d => flight'[i] = flight[i]
  PROVE  Good(d)'
  <1>1. Untouched(d)
    BY DEF Untouched, About, Concerns, Follows
  <1>. QED BY <1>1, Elsewhere

\* A query and its token.
LEMMA AQuery ==
  ASSUME Whole, NEW r \in Requests, req[r] # Idle, req[r].op = "query"
  PROVE  /\ req[r].token # 0 /\ req[r].token \in Token /\ req[r].token \in DOMAIN issued
         /\ issued[req[r].token].device = req[r].device /\ req[r].device \in Devices
         /\ req[r] \in Req
  <1>1. req[r].token \in 1..Len(issued) /\ req[r].device \in Devices
    <2>1. Placed(req[r])
      BY DEF Whole, Own, Rooted
    <2>. QED BY <2>1 DEF Whole, Typed, Numbered, InUse, Sound, Placed
  <1>2. req[r].token # 0 /\ req[r].token \in Token
    BY <1>1, LenIsANumber, BoundAssumption DEF Whole, Typed, TypeOK, Token
  <1>. QED BY <1>1, <1>2 DEF Whole, Own, Rooted, Owned, Holds, Typed, TypeOK

LEMMA GetOrStartRefreshGood ==
  ASSUME Whole, Whole', NEW d \in Devices, Good(d), NEW r \in Requests, GetOrStartRefresh(r)
  PROVE  Good(d)'
  <1>. DEFINE t == req[r].token
  <1>0. UNCHANGED <<issued, live, device_token, user_sessions, cookie, history>>
    BY DEF GetOrStartRefresh, Redis
  <1>1. /\ req[r].at = "sent" /\ req[r] # Idle /\ req[r] \in Req /\ req[r].op = "query"
        /\ Placed(req[r])
    <2>1. req[r].at = "sent" /\ req[r].at \in Steps
      BY DEF GetOrStartRefresh, Steps
    <2>2. req[r] # Idle /\ req[r] \in Req /\ Placed(req[r])
      BY <2>1, AtWork DEF Whole
    <2>. QED BY <2>1, <2>2 DEF Placed
  <1>2. /\ t # 0 /\ t \in Token /\ t \in DOMAIN issued
        /\ issued[t].device = req[r].device /\ req[r].device \in Devices
    BY <1>1, AQuery
  <1>3. /\ \A x \in Requests \ {r} : req'[x] = req[x]
        /\ req'[r].at \in {"get", "waiting", "reply"}
        /\ req'[r] # Idle /\ req'[r].op = "query" /\ req'[r].device = req[r].device
        /\ req'[r].caller = req[r].caller /\ req'[r].token = t
        /\ flight' = flight \/ flight' = [flight EXCEPT ![t].at = "busy"]
        /\ req'[r].at = "get" => flight[t].at = "none" /\ flight' = [flight EXCEPT ![t].at = "busy"]
        /\ req'[r].at # "get" => flight' = flight
        /\ req'[r].at = "reply" => req'[r].fresh = flight[t].got
    <2>1. CASE /\ flight[t].at = "none" /\ flight' = [flight EXCEPT ![t].at = "busy"]
               /\ Goes(r, "get")
      <3>1. "get" \in Steps
        BY DEF Steps, Handling
      <3>. QED BY <1>1, <2>1, <3>1, GoesShape DEF Whole, Alike
    <2>2. CASE Goes(r, "waiting") /\ UNCHANGED flight
      <3>1. "waiting" \in Steps
        BY DEF Steps
      <3>. QED BY <1>1, <2>2, <3>1, GoesShape DEF Whole, Alike
    <2>3. CASE /\ req' = [req EXCEPT ![r].at = "reply", ![r].fresh = flight[t].got]
               /\ UNCHANGED flight
      <3>1. req'[r] = [req[r] EXCEPT !.at = "reply", !.fresh = flight[t].got]
        BY <1>1, <2>3 DEF Whole, Typed, TypeOK
      <3>2. req'[r].at = "reply" /\ req'[r] # Idle
        BY <1>1, <3>1 DEF Req, Idle
      <3>3. \A x \in Requests \ {r} : req'[x] = req[x]
        BY <1>1, <2>3 DEF Whole, Typed, TypeOK
      <3>4. /\ req'[r].op = "query" /\ req'[r].device = req[r].device
            /\ req'[r].caller = req[r].caller /\ req'[r].token = t
            /\ req'[r].fresh = flight[t].got
        BY <1>1, <3>1 DEF Req
      <3>. QED BY <2>3, <3>2, <3>3, <3>4
    <2>. QED BY <2>1, <2>2, <2>3 DEF GetOrStartRefresh
  <1>4. \A x \in Requests : Follows(x)
    BY <1>1, <1>3 DEF Follows, Busy
  <1>5. LiveOf(d)' = LiveOf(d)
    BY <1>0 DEF LiveOf
  <1>6. /\ \A i \in Token \ {t} : flight'[i] = flight[i]
        /\ flight'[t].got = flight[t].got
        /\ flight'[t].at = "done" => flight[t].at = "done"
        /\ flight[t].at = "done" => flight'[t] = flight[t] \/ req'[r].at = "get"
    BY <1>2, <1>3 DEF Whole, Typed, TypeOK, Flight
  <1>t. \A i \in DOMAIN issued : i \in Token
    BY LenIsANumber, BoundAssumption DEF Whole, Typed, TypeOK, Token
  <1>7. CASE req[r].device # d
    <2>1. \A i \in DOMAIN issued : issued[i].device = d => flight'[i] = flight[i]
      BY <1>2, <1>6, <1>7, <1>t
    <2>. QED BY <1>0, <1>1, <1>3, <1>4, <1>5, <1>7, <2>1, GoesElsewhere
  <1>8. CASE req[r].device = d
    <2>. SUFFICES ASSUME history'[d] # "disturbed" PROVE Good(d)'
      BY DEF Good
    <2>0. Apart(d) /\ Tidy(d) /\ Newest(d) /\ Dead(d) /\ Fed(d) /\ Caught(d)
      BY <1>0 DEF Good
    <2>1. \A x \in Requests : (Of(x, d)' <=> Of(x, d)) /\ (About(x, d)' <=> About(x, d))
      BY <1>1, <1>3 DEF Of, About, Concerns
    <2>2. Apart(d)'
      <3>1. \A x \in Requests : Past(x, d)' => Past(x, d)
        BY <1>3, <2>1 DEF Past
      <3>. QED BY <1>4, <2>0, <3>1, ApartOn
    <2>3. Tidy(d)'
      <3>1. \A x \in Requests : /\ Fits(req[x], LiveOf(d)) => Fits(req'[x], LiveOf(d))
                                /\ req[x].at = "index" => req'[x].at = "index"
                                /\ req'[x].op = "password" => req'[x] = req[x]
        BY <1>1, <1>3 DEF Fits
      <3>. QED BY <1>0, <1>5, <2>0, <2>1, <3>1, TidyOn
    <2>4. Newest(d)'
      <3>1. \A i \in LiveOf(d) : flight'[i].at = "done" => flight[i].at = "done"
        BY <1>6, <1>t DEF LiveOf, Whole, Typed, TypeOK
      <3>. QED BY <1>0, <1>5, <2>0, <3>1 DEF Newest
    <2>5. Dead(d)'
      BY <1>0, <1>3, <1>5, <2>0, <2>1, DeadOn
    <2>6. ASSUME history[d] = "clean", ~Held(d)
          PROVE  /\ \A i \in Token : Rides(i, d) => Rides(i, d)'
                 /\ \A i : Reached(i, d)' <=> Reached(i, d)
                 /\ req'[r].at = "get" => t \in LiveOf(d)
      <3>1. flight[t].at # "none" => flight'[t].at # "none"
        BY <1>2, <1>3 DEF Whole, Typed, TypeOK, Flight
      <3>2. Of(r, d)
        BY <1>1, <1>8 DEF Of
      <3>. QED BY <1>0, <1>1, <1>3, <1>5, <1>6, <2>0, <2>6, <3>1, <3>2 DEF Rides, Reached, Caught
    <2>7. Fed(d)'
      <3>1. CASE history[d] # "clean"
        BY <1>0, <2>0, <3>1 DEF Fed
      <3>2. CASE history[d] = "clean" /\ ~Held(d)
        BY <1>0, <1>3, <1>5, <2>0, <2>1, <2>6, <3>2 DEF Fed
      \* Beside another operation no query is on its way.
      <3>3. CASE Held(d)
        <4>1. PICK x \in Requests : About(x, d) /\ req[x].op # "query"
          BY <3>3 DEF Held
        <4>2. x # r /\ About(r, d) /\ Busy(x) /\ Concerns(x, d)
          BY <1>1, <1>8, <4>1 DEF About, Busy, Concerns
        <4>. QED BY <1>1, <2>0, <4>1, <4>2, Lone
      <3>. QED BY <3>1, <3>2, <3>3
    <2>8. Caught(d)'
      <3>. SUFFICES ASSUME history'[d] = "clean", ~Held(d)' PROVE Caught(d)'
        BY DEF Caught
      <3>1. ~Held(d) /\ history[d] = "clean"
        BY <1>0, <1>1, <1>3, <2>1 DEF Held
      <3>2. cookie[d] # 0 => cookie[d] \in Token
        BY DEF Whole, Typed, TypeOK, Token, Maybe
      <3>3. cookie'[d] # 0 => Rides(cookie[d], d)'
        BY <1>0, <2>0, <2>6, <3>1, <3>2 DEF Caught, Rides
      <3>4. ASSUME NEW x \in Requests, Of(x, d)'
            PROVE  /\ req'[x].at = "sent" => Rides(req[x].token, d)'
                   /\ req'[x].at # "reply" => req'[x].token <= cookie'[d]
                   /\ req'[x].at = "reply" => Reached(req[x].fresh, d)'
        <4>1. CASE x = r
          BY <1>0, <1>1, <1>2, <1>3, <1>5, <1>8, <2>0, <2>1, <3>1, <3>4, <4>1 DEF Caught, Reached
        <4>2. CASE x # r
          <5>1. req'[x] = req[x] /\ Of(x, d)
            BY <1>3, <2>1, <3>4, <4>2
          <5>2. req[x].at = "sent" => req[x].token \in Token
            <6>1. req[x].at = "sent" => req[x].op = "query" /\ req[x] # Idle
              BY <5>1 DEF Of, Whole, Own, Rooted, Placed
            <6>. QED BY <6>1, AQuery
          <5>3. /\ req[x].at = "sent" => Rides(req[x].token, d)
                /\ req[x].at # "reply" => req[x].token <= cookie[d]
                /\ req[x].at = "reply" => Reached(req[x].fresh, d)
            BY <2>0, <3>1, <5>1 DEF Caught
          <5>4. \A i \in Token : Rides(i, d) => i \in LiveOf(d)' \/ flight'[i].at # "none"
            BY <2>6, <3>1 DEF Rides
          <5>. QED BY <1>0, <1>5, <5>1, <5>2, <5>3, <5>4 DEF Rides, Reached
        <4>. QED BY <4>1, <4>2
      <3>5. \A i \in DOMAIN issued' : issued'[i].device = d => Reached(flight[i].got, d)'
        BY <1>0, <1>5, <1>6, <1>t, <2>0, <3>1 DEF Caught, Reached
      <3>6. cookie'[d] # 0 /\ cookie'[d] \notin LiveOf(d)' /\ flight'[cookie'[d]].at = "done"
               => \E x \in Requests : Awaited(x, d)'
        <4>1. flight'[cookie[d]].at = "done" /\ cookie[d] # 0 => flight[cookie[d]].at = "done"
          BY <1>6, <3>2
        <4>2. \A x \in Requests : Awaited(x, d) => Awaited(x, d)'
          BY <1>0, <1>1, <1>3, <2>1 DEF Awaited
        <4>. QED BY <1>0, <1>5, <2>0, <3>1, <4>1, <4>2 DEF Caught
      <3>. QED BY <3>3, <3>4, <3>5, <3>6 DEF Caught
    <2>. QED BY <2>2, <2>3, <2>4, <2>5, <2>7, <2>8 DEF Good
  <1>. QED BY <1>7, <1>8

\* While only queries are under way, and the cookie stays.
LEMMA CaughtOn ==
  ASSUME Whole, NEW d \in Devices, Caught(d), history[d] = "clean", ~Held(d), cookie'[d] = cookie[d],
         \A i \in Token : Rides(i, d) => Rides(i, d)',
         \A i \in Maybe : Reached(i, d) => Reached(i, d)',
         \A x \in Requests : Of(x, d)' =>
           /\ Of(x, d) /\ req'[x].token = req[x].token
           /\ req'[x].at = "sent" => req[x].at = "sent"
           /\ req'[x].at # "reply" => req[x].at # "reply"
           /\ req'[x].at = "reply" => \/ req[x].at = "reply" /\ req'[x].fresh = req[x].fresh
                                      \/ Reached(req[x].fresh, d)',
         \A i \in DOMAIN issued' : issued'[i].device = d =>
           \/ i \in DOMAIN issued /\ issued[i].device = d /\ flight'[i].got = flight[i].got
           \/ Reached(flight[i].got, d)',
         cookie[d] # 0 /\ cookie[d] \notin LiveOf(d)' /\ flight'[cookie[d]].at = "done"
           => \E x \in Requests : Awaited(x, d)'
  PROVE  Caught(d)'
  <1>1. cookie[d] \in Maybe /\ (cookie[d] # 0 => cookie[d] \in Token)
    BY DEF Whole, Typed, TypeOK, Token, Maybe
  <1>2. cookie'[d] # 0 => Rides(cookie[d], d)'
    BY <1>1 DEF Caught, Rides
  <1>3. ASSUME NEW x \in Requests, Of(x, d)'
        PROVE  /\ req'[x].at = "sent" => Rides(req[x].token, d)'
               /\ req'[x].at # "reply" => req'[x].token <= cookie'[d]
               /\ req'[x].at = "reply" => Reached(req[x].fresh, d)'
    <2>1. Of(x, d) /\ req'[x].token = req[x].token
      BY <1>3
    <2>2. ASSUME req'[x].at = "sent" PROVE Rides(req[x].token, d)'
      <3>1. req[x].at = "sent" /\ Rides(req[x].token, d)
        BY <1>3, <2>2 DEF Caught
      <3>2. req[x].token \in Token
        <4>1. req[x].op = "query" /\ req[x] # Idle
          BY <2>1, <3>1 DEF Of, Whole, Own, Rooted, Placed
        <4>. QED BY <4>1, AQuery
      <3>3. \A i \in Token : Rides(i, d) => i \in LiveOf(d)' \/ flight'[i].at # "none"
        BY DEF Rides
      <3>. QED BY <2>1, <3>1, <3>2, <3>3 DEF Rides
    <2>3. req'[x].at # "reply" => req'[x].token <= cookie'[d]
      BY <1>3, <2>1 DEF Caught
    <2>4. ASSUME req'[x].at = "reply" PROVE Reached(req[x].fresh, d)'
      <3>1. CASE req[x].at = "reply" /\ req'[x].fresh = req[x].fresh
        <4>1. Reached(req[x].fresh, d)
          BY <2>1, <3>1 DEF Caught
        <4>2. req[x].fresh \in Maybe
          BY <2>1 DEF Of, Whole, Typed, TypeOK, Req
        <4>3. \A i \in Maybe : Reached(i, d) => i \in LiveOf(d)' \/ i <= cookie'[d]
          BY DEF Reached
        <4>. QED BY <3>1, <4>1, <4>2, <4>3 DEF Reached
      <3>. QED BY <1>3, <2>4, <3>1
    <2>. QED BY <2>2, <2>3, <2>4
  <1>4. ASSUME NEW i \in DOMAIN issued', issued'[i].device = d
        PROVE  Reached(flight[i].got, d)'
    <2>1. CASE i \in DOMAIN issued /\ issued[i].device = d /\ flight'[i].got = flight[i].got
      <3>1. Reached(flight[i].got, d)
        BY <2>1 DEF Caught
      <3>2. flight[i].got \in Maybe
        <4>1. i \in Token
          BY <2>1, LenIsANumber, BoundAssumption DEF Whole, Typed, TypeOK, Token
        <4>. QED BY <4>1 DEF Whole, Typed, TypeOK, Flight
      <3>3. \A j \in Maybe : Reached(j, d) => j \in LiveOf(d)' \/ j <= cookie'[d]
        BY DEF Reached
      <3>. QED BY <2>1, <3>1, <3>2, <3>3 DEF Reached
    <2>. QED BY <1>4, <2>1
  <1>. QED BY <1>2, <1>3, <1>4 DEF Caught

\* Beside a query that is past its look at the token there is no other such.
LEMMA FirstPast ==
  ASSUME Whole, NEW d, Apart(d), Tidy(d), NEW r \in Requests, Of(r, d), req[r].at = "get",
         req[r].token \in LiveOf(d), NEW x \in Requests, Past(x, d)
  PROVE  FALSE
  <1>1. x # r /\ Busy(x) /\ Busy(r) /\ Concerns(x, d) /\ Concerns(r, d)
    BY DEF Past, Of, Busy, Concerns
  <1>2. req[x].op = "query" /\ req[r].op = "query"
    BY <1>1 DEF Apart
  <1>3. Fits(req[x], LiveOf(d))
    BY DEF Tidy, Past
  <1>4. CASE req[x].at = "rotate"
    <2>1. req[x].token = req[r].token
      BY <1>3, <1>4 DEF Fits
    <2>. QED BY <1>1, <1>2, <1>4, <2>1 DEF Whole, Once, OneFlight, Exchanging, Exchanges
  <1>5. CASE req[x].at = "save"
    BY <1>3, <1>5 DEF Fits
  <1>6. CASE req[x].at = "index"
    <2>1. req[r].token = req[x].fresh
      BY <1>3, <1>6 DEF Fits
    <2>. QED BY <1>1, <1>2, <1>6, <2>1 DEF Whole, Unknown, Secret, Lacks, Busy
  <1>. QED BY <1>4, <1>5, <1>6 DEF Past

\* A refresh of another device that settles.
LEMMA SettlesElsewhere ==
  ASSUME Whole, Whole', NEW d \in Devices, Good(d), NEW r \in Requests, req[r] # Idle,
         req[r].op = "query", req[r].device # d, NEW n, NEW was, Settle(r, n, was),
         was = Idle \/ (was.op = "query" /\ was.device = req[r].device),
         UNCHANGED <<issued, live, user_sessions, cookie>>, device_token'[d] = device_token[d],
         history'[d] = history[d]
  PROVE  Good(d)'
  <1>0. Typed
    BY DEF Whole
  <1>1. /\ req'[r] = was
        /\ req[r].token \in Token
        /\ flight'[req[r].token] = [at |-> "done", got |-> n]
        /\ \A x \in Token \ {req[r].token} : flight'[x] = flight[x]
        /\ \A x \in Requests \ {r} :
              IF req[x].at = "waiting" /\ req[x].token = req[r].token
              THEN /\ Alike(req'[x], req[x]) /\ req'[x].at = "reply"
                   /\ req'[x].token = req[x].token /\ req'[x].fresh = n
                   /\ req'[x].caller = req[x].caller
              ELSE req'[x] = req[x]
    BY <1>0, SettleShape
  <1>2. req[r].token \in DOMAIN issued /\ issued[req[r].token].device = req[r].device
    BY AQuery
  <1>3. ASSUME NEW x \in Requests \ {r}
        PROVE  req'[x] = req[x] \/ (~About(x, d) /\ ~About(x, d)')
    <2>1. CASE req[x].at = "waiting" /\ req[x].token = req[r].token
      <3>1. Alike(req'[x], req[x])
        BY <1>1, <2>1
      <3>2. req[x] # Idle /\ req[x].op = "query"
        BY <2>1, <3>1 DEF Whole, Own, Rooted, Placed, Alike
      <3>3. req[x].device = req[r].device
        BY <1>2, <2>1, <3>2, AQuery
      <3>. QED BY <3>1, <3>2, <3>3 DEF About, Concerns, Alike
    <2>. QED BY <1>1, <2>1
  <1>4. req'[r] = req[r] \/ (~About(r, d) /\ ~About(r, d)')
    BY <1>1 DEF About, Concerns
  <1>5. \A i \in DOMAIN issued : issued[i].device = d => flight'[i] = flight[i]
    <2>1. \A i \in DOMAIN issued : i \in Token
      BY LenIsANumber, BoundAssumption DEF Whole, Typed, TypeOK, Token
    <2>. QED BY <1>1, <1>2, <2>1
  <1>6. Untouched(d)
    BY <1>3, <1>4, <1>5 DEF Untouched, LiveOf
  <1>. QED BY <1>6, Elsewhere

\* Those who wait for a refresh of the device, when it settles.
LEMMA SettlesHere ==
  ASSUME Whole, NEW d, NEW r \in Requests, Of(r, d),
         req[r].op = "query", NEW n, NEW was, Settle(r, n, was),
         was = Idle \/ (was.op = "query" /\ was.device = d /\ was.at = "reply"
                        /\ was.caller = req[r].caller)
  PROVE  /\ \A x \in Requests : Follows(x)
         /\ \A x \in Requests : Of(x, d)' => Of(x, d)
         /\ \A x \in Requests \ {r} : (Of(x, d)' <=> Of(x, d)) /\ (About(x, d)' <=> About(x, d))
         /\ \A x \in Requests \ {r} : req[x] # Idle => req'[x] # Idle /\ req'[x].op = req[x].op
         /\ \A x \in Requests : Past(x, d)' => Past(x, d)
         /\ \A x \in Requests \ {r} :
              req'[x] = req[x] \/ (/\ req[x].at = "waiting" /\ req'[x].at = "reply"
                                   /\ req[x].op = "query" /\ req'[x].op = "query"
                                   /\ req'[x].token = req[x].token /\ req'[x].fresh = n)
  <1>0. Typed /\ req[r] # Idle
    BY DEF Whole, Of
  <1>1. /\ req'[r] = was
        /\ req[r].token \in Token
        /\ flight'[req[r].token] = [at |-> "done", got |-> n]
        /\ \A x \in Token \ {req[r].token} : flight'[x] = flight[x]
        /\ \A x \in Requests \ {r} :
              IF req[x].at = "waiting" /\ req[x].token = req[r].token
              THEN /\ Alike(req'[x], req[x]) /\ req'[x].at = "reply"
                   /\ req'[x].token = req[x].token /\ req'[x].fresh = n
                   /\ req'[x].caller = req[x].caller
              ELSE req'[x] = req[x]
    BY <1>0, SettleShape
  <1>2. ASSUME NEW x \in Requests \ {r}, req[x].at = "waiting", req[x].token = req[r].token
        PROVE  /\ req[x].op = "query" /\ req'[x].op = "query"
    BY <1>1, <1>2 DEF Whole, Own, Rooted, Placed, Alike
  <1>3. \A x \in Requests \ {r} :
              req'[x] = req[x] \/ (/\ req[x].at = "waiting" /\ req'[x].at = "reply"
                                   /\ req[x].op = "query" /\ req'[x].op = "query"
                                   /\ req'[x].token = req[x].token /\ req'[x].fresh = n)
    BY <1>1, <1>2
  <1>4. \A x \in Requests \ {r} : (Of(x, d)' <=> Of(x, d)) /\ (About(x, d)' <=> About(x, d))
    BY <1>1 DEF Of, About, Concerns, Alike
  <1>5. ASSUME NEW x \in Requests PROVE Follows(x)
    <2>1. CASE x = r
      BY <1>1, <2>1 DEF Follows, Of, Busy
    <2>2. CASE x # r
      BY <1>1, <1>2, <2>2 DEF Follows, Busy, Alike
    <2>. QED BY <2>1, <2>2
  <1>6. Of(r, d)' => req'[r].at = "reply"
    BY <1>1 DEF Of
  <1>7. \A x \in Requests \ {r} : req[x] # Idle => req'[x] # Idle /\ req'[x].op = req[x].op
    BY <1>1 DEF Alike
  <1>. QED BY <1>3, <1>4, <1>5, <1>6, <1>7 DEF Past

LEMMA GetGood ==
  ASSUME Whole, Whole', NEW d \in Devices, Good(d), NEW r \in Requests, Get(r)
  PROVE  Good(d)'
  <1>. DEFINE e == req[r].device
  <1>0. UNCHANGED <<issued, live, device_token, user_sessions, cookie>> /\ LiveOf(d)' = LiveOf(d)
    BY DEF Get, Redis, LiveOf
  <1>1. /\ req[r].at = "get" /\ req[r] # Idle /\ req[r] \in Req /\ Placed(req[r])
        /\ req[r].op \in {"query", "refresh"} /\ e \in Devices
    <2>1. req[r].at = "get" /\ req[r].at \in Steps
      BY DEF Get, Steps, Handling
    <2>2. req[r] # Idle /\ req[r] \in Req /\ Placed(req[r])
      BY <2>1, AtWork DEF Whole
    <2>. QED BY <2>1, <2>2 DEF Placed, Whole, Typed, Numbered, InUse, Sound
  <1>2. CASE e # d
    <2>1. CASE req[r].op = "query" /\ Settle(r, 0, Idle) /\ Mark({e}, "refused")
      <3>1. history'[d] = history[d]
        BY <1>2, <2>1, MarkShape
      <3>. QED BY <1>0, <1>1, <1>2, <2>1, <3>1, SettlesElsewhere
    <2>2. CASE Goes(r, "rotate") /\ UNCHANGED <<flight, history>>
      <3>1. "rotate" \in Steps /\ Typed
        BY DEF Steps, Handling, Whole
      <3>2. Follows(r) /\ \A x \in Requests \ {r} : req'[x] = req[x]
        BY <1>1, <2>2, <3>1, GoesShape DEF Follows, Busy, Alike
      <3>. QED BY <1>0, <1>1, <1>2, <2>2, <3>2, GoesElsewhere
    <2>3. CASE Ends(r) /\ UNCHANGED <<flight, history>>
      <3>1. Typed
        BY DEF Whole
      <3>2. Follows(r) /\ \A x \in Requests \ {r} : req'[x] = req[x]
        BY <2>3, <3>1, EndsShape DEF Follows
      <3>. QED BY <1>0, <1>1, <1>2, <2>3, <3>2, GoesElsewhere
    <2>. QED BY <2>1, <2>2, <2>3 DEF Get
  <1>3. CASE e = d
    <2>. SUFFICES ASSUME history'[d] # "disturbed" PROVE Good(d)'
      BY DEF Good
    <2>0. Typed /\ Of(r, d) /\ Busy(r) /\ Concerns(r, d)
      BY <1>1, <1>3 DEF Whole, Of, Busy, Concerns
    <2>1. CASE req[r].token \in LiveOf(d) /\ Goes(r, "rotate") /\ UNCHANGED <<flight, history>>
      <3>0. Apart(d) /\ Tidy(d) /\ Newest(d) /\ Dead(d) /\ Fed(d) /\ Caught(d)
        BY <2>1 DEF Good
      <3>1. /\ Alike(req'[r], req[r]) /\ req'[r].at = "rotate" /\ req'[r].token = req[r].token
            /\ req'[r].caller = req[r].caller /\ \A x \in Requests \ {r} : req'[x] = req[x]
        <4>1. "rotate" \in Steps
          BY DEF Steps, Handling
        <4>. QED BY <1>1, <2>0, <2>1, <4>1, GoesShape
      <3>2. \A x \in Requests : (Of(x, d)' <=> Of(x, d)) /\ (About(x, d)' <=> About(x, d))
        BY <1>1, <3>1 DEF Of, About, Concerns, Alike
      <3>3. \A x \in Requests : ~Past(x, d)
        BY <1>1, <2>0, <2>1, <3>0, FirstPast
      <3>4. Apart(d)'
        <4>1. \A x \in Requests : Follows(x)
          BY <1>1, <3>1 DEF Follows, Busy, Alike
        <4>2. \A x \in Requests : Past(x, d)' => x = r
          BY <3>1, <3>2, <3>3 DEF Past
        <4>. QED BY <3>0, <4>1, <4>2, ApartOn
      <3>5. LiveOf(d) = {req[r].token}
        BY <2>1, <3>0, <3>3 DEF Tidy, Past
      <3>6. Tidy(d)'
        <4>1. \A x \in Requests : /\ Fits(req[x], LiveOf(d)) => Fits(req'[x], LiveOf(d))
                                  /\ req[x].at = "index" => req'[x].at = "index"
                                  /\ req'[x].op = "password" => req'[x] = req[x]
          BY <1>1, <3>1, <3>5 DEF Fits, Alike
        <4>. QED BY <1>0, <3>0, <3>2, <4>1, TidyOn
      <3>7. Newest(d)'
        BY <1>0, <2>1, <3>0 DEF Newest
      <3>8. Dead(d)'
        <4>1. history[d] # "ended"
          BY <2>1, <3>0 DEF Dead
        <4>. QED BY <2>1, <4>1 DEF Dead
      <3>9. Fed(d)'
        BY <1>0, <2>1, <3>0, <3>1, <3>2 DEF Fed
      <3>10. Caught(d)'
        <4>. SUFFICES ASSUME history'[d] = "clean", ~Held(d)' PROVE Caught(d)'
          BY DEF Caught
        <4>1. ~Held(d) /\ history[d] = "clean"
          BY <2>1, <3>1, <3>2 DEF Held, Alike
        <4>2. \A i : (Rides(i, d)' <=> Rides(i, d)) /\ (Reached(i, d)' <=> Reached(i, d))
          BY <1>0, <2>1 DEF Rides, Reached
        <4>3. \A x \in Requests : Awaited(x, d) => Awaited(x, d)'
          BY <1>0, <1>1, <3>1, <3>2 DEF Awaited
        <4>4. cookie[d] # 0 /\ cookie[d] \notin LiveOf(d)' /\ flight'[cookie[d]].at = "done"
                => \E x \in Requests : Awaited(x, d)'
          BY <1>0, <2>1, <3>0, <4>1, <4>3 DEF Caught
        <4>5. \A x \in Requests : Of(x, d)' =>
                /\ Of(x, d) /\ req'[x].token = req[x].token
                /\ req'[x].at = "sent" => req[x].at = "sent"
                /\ req'[x].at # "reply" => req[x].at # "reply"
                /\ req'[x].at = "reply" => req[x].at = "reply" /\ req'[x].fresh = req[x].fresh
          BY <1>1, <3>1, <3>2
        <4>. QED BY <1>0, <2>1, <3>0, <4>1, <4>2, <4>4, <4>5, CaughtOn
      <3>. QED BY <3>4, <3>6, <3>7, <3>8, <3>9, <3>10 DEF Good
    <2>2. CASE /\ req[r].token \notin LiveOf(d)
               /\ \/ req[r].op = "query" /\ Settle(r, 0, Idle) /\ Mark({e}, "refused")
                  \/ req[r].op # "query" /\ Ends(r) /\ UNCHANGED <<flight, history>>
      <3>1. history'[d] = history[d] \/ (history[d] = "clean" /\ history'[d] = "refused")
        BY <1>3, <2>2, MarkShape DEF Becomes
      <3>2. history[d] # "disturbed"
        BY <3>1
      <3>3. Apart(d) /\ Tidy(d) /\ Newest(d) /\ Dead(d) /\ Fed(d) /\ Caught(d)
        BY <3>2 DEF Good
      \* Fed: on a device whose history is clean the token works.
      <3>4. history[d] # "clean" /\ history'[d] = history[d]
        BY <1>1, <2>0, <2>2, <3>1, <3>3 DEF Fed
      <3>5. /\ \A x \in Requests : Follows(x)
            /\ \A x \in Requests : Past(x, d)' => Past(x, d)
            /\ \A x \in Requests : Of(x, d)' => Of(x, d)
            /\ \A x \in Requests : Of(x, d) /\ req[x].at = "index" => Of(x, d)' /\ req'[x].at = "index"
            /\ \A x \in Requests :
                 \/ req'[x] = req[x] \/ req'[x] = Idle
                 \/ /\ req[x].at = "waiting" /\ req'[x].at = "reply"
                    /\ req[x].op = "query" /\ req'[x].op = "query"
        <4>1. CASE req[r].op = "query" /\ Settle(r, 0, Idle)
          <5>1. req'[r] = Idle
            BY <4>1 DEF Settle
          <5>2. /\ \A x \in Requests : Follows(x)
                /\ \A x \in Requests : Of(x, d)' => Of(x, d)
                /\ \A x \in Requests \ {r} : (Of(x, d)' <=> Of(x, d)) /\ (About(x, d)' <=> About(x, d))
                /\ \A x \in Requests \ {r} : req[x] # Idle => req'[x] # Idle /\ req'[x].op = req[x].op
                /\ \A x \in Requests : Past(x, d)' => Past(x, d)
                /\ \A x \in Requests \ {r} :
                     req'[x] = req[x] \/ (/\ req[x].at = "waiting" /\ req'[x].at = "reply"
                                          /\ req[x].op = "query" /\ req'[x].op = "query"
                                          /\ req'[x].token = req[x].token /\ req'[x].fresh = 0)
            BY <2>0, <4>1, SettlesHere
          <5>. QED BY <1>1, <5>1, <5>2
        <4>2. CASE Ends(r)
          <5>1. req'[r] = Idle /\ \A x \in Requests \ {r} : req'[x] = req[x]
            BY <2>0, <4>2, EndsShape
          <5>2. \A x \in Requests : Follows(x)
            BY <5>1 DEF Follows, Busy
          <5>3. \A x \in Requests : Of(x, d)' => x # r /\ req'[x] = req[x] /\ Of(x, d)
            BY <5>1 DEF Of
          <5>4. \A x \in Requests : Past(x, d)' => Past(x, d)
            BY <5>3 DEF Past
          <5>5. \A x \in Requests : Of(x, d) /\ req[x].at = "index" => Of(x, d)' /\ req'[x].at = "index"
            BY <1>1, <5>1 DEF Of
          <5>. QED BY <5>1, <5>2, <5>3, <5>4, <5>5
        <4>. QED BY <2>2, <4>1, <4>2
      <3>6. Apart(d)'
        BY <3>3, <3>5, ApartOn
      <3>7. Tidy(d)'
        <4>1. ASSUME NEW x \in Requests
              PROVE  /\ Of(x, d)' /\ Fits(req[x], LiveOf(d)) => Fits(req'[x], LiveOf(d))
                     /\ req'[x] # Idle /\ req'[x].op = "password" => req'[x] = req[x]
          <5>1. CASE req'[x] = req[x] \/ req'[x] = Idle
            BY <5>1 DEF Of
          <5>2. CASE req'[x].at = "reply" /\ req'[x].op = "query"
            BY <5>2 DEF Fits
          <5>. QED BY <3>5, <5>1, <5>2
        <4>. QED BY <1>0, <3>3, <3>5, <4>1, TidyOn
      <3>8. Newest(d)'
        <4>1. \A i \in LiveOf(d) : flight'[i] = flight[i]
          <5>1. CASE UNCHANGED flight
            BY <5>1
          <5>2. CASE req[r].op = "query" /\ Settle(r, 0, Idle)
            <6>1. \A i \in LiveOf(d) : i \in Token
              BY LenIsANumber, BoundAssumption DEF Whole, Typed, TypeOK, Token, LiveOf
            <6>2. req[r].token \in Token
              BY <1>1, <5>2, AQuery
            <6>. QED BY <2>2, <5>2, <6>1, <6>2 DEF Settle, Whole, Typed, TypeOK
          <5>. QED BY <2>2, <5>1, <5>2
        <4>. QED BY <1>0, <3>3, <4>1 DEF Newest
      <3>9. Dead(d)'
        <4>1. \A x \in Requests : Of(x, d)' =>
                /\ Of(x, d)
                /\ req'[x].at \in {"revoke", "drop", "rotate", "save"}
                     => req[x].at \in {"revoke", "drop", "rotate", "save"}
          <5>1. \A x \in Requests : Of(x, d)' => req'[x] # Idle
            BY DEF Of
          <5>. QED BY <3>5, <5>1
        <4>. QED BY <1>0, <3>3, <3>4, <4>1, DeadOn
      <3>10. Fed(d)' /\ Caught(d)'
        BY <3>3, <3>4 DEF Fed, Caught
      <3>. QED BY <3>6, <3>7, <3>8, <3>9, <3>10 DEF Good
    <2>. QED BY <1>3, <2>1, <2>2 DEF Get
  <1>. QED BY <1>2, <1>3

LEMMA RotateGood ==
  ASSUME Whole, Whole', NEW d \in Devices, Good(d), NEW r \in Requests, Rotate(r)
  PROVE  Good(d)'
  <1>. DEFINE t == req[r].token
  <1>0. /\ UNCHANGED <<issued, device_token, user_sessions, flight, cookie, history>>
        /\ live' = live \ {t} /\ Goes(r, "save") /\ Typed
    BY DEF Rotate, Whole
  <1>1. /\ req[r].at = "rotate" /\ req[r] # Idle /\ req[r] \in Req /\ Placed(req[r])
        /\ req[r].op \in {"query", "refresh"} /\ t # 0
    <2>1. req[r].at = "rotate" /\ req[r].at \in Steps
      BY DEF Rotate, Steps, Handling
    <2>2. req[r] # Idle /\ req[r] \in Req /\ Placed(req[r])
      BY <2>1, AtWork DEF Whole
    <2>. QED BY <2>1, <2>2 DEF Placed
  <1>2. t \in DOMAIN issued /\ issued[t].device = req[r].device
    BY <1>1 DEF Whole, Own, Rooted, Owned, Holds
  <1>3. /\ Alike(req'[r], req[r]) /\ req'[r].at = "save" /\ req'[r].token = t
        /\ req'[r].caller = req[r].caller /\ \A x \in Requests \ {r} : req'[x] = req[x]
    <2>1. "save" \in Steps
      BY DEF Steps, Handling
    <2>. QED BY <1>0, <1>1, <2>1, GoesShape
  <1>4. LiveOf(d)' = LiveOf(d) \ {t}
    BY <1>0 DEF LiveOf
  <1>5. \A x \in Requests : Follows(x)
    BY <1>1, <1>3 DEF Follows, Busy, Alike
  <1>6. CASE req[r].device # d
    <2>1. LiveOf(d)' = LiveOf(d)
      BY <1>2, <1>4, <1>6 DEF LiveOf
    <2>. QED BY <1>0, <1>1, <1>3, <1>5, <1>6, <2>1, GoesElsewhere
  <1>7. CASE req[r].device = d
    <2>. SUFFICES ASSUME history'[d] # "disturbed" PROVE Good(d)'
      BY DEF Good
    <2>0. Apart(d) /\ Tidy(d) /\ Newest(d) /\ Dead(d) /\ Fed(d) /\ Caught(d)
      BY <1>0 DEF Good
    <2>1. Of(r, d) /\ Past(r, d) /\ Busy(r) /\ Concerns(r, d)
      BY <1>1, <1>7 DEF Of, Past, Busy, Concerns
    <2>2. \A x \in Requests : (Of(x, d)' <=> Of(x, d)) /\ (About(x, d)' <=> About(x, d))
      BY <1>1, <1>3 DEF Of, About, Concerns, Alike
    <2>3. LiveOf(d)' = {}
      BY <1>1, <1>4, <2>0, <2>1 DEF Tidy, Fits
    <2>4. Apart(d)'
      <3>1. \A x \in Requests : Past(x, d)' => Past(x, d)
        BY <1>1, <1>3, <2>2 DEF Past
      <3>. QED BY <1>5, <2>0, <3>1, ApartOn
    <2>5. Tidy(d)'
      <3>1. ASSUME NEW x \in Requests, Of(x, d)' PROVE Fits(req'[x], LiveOf(d)')
        <4>1. CASE x = r
          BY <1>3, <2>3, <4>1 DEF Fits
        <4>2. CASE x # r
          <5>1. req'[x] = req[x] /\ Of(x, d)
            BY <1>3, <2>2, <3>1, <4>2
          <5>2. req[x].at # "index"
            BY <2>0, <2>1, <4>2, <5>1 DEF Apart, Past
          <5>3. ~(req[x].at = "reply" /\ req[x].op # "query")
            BY <2>0, <2>1, <4>2, <5>1 DEF Apart, Busy, Concerns, Of
          <5>. QED BY <2>3, <5>1, <5>2, <5>3 DEF Fits
        <4>. QED BY <4>1, <4>2
      <3>. QED BY <2>3, <3>1 DEF Tidy, Fits
    <2>6. Newest(d)'
      BY <2>3 DEF Newest
    <2>7. Dead(d)'
      BY <1>0, <1>1, <2>0, <2>1 DEF Dead
    <2>8. Fed(d)'
      <3>. SUFFICES ASSUME history[d] = "clean", NEW x \in Requests, Of(x, d)', req'[x].at = "get"
                    PROVE  FALSE
        BY <1>0, <2>0 DEF Fed
      <3>1. x # r /\ req'[x] = req[x] /\ Of(x, d)
        BY <1>3, <2>2
      <3>2. req[x].token \in LiveOf(d)
        BY <2>0, <3>1 DEF Fed
      <3>. QED BY <1>1, <2>0, <2>1, <3>1, <3>2, FirstPast
    <2>9. Caught(d)'
      <3>. SUFFICES ASSUME history'[d] = "clean", ~Held(d)' PROVE Caught(d)'
        BY DEF Caught
      <3>1. ~Held(d) /\ history[d] = "clean"
        BY <1>0, <1>3, <2>2 DEF Held, Alike
      <3>2. req[r].op = "query"
        BY <2>1, <3>1 DEF Held, About, Of
      <3>3. flight[t].at = "busy" /\ t \in Token
        <4>1. Exchanging(r)
          BY <1>1, <3>2 DEF Exchanging, Exchanges
        <4>. QED BY <1>1, <3>2, <4>1, AQuery DEF Whole, Once, Flying
      <3>4. \A i \in Token : Rides(i, d) => Rides(i, d)'
        BY <1>0, <1>4, <3>3 DEF Rides
      <3>5. t <= cookie[d]
        BY <1>1, <2>0, <2>1, <3>1 DEF Caught
      <3>6. \A i \in Maybe : Reached(i, d) => Reached(i, d)'
        BY <1>0, <1>4, <3>5 DEF Reached
      <3>7. \A x \in Requests : Awaited(x, d) => Awaited(x, d)'
        BY <1>0, <1>1, <1>3, <2>2 DEF Awaited
      <3>8. cookie[d] # 0 /\ cookie[d] \notin LiveOf(d)' /\ flight'[cookie[d]].at = "done"
              => \E x \in Requests : Awaited(x, d)'
        BY <1>0, <1>4, <2>0, <3>1, <3>3, <3>7 DEF Caught
      <3>9. \A x \in Requests : Of(x, d)' =>
              /\ Of(x, d) /\ req'[x].token = req[x].token
              /\ req'[x].at = "sent" => req[x].at = "sent"
              /\ req'[x].at # "reply" => req[x].at # "reply"
              /\ req'[x].at = "reply" => req[x].at = "reply" /\ req'[x].fresh = req[x].fresh
        BY <1>1, <1>3, <2>2
      <3>. QED BY <1>0, <2>0, <3>1, <3>4, <3>6, <3>8, <3>9, CaughtOn
    <2>. QED BY <2>4, <2>5, <2>6, <2>7, <2>8, <2>9 DEF Good
  <1>. QED BY <1>6, <1>7

\* The step of a request that is no query: of its device there are, beside it, only
\* answers to queries.
LEMMA AloneGood ==
  ASSUME NEW d \in Devices, Good(d), history[d] # "disturbed", NEW r \in Requests,
         Of(r, d), req[r].op # "query", \A x \in Requests \ {r} : req'[x] = req[x], Follows(r),
         Newest(d)', Caught(d)', history'[d] # "refused",
         req'[r] # Idle => Fits(req'[r], LiveOf(d)'),
         req'[r] = Idle \/ req'[r].at # "index" => LiveOf(d)' \subseteq {device_token'[d]},
         history'[d] = "ended" =>
           /\ LiveOf(d)' = {} /\ d \notin user_sessions'
           /\ req'[r] # Idle => req'[r].at \notin {"revoke", "drop", "rotate", "save"},
         req'[r] # Idle => req'[r].at # "get"
  PROVE  Good(d)'
  <1>0. Apart(d) /\ Busy(r) /\ Concerns(r, d)
    BY DEF Good, Of, Busy, Concerns
  <1>1. \A x \in Requests \ {r} : About(x, d)' => About(x, d) /\ req'[x] = req[x]
    BY DEF About, Concerns
  <1>2. \A x \in Requests \ {r} : About(x, d)' => req'[x].op = "query" /\ req'[x].at = "reply"
    BY <1>0, <1>1, Lone
  <1>3. \A x \in Requests \ {r} : Of(x, d)' => req'[x].op = "query" /\ req'[x].at = "reply"
    BY <1>2 DEF Of, About, Concerns
  <1>4. req'[r] # Idle => Of(r, d)' /\ req'[r].op # "password"
    BY DEF Of, Follows
  <1>5. \A x \in Requests : Of(x, d)' => req'[x] # Idle
    BY DEF Of
  <1>6. Apart(d)'
    <2>1. \A x \in Requests : Follows(x)
      <3>1. \A x \in Requests \ {r} : Follows(x)
        BY DEF Follows, Busy
      <3>. QED BY <3>1
    <2>2. \A x \in Requests : Past(x, d)' => x = r
      BY <1>3 DEF Past
    <2>. QED BY <1>0, <2>1, <2>2, ApartOn
  <1>7. Tidy(d)'
    <2>1. ASSUME NEW x \in Requests, Of(x, d)' PROVE Fits(req'[x], LiveOf(d)')
      <3>1. CASE x = r
        BY <1>5, <2>1, <3>1
      <3>2. CASE x # r
        BY <1>3, <2>1, <3>2 DEF Fits
      <3>. QED BY <3>1, <3>2
    <2>2. (\A x \in Requests : ~(Of(x, d)' /\ req'[x].at = "index"))
            => LiveOf(d)' \subseteq {device_token'[d]}
      BY <1>4
    <2>3. \A x \in Requests : req'[x] # Idle /\ req'[x].op = "password" => FALSE
      BY <1>2, <1>4 DEF About, Concerns
    <2>. QED BY <2>1, <2>2, <2>3 DEF Tidy, Fits
  <1>8. Dead(d)'
    <2>. SUFFICES ASSUME history'[d] = "ended", NEW x \in Requests, Of(x, d)'
                  PROVE  req'[x].at \notin {"revoke", "drop", "rotate", "save"}
      BY DEF Dead
    <2>1. CASE x = r
      BY <1>5, <2>1
    <2>2. CASE x # r
      BY <1>3, <2>2
    <2>. QED BY <2>1, <2>2
  <1>9. Fed(d)'
    BY <1>3, <1>5 DEF Fed
  <1>. QED BY <1>6, <1>7, <1>8, <1>9 DEF Good

\* A sign-in at its await: where it is, and whose.
LEMMA ASignin ==
  ASSUME Whole, NEW r \in Requests, req[r].at \in {"revoke", "drop", "save", "index", "reply", "out"}
  PROVE  /\ req[r] # Idle /\ req[r] \in Req /\ Placed(req[r])
         /\ req[r].op # "password" /\ req[r].device \in Devices
         /\ Holds(req[r].token, req[r].device) /\ Holds(req[r].fresh, req[r].device)
  <1>1. req[r].at \in Steps
    BY DEF Steps, Handling
  <1>2. req[r] # Idle /\ req[r] \in Req /\ Placed(req[r]) /\ Owned(req[r])
    BY <1>1, AtWork DEF Whole
  <1>3. req[r].op # "password" /\ req[r].device \in Devices
    BY <1>2 DEF Placed, Whole, Typed, Numbered, InUse, Sound
  <1>. QED BY <1>2, <1>3 DEF Owned

LEMMA NoToken ==
  ASSUME Whole, NEW d
  PROVE  /\ 0 \notin LiveOf(d)
         /\ \A t, e : t \in LiveOf(d) /\ Holds(t, e) => e = d
  BY LenIsANumber DEF Whole, Typed, TypeOK, LiveOf, Holds

LEMMA RevokeGood ==
  ASSUME Whole, Whole', NEW d \in Devices, Good(d), NEW r \in Requests, Revoke(r)
  PROVE  Good(d)'
  <1>. DEFINE t == device_token[req[r].device]
  <1>0. UNCHANGED <<issued, live, device_token, user_sessions, flight, cookie, history>>
    BY DEF Revoke, Redis
  <1>1. /\ req[r].at = "revoke" /\ req[r] # Idle /\ req[r] \in Req /\ Placed(req[r])
        /\ req[r].op \in Signins /\ req[r].op \notin {"query", "password"}
    BY ASignin DEF Revoke, Placed, Signins
  <1>2. /\ req'[r] # Idle /\ req'[r].at = (IF t = 0 THEN "save" ELSE "drop") /\ req'[r].token = t
        /\ req'[r].op = req[r].op /\ req'[r].device = req[r].device /\ req'[r].caller = req[r].caller
        /\ \A x \in Requests \ {r} : req'[x] = req[x]
    <2>. DEFINE a == IF t = 0 THEN "save" ELSE "drop"
    <2>1. req' = [req EXCEPT ![r].token = t, ![r].at = a]
      BY DEF Revoke
    <2>2. a # "idle"
      OBVIOUS
    <2>. HIDE DEF t, a
    <2>3. req'[r] = [req[r] EXCEPT !.token = t, !.at = a] /\ \A x \in Requests \ {r} : req'[x] = req[x]
      BY <2>1 DEF Whole, Typed, TypeOK
    <2>4. req'[r].at = a /\ req'[r] # Idle
      BY <1>1, <2>2, <2>3 DEF Req, Idle
    <2>5. /\ req'[r].token = t
          /\ req'[r].op = req[r].op /\ req'[r].device = req[r].device /\ req'[r].caller = req[r].caller
      BY <1>1, <2>3 DEF Req
    <2>. QED BY <2>3, <2>4, <2>5 DEF a
  <1>. HIDE DEF t
  <1>3. Follows(r)
    BY <1>1, <1>2 DEF Follows, Busy
  <1>4. LiveOf(d)' = LiveOf(d)
    BY <1>0 DEF LiveOf
  <1>5. CASE req[r].device # d
    BY <1>0, <1>1, <1>2, <1>3, <1>4, <1>5, GoesElsewhere
  <1>6. CASE req[r].device = d
    <2>. SUFFICES ASSUME history'[d] # "disturbed" PROVE Good(d)'
      BY DEF Good
    <2>0. Apart(d) /\ Tidy(d) /\ Newest(d) /\ Dead(d) /\ Fed(d) /\ history[d] # "disturbed"
      BY <1>0 DEF Good
    <2>1. Of(r, d) /\ Busy(r) /\ Concerns(r, d) /\ t = device_token[d]
      BY <1>1, <1>6 DEF Of, Busy, Concerns, t
    <2>2. LiveOf(d) \subseteq {t}
      <3>1. \A x \in Requests \ {r} : Of(x, d) => req[x].at = "reply"
        BY <1>1, <2>0, <2>1, Lone DEF Of, About, Concerns
      <3>. QED BY <1>1, <2>0, <2>1, <3>1 DEF Tidy
    <2>3. Fits(req'[r], LiveOf(d)')
      <3>1. t = 0 => LiveOf(d) = {}
        BY <2>2, NoToken
      <3>. QED BY <1>1, <1>2, <1>4, <2>2, <3>1 DEF Fits
    <2>4. history'[d] # "ended"
      BY <1>0, <1>1, <2>0, <2>1 DEF Dead
    <2>5. Newest(d)'
      BY <1>0, <1>4, <2>0 DEF Newest
    <2>6. Caught(d)'
      BY <1>1, <1>2, <1>6 DEF Caught, Held, About, Concerns
    <2>7. history'[d] # "refused"
      BY <1>0, <2>0 DEF Fed
    <2>8. req'[r].at # "get"
      BY <1>2
    <2>9. LiveOf(d)' \subseteq {device_token'[d]}
      BY <1>0, <1>4, <2>1, <2>2
    <2>. QED BY <1>1, <1>2, <1>3, <2>0, <2>1, <2>3, <2>4, <2>5, <2>6, <2>7, <2>8, <2>9, AloneGood
  <1>. QED BY <1>5, <1>6

LEMMA DropGood ==
  ASSUME Whole, Whole', NEW d \in Devices, Good(d), NEW r \in Requests, Drop(r)
  PROVE  Good(d)'
  <1>0. /\ UNCHANGED <<issued, user_sessions, flight, cookie, history>>
        /\ live' = live \ {req[r].token}
        /\ device_token' = [device_token EXCEPT ![req[r].device] = 0]
    BY DEF Drop
  <1>1. /\ req[r].at = "drop" /\ req[r] # Idle /\ req[r] \in Req /\ Placed(req[r])
        /\ req[r].op \in Signins /\ req[r].op \notin {"query", "password"}
        /\ Holds(req[r].token, req[r].device) /\ req[r].device \in Devices
    BY ASignin DEF Drop, Placed, Signins
  <1>2. /\ \A x \in Requests \ {r} : req'[x] = req[x]
        /\ \/ req[r].caller = "gone" /\ req'[r] = Idle
           \/ /\ req'[r] # Idle /\ req'[r].at = "save"
              /\ req'[r].op = req[r].op /\ req'[r].device = req[r].device
              /\ req'[r].caller = req[r].caller
    <2>1. CASE req[r].caller = "gone"
      <3>1. Ends(r) /\ Typed
        BY <2>1 DEF Drop, Dropped, Whole
      <3>. QED BY <2>1, <3>1, EndsShape
    <2>2. CASE req[r].caller # "gone"
      <3>1. req' = [req EXCEPT ![r].at = "save", ![r].token = 0]
        BY <2>2 DEF Drop, Dropped
      <3>2. /\ req'[r] = [req[r] EXCEPT !.at = "save", !.token = 0]
            /\ \A x \in Requests \ {r} : req'[x] = req[x]
        BY <3>1 DEF Whole, Typed, TypeOK
      <3>3. req'[r].at = "save" /\ req'[r] # Idle
        BY <1>1, <3>2 DEF Req, Idle
      <3>4. /\ req'[r].op = req[r].op /\ req'[r].device = req[r].device
            /\ req'[r].caller = req[r].caller
        BY <1>1, <3>2 DEF Req
      <3>. QED BY <3>2, <3>3, <3>4
    <2>. QED BY <2>1, <2>2
  <1>3. Follows(r)
    BY <1>1, <1>2 DEF Follows, Busy
  <1>4. LiveOf(d)' = LiveOf(d) \ {req[r].token}
    BY <1>0 DEF LiveOf
  <1>5. CASE req[r].device # d
    <2>1. LiveOf(d)' = LiveOf(d)
      BY <1>1, <1>4, <1>5, NoToken
    <2>2. device_token'[d] = device_token[d]
      BY <1>0, <1>5
    <2>. QED BY <1>0, <1>1, <1>2, <1>3, <1>5, <2>1, <2>2, GoesElsewhere
  <1>6. CASE req[r].device = d
    <2>. SUFFICES ASSUME history'[d] # "disturbed" PROVE Good(d)'
      BY DEF Good
    <2>0. Apart(d) /\ Tidy(d) /\ Newest(d) /\ Dead(d) /\ Fed(d) /\ history[d] # "disturbed"
      BY <1>0 DEF Good
    <2>1. Of(r, d) /\ Busy(r) /\ Concerns(r, d)
      BY <1>1, <1>6 DEF Of, Busy, Concerns
    <2>2. req'[r] # Idle /\ req'[r].at = "save"
      BY <1>2, <2>0, <2>1 DEF Apart
    <2>3. LiveOf(d)' = {}
      BY <1>1, <1>4, <2>0, <2>1 DEF Tidy, Fits
    <2>4. history'[d] # "ended"
      BY <1>0, <1>1, <2>0, <2>1 DEF Dead
    <2>5. Newest(d)'
      BY <2>3 DEF Newest
    <2>6. Caught(d)'
      BY <1>1, <1>2, <1>6, <2>2 DEF Caught, Held, About, Concerns
    <2>7. history'[d] # "refused"
      BY <1>0, <2>0 DEF Fed
    <2>8. Fits(req'[r], LiveOf(d)')
      BY <2>2, <2>3 DEF Fits
    <2>. QED BY <1>1, <1>2, <1>3, <2>0, <2>1, <2>2, <2>3, <2>4, <2>5, <2>6, <2>7, <2>8, AloneGood
  <1>. QED BY <1>5, <1>6

LEMMA SaveGood ==
  ASSUME Whole, Whole', NEW d \in Devices, Good(d), NEW r \in Requests, Save(r)
  PROVE  Good(d)'
  <1>. DEFINE t == Len(issued) + 1
              e == req[r].device
  <1>0. /\ UNCHANGED <<device_token, flight, cookie, history>>
        /\ live' = live \cup {t} /\ user_sessions' \subseteq user_sessions \cup {e}
    BY DEF Save
  <1>1. /\ req[r].at = "save" /\ req[r] # Idle /\ req[r] \in Req /\ Placed(req[r])
        /\ req[r].op # "password" /\ e \in Devices
    BY ASignin DEF Save
  <1>2. /\ req'[r] # Idle /\ req'[r].at = "index" /\ req'[r].fresh = t /\ req'[r].token = req[r].token
        /\ req'[r].op = req[r].op /\ req'[r].device = e /\ req'[r].caller = req[r].caller
        /\ \A x \in Requests \ {r} : req'[x] = req[x]
    <2>1. req' = [req EXCEPT ![r].fresh = t, ![r].at = "index"]
      BY DEF Save
    <2>. HIDE DEF t
    <2>2. /\ req'[r] = [req[r] EXCEPT !.fresh = t, !.at = "index"]
          /\ \A x \in Requests \ {r} : req'[x] = req[x]
      BY <2>1 DEF Whole, Typed, TypeOK
    <2>3. req'[r].at = "index" /\ req'[r] # Idle
      BY <1>1, <2>2 DEF Req, Idle
    <2>4. /\ req'[r].fresh = t /\ req'[r].token = req[r].token
          /\ req'[r].op = req[r].op /\ req'[r].device = e /\ req'[r].caller = req[r].caller
      BY <1>1, <2>2 DEF Req
    <2>. QED BY <2>2, <2>3, <2>4
  <1>3. Follows(r)
    BY <1>1, <1>2 DEF Follows, Busy
  <1>4. /\ t \in Token /\ t \notin DOMAIN issued /\ \A i \in DOMAIN issued : i <= t
        /\ \A i \in DOMAIN issued : i \in DOMAIN issued' /\ issued'[i] = issued[i]
        /\ \A i \in DOMAIN issued' : i # t => i \in DOMAIN issued
        /\ t \in DOMAIN issued' /\ issued'[t].device = e
    <2>1. PICK v : issued' = Append(issued, v) /\ v.device = e
      BY DEF Save
    <2>2. /\ issued \in Seq(Session) /\ Len(issued) \in Nat /\ DOMAIN issued = 1..Len(issued)
          /\ Len(issued) < MaxTokens
      BY LenIsANumber DEF Whole, Typed, TypeOK, Save
    <2>3. Len(issued') = t /\ DOMAIN issued' = 1..t /\ issued'[t] = v
      BY <2>1, <2>2
    <2>4. \A i \in DOMAIN issued : issued'[i] = issued[i]
      BY <2>1, <2>2
    <2>. QED BY <2>1, <2>2, <2>3, <2>4, BoundAssumption DEF Token
  <1>5. live \subseteq DOMAIN issued
    BY DEF Whole, Typed, TypeOK
  <1>6. flight[t].at = "none" /\ flight[t].got = 0
    BY <1>4 DEF Whole, Own, Flown, NoFlight
  <1>. HIDE DEF t
  <1>7. CASE e # d
    <2>1. LiveOf(d)' = LiveOf(d)
      BY <1>0, <1>4, <1>5, <1>7 DEF LiveOf
    <2>2. \A i \in DOMAIN issued' : issued'[i].device = d =>
            i \in DOMAIN issued /\ issued[i].device = d /\ flight'[i] = flight[i]
      BY <1>0, <1>4, <1>7
    <2>3. \A q \in Requests : req'[q] = req[q] \/ (~About(q, d) /\ ~About(q, d)')
      BY <1>1, <1>2, <1>7 DEF About, Concerns
    <2>4. Untouched(d)
      BY <1>0, <1>7, <2>1, <2>2, <2>3 DEF Untouched
    <2>. QED BY <2>4, Elsewhere
  <1>8. CASE e = d
    <2>. SUFFICES ASSUME history'[d] # "disturbed" PROVE Good(d)'
      BY DEF Good
    <2>0. Apart(d) /\ Tidy(d) /\ Newest(d) /\ Dead(d) /\ Fed(d) /\ Caught(d) /\ history[d] # "disturbed"
      BY <1>0 DEF Good
    <2>1. Of(r, d) /\ Busy(r) /\ Concerns(r, d) /\ Past(r, d)
      BY <1>1, <1>8 DEF Of, Busy, Concerns, Past
    <2>2. LiveOf(d) = {}
      BY <1>1, <2>0, <2>1 DEF Tidy, Fits
    <2>3. LiveOf(d)' = {t}
      BY <1>0, <1>4, <1>5, <1>8, <2>2 DEF LiveOf
    <2>4. history'[d] # "ended"
      BY <1>0, <1>1, <2>0, <2>1 DEF Dead
    <2>5. Newest(d)'
      BY <1>0, <1>4, <1>6, <2>3 DEF Newest, Whole, Typed, TypeOK, Token
    <2>6. history'[d] # "refused"
      BY <1>0, <2>0 DEF Fed
    <2>7. Fits(req'[r], LiveOf(d)')
      BY <1>2, <2>3 DEF Fits
    <2>8. CASE req[r].op # "query"
      <3>1. Caught(d)'
        BY <1>1, <1>2, <1>8, <2>8 DEF Caught, Held, About, Concerns
      <3>. QED BY <1>2, <1>3, <2>0, <2>1, <2>4, <2>5, <2>6, <2>7, <2>8, <3>1, AloneGood
    <2>9. CASE req[r].op = "query"
      <3>1. \A x \in Requests : (Of(x, d)' <=> Of(x, d)) /\ (About(x, d)' <=> About(x, d))
        BY <1>1, <1>2 DEF Of, About, Concerns
      <3>2. Apart(d)'
        <4>1. \A x \in Requests : Follows(x)
          <5>1. \A x \in Requests \ {r} : Follows(x)
            BY <1>2 DEF Follows, Busy
          <5>. QED BY <1>3, <5>1
        <4>2. \A x \in Requests : Past(x, d)' => Past(x, d)
          BY <1>2, <2>1, <3>1 DEF Past
        <4>. QED BY <2>0, <4>1, <4>2, ApartOn
      \* Beside it there are only queries, none past its look at the token.
      <3>3. ASSUME NEW x \in Requests \ {r}, About(x, d)
            PROVE  req[x].op = "query" /\ req[x].at \notin {"rotate", "save", "index"}
        <4>1. req[x].op = "query"
          BY <2>0, <2>1, <3>3 DEF Apart, About, Busy
        <4>2. Of(x, d)
          BY <3>3, <4>1 DEF Of, About, Concerns
        <4>. QED BY <2>0, <2>1, <4>1, <4>2 DEF Apart, Past
      <3>4. Tidy(d)'
        <4>1. ASSUME NEW x \in Requests, Of(x, d)' PROVE Fits(req'[x], LiveOf(d)')
          <5>1. CASE x = r
            BY <2>7, <5>1
          <5>2. CASE x # r
            <6>1. About(x, d) /\ req'[x] = req[x]
              BY <1>2, <3>1, <4>1, <5>2 DEF Of, About, Concerns
            <6>2. req[x].op = "query" /\ req[x].at \notin {"rotate", "save", "index", "drop", "out"}
              <7>1. Placed(req[x])
                BY <6>1 DEF About, Whole, Own, Rooted
              <7>. QED BY <3>3, <5>2, <6>1, <7>1 DEF Placed, Signins
            <6>. QED BY <6>1, <6>2 DEF Fits
          <5>. QED BY <5>1, <5>2
        <4>2. Of(r, d)' /\ req'[r].at = "index"
          BY <1>2, <2>1, <3>1
        <4>3. \A x \in Requests : req'[x] # Idle => req'[x].op # "password"
          BY <1>1, <1>2, <3>3 DEF About, Concerns
        <4>. QED BY <4>1, <4>2, <4>3 DEF Tidy, Fits
      <3>5. Dead(d)'
        BY <2>4 DEF Dead
      <3>6. Fed(d)'
        <4>1. \A x \in Requests : Of(x, d)' /\ req'[x].at = "get" => Of(x, d) /\ req[x].at = "get"
          BY <1>2, <3>1
        <4>. QED BY <1>0, <2>0, <2>2, <2>6, <4>1 DEF Fed
      <3>7. Caught(d)'
        <4>. SUFFICES ASSUME history'[d] = "clean", ~Held(d)' PROVE Caught(d)'
          BY DEF Caught
        <4>1. history[d] = "clean" /\ ~Held(d) /\ cookie'[d] = cookie[d]
          BY <1>0, <1>2, <3>1 DEF Held
        <4>2. \A i \in Token : Rides(i, d) => Rides(i, d)'
          BY <1>0, <2>2 DEF Rides
        <4>3. \A i \in Maybe : Reached(i, d) => Reached(i, d)'
          BY <1>0, <2>2 DEF Reached
        <4>4. \A x \in Requests : Of(x, d)' =>
                /\ Of(x, d) /\ req'[x].token = req[x].token
                /\ req'[x].at = "sent" => req[x].at = "sent"
                /\ req'[x].at # "reply" => req[x].at # "reply"
                /\ req'[x].at = "reply" => req[x].at = "reply" /\ req'[x].fresh = req[x].fresh
          BY <1>1, <1>2, <3>1
        <4>5. Reached(0, d)'
          BY <1>0, BoundAssumption DEF Reached, Whole, Typed, TypeOK, Maybe
        <4>6. \A i \in DOMAIN issued' : issued'[i].device = d =>
                \/ i \in DOMAIN issued /\ issued[i].device = d /\ flight'[i].got = flight[i].got
                \/ Reached(flight[i].got, d)'
          <5>1. \A i : i = t => flight'[i].got = 0
            BY <1>0, <1>6
          <5>2. \A n : n = 0 => (Reached(0, d)' => n \in LiveOf(d)' \/ n <= cookie'[d])
            BY DEF Reached
          <5>. QED BY <1>0, <1>4, <4>5, <5>1, <5>2 DEF Reached
        <4>7. \A x \in Requests : Awaited(x, d) => Awaited(x, d)'
          BY <1>0, <1>1, <1>2, <3>1 DEF Awaited
        <4>8. cookie[d] # 0 /\ cookie[d] \notin LiveOf(d)' /\ flight'[cookie[d]].at = "done"
                => \E x \in Requests : Awaited(x, d)'
          BY <1>0, <2>0, <2>2, <4>1, <4>7 DEF Caught
        <4>. QED BY <2>0, <4>1, <4>2, <4>3, <4>4, <4>6, <4>8, CaughtOn
      <3>. QED BY <2>5, <3>2, <3>4, <3>5, <3>6, <3>7 DEF Good
    <2>. QED BY <2>8, <2>9
  <1>. QED BY <1>7, <1>8

LEMMA OutGood ==
  ASSUME Whole, Whole', NEW d \in Devices, Good(d), NEW r \in Requests, Out(r)
  PROVE  Good(d)'
  <1>. DEFINE e == req[r].device
  <1>0. /\ UNCHANGED <<issued, flight, cookie>>
        /\ live' = live \ {req[r].token}
        /\ device_token' = [device_token EXCEPT ![e] = 0]
        /\ user_sessions' = user_sessions \ {e} /\ Mark({e}, "ended")
        /\ Ends(r) /\ Typed
    BY DEF Out, Whole
  <1>1. /\ req[r].at = "out" /\ req[r] # Idle /\ Placed(req[r]) /\ req[r].op = "logout"
        /\ Holds(req[r].token, e) /\ e \in Devices
    BY ASignin DEF Out, Placed
  <1>2. req'[r] = Idle /\ \A x \in Requests \ {r} : req'[x] = req[x]
    BY <1>0, EndsShape
  <1>3. Follows(r)
    BY <1>2 DEF Follows
  <1>4. LiveOf(d)' = LiveOf(d) \ {req[r].token}
    BY <1>0 DEF LiveOf
  <1>5. CASE e # d
    <2>1. LiveOf(d)' = LiveOf(d)
      BY <1>1, <1>4, <1>5, NoToken
    <2>2. device_token'[d] = device_token[d] /\ history'[d] = history[d]
      BY <1>0, <1>5, MarkShape
    <2>. QED BY <1>0, <1>1, <1>2, <1>3, <1>5, <2>1, <2>2, GoesElsewhere
  <1>6. CASE e = d
    <2>. SUFFICES ASSUME history'[d] # "disturbed" PROVE Good(d)'
      BY DEF Good
    <2>0. history'[d] = "ended" /\ history[d] # "disturbed"
      BY <1>0, <1>6, MarkShape DEF Becomes
    <2>1. Of(r, d) /\ Tidy(d)
      BY <1>1, <1>6, <2>0 DEF Of, Good
    <2>2. LiveOf(d)' = {}
      BY <1>1, <1>4, <2>1 DEF Tidy, Fits
    <2>3. Newest(d)' /\ Caught(d)'
      BY <2>0, <2>2 DEF Newest, Caught
    <2>4. d \notin user_sessions'
      BY <1>0, <1>6
    <2>. QED BY <1>1, <1>2, <1>3, <2>0, <2>1, <2>2, <2>3, <2>4, AloneGood
  <1>. QED BY <1>5, <1>6

LEMMA IndexGood ==
  ASSUME Whole, Whole', NEW d \in Devices, Good(d), NEW r \in Requests, Index(r)
  PROVE  Good(d)'
  <1>. DEFINE e == req[r].device
              n == req[r].fresh
              was == [req[r] EXCEPT !.at = "reply"]
  <1>0. /\ UNCHANGED <<issued, live, user_sessions, cookie, history>>
        /\ device_token' = [device_token EXCEPT ![e] = n] /\ Typed
    BY DEF Index, Whole
  <1>1. /\ req[r].at = "index" /\ req[r] # Idle /\ req[r] \in Req /\ Placed(req[r])
        /\ req[r].op # "password" /\ e \in Devices /\ n # 0
    BY ASignin DEF Index, Placed
  <1>2. was # Idle /\ was.at = "reply" /\ was.op = req[r].op /\ was.device = e
        /\ was.caller = req[r].caller /\ was.token = req[r].token /\ was.fresh = n
    BY <1>1 DEF Req, Idle
  <1>. HIDE DEF was
  <1>3. LiveOf(d)' = LiveOf(d)
    BY <1>0 DEF LiveOf
  <1>4. "reply" \in Steps
    BY DEF Steps
  <1>5. CASE e # d
    <2>0. device_token'[d] = device_token[d] /\ history'[d] = history[d]
      BY <1>0, <1>5
    <2>1. CASE req[r].caller = "gone" /\ Ends(r) /\ UNCHANGED flight
      <3>1. req'[r] = Idle /\ \A x \in Requests \ {r} : req'[x] = req[x]
        BY <1>0, <2>1, EndsShape
      <3>2. Follows(r)
        BY <3>1 DEF Follows
      <3>. QED BY <1>0, <1>1, <1>3, <1>5, <2>0, <2>1, <3>1, <3>2, GoesElsewhere
    <2>2. CASE req[r].op = "query" /\ Settle(r, n, was)
      BY <1>0, <1>1, <1>2, <1>5, <2>0, <2>2, SettlesElsewhere
    <2>3. CASE Goes(r, "reply") /\ UNCHANGED flight
      <3>1. Follows(r) /\ \A x \in Requests \ {r} : req'[x] = req[x]
        BY <1>0, <1>1, <1>4, <2>3, GoesShape DEF Follows, Busy, Alike
      <3>. QED BY <1>0, <1>1, <1>3, <1>5, <2>0, <2>3, <3>1, GoesElsewhere
    <2>. QED BY <2>1, <2>2, <2>3 DEF Index, was
  <1>6. CASE e = d
    <2>. SUFFICES ASSUME history'[d] # "disturbed" PROVE Good(d)'
      BY DEF Good
    <2>0. Apart(d) /\ Tidy(d) /\ Newest(d) /\ Dead(d) /\ Fed(d) /\ Caught(d) /\ history[d] # "disturbed"
      BY <1>0 DEF Good
    <2>1. Of(r, d) /\ Busy(r) /\ Concerns(r, d) /\ Past(r, d) /\ req[r].caller = "waits"
      BY <1>1, <1>6, <2>0 DEF Of, Busy, Concerns, Past, Apart
    <2>2. LiveOf(d) = {n}
      BY <1>1, <2>0, <2>1 DEF Tidy, Fits
    <2>3. history'[d] # "ended" /\ history'[d] # "refused"
      BY <1>0, <2>0, <2>2 DEF Dead, Fed
    <2>4. device_token'[d] = n
      BY <1>0, <1>6 DEF Typed, TypeOK
    <2>5. CASE req[r].op # "query" /\ Goes(r, "reply") /\ UNCHANGED flight
      <3>1. /\ req'[r] # Idle /\ req'[r].op = req[r].op /\ req'[r].at = "reply"
            /\ req'[r].device = e /\ req'[r].fresh = n
            /\ Follows(r) /\ \A x \in Requests \ {r} : req'[x] = req[x]
        BY <1>0, <1>1, <1>4, <2>5, GoesShape DEF Follows, Busy, Alike
      <3>2. Newest(d)'
        BY <1>0, <1>3, <2>0, <2>5 DEF Newest
      <3>3. Caught(d)'
        BY <1>1, <1>6, <2>5, <3>1 DEF Caught, Held, About, Concerns
      <3>4. Fits(req'[r], LiveOf(d)')
        BY <1>3, <2>2, <3>1 DEF Fits
      <3>. QED BY <1>3, <2>0, <2>1, <2>2, <2>3, <2>4, <2>5, <3>1, <3>2, <3>3, <3>4, AloneGood
    <2>6. CASE req[r].op = "query" /\ Settle(r, n, was)
      <3>1. /\ \A x \in Requests : Follows(x)
            /\ \A x \in Requests : Of(x, d)' => Of(x, d)
            /\ \A x \in Requests \ {r} : (Of(x, d)' <=> Of(x, d)) /\ (About(x, d)' <=> About(x, d))
            /\ \A x \in Requests \ {r} : req[x] # Idle => req'[x] # Idle /\ req'[x].op = req[x].op
            /\ \A x \in Requests : Past(x, d)' => Past(x, d)
            /\ \A x \in Requests \ {r} :
                 req'[x] = req[x] \/ (/\ req[x].at = "waiting" /\ req'[x].at = "reply"
                                      /\ req[x].op = "query" /\ req'[x].op = "query"
                                      /\ req'[x].token = req[x].token /\ req'[x].fresh = n)
        BY <1>2, <1>6, <2>1, <2>6, SettlesHere
      <3>2. Apart(d)'
        BY <2>0, <3>1, ApartOn
      <3>3. req'[r] = was /\ Of(r, d)'
        BY <1>1, <1>2, <1>6, <2>6 DEF Settle, Of
      \* The new token's entry is as it was, the old one's is settled.
      <3>4. /\ \A i \in Token : i # req[r].token => flight'[i] = flight[i]
            /\ req[r].token \in Token /\ flight'[req[r].token] = [at |-> "done", got |-> n]
            /\ n \in Token /\ n # req[r].token
        <4>1. req[r].token \in Token
          BY <1>1, <2>6, AQuery
        <4>2. n \in Token
          BY <1>1 DEF Req, Token, Maybe
        <4>3. n # req[r].token
          BY <1>1, <2>6, <4>1, <4>2 DEF Placed, Token
        <4>. QED BY <2>6, <4>1, <4>2, <4>3 DEF Settle, Whole, Typed, TypeOK
      <3>5. Tidy(d)'
        <4>1. ASSUME NEW x \in Requests, Of(x, d)' PROVE Fits(req'[x], LiveOf(d)')
          <5>1. CASE x = r
            BY <1>2, <2>6, <3>3, <5>1 DEF Fits
          <5>2. CASE x # r /\ req'[x] = req[x]
            BY <1>3, <2>0, <3>1, <4>1, <5>2 DEF Tidy
          <5>3. CASE x # r /\ req'[x] # req[x]
            <6>1. req'[x].at = "reply" /\ req'[x].op = "query"
              BY <3>1, <5>3
            <6>. QED BY <6>1 DEF Fits
          <5>. QED BY <5>1, <5>2, <5>3
        <4>2. \A x \in Requests : req'[x] # Idle => req'[x].op # "password"
          <5>1. \A x \in Requests \ {r} : req[x] # Idle => req[x].op # "password"
            BY <1>1, <2>0, <2>1, Lone DEF Apart, Busy, Concerns
          <5>2. \A x \in Requests \ {r} : req'[x] # Idle => req'[x].op # "password"
            BY <3>1, <5>1
          <5>. QED BY <1>1, <1>2, <3>3, <5>2
        <4>. QED BY <1>3, <2>2, <2>4, <4>1, <4>2 DEF Tidy, Fits
      <3>6. Newest(d)'
        <4>1. \A i \in LiveOf(d) : flight'[i] = flight[i]
          BY <2>2, <3>4
        <4>. QED BY <1>0, <1>3, <2>0, <4>1 DEF Newest
      <3>7. Dead(d)'
        BY <2>3 DEF Dead
      <3>8. Fed(d)'
        <4>1. \A x \in Requests : Of(x, d)' /\ req'[x].at = "get" => Of(x, d) /\ req'[x] = req[x]
          BY <1>2, <3>1, <3>3
        <4>. QED BY <1>0, <1>3, <2>0, <2>3, <4>1 DEF Fed
      <3>9. Caught(d)'
        <4>. SUFFICES ASSUME history'[d] = "clean", ~Held(d)' PROVE Caught(d)'
          BY DEF Caught
        <4>1. history[d] = "clean" /\ ~Held(d) /\ cookie'[d] = cookie[d]
          <5>1. \A x \in Requests : About(x, d) /\ req[x].op # "query" => About(x, d)' /\ req'[x].op # "query"
            BY <2>6, <3>1 DEF About
          <5>. QED BY <1>0, <5>1 DEF Held
        <4>2. \A i \in Token : Rides(i, d) => Rides(i, d)'
          BY <1>3, <3>4 DEF Rides
        <4>3. \A i : Reached(i, d) => Reached(i, d)'
          BY <1>0, <1>3 DEF Reached
        <4>4. Reached(req[r].fresh, d)
          BY <2>2 DEF Reached
        <4>5. ASSUME NEW x \in Requests, Of(x, d)'
              PROVE  /\ Of(x, d) /\ req'[x].token = req[x].token
                     /\ req'[x].at = "sent" => req[x].at = "sent"
                     /\ req'[x].at # "reply" => req[x].at # "reply"
                     /\ req'[x].at = "reply" => \/ req[x].at = "reply" /\ req'[x].fresh = req[x].fresh
                                                \/ Reached(req[x].fresh, d)'
          <5>1. \A i : i = n => i \in LiveOf(d)'
            BY <1>3, <2>2
          <5>2. CASE x = r
            BY <1>1, <1>2, <2>1, <3>3, <5>1, <5>2 DEF Reached
          <5>3. CASE x # r
            BY <3>1, <4>5, <5>1, <5>3 DEF Reached
          <5>. QED BY <5>2, <5>3
        <4>6. ASSUME NEW i \in DOMAIN issued', issued'[i].device = d
              PROVE  \/ i \in DOMAIN issued /\ issued[i].device = d /\ flight'[i].got = flight[i].got
                     \/ Reached(flight[i].got, d)'
          <5>1. i \in DOMAIN issued /\ i \in Token
            BY <1>0, LenIsANumber, BoundAssumption DEF Whole, Typed, TypeOK, Token
          <5>2. i = req[r].token => flight'[i].got \in LiveOf(d)'
            BY <1>3, <2>2, <3>4
          <5>. QED BY <1>0, <3>4, <4>6, <5>1, <5>2 DEF Reached
        <4>7. ASSUME cookie[d] # 0, cookie[d] \notin LiveOf(d)', flight'[cookie[d]].at = "done"
              PROVE  \E x \in Requests : Awaited(x, d)'
          <5>1. CASE cookie[d] = req[r].token
            BY <1>0, <1>1, <1>2, <3>3, <5>1 DEF Awaited
          <5>2. CASE cookie[d] # req[r].token
            <6>1. cookie[d] \in Token
              BY <4>7 DEF Whole, Typed, TypeOK, Token, Maybe
            <6>2. PICK x \in Requests : Awaited(x, d)
              BY <1>3, <2>0, <3>4, <4>1, <4>7, <5>2, <6>1 DEF Caught
            <6>3. x # r /\ req'[x] = req[x] /\ Of(x, d)'
              BY <1>1, <3>1, <6>2 DEF Awaited
            <6>4. Awaited(x, d)'
              BY <1>0, <6>2, <6>3 DEF Awaited
            <6>. QED BY <6>4
          <5>. QED BY <5>1, <5>2
        <4>. QED BY <2>0, <4>1, <4>2, <4>3, <4>5, <4>6, <4>7, CaughtOn
      <3>. QED BY <3>2, <3>5, <3>6, <3>7, <3>8, <3>9 DEF Good
    <2>. QED BY <2>1, <2>5, <2>6 DEF Index, was
  <1>. QED BY <1>5, <1>6

LEMMA AnswerGood ==
  ASSUME Whole, Whole', NEW d \in Devices, Good(d), NEW r \in Requests, Answer(r)
  PROVE  Good(d)'
  <1>. DEFINE e == req[r].device
              n == req[r].fresh
  <1>0. UNCHANGED <<issued, live, device_token, user_sessions, flight>> /\ Ends(r) /\ Typed
    BY DEF Answer, Redis, Whole
  <1>1. /\ req[r].at = "reply" /\ req[r] # Idle /\ req[r] \in Req /\ Placed(req[r])
        /\ req[r].op # "password" /\ e \in Devices /\ Holds(n, e)
        /\ req[r].op # "query" => n # 0
    BY ASignin DEF Answer, Placed
  <1>2. req'[r] = Idle /\ \A x \in Requests \ {r} : req'[x] = req[x]
    BY <1>0, EndsShape
  <1>3. LiveOf(d)' = LiveOf(d)
    BY <1>0 DEF LiveOf
  <1>4. \A x \in Requests : Follows(x)
    <2>1. \A x \in Requests \ {r} : Follows(x)
      BY <1>2 DEF Follows, Busy
    <2>. QED BY <1>2, <2>1 DEF Follows
  <1>5. \/ n = 0 /\ UNCHANGED <<cookie, history>>
        \/ n # 0 /\ cookie' = [cookie EXCEPT ![e] = n] /\ Mark({x \in {e} : n < cookie[x]}, "late")
    BY DEF Answer
  <1>6. CASE e # d
    <2>1. cookie'[d] = cookie[d]
      BY <1>0, <1>5, <1>6 DEF Typed, TypeOK
    <2>2. history'[d] = history[d]
      BY <1>5, <1>6, MarkShape
    <2>. QED BY <1>0, <1>1, <1>2, <1>3, <1>4, <1>6, <2>1, <2>2, GoesElsewhere
  <1>7. CASE e = d
    <2>. SUFFICES ASSUME history'[d] # "disturbed" PROVE Good(d)'
      BY DEF Good
    <2>0. /\ history'[d] = history[d] \/ (n < cookie[d] /\ history'[d] = Becomes(history[d], "late"))
          /\ n # 0 => cookie'[d] = n
          /\ n = 0 => cookie'[d] = cookie[d]
          /\ n < cookie[d] /\ n # 0 => history'[d] = Becomes(history[d], "late")
      <3>1. CASE n = 0
        BY <1>5, <3>1, BoundAssumption DEF Typed, TypeOK, Maybe
      <3>2. CASE n # 0
        <4>1. history'[d] = IF n < cookie[d] THEN Becomes(history[d], "late") ELSE history[d]
          BY <1>5, <1>7, <3>2, MarkShape
        <4>2. cookie'[d] = n
          BY <1>0, <1>5, <1>7, <3>2 DEF Typed, TypeOK
        <4>. QED BY <3>2, <4>1, <4>2
      <3>. QED BY <3>1, <3>2
    <2>1. /\ history[d] # "disturbed"
          /\ history'[d] = "clean" => history[d] = "clean" /\ (n # 0 => ~(n < cookie[d]))
          /\ history'[d] = "ended" => history[d] = "ended"
          /\ history'[d] = "refused" => history[d] = "refused"
      <3>1. /\ Becomes(history[d], "late") # "disturbed" => history[d] # "disturbed"
            /\ Becomes(history[d], "late") # "clean"
            /\ Becomes(history[d], "late") = "ended" => history[d] = "ended"
            /\ Becomes(history[d], "late") = "refused" => history[d] = "refused"
        BY FateOf
      <3>. QED BY <2>0, <3>1
    <2>2. Apart(d) /\ Tidy(d) /\ Newest(d) /\ Dead(d) /\ Fed(d) /\ Caught(d)
      BY <2>1 DEF Good
    <2>3. Of(r, d)
      BY <1>1, <1>7 DEF Of
    <2>4. Newest(d)'
      BY <1>0, <1>3, <2>2 DEF Newest
    <2>5. \A x \in Requests : Of(x, d)' => x # r /\ Of(x, d) /\ req'[x] = req[x]
      BY <1>2 DEF Of
    <2>6. history'[d] # "refused"
      BY <2>1, <2>2 DEF Fed
    <2>n. n \in Maybe /\ cookie[d] \in Maybe
      BY <1>0, <1>1 DEF Req, Typed, TypeOK
    <2>7. CASE req[r].op # "query"
      <3>1. n \in LiveOf(d) /\ n # 0
        BY <1>1, <2>2, <2>3, <2>7 DEF Tidy, Fits
      <3>2. \A x \in Requests \ {r} : Of(x, d) => req[x].at = "reply"
        <4>1. Busy(r) /\ Concerns(r, d)
          BY <1>1, <1>7, <2>7 DEF Busy, Concerns
        <4>. QED BY <2>2, <2>7, <4>1, Lone DEF Of, About, Concerns
      <3>3. LiveOf(d)' \subseteq {device_token'[d]}
        BY <1>0, <1>1, <1>3, <2>2, <3>2 DEF Tidy
      <3>4. \A i \in DOMAIN issued : issued[i].device = d => i <= n
        BY <2>2, <3>1 DEF Newest
      <3>5. \A i : Holds(i, d) => i <= n
        BY <2>n, <3>4, BoundAssumption DEF Holds, Maybe
      <3>6. Caught(d)'
        <4>. SUFFICES ASSUME history'[d] = "clean" PROVE Caught(d)'
          BY DEF Caught
        <4>1. cookie'[d] = n
          BY <2>0, <3>1
        <4>2. \A i : i = n => i \in LiveOf(d)'
          BY <1>3, <3>1
        <4>3. cookie'[d] # 0 => Rides(cookie[d], d)'
          BY <4>1, <4>2 DEF Rides
        <4>4. ASSUME NEW x \in Requests, Of(x, d)'
              PROVE  /\ req'[x].at = "sent" => Rides(req[x].token, d)'
                     /\ req'[x].at # "reply" => req'[x].token <= cookie'[d]
                     /\ req'[x].at = "reply" => Reached(req[x].fresh, d)'
          <5>1. x # r /\ Of(x, d) /\ req'[x] = req[x] /\ req[x].at = "reply"
            BY <2>5, <3>2, <4>4
          <5>2. Holds(req[x].fresh, d)
            BY <5>1 DEF Of, Whole, Own, Rooted, Owned
          <5>. QED BY <3>5, <4>1, <5>1, <5>2 DEF Reached
        <4>5. ASSUME NEW i \in DOMAIN issued', issued'[i].device = d
              PROVE  Reached(flight[i].got, d)'
          <5>1. i \in Token
            BY <1>0, LenIsANumber, BoundAssumption DEF Whole, Typed, TypeOK, Token
          <5>2. Flown(i, flight[i])
            BY <5>1 DEF Whole, Own
          <5>3. Holds(flight[i].got, d)
            BY <1>0, <4>5, <5>2 DEF Flown, NoFlight, Holds
          <5>4. flight'[i].got <= cookie'[d]
            BY <1>0, <3>5, <4>1, <5>3
          <5>. QED BY <5>4 DEF Reached
        <4>6. cookie'[d] \in LiveOf(d)'
          BY <4>1, <4>2
        <4>. QED BY <4>3, <4>4, <4>5, <4>6 DEF Caught
      <3>7. history'[d] # "ended"
        BY <2>1, <2>2, <3>1 DEF Dead
      <3>. QED BY <1>2, <1>4, <2>1, <2>3, <2>4, <2>6, <2>7, <3>3, <3>6, <3>7, AloneGood
    <2>8. CASE req[r].op = "query"
      <3>1. Apart(d)'
        <4>1. \A x \in Requests : Past(x, d)' => Past(x, d)
          BY <2>5 DEF Past
        <4>. QED BY <1>4, <2>2, <4>1, ApartOn
      <3>2. Tidy(d)'
        <4>1. \A x \in Requests : /\ Of(x, d)' => Of(x, d)
                                  /\ Of(x, d)' /\ Fits(req[x], LiveOf(d)) => Fits(req'[x], LiveOf(d))
                                  /\ Of(x, d) /\ req[x].at = "index" => Of(x, d)' /\ req'[x].at = "index"
                                  /\ req'[x] # Idle /\ req'[x].op = "password" => req'[x] = req[x]
          BY <1>1, <1>2, <2>5 DEF Of
        <4>. QED BY <1>0, <1>3, <2>2, <4>1, TidyOn
      <3>3. Dead(d)'
        BY <1>0, <1>3, <2>1, <2>2, <2>5 DEF Dead
      <3>4. Fed(d)'
        BY <1>3, <2>1, <2>2, <2>5, <2>6 DEF Fed
      <3>5. Caught(d)'
        <4>. SUFFICES ASSUME history'[d] = "clean", ~Held(d)' PROVE Caught(d)'
          BY DEF Caught
        <4>1. history[d] = "clean" /\ ~Held(d) /\ (n # 0 => ~(n < cookie[d]))
          BY <1>2, <2>1, <2>8 DEF Held, About, Concerns
        <4>2. cookie[d] <= cookie'[d] /\ (n = 0 \/ cookie'[d] = n)
          BY <2>0, <2>n, <4>1, BoundAssumption DEF Maybe
        <4>3. Reached(n, d)
          BY <1>1, <2>2, <2>3, <4>1 DEF Caught
        <4>4. n # 0 => n \in LiveOf(d) \/ n = cookie[d]
          BY <2>n, <4>1, <4>3, BoundAssumption DEF Reached, Maybe
        <4>5. cookie'[d] # 0 => cookie'[d] \in LiveOf(d) \/ cookie'[d] = cookie[d]
          BY <2>0, <4>4
        <4>6. \A i : Rides(i, d)' <=> Rides(i, d)
          BY <1>0, <1>3 DEF Rides
        <4>7. cookie'[d] # 0 => Rides(cookie[d], d)'
          BY <1>0, <1>3, <2>2, <4>1, <4>5 DEF Caught, Rides
        <4>8. \A i \in Maybe : Reached(i, d) => i \in LiveOf(d)' \/ i <= cookie'[d]
          <5>1. cookie'[d] \in Maybe
            BY <2>0, <2>n
          <5>. QED BY <1>3, <2>n, <4>2, <5>1, BoundAssumption DEF Reached, Maybe
        <4>9. ASSUME NEW x \in Requests, Of(x, d)'
              PROVE  /\ req'[x].at = "sent" => Rides(req[x].token, d)'
                     /\ req'[x].at # "reply" => req'[x].token <= cookie'[d]
                     /\ req'[x].at = "reply" => Reached(req[x].fresh, d)'
          <5>1. x # r /\ Of(x, d) /\ req'[x] = req[x]
            BY <2>5, <4>9
          <5>2. /\ req[x].at = "sent" => Rides(req[x].token, d)
                /\ req[x].at # "reply" => req[x].token <= cookie[d]
                /\ req[x].at = "reply" => Reached(req[x].fresh, d)
            BY <2>2, <4>1, <5>1 DEF Caught
          <5>3. req[x].token \in Maybe /\ req[x].fresh \in Maybe /\ cookie'[d] \in Maybe
            BY <2>0, <2>n, <5>1 DEF Of, Typed, TypeOK, Req, Whole
          <5>4. req[x].at # "reply" => req[x].token <= cookie'[d]
            BY <2>n, <4>2, <5>2, <5>3, BoundAssumption DEF Maybe
          <5>5. req'[x].at = "sent" => Rides(req[x].token, d)'
            BY <1>0, <1>3, <5>1, <5>2 DEF Rides
          <5>. QED BY <4>8, <5>1, <5>2, <5>3, <5>4, <5>5 DEF Reached
        <4>10. ASSUME NEW i \in DOMAIN issued', issued'[i].device = d
               PROVE  Reached(flight[i].got, d)'
          <5>1. i \in Token /\ flight[i].got \in Maybe
            <6>1. i \in Token
              BY <1>0, LenIsANumber, BoundAssumption DEF Whole, Typed, TypeOK, Token
            <6>. QED BY <1>0, <6>1 DEF Typed, TypeOK, Flight
          <5>2. Reached(flight[i].got, d)
            BY <1>0, <2>2, <4>1, <4>10 DEF Caught
          <5>. QED BY <1>0, <4>8, <5>1, <5>2 DEF Reached
        <4>11. ASSUME cookie'[d] # 0, cookie'[d] \notin LiveOf(d)', flight'[cookie'[d]].at = "done"
               PROVE  \E x \in Requests : Awaited(x, d)'
          <5>1. cookie'[d] = cookie[d]
            BY <1>3, <4>5, <4>11
          <5>2. PICK x \in Requests : Awaited(x, d)
            BY <1>0, <1>3, <2>2, <4>1, <4>11, <5>1 DEF Caught
          <5>3. x # r
            <6>1. CASE n = 0
              BY <5>2, <6>1 DEF Awaited
            <6>2. CASE n # 0
              <7>1. req[r].token < cookie[d]
                BY <1>1, <2>0, <2>8, <5>1, <6>2 DEF Placed
              <7>2. req[x].token = cookie[d]
                BY <5>2 DEF Awaited
              <7>. QED BY <2>n, <7>1, <7>2, BoundAssumption DEF Maybe
            <6>. QED BY <6>1, <6>2
          <5>4. req'[x] = req[x]
            BY <1>2, <5>3
          <5>5. Awaited(x, d)'
            BY <5>1, <5>2, <5>4 DEF Awaited, Of
          <5>. QED BY <5>5
        <4>. QED BY <4>7, <4>9, <4>10, <4>11 DEF Caught
      <3>. QED BY <2>4, <3>1, <3>2, <3>3, <3>4, <3>5 DEF Good
    <2>. QED BY <2>7, <2>8
  <1>. QED BY <1>6, <1>7

LEMMA CollectGood ==
  ASSUME Whole, Whole', NEW d \in Devices, Good(d), NEW r \in Requests, Collect(r)
  PROVE  Good(d)'
  <1>0. /\ UNCHANGED <<issued, live, device_token, user_sessions, flight, cookie, history>>
        /\ req[r].at = "collect" /\ Typed
    BY DEF Collect, Redis, Whole
  <1>1. req[r] # Idle /\ req[r] \in Req /\ req[r].op = "password"
    <2>1. req[r].at \in Steps
      BY <1>0 DEF Steps, Handling
    <2>2. req[r] # Idle /\ req[r] \in Req /\ Placed(req[r])
      BY <2>1, AtWork DEF Whole
    <2>. QED BY <1>0, <2>2 DEF Placed
  <1>2. PICK c \in req[r].todo :
          req' = [req EXCEPT ![r].todo = @ \ {c},
                             ![r].seen = @ \cup {c},
                             ![r].found = @ \cup ({device_token[c]} \ {0})]
    BY DEF Collect
  <1>3. /\ req'[r] # Idle /\ req'[r].op = "password" /\ req'[r].device = req[r].device
        /\ req'[r].caller = req[r].caller /\ req'[r].seen = req[r].seen \cup {c}
        /\ req'[r].found = req[r].found \cup ({device_token[c]} \ {0})
        /\ req'[r].at = "collect"
        /\ \A x \in Requests \ {r} : req'[x] = req[x]
    <2>1. /\ req'[r] = [req[r] EXCEPT !.todo = @ \ {c}, !.seen = @ \cup {c},
                                      !.found = @ \cup ({device_token[c]} \ {0})]
          /\ \A x \in Requests \ {r} : req'[x] = req[x]
      BY <1>0, <1>2 DEF Typed, TypeOK
    <2>2. req'[r].at = "collect" /\ req'[r] # Idle
      BY <1>0, <1>1, <2>1 DEF Req, Idle
    <2>3. /\ req'[r].op = "password" /\ req'[r].device = req[r].device
          /\ req'[r].caller = req[r].caller /\ req'[r].seen = req[r].seen \cup {c}
          /\ req'[r].found = req[r].found \cup ({device_token[c]} \ {0})
      BY <1>1, <2>1 DEF Req
    <2>. QED BY <2>1, <2>2, <2>3
  <1>. SUFFICES ASSUME history'[d] # "disturbed" PROVE Good(d)'
    BY DEF Good
  <1>4. Apart(d) /\ Tidy(d) /\ Newest(d) /\ Dead(d) /\ Fed(d)
    BY <1>0 DEF Good
  <1>5. Busy(r) /\ Concerns(r, d)
    BY <1>0, <1>1 DEF Busy, Concerns
  <1>6. \A x \in Requests \ {r} : About(x, d) => req[x].op = "query" /\ req[x].at = "reply"
    BY <1>1, <1>4, <1>5, Lone
  <1>7. LiveOf(d)' = LiveOf(d)
    BY <1>0 DEF LiveOf
  <1>8. \A x \in Requests : Of(x, d)' => x # r /\ Of(x, d) /\ req'[x] = req[x] /\ req[x].at = "reply"
                                            /\ req[x].op = "query"
    BY <1>3, <1>6 DEF Of, About, Concerns
  <1>9. Apart(d)'
    <2>1. \A x \in Requests : Follows(x)
      <3>1. \A x \in Requests \ {r} : Follows(x)
        BY <1>3 DEF Follows, Busy
      <3>2. Follows(r)
        BY <1>1, <1>3, <1>5 DEF Follows
      <3>. QED BY <3>1, <3>2
    <2>2. \A x \in Requests : Past(x, d)' => Past(x, d)
      BY <1>8 DEF Past
    <2>. QED BY <1>4, <2>1, <2>2, ApartOn
  <1>10. Tidy(d)'
    <2>1. \A x \in Requests : Of(x, d)' => Fits(req'[x], LiveOf(d)')
      BY <1>8 DEF Fits
    <2>2. LiveOf(d) \subseteq {device_token[d]}
      <3>1. \A x \in Requests : ~(Of(x, d) /\ req[x].at = "index")
        BY <1>1, <1>6 DEF Of, About, Concerns
      <3>. QED BY <1>4, <3>1 DEF Tidy
    <2>3. ASSUME NEW x \in Requests, req'[x] # Idle, req'[x].op = "password", d \in req'[x].seen
          PROVE  LiveOf(d)' \subseteq req'[x].found
      <3>1. x = r
        BY <1>3, <1>6, <2>3 DEF About, Concerns
      <3>2. CASE d \in req[r].seen
        BY <1>1, <1>3, <1>4, <1>7, <3>1, <3>2 DEF Tidy
      <3>3. CASE d = c
        BY <1>3, <1>7, <2>2, <3>1, <3>3, NoToken
      <3>. QED BY <1>3, <2>3, <3>1, <3>2, <3>3
    <2>. QED BY <1>0, <1>7, <2>1, <2>2, <2>3 DEF Tidy, Fits
  <1>11. Newest(d)'
    BY <1>0, <1>4, <1>7 DEF Newest
  <1>12. Dead(d)' /\ Fed(d)'
    BY <1>0, <1>4, <1>7, <1>8 DEF Dead, Fed
  <1>13. Caught(d)'
    BY <1>3 DEF Caught, Held, About, Concerns
  <1>. QED BY <1>9, <1>10, <1>11, <1>12, <1>13 DEF Good

LEMMA PurgeGood ==
  ASSUME Whole, Whole', NEW d \in Devices, Good(d), NEW r \in Requests, Purge(r)
  PROVE  Good(d)'
  <1>0. /\ UNCHANGED <<issued, flight, cookie>> /\ req[r].at = "collect" /\ Typed /\ Ends(r)
        /\ live' = live \ req[r].found /\ user_sessions' = {}
        /\ device_token'[d] = (IF d \in req[r].seen THEN 0 ELSE device_token[d])
        /\ history'[d] = Becomes(history[d], IF d \in req[r].seen THEN "ended" ELSE "missed")
    BY DEF Purge, MarkRevoked, Whole
  <1>1. req[r] # Idle /\ req[r] \in Req /\ req[r].op = "password"
    <2>1. req[r].at \in Steps
      BY <1>0 DEF Steps, Handling
    <2>2. req[r] # Idle /\ req[r] \in Req /\ Placed(req[r])
      BY <2>1, AtWork DEF Whole
    <2>. QED BY <1>0, <2>2 DEF Placed
  <1>2. req'[r] = Idle /\ \A x \in Requests \ {r} : req'[x] = req[x]
    BY <1>0, EndsShape
  <1>. SUFFICES ASSUME history'[d] # "disturbed" PROVE Good(d)'
    BY DEF Good
  <1>3. /\ history[d] # "disturbed"
        /\ history'[d] = IF d \in req[r].seen THEN "ended" ELSE "missed"
    BY <1>0 DEF Becomes
  <1>4. Apart(d) /\ Tidy(d) /\ Newest(d)
    BY <1>3 DEF Good
  <1>5. Busy(r) /\ Concerns(r, d)
    BY <1>0, <1>1 DEF Busy, Concerns
  <1>6. \A x \in Requests \ {r} : About(x, d) => req[x].op = "query" /\ req[x].at = "reply"
    BY <1>1, <1>4, <1>5, Lone
  <1>7. LiveOf(d)' = LiveOf(d) \ req[r].found
    BY <1>0 DEF LiveOf
  <1>8. d \in req[r].seen => LiveOf(d)' = {}
    BY <1>1, <1>4, <1>7 DEF Tidy
  <1>9. \A x \in Requests : Of(x, d)' => /\ req'[x] = req[x] /\ req'[x].at = "reply"
                                         /\ req'[x].op = "query"
    BY <1>2, <1>6 DEF Of, About, Concerns
  <1>10. Apart(d)'
    <2>1. \A x \in Requests : Follows(x)
      <3>1. \A x \in Requests \ {r} : Follows(x)
        BY <1>2 DEF Follows, Busy
      <3>. QED BY <1>2, <3>1 DEF Follows
    <2>2. \A x \in Requests : Past(x, d)' => Past(x, d)
      BY <1>9 DEF Past
    <2>. QED BY <1>4, <2>1, <2>2, ApartOn
  <1>11. Tidy(d)'
    <2>1. \A x \in Requests : Of(x, d)' => Fits(req'[x], LiveOf(d)')
      BY <1>9 DEF Fits
    <2>2. LiveOf(d) \subseteq {device_token[d]}
      <3>1. \A x \in Requests : ~(Of(x, d) /\ req[x].at = "index")
        BY <1>1, <1>6 DEF Of, About, Concerns
      <3>. QED BY <1>4, <3>1 DEF Tidy
    <2>3. LiveOf(d)' \subseteq {device_token'[d]}
      BY <1>0, <1>7, <1>8, <2>2
    <2>4. \A x \in Requests : req'[x] # Idle => req'[x].op # "password"
      BY <1>2, <1>6 DEF About, Concerns
    <2>. QED BY <2>1, <2>3, <2>4 DEF Tidy, Fits
  <1>12. Newest(d)'
    BY <1>0, <1>4, <1>7 DEF Newest
  <1>13. Dead(d)'
    BY <1>0, <1>3, <1>8, <1>9 DEF Dead
  <1>14. Fed(d)' /\ Caught(d)'
    BY <1>3 DEF Fed, Caught
  <1>. QED BY <1>10, <1>11, <1>12, <1>13, <1>14 DEF Good

\* What fails disturbs the devices it concerns, and no other.
LEMMA TroubleGood ==
  ASSUME Whole, Whole', NEW d \in Devices, Good(d), NEW r \in Requests,
         Throw(r) \/ TimesOut(r) \/ LoseAnswer(r)
  PROVE  Good(d)'
  <1>0. /\ UNCHANGED <<issued, live, device_token, user_sessions, cookie>> /\ Typed
        /\ req[r].at \in Steps
    BY DEF Throw, TimesOut, LoseAnswer, Redis, Whole, Steps, Handling
  <1>1. req[r] # Idle /\ req[r] \in Req /\ Placed(req[r])
    BY <1>0, AtWork DEF Whole
  <1>2. LiveOf(d)' = LiveOf(d)
    BY <1>0 DEF LiveOf
  <1>3. Mark(Concerned(r), "disturbed")
    <2>1. CASE LoseAnswer(r)
      <3>1. req[r].at = "reply" /\ Mark({req[r].device}, "disturbed")
        BY <2>1 DEF LoseAnswer
      <3>2. Concerned(r) = {x \in Devices : x = req[r].device}
        BY <1>1, <3>1 DEF Concerned, Concerns, Placed
      <3>. QED BY <3>1, <3>2 DEF Mark
    <2>. QED BY <2>1 DEF Throw, TimesOut
  <1>4. CASE Concerns(r, d)
    <2>1. history'[d] = "disturbed"
      BY <1>3, <1>4, MarkShape DEF Concerned, Becomes
    <2>. QED BY <2>1 DEF Good
  <1>5. CASE ~Concerns(r, d)
    <2>1. history'[d] = history[d] /\ req[r].op # "password" /\ req[r].device # d
      BY <1>3, <1>5, MarkShape DEF Concerned, Concerns
    <2>2. CASE Ends(r) /\ UNCHANGED flight
      <3>1. req'[r] = Idle /\ \A x \in Requests \ {r} : req'[x] = req[x]
        BY <1>0, <2>2, EndsShape
      <3>2. Follows(r)
        BY <3>1 DEF Follows
      <3>. QED BY <1>0, <1>1, <1>2, <2>1, <2>2, <3>1, <3>2, GoesElsewhere
    <2>3. CASE req[r].op = "query" /\ Settle(r, 0, Idle)
      BY <1>0, <1>1, <2>1, <2>3, SettlesElsewhere
    <2>4. CASE TimesOut(r)
      <3>. DEFINE left == [req[r] EXCEPT !.caller = "gone"]
      <3>1. left.op = req[r].op /\ left.device = req[r].device
        BY <1>1 DEF Req
      <3>2. \/ req[r].op = "query" /\ Settle(r, 0, left)
            \/ req' = [req EXCEPT ![r] = left] /\ UNCHANGED flight
        BY <2>4 DEF TimesOut
      <3>. HIDE DEF left
      <3>3. CASE req[r].op = "query" /\ Settle(r, 0, left)
        BY <1>0, <1>1, <2>1, <3>1, <3>3, SettlesElsewhere
      <3>4. CASE req' = [req EXCEPT ![r] = left] /\ UNCHANGED flight
        <4>1. req'[r] = left /\ \A x \in Requests \ {r} : req'[x] = req[x]
          BY <1>0, <3>4 DEF Typed, TypeOK
        <4>2. \A x \in Requests : req'[x] = req[x] \/ (~About(x, d) /\ ~About(x, d)')
          BY <2>1, <3>1, <4>1 DEF About, Concerns
        <4>3. Untouched(d)
          BY <1>0, <1>2, <2>1, <3>4, <4>2 DEF Untouched
        <4>. QED BY <4>3, Elsewhere
      <3>. QED BY <3>2, <3>3, <3>4
    <2>. QED BY <2>2, <2>3, <2>4 DEF Throw, LoseAnswer
  <1>. QED BY <1>4, <1>5

LEMMA ForgetGood ==
  ASSUME Whole, Whole', NEW d \in Devices, Good(d), NEW t \in Token, Forget(t)
  PROVE  Good(d)'
  <1>0. /\ UNCHANGED <<issued, live, device_token, user_sessions, req, cookie>> /\ Typed
        /\ Mark(Unanswered(t), "late") /\ flight[t].at = "done"
        /\ \A r \in Requests : req[r].at = "sent" => req[r].token # t
    BY DEF Forget, Redis, Whole
  <1>1. flight'[t] = NoFlight /\ \A i : i \in Token /\ i # t => flight'[i] = flight[i]
    BY DEF Forget, Whole, Typed, TypeOK
  <1>2. t \in DOMAIN issued /\ t # 0
    BY <1>0, BoundAssumption DEF Whole, Own, Flown, NoFlight, Token
  <1>3. LiveOf(d)' = LiveOf(d)
    BY <1>0 DEF LiveOf
  <1>4. \A i \in DOMAIN issued : i \in Token
    BY <1>0, LenIsANumber, BoundAssumption DEF Typed, TypeOK, Token
  <1>5. CASE issued[t].device # d
    <2>1. d \notin Unanswered(t)
      BY <1>2, <1>5 DEF Unanswered, Whole, Own, Holds
    <2>2. history'[d] = history[d]
      BY <1>0, <2>1, MarkShape
    <2>3. \A i \in DOMAIN issued : issued[i].device = d => flight'[i] = flight[i]
      BY <1>1, <1>4, <1>5
    <2>4. Untouched(d)
      BY <1>0, <1>3, <2>2, <2>3 DEF Untouched
    <2>. QED BY <2>4, Elsewhere
  <1>6. CASE issued[t].device = d
    <2>. SUFFICES ASSUME history'[d] # "disturbed" PROVE Good(d)'
      BY DEF Good
    <2>0. history'[d] = IF d \in Unanswered(t) THEN Becomes(history[d], "late") ELSE history[d]
      BY <1>0, MarkShape
    <2>1. /\ history[d] # "disturbed"
          /\ history'[d] = "clean" => history[d] = "clean" /\ d \notin Unanswered(t)
          /\ history'[d] = "ended" => history[d] = "ended"
          /\ history'[d] = "refused" => history[d] = "refused"
      <3>1. /\ Becomes(history[d], "late") # "disturbed" => history[d] # "disturbed"
            /\ Becomes(history[d], "late") # "clean"
            /\ Becomes(history[d], "late") = "ended" => history[d] = "ended"
            /\ Becomes(history[d], "late") = "refused" => history[d] = "refused"
        BY FateOf
      <3>. QED BY <2>0, <3>1
    <2>2. Apart(d) /\ Tidy(d) /\ Newest(d) /\ Dead(d) /\ Fed(d) /\ Caught(d)
      BY <2>1 DEF Good
    <2>3. \A x \in Requests : (Of(x, d)' <=> Of(x, d)) /\ (About(x, d)' <=> About(x, d))
      BY <1>0 DEF Of, About, Concerns
    <2>4. Apart(d)'
      BY <1>0, <2>2 DEF Apart, Busy, Concerns, Past, Of
    <2>5. Tidy(d)'
      BY <1>0, <1>3, <2>2, <2>3 DEF Tidy, Fits
    <2>6. Newest(d)'
      <3>1. \A i \in LiveOf(d) : flight'[i].at = "done" => flight[i].at = "done"
        <4>1. \A i \in LiveOf(d) : i \in Token
          BY <1>0, <1>4 DEF LiveOf, Typed, TypeOK
        <4>. QED BY <1>1, <4>1 DEF NoFlight
      <3>. QED BY <1>0, <1>3, <2>2, <3>1 DEF Newest
    <2>7. Dead(d)'
      BY <1>0, <1>3, <2>1, <2>2, <2>3 DEF Dead
    <2>8. Fed(d)'
      BY <1>0, <1>3, <2>1, <2>2, <2>3 DEF Fed
    <2>9. Caught(d)'
      <3>. SUFFICES ASSUME history'[d] = "clean", ~Held(d)' PROVE Caught(d)'
        BY DEF Caught
      <3>1. history[d] = "clean" /\ ~Held(d) /\ d \notin Unanswered(t)
        BY <1>0, <2>1, <2>3 DEF Held
      <3>2. cookie[d] = t => t \in LiveOf(d)
        <4>. SUFFICES ASSUME cookie[d] = t, t \notin LiveOf(d) PROVE FALSE
          OBVIOUS
        <4>1. PICK x \in Requests : Awaited(x, d)
          BY <1>0, <1>2, <2>2, <3>1 DEF Caught
        <4>. QED BY <3>1, <4>1 DEF Awaited, Of, Unanswered
      <3>3. cookie[d] # 0 => cookie[d] \in Token
        BY <1>0 DEF Typed, TypeOK, Token, Maybe
      <3>4. cookie'[d] # 0 => Rides(cookie[d], d)'
        BY <1>0, <1>1, <1>3, <2>2, <3>1, <3>2, <3>3 DEF Caught, Rides
      <3>5. \A i : Reached(i, d)' <=> Reached(i, d)
        BY <1>0, <1>3 DEF Reached
      <3>6. ASSUME NEW x \in Requests, Of(x, d)'
            PROVE  /\ req'[x].at = "sent" => Rides(req[x].token, d)'
                   /\ req'[x].at # "reply" => req'[x].token <= cookie'[d]
                   /\ req'[x].at = "reply" => Reached(req[x].fresh, d)'
        <4>1. Of(x, d) /\ req'[x] = req[x] /\ cookie'[d] = cookie[d]
          BY <1>0, <2>3, <3>6
        <4>2. /\ req[x].at = "sent" => Rides(req[x].token, d)
              /\ req[x].at # "reply" => req[x].token <= cookie[d]
              /\ req[x].at = "reply" => Reached(req[x].fresh, d)
          BY <2>2, <3>1, <4>1 DEF Caught
        <4>3. req[x].at = "sent" => req[x].token \in Token
          <5>1. req[x].at = "sent" => req[x] # Idle /\ req[x].op = "query"
            BY <4>1 DEF Of, Whole, Own, Rooted, Placed
          <5>. QED BY <5>1, AQuery
        <4>4. req'[x].at = "sent" => Rides(req[x].token, d)'
          BY <1>0, <1>1, <1>3, <4>1, <4>2, <4>3 DEF Rides
        <4>5. req'[x].at = "reply" => Reached(req[x].fresh, d)'
          BY <1>0, <1>3, <4>1, <4>2 DEF Reached
        <4>. QED BY <4>1, <4>2, <4>4, <4>5
      <3>7. ASSUME NEW i \in DOMAIN issued', issued'[i].device = d
            PROVE  Reached(flight[i].got, d)'
        <4>1. CASE i = t
          <5>1. flight'[i].got = 0
            BY <1>1, <4>1 DEF NoFlight
          <5>2. 0 <= cookie'[d]
            BY <1>0, BoundAssumption DEF Typed, TypeOK, Maybe
          <5>. QED BY <5>1, <5>2 DEF Reached
        <4>2. CASE i # t
          <5>1. flight'[i] = flight[i]
            BY <1>0, <1>1, <1>4, <4>2
          <5>2. Reached(flight[i].got, d)
            BY <1>0, <2>2, <3>1, <3>7 DEF Caught
          <5>. QED BY <1>0, <1>3, <5>1, <5>2 DEF Reached
        <4>. QED BY <4>1, <4>2
      <3>8. ASSUME cookie'[d] # 0, cookie'[d] \notin LiveOf(d)', flight'[cookie'[d]].at = "done"
            PROVE  \E x \in Requests : Awaited(x, d)'
        <4>1. cookie[d] # t /\ cookie[d] \in Token
          BY <1>0, <1>3, <3>2, <3>3, <3>8
        <4>2. PICK x \in Requests : Awaited(x, d)
          BY <1>0, <1>1, <1>3, <2>2, <3>1, <3>8, <4>1 DEF Caught
        <4>3. Awaited(x, d)'
          BY <1>0, <2>3, <4>2 DEF Awaited
        <4>. QED BY <4>3
      <3>. QED BY <3>4, <3>6, <3>7, <3>8 DEF Caught
    <2>. QED BY <2>4, <2>5, <2>6, <2>7, <2>8, <2>9 DEF Good
  <1>. QED BY <1>5, <1>6

LEMMA LapseGood ==
  ASSUME Whole, Whole', NEW d \in Devices, Good(d), NEW e \in Devices, TokenLapses(e)
  PROVE  Good(d)'
  <1>0. UNCHANGED <<issued, user_sessions, req, flight, cookie>> /\ Mark({e}, "expired") /\ Typed
    BY DEF TokenLapses, Whole
  <1>1. PICK t \in LiveOf(e) :
          /\ \A r \in Requests : req[r] # Idle => req[r].fresh # t
          /\ live' = live \ {t}
          /\ device_token' = [device_token EXCEPT ![e] = IF @ = t THEN 0 ELSE @]
    BY DEF TokenLapses
  <1>2. LiveOf(d)' = LiveOf(d) \ {t}
    BY <1>0, <1>1 DEF LiveOf
  <1>3. CASE e # d
    <2>1. LiveOf(d)' = LiveOf(d)
      BY <1>1, <1>2, <1>3 DEF LiveOf
    <2>2. device_token'[d] = device_token[d]
      BY <1>0, <1>1, <1>3 DEF Typed, TypeOK
    <2>3. history'[d] = history[d]
      BY <1>0, <1>3, MarkShape
    <2>4. Untouched(d)
      BY <1>0, <2>1, <2>2, <2>3 DEF Untouched
    <2>. QED BY <2>4, Elsewhere
  <1>4. CASE e = d
    <2>. SUFFICES ASSUME history'[d] # "disturbed" PROVE Good(d)'
      BY DEF Good
    <2>0. history'[d] = Becomes(history[d], "expired")
      BY <1>0, <1>4, MarkShape
    <2>1. history[d] # "disturbed"
      BY <2>0, FateOf
    <2>2. Apart(d) /\ Tidy(d) /\ Newest(d) /\ Dead(d)
      BY <2>1 DEF Good
    <2>3. history[d] # "ended" /\ t \in LiveOf(d)
      BY <1>1, <1>4, <2>2 DEF Dead
    <2>4. history'[d] \in {"expired", "missed"}
      BY <2>0, <2>1, <2>3 DEF Becomes, Over
    <2>5. \A x \in Requests : (Of(x, d)' <=> Of(x, d)) /\ (About(x, d)' <=> About(x, d))
      BY <1>0 DEF Of, About, Concerns
    <2>6. Apart(d)'
      BY <1>0, <2>2 DEF Apart, Busy, Concerns, Past, Of
    <2>7. ASSUME NEW x \in Requests, Of(x, d)
          PROVE  req[x].at # "index" /\ Fits(req[x], LiveOf(d)')
      <3>1. Fits(req[x], LiveOf(d)) /\ req[x].fresh # t
        BY <1>1, <2>2, <2>7 DEF Tidy, Of
      <3>2. req[x].at # "index"
        BY <2>3, <3>1 DEF Fits
      <3>. QED BY <1>2, <3>1, <3>2 DEF Fits
    <2>8. LiveOf(d)' = {}
      BY <1>2, <2>2, <2>3, <2>7 DEF Tidy
    <2>9. Tidy(d)'
      BY <1>0, <2>5, <2>7, <2>8 DEF Tidy, Fits
    <2>10. Newest(d)' /\ Dead(d)' /\ Fed(d)' /\ Caught(d)'
      BY <2>4, <2>8 DEF Newest, Dead, Fed, Caught
    <2>. QED BY <2>6, <2>9, <2>10 DEF Good
  <1>. QED BY <1>3, <1>4

-------------------------------------------------------------------------------
(* The inductive invariant and what follows from it.                         *)

Sane == Whole /\ \A d \in Devices : Good(d)

LEMMA SaneInit == Init => Sane
  <1>. SUFFICES ASSUME Init PROVE Sane
    OBVIOUS
  <1>1. Whole
    BY TypedInit, OnceInit, OwnInit, UnknownInit DEF Whole
  <1>2. ASSUME NEW d \in Devices PROVE Good(d)
    <2>1. /\ \A r \in Requests : req[r] = Idle
          /\ issued = << >> /\ LiveOf(d) = {} /\ cookie[d] = 0 /\ history[d] = "clean"
      BY DEF Init, Empty, LiveOf
    <2>2. DOMAIN issued = {}
      BY <2>1
    <2>3. Apart(d) /\ Tidy(d)
      BY <2>1 DEF Apart, Busy, Past, Of, Tidy
    <2>4. Newest(d) /\ Dead(d) /\ Fed(d)
      BY <2>1 DEF Newest, Dead, Fed, Of
    <2>5. Caught(d)
      BY <2>1, <2>2 DEF Caught, Of
    <2>. QED BY <2>3, <2>4, <2>5 DEF Good
  <1>. QED BY <1>1, <1>2 DEF Sane

LEMMA SaneStep == Sane /\ [Next]_vars => Sane'
  <1>. SUFFICES ASSUME Sane, [Next]_vars PROVE Sane'
    OBVIOUS
  <1>1. Whole /\ Whole'
    BY WholeStep DEF Sane
  <1>. SUFFICES ASSUME NEW d \in Devices PROVE Good(d)'
    BY <1>1 DEF Sane
  <1>2. Good(d)
    BY DEF Sane
  <1>3. ASSUME NEW r \in Requests, NEW e \in Devices, Calling(r, e) PROVE Good(d)'
    BY <1>1, <1>2, <1>3, CallsGood
  <1>4. ASSUME NEW r \in Requests, ConfirmPasswordChange(r) PROVE Good(d)'
    BY <1>1, <1>2, <1>4, PasswordGood
  <1>5. ASSUME NEW r \in Requests, Handles(r) PROVE Good(d)'
    <2>1. CASE GetOrStartRefresh(r) \/ Get(r) \/ Rotate(r)
      BY <1>1, <1>2, <2>1, GetOrStartRefreshGood, GetGood, RotateGood
    <2>2. CASE Revoke(r) \/ Drop(r) \/ Save(r)
      BY <1>1, <1>2, <2>2, RevokeGood, DropGood, SaveGood
    <2>3. CASE Index(r) \/ Answer(r)
      BY <1>1, <1>2, <2>3, IndexGood, AnswerGood
    <2>4. CASE Out(r) \/ Collect(r) \/ Purge(r)
      BY <1>1, <1>2, <2>4, OutGood, CollectGood, PurgeGood
    <2>. QED BY <1>5, <2>1, <2>2, <2>3, <2>4 DEF Handles
  <1>6. ASSUME NEW r \in Requests, Throw(r) \/ TimesOut(r) \/ LoseAnswer(r) PROVE Good(d)'
    BY <1>1, <1>2, <1>6, TroubleGood
  <1>7. ASSUME NEW t \in Token, Forget(t) PROVE Good(d)'
    BY <1>1, <1>2, <1>7, ForgetGood
  <1>8. ASSUME NEW e \in Devices, TokenLapses(e) PROVE Good(d)'
    BY <1>1, <1>2, <1>8, LapseGood
  <1>9. CASE SessionsLapse \/ UNCHANGED vars
    <2>1. /\ UNCHANGED <<issued, live, device_token, req, flight, cookie, history>>
          /\ d \in user_sessions' => d \in user_sessions
      BY <1>9 DEF SessionsLapse, vars
    <2>2. Untouched(d)
      BY <2>1 DEF Untouched, LiveOf
    <2>. QED BY <1>1, <1>2, <2>2, Elsewhere
  <1>. QED BY <1>3, <1>4, <1>5, <1>6, <1>7, <1>8, <1>9 DEF Next

\* A device on which nothing overlapped and nothing failed has at most one session,
\* the one its reverse index leads to, for any number of devices, requests and
\* tokens: revokeDeviceToken, the rotation and the two SETs of saveRefreshToken
\* leave nothing behind that revokeAllSessions would miss.
THEOREM NoSessionIsOrphaned == Spec => []NoOrphan
  <1>1. Sane => NoOrphan
    BY DEF Sane, Good, Tidy, NoOrphan, Quiet, Of, Concerns
  <1>. QED BY <1>1, SaneInit, SaneStep, PTL DEF Spec

\* After logout or revokeAllSessions no token of the device works and it is not in
\* user_sessions, until it signs in again: no answer, no shared refresh and no
\* lapse brings a session back.
THEOREM EndedAreDead == Spec => []EndedSessionsAreDead
  <1>1. Sane => EndedSessionsAreDead
    BY DEF Sane, Good, Dead, EndedSessionsAreDead
  <1>. QED BY <1>1, SaneInit, SaneStep, PTL DEF Spec

\* No query is refused for a token that was just exchanged: it shares the refresh
\* in flight, or the one that getOrStartRefresh still remembers.
THEOREM StragglersAreServed == Spec => []StragglersRide
  <1>1. Sane => StragglersRide
    BY DEF Sane, Good, Fed, StragglersRide
  <1>. QED BY <1>1, SaneInit, SaneStep, PTL DEF Spec

\* A browser that has all its answers has a cookie that works, or none, unless its
\* session was ended, lapsed, or was disturbed: whatever the order in which the
\* answers of its queries arrive.
THEOREM CookiesWork == Spec => []CookieWorks
  <1>1. Sane => CookieWorks
    <2>. SUFFICES ASSUME Sane, NEW d \in Devices, Quiet(d), history[d] = "clean", cookie[d] # 0
                  PROVE  cookie[d] \in live
      BY DEF CookieWorks
    <2>1. ~Held(d) /\ \A r \in Requests : ~Of(r, d)
      BY DEF Held, About, Quiet, Of, Concerns
    <2>2. Caught(d) /\ Whole
      BY DEF Sane, Good
    <2>3. cookie[d] \in Token /\ Holds(cookie[d], d)
      BY <2>2 DEF Whole, Own, Typed, TypeOK, Token, Maybe
    <2>4. flight[cookie[d]].at # "busy"
      <3>. SUFFICES ASSUME flight[cookie[d]].at = "busy" PROVE FALSE
        OBVIOUS
      <3>1. PICK r \in Requests : Exchanging(r) /\ req[r].token = cookie[d]
        BY <2>2, <2>3 DEF Whole, Driven
      <3>2. req[r] # Idle /\ req[r].op = "query"
        BY <2>2, <3>1, AnExchange DEF Whole
      <3>3. issued[req[r].token].device = req[r].device
        BY <2>2, <3>2, AQuery
      <3>. QED BY <2>1, <2>3, <3>1, <3>2, <3>3 DEF Of, Holds
    <2>5. flight[cookie[d]].at \in {"none", "busy", "done"}
      BY <2>2, <2>3 DEF Whole, Typed, TypeOK, Flight
    <2>6. Rides(cookie[d], d) /\ (cookie[d] \notin LiveOf(d) => flight[cookie[d]].at # "done")
      BY <2>1, <2>2 DEF Caught, Awaited
    <2>. QED BY <2>4, <2>5, <2>6 DEF Rides, LiveOf
  <1>. QED BY <1>1, SaneInit, SaneStep, PTL DEF Spec
===============================================================================
