------------------------------ MODULE AccountsProofs ------------------------------
(***************************************************************************)
(* Accounts and Profiles, the two services that hold a user's name.  Of    *)
(* auth-service, for every set of users, e-mails, names, devices, calls    *)
(* and ids: its types; that nobody is stranded between a row and its       *)
(* e-mail; one trial per device; what codes and links may do; the second   *)
(* factor.  Handlers share a user only if they overlap (Apart), and a      *)
(* number that was drawn belongs to one of them (Ownership, Novelty).  Of  *)
(* user-service, for every set of members, names and handlers: its types;  *)
(* that the names of users and profiles converge (the name is in users, in *)
(* the newest event or in hand); that avatars and cached rows are those    *)
(* that are there (numbers are one member's, and one handler writes it).   *)
(***************************************************************************)
EXTENDS Accounts, Profiles, TLAPS

-------------------------------------------------------------------------------
(* Types, and what has an id.                                                *)

\* Calls that are about a code, a link or a secret have its number.
HasId(c) == c.at \notin Registering \cup Verifying => c.id \in Ids

MailOK == /\ account \in [Users -> {"none", "inactive", "active"}]
          /\ trialDevices \subseteq Devices
          /\ verifyToken \in [Users -> {"none", "clean", "flagged"}]
          /\ verified \in [Users -> SUBSET {"clean", "flagged"}]
          /\ forgotten \subseteq Users
PassOK == /\ resetCode \in [Users -> Ids \cup {None}]
          /\ links \subseteq Ids \X Users
          /\ letters \subseteq (Ids \cup {None}) \X Users
          /\ mailed \in [Users -> Ids \cup {None}]
          /\ changes \in [Ids -> 0..2]
          /\ told \subseteq Ids
TwoFAOK == /\ twoFA \in [Users -> TwoFA]
           /\ proved \subseteq Ids
           /\ burnt \in [Codes -> 0..2]
           /\ \A u \in Users : twoFA[u] # NoRow => twoFA[u].secret \in Ids
ExcusesOK == /\ overlapped \subseteq Users \cup Devices \cup {NoDevice}
             /\ failed \subseteq Users
             /\ lapsed \subseteq Users

Typed ==
  /\ device \in [Users -> Devices \cup {NoDevice}]
  /\ MailOK /\ PassOK /\ TwoFAOK /\ ExcusesOK
  /\ drawn \in 0..MaxIds
  /\ task \in [Tasks -> Busy \cup {Idle}]
  /\ \A t \in Tasks : task[t] # Idle => HasId(task[t])

-------------------------------------------------------------------------------
(* What a step makes of the tasks.                                           *)

\* The sets of steps, spelled out.
LEMMA StepsAre ==
  /\ Steps = {"look", "insert", "track", "token", "mail", "announce", "activate", "publish", "drop",
              "save code", "send code", "save link", "send link", "set code", "unset code",
              "set link", "unset link", "tell", "delete", "create", "burn", "burn first", "enable",
              "tell enabled"}
  /\ Registering \cup Verifying = {"look", "insert", "track", "token", "mail", "announce",
                                   "activate", "publish", "drop"}
  BY DEF Steps, Registering, Verifying, Resetting, Changing, Enrolling, Checking

\* The fields of a call in progress.
LEMMA TaskInUse ==
  ASSUME NEW c \in Busy \cup {Idle}
  PROVE  /\ c # Idle <=> c \in Busy
         /\ c # Idle <=> c.at # "idle"
         /\ c # Idle => /\ c.at \in Steps /\ c.user \in Users /\ c.id \in Ids \cup {None}
                        /\ c.codes \subseteq Codes /\ c.signal \in {"clean", "flagged"}
<1>1. "idle" \notin Steps
  BY StepsAre
<1> QED BY <1>1 DEF Busy, Idle

Used(c) == /\ c # Idle /\ c \in Busy /\ c.at \in Steps /\ c.user \in Users
           /\ c.id \in Ids \cup {None} /\ c.codes \subseteq Codes /\ c.signal \in {"clean", "flagged"}

\* A task that is somewhere is in use.
LEMMA Knows ==
  ASSUME Typed, NEW t \in Tasks, task[t].at \in Steps \/ task[t] # Idle
  PROVE  Used(task[t]) /\ HasId(task[t])
<1>1. task[t] \in Busy \cup {Idle}
  BY DEF Typed
<1>2. "idle" \notin Steps
  BY StepsAre
<1>3. task[t] # Idle
  BY <1>2 DEF Idle
<1> QED BY <1>1, <1>3, TaskInUse DEF Typed, Used

\* A task goes on to x, ends, begins at x; the others stay where they are.
OthersStay(t) == /\ task' \in [Tasks -> Busy \cup {Idle}]
                 /\ \A s \in Tasks \ {t} : task'[s] = task[s]
Onward(t, x) ==
  /\ Used(task[t]) /\ HasId(task[t]) /\ Used(task'[t]) /\ OthersStay(t)
  /\ task'[t].at = x /\ task'[t].user = task[t].user /\ task'[t].id = task[t].id
  /\ task'[t].codes = task[t].codes
Over(t) == Used(task[t]) /\ HasId(task[t]) /\ task'[t] = Idle /\ OthersStay(t)
Begun(t, x, u, i, C, g) ==
  /\ task[t] = Idle /\ Used(task'[t]) /\ OthersStay(t)
  /\ task'[t].at = x /\ task'[t].user = u /\ task'[t].id = i
  /\ task'[t].codes = C /\ task'[t].signal = g
  /\ overlapped' = overlapped \cup Overlaps(u)
  /\ UNCHANGED <<device, failed, lapsed>>

\* A handler that goes on keeps its user, its number and its signal.
LEMMA Advances ==
  ASSUME Typed, NEW t \in Tasks, task[t].at \in Steps, NEW x \in Steps, Goes(t, x)
  PROVE  Onward(t, x) /\ task'[t].signal = task[t].signal
<1> DEFINE v == [task[t] EXCEPT !.at = x]
<1>0. Used(task[t]) /\ HasId(task[t])
  BY Knows
<1>1. v \in Busy /\ v.at = x /\ v.user = task[t].user /\ v.id = task[t].id
      /\ v.codes = task[t].codes /\ v.signal = task[t].signal
  BY <1>0 DEF Busy, Used
<1>2. task' = [task EXCEPT ![t] = v]
  BY DEF Goes
<1> HIDE DEF v
<1>3. task \in [Tasks -> Busy \cup {Idle}]
  BY DEF Typed
<1>4. OthersStay(t) /\ task'[t] = v
  BY <1>1, <1>2, <1>3 DEF OthersStay
<1>5. Used(v)
  BY <1>1, TaskInUse DEF Used
<1> QED BY <1>0, <1>1, <1>4, <1>5 DEF Onward

\* A handler that ends leaves the others where they are.
LEMMA Stops ==
  ASSUME Typed, NEW t \in Tasks, task[t].at \in Steps \/ task[t] # Idle, Ends(t)
  PROVE  Over(t)
<1>1. Used(task[t]) /\ HasId(task[t])
  BY Knows
<1> QED BY <1>1 DEF Typed, Ends, Over, OthersStay

\* A call takes a free task.
LEMMA Starts ==
  ASSUME Typed, NEW t \in Tasks, NEW x \in Steps, NEW u \in Users, NEW i \in Ids \cup {None},
         NEW C \in SUBSET Codes, NEW g \in {"clean", "flagged"}, Begins(t, x, u, i, C, g)
  PROVE  Begun(t, x, u, i, C, g)
<1> DEFINE v == [at |-> x, user |-> u, id |-> i, codes |-> C, signal |-> g]
<1>1. v \in Busy /\ v.at = x /\ v.user = u /\ v.id = i /\ v.codes = C /\ v.signal = g
  BY DEF Busy
<1>2. task[t] = Idle /\ task' = [task EXCEPT ![t] = v] /\ overlapped' = overlapped \cup Overlaps(u)
      /\ UNCHANGED <<device, failed, lapsed>>
  BY DEF Begins
<1> HIDE DEF v
<1>3. task \in [Tasks -> Busy \cup {Idle}]
  BY DEF Typed
<1>4. OthersStay(t) /\ task'[t] = v
  BY <1>1, <1>2, <1>3 DEF OthersStay
<1>5. Used(v)
  BY <1>1, TaskInUse DEF Used
<1> QED BY <1>1, <1>2, <1>4, <1>5 DEF Begun

-------------------------------------------------------------------------------
(* Types are kept.                                                           *)

\* A step that leaves the devices of users and the other tasks alone keeps the types.
LEMMA TypedMoves ==
  ASSUME Typed, NEW t \in Tasks, OthersStay(t), task'[t] # Idle => HasId(task'[t]),
         UNCHANGED device, MailOK', PassOK', TwoFAOK', ExcusesOK', drawn' \in 0..MaxIds
  PROVE  Typed'
<1>1. ASSUME NEW s \in Tasks, task'[s] # Idle PROVE HasId(task'[s])
  BY <1>1 DEF Typed, OthersStay
<1> QED BY <1>1 DEF Typed, OthersStay, HasId

\* Parts of the state that a step leaves alone.
LEMMA Alone ==
  ASSUME Typed
  PROVE  /\ UNCHANGED mailVars => MailOK'
         /\ UNCHANGED passVars => PassOK'
         /\ UNCHANGED twoFAVars => TwoFAOK'
         /\ UNCHANGED excuses => ExcusesOK'
         /\ Quiet => UNCHANGED excuses /\ UNCHANGED device /\ ExcusesOK'
         /\ UNCHANGED drawn => drawn' \in 0..MaxIds
<1>1. UNCHANGED mailVars => MailOK'
  BY DEF Typed, MailOK, mailVars
<1>2. UNCHANGED passVars => PassOK'
  BY DEF Typed, PassOK, passVars
<1>3. UNCHANGED twoFAVars => TwoFAOK'
  BY DEF Typed, TwoFAOK, twoFAVars
<1>4. UNCHANGED excuses => ExcusesOK'
  BY DEF Typed, ExcusesOK, excuses
<1>5. Quiet => UNCHANGED excuses /\ UNCHANGED device
  BY DEF Quiet, excuses
<1>6. UNCHANGED drawn => drawn' \in 0..MaxIds
  BY DEF Typed
<1> QED BY <1>1, <1>2, <1>3, <1>4, <1>5, <1>6

\* A call begins.
LEMMA TypedBegun ==
  ASSUME Typed, NEW t \in Tasks, NEW x, NEW u \in Users, NEW i, NEW C, NEW g,
         Begun(t, x, u, i, C, g), x \notin Registering \cup Verifying => i \in Ids,
         MailOK', PassOK', TwoFAOK', drawn' \in 0..MaxIds
  PROVE  Typed'
<1>1. Overlaps(u) \subseteq Users \cup Devices \cup {NoDevice}
  BY DEF Overlaps, Typed
<1>2. ExcusesOK'
  BY <1>1 DEF Typed, ExcusesOK, Begun
<1>3. HasId(task'[t])
  BY DEF HasId, Begun
<1> QED BY <1>2, <1>3, TypedMoves DEF Begun

\* A task goes on.
LEMMA TypedOnward ==
  ASSUME Typed, NEW t \in Tasks, NEW x, Onward(t, x),
         x \notin Registering \cup Verifying => task[t].at \notin Registering \cup Verifying,
         Quiet, MailOK', PassOK', TwoFAOK', UNCHANGED drawn
  PROVE  Typed'
<1>1. UNCHANGED device /\ ExcusesOK' /\ drawn' \in 0..MaxIds
  BY Alone
<1>2. HasId(task'[t])
  BY DEF HasId, Onward
<1> QED BY <1>1, <1>2, TypedMoves DEF Onward

\* So does the end of a handler.
LEMMA TypedOver ==
  ASSUME Typed, NEW t \in Tasks, Over(t), Quiet, MailOK', PassOK', TwoFAOK', UNCHANGED drawn
  PROVE  Typed'
<1>1. UNCHANGED device /\ ExcusesOK' /\ drawn' \in 0..MaxIds
  BY Alone
<1> QED BY <1>1, TypedMoves DEF Over

\* Init has the types.
LEMMA TypedBegin == Init => Typed
<1> SUFFICES ASSUME Init PROVE Typed
  OBVIOUS
<1>1. MailOK /\ ExcusesOK
  BY DEF Init, MailOK, ExcusesOK
<1>2. PassOK
  BY DEF Init, PassOK
<1>3. TwoFAOK
  BY DEF Init, TwoFAOK, TwoFA, NoRow
<1>4. drawn \in 0..MaxIds
  BY IdAssumption DEF Init, IdAssumption
<1>5. device \in [Users -> Devices \cup {NoDevice}] /\ task \in [Tasks -> Busy \cup {Idle}]
      /\ \A t \in Tasks : task[t] = Idle
  BY DEF Init
<1> QED BY <1>1, <1>2, <1>3, <1>4, <1>5 DEF Typed

-------------------------------------------------------------------------------
(* Which task a step moves, and where.                                       *)

\* Register and verification: from which step to which.
LEMMA RegisterTakes ==
  ASSUME Typed, NEW t \in Tasks
  PROVE  /\ LookAtDevice(t) => task[t].at = "look" /\ Onward(t, "insert") /\ Quiet
         /\ InsertUser(t) => task[t].at = "insert" /\ (Onward(t, "track") \/ Over(t)) /\ Quiet
         /\ TrackDevice(t) => task[t].at = "track" /\ Onward(t, "token") /\ Quiet
         /\ StoreToken(t) => task[t].at = "token" /\ Onward(t, "mail") /\ Quiet
         /\ PublishVerifyEmail(t) => task[t].at = "mail" /\ Onward(t, "announce") /\ Quiet
         /\ PublishRegistered(t) => task[t].at = "announce" /\ Over(t) /\ Quiet
         /\ Activate(t) => task[t].at = "activate" /\ Onward(t, "publish") /\ Quiet
         /\ PublishEmailVerified(t) => task[t].at = "publish" /\ Onward(t, "drop") /\ Quiet
         /\ DropToken(t) => task[t].at = "drop" /\ Over(t) /\ Quiet
<1>1. ASSUME LookAtDevice(t) PROVE task[t].at = "look" /\ Onward(t, "insert") /\ Quiet
  <2> DEFINE g == IF device[task[t].user] \in trialDevices THEN "flagged" ELSE "clean"
             v == [task[t] EXCEPT !.at = "insert", !.signal = g]
  <2>1. task[t].at = "look" /\ task' = [task EXCEPT ![t] = v] /\ Quiet
    BY <1>1 DEF LookAtDevice
  <2>2. Used(task[t]) /\ HasId(task[t])
    BY <2>1, Knows, StepsAre
  <2>3. /\ v \in Busy /\ v.at = "insert" /\ v.user = task[t].user /\ v.id = task[t].id
        /\ v.codes = task[t].codes
    BY <2>2, StepsAre DEF Busy, Used
  <2> HIDE DEF v
  <2>4. OthersStay(t) /\ task'[t] = v
    BY <2>1, <2>3 DEF Typed, OthersStay
  <2>5. Used(v)
    BY <2>3, TaskInUse DEF Used
  <2> QED BY <2>1, <2>2, <2>3, <2>4, <2>5 DEF Onward
<1>2. ASSUME InsertUser(t)
      PROVE  task[t].at = "insert" /\ (Onward(t, "track") \/ Over(t)) /\ Quiet
  BY <1>2, Advances, Stops, StepsAre DEF InsertUser
<1>3. ASSUME TrackDevice(t) PROVE task[t].at = "track" /\ Onward(t, "token") /\ Quiet
  BY <1>3, Advances, StepsAre DEF TrackDevice
<1>4. ASSUME StoreToken(t) PROVE task[t].at = "token" /\ Onward(t, "mail") /\ Quiet
  BY <1>4, Advances, StepsAre DEF StoreToken
<1>5. ASSUME PublishVerifyEmail(t) PROVE task[t].at = "mail" /\ Onward(t, "announce") /\ Quiet
  BY <1>5, Advances, StepsAre DEF PublishVerifyEmail
<1>6. ASSUME PublishRegistered(t) PROVE task[t].at = "announce" /\ Over(t) /\ Quiet
  BY <1>6, Stops, StepsAre DEF PublishRegistered
<1>7. ASSUME Activate(t) PROVE task[t].at = "activate" /\ Onward(t, "publish") /\ Quiet
  BY <1>7, Advances, StepsAre DEF Activate
<1>8. ASSUME PublishEmailVerified(t) PROVE task[t].at = "publish" /\ Onward(t, "drop") /\ Quiet
  BY <1>8, Advances, StepsAre DEF PublishEmailVerified
<1>9. ASSUME DropToken(t) PROVE task[t].at = "drop" /\ Over(t) /\ Quiet
  BY <1>9, Stops, StepsAre DEF DropToken
<1> QED BY <1>1, <1>2, <1>3, <1>4, <1>5, <1>6, <1>7, <1>8, <1>9

\* On these steps the signal stays.
LEMMA SignalStays ==
  ASSUME Typed, NEW t \in Tasks,
         \/ TrackDevice(t) \/ Activate(t) \/ PublishEmailVerified(t) \/ (InsertUser(t) /\ ~Over(t))
  PROVE  task'[t].signal = task[t].signal
<1>1. \E x \in Steps : task[t].at \in Steps /\ Goes(t, x)
  <2>1. CASE TrackDevice(t)
    BY <2>1, StepsAre DEF TrackDevice
  <2>2. CASE Activate(t)
    BY <2>2, StepsAre DEF Activate
  <2>3. CASE PublishEmailVerified(t)
    BY <2>3, StepsAre DEF PublishEmailVerified
  <2>4. CASE InsertUser(t) /\ ~Over(t)
    BY <2>4, Stops, StepsAre DEF InsertUser
  <2> QED BY <2>1, <2>2, <2>3, <2>4
<1> QED BY <1>1, Advances

\* Codes and links: from which step to which.
LEMMA PasswordTakes ==
  ASSUME Typed, NEW t \in Tasks
  PROVE  /\ SaveVerificationCode(t) => task[t].at = "save code" /\ Onward(t, "send code") /\ Quiet
         /\ PublishForgotPassword(t) => task[t].at = "send code" /\ Over(t) /\ Quiet
         /\ SaveChangePasswordToken(t) => task[t].at = "save link" /\ Onward(t, "send link") /\ Quiet
         /\ PublishChangePasswordRequest(t) => task[t].at = "send link" /\ Over(t) /\ Quiet
         /\ UpdatePassword(t) =>
              /\ Quiet
              /\ \/ task[t].at = "set code" /\ Onward(t, "unset code")
                 \/ task[t].at = "set link" /\ Onward(t, "unset link")
         /\ DeleteVerificationCode(t) => task[t].at = "unset code" /\ Onward(t, "tell") /\ Quiet
         /\ DeleteChangePasswordToken(t) => task[t].at = "unset link" /\ Onward(t, "tell") /\ Quiet
         /\ PublishPasswordChanged(t) => task[t].at = "tell" /\ Over(t) /\ Quiet
<1>1. ASSUME SaveVerificationCode(t) PROVE task[t].at = "save code" /\ Onward(t, "send code") /\ Quiet
  BY <1>1, Advances, StepsAre DEF SaveVerificationCode
<1>2. ASSUME PublishForgotPassword(t) PROVE task[t].at = "send code" /\ Over(t) /\ Quiet
  BY <1>2, Stops, StepsAre DEF PublishForgotPassword
<1>3. ASSUME SaveChangePasswordToken(t)
      PROVE  task[t].at = "save link" /\ Onward(t, "send link") /\ Quiet
  BY <1>3, Advances, StepsAre DEF SaveChangePasswordToken
<1>4. ASSUME PublishChangePasswordRequest(t) PROVE task[t].at = "send link" /\ Over(t) /\ Quiet
  BY <1>4, Stops, StepsAre DEF PublishChangePasswordRequest
<1>5. ASSUME UpdatePassword(t)
      PROVE  /\ Quiet
             /\ \/ task[t].at = "set code" /\ Onward(t, "unset code")
                \/ task[t].at = "set link" /\ Onward(t, "unset link")
  <2>1. CASE task[t].at = "set code"
    BY <1>5, <2>1, Advances, StepsAre DEF UpdatePassword
  <2>2. CASE task[t].at = "set link"
    BY <1>5, <2>2, Advances, StepsAre DEF UpdatePassword
  <2> QED BY <1>5, <2>1, <2>2 DEF UpdatePassword
<1>6. ASSUME DeleteVerificationCode(t) PROVE task[t].at = "unset code" /\ Onward(t, "tell") /\ Quiet
  BY <1>6, Advances, StepsAre DEF DeleteVerificationCode
<1>7. ASSUME DeleteChangePasswordToken(t)
      PROVE  task[t].at = "unset link" /\ Onward(t, "tell") /\ Quiet
  BY <1>7, Advances, StepsAre DEF DeleteChangePasswordToken
<1>8. ASSUME PublishPasswordChanged(t) PROVE task[t].at = "tell" /\ Over(t) /\ Quiet
  BY <1>8, Stops, StepsAre DEF PublishPasswordChanged
<1> QED BY <1>1, <1>2, <1>3, <1>4, <1>5, <1>6, <1>7, <1>8

\* The second factor: from which step to which.
LEMMA TwoFATakes ==
  ASSUME Typed, NEW t \in Tasks
  PROVE  /\ Delete2FA(t) => task[t].at = "delete" /\ Onward(t, "create") /\ Quiet
         /\ Create2FA(t) => task[t].at = "create" /\ Over(t) /\ Quiet
         /\ BurnBackupCode(t) =>
              /\ Quiet
              /\ \/ task[t].at = "burn first" /\ Onward(t, "enable")
                 \/ task[t].at = "burn" /\ Over(t)
         /\ Enable2FA(t) => task[t].at = "enable" /\ Onward(t, "tell enabled") /\ Quiet
         /\ Publish2faEnabled(t) => task[t].at = "tell enabled" /\ Over(t) /\ Quiet
<1>1. ASSUME Delete2FA(t) PROVE task[t].at = "delete" /\ Onward(t, "create") /\ Quiet
  BY <1>1, Advances, StepsAre DEF Delete2FA
<1>2. ASSUME Create2FA(t) PROVE task[t].at = "create" /\ Over(t) /\ Quiet
  BY <1>2, Stops, StepsAre DEF Create2FA
<1>3. ASSUME BurnBackupCode(t)
      PROVE  /\ Quiet
             /\ \/ task[t].at = "burn first" /\ Onward(t, "enable")
                \/ task[t].at = "burn" /\ Over(t)
  <2>1. CASE task[t].at = "burn first"
    BY <1>3, <2>1, Advances, StepsAre DEF BurnBackupCode
  <2>2. CASE task[t].at = "burn"
    BY <1>3, <2>2, Stops, StepsAre DEF BurnBackupCode
  <2> QED BY <1>3, <2>1, <2>2 DEF BurnBackupCode
<1>4. ASSUME Enable2FA(t) PROVE task[t].at = "enable" /\ Onward(t, "tell enabled") /\ Quiet
  BY <1>4, Advances, StepsAre DEF Enable2FA
<1>5. ASSUME Publish2faEnabled(t) PROVE task[t].at = "tell enabled" /\ Over(t) /\ Quiet
  BY <1>5, Stops, StepsAre DEF Publish2faEnabled
<1> QED BY <1>1, <1>2, <1>3, <1>4, <1>5

\* Where calls begin.
LEMMA FirstSteps ==
  {"look", "activate", "save code", "set code", "save link", "set link", "create", "delete",
   "enable", "burn", "burn first"} \subseteq Steps
  BY StepsAre

\* The row of a user, and its backup codes.
LEMMA RowOf ==
  ASSUME Typed, NEW u \in Users
  PROVE  /\ twoFA[u] \in TwoFA /\ twoFA[u].secret \in Ids \cup {None}
         /\ twoFA[u].codes \subseteq Codes /\ twoFA[u].enabled \in {"no", "yes"}
         /\ twoFA[u] # NoRow => twoFA[u].secret \in Ids
         /\ twoFA[u].codes # {} => twoFA[u] # NoRow
<1>1. twoFA[u] \in TwoFA /\ (twoFA[u] # NoRow => twoFA[u].secret \in Ids)
  BY DEF Typed, TwoFAOK
<1>2. NoRow.codes = {}
  BY DEF NoRow
<1> QED BY <1>1, <1>2 DEF TwoFA

\* Where each call begins, with what it read before.
LEMMA CallTakes ==
  ASSUME Typed, NEW t \in Tasks, NEW u \in Users
  PROVE  /\ Register(t, u) => Begun(t, "look", u, None, {}, "clean")
         /\ VerifyEmail(t, u) => /\ verifyToken[u] # "none"
                                 /\ Begun(t, "activate", u, None, {}, verifyToken[u])
         /\ ForgotPassword(t, u) => Begun(t, "save code", u, drawn + 1, {}, "clean")
         /\ ResetPassword(t, u) => /\ resetCode[u] \in Ids /\ <<resetCode[u], u>> \in letters
                                   /\ Begun(t, "set code", u, resetCode[u], {}, "clean")
         /\ RequestPasswordChange(t, u) => Begun(t, "save link", u, drawn + 1, {}, "clean")
         /\ \A i \in Ids : ConfirmPasswordChange(t, i, u) =>
                             <<i, u>> \in links \cap letters /\ Begun(t, "set link", u, i, {}, "clean")
         /\ Setup2FA(t, u) => /\ twoFA[u].enabled = "no"
                              /\ \/ twoFA[u] = NoRow /\ Begun(t, "create", u, drawn + 1, {}, "clean")
                                 \/ Begun(t, "delete", u, drawn + 1, {}, "clean")
         /\ Verify2FA(t, u) => /\ twoFA[u] # NoRow /\ twoFA[u].enabled = "no"
                               /\ Begun(t, "enable", u, twoFA[u].secret, {}, "clean")
         /\ \A c \in Codes : VerifyBackupCode(t, u, c) =>
              /\ c \in twoFA[u].codes /\ twoFA[u] # NoRow
              /\ \/ /\ twoFA[u].enabled = "yes"
                    /\ Begun(t, "burn", u, twoFA[u].secret, twoFA[u].codes \ {c}, "clean")
                 \/ /\ twoFA[u].enabled = "no"
                    /\ Begun(t, "burn first", u, twoFA[u].secret, twoFA[u].codes \ {c}, "clean")
<1> DEFINE G == {"clean", "flagged"}
<1>0. {} \in SUBSET Codes /\ "clean" \in G /\ None \in Ids \cup {None}
  OBVIOUS
<1>1. ASSUME Register(t, u) PROVE Begun(t, "look", u, None, {}, "clean")
  BY <1>0, <1>1, Starts, FirstSteps DEF Register
<1>2. ASSUME VerifyEmail(t, u)
      PROVE verifyToken[u] # "none" /\ Begun(t, "activate", u, None, {}, verifyToken[u])
  <2>1. verifyToken[u] # "none" /\ verifyToken[u] \in G
    BY <1>2 DEF VerifyEmail, Typed, MailOK
  <2> QED BY <1>0, <1>2, <2>1, Starts, FirstSteps DEF VerifyEmail
<1>3. ASSUME Draws PROVE drawn + 1 \in Ids \cup {None} /\ drawn + 1 \in Ids
  BY <1>3, IdAssumption DEF Draws, Typed, Ids, IdAssumption
<1>4. ASSUME ForgotPassword(t, u) PROVE Begun(t, "save code", u, drawn + 1, {}, "clean")
  BY <1>0, <1>3, <1>4, Starts, FirstSteps DEF ForgotPassword
<1>5. ASSUME ResetPassword(t, u)
      PROVE  /\ resetCode[u] \in Ids /\ <<resetCode[u], u>> \in letters
             /\ Begun(t, "set code", u, resetCode[u], {}, "clean")
  <2>1. resetCode[u] \in Ids
    BY <1>5 DEF ResetPassword, Typed, PassOK
  <2> QED BY <1>0, <1>5, <2>1, Starts, FirstSteps DEF ResetPassword
<1>6. ASSUME RequestPasswordChange(t, u) PROVE Begun(t, "save link", u, drawn + 1, {}, "clean")
  BY <1>0, <1>3, <1>6, Starts, FirstSteps DEF RequestPasswordChange
<1>7. ASSUME NEW i \in Ids, ConfirmPasswordChange(t, i, u)
      PROVE  <<i, u>> \in links \cap letters /\ Begun(t, "set link", u, i, {}, "clean")
  BY <1>0, <1>7, Starts, FirstSteps DEF ConfirmPasswordChange
<1>8. ASSUME Setup2FA(t, u)
      PROVE  /\ twoFA[u].enabled = "no"
             /\ \/ twoFA[u] = NoRow /\ Begun(t, "create", u, drawn + 1, {}, "clean")
                \/ Begun(t, "delete", u, drawn + 1, {}, "clean")
  <2>1. CASE twoFA[u] = NoRow
    BY <1>0, <1>3, <1>8, <2>1, Starts, FirstSteps DEF Setup2FA
  <2>2. CASE twoFA[u] # NoRow
    BY <1>0, <1>3, <1>8, <2>2, Starts, FirstSteps DEF Setup2FA
  <2> QED BY <1>8, <2>1, <2>2 DEF Setup2FA
<1>9. ASSUME Verify2FA(t, u)
      PROVE  /\ twoFA[u] # NoRow /\ twoFA[u].enabled = "no"
             /\ Begun(t, "enable", u, twoFA[u].secret, {}, "clean")
  <2>1. twoFA[u].secret \in Ids \cup {None}
    BY RowOf
  <2> QED BY <1>0, <1>9, <2>1, Starts, FirstSteps DEF Verify2FA
<1>10. ASSUME NEW c \in Codes, VerifyBackupCode(t, u, c)
       PROVE  /\ c \in twoFA[u].codes /\ twoFA[u] # NoRow
              /\ \/ /\ twoFA[u].enabled = "yes"
                    /\ Begun(t, "burn", u, twoFA[u].secret, twoFA[u].codes \ {c}, "clean")
                 \/ /\ twoFA[u].enabled = "no"
                    /\ Begun(t, "burn first", u, twoFA[u].secret, twoFA[u].codes \ {c}, "clean")
  <2>1. /\ twoFA[u].secret \in Ids \cup {None} /\ twoFA[u].codes \ {c} \in SUBSET Codes
        /\ c \in twoFA[u].codes /\ twoFA[u] # NoRow /\ twoFA[u].enabled \in {"no", "yes"}
    BY <1>10, RowOf DEF VerifyBackupCode
  <2>2. CASE twoFA[u].enabled = "yes"
    <3>1. Begins(t, "burn", u, twoFA[u].secret, twoFA[u].codes \ {c}, "clean")
      BY <1>10, <2>2 DEF VerifyBackupCode
    <3> QED BY <1>0, <2>1, <2>2, <3>1, Starts, FirstSteps
  <2>3. CASE twoFA[u].enabled = "no"
    <3>1. Begins(t, "burn first", u, twoFA[u].secret, twoFA[u].codes \ {c}, "clean")
      BY <1>10, <2>3 DEF VerifyBackupCode
    <3> QED BY <1>0, <2>1, <2>3, <3>1, Starts, FirstSteps
  <2> QED BY <2>1, <2>2, <2>3
<1> QED BY <1>1, <1>2, <1>4, <1>5, <1>6, <1>7, <1>8, <1>9, <1>10

\* A handler that throws is over.
LEMMA ThrowTakes ==
  ASSUME Typed, NEW t \in Tasks, Throws(t)
  PROVE  Over(t)
  BY Stops DEF Throws

-------------------------------------------------------------------------------
(* Types are kept, action by action.                                         *)

\* Registration and verification keep the types.
LEMMA TypedRegister ==
  ASSUME Typed, NEW t \in Tasks, RegisterStep(t) \/ VerifyStep(t)
  PROVE  Typed'
<1>0. task[t].at \in Steps => task[t].user \in Users /\ task[t].signal \in {"clean", "flagged"}
  BY Knows DEF Used
<1>1. CASE LookAtDevice(t)
  BY <1>1, RegisterTakes, Alone, StepsAre, TypedOnward DEF LookAtDevice
<1>2. CASE InsertUser(t)
  <2>1. MailOK'
    BY <1>2 DEF InsertUser, Typed, MailOK
  <2> QED BY <1>2, <2>1, RegisterTakes, Alone, StepsAre, TypedOnward, TypedOver DEF InsertUser
<1>3. CASE TrackDevice(t)
  <2>1. MailOK'
    <3>1. device[task[t].user] \in Devices \cup {NoDevice}
      BY <1>0, <1>3, StepsAre DEF TrackDevice, Typed
    <3>2. trialDevices \cup ({device[task[t].user]} \ {NoDevice}) \subseteq Devices
      BY <3>1 DEF Typed, MailOK
    <3> QED BY <1>3, <3>2 DEF TrackDevice, Typed, MailOK
  <2> QED BY <1>3, <2>1, RegisterTakes, Alone, StepsAre, TypedOnward DEF TrackDevice
<1>4. CASE StoreToken(t)
  <2>1. MailOK'
    BY <1>0, <1>4, StepsAre DEF StoreToken, Typed, MailOK
  <2> QED BY <1>4, <2>1, RegisterTakes, Alone, StepsAre, TypedOnward DEF StoreToken
<1>5. CASE PublishVerifyEmail(t)
  <2>1. PassOK'
    <3>1. <<None, task[t].user>> \in (Ids \cup {None}) \X Users
      BY <1>0, <1>5, StepsAre DEF PublishVerifyEmail
    <3>2. letters \cup {<<None, task[t].user>>} \subseteq (Ids \cup {None}) \X Users
      BY <3>1 DEF Typed, PassOK
    <3>3. letters' \subseteq (Ids \cup {None}) \X Users
      BY <1>5, <3>2 DEF PublishVerifyEmail
    <3> QED BY <1>0, <1>5, <3>3, StepsAre DEF PublishVerifyEmail, Typed, PassOK
  <2> QED BY <1>5, <2>1, RegisterTakes, Alone, StepsAre, TypedOnward DEF PublishVerifyEmail
<1>6. CASE PublishRegistered(t)
  BY <1>6, RegisterTakes, Alone, TypedOver DEF PublishRegistered
<1>7. CASE Activate(t)
  <2>1. MailOK'
    BY <1>7 DEF Activate, Typed, MailOK
  <2> QED BY <1>7, <2>1, RegisterTakes, Alone, StepsAre, TypedOnward DEF Activate
<1>8. CASE PublishEmailVerified(t)
  <2>1. MailOK'
    BY <1>0, <1>8, StepsAre DEF PublishEmailVerified, Typed, MailOK
  <2> QED BY <1>8, <2>1, RegisterTakes, Alone, StepsAre, TypedOnward DEF PublishEmailVerified
<1>9. CASE DropToken(t)
  <2>1. MailOK'
    BY <1>9 DEF DropToken, Typed, MailOK
  <2> QED BY <1>9, <2>1, RegisterTakes, Alone, TypedOver DEF DropToken
<1> QED BY <1>1, <1>2, <1>3, <1>4, <1>5, <1>6, <1>7, <1>8, <1>9 DEF RegisterStep, VerifyStep

\* A task at a password or 2FA step has a number.
LEMMA HasNumber ==
  ASSUME Typed, NEW t \in Tasks, task[t].at \in Steps \ (Registering \cup Verifying)
  PROVE  task[t].user \in Users /\ task[t].id \in Ids
  BY Knows DEF Used, HasId

\* Codes and links keep them.
LEMMA TypedPassword ==
  ASSUME Typed, NEW t \in Tasks, PasswordStep(t)
  PROVE  Typed'
<1>0. task[t].at \in Steps \ (Registering \cup Verifying) => task[t].user \in Users /\ task[t].id \in Ids
  BY HasNumber
<1>1. CASE SaveVerificationCode(t)
  <2>1. PassOK'
    BY <1>0, <1>1, StepsAre DEF SaveVerificationCode, Typed, PassOK
  <2> QED BY <1>1, <2>1, PasswordTakes, Alone, StepsAre, TypedOnward DEF SaveVerificationCode
<1>2. CASE PublishForgotPassword(t)
  <2>1. PassOK'
    <3>1. <<task[t].id, task[t].user>> \in (Ids \cup {None}) \X Users
      BY <1>0, <1>2, StepsAre DEF PublishForgotPassword
    <3>2. letters \cup {<<task[t].id, task[t].user>>} \subseteq (Ids \cup {None}) \X Users
      BY <3>1 DEF Typed, PassOK
    <3>3. letters' \subseteq (Ids \cup {None}) \X Users
      BY <1>2, <3>2 DEF PublishForgotPassword
    <3> QED BY <1>0, <1>2, <3>3, StepsAre DEF PublishForgotPassword, Typed, PassOK
  <2> QED BY <1>2, <2>1, PasswordTakes, Alone, TypedOver DEF PublishForgotPassword
<1>3. CASE SaveChangePasswordToken(t)
  <2>1. PassOK'
    <3>1. <<task[t].id, task[t].user>> \in Ids \X Users
      BY <1>0, <1>3, StepsAre DEF SaveChangePasswordToken
    <3>2. links \cup {<<task[t].id, task[t].user>>} \subseteq Ids \X Users
      BY <3>1 DEF Typed, PassOK
    <3>3. links' \subseteq Ids \X Users
      BY <1>3, <3>2 DEF SaveChangePasswordToken
    <3> QED BY <1>3, <3>3 DEF SaveChangePasswordToken, Typed, PassOK
  <2> QED BY <1>3, <2>1, PasswordTakes, Alone, StepsAre, TypedOnward DEF SaveChangePasswordToken
<1>4. CASE PublishChangePasswordRequest(t)
  <2>1. PassOK'
    <3>1. <<task[t].id, task[t].user>> \in (Ids \cup {None}) \X Users
      BY <1>0, <1>4, StepsAre DEF PublishChangePasswordRequest
    <3>2. letters \cup {<<task[t].id, task[t].user>>} \subseteq (Ids \cup {None}) \X Users
      BY <3>1 DEF Typed, PassOK
    <3>3. letters' \subseteq (Ids \cup {None}) \X Users
      BY <1>4, <3>2 DEF PublishChangePasswordRequest
    <3> QED BY <1>0, <1>4, <3>3, StepsAre DEF PublishChangePasswordRequest, Typed, PassOK
  <2> QED BY <1>4, <2>1, PasswordTakes, Alone, TypedOver DEF PublishChangePasswordRequest
<1>5. CASE UpdatePassword(t)
  <2>1. \A n \in 0..2 : More(n) \in 0..2
    BY DEF More
  <2>2. PassOK'
    BY <1>0, <1>5, <2>1, StepsAre DEF UpdatePassword, Typed, PassOK
  <2> QED BY <1>5, <2>2, PasswordTakes, Alone, StepsAre, TypedOnward DEF UpdatePassword
<1>6. CASE DeleteVerificationCode(t)
  <2>1. PassOK'
    BY <1>6 DEF DeleteVerificationCode, Typed, PassOK
  <2> QED BY <1>6, <2>1, PasswordTakes, Alone, StepsAre, TypedOnward DEF DeleteVerificationCode
<1>7. CASE DeleteChangePasswordToken(t)
  <2>1. PassOK'
    BY <1>7 DEF DeleteChangePasswordToken, Typed, PassOK
  <2> QED BY <1>7, <2>1, PasswordTakes, Alone, StepsAre, TypedOnward DEF DeleteChangePasswordToken
<1>8. CASE PublishPasswordChanged(t)
  <2>1. PassOK'
    BY <1>0, <1>8, StepsAre DEF PublishPasswordChanged, Typed, PassOK
  <2> QED BY <1>8, <2>1, PasswordTakes, Alone, TypedOver DEF PublishPasswordChanged
<1> QED BY <1>1, <1>2, <1>3, <1>4, <1>5, <1>6, <1>7, <1>8 DEF PasswordStep

\* The second factor keeps them.
LEMMA TypedTwoFA ==
  ASSUME Typed, NEW t \in Tasks, TwoFAStep(t)
  PROVE  Typed'
<1>0. task[t].at \in Steps \ (Registering \cup Verifying) =>
        task[t].user \in Users /\ task[t].id \in Ids /\ task[t].codes \subseteq Codes
  BY HasNumber, Knows DEF Used
<1>r. /\ \A i \in Ids : Row(i) \in TwoFA /\ Row(i).secret = i
      /\ NoRow \in TwoFA
      /\ \A r \in TwoFA, C \in SUBSET Codes :
           /\ [r EXCEPT !.codes = C] \in TwoFA /\ [r EXCEPT !.codes = C].secret = r.secret
           /\ [r EXCEPT !.enabled = "yes"] \in TwoFA /\ [r EXCEPT !.enabled = "yes"].secret = r.secret
  BY DEF TwoFA, Row, NoRow, Codes
<1>1. CASE Delete2FA(t)
  <2>1. TwoFAOK'
    BY <1>1, <1>r DEF Delete2FA, Typed, TwoFAOK
  <2> QED BY <1>1, <2>1, TwoFATakes, Alone, StepsAre, TypedOnward DEF Delete2FA
<1>2. CASE Create2FA(t)
  <2>1. TwoFAOK'
    BY <1>0, <1>2, <1>r, StepsAre DEF Create2FA, Typed, TwoFAOK
  <2> QED BY <1>2, <2>1, TwoFATakes, Alone, TypedOver DEF Create2FA
<1>3. CASE BurnBackupCode(t)
  <2>1. /\ twoFA' \in [Users -> TwoFA]
        /\ \A u \in Users : (twoFA[u] = NoRow /\ twoFA'[u] = twoFA[u]) \/ twoFA'[u].secret = twoFA[u].secret
    <3>1. task[t].user \in Users /\ task[t].codes \in SUBSET Codes
      BY <1>0, <1>3, StepsAre DEF BurnBackupCode
    <3>2. CASE twoFA' = twoFA
      BY <3>2 DEF Typed, TwoFAOK
    <3>3. CASE twoFA' = [twoFA EXCEPT ![task[t].user].codes = task[t].codes]
      <4> DEFINE w == task[t].user
                 r == [twoFA[w] EXCEPT !.codes = task[t].codes]
      <4>1. twoFA \in [Users -> TwoFA] /\ twoFA[w] \in TwoFA
        BY <3>1 DEF Typed, TwoFAOK
      <4>2. r \in TwoFA /\ r.secret = twoFA[w].secret
        BY <4>1, <3>1, <1>r
      <4>3. twoFA' = [twoFA EXCEPT ![w] = r]
        BY <3>3
      <4> HIDE DEF r
      <4> QED BY <4>1, <4>2, <4>3
    <3> QED BY <1>3, <3>2, <3>3 DEF BurnBackupCode
  <2>2. ASSUME NEW u \in Users, twoFA'[u] # NoRow PROVE twoFA'[u].secret \in Ids
    BY <1>3, <2>1, <2>2, RowOf DEF BurnBackupCode, Typed, TwoFAOK
  <2>3. TwoFAOK'
    BY <1>3, <2>1, <2>2 DEF BurnBackupCode, Typed, TwoFAOK
  <2> QED BY <1>3, <2>3, TwoFATakes, Alone, StepsAre, TypedOnward, TypedOver DEF BurnBackupCode
<1>4. CASE Enable2FA(t)
  <2>1. /\ twoFA' \in [Users -> TwoFA]
        /\ \A u \in Users : (twoFA[u] = NoRow /\ twoFA'[u] = twoFA[u]) \/ twoFA'[u].secret = twoFA[u].secret
    BY <1>0, <1>4, <1>r, StepsAre DEF Enable2FA, Typed, TwoFAOK
  <2>2. ASSUME NEW u \in Users, twoFA'[u] # NoRow PROVE twoFA'[u].secret \in Ids
    BY <1>4, <2>1, <2>2, RowOf DEF Enable2FA, Typed, TwoFAOK
  <2>3. TwoFAOK'
    BY <1>4, <2>1, <2>2 DEF Enable2FA, Typed, TwoFAOK
  <2> QED BY <1>4, <2>3, TwoFATakes, Alone, StepsAre, TypedOnward DEF Enable2FA
<1>5. CASE Publish2faEnabled(t)
  BY <1>5, TwoFATakes, Alone, TypedOver DEF Publish2faEnabled
<1> QED BY <1>1, <1>2, <1>3, <1>4, <1>5 DEF TwoFAStep

\* A code, link or secret that is drawn has the next number.
LEMMA Drawn ==
  ASSUME Typed, Draws
  PROVE  drawn' = drawn + 1 /\ drawn + 1 \in Ids /\ drawn' \in 0..MaxIds
  BY IdAssumption DEF Draws, Typed, Ids, IdAssumption

\* Calls keep them.
LEMMA TypedCall ==
  ASSUME Typed, NEW t \in Tasks, NEW u \in Users, Call(t, u)
  PROVE  Typed'
<1>1. CASE Register(t, u)
  BY <1>1, CallTakes, Alone, StepsAre, TypedBegun DEF Register
<1>2. CASE VerifyEmail(t, u)
  BY <1>2, CallTakes, Alone, StepsAre, TypedBegun DEF VerifyEmail
<1>3. CASE ForgotPassword(t, u)
  BY <1>3, CallTakes, Alone, Drawn, TypedBegun DEF ForgotPassword
<1>4. CASE ResetPassword(t, u)
  BY <1>4, CallTakes, Alone, TypedBegun DEF ResetPassword
<1>5. CASE RequestPasswordChange(t, u)
  BY <1>5, CallTakes, Alone, Drawn, TypedBegun DEF RequestPasswordChange
<1>6. CASE \E i \in Ids : ConfirmPasswordChange(t, i, u)
  <2>1. PICK i \in Ids : ConfirmPasswordChange(t, i, u)
    BY <1>6
  <2> QED BY <2>1, CallTakes, Alone, TypedBegun DEF ConfirmPasswordChange
<1>7. CASE Setup2FA(t, u)
  BY <1>7, CallTakes, Alone, Drawn, TypedBegun DEF Setup2FA
<1>8. CASE Verify2FA(t, u)
  <2>1. twoFA[u].secret \in Ids
    BY <1>8, RowOf DEF Verify2FA
  <2>2. TwoFAOK'
    BY <1>8, <2>1 DEF Verify2FA, Typed, TwoFAOK
  <2>3. Begun(t, "enable", u, twoFA[u].secret, {}, "clean")
    BY <1>8, CallTakes
  <2>4. UNCHANGED <<mailVars, passVars, drawn>>
    BY <1>8 DEF Verify2FA
  <2> QED BY <2>1, <2>2, <2>3, <2>4, Alone, TypedBegun
<1>9. CASE \E c \in Codes : VerifyBackupCode(t, u, c)
  <2>1. PICK c \in Codes : VerifyBackupCode(t, u, c)
    BY <1>9
  <2>2. twoFA[u].secret \in Ids
    BY <2>1, RowOf DEF VerifyBackupCode
  <2>3. \A n \in 0..2 : More(n) \in 0..2
    BY DEF More
  <2>4. TwoFAOK'
    BY <2>1, <2>2, <2>3 DEF VerifyBackupCode, Typed, TwoFAOK
  <2>5. \E x, C : Begun(t, x, u, twoFA[u].secret, C, "clean")
    BY <2>1, CallTakes
  <2> QED BY <2>1, <2>2, <2>4, <2>5, Alone, TypedBegun DEF VerifyBackupCode
<1> QED BY <1>1, <1>2, <1>3, <1>4, <1>5, <1>6, <1>7, <1>8, <1>9 DEF Call

\* Failures, and what expires.
LEMMA TypedOther ==
  ASSUME Typed,
         \/ \E t \in Tasks : Throws(t)
         \/ \E u \in Users : \/ TokenExpires(u) \/ CodeExpires(u)
                             \/ \E i \in Ids : LinkExpires(i, u)
         \/ \E d \in Devices : TrialKeyExpires(d)
         \/ UNCHANGED vars
  PROVE  Typed'
<1>1. CASE \E t \in Tasks : Throws(t)
  <2>1. PICK t \in Tasks : Throws(t)
    BY <1>1
  <2>2. Over(t)
    BY <2>1, ThrowTakes
  <2>3. ExcusesOK'
    BY <2>1, <2>2 DEF Throws, Over, Used, Typed, ExcusesOK
  <2> QED BY <2>1, <2>2, <2>3, Alone, TypedMoves DEF Throws, Over
<1>2. CASE \E u \in Users : TokenExpires(u)
  BY <1>2, Alone DEF TokenExpires, Typed, MailOK, ExcusesOK
<1>3. CASE \E u \in Users : CodeExpires(u)
  BY <1>3, Alone DEF CodeExpires, Typed, PassOK, ExcusesOK
<1>4. CASE \E u \in Users, i \in Ids : LinkExpires(i, u)
  BY <1>4, Alone DEF LinkExpires, Typed, PassOK
<1>5. CASE UNCHANGED vars
  BY <1>5, Alone DEF vars, Typed
<1>6. CASE \E d \in Devices : TrialKeyExpires(d)
  <2>1. MailOK'
    BY <1>6 DEF TrialKeyExpires, Typed, MailOK
  <2> QED BY <1>6, <2>1, Alone DEF TrialKeyExpires, Typed, excuses
<1> QED BY <1>1, <1>2, <1>3, <1>4, <1>5, <1>6

\* Every step keeps the types.
LEMMA TypedStep == Typed /\ [Next]_vars => Typed'
  BY TypedRegister, TypedPassword, TypedTwoFA, TypedCall, TypedOther DEF Next, Works, Fails

\* The types of all that the handlers of auth-service read and write.
THEOREM AccountsTyped == Spec => []TypeOK
<1>1. Typed => TypeOK
  BY DEF Typed, MailOK, PassOK, TwoFAOK, ExcusesOK, TypeOK
<1> QED BY <1>1, TypedBegin, TypedStep, PTL DEF Spec

-------------------------------------------------------------------------------
(* The three kinds of handlers, which leave each other's state alone.        *)

MailSteps  == {"insert", "track", "token", "activate", "publish", "drop"}
PassSteps  == {"save code", "send code", "save link", "send link", "set code", "unset code",
               "set link", "unset link", "tell"}
TwoFASteps == {"delete", "create", "burn", "burn first", "enable", "tell enabled"}

\* No task at one of the steps S moves, or gets there.
Aside(S) == \A s \in Tasks : task[s].at \in S \/ task'[s].at \in S => task'[s] = task[s]
\* Excuses are kept.
Excused == /\ UNCHANGED device
           /\ overlapped \subseteq overlapped' /\ failed \subseteq failed' /\ lapsed \subseteq lapsed'

MailAside  == Aside(MailSteps) /\ UNCHANGED mailVars /\ Excused
PassAside  == /\ Aside(PassSteps) /\ Excused
              /\ UNCHANGED <<resetCode, links, mailed, changes, told>>
              /\ \A i \in Ids, u \in Users : <<i, u>> \in letters' <=> <<i, u>> \in letters
TwoFAAside == Aside(TwoFASteps) /\ UNCHANGED twoFAVars /\ Excused

\* A step outside of S moves nobody into S.
LEMMA TaskAside ==
  ASSUME Typed, NEW t \in Tasks, NEW S \in SUBSET Steps
  PROVE  /\ \A x : Onward(t, x) /\ task[t].at \notin S /\ x \notin S => Aside(S)
         /\ Over(t) /\ task[t].at \notin S => Aside(S)
         /\ \A x, u, i, C, g : Begun(t, x, u, i, C, g) /\ x \notin S => Aside(S)
         /\ UNCHANGED task => Aside(S)
<1>1. Idle.at \notin S
  BY StepsAre DEF Idle
<1> QED BY <1>1 DEF Aside, Onward, Over, Begun, OthersStay

\* The three sets are steps of handlers.
LEMMA StepSets == /\ MailSteps \in SUBSET Steps /\ PassSteps \in SUBSET Steps
                  /\ TwoFASteps \in SUBSET Steps
  BY StepsAre DEF MailSteps, PassSteps, TwoFASteps

\* What a step excuses stays excused.
LEMMA ExcusesGrow ==
  ASSUME Typed
  PROVE  /\ Quiet => Excused
         /\ \A t, x, u, i, C, g : Begun(t, x, u, i, C, g) => Excused
  BY DEF Quiet, Excused, Begun

\* Registration leaves the other two kinds alone.
LEMMA RegisterAside ==
  ASSUME Typed, NEW t \in Tasks, RegisterStep(t) \/ VerifyStep(t)
  PROVE  PassAside /\ TwoFAAside
<1>1. \/ \E x \in Steps \ (PassSteps \cup TwoFASteps) : Onward(t, x)
      \/ Over(t)
  BY RegisterTakes, StepsAre DEF RegisterStep, VerifyStep, PassSteps, TwoFASteps
<1>2. task[t].at \notin PassSteps \cup TwoFASteps /\ Quiet
  BY RegisterTakes DEF RegisterStep, VerifyStep, PassSteps, TwoFASteps
<1>3. Aside(PassSteps) /\ Aside(TwoFASteps) /\ Excused
  BY <1>1, <1>2, TaskAside, StepSets, ExcusesGrow
<1>4. /\ UNCHANGED <<resetCode, links, mailed, changes, told, twoFAVars>>
      /\ letters' = letters \/ letters' = letters \cup {<<None, task[t].user>>}
  BY DEF RegisterStep, VerifyStep, LookAtDevice, InsertUser, TrackDevice, StoreToken, passVars,
         PublishVerifyEmail, PublishRegistered, Activate, PublishEmailVerified, DropToken
<1>5. \A i \in Ids, u \in Users : <<i, u>> # <<None, task[t].user>>
  BY DEF Ids, None
<1> QED BY <1>3, <1>4, <1>5 DEF PassAside, TwoFAAside

\* So do codes and links.
LEMMA PasswordAside ==
  ASSUME Typed, NEW t \in Tasks, PasswordStep(t)
  PROVE  MailAside /\ TwoFAAside
<1>1. \/ \E x \in Steps \ (MailSteps \cup TwoFASteps) : Onward(t, x)
      \/ Over(t)
  BY PasswordTakes, StepsAre DEF PasswordStep, MailSteps, TwoFASteps
<1>2. task[t].at \notin MailSteps \cup TwoFASteps /\ Quiet
  BY PasswordTakes DEF PasswordStep, MailSteps, TwoFASteps
<1>3. Aside(MailSteps) /\ Aside(TwoFASteps) /\ Excused
  BY <1>1, <1>2, TaskAside, StepSets, ExcusesGrow
<1>4. UNCHANGED <<mailVars, twoFAVars>>
  BY DEF PasswordStep, SaveVerificationCode, PublishForgotPassword, SaveChangePasswordToken,
         PublishChangePasswordRequest, UpdatePassword, DeleteVerificationCode,
         DeleteChangePasswordToken, PublishPasswordChanged
<1> QED BY <1>3, <1>4 DEF MailAside, TwoFAAside

\* So does the second factor.
LEMMA TwoFAStepAside ==
  ASSUME Typed, NEW t \in Tasks, TwoFAStep(t)
  PROVE  MailAside /\ PassAside
<1>1. \/ \E x \in Steps \ (MailSteps \cup PassSteps) : Onward(t, x)
      \/ Over(t)
  BY TwoFATakes, StepsAre DEF TwoFAStep, MailSteps, PassSteps
<1>2. task[t].at \notin MailSteps \cup PassSteps /\ Quiet
  BY TwoFATakes DEF TwoFAStep, MailSteps, PassSteps
<1>3. Aside(MailSteps) /\ Aside(PassSteps) /\ Excused
  BY <1>1, <1>2, TaskAside, StepSets, ExcusesGrow
<1>4. UNCHANGED <<mailVars, passVars>>
  BY DEF TwoFAStep, Delete2FA, Create2FA, BurnBackupCode, Enable2FA, Publish2faEnabled
<1> QED BY <1>3, <1>4 DEF MailAside, PassAside, passVars

\* Calls that begin at a step outside S.
LEMMA CallAside ==
  ASSUME Typed, NEW t \in Tasks, NEW u \in Users, Call(t, u)
  PROVE  /\ MailAside \/ VerifyEmail(t, u)
         /\ \/ PassAside
            \/ ForgotPassword(t, u) \/ ResetPassword(t, u) \/ RequestPasswordChange(t, u)
            \/ \E i \in Ids : ConfirmPasswordChange(t, i, u)
         /\ \/ TwoFAAside
            \/ Setup2FA(t, u) \/ Verify2FA(t, u) \/ \E c \in Codes : VerifyBackupCode(t, u, c)
<1>1. CASE Register(t, u)
  <2>1. Begun(t, "look", u, None, {}, "clean")
    BY <1>1, CallTakes
  <2>2. Aside(MailSteps) /\ Aside(PassSteps) /\ Aside(TwoFASteps)
    BY <2>1, TaskAside, StepSets DEF MailSteps, PassSteps, TwoFASteps
  <2>3. UNCHANGED <<mailVars, passVars, twoFAVars>>
    BY <1>1 DEF Register
  <2> QED BY <2>1, <2>2, <2>3, ExcusesGrow DEF MailAside, PassAside, TwoFAAside, passVars
<1>2. CASE VerifyEmail(t, u)
  <2>1. Begun(t, "activate", u, None, {}, verifyToken[u])
    BY <1>2, CallTakes
  <2>2. Aside(PassSteps) /\ Aside(TwoFASteps)
    BY <2>1, TaskAside, StepSets DEF PassSteps, TwoFASteps
  <2>3. UNCHANGED <<passVars, twoFAVars>>
    BY <1>2 DEF VerifyEmail
  <2> QED BY <1>2, <2>1, <2>2, <2>3, ExcusesGrow DEF PassAside, TwoFAAside, passVars
<1>3. CASE \/ ForgotPassword(t, u) \/ ResetPassword(t, u) \/ RequestPasswordChange(t, u)
           \/ \E i \in Ids : ConfirmPasswordChange(t, i, u)
  <2>1. \E x \in PassSteps : \E i, C, g : Begun(t, x, u, i, C, g)
    BY <1>3, CallTakes DEF PassSteps
  <2>2. Aside(MailSteps) /\ Aside(TwoFASteps)
    BY <2>1, TaskAside, StepSets DEF MailSteps, PassSteps, TwoFASteps
  <2>3. UNCHANGED <<mailVars, twoFAVars>>
    BY <1>3 DEF ForgotPassword, ResetPassword, RequestPasswordChange, ConfirmPasswordChange
  <2> QED BY <1>3, <2>1, <2>2, <2>3, ExcusesGrow DEF MailAside, TwoFAAside
<1>4. CASE Setup2FA(t, u) \/ Verify2FA(t, u) \/ \E c \in Codes : VerifyBackupCode(t, u, c)
  <2>1. \E x \in TwoFASteps : \E i, C, g : Begun(t, x, u, i, C, g)
    BY <1>4, CallTakes DEF TwoFASteps
  <2>2. Aside(MailSteps) /\ Aside(PassSteps)
    BY <2>1, TaskAside, StepSets DEF MailSteps, PassSteps, TwoFASteps
  <2>3. UNCHANGED <<mailVars, passVars>>
    BY <1>4 DEF Setup2FA, Verify2FA, VerifyBackupCode
  <2> QED BY <1>4, <2>1, <2>2, <2>3, ExcusesGrow DEF MailAside, PassAside, passVars
<1> QED BY <1>1, <1>2, <1>3, <1>4 DEF Call

\* Time, and nothing.
LEMMA TimeAside ==
  ASSUME Typed
  PROVE  /\ \A u \in Users : CodeExpires(u) => MailAside /\ TwoFAAside
         /\ \A u \in Users, i \in Ids : LinkExpires(i, u) => MailAside /\ TwoFAAside
         /\ \A u \in Users : TokenExpires(u) => PassAside /\ TwoFAAside
         /\ \A d \in Devices : TrialKeyExpires(d) => PassAside /\ TwoFAAside
         /\ UNCHANGED vars => MailAside /\ PassAside /\ TwoFAAside
<1>1. UNCHANGED task => Aside(MailSteps) /\ Aside(PassSteps) /\ Aside(TwoFASteps)
  BY DEF Aside
<1>2. ASSUME NEW u \in Users, CodeExpires(u) PROVE MailAside /\ TwoFAAside
  BY <1>1, <1>2 DEF CodeExpires, MailAside, TwoFAAside, Excused
<1>3. ASSUME NEW u \in Users, NEW i \in Ids, LinkExpires(i, u) PROVE MailAside /\ TwoFAAside
  BY <1>1, <1>3 DEF LinkExpires, MailAside, TwoFAAside, Excused, excuses
<1>4. ASSUME NEW u \in Users, TokenExpires(u) PROVE PassAside /\ TwoFAAside
  BY <1>1, <1>4 DEF TokenExpires, PassAside, TwoFAAside, Excused, passVars
<1>5. ASSUME UNCHANGED vars PROVE MailAside /\ PassAside /\ TwoFAAside
  BY <1>1, <1>5 DEF vars, MailAside, PassAside, TwoFAAside, Excused, passVars, excuses
<1>6. ASSUME NEW d \in Devices, TrialKeyExpires(d) PROVE PassAside /\ TwoFAAside
  BY <1>1, <1>6 DEF TrialKeyExpires, PassAside, TwoFAAside, Excused, passVars, excuses
<1> QED BY <1>2, <1>3, <1>4, <1>5, <1>6

\* The steps that are not aside.
MailMoves(t) ==
  \/ LookAtDevice(t) \/ InsertUser(t) \/ TrackDevice(t) \/ StoreToken(t)
  \/ Activate(t) \/ PublishEmailVerified(t) \/ DropToken(t) \/ Throws(t)
  \/ \E u \in Users : VerifyEmail(t, u)
PassMoves(t) ==
  \/ PasswordStep(t) \/ Throws(t)
  \/ \E u \in Users : \/ ForgotPassword(t, u) \/ ResetPassword(t, u) \/ RequestPasswordChange(t, u)
                      \/ \E i \in Ids : ConfirmPasswordChange(t, i, u)
TwoFAMoves(t) ==
  \/ TwoFAStep(t) \/ Throws(t)
  \/ \E u \in Users : \/ Setup2FA(t, u) \/ Verify2FA(t, u)
                      \/ \E c \in Codes : VerifyBackupCode(t, u, c)

\* What a step can be for registration and verification.
LEMMA MailCases ==
  ASSUME Typed, [Next]_vars
  PROVE  \/ MailAside \/ \E t \in Tasks : MailMoves(t)
         \/ \E u \in Users : TokenExpires(u)
         \/ \E d \in Devices : TrialKeyExpires(d)
<1>1. CASE UNCHANGED vars
  BY <1>1, TimeAside
<1>2. ASSUME NEW t \in Tasks, RegisterStep(t) \/ VerifyStep(t) PROVE MailAside \/ MailMoves(t)
  <2>1. CASE PublishVerifyEmail(t) \/ PublishRegistered(t)
    <3>1. Aside(MailSteps) /\ Excused
      <4>1. /\ Over(t) \/ Onward(t, "announce")
            /\ task[t].at \notin MailSteps /\ "announce" \notin MailSteps /\ Quiet
        BY <2>1, RegisterTakes DEF MailSteps
      <4> QED BY <4>1, TaskAside, StepSets, ExcusesGrow
    <3>2. UNCHANGED mailVars
      BY <2>1 DEF PublishVerifyEmail, PublishRegistered
    <3> QED BY <3>1, <3>2 DEF MailAside
  <2> QED BY <1>2, <2>1 DEF RegisterStep, VerifyStep, MailMoves
<1>3. ASSUME NEW t \in Tasks, PasswordStep(t) \/ TwoFAStep(t) PROVE MailAside
  BY <1>3, PasswordAside, TwoFAStepAside
<1>4. ASSUME NEW t \in Tasks, NEW u \in Users, Call(t, u) PROVE MailAside \/ MailMoves(t)
  BY <1>4, CallAside DEF MailMoves
<1>5. ASSUME NEW u \in Users, CodeExpires(u) \/ \E i \in Ids : LinkExpires(i, u) PROVE MailAside
  BY <1>5, TimeAside
<1>6. ASSUME NEW t \in Tasks, Throws(t) PROVE MailMoves(t)
  BY <1>6 DEF MailMoves
<1> QED BY <1>1, <1>2, <1>3, <1>4, <1>5, <1>6 DEF Next, Works, Fails

\* What it can be for codes and links.
LEMMA PassCases ==
  ASSUME Typed, [Next]_vars
  PROVE  \/ PassAside \/ \E t \in Tasks : PassMoves(t)
         \/ \E u \in Users : CodeExpires(u) \/ \E i \in Ids : LinkExpires(i, u)
<1>1. CASE UNCHANGED vars
  BY <1>1, TimeAside
<1>2. ASSUME NEW t \in Tasks, RegisterStep(t) \/ VerifyStep(t) \/ TwoFAStep(t) PROVE PassAside
  BY <1>2, RegisterAside, TwoFAStepAside
<1>3. ASSUME NEW t \in Tasks, PasswordStep(t) \/ Throws(t) PROVE PassMoves(t)
  BY <1>3 DEF PassMoves
<1>4. ASSUME NEW t \in Tasks, NEW u \in Users, Call(t, u) PROVE PassAside \/ PassMoves(t)
  BY <1>4, CallAside DEF PassMoves
<1>5. ASSUME NEW u \in Users, TokenExpires(u) PROVE PassAside
  BY <1>5, TimeAside
<1>6. ASSUME NEW d \in Devices, TrialKeyExpires(d) PROVE PassAside
  BY <1>6, TimeAside
<1> QED BY <1>1, <1>2, <1>3, <1>4, <1>5, <1>6 DEF Next, Works, Fails

\* What it can be for the second factor.
LEMMA TwoFACases ==
  ASSUME Typed, [Next]_vars
  PROVE  TwoFAAside \/ \E t \in Tasks : TwoFAMoves(t)
<1>1. CASE UNCHANGED vars
  BY <1>1, TimeAside
<1>2. ASSUME NEW t \in Tasks, RegisterStep(t) \/ VerifyStep(t) \/ PasswordStep(t) PROVE TwoFAAside
  BY <1>2, RegisterAside, PasswordAside
<1>3. ASSUME NEW t \in Tasks, TwoFAStep(t) \/ Throws(t) PROVE TwoFAMoves(t)
  BY <1>3 DEF TwoFAMoves
<1>4. ASSUME NEW t \in Tasks, NEW u \in Users, Call(t, u) PROVE TwoFAAside \/ TwoFAMoves(t)
  BY <1>4, CallAside DEF TwoFAMoves
<1>5. ASSUME NEW u \in Users,
             TokenExpires(u) \/ CodeExpires(u) \/ \E i \in Ids : LinkExpires(i, u)
      PROVE  TwoFAAside
  BY <1>5, TimeAside
<1>6. ASSUME NEW d \in Devices, TrialKeyExpires(d) PROVE TwoFAAside
  BY <1>6, TimeAside
<1> QED BY <1>1, <1>2, <1>3, <1>4, <1>5, <1>6 DEF Next, Works, Fails

-------------------------------------------------------------------------------
(* Overlaps: whoever shares a user or a device is in overlapped.             *)

\* Two handlers at a time of one user, or of one device, are noticed.
Apart ==
  \A s, t \in Tasks : s # t /\ task[s] # Idle /\ task[t] # Idle =>
    /\ task[s].user = task[t].user => task[s].user \in overlapped
    /\ device[task[s].user] = device[task[t].user] => device[task[s].user] \in overlapped

\* A handler that goes on, or ends, meets nobody new.
LEMMA ApartMoves ==
  ASSUME Typed, Apart, Excused, NEW t \in Tasks, OthersStay(t),
         task'[t] # Idle => task[t] # Idle /\ task'[t].user = task[t].user
  PROVE  Apart'
  BY DEF Apart, Excused, OthersStay

\* A call that meets another marks their user and their device.
LEMMA ApartBegins ==
  ASSUME Typed, Apart, NEW t \in Tasks, NEW x, NEW u \in Users, NEW i, NEW C, NEW g,
         Begun(t, x, u, i, C, g)
  PROVE  Apart'
<1>1. ASSUME NEW s \in Tasks \ {t}, task[s] # Idle
      PROVE  /\ task[s].user = u => u \in overlapped'
             /\ device[task[s].user] = device[u] => device[u] \in overlapped'
  <2>1. task[s].user \in Users /\ s \in Working(task[s].user)
    BY <1>1, Knows DEF Working, Used
  <2>2. task[s].user = u => u \in Overlaps(u)
    BY <2>1 DEF Overlaps
  <2>3. device[task[s].user] = device[u] => device[u] \in Overlaps(u)
    BY <2>1 DEF Overlaps
  <2> QED BY <2>2, <2>3 DEF Begun
<1>2. overlapped \subseteq overlapped' /\ UNCHANGED device
  BY DEF Begun
<1>3. \A s \in Tasks \ {t} : task'[s] = task[s]
  BY DEF Begun, OthersStay
<1>4. task'[t].user = u
  BY DEF Begun
<1> QED BY <1>1, <1>2, <1>3, <1>4 DEF Apart

\* Every step keeps handlers apart.
LEMMA ApartStep ==
  ASSUME Typed, Apart, [Next]_vars
  PROVE  Apart'
<1>1. ASSUME NEW t \in Tasks, \/ RegisterStep(t) \/ VerifyStep(t) \/ PasswordStep(t) \/ TwoFAStep(t)
      PROVE  Apart'
  <2>1. Quiet /\ ((\E x : Onward(t, x)) \/ Over(t))
    BY <1>1, RegisterTakes, PasswordTakes, TwoFATakes
    DEF RegisterStep, VerifyStep, PasswordStep, TwoFAStep
  <2> QED BY <2>1, ApartMoves, ExcusesGrow DEF Onward, Over, Used
<1>2. ASSUME NEW t \in Tasks, Throws(t) PROVE Apart'
  <2>1. Over(t) /\ Excused
    BY <1>2, ThrowTakes DEF Throws, Excused
  <2> QED BY <2>1, ApartMoves DEF Over
<1>3. ASSUME NEW t \in Tasks, NEW u \in Users, Call(t, u) PROVE Apart'
  <2>1. \E x, i, C, g : Begun(t, x, u, i, C, g)
    BY <1>3, CallTakes DEF Call
  <2> QED BY <2>1, ApartBegins
<1>4. ASSUME UNCHANGED <<task, device, overlapped>> PROVE Apart'
  BY <1>4 DEF Apart
<1>5. ASSUME NEW u \in Users,
             TokenExpires(u) \/ CodeExpires(u) \/ \E i \in Ids : LinkExpires(i, u)
      PROVE  UNCHANGED <<task, device, overlapped>>
  BY <1>5 DEF TokenExpires, CodeExpires, LinkExpires, excuses
<1>6. ASSUME NEW d \in Devices, TrialKeyExpires(d) PROVE UNCHANGED <<task, device, overlapped>>
  BY <1>6 DEF TrialKeyExpires, excuses
<1>7. UNCHANGED vars => UNCHANGED <<task, device, overlapped>>
  BY DEF vars, excuses
<1> QED BY <1>1, <1>2, <1>3, <1>4, <1>5, <1>6, <1>7 DEF Next, Works, Fails

\* In the beginning there are none.
LEMMA ApartBegin == Init => Apart
  BY DEF Init, Apart

-------------------------------------------------------------------------------
(* Verification: NobodyIsStranded.                                           *)

Doing(t, u, S) == task[t] # Idle /\ task[t].user = u /\ task[t].at \in S

\* A user can still be verified, or has been; or the token ran out.
Safe(u) == verifyToken[u] # "none" \/ u \in lapsed \/ verified[u] # {}
OnTheWay(u) == \E t \in Tasks : Doing(t, u, {"track", "token"})

\* Whoever has a row has a token, or was verified, or is about to get a token, or failed.
Stranding(u) ==
  /\ account[u] = "active" => Safe(u)
  /\ account[u] = "inactive" => Safe(u) \/ u \in failed \/ OnTheWay(u)
  /\ \A t \in Tasks : Doing(t, u, {"activate", "publish"}) => Safe(u)
  /\ \A t \in Tasks : Doing(t, u, {"drop"}) => verified[u] # {}
NotStranded == \A u \in Users : Stranding(u)

\* What a step must not undo.
LEMMA StrandingKept ==
  ASSUME Typed, NEW u \in Users, Stranding(u), Excused,
         Safe(u) => Safe(u)', verified[u] # {} => verified'[u] # {},
         account'[u] = account[u],
         OnTheWay(u) => OnTheWay(u)' \/ u \in failed' \/ Safe(u)',
         \A t \in Tasks : Doing(t, u, {"activate", "publish"})' =>
                            Doing(t, u, {"activate", "publish"}) \/ Safe(u)',
         \A t \in Tasks : Doing(t, u, {"drop"})' => Doing(t, u, {"drop"}) \/ verified'[u] # {}
  PROVE  Stranding(u)'
  BY DEF Stranding, Excused

\* Nobody is stranded by codes, links or second factors.
LEMMA StrandingAside ==
  ASSUME Typed, NotStranded, MailAside
  PROVE  NotStranded'
<1>1. ASSUME NEW u \in Users PROVE Stranding(u)'
  <2>1. Stranding(u) /\ Excused
    BY DEF NotStranded, MailAside
  <2>2. /\ Safe(u) => Safe(u)'
        /\ verified[u] # {} => verified'[u] # {}
        /\ account'[u] = account[u]
    BY DEF Safe, MailAside, mailVars, Excused
  <2>3. ASSUME NEW t \in Tasks, NEW S \in SUBSET MailSteps PROVE Doing(t, u, S)' <=> Doing(t, u, S)
    BY DEF MailAside, Aside, Doing
  <2>4. OnTheWay(u) => OnTheWay(u)'
    BY <2>3 DEF OnTheWay, MailSteps
  <2> HIDE DEF OnTheWay
  <2>5. \A t \in Tasks : Doing(t, u, {"activate", "publish"})' => Doing(t, u, {"activate", "publish"})
    BY <2>3 DEF MailSteps
  <2>6. \A t \in Tasks : Doing(t, u, {"drop"})' => Doing(t, u, {"drop"})
    BY <2>3 DEF MailSteps
  <2> QED BY <2>1, <2>2, <2>4, <2>5, <2>6, StrandingKept
<1> QED BY <1>1 DEF NotStranded

\* Which tasks do what after a step.
LEMMA DoingOnward ==
  ASSUME NEW t \in Tasks, NEW x, Onward(t, x), NEW u \in Users
  PROVE  \A S : /\ \A s \in Tasks : s # t => (Doing(s, u, S)' <=> Doing(s, u, S))
                /\ Doing(t, u, S) <=> task[t].user = u /\ task[t].at \in S
                /\ Doing(t, u, S)' <=> task[t].user = u /\ x \in S
  BY DEF OthersStay, Doing, Onward, Used

\* What is in progress once a handler is over.
LEMMA DoingOver ==
  ASSUME NEW t \in Tasks, Over(t), NEW u \in Users
  PROVE  \A S : /\ \A s \in Tasks : s # t => (Doing(s, u, S)' <=> Doing(s, u, S))
                /\ Doing(t, u, S) <=> task[t].user = u /\ task[t].at \in S
                /\ ~Doing(t, u, S)'
  BY DEF OthersStay, Doing, Over, Used

\* What is in progress once a call has begun.
LEMMA DoingBegun ==
  ASSUME NEW t \in Tasks, NEW x, NEW w, NEW i, NEW C, NEW g, Begun(t, x, w, i, C, g),
         NEW u \in Users
  PROVE  \A S : /\ \A s \in Tasks : s # t => (Doing(s, u, S)' <=> Doing(s, u, S))
                /\ ~Doing(t, u, S)
                /\ Doing(t, u, S)' <=> w = u /\ x \in S
  BY DEF OthersStay, Doing, Begun, Used

\* A task that moves to none of the steps S is not doing them.
LEMMA NotDoing ==
  ASSUME NEW t \in Tasks, NEW S, NEW u \in Users,
         Over(t) \/ (\E x : x \notin S /\ Onward(t, x))
  PROVE  \A s \in Tasks : Doing(s, u, S)' => Doing(s, u, S)
  BY DoingOnward, DoingOver

\* Nor by registration: who loses a token is verified, or excused.
LEMMA StrandingMoves ==
  ASSUME Typed, NotStranded, NEW t \in Tasks, MailMoves(t)
  PROVE  NotStranded'
<1> SUFFICES ASSUME NEW u \in Users PROVE Stranding(u)'
  BY DEF NotStranded
<1>0. Stranding(u) /\ NotStranded
  BY DEF NotStranded
<1>1. CASE LookAtDevice(t)
  <2>1. task[t].at = "look" /\ Onward(t, "insert") /\ Excused /\ UNCHANGED mailVars
    BY <1>1, RegisterTakes, ExcusesGrow DEF LookAtDevice
  <2>2. \A S : "insert" \notin S /\ "look" \notin S =>
          \A s \in Tasks : Doing(s, u, S)' <=> Doing(s, u, S)
    BY <2>1, DoingOnward
  <2>3. /\ OnTheWay(u) => OnTheWay(u)'
        /\ \A s \in Tasks : Doing(s, u, {"activate", "publish"})' => Doing(s, u, {"activate", "publish"})
        /\ \A s \in Tasks : Doing(s, u, {"drop"})' => Doing(s, u, {"drop"})
    BY <2>2 DEF OnTheWay
  <2>4. Safe(u) => Safe(u)'
    BY <2>1 DEF Safe, mailVars, Excused
  <2> QED BY <1>0, <2>1, <2>3, <2>4, StrandingKept DEF mailVars
<1>2. CASE InsertUser(t)
  <2>1. task[t].at = "insert" /\ (Onward(t, "track") \/ Over(t)) /\ Excused
    BY <1>2, RegisterTakes, ExcusesGrow
  <2>2. UNCHANGED <<verifyToken, verified>>
    BY <1>2 DEF InsertUser
  <2>3. /\ \A s \in Tasks : Doing(s, u, {"activate", "publish"})' => Doing(s, u, {"activate", "publish"})
        /\ \A s \in Tasks : Doing(s, u, {"drop"})' => Doing(s, u, {"drop"})
    <3>1. \A s \in Tasks : Doing(s, u, {"activate", "publish"})' => Doing(s, u, {"activate", "publish"})
      BY <2>1, NotDoing
    <3>2. \A s \in Tasks : Doing(s, u, {"drop"})' => Doing(s, u, {"drop"})
      BY <2>1, NotDoing
    <3> QED BY <3>1, <3>2
  <2>4. OnTheWay(u) => OnTheWay(u)'
    BY <2>1, DoingOnward, DoingOver DEF OnTheWay
  <2>5. Safe(u) => Safe(u)'
    BY <2>1, <2>2 DEF Safe, Excused
  <2>6. CASE account'[u] = account[u]
    BY <1>0, <2>1, <2>2, <2>3, <2>4, <2>5, <2>6, StrandingKept
  <2>7. CASE account'[u] # account[u]
    <3>1. account'[u] = "inactive" /\ task[t].user = u /\ Onward(t, "track")
      <4>1. account' = [account EXCEPT ![task[t].user] = "inactive"] /\ Goes(t, "track")
        BY <1>2, <2>7 DEF InsertUser
      <4>2. Onward(t, "track")
        BY <2>1, <4>1, Advances, StepsAre
      <4> QED BY <2>7, <4>1, <4>2 DEF Typed, MailOK
    <3>2. OnTheWay(u)'
      BY <3>1 DEF OnTheWay, Doing, Onward, Used
    <3> QED BY <1>0, <2>2, <2>3, <2>5, <3>1, <3>2 DEF Stranding
  <2> QED BY <2>6, <2>7
<1>3. CASE TrackDevice(t)
  <2>1. task[t].at = "track" /\ Onward(t, "token") /\ Excused
    BY <1>3, RegisterTakes, ExcusesGrow
  <2>2. UNCHANGED <<account, verifyToken, verified>>
    BY <1>3 DEF TrackDevice
  <2>3. /\ \A s \in Tasks : Doing(s, u, {"activate", "publish"})' => Doing(s, u, {"activate", "publish"})
        /\ \A s \in Tasks : Doing(s, u, {"drop"})' => Doing(s, u, {"drop"})
    <3>1. \A s \in Tasks : Doing(s, u, {"activate", "publish"})' => Doing(s, u, {"activate", "publish"})
      BY <2>1, NotDoing
    <3>2. \A s \in Tasks : Doing(s, u, {"drop"})' => Doing(s, u, {"drop"})
      BY <2>1, NotDoing
    <3> QED BY <3>1, <3>2
  <2>4. OnTheWay(u) => OnTheWay(u)'
    BY <2>1, DoingOnward DEF OnTheWay
  <2>5. Safe(u) => Safe(u)'
    BY <2>1, <2>2 DEF Safe, Excused
  <2> QED BY <1>0, <2>1, <2>2, <2>3, <2>4, <2>5, StrandingKept
<1>4. CASE StoreToken(t)
  <2>1. task[t].at = "token" /\ Onward(t, "mail") /\ Excused
    BY <1>4, RegisterTakes, ExcusesGrow
  <2>2. UNCHANGED <<account, verified>> /\ verifyToken' = [verifyToken EXCEPT ![task[t].user] = task[t].signal]
    BY <1>4 DEF StoreToken
  <2>3. /\ \A s \in Tasks : Doing(s, u, {"activate", "publish"})' => Doing(s, u, {"activate", "publish"})
        /\ \A s \in Tasks : Doing(s, u, {"drop"})' => Doing(s, u, {"drop"})
    <3>1. \A s \in Tasks : Doing(s, u, {"activate", "publish"})' => Doing(s, u, {"activate", "publish"})
      BY <2>1, NotDoing
    <3>2. \A s \in Tasks : Doing(s, u, {"drop"})' => Doing(s, u, {"drop"})
      BY <2>1, NotDoing
    <3> QED BY <3>1, <3>2
  <2>4. task[t].signal # "none"
    BY <2>1 DEF Onward, Used
  <2>5. task[t].user = u => Safe(u)'
    BY <2>2, <2>4 DEF Safe, Typed, MailOK
  <2>6. Safe(u) => Safe(u)'
    BY <2>1, <2>2, <2>5 DEF Safe, Excused, Typed, MailOK
  <2>7. OnTheWay(u) => OnTheWay(u)' \/ Safe(u)'
    BY <2>1, <2>5, DoingOnward DEF OnTheWay
  <2> QED BY <1>0, <2>1, <2>2, <2>3, <2>6, <2>7, StrandingKept
<1>5. CASE Activate(t)
  <2>1. task[t].at = "activate" /\ Onward(t, "publish") /\ Excused
    BY <1>5, RegisterTakes, ExcusesGrow
  <2>2. UNCHANGED <<verifyToken, verified>> /\ account' = [account EXCEPT ![task[t].user] = "active"]
    BY <1>5 DEF Activate
  <2>3. Safe(u) => Safe(u)'
    BY <2>1, <2>2 DEF Safe, Excused
  <2>4. Doing(t, u, {"activate", "publish"}) \/ task[t].user # u
    BY <2>1 DEF Doing, Onward, Used
  <2>5. /\ \A s \in Tasks : Doing(s, u, {"activate", "publish"})' => Doing(s, u, {"activate", "publish"})
        /\ \A s \in Tasks : Doing(s, u, {"drop"})' => Doing(s, u, {"drop"})
    <3>1. \A s \in Tasks : Doing(s, u, {"activate", "publish"})' => Doing(s, u, {"activate", "publish"})
      BY <2>1, DoingOnward
    <3>2. \A s \in Tasks : Doing(s, u, {"drop"})' => Doing(s, u, {"drop"})
      BY <2>1, NotDoing
    <3> QED BY <3>1, <3>2
  <2>6. OnTheWay(u) => OnTheWay(u)'
    BY <2>1, DoingOnward DEF OnTheWay
  <2>7. CASE task[t].user # u
    BY <1>0, <2>1, <2>2, <2>3, <2>5, <2>6, <2>7, StrandingKept
  <2>8. CASE task[t].user = u
    <3>1. Safe(u)'
      BY <1>0, <2>3, <2>4, <2>8 DEF Stranding
    <3> QED BY <1>0, <2>2, <2>5, <2>8, <3>1 DEF Stranding
  <2> QED BY <2>7, <2>8
<1>6. CASE PublishEmailVerified(t)
  <2>1. task[t].at = "publish" /\ Onward(t, "drop") /\ Excused
    BY <1>6, RegisterTakes, ExcusesGrow
  <2>2. /\ UNCHANGED <<account, verifyToken>>
        /\ verified' = [verified EXCEPT ![task[t].user] = @ \cup {task[t].signal}]
    BY <1>6 DEF PublishEmailVerified
  <2>3. verified[u] # {} => verified'[u] # {}
    BY <2>2 DEF Typed, MailOK
  <2>4. task[t].user = u => verified'[u] # {}
    BY <2>2 DEF Typed, MailOK
  <2>5. /\ \A s \in Tasks : Doing(s, u, {"activate", "publish"})' => Doing(s, u, {"activate", "publish"})
        /\ \A s \in Tasks : Doing(s, u, {"drop"})' => Doing(s, u, {"drop"}) \/ verified'[u] # {}
    BY <2>1, <2>4, DoingOnward
  <2>6. OnTheWay(u) => OnTheWay(u)'
    BY <2>1, DoingOnward DEF OnTheWay
  <2>7. Safe(u) => Safe(u)'
    BY <2>1, <2>2, <2>3 DEF Safe, Excused
  <2> QED BY <1>0, <2>1, <2>2, <2>3, <2>5, <2>6, <2>7, StrandingKept
<1>7. CASE DropToken(t)
  <2>1. task[t].at = "drop" /\ Over(t) /\ Excused
    BY <1>7, RegisterTakes, ExcusesGrow
  <2>2. UNCHANGED <<account, verified>> /\ verifyToken' = [verifyToken EXCEPT ![task[t].user] = "none"]
    BY <1>7 DEF DropToken
  <2>3. /\ \A s \in Tasks : Doing(s, u, {"activate", "publish"})' => Doing(s, u, {"activate", "publish"})
        /\ \A s \in Tasks : Doing(s, u, {"drop"})' => Doing(s, u, {"drop"})
    BY <2>1, DoingOver
  <2>4. OnTheWay(u) => OnTheWay(u)'
    BY <2>1, DoingOver DEF OnTheWay
  <2>5. task[t].user = u => verified[u] # {}
    BY <1>0, <2>1 DEF Stranding, Doing, Over, Used
  <2>6. Safe(u) => Safe(u)'
    BY <2>1, <2>2, <2>5 DEF Safe, Excused, Typed, MailOK
  <2> QED BY <1>0, <2>1, <2>2, <2>3, <2>4, <2>6, StrandingKept
<1>8. CASE Throws(t)
  <2>1. Over(t) /\ Excused /\ UNCHANGED mailVars /\ failed' = failed \cup {task[t].user}
    BY <1>8, ThrowTakes DEF Throws, Excused
  <2>2. /\ \A s \in Tasks : Doing(s, u, {"activate", "publish"})' => Doing(s, u, {"activate", "publish"})
        /\ \A s \in Tasks : Doing(s, u, {"drop"})' => Doing(s, u, {"drop"})
    BY <2>1, DoingOver
  <2>3. OnTheWay(u) => OnTheWay(u)' \/ u \in failed'
    BY <2>1, DoingOver DEF OnTheWay
  <2>4. Safe(u) => Safe(u)'
    BY <2>1 DEF Safe, mailVars, Excused
  <2> QED BY <1>0, <2>1, <2>2, <2>3, <2>4, StrandingKept DEF mailVars
<1>9. ASSUME NEW w \in Users, VerifyEmail(t, w) PROVE Stranding(u)'
  <2>1. Begun(t, "activate", w, None, {}, verifyToken[w]) /\ verifyToken[w] # "none" /\ Excused
        /\ UNCHANGED mailVars
    BY <1>9, CallTakes, ExcusesGrow DEF VerifyEmail
  <2>2. Safe(u) => Safe(u)'
    BY <2>1 DEF Safe, mailVars, Excused
  <2>3. w = u => Safe(u)'
    BY <2>1, <2>2 DEF Safe
  <2>4. /\ \A s \in Tasks : Doing(s, u, {"activate", "publish"})' =>
                              Doing(s, u, {"activate", "publish"}) \/ Safe(u)'
        /\ \A s \in Tasks : Doing(s, u, {"drop"})' => Doing(s, u, {"drop"})
    <3>1. \A s \in Tasks : Doing(s, u, {"drop"})' => Doing(s, u, {"drop"})
      BY <2>1, DoingBegun
    <3>2. \A s \in Tasks : s # t \/ w # u =>
            (Doing(s, u, {"activate", "publish"})' => Doing(s, u, {"activate", "publish"}))
      BY <2>1, DoingBegun
    <3> QED BY <2>3, <3>1, <3>2
  <2>5. OnTheWay(u) => OnTheWay(u)'
    BY <2>1, DoingBegun DEF OnTheWay
  <2> QED BY <1>0, <2>1, <2>2, <2>4, <2>5, StrandingKept DEF mailVars
<1> QED BY <1>1, <1>2, <1>3, <1>4, <1>5, <1>6, <1>7, <1>8, <1>9 DEF MailMoves

\* Nor by a token that expires, which is excused.
LEMMA StrandingExpires ==
  ASSUME Typed, NotStranded, NEW w \in Users, TokenExpires(w)
  PROVE  NotStranded'
<1> SUFFICES ASSUME NEW u \in Users PROVE Stranding(u)'
  BY DEF NotStranded
<1>1. /\ UNCHANGED <<account, verified, task, failed>>
      /\ verifyToken' = [verifyToken EXCEPT ![w] = "none"] /\ lapsed' = lapsed \cup {w} /\ Excused
  BY DEF TokenExpires, Excused
<1>2. Safe(u) => Safe(u)'
  BY <1>1 DEF Safe, Typed, MailOK
<1>3. \A t \in Tasks : \A S : Doing(t, u, S)' <=> Doing(t, u, S)
  BY <1>1 DEF Doing
<1>4. OnTheWay(u) => OnTheWay(u)'
  BY <1>3 DEF OnTheWay
<1> QED BY <1>1, <1>2, <1>3, <1>4, StrandingKept DEF NotStranded

\* Keys of devices have nothing to do with it.
LEMMA StrandingForgets ==
  ASSUME NotStranded, NEW d \in Devices, TrialKeyExpires(d)
  PROVE  NotStranded'
  BY DEF TrialKeyExpires, NotStranded, Stranding, Safe, OnTheWay, Doing, excuses

\* Every step keeps the invariant.
LEMMA StrandingStep == Typed /\ NotStranded /\ [Next]_vars => NotStranded'
  BY MailCases, StrandingAside, StrandingMoves, StrandingExpires, StrandingForgets

\* In the beginning nobody has a row.
LEMMA StrandingBegin == Init => NotStranded
  BY DEF Init, NotStranded, Stranding, Doing

\* Nobody is left verified without the event that brings the trial, and nobody
\* registered without a way to verify, for any number of users, devices and handlers at
\* once: the token is stored before the mail goes and dropped after the event
\* (register, verifyEmail).
THEOREM NobodyStranded == Spec => []NobodyIsStranded
<1>1. Typed /\ NotStranded => NobodyIsStranded
  <2> SUFFICES ASSUME Typed, NotStranded, NEW u \in Users, account[u] # "none", verified[u] = {},
                      ~(verifyToken[u] # "none" \/ u \in lapsed)
               PROVE  account[u] = "inactive" /\ (At(u, Registering) \/ u \in failed)
    BY DEF NobodyIsStranded
  <2>1. ~Safe(u) /\ Stranding(u) /\ account[u] \in {"none", "inactive", "active"}
    BY DEF Safe, NotStranded, Typed, MailOK
  <2>2. account[u] = "inactive" /\ (u \in failed \/ OnTheWay(u))
    BY <2>1 DEF Stranding
  <2>3. OnTheWay(u) => At(u, Registering)
    BY DEF OnTheWay, Doing, At, Working, Registering
  <2> QED BY <2>2, <2>3
<1> QED BY <1>1, TypedBegin, TypedStep, StrandingBegin, StrandingStep, PTL DEF Spec

-------------------------------------------------------------------------------
(* Trials: OneTrialPerDevice.                                                *)

Signalling == {"insert", "track", "token", "activate", "publish"}
Signals(t, u) == Doing(t, u, Signalling) /\ task[t].signal = "clean"

\* A user has a clean signal, or will have.
Claims(u) == \/ "clean" \in verified[u] \/ verifyToken[u] = "clean"
             \/ \E t \in Tasks : Signals(t, u)
\* A user is past TrackDevice, and the device is recorded, if there is one and
\* the record has not run out since.
Recorded(u) == \/ verified[u] # {} \/ verifyToken[u] # "none"
               \/ \E t \in Tasks : Doing(t, u, {"token", "activate", "publish"})
Known(u) == Recorded(u) => device[u] \in trialDevices \cup {NoDevice} \/ u \in forgotten

\* Who was recorded has the device stored; who claims a trial is alone with the device.
Trials ==
  /\ \A u \in Users : Known(u)
  /\ \A u, v \in Users \ forgotten :
       device[u] = device[v] /\ device[u] # NoDevice /\ Claims(u) /\ Claims(v)
         => u = v \/ device[u] \in overlapped

\* Whoever is past the INSERT has a row.
Started(u) == \/ verified[u] # {} \/ verifyToken[u] # "none"
              \/ \E t \in Tasks : Doing(t, u, {"track", "token", "activate", "publish"})
HaveRows == \A u \in Users : Started(u) => account[u] # "none"

\* Nobody loses a row, and nobody starts without one.
LEMMA RowsKept ==
  ASSUME HaveRows, NEW u \in Users, account[u] # "none" => account'[u] # "none",
         Started(u)' => Started(u)
  PROVE  Started(u)' => account'[u] # "none"
  BY DEF HaveRows

\* Who is verified, or has a token, had one, or a handler does it.
LEMMA StartedBefore ==
  ASSUME NEW u \in Users, Started(u)',
         verified'[u] # {} => Started(u), verifyToken'[u] # "none" => Started(u),
         \A s \in Tasks : Doing(s, u, {"track", "token", "activate", "publish"})' =>
                            Doing(s, u, {"track", "token", "activate", "publish"}) \/ Started(u)
  PROVE  Started(u)
  BY DEF Started

\* The steps of registration and verification keep rows.
LEMMA RowsMove ==
  ASSUME Typed, HaveRows, NEW t \in Tasks, MailMoves(t)
  PROVE  HaveRows'
<1> DEFINE S == {"track", "token", "activate", "publish"}
<1> SUFFICES ASSUME NEW u \in Users PROVE Started(u)' => account'[u] # "none"
  BY DEF HaveRows
<1>0. /\ verified[u] # {} => Started(u)
      /\ verifyToken[u] # "none" => Started(u)
      /\ \A s \in Tasks : Doing(s, u, S) => Started(u)
  BY DEF Started
<1>1. CASE LookAtDevice(t)
  <2>1. Onward(t, "insert") /\ UNCHANGED mailVars
    BY <1>1, RegisterTakes DEF LookAtDevice
  <2>2. \A s \in Tasks : Doing(s, u, S)' => Doing(s, u, S)
    BY <2>1, NotDoing
  <2> QED BY <1>0, <2>1, <2>2, StartedBefore, RowsKept DEF mailVars
<1>2. CASE InsertUser(t)
  <2>1. task[t].at = "insert" /\ (Onward(t, "track") \/ Over(t))
        /\ UNCHANGED <<verifyToken, verified>>
    BY <1>2, RegisterTakes DEF InsertUser
  <2>2. account'[u] \in {account[u], "inactive"}
    BY <1>2 DEF InsertUser, Typed, MailOK
  <2>3. CASE account' = account /\ Ends(t)
    <3>1. Over(t)
      BY <2>1, <2>3, Stops, StepsAre
    <3>2. \A s \in Tasks : Doing(s, u, S)' => Doing(s, u, S)
      BY <3>1, NotDoing
    <3> QED BY <1>0, <2>1, <2>3, <3>2, StartedBefore, RowsKept
  <2>4. CASE account' = [account EXCEPT ![task[t].user] = "inactive"] /\ Goes(t, "track")
    <3>1. Onward(t, "track")
      BY <2>1, <2>4, Advances, StepsAre
    <3>2. CASE u = task[t].user
      BY <2>4, <3>2 DEF Typed, MailOK
    <3>3. CASE u # task[t].user
      <4>1. \A s \in Tasks : Doing(s, u, S)' => Doing(s, u, S)
        BY <3>1, <3>3, DoingOnward
      <4> QED BY <1>0, <2>1, <2>2, <4>1, StartedBefore, RowsKept
    <3> QED BY <3>2, <3>3
  <2> QED BY <1>2, <2>3, <2>4 DEF InsertUser
<1>3. CASE TrackDevice(t)
  <2>1. task[t].at = "track" /\ Onward(t, "token") /\ UNCHANGED <<account, verifyToken, verified>>
    BY <1>3, RegisterTakes DEF TrackDevice
  <2>2. \A s \in Tasks : Doing(s, u, S)' => Doing(s, u, S)
    BY <2>1, DoingOnward
  <2> QED BY <1>0, <2>1, <2>2, StartedBefore, RowsKept
<1>4. CASE StoreToken(t)
  <2>1. task[t].at = "token" /\ Onward(t, "mail") /\ UNCHANGED <<account, verified>>
        /\ verifyToken' = [verifyToken EXCEPT ![task[t].user] = task[t].signal]
    BY <1>4, RegisterTakes DEF StoreToken
  <2>2. \A s \in Tasks : Doing(s, u, S)' => Doing(s, u, S)
    BY <2>1, NotDoing
  <2>3. u = task[t].user => Doing(t, u, S)
    BY <2>1, DoingOnward
  <2>4. verifyToken'[u] # "none" => Started(u)
    BY <1>0, <2>1, <2>3 DEF Typed, MailOK
  <2> QED BY <1>0, <2>1, <2>2, <2>4, StartedBefore, RowsKept
<1>5. CASE Activate(t)
  <2>1. task[t].at = "activate" /\ Onward(t, "publish") /\ UNCHANGED <<verifyToken, verified>>
    BY <1>5, RegisterTakes DEF Activate
  <2>2. \A s \in Tasks : Doing(s, u, S)' => Doing(s, u, S)
    BY <2>1, DoingOnward
  <2>3. account'[u] \in {account[u], "active"}
    BY <1>5 DEF Activate, Typed, MailOK
  <2> QED BY <1>0, <2>1, <2>2, <2>3, StartedBefore, RowsKept
<1>6. CASE PublishEmailVerified(t)
  <2>1. task[t].at = "publish" /\ Onward(t, "drop") /\ UNCHANGED <<account, verifyToken>>
        /\ verified' = [verified EXCEPT ![task[t].user] = @ \cup {task[t].signal}]
    BY <1>6, RegisterTakes DEF PublishEmailVerified
  <2>2. \A s \in Tasks : Doing(s, u, S)' => Doing(s, u, S)
    BY <2>1, NotDoing
  <2>3. u = task[t].user => Doing(t, u, S)
    BY <2>1, DoingOnward
  <2>4. verified'[u] # {} => Started(u)
    BY <1>0, <2>1, <2>3 DEF Typed, MailOK
  <2> QED BY <1>0, <2>1, <2>2, <2>4, StartedBefore, RowsKept
<1>7. CASE DropToken(t)
  <2>1. Over(t)
    BY <1>7, RegisterTakes
  <2>2. UNCHANGED <<account, verified>> /\ verifyToken'[u] \in {verifyToken[u], "none"}
    BY <1>7 DEF DropToken, Typed, MailOK
  <2>3. \A s \in Tasks : Doing(s, u, S)' => Doing(s, u, S)
    BY <2>1, NotDoing
  <2> QED BY <1>0, <2>2, <2>3, StartedBefore, RowsKept
<1>8. CASE Throws(t)
  <2>1. Over(t) /\ UNCHANGED mailVars
    BY <1>8, ThrowTakes DEF Throws
  <2>2. \A s \in Tasks : Doing(s, u, S)' => Doing(s, u, S)
    BY <2>1, NotDoing
  <2> QED BY <1>0, <2>1, <2>2, StartedBefore, RowsKept DEF mailVars
<1>9. ASSUME NEW w \in Users, VerifyEmail(t, w) PROVE Started(u)' => account'[u] # "none"
  <2>1. Begun(t, "activate", w, None, {}, verifyToken[w]) /\ verifyToken[w] # "none"
        /\ UNCHANGED mailVars
    BY <1>9, CallTakes DEF VerifyEmail
  <2>2. \A s \in Tasks : Doing(s, u, S)' => Doing(s, u, S) \/ u = w
    BY <2>1, DoingBegun
  <2> QED BY <1>0, <2>1, <2>2, StartedBefore, RowsKept DEF mailVars
<1> QED BY <1>1, <1>2, <1>3, <1>4, <1>5, <1>6, <1>7, <1>8, <1>9 DEF MailMoves

\* Every step does.
LEMMA RowsStep == Typed /\ HaveRows /\ [Next]_vars => HaveRows'
<1> SUFFICES ASSUME Typed, HaveRows, [Next]_vars PROVE HaveRows'
  OBVIOUS
<1>1. CASE MailAside
  <2>1. UNCHANGED <<account, verified, verifyToken>>
    BY <1>1 DEF MailAside, mailVars
  <2>2. ASSUME NEW u \in Users, NEW s \in Tasks,
               Doing(s, u, {"track", "token", "activate", "publish"})'
        PROVE  Doing(s, u, {"track", "token", "activate", "publish"})
    BY <1>1, <2>2 DEF MailAside, Aside, MailSteps, Doing
  <2> QED BY <2>1, <2>2 DEF HaveRows, Started
<1>2. ASSUME NEW w \in Users, TokenExpires(w) PROVE HaveRows'
  BY <1>2 DEF TokenExpires, HaveRows, Started, Doing, Typed, MailOK
<1>3. ASSUME NEW d \in Devices, TrialKeyExpires(d) PROVE HaveRows'
  BY <1>3 DEF TrialKeyExpires, HaveRows, Started, Doing
<1> QED BY <1>1, <1>2, <1>3, RowsMove, MailCases

\* In the beginning nobody has started.
LEMMA RowsBegin == Init => HaveRows
  BY DEF Init, HaveRows, Started, Doing

\* When no claim is new and every new record has its device stored, trials hold.
LEMMA TrialsKept ==
  ASSUME Trials, Excused, \A u \in Users : Claims(u)' => Claims(u),
         trialDevices \subseteq trialDevices', forgotten \subseteq forgotten',
         \A u \in Users : Recorded(u)' => Recorded(u) \/ device[u] \in trialDevices' \cup {NoDevice}
  PROVE  Trials'
  BY DEF Trials, Known, Excused

\* Other tasks signal what they did.
LEMMA SignalsOthers ==
  ASSUME NEW t \in Tasks, OthersStay(t), NEW u \in Users, NEW s \in Tasks \ {t}
  PROVE  /\ Signals(s, u)' <=> Signals(s, u)
         /\ \A S : Doing(s, u, S)' <=> Doing(s, u, S)
  BY DEF OthersStay, Doing, Signals

\* Codes, links and second factors take no trial.
LEMMA TrialsAside ==
  ASSUME Typed, Trials, MailAside
  PROVE  Trials'
<1>1. ASSUME NEW u \in Users PROVE (Claims(u)' => Claims(u)) /\ (Recorded(u)' => Recorded(u))
  <2>1. \A t \in Tasks : Signals(t, u)' => Signals(t, u)
    <3>1. ASSUME NEW t \in Tasks, Signals(t, u)' PROVE Signals(t, u)
      <4>1. CASE task'[t].at = "insert"
        BY <3>1, <4>1 DEF MailAside, Aside, MailSteps, Signals, Doing
      <4>2. CASE task'[t].at \in {"track", "token", "activate", "publish"}
        BY <3>1, <4>2 DEF MailAside, Aside, MailSteps, Signals, Doing
      <4> QED BY <3>1, <4>1, <4>2 DEF Signals, Doing, Signalling
    <3> QED BY <3>1
  <2>2. \A t \in Tasks : Doing(t, u, {"token", "activate", "publish"})' =>
                           Doing(t, u, {"token", "activate", "publish"})
    BY DEF MailAside, Aside, MailSteps, Doing
  <2> QED BY <2>1, <2>2 DEF Claims, Recorded, MailAside, mailVars
<1> QED BY <1>1, TrialsKept DEF MailAside, mailVars

\* A task that ends claims nothing any more.
LEMMA TrialsOver ==
  ASSUME Typed, Trials, Excused, NEW t \in Tasks, Over(t), UNCHANGED <<trialDevices, verified, forgotten>>,
         \A u \in Users : verifyToken'[u] \in {verifyToken[u], "none"}
  PROVE  Trials'
<1>1. ASSUME NEW u \in Users PROVE (Claims(u)' => Claims(u)) /\ (Recorded(u)' => Recorded(u))
  <2>1. ~Signals(t, u)' /\ ~Doing(t, u, {"token", "activate", "publish"})'
    BY DoingOver DEF Signals
  <2>2. \A s \in Tasks \ {t} : /\ Signals(s, u)' <=> Signals(s, u)
                               /\ \A S : Doing(s, u, S)' <=> Doing(s, u, S)
    BY SignalsOthers DEF Over
  <2>3. verifyToken'[u] \in {verifyToken[u], "none"}
    OBVIOUS
  <2>4. Claims(u)' => Claims(u)
    BY <2>1, <2>2, <2>3 DEF Claims
  <2>5. Recorded(u)' => Recorded(u)
    BY <2>1, <2>2, <2>3 DEF Recorded
  <2> QED BY <2>4, <2>5
<1> QED BY <1>1, TrialsKept

\* The step that reads trialDevices: nobody else of the device can have a clean
\* signal if it is not recorded, but for one whose handler overlaps.
LEMMA TrialsLook ==
  ASSUME Typed, Trials, Apart, NEW t \in Tasks, LookAtDevice(t)
  PROVE  Trials'
<1>1. task[t].at = "look" /\ Onward(t, "insert") /\ Excused /\ UNCHANGED mailVars
  BY RegisterTakes, ExcusesGrow DEF LookAtDevice
<1>2. PICK w \in Users : w = task[t].user
  BY <1>1 DEF Onward, Used
<1>3. task'[t].signal = "clean" => device[w] \notin trialDevices
  BY <1>1, <1>2 DEF LookAtDevice, Typed, Onward, Used, Busy
<1>4. OthersStay(t)
  BY <1>1 DEF Onward
<1>5. ASSUME NEW u \in Users PROVE Claims(u)' => Claims(u) \/ (u = w /\ device[w] \notin trialDevices)
  <2>1. \A s \in Tasks \ {t} : Signals(s, u)' <=> Signals(s, u)
    BY <1>4, SignalsOthers
  <2>2. Signals(t, u)' => u = w /\ device[w] \notin trialDevices
    BY <1>1, <1>2, <1>3, DoingOnward DEF Signals
  <2> QED BY <1>1, <2>1, <2>2 DEF Claims, mailVars
<1>6. ASSUME NEW u \in Users PROVE Recorded(u)' => Recorded(u)
  <2>1. \A s \in Tasks : Doing(s, u, {"token", "activate", "publish"})' =>
                           Doing(s, u, {"token", "activate", "publish"})
    BY <1>1, NotDoing
  <2> QED BY <1>1, <2>1 DEF Recorded, mailVars
<1>7. ASSUME NEW v \in Users \ forgotten, v # w, device[v] = device[w], device[w] # NoDevice,
             Claims(v), device[w] \notin trialDevices
      PROVE  device[w] \in overlapped
  <2>1. ~Recorded(v)
    BY <1>7 DEF Trials, Known
  <2>2. verified[v] = {} /\ verifyToken[v] = "none"
    BY <2>1 DEF Recorded
  <2>3. PICK s \in Tasks : Signals(s, v)
    BY <1>7, <2>2 DEF Claims
  <2>4. s # t /\ task[s] # Idle /\ task[s].user = v
    BY <1>2, <1>7, <2>3 DEF Signals, Doing
  <2> QED BY <1>1, <1>2, <1>7, <2>4 DEF Apart, Onward, Used
<1>8. \A u \in Users : Known(u)'
  BY <1>1, <1>6 DEF Trials, Known, Excused, mailVars
<1>9. ASSUME NEW u \in Users \ forgotten, NEW v \in Users \ forgotten, device[u] = device[v],
             device[u] # NoDevice, Claims(u)', Claims(v)', u # v
      PROVE  device[u] \in overlapped'
  <2>1. CASE Claims(u) /\ Claims(v)
    BY <1>1, <1>9, <2>1 DEF Trials, Excused
  <2>2. CASE ~Claims(u)
    <3>1. u = w /\ Claims(v) /\ device[w] \notin trialDevices
      BY <1>5, <1>9, <2>2
    <3> QED BY <1>1, <1>7, <1>9, <3>1 DEF Excused
  <2>3. CASE ~Claims(v)
    <3>1. v = w /\ Claims(u) /\ device[w] \notin trialDevices
      BY <1>5, <1>9, <2>3
    <3> QED BY <1>1, <1>7, <1>9, <3>1 DEF Excused
  <2> QED BY <2>1, <2>2, <2>3
<1> QED BY <1>1, <1>8, <1>9 DEF Trials, Excused, mailVars

\* A clean look finds no trial of the device, and nobody else may be between look and record.
LEMMA TrialsMoves ==
  ASSUME Typed, Trials, Apart, NEW t \in Tasks, MailMoves(t)
  PROVE  Trials'
<1>1. CASE LookAtDevice(t)
  BY <1>1, TrialsLook
<1>2. CASE InsertUser(t)
  <2>1. task[t].at = "insert" /\ (Onward(t, "track") \/ Over(t)) /\ Excused
        /\ UNCHANGED <<trialDevices, verifyToken, verified, forgotten>>
    BY <1>2, RegisterTakes, ExcusesGrow DEF InsertUser
  <2>2. CASE Over(t)
    BY <2>1, <2>2, TrialsOver
  <2>3. CASE ~Over(t)
    <3>1. Onward(t, "track") /\ task'[t].signal = task[t].signal /\ OthersStay(t)
      BY <1>2, <2>1, <2>3, SignalStays DEF Onward
    <3>2. ASSUME NEW u \in Users PROVE (Claims(u)' => Claims(u)) /\ (Recorded(u)' => Recorded(u))
      <4>1. Signals(t, u)' => Signals(t, u)
        BY <2>1, <3>1, DoingOnward DEF Signals, Signalling
      <4>2. \A s \in Tasks \ {t} : Signals(s, u)' => Signals(s, u)
        BY <3>1, SignalsOthers
      <4>3. \A s \in Tasks : Doing(s, u, {"token", "activate", "publish"})' =>
                               Doing(s, u, {"token", "activate", "publish"})
        BY <3>1, NotDoing
      <4>4. Claims(u)' => Claims(u)
        BY <2>1, <4>1, <4>2 DEF Claims
      <4>5. Recorded(u)' => Recorded(u)
        BY <2>1, <4>3 DEF Recorded
      <4> QED BY <4>4, <4>5
    <3> QED BY <2>1, <3>2, TrialsKept
  <2> QED BY <2>2, <2>3
<1>3. CASE TrackDevice(t)
  <2>1. task[t].at = "track" /\ Onward(t, "token") /\ Excused
        /\ UNCHANGED <<verifyToken, verified, forgotten>> /\ task'[t].signal = task[t].signal /\ OthersStay(t)
        /\ trialDevices' = trialDevices \cup ({device[task[t].user]} \ {NoDevice})
    BY <1>3, RegisterTakes, ExcusesGrow, SignalStays DEF TrackDevice, Onward
  <2>2. ASSUME NEW u \in Users
        PROVE  (Claims(u)' => Claims(u)) /\ (Recorded(u)' => Recorded(u) \/ device[u] \in trialDevices' \cup {NoDevice})
    <3>1. Signals(t, u)' => Signals(t, u)
      BY <2>1, DoingOnward DEF Signals, Signalling
    <3>2. \A s \in Tasks \ {t} : /\ Signals(s, u)' => Signals(s, u)
                                 /\ \A S : Doing(s, u, S)' => Doing(s, u, S)
      BY <2>1, SignalsOthers
    <3>3. Doing(t, u, {"token", "activate", "publish"})' => u = task[t].user
      BY <2>1, DoingOnward
    <3>4. Claims(u)' => Claims(u)
      BY <2>1, <3>1, <3>2 DEF Claims
    <3>5. Recorded(u)' => Recorded(u) \/ u = task[t].user
      BY <2>1, <3>2, <3>3 DEF Recorded
    <3> QED BY <2>1, <3>4, <3>5
  <2> QED BY <2>1, <2>2, TrialsKept
<1>4. CASE StoreToken(t)
  <2>1. task[t].at = "token" /\ Onward(t, "mail") /\ Excused /\ OthersStay(t)
        /\ UNCHANGED <<trialDevices, verified, forgotten>>
        /\ verifyToken' = [verifyToken EXCEPT ![task[t].user] = task[t].signal]
    BY <1>4, RegisterTakes, ExcusesGrow DEF StoreToken, Onward
  <2>2. ASSUME NEW u \in Users
        PROVE  (Claims(u)' => Claims(u)) /\ (Recorded(u)' => Recorded(u))
    <3>1. \A s \in Tasks : Doing(s, u, Signalling)' => Doing(s, u, Signalling)
      BY <2>1, NotDoing DEF Signalling
    <3>2. \A s \in Tasks : Doing(s, u, {"token", "activate", "publish"})' =>
                             Doing(s, u, {"token", "activate", "publish"})
      BY <2>1, NotDoing
    <3>3. \A s \in Tasks \ {t} : Signals(s, u)' => Signals(s, u)
      BY <2>1, SignalsOthers
    <3>4. ~Signals(t, u)'
      BY <2>1, DoingOnward DEF Signals, Signalling
    <3>5. CASE u = task[t].user
      <4>1. Doing(t, u, {"token", "activate", "publish"}) /\ Doing(t, u, Signalling)
        BY <2>1, <3>5, DoingOnward DEF Signalling
      <4>2. verifyToken'[u] = task[t].signal
        BY <2>1, <3>5 DEF Typed, MailOK
      <4> QED BY <2>1, <3>3, <3>4, <4>1, <4>2 DEF Claims, Recorded, Signals
    <3>6. CASE u # task[t].user
      <4>1. verifyToken'[u] = verifyToken[u]
        BY <2>1, <3>6 DEF Typed, MailOK
      <4>2. Claims(u)' => Claims(u)
        BY <2>1, <3>3, <3>4, <4>1 DEF Claims
      <4>3. Recorded(u)' => Recorded(u)
        BY <2>1, <3>2, <4>1 DEF Recorded
      <4> QED BY <4>2, <4>3
    <3> QED BY <3>5, <3>6
  <2> QED BY <2>1, <2>2, TrialsKept
<1>5. CASE Activate(t)
  <2>1. task[t].at = "activate" /\ Onward(t, "publish") /\ Excused /\ OthersStay(t)
        /\ UNCHANGED <<trialDevices, verified, verifyToken, forgotten>> /\ task'[t].signal = task[t].signal
    BY <1>5, RegisterTakes, ExcusesGrow, SignalStays DEF Activate, Onward
  <2>2. ASSUME NEW u \in Users
        PROVE  (Claims(u)' => Claims(u)) /\ (Recorded(u)' => Recorded(u))
    <3>1. Signals(t, u)' => Signals(t, u)
      BY <2>1, DoingOnward DEF Signals, Signalling
    <3>2. \A s \in Tasks \ {t} : Signals(s, u)' => Signals(s, u)
      BY <2>1, SignalsOthers
    <3>3. \A s \in Tasks : Doing(s, u, {"token", "activate", "publish"})' =>
                             Doing(s, u, {"token", "activate", "publish"})
      BY <2>1, DoingOnward
    <3>4. Claims(u)' => Claims(u)
      BY <2>1, <3>1, <3>2 DEF Claims
    <3>5. Recorded(u)' => Recorded(u)
      BY <2>1, <3>3 DEF Recorded
    <3> QED BY <3>4, <3>5
  <2> QED BY <2>1, <2>2, TrialsKept
<1>6. CASE PublishEmailVerified(t)
  <2>1. task[t].at = "publish" /\ Onward(t, "drop") /\ Excused /\ OthersStay(t)
        /\ UNCHANGED <<trialDevices, verifyToken, forgotten>>
        /\ verified' = [verified EXCEPT ![task[t].user] = @ \cup {task[t].signal}]
    BY <1>6, RegisterTakes, ExcusesGrow DEF PublishEmailVerified, Onward
  <2>2. ASSUME NEW u \in Users
        PROVE  (Claims(u)' => Claims(u)) /\ (Recorded(u)' => Recorded(u))
    <3>1. ~Signals(t, u)'
      BY <2>1, DoingOnward DEF Signals, Signalling
    <3>2. \A s \in Tasks \ {t} : Signals(s, u)' => Signals(s, u)
      BY <2>1, SignalsOthers
    <3>3. \A s \in Tasks : Doing(s, u, {"token", "activate", "publish"})' =>
                             Doing(s, u, {"token", "activate", "publish"})
      BY <2>1, NotDoing
    <3>4. CASE u = task[t].user
      <4>1. Doing(t, u, {"token", "activate", "publish"}) /\ Doing(t, u, Signalling)
        BY <2>1, <3>4, DoingOnward DEF Signalling
      <4>2. verified'[u] = verified[u] \cup {task[t].signal}
        BY <2>1, <3>4 DEF Typed, MailOK
      <4> QED BY <2>1, <3>1, <3>2, <4>1, <4>2 DEF Claims, Recorded, Signals
    <3>5. CASE u # task[t].user
      <4>1. verified'[u] = verified[u]
        BY <2>1, <3>5 DEF Typed, MailOK
      <4>2. Claims(u)' => Claims(u)
        BY <2>1, <3>1, <3>2, <4>1 DEF Claims
      <4>3. Recorded(u)' => Recorded(u)
        BY <2>1, <3>3, <4>1 DEF Recorded
      <4> QED BY <4>2, <4>3
    <3> QED BY <3>4, <3>5
  <2> QED BY <2>1, <2>2, TrialsKept
<1>7. CASE DropToken(t)
  <2>1. Over(t) /\ Excused
    BY <1>7, RegisterTakes, ExcusesGrow
  <2>2. UNCHANGED <<trialDevices, verified, forgotten>> /\ \A u \in Users : verifyToken'[u] \in {verifyToken[u], "none"}
    BY <1>7 DEF DropToken, Typed, MailOK
  <2> QED BY <2>1, <2>2, TrialsOver
<1>8. CASE Throws(t)
  <2>1. Over(t) /\ Excused /\ UNCHANGED mailVars
    BY <1>8, ThrowTakes DEF Throws, Excused
  <2> QED BY <2>1, TrialsOver DEF mailVars
<1>9. ASSUME NEW w \in Users, VerifyEmail(t, w) PROVE Trials'
  <2>1. Begun(t, "activate", w, None, {}, verifyToken[w]) /\ verifyToken[w] # "none" /\ Excused
        /\ UNCHANGED mailVars
    BY <1>9, CallTakes, ExcusesGrow DEF VerifyEmail
  <2>2. OthersStay(t) /\ task'[t].signal = verifyToken[w]
    BY <2>1 DEF Begun
  <2>3. ASSUME NEW u \in Users
        PROVE  (Claims(u)' => Claims(u)) /\ (Recorded(u)' => Recorded(u))
    <3>1. \A s \in Tasks \ {t} : /\ Signals(s, u)' => Signals(s, u)
                                 /\ \A S : Doing(s, u, S)' => Doing(s, u, S)
      BY <2>2, SignalsOthers
    <3>2. Signals(t, u)' => u = w /\ verifyToken[u] = "clean"
      <4>1. Doing(t, u, Signalling)' => u = w
        BY <2>1, DoingBegun
      <4> QED BY <2>2, <4>1 DEF Signals
    <3>3. Doing(t, u, {"token", "activate", "publish"})' => u = w
      BY <2>1, DoingBegun
    <3>4. Claims(u)' => Claims(u)
      BY <2>1, <3>1, <3>2 DEF Claims, mailVars
    <3>5. Recorded(u)' => Recorded(u)
      BY <2>1, <3>1, <3>3 DEF Recorded, mailVars
    <3> QED BY <3>4, <3>5
  <2> QED BY <2>1, <2>3, TrialsKept DEF mailVars
<1> QED BY <1>1, <1>2, <1>3, <1>4, <1>5, <1>6, <1>7, <1>8, <1>9 DEF MailMoves

\* A token that expires takes its claim along.
LEMMA TrialsExpires ==
  ASSUME Typed, Trials, NEW w \in Users, TokenExpires(w)
  PROVE  Trials'
<1>1. /\ UNCHANGED <<trialDevices, verified, task, forgotten>> /\ Excused
      /\ \A u \in Users : verifyToken'[u] \in {verifyToken[u], "none"}
  BY DEF TokenExpires, Excused, Typed, MailOK
<1>2. ASSUME NEW u \in Users PROVE (Claims(u)' => Claims(u)) /\ (Recorded(u)' => Recorded(u))
  <2>1. \A t \in Tasks : (Signals(t, u)' <=> Signals(t, u)) /\ \A S : Doing(t, u, S)' <=> Doing(t, u, S)
    BY <1>1 DEF Signals, Doing
  <2>2. verifyToken'[u] \in {verifyToken[u], "none"}
    BY <1>1
  <2>3. Claims(u)' => Claims(u)
    BY <1>1, <2>1, <2>2 DEF Claims
  <2>4. Recorded(u)' => Recorded(u)
    BY <1>1, <2>1, <2>2 DEF Recorded
  <2> QED BY <2>3, <2>4
<1> QED BY <1>1, <1>2, TrialsKept

\* A key that runs out: who was recorded has a row, and is remembered as such.
LEMMA TrialsForgets ==
  ASSUME Typed, HaveRows, Trials, NEW d \in Devices, TrialKeyExpires(d)
  PROVE  Trials'
<1>1. /\ UNCHANGED <<device, overlapped, verifyToken, verified, task>>
      /\ trialDevices' = trialDevices \ {d}
      /\ forgotten' = forgotten \cup {u \in Users : device[u] = d /\ account[u] # "none"}
  BY DEF TrialKeyExpires, excuses
<1>2. ASSUME NEW u \in Users PROVE (Claims(u)' <=> Claims(u)) /\ (Recorded(u)' <=> Recorded(u))
  BY <1>1 DEF Claims, Recorded, Signals, Doing
<1>3. ASSUME NEW u \in Users, Recorded(u), device[u] = d PROVE u \in forgotten'
  <2>1. account[u] # "none"
    BY <1>3 DEF HaveRows, Started, Recorded, Doing
  <2> QED BY <1>1, <1>3, <2>1
<1>4. ASSUME NEW u \in Users PROVE Known(u)'
  <2>1. CASE device[u] = d
    BY <1>1, <1>2, <1>3, <2>1 DEF Known
  <2>2. CASE device[u] # d
    BY <1>1, <1>2, <2>2 DEF Trials, Known
  <2> QED BY <2>1, <2>2
<1>5. ASSUME NEW u \in Users \ forgotten', NEW v \in Users \ forgotten', device[u] = device[v],
             device[u] # NoDevice, Claims(u), Claims(v)
      PROVE  u = v \/ device[u] \in overlapped
  BY <1>1, <1>5 DEF Trials
<1> QED BY <1>1, <1>2, <1>4, <1>5 DEF Trials

\* Every step keeps the invariant.
LEMMA TrialsStep == Typed /\ Apart /\ HaveRows /\ Trials /\ [Next]_vars => Trials'
  BY MailCases, TrialsAside, TrialsMoves, TrialsExpires, TrialsForgets

\* In the beginning there is no trial.
LEMMA TrialsBegin == Init => Trials
  BY DEF Init, Trials, Known, Recorded, Claims, Signals, Doing

\* A device gets one trial for as long as its key is kept, unless registrations from it
\* overlapped: the fingerprint is looked up before the INSERT and recorded before the
\* token of the mail is stored (register), for any number of users, devices and handlers
\* at once.  Nobody but those with a row is forgotten when the key runs out, so the next
\* year's users get one trial again.
THEOREM OneTrial == Spec => []OneTrialPerDevice
<1>1. Typed /\ Trials => OneTrialPerDevice
  BY DEF Trials, Claims, OneTrialPerDevice
<1> QED
  BY <1>1, TypedBegin, TypedStep, ApartBegin, ApartStep, RowsBegin, RowsStep, TrialsBegin, TrialsStep,
     PTL DEF Spec

-------------------------------------------------------------------------------
(* Whose the codes, links and secrets are.                                   *)

CodeSteps == {"save code", "send code", "set code", "unset code"}
LinkSteps == {"save link", "send link", "set link", "unset link"}
Sorts     == {"code", "link", "secret"}

\* Of the n numbers drawn, i is of the kind k and drawn for u.
Of(o, n, i, u, k) == i \in 1..n /\ o[i] = <<u, k>>
TaskOf(c, o, n) ==
  /\ c.at \in CodeSteps  => Of(o, n, c.id, c.user, "code")
  /\ c.at \in LinkSteps  => Of(o, n, c.id, c.user, "link")
  /\ c.at \in TwoFASteps => Of(o, n, c.id, c.user, "secret")
  /\ c.at = "tell" => c.id \in 1..n
  /\ \A b \in c.codes : Of(o, n, b[1], c.user, "secret")

OwnedTasks(o) == \A t \in Tasks : task[t] # Idle => TaskOf(task[t], o, drawn)
OwnedPass(o) ==
  /\ \A u \in Users : resetCode[u] # None => Of(o, drawn, resetCode[u], u, "code")
  /\ \A i \in Ids, u \in Users :
       /\ <<i, u>> \in links => Of(o, drawn, i, u, "link")
       /\ <<i, u>> \in letters => Of(o, drawn, i, u, "code") \/ Of(o, drawn, i, u, "link")
  /\ \A i \in Ids : i > drawn => changes[i] = 0
OwnedTwoFA(o) ==
  /\ \A u \in Users : twoFA[u] # NoRow => Of(o, drawn, twoFA[u].secret, u, "secret")
  /\ \A u \in Users : \A c \in twoFA[u].codes : Of(o, drawn, c[1], u, "secret")
  /\ \A i \in Ids : i > drawn => \A b \in BackupCodes : burnt[<<i, b>>] = 0
Owned(o) == OwnedTasks(o) /\ OwnedPass(o) /\ OwnedTwoFA(o)
Owners   == [Ids -> (Users \X Sorts) \cup {<<>>}]    \* <<>>: not drawn yet
Ownership == \E o \in Owners : Owned(o)

\* The tasks, when one goes on, ends or begins.
LEMMA TasksOnward ==
  ASSUME Typed, NEW o, OwnedTasks(o), UNCHANGED drawn, NEW t \in Tasks, NEW x, Onward(t, x),
         x \in CodeSteps => task[t].at \in CodeSteps,
         x \in LinkSteps => task[t].at \in LinkSteps,
         x \in TwoFASteps => task[t].at \in TwoFASteps,
         x = "tell" => task[t].at \in CodeSteps \cup LinkSteps
  PROVE  OwnedTasks(o)'
<1>1. TaskOf(task[t], o, drawn)
  BY DEF OwnedTasks, Onward, Used
<1>2. TaskOf(task'[t], o, drawn')
  BY <1>1 DEF TaskOf, Onward, Of
<1>3. \A s \in Tasks \ {t} : task'[s] = task[s]
  BY DEF Onward, OthersStay
<1> QED BY <1>2, <1>3 DEF OwnedTasks

\* Handlers that end keep the owners of the others.
LEMMA TasksOver ==
  ASSUME Typed, NEW o, OwnedTasks(o), UNCHANGED drawn, NEW t \in Tasks, Over(t)
  PROVE  OwnedTasks(o)'
  BY DEF OwnedTasks, Over, OthersStay

\* A call that begins holds what is its user's.
LEMMA TasksBegun ==
  ASSUME Typed, NEW o, OwnedTasks(o), UNCHANGED drawn, NEW t \in Tasks,
         NEW x, NEW u, NEW i, NEW C, NEW g, Begun(t, x, u, i, C, g),
         x \in CodeSteps => Of(o, drawn, i, u, "code"),
         x \in LinkSteps => Of(o, drawn, i, u, "link"),
         x \in TwoFASteps => Of(o, drawn, i, u, "secret"),
         x # "tell", \A b \in C : Of(o, drawn, b[1], u, "secret")
  PROVE  OwnedTasks(o)'
<1>1. TaskOf(task'[t], o, drawn')
  BY DEF TaskOf, Begun
<1>2. \A s \in Tasks \ {t} : task'[s] = task[s]
  BY DEF Begun, OthersStay
<1> QED BY <1>1, <1>2 DEF OwnedTasks

\* One more number.
LEMMA OwnedDraws ==
  ASSUME Typed, NEW o \in Owners, Owned(o), Draws, UNCHANGED <<passVars, twoFAVars>>,
         NEW t \in Tasks, NEW u \in Users, NEW x, NEW g, NEW k \in Sorts,
         Begun(t, x, u, drawn + 1, {}, g), x # "tell",
         x \in CodeSteps => k = "code", x \in LinkSteps => k = "link",
         x \in TwoFASteps => k = "secret"
  PROVE  Ownership'
<1>0. PICK n \in Ids : n = drawn + 1
  BY Drawn
<1>1. drawn' = n /\ n = drawn + 1 /\ n \in Ids /\ drawn \in Nat
  BY <1>0, Drawn, IdAssumption DEF Typed, IdAssumption
<1>p. [o EXCEPT ![n] = <<u, k>>] \in Owners
  BY <1>1 DEF Owners
<1>q. PICK p \in Owners : p = [o EXCEPT ![n] = <<u, k>>]
  BY <1>p
<1>2. p \in Owners /\ p[n] = <<u, k>> /\ \A i \in Ids \ {n} : p[i] = o[i]
  BY <1>1, <1>q DEF Owners
<1>3. \A i, w, j : Of(o, drawn, i, w, j) => Of(p, n, i, w, j)
  <2> SUFFICES ASSUME NEW i, NEW w, NEW j, Of(o, drawn, i, w, j) PROVE Of(p, n, i, w, j)
    OBVIOUS
  <2>1. i \in 1..drawn /\ o[i] = <<w, j>>
    BY DEF Of
  <2>2. i \in 1..n /\ i # n /\ i \in Ids
    BY <1>1, <2>1, IdAssumption DEF Ids, IdAssumption
  <2>3. p[i] = o[i]
    BY <1>2, <2>2
  <2> QED BY <2>1, <2>2, <2>3 DEF Of
<1>4. Of(p, n, n, u, k)
  BY <1>1, <1>2 DEF Of
<1>n. \A i \in Ids : i > n => i > drawn
  BY <1>1 DEF Ids
<1>5. OwnedPass(p)'
  <2>1. OwnedPass(o) /\ UNCHANGED <<resetCode, links, letters, changes>>
    BY DEF Owned, passVars
  <2> QED BY <1>1, <1>3, <1>n, <2>1 DEF OwnedPass
<1>6. OwnedTwoFA(p)'
  <2>1. OwnedTwoFA(o) /\ UNCHANGED <<twoFA, burnt>>
    BY DEF Owned, twoFAVars
  <2> QED BY <1>1, <1>3, <1>n, <2>1 DEF OwnedTwoFA
<1>7. ASSUME NEW s \in Tasks, task'[s] # Idle PROVE TaskOf(task'[s], p, n)
  <2>1. CASE s = t
    BY <1>0, <1>4, <2>1 DEF TaskOf, Begun
  <2>2. CASE s # t
    <3>1. task'[s] = task[s] /\ TaskOf(task[s], o, drawn)
      BY <1>7, <2>2 DEF Begun, OthersStay, Owned, OwnedTasks
    <3> QED BY <1>1, <1>3, <3>1 DEF TaskOf
  <2> QED BY <2>1, <2>2
<1>8. OwnedTasks(p)'
  BY <1>1, <1>7 DEF OwnedTasks
<1> QED BY <1>2, <1>5, <1>6, <1>8 DEF Ownership, Owned

\* A step that draws nothing.
LEMMA PassKept ==
  ASSUME NEW o, OwnedPass(o), UNCHANGED drawn, PassAside
  PROVE  OwnedPass(o)'
  BY DEF OwnedPass, PassAside

\* Secrets keep their owners while the second factor is left alone.
LEMMA TwoFAKept ==
  ASSUME NEW o, OwnedTwoFA(o), UNCHANGED drawn, TwoFAAside
  PROVE  OwnedTwoFA(o)'
  BY DEF OwnedTwoFA, TwoFAAside, twoFAVars

\* Registration holds no numbers.
LEMMA OwnedRegister ==
  ASSUME Typed, NEW o, Owned(o), NEW t \in Tasks, RegisterStep(t) \/ VerifyStep(t)
  PROVE  Owned(o)'
<1>1. UNCHANGED drawn
  BY DEF RegisterStep, VerifyStep, LookAtDevice, InsertUser, TrackDevice, StoreToken,
         PublishVerifyEmail, PublishRegistered, Activate, PublishEmailVerified, DropToken
<1>2. \/ Over(t)
      \/ \E x \in {"insert", "track", "token", "mail", "announce", "publish", "drop"} : Onward(t, x)
  BY RegisterTakes DEF RegisterStep, VerifyStep
<1>3. OwnedTasks(o)'
  BY <1>1, <1>2, TasksOnward, TasksOver DEF Owned, CodeSteps, LinkSteps, TwoFASteps
<1> QED BY <1>1, <1>3, RegisterAside, PassKept, TwoFAKept DEF Owned

\* Codes and links are stored and mailed for their owner.
LEMMA OwnedPassword ==
  ASSUME Typed, NEW o, Owned(o), NEW t \in Tasks, PasswordStep(t)
  PROVE  Owned(o)'
<1>1. UNCHANGED drawn
  BY DEF PasswordStep, SaveVerificationCode, PublishForgotPassword, SaveChangePasswordToken,
         PublishChangePasswordRequest, UpdatePassword, DeleteVerificationCode,
         DeleteChangePasswordToken, PublishPasswordChanged
<1>2. OwnedTasks(o) /\ OwnedPass(o)
  BY DEF Owned
<1>3. task[t].at \in CodeSteps \cup LinkSteps \cup {"tell"} /\ task[t] # Idle
      /\ task[t].user \in Users /\ (task[t].at \in Steps \ (Registering \cup Verifying) => task[t].id \in Ids)
  BY PasswordTakes DEF PasswordStep, CodeSteps, LinkSteps, Onward, Over, Used, HasId
<1>4. task[t].id \in Ids
  BY <1>3, StepsAre DEF CodeSteps, LinkSteps
<1>5. TaskOf(task[t], o, drawn)
  BY <1>2, <1>3 DEF OwnedTasks
<1>6. OwnedTasks(o)'
  <2>1. \/ Over(t)
        \/ \E x \in {"send code", "unset code"} : Onward(t, x) /\ task[t].at \in CodeSteps
        \/ \E x \in {"send link", "unset link"} : Onward(t, x) /\ task[t].at \in LinkSteps
        \/ Onward(t, "tell") /\ task[t].at \in CodeSteps \cup LinkSteps
    BY PasswordTakes DEF PasswordStep, CodeSteps, LinkSteps
  <2> QED BY <1>1, <1>2, <2>1, TasksOnward, TasksOver DEF CodeSteps, LinkSteps, TwoFASteps
<1>7. OwnedPass(o)'
  <2>1. CASE SaveVerificationCode(t)
    <3>1. Of(o, drawn, task[t].id, task[t].user, "code")
      BY <1>5, <2>1 DEF TaskOf, CodeSteps, SaveVerificationCode
    <3>2. /\ resetCode' = [resetCode EXCEPT ![task[t].user] = task[t].id]
          /\ UNCHANGED <<links, letters, changes, drawn>>
      BY <2>1 DEF SaveVerificationCode
    <3>3. resetCode \in [Users -> Ids \cup {None}]
      BY DEF Typed, PassOK
    <3> QED BY <1>2, <3>1, <3>2, <3>3 DEF OwnedPass
  <2>2. CASE PublishForgotPassword(t) \/ PublishChangePasswordRequest(t)
    <3>1. \/ Of(o, drawn, task[t].id, task[t].user, "code")
          \/ Of(o, drawn, task[t].id, task[t].user, "link")
      BY <1>5, <2>2 DEF TaskOf, CodeSteps, LinkSteps, PublishForgotPassword,
                        PublishChangePasswordRequest
    <3>2. /\ letters' = letters \cup {<<task[t].id, task[t].user>>}
          /\ UNCHANGED <<resetCode, links, changes, drawn>>
      BY <2>2 DEF PublishForgotPassword, PublishChangePasswordRequest
    <3>3. ASSUME NEW i \in Ids, NEW u \in Users, <<i, u>> \in letters'
          PROVE  Of(o, drawn, i, u, "code") \/ Of(o, drawn, i, u, "link")
      BY <1>2, <3>1, <3>2, <3>3 DEF OwnedPass
    <3> QED BY <1>2, <3>2, <3>3 DEF OwnedPass
  <2>3. CASE SaveChangePasswordToken(t)
    <3>1. Of(o, drawn, task[t].id, task[t].user, "link")
      BY <1>5, <2>3 DEF TaskOf, LinkSteps, SaveChangePasswordToken
    <3>2. /\ links' = links \cup {<<task[t].id, task[t].user>>}
          /\ UNCHANGED <<resetCode, letters, changes, drawn>>
      BY <2>3 DEF SaveChangePasswordToken
    <3>3. ASSUME NEW i \in Ids, NEW u \in Users, <<i, u>> \in links'
          PROVE  Of(o, drawn, i, u, "link")
      BY <1>2, <3>1, <3>2, <3>3 DEF OwnedPass
    <3> QED BY <1>2, <3>2, <3>3 DEF OwnedPass
  <2>4. CASE UpdatePassword(t)
    <3>1. task[t].id \in 1..drawn
      BY <1>5, <2>4 DEF TaskOf, CodeSteps, LinkSteps, UpdatePassword, Of
    <3>2. /\ changes' = [changes EXCEPT ![task[t].id] = More(@)]
          /\ UNCHANGED <<resetCode, links, letters, drawn>>
      BY <2>4 DEF UpdatePassword
    <3>3. ASSUME NEW i \in Ids, i > drawn PROVE changes'[i] = 0
      <4>1. i # task[t].id
        BY <3>1, <3>3 DEF Ids, Typed
      <4> QED BY <1>2, <3>2, <3>3, <4>1 DEF OwnedPass, Typed, PassOK
    <3> QED BY <1>2, <3>2, <3>3 DEF OwnedPass
  <2>5. CASE DeleteVerificationCode(t)
    <3>1. /\ resetCode' = [resetCode EXCEPT ![task[t].user] = None]
          /\ UNCHANGED <<links, letters, changes, drawn>>
      BY <2>5 DEF DeleteVerificationCode
    <3>2. resetCode \in [Users -> Ids \cup {None}]
      BY DEF Typed, PassOK
    <3> QED BY <1>2, <3>1, <3>2 DEF OwnedPass
  <2>6. CASE DeleteChangePasswordToken(t)
    <3>1. links' \subseteq links /\ UNCHANGED <<resetCode, letters, changes, drawn>>
      BY <2>6 DEF DeleteChangePasswordToken
    <3> QED BY <1>2, <3>1 DEF OwnedPass
  <2>7. CASE PublishPasswordChanged(t)
    BY <1>2, <2>7 DEF PublishPasswordChanged, OwnedPass
  <2> QED BY <2>1, <2>2, <2>3, <2>4, <2>5, <2>6, <2>7 DEF PasswordStep
<1> QED BY <1>1, <1>6, <1>7, PasswordAside, TwoFAKept DEF Owned

\* Secrets and backup codes are stored for their owner.
LEMMA OwnedTwoFAStep ==
  ASSUME Typed, NEW o, Owned(o), NEW t \in Tasks, TwoFAStep(t)
  PROVE  Owned(o)'
<1>1. UNCHANGED <<drawn, burnt>>
  BY DEF TwoFAStep, Delete2FA, Create2FA, BurnBackupCode, Enable2FA, Publish2faEnabled, twoFAVars
<1>2. OwnedTasks(o) /\ OwnedTwoFA(o) /\ twoFA \in [Users -> TwoFA]
  BY DEF Owned, Typed, TwoFAOK
<1>3. task[t].at \in TwoFASteps /\ Used(task[t])
  BY TwoFATakes DEF TwoFAStep, TwoFASteps, Onward, Over
<1>4. PICK w \in Users : w = task[t].user
  BY <1>3 DEF Used
<1>5. /\ Of(o, drawn, task[t].id, w, "secret")
      /\ \A b \in task[t].codes : Of(o, drawn, b[1], w, "secret")
  BY <1>2, <1>3, <1>4 DEF OwnedTasks, TaskOf, Used
<1>6. OwnedTasks(o)'
  <2>1. \/ Over(t)
        \/ \E x \in {"create", "enable", "tell enabled"} : Onward(t, x)
    BY TwoFATakes DEF TwoFAStep
  <2> QED BY <1>1, <1>2, <1>3, <2>1, TasksOnward, TasksOver DEF CodeSteps, LinkSteps, TwoFASteps
<1>7. ASSUME NEW r \in TwoFA, twoFA' = [twoFA EXCEPT ![w] = r],
             r # NoRow => Of(o, drawn, r.secret, w, "secret"),
             \A c \in r.codes : Of(o, drawn, c[1], w, "secret")
      PROVE  OwnedTwoFA(o)'
  BY <1>1, <1>2, <1>7 DEF OwnedTwoFA
<1>8. UNCHANGED twoFA => OwnedTwoFA(o)'
  BY <1>1, <1>2 DEF OwnedTwoFA
<1>9. twoFA[w] \in TwoFA
  BY <1>2
<1>10. OwnedTwoFA(o)'
  <2>1. CASE Delete2FA(t)
    <3>1. NoRow \in TwoFA /\ NoRow.codes = {}
      BY DEF NoRow, TwoFA
    <3> QED BY <1>4, <1>7, <2>1, <3>1 DEF Delete2FA
  <2>2. CASE Create2FA(t) /\ twoFA[w] = NoRow
    <3>1. task[t].id \in Ids
      BY <1>3, StepsAre, HasNumber DEF TwoFASteps
    <3>2. Row(task[t].id) \in TwoFA /\ Row(task[t].id).secret = task[t].id
          /\ \A c \in Row(task[t].id).codes : c[1] = task[t].id
      BY <3>1 DEF Row, TwoFA, Codes
    <3>3. twoFA' = [twoFA EXCEPT ![w] = Row(task[t].id)]
      BY <1>4, <2>2 DEF Create2FA
    <3> HIDE DEF Row
    <3> QED BY <1>5, <1>7, <3>2, <3>3
  <2>3. CASE BurnBackupCode(t) /\ twoFA[w] # NoRow
    <3> DEFINE r == [twoFA[w] EXCEPT !.codes = task[t].codes]
    <3>1. r \in TwoFA /\ r.secret = twoFA[w].secret /\ r.codes = task[t].codes
      BY <1>3, <1>9 DEF TwoFA, Used
    <3>2. twoFA' = [twoFA EXCEPT ![w] = r]
      BY <1>4, <2>3 DEF BurnBackupCode
    <3>3. Of(o, drawn, twoFA[w].secret, w, "secret")
      BY <1>2, <2>3 DEF OwnedTwoFA
    <3> HIDE DEF r
    <3> QED BY <1>5, <1>7, <3>1, <3>2, <3>3
  <2>4. CASE Enable2FA(t) /\ twoFA[w] # NoRow
    <3> DEFINE r == [twoFA[w] EXCEPT !.enabled = "yes"]
    <3>1. r \in TwoFA /\ r.secret = twoFA[w].secret /\ r.codes = twoFA[w].codes
      BY <1>9 DEF TwoFA
    <3>2. twoFA' = [twoFA EXCEPT ![w] = r]
      BY <1>4, <2>4 DEF Enable2FA
    <3>3. /\ Of(o, drawn, twoFA[w].secret, w, "secret")
          /\ \A c \in twoFA[w].codes : Of(o, drawn, c[1], w, "secret")
      BY <1>2, <2>4 DEF OwnedTwoFA
    <3> HIDE DEF r
    <3> QED BY <1>7, <3>1, <3>2, <3>3
  <2>5. CASE \/ Publish2faEnabled(t)
             \/ Create2FA(t) /\ twoFA[w] # NoRow
             \/ (BurnBackupCode(t) \/ Enable2FA(t)) /\ twoFA[w] = NoRow
    BY <1>4, <1>8, <2>5 DEF Publish2faEnabled, Create2FA, BurnBackupCode, Enable2FA, twoFAVars
  <2> QED BY <2>1, <2>2, <2>3, <2>4, <2>5 DEF TwoFAStep
<1> QED BY <1>1, <1>6, <1>10, TwoFAStepAside, PassKept DEF Owned

\* The next number is none of those drawn.
LEMMA NotYetDrawn ==
  ASSUME Typed, NEW i \in Ids, i > drawn, NEW j \in 1..drawn
  PROVE  i # j
<1>1. i \in Int /\ drawn \in Int
  BY IdAssumption DEF Typed, Ids, IdAssumption
<1> QED BY <1>1

\* A call without backup codes.
LEMMA TasksBegunPlain ==
  ASSUME Typed, NEW o, OwnedTasks(o), UNCHANGED drawn, NEW t \in Tasks,
         NEW x, NEW u, NEW i, NEW g, Begun(t, x, u, i, {}, g), x # "tell",
         \/ x \in Registering \cup Verifying
         \/ x \in CodeSteps /\ Of(o, drawn, i, u, "code")
         \/ x \in LinkSteps /\ Of(o, drawn, i, u, "link")
         \/ x \in TwoFASteps /\ Of(o, drawn, i, u, "secret")
  PROVE  OwnedTasks(o)'
<1>1. \A b \in {} : Of(o, drawn, b[1], u, "secret")
  OBVIOUS
<1>2. /\ x \in CodeSteps => Of(o, drawn, i, u, "code")
      /\ x \in LinkSteps => Of(o, drawn, i, u, "link")
      /\ x \in TwoFASteps => Of(o, drawn, i, u, "secret")
  BY StepsAre DEF CodeSteps, LinkSteps, TwoFASteps
<1> QED BY <1>1, <1>2, TasksBegun

\* A call that draws a number makes its user the owner; the others have one of the user's.
LEMMA OwnedCall ==
  ASSUME Typed, NEW o \in Owners, Owned(o), NEW t \in Tasks, NEW u \in Users, Call(t, u)
  PROVE  Ownership'
<1>0. OwnedTasks(o) /\ OwnedPass(o) /\ OwnedTwoFA(o)
  BY DEF Owned
<1>k. "code" \in Sorts /\ "link" \in Sorts /\ "secret" \in Sorts
  BY DEF Sorts
<1>1. CASE ForgotPassword(t, u)
  BY <1>1, <1>k, CallTakes, OwnedDraws DEF ForgotPassword, LinkSteps, TwoFASteps
<1>2. CASE RequestPasswordChange(t, u)
  BY <1>2, <1>k, CallTakes, OwnedDraws DEF RequestPasswordChange, CodeSteps, TwoFASteps
<1>3. CASE Setup2FA(t, u)
  BY <1>3, <1>k, CallTakes, OwnedDraws DEF Setup2FA, CodeSteps, LinkSteps
<1>4. ASSUME Owned(o)' PROVE Ownership'
  BY <1>4 DEF Ownership
<1>5. ASSUME UNCHANGED <<passVars, twoFAVars, drawn>> PROVE OwnedPass(o)' /\ OwnedTwoFA(o)'
  BY <1>0, <1>5 DEF OwnedPass, OwnedTwoFA, passVars, twoFAVars
<1>6. CASE Register(t, u)
  <2>1. OwnedTasks(o)'
    BY <1>0, <1>6, CallTakes, TasksBegunPlain DEF Register, Registering
  <2> QED BY <1>4, <1>5, <1>6, <2>1 DEF Register, Owned
<1>7. CASE VerifyEmail(t, u)
  <2>1. OwnedTasks(o)'
    BY <1>0, <1>7, CallTakes, TasksBegunPlain DEF VerifyEmail, Verifying
  <2> QED BY <1>4, <1>5, <1>7, <2>1 DEF VerifyEmail, Owned
<1>8. CASE ResetPassword(t, u)
  <2>1. Of(o, drawn, resetCode[u], u, "code")
    BY <1>0, <1>8 DEF OwnedPass, ResetPassword
  <2>2. OwnedTasks(o)'
    BY <1>0, <1>8, <2>1, CallTakes, TasksBegunPlain DEF ResetPassword, CodeSteps
  <2> QED BY <1>4, <1>5, <1>8, <2>2 DEF ResetPassword, Owned
<1>9. CASE \E i \in Ids : ConfirmPasswordChange(t, i, u)
  <2>1. PICK i \in Ids : ConfirmPasswordChange(t, i, u)
    BY <1>9
  <2>2. Begun(t, "set link", u, i, {}, "clean") /\ Of(o, drawn, i, u, "link")
    BY <1>0, <2>1, CallTakes DEF OwnedPass
  <2>3. OwnedTasks(o)'
    BY <1>0, <2>1, <2>2, TasksBegunPlain DEF ConfirmPasswordChange, LinkSteps
  <2> QED BY <1>4, <1>5, <2>1, <2>3 DEF ConfirmPasswordChange, Owned
<1>10. CASE Verify2FA(t, u)
  <2>1. Of(o, drawn, twoFA[u].secret, u, "secret")
    BY <1>0, <1>10 DEF OwnedTwoFA, Verify2FA
  <2>2. OwnedTasks(o)'
    <3>1. Begun(t, "enable", u, twoFA[u].secret, {}, "clean") /\ UNCHANGED drawn
      BY <1>10, CallTakes DEF Verify2FA
    <3>2. "enable" \in TwoFASteps
      BY DEF TwoFASteps
    <3> QED BY <1>0, <2>1, <3>1, <3>2, TasksBegunPlain
  <2>3. OwnedPass(o)' /\ OwnedTwoFA(o)'
    BY <1>0, <1>10 DEF Verify2FA, OwnedPass, OwnedTwoFA, passVars
  <2> QED BY <1>4, <2>2, <2>3 DEF Owned
<1>11. CASE \E c \in Codes : VerifyBackupCode(t, u, c)
  <2>1. PICK c \in Codes : VerifyBackupCode(t, u, c)
    BY <1>11
  <2>2. c \in twoFA[u].codes /\ twoFA[u] # NoRow
    BY <2>1, CallTakes
  <2>3. /\ Of(o, drawn, twoFA[u].secret, u, "secret")
        /\ \A b \in twoFA[u].codes : Of(o, drawn, b[1], u, "secret")
    BY <1>0, <2>2 DEF OwnedTwoFA
  <2>4. PICK x \in {"burn", "burn first"} :
          Begun(t, x, u, twoFA[u].secret, twoFA[u].codes \ {c}, "clean")
    BY <2>1, CallTakes
  <2>5. UNCHANGED <<passVars, twoFA, drawn>> /\ burnt' = [burnt EXCEPT ![c] = More(@)]
    BY <2>1 DEF VerifyBackupCode
  <2>6. OwnedTasks(o)'
    BY <1>0, <2>3, <2>4, <2>5, TasksBegun DEF CodeSteps, LinkSteps
  <2>7. ASSUME NEW i \in Ids, i > drawn, NEW b \in BackupCodes PROVE burnt'[<<i, b>>] = 0
    <3>1. c[1] \in 1..drawn
      BY <2>2, <2>3 DEF Of
    <3>2. <<i, b>> # c /\ <<i, b>> \in Codes
      <4>1. i # c[1]
        BY <2>7, <3>1, NotYetDrawn
      <4>2. <<i, b>>[1] = i
        OBVIOUS
      <4>3. <<i, b>> \in Codes
        BY DEF Codes
      <4> QED BY <4>1, <4>2, <4>3
    <3>3. burnt[<<i, b>>] = 0
      BY <1>0, <2>7 DEF OwnedTwoFA
    <3> QED BY <2>5, <3>2, <3>3 DEF Typed, TwoFAOK
  <2>8. OwnedPass(o)' /\ OwnedTwoFA(o)'
    BY <1>0, <2>5, <2>7 DEF OwnedPass, OwnedTwoFA, passVars
  <2> QED BY <1>4, <2>6, <2>8 DEF Owned
<1> QED BY <1>1, <1>2, <1>3, <1>6, <1>7, <1>8, <1>9, <1>10, <1>11 DEF Call

\* Failures, and what expires, hand nothing over.
LEMMA OwnedOther ==
  ASSUME Typed, NEW o, Owned(o),
         \/ \E t \in Tasks : Throws(t)
         \/ \E u \in Users : \/ TokenExpires(u) \/ CodeExpires(u)
                             \/ \E i \in Ids : LinkExpires(i, u)
         \/ \E d \in Devices : TrialKeyExpires(d)
         \/ UNCHANGED vars
  PROVE  Owned(o)'
<1>0. OwnedTasks(o) /\ OwnedPass(o) /\ OwnedTwoFA(o)
  BY DEF Owned
<1>1. CASE \E t \in Tasks : Throws(t)
  <2>1. PICK t \in Tasks : Throws(t)
    BY <1>1
  <2>2. Over(t)
    BY <2>1, ThrowTakes
  <2>3. OwnedTasks(o)'
    BY <1>0, <2>1, <2>2, TasksOver DEF Throws
  <2> QED BY <1>0, <2>1, <2>3 DEF Throws, Owned, OwnedPass, OwnedTwoFA, passVars, twoFAVars
<1>2. CASE \E u \in Users : TokenExpires(u)
  BY <1>0, <1>2 DEF TokenExpires, Owned, OwnedTasks, OwnedPass, OwnedTwoFA, passVars, twoFAVars
<1>3. CASE \E u \in Users : CodeExpires(u)
  <2>1. PICK u \in Users : CodeExpires(u)
    BY <1>3
  <2>2. resetCode \in [Users -> Ids \cup {None}]
    BY DEF Typed, PassOK
  <2>3. OwnedPass(o)'
    BY <1>0, <2>1, <2>2 DEF CodeExpires, OwnedPass
  <2> QED BY <1>0, <2>1, <2>3 DEF CodeExpires, Owned, OwnedTasks, OwnedTwoFA, twoFAVars
<1>4. CASE \E u \in Users, i \in Ids : LinkExpires(i, u)
  BY <1>0, <1>4 DEF LinkExpires, Owned, OwnedTasks, OwnedPass, OwnedTwoFA, twoFAVars
<1>5. CASE UNCHANGED vars
  BY <1>0, <1>5 DEF vars, Owned, OwnedTasks, OwnedPass, OwnedTwoFA, passVars, twoFAVars
<1>6. CASE \E d \in Devices : TrialKeyExpires(d)
  BY <1>0, <1>6 DEF TrialKeyExpires, Owned, OwnedTasks, OwnedPass, OwnedTwoFA, passVars, twoFAVars
<1> QED BY <1>1, <1>2, <1>3, <1>4, <1>5, <1>6

\* Every step keeps some assignment of owners.
LEMMA OwnershipStep == Typed /\ Ownership /\ [Next]_vars => Ownership'
<1> SUFFICES ASSUME Typed, Ownership, [Next]_vars PROVE Ownership'
  OBVIOUS
<1>1. PICK o \in Owners : Owned(o)
  BY DEF Ownership
<1>2. Owned(o)' => Ownership'
  BY DEF Ownership
<1> QED BY <1>1, <1>2, OwnedRegister, OwnedPassword, OwnedTwoFAStep, OwnedCall, OwnedOther
        DEF Next, Works, Fails

\* In the beginning nothing is owned.
LEMMA OwnershipBegin == Init => Ownership
<1> SUFFICES ASSUME Init PROVE Ownership
  OBVIOUS
<1>1. \A o : Owned(o)
  <2>1. \A i \in Ids, b \in BackupCodes : <<i, b>> \in Codes
    BY DEF Codes
  <2> QED BY <2>1 DEF Init, Owned, OwnedTasks, OwnedPass, OwnedTwoFA, NoRow
<1>2. [i \in Ids |-> <<>>] \in Owners
  BY DEF Owners
<1> QED BY <1>1, <1>2 DEF Ownership

-------------------------------------------------------------------------------
(* A number just drawn is known to its handler only.                         *)

Newly == {"save code", "send code", "save link", "send link", "delete", "create"}
UnusedPass(i)  == changes[i] = 0 /\ \A w \in Users : <<i, w>> \notin letters
UnusedTwoFA(i) == /\ \A w \in Users : /\ twoFA[w].secret # i
                                      /\ \A c \in twoFA[w].codes : c[1] # i
                  /\ \A b \in BackupCodes : burnt[<<i, b>>] = 0
\* No other task has it, and none among its backup codes.
NoOthers(t, i) ==
  \A s \in Tasks : task[s] # Idle =>
    /\ s # t /\ task[s].at \notin Registering \cup Verifying => task[s].id # i
    /\ \A c \in task[s].codes : c[1] # i
Novel(t, i) == UnusedPass(i) /\ UnusedTwoFA(i) /\ NoOthers(t, i)
Novelty ==
  \A t \in Tasks, i \in Ids :
    task[t] # Idle /\ task[t].at \in Newly /\ task[t].id = i => Novel(t, i)

\* No other handler takes up a number by going on,
LEMMA OthersOnward ==
  ASSUME NEW t \in Tasks, NEW i \in Ids, NoOthers(t, i), NEW s \in Tasks, NEW x, Onward(s, x),
         x \notin Registering \cup Verifying => task[s].at \notin Registering \cup Verifying
  PROVE  NoOthers(t, i)'
<1>1. ASSUME NEW q \in Tasks, task'[q] # Idle
      PROVE  /\ q # t /\ task'[q].at \notin Registering \cup Verifying => task'[q].id # i
             /\ \A c \in task'[q].codes : c[1] # i
  BY <1>1 DEF NoOthers, Onward, OthersStay, Used
<1> QED BY <1>1 DEF NoOthers

\* or by ending,
LEMMA OthersOver ==
  ASSUME NEW t \in Tasks, NEW i \in Ids, NoOthers(t, i), NEW s \in Tasks, Over(s)
  PROVE  NoOthers(t, i)'
  BY DEF NoOthers, Over, OthersStay

\* or by beginning with another one.
LEMMA OthersBegun ==
  ASSUME NEW t \in Tasks, NEW i \in Ids, NoOthers(t, i), NEW s \in Tasks,
         NEW x, NEW u, NEW j, NEW C, NEW g, Begun(s, x, u, j, C, g),
         s = t \/ x \in Registering \cup Verifying \/ j # i, \A c \in C : c[1] # i
  PROVE  NoOthers(t, i)'
<1>1. ASSUME NEW q \in Tasks, task'[q] # Idle
      PROVE  /\ q # t /\ task'[q].at \notin Registering \cup Verifying => task'[q].id # i
             /\ \A c \in task'[q].codes : c[1] # i
  BY <1>1 DEF NoOthers, Begun, OthersStay
<1> QED BY <1>1 DEF NoOthers

\* What a step does to the state of numbers that are not its own.
LEMMA UnusedAside ==
  ASSUME Typed, NEW i \in Ids
  PROVE  /\ PassAside /\ UnusedPass(i) => UnusedPass(i)'
         /\ TwoFAAside /\ UnusedTwoFA(i) => UnusedTwoFA(i)'
  BY DEF PassAside, TwoFAAside, UnusedPass, UnusedTwoFA, twoFAVars

\* A number stays unused by codes and links until its handler mails it or sets with it.
LEMMA UnusedPassword ==
  ASSUME Typed, NEW i \in Ids, UnusedPass(i), NEW s \in Tasks, PasswordStep(s),
         task[s].id # i \/ SaveVerificationCode(s) \/ SaveChangePasswordToken(s)
  PROVE  UnusedPass(i)'
<1>1. CASE UNCHANGED <<letters, changes>>
  BY <1>1 DEF UnusedPass
<1>2. CASE UpdatePassword(s) /\ task[s].id # i
  BY <1>2 DEF UpdatePassword, UnusedPass, Typed, PassOK
<1>3. CASE (PublishForgotPassword(s) \/ PublishChangePasswordRequest(s)) /\ task[s].id # i
  <2>1. letters' = letters \cup {<<task[s].id, task[s].user>>} /\ UNCHANGED changes
    BY <1>3 DEF PublishForgotPassword, PublishChangePasswordRequest
  <2>2. \A w \in Users : <<i, w>> # <<task[s].id, task[s].user>>
    BY <1>3
  <2> QED BY <2>1, <2>2 DEF UnusedPass
<1> QED BY <1>1, <1>2, <1>3 DEF PasswordStep, SaveVerificationCode, SaveChangePasswordToken,
        DeleteVerificationCode, DeleteChangePasswordToken, PublishPasswordChanged, passVars,
        PublishForgotPassword, PublishChangePasswordRequest, UpdatePassword

\* It stays unused by secrets until its handler creates the row.
LEMMA UnusedTwoFAStep ==
  ASSUME Typed, NEW i \in Ids, UnusedTwoFA(i), NEW s \in Tasks, TwoFAStep(s),
         task[s].id # i \/ Delete2FA(s), \A c \in task[s].codes : c[1] # i
  PROVE  UnusedTwoFA(i)'
<1>1. UNCHANGED burnt /\ twoFA \in [Users -> TwoFA]
  BY DEF TwoFAStep, Delete2FA, Create2FA, BurnBackupCode, Enable2FA, Publish2faEnabled, twoFAVars,
         Typed, TwoFAOK
<1>2. Used(task[s])
  BY TwoFATakes DEF TwoFAStep, Onward, Over
<1>3. PICK w \in Users : w = task[s].user
  BY <1>2 DEF Used
<1>4. twoFA[w] \in TwoFA /\ twoFA[w].secret # i /\ \A c \in twoFA[w].codes : c[1] # i
  BY <1>1 DEF UnusedTwoFA
<1>5. ASSUME NEW r \in TwoFA, twoFA' = [twoFA EXCEPT ![w] = r], r.secret # i,
             \A c \in r.codes : c[1] # i
      PROVE  UnusedTwoFA(i)'
  BY <1>1, <1>5 DEF UnusedTwoFA
<1>6. UNCHANGED twoFA => UnusedTwoFA(i)'
  BY <1>1 DEF UnusedTwoFA
<1>7. CASE Delete2FA(s)
  <2>1. NoRow \in TwoFA /\ NoRow.codes = {} /\ NoRow.secret # i
    BY DEF NoRow, TwoFA, None, Ids
  <2> QED BY <1>3, <1>5, <1>7, <2>1 DEF Delete2FA
<1>8. CASE Create2FA(s) /\ twoFA[w] = NoRow /\ task[s].id # i
  <2>1. task[s].id \in Ids
    BY <1>2, <1>8, StepsAre, HasNumber DEF Create2FA
  <2>2. Row(task[s].id) \in TwoFA /\ Row(task[s].id).secret = task[s].id
        /\ \A c \in Row(task[s].id).codes : c[1] = task[s].id
    BY <2>1 DEF Row, TwoFA, Codes
  <2>3. twoFA' = [twoFA EXCEPT ![w] = Row(task[s].id)]
    BY <1>3, <1>8 DEF Create2FA
  <2> HIDE DEF Row
  <2> QED BY <1>5, <1>8, <2>2, <2>3
<1>9. CASE BurnBackupCode(s) /\ twoFA[w] # NoRow
  <2> DEFINE r == [twoFA[w] EXCEPT !.codes = task[s].codes]
  <2>1. r \in TwoFA /\ r.secret = twoFA[w].secret /\ r.codes = task[s].codes
    BY <1>2, <1>4 DEF TwoFA, Used
  <2>2. twoFA' = [twoFA EXCEPT ![w] = r]
    BY <1>3, <1>9 DEF BurnBackupCode
  <2> HIDE DEF r
  <2> QED BY <1>4, <1>5, <2>1, <2>2
<1>10. CASE Enable2FA(s) /\ twoFA[w] # NoRow
  <2> DEFINE r == [twoFA[w] EXCEPT !.enabled = "yes"]
  <2>1. r \in TwoFA /\ r.secret = twoFA[w].secret /\ r.codes = twoFA[w].codes
    BY <1>4 DEF TwoFA
  <2>2. twoFA' = [twoFA EXCEPT ![w] = r]
    BY <1>3, <1>10 DEF Enable2FA
  <2> HIDE DEF r
  <2> QED BY <1>4, <1>5, <2>1, <2>2
<1>11. CASE \/ Publish2faEnabled(s)
            \/ Create2FA(s) /\ twoFA[w] # NoRow
            \/ (BurnBackupCode(s) \/ Enable2FA(s)) /\ twoFA[w] = NoRow
  BY <1>3, <1>6, <1>11 DEF Publish2faEnabled, Create2FA, BurnBackupCode, Enable2FA, twoFAVars
<1>12. Delete2FA(s) \/ task[s].id # i
  OBVIOUS
<1> QED BY <1>7, <1>8, <1>9, <1>10, <1>11, <1>12 DEF TwoFAStep

\* Calls use no number that was just drawn.
LEMMA UnusedCall ==
  ASSUME Typed, NEW i \in Ids, UnusedPass(i), UnusedTwoFA(i),
         NEW t \in Tasks, NEW u \in Users, Call(t, u)
  PROVE  UnusedPass(i)' /\ UnusedTwoFA(i)'
<1>1. UNCHANGED <<letters, changes, twoFA>>
  BY DEF Call, Register, VerifyEmail, ForgotPassword, ResetPassword, RequestPasswordChange,
         ConfirmPasswordChange, Setup2FA, Verify2FA, VerifyBackupCode, passVars, twoFAVars
<1>2. UNCHANGED burnt \/ \E c \in Codes : VerifyBackupCode(t, u, c)
  BY DEF Call, Register, VerifyEmail, ForgotPassword, ResetPassword, RequestPasswordChange,
         ConfirmPasswordChange, Setup2FA, Verify2FA, twoFAVars
<1>3. ASSUME NEW c \in Codes, VerifyBackupCode(t, u, c), NEW b \in BackupCodes
      PROVE  burnt'[<<i, b>>] = 0
  <2>1. c[1] # i /\ burnt' = [burnt EXCEPT ![c] = More(@)]
    BY <1>3 DEF VerifyBackupCode, UnusedTwoFA
  <2>2. <<i, b>>[1] = i
    OBVIOUS
  <2>3. <<i, b>> \in Codes /\ <<i, b>> # c
    BY <2>1, <2>2 DEF Codes
  <2>4. burnt[<<i, b>>] = 0
    BY DEF UnusedTwoFA
  <2> QED BY <2>1, <2>3, <2>4 DEF Typed, TwoFAOK
<1> QED BY <1>1, <1>2, <1>3 DEF UnusedPass, UnusedTwoFA

\* A number that is yet to be drawn.
LEMMA UnusedNext ==
  ASSUME Typed, Ownership, Draws
  PROVE  LET n == drawn + 1 IN
         /\ n \in Ids /\ UnusedPass(n) /\ UnusedTwoFA(n)
         /\ \A t \in Tasks : NoOthers(t, n)
<1>1. PICK o \in Owners : Owned(o)
  BY DEF Ownership
<1>2. PICK n \in Ids : n = drawn + 1
  BY Drawn
<1>3. drawn \in Int /\ n > drawn /\ \A j \in 1..drawn : j # n
  BY <1>2, IdAssumption DEF Typed, IdAssumption
<1>4. OwnedTasks(o) /\ OwnedPass(o) /\ OwnedTwoFA(o)
  BY <1>1 DEF Owned
<1>5. UnusedPass(n)
  BY <1>3, <1>4 DEF OwnedPass, UnusedPass, Of
<1>6. UnusedTwoFA(n)
  <2>1. ASSUME NEW w \in Users PROVE twoFA[w].secret # n /\ \A c \in twoFA[w].codes : c[1] # n
    <3>1. twoFA[w] = NoRow => twoFA[w].secret # n
      BY DEF NoRow, None, Ids
    <3> QED BY <1>3, <1>4, <3>1 DEF OwnedTwoFA, Of
  <2> QED BY <1>3, <1>4, <2>1 DEF OwnedTwoFA, UnusedTwoFA
<1>7. ASSUME NEW t \in Tasks PROVE NoOthers(t, n)
  <2>1. ASSUME NEW s \in Tasks, task[s] # Idle
        PROVE  /\ task[s].at \notin Registering \cup Verifying => task[s].id # n
               /\ \A c \in task[s].codes : c[1] # n
    <3>1. TaskOf(task[s], o, drawn) /\ task[s].at \in Steps
      BY <1>4, <2>1, Knows DEF OwnedTasks, Used
    <3>2. task[s].at \notin Registering \cup Verifying => task[s].id \in 1..drawn
      BY <3>1, StepsAre DEF TaskOf, CodeSteps, LinkSteps, TwoFASteps, Of
    <3>3. \A c \in task[s].codes : c[1] \in 1..drawn
      BY <3>1 DEF TaskOf, Of
    <3> QED BY <1>3, <3>2, <3>3
  <2> QED BY <2>1 DEF NoOthers
<1> QED BY <1>2, <1>5, <1>6, <1>7

\* Handlers leave the numbers of others unused.
LEMMA NoveltyWorks ==
  ASSUME Typed, Novelty, NEW s \in Tasks,
         RegisterStep(s) \/ VerifyStep(s) \/ PasswordStep(s) \/ TwoFAStep(s)
  PROVE  Novelty'
<1> SUFFICES ASSUME NEW t \in Tasks, NEW i \in Ids,
                    task'[t] # Idle, task'[t].at \in Newly, task'[t].id = i
             PROVE  Novel(t, i)'
  BY DEF Novelty
<1>1. \/ Over(s)
      \/ \E x : /\ Onward(s, x)
                /\ x \notin Registering \cup Verifying => task[s].at \notin Registering \cup Verifying
                /\ x \in Newly => \/ SaveVerificationCode(s) \/ SaveChangePasswordToken(s)
                                  \/ Delete2FA(s)
  <2>1. CASE RegisterStep(s) \/ VerifyStep(s)
    <3>1. \/ Over(s)
          \/ \E x \in {"insert", "track", "token", "mail", "announce", "publish", "drop"} : Onward(s, x)
      BY <2>1, RegisterTakes DEF RegisterStep, VerifyStep
    <3> QED BY <3>1 DEF Registering, Verifying, Newly
  <2>2. CASE PasswordStep(s)
    <3>1. \/ Over(s)
          \/ \E x \in {"unset code", "unset link", "tell"} : Onward(s, x)
          \/ (SaveVerificationCode(s) \/ SaveChangePasswordToken(s))
             /\ \E x \in {"send code", "send link"} : Onward(s, x)
      BY <2>2, PasswordTakes DEF PasswordStep
    <3>2. task[s].at \notin Registering \cup Verifying
      BY <2>2, PasswordTakes DEF PasswordStep, Registering, Verifying
    <3> QED BY <3>1, <3>2 DEF Newly
  <2>3. CASE TwoFAStep(s)
    <3>1. \/ Over(s)
          \/ \E x \in {"enable", "tell enabled"} : Onward(s, x)
          \/ Delete2FA(s) /\ Onward(s, "create")
      BY <2>3, TwoFATakes DEF TwoFAStep
    <3>2. task[s].at \notin Registering \cup Verifying
      BY <2>3, TwoFATakes DEF TwoFAStep, Registering, Verifying
    <3> QED BY <3>1, <3>2 DEF Newly
  <2> QED BY <2>1, <2>2, <2>3
<1>2. /\ task[t] # Idle /\ task[t].at \in Newly /\ task[t].id = i
      /\ s = t => SaveVerificationCode(s) \/ SaveChangePasswordToken(s) \/ Delete2FA(s)
  <2>1. CASE s # t
    BY <1>1, <2>1 DEF Onward, Over, OthersStay
  <2>2. CASE s = t
    BY <1>1, <2>2 DEF Onward, Over, Newly, Used, SaveVerificationCode, SaveChangePasswordToken,
                      Delete2FA
  <2> QED BY <2>1, <2>2
<1>3. UnusedPass(i) /\ UnusedTwoFA(i) /\ NoOthers(t, i)
  BY <1>2 DEF Novelty, Novel
<1>4. NoOthers(t, i)'
  BY <1>1, <1>3, OthersOnward, OthersOver
<1>5. Used(task[s]) /\ \A c \in task[s].codes : c[1] # i
  BY <1>1, <1>3 DEF Onward, Over, Used, NoOthers
<1>6. s # t /\ task[s].at \notin Registering \cup Verifying => task[s].id # i
  BY <1>3, <1>5 DEF NoOthers, Used
<1>7. UnusedPass(i)' /\ UnusedTwoFA(i)'
  <2>1. CASE RegisterStep(s) \/ VerifyStep(s)
    BY <1>3, <2>1, RegisterAside, UnusedAside
  <2>2. CASE PasswordStep(s)
    <3>1. task[s].at \notin Registering \cup Verifying /\ task[s].at # "delete"
      BY <2>2, PasswordTakes DEF PasswordStep, Registering, Verifying
    <3>2. task[s].id # i \/ SaveVerificationCode(s) \/ SaveChangePasswordToken(s)
      BY <1>2, <1>6, <3>1 DEF Delete2FA
    <3> QED BY <1>3, <2>2, <3>2, UnusedPassword, PasswordAside, UnusedAside
  <2>3. CASE TwoFAStep(s)
    <3>1. task[s].at \notin Registering \cup Verifying /\ task[s].at \notin {"save code", "save link"}
      BY <2>3, TwoFATakes DEF TwoFAStep, Registering, Verifying
    <3>2. task[s].id # i \/ Delete2FA(s)
      BY <1>2, <1>6, <3>1 DEF SaveVerificationCode, SaveChangePasswordToken
    <3> QED BY <1>3, <1>5, <2>3, <3>2, UnusedTwoFAStep, TwoFAStepAside, UnusedAside
  <2> QED BY <2>1, <2>2, <2>3
<1> QED BY <1>4, <1>7 DEF Novel

\* A number drawn was never used; the others were drawn before.
LEMMA NoveltyCalls ==
  ASSUME Typed, Ownership, Novelty, NEW s \in Tasks, NEW u \in Users, Call(s, u)
  PROVE  Novelty'
<1> SUFFICES ASSUME NEW t \in Tasks, NEW i \in Ids,
                    task'[t] # Idle, task'[t].at \in Newly, task'[t].id = i
             PROVE  Novel(t, i)'
  BY DEF Novelty
<1>1. PICK x, j, C, g : Begun(s, x, u, j, C, g)
  BY CallTakes DEF Call
<1>2. UnusedPass(i) /\ UnusedTwoFA(i) /\ NoOthers(t, i)
  <2>1. CASE t = s
    <3>1. task'[s].at \in Newly /\ task'[s].id = i
      BY <2>1
    <3>2. Draws /\ i = drawn + 1
      BY <3>1, CallTakes DEF Call, Begun, Newly, ForgotPassword, RequestPasswordChange, Setup2FA
    <3> QED BY <3>2, UnusedNext
  <2>2. CASE t # s
    <3>1. task[t] = task'[t]
      BY <1>1, <2>2 DEF Begun, OthersStay
    <3> QED BY <3>1 DEF Novelty, Novel
  <2> QED BY <2>1, <2>2
<1>3. UnusedPass(i)' /\ UnusedTwoFA(i)'
  BY <1>2, UnusedCall
<1>4. (s = t \/ x \in Registering \cup Verifying \/ j # i) /\ \A c \in C : c[1] # i
  <2>0. /\ task'[s].at = x /\ task'[s].id = j /\ task'[s].codes = C
    BY <1>1 DEF Begun
  <2>1. CASE Register(s, u)
    <3>1. Begun(s, "look", u, None, {}, "clean")
      BY <2>1, CallTakes
    <3>2. x = "look" /\ C = {}
      BY <2>0, <3>1 DEF Begun
    <3> QED BY <3>2 DEF Registering
  <2>7. CASE VerifyEmail(s, u)
    <3>1. Begun(s, "activate", u, None, {}, verifyToken[u])
      BY <2>7, CallTakes
    <3>2. x = "activate" /\ C = {}
      BY <2>0, <3>1 DEF Begun
    <3> QED BY <3>2 DEF Verifying
  <2>2. CASE ForgotPassword(s, u) \/ RequestPasswordChange(s, u) \/ Setup2FA(s, u)
    <3>0. PICK n : n = drawn + 1
      OBVIOUS
    <3>1. Draws /\ \E y, h : Begun(s, y, u, n, {}, h)
      BY <2>2, <3>0, CallTakes DEF ForgotPassword, RequestPasswordChange, Setup2FA
    <3>2. C = {} /\ j = n
      BY <2>0, <3>1 DEF Begun
    <3>3. s # t => j # i
      <4>1. SUFFICES ASSUME s # t PROVE j # i
        OBVIOUS
      <4>2. task[t] = task'[t]
        BY <1>1, <4>1 DEF Begun, OthersStay
      <4>3. task[t].at \notin Registering \cup Verifying
        BY <4>2, StepsAre DEF Newly
      <4>4. NoOthers(s, n)
        BY <3>0, <3>1, UnusedNext
      <4> QED BY <3>2, <4>1, <4>2, <4>3, <4>4 DEF NoOthers
    <3> QED BY <3>2, <3>3
  <2>3. CASE ResetPassword(s, u)
    <3>1. Begun(s, "set code", u, resetCode[u], {}, "clean") /\ <<resetCode[u], u>> \in letters
      BY <2>3, CallTakes
    <3>2. j = resetCode[u] /\ C = {}
      BY <2>0, <3>1 DEF Begun
    <3> QED BY <1>2, <3>1, <3>2 DEF UnusedPass
  <2>4. CASE \E k \in Ids : ConfirmPasswordChange(s, k, u)
    <3>1. PICK k \in Ids : Begun(s, "set link", u, k, {}, "clean") /\ <<k, u>> \in letters
      BY <2>4, CallTakes
    <3>2. j = k /\ C = {}
      BY <2>0, <3>1 DEF Begun
    <3> QED BY <1>2, <3>1, <3>2 DEF UnusedPass
  <2>5. CASE Verify2FA(s, u)
    <3>1. Begun(s, "enable", u, twoFA[u].secret, {}, "clean")
      BY <2>5, CallTakes
    <3>2. j = twoFA[u].secret /\ C = {}
      BY <2>0, <3>1 DEF Begun
    <3> QED BY <1>2, <3>2 DEF UnusedTwoFA
  <2>6. CASE \E c \in Codes : VerifyBackupCode(s, u, c)
    <3>0. PICK c \in Codes : VerifyBackupCode(s, u, c)
      BY <2>6
    <3>1. \E y, h : Begun(s, y, u, twoFA[u].secret, twoFA[u].codes \ {c}, h)
      BY <3>0, CallTakes
    <3>2. j = twoFA[u].secret /\ C = twoFA[u].codes \ {c}
      BY <2>0, <3>1 DEF Begun
    <3> QED BY <1>2, <3>2 DEF UnusedTwoFA
  <2> QED BY <2>1, <2>2, <2>3, <2>4, <2>5, <2>6, <2>7 DEF Call
<1>5. NoOthers(t, i)'
  BY <1>1, <1>2, <1>4, OthersBegun
<1> QED BY <1>3, <1>5 DEF Novel

\* Failures, and what expires, use nothing.
LEMMA NoveltyOther ==
  ASSUME Typed, Novelty,
         \/ \E t \in Tasks : Throws(t)
         \/ \E u \in Users : \/ TokenExpires(u) \/ CodeExpires(u)
                             \/ \E i \in Ids : LinkExpires(i, u)
         \/ \E d \in Devices : TrialKeyExpires(d)
         \/ UNCHANGED vars
  PROVE  Novelty'
<1>1. UNCHANGED <<letters, changes, twoFA, burnt>>
  BY DEF Throws, TokenExpires, CodeExpires, LinkExpires, TrialKeyExpires, vars, passVars, twoFAVars
<1>2. \A s \in Tasks : task'[s] = task[s] \/ task'[s] = Idle
  <2>1. CASE \E t \in Tasks : Throws(t)
    BY <2>1, ThrowTakes DEF Over, OthersStay
  <2>2. CASE UNCHANGED task
    BY <2>2
  <2> QED BY <2>1, <2>2 DEF TokenExpires, CodeExpires, LinkExpires, TrialKeyExpires, vars
<1>3. ASSUME NEW t \in Tasks, NEW i \in Ids, Novel(t, i) PROVE Novel(t, i)'
  BY <1>1, <1>2, <1>3 DEF Novel, UnusedPass, UnusedTwoFA, NoOthers
<1> QED BY <1>2, <1>3 DEF Novelty

\* Every step keeps the invariant.
LEMMA NoveltyStep == Typed /\ Ownership /\ Novelty /\ [Next]_vars => Novelty'
  BY NoveltyWorks, NoveltyCalls, NoveltyOther DEF Next, Works, Fails

\* In the beginning no handler has a number.
LEMMA NoveltyBegin == Init => Novelty
  BY DEF Init, Novelty

-------------------------------------------------------------------------------
(* Codes and links: PasswordCodesHold.                                       *)

On(u, S, i) == \E t \in Tasks : Doing(t, u, S) /\ task[t].id = i

\* One change: what is stored has set no password, but for the one whose handler
\* is about to delete it.
Spent(u) ==
  /\ \A i \in Ids : <<i, u>> \in letters => changes[i] \in {0, 1}
  /\ \A i \in Ids : resetCode[u] = i /\ changes[i] # 0 => On(u, {"unset code"}, i)
  /\ \A i \in Ids : <<i, u>> \in links /\ changes[i] # 0 => On(u, {"unset link"}, i)
  /\ \A t \in Tasks : Doing(t, u, {"set code", "set link"}) => changes[task[t].id] = 0
\* The last code that was mailed is the one stored, or was used.
Mailed(u) ==
  /\ mailed[u] # None => \/ resetCode[u] = mailed[u] \/ changes[mailed[u]] # 0
                         \/ \E t \in Tasks : Doing(t, u, {"send code"})
  /\ \A t \in Tasks : Doing(t, u, {"send code", "set code", "unset code"}) => resetCode[u] = task[t].id
  /\ \A t \in Tasks : Doing(t, u, {"unset code"}) => changes[task[t].id] # 0
Announced(u) ==
  \A i \in Ids : <<i, u>> \in letters /\ changes[i] # 0 =>
    i \in told \/ u \in failed \/ On(u, {"unset code", "unset link", "tell"}, i)
WasALetter(u) == mailed[u] # None => <<mailed[u], u>> \in letters

CodesOf(u) ==
  /\ Announced(u) /\ WasALetter(u)
  /\ u \notin overlapped \cup failed => Spent(u)
  /\ u \notin overlapped \cup failed \cup lapsed => Mailed(u)
CodesInv == \A u \in Users : CodesOf(u)

\* The numbers that are a user's: stored, mailed or in use by a handler.
Mine(u, i) == /\ i \in Ids
              /\ \/ <<i, u>> \in letters \/ <<i, u>> \in links \/ resetCode[u] = i
                 \/ On(u, CodeSteps \cup LinkSteps, i)

\* What is a user's is what the user owns.
LEMMA MineIsOwned ==
  ASSUME Typed, NEW o, Owned(o), NEW u \in Users
  PROVE  /\ \A i : Mine(u, i) => o[i] \in {<<u, "code">>, <<u, "link">>}
         /\ \A i \in Ids : /\ <<i, u>> \in links => o[i] = <<u, "link">>
                           /\ resetCode[u] = i => o[i] = <<u, "code">>
<1>1. OwnedTasks(o) /\ OwnedPass(o)
  BY DEF Owned
<1>2. \A i \in Ids : /\ <<i, u>> \in links => o[i] = <<u, "link">>
                     /\ resetCode[u] = i => o[i] = <<u, "code">>
                     /\ <<i, u>> \in letters => o[i] \in {<<u, "code">>, <<u, "link">>}
  BY <1>1 DEF OwnedPass, Of, None, Ids
<1>3. ASSUME NEW t \in Tasks, Doing(t, u, CodeSteps \cup LinkSteps)
      PROVE  o[task[t].id] \in {<<u, "code">>, <<u, "link">>}
  BY <1>1, <1>3 DEF OwnedTasks, TaskOf, Of, Doing
<1> QED BY <1>2, <1>3 DEF Mine, On

\* A task at a step of codes or links, and its number.
LEMMA TaskIsOwned ==
  ASSUME Typed, NEW o, Owned(o), NEW t \in Tasks, task[t].at \in CodeSteps \cup LinkSteps
  PROVE  /\ task[t].id \in Ids /\ Used(task[t])
         /\ task[t].at \in CodeSteps => o[task[t].id] = <<task[t].user, "code">>
         /\ task[t].at \in LinkSteps => o[task[t].id] = <<task[t].user, "link">>
<1>1. task[t].at \in Steps \ (Registering \cup Verifying)
  BY StepsAre DEF CodeSteps, LinkSteps
<1>2. task[t].id \in Ids /\ Used(task[t])
  BY <1>1, HasNumber, Knows
<1> QED BY <1>2 DEF Owned, OwnedTasks, TaskOf, Of, Used

-------------------------------------------------------------------------------
(* Steps that do not touch what is a user's.                                 *)

Untouched(u) ==
  /\ Excused
  /\ resetCode'[u] = resetCode[u] /\ mailed'[u] = mailed[u]
  /\ \A i \in Ids : <<i, u>> \in links' => <<i, u>> \in links
  /\ \A i \in Ids : <<i, u>> \in letters' <=> <<i, u>> \in letters
  /\ \A i : Mine(u, i) => changes'[i] = changes[i]
  /\ \A s \in Tasks, S \in SUBSET PassSteps :
       /\ Doing(s, u, S)' <=> Doing(s, u, S)
       /\ Doing(s, u, S) => task'[s].id = task[s].id

\* Who is untouched has the same handlers.
LEMMA OnUntouched ==
  ASSUME NEW u, Untouched(u), NEW S \in SUBSET PassSteps, NEW i
  PROVE  On(u, S, i)' <=> On(u, S, i)
  BY DEF Untouched, On

\* The invariant of an untouched user holds on.
LEMMA UntouchedKept ==
  ASSUME Typed, NEW u \in Users, Untouched(u)
  PROVE  /\ Spent(u) => Spent(u)'
         /\ WasALetter(u) => WasALetter(u)'
         /\ WasALetter(u) /\ Mailed(u) => Mailed(u)'
<1>1. ASSUME Spent(u) PROVE Spent(u)'
  <2>1. ASSUME NEW i \in Ids, <<i, u>> \in letters' PROVE changes'[i] \in {0, 1}
    BY <1>1, <2>1 DEF Spent, Untouched, Mine
  <2>2. ASSUME NEW i \in Ids, resetCode'[u] = i, changes'[i] # 0 PROVE On(u, {"unset code"}, i)'
    <3>1. resetCode[u] = i /\ changes[i] # 0
      BY <2>2 DEF Untouched, Mine
    <3>2. On(u, {"unset code"}, i)
      BY <1>1, <3>1 DEF Spent
    <3> QED BY <3>2, OnUntouched DEF PassSteps
  <2>3. ASSUME NEW i \in Ids, <<i, u>> \in links', changes'[i] # 0 PROVE On(u, {"unset link"}, i)'
    <3>1. <<i, u>> \in links /\ changes[i] # 0
      BY <2>3 DEF Untouched, Mine
    <3>2. On(u, {"unset link"}, i)
      BY <1>1, <3>1 DEF Spent
    <3> QED BY <3>2, OnUntouched DEF PassSteps
  <2>4. ASSUME NEW t \in Tasks, Doing(t, u, {"set code", "set link"})'
        PROVE  changes'[task'[t].id] = 0
    <3>1. Doing(t, u, {"set code", "set link"}) /\ task'[t].id = task[t].id
      BY <2>4 DEF Untouched, PassSteps
    <3>2. task[t].at \in Steps \ (Registering \cup Verifying)
      BY <3>1, StepsAre DEF Doing
    <3>3. Mine(u, task[t].id)
      BY <3>1, <3>2, HasNumber DEF Mine, On, Doing, CodeSteps, LinkSteps
    <3> QED BY <1>1, <3>1, <3>3 DEF Spent, Untouched
  <2> QED BY <2>1, <2>2, <2>3, <2>4 DEF Spent
<1>2. ASSUME WasALetter(u) PROVE WasALetter(u)'
  BY <1>2 DEF WasALetter, Untouched, Typed, PassOK
<1>3. ASSUME WasALetter(u), Mailed(u) PROVE Mailed(u)'
  <2>1. ASSUME mailed'[u] # None
        PROVE  \/ resetCode'[u] = mailed'[u] \/ changes'[mailed'[u]] # 0
               \/ \E t \in Tasks : Doing(t, u, {"send code"})'
    <3>1. mailed[u] # None /\ mailed[u] \in Ids /\ Mine(u, mailed[u]) /\ mailed'[u] = mailed[u]
      BY <1>3, <2>1 DEF WasALetter, Untouched, Typed, PassOK, Mine
    <3>2. \A t \in Tasks : Doing(t, u, {"send code"}) => Doing(t, u, {"send code"})'
      BY DEF Untouched, PassSteps
    <3> QED BY <1>3, <3>1, <3>2 DEF Mailed, Untouched
  <2>2. ASSUME NEW t \in Tasks, Doing(t, u, {"send code", "set code", "unset code"})'
        PROVE  resetCode'[u] = task'[t].id
    BY <1>3, <2>2 DEF Mailed, Untouched, PassSteps
  <2>3. ASSUME NEW t \in Tasks, Doing(t, u, {"unset code"})' PROVE changes'[task'[t].id] # 0
    <3>1. Doing(t, u, {"unset code"}) /\ task'[t].id = task[t].id
      BY <2>3 DEF Untouched, PassSteps
    <3>2. task[t].at \in Steps \ (Registering \cup Verifying)
      BY <3>1, StepsAre DEF Doing
    <3>3. Mine(u, task[t].id)
      BY <3>1, <3>2, HasNumber DEF Mine, On, Doing, CodeSteps, LinkSteps
    <3> QED BY <1>3, <3>1, <3>3 DEF Mailed, Untouched
  <2> QED BY <2>1, <2>2, <2>3 DEF Mailed
<1> QED BY <1>1, <1>2, <1>3

\* Registration and second factors touch no user's codes.
LEMMA AsideUntouched ==
  ASSUME Typed, PassAside, NEW u \in Users
  PROVE  Untouched(u)
<1>1. ASSUME NEW s \in Tasks, NEW S \in SUBSET PassSteps
      PROVE  /\ Doing(s, u, S)' <=> Doing(s, u, S)
             /\ Doing(s, u, S) => task'[s].id = task[s].id
  BY DEF PassAside, Aside, Doing
<1> QED BY <1>1 DEF Untouched, PassAside

\* What a step of another task does to the tasks of a user.
LEMMA OthersDoing ==
  ASSUME Typed, NEW t \in Tasks, NEW u \in Users,
         \/ (Over(t) \/ \E x : Onward(t, x)) /\ task[t].user # u
         \/ \E x, w, i, C, g : Begun(t, x, w, i, C, g) /\ w # u
  PROVE  \A s \in Tasks : \A S : /\ Doing(s, u, S)' <=> Doing(s, u, S)
                                 /\ Doing(s, u, S) => task'[s].id = task[s].id
<1>1. /\ \A s \in Tasks \ {t} : task'[s] = task[s]
      /\ task[t] # Idle => task[t].user # u
      /\ task'[t] # Idle => task'[t].user # u
  BY DEF Over, Onward, Begun, OthersStay, Used
<1> QED BY <1>1 DEF Doing

\* Nor do the handlers and calls of other users.
LEMMA UntouchedByOthers ==
  ASSUME Typed, Ownership, NEW u \in Users, NEW t \in Tasks,
         \/ (PasswordStep(t) \/ Throws(t)) /\ task[t].user # u
         \/ \E w \in Users \ {u} :
              \/ ForgotPassword(t, w) \/ ResetPassword(t, w) \/ RequestPasswordChange(t, w)
              \/ \E i \in Ids : ConfirmPasswordChange(t, i, w)
  PROVE  Untouched(u)
<1>1. PICK o \in Owners : Owned(o)
  BY DEF Ownership
<1>2. CASE PasswordStep(t) /\ task[t].user # u
  <2>1. (Over(t) \/ \E x : Onward(t, x)) /\ Quiet
    BY <1>2, PasswordTakes DEF PasswordStep
  <2>2. /\ Excused
        /\ \A s \in Tasks : \A S : /\ Doing(s, u, S)' <=> Doing(s, u, S)
                                   /\ Doing(s, u, S) => task'[s].id = task[s].id
    BY <1>2, <2>1, OthersDoing, ExcusesGrow
  <2>3. resetCode'[u] = resetCode[u] /\ mailed'[u] = mailed[u]
    BY <1>2 DEF PasswordStep, SaveVerificationCode, PublishForgotPassword, SaveChangePasswordToken,
         PublishChangePasswordRequest, UpdatePassword, DeleteVerificationCode,
         DeleteChangePasswordToken, PublishPasswordChanged, Typed, PassOK
  <2>4. ASSUME NEW i \in Ids
        PROVE  /\ <<i, u>> \in links' <=> <<i, u>> \in links
               /\ <<i, u>> \in letters' <=> <<i, u>> \in letters
    BY <1>2 DEF PasswordStep, SaveVerificationCode, PublishForgotPassword, SaveChangePasswordToken,
         PublishChangePasswordRequest, UpdatePassword, DeleteVerificationCode,
         DeleteChangePasswordToken, PublishPasswordChanged
  <2>5. ASSUME NEW i, Mine(u, i) PROVE changes'[i] = changes[i]
    <3>1. UNCHANGED changes \/ UpdatePassword(t)
      BY <1>2 DEF PasswordStep, SaveVerificationCode, PublishForgotPassword,
           SaveChangePasswordToken, PublishChangePasswordRequest, DeleteVerificationCode,
           DeleteChangePasswordToken, PublishPasswordChanged
    <3>2. CASE UpdatePassword(t)
      <4>1. task[t].at \in CodeSteps \cup LinkSteps
        BY <3>2 DEF UpdatePassword, CodeSteps, LinkSteps
      <4>2. i # task[t].id
        <5>1. o[i] \in {<<u, "code">>, <<u, "link">>}
          BY <1>1, <2>5, MineIsOwned
        <5>2. o[task[t].id] \in {<<task[t].user, "code">>, <<task[t].user, "link">>}
          BY <1>1, <4>1, TaskIsOwned
        <5> QED BY <1>2, <5>1, <5>2
      <4>3. changes \in [Ids -> 0..2] /\ i \in Ids
        BY <2>5 DEF Typed, PassOK, Mine
      <4> QED BY <3>2, <4>2, <4>3 DEF UpdatePassword
    <3> QED BY <3>1, <3>2
  <2> QED BY <2>2, <2>3, <2>4, <2>5 DEF Untouched
<1>3. CASE Throws(t) /\ task[t].user # u
  <2>1. Over(t) /\ Excused /\ UNCHANGED passVars
    BY <1>3, ThrowTakes DEF Throws, Excused
  <2>2. \A s \in Tasks : \A S : /\ Doing(s, u, S)' <=> Doing(s, u, S)
                                /\ Doing(s, u, S) => task'[s].id = task[s].id
    BY <1>3, <2>1, OthersDoing
  <2> QED BY <2>1, <2>2 DEF Untouched, passVars
<1>4. ASSUME NEW w \in Users, w # u,
             \/ ForgotPassword(t, w) \/ ResetPassword(t, w) \/ RequestPasswordChange(t, w)
             \/ \E i \in Ids : ConfirmPasswordChange(t, i, w)
      PROVE  Untouched(u)
  <2>1. \E x, i, C, g : Begun(t, x, w, i, C, g)
    BY <1>4, CallTakes
  <2>2. UNCHANGED passVars
    BY <1>4 DEF ForgotPassword, ResetPassword, RequestPasswordChange, ConfirmPasswordChange
  <2>3. /\ Excused
        /\ \A s \in Tasks : \A S : /\ Doing(s, u, S)' <=> Doing(s, u, S)
                                   /\ Doing(s, u, S) => task'[s].id = task[s].id
    BY <1>4, <2>1, OthersDoing, ExcusesGrow
  <2> QED BY <2>2, <2>3 DEF Untouched, passVars
<1> QED BY <1>2, <1>3, <1>4

\* Nor does time, except for the user whose code expires.
LEMMA UntouchedByTime ==
  ASSUME Typed, NEW u \in Users, NEW w \in Users,
         (CodeExpires(w) /\ w # u) \/ \E i \in Ids : LinkExpires(i, w)
  PROVE  Untouched(u)
<1>1. UNCHANGED <<task, letters, mailed, changes>> /\ Excused
  BY DEF CodeExpires, LinkExpires, Excused, excuses
<1>2. resetCode'[u] = resetCode[u] /\ links' \subseteq links
  BY DEF CodeExpires, LinkExpires, Typed, PassOK
<1>3. \A s \in Tasks : \A S : Doing(s, u, S)' <=> Doing(s, u, S)
  BY <1>1 DEF Doing
<1> QED BY <1>1, <1>2, <1>3 DEF Untouched

-------------------------------------------------------------------------------
(* The steps of a user with one handler.                                     *)

LoneWriter(t, u) == \A s \in Tasks \ {t} : task[s] # Idle => task[s].user # u

\* The handler of a user is at x with the number n, or there is none.
Lone(u, x, n) ==
  /\ \A s \in Tasks : task[s] # Idle /\ task[s].user = u => task[s].at = x /\ task[s].id = n
  /\ x # "idle" => \E s \in Tasks : /\ task[s] # Idle /\ task[s].user = u
                                   /\ task[s].at = x /\ task[s].id = n

\* The only handler of a user goes on, or ends,
LEMMA LoneMoves ==
  ASSUME NEW t \in Tasks, NEW u, task[t].user = u, LoneWriter(t, u),
         NEW y, NEW n, task[t].at = y, task[t].id = n
  PROVE  /\ \A x : Onward(t, x) => Lone(u, y, n) /\ Lone(u, x, n)'
         /\ Over(t) => Lone(u, y, n) /\ Lone(u, "idle", None)'
<1>1. ASSUME NEW x, Onward(t, x) PROVE Lone(u, y, n) /\ Lone(u, x, n)'
  <2>1. task[t] # Idle /\ task'[t] # Idle /\ task'[t].user = u /\ task'[t].at = x /\ task'[t].id = n
    BY <1>1 DEF Onward, Used
  <2>2. \A s \in Tasks \ {t} : task'[s] = task[s] /\ (task[s] # Idle => task[s].user # u)
    BY <1>1 DEF Onward, OthersStay, LoneWriter
  <2> QED BY <2>1, <2>2 DEF Lone
<1>2. ASSUME Over(t) PROVE Lone(u, y, n) /\ Lone(u, "idle", None)'
  <2>1. task[t] # Idle /\ task'[t] = Idle
    BY <1>2 DEF Over, Used
  <2>2. \A s \in Tasks \ {t} : task'[s] = task[s] /\ (task[s] # Idle => task[s].user # u)
    BY <1>2 DEF Over, OthersStay, LoneWriter
  <2> QED BY <2>1, <2>2 DEF Lone
<1> QED BY <1>1, <1>2

\* or begins.
LEMMA LoneBegun ==
  ASSUME NEW t \in Tasks, NEW x, NEW u, NEW j, NEW C, NEW g, Begun(t, x, u, j, C, g), LoneWriter(t, u)
  PROVE  Lone(u, "idle", None) /\ Lone(u, x, j)'
<1>1. task[t] = Idle /\ task'[t] # Idle /\ task'[t].user = u /\ task'[t].at = x /\ task'[t].id = j
  BY DEF Begun, Used
<1>2. \A s \in Tasks \ {t} : task'[s] = task[s] /\ (task[s] # Idle => task[s].user # u)
  BY DEF Begun, OthersStay, LoneWriter
<1> QED BY <1>1, <1>2 DEF Lone

\* A user who is not in overlapped has one.
LEMMA AloneIfApart ==
  ASSUME Typed, Apart, Apart', Excused, NEW t \in Tasks, NEW u, u \notin overlapped',
         OthersStay(t),
         (task[t] # Idle /\ task[t].user = u) \/ (task'[t] # Idle /\ task'[t].user = u)
  PROVE  LoneWriter(t, u)
<1>1. u \notin overlapped
  BY DEF Excused
<1>2. CASE task[t] # Idle /\ task[t].user = u
  BY <1>1, <1>2 DEF Apart, LoneWriter
<1>3. CASE task'[t] # Idle /\ task'[t].user = u
  BY <1>3 DEF Apart, LoneWriter, OthersStay
<1> QED BY <1>2, <1>3

\* The counter of uses saturates above one.
LEMMA MoreIs ==
  ASSUME NEW n \in 0..2
  PROVE  More(n) \in 0..2 /\ More(n) # 0 /\ (n = 0 => More(n) = 1)
  BY DEF More

\* The invariants, for a user with one handler.
SpentAt(u, x, n) ==
  /\ \A i \in Ids : <<i, u>> \in letters => changes[i] \in {0, 1}
  /\ \A i \in Ids : resetCode[u] = i /\ changes[i] # 0 => x = "unset code" /\ i = n
  /\ \A i \in Ids : <<i, u>> \in links /\ changes[i] # 0 => x = "unset link" /\ i = n
  /\ x \in {"set code", "set link"} => changes[n] = 0
MailedAt(u, x, n) ==
  /\ mailed[u] # None => resetCode[u] = mailed[u] \/ changes[mailed[u]] # 0 \/ x = "send code"
  /\ x \in {"send code", "set code", "unset code"} => resetCode[u] = n
  /\ x = "unset code" => changes[n] # 0

\* For a user with one handler, Spent is about its step
LEMMA SpentLone ==
  ASSUME NEW u, NEW x, NEW n, Lone(u, x, n)
  PROVE  Spent(u) <=> SpentAt(u, x, n)
<1>1. /\ \A i : On(u, {"unset code"}, i) <=> x = "unset code" /\ i = n
      /\ \A i : On(u, {"unset link"}, i) <=> x = "unset link" /\ i = n
  BY DEF Lone, On, Doing
<1>2. /\ \A s \in Tasks : Doing(s, u, {"set code", "set link"}) =>
                           x \in {"set code", "set link"} /\ task[s].id = n
      /\ x \in {"set code", "set link"} =>
           \E s \in Tasks : Doing(s, u, {"set code", "set link"}) /\ task[s].id = n
  BY DEF Lone, Doing
<1>3. SpentAt(u, x, n) => Spent(u)
  BY <1>1, <1>2 DEF Spent, SpentAt
<1>4. Spent(u) => SpentAt(u, x, n)
  BY <1>1, <1>2 DEF Spent, SpentAt
<1> QED BY <1>3, <1>4

\* and about the step after.
LEMMA SpentLoneNext ==
  ASSUME NEW u, NEW x, NEW n, Lone(u, x, n)', SpentAt(u, x, n)'
  PROVE  Spent(u)'
<1>1. /\ \A i : On(u, {"unset code"}, i)' <=> x = "unset code" /\ i = n
      /\ \A i : On(u, {"unset link"}, i)' <=> x = "unset link" /\ i = n
  BY DEF Lone, On, Doing
<1>2. \A s \in Tasks : Doing(s, u, {"set code", "set link"})' =>
                       x \in {"set code", "set link"} /\ task'[s].id = n
  BY DEF Lone, Doing
<1> QED BY <1>1, <1>2 DEF Spent, SpentAt

\* So is Mailed,
LEMMA MailedLone ==
  ASSUME NEW u, NEW x, NEW n, Lone(u, x, n), Mailed(u)
  PROVE  MailedAt(u, x, n)
<1>1. \A s \in Tasks : Doing(s, u, {"send code"}) => x = "send code"
  BY DEF Lone, Doing
<1>2. x \in {"send code", "set code", "unset code"} =>
        \E s \in Tasks : Doing(s, u, {"send code", "set code", "unset code"}) /\ task[s].id = n
  BY DEF Lone, Doing
<1>3. x = "unset code" => \E s \in Tasks : Doing(s, u, {"unset code"}) /\ task[s].id = n
  BY DEF Lone, Doing
<1> QED BY <1>1, <1>2, <1>3 DEF Mailed, MailedAt

\* and after the step.
LEMMA MailedLoneNext ==
  ASSUME NEW u, NEW x, NEW n, Lone(u, x, n)', MailedAt(u, x, n)'
  PROVE  Mailed(u)'
<1>1. x = "send code" => \E s \in Tasks : Doing(s, u, {"send code"})'
  BY DEF Lone, Doing
<1>2. \A s \in Tasks : Doing(s, u, {"send code", "set code", "unset code"})' =>
                       x \in {"send code", "set code", "unset code"} /\ task'[s].id = n
  BY DEF Lone, Doing
<1>3. \A s \in Tasks : Doing(s, u, {"unset code"})' => x = "unset code" /\ task'[s].id = n
  BY DEF Lone, Doing
<1> QED BY <1>1, <1>2, <1>3 DEF Mailed, MailedAt

\* Each step of codes and links, for the two.
LEMMA LoneSets ==
  ASSUME Typed, NEW o, Owned(o), Novelty, NEW u \in Users, NEW t \in Tasks, task[t].user = u,
         NEW n, task[t].id = n, LoneWriter(t, u),
         SaveVerificationCode(t) \/ SaveChangePasswordToken(t) \/ UpdatePassword(t)
         \/ DeleteVerificationCode(t) \/ DeleteChangePasswordToken(t)
  PROVE  \E y, x : /\ Lone(u, y, n) /\ Lone(u, x, n)'
                   /\ SpentAt(u, y, n) => SpentAt(u, x, n)'
                   /\ MailedAt(u, y, n) => MailedAt(u, x, n)'
<1>0. /\ resetCode \in [Users -> Ids \cup {None}] /\ changes \in [Ids -> 0..2]
      /\ mailed \in [Users -> Ids \cup {None}] /\ None \notin Ids
  BY DEF Typed, PassOK, None, Ids
<1>1. CASE SaveVerificationCode(t)
  <2>1. task[t].at = "save code" /\ Onward(t, "send code")
    BY <1>1, PasswordTakes
  <2>2. n \in Ids /\ changes[n] = 0
    BY <2>1, TaskIsOwned DEF Novelty, Newly, Novel, UnusedPass, CodeSteps, Onward, Used
  <2>3. resetCode'[u] = n /\ UNCHANGED <<links, letters, changes, mailed>>
    BY <1>0, <1>1 DEF SaveVerificationCode
  <2>4. SpentAt(u, "save code", n) => SpentAt(u, "send code", n)'
    BY <2>2, <2>3 DEF SpentAt
  <2>5. MailedAt(u, "send code", n)'
    BY <2>3 DEF MailedAt
  <2> QED BY <2>1, <2>4, <2>5, LoneMoves
<1>2. CASE SaveChangePasswordToken(t)
  <2>1. task[t].at = "save link" /\ Onward(t, "send link")
    BY <1>2, PasswordTakes
  <2>2. n \in Ids /\ changes[n] = 0
    BY <2>1, TaskIsOwned DEF Novelty, Newly, Novel, UnusedPass, LinkSteps, Onward, Used
  <2>3. links' = links \cup {<<n, u>>} /\ UNCHANGED <<resetCode, letters, changes, mailed>>
    BY <1>2 DEF SaveChangePasswordToken
  <2>4. SpentAt(u, "save link", n) => SpentAt(u, "send link", n)'
    BY <2>2, <2>3 DEF SpentAt
  <2>5. MailedAt(u, "save link", n) => MailedAt(u, "send link", n)'
    BY <2>3 DEF MailedAt
  <2> QED BY <2>1, <2>4, <2>5, LoneMoves
<1>3. CASE UpdatePassword(t)
  <2>1. /\ task[t].at \in {"set code", "set link"}
        /\ task[t].at = "set code" => Onward(t, "unset code")
        /\ task[t].at = "set link" => Onward(t, "unset link")
    BY <1>3, PasswordTakes
  <2>2. n \in Ids
    BY <2>1, TaskIsOwned DEF CodeSteps, LinkSteps
  <2>3. changes' = [changes EXCEPT ![n] = More(@)] /\ UNCHANGED <<resetCode, links, letters, mailed>>
    BY <1>3 DEF UpdatePassword
  <2>4. /\ task[t].at = "set code" => <<n, u>> \notin links
        /\ task[t].at = "set link" => resetCode[u] # n
    <3>1. /\ task[t].at = "set code" => o[n] = <<u, "code">>
          /\ task[t].at = "set link" => o[n] = <<u, "link">>
      BY <2>1, TaskIsOwned DEF CodeSteps, LinkSteps
    <3>2. /\ <<n, u>> \in links => o[n] = <<u, "link">>
          /\ resetCode[u] = n => o[n] = <<u, "code">>
      BY <2>2, MineIsOwned
    <3>3. <<u, "code">> # <<u, "link">>
      OBVIOUS
    <3> QED BY <3>1, <3>2, <3>3
  <2>5. /\ changes'[n] # 0 /\ (changes[n] = 0 => changes'[n] = 1)
        /\ \A i \in Ids \ {n} : changes'[i] = changes[i]
    BY <1>0, <2>2, <2>3, MoreIs
  <2>6. CASE task[t].at = "set code"
    <3>1. SpentAt(u, "set code", n) => SpentAt(u, "unset code", n)'
      BY <2>2, <2>3, <2>4, <2>5, <2>6 DEF SpentAt
    <3>2. MailedAt(u, "set code", n) => MailedAt(u, "unset code", n)'
      BY <1>0, <2>2, <2>3, <2>5 DEF MailedAt
    <3> QED BY <2>1, <2>6, <3>1, <3>2, LoneMoves
  <2>7. CASE task[t].at = "set link"
    <3>1. SpentAt(u, "set link", n) => SpentAt(u, "unset link", n)'
      BY <2>2, <2>3, <2>4, <2>5, <2>7 DEF SpentAt
    <3>2. MailedAt(u, "set link", n) => MailedAt(u, "unset link", n)'
      BY <1>0, <2>2, <2>3, <2>5 DEF MailedAt
    <3> QED BY <2>1, <2>7, <3>1, <3>2, LoneMoves
  <2> QED BY <2>1, <2>6, <2>7
<1>4. CASE DeleteVerificationCode(t)
  <2>1. task[t].at = "unset code" /\ Onward(t, "tell")
    BY <1>4, PasswordTakes
  <2>2. resetCode'[u] = None /\ UNCHANGED <<links, letters, changes, mailed>>
    BY <1>0, <1>4 DEF DeleteVerificationCode
  <2>3. SpentAt(u, "unset code", n) => SpentAt(u, "tell", n)'
    BY <1>0, <2>2 DEF SpentAt
  <2>4. MailedAt(u, "unset code", n) => MailedAt(u, "tell", n)'
    BY <2>2 DEF MailedAt
  <2> QED BY <2>1, <2>3, <2>4, LoneMoves
<1>5. CASE DeleteChangePasswordToken(t)
  <2>1. task[t].at = "unset link" /\ Onward(t, "tell")
    BY <1>5, PasswordTakes
  <2>2. links' = links \ {<<n, u>>} /\ UNCHANGED <<resetCode, letters, changes, mailed>>
    BY <1>5 DEF DeleteChangePasswordToken
  <2>3. SpentAt(u, "unset link", n) => SpentAt(u, "tell", n)'
    BY <2>2 DEF SpentAt
  <2>4. MailedAt(u, "unset link", n) => MailedAt(u, "tell", n)'
    BY <2>2 DEF MailedAt
  <2> QED BY <2>1, <2>3, <2>4, LoneMoves
<1> QED BY <1>1, <1>2, <1>3, <1>4, <1>5

\* The last three steps, which end.
LEMMA LonePublishes ==
  ASSUME Typed, NEW o, Owned(o), Novelty, NEW u \in Users, NEW t \in Tasks, task[t].user = u,
         NEW n, task[t].id = n, LoneWriter(t, u),
         PublishForgotPassword(t) \/ PublishChangePasswordRequest(t) \/ PublishPasswordChanged(t)
  PROVE  \E y : /\ Lone(u, y, n) /\ Lone(u, "idle", None)'
                /\ SpentAt(u, y, n) => SpentAt(u, "idle", None)'
                /\ MailedAt(u, y, n) => MailedAt(u, "idle", None)'
<1>0. mailed \in [Users -> Ids \cup {None}]
  BY DEF Typed, PassOK
<1>1. ASSUME task[t].at \in {"send code", "send link"}, Over(t) PROVE n \in Ids /\ changes[n] = 0
  BY <1>1, TaskIsOwned DEF Novelty, Newly, Novel, UnusedPass, CodeSteps, LinkSteps, Over, Used
<1>2. CASE PublishForgotPassword(t)
  <2>1. task[t].at = "send code" /\ Over(t)
    BY <1>2, PasswordTakes
  <2>2. /\ letters' = letters \cup {<<n, u>>} /\ mailed'[u] = n
        /\ UNCHANGED <<resetCode, links, changes>>
    BY <1>0, <1>2 DEF PublishForgotPassword
  <2>3. SpentAt(u, "send code", n) => SpentAt(u, "idle", None)'
    BY <1>1, <2>1, <2>2 DEF SpentAt
  <2>4. MailedAt(u, "send code", n) => MailedAt(u, "idle", None)'
    BY <2>2 DEF MailedAt
  <2> QED BY <2>1, <2>3, <2>4, LoneMoves
<1>3. CASE PublishChangePasswordRequest(t)
  <2>1. task[t].at = "send link" /\ Over(t)
    BY <1>3, PasswordTakes
  <2>2. letters' = letters \cup {<<n, u>>} /\ UNCHANGED <<resetCode, links, changes, mailed>>
    BY <1>3 DEF PublishChangePasswordRequest
  <2>3. SpentAt(u, "send link", n) => SpentAt(u, "idle", None)'
    BY <1>1, <2>1, <2>2 DEF SpentAt
  <2>4. MailedAt(u, "send link", n) => MailedAt(u, "idle", None)'
    BY <2>2 DEF MailedAt
  <2> QED BY <2>1, <2>3, <2>4, LoneMoves
<1>4. CASE PublishPasswordChanged(t)
  <2>1. task[t].at = "tell" /\ Over(t)
    BY <1>4, PasswordTakes
  <2>2. UNCHANGED <<resetCode, links, letters, changes, mailed>>
    BY <1>4 DEF PublishPasswordChanged
  <2>3. SpentAt(u, "tell", n) => SpentAt(u, "idle", None)'
    BY <2>2 DEF SpentAt
  <2>4. MailedAt(u, "tell", n) => MailedAt(u, "idle", None)'
    BY <2>2 DEF MailedAt
  <2> QED BY <2>1, <2>3, <2>4, LoneMoves
<1> QED BY <1>2, <1>3, <1>4

\* The four calls.
LEMMA CodeCalls ==
  ASSUME Typed, NEW u \in Users, NEW t \in Tasks, LoneWriter(t, u),
         \/ ForgotPassword(t, u) \/ ResetPassword(t, u) \/ RequestPasswordChange(t, u)
         \/ \E i \in Ids : ConfirmPasswordChange(t, i, u)
  PROVE  \E x, n : /\ Lone(u, "idle", None) /\ Lone(u, x, n)'
                   /\ SpentAt(u, "idle", None) => SpentAt(u, x, n)'
                   /\ MailedAt(u, "idle", None) => MailedAt(u, x, n)'
<1>0. UNCHANGED <<resetCode, links, letters, mailed, changes>>
  BY DEF ForgotPassword, ResetPassword, RequestPasswordChange, ConfirmPasswordChange, passVars
<1>1. CASE ForgotPassword(t, u) \/ RequestPasswordChange(t, u)
  <2>0. PICK n : n = drawn + 1
    OBVIOUS
  <2>1. PICK x \in {"save code", "save link"} : Begun(t, x, u, n, {}, "clean")
    BY <1>1, <2>0, CallTakes
  <2>2. SpentAt(u, "idle", None) => SpentAt(u, x, n)'
    BY <1>0, <2>1 DEF SpentAt
  <2>3. MailedAt(u, "idle", None) => MailedAt(u, x, n)'
    BY <1>0, <2>1 DEF MailedAt
  <2> QED BY <2>1, <2>2, <2>3, LoneBegun
<1>2. CASE ResetPassword(t, u)
  <2>0. PICK n \in Ids : n = resetCode[u]
    BY <1>2, CallTakes
  <2>1. Begun(t, "set code", u, n, {}, "clean")
    BY <1>2, <2>0, CallTakes
  <2>2. SpentAt(u, "idle", None) => SpentAt(u, "set code", n)'
    BY <1>0, <2>0 DEF SpentAt
  <2>3. MailedAt(u, "idle", None) => MailedAt(u, "set code", n)'
    BY <1>0, <2>0 DEF MailedAt
  <2> QED BY <2>1, <2>2, <2>3, LoneBegun
<1>3. CASE \E i \in Ids : ConfirmPasswordChange(t, i, u)
  <2>1. PICK n \in Ids : <<n, u>> \in links /\ Begun(t, "set link", u, n, {}, "clean")
    BY <1>3, CallTakes
  <2>2. SpentAt(u, "idle", None) => SpentAt(u, "set link", n)'
    BY <1>0, <2>1 DEF SpentAt
  <2>3. MailedAt(u, "idle", None) => MailedAt(u, "set link", n)'
    BY <1>0, <2>1 DEF MailedAt
  <2> QED BY <2>1, <2>2, <2>3, LoneBegun
<1> QED BY <1>1, <1>2, <1>3

-------------------------------------------------------------------------------
(* What holds of every handler.                                              *)

\* The last code that was mailed is one of the letters.
LEMMA LettersStep ==
  ASSUME Typed, NEW u \in Users, WasALetter(u), NEW t \in Tasks, PasswordStep(t)
  PROVE  WasALetter(u)'
<1>1. CASE PublishForgotPassword(t)
  <2>1. /\ letters' = letters \cup {<<task[t].id, task[t].user>>}
        /\ mailed' = [mailed EXCEPT ![task[t].user] = task[t].id]
    BY <1>1 DEF PublishForgotPassword
  <2> QED BY <2>1 DEF WasALetter, Typed, PassOK
<1>2. CASE ~PublishForgotPassword(t)
  <2>1. UNCHANGED mailed /\ letters \subseteq letters'
    BY <1>2 DEF PasswordStep, SaveVerificationCode, SaveChangePasswordToken,
         PublishChangePasswordRequest, UpdatePassword, DeleteVerificationCode,
         DeleteChangePasswordToken, PublishPasswordChanged
  <2> QED BY <2>1 DEF WasALetter
<1> QED BY <1>1, <1>2

\* When no change is new and nobody forgets to tell, changes are announced.
LEMMA AnnouncedKept ==
  ASSUME Typed, NEW u \in Users, Announced(u), Excused, told \subseteq told', UNCHANGED changes,
         \A i \in Ids : <<i, u>> \in letters' /\ changes[i] # 0 => <<i, u>> \in letters,
         \A i \in Ids : On(u, {"unset code", "unset link", "tell"}, i) =>
           On(u, {"unset code", "unset link", "tell"}, i)' \/ i \in told' \/ u \in failed'
  PROVE  Announced(u)'
  BY DEF Announced, Excused

\* The handlers that are about to announce a change, as one of them moves.
LEMMA OnMoves ==
  ASSUME NEW t \in Tasks, NEW u, NEW S,
         \/ \E x : Onward(t, x) /\ (task[t].at \in S => x \in S)
         \/ Over(t) /\ (task[t].at \notin S \/ task[t].user # u)
         \/ \E x, w, j, C, g : Begun(t, x, w, j, C, g)
  PROVE  \A i : On(u, S, i) => On(u, S, i)'
<1>1. \A s \in Tasks : Doing(s, u, S) => Doing(s, u, S)' /\ task'[s].id = task[s].id
  BY DEF Doing, Onward, Over, Begun, OthersStay, Used
<1> QED BY <1>1 DEF On

\* Who has set a password goes on to tell, or is excused.
LEMMA AnnouncedStep ==
  ASSUME Typed, Ownership, Novelty, NEW u \in Users, Announced(u), NEW t \in Tasks, PasswordStep(t)
  PROVE  Announced(u)'
<1> DEFINE S == {"unset code", "unset link", "tell"}
<1>0. PICK o \in Owners : Owned(o)
  BY DEF Ownership
<1>e. Excused
  BY PasswordTakes, ExcusesGrow DEF PasswordStep
<1>1. CASE SaveVerificationCode(t) \/ SaveChangePasswordToken(t)
  <2>1. task[t].at \notin S /\ \E x : Onward(t, x)
    BY <1>1, PasswordTakes
  <2>2. UNCHANGED <<letters, changes, told>>
    BY <1>1 DEF SaveVerificationCode, SaveChangePasswordToken
  <2>3. \A i : On(u, S, i) => On(u, S, i)'
    BY <2>1, OnMoves
  <2> QED BY <1>e, <2>2, <2>3, AnnouncedKept
<1>2. CASE PublishForgotPassword(t) \/ PublishChangePasswordRequest(t)
  <2>1. task[t].at \in {"send code", "send link"} /\ Over(t)
    BY <1>2, PasswordTakes
  <2>2. letters' = letters \cup {<<task[t].id, task[t].user>>} /\ UNCHANGED <<changes, told>>
    BY <1>2 DEF PublishForgotPassword, PublishChangePasswordRequest
  <2>3. changes[task[t].id] = 0
    <3>1. task[t].id \in Ids
      BY <1>0, <2>1, TaskIsOwned DEF CodeSteps, LinkSteps
    <3> QED BY <2>1, <3>1 DEF Novelty, Newly, Novel, UnusedPass, Over, Used
  <2>4. \A i : On(u, S, i) => On(u, S, i)'
    BY <2>1, OnMoves
  <2>5. \A i \in Ids : <<i, u>> \in letters' /\ changes[i] # 0 => <<i, u>> \in letters
    BY <2>2, <2>3
  <2> HIDE DEF S
  <2> QED BY <1>e, <2>2, <2>4, <2>5, AnnouncedKept DEF S
<1>3. CASE UpdatePassword(t)
  <2>1. /\ task[t].at \in {"set code", "set link"}
        /\ \E x \in {"unset code", "unset link"} : Onward(t, x)
    BY <1>3, PasswordTakes
  <2>2. /\ task[t].id \in Ids
        /\ o[task[t].id] \in {<<task[t].user, "code">>, <<task[t].user, "link">>}
    BY <1>0, <2>1, TaskIsOwned DEF CodeSteps, LinkSteps
  <2>3. UNCHANGED <<letters, told>> /\ changes' = [changes EXCEPT ![task[t].id] = More(@)]
    BY <1>3 DEF UpdatePassword
  <2>4. \A i : On(u, S, i) => On(u, S, i)'
    BY <2>1, OnMoves
  <2> SUFFICES ASSUME NEW i \in Ids, <<i, u>> \in letters', changes'[i] # 0
               PROVE  i \in told' \/ u \in failed' \/ On(u, S, i)'
    BY DEF Announced
  <2>5. CASE i = task[t].id
    <3>1. Mine(u, i)
      BY <2>3 DEF Mine
    <3>2. o[i] \in {<<u, "code">>, <<u, "link">>}
      BY <1>0, <3>1, MineIsOwned
    <3>3. task[t].user = u
      BY <2>2, <2>5, <3>2
    <3> QED BY <2>1, <2>5, <3>3 DEF On, Doing, Onward, Used
  <2>6. CASE i # task[t].id
    <3>1. changes[i] # 0 /\ <<i, u>> \in letters
      BY <2>3, <2>6 DEF Typed, PassOK
    <3> QED BY <1>e, <2>3, <2>4, <3>1 DEF Announced, Excused
  <2> QED BY <2>5, <2>6
<1>4. CASE DeleteVerificationCode(t) \/ DeleteChangePasswordToken(t)
  <2>1. Onward(t, "tell")
    BY <1>4, PasswordTakes
  <2>2. UNCHANGED <<letters, changes, told>>
    BY <1>4 DEF DeleteVerificationCode, DeleteChangePasswordToken
  <2>3. \A i : On(u, S, i) => On(u, S, i)'
    BY <2>1, OnMoves
  <2> QED BY <1>e, <2>2, <2>3, AnnouncedKept
<1>5. CASE PublishPasswordChanged(t)
  <2>1. Over(t) /\ UNCHANGED <<letters, changes>> /\ told' = told \cup {task[t].id}
    BY <1>5, PasswordTakes DEF PublishPasswordChanged
  <2>2. ASSUME NEW i \in Ids, On(u, S, i) PROVE On(u, S, i)' \/ i \in told'
    <3>1. PICK s \in Tasks : Doing(s, u, S) /\ task[s].id = i
      BY <2>2 DEF On
    <3>2. CASE s = t
      BY <2>1, <3>1, <3>2
    <3>3. CASE s # t
      BY <2>1, <3>1, <3>3 DEF On, Doing, Over, OthersStay
    <3> QED BY <3>2, <3>3
  <2> QED BY <1>e, <2>1, <2>2, AnnouncedKept
<1> QED BY <1>1, <1>2, <1>3, <1>4, <1>5 DEF PasswordStep

\* A handler that throws before telling is excused.
LEMMA AnnouncedThrow ==
  ASSUME Typed, NEW u \in Users, Announced(u), NEW t \in Tasks, Throws(t)
  PROVE  Announced(u)'
<1> DEFINE S == {"unset code", "unset link", "tell"}
<1>1. /\ Over(t) /\ Excused /\ UNCHANGED <<letters, changes, told>>
      /\ task[t].user = u => u \in failed'
  BY ThrowTakes DEF Throws, Excused, passVars
<1>2. task[t].user # u => \A i : On(u, S, i) => On(u, S, i)'
  BY <1>1, OnMoves
<1> QED BY <1>1, <1>2, AnnouncedKept

\* An untouched user keeps the invariant.
LEMMA CodesUntouched ==
  ASSUME Typed, NEW u \in Users, CodesOf(u), Untouched(u), Announced(u)'
  PROVE  CodesOf(u)'
<1>1. /\ overlapped \subseteq overlapped' /\ failed \subseteq failed' /\ lapsed \subseteq lapsed'
  BY DEF Untouched, Excused
<1>2. WasALetter(u)'
  BY UntouchedKept DEF CodesOf
<1>3. u \notin overlapped' \cup failed' => Spent(u)'
  BY <1>1, UntouchedKept DEF CodesOf
<1>4. u \notin overlapped' \cup failed' \cup lapsed' => Mailed(u)'
  BY <1>1, UntouchedKept DEF CodesOf
<1> QED BY <1>2, <1>3, <1>4 DEF CodesOf

\* A step of the only handler of a user.
LEMMA CodesLone ==
  ASSUME Typed, NEW u \in Users, CodesOf(u), Excused, WasALetter(u)', Announced(u)',
         u \notin overlapped' =>
           \E y, x, n, m : /\ Lone(u, y, n) /\ Lone(u, x, m)'
                           /\ SpentAt(u, y, n) => SpentAt(u, x, m)'
                           /\ MailedAt(u, y, n) => MailedAt(u, x, m)'
  PROVE  CodesOf(u)'
<1>1. /\ overlapped \subseteq overlapped' /\ failed \subseteq failed' /\ lapsed \subseteq lapsed'
  BY DEF Excused
<1>2. ASSUME u \notin overlapped' \cup failed' PROVE Spent(u)'
  <2>1. PICK y, x, n, m : Lone(u, y, n) /\ Lone(u, x, m)' /\ (SpentAt(u, y, n) => SpentAt(u, x, m)')
    BY <1>2
  <2>2. SpentAt(u, y, n)
    BY <1>1, <1>2, <2>1, SpentLone DEF CodesOf
  <2> QED BY <2>1, <2>2, SpentLoneNext
<1>3. ASSUME u \notin overlapped' \cup failed' \cup lapsed' PROVE Mailed(u)'
  <2>1. PICK y, x, n, m : Lone(u, y, n) /\ Lone(u, x, m)' /\ (MailedAt(u, y, n) => MailedAt(u, x, m)')
    BY <1>3
  <2>2. MailedAt(u, y, n)
    BY <1>1, <1>3, <2>1, MailedLone DEF CodesOf
  <2> QED BY <2>1, <2>2, MailedLoneNext
<1> QED BY <1>2, <1>3 DEF CodesOf

\* Every step keeps the invariant of every user.
LEMMA CodesStep ==
  ASSUME Typed, Ownership, Novelty, Apart, Apart', CodesInv, [Next]_vars
  PROVE  CodesInv'
<1> SUFFICES ASSUME NEW u \in Users PROVE CodesOf(u)'
  BY DEF CodesInv
<1>0. CodesOf(u) /\ Announced(u) /\ WasALetter(u)
  BY DEF CodesInv, CodesOf
<1>o. PICK o \in Owners : Owned(o)
  BY DEF Ownership
<1>1. CASE PassAside
  <2>1. Untouched(u)
    BY <1>1, AsideUntouched
  <2>2. \A i : On(u, {"unset code", "unset link", "tell"}, i) =>
                 On(u, {"unset code", "unset link", "tell"}, i)'
    BY <2>1, OnUntouched DEF PassSteps
  <2>3. Announced(u)'
    BY <1>0, <1>1, <2>2, AnnouncedKept DEF PassAside
  <2> QED BY <1>0, <2>1, <2>3, CodesUntouched
<1>2. ASSUME NEW t \in Tasks, PasswordStep(t) PROVE CodesOf(u)'
  <2>1. Announced(u)' /\ WasALetter(u)'
    BY <1>0, <1>2, AnnouncedStep, LettersStep
  <2>2. CASE task[t].user # u
    BY <1>0, <1>2, <2>1, <2>2, UntouchedByOthers, CodesUntouched
  <2>3. CASE task[t].user = u
    <3>1. Excused /\ OthersStay(t) /\ task[t] # Idle
      BY <1>2, PasswordTakes, ExcusesGrow DEF PasswordStep, Onward, Over, Used
    <3>2. PICK n : n = task[t].id
      OBVIOUS
    <3>3. u \notin overlapped' =>
           \E y, x, k, m : /\ Lone(u, y, k) /\ Lone(u, x, m)'
                           /\ SpentAt(u, y, k) => SpentAt(u, x, m)'
                           /\ MailedAt(u, y, k) => MailedAt(u, x, m)'
      <4> SUFFICES ASSUME u \notin overlapped'
                   PROVE  \E y, x, k, m : /\ Lone(u, y, k) /\ Lone(u, x, m)'
                                          /\ SpentAt(u, y, k) => SpentAt(u, x, m)'
                                          /\ MailedAt(u, y, k) => MailedAt(u, x, m)'
        OBVIOUS
      <4>1. LoneWriter(t, u)
        BY <2>3, <3>1, AloneIfApart
      <4>2. CASE \/ SaveVerificationCode(t) \/ SaveChangePasswordToken(t) \/ UpdatePassword(t)
                 \/ DeleteVerificationCode(t) \/ DeleteChangePasswordToken(t)
        BY <1>o, <2>3, <3>2, <4>1, <4>2, LoneSets
      <4>3. CASE \/ PublishForgotPassword(t) \/ PublishChangePasswordRequest(t)
                 \/ PublishPasswordChanged(t)
        BY <1>o, <2>3, <3>2, <4>1, <4>3, LonePublishes
      <4> QED BY <1>2, <4>2, <4>3 DEF PasswordStep
    <3> QED BY <1>0, <2>1, <3>1, <3>3, CodesLone
  <2> QED BY <2>2, <2>3
<1>3. ASSUME NEW t \in Tasks, Throws(t) PROVE CodesOf(u)'
  <2>1. Announced(u)'
    BY <1>0, <1>3, AnnouncedThrow
  <2>2. CASE task[t].user # u
    BY <1>0, <1>3, <2>1, <2>2, UntouchedByOthers, CodesUntouched
  <2>3. CASE task[t].user = u
    <3>1. u \in failed' /\ UNCHANGED <<mailed, letters>>
      BY <1>3, <2>3 DEF Throws, passVars
    <3> QED BY <1>0, <2>1, <3>1 DEF CodesOf, WasALetter
  <2> QED BY <2>2, <2>3
<1>4. ASSUME NEW t \in Tasks, NEW w \in Users,
             \/ ForgotPassword(t, w) \/ ResetPassword(t, w) \/ RequestPasswordChange(t, w)
             \/ \E i \in Ids : ConfirmPasswordChange(t, i, w)
      PROVE  CodesOf(u)'
  <2>1. PICK z, j, C, g : Begun(t, z, w, j, C, g)
    BY <1>4, CallTakes
  <2>2. Excused /\ UNCHANGED passVars
    BY <1>4, <2>1, ExcusesGrow DEF ForgotPassword, ResetPassword, RequestPasswordChange,
                                   ConfirmPasswordChange
  <2>3. Announced(u)' /\ WasALetter(u)'
    <3>1. \A i : On(u, {"unset code", "unset link", "tell"}, i) =>
                   On(u, {"unset code", "unset link", "tell"}, i)'
      BY <2>1, OnMoves
    <3>2. Announced(u)'
      BY <1>0, <2>2, <3>1, AnnouncedKept DEF passVars
    <3> QED BY <1>0, <2>2, <3>2 DEF WasALetter, passVars
  <2>4. CASE w # u
    <3>1. Untouched(u)
      BY <1>4, <2>4, UntouchedByOthers
    <3> QED BY <1>0, <2>3, <3>1, CodesUntouched
  <2>5. CASE w = u
    <3>1. u \notin overlapped' => LoneWriter(t, u)
      BY <2>1, <2>2, <2>5, AloneIfApart DEF Begun, Used
    <3>2. LoneWriter(t, u) =>
           \E y, x, k, m : /\ Lone(u, y, k) /\ Lone(u, x, m)'
                           /\ SpentAt(u, y, k) => SpentAt(u, x, m)'
                           /\ MailedAt(u, y, k) => MailedAt(u, x, m)'
      BY <1>4, <2>5, CodeCalls
    <3> QED BY <1>0, <2>2, <2>3, <3>1, <3>2, CodesLone
  <2> QED BY <2>4, <2>5
<1>5. ASSUME NEW w \in Users, CodeExpires(w) \/ \E i \in Ids : LinkExpires(i, w) PROVE CodesOf(u)'
  <2>1. /\ UNCHANGED <<task, letters, mailed, changes, told>> /\ Excused
        /\ \A s \in Tasks : \A S : Doing(s, u, S)' <=> Doing(s, u, S)
    BY <1>5 DEF CodeExpires, LinkExpires, Excused, excuses, Doing
  <2>2. Announced(u)'
    <3>1. \A i : On(u, {"unset code", "unset link", "tell"}, i) =>
                   On(u, {"unset code", "unset link", "tell"}, i)'
      BY <2>1 DEF On, Doing
    <3> QED BY <1>0, <2>1, <3>1, AnnouncedKept
  <2>3. CASE w # u \/ \E i \in Ids : LinkExpires(i, w)
    <3>1. Untouched(u)
      BY <1>5, <2>3, UntouchedByTime
    <3> QED BY <1>0, <2>2, <3>1, CodesUntouched
  <2>4. CASE CodeExpires(u)
    <3>1. u \in lapsed' /\ resetCode'[u] = None /\ None \notin Ids /\ UNCHANGED <<task, links>>
      BY <2>4 DEF CodeExpires, Typed, PassOK, None, Ids
    <3>2. Spent(u) => Spent(u)'
      <4>1. \A i : On(u, {"unset link"}, i)' <=> On(u, {"unset link"}, i)
        BY <2>1 DEF On, Doing
      <4>2. \A s \in Tasks : /\ Doing(s, u, {"set code", "set link"})' <=>
                                Doing(s, u, {"set code", "set link"})
                             /\ task'[s].id = task[s].id
        BY <2>1 DEF Doing
      <4> QED BY <2>1, <3>1, <4>1, <4>2 DEF Spent
    <3>3. UNCHANGED <<overlapped, failed>>
      BY <2>4 DEF CodeExpires
    <3> QED BY <1>0, <2>1, <2>2, <3>1, <3>2, <3>3 DEF CodesOf, WasALetter
  <2> QED BY <1>5, <2>3, <2>4
<1> QED BY <1>1, <1>2, <1>3, <1>4, <1>5, PassCases DEF PassMoves

\* In the beginning nothing was mailed.
LEMMA CodesBegin == Init => CodesInv
<1> SUFFICES ASSUME Init, NEW u \in Users PROVE CodesOf(u)
  BY DEF CodesInv
<1>1. \A t \in Tasks : \A S : ~Doing(t, u, S)
  BY DEF Init, Doing
<1> QED BY <1>1 DEF Init, CodesOf, Announced, WasALetter, Spent, Mailed

\* A code or a link that was mailed sets one password, works until it does, and what it sets
\* is announced (resetPassword, confirmPasswordChange), but for the excuses of the property:
\* for any number of users, of handlers at once, of codes and of links.
THEOREM PasswordCodes == Spec => []PasswordCodesHold
<1>1. Typed /\ CodesInv => PasswordCodesHold
  <2> SUFFICES ASSUME Typed, CodesInv PROVE PasswordCodesHold
    OBVIOUS
  <2>0. changes \in [Ids -> 0..2] /\ mailed \in [Users -> Ids \cup {None}]
    BY DEF Typed, PassOK
  <2>1. OneChangePerCode
    <3> SUFFICES ASSUME NEW u \in Users, NEW i \in Ids, <<i, u>> \in letters,
                        u \notin overlapped \cup failed
                 PROVE  changes[i] <= 1
      BY DEF OneChangePerCode
    <3>1. changes[i] \in {0, 1}
      BY DEF CodesInv, CodesOf, Spent
    <3> QED BY <3>1
  <2>2. MailedCodeWorks
    <3> SUFFICES ASSUME NEW u \in Users, mailed[u] # None, Working(u) = {},
                        resetCode[u] # mailed[u], u \notin overlapped \cup failed \cup lapsed
                 PROVE  changes[mailed[u]] > 0
      BY DEF MailedCodeWorks
    <3>1. changes[mailed[u]] # 0
      BY DEF CodesInv, CodesOf, Mailed, Doing, Working
    <3>2. changes[mailed[u]] \in 0..2
      BY <2>0
    <3> QED BY <3>1, <3>2
  <2>3. ChangesAreTold
    <3> SUFFICES ASSUME NEW u \in Users, NEW i \in Ids, <<i, u>> \in letters, changes[i] > 0,
                        i \notin told, u \notin failed
                 PROVE  At(u, Resetting \cup Changing \cup {"tell"})
      BY DEF ChangesAreTold
    <3>1. changes[i] # 0
      OBVIOUS
    <3>2. On(u, {"unset code", "unset link", "tell"}, i)
      BY <3>1 DEF CodesInv, CodesOf, Announced
    <3> QED BY <3>2 DEF On, Doing, At, Working, Resetting, Changing
  <2> QED BY <2>1, <2>2, <2>3 DEF PasswordCodesHold
<1> DEFINE All == Typed /\ Apart /\ Ownership /\ Novelty /\ CodesInv
<1>2. Init => All
  BY TypedBegin, ApartBegin, OwnershipBegin, NoveltyBegin, CodesBegin
<1>3. All /\ [Next]_vars => All'
  BY TypedStep, ApartStep, OwnershipStep, NoveltyStep, CodesStep
<1>4. All => PasswordCodesHold
  BY <1>1
<1> HIDE DEF All
<1> QED BY <1>2, <1>3, <1>4, PTL DEF Spec

-------------------------------------------------------------------------------
(* Two-factor authentication: SecondFactorHolds.                             *)

\* The secret of a row that is enabled was proved, and so is the one a handler is about
\* to enable; the backup codes came with it.
Shown(u) ==
  /\ \A c \in twoFA[u].codes : c[1] = twoFA[u].secret
  /\ twoFA[u].enabled = "yes" => twoFA[u].secret \in proved
  /\ \A t \in Tasks : Doing(t, u, {"burn", "burn first"}) =>
                        \A c \in task[t].codes : c[1] = twoFA[u].secret
  /\ \A t \in Tasks : Doing(t, u, {"burn", "burn first", "enable"}) =>
                        task[t].id = twoFA[u].secret /\ task[t].id \in proved
\* A backup code that was accepted is gone, or its handler is about to take it out.
Burned(u) ==
  /\ \A c \in Codes : c[1] = twoFA[u].secret =>
       /\ burnt[c] \in {0, 1}
       /\ burnt[c] # 0 /\ c \in twoFA[u].codes =>
            \E t \in Tasks : Doing(t, u, {"burn", "burn first"})
  /\ \A t \in Tasks : Doing(t, u, {"burn", "burn first"}) => \A c \in task[t].codes : burnt[c] = 0
SecondOf(u) == /\ u \notin overlapped => Shown(u)
               /\ u \notin overlapped \cup failed => Burned(u)
SecondInv == \A u \in Users : SecondOf(u)

-------------------------------------------------------------------------------
(* Steps of others.                                                          *)

Secrets(u, c) == \/ c[1] = twoFA[u].secret
                 \/ \E t \in Tasks : Doing(t, u, TwoFASteps) /\ c \in task[t].codes
Unmoved(u) ==
  /\ Excused
  /\ twoFA'[u] = twoFA[u] /\ proved \subseteq proved'
  /\ \A c \in Codes : Secrets(u, c) => burnt'[c] = burnt[c]
  /\ \A s \in Tasks, S \in SUBSET TwoFASteps :
       /\ Doing(s, u, S)' <=> Doing(s, u, S)
       /\ Doing(s, u, S) => task'[s].id = task[s].id /\ task'[s].codes = task[s].codes

\* Who is unmoved keeps the invariant.
LEMMA UnmovedKept ==
  ASSUME Typed, NEW u \in Users, Unmoved(u)
  PROVE  /\ Shown(u) => Shown(u)'
         /\ Burned(u) => Burned(u)'
<1>1. \A s \in Tasks :
        /\ Doing(s, u, {"burn", "burn first"})' <=> Doing(s, u, {"burn", "burn first"})
        /\ Doing(s, u, {"burn", "burn first"}) => task'[s].codes = task[s].codes
  BY DEF Unmoved, TwoFASteps
<1>2. \A s \in Tasks :
        /\ Doing(s, u, {"burn", "burn first", "enable"})' <=> Doing(s, u, {"burn", "burn first", "enable"})
        /\ Doing(s, u, {"burn", "burn first", "enable"}) => task'[s].id = task[s].id
  BY DEF Unmoved, TwoFASteps
<1>3. twoFA'[u] = twoFA[u] /\ proved \subseteq proved'
  BY DEF Unmoved
<1>4. Shown(u) => Shown(u)'
  BY <1>1, <1>2, <1>3 DEF Shown
<1>5. \A c \in Codes : c[1] = twoFA[u].secret => burnt'[c] = burnt[c]
  BY DEF Unmoved, Secrets
<1>6. ASSUME NEW t \in Tasks, Doing(t, u, {"burn", "burn first"}), NEW c \in task[t].codes
      PROVE  burnt'[c] = burnt[c]
  <2>1. task[t].codes \subseteq Codes
    BY <1>6, Knows DEF Doing, Used
  <2>2. Doing(t, u, TwoFASteps)
    BY <1>6 DEF Doing, TwoFASteps
  <2> QED BY <1>6, <2>1, <2>2 DEF Unmoved, Secrets
<1>7. Burned(u) => Burned(u)'
  BY <1>1, <1>3, <1>5, <1>6 DEF Burned
<1> QED BY <1>4, <1>7

\* Registration, codes and links move nobody's second factor.
LEMMA AsideUnmoved ==
  ASSUME Typed, TwoFAAside, NEW u \in Users
  PROVE  Unmoved(u)
<1>1. ASSUME NEW s \in Tasks, NEW S \in SUBSET TwoFASteps
      PROVE  /\ Doing(s, u, S)' <=> Doing(s, u, S)
             /\ Doing(s, u, S) => task'[s].id = task[s].id /\ task'[s].codes = task[s].codes
  BY DEF TwoFAAside, Aside, Doing
<1> QED BY <1>1 DEF Unmoved, TwoFAAside, twoFAVars

\* The handlers of others keep the backup codes of this user's.
LEMMA OthersCodes ==
  ASSUME Typed, NEW t \in Tasks, NEW u \in Users,
         \/ (Over(t) \/ \E x : Onward(t, x)) /\ task[t].user # u
         \/ \E x, w, i, C, g : Begun(t, x, w, i, C, g) /\ w # u
  PROVE  \A s \in Tasks : \A S : Doing(s, u, S) => task'[s].codes = task[s].codes
<1>1. /\ \A s \in Tasks \ {t} : task'[s] = task[s]
      /\ task[t] # Idle => task[t].user # u
  BY DEF Over, Onward, Begun, OthersStay, Used
<1> QED BY <1>1 DEF Doing

\* Nor do the handlers and calls of other users.
LEMMA UnmovedByOthers ==
  ASSUME Typed, Ownership, NEW u \in Users, NEW t \in Tasks,
         \/ (TwoFAStep(t) \/ Throws(t)) /\ task[t].user # u
         \/ \E w \in Users \ {u} : \/ Setup2FA(t, w) \/ Verify2FA(t, w)
                                   \/ \E c \in Codes : VerifyBackupCode(t, w, c)
  PROVE  Unmoved(u)
<1>0. PICK o \in Owners : Owned(o)
  BY DEF Ownership
<1>1. CASE TwoFAStep(t) /\ task[t].user # u
  <2>1. (Over(t) \/ \E x : Onward(t, x)) /\ Quiet
    BY <1>1, TwoFATakes DEF TwoFAStep
  <2>2. Excused /\ \A s \in Tasks : \A S : /\ Doing(s, u, S)' <=> Doing(s, u, S)
                                           /\ Doing(s, u, S) => task'[s].id = task[s].id
                                           /\ Doing(s, u, S) => task'[s].codes = task[s].codes
    BY <1>1, <2>1, OthersDoing, OthersCodes, ExcusesGrow
  <2>3. twoFA'[u] = twoFA[u] /\ UNCHANGED <<proved, burnt>>
    BY <1>1 DEF TwoFAStep, Delete2FA, Create2FA, BurnBackupCode, Enable2FA, Publish2faEnabled,
                twoFAVars, Typed, TwoFAOK
  <2> QED BY <2>2, <2>3 DEF Unmoved
<1>2. CASE Throws(t) /\ task[t].user # u
  <2>1. Over(t) /\ Excused /\ UNCHANGED twoFAVars
    BY <1>2, ThrowTakes DEF Throws, Excused
  <2>2. \A s \in Tasks : \A S : /\ Doing(s, u, S)' <=> Doing(s, u, S)
                                /\ Doing(s, u, S) => task'[s].id = task[s].id
                                /\ Doing(s, u, S) => task'[s].codes = task[s].codes
    BY <1>2, <2>1, OthersDoing, OthersCodes
  <2> QED BY <2>1, <2>2 DEF Unmoved, twoFAVars
<1>3. ASSUME NEW w \in Users, w # u,
             \/ Setup2FA(t, w) \/ Verify2FA(t, w) \/ \E c \in Codes : VerifyBackupCode(t, w, c)
      PROVE  Unmoved(u)
  <2>1. \E x, i, C, g : Begun(t, x, w, i, C, g)
    BY <1>3, CallTakes
  <2>2. Excused /\ \A s \in Tasks : \A S : /\ Doing(s, u, S)' <=> Doing(s, u, S)
                                           /\ Doing(s, u, S) => task'[s].id = task[s].id
                                           /\ Doing(s, u, S) => task'[s].codes = task[s].codes
    BY <1>3, <2>1, OthersDoing, OthersCodes, ExcusesGrow
  <2>3. UNCHANGED twoFA /\ proved \subseteq proved'
    BY <1>3 DEF Setup2FA, Verify2FA, VerifyBackupCode, twoFAVars
  <2>4. ASSUME NEW d \in Codes, Secrets(u, d) PROVE burnt'[d] = burnt[d]
    <3>1. CASE Setup2FA(t, w) \/ Verify2FA(t, w)
      BY <3>1 DEF Setup2FA, Verify2FA, twoFAVars
    <3>2. ASSUME NEW c \in Codes, VerifyBackupCode(t, w, c) PROVE burnt'[d] = burnt[d]
      <4>1. burnt' = [burnt EXCEPT ![c] = More(@)] /\ c \in twoFA[w].codes
        BY <3>2 DEF VerifyBackupCode
      <4>2. OwnedTasks(o) /\ OwnedTwoFA(o)
        BY <1>0 DEF Owned
      <4>3. o[c[1]] = <<w, "secret">>
        BY <4>1, <4>2 DEF OwnedTwoFA, Of
      <4>4. o[d[1]] = <<u, "secret">>
        <5>1. CASE d[1] = twoFA[u].secret
          <6>1. twoFA[u] # NoRow
            BY <5>1 DEF NoRow, Codes, Ids, None
          <6> QED BY <4>2, <5>1, <6>1 DEF OwnedTwoFA, Of
        <5>2. CASE \E s \in Tasks : Doing(s, u, TwoFASteps) /\ d \in task[s].codes
          BY <4>2, <5>2 DEF OwnedTasks, TaskOf, Of, Doing
        <5> QED BY <2>4, <5>1, <5>2 DEF Secrets
      <4>5. c # d
        BY <1>3, <4>3, <4>4
      <4> QED BY <4>1, <4>5 DEF Typed, TwoFAOK
    <3> QED BY <1>3, <3>1, <3>2
  <2> QED BY <2>2, <2>3, <2>4 DEF Unmoved
<1> QED BY <1>1, <1>2, <1>3

-------------------------------------------------------------------------------
(* Steps of the only handler of a user.                                      *)

Sole(u, x, n, C) ==
  /\ Lone(u, x, n)
  /\ \A s \in Tasks : task[s] # Idle /\ task[s].user = u => task[s].codes = C

ShownAt(u, x, n, C) ==
  /\ \A c \in twoFA[u].codes : c[1] = twoFA[u].secret
  /\ twoFA[u].enabled = "yes" => twoFA[u].secret \in proved
  /\ x \in {"burn", "burn first"} => \A c \in C : c[1] = twoFA[u].secret
  /\ x \in {"burn", "burn first", "enable"} => n = twoFA[u].secret /\ n \in proved
BurnedAt(u, x, C) ==
  /\ \A c \in Codes : c[1] = twoFA[u].secret =>
       /\ burnt[c] \in {0, 1}
       /\ burnt[c] # 0 /\ c \in twoFA[u].codes => x \in {"burn", "burn first"}
  /\ x \in {"burn", "burn first"} => \A c \in C : burnt[c] = 0

\* The only handler of a user goes on, or ends,
LEMMA SoleMoves ==
  ASSUME NEW t \in Tasks, NEW u, task[t].user = u, LoneWriter(t, u),
         NEW y, NEW n, NEW C, task[t].at = y, task[t].id = n, task[t].codes = C
  PROVE  /\ \A x : Onward(t, x) => Sole(u, y, n, C) /\ Sole(u, x, n, C)'
         /\ Over(t) => Sole(u, y, n, C) /\ Sole(u, "idle", None, {})'
<1>1. \A s \in Tasks : task[s] # Idle /\ task[s].user = u => task[s].codes = C
  BY DEF LoneWriter
<1>2. ASSUME NEW x, Onward(t, x)
      PROVE  \A s \in Tasks : task'[s] # Idle /\ task'[s].user = u => task'[s].codes = C
  BY <1>2 DEF Onward, OthersStay, LoneWriter
<1>3. ASSUME Over(t)
      PROVE  \A s \in Tasks : task'[s] # Idle /\ task'[s].user = u => task'[s].codes = {}
  BY <1>3 DEF Over, OthersStay, LoneWriter
<1> QED BY <1>1, <1>2, <1>3, LoneMoves DEF Sole

\* or begins.
LEMMA SoleBegun ==
  ASSUME NEW t \in Tasks, NEW x, NEW u, NEW j, NEW C, NEW g, Begun(t, x, u, j, C, g), LoneWriter(t, u)
  PROVE  Sole(u, "idle", None, {}) /\ Sole(u, x, j, C)'
<1>1. \A s \in Tasks : task[s] # Idle /\ task[s].user = u => task[s].codes = {}
  BY DEF Begun, LoneWriter
<1>2. \A s \in Tasks : task'[s] # Idle /\ task'[s].user = u => task'[s].codes = C
  BY DEF Begun, OthersStay, LoneWriter
<1> QED BY <1>1, <1>2, LoneBegun DEF Sole

\* For a user with one handler, the invariant is about its step
LEMMA SecondSole ==
  ASSUME NEW u, NEW x, NEW n, NEW C, Sole(u, x, n, C)
  PROVE  /\ Shown(u) => ShownAt(u, x, n, C)
         /\ Burned(u) => BurnedAt(u, x, C)
<1>1. /\ x \in {"burn", "burn first"} =>
           \E s \in Tasks : Doing(s, u, {"burn", "burn first"}) /\ task[s].codes = C
      /\ \A s \in Tasks : Doing(s, u, {"burn", "burn first"}) => x \in {"burn", "burn first"}
  BY DEF Sole, Lone, Doing
<1>2. x \in {"burn", "burn first", "enable"} =>
        \E s \in Tasks : Doing(s, u, {"burn", "burn first", "enable"}) /\ task[s].id = n
  BY DEF Sole, Lone, Doing
<1>3. Shown(u) => ShownAt(u, x, n, C)
  BY <1>1, <1>2 DEF Shown, ShownAt
<1>4. Burned(u) => BurnedAt(u, x, C)
  BY <1>1 DEF Burned, BurnedAt
<1> QED BY <1>3, <1>4

\* and about the step after.
LEMMA SecondSoleNext ==
  ASSUME NEW u, NEW x, NEW n, NEW C, Sole(u, x, n, C)'
  PROVE  /\ ShownAt(u, x, n, C)' => Shown(u)'
         /\ BurnedAt(u, x, C)' => Burned(u)'
<1>1. /\ \A s \in Tasks : Doing(s, u, {"burn", "burn first"})' =>
                            x \in {"burn", "burn first"} /\ task'[s].codes = C
      /\ x \in {"burn", "burn first"} => \E s \in Tasks : Doing(s, u, {"burn", "burn first"})'
  BY DEF Sole, Lone, Doing
<1>2. \A s \in Tasks : Doing(s, u, {"burn", "burn first", "enable"})' =>
                         x \in {"burn", "burn first", "enable"} /\ task'[s].id = n
  BY DEF Sole, Lone, Doing
<1>3. ShownAt(u, x, n, C)' => Shown(u)'
  BY <1>1, <1>2 DEF Shown, ShownAt
<1>4. BurnedAt(u, x, C)' => Burned(u)'
  BY <1>1 DEF Burned, BurnedAt
<1> QED BY <1>3, <1>4

\* The five steps: a row is enabled with the secret that was proved, and a burnt code is gone.
LEMMA SecondSteps ==
  ASSUME Typed, Novelty, NEW u \in Users, NEW t \in Tasks, task[t].user = u, TwoFAStep(t),
         NEW n, NEW C, task[t].id = n, task[t].codes = C, LoneWriter(t, u)
  PROVE  \E y, x, m, D : /\ Sole(u, y, n, C) /\ Sole(u, x, m, D)'
                         /\ ShownAt(u, y, n, C) => ShownAt(u, x, m, D)'
                         /\ BurnedAt(u, y, C) => BurnedAt(u, x, D)'
<1>0. twoFA[u] \in TwoFA /\ twoFA \in [Users -> TwoFA] /\ UNCHANGED <<proved, burnt>>
  BY DEF Typed, TwoFAOK, TwoFAStep, Delete2FA, Create2FA, BurnBackupCode, Enable2FA,
         Publish2faEnabled, twoFAVars
<1>1. CASE Delete2FA(t)
  <2>1. task[t].at = "delete" /\ Onward(t, "create")
    BY <1>1, TwoFATakes
  <2>2. twoFA'[u].codes = {} /\ twoFA'[u].secret = None /\ twoFA'[u].enabled = "no"
    BY <1>0, <1>1 DEF Delete2FA, NoRow
  <2>3. \A c \in Codes : c[1] # None
    BY DEF Codes, Ids, None
  <2>4. ShownAt(u, "create", n, C)'
    BY <2>2 DEF ShownAt
  <2>5. BurnedAt(u, "create", C)'
    BY <2>2, <2>3 DEF BurnedAt
  <2> QED BY <2>1, <2>4, <2>5, SoleMoves
<1>2. CASE Create2FA(t)
  <2>1. task[t].at = "create" /\ Over(t)
    BY <1>2, TwoFATakes
  <2>2. CASE UNCHANGED twoFA
    <3>1. ShownAt(u, "create", n, C) => ShownAt(u, "idle", None, {})'
      BY <1>0, <2>2 DEF ShownAt
    <3>2. BurnedAt(u, "create", C) => BurnedAt(u, "idle", {})'
      BY <1>0, <2>2 DEF BurnedAt
    <3> QED BY <2>1, <3>1, <3>2, SoleMoves
  <2>3. CASE ~UNCHANGED twoFA
    <3>1. n \in Ids /\ UnusedTwoFA(n)
      <4>1. task[t].at \in Steps \ (Registering \cup Verifying)
        BY <2>1, StepsAre
      <4>2. n \in Ids
        BY <4>1, HasNumber
      <4> QED BY <2>1, <4>2 DEF Novelty, Newly, Novel, Over, Used
    <3>2. twoFA'[u].secret = n /\ twoFA'[u].codes = {n} \X BackupCodes /\ twoFA'[u].enabled = "no"
      BY <1>0, <1>2, <2>3 DEF Create2FA, Row
    <3>3. \A c \in Codes : c[1] = n => burnt[c] = 0
      <4>1. ASSUME NEW c \in Codes, c[1] = n PROVE burnt[c] = 0
        <5>1. PICK b \in BackupCodes : c = <<n, b>>
          BY <4>1 DEF Codes
        <5> QED BY <3>1, <5>1 DEF UnusedTwoFA
      <4> QED BY <4>1
    <3>4. \A c \in {n} \X BackupCodes : c[1] = n
      OBVIOUS
    <3>5. ShownAt(u, "idle", None, {})'
      BY <3>2, <3>4 DEF ShownAt
    <3>6. BurnedAt(u, "idle", {})'
      BY <1>0, <3>2, <3>3 DEF BurnedAt
    <3> QED BY <2>1, <3>5, <3>6, SoleMoves
  <2> QED BY <2>2, <2>3
<1>3. CASE BurnBackupCode(t)
  <2>1. \/ task[t].at = "burn first" /\ Onward(t, "enable")
        \/ task[t].at = "burn" /\ Over(t)
    BY <1>3, TwoFATakes
  <2>2. /\ twoFA'[u].secret = twoFA[u].secret /\ twoFA'[u].enabled = twoFA[u].enabled
        /\ twoFA'[u].codes = C \/ (twoFA[u] = NoRow /\ twoFA'[u] = NoRow)
    <3> DEFINE r == [twoFA[u] EXCEPT !.codes = C]
    <3>1. r.secret = twoFA[u].secret /\ r.enabled = twoFA[u].enabled /\ r.codes = C
      BY <1>0 DEF TwoFA
    <3>2. twoFA' = IF twoFA[u] = NoRow THEN twoFA ELSE [twoFA EXCEPT ![u] = r]
      BY <1>3 DEF BurnBackupCode
    <3> HIDE DEF r
    <3> QED BY <1>0, <3>1, <3>2
  <2>3. NoRow.codes = {}
    BY DEF NoRow
  <2>4. ASSUME NEW y \in {"burn", "burn first"}, NEW x, NEW m, NEW D,
               (x = "enable" /\ m = n) \/ x = "idle", ShownAt(u, y, n, C)
        PROVE  ShownAt(u, x, m, D)'
    BY <1>0, <2>2, <2>3, <2>4 DEF ShownAt
  <2>5. ASSUME NEW y \in {"burn", "burn first"}, NEW x, NEW D,
               x = "enable" \/ x = "idle", BurnedAt(u, y, C)
        PROVE  BurnedAt(u, x, D)'
    BY <1>0, <2>2, <2>3, <2>5 DEF BurnedAt
  <2>6. CASE task[t].at = "burn first" /\ Onward(t, "enable")
    <3>1. Sole(u, "burn first", n, C) /\ Sole(u, "enable", n, C)'
      BY <2>6, SoleMoves
    <3>2. /\ ShownAt(u, "burn first", n, C) => ShownAt(u, "enable", n, C)'
          /\ BurnedAt(u, "burn first", C) => BurnedAt(u, "enable", C)'
      BY <2>4, <2>5
    <3> QED BY <3>1, <3>2
  <2>7. CASE task[t].at = "burn" /\ Over(t)
    <3>1. Sole(u, "burn", n, C) /\ Sole(u, "idle", None, {})'
      BY <2>7, SoleMoves
    <3>2. /\ ShownAt(u, "burn", n, C) => ShownAt(u, "idle", None, {})'
          /\ BurnedAt(u, "burn", C) => BurnedAt(u, "idle", {})'
      BY <2>4, <2>5
    <3> QED BY <3>1, <3>2
  <2> QED BY <2>1, <2>6, <2>7
<1>4. CASE Enable2FA(t)
  <2>1. task[t].at = "enable" /\ Onward(t, "tell enabled")
    BY <1>4, TwoFATakes
  <2>2. twoFA'[u].secret = twoFA[u].secret /\ twoFA'[u].codes = twoFA[u].codes
    <3> DEFINE r == [twoFA[u] EXCEPT !.enabled = "yes"]
    <3>1. r.secret = twoFA[u].secret /\ r.codes = twoFA[u].codes
      BY <1>0 DEF TwoFA
    <3>2. twoFA' = IF twoFA[u] = NoRow THEN twoFA ELSE [twoFA EXCEPT ![u] = r]
      BY <1>4 DEF Enable2FA
    <3> HIDE DEF r
    <3> QED BY <1>0, <3>1, <3>2
  <2>3. ShownAt(u, "enable", n, C) => ShownAt(u, "tell enabled", n, C)'
    BY <1>0, <2>2 DEF ShownAt
  <2>4. BurnedAt(u, "enable", C) => BurnedAt(u, "tell enabled", C)'
    BY <1>0, <2>2 DEF BurnedAt
  <2>5. Sole(u, "enable", n, C) /\ Sole(u, "tell enabled", n, C)'
    BY <2>1, SoleMoves
  <2> QED BY <2>3, <2>4, <2>5
<1>5. CASE Publish2faEnabled(t)
  <2>1. task[t].at = "tell enabled" /\ Over(t) /\ UNCHANGED twoFA
    BY <1>5, TwoFATakes DEF Publish2faEnabled, twoFAVars
  <2>2. ShownAt(u, "tell enabled", n, C) => ShownAt(u, "idle", None, {})'
    BY <1>0, <2>1 DEF ShownAt
  <2>3. BurnedAt(u, "tell enabled", C) => BurnedAt(u, "idle", {})'
    BY <1>0, <2>1 DEF BurnedAt
  <2> QED BY <2>1, <2>2, <2>3, SoleMoves
<1> QED BY <1>1, <1>2, <1>3, <1>4, <1>5 DEF TwoFAStep

\* The three calls: a code is burnt when it is in the row, and is off the list to be stored.
LEMMA SecondCalls ==
  ASSUME Typed, NEW u \in Users, NEW t \in Tasks, LoneWriter(t, u),
         Setup2FA(t, u) \/ Verify2FA(t, u) \/ \E c \in Codes : VerifyBackupCode(t, u, c)
  PROVE  \E x, n, C : /\ Sole(u, "idle", None, {}) /\ Sole(u, x, n, C)'
                      /\ ShownAt(u, "idle", None, {}) => ShownAt(u, x, n, C)'
                      /\ ShownAt(u, "idle", None, {}) /\ BurnedAt(u, "idle", {}) => BurnedAt(u, x, C)'
<1>0. UNCHANGED twoFA
  BY DEF Setup2FA, Verify2FA, VerifyBackupCode, twoFAVars
<1>1. CASE Setup2FA(t, u)
  <2>0. PICK n : n = drawn + 1
    OBVIOUS
  <2>1. PICK x \in {"create", "delete"} : Begun(t, x, u, n, {}, "clean")
    BY <1>1, <2>0, CallTakes
  <2>2. UNCHANGED <<proved, burnt>>
    BY <1>1 DEF Setup2FA, twoFAVars
  <2>3. ShownAt(u, "idle", None, {}) => ShownAt(u, x, n, {})'
    BY <1>0, <2>1, <2>2 DEF ShownAt
  <2>4. BurnedAt(u, "idle", {}) => BurnedAt(u, x, {})'
    BY <1>0, <2>1, <2>2 DEF BurnedAt
  <2> QED BY <2>1, <2>3, <2>4, SoleBegun
<1>2. CASE Verify2FA(t, u)
  <2>0. PICK n : n = twoFA[u].secret
    OBVIOUS
  <2>1. Begun(t, "enable", u, n, {}, "clean")
    BY <1>2, <2>0, CallTakes
  <2>2. proved' = proved \cup {n} /\ UNCHANGED burnt
    BY <1>2, <2>0 DEF Verify2FA
  <2>3. ShownAt(u, "idle", None, {}) => ShownAt(u, "enable", n, {})'
    BY <1>0, <2>0, <2>2 DEF ShownAt
  <2>4. BurnedAt(u, "idle", {}) => BurnedAt(u, "enable", {})'
    BY <1>0, <2>2 DEF BurnedAt
  <2> QED BY <2>1, <2>3, <2>4, SoleBegun
<1>3. ASSUME NEW c \in Codes, VerifyBackupCode(t, u, c)
      PROVE  \E x, n, C :
               /\ Sole(u, "idle", None, {}) /\ Sole(u, x, n, C)'
               /\ ShownAt(u, "idle", None, {}) => ShownAt(u, x, n, C)'
               /\ ShownAt(u, "idle", None, {}) /\ BurnedAt(u, "idle", {}) => BurnedAt(u, x, C)'
  <2>0. PICK n, C : n = twoFA[u].secret /\ C = twoFA[u].codes \ {c}
    OBVIOUS
  <2>1. PICK x \in {"burn", "burn first"} : Begun(t, x, u, n, C, "clean")
    BY <1>3, <2>0, CallTakes
  <2>2. /\ proved' = proved \cup {n} /\ burnt' = [burnt EXCEPT ![c] = More(@)]
        /\ c \in twoFA[u].codes /\ twoFA[u].codes \subseteq Codes
    BY <1>3, <2>0, RowOf DEF VerifyBackupCode
  <2>3. ShownAt(u, "idle", None, {}) => ShownAt(u, x, n, C)'
    BY <1>0, <2>0, <2>2 DEF ShownAt
  <2>4. ASSUME ShownAt(u, "idle", None, {}), BurnedAt(u, "idle", {}) PROVE BurnedAt(u, x, C)'
    <3>1. \A d \in Codes \ {c} : burnt'[d] = burnt[d]
      BY <2>2 DEF Typed, TwoFAOK
    <3>2. \A d \in twoFA[u].codes : d[1] = twoFA[u].secret
      BY <2>4 DEF ShownAt
    <3>3. \A d \in twoFA[u].codes : burnt[d] = 0
      BY <2>2, <2>4, <3>2 DEF BurnedAt
    <3>4. burnt'[c] = 1
      <4>1. burnt \in [Codes -> 0..2] /\ burnt[c] = 0
        BY <2>2, <3>3 DEF Typed, TwoFAOK
      <4> QED BY <2>2, <4>1, MoreIs
    <3>5. \A d \in C : d \in Codes /\ d # c /\ burnt[d] = 0
      BY <2>0, <2>2, <3>3
    <3>6. \A d \in C : burnt'[d] = 0
      BY <3>1, <3>5
    <3>7. \A d \in Codes : d[1] = twoFA'[u].secret => burnt'[d] \in {0, 1}
      BY <1>0, <2>4, <3>1, <3>4 DEF BurnedAt
    <3> QED BY <2>1, <3>6, <3>7 DEF BurnedAt
  <2> QED BY <2>1, <2>3, <2>4, SoleBegun
<1> QED BY <1>1, <1>2, <1>3

-------------------------------------------------------------------------------

\* An unmoved user keeps the invariant.
LEMMA SecondUnmoved ==
  ASSUME Typed, NEW u \in Users, SecondOf(u), Unmoved(u)
  PROVE  SecondOf(u)'
<1>1. overlapped \subseteq overlapped' /\ failed \subseteq failed'
  BY DEF Unmoved, Excused
<1> QED BY <1>1, UnmovedKept DEF SecondOf

\* So does one whose only handler keeps it.
LEMMA SecondLone ==
  ASSUME Typed, NEW u \in Users, SecondOf(u), Excused,
         u \notin overlapped' =>
           \E y, x, n, m, C, D :
             /\ Sole(u, y, n, C) /\ Sole(u, x, m, D)'
             /\ ShownAt(u, y, n, C) => ShownAt(u, x, m, D)'
             /\ ShownAt(u, y, n, C) /\ BurnedAt(u, y, C) => BurnedAt(u, x, D)'
  PROVE  SecondOf(u)'
<1>1. overlapped \subseteq overlapped' /\ failed \subseteq failed'
  BY DEF Excused
<1>2. CASE u \in overlapped'
  BY <1>2 DEF SecondOf
<1>3. CASE u \notin overlapped'
  <2>1. PICK y, x, n, m, C, D :
             /\ Sole(u, y, n, C) /\ Sole(u, x, m, D)'
             /\ ShownAt(u, y, n, C) => ShownAt(u, x, m, D)'
             /\ ShownAt(u, y, n, C) /\ BurnedAt(u, y, C) => BurnedAt(u, x, D)'
    BY <1>3
  <2>2. ShownAt(u, y, n, C) /\ (u \notin failed => BurnedAt(u, y, C))
    BY <1>1, <1>3, <2>1, SecondSole DEF SecondOf
  <2>3. Shown(u)' /\ (u \notin failed => Burned(u)')
    BY <2>1, <2>2, SecondSoleNext
  <2> QED BY <1>1, <2>3 DEF SecondOf
<1> QED BY <1>2, <1>3

\* Every step keeps the invariant of every user.
LEMMA SecondStep ==
  ASSUME Typed, Ownership, Novelty, Apart, Apart', SecondInv, [Next]_vars
  PROVE  SecondInv'
<1> SUFFICES ASSUME NEW u \in Users PROVE SecondOf(u)'
  BY DEF SecondInv
<1>0. SecondOf(u)
  BY DEF SecondInv
<1>1. CASE TwoFAAside
  BY <1>0, <1>1, AsideUnmoved, SecondUnmoved
<1>2. ASSUME NEW t \in Tasks, TwoFAStep(t) PROVE SecondOf(u)'
  <2>1. CASE task[t].user # u
    BY <1>0, <1>2, <2>1, UnmovedByOthers, SecondUnmoved
  <2>2. CASE task[t].user = u
    <3>1. Excused /\ OthersStay(t) /\ task[t] # Idle
      BY <1>2, TwoFATakes, ExcusesGrow DEF TwoFAStep, Onward, Over, Used
    <3>2. u \notin overlapped' => LoneWriter(t, u)
      BY <2>2, <3>1, AloneIfApart
    <3>3. PICK n, C : n = task[t].id /\ C = task[t].codes
      OBVIOUS
    <3>4. LoneWriter(t, u) =>
            \E y, x, m, D : /\ Sole(u, y, n, C) /\ Sole(u, x, m, D)'
                            /\ ShownAt(u, y, n, C) => ShownAt(u, x, m, D)'
                            /\ BurnedAt(u, y, C) => BurnedAt(u, x, D)'
      BY <1>2, <2>2, <3>3, SecondSteps
    <3>5. u \notin overlapped' =>
           \E y, x, k, m, B, D :
             /\ Sole(u, y, k, B) /\ Sole(u, x, m, D)'
             /\ ShownAt(u, y, k, B) => ShownAt(u, x, m, D)'
             /\ ShownAt(u, y, k, B) /\ BurnedAt(u, y, B) => BurnedAt(u, x, D)'
      BY <3>2, <3>4
    <3> QED BY <1>0, <3>1, <3>5, SecondLone
  <2> QED BY <2>1, <2>2
<1>3. ASSUME NEW t \in Tasks, Throws(t) PROVE SecondOf(u)'
  <2>1. CASE task[t].user # u
    BY <1>0, <1>3, <2>1, UnmovedByOthers, SecondUnmoved
  <2>2. CASE task[t].user = u
    <3>1. u \in failed' /\ UNCHANGED <<twoFA, proved, overlapped>> /\ Over(t)
      BY <1>3, <2>2, ThrowTakes DEF Throws, twoFAVars
    <3>2. \A s \in Tasks : task'[s] # Idle => task'[s] = task[s]
      BY <3>1 DEF Over, OthersStay
    <3>3. \A s \in Tasks : \A S : Doing(s, u, S)' => Doing(s, u, S) /\ task'[s] = task[s]
      BY <3>2 DEF Doing
    <3>4. Shown(u) => Shown(u)'
      <4>1. /\ \A s \in Tasks : Doing(s, u, {"burn", "burn first"})' =>
                 Doing(s, u, {"burn", "burn first"}) /\ task'[s] = task[s]
            /\ \A s \in Tasks : Doing(s, u, {"burn", "burn first", "enable"})' =>
                 Doing(s, u, {"burn", "burn first", "enable"}) /\ task'[s] = task[s]
        BY <3>3
      <4> QED BY <3>1, <4>1 DEF Shown
    <3> QED BY <1>0, <3>1, <3>4 DEF SecondOf
  <2> QED BY <2>1, <2>2
<1>4. ASSUME NEW t \in Tasks, NEW w \in Users,
             Setup2FA(t, w) \/ Verify2FA(t, w) \/ \E c \in Codes : VerifyBackupCode(t, w, c)
      PROVE  SecondOf(u)'
  <2>1. CASE w # u
    <3>1. Unmoved(u)
      BY <1>4, <2>1, UnmovedByOthers
    <3> QED BY <1>0, <3>1, SecondUnmoved
  <2>2. CASE w = u
    <3>1. PICK x, j, C, g : Begun(t, x, u, j, C, g)
      BY <1>4, <2>2, CallTakes
    <3>2. Excused
      BY <3>1, ExcusesGrow
    <3>3. u \notin overlapped' => LoneWriter(t, u)
      BY <3>1, <3>2, AloneIfApart DEF Begun, Used
    <3>4. LoneWriter(t, u) =>
            \E z, n, D : /\ Sole(u, "idle", None, {}) /\ Sole(u, z, n, D)'
                         /\ ShownAt(u, "idle", None, {}) => ShownAt(u, z, n, D)'
                         /\ ShownAt(u, "idle", None, {}) /\ BurnedAt(u, "idle", {}) =>
                              BurnedAt(u, z, D)'
      BY <1>4, <2>2, SecondCalls
    <3> QED BY <1>0, <3>2, <3>3, <3>4, SecondLone
  <2> QED BY <2>1, <2>2
<1> QED BY <1>1, <1>2, <1>3, <1>4, TwoFACases DEF TwoFAMoves

\* In the beginning there are no rows.
LEMMA SecondBegin == Init => SecondInv
<1> SUFFICES ASSUME Init, NEW u \in Users PROVE SecondOf(u)
  BY DEF SecondInv
<1>1. \A t \in Tasks : \A S : ~Doing(t, u, S)
  BY DEF Init, Doing
<1>2. twoFA[u].codes = {} /\ twoFA[u].enabled = "no"
  BY DEF Init, NoRow
<1>3. Shown(u)
  BY <1>1, <1>2 DEF Shown
<1>4. Burned(u)
  BY <1>1, <1>2 DEF Init, Burned
<1> QED BY <1>3, <1>4 DEF SecondOf

\* A backup code signs in once and is gone for good afterwards, and 2FA is enabled only with
\* a secret that the user has proved to have (verify2FA, setup2FA), but for the excuses of the
\* property: for any number of users, of handlers at once and of secrets.
THEOREM SecondFactor == Spec => []SecondFactorHolds
<1>1. Typed /\ SecondInv => SecondFactorHolds
  <2> SUFFICES ASSUME Typed, SecondInv PROVE SecondFactorHolds
    OBVIOUS
  <2>1. BackupCodesBurn
    <3> SUFFICES ASSUME NEW u \in Users, NEW c \in Codes, u \notin overlapped \cup failed,
                        c[1] = twoFA[u].secret
                 PROVE  /\ burnt[c] <= 1
                        /\ burnt[c] = 1 => c \notin twoFA[u].codes \/ At(u, {"burn", "burn first"})
      BY DEF BackupCodesBurn
    <3>1. Burned(u)
      BY DEF SecondInv, SecondOf
    <3>2. burnt[c] \in {0, 1}
      BY <3>1 DEF Burned
    <3>4. burnt[c] <= 1 /\ (burnt[c] = 1 => burnt[c] # 0)
      BY <3>2
    <3>5. burnt[c] # 0 /\ c \in twoFA[u].codes =>
            \E t \in Tasks : Doing(t, u, {"burn", "burn first"})
      BY <3>1 DEF Burned
    <3>3. (\E t \in Tasks : Doing(t, u, {"burn", "burn first"})) => At(u, {"burn", "burn first"})
      BY DEF Doing, At, Working
    <3> QED BY <3>3, <3>4, <3>5
  <2>2. EnabledIsProved
    BY DEF SecondInv, SecondOf, Shown, EnabledIsProved
  <2> QED BY <2>1, <2>2 DEF SecondFactorHolds
<1> DEFINE All == Typed /\ Apart /\ Ownership /\ Novelty /\ SecondInv
<1>2. Init => All
  BY TypedBegin, ApartBegin, OwnershipBegin, NoveltyBegin, SecondBegin
<1>3. All /\ [Next]_vars => All'
  BY TypedStep, ApartStep, OwnershipStep, NoveltyStep, SecondStep
<1>4. All => SecondFactorHolds
  BY <1>1
<1> HIDE DEF All
<1> QED BY <1>2, <1>3, <1>4, PTL DEF Spec

-------------------------------------------------------------------------------
(* Profiles: types, and where a step takes its handler.                      *)

Renaming  == {"check", "write", "drop", "tell"}
Uploading == {"put", "remove", "point", "drop last"}
Looking   == {"read", "fill"}

Fields(c) == /\ c.at \in JobSteps /\ c.user \in Members /\ c.name \in Names \cup {NoName}
             /\ c.no \in Numbers /\ c.row \in ProfileRow
\* A rename has a name; what writes has a number, an upload a new one.
Equipped(c) ==
  /\ c.at \in Renaming => c.name \in Names
  /\ c.at \notin Looking => c.no # Default
  /\ c.at \in Uploading => c.no # c.row.avatar

RowsOK ==
  /\ login \in [Members -> Names \cup {NoName}]
  /\ profile \in [Members -> ProfileRow]
StoreOK  == shown \in [Members -> ProfileRow] /\ objects \subseteq Numbers \ {Default}
EventsOK == events \subseteq Event
MarksOK  == /\ synced \in [Members -> Numbers]
            /\ astray \subseteq Members /\ clashed \subseteq Members /\ botched \subseteq Members
JobsOK   == /\ job \in [Jobs -> Job \cup {NoJob}]
            /\ \A j \in Jobs : job[j] # NoJob => Equipped(job[j])
\* Numbers that are in use were drawn.
WasDrawn(k) == k \in 0..drawnNo
DrawnJobs  == \A j \in Jobs : job[j] # NoJob => WasDrawn(job[j].no) /\ WasDrawn(job[j].row.avatar)
DrawnElse  == /\ \A m \in Members : WasDrawn(profile[m].avatar) /\ WasDrawn(synced[m])
              /\ \A e \in events : WasDrawn(e.no)
Shaped ==
  /\ RowsOK /\ StoreOK /\ EventsOK /\ MarksOK /\ JobsOK
  /\ drawnNo \in Numbers /\ DrawnJobs /\ DrawnElse

OtherJobs(j) == /\ job' \in [Jobs -> Job \cup {NoJob}]
                /\ \A i \in Jobs \ {j} : job'[i] = job[i]
SameKind(x, y) == (x \in Renaming <=> y \in Renaming) /\ (x \in Uploading <=> y \in Uploading)
JobGoes(j, x) ==
  /\ SameKind(job[j].at, x) /\ OtherJobs(j) /\ job[j] # NoJob /\ job'[j] # NoJob /\ Fields(job[j]) /\ Equipped(job[j])
  /\ job'[j].at = x /\ job'[j].user = job[j].user /\ job'[j].name = job[j].name
  /\ job'[j].no = job[j].no /\ job'[j].row = job[j].row
JobOver(j) == OtherJobs(j) /\ job[j] # NoJob /\ job'[j] = NoJob /\ Fields(job[j]) /\ Equipped(job[j])
JobBegun(j, x, m, n, k) ==
  /\ OtherJobs(j) /\ job[j] = NoJob /\ job'[j] # NoJob
  /\ job'[j].at = x /\ job'[j].user = m /\ job'[j].name = n /\ job'[j].no = k
  /\ job'[j].row = profile[m]

\* A handler under way has all its fields.
LEMMA JobInUse ==
  ASSUME NEW c \in Job \cup {NoJob}
  PROVE  /\ c # NoJob <=> c \in Job
         /\ c # NoJob <=> c.at # "none"
         /\ c # NoJob => Fields(c)
<1>1. NoJob.at = "none" /\ "none" \notin JobSteps
  BY DEF NoJob, JobSteps
<1>2. ASSUME c \in Job PROVE Fields(c)
  BY <1>2 DEF Job, Fields
<1>3. Fields(c) => c.at \in JobSteps
  BY DEF Fields
<1>4. c \in Job => c # NoJob
  BY <1>1, <1>2, <1>3
<1> QED BY <1>1, <1>2, <1>3, <1>4

\* A handler that goes on keeps its fields.
LEMMA JobMoves ==
  ASSUME Shaped, NEW j \in Jobs, job[j].at \in JobSteps, NEW x \in JobSteps, Proceeds(j, x),
         SameKind(job[j].at, x)
  PROVE  JobGoes(j, x)
<1> DEFINE v == [job[j] EXCEPT !.at = x]
<1>0. "none" \notin JobSteps
  BY DEF JobSteps
<1>1. job \in [Jobs -> Job \cup {NoJob}] /\ job[j] \in Job \cup {NoJob}
  BY DEF Shaped, JobsOK
<1>2. job[j] \in Job /\ job[j] # NoJob /\ Fields(job[j]) /\ Equipped(job[j])
  BY <1>0, <1>1, JobInUse DEF Shaped, JobsOK
<1>3. /\ v \in Job /\ v.at = x /\ v.user = job[j].user /\ v.name = job[j].name
      /\ v.no = job[j].no /\ v.row = job[j].row
  BY <1>2 DEF Job
<1>4. job' = [job EXCEPT ![j] = v]
  BY DEF Proceeds
<1> HIDE DEF v
<1>5. v # NoJob
  BY <1>3, JobInUse
<1>6. job'[j] = v /\ OtherJobs(j)
  BY <1>1, <1>3, <1>4 DEF OtherJobs
<1> QED BY <1>2, <1>3, <1>5, <1>6 DEF JobGoes

\* A handler that ends leaves the others where they are.
LEMMA JobStops ==
  ASSUME Shaped, NEW j \in Jobs, job[j].at \in JobSteps \/ job[j] # NoJob, Finishes(j)
  PROVE  JobOver(j)
<1>0. "none" \notin JobSteps
  BY DEF JobSteps
<1>1. job \in [Jobs -> Job \cup {NoJob}] /\ job[j] \in Job \cup {NoJob}
  BY DEF Shaped, JobsOK
<1>2. job[j] # NoJob /\ Fields(job[j]) /\ Equipped(job[j])
  BY <1>0, <1>1, JobInUse DEF Shaped, JobsOK
<1>3. job' \in [Jobs -> Job \cup {NoJob}] /\ job'[j] = NoJob /\ OtherJobs(j)
  BY <1>1 DEF Finishes, OtherJobs
<1> QED BY <1>2, <1>3 DEF JobOver

\* A call takes a free handler.
LEMMA JobStarts ==
  ASSUME Shaped, NEW j \in Jobs, job[j] = NoJob, NEW x \in JobSteps, NEW m \in Members,
         NEW n \in Names \cup {NoName}, NEW k \in Numbers, Takes0(j, m, x, n, k)
  PROVE  JobBegun(j, x, m, n, k)
<1> DEFINE v == [at |-> x, user |-> m, name |-> n, no |-> k, row |-> profile[m]]
<1>1. job \in [Jobs -> Job \cup {NoJob}] /\ profile[m] \in ProfileRow
  BY DEF Shaped, RowsOK, JobsOK
<1>2. /\ v \in Job /\ v.at = x /\ v.user = m /\ v.name = n
      /\ v.no = k /\ v.row = profile[m]
  BY <1>1 DEF Job
<1>3. job' = [job EXCEPT ![j] = v]
  BY DEF Takes0
<1> HIDE DEF v
<1>4. v # NoJob
  BY <1>2, JobInUse
<1>5. job' \in [Jobs -> Job \cup {NoJob}] /\ job'[j] = v /\ OtherJobs(j)
  BY <1>1, <1>2, <1>3 DEF OtherJobs
<1> QED BY <1>2, <1>4, <1>5 DEF JobBegun

\* The steps are those of the three kinds of handlers.
LEMMA JobStepsAre == /\ JobSteps = Renaming \cup Uploading \cup Looking
                     /\ Renaming \cap Uploading = {} /\ Looking \cap (Renaming \cup Uploading) = {}
  BY DEF JobSteps, Renaming, Uploading, Looking

\* Rows.
LEMMA RowFields ==
  /\ \A r \in ProfileRow : r.name \in Names \cup {NoName} /\ r.avatar \in Numbers
  /\ NoProfile \in ProfileRow /\ NoProfile.name = NoName /\ NoProfile.avatar = Default
  /\ NoName \notin Names /\ Default \in Numbers
  /\ \A n \in Names : [name |-> n, avatar |-> Default] \in ProfileRow
  /\ \A r \in ProfileRow, n \in Names :
       [r EXCEPT !.name = n] \in ProfileRow /\ [r EXCEPT !.name = n].avatar = r.avatar
                                            /\ [r EXCEPT !.name = n].name = n
  /\ \A r \in ProfileRow, k \in Numbers :
       [r EXCEPT !.avatar = k] \in ProfileRow /\ [r EXCEPT !.avatar = k].name = r.name
                                              /\ [r EXCEPT !.avatar = k].avatar = k
  BY ProfilesAssumption DEF ProfileRow, NoProfile, ProfilesAssumption, Numbers, Default

\* A view holds the row it has just read.
JobRereads(j) ==
  /\ OtherJobs(j) /\ job[j] # NoJob /\ job'[j] # NoJob /\ Fields(job[j]) /\ Equipped(job[j])
  /\ job[j].at = "read" /\ job'[j].at = "fill" /\ job'[j].user = job[j].user /\ job'[j].name = job[j].name
  /\ job'[j].no = job[j].no /\ job'[j].row = profile[job[j].user]

\* From which step to which.
LEMMA JobTakes ==
  ASSUME Shaped, NEW j \in Jobs
  PROVE  /\ CheckName(j) => job[j].at = "check" /\ (JobOver(j) \/ JobGoes(j, "write"))
         /\ WriteName(j) => /\ job[j].at = "write"
                            /\ \/ JobOver(j) /\ UNCHANGED profile
                               \/ JobGoes(j, "drop")
         /\ DropCache(j) => \/ job[j].at = "drop" /\ JobGoes(j, "tell")
                            \/ job[j].at = "drop last" /\ JobOver(j)
         /\ TellName(j) => job[j].at = "tell" /\ JobOver(j)
         /\ PutObject(j) => /\ job[j].at = "put"
                            /\ \/ JobGoes(j, "remove")
                               \/ JobGoes(j, "point") /\ job[j].row.avatar = Default
         /\ RemoveOld(j) => job[j].at = "remove" /\ JobGoes(j, "point")
         /\ RemoveFails(j) => job[j].at = "remove" /\ JobGoes(j, "point")
         /\ PointToObject(j) => job[j].at = "point" /\ JobGoes(j, "drop last")
         /\ ReadProfile(j) => job[j].at = "read" /\ (JobOver(j) \/ JobRereads(j))
         /\ CacheProfile(j) => job[j].at = "fill" /\ JobOver(j)
         /\ JobThrows(j) => JobOver(j)
<1>0. {"check", "write", "drop", "tell", "put", "remove", "point", "drop last", "read", "fill"}
        \subseteq JobSteps
  BY DEF JobSteps
<1>1. CheckName(j) => job[j].at = "check" /\ (JobOver(j) \/ JobGoes(j, "write"))
  BY <1>0, JobMoves, JobStops DEF SameKind, Renaming, Uploading, CheckName
<1>2. WriteName(j) => /\ job[j].at = "write"
                      /\ \/ JobOver(j) /\ UNCHANGED profile
                         \/ JobGoes(j, "drop")
  BY <1>0, JobMoves, JobStops DEF SameKind, Renaming, Uploading, WriteName
<1>3. DropCache(j) => \/ job[j].at = "drop" /\ JobGoes(j, "tell")
                      \/ job[j].at = "drop last" /\ JobOver(j)
  BY <1>0, JobMoves, JobStops DEF SameKind, Renaming, Uploading, DropCache
<1>4. TellName(j) => job[j].at = "tell" /\ JobOver(j)
  BY <1>0, JobStops DEF TellName
<1>5. PutObject(j) => /\ job[j].at = "put"
                      /\ \/ JobGoes(j, "remove")
                         \/ JobGoes(j, "point") /\ job[j].row.avatar = Default
  <2> SUFFICES ASSUME PutObject(j)
               PROVE  /\ job[j].at = "put"
                      /\ \/ JobGoes(j, "remove")
                         \/ JobGoes(j, "point") /\ job[j].row.avatar = Default
    OBVIOUS
  <2>1. job[j].at = "put" /\ Proceeds(j, IF job[j].row.avatar = Default THEN "point" ELSE "remove")
    BY DEF PutObject
  <2>2. CASE job[j].row.avatar = Default
    <3>1. Proceeds(j, "point")
      BY <2>1, <2>2 DEF Proceeds
    <3> QED BY <1>0, <2>1, <2>2, <3>1, JobMoves DEF SameKind, Renaming, Uploading
  <2>3. CASE job[j].row.avatar # Default
    <3>1. Proceeds(j, "remove")
      BY <2>1, <2>3 DEF Proceeds
    <3> QED BY <1>0, <2>1, <2>3, <3>1, JobMoves DEF SameKind, Renaming, Uploading
  <2> QED BY <2>2, <2>3
<1>6. RemoveOld(j) => job[j].at = "remove" /\ JobGoes(j, "point")
  BY <1>0, JobMoves DEF SameKind, Renaming, Uploading, RemoveOld
<1>7. RemoveFails(j) => job[j].at = "remove" /\ JobGoes(j, "point")
  BY <1>0, JobMoves DEF SameKind, Renaming, Uploading, RemoveFails
<1>8. PointToObject(j) => job[j].at = "point" /\ JobGoes(j, "drop last")
  BY <1>0, JobMoves DEF SameKind, Renaming, Uploading, PointToObject
<1>9. ReadProfile(j) => job[j].at = "read" /\ (JobOver(j) \/ JobRereads(j))
  <2> SUFFICES ASSUME ReadProfile(j) PROVE job[j].at = "read" /\ (JobOver(j) \/ JobRereads(j))
    OBVIOUS
  <2>1. CASE profile[job[j].user] = NoProfile
    BY <1>0, <2>1, JobStops DEF ReadProfile
  <2>2. CASE profile[job[j].user] # NoProfile
    <3> DEFINE r == profile[job[j].user]
               v == [job[j] EXCEPT !.at = "fill", !.row = r]
    <3>1. job[j].at = "read" /\ job' = [job EXCEPT ![j] = v]
      BY <2>2 DEF ReadProfile
    <3>2. job[j] \in Job /\ job[j] # NoJob /\ Fields(job[j]) /\ Equipped(job[j])
          /\ job \in [Jobs -> Job \cup {NoJob}]
      BY <1>0, <3>1, JobInUse DEF Shaped, JobsOK, JobSteps
    <3>3. r \in ProfileRow
      BY <3>2 DEF Shaped, RowsOK, Fields
    <3> HIDE DEF r
    <3>4. /\ v \in Job /\ v.at = "fill" /\ v.user = job[j].user /\ v.name = job[j].name
          /\ v.no = job[j].no /\ v.row = r
      BY <1>0, <3>2, <3>3 DEF Job
    <3> HIDE DEF v
    <3>5. v # NoJob
      BY <3>4, JobInUse
    <3> QED BY <3>1, <3>2, <3>4, <3>5 DEF JobRereads, OtherJobs, r
  <2> QED BY <2>1, <2>2
<1>10. CacheProfile(j) => job[j].at = "fill" /\ JobOver(j)
  BY <1>0, JobStops DEF CacheProfile
<1>11. JobThrows(j) => JobOver(j)
  BY JobStops DEF JobThrows
<1> QED BY <1>1, <1>2, <1>3, <1>4, <1>5, <1>6, <1>7, <1>8, <1>9, <1>10, <1>11

\* What calls begin with.
LEMMA NewJobs ==
  ASSUME Shaped, NEW j \in Jobs, NEW m \in Members
  PROVE  /\ \A n \in Names : UpdateProfile(j, m, n) =>
              JobBegun(j, "check", m, n, drawnNo + 1) /\ drawnNo + 1 \in Numbers /\ profile[m] # NoProfile
         /\ UploadAvatar(j, m) =>
              JobBegun(j, "put", m, NoName, drawnNo + 1) /\ drawnNo + 1 \in Numbers /\ profile[m] # NoProfile
         /\ GetProfile(j, m) => JobBegun(j, "read", m, NoName, Default)
<1>0. {"check", "put", "read"} \subseteq JobSteps /\ Default \in Numbers /\ Default = 0
  BY ProfilesAssumption DEF JobSteps, ProfilesAssumption, Numbers, Default
<1>1. drawnNo < MaxChanges => drawnNo + 1 \in Numbers
  BY ProfilesAssumption DEF Shaped, Numbers, ProfilesAssumption
<1>2. ASSUME NEW n \in Names, UpdateProfile(j, m, n)
      PROVE  JobBegun(j, "check", m, n, drawnNo + 1) /\ drawnNo + 1 \in Numbers /\ profile[m] # NoProfile
  BY <1>0, <1>1, <1>2, JobStarts DEF UpdateProfile
<1>3. ASSUME UploadAvatar(j, m)
      PROVE  JobBegun(j, "put", m, NoName, drawnNo + 1) /\ drawnNo + 1 \in Numbers /\ profile[m] # NoProfile
  BY <1>0, <1>1, <1>3, JobStarts DEF UploadAvatar
<1>4. GetProfile(j, m) => JobBegun(j, "read", m, NoName, Default)
  BY <1>0, JobStarts DEF GetProfile
<1> QED BY <1>2, <1>3, <1>4

\* What is in 0..drawnNo stays there.
LEMMA DrawnStays ==
  ASSUME Shaped
  PROVE  /\ drawnNo' \in {drawnNo, drawnNo + 1} => \A k \in Numbers : WasDrawn(k) => WasDrawn(k)'
         /\ drawnNo' = drawnNo + 1 => WasDrawn(drawnNo)'
         /\ ~WasDrawn(drawnNo + 1)
         /\ WasDrawn(Default) /\ drawnNo + 1 # Default
<1>1. drawnNo \in Nat
  BY ProfilesAssumption DEF Shaped, Numbers, ProfilesAssumption
<1>2. drawnNo' \in {drawnNo, drawnNo + 1} => \A k \in Numbers : WasDrawn(k) => WasDrawn(k)'
  BY <1>1 DEF WasDrawn
<1>3. (drawnNo' = drawnNo + 1 => WasDrawn(drawnNo)') /\ ~WasDrawn(drawnNo + 1)
  <2> SUFFICES drawnNo + 1 \notin 0..drawnNo /\ (drawnNo' = drawnNo + 1 => drawnNo' \in 0..drawnNo')
    BY DEF WasDrawn
  <2> QED BY <1>1
<1>4. WasDrawn(Default) /\ drawnNo + 1 # Default
  BY <1>1 DEF WasDrawn, Default
<1> QED BY <1>2, <1>3, <1>4

\* The types and numbers of handlers, when one goes on or ends.
LEMMA JobsStay ==
  ASSUME Shaped, UNCHANGED drawnNo, NEW j \in Jobs,
         JobOver(j) \/ JobRereads(j) \/ \E x : JobGoes(j, x)
  PROVE  JobsOK' /\ DrawnJobs'
<1>1. /\ \A i \in Jobs : job[i] # NoJob => Equipped(job[i]) /\ WasDrawn(job[i].no) /\ WasDrawn(job[i].row.avatar)
      /\ \A k : WasDrawn(k)' <=> WasDrawn(k)
  BY DEF Shaped, JobsOK, DrawnJobs, WasDrawn
<1>2. CASE JobOver(j)
  <2>1. \A i \in Jobs : job'[i] # NoJob => job'[i] = job[i]
    BY <1>2 DEF JobOver, OtherJobs
  <2> QED BY <1>1, <1>2, <2>1 DEF JobOver, OtherJobs, JobsOK, DrawnJobs
<1>3. CASE JobRereads(j)
  <2>1. Equipped(job'[j])
    <3>1. job'[j].at = "fill" /\ job[j].at = "read" /\ job'[j].no = job[j].no
      BY <1>3 DEF JobRereads
    <3> QED BY <3>1 DEF Equipped, Looking, Renaming, Uploading, Fields
  <2>2. WasDrawn(job'[j].no) /\ WasDrawn(job'[j].row.avatar)
    BY <1>1, <1>3 DEF JobRereads, Shaped, DrawnElse, Fields
  <2>3. \A i \in Jobs : i = j \/ job'[i] = job[i]
    BY <1>3 DEF JobRereads, OtherJobs
  <2>4. job' \in [Jobs -> Job \cup {NoJob}]
    BY <1>3 DEF JobRereads, OtherJobs
  <2> QED BY <1>1, <2>1, <2>2, <2>3, <2>4 DEF JobsOK, DrawnJobs
<1>4. ASSUME NEW x, JobGoes(j, x) PROVE JobsOK' /\ DrawnJobs'
  <2>1. Equipped(job'[j])
    <3>1. /\ Equipped(job[j]) /\ job'[j].name = job[j].name /\ job'[j].no = job[j].no
          /\ job'[j].row = job[j].row /\ SameKind(job[j].at, job'[j].at)
          /\ job[j].at \in JobSteps
      BY <1>4 DEF JobGoes, Fields
    <3>2. job[j].no # Default \/ job[j].at \in Looking
      BY <3>1 DEF Equipped
    <3>3. job'[j].at \in JobSteps
      <4>1. job' \in [Jobs -> Job \cup {NoJob}] /\ job'[j] # NoJob
        BY <1>4 DEF JobGoes, OtherJobs
      <4>2. job'[j] \in Job \cup {NoJob}
        BY <4>1
      <4> QED BY <4>1, <4>2, JobInUse DEF Fields
    <3>4. job'[j].at \notin Looking => job[j].at \notin Looking
      BY <3>1, <3>3, JobStepsAre DEF SameKind
    <3> QED BY <3>1, <3>2, <3>4 DEF Equipped, SameKind
  <2>2. WasDrawn(job'[j].no) /\ WasDrawn(job'[j].row.avatar)
    BY <1>1, <1>4 DEF JobGoes
  <2>3. \A i \in Jobs : i = j \/ job'[i] = job[i]
    BY <1>4 DEF JobGoes, OtherJobs
  <2>4. job' \in [Jobs -> Job \cup {NoJob}]
    BY <1>4 DEF JobGoes, OtherJobs
  <2> QED BY <1>1, <2>1, <2>2, <2>3, <2>4 DEF JobsOK, DrawnJobs
<1> QED BY <1>2, <1>3, <1>4

\* The same, when a call begins.
LEMMA JobsBegin ==
  ASSUME Shaped, NEW j \in Jobs, NEW x, NEW m \in Members, NEW n, NEW k \in Numbers,
         JobBegun(j, x, m, n, k), drawnNo' \in {drawnNo, drawnNo + 1}, WasDrawn(k)',
         x \in Renaming => n \in Names, x \notin Looking => k # Default,
         x \in Uploading => k # profile[m].avatar
  PROVE  JobsOK' /\ DrawnJobs'
<1>1. /\ \A i \in Jobs : job[i] # NoJob => Equipped(job[i]) /\ WasDrawn(job[i].no) /\ WasDrawn(job[i].row.avatar)
      /\ \A i \in Jobs : job[i] # NoJob => job[i].no \in Numbers /\ job[i].row.avatar \in Numbers
  <2>1. \A i \in Jobs : job[i] # NoJob => Fields(job[i])
    BY JobInUse DEF Shaped, JobsOK
  <2> QED BY <2>1, RowFields DEF Shaped, JobsOK, DrawnJobs, Fields
<1>2. Equipped(job'[j])
  BY DEF JobBegun, Equipped
<1>3. profile[m].avatar \in Numbers /\ WasDrawn(profile[m].avatar)
  BY RowFields DEF Shaped, RowsOK, DrawnElse
<1>4. WasDrawn(job[j].no)' /\ WasDrawn(job[j].row.avatar)'
  BY <1>3, DrawnStays DEF JobBegun, WasDrawn
<1>5. \A i \in Jobs : i = j \/ job'[i] = job[i]
  BY DEF JobBegun, OtherJobs
<1>6. \A i \in Jobs : job'[i] # NoJob => WasDrawn(job[i].no)' /\ WasDrawn(job[i].row.avatar)'
  BY <1>1, <1>4, <1>5, DrawnStays DEF WasDrawn
<1>7. job' \in [Jobs -> Job \cup {NoJob}]
  BY DEF JobBegun, OtherJobs
<1> QED BY <1>1, <1>2, <1>5, <1>6, <1>7 DEF JobsOK, DrawnJobs, WasDrawn

\* An event and its retry.
LEMMA EventFields ==
  ASSUME NEW e \in Event
  PROVE  /\ e.kind \in {"registered", "renamed"} /\ e.user \in Members /\ e.name \in Names
         /\ e.no \in Numbers
         /\ e.tries < MaxTries =>
              /\ [e EXCEPT !.tries = @ + 1] \in Event
              /\ [e EXCEPT !.tries = @ + 1].kind = e.kind /\ [e EXCEPT !.tries = @ + 1].user = e.user
              /\ [e EXCEPT !.tries = @ + 1].name = e.name /\ [e EXCEPT !.tries = @ + 1].no = e.no
<1>1. e.tries < MaxTries => e.tries + 1 \in 0..MaxTries
  BY ProfilesAssumption DEF Event, ProfilesAssumption
<1> QED BY <1>1 DEF Event

\* A retry takes the place of its event, unless that is given up.
Replaced(e, f) == /\ f \in Event /\ f.kind = e.kind /\ f.user = e.user /\ f.name = e.name
                  /\ f.no = e.no /\ events' = (events \ {e}) \cup {f}
\* A failed event comes back once more, or is given up.
LEMMA RetriedTakes ==
  ASSUME Shaped, NEW e \in events, Retried(e)
  PROVE  \/ UNCHANGED astray /\ \E f : Replaced(e, f)
         \/ astray' = astray \cup {e.user} /\ events' = events \ {e}
<1>1. e \in Event
  BY DEF Shaped, EventsOK
<1>2. CASE e.tries < MaxTries
  <2> DEFINE f == [e EXCEPT !.tries = @ + 1]
  <2>1. events' = (events \ {e}) \cup {f} /\ UNCHANGED astray
    BY <1>2 DEF Retried
  <2>2. Replaced(e, f)
    BY <1>1, <1>2, <2>1, EventFields DEF Replaced
  <2> QED BY <2>1, <2>2
<1>3. CASE ~(e.tries < MaxTries)
  BY <1>3 DEF Retried
<1> QED BY <1>2, <1>3

\* Events and numbers, when the queues change.
LEMMA EventsStay ==
  ASSUME Shaped, UNCHANGED drawnNo, NEW e \in events,
         Settled(e) \/ Retried(e)
  PROVE  EventsOK' /\ (\A f \in events' : WasDrawn(f.no)') /\ (Retried(e) => astray' \subseteq Members)
<1>1. /\ events \subseteq Event /\ \A f \in events : WasDrawn(f.no)
      /\ \A k : WasDrawn(k)' <=> WasDrawn(k)
      /\ e.user \in Members /\ astray \subseteq Members
  BY EventFields DEF Shaped, EventsOK, DrawnElse, WasDrawn, MarksOK
<1>2. CASE Settled(e)
  <2>1. events' \subseteq events
    BY <1>2 DEF Settled
  <2>2. CASE Retried(e)
    BY <1>1, <2>1, <2>2, RetriedTakes DEF EventsOK
  <2> QED BY <1>1, <2>1, <2>2 DEF EventsOK
<1>3. CASE Retried(e)
  <2>1. CASE \E f : Replaced(e, f) /\ UNCHANGED astray
    <3>1. PICK f : Replaced(e, f) /\ UNCHANGED astray
      BY <2>1
    <3>2. \A g \in events' : g \in events \/ g = f
      BY <3>1 DEF Replaced
    <3> QED BY <1>1, <3>1, <3>2 DEF Replaced, EventsOK
  <2>2. CASE events' = events \ {e} /\ astray' = astray \cup {e.user}
    BY <1>1, <2>2 DEF EventsOK
  <2> QED BY <1>3, <2>1, <2>2, RetriedTakes
<1> QED BY <1>2, <1>3

\* Nothing is out of shape at the start,
LEMMA ShapedBegin == ProfilesInit => Shaped
<1> SUFFICES ASSUME ProfilesInit PROVE Shaped
  OBVIOUS
<1>0. Default \in Numbers /\ Default \in 0..0
  BY ProfilesAssumption DEF Numbers, Default, ProfilesAssumption
<1>1. RowsOK /\ StoreOK /\ EventsOK
  BY RowFields DEF ProfilesInit, RowsOK, StoreOK, EventsOK
<1>2. MarksOK /\ drawnNo \in Numbers
  BY <1>0 DEF ProfilesInit, MarksOK, Default
<1>3. JobsOK /\ DrawnJobs
  BY DEF ProfilesInit, JobsOK, DrawnJobs
<1>4. DrawnElse
  BY <1>0, RowFields DEF ProfilesInit, DrawnElse, WasDrawn, Default
<1> QED BY <1>1, <1>2, <1>3, <1>4 DEF Shaped

\* What the steps of handlers share.
LEMMA ShapedSame ==
  ASSUME Shaped, UNCHANGED <<drawnNo, events, synced, astray, clashed>>, JobsOK', DrawnJobs',
         RowsOK', StoreOK', botched' \subseteq Members, \A m \in Members : WasDrawn(profile'[m].avatar)
  PROVE  Shaped'
<1>1. \A k : WasDrawn(k)' <=> WasDrawn(k)
  BY DEF WasDrawn
<1>2. EventsOK' /\ MarksOK' /\ drawnNo' \in Numbers
  BY DEF Shaped, EventsOK, MarksOK
<1>3. DrawnElse'
  BY <1>1 DEF Shaped, DrawnElse
<1> QED BY <1>2, <1>3 DEF Shaped

\* nor after a consumer of auth-service or user-service has taken an event,
LEMMA ShapedEvents ==
  ASSUME Shaped, NEW e \in events, EventStep(e)
  PROVE  Shaped'
<1>0. /\ UNCHANGED <<drawnNo, job, shown, objects, botched>>
      /\ \A k : WasDrawn(k)' <=> WasDrawn(k)
  BY DEF EventStep, SyncUsername, CreateProfile, EventFails, storeVars, WasDrawn
<1>e. e \in Event /\ e.user \in Members /\ e.name \in Names /\ e.no \in Numbers /\ WasDrawn(e.no)
  BY EventFields DEF Shaped, EventsOK, DrawnElse
<1>1. StoreOK' /\ JobsOK' /\ DrawnJobs' /\ drawnNo' \in Numbers
  BY <1>0 DEF Shaped, StoreOK, JobsOK, DrawnJobs
<1>2. EventsOK' /\ (\A f \in events' : WasDrawn(f.no)')
  BY <1>0, EventsStay DEF EventStep, SyncUsername, CreateProfile, EventFails
<1>3. MarksOK'
  <2>1. CASE SyncUsername(e)
    BY <1>0, <1>e, <2>1, EventsStay DEF SyncUsername, Shaped, MarksOK
  <2>2. CASE CreateProfile(e)
    BY <1>0, <1>e, <2>2 DEF CreateProfile, Shaped, MarksOK
  <2>3. CASE EventFails(e)
    BY <1>0, <1>e, <2>3, EventsStay DEF EventFails, Shaped, MarksOK
  <2> QED BY <2>1, <2>2, <2>3 DEF EventStep
<1>4. RowsOK' /\ \A m \in Members : WasDrawn(profile'[m].avatar)
  <2>0. RowsOK /\ \A m \in Members : WasDrawn(profile[m].avatar)
    BY DEF Shaped, DrawnElse
  <2>1. CASE SyncUsername(e)
    BY <1>e, <2>0, <2>1 DEF SyncUsername, RowsOK
  <2>2. CASE CreateProfile(e)
    <3> DEFINE r == [name |-> e.name, avatar |-> Default]
    <3>1. r \in ProfileRow /\ r.name \in Names /\ r.avatar = Default
      BY <1>e, RowFields
    <3>2. profile' = profile \/ profile' = [profile EXCEPT ![e.user] = r]
      BY <2>2 DEF CreateProfile
    <3> HIDE DEF r
    <3>3. UNCHANGED login /\ WasDrawn(Default)
      BY <2>2, DrawnStays DEF CreateProfile
    <3> QED BY <1>e, <2>0, <3>1, <3>2, <3>3 DEF RowsOK
  <2>3. CASE EventFails(e)
    BY <2>0, <2>3 DEF EventFails, RowsOK, rowVars
  <2> QED BY <2>1, <2>2, <2>3 DEF EventStep
<1>5. DrawnElse'
  <2>1. \A m \in Members : WasDrawn(synced[m]) /\ synced'[m] \in {synced[m], e.no}
    <3>1. synced' = synced \/ synced' = [synced EXCEPT ![e.user] = e.no]
      BY DEF EventStep, SyncUsername, CreateProfile, EventFails
    <3> QED BY <3>1 DEF Shaped, DrawnElse, MarksOK
  <2> QED BY <1>0, <1>e, <1>2, <1>4, <2>1 DEF DrawnElse
<1> QED BY <1>1, <1>2, <1>3, <1>4, <1>5 DEF Shaped

\* a registration,
LEMMA ShapedJoin ==
  ASSUME Shaped, NEW m \in Members, NEW n \in Names, NEW p, Join(m, n, p)
  PROVE  Shaped'
<1> DEFINE e == [kind |-> "registered", user |-> m, name |-> n, no |-> 0, tries |-> 0]
<1>1. e \in Event /\ e.no = Default
  BY ProfilesAssumption DEF Event, Numbers, Default, ProfilesAssumption
<1>2. /\ UNCHANGED <<profile, shown, objects, drawnNo, job, synced, clashed, botched>>
      /\ login' = [login EXCEPT ![m] = n]
      /\ \/ events' = events \cup {e} /\ UNCHANGED astray
         \/ UNCHANGED events /\ astray' = astray \cup {m}
  BY DEF Join, storeVars
<1> HIDE DEF e
<1>3. (\A k : WasDrawn(k)' <=> WasDrawn(k)) /\ WasDrawn(Default)
  BY <1>2, DrawnStays DEF WasDrawn
<1>4. RowsOK' /\ StoreOK' /\ EventsOK' /\ MarksOK' /\ JobsOK' /\ drawnNo' \in Numbers
  BY <1>1, <1>2 DEF Shaped, RowsOK, StoreOK, EventsOK, MarksOK, JobsOK
<1>5. DrawnJobs' /\ DrawnElse'
  BY <1>1, <1>2, <1>3 DEF Shaped, DrawnJobs, DrawnElse
<1> QED BY <1>4, <1>5 DEF Shaped

\* a step of a handler,
LEMMA ShapedJobs ==
  ASSUME Shaped, NEW j \in Jobs, JobStep(j)
  PROVE  Shaped'
<1>0. /\ RowsOK /\ StoreOK /\ \A m \in Members : WasDrawn(profile[m].avatar)
      /\ botched \subseteq Members
  BY DEF Shaped, DrawnElse, MarksOK
<1>1. /\ JobOver(j) \/ JobRereads(j) \/ \E x : JobGoes(j, x)
      /\ UNCHANGED <<drawnNo, synced, astray, clashed>>
  BY JobTakes DEF JobStep, CheckName, WriteName, DropCache, TellName, PutObject, RemoveOld, RemoveFails,
                  PointToObject, ReadProfile, CacheProfile, JobThrows, Undisturbed, marks
<1>2. JobsOK' /\ DrawnJobs'
  BY <1>1, JobsStay
<1>3. /\ job[j] # NoJob /\ Fields(job[j]) /\ Equipped(job[j])
      /\ WasDrawn(job[j].no)
  BY <1>1 DEF JobOver, JobRereads, JobGoes, Shaped, DrawnJobs
<1>4. botched' \subseteq Members
  BY <1>0, <1>3 DEF JobStep, CheckName, WriteName, DropCache, TellName, PutObject, RemoveOld, RemoveFails,
                    PointToObject, ReadProfile, CacheProfile, JobThrows, Undisturbed, marks, Fields
<1>5. RowsOK' /\ \A m \in Members : WasDrawn(profile'[m].avatar)
  <2>0. UNCHANGED login
    BY DEF JobStep, CheckName, WriteName, DropCache, TellName, PutObject, RemoveOld, RemoveFails,
           PointToObject, ReadProfile, CacheProfile, JobThrows, rowVars
  <2>1. CASE UNCHANGED profile
    BY <1>0, <2>0, <2>1 DEF RowsOK
  <2>2. CASE WriteName(j)
    <3> DEFINE m == job[j].user
               r == [profile[m] EXCEPT !.name = job[j].name]
    <3>1. m \in Members /\ job[j].name \in Names
      BY <1>3, <2>2 DEF Fields, Equipped, WriteName, Renaming
    <3>2. r \in ProfileRow /\ r.name \in Names /\ r.avatar = profile[m].avatar
      BY <1>0, <3>1, RowFields DEF RowsOK
    <3>3. profile' = profile \/ profile' = [profile EXCEPT ![m] = r]
      BY <2>2 DEF WriteName
    <3> HIDE DEF r
    <3> QED BY <1>0, <2>0, <3>1, <3>2, <3>3 DEF RowsOK
  <2>3. CASE PointToObject(j)
    <3> DEFINE m == job[j].user
               r == [profile[m] EXCEPT !.avatar = job[j].no]
    <3>1. m \in Members /\ job[j].no \in Numbers
      BY <1>3 DEF Fields
    <3>3. r \in ProfileRow /\ r.name = profile[m].name /\ r.avatar = job[j].no
      BY <1>0, <3>1, RowFields DEF RowsOK
    <3>4. profile' = [profile EXCEPT ![m] = r]
      BY <2>3 DEF PointToObject
    <3> HIDE DEF r
    <3> QED BY <1>0, <1>3, <2>0, <3>1, <3>3, <3>4 DEF RowsOK
  <2> QED BY <2>1, <2>2, <2>3
        DEF JobStep, CheckName, DropCache, TellName, PutObject, RemoveOld, RemoveFails,
            ReadProfile, CacheProfile, JobThrows, rowVars
<1>6. StoreOK'
  <2>1. objects' \subseteq objects \cup {job[j].no} /\ (PutObject(j) \/ objects' \subseteq objects)
    BY DEF JobStep, CheckName, WriteName, DropCache, TellName, PutObject, RemoveOld, RemoveFails,
           PointToObject, ReadProfile, CacheProfile, JobThrows, storeVars
  <2>2. PutObject(j) => job[j].no \in Numbers \ {Default}
    BY <1>3 DEF PutObject, Fields, Equipped, Looking
  <2>3. \/ shown' = shown \/ shown' = [shown EXCEPT ![job[j].user] = NoProfile]
        \/ shown' = [shown EXCEPT ![job[j].user] = job[j].row]
    BY DEF JobStep, CheckName, WriteName, DropCache, TellName, PutObject, RemoveOld, RemoveFails,
           PointToObject, ReadProfile, CacheProfile, JobThrows, storeVars
  <2>4. job[j].user \in Members /\ job[j].row \in ProfileRow /\ NoProfile \in ProfileRow
    BY <1>3, RowFields DEF Fields
  <2> QED BY <1>0, <2>1, <2>2, <2>3, <2>4 DEF StoreOK
<1>7. CASE UNCHANGED events
  BY <1>1, <1>2, <1>4, <1>5, <1>6, <1>7, ShapedSame
<1>8. CASE TellName(j)
  <2> DEFINE e == [kind |-> "renamed", user |-> job[j].user, name |-> job[j].name,
                   no |-> job[j].no, tries |-> 0]
  <2>1. job[j].name \in Names
    BY <1>3, <1>8 DEF TellName, Equipped, Renaming
  <2>2. e \in Event /\ e.no = job[j].no
    BY <1>3, <2>1, ProfilesAssumption DEF Fields, Event, ProfilesAssumption
  <2>3. events' = events \cup {e}
    BY <1>8 DEF TellName
  <2> HIDE DEF e
  <2>4. \A k : WasDrawn(k)' <=> WasDrawn(k)
    BY <1>1 DEF WasDrawn
  <2>5. EventsOK' /\ MarksOK' /\ drawnNo' \in Numbers
    BY <1>1, <1>4, <2>2, <2>3 DEF Shaped, EventsOK, MarksOK
  <2>6. DrawnElse'
    BY <1>1, <1>3, <1>5, <2>2, <2>3, <2>4 DEF Shaped, DrawnElse
  <2> QED BY <1>2, <1>5, <1>6, <2>5, <2>6 DEF Shaped
<1> QED BY <1>7, <1>8 DEF JobStep, CheckName, WriteName, DropCache, PutObject, RemoveOld, RemoveFails,
           PointToObject, ReadProfile, CacheProfile, JobThrows

\* a call,
LEMMA ShapedCalls ==
  ASSUME Shaped, NEW j \in Jobs, NEW m \in Members,
         UploadAvatar(j, m) \/ GetProfile(j, m) \/ \E n \in Names : UpdateProfile(j, m, n)
  PROVE  Shaped'
<1>0. /\ UNCHANGED <<login, profile, shown, objects, events, synced, astray, clashed>>
      /\ drawnNo' \in {drawnNo, drawnNo + 1} /\ botched' \subseteq botched \cup {m}
  BY DEF UploadAvatar, GetProfile, UpdateProfile, rowVars, storeVars, Undisturbed, marks
<1>1. JobsOK' /\ DrawnJobs' /\ drawnNo' \in Numbers
  <2>1. profile[m].avatar # drawnNo + 1
    <3>1. ~WasDrawn(drawnNo + 1) /\ WasDrawn(profile[m].avatar)
      BY DrawnStays DEF Shaped, DrawnElse
    <3> QED BY <3>1
  <2>2. ASSUME NEW n \in Names, UpdateProfile(j, m, n) PROVE JobsOK' /\ DrawnJobs' /\ drawnNo' \in Numbers
    <3>1. JobBegun(j, "check", m, n, drawnNo + 1) /\ drawnNo + 1 \in Numbers /\ drawnNo' = drawnNo + 1
      BY <2>2, NewJobs DEF UpdateProfile
    <3>2. PICK k \in Numbers : k = drawnNo + 1
      BY <3>1
    <3>3. WasDrawn(k)' /\ k # Default
      BY <3>1, <3>2, DrawnStays DEF WasDrawn
    <3> QED BY <3>1, <3>2, <3>3, JobsBegin DEF Renaming, Uploading
  <2>3. ASSUME UploadAvatar(j, m) PROVE JobsOK' /\ DrawnJobs' /\ drawnNo' \in Numbers
    <3>1. JobBegun(j, "put", m, NoName, drawnNo + 1) /\ drawnNo + 1 \in Numbers /\ drawnNo' = drawnNo + 1
      BY <2>3, NewJobs DEF UploadAvatar
    <3>2. PICK k \in Numbers : k = drawnNo + 1
      BY <3>1
    <3>3. WasDrawn(k)' /\ k # Default
      BY <3>1, <3>2, DrawnStays DEF WasDrawn
    <3> QED BY <2>1, <3>1, <3>2, <3>3, JobsBegin DEF Renaming, Uploading
  <2>4. ASSUME GetProfile(j, m) PROVE JobsOK' /\ DrawnJobs' /\ drawnNo' \in Numbers
    <3>1. JobBegun(j, "read", m, NoName, Default) /\ drawnNo' = drawnNo
      BY <2>4, NewJobs DEF GetProfile
    <3>2. WasDrawn(Default)' /\ Default \in Numbers /\ drawnNo \in Numbers
      BY <3>1, DrawnStays, RowFields DEF WasDrawn, Shaped
    <3> QED BY <3>1, <3>2, JobsBegin DEF Renaming, Uploading, Looking
  <2> QED BY <2>2, <2>3, <2>4
<1>2. RowsOK' /\ StoreOK' /\ EventsOK' /\ MarksOK'
  BY <1>0 DEF Shaped, RowsOK, StoreOK, EventsOK, MarksOK
<1>3. DrawnElse'
  <2>1. \A k \in Numbers : WasDrawn(k) => WasDrawn(k)'
    BY <1>0, DrawnStays
  <2>2. /\ \A o \in Members : profile[o].avatar \in Numbers /\ synced[o] \in Numbers
        /\ \A e \in events : e.no \in Numbers
    BY RowFields, EventFields DEF Shaped, RowsOK, MarksOK, EventsOK
  <2> QED BY <1>0, <2>1, <2>2 DEF Shaped, DrawnElse
<1> QED BY <1>1, <1>2, <1>3 DEF Shaped

\* a lapse in the cache or nothing;
LEMMA ShapedOther ==
  ASSUME Shaped, UNCHANGED profilesVars \/ \E m \in Members : CacheLapses(m)
  PROVE  Shaped'
<1>1. /\ UNCHANGED <<login, profile, objects, events, drawnNo, job, synced, astray, clashed, botched>>
      /\ shown' = shown \/ \E m \in Members : shown' = [shown EXCEPT ![m] = NoProfile]
  BY DEF CacheLapses, profilesVars, rowVars, storeVars, marks, Undisturbed
<1>2. JobsOK' /\ DrawnJobs' /\ RowsOK' /\ StoreOK'
  BY <1>1, RowFields DEF Shaped, JobsOK, DrawnJobs, RowsOK, StoreOK, WasDrawn
<1>3. botched' \subseteq Members /\ \A m \in Members : WasDrawn(profile'[m].avatar)
  BY <1>1 DEF Shaped, MarksOK, DrawnElse
<1> QED BY <1>1, <1>2, <1>3, ShapedSame

\* that is, after any step.
LEMMA ShapedStep == Shaped /\ [ProfilesNext]_profilesVars => Shaped'
  BY ShapedEvents, ShapedJoin, ShapedJobs, ShapedCalls, ShapedOther DEF ProfilesNext

\* The types of all that user-service's handlers and the consumers read and write.
THEOREM ProfilesTyped == ProfilesSpec => []ProfilesTypeOK
<1>1. Shaped => ProfilesTypeOK
  BY DEF Shaped, RowsOK, StoreOK, EventsOK, MarksOK, JobsOK, ProfilesTypeOK
<1> QED BY <1>1, ShapedBegin, ShapedStep, PTL DEF ProfilesSpec

-------------------------------------------------------------------------------
(* Profiles: who is at what, and one writer at a time.                       *)

Writes == Renaming \cup Uploading
WorksFor(j, m, S) == job[j] # NoJob /\ job[j].user = m /\ job[j].at \in S

\* Whom the handlers serve, when one goes on,
LEMMA ServesGoes ==
  ASSUME NEW j \in Jobs, NEW x, JobGoes(j, x), NEW m
  PROVE  /\ \A S : /\ \A i \in Jobs \ {j} : WorksFor(i, m, S)' <=> WorksFor(i, m, S)
                   /\ WorksFor(j, m, S)' <=> job[j].user = m /\ x \in S
                   /\ WorksFor(j, m, S) <=> job[j].user = m /\ job[j].at \in S
         /\ WorksFor(j, m, Writes)' <=> WorksFor(j, m, Writes)
         /\ WorksFor(j, m, Renaming)' <=> WorksFor(j, m, Renaming)
  BY DEF JobGoes, OtherJobs, WorksFor, SameKind, Writes
\* ends,
LEMMA ServesOver ==
  ASSUME NEW j \in Jobs, JobOver(j), NEW m
  PROVE  \A S : /\ \A i \in Jobs \ {j} : WorksFor(i, m, S)' <=> WorksFor(i, m, S)
                /\ ~WorksFor(j, m, S)'
                /\ WorksFor(j, m, S) <=> job[j].user = m /\ job[j].at \in S
  BY DEF JobOver, OtherJobs, WorksFor
\* reads a row
LEMMA ServesRereads ==
  ASSUME NEW j \in Jobs, JobRereads(j), NEW m
  PROVE  /\ \A S : \A i \in Jobs \ {j} : WorksFor(i, m, S)' <=> WorksFor(i, m, S)
         /\ \A S \in SUBSET Writes : ~WorksFor(j, m, S)' /\ ~WorksFor(j, m, S)
  BY DEF JobRereads, OtherJobs, WorksFor, Writes, Renaming, Uploading
\* or begins.
LEMMA ServesBegun ==
  ASSUME NEW j \in Jobs, NEW x, NEW w, NEW n, NEW k, JobBegun(j, x, w, n, k), NEW m
  PROVE  \A S : /\ \A i \in Jobs \ {j} : WorksFor(i, m, S)' <=> WorksFor(i, m, S)
                /\ WorksFor(j, m, S)' <=> w = m /\ x \in S
                /\ ~WorksFor(j, m, S)
  BY DEF JobBegun, OtherJobs, WorksFor
\* The same of those who write.
LEMMA WritesBegun ==
  ASSUME NEW j \in Jobs, NEW x, NEW w, NEW n, NEW k, JobBegun(j, x, w, n, k), NEW m
  PROVE  /\ \A i \in Jobs : i # j => (WorksFor(i, m, Writes)' <=> WorksFor(i, m, Writes))
         /\ WorksFor(j, m, Writes)' <=> w = m /\ x \in Writes
         /\ ~WorksFor(j, m, Writes)
  BY DEF JobBegun, OtherJobs, WorksFor, Writes, Renaming, Uploading

\* The handlers that write are those the model calls so.
LEMMA WritingIs ==
  ASSUME Shaped, NEW m \in Members, NEW j \in Jobs
  PROVE  j \in Writing(m) <=> WorksFor(j, m, Writes)
<1>1. job[j] # NoJob => job[j].at \in JobSteps
  BY JobInUse DEF Shaped, JobsOK, Fields
<1> QED BY <1>1, JobStepsAre DEF Writing, Serving, WorksFor, Writes, Looking

\* A member without mishaps has one writer at a time.
OneWriter(m) ==
  m \notin botched => \A i, j \in Jobs : WorksFor(i, m, Writes) /\ WorksFor(j, m, Writes) => i = j

\* What handlers do to those who write, and to the mishaps.
LEMMA Writers ==
  ASSUME Shaped, [ProfilesNext]_profilesVars, NEW m \in Members
  PROVE  /\ botched \subseteq botched'
         /\ \/ \A i \in Jobs : WorksFor(i, m, Writes)' => WorksFor(i, m, Writes)
            \/ \E j \in Jobs : /\ \A i \in Jobs : WorksFor(i, m, Writes)' => i = j \/ WorksFor(i, m, Writes)
                               /\ m \in botched' \/ \A i \in Jobs : ~WorksFor(i, m, Writes)
<1>1. ASSUME NEW j \in Jobs, JobStep(j)
      PROVE  botched \subseteq botched' /\ \A i \in Jobs : WorksFor(i, m, Writes)' => WorksFor(i, m, Writes)
  <2>1. JobOver(j) \/ JobRereads(j) \/ \E x : JobGoes(j, x)
    BY <1>1, JobTakes DEF JobStep
  <2>2. \A i \in Jobs : WorksFor(i, m, Writes)' => WorksFor(i, m, Writes)
    BY <2>1, ServesGoes, ServesOver, ServesRereads
  <2>3. botched \subseteq botched'
    BY <1>1 DEF JobStep, CheckName, WriteName, DropCache, TellName, PutObject, RemoveOld, RemoveFails,
                PointToObject, ReadProfile, CacheProfile, JobThrows, Undisturbed, marks
  <2> QED BY <2>2, <2>3
<1>2. ASSUME NEW j \in Jobs, NEW w \in Members,
             UploadAvatar(j, w) \/ \E n \in Names : UpdateProfile(j, w, n)
      PROVE  /\ botched \subseteq botched'
             /\ \A i \in Jobs : WorksFor(i, m, Writes)' => (i = j /\ w = m) \/ WorksFor(i, m, Writes)
             /\ w \in botched' \/ \A i \in Jobs : ~WorksFor(i, w, Writes)
  <2>1. \E x, n, k : JobBegun(j, x, w, n, k)
    BY <1>2, NewJobs
  <2>2. botched' = IF Writing(w) = {} THEN botched ELSE botched \cup {w}
    BY <1>2 DEF UploadAvatar, UpdateProfile
  <2>3. \A i \in Jobs : WorksFor(i, m, Writes)' => (i = j /\ w = m) \/ WorksFor(i, m, Writes)
    BY <2>1, WritesBegun
  <2>4. Writing(w) = {} => \A i \in Jobs : ~WorksFor(i, w, Writes)
    BY WritingIs
  <2> QED BY <2>2, <2>3, <2>4
<1>3. ASSUME NEW j \in Jobs, NEW w \in Members, GetProfile(j, w)
      PROVE  botched \subseteq botched' /\ \A i \in Jobs : WorksFor(i, m, Writes)' => WorksFor(i, m, Writes)
  <2>1. JobBegun(j, "read", w, NoName, Default)
    BY <1>3, NewJobs
  <2>2. "read" \notin Writes
    BY DEF Writes, Renaming, Uploading
  <2>3. \A i \in Jobs : WorksFor(i, m, Writes)' => WorksFor(i, m, Writes)
    BY <2>1, <2>2, WritesBegun
  <2> QED BY <1>3, <2>3 DEF GetProfile, Undisturbed, marks
<1>4. ASSUME UNCHANGED <<job, botched>>
      PROVE  botched \subseteq botched' /\ \A i \in Jobs : WorksFor(i, m, Writes)' => WorksFor(i, m, Writes)
  BY <1>4 DEF WorksFor
<1>5. (\E e \in events : EventStep(e)) \/ (\E w \in Members, n \in Names, p \in {"yes", "no"} : Join(w, n, p))
       \/ (\E w \in Members : CacheLapses(w)) \/ UNCHANGED profilesVars => UNCHANGED <<job, botched>>
  BY DEF EventStep, SyncUsername, CreateProfile, EventFails, Join, CacheLapses, profilesVars, marks, Undisturbed
<1> QED BY <1>1, <1>2, <1>3, <1>4, <1>5 DEF ProfilesNext

\* A second writer of a member is a mishap.
LEMMA OneWriterStep ==
  ASSUME Shaped, [ProfilesNext]_profilesVars, NEW m \in Members, OneWriter(m)
  PROVE  OneWriter(m)'
<1>1. CASE \A i \in Jobs : WorksFor(i, m, Writes)' => WorksFor(i, m, Writes)
  BY <1>1, Writers DEF OneWriter
<1>2. CASE \E j \in Jobs : /\ \A i \in Jobs : WorksFor(i, m, Writes)' => i = j \/ WorksFor(i, m, Writes)
                           /\ m \in botched' \/ \A i \in Jobs : ~WorksFor(i, m, Writes)
  BY <1>2, Writers DEF OneWriter
<1> QED BY <1>1, <1>2, Writers

-------------------------------------------------------------------------------
(* Profiles: NamesConverge.                                                  *)

Excepted(m) == m \in astray \cup clashed \cup botched
Older(a, b) == a < b
Renames(m)  == {e \in events : e.kind = "renamed" /\ e.user = m}

\* A member without a row has only the event of the registration, with the name in users.
Rooted(m) ==
  /\ profile[m] = NoProfile \/ profile[m].name \in Names
  /\ login[m] = NoName => profile[m] = NoProfile /\ \A e \in events : e.user # m
  /\ profile[m] = NoProfile =>
       /\ \A e \in events : e.user = m => e.kind = "registered" /\ e.name = login[m]
       /\ \A j \in Jobs : ~WorksFor(j, m, Writes)
\* That event is still there.
Registered(m) ==
  ~Excepted(m) /\ profile[m] = NoProfile /\ login[m] # NoName => \E e \in events : e.user = m
\* A rename under way is newer than every event.
Ahead(m) == \A j \in Jobs : WorksFor(j, m, Renaming) => \A f \in Renames(m) : Older(f.no, job[j].no)
\* The name in profiles is in users, and newer than the events; or it is in the newest of
\* these; or the handler that wrote it has still to tell.
InUsers(m) == /\ login[m] = profile[m].name
              /\ \A f \in Renames(m) : \/ Older(f.no, synced[m])
                                       \/ f.no = synced[m] /\ f.name = profile[m].name
Newest(m, e) == /\ e \in Renames(m) /\ e.name = profile[m].name
                /\ \A f \in Renames(m) : \/ Older(f.no, e.no)
                                         \/ f.no = e.no /\ f.name = profile[m].name
InQueue(m) == \E e : Newest(m, e)
InHand(m)  == \E j \in Jobs : WorksFor(j, m, {"drop", "tell"})
Held(m)    == \A j \in Jobs : WorksFor(j, m, {"drop", "tell"}) => job[j].name = profile[m].name
Named(m) == ~Excepted(m) /\ profile[m] # NoProfile =>
              Ahead(m) /\ Held(m) /\ (InUsers(m) \/ InQueue(m) \/ InHand(m))
NamesOf(m) == Rooted(m) /\ Registered(m) /\ Named(m)

\* A step that leaves the name of a member alone.
Same(m) ==
  /\ login'[m] = login[m] /\ synced'[m] = synced[m]
  /\ profile'[m].name = profile[m].name /\ (profile'[m] = NoProfile <=> profile[m] = NoProfile)
  /\ \A e : e.user = m => (e \in events' <=> e \in events)
  /\ Excepted(m) => Excepted(m)'
  /\ \A j \in Jobs : WorksFor(j, m, {"drop", "tell"}) =>
       Excepted(m)' \/ WorksFor(j, m, {"drop", "tell"})'
  /\ \A j \in Jobs : WorksFor(j, m, {"drop", "tell"})' =>
       WorksFor(j, m, {"drop", "tell"}) /\ job'[j].name = job[j].name
  /\ \A j \in Jobs : WorksFor(j, m, Renaming)' => WorksFor(j, m, Renaming) /\ job'[j].no = job[j].no
  /\ \A j \in Jobs : WorksFor(j, m, Writes)' => WorksFor(j, m, Writes) \/ profile[m] # NoProfile

\* What names rest on is kept by such a step.
LEMMA SameKeeps ==
  ASSUME Shaped, NEW m \in Members, NamesOf(m), Same(m)
  PROVE  NamesOf(m)'
<1>0. \A e : e \in Renames(m)' <=> e \in Renames(m)
  BY DEF Same, Renames
<1>1. Rooted(m)'
  <2>1. \A e \in events' : e.user = m => e \in events
    BY DEF Same
  <2> QED BY <2>1 DEF Same, Rooted, NamesOf
<1>2. Registered(m)'
  BY DEF Same, Registered, NamesOf
<1>3. Named(m)'
  <2> SUFFICES ASSUME ~Excepted(m)', profile'[m] # NoProfile
               PROVE  Ahead(m)' /\ Held(m)' /\ (InUsers(m) \/ InQueue(m) \/ InHand(m))'
    BY DEF Named
  <2>1. Ahead(m) /\ Held(m) /\ (InUsers(m) \/ InQueue(m) \/ InHand(m))
    BY DEF NamesOf, Named, Same
  <2>2. Ahead(m)'
    BY <1>0, <2>1 DEF Ahead, Same, Older
  <2>3. InUsers(m) => InUsers(m)'
    BY <1>0 DEF InUsers, Same, Older
  <2>4. InQueue(m) => InQueue(m)'
    BY <1>0 DEF InQueue, Newest, Same, Older
  <2>5. InHand(m) => InHand(m)'
    BY DEF InHand, Same
  <2>6. Held(m)'
    BY <2>1 DEF Held, Same
  <2> QED BY <2>1, <2>2, <2>3, <2>4, <2>5, <2>6
<1> QED BY <1>1, <1>2, <1>3 DEF NamesOf

\* Events of others, and registrations.
LEMMA SameByEvents ==
  ASSUME Shaped, NEW m \in Members,
         \/ \E e \in events : EventStep(e) /\ e.user # m
         \/ \E w \in Members \ {m}, n \in Names, p \in {"yes", "no"} : Join(w, n, p)
         \/ \E w \in Members : CacheLapses(w)
         \/ UNCHANGED profilesVars
  PROVE  Same(m)
<1>1. ASSUME UNCHANGED <<job, botched>>, login'[m] = login[m], synced'[m] = synced[m],
             profile'[m] = profile[m], \A e : e.user = m => (e \in events' <=> e \in events),
             astray \subseteq astray', clashed \subseteq clashed'
      PROVE  Same(m)
  BY <1>1 DEF Same, WorksFor, Excepted
<1>2. ASSUME NEW e \in events, EventStep(e), e.user # m PROVE Same(m)
  <2>1. UNCHANGED <<job, botched>> /\ e.user \in Members
    BY <1>2, EventFields DEF EventStep, SyncUsername, CreateProfile, EventFails, Shaped, EventsOK
  <2>2. login'[m] = login[m] /\ synced'[m] = synced[m] /\ profile'[m] = profile[m]
    BY <1>2, <2>1 DEF EventStep, SyncUsername, CreateProfile, EventFails, rowVars, Shaped, RowsOK, MarksOK
  <2>3. Settled(e) \/ Retried(e)
    BY <1>2 DEF EventStep, SyncUsername, CreateProfile, EventFails
  <2>4. \A f : f.user = m => (f \in events' <=> f \in events)
    <3>1. CASE Settled(e)
      BY <1>2, <3>1 DEF Settled
    <3>2. CASE Retried(e)
      BY <1>2, <3>2, RetriedTakes DEF Replaced
    <3> QED BY <2>3, <3>1, <3>2
  <2>5. astray \subseteq astray' /\ clashed \subseteq clashed'
    BY <1>2, RetriedTakes DEF EventStep, SyncUsername, CreateProfile, EventFails
  <2> QED BY <1>1, <2>1, <2>2, <2>4, <2>5
<1>3. ASSUME NEW w \in Members \ {m}, NEW n \in Names, NEW p \in {"yes", "no"}, Join(w, n, p) PROVE Same(m)
  <2>1. UNCHANGED <<job, botched, profile, synced, clashed>> /\ login'[m] = login[m]
    BY <1>3 DEF Join, Shaped, RowsOK
  <2>2. (\A e : e.user = m => (e \in events' <=> e \in events)) /\ astray \subseteq astray'
    BY <1>3 DEF Join
  <2> QED BY <1>1, <2>1, <2>2
<1>4. ASSUME NEW w \in Members, CacheLapses(w) PROVE Same(m)
  BY <1>1, <1>4 DEF CacheLapses, rowVars, Undisturbed, marks
<1>5. CASE UNCHANGED profilesVars
  BY <1>1, <1>5 DEF profilesVars, rowVars, marks
<1> QED BY <1>2, <1>3, <1>4, <1>5

\* A handler's step leaves the name alone when it does so to rows, events and marks, and
\* forgets no event that it has to send.
LEMMA SameOfJob ==
  ASSUME Shaped, NEW m \in Members, NEW j \in Jobs,
         JobOver(j) \/ JobRereads(j) \/ \E x : JobGoes(j, x),
         login'[m] = login[m], synced'[m] = synced[m], profile'[m].name = profile[m].name,
         profile'[m] = NoProfile <=> profile[m] = NoProfile,
         \A e : e.user = m => (e \in events' <=> e \in events),
         Excepted(m) => Excepted(m)',
         WorksFor(j, m, {"drop", "tell"}) => Excepted(m)' \/ JobGoes(j, "tell"),
         WorksFor(j, m, {"drop", "tell"})' => WorksFor(j, m, {"drop", "tell"})
  PROVE  Same(m)
<1>1. \A i \in Jobs \ {j} : job'[i] = job[i]
  BY DEF JobOver, JobRereads, JobGoes, OtherJobs
<1>2. \A i \in Jobs \ {j} : \A S : WorksFor(i, m, S)' <=> WorksFor(i, m, S)
  BY <1>1 DEF WorksFor
<1>3. WorksFor(j, m, {"drop", "tell"}) => Excepted(m)' \/ WorksFor(j, m, {"drop", "tell"})'
  BY DEF JobGoes, WorksFor
<1>9. WorksFor(j, m, {"drop", "tell"})' => job'[j].name = job[j].name
  BY DEF JobGoes, JobOver, JobRereads, WorksFor
<1>10. \A i \in Jobs : WorksFor(i, m, {"drop", "tell"})' =>
        WorksFor(i, m, {"drop", "tell"}) /\ job'[i].name = job[i].name
  BY <1>1, <1>2, <1>9
<1>4. WorksFor(j, m, Renaming)' => WorksFor(j, m, Renaming) /\ job'[j].no = job[j].no
  <2>1. CASE JobOver(j)
    BY <2>1 DEF JobOver, WorksFor
  <2>2. CASE JobRereads(j)
    BY <2>2 DEF JobRereads, WorksFor, Renaming
  <2>3. CASE \E x : JobGoes(j, x)
    BY <2>3 DEF JobGoes, WorksFor, SameKind
  <2> QED BY <2>1, <2>2, <2>3
<1>5. WorksFor(j, m, Writes)' => WorksFor(j, m, Writes)
  <2>1. CASE JobOver(j)
    BY <2>1 DEF JobOver, WorksFor
  <2>2. CASE JobRereads(j)
    BY <2>2 DEF JobRereads, WorksFor, Renaming, Uploading, Writes
  <2>3. CASE \E x : JobGoes(j, x)
    BY <2>3 DEF JobGoes, WorksFor, SameKind, Writes
  <2> QED BY <2>1, <2>2, <2>3
<1>6. \A i \in Jobs : WorksFor(i, m, {"drop", "tell"}) => Excepted(m)' \/ WorksFor(i, m, {"drop", "tell"})'
  BY <1>1, <1>2, <1>3
<1>7. \A i \in Jobs : WorksFor(i, m, Renaming)' => WorksFor(i, m, Renaming) /\ job'[i].no = job[i].no
  BY <1>1, <1>2, <1>4
<1>8. \A i \in Jobs : WorksFor(i, m, Writes)' => WorksFor(i, m, Writes)
  BY <1>2, <1>5
<1> QED BY <1>6, <1>7, <1>8, <1>10 DEF Same

\* Steps of handlers, but for the UPDATE of the name and the event about it.
LEMMA SameByJobs ==
  ASSUME Shaped, NEW m \in Members, Rooted(m), NEW j \in Jobs, JobStep(j),
         job[j].user = m => /\ ~TellName(j)
                            /\ WriteName(j) => JobOver(j) /\ UNCHANGED profile
  PROVE  Same(m)
<1>1. JobOver(j) \/ JobRereads(j) \/ \E x : JobGoes(j, x)
  BY JobTakes DEF JobStep
<1>2. job[j] # NoJob /\ job[j].user \in Members
  BY <1>1 DEF JobOver, JobRereads, JobGoes, Fields
<1>3. UNCHANGED <<login, synced, astray, clashed>> /\ botched \subseteq botched'
  BY DEF JobStep, CheckName, WriteName, DropCache, TellName, PutObject, RemoveOld, RemoveFails,
         PointToObject, ReadProfile, CacheProfile, JobThrows, Undisturbed, marks, rowVars
<1>4. Excepted(m) => Excepted(m)'
  BY <1>3 DEF Excepted
<1>5. \A e : e.user = m => (e \in events' <=> e \in events)
  <2>1. CASE TellName(j)
    BY <2>1 DEF TellName
  <2> QED BY <2>1 DEF JobStep, CheckName, WriteName, DropCache, PutObject, RemoveOld, RemoveFails,
         PointToObject, ReadProfile, CacheProfile, JobThrows
<1>6. profile'[m].name = profile[m].name /\ (profile'[m] = NoProfile <=> profile[m] = NoProfile)
  <2>1. CASE UNCHANGED profile
    BY <2>1
  <2>2. CASE WriteName(j) /\ job[j].user # m
    BY <1>2, <2>2 DEF WriteName, Shaped, RowsOK
  <2>3. CASE PointToObject(j)
    <3>1. CASE job[j].user # m
      BY <1>2, <2>3, <3>1 DEF PointToObject, Shaped, RowsOK
    <3>2. CASE job[j].user = m
      <4>1. WorksFor(j, m, Writes)
        BY <1>2, <2>3, <3>2 DEF PointToObject, WorksFor, Writes, Uploading
      <4>2. profile[m] # NoProfile /\ profile[m].name \in Names
        BY <4>1 DEF Rooted
      <4>3. job[j].no \in Numbers /\ profile[m] \in ProfileRow
        BY <1>1 DEF JobOver, JobRereads, JobGoes, Fields, Shaped, RowsOK
      <4> DEFINE r == [profile[m] EXCEPT !.avatar = job[j].no]
      <4>4. r.name = profile[m].name
        BY <4>3, RowFields
      <4>5. profile' = [profile EXCEPT ![m] = r]
        BY <2>3, <3>2 DEF PointToObject
      <4> HIDE DEF r
      <4> QED BY <4>2, <4>4, <4>5, RowFields DEF Shaped, RowsOK
    <3> QED BY <3>1, <3>2
  <2> QED BY <2>1, <2>2, <2>3
        DEF JobStep, CheckName, DropCache, TellName, PutObject, RemoveOld, RemoveFails,
            ReadProfile, CacheProfile, JobThrows, rowVars
<1>7. ASSUME WorksFor(j, m, {"drop", "tell"}) PROVE Excepted(m)' \/ JobGoes(j, "tell")
  <2>1. job[j].at \in {"drop", "tell"} /\ job[j].user = m
    BY <1>7 DEF WorksFor
  <2>2. DropCache(j) \/ JobThrows(j)
    BY <2>1 DEF JobStep, CheckName, WriteName, PutObject, RemoveOld, RemoveFails,
                PointToObject, ReadProfile, CacheProfile
  <2>3. CASE DropCache(j)
    BY <2>1, <2>3, JobTakes
  <2>4. CASE JobThrows(j)
    BY <2>1, <2>4 DEF JobThrows, Excepted
  <2> QED BY <2>2, <2>3, <2>4
<1>8. WorksFor(j, m, {"drop", "tell"})' => WorksFor(j, m, {"drop", "tell"})
  <2> SUFFICES ASSUME job'[j] # NoJob, job'[j].user = m, job'[j].at \in {"drop", "tell"}
               PROVE  job[j].user = m /\ job[j].at \in {"drop", "tell"}
    BY <1>2 DEF WorksFor
  <2>1. ~JobOver(j) /\ ~JobRereads(j) /\ \A x : JobGoes(j, x) => x \in {"drop", "tell"} /\ job[j].user = m
    BY DEF JobOver, JobRereads, JobGoes
  <2>2. job[j].user = m /\ ~WriteName(j) /\ ~TellName(j)
    BY <1>1, <2>1
  <2>6. ~JobGoes(j, "write") /\ ~JobGoes(j, "remove") /\ ~JobGoes(j, "point") /\ ~JobGoes(j, "drop last")
    <3>1. job'[j].at \notin {"write", "remove", "point", "drop last"}
      OBVIOUS
    <3> QED BY <3>1 DEF JobGoes
  <2>3. ~CheckName(j) /\ ~PutObject(j) /\ ~RemoveOld(j) /\ ~RemoveFails(j) /\ ~PointToObject(j)
    <3>1. ~CheckName(j)
      BY <2>1, <2>6, JobTakes
    <3>2. ~PutObject(j)
      BY <2>1, <2>6, JobTakes
    <3>3. ~RemoveOld(j) /\ ~RemoveFails(j)
      BY <2>1, <2>6, JobTakes
    <3>4. ~PointToObject(j)
      BY <2>1, <2>6, JobTakes
    <3> QED BY <3>1, <3>2, <3>3, <3>4
  <2>4. ~ReadProfile(j) /\ ~CacheProfile(j) /\ ~JobThrows(j)
    BY <2>1, JobTakes
  <2>5. DropCache(j)
    BY <2>2, <2>3, <2>4 DEF JobStep
  <2> QED BY <2>1, <2>2, <2>5, JobTakes
<1> QED BY <1>1, <1>3, <1>4, <1>5, <1>6, <1>7, <1>8, SameOfJob

\* Uploads and views of anyone, and renames of others.
LEMMA SameByCalls ==
  ASSUME Shaped, NEW m \in Members, NEW j \in Jobs, NEW w \in Members,
         \/ UploadAvatar(j, w) \/ GetProfile(j, w)
         \/ w # m /\ \E n \in Names : UpdateProfile(j, w, n)
  PROVE  Same(m)
<1>1. /\ UNCHANGED <<login, profile, events, synced, astray, clashed>> /\ botched \subseteq botched'
  BY DEF UploadAvatar, GetProfile, UpdateProfile, rowVars, Undisturbed, marks
<1>2. PICK x, n, k : /\ JobBegun(j, x, w, n, k)
                     /\ w = m => x \in {"put", "read"}
                     /\ x \in Writes => profile[w] # NoProfile
  <2>1. "read" \notin Writes
    BY DEF Writes, Renaming, Uploading
  <2> QED BY <2>1, NewJobs
<1>3. job[j] = NoJob /\ \A i \in Jobs \ {j} : job'[i] = job[i]
  BY <1>2 DEF JobBegun, OtherJobs
<1>4. \A i \in Jobs \ {j} : \A S : WorksFor(i, m, S)' <=> WorksFor(i, m, S)
  BY <1>3 DEF WorksFor
<1>5. ~WorksFor(j, m, {"drop", "tell"})
  BY <1>3 DEF WorksFor
<1>6. ~WorksFor(j, m, Renaming)'
  BY <1>2 DEF JobBegun, WorksFor, Renaming
<1>7. WorksFor(j, m, Writes)' => profile[m] # NoProfile
  BY <1>2 DEF JobBegun, WorksFor
<1>8. \A i \in Jobs : WorksFor(i, m, {"drop", "tell"}) => Excepted(m)' \/ WorksFor(i, m, {"drop", "tell"})'
  BY <1>3, <1>4, <1>5
<1>9. \A i \in Jobs : WorksFor(i, m, Renaming)' => WorksFor(i, m, Renaming) /\ job'[i].no = job[i].no
  BY <1>3, <1>4, <1>6
<1>10. \A i \in Jobs : WorksFor(i, m, Writes)' => WorksFor(i, m, Writes) \/ profile[m] # NoProfile
  BY <1>4, <1>7
<1>11. ~WorksFor(j, m, {"drop", "tell"})'
  BY <1>2 DEF JobBegun, WorksFor
<1>12. \A i \in Jobs : WorksFor(i, m, {"drop", "tell"})' =>
         WorksFor(i, m, {"drop", "tell"}) /\ job'[i].name = job[i].name
  BY <1>3, <1>4, <1>11
<1> QED BY <1>1, <1>8, <1>9, <1>10, <1>12 DEF Same, Excepted

\* A registration leaves the name in its event, or loses it.
LEMMA NamesJoin ==
  ASSUME Shaped, NEW m \in Members, NamesOf(m), NEW n \in Names, NEW p, Join(m, n, p)
  PROVE  NamesOf(m)'
<1> DEFINE e == [kind |-> "registered", user |-> m, name |-> n, no |-> 0, tries |-> 0]
<1>1. /\ login[m] = NoName /\ UNCHANGED <<profile, job, clashed, botched>>
      /\ login' = [login EXCEPT ![m] = n]
      /\ \/ events' = events \cup {e} /\ UNCHANGED astray
         \/ UNCHANGED events /\ astray' = astray \cup {m}
  BY DEF Join
<1>2. e.kind = "registered" /\ e.user = m /\ e.name = n
  OBVIOUS
<1> HIDE DEF e
<1>3. /\ profile[m] = NoProfile /\ (\A f \in events : f.user # m) /\ login'[m] = n /\ n # NoName
      /\ \A j \in Jobs : ~WorksFor(j, m, Writes)
  BY <1>1, RowFields DEF NamesOf, Rooted, Shaped, RowsOK
<1>4. \A j \in Jobs : ~WorksFor(j, m, Writes)'
  BY <1>1, <1>3 DEF WorksFor
<1>5. \A f \in events' : f.user = m => f = e
  BY <1>1, <1>3
<1>6. Rooted(m)'
  BY <1>1, <1>2, <1>3, <1>4, <1>5 DEF Rooted
<1>7. Registered(m)' /\ Named(m)'
  BY <1>1, <1>2, <1>3 DEF Registered, Named, Excepted
<1> QED BY <1>6, <1>7 DEF NamesOf

\* updateUsername: the name of the newest event stays, and an older one is a mishap.
LEMMA NamesSync ==
  ASSUME Shaped, NEW m \in Members, NamesOf(m), NEW e \in events, e.user = m, SyncUsername(e)
  PROVE  NamesOf(m)'
<1>0. /\ UNCHANGED <<profile, job, botched>> /\ e.kind = "renamed" /\ e.name \in Names
      /\ profile[m] # NoProfile /\ profile[m].name \in Names /\ login[m] # NoName
      /\ e \in Renames(m) /\ astray \subseteq astray' /\ clashed \subseteq clashed'
  <2>1. UNCHANGED <<profile, job, botched>> /\ e.kind = "renamed" /\ astray \subseteq astray' /\ clashed \subseteq clashed'
    BY RetriedTakes DEF SyncUsername
  <2>2. e.name \in Names
    BY EventFields DEF Shaped, EventsOK
  <2> QED BY <2>1, <2>2 DEF NamesOf, Rooted, Renames
<1>1. login'[m] # NoName
  BY <1>0, RowFields DEF SyncUsername, Shaped, RowsOK
<1>2. Rooted(m)' /\ Registered(m)'
  BY <1>0, <1>1 DEF Rooted, Registered, Excepted
<1>3. ASSUME ~Excepted(m)' PROVE Named(m)'
  <2>1. ~Excepted(m) /\ m \notin astray' /\ m \notin clashed'
    BY <1>0, <1>3 DEF Excepted
  <2>2. /\ login' = [login EXCEPT ![m] = e.name] /\ synced' = [synced EXCEPT ![m] = e.no]
        /\ ~Older(e.no, synced[m]) /\ events' \subseteq events
        /\ \A f \in events : f \in events' \/ f = e
    BY <2>1 DEF SyncUsername, Older, Settled
  <2>3. login'[m] = e.name /\ synced'[m] = e.no
    BY <2>2 DEF Shaped, RowsOK, MarksOK
  <2>4. Ahead(m) /\ Held(m) /\ (InUsers(m) \/ InQueue(m) \/ InHand(m))
    BY <1>0, <2>1 DEF NamesOf, Named
  <2>5. \A f \in Renames(m)' : f \in Renames(m)
    BY <2>2 DEF Renames
  <2>6. Ahead(m)' /\ Held(m)' /\ (InHand(m) => InHand(m)')
    BY <1>0, <2>4, <2>5 DEF Ahead, Held, InHand, WorksFor, Older
  <2>7. ASSUME InUsers(m) PROVE InUsers(m)'
    <3>1. e.no = synced[m] /\ e.name = profile[m].name
      BY <1>0, <2>2, <2>7 DEF InUsers
    <3> QED BY <1>0, <2>3, <2>5, <2>7, <3>1 DEF InUsers, Older
  <2>8. ASSUME NEW g, Newest(m, g) PROVE InUsers(m)' \/ InQueue(m)'
    <3>1. CASE e.no = g.no /\ e.name = profile[m].name
      BY <1>0, <2>3, <2>5, <2>8, <3>1 DEF InUsers, Newest, Older
    <3>2. CASE ~(e.no = g.no /\ e.name = profile[m].name)
      <4>1. g # e
        BY <2>8, <3>2 DEF Newest
      <4>2. g \in Renames(m)'
        BY <2>2, <2>8, <4>1 DEF Newest, Renames
      <4>3. Newest(m, g)'
        BY <1>0, <2>5, <2>8, <4>2 DEF Newest, Older
      <4> QED BY <4>3 DEF InQueue
    <3> QED BY <3>1, <3>2
  <2> QED BY <2>4, <2>6, <2>7, <2>8 DEF Named, InQueue
<1>4. Named(m)'
  BY <1>3 DEF Named
<1> QED BY <1>2, <1>4 DEF NamesOf

\* createIfNotExists: the name in users goes into the row, unless another profile has it.
LEMMA NamesCreate ==
  ASSUME Shaped, NEW m \in Members, NamesOf(m), NEW e \in events, e.user = m, CreateProfile(e)
  PROVE  NamesOf(m)'
<1>0. /\ UNCHANGED <<login, job, botched, astray, synced>> /\ e.kind = "registered" /\ e.name \in Names
      /\ events' \subseteq events /\ (\A f \in events : f \in events' \/ f = e)
      /\ clashed \subseteq clashed' /\ login[m] # NoName
  <2>1. e.name \in Names
    BY EventFields DEF Shaped, EventsOK
  <2> QED BY <2>1 DEF CreateProfile, Settled, NamesOf, Rooted
<1>1. \A S : \A j \in Jobs : WorksFor(j, m, S)' <=> WorksFor(j, m, S)
  BY <1>0 DEF WorksFor
<1>2. \A f : f \in Renames(m)' <=> f \in Renames(m)
  BY <1>0 DEF Renames
<1>3. CASE profile'[m] = profile[m] /\ profile[m] # NoProfile
  <2>1. Rooted(m)' /\ Registered(m)'
    BY <1>0, <1>3 DEF Rooted, Registered, NamesOf
  <2>2. ASSUME ~Excepted(m)' PROVE Named(m)'
    <3>1. Ahead(m) /\ Held(m) /\ (InUsers(m) \/ InQueue(m) \/ InHand(m))
      BY <1>0, <1>3, <2>2 DEF NamesOf, Named, Excepted
    <3>2. Ahead(m)' /\ Held(m)' /\ (InHand(m) => InHand(m)')
      BY <1>0, <1>1, <1>2, <1>3, <3>1 DEF Ahead, Held, InHand, Older
    <3>3. (InUsers(m) => InUsers(m)') /\ (InQueue(m) => InQueue(m)')
      BY <1>0, <1>2, <1>3 DEF InUsers, InQueue, Newest, Older
    <3> QED BY <3>1, <3>2, <3>3 DEF Named
  <2> QED BY <2>1, <2>2 DEF NamesOf, Named
<1>4. CASE profile[m] = NoProfile
  <2>1. e.name = login[m] /\ (\A j \in Jobs : ~WorksFor(j, m, Writes)) /\ \A f : f \notin Renames(m)
    BY <1>4 DEF NamesOf, Rooted, Renames
  <2>2. CASE \E o \in Members \ {m} : profile[o].name = e.name
    <3>1. profile'[m] = profile[m] /\ m \in clashed'
      BY <1>4, <2>2 DEF CreateProfile
    <3>2. \A j \in Jobs : ~WorksFor(j, m, Writes)'
      BY <1>1, <2>1
    <3>3. Rooted(m)'
      BY <1>0, <1>4, <2>1, <3>1, <3>2 DEF Rooted, NamesOf
    <3> QED BY <3>1, <3>3 DEF NamesOf, Registered, Named, Excepted
  <2>3. CASE ~\E o \in Members \ {m} : profile[o].name = e.name
    <3> DEFINE r == [name |-> e.name, avatar |-> Default]
    <3>1. profile' = [profile EXCEPT ![m] = r]
      BY <1>4, <2>3 DEF CreateProfile
    <3>2. r.name = e.name
      OBVIOUS
    <3> HIDE DEF r
    <3>3. profile'[m].name = e.name /\ profile'[m] # NoProfile
      BY <1>0, <3>1, <3>2, RowFields DEF Shaped, RowsOK
    <3>4. Rooted(m)' /\ Registered(m)'
      BY <1>0, <3>3 DEF Rooted, Registered
    <3>5. Ahead(m)' /\ InUsers(m)'
      BY <1>0, <1>2, <2>1, <3>3 DEF Ahead, InUsers
    <3>6. Held(m)'
      <4>1. \A j \in Jobs : WorksFor(j, m, {"drop", "tell"}) => WorksFor(j, m, Writes)
        BY DEF WorksFor, Writes, Renaming
      <4> QED BY <1>1, <2>1, <4>1 DEF Held
    <3> QED BY <3>4, <3>5, <3>6 DEF NamesOf, Named
  <2> QED BY <2>2, <2>3
<1>5. profile[m] # NoProfile => profile'[m] = profile[m]
  BY DEF CreateProfile
<1> QED BY <1>3, <1>4, <1>5

\* A failed event comes again with the same name and number, or is given up.
LEMMA NamesFail ==
  ASSUME Shaped, NEW m \in Members, NamesOf(m), NEW e \in events, e.user = m, EventFails(e)
  PROVE  NamesOf(m)'
<1>0. UNCHANGED <<login, profile, job, botched, clashed, synced>> /\ login[m] # NoName
  BY DEF EventFails, rowVars, NamesOf, Rooted
<1>1. \A S : \A j \in Jobs : WorksFor(j, m, S)' <=> WorksFor(j, m, S)
  BY <1>0 DEF WorksFor
<1>2. CASE astray' = astray \cup {m} /\ events' = events \ {e}
  BY <1>0, <1>1, <1>2 DEF NamesOf, Rooted, Registered, Named, Excepted
<1>3. ASSUME NEW f, Replaced(e, f), UNCHANGED astray PROVE NamesOf(m)'
  <2>0. /\ f.kind = e.kind /\ f.user = m /\ f.name = e.name /\ f.no = e.no
        /\ f \in events' /\ (\A g \in events' : g \in events \/ g = f)
        /\ \A g \in events : g \in events' \/ g = e
    BY <1>3 DEF Replaced
  <2>1. Rooted(m)'
    BY <1>0, <1>1, <2>0 DEF NamesOf, Rooted
  <2>2. Registered(m)'
    BY <2>0 DEF Registered
  <2>3. \A g \in Renames(m)' : \E h \in Renames(m) : h.no = g.no /\ h.name = g.name
    BY <2>0 DEF Renames
  <2>4. \A g \in Renames(m) : \E h \in Renames(m)' : h.no = g.no /\ h.name = g.name
    BY <2>0 DEF Renames
  <2>5. ASSUME ~Excepted(m)', profile'[m] # NoProfile
        PROVE  Ahead(m)' /\ Held(m)' /\ (InUsers(m) \/ InQueue(m) \/ InHand(m))'
    <3>1. Ahead(m) /\ Held(m) /\ (InUsers(m) \/ InQueue(m) \/ InHand(m))
      BY <1>0, <1>3, <2>5 DEF NamesOf, Named, Excepted
    <3>2. Ahead(m)'
      <4> SUFFICES ASSUME NEW j \in Jobs, WorksFor(j, m, Renaming), NEW g \in Renames(m)'
                   PROVE  Older(g.no, job[j].no)
        BY <1>0, <1>1 DEF Ahead, Older
      <4> QED BY <2>3, <3>1 DEF Ahead
    <3>3. Held(m)' /\ (InHand(m) => InHand(m)')
      BY <1>0, <1>1, <3>1 DEF Held, InHand
    <3>4. ASSUME InUsers(m) PROVE InUsers(m)'
      <4> SUFFICES ASSUME NEW g \in Renames(m)'
                   PROVE  Older(g.no, synced[m]) \/ (g.no = synced[m] /\ g.name = profile[m].name)
        BY <1>0, <3>4 DEF InUsers, Older
      <4> QED BY <2>3, <3>4 DEF InUsers
    <3>5. ASSUME NEW a, Newest(m, a) PROVE InQueue(m)'
      <4>1. PICK b \in Renames(m)' : b.no = a.no /\ b.name = a.name
        BY <2>4, <3>5 DEF Newest
      <4>2. ASSUME NEW g \in Renames(m)'
            PROVE  Older(g.no, b.no) \/ (g.no = b.no /\ g.name = profile[m].name)
        BY <2>3, <3>5, <4>1 DEF Newest
      <4>3. Newest(m, b)'
        BY <1>0, <3>5, <4>1, <4>2 DEF Newest, Older
      <4> QED BY <4>3 DEF InQueue
    <3> QED BY <3>1, <3>2, <3>3, <3>4, <3>5 DEF InQueue
  <2> QED BY <2>1, <2>2, <2>5 DEF NamesOf, Named
<1> QED BY <1>2, <1>3, RetriedTakes DEF EventFails

\* The UPDATE of the name: from here on the handler that made it has to tell.
LEMMA NamesWrite ==
  ASSUME Shaped, NEW m \in Members, NamesOf(m), OneWriter(m), NEW j \in Jobs, job[j].user = m,
         WriteName(j), JobGoes(j, "drop")
  PROVE  NamesOf(m)'
<1> DEFINE n == job[j].name
<1>1. /\ job[j].at = "write" /\ n \in Names /\ job'[j].name = n /\ job'[j].no = job[j].no
      /\ job[j] # NoJob /\ job'[j] # NoJob /\ job'[j].user = m /\ job'[j].at = "drop"
      /\ \A i \in Jobs \ {j} : job'[i] = job[i]
  BY DEF WriteName, JobGoes, Equipped, Renaming, OtherJobs
<1>2. \A i \in Jobs : i # j => \A S : WorksFor(i, m, S)' <=> WorksFor(i, m, S)
  BY <1>1 DEF WorksFor
<1>3. WorksFor(j, m, Writes) /\ WorksFor(j, m, Renaming) /\ WorksFor(j, m, {"drop", "tell"})'
  BY <1>1 DEF WorksFor, Writes, Renaming
<1>4. ~(\E o \in Members \ {m} : profile[o].name = n)
      /\ UNCHANGED <<login, events, synced, astray, clashed, botched>>
  <2>1. ~Finishes(j)
    BY <1>1, JobStops DEF JobOver
  <2> QED BY <2>1 DEF WriteName, Undisturbed, marks
<1>5. profile' = [profile EXCEPT ![m].name = n]
  BY <1>4 DEF WriteName
<1> HIDE DEF n
<1>6. profile'[m].name = n /\ profile'[m] # NoProfile /\ n \in Names
  <2>1. profile[m] \in ProfileRow
    BY DEF Shaped, RowsOK
  <2>2. profile'[m] = [profile[m] EXCEPT !.name = n]
    BY <1>5 DEF Shaped, RowsOK
  <2>3. profile'[m].name = n /\ n \in Names
    BY <1>1, <2>1, <2>2, RowFields DEF n
  <2> QED BY <2>3, RowFields
<1>7. profile[m] # NoProfile /\ login[m] # NoName
  BY <1>3 DEF NamesOf, Rooted
<1>8. Rooted(m)' /\ Registered(m)'
  BY <1>4, <1>6, <1>7 DEF Rooted, Registered
<1>9. ASSUME ~Excepted(m)' PROVE Named(m)'
  <2>1. ~Excepted(m)
    BY <1>4, <1>9 DEF Excepted
  <2>2. Ahead(m)
    BY <1>7, <2>1 DEF NamesOf, Named
  <2>3. \A i \in Jobs : i # j => ~WorksFor(i, m, Writes)
    BY <1>3, <2>1 DEF OneWriter, Excepted
  <2>4. \A i \in Jobs : i # j => ~WorksFor(i, m, Renaming)' /\ ~WorksFor(i, m, {"drop", "tell"})'
    <3>1. \A i \in Jobs : (WorksFor(i, m, Renaming) \/ WorksFor(i, m, {"drop", "tell"})) => WorksFor(i, m, Writes)
      BY DEF WorksFor, Writes, Renaming
    <3> QED BY <1>2, <2>3, <3>1
  <2>5. Ahead(m)'
    <3>1. Renames(m)' = Renames(m)
      BY <1>4 DEF Renames
    <3> QED BY <1>1, <1>3, <2>2, <2>4, <3>1 DEF Ahead, Older
  <2>6. Held(m)' /\ InHand(m)'
    BY <1>1, <1>3, <1>6, <2>4 DEF Held, InHand, n
  <2> QED BY <2>5, <2>6 DEF Named
<1> QED BY <1>8, <1>9 DEF NamesOf, Named

\* The event about it is the newest.
LEMMA NamesTell ==
  ASSUME Shaped, NEW m \in Members, NamesOf(m), OneWriter(m), NEW j \in Jobs, job[j].user = m,
         TellName(j), JobOver(j)
  PROVE  NamesOf(m)'
<1>8. PICK e : e = [kind |-> "renamed", user |-> m, name |-> job[j].name, no |-> job[j].no, tries |-> 0]
  OBVIOUS
<1>1. /\ events' = events \cup {e} /\ job[j].at = "tell" /\ job[j] # NoJob /\ job'[j] = NoJob
      /\ \A i \in Jobs \ {j} : job'[i] = job[i]
      /\ UNCHANGED <<login, profile, synced, astray, clashed, botched>>
  BY <1>8 DEF TellName, JobOver, OtherJobs, rowVars, Undisturbed, marks
<1>2. e.kind = "renamed" /\ e.user = m /\ e.name = job[j].name /\ e.no = job[j].no
  BY <1>8
<1>3. WorksFor(j, m, Writes) /\ WorksFor(j, m, Renaming) /\ WorksFor(j, m, {"drop", "tell"})
  BY <1>1 DEF WorksFor, Writes, Renaming
<1>4. \A i \in Jobs : \A S : WorksFor(i, m, S)' <=> i # j /\ WorksFor(i, m, S)
  BY <1>1 DEF WorksFor
<1>5. profile[m] # NoProfile /\ login[m] # NoName
  BY <1>3 DEF NamesOf, Rooted
<1>6. Rooted(m)' /\ Registered(m)'
  BY <1>1, <1>5 DEF Rooted, Registered, NamesOf
<1>0. Excepted(m)' <=> Excepted(m)
  BY <1>1 DEF Excepted
<1>7. ASSUME ~Excepted(m) PROVE Named(m)'
  <2>1. Ahead(m) /\ Held(m)
    BY <1>5, <1>7 DEF NamesOf, Named
  <2>2. \A i \in Jobs : i # j => ~WorksFor(i, m, Writes)
    BY <1>3, <1>7 DEF OneWriter, Excepted
  <2>3. \A i \in Jobs : ~WorksFor(i, m, Renaming)' /\ ~WorksFor(i, m, {"drop", "tell"})'
    <3>1. \A i \in Jobs : (WorksFor(i, m, Renaming) \/ WorksFor(i, m, {"drop", "tell"})) => WorksFor(i, m, Writes)
      BY DEF WorksFor, Writes, Renaming
    <3> QED BY <1>4, <2>2, <3>1
  <2>4. Ahead(m)' /\ Held(m)'
    BY <2>3 DEF Ahead, Held
  <2>5. e.name = profile[m].name /\ \A f \in Renames(m) : Older(f.no, e.no)
    BY <1>2, <1>3, <2>1 DEF Ahead, Held
  <2>6. e \in Renames(m)' /\ \A f \in Renames(m)' : f = e \/ f \in Renames(m)
    BY <1>1, <1>2 DEF Renames
  <2>8. ASSUME NEW f \in Renames(m)'
        PROVE  Older(f.no, e.no) \/ (f.no = e.no /\ f.name = profile[m].name)
    BY <2>5, <2>6
  <2>9. e.name = profile'[m].name
    BY <1>1, <2>5
  <2>10. \A f \in Renames(m)' : Older(f.no, e.no) \/ (f.no = e.no /\ f.name = profile'[m].name)
    BY <1>1, <2>8
  <2>7. Newest(m, e)'
    BY <2>6, <2>9, <2>10 DEF Newest, Older
  <2> QED BY <2>4, <2>7 DEF Named, InQueue
<1> QED BY <1>0, <1>6, <1>7 DEF NamesOf, Named

\* A rename draws a number that no event has.
LEMMA NamesRename ==
  ASSUME Shaped, NEW m \in Members, NamesOf(m), NEW j \in Jobs, NEW n \in Names, UpdateProfile(j, m, n)
  PROVE  NamesOf(m)'
<1>1. /\ JobBegun(j, "check", m, n, drawnNo + 1) /\ profile[m] # NoProfile
      /\ UNCHANGED <<login, profile, events, synced, astray, clashed>> /\ botched \subseteq botched'
  BY NewJobs DEF UpdateProfile, rowVars
<1>2. /\ job[j] = NoJob /\ (\A i \in Jobs \ {j} : job'[i] = job[i])
      /\ job'[j].no = drawnNo + 1 /\ job'[j].at = "check"
  BY <1>1 DEF JobBegun, OtherJobs
<1>3. \A i \in Jobs \ {j} : \A S : WorksFor(i, m, S)' <=> WorksFor(i, m, S)
  BY <1>2 DEF WorksFor
<1>4. ~WorksFor(j, m, {"drop", "tell"}) /\ ~WorksFor(j, m, {"drop", "tell"})'
  BY <1>2 DEF WorksFor
<1>5. Renames(m)' = Renames(m)
  BY <1>1 DEF Renames
<1>6. Rooted(m)' /\ Registered(m)'
  BY <1>1 DEF Rooted, Registered, NamesOf
<1>7. ASSUME ~Excepted(m)' PROVE Named(m)'
  <2>1. Ahead(m) /\ Held(m) /\ (InUsers(m) \/ InQueue(m) \/ InHand(m))
    BY <1>1, <1>7 DEF NamesOf, Named, Excepted
  <2>2. \A f \in Renames(m) : Older(f.no, drawnNo + 1)
    <3> SUFFICES ASSUME NEW f \in Renames(m) PROVE Older(f.no, drawnNo + 1)
      OBVIOUS
    <3>1. f.no \in 0..drawnNo /\ drawnNo \in Nat
      BY ProfilesAssumption DEF Renames, Shaped, DrawnElse, WasDrawn, Numbers, ProfilesAssumption
    <3> QED BY <3>1 DEF Older
  <2>3. Ahead(m)'
    <3> SUFFICES ASSUME NEW i \in Jobs, WorksFor(i, m, Renaming)', NEW f \in Renames(m)
                 PROVE  Older(f.no, job'[i].no)
      BY <1>5 DEF Ahead, Older
    <3> QED BY <1>2, <1>3, <2>1, <2>2 DEF Ahead
  <2>4. Held(m)' /\ (InHand(m) => InHand(m)')
    BY <1>1, <1>2, <1>3, <1>4, <2>1 DEF Held, InHand
  <2>5. (InUsers(m) => InUsers(m)') /\ (InQueue(m) => InQueue(m)')
    BY <1>1, <1>5 DEF InUsers, InQueue, Newest, Older
  <2> QED BY <2>1, <2>3, <2>4, <2>5 DEF Named
<1> QED BY <1>6, <1>7 DEF NamesOf, Named

\* No step loses the name.
LEMMA NamesStep ==
  ASSUME Shaped, [ProfilesNext]_profilesVars, NEW m \in Members, NamesOf(m), OneWriter(m)
  PROVE  NamesOf(m)'
<1>1. ASSUME NEW w \in Members, NEW n \in Names, NEW p \in {"yes", "no"}, Join(w, n, p)
      PROVE  NamesOf(m)'
  BY <1>1, NamesJoin, SameByEvents, SameKeeps
<1>2. ASSUME NEW e \in events, EventStep(e) PROVE NamesOf(m)'
  <2>1. CASE e.user = m
    BY <1>2, <2>1, NamesSync, NamesCreate, NamesFail DEF EventStep
  <2>2. CASE e.user # m
    BY <1>2, <2>2, SameByEvents, SameKeeps
  <2> QED BY <2>1, <2>2
<1>3. ASSUME NEW j \in Jobs, JobStep(j) PROVE NamesOf(m)'
  <2>0. Rooted(m)
    BY DEF NamesOf
  <2>1. CASE job[j].user = m /\ TellName(j)
    BY <2>1, JobTakes, NamesTell
  <2>2. CASE job[j].user = m /\ WriteName(j) /\ ~(JobOver(j) /\ UNCHANGED profile)
    BY <2>2, JobTakes, NamesWrite
  <2>3. CASE job[j].user = m => ~TellName(j) /\ (WriteName(j) => JobOver(j) /\ UNCHANGED profile)
    BY <1>3, <2>0, <2>3, SameByJobs, SameKeeps
  <2> QED BY <2>1, <2>2, <2>3
<1>4. ASSUME NEW j \in Jobs, NEW w \in Members, UploadAvatar(j, w) \/ GetProfile(j, w)
      PROVE  NamesOf(m)'
  BY <1>4, SameByCalls, SameKeeps
<1>5. ASSUME NEW j \in Jobs, NEW w \in Members, NEW n \in Names, UpdateProfile(j, w, n)
      PROVE  NamesOf(m)'
  <2>1. CASE w = m
    BY <1>5, <2>1, NamesRename
  <2>2. CASE w # m
    BY <1>5, <2>2, SameByCalls, SameKeeps
  <2> QED BY <2>1, <2>2
<1>6. ASSUME (\E w \in Members : CacheLapses(w)) \/ UNCHANGED profilesVars PROVE NamesOf(m)'
  BY <1>6, SameByEvents, SameKeeps
<1> QED BY <1>1, <1>2, <1>3, <1>4, <1>5, <1>6 DEF ProfilesNext

NamesInv == Shaped /\ \A m \in Members : OneWriter(m) /\ NamesOf(m)

\* At the start nobody has a name.
LEMMA NamesBegin == ProfilesInit => NamesInv
<1> SUFFICES ASSUME ProfilesInit, NEW m \in Members PROVE OneWriter(m) /\ NamesOf(m)
  BY ShapedBegin DEF NamesInv
<1>1. /\ login[m] = NoName /\ profile[m] = NoProfile /\ events = {}
      /\ \A j \in Jobs : job[j] = NoJob
  BY DEF ProfilesInit
<1>2. \A j \in Jobs : ~WorksFor(j, m, Writes)
  BY <1>1 DEF WorksFor
<1>3. Rooted(m) /\ Registered(m) /\ Named(m)
  BY <1>1, <1>2 DEF Rooted, Registered, Named
<1> QED BY <1>2, <1>3 DEF OneWriter, NamesOf

\* One writer at a time, and the name in users, in the newest event or in hand.
LEMMA NamesKept == ProfilesSpec => []NamesInv
<1>1. NamesInv /\ [ProfilesNext]_profilesVars => NamesInv'
  BY ShapedStep, OneWriterStep, NamesStep DEF NamesInv
<1> QED BY <1>1, NamesBegin, PTL DEF ProfilesSpec

\* NamesConverge (updateProfile, createIfNotExists and the username consumer): once a member is
\* at rest, its names are one, unless an event was lost or applied out of order, a handler threw
\* or overlapped, or the name was taken in the other table.
THEOREM Converging == ProfilesSpec => []NamesConverge
<1>1. NamesInv => NamesConverge
  <2> SUFFICES ASSUME NamesInv, NEW m \in Members, AtRest(m), ~Excepted(m)
               PROVE  login[m] = profile[m].name
    BY DEF NamesConverge, Excepted
  <2>1. Shaped /\ NamesOf(m)
    BY DEF NamesInv
  <2>2. \A j \in Jobs : ~WorksFor(j, m, Writes)
    BY <2>1, WritingIs DEF AtRest
  <2>3. ~InHand(m)
    <3>1. \A j \in Jobs : WorksFor(j, m, {"drop", "tell"}) => WorksFor(j, m, Writes)
      BY DEF WorksFor, Writes, Renaming
    <3> QED BY <2>2, <3>1 DEF InHand
  <2>4. ~InQueue(m)
    BY DEF AtRest, InQueue, Newest, Renames
  <2>5. CASE profile[m] = NoProfile
    <3>1. login[m] = NoName
      BY <2>1, <2>5 DEF AtRest, NamesOf, Registered
    <3> QED BY <2>5, <3>1, RowFields
  <2>6. CASE profile[m] # NoProfile
    BY <2>1, <2>3, <2>4, <2>6 DEF NamesOf, Named, InUsers
  <2> QED BY <2>5, <2>6
<1> QED BY <1>1, NamesKept, PTL

-------------------------------------------------------------------------------
(* Profiles: ProfilesAreShown.                                               *)

\* The number of an avatar is its member's alone: that of the row, those that handlers read and drew.
Holds(j, m, k) == job[j] # NoJob /\ job[j].user = m /\ k \in {job[j].no, job[j].row.avatar}
Owns(m, k)     == k = profile[m].avatar \/ \E j \in Jobs : Holds(j, m, k)
Separate == \A m, w \in Members : \A k : m # w /\ Owns(m, k) /\ Owns(w, k) => k = Default

\* Only PointToObject changes the avatar of a row.
LEMMA AvatarsStay ==
  ASSUME Shaped, [ProfilesNext]_profilesVars, NEW m \in Members,
         ~\E j \in Jobs : job[j].user = m /\ PointToObject(j)
  PROVE  profile'[m].avatar = profile[m].avatar
<1>1. CASE UNCHANGED profile
  BY <1>1
<1>2. ASSUME NEW j \in Jobs, PointToObject(j) PROVE profile'[m].avatar = profile[m].avatar
  BY <1>2 DEF PointToObject, Shaped, RowsOK
<1>3. ASSUME NEW j \in Jobs, WriteName(j), ~UNCHANGED profile PROVE profile'[m].avatar = profile[m].avatar
  <2>1. profile' = [profile EXCEPT ![job[j].user].name = job[j].name] /\ JobGoes(j, "drop")
    BY <1>3, JobTakes DEF WriteName
  <2>2. CASE job[j].user # m
    BY <2>1, <2>2 DEF Shaped, RowsOK
  <2>3. CASE job[j].user = m
    <3>1. profile[m] \in ProfileRow
      BY DEF Shaped, RowsOK
    <3>2. profile'[m] = [profile[m] EXCEPT !.name = job[j].name]
      BY <2>1, <2>3 DEF Shaped, RowsOK
    <3> QED BY <3>1, <3>2 DEF ProfileRow
  <2> QED BY <2>2, <2>3
<1>4. ASSUME NEW e \in events, CreateProfile(e), ~UNCHANGED profile PROVE profile'[m].avatar = profile[m].avatar
  <2> DEFINE r == [name |-> e.name, avatar |-> Default]
  <2>1. profile[e.user] = NoProfile /\ profile' = [profile EXCEPT ![e.user] = r]
    BY <1>4 DEF CreateProfile
  <2>2. r.avatar = Default /\ NoProfile.avatar = Default
    BY RowFields
  <2> HIDE DEF r
  <2> QED BY <2>1, <2>2 DEF Shaped, RowsOK
<1>5. \/ UNCHANGED profile \/ \E j \in Jobs : PointToObject(j) \/ WriteName(j)
      \/ \E e \in events : CreateProfile(e)
  BY DEF ProfilesNext, EventStep, SyncUsername, EventFails, Join, CacheLapses, JobStep, CheckName, DropCache,
         TellName, PutObject, RemoveOld, RemoveFails, ReadProfile, CacheProfile, JobThrows, UploadAvatar,
         GetProfile, UpdateProfile, rowVars, profilesVars
<1> QED BY <1>1, <1>2, <1>3, <1>4, <1>5

\* What is a member's was drawn.
LEMMA MineDrawn ==
  ASSUME Shaped, NEW m \in Members, NEW k, Owns(m, k)
  PROVE  WasDrawn(k)
  BY DEF Owns, Holds, Shaped, DrawnJobs, DrawnElse

\* What becomes a member's was so, or is drawn.
LEMMA MineStep ==
  ASSUME Shaped, [ProfilesNext]_profilesVars
  PROVE  \E u : \A m \in Members : \A k :
           Owns(m, k)' => Owns(m, k) \/ k = Default \/ (m = u /\ k = drawnNo + 1)
<1>1. ASSUME NEW j \in Jobs, JobStep(j), NEW m \in Members, NEW k, Owns(m, k)'
      PROVE  Owns(m, k)
  <2>1. JobOver(j) \/ JobRereads(j) \/ \E x : JobGoes(j, x)
    BY <1>1, JobTakes DEF JobStep
  <2>2. \A i \in Jobs \ {j} : job'[i] = job[i]
    BY <2>1 DEF JobOver, JobRereads, JobGoes, OtherJobs
  <2>3. Holds(j, m, k)' => Owns(m, k)
    <3>1. CASE JobOver(j)
      BY <3>1 DEF JobOver, Holds
    <3>2. CASE JobRereads(j)
      BY <3>2 DEF JobRereads, Holds, Owns
    <3>3. CASE \E x : JobGoes(j, x)
      BY <3>3 DEF JobGoes, Holds, Owns
    <3> QED BY <2>1, <3>1, <3>2, <3>3
  <2>4. \A i \in Jobs : Holds(i, m, k)' => Owns(m, k)
    BY <2>2, <2>3 DEF Holds, Owns
  <2>5. k = profile'[m].avatar => Owns(m, k)
    <3>1. CASE \E i \in Jobs : job[i].user = m /\ PointToObject(i)
      <4>1. PICK i \in Jobs : job[i].user = m /\ PointToObject(i)
        BY <3>1
      <4>2. job[i] # NoJob /\ job[i].no \in Numbers
        BY <4>1, JobTakes DEF JobGoes, Fields
      <4>3. profile'[m].avatar = job[i].no
        <5>1. profile[m] \in ProfileRow /\ profile' = [profile EXCEPT ![m].avatar = job[i].no]
          BY <4>1 DEF PointToObject, Shaped, RowsOK
        <5>2. profile'[m] = [profile[m] EXCEPT !.avatar = job[i].no]
          BY <5>1 DEF Shaped, RowsOK
        <5>3. [profile[m] EXCEPT !.avatar = job[i].no].avatar = job[i].no
          BY <5>1 DEF ProfileRow
        <5> QED BY <5>2, <5>3
      <4> QED BY <4>1, <4>2, <4>3 DEF Owns, Holds
    <3>2. CASE ~\E i \in Jobs : job[i].user = m /\ PointToObject(i)
      BY <3>2, AvatarsStay DEF Owns
    <3> QED BY <3>1, <3>2
  <2> QED BY <1>1, <2>4, <2>5 DEF Owns
<1>2. ASSUME NEW j \in Jobs, NEW w \in Members,
             UploadAvatar(j, w) \/ GetProfile(j, w) \/ \E n \in Names : UpdateProfile(j, w, n)
      PROVE  \A m \in Members : \A k : Owns(m, k)' => Owns(m, k) \/ k = Default \/ (m = w /\ k = drawnNo + 1)
  <2>1. \E x, n, k : JobBegun(j, x, w, n, k) /\ k \in {Default, drawnNo + 1}
    BY <1>2, NewJobs
  <2>2. UNCHANGED profile
    BY <1>2 DEF UploadAvatar, GetProfile, UpdateProfile, rowVars
  <2> SUFFICES ASSUME NEW m \in Members, NEW k, Owns(m, k)'
               PROVE  Owns(m, k) \/ k = Default \/ (m = w /\ k = drawnNo + 1)
    OBVIOUS
  <2>3. \A i \in Jobs \ {j} : Holds(i, m, k)' => Owns(m, k)
    BY <2>1 DEF JobBegun, OtherJobs, Holds, Owns
  <2>4. Holds(j, m, k)' => Owns(m, k) \/ k = Default \/ (m = w /\ k = drawnNo + 1)
    BY <2>1 DEF JobBegun, Holds, Owns
  <2> QED BY <2>2, <2>3, <2>4 DEF Owns
<1>3. ASSUME UNCHANGED job, \A m \in Members : profile'[m].avatar = profile[m].avatar
      PROVE  \A m \in Members : \A k : Owns(m, k)' => Owns(m, k)
  BY <1>3 DEF Owns, Holds
<1>4. ASSUME \/ \E e \in events : EventStep(e)
             \/ \E w \in Members, n \in Names, p \in {"yes", "no"} : Join(w, n, p)
             \/ \E w \in Members : CacheLapses(w)
             \/ UNCHANGED profilesVars
      PROVE  \A m \in Members : \A k : Owns(m, k)' => Owns(m, k)
  <2>1. UNCHANGED job
    BY <1>4 DEF EventStep, SyncUsername, CreateProfile, EventFails, Join, CacheLapses, profilesVars
  <2>2. \A i \in Jobs : ~PointToObject(i)
    <3>1. \A i \in Jobs : PointToObject(i) => job'[i].at # job[i].at
      BY JobTakes DEF JobGoes
    <3> QED BY <2>1, <3>1
  <2> QED BY <1>3, <2>1, <2>2, AvatarsStay
<1> QED BY <1>1, <1>2, <1>4 DEF ProfilesNext

\* A fresh number is nobody else's.
LEMMA SeparateStep ==
  ASSUME Shaped, [ProfilesNext]_profilesVars, Separate
  PROVE  Separate'
<1>1. PICK u : \A m \in Members : \A k :
        Owns(m, k)' => Owns(m, k) \/ k = Default \/ (m = u /\ k = drawnNo + 1)
  BY MineStep
<1>2. \A m \in Members : ~Owns(m, drawnNo + 1)
  BY MineDrawn, DrawnStays
<1> QED BY <1>1, <1>2 DEF Separate

Storing == {"put", "remove", "point"}
\* An upload knows the avatar of the row; its object is there once it is put, and the old one gone
\* before the row points to the new one.
Uploads(m) ==
  \A j \in Jobs : WorksFor(j, m, Storing) =>
    /\ job[j].row.avatar = profile[m].avatar
    /\ job[j].at # "put" => job[j].no \in objects
    /\ job[j].at = "point" => profile[m].avatar \notin objects
Pictured(m) == profile[m].avatar \in objects \cup {Default} \/ \E j \in Jobs : WorksFor(j, m, {"point"})
PicturesOf(m) == m \notin botched => Uploads(m) /\ Pictured(m)

\* A step that leaves the avatar, its objects and the uploads alone.
LEMMA PicturesKept ==
  ASSUME Shaped, Shaped', NEW m \in Members, PicturesOf(m), profile'[m].avatar = profile[m].avatar,
         \A k : Owns(m, k) /\ k # Default => (k \in objects' <=> k \in objects),
         m \in botched => m \in botched',
         \A i \in Jobs : WorksFor(i, m, Storing)' =>
           \/ m \in botched' \/ (WorksFor(i, m, Storing) /\ job'[i] = job[i])
           \/ job'[i].at = "put" /\ job'[i].row.avatar = profile[m].avatar,
         \A i \in Jobs : WorksFor(i, m, {"point"}) => m \in botched' \/ WorksFor(i, m, {"point"})'
  PROVE  PicturesOf(m)'
<1> SUFFICES ASSUME m \notin botched' PROVE Uploads(m)' /\ Pictured(m)'
  BY DEF PicturesOf
<1>1. Uploads(m) /\ Pictured(m)
  BY DEF PicturesOf
<1>2. Default \notin objects /\ Default \notin objects'
  BY DEF Shaped, StoreOK
<1>3. profile[m].avatar \in objects' <=> profile[m].avatar \in objects
  BY <1>2 DEF Owns
<1>4. Pictured(m)'
  BY <1>1, <1>3 DEF Pictured
<1>5. ASSUME NEW i \in Jobs, WorksFor(i, m, Storing)'
      PROVE  /\ job'[i].row.avatar = profile[m].avatar
             /\ job'[i].at # "put" => job'[i].no \in objects'
             /\ job'[i].at = "point" => profile[m].avatar \notin objects'
  <2>1. CASE job'[i].at = "put" /\ job'[i].row.avatar = profile[m].avatar
    BY <2>1
  <2>2. CASE WorksFor(i, m, Storing) /\ job'[i] = job[i]
    <3>1. Owns(m, job[i].no) /\ job[i].no # Default
      BY <2>2 DEF Owns, Holds, WorksFor, Storing, Shaped, JobsOK, Equipped, Looking
    <3> QED BY <1>1, <1>3, <2>2, <3>1 DEF Uploads
  <2> QED BY <1>5, <2>1, <2>2
<1> QED BY <1>4, <1>5 DEF Uploads

\* The objects of others.
LEMMA ObjectsApart ==
  ASSUME Shaped, Separate, [ProfilesNext]_profilesVars, NEW m \in Members,
         ~\E j \in Jobs : job[j].user = m /\ (PutObject(j) \/ RemoveOld(j)), NEW k, Owns(m, k), k # Default
  PROVE  k \in objects' <=> k \in objects
<1>1. CASE UNCHANGED objects
  BY <1>1
<1>2. ASSUME NEW j \in Jobs, PutObject(j) \/ RemoveOld(j) PROVE k \in objects' <=> k \in objects
  <2>1. job[j] # NoJob /\ job[j].user \in Members /\ job[j].user # m
    BY <1>2, JobTakes DEF JobGoes, Fields
  <2>2. k \notin {job[j].no, job[j].row.avatar}
    BY <2>1 DEF Separate, Owns, Holds
  <2> QED BY <1>2, <2>2 DEF PutObject, RemoveOld
<1>3. UNCHANGED objects \/ \E j \in Jobs : PutObject(j) \/ RemoveOld(j)
  BY DEF ProfilesNext, EventStep, SyncUsername, CreateProfile, EventFails, Join, CacheLapses, JobStep, CheckName,
         WriteName, DropCache, TellName, RemoveFails, PointToObject, ReadProfile, CacheProfile, JobThrows,
         UploadAvatar, GetProfile, UpdateProfile, rowVars, storeVars, profilesVars
<1> QED BY <1>1, <1>2, <1>3

\* The three steps that an upload makes for its member.
LEMMA UploadSteps ==
  ASSUME Shaped, Shaped', NEW m \in Members, PicturesOf(m), OneWriter(m), NEW j \in Jobs,
         job[j].user = m, PutObject(j) \/ RemoveOld(j) \/ PointToObject(j)
  PROVE  PicturesOf(m)'
<1> SUFFICES ASSUME m \notin botched' PROVE Uploads(m)' /\ Pictured(m)'
  BY DEF PicturesOf
<1>0. \E x \in {"remove", "point", "drop last"} : JobGoes(j, x)
  BY JobTakes
<1>1. /\ m \notin botched /\ job[j] # NoJob /\ job'[j] # NoJob /\ job'[j].user = m
      /\ job'[j].no = job[j].no /\ job'[j].row = job[j].row
      /\ \A i \in Jobs \ {j} : job'[i] = job[i]
      /\ Equipped(job[j]) /\ job[j].no \in Numbers
  BY <1>0 DEF PutObject, RemoveOld, PointToObject, JobGoes, OtherJobs, Undisturbed, marks, Fields
<1>2. Uploads(m) /\ Pictured(m)
  BY <1>1 DEF PicturesOf
<1>3. WorksFor(j, m, Writes) /\ WorksFor(j, m, Storing)
  BY <1>1 DEF PutObject, RemoveOld, PointToObject, WorksFor, Writes, Uploading, Storing
<1>4. \A i \in Jobs : i # j => ~WorksFor(i, m, Writes) /\ ~WorksFor(i, m, Storing)' /\ ~WorksFor(i, m, {"point"})
  <2>1. \A i \in Jobs : i # j => ~WorksFor(i, m, Writes)
    BY <1>1, <1>3 DEF OneWriter
  <2> QED BY <1>1, <2>1 DEF WorksFor, Writes, Uploading, Storing
<1>5. Default \notin objects /\ Default \notin objects' /\ job[j].row.avatar = profile[m].avatar
  BY <1>2, <1>3 DEF Shaped, StoreOK, Uploads
<1>6. job[j].no # Default /\ job[j].no # job[j].row.avatar
  BY <1>1, <1>3 DEF Equipped, WorksFor, Storing, Uploading, Looking
<1>7. CASE PutObject(j)
  <2>1. /\ objects' = objects \cup {job[j].no} /\ UNCHANGED profile /\ job[j].at = "put"
        /\ \/ job'[j].at = "remove"
           \/ job'[j].at = "point" /\ job[j].row.avatar = Default
    BY <1>7, JobTakes DEF PutObject, JobGoes, rowVars
  <2>2. ~WorksFor(j, m, {"point"})
    BY <2>1 DEF WorksFor
  <2>3. Pictured(m)'
    BY <1>2, <1>4, <2>1, <2>2 DEF Pictured
  <2>4. Uploads(m)'
    BY <1>1, <1>4, <1>5, <2>1 DEF Uploads
  <2> QED BY <2>3, <2>4
<1>8. CASE RemoveOld(j)
  <2>1. objects' = objects \ {job[j].row.avatar} /\ UNCHANGED profile /\ job[j].at = "remove" /\ job'[j].at = "point"
    BY <1>8, JobTakes DEF RemoveOld, JobGoes, rowVars
  <2>2. job[j].no \in objects
    BY <1>2, <1>3, <2>1 DEF Uploads
  <2>3. Pictured(m)'
    <3>1. WorksFor(j, m, {"point"})'
      BY <1>1, <2>1 DEF WorksFor
    <3> QED BY <3>1 DEF Pictured
  <2>4. Uploads(m)'
    <3>1. profile[m].avatar \notin objects' /\ job[j].no \in objects'
      BY <1>5, <1>6, <2>1, <2>2
    <3> QED BY <1>1, <1>4, <1>5, <2>1, <3>1 DEF Uploads
  <2> QED BY <2>3, <2>4
<1>9. CASE PointToObject(j)
  <2>1. /\ UNCHANGED objects /\ job[j].at = "point" /\ job'[j].at = "drop last"
        /\ profile' = [profile EXCEPT ![m].avatar = job[j].no]
    BY <1>9, JobTakes DEF PointToObject, JobGoes, storeVars
  <2>2. job[j].no \in objects
    BY <1>2, <1>3, <2>1 DEF Uploads
  <2>3. profile'[m].avatar = job[j].no
    <3>1. profile[m] \in ProfileRow /\ profile'[m] = [profile[m] EXCEPT !.avatar = job[j].no]
      BY <2>1 DEF Shaped, RowsOK
    <3> QED BY <3>1 DEF ProfileRow
  <2>4. Pictured(m)'
    <3>1. objects' = objects
      BY <2>1
    <3>2. profile'[m].avatar \in objects'
      BY <2>2, <2>3, <3>1
    <3> QED BY <3>2 DEF Pictured
  <2>5. ~WorksFor(j, m, Storing)'
    BY <2>1 DEF WorksFor, Storing
  <2> QED BY <1>4, <2>4, <2>5 DEF Uploads
<1> QED BY <1>7, <1>8, <1>9

\* Steps of handlers keep the avatars of members without mishaps,
LEMMA PicturesByJobs ==
  ASSUME Shaped, Shaped', Separate, NEW j \in Jobs, JobStep(j), NEW m \in Members, PicturesOf(m), OneWriter(m)
  PROVE  PicturesOf(m)'
<1>0. [ProfilesNext]_profilesVars /\ botched \subseteq botched'
  BY Writers DEF ProfilesNext
<1>1. CASE job[j].user = m /\ (PutObject(j) \/ RemoveOld(j) \/ PointToObject(j))
  BY <1>1, UploadSteps
<1>2. CASE ~(job[j].user = m /\ (PutObject(j) \/ RemoveOld(j) \/ PointToObject(j)))
  <2>0. JobOver(j) \/ JobRereads(j) \/ \E x : JobGoes(j, x)
    BY JobTakes DEF JobStep
  <2>1. (\A i \in Jobs \ {j} : job'[i] = job[i]) /\ job[j] # NoJob /\ job' # job
    <3>1. (\A i \in Jobs \ {j} : job'[i] = job[i]) /\ job[j] # NoJob
      BY <2>0 DEF JobOver, JobRereads, JobGoes, OtherJobs
    <3>2. job' # job
      BY <3>1, JobTakes DEF JobStep, JobOver, JobRereads, JobGoes, JobThrows
    <3> QED BY <3>1, <3>2
  <2>2. \A i \in Jobs : i # j => ~PutObject(i) /\ ~RemoveOld(i) /\ ~PointToObject(i)
    <3>1. \A i \in Jobs : PutObject(i) \/ RemoveOld(i) \/ PointToObject(i) => job'[i] # job[i]
      BY JobTakes DEF JobGoes
    <3> QED BY <2>1, <3>1
  <2>3. profile'[m].avatar = profile[m].avatar
    BY <1>0, <1>2, <2>2, AvatarsStay
  <2>4. \A k : Owns(m, k) /\ k # Default => (k \in objects' <=> k \in objects)
    BY <1>0, <1>2, <2>2, ObjectsApart
  <2>5. job[j].user = m => m \in botched' \/ (~WorksFor(j, m, Storing) /\ ~WorksFor(j, m, Storing)')
    <3> SUFFICES ASSUME job[j].user = m, m \notin botched'
                 PROVE  ~WorksFor(j, m, Storing) /\ ~WorksFor(j, m, Storing)'
      OBVIOUS
    <3>1. CASE JobOver(j)
      <4>1. ~WorksFor(j, m, Storing)'
        BY <3>1 DEF JobOver, WorksFor
      <4>2. ~RemoveFails(j) /\ (JobThrows(j) => job[j].at \in {"read", "fill"})
        BY DEF RemoveFails, JobThrows
      <4>3. job[j].at \notin Storing
        BY <1>2, <4>2 DEF JobStep, CheckName, WriteName, DropCache, TellName, ReadProfile, CacheProfile, Storing
      <4> QED BY <4>1, <4>3 DEF WorksFor
    <3>2. CASE JobRereads(j)
      BY <3>2 DEF JobRereads, WorksFor, Storing
    <3>3. ASSUME NEW x, JobGoes(j, x), ~JobRereads(j) PROVE ~WorksFor(j, m, Storing) /\ ~WorksFor(j, m, Storing)'
      <4>1. ~JobOver(j) /\ ~JobRereads(j) /\ ~RemoveFails(j)
        BY <3>3 DEF JobGoes, JobOver, RemoveFails
      <4>2. \/ job[j].at = "check" /\ JobGoes(j, "write")
            \/ job[j].at = "write" /\ JobGoes(j, "drop")
            \/ job[j].at = "drop" /\ JobGoes(j, "tell")
        <5>1. CheckName(j) \/ WriteName(j) \/ DropCache(j) \/ TellName(j) \/ ReadProfile(j)
              \/ CacheProfile(j) \/ JobThrows(j)
          BY <1>2, <4>1 DEF JobStep
        <5> QED BY <4>1, <5>1, JobTakes
      <4> QED BY <4>2 DEF JobGoes, WorksFor, Storing
    <3> QED BY <2>0, <3>1, <3>2, <3>3
  <2>6. job[j].user # m => ~WorksFor(j, m, Storing) /\ ~WorksFor(j, m, Storing)'
    BY <2>0 DEF JobOver, JobRereads, JobGoes, WorksFor
  <2>7. m \in botched' \/ (~WorksFor(j, m, Storing) /\ ~WorksFor(j, m, Storing)')
    BY <2>5, <2>6
  <2>8. \A i \in Jobs : WorksFor(i, m, Storing)' => m \in botched' \/ (WorksFor(i, m, Storing) /\ job'[i] = job[i])
    <3>1. \A i \in Jobs \ {j} : WorksFor(i, m, Storing)' => WorksFor(i, m, Storing) /\ job'[i] = job[i]
      BY <2>1 DEF WorksFor
    <3>2. WorksFor(j, m, Storing)' => m \in botched'
      BY <2>7
    <3> QED BY <3>1, <3>2 DEF WorksFor
  <2>9. \A i \in Jobs : WorksFor(i, m, {"point"}) => m \in botched' \/ WorksFor(i, m, {"point"})'
    <3>1. \A i \in Jobs \ {j} : WorksFor(i, m, {"point"}) => WorksFor(i, m, {"point"})'
      BY <2>1 DEF WorksFor
    <3>2. WorksFor(j, m, {"point"}) => WorksFor(j, m, Storing)
      BY DEF WorksFor, Storing
    <3>3. WorksFor(j, m, {"point"}) => m \in botched'
      BY <2>7, <3>2
    <3> QED BY <3>1, <3>3 DEF WorksFor
  <2> QED BY <1>0, <2>3, <2>4, <2>8, <2>9, PicturesKept
<1> QED BY <1>1, <1>2

\* so do calls,
LEMMA PicturesByCalls ==
  ASSUME Shaped, Shaped', NEW j \in Jobs, NEW w \in Members,
         UploadAvatar(j, w) \/ GetProfile(j, w) \/ \E n \in Names : UpdateProfile(j, w, n),
         NEW m \in Members, PicturesOf(m)
  PROVE  PicturesOf(m)'
<1>1. UNCHANGED <<profile, objects>> /\ botched \subseteq botched'
  BY DEF UploadAvatar, GetProfile, UpdateProfile, rowVars, storeVars, Undisturbed, marks
<1>2. \E x \in {"put", "read", "check"} : \E n, k : JobBegun(j, x, w, n, k)
  BY NewJobs
<1>3. /\ \A i \in Jobs \ {j} : job'[i] = job[i]
      /\ job[j] = NoJob /\ job'[j].at \in {"put", "read", "check"} /\ job'[j].user = w
      /\ job'[j].row = profile[w]
  BY <1>2 DEF JobBegun, OtherJobs
<1>4. WorksFor(j, m, Storing)' => job'[j].at = "put" /\ job'[j].row.avatar = profile[m].avatar
  BY <1>3 DEF WorksFor, Storing
<1>5. \A i \in Jobs : WorksFor(i, m, Storing)' =>
        \/ m \in botched' \/ (WorksFor(i, m, Storing) /\ job'[i] = job[i])
        \/ job'[i].at = "put" /\ job'[i].row.avatar = profile[m].avatar
  BY <1>3, <1>4 DEF WorksFor
<1>6. \A i \in Jobs : WorksFor(i, m, {"point"}) => WorksFor(i, m, {"point"})'
  BY <1>3 DEF WorksFor
<1> QED BY <1>1, <1>5, <1>6, PicturesKept

\* and every step.
LEMMA PicturesStep ==
  ASSUME Shaped, Shaped', Separate, [ProfilesNext]_profilesVars, NEW m \in Members, PicturesOf(m), OneWriter(m)
  PROVE  PicturesOf(m)'
<1>1. ASSUME \/ \E e \in events : EventStep(e)
             \/ \E w \in Members, n \in Names, p \in {"yes", "no"} : Join(w, n, p)
             \/ \E w \in Members : CacheLapses(w)
             \/ UNCHANGED profilesVars
      PROVE  PicturesOf(m)'
  <2>1. UNCHANGED <<job, objects, botched>>
    BY <1>1 DEF EventStep, SyncUsername, CreateProfile, EventFails, Join, CacheLapses, profilesVars, storeVars,
                marks, Undisturbed
  <2>2. \A i \in Jobs : ~PointToObject(i)
    <3>1. \A i \in Jobs : PointToObject(i) => job'[i].at # job[i].at
      BY JobTakes DEF JobGoes
    <3> QED BY <2>1, <3>1
  <2>3. profile'[m].avatar = profile[m].avatar
    BY <2>2, AvatarsStay
  <2>4. \A i \in Jobs : WorksFor(i, m, Storing)' => WorksFor(i, m, Storing) /\ job'[i] = job[i]
    BY <2>1 DEF WorksFor
  <2>5. \A i \in Jobs : WorksFor(i, m, {"point"}) => WorksFor(i, m, {"point"})'
    BY <2>1 DEF WorksFor
  <2> QED BY <2>1, <2>3, <2>4, <2>5, PicturesKept
<1> QED BY <1>1, PicturesByJobs, PicturesByCalls DEF ProfilesNext

\* Every object is somebody's, or an upload's that is about to point to it.
Carries(j, o) == job[j] # NoJob /\ job[j].at \in {"remove", "point"} /\ job[j].no = o
AllUsed == \A o \in objects : \/ \E m \in Members : profile[m].avatar = o
                           \/ \E j \in Jobs : Carries(j, o)
                           \/ botched # {}

\* A step that moves no avatar and forgets no upload leaves nothing over.
LEMMA UsedKept ==
  ASSUME AllUsed, objects' \subseteq objects, \A m \in Members : profile'[m].avatar = profile[m].avatar,
         botched \subseteq botched', \A j \in Jobs : \A o : Carries(j, o) => botched' # {} \/ Carries(j, o)'
  PROVE  AllUsed'
<1> SUFFICES ASSUME NEW o \in objects', botched' = {}
             PROVE  (\E m \in Members : profile'[m].avatar = o) \/ \E j \in Jobs : Carries(j, o)'
  BY DEF AllUsed
<1>1. botched = {} /\ o \in objects
  OBVIOUS
<1>2. CASE \E m \in Members : profile[m].avatar = o
  BY <1>2
<1>3. CASE \E j \in Jobs : Carries(j, o)
  BY <1>3
<1> QED BY <1>1, <1>2, <1>3 DEF AllUsed

\* Steps of handlers leave no object over,
LEMMA UsedByJobs ==
  ASSUME Shaped, AllUsed, \A m \in Members : PicturesOf(m), NEW j \in Jobs, JobStep(j)
  PROVE  AllUsed'
<1>0. [ProfilesNext]_profilesVars
  BY DEF ProfilesNext
<1>1. JobOver(j) \/ JobRereads(j) \/ \E x : JobGoes(j, x)
  BY JobTakes DEF JobStep
<1>2. /\ \A i \in Jobs \ {j} : job'[i] = job[i]
      /\ job[j] # NoJob /\ job[j].user \in Members
  BY <1>1 DEF JobOver, JobRereads, JobGoes, OtherJobs, Fields
<1>3. botched \subseteq botched'
  BY <1>0, <1>2, Writers
<1>4. \A i \in Jobs \ {j} : \A o : Carries(i, o) => Carries(i, o)'
  BY <1>2 DEF Carries
<1>5. (\A i \in Jobs : i # j => ~PointToObject(i)) /\ (JobStep(j) => job'[j] # job[j])
  <2>1. \A i \in Jobs : PointToObject(i) => job'[i] # job[i]
    BY JobTakes DEF JobGoes
  <2>2. job'[j] # job[j]
    BY <1>2, JobTakes DEF JobStep, JobOver, JobRereads, JobGoes, JobThrows
  <2> QED BY <1>2, <2>1, <2>2
<1>6. ~PointToObject(j) => \A m \in Members : profile'[m].avatar = profile[m].avatar
  BY <1>0, <1>5, AvatarsStay
<1>7. CASE PutObject(j)
  <2>1. /\ objects' = objects \cup {job[j].no} /\ UNCHANGED <<profile, botched>> /\ job[j].at = "put"
        /\ \E x \in {"remove", "point"} : JobGoes(j, x)
    BY <1>7, JobTakes DEF PutObject, rowVars, Undisturbed, marks
  <2>2. job'[j] # NoJob /\ job'[j].at \in {"remove", "point"} /\ job'[j].no = job[j].no
    BY <2>1 DEF JobGoes
  <2>3. \A o : ~Carries(j, o)
    BY <2>1 DEF Carries
  <2>4. ASSUME NEW o \in objects', botched' = {}
        PROVE  (\E m \in Members : profile'[m].avatar = o) \/ \E i \in Jobs : Carries(i, o)'
    <3>1. CASE o = job[j].no
      <4>1. Carries(j, o)'
        BY <2>2, <3>1 DEF Carries
      <4> QED BY <4>1
    <3>2. CASE o \in objects
      <4>1. (\E m \in Members : profile[m].avatar = o) \/ \E i \in Jobs : Carries(i, o)
        BY <2>1, <2>4, <3>2 DEF AllUsed
      <4> QED BY <1>4, <2>1, <2>3, <4>1
    <3> QED BY <2>1, <3>1, <3>2
  <2> QED BY <2>4 DEF AllUsed
<1>8. CASE RemoveOld(j) \/ RemoveFails(j)
  <2>1. objects' \subseteq objects /\ job[j].at = "remove" /\ JobGoes(j, "point")
    BY <1>8, JobTakes DEF RemoveOld, RemoveFails, storeVars
  <2>2. \A o : Carries(j, o) => Carries(j, o)'
    BY <2>1 DEF Carries, JobGoes
  <2>3. ~PointToObject(j)
    BY <2>1 DEF PointToObject
  <2>4. \A i \in Jobs : \A o : Carries(i, o) => Carries(i, o)'
    BY <1>4, <2>2 DEF Carries
  <2> QED BY <1>3, <1>6, <2>1, <2>3, <2>4, UsedKept
<1>9. CASE PointToObject(j)
  <2> DEFINE w == job[j].user
  <2>1. /\ UNCHANGED <<objects, botched>> /\ job[j].at = "point" /\ JobGoes(j, "drop last")
        /\ profile' = [profile EXCEPT ![w].avatar = job[j].no]
    BY <1>9, JobTakes DEF PointToObject, storeVars, Undisturbed, marks
  <2>2. ASSUME NEW o \in objects', botched' = {}
        PROVE  (\E m \in Members : profile'[m].avatar = o) \/ \E i \in Jobs : Carries(i, o)'
    <3>1. w \notin botched /\ o \in objects /\ botched = {} /\ w \in Members
      BY <1>2, <2>1, <2>2
    <3>2. Uploads(w)
      BY <3>1 DEF PicturesOf
    <3>3. WorksFor(j, w, Storing)
      BY <1>2, <2>1 DEF WorksFor, Storing
    <3>4. profile[w].avatar # o
      BY <2>1, <3>1, <3>2, <3>3 DEF Uploads
    <3>5. profile'[w].avatar = job[j].no /\ \A m \in Members \ {w} : profile'[m] = profile[m]
      <4>1. profile[w] \in ProfileRow /\ profile'[w] = [profile[w] EXCEPT !.avatar = job[j].no]
        BY <2>1, <3>1 DEF Shaped, RowsOK
      <4>2. \A m \in Members \ {w} : profile'[m] = profile[m]
        BY <2>1 DEF Shaped, RowsOK
      <4> QED BY <4>1, <4>2 DEF ProfileRow
    <3>6. CASE \E m \in Members : profile[m].avatar = o
      BY <3>4, <3>5, <3>6
    <3>7. CASE \E i \in Jobs \ {j} : Carries(i, o)
      BY <1>4, <3>7
    <3>8. CASE Carries(j, o)
      BY <3>1, <3>5, <3>8 DEF Carries
    <3> QED BY <3>1, <3>6, <3>7, <3>8 DEF AllUsed
  <2> QED BY <2>2 DEF AllUsed
<1>10. CASE ~(PutObject(j) \/ RemoveOld(j) \/ RemoveFails(j) \/ PointToObject(j))
  <2>1. objects' \subseteq objects
    BY <1>10 DEF JobStep, CheckName, WriteName, DropCache, TellName, ReadProfile, CacheProfile, JobThrows,
                 storeVars
  <2>2. \A o : Carries(j, o) => botched' # {}
    BY <1>10 DEF JobStep, CheckName, WriteName, DropCache, TellName, ReadProfile, CacheProfile, JobThrows, Carries
  <2>3. \A i \in Jobs : \A o : Carries(i, o) => botched' # {} \/ Carries(i, o)'
    BY <1>4, <2>2 DEF Carries
  <2> QED BY <1>3, <1>6, <1>10, <2>1, <2>3, UsedKept
<1> QED BY <1>7, <1>8, <1>9, <1>10

\* nor does any other step.
LEMMA UsedStep ==
  ASSUME Shaped, AllUsed, \A m \in Members : PicturesOf(m), [ProfilesNext]_profilesVars
  PROVE  AllUsed'
<1>0. CASE \E j \in Jobs : JobStep(j)
  BY <1>0, UsedByJobs
<1>1. CASE ~\E j \in Jobs : JobStep(j)
  <2>1. \A m \in Members : profile'[m].avatar = profile[m].avatar
    BY <1>1, AvatarsStay DEF JobStep
  <2>2. UNCHANGED objects /\ botched \subseteq botched'
    BY <1>1 DEF ProfilesNext, EventStep, SyncUsername, CreateProfile, EventFails, Join, CacheLapses,
         UploadAvatar, GetProfile, UpdateProfile, storeVars, profilesVars, Undisturbed, marks
  <2>3. \A i \in Jobs : job'[i] = job[i] \/ job[i] = NoJob
    <3>1. CASE UNCHANGED job
      BY <3>1
    <3>2. ASSUME NEW j \in Jobs, NEW w \in Members,
                 UploadAvatar(j, w) \/ GetProfile(j, w) \/ \E n \in Names : UpdateProfile(j, w, n)
          PROVE  \A i \in Jobs : job'[i] = job[i] \/ job[i] = NoJob
      <4>1. \E x, n, k : JobBegun(j, x, w, n, k)
        BY <3>2, NewJobs
      <4> QED BY <4>1 DEF JobBegun, OtherJobs
    <3>3. \/ UNCHANGED job
          \/ \E j \in Jobs, w \in Members :
               UploadAvatar(j, w) \/ GetProfile(j, w) \/ \E n \in Names : UpdateProfile(j, w, n)
      BY <1>1 DEF ProfilesNext, EventStep, SyncUsername, CreateProfile, EventFails, Join, CacheLapses, profilesVars
    <3> QED BY <3>1, <3>2, <3>3
  <2>4. \A i \in Jobs : \A o : Carries(i, o) => Carries(i, o)'
    BY <2>3 DEF Carries
  <2> QED BY <2>1, <2>2, <2>4, UsedKept
<1> QED BY <1>0, <1>1

\* The copy in the cache is the row, or the handler that wrote the row has still to delete it.
Dropping  == {"drop", "drop last"}
Cached(m) == m \notin botched /\ shown[m] # NoProfile =>
               shown[m] = profile[m] \/ \E j \in Jobs : WorksFor(j, m, Dropping)

\* A step that leaves the row alone, and the copy or nothing.
LEMMA CachedKept ==
  ASSUME NEW m \in Members, Cached(m), botched \subseteq botched', profile'[m] = profile[m],
         shown'[m] \in {shown[m], NoProfile},
         \A j \in Jobs : WorksFor(j, m, Dropping) =>
           m \in botched' \/ shown'[m] = NoProfile \/ WorksFor(j, m, Dropping)'
  PROVE  Cached(m)'
<1> SUFFICES ASSUME m \notin botched', shown'[m] # NoProfile
             PROVE  shown'[m] = profile'[m] \/ \E j \in Jobs : WorksFor(j, m, Dropping)'
  BY DEF Cached
<1>1. shown[m] = profile[m] \/ \E j \in Jobs : WorksFor(j, m, Dropping)
  BY DEF Cached
<1> QED BY <1>1

\* Steps of handlers: who writes the row has still to delete the copy.
LEMMA CachedByJobs ==
  ASSUME Shaped, NEW m \in Members, Cached(m), NEW j \in Jobs, JobStep(j)
  PROVE  Cached(m)'
<1>0. [ProfilesNext]_profilesVars
  BY DEF ProfilesNext
<1>1. JobOver(j) \/ JobRereads(j) \/ \E x : JobGoes(j, x)
  BY JobTakes DEF JobStep
<1>2. /\ \A i \in Jobs \ {j} : job'[i] = job[i]
      /\ job[j] # NoJob /\ job[j].user \in Members
  BY <1>1 DEF JobOver, JobRereads, JobGoes, OtherJobs, Fields
<1>3. botched \subseteq botched' /\ shown \in [Members -> ProfileRow] /\ profile \in [Members -> ProfileRow]
  BY <1>0, <1>2, Writers DEF Shaped, RowsOK, StoreOK
<1>4. \A i \in Jobs \ {j} : WorksFor(i, m, Dropping) => WorksFor(i, m, Dropping)'
  BY <1>2 DEF WorksFor
<1>5. CASE job[j].user # m
  <2>1. profile'[m] = profile[m] /\ shown'[m] = shown[m]
    BY <1>2, <1>3, <1>5 DEF JobStep, CheckName, WriteName, DropCache, TellName, PutObject, RemoveOld,
         RemoveFails, PointToObject, ReadProfile, CacheProfile, JobThrows, rowVars, storeVars
  <2>2. ~WorksFor(j, m, Dropping)
    BY <1>5 DEF WorksFor
  <2>3. \A i \in Jobs : WorksFor(i, m, Dropping) => WorksFor(i, m, Dropping)'
    BY <1>4, <2>2 DEF WorksFor
  <2> QED BY <1>3, <2>1, <2>3, CachedKept
<1>6. CASE job[j].user = m /\ (JobGoes(j, "drop") \/ JobGoes(j, "drop last"))
  <2>1. WorksFor(j, m, Dropping)'
    BY <1>6 DEF JobGoes, WorksFor, Dropping
  <2> QED BY <2>1 DEF Cached
<1>7. CASE job[j].user = m /\ DropCache(j)
  <2>1. shown'[m] = NoProfile
    BY <1>3, <1>7 DEF DropCache
  <2> QED BY <2>1 DEF Cached
<1>8. CASE job[j].user = m /\ CacheProfile(j)
  <2>1. shown'[m] = job[j].row /\ UNCHANGED profile /\ (job[j].row # profile[m] => m \in botched')
    BY <1>3, <1>8 DEF CacheProfile, rowVars
  <2> QED BY <2>1 DEF Cached
<1>9. CASE /\ job[j].user = m /\ ~DropCache(j) /\ ~CacheProfile(j)
           /\ ~JobGoes(j, "drop") /\ ~JobGoes(j, "drop last")
  <2>1. UNCHANGED <<profile, shown>>
    <3>1. ~PointToObject(j) /\ (WriteName(j) => UNCHANGED profile)
      BY <1>9, JobTakes
    <3> QED BY <1>9, <3>1 DEF JobStep, CheckName, WriteName, TellName, PutObject, RemoveOld,
         RemoveFails, ReadProfile, JobThrows, rowVars, storeVars
  <2>2. WorksFor(j, m, Dropping) => m \in botched'
    BY <1>9 DEF JobStep, CheckName, WriteName, TellName, PutObject, RemoveOld,
         RemoveFails, PointToObject, ReadProfile, JobThrows, WorksFor, Dropping
  <2>3. \A i \in Jobs : WorksFor(i, m, Dropping) => m \in botched' \/ WorksFor(i, m, Dropping)'
    BY <1>4, <2>2 DEF WorksFor
  <2> QED BY <1>3, <2>1, <2>3, CachedKept
<1> QED BY <1>5, <1>6, <1>7, <1>8, <1>9

\* Every step; a row that is created has no copy yet.
LEMMA CachedStep ==
  ASSUME Shaped, [ProfilesNext]_profilesVars, NEW m \in Members, Cached(m), Rooted(m)
  PROVE  Cached(m)'
<1>1. CASE \E j \in Jobs : JobStep(j)
  BY <1>1, CachedByJobs
<1>2. ASSUME NEW j \in Jobs, NEW w \in Members,
             UploadAvatar(j, w) \/ GetProfile(j, w) \/ \E n \in Names : UpdateProfile(j, w, n)
      PROVE  Cached(m)'
  <2>1. UNCHANGED <<profile, shown>> /\ botched \subseteq botched'
    BY <1>2 DEF UploadAvatar, GetProfile, UpdateProfile, rowVars, storeVars, Undisturbed, marks
  <2>2. \E x, n, k : JobBegun(j, x, w, n, k)
    BY <1>2, NewJobs
  <2>3. \A i \in Jobs : WorksFor(i, m, Dropping) => WorksFor(i, m, Dropping)'
    BY <2>2 DEF JobBegun, OtherJobs, WorksFor
  <2> QED BY <2>1, <2>3, CachedKept
<1>3. ASSUME UNCHANGED <<job, botched>>, profile'[m] = profile[m], shown'[m] \in {shown[m], NoProfile}
      PROVE  Cached(m)'
  <2>1. \A i \in Jobs : WorksFor(i, m, Dropping) => WorksFor(i, m, Dropping)'
    BY <1>3 DEF WorksFor
  <2> QED BY <1>3, <2>1, CachedKept
<1>4. ASSUME NEW e \in events, CreateProfile(e) PROVE Cached(m)'
  <2>1. UNCHANGED <<job, shown, botched>>
    BY <1>4 DEF CreateProfile, storeVars
  <2>2. CASE profile'[m] = profile[m]
    BY <1>3, <2>1, <2>2
  <2>3. CASE profile'[m] # profile[m]
    <3>1. profile[m] = NoProfile
      BY <1>4, <2>3 DEF CreateProfile, Shaped, RowsOK
    <3>2. \A j \in Jobs : ~WorksFor(j, m, Dropping)
      <4>1. \A j \in Jobs : WorksFor(j, m, Dropping) => WorksFor(j, m, Writes)
        BY DEF WorksFor, Dropping, Writes, Renaming, Uploading
      <4> QED BY <3>1, <4>1 DEF Rooted
    <3> QED BY <2>1, <3>1, <3>2 DEF Cached
  <2> QED BY <2>2, <2>3
<1>5. ASSUME \/ \E e \in events : SyncUsername(e) \/ EventFails(e)
             \/ \E w \in Members, n \in Names, p \in {"yes", "no"} : Join(w, n, p)
             \/ \E w \in Members : CacheLapses(w)
             \/ UNCHANGED profilesVars
      PROVE  Cached(m)'
  <2>1. UNCHANGED <<job, botched, profile>>
    BY <1>5 DEF SyncUsername, EventFails, Join, CacheLapses, profilesVars, rowVars, Undisturbed, marks
  <2>2. shown'[m] \in {shown[m], NoProfile}
    BY <1>5 DEF SyncUsername, EventFails, Join, CacheLapses, profilesVars, storeVars, Shaped, StoreOK
  <2> QED BY <1>3, <2>1, <2>2
<1> QED BY <1>1, <1>2, <1>4, <1>5 DEF ProfilesNext, EventStep

ShownInv == NamesInv /\ Separate /\ AllUsed /\ \A m \in Members : PicturesOf(m) /\ Cached(m)

\* At the start there are no rows, objects or handlers.
LEMMA ShownBegin == ProfilesInit => ShownInv
<1> SUFFICES ASSUME ProfilesInit PROVE ShownInv
  OBVIOUS
<1>1. /\ \A m \in Members : profile[m] = NoProfile /\ shown[m] = NoProfile
      /\ objects = {} /\ \A j \in Jobs : job[j] = NoJob
  BY DEF ProfilesInit
<1>2. \A m \in Members : profile[m].avatar = Default
  BY <1>1, RowFields
<1>3. Separate /\ AllUsed
  BY <1>1, <1>2 DEF Separate, Owns, Holds, AllUsed
<1>4. \A m \in Members : PicturesOf(m) /\ Cached(m)
  BY <1>1, <1>2 DEF PicturesOf, Uploads, Pictured, Cached, WorksFor
<1> QED BY <1>3, <1>4, NamesBegin DEF ShownInv

\* The parts lean on one another: one writer, its row, its numbers, its objects and the copy.
LEMMA ShownStep == ShownInv /\ [ProfilesNext]_profilesVars => ShownInv'
<1> SUFFICES ASSUME ShownInv, [ProfilesNext]_profilesVars PROVE ShownInv'
  OBVIOUS
<1>1. Shaped /\ Shaped' /\ \A m \in Members : OneWriter(m) /\ Rooted(m)
  BY ShapedStep DEF ShownInv, NamesInv, NamesOf
<1>2. NamesInv'
  BY ShapedStep, OneWriterStep, NamesStep DEF ShownInv, NamesInv
<1>3. Separate' /\ AllUsed'
  BY <1>1, SeparateStep, UsedStep DEF ShownInv
<1>4. \A m \in Members : PicturesOf(m)'
  BY <1>1, PicturesStep DEF ShownInv
<1>5. \A m \in Members : Cached(m)'
  BY <1>1, CachedStep DEF ShownInv
<1> QED BY <1>2, <1>3, <1>4, <1>5 DEF ShownInv

\* ProfilesAreShown (uploadAvatar, profile_cache): a profile points to an object that is there, no
\* object is left over, and the cached profile is the row, while handlers neither throw nor overlap.
THEOREM Showing == ProfilesSpec => []ProfilesAreShown
<1>1. ShownInv => ProfilesAreShown
  <2> SUFFICES ASSUME ShownInv PROVE AvatarsExist /\ ProfileCacheCoherent
    BY DEF ProfilesAreShown
  <2>0. Shaped
    BY DEF ShownInv, NamesInv
  <2>1. \A m \in Members, j \in Jobs, S \in SUBSET Writes : WorksFor(j, m, S) => Writing(m) # {}
    BY <2>0, WritingIs DEF WorksFor
  <2>2. {"point"} \in SUBSET Writes /\ Dropping \in SUBSET Writes
    BY DEF Writes, Renaming, Uploading, Dropping
  <2>3. ASSUME NEW m \in Members, profile[m].avatar # Default
        PROVE  profile[m].avatar \in objects \/ m \in botched \/ Writing(m) # {}
    BY <2>1, <2>2, <2>3 DEF ShownInv, PicturesOf, Pictured
  <2>4. ASSUME NEW o \in objects
        PROVE  \/ \E m \in Members : profile[m].avatar = o
               \/ \E j \in Jobs : job[j] # NoJob /\ o \in {job[j].no, job[j].row.avatar}
               \/ botched # {}
    BY DEF ShownInv, AllUsed, Carries
  <2>5. ProfileCacheCoherent
    BY <2>1, <2>2 DEF ShownInv, Cached, ProfileCacheCoherent
  <2> QED BY <2>3, <2>4, <2>5 DEF AvatarsExist
<1> QED BY <1>1, ShownBegin, ShownStep, PTL DEF ProfilesSpec
===============================================================================
