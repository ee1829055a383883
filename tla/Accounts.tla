------------------------------ MODULE Accounts ------------------------------
(***************************************************************************)
(* auth-service: registration and e-mail verification, password resets and *)
(* changes, and two-factor authentication.  Every handler is a sequence of *)
(* awaits over Postgres, Redis and the exchange, of which any may fail and *)
(* between any two of which another handler of the user may run.           *)
(*                                                                         *)
(* Simplifications.  A user is an e-mail address with the device it        *)
(* registers from, or with none, as the fingerprint is optional; the IP    *)
(* address is a second key of the same kind, with a TTL of 30 days for the *)
(* 365 of a device, and is left out: it only flags more.  Names are the    *)
(* business of Profiles, sessions and tokens of Sessions.  Reset codes,    *)
(* change links and 2FA secrets are drawn at random in the code and are    *)
(* numbers here, none of them drawn twice.  A call that timed out and took *)
(* effect is its step followed by Throws.                                  *)
(***************************************************************************)
EXTENDS Integers, FiniteSets

CONSTANTS Users,
          Devices,     \* fingerprints
          NoDevice,    \* of a registration without a fingerprint
          Tasks,       \* handlers that can be in progress at once
          Services,    \* which handlers are called, of "register", "reset",
                       \* "change", "twofa"
          BackupCodes, \* numbers of the backup codes of a secret
          MaxIds       \* bound on codes, links and secrets drawn

VARIABLES
  device,       \* fingerprint a user registers with, or NoDevice
  account,      \* users: "none", "inactive", "active"
  trialDevices, \* trial_devices:<fingerprint>
  verifyToken,  \* verify_token:<token>, one for a user: "none", "clean", "flagged"
  verified,     \* user.email_verified events published, by their trial signal
  drawn,        \* codes, links and secrets drawn so far
  resetCode,    \* reset_codes:<email>: a code or None
  links,        \* change-password tokens stored
  letters,      \* codes and links mailed; None for the one of the registration
  twoFA,        \* user_2fa
  task,         \* handlers in progress
  \* history variables, read by the properties only
  mailed,       \* the last reset code sent to a user, or None
  changes,      \* passwords set by a code or link
  told,         \* codes and links whose change was announced
  proved,       \* secrets that a code was checked against
  burnt,        \* backup codes that were accepted
  overlapped,   \* users and devices with two handlers at once
  failed,       \* users one of whose handlers threw
  lapsed,       \* users one of whose tokens or codes ran out
  forgotten     \* users with a row when the key of their device ran out

mailVars    == <<account, trialDevices, verifyToken, verified, forgotten>>
passVars    == <<resetCode, links, letters, mailed, changes, told>>
twoFAVars   == <<twoFA, proved, burnt>>
excuses     == <<overlapped, failed, lapsed>>
vars == <<device, mailVars, passVars, twoFAVars, drawn, task, excuses>>

IdAssumption == MaxIds \in Nat
ASSUME IdAssumption
DeviceAssumption == NoDevice \notin Devices
ASSUME DeviceAssumption

-------------------------------------------------------------------------------

None   == 0
Ids    == 1..MaxIds
Codes  == Ids \X BackupCodes    \* backup codes, with the secret they came with
NoRow  == [secret |-> None, codes |-> {}, enabled |-> "no"]
TwoFA  == [secret : Ids \cup {None}, codes : SUBSET Codes, enabled : {"no", "yes"}]
\* Fault: one code too many.
RowWithZero(s) == [secret |-> s, codes |-> {s} \X (BackupCodes \cup {0}), enabled |-> "no"]

Row(s) == [secret |-> s, codes |-> {s} \X BackupCodes, enabled |-> "no"]

Registering == {"look", "insert", "track", "token", "mail", "announce"}
Verifying   == {"activate", "publish", "drop"}
Resetting   == {"set code", "unset code"}
Changing    == {"set link", "unset link"}
Enrolling   == {"delete", "create"}
Checking    == {"burn", "burn first", "enable", "tell enabled"}
Steps       == Registering \cup Verifying \cup {"save code", "send code", "save link", "send link"}
               \cup Resetting \cup Changing \cup {"tell"} \cup Enrolling \cup Checking

\* id: the code, link or secret; codes: the backup codes that will be left.
Busy == [at : Steps, user : Users, id : Ids \cup {None}, codes : SUBSET Codes,
         signal : {"clean", "flagged"}]
Idle == [at |-> "idle"]

TypeOK ==
  /\ device \in [Users -> Devices \cup {NoDevice}]
  /\ account \in [Users -> {"none", "inactive", "active"}]
  /\ trialDevices \subseteq Devices
  /\ verifyToken \in [Users -> {"none", "clean", "flagged"}]
  /\ verified \in [Users -> SUBSET {"clean", "flagged"}]
  /\ drawn \in 0..MaxIds
  /\ resetCode \in [Users -> Ids \cup {None}]
  /\ links \subseteq Ids \X Users
  /\ letters \subseteq (Ids \cup {None}) \X Users
  /\ twoFA \in [Users -> TwoFA]
  /\ task \in [Tasks -> Busy \cup {Idle}]
  /\ mailed \in [Users -> Ids \cup {None}]
  /\ changes \in [Ids -> 0..2]
  /\ told \subseteq Ids
  /\ proved \subseteq Ids
  /\ burnt \in [Codes -> 0..2]
  /\ overlapped \subseteq Users \cup Devices \cup {NoDevice}
  /\ failed \subseteq Users
  /\ lapsed \subseteq Users
  /\ forgotten \subseteq Users

Init ==
  /\ device \in [Users -> Devices \cup {NoDevice}]
  /\ account = [u \in Users |-> "none"]
  /\ trialDevices = {}
  /\ verifyToken = [u \in Users |-> "none"]
  /\ verified = [u \in Users |-> {}]
  /\ drawn = 0
  /\ resetCode = [u \in Users |-> None]
  /\ links = {}
  /\ letters = {}
  /\ twoFA = [u \in Users |-> NoRow]
  /\ task = [t \in Tasks |-> Idle]
  /\ mailed = [u \in Users |-> None]
  /\ changes = [i \in Ids |-> 0]
  /\ told = {}
  /\ proved = {}
  /\ burnt = [c \in Codes |-> 0]
  /\ overlapped = {}
  /\ failed = {}
  /\ lapsed = {}
  /\ forgotten = {}

-------------------------------------------------------------------------------
(* Moves of a task.                                                          *)

More(n)       == IF n = 2 THEN 2 ELSE n + 1    \* none, one, several
Goes(t, step) == task' = [task EXCEPT ![t].at = step]
Ends(t)       == task' = [task EXCEPT ![t] = Idle]
Working(u)    == {t \in Tasks : task[t] # Idle /\ task[t].user = u}

\* Handlers of the same user, and registrations from the same device.
Overlaps(u) ==
  (IF Working(u) # {} THEN {u} ELSE {})
  \cup {device[v] : v \in {w \in Users : device[w] = device[u] /\ Working(w) # {}}}

Begins(t, first, u, id, codes, signal) ==
  /\ task[t] = Idle
  /\ task' = [task EXCEPT ![t] = [at |-> first, user |-> u, id |-> id,
                                  codes |-> codes, signal |-> signal]]
  /\ overlapped' = overlapped \cup Overlaps(u)
  /\ UNCHANGED <<device, failed, lapsed>>

Quiet == UNCHANGED <<device, overlapped, failed, lapsed>>

-------------------------------------------------------------------------------
(* register and verifyEmail.                                                 *)

\* No row has the e-mail address.
Register(t, u) ==
  /\ "register" \in Services
  /\ account[u] = "none"
  /\ Begins(t, "look", u, None, {}, "clean")
  /\ UNCHANGED <<mailVars, passVars, twoFAVars, drawn>>

\* Without a fingerprint nothing is looked up, and nothing found.
LookAtDevice(t) ==
  LET seen == device[task[t].user] \in trialDevices IN
  /\ task[t].at = "look"
  /\ task' = [task EXCEPT ![t].at = "insert", ![t].signal = IF seen THEN "flagged" ELSE "clean"]
  /\ Quiet
  /\ UNCHANGED <<mailVars, passVars, twoFAVars, drawn>>

\* The INSERT, which the unique index refuses a second handler.
InsertUser(t) ==
  /\ task[t].at = "insert"
  /\ \/ /\ account[task[t].user] = "none"
        /\ account' = [account EXCEPT ![task[t].user] = "inactive"]
        /\ Goes(t, "track")
     \/ /\ account[task[t].user] # "none"
        /\ Ends(t)
        /\ UNCHANGED account
  /\ Quiet
  /\ UNCHANGED <<trialDevices, verifyToken, verified, forgotten, passVars, twoFAVars, drawn>>

\* Fault: the device is recorded after the verification.
TrackNothing(t) ==
  /\ task[t].at = "track"
  /\ Goes(t, "token")
  /\ Quiet
  /\ UNCHANGED <<mailVars, passVars, twoFAVars, drawn>>

TrackDevice(t) ==
  /\ task[t].at = "track"
  /\ trialDevices' = trialDevices \cup ({device[task[t].user]} \ {NoDevice})
  /\ Goes(t, "token")
  /\ Quiet
  /\ UNCHANGED <<account, verifyToken, verified, forgotten, passVars, twoFAVars, drawn>>

StoreToken(t) ==
  /\ task[t].at = "token"
  /\ verifyToken' = [verifyToken EXCEPT ![task[t].user] = task[t].signal]
  /\ Goes(t, "mail")
  /\ Quiet
  /\ UNCHANGED <<account, trialDevices, verified, forgotten, passVars, twoFAVars, drawn>>

\* user.verify_email, which brings the link to the user.
PublishVerifyEmail(t) ==
  /\ task[t].at = "mail"
  /\ letters' = letters \cup {<<None, task[t].user>>}
  /\ Goes(t, "announce")
  /\ Quiet
  /\ UNCHANGED <<mailVars, resetCode, links, mailed, changes, told, twoFAVars, drawn>>

\* The session (Sessions) and user.registered (Profiles).
PublishRegistered(t) ==
  /\ task[t].at = "announce"
  /\ Ends(t)
  /\ Quiet
  /\ UNCHANGED <<mailVars, passVars, twoFAVars, drawn>>

\* The link in the mail: its token is found.
VerifyEmail(t, u) ==
  /\ "register" \in Services
  /\ verifyToken[u] # "none" /\ <<None, u>> \in letters
  /\ Begins(t, "activate", u, None, {}, verifyToken[u])
  /\ UNCHANGED <<mailVars, passVars, twoFAVars, drawn>>

\* Fault: the token goes before the event.
ActivateAndDropToken(t) ==
  /\ task[t].at = "activate"
  /\ account' = [account EXCEPT ![task[t].user] = "active"]
  /\ verifyToken' = [verifyToken EXCEPT ![task[t].user] = "none"]
  /\ Goes(t, "publish")
  /\ Quiet
  /\ UNCHANGED <<trialDevices, verified, forgotten, passVars, twoFAVars, drawn>>

Activate(t) ==
  /\ task[t].at = "activate"
  /\ account' = [account EXCEPT ![task[t].user] = "active"]
  /\ Goes(t, "publish")
  /\ Quiet
  /\ UNCHANGED <<trialDevices, verifyToken, verified, forgotten, passVars, twoFAVars, drawn>>

PublishEmailVerified(t) ==
  /\ task[t].at = "publish"
  /\ verified' = [verified EXCEPT ![task[t].user] = @ \cup {task[t].signal}]
  /\ Goes(t, "drop")
  /\ Quiet
  /\ UNCHANGED <<account, trialDevices, verifyToken, forgotten, passVars, twoFAVars, drawn>>

DropToken(t) ==
  /\ task[t].at = "drop"
  /\ verifyToken' = [verifyToken EXCEPT ![task[t].user] = "none"]
  /\ Ends(t)
  /\ Quiet
  /\ UNCHANGED <<account, trialDevices, verified, forgotten, passVars, twoFAVars, drawn>>

-------------------------------------------------------------------------------
(* forgotPassword and resetPassword.                                         *)

\* The last of a code, a link and a secret drawn.
Draws == drawn < MaxIds /\ drawn' = drawn + 1

ForgotPassword(t, u) ==
  /\ "reset" \in Services
  /\ Draws
  /\ Begins(t, "save code", u, drawn + 1, {}, "clean")
  /\ UNCHANGED <<mailVars, passVars, twoFAVars>>

\* The key is the e-mail address: a new code replaces the one before.
SaveVerificationCode(t) ==
  /\ task[t].at = "save code"
  /\ resetCode' = [resetCode EXCEPT ![task[t].user] = task[t].id]
  /\ Goes(t, "send code")
  /\ Quiet
  /\ UNCHANGED <<mailVars, links, letters, mailed, changes, told, twoFAVars, drawn>>

PublishForgotPassword(t) ==
  /\ task[t].at = "send code"
  /\ letters' = letters \cup {<<task[t].id, task[t].user>>}
  /\ mailed' = [mailed EXCEPT ![task[t].user] = task[t].id]
  /\ Ends(t)
  /\ Quiet
  /\ UNCHANGED <<mailVars, resetCode, links, changes, told, twoFAVars, drawn>>

\* The right code.  Any other, or none stored, ends the call with an error.
ResetPassword(t, u) ==
  /\ "reset" \in Services
  /\ resetCode[u] # None /\ <<resetCode[u], u>> \in letters
  /\ Begins(t, "set code", u, resetCode[u], {}, "clean")
  /\ UNCHANGED <<mailVars, passVars, twoFAVars, drawn>>

UpdatePassword(t) ==
  /\ task[t].at \in {"set code", "set link"}
  /\ changes' = [changes EXCEPT ![task[t].id] = More(@)]
  /\ Goes(t, IF task[t].at = "set code" THEN "unset code" ELSE "unset link")
  /\ Quiet
  /\ UNCHANGED <<mailVars, resetCode, links, letters, mailed, told, twoFAVars, drawn>>

\* Fault: the code stays until its TTL.
DeleteNoCode(t) ==
  /\ task[t].at = "unset code"
  /\ Goes(t, "tell")
  /\ Quiet
  /\ UNCHANGED <<mailVars, passVars, twoFAVars, drawn>>

\* DEL of the user's key, whichever code it holds by now.
DeleteVerificationCode(t) ==
  /\ task[t].at = "unset code"
  /\ resetCode' = [resetCode EXCEPT ![task[t].user] = None]
  /\ Goes(t, "tell")
  /\ Quiet
  /\ UNCHANGED <<mailVars, links, letters, mailed, changes, told, twoFAVars, drawn>>

\* user.password_changed, at the end of both ways to a new password.
PublishPasswordChanged(t) ==
  /\ task[t].at = "tell"
  /\ told' = told \cup {task[t].id}
  /\ Ends(t)
  /\ Quiet
  /\ UNCHANGED <<mailVars, resetCode, links, letters, mailed, changes, twoFAVars, drawn>>

-------------------------------------------------------------------------------
(* requestPasswordChange and confirmPasswordChange.                          *)

RequestPasswordChange(t, u) ==
  /\ "change" \in Services
  /\ Draws
  /\ Begins(t, "save link", u, drawn + 1, {}, "clean")
  /\ UNCHANGED <<mailVars, passVars, twoFAVars>>

\* The key is the token: links do not replace each other.
SaveChangePasswordToken(t) ==
  /\ task[t].at = "save link"
  /\ links' = links \cup {<<task[t].id, task[t].user>>}
  /\ Goes(t, "send link")
  /\ Quiet
  /\ UNCHANGED <<mailVars, resetCode, letters, mailed, changes, told, twoFAVars, drawn>>

PublishChangePasswordRequest(t) ==
  /\ task[t].at = "send link"
  /\ letters' = letters \cup {<<task[t].id, task[t].user>>}
  /\ Ends(t)
  /\ Quiet
  /\ UNCHANGED <<mailVars, resetCode, links, mailed, changes, told, twoFAVars, drawn>>

\* The token of a link that came with a mail is found, and then the user.
ConfirmPasswordChange(t, i, u) ==
  /\ "change" \in Services
  /\ <<i, u>> \in links \cap letters
  /\ Begins(t, "set link", u, i, {}, "clean")
  /\ UNCHANGED <<mailVars, passVars, twoFAVars, drawn>>

\* Then the sessions are revoked (Sessions).
DeleteChangePasswordToken(t) ==
  /\ task[t].at = "unset link"
  /\ links' = links \ {<<task[t].id, task[t].user>>}
  /\ Goes(t, "tell")
  /\ Quiet
  /\ UNCHANGED <<mailVars, resetCode, letters, mailed, changes, told, twoFAVars, drawn>>

-------------------------------------------------------------------------------
(* setup2FA and verify2FA.                                                   *)

\* find2FAByUserId: a set-up that was never confirmed is deleted first.
Setup2FA(t, u) ==
  /\ "twofa" \in Services
  /\ twoFA[u].enabled = "no"
  /\ Draws
  /\ Begins(t, IF twoFA[u] = NoRow THEN "create" ELSE "delete", u, drawn + 1, {}, "clean")
  /\ UNCHANGED <<mailVars, passVars, twoFAVars>>

\* DELETE ... WHERE user_id: whatever row there is by now.
Delete2FA(t) ==
  /\ task[t].at = "delete"
  /\ twoFA' = [twoFA EXCEPT ![task[t].user] = NoRow]
  /\ Goes(t, "create")
  /\ Quiet
  /\ UNCHANGED <<mailVars, passVars, proved, burnt, drawn>>

\* The INSERT, refused by the unique index if there is a row.
Create2FA(t) ==
  /\ task[t].at = "create"
  /\ twoFA' = IF twoFA[task[t].user] = NoRow
                THEN [twoFA EXCEPT ![task[t].user] = Row(task[t].id)]
                ELSE twoFA
  /\ Ends(t)
  /\ Quiet
  /\ UNCHANGED <<mailVars, passVars, proved, burnt, drawn>>

\* The row is read, and the code is one of the authenticator's.  Once 2FA is
\* enabled this only makes a session.
Verify2FA(t, u) ==
  /\ "twofa" \in Services
  /\ twoFA[u] # NoRow /\ twoFA[u].enabled = "no"
  /\ proved' = proved \cup {twoFA[u].secret}
  /\ Begins(t, "enable", u, twoFA[u].secret, {}, "clean")
  /\ UNCHANGED <<mailVars, passVars, twoFA, burnt, drawn>>

\* The row is read, and the code is a backup code of it.
VerifyBackupCode(t, u, c) ==
  /\ "twofa" \in Services
  /\ c \in twoFA[u].codes
  /\ proved' = proved \cup {twoFA[u].secret}
  /\ burnt' = [burnt EXCEPT ![c] = More(@)]
  /\ Begins(t, IF twoFA[u].enabled = "yes" THEN "burn" ELSE "burn first", u, twoFA[u].secret,
            twoFA[u].codes \ {c}, "clean")
  /\ UNCHANGED <<mailVars, passVars, twoFA, drawn>>

\* Fault: the code is not taken out.
BurnNothing(t) ==
  /\ task[t].at \in {"burn", "burn first"}
  /\ IF task[t].at = "burn first" THEN Goes(t, "enable") ELSE Ends(t)
  /\ Quiet
  /\ UNCHANGED <<mailVars, passVars, twoFAVars, drawn>>

\* update2FABackupCodes: the list without the code, as it was read.
BurnBackupCode(t) ==
  LET u == task[t].user IN
  /\ task[t].at \in {"burn", "burn first"}
  /\ twoFA' = IF twoFA[u] = NoRow THEN twoFA ELSE [twoFA EXCEPT ![u].codes = task[t].codes]
  /\ IF task[t].at = "burn first" THEN Goes(t, "enable") ELSE Ends(t)
  /\ Quiet
  /\ UNCHANGED <<mailVars, passVars, proved, burnt, drawn>>

\* enable2FA: the user's row, whichever it is by now.
Enable2FA(t) ==
  LET u == task[t].user IN
  /\ task[t].at = "enable"
  /\ twoFA' = IF twoFA[u] = NoRow THEN twoFA ELSE [twoFA EXCEPT ![u].enabled = "yes"]
  /\ Goes(t, "tell enabled")
  /\ Quiet
  /\ UNCHANGED <<mailVars, passVars, proved, burnt, drawn>>

\* user.2fa_enabled, and the session.
Publish2faEnabled(t) ==
  /\ task[t].at = "tell enabled"
  /\ Ends(t)
  /\ Quiet
  /\ UNCHANGED <<mailVars, passVars, twoFAVars, drawn>>

-------------------------------------------------------------------------------
(* Failures and time.                                                        *)

\* An await rejects.  A process that dies is this for all of its handlers.
Throws(t) ==
  /\ task[t] # Idle
  /\ Ends(t)
  /\ failed' = failed \cup {task[t].user}
  /\ UNCHANGED <<device, mailVars, passVars, twoFAVars, drawn, overlapped, lapsed>>

TokenExpires(u) ==
  /\ verifyToken[u] # "none"
  /\ verifyToken' = [verifyToken EXCEPT ![u] = "none"]
  /\ lapsed' = lapsed \cup {u}
  /\ UNCHANGED <<device, account, trialDevices, verified, forgotten, passVars, twoFAVars, drawn,
                 task, overlapped, failed>>

\* A year after the last registration from the device.
TrialKeyExpires(d) ==
  /\ d \in trialDevices
  /\ trialDevices' = trialDevices \ {d}
  /\ forgotten' = forgotten \cup {u \in Users : device[u] = d /\ account[u] # "none"}
  /\ UNCHANGED <<device, account, verifyToken, verified, passVars, twoFAVars, drawn, task, excuses>>

CodeExpires(u) ==
  /\ resetCode[u] # None
  /\ resetCode' = [resetCode EXCEPT ![u] = None]
  /\ lapsed' = lapsed \cup {u}
  /\ UNCHANGED <<device, mailVars, links, letters, mailed, changes, told, twoFAVars, drawn, task,
                 overlapped, failed>>

LinkExpires(i, u) ==
  /\ <<i, u>> \in links
  /\ links' = links \ {<<i, u>>}
  /\ UNCHANGED <<device, mailVars, resetCode, letters, mailed, changes, told, twoFAVars, drawn,
                 task, excuses>>

-------------------------------------------------------------------------------

RegisterStep(t) ==
  \/ LookAtDevice(t) \/ InsertUser(t) \/ TrackDevice(t) \/ StoreToken(t)
  \/ PublishVerifyEmail(t) \/ PublishRegistered(t)

VerifyStep(t) == Activate(t) \/ PublishEmailVerified(t) \/ DropToken(t)

PasswordStep(t) ==
  \/ SaveVerificationCode(t) \/ PublishForgotPassword(t)
  \/ SaveChangePasswordToken(t) \/ PublishChangePasswordRequest(t)
  \/ UpdatePassword(t) \/ DeleteVerificationCode(t) \/ DeleteChangePasswordToken(t)
  \/ PublishPasswordChanged(t)

TwoFAStep(t) ==
  \/ Delete2FA(t) \/ Create2FA(t) \/ BurnBackupCode(t) \/ Enable2FA(t)
  \/ Publish2faEnabled(t)

Call(t, u) ==
  \/ Register(t, u) \/ VerifyEmail(t, u)
  \/ ForgotPassword(t, u) \/ ResetPassword(t, u)
  \/ RequestPasswordChange(t, u) \/ \E i \in Ids : ConfirmPasswordChange(t, i, u)
  \/ Setup2FA(t, u) \/ Verify2FA(t, u) \/ \E c \in Codes : VerifyBackupCode(t, u, c)

Works ==
  \/ \E t \in Tasks : \/ RegisterStep(t) \/ VerifyStep(t) \/ PasswordStep(t) \/ TwoFAStep(t)
                      \/ \E u \in Users : Call(t, u)
  \/ \E u \in Users : \/ TokenExpires(u) \/ CodeExpires(u)
                      \/ \E i \in Ids : LinkExpires(i, u)
  \/ \E d \in Devices : TrialKeyExpires(d)

Fails == \E t \in Tasks : Throws(t)

Next == Works \/ Fails

Spec == Init /\ [][Next]_vars

-------------------------------------------------------------------------------
(* Properties.                                                               *)

At(u, steps) == \E t \in Working(u) : task[t].at \in steps

\* Nobody is left verified without the event that brings the trial, and
\* nobody registered without a way to verify: as long as user.email_verified
\* has not gone out, the token is there, or the registration is still on its
\* way to it, threw, or the token's TTL ran out (verifyEmail, "ORDER MATTERS").
NobodyIsStranded ==
  \A u \in Users :
    account[u] # "none" /\ verified[u] = {} =>
      \/ verifyToken[u] # "none"
      \/ u \in lapsed
      \/ account[u] = "inactive" /\ (At(u, Registering) \/ u \in failed)

\* A device gets one trial for as long as its key is kept: of the users that
\* registered from it with a fingerprint, those apart that were there when the
\* key ran out, at most one is verified with a clean signal, unless registrations
\* from it overlapped.
OneTrialPerDevice ==
  \A u, v \in Users \ forgotten :
    /\ "clean" \in verified[u] /\ "clean" \in verified[v]
    /\ device[u] = device[v] /\ device[u] # NoDevice
    => u = v \/ device[u] \in overlapped

\* A code or link sets one password, unless two requests of the user
\* overlapped or one threw between the UPDATE and the DEL.
OneChangePerCode ==
  \A u \in Users, i \in Ids :
    <<i, u>> \in letters => changes[i] <= 1 \/ u \in overlapped \cup failed

\* The last code that was mailed to a user works until it is used, unless it
\* lapsed, requests of the user overlapped or one threw: a reset deletes the
\* key of the user, not the code it has checked.
MailedCodeWorks ==
  \A u \in Users :
    mailed[u] # None /\ Working(u) = {} =>
      \/ resetCode[u] = mailed[u]
      \/ changes[mailed[u]] > 0
      \/ u \in overlapped \cup failed \cup lapsed

\* A new password is announced, unless its handler is not there yet or threw.
ChangesAreTold ==
  \A u \in Users, i \in Ids :
    <<i, u>> \in letters /\ changes[i] > 0 =>
      i \in told \/ At(u, Resetting \cup Changing \cup {"tell"}) \/ u \in failed

\* Codes and links set one password each, work once mailed, and what they do
\* is announced: the three above, for resets and changes.
PasswordCodesHold == OneChangePerCode /\ MailedCodeWorks /\ ChangesAreTold

\* A backup code signs in once, and is gone for good afterwards, unless two
\* 2FA requests of the user overlapped or the write that takes it out threw.
BackupCodesBurn ==
  \A u \in Users, c \in Codes :
    /\ u \notin overlapped \cup failed
    /\ c[1] = twoFA[u].secret
    => /\ burnt[c] <= 1
       /\ burnt[c] = 1 => c \notin twoFA[u].codes \/ At(u, {"burn", "burn first"})

\* 2FA that is enabled is enabled with a secret the user has proved to have,
\* unless a set-up and a verification overlapped.
EnabledIsProved ==
  \A u \in Users :
    twoFA[u].enabled = "yes" => twoFA[u].secret \in proved \/ u \in overlapped

\* What verify2FA rests on: spent backup codes are gone, and nobody is locked
\* out by a secret they never had.
SecondFactorHolds == BackupCodesBurn /\ EnabledIsProved
===============================================================================
