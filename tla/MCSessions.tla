------------------------------ MODULE MCSessions ------------------------------
(* Small instances of Sessions for TLC.                                       *)
EXTENDS Sessions, TLC

CONSTANTS Settings,    \* of {"browser", "client", "devices", "any"}
          MaxTroubles  \* bound: failures and keys that run out, of a browser

VARIABLES setting,     \* what a behaviour concentrates on
          troubles

\* Devices are interchangeable, and requests are: no definition tells one from
\* another of its kind.
SessionSymmetry == Permutations(Devices) \cup Permutations(Requests)

Without(ops) == \A r \in Requests : req'[r] = Idle \/ req'[r].op \notin ops

\* Nothing fails, and no key runs out.
Untroubled ==
  \/ \E r \in Requests : \/ \E d \in Devices : Calling(r, d)
                         \/ ConfirmPasswordChange(r)
                         \/ Handles(r)
  \/ \E t \in Token : Forget(t)

\* Something fails, or a key runs out.
Troubled ==
  /\ troubles < MaxTroubles
  /\ troubles' = troubles + 1
  /\ \/ \E r \in Requests : Throw(r) \/ TimesOut(r) \/ LoseAnswer(r)
     \/ \E d \in Devices : TokenLapses(d)
     \/ SessionsLapse

OneDevice ==
  \E d \in Devices :
    /\ \A r \in Requests : req'[r] = Idle \/ req'[r].device \in {d, "all"}
    /\ \A i \in DOMAIN issued' : issued'[i].device = d
    /\ user_sessions' \subseteq {d}
    /\ \A e \in Devices \ {d} : history[e] = "disturbed"

\* One device, and every kind of failure.
Browser ==
  /\ Troubled \/ (Untroubled /\ UNCHANGED troubles)
  /\ OneDevice
  /\ Without({"oidc", "refresh", "register"})
\* One device, and every operation.
Client == Untroubled /\ UNCHANGED troubles /\ OneDevice
\* Several devices.
SeveralDevices ==
  /\ Untroubled /\ UNCHANGED troubles
  /\ Without({"register", "refresh", "logout", "oidc"})

\* With one device the others have no session, and something went wrong on
\* them long ago: whatever a password change notes about them no longer counts.
MCInit ==
  /\ setting \in Settings
  /\ troubles = 0
  /\ Empty
  /\ \E d \in Devices :
       history = [e \in Devices |-> IF setting \in {"browser", "client"} /\ e # d THEN "disturbed"
                                                                   ELSE "clean"]
MCNext ==
  /\ UNCHANGED setting
  /\ CASE setting = "browser" -> Browser
       [] setting = "client"  -> Client
       [] setting = "devices" -> SeveralDevices
       [] setting = "any"     -> Next /\ UNCHANGED troubles

MCSpec == MCInit /\ [][MCNext]_<<vars, setting, troubles>>
===============================================================================
