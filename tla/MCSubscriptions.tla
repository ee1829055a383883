---------------------------- MODULE MCSubscriptions ----------------------------
(* Small instances of Subscriptions for TLC.                                  *)
EXTENDS Subscriptions, TLC

CONSTANTS Settings   \* of {"alone", "beside", "any"}

VARIABLES setting    \* what a behaviour concentrates on

\* One handler at a time, no checks, and every failure.
Alone ==
  /\ \A r, s \in Requests : Idle \in {req'[r], req'[s]} \/ r = s
  /\ \A r \in Requests : req'[r] = Idle \/ req'[r].op # "check"

\* Several handlers at a time on the first days, without trials.  Two that write at
\* once and a failure that costs one a step are left out: nothing is claimed of a
\* user they happened to.
FirstDays == 1
Beside ==
  /\ \A u \in Users : history'[u] \cap {"lost", "overlap"} = {}
  /\ \A r \in Requests : req'[r] = Idle \/ req'[r].op # "trial"
  /\ now' <= FirstDays

\* Requests are interchangeable, so TLC lets only one of the idle ones begin.
FirstRequest == CHOOSE r \in Requests : req[r] = Idle

MCInit == setting \in Settings /\ Init
MCNext ==
  /\ UNCHANGED setting
  /\ Next
  /\ \A r \in Requests : req[r] = Idle /\ req'[r] # Idle => r = FirstRequest
  /\ setting = "alone" => Alone
  /\ setting = "beside" => Beside

MCSpec == MCInit /\ [][MCNext]_<<vars, setting>> /\ Fairness
===============================================================================
