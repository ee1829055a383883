---------------------------- MODULE MCEventConsumer ----------------------------
(* Small instances of EventConsumer for TLC.                                  *)
EXTENDS EventConsumer

\* Events are interchangeable: at most one of them, always the same, is malformed.
\* With one handler for all keys that is no more than a handler that always throws.
MCInit == /\ Init
          /\ malformed \subseteq {CHOOSE e \in Events : TRUE}
          /\ dispatch = "any" => malformed = {}

MCSpec     == MCInit /\ [][Next]_vars
MCFairSpec == MCSpec /\ Fairness
===============================================================================
