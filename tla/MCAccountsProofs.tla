--------------------------- MODULE MCAccountsProofs ---------------------------
(***************************************************************************)
(* The instances that TLC runs of Accounts, Administration and Profiles:   *)
(* they only restrict the three, so what is proved of each holds of them,  *)
(* whatever part is run.                                                   *)
(***************************************************************************)
EXTENDS MCAccounts, AccountsProofs, AdministrationProofs

\* A behaviour that TLC runs is one of auth-service, one of admin-service and one of user-service;
\* so what is proved of them holds of it.
THEOREM AccountsInstance == MCSpec => Spec /\ AdminSpec /\ ProfilesSpec
<1>1. MCInit => Init /\ AdminInit /\ ProfilesInit
  BY DEF MCInit, AccountsInit, AdministrationInit
<1>2. [MCNext]_<<vars, adminVars, profilesVars, part>> =>
        [Next]_vars /\ [AdminNext]_adminVars /\ [ProfilesNext]_profilesVars
  BY DEF MCNext
<1> QED BY <1>1, <1>2, PTL DEF MCSpec, Spec, AdminSpec, ProfilesSpec

\* TypesOK: accounts, calls of admins, profiles and what handlers hold have their types in all three.
THEOREM AccountsPartsTyped == MCSpec => []TypesOK
  BY AccountsInstance, AccountsTyped, AdminTyped, ProfilesTyped, PTL DEF TypesOK
===============================================================================
