------------------------------ MODULE MCAccounts ------------------------------
(* Small instances of Accounts, Administration and Profiles for TLC.  The     *)
(* three share no variables, and a behaviour runs one part of one of them;    *)
(* the others stay where they are.                                            *)
EXTENDS Accounts, Administration, Profiles, TLC

CONSTANTS Parts,   \* sets of calls, of which a behaviour makes those of one
          Solo,    \* a user; registrations are the calls that users share state in
          Board,   \* staff that exists from the start
          Chief    \* an admin; changes of roles are the calls that admins share state in

VARIABLES part

-------------------------------------------------------------------------------
(* Accounts.                                                                  *)

\* Tasks are interchangeable, so TLC lets only one of the idle ones begin.
FirstTask == CHOOSE t \in Tasks : task[t] = Idle

Service(step) ==
  CASE step \in Registering \cup Verifying             -> "register"
    [] step \in {"save code", "send code"} \cup Resetting -> "reset"
    [] step \in {"save link", "send link", "tell"} \cup Changing -> "change"
    [] step \in Enrolling \cup Checking                -> "twofa"

\* 2FA secrets come with a set of backup codes each, so TLC gets two of them.
\* Of two users who register, the handlers of one may fail.
AccountsBound ==
  /\ \A t \in Tasks : task[t] = Idle /\ task'[t] # Idle =>
       /\ t = FirstTask
       /\ Service(task'[t].at) \in part
       /\ part = {"register"} \/ task'[t].user = Solo
  /\ part = {"twofa"} => drawn' <= 2
  /\ part = {"register"} => \A u, v \in failed' : u = v

\* Fingerprints matter to registrations only.  Users with the same one meet in its
\* key; users with different ones meet nowhere, no more than with one who sends none.
AccountsInit == /\ Init
                /\ device[Solo] # NoDevice
                /\ part = {"register"} \/ \A u \in Users : device[u] = device[Solo]

-------------------------------------------------------------------------------
(* Administration.                                                            *)

FirstDesk == CHOOSE d \in Desks : desk[d] = Free
Roles     == {"promote", "demote"}

\* Only changes of roles need several admins; their late UPDATEs are left to
\* the part that has bans too.  Bulk calls share nothing.
AdminBound ==
  /\ \A d \in Desks :
       /\ desk[d] = Free /\ desk'[d] # Free =>
            /\ d = FirstDesk /\ desk'[d].kind \in part
            /\ part = Roles \/ desk'[d].by = Chief
            /\ part = Roles => desk'[d].about \in Board
       /\ part = Roles => desk'[d].at # "late"
       /\ part = {"bulk"} => \A e \in Desks \ {d} : Free \in {desk'[d], desk'[e]}
  /\ part = Roles \/ claims' \subseteq {Chief}
  /\ part \subseteq Changes => known' = known

AdministrationInit ==
  /\ AdminInit
  /\ part \subseteq Changes \cup {"stats"} => known = Board
  /\ IF part = {"bulk"} THEN known = Staff
                          ELSE \A s \in banned : role[s] = 0
  /\ part \cap Kinds = {} => known = Staff /\ banned = {} /\ \A s \in Staff : role[s] = 1 <=> s = Chief

-------------------------------------------------------------------------------
(* Profiles.                                                                  *)

FirstJob == CHOOSE j \in Jobs : job[j] = NoJob

\* With reads of profiles, one rename, one name per member and no trouble
\* with events.
Chore(at) == CASE at = "check" -> "rename" [] at = "put" -> "avatar" [] at = "read" -> "view"
ProfilesBound ==
  /\ \A j \in Jobs : job[j] = NoJob /\ job'[j] # NoJob =>
       j = FirstJob /\ Chore(job'[j].at) \in part
  /\ "view" \in part => drawnNo' <= 1 /\ \A e \in events' : e.tries = 0

-------------------------------------------------------------------------------

AdministrationPart == part \cap Kinds # {}
ProfilesPart       == part \cap {"rename", "avatar", "view"} # {}
AccountsPart       == ~AdministrationPart /\ ~ProfilesPart

\* The state is one of the program's, in all three.
TypesOK == TypeOK /\ AdminTypeOK /\ ProfilesTypeOK

MCInit == part \in Parts /\ AccountsInit /\ AdministrationInit /\ ProfilesInit

MCNext ==
  /\ UNCHANGED part
  /\ \/ AccountsPart /\ Next /\ AccountsBound /\ UNCHANGED <<adminVars, profilesVars>>
     \/ AdministrationPart /\ AdminNext /\ AdminBound /\ UNCHANGED <<vars, profilesVars>>
     \/ ProfilesPart /\ ProfilesNext /\ ProfilesBound /\ UNCHANGED <<vars, adminVars>>

MCSpec == MCInit /\ [][MCNext]_<<vars, adminVars, profilesVars, part>>
===============================================================================
