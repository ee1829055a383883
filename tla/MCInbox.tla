------------------------------- MODULE MCInbox -------------------------------
(* Small instances of Inbox and Articles for TLC.  The two share no           *)
(* variables, and a behaviour runs one of them while the other stays where it *)
(* is.                                                                        *)
EXTENDS Inbox, Articles, TLC

CONSTANTS Parts,      \* of {"inbox", "slugs", "copies"}
          Budget,     \* bound on the requests and failures of a behaviour
          FaultCost   \* how many requests a failure counts for

VARIABLES part,
          spent       \* how much of the budget is used

-------------------------------------------------------------------------------
(* Inbox.                                                                     *)

\* Tasks are interchangeable, so TLC lets only one of the idle ones begin.
First     == CHOOSE t \in Tasks : task[t] = Idle
OneBegins == \A t \in Tasks : task[t] = Idle /\ task'[t] # Idle => t = First

Spend(cost) == spent + cost <= Budget /\ spent' = spent + cost

InboxNext == /\ \/ Works /\ UNCHANGED spent
                \/ Requests /\ Spend(1)
                \/ Fails /\ Spend(FaultCost)
             /\ OneBegins

-------------------------------------------------------------------------------
(* Articles.                                                                  *)

FirstStaff  == CHOOSE s \in Staff : staff[s] = Away
FirstReader == CHOOSE r \in Readers : reader[r] = Left

\* Slugs need no readers; copies one article, one call of an admin at a time
\* and no broker.
ArticlesBound ==
  /\ \A s \in Staff : staff[s] = Away /\ staff'[s] # Away => s = FirstStaff
  /\ \A r \in Readers : reader[r] = Left /\ reader'[r] # Left => r = FirstReader
  /\ \A s \in Staff : staff'[s].at = "exists" => staff'[s].id <= lastId
  /\ part = "slugs" => reader' = [r \in Readers |-> Left]
  /\ part = "copies" =>
       /\ channel' = "up" /\ lastId' <= 1
       /\ \A s, t \in Staff : Away \in {staff'[s], staff'[t]} \/ s = t
       /\ \A s \in Staff : staff'[s].at = "slug" => lastId = 0
       /\ \A r \in Readers : reader'[r].at \in {"get", "read"} => reader'[r].id = 1

-------------------------------------------------------------------------------

MCInit ==
  /\ part \in Parts
  /\ Init
  /\ ArticlesInit
  /\ spent = 0
  /\ part # "inbox" =>
       /\ kind = [e \in Events |-> CHOOSE k \in Kinds : TRUE]
       /\ addressee = [e \in Events |-> CHOOSE u \in Users : TRUE]

MCNext ==
  /\ UNCHANGED part
  /\ \/ part = "inbox" /\ InboxNext /\ UNCHANGED articlesVars
     \/ part # "inbox" /\ ArticlesNext /\ ArticlesBound /\ UNCHANGED <<vars, spent>>

\* The state is one of the program's, in both.
TypesOK == TypeOK /\ ArticlesTypeOK

MCSpec == MCInit /\ [][MCNext]_<<vars, articlesVars, part, spent>> /\ Fairness
===============================================================================
