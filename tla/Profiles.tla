------------------------------- MODULE Profiles -------------------------------
(***************************************************************************)
(* user-service and the names it shares with auth-service.  A registration *)
(* reaches profiles with the event user.registered, a new name reaches     *)
(* users with user.username_changed; both tables have a unique index on    *)
(* the name, and nothing spans them.  Avatars are objects in MinIO that a  *)
(* row points to; profile_cache holds copies of rows.                      *)
(*                                                                         *)
(* Simplifications.  A change of the display name alone is a change of the *)
(* name without its check and its event, and is left out.  The consumers   *)
(* take a message once it is published; EventConsumer models connections,  *)
(* acknowledgements and timers.  An await that times out and takes effect  *)
(* later is its step followed by JobThrows.  A registration through OAuth  *)
(* has no name: every try to make its row fails (username is NOT NULL) and *)
(* the event is dropped.  Such users have no profile, so nothing here is   *)
(* ever asked of them, and they are no Members.                            *)
(***************************************************************************)
EXTENDS Integers, FiniteSets

CONSTANTS Members,     \* users
          Names,       \* user names
          Jobs,        \* handlers of user-service under way at once
          Chores,      \* what is called: "rename", "avatar", "view"
          Troubles,    \* what goes wrong: "throw", "event", "redelivery"
          MaxTries,    \* RETRY.MAX_RETRIES
          MaxChanges   \* bound on renames and uploads

VARIABLES
  login,      \* users.username, or NoName without a row
  profile,    \* profiles: the row of a member, or NoProfile
  shown,      \* profile_cache:<user>, or NoProfile
  objects,    \* uploaded avatars in the bucket
  events,     \* events in the queues of the two consumers
  drawnNo,    \* renames and uploads so far
  job,        \* handlers under way
  \* history variables, read by the properties only
  synced,     \* number of the last rename applied to users, per member
  astray,     \* members an event of whom was lost, dropped or applied out of order
  clashed,    \* members whose name was taken in the other table
  botched     \* members one of whose handlers threw, or had two at once

rowVars      == <<login, profile>>
storeVars    == <<shown, objects>>
marks        == <<synced, astray, clashed, botched>>
profilesVars == <<rowVars, storeVars, events, drawnNo, job, marks>>

NoName == "none"     \* NULL
ProfilesAssumption == MaxTries \in Nat /\ MaxChanges \in Nat /\ NoName \notin Names
ASSUME ProfilesAssumption

-------------------------------------------------------------------------------

Numbers   == 0..MaxChanges
Default   == 0      \* one of the seeded avatars
NoProfile == [name |-> NoName, avatar |-> Default]
ProfileRow == [name : Names \cup {NoName}, avatar : Numbers]

Event == [kind : {"registered", "renamed"}, user : Members, name : Names,
          no : Numbers, tries : 0..MaxTries]

JobSteps == {"check", "write", "drop", "tell", "put", "remove", "point", "drop last",
             "read", "fill"}
Job == [at : JobSteps, user : Members, name : Names \cup {NoName}, no : Numbers, row : ProfileRow]
NoJob == [at |-> "none"]

ProfilesTypeOK ==
  /\ login \in [Members -> Names \cup {NoName}]
  /\ profile \in [Members -> ProfileRow]
  /\ shown \in [Members -> ProfileRow]
  /\ objects \subseteq Numbers
  /\ events \subseteq Event
  /\ drawnNo \in Numbers
  /\ job \in [Jobs -> Job \cup {NoJob}]
  /\ synced \in [Members -> Numbers]
  /\ astray \subseteq Members
  /\ clashed \subseteq Members
  /\ botched \subseteq Members

ProfilesInit ==
  /\ login = [m \in Members |-> NoName]
  /\ profile = [m \in Members |-> NoProfile]
  /\ shown = [m \in Members |-> NoProfile]
  /\ objects = {}
  /\ events = {}
  /\ drawnNo = 0
  /\ job = [j \in Jobs |-> NoJob]
  /\ synced = [m \in Members |-> 0]
  /\ astray = {}
  /\ clashed = {}
  /\ botched = {}

-------------------------------------------------------------------------------
(* auth-service.                                                             *)

\* register: the name is looked up in users, and the event published, unless
\* the publish fails.
Join(m, n, published) ==
  /\ login[m] = NoName
  /\ \A o \in Members : login[o] # n
  /\ login' = [login EXCEPT ![m] = n]
  /\ \/ /\ published = "yes"
        /\ events' = events \cup {[kind |-> "registered", user |-> m, name |-> n, no |-> 0, tries |-> 0]}
        /\ UNCHANGED astray
     \/ /\ published = "no" /\ "throw" \in Troubles
        /\ astray' = astray \cup {m}
        /\ UNCHANGED events
  /\ UNCHANGED <<profile, storeVars, drawnNo, job, synced, clashed, botched>>

\* Acknowledged, or taken again after a crash before the acknowledgement.
Settled(e) == events' = events \ {e} \/ ("redelivery" \in Troubles /\ UNCHANGED events)

\* Back into the queue, or given up after the last retry.
Retried(e) ==
  IF e.tries < MaxTries
    THEN /\ events' = (events \ {e}) \cup {[e EXCEPT !.tries = @ + 1]}
         /\ UNCHANGED astray
    ELSE /\ events' = events \ {e}
         /\ astray' = astray \cup {e.user}

\* The username consumer of auth-service: updateUsername, whichever event of
\* the user's comes first.  A taken name is an error like any other.
SyncUsername(e) ==
  LET taken == \E o \in Members \ {e.user} : login[o] = e.name IN
  /\ e \in events /\ e.kind = "renamed"
  /\ \/ /\ ~taken
        /\ login' = [login EXCEPT ![e.user] = e.name]
        /\ Settled(e)
        /\ synced' = [synced EXCEPT ![e.user] = e.no]
        /\ astray' = IF e.no < synced[e.user] THEN astray \cup {e.user} ELSE astray
        /\ UNCHANGED clashed
     \/ /\ taken
        /\ Retried(e)
        /\ clashed' = clashed \cup {e.user}
        /\ UNCHANGED <<login, synced>>
  /\ UNCHANGED <<profile, storeVars, drawnNo, job, botched>>

\* The consumer of user-service: createIfNotExists.  A name that another
\* profile has settles the event without a row.
CreateProfile(e) ==
  LET taken == \E o \in Members \ {e.user} : profile[o].name = e.name IN
  /\ e \in events /\ e.kind = "registered"
  /\ profile' = IF profile[e.user] = NoProfile /\ ~taken
                  THEN [profile EXCEPT ![e.user] = [name |-> e.name, avatar |-> Default]]
                  ELSE profile
  /\ clashed' = IF profile[e.user] = NoProfile /\ taken THEN clashed \cup {e.user} ELSE clashed
  /\ Settled(e)
  /\ UNCHANGED <<login, storeVars, drawnNo, job, synced, astray, botched>>

\* The transaction of either consumer fails.
EventFails(e) ==
  /\ "event" \in Troubles
  /\ e \in events
  /\ Retried(e)
  /\ UNCHANGED <<rowVars, storeVars, drawnNo, job, synced, clashed, botched>>

-------------------------------------------------------------------------------
(* user-service's handlers.                                                  *)

Serving(m)      == {j \in Jobs : job[j] # NoJob /\ job[j].user = m}
Writing(m)      == {j \in Serving(m) : job[j].at \notin {"read", "fill"}}
Proceeds(j, to) == job' = [job EXCEPT ![j].at = to]
Finishes(j)     == job' = [job EXCEPT ![j] = NoJob]
Undisturbed     == UNCHANGED marks

Takes0(j, m, at, n, no) ==
  job' = [job EXCEPT ![j] = [at |-> at, user |-> m, name |-> n, no |-> no, row |-> profile[m]]]

\* updateProfile: the row is read, and the name is a new one.
UpdateProfile(j, m, n) ==
  /\ "rename" \in Chores /\ job[j] = NoJob /\ drawnNo < MaxChanges
  /\ profile[m] # NoProfile /\ profile[m].name # n
  /\ Takes0(j, m, "check", n, drawnNo + 1)
  /\ drawnNo' = drawnNo + 1
  /\ botched' = IF Writing(m) = {} THEN botched ELSE botched \cup {m}
  /\ UNCHANGED <<rowVars, storeVars, events, synced, astray, clashed>>

\* findByUsername, in profiles.
CheckName(j) ==
  /\ job[j].at = "check"
  /\ IF \E o \in Members : profile[o].name = job[j].name THEN Finishes(j) ELSE Proceeds(j, "write")
  /\ UNCHANGED <<rowVars, storeVars, events, drawnNo>> /\ Undisturbed

\* The UPDATE, which the unique index may still refuse.
WriteName(j) ==
  LET m == job[j].user IN
  /\ job[j].at = "write"
  /\ IF \E o \in Members \ {m} : profile[o].name = job[j].name
       THEN Finishes(j) /\ UNCHANGED profile
       ELSE Proceeds(j, "drop") /\ profile' = [profile EXCEPT ![m].name = job[j].name]
  /\ UNCHANGED <<login, storeVars, events, drawnNo>> /\ Undisturbed

\* invalidateProfileCache; the event that follows an avatar has no consumer.
DropCache(j) ==
  /\ job[j].at \in {"drop", "drop last"}
  /\ shown' = [shown EXCEPT ![job[j].user] = NoProfile]
  /\ IF job[j].at = "drop" THEN Proceeds(j, "tell") ELSE Finishes(j)
  /\ UNCHANGED <<rowVars, objects, events, drawnNo>> /\ Undisturbed

\* Fault: the name that was read goes into the event.
TellOldName(j) ==
  /\ job[j].at = "tell"
  /\ events' = events \cup {[kind |-> "renamed", user |-> job[j].user, name |-> job[j].row.name,
                             no |-> job[j].no, tries |-> 0]}
  /\ Finishes(j)
  /\ UNCHANGED <<rowVars, storeVars, drawnNo>> /\ Undisturbed

\* user.username_changed.
TellName(j) ==
  /\ job[j].at = "tell"
  /\ events' = events \cup {[kind |-> "renamed", user |-> job[j].user, name |-> job[j].name,
                             no |-> job[j].no, tries |-> 0]}
  /\ Finishes(j)
  /\ UNCHANGED <<rowVars, storeVars, drawnNo>> /\ Undisturbed

\* uploadAvatar: the row is read, and the image is not too large.
UploadAvatar(j, m) ==
  /\ "avatar" \in Chores /\ job[j] = NoJob /\ drawnNo < MaxChanges
  /\ profile[m] # NoProfile
  /\ Takes0(j, m, "put", NoName, drawnNo + 1)
  /\ drawnNo' = drawnNo + 1
  /\ botched' = IF Writing(m) = {} THEN botched ELSE botched \cup {m}
  /\ UNCHANGED <<rowVars, storeVars, events, synced, astray, clashed>>

PutObject(j) ==
  /\ job[j].at = "put"
  /\ objects' = objects \cup {job[j].no}
  /\ Proceeds(j, IF job[j].row.avatar = Default THEN "point" ELSE "remove")
  /\ UNCHANGED <<rowVars, shown, events, drawnNo>> /\ Undisturbed

\* Fault: the default avatars are not told apart, and the new object goes.
RemoveNew(j) ==
  /\ job[j].at = "remove"
  /\ objects' = objects \ {job[j].no}
  /\ Proceeds(j, "point")
  /\ UNCHANGED <<rowVars, shown, events, drawnNo>> /\ Undisturbed

\* deleteObject of the avatar that was read.
RemoveOld(j) ==
  /\ job[j].at = "remove"
  /\ objects' = objects \ {job[j].row.avatar}
  /\ Proceeds(j, "point")
  /\ UNCHANGED <<rowVars, shown, events, drawnNo>> /\ Undisturbed

\* Its failure is logged, and the old object stays.
RemoveFails(j) ==
  /\ "throw" \in Troubles
  /\ job[j].at = "remove"
  /\ Proceeds(j, "point")
  /\ botched' = botched \cup {job[j].user}
  /\ UNCHANGED <<rowVars, storeVars, events, drawnNo, synced, astray, clashed>>

\* The UPDATE of avatar_url.
PointToObject(j) ==
  /\ job[j].at = "point"
  /\ profile' = [profile EXCEPT ![job[j].user].avatar = job[j].no]
  /\ Proceeds(j, "drop last")
  /\ UNCHANGED <<login, storeVars, events, drawnNo>> /\ Undisturbed

\* getProfile: a hit ends it.
GetProfile(j, m) ==
  /\ "view" \in Chores /\ job[j] = NoJob
  /\ shown[m] = NoProfile
  /\ Takes0(j, m, "read", NoName, 0)
  /\ UNCHANGED <<rowVars, storeVars, events, drawnNo>> /\ Undisturbed

ReadProfile(j) ==
  /\ job[j].at = "read"
  /\ IF profile[job[j].user] = NoProfile
       THEN Finishes(j)
       ELSE job' = [job EXCEPT ![j].at = "fill", ![j].row = profile[job[j].user]]
  /\ UNCHANGED <<rowVars, storeVars, events, drawnNo>> /\ Undisturbed

\* cacheProfile, with the row as it was read.
CacheProfile(j) ==
  LET m == job[j].user IN
  /\ job[j].at = "fill"
  /\ shown' = [shown EXCEPT ![m] = job[j].row]
  /\ Finishes(j)
  /\ botched' = IF job[j].row # profile[m] THEN botched \cup {m} ELSE botched
  /\ UNCHANGED <<rowVars, objects, events, drawnNo, synced, astray, clashed>>

CacheLapses(m) ==
  /\ shown[m] # NoProfile
  /\ shown' = [shown EXCEPT ![m] = NoProfile]
  /\ UNCHANGED <<rowVars, objects, events, drawnNo, job>> /\ Undisturbed

\* An await rejects, or the process dies.
JobThrows(j) ==
  /\ "throw" \in Troubles
  /\ job[j] # NoJob
  /\ Finishes(j)
  /\ botched' = IF job[j].at \in {"read", "fill"} THEN botched ELSE botched \cup {job[j].user}
  /\ UNCHANGED <<rowVars, storeVars, events, drawnNo, synced, astray, clashed>>

-------------------------------------------------------------------------------

EventStep(e) == SyncUsername(e) \/ CreateProfile(e) \/ EventFails(e)

JobStep(j) ==
  \/ CheckName(j) \/ WriteName(j) \/ DropCache(j) \/ TellName(j)
  \/ PutObject(j) \/ RemoveOld(j) \/ RemoveFails(j) \/ PointToObject(j)
  \/ ReadProfile(j) \/ CacheProfile(j) \/ JobThrows(j)

ProfilesNext ==
  \/ \E m \in Members, n \in Names, p \in {"yes", "no"} : Join(m, n, p)
  \/ \E e \in events : EventStep(e)
  \/ \E j \in Jobs : \/ JobStep(j)
                     \/ \E m \in Members : \/ UploadAvatar(j, m) \/ GetProfile(j, m)
                                           \/ \E n \in Names : UpdateProfile(j, m, n)
  \/ \E m \in Members : CacheLapses(m)

ProfilesSpec == ProfilesInit /\ [][ProfilesNext]_profilesVars

-------------------------------------------------------------------------------
(* Properties.                                                               *)

\* Nothing about the member is under way.
AtRest(m) == Writing(m) = {} /\ \A e \in events : e.user # m

\* Once its events are handled, a member has the same name in users and in
\* profiles, unless events were lost, dropped after the retries or applied
\* out of order, a handler threw or overlapped, or the name was taken in the
\* other table meanwhile.
NamesConverge ==
  \A m \in Members :
    AtRest(m) => login[m] = profile[m].name \/ m \in astray \cup clashed \cup botched

\* "The event sync keeps them aligned": the same without the last excuse.
NamesAligned ==
  \A m \in Members : AtRest(m) /\ m \notin botched => login[m] = profile[m].name

\* A profile points to an avatar that is there, except between the deletion
\* of the old one and the UPDATE, or when that failed; and every uploaded
\* object is somebody's, or about to be, unless a handler threw or overlapped.
AvatarsExist ==
  /\ \A m \in Members :
       profile[m].avatar # Default => \/ profile[m].avatar \in objects
                                      \/ m \in botched \/ Writing(m) # {}
  /\ \A o \in objects :
       \/ \E m \in Members : profile[m].avatar = o
       \/ \E j \in Jobs : job[j] # NoJob /\ o \in {job[j].no, job[j].row.avatar}
       \/ botched # {}

\* The cached profile is the row, but for a write whose DEL is to come, a
\* fill that raced a write, and handlers that threw before the DEL.
ProfileCacheCoherent ==
  \A m \in Members : shown[m] # NoProfile =>
    shown[m] = profile[m] \/ Writing(m) # {} \/ m \in botched

\* What a profile shows: an avatar that is there, and no stale copy.
ProfilesAreShown == AvatarsExist /\ ProfileCacheCoherent
===============================================================================
