------------------------- MODULE AdministrationProofs -------------------------
(***************************************************************************)
(* Administration, for every number of people and of calls at once: its    *)
(* types, that an admin remains, that no admin is banned, and that audit   *)
(* lines, the report of a bulk notification and the dashboard are true.    *)
(***************************************************************************)
EXTENDS Administration, FiniteSetTheorems, TLAPS

-------------------------------------------------------------------------------
(* The inductive invariant.                                                  *)

\* What a call has logged and done, by the await it is at.
Logged(c) ==
  /\ c.logged = "yes" => c.done = "yes" /\ c.at = "reply"
  /\ c.at = "reply" => c.logged = "yes" \/ c.done = "nothing to do"
  /\ c.done = "yes" => c.at = "reply" \/ c.hurt = "yes"
  /\ c.at = "late" => c.hurt = "yes"

\* Of the recipients of a bulk notification each is still to come, in the
\* batch, or counted.
Batched(c) ==
  /\ c.left \cap c.batch = {} /\ c.sent \cap c.missed = {}
  /\ (c.left \cup c.batch) \cap (c.sent \cup c.missed) = {}
  /\ \A s \in Staff : /\ c.got[s] <= 1
                      /\ s \in c.sent => c.got[s] = 1
                      /\ s \notin c.sent \cup c.missed => c.got[s] = 0
  /\ c.at \in {"arrive", "look"} => c.sent = {} /\ c.missed = {} /\ c.batch = {}

Sound(c) ==
  /\ c.kind \in {"promote", "demote", "ban"} /\ c.at # "arrive" => c.by # c.about
  /\ Logged(c)
  /\ Batched(c)
  /\ c.at \in {"arrive", "read"} => c.counts = NoStats
  /\ c.at = "keep" => c.counts.all # Unread /\ c.counts.banned # Unread

Calls == \A d \in Desks : desk[d] # Free => Sound(desk[d])

Existing ==
  /\ claims \subseteq known /\ banned \subseteq known
  /\ \A s \in Staff : role[s] = 1 => s \in known

\* What a call relies on in the table: it has looked at the user.
Seen(c) ==
  /\ c.by \in known
  /\ c.kind \in Changes /\ c.at \in {"write", "late"} =>
       /\ c.about \in known
       /\ c.kind = "ban" /\ c.crossed = "no" => role[c.about] = 0

Standing == \A d \in Desks : desk[d] # Free => Seen(desk[d])

\* Two changes of one user know that they crossed.
Crossing ==
  \A d, e \in Desks :
    /\ d # e /\ desk[d] # Free /\ desk[e] # Free
    /\ desk[d].kind \in Changes /\ desk[e].kind \in Changes
    /\ desk[d].about = desk[e].about
    => desk[d].crossed = "yes"

\* Counts under way are of the table as it is.
CountsAgree ==
  blurred = "no" =>
    \A d \in Desks : desk[d].at \in {"count", "keep"} =>
      /\ desk[d].counts.all \in {Unread, Cardinality(known)}
      /\ desk[d].counts.banned \in {Unread, Cardinality(banned)}

IInv == /\ AdminTypeOK /\ Calls /\ Existing /\ Standing /\ Crossing
        /\ CountsAgree /\ DashboardAddsUp /\ SomeAdminRemains /\ AuditIsTrue

-------------------------------------------------------------------------------
(* Calls.                                                                    *)

\* The actions of a call that is under way.
CallStep(d) == \/ Serves(d) \/ ChangeStep(d) \/ ForwardStep(d) \/ BulkStep(d) \/ StatsStep(d)
               \/ Replies(d) \/ AdminTimesOut(d) \/ LateEnds(d) \/ AdminThrows(d)

LEMMA InUse ==
  ASSUME NEW c \in AdminCall \cup {Free}
  PROVE  /\ c # Free <=> c \in AdminCall
         /\ c # Free <=> c.at # "free"
  BY DEF AdminCall, AdminSteps, Free

\* Numbers of people.
LEMMA Heads ==
  ASSUME NEW S, S \subseteq Staff
  PROVE  /\ IsFiniteSet(S) /\ Cardinality(S) \in Nat /\ Cardinality(S) \in Amount
         /\ Cardinality(S) # Unread /\ 0 \in Amount
<1>1. IsFiniteSet(Staff) /\ Cardinality(Staff) \in Nat
  BY AdminAssumption, FS_CardinalityType
<1>2. IsFiniteSet(S) /\ Cardinality(S) \in Nat /\ Cardinality(S) <= Cardinality(Staff)
  BY AdminAssumption, <1>1, FS_Subset, FS_CardinalityType
<1> QED BY <1>1, <1>2 DEF Amount, Unread

LEMMA Zero == 0 \in Amount /\ 0 # Unread
<1>1. {} \subseteq Staff
  OBVIOUS
<1>2. Cardinality({}) = 0
  BY FS_EmptySet
<1> QED BY <1>1, <1>2, Heads

\* A call begins.
LEMMA NewCall ==
  ASSUME NEW k \in Kinds, NEW a \in Staff, NEW u \in Staff
  PROVE  LET b == Call0(k, a, u) IN
         /\ b \in AdminCall /\ Sound(b)
         /\ b.at = "arrive" /\ b.kind = k /\ b.by = a /\ b.about = u /\ b.crossed = "no"
<1> DEFINE b == Call0(k, a, u)
<1>1. NoStats \in Stats
  BY Heads DEF NoStats, Stats, Amount, Unread
<1>2. /\ b \in AdminCall
      /\ b.at = "arrive" /\ b.kind = k /\ b.by = a /\ b.about = u /\ b.done = "no"
      /\ b.logged = "no" /\ b.hurt = "no" /\ b.batch = {} /\ b.sent = {} /\ b.missed = {}
      /\ b.got = [s \in Staff |-> 0] /\ b.counts = NoStats /\ b.crossed = "no" /\ b.left = {}
  BY <1>1 DEF Call0, AdminCall, AdminSteps, Results
<1> HIDE DEF b
<1>3. Sound(b)
  BY <1>2 DEF Sound, Logged, Batched
<1> QED BY <1>2, <1>3 DEF b

\* It has a list of recipients.
LEMMA NewList ==
  ASSUME NEW c \in AdminCall, Sound(c), c.at = "arrive", NEW l \in SUBSET Staff
  PROVE  LET v == [c EXCEPT !.left = l] IN
         /\ v \in AdminCall /\ Sound(v) /\ v.at = "arrive"
         /\ v.by = c.by /\ v.kind = c.kind /\ v.about = c.about /\ v.crossed = c.crossed
<1> DEFINE v == [c EXCEPT !.left = l]
<1>1. /\ v \in AdminCall /\ v.at = c.at /\ v.crossed = c.crossed
      /\ v.by = c.by /\ v.kind = c.kind /\ v.about = c.about /\ v.counts = c.counts
      /\ v.done = c.done /\ v.logged = c.logged /\ v.hurt = c.hurt
      /\ v.left = l /\ v.batch = c.batch /\ v.sent = c.sent /\ v.missed = c.missed
      /\ v.got = c.got
  BY DEF AdminCall
<1> HIDE DEF v
<1>2. Sound(v)
  BY <1>1 DEF Sound, Logged, Batched
<1> QED BY <1>1, <1>2 DEF v

\* The call goes on as the same one.
SameCall(c, v) ==
  v.by = c.by /\ v.kind = c.kind /\ v.about = c.about /\ v.crossed = c.crossed

\* A call goes on to the await x and all it notes stays.
LEMMA CallMoves ==
  ASSUME NEW c \in AdminCall, NEW x \in AdminSteps
  PROVE  LET v == [c EXCEPT !.at = x] IN
         /\ v \in AdminCall /\ v.at = x /\ SameCall(c, v) /\ v.counts = c.counts
         /\ v.done = c.done /\ v.logged = c.logged /\ v.hurt = c.hurt
         /\ v.left = c.left /\ v.batch = c.batch /\ v.sent = c.sent /\ v.missed = c.missed
         /\ v.got = c.got
  BY DEF AdminCall, SameCall

LEMMA SoundMoves ==
  ASSUME NEW c \in AdminCall, NEW x \in {"look", "send", "read", "write", "count"},
         Sound(c), c.at # "reply",
         c.at # "arrive" \/ c.kind \notin {"promote", "demote", "ban"} \/ c.by # c.about,
         x \in {"look", "read"} => c.at = "arrive"
  PROVE  LET v == [c EXCEPT !.at = x] IN
         /\ v \in AdminCall /\ v.at = x /\ SameCall(c, v) /\ v.counts = c.counts /\ Sound(v)
<1> DEFINE v == [c EXCEPT !.at = x]
<1>1. /\ v \in AdminCall /\ v.at = x /\ SameCall(c, v) /\ v.counts = c.counts
      /\ v.done = c.done /\ v.logged = c.logged /\ v.hurt = c.hurt
      /\ v.left = c.left /\ v.batch = c.batch /\ v.sent = c.sent /\ v.missed = c.missed
      /\ v.got = c.got
  <2>1. x \in AdminSteps
    BY DEF AdminSteps
  <2> QED BY <2>1, CallMoves
<1> HIDE DEF v
<1>2. Sound(v)
  BY <1>1 DEF Sound, Logged, Batched, SameCall
<1> QED BY <1>1, <1>2 DEF v

\* What becomes of a call: it is over, or goes on as the same one; before its
\* UPDATE it looked at the row; and it counts what is there.
Becomes(c, v) ==
  /\ v \in AdminCall \cup {Free}
  /\ v # Free =>
       /\ Sound(v) /\ SameCall(c, v)
       /\ v.at \in {"write", "late"} /\ v.kind \in Changes =>
            c.at \in {"write", "late"} \/ MayBe(c.kind, c.about)
       /\ v.at \in {"count", "keep"} =>
            \/ v.counts = NoStats
            \/ /\ c.at \in {"count", "keep"}
               /\ v.counts.all \in {c.counts.all, Cardinality(known)} \/ blurred' = "yes"
               /\ v.counts.banned \in {c.counts.banned, Cardinality(banned)} \/ blurred' = "yes"

LEMMA CallGoesOn ==
  ASSUME AdminTypeOK, Calls, NEW d \in Desks, CallStep(d)
  PROVE  /\ desk[d] \in AdminCall
         /\ \E v : Becomes(desk[d], v) /\ desk' = [desk EXCEPT ![d] = v]
<1> DEFINE c == desk[d]
<1>1. c \in AdminCall \cup {Free} /\ c.at # "free" /\ c # Free
  BY InUse
  DEF AdminTypeOK, CallStep, Serves, ServeChange, ServeForward, ServeBulk, ServeStats, ChangeStep,
      FindUser, WriteUser, ForwardStep, NewsTakes, SubscriptionsTakes, PromoCodesTakes,
      NotificationTakes, Takes, TurnsDown, BulkStep, ReadRecipients, SendBatch, AllSent, Delivered,
      Undelivered, StatsStep, ReadStats, CountAll, CountBanned, KeepStats, CountFails, Replies,
      AdminTimesOut, LateEnds, AdminThrows
<1>2. c \in AdminCall /\ Sound(c)
  BY <1>1, InUse DEF Calls
<1>3. Becomes(c, Free)
  BY DEF Becomes
<1> DEFINE Goes == \E v : Becomes(c, v) /\ desk' = [desk EXCEPT ![d] = v]
           v(x) == [c EXCEPT !.at = x]
<1> SUFFICES Goes
  BY <1>2
<1>4. ASSUME NEW x \in {"look", "send", "read", "write", "count"}, Moves(d, x), c.at # "reply",
             c.at # "arrive" \/ c.kind \notin {"promote", "demote", "ban"} \/ c.by # c.about,
             x \in {"look", "read"} => c.at = "arrive",
             x = "write" => MayBe(c.kind, c.about),
             x = "count" => c.counts = NoStats
      PROVE  Goes
  <2>1. desk' = [desk EXCEPT ![d] = v(x)]
    BY <1>4 DEF Moves
  <2>2. v(x) \in AdminCall /\ v(x).at = x /\ SameCall(c, v(x)) /\ v(x).counts = c.counts /\ Sound(v(x))
    BY <1>2, <1>4, SoundMoves
  <2> HIDE DEF v
  <2>3. Becomes(c, v(x))
    BY <1>4, <2>2 DEF Becomes, SameCall
  <2> QED BY <2>1, <2>3
<1>5. ASSUME Refuses(d) PROVE Goes
  BY <1>3, <1>5 DEF Refuses
<1> HIDE DEF Goes
<1>6. CASE Serves(d)
  BY <1>4, <1>5, <1>6
  DEF Serves, ServeChange, ServeForward, ServeBulk, ServeStats, Changes, Passed, Forwards, Lists
<1>7. CASE FindUser(d)
  BY <1>4, <1>5, <1>7 DEF FindUser
<1>8. CASE WriteUser(d)
  <2> DEFINE w == [c EXCEPT !.done = "yes", !.logged = IF c.at = "write" THEN "yes" ELSE @,
                            !.at = IF @ = "write" THEN "reply" ELSE "late"]
  <2>1. desk' = [desk EXCEPT ![d] = w]
    BY <1>8 DEF WriteUser
  <2>2. /\ w \in AdminCall /\ SameCall(c, w) /\ w.counts = c.counts /\ w.done = "yes"
        /\ w.logged = (IF c.at = "write" THEN "yes" ELSE c.logged) /\ w.hurt = c.hurt
        /\ w.at = (IF c.at = "write" THEN "reply" ELSE "late")
        /\ w.left = c.left /\ w.batch = c.batch /\ w.sent = c.sent /\ w.missed = c.missed
        /\ w.got = c.got
    BY <1>2 DEF AdminCall, AdminSteps, Results, SameCall
  <2>3. c.at \in {"write", "late"}
    BY <1>8 DEF WriteUser
  <2> HIDE DEF w
  <2>4. Sound(w)
    BY <1>2, <2>2, <2>3 DEF Sound, Logged, Batched, SameCall
  <2>5. Becomes(c, w)
    BY <2>2, <2>3, <2>4 DEF Becomes
  <2> QED BY <2>1, <2>5 DEF Goes
<1>9. ASSUME NEW k \in Passed, Takes(d, k) PROVE Goes
  <2> DEFINE w == [c EXCEPT !.done = "yes", !.logged = IF c.at = "send" THEN "yes" ELSE @,
                            !.at = IF @ = "send" THEN "reply" ELSE "late"]
  <2>1. desk' = [desk EXCEPT ![d] = w]
    BY <1>9 DEF Takes
  <2>2. /\ w \in AdminCall /\ SameCall(c, w) /\ w.counts = c.counts /\ w.done = "yes"
        /\ w.logged = (IF c.at = "send" THEN "yes" ELSE c.logged) /\ w.hurt = c.hurt
        /\ w.at = (IF c.at = "send" THEN "reply" ELSE "late")
        /\ w.left = c.left /\ w.batch = c.batch /\ w.sent = c.sent /\ w.missed = c.missed
        /\ w.got = c.got
    BY <1>2 DEF AdminCall, AdminSteps, Results, SameCall
  <2>3. c.at \in {"send", "late"} /\ c.kind \in Passed
    BY <1>9 DEF Takes
  <2> HIDE DEF w
  <2>4. Sound(w)
    BY <1>2, <2>2, <2>3 DEF Sound, Logged, Batched, SameCall
  <2>5. Becomes(c, w)
    BY <2>2, <2>3, <2>4 DEF Becomes, SameCall, Passed, Forwards, Lists, Changes
  <2> QED BY <2>1, <2>5 DEF Goes
<1>10. CASE ForwardStep(d)
  BY <1>5, <1>9, <1>10
  DEF ForwardStep, NewsTakes, SubscriptionsTakes, PromoCodesTakes, NotificationTakes, TurnsDown,
      Passed, Forwards, Lists
<1>11. CASE ReadRecipients(d)
  <2>1. c.at = "look" /\ c.kind = "bulk"
    BY <1>11 DEF ReadRecipients
  <2>2. CASE known \ banned = {}
    <3> DEFINE w == [c EXCEPT !.done = "nothing to do", !.at = "reply"]
    <3>1. desk' = [desk EXCEPT ![d] = w]
      BY <1>11, <2>2 DEF ReadRecipients
    <3>2. /\ w \in AdminCall /\ SameCall(c, w) /\ w.counts = c.counts /\ w.done = "nothing to do"
          /\ w.logged = c.logged /\ w.hurt = c.hurt /\ w.at = "reply"
          /\ w.left = c.left /\ w.batch = c.batch /\ w.sent = c.sent /\ w.missed = c.missed
          /\ w.got = c.got
      BY <1>2 DEF AdminCall, AdminSteps, Results, SameCall
    <3> HIDE DEF w
    <3>3. Becomes(c, w)
      BY <1>2, <2>1, <3>2 DEF Becomes, Sound, Logged, Batched, SameCall
    <3> QED BY <3>1, <3>3 DEF Goes
  <2>3. CASE known \ banned # {}
    <3> DEFINE w == [c EXCEPT !.left = known \ banned, !.at = "send"]
    <3>1. desk' = [desk EXCEPT ![d] = w]
      BY <1>11, <2>3 DEF ReadRecipients
    <3>2. /\ w \in AdminCall /\ SameCall(c, w) /\ w.counts = c.counts /\ w.done = c.done
          /\ w.logged = c.logged /\ w.hurt = c.hurt /\ w.at = "send"
          /\ w.left = known \ banned /\ w.batch = c.batch /\ w.sent = c.sent
          /\ w.missed = c.missed /\ w.got = c.got
      BY <1>2 DEF AdminCall, AdminSteps, SameCall, AdminTypeOK
    <3> HIDE DEF w
    <3>3. Becomes(c, w)
      BY <1>2, <2>1, <3>2 DEF Becomes, Sound, Logged, Batched, SameCall, Changes
    <3> QED BY <3>1, <3>3 DEF Goes
  <2> QED BY <2>2, <2>3
<1>12. CASE SendBatch(d)
  <2>1. PICK B \in SUBSET c.left : desk' = [desk EXCEPT ![d].batch = B, ![d].left = @ \ B]
    BY <1>12 DEF SendBatch
  <2> DEFINE w == [c EXCEPT !.batch = B, !.left = @ \ B]
  <2>2. desk' = [desk EXCEPT ![d] = w]
    BY <2>1
  <2>3. /\ w \in AdminCall /\ SameCall(c, w) /\ w.counts = c.counts /\ w.done = c.done
        /\ w.logged = c.logged /\ w.hurt = c.hurt /\ w.at = c.at
        /\ w.left = c.left \ B /\ w.batch = B /\ w.sent = c.sent
        /\ w.missed = c.missed /\ w.got = c.got
    BY <1>2 DEF AdminCall, SameCall
  <2>4. c.at = "send" /\ c.kind = "bulk" /\ c.batch = {}
    BY <1>12 DEF SendBatch
  <2> HIDE DEF w
  <2>5. Sound(w)
    BY <1>2, <2>3, <2>4 DEF Sound, Logged, Batched, SameCall
  <2>6. Becomes(c, w)
    BY <2>3, <2>4, <2>5 DEF Becomes
  <2> QED BY <2>2, <2>6 DEF Goes
<1>13. CASE AllSent(d)
  <2> DEFINE w == [c EXCEPT !.done = "yes", !.logged = "yes", !.at = "reply"]
  <2>1. desk' = [desk EXCEPT ![d] = w]
    BY <1>13 DEF AllSent
  <2>2. /\ w \in AdminCall /\ SameCall(c, w) /\ w.counts = c.counts /\ w.done = "yes"
        /\ w.logged = "yes" /\ w.hurt = c.hurt /\ w.at = "reply"
        /\ w.left = c.left /\ w.batch = c.batch /\ w.sent = c.sent
        /\ w.missed = c.missed /\ w.got = c.got
    BY <1>2 DEF AdminCall, SameCall, AdminSteps, Results
  <2>3. c.at = "send"
    BY <1>13 DEF AllSent
  <2> HIDE DEF w
  <2>4. Sound(w)
    BY <1>2, <2>2, <2>3 DEF Sound, Logged, Batched, SameCall
  <2>5. Becomes(c, w)
    BY <2>2, <2>4 DEF Becomes
  <2> QED BY <2>1, <2>5 DEF Goes
<1>14. ASSUME NEW s \in Staff, c.at = "send", s \in c.batch
       PROVE  c.got \in [Staff -> 0..2] /\ c.got[s] = 0 /\ Twice(c.got[s]) = 1
  BY <1>2, <1>14 DEF AdminCall, Sound, Batched, Twice
<1>15. ASSUME NEW s \in Staff, Delivered(d, s) PROVE Goes
  <2> DEFINE g == [c.got EXCEPT ![s] = 1]
             w == [c EXCEPT !.batch = @ \ {s}, !.sent = @ \cup {s}, !.got = g]
  <2>1. c.at = "send" /\ s \in c.batch /\ c.got \in [Staff -> 0..2] /\ c.got[s] = 0
        /\ Twice(c.got[s]) = 1
    BY <1>14, <1>15 DEF Delivered
  <2>2. desk' = [desk EXCEPT ![d] = w]
    BY <1>2, <1>15, <2>1 DEF Delivered, AdminCall
  <2>3. g \in [Staff -> 0..2] /\ g[s] = 1 /\ \A x \in Staff \ {s} : g[x] = c.got[x]
    BY <2>1
  <2> HIDE DEF g
  <2>4. /\ w \in AdminCall /\ SameCall(c, w) /\ w.counts = c.counts /\ w.done = c.done
        /\ w.logged = c.logged /\ w.hurt = c.hurt /\ w.at = c.at
        /\ w.left = c.left /\ w.batch = c.batch \ {s} /\ w.sent = c.sent \cup {s}
        /\ w.missed = c.missed /\ w.got = g
    BY <1>2, <2>3 DEF AdminCall, SameCall
  <2> HIDE DEF w
  <2>5. Batched(w)
    BY <1>2, <2>1, <2>3, <2>4 DEF Sound, Batched
  <2>6. Sound(w)
    BY <1>2, <2>1, <2>4, <2>5 DEF Sound, Logged, SameCall
  <2>7. Becomes(c, w)
    BY <2>1, <2>4, <2>6 DEF Becomes
  <2> QED BY <2>2, <2>7 DEF Goes
<1>16. ASSUME NEW s \in Staff, NEW got \in {"no", "yes"}, Undelivered(d, s, got) PROVE Goes
  <2> DEFINE g == [c.got EXCEPT ![s] = IF got = "yes" THEN 1 ELSE 0]
             w == [c EXCEPT !.batch = @ \ {s}, !.missed = @ \cup {s}, !.got = g]
  <2>1. c.at = "send" /\ s \in c.batch /\ c.got \in [Staff -> 0..2] /\ c.got[s] = 0
        /\ Twice(c.got[s]) = 1
    BY <1>14, <1>16 DEF Undelivered
  <2>2. desk' = [desk EXCEPT ![d] = w]
    BY <1>2, <1>16, <2>1 DEF Undelivered, AdminCall
  <2>3. g \in [Staff -> 0..2] /\ g[s] \in 0..1 /\ \A x \in Staff \ {s} : g[x] = c.got[x]
    BY <2>1
  <2> HIDE DEF g
  <2>4. /\ w \in AdminCall /\ SameCall(c, w) /\ w.counts = c.counts /\ w.done = c.done
        /\ w.logged = c.logged /\ w.hurt = c.hurt /\ w.at = c.at
        /\ w.left = c.left /\ w.batch = c.batch \ {s} /\ w.sent = c.sent
        /\ w.missed = c.missed \cup {s} /\ w.got = g
    BY <1>2, <2>3 DEF AdminCall, SameCall
  <2> HIDE DEF w
  <2>5. Batched(w)
    BY <1>2, <2>1, <2>3, <2>4 DEF Sound, Batched
  <2>6. Sound(w)
    BY <1>2, <2>1, <2>4, <2>5 DEF Sound, Logged, SameCall
  <2>7. Becomes(c, w)
    BY <2>1, <2>4, <2>6 DEF Becomes
  <2> QED BY <2>2, <2>7 DEF Goes
<1>17. CASE BulkStep(d)
  BY <1>11, <1>12, <1>13, <1>15, <1>16, <1>17 DEF BulkStep
<1>18. ASSUME CountAll(d) PROVE Goes
  <2> DEFINE x == IF c.counts.banned = Unread THEN "count" ELSE "keep"
             k == [c.counts EXCEPT !.all = Cardinality(known)]
             w == [c EXCEPT !.counts = k, !.at = x]
  <2>1. c.at = "count" /\ x \in {"count", "keep"} /\ c.counts \in Stats
    BY <1>2, <1>18 DEF CountAll, AdminCall
  <2>2. desk' = [desk EXCEPT ![d] = w]
    BY <1>2, <1>18 DEF CountAll, Counted, AdminCall, Stats
  <2>3. Cardinality(known) \in Amount /\ Cardinality(known) # Unread
    BY Heads DEF AdminTypeOK
  <2>4. k \in Stats /\ k.all = Cardinality(known) /\ k.banned = c.counts.banned
    BY <2>1, <2>3 DEF Stats
  <2> HIDE DEF k
  <2>5. /\ w \in AdminCall /\ SameCall(c, w) /\ w.counts = k /\ w.done = c.done
        /\ w.logged = c.logged /\ w.hurt = c.hurt /\ w.at = x
        /\ w.left = c.left /\ w.batch = c.batch /\ w.sent = c.sent
        /\ w.missed = c.missed /\ w.got = c.got
    BY <1>2, <2>1, <2>4 DEF AdminCall, AdminSteps, SameCall
  <2> HIDE DEF w
  <2>6. Sound(w)
    BY <1>2, <2>1, <2>3, <2>4, <2>5 DEF Sound, Logged, Batched, SameCall
  <2>7. Becomes(c, w)
    BY <1>18, <2>1, <2>4, <2>5, <2>6 DEF Becomes
  <2> QED BY <2>2, <2>7 DEF Goes
<1>19. ASSUME CountBanned(d) PROVE Goes
  <2> DEFINE x == IF c.counts.all = Unread THEN "count" ELSE "keep"
             k == [c.counts EXCEPT !.banned = Cardinality(banned)]
             w == [c EXCEPT !.counts = k, !.at = x]
  <2>1. c.at = "count" /\ x \in {"count", "keep"} /\ c.counts \in Stats
    BY <1>2, <1>19 DEF CountBanned, AdminCall
  <2>2. desk' = [desk EXCEPT ![d] = w]
    BY <1>2, <1>19 DEF CountBanned, Counted, AdminCall, Stats
  <2>3. Cardinality(banned) \in Amount /\ Cardinality(banned) # Unread
    BY Heads DEF AdminTypeOK
  <2>4. k \in Stats /\ k.banned = Cardinality(banned) /\ k.all = c.counts.all
    BY <2>1, <2>3 DEF Stats
  <2> HIDE DEF k
  <2>5. /\ w \in AdminCall /\ SameCall(c, w) /\ w.counts = k /\ w.done = c.done
        /\ w.logged = c.logged /\ w.hurt = c.hurt /\ w.at = x
        /\ w.left = c.left /\ w.batch = c.batch /\ w.sent = c.sent
        /\ w.missed = c.missed /\ w.got = c.got
    BY <1>2, <2>1, <2>4 DEF AdminCall, AdminSteps, SameCall
  <2> HIDE DEF w
  <2>6. Sound(w)
    BY <1>2, <2>1, <2>3, <2>4, <2>5 DEF Sound, Logged, Batched, SameCall
  <2>7. Becomes(c, w)
    BY <1>19, <2>1, <2>4, <2>5, <2>6 DEF Becomes
  <2> QED BY <2>2, <2>7 DEF Goes
<1>20. ASSUME CountFails(d, "all") PROVE Goes
  <2> DEFINE x == IF c.counts.banned = Unread THEN "count" ELSE "keep"
             k == [c.counts EXCEPT !.all = 0]
             w == [c EXCEPT !.counts = k, !.at = x]
  <2>1. c.at = "count" /\ x \in {"count", "keep"} /\ c.counts \in Stats
    BY <1>2, <1>20 DEF CountFails, AdminCall
  <2>2. desk' = [desk EXCEPT ![d] = w]
    BY <1>2, <1>20 DEF CountFails, Counted, AdminCall, Stats
  <2>3. 0 \in Amount /\ 0 # Unread
    BY Zero
  <2>4. k \in Stats /\ k.all = 0 /\ k.banned = c.counts.banned
    BY <2>1, <2>3 DEF Stats
  <2> HIDE DEF k
  <2>5. /\ w \in AdminCall /\ SameCall(c, w) /\ w.counts = k /\ w.done = c.done
        /\ w.logged = c.logged /\ w.hurt = c.hurt /\ w.at = x
        /\ w.left = c.left /\ w.batch = c.batch /\ w.sent = c.sent
        /\ w.missed = c.missed /\ w.got = c.got
    BY <1>2, <2>1, <2>4 DEF AdminCall, AdminSteps, SameCall
  <2> HIDE DEF w
  <2>6. Sound(w)
    BY <1>2, <2>1, <2>3, <2>4, <2>5 DEF Sound, Logged, Batched, SameCall
  <2>7. Becomes(c, w)
    BY <1>20, <2>1, <2>4, <2>5, <2>6 DEF Becomes, CountFails
  <2> QED BY <2>2, <2>7 DEF Goes
<1>21. ASSUME CountFails(d, "banned") PROVE Goes
  <2> DEFINE x == IF c.counts.all = Unread THEN "count" ELSE "keep"
             k == [c.counts EXCEPT !.banned = 0]
             w == [c EXCEPT !.counts = k, !.at = x]
  <2>1. c.at = "count" /\ x \in {"count", "keep"} /\ c.counts \in Stats
    BY <1>2, <1>21 DEF CountFails, AdminCall
  <2>2. desk' = [desk EXCEPT ![d] = w]
    BY <1>2, <1>21 DEF CountFails, Counted, AdminCall, Stats
  <2>3. 0 \in Amount /\ 0 # Unread
    BY Zero
  <2>4. k \in Stats /\ k.banned = 0 /\ k.all = c.counts.all
    BY <2>1, <2>3 DEF Stats
  <2> HIDE DEF k
  <2>5. /\ w \in AdminCall /\ SameCall(c, w) /\ w.counts = k /\ w.done = c.done
        /\ w.logged = c.logged /\ w.hurt = c.hurt /\ w.at = x
        /\ w.left = c.left /\ w.batch = c.batch /\ w.sent = c.sent
        /\ w.missed = c.missed /\ w.got = c.got
    BY <1>2, <2>1, <2>4 DEF AdminCall, AdminSteps, SameCall
  <2> HIDE DEF w
  <2>6. Sound(w)
    BY <1>2, <2>1, <2>3, <2>4, <2>5 DEF Sound, Logged, Batched, SameCall
  <2>7. Becomes(c, w)
    BY <1>21, <2>1, <2>4, <2>5, <2>6 DEF Becomes, CountFails
  <2> QED BY <2>2, <2>7 DEF Goes
<1>22. CASE StatsStep(d)
  <2>1. CASE ReadStats(d)
    <3>1. c.at = "read" /\ c.counts = NoStats
      BY <1>2, <2>1 DEF ReadStats, Sound
    <3> QED BY <1>4, <1>5, <2>1, <3>1 DEF ReadStats
  <2>2. CASE KeepStats(d)
    <3> DEFINE w == [c EXCEPT !.done = "yes", !.logged = "yes", !.at = "reply"]
    <3>1. desk' = [desk EXCEPT ![d] = w]
      BY <2>2 DEF KeepStats
    <3>2. /\ w \in AdminCall /\ SameCall(c, w) /\ w.counts = c.counts /\ w.done = "yes"
          /\ w.logged = "yes" /\ w.hurt = c.hurt /\ w.at = "reply"
          /\ w.left = c.left /\ w.batch = c.batch /\ w.sent = c.sent
          /\ w.missed = c.missed /\ w.got = c.got
      BY <1>2 DEF AdminCall, SameCall, AdminSteps, Results
    <3>3. c.at = "keep"
      BY <2>2 DEF KeepStats
    <3> HIDE DEF w
    <3>4. Sound(w)
      BY <1>2, <3>2, <3>3 DEF Sound, Logged, Batched, SameCall
    <3>5. Becomes(c, w)
      BY <3>2, <3>4 DEF Becomes
    <3> QED BY <3>1, <3>5 DEF Goes
  <2> QED BY <1>18, <1>19, <1>20, <1>21, <1>22, <2>1, <2>2 DEF StatsStep
<1>23. ASSUME desk' = [desk EXCEPT ![d] = Free] PROVE Goes
  BY <1>3, <1>23 DEF Goes
<1>24. CASE Replies(d) \/ LateEnds(d) \/ AdminThrows(d)
  BY <1>23, <1>24 DEF Replies, LateEnds, AdminThrows, Closes
<1>25. CASE AdminTimesOut(d)
  <2> DEFINE w == [c EXCEPT !.at = "late", !.hurt = "yes"]
  <2>1. desk' = [desk EXCEPT ![d] = w]
    BY <1>25 DEF AdminTimesOut
  <2>2. /\ w \in AdminCall /\ SameCall(c, w) /\ w.counts = c.counts /\ w.done = c.done
        /\ w.logged = c.logged /\ w.hurt = "yes" /\ w.at = "late"
        /\ w.left = c.left /\ w.batch = c.batch /\ w.sent = c.sent /\ w.missed = c.missed
        /\ w.got = c.got
    BY <1>2 DEF AdminCall, AdminSteps, SameCall
  <2> HIDE DEF w
  <2>3. c.at \in {"write", "send"} /\ (c.at = "send" => c.kind \in Passed)
    <3>1. \/ desk[d].at = "write"
          \/ desk[d].at = "send" /\ desk[d].kind \in Passed
      BY <1>25 DEF AdminTimesOut
    <3> QED BY <3>1
  <2>4. Sound(w)
    BY <1>2, <2>2, <2>3 DEF Sound, Logged, Batched, SameCall
  <2>5. Becomes(c, w)
    BY <2>2, <2>3, <2>4 DEF Becomes, SameCall, Passed, Forwards, Lists, Changes
  <2> QED BY <2>1, <2>5 DEF Goes
<1> QED
  BY <1>6, <1>7, <1>8, <1>10, <1>17, <1>22, <1>24, <1>25 DEF CallStep, ChangeStep

-------------------------------------------------------------------------------
(* All calls at once.                                                        *)

\* What becomes of the call at a desk in a step, whoever takes it.
Later(c, v) ==
  /\ v \in AdminCall \cup {Free}
  /\ v # Free =>
       /\ Sound(v)
       /\ \/ c = Free /\ v.at = "arrive" /\ v.by \in claims
          \/ /\ c # Free
             /\ v.by = c.by /\ v.kind = c.kind /\ v.about = c.about
             /\ c.crossed = "yes" => v.crossed = "yes"
             /\ v.at \in {"write", "late"} /\ v.kind \in Changes =>
                  c.at \in {"write", "late"} \/ MayBe(c.kind, c.about)
             /\ v.at \in {"count", "keep"} =>
                  \/ v.counts = NoStats
                  \/ /\ c.at \in {"count", "keep"}
                     /\ v.counts.all \in {c.counts.all, Cardinality(known)} \/ blurred' = "yes"
                     /\ v.counts.banned \in {c.counts.banned, Cardinality(banned)} \/ blurred' = "yes"

LEMMA Stays ==
  ASSUME AdminTypeOK, Calls, NEW d \in Desks
  PROVE  Later(desk[d], desk[d])
  BY DEF AdminTypeOK, Calls, Later

LEMMA Crosses ==
  ASSUME NEW c \in AdminCall, Sound(c), NEW x \in {"no", "yes"}
  PROVE  LET v == [c EXCEPT !.crossed = x] IN
         /\ v \in AdminCall /\ Sound(v) /\ v.crossed = x /\ v.at = c.at
         /\ v.by = c.by /\ v.kind = c.kind /\ v.about = c.about /\ v.counts = c.counts
<1> DEFINE v == [c EXCEPT !.crossed = x]
<1>1. /\ v \in AdminCall /\ v.at = c.at /\ v.crossed = x
      /\ v.by = c.by /\ v.kind = c.kind /\ v.about = c.about /\ v.counts = c.counts
      /\ v.done = c.done /\ v.logged = c.logged /\ v.hurt = c.hurt
      /\ v.left = c.left /\ v.batch = c.batch /\ v.sent = c.sent /\ v.missed = c.missed
      /\ v.got = c.got
  BY DEF AdminCall
<1> HIDE DEF v
<1>2. Sound(v)
  BY <1>1 DEF Sound, Logged, Batched
<1> QED BY <1>1, <1>2 DEF v

\* A call begins: it goes to a free desk, and the other changes of its user
\* learn of it.
Opens(d, a, v) ==
  /\ desk[d] = Free /\ a \in claims
  /\ v \in AdminCall /\ Sound(v) /\ v.at = "arrive" /\ v.by = a
  /\ desk' = [e \in Desks |->
                IF e = d THEN v
                ELSE IF v.kind \in Changes /\ e \in About(v.about)
                  THEN [desk[e] EXCEPT !.crossed = "yes"]
                ELSE desk[e]]
  /\ v.kind \in Changes => v.crossed = (IF About(v.about) = {} THEN "no" ELSE "yes")

LEMMA CallBegins ==
  ASSUME AdminTypeOK, NEW d \in Desks, NEW a \in Staff, Asks(d, a)
  PROVE  /\ \E v : Opens(d, a, v)
         /\ outcome' = Free
         /\ UNCHANGED <<userVars, claims, stats, outdated, blurred>>
<1>1. ASSUME NEW k \in Changes, NEW u \in Staff, AskChange(d, k, a, u)
      PROVE  \E v : Opens(d, a, v)
  <2> DEFINE x == IF About(u) = {} THEN "no" ELSE "yes"
             b == Call0(k, a, u)
             v == [b EXCEPT !.crossed = x]
  <2>1. k \in Kinds
    BY DEF Kinds
  <2>2. b \in AdminCall /\ Sound(b) /\ b.at = "arrive" /\ b.kind = k /\ b.by = a /\ b.about = u
    BY <2>1, NewCall
  <2> HIDE DEF b
  <2>3. /\ v \in AdminCall /\ Sound(v)
        /\ v.at = "arrive" /\ v.kind = k /\ v.by = a /\ v.about = u /\ v.crossed = x
    BY <2>2, Crosses
  <2>4. desk' = [e \in Desks |->
                   IF e = d THEN v
                   ELSE IF e \in About(u) THEN [desk[e] EXCEPT !.crossed = "yes"]
                   ELSE desk[e]]
    BY <1>1 DEF AskChange, b
  <2> HIDE DEF v, x
  <2>5. Opens(d, a, v)
    BY <1>1, <2>3, <2>4 DEF AskChange, Opens, Privileged, x
  <2> QED BY <2>5
<1>2. ASSUME NEW v \in AdminCall, Sound(v), v.at = "arrive", v.by = a, v.kind \notin Changes,
             desk[d] = Free, a \in claims, desk' = [desk EXCEPT ![d] = v]
      PROVE  \E w : Opens(d, a, w)
  <2>1. Opens(d, a, v)
    BY <1>2 DEF Opens, AdminTypeOK
  <2> QED BY <2>1
<1>3. ASSUME NEW k \in Kinds \ Changes
      PROVE  LET b == Call0(k, a, a) IN
             /\ b \in AdminCall /\ Sound(b) /\ b.at = "arrive" /\ b.by = a /\ b.kind \notin Changes
  BY NewCall
<1>4. ASSUME NEW k \in Forwards, AskForward(d, k, a) PROVE \E v : Opens(d, a, v)
  <2>1. k \in Kinds \ Changes
    BY DEF Kinds, Passed, Forwards, Lists, Changes
  <2> QED BY <1>2, <1>3, <1>4, <2>1 DEF AskForward, Privileged
<1>5. ASSUME NEW k \in Lists, AskList(d, k, a) PROVE \E v : Opens(d, a, v)
  <2>1. k \in Kinds \ Changes
    BY DEF Kinds, Passed, Forwards, Lists, Changes
  <2> QED BY <1>2, <1>3, <1>5, <2>1 DEF AskList, Privileged
<1>6. ASSUME NEW l \in SUBSET known, AskBulk(d, a, l) PROVE \E v : Opens(d, a, v)
  <2> DEFINE b == Call0("bulk", a, a)
             v == [b EXCEPT !.left = l]
  <2>1. "bulk" \in Kinds \ Changes /\ l \in SUBSET Staff
    BY DEF Kinds, Passed, Forwards, Lists, Changes, AdminTypeOK
  <2>2. b \in AdminCall /\ Sound(b) /\ b.at = "arrive" /\ b.by = a /\ b.kind \notin Changes
    BY <1>3, <2>1
  <2>3. desk[d] = Free /\ a \in claims /\ desk' = [desk EXCEPT ![d] = v]
    BY <1>6 DEF AskBulk, Privileged
  <2> HIDE DEF b
  <2>4. v \in AdminCall /\ Sound(v) /\ v.at = "arrive" /\ v.by = a /\ v.kind \notin Changes
    BY <2>1, <2>2, NewList
  <2> HIDE DEF v
  <2> QED BY <1>2, <2>3, <2>4
<1>7. ASSUME AskStats(d, a) PROVE \E v : Opens(d, a, v)
  <2>1. "stats" \in Kinds \ Changes
    BY DEF Kinds, Changes, Passed, Forwards, Lists
  <2> QED BY <1>2, <1>3, <1>7, <2>1 DEF AskStats, Privileged
<1>8. \E v : Opens(d, a, v)
  BY <1>1, <1>4, <1>5, <1>6, <1>7 DEF Asks
<1>9. outcome' = Free /\ UNCHANGED <<userVars, claims, stats, outdated, blurred>>
  BY DEF Asks, AskChange, AskForward, AskList, AskBulk, AskStats, Silent
<1> QED BY <1>8, <1>9

\* The steps of the users, and the end of the cached numbers.
UserStep == (\E s \in Staff : SignUp(s) \/ SignIn(s) \/ ClaimExpires(s)) \/ StatsExpire

LEMMA Stages ==
  ASSUME [AdminNext]_adminVars
  PROVE  \/ UserStep
         \/ \E d \in Desks, a \in Staff : Asks(d, a)
         \/ \E d \in Desks : CallStep(d)
         \/ UNCHANGED adminVars
  BY DEF AdminNext, UserStep, CallStep

\* What the steps of calls leave alone.
LEMMA CallFrame ==
  ASSUME NEW d \in Desks, CallStep(d)
  PROVE  /\ UNCHANGED <<known, claims>>
         /\ WriteUser(d) \/ UNCHANGED <<role, banned, outdated>>
         /\ KeepStats(d) \/ stats' = stats
         /\ WriteUser(d) \/ StatsStep(d) \/ blurred' = blurred
         /\ Replies(d) \/ LateEnds(d) \/ AdminThrows(d) \/ outcome' = Free
<1>1. CASE Serves(d)
  BY <1>1 DEF Serves, ServeChange, ServeForward, ServeBulk, ServeStats, Silent, Refuses, userVars
<1>2. CASE ChangeStep(d)
  BY <1>2 DEF ChangeStep, FindUser, WriteUser, Silent, Refuses, userVars
<1>3. CASE ForwardStep(d)
  BY <1>3 DEF ForwardStep, NewsTakes, SubscriptionsTakes, PromoCodesTakes, NotificationTakes,
              Takes, TurnsDown, Silent, Refuses, userVars
<1>4. CASE BulkStep(d)
  BY <1>4 DEF BulkStep, ReadRecipients, SendBatch, AllSent, Delivered, Undelivered, Silent, userVars
<1>5. CASE StatsStep(d)
  BY <1>5 DEF StatsStep, ReadStats, CountAll, CountBanned, CountFails, KeepStats, Silent, Refuses,
              userVars
<1>6. CASE Replies(d) \/ LateEnds(d) \/ AdminThrows(d) \/ AdminTimesOut(d)
  BY <1>6 DEF Replies, LateEnds, AdminThrows, AdminTimesOut, Silent, userVars
<1> QED BY <1>1, <1>2, <1>3, <1>4, <1>5, <1>6 DEF CallStep

\* Every desk.
LEMMA DesksLater ==
  ASSUME AdminTypeOK, Calls, [AdminNext]_adminVars
  PROVE  desk' \in [Desks -> AdminCall \cup {Free}] /\ \A e \in Desks : Later(desk[e], desk'[e])
<1>0. \A e \in Desks : Later(desk[e], desk[e])
  BY Stays
<1>1. CASE UserStep \/ UNCHANGED adminVars
  <2>1. desk' = desk
    BY <1>1 DEF UserStep, SignUp, SignIn, ClaimExpires, StatsExpire, adminVars
  <2> QED BY <1>0, <2>1 DEF AdminTypeOK
<1>2. ASSUME NEW d \in Desks, NEW a \in Staff, Asks(d, a)
      PROVE  desk' \in [Desks -> AdminCall \cup {Free}] /\ \A e \in Desks : Later(desk[e], desk'[e])
  <2>1. PICK v : Opens(d, a, v)
    BY <1>2, CallBegins
  <2>2. Later(desk[d], desk'[d])
    BY <2>1 DEF Opens, Later
  <2>3. ASSUME NEW e \in Desks, e # d PROVE Later(desk[e], desk'[e])
    <3>1. CASE desk'[e] = desk[e]
      BY <1>0, <3>1
    <3>2. CASE e \in About(v.about) /\ desk'[e] = [desk[e] EXCEPT !.crossed = "yes"]
      <4> DEFINE c == desk[e]
                 w == [c EXCEPT !.crossed = "yes"]
      <4>1. c \in AdminCall /\ Sound(c) /\ c # Free
        BY <3>2, InUse DEF About, AdminTypeOK, Calls
      <4>2. /\ w \in AdminCall /\ Sound(w) /\ w.crossed = "yes" /\ w.at = c.at
            /\ w.by = c.by /\ w.kind = c.kind /\ w.about = c.about /\ w.counts = c.counts
        BY <4>1, Crosses
      <4>3. desk'[e] = w
        BY <3>2
      <4> HIDE DEF w
      <4>4. Later(c, w)
        BY <4>1, <4>2 DEF Later
      <4> QED BY <4>3, <4>4
    <3> QED BY <2>1, <2>3, <3>1, <3>2 DEF Opens
  <2>4. \A e \in Desks : Later(desk[e], desk'[e])
    BY <2>2, <2>3
  <2>5. desk' \in [Desks -> AdminCall \cup {Free}]
    <3>1. \A e \in Desks : desk'[e] \in AdminCall \cup {Free}
      BY <2>4 DEF Later
    <3> QED BY <2>1, <3>1 DEF Opens
  <2> QED BY <2>4, <2>5
<1>3. ASSUME NEW d \in Desks, CallStep(d)
      PROVE  desk' \in [Desks -> AdminCall \cup {Free}] /\ \A e \in Desks : Later(desk[e], desk'[e])
  <2>1. desk[d] \in AdminCall
    BY <1>3, CallGoesOn
  <2>2. PICK v : Becomes(desk[d], v) /\ desk' = [desk EXCEPT ![d] = v]
    BY <1>3, CallGoesOn
  <2>3. desk[d] # Free /\ v \in AdminCall \cup {Free}
    BY <2>1, <2>2, InUse DEF Becomes
  <2>4. Later(desk[d], v)
    BY <2>2, <2>3 DEF Becomes, Later, SameCall
  <2> QED BY <1>0, <2>2, <2>3, <2>4 DEF AdminTypeOK
<1> QED BY <1>1, <1>2, <1>3, Stages

-------------------------------------------------------------------------------
(* The invariant, part by part.                                              *)

LEMMA CallsStep ==
  ASSUME AdminTypeOK, Calls, [AdminNext]_adminVars
  PROVE  Calls'
  BY DesksLater DEF Calls, Later

LEMMA AdminTypedStep ==
  ASSUME AdminTypeOK, Calls, [AdminNext]_adminVars
  PROVE  AdminTypeOK'
<1> SUFFICES /\ known' \subseteq Staff /\ role' \in [Staff -> {0, 1}] /\ banned' \subseteq Staff
             /\ claims' \subseteq Staff /\ stats' \in Stats /\ outcome' \in Outcome \cup {Free}
             /\ outdated' \in {"no", "yes"} /\ blurred' \in {"no", "yes"}
  BY DesksLater DEF AdminTypeOK
<1>1. CASE UserStep
  <2>1. NoStats \in Stats
    BY Heads DEF NoStats, Stats, Amount, Unread
  <2> QED BY <1>1, <2>1
      DEF AdminTypeOK, UserStep, SignUp, SignIn, ClaimExpires, StatsExpire, Silent, userVars
<1>2. CASE \E d \in Desks, a \in Staff : Asks(d, a)
  BY <1>2, CallBegins DEF AdminTypeOK, userVars
<1>3. ASSUME NEW d \in Desks, CallStep(d)
      PROVE  /\ known' \subseteq Staff /\ role' \in [Staff -> {0, 1}] /\ banned' \subseteq Staff
             /\ claims' \subseteq Staff /\ stats' \in Stats /\ outcome' \in Outcome \cup {Free}
             /\ outdated' \in {"no", "yes"} /\ blurred' \in {"no", "yes"}
  <2>1. desk[d] \in AdminCall
    BY <1>3, CallGoesOn
  <2>2. UNCHANGED <<known, claims>>
    BY <1>3, CallFrame
  <2>3. /\ role' \in [Staff -> {0, 1}] /\ banned' \subseteq Staff
        /\ outdated' \in {"no", "yes"}
    <3>1. CASE WriteUser(d)
      BY <2>1, <3>1 DEF WriteUser, Updates, AdminTypeOK, AdminCall
    <3> QED BY <1>3, <3>1, CallFrame DEF AdminTypeOK
  <2>4. stats' \in Stats
    <3>1. desk[d].counts \in Stats /\ stats \in Stats
      BY <2>1 DEF AdminTypeOK, AdminCall
    <3> QED BY <1>3, <3>1, CallFrame DEF KeepStats
  <2>5. outcome' \in Outcome \cup {Free}
    <3>1. ASSUME NEW a \in {"no", "yes"}, NEW h \in {desk[d].hurt, "yes"},
                 outcome' = [kind |-> desk[d].kind, done |-> desk[d].done, logged |-> desk[d].logged,
                             audited |-> a, hurt |-> h]
          PROVE  outcome' \in Outcome
      BY <2>1, <3>1 DEF Outcome, AdminCall
    <3>2. CASE Replies(d) \/ LateEnds(d)
      BY <3>1, <3>2 DEF Replies, LateEnds, Closes
    <3>3. CASE AdminThrows(d)
      BY <3>1, <3>3 DEF AdminThrows
    <3> QED BY <1>3, <3>2, <3>3, CallFrame
  <2>6. blurred' \in {"no", "yes"}
    <3>1. CASE WriteUser(d)
      BY <3>1 DEF WriteUser, AdminTypeOK
    <3>2. CASE StatsStep(d)
      BY <3>2 DEF StatsStep, ReadStats, CountAll, CountBanned, CountFails, KeepStats, AdminTypeOK
    <3> QED BY <1>3, <3>1, <3>2, CallFrame DEF AdminTypeOK
  <2> QED BY <2>2, <2>3, <2>4, <2>5, <2>6 DEF AdminTypeOK
<1>4. CASE UNCHANGED adminVars
  BY <1>4 DEF AdminTypeOK, adminVars, userVars
<1> QED BY <1>1, <1>2, <1>3, <1>4, Stages

\* The table: whoever holds a role or a token exists.
LEMMA KnownStep ==
  ASSUME AdminTypeOK, Calls, Existing, Standing, [AdminNext]_adminVars
  PROVE  Existing' /\ known \subseteq known'
<1>1. CASE UserStep
  BY <1>1 DEF Existing, UserStep, SignUp, SignIn, ClaimExpires, StatsExpire, userVars
<1>2. CASE \E d \in Desks, a \in Staff : Asks(d, a)
  BY <1>2, CallBegins DEF Existing, userVars
<1>3. ASSUME NEW d \in Desks, CallStep(d) PROVE Existing' /\ known \subseteq known'
  <2>1. CASE WriteUser(d)
    <3>1. desk[d] # Free
      BY <1>3, InUse, CallGoesOn
    <3>2. desk[d].about \in known
      BY <2>1, <3>1 DEF WriteUser, Standing, Seen
    <3>3. known' = known /\ claims' = claims
      BY <1>3, CallFrame
    <3>4. banned' \subseteq known
      BY <2>1, <3>2 DEF WriteUser, Updates, Existing
    <3>5. ASSUME NEW s \in Staff, role'[s] = 1 PROVE s \in known
      BY <2>1, <3>2, <3>5 DEF WriteUser, Updates, Existing, AdminTypeOK
    <3> QED BY <3>3, <3>4, <3>5 DEF Existing
  <2> QED BY <1>3, <2>1, CallFrame DEF Existing
<1>4. CASE UNCHANGED adminVars
  BY <1>4 DEF Existing, adminVars, userVars
<1> QED BY <1>1, <1>2, <1>3, <1>4, Stages

\* What calls have seen stays so.
LEMMA StandingStep ==
  ASSUME AdminTypeOK, Calls, Existing, Standing, Crossing, [AdminNext]_adminVars
  PROVE  Standing'
<1> SUFFICES ASSUME NEW e \in Desks, desk'[e] # Free
             PROVE  /\ desk'[e].by \in known'
                    /\ desk'[e].kind \in Changes /\ desk'[e].at \in {"write", "late"} =>
                         /\ desk'[e].about \in known'
                         /\ desk'[e].kind = "ban" /\ desk'[e].crossed = "no"
                              => role'[desk'[e].about] = 0
  BY DEF Standing, Seen
<1> DEFINE c == desk[e]
           v == desk'[e]
<1>1. Later(c, v) /\ v \in AdminCall /\ c \in AdminCall \cup {Free}
  BY DesksLater, InUse DEF Later, AdminTypeOK
<1>2. known \subseteq known' /\ claims \subseteq known
  BY KnownStep DEF Existing
<1>3. v.by \in known'
  BY <1>1, <1>2 DEF Later, Standing, Seen
<1>4. ASSUME v.kind \in Changes, v.at \in {"write", "late"}
      PROVE  /\ v.about \in known'
             /\ v.kind = "ban" /\ v.crossed = "no" => role'[v.about] = 0
  <2>1. /\ c # Free /\ v.kind = c.kind /\ v.about = c.about
        /\ c.crossed = "yes" => v.crossed = "yes"
        /\ c.at \in {"write", "late"} \/ MayBe(c.kind, c.about)
    BY <1>1, <1>4 DEF Later
  <2>2. c \in AdminCall /\ v.about \in Staff
    BY <1>1, <2>1, InUse DEF AdminCall
  <2>3. c.about \in known /\ (c.kind = "ban" /\ v.crossed = "no" => role[c.about] = 0)
    <3>1. CASE c.at \in {"write", "late"}
      BY <1>4, <2>1, <2>2, <3>1 DEF Standing, Seen, AdminCall
    <3>2. CASE MayBe(c.kind, c.about)
      BY <1>4, <2>1, <2>2, <3>2 DEF MayBe, Bannable, Changes, AdminTypeOK
    <3> QED BY <2>1, <3>1, <3>2
  <2>4. CASE role' = role
    BY <1>2, <2>1, <2>3, <2>4
  <2>5. ASSUME NEW d \in Desks, CallStep(d), WriteUser(d), c.kind = "ban", v.crossed = "no"
        PROVE  role'[c.about] = 0
    <3>1. desk[d] \in AdminCall /\ desk[d] # Free /\ desk[d].kind \in Changes
      BY <2>5, CallGoesOn, InUse DEF WriteUser
    <3>2. CASE d = e
      BY <2>2, <2>3, <2>5, <3>2 DEF WriteUser, Updates, AdminTypeOK
    <3>3. CASE d # e /\ desk[d].about = c.about
      <4>1. c.crossed = "yes"
        BY <1>4, <2>1, <3>1, <3>3 DEF Crossing
      <4> QED BY <2>1, <2>5, <4>1
    <3>4. CASE desk[d].about # c.about
      BY <2>1, <2>2, <2>3, <2>5, <3>4 DEF WriteUser, Updates, AdminTypeOK
    <3> QED BY <3>2, <3>3, <3>4
  <2>6. role' = role \/ \E d \in Desks : CallStep(d) /\ WriteUser(d)
    <3>1. CASE UserStep
      BY <3>1 DEF UserStep, SignUp, SignIn, ClaimExpires, StatsExpire, userVars
    <3>2. CASE \E d \in Desks, a \in Staff : Asks(d, a)
      BY <3>2, CallBegins DEF userVars
    <3>3. CASE \E d \in Desks : CallStep(d)
      BY <3>3, CallFrame
    <3>4. CASE UNCHANGED adminVars
      BY <3>4 DEF adminVars, userVars
    <3> QED BY <3>1, <3>2, <3>3, <3>4, Stages
  <2> QED BY <1>2, <2>1, <2>3, <2>4, <2>5, <2>6
<1> QED BY <1>3, <1>4

\* Crossing calls know it from the start.
LEMMA CrossingStep ==
  ASSUME AdminTypeOK, Calls, Crossing, [AdminNext]_adminVars
  PROVE  Crossing'
<1> SUFFICES ASSUME NEW d \in Desks, NEW e \in Desks, d # e, desk'[d] # Free, desk'[e] # Free,
                    desk'[d].kind \in Changes, desk'[e].kind \in Changes,
                    desk'[d].about = desk'[e].about
             PROVE  desk'[d].crossed = "yes"
  BY DEF Crossing
<1>1. \A f \in Desks : Later(desk[f], desk'[f])
  BY DesksLater
<1>2. CASE desk[d] # Free /\ desk[e] # Free
  <2>1. desk[d].crossed = "yes"
    BY <1>1, <1>2 DEF Crossing, Later
  <2> QED BY <1>1, <1>2, <2>1 DEF Later
<1>3. CASE desk[d] = Free \/ desk[e] = Free
  <2>1. CASE UserStep \/ UNCHANGED adminVars
    BY <1>3, <2>1 DEF UserStep, SignUp, SignIn, ClaimExpires, StatsExpire, adminVars
  <2>2. ASSUME NEW f \in Desks, CallStep(f) PROVE FALSE
    <3>1. desk[f] \in AdminCall
      BY <2>2, CallGoesOn
    <3>2. PICK v : desk' = [desk EXCEPT ![f] = v]
      BY <2>2, CallGoesOn
    <3>3. desk[f] # Free
      BY <3>1, InUse
    <3> QED BY <1>3, <3>2, <3>3
  <2>3. ASSUME NEW f \in Desks, NEW a \in Staff, Asks(f, a) PROVE desk'[d].crossed = "yes"
    <3>1. PICK v : Opens(f, a, v)
      BY <2>3, CallBegins
    <3>2. desk'[f] = v /\ desk[f] = Free /\ v \in AdminCall
      BY <3>1 DEF Opens
    <3>3. \A g \in Desks \ {f} : desk'[g] # Free => desk[g] # Free
      BY <3>1 DEF Opens, About
    <3>4. CASE f = d
      <4>1. desk[e] # Free /\ v.kind \in Changes /\ v.about = desk'[e].about
        BY <3>2, <3>3, <3>4
      <4>2. desk[e].kind = desk'[e].kind /\ desk[e].about = desk'[e].about
        BY <1>1, <4>1 DEF Later
      <4>3. e \in About(v.about)
        BY <4>1, <4>2 DEF About
      <4> QED BY <3>1, <3>2, <3>4, <4>1, <4>3 DEF Opens
    <3>5. CASE f = e
      <4>1. desk[d] # Free /\ v.kind \in Changes /\ v.about = desk'[d].about
        BY <3>2, <3>3, <3>5
      <4>2. desk[d].kind = desk'[d].kind /\ desk[d].about = desk'[d].about
        BY <1>1, <4>1 DEF Later
      <4>3. d \in About(v.about) /\ desk[d] \in AdminCall
        BY <4>1, <4>2, InUse DEF About, AdminTypeOK
      <4>4. desk'[d] = [desk[d] EXCEPT !.crossed = "yes"]
        BY <3>1, <3>5, <4>1, <4>3 DEF Opens
      <4> QED BY <4>3, <4>4 DEF AdminCall
    <3>6. CASE f # d /\ f # e
      BY <1>3, <3>3, <3>6
    <3> QED BY <3>4, <3>5, <3>6
  <2> QED BY <2>1, <2>2, <2>3, Stages
<1> QED BY <1>2, <1>3

\* Counts under way, and the cached ones.
LEMMA CountsStep ==
  ASSUME AdminTypeOK, Calls, Existing, CountsAgree, DashboardAddsUp, [AdminNext]_adminVars
  PROVE  CountsAgree' /\ DashboardAddsUp'
<1>1. \A f \in Desks : Later(desk[f], desk'[f])
  BY DesksLater
<1>2. ASSUME UNCHANGED <<known, banned>>, blurred' = "no", blurred = "no",
             NEW d \in Desks, desk'[d].at \in {"count", "keep"}
      PROVE  /\ desk'[d].counts.all \in {Unread, Cardinality(known)}
             /\ desk'[d].counts.banned \in {Unread, Cardinality(banned)}
  <2>1. desk'[d] # Free /\ desk'[d].at # "arrive"
    BY <1>2 DEF Free
  <2>2. \/ desk'[d].counts = NoStats
        \/ /\ desk[d].at \in {"count", "keep"}
           /\ desk'[d].counts.all \in {desk[d].counts.all, Cardinality(known)}
           /\ desk'[d].counts.banned \in {desk[d].counts.banned, Cardinality(banned)}
    BY <1>1, <1>2, <2>1 DEF Later
  <2>3. CASE desk'[d].counts = NoStats
    BY <2>3 DEF NoStats
  <2> QED BY <1>2, <2>2, <2>3 DEF CountsAgree
<1>3. ASSUME UNCHANGED <<known, banned, stats>>, blurred' \in {blurred, "yes"}
      PROVE  CountsAgree' /\ DashboardAddsUp'
  BY <1>2, <1>3 DEF CountsAgree, DashboardAddsUp
<1>4. CASE UserStep
  <2>1. ASSUME NEW s \in Staff, SignUp(s) PROVE CountsAgree' /\ DashboardAddsUp'
    BY <2>1 DEF SignUp, CountsAgree, DashboardAddsUp, userVars
  <2>2. ASSUME NEW s \in Staff, SignIn(s) \/ ClaimExpires(s) PROVE CountsAgree' /\ DashboardAddsUp'
    BY <1>3, <2>2 DEF SignIn, ClaimExpires, userVars
  <2>3. CASE StatsExpire
    BY <2>3 DEF StatsExpire, CountsAgree, DashboardAddsUp, NoStats, Unread, userVars
  <2> QED BY <1>4, <2>1, <2>2, <2>3 DEF UserStep
<1>5. CASE \E d \in Desks, a \in Staff : Asks(d, a)
  BY <1>3, <1>5, CallBegins DEF userVars
<1>6. ASSUME NEW d \in Desks, CallStep(d) PROVE CountsAgree' /\ DashboardAddsUp'
  <2>1. desk[d] \in AdminCall /\ Sound(desk[d]) /\ known' = known
    BY <1>6, CallGoesOn, CallFrame, InUse DEF Calls
  <2>2. CASE WriteUser(d)
    <3>1. stats' = stats
      BY <2>2 DEF WriteUser
    <3>2. ASSUME blurred' = "no", NEW e \in Desks PROVE desk'[e].at \notin {"count", "keep"}
      BY <2>1, <2>2, <3>2 DEF WriteUser, AdminTypeOK, AdminCall
    <3>3. DashboardAddsUp'
      BY <2>2, <3>1 DEF WriteUser, DashboardAddsUp
    <3> QED BY <3>2, <3>3 DEF CountsAgree
  <2>3. CASE ReadStats(d)
    <3>1. UNCHANGED <<known, banned>>
      BY <2>3 DEF ReadStats, userVars
    <3>2. stats' = stats
      BY <2>3 DEF ReadStats
    <3>3. CASE blurred' = blurred
      BY <1>3, <3>1, <3>2, <3>3
    <3>4. CASE stats = NoStats /\ \A e \in Desks \ {d} : desk[e].at \notin {"count", "keep"}
      <4>1. DashboardAddsUp'
        BY <3>2, <3>4 DEF DashboardAddsUp, NoStats, Unread
      <4>2. desk' = [desk EXCEPT ![d] = [desk[d] EXCEPT !.at = "count"]]
        BY <2>3, <3>4 DEF ReadStats, Moves
      <4>3. desk[d].counts = NoStats
        BY <2>1, <2>3 DEF ReadStats, Sound
      <4>4. desk'[d].counts = NoStats
        BY <2>1, <4>2, <4>3 DEF AdminTypeOK, AdminCall
      <4>5. \A e \in Desks : desk'[e].at \in {"count", "keep"} => desk'[e].counts = NoStats
        BY <3>4, <4>2, <4>4 DEF AdminTypeOK
      <4>6. NoStats.all = Unread /\ NoStats.banned = Unread
        BY DEF NoStats
      <4> QED BY <4>1, <4>5, <4>6 DEF CountsAgree
    <3> QED BY <2>3, <3>3, <3>4 DEF ReadStats
  <2>4. CASE KeepStats(d)
    <3>1. UNCHANGED <<known, banned, blurred>> /\ desk[d].at = "keep"
      BY <2>4 DEF KeepStats, userVars
    <3>2. CountsAgree'
      BY <1>2, <3>1 DEF CountsAgree
    <3>3. ASSUME blurred = "no", stats' = desk[d].counts PROVE stats'.banned <= stats'.all
      <4>1. stats'.all = Cardinality(known) /\ stats'.banned = Cardinality(banned)
        BY <2>1, <3>1, <3>3 DEF CountsAgree, Sound
      <4>2. IsFiniteSet(known)
        BY Heads DEF AdminTypeOK
      <4>3. Cardinality(banned) <= Cardinality(known)
        BY <4>2, FS_Subset DEF Existing
      <4> QED BY <4>1, <4>3
    <3>4. CASE stats' = stats
      BY <1>3, <3>1, <3>4
    <3>5. CASE stats' = desk[d].counts
      BY <3>1, <3>2, <3>3, <3>5 DEF DashboardAddsUp
    <3> QED BY <2>4, <3>4, <3>5 DEF KeepStats
  <2>5. CASE ~WriteUser(d) /\ ~ReadStats(d) /\ ~KeepStats(d)
    <3>1. UNCHANGED <<known, banned, stats>>
      BY <1>6, <2>5, CallFrame
    <3>2. blurred' \in {blurred, "yes"}
      <4>1. CASE StatsStep(d)
        BY <2>5, <4>1 DEF StatsStep, CountAll, CountBanned, CountFails
      <4> QED BY <1>6, <2>5, <4>1, CallFrame
    <3> QED BY <1>3, <3>1, <3>2
  <2> QED BY <2>2, <2>3, <2>4, <2>5
<1>7. CASE UNCHANGED adminVars
  BY <1>3, <1>7 DEF adminVars, userVars
<1> QED BY <1>4, <1>5, <1>6, <1>7, Stages

\* Who takes a role away has one, and is somebody else.
LEMMA AdminStep ==
  ASSUME AdminTypeOK, Calls, Existing, Standing, SomeAdminRemains, [AdminNext]_adminVars
  PROVE  SomeAdminRemains'
<1>1. ASSUME UNCHANGED <<role, outdated>> PROVE SomeAdminRemains'
  BY <1>1, KnownStep DEF SomeAdminRemains
<1>2. CASE UserStep
  BY <1>1, <1>2 DEF UserStep, SignUp, SignIn, ClaimExpires, StatsExpire, userVars
<1>3. CASE \E d \in Desks, a \in Staff : Asks(d, a)
  BY <1>1, <1>3, CallBegins DEF userVars
<1>4. ASSUME NEW d \in Desks, CallStep(d) PROVE SomeAdminRemains'
  <2>1. CASE WriteUser(d)
    <3> DEFINE c == desk[d]
    <3>1. c \in AdminCall /\ c # Free /\ Sound(c) /\ Seen(c) /\ known' = known
      BY <1>4, CallGoesOn, CallFrame, InUse DEF Calls, Standing
    <3>2. c.by \in known /\ c.by \in Staff /\ c.about \in Staff /\ c.at # "arrive"
      BY <2>1, <3>1 DEF WriteUser, Seen, AdminCall
    <3>3. CASE c.kind \in {"ban", "unban"}
      <4>1. role' = role /\ outdated' = outdated
        BY <2>1, <3>3 DEF WriteUser, Updates, AdminTypeOK
      <4> QED BY <1>1, <4>1
    <3>4. CASE c.kind \in {"promote", "demote"}
      <4>1. CASE outdated' = "yes"
        BY <4>1 DEF SomeAdminRemains
      <4>2. CASE role[c.by] = 1
        <5>1. c.kind = "demote" => c.by # c.about
          BY <3>1, <3>2 DEF Sound
        <5>2. role'[c.by] = 1
          BY <2>1, <3>2, <3>4, <4>2, <5>1 DEF WriteUser, Updates, AdminTypeOK
        <5> QED BY <3>1, <3>2, <5>2 DEF SomeAdminRemains
      <4> QED BY <2>1, <3>4, <4>1, <4>2 DEF WriteUser
    <3> QED BY <2>1, <3>3, <3>4 DEF WriteUser, Changes
  <2> QED BY <1>1, <1>4, <2>1, CallFrame
<1>5. CASE UNCHANGED adminVars
  BY <1>1, <1>5 DEF adminVars, userVars
<1> QED BY <1>2, <1>3, <1>4, <1>5, Stages

\* A call that ends has logged what Logged says.
LEMMA AuditStep ==
  ASSUME AdminTypeOK, Calls, AuditIsTrue, [AdminNext]_adminVars
  PROVE  AuditIsTrue'
<1>1. CASE outcome' = Free
  BY <1>1 DEF AuditIsTrue
<1>2. CASE UserStep \/ \E d \in Desks, a \in Staff : Asks(d, a)
  BY <1>1, <1>2, CallBegins DEF UserStep, SignUp, SignIn, ClaimExpires, StatsExpire, Silent
<1>3. ASSUME NEW d \in Desks, CallStep(d) PROVE AuditIsTrue'
  <2>1. Logged(desk[d])
    BY <1>3, CallGoesOn, InUse DEF Calls, Sound
  <2>2. CASE Replies(d)
    BY <2>1, <2>2 DEF Replies, Closes, Logged, AuditIsTrue
  <2>3. CASE LateEnds(d)
    BY <2>1, <2>3 DEF LateEnds, Closes, Logged, AuditIsTrue
  <2>4. CASE AdminThrows(d)
    BY <2>1, <2>4 DEF AdminThrows, Logged, AuditIsTrue
  <2> QED BY <1>1, <1>3, <2>2, <2>3, <2>4, CallFrame
<1>4. CASE UNCHANGED adminVars
  BY <1>4 DEF AuditIsTrue, adminVars
<1> QED BY <1>2, <1>3, <1>4, Stages

LEMMA InitIInv == AdminInit => IInv
<1> SUFFICES ASSUME AdminInit PROVE IInv
  OBVIOUS
<1>1. NoStats \in Stats /\ NoStats.banned <= NoStats.all
  BY Heads DEF NoStats, Stats, Amount, Unread
<1>2. AdminTypeOK
  BY <1>1 DEF AdminInit, AdminTypeOK
<1>3. Calls /\ Existing /\ Standing /\ Crossing
  BY DEF AdminInit, Calls, Existing, Standing, Crossing
<1>4. CountsAgree
  BY DEF AdminInit, CountsAgree, Free
<1>5. DashboardAddsUp /\ SomeAdminRemains /\ AuditIsTrue
  BY <1>1 DEF AdminInit, DashboardAddsUp, SomeAdminRemains, AuditIsTrue
<1> QED BY <1>2, <1>3, <1>4, <1>5 DEF IInv

LEMMA Inductive == AdminSpec => []IInv
<1>1. IInv /\ [AdminNext]_adminVars => IInv'
  BY AdminTypedStep, CallsStep, KnownStep, StandingStep, CrossingStep, CountsStep, AdminStep, AuditStep
  DEF IInv
<1> QED BY <1>1, InitIInv, PTL DEF AdminSpec

-------------------------------------------------------------------------------
(* Theorems.                                                                 *)

\* The state is one the services can be in.
THEOREM AdminTyped == AdminSpec => []AdminTypeOK
<1>1. IInv => AdminTypeOK
  BY DEF IInv
<1> QED BY <1>1, Inductive, PTL

\* For any number of admins who change one another's roles, one remains,
\* unless a change came from one who was none any more.
THEOREM AnAdminRemains == AdminSpec => []SomeAdminRemains
<1>1. IInv => SomeAdminRemains
  BY DEF IInv
<1> QED BY <1>1, Inductive, PTL

\* The audit lines of gateway and service are true, whatever fails or times out;
\* of every call that was done both are there, or, of lists and statistics, the
\* service's alone.
THEOREM AuditLines == AdminSpec => []AuditIsTrue
<1>1. IInv => AuditIsTrue
  BY DEF IInv
<1> QED BY <1>1, Inductive, PTL

\* For any number of recipients and any size of batches the report counts each
\* once; the dashboard's numbers agree.
THEOREM Reports == AdminSpec => []ReportsAreTrue
<1>1. IInv => ReportsAreTrue
  <2> SUFFICES ASSUME IInv PROVE BulkReport
    BY DEF IInv, ReportsAreTrue
  <2>1. \A d \in Desks : desk[d] # Free => desk[d] \in AdminCall /\ Batched(desk[d])
    BY InUse DEF IInv, AdminTypeOK, Calls, Sound
  <2>2. \A d \in Desks : desk[d] # Free => desk[d].sent \subseteq Staff
    BY <2>1 DEF AdminCall
  <2> QED BY <2>1, <2>2 DEF Batched, BulkReport
<1> QED BY <1>1, Inductive, PTL

\* A ban meets no admin, unless another call changed the user meanwhile.
THEOREM AdminsUnbanned == AdminSpec => BansSpareAdmins
<1> DEFINE Spared == \A u \in banned' \ banned :
                       role[u] = 0 \/ \E d \in About(u) : desk[d].crossed = "yes"
<1>1. IInv /\ [AdminNext]_adminVars => [Spared]_adminVars
  <2> SUFFICES ASSUME IInv, [AdminNext]_adminVars, NEW u \in banned' \ banned
               PROVE  role[u] = 0 \/ \E d \in About(u) : desk[d].crossed = "yes"
    OBVIOUS
  <2>1. CASE UserStep
    BY <2>1 DEF UserStep, SignUp, SignIn, ClaimExpires, StatsExpire, userVars
  <2>2. CASE \E d \in Desks, a \in Staff : Asks(d, a)
    BY <2>2, CallBegins DEF IInv, userVars
  <2>3. ASSUME NEW d \in Desks, CallStep(d)
        PROVE  role[u] = 0 \/ \E e \in About(u) : desk[e].crossed = "yes"
    <3>1. WriteUser(d)
      BY <2>3, CallFrame
    <3>2. desk[d] \in AdminCall /\ desk[d] # Free /\ Seen(desk[d])
      BY <2>3, CallGoesOn, InUse DEF IInv, Standing
    <3>3. desk[d].kind = "ban" /\ desk[d].about = u /\ desk[d].at \in {"write", "late"}
      BY <3>1 DEF WriteUser, Updates, Changes
    <3>4. d \in About(u)
      BY <3>2, <3>3 DEF About, Changes
    <3>5. CASE desk[d].crossed = "yes"
      BY <3>4, <3>5
    <3>6. CASE desk[d].crossed = "no"
      BY <3>2, <3>3, <3>6 DEF Seen, Changes
    <3> QED BY <3>2, <3>5, <3>6 DEF AdminCall
  <2>4. CASE UNCHANGED adminVars
    BY <2>4 DEF adminVars, userVars
  <2> QED BY <2>1, <2>2, <2>3, <2>4, Stages
<1> HIDE DEF Spared
<1>2. AdminSpec => [][Spared]_adminVars
  BY <1>1, Inductive, PTL DEF AdminSpec
<1> QED BY <1>2 DEF BansSpareAdmins, Spared
===============================================================================
