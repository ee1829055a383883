-------------------------- MODULE SubscriptionsProofs --------------------------
(***************************************************************************)
(* Subscriptions, for every set of users, of handlers in progress, of      *)
(* kinds of failure and of tiers: its types, the whole grace period before *)
(* a termination, the one active row of a user whose handlers never        *)
(* overlapped and who restored nothing, and the agreement of the table     *)
(* with the tier in the JWT and with the cached row.                       *)
(***************************************************************************)
EXTENDS Subscriptions, SequenceTheorems, TLAPS

-------------------------------------------------------------------------------
(* The inductive invariant.                                                  *)

\* Rows that handlers hold are their user's, and the worker's are in the table.
Holds ==
  /\ \A r \in Requests : req[r] # Idle /\ req[r].at \in {"write", "fill"} =>
       req[r].row \in RowsOf(req[r].user)
  /\ worker.todo \subseteq DOMAIN rows
  /\ worker.row \in worker.todo \cup {0}

\* The grace period of an expired row starts after ended_at.
Graced ==
  \A i \in DOMAIN rows :
    rows[i].status = "expired" => rows[i].ended_at + GraceDays < rows[i].grace

Writer(r, u) == req[r] # Idle /\ req[r].user = u /\ req[r].op # "check"

\* What a handler read of the active row is what it still finds.
Alone ==
  \A u \in Users : Clean(u, {"overlap", "restored"}) =>
    /\ \A r, q \in Requests : Writer(r, u) /\ Writer(q, u) => r = q
    /\ \A r \in Requests : Writer(r, u) =>
         /\ req[r].at = "create" => With(u, {"active"}) = {}
         /\ req[r].at = "write" /\ req[r].op = "replace" =>
              With(u, {"active"}) \subseteq {req[r].row}

IInv == TypeOK /\ Holds /\ Graced /\ Alone /\ OneActive

-------------------------------------------------------------------------------
(* Lemmas: rows.                                                             *)

\* Tiers are numbers.
LEMMA LevelsNat == Levels \subseteq Nat /\ 0 \in Levels
BY TierAssumption DEF Levels

\* A row of the table has the fields of one.
LEMMA RowFields ==
  ASSUME TypeOK, NEW i \in DOMAIN rows
  PROVE  /\ rows[i] \in Row /\ rows[i].sub_type \in Levels /\ rows[i].user \in Users
         /\ i \in Nat /\ i # 0
<1>1. rows \in Seq(Row) /\ i \in 1..Len(rows) /\ Len(rows) \in Nat
  BY LenProperties DEF TypeOK
<1>2. rows[i] \in Row
  BY <1>1, ElementOfSeq
<1>3. QED BY <1>1, <1>2 DEF Row

\* rows' is rows with no row added, moved to another user or made active, and
\* with the grace periods of expired rows in order.
Settles ==
  /\ rows' \in Seq(Row)
  /\ DOMAIN rows' = DOMAIN rows
  /\ \A i \in DOMAIN rows :
       /\ rows'[i].user = rows[i].user
       /\ rows'[i].status = "active" => rows[i].status = "active"
       /\ rows'[i].status = "expired" => rows[i].ended_at + GraceDays < rows'[i].grace
       /\ rows'[i].ended_at = rows[i].ended_at

\* updateById with a status that is not active.
LEMMA UpdateByIdSettles ==
  ASSUME TypeOK, Graced, NEW i \in DOMAIN rows, NEW level \in Levels,
         NEW status \in Statuses \ {"active", "expired"}, UpdateById(i, status, level)
  PROVE  /\ Settles
         /\ rows'[i].status = status
         /\ \A j \in DOMAIN rows \ {i} : rows'[j] = rows[j]
<1> DEFINE y == [rows[i] EXCEPT !.status = status, !.sub_type = level]
<1>1. rows \in Seq(Row) /\ rows[i] \in Row /\ i \in 1..Len(rows)
  BY ElementOfSeq DEF TypeOK
<1>2. /\ y \in Row
      /\ y.status = status /\ y.user = rows[i].user /\ y.ended_at = rows[i].ended_at
  BY <1>1 DEF Row
<1>3. rows' = [rows EXCEPT ![i] = y]
  BY <1>1 DEF UpdateById
<1>4. rows' \in Seq(Row) /\ Len(rows') = Len(rows)
  BY <1>1, <1>2, <1>3, ExceptSeq
<1>5. DOMAIN rows' = DOMAIN rows
  BY <1>3
<1>6. \A j \in DOMAIN rows : rows'[j] = IF j = i THEN y ELSE rows[j]
  BY <1>3
<1>7. \A j \in DOMAIN rows \ {i} : rows'[j] = rows[j]
  BY <1>6
<1>8. rows'[i].status = status /\ rows'[i].user = rows[i].user /\ rows'[i].ended_at = rows[i].ended_at
  BY <1>2, <1>6
<1>9. Settles
  BY <1>4, <1>5, <1>7, <1>8 DEF Settles, Graced
<1>10. QED BY <1>7, <1>8, <1>9

\* A bulk update of the worker: rows expire, or are terminated.
LEMMA BulkUpdateSettles ==
  ASSUME TypeOK, Graced, NEW X \in SUBSET DOMAIN rows,
         \/ /\ \A i \in X : rows[i].status = "active" /\ rows[i].ended_at < now
            /\ BulkUpdate(X, LAMBDA x : [x EXCEPT !.status = "expired", !.grace = now + GraceDays])
         \/ BulkUpdate(X, LAMBDA x : [x EXCEPT !.status = "terminated", !.sub_type = 0])
  PROVE  Settles
<1>1. rows \in Seq(Row) /\ \A i \in DOMAIN rows : rows[i] \in Row
  BY ElementOfSeq DEF TypeOK
<1>2. now \in Nat /\ GraceDays \in Nat
  BY TimeAssumption DEF TypeOK
<1>3. PICK g \in [DOMAIN rows -> Row] :
        /\ rows' = [i \in DOMAIN rows |-> IF i \in X THEN g[i] ELSE rows[i]]
        /\ \A i \in X : /\ g[i].user = rows[i].user /\ g[i].ended_at = rows[i].ended_at
                        /\ g[i].status # "active"
                        /\ g[i].status = "expired" => rows[i].ended_at + GraceDays < g[i].grace
  <2>1. CASE /\ \A i \in X : rows[i].status = "active" /\ rows[i].ended_at < now
             /\ BulkUpdate(X, LAMBDA x : [x EXCEPT !.status = "expired", !.grace = now + GraceDays])
    <3> DEFINE g == [i \in DOMAIN rows |->
                       [rows[i] EXCEPT !.status = "expired", !.grace = now + GraceDays]]
    <3>1. \A i \in DOMAIN rows :
            /\ g[i] \in Row /\ g[i].user = rows[i].user /\ g[i].ended_at = rows[i].ended_at
            /\ g[i].status = "expired" /\ g[i].grace = now + GraceDays
      <4>1. now + GraceDays \in Nat
        BY <1>2
      <4>2. QED BY <1>1, <4>1 DEF Row, Statuses
    <3>2. rows' = [i \in DOMAIN rows |-> IF i \in X THEN g[i] ELSE rows[i]]
      BY <2>1 DEF BulkUpdate
    <3>3. \A i \in X : rows[i].ended_at + GraceDays < now + GraceDays
      BY <1>1, <1>2, <2>1 DEF Row
    <3>4. g \in [DOMAIN rows -> Row]
      BY <3>1
    <3> HIDE DEF g
    <3>5. QED BY <3>1, <3>2, <3>3, <3>4
  <2>2. CASE BulkUpdate(X, LAMBDA x : [x EXCEPT !.status = "terminated", !.sub_type = 0])
    <3> DEFINE g == [i \in DOMAIN rows |-> [rows[i] EXCEPT !.status = "terminated", !.sub_type = 0]]
    <3>1. \A i \in DOMAIN rows :
            /\ g[i] \in Row /\ g[i].user = rows[i].user /\ g[i].ended_at = rows[i].ended_at
            /\ g[i].status = "terminated"
      BY <1>1, LevelsNat DEF Row, Statuses
    <3>2. rows' = [i \in DOMAIN rows |-> IF i \in X THEN g[i] ELSE rows[i]]
      BY <2>2 DEF BulkUpdate
    <3>4. g \in [DOMAIN rows -> Row]
      BY <3>1
    <3> HIDE DEF g
    <3>5. QED BY <3>1, <3>2, <3>4
  <2>3. QED BY <2>1, <2>2
<1>4. \A i \in DOMAIN rows : rows'[i] = IF i \in X THEN g[i] ELSE rows[i]
  BY <1>3
<1>5. rows' \in Seq(Row) /\ DOMAIN rows' = DOMAIN rows
  <2>1. rows' = [i \in 1..Len(rows) |-> IF i \in X THEN g[i] ELSE rows[i]]
    BY <1>1, <1>3, LenProperties
  <2>2. \A i \in 1..Len(rows) : (IF i \in X THEN g[i] ELSE rows[i]) \in Row
    BY <1>1, <1>3, LenProperties
  <2>3. Len(rows) \in Nat
    BY <1>1, LenProperties
  <2>4. rows' \in Seq(Row)
    BY <2>1, <2>2, <2>3, IsASeq
  <2>5. QED BY <1>3, <2>4
<1>6. QED BY <1>3, <1>4, <1>5 DEF Settles, Graced
-------------------------------------------------------------------------------
(* Lemmas: requests.                                                         *)

\* req' is req, but for r, which is now at a step of its own.
Moves(r, step, op, user, row, tier, till) ==
  /\ req' \in [Requests -> Req \cup {Idle}]
  /\ req'[r] # Idle
  /\ req'[r].at = step    /\ req'[r].op = op      /\ req'[r].user = user
  /\ req'[r].row = row    /\ req'[r].tier = tier  /\ req'[r].till = till
  /\ \A q \in Requests \ {r} : req'[q] = req[q]

\* A record put in the place of a request.
LEMMA RecordMoves ==
  ASSUME TypeOK, NEW r \in Requests, NEW f \in Req, req' = [req EXCEPT ![r] = f]
  PROVE  Moves(r, f.at, f.op, f.user, f.row, f.tier, f.till)
<1>1. f # Idle
  BY DEF Req, Idle, Steps
<1>2. QED BY <1>1 DEF Moves, TypeOK

\* A request in progress has the fields of one.
LEMMA ReqFields ==
  ASSUME TypeOK, NEW r \in Requests, req[r] # Idle
  PROVE  /\ req[r] \in Req
         /\ req[r].at \in Steps /\ req[r].op \in Ops /\ req[r].user \in Users
         /\ req[r].row \in Nat /\ req[r].tier \in Levels /\ req[r].till \in Nat
BY DEF TypeOK, Req

\* An idle slot is at no step.
LEMMA IdleAt == Idle.at = "idle"
BY DEF Idle

\* Start fills the slot with a request at its first step.
LEMMA StartMoves ==
  ASSUME TypeOK, NEW r \in Requests, NEW u \in Users, NEW op \in Ops, NEW step \in Steps,
         NEW i \in Nat, NEW tier \in Levels, NEW till \in Nat,
         Start(r, u, op, step, i, tier, till)
  PROVE  Moves(r, step, op, u, i, tier, till)
<1> DEFINE f == [at |-> step, op |-> op, user |-> u, row |-> i, tier |-> tier, till |-> till]
<1>1. f \in Req
  BY DEF Req
<1>2. req' = [req EXCEPT ![r] = f]
  BY DEF Start
<1>3. /\ f.at = step /\ f.op = op /\ f.user = u
      /\ f.row = i /\ f.tier = tier /\ f.till = till
  OBVIOUS
<1> HIDE DEF f
<1>4. Moves(r, f.at, f.op, f.user, f.row, f.tier, f.till)
  BY <1>1, <1>2, RecordMoves
<1>5. QED BY <1>3, <1>4

\* Goes changes the step and drops the row.
LEMMA GoesMoves ==
  ASSUME TypeOK, NEW r \in Requests, req[r] # Idle, NEW step \in Steps, Goes(r, step)
  PROVE  Moves(r, step, req[r].op, req[r].user, 0, req[r].tier, req[r].till)
<1> DEFINE f == [req[r] EXCEPT !.at = step, !.row = 0]
<1>1. /\ f \in Req
      /\ f.at = step /\ f.op = req[r].op /\ f.user = req[r].user
      /\ f.row = 0 /\ f.tier = req[r].tier /\ f.till = req[r].till
  BY ReqFields DEF Req
<1>2. req' = [req EXCEPT ![r] = f]
  BY DEF Goes, TypeOK
<1> HIDE DEF f
<1>3. Moves(r, f.at, f.op, f.user, f.row, f.tier, f.till)
  BY <1>1, <1>2, RecordMoves
<1>4. QED BY <1>1, <1>3

\* Announces changes the step and sets what is published.
LEMMA AnnouncesMoves ==
  ASSUME TypeOK, NEW r \in Requests, req[r] # Idle, NEW tier \in Levels, Announces(r, tier)
  PROVE  Moves(r, "invalidate", req[r].op, req[r].user, 0, tier, 0)
<1> DEFINE f == [req[r] EXCEPT !.at = "invalidate", !.row = 0, !.tier = tier, !.till = 0]
<1>1. /\ f \in Req
      /\ f.at = "invalidate" /\ f.op = req[r].op /\ f.user = req[r].user
      /\ f.row = 0 /\ f.tier = tier /\ f.till = 0
  BY ReqFields DEF Req, Steps
<1>2. req' = [req EXCEPT ![r] = f]
  BY DEF Announces, TypeOK
<1> HIDE DEF f
<1>3. Moves(r, f.at, f.op, f.user, f.row, f.tier, f.till)
  BY <1>1, <1>2, RecordMoves
<1>4. QED BY <1>1, <1>3

\* Ends empties the slot.
LEMMA EndsMoves ==
  ASSUME TypeOK, NEW r \in Requests, Ends(r)
  PROVE  /\ req' \in [Requests -> Req \cup {Idle}]
         /\ req'[r] = Idle
         /\ \A q \in Requests \ {r} : req'[q] = req[q]
BY DEF Ends, TypeOK

\* A user who is clean after a mark was clean before, and not marked so.
LEMMA MarksClean ==
  ASSUME TypeOK, NEW u \in Users, NEW tags \in SUBSET Tags, Marks(u, tags)
  PROVE  /\ history' \in [Users -> SUBSET Tags]
         /\ \A v \in Users : Clean(v, {"overlap", "restored"})' =>
              /\ Clean(v, {"overlap", "restored"})
              /\ v = u => tags \cap {"overlap", "restored"} = {}
BY DEF TypeOK, Marks, Clean, Adds, Tags

-------------------------------------------------------------------------------
(* Lemmas: the one active row.                                               *)

\* Writers and their readings survive a step that adds and activates no row,
\* and after which no handler is newly about to write or to create.
LEMMA KeepsAlone ==
  ASSUME TypeOK, Alone, OneActive,
         rows' = rows \/ Settles,
         \A u \in Users : Clean(u, {"overlap", "restored"})' => Clean(u, {"overlap", "restored"}),
         \A q \in Requests : \/ req'[q] = Idle
                             \/ req'[q] = req[q]
                             \/ /\ req[q] # Idle
                                /\ req'[q].user = req[q].user /\ req'[q].op = req[q].op
                                /\ req'[q].at \notin {"write", "create"}
  PROVE  Alone' /\ OneActive'
<1>1. \A u \in Users : /\ With(u, {"active"})' \subseteq With(u, {"active"})
                       /\ RowsOf(u)' = RowsOf(u)
  BY DEF Settles, With, RowsOf
<1>2. OneActive'
  BY <1>1 DEF OneActive
<1>3. \A q \in Requests, u \in Users : Writer(q, u)' => Writer(q, u)
  BY DEF Writer
<1>4. \A q \in Requests, u \in Users : Writer(q, u)' /\ req'[q].at \in {"write", "create"} =>
        req'[q] = req[q]
  BY IdleAt DEF Writer
<1>5. Alone'
  BY <1>1, <1>3, <1>4 DEF Alone
<1>6. QED BY <1>2, <1>5

\* What handlers hold stays in the table.
LEMMA KeepsHolds ==
  ASSUME Holds, \A i \in DOMAIN rows : i \in DOMAIN rows' /\ rows'[i].user = rows[i].user,
         \A q \in Requests : \/ req'[q] = Idle
                             \/ req'[q] = req[q]
                             \/ req'[q].at \notin {"write", "fill"}
                             \/ req'[q].row \in RowsOf(req'[q].user),
         UNCHANGED worker
  PROVE  Holds'
BY DEF Holds, RowsOf

\* A row appended by create.
LEMMA CreateRow ==
  ASSUME TypeOK, Graced, NEW u \in Users, NEW level \in Levels, NEW days \in Nat,
         NEW k \in {"trial", "bought"}, Create(u, level, days, k)
  PROVE  /\ rows' \in Seq(Row)
         /\ DOMAIN rows' = DOMAIN rows \cup {Len(rows) + 1}
         /\ \A i \in DOMAIN rows : rows'[i] = rows[i] /\ i <= Len(rows)
         /\ Len(rows) + 1 \notin DOMAIN rows
         /\ rows'[Len(rows) + 1].user = u /\ rows'[Len(rows) + 1].status = "active"
         /\ Graced'
<1> DEFINE y == [user |-> u, status |-> "active", sub_type |-> level,
                 ended_at |-> days, grace |-> 0, kind |-> k]
<1>1. y \in Row /\ y.user = u /\ y.status = "active"
  BY DEF Row, Statuses
<1>2. rows' = Append(rows, y) /\ rows \in Seq(Row)
  BY DEF Create, TypeOK
<1> HIDE DEF y
<1>3. /\ rows' \in Seq(Row) /\ Len(rows') = Len(rows) + 1
      /\ \A i \in 1..Len(rows) : rows'[i] = rows[i]
      /\ rows'[Len(rows) + 1] = y
  BY <1>1, <1>2, AppendProperties
<1>4. Len(rows) \in Nat /\ DOMAIN rows = 1..Len(rows) /\ DOMAIN rows' = 1..Len(rows')
  BY <1>2, <1>3, LenProperties
<1>5. DOMAIN rows' = DOMAIN rows \cup {Len(rows) + 1} /\ Len(rows) + 1 \notin DOMAIN rows
  BY <1>3, <1>4
<1>6. Graced'
  BY <1>1, <1>3, <1>4, <1>5 DEF Graced
<1>7. QED BY <1>1, <1>3, <1>4, <1>5, <1>6

-------------------------------------------------------------------------------
(* The initial states.                                                       *)

\* The empty table satisfies the invariant.
LEMMA InitIInv == Init => IInv
<1> SUFFICES ASSUME Init PROVE IInv
  OBVIOUS
<1> USE DEF Init
<1>1. rows \in Seq(Row) /\ DOMAIN rows = {}
  BY EmptySeq
<1>2. TypeOK
  BY <1>1, LevelsNat DEF TypeOK, Worker, WorkerSteps, Idle
<1>3. Holds /\ Graced
  BY <1>1, IdleAt DEF Holds, Graced
<1>4. Alone /\ OneActive
  BY <1>1 DEF Alone, OneActive, Writer, With, RowsOf
<1>5. QED BY <1>2, <1>3, <1>4 DEF IInv

-------------------------------------------------------------------------------
(* Handlers that start.                                                      *)

\* A handler that is the only writing one of its user read what Alone says.
LEMMA StartIInv ==
  ASSUME IInv, NEW r \in Requests, NEW u \in Users, NEW op \in Ops, NEW step \in Steps,
         NEW i \in RowsOf(u) \cup {0}, NEW tier \in Levels, NEW till \in Nat,
         Start(r, u, op, step, i, tier, till),
         step \in {"write", "fill"} => i # 0,
         step = "create" => ActiveRow(u) = {},
         step = "write" /\ op = "replace" => i \in ActiveRow(u)
  PROVE  IInv'
<1> USE DEF IInv
<1>0. i \in Nat
  BY RowFields DEF RowsOf
<1>1. Moves(r, step, op, u, i, tier, till)
  BY <1>0, StartMoves
<1>2. UNCHANGED <<rows, now, cache, worker, view>> /\ req[r] = Idle /\ Marks(u, Clashes(u, op))
  BY DEF Start
<1>3. Clashes(u, op) \in SUBSET Tags
  BY DEF Clashes, Tags
<1>4. /\ history' \in [Users -> SUBSET Tags]
      /\ \A v \in Users : Clean(v, {"overlap", "restored"})' =>
           /\ Clean(v, {"overlap", "restored"})
           /\ v = u => Clashes(u, op) \cap {"overlap", "restored"} = {}
  BY <1>2, <1>3, MarksClean
<1>5. TypeOK'
  BY <1>1, <1>2, <1>4 DEF TypeOK, Moves
<1>6. Holds'
  BY <1>1, <1>2, KeepsHolds DEF Moves
<1>7. Graced'
  BY <1>2 DEF Graced
<1>8. OneActive'
  BY <1>2, <1>4 DEF OneActive, With, RowsOf
<1>9. ASSUME NEW v \in Users, Clean(v, {"overlap", "restored"})'
      PROVE  /\ \A p, q \in Requests : Writer(p, v)' /\ Writer(q, v)' => p = q
             /\ \A q \in Requests : Writer(q, v)' =>
                  /\ req'[q].at = "create" => With(v, {"active"}) = {}
                  /\ req'[q].at = "write" /\ req'[q].op = "replace" =>
                       With(v, {"active"}) \subseteq {req'[q].row}
  <2>1. Clean(v, {"overlap", "restored"})
    BY <1>4, <1>9
  <2>2. \A q \in Requests \ {r} : Writer(q, v)' <=> Writer(q, v)
    BY <1>1 DEF Writer, Moves
  <2>3. CASE v # u \/ op = "check"
    <3>1. ~Writer(r, v)'
      BY <1>1, <2>3 DEF Writer, Moves
    <3>2. QED BY <1>1, <2>1, <2>2, <3>1 DEF Alone, Moves
  <2>4. CASE v = u /\ op # "check"
    <3>1. \A q \in Requests : ~Writer(q, u)
      BY <1>4, <1>9, <2>4 DEF Clashes, Writing, Handling, Readers, Writer
    <3>2. \A q \in Requests \ {r} : ~Writer(q, v)'
      BY <2>2, <2>4, <3>1
    <3>3. step = "create" => With(u, {"active"}) = {}
      <4>1. \A j \in With(u, {"active"}) : j \in ActiveRow(u)
        BY <2>1, <2>4 DEF OneActive, ActiveRow, Latest, With
      <4>2. QED BY <4>1
    <3>4. step = "write" /\ op = "replace" => With(u, {"active"}) \subseteq {i}
      <4>1. ASSUME step = "write", op = "replace", NEW j \in With(u, {"active"})
            PROVE  j = i
        <5>1. j <= i /\ i \in With(u, {"active"})
          BY <4>1 DEF ActiveRow, Latest
        <5>2. i <= j
          BY <2>1, <2>4, <4>1, <5>1 DEF OneActive, With
        <5>3. i \in Nat /\ j \in Nat
          BY <1>0, <4>1, LenProperties DEF With, RowsOf, TypeOK
        <5>4. QED BY <5>1, <5>2, <5>3
      <4>2. QED BY <4>1
    <3>5. QED BY <1>1, <2>4, <3>2, <3>3, <3>4 DEF Moves
  <2>5. QED BY <2>3, <2>4
<1>10. Alone'
  <2>1. \A v \in Users : With(v, {"active"})' = With(v, {"active"})
    BY <1>2 DEF With, RowsOf
  <2>2. QED BY <1>9, <2>1 DEF Alone
<1>11. QED BY <1>5, <1>6, <1>7, <1>8, <1>10

\* Every call and every event that is taken up preserves the invariant.
LEMMA CalledIInv ==
  ASSUME IInv, NEW r \in Requests, NEW u \in Users, Called(r, u)
  PROVE  IInv'
<1> USE LevelsNat DEF Ops, Steps
<1>1. \A S \in SUBSET Statuses : With(u, S) \subseteq RowsOf(u)
  BY DEF With
<1>2. DOMAIN rows \subseteq Nat \ {0}
  BY LenProperties DEF IInv, TypeOK
<1>3. ActiveRow(u) \subseteq RowsOf(u) /\ RowsOf(u) \subseteq DOMAIN rows
  BY DEF ActiveRow, Latest, With, RowsOf
<1>4. CASE CheckAccess(r, u)
  BY <1>4, StartIInv DEF CheckAccess
<1>5. CASE CancelSubscription(r, u) \/ HandlePaymentRefunded(r, u) \/ AdminRemoveSubscription(r, u)
  <2>1. PICK i \in ActiveRow(u), op \in {"cancel", "remove"} : Start(r, u, op, "write", i, 0, 0)
    BY <1>5 DEF CancelSubscription, HandlePaymentRefunded, AdminRemoveSubscription
  <2>2. i \in RowsOf(u) /\ i # 0
    BY <1>2, <1>3
  <2>3. QED BY <2>1, <2>2, StartIInv
<1>6. CASE RestoreSubscription(r, u)
  <2>1. PICK i \in RowsOf(u) : Start(r, u, "restore", "write", i, 0, 0)
    BY <1>6 DEF RestoreSubscription, Latest, With
  <2>2. QED BY <1>2, <1>3, <2>1, StartIInv
<1>7. CASE AdminSetSubscription(r, u) \/ HandlePaymentSucceeded(r, u)
  <2>1. PICK tier \in Levels, days \in Nat : Replace(r, u, tier, days)
    BY <1>7, TimeAssumption DEF AdminSetSubscription, HandlePaymentSucceeded, Levels
  <2>2. now + days \in Nat
    BY DEF IInv, TypeOK
  <2>3. CASE ActiveRow(u) = {} /\ Start(r, u, "replace", "create", 0, tier, now + days)
    BY <2>2, <2>3, StartIInv
  <2>4. ASSUME NEW i \in ActiveRow(u), Start(r, u, "replace", "write", i, tier, now + days)
        PROVE  IInv'
    BY <1>2, <1>3, <2>2, <2>4, StartIInv
  <2>5. QED BY <2>1, <2>3, <2>4 DEF Replace
<1>8. CASE CreateTrialSubscription(r, u)
  BY <1>8, StartIInv DEF CreateTrialSubscription
<1>9. QED BY <1>4, <1>5, <1>6, <1>7, <1>8 DEF Called

-------------------------------------------------------------------------------
(* Handlers that go on.                                                      *)

\* The steps that leave the table alone, or write a row that is not active
\* afterwards, and lead to no write and no create.
LEMMA SteadyIInv ==
  ASSUME IInv, NEW r \in Requests, Continues(r),
         ~WriteRestored(r), ~CreateBought(r), ~CreateTrial(r),
         UNCHANGED rows \/ Settles,
         req' \in [Requests -> Req \cup {Idle}],
         \A q \in Requests \ {r} : req'[q] = req[q],
         \/ req'[r] = Idle
         \/ /\ req'[r].op = req[r].op /\ req'[r].user = req[r].user
            /\ req'[r].at \notin {"write", "create"}
            /\ req'[r].at = "fill" => req'[r].row \in RowsOf(req[r].user)
  PROVE  IInv'
<1> USE DEF IInv
<1>1. req[r] # Idle
  BY IdleAt DEF Continues, Load, Fill, WriteCanceled, WriteTerminated, FindForTrial,
                Invalidate, Publish, Throw
<1>2. req[r].user \in Users /\ req[r].row \in Nat /\ req[r].tier \in Levels
  BY <1>1, ReqFields
<1>3. UNCHANGED <<now, worker>>
  BY DEF Continues, Load, Fill, WriteCanceled, WriteTerminated, FindForTrial, Invalidate,
         Publish, Throw
<1>4. cache' \in [Users -> Nat] /\ view' \in [Users -> Levels]
  BY <1>2, LevelsNat DEF Continues, Load, Fill, WriteCanceled, WriteTerminated, FindForTrial,
         Invalidate, Publish, Throw, Sees, TypeOK
<1>5. UNCHANGED history \/ Marks(req[r].user, {"lost"})
  BY DEF Continues, Load, Fill, WriteCanceled, WriteTerminated, FindForTrial, Invalidate,
         Publish, Throw
<1>6. /\ history' \in [Users -> SUBSET Tags]
      /\ \A v \in Users : Clean(v, {"overlap", "restored"})' => Clean(v, {"overlap", "restored"})
  <2>1. CASE UNCHANGED history
    BY <2>1 DEF TypeOK, Clean
  <2>2. CASE Marks(req[r].user, {"lost"})
    BY <1>2, <2>2, MarksClean DEF Tags
  <2>3. QED BY <1>5, <2>1, <2>2
<1>7. TypeOK'
  BY <1>3, <1>4, <1>6 DEF TypeOK, Settles
<1>8. Holds'
  BY <1>3, KeepsHolds DEF Settles
<1>9. Graced'
  BY DEF Graced, Settles
<1>10. Alone' /\ OneActive'
  BY <1>1, <1>6, KeepsAlone
<1>11. QED BY <1>7, <1>8, <1>9, <1>10

\* The later awaits that bring no active row.
LEMMA StepsIInv ==
  ASSUME IInv, NEW r \in Requests,
         \/ Load(r) \/ Fill(r) \/ Invalidate(r) \/ Publish(r) \/ Throw(r) \/ WriteCanceled(r)
         \/ WriteTerminated(r) /\ req[r].op = "remove"
         \/ FindForTrial(r) /\ ActiveRow(req[r].user) # {}
  PROVE  IInv'
<1> USE DEF IInv, Continues
<1>1. req[r] # Idle
  BY IdleAt DEF Load, Fill, WriteCanceled, WriteTerminated, FindForTrial, Invalidate, Publish, Throw
<1>2. req[r].user \in Users /\ req[r].row \in Nat /\ req[r] \in Req
  BY <1>1, ReqFields
<1>3. ~WriteRestored(r) /\ ~CreateBought(r) /\ ~CreateTrial(r)
  <2>1. CASE Throw(r)
    BY <1>2, <2>1 DEF Throw, Ends, Announces, WriteRestored, CreateBought, CreateTrial, Req, Idle, TypeOK
  <2>2. CASE ~Throw(r)
    BY <2>2 DEF Load, Fill, WriteCanceled, WriteTerminated, FindForTrial, Invalidate, Publish,
                WriteRestored, CreateBought, CreateTrial
  <2>3. QED BY <2>1, <2>2
<1>4. \A i \in ActiveRow(req[r].user) : i \in RowsOf(req[r].user) /\ i \in Nat /\ rows[i].sub_type \in Levels
  BY RowFields DEF ActiveRow, Latest, With, RowsOf
<1>5. CASE Load(r)
  <2>1. CASE Ends(r)
    BY <1>3, <1>5, <2>1, EndsMoves, SteadyIInv DEF Load
  <2>2. ASSUME NEW i \in ActiveRow(req[r].user),
               req' = [req EXCEPT ![r].at = "fill", ![r].row = i]
        PROVE  IInv'
    <3> DEFINE f == [req[r] EXCEPT !.at = "fill", !.row = i]
    <3>1. /\ f \in Req
          /\ f.at = "fill" /\ f.op = req[r].op /\ f.user = req[r].user /\ f.row = i
          /\ f.tier = req[r].tier /\ f.till = req[r].till
      BY <1>2, <1>4 DEF Req, Steps
    <3>2. req' = [req EXCEPT ![r] = f]
      BY <2>2 DEF TypeOK
    <3> HIDE DEF f
    <3>3. Moves(r, f.at, f.op, f.user, f.row, f.tier, f.till)
      BY <3>1, <3>2, RecordMoves
    <3>4. QED BY <1>3, <1>4, <1>5, <3>1, <3>3, SteadyIInv DEF Load, Moves
  <2>3. QED BY <1>5, <2>1, <2>2 DEF Load
<1>6. CASE Fill(r) \/ Publish(r) \/ Throw(r)
  <2>1. Ends(r) /\ UNCHANGED rows
    BY <1>6 DEF Fill, Publish, Throw
  <2>2. QED BY <1>3, <1>6, <2>1, EndsMoves, SteadyIInv
<1>7. CASE Invalidate(r)
  <2>1. Goes(r, "publish") /\ UNCHANGED rows
    BY <1>7 DEF Invalidate
  <2>2. Moves(r, "publish", req[r].op, req[r].user, 0, req[r].tier, req[r].till)
    BY <1>1, <2>1, GoesMoves DEF Steps
  <2>3. QED BY <1>3, <1>7, <2>1, <2>2, SteadyIInv DEF Moves
<1>8. CASE \/ WriteCanceled(r)
           \/ WriteTerminated(r) /\ req[r].op = "remove"
  <2>1. Goes(r, "invalidate") /\ req[r].at = "write"
    BY <1>8 DEF WriteCanceled, WriteTerminated
  <2>2. Moves(r, "invalidate", req[r].op, req[r].user, 0, req[r].tier, req[r].till)
    BY <1>1, <2>1, GoesMoves DEF Steps
  <2>3. req[r].row \in DOMAIN rows /\ rows[req[r].row].sub_type \in Levels
    BY <1>1, <2>1, RowFields DEF Holds, RowsOf
  <2>4. \/ UpdateById(req[r].row, "canceled", rows[req[r].row].sub_type)
        \/ UpdateById(req[r].row, "terminated", 0)
    BY <1>8 DEF WriteCanceled, WriteTerminated
  <2>5. Settles
    BY <2>3, <2>4, LevelsNat, UpdateByIdSettles DEF Statuses
  <2>6. QED BY <1>3, <1>8, <2>2, <2>5, SteadyIInv DEF Moves
<1>9. CASE FindForTrial(r) /\ ActiveRow(req[r].user) # {}
  <2>1. CASE Ends(r)
    BY <1>3, <1>9, <2>1, EndsMoves, SteadyIInv DEF FindForTrial
  <2>2. ASSUME NEW i \in ActiveRow(req[r].user), Announces(r, rows[i].sub_type)
        PROVE  IInv'
    <3>1. Moves(r, "invalidate", req[r].op, req[r].user, 0, rows[i].sub_type, 0)
      BY <1>1, <1>4, <2>2, AnnouncesMoves
    <3>2. QED BY <1>3, <1>9, <3>1, SteadyIInv DEF FindForTrial, Moves
  <2>3. QED BY <1>9, <2>1, <2>2 DEF FindForTrial
<1>10. QED BY <1>5, <1>6, <1>7, <1>8, <1>9

\* A writer comes to its create when its user has no active row.
LEMMA ToCreateIInv ==
  ASSUME IInv, NEW r \in Requests,
         \/ FindForTrial(r) /\ ActiveRow(req[r].user) = {} /\ Goes(r, "create")
         \/ WriteTerminated(r) /\ req[r].op = "replace"
  PROVE  IInv'
<1> USE DEF IInv
<1>1. req[r] # Idle /\ Goes(r, "create") /\ UNCHANGED <<now, cache, worker, view, history>>
  BY IdleAt DEF FindForTrial, WriteTerminated
<1>2. Moves(r, "create", req[r].op, req[r].user, 0, req[r].tier, req[r].till)
  BY <1>1, GoesMoves DEF Steps
<1>3. /\ UNCHANGED rows \/ Settles
      /\ WriteTerminated(r) => /\ req[r].row \in DOMAIN rows
                               /\ rows'[req[r].row].status = "terminated"
                               /\ DOMAIN rows' = DOMAIN rows
                               /\ req[r].at = "write" /\ req[r].op = "replace"
  <2>1. CASE FindForTrial(r)
    BY <2>1 DEF FindForTrial, WriteTerminated
  <2>2. CASE WriteTerminated(r) /\ req[r].op = "replace"
    <3>1. req[r].row \in DOMAIN rows /\ UpdateById(req[r].row, "terminated", 0)
      BY <1>1, <2>2 DEF WriteTerminated, Holds, RowsOf
    <3>2. Settles /\ rows'[req[r].row].status = "terminated"
      BY <3>1, LevelsNat, UpdateByIdSettles DEF Statuses
    <3>3. QED BY <2>2, <3>1, <3>2 DEF Settles, WriteTerminated
  <2>3. QED BY <2>1, <2>2
<1>4. TypeOK'
  BY <1>1, <1>2, <1>3 DEF TypeOK, Moves, Settles
<1>5. Holds'
  BY <1>1, <1>2, <1>3, KeepsHolds DEF Moves, Settles
<1>6. Graced'
  BY <1>3 DEF Graced, Settles
<1>7. \A u \in Users : /\ With(u, {"active"})' \subseteq With(u, {"active"})
                       /\ RowsOf(u)' = RowsOf(u)
  BY <1>3 DEF Settles, With, RowsOf
<1>8. OneActive'
  BY <1>1, <1>7 DEF OneActive, Clean
<1>9. ASSUME NEW u \in Users, Clean(u, {"overlap", "restored"}), Writer(r, u)
      PROVE  With(u, {"active"})' = {}
  <2>1. CASE FindForTrial(r) /\ ActiveRow(req[r].user) = {}
    <3>1. With(u, {"active"}) \subseteq ActiveRow(u)
      BY <1>9 DEF OneActive, ActiveRow, Latest, With
    <3>2. QED BY <1>7, <1>9, <2>1, <3>1 DEF Writer
  <2>2. CASE WriteTerminated(r) /\ req[r].op = "replace"
    <3>1. With(u, {"active"}) \subseteq {req[r].row}
      BY <1>3, <1>9, <2>2 DEF Alone
    <3>2. req[r].row \notin With(u, {"active"})'
      BY <1>3, <2>2 DEF With
    <3>3. QED BY <1>7, <3>1, <3>2
  <2>3. QED BY <2>1, <2>2
<1>10. \A q \in Requests, u \in Users : Writer(q, u)' <=> Writer(q, u)
  BY <1>1, <1>2 DEF Writer, Moves
<1>11. Alone'
  BY <1>1, <1>2, <1>7, <1>9, <1>10 DEF Alone, Moves, Clean
<1>12. QED BY <1>4, <1>5, <1>6, <1>8, <1>11

\* A user whose row is restored is not clean any more.
LEMMA RestoredIInv ==
  ASSUME IInv, NEW r \in Requests, WriteRestored(r)
  PROVE  IInv'
<1> DEFINE i == req[r].row
           u == req[r].user
<1> USE DEF IInv
<1>1. req[r] # Idle /\ i \in DOMAIN rows /\ rows[i].user = u /\ u \in Users
  BY IdleAt, ReqFields DEF WriteRestored, Holds, RowsOf
<1>2. UNCHANGED <<now, cache, worker, view>>
  BY DEF WriteRestored
<1>3. Moves(r, "invalidate", req[r].op, u, 0, rows[i].sub_type, 0)
  BY <1>1, RowFields, AnnouncesMoves DEF WriteRestored
<1>4. /\ rows' \in Seq(Row) /\ DOMAIN rows' = DOMAIN rows
      /\ rows'[i].status = "active" /\ rows'[i].user = rows[i].user
      /\ \A j \in DOMAIN rows \ {i} : rows'[j] = rows[j]
  <2> DEFINE y == [rows[i] EXCEPT !.status = "active", !.grace = 0]
  <2>1. y \in Row /\ y.status = "active" /\ y.user = rows[i].user
    BY <1>1, RowFields DEF Row, Statuses
  <2>2. rows \in Seq(Row) /\ i \in 1..Len(rows) /\ rows' = [rows EXCEPT ![i] = y]
    BY <1>1, LenProperties DEF WriteRestored, TypeOK
  <2> HIDE DEF y
  <2>3. rows' \in Seq(Row)
    BY <2>1, <2>2, ExceptSeq
  <2>4. QED BY <2>1, <2>2, <2>3, <1>1
<1>5. /\ history' \in [Users -> SUBSET Tags]
      /\ \A v \in Users : Clean(v, {"overlap", "restored"})' =>
           Clean(v, {"overlap", "restored"}) /\ v # u
  <2>1. {"restored"} \cup Stacking(u, i) \in SUBSET Tags
    BY DEF Stacking, Tags
  <2>2. Marks(u, {"restored"} \cup Stacking(u, i))
    BY DEF WriteRestored
  <2>3. QED BY <1>1, <2>1, <2>2, MarksClean
<1>6. TypeOK'
  BY <1>2, <1>3, <1>4, <1>5 DEF TypeOK, Moves
<1>7. Holds'
  BY <1>2, <1>3, <1>4, KeepsHolds DEF Moves
<1>8. Graced'
  BY <1>4 DEF Graced
<1>9. ASSUME NEW v \in Users, v # u
      PROVE  With(v, {"active"})' = With(v, {"active"}) /\ RowsOf(v)' = RowsOf(v)
  BY <1>1, <1>4, <1>9 DEF With, RowsOf
<1>10. OneActive'
  BY <1>4, <1>5, <1>9 DEF OneActive
<1>11. \A q \in Requests, v \in Users : Writer(q, v)' <=> Writer(q, v)
  BY <1>1, <1>3 DEF Writer, Moves
<1>12. Alone'
  BY <1>3, <1>5, <1>9, <1>11 DEF Alone, Moves
<1>13. QED BY <1>6, <1>7, <1>8, <1>10, <1>12

\* A row is created for a user without an active one, or one who is not clean.
LEMMA CreateIInv ==
  ASSUME IInv, NEW r \in Requests, CreateBought(r) \/ CreateTrial(r)
  PROVE  IInv'
<1> DEFINE n == Len(rows) + 1
<1> USE DEF IInv
<1>1. /\ req[r] # Idle /\ req[r].at = "create" /\ req[r].op # "check"
      /\ UNCHANGED <<now, cache, worker, view>>
  BY IdleAt DEF CreateBought, CreateTrial
<1>u. PICK u \in Users : u = req[r].user
  BY <1>1, ReqFields
<1>2. req[r].tier \in Levels /\ req[r].till \in Nat /\ TrialTier \in Levels
  BY <1>1, ReqFields DEF Levels
<1>3. PICK level \in Levels, days \in Nat, k \in {"trial", "bought"} :
        Create(u, level, days, k) /\ Announces(r, level) /\ Marks(u, Stacking(u, 0))
  <2>1. \A days \in TrialDays : now + days \in Nat
    BY TimeAssumption DEF TypeOK
  <2>2. QED BY <1>2, <1>u, <2>1 DEF CreateBought, CreateTrial
<1>4. Moves(r, "invalidate", req[r].op, u, 0, level, 0)
  BY <1>1, <1>3, <1>u, AnnouncesMoves
<1>5. /\ rows' \in Seq(Row)
      /\ DOMAIN rows' = DOMAIN rows \cup {n}
      /\ \A i \in DOMAIN rows : rows'[i] = rows[i] /\ i <= Len(rows)
      /\ n \notin DOMAIN rows
      /\ rows'[n].user = u /\ rows'[n].status = "active"
      /\ Graced'
  BY <1>2, <1>3, CreateRow
<1>6. /\ history' \in [Users -> SUBSET Tags]
      /\ \A v \in Users : Clean(v, {"overlap", "restored"})' => Clean(v, {"overlap", "restored"})
  BY <1>3, MarksClean DEF Stacking, Tags
<1>7. TypeOK'
  BY <1>1, <1>4, <1>5, <1>6 DEF TypeOK, Moves
<1>8. Holds'
  BY <1>1, <1>4, <1>5, KeepsHolds DEF Moves
<1>9. /\ RowsOf(u)' = RowsOf(u) \cup {n}
      /\ With(u, {"active"})' = With(u, {"active"}) \cup {n}
      /\ \A v \in Users \ {u} : /\ RowsOf(v)' = RowsOf(v)
                                /\ With(v, {"active"})' = With(v, {"active"})
  <2> HIDE DEF n
  <2>1. RowsOf(u)' = RowsOf(u) \cup {n} /\ \A v \in Users \ {u} : RowsOf(v)' = RowsOf(v)
    <3>1. \A v \in Users : \A i \in DOMAIN rows : i \in RowsOf(v)' <=> i \in RowsOf(v)
      BY <1>5 DEF RowsOf
    <3>2. \A v \in Users : n \in RowsOf(v)' <=> v = u
      BY <1>5 DEF RowsOf
    <3>3. \A v \in Users : RowsOf(v) \subseteq DOMAIN rows /\ RowsOf(v)' \subseteq DOMAIN rows \cup {n}
      BY <1>5 DEF RowsOf
    <3>4. QED BY <1>2, <3>1, <3>2, <3>3
  <2>2. \A v \in Users : \A i \in RowsOf(v) : rows'[i] = rows[i] /\ i # n
    BY <1>5 DEF RowsOf
  <2>3. \A v \in Users \ {u} : With(v, {"active"})' = With(v, {"active"})
    BY <2>1, <2>2 DEF With
  <2>4. With(u, {"active"})' = With(u, {"active"}) \cup {n}
    BY <1>2, <1>5, <2>1, <2>2 DEF With
  <2>5. QED BY <2>1, <2>3, <2>4
<1>10. Clean(u, {"overlap", "restored"}) => With(u, {"active"}) = {}
  BY <1>1, <1>u DEF Alone, Writer
<1>11. OneActive'
  <2>1. \A i \in RowsOf(u)' : i <= n
    <3>1. Len(rows) \in Nat /\ \A i \in RowsOf(u) : i \in Nat
      BY LenProperties, RowFields DEF RowsOf, TypeOK
    <3>2. \A i \in RowsOf(u) : i <= Len(rows)
      BY <1>5 DEF RowsOf
    <3>3. QED BY <1>9, <3>1, <3>2
  <2>2. ASSUME NEW v \in Users, Clean(v, {"overlap", "restored"})'
        PROVE  \A i \in With(v, {"active"})' : \A j \in RowsOf(v)' : j <= i
    <3>1. CASE v = u
      <4>1. With(u, {"active"})' = {n}
        BY <1>6, <1>9, <1>10, <2>2, <3>1
      <4>2. \A i \in With(v, {"active"})' : i = n
        BY <3>1, <4>1
      <4>3. \A j \in RowsOf(v)' : j <= n
        BY <2>1, <3>1
      <4>4. QED BY <4>2, <4>3
    <3>2. CASE v # u
      BY <1>6, <1>9, <2>2, <3>2 DEF OneActive
    <3>3. QED BY <3>1, <3>2
  <2>3. QED BY <2>2 DEF OneActive
<1>12. \A q \in Requests, v \in Users : Writer(q, v)' <=> Writer(q, v)
  BY <1>1, <1>4, <1>u DEF Writer, Moves
<1>13. Alone'
  <2>1. \A q \in Requests : Clean(u, {"overlap", "restored"}) /\ Writer(q, u) => q = r
    BY <1>1, <1>u DEF Alone, Writer
  <2>2. QED BY <1>2, <1>4, <1>6, <1>9, <1>12, <2>1 DEF Alone, Moves, Writer
<1>14. QED BY <1>5, <1>7, <1>8, <1>11, <1>13

\* Every later await of a handler preserves the invariant.
LEMMA ContinuesIInv ==
  ASSUME IInv, NEW r \in Requests, Continues(r)
  PROVE  IInv'
<1>1. CASE FindForTrial(r)
  <2>1. CASE ActiveRow(req[r].user) = {}
    BY <1>1, <2>1, ToCreateIInv DEF FindForTrial
  <2>2. CASE ActiveRow(req[r].user) # {}
    BY <1>1, <2>2, StepsIInv
  <2>3. QED BY <2>1, <2>2
<1>2. CASE WriteTerminated(r)
  <2>1. CASE req[r].op = "remove"
    BY <1>2, <2>1, StepsIInv
  <2>2. CASE req[r].op = "replace"
    BY <1>2, <2>2, ToCreateIInv
  <2>3. QED BY <1>2, <2>1, <2>2 DEF WriteTerminated
<1>3. CASE Load(r) \/ Fill(r) \/ Invalidate(r) \/ Publish(r) \/ Throw(r) \/ WriteCanceled(r)
  BY <1>3, StepsIInv
<1>4. QED BY <1>1, <1>2, <1>3, RestoredIInv, CreateIInv DEF Continues

-------------------------------------------------------------------------------
(* The worker, the clock and the TTL.                                        *)

\* The bulk updates only take rows out of the active ones.
LEMMA WorkerIInv ==
  ASSUME IInv, WorkerStep \/ NextDay \/ \E u \in Users : CacheExpires(u)
  PROVE  IInv'
<1> USE DEF IInv
<1>1. UNCHANGED req
  BY DEF WorkerStep, WorkerRow, ExpireActive, TerminateExpired, WorkerInvalidates, WorkerPublishes,
         WorkerThrow, WorkerCrash, NextDay, CacheExpires
<1>2. UNCHANGED rows \/ Settles
  <2>1. CASE ExpireActive \/ TerminateExpired
    BY <2>1, BulkUpdateSettles DEF ExpireActive, TerminateExpired
  <2>2. CASE ~(ExpireActive \/ TerminateExpired)
    BY <2>2 DEF WorkerStep, WorkerRow, WorkerInvalidates, WorkerPublishes, WorkerThrow,
                WorkerCrash, NextDay, CacheExpires
  <2>3. QED BY <2>1, <2>2
<1>3. \A i \in DOMAIN rows : rows[i].user \in Users
  BY RowFields
<1>4. /\ history' \in [Users -> SUBSET Tags]
      /\ \A u \in Users : Clean(u, {"overlap", "restored"})' => Clean(u, {"overlap", "restored"})
  <2>1. CASE ExpireActive \/ TerminateExpired \/ WorkerCrash
    <3>1. PICK tags \in [Users -> SUBSET Tags] :
            history' = [u \in Users |-> Adds(history[u], tags[u])]
      <4>1. CASE WorkerCrash
        <5> DEFINE tags == [u \in Users |->
                              IF worker.todo \cap RowsOf(u) = {} THEN {} ELSE {"lost"}]
        <5>1. tags \in [Users -> SUBSET Tags]
          BY DEF Tags
        <5>2. QED BY <4>1, <5>1 DEF WorkerCrash
      <4>2. ASSUME NEW X, history' = [u \in Users |-> Adds(history[u], BulkClashes(u, X))]
            PROVE  \E tags \in [Users -> SUBSET Tags] :
                     history' = [u \in Users |-> Adds(history[u], tags[u])]
        <5> DEFINE tags == [u \in Users |-> BulkClashes(u, X)]
        <5>1. tags \in [Users -> SUBSET Tags]
          BY DEF BulkClashes, Tags
        <5>2. QED BY <4>2, <5>1
      <4>3. QED BY <2>1, <4>1, <4>2 DEF ExpireActive, TerminateExpired
    <3>2. QED BY <3>1 DEF TypeOK, Adds, Tags, Clean
  <2>2. CASE UNCHANGED history
    BY <2>2 DEF TypeOK, Clean
  <2>3. ASSUME NEW u \in Users, Marks(u, {"lost"})
        PROVE  /\ history' \in [Users -> SUBSET Tags]
               /\ \A v \in Users : Clean(v, {"overlap", "restored"})' => Clean(v, {"overlap", "restored"})
    BY <2>3, MarksClean DEF Tags
  <2>4. worker.row # 0 => worker.row \in DOMAIN rows
    BY DEF Holds
  <2>5. QED BY <1>3, <2>1, <2>2, <2>3, <2>4
    DEF WorkerStep, WorkerRow, WorkerInvalidates, WorkerPublishes, WorkerThrow, NextDay, CacheExpires
<1>5. worker' \in Worker /\ worker'.todo \subseteq DOMAIN rows /\ worker'.row \in worker'.todo \cup {0}
  <2>1. worker \in Worker /\ DOMAIN rows \subseteq Nat
    BY RowFields DEF TypeOK
  <2>2. worker.todo \subseteq DOMAIN rows /\ worker.row \in worker.todo \cup {0}
    BY DEF Holds
  <2>3. CASE ExpireActive \/ TerminateExpired \/ WorkerThrow \/ WorkerCrash
    BY <2>1, <2>2, <2>3 DEF ExpireActive, TerminateExpired, WorkerThrow, WorkerCrash, Worker, WorkerSteps
  <2>4. CASE WorkerRow
    BY <2>1, <2>2, <2>4 DEF WorkerRow, WorkerInvalidates, WorkerPublishes, Worker, WorkerSteps
  <2>5. CASE NextDay \/ \E u \in Users : CacheExpires(u)
    BY <2>1, <2>2, <2>5 DEF NextDay, CacheExpires
  <2>6. QED BY <2>3, <2>4, <2>5 DEF WorkerStep
<1>6. /\ now' \in Nat /\ cache' \in [Users -> Nat] /\ view' \in [Users -> Levels]
  BY <1>3, LevelsNat DEF WorkerStep, WorkerRow, ExpireActive, TerminateExpired, WorkerInvalidates,
     WorkerPublishes, WorkerThrow, WorkerCrash, NextDay, CacheExpires, Sees, TypeOK, Holds
<1>7. TypeOK'
  BY <1>1, <1>2, <1>4, <1>5, <1>6 DEF TypeOK, Settles
<1>8. Holds'
  BY <1>1, <1>2, <1>5 DEF Holds, Settles, RowsOf
<1>9. Graced'
  BY <1>2 DEF Graced, Settles
<1>10. Alone' /\ OneActive'
  BY <1>1, <1>2, <1>4, KeepsAlone
<1>11. QED BY <1>7, <1>8, <1>9, <1>10

-------------------------------------------------------------------------------
(* Theorems.                                                                 *)

\* Every step preserves the invariant.
LEMMA NextIInv == IInv /\ [Next]_vars => IInv'
<1> SUFFICES ASSUME IInv, [Next]_vars PROVE IInv'
  OBVIOUS
<1>1. CASE UNCHANGED vars
  BY <1>1 DEF vars, IInv, TypeOK, Holds, Graced, Alone, OneActive, Writer, With, RowsOf, Clean
<1>2. CASE Next
  BY <1>2, CalledIInv, ContinuesIInv, WorkerIInv DEF Next
<1>3. QED BY <1>1, <1>2

\* The inductive invariant holds in every reachable state.
THEOREM Invariance == Spec => []IInv
BY InitIInv, NextIInv, PTL DEF Spec

\* Every handler, worker step and failure keeps the state well-typed.
THEOREM SubscriptionsTyped == Spec => []TypeOK
<1>1. IInv => TypeOK
  BY DEF IInv
<1>2. QED BY <1>1, Invariance, PTL

\* A user whose writing handlers never overlapped, and who restored nothing, has
\* at most one active row, the last one made.
THEOREM AtMostOneActive == Spec => []OneActive
<1>1. IInv => OneActive
  BY DEF IInv
<1>2. QED BY <1>1, Invariance, PTL

\* What terminateExpired selects has had its whole grace period.
LEMMA TerminateTakesOverdue ==
  ASSUME IInv, TerminateExpired, NEW i \in DOMAIN rows,
         rows[i].status = "expired", rows[i].grace < now
  PROVE  rows[i].ended_at + GraceDays < now
<1>1. rows[i] \in Row /\ now \in Nat /\ GraceDays \in Nat
  BY RowFields, TimeAssumption DEF IInv, TypeOK
<1>2. rows[i].ended_at + GraceDays < rows[i].grace
  BY DEF IInv, Graced
<1>3. QED BY <1>1, <1>2 DEF Row

\* The steps, by what they do to the rows, to the clock and to the worker.
RowWriter(r) == \/ WriteCanceled(r) \/ WriteTerminated(r) \/ WriteRestored(r)
                \/ CreateBought(r)  \/ CreateTrial(r)
LEMMA KindsOfSteps ==
  ASSUME [Next]_vars
  PROVE  \/ UNCHANGED <<rows, now, worker>>
         \/ (\E r \in Requests : RowWriter(r)) /\ UNCHANGED <<now, worker>>
         \/ (ExpireActive \/ TerminateExpired) /\ UNCHANGED now
         \/ (WorkerRow \/ WorkerThrow \/ WorkerCrash) /\ UNCHANGED <<rows, now>>
         \/ now' = now + 1 /\ UNCHANGED <<rows, worker>>
<1>1. ASSUME NEW r \in Requests, NEW u \in Users, Called(r, u)
      PROVE  UNCHANGED <<rows, now, worker>>
  BY <1>1 DEF Called, CheckAccess, CancelSubscription, RestoreSubscription,
    AdminRemoveSubscription, AdminSetSubscription, HandlePaymentSucceeded, HandlePaymentRefunded,
    CreateTrialSubscription, Replace, Start
<1>2. ASSUME NEW r \in Requests, Continues(r)
      PROVE  UNCHANGED <<now, worker>> /\ (UNCHANGED rows \/ RowWriter(r))
  BY <1>2 DEF Continues, Load, Fill, WriteCanceled, WriteTerminated, WriteRestored, FindForTrial,
    CreateBought, CreateTrial, Invalidate, Publish, Throw, RowWriter
<1>3. ASSUME WorkerStep
      PROVE  \/ (ExpireActive \/ TerminateExpired) /\ UNCHANGED now
             \/ (WorkerRow \/ WorkerThrow \/ WorkerCrash) /\ UNCHANGED <<rows, now>>
  <2>1. CASE ExpireActive \/ TerminateExpired
    BY <2>1 DEF ExpireActive, TerminateExpired
  <2>2. CASE WorkerRow
    BY <2>2 DEF WorkerRow, WorkerInvalidates, WorkerPublishes
  <2>3. CASE WorkerThrow \/ WorkerCrash
    BY <2>3 DEF WorkerThrow, WorkerCrash
  <2>4. QED BY <1>3, <2>1, <2>2, <2>3 DEF WorkerStep
<1>4. NextDay => now' = now + 1 /\ UNCHANGED <<rows, worker>>
  BY DEF NextDay
<1>5. (\E u \in Users : CacheExpires(u)) => UNCHANGED <<rows, now, worker>>
  BY DEF CacheExpires
<1>6. UNCHANGED vars => UNCHANGED <<rows, now, worker>>
  BY DEF vars
<1>7. CASE \E r \in Requests : Continues(r)
  BY <1>2, <1>7
<1>8. QED BY <1>1, <1>3, <1>4, <1>5, <1>6, <1>7 DEF Next

\* No step moves the end of a row, or the clock back.
LEMMA EndsAreKept ==
  ASSUME IInv, [Next]_vars
  PROVE  /\ \A i \in DOMAIN rows : i \in DOMAIN rows' /\ rows'[i].ended_at = rows[i].ended_at
         /\ now' = now \/ now' = now + 1
<1> USE DEF IInv
<1>1. CASE UNCHANGED rows /\ (now' = now \/ now' = now + 1)
  BY <1>1
<1>2. CASE ExpireActive \/ TerminateExpired
  BY <1>2, BulkUpdateSettles DEF ExpireActive, TerminateExpired, Settles
<1>3. ASSUME NEW r \in Requests, WriteCanceled(r) \/ WriteTerminated(r)
      PROVE  Settles /\ UNCHANGED now
  <2>1. req[r] # Idle /\ req[r].at = "write"
    BY <1>3, IdleAt DEF WriteCanceled, WriteTerminated
  <2>2. req[r].row \in DOMAIN rows /\ rows[req[r].row].sub_type \in Levels
    BY <2>1, RowFields DEF Holds, RowsOf
  <2>3. \/ UpdateById(req[r].row, "canceled", rows[req[r].row].sub_type)
        \/ UpdateById(req[r].row, "terminated", 0)
    BY <1>3 DEF WriteCanceled, WriteTerminated
  <2>4. Settles
    BY <2>2, <2>3, LevelsNat, UpdateByIdSettles DEF Statuses
  <2>5. QED BY <1>3, <2>4 DEF WriteCanceled, WriteTerminated
<1>4. ASSUME NEW r \in Requests, WriteRestored(r)
      PROVE  /\ \A i \in DOMAIN rows : i \in DOMAIN rows' /\ rows'[i].ended_at = rows[i].ended_at
             /\ UNCHANGED now
  <2>1. req[r] # Idle /\ req[r].at = "write"
    BY <1>4, IdleAt DEF WriteRestored
  <2>2. req[r].row \in DOMAIN rows
    BY <2>1 DEF Holds, RowsOf
  <2>3. \A i \in DOMAIN rows : rows[i] \in Row
    BY RowFields
  <2>4. PICK j \in DOMAIN rows : j = req[r].row
    BY <2>2
  <2>5. rows' = [rows EXCEPT ![j] = [rows[j] EXCEPT !.status = "active", !.grace = 0]]
    BY <1>4, <2>4 DEF WriteRestored
  <2>6. [rows[j] EXCEPT !.status = "active", !.grace = 0].ended_at = rows[j].ended_at
    BY <2>3 DEF Row
  <2>7. \A i \in DOMAIN rows : i \in DOMAIN rows' /\ rows'[i].ended_at = rows[i].ended_at
    BY <2>5, <2>6
  <2>8. QED BY <1>4, <2>7 DEF WriteRestored
<1>5. ASSUME NEW r \in Requests, CreateBought(r) \/ CreateTrial(r)
      PROVE  /\ \A i \in DOMAIN rows : i \in DOMAIN rows' /\ rows'[i] = rows[i]
             /\ UNCHANGED now
  <2>1. req[r] # Idle
    BY <1>5, IdleAt DEF CreateBought, CreateTrial
  <2>2. /\ req[r].user \in Users /\ req[r].tier \in Levels /\ req[r].till \in Nat
        /\ TrialTier \in Levels /\ \A days \in TrialDays : now + days \in Nat
    BY <2>1, ReqFields, TimeAssumption DEF Levels, TypeOK
  <2>3. PICK u \in Users, level \in Levels, days \in Nat, k \in {"trial", "bought"} :
          Create(u, level, days, k)
    BY <1>5, <2>2 DEF CreateBought, CreateTrial
  <2>4. \A i \in DOMAIN rows : i \in DOMAIN rows' /\ rows'[i] = rows[i]
    BY <2>3, CreateRow
  <2>5. QED BY <1>5, <2>4 DEF CreateBought, CreateTrial
<1>6. \/ UNCHANGED rows /\ (now' = now \/ now' = now + 1)
      \/ ExpireActive \/ TerminateExpired
      \/ \E r \in Requests : RowWriter(r)
  BY KindsOfSteps
<1>7. QED BY <1>1, <1>2, <1>3, <1>4, <1>5, <1>6 DEF Settles, RowWriter

\* The rows whose termination is not announced yet are past their grace period,
\* even those that a restoration has taken back since.
Overdue ==
  worker.at = "terminated" =>
    \A i \in worker.todo : rows[i].ended_at + GraceDays < now

\* A step that leaves the worker at work on the same rows keeps them overdue.
LEMMA OverdueKept ==
  ASSUME IInv, Overdue, [Next]_vars,
         worker'.at = "terminated" => worker.at = "terminated" /\ worker'.todo \subseteq worker.todo
  PROVE  Overdue'
<1> SUFFICES ASSUME worker'.at = "terminated", NEW i \in worker'.todo
             PROVE  rows'[i].ended_at + GraceDays < now'
  BY DEF Overdue
<1>1. i \in DOMAIN rows /\ rows[i].ended_at + GraceDays < now
  BY DEF Overdue, IInv, Holds
<1>2. rows[i] \in Row /\ now \in Nat /\ GraceDays \in Nat
  BY <1>1, RowFields, TimeAssumption DEF IInv, TypeOK
<1>3. rows'[i].ended_at = rows[i].ended_at /\ (now' = now \/ now' = now + 1)
  BY <1>1, EndsAreKept
<1>4. rows[i].ended_at \in Nat
  BY <1>2 DEF Row
<1>5. QED BY <1>1, <1>2, <1>3, <1>4

\* Every step keeps the rows to be announced overdue.
LEMMA NextOverdue == IInv /\ Overdue /\ [Next]_vars => Overdue'
<1> SUFFICES ASSUME IInv, Overdue, [Next]_vars PROVE Overdue'
  OBVIOUS
<1>0. worker \in Worker
  BY DEF IInv, TypeOK
<1>1. CASE TerminateExpired
  <2>1. PICK X \in SUBSET DOMAIN rows :
          /\ \A i \in X : rows[i].status = "expired" /\ rows[i].grace < now
          /\ worker'.todo = X /\ UNCHANGED now
    BY <1>1 DEF TerminateExpired
  <2>2. \A i \in X : rows[i].ended_at + GraceDays < now
    BY <1>1, <2>1, TerminateTakesOverdue
  <2>3. \A i \in X : rows'[i].ended_at = rows[i].ended_at
    BY EndsAreKept
  <2>4. QED BY <2>1, <2>2, <2>3 DEF Overdue
<1>2. CASE ~TerminateExpired
  <2>1. worker'.at = "terminated" => worker.at = "terminated" /\ worker'.todo \subseteq worker.todo
    <3>1. CASE UNCHANGED worker
      BY <3>1
    <3>2. CASE ExpireActive \/ WorkerThrow \/ WorkerCrash
      BY <1>0, <3>2 DEF ExpireActive, WorkerThrow, WorkerCrash, Worker
    <3>3. CASE WorkerRow
      BY <1>0, <3>3 DEF WorkerRow, WorkerInvalidates, WorkerPublishes, Worker
    <3>4. UNCHANGED worker \/ ExpireActive \/ WorkerThrow \/ WorkerCrash \/ WorkerRow
      BY <1>2, KindsOfSteps
    <3>5. QED BY <3>1, <3>2, <3>3, <3>4
  <2>2. QED BY <2>1, OverdueKept
<1>3. QED BY <1>1, <1>2

\* A termination, and the event that follows it, come after the whole grace period.
LEMMA TakesOverdue ==
  IInv /\ Overdue /\ [Next]_vars =>
    [LET InGrace(i) == rows[i].ended_at + GraceDays >= now IN
     /\ TerminateExpired => \A i \in DOMAIN rows :
          rows'[i].status # rows[i].status => ~InGrace(i)
     /\ WorkerPublishes => \A u \in Users :
          view'[u] # view[u] => ~InGrace(worker.row)]_vars
<1> SUFFICES ASSUME IInv, Overdue
             PROVE  /\ TerminateExpired => \A i \in DOMAIN rows :
                         rows'[i].status # rows[i].status => ~(rows[i].ended_at + GraceDays >= now)
                    /\ WorkerPublishes => \A u \in Users :
                         view'[u] # view[u] => ~(rows[worker.row].ended_at + GraceDays >= now)
  OBVIOUS
<1>1. ASSUME TerminateExpired, NEW i \in DOMAIN rows, rows'[i].status # rows[i].status
      PROVE  ~(rows[i].ended_at + GraceDays >= now)
  <2>1. rows[i].status = "expired" /\ rows[i].grace < now
    BY <1>1 DEF TerminateExpired, BulkUpdate
  <2>2. rows[i].ended_at + GraceDays < now
    BY <1>1, <2>1, TerminateTakesOverdue
  <2>3. rows[i].ended_at \in Nat /\ now \in Nat /\ GraceDays \in Nat
    BY RowFields, TimeAssumption DEF IInv, TypeOK, Row
  <2>4. QED BY <2>2, <2>3
<1>2. ASSUME WorkerPublishes, NEW u \in Users, view'[u] # view[u]
      PROVE  ~(rows[worker.row].ended_at + GraceDays >= now)
  <2>1. worker.at = "terminated" /\ worker.row \in worker.todo
    BY <1>2 DEF WorkerPublishes, IInv, Holds
  <2>2. PICK i \in worker.todo : i = worker.row
    BY <2>1
  <2>3. rows[i].ended_at + GraceDays < now /\ i \in DOMAIN rows
    BY <2>1 DEF Overdue, IInv, Holds
  <2>4. rows[i].ended_at \in Nat /\ now \in Nat /\ GraceDays \in Nat
    BY <2>3, RowFields, TimeAssumption DEF IInv, TypeOK, Row
  <2>5. QED BY <2>2, <2>3, <2>4
<1>3. QED BY <1>1, <1>2

\* TierKeptInGrace: the worker terminates a row, and its late event takes the tier out
\* of the user's JWT, only after all of the grace period.
THEOREM TierIsKeptInGrace == Spec => TierKeptInGrace
<1>1. Init => Overdue
  BY DEF Init, Overdue
<1>2. QED BY <1>1, Invariance, NextOverdue, TakesOverdue, PTL DEF Spec, TierKeptInGrace

-------------------------------------------------------------------------------
(* The tier in the JWT and the cached row: the inductive invariant.          *)

Reader(r, u) == req[r] # Idle /\ req[r].user = u /\ req[r].op = "check"

\* Which handlers come to which step.
Onto ==
  \A r \in Requests : req[r] # Idle =>
    /\ req[r].at \in {"load", "fill"} <=> req[r].op = "check"
    /\ req[r].at = "write" => req[r].op \in {"cancel", "restore", "remove", "replace"}
    /\ req[r].at = "find" => req[r].op = "trial"
    /\ req[r].at = "create" => req[r].op \in {"replace", "trial"}

\* The worker sleeps only when it has handled every row.
Rested == worker.at = "idle" => worker.todo = {}

\* The rows of the user that the worker has updated and not handled yet.
Listed(u) == {i \in worker.todo : rows[i].user = u}

\* One writing handler at a time, the worker among them, and the row that it
\* is about to end is still active.
Sole(u) ==
  /\ \A r, q \in Requests : Writer(r, u) /\ Writer(q, u) => r = q
  /\ \A r \in Requests : Writer(r, u) => Listed(u) = {}
  /\ \A r \in Requests : Writer(r, u) /\ req[r].at = "write" /\ req[r].op # "restore" =>
       rows[req[r].row].status = "active"

\* The JWT and the rows agree.
Agrees(u) ==
  /\ \A i \in Live(u) : view[u] = rows[i].sub_type
  /\ RowsOf(u) = With(u, {"terminated"}) => view[u] = 0

\* What r is about to publish is what the rows say.
Announced(r, u) ==
  /\ req[r].op = "cancel" => Agrees(u)
  /\ req[r].op = "remove" => Live(u) = {}
  /\ req[r].op \notin {"cancel", "remove"} =>
       Live(u) # {} /\ \A i \in Live(u) : rows[i].sub_type = req[r].tier

\* They agree but while an event that makes them agree is still to be published:
\* by the handler that has written, or by the worker that has terminated.
Tiered(u) ==
  /\ \A i, j \in Live(u) : i = j
  /\ \A r \in Requests : Writer(r, u) /\ req[r].at \in {"find", "write"} => Agrees(u)
  /\ \A r \in Requests : Writer(r, u) /\ req[r].at \in {"invalidate", "publish"} =>
       Announced(r, u)
  /\ worker.at = "terminated" /\ Listed(u) # {} => Live(u) = {}
  /\ (\A r \in Requests : ~Writer(r, u)) /\ (worker.at = "terminated" => Listed(u) = {}) => Agrees(u)

\* The cached row is what the database would answer.
Fresh(u) == cache[u] # 0 => cache[u] \in ActiveRow(u)

\* It is but while a handler or the worker that wrote has not invalidated it.
Cached(u) ==
  /\ \A r \in Requests : Reader(r, u) =>
       /\ \A q \in Requests : ~Writer(q, u)
       /\ Listed(u) = {}
       /\ req[r].at = "fill" => req[r].row \in ActiveRow(u)
  /\ \A r \in Requests : Writer(r, u) =>
       /\ req[r].at \in {"find", "write"} => Fresh(u)
       /\ req[r].at = "publish" => cache[u] = 0
  /\ worker.row # 0 /\ worker.row \in Listed(u) => cache[u] = 0
  /\ (\A r \in Requests : ~Writer(r, u)) /\ Listed(u) = {} => Fresh(u)

Tracked(u) ==
  /\ Clean(u, {"overlap"}) => Sole(u)
  /\ Clean(u, {"overlap", "lost", "stacked"}) => Tiered(u)
  /\ Clean(u, {"overlap", "crossed", "lost"}) => Cached(u)

TInv == IInv /\ Onto /\ Rested /\ \A u \in Users : Tracked(u)

\* A user who is clean after the step was clean before it.
Keeps(u) == \A S \in SUBSET Tags : "overlap" \in S /\ Clean(u, S)' => Clean(u, S)

\* A mark leaves what is said of clean users, and is on its own user only.
LEMMA MarksKeep ==
  ASSUME TypeOK, NEW u \in Users, NEW tags \in SUBSET Tags, Marks(u, tags)
  PROVE  \A v \in Users :
           /\ v # u => history'[v] = history[v]
           /\ Keeps(v)
           /\ \A S \in SUBSET Tags : "overlap" \in S /\ Clean(u, S)' => tags \cap S = {}
BY DEF TypeOK, Marks, Clean, Adds, Tags, Keeps

\* The three sets of tags that the invariants speak of.
LEMMA TagSets ==
  ASSUME NEW u \in Users, Keeps(u)
  PROVE  /\ Clean(u, {"overlap"})' => Clean(u, {"overlap"})
         /\ Clean(u, {"overlap", "lost", "stacked"})' => Clean(u, {"overlap", "lost", "stacked"})
         /\ Clean(u, {"overlap", "crossed", "lost"})' => Clean(u, {"overlap", "crossed", "lost"})
<1>1. /\ {"overlap"} \in SUBSET Tags
      /\ {"overlap", "lost", "stacked"} \in SUBSET Tags
      /\ {"overlap", "crossed", "lost"} \in SUBSET Tags
  BY DEF Tags
<1>2. QED BY <1>1 DEF Keeps

\* The step is about other users.
Elsewhere(u) ==
  /\ Keeps(u)
  /\ cache'[u] = cache[u] /\ view'[u] = view[u]
  /\ RowsOf(u)' = RowsOf(u) /\ \A i \in RowsOf(u) : rows'[i] = rows[i]
  /\ \A r \in Requests : \/ req[r] # Idle /\ req[r].user = u
                         \/ req'[r] # Idle /\ req'[r].user = u
                         => req'[r] = req[r]
  /\ Listed(u)' = Listed(u)
  /\ Listed(u) # {} => /\ worker'.at = worker.at
                       /\ worker.row \in Listed(u) \/ worker'.row \in Listed(u) =>
                            worker'.row = worker.row

\* A user's rows that stay are the same rows to every query.
LEMMA SameRows ==
  ASSUME NEW u \in Users, RowsOf(u)' = RowsOf(u), \A i \in RowsOf(u) : rows'[i] = rows[i]
  PROVE  /\ \A S : With(u, S)' = With(u, S)
         /\ Live(u)' = Live(u) /\ ActiveRow(u)' = ActiveRow(u)
         /\ \A i \in Live(u) : rows'[i] = rows[i]
<1>1. \A S : With(u, S)' = With(u, S)
  BY DEF With
<1>2. QED BY <1>1 DEF Live, ActiveRow, Latest, With

\* ... and agree with the same sub_type,
LEMMA SameAgrees ==
  ASSUME NEW u \in Users, RowsOf(u)' = RowsOf(u), \A i \in RowsOf(u) : rows'[i] = rows[i],
         view'[u] = view[u]
  PROVE  Agrees(u)' <=> Agrees(u)
BY SameRows DEF Agrees

\* ... and with the same key.
LEMMA SameFresh ==
  ASSUME NEW u \in Users, RowsOf(u)' = RowsOf(u), \A i \in RowsOf(u) : rows'[i] = rows[i],
         cache'[u] = cache[u]
  PROVE  Fresh(u)' <=> Fresh(u)
BY SameRows DEF Fresh

\* A step about other users leaves what is tracked of this one.
LEMMA ElsewhereTracked ==
  ASSUME Holds, NEW u \in Users, Tracked(u), Elsewhere(u)
  PROVE  Tracked(u)'
<1>1. \A r \in Requests : /\ Writer(r, u)' <=> Writer(r, u)
                          /\ Reader(r, u)' <=> Reader(r, u)
                          /\ Writer(r, u) \/ Reader(r, u) => req'[r] = req[r]
  BY DEF Elsewhere, Writer, Reader
<1>2. Listed(u)' = Listed(u)
  BY DEF Elsewhere
<1>3. /\ \A S : With(u, S)' = With(u, S)
      /\ Live(u)' = Live(u) /\ ActiveRow(u)' = ActiveRow(u)
      /\ \A i \in Live(u) : rows'[i] = rows[i]
      /\ Agrees(u)' <=> Agrees(u)
      /\ Fresh(u)' <=> Fresh(u)
  BY SameRows, SameAgrees, SameFresh DEF Elsewhere
<1>4. \A r \in Requests : Writer(r, u) /\ req[r].at = "write" => rows'[req[r].row] = rows[req[r].row]
  BY DEF Elsewhere, Holds, Writer
<1>5. cache'[u] = cache[u]
  BY DEF Elsewhere
<1>6. /\ worker.at = "terminated" /\ Listed(u) # {} <=> (worker.at = "terminated" /\ Listed(u) # {})'
      /\ worker.row # 0 /\ worker.row \in Listed(u) <=> (worker.row # 0 /\ worker.row \in Listed(u))'
  BY <1>2 DEF Elsewhere
<1>7. Sole(u) => Sole(u)'
  BY <1>1, <1>2, <1>4 DEF Sole
<1>8. Tiered(u) => Tiered(u)'
  <2> SUFFICES ASSUME Tiered(u) PROVE Tiered(u)'
    OBVIOUS
  <2>1. (\A i, j \in Live(u) : i = j)'
    BY <1>3 DEF Tiered
  <2>2. (\A r \in Requests : Writer(r, u) /\ req[r].at \in {"find", "write"} => Agrees(u))'
    BY <1>1, <1>3 DEF Tiered
  <2>3. (\A r \in Requests : Writer(r, u) /\ req[r].at \in {"invalidate", "publish"} => Announced(r, u))'
    <3>1. \A r \in Requests : Writer(r, u) => (Announced(r, u)' <=> Announced(r, u))
      BY <1>1, <1>3 DEF Announced
    <3>2. QED BY <1>1, <3>1 DEF Tiered
  <2>4. (worker.at = "terminated" /\ Listed(u) # {} => Live(u) = {})'
    BY <1>3, <1>6 DEF Tiered
  <2>5. ((\A r \in Requests : ~Writer(r, u)) /\ (worker.at = "terminated" => Listed(u) = {}) => Agrees(u))'
    BY <1>1, <1>3, <1>6 DEF Tiered
  <2>6. QED BY <2>1, <2>2, <2>3, <2>4, <2>5 DEF Tiered
<1>9. Cached(u) => Cached(u)'
  BY <1>1, <1>2, <1>3, <1>5, <1>6 DEF Cached
<1>10. QED BY <1>7, <1>8, <1>9, TagSets DEF Tracked, Elsewhere

-------------------------------------------------------------------------------
(* The tier and the cache: handlers that start.                              *)

\* Nothing is wrong with an empty table.
LEMMA InitTInv == Init => TInv
<1> SUFFICES ASSUME Init PROVE TInv
  OBVIOUS
<1>1. IInv /\ TypeOK
  BY InitIInv DEF IInv
<1>2. Onto /\ Rested
  BY DEF Init, Onto, Rested
<1>3. ASSUME NEW u \in Users PROVE Tracked(u)
  <2>1. \A r \in Requests : ~Writer(r, u) /\ ~Reader(r, u)
    BY DEF Init, Writer, Reader
  <2>2. Listed(u) = {} /\ worker.row = 0 /\ worker.at = "idle"
    BY DEF Init, Listed
  <2>3. DOMAIN rows = {} /\ cache[u] = 0 /\ view[u] = 0
    BY EmptySeq DEF Init
  <2>4. Live(u) = {} /\ Agrees(u) /\ Fresh(u)
    BY <2>3 DEF Live, With, RowsOf, Agrees, Fresh
  <2>5. QED BY <2>1, <2>2, <2>4 DEF Tracked, Sole, Tiered, Cached
<1>4. QED BY <1>1, <1>2, <1>3 DEF TInv

\* A handler's step is about its user only.
LEMMA OthersTracked ==
  ASSUME TInv, NEW r \in Requests, NEW u \in Users,
         \A q \in Requests \ {r} : req'[q] = req[q],
         req[r] # Idle => req[r].user = u,
         req'[r] # Idle => req'[r].user = u,
         UNCHANGED worker,
         \A i \in DOMAIN rows : /\ i \in DOMAIN rows' /\ rows'[i].user = rows[i].user
                                /\ rows[i].user # u => rows'[i] = rows[i],
         \A i \in DOMAIN rows' \ DOMAIN rows : rows'[i].user = u,
         \A v \in Users \ {u} : Keeps(v) /\ cache'[v] = cache[v] /\ view'[v] = view[v]
  PROVE  \A v \in Users \ {u} : Tracked(v)'
<1> SUFFICES ASSUME NEW v \in Users, v # u PROVE Tracked(v)'
  OBVIOUS
<1>1. RowsOf(v)' = RowsOf(v) /\ \A i \in RowsOf(v) : rows'[i] = rows[i]
  BY DEF RowsOf
<1>2. \A q \in Requests : \/ req[q] # Idle /\ req[q].user = v
                          \/ req'[q] # Idle /\ req'[q].user = v
                          => req'[q] = req[q]
  OBVIOUS
<1>3. Listed(v)' = Listed(v)
  BY DEF Listed, TInv, IInv, Holds
<1>4. Elsewhere(v)
  BY <1>1, <1>2, <1>3 DEF Elsewhere
<1>5. QED BY <1>4, ElsewhereTracked DEF TInv, IInv

\* The same handlers write, and go on where they were.
LEMMA SoleStays ==
  ASSUME Holds, NEW u \in Users, NEW r \in Requests, Sole(u),
         UNCHANGED worker,
         \A i \in DOMAIN rows : rows'[i].user = rows[i].user,
         \A q \in Requests : Writer(q, u)' => Writer(q, u),
         \A q \in Requests : Writer(q, u)' /\ req'[q].at = "write" => q # r,
         \A q \in Requests \ {r} : req'[q] = req[q],
         rows' = rows \/ Writer(r, u)
  PROVE  Sole(u)'
<1>1. Listed(u)' = Listed(u)
  BY DEF Listed, Holds
<1>2. \A q \in Requests : Writer(q, u)' /\ req'[q].at = "write" => rows' = rows /\ req'[q] = req[q]
  BY DEF Sole
<1>3. QED BY <1>1, <1>2 DEF Sole

\* A writing handler that starts alone finds rows, JWT and key in order; a checkAccess
\* that crosses no writer does too.
LEMMA StartTracked ==
  ASSUME TInv, NEW r \in Requests, NEW u \in Users, NEW op \in Ops,
         NEW step \in {"load", "write", "find", "create"},
         NEW i \in Nat, NEW tier \in Levels, NEW till \in Nat,
         Start(r, u, op, step, i, tier, till),
         op = "check" <=> step = "load",
         step = "write" /\ op # "restore" => i \in ActiveRow(u),
         step = "write" => op \in {"cancel", "restore", "remove", "replace"},
         step = "find" => op = "trial",
         step = "create" => op \in {"replace", "trial"}
  PROVE  Onto' /\ Rested' /\ \A v \in Users : Tracked(v)'
<1>0. TypeOK /\ Holds
  BY DEF TInv, IInv
<1>1. Moves(r, step, op, u, i, tier, till)
  BY <1>0, StartMoves DEF Steps
<1>2. UNCHANGED <<rows, now, cache, worker, view>> /\ req[r] = Idle /\ Marks(u, Clashes(u, op))
  BY DEF Start
<1>3. Onto'
  BY <1>1 DEF Onto, TInv, Moves
<1>4. Rested'
  BY <1>2 DEF Rested, TInv
<1>5. Clashes(u, op) \in SUBSET Tags
  BY DEF Clashes, Tags
<1>6. /\ \A v \in Users : Keeps(v)
      /\ \A S \in SUBSET Tags : "overlap" \in S /\ Clean(u, S)' => Clashes(u, op) \cap S = {}
  BY <1>0, <1>2, <1>5, MarksKeep
<1>7. \A v \in Users \ {u} : Tracked(v)'
  BY <1>1, <1>2, <1>6, OthersTracked DEF Moves
<1>8. Tracked(u)'
  <2>1. /\ RowsOf(u)' = RowsOf(u) /\ \A j \in RowsOf(u) : rows'[j] = rows[j]
        /\ cache'[u] = cache[u] /\ view'[u] = view[u] /\ Listed(u)' = Listed(u)
    BY <1>2 DEF RowsOf, Listed
  <2>2. /\ Live(u)' = Live(u) /\ ActiveRow(u)' = ActiveRow(u)
        /\ Agrees(u)' <=> Agrees(u)
        /\ Fresh(u)' <=> Fresh(u)
    BY <2>1, SameRows, SameAgrees, SameFresh
  <2>3. \A q \in Requests \ {r} : /\ Writer(q, u)' <=> Writer(q, u)
                                  /\ Reader(q, u)' <=> Reader(q, u)
                                  /\ req'[q] = req[q]
    BY <1>1 DEF Writer, Reader, Moves
  <2>4. /\ Writer(r, u)' <=> op # "check"
        /\ Reader(r, u)' <=> op = "check"
        /\ ~Writer(r, u) /\ ~Reader(r, u)
    BY <1>1, <1>2 DEF Writer, Reader, Moves
  <2>5. /\ {"overlap"} \in SUBSET Tags
        /\ {"overlap", "lost", "stacked"} \in SUBSET Tags
        /\ {"overlap", "crossed", "lost"} \in SUBSET Tags
    BY DEF Tags
  <2>6. ~Writing(u) => Listed(u) = {} /\ \A q \in Requests : ~Writer(q, u)
    BY DEF Writing, Listed, Writer, Handling, Readers
  <2>7. Readers(u) = {} => \A q \in Requests : ~Reader(q, u)
    BY DEF Reader, Handling, Readers
  <2>8. /\ op # "check" /\ Writing(u) => "overlap" \in Clashes(u, op)
        /\ op = "check" /\ Writing(u) => "crossed" \in Clashes(u, op)
        /\ op # "check" /\ Readers(u) # {} => "crossed" \in Clashes(u, op)
    BY DEF Clashes
  <2>9. Tracked(u)
    BY DEF TInv
  <2>10. CASE op = "check"
    <3>1. \A q \in Requests : /\ Writer(q, u)' <=> Writer(q, u)
                              /\ Writer(q, u) => req'[q] = req[q]
      BY <2>3, <2>4, <2>10
    <3>2. Clean(u, {"overlap"})' => Sole(u)'
      <4>1. Clean(u, {"overlap"})' => Sole(u)
        BY <1>6, <2>9, TagSets DEF Tracked
      <4>2. QED BY <1>2, <2>1, <3>1, <4>1 DEF Sole
    <3>3. Clean(u, {"overlap", "lost", "stacked"})' => Tiered(u)'
      <4>1. Clean(u, {"overlap", "lost", "stacked"})' => Tiered(u)
        BY <1>6, <2>9, TagSets DEF Tracked
      <4>2. \A q \in Requests : Writer(q, u) => (Announced(q, u)' <=> Announced(q, u))
        BY <1>2, <2>1, <2>2, <3>1 DEF Announced
      <4>3. QED BY <1>2, <2>1, <2>2, <3>1, <4>1, <4>2 DEF Tiered
    <3>4. Clean(u, {"overlap", "crossed", "lost"})' => Cached(u)'
      <4> SUFFICES ASSUME Clean(u, {"overlap", "crossed", "lost"})' PROVE Cached(u)'
        OBVIOUS
      <4>1. Cached(u)
        BY <1>6, <2>9, TagSets DEF Tracked
      <4>2. ~Writing(u)
        BY <1>6, <2>5, <2>8, <2>10
      <4>3. Listed(u) = {} /\ \A q \in Requests : ~Writer(q, u)
        BY <2>6, <4>2
      <4>4. req'[r].at # "fill"
        BY <1>1, <2>10 DEF Moves
      <4>5. QED BY <1>2, <2>1, <2>2, <2>3, <3>1, <4>1, <4>3, <4>4 DEF Cached
    <3>5. QED BY <3>2, <3>3, <3>4 DEF Tracked
  <2>11. CASE op # "check"
    <3>1. \A S \in SUBSET Tags : "overlap" \in S /\ Clean(u, S)' => ~Writing(u)
      BY <1>6, <2>8, <2>11
    <3>2. Clean(u, {"overlap"})' =>
            Listed(u) = {} /\ \A q \in Requests : Writer(q, u)' => q = r
      BY <2>3, <2>5, <2>6, <3>1
    <3>3. Clean(u, {"overlap"})' => Sole(u)'
      <4>1. step = "write" /\ op # "restore" => rows'[i].status = "active"
        BY <1>2 DEF ActiveRow, Latest, With
      <4>2. QED BY <1>1, <2>1, <3>2, <4>1 DEF Sole, Moves
    <3>4. Clean(u, {"overlap", "lost", "stacked"})' => Tiered(u)'
      <4> SUFFICES ASSUME Clean(u, {"overlap", "lost", "stacked"})' PROVE Tiered(u)'
        OBVIOUS
      <4>1. Tiered(u)
        BY <1>6, <2>9, TagSets DEF Tracked
      <4>2. Listed(u) = {} /\ \A q \in Requests : ~Writer(q, u)
        BY <2>5, <2>6, <3>1
      <4>3. Agrees(u)
        BY <4>1, <4>2 DEF Tiered
      <4>4. \A q \in Requests : Writer(q, u)' => req'[q].at \notin {"invalidate", "publish"}
        BY <1>1, <2>3, <4>2 DEF Moves
      <4>5. QED BY <1>2, <2>1, <2>2, <4>1, <4>2, <4>3, <4>4 DEF Tiered
    <3>5. Clean(u, {"overlap", "crossed", "lost"})' => Cached(u)'
      <4> SUFFICES ASSUME Clean(u, {"overlap", "crossed", "lost"})' PROVE Cached(u)'
        OBVIOUS
      <4>1. Cached(u)
        BY <1>6, <2>9, TagSets DEF Tracked
      <4>2. Listed(u) = {} /\ \A q \in Requests : ~Writer(q, u)
        BY <2>5, <2>6, <3>1
      <4>3. Fresh(u)
        BY <4>1, <4>2 DEF Cached
      <4>4. \A q \in Requests : ~Reader(q, u)'
        BY <1>6, <2>3, <2>4, <2>5, <2>7, <2>8, <2>11
      <4>5. \A q \in Requests : Writer(q, u)' => req'[q].at # "publish"
        BY <1>1, <2>3, <4>2 DEF Moves
      <4>6. QED BY <1>2, <2>1, <2>2, <4>2, <4>3, <4>4, <4>5 DEF Cached
    <3>6. QED BY <3>3, <3>4, <3>5 DEF Tracked
  <2>12. QED BY <2>10, <2>11
<1>9. QED BY <1>3, <1>4, <1>7, <1>8

\* Every call and event taken up.
LEMMA CalledTracked ==
  ASSUME TInv, NEW r \in Requests, NEW u \in Users, Called(r, u)
  PROVE  Onto' /\ Rested' /\ \A v \in Users : Tracked(v)'
<1> USE LevelsNat DEF Ops
<1>1. ActiveRow(u) \subseteq Nat /\ \A S : Latest(With(u, S)) \subseteq Nat
  BY RowFields DEF ActiveRow, Latest, With, RowsOf, TInv, IInv
<1>4. CASE CheckAccess(r, u)
  BY <1>4, StartTracked DEF CheckAccess
<1>5. CASE CancelSubscription(r, u) \/ HandlePaymentRefunded(r, u) \/ AdminRemoveSubscription(r, u)
  <2>1. PICK i \in ActiveRow(u), op \in {"cancel", "remove"} : Start(r, u, op, "write", i, 0, 0)
    BY <1>5 DEF CancelSubscription, HandlePaymentRefunded, AdminRemoveSubscription
  <2>2. QED BY <1>1, <2>1, StartTracked
<1>6. CASE RestoreSubscription(r, u)
  <2>1. PICK i \in Nat : Start(r, u, "restore", "write", i, 0, 0)
    BY <1>1, <1>6 DEF RestoreSubscription
  <2>2. QED BY <2>1, StartTracked
<1>7. CASE AdminSetSubscription(r, u) \/ HandlePaymentSucceeded(r, u)
  <2>1. PICK tier \in Levels, days \in Nat : Replace(r, u, tier, days)
    BY <1>7, TimeAssumption DEF AdminSetSubscription, HandlePaymentSucceeded, Levels
  <2>2. now + days \in Nat
    BY DEF TInv, IInv, TypeOK
  <2>3. CASE Start(r, u, "replace", "create", 0, tier, now + days)
    BY <2>2, <2>3, StartTracked
  <2>4. ASSUME NEW i \in ActiveRow(u), Start(r, u, "replace", "write", i, tier, now + days)
        PROVE  Onto' /\ Rested' /\ \A v \in Users : Tracked(v)'
    BY <1>1, <2>2, <2>4, StartTracked
  <2>5. QED BY <2>1, <2>3, <2>4 DEF Replace
<1>8. CASE CreateTrialSubscription(r, u)
  BY <1>8, StartTracked DEF CreateTrialSubscription
<1>9. QED BY <1>4, <1>5, <1>6, <1>7, <1>8 DEF Called

-------------------------------------------------------------------------------
(* The tier and the cache: what a step of a handler owes.                    *)

\* A writing handler of u takes a step that is no reading and no write to come.
Acts(r, u) ==
  /\ Writer(r, u)
  /\ \A q \in Requests \ {r} : req'[q] = req[q]
  /\ \/ req'[r] = Idle
     \/ Writer(r, u)' /\ req'[r].at \notin {"write", "find"}
  /\ UNCHANGED worker
  /\ \A i \in DOMAIN rows : /\ i \in DOMAIN rows' /\ rows'[i].user = rows[i].user
                            /\ rows[i].user # u => rows'[i] = rows[i]
  /\ \A i \in DOMAIN rows' \ DOMAIN rows : rows'[i].user = u
  /\ \A v \in Users : Keeps(v)
  /\ \A v \in Users \ {u} : cache'[v] = cache[v] /\ view'[v] = view[v]

\* The tier, when the only writing handler takes a step.
LEMMA ActsTiered ==
  ASSUME Holds, NEW r \in Requests, NEW u \in Users, Sole(u), Tiered(u), Acts(r, u),
         (\A i, j \in Live(u) : i = j)',
         req'[r] = Idle => Agrees(u)',
         req'[r].at \in {"invalidate", "publish"} => Announced(r, u)'
  PROVE  Tiered(u)'
<1>1. Listed(u)' = Listed(u)
  BY DEF Acts, Listed, Holds
<1>2. Listed(u)' = {}
  BY <1>1 DEF Acts, Sole
<1>3. \A q \in Requests : Writer(q, u)' => q = r
  BY DEF Acts, Sole, Writer
<1>4. (\A q \in Requests : ~Writer(q, u))' => req'[r] = Idle
  BY DEF Acts
<1>5. Writer(r, u)' => req'[r].at \notin {"write", "find"}
  BY DEF Acts, Writer
<1>6. QED BY <1>2, <1>3, <1>4, <1>5 DEF Tiered

\* The key, when the only writing handler takes a step.
LEMMA ActsCached ==
  ASSUME Holds, NEW r \in Requests, NEW u \in Users, Sole(u), Cached(u), Acts(r, u),
         req'[r] = Idle => Fresh(u)',
         req'[r].at = "publish" => cache'[u] = 0
  PROVE  Cached(u)'
<1>1. Listed(u)' = Listed(u)
  BY DEF Acts, Listed, Holds
<1>2. Listed(u)' = {}
  BY <1>1 DEF Acts, Sole
<1>3. \A q \in Requests : Writer(q, u)' => q = r
  BY DEF Acts, Sole, Writer
<1>4. \A q \in Requests : ~Reader(q, u)'
  BY DEF Acts, Cached, Reader, Writer
<1>5. (\A q \in Requests : ~Writer(q, u))' => req'[r] = Idle
  BY DEF Acts
<1>6. Writer(r, u)' => req'[r].at \notin {"write", "find"}
  BY DEF Acts, Writer
<1>7. QED BY <1>2, <1>3, <1>4, <1>5, <1>6 DEF Cached

\* What is left to show of a step of a writing handler: its own promise, or what holds
\* once it has ended.
LEMMA ActsTracked ==
  ASSUME TInv, NEW r \in Requests, NEW u \in Users, Acts(r, u),
         Sole(u) /\ Tiered(u) /\ Clean(u, {"overlap", "lost", "stacked"})' =>
           /\ (\A i, j \in Live(u) : i = j)'
           /\ req'[r] = Idle => Agrees(u)'
           /\ req'[r].at \in {"invalidate", "publish"} => Announced(r, u)',
         Sole(u) /\ Cached(u) /\ Clean(u, {"overlap", "crossed", "lost"})' =>
           /\ req'[r] = Idle => Fresh(u)'
           /\ req'[r].at = "publish" => cache'[u] = 0
  PROVE  Rested' /\ \A v \in Users : Tracked(v)'
<1>0. Holds /\ Tracked(u)
  BY DEF TInv, IInv
<1>1. Rested'
  BY DEF Acts, Rested, TInv
<1>2. \A v \in Users \ {u} : Tracked(v)'
  BY OthersTracked DEF Acts, Writer
<1>3. Sole(u) => Sole(u)'
  <2>1. \A q \in Requests : Writer(q, u)' => Writer(q, u)
    BY DEF Acts, Writer
  <2>2. \A q \in Requests : Writer(q, u)' /\ req'[q].at = "write" => q # r
    BY DEF Acts, Writer
  <2>3. QED BY <1>0, <2>1, <2>2, SoleStays DEF Acts
<1>4. /\ Clean(u, {"overlap"})' => Clean(u, {"overlap"})
      /\ Clean(u, {"overlap", "lost", "stacked"})' => Clean(u, {"overlap", "lost", "stacked"})
      /\ Clean(u, {"overlap", "crossed", "lost"})' => Clean(u, {"overlap", "crossed", "lost"})
  BY TagSets DEF Acts
<1>5. /\ Clean(u, {"overlap", "lost", "stacked"}) => Clean(u, {"overlap"})
      /\ Clean(u, {"overlap", "crossed", "lost"}) => Clean(u, {"overlap"})
  BY DEF Clean
<1>6. Clean(u, {"overlap", "lost", "stacked"})' => Tiered(u)'
  <2>1. Clean(u, {"overlap", "lost", "stacked"})' => Sole(u) /\ Tiered(u)
    BY <1>0, <1>4, <1>5 DEF Tracked
  <2>2. QED BY <1>0, <2>1, ActsTiered
<1>7. Clean(u, {"overlap", "crossed", "lost"})' => Cached(u)'
  <2>1. Clean(u, {"overlap", "crossed", "lost"})' => Sole(u) /\ Cached(u)
    BY <1>0, <1>4, <1>5 DEF Tracked
  <2>2. QED BY <1>0, <2>1, ActsCached
<1>8. Tracked(u)'
  BY <1>0, <1>3, <1>4, <1>6, <1>7 DEF Tracked
<1>9. QED BY <1>1, <1>2, <1>8

\* A checkAccess that goes on.
LEMMA ReaderTracked ==
  ASSUME TInv, NEW r \in Requests, NEW u \in Users, Reader(r, u),
         \A q \in Requests \ {r} : req'[q] = req[q],
         \/ req'[r] = Idle
         \/ Reader(r, u)' /\ (req'[r].at = "fill" => req'[r].row \in ActiveRow(u)),
         UNCHANGED <<rows, worker, view, history>>,
         \/ UNCHANGED cache
         \/ /\ req[r].at = "fill" /\ cache'[u] = req[r].row
            /\ \A v \in Users \ {u} : cache'[v] = cache[v]
  PROVE  Rested' /\ \A v \in Users : Tracked(v)'
<1>1. Rested'
  BY DEF Rested, TInv
<1>2. \A v \in Users : Keeps(v) /\ Tracked(v)
  BY DEF Keeps, Clean, TInv
<1>3. \A v \in Users \ {u} : Tracked(v)'
  BY <1>2, OthersTracked DEF Reader
<1>4. \A q \in Requests : /\ Writer(q, u)' <=> Writer(q, u)
                          /\ Writer(q, u) => req'[q] = req[q]
                          /\ Reader(q, u)' => Reader(q, u)
  BY DEF Writer, Reader
<1>5. /\ RowsOf(u)' = RowsOf(u) /\ \A j \in RowsOf(u) : rows'[j] = rows[j]
      /\ view'[u] = view[u] /\ Listed(u)' = Listed(u)
  BY DEF RowsOf, Listed
<1>6. /\ Live(u)' = Live(u) /\ ActiveRow(u)' = ActiveRow(u)
      /\ Agrees(u)' <=> Agrees(u)
  BY <1>5, SameRows, SameAgrees
<1>7. Sole(u) => Sole(u)'
  BY <1>4, <1>5 DEF Sole
<1>8. Tiered(u) => Tiered(u)'
  <2>1. \A q \in Requests : Writer(q, u) => (Announced(q, u)' <=> Announced(q, u))
    BY <1>4, <1>6 DEF Announced
  <2>2. QED BY <1>4, <1>5, <1>6, <2>1 DEF Tiered
<1>9. Cached(u) => Cached(u)'
  <2> SUFFICES ASSUME Cached(u) PROVE Cached(u)'
    OBVIOUS
  <2>1. /\ Listed(u) = {} /\ \A q \in Requests : ~Writer(q, u)
        /\ Fresh(u)
    BY DEF Cached
  <2>2. Fresh(u)'
    <3>1. CASE UNCHANGED cache
      BY <1>6, <2>1, <3>1 DEF Fresh
    <3>2. CASE req[r].at = "fill" /\ cache'[u] = req[r].row
      <4>1. req[r].row \in ActiveRow(u)
        BY <3>2 DEF Cached
      <4>2. QED BY <1>6, <3>2, <4>1 DEF Fresh
    <3>3. QED BY <3>1, <3>2
  <2>3. \A q \in Requests : Reader(q, u)' /\ req'[q].at = "fill" => req'[q].row \in ActiveRow(u)
    BY <1>4 DEF Cached, Reader
  <2>4. QED BY <1>4, <1>5, <1>6, <2>1, <2>2, <2>3 DEF Cached
<1>10. Tracked(u)'
  BY <1>2, <1>7, <1>8, <1>9 DEF Tracked, Clean
<1>11. QED BY <1>1, <1>3, <1>10

-------------------------------------------------------------------------------
(* The tier and the cache: writes.                                           *)

\* A step that marks nobody.
LEMMA Unmarked ==
  ASSUME UNCHANGED history
  PROVE  \A v \in Users : Keeps(v)
BY DEF Keeps, Clean

\* A user's one live row ends.
LEMMA EndsLive ==
  ASSUME Holds, NEW r \in Requests, NEW u \in Users, Sole(u), Tiered(u), Writer(r, u),
         req[r].at = "write", req[r].op # "restore",
         DOMAIN rows' = DOMAIN rows,
         \A j \in DOMAIN rows : rows'[j].user = rows[j].user,
         rows'[req[r].row].status \in {"canceled", "terminated"},
         \A j \in DOMAIN rows \ {req[r].row} : rows'[j] = rows[j]
  PROVE  /\ Live(u)' = {}
         /\ req[r].row \in RowsOf(u)'
<1>1. req[r].row \in RowsOf(u) /\ rows[req[r].row].status = "active"
  BY DEF Holds, Sole, Writer
<1>2. req[r].row \in Live(u)
  BY <1>1 DEF Live, With
<1>3. RowsOf(u)' = RowsOf(u)
  BY DEF RowsOf
<1>4. ASSUME NEW j \in Live(u)' PROVE FALSE
  <2>1. j \in RowsOf(u) /\ rows'[j].status \in {"active", "expired"}
    BY <1>3, <1>4 DEF Live, With
  <2>2. j # req[r].row /\ j \in DOMAIN rows
    BY <2>1 DEF RowsOf
  <2>3. j \in Live(u)
    BY <2>1, <2>2 DEF Live, With
  <2>4. QED BY <1>2, <2>2, <2>3 DEF Tiered
<1>5. QED BY <1>1, <1>3, <1>4

\* A row is canceled or terminated: the event for it is still to be published.
LEMMA WriteTracked ==
  ASSUME TInv, NEW r \in Requests, WriteCanceled(r) \/ WriteTerminated(r)
  PROVE  Onto' /\ Rested' /\ \A v \in Users : Tracked(v)'
<1> DEFINE i == req[r].row
<1>1. /\ req[r] # Idle /\ req[r].at = "write" /\ req[r].op \in {"cancel", "remove", "replace"}
      /\ UNCHANGED <<now, cache, worker, view, history>>
  BY IdleAt DEF WriteCanceled, WriteTerminated
<1>2. TypeOK /\ Holds /\ Graced
  BY DEF TInv, IInv
<1>3. PICK u \in Users : u = req[r].user
  BY <1>1, <1>2, ReqFields
<1>4. i \in DOMAIN rows /\ rows[i].user = u /\ rows[i].sub_type \in Levels
  BY <1>1, <1>2, <1>3, RowFields DEF Holds, RowsOf
<1>5. PICK step \in {"invalidate", "create"} :
        /\ Moves(r, step, req[r].op, u, 0, req[r].tier, req[r].till)
        /\ step = "create" => req[r].op = "replace"
        /\ step = "invalidate" => req[r].op \in {"cancel", "remove"}
  <2>1. CASE Goes(r, "create") /\ req[r].op = "replace"
    BY <1>1, <1>2, <1>3, <2>1, GoesMoves DEF Steps
  <2>2. CASE Goes(r, "invalidate") /\ req[r].op \in {"cancel", "remove"}
    BY <1>1, <1>2, <1>3, <2>2, GoesMoves DEF Steps
  <2>3. QED BY <1>1, <2>1, <2>2 DEF WriteCanceled, WriteTerminated
<1>6. PICK status \in {"canceled", "terminated"} :
        /\ Settles
        /\ rows'[i].status = status
        /\ \A j \in DOMAIN rows \ {i} : rows'[j] = rows[j]
        /\ req[r].op = "cancel" => status = "canceled"
  <2>1. CASE WriteCanceled(r)
    <3>1. UpdateById(i, "canceled", rows[i].sub_type)
      BY <2>1 DEF WriteCanceled
    <3>2. QED BY <1>2, <1>4, <3>1, UpdateByIdSettles DEF Statuses
  <2>2. CASE WriteTerminated(r)
    <3>1. UpdateById(i, "terminated", 0) /\ req[r].op # "cancel"
      BY <2>2 DEF WriteTerminated
    <3>2. QED BY <1>2, <1>4, <3>1, UpdateByIdSettles, LevelsNat DEF Statuses
  <2>3. QED BY <2>1, <2>2
<1>7. DOMAIN rows' = DOMAIN rows /\ \A j \in DOMAIN rows : rows'[j].user = rows[j].user
  BY <1>6 DEF Settles
<1>8. Acts(r, u)
  BY <1>1, <1>3, <1>4, <1>5, <1>6, <1>7, Unmarked DEF Acts, Writer, Moves
<1>9. ASSUME Sole(u), Tiered(u)
      PROVE  /\ (\A j, k \in Live(u) : j = k)'
             /\ req'[r].at \in {"invalidate", "publish"} => Announced(r, u)'
  <2>1. Writer(r, u) /\ req[r].op # "restore" /\ rows'[i].status \in {"canceled", "terminated"}
    BY <1>1, <1>3, <1>6 DEF Writer
  <2>2. Live(u)' = {} /\ i \in RowsOf(u)'
    BY <1>1, <1>2, <1>6, <1>7, <1>9, <2>1, EndsLive
  <2>3. ASSUME req[r].op = "cancel" PROVE Agrees(u)'
    <3>1. i \notin With(u, {"terminated"})'
      BY <1>6, <2>3 DEF With
    <3>2. QED BY <2>2, <3>1 DEF Agrees
  <2>4. req'[r].at = "invalidate" => req'[r].op \in {"cancel", "remove"}
    BY <1>5 DEF Moves
  <2>5. req'[r].op = req[r].op /\ req'[r].at # "publish"
    BY <1>5 DEF Moves
  <2>6. QED BY <2>2, <2>3, <2>4, <2>5 DEF Announced
<1>10. req'[r] # Idle /\ req'[r].at # "publish"
  BY <1>5 DEF Moves
<1>11. Rested' /\ \A v \in Users : Tracked(v)'
  BY <1>8, <1>9, <1>10, ActsTracked
<1>12. Onto'
  BY <1>5 DEF Onto, TInv, Moves
<1>13. QED BY <1>11, <1>12

\* A row is active again: unless it stacks, it is the one live row.
LEMMA RestoredTracked ==
  ASSUME TInv, NEW r \in Requests, WriteRestored(r)
  PROVE  Onto' /\ Rested' /\ \A v \in Users : Tracked(v)'
<1> DEFINE i == req[r].row
<1>1. /\ req[r] # Idle /\ req[r].at = "write" /\ req[r].op = "restore"
      /\ UNCHANGED <<now, cache, worker, view>>
  BY IdleAt DEF WriteRestored
<1>2. TypeOK /\ Holds
  BY DEF TInv, IInv
<1>3. PICK u \in Users : u = req[r].user
  BY <1>1, <1>2, ReqFields
<1>4. i \in DOMAIN rows /\ rows[i].user = u /\ rows[i].sub_type \in Levels /\ rows[i] \in Row
  BY <1>1, <1>2, <1>3, RowFields DEF Holds, RowsOf
<1>5. Moves(r, "invalidate", "restore", u, 0, rows[i].sub_type, 0)
  BY <1>1, <1>2, <1>3, <1>4, AnnouncesMoves DEF WriteRestored
<1>6. /\ DOMAIN rows' = DOMAIN rows
      /\ rows'[i].status = "active" /\ rows'[i].user = u /\ rows'[i].sub_type = rows[i].sub_type
      /\ \A j \in DOMAIN rows \ {i} : rows'[j] = rows[j]
  BY <1>2, <1>4 DEF WriteRestored, Row, TypeOK
<1>7. /\ \A v \in Users : Keeps(v)
      /\ Clean(u, {"overlap", "lost", "stacked"})' => Stacking(u, i) = {}
  <2>1. {"restored"} \cup Stacking(u, i) \in SUBSET Tags
    BY DEF Stacking, Tags
  <2>2. Marks(u, {"restored"} \cup Stacking(u, i))
    BY <1>3 DEF WriteRestored
  <2>3. {"overlap", "lost", "stacked"} \in SUBSET Tags
    BY DEF Tags
  <2>4. "stacked" \in Stacking(u, i) \/ Stacking(u, i) = {}
    BY DEF Stacking
  <2>5. Clean(u, {"overlap", "lost", "stacked"})' =>
          ({"restored"} \cup Stacking(u, i)) \cap {"overlap", "lost", "stacked"} = {}
    BY <1>2, <2>1, <2>2, <2>3, MarksKeep
  <2>6. \A v \in Users : Keeps(v)
    BY <1>2, <2>1, <2>2, MarksKeep
  <2>7. QED BY <2>4, <2>5, <2>6
<1>8. Acts(r, u)
  BY <1>1, <1>3, <1>4, <1>5, <1>6, <1>7 DEF Acts, Writer, Moves
<1>9. ASSUME Clean(u, {"overlap", "lost", "stacked"})'
      PROVE  /\ (\A j, k \in Live(u) : j = k)'
             /\ req'[r].at \in {"invalidate", "publish"} => Announced(r, u)'
  <2>1. Live(u) \subseteq {i}
    BY <1>7, <1>9 DEF Stacking
  <2>2. Live(u)' = {i}
    <3>1. i \in Live(u)'
      BY <1>4, <1>6 DEF Live, With, RowsOf
    <3>2. \A j \in Live(u)' : j # i => j \in Live(u)
      BY <1>6 DEF Live, With, RowsOf
    <3>3. QED BY <2>1, <3>1, <3>2
  <2>3. Announced(r, u)'
    BY <1>5, <1>6, <2>2 DEF Announced, Moves
  <2>4. QED BY <2>2, <2>3
<1>10. req'[r] # Idle /\ req'[r].at # "publish"
  BY <1>5 DEF Moves
<1>11. Rested' /\ \A v \in Users : Tracked(v)'
  BY <1>8, <1>9, <1>10, ActsTracked
<1>12. Onto'
  BY <1>5 DEF Onto, TInv, Moves
<1>13. QED BY <1>11, <1>12

\* A row is created: unless it stacks, it is the one live row.
LEMMA CreateTracked ==
  ASSUME TInv, NEW r \in Requests, CreateBought(r) \/ CreateTrial(r)
  PROVE  Onto' /\ Rested' /\ \A v \in Users : Tracked(v)'
<1> DEFINE n == Len(rows) + 1
<1>1. /\ req[r] # Idle /\ req[r].at = "create" /\ req[r].op \in {"replace", "trial"}
      /\ UNCHANGED <<now, cache, worker, view>>
  BY IdleAt DEF CreateBought, CreateTrial
<1>2. TypeOK /\ Holds /\ Graced
  BY DEF TInv, IInv
<1>3. PICK u \in Users : u = req[r].user
  BY <1>1, <1>2, ReqFields
<1>4. req[r].tier \in Levels /\ req[r].till \in Nat /\ TrialTier \in Levels
  BY <1>1, <1>2, ReqFields DEF Levels
<1>5. PICK level \in Levels, days \in Nat, k \in {"trial", "bought"} :
        Create(u, level, days, k) /\ Announces(r, level) /\ Marks(u, Stacking(u, 0))
  <2>1. \A days \in TrialDays : now + days \in Nat
    BY <1>2, TimeAssumption DEF TypeOK
  <2>2. QED BY <1>3, <1>4, <2>1 DEF CreateBought, CreateTrial
<1>6. Moves(r, "invalidate", req[r].op, u, 0, level, 0)
  BY <1>1, <1>2, <1>3, <1>5, AnnouncesMoves
<1>7. /\ DOMAIN rows' = DOMAIN rows \cup {n}
      /\ \A i \in DOMAIN rows : rows'[i] = rows[i]
      /\ rows'[n].user = u
  BY <1>2, <1>5, CreateRow
<1>8. rows'[n].sub_type = level /\ rows'[n].status = "active"
  BY <1>2, <1>5, AppendProperties DEF Create, TypeOK
<1> HIDE DEF n
<1>9. /\ \A v \in Users : Keeps(v)
      /\ Clean(u, {"overlap", "lost", "stacked"})' => Live(u) \subseteq {0}
  <2>1. Stacking(u, 0) \in SUBSET Tags
    BY DEF Stacking, Tags
  <2>2. {"overlap", "lost", "stacked"} \in SUBSET Tags
    BY DEF Tags
  <2>3. "stacked" \in Stacking(u, 0) \/ Live(u) \subseteq {0}
    BY DEF Stacking
  <2>4. Clean(u, {"overlap", "lost", "stacked"})' =>
          Stacking(u, 0) \cap {"overlap", "lost", "stacked"} = {}
    BY <1>2, <1>5, <2>1, <2>2, MarksKeep
  <2>5. \A v \in Users : Keeps(v)
    BY <1>2, <1>5, <2>1, MarksKeep
  <2>6. QED BY <2>3, <2>4, <2>5
<1>10. Acts(r, u)
  BY <1>1, <1>3, <1>6, <1>7, <1>9 DEF Acts, Writer, Moves
<1>11. ASSUME Clean(u, {"overlap", "lost", "stacked"})'
       PROVE  /\ (\A i, j \in Live(u) : i = j)'
              /\ req'[r].at \in {"invalidate", "publish"} => Announced(r, u)'
  <2>1. Live(u) = {}
    <3>1. 0 \notin Live(u)
      BY <1>2, RowFields DEF Live, With, RowsOf
    <3>2. QED BY <1>9, <1>11, <3>1
  <2>2. Live(u)' = {n}
    <3>1. n \in Live(u)'
      BY <1>7, <1>8 DEF Live, With, RowsOf
    <3>2. \A j \in Live(u)' : j # n => j \in Live(u)
      BY <1>7 DEF Live, With, RowsOf
    <3>3. QED BY <2>1, <3>1, <3>2
  <2>3. Announced(r, u)'
    BY <1>1, <1>6, <1>8, <2>2 DEF Announced, Moves
  <2>4. QED BY <2>2, <2>3
<1>12. req'[r] # Idle /\ req'[r].at # "publish"
  BY <1>6 DEF Moves
<1>13. Rested' /\ \A v \in Users : Tracked(v)'
  BY <1>10, <1>11, <1>12, ActsTracked
<1>14. Onto'
  BY <1>1, <1>6 DEF Onto, TInv, Moves
<1>15. QED BY <1>13, <1>14

-------------------------------------------------------------------------------
(* The tier and the cache: the other awaits.                                 *)

\* The active row is one of the live ones.
LEMMA ActiveIsLive ==
  ASSUME NEW u \in Users, NEW i \in ActiveRow(u)
  PROVE  i \in Live(u) /\ i \in RowsOf(u) /\ i \in DOMAIN rows
BY DEF ActiveRow, Latest, Live, With, RowsOf

\* A trial that is in place is announced again with its own sub_type.
LEMMA FindTracked ==
  ASSUME TInv, NEW r \in Requests, FindForTrial(r)
  PROVE  Onto' /\ Rested' /\ \A v \in Users : Tracked(v)'
<1>1. /\ req[r] # Idle /\ req[r].at = "find" /\ req[r].op = "trial"
      /\ UNCHANGED <<rows, now, cache, worker, view, history>>
  BY IdleAt DEF FindForTrial, TInv, Onto
<1>2. TypeOK /\ Holds
  BY DEF TInv, IInv
<1>3. PICK u \in Users : u = req[r].user
  BY <1>1, <1>2, ReqFields
<1>4. /\ RowsOf(u)' = RowsOf(u) /\ \A j \in RowsOf(u) : rows'[j] = rows[j]
      /\ view'[u] = view[u] /\ cache'[u] = cache[u]
  BY <1>1 DEF RowsOf
<1>5. /\ Live(u)' = Live(u)
      /\ Agrees(u)' <=> Agrees(u)
      /\ Fresh(u)' <=> Fresh(u)
  BY <1>4, SameRows, SameAgrees, SameFresh
<1>6. Writer(r, u)
  BY <1>1, <1>3 DEF Writer
<1>7. CASE Goes(r, "create")
  <2>1. Moves(r, "create", "trial", u, 0, req[r].tier, req[r].till)
    BY <1>1, <1>2, <1>3, <1>7, GoesMoves DEF Steps
  <2>2. Acts(r, u)
    BY <1>1, <1>3, <1>6, <2>1, Unmarked DEF Acts, Writer, Moves
  <2>3. req'[r] # Idle /\ req'[r].at \notin {"invalidate", "publish"}
    BY <2>1 DEF Moves
  <2>4. Tiered(u) => (\A j, k \in Live(u) : j = k)'
    BY <1>5 DEF Tiered
  <2>5. Rested' /\ \A v \in Users : Tracked(v)'
    BY <2>2, <2>3, <2>4, ActsTracked
  <2>6. Onto'
    BY <2>1 DEF Onto, TInv, Moves
  <2>7. QED BY <2>5, <2>6
<1>8. ASSUME NEW i \in ActiveRow(u), Announces(r, rows[i].sub_type)
      PROVE  Onto' /\ Rested' /\ \A v \in Users : Tracked(v)'
  <2>1. i \in Live(u) /\ i \in DOMAIN rows /\ rows[i].sub_type \in Levels
    BY <1>2, <1>8, ActiveIsLive, RowFields
  <2>2. Moves(r, "invalidate", "trial", u, 0, rows[i].sub_type, 0)
    BY <1>1, <1>2, <1>3, <1>8, <2>1, AnnouncesMoves
  <2>3. Acts(r, u)
    BY <1>1, <1>3, <1>6, <2>2, Unmarked DEF Acts, Writer, Moves
  <2>4. req'[r] # Idle /\ req'[r].at # "publish"
    BY <2>2 DEF Moves
  <2>5. Tiered(u) => (\A j, k \in Live(u) : j = k)'
    BY <1>5 DEF Tiered
  <2>6. Tiered(u) => Announced(r, u)'
    <3>1. Tiered(u) => Live(u) = {i}
      BY <2>1 DEF Tiered
    <3>2. req'[r].op = "trial" /\ req'[r].tier = rows[i].sub_type
      BY <2>2 DEF Moves
    <3>3. QED BY <1>1, <1>5, <3>1, <3>2 DEF Announced
  <2>7. Rested' /\ \A v \in Users : Tracked(v)'
    BY <2>3, <2>4, <2>5, <2>6, ActsTracked
  <2>8. Onto'
    BY <2>2 DEF Onto, TInv, Moves
  <2>9. QED BY <2>7, <2>8
<1>9. CASE Ends(r)
  <2>1. req'[r] = Idle /\ \A q \in Requests \ {r} : req'[q] = req[q]
    BY <1>2, <1>9, EndsMoves
  <2>2. Acts(r, u)
    BY <1>1, <1>3, <1>6, <2>1, Unmarked DEF Acts
  <2>3. req'[r].at \notin {"invalidate", "publish"}
    BY <2>1, IdleAt
  <2>4. Tiered(u) => (\A j, k \in Live(u) : j = k)' /\ Agrees(u)'
    BY <1>1, <1>5, <1>6 DEF Tiered
  <2>5. Cached(u) => Fresh(u)'
    BY <1>1, <1>5, <1>6 DEF Cached
  <2>6. Rested' /\ \A v \in Users : Tracked(v)'
    BY <2>2, <2>3, <2>4, <2>5, ActsTracked
  <2>7. Onto'
    BY <2>1 DEF Onto, TInv
  <2>8. QED BY <2>6, <2>7
<1>10. QED BY <1>3, <1>7, <1>8, <1>9 DEF FindForTrial

\* A mark that loses a step leaves nothing to show of the tiers and the cache.
LEMMA LostMark ==
  ASSUME TypeOK, NEW u \in Users, Marks(u, {"lost"})
  PROVE  /\ \A v \in Users : Keeps(v)
         /\ ~Clean(u, {"overlap", "lost", "stacked"})'
         /\ ~Clean(u, {"overlap", "crossed", "lost"})'
<1>1. /\ {"lost"} \in SUBSET Tags
      /\ {"overlap", "lost", "stacked"} \in SUBSET Tags
      /\ {"overlap", "crossed", "lost"} \in SUBSET Tags
  BY DEF Tags
<1>2. /\ \A v \in Users : Keeps(v)
      /\ \A S \in SUBSET Tags : "overlap" \in S /\ Clean(u, S)' => {"lost"} \cap S = {}
  BY <1>1, MarksKeep
<1>3. QED BY <1>1, <1>2

\* The key is deleted, or the step is lost.
LEMMA InvalidateTracked ==
  ASSUME TInv, NEW r \in Requests, Invalidate(r)
  PROVE  Onto' /\ Rested' /\ \A v \in Users : Tracked(v)'
<1>1. /\ req[r] # Idle /\ req[r].at = "invalidate" /\ req[r].op # "check"
      /\ UNCHANGED <<rows, now, worker, view>>
  <2>1. req[r] # Idle /\ req[r].at = "invalidate"
    BY IdleAt DEF Invalidate
  <2>2. QED BY <2>1 DEF Invalidate, TInv, Onto
<1>2. TypeOK /\ Holds
  BY DEF TInv, IInv
<1>3. PICK u \in Users : u = req[r].user
  BY <1>1, <1>2, ReqFields
<1>4. Moves(r, "publish", req[r].op, u, 0, req[r].tier, req[r].till)
  BY <1>1, <1>2, <1>3, GoesMoves DEF Steps, Invalidate
<1>5. /\ RowsOf(u)' = RowsOf(u) /\ \A j \in RowsOf(u) : rows'[j] = rows[j]
      /\ view'[u] = view[u]
  BY <1>1 DEF RowsOf
<1>6. /\ Live(u)' = Live(u)
      /\ Agrees(u)' <=> Agrees(u)
  BY <1>5, SameRows, SameAgrees
<1>7. \/ cache' = [cache EXCEPT ![u] = 0] /\ UNCHANGED history
      \/ UNCHANGED cache /\ Marks(u, {"lost"})
  BY <1>3 DEF Invalidate
<1>8. /\ \A v \in Users : Keeps(v)
      /\ \A v \in Users \ {u} : cache'[v] = cache[v]
      /\ Clean(u, {"overlap", "crossed", "lost"})' => cache'[u] = 0
  BY <1>2, <1>7, Unmarked, LostMark DEF TypeOK
<1>9. Acts(r, u)
  BY <1>1, <1>3, <1>4, <1>8 DEF Acts, Writer, Moves
<1>10. Tiered(u) => (\A j, k \in Live(u) : j = k)' /\ Announced(r, u)'
  <2>1. Tiered(u) => Announced(r, u)
    BY <1>1, <1>3 DEF Tiered, Writer
  <2>2. req'[r].op = req[r].op /\ req'[r].tier = req[r].tier
    BY <1>4 DEF Moves
  <2>3. Announced(r, u) => Announced(r, u)'
    BY <1>1, <1>6, <2>2 DEF Announced
  <2>4. Tiered(u) => (\A j, k \in Live(u) : j = k)'
    BY <1>6 DEF Tiered
  <2>5. QED BY <2>1, <2>3, <2>4
<1>11. req'[r] # Idle
  BY <1>4 DEF Moves
<1>12. Rested' /\ \A v \in Users : Tracked(v)'
  BY <1>8, <1>9, <1>10, <1>11, ActsTracked
<1>13. Onto'
  BY <1>1, <1>4 DEF Onto, TInv, Moves
<1>14. QED BY <1>12, <1>13

\* What is published makes the JWT agree with the rows again, or is lost.
LEMMA PublishTracked ==
  ASSUME TInv, NEW r \in Requests, Publish(r)
  PROVE  Onto' /\ Rested' /\ \A v \in Users : Tracked(v)'
<1>1. /\ req[r] # Idle /\ req[r].at = "publish" /\ req[r].op # "check"
      /\ UNCHANGED <<rows, now, cache, worker>> /\ Ends(r)
  <2>1. req[r] # Idle /\ req[r].at = "publish"
    BY IdleAt DEF Publish
  <2>2. QED BY <2>1 DEF Publish, TInv, Onto
<1>2. TypeOK /\ Holds
  BY DEF TInv, IInv
<1>3. PICK u \in Users : u = req[r].user
  BY <1>1, <1>2, ReqFields
<1>4. req'[r] = Idle /\ \A q \in Requests \ {r} : req'[q] = req[q]
  BY <1>1, <1>2, EndsMoves
<1>5. /\ RowsOf(u)' = RowsOf(u) /\ \A j \in RowsOf(u) : rows'[j] = rows[j]
      /\ cache'[u] = cache[u]
  BY <1>1 DEF RowsOf
<1>6. /\ Live(u)' = Live(u) /\ \A S : With(u, S)' = With(u, S)
      /\ Fresh(u)' <=> Fresh(u)
  BY <1>5, SameRows, SameFresh
<1>7. \/ /\ req[r].op = "cancel" /\ UNCHANGED <<view, history>>
      \/ /\ req[r].op = "remove" /\ Sees(u, 0) /\ UNCHANGED history
      \/ /\ req[r].op \notin {"cancel", "remove"} /\ Sees(u, req[r].tier) /\ UNCHANGED history
      \/ UNCHANGED view /\ Marks(u, {"lost"})
  BY <1>3 DEF Publish
<1>8. /\ \A v \in Users : Keeps(v)
      /\ \A v \in Users \ {u} : view'[v] = view[v]
  <2>1. \A v \in Users : Keeps(v)
    BY <1>2, <1>7, Unmarked, LostMark
  <2>2. QED BY <2>1, <1>2, <1>7 DEF Sees, TypeOK
<1>9. Acts(r, u)
  BY <1>1, <1>3, <1>4, <1>8 DEF Acts, Writer
<1>10. ASSUME Tiered(u), Clean(u, {"overlap", "lost", "stacked"})'
       PROVE  (\A j, k \in Live(u) : j = k)' /\ Agrees(u)'
  <2>1. Announced(r, u)
    BY <1>1, <1>3, <1>10 DEF Tiered, Writer
  <2>2. CASE req[r].op = "cancel" /\ UNCHANGED view
    <3>1. Agrees(u)' <=> Agrees(u)
      BY <1>5, <2>2, SameAgrees
    <3>2. QED BY <1>6, <1>10, <2>1, <2>2, <3>1 DEF Announced, Tiered
  <2>3. CASE req[r].op = "remove" /\ Sees(u, 0)
    <3>1. view'[u] = 0 /\ Live(u)' = {}
      BY <1>2, <1>6, <2>1, <2>3 DEF Announced, Sees, TypeOK
    <3>2. QED BY <3>1 DEF Agrees
  <2>4. CASE req[r].op \notin {"cancel", "remove"} /\ Sees(u, req[r].tier)
    <3>1. view'[u] = req[r].tier
      BY <1>2, <2>4 DEF Sees, TypeOK
    <3>2. PICK i \in Live(u) : TRUE
      BY <2>1, <2>4 DEF Announced
    <3>3. i \in RowsOf(u) /\ i \notin With(u, {"terminated"})
      BY DEF Live, With
    <3>4. \A j \in Live(u) : rows'[j].sub_type = req[r].tier
      BY <1>1, <2>1, <2>4 DEF Announced
    <3>5. Agrees(u)'
      BY <1>5, <1>6, <3>1, <3>3, <3>4 DEF Agrees
    <3>6. QED BY <1>6, <1>10, <3>5 DEF Tiered
  <2>5. ~Marks(u, {"lost"})
    BY <1>2, <1>10, LostMark
  <2>6. QED BY <1>7, <2>2, <2>3, <2>4, <2>5
<1>11. Cached(u) => Fresh(u)'
  <2>1. Cached(u) => cache[u] = 0
    BY <1>1, <1>3 DEF Cached, Writer
  <2>2. QED BY <1>5, <2>1 DEF Fresh
<1>12. req'[r].at \notin {"invalidate", "publish"}
  BY <1>4, IdleAt
<1>13. Rested' /\ \A v \in Users : Tracked(v)'
  BY <1>9, <1>10, <1>11, <1>12, ActsTracked
<1>14. Onto'
  BY <1>4 DEF Onto, TInv
<1>15. QED BY <1>13, <1>14

\* A handler that dies is remembered as lost, if it was to write.
LEMMA ThrowTracked ==
  ASSUME TInv, NEW r \in Requests, Throw(r)
  PROVE  Onto' /\ Rested' /\ \A v \in Users : Tracked(v)'
<1>1. req[r] # Idle /\ UNCHANGED <<rows, now, cache, worker, view>> /\ Ends(r)
  BY IdleAt DEF Throw
<1>2. TypeOK /\ Holds
  BY DEF TInv, IInv
<1>3. PICK u \in Users : u = req[r].user
  BY <1>1, <1>2, ReqFields
<1>4. req'[r] = Idle /\ \A q \in Requests \ {r} : req'[q] = req[q]
  BY <1>1, <1>2, EndsMoves
<1>5. Onto'
  BY <1>4 DEF Onto, TInv
<1>6. CASE req[r].op = "check"
  <2>1. Reader(r, u) /\ UNCHANGED history
    BY <1>1, <1>3, <1>6 DEF Reader, Throw
  <2>2. QED BY <1>1, <1>4, <1>5, <2>1, ReaderTracked
<1>7. CASE req[r].op # "check"
  <2>1. Marks(u, {"lost"})
    BY <1>3, <1>7 DEF Throw
  <2>2. /\ \A v \in Users : Keeps(v)
        /\ ~Clean(u, {"overlap", "lost", "stacked"})'
        /\ ~Clean(u, {"overlap", "crossed", "lost"})'
    BY <1>2, <2>1, LostMark
  <2>3. Acts(r, u)
    BY <1>1, <1>3, <1>4, <1>7, <2>2 DEF Acts, Writer
  <2>4. QED BY <1>5, <2>2, <2>3, ActsTracked
<1>8. QED BY <1>6, <1>7

\* checkAccess reads the active row, and stores it while nobody writes.
LEMMA LoadTracked ==
  ASSUME TInv, NEW r \in Requests, Load(r) \/ Fill(r)
  PROVE  Onto' /\ Rested' /\ \A v \in Users : Tracked(v)'
<1>1. req[r] # Idle /\ req[r].at \in {"load", "fill"} /\ UNCHANGED <<rows, worker, view, history>>
  BY IdleAt DEF Load, Fill
<1>2. TypeOK /\ Holds /\ req[r].op = "check"
  BY <1>1 DEF TInv, IInv, Onto
<1>3. PICK u \in Users : u = req[r].user
  BY <1>1, <1>2, ReqFields
<1>4. Reader(r, u)
  BY <1>1, <1>2, <1>3 DEF Reader
<1>5. CASE Load(r) /\ Ends(r)
  <2>1. req'[r] = Idle /\ \A q \in Requests \ {r} : req'[q] = req[q]
    BY <1>2, <1>5, EndsMoves
  <2>2. UNCHANGED cache
    BY <1>5 DEF Load
  <2>3. Onto'
    BY <2>1 DEF Onto, TInv
  <2>4. QED BY <1>1, <1>4, <2>1, <2>2, <2>3, ReaderTracked
<1>6. ASSUME Load(r), NEW i \in ActiveRow(u), req' = [req EXCEPT ![r].at = "fill", ![r].row = i]
      PROVE  Onto' /\ Rested' /\ \A v \in Users : Tracked(v)'
  <2> DEFINE f == [req[r] EXCEPT !.at = "fill", !.row = i]
  <2>1. i \in Nat /\ req[r] \in Req
    BY <1>1, <1>2, ActiveIsLive, RowFields, ReqFields
  <2>2. /\ f \in Req
        /\ f.at = "fill" /\ f.op = req[r].op /\ f.user = u /\ f.row = i
    BY <1>3, <2>1 DEF Req, Steps
  <2>3. req' = [req EXCEPT ![r] = f]
    BY <1>2, <1>6 DEF TypeOK
  <2> HIDE DEF f
  <2>4. Moves(r, f.at, f.op, f.user, f.row, f.tier, f.till)
    BY <1>2, <2>2, <2>3, RecordMoves
  <2>5. /\ req'[r] # Idle /\ req'[r].at = "fill" /\ req'[r].op = "check"
        /\ req'[r].user = u /\ req'[r].row = i
        /\ \A q \in Requests \ {r} : req'[q] = req[q]
    BY <1>2, <2>2, <2>4 DEF Moves
  <2>6. Reader(r, u)' /\ req'[r].row \in ActiveRow(u)
    BY <2>5 DEF Reader
  <2>7. Onto'
    BY <2>5 DEF Onto, TInv
  <2>8. UNCHANGED cache
    BY <1>6 DEF Load
  <2>9. QED BY <1>1, <1>4, <2>5, <2>6, <2>7, <2>8, ReaderTracked
<1>7. CASE Fill(r)
  <2>1. req'[r] = Idle /\ \A q \in Requests \ {r} : req'[q] = req[q]
    BY <1>2, <1>7, EndsMoves DEF Fill
  <2>2. \/ UNCHANGED cache
        \/ /\ req[r].at = "fill" /\ cache'[u] = req[r].row
           /\ \A v \in Users \ {u} : cache'[v] = cache[v]
    BY <1>2, <1>3, <1>7 DEF Fill, TypeOK
  <2>3. Onto'
    BY <2>1 DEF Onto, TInv
  <2>4. QED BY <1>1, <1>4, <2>1, <2>2, <2>3, ReaderTracked
<1>8. QED BY <1>3, <1>5, <1>6, <1>7 DEF Load

\* Every later await.
LEMMA ContinuesTracked ==
  ASSUME TInv, NEW r \in Requests, Continues(r)
  PROVE  Onto' /\ Rested' /\ \A v \in Users : Tracked(v)'
BY LoadTracked, WriteTracked, RestoredTracked, FindTracked, CreateTracked, InvalidateTracked,
   PublishTracked, ThrowTracked DEF Continues

-------------------------------------------------------------------------------
(* The tier and the cache: the worker, the clock and the TTL.                *)

\* What a bulk update of the worker does to the marks.
LEMMA BulkMarks ==
  ASSUME TypeOK, NEW X, history' = [u \in Users |-> Adds(history[u], BulkClashes(u, X))]
  PROVE  \A u \in Users :
           /\ Keeps(u)
           /\ X \cap RowsOf(u) # {} /\ Clean(u, {"overlap"})' => \A r \in Requests : ~Writer(r, u)
           /\ X \cap RowsOf(u) # {} /\ Clean(u, {"overlap", "crossed", "lost"})' =>
                \A r \in Requests : ~Reader(r, u)
<1> SUFFICES ASSUME NEW u \in Users
             PROVE  /\ Keeps(u)
                    /\ X \cap RowsOf(u) # {} /\ Clean(u, {"overlap"})' =>
                         \A r \in Requests : ~Writer(r, u)
                    /\ X \cap RowsOf(u) # {} /\ Clean(u, {"overlap", "crossed", "lost"})' =>
                         \A r \in Requests : ~Reader(r, u)
  OBVIOUS
<1>1. history'[u] = Adds(history[u], BulkClashes(u, X)) /\ history[u] \subseteq Tags
  BY DEF TypeOK
<1>2. BulkClashes(u, X) \subseteq {"overlap", "crossed"}
  BY DEF BulkClashes
<1>3. Keeps(u)
  BY <1>1, <1>2 DEF Keeps, Clean, Adds, Tags
<1>4. Clean(u, {"overlap"})' => "overlap" \notin BulkClashes(u, X)
  BY <1>1 DEF Clean, Adds
<1>5. Clean(u, {"overlap", "crossed", "lost"})' => "crossed" \notin BulkClashes(u, X)
  BY <1>1 DEF Clean, Adds
<1>6. X \cap RowsOf(u) # {} /\ "overlap" \notin BulkClashes(u, X) => \A r \in Requests : ~Writer(r, u)
  BY DEF BulkClashes, Handling, Readers, Writer
<1>7. X \cap RowsOf(u) # {} /\ "crossed" \notin BulkClashes(u, X) => \A r \in Requests : ~Reader(r, u)
  BY DEF BulkClashes, Handling, Readers, Reader
<1>8. QED BY <1>3, <1>4, <1>5, <1>6, <1>7

\* A user none of whose rows the worker handles, before or after its step.
LEMMA Unlisted ==
  ASSUME TInv, NEW v \in Users, Listed(v) = {}, Listed(v)' = {}, Keeps(v),
         RowsOf(v)' = RowsOf(v), \A i \in RowsOf(v) : rows'[i] = rows[i],
         UNCHANGED req, cache'[v] = cache[v], view'[v] = view[v]
  PROVE  Tracked(v)'
<1>1. Elsewhere(v)
  BY DEF Elsewhere
<1>2. QED BY <1>1, ElsewhereTracked DEF TInv, IInv

\* Rows expire, or are terminated.
LEMMA BulkTracked ==
  ASSUME TInv, ExpireActive \/ TerminateExpired
  PROVE  Onto' /\ Rested' /\ \A v \in Users : Tracked(v)'
<1>0. TypeOK /\ Holds /\ Rested
  BY DEF TInv, IInv
<1>1. PICK X \in SUBSET DOMAIN rows :
        /\ history' = [u \in Users |-> Adds(history[u], BulkClashes(u, X))]
        /\ \/ /\ worker.at = "idle" /\ worker'.at = "expired"
              /\ \A i \in X : rows[i].status = "active"
              /\ BulkUpdate(X, LAMBDA x : [x EXCEPT !.status = "expired", !.grace = now + GraceDays])
           \/ /\ worker.at = "expired"
              /\ worker'.at = IF X = {} THEN "idle" ELSE "terminated"
              /\ \A i \in X : rows[i].status = "expired"
              /\ BulkUpdate(X, LAMBDA x : [x EXCEPT !.status = "terminated", !.sub_type = 0])
        /\ worker'.todo = X /\ worker'.row = 0
  <2>1. CASE ExpireActive
    BY <2>1 DEF ExpireActive
  <2>2. CASE TerminateExpired
    BY <2>2 DEF TerminateExpired
  <2>3. QED BY <2>1, <2>2
<1>2. worker.todo = {} /\ UNCHANGED <<now, cache, req, view>>
  BY <1>0 DEF ExpireActive, TerminateExpired, Rested
<1>3. Onto' /\ Rested'
  BY <1>1, <1>2 DEF Onto, TInv, Rested
<1>4. /\ DOMAIN rows' = DOMAIN rows
      /\ \A i \in DOMAIN rows \ X : rows'[i] = rows[i]
      /\ \A i \in X : /\ rows'[i].user = rows[i].user
                      /\ worker.at = "idle" => /\ rows'[i].status = "expired"
                                               /\ rows'[i].sub_type = rows[i].sub_type
                      /\ worker.at # "idle" => rows'[i].status = "terminated"
  <2>1. \A i \in DOMAIN rows : rows[i] \in Row
    BY <1>0, RowFields
  <2>2. DOMAIN rows' = DOMAIN rows /\ \A i \in DOMAIN rows \ X : rows'[i] = rows[i]
    BY <1>1 DEF BulkUpdate
  <2>3. CASE worker.at = "idle"
    <3>1. BulkUpdate(X, LAMBDA x : [x EXCEPT !.status = "expired", !.grace = now + GraceDays])
      BY <1>1, <2>3
    <3>2. \A i \in X : rows'[i] = [rows[i] EXCEPT !.status = "expired", !.grace = now + GraceDays]
      BY <3>1 DEF BulkUpdate
    <3>3. ASSUME NEW i \in X
          PROVE  /\ rows'[i].user = rows[i].user /\ rows'[i].status = "expired"
                 /\ rows'[i].sub_type = rows[i].sub_type
      <4>1. rows[i] \in Row
        BY <1>1, <2>1
      <4>2. rows'[i] = [rows[i] EXCEPT !.status = "expired", !.grace = now + GraceDays]
        BY <3>2
      <4>3. QED BY <4>1, <4>2 DEF Row
    <3>4. QED BY <2>2, <2>3, <3>3
  <2>4. CASE worker.at # "idle"
    <3>1. BulkUpdate(X, LAMBDA x : [x EXCEPT !.status = "terminated", !.sub_type = 0])
      BY <1>1, <2>4
    <3>2. \A i \in X : rows'[i] = [rows[i] EXCEPT !.status = "terminated", !.sub_type = 0]
      BY <3>1 DEF BulkUpdate
    <3>3. ASSUME NEW i \in X
          PROVE  rows'[i].user = rows[i].user /\ rows'[i].status = "terminated"
      <4>1. rows[i] \in Row
        BY <1>1, <2>1
      <4>2. rows'[i] = [rows[i] EXCEPT !.status = "terminated", !.sub_type = 0]
        BY <3>2
      <4>3. QED BY <4>1, <4>2 DEF Row
    <3>4. QED BY <2>2, <2>4, <3>3
  <2>5. QED BY <2>3, <2>4
<1>5. ASSUME NEW v \in Users PROVE Tracked(v)'
  <2>1. /\ RowsOf(v)' = RowsOf(v)
        /\ Listed(v) = {} /\ Listed(v)' = X \cap RowsOf(v)
    <3>1. \A i \in DOMAIN rows : rows'[i].user = rows[i].user
      BY <1>4
    <3>2. QED BY <1>1, <1>2, <1>4, <3>1 DEF RowsOf, Listed
  <2>2. /\ Keeps(v)
        /\ X \cap RowsOf(v) # {} /\ Clean(v, {"overlap"})' => \A r \in Requests : ~Writer(r, v)
        /\ X \cap RowsOf(v) # {} /\ Clean(v, {"overlap", "crossed", "lost"})' =>
             \A r \in Requests : ~Reader(r, v)
    BY <1>0, <1>1, BulkMarks
  <2>3. CASE X \cap RowsOf(v) = {}
    <3>1. \A i \in RowsOf(v) : rows'[i] = rows[i]
      BY <1>4, <2>3 DEF RowsOf
    <3>2. QED BY <1>2, <2>1, <2>2, <2>3, <3>1, Unlisted
  <2>4. CASE X \cap RowsOf(v) # {}
    <3>1. \A r \in Requests : (Writer(r, v)' <=> Writer(r, v)) /\ (Reader(r, v)' <=> Reader(r, v))
      BY <1>2 DEF Writer, Reader
    <3>2. Clean(v, {"overlap"})' => Sole(v)'
      BY <2>2, <2>4, <3>1 DEF Sole
    <3>3. /\ Clean(v, {"overlap", "lost", "stacked"})' => Clean(v, {"overlap"})'
          /\ Clean(v, {"overlap", "crossed", "lost"})' => Clean(v, {"overlap"})'
      BY DEF Clean
    <3>4. Clean(v, {"overlap", "crossed", "lost"})' => Cached(v)'
      BY <1>1, <2>1, <2>2, <2>4, <3>1, <3>3 DEF Cached
    <3>5. Clean(v, {"overlap", "lost", "stacked"})' => Tiered(v)'
      <4> SUFFICES ASSUME Clean(v, {"overlap", "lost", "stacked"})' PROVE Tiered(v)'
        OBVIOUS
      <4>1. Tiered(v)
        BY <2>2, TagSets DEF TInv, Tracked
      <4>2. \A r \in Requests : ~Writer(r, v)
        BY <2>2, <2>4, <3>3
      <4>3. Agrees(v)
        BY <2>1, <4>1, <4>2 DEF Tiered
      <4>4. CASE worker.at = "idle"
        <5>1. \A i \in RowsOf(v) :
                /\ rows'[i].status \in {"active", "expired"} <=> rows[i].status \in {"active", "expired"}
                /\ rows'[i].status = "terminated" <=> rows[i].status = "terminated"
                /\ rows'[i].sub_type = rows[i].sub_type
          BY <1>1, <1>4, <4>4 DEF RowsOf
        <5>2. Live(v)' = Live(v) /\ With(v, {"terminated"})' = With(v, {"terminated"})
          BY <2>1, <5>1 DEF Live, With
        <5>3. \A i \in Live(v) : rows'[i].sub_type = rows[i].sub_type
          BY <5>1 DEF Live, With
        <5>4. Agrees(v)'
          BY <1>2, <2>1, <4>3, <5>2, <5>3 DEF Agrees
        <5>5. worker'.at # "terminated"
          BY <1>1, <4>4
        <5>6. (\A i, j \in Live(v) : i = j)'
          BY <4>1, <5>2 DEF Tiered
        <5>7. QED BY <3>1, <4>2, <5>4, <5>5, <5>6 DEF Tiered
      <4>5. CASE worker.at # "idle"
        <5>1. PICK i \in X \cap RowsOf(v) : TRUE
          BY <2>4
        <5>2. i \in Live(v)
          BY <1>1, <4>5 DEF Live, With
        <5>3. ASSUME NEW j \in Live(v)' PROVE FALSE
          <6>1. j \in RowsOf(v) /\ rows'[j].status \in {"active", "expired"}
            BY <2>1, <5>3 DEF Live, With
          <6>2. j \notin X
            BY <1>4, <4>5, <6>1
          <6>3. rows'[j] = rows[j]
            BY <1>4, <6>1, <6>2 DEF RowsOf
          <6>4. j \in Live(v)
            BY <6>1, <6>3 DEF Live, With
          <6>5. i = j
            BY <4>1, <5>2, <6>4 DEF Tiered
          <6>6. QED BY <6>2, <6>5
        <5>4. Live(v)' = {}
          BY <5>3
        <5>5. worker'.at = "terminated" /\ Listed(v)' # {}
          BY <1>1, <2>1, <2>4, <4>5
        <5>6. QED BY <3>1, <4>2, <5>4, <5>5 DEF Tiered
      <4>6. QED BY <4>4, <4>5
    <3>6. QED BY <3>2, <3>4, <3>5 DEF Tracked
  <2>5. QED BY <2>3, <2>4
<1>6. QED BY <1>3, <1>5

\* The worker takes up a row.
LEMMA WorkerInvalidatesTracked ==
  ASSUME TInv, NEW i \in DOMAIN rows, WorkerInvalidates(i)
  PROVE  Onto' /\ Rested' /\ \A v \in Users : Tracked(v)'
<1>0. TypeOK /\ Holds /\ Rested
  BY DEF TInv, IInv
<1>1. PICK u \in Users : u = rows[i].user
  BY <1>0, RowFields
<1>2. /\ i \in worker.todo /\ worker.row = 0
      /\ worker'.at = worker.at /\ worker'.todo = worker.todo /\ worker'.row = i
      /\ UNCHANGED <<rows, now, req, view>>
  BY <1>0 DEF WorkerInvalidates, TypeOK, Worker
<1>3. \/ cache' = [cache EXCEPT ![u] = 0] /\ UNCHANGED history
      \/ UNCHANGED cache /\ Marks(u, {"lost"})
  BY <1>1 DEF WorkerInvalidates
<1>4. /\ \A v \in Users : Keeps(v)
      /\ \A v \in Users \ {u} : cache'[v] = cache[v]
      /\ Clean(u, {"overlap", "crossed", "lost"})' => cache'[u] = 0
  BY <1>0, <1>3, Unmarked, LostMark DEF TypeOK
<1>5. Onto' /\ Rested'
  BY <1>0, <1>2 DEF Onto, TInv, Rested
<1>6. \A v \in Users : Listed(v)' = Listed(v) /\ RowsOf(v)' = RowsOf(v)
  BY <1>2 DEF Listed, RowsOf
<1>7. ASSUME NEW v \in Users \ {u} PROVE Tracked(v)'
  <2>1. i \notin Listed(v) /\ 0 \notin Listed(v)
    BY <1>0, <1>1, RowFields DEF Listed, Holds
  <2>2. Elsewhere(v)
    BY <1>2, <1>4, <1>6, <2>1 DEF Elsewhere
  <2>3. QED BY <1>0, <2>2, ElsewhereTracked DEF TInv
<1>8. Tracked(u)'
  <2>1. /\ Live(u)' = Live(u) /\ ActiveRow(u)' = ActiveRow(u)
        /\ Agrees(u)' <=> Agrees(u)
    BY <1>2, <1>6, SameRows, SameAgrees
  <2>2. \A r \in Requests : /\ Writer(r, u)' <=> Writer(r, u)
                            /\ Reader(r, u)' <=> Reader(r, u)
    BY <1>2 DEF Writer, Reader
  <2>3. Sole(u) => Sole(u)'
    BY <1>2, <1>6, <2>2 DEF Sole
  <2>4. Tiered(u) => Tiered(u)'
    <3>1. \A r \in Requests : Announced(r, u)' <=> Announced(r, u)
      BY <1>2, <2>1 DEF Announced
    <3>2. QED BY <1>2, <1>6, <2>1, <2>2, <3>1 DEF Tiered
  <2>5. Cached(u) /\ cache'[u] = 0 => Cached(u)'
    <3>1. cache'[u] = 0 => Fresh(u)'
      BY DEF Fresh
    <3>2. QED BY <1>2, <1>6, <2>1, <2>2, <3>1 DEF Cached
  <2>6. QED BY <1>4, <2>3, <2>4, <2>5, TagSets DEF TInv, Tracked
<1>9. QED BY <1>5, <1>7, <1>8

\* The worker is done with a row.
LEMMA WorkerPublishesTracked ==
  ASSUME TInv, WorkerPublishes
  PROVE  Onto' /\ Rested' /\ \A v \in Users : Tracked(v)'
<1> DEFINE i == worker.row
<1>0. TypeOK /\ Holds /\ Rested
  BY DEF TInv, IInv
<1>1. i # 0 /\ i \in worker.todo /\ i \in DOMAIN rows
  BY <1>0 DEF WorkerPublishes, Holds
<1>2. PICK u \in Users : u = rows[i].user
  BY <1>0, <1>1, RowFields
<1>3. /\ worker.at \in {"expired", "terminated"}
      /\ worker'.at = IF worker.at = "terminated" /\ worker.todo = {i} THEN "idle" ELSE worker.at
      /\ worker'.todo = worker.todo \ {i} /\ worker'.row = 0
      /\ UNCHANGED <<rows, now, cache, req>>
  BY <1>0, <1>1 DEF WorkerPublishes, TypeOK, Worker, WorkerSteps, Rested
<1>4. \/ worker.at = "terminated" /\ Sees(u, 0) /\ UNCHANGED history
      \/ worker.at # "terminated" /\ UNCHANGED <<view, history>>
      \/ UNCHANGED view /\ Marks(u, {"lost"})
  BY <1>2 DEF WorkerPublishes
<1>5. /\ \A v \in Users : Keeps(v)
      /\ \A v \in Users \ {u} : view'[v] = view[v]
  BY <1>0, <1>4, Unmarked, LostMark DEF TypeOK, Sees
<1>6. Onto' /\ Rested'
  BY <1>3 DEF Onto, TInv, Rested
<1>7. /\ \A v \in Users : RowsOf(v)' = RowsOf(v)
      /\ \A v \in Users \ {u} : Listed(v)' = Listed(v)
      /\ i \in Listed(u)
  BY <1>1, <1>2, <1>3 DEF Listed, RowsOf
<1>8. ASSUME NEW v \in Users \ {u} PROVE Tracked(v)'
  <2>1. i \notin Listed(v) /\ 0 \notin Listed(v)
    BY <1>0, <1>2, RowFields DEF Listed, Holds
  <2>2. Listed(v) # {} => worker'.at = worker.at
    BY <1>3, <2>1 DEF Listed
  <2>3. Elsewhere(v)
    BY <1>3, <1>5, <1>7, <2>1, <2>2 DEF Elsewhere
  <2>4. QED BY <1>0, <2>3, ElsewhereTracked DEF TInv
<1>9. Tracked(u)'
  <2>1. /\ Live(u)' = Live(u) /\ ActiveRow(u)' = ActiveRow(u)
        /\ Fresh(u)' <=> Fresh(u)
        /\ view'[u] = view[u] => (Agrees(u)' <=> Agrees(u))
    BY <1>3, <1>7, SameRows, SameFresh, SameAgrees
  <2>2. \A r \in Requests : /\ Writer(r, u)' <=> Writer(r, u)
                            /\ Reader(r, u)' <=> Reader(r, u)
    BY <1>3 DEF Writer, Reader
  <2>3. Listed(u) # {}
    BY <1>7
  <2>4. Sole(u) => Sole(u)' /\ \A r \in Requests : ~Writer(r, u)
    BY <2>2, <2>3 DEF Sole
  <2>5. ASSUME Sole(u), Tiered(u), Clean(u, {"overlap", "lost", "stacked"})'
        PROVE  Tiered(u)'
    <3>1. \A r \in Requests : ~Writer(r, u)'
      BY <2>2, <2>4, <2>5
    <3>2. CASE worker.at = "terminated" /\ Sees(u, 0)
      <4>1. Live(u) = {}
        BY <2>3, <2>5, <3>2 DEF Tiered
      <4>2. view'[u] = 0
        BY <1>0, <3>2 DEF Sees, TypeOK
      <4>3. Agrees(u)'
        BY <2>1, <4>1, <4>2 DEF Agrees
      <4>4. QED BY <2>1, <3>1, <4>1, <4>3 DEF Tiered
    <3>3. CASE worker.at # "terminated" /\ UNCHANGED view
      <4>1. Agrees(u)
        BY <2>4, <2>5, <3>3 DEF Tiered
      <4>2. Agrees(u)' /\ worker'.at # "terminated"
        BY <1>3, <2>1, <3>3, <4>1
      <4>3. (\A j, k \in Live(u) : j = k)'
        BY <2>1, <2>5 DEF Tiered
      <4>4. QED BY <3>1, <4>2, <4>3 DEF Tiered
    <3>4. ~Marks(u, {"lost"})
      BY <1>0, <2>5, LostMark
    <3>5. QED BY <1>4, <3>2, <3>3, <3>4
  <2>6. ASSUME Sole(u), Cached(u)
        PROVE  Cached(u)'
    <3>1. cache[u] = 0
      BY <1>1, <1>7, <2>6 DEF Cached
    <3>2. Fresh(u)'
      BY <2>1, <3>1 DEF Fresh
    <3>3. \A r \in Requests : ~Writer(r, u)' /\ ~Reader(r, u)'
      BY <2>2, <2>3, <2>4, <2>6 DEF Cached
    <3>4. QED BY <1>3, <3>2, <3>3 DEF Cached
  <2>7. /\ Clean(u, {"overlap", "lost", "stacked"}) => Clean(u, {"overlap"})
        /\ Clean(u, {"overlap", "crossed", "lost"}) => Clean(u, {"overlap"})
    BY DEF Clean
  <2>8. QED BY <1>5, <2>4, <2>5, <2>6, <2>7, TagSets DEF TInv, Tracked
<1>10. QED BY <1>6, <1>8, <1>9

\* The process dies, or terminateExpired is rejected.
LEMMA WorkerStopsTracked ==
  ASSUME TInv, WorkerThrow \/ WorkerCrash
  PROVE  Onto' /\ Rested' /\ \A v \in Users : Tracked(v)'
<1>0. TypeOK /\ Holds
  BY DEF TInv, IInv
<1>1. worker'.todo = {} /\ UNCHANGED <<rows, now, cache, req, view>>
  <2>1. CASE WorkerThrow
    BY <1>0, <2>1 DEF WorkerThrow, TypeOK, Worker
  <2>2. CASE WorkerCrash
    BY <2>2 DEF WorkerCrash
  <2>3. QED BY <2>1, <2>2
<1>2. Onto' /\ Rested'
  BY <1>1 DEF Onto, TInv, Rested
<1>3. \A v \in Users : Listed(v)' = {} /\ RowsOf(v)' = RowsOf(v)
  BY <1>1 DEF Listed, RowsOf
<1>4. ASSUME NEW v \in Users
      PROVE  /\ Keeps(v)
             /\ Listed(v) # {} => /\ ~Clean(v, {"overlap", "lost", "stacked"})'
                                  /\ ~Clean(v, {"overlap", "crossed", "lost"})'
  <2>1. CASE WorkerThrow
    <3>1. UNCHANGED history /\ Listed(v) = {}
      BY <2>1 DEF WorkerThrow, Listed
    <3>2. QED BY <3>1, Unmarked
  <2>2. CASE WorkerCrash
    <3>1. Listed(v) = worker.todo \cap RowsOf(v)
      BY <1>0 DEF Listed, RowsOf, Holds
    <3>2. /\ history'[v] = Adds(history[v], IF Listed(v) = {} THEN {} ELSE {"lost"})
          /\ history[v] \subseteq Tags
      BY <1>0, <2>2, <3>1 DEF WorkerCrash, TypeOK
    <3>3. Keeps(v)
      BY <3>2 DEF Keeps, Clean, Adds, Tags
    <3>4. Listed(v) # {} => /\ ~Clean(v, {"overlap", "lost", "stacked"})'
                            /\ ~Clean(v, {"overlap", "crossed", "lost"})'
      BY <3>2 DEF Clean, Adds
    <3>5. QED BY <3>3, <3>4
  <2>3. QED BY <2>1, <2>2
<1>5. ASSUME NEW v \in Users PROVE Tracked(v)'
  <2>1. CASE Listed(v) = {}
    BY <1>1, <1>3, <1>4, <2>1, Unlisted
  <2>2. CASE Listed(v) # {}
    <3>1. \A r \in Requests : Writer(r, v)' <=> Writer(r, v)
      BY <1>1 DEF Writer
    <3>2. Sole(v) => Sole(v)'
      BY <1>1, <1>3, <3>1 DEF Sole
    <3>3. QED BY <1>4, <2>2, <3>2, TagSets DEF TInv, Tracked
  <2>3. QED BY <2>1, <2>2
<1>6. QED BY <1>2, <1>5

\* A day begins, or a key expires.
LEMMA TimeTracked ==
  ASSUME TInv, NextDay \/ \E u \in Users : CacheExpires(u)
  PROVE  Onto' /\ Rested' /\ \A v \in Users : Tracked(v)'
<1>0. TypeOK /\ Holds
  BY DEF TInv, IInv
<1>1. UNCHANGED <<rows, req, worker, view, history>>
  BY DEF NextDay, CacheExpires
<1>2. Onto' /\ Rested'
  BY <1>1 DEF Onto, TInv, Rested
<1>3. /\ \A v \in Users : Keeps(v) /\ Listed(v)' = Listed(v) /\ RowsOf(v)' = RowsOf(v)
      /\ \A v \in Users : cache'[v] = cache[v] \/ cache'[v] = 0
  BY <1>0, <1>1, Unmarked DEF Listed, RowsOf, NextDay, CacheExpires, TypeOK
<1>4. ASSUME NEW v \in Users PROVE Tracked(v)'
  <2>1. CASE cache'[v] = cache[v]
    <3>1. Elsewhere(v)
      BY <1>1, <1>3, <2>1 DEF Elsewhere
    <3>2. QED BY <1>0, <3>1, ElsewhereTracked DEF TInv
  <2>2. CASE cache'[v] = 0
    <3>1. /\ Live(v)' = Live(v) /\ ActiveRow(v)' = ActiveRow(v)
          /\ Agrees(v)' <=> Agrees(v)
      BY <1>1, <1>3, SameRows, SameAgrees
    <3>2. \A r \in Requests : /\ Writer(r, v)' <=> Writer(r, v)
                              /\ Reader(r, v)' <=> Reader(r, v)
                              /\ Announced(r, v)' <=> Announced(r, v)
      BY <1>1, <3>1 DEF Writer, Reader, Announced
    <3>3. Sole(v) => Sole(v)'
      BY <1>1, <1>3, <3>2 DEF Sole
    <3>4. Tiered(v) => Tiered(v)'
      BY <1>1, <1>3, <3>1, <3>2 DEF Tiered
    <3>5. Cached(v) => Cached(v)'
      <4>1. Fresh(v)'
        BY <2>2 DEF Fresh
      <4>2. QED BY <1>1, <1>3, <2>2, <3>1, <3>2, <4>1 DEF Cached
    <3>6. QED BY <1>3, <3>3, <3>4, <3>5, TagSets DEF TInv, Tracked
  <2>3. QED BY <1>3, <2>1, <2>2
<1>5. QED BY <1>2, <1>4

\* Every step preserves the invariant.
LEMMA NextTInv == TInv /\ [Next]_vars => TInv'
<1> SUFFICES ASSUME TInv, [Next]_vars PROVE TInv'
  OBVIOUS
<1>1. IInv'
  BY NextIInv DEF TInv
<1>2. Onto' /\ Rested' /\ \A v \in Users : Tracked(v)'
  <2>1. CASE UNCHANGED vars
    <3>1. UNCHANGED <<rows, req, worker, view, history, cache>>
      BY <2>1 DEF vars
    <3>2. Onto' /\ Rested'
      BY <3>1 DEF Onto, TInv, Rested
    <3>3. ASSUME NEW v \in Users PROVE Elsewhere(v)
      BY <3>1, Unmarked DEF Elsewhere, Listed, RowsOf
    <3>4. QED BY <3>2, <3>3, ElsewhereTracked DEF TInv, IInv
  <2>2. CASE WorkerStep
    BY <2>2, BulkTracked, WorkerInvalidatesTracked, WorkerPublishesTracked, WorkerStopsTracked
    DEF WorkerStep, WorkerRow
  <2>3. QED BY <2>1, <2>2, CalledTracked, ContinuesTracked, TimeTracked DEF Next
<1>3. QED BY <1>1, <1>2 DEF TInv

\* The stronger invariant holds in every reachable state.
THEOREM Tracking == Spec => []TInv
BY InitTInv, NextTInv, PTL DEF Spec

\* Nobody writes for the user, and the worker has none of its rows.
LEMMA IdleUser ==
  ASSUME NEW u \in Users, ~Writing(u)
  PROVE  Listed(u) = {} /\ \A r \in Requests : ~Writer(r, u)
BY DEF Writing, Listed, Writer, Handling, Readers

\* TierFollowsRows: once nothing of the user is in progress, the sub_type that the
\* published events left in the JWT is that of the one live row, and 0 when every row
\* is terminated, unless handlers overlapped, a step was lost or rows were stacked.
THEOREM TierIsThatOfTheRows == Spec => []TierFollowsRows
<1>1. TInv => TierFollowsRows
  <2> SUFFICES ASSUME TInv, NEW u \in Users, ~Writing(u), Clean(u, {"overlap", "lost", "stacked"})
               PROVE  Agrees(u)
    BY DEF TierFollowsRows, Agrees
  <2>1. Tiered(u)
    BY DEF TInv, Tracked
  <2>2. QED BY <2>1, IdleUser DEF Tiered
<1>2. QED BY <1>1, Tracking, PTL

\* CacheCoherent: once nothing of the user is in progress, sub:user:<id> is empty or
\* holds the row the database would answer with, unless handlers overlapped or crossed
\* a checkAccess, or a step was lost.
THEOREM CacheIsCoherent == Spec => []CacheCoherent
<1>1. TInv => CacheCoherent
  <2> SUFFICES ASSUME TInv, NEW u \in Users, ~Writing(u), Clean(u, {"overlap", "crossed", "lost"})
               PROVE  Fresh(u)
    BY DEF CacheCoherent, Fresh
  <2>1. Cached(u)
    BY DEF TInv, Tracked
  <2>2. QED BY <2>1, IdleUser DEF Cached
<1>2. QED BY <1>1, Tracking, PTL
===============================================================================
