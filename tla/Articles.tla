------------------------------- MODULE Articles -------------------------------
(***************************************************************************)
(* news-service: articles, the articles and search results cached in       *)
(* Redis, and the events of articles.                                      *)
(*                                                                         *)
(* Every await is a step here and may fail (Drops); nothing retries, and   *)
(* no transaction spans a row and its copies in Redis.  The event is       *)
(* published without an await: when the channel is gone, nobody catches    *)
(* the error, and the process dies with every call in progress (Tell).     *)
(*                                                                         *)
(* Simplifications.  A title stands for the slug that is made from it.     *)
(* Left out are the counts of views, and lists and statistics, which are   *)
(* read from the database and never cached.                                *)
(***************************************************************************)
EXTENDS Integers, FiniteSets

CONSTANTS Titles,      \* slugs that titles give
          Queries,     \* keys news:search:<md5>
          Staff,       \* calls of admins that can be in progress at once
          Readers,     \* calls of readers that can be in progress at once
          MaxArticle,  \* bound on articles.id
          MaxSlug      \* bound on the number appended to a slug

ASSUME ArticlesAssumption == MaxArticle \in Nat /\ MaxSlug \in Nat

VARIABLES
  article,    \* the articles table: the slug of an id
  lastId,     \* articles made so far
  cached,     \* ids with a key news:article:<id>
  found,      \* search results with a key: <<query, ids>>
  staff,      \* calls of admins in progress
  reader,     \* calls of readers in progress
  channel,    \* the publisher's channel: "up", "down"
  told,       \* events published: <<id, "created" or "deleted">>
  \* history variables, read by the properties only
  gone,       \* ids deleted, with their copies
  outlived    \* ids that a reader held while their deletion cleared the copies

articlesVars == <<article, lastId, cached, found, staff, reader, channel, told, gone, outlived>>

-------------------------------------------------------------------------------

Articles == 1..MaxArticle
Slugs    == [title : Titles, no : 0..MaxSlug]
NoSlug   == [no |-> -1]     \* an id without a row
Fates    == {"created", "deleted"}

Away  == [at |-> "away"]
Errand == [at : {"slug", "insert"}, slug : Slugs]
         \cup [at : {"exists", "delete", "forget", "keys", "tell"}, id : Articles, why : Fates]
         \cup [at : {"clear"}, id : Articles, why : Fates, keys : SUBSET Queries]

Left    == [at |-> "left"]
Looking == [at : {"get", "read", "put"}, id : Articles]
           \cup [at : {"lookup", "query"}, query : Queries]
           \cup [at : {"keep"}, query : Queries, result : SUBSET Articles]

ArticlesTypeOK ==
  /\ article \in [Articles -> Slugs \cup {NoSlug}]
  /\ lastId \in 0..MaxArticle
  /\ cached \subseteq Articles
  /\ found \subseteq Queries \X SUBSET Articles
  /\ staff \in [Staff -> Errand \cup {Away}]
  /\ reader \in [Readers -> Looking \cup {Left}]
  /\ channel \in {"up", "down"}
  /\ told \subseteq Articles \X Fates
  /\ gone \subseteq Articles
  /\ outlived \subseteq Articles
  \* articles_slug_unique
  /\ \A i, j \in Articles : article[i] = article[j] => i = j \/ article[i] = NoSlug

ArticlesInit ==
  /\ article = [i \in Articles |-> NoSlug]
  /\ lastId = 0
  /\ cached = {}
  /\ found = {}
  /\ staff = [s \in Staff |-> Away]
  /\ reader = [r \in Readers |-> Left]
  /\ channel = "up"
  /\ told = {}
  /\ gone = {}
  /\ outlived = {}

Rows                == {i \in Articles : article[i] # NoSlug}
SlugTaken(slug)     == \E i \in Articles : article[i] = slug
StaffGoes(s, c)     == staff' = [staff EXCEPT ![s] = c]
ReaderGoes(r, c)    == reader' = [reader EXCEPT ![r] = c]

-------------------------------------------------------------------------------
(* create                                                                    *)

CreateArticle(s, title) ==
  /\ staff[s] = Away
  /\ StaffGoes(s, [at |-> "slug", slug |-> [title |-> title, no |-> 0]])
  /\ UNCHANGED <<article, lastId, cached, found, reader, channel, told, gone, outlived>>

\* generateUniqueSlug: a read per slug, until one is free.
FindBySlug(s) ==
  LET slug == staff[s].slug IN
  /\ staff[s].at = "slug"
  /\ IF SlugTaken(slug)
       THEN /\ slug.no < MaxSlug
            /\ StaffGoes(s, [at |-> "slug", slug |-> [title |-> slug.title, no |-> slug.no + 1]])
       ELSE StaffGoes(s, [at |-> "insert", slug |-> slug])
  /\ UNCHANGED <<article, lastId, cached, found, reader, channel, told, gone, outlived>>

\* The INSERT, refused when the slug was taken since it was looked for.
InsertArticle(s) ==
  /\ staff[s].at = "insert"
  /\ ~SlugTaken(staff[s].slug)
  /\ lastId < MaxArticle
  /\ lastId' = lastId + 1
  /\ article' = [article EXCEPT ![lastId'] = staff[s].slug]
  /\ StaffGoes(s, [at |-> "keys", id |-> lastId', why |-> "created"])
  /\ UNCHANGED <<cached, found, reader, channel, told, gone, outlived>>

-------------------------------------------------------------------------------
(* delete                                                                    *)

DeleteArticle(s, i) ==
  /\ staff[s] = Away
  /\ StaffGoes(s, [at |-> "exists", id |-> i, why |-> "deleted"])
  /\ UNCHANGED <<article, lastId, cached, found, reader, channel, told, gone, outlived>>

\* findById: ResourceNotFoundError without a row.
FindById(s) ==
  /\ staff[s].at = "exists"
  /\ StaffGoes(s, IF staff[s].id \in Rows THEN [staff[s] EXCEPT !.at = "delete"] ELSE Away)
  /\ UNCHANGED <<article, lastId, cached, found, reader, channel, told, gone, outlived>>

\* The DELETE, of no row when another call was faster.
DeleteRow(s) ==
  /\ staff[s].at = "delete"
  /\ article' = [article EXCEPT ![staff[s].id] = NoSlug]
  /\ StaffGoes(s, [staff[s] EXCEPT !.at = "forget"])
  /\ UNCHANGED <<lastId, cached, found, reader, channel, told, gone, outlived>>

Holding(i)   == \E r \in Readers : reader[r].at = "put" /\ reader[r].id = i
Keeping(i)   == \E r \in Readers : reader[r].at = "keep" /\ i \in reader[r].result
Outlives(i)  == outlived' = outlived \cup {i}

\* Fault: the copy of the article is left to its TTL.
ForgetNothing(s) ==
  /\ staff[s].at = "forget"
  /\ IF Holding(staff[s].id) THEN Outlives(staff[s].id) ELSE UNCHANGED outlived
  /\ StaffGoes(s, [staff[s] EXCEPT !.at = "keys"])
  /\ UNCHANGED <<article, lastId, cached, found, reader, channel, told, gone>>

\* invalidateArticle
Forget(s) ==
  /\ staff[s].at = "forget"
  /\ cached' = cached \ {staff[s].id}
  /\ IF Holding(staff[s].id) THEN Outlives(staff[s].id) ELSE UNCHANGED outlived
  /\ StaffGoes(s, [staff[s] EXCEPT !.at = "keys"])
  /\ UNCHANGED <<article, lastId, found, reader, channel, told, gone>>

-------------------------------------------------------------------------------
(* The end of both.                                                          *)

\* invalidateListCaches: KEYS, then DEL of the keys it returned.
ListKeys(s) ==
  LET call == staff[s] IN
  /\ call.at = "keys"
  /\ IF call.why = "deleted" /\ Keeping(call.id) THEN Outlives(call.id) ELSE UNCHANGED outlived
  /\ StaffGoes(s, [at |-> "clear", id |-> call.id, why |-> call.why,
                   keys |-> {f[1] : f \in found}])
  /\ UNCHANGED <<article, lastId, cached, found, reader, channel, told, gone>>

ClearLists(s) ==
  LET call == staff[s] IN
  /\ call.at = "clear"
  /\ found' = {f \in found : f[1] \notin call.keys}
  /\ gone' = IF call.why = "deleted" THEN gone \cup {call.id} ELSE gone
  /\ StaffGoes(s, [at |-> "tell", id |-> call.id, why |-> call.why])
  /\ UNCHANGED <<article, lastId, cached, reader, channel, told, outlived>>

\* publishNewsEvent, without an await: it publishes, or its error is nobody's
\* and ends the process.  What is in the database and in Redis stays.
Tell(s) ==
  /\ staff[s].at = "tell"
  /\ IF channel = "up"
       THEN /\ told' = told \cup {<<staff[s].id, staff[s].why>>}
            /\ StaffGoes(s, Away)
            /\ UNCHANGED <<reader, channel>>
       ELSE /\ staff' = [t \in Staff |-> Away]
            /\ reader' = [r \in Readers |-> Left]
            /\ channel' = "up"
            /\ UNCHANGED told
  /\ UNCHANGED <<article, lastId, cached, found, gone, outlived>>

-------------------------------------------------------------------------------
(* get                                                                       *)

\* By the id, which the cache has, or by the slug, which it has not.
GetArticle(r, i, at) ==
  /\ reader[r] = Left
  /\ ReaderGoes(r, [at |-> at, id |-> i])
  /\ UNCHANGED <<article, lastId, cached, found, staff, channel, told, gone, outlived>>

GetCachedArticle(r) ==
  /\ reader[r].at = "get"
  /\ ReaderGoes(r, IF reader[r].id \in cached THEN Left ELSE [reader[r] EXCEPT !.at = "read"])
  /\ UNCHANGED <<article, lastId, cached, found, staff, channel, told, gone, outlived>>

ReadRow(r) ==
  /\ reader[r].at = "read"
  /\ ReaderGoes(r, IF reader[r].id \in Rows THEN [reader[r] EXCEPT !.at = "put"] ELSE Left)
  /\ UNCHANGED <<article, lastId, cached, found, staff, channel, told, gone, outlived>>

CacheArticle(r) ==
  /\ reader[r].at = "put"
  /\ cached' = cached \cup {reader[r].id}
  /\ ReaderGoes(r, Left)
  /\ UNCHANGED <<article, lastId, found, staff, channel, told, gone, outlived>>

-------------------------------------------------------------------------------
(* search                                                                    *)

Search(r, q) ==
  /\ reader[r] = Left
  /\ ReaderGoes(r, [at |-> "lookup", query |-> q])
  /\ UNCHANGED <<article, lastId, cached, found, staff, channel, told, gone, outlived>>

GetCachedSearch(r) ==
  /\ reader[r].at = "lookup"
  /\ ReaderGoes(r, IF \E f \in found : f[1] = reader[r].query
                     THEN Left ELSE [reader[r] EXCEPT !.at = "query"])
  /\ UNCHANGED <<article, lastId, cached, found, staff, channel, told, gone, outlived>>

\* Some of the articles match the query.
SearchRows(r, result) ==
  /\ reader[r].at = "query"
  /\ result \subseteq Rows
  /\ ReaderGoes(r, [at |-> "keep", query |-> reader[r].query, result |-> result])
  /\ UNCHANGED <<article, lastId, cached, found, staff, channel, told, gone, outlived>>

CacheSearch(r) ==
  /\ reader[r].at = "keep"
  /\ found' = {f \in found : f[1] # reader[r].query} \cup {<<reader[r].query, reader[r].result>>}
  /\ ReaderGoes(r, Left)
  /\ UNCHANGED <<article, lastId, cached, staff, channel, told, gone, outlived>>

-------------------------------------------------------------------------------
(* What fails, and what ends by itself.                                      *)

\* An await of a call fails: the caller gets an error, and nothing is undone.
StaffDrops(s) ==
  /\ staff[s] # Away
  /\ StaffGoes(s, Away)
  /\ UNCHANGED <<article, lastId, cached, found, reader, channel, told, gone, outlived>>

ReaderDrops(r) ==
  /\ reader[r] # Left
  /\ ReaderGoes(r, Left)
  /\ UNCHANGED <<article, lastId, cached, found, staff, channel, told, gone, outlived>>

\* The broker closes the connection, and scheduleReconnect makes another.
ChannelTurns ==
  /\ channel' = IF channel = "up" THEN "down" ELSE "up"
  /\ UNCHANGED <<article, lastId, cached, found, staff, reader, told, gone, outlived>>

\* The TTLs of both kinds of keys.
KeyRunsOut ==
  /\ \/ \E i \in cached : cached' = cached \ {i} /\ UNCHANGED found
     \/ \E f \in found : found' = found \ {f} /\ UNCHANGED cached
  /\ UNCHANGED <<article, lastId, staff, reader, channel, told, gone, outlived>>

-------------------------------------------------------------------------------

StaffStep(s) ==
  \/ \E title \in Titles : CreateArticle(s, title)
  \/ FindBySlug(s) \/ InsertArticle(s)
  \/ \E i \in Articles : DeleteArticle(s, i)
  \/ FindById(s) \/ DeleteRow(s) \/ Forget(s)
  \/ ListKeys(s) \/ ClearLists(s) \/ Tell(s) \/ StaffDrops(s)

ReaderStep(r) ==
  \/ \E i \in Articles, at \in {"get", "read"} : GetArticle(r, i, at)
  \/ GetCachedArticle(r) \/ ReadRow(r) \/ CacheArticle(r)
  \/ \E q \in Queries : Search(r, q)
  \/ GetCachedSearch(r)
  \/ \E result \in SUBSET Articles : SearchRows(r, result)
  \/ CacheSearch(r) \/ ReaderDrops(r)

ArticlesNext ==
  \/ \E s \in Staff : StaffStep(s)
  \/ \E r \in Readers : ReaderStep(r)
  \/ ChannelTurns \/ KeyRunsOut

ArticlesSpec == ArticlesInit /\ [][ArticlesNext]_articlesVars

-------------------------------------------------------------------------------
(* Properties.                                                               *)

\* An article whose deletion went through is in no copy that readers are
\* served from, unless one of them held it while the copies were cleared: the
\* look at the row and the SET are two awaits of get and search, and the
\* deletion may come between them.
DeletedStaysGone ==
  \A i \in gone \ outlived : i \notin cached /\ \A f \in found : i \notin f[2]
===============================================================================
