--------------------------------- MODULE News ----------------------------------
(***************************************************************************)
(* News: services/api/news_service.py over Redis (news_cache.py) and the   *)
(* provider's pages (news_provider.py).                                    *)
(*                                                                         *)
(* The requests for one set of symbols share one fresh and one stale copy. *)
(* The provider is asked page by page, newest release first, each page no  *)
(* larger than what is still wanted: so pages shrink while the page number *)
(* goes on, and new releases push the old ones back between two pages.     *)
(* That page p of size z holds the releases (p - 1) * z + 1 to p * z is an *)
(* assumption about Twelve Data.  Releases are numbered as they appear; a  *)
(* malformed one is never parsed.  Copies expire when they may.            *)
(***************************************************************************)
EXTENDS ApiThreads

CONSTANTS
  FetchLimit,   \* _PROVIDER_FETCH_LIMIT: the releases wanted
  PageSize,     \* _MAX_PAGE_SIZE
  MaxPages,     \* _MAX_PAGES
  MaxRelease    \* bound on the releases

ASSUME NewsAssumption ==
  /\ FetchLimit \in Nat \ {0} /\ PageSize \in Nat \ {0}
  /\ MaxPages \in Nat \ {0} /\ MaxRelease \in Nat

VARIABLES
  released,     \* number of releases so far: 1 is the oldest
  parseable,    \* those that are well-formed
  freshNews,    \* the copy under the fresh key
  staleNews,    \* and under the stale key
  news          \* the news request of each thread

newsVars == <<released, parseable, freshNews, staleNews, news>>

Release == 1 .. MaxRelease

\* A list of releases, and how many there were when its collection began (ghost).
NoNews == [items |-> {}, since |-> -1]
Collection == [items : SUBSET Release, since : 0 .. MaxRelease]

NewsIdle == [at |-> "idle"]
NewsRequest == {NewsIdle} \cup
  [at : {"fresh", "page", "put", "putStale", "stale", "done"},
   page : 1 .. MaxPages + 1,
   got : Collection]

NewsTypeOK ==
  /\ released \in 0 .. MaxRelease
  /\ parseable \subseteq 1 .. released
  /\ freshNews \in Collection \cup {NoNews}
  /\ staleNews \in Collection \cup {NoNews}
  /\ news \in [Thread -> NewsRequest]

NewsInit ==
  /\ released = 0 /\ parseable = {}
  /\ freshNews = NoNews /\ staleNews = NoNews
  /\ news = [t \in Thread |-> NewsIdle]

-----------------------------------------------------------------------------

NewsAt(t, stage) == news[t].at = stage

\* A press release appears, before all others.
Appear(wellFormed) ==
  /\ released < MaxRelease
  /\ released' = released + 1
  /\ parseable' = IF wellFormed THEN parseable \cup {released + 1} ELSE parseable
  /\ UNCHANGED <<freshNews, staleNews, news>>

ExpireFresh ==
  /\ freshNews # NoNews
  /\ freshNews' = NoNews
  /\ UNCHANGED <<released, parseable, staleNews, news>>

ExpireStale ==
  /\ staleNews # NoNews
  /\ staleNews' = NoNews
  /\ UNCHANGED <<released, parseable, freshNews, news>>

BeginNews(t) ==
  /\ NewsAt(t, "idle")
  /\ news' = [news EXCEPT ![t] =
       [at |-> "fresh", page |-> 1, got |-> [items |-> {}, since |-> released]]]
  /\ UNCHANGED <<released, parseable, freshNews, staleNews>>

\* get_fresh: a miss, a RedisError and an unreadable payload are alike.
ReadFreshNews(t, readable) ==
  /\ NewsAt(t, "fresh")
  /\ news' = [news EXCEPT ![t] =
       IF readable /\ freshNews # NoNews
       THEN [@ EXCEPT !.at = "done", !.got = freshNews]
       ELSE [@ EXCEPT !.at = "page", !.got.since = released]]
  /\ UNCHANGED <<released, parseable, freshNews, staleNews>>

Least(a, b) == IF a <= b THEN a ELSE b

Wanted(t) == FetchLimit - Cardinality(news[t].got.items)

\* Mutant: a page is as large as what has been found.
OutputSizeFound(t) == Least(Cardinality(news[t].got.items) + 1, PageSize)

\* output_size: what remains, at most a page.
OutputSize(t) == Least(Wanted(t), PageSize)

\* The releases of a page of some size, counted from the newest.
PageOf(page, size) ==
  {r \in 1 .. released : released - r \in (page - 1) * size .. page * size - 1}

\* The loop ends with a page that is not full, with enough releases, or after
\* MaxPages pages.
Collected(t, page, items) ==
  \/ Cardinality(page) < OutputSize(t)
  \/ Cardinality(items) >= FetchLimit
  \/ news[t].page = MaxPages

\* The releases of a page that parse; malformed ones are skipped.
Parsed(page) == page \cap parseable

\* _request_page and the parsing of its releases.
TakeNewsPage(t) ==
  /\ NewsAt(t, "page")
  /\ LET page  == PageOf(news[t].page, OutputSize(t))
         items == news[t].got.items \cup Parsed(page)
     IN news' = [news EXCEPT ![t].got.items = items,
                             ![t].page = @ + 1,
                             ![t].at = IF Collected(t, page, items)
                                       THEN "put" ELSE "page"]
  /\ UNCHANGED <<released, parseable, freshNews, staleNews>>

\* NewsProviderError: the pages collected so far are dropped.
FailNewsPage(t) ==
  /\ NewsAt(t, "page")
  /\ news' = [news EXCEPT ![t].at = "stale", ![t].got.items = {}]
  /\ UNCHANGED <<released, parseable, freshNews, staleNews>>

\* Releases with and without a time zone cannot be sorted: no NewsProviderError,
\* hence the request fails and the stale copy is not looked at.
FailNewsSort(t) ==
  /\ NewsAt(t, "put") /\ Cardinality(news[t].got.items) > 1
  /\ news' = [news EXCEPT ![t] = NewsIdle]
  /\ UNCHANGED <<released, parseable, freshNews, staleNews>>

\* put: SETEX of the fresh and then of the stale key; each may fail.
PutFreshNews(t, done) ==
  /\ NewsAt(t, "put")
  /\ freshNews' = IF done THEN news[t].got ELSE freshNews
  /\ news' = [news EXCEPT ![t].at = "putStale"]
  /\ UNCHANGED <<released, parseable, staleNews>>

PutStaleNews(t, done) ==
  /\ NewsAt(t, "putStale")
  /\ staleNews' = IF done THEN news[t].got ELSE staleNews
  /\ news' = [news EXCEPT ![t].at = "done"]
  /\ UNCHANGED <<released, parseable, freshNews>>

\* get_stale: without a readable copy the request fails.
ReadStaleNews(t, readable) ==
  /\ NewsAt(t, "stale")
  /\ news' = [news EXCEPT ![t] =
       IF readable /\ staleNews # NoNews
       THEN [@ EXCEPT !.at = "done", !.got = staleNews]
       ELSE NewsIdle]
  /\ UNCHANGED <<released, parseable, freshNews, staleNews>>

\* The answer is the first "limit" releases of the list.
AnswerNews(t) ==
  /\ NewsAt(t, "done")
  /\ news' = [news EXCEPT ![t] = NewsIdle]
  /\ UNCHANGED <<released, parseable, freshNews, staleNews>>

NewsNext ==
  \/ \E wellFormed \in BOOLEAN : Appear(wellFormed)
  \/ ExpireFresh \/ ExpireStale
  \/ \E t \in Thread :
       \/ BeginNews(t) \/ TakeNewsPage(t) \/ FailNewsPage(t) \/ FailNewsSort(t)
       \/ \E readable \in BOOLEAN : ReadFreshNews(t, readable)
       \/ \E done \in BOOLEAN : PutFreshNews(t, done)
       \/ \E done \in BOOLEAN : PutStaleNews(t, done)
       \/ \E readable \in BOOLEAN : ReadStaleNews(t, readable)
       \/ AnswerNews(t)

NewsSpec == NewsInit /\ [][NewsNext]_newsVars

-----------------------------------------------------------------------------

\* Nothing newer than what is shown is left out: of the well-formed releases there
\* were when the collection began, those newer than one that was collected were
\* collected too.
Gapless(c) ==
  \A r \in parseable, older \in c.items :
    older < r /\ r <= c.since => r \in c.items

\* News have no holes: although pages shrink while they are fetched, malformed
\* releases do not count, and new releases move the others to later pages, every
\* list that is cached or answered is without gaps (news_provider.py 106-209).
NewsWithoutGaps ==
  /\ Gapless(freshNews) /\ Gapless(staleNews)
  /\ \A t \in Thread : ~NewsAt(t, "idle") => Gapless(news[t].got)
=============================================================================
