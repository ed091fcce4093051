---------------------------- MODULE ServicesProofs -----------------------------
(***************************************************************************)
(* Theorems about Watchlist and TradingAccounts (what two checks without a *)
(* lock still guarantee) and News, for every number of threads, users,     *)
(* symbols, accounts and releases; and, with those of MarketSnapshots,     *)
(* Valuation, QuoteFlow and MarketRunner, about the services together.     *)
(***************************************************************************)
EXTENDS MCServices, MarketSnapshotsProofs, QuoteFlowProofs

\* A subset of a finite set, and what one more or one less element makes of it.
LEMMA SubsetCount ==
  ASSUME NEW S, IsFiniteSet(S), NEW T \in SUBSET S
  PROVE  /\ IsFiniteSet(T) /\ Cardinality(T) \in Nat /\ Cardinality(S) \in Nat
         /\ Cardinality(T) <= Cardinality(S)
BY FS_Subset, FS_CardinalityType

LEMMA OneMoreCount ==
  ASSUME NEW S, IsFiniteSet(S), NEW x, NEW T \in SUBSET (S \cup {x})
  PROVE  /\ Cardinality(T) \in Nat /\ Cardinality(S) \in Nat
         /\ Cardinality(T) <= Cardinality(S) + 1
<1>1. Cardinality(S) \in Nat
  BY FS_CardinalityType
<1>2. IsFiniteSet(S \cup {x}) /\ Cardinality(S \cup {x}) <= Cardinality(S) + 1
  BY <1>1, FS_AddElement
<1>3. /\ Cardinality(T) \in Nat /\ Cardinality(S \cup {x}) \in Nat
      /\ Cardinality(T) <= Cardinality(S \cup {x})
  BY <1>2, SubsetCount
<1> QED
  BY <1>1, <1>2, <1>3

LEMMA OneLessCount ==
  ASSUME NEW S, IsFiniteSet(S), NEW x \in S, NEW T \in SUBSET (S \ {x})
  PROVE  /\ Cardinality(T) \in Nat /\ Cardinality(S) \in Nat
         /\ Cardinality(T) + 1 <= Cardinality(S)
<1>1. IsFiniteSet(S \ {x}) /\ Cardinality(S \ {x}) = Cardinality(S) - 1
  BY FS_RemoveElement
<1> QED
  BY <1>1, SubsetCount, FS_CardinalityType

-----------------------------------------------------------------------------
(* The watchlist.                                                           *)

WatchInv == WatchlistTypeOK /\ WatchlistOverrun

LEMMA WatchlistInitial == WatchlistInit => WatchInv
<1> SUFFICES ASSUME WatchlistInit PROVE WatchInv
  OBVIOUS
<1>1. WatchlistTypeOK
  BY DEF WatchlistInit, WatchlistTypeOK, Request, Resting
<1>2. ASSUME NEW u \in User
      PROVE  Cardinality(Tickers(u)) + Cardinality(Counted(u)) <=
               MaxItems + Cardinality(Thread) - 1
  <2>1. Tickers(u) = {} /\ Counted(u) = {}
    BY DEF WatchlistInit, Tickers, Counted, Resting
  <2> QED
    BY <2>1, FS_EmptySet, FS_CardinalityType, ThreadAssumption, WatchlistAssumption
<1> QED
  BY <1>1, <1>2 DEF WatchInv, WatchlistOverrun

LEMMA WatchlistTypes ==
  ASSUME WatchlistTypeOK, [WatchlistNext]_watchlistVars
  PROVE  WatchlistTypeOK'
<1>1. ASSUME NEW t \in Thread, NEW k \in Key, NEW stage \in {"lookup", "find"},
             BeginWatch(t, stage, k)
      PROVE  WatchlistTypeOK'
  BY <1>1 DEF WatchlistTypeOK, BeginWatch, Request, At
<1>2. ASSUME NEW t \in Thread, LookUp(t) \/ Count(t) \/ Insert(t)
      PROVE  WatchlistTypeOK'
  BY <1>2 DEF WatchlistTypeOK, LookUp, Count, Insert, Request, At, Answer, MoveTo, Resting
<1>3. ASSUME NEW t \in Thread, CommitInsert(t)
      PROVE  WatchlistTypeOK'
  BY <1>3, SMTT(30) DEF WatchlistTypeOK, CommitInsert, Request, At, MoveTo, Resting
<1>4. ASSUME NEW t \in Thread, Refresh(t) \/ FindRow(t) \/ CommitNothing(t) \/ FailWatch(t)
      PROVE  WatchlistTypeOK'
  BY <1>4 DEF WatchlistTypeOK, Refresh, FindRow, CommitNothing, FailWatch, Request, At,
              Answer, MoveTo, Resting
<1>5. ASSUME NEW t \in Thread, DeleteRow(t)
      PROVE  WatchlistTypeOK'
  BY <1>5 DEF WatchlistTypeOK, DeleteRow, Request, At, MoveTo, Resting
<1>6. ASSUME NEW t \in Thread, CommitDelete(t)
      PROVE  WatchlistTypeOK'
  BY <1>6 DEF WatchlistTypeOK, CommitDelete, Request, At, Resting
<1>7. CASE UNCHANGED watchlistVars
  BY <1>7 DEF WatchlistTypeOK, watchlistVars
<1> QED
  BY <1>1, <1>2, <1>3, <1>4, <1>5, <1>6, <1>7 DEF WatchlistNext, WatchlistStep

LEMMA WatchlistFinite ==
  ASSUME WatchlistTypeOK, NEW u
  PROVE  IsFiniteSet(Tickers(u)) /\ IsFiniteSet(Counted(u))
<1>1. IsFiniteSet(Key)
  BY FS_Product, WatchlistAssumption DEF Key
<1>2. Tickers(u) \in SUBSET Key /\ Counted(u) \in SUBSET Thread
  BY DEF WatchlistTypeOK, Tickers, Counted
<1> QED
  BY <1>1, <1>2, FS_Subset, ThreadAssumption

\* A step by which neither count grows, one that counts the items of a user, and
\* one that commits an item.
LEMMA WatchlistBound ==
  ASSUME WatchInv, WatchlistTypeOK', [WatchlistNext]_watchlistVars, NEW u \in User
  PROVE  Cardinality(Tickers(u)') + Cardinality(Counted(u)') <=
           MaxItems + Cardinality(Thread) - 1
<1> USE DEF WatchInv
<1> DEFINE Fewer == Tickers(u)' \subseteq Tickers(u) /\ Counted(u)' \subseteq Counted(u)
<1>f. /\ IsFiniteSet(Tickers(u)) /\ IsFiniteSet(Counted(u))
      /\ Cardinality(Tickers(u)) \in Nat /\ Cardinality(Counted(u)) \in Nat
      /\ Cardinality(Thread) \in Nat /\ MaxItems \in Nat
  BY WatchlistFinite, FS_CardinalityType, ThreadAssumption, WatchlistAssumption
<1>o. Cardinality(Tickers(u)) + Cardinality(Counted(u)) <=
        MaxItems + Cardinality(Thread) - 1
  BY DEF WatchlistOverrun
<1>1. ASSUME Fewer PROVE Cardinality(Tickers(u)') + Cardinality(Counted(u)') <=
                           MaxItems + Cardinality(Thread) - 1
  <2>1. /\ Cardinality(Tickers(u)') \in Nat /\ Cardinality(Tickers(u)') <= Cardinality(Tickers(u))
        /\ Cardinality(Counted(u)') \in Nat /\ Cardinality(Counted(u)') <= Cardinality(Counted(u))
    BY <1>1, <1>f, SubsetCount
  <2> QED
    BY <2>1, <1>o, <1>f
<1>2. ASSUME NEW t \in Thread, Count(t)
      PROVE  Cardinality(Tickers(u)') + Cardinality(Counted(u)') <=
               MaxItems + Cardinality(Thread) - 1
  <2>1. CASE watch[t].key[1] = u /\ HasRoom(u)
    <3>1. Tickers(u)' = Tickers(u) /\ Cardinality(Tickers(u)) < MaxItems
      BY <1>2, <2>1 DEF Count, HasRoom, Tickers
    <3>2. Counted(u)' \in SUBSET Thread
      BY DEF Counted
    <3>3. Cardinality(Counted(u)') \in Nat /\ Cardinality(Counted(u)') <= Cardinality(Thread)
      BY <3>2, SubsetCount, ThreadAssumption
    <3> QED
      BY <3>1, <3>3, <1>f
  <2>2. CASE ~(watch[t].key[1] = u /\ HasRoom(u))
    <3>1. Fewer
      BY <1>2, <2>2 DEF Count, Tickers, Counted, MoveTo, Answer, Resting, At, WatchlistTypeOK,
                        Request
    <3> QED
      BY <3>1, <1>1
  <2> QED
    BY <2>1, <2>2
<1>3. ASSUME NEW t \in Thread, CommitInsert(t)
      PROVE  Cardinality(Tickers(u)') + Cardinality(Counted(u)') <=
               MaxItems + Cardinality(Thread) - 1
  <2>1. CASE watch[t].key[1] = u
    <3>1. /\ t \in Counted(u)
          /\ Counted(u)' \in SUBSET (Counted(u) \ {t})
      BY <1>3, <2>1 DEF CommitInsert, Counted, MoveTo, At, WatchlistTypeOK, Request
    <3>2. Tickers(u)' \in SUBSET (Tickers(u) \cup {watch[t].key})
      BY <1>3 DEF CommitInsert, Tickers
    <3>3. /\ Cardinality(Counted(u)') \in Nat
          /\ Cardinality(Counted(u)') + 1 <= Cardinality(Counted(u))
      BY <3>1, <1>f, OneLessCount
    <3>4. /\ Cardinality(Tickers(u)') \in Nat
          /\ Cardinality(Tickers(u)') <= Cardinality(Tickers(u)) + 1
      BY <3>2, <1>f, OneMoreCount
    <3> QED
      BY <3>3, <3>4, <1>o, <1>f
  <2>2. CASE watch[t].key[1] # u
    <3>1. Fewer
      BY <1>3, <2>2 DEF CommitInsert, Counted, Tickers, MoveTo, At, WatchlistTypeOK, Request
    <3> QED
      BY <3>1, <1>1
  <2> QED
    BY <2>1, <2>2
<1>4. ASSUME NEW t \in Thread, NEW k \in Key, NEW stage \in {"lookup", "find"},
             BeginWatch(t, stage, k)
      PROVE  Fewer
  BY <1>4 DEF BeginWatch, Tickers, Counted, WatchlistTypeOK
<1>5. ASSUME NEW t \in Thread, LookUp(t) \/ Insert(t) \/ Refresh(t) \/ FailWatch(t)
      PROVE  Fewer
  BY <1>5 DEF LookUp, Insert, Refresh, FailWatch, Tickers, Counted, Answer, MoveTo, Resting,
              At, WatchlistTypeOK, Request
<1>6. ASSUME NEW t \in Thread, FindRow(t) \/ DeleteRow(t) \/ CommitNothing(t)
      PROVE  Fewer
  BY <1>6 DEF FindRow, DeleteRow, CommitNothing, Tickers, Counted, Answer, MoveTo, Resting,
              At, WatchlistTypeOK, Request
<1>7. ASSUME NEW t \in Thread, CommitDelete(t)
      PROVE  Fewer
  BY <1>7 DEF CommitDelete, Tickers, Counted, Resting, At, WatchlistTypeOK, Request
<1>8. CASE UNCHANGED watchlistVars
  <2>1. Fewer
    BY <1>8 DEF watchlistVars, Tickers, Counted
  <2> QED
    BY <2>1, <1>1
<1> QED
  BY <1>1, <1>2, <1>3, <1>4, <1>5, <1>6, <1>7, <1>8 DEF WatchlistNext, WatchlistStep

LEMMA WatchlistInductive == WatchInv /\ [WatchlistNext]_watchlistVars => WatchInv'
<1> SUFFICES ASSUME WatchInv, [WatchlistNext]_watchlistVars PROVE WatchInv'
  OBVIOUS
<1>1. WatchlistTypeOK'
  BY WatchlistTypes DEF WatchInv
<1> QED
  BY <1>1, WatchlistBound DEF WatchInv, WatchlistOverrun

\* Types of the watchlist's state.
THEOREM WatchlistTyped == WatchlistSpec => []WatchlistTypeOK
<1>1. WatchInv => WatchlistTypeOK
  BY DEF WatchInv
<1> QED
  BY <1>1, WatchlistInitial, WatchlistInductive, PTL DEF WatchlistSpec

\* n threads exceed the limit of a watchlist by n - 1 items at most
\* (services/api/watchlist/service.py 130-155).
THEOREM WatchlistBounded == WatchlistSpec => []WatchlistOverrun
<1>1. WatchInv => WatchlistOverrun
  BY DEF WatchInv
<1> QED
  BY <1>1, WatchlistInitial, WatchlistInductive, PTL DEF WatchlistSpec

-----------------------------------------------------------------------------
(* The accounts of a user.                                                  *)

AccountInv == AccountTypeOK /\ AccountsOnlyByRace

LEMMA AccountInitial == AccountInit => AccountInv
<1> SUFFICES ASSUME AccountInit PROVE AccountInv
  OBVIOUS
<1>1. AccountTypeOK
  BY DEF AccountInit, AccountTypeOK, Opening, NoOpening
<1>2. ASSUME NEW u \in Owner
      PROVE  /\ Cardinality(AccountsOf(u)) + Cardinality(Racing(u)) <= Cardinality(Thread)
             /\ u \in lost => Cardinality(AccountsOf(u)) > 1
  <2>1. AccountsOf(u) = {} /\ Racing(u) = {} /\ lost = {}
    BY DEF AccountInit, AccountsOf, Racing, OpeningAt, NoOpening
  <2> QED
    BY <2>1, FS_EmptySet, FS_CardinalityType, ThreadAssumption
<1> QED
  BY <1>1, <1>2 DEF AccountInv, AccountsOnlyByRace

LEMMA AccountTypes ==
  ASSUME AccountTypeOK, [AccountNext]_accountVars
  PROVE  AccountTypeOK'
<1>1. ASSUME NEW t \in Thread, NEW u \in Owner, BeginOpening(t, u)
      PROVE  AccountTypeOK'
  BY <1>1 DEF AccountTypeOK, BeginOpening, Opening, NoOpening
<1>2. ASSUME NEW t \in Thread, CheckNone(t) \/ FailOpening(t)
      PROVE  AccountTypeOK'
  BY <1>2 DEF AccountTypeOK, CheckNone, FailOpening, Opening, NoOpening, OpeningAt
<1>3. ASSUME NEW t \in Thread, NEW a \in Account, CommitAccount(t, a)
      PROVE  AccountTypeOK'
  BY <1>3 DEF AccountTypeOK, CommitAccount, Opening, NoOpening, OpeningAt
<1>4. ASSUME NEW u \in Owner, NEW a \in Account, PlaceOrder(u, a)
      PROVE  AccountTypeOK'
  BY <1>4 DEF AccountTypeOK, PlaceOrder, Opening
<1>5. ASSUME NEW u \in Owner, NEW a \in Account, NEW b \in Account, LookForOrder(u, a, b)
      PROVE  AccountTypeOK'
  BY <1>5 DEF AccountTypeOK, LookForOrder, Opening
<1>6. CASE UNCHANGED accountVars
  BY <1>6 DEF AccountTypeOK, accountVars, Opening
<1> QED
  BY <1>1, <1>2, <1>3, <1>4, <1>5, <1>6 DEF AccountNext

LEMMA AccountFinite ==
  ASSUME NEW u
  PROVE  /\ IsFiniteSet(AccountsOf(u)) /\ IsFiniteSet(Racing(u))
         /\ Cardinality(AccountsOf(u)) \in Nat /\ Cardinality(Racing(u)) \in Nat
         /\ Cardinality(Thread) \in Nat /\ Cardinality(Racing(u)) <= Cardinality(Thread)
<1>1. AccountsOf(u) \in SUBSET Account /\ Racing(u) \in SUBSET Thread
  BY DEF AccountsOf, Racing
<1> QED
  BY <1>1, SubsetCount, ThreadAssumption, AccountAssumption

\* Two accounts of one user.
LEMMA TwoAccounts ==
  ASSUME NEW u, NEW a \in AccountsOf(u), NEW b \in AccountsOf(u), a # b
  PROVE  Cardinality(AccountsOf(u)) > 1
<1>1. IsFiniteSet(AccountsOf(u) \ {a}) /\ b \in AccountsOf(u) \ {a}
  BY AccountFinite, FS_RemoveElement
<1>2. Cardinality(AccountsOf(u) \ {a}) + 1 <= Cardinality(AccountsOf(u))
  BY AccountFinite, OneLessCount
<1>3. Cardinality((AccountsOf(u) \ {a}) \ {b}) + 1 <= Cardinality(AccountsOf(u) \ {a})
  BY <1>1, OneLessCount
<1>4. /\ Cardinality((AccountsOf(u) \ {a}) \ {b}) \in Nat
      /\ Cardinality(AccountsOf(u) \ {a}) \in Nat
  BY <1>1, OneLessCount
<1> QED
  BY <1>2, <1>3, <1>4, AccountFinite

LEMMA AccountBound ==
  ASSUME AccountInv, AccountTypeOK', [AccountNext]_accountVars, NEW u \in Owner
  PROVE  Cardinality(AccountsOf(u)') + Cardinality(Racing(u)') <= Cardinality(Thread)
<1> USE DEF AccountInv
<1> DEFINE Bounded == Cardinality(AccountsOf(u)') + Cardinality(Racing(u)') <=
                        Cardinality(Thread)
           Fewer == AccountsOf(u)' = AccountsOf(u) /\ Racing(u)' \subseteq Racing(u)
<1>f. /\ IsFiniteSet(AccountsOf(u)) /\ IsFiniteSet(Racing(u))
      /\ Cardinality(AccountsOf(u)) \in Nat /\ Cardinality(Racing(u)) \in Nat
      /\ Cardinality(Thread) \in Nat
  BY AccountFinite
<1>o. Cardinality(AccountsOf(u)) + Cardinality(Racing(u)) <= Cardinality(Thread)
  BY DEF AccountsOnlyByRace
<1>1. ASSUME Fewer PROVE Bounded
  <2>1. Cardinality(Racing(u)') \in Nat /\ Cardinality(Racing(u)') <= Cardinality(Racing(u))
    BY <1>1, <1>f, SubsetCount
  <2> QED
    BY <2>1, <1>1, <1>o, <1>f
<1>2. ASSUME NEW t \in Thread, CheckNone(t) PROVE Bounded
  <2>1. CASE opening[t].user = u /\ ~HasAccount(u)
    <3>1. AccountsOf(u)' = {}
      BY <1>2, <2>1 DEF CheckNone, AccountsOf, HasAccount
    <3>2. Racing(u)' \in SUBSET Thread
      BY DEF Racing
    <3>3. Cardinality(Racing(u)') \in Nat /\ Cardinality(Racing(u)') <= Cardinality(Thread)
      BY <3>2, SubsetCount, ThreadAssumption
    <3> QED
      BY <3>1, <3>3, FS_EmptySet, <1>f
  <2>2. CASE ~(opening[t].user = u /\ ~HasAccount(u))
    <3>1. Fewer
      BY <1>2, <2>2 DEF CheckNone, AccountsOf, Racing, OpeningAt, NoOpening, AccountTypeOK,
                        Opening
    <3> QED
      BY <3>1, <1>1
  <2> QED
    BY <2>1, <2>2
<1>3. ASSUME NEW t \in Thread, NEW a \in Account, CommitAccount(t, a) PROVE Bounded
  <2>1. CASE opening[t].user = u
    <3>1. t \in Racing(u) /\ Racing(u)' \in SUBSET (Racing(u) \ {t})
      BY <1>3, <2>1 DEF CommitAccount, Racing, OpeningAt, NoOpening, AccountTypeOK, Opening
    <3>2. AccountsOf(u)' \in SUBSET (AccountsOf(u) \cup {a})
      BY <1>3 DEF CommitAccount, AccountsOf
    <3>3. Cardinality(Racing(u)') \in Nat /\ Cardinality(Racing(u)') + 1 <= Cardinality(Racing(u))
      BY <3>1, <1>f, OneLessCount
    <3>4. /\ Cardinality(AccountsOf(u)') \in Nat
          /\ Cardinality(AccountsOf(u)') <= Cardinality(AccountsOf(u)) + 1
      BY <3>2, <1>f, OneMoreCount
    <3> QED
      BY <3>3, <3>4, <1>o, <1>f
  <2>2. CASE opening[t].user # u
    <3>1. Fewer
      BY <1>3, <2>2 DEF CommitAccount, AccountsOf, Racing, OpeningAt, NoOpening,
                        AccountTypeOK, Opening
    <3> QED
      BY <3>1, <1>1
  <2> QED
    BY <2>1, <2>2
<1>4. ASSUME NEW t \in Thread, NEW v \in Owner, BeginOpening(t, v) PROVE Bounded
  <2>1. Fewer
    BY <1>4 DEF BeginOpening, AccountsOf, Racing, OpeningAt, AccountTypeOK
  <2> QED
    BY <2>1, <1>1
<1>5. ASSUME NEW t \in Thread, FailOpening(t) PROVE Bounded
  <2>1. Fewer
    BY <1>5 DEF FailOpening, AccountsOf, Racing, OpeningAt, NoOpening, AccountTypeOK
  <2> QED
    BY <2>1, <1>1
<1>6. ASSUME UNCHANGED <<accounts, opening>> PROVE Bounded
  <2>1. Fewer
    BY <1>6 DEF AccountsOf, Racing, OpeningAt
  <2> QED
    BY <2>1, <1>1
<1> QED
  BY <1>2, <1>3, <1>4, <1>5, <1>6 DEF AccountNext, accountVars, PlaceOrder, LookForOrder

LEMMA AccountLost ==
  ASSUME AccountInv, [AccountNext]_accountVars, NEW u \in Owner, u \in lost'
  PROVE  Cardinality(AccountsOf(u)') > 1
<1> USE DEF AccountInv
<1>g. AccountsOf(u) \subseteq AccountsOf(u)'
  BY DEF AccountNext, accountVars, AccountsOf, BeginOpening, CheckNone, FailOpening,
         CommitAccount, PlaceOrder, LookForOrder
<1>f. /\ IsFiniteSet(AccountsOf(u)') /\ Cardinality(AccountsOf(u)') \in Nat
      /\ Cardinality(AccountsOf(u)) \in Nat
      /\ Cardinality(AccountsOf(u)) <= Cardinality(AccountsOf(u)')
  <2>1. AccountsOf(u)' \in SUBSET Account
    BY DEF AccountsOf
  <2>2. IsFiniteSet(AccountsOf(u)')
    BY <2>1, SubsetCount, AccountAssumption
  <2> QED
    BY <1>g, <2>2, SubsetCount
<1>1. Cardinality(AccountsOf(u)) > 1
  <2>1. CASE u \in lost
    BY <2>1 DEF AccountsOnlyByRace
  <2>2. CASE u \notin lost
    <3>1. PICK a \in Account, b \in Account : LookForOrder(u, a, b) /\ a # b
      BY <2>2 DEF AccountNext, accountVars, BeginOpening, CheckNone, FailOpening,
                  CommitAccount, PlaceOrder, LookForOrder
    <3> QED
      BY <3>1, TwoAccounts DEF LookForOrder
  <2> QED
    BY <2>1, <2>2
<1> QED
  BY <1>1, <1>f

LEMMA AccountInductive == AccountInv /\ [AccountNext]_accountVars => AccountInv'
<1> SUFFICES ASSUME AccountInv, [AccountNext]_accountVars PROVE AccountInv'
  OBVIOUS
<1>1. AccountTypeOK'
  BY AccountTypes DEF AccountInv
<1> QED
  BY <1>1, AccountBound, AccountLost DEF AccountInv, AccountsOnlyByRace

\* Types of the accounts' state.
THEOREM AccountsTyped == AccountSpec => []AccountTypeOK
<1>1. AccountInv => AccountTypeOK
  BY DEF AccountInv
<1> QED
  BY <1>1, AccountInitial, AccountInductive, PTL DEF AccountSpec

\* Only overlapping requests open several accounts for a user, never more than
\* there are threads, and only then is an order of the user unknown
\* (services/trading/trading_account_service.py 33-57).
THEOREM AccountsRaced == AccountSpec => []AccountsOnlyByRace
<1>1. AccountInv => AccountsOnlyByRace
  BY DEF AccountInv
<1> QED
  BY <1>1, AccountInitial, AccountInductive, PTL DEF AccountSpec

-----------------------------------------------------------------------------
(* The news.                                                                *)

\* A list began no later than now, and has no gaps.
CollectionOK(c) == c.since <= released /\ Gapless(c)

\* The pages a collection has taken reach down to some release: it has every
\* well-formed one above, none below, and the next page begins no lower.
Floor(t, low) ==
  /\ \A r \in parseable : r <= news[t].got.since /\ r > low => r \in news[t].got.items
  /\ \A r \in news[t].got.items : r > low
  /\ low <= released - (news[t].page - 1) * OutputSize(t)

\* What a request knows of the releases.
RequestOK(t) ==
  /\ ~NewsAt(t, "idle") => CollectionOK(news[t].got)
  /\ NewsAt(t, "fresh") => news[t].page = 1 /\ news[t].got.items = {}
  /\ NewsAt(t, "page") => news[t].page <= MaxPages /\ \E low \in Int : Floor(t, low)

NewsInv ==
  /\ NewsTypeOK
  /\ CollectionOK(freshNews) /\ CollectionOK(staleNews)
  /\ \A t \in Thread : RequestOK(t)

LEMMA NewsConstants ==
  /\ FetchLimit \in Nat \ {0} /\ PageSize \in Nat \ {0}
  /\ MaxPages \in Nat \ {0} /\ MaxRelease \in Nat
BY NewsAssumption

LEMMA ReleaseCount ==
  ASSUME NEW found \in SUBSET Release
  PROVE  IsFiniteSet(found) /\ Cardinality(found) \in Nat
<1>1. IsFiniteSet(Release)
  BY NewsConstants, FS_Interval DEF Release
<1> QED BY <1>1, FS_Subset, FS_CardinalityType

LEMMA NewsFields ==
  ASSUME NewsTypeOK, NEW t \in Thread, ~NewsAt(t, "idle")
  PROVE  /\ news[t].page \in 1 .. MaxPages + 1 /\ news[t].page \in Int
         /\ news[t].got \in Collection
         /\ news[t].got.items \in SUBSET Release
         /\ news[t].got.since \in 0 .. MaxRelease /\ news[t].got.since \in Int
BY NewsConstants DEF NewsTypeOK, NewsAt, NewsRequest, NewsIdle, Collection

\* A larger collection wants no more.
LEMMA SizeShrinks ==
  ASSUME NEW few \in SUBSET Release, NEW many \in SUBSET Release, few \subseteq many
  PROVE  /\ Least(FetchLimit - Cardinality(few), PageSize) \in Int
         /\ Least(FetchLimit - Cardinality(many), PageSize) \in Int
         /\ Least(FetchLimit - Cardinality(many), PageSize)
              <= Least(FetchLimit - Cardinality(few), PageSize)
<1>1. Cardinality(few) \in Nat /\ Cardinality(many) \in Nat
  BY ReleaseCount
<1>2. Cardinality(few) <= Cardinality(many)
  BY ReleaseCount, FS_Subset
<1> QED BY <1>1, <1>2, NewsConstants DEF Least

LEMMA ProductShrinks ==
  ASSUME NEW p \in Nat, NEW y \in Int, NEW z \in Int, y <= z
  PROVE  p * y \in Int /\ p * z \in Int /\ (p - 1) * z \in Int /\ p * y <= p * z
<1>1. p * y \in Int /\ p * z \in Int /\ (p - 1) * z \in Int
  OBVIOUS
<1>2. p * (z - y) >= 0 /\ p * z - p * y = p * (z - y)
  OBVIOUS
<1> QED BY <1>1, <1>2

\* A list that reaches down to some release is without gaps.
LEMMA FloorGapless ==
  ASSUME NEW c \in Collection, NEW low \in Int, NEW parsed \in SUBSET Release,
         \A r \in parsed : r <= c.since /\ r > low => r \in c.items,
         \A r \in c.items : r > low
  PROVE  \A r \in parsed, older \in c.items : older < r /\ r <= c.since => r \in c.items
<1>1. \A r \in Release : r \in Int
  BY DEF Release
<1> QED BY <1>1 DEF Collection

LEMMA NewsInitial == NewsInit => NewsInv
<1> SUFFICES ASSUME NewsInit PROVE NewsInv
  OBVIOUS
<1>1. NewsTypeOK
  BY NewsConstants DEF NewsInit, NewsTypeOK, NewsRequest, NewsIdle
<1>2. CollectionOK(freshNews) /\ CollectionOK(staleNews)
  BY DEF NewsInit, CollectionOK, Gapless, NoNews
<1>3. \A t \in Thread : RequestOK(t)
  BY DEF NewsInit, RequestOK, NewsAt, NewsIdle
<1> QED BY <1>1, <1>2, <1>3 DEF NewsInv

\* What a request under way may become.
NewsStage == {"fresh", "page", "put", "putStale", "stale", "done"}
UnderWay == [at : NewsStage, page : 1 .. MaxPages + 1, got : Collection]

LEMMA RequestChanges ==
  ASSUME NEW q \in UnderWay, NEW stage \in NewsStage
  PROVE  /\ [q EXCEPT !.at = stage] \in UnderWay
         /\ \A c \in Collection : [q EXCEPT !.at = stage, !.got = c] \in UnderWay
         /\ \A found \in SUBSET Release :
              [q EXCEPT !.at = stage, !.got.items = found] \in UnderWay
         /\ \A since \in 0 .. MaxRelease :
              [q EXCEPT !.at = stage, !.got.since = since] \in UnderWay
BY DEF UnderWay, Collection

LEMMA PageTaken ==
  ASSUME NEW q \in UnderWay, NEW stage \in NewsStage, q.page <= MaxPages,
         NEW found \in SUBSET Release
  PROVE  [q EXCEPT !.got.items = found, !.page = @ + 1, !.at = stage] \in UnderWay
<1>1. q.page + 1 \in 1 .. MaxPages + 1
  BY NewsConstants DEF UnderWay
<1> QED BY <1>1 DEF UnderWay, Collection

LEMMA RequestsUnderWay ==
  /\ NewsRequest = {NewsIdle} \cup UnderWay
  /\ \A q \in NewsRequest : q.at # "idle" => q \in UnderWay
<1>1. NewsRequest = {NewsIdle} \cup UnderWay
  BY DEF NewsRequest, UnderWay, NewsStage
<1> QED BY <1>1 DEF NewsIdle

LEMMA NewsTypes ==
  ASSUME NewsTypeOK, [NewsNext]_newsVars,
         \A t \in Thread : NewsAt(t, "page") => news[t].page <= MaxPages
  PROVE  NewsTypeOK'
<1>1. ASSUME NEW wellFormed \in BOOLEAN, Appear(wellFormed)
      PROVE  NewsTypeOK'
  <2>1. released' \in 0 .. MaxRelease /\ parseable' \subseteq 1 .. released'
    BY <1>1, NewsConstants DEF NewsTypeOK, Appear
  <2>2. UNCHANGED <<freshNews, staleNews, news>>
    BY <1>1 DEF Appear
  <2> QED BY <2>1, <2>2 DEF NewsTypeOK
<1>2. ASSUME ExpireFresh \/ ExpireStale
      PROVE  NewsTypeOK'
  BY <1>2 DEF NewsTypeOK, ExpireFresh, ExpireStale
<1>3. ASSUME NEW t \in Thread, BeginNews(t)
      PROVE  NewsTypeOK'
  <2>1. [at |-> "fresh", page |-> 1, got |-> [items |-> {}, since |-> released]] \in NewsRequest
    BY NewsConstants DEF NewsRequest, Collection, NewsTypeOK
  <2> QED BY <1>3, <2>1 DEF NewsTypeOK, BeginNews
<1>4. ASSUME NEW t \in Thread, NEW readable \in BOOLEAN, ReadFreshNews(t, readable)
      PROVE  NewsTypeOK'
  <2>1. news[t] \in UnderWay
    BY <1>4, RequestsUnderWay DEF NewsTypeOK, ReadFreshNews, NewsAt
  <2> DEFINE next == IF readable /\ freshNews # NoNews
                     THEN [news[t] EXCEPT !.at = "done", !.got = freshNews]
                     ELSE [news[t] EXCEPT !.at = "page", !.got.since = released]
  <2>2. next \in NewsRequest
    <3>1. CASE readable /\ freshNews # NoNews
      BY <2>1, <3>1, RequestChanges, RequestsUnderWay DEF NewsTypeOK, NewsStage
    <3>2. CASE ~(readable /\ freshNews # NoNews)
      <4>1. released \in 0 .. MaxRelease /\ "page" \in NewsStage
        BY DEF NewsTypeOK, NewsStage
      <4>2. [news[t] EXCEPT !.at = "page", !.got.since = released] \in UnderWay
        BY <2>1, <4>1, RequestChanges
      <4> QED BY <3>2, <4>2, RequestsUnderWay
    <3> QED BY <3>1, <3>2
  <2>3. news' = [news EXCEPT ![t] = next]
    BY <1>4 DEF ReadFreshNews
  <2>4. UNCHANGED <<released, parseable, freshNews, staleNews>>
    BY <1>4 DEF ReadFreshNews
  <2> HIDE DEF next
  <2> QED BY <2>2, <2>3, <2>4 DEF NewsTypeOK
<1>5. ASSUME NEW t \in Thread, TakeNewsPage(t)
      PROVE  NewsTypeOK'
  <2> DEFINE page  == PageOf(news[t].page, OutputSize(t))
             found == news[t].got.items \cup Parsed(page)
             stage == IF Collected(t, page, found) THEN "put" ELSE "page"
  <2>1. parseable \subseteq Release
    BY NewsConstants DEF NewsTypeOK, Release
  <2>2. found \in SUBSET Release
    BY <1>5, <2>1, NewsFields DEF TakeNewsPage, NewsAt, Parsed
  <2>3. stage \in {"put", "page"}
    OBVIOUS
  <2>4. news' = [news EXCEPT ![t].got.items = found, ![t].page = @ + 1, ![t].at = stage]
    BY <1>5 DEF TakeNewsPage
  <2> HIDE DEF found, stage
  <2>5. news[t] \in UnderWay /\ news[t].page <= MaxPages
    BY <1>5, RequestsUnderWay DEF NewsTypeOK, TakeNewsPage, NewsAt
  <2> DEFINE next == [news[t] EXCEPT !.got.items = found, !.page = @ + 1, !.at = stage]
  <2>7. next \in NewsRequest
    BY <2>2, <2>3, <2>5, PageTaken, RequestsUnderWay DEF NewsStage
  <2>6. UNCHANGED <<released, parseable, freshNews, staleNews>>
    BY <1>5 DEF TakeNewsPage
  <2>8. news' = [news EXCEPT ![t] = next]
    BY <2>4
  <2> HIDE DEF next
  <2> QED BY <2>6, <2>7, <2>8 DEF NewsTypeOK
<1>6. ASSUME NEW t \in Thread, FailNewsPage(t)
      PROVE  NewsTypeOK'
  <2>1. news[t] \in UnderWay /\ "stale" \in NewsStage /\ {} \in SUBSET Release
    BY <1>6, RequestsUnderWay DEF NewsTypeOK, FailNewsPage, NewsAt, NewsStage
  <2>2. [news[t] EXCEPT !.at = "stale", !.got.items = {}] \in UnderWay
    BY <2>1, RequestChanges
  <2>3. [news[t] EXCEPT !.at = "stale", !.got.items = {}] \in NewsRequest
    BY <2>2, RequestsUnderWay
  <2> QED BY <1>6, <2>3 DEF FailNewsPage, NewsTypeOK
<1>7. ASSUME NEW t \in Thread, FailNewsSort(t) \/ AnswerNews(t)
      PROVE  NewsTypeOK'
  BY <1>7, RequestsUnderWay DEF FailNewsSort, AnswerNews, NewsTypeOK
<1>8. ASSUME NEW t \in Thread, NEW done \in BOOLEAN,
             PutFreshNews(t, done) \/ PutStaleNews(t, done)
      PROVE  NewsTypeOK'
  <2>1. news[t] \in UnderWay /\ news[t].got \in Collection
    BY <1>8, RequestsUnderWay DEF NewsTypeOK, PutFreshNews, PutStaleNews, NewsAt, UnderWay
  <2>2. /\ [news[t] EXCEPT !.at = "putStale"] \in NewsRequest
        /\ [news[t] EXCEPT !.at = "done"] \in NewsRequest
    BY <2>1, RequestChanges, RequestsUnderWay DEF NewsStage
  <2> QED BY <1>8, <2>1, <2>2 DEF PutFreshNews, PutStaleNews, NewsTypeOK
<1>9. ASSUME NEW t \in Thread, NEW readable \in BOOLEAN, ReadStaleNews(t, readable)
      PROVE  NewsTypeOK'
  <2>1. news[t] \in UnderWay
    BY <1>9, RequestsUnderWay DEF NewsTypeOK, ReadStaleNews, NewsAt
  <2> DEFINE next == IF readable /\ staleNews # NoNews
                     THEN [news[t] EXCEPT !.at = "done", !.got = staleNews]
                     ELSE NewsIdle
  <2>2. next \in NewsRequest
    BY <2>1, RequestChanges, RequestsUnderWay DEF NewsTypeOK, NewsStage
  <2>3. news' = [news EXCEPT ![t] = next]
    BY <1>9 DEF ReadStaleNews
  <2>4. UNCHANGED <<released, parseable, freshNews, staleNews>>
    BY <1>9 DEF ReadStaleNews
  <2> HIDE DEF next
  <2> QED BY <2>2, <2>3, <2>4 DEF NewsTypeOK
<1>10. CASE UNCHANGED newsVars
  BY <1>10 DEF NewsTypeOK, newsVars
<1> QED
  BY <1>1, <1>2, <1>3, <1>4, <1>5, <1>6, <1>7, <1>8, <1>9, <1>10 DEF NewsNext

\* Releases appear, none is withdrawn; what is known of the others stays true.
LEMMA KnownStays ==
  ASSUME NewsInv, NEW wellFormed \in BOOLEAN, Appear(wellFormed)
  PROVE  /\ CollectionOK(freshNews)' /\ CollectionOK(staleNews)'
         /\ \A t \in Thread : RequestOK(t)'
<1> USE DEF NewsInv
<1>1. /\ released \in Int /\ released' = released + 1
      /\ \A r \in parseable : r \in Int /\ r <= released
      /\ \A r \in parseable' : r \in parseable \/ r = released'
      /\ UNCHANGED <<freshNews, staleNews, news>>
  BY NewsConstants DEF NewsTypeOK, Appear
<1>2. ASSUME NEW c, c.since \in Int, CollectionOK(c)
      PROVE  c.since <= released' /\ c.since < released'
             /\ \A r \in parseable', older \in c.items :
                  older < r /\ r <= c.since => r \in c.items
  BY <1>1, <1>2 DEF CollectionOK, Gapless
<1>3. freshNews.since \in Int /\ staleNews.since \in Int
  BY DEF NewsTypeOK, Collection, NoNews
<1>4. CollectionOK(freshNews)' /\ CollectionOK(staleNews)'
  BY <1>1, <1>2, <1>3 DEF CollectionOK, Gapless
<1>5. ASSUME NEW t \in Thread
      PROVE  RequestOK(t)'
  <2>1. ASSUME ~NewsAt(t, "idle")
        PROVE  CollectionOK(news[t].got)'
    <3>1. news[t].got.since \in Int /\ CollectionOK(news[t].got)
      BY <2>1, NewsFields DEF RequestOK
    <3> QED BY <1>1, <1>2, <3>1 DEF CollectionOK, Gapless
  <2>2. ASSUME NewsAt(t, "page")
        PROVE  \E low \in Int : Floor(t, low)'
    <3>1. PICK low \in Int : Floor(t, low)
      BY <2>2 DEF RequestOK
    <3>2. ~NewsAt(t, "idle")
      BY <2>2 DEF NewsAt
    <3>3. news[t].got.since \in Int /\ news[t].got.since < released'
      BY <3>2, <1>2, NewsFields DEF RequestOK
    <3>4. \A r \in parseable' :
            r <= news[t].got.since /\ r > low => r \in news[t].got.items
      BY <3>1, <3>3, <1>1 DEF Floor
    <3>5. OutputSize(t) \in Int /\ OutputSize(t)' = OutputSize(t)
      BY <1>1, <3>2, NewsFields, SizeShrinks DEF OutputSize, Wanted
    <3>6. (news[t].page - 1) * OutputSize(t) \in Int
      BY <3>2, <3>5, NewsFields
    <3>7. low <= released' - (news[t].page - 1) * OutputSize(t)
      BY <3>1, <3>6, <1>1 DEF Floor
    <3>8. Floor(t, low)'
      BY <1>1, <3>1, <3>4, <3>5, <3>7 DEF Floor
    <3> QED BY <3>8
  <2> QED BY <2>1, <2>2, <1>1 DEF RequestOK, NewsAt
<1> QED BY <1>4, <1>5


LEMMA RequestKept ==
  ASSUME NewsInv, UNCHANGED <<released, parseable>>, NEW t \in Thread, news'[t] = news[t]
  PROVE  RequestOK(t)'
<1>1. RequestOK(t)
  BY DEF NewsInv
<1>2. /\ NewsAt(t, "idle")' = NewsAt(t, "idle") /\ NewsAt(t, "page")' = NewsAt(t, "page")
      /\ NewsAt(t, "fresh")' = NewsAt(t, "fresh")
  BY DEF NewsAt
<1>3. CollectionOK(news[t].got)' = CollectionOK(news[t].got)
  BY DEF CollectionOK, Gapless
<1>4. \A low \in Int : Floor(t, low)' = Floor(t, low)
  BY DEF Floor, OutputSize, Wanted
<1> QED BY <1>1, <1>2, <1>3, <1>4 DEF RequestOK

\* The page that is taken joins what was collected to what is below it: the next
\* page is no larger and so begins no lower than this one ended.
LEMMA PageJoins ==
  ASSUME NewsInv, NEW t \in Thread, TakeNewsPage(t), NEW low \in Int, Floor(t, low),
         NEW found, found = news[t].got.items \cup
                              Parsed(PageOf(news[t].page, OutputSize(t))),
         NEW next, next = Least(low, released - news[t].page * OutputSize(t))
  PROVE  /\ next \in Int /\ found \in SUBSET Release
         /\ \A r \in parseable : r <= news[t].got.since /\ r > next => r \in found
         /\ \A r \in found : r > next
         /\ next <= released - news[t].page * Least(FetchLimit - Cardinality(found), PageSize)
<1> DEFINE p == news[t].page
           z == OutputSize(t)
           page == PageOf(p, z)
<1>1. NewsTypeOK /\ ~NewsAt(t, "idle") /\ NewsAt(t, "page")
  BY DEF NewsInv, TakeNewsPage, NewsAt
<1>2. /\ p \in Nat /\ released \in Int /\ news[t].got.since \in Int
      /\ news[t].got.items \in SUBSET Release
      /\ parseable \in SUBSET Release /\ \A r \in parseable : r \in 1 .. released /\ r \in Int
  BY <1>1, NewsFields, NewsConstants DEF NewsTypeOK, Release
<1>3. found \in SUBSET Release /\ \A r \in found : r \in Int
  <2>1. Parsed(page) \subseteq parseable
    BY DEF Parsed
  <2>2. found \in SUBSET Release
    BY <1>2, <2>1
  <2> QED BY <2>2 DEF Release
<1>4. /\ z \in Int /\ Least(FetchLimit - Cardinality(found), PageSize) \in Int
      /\ Least(FetchLimit - Cardinality(found), PageSize) <= z
  BY <1>2, <1>3, SizeShrinks DEF OutputSize, Wanted
<1>5. p * z \in Int /\ (p - 1) * z \in Int
  BY <1>2, <1>4, ProductShrinks
<1>6. p * Least(FetchLimit - Cardinality(found), PageSize) \in Int
      /\ p * Least(FetchLimit - Cardinality(found), PageSize) <= p * z
  BY <1>2, <1>4, ProductShrinks
<1>7. \A r \in page : r \in Int /\ released - r <= p * z - 1
  BY <1>2, <1>5 DEF PageOf
<1>8. \A r \in 1 .. released :
        released - r >= (p - 1) * z /\ released - r <= p * z - 1 => r \in page
  BY <1>2, <1>5 DEF PageOf
<1>9. /\ \A r \in parseable : r <= news[t].got.since /\ r > low => r \in news[t].got.items
      /\ \A r \in news[t].got.items : r > low
      /\ low <= released - (p - 1) * z
  BY DEF Floor
<1>10. found = news[t].got.items \cup (page \cap parseable)
  BY DEF Parsed
<1> HIDE DEF p, z, page
<1>11. next = Least(low, released - p * z)
  BY DEF p, z
<1>12. next \in Int /\ next <= low /\ next <= released - p * z
       /\ (next = low \/ next = released - p * z)
  BY <1>2, <1>5, <1>11 DEF Least
<1>13. ASSUME NEW r \in parseable, r <= news[t].got.since, r > next
       PROVE  r \in found
  <2>1. CASE r > low
    BY <2>1, <1>9, <1>10, <1>13
  <2>2. CASE r <= low
    <3>1. released - r >= (p - 1) * z /\ released - r <= p * z - 1
      BY <2>2, <1>2, <1>5, <1>9, <1>12, <1>13
    <3> QED BY <3>1, <1>2, <1>8, <1>10
  <2> QED BY <2>1, <2>2, <1>2
<1>14. ASSUME NEW r \in found
       PROVE  r > next
  <2>1. CASE r \in news[t].got.items
    BY <2>1, <1>3, <1>9, <1>12
  <2>2. CASE r \in page
    BY <2>2, <1>2, <1>5, <1>7, <1>12
  <2> QED BY <2>1, <2>2, <1>10
<1>15. next <= released - p * Least(FetchLimit - Cardinality(found), PageSize)
  BY <1>2, <1>5, <1>6, <1>12
<1> QED BY <1>3, <1>12, <1>13, <1>14, <1>15 DEF p


LEMMA PageKnown ==
  ASSUME NewsInv, NEW t \in Thread, TakeNewsPage(t)
  PROVE  RequestOK(t)'
<1> DEFINE page  == PageOf(news[t].page, OutputSize(t))
           found == news[t].got.items \cup Parsed(page)
           stage == IF Collected(t, page, found) THEN "put" ELSE "page"
<1>1. NewsTypeOK /\ ~NewsAt(t, "idle") /\ NewsAt(t, "page") /\ RequestOK(t)
  BY DEF NewsInv, TakeNewsPage, NewsAt
<1>2. PICK low \in Int : Floor(t, low)
  BY <1>1 DEF RequestOK
<1>3. /\ news[t].page \in Int /\ news[t].page <= MaxPages
      /\ news[t].got \in Collection /\ CollectionOK(news[t].got)
  BY <1>1, NewsFields DEF RequestOK
<1>4. news[t] \in UnderWay
  BY <1>1, RequestsUnderWay DEF NewsTypeOK, NewsAt
<1>5. /\ news'[t] = [news[t] EXCEPT !.got.items = found, !.page = @ + 1, !.at = stage]
      /\ UNCHANGED <<released, parseable>>
  BY <1>1 DEF TakeNewsPage, NewsTypeOK
<1>6. stage = "page" => news[t].page # MaxPages
  BY DEF Collected
<1>7. PICK next : next = Least(low, released - news[t].page * OutputSize(t))
  OBVIOUS
<1>8. /\ next \in Int /\ found \in SUBSET Release
      /\ \A r \in parseable : r <= news[t].got.since /\ r > next => r \in found
      /\ \A r \in found : r > next
      /\ next <= released - news[t].page * Least(FetchLimit - Cardinality(found), PageSize)
  BY <1>2, <1>7, PageJoins
<1> HIDE DEF found, stage
<1>9. /\ news'[t].at = stage /\ news'[t].page = news[t].page + 1
      /\ news'[t].got.items = found /\ news'[t].got.since = news[t].got.since
  BY <1>4, <1>5 DEF UnderWay, Collection
<1>12. stage # "fresh"
  BY DEF stage
<1>10. ASSUME NewsAt(t, "page")'
       PROVE  news'[t].page <= MaxPages /\ Floor(t, next)'
  <2>1. news[t].page + 1 <= MaxPages
    BY <1>3, <1>6, <1>9, <1>10, NewsConstants DEF NewsAt
  <2>2. (news[t].page + 1) - 1 = news[t].page
    BY <1>3
  <2>3. OutputSize(t)' = Least(FetchLimit - Cardinality(found), PageSize)
    BY <1>9 DEF OutputSize, Wanted
  <2> QED BY <2>1, <2>2, <2>3, <1>5, <1>8, <1>9 DEF Floor
<1>11. CollectionOK(news[t].got)'
  <2>1. news[t].got.since <= released'
    BY <1>3, <1>5 DEF CollectionOK
  <2>2. \A r \in parseable : r \in Release
    BY <1>1, NewsConstants DEF NewsTypeOK, Release
  <2>3. news[t].got.since \in Int /\ \A r \in Release : r \in Int
    BY <1>1, NewsFields DEF Release
  <2>4. \A r \in parseable, older \in found :
          older < r /\ r <= news[t].got.since => r \in found
    BY <1>8, <2>2, <2>3
  <2> QED BY <2>1, <2>4, <1>5, <1>9 DEF CollectionOK, Gapless
<1> QED BY <1>8, <1>9, <1>10, <1>11, <1>12 DEF RequestOK, NewsAt

\* A request that begins has collected nothing yet.
LEMMA RequestBegun ==
  ASSUME NewsInv, NEW t \in Thread, BeginNews(t)
  PROVE  RequestOK(t)'
<1>1. /\ news'[t] = [at |-> "fresh", page |-> 1, got |-> [items |-> {}, since |-> released]]
      /\ UNCHANGED <<released, parseable>> /\ released \in Int
  BY DEF NewsInv, NewsTypeOK, BeginNews
<1> QED BY <1>1 DEF RequestOK, CollectionOK, Gapless, NewsAt

\* One that finds a fresh copy answers it, one that does not asks for pages.
LEMMA RequestLookedUp ==
  ASSUME NewsInv, NEW t \in Thread, NEW readable \in BOOLEAN, ReadFreshNews(t, readable)
  PROVE  RequestOK(t)'
<1>1. /\ news[t] \in UnderWay /\ RequestOK(t) /\ NewsAt(t, "fresh") /\ released \in Int
      /\ UNCHANGED <<released, parseable>> /\ CollectionOK(freshNews)
  BY RequestsUnderWay DEF NewsInv, NewsTypeOK, ReadFreshNews, NewsAt
<1>2. CASE readable /\ freshNews # NoNews
  <2>1. news'[t] = [news[t] EXCEPT !.at = "done", !.got = freshNews]
    BY <1>2 DEF ReadFreshNews, NewsInv, NewsTypeOK
  <2>2. news'[t].at = "done" /\ news'[t].got = freshNews
    BY <1>1, <2>1 DEF UnderWay
  <2>3. CollectionOK(news[t].got)'
    BY <1>1, <2>2 DEF CollectionOK, Gapless
  <2> QED BY <2>2, <2>3 DEF RequestOK, NewsAt
<1>3. CASE ~(readable /\ freshNews # NoNews)
  <2>1. news'[t] = [news[t] EXCEPT !.at = "page", !.got.since = released]
    BY <1>3 DEF ReadFreshNews, NewsInv, NewsTypeOK
  <2>2. /\ news'[t].at = "page" /\ news'[t].page = 1
        /\ news'[t].got.items = {} /\ news'[t].got.since = released
    BY <1>1, <2>1 DEF UnderWay, Collection, RequestOK
  <2>3. CollectionOK(news[t].got)'
    BY <1>1, <2>2 DEF CollectionOK, Gapless
  <2>4. OutputSize(t)' = Least(FetchLimit - Cardinality({}), PageSize)
    BY <2>2 DEF OutputSize, Wanted
  <2>5. OutputSize(t)' \in Int
    BY <2>4, SizeShrinks
  <2>6. released <= released' - (news'[t].page - 1) * OutputSize(t)'
    BY <1>1, <2>2, <2>5
  <2>7. \A r \in parseable : r \in Int /\ r <= released
    BY <1>1 DEF NewsInv, NewsTypeOK
  <2>8. PICK low \in Int : low = released
    BY <1>1
  <2>9. \A r \in parseable : ~(r <= news'[t].got.since /\ r > low)
    BY <1>1, <2>2, <2>7, <2>8
  <2>10. Floor(t, low)'
    BY <1>1, <2>2, <2>6, <2>8, <2>9 DEF Floor
  <2> QED BY <1>1, <2>2, <2>3, <2>10, NewsConstants DEF RequestOK, NewsAt
<1> QED BY <1>2, <1>3

\* One that failed, and one that is stored, asks for no more pages.
LEMMA RequestPassedOn ==
  ASSUME NewsInv, NEW t \in Thread,
         \/ FailNewsPage(t)
         \/ \E done \in BOOLEAN : PutFreshNews(t, done) \/ PutStaleNews(t, done)
  PROVE  RequestOK(t)'
<1>1. /\ news[t] \in UnderWay /\ RequestOK(t) /\ ~NewsAt(t, "idle")
      /\ UNCHANGED <<released, parseable>>
  BY RequestsUnderWay
     DEF NewsInv, NewsTypeOK, FailNewsPage, PutFreshNews, PutStaleNews, NewsAt
<1>2. CASE FailNewsPage(t)
  <2>1. news'[t] = [news[t] EXCEPT !.at = "stale", !.got.items = {}]
    BY <1>2 DEF FailNewsPage, NewsInv, NewsTypeOK
  <2>2. /\ news'[t].at = "stale" /\ news'[t].got.items = {}
        /\ news'[t].got.since = news[t].got.since
    BY <1>1, <2>1 DEF UnderWay, Collection
  <2> QED BY <1>1, <2>2 DEF RequestOK, NewsAt, CollectionOK, Gapless
<1>3. CASE \E done \in BOOLEAN : PutFreshNews(t, done) \/ PutStaleNews(t, done)
  <2>1. PICK stage \in {"putStale", "done"} : news'[t] = [news[t] EXCEPT !.at = stage]
    BY <1>3 DEF PutFreshNews, PutStaleNews, NewsInv, NewsTypeOK
  <2>2. news'[t].at = stage /\ news'[t].got = news[t].got
    BY <1>1, <2>1 DEF UnderWay
  <2> QED BY <1>1, <2>2 DEF RequestOK, NewsAt, CollectionOK, Gapless
<1> QED BY <1>2, <1>3

\* One without a page reads the stale copy, or fails.
LEMMA RequestServedStale ==
  ASSUME NewsInv, NEW t \in Thread, NEW readable \in BOOLEAN, ReadStaleNews(t, readable)
  PROVE  RequestOK(t)'
<1>1. /\ news[t] \in UnderWay
      /\ UNCHANGED <<released, parseable>> /\ CollectionOK(staleNews)
  BY RequestsUnderWay DEF NewsInv, NewsTypeOK, ReadStaleNews, NewsAt
<1>2. CASE readable /\ staleNews # NoNews
  <2>1. news'[t] = [news[t] EXCEPT !.at = "done", !.got = staleNews]
    BY <1>2 DEF ReadStaleNews, NewsInv, NewsTypeOK
  <2>2. news'[t].at = "done" /\ news'[t].got = staleNews
    BY <1>1, <2>1 DEF UnderWay
  <2>3. CollectionOK(news[t].got)'
    BY <1>1, <2>2 DEF CollectionOK, Gapless
  <2> QED BY <2>2, <2>3 DEF RequestOK, NewsAt
<1>3. CASE ~(readable /\ staleNews # NoNews)
  BY <1>3 DEF ReadStaleNews, RequestOK, NewsAt, NewsIdle, NewsInv, NewsTypeOK
<1> QED BY <1>2, <1>3

\* The copies are lists that were good, or none.
LEMMA CopiesKnown ==
  ASSUME NewsInv, [NewsNext]_newsVars, ~\E wellFormed \in BOOLEAN : Appear(wellFormed)
  PROVE  /\ UNCHANGED <<released, parseable>>
         /\ CollectionOK(freshNews)' /\ CollectionOK(staleNews)'
<1>1. UNCHANGED <<released, parseable>>
  BY DEF NewsNext, newsVars, ExpireFresh, ExpireStale, BeginNews, TakeNewsPage, FailNewsPage,
         FailNewsSort, ReadFreshNews, PutFreshNews, PutStaleNews, ReadStaleNews, AnswerNews
<1>2. /\ \/ freshNews' \in {freshNews, NoNews}
         \/ \E t \in Thread : NewsAt(t, "put") /\ freshNews' = news[t].got
      /\ \/ staleNews' \in {staleNews, NoNews}
         \/ \E t \in Thread : NewsAt(t, "putStale") /\ staleNews' = news[t].got
  BY DEF NewsNext, newsVars, ExpireFresh, ExpireStale, BeginNews, TakeNewsPage, FailNewsPage,
         FailNewsSort, ReadFreshNews, PutFreshNews, PutStaleNews, ReadStaleNews, AnswerNews
<1>3. /\ CollectionOK(freshNews) /\ CollectionOK(staleNews) /\ CollectionOK(NoNews)
      /\ \A t \in Thread : NewsAt(t, "put") \/ NewsAt(t, "putStale") =>
           CollectionOK(news[t].got)
  BY DEF NewsInv, NewsTypeOK, RequestOK, NewsAt, CollectionOK, Gapless, NoNews
<1>4. CollectionOK(freshNews') /\ CollectionOK(staleNews')
  BY <1>2, <1>3
<1> QED BY <1>1, <1>4 DEF CollectionOK, Gapless

LEMMA NewsInductive == NewsInv /\ [NewsNext]_newsVars => NewsInv'
<1> SUFFICES ASSUME NewsInv, [NewsNext]_newsVars PROVE NewsInv'
  OBVIOUS
<1>1. NewsTypeOK'
  BY NewsTypes DEF NewsInv, RequestOK
<1>2. CASE \E wellFormed \in BOOLEAN : Appear(wellFormed)
  BY <1>1, <1>2, KnownStays DEF NewsInv
<1>3. CASE ~\E wellFormed \in BOOLEAN : Appear(wellFormed)
  <2>1. /\ UNCHANGED <<released, parseable>>
        /\ CollectionOK(freshNews)' /\ CollectionOK(staleNews)'
    BY <1>3, CopiesKnown
  <2>2. ASSUME NEW t \in Thread
        PROVE  RequestOK(t)'
    <3>1. CASE news'[t] = news[t]
      BY <2>1, <3>1, RequestKept
    <3>2. CASE BeginNews(t)
      BY <3>2, RequestBegun
    <3>3. CASE TakeNewsPage(t)
      BY <3>3, PageKnown
    <3>4. CASE \E readable \in BOOLEAN : ReadFreshNews(t, readable)
      BY <3>4, RequestLookedUp
    <3>5. CASE \/ FailNewsPage(t)
               \/ \E done \in BOOLEAN : PutFreshNews(t, done) \/ PutStaleNews(t, done)
      BY <3>5, RequestPassedOn
    <3>6. CASE \E readable \in BOOLEAN : ReadStaleNews(t, readable)
      BY <3>6, RequestServedStale
    <3>7. CASE FailNewsSort(t) \/ AnswerNews(t)
      BY <3>7 DEF FailNewsSort, AnswerNews, RequestOK, NewsAt, NewsIdle, NewsInv, NewsTypeOK
    <3>8. CASE UNCHANGED newsVars \/ ExpireFresh \/ ExpireStale
      <4>1. news'[t] = news[t]
        BY <3>8 DEF newsVars, ExpireFresh, ExpireStale
      <4> QED BY <3>1, <4>1
    <3>9. ASSUME NEW u \in Thread, u # t,
                 \/ BeginNews(u) \/ TakeNewsPage(u) \/ FailNewsPage(u) \/ FailNewsSort(u)
                 \/ \E readable \in BOOLEAN : ReadFreshNews(u, readable)
                 \/ \E done \in BOOLEAN : PutFreshNews(u, done)
                 \/ \E done \in BOOLEAN : PutStaleNews(u, done)
                 \/ \E readable \in BOOLEAN : ReadStaleNews(u, readable)
                 \/ AnswerNews(u)
          PROVE  RequestOK(t)'
      <4>1. news'[t] = news[t]
        BY <3>9 DEF NewsInv, NewsTypeOK, BeginNews, TakeNewsPage, FailNewsPage, FailNewsSort,
                    ReadFreshNews, PutFreshNews, PutStaleNews, ReadStaleNews, AnswerNews
      <4> QED BY <3>1, <4>1
    <3> QED
      BY <1>3, <3>2, <3>3, <3>4, <3>5, <3>6, <3>7, <3>8, <3>9 DEF NewsNext
  <2> QED BY <1>1, <2>1, <2>2 DEF NewsInv
<1> QED BY <1>2, <1>3

\* Types of the news service's state.
THEOREM NewsTyped == NewsSpec => []NewsTypeOK
<1>1. NewsInv => NewsTypeOK
  BY DEF NewsInv
<1> QED BY <1>1, NewsInitial, NewsInductive, PTL DEF NewsSpec

\* News have no holes, whatever the sizes and numbers of pages, and however many
\* releases appear while they are fetched (services/api/news_provider.py 106-209).
THEOREM NewsGapless == NewsSpec => []NewsWithoutGaps
<1>1. NewsInv => NewsWithoutGaps
  BY DEF NewsInv, NewsWithoutGaps, RequestOK, CollectionOK
<1> QED BY <1>1, NewsInitial, NewsInductive, PTL DEF NewsSpec

-----------------------------------------------------------------------------
(* The services together.                                                   *)

\* A step of one service is a step of it that the others do not see.
LEMMA StepOfOne ==
  ASSUME [ServicesNext]_servicesVars
  PROVE  /\ [WatchlistNext]_watchlistVars /\ [AccountNext]_accountVars
         /\ [ValuationNext]_valuationVars /\ [NewsNext]_newsVars
         /\ [QuoteNext]_quoteVars /\ [RunnerNext]_runnerVars
<1>1. CASE ServicesNext
  BY <1>1 DEF ServicesNext, Others
<1>2. CASE UNCHANGED servicesVars
  BY <1>2 DEF servicesVars
<1> QED
  BY <1>1, <1>2

\* The services together behave as each of them does alone, whichever is chosen.
THEOREM ServicesAreEach ==
  ServicesSpec => /\ WatchlistSpec /\ AccountSpec /\ ValuationSpec
                  /\ NewsSpec /\ QuoteSpec /\ RunnerSpec
<1>1. ServicesInit => /\ WatchlistInit /\ AccountInit /\ ValuationInit
                      /\ NewsInit /\ QuoteInit /\ RunnerInit
  BY DEF ServicesInit
<1>2. [ServicesNext]_servicesVars =>
        /\ [WatchlistNext]_watchlistVars /\ [AccountNext]_accountVars
        /\ [ValuationNext]_valuationVars /\ [NewsNext]_newsVars
        /\ [QuoteNext]_quoteVars /\ [RunnerNext]_runnerVars
  BY StepOfOne
<1> QED
  BY <1>1, <1>2, PTL DEF ServicesSpec, WatchlistSpec, AccountSpec, ValuationSpec,
     NewsSpec, QuoteSpec, RunnerSpec

\* Types of the state of all services.
THEOREM ServicesTyped == ServicesSpec => []ServicesTypeOK
<1>1. WatchlistTypeOK /\ AccountTypeOK /\ ValuationTypeOK /\ NewsTypeOK /\ QuoteTypeOK
        /\ RunnerTypeOK => ServicesTypeOK
  BY DEF ServicesTypeOK
<1> QED
  BY <1>1, ServicesAreEach, WatchlistTyped, AccountsTyped, ValuationsTyped, NewsTyped,
     QuotesTyped, RunnerTyped, PTL

\* What each service guarantees alone holds where all of them are.
THEOREM ServicesSafe ==
  ServicesSpec => [](/\ WatchlistOverrun /\ AccountsOnlyByRace /\ NewsWithoutGaps
                     /\ ServedAgeBounded /\ RedisIsOptional /\ EquityExplained
                     /\ TradedQuotesCurrent /\ RunnerAccounts)
BY ServicesAreEach, WatchlistBounded, AccountsRaced, NewsGapless, ValuationsUseSnapshots,
   AgesBounded, RedisOptional, EquityAccountedFor, QuotesCurrent, RunnerAccountable, PTL
=============================================================================
