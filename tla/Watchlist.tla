------------------------------ MODULE Watchlist -------------------------------
(***************************************************************************)
(* The watchlist API: services/api/watchlist/service.py over the           *)
(* watchlist_items table.                                                  *)
(*                                                                         *)
(* An addition looks the symbol up, counts the user's items and inserts:   *)
(* three statements of one READ COMMITTED transaction, which other         *)
(* requests may come between.  Only the unique key (user_id, symbol) is    *)
(* enforced by the database: an INSERT or a DELETE of a key waits for the  *)
(* transaction that holds it.  Listing a watchlist is one SELECT and       *)
(* changes nothing.                                                        *)
(***************************************************************************)
EXTENDS ApiThreads

CONSTANTS
  User,
  Ticker,     \* normalized symbols
  MaxItems    \* max_items: settings.market_batch_max_symbols

ASSUME WatchlistAssumption ==
  /\ MaxItems \in Nat \ {0}
  /\ IsFiniteSet(User) /\ IsFiniteSet(Ticker)

VARIABLES
  items,      \* committed rows: the keys <<user, symbol>>
  watch       \* the watchlist request of each thread

watchlistVars == <<items, watch>>

Key == User \X Ticker

\* Where a request is.  "row" says whether the row it read or inserted exists.
Resting == [at |-> "idle"]
Request == {Resting} \cup
  [at : {"lookup", "count", "insert", "inserted", "refresh",
         "find", "delete", "deleted", "unmatched"},
   key : Key, row : BOOLEAN]

-----------------------------------------------------------------------------

Tickers(u) == {k \in items : k[1] = u}

\* The additions of user u that have counted u's items and not committed yet.
Counted(u) ==
  {t \in Thread : /\ watch[t].at \in {"insert", "inserted"}
                  /\ watch[t].key[1] = u}

WatchlistTypeOK ==
  /\ items \subseteq Key
  /\ watch \in [Thread -> Request]

WatchlistInit ==
  /\ items = {}
  /\ watch = [t \in Thread |-> Resting]

-----------------------------------------------------------------------------

At(t, stage) == watch[t].at = stage

MoveTo(t, stage) == watch' = [watch EXCEPT ![t].at = stage]

\* Commit, rollback and the end of the request.
Answer(t) == watch' = [watch EXCEPT ![t] = Resting]

\* Another transaction has written this key and not ended.
HeldByOther(t) ==
  \E o \in Thread \ {t} : /\ watch[o].at \in {"inserted", "deleted"}
                          /\ watch[o].key = watch[t].key

BeginWatch(t, stage, k) ==
  /\ At(t, "idle")
  /\ watch' = [watch EXCEPT ![t] = [at |-> stage, key |-> k, row |-> FALSE]]
  /\ UNCHANGED items

\* get_by_user_and_symbol of an addition: a symbol already there is refused.
LookUp(t) ==
  /\ At(t, "lookup")
  /\ IF watch[t].key \in items THEN Answer(t) ELSE MoveTo(t, "count")
  /\ UNCHANGED items

\* Mutant: one more item than max_items passes.
HasRoomAndOne(u) == Cardinality(Tickers(u)) <= MaxItems

HasRoom(u) == Cardinality(Tickers(u)) < MaxItems

Count(t) ==
  /\ At(t, "count")
  /\ IF HasRoom(watch[t].key[1]) THEN MoveTo(t, "insert") ELSE Answer(t)
  /\ UNCHANGED items

\* The INSERT waits for the holder of its key; if the key is there then, it is
\* an IntegrityError and the request ends.
Insert(t) ==
  /\ At(t, "insert") /\ ~HeldByOther(t)
  /\ IF watch[t].key \in items
     THEN Answer(t)
     ELSE watch' = [watch EXCEPT ![t].at = "inserted", ![t].row = TRUE]
  /\ UNCHANGED items

CommitInsert(t) ==
  /\ At(t, "inserted")
  /\ items' = items \cup {watch[t].key}
  /\ MoveTo(t, "refresh")

\* The row is read again after the commit.  It may be gone by then: refresh
\* raises and the addition, though committed, is answered with an error.
Refresh(t) ==
  /\ At(t, "refresh")
  /\ Answer(t)
  /\ UNCHANGED items

\* get_by_user_and_symbol of a deletion.
FindRow(t) ==
  /\ At(t, "find")
  /\ IF watch[t].key \in items
     THEN watch' = [watch EXCEPT ![t].at = "delete", ![t].row = TRUE]
     ELSE Answer(t)
  /\ UNCHANGED items

\* DELETE by the id of the row found: it waits for another deletion of this row,
\* and matches nothing, with a warning only, when the row is gone.
DeleteRow(t) ==
  /\ At(t, "delete")
  /\ watch[t].row => ~HeldByOther(t)
  /\ MoveTo(t, IF watch[t].row THEN "deleted" ELSE "unmatched")
  /\ UNCHANGED items

\* Every request that knew the row knows one that no longer exists.
CommitDelete(t) ==
  /\ At(t, "deleted")
  /\ items' = items \ {watch[t].key}
  /\ watch' = [o \in Thread |->
       IF o = t THEN Resting
       ELSE IF /\ watch[o].at \in {"delete", "refresh"}
               /\ watch[o].key = watch[t].key
            THEN [watch[o] EXCEPT !.row = FALSE]
            ELSE watch[o]]

CommitNothing(t) == At(t, "unmatched") /\ Answer(t) /\ UNCHANGED items

\* A statement or the commit fails, or the client is gone: nothing is written.
FailWatch(t) == ~At(t, "idle") /\ Answer(t) /\ UNCHANGED items

WatchlistStep(t) ==
  \/ \E stage \in {"lookup", "find"}, k \in Key : BeginWatch(t, stage, k)
  \/ LookUp(t) \/ Count(t) \/ Insert(t) \/ CommitInsert(t) \/ Refresh(t)
  \/ FindRow(t) \/ DeleteRow(t) \/ CommitDelete(t) \/ CommitNothing(t)
  \/ FailWatch(t)

WatchlistNext == \E t \in Thread : WatchlistStep(t)

WatchlistSpec == WatchlistInit /\ [][WatchlistNext]_watchlistVars

-----------------------------------------------------------------------------

\* max_items is checked before the insertion and no lock is taken: with n threads
\* a user ends up with at most n - 1 items too many, whatever comes between the
\* count and the commit, and never with more (service.py 139-160).
WatchlistOverrun ==
  \A u \in User :
    Cardinality(Tickers(u)) + Cardinality(Counted(u)) <=
      MaxItems + Cardinality(Thread) - 1
=============================================================================
