---------------------------- MODULE TradingAccounts ----------------------------
(***************************************************************************)
(* Opening a paper account, and finding it again:                          *)
(* services/trading/trading_account_service.py and the user's account and  *)
(* orders as trading_query_service.py and the trading routes look them up. *)
(*                                                                         *)
(* A user is meant to have one account, but only a SELECT before the       *)
(* INSERT says so: paper_accounts.user_id has an index and no unique key.  *)
(* Every later request of the user takes the first row a SELECT without an *)
(* ORDER BY returns.                                                       *)
(***************************************************************************)
EXTENDS ApiThreads

CONSTANTS
  Owner,      \* user ids, stripped
  Account     \* the account ids there can be

ASSUME AccountAssumption == IsFiniteSet(Owner) /\ IsFiniteSet(Account)

VARIABLES
  accounts,   \* rows of paper_accounts: <<user, account>>
  orders,     \* accounts that orders were placed with
  opening,    \* the open_account request of each thread
  lost        \* ghost: users who were told that an order of theirs is unknown

accountVars == <<accounts, orders, opening, lost>>

NoOpening == [at |-> "idle"]
Opening == {NoOpening} \cup [at : {"check", "insert"}, user : Owner]

AccountTypeOK ==
  /\ accounts \subseteq Owner \X Account
  /\ orders \subseteq Account
  /\ opening \in [Thread -> Opening]
  /\ lost \subseteq Owner

AccountInit ==
  /\ accounts = {} /\ orders = {} /\ lost = {}
  /\ opening = [t \in Thread |-> NoOpening]

-----------------------------------------------------------------------------

OpeningAt(t, stage) == opening[t].at = stage

AccountsOf(u) == {a \in Account : <<u, a>> \in accounts}

\* The requests that found no account of user u and have not committed one.
Racing(u) == {t \in Thread : OpeningAt(t, "insert") /\ opening[t].user = u}

\* Mutant: the lookup takes the id of the header unstripped, and finds nothing.
HasAccountUnstripped(u) == FALSE

\* get_by_user_id returns a row.
HasAccount(u) == AccountsOf(u) # {}

BeginOpening(t, u) ==
  /\ OpeningAt(t, "idle")
  /\ opening' = [opening EXCEPT ![t] = [at |-> "check", user |-> u]]
  /\ UNCHANGED <<accounts, orders, lost>>

\* "paper account already exists", or on to the insertion.
CheckNone(t) ==
  /\ OpeningAt(t, "check")
  /\ opening' = [opening EXCEPT ![t] =
       IF HasAccount(opening[t].user) THEN NoOpening ELSE [@ EXCEPT !.at = "insert"]]
  /\ UNCHANGED <<accounts, orders, lost>>

\* The commit flushes the new row, with an id of its own.
CommitAccount(t, a) ==
  /\ OpeningAt(t, "insert")
  /\ \A u \in Owner : a \notin AccountsOf(u)
  /\ accounts' = accounts \cup {<<opening[t].user, a>>}
  /\ opening' = [opening EXCEPT ![t] = NoOpening]
  /\ UNCHANGED <<orders, lost>>

\* A statement fails or the process ends: the unit of work rolls back.
FailOpening(t) ==
  /\ ~OpeningAt(t, "idle")
  /\ opening' = [opening EXCEPT ![t] = NoOpening]
  /\ UNCHANGED <<accounts, orders, lost>>

\* A request resolves the account of its user - any of them - and places an order.
PlaceOrder(u, a) ==
  /\ a \in AccountsOf(u)
  /\ orders' = orders \cup {a}
  /\ UNCHANGED <<accounts, opening, lost>>

\* A request resolves account a of its user and looks for an order of account b,
\* by id or in a list: an order of another account is not found.
LookForOrder(u, a, b) ==
  /\ a \in AccountsOf(u) /\ b \in AccountsOf(u) \cap orders
  /\ lost' = IF a = b THEN lost ELSE lost \cup {u}
  /\ UNCHANGED <<accounts, orders, opening>>

AccountNext ==
  \/ \E t \in Thread : \/ \E u \in Owner : BeginOpening(t, u)
                       \/ CheckNone(t) \/ FailOpening(t)
                       \/ \E a \in Account : CommitAccount(t, a)
  \/ \E u \in Owner, a \in Account : PlaceOrder(u, a)
  \/ \E u \in Owner, a, b \in Account : LookForOrder(u, a, b)

AccountSpec == AccountInit /\ [][AccountNext]_accountVars

-----------------------------------------------------------------------------

\* A user gets a second account only from requests that overlap: those that found
\* none before the first one committed.  With n threads a user has at most n
\* accounts ever, none of them opened by a request that began after the first
\* account was committed, and with one account no order of the user is ever
\* unknown (trading_account_service.py 33-57).
AccountsOnlyByRace ==
  \A u \in Owner :
    /\ Cardinality(AccountsOf(u)) + Cardinality(Racing(u)) <= Cardinality(Thread)
    /\ u \in lost => Cardinality(AccountsOf(u)) > 1
=============================================================================
