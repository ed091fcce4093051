----------------------------- MODULE ApiThreads -------------------------------
(***************************************************************************)
(* The API process runs its routes in a pool of threads; each serves one   *)
(* request at a time (services/api, FastAPI's synchronous routes).         *)
(* Redis keeps copies of what requests fetched, each with a time to live.  *)
(***************************************************************************)
EXTENDS Integers, FiniteSets

CONSTANTS
  Thread,     \* the threads that serve requests, of all API processes
  Symbol,     \* market symbols, normalized
  MaxHold     \* bound on the time a request takes

ASSUME ThreadAssumption ==
  /\ IsFiniteSet(Thread)
  /\ MaxHold \in Nat

NoCopy == [age |-> 0, left |-> 0]

\* Time passes for a copy in Redis: its data age, and it expires.
Aged(copy) ==
  IF copy.left <= 1 THEN NoCopy
  ELSE [copy EXCEPT !.age = @ + 1, !.left = @ - 1]
=============================================================================
