------------------------------ MODULE ServerPool ------------------------------
(***************************************************************************)
(* The thread pool of the HTTP server (src/src/httplib.h): connections     *)
(* wait in one list without a limit, and every thread takes the oldest and *)
(* stays with it until its handler has answered.  Threads are alike, so    *)
(* there is only their number and what is being handled.                   *)
(***************************************************************************)
EXTENDS Naturals, Sequences, FiniteSets

CONSTANTS
  Threads,                (* how many: max(8, cores - 1)                   *)
  Tasks                   (* what a connection may ask for                 *)

VARIABLES
  jobs_,                  (* the list of waiting connections               *)
  handled                 (* the connections that have a thread            *)

PoolInit == jobs_ = <<>> /\ handled = {}

PoolTypeOK ==
  /\ jobs_ \in Seq(Tasks)
  /\ handled \in SUBSET Tasks
  /\ Cardinality(handled) <= Threads

InPool(x) == x \in handled \/ \E i \in 1..Len(jobs_) : jobs_[i] = x

\* A connection is accepted: ThreadPool::enqueue.
Enqueue(x) == jobs_' = Append(jobs_, x) /\ UNCHANGED handled

\* A free thread wakes up and takes the oldest connection.
TakesUp ==
  /\ Cardinality(handled) < Threads
  /\ jobs_ # <<>>
  /\ handled' = handled \cup {Head(jobs_)}
  /\ jobs_' = Tail(jobs_)

\* The handler has answered and the connection is closed.
Leaves(x) ==
  /\ x \in handled
  /\ handled' = handled \ {x}
  /\ UNCHANGED jobs_

==============================================================================
