------------------------------ MODULE TaskBoard ------------------------------
(***************************************************************************)
(* What the hydrate queue promises to somebody who only watches the states *)
(* of the tasks: tasks are served one at a time, in the order in which     *)
(* they became visible, each of them once, and a verdict is final.         *)
(***************************************************************************)
EXTENDS Naturals, Sequences

CONSTANT Ids              \* the task numbers that may be handed out

VARIABLES
  board,                  \* the state every task is in
  line                    \* the tasks still to be served, oldest first

vars == <<board, line>>

Verdicts == {"done", "failed"}

Init ==
  /\ board = [id \in Ids |-> "absent"]
  /\ line = <<>>

Submit(id) ==
  /\ board[id] = "absent"
  /\ board' = [board EXCEPT ![id] = "queued"]
  /\ line' = Append(line, id)

\* The oldest task is taken up, and only when no other one is being served.
Start ==
  /\ line # <<>>
  /\ \A id \in Ids : board[id] # "running"
  /\ board' = [board EXCEPT ![Head(line)] = "running"]
  /\ line' = Tail(line)

Finish(id) ==
  /\ board[id] = "running"
  /\ \E v \in Verdicts : board' = [board EXCEPT ![id] = v]
  /\ UNCHANGED line

Next ==
  \/ Start
  \/ \E id \in Ids : Submit(id) \/ Finish(id)

Spec == Init /\ [][Next]_vars

\* With a server that neither hangs in a task nor leaves the line standing.
FairSpec ==
  /\ Spec
  /\ WF_vars(Start)
  /\ \A id \in Ids : WF_vars(Finish(id))

==============================================================================
