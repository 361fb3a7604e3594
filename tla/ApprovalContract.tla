-------------------------- MODULE ApprovalContract --------------------------
(***************************************************************************)
(* What an agent is promised about one request for approval, whoever       *)
(* crashes and however clicks, replies and timers meet: it is decided at   *)
(* most once and for good, and the decision has at most one outcome, which *)
(* follows it - the action runs, or a note is written.  A request that     *)
(* could not be delivered is withdrawn with one excuse at most and is not  *)
(* decided any more; the decision it may have had before keeps its outcome.*)
(***************************************************************************)
EXTENDS Naturals

VARIABLES
  decided,  \* the set of decisions taken
  told,     \* notes of the outcome
  done,     \* executions of the action
  failed,   \* withdrawn: the request could not be delivered
  excused   \* notes of the withdrawal

avars == <<decided, told, done, failed, excused>>

NoOutcome == told = 0 /\ done = 0

Init == decided = {} /\ NoOutcome /\ ~failed /\ excused = 0

Decide == /\ decided = {} /\ ~failed
          /\ decided' \in {{"approved"}, {"rejected"}}
          /\ UNCHANGED <<told, done, failed, excused>>

Execute == /\ decided = {"approved"} /\ NoOutcome /\ done' = 1
           /\ UNCHANGED <<decided, told, failed, excused>>

\* The note of a rejection, or of an approval whose action failed.
Tell == /\ decided # {} /\ NoOutcome /\ told' = 1
        /\ UNCHANGED <<decided, done, failed, excused>>

Withdraw == /\ ~failed /\ failed'
            /\ UNCHANGED <<decided, told, done, excused>>

Excuse == /\ failed /\ excused = 0 /\ excused' = 1
          /\ UNCHANGED <<decided, told, done, failed>>

Next == Decide \/ Execute \/ Tell \/ Withdraw \/ Excuse

Spec == Init /\ [][Next]_avars
=============================================================================
