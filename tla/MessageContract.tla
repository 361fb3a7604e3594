-------------------------- MODULE MessageContract --------------------------
(***************************************************************************)
(* What the inbound mailbox promises for one message, whoever crashes: it  *)
(* is accepted once, the runner takes it terminally at most once, it is    *)
(* charged at most MaxTries tries, and it settles exactly once - completed *)
(* only if taken, failed only if taken or out of tries.                    *)
(***************************************************************************)
EXTENDS Naturals

CONSTANT MaxTries

VARIABLES
  st,     \* "absent", "pending", "completed" or "failed"
  taken,  \* a runner has finished with the message
  spent   \* tries charged

cvars == <<st, taken, spent>>

Init == st = "absent" /\ taken = FALSE /\ spent = 0

Accept == st = "absent" /\ st' = "pending" /\ UNCHANGED <<taken, spent>>

\* A runner may still finish a message the host has given up meanwhile.
Take == st \in {"pending", "failed"} /\ ~taken /\ taken' = TRUE /\ UNCHANGED <<st, spent>>

Charge == /\ st = "pending" /\ spent < MaxTries
          /\ spent' = spent + 1 /\ UNCHANGED <<st, taken>>

GiveUp == st = "pending" /\ spent = MaxTries /\ st' = "failed" /\ UNCHANGED <<taken, spent>>

Settle == /\ st = "pending" /\ taken
          /\ st' \in {"completed", "failed"} /\ UNCHANGED <<taken, spent>>

Next == Accept \/ Take \/ Charge \/ GiveUp \/ Settle

Spec == Init /\ [][Next]_cvars
=============================================================================
