-------------------------- MODULE HostLoopsProofs --------------------------
(***************************************************************************)
(* Proofs about the two loops in which the host works through a mailbox.   *)
(* First OutboundDelivery, for any number of rows, poll chains, attempts   *)
(* and faults: a row is sent again only after the record of an earlier     *)
(* success was lost, records are true and final, tries are bounded, and at *)
(* most one row is announced as the session's first.  Then TaskSchedule,   *)
(* for any caps and bounds: a series neither multiplies nor comes back     *)
(* from the dead, and its session is closed when it is spent.  The two     *)
(* share no state and no name; every theorem is about the specification it *)
(* states.                                                                 *)
(***************************************************************************)
EXTENDS OutboundDelivery, TaskSchedule, FiniteSetTheorems, FunctionTheorems, TLAPS

-----------------------------------------------------------------------------
(* The delivery poll: rows, chains and the record of what was sent.        *)

\* The adapter took the row and its record is still to be written.
Marking(m) == \E c \in Chains : pc[c] = "mark" /\ cur[c] = m

\* The chain is about to give the row up.
Failing(m) == \E c \in Chains : pc[c] = "fail" /\ cur[c] = m

\* inflightDeliveries: one chain at a time is in the session.
OneChain ==
  /\ \A c \in Chains : pc[c] # "idle" => inflight
  /\ \A c, d \in Chains : pc[c] # "idle" /\ pc[d] # "idle" => c = d

\* What a chain still has to do is unrecorded, although it works from a
\* snapshot, and it knows of every row that was delivered.
ChainInv(c) ==
  /\ pc[c] \notin {"idle", "read"} =>
       /\ \A m \in todo[c] : record[m] = "none"
       /\ \A m \in Rows : record[m] = "delivered" => m \in known[c]
  /\ pc[c] \in {"mark", "after", "fail"} => cur[c] \notin todo[c]
  /\ pc[c] = "mark" => record[cur[c]] = "none"

\* Successes of a row, and whether one is not yet recorded.
SuccessInv(m) ==
  /\ record[m] = "delivered" => oks[m] = lost[m] + 1
  /\ record[m] = "failed" => oks[m] = lost[m]
  /\ record[m] = "none" => oks[m] = lost[m] + (IF Marking(m) THEN 1 ELSE 0)

\* Tries of a row against the counter, which stays below the limit but for
\* give-ups that could not be recorded.
TriesInv(m) ==
  /\ record[m] = "none" => tried[m] <= attempts[m] + (IF Marking(m) THEN 1 ELSE 0)
  /\ tried[m] <= MaxAttempts + faults
  /\ \/ attempts[m] < MaxAttempts + faults
     \/ attempts[m] = MaxAttempts + faults
        /\ Failing(m)

FirstInv == first = {} \/ \E m \in Rows : first = {m} /\ record[m] = "delivered"

IInv ==
  /\ TypeOK /\ OneChain /\ FirstInv
  /\ \A c \in Chains : ChainInv(c)
  /\ \A m \in Rows : SuccessInv(m) /\ TriesInv(m)

-----------------------------------------------------------------------------
(* Who is in the session *)

\* A chain that is in the session, or comes into a free one, is alone.
LEMMA Alone ==
  ASSUME IInv, NEW c \in Chains, pc[c] # "idle" \/ ~inflight
  PROVE  \A d \in Chains \ {c} : pc[d] = "idle"
BY DEF IInv, OneChain

\* So the row being marked or given up is the one that chain is at ...
LEMMA AtNow ==
  ASSUME IInv, NEW c \in Chains, pc[c] # "idle" \/ ~inflight, NEW m \in Rows
  PROVE  /\ Marking(m) <=> pc[c] = "mark" /\ cur[c] = m
         /\ Failing(m) <=> pc[c] = "fail" /\ cur[c] = m
BY Alone DEF Marking, Failing

\* ... before and after each of its steps.
LEMMA AtNext ==
  ASSUME IInv, NEW c \in Chains, pc[c] # "idle" \/ ~inflight,
         \A d \in Chains \ {c} : pc'[d] = pc[d], NEW m \in Rows
  PROVE  /\ Marking(m)' <=> pc'[c] = "mark" /\ cur'[c] = m
         /\ Failing(m)' <=> pc'[c] = "fail" /\ cur'[c] = m
<1>1. \A d \in Chains \ {c} : pc'[d] = "idle"
  BY Alone
<1>2. QED
  BY <1>1 DEF Marking, Failing

\* What a step of a chain has to show: the others are not in the session.
LEMMA ChainStep ==
  ASSUME IInv, NEW c \in Chains, pc[c] # "idle" \/ ~inflight,
         \A d \in Chains \ {c} : pc'[d] = pc[d],
         pc'[c] # "idle" => inflight',
         TypeOK', FirstInv', ChainInv(c)',
         \A m \in Rows : SuccessInv(m)' /\ TriesInv(m)'
  PROVE  IInv'
<1>1. \A d \in Chains \ {c} : pc'[d] = "idle"
  BY Alone
<1>2. OneChain'
  BY <1>1 DEF OneChain
<1>3. ASSUME NEW d \in Chains \ {c} PROVE ChainInv(d)'
  BY <1>1 DEF ChainInv
<1>4. \A d \in Chains : ChainInv(d)'
  BY <1>3
<1>5. QED
  BY <1>2, <1>4 DEF IInv

-----------------------------------------------------------------------------
(* The counter *)

\* An attempt more stays within the limit, and at the limit the row is given up.
LEMMA CountsUp ==
  ASSUME IInv, NEW c \in Chains, NEW m \in Rows, pc[c] \in {"next", "mark", "after"},
         cur'[c] = m, faults' \in Nat, faults' >= faults, Failed(c, m)
  PROVE  /\ attempts'[m] = attempts[m] + 1
         /\ attempts'[m] <= MaxAttempts + faults
         /\ pc'[c] \in {"fail", "next"}
         /\ \A d \in Chains \ {c} : pc'[d] = pc[d]
         /\ \A k \in Rows \ {m} : attempts'[k] = attempts[k]
         /\ attempts' \in [Rows -> Nat]
         /\ DOMAIN pc' = Chains
         /\ pc' = [pc EXCEPT ![c] = pc'[c]]
         /\ attempts'[m] >= MaxAttempts => pc'[c] = "fail"
<1>1. TypeOK /\ TriesInv(m)
  BY DEF IInv
<1>2. ~Failing(m)
  BY AtNow
<1>3. /\ attempts \in [Rows -> Nat] /\ faults \in Nat /\ MaxAttempts \in Nat
      /\ pc \in [Chains -> {"idle", "read", "next", "mark", "after", "fail"}]
  BY <1>1, DeliveryAssumption DEF TypeOK
<1>4. attempts[m] < MaxAttempts + faults
  BY <1>1, <1>2 DEF TriesInv
<1>5. QED
  BY <1>3, <1>4 DEF Failed

-----------------------------------------------------------------------------
(* One lemma per action *)

LEMMA InitInv == Init => IInv
<1> SUFFICES ASSUME Init PROVE IInv
  OBVIOUS
<1>1. TypeOK
  <2>1. attempts \in [Rows -> 0..(MaxAttempts + MaxFaults)] /\ faults \in 0..MaxFaults
    BY DeliveryAssumption DEF Init
  <2>2. oks \in [Rows -> Nat] /\ tried \in [Rows -> Nat] /\ lost \in [Rows -> Nat]
    BY DEF Init
  <2>3. /\ record \in [Rows -> {"none", "delivered", "failed"}]
        /\ pc \in [Chains -> {"idle", "read", "next", "mark", "after", "fail"}]
        /\ cur \in [Chains -> Rows \cup {"none"}]
        /\ todo \in [Chains -> SUBSET Rows] /\ known \in [Chains -> SUBSET Rows]
        /\ \A c \in Chains : pc[c] = "idle"
    BY DEF Init
  <2>4. QED
    BY <2>1, <2>2, <2>3 DEF Init, TypeOK
<1>2. \A m \in Rows : ~Marking(m)
  BY DEF Init, Marking
<1>3. OneChain /\ FirstInv /\ \A c \in Chains : ChainInv(c)
  BY DEF Init, OneChain, FirstInv, ChainInv
<1>4. \A m \in Rows : SuccessInv(m) /\ TriesInv(m)
  BY <1>2, DeliveryAssumption DEF Init, SuccessInv, TriesInv
<1>5. QED
  BY <1>1, <1>3, <1>4 DEF IInv

LEMMA WriteInv ==
  ASSUME IInv, NEW m \in Rows, Write(m)
  PROVE  IInv'
<1>1. TypeOK'
  BY DEF IInv, TypeOK, Write, chain
<1>2. OneChain' /\ FirstInv' /\ \A c \in Chains : ChainInv(c)'
  BY DEF IInv, OneChain, FirstInv, ChainInv, Write, chain
<1>3. \A k \in Rows : SuccessInv(k)' /\ TriesInv(k)'
  BY DEF IInv, SuccessInv, TriesInv, Marking, Failing, Write, chain
<1>4. QED
  BY <1>1, <1>2, <1>3 DEF IInv

LEMMA EnterInv ==
  ASSUME IInv, NEW c \in Chains, Enter(c)
  PROVE  IInv'
<1>1. TypeOK /\ ChainInv(c) /\ FirstInv
  BY DEF IInv
<1>2. /\ pc[c] # "idle" \/ ~inflight
      /\ \A d \in Chains \ {c} : pc'[d] = pc[d]
      /\ pc'[c] # "idle" => inflight'
  BY <1>1 DEF IInv, OneChain, TypeOK, Enter
<1>3. TypeOK'
  <2>1. attempts' \in [Rows -> 0..(MaxAttempts + MaxFaults)] /\ faults' \in 0..MaxFaults
    BY <1>1, DeliveryAssumption DEF TypeOK, Enter
  <2>2. QED
    BY <1>1, <2>1 DEF TypeOK, Enter
<1>4. FirstInv'
  BY <1>1 DEF FirstInv, ChainInv, TypeOK, Enter
<1>5. ChainInv(c)'
  BY <1>1 DEF ChainInv, TypeOK, Enter
<1>6. ASSUME NEW k \in Rows PROVE SuccessInv(k)' /\ TriesInv(k)'
  <2>1. SuccessInv(k) /\ TriesInv(k)
    BY DEF IInv
  <2>2. /\ Marking(k) <=> pc[c] = "mark" /\ cur[c] = k
        /\ Failing(k) <=> pc[c] = "fail" /\ cur[c] = k
    BY <1>2, AtNow
  <2>3. /\ Marking(k)' <=> pc'[c] = "mark" /\ cur'[c] = k
        /\ Failing(k)' <=> pc'[c] = "fail" /\ cur'[c] = k
    BY <1>2, AtNext
  <2>4. SuccessInv(k)'
    BY <1>1, <2>1, <2>2, <2>3 DEF SuccessInv, ChainInv, TypeOK, Enter
  <2>5. TriesInv(k)'
    BY <1>1, <2>1, <2>2, <2>3, DeliveryAssumption
    DEF TriesInv, ChainInv, TypeOK, Enter
  <2>6. QED
    BY <2>4, <2>5
<1>7. QED
  BY <1>2, <1>3, <1>4, <1>5, <1>6, ChainStep

LEMMA ReadQueueInv ==
  ASSUME IInv, NEW c \in Chains, ReadQueue(c)
  PROVE  IInv'
<1>1. TypeOK /\ ChainInv(c) /\ FirstInv
  BY DEF IInv
<1>2. /\ pc[c] # "idle" \/ ~inflight
      /\ \A d \in Chains \ {c} : pc'[d] = pc[d]
      /\ pc'[c] # "idle" => inflight'
  BY <1>1 DEF IInv, OneChain, TypeOK, ReadQueue, Recorded
<1>3. TypeOK'
  <2>1. attempts' \in [Rows -> 0..(MaxAttempts + MaxFaults)] /\ faults' \in 0..MaxFaults
    BY <1>1, DeliveryAssumption DEF TypeOK, ReadQueue, Recorded
  <2>2. QED
    BY <1>1, <2>1 DEF TypeOK, ReadQueue, Recorded
<1>4. FirstInv'
  BY <1>1 DEF FirstInv, ChainInv, TypeOK, ReadQueue, Recorded
<1>5. ChainInv(c)'
  BY <1>1 DEF ChainInv, TypeOK, ReadQueue, Recorded
<1>6. ASSUME NEW k \in Rows PROVE SuccessInv(k)' /\ TriesInv(k)'
  <2>1. SuccessInv(k) /\ TriesInv(k)
    BY DEF IInv
  <2>2. /\ Marking(k) <=> pc[c] = "mark" /\ cur[c] = k
        /\ Failing(k) <=> pc[c] = "fail" /\ cur[c] = k
    BY <1>2, AtNow
  <2>3. /\ Marking(k)' <=> pc'[c] = "mark" /\ cur'[c] = k
        /\ Failing(k)' <=> pc'[c] = "fail" /\ cur'[c] = k
    BY <1>2, AtNext
  <2>4. SuccessInv(k)'
    BY <1>1, <2>1, <2>2, <2>3 DEF SuccessInv, ChainInv, TypeOK, ReadQueue, Recorded
  <2>5. TriesInv(k)'
    BY <1>1, <2>1, <2>2, <2>3, DeliveryAssumption
    DEF TriesInv, ChainInv, TypeOK, ReadQueue, Recorded
  <2>6. QED
    BY <2>4, <2>5
<1>7. QED
  BY <1>2, <1>3, <1>4, <1>5, <1>6, ChainStep

LEMMA ReadFailsInv ==
  ASSUME IInv, NEW c \in Chains, ReadFails(c)
  PROVE  IInv'
<1>1. TypeOK /\ ChainInv(c) /\ FirstInv
  BY DEF IInv
<1>2. /\ pc[c] # "idle" \/ ~inflight
      /\ \A d \in Chains \ {c} : pc'[d] = pc[d]
      /\ pc'[c] # "idle" => inflight'
  BY <1>1 DEF IInv, OneChain, TypeOK, ReadFails
<1>3. TypeOK'
  <2>1. attempts' \in [Rows -> 0..(MaxAttempts + MaxFaults)] /\ faults' \in 0..MaxFaults
    BY <1>1, DeliveryAssumption DEF TypeOK, ReadFails
  <2>2. QED
    BY <1>1, <2>1 DEF TypeOK, ReadFails
<1>4. FirstInv'
  BY <1>1 DEF FirstInv, ChainInv, TypeOK, ReadFails
<1>5. ChainInv(c)'
  BY <1>1 DEF ChainInv, TypeOK, ReadFails
<1>6. ASSUME NEW k \in Rows PROVE SuccessInv(k)' /\ TriesInv(k)'
  <2>1. SuccessInv(k) /\ TriesInv(k)
    BY DEF IInv
  <2>2. /\ Marking(k) <=> pc[c] = "mark" /\ cur[c] = k
        /\ Failing(k) <=> pc[c] = "fail" /\ cur[c] = k
    BY <1>2, AtNow
  <2>3. /\ Marking(k)' <=> pc'[c] = "mark" /\ cur'[c] = k
        /\ Failing(k)' <=> pc'[c] = "fail" /\ cur'[c] = k
    BY <1>2, AtNext
  <2>4. SuccessInv(k)'
    BY <1>1, <2>1, <2>2, <2>3 DEF SuccessInv, ChainInv, TypeOK, ReadFails
  <2>5. TriesInv(k)'
    BY <1>1, <2>1, <2>2, <2>3, DeliveryAssumption
    DEF TriesInv, ChainInv, TypeOK, ReadFails
  <2>6. QED
    BY <2>4, <2>5
<1>7. QED
  BY <1>2, <1>3, <1>4, <1>5, <1>6, ChainStep

LEMMA LeaveInv ==
  ASSUME IInv, NEW c \in Chains, Leave(c)
  PROVE  IInv'
<1>1. TypeOK /\ ChainInv(c) /\ FirstInv
  BY DEF IInv
<1>2. /\ pc[c] # "idle" \/ ~inflight
      /\ \A d \in Chains \ {c} : pc'[d] = pc[d]
      /\ pc'[c] # "idle" => inflight'
  BY <1>1 DEF IInv, OneChain, TypeOK, Leave
<1>3. TypeOK'
  <2>1. attempts' \in [Rows -> 0..(MaxAttempts + MaxFaults)] /\ faults' \in 0..MaxFaults
    BY <1>1, DeliveryAssumption DEF TypeOK, Leave
  <2>2. QED
    BY <1>1, <2>1 DEF TypeOK, Leave
<1>4. FirstInv'
  BY <1>1 DEF FirstInv, ChainInv, TypeOK, Leave
<1>5. ChainInv(c)'
  BY <1>1 DEF ChainInv, TypeOK, Leave
<1>6. ASSUME NEW k \in Rows PROVE SuccessInv(k)' /\ TriesInv(k)'
  <2>1. SuccessInv(k) /\ TriesInv(k)
    BY DEF IInv
  <2>2. /\ Marking(k) <=> pc[c] = "mark" /\ cur[c] = k
        /\ Failing(k) <=> pc[c] = "fail" /\ cur[c] = k
    BY <1>2, AtNow
  <2>3. /\ Marking(k)' <=> pc'[c] = "mark" /\ cur'[c] = k
        /\ Failing(k)' <=> pc'[c] = "fail" /\ cur'[c] = k
    BY <1>2, AtNext
  <2>4. SuccessInv(k)'
    BY <1>1, <2>1, <2>2, <2>3 DEF SuccessInv, ChainInv, TypeOK, Leave
  <2>5. TriesInv(k)'
    BY <1>1, <2>1, <2>2, <2>3, DeliveryAssumption
    DEF TriesInv, ChainInv, TypeOK, Leave
  <2>6. QED
    BY <2>4, <2>5
<1>7. QED
  BY <1>2, <1>3, <1>4, <1>5, <1>6, ChainStep

LEMMA SendInv ==
  ASSUME IInv, NEW c \in Chains, NEW m \in Rows, Send(c, m)
  PROVE  IInv'
<1>1. TypeOK /\ ChainInv(c) /\ FirstInv
  BY DEF IInv
<1>2. /\ pc[c] # "idle" \/ ~inflight
      /\ \A d \in Chains \ {c} : pc'[d] = pc[d]
      /\ pc'[c] # "idle" => inflight'
  BY <1>1 DEF IInv, OneChain, TypeOK, Send
<1>3. TypeOK'
  <2>1. attempts' \in [Rows -> 0..(MaxAttempts + MaxFaults)] /\ faults' \in 0..MaxFaults
    BY <1>1, DeliveryAssumption DEF TypeOK, Send
  <2>2. QED
    BY <1>1, <2>1 DEF TypeOK, Send
<1>4. FirstInv'
  BY <1>1 DEF FirstInv, ChainInv, TypeOK, Send
<1>5. ChainInv(c)'
  BY <1>1 DEF ChainInv, TypeOK, Send
<1>6. ASSUME NEW k \in Rows PROVE SuccessInv(k)' /\ TriesInv(k)'
  <2>1. SuccessInv(k) /\ TriesInv(k)
    BY DEF IInv
  <2>2. /\ Marking(k) <=> pc[c] = "mark" /\ cur[c] = k
        /\ Failing(k) <=> pc[c] = "fail" /\ cur[c] = k
    BY <1>2, AtNow
  <2>3. /\ Marking(k)' <=> pc'[c] = "mark" /\ cur'[c] = k
        /\ Failing(k)' <=> pc'[c] = "fail" /\ cur'[c] = k
    BY <1>2, AtNext
  <2>4. SuccessInv(k)'
    BY <1>1, <2>1, <2>2, <2>3 DEF SuccessInv, ChainInv, TypeOK, Send
  <2>5. TriesInv(k)'
    BY <1>1, <2>1, <2>2, <2>3, DeliveryAssumption
    DEF TriesInv, ChainInv, TypeOK, Send
  <2>6. QED
    BY <2>4, <2>5
<1>7. QED
  BY <1>2, <1>3, <1>4, <1>5, <1>6, ChainStep

LEMMA MarkInv ==
  ASSUME IInv, NEW c \in Chains, Mark(c)
  PROVE  IInv'
<1>1. TypeOK /\ ChainInv(c) /\ FirstInv
  BY DEF IInv
<1>2. /\ pc[c] # "idle" \/ ~inflight
      /\ \A d \in Chains \ {c} : pc'[d] = pc[d]
      /\ pc'[c] # "idle" => inflight'
  BY <1>1 DEF IInv, OneChain, TypeOK, Mark, Recording
<1>3. TypeOK'
  <2>1. attempts' \in [Rows -> 0..(MaxAttempts + MaxFaults)] /\ faults' \in 0..MaxFaults
    BY <1>1, DeliveryAssumption DEF TypeOK, Mark, Recording
  <2>2. QED
    BY <1>1, <2>1 DEF TypeOK, Mark, Recording
<1>4. FirstInv'
  BY <1>1 DEF FirstInv, ChainInv, TypeOK, Mark, Recording
<1>5. ChainInv(c)'
  BY <1>1 DEF ChainInv, TypeOK, Mark, Recording
<1>6. ASSUME NEW k \in Rows PROVE SuccessInv(k)' /\ TriesInv(k)'
  <2>1. SuccessInv(k) /\ TriesInv(k)
    BY DEF IInv
  <2>2. /\ Marking(k) <=> pc[c] = "mark" /\ cur[c] = k
        /\ Failing(k) <=> pc[c] = "fail" /\ cur[c] = k
    BY <1>2, AtNow
  <2>3. /\ Marking(k)' <=> pc'[c] = "mark" /\ cur'[c] = k
        /\ Failing(k)' <=> pc'[c] = "fail" /\ cur'[c] = k
    BY <1>2, AtNext
  <2>4. SuccessInv(k)'
    BY <1>1, <2>1, <2>2, <2>3 DEF SuccessInv, ChainInv, TypeOK, Mark, Recording
  <2>5. TriesInv(k)'
    BY <1>1, <2>1, <2>2, <2>3, DeliveryAssumption
    DEF TriesInv, ChainInv, TypeOK, Mark, Recording
  <2>6. QED
    BY <2>4, <2>5
<1>7. QED
  BY <1>2, <1>3, <1>4, <1>5, <1>6, ChainStep

LEMMA AfterInv ==
  ASSUME IInv, NEW c \in Chains, After(c)
  PROVE  IInv'
<1>1. TypeOK /\ ChainInv(c) /\ FirstInv
  BY DEF IInv
<1>2. /\ pc[c] # "idle" \/ ~inflight
      /\ \A d \in Chains \ {c} : pc'[d] = pc[d]
      /\ pc'[c] # "idle" => inflight'
  BY <1>1 DEF IInv, OneChain, TypeOK, After
<1>3. TypeOK'
  <2>1. attempts' \in [Rows -> 0..(MaxAttempts + MaxFaults)] /\ faults' \in 0..MaxFaults
    BY <1>1, DeliveryAssumption DEF TypeOK, After
  <2>2. QED
    BY <1>1, <2>1 DEF TypeOK, After
<1>4. FirstInv'
  BY <1>1 DEF FirstInv, ChainInv, TypeOK, After
<1>5. ChainInv(c)'
  BY <1>1 DEF ChainInv, TypeOK, After
<1>6. ASSUME NEW k \in Rows PROVE SuccessInv(k)' /\ TriesInv(k)'
  <2>1. SuccessInv(k) /\ TriesInv(k)
    BY DEF IInv
  <2>2. /\ Marking(k) <=> pc[c] = "mark" /\ cur[c] = k
        /\ Failing(k) <=> pc[c] = "fail" /\ cur[c] = k
    BY <1>2, AtNow
  <2>3. /\ Marking(k)' <=> pc'[c] = "mark" /\ cur'[c] = k
        /\ Failing(k)' <=> pc'[c] = "fail" /\ cur'[c] = k
    BY <1>2, AtNext
  <2>4. SuccessInv(k)'
    BY <1>1, <2>1, <2>2, <2>3 DEF SuccessInv, ChainInv, TypeOK, After
  <2>5. TriesInv(k)'
    BY <1>1, <2>1, <2>2, <2>3, DeliveryAssumption
    DEF TriesInv, ChainInv, TypeOK, After
  <2>6. QED
    BY <2>4, <2>5
<1>7. QED
  BY <1>2, <1>3, <1>4, <1>5, <1>6, ChainStep

LEMMA GiveUpInv ==
  ASSUME IInv, NEW c \in Chains, GiveUp(c)
  PROVE  IInv'
<1>1. TypeOK /\ ChainInv(c) /\ FirstInv
  BY DEF IInv
<1>2. /\ pc[c] # "idle" \/ ~inflight
      /\ \A d \in Chains \ {c} : pc'[d] = pc[d]
      /\ pc'[c] # "idle" => inflight'
  BY <1>1 DEF IInv, OneChain, TypeOK, GiveUp, Recording
<1>3. TypeOK'
  <2>1. attempts' \in [Rows -> 0..(MaxAttempts + MaxFaults)] /\ faults' \in 0..MaxFaults
    BY <1>1, DeliveryAssumption DEF TypeOK, GiveUp, Recording
  <2>2. QED
    BY <1>1, <2>1 DEF TypeOK, GiveUp, Recording
<1>4. FirstInv'
  BY <1>1 DEF FirstInv, ChainInv, TypeOK, GiveUp, Recording
<1>5. ChainInv(c)'
  BY <1>1 DEF ChainInv, TypeOK, GiveUp, Recording
<1>6. ASSUME NEW k \in Rows PROVE SuccessInv(k)' /\ TriesInv(k)'
  <2>1. SuccessInv(k) /\ TriesInv(k)
    BY DEF IInv
  <2>2. /\ Marking(k) <=> pc[c] = "mark" /\ cur[c] = k
        /\ Failing(k) <=> pc[c] = "fail" /\ cur[c] = k
    BY <1>2, AtNow
  <2>3. /\ Marking(k)' <=> pc'[c] = "mark" /\ cur'[c] = k
        /\ Failing(k)' <=> pc'[c] = "fail" /\ cur'[c] = k
    BY <1>2, AtNext
  <2>4. SuccessInv(k)'
    BY <1>1, <2>1, <2>2, <2>3 DEF SuccessInv, ChainInv, TypeOK, GiveUp, Recording
  <2>5. TriesInv(k)'
    BY <1>1, <2>1, <2>2, <2>3, DeliveryAssumption
    DEF TriesInv, ChainInv, TypeOK, GiveUp, Recording
  <2>6. QED
    BY <2>4, <2>5
<1>7. QED
  BY <1>2, <1>3, <1>4, <1>5, <1>6, ChainStep

LEMMA GiveUpFailsInv ==
  ASSUME IInv, NEW c \in Chains, GiveUpFails(c)
  PROVE  IInv'
<1>1. TypeOK /\ ChainInv(c) /\ FirstInv
  BY DEF IInv
<1>2. /\ pc[c] # "idle" \/ ~inflight
      /\ \A d \in Chains \ {c} : pc'[d] = pc[d]
      /\ pc'[c] # "idle" => inflight'
  BY <1>1 DEF IInv, OneChain, TypeOK, GiveUpFails
<1>3. TypeOK'
  <2>1. attempts' \in [Rows -> 0..(MaxAttempts + MaxFaults)] /\ faults' \in 0..MaxFaults
    BY <1>1, DeliveryAssumption DEF TypeOK, GiveUpFails
  <2>2. QED
    BY <1>1, <2>1 DEF TypeOK, GiveUpFails
<1>4. FirstInv'
  BY <1>1 DEF FirstInv, ChainInv, TypeOK, GiveUpFails
<1>5. ChainInv(c)'
  BY <1>1 DEF ChainInv, TypeOK, GiveUpFails
<1>6. ASSUME NEW k \in Rows PROVE SuccessInv(k)' /\ TriesInv(k)'
  <2>1. SuccessInv(k) /\ TriesInv(k)
    BY DEF IInv
  <2>2. /\ Marking(k) <=> pc[c] = "mark" /\ cur[c] = k
        /\ Failing(k) <=> pc[c] = "fail" /\ cur[c] = k
    BY <1>2, AtNow
  <2>3. /\ Marking(k)' <=> pc'[c] = "mark" /\ cur'[c] = k
        /\ Failing(k)' <=> pc'[c] = "fail" /\ cur'[c] = k
    BY <1>2, AtNext
  <2>4. SuccessInv(k)'
    BY <1>1, <2>1, <2>2, <2>3 DEF SuccessInv, ChainInv, TypeOK, GiveUpFails
  <2>5. TriesInv(k)'
    BY <1>1, <2>1, <2>2, <2>3, DeliveryAssumption
    DEF TriesInv, ChainInv, TypeOK, GiveUpFails
  <2>6. QED
    BY <2>4, <2>5
<1>7. QED
  BY <1>2, <1>3, <1>4, <1>5, <1>6, ChainStep

LEMMA SendFailsInv ==
  ASSUME IInv, NEW c \in Chains, NEW m \in Rows, SendFails(c, m)
  PROVE  IInv'
<1>1. TypeOK /\ ChainInv(c) /\ FirstInv
  BY DEF IInv
<1>2. /\ m \in Rows /\ cur'[c] = m /\ Failed(c, m)
      /\ pc[c] \in {"next", "mark", "after"}
      /\ faults \in Nat /\ faults' \in Nat /\ faults' >= faults /\ faults' <= MaxFaults
      /\ MaxAttempts \in Nat /\ MaxFaults \in Nat
  BY <1>1, DeliveryAssumption DEF TypeOK, SendFails
<1>3. /\ attempts'[m] = attempts[m] + 1
      /\ attempts'[m] <= MaxAttempts + faults
      /\ pc'[c] \in {"fail", "next"}
      /\ \A d \in Chains \ {c} : pc'[d] = pc[d]
      /\ \A k \in Rows \ {m} : attempts'[k] = attempts[k]
      /\ attempts' \in [Rows -> Nat]
      /\ pc' = [pc EXCEPT ![c] = pc'[c]]
      /\ attempts'[m] >= MaxAttempts => pc'[c] = "fail"
  BY <1>2, CountsUp
<1>4. /\ pc[c] # "idle" /\ inflight /\ inflight' = inflight
      /\ pc'[c] # "idle" => inflight'
  BY <1>2 DEF IInv, OneChain, SendFails
<1>5. TypeOK'
  <2>1. attempts' \in [Rows -> 0..(MaxAttempts + MaxFaults)]
    <3>1. ASSUME NEW k \in Rows PROVE attempts'[k] \in 0..(MaxAttempts + MaxFaults)
      <4>1. attempts[k] \in 0..(MaxAttempts + MaxFaults) /\ attempts'[k] \in Nat
        BY <1>1, <1>3 DEF TypeOK
      <4>2. CASE k = m
        BY <4>1, <4>2, <1>2, <1>3
      <4>3. CASE k # m
        BY <4>1, <4>3, <1>2, <1>3
      <4>4. QED
        BY <4>2, <4>3
    <3>2. QED
      BY <3>1, <1>3
  <2>2. pc' \in [Chains -> {"idle", "read", "next", "mark", "after", "fail"}]
    BY <1>1, <1>3 DEF TypeOK
  <2>3. \A d \in Chains : pc'[d] \in {"mark", "after", "fail"} => cur'[d] \in Rows
    BY <1>1, <1>2, <1>3 DEF TypeOK, SendFails
  <2>4. QED
    BY <1>1, <1>2, <2>1, <2>2, <2>3 DEF TypeOK, SendFails
<1>6. FirstInv'
  BY <1>1 DEF FirstInv, SendFails
<1>7. ChainInv(c)'
  BY <1>1, <1>2, <1>3 DEF ChainInv, TypeOK, SendFails
<1>8. ASSUME NEW k \in Rows PROVE SuccessInv(k)' /\ TriesInv(k)'
  <2>1. SuccessInv(k) /\ TriesInv(k)
    BY DEF IInv
  <2>2. /\ Marking(k) <=> pc[c] = "mark" /\ cur[c] = k
        /\ ~Failing(k)
    BY <1>2, AtNow
  <2>3. /\ ~Marking(k)'
        /\ Failing(k)' <=> pc'[c] = "fail" /\ m = k
    BY <1>2, <1>3, AtNext
  <2>4. SuccessInv(k)'
    BY <1>1, <1>2, <2>1, <2>2, <2>3 DEF SuccessInv, ChainInv, TypeOK, SendFails
  <2>5. attempts[k] \in Nat /\ attempts'[k] \in Nat /\ tried[k] \in Nat
    BY <1>1, <1>3 DEF TypeOK
  <2>6. /\ tried'[k] = tried[k] \/ (k = m /\ pc[c] = "next" /\ tried'[k] = tried[k] + 1)
    BY <1>1, <1>2, <2>5 DEF TypeOK, SendFails
  <2>7. /\ pc[c] = "next" /\ k = m => record[k] = "none"
        /\ faults' = faults \/ faults' = faults + 1
        /\ record' = record
    BY <1>1, <1>2 DEF ChainInv, SendFails
  <2>8. TriesInv(k)'
    <3>1. CASE k = m
      <4>1. /\ record[k] = "none" => tried[k] <= attempts[k] + (IF Marking(k) THEN 1 ELSE 0)
            /\ tried[k] <= MaxAttempts + faults
        BY <2>1 DEF TriesInv
      <4>2. pc[c] = "next" => ~Marking(k) /\ record[k] = "none"
        BY <2>2, <2>7, <3>1
      <4>3. record[k] = "none" =>
              tried'[k] <= attempts'[k] /\ tried'[k] <= MaxAttempts + faults'
        BY <1>2, <1>3, <2>5, <2>6, <4>1, <4>2, <3>1
      <4>4. tried'[k] <= MaxAttempts + faults'
        BY <1>2, <2>5, <2>6, <4>1, <4>2, <4>3, <3>1
      <4>5. \/ attempts'[k] < MaxAttempts + faults'
            \/ attempts'[k] = MaxAttempts + faults' /\ Failing(k)'
        BY <1>2, <1>3, <2>3, <2>5, <3>1
      <4>6. QED
        BY <2>3, <2>5, <2>7, <4>3, <4>4, <4>5 DEF TriesInv
    <3>2. CASE k # m
      <4>1. attempts'[k] = attempts[k] /\ tried'[k] = tried[k]
        BY <1>3, <2>6, <3>2
      <4>2. ~Marking(k)
        BY <1>2, <2>2, <3>2 DEF SendFails
      <4>3. /\ record[k] = "none" => tried[k] <= attempts[k]
            /\ tried[k] <= MaxAttempts + faults
            /\ attempts[k] < MaxAttempts + faults
        BY <2>1, <2>2, <2>5, <4>2 DEF TriesInv
      <4>4. /\ tried[k] <= MaxAttempts + faults'
            /\ attempts[k] < MaxAttempts + faults'
        BY <1>2, <2>5, <4>3
      <4>5. QED
        BY <2>3, <2>5, <2>7, <4>1, <4>3, <4>4 DEF TriesInv
    <3>3. QED
      BY <3>1, <3>2
  <2>9. QED
    BY <2>4, <2>8
<1>9. QED
  BY <1>3, <1>4, <1>5, <1>6, <1>7, <1>8, ChainStep

LEMMA MarkFailsInv ==
  ASSUME IInv, NEW c \in Chains, MarkFails(c)
  PROVE  IInv'
<1> DEFINE m == cur[c]
<1>1. TypeOK /\ ChainInv(c) /\ FirstInv
  BY DEF IInv
<1>2. /\ m \in Rows /\ cur'[c] = m /\ Failed(c, m)
      /\ pc[c] \in {"next", "mark", "after"}
      /\ faults \in Nat /\ faults' \in Nat /\ faults' >= faults /\ faults' <= MaxFaults
      /\ MaxAttempts \in Nat /\ MaxFaults \in Nat
  BY <1>1, DeliveryAssumption DEF TypeOK, MarkFails
<1>3. /\ attempts'[m] = attempts[m] + 1
      /\ attempts'[m] <= MaxAttempts + faults
      /\ pc'[c] \in {"fail", "next"}
      /\ \A d \in Chains \ {c} : pc'[d] = pc[d]
      /\ \A k \in Rows \ {m} : attempts'[k] = attempts[k]
      /\ attempts' \in [Rows -> Nat]
      /\ pc' = [pc EXCEPT ![c] = pc'[c]]
      /\ attempts'[m] >= MaxAttempts => pc'[c] = "fail"
  BY <1>2, CountsUp
<1>4. /\ pc[c] # "idle" /\ inflight /\ inflight' = inflight
      /\ pc'[c] # "idle" => inflight'
  BY <1>2 DEF IInv, OneChain, MarkFails
<1>5. TypeOK'
  <2>1. attempts' \in [Rows -> 0..(MaxAttempts + MaxFaults)]
    <3>1. ASSUME NEW k \in Rows PROVE attempts'[k] \in 0..(MaxAttempts + MaxFaults)
      <4>1. attempts[k] \in 0..(MaxAttempts + MaxFaults) /\ attempts'[k] \in Nat
        BY <1>1, <1>3 DEF TypeOK
      <4>2. CASE k = m
        BY <4>1, <4>2, <1>2, <1>3
      <4>3. CASE k # m
        BY <4>1, <4>3, <1>2, <1>3
      <4>4. QED
        BY <4>2, <4>3
    <3>2. QED
      BY <3>1, <1>3
  <2>2. pc' \in [Chains -> {"idle", "read", "next", "mark", "after", "fail"}]
    BY <1>1, <1>3 DEF TypeOK
  <2>3. \A d \in Chains : pc'[d] \in {"mark", "after", "fail"} => cur'[d] \in Rows
    BY <1>1, <1>2, <1>3 DEF TypeOK, MarkFails
  <2>4. QED
    BY <1>1, <1>2, <2>1, <2>2, <2>3 DEF TypeOK, MarkFails
<1>6. FirstInv'
  BY <1>1 DEF FirstInv, MarkFails
<1>7. ChainInv(c)'
  BY <1>1, <1>2, <1>3 DEF ChainInv, TypeOK, MarkFails
<1>8. ASSUME NEW k \in Rows PROVE SuccessInv(k)' /\ TriesInv(k)'
  <2>1. SuccessInv(k) /\ TriesInv(k)
    BY DEF IInv
  <2>2. /\ Marking(k) <=> pc[c] = "mark" /\ cur[c] = k
        /\ ~Failing(k)
    BY <1>2, AtNow
  <2>3. /\ ~Marking(k)'
        /\ Failing(k)' <=> pc'[c] = "fail" /\ m = k
    BY <1>2, <1>3, AtNext
  <2>4. SuccessInv(k)'
    BY <1>1, <1>2, <2>1, <2>2, <2>3 DEF SuccessInv, ChainInv, TypeOK, MarkFails
  <2>5. attempts[k] \in Nat /\ attempts'[k] \in Nat /\ tried[k] \in Nat
    BY <1>1, <1>3 DEF TypeOK
  <2>6. /\ tried'[k] = tried[k] \/ (k = m /\ pc[c] = "next" /\ tried'[k] = tried[k] + 1)
    BY <1>1, <1>2, <2>5 DEF TypeOK, MarkFails
  <2>7. /\ pc[c] = "next" /\ k = m => record[k] = "none"
        /\ faults' = faults \/ faults' = faults + 1
        /\ record' = record
    BY <1>1, <1>2 DEF ChainInv, MarkFails
  <2>8. TriesInv(k)'
    <3>1. CASE k = m
      <4>1. /\ record[k] = "none" => tried[k] <= attempts[k] + (IF Marking(k) THEN 1 ELSE 0)
            /\ tried[k] <= MaxAttempts + faults
        BY <2>1 DEF TriesInv
      <4>2. pc[c] = "next" => ~Marking(k) /\ record[k] = "none"
        BY <2>2, <2>7, <3>1
      <4>3. record[k] = "none" =>
              tried'[k] <= attempts'[k] /\ tried'[k] <= MaxAttempts + faults'
        BY <1>2, <1>3, <2>5, <2>6, <4>1, <4>2, <3>1
      <4>4. tried'[k] <= MaxAttempts + faults'
        BY <1>2, <2>5, <2>6, <4>1, <4>2, <4>3, <3>1
      <4>5. \/ attempts'[k] < MaxAttempts + faults'
            \/ attempts'[k] = MaxAttempts + faults' /\ Failing(k)'
        BY <1>2, <1>3, <2>3, <2>5, <3>1
      <4>6. QED
        BY <2>3, <2>5, <2>7, <4>3, <4>4, <4>5 DEF TriesInv
    <3>2. CASE k # m
      <4>1. attempts'[k] = attempts[k] /\ tried'[k] = tried[k]
        BY <1>3, <2>6, <3>2
      <4>2. ~Marking(k)
        BY <1>2, <2>2, <3>2 DEF MarkFails
      <4>3. /\ record[k] = "none" => tried[k] <= attempts[k]
            /\ tried[k] <= MaxAttempts + faults
            /\ attempts[k] < MaxAttempts + faults
        BY <2>1, <2>2, <2>5, <4>2 DEF TriesInv
      <4>4. /\ tried[k] <= MaxAttempts + faults'
            /\ attempts[k] < MaxAttempts + faults'
        BY <1>2, <2>5, <4>3
      <4>5. QED
        BY <2>3, <2>5, <2>7, <4>1, <4>3, <4>4 DEF TriesInv
    <3>3. QED
      BY <3>1, <3>2
  <2>9. QED
    BY <2>4, <2>8
<1>9. QED
  BY <1>3, <1>4, <1>5, <1>6, <1>7, <1>8, ChainStep

LEMMA AfterFailsInv ==
  ASSUME IInv, NEW c \in Chains, AfterFails(c)
  PROVE  IInv'
<1> DEFINE m == cur[c]
<1>1. TypeOK /\ ChainInv(c) /\ FirstInv
  BY DEF IInv
<1>2. /\ m \in Rows /\ cur'[c] = m /\ Failed(c, m)
      /\ pc[c] \in {"next", "mark", "after"}
      /\ faults \in Nat /\ faults' \in Nat /\ faults' >= faults /\ faults' <= MaxFaults
      /\ MaxAttempts \in Nat /\ MaxFaults \in Nat
  BY <1>1, DeliveryAssumption DEF TypeOK, AfterFails
<1>3. /\ attempts'[m] = attempts[m] + 1
      /\ attempts'[m] <= MaxAttempts + faults
      /\ pc'[c] \in {"fail", "next"}
      /\ \A d \in Chains \ {c} : pc'[d] = pc[d]
      /\ \A k \in Rows \ {m} : attempts'[k] = attempts[k]
      /\ attempts' \in [Rows -> Nat]
      /\ pc' = [pc EXCEPT ![c] = pc'[c]]
      /\ attempts'[m] >= MaxAttempts => pc'[c] = "fail"
  BY <1>2, CountsUp
<1>4. /\ pc[c] # "idle" /\ inflight /\ inflight' = inflight
      /\ pc'[c] # "idle" => inflight'
  BY <1>2 DEF IInv, OneChain, AfterFails
<1>5. TypeOK'
  <2>1. attempts' \in [Rows -> 0..(MaxAttempts + MaxFaults)]
    <3>1. ASSUME NEW k \in Rows PROVE attempts'[k] \in 0..(MaxAttempts + MaxFaults)
      <4>1. attempts[k] \in 0..(MaxAttempts + MaxFaults) /\ attempts'[k] \in Nat
        BY <1>1, <1>3 DEF TypeOK
      <4>2. CASE k = m
        BY <4>1, <4>2, <1>2, <1>3
      <4>3. CASE k # m
        BY <4>1, <4>3, <1>2, <1>3
      <4>4. QED
        BY <4>2, <4>3
    <3>2. QED
      BY <3>1, <1>3
  <2>2. pc' \in [Chains -> {"idle", "read", "next", "mark", "after", "fail"}]
    BY <1>1, <1>3 DEF TypeOK
  <2>3. \A d \in Chains : pc'[d] \in {"mark", "after", "fail"} => cur'[d] \in Rows
    BY <1>1, <1>2, <1>3 DEF TypeOK, AfterFails
  <2>4. QED
    BY <1>1, <1>2, <2>1, <2>2, <2>3 DEF TypeOK, AfterFails
<1>6. FirstInv'
  BY <1>1 DEF FirstInv, AfterFails
<1>7. ChainInv(c)'
  BY <1>1, <1>2, <1>3 DEF ChainInv, TypeOK, AfterFails
<1>8. ASSUME NEW k \in Rows PROVE SuccessInv(k)' /\ TriesInv(k)'
  <2>1. SuccessInv(k) /\ TriesInv(k)
    BY DEF IInv
  <2>2. /\ Marking(k) <=> pc[c] = "mark" /\ cur[c] = k
        /\ ~Failing(k)
    BY <1>2, AtNow
  <2>3. /\ ~Marking(k)'
        /\ Failing(k)' <=> pc'[c] = "fail" /\ m = k
    BY <1>2, <1>3, AtNext
  <2>4. SuccessInv(k)'
    BY <1>1, <1>2, <2>1, <2>2, <2>3 DEF SuccessInv, ChainInv, TypeOK, AfterFails
  <2>5. attempts[k] \in Nat /\ attempts'[k] \in Nat /\ tried[k] \in Nat
    BY <1>1, <1>3 DEF TypeOK
  <2>6. /\ tried'[k] = tried[k] \/ (k = m /\ pc[c] = "next" /\ tried'[k] = tried[k] + 1)
    BY <1>1, <1>2, <2>5 DEF TypeOK, AfterFails
  <2>7. /\ pc[c] = "next" /\ k = m => record[k] = "none"
        /\ faults' = faults \/ faults' = faults + 1
        /\ record' = record
    BY <1>1, <1>2 DEF ChainInv, AfterFails
  <2>8. TriesInv(k)'
    <3>1. CASE k = m
      <4>1. /\ record[k] = "none" => tried[k] <= attempts[k] + (IF Marking(k) THEN 1 ELSE 0)
            /\ tried[k] <= MaxAttempts + faults
        BY <2>1 DEF TriesInv
      <4>2. pc[c] = "next" => ~Marking(k) /\ record[k] = "none"
        BY <2>2, <2>7, <3>1
      <4>3. record[k] = "none" =>
              tried'[k] <= attempts'[k] /\ tried'[k] <= MaxAttempts + faults'
        BY <1>2, <1>3, <2>5, <2>6, <4>1, <4>2, <3>1
      <4>4. tried'[k] <= MaxAttempts + faults'
        BY <1>2, <2>5, <2>6, <4>1, <4>2, <4>3, <3>1
      <4>5. \/ attempts'[k] < MaxAttempts + faults'
            \/ attempts'[k] = MaxAttempts + faults' /\ Failing(k)'
        BY <1>2, <1>3, <2>3, <2>5, <3>1
      <4>6. QED
        BY <2>3, <2>5, <2>7, <4>3, <4>4, <4>5 DEF TriesInv
    <3>2. CASE k # m
      <4>1. attempts'[k] = attempts[k] /\ tried'[k] = tried[k]
        BY <1>3, <2>6, <3>2
      <4>2. ~Marking(k)
        BY <1>2, <2>2, <3>2 DEF AfterFails
      <4>3. /\ record[k] = "none" => tried[k] <= attempts[k]
            /\ tried[k] <= MaxAttempts + faults
            /\ attempts[k] < MaxAttempts + faults
        BY <2>1, <2>2, <2>5, <4>2 DEF TriesInv
      <4>4. /\ tried[k] <= MaxAttempts + faults'
            /\ attempts[k] < MaxAttempts + faults'
        BY <1>2, <2>5, <4>3
      <4>5. QED
        BY <2>3, <2>5, <2>7, <4>1, <4>3, <4>4 DEF TriesInv
    <3>3. QED
      BY <3>1, <3>2
  <2>9. QED
    BY <2>4, <2>8
<1>9. QED
  BY <1>3, <1>4, <1>5, <1>6, <1>7, <1>8, ChainStep

LEMMA CrashInv ==
  ASSUME IInv, Crash
  PROVE  IInv'
<1>1. TypeOK /\ DeliveryAssumption
  BY DeliveryAssumption DEF IInv
<1>2. ASSUME NEW m \in Rows
      PROVE  lost'[m] = lost[m] + (IF Marking(m) THEN 1 ELSE 0)
  <2> DEFINE S == {c \in Chains : pc[c] = "mark" /\ cur[c] = m}
  <2>1. lost'[m] = lost[m] + Cardinality(S)
    BY DEF Crash
  <2>2. CASE Marking(m)
    <3>1. PICK c \in Chains : pc[c] = "mark" /\ cur[c] = m
      BY <2>2 DEF Marking
    <3>2. S = {c}
      BY <3>1 DEF IInv, OneChain
    <3>3. Cardinality(S) = 1
      BY <3>2, FS_Singleton
    <3>4. QED
      BY <2>1, <2>2, <3>3
  <2>3. CASE ~Marking(m)
    <3>1. S = {}
      BY <2>3 DEF Marking
    <3>2. Cardinality(S) = 0
      BY <3>1, FS_EmptySet
    <3>3. QED
      BY <2>1, <2>3, <3>2
  <2>4. QED
    BY <2>2, <2>3
<1>3. lost' \in [Rows -> Nat]
  <2>1. \A m \in Rows : lost'[m] \in Nat
    BY <1>1, <1>2 DEF TypeOK
  <2>2. QED
    BY <2>1 DEF Crash
<1>4. TypeOK'
  <2>1. attempts' \in [Rows -> 0..(MaxAttempts + MaxFaults)] /\ faults' \in 0..MaxFaults
    BY <1>1 DEF TypeOK, Crash, DeliveryAssumption
  <2>2. tried' \in [Rows -> Nat] /\ oks' \in [Rows -> Nat]
    BY <1>1 DEF TypeOK, Crash
  <2>3. /\ record' \in [Rows -> {"none", "delivered", "failed"}]
        /\ pc' \in [Chains -> {"idle", "read", "next", "mark", "after", "fail"}]
        /\ cur' \in [Chains -> Rows \cup {"none"}]
        /\ todo' \in [Chains -> SUBSET Rows] /\ known' \in [Chains -> SUBSET Rows]
        /\ \A c \in Chains : pc'[c] = "idle"
    BY <1>1 DEF TypeOK, Crash
  <2>4. written' \subseteq Rows /\ inflight' \in BOOLEAN /\ crashed' \in BOOLEAN
        /\ first' \subseteq Rows
    BY <1>1 DEF TypeOK, Crash
  <2>5. QED
    BY <1>3, <2>1, <2>2, <2>3, <2>4 DEF TypeOK
<1>5. OneChain' /\ FirstInv' /\ \A c \in Chains : ChainInv(c)'
  BY DEF IInv, OneChain, FirstInv, ChainInv, Crash
<1>6. \A m \in Rows : ~Marking(m)'
  BY DEF Crash, Marking
<1>7. ASSUME NEW m \in Rows PROVE SuccessInv(m)' /\ TriesInv(m)'
  <2>1. SuccessInv(m)
    BY DEF IInv
  <2>2. oks[m] \in Nat /\ lost[m] \in Nat /\ faults \in Nat /\ lost'[m] \in Nat
    BY <1>1, <1>3 DEF TypeOK
  <2>3. /\ record'[m] = record[m] /\ oks'[m] = oks[m] /\ ~Marking(m)'
        /\ tried'[m] = 0 /\ attempts'[m] = 0 /\ faults' = faults + 1
    BY <1>6 DEF Crash
  <2>4. record[m] # "none" => ~Marking(m)
    BY DEF IInv, ChainInv, Marking
  <2>5. SuccessInv(m)'
    BY <1>2, <2>1, <2>2, <2>3, <2>4 DEF SuccessInv
  <2>6. TriesInv(m)'
    BY <1>1, <2>2, <2>3 DEF TriesInv, DeliveryAssumption
  <2>7. QED
    BY <2>5, <2>6
<1>8. QED
  BY <1>4, <1>5, <1>7 DEF IInv

LEMMA StutterInv ==
  ASSUME IInv, UNCHANGED vars
  PROVE  IInv'
BY DEF IInv, TypeOK, OneChain, FirstInv, ChainInv, SuccessInv, TriesInv,
       Marking, Failing, vars, chain

LEMMA StepInv ==
  ASSUME IInv, NEW c \in Chains, Step(c)
  PROVE  IInv'
BY EnterInv, ReadQueueInv, ReadFailsInv, LeaveInv, SendInv, SendFailsInv, MarkInv,
   MarkFailsInv, AfterInv, AfterFailsInv, GiveUpInv, GiveUpFailsInv DEF Step

\* The inductive invariant of delivery: one chain is in the session, its list
\* and its knowledge are up to date, and successes, losses, records and tries
\* of every row add up.
THEOREM AlwaysIInv == Spec => []IInv
<1>1. ASSUME IInv, [Next]_vars PROVE IInv'
  BY <1>1, WriteInv, StepInv, CrashInv, StutterInv DEF Next
<1>2. QED
  BY InitInv, <1>1, PTL DEF Spec

-----------------------------------------------------------------------------
(* What follows *)

\* A resend needs a lost record, a life's tries are bounded and the memory of
\* the poll chains is well formed, for any number of them (drainSession).
THEOREM DeliveryKept == Spec => []DeliveryInvariant
<1>1. ASSUME IInv, NEW m \in Rows PROVE oks[m] <= 1 + lost[m]
  <2>1. SuccessInv(m) /\ TypeOK
    BY <1>1 DEF IInv
  <2>2. oks[m] \in Nat /\ lost[m] \in Nat /\ record[m] \in {"none", "delivered", "failed"}
    BY <2>1 DEF TypeOK
  <2>3. QED
    BY <2>1, <2>2 DEF SuccessInv
<1>2. IInv => DeliveryInvariant
  BY <1>1 DEF DeliveryInvariant, IInv, ResentOnlyAfterLoss, TriesBounded, TriesInv
<1>3. QED
  BY AlwaysIInv, <1>2, PTL

\* The delivered table says "delivered" only of rows that were taken, and
\* "failed" of none that was unless the record of it was lost.
THEOREM RecordsAreTrue == Spec => []RecordTellsTheTruth
<1>1. ASSUME IInv, NEW m \in Rows
      PROVE  /\ record[m] = "delivered" => oks[m] > 0
             /\ record[m] = "failed" => oks[m] = lost[m]
  <2>1. SuccessInv(m) /\ oks[m] \in Nat /\ lost[m] \in Nat
    BY <1>1 DEF IInv, TypeOK
  <2>2. QED
    BY <2>1 DEF SuccessInv
<1>2. IInv => RecordTellsTheTruth
  BY <1>1 DEF RecordTellsTheTruth
<1>3. QED
  BY AlwaysIInv, <1>2, PTL

\* firstDelivery goes to at most one row of a session.
THEOREM FirstAnnouncedOnce == Spec => []FirstAtMostOnce
<1>1. ASSUME IInv PROVE Cardinality(first) <= 1
  <2>1. CASE first = {}
    BY <2>1, FS_EmptySet
  <2>2. ASSUME NEW m \in Rows, first = {m} PROVE Cardinality(first) <= 1
    BY <2>2, FS_Singleton
  <2>3. QED
    BY <1>1, <2>1, <2>2 DEF IInv, FirstInv
<1>2. IInv => FirstAtMostOnce
  BY <1>1 DEF FirstAtMostOnce
<1>3. QED
  BY AlwaysIInv, <1>2, PTL

\* A recorded row keeps its record and is not handed to the adapter again,
\* although the chains work from snapshots.
THEOREM RecordsStand == Spec => RecordedForGood
<1> DEFINE Stands(m) ==
      record[m] # "none" => record'[m] = record[m] /\ tried'[m] <= tried[m]
<1>1. ASSUME IInv, [Next]_vars, NEW m \in Rows PROVE Stands(m)
  <2>1. tried[m] \in Nat /\ record \in [Rows -> {"none", "delivered", "failed"}]
        /\ tried \in [Rows -> Nat]
    BY <1>1 DEF IInv, TypeOK
  <2>2. ASSUME NEW c \in Chains, NEW k \in Rows, Send(c, k) \/ SendFails(c, k)
        PROVE  Stands(m)
    <3>1. record[k] = "none" /\ record' = record
      BY <1>1, <2>2 DEF IInv, ChainInv, Send, SendFails
    <3>2. tried' = [tried EXCEPT ![k] = @ + 1]
      BY <2>2 DEF Send, SendFails
    <3>3. QED
      BY <2>1, <3>1, <3>2
  <2>3. ASSUME NEW c \in Chains, Mark(c) \/ GiveUp(c)
        PROVE  Stands(m)
    BY <2>1, <2>3 DEF Mark, GiveUp, Recording
  <2>4. CASE Crash
    BY <2>1, <2>4 DEF Crash
  <2>5. ASSUME record' = record, tried' = tried PROVE Stands(m)
    BY <2>1, <2>5
  <2>6. ASSUME NEW c \in Chains, Step(c) PROVE Stands(m)
    BY <2>2, <2>3, <2>5, <2>6
    DEF Step, Enter, ReadQueue, ReadFails, Leave, MarkFails, After, AfterFails,
        GiveUpFails
  <2>7. ASSUME NEW k \in Rows, Write(k) PROVE Stands(m)
    BY <2>5, <2>7 DEF Write
  <2>8. CASE UNCHANGED vars
    BY <2>5, <2>8 DEF vars
  <2>9. QED
    BY <1>1, <2>4, <2>6, <2>7, <2>8 DEF Next
<1>2. IInv /\ [Next]_vars => [\A m \in Rows : Stands(m)]_vars
  BY <1>1
<1>3. QED
  BY AlwaysIInv, <1>2, PTL DEF Spec, RecordedForGood

-----------------------------------------------------------------------------
(* The sweep's task series.  Occurrences are rows; a recurring one that is *)
(* live or settled stands armed.                                           *)

ArmedOf(rs) == {i \in DOMAIN rs : rs[i].rec}
TodoOf(rs)  == {i \in DOMAIN rs : rs[i].todo}
Least(T)    == CHOOSE i \in T : \A j \in T : i <= j

\* How often the series stands armed; an occurrence whose clone was inserted
\* is about to be cleared and does not count.
Count(rs, a) ==
  Cardinality(IF a = "clearing" THEN ArmedOf(rs) \ {Least(TodoOf(rs))}
                                ELSE ArmedOf(rs))

\* Only finished occurrences that still recur are on the sweep's list, and
\* what is cancelled does not recur.
RowFacts(rs) ==
  \A i \in DOMAIN rs :
    /\ rs[i].todo => Settled(rs[i]) /\ rs[i].rec
    /\ rs[i].st = "cancelled" => ~rs[i].rec

AllListed(rs) ==
  \A i \in DOMAIN rs : Settled(rs[i]) /\ rs[i].rec => rs[i].todo

\* ts arms nothing that rs does not, and has the same rows to re-arm.
Thins(rs, ts) ==
  /\ ts \in Seq(Row) /\ RowFacts(ts)
  /\ ArmedOf(rs) = {} => ArmedOf(ts) = {}
  /\ TodoOf(rs) = {} <=> TodoOf(ts) = {}
  /\ \A a : (a = "clearing" => TodoOf(rs) # {}) => Count(ts, a) <= Count(rs, a)

\* f says which rows of rs, in their order, the rows of ts are.
Selects(rs, ts, f) ==
  /\ f \in [DOMAIN ts -> DOMAIN rs]
  /\ \A k, l \in DOMAIN ts : k < l => f[k] < f[l]
  /\ \A k \in DOMAIN ts : /\ ts[k].rec => rs[f[k]].rec
                          /\ ts[k].todo => rs[f[k]].todo
  /\ \A i \in DOMAIN rs : rs[i].todo =>
        \E k \in DOMAIN ts : f[k] = i /\ ts[k].todo

\* A list in the making.
LEMMA SeqOfRows ==
  ASSUME NEW n \in Nat, NEW s, s = [k \in 1 .. n |-> s[k]],
         \A k \in 1 .. n : s[k] \in Row
  PROVE  s \in Seq(Row) /\ Len(s) = n
OBVIOUS

-----------------------------------------------------------------------------
(* Keeping some of the rows                                                *)

\* Nth names the members of a finite set of numbers in their order.
LEMMA NthIs ==
  ASSUME NEW S \in SUBSET Nat, IsFiniteSet(S)
  PROVE  /\ Cardinality(S) \in Nat
         /\ \A k \in 1 .. Cardinality(S) : Nth(S, k) \in S
         /\ \A k, l \in 1 .. Cardinality(S) : k < l => Nth(S, k) < Nth(S, l)
         /\ \A i \in S : \E k \in 1 .. Cardinality(S) : Nth(S, k) = i
<1>. DEFINE UpTo(i) == {j \in S : j <= i}
            n == Cardinality(S)
            rank == [i \in S |-> Cardinality(UpTo(i))]
<1>1. n \in Nat /\ IsFiniteSet(1 .. n) /\ Cardinality(1 .. n) = n
  BY FS_CardinalityType, FS_Interval
<1>2. ASSUME NEW i \in S
      PROVE  IsFiniteSet(UpTo(i)) /\ Cardinality(UpTo(i)) \in 1 .. n
  <2>1. UpTo(i) \subseteq S /\ UpTo(i) # {}
    OBVIOUS
  <2>. HIDE DEF UpTo
  <2>2. IsFiniteSet(UpTo(i)) /\ Cardinality(UpTo(i)) <= n
    BY <2>1, FS_Subset
  <2>3. Cardinality(UpTo(i)) \in Nat /\ Cardinality(UpTo(i)) # 0
    BY <2>1, <2>2, FS_CardinalityType, FS_EmptySet
  <2>. QED BY <1>1, <2>2, <2>3
<1>3. ASSUME NEW i \in S, NEW j \in S, i < j
      PROVE  Cardinality(UpTo(i)) < Cardinality(UpTo(j))
  <2>0. i \in Nat /\ j \in Nat
    OBVIOUS
  <2>1. UpTo(i) \subseteq UpTo(j) /\ j \in UpTo(j) /\ j \notin UpTo(i)
    <3>1. ASSUME NEW x \in UpTo(i) PROVE x \in UpTo(j)
      <4>1. x \in S /\ x \in Nat /\ x <= i
        OBVIOUS
      <4>2. x <= j
        BY <1>3, <2>0, <4>1
      <4>. QED BY <4>1, <4>2
    <3>2. j \in UpTo(j) /\ j \notin UpTo(i)
      BY <1>3, <2>0
    <3>. HIDE DEF UpTo
    <3>. QED BY <3>1, <3>2
  <2>. HIDE DEF UpTo
  <2>2. /\ Cardinality(UpTo(i)) <= Cardinality(UpTo(j))
        /\ Cardinality(UpTo(i)) # Cardinality(UpTo(j))
    BY <1>2, <2>1, FS_Subset
  <2>. QED BY <1>2, <2>2
<1>4. rank \in Injection(S, 1 .. n)
  <2>1. rank \in [S -> 1 .. n]
    BY <1>2
  <2>2. ASSUME NEW i \in S, NEW j \in S, rank[i] = rank[j] PROVE i = j
    <3>1. i \in Nat /\ j \in Nat
      OBVIOUS
    <3>2. ~(i < j) /\ ~(j < i)
      <4>. HIDE DEF UpTo
      <4>. QED BY <1>2, <1>3, <2>2
    <3>. QED BY <3>1, <3>2
  <2>. HIDE DEF rank
  <2>. QED BY <2>1, <2>2, Fun_IsInj
<1>5. rank \in Surjection(S, 1 .. n)
  <2>. HIDE DEF rank, UpTo
  <2>. QED BY <1>1, <1>4, FS_Injection
<1>6. ASSUME NEW k \in 1 .. n
      PROVE  Nth(S, k) \in S /\ Cardinality(UpTo(Nth(S, k))) = k
  <2>1. \E i \in S : rank[i] = k
    <3>. HIDE DEF rank, UpTo
    <3>. QED BY <1>5 DEF Surjection
  <2>2. \E i \in S : Cardinality({j \in S : j <= i}) = k
    BY <2>1
  <2>. QED BY <2>2 DEF Nth
<1>7. ASSUME NEW k \in 1 .. n, NEW l \in 1 .. n, k < l
      PROVE  Nth(S, k) < Nth(S, l)
  <2>. DEFINE a == Nth(S, k)
              b == Nth(S, l)
  <2>1. a \in S /\ b \in S /\ Cardinality(UpTo(a)) = k /\ Cardinality(UpTo(b)) = l
    BY <1>6
  <2>. HIDE DEF a, b, UpTo
  <2>2. a \in Nat /\ b \in Nat /\ k \in Nat /\ l \in Nat
    BY <2>1
  <2>3. ~(b < a) /\ a # b
    BY <1>3, <1>7, <2>1, <2>2
  <2>4. a < b
    BY <2>2, <2>3
  <2>. QED BY <2>4 DEF a, b
<1>8. ASSUME NEW i \in S PROVE \E k \in 1 .. n : Nth(S, k) = i
  <2>. DEFINE k == Cardinality(UpTo(i))
  <2>1. k \in 1 .. n
    BY <1>2
  <2>2. Nth(S, k) \in S /\ Cardinality(UpTo(Nth(S, k))) = k
    BY <1>6, <2>1
  <2>3. rank[Nth(S, k)] = rank[i]
    BY <2>2
  <2>4. Nth(S, k) = i
    <3>. HIDE DEF rank, UpTo
    <3>. QED BY <1>4, <2>2, <2>3 DEF Injection, IsInjective
  <2>. QED BY <2>1, <2>4
<1>. HIDE DEF rank, UpTo
<1>. QED BY <1>1, <1>6, <1>7, <1>8

\* The places of a list at which something holds are finitely many.
LEMMA PlacesFinite ==
  ASSUME NEW s \in Seq(Row), NEW T \in SUBSET (DOMAIN s)
  PROVE  IsFiniteSet(T) /\ Cardinality(T) \in Nat /\ T \in SUBSET Nat
<1>1. DOMAIN s = 1 .. Len(s) /\ Len(s) \in Nat
  OBVIOUS
<1>2. IsFiniteSet(1 .. Len(s))
  BY <1>1, FS_Interval
<1>3. IsFiniteSet(T)
  BY <1>1, <1>2, FS_Subset
<1>. QED BY <1>1, <1>3, FS_CardinalityType

\* A fading row keeps what the schedule turns on.
LEMMA FadedRow ==
  ASSUME NEW r \in Row
  PROVE  /\ Faded(r) \in Row
         /\ Faded(r).st = r.st /\ Faded(r).rec = r.rec
         /\ Faded(r).todo => r.todo
         /\ r.st # "cancelled" => Faded(r).todo = r.todo
<1>1. CASE Live(r)
  <2>1. Faded(r) = r
    BY <1>1 DEF Faded, Live, Settled
  <2>. QED BY <2>1, Zenon
<1>2. CASE Settled(r)
  <2>1. ~Live(r)
    BY <1>2 DEF Live, Settled
  <2>2. Faded(r) = [Occurrence(r.st, r.rec, TRUE) EXCEPT !.todo = r.todo]
    BY <1>2, <2>1 DEF Faded
  <2>3. Occurrence(r.st, r.rec, TRUE) \in Row
    BY ScheduleAssumption DEF Occurrence, Row
  <2>. QED BY <2>2, <2>3 DEF Occurrence, Row
<1>3. CASE ~Live(r) /\ ~Settled(r)
  <2>1. Faded(r) = [Occurrence(r.st, r.rec, TRUE) EXCEPT !.ack = r.ack]
    BY <1>3 DEF Faded
  <2>2. Occurrence(r.st, r.rec, TRUE) \in Row
    BY ScheduleAssumption DEF Occurrence, Row
  <2>3. r.st = "cancelled"
    BY <1>3 DEF Live, Settled, Row
  <2>. QED BY <2>1, <2>2, <2>3 DEF Occurrence, Row
<1>. QED BY <1>1, <1>2, <1>3

\* Tidy keeps rows in their order, among them all that are still to re-arm.
LEMMA TidyDoes ==
  ASSUME NEW rs \in Seq(Row)
  PROVE  /\ Tidy(rs) \in Seq(Row)
         /\ \E f \in [DOMAIN Tidy(rs) -> DOMAIN rs] :
              /\ \A k \in DOMAIN Tidy(rs) : Tidy(rs)[k] = Faded(rs[f[k]])
              /\ \A k, l \in DOMAIN Tidy(rs) : k < l => f[k] < f[l]
              /\ \A i \in DOMAIN rs : rs[i].todo =>
                    \E k \in DOMAIN Tidy(rs) : f[k] = i
<1>. DEFINE S == Kept(rs)
            n == Cardinality(S)
            f == [k \in 1 .. n |-> Nth(S, k)]
<1>1. S \in SUBSET (DOMAIN rs)
  BY DEF Kept
<1>2. IsFiniteSet(S) /\ n \in Nat /\ S \in SUBSET Nat
  BY <1>1, PlacesFinite
<1>3. /\ \A k \in 1 .. n : Nth(S, k) \in S
      /\ \A k, l \in 1 .. n : k < l => Nth(S, k) < Nth(S, l)
      /\ \A i \in S : \E k \in 1 .. n : Nth(S, k) = i
  <2>. HIDE DEF S
  <2>. QED BY <1>2, NthIs
<1>4. Tidy(rs) = [k \in 1 .. n |-> Faded(rs[Nth(S, k)])]
  BY DEF Tidy
<1>. HIDE DEF S
<1>5. ASSUME NEW k \in 1 .. n PROVE Faded(rs[Nth(S, k)]) \in Row
  <2>1. rs[Nth(S, k)] \in Row
    BY <1>1, <1>3
  <2>. QED BY <2>1, FadedRow
<1>6. Tidy(rs) \in Seq(Row)
  BY <1>2, <1>4, <1>5, SeqOfRows
<1>7. DOMAIN Tidy(rs) = 1 .. n
  BY <1>4
<1>8. f \in [1 .. n -> DOMAIN rs]
  BY <1>1, <1>3
<1>9. ASSUME NEW i \in DOMAIN rs, rs[i].todo PROVE i \in S
  BY <1>9 DEF S, Kept, Forgettable
<1>10. \A k \in 1 .. n : Tidy(rs)[k] = Faded(rs[f[k]])
  BY <1>4
<1>11. \A k, l \in 1 .. n : k < l => f[k] < f[l]
  BY <1>3
<1>12. \A i \in DOMAIN rs : rs[i].todo => \E k \in 1 .. n : f[k] = i
  BY <1>3, <1>9
<1>. HIDE DEF f
<1>. QED BY <1>6, <1>7, <1>8, <1>10, <1>11, <1>12

\* The count is one.
LEMMA CountType == ASSUME NEW rs \in Seq(Row), NEW a PROVE Count(rs, a) \in Nat
<1>1. ArmedOf(rs) \in SUBSET (DOMAIN rs)
      /\ ArmedOf(rs) \ {Least(TodoOf(rs))} \in SUBSET (DOMAIN rs)
  BY DEF ArmedOf
<1>. QED BY <1>1, PlacesFinite DEF Count

\* The least of some places in a list.
LEMMA LeastIs ==
  ASSUME NEW s \in Seq(Row), NEW T \in SUBSET (DOMAIN s), T # {}
  PROVE  Least(T) \in T /\ \A j \in T : Least(T) <= j
<1>1. IsFiniteSet(T) /\ T \in SUBSET Nat /\ Cardinality(T) \in Nat
  BY PlacesFinite
<1>2. 1 \in 1 .. Cardinality(T)
  BY <1>1, FS_EmptySet
<1>. DEFINE n == Cardinality(T)
<1>3. /\ \A k \in 1 .. n : Nth(T, k) \in T
      /\ \A k, l \in 1 .. n : k < l => Nth(T, k) < Nth(T, l)
      /\ \A i \in T : \E k \in 1 .. n : Nth(T, k) = i
  BY <1>1, NthIs
<1>4. Nth(T, 1) \in T
  BY <1>2, <1>3
<1>5. ASSUME NEW j \in T PROVE Nth(T, 1) <= j
  <2>1. PICK k \in 1 .. n : Nth(T, k) = j
    BY <1>3
  <2>2. Nth(T, 1) \in Nat /\ j \in Nat
    BY <1>1, <1>4
  <2>3. CASE k = 1
    BY <2>1, <2>2, <2>3
  <2>4. CASE k # 1
    <3>1. 1 < k
      BY <2>4
    <3>2. Nth(T, 1) < Nth(T, k)
      BY <1>2, <1>3, <3>1
    <3>. QED BY <2>1, <2>2, <3>2
  <2>. QED BY <2>3, <2>4
<1>6. \E i \in T : \A j \in T : i <= j
  BY <1>4, <1>5
<1>. QED BY <1>6 DEF Least

\* Sets of places compare by their members.
LEMMA CountsFewer ==
  ASSUME NEW rs \in Seq(Row), NEW ts \in Seq(Row),
         NEW A \in SUBSET (DOMAIN rs), NEW B \in SUBSET (DOMAIN ts),
         NEW f \in [DOMAIN ts -> DOMAIN rs],
         \A k, l \in DOMAIN ts : k < l => f[k] < f[l],
         \A k \in B : f[k] \in A
  PROVE  Cardinality(B) <= Cardinality(A)
<1>. DEFINE g == [k \in B |-> f[k]]
<1>1. IsFiniteSet(A) /\ Cardinality(A) \in Nat
  BY PlacesFinite
<1>2. g \in [B -> A]
  OBVIOUS
<1>3. ASSUME NEW k \in B, NEW l \in B, g[k] = g[l] PROVE k = l
  <2>1. k \in Nat /\ l \in Nat /\ f[k] \in Nat /\ f[l] \in Nat
    BY PlacesFinite
  <2>2. ~(k < l) /\ ~(l < k)
    BY <1>3, <2>1
  <2>. QED BY <2>1, <2>2
<1>. HIDE DEF g
<1>4. g \in Injection(B, A)
  BY <1>2, <1>3, Fun_IsInj
<1>. QED BY <1>1, <1>4, FS_Injection

\* A selection of rows in their order, with all that are to be re-armed.
LEMMA SelectionThins ==
  ASSUME NEW rs \in Seq(Row), RowFacts(rs), NEW ts \in Seq(Row), RowFacts(ts),
         NEW f, Selects(rs, ts, f)
  PROVE  Thins(rs, ts)
<1>a. /\ f \in [DOMAIN ts -> DOMAIN rs]
      /\ \A k, l \in DOMAIN ts : k < l => f[k] < f[l]
  BY DEF Selects
<1>b. \A k \in DOMAIN ts : /\ ts[k].rec => rs[f[k]].rec
                           /\ ts[k].todo => rs[f[k]].todo
  BY DEF Selects
<1>c. \A i \in DOMAIN rs : rs[i].todo =>
         \E k \in DOMAIN ts : f[k] = i /\ ts[k].todo
  BY Zenon DEF Selects
<1>1. ArmedOf(rs) \in SUBSET (DOMAIN rs) /\ ArmedOf(ts) \in SUBSET (DOMAIN ts)
  BY DEF ArmedOf
<1>0. \A k \in DOMAIN ts : f[k] \in DOMAIN rs
  BY <1>a
<1>2. \A k \in ArmedOf(ts) : f[k] \in ArmedOf(rs)
  BY <1>0, <1>b, Zenon DEF ArmedOf
<1>3. TodoOf(rs) \in SUBSET (DOMAIN rs) /\ TodoOf(ts) \in SUBSET (DOMAIN ts)
  BY DEF TodoOf
<1>4. \A k \in TodoOf(ts) : f[k] \in TodoOf(rs)
  BY <1>0, <1>b, Zenon DEF TodoOf
<1>5. \A i \in TodoOf(rs) : \E k \in TodoOf(ts) : f[k] = i
  BY <1>c, Zenon DEF TodoOf
<1>6. ArmedOf(rs) = {} => ArmedOf(ts) = {}
  BY <1>2
<1>7. TodoOf(rs) = {} <=> TodoOf(ts) = {}
  BY <1>4, <1>5
<1>8. Cardinality(ArmedOf(ts)) <= Cardinality(ArmedOf(rs))
  BY <1>a, <1>1, <1>2, CountsFewer
<1>9. ASSUME TodoOf(rs) # {}
      PROVE  Cardinality(ArmedOf(ts) \ {Least(TodoOf(ts))})
               <= Cardinality(ArmedOf(rs) \ {Least(TodoOf(rs))})
  <2>. DEFINE m == Least(TodoOf(rs))
              n == Least(TodoOf(ts))
  <2>1. m \in TodoOf(rs) /\ \A j \in TodoOf(rs) : m <= j
    BY <1>3, <1>9, LeastIs
  <2>2. n \in TodoOf(ts) /\ \A j \in TodoOf(ts) : n <= j
    BY <1>3, <1>7, <1>9, LeastIs
  <2>. HIDE DEF m, n
  <2>3. PICK k \in TodoOf(ts) : f[k] = m
    BY <1>5, <2>1
  <2>4. f[k] <= f[n] /\ n <= k
    BY <1>4, <2>1, <2>2, <2>3
  <2>5. k = n
    <3>1. k \in Nat /\ n \in Nat /\ f[k] \in Nat /\ f[n] \in Nat
      BY <1>0, <1>3, <2>2, PlacesFinite
    <3>2. ~(n < k)
      BY <1>a, <1>3, <2>2, <2>3, <2>4, <3>1
    <3>. QED BY <2>4, <3>1, <3>2
  <2>6. ASSUME NEW j \in ArmedOf(ts) \ {n} PROVE f[j] \in ArmedOf(rs) \ {m}
    <3>1. f[j] \in ArmedOf(rs)
      BY <1>2
    <3>2. j \in DOMAIN ts /\ n \in DOMAIN ts /\ j # n
      BY <1>1, <1>3, <2>2
    <3>3. j \in Nat /\ n \in Nat /\ f[j] \in Nat /\ f[n] \in Nat
      BY <1>0, <3>2, PlacesFinite
    <3>4. f[j] # f[n]
      <4>1. CASE j < n
        BY <1>a, <3>2, <3>3, <4>1
      <4>2. CASE n < j
        BY <1>a, <3>2, <3>3, <4>2
      <4>. QED BY <3>2, <3>3, <4>1, <4>2
    <3>. QED BY <2>3, <2>5, <3>1, <3>4
  <2>7. ArmedOf(rs) \ {m} \in SUBSET (DOMAIN rs)
        /\ ArmedOf(ts) \ {n} \in SUBSET (DOMAIN ts)
    BY <1>1
  <2>8. Cardinality(ArmedOf(ts) \ {n}) <= Cardinality(ArmedOf(rs) \ {m})
    BY <1>a, <2>6, <2>7, CountsFewer
  <2>. QED BY <2>8 DEF m, n
<1>10. \A a : (a = "clearing" => TodoOf(rs) # {}) => Count(ts, a) <= Count(rs, a)
  BY <1>8, <1>9 DEF Count
<1>. QED BY <1>6, <1>7, <1>10 DEF Thins

\* Forgetting rows changes nothing that matters to the schedule.
LEMMA TidyThins ==
  ASSUME NEW rs \in Seq(Row), RowFacts(rs)
  PROVE  Thins(rs, Tidy(rs)) /\ (AllListed(rs) => AllListed(Tidy(rs)))
<1>. DEFINE ts == Tidy(rs)
<1>1. ts \in Seq(Row)
  BY TidyDoes
<1>2. PICK f \in [DOMAIN ts -> DOMAIN rs] :
         /\ \A k \in DOMAIN ts : ts[k] = Faded(rs[f[k]])
         /\ \A k, l \in DOMAIN ts : k < l => f[k] < f[l]
         /\ \A i \in DOMAIN rs : rs[i].todo => \E k \in DOMAIN ts : f[k] = i
  BY TidyDoes
<1>. HIDE DEF ts
<1>3. ASSUME NEW k \in DOMAIN ts
      PROVE  /\ f[k] \in DOMAIN rs /\ rs[f[k]] \in Row
             /\ ts[k].st = rs[f[k]].st
             /\ ts[k].rec = rs[f[k]].rec /\ (ts[k].todo => rs[f[k]].todo)
             /\ rs[f[k]].st # "cancelled" => ts[k].todo = rs[f[k]].todo
  <2>1. f[k] \in DOMAIN rs /\ rs[f[k]] \in Row
    OBVIOUS
  <2>2. ts[k] = Faded(rs[f[k]])
    BY <1>2
  <2>. QED BY <2>1, <2>2, FadedRow
<1>4. RowFacts(ts)
  BY <1>3 DEF RowFacts, Settled
<1>5. ASSUME NEW i \in DOMAIN rs, rs[i].todo
      PROVE  \E k \in DOMAIN ts : f[k] = i /\ ts[k].todo
  <2>1. PICK k \in DOMAIN ts : f[k] = i
    BY <1>2, <1>5
  <2>2. rs[i].st # "cancelled"
    BY <1>5 DEF RowFacts, Settled
  <2>3. ts[k].todo = rs[i].todo
    BY <1>3, <2>1, <2>2
  <2>. QED BY <1>5, <2>1, <2>3
<1>6. Thins(rs, ts)
  <2>1. \A k \in DOMAIN ts : (ts[k].rec => rs[f[k]].rec) /\ (ts[k].todo => rs[f[k]].todo)
    BY <1>3
  <2>2. Selects(rs, ts, f)
    BY <1>2, <1>5, <2>1 DEF Selects
  <2>. QED BY <1>1, <1>4, <2>2, SelectionThins
<1>7. ASSUME AllListed(rs) PROVE AllListed(ts)
  <2>1. ASSUME NEW k \in DOMAIN ts, Settled(ts[k]), ts[k].rec PROVE ts[k].todo
    <3>1. rs[f[k]].todo /\ rs[f[k]].st # "cancelled"
      BY <1>3, <1>7, <2>1 DEF AllListed, Settled
    <3>. QED BY <1>3, <3>1
  <2>. QED BY <2>1 DEF AllListed
<1>. QED BY <1>6, <1>7 DEF ts

\* A change of single rows that arms none and leaves the list alone.
LEMMA ChangeThins ==
  ASSUME NEW rs \in Seq(Row), RowFacts(rs), NEW ts \in Seq(Row), RowFacts(ts),
         DOMAIN ts = DOMAIN rs,
         \A i \in DOMAIN rs : /\ ts[i].rec => rs[i].rec
                              /\ ts[i].todo <=> rs[i].todo
  PROVE  Thins(rs, ts)
<1>. DEFINE f == [k \in DOMAIN ts |-> k]
<1>1. f \in [DOMAIN ts -> DOMAIN rs]
  OBVIOUS
<1>2. \A k, l \in DOMAIN ts : k < l => f[k] < f[l]
  OBVIOUS
<1>3. \A k \in DOMAIN ts : (ts[k].rec => rs[f[k]].rec) /\ (ts[k].todo => rs[f[k]].todo)
  OBVIOUS
<1>4. \A i \in DOMAIN rs : rs[i].todo => \E k \in DOMAIN ts : f[k] = i /\ ts[k].todo
  OBVIOUS
<1>5. Selects(rs, ts, f)
  <2>. HIDE DEF f
  <2>. QED BY <1>1, <1>2, <1>3, <1>4 DEF Selects
<1>. HIDE DEF f
<1>. QED BY <1>5, SelectionThins

\* One after the other.
LEMMA ThinsOn ==
  ASSUME NEW rs \in Seq(Row), NEW ts, NEW us, Thins(rs, ts), Thins(ts, us)
  PROVE  Thins(rs, us)
<1>1. ASSUME NEW a, a = "clearing" => TodoOf(rs) # {}
      PROVE  Count(us, a) <= Count(rs, a)
  <2>1. Count(us, a) <= Count(ts, a) /\ Count(ts, a) <= Count(rs, a)
    BY <1>1 DEF Thins
  <2>2. Count(us, a) \in Nat /\ Count(ts, a) \in Nat /\ Count(rs, a) \in Nat
    BY CountType DEF Thins
  <2>. QED BY <2>1, <2>2
<1>. QED BY <1>1 DEF Thins

\* A row may lose its recurrence; it stays on the list if it is on it.
Eases(r, s) ==
  /\ s \in Row
  /\ s.rec => r.rec
  /\ s.todo <=> r.todo
  /\ s.todo => Settled(s) /\ s.rec
  /\ s.st = "cancelled" => ~s.rec

\* Rows changed one by one.
LEMMA EasedThins ==
  ASSUME NEW rs \in Seq(Row), RowFacts(rs), NEW ts,
         ts = [i \in DOMAIN rs |-> ts[i]],
         \A i \in DOMAIN rs : Eases(rs[i], ts[i])
  PROVE  /\ Thins(rs, ts) /\ Thins(rs, Tidy(ts))
         /\ AllListed(rs)
              /\ (\A i \in DOMAIN rs : Settled(ts[i]) => Settled(rs[i]))
            => AllListed(ts) /\ AllListed(Tidy(ts))
<1>1. ts \in Seq(Row) /\ DOMAIN ts = DOMAIN rs
  <2>1. DOMAIN rs = 1 .. Len(rs) /\ Len(rs) \in Nat
    OBVIOUS
  <2>2. \A i \in 1 .. Len(rs) : ts[i] \in Row
    BY <2>1 DEF Eases
  <2>. QED BY <2>1, <2>2, SeqOfRows
<1>2. RowFacts(ts)
  BY <1>1 DEF RowFacts, Eases
<1>3. \A i \in DOMAIN rs : (ts[i].rec => rs[i].rec) /\ (ts[i].todo <=> rs[i].todo)
  BY Zenon DEF Eases
<1>4. Thins(rs, ts)
  BY <1>1, <1>2, <1>3, ChangeThins
<1>5. Thins(ts, Tidy(ts)) /\ (AllListed(ts) => AllListed(Tidy(ts)))
  BY <1>1, <1>2, TidyThins
<1>6. Thins(rs, Tidy(ts))
  BY <1>4, <1>5, ThinsOn
<1>7. ASSUME AllListed(rs), \A i \in DOMAIN rs : Settled(ts[i]) => Settled(rs[i])
      PROVE  AllListed(ts)
  BY <1>1, <1>3, <1>7, Zenon DEF AllListed
<1>. QED BY <1>4, <1>5, <1>6, <1>7

\* An extra row that does not recur.
LEMMA AppendThins ==
  ASSUME NEW rs \in Seq(Row), RowFacts(rs), NEW r \in Row, ~r.rec, ~r.todo
  PROVE  Thins(rs, Append(rs, r)) /\ (AllListed(rs) => AllListed(Append(rs, r)))
<1>. DEFINE ts == Append(rs, r)
<1>1. /\ ts \in Seq(Row) /\ DOMAIN ts = DOMAIN rs \cup {Len(rs) + 1}
      /\ ts[Len(rs) + 1] = r /\ \A i \in DOMAIN rs : ts[i] = rs[i]
  OBVIOUS
<1>. HIDE DEF ts
<1>2. RowFacts(ts)
  BY <1>1 DEF RowFacts
<1>3. ArmedOf(ts) = ArmedOf(rs)
  BY <1>1 DEF ArmedOf
<1>4. TodoOf(ts) = TodoOf(rs)
  BY <1>1 DEF TodoOf
<1>5. \A a : Count(ts, a) = Count(rs, a) /\ Count(rs, a) \in Nat
  BY <1>3, <1>4, CountType DEF Count
<1>6. Thins(rs, ts)
  BY <1>1, <1>2, <1>3, <1>4, <1>5 DEF Thins
<1>7. AllListed(rs) => AllListed(ts)
  BY <1>1 DEF AllListed
<1>. QED BY <1>6, <1>7 DEF ts

\* Mirroring the acks.
LEMMA MirrorThins ==
  ASSUME rows \in Seq(Row), RowFacts(rows)
  PROVE  Thins(rows, applyProcessingAcks)
<1>. DEFINE Mirror(r) ==
        IF Settled(r) THEN r
        ELSE CASE r.ack = "completed" -> [r EXCEPT !.st = "completed"]
               [] r.ack = "script-skip:error" -> [r EXCEPT !.st = "failed"]
               [] OTHER -> r
            ts == [i \in DOMAIN rows |-> Mirror(rows[i])]
<1>1. applyProcessingAcks = Tidy(ts)
  BY DEF applyProcessingAcks, MapRows
<1>2. ASSUME NEW i \in DOMAIN rows PROVE Eases(rows[i], ts[i])
  <2>. DEFINE r == rows[i]
  <2>1. r \in Row /\ (r.todo => Settled(r) /\ r.rec) /\ (r.st = "cancelled" => ~r.rec)
    BY DEF RowFacts
  <2>2. ts[i] = Mirror(r)
    OBVIOUS
  <2>. HIDE DEF r, ts
  <2>3. CASE Settled(r) \/ r.ack \notin {"completed", "script-skip:error"}
    <3>1. Mirror(r) = r
      BY <2>3
    <3>. QED BY <2>1, <2>2, <3>1 DEF Eases, r
  <2>4. CASE ~Settled(r) /\ r.ack = "completed"
    <3>1. Mirror(r) = [r EXCEPT !.st = "completed"]
      BY <2>4
    <3>. QED BY <2>1, <2>2, <2>4, <3>1 DEF Eases, Row, Settled, r
  <2>5. CASE ~Settled(r) /\ r.ack = "script-skip:error"
    <3>1. Mirror(r) = [r EXCEPT !.st = "failed"]
      BY <2>5
    <3>. QED BY <2>1, <2>2, <2>5, <3>1 DEF Eases, Row, Settled, r
  <2>. QED BY <2>3, <2>4, <2>5
<1>3. ts = [i \in DOMAIN rows |-> ts[i]]
  OBVIOUS
<1>. HIDE DEF ts
<1>. QED BY <1>1, <1>2, <1>3, EasedThins

\* Claims left behind.
LEMMA ResetThins ==
  ASSUME NEW rs \in Seq(Row), RowFacts(rs)
  PROVE  Thins(rs, resetStuckProcessingRows(rs))
<1>. DEFINE Reset(r) ==
        IF r.ack # "processing" THEN r
        ELSE IF r.st # "pending" \/ ~r.due THEN [r EXCEPT !.ack = "none"]
        ELSE IF r.tries >= MaxTries
             THEN [r EXCEPT !.ack = "none", !.st = "failed"]
        ELSE [r EXCEPT !.ack = "none", !.tries = @ + 1, !.due = FALSE]
            ts == [i \in DOMAIN rs |-> Reset(rs[i])]
<1>1. resetStuckProcessingRows(rs) = Tidy(ts)
  BY DEF resetStuckProcessingRows, MapRows
<1>2. ASSUME NEW i \in DOMAIN rs PROVE Eases(rs[i], ts[i])
  <2>. DEFINE r == rs[i]
  <2>1. r \in Row /\ (r.todo => Settled(r) /\ r.rec) /\ (r.st = "cancelled" => ~r.rec)
    BY DEF RowFacts
  <2>2. ts[i] = Reset(r)
    OBVIOUS
  <2>. HIDE DEF r, ts
  <2>3. CASE r.ack # "processing"
    <3>1. Reset(r) = r
      BY <2>3
    <3>. QED BY <2>1, <2>2, <3>1 DEF Eases, r
  <2>4. CASE r.ack = "processing" /\ (r.st # "pending" \/ ~r.due)
    <3>1. Reset(r) = [r EXCEPT !.ack = "none"]
      BY <2>4
    <3>. QED BY <2>1, <2>2, <3>1 DEF Eases, Row, Settled, r
  <2>5. CASE r.ack = "processing" /\ r.st = "pending" /\ r.due /\ r.tries >= MaxTries
    <3>1. Reset(r) = [r EXCEPT !.ack = "none", !.st = "failed"]
      BY <2>5
    <3>. QED BY <2>1, <2>2, <2>5, <3>1 DEF Eases, Row, Settled, r
  <2>6. CASE r.ack = "processing" /\ r.st = "pending" /\ r.due /\ ~(r.tries >= MaxTries)
    <3>1. Reset(r) = [r EXCEPT !.ack = "none", !.tries = @ + 1, !.due = FALSE]
      BY <2>6
    <3>2. r.tries + 1 \in 0 .. MaxTries
      BY <2>1, <2>6, ScheduleAssumption DEF Row
    <3>. QED BY <2>1, <2>2, <2>6, <3>1, <3>2 DEF Eases, Row, Settled, r
  <2>. QED BY <2>3, <2>4, <2>5, <2>6
<1>3. ts = [i \in DOMAIN rs |-> ts[i]]
  OBVIOUS
<1>. HIDE DEF ts
<1>. QED BY <1>1, <1>2, <1>3, EasedThins

\* One row of the list changes.
LEMMA OneThins ==
  ASSUME NEW rs \in Seq(Row), RowFacts(rs), NEW i \in DOMAIN rs, NEW s,
         Eases(rs[i], s), Settled(s) => Settled(rs[i])
  PROVE  /\ Thins(rs, [rs EXCEPT ![i] = s])
         /\ AllListed(rs) => AllListed([rs EXCEPT ![i] = s])
<1>. DEFINE ts == [rs EXCEPT ![i] = s]
<1>1. ts = [j \in DOMAIN rs |-> ts[j]]
      /\ \A j \in DOMAIN rs : ts[j] = IF j = i THEN s ELSE rs[j]
  OBVIOUS
<1>2. \A j \in DOMAIN rs : rs[j] \in Row
  OBVIOUS
<1>. HIDE DEF ts
<1>3. ASSUME NEW j \in DOMAIN rs
      PROVE  Eases(rs[j], ts[j]) /\ (Settled(ts[j]) => Settled(rs[j]))
  <2>1. CASE j = i
    BY <1>1, <2>1
  <2>2. CASE j # i
    <3>1. ts[j] = rs[j]
      BY <1>1, <2>2
    <3>. QED BY <1>2, <3>1 DEF Eases, RowFacts
  <2>. QED BY <2>1, <2>2
<1>4. Thins(rs, ts) /\ (AllListed(rs) => AllListed(ts))
  BY <1>1, <1>3, EasedThins
<1>. QED BY <1>4 DEF ts

-----------------------------------------------------------------------------
(* The invariant                                                           *)

\* While no write of its pass has failed, a sweep that has read its list has
\* every finished occurrence on it; a session is closed between two sweeps.
SeriesInv ==
  /\ TaskTypeOK
  /\ RowFacts(rows)
  /\ ~dropped /\ at \in {"arming", "clearing"} => AllListed(rows)
  /\ at = "clearing" => TodoOf(rows) # {}
  /\ sess = "closed" => at = "idle" /\ (~dropped => ArmedOf(rows) = {})
  /\ Count(rows, at) <= 1 + arms + taskFaults

\* A step that goes from one state of it to another, and arms nothing.
Holds == SeriesInv' /\ (ArmedOf(rows) = {} => ArmedOf(rows') = {})

\* Most steps leave the armed rows and the list alone, or thin them out.
LEMMA ThinningStep ==
  ASSUME SeriesInv, Thins(rows, rows'), arms' = arms, taskFaults' = taskFaults,
         dropped' = dropped, sess' \in {"active", "closed", "deleted"}, mail' \in BOOLEAN,
         running' \in BOOLEAN, cmd' \in {"none", "run", "deleting"},
         at' = at \/ (at # "clearing" /\ at' \in {"idle", "waking", "listing"}),
         at' = at => (AllListed(rows) => AllListed(rows')),
         sess' = "closed" => sess = "closed" /\ at' = at
  PROVE  Holds
<1>1. TaskTypeOK'
  BY DEF SeriesInv, TaskTypeOK, Thins
<1>2. RowFacts(rows')
  BY DEF Thins
<1>3. ~dropped' /\ at' \in {"arming", "clearing"} => AllListed(rows')
  BY DEF SeriesInv
<1>4. at' = "clearing" => TodoOf(rows') # {}
  BY DEF SeriesInv, Thins
<1>5. sess' = "closed" => at' = "idle" /\ (~dropped' => ArmedOf(rows') = {})
  BY DEF SeriesInv, Thins
<1>6. Count(rows', at') <= 1 + arms' + taskFaults'
  <2>1. Count(rows', at) <= Count(rows, at) /\ Count(rows, at) <= 1 + arms + taskFaults
    BY DEF SeriesInv, Thins
  <2>2. Count(rows', at') = Count(rows', at)
    BY DEF Count
  <2>3. Count(rows', at) \in Nat /\ Count(rows, at) \in Nat
        /\ arms \in Nat /\ taskFaults \in Nat
    BY CountType DEF SeriesInv, TaskTypeOK, Thins
  <2>. QED BY <2>1, <2>2, <2>3
<1>7. SeriesInv'
  BY <1>1, <1>2, <1>3, <1>4, <1>5, <1>6 DEF SeriesInv
<1>. QED BY <1>7 DEF Holds, Thins

\* The same rows are the thinnest change.
LEMMA SameRows ==
  ASSUME NEW rs \in Seq(Row), RowFacts(rs)
  PROVE  Thins(rs, rs)
BY ChangeThins

\* The invariant, row by row.
LEMMA RowsOf ==
  ASSUME SeriesInv
  PROVE  /\ rows \in Seq(Row) /\ RowFacts(rows)
         /\ \A i \in DOMAIN rows :
              /\ rows[i] \in Row
              /\ rows[i].todo => Settled(rows[i]) /\ rows[i].rec
              /\ rows[i].st = "cancelled" => ~rows[i].rec
BY DEF SeriesInv, TaskTypeOK, RowFacts

-----------------------------------------------------------------------------
(* Time and the container                                                  *)

\* The cron time of an occurrence comes.
LEMMA DueHolds ==
  ASSUME SeriesInv, NEW i \in DOMAIN rows, Due(i)
  PROVE  Holds
<1>. DEFINE s == [rows[i] EXCEPT !.due = TRUE]
<1>1. rows' = [rows EXCEPT ![i] = s]
  BY DEF Due
<1>2. Eases(rows[i], s) /\ (Settled(s) => Settled(rows[i]))
  BY RowsOf DEF Eases, Row, Settled
<1>. HIDE DEF s
<1>3. Thins(rows, rows') /\ (AllListed(rows) => AllListed(rows'))
  BY <1>1, <1>2, RowsOf, OneThins
<1>. QED BY <1>3, ThinningStep DEF Due, bounds, SeriesInv, TaskTypeOK

\* The runner claims an occurrence.
LEMMA ClaimsHolds ==
  ASSUME SeriesInv, NEW i \in DOMAIN rows, Claims(i)
  PROVE  Holds
<1>. DEFINE s == [rows[i] EXCEPT !.ack = "processing"]
<1>1. rows' = [rows EXCEPT ![i] = s]
  BY DEF Claims
<1>2. Eases(rows[i], s) /\ (Settled(s) => Settled(rows[i]))
  BY RowsOf DEF Eases, Row, Settled
<1>. HIDE DEF s
<1>3. Thins(rows, rows') /\ (AllListed(rows) => AllListed(rows'))
  BY <1>1, <1>2, RowsOf, OneThins
<1>. QED BY <1>3, ThinningStep DEF Claims, bounds, SeriesInv, TaskTypeOK

\* The runner answers one, or its script fails.
LEMMA AnswersHolds ==
  ASSUME SeriesInv, NEW i \in DOMAIN rows, NEW good \in BOOLEAN, Answers(i, good)
  PROVE  Holds
<1>. DEFINE s == [rows[i] EXCEPT
              !.ack = IF good THEN "completed" ELSE "script-skip:error"]
<1>1. rows' = [rows EXCEPT ![i] = s]
  BY DEF Answers
<1>2. Eases(rows[i], s) /\ (Settled(s) => Settled(rows[i]))
  BY RowsOf DEF Eases, Row, Settled
<1>. HIDE DEF s
<1>3. Thins(rows, rows') /\ (AllListed(rows) => AllListed(rows'))
  BY <1>1, <1>2, RowsOf, OneThins
<1>. QED BY <1>3, ThinningStep DEF Answers, bounds, SeriesInv, TaskTypeOK

\* Steps that leave the rows as they are.
LEMMA RestingHolds ==
  ASSUME SeriesInv,
         ContainerEnds \/ StopsOrphan \/ RunSelects \/ DeletesSession
  PROVE  Holds
<1>1. rows' = rows
  BY DEF ContainerEnds, StopsOrphan, RunSelects, DeletesSession, mailbox
<1>2. Thins(rows, rows') /\ (AllListed(rows) => AllListed(rows'))
  BY <1>1, RowsOf, SameRows
<1>3. CASE ContainerEnds
  BY <1>2, <1>3, ThinningStep DEF ContainerEnds, mailbox, bounds, SeriesInv, TaskTypeOK
<1>4. CASE StopsOrphan
  BY <1>2, <1>4, ThinningStep DEF StopsOrphan, mailbox, bounds, SeriesInv, TaskTypeOK
<1>5. CASE RunSelects
  BY <1>2, <1>5, ThinningStep DEF RunSelects, mailbox, bounds, SeriesInv, TaskTypeOK
<1>6. CASE DeletesSession
  BY <1>2, <1>6, ThinningStep DEF DeletesSession, mailbox, bounds, SeriesInv, TaskTypeOK
<1>. QED BY <1>3, <1>4, <1>5, <1>6

-----------------------------------------------------------------------------
(* The sweep                                                               *)

\* The sweep mirrors the acks and wakes a container.
LEMMA SweepWakesHolds ==
  ASSUME SeriesInv, SweepWakes
  PROVE  Holds
<1>1. Thins(rows, rows')
  BY RowsOf, MirrorThins DEF SweepWakes
<1>. QED BY <1>1, ThinningStep DEF SweepWakes, bounds, SeriesInv, TaskTypeOK

\* The sweep mirrors the acks and releases stuck claims.
LEMMA SweepMaintainsHolds ==
  ASSUME SeriesInv, SweepMaintains
  PROVE  Holds
<1>1. Thins(rows, applyProcessingAcks)
  BY RowsOf, MirrorThins
<1>2. Thins(applyProcessingAcks, resetStuckProcessingRows(applyProcessingAcks))
  BY <1>1, ResetThins DEF Thins
<1>3. Thins(rows, resetStuckProcessingRows(applyProcessingAcks))
  BY <1>1, <1>2, RowsOf, ThinsOn
<1>4. Thins(rows, rows')
  BY <1>1, <1>3 DEF SweepMaintains
<1>. QED BY <1>4, ThinningStep DEF SweepMaintains, bounds, SeriesInv, TaskTypeOK

\* The wake came about or not.
LEMMA WakesHolds ==
  ASSUME SeriesInv, Wakes
  PROVE  Holds
<1>. DEFINE ts == [i \in DOMAIN rows |->
                    IF rows[i].ack = "processing"
                    THEN [rows[i] EXCEPT !.ack = "none"] ELSE rows[i]]
<1>1. rows' = Tidy(ts) \/ rows' = resetStuckProcessingRows(rows)
  BY DEF Wakes, MapRows
<1>2. ts = [i \in DOMAIN rows |-> ts[i]]
  OBVIOUS
<1>3. ASSUME NEW i \in DOMAIN rows PROVE Eases(rows[i], ts[i])
  BY RowsOf DEF Eases, Row, Settled
<1>. HIDE DEF ts
<1>4. Thins(rows, Tidy(ts))
  BY <1>2, <1>3, RowsOf, EasedThins
<1>5. Thins(rows, rows')
  BY <1>1, <1>4, RowsOf, ResetThins
<1>. QED BY <1>5, ThinningStep DEF Wakes, bounds, SeriesInv, TaskTypeOK

\* What a step that is not thinning has to show.
LEMMA Counted ==
  ASSUME SeriesInv, NEW rs \in Seq(Row), ArmedOf(rs) \subseteq ArmedOf(rows)
  PROVE  /\ ArmedOf(rows) = {} => ArmedOf(rs) = {}
         /\ Count(rs, "arming") <= Count(rows, at) + 1
         /\ at # "clearing" => Count(rs, "arming") <= Count(rows, at)
         /\ Count(rs, "arming") \in Nat /\ Count(rows, at) \in Nat
         /\ Count(rs, "idle") = Count(rs, "arming")
<1>1. /\ rows \in Seq(Row) /\ ArmedOf(rows) \in SUBSET (DOMAIN rows)
      /\ ArmedOf(rs) \in SUBSET (DOMAIN rs)
  BY RowsOf DEF ArmedOf
<1>. DEFINE m == Least(TodoOf(rows))
            A == ArmedOf(rows)
            B == ArmedOf(rs)
<1>2. IsFiniteSet(A) /\ Cardinality(A) \in Nat
  BY <1>1, PlacesFinite
<1>. HIDE DEF m
<1>3. /\ IsFiniteSet(A \ {m}) /\ Cardinality(A \ {m}) \in Nat
      /\ Cardinality(A) <= Cardinality(A \ {m}) + 1
  <2>. HIDE DEF A, B
  <2>1. IsFiniteSet(A \ {m}) /\ Cardinality(A \ {m}) \in Nat
    BY <1>2, FS_RemoveElement, FS_CardinalityType
  <2>2. Cardinality(A \ {m}) = Cardinality(A) - 1 \/ Cardinality(A \ {m}) = Cardinality(A)
    BY <1>2, FS_RemoveElement
  <2>. QED BY <1>2, <2>1, <2>2
<1>4. Cardinality(B) \in Nat /\ Cardinality(B) <= Cardinality(A)
  BY <1>1, <1>2, FS_Subset, FS_CardinalityType
<1>5. Count(rs, "arming") = Cardinality(B) /\ Count(rs, "idle") = Cardinality(B)
  BY DEF Count
<1>6. Count(rows, at) = IF at = "clearing" THEN Cardinality(A \ {m}) ELSE Cardinality(A)
  BY DEF Count, m
<1>. HIDE DEF A, B
<1>7. /\ Count(rs, "arming") <= Count(rows, at) + 1
      /\ at # "clearing" => Count(rs, "arming") <= Count(rows, at)
  BY <1>2, <1>3, <1>4, <1>5, <1>6
<1>. QED BY <1>1, <1>2, <1>3, <1>4, <1>5, <1>6, <1>7 DEF A, B

\* The list is read: from here on it names every finished occurrence.
LEMMA ListsHolds ==
  ASSUME SeriesInv, Lists
  PROVE  Holds
<1>. DEFINE New(r) == [r EXCEPT !.todo = getCompletedRecurring(r)]
            ts == [i \in DOMAIN rows |-> New(rows[i])]
<1>1. rows' = ts /\ at = "listing" /\ at' = "arming"
  BY DEF Lists, MapRows
<1>2. ASSUME NEW i \in DOMAIN rows
      PROVE  /\ ts[i] \in Row /\ ts[i].st = rows[i].st
             /\ ts[i].rec = rows[i].rec
             /\ ts[i].todo <=> Settled(rows[i]) /\ rows[i].rec
  <2>1. rows[i] \in Row /\ ts[i] = New(rows[i])
    BY RowsOf
  <2>2. getCompletedRecurring(rows[i]) \in BOOLEAN
    BY <2>1 DEF getCompletedRecurring, Settled, Row
  <2>3. (getCompletedRecurring(rows[i])) <=> (Settled(rows[i]) /\ rows[i].rec)
    BY DEF getCompletedRecurring
  <2>. QED BY <2>1, <2>2, <2>3 DEF Row
<1>3. ts \in Seq(Row) /\ DOMAIN ts = DOMAIN rows
  <2>1. DOMAIN rows = 1 .. Len(rows) /\ Len(rows) \in Nat
    BY RowsOf
  <2>2. ts = [i \in 1 .. Len(rows) |-> ts[i]] /\ DOMAIN ts = DOMAIN rows
    BY <2>1
  <2>. HIDE DEF ts
  <2>. QED BY <1>2, <2>1, <2>2, SeqOfRows
<1>. HIDE DEF ts
<1>4. RowFacts(ts) /\ AllListed(ts)
  BY <1>2, <1>3, RowsOf DEF RowFacts, AllListed, Settled
<1>5. ArmedOf(ts) = ArmedOf(rows)
  BY <1>2, <1>3 DEF ArmedOf
<1>6. sess # "closed"
  BY <1>1 DEF SeriesInv
<1>7. Count(ts, "arming") <= 1 + arms + taskFaults
  <2>1. Count(rows, at) <= 1 + arms + taskFaults
    BY DEF SeriesInv
  <2>2. Count(ts, "arming") <= Count(rows, at)
        /\ Count(ts, "arming") \in Nat /\ Count(rows, at) \in Nat
    BY <1>1, <1>3, <1>5, Counted
  <2>3. arms \in Nat /\ taskFaults \in Nat
    BY DEF SeriesInv, TaskTypeOK
  <2>. QED BY <2>1, <2>2, <2>3
<1>8. TaskTypeOK'
  BY <1>1, <1>3 DEF SeriesInv, TaskTypeOK, Lists, bounds
<1>9. SeriesInv'
  BY <1>1, <1>4, <1>6, <1>7, <1>8 DEF SeriesInv, Lists, bounds
<1>. QED BY <1>1, <1>5, <1>9 DEF Holds

\* An empty list and no live row: unless a write failed, nothing is armed.
LEMMA ClosesHolds ==
  ASSUME SeriesInv, Closes
  PROVE  Holds
<1>1. rows' = rows /\ at = "arming" /\ at' = "idle" /\ arms' = arms /\ taskFaults' = taskFaults
  BY DEF Closes, mailbox, bounds
<1>2. TodoOf(rows) = {}
  BY DEF Closes, Todo, TodoOf
<1>3. sess # "closed"
  BY <1>1 DEF SeriesInv
<1>4. ASSUME sess' = "closed", ~dropped' PROVE ArmedOf(rows) = {}
  <2>1. countLiveTasksIsZero
    BY <1>3, <1>4 DEF Closes, TaskSessionIsSpent
  <2>2. AllListed(rows)
    BY <1>1, <1>4 DEF SeriesInv, Closes
  <2>3. ASSUME NEW i \in DOMAIN rows PROVE ~rows[i].rec
    <3>1. ~rows[i].todo
      BY <1>2 DEF TodoOf
    <3>2. ~Live(rows[i])
      BY <2>1 DEF countLiveTasksIsZero
    <3>3. rows[i].st = "cancelled" \/ Settled(rows[i])
      BY <3>2, RowsOf DEF Live, Settled, Row
    <3>. QED BY <2>2, <3>1, <3>3, RowsOf DEF AllListed
  <2>. QED BY <2>3 DEF ArmedOf
<1>5. TaskTypeOK'
  BY <1>1 DEF SeriesInv, TaskTypeOK, Closes, mailbox, bounds
<1>6. Count(rows', at') <= 1 + arms' + taskFaults'
  BY <1>1 DEF SeriesInv, Count
<1>7. SeriesInv'
  BY <1>1, <1>4, <1>5, <1>6 DEF SeriesInv
<1>. QED BY <1>1, <1>7 DEF Holds

\* A finished occurrence gets its clone; it still recurs until it is cleared.
LEMMA InsertsHolds ==
  ASSUME SeriesInv, Inserts
  PROVE  Holds
<1>. DEFINE r == Occurrence(
        IF trailingFailedRuns >= PauseCap THEN "paused" ELSE "pending",
        TRUE, FALSE)
            ts == Append(rows, r)
            m == Least(TodoOf(rows))
<1>1. /\ rows' = ts /\ at = "arming" /\ at' = "clearing" /\ sess' = sess
      /\ dropped' = dropped /\ arms' = arms /\ taskFaults' = taskFaults /\ TodoOf(rows) # {}
  BY DEF Inserts, Todo, TodoOf, bounds
<1>2. r \in Row /\ r.rec /\ ~r.todo /\ Live(r)
  <2>1. ASSUME NEW st \in {"pending", "paused"}
        PROVE  /\ Occurrence(st, TRUE, FALSE) \in Row
               /\ Occurrence(st, TRUE, FALSE).rec
               /\ ~Occurrence(st, TRUE, FALSE).todo
               /\ Live(Occurrence(st, TRUE, FALSE))
    BY ScheduleAssumption DEF Occurrence, Row, Live
  <2>. QED BY <2>1
<1>. HIDE DEF r
<1>3. /\ ts \in Seq(Row) /\ DOMAIN ts = DOMAIN rows \cup {Len(rows) + 1}
      /\ ts[Len(rows) + 1] = r /\ \A i \in DOMAIN rows : ts[i] = rows[i]
      /\ Len(rows) + 1 \notin DOMAIN rows
  BY <1>2, RowsOf
<1>. HIDE DEF ts
<1>4. RowFacts(ts)
  BY <1>2, <1>3, RowsOf DEF RowFacts, Live
<1>5. TodoOf(ts) = TodoOf(rows)
  BY <1>2, <1>3 DEF TodoOf
<1>6. ArmedOf(ts) = ArmedOf(rows) \cup {Len(rows) + 1}
  BY <1>2, <1>3 DEF ArmedOf
<1>7. m \in ArmedOf(rows) /\ m # Len(rows) + 1
  <2>1. TodoOf(rows) \in SUBSET (DOMAIN rows)
    BY DEF TodoOf
  <2>2. m \in TodoOf(rows)
    BY <1>1, <2>1, RowsOf, LeastIs
  <2>. QED BY <1>3, <2>2, RowsOf DEF TodoOf, ArmedOf
<1>8. Count(ts, "clearing") = Count(rows, "arming")
  <2>. DEFINE A == ArmedOf(rows)
              n == Len(rows) + 1
  <2>1. IsFiniteSet(A) /\ Cardinality(A) \in Nat /\ n \notin A
    <3>1. A \in SUBSET (DOMAIN rows)
      BY DEF ArmedOf
    <3>. QED BY <1>3, <3>1, RowsOf, PlacesFinite
  <2>. HIDE DEF A, n
  <2>2. IsFiniteSet(A \ {m}) /\ Cardinality(A \ {m}) = Cardinality(A) - 1
    BY <1>7, <2>1, FS_RemoveElement DEF A
  <2>3. Cardinality((A \ {m}) \cup {n}) = Cardinality(A \ {m}) + 1
    BY <2>1, <2>2, FS_AddElement
  <2>4. ArmedOf(ts) \ {m} = (A \ {m}) \cup {n}
    BY <1>6, <1>7 DEF A, n
  <2>5. Count(ts, "clearing") = Cardinality(ArmedOf(ts) \ {m})
        /\ Count(rows, "arming") = Cardinality(A)
    BY <1>5 DEF Count, A
  <2>6. Cardinality(A) - 1 + 1 = Cardinality(A)
    BY <2>1
  <2>. QED BY <2>2, <2>3, <2>4, <2>5, <2>6
<1>9. AllListed(rows) => AllListed(ts)
  BY <1>2, <1>3 DEF AllListed, Live, Settled
<1>10. TaskTypeOK'
  BY <1>1, <1>3 DEF SeriesInv, TaskTypeOK, Inserts, bounds
<1>11. SeriesInv'
  <2>1. Count(rows', at') <= 1 + arms' + taskFaults'
    BY <1>1, <1>8 DEF SeriesInv
  <2>. QED BY <1>1, <1>4, <1>5, <1>9, <1>10, <2>1 DEF SeriesInv
<1>. QED BY <1>1, <1>7, <1>11 DEF Holds

\* A fault leaves an occurrence armed beside its clone.
LEMMA FaultyStep ==
  ASSUME SeriesInv, TaskFault, arms' = arms, NEW ts \in Seq(Row), RowFacts(ts),
         ArmedOf(ts) = ArmedOf(rows),
         rows' = ts \/ rows' = Tidy(ts),
         at' \in {"arming", "idle"},
         sess' = sess, sess = "closed" => at' = "idle" /\ dropped' = dropped,
         dropped' \in BOOLEAN, dropped' \/ at' = "idle",
         mail' \in BOOLEAN, running' \in BOOLEAN,
         cmd' \in {"none", "run", "deleting"}
  PROVE  Holds
<1>1. Thins(ts, rows')
  BY SameRows, TidyThins
<1>2. taskFaults' = taskFaults + 1 /\ taskFaults' \in 0 .. MaxTaskFaults /\ taskFaults' # 0
      /\ arms \in Nat /\ taskFaults \in Nat
  BY ScheduleAssumption DEF TaskFault, SeriesInv, TaskTypeOK
<1>3. Count(rows', at') <= 1 + arms' + taskFaults'
  <2>1. /\ Count(ts, "arming") <= Count(rows, at) + 1
        /\ Count(ts, "arming") \in Nat /\ Count(rows, at) \in Nat
    BY Counted
  <2>2. Count(rows, at) <= 1 + arms + taskFaults
    BY DEF SeriesInv
  <2>3. Count(rows', at') = Count(rows', "arming")
    BY DEF Count
  <2>4. Count(rows', "arming") <= Count(ts, "arming")
        /\ Count(rows', "arming") \in Nat
    BY <1>1, CountType DEF Thins
  <2>. QED BY <1>2, <2>1, <2>2, <2>3, <2>4
<1>4. TaskTypeOK'
  BY <1>1, <1>2 DEF SeriesInv, TaskTypeOK, Thins
<1>5. SeriesInv'
  BY <1>1, <1>2, <1>3, <1>4 DEF SeriesInv, Thins
<1>. QED BY <1>1, <1>5 DEF Holds, Thins

\* The list loses one row.
LEMMA Unlisted ==
  ASSUME SeriesInv, NEW m \in DOMAIN rows
  PROVE  LET ts == [rows EXCEPT ![m].todo = FALSE]
         IN  /\ ts \in Seq(Row) /\ RowFacts(ts)
             /\ ArmedOf(ts) = ArmedOf(rows)
<1>. DEFINE s == [rows[m] EXCEPT !.todo = FALSE]
            ts == [rows EXCEPT ![m] = s]
<1>1. s \in Row /\ s.st = rows[m].st /\ s.rec = rows[m].rec /\ ~s.todo
  BY RowsOf DEF Row
<1>. HIDE DEF s
<1>2. ts \in Seq(Row) /\ DOMAIN ts = DOMAIN rows
      /\ \A i \in DOMAIN rows : ts[i] = IF i = m THEN s ELSE rows[i]
  BY <1>1, RowsOf
<1>. HIDE DEF ts
<1>3. RowFacts(ts)
  BY <1>1, <1>2, RowsOf DEF RowFacts
<1>4. ArmedOf(ts) = ArmedOf(rows)
  BY <1>1, <1>2 DEF ArmedOf
<1>. QED BY <1>2, <1>3, <1>4 DEF ts, s

\* The row the sweep is at.
LEMMA ThisIs ==
  ASSUME SeriesInv, Todo # {}
  PROVE  /\ This = Least(TodoOf(rows)) /\ This \in TodoOf(rows)
         /\ This \in DOMAIN rows /\ This \in ArmedOf(rows)
<1>1. Todo = TodoOf(rows)
  BY DEF Todo, TodoOf
<1>2. This = Least(TodoOf(rows))
  BY <1>1 DEF This, Least
<1>3. TodoOf(rows) \in SUBSET (DOMAIN rows)
  BY DEF TodoOf
<1>4. This \in TodoOf(rows)
  BY <1>1, <1>2, <1>3, RowsOf, LeastIs
<1>. QED BY <1>2, <1>4, RowsOf DEF TodoOf, ArmedOf

\* The clone is not written: the occurrence stays armed without it.
LEMMA InsertFailsHolds ==
  ASSUME SeriesInv, InsertFails
  PROVE  Holds
<1>. DEFINE ts == [rows EXCEPT ![This].todo = FALSE]
<1>1. /\ rows' = Tidy(ts) /\ TaskFault /\ at = "arming" /\ at' = "arming"
      /\ arms' = arms /\ sess' = sess /\ Todo # {} /\ dropped'
  BY DEF InsertFails
<1>2. ts \in Seq(Row) /\ RowFacts(ts) /\ ArmedOf(ts) = ArmedOf(rows)
  BY <1>1, ThisIs, Unlisted
<1>. HIDE DEF ts
<1>3. sess # "closed"
  BY <1>1 DEF SeriesInv
<1>. QED BY <1>1, <1>2, <1>3, FaultyStep DEF InsertFails, SeriesInv, TaskTypeOK

\* The original is cleared, or stands armed beside its clone.
LEMMA ClearsHolds ==
  ASSUME SeriesInv, Clears
  PROVE  Holds
<1>1. at = "clearing" /\ at' = "arming" /\ arms' = arms /\ sess' = sess /\ sess # "closed"
  BY DEF Clears, SeriesInv
<1>2. Todo # {}
  BY <1>1 DEF SeriesInv, Todo, TodoOf
<1>3. CASE /\ TaskFault /\ rows' = [rows EXCEPT ![This].todo = FALSE]
           /\ dropped' = TRUE
  <2>. DEFINE ts == [rows EXCEPT ![This].todo = FALSE]
  <2>1. ts \in Seq(Row) /\ RowFacts(ts) /\ ArmedOf(ts) = ArmedOf(rows)
    BY <1>2, ThisIs, Unlisted
  <2>2. rows' = ts
    BY <1>3
  <2>. HIDE DEF ts
  <2>. QED BY <1>1, <1>3, <2>1, <2>2, FaultyStep DEF Clears, SeriesInv, TaskTypeOK
<1>4. CASE /\ rows' = Tidy([rows EXCEPT ![This].todo = FALSE, ![This].rec = FALSE])
           /\ UNCHANGED <<dropped, taskFaults>>
  <2>. DEFINE s == [rows[This] EXCEPT !.todo = FALSE, !.rec = FALSE]
              ts == [rows EXCEPT ![This] = s]
  <2>1. This = Least(TodoOf(rows)) /\ This \in DOMAIN rows /\ This \in ArmedOf(rows)
    BY <1>2, ThisIs
  <2>2. s \in Row /\ s.st = rows[This].st /\ ~s.rec /\ ~s.todo
    BY <2>1, RowsOf DEF Row
  <2>3. rows' = Tidy(ts)
    <3>1. [rows EXCEPT ![This].todo = FALSE, ![This].rec = FALSE] = ts
      BY <2>1, RowsOf DEF Row
    <3>. QED BY <1>4, <3>1
  <2>. HIDE DEF s
  <2>4. ts \in Seq(Row) /\ DOMAIN ts = DOMAIN rows
        /\ \A i \in DOMAIN rows : ts[i] = IF i = This THEN s ELSE rows[i]
    BY <2>1, <2>2, RowsOf
  <2>. HIDE DEF ts
  <2>5. RowFacts(ts)
    BY <2>2, <2>4, RowsOf DEF RowFacts
  <2>6. ArmedOf(ts) = ArmedOf(rows) \ {This}
    BY <2>2, <2>4 DEF ArmedOf
  <2>7. AllListed(rows) => AllListed(ts)
    BY <2>2, <2>4 DEF AllListed
  <2>8. Thins(ts, rows') /\ (AllListed(ts) => AllListed(rows'))
    BY <2>3, <2>4, <2>5, TidyThins
  <2>9. Count(ts, "arming") = Count(rows, "clearing")
    BY <2>1, <2>6 DEF Count
  <2>10. Count(rows', at') <= 1 + arms' + taskFaults'
    <3>1. Count(rows, at) <= 1 + arms + taskFaults /\ arms \in Nat /\ taskFaults \in Nat
      BY DEF SeriesInv, TaskTypeOK
    <3>2. Count(rows', "arming") <= Count(ts, "arming")
          /\ Count(rows', "arming") \in Nat
      BY <2>8, CountType DEF Thins
    <3>3. taskFaults' = taskFaults /\ Count(rows', at') = Count(rows', "arming")
          /\ Count(rows, at) = Count(rows, "clearing")
      BY <1>1, <1>4
    <3>4. Count(rows, at) \in Nat
      BY CountType, RowsOf
    <3>. QED BY <1>1, <2>9, <3>1, <3>2, <3>3, <3>4
  <2>11. TaskTypeOK'
    BY <1>1, <1>4, <2>8 DEF SeriesInv, TaskTypeOK, Clears, Thins
  <2>12. SeriesInv'
    BY <1>1, <1>4, <2>7, <2>8, <2>10, <2>11 DEF SeriesInv, Thins
  <2>. QED BY <2>1, <2>12 DEF Holds
<1>. QED BY <1>3, <1>4 DEF Clears

-----------------------------------------------------------------------------
(* ncl tasks                                                               *)

\* An edit that gives no row a recurrence.
LEMMA EditStep ==
  ASSUME SeriesInv, NEW ts, ts = [i \in DOMAIN rows |-> ts[i]],
         \A i \in DOMAIN rows :
            Eases(rows[i], ts[i]) /\ (Settled(ts[i]) => Settled(rows[i])),
         rows' = Tidy(ts), UNCHANGED <<sess, mail, running, at, cmd, dropped, bounds>>
  PROVE  Holds
<1>1. Thins(rows, rows') /\ (AllListed(rows) => AllListed(rows'))
  BY RowsOf, EasedThins
<1>. QED BY <1>1, ThinningStep DEF bounds, SeriesInv, TaskTypeOK

\* A cancelled occurrence gives its recurrence up.
LEMMA cancelTaskHolds ==
  ASSUME SeriesInv, cancelTask
  PROVE  Holds
<1>. DEFINE ts == [i \in DOMAIN rows |->
                    IF Live(rows[i])
                    THEN [rows[i] EXCEPT !.st = "cancelled", !.rec = FALSE]
                    ELSE rows[i]]
<1>1. rows' = Tidy(ts) /\ UNCHANGED <<sess, mail, running, at, cmd, dropped, bounds>>
  BY DEF cancelTask, Edits, MapRows
<1>2. ASSUME NEW i \in DOMAIN rows
      PROVE  Eases(rows[i], ts[i]) /\ (Settled(ts[i]) => Settled(rows[i]))
  BY RowsOf DEF Eases, Row, Settled, Live
<1>3. ts = [i \in DOMAIN rows |-> ts[i]]
  OBVIOUS
<1>. HIDE DEF ts
<1>. QED BY <1>1, <1>2, <1>3, EditStep

\* Pausing and resuming change the status of live rows.
LEMMA pauseTaskHolds ==
  ASSUME SeriesInv, pauseTask
  PROVE  Holds
<1>. DEFINE ts == [i \in DOMAIN rows |->
                    IF rows[i].st = "pending"
                    THEN [rows[i] EXCEPT !.st = "paused"] ELSE rows[i]]
<1>1. rows' = Tidy(ts) /\ UNCHANGED <<sess, mail, running, at, cmd, dropped, bounds>>
  BY DEF pauseTask, Edits, MapRows
<1>2. ASSUME NEW i \in DOMAIN rows
      PROVE  Eases(rows[i], ts[i]) /\ (Settled(ts[i]) => Settled(rows[i]))
  BY RowsOf DEF Eases, Row, Settled
<1>3. ts = [i \in DOMAIN rows |-> ts[i]]
  OBVIOUS
<1>. HIDE DEF ts
<1>. QED BY <1>1, <1>2, <1>3, EditStep

\* Resuming does not reach a cancelled row.
LEMMA resumeTaskHolds ==
  ASSUME SeriesInv, resumeTask
  PROVE  Holds
<1>. DEFINE ts == [i \in DOMAIN rows |->
                    IF rows[i].st = "paused"
                    THEN [rows[i] EXCEPT !.st = "pending"] ELSE rows[i]]
<1>1. rows' = Tidy(ts) /\ UNCHANGED <<sess, mail, running, at, cmd, dropped, bounds>>
  BY DEF resumeTask, Edits, MapRows
<1>2. ASSUME NEW i \in DOMAIN rows
      PROVE  Eases(rows[i], ts[i]) /\ (Settled(ts[i]) => Settled(rows[i]))
  BY RowsOf DEF Eases, Row, Settled
<1>3. ts = [i \in DOMAIN rows |-> ts[i]]
  OBVIOUS
<1>. HIDE DEF ts
<1>. QED BY <1>1, <1>2, <1>3, EditStep

\* update --process-after moves the time of a row.
LEMMA updateTaskTimeHolds ==
  ASSUME SeriesInv, updateTaskTime
  PROVE  Holds
<1>. DEFINE ts == [i \in DOMAIN rows |->
                    IF Updatable(rows[i])
                    THEN [rows[i] EXCEPT !.due = FALSE] ELSE rows[i]]
<1>1. rows' = Tidy(ts) /\ UNCHANGED <<sess, mail, running, at, cmd, dropped, bounds>>
  BY DEF updateTaskTime, Edits, MapRows
<1>2. ASSUME NEW i \in DOMAIN rows
      PROVE  Eases(rows[i], ts[i]) /\ (Settled(ts[i]) => Settled(rows[i]))
  BY RowsOf DEF Eases, Row, Settled, Updatable
<1>3. ts = [i \in DOMAIN rows |-> ts[i]]
  OBVIOUS
<1>. HIDE DEF ts
<1>. QED BY <1>1, <1>2, <1>3, EditStep

\* update --recurrence null.
LEMMA updateTaskClearsHolds ==
  ASSUME SeriesInv, updateTaskClears
  PROVE  Holds
<1>. DEFINE ts == [i \in DOMAIN rows |->
                    IF Updatable(rows[i])
                    THEN [rows[i] EXCEPT !.rec = FALSE] ELSE rows[i]]
<1>1. rows' = Tidy(ts) /\ UNCHANGED <<sess, mail, running, at, cmd, dropped, bounds>>
  BY DEF updateTaskClears, Edits, MapRows
<1>2. ASSUME NEW i \in DOMAIN rows
      PROVE  Eases(rows[i], ts[i]) /\ (Settled(ts[i]) => Settled(rows[i]))
  BY RowsOf DEF Eases, Row, Settled, Updatable
<1>3. ts = [i \in DOMAIN rows |-> ts[i]]
  OBVIOUS
<1>. HIDE DEF ts
<1>. QED BY <1>1, <1>2, <1>3, EditStep

\* What counts as armed in the model.
LEMMA ArmedIs ==
  /\ RowFacts(rows) => Armed = ArmedOf(rows)
  /\ RowFacts(rows') => Armed' = ArmedOf(rows')
BY DEF Armed, ArmedOf, RowFacts

\* The rows that get a recurrence are paid for by arms.
LEMMA updateTaskArmsHolds ==
  ASSUME SeriesInv, updateTaskArms
  PROVE  SeriesInv'
<1>. DEFINE ts == [i \in DOMAIN rows |->
                    IF Updatable(rows[i])
                    THEN [rows[i] EXCEPT !.rec = TRUE] ELSE rows[i]]
            U == {i \in DOMAIN rows : Updatable(rows[i]) /\ ~rows[i].rec}
            A == ArmedOf(rows)
            m == Least(TodoOf(rows))
<1>1. /\ rows' = Tidy(ts) /\ sess = "active" /\ sess' = sess /\ at' = at
      /\ taskFaults' = taskFaults /\ arms' <= MaxArms
      /\ UNCHANGED <<mail, running, cmd, dropped>>
  BY DEF updateTaskArms, Edits, MapRows
<1>2. arms' = arms + (IF A = {} /\ Cardinality(U) > 0 THEN Cardinality(U) - 1
                      ELSE Cardinality(U))
  BY RowsOf, ArmedIs DEF updateTaskArms
<1>3. ASSUME NEW i \in DOMAIN rows
      PROVE  /\ ts[i] \in Row /\ ts[i].st = rows[i].st
             /\ ts[i].todo = rows[i].todo
             /\ ts[i].rec <=> rows[i].rec \/ Updatable(rows[i])
  <2>1. CASE Updatable(rows[i])
    <3>1. ts[i] = [rows[i] EXCEPT !.rec = TRUE]
      BY <2>1
    <3>. QED BY <2>1, <3>1, RowsOf DEF Row
  <2>2. CASE ~Updatable(rows[i])
    <3>1. ts[i] = rows[i]
      BY <2>2
    <3>. QED BY <2>2, <3>1, RowsOf
  <2>. QED BY <2>1, <2>2
<1>4. ts \in Seq(Row) /\ DOMAIN ts = DOMAIN rows
  <2>1. DOMAIN rows = 1 .. Len(rows) /\ Len(rows) \in Nat
    BY RowsOf
  <2>2. ts = [i \in 1 .. Len(rows) |-> ts[i]] /\ DOMAIN ts = DOMAIN rows
    BY <2>1
  <2>. HIDE DEF ts
  <2>. QED BY <1>3, <2>1, <2>2, SeqOfRows
<1>. HIDE DEF ts
<1>5. RowFacts(ts)
  <2>1. ASSUME NEW i \in DOMAIN rows
        PROVE  /\ ts[i].todo => Settled(ts[i]) /\ ts[i].rec
               /\ ts[i].st = "cancelled" => ~ts[i].rec
    <3>1. rows[i].todo => Settled(rows[i]) /\ rows[i].rec
      BY RowsOf
    <3>2. rows[i].st = "cancelled" => ~rows[i].rec /\ ~Updatable(rows[i])
      BY RowsOf DEF Updatable
    <3>. QED BY <1>3, <3>1, <3>2 DEF Settled
  <2>. QED BY <1>4, <2>1 DEF RowFacts
<1>6. AllListed(rows) => AllListed(ts)
  BY <1>3, <1>4 DEF AllListed, Updatable, Settled
<1>7. ArmedOf(ts) = A \cup U /\ TodoOf(ts) = TodoOf(rows)
  BY <1>3, <1>4 DEF ArmedOf, TodoOf
<1>8. /\ IsFiniteSet(U) /\ Cardinality(U) \in Nat
      /\ IsFiniteSet(A) /\ Cardinality(A) \in Nat
  <2>1. A \in SUBSET (DOMAIN rows) /\ U \in SUBSET (DOMAIN rows)
    BY DEF ArmedOf
  <2>. HIDE DEF A, U
  <2>. QED BY <2>1, RowsOf, PlacesFinite
<1>9. ASSUME at = "clearing" PROVE m \in A /\ m \notin U
  <2>1. m \in TodoOf(rows)
    <3>1. TodoOf(rows) \in SUBSET (DOMAIN rows) /\ TodoOf(rows) # {}
      BY <1>9 DEF TodoOf, SeriesInv
    <3>. QED BY <3>1, RowsOf, LeastIs
  <2>. QED BY <2>1, RowsOf DEF TodoOf, ArmedOf
<1>. DEFINE B == IF at = "clearing" THEN A \ {m} ELSE A
<1>10. Count(rows, at) = Cardinality(B) /\ Count(ts, at) = Cardinality(B \cup U)
  <2>1. CASE at = "clearing"
    <3>1. (A \cup U) \ {m} = B \cup U
      BY <1>9, <2>1
    <3>. QED BY <1>7, <2>1, <3>1 DEF Count
  <2>2. CASE at # "clearing"
    BY <1>7, <2>2 DEF Count
  <2>. QED BY <2>1, <2>2
<1>11. Cardinality(B \cup U) <= 1 + arms' + taskFaults'
  <2>0. A = {} => B = {}
    OBVIOUS
  <2>1. IsFiniteSet(B) /\ Cardinality(B) \in Nat
    <3>1. B \subseteq A
      OBVIOUS
    <3>. HIDE DEF A, B
    <3>. QED BY <1>8, <3>1, FS_Subset, FS_CardinalityType
  <2>2. Cardinality(B) <= 1 + arms + taskFaults /\ arms \in Nat /\ taskFaults \in Nat
    BY <1>10 DEF SeriesInv, TaskTypeOK
  <2>6. taskFaults' = taskFaults
    BY <1>1
  <2>. HIDE DEF A, B, U
  <2>3. /\ Cardinality(B \cup U) <= Cardinality(B) + Cardinality(U)
        /\ Cardinality(B \cup U) \in Nat
    <3>1. /\ IsFiniteSet(B \cup U) /\ Cardinality(B \cap U) \in Nat
          /\ Cardinality(B \cup U)
               = Cardinality(B) + Cardinality(U) - Cardinality(B \cap U)
      BY <1>8, <2>1, FS_Union, FS_Intersection, FS_CardinalityType
    <3>2. Cardinality(B \cup U) \in Nat
      BY <3>1, FS_CardinalityType
    <3>. QED BY <1>8, <2>1, <3>1, <3>2
  <2>4. CASE A = {} /\ Cardinality(U) > 0
    <3>1. Cardinality(B \cup U) = Cardinality(U)
      <4>1. B \cup U = U
        BY <2>0, <2>4
      <4>. QED BY <4>1
    <3>2. arms' = arms + (Cardinality(U) - 1)
      BY <1>2, <2>4
    <3>. QED BY <2>6, <1>8, <2>2, <2>4, <3>1, <3>2
  <2>5. CASE ~(A = {} /\ Cardinality(U) > 0)
    <3>1. arms' = arms + Cardinality(U)
      BY <1>2, <2>5
    <3>. QED BY <2>6, <1>8, <2>1, <2>2, <2>3, <3>1
  <2>. QED BY <2>4, <2>5
<1>12. Thins(ts, rows') /\ (AllListed(ts) => AllListed(rows'))
  BY <1>1, <1>4, <1>5, TidyThins
<1>13. arms' \in 0 .. MaxArms
  <2>. HIDE DEF A, U
  <2>. QED BY <1>1, <1>2, <1>8, ScheduleAssumption DEF SeriesInv, TaskTypeOK
<1>14. TaskTypeOK'
  BY <1>1, <1>12, <1>13 DEF SeriesInv, TaskTypeOK, Thins
<1>15. Count(rows', at') <= 1 + arms' + taskFaults'
  <2>1. Count(rows', at) <= Count(ts, at)
    BY <1>7, <1>12 DEF SeriesInv, Thins
  <2>2. Count(rows', at) \in Nat /\ Count(ts, at) \in Nat
        /\ arms' \in Nat /\ taskFaults' \in Nat
    BY <1>1, <1>4, <1>12, <1>13, CountType DEF SeriesInv, TaskTypeOK, Thins
  <2>. HIDE DEF A, B, U
  <2>. QED BY <1>1, <1>10, <1>11, <2>1, <2>2
<1>16. at' = "clearing" => TodoOf(rows') # {}
  BY <1>1, <1>7, <1>12 DEF SeriesInv, Thins
<1>. QED BY <1>1, <1>6, <1>12, <1>14, <1>15, <1>16 DEF SeriesInv, Thins

\* The extra occurrence of a `run` does not recur.
LEMMA runTaskHolds ==
  ASSUME SeriesInv, runTask
  PROVE  Holds
<1>. DEFINE r == Occurrence("pending", FALSE, TRUE)
<1>1. rows' = Append(rows, r)
  BY DEF runTask
<1>2. r \in Row /\ ~r.rec /\ ~r.todo
  BY ScheduleAssumption DEF Occurrence, Row
<1>. HIDE DEF r
<1>3. Thins(rows, rows') /\ (AllListed(rows) => AllListed(rows'))
  BY <1>1, <1>2, RowsOf, AppendThins
<1>. QED BY <1>3, ThinningStep DEF runTask, bounds, SeriesInv, TaskTypeOK

\* The mailbox goes with all its rows.
LEMMA DestroysMailboxHolds ==
  ASSUME SeriesInv, DestroysMailbox
  PROVE  Holds
<1>1. /\ rows' = <<>> /\ sess' = sess /\ mail' = FALSE /\ cmd' = "deleting"
      /\ running' = running /\ arms' = arms /\ taskFaults' = taskFaults
      /\ dropped' = dropped
      /\ at' = IF at \in {"idle", "waking"} THEN at ELSE "arming"
  BY DEF DestroysMailbox, bounds
<1>2. ArmedOf(rows') = {} /\ rows' \in Seq(Row) /\ RowFacts(rows') /\ AllListed(rows')
  BY <1>1 DEF ArmedOf, RowFacts, AllListed
<1>3. at' \in {"idle", "waking", "arming"} /\ (at = "idle" => at' = "idle")
  BY <1>1
<1>4. Count(rows', at') = 0
  BY <1>2, <1>3, FS_EmptySet DEF Count
<1>5. TaskTypeOK'
  BY <1>1, <1>2, <1>3 DEF SeriesInv, TaskTypeOK
<1>6. Count(rows', at') <= 1 + arms' + taskFaults'
  BY <1>1, <1>4 DEF SeriesInv, TaskTypeOK
<1>7. SeriesInv'
  BY <1>1, <1>2, <1>3, <1>5, <1>6 DEF SeriesInv
<1>. QED BY <1>2, <1>7 DEF Holds

\* A crash forgets the list; a clone may stand beside its original.
LEMMA HostRestartsHolds ==
  ASSUME SeriesInv, HostRestarts
  PROVE  Holds
<1>. DEFINE ts == [i \in DOMAIN rows |-> [rows[i] EXCEPT !.todo = FALSE]]
<1>1. /\ rows' = Tidy(ts) /\ TaskFault /\ at' = "idle" /\ cmd' = "none"
      /\ UNCHANGED <<sess, mail, arms>> /\ dropped' = (dropped /\ sess = "closed")
  BY DEF HostRestarts, MapRows
<1>2. running' \in BOOLEAN
  BY DEF HostRestarts
<1>3. ASSUME NEW i \in DOMAIN rows
      PROVE  /\ ts[i] \in Row /\ ts[i].st = rows[i].st
             /\ ts[i].rec = rows[i].rec /\ ~ts[i].todo
  BY RowsOf DEF Row
<1>4. ts \in Seq(Row) /\ DOMAIN ts = DOMAIN rows
  <2>1. DOMAIN rows = 1 .. Len(rows) /\ Len(rows) \in Nat
    BY RowsOf
  <2>2. ts = [i \in 1 .. Len(rows) |-> ts[i]] /\ DOMAIN ts = DOMAIN rows
    BY <2>1
  <2>. HIDE DEF ts
  <2>. QED BY <1>3, <2>1, <2>2, SeqOfRows
<1>. HIDE DEF ts
<1>5. RowFacts(ts) /\ ArmedOf(ts) = ArmedOf(rows)
  BY <1>3, <1>4, RowsOf DEF RowFacts, ArmedOf
<1>. QED BY <1>1, <1>2, <1>4, <1>5, FaultyStep DEF SeriesInv, TaskTypeOK

-----------------------------------------------------------------------------
(* Theorems                                                                *)

\* createScheduledTask writes one row.
LEMMA OneOccurrence == TaskInit => SeriesInv
<1>. SUFFICES ASSUME TaskInit PROVE SeriesInv
  OBVIOUS
<1>1. PICK rec \in BOOLEAN, st \in {"pending", "paused"} :
        rows = <<Occurrence(st, rec, FALSE)>>
  BY DEF TaskInit
<1>2. /\ Occurrence(st, rec, FALSE) \in Row
      /\ ~Occurrence(st, rec, FALSE).todo
      /\ Occurrence(st, rec, FALSE).st # "cancelled"
  BY ScheduleAssumption DEF Occurrence, Row
<1>3. rows \in Seq(Row) /\ DOMAIN rows = {1} /\ rows[1] = Occurrence(st, rec, FALSE)
  <2>. DEFINE r == Occurrence(st, rec, FALSE)
  <2>1. r \in Row /\ rows = <<r>>
    BY <1>1, <1>2
  <2>. HIDE DEF r
  <2>2. rows \in Seq(Row) /\ DOMAIN rows = {1} /\ rows[1] = r
    BY <2>1
  <2>. QED BY <2>2 DEF r
<1>4. RowFacts(rows)
  BY <1>2, <1>3 DEF RowFacts
<1>5. Count(rows, at) <= 1
  <2>1. ArmedOf(rows) \subseteq {1} /\ at = "idle"
    BY <1>3 DEF ArmedOf, TaskInit
  <2>2. Cardinality(ArmedOf(rows)) <= 1
    <3>1. IsFiniteSet({1}) /\ Cardinality({1}) = 1
      BY FS_Singleton
    <3>. QED BY <2>1, <3>1, FS_Subset
  <2>. QED BY <2>1, <2>2 DEF Count
<1>6. /\ sess = "active" /\ mail = TRUE /\ running = FALSE /\ at = "idle"
      /\ cmd = "none" /\ dropped = FALSE /\ arms = 0 /\ taskFaults = 0
  BY DEF TaskInit
<1>7. TaskTypeOK
  <2>1. 0 \in 0 .. MaxArms /\ 0 \in 0 .. MaxTaskFaults
    BY ScheduleAssumption
  <2>. QED BY <1>3, <1>6, <2>1 DEF TaskTypeOK
<1>8. Count(rows, at) <= 1 + arms + taskFaults
  BY <1>5, <1>6
<1>. QED BY <1>4, <1>6, <1>7, <1>8 DEF SeriesInv

\* Every step keeps the invariant, and only one command arms a dead series.
LEMMA SeriesStep ==
  ASSUME SeriesInv, [TaskNext]_taskVars
  PROVE  /\ SeriesInv'
         /\ Armed = {} /\ Armed' # {} => updateTaskArms
<1>1. CASE UNCHANGED taskVars
  <2>1. UNCHANGED <<sess, mail, rows, running, at, cmd, dropped, arms, taskFaults>>
    BY <1>1 DEF taskVars, mailbox, bounds
  <2>. QED BY <2>1 DEF SeriesInv, TaskTypeOK, Armed
<1>2. CASE updateTaskArms
  BY <1>2, updateTaskArmsHolds
<1>3. CASE TaskNext /\ ~updateTaskArms
  <2>1. ASSUME NEW i \in DOMAIN rows,
               Due(i) \/ Claims(i) \/ \E good \in BOOLEAN : Answers(i, good)
        PROVE  Holds
    BY <2>1, DueHolds, ClaimsHolds, AnswersHolds
  <2>2. ASSUME ContainerEnds \/ StopsOrphan \/ RunSelects \/ DeletesSession
        PROVE  Holds
    BY <2>2, RestingHolds
  <2>3. ASSUME SweepWakes \/ SweepMaintains \/ Wakes \/ Lists \/ Closes
        PROVE  Holds
    BY <2>3, SweepWakesHolds, SweepMaintainsHolds, WakesHolds, ListsHolds,
       ClosesHolds
  <2>4. ASSUME Inserts \/ InsertFails \/ Clears PROVE Holds
    BY <2>4, InsertsHolds, InsertFailsHolds, ClearsHolds
  <2>5. ASSUME Edit, ~updateTaskArms PROVE Holds
    BY <2>5, cancelTaskHolds, pauseTaskHolds, resumeTaskHolds,
       updateTaskTimeHolds, updateTaskClearsHolds, runTaskHolds DEF Edit
  <2>6. ASSUME DestroysMailbox \/ HostRestarts PROVE Holds
    BY <2>6, DestroysMailboxHolds, HostRestartsHolds
  <2>7. Holds
    BY <1>3, <2>1, <2>2, <2>3, <2>4, <2>5, <2>6, Zenon DEF TaskNext
  <2>8. Armed = ArmedOf(rows) /\ Armed' = ArmedOf(rows')
    BY <2>7, ArmedIs DEF Holds, SeriesInv
  <2>. QED BY <2>7, <2>8 DEF Holds
<1>. QED BY <1>1, <1>2, <1>3

\* The invariant of one task series in every reachable state.
THEOREM SeriesHolds == TaskSpec => []SeriesInv
<1>1. SeriesInv /\ [TaskNext]_taskVars => SeriesInv'
  BY SeriesStep
<1>. QED BY <1>1, OneOccurrence, PTL DEF TaskSpec

\* What the invariant says in the model's words.
LEMMA SeriesSays ==
  ASSUME SeriesInv
  PROVE  ScheduleInvariant /\ SeriesStaysSingle
<1>1. Armed = ArmedOf(rows) /\ Todo = TodoOf(rows)
  BY RowsOf, ArmedIs DEF Todo, TodoOf
<1>2. This = Least(TodoOf(rows))
  BY <1>1 DEF This, Least
<1>3. Count(rows, at)
        = Cardinality(IF at = "clearing" THEN Armed \ {This} ELSE Armed)
  BY <1>1, <1>2 DEF Count
<1>. QED BY <1>1, <1>3 DEF SeriesInv, ScheduleInvariant, ClosedMeansSpent,
                           SeriesStaysSingle

\* The types, and: unless a write of the pass that closed it failed, a session
\* is closed only when its series is spent (host-sweep.ts: shouldCloseTaskSession).
THEOREM ScheduleHolds == TaskSpec => []ScheduleInvariant
<1>1. SeriesInv => ScheduleInvariant
  BY SeriesSays
<1>. QED BY <1>1, SeriesHolds, PTL

\* A series stands armed once, but for what a command armed beside it and, per
\* crash or failed write, one more (recurrence.ts: insert before clear).
THEOREM SeriesSingle == TaskSpec => []SeriesStaysSingle
<1>1. SeriesInv => SeriesStaysSingle
  BY SeriesSays
<1>. QED BY <1>1, SeriesHolds, PTL

\* Once nothing of a series is armed only `update --recurrence` arms it again
\* (tasks.ts: cancelTask).
THEOREM CancelledStays == TaskSpec => CancelledStaysCancelled
<1>1. SeriesInv /\ [TaskNext]_taskVars
        => [Armed = {} /\ Armed' # {} => updateTaskArms]_taskVars
  BY SeriesStep
<1>. QED BY <1>1, SeriesHolds, PTL DEF TaskSpec, CancelledStaysCancelled
=============================================================================
