------------------------- MODULE SessionClaimsProofs -------------------------
(***************************************************************************)
(* Proofs about SessionClaims, for every number of hosts and faults, with  *)
(* leases that may lapse and revive at any time.                           *)
(***************************************************************************)
EXTENDS SessionClaims, TLAPS

LEMMA InitType == Init => TypeOK
<1> SUFFICES ASSUME Init PROVE TypeOK
  OBVIOUS
<1>1. claim \in Claim /\ seen \in [Host -> [current : Claim, self : Claimant \cup {None}]]
  BY DEF Init, Claim, Unread
<1>2. running \in BOOLEAN /\ tracked \in [Host -> BOOLEAN] /\ adopting \in [Host -> BOOLEAN]
  BY Zenon DEF Init
<1> QED
  BY <1>1, <1>2, ClaimsAssumption DEF Init, TypeOK

\* The fault budget, and the outcomes of a run's end, stay in range.
LEMMA FaultInRange == TypeOK /\ Fault => faults' \in 0..MaxFaults
BY ClaimsAssumption DEF TypeOK, Fault

\* What a lost claim does to a well-formed state (the refused wake or adoption).
LEMMA ClaimLostType ==
  ASSUME TypeOK, NEW h \in Host, ClaimLost(h)
  PROVE  /\ at' \in [Host -> {"idle", "read", "check", "cas", "prepare", "start",
                                "ensure", "release", "undo"}]
         /\ process' \in [Host -> {"new", "starting", "up", "closing", "gone"}]
         /\ seen' \in [Host -> [current : Claim, self : Claimant \cup {None}]]
<1>1. Unread \in [current : Claim, self : Claimant \cup {None}]
  BY DEF Unread, Claim
<1>2. CASE adopting[h]
  BY <1>1, <1>2 DEF ClaimLost, Goto, TypeOK
<1>3. CASE ~adopting[h]
  BY <1>1, <1>3 DEF ClaimLost, Goto, TypeOK
<1> QED  BY <1>2, <1>3

\* Every step keeps the types.
LEMMA StepType ==
  ASSUME TypeOK, [Next]_vars
  PROVE  TypeOK'
<1> USE DEF tables, task, runtime, Goto
<1>1. CASE UNCHANGED vars
  BY <1>1 DEF vars, TypeOK
<1>2. CASE ContainerExits
  <2>1. running' \in BOOLEAN
    BY <1>2, Zenon DEF ContainerExits
  <2> QED  BY <1>2, <2>1, FaultInRange DEF ContainerExits, TypeOK
<1>3. ASSUME NEW h \in Host, adoptRunningSessions(h) PROVE TypeOK'
  BY <1>3, ClaimsAssumption DEF adoptRunningSessions, TypeOK
<1>4. ASSUME NEW h \in Host, wakeContainer(h) PROVE TypeOK'
  BY <1>4, ClaimsAssumption DEF wakeContainer, TypeOK
<1>5. ASSUME NEW h \in Host, ReadClaim(h) PROVE TypeOK'
  BY <1>5, ClaimsAssumption DEF ReadClaim, Claim, Claimant, claimantId, TypeOK
<1>6. ASSUME NEW h \in Host, CheckHolder(h) PROVE TypeOK'
  <2>1. CASE LiveHolder(seen[h].current.by)
    BY <1>6, <2>1, ClaimLostType DEF CheckHolder, TypeOK
  <2>2. CASE ~LiveHolder(seen[h].current.by)
    BY <1>6, <2>2 DEF CheckHolder, TypeOK
  <2> QED  BY <2>1, <2>2
<1>7. ASSUME NEW h \in Host, CasWins(h) PROVE TypeOK'
  <2>1. Unread \in [current : Claim, self : Claimant \cup {None}]
    BY DEF Unread, Claim
  <2>2. claim' \in Claim /\ mine' \in [Host -> Nat]
    BY <1>7 DEF CasWins, tryClaimSession, Claim, TypeOK
  <2> QED  BY <1>7, <2>1, <2>2 DEF CasWins, TypeOK
<1>8. ASSUME NEW h \in Host, CasLoses(h) PROVE TypeOK'
  BY <1>8, ClaimLostType DEF CasLoses, TypeOK
<1>9. ASSUME NEW h \in Host, Prepare(h) PROVE TypeOK'
  BY <1>9, ClaimsAssumption DEF Prepare, TypeOK
<1>10. ASSUME NEW h \in Host, Start(h) PROVE TypeOK'
  BY <1>10, ClaimsAssumption DEF Start, TypeOK
<1>11. ASSUME NEW h \in Host, EnsureGateway(h) PROVE TypeOK'
  BY <1>11, ClaimsAssumption DEF EnsureGateway, TypeOK
<1>12. ASSUME NEW h \in Host, ReleaseClaim(h) PROVE TypeOK'
  BY <1>12, ClaimsAssumption DEF ReleaseClaim, releaseSessionClaim, Claim, TypeOK
<1>13. ASSUME NEW h \in Host, Undo(h) PROVE TypeOK'
  BY <1>13, ClaimsAssumption DEF Undo, TypeOK
<1>14. ASSUME NEW h \in Host, Finish(h) PROVE TypeOK'
  BY <1>14, ClaimsAssumption DEF Finish, finish, TypeOK
<1>15. ASSUME NEW h \in Host, startHostInstanceLease(h) PROVE TypeOK'
  BY <1>15, ClaimsAssumption DEF startHostInstanceLease, TypeOK
<1>16. ASSUME NEW h \in Host, LeaseExpires(h) PROVE TypeOK'
  BY <1>16, ClaimsAssumption DEF LeaseExpires, TypeOK
<1>17. ASSUME NEW h \in Host, renewLease(h) PROVE TypeOK'
  BY <1>17, ClaimsAssumption DEF renewLease, TypeOK
<1>18. ASSUME NEW h \in Host, Shutdown(h) PROVE TypeOK'
  BY <1>18, ClaimsAssumption DEF Shutdown, Fault, TypeOK
<1>19. ASSUME NEW h \in Host, stopHostInstanceLease(h) PROVE TypeOK'
  BY <1>19, ClaimsAssumption DEF stopHostInstanceLease, TypeOK
<1>20. ASSUME NEW h \in Host, ShutdownEnds(h) PROVE TypeOK'
  BY <1>20, ClaimsAssumption DEF ShutdownEnds, Exit, Fault, Unread, Claim, TypeOK
<1>21. ASSUME NEW h \in Host, Crash(h) PROVE TypeOK'
  BY <1>21, ClaimsAssumption DEF Crash, Exit, Fault, Unread, Claim, TypeOK
<1>22. ASSUME NEW h \in Host, ClaimThrows(h) PROVE TypeOK'
  BY <1>22, ClaimLostType, FaultInRange DEF ClaimThrows, TypeOK
<1>23. ASSUME NEW h \in Host, PrepareFails(h) PROVE TypeOK'
  BY <1>23, ClaimsAssumption DEF PrepareFails, Fault, TypeOK
<1>24. ASSUME NEW h \in Host, StartFails(h) PROVE TypeOK'
  BY <1>24, ClaimsAssumption DEF StartFails, Fault, TypeOK
<1>25. ASSUME NEW h \in Host, EnsureFails(h) PROVE TypeOK'
  <2>1. running' \in BOOLEAN
    BY <1>25, Zenon DEF EnsureFails
  <2> QED  BY <1>25, <2>1, FaultInRange DEF EnsureFails, TypeOK
<1>26. ASSUME NEW h \in Host, killContainer(h) PROVE TypeOK'
  <2>1. running' \in BOOLEAN
    BY <1>26, Zenon DEF killContainer, TypeOK
  <2>2. tracked' \in [Host -> BOOLEAN] /\ mine' \in [Host -> Nat]
        /\ gateway' \in [Host -> {"none", "held", "ended"}]
    BY <1>26 DEF killContainer, finish, TypeOK
  <2> QED  BY <1>26, <2>1, <2>2, FaultInRange DEF killContainer, TypeOK
<1> QED
  BY <1>1, <1>2, <1>3, <1>4, <1>5, <1>6, <1>7, <1>8, <1>9, <1>10, <1>11, <1>12, <1>13, <1>14, <1>15, <1>16, <1>17, <1>18, <1>19, <1>20, <1>21, <1>22, <1>23, <1>24, <1>25, <1>26 DEF Next, ClaimSteps


-----------------------------------------------------------------------------
(***************************************************************************)
(* The fence.  A claim takes the incarnation after the newest one, which   *)
(* no host has yet, so no two hosts ever hold the same.  A row that is     *)
(* read is written back under the reader's own id, so the row names the    *)
(* host that has the newest incarnation until that host lets go of it.     *)
(***************************************************************************)

\* The id a host will write is its own (self in claimSessionRun).
WritesOwnName ==
    \A h \in Host :
        at[h] \in {"check", "cas"} => seen[h].self \in {<<h, "lease">>, <<h, "pid">>}

FenceInv ==
    TypeOK /\ WritesOwnName /\ EachIncarnationHasOneHost /\ NewestRunnerHoldsTheClaim

\* Every step keeps the id to be written the host's own.
LEMMA StepName ==
  ASSUME TypeOK /\ WritesOwnName, [Next]_vars
  PROVE  WritesOwnName'
<1> USE DEF tables, task, runtime, Goto, TypeOK, WritesOwnName
<1>1. CASE UNCHANGED vars
  BY <1>1 DEF vars
<1>2. CASE ContainerExits
  BY <1>2 DEF ContainerExits
<1>3. ASSUME NEW h \in Host, adoptRunningSessions(h) PROVE WritesOwnName'
  BY <1>3 DEF adoptRunningSessions
<1>4. ASSUME NEW h \in Host, wakeContainer(h) PROVE WritesOwnName'
  BY <1>4 DEF wakeContainer
<1>5. ASSUME NEW h \in Host, ReadClaim(h) PROVE WritesOwnName'
  BY <1>5 DEF ReadClaim, claimantId
<1>6. ASSUME NEW h \in Host, CheckHolder(h) PROVE WritesOwnName'
  BY <1>6 DEF CheckHolder, ClaimLost
<1>7. ASSUME NEW h \in Host, CasWins(h) PROVE WritesOwnName'
  BY <1>7 DEF CasWins, tryClaimSession
<1>8. ASSUME NEW h \in Host, CasLoses(h) PROVE WritesOwnName'
  BY <1>8 DEF CasLoses, ClaimLost
<1>9. ASSUME NEW h \in Host, Prepare(h) PROVE WritesOwnName'
  BY <1>9 DEF Prepare
<1>10. ASSUME NEW h \in Host, Start(h) PROVE WritesOwnName'
  BY <1>10 DEF Start
<1>11. ASSUME NEW h \in Host, EnsureGateway(h) PROVE WritesOwnName'
  BY <1>11 DEF EnsureGateway
<1>12. ASSUME NEW h \in Host, ReleaseClaim(h) PROVE WritesOwnName'
  BY <1>12 DEF ReleaseClaim, releaseSessionClaim
<1>13. ASSUME NEW h \in Host, Undo(h) PROVE WritesOwnName'
  BY <1>13 DEF Undo
<1>14. ASSUME NEW h \in Host, Finish(h) PROVE WritesOwnName'
  BY <1>14 DEF Finish, finish
<1>15. ASSUME NEW h \in Host, startHostInstanceLease(h) PROVE WritesOwnName'
  BY <1>15 DEF startHostInstanceLease
<1>16. ASSUME NEW h \in Host, LeaseExpires(h) PROVE WritesOwnName'
  BY <1>16 DEF LeaseExpires
<1>17. ASSUME NEW h \in Host, renewLease(h) PROVE WritesOwnName'
  BY <1>17 DEF renewLease
<1>18. ASSUME NEW h \in Host, Shutdown(h) PROVE WritesOwnName'
  BY <1>18 DEF Shutdown
<1>19. ASSUME NEW h \in Host, stopHostInstanceLease(h) PROVE WritesOwnName'
  BY <1>19 DEF stopHostInstanceLease
<1>20. ASSUME NEW h \in Host, ShutdownEnds(h) PROVE WritesOwnName'
  BY <1>20 DEF ShutdownEnds, Exit
<1>21. ASSUME NEW h \in Host, Crash(h) PROVE WritesOwnName'
  BY <1>21 DEF Crash, Exit
<1>22. ASSUME NEW h \in Host, ClaimThrows(h) PROVE WritesOwnName'
  BY <1>22 DEF ClaimThrows, ClaimLost
<1>23. ASSUME NEW h \in Host, PrepareFails(h) PROVE WritesOwnName'
  BY <1>23 DEF PrepareFails
<1>24. ASSUME NEW h \in Host, StartFails(h) PROVE WritesOwnName'
  BY <1>24 DEF StartFails
<1>25. ASSUME NEW h \in Host, EnsureFails(h) PROVE WritesOwnName'
  BY <1>25 DEF EnsureFails
<1>26. ASSUME NEW h \in Host, killContainer(h) PROVE WritesOwnName'
  BY <1>26 DEF killContainer, finish
<1> QED
  BY <1>1, <1>2, <1>3, <1>4, <1>5, <1>6, <1>7, <1>8, <1>9, <1>10, <1>11, <1>12, <1>13, <1>14, <1>15, <1>16, <1>17, <1>18, <1>19, <1>20, <1>21, <1>22, <1>23, <1>24, <1>25, <1>26 DEF Next, ClaimSteps

\* A host that keeps or forgets its incarnation cannot break the fence.
LEMMA ForgettingKeepsFence ==
  ASSUME EachIncarnationHasOneHost, claim' = claim,
         \A x \in Host : mine[x] \in Nat /\ (mine'[x] = mine[x] \/ mine'[x] = 0),
         claim.incarnation \in Nat
  PROVE  EachIncarnationHasOneHost'
<1> SUFFICES ASSUME NEW h \in Host
             PROVE  /\ mine'[h] <= claim.incarnation
                    /\ \A x \in Host \ {h} : mine'[h] # 0 => mine'[h] # mine'[x]
  BY DEF EachIncarnationHasOneHost
<1>1. mine'[h] <= claim.incarnation
  BY DEF EachIncarnationHasOneHost
<1>2. ASSUME NEW x \in Host \ {h}, mine'[h] # 0 PROVE mine'[h] # mine'[x]
  <2>1. mine'[h] = mine[h] /\ mine[h] # 0 /\ mine[h] # mine[x]
    BY <1>2 DEF EachIncarnationHasOneHost
  <2> QED  BY <2>1
<1> QED  BY <1>1, <1>2

\* Every step keeps the incarnations apart.
LEMMA StepFence ==
  ASSUME TypeOK /\ EachIncarnationHasOneHost, [Next]_vars
  PROVE  EachIncarnationHasOneHost'
<1> USE DEF tables, task, runtime, Goto, TypeOK, EachIncarnationHasOneHost
<1>1. CASE UNCHANGED vars
  BY <1>1 DEF vars
<1>2. CASE ContainerExits
  BY <1>2 DEF ContainerExits
<1>3. ASSUME NEW h \in Host, adoptRunningSessions(h) PROVE EachIncarnationHasOneHost'
  BY <1>3 DEF adoptRunningSessions
<1>4. ASSUME NEW h \in Host, wakeContainer(h) PROVE EachIncarnationHasOneHost'
  BY <1>4 DEF wakeContainer
<1>5. ASSUME NEW h \in Host, ReadClaim(h) PROVE EachIncarnationHasOneHost'
  BY <1>5 DEF ReadClaim
<1>6. ASSUME NEW h \in Host, CheckHolder(h) PROVE EachIncarnationHasOneHost'
  BY <1>6 DEF CheckHolder, ClaimLost
<1>7. ASSUME NEW h \in Host, CasWins(h) PROVE EachIncarnationHasOneHost'
  BY <1>7 DEF CasWins, tryClaimSession, Claim
<1>8. ASSUME NEW h \in Host, CasLoses(h) PROVE EachIncarnationHasOneHost'
  BY <1>8 DEF CasLoses, ClaimLost
<1>9. ASSUME NEW h \in Host, Prepare(h) PROVE EachIncarnationHasOneHost'
  BY <1>9 DEF Prepare
<1>10. ASSUME NEW h \in Host, Start(h) PROVE EachIncarnationHasOneHost'
  <2>1. claim' = claim /\ claim.incarnation \in Nat
        /\ \A x \in Host : mine[x] \in Nat /\ (mine'[x] = mine[x] \/ mine'[x] = 0)
    BY <1>10 DEF Start, Claim
  <2> QED  BY <2>1, ForgettingKeepsFence
<1>11. ASSUME NEW h \in Host, EnsureGateway(h) PROVE EachIncarnationHasOneHost'
  BY <1>11 DEF EnsureGateway
<1>12. ASSUME NEW h \in Host, ReleaseClaim(h) PROVE EachIncarnationHasOneHost'
  BY <1>12 DEF ReleaseClaim, releaseSessionClaim, Claim
<1>13. ASSUME NEW h \in Host, Undo(h) PROVE EachIncarnationHasOneHost'
  <2>1. claim' = claim /\ claim.incarnation \in Nat
        /\ \A x \in Host : mine[x] \in Nat /\ (mine'[x] = mine[x] \/ mine'[x] = 0)
    BY <1>13 DEF Undo, Claim
  <2> QED  BY <2>1, ForgettingKeepsFence
<1>14. ASSUME NEW h \in Host, Finish(h) PROVE EachIncarnationHasOneHost'
  <2>1. claim' = claim /\ claim.incarnation \in Nat
        /\ \A x \in Host : mine[x] \in Nat /\ (mine'[x] = mine[x] \/ mine'[x] = 0)
    BY <1>14 DEF Finish, finish, Claim
  <2> QED  BY <2>1, ForgettingKeepsFence
<1>15. ASSUME NEW h \in Host, startHostInstanceLease(h) PROVE EachIncarnationHasOneHost'
  BY <1>15 DEF startHostInstanceLease
<1>16. ASSUME NEW h \in Host, LeaseExpires(h) PROVE EachIncarnationHasOneHost'
  BY <1>16 DEF LeaseExpires
<1>17. ASSUME NEW h \in Host, renewLease(h) PROVE EachIncarnationHasOneHost'
  BY <1>17 DEF renewLease
<1>18. ASSUME NEW h \in Host, Shutdown(h) PROVE EachIncarnationHasOneHost'
  BY <1>18 DEF Shutdown
<1>19. ASSUME NEW h \in Host, stopHostInstanceLease(h) PROVE EachIncarnationHasOneHost'
  BY <1>19 DEF stopHostInstanceLease
<1>20. ASSUME NEW h \in Host, ShutdownEnds(h) PROVE EachIncarnationHasOneHost'
  <2>1. claim' = claim /\ claim.incarnation \in Nat
        /\ \A x \in Host : mine[x] \in Nat /\ (mine'[x] = mine[x] \/ mine'[x] = 0)
    BY <1>20 DEF ShutdownEnds, Exit, Claim
  <2> QED  BY <2>1, ForgettingKeepsFence
<1>21. ASSUME NEW h \in Host, Crash(h) PROVE EachIncarnationHasOneHost'
  <2>1. claim' = claim /\ claim.incarnation \in Nat
        /\ \A x \in Host : mine[x] \in Nat /\ (mine'[x] = mine[x] \/ mine'[x] = 0)
    BY <1>21 DEF Crash, Exit, Claim
  <2> QED  BY <2>1, ForgettingKeepsFence
<1>22. ASSUME NEW h \in Host, ClaimThrows(h) PROVE EachIncarnationHasOneHost'
  BY <1>22 DEF ClaimThrows, ClaimLost
<1>23. ASSUME NEW h \in Host, PrepareFails(h) PROVE EachIncarnationHasOneHost'
  BY <1>23 DEF PrepareFails
<1>24. ASSUME NEW h \in Host, StartFails(h) PROVE EachIncarnationHasOneHost'
  BY <1>24 DEF StartFails
<1>25. ASSUME NEW h \in Host, EnsureFails(h) PROVE EachIncarnationHasOneHost'
  BY <1>25 DEF EnsureFails
<1>26. ASSUME NEW h \in Host, killContainer(h) PROVE EachIncarnationHasOneHost'
  <2>1. claim' = claim /\ claim.incarnation \in Nat
        /\ \A x \in Host : mine[x] \in Nat /\ (mine'[x] = mine[x] \/ mine'[x] = 0)
    BY <1>26 DEF killContainer, finish, Claim
  <2> QED  BY <2>1, ForgettingKeepsFence
<1> QED
  BY <1>1, <1>2, <1>3, <1>4, <1>5, <1>6, <1>7, <1>8, <1>9, <1>10, <1>11, <1>12, <1>13, <1>14, <1>15, <1>16, <1>17, <1>18, <1>19, <1>20, <1>21, <1>22, <1>23, <1>24, <1>25, <1>26 DEF Next, ClaimSteps

\* Every step leaves the newest runner named by the row.
LEMMA StepNamed ==
  ASSUME FenceInv, [Next]_vars
  PROVE  NewestRunnerHoldsTheClaim'
<1> USE DEF tables, task, runtime, Goto, TypeOK, NewestRunnerHoldsTheClaim, FenceInv
<1>1. CASE UNCHANGED vars
  BY <1>1 DEF vars
<1>2. CASE ContainerExits
  BY <1>2 DEF ContainerExits
<1>3. ASSUME NEW h \in Host, adoptRunningSessions(h) PROVE NewestRunnerHoldsTheClaim'
  BY <1>3 DEF adoptRunningSessions
<1>4. ASSUME NEW h \in Host, wakeContainer(h) PROVE NewestRunnerHoldsTheClaim'
  BY <1>4 DEF wakeContainer
<1>5. ASSUME NEW h \in Host, ReadClaim(h) PROVE NewestRunnerHoldsTheClaim'
  BY <1>5 DEF ReadClaim
<1>6. ASSUME NEW h \in Host, CheckHolder(h) PROVE NewestRunnerHoldsTheClaim'
  BY <1>6 DEF CheckHolder, ClaimLost
<1>7. ASSUME NEW h \in Host, CasWins(h) PROVE NewestRunnerHoldsTheClaim'
  <2>1. claim'.by # None /\ claim'.by[1] = h
    BY <1>7, ClaimsAssumption DEF CasWins, tryClaimSession, WritesOwnName
  <2>2. \A x \in Host \ {h} : mine'[x] = mine[x] /\ mine[x] < claim'.incarnation
    BY <1>7 DEF CasWins, tryClaimSession, Claim, EachIncarnationHasOneHost
  <2> QED  BY <2>1, <2>2
<1>8. ASSUME NEW h \in Host, CasLoses(h) PROVE NewestRunnerHoldsTheClaim'
  BY <1>8 DEF CasLoses, ClaimLost
<1>9. ASSUME NEW h \in Host, Prepare(h) PROVE NewestRunnerHoldsTheClaim'
  BY <1>9 DEF Prepare
<1>10. ASSUME NEW h \in Host, Start(h) PROVE NewestRunnerHoldsTheClaim'
  BY <1>10 DEF Start
<1>11. ASSUME NEW h \in Host, EnsureGateway(h) PROVE NewestRunnerHoldsTheClaim'
  BY <1>11 DEF EnsureGateway
<1>12. ASSUME NEW h \in Host, ReleaseClaim(h) PROVE NewestRunnerHoldsTheClaim'
  BY <1>12 DEF ReleaseClaim, releaseSessionClaim, Claim, EachIncarnationHasOneHost
<1>13. ASSUME NEW h \in Host, Undo(h) PROVE NewestRunnerHoldsTheClaim'
  BY <1>13 DEF Undo
<1>14. ASSUME NEW h \in Host, Finish(h) PROVE NewestRunnerHoldsTheClaim'
  BY <1>14 DEF Finish, finish
<1>15. ASSUME NEW h \in Host, startHostInstanceLease(h) PROVE NewestRunnerHoldsTheClaim'
  BY <1>15 DEF startHostInstanceLease
<1>16. ASSUME NEW h \in Host, LeaseExpires(h) PROVE NewestRunnerHoldsTheClaim'
  BY <1>16 DEF LeaseExpires
<1>17. ASSUME NEW h \in Host, renewLease(h) PROVE NewestRunnerHoldsTheClaim'
  BY <1>17 DEF renewLease
<1>18. ASSUME NEW h \in Host, Shutdown(h) PROVE NewestRunnerHoldsTheClaim'
  BY <1>18 DEF Shutdown
<1>19. ASSUME NEW h \in Host, stopHostInstanceLease(h) PROVE NewestRunnerHoldsTheClaim'
  BY <1>19 DEF stopHostInstanceLease
<1>20. ASSUME NEW h \in Host, ShutdownEnds(h) PROVE NewestRunnerHoldsTheClaim'
  BY <1>20 DEF ShutdownEnds, Exit
<1>21. ASSUME NEW h \in Host, Crash(h) PROVE NewestRunnerHoldsTheClaim'
  BY <1>21 DEF Crash, Exit
<1>22. ASSUME NEW h \in Host, ClaimThrows(h) PROVE NewestRunnerHoldsTheClaim'
  BY <1>22 DEF ClaimThrows, ClaimLost
<1>23. ASSUME NEW h \in Host, PrepareFails(h) PROVE NewestRunnerHoldsTheClaim'
  BY <1>23 DEF PrepareFails
<1>24. ASSUME NEW h \in Host, StartFails(h) PROVE NewestRunnerHoldsTheClaim'
  BY <1>24 DEF StartFails
<1>25. ASSUME NEW h \in Host, EnsureFails(h) PROVE NewestRunnerHoldsTheClaim'
  BY <1>25 DEF EnsureFails
<1>26. ASSUME NEW h \in Host, killContainer(h) PROVE NewestRunnerHoldsTheClaim'
  BY <1>26 DEF killContainer, finish
<1> QED
  BY <1>1, <1>2, <1>3, <1>4, <1>5, <1>6, <1>7, <1>8, <1>9, <1>10, <1>11, <1>12, <1>13, <1>14, <1>15, <1>16, <1>17, <1>18, <1>19, <1>20, <1>21, <1>22, <1>23, <1>24, <1>25, <1>26 DEF Next, ClaimSteps

\* The types hold in every reachable state (what each table and each host's
\* memory can hold).
THEOREM TypeCorrect == Spec => []TypeOK
<1>1. TypeOK /\ [Next]_vars => TypeOK'
  BY StepType
<1> QED  BY InitType, <1>1, PTL DEF Spec

\* The fence is inductive.
LEMMA FenceInvariant == Spec => []FenceInv
<1>1. Init => FenceInv
  BY InitType DEF Init, FenceInv, WritesOwnName, EachIncarnationHasOneHost, NewestRunnerHoldsTheClaim
<1>2. FenceInv /\ [Next]_vars => FenceInv'
  BY StepType, StepName, StepFence, StepNamed DEF FenceInv
<1> QED  BY <1>1, <1>2, PTL DEF Spec

\* However many hosts overlap and however late they renew, no two ever hold
\* the same incarnation of the session (tryClaimSession's compare-and-set).
THEOREM IncarnationsFence == Spec => []EachIncarnationHasOneHost
<1>1. FenceInv => EachIncarnationHasOneHost
  BY DEF FenceInv
<1> QED  BY FenceInvariant, <1>1, PTL

\* The host that runs the newest incarnation is the one the row names: no stale
\* release and no peer takes its claim away (releaseSessionClaim).
THEOREM NewestRunnerIsNamed == Spec => []NewestRunnerHoldsTheClaim
<1>1. FenceInv => NewestRunnerHoldsTheClaim
  BY DEF FenceInv
<1> QED  BY FenceInvariant, <1>1, PTL

-----------------------------------------------------------------------------
(***************************************************************************)
(* Live hosts.  A host whose lease never lapsed is live from its start to  *)
(* its shutdown, so that whoever reads its claim meets a live holder and   *)
(* gives way, and the fence refuses whoever read before it claimed: the    *)
(* row is its own from the claim to its own release.                       *)
(***************************************************************************)

\* The two names a host signs with.
LeaseId(h) == <<h, "lease">>
PidId(h)   == <<h, "pid">>

\* Names tell hosts apart, and only a lease's name can be live.
LEMMA Names ==
  ASSUME NEW h \in Host
  PROVE  /\ \A p \in Host : /\ LeaseId(h) = LeaseId(p) => h = p
                            /\ PidId(h) = PidId(p) => h = p
                            /\ LeaseId(h) # PidId(p)
         /\ LeaseId(h) # None /\ PidId(h) # None
         /\ claimantId(h) = IF process[h] = "closing" THEN PidId(h) ELSE LeaseId(h)
         /\ LiveHolder(LeaseId(h)) <=> lease[h] = "live"
         /\ ~LiveHolder(PidId(h)) /\ ~LiveHolder(None)
BY ClaimsAssumption DEF LeaseId, PidId, claimantId, LiveHolder

\* A lease fails a host that is open only by lapsing.
LeasesTell ==
    \A h \in Host :
        /\ process[h] = "new" => lease[h] = "none"
        /\ process[h] \in {"starting", "up"} /\ h \notin lapsed => lease[h] = "live"
        /\ process[h] = "closing" /\ lease[h] = "expired" => h \in lapsed
        /\ Working(h) => lease[h] # "none"

\* What a host has at each step of a claim.
TaskStages ==
    \A h \in Host :
        /\ process[h] \in {"new", "gone"} => at[h] = "idle" /\ ~tracked[h] /\ mine[h] = 0
        /\ process[h] = "starting" => ~tracked[h]
        /\ at[h] # "idle" => (adopting[h] <=> process[h] = "starting")
        /\ at[h] \in {"prepare", "start"} => ~adopting[h]
        /\ at[h] = "ensure" => adopting[h]
        /\ at[h] \in {"read", "check", "cas", "prepare", "ensure"} => ~tracked[h]
        /\ at[h] \in {"prepare", "ensure"} \/ (tracked[h] /\ at[h] # "undo")
             => mine[h] # 0

Reading(p) == at[p] \in {"check", "cas"}

\* Claims name hosts that were started.
NamesAreKnown ==
    \A h \in Host : process[h] = "new" =>
        /\ claim.by \notin {LeaseId(h), PidId(h)}
        /\ \A p \in Host : Reading(p) =>
              seen[p].current.by \notin {LeaseId(h), PidId(h)}

\* A claim that was read is the row's, or older, or has been released since.
ReadsAge ==
    \A p \in Host : Reading(p) =>
        /\ seen[p].current.incarnation <= claim.incarnation
        /\ seen[p].current.incarnation = claim.incarnation =>
              claim.by \in {seen[p].current.by, None}

\* It is written back under the reader's own name, which is its lease's
\* unless it shuts down.
SignsItself ==
    \A p \in Host : Reading(p) =>
        /\ seen[p].self \in {LeaseId(p), PidId(p)}
        /\ process[p] # "closing" => seen[p].self = LeaseId(p)

\* Who is about to write over a lease's claim is its owner or found it dead.
PassedTheCheck ==
    \A p \in Host, h \in Host :
        at[p] = "cas" /\ seen[p].current.by = LeaseId(h) =>
            seen[p].self = LeaseId(h) \/ lease[h] # "live" \/ h \in lapsed

\* An open host that never lapsed and has claimed the session is the row's.
RunnersClaim ==
    \A h \in Host \ lapsed :
        process[h] \in {"starting", "up"} /\ mine[h] # 0 /\ at[h] # "undo" =>
            claim.by = LeaseId(h) /\ claim.incarnation = mine[h]

LiveInv ==
    /\ TypeOK /\ LeasesTell /\ TaskStages /\ NamesAreKnown /\ ReadsAge
    /\ SignsItself /\ PassedTheCheck /\ RunnersClaim

\* A host's life keeps its lease in step.
LEMMA StepLeases ==
  ASSUME TypeOK, TaskStages, LeasesTell, [Next]_vars
  PROVE  LeasesTell'
<1> USE DEF tables, task, runtime, Goto, TypeOK, LeasesTell, TaskStages, Working
<1>1. CASE UNCHANGED vars \/ ContainerExits
  BY <1>1 DEF vars, ContainerExits
<1>2. ASSUME NEW h \in Host,
             wakeContainer(h) \/ ReadClaim(h) \/ CasWins(h) \/ Prepare(h) \/ Start(h)
             \/ ReleaseClaim(h) \/ Finish(h) \/ PrepareFails(h) \/ StartFails(h)
             \/ EnsureFails(h) \/ killContainer(h)
      PROVE  LeasesTell'
  <2>1. process' = process /\ lease' = lease /\ lapsed' = lapsed
    BY <1>2 DEF wakeContainer, ReadClaim, CasWins, Prepare, Start, ReleaseClaim, Finish,
       PrepareFails, StartFails, EnsureFails, killContainer
  <2> QED  BY <2>1
<1>3. ASSUME NEW h \in Host, adoptRunningSessions(h) PROVE LeasesTell'
  BY <1>3 DEF adoptRunningSessions
<1>4. ASSUME NEW h \in Host, EnsureGateway(h) PROVE LeasesTell'
  BY <1>4 DEF EnsureGateway
<1>5. ASSUME NEW h \in Host, Undo(h) PROVE LeasesTell'
  BY <1>5 DEF Undo
<1>6. ASSUME NEW h \in Host, CheckHolder(h) PROVE LeasesTell'
  BY <1>6 DEF CheckHolder, ClaimLost
<1>7. ASSUME NEW h \in Host, CasLoses(h) PROVE LeasesTell'
  BY <1>7 DEF CasLoses, ClaimLost
<1>8. ASSUME NEW h \in Host, ClaimThrows(h) PROVE LeasesTell'
  BY <1>8 DEF ClaimThrows, ClaimLost
<1>9. ASSUME NEW h \in Host, startHostInstanceLease(h) PROVE LeasesTell'
  BY <1>9 DEF startHostInstanceLease
<1>10. ASSUME NEW h \in Host, LeaseExpires(h) PROVE LeasesTell'
  BY <1>10 DEF LeaseExpires
<1>11. ASSUME NEW h \in Host, renewLease(h) PROVE LeasesTell'
  BY <1>11 DEF renewLease
<1>12. ASSUME NEW h \in Host, Shutdown(h) PROVE LeasesTell'
  BY <1>12 DEF Shutdown
<1>13. ASSUME NEW h \in Host, stopHostInstanceLease(h) PROVE LeasesTell'
  BY <1>13 DEF stopHostInstanceLease
<1>14. ASSUME NEW h \in Host, ShutdownEnds(h) PROVE LeasesTell'
  BY <1>14 DEF ShutdownEnds, Exit
<1>15. ASSUME NEW h \in Host, Crash(h) PROVE LeasesTell'
  BY <1>15 DEF Crash, Exit
<1> QED
  BY <1>1, <1>2, <1>3, <1>4, <1>5, <1>6, <1>7, <1>8, <1>9, <1>10, <1>11,
     <1>12, <1>13, <1>14, <1>15 DEF Next, ClaimSteps

\* Each step of a claim leaves the host where the next one begins.
LEMMA StepStages ==
  ASSUME TypeOK, TaskStages, [Next]_vars
  PROVE  TaskStages'
<1> USE DEF tables, task, runtime, Goto, TypeOK, TaskStages, Working, Claim
<1>1. CASE UNCHANGED vars \/ ContainerExits
  BY <1>1 DEF vars, ContainerExits
<1>2. ASSUME NEW h \in Host,
             LeaseExpires(h) \/ renewLease(h) \/ stopHostInstanceLease(h)
      PROVE  TaskStages'
  BY <1>2 DEF LeaseExpires, renewLease, stopHostInstanceLease
<1>3. ASSUME NEW h \in Host, adoptRunningSessions(h) PROVE TaskStages'
  BY <1>3 DEF adoptRunningSessions
<1>4. ASSUME NEW h \in Host, wakeContainer(h) PROVE TaskStages'
  BY <1>4 DEF wakeContainer
<1>5. ASSUME NEW h \in Host, ReadClaim(h) PROVE TaskStages'
  BY <1>5 DEF ReadClaim, claimantId
<1>6. ASSUME NEW h \in Host, CheckHolder(h) PROVE TaskStages'
  BY <1>6 DEF CheckHolder, ClaimLost
<1>7. ASSUME NEW h \in Host, CasWins(h) PROVE TaskStages'
  BY <1>7 DEF CasWins, tryClaimSession
<1>8. ASSUME NEW h \in Host, CasLoses(h) PROVE TaskStages'
  BY <1>8 DEF CasLoses, ClaimLost
<1>9. ASSUME NEW h \in Host, Prepare(h) PROVE TaskStages'
  BY <1>9 DEF Prepare
<1>10. ASSUME NEW h \in Host, Start(h) PROVE TaskStages'
  BY <1>10 DEF Start
<1>11. ASSUME NEW h \in Host, EnsureGateway(h) PROVE TaskStages'
  BY <1>11 DEF EnsureGateway
<1>12. ASSUME NEW h \in Host, ReleaseClaim(h) PROVE TaskStages'
  BY <1>12 DEF ReleaseClaim, releaseSessionClaim
<1>13. ASSUME NEW h \in Host, Undo(h) PROVE TaskStages'
  BY <1>13 DEF Undo
<1>14. ASSUME NEW h \in Host, Finish(h) PROVE TaskStages'
  BY <1>14 DEF Finish, finish
<1>15. ASSUME NEW h \in Host, startHostInstanceLease(h) PROVE TaskStages'
  BY <1>15 DEF startHostInstanceLease
<1>16. ASSUME NEW h \in Host, Shutdown(h) PROVE TaskStages'
  BY <1>16 DEF Shutdown
<1>17. ASSUME NEW h \in Host, ShutdownEnds(h) PROVE TaskStages'
  BY <1>17 DEF ShutdownEnds, Exit
<1>18. ASSUME NEW h \in Host, Crash(h) PROVE TaskStages'
  BY <1>18 DEF Crash, Exit
<1>19. ASSUME NEW h \in Host, ClaimThrows(h) PROVE TaskStages'
  BY <1>19 DEF ClaimThrows, ClaimLost
<1>20. ASSUME NEW h \in Host, PrepareFails(h) PROVE TaskStages'
  BY <1>20 DEF PrepareFails
<1>21. ASSUME NEW h \in Host, StartFails(h) PROVE TaskStages'
  BY <1>21 DEF StartFails
<1>22. ASSUME NEW h \in Host, EnsureFails(h) PROVE TaskStages'
  BY <1>22 DEF EnsureFails
<1>23. ASSUME NEW h \in Host, killContainer(h) PROVE TaskStages'
  BY <1>23 DEF killContainer, finish
<1> QED
  BY <1>1, <1>2, <1>3, <1>4, <1>5, <1>6, <1>7, <1>8, <1>9, <1>10, <1>11,
     <1>12, <1>13, <1>14, <1>15, <1>16, <1>17, <1>18, <1>19, <1>20, <1>21,
     <1>22, <1>23 DEF Next, ClaimSteps


\* What a step does to the row: a compare-and-set that won, a release, or nothing.
LEMMA RowSteps ==
  ASSUME [Next]_vars
  PROVE  \/ claim' = claim
         \/ \E p \in Host : CasWins(p)
         \/ \E p \in Host : ReleaseClaim(p)
BY DEF Next, vars, ContainerExits, ClaimSteps, tables,
     adoptRunningSessions, wakeContainer, ReadClaim, CheckHolder,
     ClaimLost, CasLoses, Prepare, Start, EnsureGateway, Undo, Finish,
     finish, startHostInstanceLease, LeaseExpires, renewLease,
     Shutdown, stopHostInstanceLease, ShutdownEnds, Exit, Crash,
     ClaimThrows, PrepareFails, StartFails, EnsureFails, killContainer

\* What a step does to a read under way: it is the read itself, or leaves what
\* was read, and past the check only a claim whose holder is not live.
KeepsRead(p) ==
    /\ Reading(p) /\ seen'[p] = seen[p]
    /\ process'[p] # "closing" => process[p] # "closing"
    /\ at'[p] = "cas" =>
          at[p] = "cas" \/ (~LiveHolder(seen[p].current.by) /\ lease' = lease)

LEMMA ReadSteps ==
  ASSUME TypeOK, TaskStages, [Next]_vars, NEW p \in Host, Reading(p)'
  PROVE  ReadClaim(p) \/ KeepsRead(p)
<1> USE DEF tables, task, runtime, Goto, TypeOK, TaskStages, Working, Reading, KeepsRead
<1>1. CASE UNCHANGED vars \/ ContainerExits
  BY <1>1 DEF vars, ContainerExits
<1>2. ASSUME NEW h \in Host,
             startHostInstanceLease(h) \/ LeaseExpires(h) \/
             renewLease(h) \/ stopHostInstanceLease(h)
      PROVE  ReadClaim(p) \/ KeepsRead(p)
  BY <1>2 DEF startHostInstanceLease, LeaseExpires, renewLease,
     stopHostInstanceLease
<1>3. ASSUME NEW h \in Host, ReadClaim(h) PROVE ReadClaim(p) \/ KeepsRead(p)
  BY <1>3 DEF ReadClaim
<1>4. ASSUME NEW h \in Host, CheckHolder(h) PROVE ReadClaim(p) \/ KeepsRead(p)
  BY <1>4 DEF CheckHolder, ClaimLost
<1>5. ASSUME NEW h \in Host, CasWins(h) PROVE ReadClaim(p) \/ KeepsRead(p)
  BY <1>5 DEF CasWins, tryClaimSession
<1>6. ASSUME NEW h \in Host, CasLoses(h) PROVE ReadClaim(p) \/ KeepsRead(p)
  BY <1>6 DEF CasLoses, ClaimLost
<1>7. ASSUME NEW h \in Host, ClaimThrows(h) PROVE ReadClaim(p) \/ KeepsRead(p)
  BY <1>7 DEF ClaimThrows, ClaimLost
<1>8. ASSUME NEW h \in Host, ShutdownEnds(h) PROVE ReadClaim(p) \/ KeepsRead(p)
  BY <1>8 DEF ShutdownEnds, Exit
<1>9. ASSUME NEW h \in Host, Crash(h) PROVE ReadClaim(p) \/ KeepsRead(p)
  BY <1>9 DEF Crash, Exit
<1>10. ASSUME NEW h \in Host, Undo(h) PROVE ReadClaim(p) \/ KeepsRead(p)
  BY <1>10 DEF Undo
<1>11. ASSUME NEW h \in Host, EnsureGateway(h) PROVE ReadClaim(p) \/ KeepsRead(p)
  BY <1>11 DEF EnsureGateway
<1>12. ASSUME NEW h \in Host, adoptRunningSessions(h) PROVE ReadClaim(p) \/ KeepsRead(p)
  BY <1>12 DEF adoptRunningSessions
<1>13. ASSUME NEW h \in Host, Shutdown(h) PROVE ReadClaim(p) \/ KeepsRead(p)
  BY <1>13 DEF Shutdown
<1>14. ASSUME NEW h \in Host, wakeContainer(h) PROVE ReadClaim(p) \/ KeepsRead(p)
  BY <1>14 DEF wakeContainer
<1>15. ASSUME NEW h \in Host, Prepare(h) PROVE ReadClaim(p) \/ KeepsRead(p)
  BY <1>15 DEF Prepare
<1>16. ASSUME NEW h \in Host, Start(h) PROVE ReadClaim(p) \/ KeepsRead(p)
  BY <1>16 DEF Start
<1>17. ASSUME NEW h \in Host, ReleaseClaim(h) PROVE ReadClaim(p) \/ KeepsRead(p)
  BY <1>17 DEF ReleaseClaim, releaseSessionClaim
<1>18. ASSUME NEW h \in Host, Finish(h) PROVE ReadClaim(p) \/ KeepsRead(p)
  BY <1>18 DEF Finish, finish
<1>19. ASSUME NEW h \in Host, PrepareFails(h) PROVE ReadClaim(p) \/ KeepsRead(p)
  BY <1>19 DEF PrepareFails
<1>20. ASSUME NEW h \in Host, StartFails(h) PROVE ReadClaim(p) \/ KeepsRead(p)
  BY <1>20 DEF StartFails
<1>21. ASSUME NEW h \in Host, EnsureFails(h) PROVE ReadClaim(p) \/ KeepsRead(p)
  BY <1>21 DEF EnsureFails
<1>22. ASSUME NEW h \in Host, killContainer(h) PROVE ReadClaim(p) \/ KeepsRead(p)
  BY <1>22 DEF killContainer, finish
<1> QED
  BY <1>1, <1>2, <1>3, <1>4, <1>5, <1>6, <1>7, <1>8, <1>9, <1>10, <1>11,
     <1>12, <1>13, <1>14, <1>15, <1>16, <1>17, <1>18, <1>19, <1>20, <1>21,
     <1>22 DEF Next, ClaimSteps


\* What a step does to a life: no process becomes new, no lapse is forgotten,
\* and a lease that never lapsed is live from the start on.
KeepsLife(p) ==
    /\ process'[p] = "new" => process[p] = "new"
    /\ p \notin lapsed' => p \notin lapsed
    /\ lease'[p] = "live" /\ p \notin lapsed' =>
          lease[p] = "live" \/ process[p] = "new"

LEMMA LifeSteps ==
  ASSUME TypeOK, LeasesTell, [Next]_vars, NEW p \in Host
  PROVE  KeepsLife(p)
<1> USE DEF tables, task, runtime, Goto, TypeOK, LeasesTell, Working, KeepsLife
<1>1. CASE UNCHANGED vars \/ ContainerExits
  BY <1>1 DEF vars, ContainerExits
<1>2. ASSUME NEW h \in Host,
             wakeContainer(h) \/ ReadClaim(h) \/ CasWins(h) \/ Prepare(h)
             \/ Start(h) \/ ReleaseClaim(h) \/ Finish(h) \/
             PrepareFails(h) \/ StartFails(h) \/ EnsureFails(h) \/
             killContainer(h)
      PROVE  KeepsLife(p)
  BY <1>2 DEF wakeContainer, ReadClaim, CasWins, tryClaimSession, Prepare,
     Start, ReleaseClaim, releaseSessionClaim, Finish, finish,
     PrepareFails, StartFails, EnsureFails, killContainer
<1>3. ASSUME NEW h \in Host, CheckHolder(h) PROVE KeepsLife(p)
  BY <1>3 DEF CheckHolder, ClaimLost
<1>4. ASSUME NEW h \in Host, CasLoses(h) PROVE KeepsLife(p)
  BY <1>4 DEF CasLoses, ClaimLost
<1>5. ASSUME NEW h \in Host, ClaimThrows(h) PROVE KeepsLife(p)
  BY <1>5 DEF ClaimThrows, ClaimLost
<1>6. ASSUME NEW h \in Host, ShutdownEnds(h) PROVE KeepsLife(p)
  BY <1>6 DEF ShutdownEnds, Exit
<1>7. ASSUME NEW h \in Host, Crash(h) PROVE KeepsLife(p)
  BY <1>7 DEF Crash, Exit
<1>8. ASSUME NEW h \in Host, Undo(h) PROVE KeepsLife(p)
  BY <1>8 DEF Undo
<1>9. ASSUME NEW h \in Host, EnsureGateway(h) PROVE KeepsLife(p)
  BY <1>9 DEF EnsureGateway
<1>10. ASSUME NEW h \in Host, adoptRunningSessions(h) PROVE KeepsLife(p)
  BY <1>10 DEF adoptRunningSessions
<1>11. ASSUME NEW h \in Host, Shutdown(h) PROVE KeepsLife(p)
  BY <1>11 DEF Shutdown
<1>12. ASSUME NEW h \in Host, startHostInstanceLease(h) PROVE KeepsLife(p)
  BY <1>12 DEF startHostInstanceLease
<1>13. ASSUME NEW h \in Host, LeaseExpires(h) PROVE KeepsLife(p)
  BY <1>13 DEF LeaseExpires
<1>14. ASSUME NEW h \in Host, renewLease(h) PROVE KeepsLife(p)
  BY <1>14 DEF renewLease
<1>15. ASSUME NEW h \in Host, stopHostInstanceLease(h) PROVE KeepsLife(p)
  BY <1>15 DEF stopHostInstanceLease
<1> QED
  BY <1>1, <1>2, <1>3, <1>4, <1>5, <1>6, <1>7, <1>8, <1>9, <1>10, <1>11,
     <1>12, <1>13, <1>14, <1>15 DEF Next, ClaimSteps


\* What a step does to a claim that is held: it is the claiming itself, or
\* leaves the host what it has.
Holds(p) == process[p] \in {"starting", "up"} /\ mine[p] # 0 /\ at[p] # "undo"

LEMMA HolderSteps ==
  ASSUME TypeOK, TaskStages, [Next]_vars, NEW p \in Host, Holds(p)'
  PROVE  CasWins(p) \/ (Holds(p) /\ mine'[p] = mine[p])
<1> USE DEF tables, task, runtime, Goto, TypeOK, TaskStages, Working, Holds
<1>1. CASE UNCHANGED vars \/ ContainerExits
  BY <1>1 DEF vars, ContainerExits
<1>2. ASSUME NEW h \in Host,
             wakeContainer(h) \/ ReadClaim(h) \/ Prepare(h) \/
             LeaseExpires(h) \/ renewLease(h) \/ stopHostInstanceLease(h)
      PROVE  CasWins(p) \/ (Holds(p) /\ mine'[p] = mine[p])
  BY <1>2 DEF wakeContainer, ReadClaim, Prepare, LeaseExpires, renewLease,
     stopHostInstanceLease
<1>3. ASSUME NEW h \in Host, CheckHolder(h) PROVE CasWins(p) \/ (Holds(p) /\ mine'[p] = mine[p])
  BY <1>3 DEF CheckHolder, ClaimLost
<1>4. ASSUME NEW h \in Host, CasWins(h) PROVE CasWins(p) \/ (Holds(p) /\ mine'[p] = mine[p])
  BY <1>4 DEF CasWins, tryClaimSession
<1>5. ASSUME NEW h \in Host, CasLoses(h) PROVE CasWins(p) \/ (Holds(p) /\ mine'[p] = mine[p])
  BY <1>5 DEF CasLoses, ClaimLost
<1>6. ASSUME NEW h \in Host, ClaimThrows(h) PROVE CasWins(p) \/ (Holds(p) /\ mine'[p] = mine[p])
  BY <1>6 DEF ClaimThrows, ClaimLost
<1>7. ASSUME NEW h \in Host, ShutdownEnds(h) PROVE CasWins(p) \/ (Holds(p) /\ mine'[p] = mine[p])
  BY <1>7 DEF ShutdownEnds, Exit
<1>8. ASSUME NEW h \in Host, Crash(h) PROVE CasWins(p) \/ (Holds(p) /\ mine'[p] = mine[p])
  BY <1>8 DEF Crash, Exit
<1>9. ASSUME NEW h \in Host, Undo(h) PROVE CasWins(p) \/ (Holds(p) /\ mine'[p] = mine[p])
  BY <1>9 DEF Undo
<1>10. ASSUME NEW h \in Host, Start(h) PROVE CasWins(p) \/ (Holds(p) /\ mine'[p] = mine[p])
  BY <1>10 DEF Start
<1>11. ASSUME NEW h \in Host, EnsureGateway(h) PROVE CasWins(p) \/ (Holds(p) /\ mine'[p] = mine[p])
  BY <1>11 DEF EnsureGateway
<1>12. ASSUME NEW h \in Host, adoptRunningSessions(h) PROVE CasWins(p) \/ (Holds(p) /\ mine'[p] = mine[p])
  BY <1>12 DEF adoptRunningSessions
<1>13. ASSUME NEW h \in Host, Shutdown(h) PROVE CasWins(p) \/ (Holds(p) /\ mine'[p] = mine[p])
  BY <1>13 DEF Shutdown
<1>14. ASSUME NEW h \in Host, startHostInstanceLease(h) PROVE CasWins(p) \/ (Holds(p) /\ mine'[p] = mine[p])
  BY <1>14 DEF startHostInstanceLease
<1>15. ASSUME NEW h \in Host, ReleaseClaim(h) PROVE CasWins(p) \/ (Holds(p) /\ mine'[p] = mine[p])
  BY <1>15 DEF ReleaseClaim, releaseSessionClaim
<1>16. ASSUME NEW h \in Host, PrepareFails(h) PROVE CasWins(p) \/ (Holds(p) /\ mine'[p] = mine[p])
  BY <1>16 DEF PrepareFails
<1>17. ASSUME NEW h \in Host, StartFails(h) PROVE CasWins(p) \/ (Holds(p) /\ mine'[p] = mine[p])
  BY <1>17 DEF StartFails
<1>18. ASSUME NEW h \in Host, EnsureFails(h) PROVE CasWins(p) \/ (Holds(p) /\ mine'[p] = mine[p])
  BY <1>18 DEF EnsureFails
<1>19. ASSUME NEW h \in Host, Finish(h) PROVE CasWins(p) \/ (Holds(p) /\ mine'[p] = mine[p])
  BY <1>19 DEF Finish, finish
<1>20. ASSUME NEW h \in Host, killContainer(h) PROVE CasWins(p) \/ (Holds(p) /\ mine'[p] = mine[p])
  BY <1>20 DEF killContainer, finish
<1> QED
  BY <1>1, <1>2, <1>3, <1>4, <1>5, <1>6, <1>7, <1>8, <1>9, <1>10, <1>11,
     <1>12, <1>13, <1>14, <1>15, <1>16, <1>17, <1>18, <1>19, <1>20 DEF Next, ClaimSteps

\* A host that is starting is named by no claim and by no read.
LEMMA StepNames ==
  ASSUME TypeOK, LeasesTell, TaskStages, SignsItself, NamesAreKnown, [Next]_vars
  PROVE  NamesAreKnown'
<1> SUFFICES ASSUME NEW h \in Host, process'[h] = "new"
             PROVE  /\ claim'.by \notin {LeaseId(h), PidId(h)}
                    /\ \A p \in Host : Reading(p)' =>
                          seen'[p].current.by \notin {LeaseId(h), PidId(h)}
  BY DEF NamesAreKnown, LeaseId, PidId
<1>1. process[h] = "new" /\ claim.by \notin {LeaseId(h), PidId(h)}
  BY LifeSteps DEF KeepsLife, NamesAreKnown
<1>2. claim'.by \notin {LeaseId(h), PidId(h)}
  <2>1. ASSUME NEW p \in Host, CasWins(p) PROVE claim'.by \notin {LeaseId(h), PidId(h)}
    <3>1. p # h
      BY <2>1, <1>1 DEF CasWins, Working
    <3>2. claim'.by \in {LeaseId(p), PidId(p)}
      BY <2>1 DEF CasWins, tryClaimSession, SignsItself, Reading
    <3> QED  BY <3>1, <3>2, Names
  <2>2. ASSUME NEW p \in Host, ReleaseClaim(p) PROVE claim'.by \notin {LeaseId(h), PidId(h)}
    <3>1. claim'.by \in {claim.by, None}
      BY <2>2 DEF ReleaseClaim, releaseSessionClaim, TypeOK, Claim
    <3> QED  BY <3>1, <1>1, Names
  <2> QED  BY <2>1, <2>2, <1>1, RowSteps
<1>3. ASSUME NEW p \in Host, Reading(p)'
      PROVE  seen'[p].current.by \notin {LeaseId(h), PidId(h)}
  <2>1. CASE ReadClaim(p)
    <3>1. seen'[p].current = claim
      BY <2>1 DEF ReadClaim, TypeOK
    <3> QED  BY <3>1, <1>1
  <2>2. CASE KeepsRead(p)
    BY <2>2, <1>1 DEF KeepsRead, NamesAreKnown
  <2> QED  BY <2>1, <2>2, <1>3, ReadSteps
<1> QED  BY <1>2, <1>3

\* Whatever is written meanwhile, a read is the row's, or older, or released.
LEMMA StepReads ==
  ASSUME TypeOK, TaskStages, ReadsAge, [Next]_vars
  PROVE  ReadsAge'
<1> SUFFICES ASSUME NEW p \in Host, Reading(p)'
             PROVE  /\ seen'[p].current.incarnation <= claim'.incarnation
                    /\ seen'[p].current.incarnation = claim'.incarnation =>
                          claim'.by \in {seen'[p].current.by, None}
  BY DEF ReadsAge
<1>1. CASE ReadClaim(p)
  <2>1. seen'[p].current = claim /\ claim' = claim /\ claim.incarnation \in Nat
    BY <1>1 DEF ReadClaim, tables, TypeOK, Claim
  <2> QED  BY <2>1
<1>2. CASE KeepsRead(p)
  <2>1. /\ seen'[p] = seen[p] /\ seen[p].current.incarnation <= claim.incarnation
        /\ seen[p].current.incarnation = claim.incarnation =>
              claim.by \in {seen[p].current.by, None}
        /\ seen[p].current.incarnation \in Nat /\ claim.incarnation \in Nat
    BY <1>2 DEF KeepsRead, ReadsAge, TypeOK, Claim
  <2>2. ASSUME NEW q \in Host, CasWins(q) PROVE claim'.incarnation = claim.incarnation + 1
    BY <2>2 DEF CasWins, tryClaimSession
  <2>3. ASSUME NEW q \in Host, ReleaseClaim(q)
        PROVE  claim' = claim \/ (claim'.by = None /\ claim'.incarnation = claim.incarnation)
    BY <2>3 DEF ReleaseClaim, releaseSessionClaim, TypeOK, Claim
  <2>4. CASE claim' = claim
    BY <2>1, <2>4
  <2>5. CASE \E q \in Host : CasWins(q)
    BY <2>1, <2>2, <2>5
  <2>6. CASE \E q \in Host : ReleaseClaim(q)
    BY <2>1, <2>3, <2>6
  <2> QED  BY <2>4, <2>5, <2>6, RowSteps
<1> QED  BY <1>1, <1>2, ReadSteps

\* A reader signs with the name it has when it reads.
LEMMA StepSigns ==
  ASSUME TypeOK, TaskStages, SignsItself, [Next]_vars
  PROVE  SignsItself'
<1> SUFFICES ASSUME NEW p \in Host, Reading(p)'
             PROVE  /\ seen'[p].self \in {LeaseId(p), PidId(p)}
                    /\ process'[p] # "closing" => seen'[p].self = LeaseId(p)
  BY DEF SignsItself, LeaseId, PidId
<1>1. CASE ReadClaim(p)
  <2>1. seen'[p].self = claimantId(p) /\ process' = process
    BY <1>1 DEF ReadClaim, TypeOK
  <2> QED  BY <2>1, Names
<1>2. CASE KeepsRead(p)
  BY <1>2 DEF KeepsRead, SignsItself
<1> QED  BY <1>1, <1>2, ReadSteps

\* Past the check there is only a reader's own claim, or a dead host's.
LEMMA StepChecked ==
  ASSUME TypeOK, LeasesTell, TaskStages, NamesAreKnown, PassedTheCheck, [Next]_vars
  PROVE  PassedTheCheck'
<1> SUFFICES ASSUME NEW p \in Host, NEW h \in Host,
                    at'[p] = "cas", seen'[p].current.by = LeaseId(h),
                    lease'[h] = "live", h \notin lapsed'
             PROVE  seen'[p].self = LeaseId(h)
  BY DEF PassedTheCheck, LeaseId
<1>1. h \notin lapsed /\ (lease[h] = "live" \/ process[h] = "new")
  BY LifeSteps DEF KeepsLife
<1>2. CASE ReadClaim(p)
  <2>1. /\ seen'[p].current = claim /\ seen'[p].self = claimantId(p)
        /\ claim.by \in {None, claimantId(p)}
    BY <1>2 DEF ReadClaim, Goto, TypeOK
  <2> QED  BY <2>1, Names
<1>3. CASE KeepsRead(p)
  <2>1. Reading(p) /\ seen'[p] = seen[p] /\ seen[p].current.by = LeaseId(h)
    BY <1>3 DEF KeepsRead
  <2>2. lease[h] = "live"
    BY <2>1, <1>1 DEF NamesAreKnown
  <2>3. at[p] = "cas"
    BY <2>1, <2>2, <1>3, Names DEF KeepsRead
  <2> QED  BY <2>1, <2>2, <2>3, <1>1 DEF PassedTheCheck
<1>4. Reading(p)'
  BY DEF Reading
<1> QED  BY <1>2, <1>3, <1>4, ReadSteps

\* Nobody else writes over the claim of a live host: a compare-and-set that
\* read it passed the check only as the host's own.
LEMMA OthersLeaveIt ==
  ASSUME TypeOK, LeasesTell, TaskStages, ReadsAge, SignsItself, PassedTheCheck,
         [Next]_vars, NEW h \in Host, h \notin lapsed, lease[h] = "live",
         claim.by = LeaseId(h)
  PROVE  claim' = claim \/ CasWins(h) \/ ReleaseClaim(h)
<1>1. ASSUME NEW p \in Host, CasWins(p) PROVE p = h
  <2>1. Reading(p) /\ at[p] = "cas" /\ seen[p].current.incarnation = claim.incarnation
    BY <1>1 DEF CasWins, tryClaimSession, Reading
  <2>2. seen[p].current.by = LeaseId(h)
    BY <2>1, Names DEF ReadsAge
  <2>3. seen[p].self = LeaseId(h)
    BY <2>1, <2>2 DEF PassedTheCheck
  <2> QED  BY <2>1, <2>3, Names DEF SignsItself
<1>2. ASSUME NEW p \in Host, ReleaseClaim(p) PROVE p = h \/ claim' = claim
  <2>1. claim' = claim \/ claim.by = claimantId(p)
    BY <1>2 DEF ReleaseClaim, releaseSessionClaim
  <2> QED  BY <2>1, Names
<1> QED  BY <1>1, <1>2, RowSteps

\* A host that renews in time keeps the row from its claim to its release.
LEMMA StepRunners ==
  ASSUME LiveInv, [Next]_vars
  PROVE  RunnersClaim'
<1> USE DEF LiveInv
<1> SUFFICES ASSUME NEW h \in Host, h \notin lapsed', Holds(h)'
             PROVE  claim'.by = LeaseId(h) /\ claim'.incarnation = mine'[h]
  BY DEF RunnersClaim, Holds, LeaseId
<1>1. CASE CasWins(h)
  <2>1. Reading(h) /\ process[h] # "closing"
    BY <1>1 DEF CasWins, Reading, Holds
  <2>2. seen[h].self = LeaseId(h)
    BY <2>1 DEF SignsItself
  <2> QED  BY <1>1, <2>2 DEF CasWins, tryClaimSession, TypeOK
<1>2. CASE Holds(h) /\ mine'[h] = mine[h] /\ ~CasWins(h)
  <2>1. h \notin lapsed /\ lease[h] = "live"
    BY <1>2, LifeSteps DEF KeepsLife, Holds, LeasesTell
  <2>2. claim.by = LeaseId(h) /\ claim.incarnation = mine[h]
    BY <1>2, <2>1 DEF RunnersClaim, Holds
  <2>3. ~ReleaseClaim(h)
    BY DEF ReleaseClaim, Goto, Holds, TypeOK
  <2>4. claim' = claim
    BY <1>2, <2>1, <2>2, <2>3, OthersLeaveIt
  <2> QED  BY <1>2, <2>2, <2>4
<1> QED  BY <1>1, <1>2, HolderSteps

\* The claims of live hosts are inductive.
LEMMA InitLive == Init => LiveInv
<1> SUFFICES ASSUME Init PROVE LiveInv
  OBVIOUS
<1>1. TypeOK /\ LeasesTell /\ TaskStages /\ ReadsAge /\ SignsItself /\ PassedTheCheck
  BY InitType DEF Init, LeasesTell, TaskStages, ReadsAge, SignsItself, PassedTheCheck,
     Reading, Working
<1>2. NamesAreKnown /\ RunnersClaim
  BY Names DEF Init, NamesAreKnown, RunnersClaim, Reading
<1> QED  BY <1>1, <1>2 DEF LiveInv

LEMMA StepLive == LiveInv /\ [Next]_vars => LiveInv'
BY StepType, StepLeases, StepStages, StepNames, StepReads, StepSigns, StepChecked,
   StepRunners DEF LiveInv

LEMMA LiveInvariant == Spec => []LiveInv
BY InitLive, StepLive, PTL DEF Spec

\* Two live hosts that renewed in time never both supervise the session.
LEMMA LiveHostsApart == LiveInv => OneLiveSupervisor
<1> SUFFICES ASSUME LiveInv, NEW h \in Host \ lapsed, NEW p \in Host \ ({h} \cup lapsed),
                    Live(h), Live(p), Supervises(h), Supervises(p)
             PROVE  FALSE
  BY DEF OneLiveSupervisor
<1>1. claim.by = LeaseId(h)
  BY DEF LiveInv, TaskStages, RunnersClaim, Live, Supervises
<1>2. claim.by = LeaseId(p)
  BY DEF LiveInv, TaskStages, RunnersClaim, Live, Supervises
<1> QED  BY <1>1, <1>2, Names

\* And a live host's claim goes only by its own release.
LEMMA LiveClaimStays ==
  ASSUME LiveInv, [Next]_vars, NEW h \in Host \ lapsed,
         claim.by = <<h, "lease">>, LiveHolder(claim.by), claim'.by # claim.by
  PROVE  at[h] = "release" /\ claim'.by = None
<1> USE DEF LiveInv
<1>1. claim.by = LeaseId(h) /\ lease[h] = "live"
  BY Names DEF LeaseId
<1>2. CASE CasWins(h)
  <2>1. /\ Reading(h) /\ at[h] = "cas" /\ claim'.by = seen[h].self
        /\ seen[h].current.incarnation = claim.incarnation
    BY <1>2 DEF CasWins, tryClaimSession, Reading
  <2>2. seen[h].current.by = LeaseId(h)
    BY <2>1, <1>1, Names DEF ReadsAge
  <2> QED  BY <2>1, <2>2, <1>1 DEF PassedTheCheck, LeaseId
<1>3. CASE ReleaseClaim(h)
  BY <1>3 DEF ReleaseClaim, releaseSessionClaim, TypeOK, Claim
<1> QED  BY <1>1, <1>2, <1>3, OthersLeaveIt

\* However many hosts overlap, crash and take over, those that renew their
\* leases in time neither share the session nor take it from one another
\* (claimSessionRun: the claim, the holder's lease, the compare-and-set).
THEOREM SupervisionStays == Spec => SupervisionNeverTraded
<1>1. LiveInv /\ [Next]_vars =>
        [\A h \in Host \ lapsed :
          claim.by = <<h, "lease">> /\ LiveHolder(claim.by) /\ claim'.by # claim.by =>
            at[h] = "release" /\ claim'.by = None]_vars
  BY LiveClaimStays
<1> QED
  BY LiveInvariant, LiveHostsApart, <1>1, PTL
  DEF Spec, SupervisionNeverTraded, LiveHolderKeepsClaim

=============================================================================
