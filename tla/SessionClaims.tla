---------------------------- MODULE SessionClaims ----------------------------
(***************************************************************************)
(* Which host process may run one session.  Each start of the host writes  *)
(* a lease row to host_instances and renews it (host-instance.ts); before  *)
(* a host starts or adopts the session's container it takes the session's  *)
(* row of session_claims by compare-and-set on its incarnation             *)
(* (db/coordination.ts, claimSessionRun of container-runner.ts).  Hosts    *)
(* that overlap - a successor after a crash, two hosts over one database - *)
(* meet only through these two tables and the one container, whose name is *)
(* derived from the session key.                                           *)
(*                                                                         *)
(* Every await of claimSessionRun is a boundary between two steps: the     *)
(* claim is read, then the holder's lease, then the row is written.  A     *)
(* Host is one life of a host process: a restart is another Host.  Time is *)
(* abstract: a lease nobody renews for 90 s expires.                       *)
(***************************************************************************)
EXTENDS Naturals, FiniteSets

CONSTANTS
    Host,            \* the lives of host processes (instance ids)
    None,            \* claimed_by IS NULL
    MaxFaults        \* bound on crashes, shutdowns, exits, failed calls; it
                     \* bounds the incarnations too, as a host claims again
                     \* only after a fault

ASSUME ClaimsAssumption ==
    /\ IsFiniteSet(Host) /\ None \notin Host \X {"lease", "pid"}
    /\ MaxFaults \in Nat

VARIABLES
    lease,      \* Host -> the row of host_instances
    process,    \* Host -> where the process is in its life
    claim,      \* the row of session_claims: who holds it, at which incarnation
    at,         \* Host -> the step its wake or adoption is at
    adopting,   \* Host -> the task is the startup adoption, not a wake
    seen,       \* Host -> the claim as it read it (current) and, with it, the
                \* claimant id it will write (self)
    mine,       \* Host -> the incarnation it claimed (claimIncarnation), 0: none
    tracked,    \* Host -> it has a runtime in activeContainers
    gateway,    \* Host -> its gateway lease for the session
    running,    \* the session's container is up
    lapsed,     \* history: hosts whose lease expired while they were running
    faults      \* how many faults have happened

tables  == <<lease, claim>>
task    == <<at, adopting, seen>>
runtime == <<mine, tracked, gateway>>
vars == <<tables, process, task, runtime, running, lapsed, faults>>

Claimant == Host \X {"lease", "pid"}
Claim == [by : Claimant \cup {None}, incarnation : Nat]
Unread == [current |-> [by |-> None, incarnation |-> 0], self |-> None]

(***************************************************************************)
(* claimantId: the lease's instance id while the lease is running, the     *)
(* hostname:pid fallback once stopHostInstanceLease has cleared it.        *)
(***************************************************************************)
claimantId(h) == <<h, IF process[h] = "closing" THEN "pid" ELSE "lease">>

(* A slip: only a stopped lease is dead; an expired one still counts. *)
LiveHolderUnexpiring(c) == c # None /\ c[2] = "lease" /\ lease[c[1]] # "stopped"

(* getLiveHostInstance: only a lease id can have a row, which must be neither
   stopped nor expired. *)
LiveHolder(c) == c # None /\ c[2] = "lease" /\ lease[c[1]] = "live"

Working(h) == process[h] \in {"starting", "up", "closing"}

TypeOK ==
    /\ lease \in [Host -> {"none", "live", "expired", "stopped"}]
    /\ process \in [Host -> {"new", "starting", "up", "closing", "gone"}]
    /\ claim \in Claim
    /\ at \in [Host -> {"idle", "read", "check", "cas", "prepare", "start",
                        "ensure", "release", "undo"}]
    /\ adopting \in [Host -> BOOLEAN]
    /\ seen \in [Host -> [current : Claim, self : Claimant \cup {None}]]
    /\ mine \in [Host -> Nat]
    /\ tracked \in [Host -> BOOLEAN]
    /\ gateway \in [Host -> {"none", "held", "ended"}]
    /\ running \in BOOLEAN
    /\ lapsed \subseteq Host
    /\ faults \in 0..MaxFaults

Init ==
    /\ lease = [h \in Host |-> "none"]
    /\ process = [h \in Host |-> "new"]
    /\ claim = [by |-> None, incarnation |-> 0]
    /\ at = [h \in Host |-> "idle"]
    /\ adopting = [h \in Host |-> FALSE]
    /\ seen = [h \in Host |-> Unread]
    /\ mine = [h \in Host |-> 0]
    /\ tracked = [h \in Host |-> FALSE]
    /\ gateway = [h \in Host |-> "none"]
    /\ running = FALSE
    /\ lapsed = {}
    /\ faults = 0

Fault == faults < MaxFaults /\ faults' = faults + 1

Goto(h, step) == at' = [at EXCEPT ![h] = step]

-----------------------------------------------------------------------------
(* The lease: startHostInstanceLease, renewLease, stopHostInstanceLease.    *)

startHostInstanceLease(h) ==
    /\ process[h] = "new"
    /\ process' = [process EXCEPT ![h] = "starting"]
    /\ lease' = [lease EXCEPT ![h] = "live"]
    /\ UNCHANGED <<claim, task, runtime, running, faults, lapsed>>

(* 90 s without a renewal.  A host that is up can only fall behind when its
   process or its database stalls. *)
LeaseExpires(h) ==
    /\ lease[h] = "live"
    /\ lease' = [lease EXCEPT ![h] = "expired"]
    /\ lapsed' = IF process[h] = "gone" THEN lapsed ELSE lapsed \cup {h}
    /\ UNCHANGED <<claim, process, task, runtime, running, faults>>

(* The renewal updates any row that is not stopped, an expired one too. *)
renewLease(h) ==
    /\ process[h] \in {"starting", "up"} /\ lease[h] = "expired"
    /\ lease' = [lease EXCEPT ![h] = "live"]
    /\ UNCHANGED <<claim, process, task, runtime, running, faults, lapsed>>

(* shutdown: detach the gateway leases of the tracked sessions, then forget
   the instance id.  Containers keep running, and so do wakes in flight. *)
Shutdown(h) ==
    /\ process[h] = "up" /\ Fault
    /\ process' = [process EXCEPT ![h] = "closing"]
    /\ gateway' = [gateway EXCEPT ![h] = IF tracked[h] THEN "none" ELSE @]
    /\ UNCHANGED <<tables, task, mine, tracked, running, lapsed>>

stopHostInstanceLease(h) ==
    /\ process[h] = "closing" /\ lease[h] # "stopped"
    /\ lease' = [lease EXCEPT ![h] = "stopped"]
    /\ UNCHANGED <<claim, process, task, runtime, running, faults, lapsed>>

(* The process ends: by process.exit after a shutdown, or by a crash.  Its
   memory is lost, its rows and the container stay. *)
Exit(h) ==
    /\ process' = [process EXCEPT ![h] = "gone"]
    /\ Goto(h, "idle")
    /\ mine' = [mine EXCEPT ![h] = 0]
    /\ tracked' = [tracked EXCEPT ![h] = FALSE]
    /\ gateway' = [gateway EXCEPT ![h] = "none"]
    /\ seen' = [seen EXCEPT ![h] = Unread]
    /\ UNCHANGED <<tables, adopting, running, lapsed>>

(* A stamp that fails is logged, and the shutdown goes on without it: the
   lease of a host that is gone runs out. *)
ShutdownEnds(h) ==
    /\ process[h] = "closing" /\ Exit(h)
    /\ IF lease[h] = "stopped" THEN UNCHANGED faults ELSE Fault
Crash(h) == process[h] \in {"starting", "up"} /\ Fault /\ Exit(h)

-----------------------------------------------------------------------------
(* adoptRunningSessions lists the containers once, at startup; a session    *)
(* that is not running leaves nothing to adopt.                             *)
adoptRunningSessions(h) ==
    /\ process[h] = "starting" /\ at[h] = "idle"
    /\ IF running
       THEN /\ Goto(h, "read") /\ adopting' = [adopting EXCEPT ![h] = TRUE]
            /\ UNCHANGED process
       ELSE /\ process' = [process EXCEPT ![h] = "up"] /\ UNCHANGED <<at, adopting>>
    /\ UNCHANGED <<tables, seen, runtime, running, faults, lapsed>>

(* wakeContainer: not for a session that is tracked or being woken.
   spawnContainer takes the gateway lease before it claims. *)
wakeContainer(h) ==
    /\ process[h] \in {"up", "closing"} /\ at[h] = "idle" /\ ~tracked[h]
    /\ Goto(h, "read") /\ adopting' = [adopting EXCEPT ![h] = FALSE]
    /\ gateway' = [gateway EXCEPT ![h] = "held"]
    /\ UNCHANGED <<tables, process, seen, mine, tracked, running, faults, lapsed>>

(* A slip: the holder's lease is never asked about. *)
ReadClaimTrusting(h) ==
    /\ Working(h) /\ at[h] = "read"
    /\ seen' = [seen EXCEPT ![h] = [current |-> claim, self |-> claimantId(h)]]
    /\ Goto(h, "cas")
    /\ UNCHANGED <<tables, process, adopting, runtime, running, faults, lapsed>>

(* claimSessionRun, first await: the claim.  Another claimant's id sends it on
   to look at that holder's lease. *)
ReadClaim(h) ==
    /\ Working(h) /\ at[h] = "read"
    /\ seen' = [seen EXCEPT ![h] = [current |-> claim, self |-> claimantId(h)]]
    /\ Goto(h, IF claim.by \in {None, claimantId(h)} THEN "cas" ELSE "check")
    /\ UNCHANGED <<tables, process, adopting, runtime, running, faults, lapsed>>

(* A claim that is not had: a wake undoes what it did so far, the adoption
   leaves the container as it found it ('left-untracked'). *)
ClaimLost(h) ==
    /\ seen' = [seen EXCEPT ![h] = Unread]
    /\ IF adopting[h]
       THEN /\ Goto(h, "idle") /\ process' = [process EXCEPT ![h] = "up"]
       ELSE /\ Goto(h, "undo") /\ UNCHANGED process

(* Second await: the lease of the holder that was read. *)
CheckHolder(h) ==
    /\ Working(h) /\ at[h] = "check"
    /\ IF LiveHolder(seen[h].current.by)
       THEN ClaimLost(h)
       ELSE Goto(h, "cas") /\ UNCHANGED <<process, seen>>
    /\ UNCHANGED <<tables, adopting, runtime, running, faults, lapsed>>

(* A slip: the UPDATE forgets "AND incarnation = ?". *)
tryClaimSessionUnguarded(h) ==
    /\ claim' = [by |-> seen[h].self, incarnation |-> seen[h].current.incarnation + 1]
    /\ mine' = [mine EXCEPT ![h] = seen[h].current.incarnation + 1]

(* Third await: tryClaimSession, one INSERT or one UPDATE guarded by the
   incarnation that was read. *)
tryClaimSession(h) ==
    /\ claim.incarnation = seen[h].current.incarnation
    /\ claim' = [by |-> seen[h].self, incarnation |-> seen[h].current.incarnation + 1]
    /\ mine' = [mine EXCEPT ![h] = seen[h].current.incarnation + 1]

CasWins(h) ==
    /\ Working(h) /\ at[h] = "cas" /\ tryClaimSession(h)
    /\ Goto(h, IF adopting[h] THEN "ensure" ELSE "prepare")
    /\ seen' = [seen EXCEPT ![h] = Unread]
    /\ UNCHANGED <<lease, process, adopting, tracked, gateway, running, faults, lapsed>>

CasLoses(h) ==
    /\ Working(h) /\ at[h] = "cas"
    /\ claim.incarnation # seen[h].current.incarnation
    /\ ClaimLost(h)
    /\ UNCHANGED <<tables, adopting, runtime, running, faults, lapsed>>

(* The database refuses one of the three calls. *)
ClaimThrows(h) ==
    /\ Working(h) /\ at[h] \in {"read", "check", "cas"} /\ Fault
    /\ ClaimLost(h)
    /\ UNCHANGED <<tables, adopting, runtime, running, lapsed>>

-----------------------------------------------------------------------------
(* driver.prepare: the container's name is derived from the session key, so a
   container that is already up is found and attached to, not doubled.  The
   runtime is registered as soon as prepare returns. *)
Prepare(h) ==
    /\ Working(h) /\ at[h] = "prepare"
    /\ running' = TRUE
    /\ tracked' = [tracked EXCEPT ![h] = TRUE]
    /\ Goto(h, "start")
    /\ UNCHANGED <<tables, process, adopting, seen, mine, gateway, faults, lapsed>>

PrepareFails(h) ==
    /\ Working(h) /\ at[h] = "prepare" /\ Fault
    /\ Goto(h, "release")
    /\ UNCHANGED <<tables, process, adopting, seen, runtime, running, lapsed>>

(* armSessionLifecycle: attach to the container, then record it as running. *)
Start(h) ==
    /\ Working(h) /\ at[h] = "start"
    /\ Goto(h, "idle")
    /\ mine' = [mine EXCEPT ![h] = IF tracked[h] THEN @ ELSE 0]
    /\ UNCHANGED <<tables, process, adopting, seen, tracked, gateway, running, faults, lapsed>>

StartFails(h) ==
    /\ Working(h) /\ at[h] = "start" /\ Fault
    /\ Goto(h, "release")
    /\ UNCHANGED <<tables, process, adopting, seen, runtime, running, lapsed>>

(* The adoption takes its gateway lease after the claim and then registers the
   runtime; a gateway that refuses has the container stopped. *)
EnsureGateway(h) ==
    /\ Working(h) /\ at[h] = "ensure"
    /\ gateway' = [gateway EXCEPT ![h] = "held"]
    /\ tracked' = [tracked EXCEPT ![h] = TRUE]
    /\ process' = [process EXCEPT ![h] = "up"]
    /\ Goto(h, "idle")
    /\ UNCHANGED <<tables, adopting, seen, mine, running, faults, lapsed>>

EnsureFails(h) ==
    /\ Working(h) /\ at[h] = "ensure" /\ Fault
    /\ running' = FALSE
    /\ Goto(h, "release")
    /\ UNCHANGED <<tables, process, adopting, seen, runtime, lapsed>>

(* A slip: the release is not fenced. *)
releaseSessionClaimUnfenced(h) == claim' = [claim EXCEPT !.by = None]

(* releaseClaimQuietly: the UPDATE hits only a row still held by this claimant
   at this incarnation. *)
releaseSessionClaim(h) ==
    IF claim = [by |-> claimantId(h), incarnation |-> mine[h]]
    THEN claim' = [claim EXCEPT !.by = None]
    ELSE UNCHANGED claim

ReleaseClaim(h) ==
    /\ Working(h) /\ at[h] = "release" /\ releaseSessionClaim(h)
    /\ Goto(h, "undo")
    /\ UNCHANGED <<lease, process, adopting, seen, runtime, running, faults, lapsed>>

(* The rest of the failure paths: the gateway lease is released as
   'session-ended' and the runtime, if there is one, is dropped. *)
Undo(h) ==
    /\ Working(h) /\ at[h] = "undo"
    /\ gateway' = [gateway EXCEPT ![h] = IF @ = "held" THEN "ended" ELSE @]
    /\ tracked' = [tracked EXCEPT ![h] = FALSE]
    /\ mine' = [mine EXCEPT ![h] = 0]
    /\ process' = [process EXCEPT ![h] = IF @ = "starting" THEN "up" ELSE @]
    /\ Goto(h, "idle")
    /\ UNCHANGED <<tables, adopting, seen, running, faults, lapsed>>

-----------------------------------------------------------------------------
(* The end of a run.  finish keeps the claim: the next claim supersedes it. *)

ContainerExits ==
    /\ running /\ Fault /\ running' = FALSE
    /\ UNCHANGED <<tables, process, task, runtime, lapsed>>

(* A spawn that is still starting keeps the runtime it registered, and with it
   the incarnation it claimed. *)
finish(h) ==
    /\ tracked' = [tracked EXCEPT ![h] = FALSE]
    /\ mine' = [mine EXCEPT ![h] = IF at[h] = "idle" THEN 0 ELSE @]
    /\ gateway' = [gateway EXCEPT ![h] = IF @ = "held" THEN "ended" ELSE @]

(* The session-events hub confirms the end by reading the container's state. *)
Finish(h) ==
    /\ Working(h) /\ tracked[h] /\ ~running
    /\ finish(h)
    /\ UNCHANGED <<tables, process, task, running, faults, lapsed>>

(* killContainer stops the container by its name and finalizes in any case,
   also when the stop was refused and the container runs on. *)
killContainer(h) ==
    /\ Working(h) /\ tracked[h] /\ Fault
    /\ running' \in {running, FALSE}
    /\ finish(h)
    /\ UNCHANGED <<tables, process, task, lapsed>>

-----------------------------------------------------------------------------
ClaimSteps(h) ==
    \/ adoptRunningSessions(h) \/ wakeContainer(h) \/ ReadClaim(h) \/ CheckHolder(h)
    \/ CasWins(h) \/ CasLoses(h) \/ Prepare(h) \/ Start(h) \/ EnsureGateway(h)
    \/ ReleaseClaim(h) \/ Undo(h) \/ Finish(h)

Next ==
    \/ ContainerExits
    \/ \E h \in Host :
        \/ ClaimSteps(h)
        \/ startHostInstanceLease(h) \/ LeaseExpires(h) \/ renewLease(h)
        \/ Shutdown(h) \/ stopHostInstanceLease(h) \/ ShutdownEnds(h) \/ Crash(h)
        \/ ClaimThrows(h) \/ PrepareFails(h) \/ StartFails(h) \/ EnsureFails(h)
        \/ killContainer(h)

Spec == Init /\ [][Next]_vars

(***************************************************************************)
(* A host's own steps are promises that settle; host-sweep wakes a session *)
(* with due work every minute; a dead host's lease runs out.               *)
(***************************************************************************)
Fairness ==
    \A h \in Host :
        /\ WF_vars(ClaimSteps(h))
        /\ WF_vars(LeaseExpires(h) /\ process[h] = "gone")
        /\ WF_vars(stopHostInstanceLease(h)) /\ WF_vars(ShutdownEnds(h))
FairSpec == Spec /\ Fairness

-----------------------------------------------------------------------------
(* Properties. *)

(* The incarnation fences: no two hosts ever hold the same one, and none is
   ahead of the row (tryClaimSession's compare-and-set). *)
EachIncarnationHasOneHost ==
    \A h \in Host :
        /\ mine[h] <= claim.incarnation
        /\ \A p \in Host \ {h} : mine[h] # 0 => mine[h] # mine[p]

(* While a host runs the session under the newest incarnation, the row names
   it: neither a stale release nor a peer takes the name away, until the host
   itself has released it (releaseSessionClaim's WHERE clause). *)
NewestRunnerHoldsTheClaim ==
    \A h \in Host :
        mine[h] # 0 /\ mine[h] = claim.incarnation /\ at[h] # "undo" =>
            claim.by # None /\ claim.by[1] = h

Live(h) == process[h] \in {"starting", "up"} /\ lease[h] = "live"
Supervises(h) == tracked[h] /\ at[h] \notin {"release", "undo"}

(* Two hosts that have renewed in time and are still open never both supervise
   the session, whatever the leases of others did. *)
OneLiveSupervisor ==
    \A h \in Host \ lapsed : \A p \in Host \ ({h} \cup lapsed) :
        Live(h) /\ Live(p) => ~(Supervises(h) /\ Supervises(p))

(* A holder that has renewed in time keeps its claim until it releases it
   itself, whatever a peer read before its write (claimSessionRun). *)
LiveHolderKeepsClaim ==
    [][\A h \in Host \ lapsed :
        claim.by = <<h, "lease">> /\ LiveHolder(claim.by) /\ claim'.by # claim.by =>
            at[h] = "release" /\ claim'.by = None]_vars

(* Both: hosts that renew in time neither share a session nor take it from
   one another. *)
SupervisionNeverTraded == []OneLiveSupervisor /\ LiveHolderKeepsClaim

(* "a crashed claimant must never wedge a session" (container-runner.ts:169):
   if some host stays up, the session ends up supervised for good. *)
NoClaimWedges ==
    (\E h \in Host : <>[](process[h] = "up")) => <>[](\E h \in Host : tracked[h])

-----------------------------------------------------------------------------
(* What the source says and the code does not do. *)

(* container-runner.ts:166: "two live hosts must never trade a session back and
   forth" - live is what the lease says (getLiveHostInstance). *)
LiveHostsNeverShare ==
    \A h \in Host : \A p \in Host \ {h} :
        Live(h) /\ Live(p) => ~(Supervises(h) /\ Supervises(p))

(* container-runner.ts:703: a container is left unadopted because it is
   "genuinely owned by a live peer" - or the claim store was unreachable. *)
AdoptionYieldsOnlyToAPeer ==
    [][\A h \in Host :
        at[h] = "check" /\ adopting[h] /\ process[h] = "starting" /\ process'[h] = "up"
          /\ faults' = faults =>
            \E p \in Host \ {h} : Working(p)]_vars

(* iron-proxy.ts:425: 'session-ended' is for "true session termination": the
   container is down when a host reports the session's end to the gateway. *)
SessionEndedMeansEnded ==
    [][\A h \in Host : gateway[h] = "held" /\ gateway'[h] = "ended" => ~running']_vars

=============================================================================
