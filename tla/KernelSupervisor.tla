-------------------------- MODULE KernelSupervisor --------------------------
(***************************************************************************)
(* The TypeScript host keeps one `nanogo serve` process (the trust kernel) *)
(* alive: spawn, restart with backoff, give up, stop at shutdown.  The     *)
(* process is detached and outlives a host that does not stop it; kernels  *)
(* that do not belong to this host life exclude each other by a lock on    *)
(* the socket path.                                                        *)
(*                                                                         *)
(* spawnKernel runs without an await up to its child's start, so it is one *)
(* step; the exit of a child is noticed in a later step.                   *)
(***************************************************************************)
EXTENDS Naturals, FiniteSets

CONSTANTS
  Proc,         \* slots for kernel processes alive at one time (a bound)
  None,         \* no process
  Failed,       \* `child` after a spawn that did not start a process
  Stale,        \* a socket file nobody listens on
  MaxFailures,  \* MAX_CONSECUTIVE_FAILURES, the length of RESTART_BACKOFF_MS
  ByHand,       \* an operator may run `nanogo serve` beside the host
  MaxKernelFaults  \* bound on crashes, failed calls and kernels started by hand

ASSUME SupervisorAssumption ==
  /\ MaxFailures \in Nat \ {0}
  /\ MaxKernelFaults \in Nat /\ ByHand \in BOOLEAN
  /\ None \notin Proc /\ Failed \notin Proc /\ Stale \notin Proc
  /\ None # Failed /\ None # Stale

VARIABLES
  install,   \* "ok", "missing" (no binary, disabled, path too long for the
             \* host) or "toolong" (only the kernel finds the path too long)
  main,      \* the host's main(): "down", "booting" or "started"
  shut,      \* its shutdown(): "no", "stopping" the child, or "closing"
  child,     \* the ChildProcess the supervisor holds
  failures,  \* consecutiveFailures
  timer,     \* restartTimer is armed
  proc,      \* "none", "starting", "locked", "serving", or "exited" unnoticed
  termed,    \* processes that were sent SIGTERM
  lock,      \* the process holding the flock on the socket path
  socket,    \* the process whose listener is bound to the socket path
  kernelFaults

host       == <<main, shut, child, failures, timer>>
kernel     == <<proc, termed, lock, socket>>
kernelVars == <<install, host, kernel, kernelFaults>>

Live     == {p \in Proc : proc[p] \in {"starting", "locked", "serving"}}
Children == {child} \cap Proc
Strays   == Live \ Children

Up == main = "started" /\ shut = "no"

\* What a dial of KERNEL_SOCKET_PATH meets.
Reachable == socket \in Proc /\ proc[socket] = "serving"

KernelInit ==
  /\ install \in {"ok", "missing", "toolong"}
  /\ main = "down" /\ shut = "no" /\ child = None /\ failures = 0
  /\ timer = FALSE
  /\ proc = [p \in Proc |-> "none"] /\ termed = {}
  /\ lock = None /\ socket = None /\ kernelFaults = 0

KernelFault == kernelFaults < MaxKernelFaults /\ kernelFaults' = kernelFaults + 1

-----------------------------------------------------------------------------
(* Supervisor                                                              *)

scheduleRestart(f) ==
  /\ failures' = f
  /\ timer' = (shut = "no" /\ f < MaxFailures)

\* buildServeArgs throws, e.g. the egress network cannot be established
BuildArgsFails ==
  /\ KernelFault
  /\ scheduleRestart(failures + 1)
  /\ UNCHANGED <<child, kernel>>

\* mutant: the restart timer is an interval and fires again
SpawnsAgain ==
  /\ socket' = None
  /\ \E p \in Proc :
       /\ proc[p] = "none"
       /\ proc' = [proc EXCEPT ![p] = "starting"]
       /\ child' = p
  /\ UNCHANGED <<failures, timer, termed, lock, kernelFaults>>

\* the socket file is removed, whoever listens on it, then a child is started
Spawns ==
  /\ socket' = None
  /\ timer' = FALSE
  /\ \/ \E p \in Proc :
          /\ proc[p] = "none"
          /\ proc' = [proc EXCEPT ![p] = "starting"]
          /\ child' = p
          /\ UNCHANGED kernelFaults
     \/ KernelFault /\ child' = Failed /\ UNCHANGED proc
  /\ UNCHANGED <<failures, termed, lock>>

spawnKernel == Spawns \/ BuildArgsFails

onHostStart ==
  /\ main = "booting"
  /\ main' = "started"
  /\ IF install = "missing"
     THEN UNCHANGED <<child, failures, timer, kernel, kernelFaults>>
     ELSE spawnKernel
  /\ UNCHANGED <<install, shut>>

RestartTimerFires ==
  /\ main # "down" /\ timer
  /\ spawnKernel
  /\ UNCHANGED <<install, main, shut>>

\* proc.on('exit'); an uptime of a minute starts the count of failures anew
OnExit ==
  /\ main # "down" /\ child \in Proc /\ proc[child] = "exited"
  /\ proc' = [proc EXCEPT ![child] = "none"]
  /\ child' = None
  /\ IF shut # "no"
     THEN /\ shut' = "closing"
          /\ UNCHANGED <<failures, timer>>
     ELSE /\ IF install = "toolong" THEN UNCHANGED <<failures, timer>>
             ELSE \E f \in {1, failures + 1} : scheduleRestart(f)
          /\ UNCHANGED shut
  /\ UNCHANGED <<install, main, termed, lock, socket, kernelFaults>>

-----------------------------------------------------------------------------
(* Host                                                                    *)

HostBoots ==
  /\ main = "down"
  /\ main' = "booting" /\ shut' = "no"
  /\ child' = None /\ failures' = 0 /\ timer' = FALSE
  /\ UNCHANGED <<install, kernel, kernelFaults>>

\* SIGTERM of the host, in whatever part of its life; the supervisor's
\* callback is the first of stopHostModules
onHostShutdown ==
  /\ main # "down" /\ shut = "no"
  /\ timer' = FALSE
  /\ IF child \in Live
     THEN shut' = "stopping" /\ termed' = termed \cup {child}
     ELSE shut' = "closing" /\ UNCHANGED termed
  /\ UNCHANGED <<install, main, child, failures, proc, lock, socket, kernelFaults>>

HostGone ==
  /\ main' = "down" /\ shut' = "no" /\ child' = None /\ failures' = 0
  /\ timer' = FALSE
  /\ proc' = [p \in Proc |-> IF proc[p] = "exited" THEN "none" ELSE proc[p]]
  /\ UNCHANGED <<install, termed, lock, socket>>

\* the rest of shutdown() and process.exit, while main() may still be booting
HostExits == main # "down" /\ shut = "closing" /\ HostGone /\ UNCHANGED kernelFaults

\* a crash, or a startup step that throws (main().catch exits at once)
HostDies == main # "down" /\ KernelFault /\ HostGone

-----------------------------------------------------------------------------
(* The kernel processes                                                    *)

\* mutant: a lock file that a killed process leaves behind
ReleaseByHand(p) == lock' = lock

Release(p) == lock' = IF lock = p THEN None ELSE lock

KernelEnds(p) ==
  /\ proc' = [proc EXCEPT ![p] = IF p \in Children THEN "exited" ELSE "none"]
  /\ termed' = termed \ {p}

\* an exit without the deferred Close calls: the kernel of the OS drops the
\* flock, the socket file stays
Killed(p) ==
  /\ KernelEnds(p) /\ Release(p)
  /\ socket' = IF socket = p THEN Stale ELSE socket
  /\ UNCHANGED <<install, host>>

\* mutant: no exclusion between kernels
TakesAnyLock(p) ==
  /\ proc[p] = "starting" /\ install = "ok"
  /\ lock' = p
  /\ proc' = [proc EXCEPT ![p] = "locked"]
  /\ UNCHANGED <<install, host, termed, socket, kernelFaults>>

acquireServeLock(p) ==
  /\ proc[p] = "starting" /\ install = "ok" /\ lock = None
  /\ lock' = p
  /\ proc' = [proc EXCEPT ![p] = "locked"]
  /\ UNCHANGED <<install, host, termed, socket, kernelFaults>>

LockRefused(p) ==
  /\ proc[p] = "starting" /\ install = "ok" /\ lock # None
  /\ Killed(p) /\ UNCHANGED kernelFaults

\* ErrSocketPathTooLong, exit code 78
ConfigError(p) ==
  /\ proc[p] = "starting" /\ install = "toolong"
  /\ Killed(p) /\ UNCHANGED kernelFaults

\* os.Remove and net.Listen
Listen(p) ==
  /\ proc[p] = "locked"
  /\ proc' = [proc EXCEPT ![p] = "serving"]
  /\ socket' = p
  /\ UNCHANGED <<install, host, termed, lock, kernelFaults>>

\* a crash, a kill from outside or a Listen that fails
Crashes(p) == p \in Live /\ KernelFault /\ Killed(p)

\* ctx is cancelled: closing the listener removes whatever is at the path
StopsOnTerm(p) ==
  /\ p \in Live \cap termed
  /\ KernelEnds(p) /\ Release(p)
  /\ socket' = IF proc[p] = "serving" THEN None ELSE socket
  /\ UNCHANGED <<install, host, kernelFaults>>

\* the grace period is over
SigKill(p) ==
  /\ main # "down" /\ shut = "stopping" /\ p = child /\ p \in Live
  /\ Killed(p) /\ UNCHANGED kernelFaults

\* an operator runs `nanogo serve` on the same socket path
ServedByHand(p) ==
  /\ ByHand /\ KernelFault /\ proc[p] = "none"
  /\ proc' = [proc EXCEPT ![p] = "starting"]
  /\ UNCHANGED <<install, host, termed, lock, socket>>

KernelStep(p) ==
  \/ acquireServeLock(p) \/ LockRefused(p) \/ ConfigError(p) \/ Listen(p)
  \/ StopsOnTerm(p)

KernelNext ==
  \/ HostBoots \/ onHostStart \/ RestartTimerFires \/ OnExit
  \/ onHostShutdown \/ HostExits \/ HostDies
  \/ \E p \in Proc : KernelStep(p) \/ Crashes(p) \/ SigKill(p) \/ ServedByHand(p)

KernelSpec == KernelInit /\ [][KernelNext]_kernelVars

\* Timers fire, exits are noticed, kernels get through their start-up, and a
\* shutdown goes on; a kernel need not heed SIGTERM, faults need not happen.
Fairness ==
  /\ WF_kernelVars(onHostStart) /\ WF_kernelVars(RestartTimerFires)
  /\ WF_kernelVars(OnExit) /\ WF_kernelVars(HostExits)
  /\ \A p \in Proc :
       /\ WF_kernelVars(acquireServeLock(p) \/ LockRefused(p) \/ ConfigError(p))
       /\ WF_kernelVars(Listen(p)) /\ WF_kernelVars(SigKill(p))

KernelFairSpec == KernelSpec /\ Fairness

-----------------------------------------------------------------------------
(* Properties                                                              *)

\* Type invariant of the supervisor's memory and of the processes.
KernelTypeOK ==
  /\ install \in {"ok", "missing", "toolong"}
  /\ main \in {"down", "booting", "started"}
  /\ shut \in {"no", "stopping", "closing"}
  /\ child \in Proc \cup {None, Failed}
  /\ failures \in 0..MaxFailures /\ timer \in BOOLEAN
  /\ proc \in [Proc -> {"none", "starting", "locked", "serving", "exited"}]
  /\ termed \subseteq Proc
  /\ lock \in Proc \cup {None} /\ socket \in Proc \cup {None, Stale}
  /\ kernelFaults \in 0..MaxKernelFaults

\* The control socket is never answered by a kernel other than the one that
\* holds the lock, through crashes, handovers and kernels started by hand
\* ("a silently-swappable control socket", lock_unix.go).
SocketBelongsToLockHolder == socket \in Proc => lock = socket /\ proc[socket] = "serving"

\* After the shutdown callback ran, no restart brings a kernel up: only a
\* main() that had not reached its host modules yet still starts one.
NoRestartAfterShutdown ==
  [][(shut # "no" /\ main = "started" /\ main' = "started" /\ shut' # "no")
       => child' \in {child, None}]_kernelVars

\* The host never unlinks the socket its own child listens on.
OwnSocketStays ==
  [][(Up /\ socket \in Children /\ socket' # socket)
       => proc'[socket] # "serving"]_kernelVars

\* A restart timer that fires neither cuts off a kernel that is alive nor
\* leaves one behind after the shutdown (kernel-supervisor/index.ts:302).
RestartsAreSafe == OwnSocketStays /\ NoRestartAfterShutdown

\* With no other kernel around, a start or restart that is under way reaches
\* a kernel that answers, unless the host stops or another fault intervenes.
UnderWay == Up /\ install = "ok" /\ Strays = {} /\ (timer \/ child \in Live)
KernelAnswers ==
  \A n \in 0..MaxKernelFaults :
    (UnderWay /\ kernelFaults = n) ~> (Reachable \/ ~Up \/ kernelFaults > n)

\* A shutdown comes to its end, also when the kernel ignores SIGTERM.
ShutdownCompletes == (shut # "no") ~> (main = "down")

\* Both ends of the supervisor's life get where they are going.
KernelProgress == KernelAnswers /\ ShutdownCompletes

\* What kernel-supervisor/index.ts:369-373 says of unlinkSync: it removes only
\* "a socket file nothing is listening on".  It does not hold: an orphan of a
\* crashed host still listens and still holds the lock.
UnlinksOnlyDeadSockets ==
  [][(socket \in Proc /\ socket' # socket) => proc'[socket] # "serving"]_kernelVars

\* What index.ts:15-16 and 386-389 say: the kernel stops in step with the
\* host.  It does not hold when the shutdown meets a main() still booting.
KernelStopsWithHost == [][HostExits => child \notin Live]_kernelVars
=============================================================================
