------------------------------ MODULE Janitor ------------------------------
(***************************************************************************)
(* Time in the control plane: leases renewed by KeepAlive, access tokens,  *)
(* and the reconcile loop, which one after the other expires leases, reaps *)
(* orphaned pods and refills the pools, while clients and provisioning go  *)
(* on beside it.  What happens to the registry's stacks is in WarmPool.    *)
(*                                                                         *)
(* Time is discrete.  A timer counts the time since something (up to a     *)
(* cap) or until something is due; Tick moves all of them, and waits for   *)
(* what is due.                                                            *)
(***************************************************************************)
EXTENDS Integers, FiniteSets

CONSTANTS
  Sandboxes,
  LeaseTTL, TokenTTL, ReconcileEvery, WaitPodReadyTimeout, PodProvisionGrace,
  Latency,     \* a Kubernetes API call and the code around it take at most this
  RefillTime,  \* the refills of one reconcile take at most this
  Skew         \* the API server's clock is this much behind the control plane's

ASSUME TimesAssumption ==
  /\ {LeaseTTL, TokenTTL, ReconcileEvery, WaitPodReadyTimeout,
      PodProvisionGrace, Latency, RefillTime, Skew} \subseteq Nat
  /\ TokenTTL > 0

\* The default configuration gives 3 minutes to provision and 5 of grace.
ASSUME GraceAssumption ==
  /\ IsFiniteSet(Sandboxes)
  /\ WaitPodReadyTimeout + (Cardinality(Sandboxes) + 2) * Latency + Skew < PodProvisionGrace

VARIABLES
  stage,    \* per sandbox, see Stages
  timer,    \* time left for its provisioning step
  age,      \* since its pod was created
  idle,     \* since Sandbox.LastSeen
  quiet,    \* history: since its client was last given or granted it
  token,    \* time its client's token is still accepted
  at,       \* what the reconcile loop is doing
  due,      \* time left for that
  todo,     \* sandboxes the current loop still has to handle
  renewed   \* history: those it collected to expire and that were renewed since

perSandbox == <<stage, timer, age, idle, quiet, token>>
loop == <<at, due, todo, renewed>>
vars == <<perSandbox, loop>>

\* "creating": the pod exists, createPod has not returned; "waiting": in
\* waitPodReady; "warm", "claimed": registered; "orphan": nobody knows the pod;
\* "gone": no pod; "reaped": no pod, but somebody still counts on it.
Stages == {"absent", "creating", "waiting", "warm", "claimed", "orphan", "gone", "reaped"}
HasPod(s) == stage[s] \in {"creating", "waiting", "warm", "claimed", "orphan"}
Tracked(s) == stage[s] \in {"warm", "claimed"}

\* The longest a cycle of the loop takes, and the longest a lease is overdue.
CycleTime == RefillTime + (2 * Cardinality(Sandboxes) + 4) * Latency
Overdue == ReconcileEvery + CycleTime + Cardinality(Sandboxes) * Latency
QuietCap == LeaseTTL + Overdue + 1

TypeOK ==
  /\ stage \in [Sandboxes -> Stages]
  /\ timer \in [Sandboxes -> 0..(WaitPodReadyTimeout + Latency)]
  /\ age \in [Sandboxes -> 0..PodProvisionGrace]
  /\ idle \in [Sandboxes -> 0..QuietCap] /\ quiet \in [Sandboxes -> 0..QuietCap]
  /\ token \in [Sandboxes -> 0..TokenTTL]
  /\ at \in {"sleep", "expire", "list", "snapshot", "reap", "refill"}
  /\ due \in 0..(Latency + ReconcileEvery + RefillTime)
  /\ todo \subseteq Sandboxes /\ renewed \subseteq todo

Init ==
  /\ stage = [s \in Sandboxes |-> "absent"]
  /\ timer = [s \in Sandboxes |-> 0] /\ age = [s \in Sandboxes |-> 0]
  /\ idle = [s \in Sandboxes |-> 0] /\ quiet = [s \in Sandboxes |-> 0]
  /\ token = [s \in Sandboxes |-> 0]
  /\ at = "sleep" /\ due = ReconcileEvery /\ todo = {} /\ renewed = {}

Stage(s, to) == stage' = [stage EXCEPT ![s] = to]

\* A record that is not there has no timers.
Forget(s) ==
  /\ timer' = [timer EXCEPT ![s] = 0] /\ idle' = [idle EXCEPT ![s] = 0]
  /\ quiet' = [quiet EXCEPT ![s] = 0] /\ token' = [token EXCEPT ![s] = 0]

\* A call that deletes the pod of a sandbox nobody counts on any more.
DeletePod(s) ==
  /\ Stage(s, "gone") /\ age' = [age EXCEPT ![s] = 0]
  /\ Forget(s)

\* Such a call that fails: the pod is an orphan.
DeletePodFails(s) ==
  /\ Stage(s, "orphan") /\ UNCHANGED age
  /\ Forget(s)

-----------------------------------------------------------------------------
(***************************************************************************)
(* Provisioning, by NewSandbox and by refills                              *)
(***************************************************************************)

Create(s) ==
  /\ stage[s] = "absent"
  /\ Stage(s, "creating")
  /\ timer' = [timer EXCEPT ![s] = Latency]
  /\ UNCHANGED <<age, idle, quiet, token, loop>>

\* Mutant of Created: the wait is bounded by the wrong setting.
CreatedWaitsGrace(s) ==
  /\ stage[s] = "creating"
  /\ Stage(s, "waiting")
  /\ timer' = [timer EXCEPT ![s] = PodProvisionGrace + Latency]
  /\ UNCHANGED <<age, idle, quiet, token, loop>>

Created(s) ==
  /\ stage[s] = "creating"
  /\ Stage(s, "waiting")
  /\ timer' = [timer EXCEPT ![s] = WaitPodReadyTimeout + Latency]
  /\ UNCHANGED <<age, idle, quiet, token, loop>>

\* The call reports an error, the pod is there.
CreateLost(s) ==
  /\ stage[s] = "creating"
  /\ DeletePodFails(s)
  /\ UNCHANGED loop

\* Not ready in time, an error, or a cancelled context; the cleanup may fail.
WaitFails(s) ==
  /\ stage[s] = "waiting"
  /\ DeletePod(s) \/ DeletePodFails(s)
  /\ UNCHANGED loop

\* A refill registers its pod.
Warm(s) ==
  /\ stage[s] = "waiting"
  /\ Stage(s, "warm")
  /\ timer' = [timer EXCEPT ![s] = 0]
  /\ UNCHANGED <<age, idle, quiet, token, loop>>

\* Mutant of Grant: Claimed is set and LastSeen forgotten.
GrantNotSeen(s) ==
  /\ Stage(s, "claimed")
  /\ quiet' = [quiet EXCEPT ![s] = 0]
  /\ token' = [token EXCEPT ![s] = TokenTTL]
  /\ UNCHANGED idle

\* NewSandbox returns it: Claimed and LastSeen are set, handleCreate mints a
\* token.
Grant(s) ==
  /\ Stage(s, "claimed")
  /\ idle' = [idle EXCEPT ![s] = 0]
  /\ quiet' = [quiet EXCEPT ![s] = 0]
  /\ token' = [token EXCEPT ![s] = TokenTTL]

\* A cold pod, or one from the pool.
Claim(s) ==
  /\ stage[s] \in {"waiting", "warm"}
  /\ Grant(s)
  /\ timer' = [timer EXCEPT ![s] = 0]
  /\ UNCHANGED <<age, loop>>

-----------------------------------------------------------------------------
(***************************************************************************)
(* Clients                                                                 *)
(***************************************************************************)

\* The SDK's KeepAlive drops the answer, and the new token in it.
KeepAlive(s) ==
  /\ stage[s] = "claimed"
  /\ idle' = [idle EXCEPT ![s] = 0]
  /\ quiet' = [quiet EXCEPT ![s] = 0]
  /\ renewed' = IF at = "expire" THEN renewed \cup ({s} \cap todo) ELSE renewed
  /\ UNCHANGED <<stage, timer, age, token, at, due, todo>>

\* A new handle, with a new token; the lease is not renewed.
GetSandbox(s) ==
  /\ stage[s] = "claimed"
  /\ token' = [token EXCEPT ![s] = TokenTTL]
  /\ UNCHANGED <<stage, timer, age, idle, quiet, loop>>

\* DeleteSandbox by a client, or the watch drops it.
Delete(s) ==
  /\ Tracked(s)
  /\ DeletePod(s) \/ DeletePodFails(s)
  /\ UNCHANGED loop

-----------------------------------------------------------------------------
(***************************************************************************)
(* The reconcile loop                                                      *)
(***************************************************************************)

Enter(step, time) == at' = step /\ due' = time

Expired(s) == stage[s] = "claimed" /\ idle[s] > LeaseTTL

\* A tick, at the latest when it is due: deleteExpired collects under the lock.
Scan ==
  /\ at = "sleep"
  /\ todo' = {s \in Sandboxes : Expired(s)}
  /\ renewed' = {}
  /\ Enter("expire", Latency)
  /\ UNCHANGED perSandbox

\* Mutant of Expire: the first deletion that fails ends the round.
ExpireUntilError(s) ==
  /\ at = "expire"
  /\ s \in todo
  /\ \/ ~Tracked(s) /\ UNCHANGED perSandbox /\ todo' = todo \ {s}
     \/ Tracked(s) /\ DeletePod(s) /\ todo' = todo \ {s}
     \/ Tracked(s) /\ DeletePodFails(s) /\ todo' = {}
  /\ renewed' = renewed \cap todo'
  /\ Enter("expire", Latency)

\* One of the collected: DeleteSandbox does not look at its lease again.
Expire(s) ==
  /\ at = "expire"
  /\ s \in todo
  /\ IF Tracked(s) THEN DeletePod(s) \/ DeletePodFails(s) ELSE UNCHANGED perSandbox
  /\ todo' = todo \ {s}
  /\ renewed' = renewed \ {s}
  /\ Enter("expire", Latency)

ExpireEnds ==
  /\ at = "expire"
  /\ todo = {}
  /\ renewed' = {}
  /\ Enter("list", Latency)
  /\ UNCHANGED <<perSandbox, todo>>

\* reapOrphans lists the pods, first, or gives up.
List ==
  /\ at = "list"
  /\ todo' = {s \in Sandboxes : HasPod(s)}
  /\ Enter("snapshot", Latency)
  /\ UNCHANGED <<perSandbox, renewed>>

ListFails ==
  /\ at = "list"
  /\ Enter("refill", RefillTime)
  /\ UNCHANGED <<perSandbox, todo, renewed>>

Untracked(s) == ~Tracked(s)

\* Then it reads which are tracked.
Snapshot ==
  /\ at = "snapshot"
  /\ todo' = {s \in todo : Untracked(s)}
  /\ Enter("reap", Latency)
  /\ UNCHANGED <<perSandbox, renewed>>

\* Mutant of OldEnough: no grace for pods that are being provisioned.
AnyAge(s) == TRUE

\* Its creation is dated by the API server.
OldEnough(s) == age[s] + Skew >= PodProvisionGrace

\* The next listed pod.  Its age is compared when its turn comes.
Reap(s) ==
  /\ at = "reap"
  /\ s \in todo
  /\ \/ OldEnough(s) /\ stage[s] = "orphan" /\ DeletePod(s)
     \/ /\ OldEnough(s) /\ HasPod(s) /\ stage[s] # "orphan"
        /\ Stage(s, "reaped") /\ UNCHANGED <<timer, age, idle, quiet, token>>
     \/ UNCHANGED perSandbox
  /\ todo' = todo \ {s}
  /\ Enter("reap", Latency)
  /\ UNCHANGED renewed

ReapEnds ==
  /\ at = "reap"
  /\ todo = {}
  /\ Enter("refill", RefillTime)
  /\ UNCHANGED <<perSandbox, todo, renewed>>

\* The loop waits for its refills before the ticker is looked at again.
RefillEnds ==
  /\ at = "refill"
  /\ Enter("sleep", ReconcileEvery)
  /\ UNCHANGED <<perSandbox, todo, renewed>>

-----------------------------------------------------------------------------

Up(t, cap) == IF t < cap THEN t + 1 ELSE t
Down(t) == IF t > 0 THEN t - 1 ELSE t

Tick ==
  /\ due > 0
  /\ \A s \in Sandboxes : stage[s] \in {"creating", "waiting"} => timer[s] > 0
  /\ due' = due - 1
  /\ timer' = [s \in Sandboxes |-> Down(timer[s])]
  /\ age' = [s \in Sandboxes |-> IF HasPod(s) THEN Up(age[s], PodProvisionGrace) ELSE age[s]]
  /\ idle' = [s \in Sandboxes |-> IF Tracked(s) THEN Up(idle[s], QuietCap) ELSE idle[s]]
  /\ quiet' = [s \in Sandboxes |->
                 IF stage[s] = "claimed" THEN Up(quiet[s], QuietCap) ELSE quiet[s]]
  /\ token' = [s \in Sandboxes |-> Down(token[s])]
  /\ UNCHANGED <<stage, at, todo, renewed>>

SandboxStep(s) ==
  \/ Create(s) \/ Created(s) \/ CreateLost(s) \/ WaitFails(s) \/ Warm(s) \/ Claim(s)
  \/ KeepAlive(s) \/ GetSandbox(s) \/ Delete(s)
  \/ Expire(s) \/ Reap(s)

Next ==
  \/ \E s \in Sandboxes : SandboxStep(s)
  \/ Scan \/ ExpireEnds \/ List \/ ListFails \/ Snapshot \/ ReapEnds \/ RefillEnds
  \/ Tick

Spec == Init /\ [][Next]_vars

-----------------------------------------------------------------------------
(***************************************************************************)
(* Properties                                                              *)
(***************************************************************************)

\* The reaper deletes no pod that is being provisioned or that is tracked,
\* although it reads the pods, the registry and the ages one after the other.
ReapsOnlyOrphans == \A s \in Sandboxes : stage[s] # "reaped"

\* The janitor takes out only a claimed sandbox, never a member of the pool, and
\* only one not granted to its client within the lease or renewed too late, after
\* the janitor had looked.
ExpiresOnlyIdle ==
  [][\A s \in todo :
       at = "expire" /\ Tracked(s) /\ stage'[s] # stage[s] /\ s \notin todo' =>
       stage[s] = "claimed" /\ (quiet[s] > LeaseTTL \/ s \in renewed)]_vars

\* An abandoned sandbox is expired at the latest a tick and a cycle of the loop
\* after its lease ended, although the loop's own refills hold it up.
ExpiryNotLate == \A s \in Sandboxes : stage[s] = "claimed" => quiet[s] <= LeaseTTL + Overdue

\* A sandbox whose lease was renewed is not expired before the lease ends.
LeaseHonoured ==
  [][\A s \in todo :
       at = "expire" /\ stage[s] = "claimed" /\ stage'[s] # "claimed" /\ s \notin todo' =>
       quiet[s] > LeaseTTL]_vars

\* A client that keeps its sandbox alive can use it: its token is accepted.
KeptAliveIsUsable ==
  \A s \in Sandboxes : stage[s] = "claimed" /\ quiet[s] <= LeaseTTL => token[s] > 0
=============================================================================
