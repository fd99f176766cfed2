------------------------------ MODULE WarmPool ------------------------------
(***************************************************************************)
(* The registry of the control plane: which sandbox pods it tracks (byID), *)
(* which of them wait unclaimed in the warm pool of their image (byImage), *)
(* and everything that moves a sandbox between the two: NewSandbox,        *)
(* DeleteSandbox, the refill goroutines, the pod watch, the orphan reaper, *)
(* and a crash of the process, whose memory is all the registry there is.  *)
(*                                                                         *)
(* One action is one critical section of cp.mu or one call to the          *)
(* Kubernetes API; between two of them every other goroutine may run.      *)
(* Time is abstracted: a timeout, a cancelled context and the age of a pod *)
(* are choices; leases and ages are in Janitor.                            *)
(***************************************************************************)
EXTENDS Integers, FiniteSets, SequencesExt

CONSTANTS
  Sandboxes,      \* sandbox IDs; each names one pod, never used twice
  Images,         \* the configured images
  Clients,        \* NewSandbox calls in progress at once
  Refillers,      \* goroutines running refillWarmPool at once (a bound)
  Reconciler,     \* the one of Refillers that is the reconcile loop
  PoolSizeWarm,   \* warm pods to keep, per image
  NoSandbox, NoImage,
  MaxFaults       \* API errors, pod failures and crashes in a behaviour (a bound)

Workers == Clients \cup Refillers

ASSUME WorkersAssumption ==
  /\ Clients \cap Refillers = {}
  /\ Reconciler \in Refillers
ASSUME RefillersAssumption == IsFiniteSet(Refillers)
ASSUME PoolAssumption == PoolSizeWarm \in [Images -> Nat]
ASSUME NullAssumption == NoSandbox \notin Sandboxes /\ NoImage \notin Images
ASSUME FaultsAssumption == MaxFaults \in Nat

VARIABLES
  pod,       \* the cluster: state of each sandbox's pod
  image,     \* the image its record was created for
  byID,      \* tracked sandboxes
  byImage,   \* image -> stack of warm sandboxes, the last is claimed first
  claimed,   \* records with Claimed = true
  handouts,  \* history: how many NewSandbox calls returned this sandbox
  pc, mine, want, left,  \* per worker: step, sandbox, image, pods to add
  deleting,  \* sandboxes DeleteSandbox took out, pod deletion outstanding
  event,     \* per pod, the watch event on its way to the handlers
  watch,     \* what the event handler goroutine is doing
  faults

registry == <<byID, byImage, claimed>>
workers == <<pc, mine, want, left>>
cluster == <<pod, image>>
vars == <<cluster, registry, handouts, workers, deleting, event, watch, faults>>

PodStates == {"absent", "notready", "ready", "gone"}
Alive(s) == pod[s] \in {"notready", "ready"}
Steps == {"idle", "start", "create", "wait", "cleanup", "register", "append"}
Events == {"none", "notready", "deleted", "done"}
WatchIdle == [at |-> "idle", id |-> NoSandbox]

TypeOK ==
  /\ pod \in [Sandboxes -> PodStates]
  /\ image \in [Sandboxes -> Images \cup {NoImage}]
  /\ byID \subseteq Sandboxes
  /\ byImage \in [Images -> Seq(Sandboxes)]
  /\ claimed \subseteq Sandboxes
  /\ handouts \in [Sandboxes -> Nat]
  /\ pc \in [Workers -> Steps]
  /\ mine \in [Workers -> Sandboxes \cup {NoSandbox}]
  /\ want \in [Workers -> Images \cup {NoImage}]
  /\ left \in [Workers -> Nat]
  /\ deleting \subseteq Sandboxes
  /\ event \in [Sandboxes -> Events]
  /\ watch \in [at : {"idle", "drop", "forget", "delete"},
                id : Sandboxes \cup {NoSandbox}]
  /\ faults \in 0..MaxFaults

Init ==
  /\ pod = [s \in Sandboxes |-> "absent"]
  /\ image = [s \in Sandboxes |-> NoImage]
  /\ byID = {}
  /\ byImage = [img \in Images |-> <<>>]
  /\ claimed = {}
  /\ handouts = [s \in Sandboxes |-> 0]
  /\ pc = [w \in Workers |-> "idle"]
  /\ mine = [w \in Workers |-> NoSandbox]
  /\ want = [w \in Workers |-> NoImage]
  /\ left = [w \in Workers |-> 0]
  /\ deleting = {}
  /\ event = [s \in Sandboxes |-> "none"]
  /\ watch = WatchIdle
  /\ faults = 0

-----------------------------------------------------------------------------
(***************************************************************************)
(* Helpers                                                                 *)
(***************************************************************************)

Fault == faults < MaxFaults /\ faults' = faults + 1

Goto(w, step) == pc' = [pc EXCEPT ![w] = step]

\* The worker's call returns, with or without an error.
Quit(w) ==
  /\ Goto(w, "idle")
  /\ mine' = [mine EXCEPT ![w] = NoSandbox]
  /\ want' = [want EXCEPT ![w] = NoImage]
  /\ left' = [left EXCEPT ![w] = 0]

\* Delete of the Kubernetes API; NotFound is not an error.
KubeDelete(s) == pod' = [pod EXCEPT ![s] = "gone"]

\* The first occurrence of s in a warm stack that holds it.
WarmIndex(warm, s) ==
  CHOOSE i \in DOMAIN warm : warm[i] = s /\ \A j \in 1..(i-1) : warm[j] # s

\* removeWarmRef: byImage without s, left alone when the record is claimed.
RemoveWarmRef(s) ==
  IF s \in claimed \/ s \notin ToSet(byImage[image[s]])
  THEN byImage
  ELSE [byImage EXCEPT ![image[s]] = RemoveAt(@, WarmIndex(@, s))]

\* dropTracked, and the locked part of DeleteSandbox: no effect on an unknown id.
DropTracked(s) ==
  /\ byID' = byID \ {s}
  /\ byImage' = IF s \in byID THEN RemoveWarmRef(s) ELSE byImage
  /\ UNCHANGED claimed

-----------------------------------------------------------------------------
(***************************************************************************)
(* NewSandbox                                                              *)
(***************************************************************************)

\* Mutant of ClaimWarm: the claimed sandbox stays on the warm stack.
ClaimWarmKeeps(c, img) ==
  /\ pc[c] = "idle"
  /\ byImage[img] # <<>>
  /\ claimed' = claimed \cup {Last(byImage[img])}
  /\ handouts' = [handouts EXCEPT ![Last(byImage[img])] = @ + 1]
  /\ UNCHANGED <<cluster, byID, byImage, workers, deleting, event, watch, faults>>

\* A warm sandbox is waiting: pop the last one, claim it and return it.
ClaimWarm(c, img) ==
  /\ pc[c] = "idle"
  /\ byImage[img] # <<>>
  /\ LET s == Last(byImage[img]) IN
       /\ claimed' = claimed \cup {s}
       /\ handouts' = [handouts EXCEPT ![s] = @ + 1]
  /\ byImage' = [byImage EXCEPT ![img] = Front(@)]
  /\ UNCHANGED <<cluster, byID, workers, deleting, event, watch, faults>>

\* The pool is empty: create a pod for this call.
StartCold(c, img) ==
  /\ pc[c] = "idle"
  /\ byImage[img] = <<>>
  /\ Goto(c, "create")
  /\ want' = [want EXCEPT ![c] = img]
  /\ UNCHANGED <<cluster, registry, handouts, mine, left,
                 deleting, event, watch, faults>>

\* Mutant of RegisterClaimed: registered without Claimed = true.
RegisterUnclaimed(c) ==
  /\ pc[c] = "register"
  /\ byID' = byID \cup {mine[c]}
  /\ handouts' = [handouts EXCEPT ![mine[c]] = @ + 1]
  /\ Quit(c)
  /\ UNCHANGED <<cluster, byImage, claimed, deleting, event, watch, faults>>

\* The cold pod is ready: claim it, register it and return it.
RegisterClaimed(c) ==
  /\ pc[c] = "register"
  /\ claimed' = claimed \cup {mine[c]}
  /\ byID' = byID \cup {mine[c]}
  /\ handouts' = [handouts EXCEPT ![mine[c]] = @ + 1]
  /\ Quit(c)
  /\ UNCHANGED <<cluster, byImage, deleting, event, watch, faults>>

-----------------------------------------------------------------------------
(***************************************************************************)
(* createPod, waitPodReady and the cleanup both callers do when it fails   *)
(***************************************************************************)

PodCreated(w, s) ==
  /\ pc[w] = "create"
  /\ pod[s] = "absent"
  /\ pod' = [pod EXCEPT ![s] = "notready"]
  /\ image' = [image EXCEPT ![s] = want[w]]

CreatePod(w) ==
  /\ \E s \in Sandboxes :
       PodCreated(w, s) /\ mine' = [mine EXCEPT ![w] = s]
  /\ Goto(w, "wait")
  /\ UNCHANGED <<registry, handouts, want, left, deleting, event, watch, faults>>

\* The pod was created but the call reports an error: the ID is lost.
CreateLost(w) ==
  /\ Fault
  /\ \E s \in Sandboxes : PodCreated(w, s)
  /\ Quit(w)
  /\ UNCHANGED <<registry, handouts, deleting, event, watch>>

\* The API refuses the pod; the bound on Sandboxes acts as a namespace quota.
CreateRefused(w) ==
  /\ pc[w] = "create"
  /\ \/ (\A s \in Sandboxes : pod[s] # "absent") /\ UNCHANGED faults
     \/ Fault
  /\ Quit(w)
  /\ UNCHANGED <<cluster, registry, handouts, deleting, event, watch>>

\* Mutant of WaitReady: a pod that runs is taken for one that is ready.
WaitRunning(w) ==
  /\ pc[w] = "wait"
  /\ Alive(mine[w])
  /\ Goto(w, "register")
  /\ UNCHANGED <<cluster, registry, handouts, mine, want, left,
                 deleting, event, watch, faults>>

\* A poll sees the pod Ready.
WaitReady(w) ==
  /\ pc[w] = "wait"
  /\ pod[mine[w]] = "ready"
  /\ Goto(w, "register")
  /\ UNCHANGED <<cluster, registry, handouts, mine, want, left,
                 deleting, event, watch, faults>>

\* Mutant of WaitFails: a pod that is not found is polled again.
WaitForever(w) ==
  /\ pc[w] = "wait"
  /\ Fault
  /\ Goto(w, "cleanup")
  /\ UNCHANGED <<cluster, registry, handouts, mine, want, left,
                 deleting, event, watch>>

\* Get fails because the pod is gone, or for another reason, or the timeout
\* or the caller's context ends the wait.
WaitFails(w) ==
  /\ pc[w] = "wait"
  /\ \/ pod[mine[w]] = "gone" /\ UNCHANGED faults
     \/ Fault
  /\ Goto(w, "cleanup")
  /\ UNCHANGED <<cluster, registry, handouts, mine, want, left,
                 deleting, event, watch>>

\* The failed pod is deleted; an error of that call is ignored, and likely
\* when it is the caller's context that ended.
Cleanup(w) ==
  /\ pc[w] = "cleanup"
  /\ \/ KubeDelete(mine[w]) /\ UNCHANGED faults
     \/ Fault /\ UNCHANGED pod
  /\ Quit(w)
  /\ UNCHANGED <<image, registry, handouts, deleting, event, watch>>

-----------------------------------------------------------------------------
(***************************************************************************)
(* refillWarmPool, run by the reconcile loop and after each DeleteSandbox  *)
(***************************************************************************)

\* A tick of the reconcile loop reaches refillWarmPool for this image.
Reconcile(img) ==
  /\ pc[Reconciler] = "idle"
  /\ Goto(Reconciler, "start")
  /\ want' = [want EXCEPT ![Reconciler] = img]
  /\ UNCHANGED <<cluster, registry, handouts, mine, left,
                 deleting, event, watch, faults>>

\* Mutants of Shortfall: the pods that are there are not subtracted; the loop
\* stops one short.
ShortfallIgnoresPool(img) == PoolSizeWarm[img]
ShortfallOffByOne(img) == PoolSizeWarm[img] - Len(byImage[img]) - 1

\* Pods a refill sets out to add: have..min-1, or none.
Shortfall(img) == PoolSizeWarm[img] - Len(byImage[img])

\* Mutant of ReadPool: stops at have == min instead of have >= min.
ReadPoolExact(r) ==
  /\ pc[r] = "start"
  /\ IF Shortfall(want[r]) # 0
     THEN /\ Goto(r, "create")
          /\ left' = [left EXCEPT ![r] = Shortfall(want[r])]
          /\ UNCHANGED <<mine, want>>
     ELSE Quit(r)
  /\ UNCHANGED <<cluster, registry, handouts, deleting, event, watch, faults>>

\* The pool's length is read once; the loop counts from there, whatever the
\* other refills do meanwhile.
ReadPool(r) ==
  /\ pc[r] = "start"
  /\ IF Shortfall(want[r]) > 0
     THEN /\ Goto(r, "create")
          /\ left' = [left EXCEPT ![r] = Shortfall(want[r])]
          /\ UNCHANGED <<mine, want>>
     ELSE Quit(r)
  /\ UNCHANGED <<cluster, registry, handouts, deleting, event, watch, faults>>

RegisterWarm(r) ==
  /\ pc[r] = "register"
  /\ byID' = byID \cup {mine[r]}
  /\ Goto(r, "append")
  /\ UNCHANGED <<cluster, byImage, claimed, handouts, mine, want, left,
                 deleting, event, watch, faults>>

\* A second critical section: nothing looks whether the sandbox is tracked.
AppendWarm(r) ==
  /\ pc[r] = "append"
  /\ byImage' = [byImage EXCEPT ![want[r]] = Append(@, mine[r])]
  /\ IF left[r] > 1
     THEN /\ Goto(r, "create")
          /\ mine' = [mine EXCEPT ![r] = NoSandbox]
          /\ left' = [left EXCEPT ![r] = @ - 1]
          /\ UNCHANGED want
     ELSE Quit(r)
  /\ UNCHANGED <<cluster, byID, claimed, handouts, deleting, event, watch, faults>>

-----------------------------------------------------------------------------
(***************************************************************************)
(* DeleteSandbox, called by clients and by the janitor of leases           *)
(***************************************************************************)

\* Any tracked ID may be named: the list endpoint shows them all.
DeleteSandbox(s) ==
  /\ s \in byID
  /\ DropTracked(s)
  /\ deleting' = deleting \cup {s}
  /\ UNCHANGED <<cluster, handouts, workers, event, watch, faults>>

\* A goroutine is started to refill the image's pool, when it has one.  No
\* more goroutines than Refillers are modelled.
SpawnRefill(img) ==
  IF PoolSizeWarm[img] > 0 /\ \E r \in Refillers \ {Reconciler} : pc[r] = "idle"
  THEN /\ \E r \in Refillers \ {Reconciler} :
            /\ pc[r] = "idle"
            /\ Goto(r, "start")
            /\ want' = [want EXCEPT ![r] = img]
       /\ UNCHANGED <<mine, left>>
  ELSE UNCHANGED workers

DeletePod(s) ==
  /\ s \in deleting
  /\ deleting' = deleting \ {s}
  /\ KubeDelete(s)
  /\ SpawnRefill(image[s])
  /\ UNCHANGED <<image, registry, handouts, event, watch, faults>>

\* The API call fails: the error is returned, the sandbox stays forgotten.
DeletePodFails(s) ==
  /\ s \in deleting
  /\ Fault
  /\ deleting' = deleting \ {s}
  /\ UNCHANGED <<cluster, registry, handouts, workers, event, watch>>

-----------------------------------------------------------------------------
(***************************************************************************)
(* The pod watch.  An event carries the pod's state at the time it was     *)
(* sent and may be handled at any later time.  One event per pod is in     *)
(* flight: a sandbox enters byID once, so at most one event of a pod finds *)
(* it tracked, and the others have no effect.  Neither has an event that   *)
(* carries a Ready pod: onPodEvent returns at once.                        *)
(***************************************************************************)

\* A change, or the periodic resync.  The deletion is reported once.
Notify(s) ==
  /\ event[s] = "none"
  /\ pod[s] \in {"notready", "gone"}
  /\ event' = [event EXCEPT ![s] = IF pod[s] = "gone" THEN "deleted" ELSE "notready"]
  /\ UNCHANGED <<cluster, registry, handouts, workers, deleting, watch, faults>>

\* Mutant of HandleEvent: the tombstone of a deleted pod is not unwrapped.
HandleEventNoTombstone(s) ==
  /\ watch.at = "idle"
  /\ event[s] \in {"notready", "deleted"}
  /\ event' = [event EXCEPT ![s] = IF @ = "deleted" THEN "done" ELSE "none"]
  /\ watch' = IF s \in byID /\ event[s] = "notready" THEN [at |-> "drop", id |-> s] ELSE watch
  /\ UNCHANGED <<cluster, registry, handouts, workers, deleting, faults>>

\* onPodEvent and onPodDelete up to the lookup of the pod's name.
HandleEvent(s) ==
  /\ watch.at = "idle"
  /\ event[s] \in {"notready", "deleted"}
  /\ event' = [event EXCEPT ![s] = IF @ = "deleted" THEN "done" ELSE "none"]
  /\ watch' = IF s \in byID
              THEN [at |-> IF event[s] = "deleted" THEN "forget" ELSE "drop", id |-> s]
              ELSE watch
  /\ UNCHANGED <<cluster, registry, handouts, workers, deleting, faults>>

WatchDrops ==
  /\ watch.at \in {"drop", "forget"}
  /\ DropTracked(watch.id)
  /\ watch' = IF watch.at = "drop" THEN [watch EXCEPT !.at = "delete"] ELSE WatchIdle
  /\ UNCHANGED <<cluster, handouts, workers, deleting, event, faults>>

\* The pod that was not ready is deleted; an error is only logged.
WatchDeletes ==
  /\ watch.at = "delete"
  /\ \/ KubeDelete(watch.id) /\ UNCHANGED faults
     \/ Fault /\ UNCHANGED pod
  /\ watch' = WatchIdle
  /\ UNCHANGED <<image, registry, handouts, workers, deleting, event>>

-----------------------------------------------------------------------------
(***************************************************************************)
(* reapOrphans, the cluster, and a crash of the control plane              *)
(***************************************************************************)

\* Mutant of Reap: only pods that are not ready are taken for orphans.
ReapNotReady(s) ==
  /\ pod[s] = "notready"
  /\ s \notin byID
  /\ KubeDelete(s)
  /\ UNCHANGED <<image, registry, handouts, workers, deleting, event, watch, faults>>

\* The reaper deletes a pod it does not find tracked; any age is possible.
Reap(s) ==
  /\ Alive(s)
  /\ s \notin byID
  /\ KubeDelete(s)
  /\ UNCHANGED <<image, registry, handouts, workers, deleting, event, watch, faults>>

\* The readiness probe passes, or fails after it passed, or the pod is evicted.
PodReady(s) ==
  /\ pod[s] = "notready"
  /\ pod' = [pod EXCEPT ![s] = "ready"]
  /\ UNCHANGED <<image, registry, handouts, workers, deleting, event, watch, faults>>

PodFails(s) ==
  /\ Fault
  /\ \/ pod[s] = "ready" /\ pod' = [pod EXCEPT ![s] = "notready"]
     \/ Alive(s) /\ KubeDelete(s)
  /\ UNCHANGED <<image, registry, handouts, workers, deleting, event, watch>>

\* The process dies and a new one starts with New: nothing is persisted, and
\* its informer lists the pods that exist.
Crash ==
  /\ Fault
  /\ byID' = {}
  /\ byImage' = [img \in Images |-> <<>>]
  /\ claimed' = {}
  /\ pc' = [w \in Workers |-> "idle"]
  /\ mine' = [w \in Workers |-> NoSandbox]
  /\ want' = [w \in Workers |-> NoImage]
  /\ left' = [w \in Workers |-> 0]
  /\ deleting' = {}
  /\ event' = [s \in Sandboxes |-> IF pod[s] = "gone" THEN "done" ELSE "none"]
  /\ watch' = WatchIdle
  /\ UNCHANGED <<cluster, handouts>>

-----------------------------------------------------------------------------

ClientStep(c) ==
  \/ \E img \in Images : ClaimWarm(c, img) \/ StartCold(c, img)
  \/ RegisterClaimed(c)

ProvisionStep(w) ==
  \/ CreatePod(w) \/ CreateLost(w) \/ CreateRefused(w)
  \/ WaitReady(w) \/ WaitFails(w) \/ Cleanup(w)

RefillStep(r) == ReadPool(r) \/ RegisterWarm(r) \/ AppendWarm(r)

SandboxStep(s) ==
  \/ DeleteSandbox(s) \/ DeletePod(s) \/ DeletePodFails(s)
  \/ Notify(s) \/ HandleEvent(s) \/ Reap(s)
  \/ PodReady(s) \/ PodFails(s)

Next ==
  \/ \E c \in Clients : ClientStep(c)
  \/ \E w \in Workers : ProvisionStep(w)
  \/ \E r \in Refillers : RefillStep(r)
  \/ \E img \in Images : Reconcile(img)
  \/ \E s \in Sandboxes : SandboxStep(s)
  \/ WatchDrops \/ WatchDeletes
  \/ Crash

Spec == Init /\ [][Next]_vars

(***************************************************************************)
(* Fairness: goroutines and the informer run, the reconcile loop ticks for *)
(* every image, the reaper comes round, the probe of a started agent       *)
(* passes.  Clients, DeleteSandbox and faults owe nothing.                 *)
(***************************************************************************)
Fairness ==
  /\ \A w \in Workers : WF_vars(ProvisionStep(w))
  /\ \A c \in Clients : WF_vars(RegisterClaimed(c))
  /\ \A r \in Refillers : WF_vars(RefillStep(r))
  /\ \A img \in Images : SF_vars(Reconcile(img))
  /\ \A s \in Sandboxes :
       /\ WF_vars(DeletePod(s)) /\ WF_vars(Notify(s)) /\ SF_vars(HandleEvent(s))
       /\ WF_vars(Reap(s)) /\ WF_vars(PodReady(s))
  /\ WF_vars(WatchDrops) /\ WF_vars(WatchDeletes)

FairSpec == Spec /\ Fairness

-----------------------------------------------------------------------------
(***************************************************************************)
(* Properties                                                              *)
(***************************************************************************)

Warm == UNION {ToSet(byImage[img]) : img \in Images}

\* No sandbox is given to two callers of NewSandbox, whatever claims, cold
\* creates, refills, deletions and drops interleave: the agent in it has one
\* session state and one token.
HandedOutOnce == \A s \in Sandboxes : handouts[s] <= 1

\* A tracked sandbox that no client has is in the warm pool, or the refill that
\* registered it is about to put it there.  Otherwise nobody would ever remove
\* it: it has no lease, the reaper skips it, and NewSandbox does not find it.
NoLostSandbox ==
  \A s \in byID \ claimed :
    s \in Warm \/ \E r \in Refillers : pc[r] = "append" /\ mine[r] = s

\* Pods the refills of an image have set out to add, numbered for each of them.
ToCome(img) == UNION {{r} \X (1..left[r]) : r \in {q \in Refillers : want[q] = img}}

\* Sandboxes in the warm pool of an image and still to be added to it.
Planned(img) == Len(byImage[img]) + Cardinality(ToCome(img))

\* Refills do not see each other's pods and overshoot the pool size, but never
\* by more than one pool per refill that runs at the same time.
WarmBound == \A img \in Images : Planned(img) <= Cardinality(Refillers) * PoolSizeWarm[img]

\* What NewSandbox returns is tracked: it can be kept alive, deleted by its ID,
\* and the pod watch still drops it when its pod stops being ready.
HandedOutIsTracked == [][\A s \in Sandboxes : handouts'[s] > handouts[s] => s \in byID']_vars

\* Every call of NewSandbox returns, with a sandbox or an error.
NewSandboxReturns == \A c \in Clients : (pc[c] # "idle") ~> (pc[c] = "idle")

\* Again and again the pool of an image holds its configured number of
\* entries, as long as pods can be created.
PoolRefills ==
  \A img \in Images :
    []<>(Len(byImage[img]) >= PoolSizeWarm[img] \/ \A s \in Sandboxes : pod[s] # "absent")

\* A pod that is neither tracked nor being provisioned does not stay: neither
\* a failed deletion, nor a lost answer to a create, nor a crash leaks it.
LeakedPodsDeleted ==
  \A s \in Sandboxes :
    (Alive(s) /\ s \notin byID /\ \A w \in Workers : mine[w] # s) ~> (pod[s] = "gone")

\* A tracked sandbox whose pod is gone, and whose deletion the watch has not
\* handled yet, is forgotten.
DeadForgotten ==
  \A s \in Sandboxes :
    (s \in byID /\ pod[s] = "gone" /\ event[s] # "done") ~> (s \notin byID)

-----------------------------------------------------------------------------
(***************************************************************************)
(* The registry implements Allocation                                      *)
(***************************************************************************)

\* Ready for NewSandbox to return: on the stack of its image, or in the hands
\* of the worker that saw its pod ready.
Offered(s) ==
  \/ \E img \in Images : image[s] = img /\ s \in ToSet(byImage[img])
  \/ \E w \in Workers : mine[w] = s /\ pc[w] \in {"register", "append"}

\* How far a sandbox has come; one given twice is at no stage of Allocation.
StageOf(s) ==
  IF handouts[s] > 1 THEN "shared"
  ELSE IF handouts[s] = 1 THEN "given"
  ELSE IF pod[s] = "absent" THEN "unborn"
  ELSE IF Offered(s) THEN "offered"
  ELSE IF \E w \in Workers : mine[w] = s THEN "starting"
  ELSE "retired"

Promise == INSTANCE Allocation WITH
  stage <- [s \in Sandboxes |-> StageOf(s)],
  calls <- [c \in Clients |-> IF pc[c] = "idle" THEN NoImage ELSE want[c]]

\* Whatever refills, drops, deletions and crashes do to the stacks in between, a
\* sandbox is offered after its pod was seen ready, for the image it was made
\* for, to one caller, and never again.
ImplementsAllocation == Promise!Spec
=============================================================================
