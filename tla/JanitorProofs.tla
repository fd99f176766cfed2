--------------------------- MODULE JanitorProofs ---------------------------
(***************************************************************************)
(* The control plane's deadlines for all durations and any number of       *)
(* sandboxes: the reaper never meets a pod in use, the janitor takes out   *)
(* only what is idle, and an abandoned sandbox does not outlive its lease  *)
(* by more than a tick and a cycle of the loop.                            *)
(*                                                                         *)
(* Each bound is the time the loop can have spent since it last looked: a  *)
(* Latency for every call it has made, and what has passed of the current. *)
(***************************************************************************)
EXTENDS Janitor, FiniteSetTheorems, TLAPS

\* Time for the sandboxes already handled, when t are left, and for all.
Spent(t) == (Cardinality(Sandboxes) - Cardinality(t)) * Latency
Round == Cardinality(Sandboxes) * Latency

(***************************************************************************)
(* The inductive invariant                                                 *)
(***************************************************************************)

\* A pod in provisioning is no older than the steps it went through.
ProvisionInv ==
  \A s \in Sandboxes :
    /\ stage[s] \in {"absent", "gone"} => age[s] = 0
    /\ stage[s] = "creating" => age[s] + timer[s] <= Latency
    /\ stage[s] = "waiting" => age[s] + timer[s] <= WaitPodReadyTimeout + 2 * Latency

\* The loop's calls take at most their time, and only the janitor collects.
LoopInv ==
  /\ at # "expire" => renewed = {}
  /\ at \in {"expire", "list", "snapshot", "reap"} => due <= Latency
  /\ at = "refill" => due <= RefillTime
  /\ at = "sleep" => due <= ReconcileEvery

\* A listed pod that the snapshot did not have as tracked is young, or an orphan.
ReapInv ==
  at = "reap" =>
    \A s \in todo : stage[s] # "orphan" =>
      age[s] <= WaitPodReadyTimeout + 2 * Latency + Spent(todo) + (Latency - due)

\* A lease is counted from what its client knows, and what the janitor collected
\* was claimed and idle, or has been renewed since.
LeaseInv ==
  /\ \A s \in Sandboxes : stage[s] = "claimed" => idle[s] = quiet[s]
  /\ at = "expire" =>
       \A s \in todo :
         /\ stage[s] \in {"claimed", "gone", "orphan"}
         /\ stage[s] = "claimed" => quiet[s] > LeaseTTL \/ s \in renewed

\* Time since the janitor last looked at the leases.
SinceScan ==
  CASE at = "expire" -> Spent(todo) + (Latency - due)
    [] at = "list" -> Round + Latency + (Latency - due)
    [] at = "snapshot" -> Round + 2 * Latency + (Latency - due)
    [] at = "reap" -> Round + 3 * Latency + Spent(todo) + (Latency - due)
    [] at = "refill" -> 2 * Round + 4 * Latency + (RefillTime - due)
    [] at = "sleep" -> 2 * Round + 4 * Latency + RefillTime + (ReconcileEvery - due)

\* A lease that ended was not over at that time, unless it is among those the
\* janitor is about to end: these had a whole cycle more.
LateInv ==
  \A s \in Sandboxes : stage[s] = "claimed" =>
    IF at = "expire" /\ s \in todo
    THEN quiet[s] <= LeaseTTL + ReconcileEvery + CycleTime + SinceScan
    ELSE quiet[s] <= LeaseTTL + SinceScan

IInv ==
  /\ TypeOK /\ ReapsOnlyOrphans
  /\ ProvisionInv /\ LoopInv /\ ReapInv /\ LeaseInv /\ LateInv

-----------------------------------------------------------------------------
(***************************************************************************)
(* Arithmetic                                                              *)
(***************************************************************************)

\* The durations are natural numbers, and the derived ones are sums.
LEMMA Durations ==
  /\ Cardinality(Sandboxes) \in Nat /\ IsFiniteSet(Sandboxes)
  /\ {LeaseTTL, TokenTTL, ReconcileEvery, WaitPodReadyTimeout,
      PodProvisionGrace, Latency, RefillTime, Skew} \subseteq Nat
  /\ TokenTTL > 0
  /\ Round \in Nat
  /\ CycleTime = RefillTime + 2 * Round + 4 * Latency
  /\ Overdue = ReconcileEvery + CycleTime + Round
  /\ QuietCap = LeaseTTL + Overdue + 1
  /\ WaitPodReadyTimeout + Round + 2 * Latency + Skew < PodProvisionGrace
<1>1. Cardinality(Sandboxes) \in Nat /\ IsFiniteSet(Sandboxes)
  BY GraceAssumption, FS_CardinalityType
<1>2. ASSUME NEW n \in Nat, NEW l \in Nat
      PROVE  /\ n * l \in Nat /\ (n + 2) * l = n * l + 2 * l
             /\ (2 * n + 4) * l = 2 * (n * l) + 4 * l
  OBVIOUS
<1> QED
  BY <1>1, <1>2, TimesAssumption, GraceAssumption DEF Round, CycleTime, Overdue, QuietCap

\* Each sandbox the loop handles takes its Latency, and together they take Round.
LEMMA SpentProperties ==
  ASSUME NEW t \in SUBSET Sandboxes
  PROVE  /\ Spent(t) \in Nat /\ Spent(t) <= Round /\ Spent({}) = Round
         /\ \A s \in t : Spent(t \ {s}) = Spent(t) + Latency
         /\ t # {} => Spent(t) + Latency <= Round
<1> DEFINE N == Cardinality(Sandboxes)
           k == Cardinality(t)
<1>1. N \in Nat /\ IsFiniteSet(Sandboxes) /\ Latency \in Nat
  BY Durations
<1>2. IsFiniteSet(t) /\ k \in Nat /\ k <= N
  BY <1>1, FS_Subset, FS_CardinalityType
<1>3. Cardinality({}) = 0 /\ (t # {} => k # 0)
  BY <1>2, FS_EmptySet
<1>4. \A s \in t : Cardinality(t \ {s}) = k - 1
  BY <1>2, FS_RemoveElement
<1> HIDE DEF N, k
<1>5. ASSUME NEW n \in Nat, NEW l \in Nat, NEW m \in Nat, m <= n
      PROVE  /\ (n - m) * l \in Nat /\ (n - m) * l <= n * l /\ (n - 0) * l = n * l
             /\ (n - (m - 1)) * l = (n - m) * l + l
             /\ m # 0 => (n - m) * l + l <= n * l
  <2>1. n - m \in Nat /\ n * l = (n - m) * l + m * l
    BY <1>5
  <2>2. (n - m) * l \in Nat /\ m * l \in Nat /\ n * l \in Nat
    BY <2>1
  <2>3. (n - (m - 1)) * l = (n - m) * l + l
    OBVIOUS
  <2>4. m # 0 => m * l >= l
    <3>1. SUFFICES ASSUME m # 0 PROVE m * l >= l
      OBVIOUS
    <3>2. m * l = (m - 1) * l + l /\ m - 1 \in Nat
      BY <3>1
    <3>3. (m - 1) * l \in Nat
      BY <3>2
    <3> QED BY <3>2, <3>3
  <2> QED BY <2>1, <2>2, <2>3, <2>4
<1>6. /\ (N - k) * Latency \in Nat /\ (N - k) * Latency <= N * Latency
      /\ (N - 0) * Latency = N * Latency
      /\ (N - (k - 1)) * Latency = (N - k) * Latency + Latency
      /\ k # 0 => (N - k) * Latency + Latency <= N * Latency
  BY <1>1, <1>2, <1>5
<1> QED BY <1>3, <1>4, <1>6 DEF Spent, Round, N, k

-----------------------------------------------------------------------------
(***************************************************************************)
(* The invariant holds initially                                           *)
(***************************************************************************)

LEMMA InitInvariant == Init => IInv
<1> SUFFICES ASSUME Init PROVE IInv
  OBVIOUS
<1>1. TypeOK
  BY Durations DEF Init, TypeOK, Stages
<1>2. SinceScan \in Nat
  BY Durations DEF Init, SinceScan
<1> QED
  BY <1>1, <1>2, Durations DEF Init, IInv, ReapsOnlyOrphans, ProvisionInv, LoopInv,
     ReapInv, LeaseInv, LateInv

-----------------------------------------------------------------------------
(***************************************************************************)
(* Clients and provisioning keep it                                        *)
(***************************************************************************)

ClientStep(s) ==
  \/ Create(s) \/ Created(s) \/ CreateLost(s) \/ WaitFails(s) \/ Warm(s) \/ Claim(s)
  \/ KeepAlive(s) \/ GetSandbox(s) \/ Delete(s)

\* What such a step may do to its sandbox, and that it leaves the loop alone.
LEMMA ClientStepEffect ==
  ASSUME IInv, NEW s \in Sandboxes, ClientStep(s)
  PROVE  /\ TypeOK' /\ at' = at /\ due' = due /\ todo' = todo
         /\ \A x \in Sandboxes : x # s =>
              /\ stage'[x] = stage[x] /\ timer'[x] = timer[x] /\ age'[x] = age[x]
              /\ idle'[x] = idle[x] /\ quiet'[x] = quiet[x]
         /\ renewed \subseteq renewed' /\ (at # "expire" => renewed' = renewed)
         /\ stage'[s] # "reaped"
         /\ age'[s] = age[s] \/ age'[s] = 0
         /\ stage'[s] \in {"absent", "gone"} => age'[s] = 0
         /\ stage'[s] = "creating" => age'[s] + timer'[s] <= Latency
         /\ stage'[s] = "waiting" => age'[s] + timer'[s] <= WaitPodReadyTimeout + 2 * Latency
         /\ stage[s] \in {"gone", "orphan"} => stage'[s] = stage[s]
         /\ stage[s] = "claimed" => stage'[s] \in {"claimed", "gone", "orphan"}
         /\ stage'[s] = "claimed" =>
              /\ idle'[s] = quiet'[s]
              /\ \/ quiet'[s] = 0 /\ (at = "expire" /\ s \in todo => s \in renewed' \/ stage[s] # "claimed")
                 \/ quiet'[s] = quiet[s] /\ stage[s] = "claimed"
<1> USE Durations DEF IInv, TypeOK, Stages, Stage, loop, ReapsOnlyOrphans, ProvisionInv,
        LoopInv, LeaseInv
<1>1. CASE Create(s)
  BY <1>1 DEF Create
<1>2. CASE Created(s)
  BY <1>2 DEF Created
<1>3. CASE CreateLost(s)
  BY <1>3 DEF CreateLost, DeletePodFails, Forget
<1>4. CASE WaitFails(s)
  BY <1>4 DEF WaitFails, DeletePod, DeletePodFails, Forget
<1>5. CASE Warm(s)
  BY <1>5 DEF Warm
<1>6. CASE Claim(s)
  BY <1>6 DEF Claim, Grant
<1>7. CASE KeepAlive(s)
  BY <1>7 DEF KeepAlive
<1>8. CASE GetSandbox(s)
  BY <1>8 DEF GetSandbox
<1>9. CASE Delete(s)
  BY <1>9 DEF Delete, DeletePod, DeletePodFails, Forget, Tracked
<1> QED BY <1>1, <1>2, <1>3, <1>4, <1>5, <1>6, <1>7, <1>8, <1>9 DEF ClientStep

LEMMA ClientStepKeeps ==
  ASSUME IInv, NEW s \in Sandboxes, ClientStep(s)
  PROVE  IInv'
<1>1. /\ TypeOK /\ TypeOK' /\ at' = at /\ due' = due /\ todo' = todo
  BY ClientStepEffect DEF IInv
<1>2. ReapsOnlyOrphans'
  BY ClientStepEffect DEF IInv, ReapsOnlyOrphans
<1>3. ProvisionInv'
  BY ClientStepEffect DEF IInv, ProvisionInv
<1>4. LoopInv'
  BY ClientStepEffect DEF IInv, LoopInv
<1>5. Spent(todo') = Spent(todo) /\ Spent(todo) \in Nat
  BY <1>1, SpentProperties DEF TypeOK
<1>6. ReapInv'
  <2> SUFFICES ASSUME at = "reap", NEW x \in todo, stage'[x] # "orphan"
               PROVE  age'[x] <= WaitPodReadyTimeout + 2 * Latency + Spent(todo) + (Latency - due)
    BY <1>1, <1>5 DEF ReapInv
  <2>1. x \in Sandboxes /\ stage[x] # "orphan" /\ (age'[x] = age[x] \/ age'[x] = 0)
    BY <1>1, ClientStepEffect DEF TypeOK
  <2>2. age[x] <= WaitPodReadyTimeout + 2 * Latency + Spent(todo) + (Latency - due)
    BY <2>1 DEF IInv, ReapInv
  <2>3. Latency - due >= 0 /\ due \in Nat
    BY Durations DEF IInv, LoopInv, TypeOK
  <2> QED BY <1>5, <2>1, <2>2, <2>3, Durations
<1>7. LeaseInv'
  BY <1>1, ClientStepEffect DEF IInv, LeaseInv, TypeOK
<1>8. LateInv'
  <2>1. SinceScan' = SinceScan
    BY <1>1, <1>5 DEF SinceScan
  <2>2. SinceScan \in Nat
    BY <1>1, <1>5, Durations DEF IInv, SinceScan, LoopInv, TypeOK
  <2>3. CycleTime \in Nat
    BY Durations
  <2> SUFFICES ASSUME NEW x \in Sandboxes, stage'[x] = "claimed"
               PROVE  IF at = "expire" /\ x \in todo
                      THEN quiet'[x] <= LeaseTTL + ReconcileEvery + CycleTime + SinceScan
                      ELSE quiet'[x] <= LeaseTTL + SinceScan
    BY <1>1, <2>1 DEF LateInv
  <2>4. quiet'[x] = 0 \/ (quiet'[x] = quiet[x] /\ stage[x] = "claimed")
    BY ClientStepEffect
  <2> QED BY <2>2, <2>3, <2>4, Durations DEF IInv, LateInv
<1> QED BY <1>1, <1>2, <1>3, <1>4, <1>6, <1>7, <1>8 DEF IInv

-----------------------------------------------------------------------------
(***************************************************************************)
(* The loop keeps it                                                       *)
(***************************************************************************)

\* One by one, the collected sandboxes lose their pod and are no longer claimed.
LEMMA ExpireKeeps ==
  ASSUME IInv, NEW s \in Sandboxes, Expire(s)
  PROVE  IInv'
<1> USE Durations DEF IInv, TypeOK
<1>1. /\ at = "expire" /\ at' = "expire" /\ s \in todo /\ todo' = todo \ {s}
      /\ due' = Latency /\ renewed' = renewed \ {s}
  BY DEF Expire, Enter
<1>2. Spent(todo') = Spent(todo) + Latency /\ Spent(todo) \in Nat
  BY <1>1, SpentProperties
<1>3. \A x \in Sandboxes : x # s =>
        /\ stage'[x] = stage[x] /\ timer'[x] = timer[x] /\ age'[x] = age[x]
        /\ idle'[x] = idle[x] /\ quiet'[x] = quiet[x]
  BY DEF Expire, DeletePod, DeletePodFails, Stage, Forget, perSandbox
<1>4. /\ stage'[s] \in {"gone", "orphan"} /\ (stage'[s] = "gone" => age'[s] = 0)
  BY <1>1 DEF Expire, DeletePod, DeletePodFails, Stage, Forget, perSandbox, LeaseInv, Tracked,
     ProvisionInv
<1>5. TypeOK'
  BY <1>1 DEF Expire, DeletePod, DeletePodFails, Stage, Forget, perSandbox, Stages
<1>6. ReapsOnlyOrphans' /\ ProvisionInv'
  BY <1>3, <1>4 DEF ReapsOnlyOrphans, ProvisionInv
<1>7. LoopInv' /\ ReapInv' /\ LeaseInv'
  BY <1>1, <1>3, <1>4 DEF LoopInv, ReapInv, LeaseInv
<1>8. LateInv'
  <2>1. SinceScan' = Spent(todo) + Latency /\ SinceScan = Spent(todo) + (Latency - due)
    BY <1>1, <1>2 DEF SinceScan
  <2>2. SinceScan <= SinceScan'
    BY <1>1, <1>2, <2>1
  <2>3. SinceScan \in Int /\ SinceScan' \in Int
    BY <1>2, <2>1
  <2> HIDE DEF SinceScan
  <2> QED BY <1>1, <1>3, <1>4, <2>2, <2>3 DEF LateInv
<1> QED BY <1>5, <1>6, <1>7, <1>8

\* The janitor looks at the leases: what is not collected is within its lease,
\* and what is has had the time of a tick and a cycle since it was looked at.
LEMMA ScanKeeps == IInv /\ Scan => IInv'
<1> SUFFICES ASSUME IInv, Scan PROVE IInv'
  OBVIOUS
<1> USE Durations DEF IInv, TypeOK
<1>1. /\ at = "sleep" /\ at' = "expire" /\ todo' = {s \in Sandboxes : Expired(s)}
      /\ renewed' = {} /\ due' = Latency /\ UNCHANGED perSandbox
  BY DEF Scan, Enter
<1>2. Spent(todo') \in Nat
  BY <1>1, SpentProperties
<1>3. TypeOK' /\ ReapsOnlyOrphans' /\ ProvisionInv' /\ LoopInv' /\ ReapInv' /\ LeaseInv'
  BY <1>1 DEF perSandbox, ReapsOnlyOrphans, ProvisionInv, LoopInv, ReapInv, LeaseInv, Expired
<1>4. LateInv'
  <2>1. SinceScan' = Spent(todo')
    BY <1>1, <1>2 DEF SinceScan
  <2>2. SinceScan = 2 * Round + 4 * Latency + RefillTime + (ReconcileEvery - due)
    BY <1>1 DEF SinceScan
  <2>3. SinceScan <= ReconcileEvery + CycleTime /\ SinceScan \in Int
    BY <2>2
  <2> QED BY <1>1, <1>2, <2>1, <2>3 DEF LateInv, perSandbox, Expired, LeaseInv
<1> QED BY <1>3, <1>4

\* One after the other the listed pods are compared; none of those in use is old
\* enough, because the loop has not had the time for it to become so.
LEMMA ReapKeeps ==
  ASSUME IInv, NEW s \in Sandboxes, Reap(s)
  PROVE  IInv'
<1> USE Durations DEF IInv, TypeOK
<1>1. /\ at = "reap" /\ at' = "reap" /\ s \in todo /\ todo' = todo \ {s}
      /\ due' = Latency /\ renewed' = renewed /\ renewed = {} /\ due <= Latency
  BY DEF Reap, Enter, LoopInv
<1>2. /\ Spent(todo') = Spent(todo) + Latency /\ Spent(todo) \in Nat
      /\ Spent(todo) + Latency <= Round
  BY <1>1, SpentProperties
<1>3. stage[s] # "orphan" => ~OldEnough(s)
  <2>1. SUFFICES ASSUME stage[s] # "orphan" PROVE age[s] + Skew < PodProvisionGrace
    BY DEF OldEnough
  <2>2. age[s] <= WaitPodReadyTimeout + 2 * Latency + Spent(todo) + (Latency - due)
    BY <1>1, <2>1 DEF ReapInv
  <2> QED BY <1>2, <2>2
<1>4. \/ UNCHANGED perSandbox
      \/ stage[s] = "orphan" /\ DeletePod(s)
  BY <1>3 DEF Reap, perSandbox
<1>5. \A x \in Sandboxes : x # s =>
        /\ stage'[x] = stage[x] /\ timer'[x] = timer[x] /\ age'[x] = age[x]
        /\ idle'[x] = idle[x] /\ quiet'[x] = quiet[x]
  BY <1>4 DEF DeletePod, Stage, Forget, perSandbox
<1>6. \/ stage'[s] = stage[s] /\ timer'[s] = timer[s] /\ age'[s] = age[s]
         /\ idle'[s] = idle[s] /\ quiet'[s] = quiet[s]
      \/ stage'[s] = "gone" /\ age'[s] = 0
  BY <1>4 DEF DeletePod, Stage, Forget, perSandbox
<1>7. TypeOK'
  BY <1>1, <1>4 DEF DeletePod, Stage, Forget, perSandbox, Stages
<1>8. ReapsOnlyOrphans' /\ ProvisionInv'
  BY <1>5, <1>6 DEF ReapsOnlyOrphans, ProvisionInv
<1>9. LoopInv' /\ LeaseInv'
  BY <1>1, <1>5, <1>6 DEF LoopInv, LeaseInv
<1>10. ReapInv'
  BY <1>1, <1>2, <1>5 DEF ReapInv
<1>11. LateInv'
  <2>1. /\ SinceScan' = Round + 3 * Latency + Spent(todo) + Latency
        /\ SinceScan = Round + 3 * Latency + Spent(todo) + (Latency - due)
    BY <1>1, <1>2 DEF SinceScan
  <2>2. SinceScan <= SinceScan' /\ SinceScan \in Int /\ SinceScan' \in Int
    BY <1>2, <2>1
  <2> HIDE DEF SinceScan
  <2> QED BY <1>1, <1>5, <1>6, <2>2 DEF LateInv
<1> QED BY <1>7, <1>8, <1>9, <1>10, <1>11

\* The snapshot keeps the pods that are not tracked: provisioned ones are young.
LEMMA SnapshotKeeps == IInv /\ Snapshot => IInv'
<1> SUFFICES ASSUME IInv, Snapshot PROVE IInv'
  OBVIOUS
<1> USE Durations DEF IInv, TypeOK
<1>1. /\ at = "snapshot" /\ at' = "reap" /\ due' = Latency /\ UNCHANGED <<perSandbox, renewed>>
      /\ todo' = {s \in todo : Untracked(s)} /\ renewed = {} /\ due <= Latency
  BY DEF Snapshot, Enter, LoopInv
<1>2. Spent(todo') \in Nat /\ todo' \subseteq Sandboxes
  BY <1>1, SpentProperties
<1>3. TypeOK' /\ ReapsOnlyOrphans' /\ ProvisionInv' /\ LoopInv' /\ LeaseInv'
  BY <1>1 DEF perSandbox, ReapsOnlyOrphans, ProvisionInv, LoopInv, LeaseInv
<1>4. ReapInv'
  <2> SUFFICES ASSUME NEW s \in todo', stage[s] # "orphan"
               PROVE  age[s] <= WaitPodReadyTimeout + 2 * Latency + Spent(todo') + (Latency - Latency)
    BY <1>1 DEF ReapInv, perSandbox
  <2>1. stage[s] \in {"absent", "creating", "waiting", "gone"} /\ s \in Sandboxes
    BY <1>1 DEF Untracked, Tracked, Stages, ReapsOnlyOrphans
  <2>2. age[s] <= WaitPodReadyTimeout + 2 * Latency
    BY <2>1 DEF ProvisionInv
  <2> QED BY <1>2, <2>2
<1>5. LateInv'
  <2>1. /\ SinceScan' = Round + 3 * Latency + Spent(todo')
        /\ SinceScan = Round + 2 * Latency + (Latency - due)
    BY <1>1, <1>2 DEF SinceScan
  <2>2. SinceScan <= SinceScan' /\ SinceScan \in Int /\ SinceScan' \in Int
    BY <1>1, <1>2, <2>1
  <2> HIDE DEF SinceScan
  <2> QED BY <1>1, <2>2 DEF LateInv, perSandbox
<1> QED BY <1>3, <1>4, <1>5

\* The other steps of the loop only move it on.
LEMMA LoopMovesOn ==
  ASSUME IInv, ExpireEnds \/ List \/ ListFails \/ ReapEnds \/ RefillEnds
  PROVE  IInv'
<1> USE Durations DEF IInv, TypeOK
<1>1. Spent({}) = Round /\ Spent(todo) \in Nat /\ Spent(todo) <= Round
  BY SpentProperties
<1>2. UNCHANGED perSandbox /\ at' \in {"list", "snapshot", "refill", "sleep"} /\ renewed' = {}
  BY DEF ExpireEnds, List, ListFails, ReapEnds, RefillEnds, Enter, LoopInv
<1>3. todo' \subseteq Sandboxes
  BY DEF ExpireEnds, List, ListFails, ReapEnds, RefillEnds
<1>4. /\ due' \in Nat
      /\ at' \in {"list", "snapshot"} => due' = Latency
      /\ at' = "refill" => due' = RefillTime
      /\ at' = "sleep" => due' = ReconcileEvery
  BY DEF ExpireEnds, List, ListFails, ReapEnds, RefillEnds, Enter
<1>5. TypeOK' /\ ReapsOnlyOrphans' /\ ProvisionInv' /\ LoopInv' /\ ReapInv' /\ LeaseInv'
  BY <1>2, <1>3, <1>4 DEF perSandbox, ReapsOnlyOrphans, ProvisionInv, LoopInv, ReapInv, LeaseInv
<1>6. LateInv'
  <2>1. SinceScan <= SinceScan' /\ SinceScan \in Int /\ SinceScan' \in Int
    <3>1. CASE ExpireEnds
      BY <1>1, <3>1 DEF ExpireEnds, SinceScan, Enter, LoopInv
    <3>2. CASE List
      BY <1>1, <3>2 DEF List, SinceScan, Enter, LoopInv
    <3>3. CASE ListFails
      BY <1>1, <3>3 DEF ListFails, SinceScan, Enter, LoopInv
    <3>4. CASE ReapEnds
      BY <1>1, <3>4 DEF ReapEnds, SinceScan, Enter, LoopInv
    <3>5. CASE RefillEnds
      BY <1>1, <3>5 DEF RefillEnds, SinceScan, Enter, LoopInv
    <3> QED BY <3>1, <3>2, <3>3, <3>4, <3>5
  <2>2. at = "expire" => todo = {}
    BY DEF ExpireEnds, List, ListFails, ReapEnds, RefillEnds
  <2> QED BY <1>2, <2>1, <2>2 DEF LateInv, perSandbox
<1> QED BY <1>5, <1>6

-----------------------------------------------------------------------------
(***************************************************************************)
(* Time keeps it                                                           *)
(***************************************************************************)

LEMMA TickKeeps == IInv /\ Tick => IInv'
<1> SUFFICES ASSUME IInv, Tick PROVE IInv'
  OBVIOUS
<1> USE Durations DEF IInv, TypeOK
<1>1. /\ due > 0 /\ due' = due - 1 /\ UNCHANGED <<stage, at, todo, renewed>>
      /\ \A s \in Sandboxes : stage[s] \in {"creating", "waiting"} => timer[s] > 0
  BY DEF Tick
<1>2. ASSUME NEW s \in Sandboxes
      PROVE  /\ timer'[s] \in Nat /\ timer'[s] <= timer[s]
             /\ timer[s] > 0 => timer'[s] = timer[s] - 1
             /\ token'[s] \in 0..TokenTTL
             /\ age'[s] \in 0..PodProvisionGrace /\ age'[s] <= age[s] + 1
             /\ ~HasPod(s) => age'[s] = age[s]
             /\ idle'[s] \in 0..QuietCap /\ quiet'[s] \in 0..QuietCap
             /\ quiet[s] <= quiet'[s] /\ quiet'[s] <= quiet[s] + 1
             /\ stage[s] = "claimed" /\ idle[s] = quiet[s] => idle'[s] = quiet'[s]
  <2>1. /\ timer[s] \in Nat /\ token[s] \in 0..TokenTTL /\ age[s] \in 0..PodProvisionGrace
        /\ idle[s] \in 0..QuietCap /\ quiet[s] \in 0..QuietCap
    OBVIOUS
  <2>2. timer'[s] = Down(timer[s]) /\ token'[s] = Down(token[s])
    BY DEF Tick
  <2>3. /\ age'[s] = IF HasPod(s) THEN Up(age[s], PodProvisionGrace) ELSE age[s]
        /\ idle'[s] = IF Tracked(s) THEN Up(idle[s], QuietCap) ELSE idle[s]
        /\ quiet'[s] = IF stage[s] = "claimed" THEN Up(quiet[s], QuietCap) ELSE quiet[s]
    BY DEF Tick
  <2>4. QuietCap \in Nat
    OBVIOUS
  <2>5. stage[s] = "claimed" => Tracked(s)
    BY DEF Tracked
  <2> HIDE DEF TypeOK, IInv
  <2> QED BY <2>1, <2>2, <2>3, <2>4, <2>5 DEF Up, Down
<1>3. /\ timer' = [s \in Sandboxes |-> timer'[s]] /\ token' = [s \in Sandboxes |-> token'[s]]
      /\ age' = [s \in Sandboxes |-> age'[s]] /\ idle' = [s \in Sandboxes |-> idle'[s]]
      /\ quiet' = [s \in Sandboxes |-> quiet'[s]]
  BY DEF Tick
<1>5. TypeOK'
  <2>1. timer' \in [Sandboxes -> 0..(WaitPodReadyTimeout + Latency)]
    BY <1>2, <1>3
  <2>2. /\ token' \in [Sandboxes -> 0..TokenTTL] /\ age' \in [Sandboxes -> 0..PodProvisionGrace]
        /\ idle' \in [Sandboxes -> 0..QuietCap] /\ quiet' \in [Sandboxes -> 0..QuietCap]
    BY <1>2, <1>3
  <2> QED BY <1>1, <2>1, <2>2
<1> HIDE DEF TypeOK
<1>7. ReapsOnlyOrphans' /\ LoopInv'
  BY <1>1 DEF ReapsOnlyOrphans, LoopInv, TypeOK
<1>8. ProvisionInv'
  <2> SUFFICES ASSUME NEW s \in Sandboxes
               PROVE  /\ stage[s] \in {"absent", "gone"} => age'[s] = 0
                      /\ stage[s] = "creating" => age'[s] + timer'[s] <= Latency
                      /\ stage[s] = "waiting" =>
                           age'[s] + timer'[s] <= WaitPodReadyTimeout + 2 * Latency
    BY <1>1 DEF ProvisionInv
  <2>1. stage[s] \in {"absent", "gone"} => ~HasPod(s)
    BY DEF HasPod
  <2>2. age[s] \in Nat /\ timer[s] \in Nat
    BY DEF TypeOK
  <2> QED BY <1>1, <1>2, <2>1, <2>2 DEF ProvisionInv
<1>9. Spent(todo) \in Nat /\ due \in Nat
  BY SpentProperties DEF TypeOK
<1>10. ReapInv'
  BY <1>1, <1>2, <1>9 DEF ReapInv, TypeOK, LoopInv
<1>11. LeaseInv'
  <2>1. \A s \in Sandboxes : quiet[s] \in Nat /\ quiet'[s] \in Nat /\ quiet[s] <= quiet'[s]
    BY <1>2 DEF TypeOK
  <2>2. todo \subseteq Sandboxes
    BY DEF TypeOK
  <2> QED BY <1>1, <1>2, <2>1, <2>2 DEF LeaseInv
<1>12. LateInv'
  <2>1. SinceScan' = SinceScan + 1 /\ SinceScan \in Int
    BY <1>1, <1>9 DEF SinceScan, TypeOK
  <2>2. \A s \in Sandboxes : quiet[s] \in Nat /\ quiet'[s] \in Nat /\ quiet'[s] <= quiet[s] + 1
    BY <1>2 DEF TypeOK
  <2> HIDE DEF SinceScan
  <2> QED BY <1>1, <2>1, <2>2 DEF LateInv
<1> QED BY <1>5, <1>7, <1>8, <1>10, <1>11, <1>12

-----------------------------------------------------------------------------

LEMMA NextKeeps == IInv /\ [Next]_vars => IInv'
<1> SUFFICES ASSUME IInv, [Next]_vars PROVE IInv'
  OBVIOUS
<1>1. CASE \E s \in Sandboxes : SandboxStep(s)
  <2>1. PICK s \in Sandboxes : SandboxStep(s)
    BY <1>1
  <2> QED BY <2>1, ClientStepKeeps, ExpireKeeps, ReapKeeps DEF SandboxStep, ClientStep
<1>2. CASE Scan \/ Snapshot \/ Tick
  BY <1>2, ScanKeeps, SnapshotKeeps, TickKeeps
<1>3. CASE ExpireEnds \/ List \/ ListFails \/ ReapEnds \/ RefillEnds
  BY <1>3, LoopMovesOn
<1>4. CASE UNCHANGED vars
  BY <1>4 DEF vars, perSandbox, loop, IInv, TypeOK, ReapsOnlyOrphans, ProvisionInv, LoopInv,
     ReapInv, LeaseInv, LateInv, SinceScan, Spent
<1> QED BY <1>1, <1>2, <1>3, <1>4 DEF Next

LEMMA Invariant == Spec => []IInv
  BY InitInvariant, NextKeeps, PTL DEF Spec

\* All clocks stay within their ranges: a step of provisioning or of the loop that
\* is due is taken. (reconcile, createPod, waitPodReady)
THEOREM JanitorTypes == Spec => []TypeOK
<1>1. IInv => TypeOK
  BY DEF IInv
<1> QED BY <1>1, Invariant, PTL

\* The reaper deletes no pod in use, for every number of sandboxes and all
\* durations for which the grace period covers the wait, the skew of the clocks,
\* and one call for each sandbox and two more. (reapOrphans)
THEOREM GraceSuffices == Spec => []ReapsOnlyOrphans
<1>1. IInv => ReapsOnlyOrphans
  BY DEF IInv
<1> QED BY <1>1, Invariant, PTL

\* A claimed sandbox is gone at the latest Overdue after its lease has ended.
\* (Run, deleteExpired)
THEOREM ExpiryIsPrompt == Spec => []ExpiryNotLate
<1>1. IInv => ExpiryNotLate
  <2> SUFFICES ASSUME IInv, NEW s \in Sandboxes, stage[s] = "claimed"
               PROVE  quiet[s] <= LeaseTTL + Overdue
    BY DEF ExpiryNotLate
  <2> USE Durations DEF IInv, TypeOK
  <2>1. Spent(todo) \in Nat /\ Spent(todo) <= Round /\ (todo # {} => Spent(todo) + Latency <= Round)
    BY SpentProperties
  <2>2. SinceScan <= Overdue /\ SinceScan \in Int
    BY <2>1 DEF SinceScan, LoopInv
  <2>3. at = "expire" /\ s \in todo => ReconcileEvery + CycleTime + SinceScan <= Overdue
    BY <2>1 DEF SinceScan, LoopInv
  <2> HIDE DEF SinceScan
  <2> QED BY <2>2, <2>3 DEF LateInv
<1> QED BY <1>1, Invariant, PTL

\* The janitor takes out only claimed sandboxes that are idle, or were when it
\* looked. (deleteExpired)
THEOREM OnlyIdleExpires == Spec => ExpiresOnlyIdle
<1>1. IInv /\ [Next]_vars =>
        [\A s \in todo :
           at = "expire" /\ Tracked(s) /\ stage'[s] # stage[s] /\ s \notin todo' =>
           stage[s] = "claimed" /\ (quiet[s] > LeaseTTL \/ s \in renewed)]_vars
  BY DEF IInv, LeaseInv, Tracked
<1> QED BY <1>1, Invariant, PTL DEF Spec, ExpiresOnlyIdle
=============================================================================
