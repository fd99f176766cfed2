--------------------------- MODULE WarmPoolProofs ---------------------------
(***************************************************************************)
(* The safety of WarmPool for every number of sandboxes, images, clients,  *)
(* refills and faults: types, no sandbox handed out twice, and none tracked *)
(* where nobody can reach it.                                              *)
(***************************************************************************)
EXTENDS WarmPool, SequenceTheorems, FiniteSetTheorems, TLAPS

(***************************************************************************)
(* The inductive invariant                                                 *)
(***************************************************************************)

\* A pod that was not created yet is nowhere, and one that was has an image.
AbsentInv ==
  \A s \in Sandboxes :
    /\ pod[s] = "absent" =>
         /\ s \notin byID /\ s \notin claimed /\ s \notin deleting
         /\ handouts[s] = 0
    /\ pod[s] # "absent" => image[s] \in Images

\* A worker past createPod has a sandbox of the image it was asked for, which
\* nobody else has, nobody was given, and until "append" nobody can find.
HeldInv ==
  \A w \in Workers :
    /\ pc[w] # "idle" => want[w] \in Images
    /\ pc[w] \in {"wait", "cleanup", "register", "append"} <=> mine[w] # NoSandbox
    /\ w \in Clients => pc[w] \notin {"start", "append"}
    /\ mine[w] # NoSandbox =>
         /\ pod[mine[w]] # "absent" /\ image[mine[w]] = want[w]
         /\ handouts[mine[w]] = 0 /\ mine[w] \notin claimed
         /\ pc[w] # "append" => mine[w] \notin byID
         /\ \A v \in Workers : mine[v] = mine[w] => v = w

\* A warm sandbox is in one place, the stack of its own image, unclaimed and
\* no longer in the hands of a worker.
WarmInv ==
  \A img \in Images : \A i \in 1..Len(byImage[img]) :
    LET s == byImage[img][i] IN
      /\ pod[s] # "absent" /\ image[s] = img
      /\ handouts[s] = 0 /\ s \notin claimed
      /\ \A w \in Workers : mine[w] # s
      /\ \A j \in 1..Len(byImage[img]) : byImage[img][j] = s => j = i

\* The event handler works on a sandbox unless it is idle.
WatchInv == watch.at # "idle" => watch.id \in Sandboxes /\ pod[watch.id] # "absent"

\* NoLostSandbox, with positions in the stacks.
PlacedInv ==
  \A s \in byID \ claimed :
    \/ \E img \in Images : \E i \in 1..Len(byImage[img]) : byImage[img][i] = s
    \/ \E r \in Refillers : pc[r] = "append" /\ mine[r] = s

IInv ==
  TypeOK /\ AbsentInv /\ HeldInv /\ WarmInv /\ WatchInv /\ HandedOutOnce /\ PlacedInv

-----------------------------------------------------------------------------
(***************************************************************************)
(* Lemmas about warm stacks                                                *)
(***************************************************************************)

\* Removing one element of a sequence keeps the others, in order.
LEMMA RemoveAtElements ==
  ASSUME NEW S, NEW q \in Seq(S), NEW k \in 1..Len(q)
  PROVE  /\ RemoveAt(q, k) \in Seq(S)
         /\ Len(RemoveAt(q, k)) = Len(q) - 1
         /\ \A i \in 1..(Len(q) - 1) :
              RemoveAt(q, k)[i] = IF i < k THEN q[i] ELSE q[i+1]
<1> DEFINE a == SubSeq(q, 1, k-1)
           b == SubSeq(q, k+1, Len(q))
<1>1. a \in Seq(S) /\ Len(a) = k - 1 /\ \A i \in 1..(k-1) : a[i] = q[i]
  OBVIOUS
<1>2. /\ b \in Seq(S) /\ Len(b) = Len(q) - k
      /\ \A i \in 1..(Len(q) - k) : b[i] = q[k+i]
  OBVIOUS
<1>3. RemoveAt(q, k) = a \o b
  BY DEF RemoveAt
<1>0. Len(q) \in Nat /\ k \in Nat
  OBVIOUS
<1> HIDE DEF a, b
<1>c. a \o b \in Seq(S) /\ Len(a \o b) = Len(a) + Len(b)
  BY <1>1, <1>2, ConcatProperties
<1>4. Len(a \o b) = Len(q) - 1 /\ a \o b \in Seq(S)
  BY <1>0, <1>1, <1>2, <1>c
<1>5. ASSUME NEW i \in 1..(Len(q) - 1)
      PROVE  (a \o b)[i] = IF i < k THEN q[i] ELSE q[i+1]
  <2>1. CASE i < k
    BY <1>1, <1>2, <2>1, ConcatProperties
  <2>2. CASE ~(i < k)
    <3>1. (a \o b)[i] = b[i - (k-1)]
      BY <1>1, <1>2, <2>2, ConcatProperties
    <3>2. i - (k-1) \in 1..(Len(q) - k)
      BY <2>2
    <3>3. k + (i - (k-1)) = i + 1
      OBVIOUS
    <3> QED BY <1>2, <3>1, <3>2, <3>3, <2>2
  <2> QED BY <2>1, <2>2
<1> QED BY <1>3, <1>4, <1>5

\* removeWarmRef takes a sandbox off its stack and moves nothing else.
LEMMA DropTrackedEffect ==
  ASSUME TypeOK, WarmInv, AbsentInv, NEW s \in Sandboxes, DropTracked(s)
  PROVE  /\ byID' = byID \ {s} /\ claimed' = claimed
         /\ byImage' \in [Images -> Seq(Sandboxes)]
         /\ \A img \in Images : \A i \in 1..Len(byImage'[img]) :
              /\ \E j \in 1..Len(byImage[img]) : byImage[img][j] = byImage'[img][i]
              /\ \A k \in 1..Len(byImage'[img]) :
                   byImage'[img][k] = byImage'[img][i] => k = i
         /\ \A img \in Images : \A j \in 1..Len(byImage[img]) :
              byImage[img][j] # s =>
                \E i \in 1..Len(byImage'[img]) : byImage'[img][i] = byImage[img][j]
         /\ \A img \in Images : Len(byImage'[img]) <= Len(byImage[img])
<1>1. byID' = byID \ {s} /\ claimed' = claimed
  BY DEF DropTracked
<1>2. CASE byImage' = byImage
  BY <1>1, <1>2 DEF TypeOK, WarmInv
<1>3. CASE byImage' # byImage
  <2>1. /\ s \in byID /\ s \in ToSet(byImage[image[s]])
        /\ byImage' = [byImage EXCEPT ![image[s]] = RemoveAt(@, WarmIndex(@, s))]
    BY <1>3 DEF DropTracked, RemoveWarmRef
  <2>2. image[s] \in Images
    BY <2>1 DEF AbsentInv
  <2> DEFINE m == image[s]
             q == byImage[m]
             k == WarmIndex(q, s)
  <2>3. q \in Seq(Sandboxes)
    BY <2>2 DEF TypeOK
  <2>4. k \in 1..Len(q) /\ q[k] = s
    <3>1. PICK n \in 1..Len(q) : q[n] = s
      BY <2>1, <2>3 DEF ToSet
    <3>2. \A j \in 1..(n-1) : q[j] # s
      BY <3>1, <2>2, <2>3 DEF WarmInv
    <3>3. n \in DOMAIN q /\ q[n] = s /\ \A j \in 1..(n-1) : q[j] # s
      BY <3>1, <3>2, <2>3
    <3> QED BY <3>3, <2>3 DEF WarmIndex
  <2> HIDE DEF k
  <2> DEFINE r == RemoveAt(q, k)
  <2>5. /\ r \in Seq(Sandboxes) /\ Len(r) = Len(q) - 1
        /\ \A i \in 1..(Len(q) - 1) : r[i] = IF i < k THEN q[i] ELSE q[i+1]
    BY <2>3, <2>4, RemoveAtElements
  <2>6. byImage' = [byImage EXCEPT ![m] = r]
    BY <2>1 DEF k
  <2> HIDE DEF r
  <2>7. byImage'[m] = r /\ \A img \in Images : img # m => byImage'[img] = byImage[img]
    BY <2>2, <2>6 DEF TypeOK
  <2>8. byImage' \in [Images -> Seq(Sandboxes)]
    BY <2>2, <2>5, <2>6 DEF TypeOK
  <2>9. \A a, b \in 1..Len(q) : q[a] = q[b] => a = b
    BY <2>2, <2>3 DEF WarmInv
  <2> HIDE DEF q, m
  <2>10. \A i \in 1..Len(r) :
            /\ \E j \in 1..Len(q) : q[j] = r[i]
            /\ \A n \in 1..Len(r) : r[n] = r[i] => n = i
    <3> SUFFICES ASSUME NEW i \in 1..Len(r)
                 PROVE  /\ \E j \in 1..Len(q) : q[j] = r[i]
                        /\ \A n \in 1..Len(r) : r[n] = r[i] => n = i
      OBVIOUS
    <3> DEFINE Old(n) == IF n < k THEN n ELSE n + 1
    <3>1. \A n \in 1..Len(r) : Old(n) \in 1..Len(q) /\ r[n] = q[Old(n)]
      BY <2>3, <2>4, <2>5
    <3>2. \A n \in 1..Len(r) : Old(n) = Old(i) => n = i
      BY <2>3, <2>4, <2>5
    <3> HIDE DEF Old
    <3> QED BY <3>1, <3>2, <2>9
  <2>11. \A j \in 1..Len(q) : q[j] # s => \E i \in 1..Len(r) : r[i] = q[j]
    <3> SUFFICES ASSUME NEW j \in 1..Len(q), q[j] # s
                 PROVE  \E i \in 1..Len(r) : r[i] = q[j]
      OBVIOUS
    <3>1. CASE j < k
      BY <3>1, <2>3, <2>4, <2>5
    <3>2. CASE j > k
      <4>1. j - 1 \in 1..Len(r) /\ ~(j - 1 < k) /\ (j - 1) + 1 = j
        BY <3>2, <2>3, <2>4, <2>5
      <4> QED BY <4>1, <2>5
    <3> QED BY <3>1, <3>2, <2>3, <2>4
  <2>12. \A img \in Images : \A i \in 1..Len(byImage'[img]) :
           /\ \E j \in 1..Len(byImage[img]) : byImage[img][j] = byImage'[img][i]
           /\ \A n \in 1..Len(byImage'[img]) :
                byImage'[img][n] = byImage'[img][i] => n = i
    <3> SUFFICES ASSUME NEW img \in Images
                 PROVE  \A i \in 1..Len(byImage'[img]) :
                   /\ \E j \in 1..Len(byImage[img]) : byImage[img][j] = byImage'[img][i]
                   /\ \A n \in 1..Len(byImage'[img]) :
                        byImage'[img][n] = byImage'[img][i] => n = i
      OBVIOUS
    <3>1. CASE img = m
      BY <3>1, <2>7, <2>10 DEF q
    <3>2. CASE img # m
      BY <3>2, <2>7 DEF WarmInv, TypeOK
    <3> QED BY <3>1, <3>2
  <2>13. \A img \in Images : \A j \in 1..Len(byImage[img]) :
           byImage[img][j] # s =>
             \E i \in 1..Len(byImage'[img]) : byImage'[img][i] = byImage[img][j]
    <3> SUFFICES ASSUME NEW img \in Images
                 PROVE  \A j \in 1..Len(byImage[img]) :
                   byImage[img][j] # s =>
                     \E i \in 1..Len(byImage'[img]) : byImage'[img][i] = byImage[img][j]
      OBVIOUS
    <3>1. CASE img = m
      BY <3>1, <2>7, <2>11 DEF q
    <3>2. CASE img # m
      BY <3>2, <2>7
    <3> QED BY <3>1, <3>2
  <2>14. \A img \in Images : Len(byImage'[img]) <= Len(byImage[img])
    <3>1. Len(r) <= Len(q)
      BY <2>3, <2>5
    <3>2. \A img \in Images : byImage[img] \in Seq(Sandboxes)
      BY DEF TypeOK
    <3>3. \A img \in Images : Len(byImage[img]) <= Len(byImage[img])
      BY <3>2
    <3> QED BY <2>7, <3>1, <3>3 DEF q
  <2> QED BY <1>1, <2>8, <2>12, <2>13, <2>14
<1> QED BY <1>2, <1>3

-----------------------------------------------------------------------------
(***************************************************************************)
(* Every step preserves the invariant                                      *)
(***************************************************************************)

USE WorkersAssumption, PoolAssumption, NullAssumption, FaultsAssumption

\* The fault budget keeps its type.
LEMMA FaultType ==
  ASSUME TypeOK, Fault PROVE faults' \in 0..MaxFaults
BY DEF TypeOK, Fault

\* Deleting a pod that exists changes no pod's existence before or after.
LEMMA KubeDeleteType ==
  ASSUME TypeOK, NEW s \in Sandboxes, pod[s] # "absent", KubeDelete(s)
  PROVE  /\ pod' \in [Sandboxes -> PodStates]
         /\ \A t \in Sandboxes : pod'[t] = "absent" <=> pod[t] = "absent"
BY DEF TypeOK, KubeDelete, PodStates

\* A step that touches neither the registry, the hands it is in, nor which
\* pods exist: the cluster's and the watch's own moves.
LEMMA QuietStep ==
  ASSUME IInv, TypeOK', WatchInv',
         UNCHANGED <<image, registry, handouts, pc, mine, want>>,
         deleting' \subseteq deleting,
         \A t \in Sandboxes : pod'[t] = "absent" <=> pod[t] = "absent"
  PROVE  IInv'
<1>1. AbsentInv'
  BY DEF IInv, AbsentInv, registry, TypeOK
<1>2. HeldInv'
  BY DEF IInv, HeldInv, registry, TypeOK
<1>3. WarmInv'
  BY DEF IInv, WarmInv, registry, TypeOK
<1>4. HandedOutOnce' /\ PlacedInv'
  BY DEF IInv, HandedOutOnce, PlacedInv, registry
<1> QED BY <1>1, <1>2, <1>3, <1>4 DEF IInv

\* A step that leaves the registry and the workers at "append" alone.
LEMMA PlacedFrame ==
  ASSUME PlacedInv, UNCHANGED registry,
         \A r \in Refillers : pc[r] = "append" => pc'[r] = "append" /\ mine'[r] = mine[r]
  PROVE  PlacedInv'
BY DEF PlacedInv, registry

\* NewSandbox finds no warm sandbox.
LEMMA StartColdStep ==
  ASSUME IInv, NEW c \in Clients, NEW img \in Images, StartCold(c, img) PROVE IInv'
<1> USE DEF IInv
<1>1. TypeOK'
  BY DEF StartCold, Goto, cluster, registry, Workers, Steps, PodStates, Events, TypeOK
<1>2. AbsentInv'
  BY DEF StartCold, Goto, cluster, registry, AbsentInv
<1>3. HeldInv'
  BY DEF StartCold, Goto, cluster, registry, TypeOK, HeldInv
<1>4. WarmInv'
  BY DEF StartCold, Goto, cluster, registry, WarmInv
<1>5. WatchInv'
  BY DEF StartCold, Goto, cluster, registry, WatchInv
<1>6. HandedOutOnce'
  BY DEF StartCold, Goto, cluster, registry, HandedOutOnce
<1>7. PlacedInv'
  <2>1. \A r \in Refillers : pc[r] = "append" => pc'[r] = "append" /\ mine'[r] = mine[r]
    BY DEF StartCold, Goto, registry, workers, Workers, TypeOK, HeldInv
  <2> QED BY <2>1, PlacedFrame DEF StartCold, registry
<1> QED BY <1>1, <1>2, <1>3, <1>4, <1>5, <1>6, <1>7

\* NewSandbox registers its cold pod.
LEMMA RegisterClaimedStep ==
  ASSUME IInv, NEW c \in Clients, RegisterClaimed(c) PROVE IInv'
<1> USE DEF IInv
<1>1. TypeOK'
  BY DEF RegisterClaimed, Quit, Goto, cluster, Workers, Steps, PodStates, Events, TypeOK, HeldInv
<1>2. AbsentInv'
  BY DEF RegisterClaimed, Quit, Goto, cluster, Workers, TypeOK, AbsentInv, HeldInv
<1>3. HeldInv'
  BY DEF RegisterClaimed, Quit, Goto, cluster, Workers, TypeOK, HeldInv
<1>4. WarmInv'
  BY DEF RegisterClaimed, Quit, Goto, cluster, Workers, TypeOK, WarmInv
<1>5. WatchInv'
  BY DEF RegisterClaimed, Quit, Goto, cluster, WatchInv
<1>6. HandedOutOnce'
  BY DEF RegisterClaimed, Quit, Goto, cluster, Workers, TypeOK, HeldInv, HandedOutOnce
<1>7. PlacedInv'
  BY DEF RegisterClaimed, Quit, Goto, cluster, PlacedInv
<1> QED BY <1>1, <1>2, <1>3, <1>4, <1>5, <1>6, <1>7

\* createPod, waitPodReady and the cleanup.
LEMMA CreatePodStep ==
  ASSUME IInv, NEW w \in Workers, CreatePod(w) PROVE IInv'
<1> USE DEF IInv
<1>1. TypeOK'
  BY DEF CreatePod, PodCreated, Goto, registry, Workers, Steps, PodStates, Events, TypeOK
<1>2. AbsentInv'
  BY DEF CreatePod, PodCreated, Goto, registry, TypeOK, AbsentInv, HeldInv
<1>3. HeldInv'
  BY DEF CreatePod, PodCreated, Goto, registry, TypeOK, AbsentInv, HeldInv
<1>4. WarmInv'
  BY DEF CreatePod, PodCreated, Goto, registry, Workers, WarmInv
<1>5. WatchInv'
  BY DEF CreatePod, PodCreated, Goto, registry, WatchInv
<1>6. HandedOutOnce'
  BY DEF CreatePod, PodCreated, Goto, registry, HandedOutOnce
<1>7. PlacedInv'
  <2>1. \A r \in Refillers : pc[r] = "append" => pc'[r] = "append" /\ mine'[r] = mine[r]
    BY DEF CreatePod, PodCreated, Goto, registry, workers, Workers, TypeOK, HeldInv
  <2> QED BY <2>1, PlacedFrame DEF CreatePod, registry
<1> QED BY <1>1, <1>2, <1>3, <1>4, <1>5, <1>6, <1>7

\* createPod reports an error although the pod exists.
LEMMA CreateLostStep ==
  ASSUME IInv, NEW w \in Workers, CreateLost(w) PROVE IInv'
<1> USE DEF IInv
<1>f. faults' \in 0..MaxFaults
  BY FaultType DEF CreateLost, TypeOK
<1>1. TypeOK'
  BY <1>f DEF CreateLost, PodCreated, Quit, Goto, registry, Workers, Steps, PodStates,
              Events, TypeOK
<1>2. AbsentInv'
  BY DEF CreateLost, PodCreated, Quit, Goto, registry, TypeOK, AbsentInv, HeldInv
<1>3. HeldInv'
  BY DEF CreateLost, PodCreated, Quit, Goto, registry, TypeOK, HeldInv
<1>4. WarmInv'
  BY DEF CreateLost, PodCreated, Quit, Goto, registry, TypeOK, WarmInv
<1>5. WatchInv'
  BY DEF CreateLost, PodCreated, Quit, Goto, registry, WatchInv
<1>6. HandedOutOnce'
  BY DEF CreateLost, PodCreated, Quit, Goto, registry, HandedOutOnce
<1>7. PlacedInv'
  <2>1. \A r \in Refillers : pc[r] = "append" => pc'[r] = "append" /\ mine'[r] = mine[r]
    BY DEF CreateLost, PodCreated, Quit, Goto, registry, workers, Workers, TypeOK, HeldInv
  <2> QED BY <2>1, PlacedFrame DEF CreateLost, registry
<1> QED BY <1>1, <1>2, <1>3, <1>4, <1>5, <1>6, <1>7

\* createPod reports an error and there is no pod.
LEMMA CreateRefusedStep ==
  ASSUME IInv, NEW w \in Workers, CreateRefused(w) PROVE IInv'
<1> USE DEF IInv
<1>f. faults' \in 0..MaxFaults
  BY FaultType DEF CreateRefused, TypeOK
<1>1. TypeOK'
  BY <1>f DEF CreateRefused, Quit, Goto, cluster, registry, Workers, Steps, PodStates,
              Events, TypeOK
<1>2. AbsentInv'
  BY DEF CreateRefused, Quit, Goto, cluster, registry, AbsentInv
<1>3. HeldInv'
  BY DEF CreateRefused, Quit, Goto, cluster, registry, TypeOK, HeldInv
<1>4. WarmInv'
  BY DEF CreateRefused, Quit, Goto, cluster, registry, TypeOK, WarmInv
<1>5. WatchInv'
  BY DEF CreateRefused, Quit, Goto, cluster, registry, WatchInv
<1>6. HandedOutOnce'
  BY DEF CreateRefused, Quit, Goto, cluster, registry, HandedOutOnce
<1>7. PlacedInv'
  <2>1. \A r \in Refillers : pc[r] = "append" => pc'[r] = "append" /\ mine'[r] = mine[r]
    BY DEF CreateRefused, Quit, Goto, registry, workers, Workers, TypeOK, HeldInv
  <2> QED BY <2>1, PlacedFrame DEF CreateRefused, registry
<1> QED BY <1>1, <1>2, <1>3, <1>4, <1>5, <1>6, <1>7

\* waitPodReady succeeds.
LEMMA WaitReadyStep ==
  ASSUME IInv, NEW w \in Workers, WaitReady(w) PROVE IInv'
<1> USE DEF IInv
<1>1. TypeOK'
  BY DEF WaitReady, Goto, cluster, registry, Workers, Steps, PodStates, Events, TypeOK
<1>2. AbsentInv'
  BY DEF WaitReady, Goto, cluster, registry, AbsentInv
<1>3. HeldInv'
  BY DEF WaitReady, Goto, cluster, registry, HeldInv
<1>4. WarmInv'
  BY DEF WaitReady, Goto, cluster, registry, WarmInv
<1>5. WatchInv'
  BY DEF WaitReady, Goto, cluster, registry, WatchInv
<1>6. HandedOutOnce'
  BY DEF WaitReady, Goto, cluster, registry, HandedOutOnce
<1>7. PlacedInv'
  <2>1. \A r \in Refillers : pc[r] = "append" => pc'[r] = "append" /\ mine'[r] = mine[r]
    BY DEF WaitReady, Goto, registry, workers, Workers, TypeOK, HeldInv
  <2> QED BY <2>1, PlacedFrame DEF WaitReady, registry
<1> QED BY <1>1, <1>2, <1>3, <1>4, <1>5, <1>6, <1>7

\* waitPodReady fails.
LEMMA WaitFailsStep ==
  ASSUME IInv, NEW w \in Workers, WaitFails(w) PROVE IInv'
<1> USE DEF IInv
<1>f. faults' \in 0..MaxFaults
  BY FaultType DEF WaitFails, TypeOK
<1>1. TypeOK'
  BY <1>f DEF WaitFails, Goto, cluster, registry, Workers, Steps, PodStates, Events, TypeOK
<1>2. AbsentInv'
  BY DEF WaitFails, Goto, cluster, registry, AbsentInv
<1>3. HeldInv'
  BY DEF WaitFails, Goto, cluster, registry, HeldInv
<1>4. WarmInv'
  BY DEF WaitFails, Goto, cluster, registry, WarmInv
<1>5. WatchInv'
  BY DEF WaitFails, Goto, cluster, registry, WatchInv
<1>6. HandedOutOnce'
  BY DEF WaitFails, Goto, cluster, registry, HandedOutOnce
<1>7. PlacedInv'
  <2>1. \A r \in Refillers : pc[r] = "append" => pc'[r] = "append" /\ mine'[r] = mine[r]
    BY DEF WaitFails, Goto, registry, workers, Workers, TypeOK, HeldInv
  <2> QED BY <2>1, PlacedFrame DEF WaitFails, registry
<1> QED BY <1>1, <1>2, <1>3, <1>4, <1>5, <1>6, <1>7

\* The pod that did not become ready is deleted.
LEMMA CleanupStep ==
  ASSUME IInv, NEW w \in Workers, Cleanup(w) PROVE IInv'
<1> USE DEF IInv
<1>f. faults' \in 0..MaxFaults
  BY FaultType DEF Cleanup, TypeOK
<1>p. /\ pod' \in [Sandboxes -> PodStates]
      /\ \A t \in Sandboxes : pod'[t] = "absent" <=> pod[t] = "absent"
  <2>1. mine[w] \in Sandboxes /\ pod[mine[w]] # "absent"
    BY DEF Cleanup, HeldInv, TypeOK, Workers
  <2> QED BY <2>1, KubeDeleteType DEF Cleanup, TypeOK
<1>1. TypeOK'
  BY <1>f, <1>p DEF Cleanup, Quit, Goto, registry, Workers, Steps, PodStates, Events, TypeOK
<1>2. AbsentInv'
  BY <1>p DEF Cleanup, Quit, Goto, registry, AbsentInv
<1>3. HeldInv'
  BY <1>p DEF Cleanup, Quit, Goto, registry, TypeOK, HeldInv
<1>4. WarmInv'
  BY <1>p DEF Cleanup, Quit, Goto, registry, TypeOK, WarmInv
<1>5. WatchInv'
  BY <1>p DEF Cleanup, Quit, Goto, registry, WatchInv
<1>6. HandedOutOnce'
  BY DEF Cleanup, Quit, Goto, registry, HandedOutOnce
<1>7. PlacedInv'
  <2>1. \A r \in Refillers : pc[r] = "append" => pc'[r] = "append" /\ mine'[r] = mine[r]
    BY DEF Cleanup, Quit, Goto, registry, workers, Workers, TypeOK, HeldInv
  <2> QED BY <2>1, PlacedFrame DEF Cleanup, registry
<1> QED BY <1>1, <1>2, <1>3, <1>4, <1>5, <1>6, <1>7

\* A refill starts.
LEMMA ReconcileStep ==
  ASSUME IInv, NEW img \in Images, Reconcile(img) PROVE IInv'
<1> USE DEF IInv
<1>1. TypeOK'
  BY DEF Reconcile, Goto, cluster, registry, Workers, Steps, PodStates, Events, TypeOK
<1>2. AbsentInv'
  BY DEF Reconcile, Goto, cluster, registry, AbsentInv
<1>3. HeldInv'
  BY DEF Reconcile, Goto, cluster, registry, TypeOK, HeldInv
<1>4. WarmInv'
  BY DEF Reconcile, Goto, cluster, registry, WarmInv
<1>5. WatchInv'
  BY DEF Reconcile, Goto, cluster, registry, WatchInv
<1>6. HandedOutOnce'
  BY DEF Reconcile, Goto, cluster, registry, HandedOutOnce
<1>7. PlacedInv'
  <2>1. \A r \in Refillers : pc[r] = "append" => pc'[r] = "append" /\ mine'[r] = mine[r]
    BY DEF Reconcile, Goto, registry, workers, Workers, TypeOK, HeldInv
  <2> QED BY <2>1, PlacedFrame DEF Reconcile, registry
<1> QED BY <1>1, <1>2, <1>3, <1>4, <1>5, <1>6, <1>7

\* The refill reads the pool's length.
LEMMA ReadPoolStep ==
  ASSUME IInv, NEW w \in Refillers, ReadPool(w) PROVE IInv'
<1> USE DEF IInv
<1>s. Shortfall(want[w]) \in Int
  BY DEF ReadPool, Shortfall, TypeOK, HeldInv, Workers
<1>1. TypeOK'
  <2>1. w \in Workers
    BY DEF Workers
  <2>2. left' \in [Workers -> Nat]
    <3>1. Shortfall(want[w]) > 0 => Shortfall(want[w]) \in Nat
      BY <1>s
    <3>2. \/ left' = [left EXCEPT ![w] = Shortfall(want[w])] /\ Shortfall(want[w]) > 0
          \/ left' = [left EXCEPT ![w] = 0]
      BY <1>s DEF ReadPool, Quit
    <3>3. left \in [Workers -> Nat]
      BY DEF TypeOK
    <3> QED BY <3>1, <3>2, <3>3
  <2>3. pc' \in [Workers -> Steps]
    BY <2>1 DEF ReadPool, Quit, Goto, TypeOK, Steps
  <2>4. /\ mine' \in [Workers -> Sandboxes \cup {NoSandbox}]
        /\ want' \in [Workers -> Images \cup {NoImage}]
    BY <2>1 DEF ReadPool, Quit, TypeOK
  <2> QED BY <2>2, <2>3, <2>4 DEF ReadPool, cluster, registry, TypeOK
<1>2. AbsentInv'
  BY DEF ReadPool, Quit, Goto, Shortfall, cluster, registry, AbsentInv
<1>3. HeldInv'
  BY DEF ReadPool, Quit, Goto, Shortfall, cluster, registry, TypeOK, HeldInv
<1>4. WarmInv'
  BY DEF ReadPool, Quit, Goto, Shortfall, cluster, registry, TypeOK, WarmInv
<1>5. WatchInv'
  BY DEF ReadPool, Quit, Goto, Shortfall, cluster, registry, WatchInv
<1>6. HandedOutOnce'
  BY DEF ReadPool, Quit, Goto, Shortfall, cluster, registry, HandedOutOnce
<1>7. PlacedInv'
  <2>1. \A r \in Refillers : pc[r] = "append" => pc'[r] = "append" /\ mine'[r] = mine[r]
    BY DEF ReadPool, Quit, Goto, Shortfall, registry, workers, Workers, TypeOK, HeldInv
  <2> QED BY <2>1, PlacedFrame DEF ReadPool, registry
<1> QED BY <1>1, <1>2, <1>3, <1>4, <1>5, <1>6, <1>7

\* The refill registers its pod.
LEMMA RegisterWarmStep ==
  ASSUME IInv, NEW r \in Refillers, RegisterWarm(r) PROVE IInv'
<1> USE DEF IInv
<1>1. TypeOK'
  BY DEF RegisterWarm, Goto, cluster, Workers, Steps, PodStates, Events, TypeOK, HeldInv
<1>2. AbsentInv'
  BY DEF RegisterWarm, Goto, cluster, Workers, TypeOK, AbsentInv, HeldInv
<1>3. HeldInv'
  BY DEF RegisterWarm, Goto, cluster, Workers, TypeOK, HeldInv
<1>4. WarmInv'
  BY DEF RegisterWarm, Goto, cluster, WarmInv
<1>5. WatchInv'
  BY DEF RegisterWarm, Goto, cluster, WatchInv
<1>6. HandedOutOnce'
  BY DEF RegisterWarm, Goto, cluster, HandedOutOnce
<1>7. PlacedInv'
  BY DEF RegisterWarm, Goto, cluster, Workers, TypeOK, HeldInv, PlacedInv
<1> QED BY <1>1, <1>2, <1>3, <1>4, <1>5, <1>6, <1>7

\* A crash empties the process and leaves the cluster.
LEMMA CrashStep ==
  ASSUME IInv, Crash PROVE IInv'
<1> USE DEF IInv
<1>f. faults' \in 0..MaxFaults
  BY FaultType DEF Crash
<1>1. TypeOK'
  <2>1. byImage' \in [Images -> Seq(Sandboxes)]
    BY DEF Crash
  <2> QED BY <1>f, <2>1 DEF Crash, TypeOK, cluster, WatchIdle, Steps, Events
<1>2. AbsentInv'
  BY DEF Crash, cluster, AbsentInv
<1>3. HeldInv'
  BY DEF Crash, cluster, HeldInv
<1>4. WarmInv'
  BY DEF Crash, cluster, WarmInv
<1>5. WatchInv'
  BY DEF Crash, WatchInv, WatchIdle
<1>6. HandedOutOnce'
  BY DEF Crash, cluster, HandedOutOnce
<1>7. PlacedInv'
  BY DEF Crash, cluster, PlacedInv
<1> QED BY <1>1, <1>2, <1>3, <1>4, <1>5, <1>6, <1>7

\* NewSandbox pops a warm sandbox.
LEMMA ClaimWarmStep ==
  ASSUME IInv, NEW c \in Clients, NEW img \in Images, ClaimWarm(c, img) PROVE IInv'
<1> USE DEF IInv
<1> DEFINE q == byImage[img]
           s == Last(q)
<1>1. /\ q \in Seq(Sandboxes) /\ Len(q) \in 1..Len(q)
      /\ s = q[Len(q)] /\ s \in Sandboxes
  BY DEF ClaimWarm, TypeOK, Last
<1>2. /\ byImage'[img] \in Seq(Sandboxes) /\ Len(byImage'[img]) = Len(q) - 1
      /\ \A i \in 1..(Len(q) - 1) : byImage'[img][i] = q[i]
  <2>1. byImage'[img] = SubSeq(q, 1, Len(q) - 1)
    BY DEF ClaimWarm, TypeOK, Front
  <2> QED BY <1>1, <2>1
<1>3. /\ byImage' \in [Images -> Seq(Sandboxes)]
      /\ \A g \in Images : g # img => byImage'[g] = byImage[g]
  BY <1>2 DEF ClaimWarm, TypeOK
<1>4. /\ claimed' = claimed \cup {s}
      /\ handouts' = [handouts EXCEPT ![s] = @ + 1]
      /\ UNCHANGED <<cluster, byID, workers, deleting, event, watch, faults>>
  BY DEF ClaimWarm
<1>5. /\ pod[s] # "absent" /\ image[s] = img /\ handouts[s] = 0
      /\ \A w \in Workers : mine[w] # s
      /\ \A j \in 1..Len(q) : q[j] = s => j = Len(q)
  BY <1>1 DEF WarmInv
<1> HIDE DEF s
<1>6. TypeOK'
  BY <1>1, <1>3, <1>4 DEF TypeOK, cluster, workers
<1>7. AbsentInv'
  BY <1>1, <1>4, <1>5 DEF AbsentInv, TypeOK, cluster, workers
<1>8. HeldInv'
  BY <1>1, <1>4, <1>5 DEF HeldInv, TypeOK, cluster, workers
<1>9. WarmInv'
  <2> SUFFICES ASSUME NEW g \in Images, NEW i \in 1..Len(byImage'[g])
               PROVE  LET t == byImage'[g][i] IN
                        /\ pod[t] # "absent" /\ image[t] = g
                        /\ handouts'[t] = 0 /\ t \notin claimed'
                        /\ \A w \in Workers : mine[w] # t
                        /\ \A j \in 1..Len(byImage'[g]) : byImage'[g][j] = t => j = i
    BY <1>4 DEF WarmInv, cluster, workers
  <2>1. /\ byImage'[g][i] # s
        /\ \A j \in 1..Len(byImage'[g]) :
             j \in 1..Len(byImage[g]) /\ byImage'[g][j] = byImage[g][j]
    <3>1. CASE g = img
      BY <3>1, <1>1, <1>2, <1>5
    <3>2. CASE g # img
      BY <3>2, <1>1, <1>3, <1>5 DEF WarmInv, TypeOK
    <3> QED BY <3>1, <3>2
  <2>2. byImage[g][i] \in Sandboxes
    BY <2>1 DEF TypeOK
  <2>3. \A t \in Sandboxes : t # s =>
          handouts'[t] = handouts[t] /\ (t \in claimed' <=> t \in claimed)
    BY <1>1, <1>4 DEF TypeOK
  <2> QED BY <2>1, <2>2, <2>3 DEF WarmInv
<1>10. WatchInv'
  BY <1>4 DEF WatchInv, cluster
<1>11. HandedOutOnce'
  BY <1>1, <1>4, <1>5 DEF HandedOutOnce, TypeOK
<1>12. PlacedInv'
  <2> SUFFICES ASSUME NEW t \in byID, t \notin claimed, t # s,
                      NEW g \in Images, NEW i \in 1..Len(byImage[g]), byImage[g][i] = t
               PROVE  \E j \in 1..Len(byImage'[g]) : byImage'[g][j] = t
    BY <1>4 DEF PlacedInv, workers
  <2>1. CASE g = img
    <3>1. i # Len(q)
      BY <2>1, <1>1
    <3>2. i \in 1..Len(byImage'[g]) /\ byImage'[g][i] = t
      BY <2>1, <3>1, <1>1, <1>2
    <3> QED BY <3>2
  <2>2. CASE g # img
    BY <2>2, <1>3
  <2> QED BY <2>1, <2>2
<1> QED BY <1>6, <1>7, <1>8, <1>9, <1>10, <1>11, <1>12

\* The refill appends its pod to the warm stack.
LEMMA AppendWarmStep ==
  ASSUME IInv, NEW r \in Refillers, AppendWarm(r) PROVE IInv'
<1> USE DEF IInv
<1> DEFINE img == want[r]
           s == mine[r]
           q == byImage[img]
<1>1. /\ r \in Workers /\ img \in Images /\ s \in Sandboxes /\ q \in Seq(Sandboxes)
      /\ pod[s] # "absent" /\ image[s] = img /\ handouts[s] = 0 /\ s \notin claimed
      /\ \A v \in Workers : mine[v] = s => v = r
  BY DEF AppendWarm, TypeOK, HeldInv, Workers
<1>2. /\ byImage'[img] \in Seq(Sandboxes) /\ Len(byImage'[img]) = Len(q) + 1
      /\ byImage'[img][Len(q) + 1] = s
      /\ \A i \in 1..Len(q) : byImage'[img][i] = q[i]
  BY <1>1 DEF AppendWarm, TypeOK
<1>3. /\ byImage' \in [Images -> Seq(Sandboxes)]
      /\ \A g \in Images : g # img => byImage'[g] = byImage[g]
  BY <1>1, <1>2 DEF AppendWarm, TypeOK
<1>4. \A g \in Images : \A i \in 1..Len(byImage[g]) : byImage[g][i] # s
  BY <1>1 DEF WarmInv
<1>5. UNCHANGED <<cluster, byID, claimed, handouts, deleting, event, watch, faults>>
  BY DEF AppendWarm
<1>m. /\ mine' \in [Workers -> Sandboxes \cup {NoSandbox}] /\ mine'[r] = NoSandbox
      /\ \A v \in Workers : v # r => mine'[v] = mine[v]
  <2>1. mine' = [mine EXCEPT ![r] = NoSandbox]
    BY DEF AppendWarm, Quit
  <2> QED BY <2>1, <1>1 DEF TypeOK
<1>6. /\ pc' \in [Workers -> Steps] /\ pc'[r] \in {"create", "idle"}
      /\ \A v \in Workers : v # r => pc'[v] = pc[v] /\ want'[v] = want[v]
      /\ want' \in [Workers -> Images \cup {NoImage}]
      /\ pc'[r] = "create" => want'[r] = img
  BY <1>1 DEF AppendWarm, Quit, Goto, TypeOK, Steps
<1>7. left' \in [Workers -> Nat]
  <2>1. left \in [Workers -> Nat] /\ left[r] \in Nat
    BY <1>1 DEF TypeOK
  <2>2. \/ left[r] > 1 /\ left' = [left EXCEPT ![r] = left[r] - 1]
        \/ left' = [left EXCEPT ![r] = 0]
    BY DEF AppendWarm, Quit
  <2> QED BY <2>1, <2>2
<1> HIDE DEF s, img
<1>8. TypeOK'
  BY <1>1, <1>3, <1>5, <1>m, <1>6, <1>7 DEF TypeOK, cluster
<1>9. AbsentInv'
  BY <1>5 DEF AbsentInv, cluster
<1>10. HeldInv'
  <2>1. r \notin Clients
    BY WorkersAssumption
  <2> QED BY <1>1, <1>5, <1>m, <1>6, <2>1 DEF HeldInv, cluster
<1>11. WarmInv'
  <2> SUFFICES ASSUME NEW g \in Images, NEW i \in 1..Len(byImage'[g])
               PROVE  LET t == byImage'[g][i] IN
                        /\ pod[t] # "absent" /\ image[t] = g
                        /\ handouts[t] = 0 /\ t \notin claimed
                        /\ \A w \in Workers : mine'[w] # t
                        /\ \A j \in 1..Len(byImage'[g]) : byImage'[g][j] = t => j = i
    BY <1>5 DEF WarmInv, cluster
  <2>1. ASSUME NEW t \in Sandboxes, \A w \in Workers : w # r => mine[w] # t
        PROVE  \A w \in Workers : mine'[w] # t
    BY <2>1, <1>m, NullAssumption
  <2>2. CASE g # img
    <3>1. byImage'[g] = byImage[g] /\ i \in 1..Len(byImage[g]) /\ byImage[g][i] \in Sandboxes
      BY <2>2, <1>3 DEF TypeOK
    <3> QED BY <2>1, <3>1 DEF WarmInv
  <2>3. CASE g = img /\ i = Len(q) + 1
    BY <2>1, <2>3, <1>1, <1>2, <1>4 DEF img
  <2>4. CASE g = img /\ i # Len(q) + 1
    <3>1. Len(q) \in Nat
      BY <1>1
    <3>2. i \in 1..Len(q)
      BY <2>4, <3>1, <1>2
    <3>3. byImage'[g][i] = q[i]
      BY <2>4, <3>2, <1>2
    <3>4. q[i] \in Sandboxes
      BY <3>2, <1>1
    <3>5. /\ pod[q[i]] # "absent" /\ image[q[i]] = g
          /\ handouts[q[i]] = 0 /\ q[i] \notin claimed
          /\ \A w \in Workers : mine[w] # q[i]
          /\ \A j \in 1..Len(q) : q[j] = q[i] => j = i
      BY <3>2, <2>4, <1>1 DEF WarmInv
    <3>6. ASSUME NEW j \in 1..Len(byImage'[g]), byImage'[g][j] = q[i] PROVE j = i
      <4>1. j \in 1..Len(q) \/ j = Len(q) + 1
        BY <3>1, <2>4, <1>2
      <4>2. s # q[i]
        BY <3>2, <1>1, <1>4
      <4>3. j \in 1..Len(q) => q[j] = q[i]
        BY <3>6, <2>4, <1>2
      <4>4. j # Len(q) + 1
        BY <3>6, <4>2, <2>4, <1>2
      <4> QED BY <4>1, <4>3, <4>4, <3>5
    <3> QED BY <3>3, <3>4, <3>5, <3>6, <2>1
  <2> QED BY <2>2, <2>3, <2>4
<1>12. WatchInv' /\ HandedOutOnce'
  BY <1>5 DEF WatchInv, HandedOutOnce, cluster
<1>13. PlacedInv'
  <2> SUFFICES ASSUME NEW t \in byID, t \notin claimed
               PROVE  \/ \E g \in Images : \E i \in 1..Len(byImage'[g]) : byImage'[g][i] = t
                      \/ \E v \in Refillers : pc'[v] = "append" /\ mine'[v] = t
    BY <1>5 DEF PlacedInv
  <2>1. ASSUME NEW g \in Images, NEW i \in 1..Len(byImage[g]), byImage[g][i] = t
        PROVE  \E j \in 1..Len(byImage'[g]) : byImage'[g][j] = t
    <3>1. CASE g = img
      <4>1. Len(q) \in Nat
        BY <1>1
      <4>2. i \in 1..Len(byImage'[img]) /\ byImage'[img][i] = q[i]
        BY <3>1, <2>1, <4>1, <1>2
      <4> QED BY <4>2, <3>1, <2>1
    <3>2. CASE g # img
      BY <3>2, <2>1, <1>3
    <3> QED BY <3>1, <3>2
  <2>2. ASSUME NEW v \in Refillers, pc[v] = "append", mine[v] = t, v # r
        PROVE  pc'[v] = "append" /\ mine'[v] = t
    BY <2>2, <1>m, <1>6 DEF Workers
  <2>3. t = s => \E i \in 1..Len(byImage'[img]) : byImage'[img][i] = t
    <3>1. Len(q) + 1 \in 1..Len(byImage'[img])
      BY <1>1, <1>2
    <3> QED BY <3>1, <1>2
  <2> QED BY <2>1, <2>2, <2>3, <1>1 DEF PlacedInv, s
<1> QED BY <1>8, <1>9, <1>10, <1>11, <1>12, <1>13

\* The registry's part of DeleteSandbox and of the watch.
LEMMA DropTrackedStep ==
  ASSUME IInv, NEW s \in Sandboxes, DropTracked(s), TypeOK', WatchInv',
         UNCHANGED <<cluster, handouts, workers>>,
         deleting' \subseteq deleting \cup ({s} \cap byID)
  PROVE  IInv'
<1> USE DEF IInv
<1>1. byID' = byID \ {s} /\ claimed' = claimed
  BY DropTrackedEffect
<1>2. AbsentInv'
  BY <1>1 DEF AbsentInv, cluster
<1>3. HeldInv'
  BY <1>1 DEF HeldInv, cluster, workers
<1>4. WarmInv'
  <2> SUFFICES ASSUME NEW g \in Images, NEW i \in 1..Len(byImage'[g])
               PROVE  /\ \E j \in 1..Len(byImage[g]) : byImage[g][j] = byImage'[g][i]
                      /\ \A k \in 1..Len(byImage'[g]) :
                           byImage'[g][k] = byImage'[g][i] => k = i
    BY <1>1 DEF WarmInv, cluster, workers
  <2> QED BY DropTrackedEffect
<1>5. HandedOutOnce'
  BY DEF HandedOutOnce
<1>6. PlacedInv'
  <2> SUFFICES ASSUME NEW t \in byID, t # s, t \notin claimed
               PROVE  \/ \E g \in Images : \E i \in 1..Len(byImage'[g]) : byImage'[g][i] = t
                      \/ \E v \in Refillers : pc[v] = "append" /\ mine[v] = t
    BY <1>1 DEF PlacedInv, workers
  <2>1. \A g \in Images : \A j \in 1..Len(byImage[g]) :
           byImage[g][j] = t => \E i \in 1..Len(byImage'[g]) : byImage'[g][i] = t
    <3>1. \A g \in Images : \A j \in 1..Len(byImage[g]) :
             byImage[g][j] # s => \E i \in 1..Len(byImage'[g]) : byImage'[g][i] = byImage[g][j]
      BY DropTrackedEffect
    <3> QED BY <3>1
  <2> QED BY <2>1 DEF PlacedInv
<1> QED BY <1>2, <1>3, <1>4, <1>5, <1>6

\* DeleteSandbox forgets the sandbox.
LEMMA DeleteSandboxStep ==
  ASSUME IInv, NEW s \in Sandboxes, DeleteSandbox(s) PROVE IInv'
<1>1. TypeOK'
  BY DropTrackedEffect DEF IInv, DeleteSandbox, TypeOK, cluster, workers
<1>2. WatchInv'
  BY DEF IInv, DeleteSandbox, WatchInv, cluster
<1> QED BY <1>1, <1>2, DropTrackedStep DEF DeleteSandbox

\* The watch forgets a sandbox.
LEMMA WatchDropsStep ==
  ASSUME IInv, WatchDrops PROVE IInv'
<1>1. watch.id \in Sandboxes /\ watch.at \in {"drop", "forget"} /\ DropTracked(watch.id)
  BY DEF IInv, WatchDrops, WatchInv
<1>2. TypeOK'
  <2>1. watch' \in [at : {"idle", "drop", "forget", "delete"},
                    id : Sandboxes \cup {NoSandbox}]
    BY <1>1 DEF IInv, WatchDrops, TypeOK, WatchIdle
  <2> QED BY <1>1, <2>1, DropTrackedEffect DEF IInv, WatchDrops, TypeOK, cluster, workers
<1>3. WatchInv'
  BY <1>1 DEF IInv, TypeOK, WatchDrops, WatchInv, WatchIdle, cluster
<1> QED BY <1>1, <1>2, <1>3, DropTrackedStep DEF WatchDrops

\* DeleteSandbox deletes the pod and spawns a refill.
LEMMA DeletePodStep ==
  ASSUME IInv, NEW s \in Sandboxes, DeletePod(s) PROVE IInv'
<1> USE DEF IInv
<1>1. pod[s] # "absent" /\ image[s] \in Images
  BY DEF DeletePod, AbsentInv
<1>2. /\ pod' \in [Sandboxes -> PodStates]
      /\ \A t \in Sandboxes : pod'[t] = "absent" <=> pod[t] = "absent"
  BY <1>1, KubeDeleteType DEF DeletePod
<1>3. CASE UNCHANGED workers
  <2>1. TypeOK'
    BY <1>2, <1>3 DEF DeletePod, TypeOK, workers, registry
  <2>2. WatchInv'
    BY <1>2 DEF DeletePod, WatchInv
  <2> QED BY <1>2, <1>3, <2>1, <2>2, QuietStep DEF DeletePod, workers
<1>4. ASSUME NEW r \in Refillers, pc[r] = "idle", Goto(r, "start"),
             want' = [want EXCEPT ![r] = image[s]], UNCHANGED <<mine, left>>
      PROVE  IInv'
  <2>1. TypeOK'
    BY <1>1, <1>2, <1>4 DEF DeletePod, TypeOK, registry, Goto, Steps, Workers
  <2>2. AbsentInv'
    BY <1>2 DEF DeletePod, AbsentInv, registry
  <2>3. HeldInv'
    BY <1>1, <1>2, <1>4, WorkersAssumption DEF DeletePod, HeldInv, TypeOK, registry, Goto, Workers
  <2>4. WarmInv'
    BY <1>2, <1>4 DEF DeletePod, WarmInv, TypeOK, registry
  <2>5. WatchInv' /\ HandedOutOnce'
    BY <1>2 DEF DeletePod, WatchInv, HandedOutOnce
  <2>6. \A v \in Refillers : pc[v] = "append" => pc'[v] = "append" /\ mine'[v] = mine[v]
    BY <1>4 DEF Goto, TypeOK, Workers
  <2>7. PlacedInv'
    BY <2>6, PlacedFrame DEF DeletePod
  <2> QED BY <2>1, <2>2, <2>3, <2>4, <2>5, <2>7
<1> QED BY <1>3, <1>4 DEF DeletePod, SpawnRefill

\* What the cluster and the watch do by themselves.
LEMMA ClusterStep ==
  ASSUME IInv, NEW s \in Sandboxes,
         DeletePodFails(s) \/ Notify(s) \/ HandleEvent(s) \/ Reap(s) \/ PodReady(s) \/ PodFails(s)
  PROVE  IInv'
<1> USE DEF IInv
<1>1. CASE DeletePodFails(s)
  <2>1. TypeOK'
    BY <1>1, FaultType DEF DeletePodFails, TypeOK, cluster, registry, workers
  <2>2. WatchInv'
    BY <1>1 DEF DeletePodFails, WatchInv, cluster
  <2> QED BY <1>1, <2>1, <2>2, QuietStep DEF DeletePodFails, cluster, workers
<1>2. CASE Notify(s)
  <2>1. TypeOK'
    BY <1>2 DEF Notify, TypeOK, Events, cluster, registry, workers
  <2>2. WatchInv'
    BY <1>2 DEF Notify, WatchInv, cluster
  <2> QED BY <1>2, <2>1, <2>2, QuietStep DEF Notify, cluster, workers
<1>3. CASE HandleEvent(s)
  <2>1. TypeOK'
    BY <1>3 DEF HandleEvent, TypeOK, Events, cluster, registry, workers
  <2>2. WatchInv'
    BY <1>3 DEF HandleEvent, WatchInv, AbsentInv, cluster
  <2> QED BY <1>3, <2>1, <2>2, QuietStep DEF HandleEvent, cluster, workers
<1>4. ASSUME pod[s] # "absent", KubeDelete(s), faults' \in 0..MaxFaults,
             UNCHANGED <<image, registry, handouts, workers, deleting, event, watch>>
      PROVE  IInv'
  <2>1. /\ pod' \in [Sandboxes -> PodStates]
        /\ \A t \in Sandboxes : pod'[t] = "absent" <=> pod[t] = "absent"
    BY <1>4, KubeDeleteType
  <2>2. TypeOK'
    BY <1>4, <2>1 DEF TypeOK, registry, workers
  <2>3. WatchInv'
    BY <1>4, <2>1 DEF WatchInv
  <2> QED BY <1>4, <2>1, <2>2, <2>3, QuietStep DEF workers
<1>5. CASE Reap(s)
  BY <1>4, <1>5 DEF Reap, Alive, TypeOK
<1>6. ASSUME NEW old \in {"ready", "notready"}, NEW new \in {"ready", "notready"},
             pod[s] = old, pod' = [pod EXCEPT ![s] = new], faults' \in 0..MaxFaults,
             UNCHANGED <<image, registry, handouts, workers, deleting, event, watch>>
      PROVE  IInv'
  <2>1. /\ pod' \in [Sandboxes -> PodStates]
        /\ \A t \in Sandboxes : pod'[t] = "absent" <=> pod[t] = "absent"
    BY <1>6 DEF TypeOK, PodStates
  <2>2. TypeOK'
    BY <1>6, <2>1 DEF TypeOK, registry, workers
  <2>3. WatchInv'
    BY <1>6, <2>1 DEF WatchInv
  <2> QED BY <1>6, <2>1, <2>2, <2>3, QuietStep DEF workers
<1>7. CASE PodReady(s)
  BY <1>6, <1>7 DEF PodReady, TypeOK
<1>8. CASE PodFails(s)
  <2>1. faults' \in 0..MaxFaults
    BY <1>8, FaultType DEF PodFails
  <2> QED BY <2>1, <1>4, <1>6, <1>8 DEF PodFails, Alive
<1> QED BY <1>1, <1>2, <1>3, <1>5, <1>7, <1>8

\* The watch deletes the pod it dropped.
LEMMA WatchDeletesStep ==
  ASSUME IInv, WatchDeletes PROVE IInv'
<1> USE DEF IInv
<1>1. watch.id \in Sandboxes /\ pod[watch.id] # "absent"
  BY DEF WatchDeletes, WatchInv
<1>2. /\ pod' \in [Sandboxes -> PodStates]
      /\ \A t \in Sandboxes : pod'[t] = "absent" <=> pod[t] = "absent"
  BY <1>1, KubeDeleteType DEF WatchDeletes, TypeOK
<1>3. faults' \in 0..MaxFaults
  BY FaultType DEF WatchDeletes, TypeOK
<1>4. TypeOK'
  BY <1>2, <1>3 DEF WatchDeletes, TypeOK, WatchIdle, registry, workers
<1>5. WatchInv'
  BY DEF WatchDeletes, WatchInv, WatchIdle
<1> QED BY <1>2, <1>4, <1>5, QuietStep DEF WatchDeletes, workers

-----------------------------------------------------------------------------
(***************************************************************************)
(* The theorems                                                            *)
(***************************************************************************)

\* The initial states satisfy the invariant.
LEMMA InitInv == Init => IInv
<1> SUFFICES ASSUME Init PROVE IInv
  OBVIOUS
<1> USE DEF Init
<1>1. TypeOK
  BY DEF TypeOK, PodStates, Steps, Events, WatchIdle
<1>2. AbsentInv /\ HeldInv /\ WarmInv /\ WatchInv
  BY DEF AbsentInv, HeldInv, WarmInv, WatchInv, WatchIdle
<1>3. HandedOutOnce /\ PlacedInv
  BY DEF HandedOutOnce, PlacedInv
<1> QED BY <1>1, <1>2, <1>3 DEF IInv

\* Every step preserves it: one case per action.
LEMMA NextInv == IInv /\ [Next]_vars => IInv'
<1> SUFFICES ASSUME IInv, [Next]_vars PROVE IInv'
  OBVIOUS
<1>1. CASE UNCHANGED vars
  <2>1. TypeOK' /\ WatchInv'
    BY <1>1 DEF IInv, TypeOK, WatchInv, vars, cluster, registry, workers
  <2> QED BY <1>1, <2>1, QuietStep DEF vars, cluster, workers
<1>2. ASSUME NEW c \in Clients, ClientStep(c) PROVE IInv'
  BY <1>2, ClaimWarmStep, StartColdStep, RegisterClaimedStep DEF ClientStep
<1>3. ASSUME NEW w \in Workers, ProvisionStep(w) PROVE IInv'
  BY <1>3, CreatePodStep, CreateLostStep, CreateRefusedStep, WaitReadyStep,
     WaitFailsStep, CleanupStep DEF ProvisionStep
<1>4. ASSUME NEW r \in Refillers, RefillStep(r) PROVE IInv'
  BY <1>4, ReadPoolStep, RegisterWarmStep, AppendWarmStep DEF RefillStep
<1>5. ASSUME NEW s \in Sandboxes, SandboxStep(s) PROVE IInv'
  BY <1>5, DeleteSandboxStep, DeletePodStep, ClusterStep DEF SandboxStep
<1> QED BY <1>1, <1>2, <1>3, <1>4, <1>5, ReconcileStep, WatchDropsStep,
           WatchDeletesStep, CrashStep DEF Next

\* The invariant holds in every reachable state of the registry.
THEOREM Invariance == Spec => []IInv
BY InitInv, NextInv, PTL DEF Spec

\* Every variable of the registry keeps its type.
THEOREM TypeCorrect == Spec => []TypeOK
<1>1. IInv => TypeOK
  BY DEF IInv
<1> QED BY <1>1, Invariance, PTL

\* Whatever claims, cold creates, refills, deletions, drops and crashes
\* interleave, no sandbox is returned by two calls of NewSandbox.
THEOREM NeverHandedOutTwice == Spec => []HandedOutOnce
<1>1. IInv => HandedOutOnce
  BY DEF IInv
<1> QED BY <1>1, Invariance, PTL

\* A tracked sandbox that no client has is warm, or about to be: there is none
\* that neither the janitor, nor the reaper, nor NewSandbox would ever touch.
THEOREM NoneLost == Spec => []NoLostSandbox
<1>1. IInv => NoLostSandbox
  <2> SUFFICES ASSUME IInv, NEW s \in byID \ claimed, NEW img \in Images,
                      NEW i \in 1..Len(byImage[img]), byImage[img][i] = s
               PROVE  s \in Warm
    BY DEF IInv, PlacedInv, NoLostSandbox
  <2>1. s \in ToSet(byImage[img])
    BY DEF IInv, TypeOK, ToSet
  <2> QED BY <2>1 DEF Warm
<1> QED BY <1>1, Invariance, PTL

-----------------------------------------------------------------------------
(***************************************************************************)
(* The size of the pools                                                   *)
(***************************************************************************)

\* A refill that is past its count of the pool adds at least one pod more, and no
\* more than a pool.
LeftInv ==
  \A r \in Refillers :
    IF pc[r] \in {"idle", "start"} THEN left[r] = 0 ELSE left[r] \in 1..PoolSizeWarm[want[r]]

\* Of the refills in a set, what they still have to add.
Share(Q, img) == UNION {{r} \X (1..left[r]) : r \in {q \in Q : want[q] = img}}

\* Each adds at most one pool.
LEMMA ShareBound ==
  ASSUME IInv, LeftInv, NEW Q \in SUBSET Refillers, NEW img \in Images
  PROVE  /\ IsFiniteSet(Q) /\ Cardinality(Q) \in Nat
         /\ IsFiniteSet(Share(Q, img)) /\ Cardinality(Share(Q, img)) \in Nat
         /\ Cardinality(Share(Q, img)) <= Cardinality(Q) * PoolSizeWarm[img]
<1> DEFINE P == PoolSizeWarm[img]
<1>1. P \in Nat
  BY PoolAssumption
<1>2. IsFiniteSet(Q) /\ Cardinality(Q) \in Nat
  BY RefillersAssumption, FS_Subset, FS_CardinalityType
<1>3. IsFiniteSet(1..P) /\ Cardinality(1..P) = P
  BY <1>1, FS_Interval
<1>4. Share(Q, img) \subseteq Q \X (1..P)
  <2>1. ASSUME NEW r \in Q, want[r] = img PROVE 1..left[r] \subseteq 1..P
    BY <2>1, <1>1 DEF LeftInv
  <2> HIDE DEF P
  <2> QED BY <2>1 DEF Share
<1>5. /\ IsFiniteSet(Q \X (1..P)) /\ Cardinality(Q \X (1..P)) = Cardinality(Q) * P
  BY <1>2, <1>3, FS_Product
<1>6. IsFiniteSet(Share(Q, img)) /\ Cardinality(Share(Q, img)) <= Cardinality(Q) * P
  <2> HIDE DEF P
  <2> QED BY <1>4, <1>5, FS_Subset
<1> QED BY <1>2, <1>6, FS_CardinalityType

\* A step that adds nothing, to the stacks or to what the refills have set out to do.
LEMMA BoundKept ==
  ASSUME IInv, LeftInv, WarmBound, IInv',
         \A img \in Images : Len(byImage'[img]) <= Len(byImage[img]),
         \A r \in Refillers :
           left'[r] = 0 \/ (left'[r] = left[r] /\ want'[r] = want[r])
  PROVE  WarmBound'
<1> SUFFICES ASSUME NEW img \in Images
             PROVE  Planned(img)' <= Cardinality(Refillers) * PoolSizeWarm[img]
  BY DEF WarmBound
<1>1. ToCome(img)' \subseteq ToCome(img)
  <2>1. ASSUME NEW r \in Refillers, NEW n \in 1..left'[r] PROVE left'[r] # 0
    OBVIOUS
  <2> QED BY <2>1 DEF ToCome
<1>2. IsFiniteSet(ToCome(img)) /\ Cardinality(ToCome(img)) \in Nat
  BY ShareBound DEF Share, ToCome
<1>3. Cardinality(ToCome(img)') <= Cardinality(ToCome(img)) /\ Cardinality(ToCome(img)') \in Nat
  BY <1>1, <1>2, FS_Subset, FS_CardinalityType
<1>4. Len(byImage[img]) \in Nat /\ Len(byImage'[img]) \in Nat
  BY DEF IInv, TypeOK
<1>5. Len(byImage'[img]) <= Len(byImage[img])
  OBVIOUS
<1>6. Planned(img) <= Cardinality(Refillers) * PoolSizeWarm[img]
  BY DEF WarmBound
<1>7. Cardinality(Refillers) * PoolSizeWarm[img] \in Nat
  BY ShareBound, PoolAssumption
<1> DEFINE x == Cardinality(ToCome(img))
           y == Cardinality(ToCome(img)')
           l == Len(byImage[img])
           m == Len(byImage'[img])
           b == Cardinality(Refillers) * PoolSizeWarm[img]
<1>8. Planned(img) = l + x /\ Planned(img)' = m + y
  BY DEF Planned
<1>9. x \in Nat /\ y \in Nat /\ l \in Nat /\ m \in Nat /\ b \in Nat /\ y <= x /\ m <= l
  BY <1>2, <1>3, <1>4, <1>5, <1>7
<1>10. l + x <= b
  BY <1>6, <1>8
<1> HIDE DEF x, y, l, m, b
<1>11. m + y <= b
  BY <1>9, <1>10
<1> QED BY <1>8, <1>11 DEF b

LEMMA OneMore ==
  ASSUME NEW n \in Nat, NEW p \in Nat
  PROVE  (n - 1) * p + p = n * p /\ n * p \in Int /\ (n - 1) * p \in Int
OBVIOUS

\* A refill counts the pool: what the others add comes on top.
LEMMA ReadPoolBound ==
  ASSUME IInv, LeftInv, WarmBound, IInv', NEW r \in Refillers, ReadPool(r)
  PROVE  LeftInv' /\ WarmBound'
<1>1. /\ r \in Workers /\ pc \in [Workers -> Steps] /\ left \in [Workers -> Nat]
      /\ want \in [Workers -> Images \cup {NoImage}]
      /\ pc[r] = "start" /\ left[r] = 0 /\ want[r] \in Images /\ byImage' = byImage
  BY DEF Workers, IInv, TypeOK, LeftInv, HeldInv, ReadPool, registry
<1>0. PICK img \in Images : img = want[r]
  BY <1>1
<1> DEFINE d == Shortfall(img)
<1>2. Len(byImage[img]) \in Nat /\ PoolSizeWarm[img] \in Nat
  BY <1>0, <1>1, PoolAssumption DEF IInv, TypeOK
<1>3. CASE Quit(r)
  <2>1. LeftInv'
    BY <1>1, <1>3 DEF Quit, Goto, LeftInv, Workers
  <2>2. WarmBound'
    BY <1>1, <1>3, BoundKept DEF Quit, Workers, IInv, TypeOK
  <2> QED BY <2>1, <2>2
<1>4. CASE d > 0 /\ Goto(r, "create") /\ left' = [left EXCEPT ![r] = d] /\ UNCHANGED <<mine, want>>
  <2>1. d \in 1..PoolSizeWarm[img] /\ Len(byImage[img]) + d = PoolSizeWarm[img]
    BY <1>2, <1>4 DEF Shortfall
  <2> HIDE DEF d
  <2>2. LeftInv'
    BY <1>0, <1>1, <1>4, <2>1 DEF Goto, LeftInv, Workers
  <2>3. ASSUME NEW g \in Images, g # img PROVE Planned(g)' = Planned(g)
    <3>1. ToCome(g)' = ToCome(g)
      BY <1>0, <1>1, <1>4, <2>3 DEF ToCome, Workers
    <3> QED BY <1>1, <3>1 DEF Planned
  <2>4. Planned(img)' <= Cardinality(Refillers) * PoolSizeWarm[img]
    <3> DEFINE others == Share(Refillers \ {r}, img)
               new == {r} \X (1..d)
               N == Cardinality(Refillers)
               P == PoolSizeWarm[img]
    <3>1. ToCome(img)' \subseteq others \cup new
      BY <1>0, <1>1, <1>4 DEF ToCome, Share, Workers
    <3>2. N \in Nat /\ Cardinality(Refillers \ {r}) = N - 1
      BY RefillersAssumption, FS_RemoveElement, FS_CardinalityType
    <3>3. /\ IsFiniteSet(others) /\ Cardinality(others) \in Nat
          /\ Cardinality(others) <= (N - 1) * P
      BY <1>1, <3>2, ShareBound
    <3>4. IsFiniteSet(new) /\ Cardinality(new) = d
      <4>1. IsFiniteSet({r}) /\ Cardinality({r}) = 1
        BY FS_Singleton
      <4>2. IsFiniteSet(1..d) /\ Cardinality(1..d) = d
        BY <1>2, <2>1, FS_Interval
      <4>3. IsFiniteSet(new) /\ Cardinality(new) = Cardinality({r}) * Cardinality(1..d)
        BY <4>1, <4>2, FS_Product
      <4> QED BY <1>2, <2>1, <4>1, <4>2, <4>3
    <3> HIDE DEF others, new
    <3>5. IsFiniteSet(others \cup new) /\ Cardinality(others \cup new) <= Cardinality(others) + d
      <4>1. /\ IsFiniteSet(others \cup new)
            /\ Cardinality(others \cup new)
                 = Cardinality(others) + Cardinality(new) - Cardinality(others \cap new)
        BY <3>3, <3>4, FS_Union
      <4>2. IsFiniteSet(others \cap new)
        BY <3>3, FS_Intersection
      <4>3. Cardinality(others \cap new) \in Nat
        BY <4>2, FS_CardinalityType
      <4> QED BY <1>2, <2>1, <3>3, <3>4, <4>1, <4>3
    <3>6. Cardinality(ToCome(img)') <= Cardinality(others \cup new)
      BY <3>1, <3>5, FS_Subset
    <3>7. Cardinality(ToCome(img)') \in Nat /\ Cardinality(others \cup new) \in Nat
      BY <3>1, <3>5, FS_Subset, FS_CardinalityType
    <3>8. (N - 1) * P + P = N * P /\ N * P \in Int /\ (N - 1) * P \in Int
      BY <1>2, <3>2, OneMore
    <3> DEFINE np == N * P
               mp == (N - 1) * P
               x == Cardinality(ToCome(img)')
               y == Cardinality(others \cup new)
               z == Cardinality(others)
               l == Len(byImage[img])
    <3>9. Planned(img)' = l + x
      BY <1>1 DEF Planned
    <3> HIDE DEF N, np, mp, x, y, z, l, P
    <3>10. l + x <= np
      <4>1. x \in Nat /\ y \in Nat /\ z \in Nat /\ l \in Nat /\ P \in Nat /\ d \in Nat
        BY <1>2, <2>1, <3>3, <3>7 DEF x, y, z, l, P
      <4>2. x <= y /\ y <= z + d /\ z <= mp /\ l + d = P /\ mp + P = np
        BY <2>1, <3>3, <3>5, <3>6, <3>8 DEF x, y, z, l, P, mp, np
      <4>3. mp \in Int /\ np \in Int
        BY <3>8 DEF np, mp
      <4> QED BY <4>1, <4>2, <4>3
    <3> QED BY <3>9, <3>10 DEF np, N, P
  <2>5. WarmBound'
    BY <2>3, <2>4 DEF WarmBound
  <2> QED BY <2>2, <2>5
<1> QED BY <1>0, <1>3, <1>4 DEF ReadPool

\* A refill adds a sandbox it had set out to add.
LEMMA AppendWarmBound ==
  ASSUME IInv, LeftInv, WarmBound, IInv', NEW r \in Refillers, AppendWarm(r)
  PROVE  LeftInv' /\ WarmBound'
<1>1. /\ r \in Workers /\ pc \in [Workers -> Steps] /\ left \in [Workers -> Nat]
      /\ want \in [Workers -> Images \cup {NoImage}] /\ pc[r] = "append"
      /\ want[r] \in Images /\ left[r] \in 1..PoolSizeWarm[want[r]]
      /\ byImage \in [Images -> Seq(Sandboxes)] /\ byImage' \in [Images -> Seq(Sandboxes)]
      /\ byImage' = [byImage EXCEPT ![want[r]] = Append(byImage[want[r]], mine[r])]
  BY DEF Workers, IInv, TypeOK, LeftInv, HeldInv, AppendWarm
<1>0. PICK img \in Images : img = want[r]
  BY <1>1
<1>2. /\ left' = [left EXCEPT ![r] = left[r] - 1] /\ \A q \in Refillers : left'[q] \in Nat
      /\ left[r] > 1 => pc' = [pc EXCEPT ![r] = "create"] /\ want' = want
      /\ left[r] <= 1 => left[r] = 1 /\ pc' = [pc EXCEPT ![r] = "idle"]
                         /\ want' = [want EXCEPT ![r] = NoImage]
  <2>1. left[r] \in Nat /\ left[r] >= 1
    BY <1>1, PoolAssumption
  <2>2. CASE left[r] > 1
    <3>1. /\ pc' = [pc EXCEPT ![r] = "create"] /\ left' = [left EXCEPT ![r] = left[r] - 1]
          /\ want' = want
      BY <1>1, <2>2 DEF AppendWarm, Goto
    <3> QED BY <1>1, <2>1, <2>2, <3>1 DEF Workers
  <2>3. CASE ~(left[r] > 1)
    <3>1. left[r] = 1
      BY <2>1, <2>3
    <3> QED BY <1>1, <2>3, <3>1 DEF AppendWarm, Quit, Goto, Workers
  <2> QED BY <2>2, <2>3
<1>3. LeftInv'
  <2>1. ASSUME NEW q \in Refillers, q # r
        PROVE  pc'[q] = pc[q] /\ left'[q] = left[q] /\ want'[q] = want[q]
    BY <1>1, <1>2, <2>1 DEF Workers
  <2>2. CASE left[r] > 1
    BY <1>1, <1>2, <2>1, <2>2, PoolAssumption DEF LeftInv
  <2>3. CASE left[r] <= 1
    BY <1>1, <1>2, <2>1, <2>3 DEF LeftInv
  <2> QED BY <1>1, <2>2, <2>3, PoolAssumption
<1>4. ASSUME NEW g \in Images, g # img PROVE Planned(g)' = Planned(g)
  <2>1. ToCome(g)' = ToCome(g)
    <3>1. \A q \in Refillers : q # r => left'[q] = left[q] /\ want'[q] = want[q]
      BY <1>1, <1>2 DEF Workers
    <3>2. want'[r] # g /\ want[r] # g
      BY <1>0, <1>1, <1>2, <1>4, NullAssumption
    <3> QED BY <3>1, <3>2 DEF ToCome
  <2> QED BY <1>0, <1>1, <1>4, <2>1 DEF Planned
<1>5. Planned(img)' <= Planned(img) /\ Planned(img) \in Int /\ Planned(img)' \in Int
  <2> DEFINE t == <<r, left[r]>>
  <2>1. t \in ToCome(img)
    <3>1. left[r] \in 1..left[r]
      BY <1>1, PoolAssumption
    <3> QED BY <1>0, <3>1 DEF ToCome
  <2>2. ToCome(img)' \subseteq ToCome(img) \ {t}
    <3> SUFFICES ASSUME NEW e \in ToCome(img)' PROVE e \in ToCome(img) \ {t}
      OBVIOUS
    <3>q. PICK q \in Refillers : want'[q] = img /\ e \in {q} \X (1..left'[q])
      BY DEF ToCome
    <3>0. PICK n \in 1..left'[q] : want'[q] = img /\ e = <<q, n>>
      BY <3>q
    <3>1. CASE q = r
      <4>1. n \in 1..left[r] /\ n # left[r]
        BY <1>1, <1>2, <3>1, PoolAssumption
      <4> QED BY <1>0, <3>0, <3>1, <4>1 DEF ToCome
    <3>2. CASE q # r
      <4>1. want[q] = img /\ n \in 1..left[q] /\ e # t
        BY <1>1, <1>2, <3>0, <3>2 DEF Workers
      <4> QED BY <3>0, <4>1 DEF ToCome
    <3> QED BY <3>1, <3>2
  <2>3. IsFiniteSet(ToCome(img)) /\ Cardinality(ToCome(img)) \in Nat
    BY <1>1, ShareBound DEF Share, ToCome
  <2>4. /\ IsFiniteSet(ToCome(img) \ {t})
        /\ Cardinality(ToCome(img) \ {t}) = Cardinality(ToCome(img)) - 1
    BY <2>1, <2>3, FS_RemoveElement
  <2>5. IsFiniteSet(ToCome(img)') /\ Cardinality(ToCome(img)') <= Cardinality(ToCome(img)) - 1
    BY <2>2, <2>4, FS_Subset
  <2>6. Cardinality(ToCome(img)') \in Nat
    BY <2>5, FS_CardinalityType
  <2>7. Len(byImage[img]) \in Nat /\ Len(byImage'[img]) = Len(byImage[img]) + 1
    BY <1>0, <1>1
  <2> DEFINE x == Cardinality(ToCome(img))
             y == Cardinality(ToCome(img)')
             l == Len(byImage[img])
  <2>8. Planned(img) = l + x /\ Planned(img)' = (l + 1) + y
    BY <2>7 DEF Planned
  <2>9. x \in Nat /\ y \in Nat /\ l \in Nat /\ y <= x - 1
    BY <2>3, <2>4, <2>5, <2>6, <2>7
  <2> HIDE DEF x, y, l
  <2> QED BY <2>8, <2>9
<1>6. WarmBound'
  <2>1. Cardinality(Refillers) * PoolSizeWarm[img] \in Nat
    BY <1>1, ShareBound, PoolAssumption
  <2>2. Planned(img)' <= Cardinality(Refillers) * PoolSizeWarm[img]
    <3>1. Planned(img) <= Cardinality(Refillers) * PoolSizeWarm[img]
      BY <1>1 DEF WarmBound
    <3> DEFINE p == Planned(img)
               n == Planned(img)'
               b == Cardinality(Refillers) * PoolSizeWarm[img]
    <3>2. p \in Int /\ n \in Int /\ b \in Int /\ n <= p /\ p <= b
      BY <1>5, <2>1, <3>1
    <3> HIDE DEF p, n, b
    <3>3. n <= b
      BY <3>2
    <3> QED BY <3>3 DEF n, b
  <2> QED BY <1>4, <2>2 DEF WarmBound
<1> QED BY <1>3, <1>6

\* Every step keeps to it.
LEMMA NextBound == IInv /\ IInv' /\ LeftInv /\ WarmBound /\ [Next]_vars => LeftInv' /\ WarmBound'
<1> SUFFICES ASSUME IInv, IInv', LeftInv, WarmBound, [Next]_vars PROVE LeftInv' /\ WarmBound'
  OBVIOUS
<1>1. /\ pc \in [Workers -> Steps] /\ left \in [Workers -> Nat] /\ Refillers \subseteq Workers
      /\ want \in [Workers -> Images \cup {NoImage}] /\ byImage \in [Images -> Seq(Sandboxes)]
  BY DEF IInv, TypeOK, Workers
<1>2. ASSUME UNCHANGED <<left, want, byImage>>,
             \A r \in Refillers : pc[r] \in {"idle", "start"} <=> pc'[r] \in {"idle", "start"}
      PROVE  LeftInv' /\ WarmBound'
  BY <1>1, <1>2, BoundKept DEF LeftInv
<1>3. ASSUME NEW w \in Workers, Quit(w), UNCHANGED byImage PROVE LeftInv' /\ WarmBound'
  <2>1. /\ \A r \in Refillers :
             r # w => pc'[r] = pc[r] /\ left'[r] = left[r] /\ want'[r] = want[r]
        /\ pc'[w] = "idle" /\ left'[w] = 0
    BY <1>1, <1>3 DEF Quit, Goto
  <2>2. LeftInv'
    BY <2>1 DEF LeftInv
  <2> QED BY <1>1, <1>3, <2>1, <2>2, BoundKept
<1>4. ASSUME NEW r \in Refillers, NEW img \in Images, pc[r] = "idle", Goto(r, "start"),
             want' = [want EXCEPT ![r] = img], UNCHANGED <<left, byImage>>
      PROVE  LeftInv' /\ WarmBound'
  <2>1. /\ \A q \in Refillers :
             q # r => pc'[q] = pc[q] /\ left'[q] = left[q] /\ want'[q] = want[q]
        /\ pc'[r] = "start" /\ left'[r] = 0
    BY <1>1, <1>4 DEF Goto, LeftInv
  <2>2. LeftInv'
    BY <2>1 DEF LeftInv
  <2> QED BY <1>1, <1>4, <2>1, <2>2, BoundKept
<1>5. ASSUME NEW s \in Sandboxes, DropTracked(s), UNCHANGED workers
      PROVE  LeftInv' /\ WarmBound'
  <2>1. \A img \in Images : Len(byImage'[img]) <= Len(byImage[img])
    BY <1>5, DropTrackedEffect DEF IInv
  <2>2. LeftInv'
    BY <1>5 DEF LeftInv, workers
  <2> QED BY <1>5, <2>1, <2>2, BoundKept DEF workers
<1>6. CASE UNCHANGED vars
  BY <1>2, <1>6 DEF vars, workers, registry
<1>7. ASSUME NEW c \in Clients, ClientStep(c) PROVE LeftInv' /\ WarmBound'
  <2>1. c \in Workers /\ c \notin Refillers
    BY DEF Workers
  <2>2. ASSUME NEW img \in Images, ClaimWarm(c, img) PROVE LeftInv' /\ WarmBound'
    <3>1. /\ byImage[img] \in Seq(Sandboxes) /\ byImage[img] # <<>>
          /\ byImage' = [byImage EXCEPT ![img] = Front(byImage[img])] /\ UNCHANGED workers
      BY <1>1, <2>2 DEF ClaimWarm
    <3>2. Len(Front(byImage[img])) <= Len(byImage[img])
      BY <3>1 DEF Front
    <3>3. \A g \in Images : Len(byImage'[g]) <= Len(byImage[g])
      BY <1>1, <3>1, <3>2
    <3>4. LeftInv'
      BY <3>1 DEF LeftInv, workers
    <3> QED BY <3>1, <3>3, <3>4, BoundKept DEF workers
  <2>3. ASSUME NEW img \in Images, StartCold(c, img) PROVE LeftInv' /\ WarmBound'
    <3>1. \A r \in Refillers : pc'[r] = pc[r] /\ left'[r] = left[r] /\ want'[r] = want[r]
      BY <1>1, <2>1, <2>3 DEF StartCold, Goto
    <3>2. LeftInv'
      BY <3>1 DEF LeftInv
    <3> QED BY <1>1, <2>3, <3>1, <3>2, BoundKept DEF StartCold, registry
  <2>4. CASE RegisterClaimed(c)
    BY <1>3, <2>1, <2>4 DEF RegisterClaimed
  <2> QED BY <1>7, <2>2, <2>3, <2>4 DEF ClientStep
<1>8. ASSUME NEW w \in Workers, ProvisionStep(w) PROVE LeftInv' /\ WarmBound'
  <2>1. CASE CreatePod(w) \/ WaitReady(w) \/ WaitFails(w)
    <3>1. UNCHANGED <<left, want, byImage>>
      BY <2>1 DEF CreatePod, WaitReady, WaitFails, registry
    <3>2. \A r \in Refillers : pc[r] \in {"idle", "start"} <=> pc'[r] \in {"idle", "start"}
      BY <1>1, <2>1 DEF CreatePod, PodCreated, WaitReady, WaitFails, Goto
    <3> QED BY <1>2, <3>1, <3>2
  <2>2. CASE CreateLost(w) \/ CreateRefused(w) \/ Cleanup(w)
    BY <1>3, <2>2 DEF CreateLost, CreateRefused, Cleanup, registry
  <2> QED BY <1>8, <2>1, <2>2 DEF ProvisionStep
<1>9. ASSUME NEW r \in Refillers, RefillStep(r) PROVE LeftInv' /\ WarmBound'
  <2>1. CASE RegisterWarm(r)
    <3>1. UNCHANGED <<left, want, byImage>>
      BY <2>1 DEF RegisterWarm
    <3>2. \A q \in Refillers : pc[q] \in {"idle", "start"} <=> pc'[q] \in {"idle", "start"}
      BY <1>1, <2>1 DEF RegisterWarm, Goto
    <3> QED BY <1>2, <3>1, <3>2
  <2> QED BY <1>9, <2>1, ReadPoolBound, AppendWarmBound DEF RefillStep
<1>10. ASSUME NEW img \in Images, Reconcile(img) PROVE LeftInv' /\ WarmBound'
  BY <1>4, <1>10, WorkersAssumption DEF Reconcile, registry
<1>11. ASSUME NEW s \in Sandboxes, SandboxStep(s) PROVE LeftInv' /\ WarmBound'
  <2>1. CASE DeleteSandbox(s)
    BY <1>5, <2>1 DEF DeleteSandbox
  <2>2. CASE DeletePod(s)
    <3>1. image[s] \in Images /\ byImage' = byImage
      BY <2>2 DEF DeletePod, registry, IInv, AbsentInv
    <3>2. CASE UNCHANGED workers
      BY <1>2, <3>1, <3>2 DEF workers
    <3>3. ASSUME NEW r \in Refillers, pc[r] = "idle", Goto(r, "start"),
                 want' = [want EXCEPT ![r] = image[s]], UNCHANGED <<mine, left>>
          PROVE  LeftInv' /\ WarmBound'
      BY <1>4, <3>1, <3>3
    <3> QED BY <2>2, <3>2, <3>3 DEF DeletePod, SpawnRefill
  <2>3. CASE \/ DeletePodFails(s) \/ Notify(s) \/ HandleEvent(s) \/ Reap(s) \/ PodReady(s)
            \/ PodFails(s)
    BY <1>2, <2>3 DEF DeletePodFails, Notify, HandleEvent, Reap, PodReady, PodFails, workers, registry
  <2> QED BY <1>11, <2>1, <2>2, <2>3 DEF SandboxStep
<1>12. CASE WatchDrops
  BY <1>5, <1>12 DEF WatchDrops, IInv, WatchInv
<1>13. CASE WatchDeletes
  BY <1>2, <1>13 DEF WatchDeletes, workers, registry
<1>14. CASE Crash
  <2>1. \A r \in Refillers : left'[r] = 0 /\ pc'[r] = "idle"
    BY <1>1, <1>14 DEF Crash
  <2>2. LeftInv'
    BY <2>1 DEF LeftInv
  <2>3. \A img \in Images : Len(byImage'[img]) <= Len(byImage[img])
    BY <1>1, <1>14 DEF Crash
  <2> QED BY <2>1, <2>2, <2>3, BoundKept
<1> QED BY <1>6, <1>7, <1>8, <1>9, <1>10, <1>11, <1>12, <1>13, <1>14 DEF Next

\* Refills that run at the same time overshoot the pool by at most a pool each, whatever
\* claims, deletions, drops, failures and crashes come between their count and their adds.
\* (refillWarmPool)
THEOREM PoolsStayBounded == Spec => []WarmBound
<1>1. Init => LeftInv /\ WarmBound
  <2> SUFFICES ASSUME Init PROVE LeftInv /\ WarmBound
    OBVIOUS
  <2>1. LeftInv
    BY DEF Init, LeftInv, Workers
  <2>2. ASSUME NEW img \in Images PROVE Planned(img) = 0
    <3>1. ToCome(img) = {}
      BY DEF Init, ToCome, Workers
    <3>2. Len(byImage[img]) = 0
      BY DEF Init
    <3> QED BY <3>1, <3>2, FS_EmptySet DEF Planned
  <2>3. \A img \in Images : Cardinality(Refillers) * PoolSizeWarm[img] \in Nat
    BY RefillersAssumption, FS_CardinalityType, PoolAssumption
  <2> QED BY <2>1, <2>2, <2>3 DEF WarmBound
<1> QED BY <1>1, Invariance, NextBound, PTL DEF Spec

-----------------------------------------------------------------------------
(***************************************************************************)
(* The registry implements Allocation                                      *)
(***************************************************************************)

Held(s) == \E w \in Workers : mine[w] = s
Calls == [c \in Clients |-> IF pc[c] = "idle" THEN NoImage ELSE want[c]]

\* What is on a stack is in no worker's hands.
LEMMA OfferedOnce ==
  ASSUME IInv, NEW s \in Sandboxes, NEW w \in Workers, mine[w] = s
  PROVE  Offered(s) <=> pc[w] \in {"register", "append"}
<1>1. ASSUME NEW img \in Images PROVE s \notin ToSet(byImage[img])
  BY DEF IInv, TypeOK, WarmInv, ToSet
<1> QED BY <1>1 DEF IInv, HeldInv, Offered

\* A step that offers nothing new and gives nothing maps to Lose.
LEMMA LoseMaps ==
  ASSUME IInv, IInv', image' = image, handouts' = handouts,
         \A s \in Sandboxes :
           /\ pod'[s] = pod[s] \/ (pod[s] \in {"notready", "ready"} /\ pod'[s] = "gone")
           /\ Offered(s)' => Offered(s)
           /\ Held(s)' /\ ~Offered(s)' => Held(s) /\ ~Offered(s),
         \A c \in Clients : Calls'[c] \in {Calls[c], NoImage}
  PROVE  Promise!Lose
<1>1. ASSUME NEW s \in Sandboxes
      PROVE  \/ StageOf(s)' = StageOf(s)
             \/ StageOf(s) \in {"starting", "offered"} /\ StageOf(s)' = "retired"
  <2>1. pod'[s] = "absent" <=> pod[s] = "absent"
    OBVIOUS
  <2>2. handouts[s] \in {0, 1}
    BY DEF IInv, TypeOK, HandedOutOnce
  <2> QED BY <2>1, <2>2 DEF StageOf, Held
<1>2. DOMAIN pod' = Sandboxes
  BY DEF IInv, TypeOK
<1>3. Promise!CallsMayFail
  BY DEF Promise!CallsMayFail, Calls
<1> QED BY <1>1, <1>2, <1>3 DEF Promise!Lose

\* Steps that leave stacks and workers alone.
LEMMA ClusterMaps ==
  ASSUME IInv, IInv', UNCHANGED <<image, byImage, handouts, workers>>,
         \A s \in Sandboxes :
           pod'[s] = pod[s] \/ (pod[s] \in {"notready", "ready"} /\ pod'[s] = "gone")
  PROVE  Promise!Lose
<1>1. \A s \in Sandboxes : (Offered(s)' <=> Offered(s)) /\ (Held(s)' <=> Held(s))
  BY DEF Offered, Held, workers
<1>2. Calls' = Calls
  BY DEF Calls, workers
<1> QED BY <1>1, <1>2, LoseMaps DEF Calls

\* What a stage is made of.
LEMMA StageParts ==
  ASSUME NEW s \in Sandboxes
  PROVE  /\ handouts'[s] = 1 => StageOf(s)' = "given"
         /\ UNCHANGED <<handouts[s], pod[s]>> /\ (Offered(s)' <=> Offered(s))
              /\ (Held(s)' <=> Held(s)) => StageOf(s)' = StageOf(s)
BY DEF StageOf, Held

\* Handing out an offered sandbox to a caller who waits for its image, or for
\* none, maps to Give.
LEMMA GiveMaps ==
  ASSUME TypeOK, NEW c \in Clients, NEW s \in Sandboxes,
         StageOf(s) = "offered", handouts[s] = 0, UNCHANGED <<pod, image>>,
         handouts' = [handouts EXCEPT ![s] = @ + 1],
         \A t \in Sandboxes \ {s} : (Offered(t)' <=> Offered(t)) /\ (Held(t)' <=> Held(t)),
         Calls[c] \in {NoImage, image[s]}, Calls' = [Calls EXCEPT ![c] = NoImage]
  PROVE  Promise!Give(c, s)
<1>1. handouts'[s] = 1 /\ \A t \in Sandboxes \ {s} : handouts'[t] = handouts[t]
  BY DEF TypeOK
<1>2. StageOf(s)' = "given"
  BY <1>1, StageParts
<1>3. \A t \in Sandboxes \ {s} : StageOf(t)' = StageOf(t)
  BY <1>1, StageParts
<1>4. [t \in Sandboxes |-> StageOf(t)']
        = [[t \in Sandboxes |-> StageOf(t)] EXCEPT ![s] = "given"]
  BY <1>2, <1>3
<1> QED BY <1>4 DEF Promise!Give, Calls

\* A warm sandbox goes to the caller.
LEMMA ClaimWarmMaps ==
  ASSUME IInv, IInv', NEW c \in Clients, NEW img \in Images, ClaimWarm(c, img)
  PROVE  \E s \in Sandboxes : Promise!Give(c, s)
<1> DEFINE q == byImage[img]
           s == Last(q)
<1>0. TypeOK /\ byImage \in [Images -> Seq(Sandboxes)]
  BY DEF IInv, TypeOK
<1>1. q \in Seq(Sandboxes) /\ q # <<>>
  BY <1>0 DEF ClaimWarm
<1>2. Len(q) \in 1..Len(q) /\ s = q[Len(q)] /\ s \in Sandboxes
  BY <1>1 DEF Last
<1>3. /\ pod[s] # "absent" /\ image[s] = img /\ handouts[s] = 0
      /\ s \in ToSet(q)
  BY <1>1, <1>2 DEF IInv, WarmInv, ToSet
<1>4. StageOf(s) = "offered"
  BY <1>3 DEF StageOf, Offered
<1>5. /\ handouts' = [handouts EXCEPT ![s] = @ + 1] /\ pc[c] = "idle"
      /\ byImage' = [byImage EXCEPT ![img] = Front(q)]
      /\ UNCHANGED <<pod, image, pc, mine, want>>
  BY DEF ClaimWarm, cluster, workers
<1>6. \A t \in Sandboxes \ {s} : t \in ToSet(byImage'[img]) <=> t \in ToSet(q)
  <2>1. byImage'[img] = SubSeq(q, 1, Len(q) - 1)
    BY <1>0, <1>5 DEF Front
  <2>2. ToSet(q) = {q[i] : i \in 1..Len(q)}
    BY <1>1 DEF ToSet
  <2>3. ToSet(byImage'[img]) = {q[i] : i \in 1..(Len(q) - 1)}
    <3>1. /\ Len(SubSeq(q, 1, Len(q) - 1)) = Len(q) - 1
          /\ \A i \in 1..(Len(q) - 1) : SubSeq(q, 1, Len(q) - 1)[i] = q[i]
          /\ DOMAIN SubSeq(q, 1, Len(q) - 1) = 1..(Len(q) - 1)
      BY <1>1, <1>2
    <3> QED BY <2>1, <3>1 DEF ToSet
  <2> QED BY <1>2, <2>2, <2>3
<1>7. \A t \in Sandboxes \ {s} : (Offered(t)' <=> Offered(t)) /\ (Held(t)' <=> Held(t))
  <2>1. \A g \in Images : g # img => byImage'[g] = byImage[g]
    BY <1>0, <1>5
  <2> QED BY <1>5, <1>6, <2>1 DEF Offered, Held
<1>8. Calls[c] = NoImage /\ Calls' = [Calls EXCEPT ![c] = NoImage]
  BY <1>5 DEF Calls
<1> HIDE DEF s
<1> QED BY <1>0, <1>2, <1>3, <1>4, <1>5, <1>7, <1>8, GiveMaps

\* No sandbox is warm: the caller waits.
LEMMA StartColdMaps ==
  ASSUME IInv, IInv', NEW c \in Clients, NEW img \in Images, StartCold(c, img)
  PROVE  Promise!Ask(c, img)
<1>1. UNCHANGED <<pod, image, byImage, handouts, mine>>
  BY DEF StartCold, cluster, registry
<1>2. /\ pc[c] = "idle" /\ pc' = [pc EXCEPT ![c] = "create"]
      /\ want' = [want EXCEPT ![c] = img] /\ mine[c] = NoSandbox
  BY DEF StartCold, Goto, IInv, HeldInv, Workers
<1>3. \A s \in Sandboxes : Offered(s)' <=> Offered(s)
  BY <1>1, <1>2 DEF Offered, IInv, TypeOK, Workers
<1>4. \A s \in Sandboxes : StageOf(s)' = StageOf(s)
  BY <1>1, <1>3 DEF StageOf
<1>5. Calls' = [Calls EXCEPT ![c] = img] /\ Calls[c] = NoImage
  BY <1>2 DEF Calls, IInv, TypeOK, Workers
<1> QED BY <1>1, <1>4, <1>5 DEF Promise!Ask, Calls

\* A cold sandbox goes to the caller it was created for.
LEMMA RegisterClaimedMaps ==
  ASSUME IInv, IInv', NEW c \in Clients, RegisterClaimed(c)
  PROVE  \E s \in Sandboxes : Promise!Give(c, s)
<1> DEFINE s == mine[c]
<1>0. /\ TypeOK /\ pc \in [Workers -> Steps]
      /\ mine \in [Workers -> Sandboxes \cup {NoSandbox}]
      /\ want \in [Workers -> Images \cup {NoImage}]
  BY DEF IInv, TypeOK
<1>1. c \in Workers /\ pc[c] = "register"
  BY DEF Workers, RegisterClaimed
<1>2. /\ s \in Sandboxes /\ pod[s] # "absent" /\ handouts[s] = 0
      /\ image[s] = want[c]
  BY <1>0, <1>1, NullAssumption DEF IInv, HeldInv
<1>3. StageOf(s) = "offered"
  BY <1>1, <1>2 DEF StageOf, Offered
<1>4. /\ pc' = [pc EXCEPT ![c] = "idle"] /\ mine' = [mine EXCEPT ![c] = NoSandbox]
      /\ want' = [want EXCEPT ![c] = NoImage] /\ UNCHANGED <<pod, image, byImage>>
      /\ handouts' = [handouts EXCEPT ![s] = @ + 1]
  BY DEF RegisterClaimed, Quit, Goto, cluster
<1>5. ASSUME NEW t \in Sandboxes \ {s}
      PROVE  (Offered(t)' <=> Offered(t)) /\ (Held(t)' <=> Held(t))
  <2>1. \A w \in Workers : mine'[w] = t <=> mine[w] = t
    BY <1>0, <1>1, <1>4, NullAssumption
  <2>2. \A w \in Workers : mine[w] = t => pc'[w] = pc[w]
    BY <1>0, <1>1, <1>4
  <2> QED BY <1>4, <2>1, <2>2 DEF Offered, Held
<1>6. Calls' = [Calls EXCEPT ![c] = NoImage] /\ Calls[c] = image[s]
  <2>1. pc'[c] = "idle" /\ \A d \in Clients \ {c} : pc'[d] = pc[d] /\ want'[d] = want[d]
    BY <1>0, <1>1, <1>4 DEF Workers
  <2> QED BY <1>1, <1>2, <2>1 DEF Calls
<1> HIDE DEF s
<1> QED BY <1>0, <1>2, <1>3, <1>4, <1>5, <1>6, GiveMaps

\* A worker's call ends without a sandbox for anybody.
LEMMA QuitMaps ==
  ASSUME IInv, IInv', NEW w \in Workers, Quit(w), UNCHANGED <<image, byImage, handouts>>,
         \A s \in Sandboxes :
           pod'[s] = pod[s] \/ (pod[s] \in {"notready", "ready"} /\ pod'[s] = "gone")
  PROVE  Promise!Lose
<1>0. /\ pc \in [Workers -> Steps]
      /\ mine \in [Workers -> Sandboxes \cup {NoSandbox}]
      /\ want \in [Workers -> Images \cup {NoImage}]
  BY DEF IInv, TypeOK
<1>1. /\ pc'[w] = "idle" /\ mine'[w] = NoSandbox
      /\ \A v \in Workers \ {w} : pc'[v] = pc[v] /\ mine'[v] = mine[v] /\ want'[v] = want[v]
  BY <1>0 DEF Quit, Goto
<1>2. ASSUME NEW s \in Sandboxes, Offered(s)' PROVE Offered(s)
  BY <1>1, <1>2, NullAssumption DEF Offered
<1>3. ASSUME NEW s \in Sandboxes, Held(s)', ~Offered(s)' PROVE Held(s) /\ ~Offered(s)
  <2>1. PICK v \in Workers : mine'[v] = s
    BY <1>3 DEF Held
  <2>2. v # w /\ mine[v] = s
    BY <1>1, <2>1, NullAssumption
  <2>3. pc[v] \notin {"register", "append"}
    BY <1>1, <1>3, <2>1, <2>2 DEF Offered
  <2> QED BY <2>2, <2>3, OfferedOnce DEF Held
<1>4. \A c \in Clients : Calls'[c] \in {Calls[c], NoImage}
  BY <1>1 DEF Calls, Workers
<1> QED BY <1>2, <1>3, <1>4, LoseMaps

\* A worker goes on with the sandbox it holds, if any.
LEMMA GotoMaps ==
  ASSUME IInv, IInv', NEW w \in Workers, NEW step, Goto(w, step),
         UNCHANGED <<image, byImage, handouts, mine>>,
         mine[w] # NoSandbox =>
           (pc[w] \in {"register", "append"} <=> step \in {"register", "append"}),
         \A c \in Clients : Calls'[c] = Calls[c],
         \A s \in Sandboxes :
           pod'[s] = pod[s] \/ (pod[s] \in {"notready", "ready"} /\ pod'[s] = "gone")
  PROVE  Promise!Lose
<1>1. pc \in [Workers -> Steps]
  BY DEF IInv, TypeOK
<1>2. ASSUME NEW s \in Sandboxes PROVE (Offered(s)' <=> Offered(s)) /\ (Held(s)' <=> Held(s))
  BY <1>1, NullAssumption DEF Offered, Held, Goto
<1> QED BY <1>2, LoseMaps

\* A pod is created, and its worker waits for it or has lost it.
LEMMA CreateMaps ==
  ASSUME IInv, IInv', NEW w \in Workers, CreatePod(w) \/ CreateLost(w)
  PROVE  \E s \in Sandboxes, img \in Images : Promise!Create(s, img)
<1>0. /\ pc \in [Workers -> Steps]
      /\ mine \in [Workers -> Sandboxes \cup {NoSandbox}]
      /\ want \in [Workers -> Images \cup {NoImage}]
      /\ pod \in [Sandboxes -> PodStates]
      /\ image \in [Sandboxes -> Images \cup {NoImage}]
  BY DEF IInv, TypeOK
<1>1. PICK s \in Sandboxes :
        /\ PodCreated(w, s) /\ UNCHANGED <<byImage, handouts>>
        /\ \/ /\ mine' = [mine EXCEPT ![w] = s] /\ Goto(w, "wait") /\ UNCHANGED want
           \/ Quit(w)
  BY DEF CreatePod, CreateLost, registry
<1> DEFINE img == want[w]
<1>2. /\ pc[w] = "create" /\ pod[s] = "absent" /\ handouts[s] = 0 /\ mine[w] = NoSandbox
      /\ img \in Images /\ \A v \in Workers : mine[v] # s
      /\ \A g \in Images : s \notin ToSet(byImage[g])
  <2>1. pc[w] = "create" /\ pod[s] = "absent"
    BY <1>1 DEF PodCreated
  <2>2. mine[w] = NoSandbox /\ img \in Images /\ \A v \in Workers : mine[v] # s
    BY <1>0, <2>1 DEF IInv, HeldInv
  <2>3. \A g \in Images : s \notin ToSet(byImage[g])
    BY <2>1 DEF IInv, TypeOK, WarmInv, ToSet
  <2> QED BY <2>1, <2>2, <2>3 DEF IInv, AbsentInv
<1>3. StageOf(s) = "unborn"
  BY <1>2 DEF StageOf
<1>4. pod' = [pod EXCEPT ![s] = "notready"] /\ image' = [image EXCEPT ![s] = img]
  BY <1>1 DEF PodCreated
<1>5. /\ pc'[w] \in {"wait", "idle"} /\ mine'[w] \in {s, NoSandbox}
      /\ pc'[w] = "idle" \/ want'[w] = want[w]
      /\ \A v \in Workers \ {w} : pc'[v] = pc[v] /\ mine'[v] = mine[v] /\ want'[v] = want[v]
  BY <1>0, <1>1 DEF Quit, Goto
<1>6. StageOf(s)' \in {"starting", "retired"}
  <2>1. pod'[s] = "notready" /\ handouts'[s] = 0
    BY <1>0, <1>1, <1>2, <1>4
  <2>2. ~Offered(s)'
    BY <1>1, <1>2, <1>5 DEF Offered
  <2> QED BY <2>1, <2>2 DEF StageOf
<1>7. ASSUME NEW t \in Sandboxes \ {s} PROVE StageOf(t)' = StageOf(t)
  <2>1. UNCHANGED <<handouts[t], pod[t], image[t], byImage>>
    BY <1>0, <1>1, <1>4
  <2>2. \A v \in Workers : (mine'[v] = t <=> mine[v] = t) /\ (mine[v] = t => pc'[v] = pc[v])
    BY <1>2, <1>5, NullAssumption
  <2>3. (Offered(t)' <=> Offered(t)) /\ (Held(t)' <=> Held(t))
    BY <2>1, <2>2 DEF Offered, Held
  <2> QED BY <2>1, <2>3, StageParts
<1>8. Promise!CallsMayFail
  <2>1. \A c \in Clients : Calls'[c] \in {Calls[c], NoImage}
    BY <1>2, <1>5 DEF Calls, Workers
  <2> QED BY <2>1 DEF Promise!CallsMayFail, Calls
<1>9. PICK new \in {"starting", "retired"} : StageOf(s)' = new
  BY <1>6
<1>10. [t \in Sandboxes |-> StageOf(t)']
         = [[t \in Sandboxes |-> StageOf(t)] EXCEPT ![s] = new]
  BY <1>7, <1>9
<1>11. Promise!Create(s, img)
  BY <1>2, <1>3, <1>4, <1>8, <1>9, <1>10 DEF Promise!Create
<1> QED BY <1>2, <1>11

\* The elements of a sequence are what is at its positions.
LEMMA PositionsOf ==
  ASSUME NEW S, NEW q \in Seq(S) PROVE ToSet(q) = {q[i] : i \in 1..Len(q)}
BY DEF ToSet

\* A worker sees the pod of its sandbox ready.
LEMMA WaitReadyMaps ==
  ASSUME IInv, IInv', NEW w \in Workers, WaitReady(w)
  PROVE  \E s \in Sandboxes : Promise!Offer(s)
<1>0. /\ pc \in [Workers -> Steps]
      /\ mine \in [Workers -> Sandboxes \cup {NoSandbox}]
  BY DEF IInv, TypeOK
<1>1. /\ pc[w] = "wait" /\ pod[mine[w]] = "ready" /\ pc' = [pc EXCEPT ![w] = "register"]
      /\ UNCHANGED <<pod, image, byImage, handouts, mine, want>>
  BY DEF WaitReady, Goto, cluster, registry
<1>2. PICK s \in Sandboxes :
        s = mine[w] /\ handouts[s] = 0 /\ \A v \in Workers : mine[v] = s => v = w
  BY <1>0, <1>1, NullAssumption DEF IInv, HeldInv
<1>3. ~Offered(s) /\ StageOf(s) = "starting"
  BY <1>1, <1>2, OfferedOnce DEF StageOf
<1>4. StageOf(s)' = "offered"
  BY <1>0, <1>1, <1>2 DEF StageOf, Offered
<1>5. ASSUME NEW t \in Sandboxes \ {s} PROVE StageOf(t)' = StageOf(t)
  <2>1. (Offered(t)' <=> Offered(t)) /\ (Held(t)' <=> Held(t))
    BY <1>0, <1>1, <1>2 DEF Offered, Held
  <2> QED BY <1>1, <2>1, StageParts
<1>6. Calls' = Calls
  <2>1. \A c \in Clients : pc'[c] = "idle" <=> pc[c] = "idle"
    BY <1>0, <1>1 DEF Workers
  <2> QED BY <1>1, <2>1 DEF Calls
<1>7. [t \in Sandboxes |-> StageOf(t)']
        = [[t \in Sandboxes |-> StageOf(t)] EXCEPT ![s] = "offered"]
  BY <1>2, <1>4, <1>5
<1>8. Promise!Offer(s)
  BY <1>1, <1>2, <1>3, <1>6, <1>7 DEF Promise!Offer, Calls
<1> QED BY <1>2, <1>8

\* The sandbox moves from the worker's hands to the stack of its image.
LEMMA AppendWarmMaps ==
  ASSUME IInv, IInv', NEW r \in Refillers, AppendWarm(r) PROVE Promise!Lose
<1> DEFINE s == mine[r]
           q == byImage[want[r]]
<1>0. /\ pc \in [Workers -> Steps]
      /\ mine \in [Workers -> Sandboxes \cup {NoSandbox}]
      /\ want \in [Workers -> Images \cup {NoImage}]
      /\ byImage \in [Images -> Seq(Sandboxes)] /\ r \in Workers
  BY DEF IInv, TypeOK, Workers
<1>1. /\ pc[r] = "append" /\ byImage' = [byImage EXCEPT ![want[r]] = Append(q, s)]
      /\ UNCHANGED <<pod, image, handouts>>
  BY DEF AppendWarm, cluster
<1>2. /\ want[r] \in Images /\ s \in Sandboxes /\ image[s] = want[r]
      /\ \A v \in Workers : mine[v] = s => v = r
  BY <1>0, <1>1, NullAssumption DEF IInv, HeldInv
<1>3. /\ mine'[r] = NoSandbox
      /\ \A v \in Workers \ {r} : pc'[v] = pc[v] /\ mine'[v] = mine[v] /\ want'[v] = want[v]
  BY <1>0 DEF AppendWarm, Quit, Goto
<1>4. ToSet(byImage'[want[r]]) = ToSet(q) \cup {s}
  <2>1. q \in Seq(Sandboxes) /\ byImage'[want[r]] = Append(q, s)
    BY <1>0, <1>1, <1>2
  <2>2. /\ Append(q, s) \in Seq(Sandboxes) /\ Len(Append(q, s)) = Len(q) + 1
        /\ Append(q, s)[Len(q) + 1] = s
        /\ \A i \in 1..Len(q) : Append(q, s)[i] = q[i]
    BY <1>2, <2>1
  <2>3. 1..(Len(q) + 1) = 1..Len(q) \cup {Len(q) + 1}
    BY <2>1
  <2> HIDE DEF q, s
  <2>4. ToSet(q) = {q[i] : i \in 1..Len(q)}
    BY <2>1, PositionsOf
  <2>5. ToSet(Append(q, s)) = {Append(q, s)[i] : i \in 1..(Len(q) + 1)}
    BY <2>2, PositionsOf
  <2> QED BY <2>1, <2>2, <2>3, <2>4, <2>5
<1>5. \A g \in Images : g # want[r] => byImage'[g] = byImage[g]
  BY <1>0, <1>1
<1>6. ASSUME NEW t \in Sandboxes PROVE Offered(t)' <=> Offered(t)
  <2>1. CASE t = s
    BY <1>0, <1>1, <1>2, <1>4, <2>1 DEF Offered
  <2>2. CASE t # s
    <3>1. \A v \in Workers :
             mine'[v] = t /\ pc'[v] \in {"register", "append"}
               <=> mine[v] = t /\ pc[v] \in {"register", "append"}
      BY <1>3, <2>2, NullAssumption
    <3>2. \A g \in Images : t \in ToSet(byImage'[g]) <=> t \in ToSet(byImage[g])
      BY <1>4, <1>5, <2>2
    <3> QED BY <1>1, <3>1, <3>2 DEF Offered
  <2> QED BY <2>1, <2>2
<1>7. ASSUME NEW t \in Sandboxes, Held(t)' PROVE Held(t)
  BY <1>3, <1>7, NullAssumption DEF Held
<1>8. \A c \in Clients : Calls'[c] = Calls[c]
  BY <1>3, WorkersAssumption DEF Calls, Workers
<1> QED BY <1>1, <1>6, <1>7, <1>8, LoseMaps

\* A sandbox taken off its stack is given up; the others keep their place.
LEMMA DropMaps ==
  ASSUME IInv, IInv', NEW s \in Sandboxes, DropTracked(s),
         UNCHANGED <<cluster, handouts, workers>>
  PROVE  Promise!Lose
<1>1. ASSUME NEW t \in Sandboxes, NEW g \in Images, t \in ToSet(byImage'[g])
      PROVE  t \in ToSet(byImage[g])
  <2>1. /\ byImage' \in [Images -> Seq(Sandboxes)]
        /\ \A i \in 1..Len(byImage'[g]) :
             \E j \in 1..Len(byImage[g]) : byImage[g][j] = byImage'[g][i]
    BY DropTrackedEffect DEF IInv
  <2>2. byImage'[g] \in Seq(Sandboxes) /\ byImage[g] \in Seq(Sandboxes)
    BY <2>1 DEF IInv, TypeOK
  <2>3. /\ ToSet(byImage'[g]) = {byImage'[g][i] : i \in 1..Len(byImage'[g])}
        /\ ToSet(byImage[g]) = {byImage[g][j] : j \in 1..Len(byImage[g])}
    BY <2>2, PositionsOf
  <2> QED BY <1>1, <2>1, <2>3
<1>2. UNCHANGED <<pod, image, handouts, pc, mine, want>>
  BY DEF cluster, workers
<1>3. \A t \in Sandboxes : (Held(t)' <=> Held(t)) /\ (Offered(t)' => Offered(t))
  BY <1>1, <1>2 DEF Held, Offered
<1>4. ASSUME NEW t \in Sandboxes, Held(t), ~Offered(t)' PROVE ~Offered(t)
  <2>1. PICK w \in Workers : mine[w] = t
    BY <1>4 DEF Held
  <2> QED BY <1>2, <1>4, <2>1, OfferedOnce DEF Offered
<1>5. Calls' = Calls
  BY <1>2 DEF Calls
<1> QED BY <1>2, <1>3, <1>4, <1>5, LoseMaps DEF Calls

\* The process dies: all that was not given is given up, and all calls fail.
LEMMA CrashMaps ==
  ASSUME IInv, IInv', Crash PROVE Promise!Lose
<1>1. /\ \A img \in Images : byImage'[img] = <<>>
      /\ \A w \in Workers : mine'[w] = NoSandbox /\ pc'[w] = "idle"
      /\ UNCHANGED <<pod, image, handouts>>
  BY DEF Crash, cluster
<1>2. \A s \in Sandboxes : ~Offered(s)' /\ ~Held(s)'
  BY <1>1, NullAssumption DEF Offered, Held, ToSet
<1>3. \A c \in Clients : Calls'[c] = NoImage
  BY <1>1 DEF Calls, Workers
<1> QED BY <1>1, <1>2, <1>3, LoseMaps

\* The readiness of a pod changes.
LEMMA ProbeMaps ==
  ASSUME IInv, IInv', NEW s \in Sandboxes, NEW new \in {"notready", "ready"},
         pod[s] \in {"notready", "ready"}, pod' = [pod EXCEPT ![s] = new],
         UNCHANGED <<image, registry, handouts, workers>>
  PROVE  Promise!Probe(s)
<1>1. ASSUME NEW t \in Sandboxes PROVE StageOf(t)' = StageOf(t)
  <2>1. (pod'[t] = "absent" <=> pod[t] = "absent") /\ handouts' = handouts
    BY DEF IInv, TypeOK
  <2>2. Offered(t)' <=> Offered(t)
    BY DEF Offered, workers, registry
  <2>3. (\E w \in Workers : mine'[w] = t) <=> \E w \in Workers : mine[w] = t
    BY DEF workers
  <2> QED BY <2>1, <2>2, <2>3 DEF StageOf
<1>2. Calls' = Calls
  BY DEF Calls, workers
<1> QED BY <1>1, <1>2 DEF Promise!Probe, Calls

\* The initial states map to the initial state.
LEMMA InitMaps == Init => Promise!Init
<1> SUFFICES ASSUME Init PROVE Promise!Init
  OBVIOUS
<1>1. \A s \in Sandboxes : StageOf(s) = "unborn"
  BY DEF Init, StageOf
<1>2. \A c \in Clients : Calls[c] = NoImage
  BY DEF Init, Calls, Workers
<1> QED BY <1>1, <1>2 DEF Init, Promise!Init, Calls

\* Deleting a pod that was created.
LEMMA KubeDeleteMaps ==
  ASSUME TypeOK, NEW s \in Sandboxes, pod[s] # "absent", KubeDelete(s) \/ UNCHANGED pod
  PROVE  \A t \in Sandboxes :
           pod'[t] = pod[t] \/ (pod[t] \in {"notready", "ready"} /\ pod'[t] = "gone")
BY DEF TypeOK, PodStates, KubeDelete

\* A worker's steps that do not end in a handout.
LEMMA WorkerMaps ==
  ASSUME IInv, IInv', NEW w \in Workers,
         CreateRefused(w) \/ WaitFails(w) \/ Cleanup(w)
  PROVE  Promise!Lose
<1>1. CASE CreateRefused(w)
  BY <1>1, QuitMaps DEF CreateRefused, cluster, registry
<1>2. CASE WaitFails(w)
  <2>1. \A c \in Clients : Calls'[c] = Calls[c]
    BY <1>2 DEF WaitFails, Goto, Calls, Workers, IInv, TypeOK
  <2> QED BY <1>2, <2>1, GotoMaps DEF WaitFails, cluster, registry
<1>3. CASE Cleanup(w)
  <2>1. mine[w] \in Sandboxes /\ pod[mine[w]] # "absent"
    BY <1>3, NullAssumption DEF Cleanup, IInv, TypeOK, HeldInv
  <2>2. \A t \in Sandboxes :
          pod'[t] = pod[t] \/ (pod[t] \in {"notready", "ready"} /\ pod'[t] = "gone")
    BY <1>3, <2>1, KubeDeleteMaps DEF Cleanup, IInv
  <2> QED BY <1>3, <2>2, QuitMaps DEF Cleanup, registry
<1> QED BY <1>1, <1>2, <1>3

\* A refill's steps before it appends.
LEMMA RefillMaps ==
  ASSUME IInv, IInv', NEW r \in Refillers, ReadPool(r) \/ RegisterWarm(r)
  PROVE  Promise!Lose
<1>0. r \in Workers /\ r \notin Clients /\ pc \in [Workers -> Steps]
  BY WorkersAssumption DEF Workers, IInv, TypeOK
<1>1. CASE RegisterWarm(r)
  <2>1. \A c \in Clients : Calls'[c] = Calls[c]
    BY <1>0, <1>1 DEF RegisterWarm, Goto, Calls, Workers
  <2> QED BY <1>0, <1>1, <2>1, GotoMaps DEF RegisterWarm, cluster
<1>2. CASE ReadPool(r) /\ Quit(r)
  BY <1>0, <1>2, QuitMaps DEF ReadPool, cluster, registry
<1>3. CASE ReadPool(r) /\ Goto(r, "create") /\ UNCHANGED <<mine, want>>
  <2>1. \A c \in Clients : Calls'[c] = Calls[c]
    BY <1>0, <1>3 DEF Goto, Calls, Workers
  <2>2. mine[r] = NoSandbox
    BY <1>0, <1>3 DEF ReadPool, IInv, HeldInv
  <2> QED BY <1>0, <1>3, <2>1, <2>2, GotoMaps DEF ReadPool, cluster, registry
<1> QED BY <1>1, <1>2, <1>3 DEF ReadPool

\* A refill starts: the reconcile loop's, or one after a deletion.
LEMMA StartRefillMaps ==
  ASSUME IInv, IInv', NEW r \in Refillers, NEW img, pc[r] = "idle", Goto(r, "start"),
         want' = [want EXCEPT ![r] = img], UNCHANGED <<image, byImage, handouts, mine>>,
         \A s \in Sandboxes :
           pod'[s] = pod[s] \/ (pod[s] \in {"notready", "ready"} /\ pod'[s] = "gone")
  PROVE  Promise!Lose
<1>1. /\ r \in Workers /\ r \notin Clients /\ pc \in [Workers -> Steps]
      /\ want \in [Workers -> Images \cup {NoImage}]
  BY WorkersAssumption DEF Workers, IInv, TypeOK
<1>2. \A c \in Clients : Calls'[c] = Calls[c]
  BY <1>1 DEF Goto, Calls, Workers
<1>3. mine[r] = NoSandbox
  BY <1>1 DEF IInv, HeldInv
<1> QED BY <1>1, <1>2, <1>3, GotoMaps

\* Deletions, the watch, the reaper and the cluster.
LEMMA SandboxMaps ==
  ASSUME IInv, IInv', NEW s \in Sandboxes, SandboxStep(s)
  PROVE  Promise!Lose \/ Promise!Probe(s)
<1>0. TypeOK
  BY DEF IInv
<1>1. CASE DeleteSandbox(s)
  BY <1>1, DropMaps DEF DeleteSandbox
<1>2. CASE DeletePod(s)
  <2>1. \A t \in Sandboxes :
          pod'[t] = pod[t] \/ (pod[t] \in {"notready", "ready"} /\ pod'[t] = "gone")
    BY <1>0, <1>2, KubeDeleteMaps DEF DeletePod, IInv, AbsentInv
  <2>2. CASE UNCHANGED workers
    BY <1>2, <2>1, <2>2, ClusterMaps DEF DeletePod, registry
  <2>3. ASSUME NEW r \in Refillers, pc[r] = "idle", Goto(r, "start"),
               want' = [want EXCEPT ![r] = image[s]], UNCHANGED <<mine, left>>
        PROVE  Promise!Lose
    BY <1>2, <2>1, <2>3, StartRefillMaps DEF DeletePod, registry
  <2> QED BY <1>2, <2>2, <2>3 DEF DeletePod, SpawnRefill
<1>3. CASE DeletePodFails(s) \/ Notify(s) \/ HandleEvent(s)
  BY <1>3, ClusterMaps DEF DeletePodFails, Notify, HandleEvent, cluster, registry
<1>4. CASE Reap(s)
  <2>1. pod[s] # "absent"
    BY <1>4 DEF Reap, Alive
  <2>2. \A t \in Sandboxes :
          pod'[t] = pod[t] \/ (pod[t] \in {"notready", "ready"} /\ pod'[t] = "gone")
    BY <1>0, <1>4, <2>1, KubeDeleteMaps DEF Reap
  <2> QED BY <1>4, <2>2, ClusterMaps DEF Reap, registry
<1>5. CASE PodReady(s)
  BY <1>5, ProbeMaps DEF PodReady
<1>6. CASE PodFails(s)
  <2>1. CASE pod[s] = "ready" /\ pod' = [pod EXCEPT ![s] = "notready"]
    BY <1>6, <2>1, ProbeMaps DEF PodFails
  <2>2. CASE Alive(s) /\ KubeDelete(s)
    <3>1. \A t \in Sandboxes :
            pod'[t] = pod[t] \/ (pod[t] \in {"notready", "ready"} /\ pod'[t] = "gone")
      BY <1>0, <2>2, KubeDeleteMaps DEF Alive
    <3> QED BY <1>6, <3>1, ClusterMaps DEF PodFails, registry
  <2> QED BY <1>6, <2>1, <2>2 DEF PodFails
<1> QED BY <1>1, <1>2, <1>3, <1>4, <1>5, <1>6 DEF SandboxStep

\* What the watch's handler does.
LEMMA WatchMaps ==
  ASSUME IInv, IInv', WatchDrops \/ WatchDeletes PROVE Promise!Lose
<1>1. watch.id \in Sandboxes /\ pod[watch.id] # "absent"
  BY DEF IInv, WatchInv, WatchDrops, WatchDeletes
<1>2. CASE WatchDrops
  BY <1>1, <1>2, DropMaps DEF WatchDrops
<1>3. CASE WatchDeletes
  <2>1. \A t \in Sandboxes :
          pod'[t] = pod[t] \/ (pod[t] \in {"notready", "ready"} /\ pod'[t] = "gone")
    BY <1>1, <1>3, KubeDeleteMaps DEF WatchDeletes, IInv
  <2> QED BY <1>3, <2>1, ClusterMaps DEF WatchDeletes, registry
<1> QED BY <1>2, <1>3

\* Every step of the registry is a step of Allocation, or changes nothing there.
LEMMA NextMaps == IInv /\ IInv' /\ [Next]_vars => [Promise!Next]_(Promise!vars)
<1> SUFFICES ASSUME IInv, IInv', [Next]_vars PROVE Promise!Next \/ UNCHANGED Promise!vars
  OBVIOUS
<1>1. CASE UNCHANGED vars
  BY <1>1, ClusterMaps DEF vars, cluster, registry, Promise!Next
<1>2. ASSUME NEW c \in Clients, ClientStep(c) PROVE Promise!Next
  BY <1>2, ClaimWarmMaps, StartColdMaps, RegisterClaimedMaps DEF ClientStep, Promise!Next
<1>3. ASSUME NEW w \in Workers, ProvisionStep(w) PROVE Promise!Next
  BY <1>3, CreateMaps, WaitReadyMaps, WorkerMaps DEF ProvisionStep, Promise!Next
<1>4. ASSUME NEW r \in Refillers, RefillStep(r) PROVE Promise!Next
  BY <1>4, RefillMaps, AppendWarmMaps DEF RefillStep, Promise!Next
<1>5. ASSUME NEW img \in Images, Reconcile(img) PROVE Promise!Next
  BY <1>5, StartRefillMaps, WorkersAssumption DEF Reconcile, cluster, registry, Promise!Next
<1>6. ASSUME NEW s \in Sandboxes, SandboxStep(s) PROVE Promise!Next
  BY <1>6, SandboxMaps DEF Promise!Next
<1>7. CASE WatchDrops \/ WatchDeletes \/ Crash
  BY <1>7, WatchMaps, CrashMaps DEF Promise!Next
<1> QED BY <1>1, <1>2, <1>3, <1>4, <1>5, <1>6, <1>7 DEF Next

\* Stacks, workers and the watch do what Allocation allows: each sandbox is made
\* for one image, offered after its pod was ready, given to one caller, then never
\* offered again, for any numbers of everything.
THEOREM RegistryImplementsAllocation == Spec => ImplementsAllocation
<1>1. Init => Promise!Init
  BY InitMaps
<1>2. IInv /\ IInv' /\ [Next]_vars => [Promise!Next]_(Promise!vars)
  BY NextMaps
<1> QED BY <1>1, <1>2, Invariance, PTL DEF Spec, ImplementsAllocation, Promise!Spec
=============================================================================
