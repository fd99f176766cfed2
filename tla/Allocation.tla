----------------------------- MODULE Allocation -----------------------------
(***************************************************************************)
(* What the control plane promises those who ask for a sandbox, without    *)
(* stacks, locks, workers, refills or the watch: a sandbox is made for one *)
(* image, offered once its pod has been seen ready, given to one caller    *)
(* who asked for that image, and never offered again.  WarmPool implements *)
(* this specification.                                                     *)
(***************************************************************************)
CONSTANTS Sandboxes, Images, Clients, NoImage

VARIABLES
  pod,    \* the cluster: state of each sandbox's pod
  image,  \* the image the sandbox was made for
  stage,  \* how far the sandbox has come
  calls   \* the image a caller waits for a sandbox of

vars == <<pod, image, stage, calls>>

Stages == {"unborn", "starting", "offered", "given", "retired"}

Init ==
  /\ pod = [s \in Sandboxes |-> "absent"]
  /\ image = [s \in Sandboxes |-> NoImage]
  /\ stage = [s \in Sandboxes |-> "unborn"]
  /\ calls = [c \in Clients |-> NoImage]

\* A call may end with an error.
CallsMayFail ==
  /\ DOMAIN calls' = Clients
  /\ \A c \in Clients : calls'[c] \in {calls[c], NoImage}

\* No sandbox was free: the caller waits.
Ask(c, img) ==
  /\ calls[c] = NoImage
  /\ calls' = [calls EXCEPT ![c] = img]
  /\ UNCHANGED <<pod, image, stage>>

\* A pod is created; when the answer is lost nobody will offer it.
Create(s, img) ==
  /\ stage[s] = "unborn"
  /\ pod[s] = "absent"
  /\ pod' = [pod EXCEPT ![s] = "notready"]
  /\ image' = [image EXCEPT ![s] = img]
  /\ \E new \in {"starting", "retired"} : stage' = [stage EXCEPT ![s] = new]
  /\ CallsMayFail

\* Its pod has been seen ready.
Offer(s) ==
  /\ stage[s] = "starting"
  /\ pod[s] = "ready"
  /\ stage' = [stage EXCEPT ![s] = "offered"]
  /\ UNCHANGED <<pod, image, calls>>

\* The sandbox goes to a caller, who asks just now or has been waiting.
Give(c, s) ==
  /\ stage[s] = "offered"
  /\ calls[c] \in {NoImage, image[s]}
  /\ stage' = [stage EXCEPT ![s] = "given"]
  /\ calls' = [calls EXCEPT ![c] = NoImage]
  /\ UNCHANGED <<pod, image>>

\* Sandboxes that were not given are given up, pods end, calls fail.
Lose ==
  /\ UNCHANGED image
  /\ DOMAIN pod' = Sandboxes /\ DOMAIN stage' = Sandboxes
  /\ \A s \in Sandboxes :
       /\ \/ pod'[s] = pod[s]
          \/ pod[s] \in {"notready", "ready"} /\ pod'[s] = "gone"
       /\ \/ stage'[s] = stage[s]
          \/ stage[s] \in {"starting", "offered"} /\ stage'[s] = "retired"
  /\ CallsMayFail

\* The readiness of a pod that exists changes.
Probe(s) ==
  /\ pod[s] \in {"notready", "ready"}
  /\ \E new \in {"notready", "ready"} : pod' = [pod EXCEPT ![s] = new]
  /\ UNCHANGED <<image, stage, calls>>

Next ==
  \/ Lose
  \/ \E c \in Clients, img \in Images : Ask(c, img)
  \/ \E s \in Sandboxes, img \in Images : Create(s, img)
  \/ \E s \in Sandboxes : Offer(s) \/ Probe(s)
  \/ \E c \in Clients, s \in Sandboxes : Give(c, s)

Spec == Init /\ [][Next]_vars
=============================================================================
