--------------------------- MODULE MCBlockingWait ---------------------------
(* A small instance of BlockingWait for TLC. *)
EXTENDS BlockingWait

CONSTANTS p1, p2, d1, d2, s1

FivePods == {p1, p2, d1, d2, s1}

\* Two plain pods, the second of an earlier operation; a deployment whose second pod is
\* made late; and a pod of a stateful set that is deleted, as the first one is.
MixedKinds ==
  [p \in FivePods |-> CASE p \in {p1, p2} -> "Pod" [] p \in {d1, d2} -> "Deployment"
                        [] OTHER -> "StatefulSet"]
MixedOpnums == [p \in FivePods |-> IF p = p2 THEN 0 ELSE 1]
Namespaces  == [p \in FivePods |-> IF p = s1 THEN "ns2" ELSE "ns1"]

\* Pods are created last or deleted last, and so is the deployment.
MixedLasts ==
  {[k \in PodKinds |-> CASE k = "Pod" -> pod [] k = "Deployment" -> dep
                         [] k = "StatefulSet" -> "delete" [] OTHER -> ""] :
     pod \in {"create", "delete"}, dep \in {"create", "delete"}}

=============================================================================
