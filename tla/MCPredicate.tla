---------------------------- MODULE MCPredicate ----------------------------
(* A small instance of Predicate for TLC. *)
EXTENDS Predicate

\* Two pods as the pod manager makes them, a deployment, and an object of a custom kind
\* that cannot be read as a pod.
PodDesc(name, op, key, value) ==
  [group |-> "", version |-> "v1", kind |-> "Pod", ns |-> "a", name |-> name,
   containers |-> {"c"}, isPod |-> TRUE, labels |-> GenLabels("Pod", op, 0, key, value)]

SmallDesc == [
  p1 |-> PodDesc("x", 1, "", ""),
  p2 |-> PodDesc("y", 2, "color", "red"),
  d |-> [group |-> "apps", version |-> "v1", kind |-> "Deployment", ns |-> "a", name |-> "x",
         containers |-> {}, isPod |-> TRUE, labels |-> GenLabels("Deployment", 1, 0, "color", "red")],
  g |-> [group |-> "games", version |-> "v1", kind |-> "Game", ns |-> "a", name |-> "x",
         containers |-> {}, isPod |-> FALSE, labels |-> [app |-> "game"]]]

SmallObjects == DOMAIN SmallDesc

Anything == [long |-> FALSE, group |-> "", version |-> "v1", ns |-> "a", kind |-> "Pod",
             name |-> "", container |-> "", labels |-> << >>, command |-> FALSE,
             expect |-> "contains"]

\* Both formats, by name, by labels, with containers; commands here, in a container
\* and in one that is not there; and the malformed ones.
SmallWishes == {
  Anything,
  [Anything EXCEPT !.name = "x", !.labels = <<<<"color", "red">>>>],
  [Anything EXCEPT !.name = "x", !.container = "c"],
  [Anything EXCEPT !.name = "y", !.container = "c", !.command = TRUE],
  [Anything EXCEPT !.name = "y", !.container = "c", !.command = TRUE, !.expect = "!contains"],
  [Anything EXCEPT !.name = "y", !.container = "z", !.command = TRUE],
  [Anything EXCEPT !.labels = <<<<"color", "red">>, <<"oid", "2">>>>],
  [Anything EXCEPT !.labels = <<<<"color", "red">>, <<"">>>>],
  [Anything EXCEPT !.name = "y", !.labels = <<<<"color", "red">>, <<"">>>>],
  [Anything EXCEPT !.labels = <<<<"color", "blue">>, <<"oid", "2">>, <<"color", "red">>>>],
  [Anything EXCEPT !.long = TRUE, !.group = "apps", !.kind = "Deployment"],
  [Anything EXCEPT !.long = TRUE, !.group = "apps", !.kind = "Deployment", !.name = "x",
                   !.command = TRUE, !.expect = "!contains"],
  [Anything EXCEPT !.long = TRUE, !.group = "games", !.kind = "Game", !.name = "x",
                   !.container = "c", !.command = TRUE],
  [Anything EXCEPT !.long = TRUE, !.ns = "my-namespaces"],
  [Anything EXCEPT !.ns = "my-namespaces"],
  [Anything EXCEPT !.ns = "", !.name = "x"],
  [Anything EXCEPT !.kind = "", !.command = TRUE],
  [Anything EXCEPT !.kind = "", !.command = TRUE, !.expect = "nonsense"] }

=============================================================================
