---------------------------- MODULE Publication ----------------------------
(***************************************************************************)
(* What a release promises to the consumers of the two npm packages: a     *)
(* version gets its tag, then geul-proto, then geul-event, which depends   *)
(* on it, and the discovery of new versions is told after both are on the  *)
(* registry: once, and once more at most each time someone asks for it.    *)
(* Nothing here says how many runs of which workflow it takes, or which of *)
(* them fail.                                                              *)
(***************************************************************************)
EXTENDS Naturals

CONSTANT Versions

VARIABLES
  tagged,      \* versions with a GitHub release and its tag
  registry,    \* <<package, version>> pairs one can install
  announced,   \* per version, how often the discovery was told of it
  again        \* per version, how often someone asked to tell it again

vars == <<tagged, registry, announced, again>>

Complete(v) == {<<"proto", v>>, <<"event", v>>} \subseteq registry

Init ==
  /\ tagged = {}
  /\ registry = {}
  /\ announced = [v \in Versions |-> 0]
  /\ again = [v \in Versions |-> 0]

Tag(v) ==
  /\ v \notin tagged
  /\ tagged' = tagged \cup {v}
  /\ UNCHANGED <<registry, announced, again>>

Publish(p, v) ==
  /\ v \in tagged
  /\ <<p, v>> \notin registry
  /\ p = "event" => <<"proto", v>> \in registry
  /\ registry' = registry \cup {<<p, v>>}
  /\ UNCHANGED <<tagged, announced, again>>

Announce(v) ==
  /\ Complete(v)
  /\ announced[v] <= again[v]
  /\ announced' = [announced EXCEPT ![v] = @ + 1]
  /\ UNCHANGED <<tagged, registry, again>>

Ask(v) ==
  /\ again' = [again EXCEPT ![v] = @ + 1]
  /\ UNCHANGED <<tagged, registry, announced>>

Next == \E v \in Versions :
  \/ Tag(v)
  \/ \E p \in {"proto", "event"} : Publish(p, v)
  \/ Announce(v)
  \/ Ask(v)

Spec == Init /\ [][Next]_vars
=============================================================================
