---------------------------- MODULE DurableQueue ----------------------------
(***************************************************************************)
(* What the durable queue promises, with no leases, reads or retries:      *)
(* a message appears together with the domain state it was sent with, and  *)
(* from then on it is either still queued or has exactly one final         *)
(* outcome, which never changes.                                           *)
(***************************************************************************)
CONSTANTS Ids,        \* transport identities
          Commands,   \* logical commands of the producers
          NoCommand   \* the command of a message sent by another writer

VARIABLES outcome,    \* what became of the message with each identity
          sentFor,    \* the command each message was sent for
          domain      \* commands whose domain state is committed

vars == <<outcome, sentFor, domain>>

Outcomes == {"absent", "queued", "completed", "deadLettered"}

Init ==
    /\ outcome = [i \in Ids |-> "absent"]
    /\ sentFor = [i \in Ids |-> NoCommand]
    /\ domain = {}

(* The messages S of command c and c's domain state become visible at once. *)
Accept(c, S) ==
    /\ S # {}
    /\ \A i \in S : outcome[i] = "absent"
    /\ outcome' = [i \in Ids |-> IF i \in S THEN "queued" ELSE outcome[i]]
    /\ sentFor' = [i \in Ids |-> IF i \in S THEN c ELSE sentFor[i]]
    /\ domain' = domain \cup {c}

(* A writer outside the contract puts a message on the queue.               *)
AcceptForeign(i) ==
    /\ outcome[i] = "absent"
    /\ outcome' = [outcome EXCEPT ![i] = "queued"]
    /\ UNCHANGED <<sentFor, domain>>

Finish(i) ==
    /\ outcome[i] = "queued"
    /\ \E o \in {"completed", "deadLettered"} : outcome' = [outcome EXCEPT ![i] = o]
    /\ UNCHANGED <<sentFor, domain>>

Next ==
    \/ \E c \in Commands, S \in SUBSET Ids : Accept(c, S)
    \/ \E i \in Ids : AcceptForeign(i) \/ Finish(i)

Spec == Init /\ [][Next]_vars
=============================================================================
