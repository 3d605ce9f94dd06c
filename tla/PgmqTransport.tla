---------------------------- MODULE PgmqTransport ----------------------------
(***************************************************************************)
(* One durable queue: producers that send inside their own database        *)
(* transaction (the outbox), the PGMQ table, and competing consumers that  *)
(* lease rows for a visibility timeout and then complete, retry or archive *)
(* them (go/event/pgmq.go, packages/event/src/pgmq.ts).                    *)
(*                                                                         *)
(* PGMQ itself and the consumer programs are not in the repository. PGMQ's *)
(* functions are modelled from the SQL the runtime sends and how it reads  *)
(* the answers; a consumer handles the deliveries of one read before it    *)
(* reads again, archives what carries a contract error and what was read   *)
(* MaxReads times, and retries other failures.                             *)
(***************************************************************************)
EXTENDS Integers, FiniteSets, PgmqEnvelope

CONSTANTS
    MaxId,         \* bound: transport identities 1..MaxId
    Producers,
    Consumers,
    Commands,      \* logical commands, the domain state they change included
    NoCommand,
    Lang,          \* the runtime each producer and consumer is built with
    Bodies,        \* bodies the producers may try to send
    ForeignBodies, \* bodies put on the queue by writers outside the contract
    Delays,        \* delays passed to Enqueue and Retry, in half seconds
    Leases,        \* visibility timeouts passed to Read, in half seconds
    Batches,       \* batch sizes passed to Read
    MaxReads,      \* the consumers' poison threshold on ReadCount
    TxConsumers,   \* consumers that pass their own transaction to Complete
    StaleRetry,    \* TRUE iff consumers call Retry after their lease ended
    MaxCrashes     \* bound: consumer crashes in a behaviour

ASSUME BoundsAssumption ==
    /\ MaxId \in Nat
    /\ MaxReads \in Nat \ {0}
    /\ MaxCrashes \in Nat
ASSUME PartiesAssumption ==
    /\ TxConsumers \subseteq Consumers
    /\ NoCommand \notin Commands
    /\ StaleRetry \in BOOLEAN
ASSUME InputsAssumption ==
    /\ Bodies \subseteq Body
    /\ ForeignBodies \subseteq Body
    /\ Delays \subseteq Int
    /\ Leases \subseteq Int
    /\ Batches \subseteq Int
    /\ Lang \in [Producers \cup Consumers -> Languages]

VARIABLES
    status,   \* what became of each transport identity
    cmd,      \* the command each row was sent for
    body,     \* the class of each row's message and headers
    wait,     \* seconds until each row is visible (vt - now, at least 0)
    readCt,   \* how often each row was read, counted up to MaxReads
    domain,   \* commands whose domain state is committed
    tx,       \* each producer's open transaction
    held,     \* the deliveries each consumer has read and not yet settled
    effects,  \* history: committed executions of each row's command, up to 2
    crashes   \* consumer crashes so far

vars == <<status, cmd, body, wait, readCt, domain, tx, held, effects, crashes>>
rowVars == <<cmd, body>>

Ids == 1..MaxId
Statuses == {"free", "pending", "live", "aborted", "deleted", "archived"}
Idle == [cmd |-> NoCommand, ids |-> {}]

(* A body that rows without one start with.                                 *)
Blank == [id |-> "missing", type |-> "missing", schema |-> "other",
          created |-> "invalid", payload |-> "missing", headers |-> "null"]

(* Message, as Read hands it to a consumer: TransportID, ReadCount, what is  *)
(* left of the time to VisibleAt, whether ContractError is set; done says    *)
(* that the consumer has committed its effect without completing the row.    *)
Delivery == [id: Ids, ct: 0..MaxReads, left: Nat, err: BOOLEAN, done: BOOLEAN]

(* int(d / time.Second) and Math.trunc: truncation towards zero.            *)
Seconds(d) == IF d >= 0 THEN d \div 2 ELSE -((-d) \div 2)

(* Mutant: the clamp is dropped.                                            *)
DelayUnclamped(d) == Seconds(d)

(* Enqueue and Retry clamp negative delays.                                 *)
DelaySeconds(d) == IF Seconds(d) < 0 THEN 0 ELSE Seconds(d)

TypeOK ==
    /\ status \in [Ids -> Statuses]
    /\ cmd \in [Ids -> Commands \cup {NoCommand}]
    /\ body \in [Ids -> Body]
    /\ wait \in [Ids -> Nat]
    /\ readCt \in [Ids -> 0..MaxReads]
    /\ domain \in SUBSET Commands
    /\ tx \in [Producers -> [cmd: Commands \cup {NoCommand}, ids: SUBSET Ids]]
    /\ held \in [Consumers -> SUBSET Delivery]
    /\ effects \in [Ids -> 0..2]
    /\ crashes \in 0..MaxCrashes

Init ==
    /\ status = [i \in Ids |-> "free"]
    /\ cmd = [i \in Ids |-> NoCommand]
    /\ body = [i \in Ids |-> Blank]
    /\ wait = [i \in Ids |-> 0]
    /\ readCt = [i \in Ids |-> 0]
    /\ domain = {}
    /\ tx = [p \in Producers |-> Idle]
    /\ held = [k \in Consumers |-> {}]
    /\ effects = [i \in Ids |-> 0]
    /\ crashes = 0

-----------------------------------------------------------------------------
(* Producers                                                                *)

(* The sequence behind msg_id: identities are handed out in order, once.    *)
NextId(i) == status[i] = "free" /\ \A j \in Ids : status[j] = "free" => i <= j

(* A producer opens the transaction that changes command c's domain state.  *)
Begin(p, c) ==
    /\ tx[p] = Idle
    /\ \A q \in Producers : tx[q].cmd # c
    /\ tx' = [tx EXCEPT ![p].cmd = c]
    /\ UNCHANGED <<status, cmd, body, wait, readCt, domain, held, effects, crashes>>

(* Mutant: the send runs on another connection than the transaction.        *)
EnqueueAutocommit(p, i, b, d) ==
    /\ tx[p].cmd # NoCommand
    /\ b \in Sendable(Lang[p])
    /\ NextId(i)
    /\ status' = [status EXCEPT ![i] = "live"]
    /\ cmd' = [cmd EXCEPT ![i] = tx[p].cmd]
    /\ body' = [body EXCEPT ![i] = b]
    /\ wait' = [wait EXCEPT ![i] = DelaySeconds(d)]
    /\ UNCHANGED <<readCt, domain, tx, held, effects, crashes>>

(* Enqueue with the transaction as executor: the row exists, unseen by      *)
(* others until that transaction commits.                                   *)
Enqueue(p, i, b, d) ==
    /\ tx[p].cmd # NoCommand
    /\ b \in Sendable(Lang[p])
    /\ NextId(i)
    /\ status' = [status EXCEPT ![i] = "pending"]
    /\ cmd' = [cmd EXCEPT ![i] = tx[p].cmd]
    /\ body' = [body EXCEPT ![i] = b]
    /\ wait' = [wait EXCEPT ![i] = DelaySeconds(d)]
    /\ tx' = [tx EXCEPT ![p].ids = @ \cup {i}]
    /\ UNCHANGED <<readCt, domain, held, effects, crashes>>

(* The producer's COMMIT: domain state and rows together.                   *)
Commit(p) ==
    /\ tx[p].cmd # NoCommand
    /\ tx[p].ids # {}
    /\ status' = [i \in Ids |-> IF i \in tx[p].ids THEN "live" ELSE status[i]]
    /\ domain' = domain \cup {tx[p].cmd}
    /\ tx' = [tx EXCEPT ![p] = Idle]
    /\ UNCHANGED <<cmd, body, wait, readCt, held, effects, crashes>>

(* A failed Enqueue, any other failure or a crash rolls the transaction back.*)
Abort(p) ==
    /\ tx[p].cmd # NoCommand
    /\ status' = [i \in Ids |-> IF i \in tx[p].ids THEN "aborted" ELSE status[i]]
    /\ tx' = [tx EXCEPT ![p] = Idle]
    /\ UNCHANGED <<cmd, body, wait, readCt, domain, held, effects, crashes>>

(* A writer outside the contract sends a body nobody validated.             *)
ForeignSend(i, b) ==
    /\ NextId(i)
    /\ status' = [status EXCEPT ![i] = "live"]
    /\ body' = [body EXCEPT ![i] = b]
    /\ UNCHANGED <<cmd, wait, readCt, domain, tx, held, effects, crashes>>

-----------------------------------------------------------------------------
(* Consumers                                                                *)

Visible == {i \in Ids : status[i] = "live" /\ wait[i] = 0}

(* pgmq.read: the first n visible rows in the order of their identities.    *)
FirstVisible(n) == {i \in Visible : Cardinality({j \in Visible : j < i}) < n}

Counted(n) == IF n < MaxReads THEN n + 1 ELSE MaxReads

(* Mutant: VisibleAt is rounded by the reader instead of read from the row.  *)
DeliveredLocalClock(k, i, secs) ==
    [id |-> i, ct |-> Counted(readCt[i]), left |-> secs + 1,
     err |-> ContractError(Lang[k], body[i]), done |-> FALSE]

Delivered(k, i, secs) ==
    [id |-> i, ct |-> Counted(readCt[i]), left |-> secs,
     err |-> ContractError(Lang[k], body[i]), done |-> FALSE]

(* Mutant: one malformed row fails the whole read, after the leases are taken.*)
ReadAllOrNothing(k, vt, n) ==
    /\ n > 0
    /\ Seconds(vt) > 0
    /\ held[k] = {}
    /\ FirstVisible(n) # {}
    /\ wait' = [i \in Ids |-> IF i \in FirstVisible(n) THEN Seconds(vt) ELSE wait[i]]
    /\ readCt' = [i \in Ids |-> IF i \in FirstVisible(n) THEN Counted(readCt[i]) ELSE readCt[i]]
    /\ held' = [held EXCEPT ![k] =
                   IF \E i \in FirstVisible(n) : ContractError(Lang[k], body[i]) THEN {}
                   ELSE {Delivered(k, i, Seconds(vt)) : i \in FirstVisible(n)}]
    /\ UNCHANGED <<status, cmd, body, domain, tx, effects, crashes>>

(* Read: a malformed row is delivered with the others, flagged.             *)
Read(k, vt, n) ==
    /\ n > 0
    /\ Seconds(vt) > 0
    /\ held[k] = {}
    /\ FirstVisible(n) # {}
    /\ wait' = [i \in Ids |-> IF i \in FirstVisible(n) THEN Seconds(vt) ELSE wait[i]]
    /\ readCt' = [i \in Ids |-> IF i \in FirstVisible(n) THEN Counted(readCt[i]) ELSE readCt[i]]
    /\ held' = [held EXCEPT ![k] = {Delivered(k, i, Seconds(vt)) : i \in FirstVisible(n)}]
    /\ UNCHANGED <<status, cmd, body, domain, tx, effects, crashes>>

(* Mutants: the boolean answer is ignored; an archived row still answers.   *)
SucceededIgnored(i) == TRUE
SucceededAnyRow(i) == status[i] # "free"

(* What pgmq.delete and pgmq.archive answer: was the row there. Nothing     *)
(* ties the call to the lease under which the caller read the row.          *)
Succeeded(i) == status[i] = "live"

(* pgmqBooleanOperation: an error, and no change, when no row was affected. *)
BooleanOperation(i, terminal) ==
    status' = IF Succeeded(i) THEN [status EXCEPT ![i] = terminal] ELSE status

Drop(k, d) == held' = [held EXCEPT ![k] = @ \ {d}]

OneMore(n) == IF n < 2 THEN n + 1 ELSE 2

(* Complete in the transaction of the effect: when it returns its error the *)
(* consumer rolls the effect back.                                          *)
CompleteTx(k, d) ==
    /\ k \in TxConsumers
    /\ ~d.err
    /\ BooleanOperation(d.id, "deleted")
    /\ effects' = IF Succeeded(d.id) THEN [effects EXCEPT ![d.id] = OneMore(@)] ELSE effects
    /\ Drop(k, d)
    /\ UNCHANGED <<cmd, body, wait, readCt, domain, tx, crashes>>

(* A consumer on its own connection commits the effect first ...            *)
Apply(k, d) ==
    /\ k \notin TxConsumers
    /\ ~d.err
    /\ ~d.done
    /\ effects' = [effects EXCEPT ![d.id] = OneMore(@)]
    /\ held' = [held EXCEPT ![k] = (@ \ {d}) \cup {[d EXCEPT !.done = TRUE]}]
    /\ UNCHANGED <<status, cmd, body, wait, readCt, domain, tx, crashes>>

(* Mutant: the row is completed before the effect is committed.             *)
CompleteEarly(k, d) ==
    /\ ~d.err
    /\ BooleanOperation(d.id, "deleted")
    /\ Drop(k, d)
    /\ UNCHANGED <<cmd, body, wait, readCt, domain, tx, effects, crashes>>

(* ... and completes the row in a later statement.                          *)
Complete(k, d) ==
    /\ d.done
    /\ BooleanOperation(d.id, "deleted")
    /\ Drop(k, d)
    /\ UNCHANGED <<cmd, body, wait, readCt, domain, tx, effects, crashes>>

(* DeadLetter: rows that break the contract, and rows read too often.       *)
DeadLetter(k, d) ==
    /\ d.err \/ (d.ct >= MaxReads /\ ~d.done)
    /\ BooleanOperation(d.id, "archived")
    /\ Drop(k, d)
    /\ UNCHANGED <<cmd, body, wait, readCt, domain, tx, effects, crashes>>

Failed(d) == ~d.err /\ ~d.done /\ d.ct < MaxReads

(* Retry: set_vt to the clamped delay; an error when the row is gone.       *)
Retry(k, d, delay) ==
    /\ Failed(d)
    /\ d.left > 0 \/ StaleRetry
    /\ wait' = IF status[d.id] = "live" THEN [wait EXCEPT ![d.id] = DelaySeconds(delay)]
                                        ELSE wait
    /\ Drop(k, d)
    /\ UNCHANGED <<status, cmd, body, readCt, domain, tx, effects, crashes>>

(* A consumer that heeds VisibleAt leaves an expired delivery to the next   *)
(* reader instead of retrying it.                                           *)
Abandon(k, d) ==
    /\ Failed(d)
    /\ d.left = 0
    /\ ~StaleRetry
    /\ Drop(k, d)
    /\ UNCHANGED <<status, cmd, body, wait, readCt, domain, tx, effects, crashes>>

(* A consumer dies with its deliveries, or the answer to its Read is lost.  *)
Crash(k) ==
    /\ held[k] # {}
    /\ crashes < MaxCrashes
    /\ held' = [held EXCEPT ![k] = {}]
    /\ crashes' = crashes + 1
    /\ UNCHANGED <<status, cmd, body, wait, readCt, domain, tx, effects>>

(* One second passes.                                                       *)
Less(n) == IF n > 0 THEN n - 1 ELSE 0
Tick ==
    /\ \/ \E i \in Ids : wait[i] > 0
       \/ \E k \in Consumers : \E d \in held[k] : d.left > 0
    /\ wait' = [i \in Ids |-> Less(wait[i])]
    /\ held' = [k \in Consumers |-> {[d EXCEPT !.left = Less(@)] : d \in held[k]}]
    /\ UNCHANGED <<status, cmd, body, readCt, domain, tx, effects, crashes>>

-----------------------------------------------------------------------------
Settle(k, d) ==
    \/ CompleteTx(k, d) \/ Apply(k, d) \/ Complete(k, d) \/ DeadLetter(k, d)
    \/ \E delay \in Delays : Retry(k, d, delay)
    \/ Abandon(k, d)

ReadSome(k) == \E vt \in Leases, n \in Batches : Read(k, vt, n)

Produce(p) ==
    \/ \E c \in Commands : Begin(p, c)
    \/ \E i \in Ids, b \in Bodies, d \in Delays : Enqueue(p, i, b, d)
    \/ Commit(p)
    \/ Abort(p)

Next ==
    \/ \E p \in Producers : Produce(p)
    \/ \E i \in Ids, b \in ForeignBodies : ForeignSend(i, b)
    \/ \E k \in Consumers :
          \/ ReadSome(k)
          \/ \E d \in held[k] : Settle(k, d)
          \/ Crash(k)
    \/ Tick

Spec == Init /\ [][Next]_vars

(* Time passes, a consumer that can read reads, and one that holds a        *)
(* delivery settles it. Producers are free to stop at any point.            *)
Fairness ==
    /\ WF_vars(Tick)
    /\ \A k \in Consumers :
          /\ WF_vars(ReadSome(k))
          /\ WF_vars(\E d \in held[k] : Settle(k, d))

FairSpec == Spec /\ Fairness

-----------------------------------------------------------------------------
(* The outbox: a row is on the queue only with its command's domain state   *)
(* committed, and a committed command has a row that was sent with it.      *)
Sent(i) == status[i] \in {"live", "deleted", "archived"}
OutboxAtomic ==
    /\ \A i \in Ids : Sent(i) /\ cmd[i] # NoCommand => cmd[i] \in domain
    /\ \A c \in domain : \E i \in Ids : Sent(i) /\ cmd[i] = c

(* Consumers that complete in the transaction of their effect execute a     *)
(* command exactly once per completed row, whatever leases expired, and     *)
(* never for a row that ended in the archive.                               *)
ExactlyOnceInTx ==
    TxConsumers = Consumers =>
        \A i \in Ids : effects[i] = (IF status[i] = "deleted" THEN 1 ELSE 0)

(* Consumers on their own connection: at least once. A row never leaves the *)
(* queue as completed before its effect is committed.                       *)
AtLeastOnce == \A i \in Ids : status[i] = "deleted" => effects[i] >= 1

(* A body outside the shared contract is never executed and never           *)
(* completed: the only way off the queue is the archive.                    *)
MalformedOnlyArchived ==
    \A i \in Ids : Sent(i) /\ OutOfContract(body[i]) =>
        effects[i] = 0 /\ status[i] \in {"live", "archived"}

(* An envelope made by a constructor of either runtime is a contract error   *)
(* for one reader only: for Go, when createPgmqEnvelope was given a Date     *)
(* whose year toISOString prints with a sign. Every other row of a producer  *)
(* that ends in the archive as malformed was put together by hand.          *)
ConstructedReadable ==
    \A k \in Consumers : \A d \in held[k] :
        body[d.id] \in Constructed("go") \cup Constructed("ts") =>
            (d.err <=> Lang[k] = "go" /\ body[d.id].created = "expandedYear")

(* One shared contract: what Enqueue of either runtime accepted is not a    *)
(* contract error for Read of either runtime.                               *)
SharedContract ==
    \A k \in Consumers : \A d \in held[k] : cmd[d.id] # NoCommand => ~d.err

(* While a lease lasts, nobody else is handed the row: two deliveries of    *)
(* one live row never both have time left.                                  *)
LeaseHonoured ==
    \A k, l \in Consumers : \A d \in held[k], e \in held[l] :
        (k # l /\ d.id = e.id /\ status[d.id] = "live") => (d.left = 0 \/ e.left = 0)

(* Every row on the queue is eventually completed or archived, however many *)
(* handlers fail, leases expire and (boundedly many) consumers crash.       *)
EventuallySettled ==
    \A i \in Ids : status[i] = "live" ~> status[i] \in {"deleted", "archived"}

(* The transport implements the abstract durable queue.                     *)
Outcome(i) ==
    CASE status[i] = "live" -> "queued"
      [] status[i] = "deleted" -> "completed"
      [] status[i] = "archived" -> "deadLettered"
      [] OTHER -> "absent"
Abstract == INSTANCE DurableQueue WITH
    outcome <- [i \in Ids |-> Outcome(i)],
    sentFor <- [i \in Ids |-> IF Sent(i) THEN cmd[i] ELSE NoCommand],
    domain <- domain
ImplementsDurableQueue == Abstract!Spec
=============================================================================
