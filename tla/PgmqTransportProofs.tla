------------------------ MODULE PgmqTransportProofs ------------------------
(* Proofs about PgmqTransport for every value of its constants.             *)
EXTENDS PgmqTransport, TLAPS

-----------------------------------------------------------------------------
(* Helpers of the model.                                                    *)

(* A delay becomes a whole, non-negative number of seconds.                 *)
LEMMA DelayIsNat == ASSUME NEW d \in Int PROVE DelaySeconds(d) \in Nat
BY DEF DelaySeconds, Seconds

(* A read count stays within the consumers' threshold.                      *)
LEMMA CountedInRange ==
    ASSUME NEW n \in 0..MaxReads PROVE Counted(n) \in 0..MaxReads
BY BoundsAssumption DEF Counted

(* Only live rows are visible.                                              *)
LEMMA FirstVisibleIsLive ==
    ASSUME NEW n, NEW i \in FirstVisible(n)
    PROVE  i \in Ids /\ status[i] = "live"
BY DEF FirstVisible, Visible

(* Every body the transport can hold is a Body.                             *)
LEMMA BlankIsBody == Blank \in Body
BY DEF Blank, Body

-----------------------------------------------------------------------------
(* Type correctness.                                                        *)

LEMMA TypeInit == Init => TypeOK
BY BlankIsBody, BoundsAssumption DEF Init, TypeOK, Idle, Statuses

LEMMA TypeProduce ==
    ASSUME TypeOK, NEW p \in Producers, Produce(p) PROVE TypeOK'
<1> USE DEF TypeOK, Statuses
<1>1. CASE \E c \in Commands : Begin(p, c)
  BY <1>1 DEF Begin
<1>2. CASE \E i \in Ids, b \in Bodies, d \in Delays : Enqueue(p, i, b, d)
  <2>1. PICK i \in Ids, b \in Bodies, d \in Delays : Enqueue(p, i, b, d)
    BY <1>2
  <2>2. b \in Body /\ DelaySeconds(d) \in Nat
    BY InputsAssumption, DelayIsNat
  <2>3. tx' \in [Producers -> [cmd: Commands \cup {NoCommand}, ids: SUBSET Ids]]
    BY <2>1 DEF Enqueue
  <2> QED
    BY <2>1, <2>2, <2>3 DEF Enqueue
<1>3. CASE Commit(p)
  BY <1>3 DEF Commit, Idle
<1>4. CASE Abort(p)
  BY <1>4 DEF Abort, Idle
<1> QED
  BY <1>1, <1>2, <1>3, <1>4 DEF Produce

LEMMA TypeRead ==
    ASSUME TypeOK, NEW k \in Consumers, ReadSome(k) PROVE TypeOK'
<1> USE DEF TypeOK
<1>1. PICK vt \in Leases, n \in Batches : Read(k, vt, n)
  BY DEF ReadSome
<1>2. Seconds(vt) \in Nat
  BY <1>1, InputsAssumption DEF Read, Seconds
<1>3. \A i \in Ids : Counted(readCt[i]) \in 0..MaxReads
  BY CountedInRange
<1>4. \A i \in Ids : Delivered(k, i, Seconds(vt)) \in Delivery
  BY <1>2, <1>3 DEF Delivered, Delivery, ContractError, GoContractError, TsContractError,
                    GoEnvelopeValid, TsEnvelopeValid, Identified
<1>5. FirstVisible(n) \subseteq Ids
  BY DEF FirstVisible, Visible
<1>6. held' \in [Consumers -> SUBSET Delivery]
  BY <1>1, <1>4, <1>5 DEF Read
<1> QED
  BY <1>1, <1>2, <1>3, <1>6 DEF Read

LEMMA TypeSettle ==
    ASSUME TypeOK, NEW k \in Consumers, NEW d \in held[k], Settle(k, d) PROVE TypeOK'
<1> USE DEF TypeOK
<1>1. d \in Delivery /\ d.id \in Ids
  BY DEF Delivery
<1>2. ASSUME NEW t \in Statuses, BooleanOperation(d.id, t)
      PROVE  status' \in [Ids -> Statuses]
  BY <1>1, <1>2 DEF BooleanOperation
<1>3. Drop(k, d) => held' \in [Consumers -> SUBSET Delivery]
  BY DEF Drop
<1>4. \A n \in 0..2 : OneMore(n) \in 0..2
  BY DEF OneMore
<1>5. CASE CompleteTx(k, d)
  BY <1>1, <1>2, <1>3, <1>4, <1>5 DEF CompleteTx, Statuses
<1>6. CASE Apply(k, d)
  <2>1. [d EXCEPT !.done = TRUE] \in Delivery
    BY <1>1 DEF Delivery
  <2>2. held' \in [Consumers -> SUBSET Delivery]
    BY <1>6, <2>1 DEF Apply
  <2> QED
    BY <1>1, <1>4, <1>6, <2>2 DEF Apply
<1>7. CASE Complete(k, d)
  BY <1>1, <1>2, <1>3, <1>7 DEF Complete, Statuses
<1>8. CASE DeadLetter(k, d)
  BY <1>1, <1>2, <1>3, <1>8 DEF DeadLetter, Statuses
<1>9. ASSUME NEW delay \in Delays, Retry(k, d, delay) PROVE TypeOK'
  <2>1. DelaySeconds(delay) \in Nat
    BY InputsAssumption, DelayIsNat
  <2> QED
    BY <1>1, <1>3, <1>9, <2>1 DEF Retry
<1>10. CASE Abandon(k, d)
  BY <1>1, <1>3, <1>10 DEF Abandon
<1> QED
  BY <1>5, <1>6, <1>7, <1>8, <1>9, <1>10 DEF Settle

LEMMA TypeTick == ASSUME TypeOK, Tick PROVE TypeOK'
<1> USE DEF TypeOK
<1>1. \A n \in Nat : Less(n) \in Nat
  BY DEF Less
<1>2. \A d \in Delivery : [d EXCEPT !.left = Less(@)] \in Delivery
  BY <1>1 DEF Delivery
<1>3. held' \in [Consumers -> SUBSET Delivery]
  BY <1>2 DEF Tick
<1>4. wait' \in [Ids -> Nat]
  BY <1>1 DEF Tick
<1> QED
  BY <1>3, <1>4 DEF Tick

LEMMA TypeStep == ASSUME TypeOK, [Next]_vars PROVE TypeOK'
<1>1. ASSUME NEW i \in Ids, NEW b \in ForeignBodies, ForeignSend(i, b) PROVE TypeOK'
  BY <1>1, InputsAssumption DEF ForeignSend, TypeOK, Statuses
<1>2. ASSUME NEW k \in Consumers, Crash(k) PROVE TypeOK'
  BY <1>2, BoundsAssumption DEF Crash, TypeOK
<1>3. CASE UNCHANGED vars
  BY <1>3 DEF vars, TypeOK
<1> QED
  BY <1>1, <1>2, <1>3, TypeProduce, TypeRead, TypeSettle, TypeTick DEF Next

(* Every variable keeps its type: in particular no row ever waits a negative *)
(* time, whatever delays the callers pass (the clamps of Enqueue and Retry). *)
THEOREM TypeCorrect == Spec => []TypeOK
BY TypeInit, TypeStep, PTL DEF Spec

-----------------------------------------------------------------------------
(* The outbox.                                                              *)

(* A row belongs to an open transaction exactly while it is pending, to one *)
(* transaction only and for its command; a free identity has no command.    *)
TxInv ==
    /\ \A p \in Producers : \A i \in tx[p].ids :
          status[i] = "pending" /\ cmd[i] = tx[p].cmd /\ tx[p].cmd # NoCommand
    /\ \A p, q \in Producers : p # q => tx[p].ids \cap tx[q].ids = {}
    /\ \A i \in Ids : status[i] = "free" => cmd[i] = NoCommand

OutboxInv == TypeOK /\ TxInv /\ OutboxAtomic

LEMMA OutboxInit == Init => OutboxInv
BY TypeInit DEF Init, OutboxInv, TxInv, OutboxAtomic, Sent, Idle

(* Sent rows stay sent with their command; the set of open transactions and *)
(* everything about them is left alone.                                     *)
LEMMA OutboxQuiet ==
    ASSUME OutboxInv, UNCHANGED <<cmd, domain, tx>>,
           \A i \in Ids : status'[i] = status[i] \/ (Sent(i) /\ Sent(i)')
    PROVE  TxInv' /\ OutboxAtomic'
BY DEF OutboxInv, TxInv, OutboxAtomic, Sent, TypeOK

LEMMA OutboxProduce ==
    ASSUME OutboxInv, NEW p \in Producers, Produce(p) PROVE TxInv' /\ OutboxAtomic'
<1> USE DEF OutboxInv, TypeOK
<1>1. ASSUME NEW c \in Commands, Begin(p, c) PROVE TxInv' /\ OutboxAtomic'
  <2>1. tx[p].ids = {}
    BY <1>1 DEF Begin, Idle
  <2>2. tx'[p].ids = {} /\ \A q \in Producers : q # p => tx'[q] = tx[q]
    BY <1>1, <2>1 DEF Begin
  <2>3. TxInv'
    BY <1>1, <2>1, <2>2 DEF Begin, TxInv
  <2> QED
    BY <1>1, <2>3 DEF Begin, OutboxAtomic, Sent
<1>2. ASSUME NEW i \in Ids, NEW b \in Bodies, NEW d \in Delays, Enqueue(p, i, b, d)
      PROVE  TxInv' /\ OutboxAtomic'
  <2>1. status[i] = "free" /\ \A q \in Producers : i \notin tx[q].ids
    BY <1>2 DEF Enqueue, NextId, TxInv
  <2>2. \A q \in Producers : tx'[q].cmd = tx[q].cmd
                           /\ tx'[q].ids = (IF q = p THEN tx[q].ids \cup {i} ELSE tx[q].ids)
    BY <1>2 DEF Enqueue
  <2>3. TxInv'
    BY <1>2, <2>1, <2>2 DEF Enqueue, TxInv
  <2> QED
    BY <1>2, <2>1, <2>3 DEF Enqueue, OutboxAtomic, Sent
<1>3. CASE Commit(p)
  <2>1. \A q \in Producers : tx'[q] = (IF q = p THEN Idle ELSE tx[q])
    BY <1>3 DEF Commit
  <2>2. TxInv'
    BY <1>3, <2>1 DEF Commit, TxInv, Idle
  <2>3. \A i \in Ids : Sent(i)' <=> Sent(i) \/ i \in tx[p].ids
    BY <1>3 DEF Commit, Sent, TxInv
  <2>4. \A i \in Ids : Sent(i)' /\ cmd'[i] # NoCommand => cmd'[i] \in domain'
    BY <1>3, <2>3 DEF Commit, OutboxAtomic, TxInv
  <2>5. \A c \in domain' : \E i \in Ids : Sent(i)' /\ cmd'[i] = c
    <3>1. PICK i \in tx[p].ids : TRUE
      BY <1>3 DEF Commit
    <3>2. i \in Ids /\ Sent(i)' /\ cmd'[i] = tx[p].cmd
      BY <1>3, <2>3, <3>1 DEF Commit, TxInv
    <3> QED
      BY <1>3, <2>3, <3>2 DEF Commit, OutboxAtomic
  <2> QED
    BY <2>2, <2>4, <2>5 DEF OutboxAtomic
<1>4. CASE Abort(p)
  <2>1. \A q \in Producers : tx'[q] = (IF q = p THEN Idle ELSE tx[q])
    BY <1>4 DEF Abort
  <2>2. TxInv'
    BY <1>4, <2>1 DEF Abort, TxInv, Idle
  <2>3. \A i \in Ids : Sent(i)' <=> Sent(i)
    BY <1>4 DEF Abort, Sent, TxInv
  <2> QED
    BY <1>4, <2>2, <2>3 DEF Abort, OutboxAtomic
<1> QED
  BY <1>1, <1>2, <1>3, <1>4 DEF Produce

(* Settling a delivery ends live rows only.                                 *)
LEMMA SettleEndsLiveRows ==
    ASSUME TypeOK, NEW k \in Consumers, NEW d \in held[k], Settle(k, d)
    PROVE  /\ UNCHANGED <<cmd, body, domain, tx>>
           /\ \A i \in Ids : status'[i] = status[i] \/ (Sent(i) /\ Sent(i)')
BY DEF Settle, CompleteTx, Apply, Complete, DeadLetter, Retry, Abandon,
       BooleanOperation, Succeeded, Sent, TypeOK, Statuses

LEMMA OutboxStep == ASSUME OutboxInv, [Next]_vars PROVE OutboxInv'
<1> USE DEF OutboxInv
<1>1. TypeOK'
  BY TypeStep
<1>2. ASSUME NEW p \in Producers, Produce(p) PROVE OutboxInv'
  BY <1>1, <1>2, OutboxProduce
<1>3. ASSUME NEW i \in Ids, NEW b \in ForeignBodies, ForeignSend(i, b) PROVE OutboxInv'
  <2>1. status[i] = "free" /\ cmd[i] = NoCommand /\ \A q \in Producers : i \notin tx[q].ids
    BY <1>3 DEF ForeignSend, NextId, TxInv
  <2> QED
    BY <1>1, <1>3, <2>1 DEF ForeignSend, TxInv, OutboxAtomic, Sent, TypeOK
<1>4. ASSUME NEW k \in Consumers, ReadSome(k) PROVE OutboxInv'
  BY <1>1, <1>4, OutboxQuiet DEF ReadSome, Read
<1>5. ASSUME NEW k \in Consumers, NEW d \in held[k], Settle(k, d) PROVE OutboxInv'
  BY <1>1, <1>5, OutboxQuiet, SettleEndsLiveRows
<1>6. ASSUME NEW k \in Consumers, Crash(k) PROVE OutboxInv'
  BY <1>1, <1>6, OutboxQuiet DEF Crash
<1>7. CASE Tick
  BY <1>1, <1>7, OutboxQuiet DEF Tick
<1>8. CASE UNCHANGED vars
  BY <1>1, <1>8, OutboxQuiet DEF vars
<1> QED
  BY <1>2, <1>3, <1>4, <1>5, <1>6, <1>7, <1>8 DEF Next

(* For any number of producers and rows: a row is on the queue only with its *)
(* command's domain state committed, and every committed command has a row. *)
THEOREM OutboxIsAtomic == Spec => []OutboxAtomic
<1>1. OutboxInv => OutboxAtomic
  BY DEF OutboxInv
<1> QED
  BY OutboxInit, OutboxStep, <1>1, PTL DEF Spec

-----------------------------------------------------------------------------
(* Exactly once, for consumers that complete in the effect's transaction.   *)

ExactlyOnceInv ==
    /\ OutboxInv
    /\ ExactlyOnceInTx
    /\ TxConsumers = Consumers => \A k \in Consumers : \A d \in held[k] : ~d.done

LEMMA ExactlyOnceStep == ASSUME ExactlyOnceInv, [Next]_vars PROVE ExactlyOnceInv'
<1> USE DEF ExactlyOnceInv
<1>0. OutboxInv'
  BY OutboxStep
<1> TypeOK /\ TxInv
  BY DEF OutboxInv
<1> SUFFICES ASSUME TxConsumers = Consumers
             PROVE  /\ \A i \in Ids : effects'[i] = (IF status'[i] = "deleted" THEN 1 ELSE 0)
                    /\ \A k \in Consumers : \A d \in held'[k] : ~d.done
  BY <1>0 DEF ExactlyOnceInTx
<1> DEFINE Goal == /\ \A i \in Ids : effects'[i] = (IF status'[i] = "deleted" THEN 1 ELSE 0)
                   /\ \A k \in Consumers : \A d \in held'[k] : ~d.done
<1>1. ASSUME NEW p \in Producers, Produce(p) PROVE Goal
  <2>1. UNCHANGED <<effects, held>>
    BY <1>1 DEF Produce, Begin, Enqueue, Commit, Abort
  <2>2. \A i \in Ids : status'[i] = "deleted" <=> status[i] = "deleted"
    BY <1>1 DEF Produce, Begin, Enqueue, Commit, Abort, NextId, TypeOK, TxInv
  <2> QED
    BY <2>1, <2>2 DEF ExactlyOnceInTx
<1>2. ASSUME NEW i \in Ids, NEW b \in ForeignBodies, ForeignSend(i, b) PROVE Goal
  BY <1>2 DEF ForeignSend, NextId, ExactlyOnceInTx, TypeOK
<1>3. ASSUME NEW k \in Consumers, ReadSome(k) PROVE Goal
  <2>1. PICK vt \in Leases, n \in Batches : Read(k, vt, n)
    BY <1>3 DEF ReadSome
  <2> QED
    BY <2>1 DEF Read, Delivered, ExactlyOnceInTx, TypeOK
<1>4. ASSUME NEW k \in Consumers, NEW d \in held[k], Settle(k, d) PROVE Goal
  <2>1. d.id \in Ids /\ ~d.done /\ k \in TxConsumers
    BY DEF TypeOK, Delivery
  <2>2. CASE CompleteTx(k, d)
    BY <2>1, <2>2 DEF CompleteTx, BooleanOperation, Succeeded, Drop, OneMore, ExactlyOnceInTx, TypeOK
  <2>3. CASE DeadLetter(k, d)
    BY <2>1, <2>3 DEF DeadLetter, BooleanOperation, Succeeded, Drop, ExactlyOnceInTx, TypeOK
  <2>4. ASSUME NEW delay \in Delays, Retry(k, d, delay) PROVE Goal
    BY <2>1, <2>4 DEF Retry, Drop, ExactlyOnceInTx, TypeOK
  <2>5. CASE Abandon(k, d)
    BY <2>1, <2>5 DEF Abandon, Drop, ExactlyOnceInTx, TypeOK
  <2> QED
    BY <1>4, <2>1, <2>2, <2>3, <2>4, <2>5 DEF Settle, Apply, Complete
<1>5. ASSUME NEW k \in Consumers, Crash(k) PROVE Goal
  BY <1>5 DEF Crash, ExactlyOnceInTx, TypeOK
<1>6. CASE Tick
  <2>1. \A e \in Delivery : [e EXCEPT !.left = Less(@)].done = e.done
    BY DEF Delivery
  <2> QED
    BY <1>6, <2>1 DEF Tick, ExactlyOnceInTx, TypeOK
<1>7. CASE UNCHANGED vars
  BY <1>7 DEF vars, ExactlyOnceInTx, TypeOK
<1> QED
  BY <1>1, <1>2, <1>3, <1>4, <1>5, <1>6, <1>7 DEF Next

(* Whatever leases end and whoever else was handed the row, a command's     *)
(* effect is committed once per completed row and never for another row.    *)
THEOREM EffectExactlyOnce == Spec => []ExactlyOnceInTx
<1>1. Init => ExactlyOnceInv
  BY OutboxInit DEF Init, ExactlyOnceInv, ExactlyOnceInTx
<1>2. ExactlyOnceInv => ExactlyOnceInTx
  BY DEF ExactlyOnceInv
<1> QED
  BY <1>1, <1>2, ExactlyOnceStep, PTL DEF Spec

-----------------------------------------------------------------------------
(* Leases, for consumers that do not retry after VisibleAt.                 *)

(* A live row stays invisible at least as long as any delivery of it lasts, *)
(* at most one delivery of a row lasts, and each consumer holds one per row. *)
LeaseInv ==
    /\ \A k \in Consumers : \A d \in held[k] :
          status[d.id] = "live" => d.left <= wait[d.id]
    /\ \A k \in Consumers : \A d \in held[k] : status[d.id] \in {"live", "deleted", "archived"}
    /\ \A k \in Consumers : \A d, e \in held[k] : d.id = e.id => d = e
    /\ LeaseHonoured

LEMMA LeaseDrop ==
    ASSUME TypeOK, LeaseInv, NEW k \in Consumers, NEW d \in held[k], Drop(k, d),
           UNCHANGED wait,
           \A i \in Ids : status'[i] = status[i] \/ (Sent(i) /\ status'[i] \in {"deleted", "archived"})
    PROVE  LeaseInv'
<1>1. \A l \in Consumers : held'[l] \subseteq held[l] /\ held[l] \subseteq Delivery
  BY DEF Drop, TypeOK
<1>2. \A e \in Delivery : e.id \in Ids
  BY DEF Delivery
<1> QED
  BY <1>1, <1>2 DEF LeaseInv, LeaseHonoured, Sent

LEMMA LeaseRead ==
    ASSUME TypeOK, LeaseInv, NEW k \in Consumers, ReadSome(k) PROVE LeaseInv'
<1>1. PICK vt \in Leases, n \in Batches : Read(k, vt, n)
  BY DEF ReadSome
<1> DEFINE S == FirstVisible(n)
           s == Seconds(vt)
<1>2. s \in Nat /\ s > 0
  BY <1>1, InputsAssumption DEF Read, Seconds
<1>3. \A i \in S : i \in Ids /\ status[i] = "live" /\ wait[i] = 0
  BY DEF FirstVisible, Visible
<1>4. \A l \in Consumers : l # k => held'[l] = held[l]
  BY <1>1 DEF Read, TypeOK
<1>5. held'[k] = {Delivered(k, i, s) : i \in S}
  BY <1>1 DEF Read, TypeOK
<1>6. \A d \in held'[k] : d.id \in S /\ d.left = s /\ d = Delivered(k, d.id, s)
  BY <1>5 DEF Delivered
<1>7. \A l \in Consumers : \A e \in held[l] : e.id \in Ids /\ e.left \in Nat
  BY DEF TypeOK, Delivery
<1>8. \A i \in Ids : wait'[i] = (IF i \in S THEN s ELSE wait[i])
  BY <1>1 DEF Read
<1>9. \A l \in Consumers : \A e \in held[l] : e.id \in S => e.left = 0
  BY <1>3, <1>7 DEF LeaseInv
<1>10. UNCHANGED status
  BY <1>1 DEF Read
<1>11. \A l \in Consumers : \A d \in held'[l] :
          status'[d.id] = "live" => d.left <= wait'[d.id]
  <2>1. \A d \in held'[k] : d.left <= wait'[d.id]
    BY <1>2, <1>3, <1>6, <1>8
  <2>2. ASSUME NEW l \in Consumers, l # k, NEW e \in held[l], status[e.id] = "live"
        PROVE  e.left <= wait'[e.id]
    BY <1>2, <1>7, <1>8, <1>9, <2>2 DEF LeaseInv
  <2> QED
    BY <1>4, <1>10, <2>1, <2>2
<1>12. \A l \in Consumers : \A d \in held'[l] : status'[d.id] \in {"live", "deleted", "archived"}
  BY <1>3, <1>4, <1>6, <1>10 DEF LeaseInv
<1>13. \A l \in Consumers : \A d, e \in held'[l] : d.id = e.id => d = e
  BY <1>4, <1>6 DEF LeaseInv
<1>14. LeaseHonoured'
  BY <1>4, <1>6, <1>9, <1>10 DEF LeaseInv, LeaseHonoured
<1> QED
  BY <1>11, <1>12, <1>13, <1>14 DEF LeaseInv

LEMMA LeaseRetry ==
    ASSUME TypeOK, LeaseInv, ~StaleRetry, NEW k \in Consumers, NEW d \in held[k],
           NEW delay \in Delays, Retry(k, d, delay)
    PROVE  LeaseInv'
<1>1. d.left > 0 /\ d.id \in Ids
  BY DEF Retry, TypeOK, Delivery
<1>2. UNCHANGED status /\ \A i \in Ids : i # d.id => wait'[i] = wait[i]
  BY <1>1 DEF Retry, TypeOK
<1>3. \A l \in Consumers : \A e \in held'[l] : e \in held[l] /\ e \in Delivery /\ e.id \in Ids
                                          /\ e.left \in Nat /\ (l = k => e # d)
  BY DEF Retry, Drop, TypeOK, Delivery
<1>4. \A l \in Consumers : \A e \in held'[l] :
         e.id = d.id /\ status[d.id] = "live" => e.left = 0
  BY <1>1, <1>3 DEF LeaseInv, LeaseHonoured
<1>5. \A i \in Ids : wait'[i] \in Nat
  BY TypeStep DEF Next, Settle, TypeOK
<1>6. \A l \in Consumers : \A e \in held'[l] :
         status'[e.id] = "live" => e.left <= wait'[e.id]
  BY <1>2, <1>3, <1>4, <1>5 DEF LeaseInv
<1> QED
  BY <1>2, <1>3, <1>6 DEF LeaseInv, LeaseHonoured

LEMMA LeaseApply ==
    ASSUME TypeOK, LeaseInv, NEW k \in Consumers, NEW d \in held[k], Apply(k, d)
    PROVE  LeaseInv'
<1> DEFINE f == [d EXCEPT !.done = TRUE]
<1>1. f.id = d.id /\ f.left = d.left
  BY DEF TypeOK, Delivery
<1>2. UNCHANGED <<status, wait>>
  BY DEF Apply
<1>3. \A l \in Consumers : l # k => held'[l] = held[l]
  BY DEF Apply, TypeOK
<1>4. held'[k] = (held[k] \ {d}) \cup {f}
  BY DEF Apply, TypeOK
<1> HIDE DEF f
<1> QED
  BY <1>1, <1>2, <1>3, <1>4 DEF LeaseInv, LeaseHonoured

LEMMA LeaseTick == ASSUME TypeOK, LeaseInv, Tick PROVE LeaseInv'
<1> DEFINE F(e) == [e EXCEPT !.left = Less(@)]
<1>1. \A e \in Delivery : F(e).id = e.id /\ F(e).left = Less(e.left) /\ e.id \in Ids /\ e.left \in Nat
  BY DEF Delivery
<1>2. \A l \in Consumers : held'[l] = {F(e) : e \in held[l]} /\ held[l] \subseteq Delivery
  BY DEF Tick, TypeOK
<1>3. \A i \in Ids : wait'[i] = Less(wait[i]) /\ wait[i] \in Nat
  BY DEF Tick, TypeOK
<1>4. UNCHANGED status
  BY DEF Tick
<1> HIDE DEF F
<1>5. \A m, n \in Nat : m <= n => Less(m) <= Less(n)
  BY DEF Less
<1>6. \A n \in Nat : n = 0 => Less(n) = 0
  BY DEF Less
<1>7. \A l \in Consumers : \A d \in held'[l] : \E e \in held[l] :
         d = F(e) /\ d.id = e.id /\ d.left = Less(e.left) /\ e.id \in Ids /\ e.left \in Nat
  BY <1>1, <1>2
<1>8. \A l \in Consumers : \A d \in held'[l] :
         status'[d.id] = "live" => d.left <= wait'[d.id]
  BY <1>3, <1>4, <1>5, <1>7 DEF LeaseInv
<1>9. \A l \in Consumers : \A d \in held'[l] : status'[d.id] \in {"live", "deleted", "archived"}
  BY <1>4, <1>7 DEF LeaseInv
<1>10. \A l \in Consumers : \A d, e \in held'[l] : d.id = e.id => d = e
  BY <1>7 DEF LeaseInv
<1>11. LeaseHonoured'
  BY <1>4, <1>6, <1>7 DEF LeaseInv, LeaseHonoured
<1> QED
  BY <1>8, <1>9, <1>10, <1>11 DEF LeaseInv

LEMMA LeaseStep ==
    ASSUME OutboxInv, LeaseInv, ~StaleRetry, [Next]_vars PROVE LeaseInv'
<1> USE DEF OutboxInv
<1>1. \A l \in Consumers : \A e \in held[l] : e.id \in Ids
  BY DEF TypeOK, Delivery
<1>2. ASSUME NEW p \in Producers, Produce(p) PROVE LeaseInv'
  <2>1. UNCHANGED held
    BY <1>2 DEF Produce, Begin, Enqueue, Commit, Abort
  <2>2. \A i \in Ids : status[i] \in {"live", "deleted", "archived"} =>
                        status'[i] = status[i] /\ wait'[i] = wait[i]
    BY <1>2 DEF Produce, Begin, Enqueue, Commit, Abort, NextId, TxInv, TypeOK
  <2> QED
    BY <1>1, <2>1, <2>2 DEF LeaseInv, LeaseHonoured
<1>3. ASSUME NEW i \in Ids, NEW b \in ForeignBodies, ForeignSend(i, b) PROVE LeaseInv'
  <2>1. UNCHANGED <<held, wait>> /\ \A j \in Ids : j # i => status'[j] = status[j]
    BY <1>3 DEF ForeignSend, TypeOK
  <2>2. status[i] = "free"
    BY <1>3 DEF ForeignSend, NextId
  <2>3. \A l \in Consumers : \A e \in held[l] : e.id # i
    BY <2>2 DEF LeaseInv
  <2> QED
    BY <1>1, <2>1, <2>3 DEF LeaseInv, LeaseHonoured
<1>4. ASSUME NEW k \in Consumers, ReadSome(k) PROVE LeaseInv'
  BY <1>4, LeaseRead
<1>5. ASSUME NEW k \in Consumers, NEW d \in held[k], Settle(k, d) PROVE LeaseInv'
  <2>1. CASE CompleteTx(k, d) \/ Complete(k, d) \/ DeadLetter(k, d) \/ Abandon(k, d)
    <3>1. Drop(k, d) /\ UNCHANGED wait
      BY <2>1 DEF CompleteTx, Complete, DeadLetter, Abandon
    <3>2. \A i \in Ids : status'[i] = status[i] \/ (Sent(i) /\ status'[i] \in {"deleted", "archived"})
      BY <2>1 DEF CompleteTx, Complete, DeadLetter, Abandon, BooleanOperation, Succeeded, Sent, TypeOK
    <3> QED
      BY <3>1, <3>2, LeaseDrop
  <2>2. CASE Apply(k, d)
    BY <2>2, LeaseApply
  <2>3. ASSUME NEW delay \in Delays, Retry(k, d, delay) PROVE LeaseInv'
    BY <2>3, LeaseRetry
  <2> QED
    BY <1>5, <2>1, <2>2, <2>3 DEF Settle
<1>6. ASSUME NEW k \in Consumers, Crash(k) PROVE LeaseInv'
  <2>1. \A l \in Consumers : held'[l] \subseteq held[l]
    BY <1>6 DEF Crash, TypeOK
  <2> QED
    BY <1>6, <2>1 DEF Crash, LeaseInv, LeaseHonoured
<1>7. CASE Tick
  BY <1>7, LeaseTick
<1>8. CASE UNCHANGED vars
  BY <1>8 DEF vars, LeaseInv, LeaseHonoured
<1> QED
  BY <1>2, <1>3, <1>4, <1>5, <1>6, <1>7, <1>8 DEF Next

(* If no consumer retries after VisibleAt, a lease keeps every other        *)
(* consumer away from the row until it ends.                                *)
THEOREM LeaseIsExclusive == ASSUME ~StaleRetry PROVE Spec => []LeaseHonoured
<1>1. Init => OutboxInv /\ LeaseInv
  BY OutboxInit DEF Init, LeaseInv, LeaseHonoured
<1>2. OutboxInv /\ LeaseInv /\ [Next]_vars => (OutboxInv /\ LeaseInv)'
  BY OutboxStep, LeaseStep
<1>3. LeaseInv => LeaseHonoured
  BY DEF LeaseInv
<1> QED
  BY <1>1, <1>2, <1>3, PTL DEF Spec

-----------------------------------------------------------------------------
(* Malformed rows, for consumers built with the Go runtime.                 *)

(* Whoever holds a malformed row was told so and has done nothing for it.   *)
MalformedInv ==
    /\ MalformedOnlyArchived
    /\ \A i \in Ids : ~Sent(i) => effects[i] = 0
    /\ \A k \in Consumers : \A d \in held[k] :
          Sent(d.id) /\ (OutOfContract(body[d.id]) => d.err /\ ~d.done)

(* Go's Read flags every body outside the contract, headers included.       *)
LEMMA GoFlagsMalformed ==
    ASSUME NEW b, OutOfContract(b) PROVE ContractError("go", b)
BY DEF OutOfContract, ContractError, GoContractError

LEMMA MalformedRead ==
    ASSUME TypeOK, MalformedInv, NEW k \in Consumers, Lang[k] = "go", ReadSome(k)
    PROVE  MalformedInv'
<1>1. PICK vt \in Leases, n \in Batches : Read(k, vt, n)
  BY DEF ReadSome
<1>2. UNCHANGED <<status, body, effects>>
  BY <1>1 DEF Read
<1>3. \A l \in Consumers : l # k => held'[l] = held[l]
  BY <1>1 DEF Read, TypeOK
<1>4. held'[k] = {Delivered(k, i, Seconds(vt)) : i \in FirstVisible(n)}
  BY <1>1 DEF Read, TypeOK
<1>5. \A i \in FirstVisible(n) : i \in Ids /\ Sent(i)
  BY DEF FirstVisible, Visible, Sent
<1>6. \A d \in held'[k] : Sent(d.id) /\ (OutOfContract(body[d.id]) => d.err /\ ~d.done)
  BY <1>4, <1>5, GoFlagsMalformed DEF Delivered
<1>7. \A l \in Consumers : \A d \in held'[l] :
        Sent(d.id)' /\ (OutOfContract(body'[d.id]) => d.err /\ ~d.done)
  BY <1>2, <1>3, <1>6 DEF MalformedInv, Sent
<1> QED
  BY <1>2, <1>7 DEF MalformedInv, MalformedOnlyArchived, Sent, OutOfContract,
                    GoEnvelopeValid, TsEnvelopeValid, Identified

LEMMA MalformedSettle ==
    ASSUME TypeOK, MalformedInv, NEW k \in Consumers, NEW d \in held[k], Settle(k, d)
    PROVE  MalformedInv'
<1> DEFINE x == d.id
<1>1. x \in Ids /\ Sent(x) /\ (OutOfContract(body[x]) => d.err /\ ~d.done)
  BY DEF MalformedInv, TypeOK, Delivery
<1>2. UNCHANGED body
  BY DEF Settle, CompleteTx, Apply, Complete, DeadLetter, Retry, Abandon
<1>3. \A i \in Ids : i # x => status'[i] = status[i] /\ effects'[i] = effects[i]
  BY <1>1 DEF Settle, CompleteTx, Apply, Complete, DeadLetter, Retry, Abandon,
              BooleanOperation, Succeeded, TypeOK
<1>4. Sent(x)'
  BY <1>1 DEF Settle, CompleteTx, Apply, Complete, DeadLetter, Retry, Abandon,
              BooleanOperation, Succeeded, Sent, TypeOK
<1>5. OutOfContract(body[x]) =>
        effects' = effects /\ (status'[x] = status[x] \/ status'[x] = "archived")
  BY <1>1 DEF Settle, CompleteTx, Apply, Complete, DeadLetter, Retry, Abandon,
              BooleanOperation, Succeeded, TypeOK
<1>6. \A l \in Consumers : \A e \in held'[l] :
        e \in held[l] \/ (e.id = x /\ ~OutOfContract(body[x]))
  <2>1. CASE Apply(k, d)
    BY <1>1, <2>1 DEF Apply, TypeOK, Delivery
  <2>2. CASE ~Apply(k, d)
    BY <2>2 DEF Settle, CompleteTx, Complete, DeadLetter, Retry, Abandon, Drop, TypeOK
  <2> QED
    BY <2>1, <2>2
<1>7. \A i \in Ids : Sent(i)' <=> Sent(i)
  BY <1>1, <1>3, <1>4 DEF Sent
<1>8. \A l \in Consumers : \A e \in held[l] : e.id \in Ids
  BY DEF TypeOK, Delivery
<1> HIDE DEF x
<1>9. \A i \in Ids : (OutOfContract(body[i]))' <=> OutOfContract(body[i])
  BY <1>2 DEF OutOfContract, GoEnvelopeValid, TsEnvelopeValid, Identified
<1>10. MalformedOnlyArchived'
  BY <1>1, <1>3, <1>5, <1>7, <1>9 DEF MalformedInv, MalformedOnlyArchived, Sent
<1>11. \A i \in Ids : ~Sent(i)' => effects'[i] = 0
  BY <1>1, <1>3, <1>7 DEF MalformedInv
<1>12. \A l \in Consumers : \A e \in held'[l] :
          Sent(e.id)' /\ ((OutOfContract(body[e.id]))' => e.err /\ ~e.done)
  BY <1>1, <1>6, <1>7, <1>8, <1>9 DEF MalformedInv
<1> QED
  BY <1>10, <1>11, <1>12 DEF MalformedInv

LEMMA MalformedStep ==
    ASSUME OutboxInv, MalformedInv, \A k \in Consumers : Lang[k] = "go", [Next]_vars
    PROVE  MalformedInv'
<1> TypeOK /\ TxInv
  BY DEF OutboxInv
<1>1. \A l \in Consumers : \A e \in held[l] : e.id \in Ids
  BY DEF TypeOK, Delivery
<1>2. ASSUME UNCHANGED <<effects, held>>,
             \A i \in Ids : Sent(i) => Sent(i)' /\ status'[i] = status[i] /\ body'[i] = body[i],
             \A i \in Ids : Sent(i)' => status'[i] = "live" \/ Sent(i)
      PROVE  MalformedInv'
  <2>1. \A i \in Ids : Sent(i) => ((OutOfContract(body[i]))' <=> OutOfContract(body[i]))
    BY <1>2 DEF OutOfContract, GoEnvelopeValid, TsEnvelopeValid, Identified
  <2>2. MalformedOnlyArchived'
    BY <1>2, <2>1 DEF MalformedInv, MalformedOnlyArchived
  <2> QED
    BY <1>1, <1>2, <2>1, <2>2 DEF MalformedInv
<1>3. ASSUME NEW p \in Producers, Produce(p) PROVE MalformedInv'
  <2>1. UNCHANGED <<effects, held>>
    BY <1>3 DEF Produce, Begin, Enqueue, Commit, Abort
  <2>2. \A i \in Ids : Sent(i) => Sent(i)' /\ status'[i] = status[i] /\ body'[i] = body[i]
    BY <1>3 DEF Produce, Begin, Enqueue, Commit, Abort, NextId, TypeOK, TxInv, Sent
  <2>3. \A i \in Ids : Sent(i)' => status'[i] = "live" \/ Sent(i)
    BY <1>3 DEF Produce, Begin, Enqueue, Commit, Abort, NextId, TypeOK, TxInv, Sent
  <2> QED
    BY <1>2, <2>1, <2>2, <2>3
<1>4. ASSUME NEW i \in Ids, NEW b \in ForeignBodies, ForeignSend(i, b) PROVE MalformedInv'
  BY <1>2, <1>4 DEF ForeignSend, NextId, TypeOK, Sent
<1>5. ASSUME NEW k \in Consumers, ReadSome(k) PROVE MalformedInv'
  BY <1>5, MalformedRead
<1>6. ASSUME NEW k \in Consumers, NEW d \in held[k], Settle(k, d) PROVE MalformedInv'
  BY <1>6, MalformedSettle
<1>7. ASSUME NEW k \in Consumers, Crash(k) PROVE MalformedInv'
  <2>1. UNCHANGED <<status, body, effects>> /\ \A l \in Consumers : held'[l] \subseteq held[l]
    BY <1>7 DEF Crash, TypeOK
  <2> QED
    BY <2>1 DEF MalformedInv, MalformedOnlyArchived, Sent, OutOfContract,
                GoEnvelopeValid, TsEnvelopeValid, Identified
<1>8. CASE Tick
  <2> DEFINE F(e) == [e EXCEPT !.left = Less(@)]
  <2>1. \A e \in Delivery : F(e).id = e.id /\ F(e).err = e.err /\ F(e).done = e.done
    BY DEF Delivery
  <2>0. \A l \in Consumers : held'[l] = {F(e) : e \in held[l]} /\ held[l] \subseteq Delivery
    BY <1>8 DEF Tick, TypeOK
  <2> HIDE DEF F
  <2>2. \A l \in Consumers : \A f \in held'[l] : \E e \in held[l] :
           f.id = e.id /\ f.err = e.err /\ f.done = e.done
    BY <2>0, <2>1
  <2>3. UNCHANGED <<status, body, effects>>
    BY <1>8 DEF Tick
  <2>4. \A i \in Ids : (OutOfContract(body[i]))' <=> OutOfContract(body[i])
    BY <2>3 DEF OutOfContract, GoEnvelopeValid, TsEnvelopeValid, Identified
  <2> QED
    BY <1>1, <2>2, <2>3, <2>4 DEF MalformedInv, MalformedOnlyArchived, Sent
<1>9. CASE UNCHANGED vars
  BY <1>2, <1>9 DEF vars, Sent
<1> QED
  BY <1>3, <1>4, <1>5, <1>6, <1>7, <1>8, <1>9 DEF Next

(* With Go consumers no malformed row is ever executed or completed; the    *)
(* archive is its only way off the queue.                                   *)
THEOREM MalformedIsIsolated ==
    ASSUME \A k \in Consumers : Lang[k] = "go" PROVE Spec => []MalformedOnlyArchived
<1>1. Init => OutboxInv /\ MalformedInv
  BY OutboxInit DEF Init, MalformedInv, MalformedOnlyArchived, Sent
<1>2. OutboxInv /\ MalformedInv /\ [Next]_vars => (OutboxInv /\ MalformedInv)'
  BY OutboxStep, MalformedStep
<1>3. MalformedInv => MalformedOnlyArchived
  BY DEF MalformedInv
<1> QED
  BY <1>1, <1>2, <1>3, PTL DEF Spec

-----------------------------------------------------------------------------
(* Deliveries: what a consumer holds is still what its runtime made of the  *)
(* row, and whoever is done has an effect to show for it.                   *)

Faithful(k, d) ==
    /\ Sent(d.id)
    /\ d.err = ContractError(Lang[k], body[d.id])
    /\ d.done => effects[d.id] >= 1

DeliveryInv == AtLeastOnce /\ \A k \in Consumers : \A d \in held[k] : Faithful(k, d)

LEMMA DeliveryRead ==
    ASSUME TypeOK, DeliveryInv, NEW k \in Consumers, ReadSome(k) PROVE DeliveryInv'
<1>1. PICK vt \in Leases, n \in Batches : Read(k, vt, n)
  BY DEF ReadSome
<1>2. UNCHANGED <<status, body, effects>>
  BY <1>1 DEF Read
<1>3. \A l \in Consumers : l # k => held'[l] = held[l]
  BY <1>1 DEF Read, TypeOK
<1>4. held'[k] = {Delivered(k, i, Seconds(vt)) : i \in FirstVisible(n)}
  BY <1>1 DEF Read, TypeOK
<1>5. ASSUME NEW d \in held'[k] PROVE Faithful(k, d)
  <2>1. PICK i \in FirstVisible(n) : d = Delivered(k, i, Seconds(vt))
    BY <1>4
  <2>2. d.id = i /\ d.err = ContractError(Lang[k], body[i]) /\ d.done = FALSE
    BY <2>1 DEF Delivered
  <2> QED
    BY <2>2, FirstVisibleIsLive DEF Faithful, Sent
<1>6. \A l \in Consumers : \A d \in held'[l] : Faithful(l, d)
  BY <1>3, <1>5 DEF DeliveryInv
<1>7. \A l \in Consumers : \A d \in held'[l] : Faithful(l, d)'
  BY <1>2, <1>6 DEF Faithful, Sent, ContractError, GoContractError, TsContractError,
                    GoEnvelopeValid, TsEnvelopeValid, Identified
<1> QED
  BY <1>2, <1>7 DEF DeliveryInv, AtLeastOnce

LEMMA DeliverySettle ==
    ASSUME TypeOK, DeliveryInv, NEW k \in Consumers, NEW d \in held[k], Settle(k, d)
    PROVE  DeliveryInv'
<1> DEFINE x == d.id
<1>1. x \in Ids /\ Sent(x) /\ (d.done => effects[x] >= 1)
  BY DEF DeliveryInv, Faithful, TypeOK, Delivery
<1>2. UNCHANGED body
  BY DEF Settle, CompleteTx, Apply, Complete, DeadLetter, Retry, Abandon
<1>3. \A n \in 0..2 : OneMore(n) \in 0..2 /\ OneMore(n) >= 1 /\ OneMore(n) >= n
  BY DEF OneMore
<1>4. \A i \in Ids : effects'[i] >= effects[i] /\ effects[i] \in 0..2 /\ effects'[i] \in 0..2
  BY <1>1, <1>3 DEF Settle, CompleteTx, Apply, Complete, DeadLetter, Retry, Abandon, TypeOK
<1>5. \A i \in Ids : Sent(i) => Sent(i)'
  BY <1>1 DEF Settle, CompleteTx, Apply, Complete, DeadLetter, Retry, Abandon,
              BooleanOperation, Succeeded, Sent, TypeOK
<1>6. \A i \in Ids : status'[i] = "deleted" => status[i] = "deleted" \/ effects'[i] >= 1
  <2>1. CASE CompleteTx(k, d)
    <3>1. \A i \in Ids : i # x => status'[i] = status[i]
      BY <1>1, <2>1 DEF CompleteTx, BooleanOperation, TypeOK
    <3>2. status'[x] = status[x] \/ effects'[x] >= 1
      BY <1>1, <1>3, <2>1 DEF CompleteTx, BooleanOperation, TypeOK
    <3> QED
      BY <3>1, <3>2
  <2>2. CASE Complete(k, d)
    <3>1. \A i \in Ids : i # x => status'[i] = status[i]
      BY <1>1, <2>2 DEF Complete, BooleanOperation, TypeOK
    <3>2. effects'[x] >= 1
      BY <1>1, <2>2 DEF Complete
    <3> QED
      BY <3>1, <3>2
  <2>3. CASE DeadLetter(k, d)
    BY <1>1, <2>3 DEF DeadLetter, BooleanOperation, TypeOK
  <2>4. CASE status' = status
    BY <2>4
  <2> QED
    BY <2>1, <2>2, <2>3, <2>4 DEF Settle, Apply, Retry, Abandon
<1>7. ASSUME NEW l \in Consumers, NEW e \in held'[l]
      PROVE  \E o \in held[l] : e.id = o.id /\ e.err = o.err /\ (e.done => o.done \/ effects'[e.id] >= 1)
  <2>1. CASE Apply(k, d)
    <3>1. held' = [held EXCEPT ![k] = (@ \ {d}) \cup {[d EXCEPT !.done = TRUE]}]
          /\ effects' = [effects EXCEPT ![x] = OneMore(@)]
      BY <2>1 DEF Apply
    <3>2. e \in held[l] \/ (l = k /\ e = [d EXCEPT !.done = TRUE])
      BY <3>1, <1>7 DEF TypeOK
    <3>3. effects'[x] >= 1
      BY <1>1, <1>3, <3>1 DEF TypeOK
    <3>4. d \in Delivery
      BY DEF TypeOK
    <3>5. [d EXCEPT !.done = TRUE].id = x /\ [d EXCEPT !.done = TRUE].err = d.err
      BY <3>4 DEF Delivery
    <3> QED
      BY <3>2, <3>3, <3>5
  <2>2. CASE ~Apply(k, d)
    <3>1. e \in held[l]
      BY <1>7, <2>2 DEF Settle, CompleteTx, Complete, DeadLetter, Retry, Abandon, Drop, TypeOK
    <3> QED
      BY <3>1
  <2> QED
    BY <2>1, <2>2
<1> HIDE DEF x
<1>8. ASSUME NEW l \in Consumers, NEW e \in held'[l] PROVE Faithful(l, e)'
  <2>1. PICK o \in held[l] : e.id = o.id /\ e.err = o.err /\ (e.done => o.done \/ effects'[e.id] >= 1)
    BY <1>7
  <2>2. Faithful(l, o) /\ o.id \in Ids
    BY DEF DeliveryInv, TypeOK, Delivery
  <2>3. Sent(e.id)'
    BY <1>5, <2>1, <2>2 DEF Faithful
  <2>4. e.err = ContractError(Lang[l], body'[e.id])
    BY <1>2, <2>1, <2>2 DEF Faithful
  <2>5. e.done => effects'[e.id] >= 1
    BY <1>4, <2>1, <2>2 DEF Faithful
  <2> QED
    BY <1>2, <2>3, <2>4, <2>5 DEF Faithful, ContractError, GoContractError, TsContractError,
                    GoEnvelopeValid, TsEnvelopeValid, Identified
<1>9. AtLeastOnce'
  BY <1>4, <1>6 DEF DeliveryInv, AtLeastOnce
<1> QED
  BY <1>8, <1>9 DEF DeliveryInv

LEMMA DeliveryStep == ASSUME OutboxInv, DeliveryInv, [Next]_vars PROVE DeliveryInv'
<1> TypeOK /\ TxInv
  BY DEF OutboxInv
<1>1. \A l \in Consumers : \A e \in held[l] : e.id \in Ids
  BY DEF TypeOK, Delivery
<1>2. ASSUME UNCHANGED effects,
             \A l \in Consumers : \A e \in held'[l] : \E o \in held[l] :
                e.id = o.id /\ e.err = o.err /\ e.done = o.done,
             \A i \in Ids : Sent(i) => Sent(i)' /\ status'[i] = status[i] /\ body'[i] = body[i],
             \A i \in Ids : Sent(i)' => status'[i] = "live" \/ Sent(i)
      PROVE  DeliveryInv'
  <2>1. ASSUME NEW l \in Consumers, NEW e \in held'[l] PROVE Faithful(l, e)'
    <3>1. PICK o \in held[l] : e.id = o.id /\ e.err = o.err /\ e.done = o.done
      BY <1>2
    <3>2. Faithful(l, o) /\ o.id \in Ids
      BY <1>1 DEF DeliveryInv
    <3>3. Sent(e.id)' /\ body'[e.id] = body[o.id] /\ effects' = effects
      BY <1>2, <3>1, <3>2 DEF Faithful
    <3> QED
      BY <3>1, <3>2, <3>3 DEF Faithful, ContractError, GoContractError, TsContractError,
                      GoEnvelopeValid, TsEnvelopeValid, Identified
  <2>2. AtLeastOnce'
    BY <1>2 DEF DeliveryInv, AtLeastOnce, Sent
  <2> QED
    BY <2>1, <2>2 DEF DeliveryInv
<1>3. ASSUME NEW p \in Producers, Produce(p) PROVE DeliveryInv'
  <2>1. UNCHANGED <<effects, held>>
    BY <1>3 DEF Produce, Begin, Enqueue, Commit, Abort
  <2>2. \A i \in Ids : Sent(i) => Sent(i)' /\ status'[i] = status[i] /\ body'[i] = body[i]
    BY <1>3 DEF Produce, Begin, Enqueue, Commit, Abort, NextId, TypeOK, TxInv, Sent
  <2>3. \A i \in Ids : Sent(i)' => status'[i] = "live" \/ Sent(i)
    BY <1>3 DEF Produce, Begin, Enqueue, Commit, Abort, NextId, TypeOK, TxInv, Sent
  <2> QED
    BY <1>2, <2>1, <2>2, <2>3
<1>4. ASSUME NEW i \in Ids, NEW b \in ForeignBodies, ForeignSend(i, b) PROVE DeliveryInv'
  BY <1>2, <1>4 DEF ForeignSend, NextId, TypeOK, Sent
<1>5. ASSUME NEW k \in Consumers, ReadSome(k) PROVE DeliveryInv'
  BY <1>5, DeliveryRead
<1>6. ASSUME NEW k \in Consumers, NEW d \in held[k], Settle(k, d) PROVE DeliveryInv'
  BY <1>6, DeliverySettle
<1>7. ASSUME NEW k \in Consumers, Crash(k) PROVE DeliveryInv'
  <2>1. UNCHANGED <<status, body, effects>> /\ \A l \in Consumers : held'[l] \subseteq held[l]
    BY <1>7 DEF Crash, TypeOK
  <2> QED
    BY <1>2, <2>1 DEF Sent
<1>8. CASE Tick
  <2> DEFINE F(e) == [e EXCEPT !.left = Less(@)]
  <2>1. \A e \in Delivery : F(e).id = e.id /\ F(e).err = e.err /\ F(e).done = e.done
    BY DEF Delivery
  <2>2. \A l \in Consumers : held'[l] = {F(e) : e \in held[l]} /\ held[l] \subseteq Delivery
    BY <1>8 DEF Tick, TypeOK
  <2> HIDE DEF F
  <2>3. \A l \in Consumers : \A e \in held'[l] : \E o \in held[l] :
           e.id = o.id /\ e.err = o.err /\ e.done = o.done
    BY <2>1, <2>2
  <2>4. UNCHANGED <<status, body, effects>>
    BY <1>8 DEF Tick
  <2> QED
    BY <1>2, <2>3, <2>4 DEF Sent
<1>9. CASE UNCHANGED vars
  BY <1>2, <1>9 DEF vars, Sent
<1> QED
  BY <1>3, <1>4, <1>5, <1>6, <1>7, <1>8, <1>9 DEF Next

LEMMA DeliveryAlways == Spec => [](TypeOK /\ DeliveryInv)
<1>1. Init => OutboxInv /\ DeliveryInv
  BY OutboxInit DEF Init, DeliveryInv, AtLeastOnce
<1>2. OutboxInv /\ DeliveryInv /\ [Next]_vars => (OutboxInv /\ DeliveryInv)'
  BY OutboxStep, DeliveryStep
<1>3. OutboxInv => TypeOK
  BY DEF OutboxInv
<1> QED
  BY <1>1, <1>2, <1>3, PTL DEF Spec

(* No row is completed before its effect is committed, whoever completes it *)
(* and in whatever transaction.                                             *)
THEOREM EffectAtLeastOnce == Spec => []AtLeastOnce
<1>1. DeliveryInv => AtLeastOnce
  BY DEF DeliveryInv
<1> QED
  BY <1>1, DeliveryAlways, PTL

(* Readers of both runtimes accept what a constructor of either has made,    *)
(* but for Go's readers and a year that TypeScript prints with a sign.       *)
THEOREM ConstructedIsReadable == Spec => []ConstructedReadable
<1>1. ASSUME NEW b \in Constructed("go") \cup Constructed("ts"), NEW lang \in Languages
      PROVE  ContractError(lang, b) <=> lang = "go" /\ b.created = "expandedYear"
  <2>1. /\ Identified(b) /\ b.payload = "canonical" /\ b.headers # "typed"
        /\ b.created \in {"rfc3339", "expandedYear"}
    BY DEF Constructed, SetDates, Sendable, EnvelopeValid, GoEnvelopeValid, TsEnvelopeValid
  <2>2. CASE lang = "go"
    BY <2>1, <2>2 DEF ContractError, GoContractError, GoEnvelopeValid
  <2>3. CASE lang = "ts"
    BY <2>1, <2>3 DEF ContractError, TsContractError, TsEnvelopeValid
  <2> QED
    BY <2>2, <2>3 DEF Languages
<1>2. ASSUME DeliveryInv, NEW k \in Consumers, NEW d \in held[k],
             body[d.id] \in Constructed("go") \cup Constructed("ts")
      PROVE  d.err <=> Lang[k] = "go" /\ body[d.id].created = "expandedYear"
  <2>1. d.err = ContractError(Lang[k], body[d.id]) /\ Lang[k] \in Languages
    BY <1>2, InputsAssumption DEF DeliveryInv, Faithful
  <2> QED
    BY <1>1, <1>2, <2>1
<1>3. DeliveryInv => ConstructedReadable
  BY <1>2 DEF ConstructedReadable
<1> QED
  BY <1>3, DeliveryAlways, PTL

-----------------------------------------------------------------------------
(* The transport implements the abstract queue.                             *)

LEMMA RefinementStep == ASSUME OutboxInv, [Next]_vars PROVE [Abstract!Next]_(Abstract!vars)
<1> TypeOK /\ TxInv
  BY DEF OutboxInv
<1> DEFINE out == [i \in Ids |-> Outcome(i)]
           snt == [i \in Ids |-> IF Sent(i) THEN cmd[i] ELSE NoCommand]
<1>1. ASSUME \A i \in Ids : Outcome(i)' = Outcome(i),
             \A i \in Ids : Sent(i) => cmd'[i] = cmd[i],
             UNCHANGED domain
      PROVE  UNCHANGED Abstract!vars
  <2>1. \A i \in Ids : Sent(i) <=> Outcome(i) # "absent"
    BY DEF Sent, Outcome
  <2>2. \A i \in Ids : Sent(i)' <=> Outcome(i)' # "absent"
    BY DEF Sent, Outcome
  <2>3. out' = out
    BY <1>1
  <2>4. snt' = snt
    BY <1>1, <2>1, <2>2
  <2> QED
    BY <1>1, <2>3, <2>4 DEF Abstract!vars
<1>2. ASSUME NEW p \in Producers, Produce(p) PROVE [Abstract!Next]_(Abstract!vars)
  <2>1. CASE (\E c \in Commands : Begin(p, c)) \/ Abort(p)
    BY <1>1, <2>1 DEF Begin, Abort, Outcome, Sent, TypeOK, TxInv
  <2>2. ASSUME NEW i \in Ids, NEW b \in Bodies, NEW d \in Delays, Enqueue(p, i, b, d)
        PROVE  UNCHANGED Abstract!vars
    BY <1>1, <2>2 DEF Enqueue, NextId, Outcome, Sent, TypeOK
  <2>3. CASE Commit(p)
    <3>0. PICK c \in Commands, S \in SUBSET Ids : c = tx[p].cmd /\ S = tx[p].ids /\ S # {}
      BY <2>3 DEF Commit, TypeOK
    <3>1. S \in SUBSET Ids /\ S # {} /\ c \in Commands
      BY <3>0
    <3>2. \A i \in S : Outcome(i) = "absent" /\ ~Sent(i) /\ cmd[i] = c
      BY <3>0, <3>1 DEF TxInv, Outcome, Sent
    <3>3. \A i \in Ids : Outcome(i)' = (IF i \in S THEN "queued" ELSE Outcome(i))
      BY <2>3, <3>0 DEF Commit, Outcome
    <3>4. \A i \in Ids : Sent(i)' <=> (Sent(i) \/ i \in S)
      BY <2>3, <3>0, <3>2 DEF Commit, Sent
    <3>5. cmd' = cmd /\ domain' = domain \cup {c}
      BY <2>3, <3>0 DEF Commit
    <3>6. out' = [i \in Ids |-> IF i \in S THEN "queued" ELSE out[i]]
      BY <3>3
    <3>7. snt' = [i \in Ids |-> IF i \in S THEN c ELSE snt[i]]
      BY <3>2, <3>4, <3>5
    <3>8. \A i \in S : out[i] = "absent"
      BY <3>1, <3>2
    <3>9. Abstract!Accept(c, S)
      BY <3>1, <3>5, <3>6, <3>7, <3>8 DEF Abstract!Accept
    <3> QED
      BY <3>1, <3>9 DEF Abstract!Next
  <2> QED
    BY <1>2, <2>1, <2>2, <2>3 DEF Produce
<1>3. ASSUME NEW i \in Ids, NEW b \in ForeignBodies, ForeignSend(i, b)
      PROVE  [Abstract!Next]_(Abstract!vars)
  <2>1. status[i] = "free" /\ cmd[i] = NoCommand
    BY <1>3 DEF ForeignSend, NextId, TxInv
  <2>2. out[i] = "absent" /\ out' = [out EXCEPT ![i] = "queued"]
    BY <1>3, <2>1 DEF ForeignSend, Outcome, TypeOK
  <2>3. snt' = snt /\ domain' = domain
    BY <1>3, <2>1 DEF ForeignSend, Sent, TypeOK
  <2>4. Abstract!AcceptForeign(i)
    BY <2>2, <2>3 DEF Abstract!AcceptForeign
  <2> QED
    BY <2>4 DEF Abstract!Next
<1>4. ASSUME NEW k \in Consumers, ReadSome(k) PROVE [Abstract!Next]_(Abstract!vars)
  BY <1>1, <1>4 DEF ReadSome, Read, Outcome
<1>5. ASSUME NEW k \in Consumers, NEW d \in held[k], Settle(k, d)
      PROVE  [Abstract!Next]_(Abstract!vars)
  <2>1. d.id \in Ids
    BY DEF TypeOK, Delivery
  <2>2. UNCHANGED <<cmd, domain>>
    BY <1>5 DEF Settle, CompleteTx, Apply, Complete, DeadLetter, Retry, Abandon
  <2>3. CASE UNCHANGED status
    BY <1>1, <2>2, <2>3 DEF Outcome
  <2>4. CASE status' # status
    <3>1. status[d.id] = "live" /\ \E t \in {"deleted", "archived"} : status' = [status EXCEPT ![d.id] = t]
      BY <1>5, <2>4 DEF Settle, CompleteTx, Apply, Complete, DeadLetter, Retry, Abandon,
                       BooleanOperation, Succeeded
    <3>2. out[d.id] = "queued"
      BY <2>1, <3>1 DEF Outcome
    <3>3. \E o \in {"completed", "deadLettered"} : out' = [out EXCEPT ![d.id] = o]
      BY <2>1, <3>1 DEF Outcome, TypeOK
    <3>4. snt' = snt
      BY <2>1, <2>2, <3>1 DEF Sent, TypeOK
    <3>5. Abstract!Finish(d.id)
      BY <2>2, <3>2, <3>3, <3>4 DEF Abstract!Finish
    <3> QED
      BY <2>1, <3>5 DEF Abstract!Next
  <2> QED
    BY <2>3, <2>4
<1>6. ASSUME NEW k \in Consumers, Crash(k) PROVE [Abstract!Next]_(Abstract!vars)
  BY <1>1, <1>6 DEF Crash, Outcome
<1>7. CASE Tick
  BY <1>1, <1>7 DEF Tick, Outcome
<1>8. CASE UNCHANGED vars
  BY <1>1, <1>8 DEF vars, Outcome
<1> QED
  BY <1>2, <1>3, <1>4, <1>5, <1>6, <1>7, <1>8 DEF Next

(* Every behaviour of the transport is one of the durable queue: messages   *)
(* appear with their domain state and have at most one, final outcome.      *)
THEOREM TransportIsDurable == Spec => ImplementsDurableQueue
<1>1. Init => Abstract!Init
  BY DEF Init, Abstract!Init, Outcome, Sent
<1> QED
  BY <1>1, OutboxInit, OutboxStep, RefinementStep, PTL
     DEF Spec, ImplementsDurableQueue, Abstract!Spec
=============================================================================
