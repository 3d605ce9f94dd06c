--------------------------- MODULE RelayMutationProofs ---------------------------
(***************************************************************************)
(* Proofs about the relay for any locales and any number of commits.       *)
(*                                                                         *)
(* Inductive is RoomsShowWhatTheyKnow together with RelaysFit, what is     *)
(* known of a relay that was sent: its request passed Go's validator, and  *)
(* names the revisions the operations lead from and to.  HandedInv adds    *)
(* that all revisions were handed out and none to a target that is gone,   *)
(* NewestInv that nothing sent or shown is newer than the document.        *)
(***************************************************************************)
EXTENDS RelayMutation, TLAPS

Cases == {"setField", "insertBlock"} \cup LifecycleCases

Requests ==
    [mutationId : Int, origin : {"MCP"}, domain : {"POST"}, reference : Int, locale : Int, actor : Int,
     operations : Seq(Cases),
     expectedDocument : Int, acceptedDocument : Int, expectedTarget : Int, acceptedTarget : Int]

Fit(relay) ==
    /\ relay.request \in Requests
    /\ ValidateRelayInteractiveAIDocumentMutationRequest(relay.request)
    /\ relay.from = <<relay.request.expectedDocument, relay.request.expectedTarget>>
    /\ relay.to = <<relay.request.acceptedDocument, relay.request.acceptedTarget>>

RelaysFit == \A relay \in relays : Fit(relay)

RevisionsAreIntegers == document \in Int /\ clock \in Int /\ target \in [Targets -> Int]

RelayInv == RevisionsAreIntegers /\ DOMAIN room = Locales /\ RelaysFit /\ RoomsShowWhatTheyKnow

-------------------------------------------------------------------------------
(***************************************************************************)
(* The receiver's validator lets a request through that the sender's let   *)
(* through only if it has all operations and revisions of it.              *)
(***************************************************************************)
SameMutation(r, s) ==
    /\ s.operations = r.operations
    /\ s.expectedDocument = r.expectedDocument /\ s.acceptedDocument = r.acceptedDocument
    /\ s.expectedTarget = r.expectedTarget /\ s.acceptedTarget = r.acceptedTarget

LEMMA IncompleteFailsClosed ==
    ASSUME NEW r \in Requests, NEW unseen \in Unseen,
           ValidateRelayInteractiveAIDocumentMutationRequest(r),
           assertRelayInteractiveAIDocumentMutationRequest(Seen(r, unseen))
    PROVE  SameMutation(r, Seen(r, unseen))
<1> DEFINE s == Seen(r, unseen)
<1>1. CASE unseen = {"case"}
  <2>1. Tail(r.operations) \in Seq(Cases)
    BY DEF Requests, ValidateRelayInteractiveAIDocumentMutationRequest, OperationsKnown
  <2>2. s.operations = <<NoCase>> \o Tail(r.operations)
    BY <1>1 DEF Seen
  <2>3. s.operations[1] = NoCase /\ 1 \in DOMAIN s.operations
    BY <2>1, <2>2 DEF NoCase
  <2> QED
    BY <2>3 DEF assertRelayInteractiveAIDocumentMutationRequest, OperationsKnown
<1>2. CASE unseen = {"expectedTarget", "acceptedTarget"}
  <2>1. "case" \notin unseen
    BY <1>2
  <2>2. /\ s.operations = r.operations
        /\ s.expectedDocument = r.expectedDocument /\ s.acceptedDocument = r.acceptedDocument
        /\ s.expectedTarget = None /\ s.acceptedTarget = None
    BY <1>2, <2>1 DEF Seen
  <2>3. ~IsTargetMutation(r)
    BY <2>2 DEF ValidateRelayInteractiveAIDocumentMutationRequest, assertRelayInteractiveAIDocumentMutationRequest,
                DocumentRevisionFits, IsTargetMutation
  <2> QED
    BY <2>2, <2>3 DEF IsTargetMutation, SameMutation
<1>3. CASE unseen = {}
  BY <1>3, Zenon DEF Seen, SameMutation
<1>4. ASSUME NEW f \in Fields, unseen = {f} PROVE SameMutation(r, s)
  <2>1. "case" \notin unseen
    BY <1>4 DEF Fields
  <2>2. f \notin TextFields
    BY <1>4, <2>1 DEF Seen, TextFields, TsBlank, assertRelayInteractiveAIDocumentMutationRequest
  <2>3. f \notin {"origin", "domain", "operations"}
    BY <1>4, <2>1 DEF Seen, Domains, OperationsKnown, assertRelayInteractiveAIDocumentMutationRequest
  <2>4. f = "acceptedTarget"
    BY <1>4, <2>2, <2>3 DEF Fields, TextFields
  <2>5. /\ s.operations = r.operations
        /\ s.expectedDocument = r.expectedDocument /\ s.acceptedDocument = r.acceptedDocument
        /\ s.expectedTarget = r.expectedTarget /\ s.acceptedTarget = None
    BY <1>4, <2>1, <2>4 DEF Seen
  <2>6. r.acceptedTarget = None
    <3>1. CASE r.expectedTarget = None
      BY <2>5, <3>1 DEF ValidateRelayInteractiveAIDocumentMutationRequest, assertRelayInteractiveAIDocumentMutationRequest,
                        DocumentRevisionFits, IsTargetMutation
    <3>2. CASE r.expectedTarget # None
      <4>1. s.operations = <<"deleteTranslation">>
        BY <2>5, <3>2 DEF assertRelayInteractiveAIDocumentMutationRequest, TargetRevisionsFit
      <4> QED
        BY <2>5, <4>1 DEF ValidateRelayInteractiveAIDocumentMutationRequest, TargetRevisionsFit
    <3> QED
      BY <3>1, <3>2
  <2> QED
    BY <2>5, <2>6 DEF SameMutation
<1> QED
  BY <1>1, <1>2, <1>3, <1>4 DEF Unseen

-------------------------------------------------------------------------------
(***************************************************************************)
(* Commits: a relay that is sent names where its operations lead.          *)
(***************************************************************************)
LEMMA RelayKeepsFit ==
    ASSUME NEW l \in Locales, NEW operations \in Seq(Cases), NEW to \in Int \X Int,
           RevisionsAreIntegers, RelaysFit, Relay(l, operations, to)
    PROVE  RelaysFit'
<1>1. /\ Current(l)[1] \in Int /\ Current(l)[2] \in Int
      /\ Current(l) = <<Current(l)[1], Current(l)[2]>>
  BY DEF Current, RevisionsAreIntegers, Locales, None
<1>2. Request(l, operations, to) \in Requests
  <2>1. to[1] \in Int /\ to[2] \in Int
    OBVIOUS
  <2>2. Named \in Int
    BY DEF Named
  <2> QED
    BY <1>1, <2>1, <2>2, Zenon DEF Request, Requests
<1> DEFINE new == [locale |-> l, request |-> Request(l, operations, to), from |-> Current(l), to |-> to]
<1>3. ASSUME ValidateRelayInteractiveAIDocumentMutationRequest(Request(l, operations, to))
      PROVE  Fit(new)
  <2>1. /\ new.from = <<new.request.expectedDocument, new.request.expectedTarget>>
        /\ new.to = <<new.request.acceptedDocument, new.request.acceptedTarget>>
    BY <1>1 DEF Request
  <2> QED
    BY <1>2, <1>3, <2>1 DEF Fit
<1>4. ASSUME NEW relay \in relays' PROVE Fit(relay)
  <2>1. relay \in relays \/ (ValidateRelayInteractiveAIDocumentMutationRequest(Request(l, operations, to)) /\ relay = new)
    BY <1>4 DEF Relay
  <2> QED
    BY <2>1, <1>3 DEF RelaysFit
<1> QED
  BY <1>4 DEF RelaysFit, Fit

LEMMA ShortSequences ==
    ASSUME NEW S, NEW a \in S, NEW b \in S
    PROVE  <<a>> \in Seq(S) /\ <<a, b>> \in Seq(S)
OBVIOUS

LEMMA EditsAreOperations ==
    /\ Edits \subseteq Seq(Cases)
    /\ <<"createTranslation">> \in Seq(Cases) /\ <<"deleteTranslation">> \in Seq(Cases)
<1>1. /\ "setField" \in Cases /\ "insertBlock" \in Cases
      /\ "createTranslation" \in Cases /\ "deleteTranslation" \in Cases
  BY DEF Cases, LifecycleCases
<1>2. <<"setField">> \in Seq(Cases) /\ <<"insertBlock", "setField">> \in Seq(Cases)
  BY <1>1, ShortSequences, Zenon
<1>3. <<"createTranslation">> \in Seq(Cases) /\ <<"deleteTranslation">> \in Seq(Cases)
  BY <1>1, ShortSequences, Zenon
<1> QED
  BY <1>2, <1>3, Zenon DEF Edits

LEMMA ReceiveKeepsRooms ==
    ASSUME RelayInv, NEW relay \in relays, NEW unseen \in Unseen, Receive(relay, unseen)
    PROVE  RoomsShowWhatTheyKnow'
<1> DEFINE l == relay.locale
           request == Seen(relay.request, unseen)
<1>1. SameMutation(relay.request, request)
  BY IncompleteFailsClosed DEF RelayInv, RelaysFit, Fit, Receive
<1>2. /\ relay.from = <<request.expectedDocument, request.expectedTarget>>
      /\ relay.to = <<request.acceptedDocument, request.acceptedTarget>>
      /\ request.operations = relay.request.operations
  BY <1>1 DEF SameMutation, RelayInv, RelaysFit, Fit
<1>3. ASSUME NEW k \in Locales, room'[k] # Closed PROVE room'[k].shown = room'[k].known
  <2>1. CASE k # l
    BY <2>1, <1>3 DEF Receive, RelayInv, RoomsShowWhatTheyKnow
  <2>2. CASE k = l
    <3>1. CASE room[l].known = <<request.expectedDocument, request.expectedTarget>>
      <4>1. room'[l] = [shown |-> After(room[l].shown, relay, request.operations),
                        known |-> <<request.acceptedDocument, request.acceptedTarget>>]
        BY <2>2, <3>1, <1>3 DEF Receive, RelayInv
      <4>2. room[l].shown = relay.from
        BY <2>2, <3>1, <1>2, <1>3 DEF Receive, RelayInv, RoomsShowWhatTheyKnow
      <4> QED
        BY <2>2, <4>1, <4>2, <1>2 DEF After
    <3>2. CASE room[l].known # <<request.expectedDocument, request.expectedTarget>>
      BY <2>2, <3>2, <1>3 DEF Receive, RelayInv, Opened
    <3> QED
      BY <3>1, <3>2
  <2> QED
    BY <2>1, <2>2
<1> QED
  BY <1>3 DEF RoomsShowWhatTheyKnow

-------------------------------------------------------------------------------
LEMMA RelayInvInit == Init => RelayInv
<1> SUFFICES ASSUME Init PROVE RelayInv
  OBVIOUS
<1>1. RevisionsAreIntegers
  BY DEF Init, RevisionsAreIntegers, None
<1>2. DOMAIN room = Locales /\ RoomsShowWhatTheyKnow
  BY DEF Init, RoomsShowWhatTheyKnow
<1>3. RelaysFit
  BY DEF Init, RelaysFit
<1> QED
  BY <1>1, <1>2, <1>3 DEF RelayInv

LEMMA CommitKeepsInv ==
    ASSUME RelayInv, NEW l \in Locales, NEW operations \in Seq(Cases), NEW to \in Int \X Int,
           Relay(l, operations, to), (document \in Int /\ target \in [Targets -> Int])'
    PROVE  RelayInv'
<1>1. RevisionsAreIntegers' /\ DOMAIN room' = Locales /\ RoomsShowWhatTheyKnow'
  BY DEF Relay, RelayInv, RevisionsAreIntegers, RoomsShowWhatTheyKnow
<1>2. RelaysFit'
  BY RelayKeepsFit DEF RelayInv
<1> QED
  BY <1>1, <1>2 DEF RelayInv

LEMMA RelayInvNext == RelayInv /\ [Next]_vars => RelayInv'
<1> SUFFICES ASSUME RelayInv, [Next]_vars PROVE RelayInv'
  OBVIOUS
<1> USE DEF RelayInv
<1>0. clock + 1 \in Int /\ document \in Int /\ None \in Int
  BY DEF RevisionsAreIntegers, None
<1>1. ASSUME NEW operations \in Edits, WriteSource(operations) PROVE RelayInv'
  <2>1. Source \in Locales /\ <<clock + 1, None>> \in Int \X Int /\ operations \in Seq(Cases)
    BY <1>0, <1>1, EditsAreOperations DEF Locales
  <2> QED
    BY <1>0, <1>1, <2>1, CommitKeepsInv DEF WriteSource, RevisionsAreIntegers
<1>2. ASSUME NEW l \in Targets, NEW operations \in Edits, WriteTarget(l, operations) PROVE RelayInv'
  <2>1. l \in Locales /\ <<document, clock + 1>> \in Int \X Int /\ operations \in Seq(Cases)
    BY <1>0, <1>2, EditsAreOperations DEF Locales
  <2> QED
    BY <1>0, <1>2, <2>1, CommitKeepsInv DEF WriteTarget, RevisionsAreIntegers
<1>3. ASSUME NEW l \in Targets, CreateTranslation(l) PROVE RelayInv'
  <2>1. l \in Locales /\ <<document, clock + 1>> \in Int \X Int
    BY <1>0, <1>3 DEF Locales
  <2> QED
    BY <1>0, <1>3, <2>1, EditsAreOperations, CommitKeepsInv DEF CreateTranslation, RevisionsAreIntegers
<1>4. ASSUME NEW l \in Targets, DeleteTranslation(l) PROVE RelayInv'
  <2>1. l \in Locales /\ <<document, None>> \in Int \X Int
    BY <1>0, <1>4 DEF Locales
  <2> QED
    BY <1>0, <1>4, <2>1, EditsAreOperations, CommitKeepsInv DEF DeleteTranslation, RevisionsAreIntegers
<1>5. ASSUME NEW relay \in relays, NEW unseen \in Unseen, Receive(relay, unseen) PROVE RelayInv'
  <2>1. RevisionsAreIntegers' /\ DOMAIN room' = Locales /\ RelaysFit'
    BY <1>5 DEF Receive, RevisionsAreIntegers, RelaysFit
  <2> QED
    BY <1>5, <2>1, ReceiveKeepsRooms
<1>6. ASSUME NEW l \in Locales, Load(l) \/ Leave(l) PROVE RelayInv'
  <2>1. RevisionsAreIntegers' /\ DOMAIN room' = Locales /\ RelaysFit'
    BY <1>6 DEF Load, Leave, RevisionsAreIntegers, RelaysFit
  <2>2. RoomsShowWhatTheyKnow'
    BY <1>6 DEF Load, Leave, Opened, RoomsShowWhatTheyKnow
  <2> QED
    BY <2>1, <2>2
<1>7. CASE UNCHANGED vars
  BY <1>7 DEF vars, RevisionsAreIntegers, RelaysFit, RoomsShowWhatTheyKnow
<1> QED
  BY <1>1, <1>2, <1>3, <1>4, <1>5, <1>6, <1>7 DEF Next

(***************************************************************************)
(* A room shows the content of the revisions it takes it for, however      *)
(* relays are lost, repeated, reordered or seen in part.                   *)
(***************************************************************************)
THEOREM RoomsAreConsistent == Spec => []RoomsShowWhatTheyKnow
<1>1. RelayInv => RoomsShowWhatTheyKnow
  BY DEF RelayInv
<1> QED
  BY <1>1, RelayInvInit, RelayInvNext, PTL DEF Spec

-------------------------------------------------------------------------------
(***************************************************************************)
(* What every relay carries names a revision that was handed out.          *)
(***************************************************************************)
Handed(relay) ==
    /\ relay.locale \in Locales
    /\ relay.from \in Content /\ relay.to \in Content
    /\ \A f \in {"mutationId", "reference", "locale", "actor"} : relay.request[f] = Named

\* No target is at a revision that a relay says it was deleted at.
Gone(relay) ==
    relay.request.operations = <<"deleteTranslation">> =>
        relay.locale \in Targets /\ relay.from[2] # target[relay.locale]

RevisionsHanded ==
    /\ clock \in 1..MaxCommits /\ document \in 1..clock
    /\ target \in [Targets -> {None} \cup 1..clock]
    /\ \A relay \in relays : Handed(relay) /\ Gone(relay)
    /\ \A l \in Locales : room[l] # Closed => room[l].known \in Content

HandedInv == RelayInv /\ RevisionsHanded

LEMMA CurrentIsContent == RevisionsHanded => \A l \in Locales : Current(l) \in Content
<1> SUFFICES ASSUME RevisionsHanded, NEW l \in Locales PROVE Current(l) \in Content
  OBVIOUS
<1>1. (IF l = Source THEN None ELSE target[l]) \in {None} \cup 1..clock
  BY DEF RevisionsHanded, Locales
<1> QED
  BY <1>1 DEF RevisionsHanded, Current, Content

LEMMA HandedIsTyped == RevisionsHanded => TypeOK
BY CurrentIsContent DEF RevisionsHanded, TypeOK

LEMMA ContentGrows ==
    ASSUME clock \in Nat, clock' \in {clock, clock + 1}
    PROVE  Content \subseteq Content'
<1>1. 1..clock \subseteq 1..clock'
  OBVIOUS
<1> QED
  BY <1>1 DEF Content

\* What commits have in common.
LEMMA CommitHands ==
    ASSUME HandedInv, NEW l \in Locales, NEW operations, NEW to,
           Relay(l, operations, to), to \in Content', document' \in 1..clock',
           target' \in [Targets -> {None} \cup 1..clock'],
           \A k \in Targets : target'[k] \in {target[k], None, clock + 1},
           operations = <<"deleteTranslation">> =>
              l \in Targets /\ target[l] # None /\ target'[l] = None
    PROVE  RevisionsHanded'
<1>1. /\ clock \in 1..MaxCommits /\ clock' = clock + 1 /\ clock < MaxCommits /\ room' = room
      /\ Content \subseteq Content' /\ clock + 1 \notin 1..clock /\ None \notin 1..clock'
  BY BoundAssumption, ContentGrows DEF HandedInv, RevisionsHanded, Relay, None
<1>2. clock' \in 1..MaxCommits
  BY <1>1, BoundAssumption
<1>3. \A k \in Locales : room'[k] # Closed => room'[k].known \in Content'
  BY <1>1 DEF HandedInv, RevisionsHanded
<1> DEFINE new == [locale |-> l, request |-> Request(l, operations, to), from |-> Current(l), to |-> to]
<1>4. Current(l) \in Content
  BY CurrentIsContent DEF HandedInv
<1>5. ASSUME NEW relay \in relays', relay = new PROVE Handed(relay)'
  <2>1. relay.locale = l /\ relay.from \in Content' /\ relay.to \in Content'
    BY <1>1, <1>4, <1>5
  <2>2. \A f \in {"mutationId", "reference", "locale", "actor"} : relay.request[f] = Named
    BY <1>5 DEF Request
  <2> QED
    BY <2>1, <2>2 DEF Handed
<1>6. ASSUME NEW relay \in relays', relay = new PROVE Gone(relay)'
  <2>1. relay.locale = l /\ relay.from = Current(l) /\ relay.request.operations = operations
    BY <1>6 DEF Request
  <2>2. ASSUME operations = <<"deleteTranslation">>
        PROVE  l \in Targets /\ relay.from[2] # target'[l]
    <3>1. l # Source /\ l \in Targets /\ target[l] # None /\ target'[l] = None
      BY <2>2, LocalesDiffer
    <3> QED
      BY <2>1, <3>1 DEF Current
  <2> QED
    BY <2>1, <2>2 DEF Gone
<1>7. ASSUME NEW relay \in relays PROVE Handed(relay)' /\ Gone(relay)'
  <2>1. Handed(relay) /\ Gone(relay) /\ Fit(relay)
    BY DEF HandedInv, RevisionsHanded, RelayInv, RelaysFit
  <2>2. Handed(relay)'
    BY <1>1, <2>1 DEF Handed
  <2>3. ASSUME relay.request.operations = <<"deleteTranslation">>
        PROVE  relay.from[2] \in 1..clock
    <3>1. relay.request.expectedTarget # None /\ relay.from[2] = relay.request.expectedTarget
      BY <2>1, <2>3 DEF Fit, ValidateRelayInteractiveAIDocumentMutationRequest, TargetRevisionsFit
    <3> QED
      BY <2>1, <3>1 DEF Handed, Content
  <2>4. Gone(relay)'
    BY <1>1, <2>1, <2>3 DEF Gone
  <2> QED
    BY <2>2, <2>4
<1>8. relays' \subseteq relays \cup {new}
  BY DEF Relay
<1>9. ASSUME NEW relay \in relays' PROVE Handed(relay)' /\ Gone(relay)'
  BY <1>5, <1>6, <1>7, <1>8
<1> QED
  BY <1>2, <1>3, <1>9 DEF RevisionsHanded

LEMMA EditsAreNoDeletes == \A operations \in Edits : operations # <<"deleteTranslation">>
<1>1. <<"setField">> # <<"deleteTranslation">>
  OBVIOUS
<1>2. <<"insertBlock", "setField">> # <<"deleteTranslation">>
  OBVIOUS
<1> QED
  BY <1>1, <1>2 DEF Edits

LEMMA ReceiveHands ==
    ASSUME HandedInv, NEW relay \in relays, NEW unseen \in Unseen, Receive(relay, unseen)
    PROVE  RevisionsHanded'
<1> DEFINE l == relay.locale
           request == Seen(relay.request, unseen)
<1>1. /\ UNCHANGED <<document, target, clock, relays>>
      /\ l \in Locales /\ Fit(relay) /\ relay.to \in Content /\ Current(l) \in Content
  BY CurrentIsContent DEF Receive, HandedInv, RelayInv, RelaysFit, RevisionsHanded, Handed
<1>2. <<request.acceptedDocument, request.acceptedTarget>> = relay.to
  BY <1>1, IncompleteFailsClosed DEF Receive, Fit, SameMutation
<1>3. ASSUME NEW k \in Locales, room'[k] # Closed PROVE room'[k].known \in Content
  <2>1. CASE k # l
    BY <1>3, <2>1 DEF Receive, HandedInv, RelayInv, RevisionsHanded
  <2>2. CASE k = l
    BY <1>1, <1>2, <2>2 DEF Receive, HandedInv, RelayInv, Opened
  <2> QED
    BY <2>1, <2>2
<1> QED
  BY <1>1, <1>3 DEF HandedInv, RevisionsHanded, Handed, Gone, Content

LEMMA HandedInvNext == HandedInv /\ [Next]_vars => HandedInv'
<1> SUFFICES ASSUME HandedInv, [Next]_vars PROVE RevisionsHanded'
  BY RelayInvNext DEF HandedInv
<1>0. /\ clock \in 1..MaxCommits /\ document \in 1..clock
      /\ target \in [Targets -> {None} \cup 1..clock]
      /\ 1..clock \subseteq 1..(clock + 1) /\ clock + 1 \in 1..(clock + 1)
      /\ \A l \in Targets : l \in Locales
  BY BoundAssumption DEF HandedInv, RevisionsHanded, Locales
<1>1. ASSUME NEW operations \in Edits, WriteSource(operations) PROVE RevisionsHanded'
  <2>1. /\ Relay(Source, operations, <<clock + 1, None>>) /\ clock' = clock + 1
        /\ document' = clock + 1 /\ target' = target /\ Source \in Locales
    BY <1>1 DEF WriteSource, Relay, Locales
  <2> QED
    BY <1>0, <2>1, EditsAreNoDeletes, CommitHands DEF Content
<1>2. ASSUME NEW l \in Targets, NEW operations, Relay(l, operations, <<document, clock + 1>>),
             target' = [target EXCEPT ![l] = clock + 1], document' = document,
             operations # <<"deleteTranslation">>
      PROVE  RevisionsHanded'
  <2>1. clock' = clock + 1
    BY <1>2 DEF Relay
  <2>2. <<document, clock + 1>> \in Content'
    BY <1>0, <2>1 DEF Content
  <2>3. target' \in [Targets -> {None} \cup 1..clock']
        /\ \A k \in Targets : target'[k] \in {target[k], None, clock + 1}
    BY <1>0, <1>2, <2>1
  <2> QED
    BY <1>0, <1>2, <2>1, <2>2, <2>3, CommitHands
<1>3. ASSUME NEW l \in Targets, NEW operations \in Edits, WriteTarget(l, operations) PROVE RevisionsHanded'
  BY <1>2, <1>3, EditsAreNoDeletes DEF WriteTarget
<1>4. ASSUME NEW l \in Targets, CreateTranslation(l) PROVE RevisionsHanded'
  <2>1. <<"createTranslation">> # <<"deleteTranslation">>
    OBVIOUS
  <2> QED
    BY <1>2, <1>4, <2>1 DEF CreateTranslation
<1>5. ASSUME NEW l \in Targets, DeleteTranslation(l) PROVE RevisionsHanded'
  <2>1. /\ Relay(l, <<"deleteTranslation">>, <<document, None>>) /\ clock' = clock + 1
        /\ target' = [target EXCEPT ![l] = None] /\ document' = document /\ target[l] # None
    BY <1>5 DEF DeleteTranslation, Relay
  <2>2. <<document, None>> \in Content'
    BY <1>0, <2>1 DEF Content
  <2>3. target' \in [Targets -> {None} \cup 1..clock'] /\ target'[l] = None
        /\ \A k \in Targets : target'[k] \in {target[k], None, clock + 1}
    BY <1>0, <2>1
  <2> QED
    BY <1>0, <2>1, <2>2, <2>3, CommitHands
<1>6. ASSUME NEW l \in Locales, Load(l) \/ Leave(l) PROVE RevisionsHanded'
  <2>1. UNCHANGED <<document, target, clock, relays>> /\ Current(l) \in Content
    BY <1>6, CurrentIsContent DEF Load, Leave, HandedInv
  <2>2. \A k \in Locales : room'[k] # Closed => room'[k].known \in Content
    BY <1>6, <2>1 DEF Load, Leave, Opened, HandedInv, RelayInv, RevisionsHanded
  <2> QED
    BY <2>1, <2>2 DEF HandedInv, RevisionsHanded, Handed, Gone, Content
<1>7. CASE UNCHANGED vars
  BY <1>7 DEF vars, HandedInv, RevisionsHanded, Handed, Gone, Content
<1> QED
  BY <1>1, <1>3, <1>4, <1>5, <1>6, <1>7, ReceiveHands DEF Next

LEMMA HandedInvInit == Init => HandedInv
<1> SUFFICES ASSUME Init PROVE RevisionsHanded
  BY RelayInvInit DEF HandedInv
<1>1. clock \in 1..MaxCommits /\ document \in 1..clock
  BY BoundAssumption DEF Init
<1> QED
  BY <1>1 DEF Init, RevisionsHanded

(***************************************************************************)
(* Rooms and the document are at revisions that were handed out.           *)
(***************************************************************************)
THEOREM TypeCorrect == Spec => []TypeOK
<1>1. HandedInv => TypeOK
  BY HandedIsTyped DEF HandedInv
<1> QED
  BY <1>1, HandedInvInit, HandedInvNext, PTL DEF Spec

-------------------------------------------------------------------------------
(***************************************************************************)
(* White space that both runtimes trim, or neither does, tells them alike. *)
(***************************************************************************)
Agreed == {None, 0, Space} \cup {n \in Int : n > 0}

LEMMA BlankAlike == \A v \in Agreed : v \in GoBlank <=> v \in TsBlank
BY DEF Agreed, GoBlank, TsBlank, None, Space, NextLine, ByteOrderMark

LEMMA AgreedTextsValidateAlike ==
    ASSUME NEW r, \A f \in TextFields \cup {"expectedTarget", "acceptedTarget"} : r[f] \in Agreed
    PROVE  ValidateRelayInteractiveAIDocumentMutationRequest(r)
             <=> assertRelayInteractiveAIDocumentMutationRequest(r)
<1>1. \A f \in TextFields : r[f] \in GoBlank <=> r[f] \in TsBlank
  BY BlankAlike
<1>2. /\ r.expectedTarget \in GoBlank <=> r.expectedTarget \in TsBlank
      /\ r.acceptedTarget \in GoBlank <=> r.acceptedTarget \in TsBlank
  BY BlankAlike
<1> QED
  BY <1>1, <1>2, Zenon DEF ValidateRelayInteractiveAIDocumentMutationRequest,
                           assertRelayInteractiveAIDocumentMutationRequest

-------------------------------------------------------------------------------
(***************************************************************************)
(* A commit sends a relay that was not sent before: its revisions are new, *)
(* or it deletes a target at a revision that was not deleted before.       *)
(***************************************************************************)
LEMMA CommitIsRelayed ==
    ASSUME HandedInv, NEW l \in Locales, NEW operations, NEW to, Relay(l, operations, to),
           OperationsKnown(Request(l, operations, to)), LifecycleExclusive(Request(l, operations, to)),
           DocumentRevisionFits(Request(l, operations, to)), TargetRevisionsFit(Request(l, operations, to)),
           to \in Content',
           to \notin Content \/ (operations = <<"deleteTranslation">> /\ l \in Targets)
    PROVE  \E relay \in relays' \ relays : assertRelayInteractiveAIDocumentMutationRequest(relay.request)
<1> DEFINE r == Request(l, operations, to)
           new == [locale |-> l, request |-> r, from |-> Current(l), to |-> to]
<1>1. clock \in Nat /\ clock' = clock + 1 /\ Current(l) \in Content
  BY CurrentIsContent, BoundAssumption DEF HandedInv, RevisionsHanded, Relay
<1>2. \A f \in TextFields \cup {"expectedTarget", "acceptedTarget"} :
         r[f] \in {None} \cup {n \in Int : n > 0} /\ (f \in TextFields => r[f] # None)
  <2>1. Current(l)[1] \in 1..clock /\ Current(l)[2] \in {None} \cup 1..clock
    BY <1>1 DEF Content
  <2>2. to[1] \in 1..(clock + 1) /\ to[2] \in {None} \cup 1..(clock + 1)
    BY <1>1 DEF Content
  <2>3. Named > 0 /\ \A n \in 1..(clock + 1) : n \in Int /\ n > 0 /\ n # None
    BY <1>1 DEF Named, None
  <2> QED
    BY <1>1, <2>1, <2>2, <2>3 DEF Request, TextFields, Named
<1>3. ValidateRelayInteractiveAIDocumentMutationRequest(r)
  <2>1. /\ \A f \in TextFields : r[f] \notin GoBlank
        /\ r.expectedTarget \notin GoBlank /\ r.acceptedTarget \notin GoBlank
    BY <1>2 DEF GoBlank, None, Space, NextLine
  <2>2. r.origin = "MCP" /\ r.domain \in Domains
    BY DEF Request, Domains
  <2> QED
    BY <2>1, <2>2, Zenon DEF ValidateRelayInteractiveAIDocumentMutationRequest
<1>4. assertRelayInteractiveAIDocumentMutationRequest(r)
  <2>1. \A f \in TextFields \cup {"expectedTarget", "acceptedTarget"} : r[f] \in Agreed
    BY <1>2 DEF Agreed
  <2> QED
    BY <1>3, <2>1, AgreedTextsValidateAlike
<1>5. new \in relays'
  BY <1>3 DEF Relay
<1>6. new \notin relays
  <2> SUFFICES ASSUME new \in relays PROVE FALSE
    OBVIOUS
  <2>1. Handed(new) /\ Gone(new)
    BY DEF HandedInv, RevisionsHanded
  <2>2. to \in Content
    BY <2>1 DEF Handed
  <2>3. CASE operations = <<"deleteTranslation">> /\ l \in Targets
    <3>1. Current(l)[2] # target[l]
      BY <2>1, <2>3 DEF Gone, Request
    <3> QED
      BY <2>3, <3>1, LocalesDiffer DEF Current
  <2> QED
    BY <2>2, <2>3
<1> QED
  BY <1>4, <1>5, <1>6

LEMMA EditsFit ==
    ASSUME NEW r, r.operations \in Edits
    PROVE  /\ OperationsKnown(r) /\ LifecycleExclusive(r)
           /\ (r.expectedTarget # None => r.acceptedTarget # None) => TargetRevisionsFit(r)
<1>1. r.operations = <<"setField">> \/ r.operations = <<"insertBlock", "setField">>
  BY DEF Edits
<1>2. CASE r.operations = <<"setField">>
  BY <1>2 DEF OperationsKnown, LifecycleExclusive, LifecycleCases, TargetRevisionsFit, NoCase
<1>3. CASE r.operations = <<"insertBlock", "setField">>
  <2>1. \A i \in DOMAIN r.operations : r.operations[i] \in {"insertBlock", "setField"}
    BY <1>3
  <2>2. r.operations # <<>> /\ Len(r.operations) = 2
    BY <1>3
  <2>3. Len(<<"createTranslation">>) = 1 /\ Len(<<"deleteTranslation">>) = 1
    OBVIOUS
  <2> QED
    BY <2>1, <2>2, <2>3 DEF OperationsKnown, LifecycleExclusive, LifecycleCases, TargetRevisionsFit, NoCase
<1> QED
  BY <1>1, <1>2, <1>3

LEMMA LifecyclesFit ==
    ASSUME NEW r
    PROVE  /\ r.operations = <<"createTranslation">> /\ r.expectedTarget = None /\ r.acceptedTarget # None =>
                OperationsKnown(r) /\ LifecycleExclusive(r) /\ TargetRevisionsFit(r)
           /\ r.operations = <<"deleteTranslation">> /\ r.expectedTarget # None /\ r.acceptedTarget = None =>
                OperationsKnown(r) /\ LifecycleExclusive(r) /\ TargetRevisionsFit(r)
<1>1. ASSUME NEW c \in {"createTranslation", "deleteTranslation"}, r.operations = <<c>>
      PROVE  OperationsKnown(r) /\ LifecycleExclusive(r) /\ r.operations[1] = c
  BY <1>1 DEF OperationsKnown, LifecycleExclusive, NoCase
<1> QED
  BY <1>1 DEF TargetRevisionsFit

(***************************************************************************)
(* No commit is left out: each is relayed in a request that the receiver   *)
(* accepts and that was not sent before.                                   *)
(***************************************************************************)
THEOREM CommitsAreRelayed == Spec => EveryCommitIsRelayed
<1>1. ASSUME HandedInv, Next, clock' # clock
      PROVE  \E relay \in relays' \ relays : assertRelayInteractiveAIDocumentMutationRequest(relay.request)
  <2>0. /\ clock \in 1..MaxCommits /\ document \in 1..clock
        /\ target \in [Targets -> {None} \cup 1..clock] /\ clock + 1 \notin 1..clock
        /\ clock + 1 \in 1..(clock + 1) /\ document \in 1..(clock + 1) /\ None \notin 1..(clock + 1)
        /\ \A l \in Targets : l \in Locales /\ l # Source
    BY <1>1, BoundAssumption, LocalesDiffer DEF HandedInv, RevisionsHanded, Locales, None
  <2>1. ASSUME NEW operations \in Edits, WriteSource(operations)
        PROVE  \E relay \in relays' \ relays : assertRelayInteractiveAIDocumentMutationRequest(relay.request)
    <3> DEFINE r == Request(Source, operations, <<clock + 1, None>>)
    <3>1. Relay(Source, operations, <<clock + 1, None>>) /\ Source \in Locales /\ clock' = clock + 1
      BY <2>1 DEF WriteSource, Relay, Locales
    <3>2. /\ r.operations = operations /\ r.expectedTarget = None /\ r.acceptedTarget = None
          /\ r.expectedDocument = document /\ r.acceptedDocument = clock + 1
      BY DEF Request, Current
    <3>3. DocumentRevisionFits(r)
      BY <2>0, <3>2 DEF DocumentRevisionFits, IsTargetMutation
    <3>4. OperationsKnown(r) /\ LifecycleExclusive(r) /\ TargetRevisionsFit(r)
      BY <3>2, EditsFit
    <3>5. <<clock + 1, None>> \in Content' /\ <<clock + 1, None>> \notin Content
      BY <2>0, <3>1 DEF Content
    <3> QED
      BY <1>1, <3>1, <3>3, <3>4, <3>5, CommitIsRelayed
  <2>2. ASSUME NEW l \in Targets, NEW operations, Relay(l, operations, <<document, clock + 1>>),
               operations \in Edits \/ (operations = <<"createTranslation">> /\ target[l] = None)
        PROVE  \E relay \in relays' \ relays : assertRelayInteractiveAIDocumentMutationRequest(relay.request)
    <3> DEFINE r == Request(l, operations, <<document, clock + 1>>)
    <3>1. /\ r.operations = operations /\ r.expectedTarget = target[l] /\ r.acceptedTarget = clock + 1
          /\ r.expectedDocument = document /\ r.acceptedDocument = document
      BY <2>0 DEF Request, Current
    <3>2. clock + 1 # None /\ DocumentRevisionFits(r)
      BY <2>0, <3>1 DEF DocumentRevisionFits, IsTargetMutation
    <3>3. OperationsKnown(r) /\ LifecycleExclusive(r) /\ TargetRevisionsFit(r)
      BY <2>2, <3>1, <3>2, EditsFit, LifecyclesFit
    <3>4. clock' = clock + 1
      BY <2>2 DEF Relay
    <3>5. <<document, clock + 1>> \in Content' /\ <<document, clock + 1>> \notin Content
      BY <2>0, <3>2, <3>4 DEF Content
    <3> QED
      BY <1>1, <2>0, <2>2, <3>2, <3>3, <3>5, CommitIsRelayed
  <2>3. ASSUME NEW l \in Targets, DeleteTranslation(l)
        PROVE  \E relay \in relays' \ relays : assertRelayInteractiveAIDocumentMutationRequest(relay.request)
    <3> DEFINE r == Request(l, <<"deleteTranslation">>, <<document, None>>)
    <3>1. Relay(l, <<"deleteTranslation">>, <<document, None>>) /\ target[l] # None /\ clock' = clock + 1
      BY <2>3 DEF DeleteTranslation, Relay
    <3>2. /\ r.operations = <<"deleteTranslation">> /\ r.expectedTarget = target[l] /\ r.acceptedTarget = None
          /\ r.expectedDocument = document /\ r.acceptedDocument = document
      BY <2>0 DEF Request, Current
    <3>3. DocumentRevisionFits(r)
      BY <3>1, <3>2 DEF DocumentRevisionFits, IsTargetMutation
    <3>4. OperationsKnown(r) /\ LifecycleExclusive(r) /\ TargetRevisionsFit(r)
      BY <3>1, <3>2, LifecyclesFit
    <3>5. <<document, None>> \in Content'
      BY <2>0, <3>1 DEF Content
    <3> QED
      BY <1>1, <2>0, <3>1, <3>3, <3>4, <3>5, CommitIsRelayed
  <2>4. ASSUME NEW l \in Targets, NEW operations \in Edits, WriteTarget(l, operations)
        PROVE  \E relay \in relays' \ relays : assertRelayInteractiveAIDocumentMutationRequest(relay.request)
    BY <2>2, <2>4 DEF WriteTarget
  <2>5. ASSUME NEW l \in Targets, CreateTranslation(l)
        PROVE  \E relay \in relays' \ relays : assertRelayInteractiveAIDocumentMutationRequest(relay.request)
    BY <2>2, <2>5 DEF CreateTranslation
  <2> QED
    BY <1>1, <2>1, <2>3, <2>4, <2>5 DEF Next, Receive, Load, Leave
<1>2. HandedInv /\ [Next]_vars =>
        [clock' # clock =>
           \E relay \in relays' \ relays : assertRelayInteractiveAIDocumentMutationRequest(relay.request)]_vars
  BY <1>1 DEF vars
<1> QED
  BY <1>2, HandedInvInit, HandedInvNext, PTL DEF Spec, EveryCommitIsRelayed

-------------------------------------------------------------------------------
(***************************************************************************)
(* Rooms never go back, since nothing a relay leads to or a room shows is  *)
(* newer than the document (NewestInv): a relay that is applied leads on   *)
(* from what the room shows, and any other makes it load the newest.       *)
(***************************************************************************)
Ahead(relay) == ~Behind(relay.from, relay.to) /\ ~Behind(relay.to, Current(relay.locale))

NewestInv ==
    /\ HandedInv
    /\ \A relay \in relays : Ahead(relay)
    /\ \A l \in Locales : room[l] # Closed => ~Behind(room[l].known, Current(l))

LEMMA NotBehindItself == \A c \in Content : clock \in Nat => ~Behind(c, c)
BY DEF Content, Behind, None

\* What a commit does to the document, its targets and the relays.
Advances(l, operations) ==
    /\ Relay(l, operations, Current(l)') /\ clock' = clock + 1
    /\ document' \in {document, clock + 1}
    /\ \A k \in Targets : target'[k] \in {target[k], None, clock + 1}

LEMMA CommitAdvances ==
    ASSUME HandedInv,
           \/ \E operations \in Edits : WriteSource(operations)
           \/ \E l \in Targets, operations \in Edits : WriteTarget(l, operations)
           \/ \E l \in Targets : CreateTranslation(l) \/ DeleteTranslation(l)
    PROVE  \E l \in Locales : \E operations : Advances(l, operations)
<1>0. target \in [Targets -> {None} \cup 1..clock] /\ \A l \in Targets : l \in Locales /\ l # Source
  BY LocalesDiffer DEF HandedInv, RevisionsHanded, Locales
<1>1. ASSUME NEW operations \in Edits, WriteSource(operations) PROVE Advances(Source, operations)
  <2>1. Current(Source)' = <<clock + 1, None>>
    BY <1>1 DEF WriteSource, Current
  <2> QED
    BY <1>1, <2>1 DEF WriteSource, Advances, Relay
<1>2. ASSUME NEW l \in Targets, NEW operations, Relay(l, operations, <<document, clock + 1>>),
             target' = [target EXCEPT ![l] = clock + 1], document' = document
      PROVE  Advances(l, operations)
  <2>1. Current(l)' = <<document, clock + 1>>
    BY <1>0, <1>2 DEF Current
  <2> QED
    BY <1>0, <1>2, <2>1 DEF Advances, Relay
<1>3. ASSUME NEW l \in Targets, DeleteTranslation(l) PROVE Advances(l, <<"deleteTranslation">>)
  <2>1. Current(l)' = <<document, None>>
    BY <1>0, <1>3 DEF DeleteTranslation, Current
  <2> QED
    BY <1>0, <1>3, <2>1 DEF DeleteTranslation, Advances, Relay
<1>4. ASSUME NEW l \in Targets, NEW operations \in Edits, WriteTarget(l, operations)
      PROVE  Advances(l, operations)
  BY <1>2, <1>4 DEF WriteTarget
<1>5. ASSUME NEW l \in Targets, CreateTranslation(l) PROVE Advances(l, <<"createTranslation">>)
  BY <1>2, <1>5 DEF CreateTranslation
<1>6. Source \in Locales
  BY DEF Locales
<1> QED
  BY <1>0, <1>1, <1>3, <1>4, <1>5, <1>6

LEMMA CommitKeepsNewest ==
    ASSUME NewestInv, HandedInv', NEW l \in Locales, NEW operations, Advances(l, operations)
    PROVE  NewestInv'
<1>0. /\ clock \in Nat /\ clock' = clock + 1 /\ document \in 1..clock /\ room' = room
      /\ target \in [Targets -> {None} \cup 1..clock]
      /\ \A k \in Locales : Current(k) \in Content
  BY BoundAssumption, CurrentIsContent DEF NewestInv, HandedInv, RevisionsHanded, Advances, Relay
<1>1. ASSUME NEW k \in Locales, NEW c \in Content, ~Behind(c, Current(k))
      PROVE  ~Behind(c, Current(k)')
  <2>1. c[1] \in 1..clock /\ c[2] \in {None} \cup 1..clock
    BY DEF Content
  <2>2. CASE k = Source
    BY <1>0, <1>1, <2>1, <2>2 DEF Advances, Current, Behind, None
  <2>3. CASE k # Source
    <3>1. k \in Targets /\ target[k] \in {None} \cup 1..clock /\ target'[k] \in {target[k], None, clock + 1}
      BY <1>0, <2>3 DEF Locales, Advances
    <3>2. ~(document < c[1]) /\ (target[k] = None \/ c[2] = None \/ ~(target[k] < c[2]))
      BY <1>1, <2>3 DEF Current, Behind
    <3>3. ~(document' < c[1])
      BY <1>0, <2>1, <3>2 DEF Advances
    <3>4. target'[k] = None \/ c[2] = None \/ ~(target'[k] < c[2])
      BY <1>0, <2>1, <3>1, <3>2 DEF None
    <3> QED
      BY <2>3, <3>3, <3>4 DEF Current, Behind
  <2> QED
    BY <2>2, <2>3
<1> DEFINE new == [locale |-> l, request |-> Request(l, operations, Current(l)'), from |-> Current(l), to |-> Current(l)']
<1>2. ASSUME NEW relay \in relays' PROVE Ahead(relay)'
  <2>1. CASE relay \in relays
    BY <1>1, <2>1 DEF NewestInv, HandedInv, RevisionsHanded, Handed, Ahead
  <2>2. CASE relay = new
    <3>1. ~Behind(Current(l), Current(l)')
      BY <1>0, <1>1, NotBehindItself
    <3>2. Current(l)' \in Content' /\ clock' \in Nat
      <4>1. RevisionsHanded'
        BY DEF HandedInv
      <4>2. Current(l)'[2] \in {None} \cup 1..clock'
        BY <4>1 DEF RevisionsHanded, Current, Locales
      <4> QED
        BY <1>0, <4>1, <4>2 DEF RevisionsHanded, Current, Content
    <3>3. ~Behind(Current(l)', Current(l)')
      BY <3>2 DEF Content, Behind, None
    <3> QED
      BY <2>2, <3>1, <3>3 DEF Ahead
  <2> QED
    BY <2>1, <2>2 DEF Advances, Relay
<1>3. ASSUME NEW k \in Locales, room'[k] # Closed PROVE ~Behind(room'[k].known, Current(k)')
  BY <1>0, <1>1, <1>3 DEF NewestInv, HandedInv, RevisionsHanded
<1> QED
  BY <1>2, <1>3 DEF NewestInv

\* What a receipt does to the room of the relay.
LEMMA ReceiptGoesOn ==
    ASSUME NewestInv, NEW relay \in relays, NEW unseen \in Unseen, Receive(relay, unseen)
    PROVE  LET l == relay.locale
           IN /\ l \in Locales /\ room[l] # Closed
              /\ room'[l].known \in {relay.to, Current(l)} \cap Content
              /\ ~Behind(room[l].known, room'[l].known)
<1> DEFINE l == relay.locale
           request == Seen(relay.request, unseen)
<1>1. /\ l \in Locales /\ Fit(relay) /\ Ahead(relay) /\ relay.to \in Content /\ Current(l) \in Content
      /\ room[l] # Closed /\ ~Behind(room[l].known, Current(l)) /\ l \in DOMAIN room
  BY CurrentIsContent DEF Receive, NewestInv, HandedInv, RelayInv, RelaysFit, RevisionsHanded, Handed
<1>2. /\ <<request.expectedDocument, request.expectedTarget>> = relay.from
      /\ <<request.acceptedDocument, request.acceptedTarget>> = relay.to
  BY <1>1, IncompleteFailsClosed DEF Receive, Fit, SameMutation
<1>3. CASE room[l].known = relay.from
  <2>1. room'[l].known = relay.to
    BY <1>1, <1>2, <1>3 DEF Receive
  <2> QED
    BY <1>1, <1>3, <2>1 DEF Ahead
<1>4. CASE room[l].known # relay.from
  <2>1. room'[l].known = Current(l)
    BY <1>1, <1>2, <1>4 DEF Receive, Opened
  <2> QED
    BY <1>1, <2>1
<1> QED
  BY <1>3, <1>4

LEMMA NewestInvInit == Init => NewestInv
BY HandedInvInit DEF Init, NewestInv

LEMMA NewestInvNext == NewestInv /\ [Next]_vars => NewestInv'
<1> SUFFICES ASSUME NewestInv, [Next]_vars PROVE NewestInv'
  OBVIOUS
<1>0. HandedInv' /\ HandedInv /\ \A l \in Locales : Current(l) \in Content /\ l \in DOMAIN room
  BY HandedInvNext, CurrentIsContent DEF NewestInv, HandedInv, RelayInv
<1>1. ASSUME UNCHANGED <<document, target, clock, relays>>,
             \A l \in Locales : room'[l] # Closed => room'[l] = room[l] \/ ~Behind(room'[l].known, Current(l))
      PROVE  NewestInv'
  BY <1>0, <1>1 DEF NewestInv, Ahead, Current
<1>2. ASSUME NEW relay \in relays, NEW unseen \in Unseen, Receive(relay, unseen) PROVE NewestInv'
  <2>1. clock \in Nat /\ Ahead(relay) /\ Current(relay.locale) \in Content
    BY <1>0, <1>2, BoundAssumption, ReceiptGoesOn DEF NewestInv, HandedInv, RevisionsHanded
  <2>2. ~Behind(room'[relay.locale].known, Current(relay.locale))
    BY <1>2, <2>1, ReceiptGoesOn, NotBehindItself DEF Ahead
  <2>3. \A l \in Locales : l # relay.locale => room'[l] = room[l]
    BY <1>2 DEF Receive
  <2> QED
    BY <1>1, <1>2, <2>2, <2>3 DEF Receive
<1>3. ASSUME NEW l \in Locales, Load(l) \/ Leave(l) PROVE NewestInv'
  <2>1. ~Behind(Current(l), Current(l))
    BY <1>0, BoundAssumption, NotBehindItself DEF HandedInv, RevisionsHanded
  <2>2. \A k \in Locales : room'[k] # Closed => room'[k] = room[k] \/ ~Behind(room'[k].known, Current(k))
    BY <1>0, <1>3, <2>1 DEF Load, Leave, Opened
  <2> QED
    BY <1>1, <1>3, <2>2 DEF Load, Leave
<1>4. CASE UNCHANGED vars
  BY <1>1, <1>4 DEF vars
<1>5. CASE \E l \in Locales : \E operations : Advances(l, operations)
  BY <1>0, <1>5, CommitKeepsNewest
<1> QED
  BY <1>0, <1>2, <1>3, <1>4, <1>5, CommitAdvances DEF Next

(***************************************************************************)
(* No room goes back to an older revision of the document or of a target.  *)
(***************************************************************************)
THEOREM RoomsGoOn == Spec => RoomsNeverGoBack
<1>1. ASSUME NewestInv, NewestInv', [Next]_vars, NEW l \in Locales, room[l] # Closed, room'[l] # Closed
      PROVE  ~Behind(room[l].shown, room'[l].shown)
  <2>1. room[l].shown = room[l].known /\ room'[l].shown = room'[l].known
    BY <1>1 DEF NewestInv, HandedInv, RelayInv, RoomsShowWhatTheyKnow
  <2>2. /\ room[l].known \in Content /\ clock \in Nat /\ l \in DOMAIN room
        /\ ~Behind(room[l].known, Current(l))
    BY <1>1, BoundAssumption DEF NewestInv, HandedInv, RelayInv, RevisionsHanded
  <2>3. CASE room'[l] = room[l]
    BY <2>1, <2>2, <2>3, NotBehindItself
  <2>4. ASSUME NEW relay \in relays, NEW unseen \in Unseen, Receive(relay, unseen)
        PROVE  room'[l] = room[l] \/ ~Behind(room[l].known, room'[l].known)
    BY <1>1, <2>4, ReceiptGoesOn DEF Receive
  <2>5. ASSUME NEW k \in Locales, Load(k) \/ Leave(k)
        PROVE  room'[l] = room[l] \/ ~Behind(room[l].known, room'[l].known)
    BY <1>1, <2>2, <2>5 DEF Load, Leave, Opened
  <2>6. CASE room' = room
    BY <2>3, <2>6
  <2> QED
    BY <1>1, <2>1, <2>3, <2>4, <2>5, <2>6
       DEF Next, vars, WriteSource, WriteTarget, CreateTranslation, DeleteTranslation, Relay
<1>2. NewestInv /\ NewestInv' /\ [Next]_vars =>
        [\A l \in Locales : room[l] # Closed /\ room'[l] # Closed =>
            ~Behind(room[l].shown, room'[l].shown)]_vars
  BY <1>1
<1> QED
  BY <1>2, NewestInvInit, NewestInvNext, PTL DEF Spec, RoomsNeverGoBack
================================================================================
