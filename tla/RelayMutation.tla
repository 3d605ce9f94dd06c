------------------------------ MODULE RelayMutation ------------------------------
(***************************************************************************)
(* One document with a source locale and targets, the API that commits     *)
(* mutations of it, and a Collab room per locale.  After a commit the API  *)
(* relays the mutation to the room of its locale, once and with no retry:  *)
(* a relay may be lost, arrive late, twice or out of order, and a receiver *)
(* of another version of the contract does not see every field of it.      *)
(*                                                                         *)
(* The API and Collab are outside the repository; what they do is said in  *)
(* the comments of collaboration.proto and ai.proto.  A room applies a     *)
(* relay when it is at the revisions the relay expects, and else reloads   *)
(* the document.                                                           *)
(***************************************************************************)
EXTENDS RelayRequest, FiniteSets

CONSTANTS Source, Targets,   \* locales
          MaxCommits         \* bound on the mutations committed

VARIABLES document,   \* revision of the document
          target,     \* revision of each target, None when it is missing
          clock,      \* the newest revision of all
          relays,     \* relays sent, with the contents they lead from and to
          room        \* what each resident room shows, and takes it for

vars == <<document, target, clock, relays, room>>

Locales == {Source} \cup Targets
ASSUME LocalesDiffer == Source \notin Targets
ASSUME BoundAssumption == MaxCommits \in Nat \ {0}

\* Texts that name something.
Named == 1

\* A room's content is named by the revisions it was committed at.
Closed  == <<>>
Garbage == <<0, 0>>
Current(l) == <<document, IF l = Source THEN None ELSE target[l]>>
Opened(content) == [shown |-> content, known |-> content]

Init ==
    /\ document = 1 /\ clock = 1
    /\ target = [l \in Targets |-> None]
    /\ relays = {}
    /\ room = [l \in Locales |-> Closed]

-------------------------------------------------------------------------------
(***************************************************************************)
(* The API commits a mutation that changed something and relays it, if the *)
(* validator lets it.                                                      *)
(***************************************************************************)
Request(l, operations, to) ==
    [mutationId |-> Named, origin |-> "MCP", domain |-> "POST", reference |-> Named,
     locale |-> Named, actor |-> Named, operations |-> operations,
     expectedDocument |-> Current(l)[1], acceptedDocument |-> to[1],
     expectedTarget   |-> Current(l)[2], acceptedTarget   |-> to[2]]

Relay(l, operations, to) ==
    LET request == Request(l, operations, to)
    IN /\ clock < MaxCommits
       /\ clock' = clock + 1
       /\ relays' = IF ValidateRelayInteractiveAIDocumentMutationRequest(request)
                    THEN relays \cup {[locale |-> l, request |-> request, from |-> Current(l), to |-> to]}
                    ELSE relays
       /\ UNCHANGED room

Edits == {<<"setField">>, <<"insertBlock", "setField">>}

WriteSource(operations) ==
    /\ Relay(Source, operations, <<clock + 1, None>>)
    /\ document' = clock + 1
    /\ UNCHANGED target

\* The first write of a missing target creates it.
WriteTarget(l, operations) ==
    /\ Relay(l, operations, <<document, clock + 1>>)
    /\ target' = [target EXCEPT ![l] = clock + 1]
    /\ UNCHANGED document

CreateTranslation(l) ==
    /\ target[l] = None
    /\ Relay(l, <<"createTranslation">>, <<document, clock + 1>>)
    /\ target' = [target EXCEPT ![l] = clock + 1]
    /\ UNCHANGED document

DeleteTranslation(l) ==
    /\ target[l] # None
    /\ Relay(l, <<"deleteTranslation">>, <<document, None>>)
    /\ target' = [target EXCEPT ![l] = None]
    /\ UNCHANGED document

-------------------------------------------------------------------------------
(***************************************************************************)
(* Fields a receiver may not see: any one, both revisions of a target, or  *)
(* the case of an operation.  Left out is the expected revision of a       *)
(* target alone: a later write of the target then reads as its first, and  *)
(* a room that takes the target for missing applies it.                    *)
(***************************************************************************)
Fields == {"mutationId", "origin", "domain", "reference", "locale", "actor", "operations",
           "expectedDocument", "acceptedDocument", "acceptedTarget"}
Unseen == {{}, {"expectedTarget", "acceptedTarget"}, {"case"}} \cup {{f} : f \in Fields}

Seen(r, unseen) ==
    LET Part(f, value, default) == IF f \in unseen THEN default ELSE value
    IN [mutationId |-> Part("mutationId", r.mutationId, 0),
        origin     |-> Part("origin", r.origin, "UNSPECIFIED"),
        domain     |-> Part("domain", r.domain, "UNSPECIFIED"),
        reference  |-> Part("reference", r.reference, 0),
        locale     |-> Part("locale", r.locale, 0),
        actor      |-> Part("actor", r.actor, 0),
        operations |-> IF "case" \in unseen THEN <<NoCase>> \o Tail(r.operations)
                                            ELSE Part("operations", r.operations, <<>>),
        expectedDocument |-> Part("expectedDocument", r.expectedDocument, 0),
        acceptedDocument |-> Part("acceptedDocument", r.acceptedDocument, 0),
        expectedTarget   |-> Part("expectedTarget", r.expectedTarget, None),
        acceptedTarget   |-> Part("acceptedTarget", r.acceptedTarget, None)]

\* Content after the operations of a relay, as far as the receiver knows them.
After(content, relay, operations) ==
    IF content = relay.from /\ operations = relay.request.operations THEN relay.to ELSE Garbage

(* Mutant: only the revision of the document is compared.                  *)
ReceiveByDocument(relay, unseen) ==
    LET l == relay.locale
        request == Seen(relay.request, unseen)
    IN /\ room[l] # Closed
       /\ assertRelayInteractiveAIDocumentMutationRequest(request)
       /\ room' = [room EXCEPT ![l] =
             IF @.known[1] = request.expectedDocument
             THEN Opened(<<request.acceptedDocument, request.acceptedTarget>>)
             ELSE Opened(Current(l))]
       /\ UNCHANGED <<document, target, clock, relays>>

Receive(relay, unseen) ==
    LET l == relay.locale
        request == Seen(relay.request, unseen)
    IN /\ room[l] # Closed
       /\ assertRelayInteractiveAIDocumentMutationRequest(request)
       /\ room' = [room EXCEPT ![l] =
             IF @.known = <<request.expectedDocument, request.expectedTarget>>
             THEN [shown |-> After(@.shown, relay, request.operations),
                   known |-> <<request.acceptedDocument, request.acceptedTarget>>]
             ELSE Opened(Current(l))]
       /\ UNCHANGED <<document, target, clock, relays>>

\* A room becomes resident, or has another reason to load the document.
Load(l) == room' = [room EXCEPT ![l] = Opened(Current(l))] /\ UNCHANGED <<document, target, clock, relays>>
Leave(l) == room' = [room EXCEPT ![l] = Closed] /\ UNCHANGED <<document, target, clock, relays>>

Next ==
    \/ \E operations \in Edits : WriteSource(operations)
    \/ \E l \in Targets, operations \in Edits : WriteTarget(l, operations)
    \/ \E l \in Targets : CreateTranslation(l) \/ DeleteTranslation(l)
    \/ \E relay \in relays, unseen \in Unseen : Receive(relay, unseen)
    \/ \E l \in Locales : Load(l) \/ Leave(l)

Spec == Init /\ [][Next]_vars

-------------------------------------------------------------------------------
(***************************************************************************)
(* Rooms and the document are at revisions that were handed out.           *)
(***************************************************************************)
Content == (1..clock) \X ({None} \cup 1..clock)

TypeOK ==
    /\ clock \in 1..MaxCommits
    /\ \A l \in Locales : Current(l) \in Content
    /\ \A l \in Locales : room[l] # Closed => room[l].known \in Content

(***************************************************************************)
(* A room shows the content of the revisions it takes it for, so that the  *)
(* next relay it applies fits: a request of which a field is not seen      *)
(* "fails closed" or sends the room to reload.                             *)
(***************************************************************************)
RoomsShowWhatTheyKnow == \A l \in Locales : room[l] # Closed => room[l].shown = room[l].known

(***************************************************************************)
(* Every committed mutation is relayed in a request that the receiver      *)
(* accepts: source writes, creations, first and later writes of a target   *)
(* and deletions.                                                          *)
(***************************************************************************)
EveryCommitIsRelayed ==
    [][clock' # clock =>
         \E relay \in relays' \ relays : assertRelayInteractiveAIDocumentMutationRequest(relay.request)]_vars

(***************************************************************************)
(* A room never goes back: a relay that arrives late, again or after a     *)
(* younger one shows nobody an older revision of the document or of the    *)
(* target than the one before.  A missing target has no revision to        *)
(* compare, so its creation may still arrive after its deletion.           *)
(***************************************************************************)
Behind(old, new) ==
    \/ new[1] < old[1]
    \/ new[2] < old[2] /\ new[2] # None /\ old[2] # None

RoomsNeverGoBack ==
    [][\A l \in Locales : room[l] # Closed /\ room'[l] # Closed =>
          ~Behind(room[l].shown, room'[l].shown)]_vars
================================================================================
